\* Two identifiers and two keys: a third of either only renames the same
\* substitutions. Four events hold a registration, a rotation, the rotation
\* back to the first key and a revocation; what is proposed after it is refused.
SPECIFICATION Spec
CONSTANTS
  Ids = {alice, bob}
  Keys = {k1, k2}
  None = None
  Hashes = {1, 2, 3, 4, 5}
  MaxHistory = 4
INVARIANTS
  TypeOK
  VerifiersAgree
  OwnershipTraceable
  RevocationTerminal
CHECK_DEADLOCK FALSE
