\* Two names, a client with a key of its own, and keys for an identity, a
\* rotation and a replacement.
SPECIFICATION Spec
CONSTANTS
    Aliases = {alice, bob}
    ServerKeys = {s1, s2, s3}
    ClientKeys = {c}
    MaxEvents = 2
    None = None
SYMMETRY Symmetry
INVARIANTS TypeOK OwnerKeysOnDisk FilesFollowTheLog
