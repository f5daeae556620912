\* Two callers race to register one name and then to extend it, under an
\* operator key that may be rotated.
SPECIFICATION Spec
CONSTANTS
  Ids = {alice}
  Keys = {k1, k2}
  Hashes = {1, 2, 3}
  None = None
  Callers = {p, q}
  Operators = {o1, o2}
  MaxEvents = 2
  MaxTime = 1
  ClockMayStepBack = FALSE
SYMMETRY Symmetry
INVARIANTS
  TypeOK
  StoreReplays
  OneSuccessorPerHead
  AnchorsHold
  TablesAdvanceTogether
PROPERTIES
  AppendOnly
  LoadIsSnapshot
  CommitsOverWhatWasRead
  ImplementsRegistry
