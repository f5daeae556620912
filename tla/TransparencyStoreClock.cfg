\* One caller, one name, and a clock that is set back between two commits.
SPECIFICATION Spec
CONSTANTS
  Ids = {alice}
  Keys = {k1}
  Hashes = {1, 2}
  None = None
  Callers = {p}
  Operators = {o1}
  MaxEvents = 2
  MaxTime = 1
  ClockMayStepBack = TRUE
INVARIANT StoreReplays
