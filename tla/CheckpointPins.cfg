\* One resolve at a time, a log that may be rolled back and forked.
SPECIFICATION Spec
CONSTANTS
    Resolvers = {r1}
    Branches = {x, y}
    Inodes = {i1, i2, i3}
    None = None
    Torn = Torn
    MaxSize = 3
    WideFrom = 2
    Concurrent = FALSE
    MayRestore = TRUE
INVARIANTS TypeOK PinsReadable JudgedByTheLog
PROPERTIES PinNeverRollsBack
