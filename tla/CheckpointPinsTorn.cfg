\* Two resolves at once, a log that only grows: the file is torn.
SPECIFICATION Spec
CONSTANTS
    Resolvers = {r1, r2}
    Branches = {x}
    Inodes = {i1, i2, i3, i4}
    None = None
    Torn = Torn
    MaxSize = 3
    WideFrom = 2
    Concurrent = TRUE
    MayRestore = FALSE
INVARIANTS PinsReadable
