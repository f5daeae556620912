SPECIFICATION Spec
CONSTANTS
    Data = {d1, d2}
    MaxLeaves = 6
    ForgedPaths <- MCForgedPaths
    ForgedRoots <- MCForgedRoots
    None = None
INVARIANTS ProverIsBelieved InclusionIsExact ConsistencyIsExact
SYMMETRY DataSymmetry
