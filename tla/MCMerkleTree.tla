--------------------------- MODULE MCMerkleTree ---------------------------
EXTENDS MerkleTree, SequencesExt, TLC

\* The hashes of a log's subtrees: slices that start at a multiple of their
\* width and end there or with the log.
Subtrees(ls) ==
    UNION {{Root[IF i * w + w <= Len(ls) THEN w ELSE Len(ls) - i * w][ls][i * w] :
                i \in {j \in 0 .. Len(ls) : j * w < Len(ls)}} : w \in {1, 2, 4, 8}}

\* One hash of the path is changed, dropped or added.
MCForgedPaths(ls, path) ==
    {ReplaceAt(path, i, h) : i \in DOMAIN path, h \in Subtrees(ls)}
      \cup {RemoveAt(path, i) : i \in DOMAIN path}
      \cup {Append(path, h) : h \in Subtrees(ls)}

\* The roots of the log's prefixes and of those of its forks in one leaf.
MCForgedRoots(ls) ==
    {Root[m][fork][0] : m \in 1 .. Len(ls),
                        fork \in {[ls EXCEPT ![i] = d] : i \in 1 .. Len(ls), d \in Data}}

DataSymmetry == Permutations(Data)
=============================================================================
