------------------------- MODULE MerkleTree_proofs -------------------------
(***************************************************************************)
(* Proofs about the Merkle tree: for a log of any size, the verifiers      *)
(* accept the prover's path for a true claim, and nothing else.            *)
(*                                                                         *)
(* The verifiers climb the tree level by level.  The slices of the log     *)
(* that the prover recurses over are, on the level where nodes are w       *)
(* leaves wide, those that start at a multiple of w and end w further or   *)
(* with the log.  The invariants say of the node a verifier is at what its *)
(* hash stands for.                                                        *)
(***************************************************************************)
EXTENDS MerkleTree, TLAPS

-----------------------------------------------------------------------------
(* The recursive functions exist and obey their definitions.               *)

TwoToDef(f, k) == IF k = 0 THEN 1 ELSE 2 * f[k - 1]

RootDef(f, size) ==
    [ls \in Seq(Data) |-> [from \in Nat |->
        IF size = 0 THEN EmptyHash
        ELSE IF size = 1 THEN LeafHash(ls[from + 1])
        ELSE LET k == Split(size)
             IN  NodeHash(f[k][ls][from], f[size - k][ls][from + k])]]

PathDef(f, size) ==
    [ls \in Seq(Data) |-> [from \in Nat |-> [index \in 0 .. size - 1 |->
        IF size <= 1 THEN <<>>
        ELSE LET k == Split(size)
             IN  IF index < k
                 THEN Append(f[k][ls][from][index], Root[size - k][ls][from + k])
                 ELSE Append(f[size - k][ls][from + k][index - k], Root[k][ls][from])]]]

SubProofDef(f, size) ==
    [ls \in Seq(Data) |-> [from \in Nat |-> [m \in 1 .. size |-> [b \in BOOLEAN |->
        IF m = size THEN IF b THEN <<>> ELSE <<Root[size][ls][from]>>
        ELSE LET k == Split(size)
             IN  IF m <= k
                 THEN Append(f[k][ls][from][m][b], Root[size - k][ls][from + k])
                 ELSE Append(f[size - k][ls][from + k][m - k][FALSE],
                             Root[k][ls][from])]]]]

ByTwos == INSTANCE Recursion WITH Def <- TwoToDef
ByRoots == INSTANCE Recursion WITH Def <- RootDef
ByPaths == INSTANCE Recursion WITH Def <- PathDef
BySubProofs == INSTANCE Recursion WITH Def <- SubProofDef

\* Induction on the natural numbers, over the set of those that have a property.
LEMMA Induction ==
    ASSUME NEW S, 0 \in S, \A n \in Nat : n \in S => n + 1 \in S
    PROVE  \A n \in Nat : n \in S
<1>. SUFFICES ASSUME Nat \ S # {} PROVE FALSE
  OBVIOUS
<1>1. PICK m \in Nat \ S : \A k \in Nat \ S : m <= k
  BY ByTwos!LeastElement
<1>2. m - 1 \in Nat /\ m - 1 \in S /\ m = (m - 1) + 1
  BY <1>1
<1>. QED
  BY <1>2

LEMMA StrongInduction ==
    ASSUME NEW S, \A n \in Nat : (\A k \in 0 .. n - 1 : k \in S) => n \in S
    PROVE  \A n \in Nat : n \in S
<1>. SUFFICES ASSUME Nat \ S # {} PROVE FALSE
  OBVIOUS
<1>1. PICK m \in Nat \ S : \A k \in Nat \ S : m <= k
  BY ByTwos!LeastElement
<1>. QED
  BY <1>1

-----------------------------------------------------------------------------
(* Powers of two.                                                          *)

LEMMA TwoToStep == \A k \in Nat : TwoTo[k] = IF k = 0 THEN 1 ELSE 2 * TwoTo[k - 1]
<1>1. \A n \in Nat : ByTwos!Local(n)
  BY DEF ByTwos!Local, TwoToDef
<1>2. TwoTo = CHOOSE g : g = [k \in Nat |-> TwoToDef(g, k)]
  BY DEF TwoTo, TwoToDef
<1>3. TwoTo = [k \in Nat |-> TwoToDef(TwoTo, k)]
  BY <1>1, <1>2, ByTwos!RecursiveFunction
<1>. QED
  BY <1>3 DEF TwoToDef

LEMMA TwoToNat == \A k \in Nat : TwoTo[k] \in Nat /\ TwoTo[k] > k
<1>. DEFINE S == {k \in Nat : TwoTo[k] \in Nat /\ TwoTo[k] > k}
<1>1. 0 \in S
  BY TwoToStep
<1>2. ASSUME NEW k \in Nat, k \in S PROVE k + 1 \in S
  BY <1>2, TwoToStep
<1>. HIDE DEF S
<1>3. \A k \in Nat : k \in S
  BY <1>1, <1>2, Induction
<1>. QED
  BY <1>3 DEF S

Pow == {TwoTo[k] : k \in Nat}

LEMMA PowFacts ==
    /\ 1 \in Pow
    /\ \A w \in Pow : w \in Nat /\ w >= 1 /\ 2 * w \in Pow
    /\ \A w \in Pow : w = 1 \/ \E v \in Pow : w = 2 * v
<1>1. 1 \in Pow
  BY TwoToStep DEF Pow
<1>2. ASSUME NEW k \in Nat
      PROVE  /\ TwoTo[k] \in Nat /\ TwoTo[k] >= 1
             /\ TwoTo[k + 1] = 2 * TwoTo[k]
             /\ TwoTo[k] = 1 \/ (k - 1 \in Nat /\ TwoTo[k] = 2 * TwoTo[k - 1])
  BY TwoToStep, TwoToNat
<1>3. \A w \in Pow : w \in Nat /\ w >= 1 /\ 2 * w \in Pow
  BY <1>2 DEF Pow
<1>4. \A w \in Pow : w = 1 \/ \E v \in Pow : w = 2 * v
  BY <1>2 DEF Pow
<1>. QED
  BY <1>1, <1>3, <1>4

\* Of two powers of two the lesser divides the greater.
LEMMA PowDivides ==
    ASSUME NEW v \in Pow, NEW w \in Pow, v <= w
    PROVE  \E c \in Nat : w = c * v
<1>. DEFINE S == {k \in Nat : \A u \in Pow : u <= TwoTo[k] => \E c \in Nat : TwoTo[k] = c * u}
<1>1. 0 \in S
  <2>1. TwoTo[0] = 1 /\ \A u \in Pow : u \in Nat /\ u >= 1
    BY TwoToStep, PowFacts
  <2>2. ASSUME NEW u \in Pow, u <= 1 PROVE 1 = 1 * u
    BY <2>1, <2>2
  <2>. QED
    BY <2>1, <2>2
<1>2. ASSUME NEW k \in Nat, k \in S PROVE k + 1 \in S
  <2>1. TwoTo[k + 1] = 2 * TwoTo[k] /\ TwoTo[k] \in Nat
    BY TwoToStep, TwoToNat
  <2>2. ASSUME NEW u \in Pow, u <= TwoTo[k + 1]
        PROVE  \E c \in Nat : TwoTo[k + 1] = c * u
    <3>1. CASE u = 1
      BY <2>1, <3>1, 2 * TwoTo[k] \in Nat
    <3>2. CASE u # 1
      <4>1. PICK t \in Pow : u = 2 * t
        BY <3>2, PowFacts
      <4>2. t \in Nat /\ t <= TwoTo[k]
        BY <2>1, <2>2, <4>1, PowFacts
      <4>3. PICK c \in Nat : TwoTo[k] = c * t
        BY <1>2, <4>2
      <4>4. 2 * (c * t) = c * (2 * t)
        BY <4>2
      <4>. QED
        BY <2>1, <4>1, <4>3, <4>4
    <3>. QED
      BY <3>1, <3>2
  <2>. QED
    BY <2>2
<1>. HIDE DEF S
<1>3. \A k \in Nat : k \in S
  BY <1>1, <1>2, Induction
<1>. QED
  BY <1>3 DEF S, Pow

LEMMA PowDoubles ==
    ASSUME NEW v \in Pow, NEW w \in Pow, v < w
    PROVE  2 * v <= w
<1>1. v \in Nat /\ w \in Nat /\ v >= 1 /\ w >= 1
  BY PowFacts
<1>2. PICK c \in Nat : w = c * v
  BY <1>1, PowDivides
<1>3. c # 0 /\ c # 1
  BY <1>1, <1>2
<1>4. c * v >= 2 * v
  BY <1>1, <1>3
<1>. QED
  BY <1>2, <1>4

-----------------------------------------------------------------------------
(* The split of a tree.                                                    *)

LEMMA SplitExists ==
    \A n \in Nat : n >= 2 => \E k \in Pow : k < n /\ n <= 2 * k
<1>. DEFINE S == {n \in Nat : n >= 2 => \E k \in Pow : k < n /\ n <= 2 * k}
<1>1. 0 \in S
  OBVIOUS
<1>2. ASSUME NEW n \in Nat, n \in S PROVE n + 1 \in S
  <2>1. CASE n < 2
    BY <2>1, PowFacts
  <2>2. CASE n >= 2
    <3>1. PICK k \in Pow : k < n /\ n <= 2 * k
      BY <1>2, <2>2
    <3>2. k \in Nat /\ 2 * k \in Pow
      BY PowFacts
    <3>3. CASE n = 2 * k
      BY <3>1, <3>2, <3>3
    <3>4. CASE n < 2 * k
      BY <3>1, <3>2, <3>4
    <3>. QED
      BY <3>1, <3>2, <3>3, <3>4
  <2>. QED
    BY <2>1, <2>2
<1>. HIDE DEF S
<1>3. \A n \in Nat : n \in S
  BY <1>1, <1>2, Induction
<1>. QED
  BY <1>3 DEF S

LEMMA SplitFacts ==
    ASSUME NEW n \in Nat, n >= 2
    PROVE  Split(n) \in Pow /\ Split(n) \in 1 .. n - 1 /\ n <= 2 * Split(n)
<1>1. PICK k \in Pow : k < n /\ n <= 2 * k
  BY SplitExists
<1>2. PICK i \in Nat : k = TwoTo[i]
  BY DEF Pow
<1>3. i \in 0 .. n
  BY <1>1, <1>2, TwoToNat
<1>4. Split(n) \in {TwoTo[j] : j \in 0 .. n} /\ Split(n) < n /\ n <= 2 * Split(n)
  BY <1>1, <1>2, <1>3 DEF Split
<1>5. Split(n) \in Pow
  BY <1>4 DEF Pow
<1>. QED
  BY <1>4, <1>5, PowFacts

LEMMA SplitUnique ==
    ASSUME NEW n \in Nat, NEW k \in Pow, k < n, n <= 2 * k
    PROVE  Split(n) = k
<1>1. k \in Nat /\ k >= 1
  BY PowFacts
<1>2. Split(n) \in Pow /\ Split(n) \in Nat /\ Split(n) < n /\ n <= 2 * Split(n)
  BY <1>1, SplitFacts
<1>3. ~ (Split(n) < k)
  <2>. SUFFICES ASSUME Split(n) < k PROVE FALSE
    OBVIOUS
  <2>1. 2 * Split(n) <= k
    BY <1>2, PowDoubles
  <2>. QED
    BY <1>1, <1>2, <2>1
<1>4. ~ (k < Split(n))
  <2>. SUFFICES ASSUME k < Split(n) PROVE FALSE
    OBVIOUS
  <2>1. 2 * k <= Split(n)
    BY <1>2, PowDoubles
  <2>. QED
    BY <1>1, <1>2, <2>1
<1>. QED
  BY <1>1, <1>2, <1>3, <1>4

-----------------------------------------------------------------------------
(* The prover's functions, unfolded once.                                  *)

RootOf(ls, from, size) == Root[size][ls][from]
PathOf(ls, from, size, index) == Path[size][ls][from][index]
SubProofOf(ls, from, size, m, b) == SubProof[size][ls][from][m][b]

LEMMA RootStep ==
    ASSUME NEW size \in Nat, NEW ls \in Seq(Data), NEW from \in Nat
    PROVE  /\ size = 0 => RootOf(ls, from, size) = EmptyHash
           /\ size = 1 => RootOf(ls, from, size) = LeafHash(ls[from + 1])
           /\ size >= 2 => RootOf(ls, from, size) =
                             NodeHash(RootOf(ls, from, Split(size)),
                                      RootOf(ls, from + Split(size), size - Split(size)))
<1>1. ASSUME NEW n \in Nat PROVE ByRoots!Local(n)
  <2>. SUFFICES ASSUME NEW f, NEW g, \A i \in 0 .. n - 1 : f[i] = g[i]
                PROVE  RootDef(f, n) = RootDef(g, n)
    BY DEF ByRoots!Local
  <2>1. CASE n < 2
    BY <2>1 DEF RootDef
  <2>2. CASE n >= 2
    <3>1. Split(n) \in 1 .. n - 1
      BY <2>2, SplitFacts
    <3>2. f[Split(n)] = g[Split(n)] /\ f[n - Split(n)] = g[n - Split(n)]
      BY <3>1
    <3>. QED
      BY <2>2, <3>2 DEF RootDef
  <2>. QED
    BY <2>1, <2>2
<1>2. Root = CHOOSE g : g = [n \in Nat |-> RootDef(g, n)]
  BY DEF Root, RootDef
<1>3. Root = [n \in Nat |-> RootDef(Root, n)]
  BY <1>1, <1>2, ByRoots!RecursiveFunction
<1>4. Root[size] = RootDef(Root, size)
  BY <1>3, Zenon
<1>. QED
  BY <1>4 DEF RootDef, RootOf

LEMMA PathStep ==
    ASSUME NEW size \in Nat, NEW ls \in Seq(Data), NEW from \in Nat,
           NEW index \in 0 .. size - 1
    PROVE  /\ size = 1 => PathOf(ls, from, size, index) = <<>>
           /\ size >= 2 => PathOf(ls, from, size, index) =
                LET k == Split(size)
                IN  IF index < k
                    THEN Append(PathOf(ls, from, k, index), RootOf(ls, from + k, size - k))
                    ELSE Append(PathOf(ls, from + k, size - k, index - k), RootOf(ls, from, k))
<1>1. ASSUME NEW n \in Nat PROVE ByPaths!Local(n)
  <2>. SUFFICES ASSUME NEW f, NEW g, \A i \in 0 .. n - 1 : f[i] = g[i]
                PROVE  PathDef(f, n) = PathDef(g, n)
    BY DEF ByPaths!Local
  <2>1. CASE n < 2
    BY <2>1 DEF PathDef
  <2>2. CASE n >= 2
    <3>1. Split(n) \in 1 .. n - 1
      BY <2>2, SplitFacts
    <3>2. f[Split(n)] = g[Split(n)] /\ f[n - Split(n)] = g[n - Split(n)]
      BY <3>1
    <3>. QED
      BY <2>2, <3>2 DEF PathDef
  <2>. QED
    BY <2>1, <2>2
<1>2. Path = CHOOSE g : g = [n \in Nat |-> PathDef(g, n)]
  BY DEF Path, PathDef
<1>3. Path = [n \in Nat |-> PathDef(Path, n)]
  BY <1>1, <1>2, ByPaths!RecursiveFunction
<1>4. Path[size] = PathDef(Path, size)
  BY <1>3, Zenon
<1>5. Path[size][ls][from][index] =
        IF size <= 1 THEN <<>>
        ELSE IF index < Split(size)
             THEN Append(Path[Split(size)][ls][from][index],
                         Root[size - Split(size)][ls][from + Split(size)])
             ELSE Append(Path[size - Split(size)][ls][from + Split(size)][index - Split(size)],
                         Root[Split(size)][ls][from])
  BY <1>4, SMTT(60) DEF PathDef
<1>. QED
  BY <1>5 DEF PathOf, RootOf

LEMMA SubProofStep ==
    ASSUME NEW size \in Nat, NEW ls \in Seq(Data), NEW from \in Nat,
           NEW m \in 1 .. size, NEW b \in BOOLEAN
    PROVE  SubProofOf(ls, from, size, m, b) =
             IF m = size THEN IF b THEN <<>> ELSE <<RootOf(ls, from, size)>>
             ELSE LET k == Split(size)
                  IN  IF m <= k
                      THEN Append(SubProofOf(ls, from, k, m, b), RootOf(ls, from + k, size - k))
                      ELSE Append(SubProofOf(ls, from + k, size - k, m - k, FALSE),
                                  RootOf(ls, from, k))
<1>1. ASSUME NEW n \in Nat PROVE BySubProofs!Local(n)
  <2>. SUFFICES ASSUME NEW f, NEW g, \A i \in 0 .. n - 1 : f[i] = g[i]
                PROVE  SubProofDef(f, n) = SubProofDef(g, n)
    BY DEF BySubProofs!Local
  <2>1. CASE n < 2
    <3>1. \A x \in 1 .. n : x = n
      BY <2>1
    <3>. DEFINE Whole(ls_1, from_1, b_1) == IF b_1 THEN <<>> ELSE <<Root[n][ls_1][from_1]>>
                Rest(h, ls_1, from_1, m_1, b_1) ==
                    IF m_1 <= Split(n)
                    THEN Append(h[Split(n)][ls_1][from_1][m_1][b_1],
                                Root[n - Split(n)][ls_1][from_1 + Split(n)])
                    ELSE Append(h[n - Split(n)][ls_1][from_1 + Split(n)][m_1 - Split(n)][FALSE],
                                Root[Split(n)][ls_1][from_1])
                ByFlag(h, ls_1, from_1, m_1) ==
                    [b_1 \in BOOLEAN |-> IF m_1 = n THEN Whole(ls_1, from_1, b_1)
                                                  ELSE Rest(h, ls_1, from_1, m_1, b_1)]
                BySize(h, ls_1, from_1) == [m_1 \in 1 .. n |-> ByFlag(h, ls_1, from_1, m_1)]
    <3>2. \A h : SubProofDef(h, n) =
            [ls_1 \in Seq(Data) |-> [from_1 \in Nat |-> BySize(h, ls_1, from_1)]]
      BY DEF SubProofDef
    <3>. HIDE DEF Whole, Rest
    <3>3. \A ls_1, from_1 : \A m_1 \in 1 .. n :
             ByFlag(f, ls_1, from_1, m_1) = ByFlag(g, ls_1, from_1, m_1)
      BY <3>1
    <3>. HIDE DEF ByFlag
    <3>4. \A ls_1, from_1 : BySize(f, ls_1, from_1) = BySize(g, ls_1, from_1)
      BY <3>3
    <3>. HIDE DEF BySize
    <3>. QED
      BY <3>2, <3>4
  <2>2. CASE n >= 2
    <3>1. Split(n) \in 1 .. n - 1
      BY <2>2, SplitFacts
    <3>2. f[Split(n)] = g[Split(n)] /\ f[n - Split(n)] = g[n - Split(n)]
      BY <3>1
    <3>. QED
      BY <2>2, <3>2 DEF SubProofDef
  <2>. QED
    BY <2>1, <2>2
<1>2. SubProof = CHOOSE g : g = [n \in Nat |-> SubProofDef(g, n)]
  BY DEF SubProof, SubProofDef
<1>3. SubProof = [n \in Nat |-> SubProofDef(SubProof, n)]
  BY <1>1, <1>2, BySubProofs!RecursiveFunction, SMTT(30)
<1>4. SubProof[size] = SubProofDef(SubProof, size)
  BY <1>3, Zenon
<1>5. SubProof[size][ls][from][m][b] =
        IF m = size THEN IF b THEN <<>> ELSE <<Root[size][ls][from]>>
        ELSE IF m <= Split(size)
             THEN Append(SubProof[Split(size)][ls][from][m][b],
                         Root[size - Split(size)][ls][from + Split(size)])
             ELSE Append(SubProof[size - Split(size)][ls][from + Split(size)][m - Split(size)][FALSE],
                         Root[Split(size)][ls][from])
  BY <1>4, SMTT(60) DEF SubProofDef
<1>. QED
  BY <1>5 DEF SubProofOf, RootOf

-----------------------------------------------------------------------------
(* Hashes, and paths as sequences.                                         *)

LEMMA HashFacts ==
    /\ \A l, r, x, y : NodeHash(l, r) = NodeHash(x, y) => l = x /\ r = y
    /\ \A d, l, r : LeafHash(d) # NodeHash(l, r)
    /\ \A d, e : LeafHash(d) = LeafHash(e) => d = e
BY DEF NodeHash, LeafHash

\* The slices of n leaves after a in ls and after b in ks are the same.
SameLeaves(ls, a, ks, b, n) == \A l \in 1 .. n : ls[a + l] = ks[b + l]

\* Slices with one root, of one log or of two, hold the same leaves.
LEMMA RootTellsLeaves ==
    ASSUME NEW ls \in Seq(Data), NEW ks \in Seq(Data),
           NEW n \in Nat \ {0}, NEW m \in Nat \ {0}, NEW a \in Nat, NEW b \in Nat,
           RootOf(ls, a, n) = RootOf(ks, b, m)
    PROVE  n = m /\ SameLeaves(ls, a, ks, b, n)
<1>. DEFINE Same(x, y, i) == SameLeaves(ls, x, ks, y, i)
            S == {i \in Nat : \A j, x, y \in Nat :
                       i # 0 /\ j # 0 /\ RootOf(ls, x, i) = RootOf(ks, y, j) =>
                         i = j /\ Same(x, y, i)}
<1>1. ASSUME NEW i \in Nat, \A k \in 0 .. i - 1 : k \in S PROVE i \in S
  <2>. SUFFICES ASSUME NEW j \in Nat, NEW x \in Nat, NEW y \in Nat,
                       i # 0, j # 0, RootOf(ls, x, i) = RootOf(ks, y, j)
                PROVE  i = j /\ Same(x, y, i)
    OBVIOUS
  <2>. HIDE DEF S
  <2>1. CASE i = 1 \/ j = 1
    <3>1. ~ (i = 1 /\ j >= 2)
      BY RootStep, HashFacts
    <3>2. ~ (i >= 2 /\ j = 1)
      BY RootStep, HashFacts
    <3>3. i = 1 /\ j = 1
      BY <2>1, <3>1, <3>2
    <3>4. ls[x + 1] = ks[y + 1]
      BY <3>3, RootStep, HashFacts
    <3>. QED
      BY <3>3, <3>4 DEF SameLeaves
  <2>2. CASE i >= 2 /\ j >= 2
    <3>. DEFINE k == Split(i)
                o == Split(j)
    <3>1. /\ RootOf(ls, x, k) = RootOf(ks, y, o)
          /\ RootOf(ls, x + k, i - k) = RootOf(ks, y + o, j - o)
      BY <2>2, RootStep, HashFacts
    <3>2. k \in 1 .. i - 1 /\ o \in 1 .. j - 1
      BY <2>2, SplitFacts
    <3>. HIDE DEF k, o, Same
    <3>3. k \in S /\ i - k \in S
      BY <1>1, <3>2
    <3>4. k = o /\ Same(x, y, k)
      BY <3>1, <3>2, <3>3, SMTT(30) DEF S
    <3>5. i - k = j - o /\ Same(x + k, y + o, i - k)
      BY <3>1, <3>2, <3>3, SMTT(30) DEF S
    <3>6. i = j
      BY <3>2, <3>4, <3>5
    <3>7. ASSUME NEW l \in 1 .. i PROVE ls[x + l] = ks[y + l]
      <4>1. CASE l <= k
        BY <3>2, <3>4, <4>1 DEF Same, SameLeaves
      <4>2. CASE ~ (l <= k)
        <5>1. l - k \in 1 .. i - k
          BY <3>2, <4>2
        <5>2. ls[(x + k) + (l - k)] = ks[(y + k) + (l - k)]
          BY <3>4, <3>5, <5>1 DEF Same, SameLeaves
        <5>3. (x + k) + (l - k) = x + l /\ (y + k) + (l - k) = y + l
          BY <3>2
        <5>. QED
          BY <5>2, <5>3
      <4>. QED
        BY <4>1, <4>2
    <3>. QED
      BY <3>6, <3>7 DEF Same, SameLeaves
  <2>. QED
    BY <2>1, <2>2
<1>. HIDE DEF S
<1>2. \A i \in Nat : i \in S
  BY <1>1, StrongInduction
<1>3. n \in S
  BY <1>2
<1>. QED
  BY <1>3 DEF S

\* Slices with one root have one size.
LEMMA RootTellsSize ==
    ASSUME NEW ls \in Seq(Data), NEW n \in Nat \ {0}, NEW m \in Nat \ {0},
           NEW a \in Nat, NEW b \in Nat, RootOf(ls, a, n) = RootOf(ls, b, m)
    PROVE  n = m
BY RootTellsLeaves

LEMMA AppendFacts ==
    ASSUME NEW q, NEW e, IsPath(q)
    PROVE  /\ IsPath(Append(q, e)) /\ Len(Append(q, e)) = Len(q) + 1
           /\ \A i \in 1 .. Len(q) : Append(q, e)[i] = q[i]
           /\ Append(q, e)[Len(q) + 1] = e
<1>. DEFINE T == {q[i] : i \in 1 .. Len(q)} \cup {e}
<1>1. q \in Seq(T) /\ e \in T
  BY DEF IsPath
<1>. HIDE DEF T
<1>2. /\ Append(q, e) \in Seq(T) /\ Len(Append(q, e)) = Len(q) + 1
      /\ \A i \in 1 .. Len(q) : Append(q, e)[i] = q[i]
      /\ Append(q, e)[Len(q) + 1] = e
  BY <1>1
<1>3. \A r \in Seq(T) : IsPath(r)
  BY DEF IsPath
<1>. QED
  BY <1>2, <1>3

\* The first u hashes of a path are those of q.
Uses(path, u, q) == u = Len(q) /\ \A i \in 1 .. u : path[i] = q[i]

LEMMA UsesNext ==
    ASSUME NEW path, NEW q, NEW e, NEW u \in Nat, IsPath(q)
    PROVE  Uses(path, u + 1, Append(q, e)) <=> Uses(path, u, q) /\ path[u + 1] = e
BY AppendFacts DEF Uses, IsPath

LEMMA UsesAll ==
    ASSUME NEW path, NEW q, IsPath(path), IsPath(q), Uses(path, Len(path), q)
    PROVE  path = q
BY DEF Uses, IsPath

-----------------------------------------------------------------------------
(* The levels of the tree of a log of n leaves.  Where nodes are w wide,   *)
(* leaf x is under node j, and s is the last node.                         *)

At(x, w, j) == w \in Pow /\ j \in Nat /\ j * w <= x /\ x < j * w + w

Here(n, x, w, j, s) ==
    n \in Nat /\ x \in 0 .. n - 1 /\ At(x, w, j) /\ At(n - 1, w, s)

\* The slice under the node.
From(w, j) == j * w
Size(n, w, j, s) == IF j < s THEN w ELSE n - j * w

LEMMA Halves ==
    \A j \in Nat : /\ j \div 2 \in Nat
                   /\ (j % 2 = 0 /\ j = 2 * (j \div 2)) \/ (j % 2 = 1 /\ j = 2 * (j \div 2) + 1)
OBVIOUS

LEMMA Scaling ==
    ASSUME NEW a \in Nat, NEW w \in Nat
    PROVE  a * w \in Nat /\ (2 * a) * w = a * (2 * w) /\ (2 * a + 1) * w = a * (2 * w) + w
OBVIOUS

LEMMA Multiples ==
    ASSUME NEW a \in Nat, NEW b \in Nat, NEW w \in Nat, a < b
    PROVE  a * w + w <= b * w
<1>1. (b - (a + 1)) * w >= 0
  OBVIOUS
<1>2. (b - (a + 1)) * w = b * w - (a * w + w)
  OBVIOUS
<1>. QED
  BY <1>1, <1>2

LEMMA HereFacts ==
    ASSUME NEW n, NEW x, NEW w, NEW j, NEW s, Here(n, x, w, j, s)
    PROVE  /\ n \in Nat /\ x \in 0 .. n - 1 /\ w \in Pow /\ w \in Nat /\ w >= 1
           /\ j \in Nat /\ s \in Nat /\ j <= s
           /\ From(w, j) \in Nat /\ From(w, j) <= x
           /\ Size(n, w, j, s) \in 1 .. w
           /\ x - From(w, j) \in 0 .. Size(n, w, j, s) - 1
           /\ j < s => Size(n, w, j, s) = w /\ From(w, j) + w < n
           /\ j = s => Size(n, w, j, s) = n - From(w, j)
           /\ s = 0 => j = 0 /\ From(w, j) = 0 /\ Size(n, w, j, s) = n
<1>1. /\ n \in Nat /\ x \in 0 .. n - 1 /\ w \in Pow /\ w \in Nat /\ w >= 1
      /\ j \in Nat /\ s \in Nat /\ j * w \in Nat /\ s * w \in Nat
      /\ j * w <= x /\ x < j * w + w /\ s * w <= n - 1 /\ n - 1 < s * w + w
  BY PowFacts, Scaling DEF Here, At
<1>2. j <= s
  <2>1. CASE s < j
    <3>1. s * w + w <= j * w
      BY <1>1, <2>1, Multiples
    <3>. QED
      BY <1>1, <3>1
  <2>. QED
    BY <1>1, <2>1
<1>3. ASSUME j < s PROVE j * w + w <= n - 1
  BY <1>1, <1>3, Multiples
<1>4. CASE j < s
  BY <1>1, <1>2, <1>3, <1>4 DEF From, Size
<1>5. CASE j = s
  <2>1. s = 0 => s * w = 0
    BY <1>1
  <2>. QED
    BY <1>1, <1>5, <2>1 DEF From, Size
<1>. QED
  BY <1>1, <1>2, <1>4, <1>5

LEMMA HereUp ==
    ASSUME NEW n, NEW x, NEW w, NEW j, NEW s, Here(n, x, w, j, s)
    PROVE  Here(n, x, 2 * w, j \div 2, s \div 2)
<1>1. /\ n \in Nat /\ x \in 0 .. n - 1 /\ w \in Nat /\ 2 * w \in Pow
      /\ j \in Nat /\ s \in Nat
      /\ j * w <= x /\ x < j * w + w /\ s * w <= n - 1 /\ n - 1 < s * w + w
  BY PowFacts DEF Here, At
<1>2. ASSUME NEW y \in Nat, NEW i \in Nat, i * w <= y, y < i * w + w
      PROVE  At(y, 2 * w, i \div 2)
  <2>. DEFINE h == i \div 2
  <2>1. h \in Nat /\ (i = 2 * h \/ i = 2 * h + 1)
    BY Halves
  <2>. HIDE DEF h
  <2>2. h * (2 * w) \in Nat /\ (2 * h) * w = h * (2 * w) /\ (2 * h + 1) * w = h * (2 * w) + w
    BY <1>1, <2>1, Scaling
  <2>3. h * (2 * w) <= y /\ y < h * (2 * w) + 2 * w
    BY <1>1, <1>2, <2>1, <2>2
  <2>4. At(y, 2 * w, h)
    BY <1>1, <2>1, <2>3 DEF At
  <2>. QED
    BY <2>4 DEF h
<1>. QED
  BY <1>1, <1>2 DEF Here

\* The node above: left half, right half, or the same slice.
LEMMA Above ==
    ASSUME NEW n, NEW x, NEW w, NEW j, NEW s, Here(n, x, w, j, s)
    PROVE  LET from == From(w, j)
               size == Size(n, w, j, s)
               above == From(2 * w, j \div 2)
               whole == Size(n, 2 * w, j \div 2, s \div 2)
           IN  /\ j % 2 = 0 /\ j < s =>
                     above = from /\ size = w /\ w < whole /\ Split(whole) = w
               /\ j % 2 = 1 =>
                     above + w = from /\ size = whole - w /\ w < whole /\ Split(whole) = w
               /\ j % 2 = 0 /\ j = s => above = from /\ size = whole
<1>. DEFINE i == j \div 2
            t == s \div 2
            from == From(w, j)
            size == Size(n, w, j, s)
            above == From(2 * w, i)
            whole == Size(n, 2 * w, i, t)
<1>1. /\ n \in Nat /\ w \in Pow /\ w \in Nat /\ w >= 1 /\ j \in Nat /\ s \in Nat /\ j <= s
      /\ from \in Nat /\ size \in 1 .. w /\ from < n
      /\ j < s => size = w /\ from + w < n
      /\ j = s => size = n - from
  BY HereFacts
<1>2. /\ i \in Nat /\ t \in Nat /\ i <= t
      /\ above \in Nat /\ whole \in 1 .. 2 * w
      /\ i < t => whole = 2 * w /\ above + 2 * w < n
      /\ i = t => whole = n - above
  <2>1. Here(n, x, 2 * w, i, t)
    BY HereUp
  <2>. HIDE DEF i, t
  <2>. QED
    BY <2>1, HereFacts
<1>3. /\ i \in Nat /\ t \in Nat
      /\ (j % 2 = 0 /\ j = 2 * i) \/ (j % 2 = 1 /\ j = 2 * i + 1)
      /\ (s % 2 = 0 /\ s = 2 * t) \/ (s % 2 = 1 /\ s = 2 * t + 1)
  BY <1>1, Halves
<1>4. /\ j = 2 * i => above = from
      /\ j = 2 * i + 1 => above + w = from
  BY <1>1, <1>3, Scaling DEF From
<1>. HIDE DEF i, t, from, size, above, whole
<1>5. ASSUME w < whole PROVE Split(whole) = w
  BY <1>1, <1>2, <1>5, SplitUnique
<1>6. CASE j % 2 = 0 /\ j < s
  <2>1. above = from /\ size = w
    BY <1>1, <1>3, <1>4, <1>6
  <2>2. w < whole
    BY <1>1, <1>2, <2>1, <1>6
  <2>. QED
    BY <1>3, <1>5, <1>6, <2>1, <2>2 DEF i, t, from, size, above, whole
<1>7. CASE j % 2 = 1
  <2>1. above + w = from
    BY <1>1, <1>3, <1>4, <1>7
  <2>2. w < whole /\ size = whole - w
    <3>1. CASE i < t
      <4>1. j < s
        BY <1>1, <1>3, <1>7, <3>1
      <4>. QED
        BY <1>1, <1>2, <2>1, <3>1, <4>1
    <3>2. CASE i = t
      <4>1. j = s
        BY <1>1, <1>3, <1>7, <3>2
      <4>. QED
        BY <1>1, <1>2, <2>1, <3>2, <4>1
    <3>. QED
      BY <1>2, <3>1, <3>2
  <2>. QED
    BY <1>3, <1>5, <1>7, <2>1, <2>2 DEF i, t, from, size, above, whole
<1>8. CASE j % 2 = 0 /\ j = s
  <2>1. above = from /\ i = t
    BY <1>1, <1>3, <1>4, <1>8 DEF i, t
  <2>. QED
    BY <1>1, <1>2, <1>8, <2>1 DEF i, t, from, size, above, whole
<1>. QED
  BY <1>6, <1>7, <1>8 DEF i, t, from, size, above, whole
-----------------------------------------------------------------------------
(* What the prover makes of the slices under the nodes.                    *)

LEMMA ShortPaths == IsPath(<<>>) /\ \A e : IsPath(<<e>>) /\ Len(<<e>>) = 1 /\ <<e>>[1] = e
BY DEF IsPath

LEMMA AppendIsPath == \A q, e : IsPath(q) => IsPath(Append(q, e))
BY AppendFacts

LEMMA PathIsPath ==
    ASSUME NEW ls \in Seq(Data), NEW from \in Nat, NEW size \in Nat,
           NEW index \in 0 .. size - 1
    PROVE  IsPath(PathOf(ls, from, size, index))
<1>. DEFINE S == {n \in Nat : \A a \in Nat : \A i \in 0 .. n - 1 : IsPath(PathOf(ls, a, n, i))}
<1>1. ASSUME NEW n \in Nat, \A k \in 0 .. n - 1 : k \in S PROVE n \in S
  <2>. SUFFICES ASSUME NEW a \in Nat, NEW i \in 0 .. n - 1 PROVE IsPath(PathOf(ls, a, n, i))
    OBVIOUS
  <2>. HIDE DEF S
  <2>1. CASE n = 1
    <3>1. i \in 0 .. 1 - 1 /\ PathOf(ls, a, 1, i) = <<>>
      BY <2>1, PathStep
    <3>. QED
      BY <2>1, <3>1, ShortPaths
  <2>2. CASE n >= 2
    <3>. DEFINE k == Split(n)
    <3>1. k \in 1 .. n - 1
      BY <2>2, SplitFacts
    <3>2. PathOf(ls, a, n, i) =
            IF i < k THEN Append(PathOf(ls, a, k, i), RootOf(ls, a + k, n - k))
            ELSE Append(PathOf(ls, a + k, n - k, i - k), RootOf(ls, a, k))
      BY <2>2, PathStep
    <3>. HIDE DEF k
    <3>3. k \in S /\ n - k \in S
      BY <1>1, <3>1
    <3>4. CASE i < k
      <4>1. IsPath(PathOf(ls, a, k, i))
        BY <3>1, <3>3, <3>4 DEF S
      <4>. QED
        BY <3>2, <3>4, <4>1, AppendFacts
    <3>5. CASE i >= k
      <4>1. IsPath(PathOf(ls, a + k, n - k, i - k))
        BY <3>1, <3>3, <3>5 DEF S
      <4>. QED
        BY <3>1, <3>2, <3>5, <4>1, AppendFacts
    <3>. QED
      BY <3>1, <3>4, <3>5
  <2>. QED
    BY <2>1, <2>2
<1>. HIDE DEF S
<1>2. \A n \in Nat : n \in S
  BY <1>1, StrongInduction
<1>3. size \in S
  BY <1>2
<1>. QED
  BY <1>3 DEF S

\* sub_proof as it is called: for a part that starts the log, or for another.
ProofOf(ls, from, size, m) == SubProof[size][ls][from][m][from = 0]

LEMMA ProofStep ==
    ASSUME NEW size \in Nat, NEW ls \in Seq(Data), NEW from \in Nat,
           NEW m \in 1 .. size
    PROVE  /\ m = size /\ from = 0 => ProofOf(ls, from, size, m) = <<>>
           /\ m = size /\ from # 0 => ProofOf(ls, from, size, m) = <<RootOf(ls, from, size)>>
           /\ m # size /\ m <= Split(size) =>
                ProofOf(ls, from, size, m) =
                  Append(ProofOf(ls, from, Split(size), m),
                         RootOf(ls, from + Split(size), size - Split(size)))
           /\ m # size /\ ~ (m <= Split(size)) =>
                ProofOf(ls, from, size, m) =
                  Append(ProofOf(ls, from + Split(size), size - Split(size), m - Split(size)),
                         RootOf(ls, from, Split(size)))
<1>. DEFINE P(b) == SubProofOf(ls, from, size, m, b)
            k == Split(size)
            Left(b) == Append(SubProofOf(ls, from, k, m, b), RootOf(ls, from + k, size - k))
            Right == Append(SubProofOf(ls, from + k, size - k, m - k, FALSE), RootOf(ls, from, k))
<1>1. \A b \in BOOLEAN :
        P(b) = IF m = size THEN IF b THEN <<>> ELSE <<RootOf(ls, from, size)>>
               ELSE IF m <= k THEN Left(b) ELSE Right
  BY SubProofStep, Zenon
<1>2. /\ m = size => P(TRUE) = <<>> /\ P(FALSE) = <<RootOf(ls, from, size)>>
      /\ m # size /\ m <= k => P(TRUE) = Left(TRUE) /\ P(FALSE) = Left(FALSE)
      /\ m # size /\ ~ (m <= k) => P(TRUE) = Right /\ P(FALSE) = Right
  <2>. HIDE DEF P, Left, Right, k
  <2>. QED
    BY <1>1, TRUE \in BOOLEAN, FALSE \in BOOLEAN, Zenon
<1>3. \A a, n, i : /\ a = 0 => ProofOf(ls, a, n, i) = SubProofOf(ls, a, n, i, TRUE)
                   /\ a # 0 => ProofOf(ls, a, n, i) = SubProofOf(ls, a, n, i, FALSE)
  <2>1. \A a : /\ a = 0 => (a = 0) = TRUE
               /\ a # 0 => (a = 0) = FALSE
    OBVIOUS
  <2>. QED
    BY <2>1, Zenon DEF ProofOf, SubProofOf
<1>4. ~ (m <= k) /\ m # size => from + k # 0
  <2>1. ASSUME m # size PROVE k \in 1 .. size - 1
    BY <2>1, SplitFacts
  <2>. QED
    BY <2>1
<1>. HIDE DEF P, Left, Right
<1>5. /\ from = 0 => ProofOf(ls, from, size, m) = P(TRUE)
      /\ from # 0 => ProofOf(ls, from, size, m) = P(FALSE)
      /\ from = 0 => Left(TRUE) = Append(ProofOf(ls, from, k, m), RootOf(ls, from + k, size - k))
      /\ from # 0 => Left(FALSE) = Append(ProofOf(ls, from, k, m), RootOf(ls, from + k, size - k))
      /\ from + k # 0 => Right = Append(ProofOf(ls, from + k, size - k, m - k), RootOf(ls, from, k))
  BY <1>3, Zenon DEF P, Left, Right
<1>. HIDE DEF k
<1>6. /\ m = size /\ from = 0 => ProofOf(ls, from, size, m) = <<>>
      /\ m = size /\ from # 0 => ProofOf(ls, from, size, m) = <<RootOf(ls, from, size)>>
  BY <1>2, <1>5, Zenon
<1>7. m # size /\ m <= k =>
        ProofOf(ls, from, size, m) = Append(ProofOf(ls, from, k, m), RootOf(ls, from + k, size - k))
  BY <1>2, <1>5, Zenon
<1>8. m # size /\ ~ (m <= k) =>
        ProofOf(ls, from, size, m) =
          Append(ProofOf(ls, from + k, size - k, m - k), RootOf(ls, from, k))
  BY <1>2, <1>4, <1>5, Zenon
<1>. QED
  BY <1>6, <1>7, <1>8, Zenon DEF k

LEMMA ProofIsPath ==
    ASSUME NEW ls \in Seq(Data), NEW from \in Nat, NEW size \in Nat,
           NEW m \in 1 .. size
    PROVE  IsPath(ProofOf(ls, from, size, m))
<1>. DEFINE S == {n \in Nat : \A a \in Nat : \A i \in 1 .. n : IsPath(ProofOf(ls, a, n, i))}
<1>1. ASSUME NEW n \in Nat, \A k \in 0 .. n - 1 : k \in S PROVE n \in S
  <2>. SUFFICES ASSUME NEW a \in Nat, NEW i \in 1 .. n PROVE IsPath(ProofOf(ls, a, n, i))
    OBVIOUS
  <2>. HIDE DEF S
  <2>1. CASE i = n
    BY <2>1, ProofStep, ShortPaths
  <2>2. CASE i # n
    <3>. DEFINE k == Split(n)
    <3>1. k \in 1 .. n - 1
      BY <2>2, SplitFacts
    <3>2. /\ i <= k => ProofOf(ls, a, n, i) =
                         Append(ProofOf(ls, a, k, i), RootOf(ls, a + k, n - k))
          /\ ~ (i <= k) => ProofOf(ls, a, n, i) =
                         Append(ProofOf(ls, a + k, n - k, i - k), RootOf(ls, a, k))
      BY <2>2, ProofStep
    <3>. HIDE DEF k
    <3>3. k \in S /\ n - k \in S
      BY <1>1, <3>1
    <3>4. CASE i <= k
      <4>1. IsPath(ProofOf(ls, a, k, i))
        BY <3>1, <3>3, <3>4 DEF S
      <4>. QED
        BY <3>2, <3>4, <4>1, AppendIsPath, Zenon
    <3>5. CASE ~ (i <= k)
      <4>1. IsPath(ProofOf(ls, a + k, n - k, i - k))
        BY <3>1, <3>3, <3>5 DEF S
      <4>. QED
        BY <3>2, <3>5, <4>1, AppendIsPath, Zenon
    <3>. QED
      BY <3>4, <3>5
  <2>. QED
    BY <2>1, <2>2
<1>. HIDE DEF S
<1>2. \A n \in Nat : n \in S
  BY <1>1, StrongInduction
<1>3. size \in S
  BY <1>2
<1>. QED
  BY <1>3 DEF S

\* A root depends on the leaves of its slice only.
LEMMA RootOfPrefix ==
    ASSUME NEW ls \in Seq(Data), NEW m \in 0 .. Len(ls),
           NEW from \in Nat, NEW size \in Nat \ {0}, from + size <= m
    PROVE  RootOf(SubSeq(ls, 1, m), from, size) = RootOf(ls, from, size)
<1>. DEFINE qs == SubSeq(ls, 1, m)
            S == {n \in Nat : n = 0 \/ \A a \in Nat : a + n <= m => RootOf(qs, a, n) = RootOf(ls, a, n)}
<1>0. qs \in Seq(Data) /\ \A i \in 1 .. m : qs[i] = ls[i]
  OBVIOUS
<1>. HIDE DEF qs
<1>1. ASSUME NEW n \in Nat, \A k \in 0 .. n - 1 : k \in S PROVE n \in S
  <2>. SUFFICES ASSUME n # 0, NEW a \in Nat, a + n <= m PROVE RootOf(qs, a, n) = RootOf(ls, a, n)
    OBVIOUS
  <2>. HIDE DEF S
  <2>1. CASE n = 1
    <3>1. a + 1 \in 1 .. m
      BY <2>1
    <3>2. qs[a + 1] = ls[a + 1]
      BY <1>0, <3>1
    <3>3. RootOf(qs, a, n) = LeafHash(qs[a + 1]) /\ RootOf(ls, a, n) = LeafHash(ls[a + 1])
      BY <1>0, <2>1, RootStep, ZenonT(40)
    <3>. QED
      BY <3>2, <3>3
  <2>2. CASE n >= 2
    <3>. DEFINE k == Split(n)
    <3>1. k \in 1 .. n - 1
      BY <2>2, SplitFacts
    <3>2. /\ RootOf(ls, a, n) = NodeHash(RootOf(ls, a, k), RootOf(ls, a + k, n - k))
          /\ RootOf(qs, a, n) = NodeHash(RootOf(qs, a, k), RootOf(qs, a + k, n - k))
      BY <1>0, <2>2, RootStep
    <3>. HIDE DEF k
    <3>3. k \in S /\ n - k \in S
      BY <1>1, <3>1
    <3>4. RootOf(ls, a, k) = RootOf(qs, a, k)
      BY <3>1, <3>3 DEF S
    <3>5. RootOf(ls, a + k, n - k) = RootOf(qs, a + k, n - k)
      BY <3>1, <3>3 DEF S
    <3>. QED
      BY <3>2, <3>4, <3>5
  <2>. QED
    BY <2>1, <2>2
<1>. HIDE DEF S
<1>2. \A n \in Nat : n \in S
  BY <1>1, StrongInduction
<1>3. size \in S
  BY <1>2
<1>. QED
  BY <1>3 DEF S, qs

Node(ls, w, j, s) == RootOf(ls, From(w, j), Size(Len(ls), w, j, s))

\* The path of leaf x in the slice, and the proof of the part of it up to x.
NodePath(ls, x, w, j, s) ==
    PathOf(ls, From(w, j), Size(Len(ls), w, j, s), x - From(w, j))
NodeProof(ls, x, w, j, s) ==
    ProofOf(ls, From(w, j), Size(Len(ls), w, j, s), x + 1 - From(w, j))

LEMMA NodePathsArePaths ==
    ASSUME NEW ls \in Seq(Data), NEW x, NEW w, NEW j, NEW s, Here(Len(ls), x, w, j, s)
    PROVE  IsPath(NodePath(ls, x, w, j, s)) /\ IsPath(NodeProof(ls, x, w, j, s))
<1>. DEFINE from == From(w, j)
            size == Size(Len(ls), w, j, s)
<1>1. from \in Nat /\ size \in Nat /\ x \in Nat /\ x - from \in 0 .. size - 1
  BY HereFacts
<1>2. x + 1 - from \in 1 .. size
  <2>. HIDE DEF from, size
  <2>. QED
    BY <1>1
<1>. QED
  BY <1>1, <1>2, PathIsPath, ProofIsPath DEF NodePath, NodeProof

LEMMA ParentLeft ==
    ASSUME NEW ls \in Seq(Data), NEW x, NEW w, NEW j, NEW s, Here(Len(ls), x, w, j, s),
           j % 2 = 0, j < s
    PROVE  \E e :
             /\ Node(ls, 2 * w, j \div 2, s \div 2) = NodeHash(Node(ls, w, j, s), e)
             /\ NodePath(ls, x, 2 * w, j \div 2, s \div 2) = Append(NodePath(ls, x, w, j, s), e)
             /\ NodeProof(ls, x, 2 * w, j \div 2, s \div 2) = Append(NodeProof(ls, x, w, j, s), e)
             /\ x + 1 - From(2 * w, j \div 2) < Size(Len(ls), 2 * w, j \div 2, s \div 2)
<1>. DEFINE from == From(w, j)
            size == Size(Len(ls), w, j, s)
            above == From(2 * w, j \div 2)
            whole == Size(Len(ls), 2 * w, j \div 2, s \div 2)
<1>1. /\ w \in Nat /\ w >= 1 /\ x \in Nat /\ from \in Nat /\ from <= x
      /\ size \in 1 .. w /\ x - from \in 0 .. size - 1
  BY HereFacts
<1>2. whole \in 1 .. 2 * w
  <2>1. Here(Len(ls), x, 2 * w, j \div 2, s \div 2)
    BY HereUp
  <2>. QED
    BY <2>1, HereFacts
<1>3. above = from /\ size = w /\ w < whole /\ Split(whole) = w
  BY Above
<1>. HIDE DEF from, size, above, whole
<1>4. /\ whole \in Nat /\ whole >= 2 /\ x - above \in 0 .. whole - 1 /\ x - above < w
      /\ x + 1 - above \in 1 .. whole /\ x + 1 - above <= w /\ x + 1 - above # whole
  BY <1>1, <1>2, <1>3
<1>5. RootOf(ls, above, whole) = NodeHash(RootOf(ls, from, size), RootOf(ls, above + w, whole - w))
  BY <1>1, <1>3, <1>4, RootStep
<1>6. PathOf(ls, above, whole, x - above) =
        Append(PathOf(ls, from, size, x - from), RootOf(ls, above + w, whole - w))
  BY <1>1, <1>3, <1>4, PathStep
<1>7. ProofOf(ls, above, whole, x + 1 - above) =
        Append(ProofOf(ls, from, size, x + 1 - from), RootOf(ls, above + w, whole - w))
  <2>1. /\ x + 1 - above # whole /\ x + 1 - above <= Split(whole)
        /\ x + 1 - above = x + 1 - from /\ above = from /\ size = w /\ Split(whole) = w
    BY <1>1, <1>3, <1>4
  <2>2. ProofOf(ls, above, whole, x + 1 - above) =
          Append(ProofOf(ls, above, Split(whole), x + 1 - above),
                 RootOf(ls, above + Split(whole), whole - Split(whole)))
    BY <1>1, <1>3, <1>4, <2>1, ProofStep
  <2>. QED
    BY <2>1, <2>2
<1>8. x + 1 - above < whole
  BY <1>1, <1>3, <1>4
<1>. QED
  BY <1>5, <1>6, <1>7, <1>8 DEF from, size, above, whole, Node, NodePath, NodeProof

LEMMA ParentRight ==
    ASSUME NEW ls \in Seq(Data), NEW x, NEW w, NEW j, NEW s, Here(Len(ls), x, w, j, s),
           j % 2 = 1
    PROVE  \E e :
             /\ Node(ls, 2 * w, j \div 2, s \div 2) = NodeHash(e, Node(ls, w, j, s))
             /\ NodePath(ls, x, 2 * w, j \div 2, s \div 2) = Append(NodePath(ls, x, w, j, s), e)
             /\ x + 1 - From(w, j) < Size(Len(ls), w, j, s) =>
                  /\ NodeProof(ls, x, 2 * w, j \div 2, s \div 2) =
                       Append(NodeProof(ls, x, w, j, s), e)
                  /\ x + 1 - From(2 * w, j \div 2) < Size(Len(ls), 2 * w, j \div 2, s \div 2)
                  /\ RootOf(ls, From(2 * w, j \div 2), x + 1 - From(2 * w, j \div 2)) =
                       NodeHash(e, RootOf(ls, From(w, j), x + 1 - From(w, j)))
<1>. DEFINE from == From(w, j)
            size == Size(Len(ls), w, j, s)
            above == From(2 * w, j \div 2)
            whole == Size(Len(ls), 2 * w, j \div 2, s \div 2)
            e == RootOf(ls, above, w)
<1>1. /\ w \in Pow /\ w \in Nat /\ w >= 1 /\ x \in Nat /\ from \in Nat /\ from <= x
      /\ size \in 1 .. w /\ x - from \in 0 .. size - 1
  BY HereFacts
<1>2. whole \in 1 .. 2 * w /\ above \in Nat
  <2>1. Here(Len(ls), x, 2 * w, j \div 2, s \div 2)
    BY HereUp
  <2>. QED
    BY <2>1, HereFacts
<1>3. above + w = from /\ size = whole - w /\ w < whole /\ Split(whole) = w
  BY Above
<1>. HIDE DEF from, size, above, whole
<1>4. /\ whole \in Nat /\ whole >= 2 /\ x - above \in 0 .. whole - 1 /\ ~ (x - above < w)
      /\ (x - above) - w = x - from
      /\ x + 1 - above \in 1 .. whole /\ ~ (x + 1 - above <= w)
      /\ (x + 1 - above) - w = x + 1 - from /\ from # 0
  BY <1>1, <1>2, <1>3
<1>5. RootOf(ls, above, whole) = NodeHash(e, RootOf(ls, from, size))
  BY <1>2, <1>3, <1>4, RootStep
<1>6. PathOf(ls, above, whole, x - above) = Append(PathOf(ls, from, size, x - from), e)
  BY <1>2, <1>3, <1>4, PathStep
<1>7. ASSUME x + 1 - from < size
      PROVE  /\ ProofOf(ls, above, whole, x + 1 - above) =
                  Append(ProofOf(ls, from, size, x + 1 - from), e)
             /\ x + 1 - above < whole
             /\ RootOf(ls, above, x + 1 - above) = NodeHash(e, RootOf(ls, from, x + 1 - from))
  <2>. DEFINE m == x + 1 - above
  <2>1. m < whole /\ m \in 1 .. whole /\ ~ (m <= w) /\ m - w = x + 1 - from /\ m \in Nat
    BY <1>1, <1>2, <1>3, <1>4, <1>7
  <2>. HIDE DEF m
  <2>2. ProofOf(ls, above, whole, m) = Append(ProofOf(ls, above + w, whole - w, m - w), e)
    BY <1>2, <1>3, <1>4, <2>1, ProofStep, SMTT(30)
  <2>3. Split(m) = w
    BY <1>1, <1>2, <2>1, SplitUnique
  <2>4. RootOf(ls, above, m) = NodeHash(e, RootOf(ls, above + w, m - w))
    BY <1>1, <1>2, <2>1, <2>3, RootStep
  <2>. QED
    BY <1>3, <2>1, <2>2, <2>4 DEF m
<1>. HIDE DEF e
<1>. QED
  BY <1>5, <1>6, <1>7 DEF from, size, above, whole, Node, NodePath, NodeProof

LEMMA ParentNone ==
    ASSUME NEW ls \in Seq(Data), NEW x, NEW w, NEW j, NEW s, Here(Len(ls), x, w, j, s),
           j % 2 = 0, j = s
    PROVE  /\ From(2 * w, j \div 2) = From(w, j)
           /\ Size(Len(ls), 2 * w, j \div 2, s \div 2) = Size(Len(ls), w, j, s)
           /\ Node(ls, 2 * w, j \div 2, s \div 2) = Node(ls, w, j, s)
           /\ NodePath(ls, x, 2 * w, j \div 2, s \div 2) = NodePath(ls, x, w, j, s)
           /\ NodeProof(ls, x, 2 * w, j \div 2, s \div 2) = NodeProof(ls, x, w, j, s)
<1>1. /\ From(2 * w, j \div 2) = From(w, j)
      /\ Size(Len(ls), 2 * w, j \div 2, s \div 2) = Size(Len(ls), w, j, s)
  BY Above
<1>. QED
  BY <1>1 DEF Node, NodePath, NodeProof

LEMMA TopNode ==
    ASSUME NEW ls \in Seq(Data), NEW x, NEW w, NEW j, NEW s, Here(Len(ls), x, w, j, s), s = 0
    PROVE  /\ From(w, j) = 0 /\ Size(Len(ls), w, j, s) = Len(ls)
           /\ Node(ls, w, j, s) = MerkleRoot(ls)
           /\ NodePath(ls, x, w, j, s) = InclusionPath(ls, x)
           /\ NodeProof(ls, x, w, j, s) = ProofOf(ls, 0, Len(ls), x + 1)
<1>1. From(w, j) = 0 /\ Size(Len(ls), w, j, s) = Len(ls)
  BY HereFacts
<1>2. x - 0 = x /\ (x + 1) - 0 = x + 1
  BY HereFacts
<1>. QED
  BY <1>1, <1>2 DEF Node, NodePath, NodeProof, MerkleRoot, InclusionPath, RootOf, PathOf

\* Below the root of the tree, the prover's paths are shorter.
LEMMA Shorter ==
    ASSUME NEW ls \in Seq(Data), NEW x, NEW w, NEW j, NEW s, Here(Len(ls), x, w, j, s), s > 0
    PROVE  /\ Len(NodePath(ls, x, w, j, s)) < Len(InclusionPath(ls, x))
           /\ x + 1 - From(w, j) < Size(Len(ls), w, j, s) \/ (j % 2 = 0 /\ j < s) =>
                Len(NodeProof(ls, x, w, j, s)) < Len(ProofOf(ls, 0, Len(ls), x + 1))
<1>. DEFINE path == InclusionPath(ls, x)
            proof == ProofOf(ls, 0, Len(ls), x + 1)
            P(v, i, t) == Len(NodePath(ls, x, v, i, t))
            Q(v, i, t) == Len(NodeProof(ls, x, v, i, t))
            Inner(v, i, t) == x + 1 - From(v, i) < Size(Len(ls), v, i, t)
            S == {t \in Nat : \A v, i : Here(Len(ls), x, v, i, t) =>
                    /\ P(v, i, t) <= Len(path) /\ (t > 0 => P(v, i, t) < Len(path))
                    /\ Inner(v, i, t) \/ (i % 2 = 0 /\ i < t) \/ t = 0 =>
                         Q(v, i, t) <= Len(proof) /\ (t > 0 => Q(v, i, t) < Len(proof))}
<1>1. ASSUME NEW t \in Nat, \A k \in 0 .. t - 1 : k \in S PROVE t \in S
  <2>. SUFFICES ASSUME NEW v, NEW i, Here(Len(ls), x, v, i, t)
                PROVE  /\ P(v, i, t) <= Len(path) /\ (t > 0 => P(v, i, t) < Len(path))
                       /\ Inner(v, i, t) \/ (i % 2 = 0 /\ i < t) \/ t = 0 =>
                            Q(v, i, t) <= Len(proof) /\ (t > 0 => Q(v, i, t) < Len(proof))
    OBVIOUS
  <2>. DEFINE u == t \div 2
              h == i \div 2
  <2>1. Here(Len(ls), x, 2 * v, h, u) /\ i \in Nat /\ i <= t
    BY HereUp, HereFacts
  <2>2. /\ u \in Nat /\ (t > 0 => u \in 0 .. t - 1)
        /\ i % 2 = 0 \/ i % 2 = 1
        /\ i % 2 = 1 => t > 0
        /\ i = t /\ i % 2 = 0 /\ t > 0 => u > 0
    BY <2>1, Halves
  <2>3. /\ IsPath(NodePath(ls, x, v, i, t)) /\ P(v, i, t) \in Nat
        /\ IsPath(NodeProof(ls, x, v, i, t)) /\ Q(v, i, t) \in Nat
    BY NodePathsArePaths DEF IsPath
  <2>4. CASE t = 0
    BY <2>3, <2>4, TopNode
  <2>. HIDE DEF path, proof
  <2>5. CASE t > 0
    <3>1. /\ P(2 * v, h, u) <= Len(path) /\ (u > 0 => P(2 * v, h, u) < Len(path))
          /\ Inner(2 * v, h, u) =>
               Q(2 * v, h, u) <= Len(proof) /\ (u > 0 => Q(2 * v, h, u) < Len(proof))
      <4>. HIDE DEF P, Q, Inner
      <4>1. u \in S
        BY <1>1, <2>2, <2>5
      <4>. QED
        BY <2>1, <4>1
    <3>2. CASE i % 2 = 0 /\ i < t
      <4>1. /\ P(2 * v, h, u) = P(v, i, t) + 1
            /\ Q(2 * v, h, u) = Q(v, i, t) + 1
            /\ Inner(2 * v, h, u)
        BY <2>3, <3>2, ParentLeft, AppendFacts
      <4>2. P(2 * v, h, u) <= Len(path) /\ Q(2 * v, h, u) <= Len(proof)
        BY <3>1, <4>1
      <4>3. P(v, i, t) \in Nat /\ Q(v, i, t) \in Nat
        BY <2>3
      <4>. HIDE DEF P, Q, Inner, h, u
      <4>. QED
        BY <4>1, <4>2, <4>3
    <3>3. CASE i % 2 = 1
      <4>1. /\ P(2 * v, h, u) = P(v, i, t) + 1
            /\ Inner(v, i, t) => /\ Q(2 * v, h, u) = Q(v, i, t) + 1
                                 /\ Inner(2 * v, h, u)
        BY <2>3, <3>3, ParentRight, AppendFacts
      <4>2. P(v, i, t) \in Nat /\ Q(v, i, t) \in Nat
        BY <2>3
      <4>3. ~ (i % 2 = 0) /\ ~ (t = 0)
        BY <2>5, <3>3
      <4>. HIDE DEF P, Q, Inner, h, u
      <4>. QED
        BY <3>1, <4>1, <4>2, <4>3
    <3>4. CASE i % 2 = 0 /\ i = t
      <4>1. /\ P(2 * v, h, u) = P(v, i, t)
            /\ Q(2 * v, h, u) = Q(v, i, t)
            /\ Inner(2 * v, h, u) <=> Inner(v, i, t)
        BY <3>4, ParentNone
      <4>2. u > 0 /\ ~ (i < t) /\ ~ (t = 0)
        BY <2>1, <2>2, <2>5, <3>4
      <4>3. P(v, i, t) \in Nat /\ Q(v, i, t) \in Nat
        BY <2>3
      <4>. HIDE DEF P, Q, Inner, h, u
      <4>. QED
        BY <3>1, <4>1, <4>2, <4>3
    <3>. QED
      BY <2>1, <2>2, <3>2, <3>3, <3>4
  <2>. QED
    BY <2>4, <2>5
<1>. HIDE DEF S, path, proof
<1>2. \A t \in Nat : t \in S
  BY <1>1, StrongInduction
<1>3. s \in S
  BY <1>2, HereFacts
<1>. QED
  BY <1>3 DEF S, path, proof

LEMMA AtUnique ==
    ASSUME NEW y \in Nat, NEW w, NEW i, NEW j, At(y, w, i), At(y, w, j)
    PROVE  i = j
<1>1. /\ w \in Nat /\ i \in Nat /\ j \in Nat /\ i * w \in Nat /\ j * w \in Nat
      /\ i * w <= y /\ y < i * w + w /\ j * w <= y /\ y < j * w + w
  BY PowFacts, Scaling DEF At
<1>2. ~ (i < j)
  BY <1>1, Multiples
<1>3. ~ (j < i)
  BY <1>1, Multiples
<1>. QED
  BY <1>1, <1>2, <1>3

\* The slices that end the log, split.
LEMMA TailStep ==
    ASSUME NEW ls \in Seq(Data), NEW v, NEW i, At(Len(ls) - 1, v, i), Len(ls) > 0
    PROVE  /\ v \in Pow /\ v \in Nat /\ i * v \in Nat /\ Len(ls) - i * v \in 1 .. v
           /\ Len(ls) - i * v = 1 => RootOf(ls, i * v, 1) = LeafHash(ls[i * v + 1])
           /\ Len(ls) - i * v >= 2 =>
                \E k, t :
                  /\ k \in Pow /\ k \in Nat /\ k >= 1 /\ 2 * k <= v /\ At(Len(ls) - 1, k, t)
                  /\ t * k = i * v + k
                  /\ RootOf(ls, i * v, Len(ls) - i * v) =
                       NodeHash(RootOf(ls, i * v, k), RootOf(ls, t * k, Len(ls) - t * k))
<1>. DEFINE n == Len(ls)
            a == i * v
<1>0. n \in Nat /\ n > 0 /\ At(n - 1, v, i)
  OBVIOUS
<1>1. v \in Pow /\ v \in Nat /\ v >= 1 /\ i \in Nat /\ a \in Nat /\ n - a \in 1 .. v
  <2>. HIDE DEF n
  <2>1. v \in Pow /\ v \in Nat /\ v >= 1 /\ i \in Nat /\ i * v <= n - 1 /\ n - 1 < i * v + v
    BY <1>0, PowFacts DEF At
  <2>2. i * v \in Nat
    BY <2>1
  <2>. QED
    BY <1>0, <2>1, <2>2
<1>2. n - a = 1 => RootOf(ls, a, 1) = LeafHash(ls[a + 1])
  BY <1>1, RootStep
<1>3. ASSUME n - a >= 2
      PROVE  \E k, t :
                  /\ k \in Pow /\ k \in Nat /\ k >= 1 /\ 2 * k <= v /\ At(n - 1, k, t)
                  /\ t * k = a + k
                  /\ RootOf(ls, a, n - a) = NodeHash(RootOf(ls, a, k), RootOf(ls, t * k, n - t * k))
  <2>. DEFINE k == Split(n - a)
  <2>. HIDE DEF a, n
  <2>0. n - a \in Nat
    BY <1>0, <1>1
  <2>1. /\ k \in Pow /\ k \in 1 .. (n - a) - 1 /\ n - a <= 2 * k
        /\ RootOf(ls, a, n - a) = NodeHash(RootOf(ls, a, k), RootOf(ls, a + k, (n - a) - k))
    BY <1>1, <1>3, <2>0, SplitFacts, RootStep
  <2>. HIDE DEF k
  <2>2. k < v /\ k \in Nat /\ k >= 1
    BY <1>0, <1>1, <2>1
  <2>3. 2 * k <= v
    BY <1>1, <2>1, <2>2, PowDoubles
  <2>4. PICK c \in Nat : v = c * k
    BY <1>1, <2>1, <2>2, PowDivides
  <2>. DEFINE t == i * c + 1
  <2>5. t \in Nat /\ t * k = a + k
    <3>1. (i * c) * k = i * (c * k) /\ (i * c + 1) * k = (i * c) * k + k
      BY <1>1, <2>2, <2>4
    <3>. QED
      BY <1>1, <2>4, <3>1 DEF a
  <2>. HIDE DEF t
  <2>6. At(n - 1, k, t)
    BY <1>0, <1>1, <2>1, <2>2, <2>5 DEF At
  <2>7. n - t * k = (n - a) - k
    BY <1>0, <1>1, <2>2, <2>5
  <2>. QED
    BY <2>1, <2>2, <2>3, <2>5, <2>6, <2>7
<1>. QED
  BY <1>1, <1>2, <1>3

-----------------------------------------------------------------------------
(* What a hash that is no root of the node it was built at can still be.   *)
(* Off the log's end it is no root of a narrower slice, and at the end it  *)
(* is no root of a slice that ends the log.                                *)

Deep(ls, w, h) == \A a \in Nat : \A m \in Nat \ {0} : 2 * m <= w => h # RootOf(ls, a, m)

NoTail(ls, w, h) ==
    \A v, i : At(Len(ls) - 1, v, i) /\ v <= w => h # RootOf(ls, i * v, Len(ls) - i * v)

Apart(ls, w, j, s, h) ==
    /\ j < s => Deep(ls, w, h)
    /\ j = s => h = Node(ls, w, j, s) \/ NoTail(ls, w, h)

LEMMA TailNode ==
    ASSUME NEW ls, NEW w, NEW j \in Nat
    PROVE  Node(ls, w, j, j) = RootOf(ls, j * w, Len(ls) - j * w)
<1>1. Size(Len(ls), w, j, j) = Len(ls) - j * w
  <2>1. ~ (j < j)
    OBVIOUS
  <2>. QED
    BY <2>1 DEF Size
<1>. QED
  BY <1>1 DEF Node, From

LEMMA DeepUp ==
    ASSUME NEW ls \in Seq(Data), NEW w \in Pow, NEW h, NEW e, Deep(ls, w, h)
    PROVE  Deep(ls, 2 * w, NodeHash(h, e)) /\ Deep(ls, 2 * w, NodeHash(e, h))
<1>1. ASSUME NEW a \in Nat, NEW m \in Nat \ {0}, 2 * m <= 2 * w,
             RootOf(ls, a, m) = NodeHash(h, e) \/ RootOf(ls, a, m) = NodeHash(e, h)
      PROVE  FALSE
  <2>1. w \in Nat
    BY PowFacts
  <2>2. m >= 2
    BY <1>1, RootStep, HashFacts
  <2>. DEFINE k == Split(m)
  <2>3. k \in Pow /\ k \in 1 .. m - 1 /\ m <= 2 * k
    BY <2>2, SplitFacts
  <2>4. RootOf(ls, a, m) = NodeHash(RootOf(ls, a, k), RootOf(ls, a + k, m - k))
    BY <2>2, RootStep
  <2>. HIDE DEF k
  <2>5. 2 * k <= w
    BY <1>1, <2>1, <2>3, PowDoubles
  <2>6. h # RootOf(ls, a, k) /\ h # RootOf(ls, a + k, m - k)
    BY <2>1, <2>3, <2>5 DEF Deep
  <2>. QED
    BY <1>1, <2>4, <2>6, HashFacts
<1>. QED
  BY <1>1 DEF Deep

LEMMA ApartLeft ==
    ASSUME NEW ls \in Seq(Data), NEW x, NEW w, NEW j, NEW s, Here(Len(ls), x, w, j, s),
           j % 2 = 0, j < s, NEW h, NEW e, Apart(ls, w, j, s, h)
    PROVE  Apart(ls, 2 * w, j \div 2, s \div 2, NodeHash(h, e))
<1>. DEFINE i == j \div 2
            t == s \div 2
<1>1. Deep(ls, w, h)
  BY DEF Apart
<1>2. Len(ls) \in Nat /\ Len(ls) > 0 /\ w \in Pow /\ w \in Nat
  BY HereFacts
<1>3. At(Len(ls) - 1, 2 * w, t)
  BY HereUp DEF Here
<1>. HIDE DEF i, t
<1>4. ASSUME i < t PROVE Deep(ls, 2 * w, NodeHash(h, e))
  BY <1>1, <1>2, DeepUp
<1>5. ASSUME i = t, ~ NoTail(ls, 2 * w, NodeHash(h, e))
      PROVE  NodeHash(h, e) = Node(ls, 2 * w, i, t)
  <2>1. PICK v, r : /\ At(Len(ls) - 1, v, r) /\ v <= 2 * w
                    /\ NodeHash(h, e) = RootOf(ls, r * v, Len(ls) - r * v)
    BY <1>5 DEF NoTail
  <2>. DEFINE a == r * v
              m == Len(ls) - r * v
  <2>2. v \in Pow /\ v \in Nat /\ a \in Nat /\ m \in 1 .. v
    BY <1>2, <2>1, TailStep
  <2>3. m # 1
    BY <1>2, <2>1, TailStep, HashFacts
  <2>4. m >= 2
    <3>. HIDE DEF m, a
    <3>. QED
      BY <2>2, <2>3
  <2>5. PICK k, q : /\ k \in Pow /\ k \in Nat /\ k >= 1 /\ 2 * k <= v
                    /\ RootOf(ls, a, m) =
                         NodeHash(RootOf(ls, a, k), RootOf(ls, q * k, Len(ls) - q * k))
    BY <1>2, <2>1, <2>4, TailStep
  <2>6. h = RootOf(ls, a, k)
    BY <2>1, <2>5, HashFacts
  <2>7. ~ (2 * k <= w)
    BY <1>1, <2>2, <2>5, <2>6 DEF Deep
  <2>8. ~ (k < w)
    BY <1>2, <2>5, <2>7, PowDoubles
  <2>9. v = 2 * w
    BY <1>2, <2>1, <2>2, <2>5, <2>8
  <2>10. r = t
    BY <1>2, <1>3, <2>1, <2>9, AtUnique
  <2>. QED
    <3>1. t \in Nat
      BY <1>3 DEF At
    <3>. QED
      BY <1>5, <2>1, <2>9, <2>10, <3>1, TailNode
<1>. QED
  BY <1>4, <1>5 DEF Apart, i, t

LEMMA ApartRight ==
    ASSUME NEW ls \in Seq(Data), NEW x, NEW w, NEW j, NEW s, Here(Len(ls), x, w, j, s),
           j % 2 = 1, NEW h, NEW e, Apart(ls, w, j, s, h)
    PROVE  Apart(ls, 2 * w, j \div 2, s \div 2, NodeHash(e, h))
<1>. DEFINE i == j \div 2
            t == s \div 2
            n == Len(ls)
<1>1. /\ n \in Nat /\ n > 0 /\ w \in Pow /\ w \in Nat /\ w >= 1
      /\ j \in Nat /\ s \in Nat /\ j <= s /\ From(w, j) < n /\ From(w, j) \in Nat
  BY HereFacts, SMTT(30)
<1>2. At(n - 1, 2 * w, t) /\ (i < t => j < s) /\ (i = t => j = s)
  <2>1. At(n - 1, 2 * w, t)
    BY HereUp DEF Here
  <2>2. /\ i \in Nat /\ t \in Nat /\ j = 2 * i + 1
        /\ s = 2 * t \/ s = 2 * t + 1
    BY <1>1, Halves
  <2>. HIDE DEF i, t
  <2>. QED
    BY <1>1, <2>1, <2>2
<1>. HIDE DEF i, t, n
<1>3. ASSUME i < t PROVE Deep(ls, 2 * w, NodeHash(e, h))
  BY <1>1, <1>2, <1>3, DeepUp DEF Apart
<1>4. ASSUME i = t, ~ NoTail(ls, 2 * w, NodeHash(e, h))
      PROVE  NodeHash(e, h) = Node(ls, 2 * w, i, t)
  <2>1. PICK v, r : /\ At(n - 1, v, r) /\ v <= 2 * w
                    /\ NodeHash(e, h) = RootOf(ls, r * v, n - r * v)
    BY <1>4 DEF NoTail, n
  <2>. DEFINE a == r * v
              m == n - r * v
  <2>2. v \in Pow /\ v \in Nat /\ a \in Nat /\ m \in 1 .. v
    BY <1>1, <2>1, TailStep DEF n
  <2>3. m # 1
    BY <1>1, <2>1, TailStep, HashFacts DEF n
  <2>4. m >= 2
    <3>. HIDE DEF m, a
    <3>. QED
      BY <2>2, <2>3
  <2>5. PICK k, q : /\ k \in Pow /\ k \in Nat /\ k >= 1 /\ 2 * k <= v
                    /\ At(n - 1, k, q) /\ q * k = a + k
                    /\ RootOf(ls, a, m) = NodeHash(RootOf(ls, a, k), RootOf(ls, q * k, n - q * k))
    BY <1>1, <2>1, <2>4, TailStep DEF n
  <2>6. h = RootOf(ls, q * k, n - q * k)
    BY <2>1, <2>5, HashFacts
  <2>7. k <= w
    BY <1>1, <2>1, <2>2, <2>5
  <2>8. ~ NoTail(ls, w, h)
    BY <2>5, <2>6, <2>7 DEF NoTail, n
  <2>9. h = RootOf(ls, j * w, n - j * w)
    BY <1>1, <1>2, <1>4, <2>8, TailNode DEF Apart, n
  <2>10. j * w = a + k
    <3>1. j * w \in Nat /\ n - j * w \in Nat \ {0}
      BY <1>1 DEF From
    <3>2. q * k \in Nat /\ n - q * k \in Nat \ {0}
      BY <1>1, <2>5, TailStep DEF n
    <3>3. n - j * w = n - q * k
      BY <2>6, <2>9, <3>1, <3>2, RootTellsSize
    <3>. QED
      BY <1>1, <2>5, <3>1, <3>2, <3>3, SMTT(30)
  <2>11. ~ (v <= w)
    <3>. SUFFICES ASSUME v <= w PROVE FALSE
      OBVIOUS
    <3>1. PICK c \in Nat : w = c * v
      BY <1>1, <2>2, PowDivides
    <3>. DEFINE b == j * c
    <3>2. b \in Nat /\ b * v = r * v + k /\ r \in Nat
      <4>1. j * (c * v) = (j * c) * v
        BY <1>1, <2>2
      <4>2. r \in Nat
        BY <2>1 DEF At
      <4>. QED
        BY <1>1, <2>10, <3>1, <4>1, <4>2
    <3>. HIDE DEF b
    <3>3. ~ (r < b)
      BY <2>2, <2>5, <3>2, Multiples
    <3>4. ~ (b < r)
      BY <2>2, <2>5, <3>2, Multiples
    <3>. QED
      BY <2>2, <2>5, <3>2, <3>3, <3>4
  <2>12. v = 2 * w
    BY <1>1, <2>1, <2>2, <2>11, PowDoubles
  <2>13. r = t
    BY <1>1, <1>2, <2>1, <2>12, AtUnique
  <2>. QED
    <3>1. t \in Nat
      BY <1>2 DEF At
    <3>. QED
      BY <1>4, <2>1, <2>12, <2>13, <3>1, TailNode DEF n
<1>. QED
  BY <1>3, <1>4 DEF Apart, i, t

LEMMA ApartNone ==
    ASSUME NEW ls \in Seq(Data), NEW x, NEW w, NEW j, NEW s, Here(Len(ls), x, w, j, s),
           j % 2 = 0, j = s, NEW h, Apart(ls, w, j, s, h)
    PROVE  Apart(ls, 2 * w, j \div 2, s \div 2, h)
<1>. DEFINE t == s \div 2
<1>1. /\ Len(ls) \in Nat /\ Len(ls) > 0 /\ w \in Pow /\ w \in Nat
      /\ At(Len(ls) - 1, 2 * w, t)
      /\ Node(ls, 2 * w, t, t) = Node(ls, w, j, s)
  <2>1. Len(ls) \in Nat /\ Len(ls) > 0 /\ w \in Pow /\ w \in Nat
    BY HereFacts
  <2>2. At(Len(ls) - 1, 2 * w, t)
    BY HereUp DEF Here
  <2>3. Node(ls, 2 * w, t, t) = Node(ls, w, j, s)
    BY ParentNone
  <2>. QED
    BY <2>1, <2>2, <2>3
<1>. HIDE DEF t
<1>2. ASSUME ~ NoTail(ls, 2 * w, h) PROVE h = Node(ls, 2 * w, t, t)
  <2>1. PICK v, r : /\ At(Len(ls) - 1, v, r) /\ v <= 2 * w
                    /\ h = RootOf(ls, r * v, Len(ls) - r * v)
    BY <1>2 DEF NoTail
  <2>2. v \in Pow /\ v \in Nat
    BY <2>1, PowFacts DEF At
  <2>3. CASE v <= w
    <3>1. ~ NoTail(ls, w, h)
      BY <2>1, <2>3 DEF NoTail
    <3>. QED
      BY <1>1, <3>1 DEF Apart
  <2>4. CASE ~ (v <= w)
    <3>1. v = 2 * w
      BY <1>1, <2>1, <2>2, <2>4, PowDoubles
    <3>2. r = t
      BY <1>1, <2>1, <3>1, AtUnique
    <3>. QED
      BY <1>1, <2>1, <3>1, <3>2, TailNode DEF At
  <2>. QED
    BY <2>3, <2>4
<1>3. ~ (t < t)
  BY HereFacts DEF t
<1>. QED
  BY <1>2, <1>3 DEF Apart, t

\* Above the root of the tree, no hash is a root again.
LEMMA ApartOver ==
    ASSUME NEW ls \in Seq(Data), NEW x, NEW w, NEW j, NEW s, Here(Len(ls), x, w, j, s),
           s = 0, NEW h, NEW e, Apart(ls, w, j, s, h)
    PROVE  NoTail(ls, w, NodeHash(e, h)) /\ NodeHash(e, h) # Node(ls, w, j, s)
<1>. DEFINE n == Len(ls)
<1>1. /\ n \in Nat /\ n > 0 /\ w \in Pow /\ w \in Nat /\ j = 0
      /\ At(n - 1, w, 0) /\ 0 * w = 0
  <2>1. n \in Nat /\ n > 0 /\ w \in Pow /\ w \in Nat /\ j = 0
    BY HereFacts
  <2>2. At(n - 1, w, 0)
    BY DEF Here
  <2>. QED
    BY <2>1, <2>2
<1>2. Node(ls, w, j, s) = RootOf(ls, 0 * w, n - 0 * w)
  BY <1>1, TailNode
<1>. HIDE DEF n
<1>3. ASSUME NEW v, NEW r, At(n - 1, v, r), v <= w,
             NodeHash(e, h) = RootOf(ls, r * v, n - r * v)
      PROVE  FALSE
  <2>. DEFINE a == r * v
              m == n - r * v
  <2>2. v \in Pow /\ v \in Nat /\ a \in Nat /\ m \in 1 .. v
    BY <1>1, <1>3, TailStep DEF n
  <2>3. m # 1
    BY <1>1, <1>3, TailStep, HashFacts DEF n
  <2>4. m >= 2
    <3>. HIDE DEF m, a
    <3>. QED
      BY <2>2, <2>3
  <2>5. PICK k, q : /\ k \in Pow /\ k \in Nat /\ k >= 1 /\ 2 * k <= v
                    /\ At(n - 1, k, q) /\ q * k = a + k
                    /\ RootOf(ls, a, m) = NodeHash(RootOf(ls, a, k), RootOf(ls, q * k, n - q * k))
    BY <1>1, <1>3, <2>4, TailStep DEF n
  <2>6. h = RootOf(ls, q * k, n - q * k)
    BY <1>3, <2>5, HashFacts
  <2>7. k <= w
    BY <1>1, <1>3, <2>2, <2>5
  <2>8. ~ NoTail(ls, w, h)
    BY <2>5, <2>6, <2>7 DEF NoTail, n
  <2>9. h = RootOf(ls, 0, n)
    BY <1>1, <1>2, <2>8 DEF Apart
  <2>10. q * k \in Nat /\ n - q * k \in Nat \ {0}
    BY <1>1, <2>5, TailStep DEF n
  <2>11. n = n - q * k
    BY <1>1, <2>6, <2>9, <2>10, RootTellsSize
  <2>. QED
    BY <1>1, <2>2, <2>5, <2>10, <2>11, SMTT(30)
<1>4. NoTail(ls, w, NodeHash(e, h))
  BY <1>3 DEF NoTail, n
<1>. QED
  BY <1>1, <1>2, <1>3, <1>4

-----------------------------------------------------------------------------
(* The climb of verify_inclusion_proof: from a claim of hash for leaf x,   *)
(* h is what u hashes of the path make of it at a node.                    *)

Climbed(ls, x, hash, path, w, j, s, h, u) ==
    /\ Here(Len(ls), x, w, j, s)
    /\ Apart(ls, w, j, s, h)
    /\ u \in Nat /\ Len(NodePath(ls, x, w, j, s)) <= u
    /\ s > 0 => u = Len(NodePath(ls, x, w, j, s))
    /\ h = Node(ls, w, j, s) <=>
         hash = LeafHash(ls[x + 1]) /\ Uses(path, u, NodePath(ls, x, w, j, s))

LEMMA ClimbStart ==
    ASSUME NEW ls \in Seq(Data), NEW x \in 0 .. Len(ls) - 1, NEW hash, NEW path
    PROVE  Climbed(ls, x, hash, path, 1, x, Len(ls) - 1, hash, 0)
<1>. DEFINE s == Len(ls) - 1
<1>1. /\ x \in Nat /\ s \in Nat /\ x <= s /\ Len(ls) \in Nat /\ Len(ls) = s + 1
      /\ 1 \in Pow /\ x * 1 = x /\ s * 1 = s
  BY PowFacts
<1>2. Here(Len(ls), x, 1, x, s)
  BY <1>1 DEF Here, At
<1>. HIDE DEF s
<1>3. From(1, x) = x /\ Size(Len(ls), 1, x, s) = 1
  BY <1>1 DEF From, Size
<1>4. Node(ls, 1, x, s) = LeafHash(ls[x + 1])
  <2>1. RootOf(ls, x, 1) = LeafHash(ls[x + 1])
    BY <1>1, RootStep
  <2>. QED
    BY <1>3, <2>1 DEF Node
<1>5. NodePath(ls, x, 1, x, s) = <<>>
  BY <1>1, <1>3, PathStep DEF NodePath
<1>6. Uses(path, 0, <<>>)
  BY DEF Uses
<1>7. Apart(ls, 1, x, s, hash)
  <2>1. Deep(ls, 1, hash)
    BY DEF Deep
  <2>2. ASSUME x = s, hash # Node(ls, 1, x, s) PROVE NoTail(ls, 1, hash)
    <3>1. ASSUME NEW v, NEW i, At(Len(ls) - 1, v, i), v <= 1
          PROVE  hash # RootOf(ls, i * v, Len(ls) - i * v)
      <4>1. v = 1
        BY <3>1, PowFacts DEF At
      <4>2. At(Len(ls) - 1, 1, x)
        BY <1>1, <2>2 DEF At
      <4>3. i = x
        BY <1>1, <3>1, <4>1, <4>2, AtUnique
      <4>. QED
        BY <1>1, <2>2, <4>1, <4>3, TailNode
    <3>. QED
      BY <3>1 DEF NoTail
  <2>. QED
    BY <2>1, <2>2 DEF Apart
<1>. QED
  BY <1>2, <1>4, <1>5, <1>6, <1>7 DEF Climbed, s

LEMMA ClimbLeft ==
    ASSUME NEW ls \in Seq(Data), NEW x, NEW hash, NEW path, NEW w, NEW j, NEW s, NEW h, NEW u,
           Climbed(ls, x, hash, path, w, j, s, h, u), j % 2 = 0, j < s
    PROVE  Climbed(ls, x, hash, path, 2 * w, j \div 2, s \div 2,
                   NodeHash(h, path[u + 1]), u + 1)
<1>. DEFINE q == NodePath(ls, x, w, j, s)
            up == NodePath(ls, x, 2 * w, j \div 2, s \div 2)
            node == Node(ls, w, j, s)
            above == Node(ls, 2 * w, j \div 2, s \div 2)
<1>1. /\ Here(Len(ls), x, w, j, s) /\ Apart(ls, w, j, s, h) /\ u \in Nat
      /\ Len(q) <= u /\ (s > 0 => u = Len(q))
      /\ h = node <=> hash = LeafHash(ls[x + 1]) /\ Uses(path, u, q)
  BY DEF Climbed
<1>2. Here(Len(ls), x, 2 * w, j \div 2, s \div 2) /\ s > 0
  <2>1. Here(Len(ls), x, 2 * w, j \div 2, s \div 2)
    BY <1>1, HereUp
  <2>2. j \in Nat /\ s \in Nat /\ j <= s
    BY <1>1, HereFacts
  <2>. QED
    BY <2>1, <2>2
<1>3. PICK e : above = NodeHash(node, e) /\ up = Append(q, e)
  BY <1>1, ParentLeft
<1>4. IsPath(q)
  BY <1>1, NodePathsArePaths
<1>5. Apart(ls, 2 * w, j \div 2, s \div 2, NodeHash(h, path[u + 1]))
  BY <1>1, ApartLeft
<1>. HIDE DEF q, up, node, above
<1>6. Len(up) = u + 1
  BY <1>1, <1>2, <1>3, <1>4, AppendFacts
<1>7. NodeHash(h, path[u + 1]) = above <=>
        hash = LeafHash(ls[x + 1]) /\ Uses(path, u + 1, up)
  BY <1>1, <1>3, <1>4, UsesNext, HashFacts
<1>. QED
  BY <1>1, <1>2, <1>5, <1>6, <1>7 DEF Climbed, up, above

LEMMA ClimbRight ==
    ASSUME NEW ls \in Seq(Data), NEW x, NEW hash, NEW path, NEW w, NEW j, NEW s, NEW h, NEW u,
           Climbed(ls, x, hash, path, w, j, s, h, u), j % 2 = 1
    PROVE  Climbed(ls, x, hash, path, 2 * w, j \div 2, s \div 2,
                   NodeHash(path[u + 1], h), u + 1)
<1>. DEFINE q == NodePath(ls, x, w, j, s)
            up == NodePath(ls, x, 2 * w, j \div 2, s \div 2)
            node == Node(ls, w, j, s)
            above == Node(ls, 2 * w, j \div 2, s \div 2)
<1>1. /\ Here(Len(ls), x, w, j, s) /\ Apart(ls, w, j, s, h) /\ u \in Nat
      /\ Len(q) <= u /\ (s > 0 => u = Len(q))
      /\ h = node <=> hash = LeafHash(ls[x + 1]) /\ Uses(path, u, q)
  BY DEF Climbed
<1>2. Here(Len(ls), x, 2 * w, j \div 2, s \div 2) /\ s > 0
  <2>1. Here(Len(ls), x, 2 * w, j \div 2, s \div 2)
    BY <1>1, HereUp
  <2>2. j \in Nat /\ s \in Nat /\ j <= s
    BY <1>1, HereFacts
  <2>. QED
    BY <2>1, <2>2
<1>3. PICK e : above = NodeHash(e, node) /\ up = Append(q, e)
  BY <1>1, ParentRight
<1>4. IsPath(q)
  BY <1>1, NodePathsArePaths
<1>5. Apart(ls, 2 * w, j \div 2, s \div 2, NodeHash(path[u + 1], h))
  BY <1>1, ApartRight
<1>. HIDE DEF q, up, node, above
<1>6. Len(up) = u + 1
  BY <1>1, <1>2, <1>3, <1>4, AppendFacts
<1>7. NodeHash(path[u + 1], h) = above <=>
        hash = LeafHash(ls[x + 1]) /\ Uses(path, u + 1, up)
  BY <1>1, <1>3, <1>4, UsesNext, HashFacts
<1>. QED
  BY <1>1, <1>2, <1>5, <1>6, <1>7 DEF Climbed, up, above

LEMMA ClimbNone ==
    ASSUME NEW ls \in Seq(Data), NEW x, NEW hash, NEW path, NEW w, NEW j, NEW s, NEW h, NEW u,
           Climbed(ls, x, hash, path, w, j, s, h, u), j % 2 = 0, j = s
    PROVE  Climbed(ls, x, hash, path, 2 * w, j \div 2, s \div 2, h, u)
<1>1. /\ Here(Len(ls), x, w, j, s) /\ Apart(ls, w, j, s, h) /\ s \in Nat
  BY HereFacts DEF Climbed
<1>2. Here(Len(ls), x, 2 * w, j \div 2, s \div 2)
  BY <1>1, HereUp
<1>3. Apart(ls, 2 * w, j \div 2, s \div 2, h)
  BY <1>1, ApartNone
<1>4. /\ Node(ls, 2 * w, j \div 2, s \div 2) = Node(ls, w, j, s)
      /\ NodePath(ls, x, 2 * w, j \div 2, s \div 2) = NodePath(ls, x, w, j, s)
  BY <1>1, ParentNone
<1>5. s \div 2 > 0 => s > 0
  BY <1>1
<1>. QED
  BY <1>2, <1>3, <1>4, <1>5 DEF Climbed

\* A hash of the path above the root of the tree.
LEMMA ClimbOver ==
    ASSUME NEW ls \in Seq(Data), NEW x, NEW hash, NEW path, NEW w, NEW j, NEW s, NEW h, NEW u,
           Climbed(ls, x, hash, path, w, j, s, h, u), s = 0, NEW e
    PROVE  j = 0 /\ Climbed(ls, x, hash, path, w, j, s, NodeHash(e, h), u + 1)
<1>1. /\ Here(Len(ls), x, w, j, s) /\ Apart(ls, w, j, s, h) /\ u \in Nat
      /\ Len(NodePath(ls, x, w, j, s)) <= u
  BY DEF Climbed
<1>2. j = 0
  BY <1>1, HereFacts
<1>3. NoTail(ls, w, NodeHash(e, h)) /\ NodeHash(e, h) # Node(ls, w, j, s)
  BY <1>1, ApartOver
<1>4. Apart(ls, w, j, s, NodeHash(e, h))
  BY <1>2, <1>3 DEF Apart
<1>5. Len(NodePath(ls, x, w, j, s)) \in Nat
  BY <1>1, NodePathsArePaths DEF IsPath
<1>6. ~ Uses(path, u + 1, NodePath(ls, x, w, j, s))
  BY <1>1, <1>5 DEF Uses
<1>. QED
  BY <1>1, <1>2, <1>3, <1>4, <1>5, <1>6 DEF Climbed

\* At the root of the tree the climb has the root's hash for the true claim
\* with the prover's path only, and that path does not end below it.
LEMMA ClimbEnd ==
    ASSUME NEW ls \in Seq(Data), NEW x, NEW hash, NEW path, NEW w, NEW j, NEW s, NEW h,
           IsPath(path), Climbed(ls, x, hash, path, w, j, s, h, Len(path))
    PROVE  (h = MerkleRoot(ls) /\ s = 0) <=>
             (hash = LeafHash(ls[x + 1]) /\ path = InclusionPath(ls, x))
<1>1. Here(Len(ls), x, w, j, s) /\ x \in Nat
  BY HereFacts DEF Climbed
<1>3. CASE s = 0
  <2>1. Node(ls, w, j, s) = MerkleRoot(ls) /\ NodePath(ls, x, w, j, s) = InclusionPath(ls, x)
    BY <1>1, <1>3, TopNode
  <2>2. IsPath(InclusionPath(ls, x))
    BY <1>1, <2>1, NodePathsArePaths
  <2>3. Uses(path, Len(path), InclusionPath(ls, x)) <=> path = InclusionPath(ls, x)
    BY <2>2, UsesAll DEF Uses
  <2>. QED
    BY <1>3, <2>1, <2>3 DEF Climbed
<1>4. CASE s # 0
  <2>1. s > 0 /\ s \in Nat
    BY <1>1, <1>4, HereFacts
  <2>2. Len(NodePath(ls, x, w, j, s)) < Len(InclusionPath(ls, x))
    BY <1>1, <2>1, Shorter
  <2>3. Len(path) = Len(NodePath(ls, x, w, j, s))
    BY <2>1 DEF Climbed
  <2>4. Len(path) \in Nat
    BY DEF IsPath
  <2>5. path # InclusionPath(ls, x)
    BY <2>2, <2>3, <2>4
  <2>. QED
    BY <1>4, <2>5
<1>. QED
  BY <1>3, <1>4

-----------------------------------------------------------------------------
(* verify_consistency for an old log of x + 1 leaves.  It first finds the  *)
(* widest node that ends where the old log does.                           *)

EndsOldLog(ls, x, w, j, s) ==
    Here(Len(ls), x, w, j, s) /\ x + 1 < Len(ls) /\ From(w, j) + w = x + 1

LEMMA OnesStart ==
    ASSUME NEW ls \in Seq(Data), NEW x \in Nat, x + 1 < Len(ls)
    PROVE  EndsOldLog(ls, x, 1, x, Len(ls) - 1)
<1>1. x \in 0 .. Len(ls) - 1
  OBVIOUS
<1>2. Here(Len(ls), x, 1, x, Len(ls) - 1)
  BY <1>1, ClimbStart DEF Climbed
<1>3. From(1, x) + 1 = x + 1
  BY DEF From
<1>. QED
  BY <1>2, <1>3 DEF EndsOldLog

LEMMA OnesUp ==
    ASSUME NEW ls, NEW x, NEW w, NEW j, NEW s, EndsOldLog(ls, x, w, j, s), j % 2 = 1
    PROVE  EndsOldLog(ls, x, 2 * w, j \div 2, s \div 2)
<1>1. /\ Here(Len(ls), x, w, j, s) /\ x + 1 < Len(ls) /\ From(w, j) + w = x + 1
      /\ w \in Nat /\ x \in Nat
  BY HereFacts DEF EndsOldLog
<1>2. Here(Len(ls), x, 2 * w, j \div 2, s \div 2)
  BY <1>1, HereUp
<1>3. From(2 * w, j \div 2) \in Nat
  BY <1>2, HereFacts
<1>4. From(2 * w, j \div 2) + w = From(w, j)
  BY <1>1, Above
<1>5. From(2 * w, j \div 2) + 2 * w = x + 1
  BY <1>1, <1>3, <1>4
<1>. QED
  BY <1>1, <1>2, <1>5 DEF EndsOldLog

\* There are leaves behind the old log, and when it is more than that node its
\* size is no power of two.
LEMMA OnesEnd ==
    ASSUME NEW ls, NEW x, NEW w, NEW j, NEW s, EndsOldLog(ls, x, w, j, s), j % 2 = 0
    PROVE  /\ j < s
           /\ j = 0 => From(w, j) = 0 /\ w = x + 1 /\ x + 1 \in Pow
           /\ j # 0 => From(w, j) # 0 /\ x + 1 \notin Pow
<1>1. /\ Here(Len(ls), x, w, j, s) /\ x + 1 < Len(ls) /\ From(w, j) + w = x + 1
      /\ w \in Pow /\ w \in Nat /\ w >= 1 /\ x \in Nat /\ Len(ls) \in Nat
      /\ j \in Nat /\ s \in Nat /\ j <= s
      /\ Size(Len(ls), w, j, s) \in 1 .. w
      /\ j = s => Size(Len(ls), w, j, s) = Len(ls) - From(w, j)
      /\ From(w, j) \in Nat
  BY HereFacts DEF EndsOldLog
<1>2. j < s
  BY <1>1
<1>3. ASSUME j = 0 PROVE From(w, j) = 0 /\ w = x + 1 /\ x + 1 \in Pow
  <2>1. From(w, j) = 0
    BY <1>1, <1>3 DEF From
  <2>. QED
    BY <1>1, <2>1
<1>4. ASSUME j # 0 PROVE From(w, j) # 0 /\ x + 1 \notin Pow
  <2>1. From(w, j) >= w
    BY <1>1, <1>4, Multiples, 0 * w = 0 DEF From
  <2>2. ASSUME x + 1 \in Pow PROVE FALSE
    <3>1. 2 * w <= x + 1 /\ 2 * w \in Pow /\ 2 * w \in Nat
      BY <1>1, <2>1, PowFacts
    <3>2. PICK c \in Nat : x + 1 = c * (2 * w)
      BY <2>2, <3>1, PowDivides
    <3>3. x + 1 = (2 * c) * w /\ 2 * c \in Nat
      BY <1>1, <3>2
    <3>4. x + 1 = (j + 1) * w
      BY <1>1 DEF From
    <3>5. 2 * c = j + 1
      <4>. DEFINE a == 2 * c
                  b == j + 1
      <4>1. a \in Nat /\ b \in Nat /\ a * w = b * w
        BY <1>1, <3>3, <3>4
      <4>. HIDE DEF a, b
      <4>2. a * w \in Nat /\ ~ (a < b) /\ ~ (b < a)
        BY <1>1, <4>1, Multiples, Scaling
      <4>3. a = b
        BY <4>1, <4>2
      <4>. QED
        BY <4>3 DEF a, b
    <3>. QED
      BY <1>1, <3>5
  <2>. QED
    BY <1>1, <2>1, <2>2
<1>. QED
  BY <1>2, <1>3, <1>4

\* Then both roots are built from the old root, or from the first hash of the
\* path: at a node, h stands for the whole of it and f for the old log's part.
Built(ls, x, hash, path, w, j, s, f, h, u) ==
    /\ Here(Len(ls), x, w, j, s)
    /\ x + 1 - From(w, j) < Size(Len(ls), w, j, s) \/ (j % 2 = 0 /\ j < s)
    /\ u \in Nat /\ u = Len(NodeProof(ls, x, w, j, s))
    /\ h = Node(ls, w, j, s) <=>
         /\ x + 1 \in Pow => hash = RootOf(ls, 0, x + 1)
         /\ Uses(path, u, NodeProof(ls, x, w, j, s))
    /\ h = Node(ls, w, j, s) => f = RootOf(ls, From(w, j), x + 1 - From(w, j))

LEMMA BuildStart ==
    ASSUME NEW ls \in Seq(Data), NEW x, NEW hash, NEW path, NEW w, NEW j, NEW s,
           EndsOldLog(ls, x, w, j, s), j % 2 = 0
    PROVE  /\ j = 0 => Built(ls, x, hash, path, w, j, s, hash, hash, 0)
           /\ j # 0 => Built(ls, x, hash, path, w, j, s, path[1], path[1], 1)
<1>1. /\ Here(Len(ls), x, w, j, s) /\ From(w, j) + w = x + 1
      /\ w \in Nat /\ w >= 1 /\ x \in Nat /\ From(w, j) \in Nat
      /\ j < s => Size(Len(ls), w, j, s) = w
  BY HereFacts DEF EndsOldLog
<1>2. Size(Len(ls), w, j, s) = w /\ j < s
  BY <1>1, OnesEnd
<1>3. x + 1 - From(w, j) = w
  BY <1>1
<1>4. Node(ls, w, j, s) = RootOf(ls, From(w, j), w)
  BY <1>2 DEF Node
<1>5. NodeProof(ls, x, w, j, s) = ProofOf(ls, From(w, j), w, w)
  BY <1>2, <1>3 DEF NodeProof
<1>6. ASSUME j = 0 PROVE Built(ls, x, hash, path, w, j, s, hash, hash, 0)
  <2>1. From(w, j) = 0 /\ w = x + 1 /\ x + 1 \in Pow
    BY <1>6, OnesEnd
  <2>2. NodeProof(ls, x, w, j, s) = <<>>
    BY <1>1, <1>5, <2>1, ProofStep
  <2>3. Len(<<>>) = 0 /\ Uses(path, 0, <<>>)
    BY DEF Uses
  <2>4. Node(ls, w, j, s) = RootOf(ls, 0, x + 1)
    BY <1>4, <2>1
  <2>5. RootOf(ls, From(w, j), x + 1 - From(w, j)) = Node(ls, w, j, s)
    BY <1>3, <1>4
  <2>. QED
    BY <1>1, <1>2, <1>6, <2>1, <2>2, <2>3, <2>4, <2>5 DEF Built
<1>7. ASSUME j # 0 PROVE Built(ls, x, hash, path, w, j, s, path[1], path[1], 1)
  <2>1. From(w, j) # 0 /\ x + 1 \notin Pow
    BY <1>7, OnesEnd
  <2>2. NodeProof(ls, x, w, j, s) = <<Node(ls, w, j, s)>>
    BY <1>1, <1>4, <1>5, <2>1, ProofStep
  <2>. DEFINE q == <<Node(ls, w, j, s)>>
  <2>3. Len(q) = 1 /\ q[1] = Node(ls, w, j, s)
    OBVIOUS
  <2>. HIDE DEF q
  <2>4. Uses(path, 1, q) <=> path[1] = Node(ls, w, j, s)
    BY <2>3 DEF Uses
  <2>5. RootOf(ls, From(w, j), x + 1 - From(w, j)) = Node(ls, w, j, s)
    BY <1>3, <1>4
  <2>6. NodeProof(ls, x, w, j, s) = q
    BY <2>2 DEF q
  <2>. QED
    BY <1>1, <1>2, <2>1, <2>3, <2>4, <2>5, <2>6 DEF Built
<1>. QED
  BY <1>6, <1>7

LEMMA BuildLeft ==
    ASSUME NEW ls \in Seq(Data), NEW x, NEW hash, NEW path, NEW w, NEW j, NEW s,
           NEW f, NEW h, NEW u, Built(ls, x, hash, path, w, j, s, f, h, u),
           j % 2 = 0, j < s
    PROVE  Built(ls, x, hash, path, 2 * w, j \div 2, s \div 2,
                 f, NodeHash(h, path[u + 1]), u + 1)
<1>. DEFINE q == NodeProof(ls, x, w, j, s)
            up == NodeProof(ls, x, 2 * w, j \div 2, s \div 2)
            node == Node(ls, w, j, s)
            above == Node(ls, 2 * w, j \div 2, s \div 2)
            g == x + 1 \in Pow => hash = RootOf(ls, 0, x + 1)
            old == RootOf(ls, From(w, j), x + 1 - From(w, j))
<1>1. /\ Here(Len(ls), x, w, j, s) /\ u \in Nat /\ u = Len(q)
      /\ h = node <=> g /\ Uses(path, u, q)
      /\ h = node => f = old
  BY DEF Built
<1>2. Here(Len(ls), x, 2 * w, j \div 2, s \div 2)
  BY <1>1, HereUp
<1>3. PICK e : /\ above = NodeHash(node, e) /\ up = Append(q, e)
               /\ x + 1 - From(2 * w, j \div 2) < Size(Len(ls), 2 * w, j \div 2, s \div 2)
  BY <1>1, ParentLeft
<1>4. IsPath(q)
  BY <1>1, NodePathsArePaths
<1>5. RootOf(ls, From(2 * w, j \div 2), x + 1 - From(2 * w, j \div 2)) = old
  BY <1>1, Above
<1>. HIDE DEF q, up, node, above, g, old
<1>6. Len(up) = u + 1
  BY <1>1, <1>3, <1>4, AppendFacts
<1>7. NodeHash(h, path[u + 1]) = above <=> g /\ Uses(path, u + 1, up)
  BY <1>1, <1>3, <1>4, UsesNext, HashFacts
<1>8. NodeHash(h, path[u + 1]) = above => f = old
  BY <1>1, <1>3, HashFacts
<1>. QED
  BY <1>1, <1>2, <1>3, <1>5, <1>6, <1>7, <1>8 DEF Built, up, above, g

LEMMA BuildRight ==
    ASSUME NEW ls \in Seq(Data), NEW x, NEW hash, NEW path, NEW w, NEW j, NEW s,
           NEW f, NEW h, NEW u, Built(ls, x, hash, path, w, j, s, f, h, u),
           j % 2 = 1
    PROVE  Built(ls, x, hash, path, 2 * w, j \div 2, s \div 2,
                 NodeHash(path[u + 1], f), NodeHash(path[u + 1], h), u + 1)
<1>. DEFINE q == NodeProof(ls, x, w, j, s)
            up == NodeProof(ls, x, 2 * w, j \div 2, s \div 2)
            node == Node(ls, w, j, s)
            above == Node(ls, 2 * w, j \div 2, s \div 2)
            g == x + 1 \in Pow => hash = RootOf(ls, 0, x + 1)
            old == RootOf(ls, From(w, j), x + 1 - From(w, j))
            oldAbove == RootOf(ls, From(2 * w, j \div 2), x + 1 - From(2 * w, j \div 2))
<1>1. /\ Here(Len(ls), x, w, j, s) /\ u \in Nat /\ u = Len(q)
      /\ x + 1 - From(w, j) < Size(Len(ls), w, j, s)
      /\ h = node <=> g /\ Uses(path, u, q)
      /\ h = node => f = old
  BY DEF Built
<1>2. Here(Len(ls), x, 2 * w, j \div 2, s \div 2)
  BY <1>1, HereUp
<1>3. PICK e : /\ above = NodeHash(e, node) /\ up = Append(q, e)
               /\ x + 1 - From(2 * w, j \div 2) < Size(Len(ls), 2 * w, j \div 2, s \div 2)
               /\ oldAbove = NodeHash(e, old)
  BY <1>1, ParentRight
<1>4. IsPath(q)
  BY <1>1, NodePathsArePaths
<1>. HIDE DEF q, up, node, above, g, old, oldAbove
<1>5. Len(up) = u + 1
  BY <1>1, <1>3, <1>4, AppendFacts
<1>6. NodeHash(path[u + 1], h) = above <=> g /\ Uses(path, u + 1, up)
  BY <1>1, <1>3, <1>4, UsesNext, HashFacts
<1>7. NodeHash(path[u + 1], h) = above => NodeHash(path[u + 1], f) = oldAbove
  BY <1>1, <1>3, HashFacts
<1>. QED
  BY <1>1, <1>2, <1>3, <1>5, <1>6, <1>7 DEF Built, up, above, g, oldAbove

LEMMA BuildNone ==
    ASSUME NEW ls \in Seq(Data), NEW x, NEW hash, NEW path, NEW w, NEW j, NEW s,
           NEW f, NEW h, NEW u, Built(ls, x, hash, path, w, j, s, f, h, u),
           j % 2 = 0, j = s
    PROVE  Built(ls, x, hash, path, 2 * w, j \div 2, s \div 2, f, h, u)
<1>1. Here(Len(ls), x, w, j, s) /\ j \in Nat
  BY HereFacts DEF Built
<1>2. Here(Len(ls), x, 2 * w, j \div 2, s \div 2)
  BY <1>1, HereUp
<1>3. /\ From(2 * w, j \div 2) = From(w, j)
      /\ Size(Len(ls), 2 * w, j \div 2, s \div 2) = Size(Len(ls), w, j, s)
      /\ Node(ls, 2 * w, j \div 2, s \div 2) = Node(ls, w, j, s)
      /\ NodeProof(ls, x, 2 * w, j \div 2, s \div 2) = NodeProof(ls, x, w, j, s)
  BY <1>1, ParentNone
<1>4. ~ (j < s)
  BY <1>1
<1>. QED
  BY <1>2, <1>3, <1>4 DEF Built

LEMMA ConsistencyProofFacts ==
    ASSUME NEW ls \in Seq(Data), NEW m \in 1 .. Len(ls)
    PROVE  /\ ConsistencyProof(ls, m) = ProofOf(ls, 0, Len(ls), m)
           /\ ConsistencyProof(ls, m) = <<>> <=> m = Len(ls)
<1>1. ConsistencyProof(ls, m) = ProofOf(ls, 0, Len(ls), m)
  <2>1. (0 = 0) = TRUE
    OBVIOUS
  <2>. QED
    BY <2>1, Zenon DEF ConsistencyProof, ProofOf
<1>2. ASSUME m # Len(ls) PROVE ProofOf(ls, 0, Len(ls), m) # <<>>
  <2>. DEFINE n == Len(ls)
              k == Split(n)
  <2>1. n \in Nat /\ n >= 2 /\ m \in 1 .. n
    BY <1>2
  <2>. HIDE DEF n
  <2>2. k \in 1 .. n - 1
    BY <2>1, SplitFacts
  <2>3. /\ m <= k => ProofOf(ls, 0, n, m) = Append(ProofOf(ls, 0, k, m), RootOf(ls, 0 + k, n - k))
        /\ ~ (m <= k) =>
              ProofOf(ls, 0, n, m) = Append(ProofOf(ls, 0 + k, n - k, m - k), RootOf(ls, 0, k))
    BY <1>2, <2>1, ProofStep DEF n
  <2>. HIDE DEF k
  <2>4. \A q, e : IsPath(q) => Append(q, e) # <<>>
    <3>1. ASSUME NEW q, NEW e, IsPath(q), Append(q, e) = <<>> PROVE FALSE
      <4>1. Len(Append(q, e)) = Len(q) + 1 /\ Len(q) \in Nat
        BY <3>1, AppendFacts DEF IsPath
      <4>2. Len(<<>>) = 0
        OBVIOUS
      <4>. QED
        BY <3>1, <4>1, <4>2
    <3>. QED
      BY <3>1
  <2>5. CASE m <= k
    <3>1. IsPath(ProofOf(ls, 0, k, m))
      BY <2>1, <2>2, <2>5, ProofIsPath
    <3>. QED
      BY <2>3, <2>4, <2>5, <3>1, Zenon DEF n
  <2>6. CASE ~ (m <= k)
    <3>1. IsPath(ProofOf(ls, 0 + k, n - k, m - k))
      BY <2>1, <2>2, <2>6, ProofIsPath
    <3>. QED
      BY <2>3, <2>4, <2>6, <3>1, Zenon DEF n
  <2>. QED
    BY <2>5, <2>6
<1>3. ASSUME m = Len(ls) PROVE ProofOf(ls, 0, Len(ls), m) = <<>>
  BY <1>3, ProofStep
<1>. QED
  BY <1>1, <1>2, <1>3

\* Both roots are right for the log's own prefix with the prover's path only.
LEMMA BuildEnd ==
    ASSUME NEW ls \in Seq(Data), NEW x, NEW hash, NEW path, NEW w, NEW j, NEW s,
           NEW f, NEW h, NEW u, Built(ls, x, hash, path, w, j, s, f, h, u),
           IsPath(path), s = 0
    PROVE  (f = hash /\ h = MerkleRoot(ls) /\ u = Len(path)) <=>
             (hash = RootOf(ls, 0, x + 1) /\ path = ConsistencyProof(ls, x + 1))
<1>. DEFINE q == NodeProof(ls, x, w, j, s)
            g == x + 1 \in Pow => hash = RootOf(ls, 0, x + 1)
<1>1. Here(Len(ls), x, w, j, s) /\ x \in Nat /\ x + 1 \in 1 .. Len(ls)
  BY HereFacts DEF Built
<1>2. /\ From(w, j) = 0 /\ Node(ls, w, j, s) = MerkleRoot(ls)
      /\ q = ProofOf(ls, 0, Len(ls), x + 1)
  BY <1>1, TopNode
<1>3. q = ConsistencyProof(ls, x + 1)
  BY <1>1, <1>2, ConsistencyProofFacts
<1>4. /\ u = Len(q)
      /\ h = MerkleRoot(ls) <=> g /\ Uses(path, u, q)
      /\ h = MerkleRoot(ls) => f = RootOf(ls, 0, x + 1)
  <2>1. x + 1 - 0 = x + 1
    BY <1>1
  <2>. QED
    BY <1>2, <2>1 DEF Built
<1>5. IsPath(q)
  BY <1>1, NodePathsArePaths
<1>. HIDE DEF q
<1>6. Uses(path, Len(path), q) <=> path = q
  BY <1>5, UsesAll DEF Uses
<1>. QED
  BY <1>3, <1>4, <1>6

LEMMA BuildShort ==
    ASSUME NEW ls \in Seq(Data), NEW x, NEW hash, NEW path, NEW w, NEW j, NEW s,
           NEW f, NEW h, NEW u, Built(ls, x, hash, path, w, j, s, f, h, u),
           s > 0, u = Len(path)
    PROVE  path # ConsistencyProof(ls, x + 1)
<1>1. /\ Here(Len(ls), x, w, j, s) /\ x + 1 \in 1 .. Len(ls)
      /\ u \in Nat /\ u = Len(NodeProof(ls, x, w, j, s))
  <2>1. /\ Here(Len(ls), x, w, j, s)
        /\ u \in Nat /\ u = Len(NodeProof(ls, x, w, j, s))
    BY DEF Built
  <2>2. Len(ls) \in Nat /\ x \in 0 .. Len(ls) - 1
    BY <2>1, HereFacts
  <2>. QED
    BY <2>1, <2>2
<1>2. Len(NodeProof(ls, x, w, j, s)) < Len(ProofOf(ls, 0, Len(ls), x + 1))
  BY <1>1, Shorter DEF Built
<1>3. ConsistencyProof(ls, x + 1) = ProofOf(ls, 0, Len(ls), x + 1)
  BY <1>1, ConsistencyProofFacts
<1>4. Len(path) # Len(ConsistencyProof(ls, x + 1))
  <2>1. u < Len(ProofOf(ls, 0, Len(ls), x + 1))
    BY <1>1, <1>2, Zenon
  <2>. DEFINE l == Len(ProofOf(ls, 0, Len(ls), x + 1))
  <2>. HIDE DEF l
  <2>2. u # l
    BY <1>1, <2>1 DEF l
  <2>. QED
    BY <1>3, <2>2, Zenon DEF l
<1>. QED
  BY <1>4, Zenon

-----------------------------------------------------------------------------
(* The invariant: what a verifier has built, wherever it is, and what it   *)
(* said when it is done.                                                   *)

PresentedOK ==
    /\ leaves \in Seq(Data) /\ Len(leaves) <= MaxLeaves
    /\ pc \in {"idle", "presented", "climb", "skip", "ones", "build", "accepted", "rejected"}
    /\ pc \in {"idle", "presented", "ones"} => p = 0
    /\ pc # "idle" => /\ Len(leaves) > 0
                      /\ claim.proof \in {"inclusion", "consistency"}
                      /\ claim.at \in 0 .. MaxLeaves
                      /\ IsPath(claim.path)

InclusionOK ==
    pc \in {"climb", "skip"} =>
        /\ claim.proof = "inclusion" /\ claim.at \in 0 .. Len(leaves) - 1
        /\ p \in 0 .. Len(claim.path)
        /\ pc = "climb" => \E w : Climbed(leaves, claim.at, claim.hash, claim.path,
                                          w, fn, sn, sr, p)
        \* The hash was used before the levels without a sibling are skipped.
        /\ pc = "skip" => /\ fn % 2 = 1 \/ fn = sn
                          /\ \E w, h : /\ sr = NodeHash(claim.path[p], h)
                                       /\ Climbed(leaves, claim.at, claim.hash, claim.path,
                                                  w, fn, sn, h, p - 1)

ConsistencyOK ==
    pc \in {"ones", "build"} =>
        /\ claim.proof = "consistency" /\ claim.at \in 1 .. Len(leaves) - 1
        /\ p \in 0 .. Len(claim.path)
        /\ pc = "ones" => /\ claim.path # <<>>
                          /\ \E w : EndsOldLog(leaves, claim.at - 1, w, fn, sn)
        /\ pc = "build" => \E w : Built(leaves, claim.at - 1, claim.hash, claim.path,
                                        w, fn, sn, fr, sr, p)

VerdictOK ==
    /\ pc = "accepted" => Genuine
    /\ pc = "rejected" => ~ Genuine

VerifierOK == PresentedOK /\ InclusionOK /\ ConsistencyOK /\ VerdictOK

LEMMA InitOK == Init => VerifierOK
<1>. SUFFICES ASSUME Init PROVE VerifierOK
  OBVIOUS
<1>1. pc = "idle" /\ p = 0 /\ leaves = <<>>
  BY DEF Init
<1>2. <<>> \in Seq(Data) /\ Len(<<>>) = 0
  OBVIOUS
<1>3. PresentedOK
  BY <1>1, <1>2, MaxLeavesIsNat DEF PresentedOK
<1>. QED
  BY <1>1, <1>3 DEF VerifierOK, InclusionOK, ConsistencyOK, VerdictOK

\* What is presented.
LEMMA PresentOK ==
    ASSUME VerifierOK, pc = "idle", Len(leaves) > 0,
           NEW proof \in {"inclusion", "consistency"}, NEW at \in 0 .. MaxLeaves,
           NEW hash, NEW path, IsPath(path), Present(proof, at, hash, path)
    PROVE  VerifierOK'
<1>1. /\ leaves' = leaves /\ p' = p /\ pc' = "presented"
      /\ claim' = [proof |-> proof, at |-> at, hash |-> hash, path |-> path]
  BY DEF Present
<1>2. claim'.proof = proof /\ claim'.at = at /\ claim'.path = path
  BY <1>1
<1>3. leaves \in Seq(Data) /\ Len(leaves) <= MaxLeaves /\ p = 0
  BY DEF VerifierOK, PresentedOK
<1>4. PresentedOK'
  BY <1>1, <1>2, <1>3 DEF PresentedOK
<1>. QED
  BY <1>1, <1>4 DEF VerifierOK, InclusionOK, ConsistencyOK, VerdictOK

LEMMA PresentInclusionOK ==
    ASSUME VerifierOK, NEW index \in 0 .. Len(leaves) - 1, NEW claimed \in 0 .. MaxLeaves,
           NEW d \in Data, PresentInclusion(index, claimed, d)
    PROVE  VerifierOK'
<1>1. leaves \in Seq(Data) /\ Len(leaves) \in Nat /\ Len(leaves) > 0 /\ Len(leaves) <= MaxLeaves
  BY DEF VerifierOK, PresentedOK
<1>2. Len(leaves) \in 1 .. MaxLeaves /\ leaves \in [1 .. Len(leaves) -> Data]
  BY <1>1, MaxLeavesIsNat
<1>3. PICK path \in {InclusionPath(leaves, index)} \cup
                    ForgedPaths(leaves, InclusionPath(leaves, index)) :
        Present("inclusion", claimed, LeafHash(d), path)
  BY DEF PresentInclusion
<1>4. IsPath(InclusionPath(leaves, index))
  BY <1>1, PathIsPath DEF InclusionPath, PathOf
<1>5. IsPath(path)
  BY <1>2, <1>4, ForgedArePaths
<1>6. pc = "idle"
  BY DEF PresentInclusion
<1>. QED
  BY <1>1, <1>3, <1>5, <1>6, PresentOK

LEMMA PresentConsistencyOK ==
    ASSUME VerifierOK, NEW old \in 1 .. Len(leaves), NEW claimed \in 0 .. MaxLeaves,
           PresentConsistency(old, claimed)
    PROVE  VerifierOK'
<1>1. leaves \in Seq(Data) /\ Len(leaves) \in Nat /\ Len(leaves) > 0 /\ Len(leaves) <= MaxLeaves
  BY DEF VerifierOK, PresentedOK
<1>2. Len(leaves) \in 1 .. MaxLeaves /\ leaves \in [1 .. Len(leaves) -> Data]
  BY <1>1, MaxLeavesIsNat
<1>3. PICK path \in {ConsistencyProof(leaves, old)} \cup
                    ForgedPaths(leaves, ConsistencyProof(leaves, old)),
           root \in {Root[old][leaves][0]} \cup ForgedRoots(leaves) :
        Present("consistency", claimed, root, path)
  BY DEF PresentConsistency
<1>4. IsPath(ConsistencyProof(leaves, old))
  BY <1>1, ConsistencyProofFacts, ProofIsPath
<1>5. IsPath(path)
  BY <1>2, <1>4, ForgedArePaths
<1>6. pc = "idle"
  BY DEF PresentConsistency
<1>. QED
  BY <1>1, <1>3, <1>5, <1>6, PresentOK

LEMMA AppendLeafOK ==
    ASSUME VerifierOK, NEW d \in Data, AppendLeaf(d)
    PROVE  VerifierOK'
<1>1. leaves' = Append(leaves, d) /\ pc' = "idle" /\ p' = p /\ pc = "idle" /\ Len(leaves) < MaxLeaves
  BY DEF AppendLeaf
<1>2. leaves' \in Seq(Data) /\ Len(leaves') <= MaxLeaves /\ p = 0
  BY <1>1, MaxLeavesIsNat DEF VerifierOK, PresentedOK
<1>3. PresentedOK'
  BY <1>1, <1>2 DEF PresentedOK
<1>. QED
  BY <1>1, <1>3 DEF VerifierOK, InclusionOK, ConsistencyOK, VerdictOK

LEMMA AnswerOK ==
    ASSUME VerifierOK, Answer
    PROVE  VerifierOK'
<1>1. leaves' = leaves /\ pc' = "idle" /\ p' = 0
  BY DEF Answer
<1>2. PresentedOK'
  BY <1>1 DEF VerifierOK, PresentedOK
<1>. QED
  BY <1>1, <1>2 DEF VerifierOK, InclusionOK, ConsistencyOK, VerdictOK

\* A verdict is right when it says whether the claim is genuine.
LEMMA DecideOK ==
    ASSUME VerifierOK, pc # "idle", NEW accepted, accepted <=> Genuine, Decide(accepted)
    PROVE  VerifierOK'
<1>1. /\ leaves' = leaves /\ claim' = claim
      /\ accepted => pc' = "accepted"
      /\ ~ accepted => pc' = "rejected"
  BY DEF Decide
<1>2. Genuine' <=> Genuine
  BY <1>1 DEF Genuine
<1>3. pc' \in {"accepted", "rejected"}
  BY <1>1
<1>4. PresentedOK'
  BY <1>1, <1>3 DEF VerifierOK, PresentedOK
<1>5. VerdictOK'
  BY <1>1, <1>2 DEF VerdictOK
<1>. QED
  BY <1>3, <1>4, <1>5 DEF VerifierOK, InclusionOK, ConsistencyOK

LEMMA StartInclusionOK ==
    ASSUME VerifierOK, StartInclusion
    PROVE  VerifierOK'
<1>1. /\ pc = "presented" /\ claim.proof = "inclusion" /\ p = 0
      /\ leaves \in Seq(Data) /\ Len(leaves) \in Nat /\ claim.at \in Nat /\ IsPath(claim.path)
  BY DEF StartInclusion, VerifierOK, PresentedOK
<1>2. CASE claim.at >= Len(leaves)
  <2>1. Decide(FALSE)
    BY <1>2 DEF StartInclusion
  <2>2. ~ Genuine
    BY <1>1, <1>2 DEF Genuine
  <2>. QED
    BY <1>1, <2>1, <2>2, DecideOK
<1>3. CASE ~ (claim.at >= Len(leaves))
  <2>1. /\ pc' = "climb" /\ fn' = claim.at /\ sn' = Len(leaves) - 1 /\ sr' = claim.hash
        /\ leaves' = leaves /\ claim' = claim /\ p' = 0
    BY <1>1, <1>3 DEF StartInclusion
  <2>2. claim.at \in 0 .. Len(leaves) - 1
    BY <1>1, <1>3
  <2>3. Climbed(leaves, claim.at, claim.hash, claim.path, 1, claim.at, Len(leaves) - 1,
                claim.hash, 0)
    BY <1>1, <2>2, ClimbStart
  <2>4. Climbed(leaves, claim.at, claim.hash, claim.path, 1, fn', sn', sr', p')
    BY <2>1, <2>3
  <2>5. 0 \in 0 .. Len(claim.path)
    BY <1>1 DEF IsPath
  <2>6. InclusionOK'
    BY <1>1, <2>1, <2>2, <2>4, <2>5 DEF InclusionOK
  <2>7. PresentedOK'
    BY <1>1, <2>1 DEF VerifierOK, PresentedOK
  <2>. QED
    BY <2>1, <2>6, <2>7 DEF VerifierOK, ConsistencyOK, VerdictOK
<1>. QED
  BY <1>2, <1>3

LEMMA ClimbOK ==
    ASSUME VerifierOK, Climb
    PROVE  VerifierOK'
<1>1. /\ pc = "climb" /\ claim.proof = "inclusion" /\ claim.at \in 0 .. Len(leaves) - 1
      /\ p \in Nat /\ Len(claim.path) \in Nat /\ p < Len(claim.path)
      /\ leaves \in Seq(Data) /\ Len(leaves) \in Nat
  BY DEF Climb, VerifierOK, PresentedOK, InclusionOK, IsPath
<1>2. PICK w : Climbed(leaves, claim.at, claim.hash, claim.path, w, fn, sn, sr, p)
  BY <1>1 DEF VerifierOK, InclusionOK
<1>3. leaves' = leaves /\ claim' = claim /\ p' = p + 1 /\ p + 1 \in 0 .. Len(claim.path)
  BY <1>1 DEF Climb
<1>4. fn \in Nat /\ sn \in Nat /\ fn <= sn /\ (fn % 2 = 0 \/ fn % 2 = 1)
  BY <1>2, HereFacts, Halves DEF Climbed
<1>5. CASE fn % 2 = 1 \/ fn = sn
  <2>1. /\ sr' = NodeHash(claim.path[p + 1], sr) /\ pc' = "skip" /\ fn' = fn /\ sn' = sn
    BY <1>5 DEF Climb, NextHash, nodeVars
  <2>2. (p + 1) - 1 = p
    BY <1>1
  <2>3. /\ sr' = NodeHash(claim'.path[p'], sr)
        /\ Climbed(leaves', claim'.at, claim'.hash, claim'.path, w, fn', sn', sr, p' - 1)
    BY <1>2, <1>3, <2>1, <2>2
  <2>4. InclusionOK'
    BY <1>1, <1>3, <1>5, <2>1, <2>3 DEF InclusionOK
  <2>5. PresentedOK'
    BY <1>1, <1>3, <2>1 DEF VerifierOK, PresentedOK
  <2>. QED
    BY <2>1, <2>4, <2>5 DEF VerifierOK, ConsistencyOK, VerdictOK
<1>6. CASE ~ (fn % 2 = 1 \/ fn = sn)
  <2>1. /\ sr' = NodeHash(sr, claim.path[p + 1]) /\ pc' = "climb"
        /\ fn' = fn \div 2 /\ sn' = sn \div 2
    BY <1>1, <1>6 DEF Climb, NextHash, Up
  <2>2. fn % 2 = 0 /\ fn < sn
    BY <1>4, <1>6
  <2>3. Climbed(leaves, claim.at, claim.hash, claim.path, 2 * w, fn \div 2, sn \div 2,
                NodeHash(sr, claim.path[p + 1]), p + 1)
    BY <1>1, <1>2, <2>2, ClimbLeft
  <2>4. Climbed(leaves', claim'.at, claim'.hash, claim'.path, 2 * w, fn', sn', sr', p')
    BY <1>3, <2>1, <2>3
  <2>5. InclusionOK'
    BY <1>1, <1>3, <2>1, <2>4 DEF InclusionOK
  <2>6. PresentedOK'
    BY <1>1, <1>3, <2>1 DEF VerifierOK, PresentedOK
  <2>. QED
    BY <2>1, <2>5, <2>6 DEF VerifierOK, ConsistencyOK, VerdictOK
<1>. QED
  BY <1>5, <1>6

LEMMA SkipOK ==
    ASSUME VerifierOK, Skip
    PROVE  VerifierOK'
<1>1. /\ pc = "skip" /\ claim.proof = "inclusion" /\ claim.at \in 0 .. Len(leaves) - 1
      /\ p \in 0 .. Len(claim.path) /\ Len(claim.path) \in Nat
      /\ fn % 2 = 1 \/ fn = sn
      /\ leaves \in Seq(Data) /\ Len(leaves) \in Nat
  BY DEF Skip, VerifierOK, PresentedOK, InclusionOK, IsPath
<1>2. PICK w, h : /\ sr = NodeHash(claim.path[p], h)
                  /\ Climbed(leaves, claim.at, claim.hash, claim.path, w, fn, sn, h, p - 1)
  BY <1>1 DEF VerifierOK, InclusionOK
<1>3. /\ leaves' = leaves /\ claim' = claim /\ p' = p /\ sr' = sr
      /\ fn' = fn \div 2 /\ sn' = sn \div 2
      /\ fn % 2 = 0 /\ fn # 0 => pc' = "skip"
      /\ ~ (fn % 2 = 0 /\ fn # 0) => pc' = "climb"
  BY DEF Skip, Up
<1>4. fn \in Nat /\ sn \in Nat /\ (fn % 2 = 0 \/ fn % 2 = 1) /\ p \in Nat
  <2>1. fn \in Nat /\ sn \in Nat
    BY <1>2, HereFacts DEF Climbed
  <2>. QED
    BY <1>1, <2>1
<1>5. PresentedOK'
  BY <1>1, <1>3 DEF VerifierOK, PresentedOK
<1>6. CASE fn % 2 = 0 /\ fn # 0
  <2>1. fn = sn
    BY <1>1, <1>6
  <2>2. Climbed(leaves, claim.at, claim.hash, claim.path, 2 * w, fn \div 2, sn \div 2, h, p - 1)
    BY <1>1, <1>2, <1>6, <2>1, ClimbNone
  <2>3. /\ sr' = NodeHash(claim'.path[p'], h)
        /\ Climbed(leaves', claim'.at, claim'.hash, claim'.path, 2 * w, fn', sn', h, p' - 1)
    BY <1>2, <1>3, <2>2
  <2>4. InclusionOK'
    BY <1>1, <1>3, <1>6, <2>1, <2>3 DEF InclusionOK
  <2>. QED
    BY <1>3, <1>5, <1>6, <2>4 DEF VerifierOK, ConsistencyOK, VerdictOK
<1>7. CASE ~ (fn % 2 = 0 /\ fn # 0)
  <2>1. (p - 1) + 1 = p
    BY <1>4
  <2>2. CASE fn % 2 = 1
    <3>1. Climbed(leaves, claim.at, claim.hash, claim.path, 2 * w, fn \div 2, sn \div 2,
                  NodeHash(claim.path[(p - 1) + 1], h), (p - 1) + 1)
      BY <1>1, <1>2, <2>2, ClimbRight
    <3>2. Climbed(leaves', claim'.at, claim'.hash, claim'.path, 2 * w, fn', sn', sr', p')
      BY <1>2, <1>3, <2>1, <3>1
    <3>. QED
      BY <1>1, <1>3, <1>5, <1>7, <3>2 DEF VerifierOK, InclusionOK, ConsistencyOK, VerdictOK
  <2>3. CASE fn = 0
    <3>1. fn % 2 = 0 /\ sn = 0 /\ fn \div 2 = 0 /\ sn \div 2 = 0
      BY <1>1, <2>3
    <3>2. Climbed(leaves, claim.at, claim.hash, claim.path, w, fn, sn,
                  NodeHash(claim.path[p], h), (p - 1) + 1)
      BY <1>1, <1>2, <3>1, ClimbOver
    <3>3. Climbed(leaves', claim'.at, claim'.hash, claim'.path, w, fn', sn', sr', p')
      BY <1>2, <1>3, <2>1, <2>3, <3>1, <3>2
    <3>. QED
      BY <1>1, <1>3, <1>5, <1>7, <3>3 DEF VerifierOK, InclusionOK, ConsistencyOK, VerdictOK
  <2>. QED
    BY <1>4, <1>7, <2>2, <2>3
<1>. QED
  BY <1>6, <1>7

LEMMA FinishInclusionOK ==
    ASSUME VerifierOK, FinishInclusion
    PROVE  VerifierOK'
<1>1. /\ pc = "climb" /\ claim.proof = "inclusion" /\ claim.at \in 0 .. Len(leaves) - 1
      /\ p = Len(claim.path) /\ IsPath(claim.path)
      /\ leaves \in Seq(Data) /\ Len(leaves) \in Nat
      /\ Decide(sr = MerkleRoot(leaves) /\ sn = 0)
  BY DEF FinishInclusion, VerifierOK, PresentedOK, InclusionOK
<1>2. PICK w : Climbed(leaves, claim.at, claim.hash, claim.path, w, fn, sn, sr, p)
  BY <1>1 DEF VerifierOK, InclusionOK
<1>3. (sr = MerkleRoot(leaves) /\ sn = 0) <=>
        (claim.hash = LeafHash(leaves[claim.at + 1]) /\ claim.path = InclusionPath(leaves, claim.at))
  BY <1>1, <1>2, ClimbEnd
<1>4. claim.at < Len(leaves)
  BY <1>1
<1>5. (sr = MerkleRoot(leaves) /\ sn = 0) <=> Genuine
  BY <1>1, <1>3, <1>4 DEF Genuine
<1>6. pc # "idle"
  BY <1>1
<1>. DEFINE accepted == sr = MerkleRoot(leaves) /\ sn = 0
<1>7. Decide(accepted) /\ (accepted <=> Genuine)
  BY <1>1, <1>5
<1>. HIDE DEF accepted
<1>. QED
  BY <1>6, <1>7, DecideOK

LEMMA PrefixRoot ==
    ASSUME NEW ls \in Seq(Data), NEW m \in 1 .. Len(ls)
    PROVE  /\ MerkleRoot(SubSeq(ls, 1, m)) = RootOf(ls, 0, m)
           /\ MerkleRoot(ls) = RootOf(ls, 0, Len(ls))
<1>1. Len(SubSeq(ls, 1, m)) = m /\ m \in Nat \ {0} /\ 0 + m <= m /\ m \in 0 .. Len(ls)
  OBVIOUS
<1>2. RootOf(SubSeq(ls, 1, m), 0, m) = RootOf(ls, 0, m)
  BY <1>1, RootOfPrefix
<1>. QED
  BY <1>1, <1>2 DEF MerkleRoot, RootOf

LEMMA StartConsistencyOK ==
    ASSUME VerifierOK, StartConsistency
    PROVE  VerifierOK'
<1>1. /\ pc = "presented" /\ claim.proof = "consistency" /\ p = 0
      /\ leaves \in Seq(Data) /\ Len(leaves) \in Nat /\ Len(leaves) > 0
      /\ claim.at \in Nat /\ IsPath(claim.path)
  BY DEF StartConsistency, VerifierOK, PresentedOK
<1>2. CASE claim.at = 0 \/ claim.at >= Len(leaves) \/ claim.path = <<>>
  <2>. DEFINE accepted == /\ claim.at = Len(leaves)
                          /\ claim.hash = MerkleRoot(leaves) /\ claim.path = <<>>
  <2>1. Decide(accepted)
    BY <1>2 DEF StartConsistency
  <2>2. Genuine <=> /\ claim.at \in 1 .. Len(leaves)
                    /\ claim.hash = MerkleRoot(SubSeq(leaves, 1, claim.at))
                    /\ claim.path = ConsistencyProof(leaves, claim.at)
    BY <1>1 DEF Genuine
  <2>3. ASSUME claim.at \in 1 .. Len(leaves)
        PROVE  /\ MerkleRoot(SubSeq(leaves, 1, claim.at)) = RootOf(leaves, 0, claim.at)
               /\ MerkleRoot(leaves) = RootOf(leaves, 0, Len(leaves))
               /\ ConsistencyProof(leaves, claim.at) = <<>> <=> claim.at = Len(leaves)
    BY <1>1, <2>3, PrefixRoot, ConsistencyProofFacts
  <2>4. accepted <=> Genuine
    <3>1. CASE claim.at = Len(leaves)
      <4>1. claim.at \in 1 .. Len(leaves)
        BY <1>1, <3>1
      <4>. QED
        BY <2>2, <2>3, <3>1, <4>1
    <3>2. CASE claim.at # Len(leaves)
      <4>1. ~ accepted
        BY <3>2
      <4>2. ~ Genuine
        <5>1. ASSUME claim.at \in 1 .. Len(leaves) PROVE claim.path = <<>>
          BY <1>1, <1>2, <3>2, <5>1
        <5>. QED
          BY <2>2, <2>3, <3>2, <5>1
      <4>. QED
        BY <4>1, <4>2
    <3>. QED
      BY <3>1, <3>2
  <2>5. pc # "idle"
    BY <1>1
  <2>. HIDE DEF accepted
  <2>. QED
    BY <2>1, <2>4, <2>5, DecideOK
<1>3. CASE ~ (claim.at = 0 \/ claim.at >= Len(leaves) \/ claim.path = <<>>)
  <2>1. /\ pc' = "ones" /\ fn' = claim.at - 1 /\ sn' = Len(leaves) - 1
        /\ leaves' = leaves /\ claim' = claim /\ p' = 0
    BY <1>1, <1>3 DEF StartConsistency
  <2>2. claim.at \in 1 .. Len(leaves) - 1 /\ claim.path # <<>> /\ 0 \in 0 .. Len(claim.path)
    BY <1>1, <1>3 DEF IsPath
  <2>3. claim.at - 1 \in Nat /\ (claim.at - 1) + 1 < Len(leaves)
    BY <1>1, <2>2
  <2>4. EndsOldLog(leaves, claim.at - 1, 1, claim.at - 1, Len(leaves) - 1)
    BY <1>1, <2>3, OnesStart
  <2>5. EndsOldLog(leaves', claim'.at - 1, 1, fn', sn')
    BY <2>1, <2>4
  <2>6. ConsistencyOK'
    BY <1>1, <2>1, <2>2, <2>5 DEF ConsistencyOK
  <2>7. PresentedOK'
    BY <1>1, <2>1 DEF VerifierOK, PresentedOK
  <2>. QED
    BY <2>1, <2>6, <2>7 DEF VerifierOK, InclusionOK, VerdictOK
<1>. QED
  BY <1>2, <1>3

\* What holds wherever verify_consistency is in its loops.
LEMMA ConsistencyFacts ==
    ASSUME VerifierOK, pc \in {"ones", "build"}
    PROVE  /\ claim.proof = "consistency" /\ claim.at \in 1 .. Len(leaves) - 1
           /\ p \in 0 .. Len(claim.path) /\ p \in Nat /\ IsPath(claim.path)
           /\ leaves \in Seq(Data) /\ Len(leaves) \in Nat
           /\ (claim.at - 1) + 1 = claim.at
           /\ pc = "ones" => /\ p = 0 /\ claim.path # <<>>
                             /\ \E w : EndsOldLog(leaves, claim.at - 1, w, fn, sn)
           /\ pc = "build" => \E w : Built(leaves, claim.at - 1, claim.hash, claim.path,
                                           w, fn, sn, fr, sr, p)
<1>1. /\ leaves \in Seq(Data) /\ Len(leaves) \in Nat /\ IsPath(claim.path)
      /\ pc = "ones" => p = 0
  BY DEF VerifierOK, PresentedOK
<1>2. /\ claim.proof = "consistency" /\ claim.at \in 1 .. Len(leaves) - 1
      /\ p \in 0 .. Len(claim.path)
      /\ pc = "ones" => /\ claim.path # <<>>
                        /\ \E w : EndsOldLog(leaves, claim.at - 1, w, fn, sn)
      /\ pc = "build" => \E w : Built(leaves, claim.at - 1, claim.hash, claim.path,
                                      w, fn, sn, fr, sr, p)
  BY DEF VerifierOK, ConsistencyOK
<1>3. p \in Nat /\ (claim.at - 1) + 1 = claim.at
  BY <1>1, <1>2 DEF IsPath
<1>. QED
  BY <1>1, <1>2, <1>3

LEMMA SkipOnesOK ==
    ASSUME VerifierOK, SkipOnes
    PROVE  VerifierOK'
<1>1. /\ pc = "ones" /\ fn % 2 = 1 /\ pc' = pc /\ p' = p /\ leaves' = leaves /\ claim' = claim
      /\ fn' = fn \div 2 /\ sn' = sn \div 2
  BY DEF SkipOnes, Up
<1>2. PICK w : EndsOldLog(leaves, claim.at - 1, w, fn, sn)
  BY <1>1, ConsistencyFacts
<1>3. EndsOldLog(leaves', claim'.at - 1, 2 * w, fn', sn')
  BY <1>1, <1>2, OnesUp
<1>4. ConsistencyOK'
  BY <1>1, <1>3, ConsistencyFacts DEF ConsistencyOK
<1>5. PresentedOK'
  BY <1>1 DEF VerifierOK, PresentedOK
<1>. QED
  BY <1>1, <1>4, <1>5 DEF VerifierOK, InclusionOK, VerdictOK

LEMMA StartRootsOK ==
    ASSUME VerifierOK, StartRoots
    PROVE  VerifierOK'
<1>1. /\ pc = "ones" /\ fn % 2 = 0 /\ pc' = "build" /\ leaves' = leaves /\ claim' = claim
      /\ fn' = fn /\ sn' = sn
      /\ fn = 0 => p' = 0 /\ fr' = claim.hash /\ sr' = claim.hash
      /\ fn # 0 => p' = 1 /\ fr' = claim.path[p + 1] /\ sr' = claim.path[p + 1]
  BY DEF StartRoots, NextHash
<1>2. PICK w : EndsOldLog(leaves, claim.at - 1, w, fn, sn)
  BY <1>1, ConsistencyFacts
<1>3. p = 0 /\ claim.path # <<>> /\ IsPath(claim.path) /\ leaves \in Seq(Data)
  BY <1>1, ConsistencyFacts
<1>4. 0 \in 0 .. Len(claim.path) /\ 1 \in 0 .. Len(claim.path)
  <2>1. Len(claim.path) \in Nat /\ claim.path = [i \in 1 .. Len(claim.path) |-> claim.path[i]]
    BY <1>3 DEF IsPath
  <2>2. Len(claim.path) # 0
    <3>1. ASSUME Len(claim.path) = 0 PROVE claim.path = <<>>
      BY <2>1, <3>1
    <3>. QED
      BY <1>3, <3>1
  <2>. QED
    BY <2>1, <2>2
<1>5. Built(leaves, claim.at - 1, claim.hash, claim.path, w, fn, sn, fr', sr', p')
  <2>1. /\ fn = 0 => Built(leaves, claim.at - 1, claim.hash, claim.path, w, fn, sn,
                           claim.hash, claim.hash, 0)
        /\ fn # 0 => Built(leaves, claim.at - 1, claim.hash, claim.path, w, fn, sn,
                           claim.path[1], claim.path[1], 1)
    BY <1>1, <1>2, <1>3, BuildStart
  <2>2. fn # 0 => fr' = claim.path[1] /\ sr' = claim.path[1]
    BY <1>1, <1>3
  <2>. QED
    BY <1>1, <2>1, <2>2
<1>6. Built(leaves', claim'.at - 1, claim'.hash, claim'.path, w, fn', sn', fr', sr', p')
  BY <1>1, <1>5
<1>7. ConsistencyOK'
  BY <1>1, <1>4, <1>6, ConsistencyFacts DEF ConsistencyOK
<1>8. PresentedOK'
  BY <1>1 DEF VerifierOK, PresentedOK
<1>. QED
  BY <1>1, <1>7, <1>8 DEF VerifierOK, InclusionOK, VerdictOK

\* An iteration of the loops over the roots.
LEMMA BuildOK ==
    ASSUME VerifierOK, pc = "build", leaves' = leaves, claim' = claim, pc' = pc,
           p' \in 0 .. Len(claim.path),
           NEW w, Built(leaves, claim.at - 1, claim.hash, claim.path, w, fn', sn', fr', sr', p')
    PROVE  VerifierOK'
<1>1. Built(leaves', claim'.at - 1, claim'.hash, claim'.path, w, fn', sn', fr', sr', p')
  OBVIOUS
<1>2. ConsistencyOK'
  BY <1>1, ConsistencyFacts DEF ConsistencyOK
<1>3. PresentedOK'
  BY DEF VerifierOK, PresentedOK
<1>. QED
  BY <1>2, <1>3 DEF VerifierOK, InclusionOK, VerdictOK

LEMMA BuildBothOK ==
    ASSUME VerifierOK, BuildBoth
    PROVE  VerifierOK'
<1>1. /\ pc = "build" /\ fn % 2 = 1 /\ p < Len(claim.path)
      /\ leaves' = leaves /\ claim' = claim /\ pc' = pc
      /\ fr' = NodeHash(claim.path[p + 1], fr) /\ sr' = NodeHash(claim.path[p + 1], sr)
      /\ p' = p + 1 /\ fn' = fn \div 2 /\ sn' = sn \div 2
  BY DEF BuildBoth, NextHash, Up
<1>2. /\ p \in 0 .. Len(claim.path) /\ Len(claim.path) \in Nat /\ leaves \in Seq(Data)
  BY <1>1, ConsistencyFacts DEF IsPath
<1>3. PICK w : Built(leaves, claim.at - 1, claim.hash, claim.path, w, fn, sn, fr, sr, p)
  BY <1>1, ConsistencyFacts
<1>4. Built(leaves, claim.at - 1, claim.hash, claim.path, 2 * w, fn', sn', fr', sr', p')
  BY <1>1, <1>2, <1>3, BuildRight
<1>5. p' \in 0 .. Len(claim.path)
  BY <1>1, <1>2
<1>. QED
  BY <1>1, <1>4, <1>5, BuildOK

LEMMA BuildNewOK ==
    ASSUME VerifierOK, BuildNew
    PROVE  VerifierOK'
<1>1. /\ pc = "build" /\ fn % 2 = 0 /\ fn < sn /\ p < Len(claim.path)
      /\ leaves' = leaves /\ claim' = claim /\ pc' = pc
      /\ fr' = fr /\ sr' = NodeHash(sr, claim.path[p + 1])
      /\ p' = p + 1 /\ fn' = fn \div 2 /\ sn' = sn \div 2
  BY DEF BuildNew, NextHash, Up
<1>2. /\ p \in 0 .. Len(claim.path) /\ Len(claim.path) \in Nat /\ leaves \in Seq(Data)
  BY <1>1, ConsistencyFacts DEF IsPath
<1>3. PICK w : Built(leaves, claim.at - 1, claim.hash, claim.path, w, fn, sn, fr, sr, p)
  BY <1>1, ConsistencyFacts
<1>4. Built(leaves, claim.at - 1, claim.hash, claim.path, 2 * w, fn', sn', fr', sr', p')
  BY <1>1, <1>2, <1>3, BuildLeft
<1>5. p' \in 0 .. Len(claim.path)
  BY <1>1, <1>2
<1>. QED
  BY <1>1, <1>4, <1>5, BuildOK

LEMMA BuildNothingOK ==
    ASSUME VerifierOK, BuildNothing
    PROVE  VerifierOK'
<1>1. /\ pc = "build" /\ fn % 2 = 0 /\ fn = sn
      /\ leaves' = leaves /\ claim' = claim /\ pc' = pc
      /\ fr' = fr /\ sr' = sr
      /\ p' = p /\ fn' = fn \div 2 /\ sn' = sn \div 2
  BY DEF BuildNothing, Up
<1>2. p \in 0 .. Len(claim.path) /\ leaves \in Seq(Data)
  BY <1>1, ConsistencyFacts
<1>3. PICK w : Built(leaves, claim.at - 1, claim.hash, claim.path, w, fn, sn, fr, sr, p)
  BY <1>1, ConsistencyFacts
<1>4. Built(leaves, claim.at - 1, claim.hash, claim.path, 2 * w, fn \div 2, sn \div 2, fr, sr, p)
  BY <1>1, <1>2, <1>3, BuildNone
<1>5. Built(leaves, claim.at - 1, claim.hash, claim.path, 2 * w, fn', sn', fr', sr', p')
  BY <1>1, <1>4
<1>6. p' \in 0 .. Len(claim.path)
  BY <1>1, <1>2
<1>. QED
  BY <1>1, <1>5, <1>6, BuildOK

LEMMA RunOutOfPathOK ==
    ASSUME VerifierOK, RunOutOfPath
    PROVE  VerifierOK'
<1>1. /\ pc = "build" /\ p = Len(claim.path) /\ Decide(FALSE)
      /\ fn % 2 = 1 \/ fn < sn
  BY DEF RunOutOfPath
<1>2. /\ claim.proof = "consistency" /\ leaves \in Seq(Data) /\ IsPath(claim.path)
      /\ (claim.at - 1) + 1 = claim.at
  BY <1>1, ConsistencyFacts
<1>3. PICK w : Built(leaves, claim.at - 1, claim.hash, claim.path, w, fn, sn, fr, sr, p)
  BY <1>1, ConsistencyFacts
<1>4. fn \in Nat /\ sn \in Nat /\ fn <= sn
  BY <1>3, HereFacts DEF Built
<1>5. sn > 0
  BY <1>1, <1>4
<1>6. claim.path # ConsistencyProof(leaves, claim.at)
  BY <1>1, <1>2, <1>3, <1>5, BuildShort
<1>7. ~ Genuine
  BY <1>2, <1>6 DEF Genuine
<1>8. pc # "idle"
  BY <1>1
<1>. QED
  BY <1>1, <1>7, <1>8, DecideOK

LEMMA FinishConsistencyOK ==
    ASSUME VerifierOK, FinishConsistency
    PROVE  VerifierOK'
<1>. DEFINE accepted == /\ fr = claim.hash /\ sr = MerkleRoot(leaves)
                        /\ p = Len(claim.path)
<1>1. pc = "build" /\ sn = 0 /\ Decide(accepted)
  BY DEF FinishConsistency
<1>2. /\ claim.proof = "consistency" /\ claim.at \in 1 .. Len(leaves) - 1
      /\ leaves \in Seq(Data) /\ Len(leaves) \in Nat
      /\ IsPath(claim.path) /\ (claim.at - 1) + 1 = claim.at
  BY <1>1, ConsistencyFacts
<1>3. PICK w : Built(leaves, claim.at - 1, claim.hash, claim.path, w, fn, sn, fr, sr, p)
  BY <1>1, ConsistencyFacts
<1>4. accepted <=>
        (claim.hash = RootOf(leaves, 0, claim.at) /\ claim.path = ConsistencyProof(leaves, claim.at))
  BY <1>1, <1>2, <1>3, BuildEnd
<1>5. claim.at \in 1 .. Len(leaves)
  BY <1>2
<1>6. MerkleRoot(SubSeq(leaves, 1, claim.at)) = RootOf(leaves, 0, claim.at)
  BY <1>2, <1>5, PrefixRoot
<1>. HIDE DEF accepted
<1>7. accepted <=> Genuine
  BY <1>2, <1>4, <1>5, <1>6 DEF Genuine
<1>8. pc # "idle"
  BY <1>1
<1>. QED
  BY <1>1, <1>7, <1>8, DecideOK

LEMMA StepOK == VerifierOK /\ [Next]_vars => VerifierOK'
<1>. SUFFICES ASSUME VerifierOK, [Next]_vars PROVE VerifierOK'
  OBVIOUS
<1>1. ASSUME NEW d \in Data, AppendLeaf(d) PROVE VerifierOK'
  BY <1>1, AppendLeafOK
<1>2. ASSUME NEW index \in 0 .. Len(leaves) - 1, NEW claimed \in 0 .. MaxLeaves, NEW d \in Data,
             PresentInclusion(index, claimed, d)
      PROVE  VerifierOK'
  BY <1>2, PresentInclusionOK
<1>3. ASSUME NEW old \in 1 .. Len(leaves), NEW claimed \in 0 .. MaxLeaves,
             PresentConsistency(old, claimed)
      PROVE  VerifierOK'
  BY <1>3, PresentConsistencyOK
<1>4. CASE Answer
  BY <1>4, AnswerOK
<1>5. CASE StartInclusion \/ Climb \/ Skip \/ FinishInclusion
  BY <1>5, StartInclusionOK, ClimbOK, SkipOK, FinishInclusionOK
<1>6. CASE StartConsistency \/ SkipOnes \/ StartRoots
  BY <1>6, StartConsistencyOK, SkipOnesOK, StartRootsOK
<1>7. CASE BuildBoth \/ BuildNew \/ BuildNothing
  BY <1>7, BuildBothOK, BuildNewOK, BuildNothingOK
<1>8. CASE RunOutOfPath \/ FinishConsistency
  BY <1>8, RunOutOfPathOK, FinishConsistencyOK
<1>9. CASE UNCHANGED vars
  <2>1. /\ leaves' = leaves /\ claim' = claim /\ pc' = pc /\ fn' = fn /\ sn' = sn
        /\ fr' = fr /\ sr' = sr /\ p' = p
    BY <1>9 DEF vars
  <2>. QED
    BY <2>1 DEF VerifierOK, PresentedOK, InclusionOK, ConsistencyOK, VerdictOK, Genuine
<1>. QED
  BY <1>1, <1>2, <1>3, <1>4, <1>5, <1>6, <1>7, <1>8, <1>9 DEF Next

\* Wherever verify_inclusion_proof and verify_consistency are in their loops, what
\* they have built stands for what the prover would have used so far.
THEOREM VerifiersKeepTheInvariant == Spec => []VerifierOK
BY InitOK, StepOK, PTL DEF Spec

\* ProverIsBelieved: verify_inclusion_proof and verify_consistency reject no
\* proof that inclusion_proof and consistency_proof make, for a log of any size.
THEOREM TheProverIsBelieved == Spec => []ProverIsBelieved
<1>1. VerifierOK => ProverIsBelieved
  BY DEF VerifierOK, VerdictOK, ProverIsBelieved
<1>. QED
  BY <1>1, VerifiersKeepTheInvariant, PTL

\* InclusionIsExact: verify_inclusion_proof accepts nothing but the leaf that is
\* at the index, with the path inclusion_proof makes for it.
THEOREM InclusionProofsAreExact == Spec => []InclusionIsExact
<1>1. VerifierOK => InclusionIsExact
  BY DEF VerifierOK, VerdictOK, InclusionIsExact
<1>. QED
  BY <1>1, VerifiersKeepTheInvariant, PTL

\* ConsistencyIsExact: verify_consistency accepts nothing but the root of the
\* log's own prefix, with the path consistency_proof makes for it.
THEOREM ConsistencyProofsAreExact == Spec => []ConsistencyIsExact
<1>1. VerifierOK => ConsistencyIsExact
  BY DEF VerifierOK, VerdictOK, ConsistencyIsExact
<1>. QED
  BY <1>1, VerifiersKeepTheInvariant, PTL

-----------------------------------------------------------------------------
(* What a root is.                                                        *)

\* Two logs with one merkle_root are one log, so that a checkpoint's root may
\* stand for the events under it, as it does in TransparencyStore.
THEOREM RootIsTheLog ==
    ASSUME NEW ls \in Seq(Data), NEW ks \in Seq(Data), MerkleRoot(ls) = MerkleRoot(ks)
    PROVE  ls = ks
<1>1. /\ RootOf(ls, 0, Len(ls)) = RootOf(ks, 0, Len(ks))
      /\ Len(ls) \in Nat /\ Len(ks) \in Nat
  BY DEF MerkleRoot, RootOf
<1>2. ASSUME NEW qs \in Seq(Data), NEW q \in Nat, q = Len(qs)
      PROVE  (q = 0) <=> (RootOf(qs, 0, q) = EmptyHash)
  <2>1. \A d, l, r : LeafHash(d) # EmptyHash /\ NodeHash(l, r) # EmptyHash
    BY DEF LeafHash, NodeHash, EmptyHash
  <2>2. 0 \in Nat
    OBVIOUS
  <2>3. CASE q = 0
    BY <2>2, <2>3, RootStep
  <2>4. CASE q = 1
    BY <2>1, <2>2, <2>4, RootStep
  <2>5. CASE q >= 2
    BY <2>1, <2>2, <2>5, RootStep
  <2>. QED
    BY <2>3, <2>4, <2>5
<1>4. CASE Len(ls) = 0 \/ Len(ks) = 0
  <2>1. Len(ls) = 0 /\ Len(ks) = 0
    BY <1>1, <1>2, <1>4
  <2>. QED
    BY <2>1
<1>5. CASE Len(ls) # 0 /\ Len(ks) # 0
  <2>1. Len(ls) = Len(ks) /\ \A l \in 1 .. Len(ls) : ls[0 + l] = ks[0 + l]
    <3>1. ASSUME NEW n \in Nat \ {0}, NEW m \in Nat \ {0}, NEW o \in Nat,
                 RootOf(ls, o, n) = RootOf(ks, o, m)
          PROVE  n = m /\ SameLeaves(ls, o, ks, o, n)
      BY <3>1, RootTellsLeaves
    <3>2. Len(ls) = Len(ks) /\ SameLeaves(ls, 0, ks, 0, Len(ls))
      BY <1>1, <1>5, <3>1
    <3>. QED
      BY <3>2 DEF SameLeaves
  <2>2. \A l \in 1 .. Len(ls) : ls[l] = ks[l]
    BY <2>1
  <2>. QED
    BY <2>1, <2>2
<1>. QED
  BY <1>4, <1>5

====
