---------------------------- MODULE MerkleTree ----------------------------
(***************************************************************************)
(* The Merkle tree over the log's events and its two proofs:               *)
(* satspath-core/src/transparency/tree.rs and the verifiers in verifier.rs.*)
(* The prover recurses over the leaves and the verifiers walk up the bits  *)
(* of an index, so that they agree on every size, and that a verifier      *)
(* takes no other proof, is arithmetic which is easily off by one.         *)
(*                                                                         *)
(* SHA-256 is taken to have no collisions, and the prefix bytes 0x00 and   *)
(* 0x01 keep leaves and nodes apart: a hash is the term it is computed     *)
(* from.  The prover's recursive calls are over slices of the leaves; a    *)
(* slice is its log, the leaves before it, and its size.                   *)
(***************************************************************************)
EXTENDS Integers, Sequences

CONSTANTS Data,                 \* what a leaf may hold
          MaxLeaves,            \* bound on the size of the log
          ForgedPaths(_, _),    \* what is presented of a log for one of its proofs
          ForgedRoots(_),       \* and for the root of an earlier log
          None

VARIABLES leaves,   \* the data of the log's leaves, oldest first
          claim,    \* the proof presented to a verifier, or None
          pc,       \* where the verifier is
          fn, sn,   \* the node it is at and the last node of that level
          fr,       \* the old root as far as it is built
          sr,       \* the root as far as it is built
          p         \* how many hashes of the path are used

logVars == <<leaves, claim>>
nodeVars == <<fn, sn>>
rootVars == <<fr, sr, p>>
vars == <<leaves, claim, pc, fn, sn, fr, sr, p>>

-----------------------------------------------------------------------------
(* The prover.                                                             *)

EmptyHash == <<>>
LeafHash(d) == <<d>>
NodeHash(l, r) == <<l, r>>

TwoTo[k \in Nat] == IF k = 0 THEN 1 ELSE 2 * TwoTo[k - 1]

\* A mutant: the tree is split in the middle.
SplitInTheMiddle(n) == n \div 2

\* largest_power_of_two_less_than
Split(n) == CHOOSE k \in {TwoTo[i] : i \in 0 .. n} : k < n /\ n <= 2 * k

\* merkle_root of the slice of ls that starts after from leaves.
Root[size \in Nat] ==
    [ls \in Seq(Data) |-> [from \in Nat |->
        IF size = 0 THEN EmptyHash
        ELSE IF size = 1 THEN LeafHash(ls[from + 1])
        ELSE LET k == Split(size)
             IN  NodeHash(Root[k][ls][from], Root[size - k][ls][from + k])]]

\* inclusion_path, with the leaves of the slice counted from 0.
Path[size \in Nat] ==
    [ls \in Seq(Data) |-> [from \in Nat |-> [index \in 0 .. size - 1 |->
        IF size <= 1 THEN <<>>
        ELSE LET k == Split(size)
             IN  IF index < k
                 THEN Append(Path[k][ls][from][index], Root[size - k][ls][from + k])
                 ELSE Append(Path[size - k][ls][from + k][index - k], Root[k][ls][from])]]]

\* sub_proof
SubProof[size \in Nat] ==
    [ls \in Seq(Data) |-> [from \in Nat |-> [m \in 1 .. size |-> [b \in BOOLEAN |->
        IF m = size THEN IF b THEN <<>> ELSE <<Root[size][ls][from]>>
        ELSE LET k == Split(size)
             IN  IF m <= k
                 THEN Append(SubProof[k][ls][from][m][b], Root[size - k][ls][from + k])
                 ELSE Append(SubProof[size - k][ls][from + k][m - k][FALSE],
                             Root[k][ls][from])]]]]

MerkleRoot(ls) == Root[Len(ls)][ls][0]
InclusionPath(ls, index) == Path[Len(ls)][ls][0][index]
ConsistencyProof(ls, old) == SubProof[Len(ls)][ls][0][old][TRUE]

-----------------------------------------------------------------------------
(* A log grows and proofs over it are presented: those the prover makes    *)
(* and forged ones, for any leaf, index, old size and old root.            *)

IsPath(q) == Len(q) \in Nat /\ q = [i \in 1 .. Len(q) |-> q[i]]

ASSUME MaxLeavesIsNat == MaxLeaves \in Nat
ASSUME ForgedArePaths ==
    \A n \in 1 .. MaxLeaves : \A ls \in [1 .. n -> Data] :
        /\ \A index \in 0 .. n - 1 : \A q \in ForgedPaths(ls, InclusionPath(ls, index)) : IsPath(q)
        /\ \A old \in 1 .. n : \A q \in ForgedPaths(ls, ConsistencyProof(ls, old)) : IsPath(q)

Init ==
    /\ leaves = <<>>
    /\ claim = None
    /\ pc = "idle"
    /\ fn = 0 /\ sn = 0
    /\ fr = EmptyHash /\ sr = EmptyHash
    /\ p = 0

AppendLeaf(d) ==
    /\ pc = "idle"
    /\ Len(leaves) < MaxLeaves
    /\ leaves' = Append(leaves, d)
    /\ UNCHANGED <<claim, pc, fn, sn, fr, sr, p>>

Present(proof, at, hash, path) ==
    /\ claim' = [proof |-> proof, at |-> at, hash |-> hash, path |-> path]
    /\ pc' = "presented"
    /\ UNCHANGED <<leaves, fn, sn, fr, sr, p>>

PresentInclusion(index, claimed, d) ==
    /\ pc = "idle"
    /\ \E path \in {InclusionPath(leaves, index)} \cup
                   ForgedPaths(leaves, InclusionPath(leaves, index)) :
         Present("inclusion", claimed, LeafHash(d), path)

PresentConsistency(old, claimed) ==
    /\ pc = "idle"
    /\ \E path \in {ConsistencyProof(leaves, old)} \cup
                   ForgedPaths(leaves, ConsistencyProof(leaves, old)),
          root \in {Root[old][leaves][0]} \cup ForgedRoots(leaves) :
         Present("consistency", claimed, root, path)

Decide(accepted) ==
    /\ pc' = IF accepted THEN "accepted" ELSE "rejected"
    /\ UNCHANGED <<leaves, claim, fn, sn, fr, sr, p>>

\* The verdict is returned; the next proof is presented.
Answer ==
    /\ pc \in {"accepted", "rejected"}
    /\ claim' = None
    /\ pc' = "idle"
    /\ fn' = 0 /\ sn' = 0 /\ fr' = EmptyHash /\ sr' = EmptyHash /\ p' = 0
    /\ UNCHANGED leaves

-----------------------------------------------------------------------------
(* verify_inclusion_proof, one iteration of a loop in a step.  Its index,  *)
(* last and hash are fn, sn and sr.                                        *)

NextHash == claim.path[p + 1]

Up ==
    /\ fn' = fn \div 2
    /\ sn' = sn \div 2

\* A mutant: the index is not compared with the size.
StartInclusionAnywhere ==
    /\ pc = "presented" /\ claim.proof = "inclusion"
    /\ pc' = "climb"
    /\ fn' = claim.at /\ sn' = Len(leaves) - 1 /\ sr' = claim.hash
    /\ UNCHANGED <<leaves, claim, fr, p>>

StartInclusion ==
    /\ pc = "presented" /\ claim.proof = "inclusion"
    /\ IF claim.at >= Len(leaves)
       THEN Decide(FALSE)
       ELSE /\ pc' = "climb"
            /\ fn' = claim.at /\ sn' = Len(leaves) - 1 /\ sr' = claim.hash
            /\ UNCHANGED <<leaves, claim, fr, p>>

\* The loop over the audit path, up to its inner loop.
Climb ==
    /\ pc = "climb" /\ p < Len(claim.path)
    /\ p' = p + 1
    /\ IF fn % 2 = 1 \/ fn = sn
       THEN /\ sr' = NodeHash(NextHash, sr)
            /\ pc' = "skip"
            /\ UNCHANGED nodeVars
       ELSE /\ sr' = NodeHash(sr, NextHash)
            /\ Up
            /\ UNCHANGED pc
    /\ UNCHANGED <<leaves, claim, fr>>

\* The inner loop, over levels without a sibling, and the end of an iteration.
Skip ==
    /\ pc = "skip"
    /\ Up
    /\ pc' = IF fn % 2 = 0 /\ fn # 0 THEN "skip" ELSE "climb"
    /\ UNCHANGED <<leaves, claim, fr, sr, p>>

FinishInclusion ==
    /\ pc = "climb" /\ p = Len(claim.path)
    /\ Decide(sr = MerkleRoot(leaves) /\ sn = 0)

-----------------------------------------------------------------------------
(* verify_consistency, one iteration of a loop in a step.                  *)

\* A mutant: two trees of one size are taken to be one tree.
StartConsistencyBySize ==
    /\ pc = "presented" /\ claim.proof = "consistency"
    /\ IF claim.at = 0 \/ claim.at >= Len(leaves) \/ claim.path = <<>>
       THEN Decide(claim.at = Len(leaves) /\ claim.path = <<>>)
       ELSE /\ pc' = "ones"
            /\ fn' = claim.at - 1 /\ sn' = Len(leaves) - 1
            /\ UNCHANGED <<leaves, claim, fr, sr, p>>

StartConsistency ==
    /\ pc = "presented" /\ claim.proof = "consistency"
    /\ IF claim.at = 0 \/ claim.at >= Len(leaves) \/ claim.path = <<>>
       THEN Decide(/\ claim.at = Len(leaves)
                   /\ claim.hash = MerkleRoot(leaves) /\ claim.path = <<>>)
       ELSE /\ pc' = "ones"
            /\ fn' = claim.at - 1 /\ sn' = Len(leaves) - 1
            /\ UNCHANGED <<leaves, claim, fr, sr, p>>

\* The levels on which the old tree ends with a right child.
SkipOnes ==
    /\ pc = "ones" /\ fn % 2 = 1
    /\ Up
    /\ UNCHANGED <<leaves, claim, pc, fr, sr, p>>

\* Both roots start from the old root, or from the first hash of the path.
StartRoots ==
    /\ pc = "ones" /\ fn % 2 = 0
    /\ p' = IF fn = 0 THEN 0 ELSE 1
    /\ fr' = IF fn = 0 THEN claim.hash ELSE NextHash
    /\ sr' = fr'
    /\ pc' = "build"
    /\ UNCHANGED <<leaves, claim, fn, sn>>

\* The loop over both roots, and the one over the new root that goes on alone:
\* a level with a sibling on the left, one on the right, or none.
BuildBoth ==
    /\ pc = "build" /\ fn % 2 = 1 /\ p < Len(claim.path)
    /\ fr' = NodeHash(NextHash, fr)
    /\ sr' = NodeHash(NextHash, sr)
    /\ p' = p + 1
    /\ Up
    /\ UNCHANGED <<leaves, claim, pc>>

BuildNew ==
    /\ pc = "build" /\ fn % 2 = 0 /\ fn < sn /\ p < Len(claim.path)
    /\ sr' = NodeHash(sr, NextHash)
    /\ p' = p + 1
    /\ Up
    /\ UNCHANGED <<leaves, claim, pc, fr>>

BuildNothing ==
    /\ pc = "build" /\ fn % 2 = 0 /\ fn = sn /\ fn > 0
    /\ Up
    /\ UNCHANGED <<leaves, claim, pc, fr, sr, p>>

RunOutOfPath ==
    /\ pc = "build" /\ (fn % 2 = 1 \/ fn < sn) /\ p = Len(claim.path)
    /\ Decide(FALSE)

FinishConsistency ==
    /\ pc = "build" /\ fn = 0 /\ sn = 0
    /\ Decide(/\ fr = claim.hash /\ sr = MerkleRoot(leaves)
              /\ p = Len(claim.path))

-----------------------------------------------------------------------------
Next ==
    \/ \E d \in Data : AppendLeaf(d)
    \/ \E index \in 0 .. Len(leaves) - 1, claimed \in 0 .. MaxLeaves, d \in Data :
         PresentInclusion(index, claimed, d)
    \/ \E old \in 1 .. Len(leaves), claimed \in 0 .. MaxLeaves :
         PresentConsistency(old, claimed)
    \/ Answer
    \/ StartInclusion \/ Climb \/ Skip \/ FinishInclusion
    \/ StartConsistency \/ SkipOnes \/ StartRoots
    \/ BuildBoth \/ BuildNew \/ BuildNothing \/ RunOutOfPath \/ FinishConsistency

Spec == Init /\ [][Next]_vars

-----------------------------------------------------------------------------
(* Properties.                                                             *)

\* The claim is true and its path is the one the prover makes for it.
Genuine ==
    IF claim.proof = "inclusion"
    THEN /\ claim.at < Len(leaves)
         /\ claim.hash = LeafHash(leaves[claim.at + 1])
         /\ claim.path = InclusionPath(leaves, claim.at)
    ELSE /\ claim.at \in 1 .. Len(leaves)
         /\ claim.hash = MerkleRoot(SubSeq(leaves, 1, claim.at))
         /\ claim.path = ConsistencyProof(leaves, claim.at)

\* No proof the prover makes is rejected, whatever the size, leaf and old size.
ProverIsBelieved == pc = "rejected" => ~ Genuine

\* An inclusion proof is accepted only for the leaf that is at its index, and
\* no other path than the prover's is accepted: verify_checkpoint_inclusion
\* takes it for the event's place under the signed root.
InclusionIsExact == pc = "accepted" /\ claim.proof = "inclusion" => Genuine

\* A consistency proof is accepted only for the root of the log's own prefix:
\* never for the root of a fork, which is what verify_checkpoint_transition
\* relies on to notice one.
ConsistencyIsExact == pc = "accepted" /\ claim.proof = "consistency" => Genuine

=============================================================================
