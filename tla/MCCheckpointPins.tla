-------------------------- MODULE MCCheckpointPins --------------------------
(* CheckpointPins for TLC. *)
EXTENDS CheckpointPins, TLC

Symmetry == Permutations(Branches) \cup Permutations(Inodes) \cup
            Permutations(Resolvers)

=============================================================================
