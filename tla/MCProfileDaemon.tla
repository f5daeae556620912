-------------------------- MODULE MCProfileDaemon --------------------------
(* ProfileDaemon for TLC: names and keys of one kind are interchangeable. *)
EXTENDS ProfileDaemon, TLC

Symmetry == Permutations(Aliases) \cup Permutations(ServerKeys)
              \cup Permutations(ClientKeys)

=============================================================================
