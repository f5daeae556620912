------------------------ MODULE MCTransparencyStore ------------------------
(***************************************************************************)
(* TransparencyStore for TLC.  Two callers race for one name: a third can  *)
(* only lose to either of them as the other does, and the events of other  *)
(* names enter a history's check only by being skipped.  Callers and keys  *)
(* are interchangeable, and no property is a liveness property.            *)
(***************************************************************************)
EXTENDS TransparencyStore, TLC

Symmetry == Permutations(Callers) \cup Permutations(Keys)
              \cup Permutations(Ids) \cup Permutations(Operators)

=============================================================================
