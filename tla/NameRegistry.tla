---------------------------- MODULE NameRegistry ----------------------------
(***************************************************************************)
(* What the transparency log promises the holder of a name, whoever writes *)
(* to it and however the writes interleave: every name has one current     *)
(* owner key, its state advances by single numbered steps, the owner key   *)
(* changes only in a step of its own (a rotation), and a revoked name      *)
(* never changes again.                                                    *)
(***************************************************************************)
EXTENDS Naturals

CONSTANTS Ids,      \* identifier hashes
          Keys,     \* owner identity keys
          None

VARIABLE binding    \* binding[id]: None, or the name's owner and version

Binding == [owner : Keys, seq : Nat, revoked : BOOLEAN]

TypeOK == binding \in [Ids -> Binding \cup {None}]

Init == binding = [id \in Ids |-> None]

Live(id) == binding[id] # None /\ ~ binding[id].revoked

Register(id, k) ==
    /\ binding[id] = None
    /\ binding' = [binding EXCEPT ![id] =
                     [owner |-> k, seq |-> 0, revoked |-> FALSE]]

\* A live name gets its next version.
Advance(id, owner, revoked) ==
    /\ Live(id)
    /\ binding' = [binding EXCEPT ![id] =
                     [owner |-> owner, seq |-> @.seq + 1, revoked |-> revoked]]

\* The owner publishes another profile under the same key.
Update(id) == Advance(id, binding[id].owner, FALSE)

Rotate(id, k) == Advance(id, k, FALSE)

Revoke(id) == Advance(id, binding[id].owner, TRUE)

Next == \E id \in Ids :
          \/ Update(id)
          \/ Revoke(id)
          \/ \E k \in Keys : Register(id, k) \/ Rotate(id, k)

Spec == Init /\ [][Next]_binding

=============================================================================
