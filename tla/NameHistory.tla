---------------------------- MODULE NameHistory ----------------------------
(***************************************************************************)
(* The rules a name's history obeys in the SatsPath transparency log:      *)
(* crates/satspath-core/src/transparency/verifier.rs.  The same rules are  *)
(* written there twice, once over a whole history and once for a proposed  *)
(* successor of its head, and this module translates both.                 *)
(*                                                                         *)
(* Every signing draws a fresh profile nonce, so two signed events never   *)
(* have the same content: the element of Hashes an event carries stands    *)
(* for its signed_event_hash and, since an event is signed over exactly    *)
(* one profile, for its profile_hash too.  A signature is the key that     *)
(* produced it; None stands for Rust's Option::None.                       *)
(***************************************************************************)
EXTENDS Integers, Sequences

CONSTANTS Ids,      \* identifier hashes
          Keys,     \* owner identity keys
          Hashes,   \* hashes of signed events
          None

ASSUME NoneIsNothing == None \notin Hashes /\ None \notin Keys

Actions == {"Register", "UpdateProfile", "RotateKey", "Revoke", "RecoverKey"}

\* rotation::KeyRotation: old is the key that authorised it, new the key that
\* accepted it, for the event of that identifier, predecessor and sequence.
Rotation == [old : Keys, new : Keys, id : Ids, prev : Hashes \cup {None}, seq : Nat]

NameEvent == [id : Ids, action : Actions, key : Keys, seq : Nat,
              prev : Hashes \cup {None}, signer : Keys,
              rotation : Rotation \cup {None}, hash : Hashes]

-----------------------------------------------------------------------------
\* The dual proof a RotateKey event needs, given the key in authority: one made
\* for this very event.
RotationProof(e, authority) ==
    /\ e.rotation # None
    /\ e.rotation.old = authority
    /\ e.rotation.new = e.key
    /\ e.rotation.id = e.id
    /\ e.rotation.prev = e.prev
    /\ e.rotation.seq = e.seq

\* A mutant: any key may replace the owner's if it signs the event itself.
SelfAuthorised(e, authority) ==
    /\ e.action = "RotateKey" => RotationProof(e, authority)
    /\ e.signer = e.key

\* Who may sign e: the key in authority signs every event, and only a
\* RotateKey event with its dual proof may carry another key.
Authorised(e, authority) ==
    /\ IF e.action = "RotateKey" THEN RotationProof(e, authority)
                                 ELSE e.key = authority
    /\ e.signer = authority

\* verify_event_transition with no head.
Genesis(e) ==
    /\ e.action = "Register"
    /\ e.seq = 0
    /\ e.prev = None
    /\ e.signer = e.key

\* A mutant: the incremental verifier forgets that a revocation is terminal.
SuccessorOfRevoked(head, e) ==
    /\ e.id = head.id
    /\ e.seq = head.seq + 1
    /\ e.prev = head.hash
    /\ Authorised(e, head.key)
    /\ e.action # "RecoverKey"

\* verify_event_transition with a head.
Successor(head, e) ==
    /\ e.id = head.id
    /\ e.seq = head.seq + 1
    /\ e.prev = head.hash
    /\ head.action # "Revoke"
    /\ Authorised(e, head.key)
    /\ e.action # "RecoverKey"

\* The loop variable authorized_key of verify_identifier_history when the
\* loop reaches event i: the key of the last rotation before i, and without
\* one the registered key.
RotationsBefore(h, i) == {j \in 1 .. i - 1 : h[j].action = "RotateKey"}

AuthorizedKey(h, i) ==
    LET rotations == RotationsBefore(h, i)
    IN  IF rotations = {}
        THEN h[1].key
        ELSE h[CHOOSE j \in rotations : \A k \in rotations : k <= j].key

\* A mutant: the loop forgets the flag it set when it read a Revoke event.
StepPastRevoke(h, i) ==
    /\ h[i].id = h[1].id
    /\ h[i].seq = i - 1
    /\ h[i].prev = IF i = 1 THEN None ELSE h[i - 1].hash
    /\ h[i].action # "RecoverKey"
    /\ Authorised(h[i], AuthorizedKey(h, i))

\* One iteration of that loop.
HistoryStep(h, i) ==
    /\ h[i].id = h[1].id
    /\ h[i].seq = i - 1
    /\ h[i].prev = IF i = 1 THEN None ELSE h[i - 1].hash
    /\ i > 1 => h[i - 1].action # "Revoke"
    /\ h[i].action # "RecoverKey"
    /\ Authorised(h[i], AuthorizedKey(h, i))

\* verify_identifier_history.
VerifyIdentifierHistory(h) ==
    /\ Len(h) > 0
    /\ h[1].action = "Register"
    /\ h[1].seq = 0
    /\ \A i \in 1 .. Len(h) : HistoryStep(h, i)

=============================================================================
