------------------------- MODULE IdentifierHistory -------------------------
(***************************************************************************)
(* The history of one identifier as a log grows it: any caller may propose *)
(* any event, TransparencyLog::prepare_append replays the identifier's     *)
(* history with the event at its end and appends it only if the replay     *)
(* succeeds (crates/satspath-core/src/transparency/log.rs).                *)
(***************************************************************************)
EXTENDS NameHistory, FiniteSets

CONSTANT MaxHistory     \* bound on the length of the history

ASSUME MaxHistoryIsNat == MaxHistory \in Nat /\ 1 .. MaxHistory \subseteq Hashes

VARIABLE history        \* the events of one identifier, oldest first

Init == history = <<>>

\* Every event a caller could propose: stale and skipped sequences, stale
\* and missing predecessors, foreign identifiers and keys, rotations that were
\* forged or made for another event (only a RotateKey event's rotation is ever
\* read, so the others have none). A new event has a hash no event of the
\* history has.
Seqs  == 0 .. MaxHistory
Prevs == {None} \cup {history[i].hash : i \in DOMAIN history}

Proposed(actions, rotations) ==
    [id : Ids, action : actions, key : Keys, seq : Seqs, prev : Prevs,
     signer : Keys, rotation : rotations, hash : {Len(history) + 1}]

Proposals ==
    Proposed(Actions \ {"RotateKey"}, {None})
      \cup Proposed({"RotateKey"}, {None} \cup
             [old : Keys, new : Keys, id : Ids, prev : Prevs, seq : Seqs])

\* prepare_append replays the history of the event's own identifier; the
\* module follows one identifier, the one of the first event accepted.
Accepts(e) ==
    /\ history # <<>> => e.id = history[1].id
    /\ VerifyIdentifierHistory(Append(history, e))

\* A mutant: the event is stored as it was before sign() filled it in.
AppendUnsigned(e) ==
    /\ Accepts(e)
    /\ history' = Append(history, [e EXCEPT !.signer = None])

\* TransparencyLog::prepare_append.
AppendEvent(e) ==
    /\ Accepts(e)
    /\ history' = Append(history, e)

Next == /\ Len(history) < MaxHistory
        /\ \E e \in Proposals : AppendEvent(e)

Spec == Init /\ [][Next]_history

-----------------------------------------------------------------------------
\* Every appended event is a NameEvent.
TypeOK == history \in Seq(NameEvent)

\* The check of a proposed event against the head alone (the incremental
\* verifier verify_event_transition, for a server that keeps only heads)
\* accepts exactly the events that verify_identifier_history accepts when it
\* replays the whole history with the event at its end.
VerifiersAgree ==
    \A e \in Proposals :
        (history # <<>> => e.id = history[1].id) =>
          (VerifyIdentifierHistory(Append(history, e)) <=>
             IF history = <<>> THEN Genesis(e)
                               ELSE Successor(history[Len(history)], e))

\* The key of the newest event is linked to the registered key by rotations
\* each authorised by the key then in authority: whoever holds neither the
\* registered key nor a key it rotated to has signed no event of the history
\* (name-events-v2.md, rules 2, 3 and 8).
Heirs(i) ==
    {history[1].key} \cup
        {history[j].rotation.new : j \in
            {k \in 2 .. i : history[k].action = "RotateKey" /\
                               history[k].rotation.old = history[k - 1].key}}

OwnershipTraceable ==
    \A i \in DOMAIN history :
        /\ history[i].key \in Heirs(i)
        /\ i > 1 => history[i].signer = history[i - 1].key

\* A revocation ends a name: no proposal, whoever signs it, is accepted on a
\* history that holds a Revoke event anywhere (name-events-v2.md, rule 4).
RevocationTerminal ==
    (\E i \in DOMAIN history : history[i].action = "Revoke") =>
        \A e \in Proposals : ~ Accepts(e)

=============================================================================
