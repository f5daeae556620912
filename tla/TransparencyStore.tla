------------------------- MODULE TransparencyStore -------------------------
(***************************************************************************)
(* TransactionalTransparencyStore (satspath-core/src/transparency/         *)
(* database.rs, log.rs) and the callers that write through it (satspathd). *)
(*                                                                         *)
(* The store keeps four tables in one SQLite database: the name events,    *)
(* the operator's checkpoints over them, the current profile of each name  *)
(* and the operator state.  A writer                                       *)
(*   reads the profile it will replace,                                    *)
(*   loads the log: three SELECTs, each a transaction of its own,          *)
(*   signs an event and a checkpoint over the log it loaded,               *)
(*   and commits: loads the log again, checks its work against it, and in  *)
(*   one IMMEDIATE transaction compares the tables with what it loaded and *)
(*   inserts all four rows.                                                *)
(* Between any two of these steps other writers, of this process or of     *)
(* another, take steps of theirs.  Anchoring loads the log, waits for the  *)
(* Bitcoin network, and replaces the latest checkpoint by its anchored     *)
(* copy if it still is the latest.                                         *)
(*                                                                         *)
(* The nonce in a signed profile makes its event unlike any other, and the *)
(* one checkpoint signed over that event unlike any other: an event and    *)
(* its checkpoint carry the same fresh element of Hashes.  A Merkle root   *)
(* is the sequence of the event hashes under it (RootIsTheLog, which       *)
(* MerkleTree_proofs proves of the tree).                                  *)
(***************************************************************************)
EXTENDS NameHistory

CONSTANTS Callers,          \* requests and processes that use the store
          Operators,        \* operator keys
          MaxEvents,        \* bound on the length of the log
          MaxTime,          \* bound on the wall clock
          ClockMayStepBack  \* whether the wall clock may be set back

ASSUME BoundsAreNat == MaxEvents \in Nat /\ MaxTime \in Nat
ASSUME ClockAssumption == ClockMayStepBack \in BOOLEAN

Times == 0 .. MaxTime

\* A stored profile: its key and sequence, and the hash of its event.
Profile == [key : Keys, seq : Nat, hash : Hashes]

\* rotation is the operator key that authorised a rotation: the rest of an
\* OperatorKeyRotation repeats the checkpoint it is created for.  anchor is
\* the checkpoint hash that the attached Bitcoin receipt commits to.
Checkpoint == [size : Nat, root : Seq(Hashes), prev : Hashes \cup {None},
               created : Times, operator : Operators, opseq : Nat,
               rotation : Operators \cup {None}, hash : Hashes,
               anchor : Hashes \cup {None}]

ASSUME NoneIsNoRecord ==
    /\ None \notin NameEvent /\ None \notin Checkpoint
    /\ None \notin Profile /\ None \notin Operators /\ None \notin Ids

VARIABLES
    events,         \* table name_events, in event_index order
    checkpoints,    \* table checkpoints, in checkpoint_index order
    profiles,       \* table profiles: a profile or None, by identifier
    operatorState,  \* the row of table operator_state
    anchors,        \* table anchors: what its receipts commit to
    clock,          \* the wall clock's last reading
    caller          \* what each caller is doing, and what it holds

storeVars == <<events, checkpoints, profiles, operatorState, anchors>>
vars == <<events, checkpoints, profiles, operatorState, anchors,
          clock, caller>>

Steps == {"idle", "events", "checkpoints", "profiles", "loaded"}
Goals == {"none", "prepare", "commit", "anchor"}

Idle == [step |-> "idle", goal |-> "none", id |-> None, existing |-> None,
         evs |-> <<>>, cps |-> <<>>, event |-> None, cp |-> None]

Caller == [step : Steps, goal : Goals, id : Ids \cup {None},
           existing : Profile \cup {None}, evs : Seq(NameEvent),
           cps : Seq(Checkpoint), event : NameEvent \cup {None},
           cp : Checkpoint \cup {None}]

-----------------------------------------------------------------------------
(* The log: histories, checkpoint chain and their replay.                  *)

\* The first n events of the log hold none of id's.
NoHistory(evs, n, id) == \A i \in 1 .. n : evs[i].id # id

\* Among the first n events, position i holds the last of id's.
IsHead(evs, n, id, i) ==
    /\ i \in 1 .. n
    /\ evs[i].id = id
    /\ \A j \in i + 1 .. n : evs[j].id # id

\* verify_identifier_history of the name's history in the first n events with
\* e at its end, when that history is known to verify.
Extends(evs, n, e) ==
    \/ NoHistory(evs, n, e.id) /\ Genesis(e)
    \/ \E i \in 1 .. n : IsHead(evs, n, e.id, i) /\ Successor(evs[i], e)

HistoriesReplay(evs) == \A i \in 1 .. Len(evs) : Extends(evs, i - 1, evs[i])

\* merkle_root over the first n events.
Root(evs, n) == [i \in 1 .. n |-> evs[i].hash]

\* verify_checkpoint_transition, given the consistency proof of the two trees.
Transition(pin, cp) ==
    /\ IF cp.operator # pin.operator
       THEN /\ cp.rotation = pin.operator
            /\ cp.prev = pin.hash
            /\ cp.opseq = pin.opseq + 1
       ELSE /\ cp.opseq = pin.opseq
            /\ cp.rotation = None
    /\ cp.size >= pin.size
    /\ cp.size = pin.size => cp.root = pin.root
    /\ \A i \in 1 .. pin.size : cp.root[i] = pin.root[i]

\* One iteration of verify_full_replay's loop over the checkpoints.
CheckpointReplays(evs, cps, i) ==
    LET cp == cps[i] IN
    /\ cp.size \in 1 .. Len(evs)
    /\ cp.root = Root(evs, cp.size)
    /\ \A j \in 1 .. i - 1 : cps[j].size = cp.size => cps[j].hash = cp.hash
    /\ i = 1 => cp.prev = None /\ cp.opseq = 0
    /\ i > 1 => /\ cp.created >= cps[i - 1].created
                /\ cp.prev = cps[i - 1].hash
                /\ Transition(cps[i - 1], cp)
    /\ cp.anchor \in {None, cp.hash}

\* TransparencyLog::verify_full_replay.
Replays(evs, cps) ==
    /\ HistoriesReplay(evs)
    /\ \A i \in DOMAIN cps : CheckpointReplays(evs, cps, i)

\* A mutant: the profile carries the sequence of the one before it.
ProfileOfPrevious(e) == [key |-> e.key, seq |-> e.seq - 1, hash |-> e.hash]

ProfileOf(e) == [key |-> e.key, seq |-> e.seq, hash |-> e.hash]

\* A mutant: load_log trusts the rows of table profiles.
TrustProfiles(evs, profs) == TRUE

\* load_log's check of the profiles table: each row is its name's last event.
ProfilesMatch(evs, profs) ==
    \A id \in Ids : profs[id] # None =>
        \E i \in 1 .. Len(evs) :
            IsHead(evs, Len(evs), id, i) /\ profs[id] = ProfileOf(evs[i])

-----------------------------------------------------------------------------
(* Signing.                                                                *)

\* A hash no stored event has and no caller holds.
UsedHashes == {events[i].hash : i \in DOMAIN events} \cup
              {caller[p].event.hash : p \in {p \in Callers : caller[p].event # None}}

FreshHash == CHOOSE h \in Hashes : h \notin UsedHashes

LastHash(cps) == IF cps = <<>> THEN None ELSE cps[Len(cps)].hash

\* A mutant: the sequence comes from the history, whatever profile was read.
AnyProfile(existing, evs, id) == TRUE

\* next_identifier_sequence: the profile and the history it was read for agree.
Aligned(existing, evs, id) ==
    \/ NoHistory(evs, Len(evs), id) /\ existing = None
    \/ \E i \in 1 .. Len(evs) :
         IsHead(evs, Len(evs), id, i) /\ existing = ProfileOf(evs[i])

\* The events a caller may sign as id's next: the first registers the name,
\* later ones update it, rotate its key or revoke it, under any keys.
\* Sequence and predecessor come from the history, the rotation's from the event.
NextEvents(evs, id) ==
    LET head == CHOOSE i \in 1 .. Len(evs) : IsHead(evs, Len(evs), id, i)
        first == NoHistory(evs, Len(evs), id)
        seq == IF first THEN 0 ELSE evs[head].seq + 1
        prev == IF first THEN None ELSE evs[head].hash
        Signed(actions, rotations) ==
            [id : {id}, action : actions, key : Keys, seq : {seq}, prev : {prev},
             signer : Keys, rotation : rotations, hash : {FreshHash}]
    IN  IF first THEN Signed({"Register"}, {None})
                 ELSE Signed({"UpdateProfile", "Revoke"}, {None}) \cup
                      Signed({"RotateKey"}, [old : Keys, new : Keys, id : {id},
                                             prev : {prev}, seq : {seq}])

\* Utc::now(), which an administrator or NTP may set back.
ReadsClock(now) == ClockMayStepBack \/ now >= clock

\* prepare_checkpoint over a candidate log.
NewCheckpoint(candidate, cps, o, now) ==
    [size |-> Len(candidate), root |-> Root(candidate, Len(candidate)),
     prev |-> LastHash(cps), created |-> now, operator |-> o,
     opseq |-> IF cps = <<>> THEN 0 ELSE cps[Len(cps)].opseq,
     rotation |-> None, hash |-> FreshHash, anchor |-> None]

\* prepare_operator_rotation_checkpoint, which unlike prepare_checkpoint never
\* dates a checkpoint before its predecessor.
RotationCheckpoint(candidate, cps, o, now) ==
    LET last == cps[Len(cps)]
    IN  [NewCheckpoint(candidate, cps, o, now) EXCEPT
           !.opseq = @ + 1,
           !.rotation = last.operator,
           !.created = IF last.created > now THEN last.created ELSE now]

MayRotate(candidate, cps) ==
    cps # <<>> /\ Len(candidate) > cps[Len(cps)].size

-----------------------------------------------------------------------------
(* The callers.                                                            *)

Init ==
    /\ events = <<>>
    /\ checkpoints = <<>>
    /\ profiles = [id \in Ids |-> None]
    /\ operatorState = [operator |-> None, opseq |-> 0]
    /\ anchors = {}
    /\ clock = 0
    /\ caller = [p \in Callers |-> Idle]

\* sign_and_store, rotate_profile_key: store.profile(alias).
BeginWrite(p, id) ==
    /\ caller[p].step = "idle"
    /\ caller' = [caller EXCEPT ![p] = [Idle EXCEPT !.step = "events",
                                                    !.goal = "prepare",
                                                    !.id = id,
                                                    !.existing = profiles[id]]]
    /\ UNCHANGED <<storeVars, clock>>

\* anchor_latest_checkpoint, which begins with the first read of load_log.
BeginAnchor(p) ==
    /\ caller[p].step = "idle"
    /\ caller' = [caller EXCEPT ![p] = [Idle EXCEPT !.step = "checkpoints",
                                                    !.goal = "anchor",
                                                    !.evs = events]]
    /\ UNCHANGED <<storeVars, clock>>

\* load_log, in three reads.
ReadEvents(p) ==
    /\ caller[p].step = "events"
    /\ caller' = [caller EXCEPT ![p].step = "checkpoints", ![p].evs = events]
    /\ UNCHANGED <<storeVars, clock>>

ReadCheckpoints(p) ==
    /\ caller[p].step = "checkpoints"
    /\ Replays(caller[p].evs, checkpoints)
    /\ caller' = [caller EXCEPT ![p].step = "profiles", ![p].cps = checkpoints]
    /\ UNCHANGED <<storeVars, clock>>

ReadProfiles(p) ==
    /\ caller[p].step = "profiles"
    /\ ProfilesMatch(caller[p].evs, profiles)
    /\ caller' = [caller EXCEPT ![p].step = "loaded"]
    /\ UNCHANGED <<storeVars, clock>>

\* Sign the event and a checkpoint over the candidate log, then enter
\* commit_profile_event_checkpoint, which begins by loading the log again.
Prepare(p) ==
    LET c == caller[p] IN
    /\ c.step = "loaded"
    /\ c.goal = "prepare"
    /\ Len(c.evs) < MaxEvents
    /\ Hashes \ UsedHashes # {}
    /\ Aligned(c.existing, c.evs, c.id)
    /\ \E now \in Times, o \in Operators,
          e \in NextEvents(c.evs, c.id), rotate \in BOOLEAN :
         LET candidate == Append(c.evs, e)
         IN  /\ ReadsClock(now)
             /\ Extends(c.evs, Len(c.evs), e)
             /\ rotate => MayRotate(candidate, c.cps)
             /\ clock' = now
             /\ caller' = [caller EXCEPT ![p] =
                  [c EXCEPT !.step = "events", !.goal = "commit",
                            !.evs = <<>>, !.cps = <<>>, !.event = e,
                            !.cp = IF rotate
                              THEN RotationCheckpoint(candidate, c.cps, o, now)
                              ELSE NewCheckpoint(candidate, c.cps, o, now)]]
    /\ UNCHANGED storeVars

\* commit_profile_event_checkpoint's checks against the log it loaded.
CandidateVerifies(evs, cps, e, cp) ==
    /\ Extends(evs, Len(evs), e)
    /\ cp.size = Len(evs) + 1
    /\ cp.root = Root(Append(evs, e), Len(evs) + 1)
    /\ cp.prev = LastHash(cps)
    /\ IF cps = <<>> THEN cp.opseq = 0 /\ cp.rotation = None
                     ELSE Transition(cps[Len(cps)], cp)

\* A mutant: the transaction does not compare the tables with what was loaded.
InsertAnyway(evs, cps) == TRUE

\* The comparison inside the IMMEDIATE transaction.
TablesUnchanged(evs, cps) ==
    /\ Len(events) = Len(evs)
    /\ Len(checkpoints) = Len(cps)
    /\ LastHash(checkpoints) = LastHash(cps)

\* A mutant: the profile is inserted OR IGNOREd, not replaced.
CommitOrIgnore(p) ==
    LET c == caller[p] IN
    /\ c.step = "loaded"
    /\ c.goal = "commit"
    /\ CandidateVerifies(c.evs, c.cps, c.event, c.cp)
    /\ TablesUnchanged(c.evs, c.cps)
    /\ events' = Append(events, c.event)
    /\ checkpoints' = Append(checkpoints, c.cp)
    /\ profiles' = IF profiles[c.event.id] # None THEN profiles ELSE
                      [profiles EXCEPT ![c.event.id] = ProfileOf(c.event)]
    /\ operatorState' = [operator |-> c.cp.operator, opseq |-> c.cp.opseq]
    /\ caller' = [caller EXCEPT ![p] = Idle]
    /\ UNCHANGED <<anchors, clock>>

Commit(p) ==
    LET c == caller[p] IN
    /\ c.step = "loaded"
    /\ c.goal = "commit"
    /\ CandidateVerifies(c.evs, c.cps, c.event, c.cp)
    /\ TablesUnchanged(c.evs, c.cps)
    /\ events' = Append(events, c.event)
    /\ checkpoints' = Append(checkpoints, c.cp)
    /\ profiles' = [profiles EXCEPT ![c.event.id] = ProfileOf(c.event)]
    /\ operatorState' = [operator |-> c.cp.operator, opseq |-> c.cp.opseq]
    /\ caller' = [caller EXCEPT ![p] = Idle]
    /\ UNCHANGED <<anchors, clock>>

\* A mutant: replace_latest_checkpoint replaces whatever is the latest.
ReplaceWhatever(cp) == checkpoints # <<>>

\* replace_latest_checkpoint's guard: cp still is the latest checkpoint.
StillLatest(cp) == checkpoints # <<>> /\ LastHash(checkpoints) = cp.hash

\* The network has confirmed the anchor of the checkpoint that was the latest
\* when this caller loaded the log.
ReplaceLatestCheckpoint(p) ==
    LET c == caller[p]
        latest == c.cps[Len(c.cps)]
    IN  /\ c.step = "loaded"
        /\ c.goal = "anchor"
        /\ c.cps # <<>>
        /\ StillLatest(latest)
        /\ checkpoints' = [checkpoints EXCEPT ![Len(checkpoints)] =
                             [latest EXCEPT !.anchor = latest.hash]]
        /\ anchors' = anchors \cup {latest.hash}
        /\ caller' = [caller EXCEPT ![p] = Idle]
        /\ UNCHANGED <<events, profiles, operatorState, clock>>

\* A check fails, the process dies, the network or the disk gives an error:
\* the caller loses what it holds; SQLite keeps what was committed.
Fail(p) ==
    /\ caller[p].step # "idle"
    /\ caller' = [caller EXCEPT ![p] = Idle]
    /\ UNCHANGED <<storeVars, clock>>

CallerStep(p) ==
    \/ \E id \in Ids : BeginWrite(p, id)
    \/ BeginAnchor(p)
    \/ ReadEvents(p)
    \/ ReadCheckpoints(p)
    \/ ReadProfiles(p)
    \/ Prepare(p)
    \/ Commit(p)
    \/ ReplaceLatestCheckpoint(p)
    \/ Fail(p)

Next == \E p \in Callers : CallerStep(p)

Spec == Init /\ [][Next]_vars

-----------------------------------------------------------------------------
(* Properties.                                                             *)

TypeOK ==
    /\ events \in Seq(NameEvent)
    /\ checkpoints \in Seq(Checkpoint)
    /\ profiles \in [Ids -> Profile \cup {None}]
    /\ operatorState \in [operator : Operators \cup {None}, opseq : Nat]
    /\ anchors \subseteq Hashes
    /\ clock \in Times
    /\ caller \in [Callers -> Caller]

\* Whatever writers, anchors and failures did, the tables pass the replay that
\* every open and every load makes: a store that once refused its own contents
\* would stay refused, since no operation repairs it (key_transparency.md:120).
StoreReplays == Replays(events, checkpoints) /\ ProfilesMatch(events, profiles)

\* No table advances without the others: one checkpoint per event, every name
\* with a history has the profile its last event covers, and the operator row
\* is that of the latest checkpoint (threat_model.md:41).
TablesAdvanceTogether ==
    /\ Len(checkpoints) = Len(events)
    /\ \A id \in Ids : Aligned(profiles[id], events, id)
    /\ events # <<>> =>
         LET latest == checkpoints[Len(checkpoints)]
         IN  operatorState = [operator |-> latest.operator,
                              opseq |-> latest.opseq]

\* Of the writers racing to extend a name's history only one succeeds: no two
\* events name the same predecessor, and no two register the same name
\* (name-events-v2.md, rule 7).
OneSuccessorPerHead ==
    \A i, j \in DOMAIN events :
        i # j /\ events[i].id = events[j].id => events[i].prev # events[j].prev

\* Every receipt ever stored commits to a checkpoint that is still in the
\* chain, and a checkpoint that was anchored stays anchored.
AnchorsHold ==
    \A a \in anchors :
        \E i \in DOMAIN checkpoints : /\ checkpoints[i].hash = a
                                      /\ checkpoints[i].anchor # None

\* The log is append-only: a step keeps every event, and every checkpoint up
\* to its anchor.
CoreOf(cp) == [cp EXCEPT !.anchor = None]

Extended ==
    /\ \A i \in DOMAIN events :
         i \in DOMAIN events' /\ events'[i] = events[i]
    /\ \A i \in DOMAIN checkpoints :
         i \in DOMAIN checkpoints' /\ CoreOf(checkpoints'[i]) = CoreOf(checkpoints[i])

AppendOnly == [][Extended]_vars

\* A load that succeeds returned one committed state, though its three reads
\* were not one transaction: at the last read the tables are what was returned
\* (but for anchors attached in between).
CompletesLoad(p) ==
    caller[p].step = "profiles" /\ caller'[p].step = "loaded"

LoadedIsCurrent(p) ==
    /\ caller[p].evs = events
    /\ Len(caller[p].cps) = Len(checkpoints)
    /\ \A i \in DOMAIN checkpoints :
         CoreOf(caller[p].cps[i]) = CoreOf(checkpoints[i])

LoadIsSnapshot ==
    [][\A p \in Callers : CompletesLoad(p) => LoadedIsCurrent(p)]_vars

\* No lost update: a commit replaces the very profile that its caller read,
\* before it loaded the log and outside any transaction, to compute the new
\* one from (its removed methods, its rotation).
CommitsOverWhatWasRead ==
    [][\A p \in Callers :
         events' # events /\ caller'[p] # caller[p] =>
            profiles[caller[p].event.id] = caller[p].existing]_vars

\* The store implements the abstract registry: the binding of a name is read
\* off its profile and its history.
Revoked(id) == \E i \in DOMAIN events : events[i].id = id /\ events[i].action = "Revoke"

BindingOf(id) ==
    IF profiles[id] = None
    THEN None
    ELSE [owner |-> profiles[id].key, seq |-> profiles[id].seq,
          revoked |-> Revoked(id)]

Registry == INSTANCE NameRegistry WITH binding <- [id \in Ids |-> BindingOf(id)]

ASSUME NoneIsNoBinding == None \notin Registry!Binding

ImplementsRegistry == Registry!Spec

=============================================================================
