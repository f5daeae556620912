---------------------- MODULE TransparencyStore_proofs ----------------------
(***************************************************************************)
(* Proofs about TransparencyStore, for any numbers of names, keys,         *)
(* operators and callers, and logs of any length.                          *)
(***************************************************************************)
EXTENDS TransparencyStore, SequenceTheorems, TLAPS

-----------------------------------------------------------------------------
(* The inductive invariant, part by part.                                  *)

\* A caller that prepares has a name to prepare for, and only one that commits
\* holds an event and its checkpoint.
HoldsOK(p) ==
    /\ caller[p].goal = "prepare" => caller[p].id \in Ids
    /\ (caller[p].goal = "commit") = (caller[p].event # None)
    /\ (caller[p].goal = "commit") = (caller[p].cp # None)

Typed == TypeOK /\ \A p \in Callers : HoldsOK(p)

\* There is one checkpoint per event, each over exactly the events up to it
\* and linked to the one before.
ChainOK ==
    /\ Len(checkpoints) = Len(events)
    /\ \A i \in 1 .. Len(checkpoints) :
         /\ checkpoints[i].size = i
         /\ checkpoints[i].hash = events[i].hash
         /\ checkpoints[i].root = Root(events, i)
         /\ i = 1 => checkpoints[i].prev = None /\ checkpoints[i].opseq = 0
         /\ i > 1 => /\ checkpoints[i].prev = checkpoints[i - 1].hash
                     /\ Transition(checkpoints[i - 1], checkpoints[i])
         /\ checkpoints[i].anchor \in {None, checkpoints[i].hash}

HashesUnique ==
    \A i, j \in 1 .. Len(events) : events[i].hash = events[j].hash => i = j

\* Only the last event of a name may be a revocation.
RevokedIsLast ==
    \A i, j \in 1 .. Len(events) :
        i < j /\ events[i].id = events[j].id => events[i].action # "Revoke"

ProfilesAlign == \A id \in Ids : Aligned(profiles[id], events, id)

\* What p has loaded is a prefix of the log and of its checkpoints.
LoadOK(p) ==
    /\ Len(caller[p].evs) <= Len(events)
    /\ \A i \in 1 .. Len(caller[p].evs) : caller[p].evs[i] = events[i]
    /\ caller[p].step \in {"profiles", "loaded"} =>
         /\ Len(caller[p].cps) = Len(caller[p].evs)
         /\ \A i \in 1 .. Len(caller[p].cps) :
              CoreOf(caller[p].cps[i]) = CoreOf(checkpoints[i])

\* existing is the profile of the event that e names as its predecessor.
ProfileBefore(existing, evs, e) ==
    IF e.prev = None
    THEN existing = None
    ELSE \E i \in 1 .. Len(evs) :
           evs[i].hash = e.prev /\ existing = ProfileOf(evs[i])

\* The event p has signed but not committed is unlike every other, and its
\* predecessor is the event whose profile p read.
PendingOK(p) ==
    /\ caller[p].event # None =>
         /\ caller[p].cp.hash = caller[p].event.hash
         /\ caller[p].cp.anchor = None
         /\ \A i \in 1 .. Len(events) : events[i].hash # caller[p].event.hash
         /\ caller[p].cp.prev # None =>
              \E i \in 1 .. Len(events) : events[i].hash = caller[p].cp.prev
         /\ ProfileBefore(caller[p].existing, events, caller[p].event)

PendingUnique ==
    \A p, q \in Callers :
        /\ caller[p].event # None
        /\ caller[q].event # None
        /\ caller[p].event.hash = caller[q].event.hash
        => p = q

\* As long as the clock is not set back, dates ascend along the chain and a
\* checkpoint still to be committed is no older than its predecessor.
DatesAscend ==
    ~ ClockMayStepBack =>
      /\ \A i \in 1 .. Len(checkpoints) :
           /\ checkpoints[i].created <= clock
           /\ i > 1 => checkpoints[i].created >= checkpoints[i - 1].created
      /\ \A p \in Callers : caller[p].cp # None =>
           /\ caller[p].cp.created <= clock
           /\ \A i \in 1 .. Len(checkpoints) :
                checkpoints[i].hash = caller[p].cp.prev =>
                   caller[p].cp.created >= checkpoints[i].created

OperatorStateOK ==
    events # <<>> =>
        operatorState = [operator |-> checkpoints[Len(checkpoints)].operator,
                         opseq |-> checkpoints[Len(checkpoints)].opseq]

\* What the tables alone satisfy.
TablesOK ==
    /\ HistoriesReplay(events)
    /\ ChainOK
    /\ HashesUnique
    /\ RevokedIsLast
    /\ ProfilesAlign
    /\ OperatorStateOK
    /\ AnchorsHold

IInv ==
    /\ Typed
    /\ TablesOK
    /\ \A p \in Callers : LoadOK(p) /\ PendingOK(p)
    /\ PendingUnique
    /\ DatesAscend

-----------------------------------------------------------------------------
(* Types.                                                                  *)

LEMMA RootType ==
    ASSUME NEW evs \in Seq(NameEvent), NEW n \in 0 .. Len(evs)
    PROVE  Root(evs, n) \in Seq(Hashes)
  <1>1. \A i \in 1 .. n : evs[i].hash \in Hashes
    <2> SUFFICES ASSUME NEW i \in 1 .. n
                 PROVE  evs[i].hash \in Hashes
      OBVIOUS
    <2>1. evs[i] \in NameEvent
      OBVIOUS
    <2> QED
      BY <2>1 DEF NameEvent
  <1>2. n \in Nat
    OBVIOUS
  <1>3. Root(evs, n) \in [1 .. n -> Hashes]
    BY <1>1 DEF Root
  <1> QED
    BY <1>2, <1>3

\* What a caller signs in Prepare is an event of its name, with its one hash.
LEMMA SignedEvent ==
    ASSUME NEW evs \in Seq(NameEvent), NEW id \in Ids,
           Hashes \ UsedHashes # {}, NEW e \in NextEvents(evs, id),
           Extends(evs, Len(evs), e)
    PROVE  e \in NameEvent /\ e.hash = FreshHash /\ e.id = id
  <1>1. FreshHash \in Hashes
    BY DEF FreshHash
  <1>2. e.id = id /\ e.hash = FreshHash /\ e.action \in Actions
        /\ e.key \in Keys /\ e.signer \in Keys
        /\ e.rotation \in {None} \cup [old : Keys, new : Keys, id : {id},
                                       prev : {e.prev}, seq : {e.seq}]
    BY DEF NextEvents, Actions
  <1>3. e = [id |-> e.id, action |-> e.action, key |-> e.key, seq |-> e.seq,
             prev |-> e.prev, signer |-> e.signer, rotation |-> e.rotation,
             hash |-> e.hash]
    BY DEF NextEvents
  <1>4. e.seq \in Nat /\ e.prev \in Hashes \cup {None}
    <2>1. CASE Genesis(e)
      BY <2>1 DEF Genesis
    <2>2. CASE \E i \in 1 .. Len(evs) : Successor(evs[i], e)
      <3>1. PICK i \in 1 .. Len(evs) : Successor(evs[i], e)
        BY <2>2
      <3>2. evs[i] \in NameEvent
        OBVIOUS
      <3>3. evs[i].seq \in Nat /\ evs[i].hash \in Hashes
        BY <3>2 DEF NameEvent
      <3> QED
        BY <3>1, <3>3 DEF Successor
    <2> QED
      BY <2>1, <2>2 DEF Extends
  <1>5. e.rotation \in Rotation \cup {None}
    BY <1>2, <1>4 DEF Rotation
  <1> QED
    BY <1>1, <1>2, <1>3, <1>4, <1>5 DEF NameEvent

\* The checkpoint signed over a candidate log is a Checkpoint.
LEMMA SignedCheckpoint ==
    ASSUME NEW candidate \in Seq(NameEvent), NEW cps \in Seq(Checkpoint),
           NEW o \in Operators, NEW now \in Times, Hashes \ UsedHashes # {}
    PROVE  /\ NewCheckpoint(candidate, cps, o, now) \in Checkpoint
           /\ cps # <<>> => RotationCheckpoint(candidate, cps, o, now) \in Checkpoint
  <1> DEFINE new == NewCheckpoint(candidate, cps, o, now)
             last == cps[Len(cps)]
  <1>1. FreshHash \in Hashes
    BY DEF FreshHash
  <1>2. Root(candidate, Len(candidate)) \in Seq(Hashes)
    BY RootType
  <1>3. cps # <<>> => last \in Checkpoint
    OBVIOUS
  <1>4. cps # <<>> => /\ last.hash \in Hashes /\ last.opseq \in Nat
                      /\ last.operator \in Operators /\ last.created \in Times
    BY <1>3 DEF Checkpoint
  <1>5. LastHash(cps) \in Hashes \cup {None}
    BY <1>4 DEF LastHash
  <1>6. new \in Checkpoint
    BY <1>1, <1>2, <1>4, <1>5 DEF NewCheckpoint, Checkpoint
  <1>7. ASSUME cps # <<>>
        PROVE  RotationCheckpoint(candidate, cps, o, now) \in Checkpoint
    <2> DEFINE date == IF last.created > now THEN last.created ELSE now
    <2>1. date \in Times
      BY <1>4, <1>7
    <2>2. new.opseq + 1 \in Nat
      BY <1>6 DEF Checkpoint
    <2>3. RotationCheckpoint(candidate, cps, o, now) =
            [new EXCEPT !.opseq = @ + 1, !.rotation = last.operator,
                        !.created = date]
      BY DEF RotationCheckpoint
    <2> HIDE DEF new, date, last
    <2> QED
      BY <1>4, <1>6, <1>7, <2>1, <2>2, <2>3 DEF Checkpoint
  <1> QED
    BY <1>6, <1>7

LEMMA IdleType == Idle \in Caller /\ Idle.step = "idle" /\ Idle.goal = "none"
                  /\ Idle.event = None /\ Idle.cp = None
  BY DEF Idle, Caller, Steps, Goals

LEMMA InitTyped == Init => Typed
  BY IdleType, BoundsAreNat DEF Init, Typed, TypeOK, HoldsOK, Times

\* A step of p that leaves the tables alone keeps Typed if the record it gives
\* p is a Caller's and HoldsOK.
LEMMA CallerTyped ==
    ASSUME Typed, NEW p \in Callers, caller'[p] \in Caller, HoldsOK(p)',
           caller' = [caller EXCEPT ![p] = caller'[p]],
           UNCHANGED storeVars, clock' \in Times
    PROVE  Typed'
  BY SMTT(30) DEF Typed, TypeOK, HoldsOK, storeVars

LEMMA NextTyped == Typed /\ [Next]_vars => Typed'
  <1> SUFFICES ASSUME Typed, [Next]_vars
               PROVE  Typed'
    OBVIOUS
  <1>a. ASSUME NEW p \in Callers
        PROVE  caller[p] \in Caller /\ HoldsOK(p)
    BY DEF Typed, TypeOK
  <1>b. /\ events \in Seq(NameEvent) /\ checkpoints \in Seq(Checkpoint)
        /\ clock \in Times /\ profiles \in [Ids -> Profile \cup {None}]
        /\ caller \in [Callers -> Caller] /\ anchors \subseteq Hashes
        /\ operatorState \in [operator : Operators \cup {None}, opseq : Nat]
    BY DEF Typed, TypeOK
  <1>1. ASSUME NEW p \in Callers, NEW id \in Ids, BeginWrite(p, id)
        PROVE  Typed'
    <2>1. caller'[p] \in Caller /\ HoldsOK(p)'
      BY <1>1, <1>b, IdleType DEF BeginWrite, Caller, Steps, Goals, HoldsOK, Idle
    <2> QED
      BY <1>1, <1>b, <2>1, CallerTyped DEF BeginWrite
  <1>2. ASSUME NEW p \in Callers, BeginAnchor(p)
        PROVE  Typed'
    <2>1. caller'[p] \in Caller /\ HoldsOK(p)'
      BY <1>2, <1>b, IdleType DEF BeginAnchor, Caller, Steps, Goals, HoldsOK, Idle
    <2> QED
      BY <1>2, <1>b, <2>1, CallerTyped DEF BeginAnchor
  <1>3. ASSUME NEW p \in Callers, ReadEvents(p)
        PROVE  Typed'
    <2>1. caller'[p] \in Caller /\ HoldsOK(p)'
      BY <1>3, <1>a, <1>b, ZenonT(40) DEF ReadEvents, Caller, Steps, HoldsOK
    <2> QED
      BY <1>3, <1>b, <2>1, CallerTyped DEF ReadEvents
  <1>4. ASSUME NEW p \in Callers, ReadCheckpoints(p)
        PROVE  Typed'
    <2>1. caller'[p] \in Caller /\ HoldsOK(p)'
      BY <1>4, <1>a, <1>b, ZenonT(40) DEF ReadCheckpoints, Caller, Steps, HoldsOK
    <2> QED
      BY <1>4, <1>b, <2>1, CallerTyped DEF ReadCheckpoints
  <1>5. ASSUME NEW p \in Callers, ReadProfiles(p)
        PROVE  Typed'
    <2>1. caller'[p] \in Caller /\ HoldsOK(p)'
      BY <1>5, <1>a, <1>b, ZenonT(40) DEF ReadProfiles, Caller, Steps, HoldsOK
    <2> QED
      BY <1>5, <1>b, <2>1, CallerTyped DEF ReadProfiles
  <1>6. ASSUME NEW p \in Callers, Prepare(p)
        PROVE  Typed'
    <2> DEFINE c == caller[p]
    <2>1. PICK now \in Times, o \in Operators, e \in NextEvents(c.evs, c.id),
               rotate \in BOOLEAN :
            /\ Extends(c.evs, Len(c.evs), e)
            /\ rotate => MayRotate(Append(c.evs, e), c.cps)
            /\ clock' = now
            /\ caller' = [caller EXCEPT ![p] =
                 [c EXCEPT !.step = "events", !.goal = "commit",
                           !.evs = <<>>, !.cps = <<>>, !.event = e,
                           !.cp = IF rotate
                             THEN RotationCheckpoint(Append(c.evs, e), c.cps, o, now)
                             ELSE NewCheckpoint(Append(c.evs, e), c.cps, o, now)]]
      BY <1>6 DEF Prepare
    <2>2. c \in Caller /\ c.id \in Ids /\ c.evs \in Seq(NameEvent)
          /\ c.cps \in Seq(Checkpoint)
      BY <1>6, <1>a DEF Prepare, HoldsOK, Caller
    <2>3. e \in NameEvent
      BY <1>6, <2>1, <2>2, SignedEvent DEF Prepare
    <2>4. Append(c.evs, e) \in Seq(NameEvent)
      BY <2>2, <2>3
    <2> DEFINE cp == IF rotate
                     THEN RotationCheckpoint(Append(c.evs, e), c.cps, o, now)
                     ELSE NewCheckpoint(Append(c.evs, e), c.cps, o, now)
    <2>5. cp \in Checkpoint
      BY <1>6, <2>1, <2>2, <2>4, SignedCheckpoint DEF Prepare, MayRotate
    <2>6. caller'[p] \in Caller /\ HoldsOK(p)'
      <3> HIDE DEF cp
      <3>1. caller'[p] = [c EXCEPT !.step = "events", !.goal = "commit",
                                   !.evs = <<>>, !.cps = <<>>, !.event = e,
                                   !.cp = cp]
        BY <1>b, <2>1 DEF cp
      <3>2. e # None /\ cp # None
        BY <2>3, <2>5, NoneIsNoRecord
      <3>3. caller'[p] \in Caller
        <4>1. /\ "events" \in Steps /\ "commit" \in Goals
              /\ <<>> \in Seq(NameEvent) /\ <<>> \in Seq(Checkpoint)
          BY DEF Steps, Goals
        <4> QED
          BY <2>2, <2>3, <2>5, <3>1, <4>1 DEF Caller
      <3>4. /\ caller'[p].goal = "commit" /\ caller'[p].event = e
            /\ caller'[p].cp = cp
        BY <2>2, <3>1 DEF Caller
      <3> QED
        BY <3>2, <3>3, <3>4 DEF HoldsOK
    <2> QED
      BY <1>6, <1>b, <2>1, <2>6, CallerTyped DEF Prepare
  <1>7. ASSUME NEW p \in Callers, Commit(p)
        PROVE  Typed'
    <2>1. caller[p].event \in NameEvent /\ caller[p].cp \in Checkpoint
      BY <1>7, <1>a DEF Commit, HoldsOK, Caller
    <2>2. ProfileOf(caller[p].event) \in Profile
      BY <2>1 DEF ProfileOf, Profile, NameEvent
    <2>3. caller[p].cp.operator \in Operators /\ caller[p].cp.opseq \in Nat
      BY <2>1 DEF Checkpoint
    <2>4. caller' \in [Callers -> Caller] /\ \A q \in Callers : HoldsOK(q)'
      BY <1>7, <1>a, <1>b, IdleType DEF Commit, HoldsOK
    <2>5. events' \in Seq(NameEvent) /\ checkpoints' \in Seq(Checkpoint)
      BY <1>7, <1>b, <2>1 DEF Commit
    <2>6. profiles' \in [Ids -> Profile \cup {None}]
      BY <1>7, <1>b, <2>2 DEF Commit
    <2>7. operatorState' \in [operator : Operators \cup {None}, opseq : Nat]
      BY <1>7, <2>3 DEF Commit
    <2> QED
      BY <1>7, <1>b, <2>4, <2>5, <2>6, <2>7 DEF Commit, Typed, TypeOK
  <1>8. ASSUME NEW p \in Callers, ReplaceLatestCheckpoint(p)
        PROVE  Typed'
    <2> DEFINE latest == caller[p].cps[Len(caller[p].cps)]
    <2>1. latest \in Checkpoint
      BY <1>8, <1>a DEF ReplaceLatestCheckpoint, Caller
    <2>2. [latest EXCEPT !.anchor = latest.hash] \in Checkpoint
          /\ latest.hash \in Hashes
      BY <2>1 DEF Checkpoint
    <2>3. caller' \in [Callers -> Caller] /\ \A q \in Callers : HoldsOK(q)'
      BY <1>8, <1>a, <1>b, IdleType DEF ReplaceLatestCheckpoint, HoldsOK
    <2> HIDE DEF latest
    <2>4. checkpoints' \in Seq(Checkpoint) /\ anchors' \subseteq Hashes
      <3>1. /\ checkpoints # <<>>
            /\ checkpoints' = [checkpoints EXCEPT ![Len(checkpoints)] =
                                 [latest EXCEPT !.anchor = latest.hash]]
            /\ anchors' = anchors \cup {latest.hash}
        BY <1>8 DEF ReplaceLatestCheckpoint, StillLatest, latest
      <3> QED
        BY <1>b, <2>2, <3>1
    <2> QED
      BY <1>8, <1>b, <2>3, <2>4 DEF ReplaceLatestCheckpoint, Typed, TypeOK
  <1>9. ASSUME NEW p \in Callers, Fail(p)
        PROVE  Typed'
    <2>1. caller'[p] \in Caller /\ HoldsOK(p)'
      BY <1>9, <1>b, IdleType DEF Fail, HoldsOK
    <2> QED
      BY <1>9, <1>b, <2>1, CallerTyped DEF Fail
  <1>10. CASE UNCHANGED vars
    BY <1>10 DEF vars, Typed, TypeOK, HoldsOK
  <1> QED
    BY <1>1, <1>2, <1>3, <1>4, <1>5, <1>6, <1>7, <1>8, <1>9, <1>10
       DEF Next, CallerStep

-----------------------------------------------------------------------------
(* The log's operators.                                                    *)

\* What a log says of its first n events does not change when it grows.
LEMMA PrefixSame ==
    ASSUME NEW evs \in Seq(NameEvent), NEW e \in NameEvent,
           NEW n \in 0 .. Len(evs)
    PROVE  /\ \A x : Extends(Append(evs, e), n, x) <=> Extends(evs, n, x)
           /\ \A id : NoHistory(Append(evs, e), n, id) <=> NoHistory(evs, n, id)
           /\ \A id, i : IsHead(Append(evs, e), n, id, i) <=> IsHead(evs, n, id, i)
           /\ Root(Append(evs, e), n) = Root(evs, n)
  <1>1. \A i \in 1 .. n : Append(evs, e)[i] = evs[i]
    OBVIOUS
  <1>2. \A id : NoHistory(Append(evs, e), n, id) <=> NoHistory(evs, n, id)
    BY <1>1 DEF NoHistory
  <1>3. \A id, i : IsHead(Append(evs, e), n, id, i) <=> IsHead(evs, n, id, i)
    BY <1>1 DEF IsHead
  <1>4. \A x : Extends(Append(evs, e), n, x) <=> Extends(evs, n, x)
    BY <1>1, <1>2, <1>3 DEF Extends
  <1>5. Root(Append(evs, e), n) = Root(evs, n)
    BY <1>1 DEF Root
  <1> QED
    BY <1>2, <1>3, <1>4, <1>5

\* An appended event heads its own name and no other.
LEMMA AppendedHead ==
    ASSUME NEW evs \in Seq(NameEvent), NEW e \in NameEvent
    PROVE  /\ IsHead(Append(evs, e), Len(evs) + 1, e.id, Len(evs) + 1)
           /\ \A id : id # e.id =>
                /\ NoHistory(evs, Len(evs), id) =>
                     NoHistory(Append(evs, e), Len(evs) + 1, id)
                /\ \A i : IsHead(evs, Len(evs), id, i) =>
                     IsHead(Append(evs, e), Len(evs) + 1, id, i)
  <1>1. /\ \A i \in 1 .. Len(evs) : Append(evs, e)[i] = evs[i]
        /\ Append(evs, e)[Len(evs) + 1] = e
        /\ Len(evs) \in Nat
    OBVIOUS
  <1> QED
    BY <1>1 DEF IsHead, NoHistory

LEMMA CoreFields ==
    ASSUME NEW a \in Checkpoint, NEW b \in Checkpoint, CoreOf(a) = CoreOf(b)
    PROVE  /\ a.size = b.size /\ a.root = b.root /\ a.prev = b.prev
           /\ a.created = b.created /\ a.operator = b.operator
           /\ a.opseq = b.opseq /\ a.rotation = b.rotation /\ a.hash = b.hash
  BY DEF CoreOf, Checkpoint

\* A checkpoint's anchor plays no part in the transition from it or to it.
LEMMA TransitionCore ==
    ASSUME NEW a \in Checkpoint, NEW b \in Checkpoint, CoreOf(a) = CoreOf(b)
    PROVE  /\ \A c : Transition(a, c) <=> Transition(b, c)
           /\ \A c : Transition(c, a) <=> Transition(c, b)
  BY CoreFields DEF Transition

LEMMA TablesSame ==
    ASSUME TablesOK, UNCHANGED storeVars
    PROVE  TablesOK'
  BY DEF TablesOK, storeVars, ChainOK, HashesUnique, RevokedIsLast,
         ProfilesAlign, OperatorStateOK, AnchorsHold

-----------------------------------------------------------------------------
(* Steps that leave the tables alone.                                      *)

LEMMA CallerKeeps ==
    ASSUME IInv, Typed', NEW p \in Callers,
           caller' = [caller EXCEPT ![p] = caller'[p]],
           UNCHANGED storeVars, clock' = clock,
           LoadOK(p)', PendingOK(p)',
           caller'[p].event \in {None, caller[p].event},
           caller'[p].cp \in {None, caller[p].cp}
    PROVE  IInv'
  <1> USE DEF storeVars
  <1>1. \A q \in Callers : q # p => caller'[q] = caller[q]
    BY DEF IInv, Typed, TypeOK
  <1>2. TablesOK'
    BY TablesSame DEF IInv
  <1>3. ASSUME NEW q \in Callers
        PROVE  LoadOK(q)' /\ PendingOK(q)'
    <2>1. CASE q = p
      BY <2>1
    <2>2. CASE q # p
      <3>1. LoadOK(q) /\ PendingOK(q) /\ caller'[q] = caller[q]
        BY <1>1, <2>2 DEF IInv
      <3> QED
        BY <3>1 DEF LoadOK, PendingOK
    <2> QED
      BY <2>1, <2>2
  <1>4. PendingUnique'
    BY <1>1 DEF IInv, PendingUnique
  <1>5. DatesAscend'
    <2>1. \A q \in Callers : caller'[q].cp \in {None, caller[q].cp}
      BY <1>1
    <2> QED
      BY <2>1 DEF IInv, DatesAscend
  <1> QED
    BY <1>2, <1>3, <1>4, <1>5 DEF IInv

LEMMA IdleLoadPending ==
    ASSUME NEW p \in Callers, caller'[p].evs = <<>>, caller'[p].event = None,
           caller'[p].step \notin {"profiles", "loaded"}, Typed'
    PROVE  LoadOK(p)' /\ PendingOK(p)'
  BY DEF LoadOK, PendingOK, Typed, TypeOK

\* Checkpoints read after the events replay against them only if no commit
\* came in between.
LEMMA ReplayedLength ==
    ASSUME IInv, NEW p \in Callers, Replays(caller[p].evs, checkpoints)
    PROVE  Len(caller[p].evs) = Len(events) /\ caller[p].evs = events
  <1> DEFINE evs == caller[p].evs
  <1>1. evs \in Seq(NameEvent) /\ events \in Seq(NameEvent)
        /\ checkpoints \in Seq(Checkpoint)
    BY DEF IInv, Typed, TypeOK, Caller
  <1>2. Len(evs) <= Len(events) /\ \A i \in 1 .. Len(evs) : evs[i] = events[i]
    BY DEF IInv, LoadOK
  <1>3. Len(checkpoints) = Len(events)
        /\ \A i \in 1 .. Len(checkpoints) : checkpoints[i].size = i
    BY DEF IInv, TablesOK, ChainOK
  <1>4. \A i \in 1 .. Len(checkpoints) : checkpoints[i].size <= Len(evs)
    BY <1>1 DEF Replays, CheckpointReplays
  <1>5. Len(evs) = Len(events)
    BY <1>1, <1>2, <1>3, <1>4
  <1> QED
    BY <1>1, <1>2, <1>5, SeqEqual

LEMMA ReadsKeep ==
    ASSUME IInv, Typed', NEW p \in Callers,
           \/ \E id \in Ids : BeginWrite(p, id)
           \/ BeginAnchor(p)
           \/ ReadEvents(p)
           \/ ReadCheckpoints(p)
           \/ ReadProfiles(p)
           \/ Fail(p)
    PROVE  IInv'
  <1>a. caller[p] \in Caller /\ LoadOK(p) /\ PendingOK(p)
        /\ caller \in [Callers -> Caller]
    BY DEF IInv, Typed, TypeOK
  <1>b. events \in Seq(NameEvent) /\ checkpoints \in Seq(Checkpoint)
    BY DEF IInv, Typed, TypeOK
  <1>1. ASSUME NEW id \in Ids, BeginWrite(p, id)
        PROVE  IInv'
    <2>1. LoadOK(p)' /\ PendingOK(p)'
      BY <1>1, <1>a, IdleLoadPending DEF BeginWrite, Idle
    <2> QED
      BY <1>1, <1>a, <2>1, CallerKeeps DEF BeginWrite, Idle
  <1>2. CASE BeginAnchor(p)
    <2>1. /\ caller'[p].evs = events /\ caller'[p].event = None
          /\ caller'[p].step = "checkpoints" /\ caller'[p].cp = None
      BY <1>2, <1>a DEF BeginAnchor, Idle
    <2>2. LoadOK(p)' /\ PendingOK(p)'
      BY <1>2, <1>b, <2>1 DEF BeginAnchor, storeVars, LoadOK, PendingOK
    <2> QED
      BY <1>2, <1>a, <2>1, <2>2, CallerKeeps DEF BeginAnchor
  <1>3. CASE ReadEvents(p)
    <2>1. /\ caller'[p].evs = events /\ caller'[p].event = caller[p].event
          /\ caller'[p].step = "checkpoints" /\ caller'[p].cp = caller[p].cp
          /\ caller'[p].existing = caller[p].existing
      BY <1>3, <1>a DEF ReadEvents, Caller
    <2>2. LoadOK(p)' /\ PendingOK(p)'
      BY <1>3, <1>a, <1>b, <2>1 DEF ReadEvents, storeVars, LoadOK, PendingOK
    <2> QED
      BY <1>3, <1>a, <2>1, <2>2, CallerKeeps DEF ReadEvents
  <1>4. CASE ReadCheckpoints(p)
    <2>1. /\ caller'[p].evs = caller[p].evs /\ caller'[p].event = caller[p].event
          /\ caller'[p].cps = checkpoints /\ caller'[p].cp = caller[p].cp
          /\ caller'[p].existing = caller[p].existing
      BY <1>4, <1>a DEF ReadCheckpoints, Caller
    <2>2. caller[p].evs = events /\ Len(checkpoints) = Len(events)
      BY <1>4, ReplayedLength DEF ReadCheckpoints, IInv, TablesOK, ChainOK
    <2>3. LoadOK(p)' /\ PendingOK(p)'
      BY <1>4, <1>a, <1>b, <2>1, <2>2
         DEF ReadCheckpoints, storeVars, LoadOK, PendingOK
    <2> QED
      BY <1>4, <1>a, <2>1, <2>3, CallerKeeps DEF ReadCheckpoints
  <1>5. CASE ReadProfiles(p)
    <2>1. /\ caller'[p].evs = caller[p].evs /\ caller'[p].event = caller[p].event
          /\ caller'[p].cps = caller[p].cps /\ caller'[p].cp = caller[p].cp
          /\ caller'[p].existing = caller[p].existing
      BY <1>5, <1>a DEF ReadProfiles, Caller
    <2>2. LoadOK(p)' /\ PendingOK(p)'
      BY <1>5, <1>a, <2>1 DEF ReadProfiles, storeVars, LoadOK, PendingOK
    <2> QED
      BY <1>5, <1>a, <2>1, <2>2, CallerKeeps DEF ReadProfiles
  <1>6. CASE Fail(p)
    <2>1. LoadOK(p)' /\ PendingOK(p)'
      BY <1>6, <1>a, IdleLoadPending DEF Fail, Idle
    <2> QED
      BY <1>6, <1>a, <2>1, CallerKeeps DEF Fail, Idle
  <1> QED
    BY <1>1, <1>2, <1>3, <1>4, <1>5, <1>6

-----------------------------------------------------------------------------
(* Signing.                                                                *)

LEMMA HeadUnique ==
    ASSUME NEW evs, NEW n \in Nat, NEW id, NEW i, NEW j,
           IsHead(evs, n, id, i), IsHead(evs, n, id, j)
    PROVE  i = j
  BY DEF IsHead

\* A profile aligned with a history is the one of the event that an event
\* extending the history names as its predecessor.
LEMMA AlignedPredecessor ==
    ASSUME NEW evs \in Seq(NameEvent), NEW e, NEW id, NEW existing,
           e.id = id, Aligned(existing, evs, id), Extends(evs, Len(evs), e)
    PROVE  ProfileBefore(existing, evs, e)
  <1>1. Len(evs) \in Nat
    OBVIOUS
  <1>2. ASSUME NoHistory(evs, Len(evs), e.id), Genesis(e)
        PROVE  e.prev = None /\ existing = None
    BY <1>1, <1>2 DEF Genesis, NoHistory, Aligned, IsHead
  <1>3. ASSUME NEW i \in 1 .. Len(evs),
               IsHead(evs, Len(evs), e.id, i), Successor(evs[i], e)
        PROVE  /\ e.prev # None
               /\ evs[i].hash = e.prev
               /\ existing = ProfileOf(evs[i])
    <2>1. evs[i] \in NameEvent
      OBVIOUS
    <2>2. evs[i].hash \in Hashes
      BY <2>1 DEF NameEvent
    <2>3. ~ NoHistory(evs, Len(evs), e.id)
      BY <1>3 DEF NoHistory, IsHead
    <2>4. PICK j \in 1 .. Len(evs) : /\ IsHead(evs, Len(evs), e.id, j)
                                     /\ existing = ProfileOf(evs[j])
      BY <2>3 DEF Aligned
    <2>5. i = j
      BY <1>1, <1>3, <2>4, HeadUnique
    <2> QED
      BY <1>3, <2>2, <2>4, <2>5, NoneIsNothing DEF Successor
  <1> QED
    BY <1>2, <1>3 DEF Extends, ProfileBefore

LEMMA PrepareKeeps ==
    ASSUME IInv, Typed', NEW p \in Callers, Prepare(p)
    PROVE  IInv'
  <1> DEFINE c == caller[p]
             h == FreshHash
  <1>1. PICK now \in Times, o \in Operators, e \in NextEvents(c.evs, c.id),
             rotate \in BOOLEAN :
          /\ ReadsClock(now)
          /\ Extends(c.evs, Len(c.evs), e)
          /\ rotate => MayRotate(Append(c.evs, e), c.cps)
          /\ clock' = now
          /\ caller' = [caller EXCEPT ![p] =
               [c EXCEPT !.step = "events", !.goal = "commit",
                         !.evs = <<>>, !.cps = <<>>, !.event = e,
                         !.cp = IF rotate
                           THEN RotationCheckpoint(Append(c.evs, e), c.cps, o, now)
                           ELSE NewCheckpoint(Append(c.evs, e), c.cps, o, now)]]
    BY DEF Prepare
  <1> DEFINE cp == IF rotate
                   THEN RotationCheckpoint(Append(c.evs, e), c.cps, o, now)
                   ELSE NewCheckpoint(Append(c.evs, e), c.cps, o, now)
  <1>2. /\ c \in Caller /\ LoadOK(p) /\ PendingOK(p) /\ HoldsOK(p)
        /\ caller \in [Callers -> Caller] /\ clock \in Times
        /\ events \in Seq(NameEvent) /\ checkpoints \in Seq(Checkpoint)
    BY DEF IInv, Typed, TypeOK
  <1>3. /\ c.evs \in Seq(NameEvent) /\ c.cps \in Seq(Checkpoint)
        /\ c.step = "loaded" /\ c.id \in Ids
        /\ Aligned(c.existing, c.evs, c.id)
        /\ Hashes \ UsedHashes # {} /\ UNCHANGED storeVars
    BY <1>2 DEF Prepare, HoldsOK, Caller
  <1>4. h \in Hashes /\ h \notin UsedHashes
    BY <1>3 DEF FreshHash
  <1>5. e \in NameEvent /\ e.hash = h /\ e.id = c.id
    BY <1>1, <1>3, SignedEvent
  <1>6. /\ cp.hash = h /\ cp.anchor = None /\ cp.prev = LastHash(c.cps)
        /\ ~ ClockMayStepBack => cp.created >= now
        /\ (\A i \in 1 .. Len(c.cps) : c.cps[i].created <= now) => cp.created <= now
    <2>1. c.cps # <<>> => c.cps[Len(c.cps)] \in Checkpoint
      BY <1>3
    <2>2. c.cps # <<>> => c.cps[Len(c.cps)].created \in Int
      BY <2>1, BoundsAreNat DEF Checkpoint, Times
    <2>3. now \in Int
      BY BoundsAreNat DEF Times
    <2>4. rotate => c.cps # <<>>
      BY <1>1 DEF MayRotate
    <2> QED
      BY <1>3, <2>2, <2>3, <2>4 DEF RotationCheckpoint, NewCheckpoint
  <1> HIDE DEF cp, h
  <1>7. /\ caller'[p].step = "events" /\ caller'[p].goal = "commit"
        /\ caller'[p].evs = <<>> /\ caller'[p].event = e /\ caller'[p].cp = cp
        /\ caller'[p].existing = c.existing
        /\ \A q \in Callers : q # p => caller'[q] = caller[q]
    BY <1>1, <1>2 DEF cp, Caller
  <1>8. /\ Len(c.evs) <= Len(events) /\ Len(c.cps) = Len(c.evs)
        /\ Len(checkpoints) = Len(events)
        /\ \A i \in 1 .. Len(c.evs) : c.evs[i] = events[i]
        /\ \A i \in 1 .. Len(c.cps) : /\ c.cps[i].hash = events[i].hash
                                      /\ c.cps[i].created = checkpoints[i].created
    <2>1. /\ Len(c.evs) <= Len(events) /\ Len(c.cps) = Len(c.evs)
          /\ Len(checkpoints) = Len(events)
          /\ \A i \in 1 .. Len(c.evs) : c.evs[i] = events[i]
          /\ \A i \in 1 .. Len(c.cps) : CoreOf(c.cps[i]) = CoreOf(checkpoints[i])
      BY <1>2, <1>3 DEF LoadOK, IInv, TablesOK, ChainOK
    <2>2. \A i \in 1 .. Len(c.cps) :
             c.cps[i] \in Checkpoint /\ checkpoints[i] \in Checkpoint
      BY <1>2, <1>3, <2>1
    <2>3. \A i \in 1 .. Len(checkpoints) : checkpoints[i].hash = events[i].hash
      BY DEF IInv, TablesOK, ChainOK
    <2>4. \A i \in 1 .. Len(c.cps) : i \in 1 .. Len(checkpoints)
      BY <1>2, <1>3, <2>1
    <2> QED
      BY <2>1, <2>2, <2>3, <2>4, CoreFields
  <1>9. LoadOK(p)'
    BY <1>2, <1>3, <1>7 DEF LoadOK, storeVars
  <1>10. PendingOK(p)'
    <2>1. \A i \in 1 .. Len(events) : events[i].hash # h
      BY <1>4 DEF UsedHashes
    <2>2. cp.prev # None => \E i \in 1 .. Len(events) : events[i].hash = cp.prev
      BY <1>2, <1>3, <1>6, <1>8 DEF LastHash
    <2>3. ProfileBefore(c.existing, c.evs, e)
      BY <1>1, <1>3, <1>5, AlignedPredecessor
    <2>4. ProfileBefore(c.existing, events, e)
      BY <1>2, <1>3, <1>8, <2>3 DEF ProfileBefore
    <2> QED
      BY <1>3, <1>5, <1>6, <1>7, <2>1, <2>2, <2>4 DEF PendingOK, storeVars
  <1>11. PendingUnique'
    <2>1. \A q \in Callers : caller[q].event # None => caller[q].event.hash # h
      BY <1>4 DEF UsedHashes
    <2> QED
      BY <1>5, <1>7, <2>1 DEF IInv, PendingUnique
  <1>12. DatesAscend'
    <2> SUFFICES ASSUME ~ ClockMayStepBack
                 PROVE  DatesAscend'
      BY DEF DatesAscend
    <2>1. now >= clock /\ clock' = now /\ now \in Int /\ clock \in Int
      BY <1>1, <1>2, BoundsAreNat DEF ReadsClock, Times
    <2>2. \A i \in 1 .. Len(checkpoints) :
            checkpoints[i].created \in Int /\ checkpoints[i].created <= clock
      <3>1. \A i \in 1 .. Len(checkpoints) : checkpoints[i] \in Checkpoint
        BY <1>2
      <3> QED
        BY <3>1, BoundsAreNat DEF IInv, DatesAscend, Checkpoint, Times
    <2>3. \A q \in Callers : caller[q].cp # None =>
             caller[q].cp.created \in Int /\ caller[q].cp.created <= clock
      <3>1. \A q \in Callers : caller[q].cp # None => caller[q].cp \in Checkpoint
        BY <1>2 DEF Caller
      <3> QED
        BY <3>1, BoundsAreNat DEF IInv, DatesAscend, Checkpoint, Times
    <2>4. \A i \in 1 .. Len(c.cps) : c.cps[i].created <= now
      <3>1. /\ Len(c.cps) \in Nat /\ Len(checkpoints) \in Nat
            /\ Len(c.cps) <= Len(checkpoints)
        BY <1>2, <1>3, <1>8
      <3> HIDE DEF c
      <3>2. \A i \in 1 .. Len(c.cps) : i \in 1 .. Len(checkpoints)
        BY <3>1
      <3> QED
        BY <1>8, <2>1, <2>2, <3>2
    <2>5. cp.created >= now /\ cp.created <= now
      BY <1>6, <2>4
    <2>6. cp.created = now
      <3>1. cp \in Checkpoint \/ cp = None
        BY <1>7 DEF Typed, TypeOK, Caller
      <3>2. cp # None
        BY <1>5, <1>7, NoneIsNoRecord DEF Typed, HoldsOK
      <3> QED
        BY <2>1, <2>5, <3>1, <3>2, BoundsAreNat DEF Checkpoint, Times
    <2>7. UNCHANGED checkpoints
      BY <1>3 DEF storeVars
    <2>8. \A q \in Callers : caller'[q].cp # None =>
            /\ caller'[q].cp.created <= clock'
            /\ \A i \in 1 .. Len(checkpoints) :
                 checkpoints[i].hash = caller'[q].cp.prev =>
                    caller'[q].cp.created >= checkpoints[i].created
      <3> SUFFICES ASSUME NEW q \in Callers, caller'[q].cp # None
                   PROVE  /\ caller'[q].cp.created <= clock'
                          /\ \A i \in 1 .. Len(checkpoints) :
                               checkpoints[i].hash = caller'[q].cp.prev =>
                                  caller'[q].cp.created >= checkpoints[i].created
        OBVIOUS
      <3>1. CASE q = p
        BY <1>7, <2>1, <2>2, <2>6, <3>1
      <3>2. CASE q # p
        BY <1>7, <2>1, <2>3, <3>2 DEF IInv, DatesAscend
      <3> QED
        BY <3>1, <3>2
    <2> QED
      BY <2>1, <2>2, <2>7, <2>8 DEF IInv, DatesAscend
  <1>13. \A q \in Callers : LoadOK(q)' /\ PendingOK(q)'
    <2> SUFFICES ASSUME NEW q \in Callers, q # p
                 PROVE  LoadOK(q)' /\ PendingOK(q)'
      BY <1>9, <1>10
    <2>1. LoadOK(q) /\ PendingOK(q) /\ caller'[q] = caller[q]
      BY <1>7 DEF IInv
    <2> QED
      BY <1>3, <2>1 DEF LoadOK, PendingOK, storeVars
  <1>14. TablesOK'
    BY <1>3, TablesSame DEF IInv
  <1> QED
    BY <1>11, <1>12, <1>13, <1>14 DEF IInv

-----------------------------------------------------------------------------
(* Committing.                                                             *)

\* What a commit inserts was checked against the tables as they are.
LEMMA Committing ==
    ASSUME IInv, NEW p \in Callers, Commit(p)
    PROVE  LET e == caller[p].event
               cp == caller[p].cp
               n == Len(events)
           IN  /\ e \in NameEvent /\ cp \in Checkpoint
               /\ n \in Nat /\ Len(checkpoints) = n
               /\ events' = Append(events, e)
               /\ checkpoints' = Append(checkpoints, cp)
               /\ Extends(events, n, e)
               /\ cp.size = n + 1
               /\ cp.hash = e.hash
               /\ cp.anchor = None
               /\ cp.root = Root(Append(events, e), n + 1)
               /\ \A i \in 1 .. n : events[i].hash # e.hash
               /\ n = 0 => cp.prev = None /\ cp.opseq = 0
               /\ n > 0 => /\ cp.prev = checkpoints[n].hash
                           /\ Transition(checkpoints[n], cp)
  <1> DEFINE c == caller[p]
             n == Len(events)
  <1>1. /\ c \in Caller /\ LoadOK(p) /\ PendingOK(p) /\ HoldsOK(p)
        /\ events \in Seq(NameEvent) /\ checkpoints \in Seq(Checkpoint)
        /\ Len(checkpoints) = n /\ n \in Nat
    BY DEF IInv, Typed, TypeOK, TablesOK, ChainOK
  <1>2. /\ c.step = "loaded" /\ c.goal = "commit"
        /\ CandidateVerifies(c.evs, c.cps, c.event, c.cp)
        /\ TablesUnchanged(c.evs, c.cps)
        /\ events' = Append(events, c.event)
        /\ checkpoints' = Append(checkpoints, c.cp)
    BY DEF Commit
  <1>3. /\ c.event \in NameEvent /\ c.cp \in Checkpoint
        /\ c.evs \in Seq(NameEvent) /\ c.cps \in Seq(Checkpoint)
    BY <1>1, <1>2 DEF HoldsOK, Caller
  <1>4. c.evs = events
    <2>1. Len(c.evs) = n /\ \A i \in 1 .. Len(c.evs) : c.evs[i] = events[i]
      BY <1>1, <1>2 DEF LoadOK, TablesUnchanged
    <2> QED
      BY <1>1, <1>3, <2>1, SeqEqual
  <1>5. Len(c.cps) = n
        /\ \A i \in 1 .. n : CoreOf(c.cps[i]) = CoreOf(checkpoints[i])
    BY <1>1, <1>2, <1>4 DEF LoadOK
  <1>6. c.cp.hash = c.event.hash /\ c.cp.anchor = None
        /\ \A i \in 1 .. n : events[i].hash # c.event.hash
    BY <1>1, <1>3, NoneIsNoRecord DEF PendingOK
  <1>7. /\ Extends(events, n, c.event) /\ c.cp.size = n + 1
        /\ c.cp.root = Root(Append(events, c.event), n + 1)
    BY <1>2, <1>4 DEF CandidateVerifies
  <1>8. n = 0 => c.cp.prev = None /\ c.cp.opseq = 0
    BY <1>2, <1>3, <1>5 DEF CandidateVerifies, LastHash
  <1>9. ASSUME n > 0
        PROVE  c.cp.prev = checkpoints[n].hash /\ Transition(checkpoints[n], c.cp)
    <2>1. c.cps # <<>> /\ n \in 1 .. n
      BY <1>1, <1>3, <1>5, <1>9
    <2>2. c.cps[n] \in Checkpoint /\ checkpoints[n] \in Checkpoint
      BY <1>1, <1>3, <1>5, <2>1
    <2>3. c.cp.prev = c.cps[n].hash /\ Transition(c.cps[n], c.cp)
      BY <1>2, <1>5, <2>1 DEF CandidateVerifies, LastHash
    <2>4. CoreOf(c.cps[n]) = CoreOf(checkpoints[n])
      BY <1>5, <2>1
    <2> QED
      BY <2>2, <2>3, <2>4, CoreFields, TransitionCore
  <1> QED
    BY <1>1, <1>2, <1>3, <1>6, <1>7, <1>8, <1>9

LEMMA CommitTables ==
    ASSUME IInv, NEW p \in Callers, Commit(p)
    PROVE  TablesOK'
  <1> DEFINE e == caller[p].event
             cp == caller[p].cp
             n == Len(events)
  <1>1. /\ e \in NameEvent /\ cp \in Checkpoint /\ n \in Nat
        /\ Len(checkpoints) = n
        /\ events' = Append(events, e) /\ checkpoints' = Append(checkpoints, cp)
        /\ Extends(events, n, e)
        /\ cp.size = n + 1 /\ cp.hash = e.hash /\ cp.anchor = None
        /\ cp.root = Root(Append(events, e), n + 1)
        /\ \A i \in 1 .. n : events[i].hash # e.hash
        /\ n = 0 => cp.prev = None /\ cp.opseq = 0
        /\ n > 0 => cp.prev = checkpoints[n].hash /\ Transition(checkpoints[n], cp)
    BY Committing
  <1>2. events \in Seq(NameEvent) /\ checkpoints \in Seq(Checkpoint)
        /\ profiles \in [Ids -> Profile \cup {None}]
    BY DEF IInv, Typed, TypeOK
  <1>3. /\ profiles' = [profiles EXCEPT ![e.id] = ProfileOf(e)]
        /\ operatorState' = [operator |-> cp.operator, opseq |-> cp.opseq]
        /\ anchors' = anchors
    BY DEF Commit
  <1>4. TablesOK
    BY DEF IInv
  <1> HIDE DEF e, cp
  <1>5. /\ Len(events') = n + 1 /\ Len(checkpoints') = n + 1
        /\ events'[n + 1] = e /\ checkpoints'[n + 1] = cp
        /\ \A i \in 1 .. n :
             events'[i] = events[i] /\ checkpoints'[i] = checkpoints[i]
    BY <1>1, <1>2
  <1>6. HistoriesReplay(events)'
    <2> SUFFICES ASSUME NEW i \in 1 .. n + 1
                 PROVE  Extends(events', i - 1, events'[i])
      BY <1>5 DEF HistoriesReplay
    <2>1. Extends(events, i - 1, events'[i])
      BY <1>1, <1>4, <1>5 DEF TablesOK, HistoriesReplay
    <2>2. i - 1 \in 0 .. Len(events)
      BY <1>1
    <2> QED
      BY <1>1, <1>2, <2>1, <2>2, PrefixSame
  <1>7. ChainOK'
    <2> SUFFICES ASSUME NEW i \in 1 .. n + 1
                 PROVE  /\ checkpoints'[i].size = i
                        /\ checkpoints'[i].hash = events'[i].hash
                        /\ checkpoints'[i].root = Root(events', i)
                        /\ i = 1 => /\ checkpoints'[i].prev = None
                                    /\ checkpoints'[i].opseq = 0
                        /\ i > 1 => /\ checkpoints'[i].prev = checkpoints'[i - 1].hash
                                    /\ Transition(checkpoints'[i - 1], checkpoints'[i])
                        /\ checkpoints'[i].anchor \in {None, checkpoints'[i].hash}
      BY <1>5 DEF ChainOK
    <2>1. CASE i \in 1 .. n
      <3>1. Root(events', i) = Root(events, i)
        BY <1>1, <1>2, <2>1, PrefixSame
      <3>2. i > 1 => i - 1 \in 1 .. n
        BY <1>1, <2>1
      <3> QED
        BY <1>4, <1>5, <2>1, <3>1, <3>2, ZenonT(40) DEF TablesOK, ChainOK
    <2>2. CASE i = n + 1
      BY <1>1, <1>5, <2>2
    <2> QED
      BY <1>1, <2>1, <2>2
  <1>8. HashesUnique'
    BY <1>1, <1>4, <1>5 DEF TablesOK, HashesUnique
  <1>9. RevokedIsLast'
    <2> SUFFICES ASSUME NEW i \in 1 .. n + 1, NEW j \in 1 .. n + 1,
                        i < j, events'[i].id = events'[j].id
                 PROVE  events'[i].action # "Revoke"
      BY <1>5 DEF RevokedIsLast
    <2>1. CASE j \in 1 .. n
      BY <1>1, <1>4, <1>5, <2>1 DEF TablesOK, RevokedIsLast
    <2>2. CASE j = n + 1
      <3>1. i \in 1 .. n /\ events[i].id = e.id
        BY <1>1, <1>5, <2>2
      <3>2. PICK k \in 1 .. n : IsHead(events, n, e.id, k) /\ Successor(events[k], e)
        BY <1>1, <3>1 DEF Extends, NoHistory
      <3>3. CASE k = i
        BY <1>5, <3>1, <3>2, <3>3 DEF Successor
      <3>4. CASE k # i
        <4>1. i < k
          BY <1>1, <3>1, <3>2, <3>4 DEF IsHead
        <4> QED
          BY <1>1, <1>4, <1>5, <3>1, <3>2, <4>1 DEF TablesOK, RevokedIsLast, IsHead
      <3> QED
        BY <3>3, <3>4
    <2> QED
      BY <1>1, <2>1, <2>2
  <1>10. ProfilesAlign'
    <2> SUFFICES ASSUME NEW id \in Ids
                 PROVE  Aligned(profiles'[id], events', id)
      BY DEF ProfilesAlign
    <2>1. CASE id = e.id
      <3>1. IsHead(events', n + 1, id, n + 1)
        BY <1>1, <1>2, <2>1, AppendedHead
      <3>2. profiles'[id] = ProfileOf(events'[n + 1])
        BY <1>2, <1>3, <1>5, <2>1
      <3> QED
        BY <1>1, <1>5, <3>1, <3>2 DEF Aligned
    <2>2. CASE id # e.id
      <3>1. profiles'[id] = profiles[id] /\ Aligned(profiles[id], events, id)
        BY <1>2, <1>3, <1>4, <2>2 DEF TablesOK, ProfilesAlign
      <3>2. CASE NoHistory(events, n, id) /\ profiles[id] = None
        BY <1>1, <1>2, <1>5, <2>2, <3>1, <3>2, AppendedHead DEF Aligned
      <3>3. ASSUME NEW i \in 1 .. n, IsHead(events, n, id, i),
                   profiles[id] = ProfileOf(events[i])
            PROVE  Aligned(profiles'[id], events', id)
        <4>1. IsHead(events', n + 1, id, i)
          BY <1>1, <1>2, <2>2, <3>3, AppendedHead
        <4>2. i \in 1 .. n + 1 /\ events'[i] = events[i]
          BY <1>1, <1>5
        <4> QED
          BY <1>5, <3>1, <3>3, <4>1, <4>2 DEF Aligned
      <3> QED
        BY <3>1, <3>2, <3>3 DEF Aligned
    <2> QED
      BY <2>1, <2>2
  <1>11. OperatorStateOK'
    BY <1>1, <1>3, <1>5 DEF OperatorStateOK
  <1>12. AnchorsHold'
    <2> SUFFICES ASSUME NEW a \in anchors
                 PROVE  \E i \in DOMAIN checkpoints' : /\ checkpoints'[i].hash = a
                                                       /\ checkpoints'[i].anchor # None
      BY <1>3 DEF AnchorsHold
    <2>1. PICK i \in 1 .. n : checkpoints[i].hash = a /\ checkpoints[i].anchor # None
      BY <1>1, <1>2, <1>4 DEF TablesOK, AnchorsHold
    <2>2. i \in DOMAIN checkpoints' /\ checkpoints'[i] = checkpoints[i]
      BY <1>1, <1>2, <1>5
    <2> QED
      BY <2>1, <2>2
  <1> QED
    BY <1>6, <1>7, <1>8, <1>9, <1>10, <1>11, <1>12 DEF TablesOK

LEMMA CommitKeeps ==
    ASSUME IInv, Typed', NEW p \in Callers, Commit(p)
    PROVE  IInv'
  <1> DEFINE e == caller[p].event
             cp == caller[p].cp
             n == Len(events)
  <1>1. /\ e \in NameEvent /\ cp \in Checkpoint /\ n \in Nat
        /\ Len(checkpoints) = n
        /\ events' = Append(events, e) /\ checkpoints' = Append(checkpoints, cp)
        /\ cp.hash = e.hash
        /\ \A i \in 1 .. n : events[i].hash # e.hash
        /\ n > 0 => cp.prev = checkpoints[n].hash
    BY Committing
  <1>2. /\ events \in Seq(NameEvent) /\ checkpoints \in Seq(Checkpoint)
        /\ caller \in [Callers -> Caller]
    BY DEF IInv, Typed, TypeOK
  <1>3. /\ \A q \in Callers : q # p => caller'[q] = caller[q]
        /\ caller'[p] = Idle /\ clock' = clock
        /\ caller[p].event # None /\ caller[p].cp # None
    BY <1>1, <1>2, NoneIsNoRecord DEF Commit
  <1> HIDE DEF e, cp
  <1>4. /\ Len(events') = n + 1 /\ Len(checkpoints') = n + 1
        /\ events'[n + 1] = e /\ checkpoints'[n + 1] = cp
        /\ \A i \in 1 .. n : /\ events'[i] = events[i]
                             /\ checkpoints'[i] = checkpoints[i]
    BY <1>1, <1>2
  <1>5. LoadOK(p)' /\ PendingOK(p)'
    BY <1>3, IdleLoadPending DEF Idle
  <1>6. ASSUME NEW q \in Callers, q # p
        PROVE  LoadOK(q)' /\ PendingOK(q)'
    <2>1. LoadOK(q) /\ PendingOK(q) /\ caller'[q] = caller[q]
          /\ caller[q] \in Caller
      BY <1>2, <1>3, <1>6 DEF IInv
    <2>2. LoadOK(q)'
      <3>1. Len(caller[q].evs) \in Nat /\ Len(caller[q].evs) <= n
        BY <2>1 DEF LoadOK, Caller
      <3>2. \A i \in 1 .. Len(caller[q].evs) : caller[q].evs[i] = events'[i]
        BY <1>1, <1>4, <2>1, <3>1 DEF LoadOK
      <3>3. caller[q].step \in {"profiles", "loaded"} =>
              /\ Len(caller[q].cps) = Len(caller[q].evs)
              /\ \A i \in 1 .. Len(caller[q].cps) :
                   CoreOf(caller[q].cps[i]) = CoreOf(checkpoints'[i])
        BY <1>1, <1>4, <2>1, <3>1 DEF LoadOK
      <3> QED
        BY <1>1, <1>4, <2>1, <3>1, <3>2, <3>3 DEF LoadOK
    <2>3. ASSUME caller[q].event # None
          PROVE  \A i \in 1 .. n + 1 : events'[i].hash # caller[q].event.hash
      <3>1. e.hash # caller[q].event.hash
        BY <1>3, <1>6, <2>3 DEF e, IInv, PendingUnique
      <3> QED
        BY <1>1, <1>4, <2>1, <2>3, <3>1 DEF PendingOK
    <2>4. \A i \in 1 .. n : i \in 1 .. n + 1 /\ events'[i] = events[i]
      BY <1>1, <1>4
    <2>5. ProfileBefore(caller[q].existing, events, caller[q].event)
          => ProfileBefore(caller[q].existing, events', caller[q].event)
      BY <1>1, <1>4, <2>4 DEF ProfileBefore
    <2> QED
      BY <1>4, <2>1, <2>2, <2>3, <2>4, <2>5 DEF PendingOK
  <1>7. PendingUnique'
    BY <1>3 DEF IInv, PendingUnique, Idle
  <1>8. DatesAscend'
    <2> SUFFICES ASSUME ~ ClockMayStepBack
                 PROVE  DatesAscend'
      BY DEF DatesAscend
    <2>1. /\ cp.created <= clock
          /\ \A i \in 1 .. n : checkpoints[i].hash = cp.prev =>
                                 cp.created >= checkpoints[i].created
      BY <1>1, <1>3 DEF cp, IInv, DatesAscend
    <2>2. \A i \in 1 .. n + 1 :
            /\ checkpoints'[i].created <= clock
            /\ i > 1 => checkpoints'[i].created >= checkpoints'[i - 1].created
      <3> SUFFICES ASSUME NEW i \in 1 .. n + 1
                   PROVE  /\ checkpoints'[i].created <= clock
                          /\ i > 1 => checkpoints'[i].created
                                        >= checkpoints'[i - 1].created
        OBVIOUS
      <3>1. CASE i \in 1 .. n
        <4>1. i > 1 => i - 1 \in 1 .. n
          BY <1>1, <3>1
        <4> QED
          BY <1>1, <1>4, <3>1, <4>1 DEF IInv, DatesAscend
      <3>2. CASE i = n + 1
        <4>1. i > 1 => n \in 1 .. n /\ i - 1 = n
          BY <1>1, <3>2
        <4> QED
          BY <1>1, <1>4, <2>1, <3>2, <4>1
      <3> QED
        BY <1>1, <3>1, <3>2
    <2>3. ASSUME NEW q \in Callers, caller'[q].cp # None
          PROVE  /\ caller'[q].cp.created <= clock
                 /\ \A i \in 1 .. n + 1 :
                      checkpoints'[i].hash = caller'[q].cp.prev =>
                         caller'[q].cp.created >= checkpoints'[i].created
      <3>1. q # p /\ caller'[q] = caller[q]
        BY <1>3, <2>3 DEF Idle
      <3>2. cp.hash # caller[q].cp.prev
        <4>1. caller[q].event # None /\ PendingOK(q)
          BY <2>3, <3>1 DEF IInv, Typed, HoldsOK
        <4>2. e.hash # None
          BY <1>1, NoneIsNothing DEF NameEvent
        <4> QED
          BY <1>1, <4>1, <4>2 DEF PendingOK
      <3>3. \A i \in 1 .. n : checkpoints[i].hash = caller[q].cp.prev =>
               caller[q].cp.created >= checkpoints[i].created
        BY <1>1, <2>3, <3>1 DEF IInv, DatesAscend
      <3>4. caller[q].cp.created <= clock
        BY <2>3, <3>1 DEF IInv, DatesAscend
      <3> QED
        BY <1>1, <1>4, <3>1, <3>2, <3>3, <3>4
    <2> QED
      BY <1>3, <1>4, <2>2, <2>3 DEF DatesAscend
  <1>9. TablesOK'
    BY CommitTables
  <1> QED
    BY <1>5, <1>6, <1>7, <1>8, <1>9 DEF IInv

-----------------------------------------------------------------------------
(* Anchoring.                                                              *)

\* Only the anchor of the latest checkpoint changes.
LEMMA Anchoring ==
    ASSUME IInv, NEW p \in Callers, ReplaceLatestCheckpoint(p)
    PROVE  LET n == Len(checkpoints)
               old == checkpoints[n]
           IN  /\ n \in Nat /\ n > 0
               /\ Len(checkpoints') = n
               /\ \A i \in 1 .. n : i # n => checkpoints'[i] = checkpoints[i]
               /\ checkpoints'[n] \in Checkpoint /\ old \in Checkpoint
               /\ CoreOf(checkpoints'[n]) = CoreOf(old)
               /\ checkpoints'[n].anchor = old.hash
               /\ anchors' = anchors \cup {old.hash}
  <1> DEFINE c == caller[p]
             n == Len(checkpoints)
             latest == c.cps[Len(c.cps)]
             new == [latest EXCEPT !.anchor = latest.hash]
  <1>1. /\ c \in Caller /\ LoadOK(p) /\ events \in Seq(NameEvent)
        /\ checkpoints \in Seq(Checkpoint) /\ Len(events) = n /\ n \in Nat
    BY DEF IInv, Typed, TypeOK, TablesOK, ChainOK
  <1>2. /\ c.step = "loaded" /\ c.cps # <<>> /\ checkpoints # <<>>
        /\ checkpoints[n].hash = latest.hash
        /\ checkpoints' = [checkpoints EXCEPT ![n] = new]
        /\ anchors' = anchors \cup {latest.hash}
    BY DEF ReplaceLatestCheckpoint, StillLatest, LastHash
  <1>3. c.cps \in Seq(Checkpoint) /\ c.evs \in Seq(NameEvent)
    BY <1>1 DEF Caller
  <1> DEFINE m == Len(c.cps)
  <1>4. m \in 1 .. n /\ CoreOf(latest) = CoreOf(checkpoints[m])
    <2>1. m = Len(c.evs) /\ Len(c.evs) <= n
          /\ \A i \in 1 .. m : CoreOf(c.cps[i]) = CoreOf(checkpoints[i])
      BY <1>1, <1>2 DEF LoadOK
    <2>2. m \in Nat /\ m > 0
      BY <1>2, <1>3
    <2> QED
      BY <1>1, <2>1, <2>2
  <1>5. latest \in Checkpoint /\ checkpoints[m] \in Checkpoint
        /\ checkpoints[n] \in Checkpoint /\ n > 0
    BY <1>1, <1>2, <1>3, <1>4
  <1>6. m = n
    <2>1. checkpoints[m].hash = checkpoints[n].hash
      BY <1>2, <1>4, <1>5, CoreFields
    <2>2. checkpoints[m].hash = events[m].hash /\ checkpoints[n].hash = events[n].hash
      BY <1>1, <1>4, <1>5 DEF IInv, TablesOK, ChainOK
    <2>3. HashesUnique
      BY DEF IInv, TablesOK
    <2>4. m \in 1 .. Len(events) /\ n \in 1 .. Len(events)
      BY <1>1, <1>4, <1>5
    <2>5. events[m].hash = events[n].hash
      BY <2>1, <2>2
    <2> HIDE DEF m, n
    <2> QED
      BY <2>3, <2>4, <2>5 DEF HashesUnique
  <1> HIDE DEF m
  <1>7. new \in Checkpoint /\ CoreOf(new) = CoreOf(latest) /\ new.anchor = latest.hash
    BY <1>5 DEF Checkpoint, CoreOf
  <1> HIDE DEF new, latest
  <1>8. /\ Len(checkpoints') = n /\ checkpoints'[n] = new
        /\ \A i \in 1 .. n : i # n => checkpoints'[i] = checkpoints[i]
    BY <1>1, <1>2, <1>5, <1>7
  <1> QED
    BY <1>1, <1>2, <1>4, <1>5, <1>6, <1>7, <1>8

LEMMA AnchorKeeps ==
    ASSUME IInv, Typed', NEW p \in Callers, ReplaceLatestCheckpoint(p)
    PROVE  IInv'
  <1> DEFINE n == Len(checkpoints)
  <1>1. /\ n \in Nat /\ n > 0 /\ Len(checkpoints') = n
        /\ \A i \in 1 .. n : i # n => checkpoints'[i] = checkpoints[i]
        /\ checkpoints'[n] \in Checkpoint /\ checkpoints[n] \in Checkpoint
        /\ CoreOf(checkpoints'[n]) = CoreOf(checkpoints[n])
        /\ checkpoints'[n].anchor = checkpoints[n].hash
        /\ anchors' = anchors \cup {checkpoints[n].hash}
    BY Anchoring
  <1>2. /\ events \in Seq(NameEvent) /\ checkpoints \in Seq(Checkpoint)
        /\ caller \in [Callers -> Caller]
        /\ checkpoints' \in Seq(Checkpoint)
    BY DEF IInv, Typed, TypeOK
  <1>3. /\ UNCHANGED <<events, profiles, operatorState, clock>>
        /\ \A q \in Callers : q # p => caller'[q] = caller[q]
        /\ caller'[p] = Idle
    BY <1>2 DEF ReplaceLatestCheckpoint
  <1>4. \A i \in 1 .. n :
          /\ checkpoints[i] \in Checkpoint /\ checkpoints'[i] \in Checkpoint
          /\ CoreOf(checkpoints'[i]) = CoreOf(checkpoints[i])
    BY <1>1, <1>2
  <1>5. \A i \in 1 .. n :
          /\ checkpoints'[i].size = checkpoints[i].size
          /\ checkpoints'[i].root = checkpoints[i].root
          /\ checkpoints'[i].prev = checkpoints[i].prev
          /\ checkpoints'[i].created = checkpoints[i].created
          /\ checkpoints'[i].operator = checkpoints[i].operator
          /\ checkpoints'[i].opseq = checkpoints[i].opseq
          /\ checkpoints'[i].hash = checkpoints[i].hash
    BY <1>4, CoreFields
  <1>6. ChainOK'
    <2> SUFFICES ASSUME NEW i \in 1 .. n
                 PROVE  /\ checkpoints'[i].size = i
                        /\ checkpoints'[i].hash = events[i].hash
                        /\ checkpoints'[i].root = Root(events, i)
                        /\ i = 1 => /\ checkpoints'[i].prev = None
                                    /\ checkpoints'[i].opseq = 0
                        /\ i > 1 => /\ checkpoints'[i].prev = checkpoints'[i - 1].hash
                                    /\ Transition(checkpoints'[i - 1], checkpoints'[i])
                        /\ checkpoints'[i].anchor \in {None, checkpoints'[i].hash}
      BY <1>1, <1>3 DEF ChainOK, IInv, TablesOK
    <2>1. i > 1 => i - 1 \in 1 .. n
      BY <1>1
    <2>2. i > 1 => (Transition(checkpoints[i - 1], checkpoints[i])
                     <=> Transition(checkpoints'[i - 1], checkpoints'[i]))
      BY <1>4, <2>1, TransitionCore
    <2>3. checkpoints'[i].anchor \in {None, checkpoints'[i].hash}
      BY <1>1, <1>5 DEF IInv, TablesOK, ChainOK
    <2> QED
      BY <1>5, <2>1, <2>2, <2>3 DEF IInv, TablesOK, ChainOK
  <1>7. AnchorsHold'
    <2> SUFFICES ASSUME NEW a \in anchors'
                 PROVE  \E i \in DOMAIN checkpoints' : /\ checkpoints'[i].hash = a
                                                       /\ checkpoints'[i].anchor # None
      BY DEF AnchorsHold
    <2>1. DOMAIN checkpoints' = 1 .. n /\ DOMAIN checkpoints = 1 .. n
      BY <1>1, <1>2
    <2>2. checkpoints[n].hash # None
      BY <1>1, NoneIsNothing DEF Checkpoint
    <2>3. CASE a = checkpoints[n].hash
      <3>1. n \in 1 .. n
        BY <1>1
      <3>2. checkpoints'[n].hash = a /\ checkpoints'[n].anchor # None
        BY <1>1, <1>5, <2>2, <2>3, <3>1, SMTT(30)
      <3> HIDE DEF n
      <3> QED
        BY <2>1, <3>1, <3>2
    <2>4. CASE a \in anchors
      <3>1. PICK i \in 1 .. n : /\ checkpoints[i].hash = a
                                /\ checkpoints[i].anchor # None
        BY <2>1, <2>4 DEF IInv, TablesOK, AnchorsHold
      <3> QED
        BY <1>1, <1>5, <2>1, <2>2, <3>1
    <2> QED
      BY <1>1, <2>3, <2>4
  <1>8. OperatorStateOK'
    BY <1>1, <1>3, <1>5 DEF IInv, TablesOK, OperatorStateOK
  <1>9. TablesOK'
    BY <1>3, <1>6, <1>7, <1>8
       DEF IInv, TablesOK, HashesUnique, RevokedIsLast, ProfilesAlign
  <1>10. LoadOK(p)' /\ PendingOK(p)'
    BY <1>3, IdleLoadPending DEF Idle
  <1>11. ASSUME NEW q \in Callers, q # p
         PROVE  LoadOK(q)' /\ PendingOK(q)'
    <2>1. LoadOK(q) /\ PendingOK(q) /\ caller'[q] = caller[q]
          /\ caller[q] \in Caller
      BY <1>2, <1>3, <1>11 DEF IInv
    <2>2. caller[q].step \in {"profiles", "loaded"} =>
             \A i \in 1 .. Len(caller[q].cps) : i \in 1 .. n
      <3>1. n = Len(events) /\ Len(caller[q].evs) \in Nat
        BY <2>1 DEF IInv, TablesOK, ChainOK, Caller
      <3> QED
        BY <1>1, <2>1, <3>1 DEF LoadOK
    <2>3. LoadOK(q)'
      BY <1>3, <1>4, <2>1, <2>2 DEF LoadOK
    <2> QED
      BY <1>3, <2>1, <2>3 DEF PendingOK
  <1>12. PendingUnique'
    BY <1>3 DEF IInv, PendingUnique, Idle
  <1>13. DatesAscend'
    <2> SUFFICES ASSUME ~ ClockMayStepBack
                 PROVE  DatesAscend'
      BY DEF DatesAscend
    <2>1. \A i \in 1 .. n : i > 1 => i - 1 \in 1 .. n
      BY <1>1
    <2>2. \A q \in Callers : caller'[q].cp # None => caller'[q] = caller[q]
      BY <1>3 DEF Idle
    <2> QED
      BY <1>1, <1>3, <1>5, <2>1, <2>2, SMTT(30) DEF IInv, DatesAscend
  <1> QED
    BY <1>9, <1>10, <1>11, <1>12, <1>13 DEF IInv

-----------------------------------------------------------------------------
(* The invariant holds.                                                    *)

LEMMA InitIInv == Init => IInv
  <1> SUFFICES ASSUME Init
               PROVE  IInv
    OBVIOUS
  <1>1. Typed
    BY InitTyped
  <1>2. /\ events = <<>> /\ checkpoints = <<>> /\ anchors = {}
        /\ \A id \in Ids : profiles[id] = None
        /\ \A p \in Callers : caller[p] = Idle
    BY DEF Init
  <1>3. TablesOK
    BY <1>2 DEF TablesOK, HistoriesReplay, ChainOK, HashesUnique, RevokedIsLast,
                ProfilesAlign, Aligned, NoHistory, OperatorStateOK, AnchorsHold
  <1>4. \A p \in Callers : LoadOK(p) /\ PendingOK(p)
    BY <1>2 DEF Idle, LoadOK, PendingOK
  <1>5. PendingUnique /\ DatesAscend
    BY <1>2 DEF Idle, PendingUnique, DatesAscend
  <1> QED
    BY <1>1, <1>3, <1>4, <1>5 DEF IInv

LEMMA NextIInv == IInv /\ [Next]_vars => IInv'
  <1> SUFFICES ASSUME IInv, [Next]_vars
               PROVE  IInv'
    OBVIOUS
  <1>1. Typed'
    BY NextTyped DEF IInv
  <1>2. ASSUME NEW p \in Callers, CallerStep(p)
        PROVE  IInv'
    <2>1. CASE Prepare(p)
      BY <1>1, <2>1, PrepareKeeps
    <2>2. CASE Commit(p)
      BY <1>1, <2>2, CommitKeeps
    <2>3. CASE ReplaceLatestCheckpoint(p)
      BY <1>1, <2>3, AnchorKeeps
    <2>4. CASE \/ \E id \in Ids : BeginWrite(p, id)
               \/ BeginAnchor(p)
               \/ ReadEvents(p)
               \/ ReadCheckpoints(p)
               \/ ReadProfiles(p)
               \/ Fail(p)
      BY <1>1, <2>4, ReadsKeep
    <2> QED
      BY <1>2, <2>1, <2>2, <2>3, <2>4 DEF CallerStep
  <1>3. CASE UNCHANGED vars
    <2>1. TablesOK'
      BY <1>3, TablesSame DEF IInv, vars, storeVars
    <2> QED
      BY <1>1, <1>3, <2>1
         DEF IInv, vars, LoadOK, PendingOK, PendingUnique, DatesAscend
  <1> QED
    BY <1>2, <1>3 DEF Next

\* The parts of IInv hold together in every reachable state, with any callers
\* interleaved in any way.
THEOREM InductiveInvariant == Spec => []IInv
  BY InitIInv, NextIInv, PTL DEF Spec

-----------------------------------------------------------------------------
(* What follows from it.                                                   *)

\* Every table and everything a caller holds is of its type.
THEOREM TypeCorrectness == Spec => []TypeOK
  <1>1. IInv => TypeOK
    BY DEF IInv, Typed
  <1> QED
    BY <1>1, InductiveInvariant, PTL

\* As long as nobody sets the clock back, no interleaving of writers, anchors
\* and failures leaves tables that an open or a load would refuse.
THEOREM StoreNeverBricked == ~ ClockMayStepBack => (Spec => []StoreReplays)
  <1> SUFFICES ASSUME ~ ClockMayStepBack
               PROVE  Spec => []StoreReplays
    OBVIOUS
  <1>1. IInv => StoreReplays
    <2> SUFFICES ASSUME IInv
                 PROVE  StoreReplays
      OBVIOUS
    <2>1. ChainOK /\ HistoriesReplay(events) /\ ProfilesAlign /\ DatesAscend
      BY DEF IInv, TablesOK
    <2>2. events \in Seq(NameEvent) /\ checkpoints \in Seq(Checkpoint)
      BY DEF IInv, Typed, TypeOK
    <2>3. ASSUME NEW i \in DOMAIN checkpoints
          PROVE  CheckpointReplays(events, checkpoints, i)
      <3>1. /\ i \in 1 .. Len(checkpoints) /\ i \in 1 .. Len(events)
            /\ \A j \in 1 .. i - 1 : j \in 1 .. Len(checkpoints) /\ j # i
        BY <2>1, <2>2 DEF ChainOK
      <3>2. i > 1 => checkpoints[i].created >= checkpoints[i - 1].created
        BY <2>1, <3>1 DEF DatesAscend
      <3> QED
        BY <2>1, <3>1, <3>2 DEF CheckpointReplays, ChainOK
    <2>4. ProfilesMatch(events, profiles)
      BY <2>1 DEF ProfilesAlign, Aligned, ProfilesMatch
    <2> QED
      BY <2>1, <2>3, <2>4 DEF StoreReplays, Replays
  <1> QED
    BY <1>1, InductiveInvariant, PTL

\* Neither events, checkpoints, profiles nor the operator row advance alone.
THEOREM NoTableAdvancesAlone == Spec => []TablesAdvanceTogether
  <1>1. IInv => TablesAdvanceTogether
    BY DEF IInv, TablesOK, ChainOK, ProfilesAlign, OperatorStateOK,
           TablesAdvanceTogether
  <1> QED
    BY <1>1, InductiveInvariant, PTL

\* No receipt is lost, and none belongs to a checkpoint of another chain.
THEOREM ReceiptsKept == Spec => []AnchorsHold
  <1>1. IInv => AnchorsHold
    BY DEF IInv, TablesOK
  <1> QED
    BY <1>1, InductiveInvariant, PTL

\* The predecessor of an event is the head of its name among earlier events.
LEMMA PredecessorIsHead ==
    ASSUME IInv, NEW j \in 1 .. Len(events)
    PROVE  \/ /\ NoHistory(events, j - 1, events[j].id)
              /\ events[j].prev = None
           \/ \E k \in 1 .. j - 1 : /\ IsHead(events, j - 1, events[j].id, k)
                                    /\ events[j].prev = events[k].hash
                                    /\ events[j].prev # None
  <1>1. Extends(events, j - 1, events[j])
    BY DEF IInv, TablesOK, HistoriesReplay
  <1>2. CASE NoHistory(events, j - 1, events[j].id) /\ Genesis(events[j])
    BY <1>2 DEF Genesis
  <1>3. ASSUME NEW k \in 1 .. j - 1, IsHead(events, j - 1, events[j].id, k),
               Successor(events[k], events[j])
        PROVE  events[j].prev = events[k].hash /\ events[j].prev # None
    <2>1. events \in Seq(NameEvent)
      BY DEF IInv, Typed, TypeOK
    <2>2. events[k] \in NameEvent
      BY <2>1
    <2>3. events[k].hash \in Hashes
      BY <2>2 DEF NameEvent
    <2> QED
      BY <1>3, <2>3, NoneIsNothing DEF Successor
  <1> QED
    BY <1>1, <1>2, <1>3 DEF Extends

LEMMA LaterSuccessor ==
    ASSUME IInv, NEW i \in 1 .. Len(events), NEW j \in 1 .. Len(events),
           i < j, events[i].id = events[j].id
    PROVE  events[i].prev # events[j].prev
  <1> SUFFICES ASSUME events[i].prev = events[j].prev
               PROVE  FALSE
    OBVIOUS
  <1>1. Len(events) \in Nat
    BY DEF IInv, Typed, TypeOK
  <1>2. ~ NoHistory(events, j - 1, events[j].id)
    BY <1>1 DEF NoHistory
  <1>3. PICK k \in 1 .. j - 1 : /\ IsHead(events, j - 1, events[j].id, k)
                                /\ events[j].prev = events[k].hash
                                /\ events[j].prev # None
    BY <1>2, PredecessorIsHead
  <1>4. PICK m \in 1 .. i - 1 : events[i].prev = events[m].hash
    BY <1>3, PredecessorIsHead
  <1>5. i <= k
    BY <1>1, <1>3 DEF IsHead
  <1>6. events[m].hash = events[k].hash
    BY <1>3, <1>4
  <1>7. m \in 1 .. Len(events) /\ k \in 1 .. Len(events)
    BY <1>1
  <1>8. m = k
    BY <1>6, <1>7 DEF IInv, TablesOK, HashesUnique
  <1> QED
    BY <1>1, <1>5, <1>8

\* However many writers race for a name, one succeeds at each of its heads.
THEOREM OneWriterWins == Spec => []OneSuccessorPerHead
  <1>1. IInv => OneSuccessorPerHead
    <2> SUFFICES ASSUME IInv, NEW i \in DOMAIN events, NEW j \in DOMAIN events,
                        i # j, events[i].id = events[j].id
                 PROVE  events[i].prev # events[j].prev
      BY DEF OneSuccessorPerHead
    <2>1. i \in 1 .. Len(events) /\ j \in 1 .. Len(events) /\ Len(events) \in Nat
      BY SMTT(30) DEF IInv, Typed, TypeOK
    <2>2. i < j \/ j < i
      BY <2>1
    <2> QED
      BY <2>1, <2>2, LaterSuccessor
  <1> QED
    BY <1>1, InductiveInvariant, PTL

-----------------------------------------------------------------------------
(* What a step may not do.                                                 *)

\* Events and checkpoints, once stored, are there for ever.
THEOREM LogIsAppendOnly == Spec => AppendOnly
  <1>1. IInv /\ [Next]_vars => [Extended]_vars
    <2> SUFFICES ASSUME IInv, Next
                 PROVE  Extended
      OBVIOUS
    <2>1. PICK p \in Callers : CallerStep(p)
      BY DEF Next
    <2>2. events \in Seq(NameEvent) /\ checkpoints \in Seq(Checkpoint)
      BY DEF IInv, Typed, TypeOK
    <2>3. CASE Commit(p)
      BY <2>2, <2>3 DEF Commit, Extended
    <2>4. CASE ReplaceLatestCheckpoint(p)
      <3>1. events' = events
        BY <2>4 DEF ReplaceLatestCheckpoint
      <3>2. /\ \A i \in 1 .. Len(checkpoints) :
                 CoreOf(checkpoints'[i]) = CoreOf(checkpoints[i])
            /\ Len(checkpoints') = Len(checkpoints)
        BY <2>4, Anchoring
      <3>3. DOMAIN checkpoints' = DOMAIN checkpoints
        BY <2>2, <2>4 DEF ReplaceLatestCheckpoint
      <3> QED
        BY <2>2, <3>1, <3>2, <3>3 DEF Extended
    <2>5. CASE UNCHANGED storeVars
      BY <2>5 DEF storeVars, Extended
    <2> QED
      BY <2>1, <2>3, <2>4, <2>5
         DEF CallerStep, BeginWrite, BeginAnchor, ReadEvents, ReadCheckpoints,
             ReadProfiles, Prepare, Fail
  <1> QED
    BY <1>1, InductiveInvariant, PTL DEF Spec, AppendOnly

\* Profiles read last vouch for the events read first: had a commit come in
\* between, the profile it wrote would match no event that was read.
LEMMA LoadCurrent ==
    ASSUME IInv, NEW p \in Callers, ReadProfiles(p)
    PROVE  LoadedIsCurrent(p)
  <1> DEFINE evs == caller[p].evs
             n == Len(events)
  <1>1. /\ evs \in Seq(NameEvent) /\ events \in Seq(NameEvent) /\ n \in Nat
        /\ checkpoints \in Seq(Checkpoint) /\ Len(evs) \in Nat
        /\ LoadOK(p) /\ Len(checkpoints) = n /\ HashesUnique /\ ProfilesAlign
    BY DEF IInv, Typed, TypeOK, Caller, TablesOK, ChainOK
  <1>2. caller[p].step = "profiles" /\ ProfilesMatch(evs, profiles)
    BY DEF ReadProfiles
  <1>3. Len(evs) = n
    <2> SUFFICES ASSUME Len(evs) < n
                 PROVE  FALSE
      BY <1>1 DEF LoadOK
    <2> DEFINE id == events[n].id
    <2>1. n \in 1 .. n /\ ~ NoHistory(events, n, id)
      BY <1>1 DEF NoHistory
    <2>2. id \in Ids
      <3>1. events[n] \in NameEvent
        BY <1>1, <2>1
      <3> QED
        BY <3>1 DEF NameEvent
    <2>3. PICK k \in 1 .. n : /\ IsHead(events, n, id, k)
                              /\ profiles[id] = ProfileOf(events[k])
      BY <1>1, <2>1, <2>2 DEF ProfilesAlign, Aligned
    <2>4. k = n
      BY <1>1, <2>3 DEF IsHead
    <2>5. profiles[id] # None
      <3>1. events[n] \in NameEvent
        BY <1>1, <2>1
      <3>2. ProfileOf(events[n]) \in Profile
        BY <3>1 DEF NameEvent, ProfileOf, Profile
      <3> QED
        BY <2>3, <2>4, <3>2, NoneIsNoRecord
    <2>6. PICK i \in 1 .. Len(evs) : profiles[id] = ProfileOf(evs[i])
      BY <1>2, <2>2, <2>5 DEF ProfilesMatch
    <2>7. evs[i] = events[i] /\ i \in 1 .. n
      BY <1>1 DEF LoadOK
    <2>8. events[i].hash = events[n].hash
      BY <2>3, <2>4, <2>6, <2>7 DEF ProfileOf
    <2>9. i = n
      BY <1>1, <2>1, <2>7, <2>8 DEF HashesUnique
    <2> QED
      BY <1>1, <2>9
  <1>4. evs = events
    BY <1>1, <1>3, SeqEqual DEF LoadOK
  <1>5. /\ Len(caller[p].cps) = Len(checkpoints)
        /\ \A i \in 1 .. Len(checkpoints) :
             CoreOf(caller[p].cps[i]) = CoreOf(checkpoints[i])
    BY <1>1, <1>2, <1>3 DEF LoadOK
  <1> QED
    BY <1>1, <1>4, <1>5 DEF LoadedIsCurrent

\* The three reads of a load, which are no transaction, cannot be told from
\* one: a load that a commit crossed is refused.
THEOREM LoadsAreSnapshots == Spec => LoadIsSnapshot
  <1> DEFINE A == \A p \in Callers : CompletesLoad(p) => LoadedIsCurrent(p)
  <1>1. IInv /\ [Next]_vars => [A]_vars
    <2> SUFFICES ASSUME IInv, Next, NEW p \in Callers, CompletesLoad(p)
                 PROVE  LoadedIsCurrent(p)
      OBVIOUS
    <2>1. PICK q \in Callers : CallerStep(q)
      BY DEF Next
    <2>2. caller \in [Callers -> Caller]
      BY SMTT(30) DEF IInv, Typed, TypeOK
    <2>3. p = q
      BY <2>1, <2>2
         DEF CompletesLoad, CallerStep, BeginWrite, BeginAnchor, ReadEvents,
             ReadCheckpoints, ReadProfiles, Prepare, Commit,
             ReplaceLatestCheckpoint, Fail
    <2>4. caller[p].step = "profiles" /\ caller'[p].step = "loaded"
      BY DEF CompletesLoad
    <2>5. ReadProfiles(p)
      <3>1. ~ Fail(p)
        BY <2>2, <2>4, IdleType DEF Fail
      <3> QED
        BY <2>1, <2>3, <2>4, <3>1
           DEF CallerStep, BeginWrite, BeginAnchor, ReadEvents, ReadCheckpoints,
               Prepare, Commit, ReplaceLatestCheckpoint
    <2> QED
      BY <2>5, LoadCurrent
  <1> QED
    BY <1>1, InductiveInvariant, PTL DEF Spec, LoadIsSnapshot

\* The profile in the table when a commit writes is the one its caller read.
LEMMA CommitOverRead ==
    ASSUME IInv, NEW p \in Callers, Commit(p)
    PROVE  profiles[caller[p].event.id] = caller[p].existing
  <1>1. PICK e : e = caller[p].event
    OBVIOUS
  <1>2. PICK old : old = profiles[e.id]
    OBVIOUS
  <1>3. e \in NameEvent /\ Extends(events, Len(events), e)
    BY <1>1, Committing
  <1>4. events \in Seq(NameEvent) /\ PendingOK(p) /\ HashesUnique /\ ProfilesAlign
        /\ e # None /\ e.id \in Ids
    BY <1>3, NoneIsNoRecord DEF IInv, Typed, TypeOK, TablesOK, NameEvent
  <1>5. Aligned(old, events, e.id)
    BY <1>2, <1>4 DEF ProfilesAlign
  <1>6. ProfileBefore(old, events, e)
    BY <1>3, <1>4, <1>5, AlignedPredecessor
  <1>7. ProfileBefore(caller[p].existing, events, e)
    BY <1>1, <1>4 DEF PendingOK
  <1> QED
    BY <1>1, <1>2, <1>4, <1>6, <1>7 DEF HashesUnique, ProfileBefore

\* No commit overwrites a profile its caller has not seen.
THEOREM NoLostUpdate == Spec => CommitsOverWhatWasRead
  <1> DEFINE A == \A p \in Callers :
                    events' # events /\ caller'[p] # caller[p] =>
                       profiles[caller[p].event.id] = caller[p].existing
  <1>1. IInv /\ [Next]_vars => [A]_vars
    <2> SUFFICES ASSUME IInv, Next, NEW p \in Callers,
                        events' # events, caller'[p] # caller[p]
                 PROVE  profiles[caller[p].event.id] = caller[p].existing
      OBVIOUS
    <2>1. PICK q \in Callers : CallerStep(q)
      BY DEF Next
    <2>2. caller \in [Callers -> Caller]
      BY SMTT(30) DEF IInv, Typed, TypeOK
    <2>3. Commit(q)
      BY <2>1
         DEF CallerStep, BeginWrite, BeginAnchor, ReadEvents, ReadCheckpoints,
             ReadProfiles, Prepare, ReplaceLatestCheckpoint, Fail, storeVars
    <2>4. p = q
      BY <2>2, <2>3 DEF Commit
    <2> QED
      BY <2>3, <2>4, CommitOverRead
  <1> QED
    BY <1>1, InductiveInvariant, PTL DEF Spec, CommitsOverWhatWasRead

-----------------------------------------------------------------------------
(* The store implements the registry of names.                             *)

Bindings == [id \in Ids |-> BindingOf(id)]

\* A commit changes the binding of one name only, and revokes it only by a
\* Revoke event.
LEMMA CommitBinds ==
    ASSUME IInv, NEW p \in Callers, Commit(p), NEW e, e = caller[p].event
    PROVE  /\ e \in NameEvent /\ Extends(events, Len(events), e)
           /\ Revoked(e.id)' <=> (Revoked(e.id) \/ e.action = "Revoke")
           /\ Bindings' = [Bindings EXCEPT ![e.id] =
                             [owner |-> e.key, seq |-> e.seq,
                              revoked |-> Revoked(e.id) \/ e.action = "Revoke"]]
  <1> DEFINE n == Len(events)
  <1>1. /\ e \in NameEvent /\ n \in Nat /\ Extends(events, n, e)
        /\ events' = Append(events, e)
    BY Committing
  <1>2. events \in Seq(NameEvent) /\ profiles \in [Ids -> Profile \cup {None}]
    BY DEF IInv, Typed, TypeOK
  <1>3. profiles' = [profiles EXCEPT ![e.id] = ProfileOf(e)]
    BY DEF Commit
  <1>4. /\ DOMAIN events' = 1 .. n + 1 /\ DOMAIN events = 1 .. n
        /\ events'[n + 1] = e
        /\ \A i \in 1 .. n : events'[i] = events[i]
    BY <1>1, <1>2
  <1>5. \A i \in 1 .. n + 1 : i \in 1 .. n \/ i = n + 1
    BY <1>1
  <1>6. \A i \in 1 .. n : i \in 1 .. n + 1
    BY <1>1
  <1>7. n + 1 \in 1 .. n + 1
    BY <1>1
  <1> HIDE DEF n
  <1>8. Revoked(e.id)' <=> (Revoked(e.id) \/ e.action = "Revoke")
    BY <1>4, <1>5, <1>6, <1>7 DEF Revoked
  <1>9. \A id \in Ids : id # e.id => (Revoked(id)' <=> Revoked(id))
    BY <1>4, <1>5, <1>6, <1>7 DEF Revoked
  <1>10. \A id \in Ids : id # e.id => BindingOf(id)' = BindingOf(id)
    <2> SUFFICES ASSUME NEW id \in Ids, id # e.id
                 PROVE  BindingOf(id)' = BindingOf(id)
      OBVIOUS
    <2>1. profiles'[id] = profiles[id]
      BY <1>2, <1>3
    <2>2. Revoked(id)' = Revoked(id)
      BY <1>9 DEF Revoked
    <2> QED
      BY <2>1, <2>2, Zenon DEF BindingOf
  <1>11. BindingOf(e.id)' = [owner |-> e.key, seq |-> e.seq,
                             revoked |-> Revoked(e.id) \/ e.action = "Revoke"]
    <2>1. e.id \in Ids
      BY <1>1 DEF NameEvent
    <2>2. profiles'[e.id] = ProfileOf(e)
      BY <1>2, <1>3, <2>1
    <2>3. ProfileOf(e) \in Profile /\ ProfileOf(e).key = e.key /\ ProfileOf(e).seq = e.seq
      BY <1>1 DEF ProfileOf, Profile, NameEvent
    <2>4. ProfileOf(e) # None
      BY <2>3, NoneIsNoRecord
    <2>5. Revoked(e.id)' = (Revoked(e.id) \/ e.action = "Revoke")
      BY <1>8 DEF Revoked
    <2> QED
      BY <2>2, <2>3, <2>4, <2>5, Zenon DEF BindingOf
  <1>12. Bindings' = [id \in Ids |-> BindingOf(id)']
    BY DEF Bindings
  <1> HIDE DEF n
  <1> QED
    BY <1>1, <1>8, <1>10, <1>11, <1>12 DEF Bindings, n

LEMMA UnregisteredBinding ==
    ASSUME IInv, NEW id \in Ids, NoHistory(events, Len(events), id)
    PROVE  Bindings[id] = None /\ ~ Revoked(id)
  <1>1. events \in Seq(NameEvent) /\ Len(events) \in Nat
        /\ Aligned(profiles[id], events, id)
    BY DEF IInv, Typed, TypeOK, TablesOK, ProfilesAlign
  <1>2. profiles[id] = None
    BY <1>1 DEF Aligned, NoHistory, IsHead
  <1>3. ~ Revoked(id)
    BY <1>1 DEF Revoked, NoHistory
  <1> QED
    BY <1>2, <1>3 DEF Bindings, BindingOf

\* A name whose head is no revocation is bound to the head's key.
LEMMA HeadBinding ==
    ASSUME IInv, NEW id \in Ids, NEW k \in 1 .. Len(events),
           IsHead(events, Len(events), id, k), events[k].action # "Revoke"
    PROVE  /\ Bindings[id] = [owner |-> events[k].key, seq |-> events[k].seq,
                              revoked |-> FALSE]
           /\ Bindings[id] # None
           /\ ~ Revoked(id)
           /\ events[k].seq \in Nat
  <1>1. events \in Seq(NameEvent) /\ Len(events) \in Nat
        /\ Aligned(profiles[id], events, id) /\ RevokedIsLast
        /\ profiles \in [Ids -> Profile \cup {None}]
    BY DEF IInv, Typed, TypeOK, TablesOK, ProfilesAlign
  <1>2. ~ NoHistory(events, Len(events), id)
    BY DEF NoHistory, IsHead
  <1>3. PICK j \in 1 .. Len(events) : /\ IsHead(events, Len(events), id, j)
                                      /\ profiles[id] = ProfileOf(events[j])
    BY <1>1, <1>2 DEF Aligned
  <1>4. j = k
    BY <1>1, <1>3, HeadUnique
  <1>5. events[k] \in NameEvent
    BY <1>1
  <1>6. /\ ProfileOf(events[k]) \in Profile
        /\ ProfileOf(events[k]).key = events[k].key
        /\ ProfileOf(events[k]).seq = events[k].seq /\ events[k].seq \in Nat
    BY <1>5 DEF ProfileOf, Profile, NameEvent
  <1>7. profiles[id] # None
    BY <1>3, <1>4, <1>6, NoneIsNoRecord
  <1>8. ~ Revoked(id)
    <2> SUFFICES ASSUME NEW i \in 1 .. Len(events),
                        events[i].id = id, events[i].action = "Revoke"
                 PROVE  FALSE
      BY <1>1 DEF Revoked
    <2>1. i < k
      BY <1>1 DEF IsHead
    <2>2. events[k].id = id
      BY DEF IsHead
    <2> QED
      BY <1>1, <2>1, <2>2 DEF RevokedIsLast
  <1>9. BindingOf(id) = [owner |-> events[k].key, seq |-> events[k].seq,
                         revoked |-> FALSE]
    <2>1. Revoked(id) = FALSE
      BY <1>8 DEF Revoked
    <2> QED
      BY <1>3, <1>4, <1>6, <1>7, <2>1 DEF BindingOf
  <1>10. BindingOf(id) # None
    <2>1. events[k].key \in Keys /\ events[k].seq \in Nat
      BY <1>5 DEF NameEvent
    <2>2. BindingOf(id) \in Registry!Binding
      BY <1>9, <2>1 DEF Registry!Binding
    <2> QED
      BY <2>2, NoneIsNoBinding
  <1> QED
    BY <1>6, <1>8, <1>9, <1>10 DEF Bindings

LEMMA CommitRefines ==
    ASSUME IInv, NEW p \in Callers, Commit(p)
    PROVE  Registry!Next
  <1>1. PICK e : e = caller[p].event
    OBVIOUS
  <1>2. /\ e \in NameEvent /\ Extends(events, Len(events), e)
        /\ Bindings' = [Bindings EXCEPT ![e.id] =
                          [owner |-> e.key, seq |-> e.seq,
                           revoked |-> Revoked(e.id) \/ e.action = "Revoke"]]
    BY <1>1, CommitBinds
  <1>3. e.id \in Ids /\ e.key \in Keys
    BY <1>2 DEF NameEvent
  <1>4. CASE NoHistory(events, Len(events), e.id) /\ Genesis(e)
    <2>1. Bindings[e.id] = None /\ ~ Revoked(e.id)
      BY <1>3, <1>4, UnregisteredBinding
    <2>2. e.action = "Register" /\ e.seq = 0
      BY <1>4 DEF Genesis
    <2>3. (Revoked(e.id) \/ e.action = "Revoke") = FALSE
      BY <2>1, <2>2
    <2>4. Registry!Register(e.id, e.key)
      BY <1>2, <2>1, <2>2, <2>3 DEF Registry!Register, Bindings
    <2> QED
      BY <1>3, <2>4 DEF Registry!Next
  <1>5. ASSUME NEW k \in 1 .. Len(events), IsHead(events, Len(events), e.id, k),
               Successor(events[k], e)
        PROVE  Registry!Next
    <2> DEFINE h == events[k]
               now == e.action = "Revoke"
    <2>1. /\ Bindings[e.id] = [owner |-> h.key, seq |-> h.seq, revoked |-> FALSE]
          /\ Bindings[e.id] # None
          /\ ~ Revoked(e.id)
          /\ h.seq \in Nat
      BY <1>3, <1>5, HeadBinding DEF Successor
    <2>2. e.seq = h.seq + 1 /\ (e.action # "RotateKey" => e.key = h.key)
      BY <1>5 DEF Successor, Authorised
    <2>3. Registry!Live(e.id)
      BY <2>1 DEF Registry!Live, Bindings
    <2>4. (Revoked(e.id) \/ now) = now
      BY <2>1
    <2> HIDE DEF h
    <2>5. Bindings' = [Bindings EXCEPT ![e.id] =
                         [owner |-> e.key, seq |-> h.seq + 1, revoked |-> now]]
      BY <1>2, <2>2, <2>4
    <2> DEFINE b == Bindings[e.id]
    <2>6. b.owner = h.key /\ b.seq = h.seq
      <3>1. b = [owner |-> h.key, seq |-> h.seq, revoked |-> FALSE]
        BY <2>1
      <3> HIDE DEF b
      <3> QED
        BY <3>1
    <2>7. Bindings' = [Bindings EXCEPT ![e.id] =
                         [owner |-> e.key, seq |-> @.seq + 1, revoked |-> now]]
      BY <2>5, <2>6
    <2>8. Registry!Advance(e.id, e.key, now)
      <3> HIDE DEF now
      <3> QED
        BY <1>3, <2>3, <2>7 DEF Registry!Advance, Bindings
    <2>9. e.action # "RotateKey" => e.key = [id \in Ids |-> BindingOf(id)][e.id].owner
      BY <2>2, <2>6 DEF Bindings
    <2>10. CASE e.action = "RotateKey"
      <3>1. now = FALSE
        BY <2>10
      <3> QED
        BY <1>3, <2>8, <3>1 DEF Registry!Rotate, Registry!Next
    <2>11. CASE e.action = "Revoke"
      <3>1. now = TRUE
        BY <2>11
      <3> QED
        BY <1>3, <2>8, <2>9, <2>11, <3>1 DEF Registry!Revoke, Registry!Next
    <2>12. CASE e.action \notin {"RotateKey", "Revoke"}
      <3>1. now = FALSE
        BY <2>12
      <3> QED
        BY <1>3, <2>8, <2>9, <2>12, <3>1 DEF Registry!Update, Registry!Next
    <2> QED
      BY <2>10, <2>11, <2>12
  <1> QED
    BY <1>2, <1>4, <1>5 DEF Extends

\* Whatever writers do, names are registered once, keep their owner but for
\* rotations, count their versions one by one and stay revoked.
THEOREM RegistryImplemented == Spec => ImplementsRegistry
  <1>1. Init => Registry!Init
    BY DEF Init, Registry!Init, BindingOf
  <1>2. IInv /\ [Next]_vars => [Registry!Next]_Bindings
    <2> SUFFICES ASSUME IInv, [Next]_vars
                 PROVE  Registry!Next \/ Bindings' = Bindings
      OBVIOUS
    <2>1. ASSUME NEW p \in Callers, Commit(p)
          PROVE  Registry!Next
      BY <2>1, CommitRefines
    <2>2. CASE UNCHANGED <<events, profiles>>
      BY <2>2 DEF Bindings, BindingOf, Revoked
    <2> QED
      BY <2>1, <2>2
         DEF Next, vars, CallerStep, BeginWrite, BeginAnchor, ReadEvents,
             ReadCheckpoints, ReadProfiles, Prepare, ReplaceLatestCheckpoint,
             Fail, storeVars
  <1> QED
    BY <1>1, <1>2, InductiveInvariant, PTL
       DEF Spec, ImplementsRegistry, Registry!Spec, Bindings

=============================================================================
