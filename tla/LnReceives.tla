----------------------------- MODULE LnReceives -----------------------------
\* Lightning receives of the wallet: the provider that drives every negotiated
\* receive (wallet/src/providers/lnReceive.tsx) in each open tab, the Web Lock
\* that lets one tab at a time do so, and the record store the tabs share.
\* A browser without Web Locks drives in every tab. The Web Lock is the browser's
\* and RfqSwapManager is of @arkade-os/swap: both are modelled as that file uses them.
EXTENDS Naturals

CONSTANTS Tabs,        \* open pages of the wallet
          Receives,    \* negotiated receives (rfqId)
          MaxMounts    \* bound: runs of the provider's effect in one tab

ASSUME MaxMountsAssumption == MaxMounts \in Nat \ {0}

VARIABLES
  hasLocks,       \* the browser has Web Locks: navigator.locks
  mounts,         \* how often each tab has run the effect
  effect,         \* the run in force in each tab, 0 when it is torn down
  driver,         \* the phase of each run's lock request and manager
  ahead,          \* the requests for MANAGER_LOCK that come before each request
  admitted,       \* each tab's set of rfqIds handed to a manager
  monitored,      \* the swaps of each run's manager
  tracking,       \* the screen's call of track() for each receive
  receiveRecord,  \* the shared store (IndexedDB)
  lockup          \* the covenant on the Ark server

receiveVars == <<hasLocks, mounts, effect, driver, ahead, admitted, monitored,
                 tracking, receiveRecord, lockup>>

Drivers == Tabs \X (1..MaxMounts)
Held == {"starting", "running", "broken", "closingEarly", "closing"}
NoTab == "no tab"
NotTracked == [tab |-> NoTab, phase |-> "none", run |-> 0]

ReceiveTypeOK ==
  /\ hasLocks \in BOOLEAN
  /\ mounts \in [Tabs -> 0..MaxMounts]
  /\ effect \in [Tabs -> 0..MaxMounts]
  /\ driver \in [Drivers -> Held \cup {"absent", "queued", "done"}]
  /\ ahead \in [Drivers -> SUBSET Drivers]
  /\ admitted \in [Tabs -> SUBSET Receives]
  /\ monitored \in [Drivers -> SUBSET Receives]
  /\ tracking \in [Receives -> [tab : Tabs \cup {NoTab}, run : 0..MaxMounts,
       phase : {"none", "waiting", "adding", "tracked", "elsewhere",
                "notRunning", "failed", "gone"}]]
  /\ receiveRecord \in [Receives -> {"none", "pending", "settled", "refunded"}]
  /\ lockup \in [Receives -> {"unfunded", "funded", "claimed", "reclaimed"}]

ReceiveInit ==
  /\ hasLocks \in BOOLEAN
  /\ mounts = [t \in Tabs |-> 0]
  /\ effect = [t \in Tabs |-> 0]
  /\ driver = [d \in Drivers |-> "absent"]
  /\ ahead = [d \in Drivers |-> {}]
  /\ admitted = [t \in Tabs |-> {}]
  /\ monitored = [d \in Drivers |-> {}]
  /\ tracking = [r \in Receives |-> NotTracked]
  /\ receiveRecord = [r \in Receives |-> "none"]
  /\ lockup = [r \in Receives |-> "unfunded"]

-----------------------------------------------------------------------------
\* The run of the effect that is in force in a tab, when there is one.
InForce(d) == effect[d[1]] = d[2]

\* manager.current of the tab: set once its lock is held, cleared by teardown.
HasManager(t) ==
  effect[t] # 0 /\ driver[<<t, effect[t]>>] \in {"starting", "running", "broken"}

\* A run has a place in the queue of the lock, first in line while it holds it.
Requested(d) == driver[d] \in Held \cup {"queued"}

\* Requests leave the queue: aborted, released, or gone with their page.
Withdraw(gone) == ahead' = [d \in Drivers |-> IF d \in gone THEN {} ELSE ahead[d] \ gone]

\* The effect runs: it asks for the lock and waits its turn, or drives at once
\* where there are no locks.
MountDriver(t) ==
  LET d == <<t, mounts[t] + 1>> IN
  /\ effect[t] = 0
  /\ mounts[t] < MaxMounts
  /\ mounts' = [mounts EXCEPT ![t] = @ + 1]
  /\ effect' = [effect EXCEPT ![t] = mounts[t] + 1]
  /\ driver' = [driver EXCEPT ![d] = IF hasLocks THEN "queued" ELSE "starting"]
  /\ ahead' = [ahead EXCEPT ![d] = IF hasLocks THEN {e \in Drivers : Requested(e)} ELSE {}]
  /\ UNCHANGED <<hasLocks, admitted, monitored, tracking, receiveRecord, lockup>>

\* The browser grants the lock to the oldest request.
GrantLock(d) ==
  /\ driver[d] = "queued" /\ ahead[d] = {}
  /\ driver' = [driver EXCEPT ![d] = "starting"]
  /\ UNCHANGED <<hasLocks, mounts, effect, ahead, admitted, monitored, tracking,
                 receiveRecord, lockup>>

\* restoreFromRepository and start: some of the stored receives are rebuilt, the
\* others are reported. Their ids enter the tab's admitted set, which a later
\* run of the effect may by now be using.
StartManager(d) ==
  /\ driver[d] \in {"starting", "closingEarly"}
  /\ \E restored \in SUBSET {r \in Receives : receiveRecord[r] = "pending"} :
       /\ monitored' = [monitored EXCEPT ![d] = restored]
       /\ admitted' = [admitted EXCEPT ![d[1]] = @ \cup restored]
  /\ driver' = [driver EXCEPT ![d] = IF @ = "starting" THEN "running" ELSE "closing"]
  /\ UNCHANGED <<hasLocks, mounts, effect, ahead, tracking, receiveRecord, lockup>>

\* The manager cannot be made or started; the lock stays held until teardown.
BreakManager(d) ==
  /\ driver[d] \in {"starting", "closingEarly"}
  /\ driver' = [driver EXCEPT ![d] = IF @ = "starting" THEN "broken" ELSE "closing"]
  /\ UNCHANGED <<hasLocks, mounts, effect, ahead, admitted, monitored, tracking,
                 receiveRecord, lockup>>

\* Fault: the lock is only aborted, which does nothing once it is granted.
UnmountWithoutRelease(t) ==
  LET d == <<t, effect[t]>> IN
  /\ effect[t] # 0
  /\ effect' = [effect EXCEPT ![t] = 0]
  /\ admitted' = [admitted EXCEPT ![t] = {}]
  /\ driver' = [driver EXCEPT ![d] = IF @ = "queued" THEN "done" ELSE @]
  /\ IF driver[d] = "queued" THEN Withdraw({d}) ELSE UNCHANGED ahead
  /\ UNCHANGED <<hasLocks, mounts, monitored, tracking, receiveRecord, lockup>>

\* Fault: the lock is handed on before the manager has stopped.
UnmountAndHandOn(t) ==
  LET d == <<t, effect[t]>> IN
  /\ effect[t] # 0
  /\ effect' = [effect EXCEPT ![t] = 0]
  /\ admitted' = [admitted EXCEPT ![t] = {}]
  /\ driver' = [driver EXCEPT ![d] = IF @ = "queued" THEN "done" ELSE "closing"]
  /\ Withdraw({d})
  /\ UNCHANGED <<hasLocks, mounts, monitored, tracking, receiveRecord, lockup>>

\* Teardown of the effect: the refs are dropped, a pending request is aborted, a
\* held lock is released once its manager has stopped (StopManager).
UnmountDriver(t) ==
  LET d == <<t, effect[t]>> IN
  /\ effect[t] # 0
  /\ effect' = [effect EXCEPT ![t] = 0]
  /\ admitted' = [admitted EXCEPT ![t] = {}]
  /\ driver' = [driver EXCEPT ![d] = CASE @ = "queued"   -> "done"
                                       [] @ = "starting" -> "closingEarly"
                                       [] OTHER          -> "closing"]
  /\ IF driver[d] = "queued" THEN Withdraw({d}) ELSE UNCHANGED ahead
  /\ UNCHANGED <<hasLocks, mounts, monitored, tracking, receiveRecord, lockup>>

StopManager(d) ==
  /\ driver[d] = "closing"
  /\ driver' = [driver EXCEPT ![d] = "done"]
  /\ monitored' = [monitored EXCEPT ![d] = {}]
  /\ Withdraw({d})
  /\ UNCHANGED <<hasLocks, mounts, effect, admitted, tracking, receiveRecord, lockup>>

\* The page is closed or reloaded: the browser drops its requests and its lock,
\* and everything it holds in memory is gone.
CloseTab(t) ==
  /\ effect[t] # 0
  /\ effect' = [effect EXCEPT ![t] = 0]
  /\ admitted' = [admitted EXCEPT ![t] = {}]
  /\ driver' = [d \in Drivers |-> IF d[1] = t /\ driver[d] # "absent" THEN "done"
                                  ELSE driver[d]]
  /\ monitored' = [d \in Drivers |-> IF d[1] = t THEN {} ELSE monitored[d]]
  /\ Withdraw({d \in Drivers : d[1] = t})
  /\ tracking' = [r \in Receives |->
       IF tracking[r].tab = t /\ tracking[r].phase \in {"waiting", "adding"}
       THEN [tracking[r] EXCEPT !.phase = "gone"] ELSE tracking[r]]
  /\ UNCHANGED <<hasLocks, mounts, receiveRecord, lockup>>

-----------------------------------------------------------------------------
\* track(): past its guards, the id is marked before the manager is awaited.
Admit(t, r) ==
  IF r \in admitted[t]
  THEN /\ tracking' = [tracking EXCEPT ![r] = [tab |-> t, phase |-> "tracked", run |-> effect[t]]]
       /\ UNCHANGED admitted
  ELSE /\ tracking' = [tracking EXCEPT ![r] = [tab |-> t, phase |-> "adding", run |-> effect[t]]]
       /\ admitted' = [admitted EXCEPT ![t] = @ \cup {r}]

\* No manager: either this tab's request is in the queue, or none was made.
Refuse(t, r) ==
  /\ tracking' = [tracking EXCEPT ![r] =
       [tab |-> t, run |-> 0, phase |-> IF effect[t] # 0 THEN "elsewhere" ELSE "notRunning"]]
  /\ UNCHANGED admitted

\* The receive screen has an invoice and calls track() before it shows it.
Track(t, r) ==
  /\ mounts[t] > 0
  /\ tracking[r].phase \in {"none", "elsewhere", "failed"}
  /\ \/ HasManager(t) /\ Admit(t, r)
     \/ /\ ~ HasManager(t) /\ effect[t] # 0
        /\ tracking' = [tracking EXCEPT ![r] = [tab |-> t, phase |-> "waiting", run |-> 0]]
        /\ UNCHANGED admitted
     \/ ~ HasManager(t) /\ effect[t] = 0 /\ Refuse(t, r)
  /\ UNCHANGED <<hasLocks, mounts, effect, driver, ahead, monitored, receiveRecord, lockup>>

\* The grant arrived, or LOCK_GRACE_MS is over, whichever the timers decide.
StopWaiting(r) ==
  /\ tracking[r].phase = "waiting"
  /\ LET t == tracking[r].tab IN IF HasManager(t) THEN Admit(t, r) ELSE Refuse(t, r)
  /\ UNCHANGED <<hasLocks, mounts, effect, driver, ahead, monitored, receiveRecord, lockup>>

\* await (await pending).addSwap(swap, origin). The manager is the one of the
\* run that admitted the receive, even if it was stopped meanwhile.
AddSwap(r) ==
  LET d == <<tracking[r].tab, tracking[r].run>> IN
  /\ tracking[r].phase = "adding"
  /\ driver[d] \in {"running", "closing", "done"}
  /\ monitored' = [monitored EXCEPT ![d] = @ \cup (IF driver[d] = "done" THEN {} ELSE {r})]
  /\ tracking' = [tracking EXCEPT ![r].phase = "tracked"]
  /\ UNCHANGED <<hasLocks, mounts, effect, driver, ahead, admitted, receiveRecord, lockup>>

\* Fault: the mark of a refused swap stays.
AddSwapFailsMarked(r) ==
  /\ tracking[r].phase = "adding"
  /\ driver[<<tracking[r].tab, tracking[r].run>>] \notin {"starting", "closingEarly"}
  /\ tracking' = [tracking EXCEPT ![r].phase = "failed"]
  /\ UNCHANGED <<hasLocks, mounts, effect, driver, ahead, admitted, monitored,
                 receiveRecord, lockup>>

\* The manager failed to start or refused the swap: the mark is taken back.
AddSwapFails(r) ==
  /\ tracking[r].phase = "adding"
  /\ driver[<<tracking[r].tab, tracking[r].run>>] \notin {"starting", "closingEarly"}
  /\ tracking' = [tracking EXCEPT ![r].phase = "failed"]
  /\ admitted' = [admitted EXCEPT ![tracking[r].tab] = @ \ {r}]
  /\ UNCHANGED <<hasLocks, mounts, effect, driver, ahead, monitored, receiveRecord, lockup>>

-----------------------------------------------------------------------------
\* One pass of a running manager over one of its swaps.
Passes(d, r) == driver[d] = "running" /\ r \in monitored[d]

WriteRecord(d, r) ==
  /\ Passes(d, r) /\ receiveRecord[r] = "none"
  /\ receiveRecord' = [receiveRecord EXCEPT ![r] = "pending"]
  /\ UNCHANGED <<hasLocks, mounts, effect, driver, ahead, admitted, monitored, tracking, lockup>>

\* claimLockup: the secrets come from the record, so the record must be there.
ClaimLockup(d, r) ==
  /\ Passes(d, r) /\ receiveRecord[r] = "pending"
  /\ lockup[r] = "funded"
  /\ lockup' = [lockup EXCEPT ![r] = "claimed"]
  /\ UNCHANGED <<hasLocks, mounts, effect, driver, ahead, admitted, monitored, tracking, receiveRecord>>

\* The lockup is spent: the outcome is recorded and the swap is no longer driven.
FinishReceive(d, r) ==
  /\ Passes(d, r) /\ receiveRecord[r] # "none"
  /\ lockup[r] \in {"claimed", "reclaimed"}
  /\ receiveRecord' = [receiveRecord EXCEPT ![r] =
       IF lockup[r] = "claimed" THEN "settled" ELSE "refunded"]
  /\ monitored' = [monitored EXCEPT ![d] = @ \ {r}]
  /\ UNCHANGED <<hasLocks, mounts, effect, driver, ahead, admitted, tracking, lockup>>

\* The payer pays an invoice that was shown, and the solver funds the lockup; or
\* the solver takes an unclaimed lockup back at its deadline.
SolverActs(r) ==
  /\ \/ /\ lockup[r] = "unfunded" /\ tracking[r].phase = "tracked"
        /\ lockup' = [lockup EXCEPT ![r] = "funded"]
     \/ /\ lockup[r] = "funded"
        /\ lockup' = [lockup EXCEPT ![r] = "reclaimed"]
  /\ UNCHANGED <<hasLocks, mounts, effect, driver, ahead, admitted, monitored, tracking, receiveRecord>>

DriverStep(d) ==
  \/ GrantLock(d) \/ StartManager(d) \/ BreakManager(d) \/ StopManager(d)
  \/ \E r \in Receives : WriteRecord(d, r) \/ ClaimLockup(d, r) \/ FinishReceive(d, r)

ReceiveNext ==
  \/ \E t \in Tabs : MountDriver(t) \/ UnmountDriver(t) \/ CloseTab(t)
  \/ \E d \in Drivers : DriverStep(d)
  \/ \E t \in Tabs, r \in Receives : Track(t, r)
  \/ \E r \in Receives : StopWaiting(r) \/ AddSwap(r) \/ AddSwapFails(r) \/ SolverActs(r)

\* The browser grants a free lock, promises settle, and the manager polls; users
\* owe nothing.
ReceiveFairness == \A d \in Drivers : WF_receiveVars(DriverStep(d))

ReceiveSpec == ReceiveInit /\ [][ReceiveNext]_receiveVars /\ ReceiveFairness

-----------------------------------------------------------------------------
\* Where there are Web Locks, at most one manager is at work over the shared
\* records, counting one that is still stopping: what the lock, and its release
\* after the stop, are for. Without locks every tab drives (lnReceive.tsx:262-266).
OneDriver ==
  hasLocks => \A d, e \in Drivers : driver[d] \in Held /\ driver[e] \in Held => d = e

\* A receive marked as admitted is on its way to a manager, driven by the one of
\* this tab, or on record: the mark makes track() return without doing anything.
AdmittedIsKnown ==
  \A t \in Tabs : \A r \in admitted[t] :
    \/ receiveRecord[r] # "none"
    \/ tracking[r].phase = "adding"
    \/ \E d \in Drivers : d[1] = t /\ r \in monitored[d]

\* A stored receive whose lockup is funded is claimed, or lost to the solver,
\* unless no tab is left to claim it, or the tab that holds the lock could not
\* start its manager or rebuild this receive.
FundedReceiveEnds ==
  \A r \in Receives :
    (receiveRecord[r] = "pending" /\ lockup[r] = "funded")
      ~> \/ lockup[r] # "funded"
         \/ \A t \in Tabs : effect[t] = 0
         \/ \E d \in Drivers : InForce(d) /\
              (driver[d] = "broken" \/ (driver[d] = "running" /\ r \notin monitored[d]))
=============================================================================
