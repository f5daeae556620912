------------------------------ MODULE LnSends ------------------------------
\* Lightning sends of the wallet: the records of wallet/src/lib/lnSendRecords.ts
\* and the managers that wallet/src/providers/lnSwaps.tsx starts, one for each
\* run of its effect in each open tab. No lock orders them: every write of a
\* record is a read, an await and a write of the whole record.
EXTENDS Naturals, FiniteSets

CONSTANTS Sends,         \* funded Lightning sends (rfqId)
          SendManagers   \* managers alive at a time: tabs and remounts

VARIABLES
  sendLockup,    \* the covenant of each send on the Ark server
  sendCall,      \* how far the send screen got with funding and trackLnSend
  sendRecord,    \* the shared store (IndexedDB)
  sendManager,   \* phase of each manager
  driving,       \* the swaps each manager monitors
  sendJob        \* what each manager is awaiting for each swap

lnSendVars == <<sendLockup, sendCall, sendRecord, sendManager, driving, sendJob>>

Ended == {"claimed", "returned", "refunded"}
Terminal == {"settled", "refunded"}
NoSend == [state |-> "none", stamp |-> FALSE, noted |-> FALSE]
\* stamp: the manager's refundArkTxid or lockupSpendArkTxids, rewritten by each
\* of its updates; noted: profile.spend_txid, carried over by them.
SendRecords == [state : {"none", "pending"} \cup Terminal, stamp : BOOLEAN, noted : BOOLEAN]
NoJob == [step |-> "none", swap |-> NoSend, prior |-> NoSend]
Jobs == [step : {"none", "read", "write", "ending", "lookup", "noteRead", "noteWrite"},
         swap : SendRecords, prior : SendRecords]

Stored(s) == sendRecord[s].state # "none"
Named(record) == record.stamp \/ record.noted

LnSendTypeOK ==
  /\ sendLockup \in [Sends -> {"unfunded", "funded"} \cup Ended]
  /\ sendCall \in [Sends -> {"none", "funded", "saved", "done", "gone"}]
  /\ sendRecord \in [Sends -> SendRecords]
  /\ sendManager \in
       [SendManagers -> {"off", "starting", "listed", "running", "closing", "stopped"}]
  /\ driving \in [SendManagers -> SUBSET Sends]
  /\ sendJob \in [SendManagers -> [Sends -> Jobs]]

LnSendInit ==
  /\ sendLockup = [s \in Sends |-> "unfunded"]
  /\ sendCall = [s \in Sends |-> "none"]
  /\ sendRecord = [s \in Sends |-> NoSend]
  /\ sendManager = [m \in SendManagers |-> "off"]
  /\ driving = [m \in SendManagers |-> {}]
  /\ sendJob = [m \in SendManagers |-> [s \in Sends |-> NoJob]]

-----------------------------------------------------------------------------
\* The send screen: fund the covenant, save the record, hand it to the manager.
FundSend(s) ==
  /\ sendCall[s] = "none"
  /\ sendCall' = [sendCall EXCEPT ![s] = "funded"]
  /\ sendLockup' = [sendLockup EXCEPT ![s] = "funded"]
  /\ UNCHANGED <<sendRecord, sendManager, driving, sendJob>>

\* Fault: a record that cannot be written is forgotten about.
SaveNewSendFails(s) ==
  /\ sendCall[s] = "funded"
  /\ sendCall' = [sendCall EXCEPT ![s] = "saved"]
  /\ UNCHANGED <<sendLockup, sendRecord, sendManager, driving, sendJob>>

SaveNewSend(s) ==
  /\ sendCall[s] = "funded"
  /\ sendCall' = [sendCall EXCEPT ![s] = "saved"]
  /\ sendRecord' = [sendRecord EXCEPT ![s] = [NoSend EXCEPT !.state = "pending"]]
  /\ UNCHANGED <<sendLockup, sendManager, driving, sendJob>>

\* managerRef.current?.addSwap: the tab of the send has a running manager, or
\* none yet, or one that was stopped before it was there; without a running one
\* the swap waits for the next start.
HandToManager(s, m) ==
  /\ sendCall[s] = "saved"
  /\ sendCall' = [sendCall EXCEPT ![s] = "done"]
  /\ driving' = [driving EXCEPT ![m] = @ \cup (IF sendManager[m] = "running" THEN {s} ELSE {})]
  /\ UNCHANGED <<sendLockup, sendRecord, sendManager, sendJob>>

-----------------------------------------------------------------------------
\* One run of the effect: make a manager, read the records, start, stop.
MountSends(m) ==
  /\ sendManager[m] \in {"off", "stopped"}
  /\ \A s \in Sends : sendJob[m][s] = NoJob
  /\ sendManager' = [sendManager EXCEPT ![m] = "starting"]
  /\ UNCHANGED <<sendLockup, sendCall, sendRecord, driving, sendJob>>

\* A terminal record past its retention, which outlasts the send screen and
\* every pass over the record.
Retired(s) ==
  /\ sendRecord[s].state \in Terminal
  /\ sendCall[s] \in {"done", "gone"}
  /\ \A m \in SendManagers : s \notin driving[m] /\ sendJob[m][s] = NoJob

\* restoreLnSendSwaps: prune, skip what is over, rebuild what can be rebuilt.
RestoreSends(m) ==
  /\ sendManager[m] = "starting"
  /\ sendManager' = [sendManager EXCEPT ![m] = "listed"]
  /\ \E pruned \in SUBSET {s \in Sends : Retired(s)},
        rebuilt \in SUBSET {s \in Sends : sendRecord[s].state = "pending"} :
       /\ sendRecord' = [s \in Sends |-> IF s \in pruned THEN NoSend ELSE sendRecord[s]]
       /\ driving' = [driving EXCEPT ![m] = rebuilt]
  /\ UNCHANGED <<sendLockup, sendCall, sendJob>>

\* manager.start, and only then managerRef.current: also for a manager that was
\* stopped while it started, which from then on is the one sends are handed to.
StartSends(m) ==
  /\ sendManager[m] \in {"listed", "closing"}
  /\ sendManager' = [sendManager EXCEPT ![m] = IF @ = "listed" THEN "running" ELSE "stopped"]
  /\ UNCHANGED <<sendLockup, sendCall, sendRecord, driving, sendJob>>

\* Teardown; what the stopped manager was awaiting still happens.
UnmountSends(m) ==
  /\ sendManager[m] \in {"starting", "listed", "running"}
  /\ sendManager' = [sendManager EXCEPT ![m] = IF @ = "listed" THEN "closing" ELSE "off"]
  /\ driving' = [driving EXCEPT ![m] = {}]
  /\ UNCHANGED <<sendLockup, sendCall, sendRecord, sendJob>>

\* The page goes away, with what it was awaiting and with the send screen.
CloseSendPage(m) ==
  /\ sendManager' = [sendManager EXCEPT ![m] = "off"]
  /\ driving' = [driving EXCEPT ![m] = {}]
  /\ sendJob' = [sendJob EXCEPT ![m] = [s \in Sends |-> NoJob]]
  /\ sendCall' = [s \in Sends |->
       IF sendCall[s] \in {"funded", "saved"} THEN "gone" ELSE sendCall[s]]
  /\ UNCHANGED <<sendLockup, sendRecord>>

-----------------------------------------------------------------------------
\* A pass over one swap. A pass that changes something calls saveSwap; one that
\* finds the lockup spent ends the swap, with or without a stamp of the spender.
Idle(m, s) == sendManager[m] = "running" /\ s \in driving[m] /\ sendJob[m][s] = NoJob
Await(m, s, job) == sendJob' = [sendJob EXCEPT ![m][s] = job]

\* Fault: the swap is dropped on a change, not on its end.
PassChangesAndDrops(m, s) ==
  /\ Idle(m, s) /\ sendLockup[s] = "funded"
  /\ Await(m, s, [NoJob EXCEPT !.step = "read", !.swap = [NoSend EXCEPT !.state = "pending"]])
  /\ driving' = [driving EXCEPT ![m] = @ \ {s}]
  /\ UNCHANGED <<sendLockup, sendCall, sendRecord, sendManager>>

PassChanges(m, s) ==
  /\ Idle(m, s) /\ sendLockup[s] = "funded"
  /\ Await(m, s, [NoJob EXCEPT !.step = "read", !.swap = [NoSend EXCEPT !.state = "pending"]])
  /\ UNCHANGED <<sendLockup, sendCall, sendRecord, sendManager, driving>>

PassEnds(m, s) ==
  /\ Idle(m, s) /\ sendLockup[s] \in Ended
  /\ \E stamp \in BOOLEAN :
       Await(m, s, [NoJob EXCEPT !.step = "read", !.swap =
         [state |-> IF sendLockup[s] = "claimed" THEN "settled" ELSE "refunded",
          stamp |-> stamp, noted |-> FALSE]])
  /\ driving' = [driving EXCEPT ![m] = @ \ {s}]
  /\ UNCHANGED <<sendLockup, sendCall, sendRecord, sendManager>>

\* saveSwapUpdate: read the record; without one there is nothing to write.
ReadPrior(m, s) ==
  /\ sendJob[m][s].step = "read"
  /\ Await(m, s, IF Stored(s) THEN [sendJob[m][s] EXCEPT !.step = "write", !.prior = sendRecord[s]]
                 ELSE NoJob)
  /\ UNCHANGED <<sendLockup, sendCall, sendRecord, sendManager, driving>>

\* updateRfqSwapRecord: state and stamp from the swap, profile from the record
\* that was read; then onSwapCompleted, for a swap that ended.
WriteUpdate(m, s) ==
  LET job == sendJob[m][s] IN
  /\ job.step = "write"
  /\ sendRecord' = [sendRecord EXCEPT ![s] = [job.swap EXCEPT !.noted = job.prior.noted]]
  /\ Await(m, s, IF job.swap.state \in Terminal THEN [NoJob EXCEPT !.step = "ending"] ELSE NoJob)
  /\ UNCHANGED <<sendLockup, sendCall, sendManager, driving>>

\* recordEnding: a record that names its spender answers for itself.
ReadEnding(m, s) ==
  /\ sendJob[m][s].step = "ending"
  /\ Await(m, s, IF Stored(s) /\ ~ Named(sendRecord[s]) THEN [NoJob EXCEPT !.step = "lookup"] ELSE NoJob)
  /\ UNCHANGED <<sendLockup, sendCall, sendRecord, sendManager, driving>>

\* lockupSpenderTxid: a swept output no longer names its spender.
LookUpSpender(m, s) ==
  /\ sendJob[m][s].step = "lookup"
  /\ \E found \in BOOLEAN : Await(m, s, IF found THEN [NoJob EXCEPT !.step = "noteRead"] ELSE NoJob)
  /\ UNCHANGED <<sendLockup, sendCall, sendRecord, sendManager, driving>>

\* recordSpendTxid reads the record again, and writes it back with the txid.
ReadForNote(m, s) ==
  /\ sendJob[m][s].step = "noteRead"
  /\ Await(m, s, IF Stored(s) /\ ~ Named(sendRecord[s])
                 THEN [NoJob EXCEPT !.step = "noteWrite", !.prior = sendRecord[s]] ELSE NoJob)
  /\ UNCHANGED <<sendLockup, sendCall, sendRecord, sendManager, driving>>

WriteNote(m, s) ==
  /\ sendJob[m][s].step = "noteWrite"
  /\ sendRecord' = [sendRecord EXCEPT ![s] = [sendJob[m][s].prior EXCEPT !.noted = TRUE]]
  /\ Await(m, s, NoJob)
  /\ UNCHANGED <<sendLockup, sendCall, sendManager, driving>>

\* refundArkade: the signer comes from the record, and the lockup must be unspent.
PushRefund(m, s) ==
  /\ Idle(m, s) /\ Stored(s) /\ sendLockup[s] = "funded"
  /\ sendLockup' = [sendLockup EXCEPT ![s] = "refunded"]
  /\ UNCHANGED <<sendCall, sendRecord, sendManager, driving, sendJob>>

\* The solver pays the invoice and claims, or gives the funds back.
SolverResolves(s) ==
  /\ sendLockup[s] = "funded"
  /\ \E end \in {"claimed", "returned"} : sendLockup' = [sendLockup EXCEPT ![s] = end]
  /\ UNCHANGED <<sendCall, sendRecord, sendManager, driving, sendJob>>

JobStep(m, s) ==
  \/ ReadPrior(m, s) \/ WriteUpdate(m, s) \/ ReadEnding(m, s)
  \/ LookUpSpender(m, s) \/ ReadForNote(m, s) \/ WriteNote(m, s)

LnSendNext ==
  \/ \E s \in Sends : FundSend(s) \/ SaveNewSend(s) \/ SolverResolves(s)
  \/ \E m \in SendManagers : \/ MountSends(m) \/ RestoreSends(m) \/ StartSends(m)
                             \/ UnmountSends(m) \/ CloseSendPage(m)
  \/ \E m \in SendManagers, s \in Sends :
       \/ HandToManager(s, m) \/ PassChanges(m, s) \/ PassEnds(m, s)
       \/ JobStep(m, s) \/ PushRefund(m, s)

\* A running manager polls and its promises settle.
LnSendFairness ==
  \A m \in SendManagers, s \in Sends : WF_lnSendVars(PassEnds(m, s)) /\ WF_lnSendVars(JobStep(m, s))

LnSendSpec == LnSendInit /\ [][LnSendNext]_lnSendVars /\ LnSendFairness

-----------------------------------------------------------------------------
\* A monitored send has a record: without one its outcome cannot be written, and
\* its refund cannot be signed.
DrivenIsStored == \A m \in SendManagers : \A s \in driving[m] : Stored(s)

\* A send that a running manager drives is recorded as ended once its lockup is
\* spent, now or later, unless that manager goes: no pass loses sight of it.
EndedSendIsRecorded ==
  \A m \in SendManagers, s \in Sends :
    (sendManager[m] = "running" /\ s \in driving[m] /\ <>(sendLockup[s] \in Ended))
      ~> (sendRecord[s].state \in Terminal \/ sendManager[m] # "running")
=============================================================================
