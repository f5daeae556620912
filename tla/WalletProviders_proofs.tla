----------------------- MODULE WalletProviders_proofs -----------------------
(***************************************************************************)
(* Proofs about the providers of the wallet and the SDK behind them: the   *)
(* records of Lightning receives (LnReceives) and sends (LnSends) and of   *)
(* asset swaps (AssetSwaps), the life cycle (WalletLifecycle), the SatsPath *)
(* profile (SatsPathSync) and the quotes of an alias (AliasQuotes).        *)
(***************************************************************************)
EXTENDS Integers, LnReceives, LnSends, AssetSwaps, WalletLifecycle, SatsPathSync, AliasQuotes, TLAPS

-----------------------------------------------------------------------------
(* Sends and offers.  The invariants say what the calls that wait between  *)
(* a read and a write still know when they write.                          *)

\* What a job brings to its write: a swap with a state, or a stored record.
JobKnows(job) ==
    /\ job.step \in {"read", "write"} => job.swap.state # "none"
    /\ job.step = "noteWrite" => job.prior.state # "none"

LnSendInv ==
    /\ LnSendTypeOK
    /\ DrivenIsStored
    /\ \A s \in Sends : sendCall[s] = "saved" => Stored(s)
    /\ \A m \in SendManagers, s \in Sends : JobKnows(sendJob[m][s])

\* A final status is what happened to the deposit.
TruthOf(status, end) ==
    /\ status = "cancelled" => end = "returned"
    /\ status = "fulfilled" => end = "filled"
    /\ status = "recoverable" => end = "swept"

\* A cancel under way would write back a true status, and takes the deposit for
\* spent only when it is.
CancelKnows(call, end) ==
    /\ TruthOf(call.before, end)
    /\ call.step = "spent" => end = "returned"
    /\ call.step = "resolving" => end \in Spent

SwapInv ==
    /\ SwapTypeOK
    /\ \A o \in Offers : TruthOf(swapStatus[o], deposit[o])
    /\ \A o \in Offers : CancelKnows(cancelCall[o], deposit[o])
    /\ \A o \in Offers : TruthOf(scan.found[o], deposit[o])

-----------------------------------------------------------------------------
\* One manager awaits another job for one send.
LEMMA AwaitKeeps ==
    ASSUME LnSendInv, NEW m \in SendManagers, NEW s \in Sends,
           NEW job \in Jobs, JobKnows(job), Await(m, s, job)
    PROVE  /\ sendJob' \in [SendManagers -> [Sends -> Jobs]]
           /\ \A n \in SendManagers, r \in Sends : JobKnows(sendJob'[n][r])
<1>1. sendJob \in [SendManagers -> [Sends -> Jobs]]
  BY DEF LnSendInv, LnSendTypeOK
<1>2. sendJob' \in [SendManagers -> [Sends -> Jobs]]
  BY <1>1 DEF Await
<1>3. ASSUME NEW n \in SendManagers, NEW r \in Sends
      PROVE  sendJob'[n][r] = IF n = m /\ r = s THEN job ELSE sendJob[n][r]
  BY <1>1 DEF Await
<1>. QED
  BY <1>2, <1>3 DEF LnSendInv

\* A new record of one send that has a state keeps what is known of records.
LEMMA RecordKept ==
    ASSUME LnSendInv, NEW s \in Sends, NEW record \in SendRecords, record.state # "none",
           sendRecord' = [sendRecord EXCEPT ![s] = record],
           UNCHANGED <<sendCall, driving>>
    PROVE  /\ sendRecord' \in [Sends -> SendRecords]
           /\ DrivenIsStored'
           /\ \A r \in Sends : (sendCall[r] = "saved" => Stored(r))'
<1>1. sendRecord \in [Sends -> SendRecords] /\ driving \in [SendManagers -> SUBSET Sends]
  BY DEF LnSendInv, LnSendTypeOK
<1>2. \A r \in Sends : sendRecord'[r] = IF r = s THEN record ELSE sendRecord[r]
  BY <1>1
<1>. QED
  BY <1>1, <1>2 DEF LnSendInv, DrivenIsStored, Stored

LEMMA LnSendInitInv == LnSendInit => LnSendInv
BY DEF LnSendInit, LnSendInv, LnSendTypeOK, DrivenIsStored, JobKnows, NoJob, NoSend, Jobs,
       SendRecords, Terminal

-----------------------------------------------------------------------------
\* The steps of the screen and of the effect.
LEMMA SendCallStep ==
    ASSUME LnSendInv, NEW s \in Sends,
           FundSend(s) \/ SaveNewSend(s) \/ SolverResolves(s)
    PROVE  LnSendInv'
<1>. USE DEF LnSendInv
<1>1. CASE FundSend(s)
  BY <1>1 DEF FundSend, LnSendTypeOK, DrivenIsStored, Stored, Ended
<1>2. CASE SaveNewSend(s)
  <2>1. [NoSend EXCEPT !.state = "pending"] \in SendRecords
        /\ [NoSend EXCEPT !.state = "pending"].state = "pending"
    BY DEF NoSend, SendRecords
  <2>2. sendRecord' \in [Sends -> SendRecords]
    BY <1>2, <2>1 DEF SaveNewSend, LnSendTypeOK
  <2>3. \A r \in Sends : Stored(r)' <=> (Stored(r) \/ r = s)
    BY <1>2, <2>1 DEF SaveNewSend, LnSendTypeOK, Stored
  <2>4. LnSendTypeOK'
    BY <1>2, <2>2 DEF SaveNewSend, LnSendTypeOK
  <2>5. DrivenIsStored'
    BY <1>2, <2>3 DEF SaveNewSend, DrivenIsStored, LnSendTypeOK
  <2>6. \A r \in Sends : (sendCall[r] = "saved" => Stored(r))'
    BY <1>2, <2>3 DEF SaveNewSend, LnSendTypeOK
  <2>7. UNCHANGED sendJob
    BY <1>2 DEF SaveNewSend
  <2>. QED
    BY <2>4, <2>5, <2>6, <2>7
<1>3. CASE SolverResolves(s)
  BY <1>3 DEF SolverResolves, LnSendTypeOK, DrivenIsStored, Stored, Ended
<1>. QED
  BY <1>1, <1>2, <1>3

LEMMA SendManagerStep ==
    ASSUME LnSendInv, NEW m \in SendManagers,
           \/ MountSends(m) \/ RestoreSends(m) \/ StartSends(m)
           \/ UnmountSends(m) \/ CloseSendPage(m)
    PROVE  LnSendInv'
<1>. USE DEF LnSendInv
<1>1. CASE MountSends(m)
  BY <1>1 DEF MountSends, LnSendTypeOK, DrivenIsStored, Stored
<1>2. CASE RestoreSends(m)
  <2>1. PICK pruned \in SUBSET {s \in Sends : Retired(s)},
             rebuilt \in SUBSET {s \in Sends : sendRecord[s].state = "pending"} :
          /\ sendRecord' = [s \in Sends |-> IF s \in pruned THEN NoSend ELSE sendRecord[s]]
          /\ driving' = [driving EXCEPT ![m] = rebuilt]
    BY <1>2 DEF RestoreSends
  <2>2. LnSendTypeOK'
    BY <1>2, <2>1 DEF RestoreSends, LnSendTypeOK, NoSend, SendRecords
  <2>3. ASSUME NEW n \in SendManagers, NEW s \in driving'[n]
        PROVE  s \in Sends /\ Stored(s) /\ s \notin pruned
    BY <2>1, <2>3 DEF LnSendTypeOK, DrivenIsStored, Retired, Terminal, Stored
  <2>4. DrivenIsStored'
    BY <2>1, <2>3 DEF DrivenIsStored, Stored
  <2>5. \A s \in Sends : (sendCall[s] = "saved" => Stored(s))'
    BY <1>2, <2>1 DEF RestoreSends, Retired, Stored
  <2>6. UNCHANGED sendJob
    BY <1>2 DEF RestoreSends
  <2>. QED
    BY <2>2, <2>4, <2>5, <2>6
<1>3. CASE StartSends(m)
  <2>1. sendManager' = [sendManager EXCEPT
          ![m] = IF sendManager[m] = "listed" THEN "running" ELSE "stopped"]
    BY <1>3 DEF StartSends
  <2>. QED
    BY <1>3, <2>1 DEF StartSends, LnSendTypeOK, DrivenIsStored, Stored
<1>4. CASE UnmountSends(m)
  BY <1>4 DEF UnmountSends, LnSendTypeOK, DrivenIsStored, Stored
<1>5. CASE CloseSendPage(m)
  <2>1. NoJob \in Jobs /\ JobKnows(NoJob)
    BY DEF NoJob, Jobs, NoSend, SendRecords, JobKnows
  <2>2. \A n \in SendManagers, s \in Sends :
          sendJob'[n][s] = IF n = m THEN NoJob ELSE sendJob[n][s]
    BY <1>5 DEF CloseSendPage, LnSendTypeOK
  <2>3. sendJob' \in [SendManagers -> [Sends -> Jobs]]
    BY <1>5, <2>1 DEF CloseSendPage, LnSendTypeOK
  <2>4. LnSendTypeOK'
    BY <1>5, <2>3 DEF CloseSendPage, LnSendTypeOK
  <2>5. DrivenIsStored' /\ \A s \in Sends : (sendCall[s] = "saved" => Stored(s))'
    BY <1>5 DEF CloseSendPage, LnSendTypeOK, DrivenIsStored, Stored
  <2>. QED
    BY <2>1, <2>2, <2>4, <2>5
<1>. QED
  BY <1>1, <1>2, <1>3, <1>4, <1>5

\* A pass of a running manager, and the steps of what it awaits.
LEMMA SendPassStep ==
    ASSUME LnSendInv, NEW m \in SendManagers, NEW s \in Sends,
           HandToManager(s, m) \/ PassChanges(m, s) \/ PassEnds(m, s) \/ PushRefund(m, s)
    PROVE  LnSendInv'
<1>1. CASE HandToManager(s, m)
  <2>1. LnSendTypeOK' /\ UNCHANGED <<sendRecord, sendJob>>
    BY <1>1 DEF HandToManager, LnSendInv, LnSendTypeOK
  <2>2. \A n \in SendManagers : driving'[n] \subseteq driving[n] \cup {s}
    BY <1>1 DEF HandToManager, LnSendInv, LnSendTypeOK
  <2>3. DrivenIsStored' /\ \A r \in Sends : (sendCall[r] = "saved" => Stored(r))'
    BY <1>1, <2>1, <2>2 DEF HandToManager, LnSendInv, LnSendTypeOK, DrivenIsStored, Stored
  <2>. QED
    BY <2>1, <2>3 DEF LnSendInv
<1>2. CASE PassChanges(m, s)
  <2>. DEFINE job == [NoJob EXCEPT !.step = "read", !.swap = [NoSend EXCEPT !.state = "pending"]]
  <2>1. job \in Jobs /\ JobKnows(job)
    BY DEF NoJob, NoSend, Jobs, SendRecords, JobKnows
  <2>2. Await(m, s, job) /\ UNCHANGED <<sendLockup, sendCall, sendRecord, sendManager, driving>>
    BY <1>2 DEF PassChanges
  <2>. HIDE DEF job
  <2>3. /\ sendJob' \in [SendManagers -> [Sends -> Jobs]]
        /\ \A n \in SendManagers, r \in Sends : JobKnows(sendJob'[n][r])
    BY <2>1, <2>2, AwaitKeeps
  <2>. QED
    BY <2>2, <2>3 DEF LnSendInv, LnSendTypeOK, DrivenIsStored, Stored
<1>3. CASE PassEnds(m, s)
  <2>1. PICK stamp \in BOOLEAN :
          Await(m, s, [NoJob EXCEPT !.step = "read", !.swap =
            [state |-> IF sendLockup[s] = "claimed" THEN "settled" ELSE "refunded",
             stamp |-> stamp, noted |-> FALSE]])
    BY <1>3 DEF PassEnds
  <2>. DEFINE job == [NoJob EXCEPT !.step = "read", !.swap =
                [state |-> IF sendLockup[s] = "claimed" THEN "settled" ELSE "refunded",
                 stamp |-> stamp, noted |-> FALSE]]
  <2>2. job \in Jobs /\ JobKnows(job)
    BY DEF NoJob, NoSend, Jobs, SendRecords, JobKnows, Terminal
  <2>3. Await(m, s, job)
    BY <2>1
  <2>. HIDE DEF job
  <2>4. /\ sendJob' \in [SendManagers -> [Sends -> Jobs]]
        /\ \A n \in SendManagers, r \in Sends : JobKnows(sendJob'[n][r])
    BY <2>2, <2>3, AwaitKeeps
  <2>5. /\ driving' = [driving EXCEPT ![m] = @ \ {s}]
        /\ UNCHANGED <<sendLockup, sendCall, sendRecord, sendManager>>
    BY <1>3 DEF PassEnds
  <2>. QED
    BY <2>4, <2>5 DEF LnSendInv, LnSendTypeOK, DrivenIsStored, Stored
<1>4. CASE PushRefund(m, s)
  BY <1>4 DEF PushRefund, LnSendInv, LnSendTypeOK, DrivenIsStored, Stored, Ended
<1>. QED
  BY <1>1, <1>2, <1>3, <1>4

\* A step that only changes what is awaited.
LEMMA OnlyAwaits ==
    ASSUME LnSendInv, NEW m \in SendManagers, NEW s \in Sends,
           NEW job \in Jobs, JobKnows(job), Await(m, s, job),
           UNCHANGED <<sendLockup, sendCall, sendRecord, sendManager, driving>>
    PROVE  LnSendInv'
BY AwaitKeeps DEF LnSendInv, LnSendTypeOK, DrivenIsStored, Stored

LEMMA SendJobStep ==
    ASSUME LnSendInv, NEW m \in SendManagers, NEW s \in Sends, JobStep(m, s)
    PROVE  LnSendInv'
<1>1. /\ sendJob[m][s] \in Jobs /\ JobKnows(sendJob[m][s])
      /\ sendRecord[s] \in SendRecords
      /\ NoJob \in Jobs /\ JobKnows(NoJob)
  BY DEF LnSendInv, LnSendTypeOK, NoJob, NoSend, Jobs, SendRecords, JobKnows
<1>2. CASE ReadPrior(m, s)
  <2>. DEFINE job == IF Stored(s)
                     THEN [sendJob[m][s] EXCEPT !.step = "write", !.prior = sendRecord[s]] ELSE NoJob
  <2>1. job \in Jobs /\ JobKnows(job)
    BY <1>1, <1>2 DEF ReadPrior, Jobs, JobKnows
  <2>2. Await(m, s, job) /\ UNCHANGED <<sendLockup, sendCall, sendRecord, sendManager, driving>>
    BY <1>2 DEF ReadPrior
  <2>. QED
    BY <2>1, <2>2, OnlyAwaits
<1>3. CASE WriteUpdate(m, s)
  <2>. DEFINE old == sendJob[m][s]
              job == IF old.swap.state \in Terminal THEN [NoJob EXCEPT !.step = "ending"] ELSE NoJob
              record == [old.swap EXCEPT !.noted = old.prior.noted]
  <2>1. job \in Jobs /\ JobKnows(job)
    BY <1>1 DEF NoJob, Jobs, JobKnows
  <2>2. record \in SendRecords /\ record.state # "none"
    BY <1>1, <1>3 DEF WriteUpdate, Jobs, JobKnows, SendRecords
  <2>3. /\ Await(m, s, job)
        /\ sendRecord' = [sendRecord EXCEPT ![s] = record]
        /\ UNCHANGED <<sendLockup, sendCall, sendManager, driving>>
    BY <1>3 DEF WriteUpdate
  <2>. HIDE DEF job, record, old
  <2>4. /\ sendRecord' \in [Sends -> SendRecords] /\ DrivenIsStored'
        /\ \A r \in Sends : (sendCall[r] = "saved" => Stored(r))'
    BY <2>2, <2>3, RecordKept
  <2>5. /\ sendJob' \in [SendManagers -> [Sends -> Jobs]]
        /\ \A n \in SendManagers, r \in Sends : JobKnows(sendJob'[n][r])
    BY <2>1, <2>3, AwaitKeeps
  <2>. QED
    BY <2>3, <2>4, <2>5 DEF LnSendInv, LnSendTypeOK
<1>4. CASE ReadEnding(m, s)
  <2>. DEFINE job == IF Stored(s) /\ ~ Named(sendRecord[s]) THEN [NoJob EXCEPT !.step = "lookup"] ELSE NoJob
  <2>1. job \in Jobs /\ JobKnows(job)
    BY <1>1 DEF NoJob, Jobs, JobKnows
  <2>. QED
    BY <1>4, <2>1, OnlyAwaits DEF ReadEnding
<1>5. CASE LookUpSpender(m, s)
  <2>1. \A found \in BOOLEAN :
          LET job == IF found THEN [NoJob EXCEPT !.step = "noteRead"] ELSE NoJob IN
          job \in Jobs /\ JobKnows(job)
    BY <1>1 DEF NoJob, Jobs, JobKnows
  <2>2. PICK found \in BOOLEAN :
          Await(m, s, IF found THEN [NoJob EXCEPT !.step = "noteRead"] ELSE NoJob)
    BY <1>5 DEF LookUpSpender
  <2>. QED
    BY <1>5, <2>1, <2>2, OnlyAwaits DEF LookUpSpender
<1>6. CASE ReadForNote(m, s)
  <2>. DEFINE job == IF Stored(s) /\ ~ Named(sendRecord[s])
                     THEN [NoJob EXCEPT !.step = "noteWrite", !.prior = sendRecord[s]] ELSE NoJob
  <2>1. job \in Jobs /\ JobKnows(job)
    BY <1>1 DEF NoJob, Jobs, JobKnows, Stored
  <2>. QED
    BY <1>6, <2>1, OnlyAwaits DEF ReadForNote
<1>7. CASE WriteNote(m, s)
  <2>. DEFINE record == [sendJob[m][s].prior EXCEPT !.noted = TRUE]
  <2>1. record \in SendRecords /\ record.state # "none"
    BY <1>1, <1>7 DEF WriteNote, Jobs, JobKnows, SendRecords
  <2>2. /\ Await(m, s, NoJob)
        /\ sendRecord' = [sendRecord EXCEPT ![s] = record]
        /\ UNCHANGED <<sendLockup, sendCall, sendManager, driving>>
    BY <1>7 DEF WriteNote
  <2>. HIDE DEF record
  <2>3. /\ sendRecord' \in [Sends -> SendRecords] /\ DrivenIsStored'
        /\ \A r \in Sends : (sendCall[r] = "saved" => Stored(r))'
    BY <2>1, <2>2, RecordKept
  <2>4. /\ sendJob' \in [SendManagers -> [Sends -> Jobs]]
        /\ \A n \in SendManagers, r \in Sends : JobKnows(sendJob'[n][r])
    BY <1>1, <2>2, AwaitKeeps
  <2>. QED
    BY <2>2, <2>3, <2>4 DEF LnSendInv, LnSendTypeOK
<1>. QED
  BY <1>2, <1>3, <1>4, <1>5, <1>6, <1>7 DEF JobStep

LEMMA LnSendStep == LnSendInv /\ [LnSendNext]_lnSendVars => LnSendInv'
<1>. SUFFICES ASSUME LnSendInv, [LnSendNext]_lnSendVars PROVE LnSendInv'
  OBVIOUS
<1>1. CASE UNCHANGED lnSendVars
  BY <1>1 DEF lnSendVars, LnSendInv, LnSendTypeOK, DrivenIsStored, Stored
<1>2. CASE LnSendNext
  BY <1>2, SendCallStep, SendManagerStep, SendPassStep, SendJobStep DEF LnSendNext
<1>. QED
  BY <1>1, <1>2

LEMMA LnSendInvariant == LnSendSpec => []LnSendInv
BY LnSendInitInv, LnSendStep, PTL DEF LnSendSpec

\* Records, managers and what they await keep their types.
THEOREM SendTypeCorrectness == LnSendSpec => []LnSendTypeOK
BY LnSendInvariant, PTL DEF LnSendInv

\* A send that any manager drives has a record, whatever number of tabs and
\* remounts write and prune the records of any number of sends.
THEOREM DrivenSendsAreStored == LnSendSpec => []DrivenIsStored
BY LnSendInvariant, PTL DEF LnSendInv

-----------------------------------------------------------------------------
LEMMA SwapInitInv == SwapInit => SwapInv
BY DEF SwapInit, SwapInv, SwapTypeOK, SwapStatuses, NoCall, NoScan, NothingFound, Scans,
       TruthOf, CancelKnows, Spent

Calls == [before : SwapStatuses, step : {"none", "read", "marked", "spent", "failed",
                                         "resolving", "reverting", "writingBack"}]

\* One record is written with a status that is true.
LEMMA StatusKept ==
    ASSUME SwapInv, NEW o \in Offers, NEW status \in SwapStatuses, TruthOf(status, deposit[o]),
           swapStatus' = [swapStatus EXCEPT ![o] = status], UNCHANGED deposit
    PROVE  /\ swapStatus' \in [Offers -> SwapStatuses]
           /\ \A r \in Offers : TruthOf(swapStatus'[r], deposit'[r])
BY DEF SwapInv, SwapTypeOK

\* One call goes on, and still knows what it relies on.
LEMMA CallKept ==
    ASSUME SwapInv, NEW o \in Offers, NEW call \in Calls, CancelKnows(call, deposit[o]),
           cancelCall' = [cancelCall EXCEPT ![o] = call], UNCHANGED deposit
    PROVE  /\ cancelCall' \in [Offers -> Calls]
           /\ \A r \in Offers : CancelKnows(cancelCall'[r], deposit'[r])
BY DEF SwapInv, SwapTypeOK, Calls

\* What a call was, and what the other steps of it are.
LEMMA CallSteps ==
    ASSUME SwapInv, NEW o \in Offers
    PROVE  /\ cancelCall[o] \in Calls /\ CancelKnows(cancelCall[o], deposit[o])
           /\ NoCall \in Calls /\ CancelKnows(NoCall, deposit[o])
           /\ \A step \in {"none", "read", "marked", "failed", "reverting", "writingBack"} :
                LET call == [cancelCall[o] EXCEPT !.step = step] IN
                call \in Calls /\ CancelKnows(call, deposit[o])
           /\ swapStatus[o] \in SwapStatuses /\ TruthOf(swapStatus[o], deposit[o])
<1>1. cancelCall[o] \in Calls /\ CancelKnows(cancelCall[o], deposit[o])
  BY DEF SwapInv, SwapTypeOK, Calls
<1>2. NoCall \in Calls /\ CancelKnows(NoCall, deposit[o])
  BY DEF NoCall, Calls, CancelKnows, TruthOf, SwapStatuses
<1>3. ASSUME NEW step \in {"none", "read", "marked", "failed", "reverting", "writingBack"}
      PROVE  LET call == [cancelCall[o] EXCEPT !.step = step] IN
             call \in Calls /\ CancelKnows(call, deposit[o])
  BY <1>1 DEF Calls, CancelKnows
<1>4. swapStatus[o] \in SwapStatuses /\ TruthOf(swapStatus[o], deposit[o])
  BY DEF SwapInv, SwapTypeOK
<1>. QED
  BY <1>1, <1>2, <1>3, <1>4

\* The chain and the screen's createSwap.
LEMMA DepositStep ==
    ASSUME SwapInv, NEW o \in Offers, SendDeposit(o) \/ RecordOffer(o) \/ ChainMoves(o)
    PROVE  SwapInv'
<1>. USE DEF SwapInv, SwapTypeOK, SwapStatuses, TruthOf, CancelKnows, Spent
<1>1. CASE SendDeposit(o)
  BY <1>1 DEF SendDeposit
<1>2. CASE RecordOffer(o)
  BY <1>2 DEF RecordOffer, Write
<1>3. CASE ChainMoves(o)
  BY <1>3 DEF ChainMoves
<1>. QED
  BY <1>1, <1>2, <1>3

LEMMA WatcherStep ==
    ASSUME SwapInv, NEW o \in Offers, WatchSpend(o) \/ Announce(o)
    PROVE  SwapInv'
<1>1. CASE WatchSpend(o)
  <2>. DEFINE status == IF swapStatus[o] \in {"pending", "cancelling"}
                        THEN IF deposit[o] = "returned" THEN "cancelled" ELSE "fulfilled"
                        ELSE swapStatus[o]
  <2>1. status \in SwapStatuses /\ TruthOf(status, deposit[o])
    BY <1>1, CallSteps DEF WatchSpend, SwapStatuses, TruthOf, Spent
  <2>2. swapStatus' = [swapStatus EXCEPT ![o] = status]
    BY <1>1 DEF WatchSpend, SwapInv, SwapTypeOK
  <2>3. spendEvent' \in [Offers -> {"waiting", "stored", "done"}]
    BY <1>1 DEF WatchSpend, SwapInv, SwapTypeOK
  <2>4. UNCHANGED <<deposit, unrecorded, shownStatus, cancelCall, scannedTxids, scan>>
    BY <1>1 DEF WatchSpend
  <2>. HIDE DEF status
  <2>5. /\ swapStatus' \in [Offers -> SwapStatuses]
        /\ \A r \in Offers : TruthOf(swapStatus'[r], deposit'[r])
    BY <2>1, <2>2, <2>4, StatusKept
  <2>. QED
    BY <2>3, <2>4, <2>5 DEF SwapInv, SwapTypeOK
<1>2. CASE Announce(o)
  BY <1>2 DEF Announce, SwapInv, SwapTypeOK, SwapStatuses
<1>. QED
  BY <1>1, <1>2

\* cancelSwap, from its read of the record to the last of its writes.
LEMMA CancelKept ==
    ASSUME SwapInv, NEW o \in Offers, NEW call \in Calls, NEW status \in SwapStatuses,
           CancelKnows(call, deposit[o]), TruthOf(status, deposit[o]),
           cancelCall' = [cancelCall EXCEPT ![o] = call],
           swapStatus' = [swapStatus EXCEPT ![o] = status],
           shownStatus' \in {shownStatus, swapStatus'},
           UNCHANGED <<deposit, unrecorded, spendEvent, scannedTxids, scan>>
    PROVE  SwapInv'
<1>1. /\ swapStatus' \in [Offers -> SwapStatuses]
      /\ \A r \in Offers : TruthOf(swapStatus'[r], deposit'[r])
  BY StatusKept
<1>2. /\ cancelCall' \in [Offers -> Calls]
      /\ \A r \in Offers : CancelKnows(cancelCall'[r], deposit'[r])
  BY CallKept
<1>. QED
  BY <1>1, <1>2 DEF SwapInv, SwapTypeOK, Calls

LEMMA CancelStep ==
    ASSUME SwapInv, NEW o \in Offers,
           \/ StartCancel(o) \/ MarkCancelling(o) \/ CancelOffer(o) \/ FinishCancel(o)
           \/ LookAtDeposit(o) \/ ResolveCancellingSpend(o) \/ CheckBeforeRevert(o) \/ RevertCancel(o)
    PROVE  SwapInv'
<1>0. [swapStatus EXCEPT ![o] = swapStatus[o]] = swapStatus
  BY DEF SwapInv, SwapTypeOK
<1>9. /\ cancelCall[o] \in Calls /\ TruthOf(cancelCall[o].before, deposit[o])
      /\ swapStatus[o] \in SwapStatuses /\ TruthOf(swapStatus[o], deposit[o])
  BY CallSteps DEF CancelKnows
<1>1. CASE StartCancel(o)
  <2>. DEFINE call == [step |-> "read", before |-> swapStatus[o]]
  <2>1. call \in Calls /\ CancelKnows(call, deposit[o])
    BY CallSteps, ZenonT(40) DEF Calls, CancelKnows
  <2>. QED
    BY <1>0, <1>1, <2>1, CallSteps, CancelKept DEF StartCancel
<1>2. CASE MarkCancelling(o)
  <2>1. "cancelling" \in SwapStatuses /\ TruthOf("cancelling", deposit[o])
    BY DEF SwapStatuses, TruthOf
  <2>. QED
    BY <1>2, <2>1, CallSteps, CancelKept DEF MarkCancelling, Write
<1>3. CASE CancelOffer(o)
  <2>0. deposit \in [Offers -> {"none", "live", "swept"} \cup Spent]
    BY DEF SwapInv, SwapTypeOK
  <2>1. CASE deposit[o] = "live" /\ deposit' = [deposit EXCEPT ![o] = "returned"]
    <3>1. TruthOf(swapStatus[o], "returned") /\ TruthOf(cancelCall[o].before, "returned")
      BY <2>1, CallSteps DEF TruthOf, CancelKnows
    <3>2. PICK outcome \in {"spent", "failed"}, status \in {swapStatus[o], "cancelled"} :
            /\ cancelCall' = [cancelCall EXCEPT ![o].step = outcome]
            /\ swapStatus' = [swapStatus EXCEPT ![o] = status]
      BY <1>3, <2>1, <2>0 DEF CancelOffer
    <3>3. \A r \in Offers : /\ r # o => /\ swapStatus'[r] = swapStatus[r]
                                        /\ cancelCall'[r] = cancelCall[r]
                                        /\ deposit'[r] = deposit[r]
                            /\ r = o => /\ swapStatus'[r] = status
                                        /\ cancelCall'[r] = [cancelCall[o] EXCEPT !.step = outcome]
                                        /\ deposit'[r] = "returned"
      BY <2>1, <3>2 DEF SwapInv, SwapTypeOK
    <3>8. status \in SwapStatuses /\ TruthOf(status, "returned")
      BY <1>9, <3>1 DEF SwapStatuses, TruthOf
    <3>9. /\ [cancelCall[o] EXCEPT !.step = outcome] \in Calls
          /\ [cancelCall[o] EXCEPT !.step = outcome].before = cancelCall[o].before
      BY <1>9 DEF Calls
    <3>4. /\ status \in SwapStatuses /\ TruthOf(status, "returned")
          /\ [cancelCall[o] EXCEPT !.step = outcome] \in Calls
          /\ CancelKnows([cancelCall[o] EXCEPT !.step = outcome], "returned")
      BY <3>1, <3>8, <3>9 DEF CancelKnows, Spent
    <3>5. \A r \in Offers : TruthOf(swapStatus'[r], deposit'[r]) /\ CancelKnows(cancelCall'[r], deposit'[r])
      BY <3>3, <3>4 DEF SwapInv
    <3>6. SwapTypeOK'
      BY <1>3, <2>1, <3>2, <3>4 DEF CancelOffer, SwapInv, SwapTypeOK, Spent, Calls
    <3>7. \A r \in Offers : TruthOf(scan'.found[r], deposit'[r])
      <4>1. scan' = scan
        BY <1>3 DEF CancelOffer
      <4>2. ASSUME NEW r \in Offers PROVE TruthOf(scan.found[r], deposit'[r])
        <5>1. TruthOf(scan.found[r], deposit[r])
          BY DEF SwapInv
        <5>. QED
          BY <2>1, <3>3, <5>1 DEF TruthOf
      <4>. QED
        BY <4>1, <4>2
    <3>. QED
      BY <3>5, <3>6, <3>7 DEF SwapInv
  <2>2. CASE cancelCall' = [cancelCall EXCEPT ![o].step = "failed"] /\ UNCHANGED <<deposit, swapStatus>>
    BY <1>0, <1>3, <2>2, CallSteps, CancelKept DEF CancelOffer
  <2>. QED
    BY <1>3, <2>1, <2>2 DEF CancelOffer
<1>4. CASE FinishCancel(o)
  <2>1. "cancelled" \in SwapStatuses /\ TruthOf("cancelled", deposit[o])
    BY <1>4, CallSteps DEF FinishCancel, SwapStatuses, TruthOf, CancelKnows
  <2>. QED
    BY <1>0, <1>4, <2>1, CallSteps, CancelKept DEF FinishCancel, Write
<1>5. CASE LookAtDeposit(o)
  <2>1. CASE deposit[o] \in Spent /\ cancelCall' = [cancelCall EXCEPT ![o].step = "resolving"]
             /\ UNCHANGED <<swapStatus, shownStatus>>
    <3>. DEFINE call == [cancelCall[o] EXCEPT !.step = "resolving"]
    <3>1. call \in Calls /\ CancelKnows(call, deposit[o])
      BY <1>9, <2>1 DEF Calls, CancelKnows
    <3>. QED
      BY <1>0, <1>5, <2>1, <3>1, CallSteps, CancelKept DEF LookAtDeposit
  <2>2. CASE deposit[o] = "swept" /\ cancelCall' = [cancelCall EXCEPT ![o] = NoCall]
             /\ Write(o, "recoverable")
    <3>1. "recoverable" \in SwapStatuses /\ TruthOf("recoverable", deposit[o])
      BY <2>2 DEF SwapStatuses, TruthOf
    <3>. QED
      BY <1>5, <2>2, <3>1, CallSteps, CancelKept DEF LookAtDeposit, Write
  <2>3. CASE cancelCall' = [cancelCall EXCEPT ![o].step = "reverting"]
             /\ UNCHANGED <<swapStatus, shownStatus>>
    BY <1>0, <1>5, <2>3, CallSteps, CancelKept DEF LookAtDeposit
  <2>4. CASE cancelCall' = [cancelCall EXCEPT ![o] = NoCall] /\ UNCHANGED <<swapStatus, shownStatus>>
    BY <1>0, <1>5, <2>4, CallSteps, CancelKept DEF LookAtDeposit
  <2>. QED
    BY <1>5, <2>1, <2>2, <2>3, <2>4 DEF LookAtDeposit
<1>6. CASE ResolveCancellingSpend(o)
  <2>1. Outcome(o) \in SwapStatuses /\ TruthOf(Outcome(o), deposit[o])
    BY <1>6, CallSteps DEF ResolveCancellingSpend, Outcome, IsCancelSpend, SwapStatuses, TruthOf,
                           CancelKnows, Spent
  <2>. QED
    BY <1>0, <1>6, <2>1, CallSteps, CancelKept DEF ResolveCancellingSpend, Write
<1>7. CASE CheckBeforeRevert(o)
  BY <1>0, <1>7, CallSteps, CancelKept DEF CheckBeforeRevert
<1>8. CASE RevertCancel(o)
  <2>1. cancelCall[o].before \in SwapStatuses /\ TruthOf(cancelCall[o].before, deposit[o])
    BY CallSteps DEF Calls, CancelKnows
  <2>. QED
    BY <1>8, <2>1, CallSteps, CancelKept DEF RevertCancel, Write
<1>. QED
  BY <1>1, <1>2, <1>3, <1>4, <1>5, <1>6, <1>7, <1>8

\* The scan of the history, and the page that starts over.
LEMMA ScanStep ==
    ASSUME SwapInv,
           \/ \E o \in Offers : AddRestored(o)
           \/ ReloadHistory \/ FindOffers \/ MarkTxidsScanned \/ LeaveScan \/ ReloadSwapPage
    PROVE  SwapInv'
<1>0. /\ scan \in Scans /\ \A o \in Offers : TruthOf(scan.found[o], deposit[o])
      /\ deposit \in [Offers -> {"none", "live", "swept", "filled", "returned"}]
  BY DEF SwapInv, SwapTypeOK, Spent
<1>9. NoScan \in Scans /\ NoScan.found = [o \in Offers |-> "absent"]
  BY DEF NoScan, NothingFound, Scans, SwapStatuses
\* A scan that goes on, with what it found unchanged or forgotten.
<1>10. ASSUME NEW to \in Scans, scan' = to,
              \A o \in Offers : to.found[o] \in {scan.found[o], "absent"},
              UNCHANGED <<deposit, unrecorded, swapStatus, spendEvent, cancelCall>>,
              shownStatus' = shownStatus, scannedTxids' \subseteq Offers
       PROVE  SwapInv'
  <2>1. \A o \in Offers : TruthOf(scan'.found[o], deposit'[o])
    BY <1>0, <1>10 DEF TruthOf
  <2>. QED
    BY <1>10, <2>1 DEF SwapInv, SwapTypeOK
<1>1. ASSUME NEW o \in Offers, AddRestored(o) PROVE SwapInv'
  <2>1. scan.found[o] \in SwapStatuses /\ TruthOf(scan.found[o], deposit[o])
    BY <1>0 DEF Scans
  <2>2. /\ swapStatus' = [swapStatus EXCEPT ![o] = scan.found[o]]
        /\ shownStatus' \in {swapStatus', shownStatus}
        /\ UNCHANGED <<deposit, unrecorded, spendEvent, cancelCall, scannedTxids>>
    BY <1>1 DEF AddRestored
  <2>3. PICK to \in {NoScan, [scan EXCEPT !.found[o] = "absent"]} : scan' = to
    BY <1>1 DEF AddRestored
  <2>4. to \in Scans /\ \A r \in Offers : to.found[r] \in {scan.found[r], "absent"}
    BY <1>0, <1>9 DEF Scans, SwapStatuses
  <2>5. /\ swapStatus' \in [Offers -> SwapStatuses]
        /\ \A r \in Offers : TruthOf(swapStatus'[r], deposit'[r])
    BY <2>1, <2>2, StatusKept
  <2>6. \A r \in Offers : TruthOf(scan'.found[r], deposit'[r])
    BY <1>0, <2>2, <2>3, <2>4 DEF TruthOf
  <2>. QED
    BY <2>2, <2>3, <2>4, <2>5, <2>6 DEF SwapInv, SwapTypeOK
<1>2. CASE ReloadHistory
  <2>1. PICK to \in {[NoScan EXCEPT !.step = "reading",
                             !.known = {o \in Offers : swapStatus[o] # "absent"}],
                     [scan EXCEPT !.abandoned = TRUE]} : scan' = to
    BY <1>2 DEF ReloadHistory
  <2>2. to \in Scans /\ \A o \in Offers : to.found[o] \in {scan.found[o], "absent"}
    <3>1. CASE to = [scan EXCEPT !.abandoned = TRUE]
      BY <1>0, <3>1 DEF Scans
    <3>2. CASE to = [NoScan EXCEPT !.step = "reading",
                                   !.known = {o \in Offers : swapStatus[o] # "absent"}]
      <4>1. to \in Scans /\ to.found = NoScan.found
        BY <1>9, <3>2 DEF Scans
      <4>. QED
        BY <1>9, <4>1
    <3>. QED
      BY <2>1, <3>1, <3>2
  <2>. QED
    BY <1>2, <1>10, <2>1, <2>2 DEF ReloadHistory, SwapInv, SwapTypeOK
<1>3. CASE FindOffers
  <2>1. PICK answered \in SUBSET ({o \in Offers : deposit[o] # "none"} \ scannedTxids) :
          scan' = [scan EXCEPT !.step = "found", !.marked = answered,
                     !.found = [o \in Offers |->
                       IF o \in answered \ scan.known THEN OnChain(o) ELSE "absent"]]
    BY <1>3 DEF FindOffers
  <2>. DEFINE found == [o \in Offers |->
                         IF o \in answered \ scan.known THEN OnChain(o) ELSE "absent"]
  <2>2. ASSUME NEW o \in Offers
        PROVE  found[o] \in SwapStatuses /\ TruthOf(found[o], deposit[o])
    <3>1. CASE o \in answered
      <4>1. deposit[o] \in {"live", "swept", "filled", "returned"}
        BY <1>0, <3>1
      <4>. QED
        BY <4>1 DEF OnChain, SwapStatuses, TruthOf
    <3>2. CASE o \notin answered
      BY <3>2 DEF SwapStatuses, TruthOf
    <3>. QED
      BY <3>1, <3>2
  <2>3. found \in [Offers -> SwapStatuses]
    BY <2>2
  <2>. HIDE DEF found
  <2>4. scan' = [scan EXCEPT !.step = "found", !.marked = answered, !.found = found]
    BY <2>1 DEF found
  <2>5. scan' \in Scans /\ scan'.found = found
    BY <1>0, <2>3, <2>4 DEF Scans
  <2>6. UNCHANGED <<deposit, unrecorded, swapStatus, shownStatus, spendEvent, cancelCall, scannedTxids>>
    BY <1>3 DEF FindOffers
  <2>7. \A o \in Offers : TruthOf(scan'.found[o], deposit'[o])
    BY <2>2, <2>5, <2>6
  <2>. QED
    BY <2>5, <2>6, <2>7 DEF SwapInv, SwapTypeOK
<1>4. CASE MarkTxidsScanned
  <2>1. PICK to \in {NoScan, [scan EXCEPT !.step = "adding"]} : scan' = to
    BY <1>4 DEF MarkTxidsScanned
  <2>2. to \in Scans /\ \A o \in Offers : to.found[o] \in {scan.found[o], "absent"}
    BY <1>0, <1>9 DEF Scans
  <2>3. scannedTxids' \subseteq Offers
    BY <1>0, <1>4 DEF MarkTxidsScanned, SwapInv, SwapTypeOK, Scans
  <2>. QED
    BY <1>4, <1>10, <2>1, <2>2, <2>3 DEF MarkTxidsScanned
<1>5. CASE LeaveScan
  BY <1>5, <1>9, <1>10 DEF LeaveScan, SwapInv, SwapTypeOK
<1>6. CASE ReloadSwapPage
  <2>1. cancelCall' = [o \in Offers |-> NoCall] /\ NoCall \in Calls
        /\ \A o \in Offers : CancelKnows(NoCall, deposit[o])
    BY <1>6 DEF ReloadSwapPage, NoCall, Calls, SwapStatuses, CancelKnows, TruthOf
  <2>2. \A o \in Offers : CancelKnows(cancelCall'[o], deposit'[o]) /\ TruthOf(scan'.found[o], deposit'[o])
    BY <1>6, <1>9, <2>1 DEF ReloadSwapPage, TruthOf
  <2>. QED
    BY <1>6, <1>9, <2>1, <2>2 DEF ReloadSwapPage, SwapInv, SwapTypeOK, Calls
<1>. QED
  BY <1>1, <1>2, <1>3, <1>4, <1>5, <1>6

LEMMA SwapStepInv == SwapInv /\ [SwapNext]_swapVars => SwapInv'
<1>. SUFFICES ASSUME SwapInv, [SwapNext]_swapVars PROVE SwapInv'
  OBVIOUS
<1>1. CASE UNCHANGED swapVars
  BY <1>1 DEF swapVars, SwapInv, SwapTypeOK
<1>2. CASE SwapNext
  BY <1>2, DepositStep, WatcherStep, CancelStep, ScanStep DEF SwapNext
<1>. QED
  BY <1>1, <1>2

LEMMA SwapInvariant == SwapSpec => []SwapInv
BY SwapInitInv, SwapStepInv, PTL DEF SwapSpec

LEMMA OffersAreTrue == SwapInv => OfferOutcomeIsTrue
BY DEF SwapInv, TruthOf, OfferOutcomeIsTrue

\* Statuses, calls and scans keep their types.
THEOREM SwapTypeCorrectness == SwapSpec => []SwapTypeOK
BY SwapInvariant, PTL DEF SwapInv

\* The final status of every offer is what happened to its deposit, in whatever
\* order watcher, cancel, reconciliation and scan write it.
THEOREM OffersTellTheTruth == SwapSpec => []OfferOutcomeIsTrue
BY SwapInvariant, OffersAreTrue, PTL

-----------------------------------------------------------------------------
(* Lightning receives.                                                     *)

Trackings == [tab : Tabs \cup {NoTab}, run : 0..MaxMounts,
              phase : {"none", "waiting", "adding", "tracked", "elsewhere",
                       "notRunning", "failed", "gone"}]

\* The queue of the lock plays no part in what the marks stand for.
ReceiveTypes ==
    /\ mounts \in [Tabs -> 0..MaxMounts] /\ effect \in [Tabs -> 0..MaxMounts]
    /\ driver \in [Drivers -> Held \cup {"absent", "queued", "done"}]
    /\ admitted \in [Tabs -> SUBSET Receives] /\ monitored \in [Drivers -> SUBSET Receives]
    /\ tracking \in [Receives -> Trackings]
    /\ receiveRecord \in [Receives -> {"none", "pending", "settled", "refunded"}]

\* The run in force in a tab has not been torn down, and a run drives nothing
\* before its manager has started.
RunsInv ==
    /\ \A t \in Tabs : effect[t] <= mounts[t]
    /\ \A t \in Tabs, k \in 1..MaxMounts : k > mounts[t] => driver[<<t, k>>] = "absent"
    /\ \A t \in Tabs : effect[t] # 0 =>
         driver[<<t, effect[t]>>] \in {"queued", "starting", "running", "broken"}
    /\ \A d \in Drivers :
         driver[d] \in {"absent", "queued", "starting", "closingEarly"} => monitored[d] = {}

\* What a mark in a tab stands for: a record, or the run in force there that is
\* about to drive the receive or drives it.
Adds(t, r) == tracking[r].phase = "adding" /\ tracking[r].tab = t /\ tracking[r].run = effect[t]
Drives(t, r) == r \in monitored[<<t, effect[t]>>]
MarksInv ==
    \A t \in Tabs : \A r \in admitted[t] :
      receiveRecord[r] # "none" \/ (effect[t] # 0 /\ (Adds(t, r) \/ Drives(t, r)))

\* A call of track() under way is made in a tab, and adds to one of its runs.
CallsInv ==
    \A r \in Receives :
      /\ tracking[r].phase \in {"waiting", "adding"} => tracking[r].tab \in Tabs
      /\ tracking[r].phase = "adding" => tracking[r].run # 0

ReceiveInv == ReceiveTypes /\ RunsInv /\ MarksInv /\ CallsInv

LEMMA RunsAreDrivers ==
    /\ MaxMounts \in Nat \ {0}
    /\ \A t \in Tabs, k \in 1..MaxMounts : <<t, k>> \in Drivers
    /\ \A d \in Drivers : d[1] \in Tabs /\ d[2] \in 1..MaxMounts /\ d = <<d[1], d[2]>>
BY MaxMountsAssumption DEF Drivers

LEMMA InitReceives == ReceiveInit => ReceiveInv
<1>. SUFFICES ASSUME ReceiveInit PROVE ReceiveInv
  OBVIOUS
<1>1. NotTracked \in Trackings
  BY RunsAreDrivers DEF NotTracked, Trackings
<1>2. ReceiveTypes
  BY <1>1, RunsAreDrivers DEF ReceiveInit, ReceiveTypes
<1>3. RunsInv
  BY RunsAreDrivers DEF ReceiveInit, RunsInv
<1>. QED
  BY <1>2, <1>3 DEF ReceiveInit, ReceiveInv, MarksInv, CallsInv, NotTracked

\* A call of track() that is not adding a swap goes on.
LEMMA TrackGoesOn ==
    ASSUME ReceiveInv, NEW t \in Tabs, NEW r \in Receives, tracking[r].phase # "adding",
           NEW to \in Trackings, tracking' = [tracking EXCEPT ![r] = to],
           to.tab = t,
           \/ UNCHANGED admitted /\ to.phase # "adding"
           \/ /\ admitted' = [admitted EXCEPT ![t] = @ \cup {r}]
              /\ to.phase = "adding" /\ to.run = effect[t] /\ effect[t] # 0,
           UNCHANGED <<mounts, effect, driver, monitored, receiveRecord>>
    PROVE  ReceiveInv'
<1>0. admitted \in [Tabs -> SUBSET Receives] /\ tracking \in [Receives -> Trackings]
  BY DEF ReceiveInv, ReceiveTypes
<1>1. ReceiveTypes'
  BY <1>0 DEF ReceiveInv, ReceiveTypes
<1>2. RunsInv'
  BY DEF ReceiveInv, RunsInv
<1>3. ASSUME NEW s \in Tabs, NEW q \in admitted'[s]
      PROVE  receiveRecord'[q] # "none" \/ (effect'[s] # 0 /\ (Adds(s, q)' \/ Drives(s, q)'))
  <2>0. q \in Receives
    BY <1>0, <1>3
  <2>1. CASE q \in admitted[s]
    <3>1. receiveRecord[q] # "none" \/ (effect[s] # 0 /\ (Adds(s, q) \/ Drives(s, q)))
      BY <2>1 DEF ReceiveInv, MarksInv
    <3>2. Adds(s, q) => q # r /\ tracking'[q] = tracking[q]
      BY <1>0, <2>0 DEF Adds
    <3>. QED
      BY <3>1, <3>2 DEF Adds, Drives
  <2>2. CASE q \notin admitted[s]
    <3>1. s = t /\ q = r /\ to.phase = "adding" /\ to.run = effect[t] /\ effect[t] # 0
      BY <1>0, <1>3, <2>2
    <3>2. tracking'[r] = to
      BY <1>0
    <3>. QED
      BY <3>1, <3>2 DEF Adds
  <2>. QED
    BY <2>1, <2>2
<1>4. CallsInv'
  BY <1>0 DEF ReceiveInv, CallsInv
<1>. QED
  BY <1>1, <1>2, <1>3, <1>4 DEF ReceiveInv, MarksInv

LEMMA AdmitKeeps ==
    ASSUME ReceiveInv, NEW t \in Tabs, NEW r \in Receives, tracking[r].phase # "adding",
           HasManager(t), Admit(t, r), UNCHANGED <<mounts, effect, driver, monitored, receiveRecord>>
    PROVE  ReceiveInv'
<1>1. effect[t] \in 0..MaxMounts /\ effect[t] # 0
  BY DEF HasManager, ReceiveInv, ReceiveTypes
<1>2. \A phase \in {"tracked", "adding"} :
        [tab |-> t, phase |-> phase, run |-> effect[t]] \in Trackings
  BY <1>1 DEF Trackings
<1>. QED
  BY <1>1, <1>2, TrackGoesOn DEF Admit

LEMMA RefuseKeeps ==
    ASSUME ReceiveInv, NEW t \in Tabs, NEW r \in Receives, tracking[r].phase # "adding",
           Refuse(t, r), UNCHANGED <<mounts, effect, driver, monitored, receiveRecord>>
    PROVE  ReceiveInv'
<1>1. \A phase \in {"elsewhere", "notRunning"} : [tab |-> t, run |-> 0, phase |-> phase] \in Trackings
  BY RunsAreDrivers DEF Trackings
<1>. QED
  BY <1>1, TrackGoesOn DEF Refuse

\* A step that changes a run and what it drives, but not those in force that
\* drive a receive.
LEMMA RunGoesOn ==
    ASSUME ReceiveInv, NEW d \in Drivers, NEW to \in Held \cup {"queued", "done"},
           driver' = [driver EXCEPT ![d] = to], driver[d] # "absent",
           InForce(d) => to \in {"queued", "starting", "running", "broken"},
           NEW swaps \in SUBSET Receives, monitored' = [monitored EXCEPT ![d] = swaps],
           to \in {"queued", "starting", "closingEarly"} => swaps = {},
           UNCHANGED <<mounts, effect>>
    PROVE  RunsInv'
<1>0. /\ driver \in [Drivers -> Held \cup {"absent", "queued", "done"}]
      /\ monitored \in [Drivers -> SUBSET Receives]
      /\ effect \in [Tabs -> 0..MaxMounts] /\ mounts \in [Tabs -> 0..MaxMounts]
  BY DEF ReceiveInv, ReceiveTypes
<1>1. to # "absent"
  BY DEF Held
<1>2. ASSUME NEW t \in Tabs, NEW k \in 1..MaxMounts, k > mounts[t] PROVE driver'[<<t, k>>] = "absent"
  <2>1. driver[<<t, k>>] = "absent" /\ <<t, k>> \in Drivers
    BY <1>2, RunsAreDrivers DEF ReceiveInv, RunsInv
  <2>. QED
    BY <1>0, <2>1
<1>3. ASSUME NEW t \in Tabs, effect[t] # 0
      PROVE  driver'[<<t, effect[t]>>] \in {"queued", "starting", "running", "broken"}
  <2>1. /\ driver[<<t, effect[t]>>] \in {"queued", "starting", "running", "broken"}
        /\ <<t, effect[t]>> \in Drivers
    BY <1>0, <1>3, RunsAreDrivers DEF ReceiveInv, RunsInv
  <2>2. d = <<t, effect[t]>> => InForce(d)
    BY DEF InForce
  <2>. QED
    BY <1>0, <2>1, <2>2
<1>4. ASSUME NEW e \in Drivers, driver'[e] \in {"absent", "queued", "starting", "closingEarly"}
      PROVE  monitored'[e] = {}
  BY <1>0, <1>1, <1>4 DEF ReceiveInv, RunsInv
<1>. QED
  BY <1>0, <1>2, <1>3, <1>4 DEF ReceiveInv, RunsInv

\* The effect of a tab runs or is torn down: the marks of the tab go with it.
LEMMA TabStep ==
    ASSUME ReceiveInv, NEW t \in Tabs, MountDriver(t) \/ UnmountDriver(t) \/ CloseTab(t)
    PROVE  ReceiveInv'
<1>0. /\ driver \in [Drivers -> Held \cup {"absent", "queued", "done"}]
      /\ monitored \in [Drivers -> SUBSET Receives] /\ admitted \in [Tabs -> SUBSET Receives]
      /\ effect \in [Tabs -> 0..MaxMounts] /\ mounts \in [Tabs -> 0..MaxMounts]
      /\ tracking \in [Receives -> Trackings] /\ MaxMounts \in Nat
  BY RunsAreDrivers DEF ReceiveInv, ReceiveTypes
<1>1. CASE MountDriver(t)
  <2>. DEFINE k == mounts[t] + 1
              d == <<t, k>>
  <2>1. k \in 1..MaxMounts /\ d \in Drivers /\ effect[t] = 0 /\ driver[d] = "absent"
    <3>1. k \in 1..MaxMounts /\ effect[t] = 0 /\ k > mounts[t]
      BY <1>0, <1>1 DEF MountDriver
    <3>. QED
      BY <3>1, RunsAreDrivers DEF ReceiveInv, RunsInv
  <2>2. PICK phase \in {"queued", "starting"} :
          /\ mounts' = [mounts EXCEPT ![t] = k] /\ effect' = [effect EXCEPT ![t] = k]
          /\ driver' = [driver EXCEPT ![d] = phase]
          /\ UNCHANGED <<admitted, monitored, tracking, receiveRecord>>
    <3>1. /\ mounts' = [mounts EXCEPT ![t] = k] /\ effect' = [effect EXCEPT ![t] = k]
          /\ UNCHANGED <<admitted, monitored, tracking, receiveRecord>>
      BY <1>1 DEF MountDriver
    <3>2. driver' = [driver EXCEPT ![d] = IF hasLocks THEN "queued" ELSE "starting"]
      BY <1>1 DEF MountDriver
    <3>. QED
      BY <3>1, <3>2
  <2>. HIDE DEF k, d
  <2>3. ReceiveTypes'
    BY <1>0, <2>1, <2>2 DEF ReceiveInv, ReceiveTypes, Held
  <2>4. RunsInv'
    <3>1. \A s \in Tabs : effect'[s] <= mounts'[s]
      BY <1>0, <2>1, <2>2 DEF ReceiveInv, RunsInv
    <3>2. ASSUME NEW s \in Tabs, NEW j \in 1..MaxMounts, j > mounts'[s] PROVE driver'[<<s, j>>] = "absent"
      <4>1. j > mounts[s] /\ <<s, j>> # d /\ <<s, j>> \in Drivers
        BY <1>0, <2>1, <2>2, <3>2, RunsAreDrivers DEF k, d
      <4>. QED
        BY <1>0, <2>2, <4>1 DEF ReceiveInv, RunsInv
    <3>3. ASSUME NEW s \in Tabs, effect'[s] # 0
          PROVE  driver'[<<s, effect'[s]>>] \in {"queued", "starting", "running", "broken"}
      <4>1. CASE s = t
        BY <1>0, <2>1, <2>2, <4>1 DEF d
      <4>2. CASE s # t
        <5>1. effect'[s] = effect[s] /\ <<s, effect[s]>> # d /\ <<s, effect[s]>> \in Drivers
          BY <1>0, <2>2, <3>3, <4>2, RunsAreDrivers DEF d
        <5>. QED
          BY <1>0, <2>2, <3>3, <5>1 DEF ReceiveInv, RunsInv
      <4>. QED
        BY <4>1, <4>2
    <3>4. ASSUME NEW e \in Drivers, driver'[e] \in {"absent", "queued", "starting", "closingEarly"}
          PROVE  monitored'[e] = {}
      BY <1>0, <2>1, <2>2, <3>4 DEF ReceiveInv, RunsInv
    <3>. QED
      BY <3>1, <3>2, <3>3, <3>4 DEF RunsInv
  <2>5. MarksInv'
    <3>1. ASSUME NEW s \in Tabs, NEW r \in admitted[s]
          PROVE  receiveRecord[r] # "none" \/ (effect'[s] # 0 /\ (Adds(s, r)' \/ Drives(s, r)'))
      <4>1. s # t => effect'[s] = effect[s]
        BY <1>0, <2>2
      <4>. QED
        BY <2>1, <2>2, <4>1 DEF ReceiveInv, MarksInv, Adds, Drives
    <3>. QED
      BY <2>2, <3>1 DEF MarksInv
  <2>. QED
    BY <2>2, <2>3, <2>4, <2>5 DEF ReceiveInv, CallsInv
<1>2. CASE UnmountDriver(t)
  <2>. DEFINE d == <<t, effect[t]>>
              to == CASE driver[d] = "queued" -> "done" [] driver[d] = "starting" -> "closingEarly"
                      [] OTHER -> "closing"
  <2>1. effect[t] # 0 /\ d \in Drivers /\ driver[d] \in {"queued", "starting", "running", "broken"}
    BY <1>0, <1>2, RunsAreDrivers DEF UnmountDriver, ReceiveInv, RunsInv
  <2>2. /\ effect' = [effect EXCEPT ![t] = 0] /\ admitted' = [admitted EXCEPT ![t] = {}]
        /\ driver' = [driver EXCEPT ![d] = to]
        /\ UNCHANGED <<mounts, monitored, tracking, receiveRecord>>
    BY <1>0, <1>2, <2>1 DEF UnmountDriver
  <2>3. /\ to \in {"done", "closingEarly", "closing"}
        /\ to = "closingEarly" => driver[d] = "starting"
    <3>1. CASE driver[d] = "queued"
      BY <3>1
    <3>2. CASE driver[d] = "starting"
      BY <3>2
    <3>3. CASE driver[d] \in {"running", "broken"}
      BY <3>3
    <3>. QED
      BY <2>1, <3>1, <3>2, <3>3
  <2>. HIDE DEF to
  <2>4. ReceiveTypes'
    <3>1. driver' \in [Drivers -> Held \cup {"absent", "queued", "done"}]
      <4>1. to \in Held \cup {"absent", "queued", "done"}
        BY <2>3 DEF Held
      <4>. QED
        BY <1>0, <2>2, <4>1
    <3>2. effect' \in [Tabs -> 0..MaxMounts] /\ admitted' \in [Tabs -> SUBSET Receives]
      BY <1>0, <2>2
    <3>. QED
      BY <2>2, <3>1, <3>2 DEF ReceiveInv, ReceiveTypes
  <2>5. RunsInv'
    <3>1. \A s \in Tabs : effect'[s] <= mounts'[s]
      BY <1>0, <2>2 DEF ReceiveInv, RunsInv
    <3>2. ASSUME NEW s \in Tabs, NEW j \in 1..MaxMounts, j > mounts'[s] PROVE driver'[<<s, j>>] = "absent"
      <4>1. driver[<<s, j>>] = "absent" /\ <<s, j>> \in Drivers
        BY <2>2, <3>2, RunsAreDrivers DEF ReceiveInv, RunsInv
      <4>. QED
        BY <1>0, <2>1, <2>2, <4>1
    <3>3. ASSUME NEW s \in Tabs, effect'[s] # 0
          PROVE  driver'[<<s, effect'[s]>>] \in {"queued", "starting", "running", "broken"}
      <4>1. s # t /\ effect'[s] = effect[s] /\ <<s, effect[s]>> # d /\ <<s, effect[s]>> \in Drivers
        BY <1>0, <2>2, <3>3, RunsAreDrivers
      <4>. QED
        BY <1>0, <2>2, <3>3, <4>1 DEF ReceiveInv, RunsInv
    <3>4. ASSUME NEW e \in Drivers, driver'[e] \in {"absent", "queued", "starting", "closingEarly"}
          PROVE  monitored'[e] = {}
      BY <1>0, <2>1, <2>2, <2>3, <3>4 DEF ReceiveInv, RunsInv
    <3>. QED
      BY <3>1, <3>2, <3>3, <3>4 DEF RunsInv
  <2>6. MarksInv'
    <3>1. ASSUME NEW s \in Tabs, NEW r \in admitted'[s]
          PROVE  receiveRecord[r] # "none" \/ (effect'[s] # 0 /\ (Adds(s, r)' \/ Drives(s, r)'))
      <4>1. s # t /\ effect'[s] = effect[s] /\ r \in admitted[s]
        BY <1>0, <2>2, <3>1
      <4>. QED
        BY <2>2, <4>1 DEF ReceiveInv, MarksInv, Adds, Drives
    <3>. QED
      BY <2>2, <3>1 DEF MarksInv
  <2>. QED
    BY <2>2, <2>4, <2>5, <2>6 DEF ReceiveInv, CallsInv
<1>3. CASE CloseTab(t)
  <2>1. /\ effect' = [effect EXCEPT ![t] = 0] /\ admitted' = [admitted EXCEPT ![t] = {}]
        /\ UNCHANGED <<mounts, receiveRecord>>
        /\ driver' = [d \in Drivers |-> IF d[1] = t /\ driver[d] # "absent" THEN "done" ELSE driver[d]]
        /\ monitored' = [d \in Drivers |-> IF d[1] = t THEN {} ELSE monitored[d]]
    BY <1>3 DEF CloseTab
  <2>2. /\ tracking' \in [Receives -> Trackings]
        /\ \A r \in Receives : tracking'[r] = tracking[r] \/ (tracking[r].tab = t /\ tracking'[r].phase = "gone")
    <3>1. \A r \in Receives : [tracking[r] EXCEPT !.phase = "gone"] \in Trackings
      BY <1>0 DEF Trackings
    <3>. QED
      BY <1>0, <1>3, <3>1 DEF CloseTab
  <2>3. ReceiveTypes'
    BY <1>0, <2>1, <2>2 DEF ReceiveInv, ReceiveTypes
  <2>4. RunsInv'
    <3>1. \A s \in Tabs : effect'[s] <= mounts'[s]
      BY <1>0, <2>1 DEF ReceiveInv, RunsInv
    <3>2. ASSUME NEW s \in Tabs, NEW j \in 1..MaxMounts, j > mounts'[s] PROVE driver'[<<s, j>>] = "absent"
      <4>1. driver[<<s, j>>] = "absent" /\ <<s, j>> \in Drivers
        BY <2>1, <3>2, RunsAreDrivers DEF ReceiveInv, RunsInv
      <4>. QED
        BY <2>1, <4>1
    <3>3. ASSUME NEW s \in Tabs, effect'[s] # 0
          PROVE  driver'[<<s, effect'[s]>>] \in {"queued", "starting", "running", "broken"}
      <4>1. s # t /\ effect'[s] = effect[s] /\ <<s, effect[s]>> \in Drivers
        BY <1>0, <2>1, <3>3, RunsAreDrivers
      <4>2. driver'[<<s, effect[s]>>] = driver[<<s, effect[s]>>]
        BY <2>1, <4>1
      <4>. QED
        BY <3>3, <4>1, <4>2 DEF ReceiveInv, RunsInv
    <3>4. ASSUME NEW e \in Drivers, driver'[e] \in {"absent", "queued", "starting", "closingEarly"}
          PROVE  monitored'[e] = {}
      BY <2>1, <3>4 DEF ReceiveInv, RunsInv
    <3>. QED
      BY <3>1, <3>2, <3>3, <3>4 DEF RunsInv
  <2>5. MarksInv'
    <3>1. ASSUME NEW s \in Tabs, NEW r \in admitted'[s]
          PROVE  receiveRecord[r] # "none" \/ (effect'[s] # 0 /\ (Adds(s, r)' \/ Drives(s, r)'))
      <4>1. s # t /\ effect'[s] = effect[s] /\ r \in admitted[s] /\ r \in Receives
        BY <1>0, <2>1, <3>1
      <4>2. Adds(s, r) => Adds(s, r)'
        BY <2>2, <4>1 DEF Adds
      <4>3. effect[s] # 0 /\ Drives(s, r) => Drives(s, r)'
        <5>1. effect[s] # 0 => <<s, effect[s]>> \in Drivers /\ <<s, effect[s]>>[1] = s
          BY <1>0, <4>1, RunsAreDrivers
        <5>. QED
          BY <2>1, <4>1, <5>1 DEF Drives
      <4>. QED
        BY <4>1, <4>2, <4>3 DEF ReceiveInv, MarksInv
    <3>. QED
      BY <2>1, <3>1 DEF MarksInv
  <2>6. CallsInv'
    BY <2>2 DEF ReceiveInv, CallsInv
  <2>. QED
    BY <2>3, <2>4, <2>5, <2>6 DEF ReceiveInv
<1>. QED
  BY <1>1, <1>2, <1>3

\* A run waits for the lock, starts its manager, or stops it.
LEMMA RunStep ==
    ASSUME ReceiveInv, NEW d \in Drivers,
           GrantLock(d) \/ StartManager(d) \/ BreakManager(d) \/ StopManager(d)
    PROVE  ReceiveInv'
<1>0. /\ driver \in [Drivers -> Held \cup {"absent", "queued", "done"}]
      /\ monitored \in [Drivers -> SUBSET Receives] /\ admitted \in [Tabs -> SUBSET Receives]
      /\ effect \in [Tabs -> 0..MaxMounts]
      /\ d[1] \in Tabs /\ d[2] \in 1..MaxMounts /\ d = <<d[1], d[2]>>
      /\ \A t \in Tabs : effect[t] # 0 => <<t, effect[t]>> \in Drivers
  BY RunsAreDrivers DEF ReceiveInv, ReceiveTypes
<1>1. InForce(d) => driver[d] \in {"queued", "starting", "running", "broken"}
  <2>1. InForce(d) => effect[d[1]] # 0 /\ <<d[1], effect[d[1]]>> = d
    BY <1>0 DEF InForce
  <2>. QED
    BY <1>0, <2>1 DEF ReceiveInv, RunsInv
<1>2. ASSUME NEW to \in Held \cup {"done"}, NEW swaps \in SUBSET Receives, NEW marks \in SUBSET Receives,
             driver[d] \notin {"absent", "done"}, driver[d] = "closing" \/ monitored[d] = {},
             InForce(d) => to \in {"starting", "running", "broken"},
             to \in {"starting", "closingEarly"} => swaps = {},
             \A r \in marks : receiveRecord[r] # "none",
             driver' = [driver EXCEPT ![d] = to], monitored' = [monitored EXCEPT ![d] = swaps],
             admitted' = [admitted EXCEPT ![d[1]] = admitted[d[1]] \cup marks],
             UNCHANGED <<mounts, effect, tracking, receiveRecord>>
      PROVE  ReceiveInv'
  <2>1. ReceiveTypes'
    BY <1>0, <1>2 DEF ReceiveInv, ReceiveTypes
  <2>2. RunsInv'
    <3>1. /\ to \in Held \cup {"queued", "done"} /\ driver[d] # "absent" /\ UNCHANGED <<mounts, effect>>
          /\ InForce(d) => to \in {"queued", "starting", "running", "broken"}
          /\ to \in {"queued", "starting", "closingEarly"} => swaps = {}
      BY <1>2 DEF Held
    <3>. QED
      BY <1>2, <3>1, RunGoesOn
  <2>3. ASSUME NEW s \in Tabs, NEW r \in admitted'[s]
        PROVE  receiveRecord[r] # "none" \/ (effect[s] # 0 /\ (Adds(s, r)' \/ Drives(s, r)'))
    <3>1. r \in admitted[s] \/ receiveRecord[r] # "none"
      BY <1>0, <1>2, <2>3
    <3>2. effect[s] # 0 /\ Drives(s, r) => Drives(s, r)'
      <4>1. SUFFICES ASSUME effect[s] # 0, r \in monitored[<<s, effect[s]>>]
                     PROVE  <<s, effect[s]>> # d
        BY <1>0, <1>2 DEF Drives
      <4>2. <<s, effect[s]>> = d => InForce(d)
        BY DEF InForce
      <4>. QED
        BY <1>1, <1>2, <4>1, <4>2
    <3>. QED
      BY <1>2, <3>1, <3>2 DEF ReceiveInv, MarksInv, Adds
  <2>. QED
    BY <1>2, <2>1, <2>2, <2>3 DEF ReceiveInv, MarksInv, CallsInv
<1>3. CASE GrantLock(d)
  <2>1. monitored[d] = {}
    BY <1>3 DEF GrantLock, ReceiveInv, RunsInv
  <2>2. monitored = [monitored EXCEPT ![d] = {}] /\ admitted = [admitted EXCEPT ![d[1]] = admitted[d[1]] \cup {}]
    BY <1>0, <2>1
  <2>. QED
    BY <1>2, <1>3, <2>1, <2>2 DEF GrantLock, Held
<1>4. CASE StartManager(d)
  <2>1. PICK restored \in SUBSET {r \in Receives : receiveRecord[r] = "pending"} :
          /\ monitored' = [monitored EXCEPT ![d] = restored]
          /\ admitted' = [admitted EXCEPT ![d[1]] = admitted[d[1]] \cup restored]
    BY <1>0, <1>4 DEF StartManager
  <2>2. /\ driver[d] \in {"starting", "closingEarly"} /\ monitored[d] = {}
        /\ driver' = [driver EXCEPT ![d] = IF driver[d] = "starting" THEN "running" ELSE "closing"]
        /\ UNCHANGED <<mounts, effect, tracking, receiveRecord>>
    BY <1>0, <1>4 DEF StartManager, ReceiveInv, RunsInv
  <2>3. PICK to \in {"running", "closing"} :
          to = IF driver[d] = "starting" THEN "running" ELSE "closing"
    OBVIOUS
  <2>4. InForce(d) => to = "running"
    BY <1>1, <2>2, <2>3
  <2>5. to \in Held /\ driver' = [driver EXCEPT ![d] = to]
    BY <2>2, <2>3 DEF Held
  <2>. QED
    BY <1>2, <2>1, <2>2, <2>3, <2>4, <2>5
<1>5. CASE BreakManager(d)
  <2>1. /\ driver[d] \in {"starting", "closingEarly"} /\ monitored[d] = {}
        /\ driver' = [driver EXCEPT ![d] = IF driver[d] = "starting" THEN "broken" ELSE "closing"]
        /\ UNCHANGED <<mounts, effect, admitted, monitored, tracking, receiveRecord>>
    BY <1>0, <1>5 DEF BreakManager, ReceiveInv, RunsInv
  <2>2. PICK to \in {"broken", "closing"} :
          to = IF driver[d] = "starting" THEN "broken" ELSE "closing"
    OBVIOUS
  <2>3. InForce(d) => to = "broken"
    BY <1>1, <2>1, <2>2
  <2>4. to \in Held /\ driver' = [driver EXCEPT ![d] = to]
    BY <2>1, <2>2 DEF Held
  <2>5. monitored = [monitored EXCEPT ![d] = {}] /\ admitted = [admitted EXCEPT ![d[1]] = admitted[d[1]] \cup {}]
    BY <1>0, <2>1
  <2>. QED
    BY <1>2, <2>1, <2>2, <2>3, <2>4, <2>5
<1>6. CASE StopManager(d)
  <2>1. admitted = [admitted EXCEPT ![d[1]] = admitted[d[1]] \cup {}]
    BY <1>0
  <2>2. /\ driver[d] = "closing" /\ ~ InForce(d)
        /\ driver' = [driver EXCEPT ![d] = "done"] /\ monitored' = [monitored EXCEPT ![d] = {}]
        /\ UNCHANGED <<mounts, effect, admitted, tracking, receiveRecord>>
    BY <1>1, <1>6 DEF StopManager
  <2>. QED
    BY <1>2, <2>1, <2>2, ZenonT(40)
<1>. QED
  BY <1>3, <1>4, <1>5, <1>6

\* One pass of a manager over one of its swaps.
LEMMA PassStep ==
    ASSUME ReceiveInv, NEW d \in Drivers, NEW r \in Receives,
           WriteRecord(d, r) \/ ClaimLockup(d, r) \/ FinishReceive(d, r)
    PROVE  ReceiveInv'
<1>0. /\ monitored \in [Drivers -> SUBSET Receives] /\ admitted \in [Tabs -> SUBSET Receives]
      /\ receiveRecord \in [Receives -> {"none", "pending", "settled", "refunded"}]
  BY DEF ReceiveInv, ReceiveTypes
<1>1. ASSUME NEW record \in {"pending", "settled", "refunded"}, NEW swaps \in SUBSET monitored[d],
             monitored[d] \subseteq swaps \cup {r},
             receiveRecord' = [receiveRecord EXCEPT ![r] = record],
             monitored' = [monitored EXCEPT ![d] = swaps],
             UNCHANGED <<mounts, effect, driver, admitted, tracking>>
      PROVE  ReceiveInv'
  <2>1. ReceiveTypes'
    BY <1>0, <1>1 DEF ReceiveInv, ReceiveTypes
  <2>2. RunsInv'
    BY <1>0, <1>1 DEF ReceiveInv, RunsInv
  <2>3. ASSUME NEW s \in Tabs, NEW q \in admitted[s]
        PROVE  receiveRecord'[q] # "none" \/ (effect[s] # 0 /\ (Adds(s, q)' \/ Drives(s, q)'))
    <3>1. CASE q = r
      BY <1>0, <1>1, <3>1
    <3>2. CASE q # r
      BY <1>0, <1>1, <3>2 DEF ReceiveInv, MarksInv, Adds, Drives
    <3>. QED
      BY <3>1, <3>2
  <2>. QED
    BY <1>1, <2>1, <2>2, <2>3 DEF ReceiveInv, MarksInv, CallsInv
<1>2. CASE WriteRecord(d, r)
  <2>1. monitored = [monitored EXCEPT ![d] = monitored[d]]
    BY <1>0
  <2>. QED
    BY <1>1, <1>2, <2>1 DEF WriteRecord
<1>3. CASE ClaimLockup(d, r)
  BY <1>3 DEF ClaimLockup, ReceiveInv, ReceiveTypes, RunsInv, MarksInv, CallsInv, Adds, Drives
<1>4. CASE FinishReceive(d, r)
  <2>1. PICK record \in {"settled", "refunded"} : receiveRecord' = [receiveRecord EXCEPT ![r] = record]
    BY <1>4 DEF FinishReceive
  <2>2. monitored' = [monitored EXCEPT ![d] = monitored[d] \ {r}]
    BY <1>0, <1>4 DEF FinishReceive
  <2>. QED
    BY <1>1, <1>4, <2>1, <2>2 DEF FinishReceive
<1>. QED
  BY <1>2, <1>3, <1>4

\* track() and its wait for the lock.
LEMMA TrackStep ==
    ASSUME ReceiveInv, NEW t \in Tabs, NEW r \in Receives, Track(t, r)
    PROVE  ReceiveInv'
<1>1. /\ tracking[r].phase # "adding"
      /\ UNCHANGED <<mounts, effect, driver, monitored, receiveRecord>>
  BY DEF Track
<1>2. CASE HasManager(t) /\ Admit(t, r)
  BY <1>1, <1>2, AdmitKeeps
<1>3. CASE Refuse(t, r)
  BY <1>1, <1>3, RefuseKeeps
<1>4. CASE /\ tracking' = [tracking EXCEPT ![r] = [tab |-> t, phase |-> "waiting", run |-> 0]]
           /\ UNCHANGED admitted
  <2>1. [tab |-> t, phase |-> "waiting", run |-> 0] \in Trackings
    BY RunsAreDrivers DEF Trackings
  <2>. QED
    BY <1>1, <1>4, <2>1, TrackGoesOn
<1>. QED
  BY <1>2, <1>3, <1>4 DEF Track

LEMMA WaitStep ==
    ASSUME ReceiveInv, NEW r \in Receives, StopWaiting(r)
    PROVE  ReceiveInv'
<1>. DEFINE t == tracking[r].tab
<1>1. /\ tracking[r].phase # "adding" /\ t \in Tabs
      /\ IF HasManager(t) THEN Admit(t, r) ELSE Refuse(t, r)
      /\ UNCHANGED <<mounts, effect, driver, monitored, receiveRecord>>
  BY DEF StopWaiting, ReceiveInv, CallsInv
<1>. HIDE DEF t
<1>. QED
  BY <1>1, AdmitKeeps, RefuseKeeps

\* addSwap settles: the receive is driven by the run that admitted it, or the
\* mark is taken back.
LEMMA AddStep ==
    ASSUME ReceiveInv, NEW r \in Receives, AddSwap(r) \/ AddSwapFails(r)
    PROVE  ReceiveInv'
<1>. DEFINE t == tracking[r].tab
            d == <<t, tracking[r].run>>
            to(phase) == [tracking[r] EXCEPT !.phase = phase]
<1>0. /\ driver \in [Drivers -> Held \cup {"absent", "queued", "done"}]
      /\ monitored \in [Drivers -> SUBSET Receives] /\ admitted \in [Tabs -> SUBSET Receives]
      /\ tracking \in [Receives -> Trackings] /\ tracking[r] \in Trackings
  BY DEF ReceiveInv, ReceiveTypes
<1>1. tracking[r].phase = "adding" /\ t \in Tabs /\ d \in Drivers
  <2>1. tracking[r].phase = "adding"
    BY DEF AddSwap, AddSwapFails
  <2>2. t \in Tabs /\ tracking[r].run \in 1..MaxMounts
    BY <1>0, <2>1, RunsAreDrivers DEF ReceiveInv, CallsInv, Trackings
  <2>. QED
    BY <2>1, <2>2, RunsAreDrivers
<1>2. \A phase \in {"tracked", "failed"} : to(phase) \in Trackings /\ to(phase).phase = phase
  BY <1>0 DEF Trackings
<1>. HIDE DEF t, d, to
<1>3. ASSUME NEW phase \in {"tracked", "failed"}, tracking' = [tracking EXCEPT ![r] = to(phase)]
      PROVE  /\ tracking' \in [Receives -> Trackings] /\ CallsInv'
             /\ \A s \in Tabs, q \in Receives : q # r => tracking'[q] = tracking[q]
  BY <1>0, <1>2, <1>3 DEF ReceiveInv, CallsInv
<1>4. CASE AddSwap(r)
  <2>. DEFINE swaps == monitored[d] \cup (IF driver[d] = "done" THEN {} ELSE {r})
  <2>1. /\ driver[d] \in {"running", "closing", "done"}
        /\ tracking' = [tracking EXCEPT ![r] = to("tracked")]
        /\ monitored' = [monitored EXCEPT ![d] = swaps]
        /\ UNCHANGED <<mounts, effect, driver, admitted, receiveRecord>>
    BY <1>0, <1>1, <1>4 DEF AddSwap, d, t, to
  <2>2. swaps \in SUBSET Receives /\ monitored[d] \subseteq swaps /\ (driver[d] # "done" => r \in swaps)
    BY <1>0, <1>1
  <2>. HIDE DEF swaps
  <2>3. ReceiveTypes'
    BY <1>0, <1>3, <2>1, <2>2 DEF ReceiveInv, ReceiveTypes
  <2>4. RunsInv'
    BY <1>0, <2>1 DEF ReceiveInv, RunsInv
  <2>5. ASSUME NEW s \in Tabs, NEW q \in admitted[s]
        PROVE  receiveRecord[q] # "none" \/ (effect[s] # 0 /\ (Adds(s, q)' \/ Drives(s, q)'))
    <3>1. receiveRecord[q] # "none" \/ (effect[s] # 0 /\ (Adds(s, q) \/ Drives(s, q)))
      BY <2>5 DEF ReceiveInv, MarksInv
    <3>2. effect[s] # 0 /\ Drives(s, q) => Drives(s, q)'
      <4>1. effect[s] # 0 => <<s, effect[s]>> \in Drivers
        BY RunsAreDrivers DEF ReceiveInv, ReceiveTypes
      <4>. QED
        BY <1>0, <2>1, <2>2, <4>1 DEF Drives
    <3>3. CASE q = r /\ effect[s] # 0 /\ Adds(s, q)
      <4>1. d = <<s, effect[s]>>
        BY <3>3 DEF Adds, d, t
      <4>2. driver[d] \in {"queued", "starting", "running", "broken"}
        BY <3>3, <4>1 DEF ReceiveInv, RunsInv
      <4>3. q \in monitored'[d]
        BY <1>0, <1>1, <2>1, <2>2, <3>3, <4>2
      <4>. QED
        BY <2>1, <3>3, <4>1, <4>3 DEF Drives
    <3>4. q # r /\ Adds(s, q) => Adds(s, q)'
      BY <1>0, <1>3, <2>1, <2>5 DEF Adds
    <3>. QED
      BY <3>1, <3>2, <3>3, <3>4
  <2>6. CallsInv'
    BY <1>3, <2>1
  <2>. QED
    BY <2>1, <2>3, <2>4, <2>5, <2>6 DEF ReceiveInv, MarksInv
<1>5. CASE AddSwapFails(r)
  <2>1. /\ tracking' = [tracking EXCEPT ![r] = to("failed")]
        /\ admitted' = [admitted EXCEPT ![t] = admitted[t] \ {r}]
        /\ UNCHANGED <<mounts, effect, driver, monitored, receiveRecord>>
    BY <1>0, <1>1, <1>5 DEF AddSwapFails, t, to
  <2>2. ReceiveTypes'
    BY <1>0, <1>1, <1>3, <2>1 DEF ReceiveInv, ReceiveTypes
  <2>3. RunsInv'
    BY <2>1 DEF ReceiveInv, RunsInv
  <2>4. ASSUME NEW s \in Tabs, NEW q \in admitted'[s]
        PROVE  receiveRecord[q] # "none" \/ (effect[s] # 0 /\ (Adds(s, q)' \/ Drives(s, q)'))
    <3>1. q \in admitted[s] /\ (q = r => s # t)
      BY <1>0, <1>1, <2>1, <2>4
    <3>2. Adds(s, q) => Adds(s, q)'
      <4>1. Adds(s, q) => q # r
        BY <3>1 DEF Adds, t
      <4>. QED
        BY <1>0, <1>3, <2>1, <3>1, <4>1 DEF Adds
    <3>. QED
      BY <2>1, <3>1, <3>2 DEF ReceiveInv, MarksInv, Drives
  <2>5. CallsInv'
    BY <1>3, <2>1
  <2>. QED
    BY <2>1, <2>2, <2>3, <2>4, <2>5 DEF ReceiveInv, MarksInv
<1>. QED
  BY <1>4, <1>5

LEMMA ReceiveStep == ReceiveInv /\ [ReceiveNext]_receiveVars => ReceiveInv'
<1>. SUFFICES ASSUME ReceiveInv, [ReceiveNext]_receiveVars PROVE ReceiveInv'
  OBVIOUS
<1>1. CASE UNCHANGED receiveVars
  BY <1>1 DEF receiveVars, ReceiveInv, ReceiveTypes, RunsInv, MarksInv, CallsInv, Adds, Drives
<1>2. ASSUME NEW r \in Receives, SolverActs(r) PROVE ReceiveInv'
  BY <1>2 DEF SolverActs, ReceiveInv, ReceiveTypes, RunsInv, MarksInv, CallsInv, Adds, Drives
<1>3. ASSUME NEW d \in Drivers, DriverStep(d) PROVE ReceiveInv'
  BY <1>3, RunStep, PassStep DEF DriverStep
<1>. QED
  BY <1>1, <1>2, <1>3, TabStep, TrackStep, WaitStep, AddStep DEF ReceiveNext

-----------------------------------------------------------------------------
\* The queue of the lock: only requests stand before a request, none before the
\* one that holds it, and where there are locks, of any two requests one stands
\* before the other.
QueueInv ==
    /\ ahead \in [Drivers -> SUBSET Drivers]
    /\ \A d \in Drivers : \A e \in ahead[d] : e # d /\ Requested(e)
    /\ \A d \in Drivers : driver[d] # "queued" => ahead[d] = {}
    /\ hasLocks => \A d, e \in Drivers : Requested(d) /\ Requested(e) /\ d # e =>
                     d \in ahead[e] \/ e \in ahead[d]

LnReceiveInv ==
    /\ ReceiveInv /\ QueueInv
    /\ hasLocks \in BOOLEAN
    /\ lockup \in [Receives -> {"unfunded", "funded", "claimed", "reclaimed"}]

\* Runs keep their places while none asks for the lock or gives its place up.
LEMMA QueueStands ==
    ASSUME QueueInv, UNCHANGED <<hasLocks, ahead>>,
           \A d \in Drivers : Requested(d)' <=> Requested(d),
           \A d \in Drivers : driver[d] = "queued" /\ driver'[d] # "queued" => ahead[d] = {}
    PROVE  QueueInv'
BY DEF QueueInv

\* Runs that end give their places up; the others keep theirs.
LEMMA QueueShrinks ==
    ASSUME QueueInv, NEW gone \in SUBSET Drivers, Withdraw(gone), UNCHANGED hasLocks,
           \A d \in Drivers : driver'[d] = IF d \in gone /\ driver[d] # "absent" THEN "done" ELSE driver[d]
    PROVE  QueueInv'
<1>1. \A d \in Drivers : ahead'[d] = IF d \in gone THEN {} ELSE ahead[d] \ gone
  BY DEF Withdraw
<1>2. ahead' \in [Drivers -> SUBSET Drivers]
  BY DEF Withdraw, QueueInv
<1>3. \A d \in Drivers : Requested(d)' <=> Requested(d) /\ d \notin gone
  BY DEF Requested, Held
<1>4. ASSUME NEW d \in Drivers, NEW e \in ahead'[d] PROVE e # d /\ Requested(e)'
  <2>1. e \in ahead[d] /\ e \notin gone /\ e \in Drivers
    BY <1>1, <1>2, <1>4
  <2>. QED
    BY <1>3, <2>1 DEF QueueInv
<1>5. ASSUME NEW d \in Drivers, driver'[d] # "queued" PROVE ahead'[d] = {}
  BY <1>1, <1>5 DEF QueueInv
<1>6. ASSUME hasLocks, NEW d \in Drivers, NEW e \in Drivers, Requested(d)', Requested(e)', d # e
      PROVE  d \in ahead'[e] \/ e \in ahead'[d]
  <2>1. Requested(d) /\ Requested(e) /\ d \notin gone /\ e \notin gone
    BY <1>3, <1>6
  <2>2. d \in ahead[e] \/ e \in ahead[d]
    BY <1>6, <2>1 DEF QueueInv
  <2>. QED
    BY <1>1, <2>1, <2>2
<1>. QED
  BY <1>2, <1>4, <1>5, <1>6 DEF QueueInv

\* A run that was never made starts: it is last in line, or where there are no
\* locks in no line at all.
LEMMA QueueGrows ==
    ASSUME QueueInv, UNCHANGED hasLocks, driver \in [Drivers -> Held \cup {"absent", "queued", "done"}],
           NEW d \in Drivers, driver[d] = "absent",
           driver' = [driver EXCEPT ![d] = IF hasLocks THEN "queued" ELSE "starting"],
           ahead' = [ahead EXCEPT ![d] = IF hasLocks THEN {e \in Drivers : Requested(e)} ELSE {}]
    PROVE  QueueInv'
<1>1. /\ ~ Requested(d) /\ Requested(d)'
      /\ \A e \in Drivers : e # d => driver'[e] = driver[e] /\ (Requested(e)' <=> Requested(e))
  BY DEF Requested, Held
<1>2. /\ ahead' \in [Drivers -> SUBSET Drivers]
      /\ ahead'[d] = IF hasLocks THEN {e \in Drivers : Requested(e)} ELSE {}
      /\ \A e \in Drivers : e # d => ahead'[e] = ahead[e]
  BY DEF QueueInv
<1>3. ASSUME NEW f \in Drivers, NEW e \in ahead'[f] PROVE e # f /\ Requested(e)'
  <2>1. e \in Drivers /\ Requested(e) /\ e # f
    BY <1>1, <1>2, <1>3 DEF QueueInv
  <2>. QED
    BY <1>1, <2>1
<1>4. ASSUME NEW e \in Drivers, driver'[e] # "queued" PROVE ahead'[e] = {}
  <2>1. e = d => ~ hasLocks
    BY <1>4
  <2>. QED
    BY <1>1, <1>2, <1>4, <2>1 DEF QueueInv
<1>5. ASSUME hasLocks, NEW f \in Drivers, NEW e \in Drivers, Requested(f)', Requested(e)', f # e
      PROVE  f \in ahead'[e] \/ e \in ahead'[f]
  BY <1>1, <1>2, <1>5 DEF QueueInv
<1>. QED
  BY <1>2, <1>3, <1>4, <1>5 DEF QueueInv

LEMMA QueueStep ==
    ASSUME ReceiveInv, QueueInv, [ReceiveNext]_receiveVars
    PROVE  QueueInv'
<1>0. driver \in [Drivers -> Held \cup {"absent", "queued", "done"}]
  BY DEF ReceiveInv, ReceiveTypes
<1>9. UNCHANGED hasLocks
  BY DEF ReceiveNext, DriverStep, receiveVars, MountDriver, UnmountDriver, CloseTab, GrantLock,
         StartManager, BreakManager, StopManager, WriteRecord, ClaimLockup, FinishReceive, Track,
         StopWaiting, AddSwap, AddSwapFails, SolverActs
<1>1. CASE UNCHANGED <<driver, ahead>>
  BY <1>1, <1>9, QueueStands DEF Requested
<1>2. ASSUME NEW t \in Tabs, MountDriver(t) PROVE QueueInv'
  <2>. DEFINE d == <<t, mounts[t] + 1>>
  <2>1. d \in Drivers /\ driver[d] = "absent"
    <3>1. mounts[t] + 1 \in 1..MaxMounts /\ mounts[t] + 1 > mounts[t]
      BY <1>2, RunsAreDrivers DEF MountDriver, ReceiveInv, ReceiveTypes
    <3>. QED
      BY <3>1, RunsAreDrivers DEF ReceiveInv, RunsInv
  <2>. QED
    BY <1>0, <1>2, <1>9, <2>1, QueueGrows DEF MountDriver
<1>3. ASSUME NEW t \in Tabs, UnmountDriver(t) PROVE QueueInv'
  <2>. DEFINE d == <<t, effect[t]>>
  <2>1. d \in Drivers /\ driver[d] \in {"queued", "starting", "running", "broken"}
    BY <1>3, RunsAreDrivers DEF UnmountDriver, ReceiveInv, ReceiveTypes, RunsInv
  <2>2. CASE driver[d] = "queued"
    <3>1. driver' = [driver EXCEPT ![d] = "done"] /\ Withdraw({d})
      BY <1>0, <1>3, <2>1, <2>2 DEF UnmountDriver
    <3>. QED
      BY <1>0, <1>9, <2>1, <2>2, <3>1, QueueShrinks
  <2>3. CASE driver[d] # "queued"
    <3>1. PICK to \in {"closingEarly", "closing"} : driver' = [driver EXCEPT ![d] = to]
      BY <1>0, <1>3, <2>1, <2>3 DEF UnmountDriver
    <3>2. UNCHANGED ahead
      BY <1>3, <2>3 DEF UnmountDriver
    <3>. QED
      BY <1>0, <1>9, <2>1, <2>3, <3>1, <3>2, QueueStands DEF Requested, Held
  <2>. QED
    BY <2>2, <2>3
<1>4. ASSUME NEW t \in Tabs, CloseTab(t) PROVE QueueInv'
  <2>. DEFINE gone == {d \in Drivers : d[1] = t}
  <2>1. \A d \in Drivers : driver'[d] = IF d \in gone /\ driver[d] # "absent" THEN "done" ELSE driver[d]
    BY <1>4 DEF CloseTab
  <2>. QED
    BY <1>4, <1>9, <2>1, QueueShrinks DEF CloseTab
<1>5. ASSUME NEW d \in Drivers, GrantLock(d) PROVE QueueInv'
  BY <1>0, <1>5, <1>9, QueueStands DEF GrantLock, Requested, Held
<1>6. ASSUME NEW d \in Drivers, StartManager(d) \/ BreakManager(d) PROVE QueueInv'
  <2>1. PICK to \in {"running", "broken", "closing"} : driver' = [driver EXCEPT ![d] = to]
    BY <1>6 DEF StartManager, BreakManager
  <2>2. driver[d] \in {"starting", "closingEarly"} /\ UNCHANGED ahead
    BY <1>6 DEF StartManager, BreakManager
  <2>. QED
    BY <1>0, <1>9, <2>1, <2>2, QueueStands DEF Requested, Held
<1>7. ASSUME NEW d \in Drivers, StopManager(d) PROVE QueueInv'
  BY <1>0, <1>7, <1>9, QueueShrinks DEF StopManager
<1>. QED
  BY <1>1, <1>2, <1>3, <1>4, <1>5, <1>6, <1>7
  DEF ReceiveNext, DriverStep, receiveVars, WriteRecord, ClaimLockup, FinishReceive, Track,
      StopWaiting, AddSwap, AddSwapFails, SolverActs

LEMMA LnReceiveInit == ReceiveInit => LnReceiveInv
<1>. SUFFICES ASSUME ReceiveInit PROVE LnReceiveInv
  OBVIOUS
<1>1. QueueInv
  BY DEF ReceiveInit, QueueInv, Requested, Held
<1>. QED
  BY <1>1, InitReceives DEF ReceiveInit, LnReceiveInv

LEMMA LnReceiveStep == LnReceiveInv /\ [ReceiveNext]_receiveVars => LnReceiveInv'
<1>. SUFFICES ASSUME LnReceiveInv, [ReceiveNext]_receiveVars PROVE LnReceiveInv'
  OBVIOUS
<1>1. ReceiveInv' /\ QueueInv'
  BY ReceiveStep, QueueStep DEF LnReceiveInv
<1>2. UNCHANGED lockup \/ \E r \in Receives, to \in {"funded", "claimed", "reclaimed"} :
                             lockup' = [lockup EXCEPT ![r] = to]
  BY DEF ReceiveNext, DriverStep, receiveVars, MountDriver, UnmountDriver, CloseTab, GrantLock,
         StartManager, BreakManager, StopManager, WriteRecord, ClaimLockup, FinishReceive, Track,
         StopWaiting, AddSwap, AddSwapFails, SolverActs
<1>3. UNCHANGED hasLocks
  BY DEF ReceiveNext, DriverStep, receiveVars, MountDriver, UnmountDriver, CloseTab, GrantLock,
         StartManager, BreakManager, StopManager, WriteRecord, ClaimLockup, FinishReceive, Track,
         StopWaiting, AddSwap, AddSwapFails, SolverActs
<1>. QED
  BY <1>1, <1>2, <1>3 DEF LnReceiveInv

LEMMA LnReceiveInvariant == ReceiveSpec => []LnReceiveInv
BY LnReceiveInit, LnReceiveStep, PTL DEF ReceiveSpec

LEMMA ReceivesAreSafe == LnReceiveInv => ReceiveTypeOK /\ OneDriver /\ AdmittedIsKnown
<1>. SUFFICES ASSUME LnReceiveInv PROVE ReceiveTypeOK /\ OneDriver /\ AdmittedIsKnown
  OBVIOUS
<1>1. ReceiveTypeOK
  BY DEF LnReceiveInv, ReceiveInv, ReceiveTypes, QueueInv, ReceiveTypeOK, Trackings
<1>2. OneDriver
  <2>. SUFFICES ASSUME hasLocks, NEW d \in Drivers, NEW e \in Drivers,
                       driver[d] \in Held, driver[e] \in Held, d # e
                PROVE  FALSE
    BY DEF OneDriver
  <2>1. Requested(d) /\ Requested(e) /\ ahead[d] = {} /\ ahead[e] = {}
    BY DEF LnReceiveInv, QueueInv, Requested, Held
  <2>. QED
    BY <2>1 DEF LnReceiveInv, QueueInv
<1>3. AdmittedIsKnown
  <2>. SUFFICES ASSUME NEW t \in Tabs, NEW r \in admitted[t], effect[t] # 0, Drives(t, r)
                PROVE  \E d \in Drivers : d[1] = t /\ r \in monitored[d]
    BY DEF LnReceiveInv, ReceiveInv, MarksInv, AdmittedIsKnown, Adds
  <2>1. <<t, effect[t]>> \in Drivers
    BY RunsAreDrivers DEF LnReceiveInv, ReceiveInv, ReceiveTypes
  <2>. QED
    BY <2>1 DEF Drives
<1>. QED
  BY <1>1, <1>2, <1>3

\* What the tabs, the lock and the shared store hold keeps its types.
THEOREM ReceiveTypeCorrectness == ReceiveSpec => []ReceiveTypeOK
BY LnReceiveInvariant, ReceivesAreSafe, PTL

\* In a browser with Web Locks at most one manager works on the shared records,
\* one that is still stopping included, whatever number of tabs mount, unmount,
\* close and queue for the lock.
THEOREM OneManagerAtWork == ReceiveSpec => []OneDriver
BY LnReceiveInvariant, ReceivesAreSafe, PTL

\* A mark that makes track() return at once is backed by a record, by a call
\* under way or by a manager of the same tab, however often tabs come and go.
THEOREM MarksAreBacked == ReceiveSpec => []AdmittedIsKnown
BY LnReceiveInvariant, ReceivesAreSafe, PTL

-----------------------------------------------------------------------------
(* The life cycle.  Whatever number of init sessions a page starts, a      *)
(* locked wallet stays shut.  The inductive invariant is the discipline of *)
(* the abort signals: only the session in force can still open the page,   *)
(* and there is none while a lock or a reset is under way.  A wallet just  *)
(* created is open while its password is found out; what keeps it from     *)
(* being locked that way is that its worker has its keys until a lock.     *)

\* A session that could still open the page.
Live(s) ==
    session[s].step \in {"setup", "waiting", "prepared"} /\ session[s].reason = "none"

Shut == ~ shown.initialized /\ pinger = 0 /\ listener = 0

\* A session that a lock or a reset caught and that may yet clear the worker.
Draining(s) ==
    session[s].reason = "lock-reset" /\ session[s].step \in {"setup", "waiting", "prepared", "clearing"}

Keyed == worker.up => worker.keys

NoneLive == \A s \in Sessions : ~ Live(s)
NoneDraining == \A s \in Sessions : ~ Draining(s)

LifecycleInv ==
    /\ authState = "locked" => Shut /\ NoneLive
    /\ authState = "unknown" => storedWallet # "none"
    /\ authState = "unknown" /\ storedWallet # "default" => Shut /\ NoneLive
    /\ closing # "none" => /\ currentSession = 0 /\ pinger = 0 /\ listener = 0
                           /\ svcWallet # 0 /\ shown.initialized /\ authState # "unknown"
    /\ svcWallet = 0 => Shut /\ ~ thresholds /\ NoneDraining
    /\ svcWallet = 0 /\ storedWallet = "none" => authState = "authenticated"
    /\ authState # "authenticated" /\ listener # 0 => shown.initialized /\ Keyed /\ NoneDraining
    /\ pinger # 0 => listener # 0
    /\ \A s \in Sessions : Live(s) /\ session[s].kind \notin {"create", "unlock"} => listener # 0
    /\ \A s \in Sessions : Live(s) => s = currentSession
    /\ \A s \in Sessions : Live(s) /\ session[s].kind = "unlock" =>
          Shut /\ authState = "authenticated" /\ ~ (svcWallet = 0 /\ storedWallet = "none")
    /\ \A s \in Sessions : Live(s) /\ session[s].kind = "create" =>
          svcWallet = 0 /\ storedWallet = "none" /\ (session[s].step = "prepared" => Keyed)
    /\ \A s \in Sessions : session[s].step = "waiting" => session[s].tries < MaxRetries
    /\ \A s \in Sessions : session[s].step = "clearing" => session[s].reason = "lock-reset"

WInv == WalletTypeOK /\ LifecycleInv

SessionRecords ==
    [kind : {"none", "create", "unlock", "reinit"},
     step : {"unused", "setup", "waiting", "prepared", "clearing", "serving", "over"},
     reason : {"none", "init", "lock-reset"}, tries : 0..MaxRetries]

\* The bounds are intervals that start at zero.
LEMMA Zero == 0 \in 0..MaxSessions /\ 0 \in 0..MaxRetries /\ 0 \in 0..3
BY SessionsAssumption

LEMMA EmptySession == NoSession \in SessionRecords /\ NoSession.step = "unused"
BY Zero DEF NoSession, SessionRecords

LEMMA WalletInitInv == WalletInit => WInv
<1>. SUFFICES ASSUME WalletInit PROVE WInv
  OBVIOUS
<1>1. /\ NoSession \in SessionRecords /\ NoSession.step = "unused"
      /\ Blank \in [initialized : BOOLEAN, dataReady : BOOLEAN, loadError : BOOLEAN]
      /\ ~ Blank.initialized
  BY EmptySession DEF Blank
<1>2. session \in [Sessions -> SessionRecords] /\ \A s \in Sessions : session[s].step = "unused"
  BY <1>1 DEF WalletInit
<1>3. WalletTypeOK
  <2>1. /\ reload \in [Sessions -> {"none", "reading", "updating"}]
        /\ worker \in [up : BOOLEAN, keys : BOOLEAN]
    BY DEF WalletInit
  <2>2. session \in [Sessions ->
          [kind : {"none", "create", "unlock", "reinit"},
           step : {"unused", "setup", "waiting", "prepared", "clearing", "serving", "over"},
           reason : {"none", "init", "lock-reset"}, tries : 0..MaxRetries]]
    BY <1>2 DEF SessionRecords
  <2>. QED
    BY <1>1, <2>1, <2>2, Zero DEF WalletInit, WalletTypeOK, StoredWallets, LoadedAuth
<1>4. LifecycleInv
  BY <1>1, <1>2 DEF WalletInit, LifecycleInv, Live, Shut, Draining, NoneLive, NoneDraining, LoadedAuth
<1>. QED
  BY <1>3, <1>4 DEF WInv

-----------------------------------------------------------------------------
\* What a step has to leave alone when nobody gains the page by it.
LEMMA LifeGoesOn ==
    ASSUME WInv,
           \A r \in Sessions :
             /\ Live(r)' => Live(r)
             /\ Draining(r)' => Draining(r)
             /\ session'[r].kind = session[r].kind
             /\ session'[r].step = "prepared" => session[r].step = "prepared" \/ Keyed'
             /\ session'[r].step = "waiting" => session'[r].tries < MaxRetries
             /\ session'[r].step = "clearing" => session'[r].reason = "lock-reset",
           UNCHANGED <<authState, currentSession, svcWallet, pinger, listener, closing>>,
           storedWallet' # storedWallet => authState # "unknown" /\ svcWallet # 0 /\ storedWallet' # "none",
           shown'.initialized # shown.initialized =>
             pinger # 0 /\ (authState # "authenticated" => shown'.initialized),
           thresholds' => thresholds \/ shown.initialized,
           Keyed /\ NoneDraining => Keyed'
    PROVE  LifecycleInv'
<1>1. LifecycleInv
  BY DEF WInv
<1>2. (NoneLive => NoneLive') /\ (NoneDraining => NoneDraining')
  BY DEF NoneLive, NoneDraining
<1>3. svcWallet = 0 => Shut /\ ~ thresholds /\ NoneDraining
  BY <1>1 DEF LifecycleInv
<1>4. Shut => Shut'
  BY DEF Shut
<1>5. /\ authState' # "authenticated" /\ listener' # 0 => shown'.initialized /\ Keyed' /\ NoneDraining'
      /\ pinger' # 0 => listener' # 0
      /\ \A r \in Sessions : Live(r)' /\ session'[r].kind \notin {"create", "unlock"} => listener' # 0
  BY <1>1, <1>2 DEF LifecycleInv
<1>6. closing' # "none" => /\ currentSession' = 0 /\ pinger' = 0 /\ listener' = 0
                           /\ svcWallet' # 0 /\ shown'.initialized /\ authState' # "unknown"
  BY <1>1 DEF LifecycleInv
<1>7. \A r \in Sessions : Live(r)' /\ session'[r].kind = "create" =>
        svcWallet' = 0 /\ storedWallet' = "none" /\ (session'[r].step = "prepared" => Keyed')
  BY <1>1, <1>3 DEF LifecycleInv
<1>8. \A r \in Sessions : Live(r)' /\ session'[r].kind = "unlock" =>
        Shut' /\ authState' = "authenticated" /\ ~ (svcWallet' = 0 /\ storedWallet' = "none")
  BY <1>1, <1>4 DEF LifecycleInv
<1>9. svcWallet' = 0 => Shut' /\ ~ thresholds' /\ NoneDraining'
  BY <1>2, <1>3, <1>4 DEF Shut
<1>10. /\ authState' = "locked" => Shut' /\ NoneLive'
       /\ authState' = "unknown" => storedWallet' # "none"
       /\ authState' = "unknown" /\ storedWallet' # "default" => Shut' /\ NoneLive'
       /\ svcWallet' = 0 /\ storedWallet' = "none" => authState' = "authenticated"
       /\ \A r \in Sessions : Live(r)' => r = currentSession'
  BY <1>1, <1>2, <1>4 DEF LifecycleInv
<1>. QED
  BY <1>5, <1>6, <1>7, <1>8, <1>9, <1>10 DEF LifecycleInv

\* The step of a session that is not opening the page.
LEMMA SessionGoesOn ==
    ASSUME WInv, NEW s \in Sessions, NEW step \in {"setup", "waiting", "prepared", "clearing", "over"},
           NEW tries \in 0..MaxRetries,
           session' = [session EXCEPT ![s] = [@ EXCEPT !.step = step, !.tries = tries]],
           session[s].step \in {"setup", "waiting", "prepared", "clearing"},
           step \in {"setup", "waiting", "prepared"} => session[s].step \in {"setup", "waiting", "prepared"},
           step = "waiting" => tries < MaxRetries,
           step = "clearing" => session[s].reason = "lock-reset",
           step = "prepared" => Keyed',
           Keyed /\ NoneDraining => Keyed',
           UNCHANGED <<storedWallet, authState, currentSession, svcWallet, pinger, listener, shown,
                       thresholds, closing>>
    PROVE  session' \in [Sessions -> SessionRecords] /\ LifecycleInv'
<1>1. session \in [Sessions -> SessionRecords]
  BY DEF WInv, WalletTypeOK, SessionRecords
<1>2. /\ [session[s] EXCEPT !.step = step, !.tries = tries] \in SessionRecords
      /\ [session[s] EXCEPT !.step = step, !.tries = tries].step = step
      /\ [session[s] EXCEPT !.step = step, !.tries = tries].tries = tries
      /\ [session[s] EXCEPT !.step = step, !.tries = tries].reason = session[s].reason
      /\ [session[s] EXCEPT !.step = step, !.tries = tries].kind = session[s].kind
  BY <1>1 DEF SessionRecords
<1>3. session' \in [Sessions -> SessionRecords]
  BY <1>1, <1>2
<1>4. \A r \in Sessions :
        /\ Live(r)' => Live(r)
        /\ Draining(r)' => Draining(r)
        /\ session'[r].kind = session[r].kind
        /\ session'[r].step = "prepared" => session[r].step = "prepared" \/ Keyed'
        /\ session'[r].step = "waiting" => session'[r].tries < MaxRetries
        /\ session'[r].step = "clearing" => session'[r].reason = "lock-reset"
  BY <1>1, <1>2 DEF Live, Draining, WInv, LifecycleInv
<1>. QED
  BY <1>3, <1>4, LifeGoesOn

\* After an abort nobody can open the page any more.
LEMMA AbortEndsLife ==
    ASSUME WInv, NEW why \in {"init", "lock-reset"}
    PROVE  /\ AbortCurrent(why) \in [Sessions -> SessionRecords]
           /\ \A s \in Sessions :
                /\ AbortCurrent(why)[s].step = session[s].step
                /\ AbortCurrent(why)[s].tries = session[s].tries
                /\ AbortCurrent(why)[s].kind = session[s].kind
                /\ AbortCurrent(why)[s].reason \in {session[s].reason, why}
                /\ session[s].reason # "none" => AbortCurrent(why)[s].reason = session[s].reason
                /\ session[s].step \in {"setup", "waiting", "prepared"} =>
                      AbortCurrent(why)[s].reason # "none"
<1>1. session \in [Sessions -> SessionRecords] /\ currentSession \in 0..MaxSessions
  BY DEF WInv, WalletTypeOK, SessionRecords
<1>2. \A s \in Sessions : session[s].step \in {"setup", "waiting", "prepared"} =>
        session[s].reason # "none" \/ s = currentSession
  BY DEF WInv, LifecycleInv, Live
<1>3. CASE currentSession = 0 \/ Aborted(currentSession)
  <2>1. AbortCurrent(why) = session
    BY <1>3 DEF AbortCurrent
  <2>2. \A s \in Sessions : s = currentSession => session[s].reason # "none"
    BY <1>3, SessionsAssumption DEF Aborted, Sessions
  <2>. QED
    BY <1>1, <1>2, <2>1, <2>2
<1>4. CASE ~ (currentSession = 0 \/ Aborted(currentSession))
  <2>1. currentSession \in Sessions
    BY <1>1, <1>4, SessionsAssumption DEF Sessions
  <2>2. AbortCurrent(why) = [session EXCEPT ![currentSession].reason = why]
    BY <1>4 DEF AbortCurrent
  <2>3. /\ [session[currentSession] EXCEPT !.reason = why] \in SessionRecords
        /\ [session[currentSession] EXCEPT !.reason = why].reason = why
        /\ [session[currentSession] EXCEPT !.reason = why].step = session[currentSession].step
        /\ [session[currentSession] EXCEPT !.reason = why].tries = session[currentSession].tries
        /\ [session[currentSession] EXCEPT !.reason = why].kind = session[currentSession].kind
    BY <1>1, <2>1 DEF SessionRecords
  <2>. DEFINE aborted == [session[currentSession] EXCEPT !.reason = why]
  <2>4. \A s \in Sessions : AbortCurrent(why)[s] = IF s = currentSession THEN aborted ELSE session[s]
    BY <1>1, <2>1, <2>2
  <2>5. AbortCurrent(why) \in [Sessions -> SessionRecords]
    BY <1>1, <2>1, <2>2, <2>3
  <2>6. why # "none" /\ session[currentSession].reason = "none"
    BY <1>4 DEF Aborted
  <2>. HIDE DEF aborted
  <2>. QED
    BY <1>2, <2>3, <2>4, <2>5, <2>6 DEF aborted
<1>. QED
  BY <1>3, <1>4

\* A new session is the only one that can open the page.
LEMMA StartIsAlone ==
    ASSUME WInv, NEW s \in Sessions, NEW kind \in {"create", "unlock", "reinit"}, StartInitSession(s, kind),
           UNCHANGED <<storedWallet, worker, svcWallet, listener, shown, thresholds, closing>>,
           pinger' \in {0, pinger}, closing = "none",
           authState' = authState \/ (kind = "unlock" /\ authState' = "authenticated"),
           authState' # "locked", authState = "unknown" => storedWallet = "default",
           kind = "reinit" => listener # 0,
           kind = "create" => svcWallet = 0 /\ storedWallet = "none",
           kind = "unlock" =>
             Shut /\ authState' = "authenticated" /\ ~ (svcWallet = 0 /\ storedWallet = "none")
    PROVE  session' \in [Sessions -> SessionRecords] /\ LifecycleInv'
<1>. DEFINE new == [NoSession EXCEPT !.kind = kind, !.step = "setup"]
<1>0. LifecycleInv
  BY DEF WInv
<1>1. new \in SessionRecords /\ new.kind = kind /\ new.step = "setup" /\ new.reason = "none"
  BY EmptySession DEF SessionRecords, NoSession
<1>2. session' = [AbortCurrent("init") EXCEPT ![s] = new] /\ currentSession' = s
  BY DEF StartInitSession
<1>. HIDE DEF new
<1>3. session' \in [Sessions -> SessionRecords]
  BY <1>1, <1>2, AbortEndsLife
<1>4. \A r \in Sessions : r # s =>
        /\ session'[r].step = session[r].step /\ session'[r].tries = session[r].tries
        /\ session'[r].reason \in {session[r].reason, "init"}
        /\ session[r].reason # "none" => session'[r].reason = session[r].reason
        /\ ~ Live(r)'
  BY <1>2, AbortEndsLife DEF Live
<1>5. session'[s] = new
  BY <1>2, AbortEndsLife
<1>6. \A r \in Sessions : Live(r)' => r = s
  BY <1>4
<1>7. \A r \in Sessions :
        /\ session'[r].step = "waiting" => session'[r].tries < MaxRetries
        /\ session'[r].step = "clearing" => session'[r].reason = "lock-reset"
        /\ Draining(r)' => Draining(r)
  BY <1>0, <1>1, <1>4, <1>5 DEF LifecycleInv, Draining
<1>8. NoneDraining => NoneDraining'
  BY <1>7 DEF NoneDraining
<1>9. (Shut => Shut') /\ (Keyed' <=> Keyed)
  BY DEF Shut, Keyed
<1>10. \A r \in Sessions : Live(r)' /\ session'[r].kind = "unlock" =>
        Shut' /\ authState' = "authenticated" /\ ~ (svcWallet' = 0 /\ storedWallet' = "none")
  BY <1>1, <1>5, <1>6, <1>9
<1>11. \A r \in Sessions : Live(r)' /\ session'[r].kind = "create" =>
        svcWallet' = 0 /\ storedWallet' = "none" /\ (session'[r].step = "prepared" => Keyed')
  BY <1>1, <1>5, <1>6
<1>12. /\ svcWallet' = 0 => Shut' /\ ~ thresholds' /\ NoneDraining'
       /\ svcWallet' = 0 /\ storedWallet' = "none" => authState' = "authenticated"
       /\ closing' = "none"
       /\ authState' = "unknown" => storedWallet' = "default"
       /\ authState' # "authenticated" /\ listener' # 0 => shown'.initialized /\ Keyed' /\ NoneDraining'
       /\ pinger' # 0 => listener' # 0
  BY <1>0, <1>8, <1>9 DEF LifecycleInv
<1>13. \A r \in Sessions : Live(r)' /\ session'[r].kind \notin {"create", "unlock"} => listener' # 0
  BY <1>1, <1>5, <1>6
<1>. QED
  BY <1>2, <1>3, <1>6, <1>7, <1>10, <1>11, <1>12, <1>13 DEF LifecycleInv

\* The page starts over.
LEMMA ReloadShuts ==
    ASSUME WInv, ReloadPage, UNCHANGED storedWallet,
           worker' \in [up : BOOLEAN, keys : BOOLEAN]
    PROVE  WInv'
<1>1. session \in [Sessions -> SessionRecords]
  BY DEF WInv, WalletTypeOK, SessionRecords
<1>2. /\ session' \in [Sessions -> SessionRecords]
      /\ \A s \in Sessions : session'[s].step \in {"unused", "over"}
  <2>1. \A s \in Sessions : /\ [session[s] EXCEPT !.step = "over"] \in SessionRecords
                            /\ [session[s] EXCEPT !.step = "over"].step = "over"
    BY <1>1 DEF SessionRecords
  <2>. QED
    BY <2>1, EmptySession DEF ReloadPage
<1>3. WalletTypeOK'
  <2>1. /\ reload' \in [Sessions -> {"none", "reading", "updating"}]
        /\ shown' \in [initialized : BOOLEAN, dataReady : BOOLEAN, loadError : BOOLEAN]
    BY DEF ReloadPage, Blank
  <2>2. session' \in [Sessions ->
          [kind : {"none", "create", "unlock", "reinit"},
           step : {"unused", "setup", "waiting", "prepared", "clearing", "serving", "over"},
           reason : {"none", "init", "lock-reset"}, tries : 0..MaxRetries]]
    BY <1>2 DEF SessionRecords
  <2>. QED
    BY <2>1, <2>2, Zero DEF ReloadPage, WInv, WalletTypeOK, StoredWallets, LoadedAuth
<1>4. LifecycleInv'
  BY <1>2 DEF ReloadPage, LifecycleInv, Live, Shut, Blank, Draining, NoneLive, NoneDraining, LoadedAuth
<1>. QED
  BY <1>3, <1>4 DEF WInv

-----------------------------------------------------------------------------
\* The steps of a session, up to its checkpoint and past it.
LEMMA AttemptStep ==
    ASSUME WInv, NEW s \in Sessions,
           SetUpWorker(s) \/ RetryAttempt(s) \/ YieldSession(s) \/ ClearStaleWorker(s)
    PROVE  WInv'
<1>0. /\ session \in [Sessions -> SessionRecords] /\ session[s] \in SessionRecords
      /\ session[s].tries \in 0..MaxRetries
  BY DEF WInv, WalletTypeOK, SessionRecords
<1>00. UNCHANGED worker => (Keyed => Keyed')
  BY DEF Keyed
<1>. DEFINE Goes(step, tries) ==
       session' = [session EXCEPT ![s] = [@ EXCEPT !.step = step, !.tries = tries]]
<1>1. ASSUME NEW step \in {"setup", "waiting", "prepared", "clearing", "over"},
             session' = [session EXCEPT ![s].step = step]
      PROVE  Goes(step, session[s].tries)
  <2>1. [session[s] EXCEPT !.step = step] = [session[s] EXCEPT !.step = step, !.tries = session[s].tries]
    BY <1>0 DEF SessionRecords
  <2>. QED
    BY <1>1, <2>1
<1>. HIDE DEF Goes
<1>2. CASE SetUpWorker(s)
  <2>1. Goes("prepared", session[s].tries)
    BY <1>1, <1>2 DEF SetUpWorker
  <2>2. session' \in [Sessions -> SessionRecords] /\ LifecycleInv'
    <3>1. Keyed'
      BY <1>2 DEF SetUpWorker, Keyed
    <3>. QED
      BY <1>0, <1>2, <2>1, <3>1, SessionGoesOn DEF SetUpWorker, Goes
  <2>. QED
    BY <1>2, <2>2 DEF SetUpWorker, WInv, WalletTypeOK, SessionRecords
<1>3. CASE RetryAttempt(s)
  <2>1. CASE Aborted(s)
    <3>0. session' = [session EXCEPT ![s].step = "over"]
      BY <1>3, <2>1 DEF RetryAttempt
    <3>1. Goes("over", session[s].tries)
      <4>1. "over" \in {"setup", "waiting", "prepared", "clearing", "over"}
        OBVIOUS
      <4>. QED
        BY <1>1, <3>0, <4>1
    <3>2. session' \in [Sessions -> SessionRecords] /\ LifecycleInv'
      BY <1>0, <1>00, <1>3, <3>1, SessionGoesOn DEF RetryAttempt, Goes
    <3>. QED
      BY <1>3, <3>2 DEF RetryAttempt, WInv, WalletTypeOK, SessionRecords
  <2>2. CASE ~ Aborted(s)
    <3>1. session[s].tries + 1 \in 0..MaxRetries
      BY <1>0, <1>3, SessionsAssumption DEF RetryAttempt, WInv, LifecycleInv
    <3>2. Goes("setup", session[s].tries + 1)
      <4>1. session' = [session EXCEPT ![s] =
              [session[s] EXCEPT !.step = "setup", !.tries = session[s].tries + 1]]
        BY <1>3, <2>2, <1>0 DEF RetryAttempt, SessionRecords
      <4>. QED
        BY <4>1, <1>0 DEF Goes
    <3>3. session' \in [Sessions -> SessionRecords] /\ LifecycleInv'
      BY <1>0, <1>00, <1>3, <3>1, <3>2, SessionGoesOn DEF RetryAttempt, Goes
    <3>. QED
      BY <1>3, <3>3 DEF RetryAttempt, WInv, WalletTypeOK, SessionRecords
  <2>. QED
    BY <2>1, <2>2
<1>4. CASE YieldSession(s)
  <2>1. PICK step \in {"clearing", "over"} :
          Goes(step, session[s].tries) /\ (step = "clearing" => session[s].reason = "lock-reset")
    BY <1>1, <1>4 DEF YieldSession
  <2>2. session' \in [Sessions -> SessionRecords] /\ LifecycleInv'
    BY <1>0, <1>00, <1>4, <2>1, SessionGoesOn DEF YieldSession, Goes
  <2>. QED
    BY <1>4, <2>2 DEF YieldSession, WInv, WalletTypeOK, SessionRecords
<1>5. CASE ClearStaleWorker(s)
  <2>1. Goes("over", session[s].tries)
    BY <1>1, <1>5 DEF ClearStaleWorker
  <2>2. session' \in [Sessions -> SessionRecords] /\ LifecycleInv'
    <3>1. Draining(s)
      BY <1>5 DEF ClearStaleWorker, WInv, LifecycleInv, Draining
    <3>. QED
      BY <1>0, <1>5, <2>1, <3>1, SessionGoesOn DEF ClearStaleWorker, Goes, NoneDraining
  <2>3. worker' \in [up : BOOLEAN, keys : BOOLEAN]
    BY <1>5 DEF ClearStaleWorker, WInv, WalletTypeOK
  <2>. QED
    BY <1>5, <2>2, <2>3 DEF ClearStaleWorker, WInv, WalletTypeOK, SessionRecords
<1>. QED
  BY <1>2, <1>3, <1>4, <1>5

LEMMA FailureStep ==
    ASSUME WInv, NEW s \in Sessions, AttemptFails(s)
    PROVE  WInv'
<1>0. /\ session \in [Sessions -> SessionRecords] /\ session[s] \in SessionRecords
      /\ session[s].tries \in 0..MaxRetries
  BY DEF WInv, WalletTypeOK, SessionRecords
<1>1. ASSUME NEW step \in {"waiting", "over"}, session' = [session EXCEPT ![s].step = step]
      PROVE  /\ session' = [session EXCEPT ![s] = [@ EXCEPT !.step = step, !.tries = session[s].tries]]
             /\ session' \in [Sessions -> SessionRecords]
             /\ \A r \in Sessions : r # s => session'[r] = session[r]
             /\ session'[s].step = step
  <2>1. [session[s] EXCEPT !.step = step] = [session[s] EXCEPT !.step = step, !.tries = session[s].tries]
    BY <1>0 DEF SessionRecords
  <2>2. [session[s] EXCEPT !.step = step] \in SessionRecords /\ [session[s] EXCEPT !.step = step].step = step
    BY <1>0 DEF SessionRecords
  <2>. QED
    BY <1>0, <1>1, <2>1, <2>2
<1>00. Keyed => Keyed'
  BY DEF AttemptFails, Keyed
<1>2. CASE /\ session' = [session EXCEPT ![s].step = "over"] \/
                (session[s].tries < MaxRetries /\ session' = [session EXCEPT ![s].step = "waiting"])
           /\ UNCHANGED <<authState, currentSession, svcWallet, pinger, pingFailures, listener,
                          reload, shown, loadedOnce, thresholds, closing>>
  <2>1. session' \in [Sessions -> SessionRecords] /\ LifecycleInv'
    <3>0. /\ session[s].step \in {"setup", "waiting", "prepared"} /\ storedWallet' = storedWallet
          /\ UNCHANGED <<authState, currentSession, svcWallet, pinger, listener, shown, thresholds, closing>>
      BY <1>2 DEF AttemptFails
    <3>1. CASE session' = [session EXCEPT ![s].step = "over"]
      BY <1>0, <1>00, <1>1, <3>0, <3>1, SessionGoesOn
    <3>2. CASE session[s].tries < MaxRetries /\ session' = [session EXCEPT ![s].step = "waiting"]
      <4>2. session' = [session EXCEPT ![s] = [@ EXCEPT !.step = "waiting", !.tries = session[s].tries]]
        BY <1>1, <3>2
      <4>. QED
        BY <1>0, <1>00, <3>0, <3>2, <4>2, SessionGoesOn
    <3>. QED
      BY <1>2, <3>1, <3>2
  <2>. QED
    BY <1>2, <2>1 DEF AttemptFails, WInv, WalletTypeOK, SessionRecords
<1>3. CASE /\ ~ Aborted(s) /\ session[s].kind = "unlock"
           /\ session' = [session EXCEPT ![s].step = "over"]
           /\ authState' = "locked"
           /\ UNCHANGED <<currentSession, svcWallet, pinger, pingFailures, listener,
                          reload, shown, loadedOnce, thresholds, closing>>
  <2>1. Live(s)
    BY <1>3 DEF AttemptFails, Live, Aborted
  <2>2. /\ Shut /\ s = currentSession /\ s # 0
        /\ ~ (svcWallet = 0 /\ storedWallet = "none")
    BY <1>3, <2>1, SessionsAssumption DEF WInv, LifecycleInv, Sessions
  <2>3. \A r \in Sessions : ~ Live(r)' /\ (Draining(r)' => Draining(r))
    BY <1>0, <1>1, <1>3, <2>2 DEF WInv, LifecycleInv, Live, Draining
  <2>4. closing = "none"
    BY <2>2 DEF WInv, LifecycleInv
  <2>5. \A r \in Sessions :
          /\ session'[r].step = "waiting" => session'[r].tries < MaxRetries
          /\ session'[r].step = "clearing" => session'[r].reason = "lock-reset"
    BY <1>1, <1>3 DEF WInv, LifecycleInv
  <2>6. /\ Shut' /\ NoneLive' /\ storedWallet' = storedWallet
        /\ svcWallet' = 0 => ~ thresholds' /\ NoneDraining'
    BY <1>3, <2>2, <2>3 DEF AttemptFails, WInv, LifecycleInv, Shut, NoneLive, NoneDraining
  <2>7. LifecycleInv'
    BY <1>3, <2>2, <2>3, <2>4, <2>5, <2>6 DEF LifecycleInv, Shut
  <2>. QED
    BY <1>1, <1>3, <2>7 DEF AttemptFails, WInv, WalletTypeOK, SessionRecords
<1>4. CASE ReloadPage
  BY <1>4, ReloadShuts DEF AttemptFails, WInv, WalletTypeOK
<1>. QED
  BY <1>2, <1>3, <1>4 DEF AttemptFails

\* The checkpoint lets only the session in force through, which is then over as
\* a session that could open the page.
LEMMA CommitStep ==
    ASSUME WInv, NEW s \in Sessions, CommitSession(s)
    PROVE  WInv'
<1>1. session \in [Sessions -> SessionRecords]
  BY DEF WInv, WalletTypeOK, SessionRecords
<1>2. /\ [session[s] EXCEPT !.step = "serving"] \in SessionRecords
      /\ [session[s] EXCEPT !.step = "serving"].step = "serving"
  BY <1>1 DEF SessionRecords
<1>3. /\ session' \in [Sessions -> SessionRecords]
      /\ \A r \in Sessions : r # s => session'[r] = session[r]
      /\ session'[s].step = "serving"
  BY <1>1, <1>2 DEF CommitSession
<1>4. Live(s)
  BY DEF CommitSession, Live, Aborted
<1>5. s = currentSession /\ s # 0 /\ s \in 0..MaxSessions
  BY <1>4, SessionsAssumption DEF WInv, LifecycleInv, Sessions
<1>6. authState # "locked" /\ closing = "none" /\ (authState = "unknown" => storedWallet = "default")
  BY <1>4, <1>5 DEF WInv, LifecycleInv, NoneLive
<1>7. \A r \in Sessions : ~ Live(r)' /\ (Draining(r)' => Draining(r))
  BY <1>1, <1>3, <1>5 DEF WInv, LifecycleInv, Live, Draining
<1>70. /\ NoneLive' /\ (NoneDraining => NoneDraining') /\ (Keyed <=> Keyed')
       /\ \A r \in Sessions :
            /\ session'[r].step = "waiting" => session'[r].tries < MaxRetries
            /\ session'[r].step = "clearing" => session'[r].reason = "lock-reset"
  BY <1>3, <1>7 DEF CommitSession, WInv, LifecycleInv, NoneLive, NoneDraining, Keyed
<1>71. authState' # "authenticated" => shown'.initialized /\ Keyed' /\ NoneDraining'
  <2>1. CASE session[s].kind = "create"
    <3>1. svcWallet = 0 /\ Keyed /\ NoneDraining
      BY <1>4, <2>1 DEF CommitSession, WInv, LifecycleInv
    <3>2. shown'.initialized
      BY <2>1 DEF CommitSession, WInv, WalletTypeOK
    <3>. QED
      BY <1>70, <3>1, <3>2
  <2>2. CASE session[s].kind = "unlock"
    BY <1>4, <2>2 DEF CommitSession, WInv, LifecycleInv
  <2>3. CASE session[s].kind \notin {"create", "unlock"}
    <3>1. /\ listener # 0 /\ (authState # "authenticated" => Keyed /\ NoneDraining)
          /\ authState' = authState /\ worker.keys \in BOOLEAN
      BY <1>4, <2>3 DEF CommitSession, WInv, WalletTypeOK, LifecycleInv
    <3>2. Keyed => worker.keys
      BY DEF Keyed, CommitSession
    <3>3. worker.keys => shown'.initialized
      BY DEF CommitSession, WInv, WalletTypeOK
    <3>. QED
      BY <1>70, <3>1, <3>2, <3>3
  <2>. QED
    BY <2>1, <2>2, <2>3
<1>72. /\ authState' # "locked" /\ (authState' = "unknown" => storedWallet' = "default")
       /\ closing' = "none" /\ svcWallet' # 0
  BY <1>5, <1>6 DEF CommitSession
<1>8. LifecycleInv'
  <2>1. pinger' # 0 => listener' # 0
    BY DEF CommitSession
  <2>. QED
    BY <1>7, <1>70, <1>71, <1>72, <2>1 DEF LifecycleInv
<1>9. /\ shown' \in [initialized : BOOLEAN, dataReady : BOOLEAN, loadError : BOOLEAN]
      /\ reload' \in [Sessions -> {"none", "reading", "updating"}]
  BY DEF CommitSession, WInv, WalletTypeOK
<1>. QED
  BY <1>3, <1>5, <1>8, <1>9, Zero DEF CommitSession, WInv, WalletTypeOK, SessionRecords, StoredWallets

-----------------------------------------------------------------------------
\* Creating, unlocking and healing start a session; lock and reset abort the one
\* in force.
LEMMA CreateStep ==
    ASSUME WInv, NEW s \in Sessions, CreateWallet(s)
    PROVE  WInv'
<1>1. authState = "authenticated" /\ closing = "none"
  BY DEF CreateWallet, WInv, LifecycleInv
<1>2. session' \in [Sessions -> SessionRecords] /\ LifecycleInv'
  BY <1>1, StartIsAlone DEF CreateWallet
<1>3. currentSession' \in 0..MaxSessions
  BY SessionsAssumption DEF CreateWallet, StartInitSession, Sessions
<1>. QED
  BY <1>2, <1>3 DEF CreateWallet, WInv, WalletTypeOK, SessionRecords

LEMMA UnlockStep ==
    ASSUME WInv, NEW s \in Sessions, UnlockWallet(s)
    PROVE  WInv'
<1>1. /\ Shut /\ closing = "none" /\ authState' = "authenticated" /\ authState # "unknown"
      /\ ~ (svcWallet = 0 /\ storedWallet = "none")
  BY DEF UnlockWallet, WInv, LifecycleInv, Shut
<1>2. session' \in [Sessions -> SessionRecords] /\ LifecycleInv'
  BY <1>1, StartIsAlone DEF UnlockWallet
<1>3. currentSession' \in 0..MaxSessions
  BY SessionsAssumption DEF UnlockWallet, StartInitSession, Sessions
<1>. QED
  BY <1>1, <1>2, <1>3 DEF UnlockWallet, WInv, WalletTypeOK, SessionRecords

LEMMA ReinitStep ==
    ASSUME WInv, NEW s \in Sessions, ReinitSvcWallet(s)
    PROVE  WInv'
<1>1. /\ authState # "locked" /\ closing = "none" /\ listener # 0
      /\ authState = "unknown" => storedWallet = "default"
  BY DEF ReinitSvcWallet, WInv, LifecycleInv, Shut
<1>2. session' \in [Sessions -> SessionRecords] /\ LifecycleInv' /\ currentSession' \in 0..MaxSessions
  <2>1. CASE StartInitSession(s, "reinit")
    <3>1. currentSession' \in 0..MaxSessions
      BY <2>1, SessionsAssumption DEF StartInitSession, Sessions
    <3>. QED
      BY <1>1, <2>1, <3>1, StartIsAlone DEF ReinitSvcWallet
  <2>2. CASE UNCHANGED <<session, currentSession>>
    <3>1. (Keyed' <=> Keyed) /\ \A r \in Sessions : (Live(r)' <=> Live(r)) /\ (Draining(r)' <=> Draining(r))
      BY <2>2 DEF ReinitSvcWallet, Keyed, Live, Draining
    <3>2. (NoneDraining => NoneDraining') /\ (Shut => Shut')
      BY <3>1 DEF ReinitSvcWallet, NoneDraining, Shut
    <3>. QED
      BY <1>1, <2>2, <3>1, <3>2 DEF ReinitSvcWallet, WInv, WalletTypeOK, SessionRecords, LifecycleInv
  <2>. QED
    BY <2>1, <2>2 DEF ReinitSvcWallet
<1>. QED
  BY <1>2, Zero DEF ReinitSvcWallet, WInv, WalletTypeOK, SessionRecords

LEMMA CloseStep ==
    ASSUME WInv, NEW how \in {"locking", "resetting"}, CloseSession(how)
    PROVE  WInv'
<1>1. /\ session' \in [Sessions -> SessionRecords]
      /\ \A s \in Sessions :
           /\ ~ Live(s)'
           /\ session'[s].step = "waiting" => session'[s].tries < MaxRetries
           /\ session'[s].step = "clearing" => session'[s].reason = "lock-reset"
  BY AbortEndsLife DEF CloseSession, Live, WInv, LifecycleInv
<1>2. LifecycleInv'
  BY <1>1 DEF CloseSession, Open, LifecycleInv
<1>. QED
  BY <1>1, <1>2, Zero DEF CloseSession, WInv, WalletTypeOK, SessionRecords

LEMMA FinishLockStep == WInv /\ FinishLock => WInv'
<1>. SUFFICES ASSUME WInv, FinishLock PROVE WInv'
  OBVIOUS
<1>1. /\ currentSession = 0 /\ pinger = 0 /\ listener = 0 /\ svcWallet # 0
      /\ \A s \in Sessions : ~ Live(s)
  BY SessionsAssumption DEF FinishLock, WInv, LifecycleInv, Sessions
<1>2. \A s \in Sessions : Live(s)' <=> Live(s)
  BY DEF FinishLock, Live
<1>3. /\ shown' \in [initialized : BOOLEAN, dataReady : BOOLEAN, loadError : BOOLEAN]
      /\ authState' = "locked" => ~ shown'.initialized
      /\ authState' \in {authState, "locked"} /\ authState # "locked"
  BY <1>1 DEF FinishLock, WInv, WalletTypeOK, LifecycleInv, Shut
<1>4. LifecycleInv'
  <2>1. authState' = "unknown" => storedWallet = "default"
    BY <1>3 DEF FinishLock, WInv, LifecycleInv, Shut
  <2>. QED
    BY <1>1, <1>2, <1>3, <2>1 DEF FinishLock, WInv, LifecycleInv, Shut, NoneLive
<1>5. worker' \in [up : BOOLEAN, keys : BOOLEAN]
  BY DEF FinishLock, WInv, WalletTypeOK
<1>. QED
  BY <1>3, <1>4, <1>5 DEF FinishLock, WInv, WalletTypeOK

LEMMA ResetStep == WInv /\ (ClearForReset \/ FinishReset) => WInv'
<1>1. ASSUME WInv, ClearForReset PROVE WInv'
  <2>1. /\ UNCHANGED <<session, currentSession, shown, pinger, listener, worker, authState, svcWallet, thresholds>>
        /\ closing # "none"
    BY <1>1 DEF ClearForReset
  <2>2. currentSession = 0 /\ svcWallet # 0 /\ shown.initialized
    BY <1>1, <2>1 DEF WInv, LifecycleInv
  <2>3. \A s \in Sessions : ~ Live(s)
    BY <1>1, <2>2, SessionsAssumption DEF WInv, LifecycleInv, Sessions
  <2>4. NoneLive' /\ (NoneDraining' <=> NoneDraining) /\ (Shut' <=> Shut) /\ (Keyed' <=> Keyed)
    BY <2>1, <2>3 DEF NoneLive, NoneDraining, Live, Draining, Shut, Keyed
  <2>5. authState # "unknown"
    BY <1>1, <2>1 DEF ClearForReset, WInv, LifecycleInv
  <2>6. LifecycleInv'
    BY <1>1, <2>1, <2>2, <2>4, <2>5 DEF WInv, LifecycleInv, NoneLive
  <2>. QED
    BY <1>1, <2>6 DEF ClearForReset, WInv, WalletTypeOK, StoredWallets
<1>2. ASSUME WInv, FinishReset PROVE WInv'
  <2>1. CASE worker.up /\ worker' = [worker EXCEPT !.keys = FALSE] /\ ReloadPage
    <3>1. worker' \in [up : BOOLEAN, keys : BOOLEAN]
      BY <1>2, <2>1 DEF WInv, WalletTypeOK
    <3>. QED
      BY <1>2, <2>1, <3>1, ReloadShuts DEF FinishReset
  <2>2. CASE closing' = "none" /\ UNCHANGED <<worker, authState, session, currentSession, svcWallet,
                pinger, pingFailures, listener, reload, shown, loadedOnce, thresholds>>
    <3>1. /\ (NoneLive' <=> NoneLive) /\ (NoneDraining' <=> NoneDraining)
          /\ (Shut' <=> Shut) /\ (Keyed' <=> Keyed)
          /\ \A s \in Sessions : Live(s)' <=> Live(s)
      BY <2>2 DEF NoneLive, NoneDraining, Live, Draining, Shut, Keyed
    <3>. QED
      BY <1>2, <2>2, <3>1 DEF FinishReset, WInv, WalletTypeOK, LifecycleInv
  <2>. QED
    BY <1>2, <2>1, <2>2 DEF FinishReset
<1>. QED
  BY <1>1, <1>2

\* The password is found out.
LEMMA DetectStep == WInv /\ DetectPassword => WInv'
<1>. SUFFICES ASSUME WInv, DetectPassword PROVE WInv'
  OBVIOUS
<1>1. /\ UNCHANGED <<session, currentSession, shown, pinger, listener, worker, storedWallet, svcWallet,
                     thresholds, closing>>
      /\ authState' \in {"passwordless", "locked"} /\ authState = "unknown"
      /\ authState' = "locked" => storedWallet # "default"
  BY DEF DetectPassword
<1>2. /\ (NoneLive' <=> NoneLive) /\ (NoneDraining' <=> NoneDraining)
      /\ (Shut' <=> Shut) /\ (Keyed' <=> Keyed)
      /\ \A s \in Sessions : Live(s)' <=> Live(s)
  BY <1>1 DEF NoneLive, NoneDraining, Live, Draining, Shut, Keyed
<1>3. LifecycleInv'
  BY <1>1, <1>2 DEF WInv, LifecycleInv
<1>. QED
  BY <1>1, <1>3 DEF DetectPassword, WInv, WalletTypeOK

\* Neither the ping nor a reload opens a page that is shut.
LEMMA QuietStep ==
    ASSUME WInv,
           \/ SavePassword \/ WorkerDies \/ PingAnswered \/ PingFails \/ SaveThresholds \/ DismissLoadError
           \/ \E s \in Sessions : StartReload(s) \/ ReadWallet(s) \/ ReloadFails(s) \/ FinishReload(s)
    PROVE  WInv'
<1>. USE DEF WInv, WalletTypeOK
<1>1. UNCHANGED <<session, authState, currentSession, svcWallet, pinger, listener, closing>>
  BY DEF SavePassword, WorkerDies, PingAnswered, PingFails, SaveThresholds, DismissLoadError,
         StartReload, ReadWallet, ReloadFails, FinishReload
<1>10. shown' \in [initialized : BOOLEAN, dataReady : BOOLEAN, loadError : BOOLEAN]
  BY ZenonT(40) DEF SavePassword, WorkerDies, PingAnswered, PingFails, SaveThresholds, DismissLoadError,
         StartReload, ReadWallet, ReloadFails, FinishReload
<1>2. /\ shown'.initialized # shown.initialized => PingAnswered
      /\ thresholds' => thresholds \/ shown.initialized
      /\ worker' = worker \/ worker' = [up |-> FALSE, keys |-> FALSE]
  <2>1. shown'.initialized # shown.initialized => PingAnswered
    <3>1. shown \in [initialized : BOOLEAN, dataReady : BOOLEAN, loadError : BOOLEAN]
      OBVIOUS
    <3>. HIDE DEF WInv, WalletTypeOK
    <3>2. CASE SavePassword \/ WorkerDies \/ PingFails \/ SaveThresholds \/ DismissLoadError
      BY ONLY <3>1, <3>2 DEF SavePassword, WorkerDies, PingFails, SaveThresholds, DismissLoadError
    <3>3. CASE \E s \in Sessions : StartReload(s) \/ ReadWallet(s) \/ ReloadFails(s) \/ FinishReload(s)
      BY ONLY <3>1, <3>3 DEF StartReload, ReadWallet, ReloadFails, FinishReload
    <3>. QED
      BY <3>2, <3>3
  <2>2. thresholds' => thresholds \/ shown.initialized
    BY ZenonT(40) DEF SavePassword, WorkerDies, PingAnswered, PingFails, SaveThresholds, DismissLoadError,
           StartReload, ReadWallet, ReloadFails, FinishReload
  <2>3. worker' = worker \/ worker' = [up |-> FALSE, keys |-> FALSE]
    BY DEF SavePassword, WorkerDies, PingAnswered, PingFails, SaveThresholds, DismissLoadError,
           StartReload, ReadWallet, ReloadFails, FinishReload
  <2>. QED
    BY <2>1, <2>2, <2>3
<1>20. storedWallet' # storedWallet => authState # "unknown" /\ svcWallet # 0 /\ storedWallet' # "none"
  BY DEF SavePassword, Open, WorkerDies, PingAnswered, PingFails, SaveThresholds, DismissLoadError,
         StartReload, ReadWallet, ReloadFails, FinishReload, LifecycleInv, Shut
<1>21. ASSUME PingAnswered, shown'.initialized # shown.initialized
       PROVE  pinger # 0 /\ (authState # "authenticated" => shown'.initialized)
  BY <1>21 DEF PingAnswered, LifecycleInv, Keyed
<1>22. Keyed => Keyed'
  BY <1>2 DEF Keyed
<1>3. LifecycleInv'
  <2>1. \A r \in Sessions :
          /\ Live(r)' => Live(r)
          /\ Draining(r)' => Draining(r)
          /\ session'[r].kind = session[r].kind
          /\ session'[r].step = "prepared" => session[r].step = "prepared" \/ Keyed'
          /\ session'[r].step = "waiting" => session'[r].tries < MaxRetries
          /\ session'[r].step = "clearing" => session'[r].reason = "lock-reset"
    BY <1>1 DEF Live, Draining, LifecycleInv
  <2>. QED
    BY <1>1, <1>2, <1>20, <1>21, <1>22, <2>1, LifeGoesOn
<1>4. /\ storedWallet' \in StoredWallets /\ loadedOnce' \in {loadedOnce, TRUE}
      /\ worker' = worker \/ worker' = [up |-> FALSE, keys |-> FALSE]
      /\ UNCHANGED svcWallet
  BY DEF SavePassword, StoredWallets, WorkerDies, PingAnswered, PingFails, SaveThresholds, DismissLoadError,
         StartReload, ReadWallet, ReloadFails, FinishReload
<1>6. authState' \in {"unknown", "passwordless", "locked", "authenticated"}
  BY DEF SavePassword, StoredWallets, WorkerDies, PingAnswered, PingFails, SaveThresholds, DismissLoadError,
         StartReload, ReadWallet, ReloadFails, FinishReload
<1>7. worker' \in [up : BOOLEAN, keys : BOOLEAN]
  <2>1. worker \in [up : BOOLEAN, keys : BOOLEAN]
    OBVIOUS
  <2>2. [up |-> FALSE, keys |-> FALSE] \in [up : BOOLEAN, keys : BOOLEAN]
    OBVIOUS
  <2>3. worker' = worker \/ worker' = [up |-> FALSE, keys |-> FALSE]
    BY <1>4
  <2>. HIDE DEF WInv, WalletTypeOK
  <2>. QED
    BY <2>1, <2>2, <2>3
<1>8. thresholds' \in BOOLEAN
  BY DEF SavePassword, StoredWallets, WorkerDies, PingAnswered, PingFails, SaveThresholds, DismissLoadError,
         StartReload, ReadWallet, ReloadFails, FinishReload
<1>5. reload' \in [Sessions -> {"none", "reading", "updating"}] /\ pingFailures' \in 0..3
  BY DEF SavePassword, StoredWallets, WorkerDies, PingAnswered, PingFails, SaveThresholds, DismissLoadError,
         StartReload, ReadWallet, ReloadFails, FinishReload
<1>. QED
  BY <1>1, <1>2, <1>3, <1>4, <1>5, <1>6, <1>7, <1>8, <1>10

LEMMA WalletStepInv == WInv /\ [WalletNext]_walletVars => WInv'
<1>. SUFFICES ASSUME WInv, [WalletNext]_walletVars PROVE WInv'
  OBVIOUS
<1>1. CASE UNCHANGED walletVars
  BY <1>1 DEF walletVars, WInv, WalletTypeOK, LifecycleInv, Live, Shut, Draining, Keyed, NoneLive, NoneDraining
<1>2. CASE WalletNext
  BY <1>2, AttemptStep, FailureStep, CommitStep, CreateStep, UnlockStep, ReinitStep, CloseStep, FinishLockStep,
     ResetStep, DetectStep, QuietStep
     DEF WalletNext, SessionStep, LockWallet, ResetWallet
<1>. QED
  BY <1>1, <1>2

LEMMA LifecycleInvariant == WalletSpec => []WInv
BY WalletInitInv, WalletStepInv, PTL DEF WalletSpec

LEMMA LockedStaysShut == WInv => LockedIsShut
BY DEF WInv, LifecycleInv, Shut, LockedIsShut

\* Sessions, worker and page keep their types.
THEOREM LifecycleTypeCorrectness == WalletSpec => []WalletTypeOK
BY LifecycleInvariant, PTL DEF WInv

\* A locked wallet is not initialized, listens to no worker and pings none,
\* whatever number of sessions was in flight when it was locked, at whichever of
\* their awaits, and however often each of them is retried.
THEOREM LockedWalletIsShut == WalletSpec => []LockedIsShut
BY LifecycleInvariant, LockedStaysShut, PTL

-----------------------------------------------------------------------------
(* The SatsPath profile.                                                   *)

LEMMA SatsPathInitType == SatsPathInit => SatsPathTypeOK
BY DEF SatsPathInit, SatsPathTypeOK

LEMMA SatsPathStepType == SatsPathTypeOK /\ [SatsPathNext]_satsPathVars => SatsPathTypeOK'
<1>. SUFFICES ASSUME SatsPathTypeOK, [SatsPathNext]_satsPathVars PROVE SatsPathTypeOK'
  OBVIOUS
<1>. USE DEF SatsPathTypeOK
<1>0. Refresh(identity) \in Refreshes
  BY DEF Refresh, Refreshes
<1>1. CASE UNCHANGED satsPathVars
  BY <1>1 DEF satsPathVars
<1>2. CASE InitWasm \/ InitWasmFails \/ DeriveIdentity
  BY <1>2 DEF InitWasm, InitWasmFails, DeriveIdentity, Derive, Refreshes
<1>3. CASE CheckDaemonHealth
  BY <1>0, <1>3 DEF CheckDaemonHealth, HealthAnswered, HealthFails
<1>4. CASE PushAnswered \/ ChallengeAnswered \/ ReopenProfileScreen
  BY <1>4 DEF PushAnswered, ChallengeAnswered, ReopenProfileScreen
<1>5. CASE RegisterAlias
  BY <1>5 DEF RegisterAlias
<1>6. CASE VerifyAlias \/ VerifyAnswered
  BY <1>0, <1>6 DEF VerifyAlias, VerifyAnswered
<1>7. CASE PublishMethods \/ AutoSyncMethods
  BY <1>0, <1>7 DEF PublishMethods, AutoSyncMethods, Saves
<1>8. ASSUME NEW request \in Refreshes, RefreshAnswered(request) PROVE SatsPathTypeOK'
  BY <1>8 DEF RefreshAnswered, ShownAfterRefresh
<1>9. ASSUME NEW request \in Saves, SaveAnswered(request) PROVE SatsPathTypeOK'
  BY <1>0, <1>9 DEF SaveAnswered
<1>. QED
  BY <1>1, <1>2, <1>3, <1>4, <1>5, <1>6, <1>7, <1>8, <1>9 DEF SatsPathNext

\* Profiles and requests keep their types, in whatever order requests are answered.
THEOREM SatsPathTypeCorrectness == SatsPathSpec => []SatsPathTypeOK
BY SatsPathInitType, SatsPathStepType, PTL DEF SatsPathSpec

-----------------------------------------------------------------------------
(* The quotes of an alias.  For any number of versions, any life of a      *)
(* cache entry and any time, a quote is not routed along a profile that    *)
(* the domain replaced long ago.  The two caches of the Nostr resolver add *)
(* up, because the second keeps what the first one named.                  *)

CacheEntries == [version : Versions \cup {0}, expires : 0 .. (LastTick + CacheTtl)]
QuoteSteps == {"idle", "registry", "bip353", "https", "nostr", "check", "route"} \cup Requests \cup Answers
Quotes == [step : QuoteSteps, at : 0 .. LastTick,
           via : {"none", "registry", "bip353"} \cup Documented, version : Versions \cup {0},
           rail : {"none", "Lightning", "Onchain", "Ark"}]

\* The domain showed a document or key at some time or later.
ShownAfter(source, k, time) ==
    k \in Versions /\ (k = Shown(source, served[source]) \/ time <= replacedAt[source][k])

\* What a cache keeps was shown no longer before its entry expires than lag.
EntryInv(source, entry, k, lag) ==
    /\ entry.expires <= clock + CacheTtl
    /\ entry.version = 0 => entry.expires = 0
    /\ entry.version # 0 => ShownAfter(source, k, entry.expires - lag)

CachesInv ==
    /\ EntryInv("https", profileCache["https"], profileCache["https"].version, Lag("https"))
    /\ EntryInv("nostr", nip05Cache, nip05Cache.version, Lag("https"))
    /\ EntryInv("nostr", profileCache["nostr"], Shown("nostr", profileCache["nostr"].version), Lag("nostr"))

\* What a call carries was shown when, or not long before, its request went out.
CallIs(call) ==
    /\ call.at <= clock
    /\ call.step \in Requests => clock <= call.at + Longest
    /\ call.step = "https read" => ShownAfter("https", call.version, call.at)
    /\ call.step = "nip05 read" => ShownAfter("nostr", call.version, call.at)
    /\ call.step = "relays" => ShownAfter("nostr", call.version, call.at + 1 - Lag("https"))
    /\ call.step \in {"check", "route"} /\ call.via \in Documented =>
         ShownAfter(call.via, Shown(call.via, call.version), call.at + 1 - Lag(call.via))

CallInv == CallIs(quoteCall)

QuoteInv == QuoteTypeOK /\ CachesInv /\ CallInv

LEMMA QuoteTypes ==
    QuoteTypeOK <=> /\ clock \in 0 .. LastTick
                    /\ served \in [Documented -> Versions \cup {0}]
                    /\ replacedAt \in [Documented -> [Versions -> 0 .. LastTick]]
                    /\ profileCache \in [Documented -> CacheEntries] /\ nip05Cache \in CacheEntries
                    /\ quoteCall \in Quotes
BY DEF QuoteTypeOK, CacheEntries, Quotes, QuoteSteps

LEMMA Numbers == /\ LastTick \in Nat /\ CacheTtl \in Nat \ {0} /\ Longest \in Nat
                 /\ Versions \subseteq Nat \ {0} /\ KeyOf \in [Versions -> Versions]
                 /\ Lag("https") \in Nat /\ Lag("nostr") \in Nat
                 /\ Lag("https") = Longest + CacheTtl /\ Lag("nostr") = 2 * (Longest + CacheTtl)
BY QuoteAssumption DEF Lag

\* What a domain shows of a version is a version, and nothing of none.
LEMMA Showing ==
    ASSUME NEW source \in Documented, NEW v \in Versions \cup {0}
    PROVE  /\ Shown(source, v) \in Versions \cup {0}
           /\ Shown(source, v) = 0 <=> v = 0
           /\ source = "https" => Shown(source, v) = v
BY Numbers DEF Shown, Documented

\* A document or key shown after some time was shown after any earlier one.
LEMMA ShownEarlier ==
    ASSUME QuoteTypeOK, NEW source \in Documented, NEW k, NEW time \in Int, NEW earlier \in Int,
           earlier <= time, ShownAfter(source, k, time)
    PROVE  ShownAfter(source, k, earlier)
<1>1. CASE k = Shown(source, served[source])
  BY <1>1 DEF ShownAfter
<1>2. CASE k \in Versions /\ time <= replacedAt[source][k]
  <2>1. replacedAt[source] \in [Versions -> 0 .. LastTick]
    BY QuoteTypes
  <2>2. replacedAt[source][k] \in 0 .. LastTick
    BY <1>2, <2>1
  <2>. QED
    BY <1>2, <2>2, Numbers DEF ShownAfter
<1>. QED
  BY <1>1, <1>2 DEF ShownAfter

\* A step that changes the call alone.
LEMMA QuoteKept ==
    ASSUME NEW to, quoteCall' = to, CallIs(to), UNCHANGED <<clock, served, replacedAt>>
    PROVE  CallInv'
BY DEF CallInv, CallIs, ShownAfter

\* An answer, and the next resolver's turn, hold no version.
LEMMA Restarts ==
    ASSUME QuoteInv, NEW to \in Quotes, quoteCall' = to, to.at = 0,
           to.step \notin Requests \cup {"check", "route"},
           UNCHANGED <<clock, served, replacedAt>>
    PROVE  quoteCall' \in Quotes /\ CallInv'
<1>1. clock \in Nat
  BY QuoteTypes, Numbers DEF QuoteInv
<1>2. to.at <= clock
  BY <1>1
<1>3. to.step \notin Requests /\ to.step \notin {"https read", "nip05 read", "relays", "check", "route"}
  BY DEF Requests
<1>4. CallIs(to)
  BY <1>2, <1>3 DEF CallIs
<1>. QED
  BY <1>4, QuoteKept

LEMMA FreshQuotes ==
    ASSUME NEW step \in QuoteSteps, NEW rail \in {"none", "Lightning", "Onchain", "Ark"}
    PROVE  /\ [NoQuote EXCEPT !.step = step, !.rail = rail] \in Quotes
           /\ [NoQuote EXCEPT !.step = step] \in Quotes
           /\ [NoQuote EXCEPT !.step = step, !.rail = rail].at = 0
           /\ [NoQuote EXCEPT !.step = step, !.rail = rail].step = step
           /\ [NoQuote EXCEPT !.step = step].at = 0 /\ [NoQuote EXCEPT !.step = step].step = step
<1>1. NoQuote \in Quotes /\ NoQuote.at = 0
  BY Numbers DEF NoQuote, Quotes, QuoteSteps
<1>2. [NoQuote EXCEPT !.step = step] \in Quotes
  BY <1>1 DEF Quotes
<1>3. [NoQuote EXCEPT !.step = step, !.rail = rail] \in Quotes
  BY <1>1 DEF Quotes
<1>. QED
  BY <1>2, <1>3 DEF NoQuote

LEMMA TryNextKeeps ==
    ASSUME QuoteInv, NEW error, TryNext(error), UNCHANGED <<clock, served, replacedAt>>
    PROVE  quoteCall' \in Quotes /\ CallInv'
<1>1. CASE After(quoteCall.step) # "exhausted"
  <2>. DEFINE to == [NoQuote EXCEPT !.step = After(quoteCall.step)]
  <2>1. After(quoteCall.step) \in {"bip353", "https", "nostr"}
    BY <1>1 DEF After
  <2>2. to \in Quotes /\ to.at = 0 /\ to.step = After(quoteCall.step) /\ quoteCall' = to
    BY <1>1, <2>1, FreshQuotes DEF TryNext, QuoteSteps
  <2>. HIDE DEF to
  <2>. QED
    BY <2>1, <2>2, Restarts DEF Requests
<1>2. CASE After(quoteCall.step) = "exhausted"
  <2>1. PICK step \in {"not_registered", "thrown"} : Answered(step, "none")
    BY <1>2 DEF TryNext
  <2>. DEFINE to == [NoQuote EXCEPT !.step = step, !.rail = "none"]
  <2>2. to \in Quotes /\ to.at = 0 /\ to.step = step /\ quoteCall' = to
    BY <2>1, FreshQuotes DEF Answered, QuoteSteps, Answers
  <2>. HIDE DEF to
  <2>. QED
    BY <2>1, <2>2, Restarts DEF Requests
<1>. QED
  BY <1>1, <1>2

LEMMA AnsweredKeeps ==
    ASSUME QuoteInv, NEW step \in Answers, NEW rail \in {"none", "Lightning", "Onchain", "Ark"},
           Answered(step, rail), UNCHANGED <<clock, served, replacedAt>>
    PROVE  quoteCall' \in Quotes /\ CallInv'
<1>. DEFINE to == [NoQuote EXCEPT !.step = step, !.rail = rail]
<1>1. to \in Quotes /\ to.at = 0 /\ to.step = step /\ quoteCall' = to
  BY FreshQuotes DEF Answered, QuoteSteps
<1>. HIDE DEF to
<1>. QED
  BY <1>1, Restarts DEF Answers, Requests

\* A resolver's profile is handed to the check.
LEMMA ResolvedKeeps ==
    ASSUME QuoteInv, NEW via \in {"registry", "bip353"} \cup Documented,
           NEW version \in Versions \cup {0}, Resolved(via, version),
           via \in Documented => ShownAfter(via, Shown(via, version), clock + 1 - Lag(via)),
           UNCHANGED <<clock, served, replacedAt>>
    PROVE  quoteCall' \in Quotes /\ CallInv'
<1>. DEFINE to == [quoteCall EXCEPT !.step = "check", !.via = via, !.version = version, !.at = clock]
<1>1. quoteCall \in Quotes /\ clock \in 0 .. LastTick /\ clock \in Nat
  BY QuoteTypes, Numbers DEF QuoteInv
<1>2. /\ quoteCall' = to /\ to \in Quotes
      /\ to.step = "check" /\ to.via = via /\ to.version = version /\ to.at = clock
  BY <1>1 DEF Resolved, Quotes, QuoteSteps
<1>. HIDE DEF to
<1>. QED
  BY <1>1, <1>2 DEF CallInv, CallIs, ShownAfter, Requests

\* A request goes out, or its answer arrives.
LEMMA RequestKeeps ==
    ASSUME NEW to \in Quotes, quoteCall' = to, to.step \in Requests,
           to.at <= clock, clock <= to.at + Longest,
           to.step = "https read" => ShownAfter("https", to.version, to.at),
           to.step = "nip05 read" => ShownAfter("nostr", to.version, to.at),
           to.step = "relays" => ShownAfter("nostr", to.version, to.at + 1 - Lag("https")),
           UNCHANGED <<clock, served, replacedAt>>
    PROVE  CallInv'
<1>1. CallIs(to)
  BY DEF CallIs, Requests
<1>. QED
  BY <1>1, QuoteKept

\* The fields of a request that goes out now.
LEMMA AsksNow ==
    ASSUME QuoteInv, NEW step \in Requests, NEW version \in Versions \cup {0}, Asks(step, version)
    PROVE  \E to \in Quotes : /\ quoteCall' = to /\ to.step = step
                              /\ to.version = version /\ to.at = clock
<1>. DEFINE call == [quoteCall EXCEPT !.step = step, !.version = version, !.at = clock]
<1>1. quoteCall \in Quotes /\ clock \in 0 .. LastTick
  BY QuoteTypes DEF QuoteInv
<1>2. call \in Quotes /\ call.step = step /\ call.version = version /\ call.at = clock
  BY <1>1 DEF Quotes, QuoteSteps
<1>3. quoteCall' = call
  BY DEF Asks
<1>. HIDE DEF call
<1>. QED
  BY <1>2, <1>3

\* A request that goes out now keeps the invariant of the call.
LEMMA AskedNow ==
    ASSUME QuoteInv, NEW to \in Quotes, quoteCall' = to, to.at = clock,
           to.step \in {"https sent", "nip05 sent", "relays"},
           to.step = "relays" => ShownAfter("nostr", to.version, clock + 1 - Lag("https")),
           UNCHANGED <<clock, served, replacedAt>>
    PROVE  quoteCall' \in Quotes /\ CallInv'
<1>0. clock \in Nat /\ clock <= clock /\ clock <= clock + Longest
  <2>1. clock \in 0 .. LastTick
    BY QuoteTypes DEF QuoteInv
  <2>. QED
    BY ONLY <2>1, Numbers
<1>1. to.at <= clock /\ clock <= to.at + Longest
  BY <1>0
<1>2. to.step \in Requests /\ to.step \notin {"https read", "nip05 read"}
  BY DEF Requests
<1>. QED
  BY <1>1, <1>2, RequestKeeps

\* A new cache entry for a version of which k is shown.
LEMMA KeepLasts ==
    ASSUME QuoteInv, NEW source \in Documented, NEW v \in Versions, NEW k, NEW lag \in Nat,
           ShownAfter(source, k, clock + CacheTtl - lag)
    PROVE  Keep(v) \in CacheEntries /\ EntryInv(source, Keep(v), k, lag)
<1>1. clock \in 0 .. LastTick
  BY QuoteTypes DEF QuoteInv
<1>2. Keep(v).version = v /\ Keep(v).expires = clock + CacheTtl /\ Keep(v) \in CacheEntries
  BY <1>1, Numbers DEF Keep, CacheEntries
<1>. QED
  BY <1>1, <1>2, Numbers DEF EntryInv

\* What a fresh entry keeps was shown not long ago.
LEMMA FreshIsShown ==
    ASSUME QuoteInv, NEW source \in Documented, NEW entry \in CacheEntries, NEW k, NEW lag \in Nat,
           EntryInv(source, entry, k, lag), IsFresh(entry)
    PROVE  entry.version \in Versions /\ ShownAfter(source, k, clock + 1 - lag)
<1>1. /\ clock \in Nat /\ entry.version \in Versions \cup {0} /\ entry.expires \in Nat /\ QuoteTypeOK
  BY QuoteTypes, Numbers DEF QuoteInv, CacheEntries
<1>2. entry.version # 0 /\ clock + 1 <= entry.expires
  BY <1>1 DEF EntryInv, IsFresh
<1>3. ShownAfter(source, k, entry.expires - lag)
  BY <1>2 DEF EntryInv
<1>4. clock + 1 - lag \in Int /\ entry.expires - lag \in Int /\ clock + 1 - lag <= entry.expires - lag
  BY <1>1, <1>2
<1>. QED
  BY <1>1, <1>2, <1>3, <1>4, ShownEarlier

LEMMA InitQuotes == QuoteInit => QuoteInv
<1>. SUFFICES ASSUME QuoteInit PROVE QuoteInv
  OBVIOUS
<1>1. NoQuote \in Quotes /\ NoQuote.at = 0 /\ NoQuote.step = "idle"
  BY Numbers DEF NoQuote, Quotes, QuoteSteps
<1>2. NotCached \in CacheEntries /\ NotCached.version = 0 /\ NotCached.expires = 0
  BY Numbers DEF NotCached, CacheEntries
<1>3. QuoteTypeOK
  BY <1>1, <1>2, Numbers, QuoteTypes DEF QuoteInit
<1>4. CachesInv
  BY <1>2, Numbers DEF QuoteInit, CachesInv, EntryInv, Documented
<1>. QED
  BY <1>1, <1>3, <1>4 DEF QuoteInit, QuoteInv, CallInv, CallIs, Requests

\* A step that serves the same and adds no cache entry.
LEMMA CachesStand ==
    ASSUME QuoteInv, UNCHANGED <<clock, served, replacedAt, profileCache, nip05Cache>>,
           quoteCall' \in Quotes, CallInv'
    PROVE  QuoteInv'
<1>1. QuoteTypeOK'
  BY QuoteTypes DEF QuoteInv, QuoteTypeOK, Quotes, QuoteSteps
<1>. QED
  BY <1>1 DEF QuoteInv, CachesInv, EntryInv, ShownAfter

\* A step that serves the same and keeps a profile in the cache of its source.
LEMMA ProfileKept ==
    ASSUME QuoteInv, NEW source \in Documented, NEW entry \in CacheEntries,
           EntryInv(source, entry, Shown(source, entry.version), Lag(source)),
           profileCache' = [profileCache EXCEPT ![source] = entry],
           UNCHANGED <<clock, served, replacedAt, nip05Cache>>,
           quoteCall' \in Quotes, CallInv'
    PROVE  QuoteInv'
<1>1. /\ profileCache' \in [Documented -> CacheEntries] /\ profileCache'[source] = entry
      /\ \A other \in Documented \ {source} : profileCache'[other] = profileCache[other]
  BY QuoteTypes DEF QuoteInv
<1>2. QuoteTypeOK'
  BY <1>1, QuoteTypes DEF QuoteInv, QuoteTypeOK, Quotes, QuoteSteps, CacheEntries
<1>3. EntryInv("nostr", nip05Cache, nip05Cache.version, Lag("https"))'
  BY DEF QuoteInv, CachesInv, EntryInv, ShownAfter
<1>4. ASSUME NEW other \in Documented
      PROVE  EntryInv(other, profileCache[other], Shown(other, profileCache[other].version), Lag(other))'
  <2>1. CASE other = source
    BY <1>1, <2>1 DEF EntryInv, ShownAfter
  <2>2. CASE other # source
    <3>1. EntryInv(other, profileCache[other], Shown(other, profileCache[other].version), Lag(other))
      <4>1. Shown("https", profileCache["https"].version) = profileCache["https"].version
        BY DEF Shown
      <4>. QED
        BY <4>1 DEF QuoteInv, CachesInv, Documented
    <3>. QED
      BY <1>1, <2>2, <3>1 DEF EntryInv, ShownAfter
  <2>. QED
    BY <2>1, <2>2
<1>5. CachesInv'
  <2>1. Shown("https", profileCache'["https"].version) = profileCache'["https"].version
    BY DEF Shown
  <2>2. "https" \in Documented /\ "nostr" \in Documented
    BY DEF Documented
  <2>. QED
    BY <1>3, <1>4, <2>1, <2>2 DEF CachesInv
<1>. QED
  BY <1>2, <1>5 DEF QuoteInv

\* What was shown after a time that has passed was so after the domain
\* publishes its next version.
LEMMA ServeKeeps ==
    ASSUME QuoteInv, NEW source \in Documented, Serve(source),
           NEW other \in Documented, NEW k, NEW time \in Int, time <= clock, ShownAfter(other, k, time)
    PROVE  ShownAfter(other, k, time)'
<1>1. /\ clock \in 0 .. LastTick /\ served \in [Documented -> Versions \cup {0}]
      /\ replacedAt \in [Documented -> [Versions -> 0 .. LastTick]]
      /\ served' = [served EXCEPT ![source] = served[source] + 1] /\ clock' = clock
  BY QuoteTypes DEF QuoteInv, Serve
<1>2. k \in Versions
  BY DEF ShownAfter
<1>. DEFINE old == Shown(source, served[source])
            new == Shown(source, served[source] + 1)
<1>3. CASE other = source /\ served[source] # 0 /\ new # old
  <2>1. old \in Versions
    BY <1>1, <1>3, Showing
  <2>2. replacedAt' = [replacedAt EXCEPT ![source][old] = clock]
    BY <1>3 DEF Serve
  <2>3. replacedAt'[source][k] = IF k = old THEN clock ELSE replacedAt[source][k]
    BY <1>1, <1>2, <2>1, <2>2
  <2>. QED
    BY <1>1, <1>2, <1>3, <2>3 DEF ShownAfter
<1>4. CASE other = source /\ served[source] # 0 /\ new = old
  <2>1. replacedAt' = replacedAt /\ served'[source] = served[source] + 1
    BY <1>1, <1>4 DEF Serve
  <2>. QED
    BY <1>1, <1>4, <2>1 DEF ShownAfter
<1>5. CASE other = source /\ served[source] = 0
  <2>1. replacedAt' = replacedAt /\ old = 0
    BY <1>5 DEF Serve, Shown
  <2>. QED
    BY <1>2, <1>5, <2>1, Numbers DEF ShownAfter
<1>6. CASE other # source
  <2>1. replacedAt'[other] = replacedAt[other] /\ served'[other] = served[other]
    BY <1>1, <1>6 DEF Serve
  <2>. QED
    BY <2>1 DEF ShownAfter
<1>. QED
  BY <1>3, <1>4, <1>5, <1>6

LEMMA StepQuotes == QuoteInv /\ [QuoteNext]_quoteVars => QuoteInv'
<1>. SUFFICES ASSUME QuoteInv, [QuoteNext]_quoteVars PROVE QuoteInv'
  OBVIOUS
<1>0. /\ clock \in 0 .. LastTick /\ clock \in Nat
      /\ served \in [Documented -> Versions \cup {0}]
      /\ profileCache \in [Documented -> CacheEntries] /\ nip05Cache \in CacheEntries
      /\ quoteCall \in Quotes /\ quoteCall.at \in Nat /\ quoteCall.version \in Versions \cup {0}
      /\ "https" \in Documented /\ "nostr" \in Documented /\ QuoteTypeOK
  BY QuoteTypes, Numbers DEF QuoteInv, Documented, Quotes
<1>1. CASE UNCHANGED quoteVars
  BY <1>0, <1>1, CachesStand DEF quoteVars, QuoteInv, CallInv, CallIs, ShownAfter
<1>2. CASE AskQuote
  <2>. DEFINE to == [NoQuote EXCEPT !.step = "registry"]
  <2>1. to \in Quotes /\ to.at = 0 /\ to.step = "registry" /\ quoteCall' = to
    BY <1>2, FreshQuotes DEF AskQuote, QuoteSteps
  <2>. HIDE DEF to
  <2>2. quoteCall' \in Quotes /\ CallInv'
    BY <1>2, <2>1, Restarts DEF AskQuote, Requests
  <2>. QED
    BY <1>2, <2>2, CachesStand, SMTT(30) DEF AskQuote
<1>3. CASE ResolveRegistry
  <2>1. quoteCall' \in Quotes /\ CallInv'
    BY <1>3, ResolvedKeeps, TryNextKeeps DEF ResolveRegistry, Documented
  <2>. QED
    BY <1>3, <2>1, CachesStand DEF ResolveRegistry
<1>4. CASE ResolveBip353
  <2>1. quoteCall' \in Quotes /\ CallInv'
    BY <1>4, ResolvedKeeps, TryNextKeeps DEF ResolveBip353, Synthetic, Documented
  <2>. QED
    BY <1>4, <2>1, CachesStand DEF ResolveBip353
<1>5. CASE ResolveHttps
  <2>1. CASE IsFresh(profileCache["https"]) /\ Resolved("https", profileCache["https"].version)
    <3>1. /\ profileCache["https"].version \in Versions
          /\ ShownAfter("https", profileCache["https"].version, clock + 1 - Lag("https"))
      BY <1>0, <2>1, FreshIsShown, Numbers DEF QuoteInv, CachesInv
    <3>2. Shown("https", profileCache["https"].version) = profileCache["https"].version
      BY DEF Shown
    <3>. QED
      BY <1>0, <1>5, <2>1, <3>1, <3>2, ResolvedKeeps, CachesStand DEF ResolveHttps
  <2>2. CASE Asks("https sent", 0)
    <3>1. PICK to \in Quotes : quoteCall' = to /\ to.step = "https sent" /\ to.at = clock
      BY <2>2, AsksNow DEF Requests
    <3>2. UNCHANGED <<clock, served, replacedAt, profileCache, nip05Cache>>
      BY <1>5 DEF ResolveHttps
    <3>. QED
      BY <3>1, <3>2, AskedNow, CachesStand DEF Requests
  <2>. QED
    BY <1>5, <2>1, <2>2 DEF ResolveHttps
<1>6. CASE ResolveNostr
  <2>1. CASE IsFresh(profileCache["nostr"]) /\ Resolved("nostr", profileCache["nostr"].version)
    <3>1. /\ profileCache["nostr"].version \in Versions
          /\ ShownAfter("nostr", Shown("nostr", profileCache["nostr"].version), clock + 1 - Lag("nostr"))
      BY <1>0, <2>1, FreshIsShown, Numbers DEF QuoteInv, CachesInv
    <3>. QED
      BY <1>0, <1>6, <2>1, <3>1, ResolvedKeeps, CachesStand DEF ResolveNostr
  <2>2. CASE IsFresh(nip05Cache) /\ Asks("relays", nip05Cache.version)
    <3>1. /\ nip05Cache.version \in Versions
          /\ ShownAfter("nostr", nip05Cache.version, clock + 1 - Lag("https"))
      BY <1>0, <2>2, FreshIsShown, Numbers DEF QuoteInv, CachesInv
    <3>2. PICK to \in Quotes : /\ quoteCall' = to /\ to.step = "relays"
                              /\ to.version = nip05Cache.version /\ to.at = clock
      <4>1. "relays" \in Requests
        BY DEF Requests
      <4>. QED
        BY <2>2, <3>1, <4>1, AsksNow
    <3>3. UNCHANGED <<clock, served, replacedAt, profileCache, nip05Cache>>
      BY <1>6 DEF ResolveNostr
    <3>. QED
      BY <3>1, <3>2, <3>3, AskedNow, CachesStand DEF Requests
  <2>3. CASE Asks("nip05 sent", 0)
    <3>1. PICK to \in Quotes : quoteCall' = to /\ to.step = "nip05 sent" /\ to.at = clock
      BY <2>3, AsksNow DEF Requests
    <3>2. UNCHANGED <<clock, served, replacedAt, profileCache, nip05Cache>>
      BY <1>6 DEF ResolveNostr
    <3>. QED
      BY <3>1, <3>2, AskedNow, CachesStand DEF Requests
  <2>. QED
    BY <1>6, <2>1, <2>2, <2>3 DEF ResolveNostr
<1>7. CASE DomainAnswers
  <2>1. ASSUME NEW source \in Documented, served[source] # 0,
               quoteCall.step = (IF source = "https" THEN "https sent" ELSE "nip05 sent"),
               quoteCall' = [quoteCall EXCEPT !.version = Shown(source, served[source]),
                               !.step = IF source = "https" THEN "https read" ELSE "nip05 read"]
        PROVE  quoteCall' \in Quotes /\ CallInv'
    <3>1. Shown(source, served[source]) \in Versions
      BY <1>0, <2>1, Showing
    <3>. DEFINE step == IF source = "https" THEN "https read" ELSE "nip05 read"
                to == [quoteCall EXCEPT !.version = Shown(source, served[source]), !.step = step]
    <3>2. /\ to \in Quotes /\ to.at = quoteCall.at /\ to.version = Shown(source, served[source])
          /\ to.step = step
      BY <1>0, <3>1 DEF Quotes, QuoteSteps, Requests
    <3>3. quoteCall.at <= clock /\ clock <= quoteCall.at + Longest
      BY <2>1 DEF QuoteInv, CallInv, CallIs, Requests
    <3>4. ShownAfter(source, Shown(source, served[source]), quoteCall.at)
      BY <3>1 DEF ShownAfter
    <3>5. UNCHANGED <<clock, served, replacedAt>> /\ quoteCall' = to
      BY <1>7, <2>1 DEF DomainAnswers
    <3>. HIDE DEF to
    <3>6. CASE source = "https"
      BY <3>2, <3>3, <3>4, <3>5, <3>6, RequestKeeps DEF Requests
    <3>7. CASE source = "nostr"
      BY <3>2, <3>3, <3>4, <3>5, <3>7, RequestKeeps DEF Requests
    <3>. QED
      BY <3>6, <3>7 DEF Documented
  <2>2. quoteCall' \in Quotes /\ CallInv'
    BY <1>7, <2>1, TryNextKeeps DEF DomainAnswers
  <2>. QED
    BY <1>7, <2>2, CachesStand DEF DomainAnswers
<1>8. CASE StoreHttps
  <2>1. CASE /\ Resolved("https", quoteCall.version)
             /\ profileCache' = [profileCache EXCEPT !["https"] = Keep(quoteCall.version)]
    <3>. DEFINE v == quoteCall.version
    <3>1. ShownAfter("https", v, quoteCall.at) /\ v \in Versions /\ clock <= quoteCall.at + Longest
      BY <1>8 DEF StoreHttps, QuoteInv, CallInv, CallIs, ShownAfter, Requests
    <3>2. /\ clock + CacheTtl - Lag("https") \in Int /\ clock + 1 - Lag("https") \in Int
          /\ clock + CacheTtl - Lag("https") <= quoteCall.at /\ clock + 1 - Lag("https") <= quoteCall.at
      BY <1>0, <3>1, Numbers
    <3>3. ShownAfter("https", v, clock + CacheTtl - Lag("https")) /\ ShownAfter("https", v, clock + 1 - Lag("https"))
      BY <1>0, <3>1, <3>2, ShownEarlier
    <3>4. Shown("https", v) = v /\ Keep(v).version = v
      BY DEF Shown, Keep
    <3>. HIDE DEF v
    <3>5. quoteCall' \in Quotes /\ CallInv'
      BY <1>0, <1>8, <2>1, <3>1, <3>3, <3>4, ResolvedKeeps DEF StoreHttps, v
    <3>6. Keep(v) \in CacheEntries /\ EntryInv("https", Keep(v), Shown("https", Keep(v).version), Lag("https"))
      BY <1>0, <3>1, <3>3, <3>4, KeepLasts, Numbers
    <3>. QED
      BY <1>0, <1>8, <2>1, <3>5, <3>6, ProfileKept DEF StoreHttps, v
  <2>2. CASE TryNext("other") /\ UNCHANGED profileCache
    BY <1>8, <2>2, TryNextKeeps, CachesStand DEF StoreHttps
  <2>. QED
    BY <1>8, <2>1, <2>2 DEF StoreHttps
<1>9. CASE FetchNip05
  <2>1. CASE Asks("relays", quoteCall.version) /\ nip05Cache' = Keep(quoteCall.version)
    <3>. DEFINE k == quoteCall.version
    <3>1. ShownAfter("nostr", k, quoteCall.at) /\ k \in Versions /\ clock <= quoteCall.at + Longest
      BY <1>9 DEF FetchNip05, QuoteInv, CallInv, CallIs, ShownAfter, Requests
    <3>2. /\ clock + CacheTtl - Lag("https") \in Int /\ clock + 1 - Lag("https") \in Int
          /\ clock + CacheTtl - Lag("https") <= quoteCall.at /\ clock + 1 - Lag("https") <= quoteCall.at
      BY <1>0, <3>1, Numbers
    <3>3. ShownAfter("nostr", k, clock + CacheTtl - Lag("https")) /\ ShownAfter("nostr", k, clock + 1 - Lag("https"))
      BY <1>0, <3>1, <3>2, ShownEarlier
    <3>. HIDE DEF k
    <3>4. PICK to \in Quotes : quoteCall' = to /\ to.step = "relays" /\ to.version = k /\ to.at = clock
      <4>1. Asks("relays", k) /\ "relays" \in Requests
        BY <2>1 DEF Requests, k
      <4>. QED
        BY <3>1, <4>1, AsksNow
    <3>5. CallInv'
      <4>1. UNCHANGED <<clock, served, replacedAt>>
        BY <1>9 DEF FetchNip05
      <4>. QED
        BY <3>3, <3>4, <4>1, AskedNow DEF Requests
    <3>6. Keep(k) \in CacheEntries /\ EntryInv("nostr", Keep(k), k, Lag("https")) /\ Keep(k).version = k
      BY <1>0, <3>1, <3>3, KeepLasts, Numbers DEF Keep
    <3>7. nip05Cache' = Keep(k) /\ UNCHANGED <<clock, served, replacedAt, profileCache>>
      BY <1>9, <2>1 DEF FetchNip05, k
    <3>8. QuoteTypeOK'
      BY <1>0, <3>4, <3>6, <3>7 DEF QuoteTypeOK, CacheEntries, Quotes, QuoteSteps
    <3>9. CachesInv'
      BY <3>6, <3>7 DEF QuoteInv, CachesInv, EntryInv, ShownAfter
    <3>. QED
      BY <3>5, <3>8, <3>9 DEF QuoteInv
  <2>2. CASE TryNext("other") /\ UNCHANGED nip05Cache
    BY <1>9, <2>2, TryNextKeeps, CachesStand DEF FetchNip05
  <2>. QED
    BY <1>9, <2>1, <2>2 DEF FetchNip05
<1>10. CASE QueryRelays
  <2>1. ASSUME NEW v \in Versions, KeyOf[v] = quoteCall.version, Resolved("nostr", v),
               profileCache' = [profileCache EXCEPT !["nostr"] = Keep(v)]
        PROVE  QuoteInv'
    <3>. DEFINE k == quoteCall.version
    <3>1. ShownAfter("nostr", k, quoteCall.at + 1 - Lag("https")) /\ clock <= quoteCall.at + Longest
      BY <1>10 DEF QueryRelays, QuoteInv, CallInv, CallIs, Requests
    <3>2. /\ clock + CacheTtl - Lag("nostr") \in Int /\ clock + 1 - Lag("nostr") \in Int
          /\ quoteCall.at + 1 - Lag("https") \in Int
          /\ clock + CacheTtl - Lag("nostr") <= quoteCall.at + 1 - Lag("https")
          /\ clock + 1 - Lag("nostr") <= quoteCall.at + 1 - Lag("https")
      BY <1>0, <3>1, Numbers
    <3>3. ShownAfter("nostr", k, clock + CacheTtl - Lag("nostr")) /\ ShownAfter("nostr", k, clock + 1 - Lag("nostr"))
      BY <1>0, <3>1, <3>2, ShownEarlier
    <3>4. Shown("nostr", v) = k /\ Keep(v).version = v
      BY <2>1, Numbers DEF Shown, Keep
    <3>. HIDE DEF k
    <3>5. quoteCall' \in Quotes /\ CallInv'
      BY <1>0, <1>10, <2>1, <3>3, <3>4, ResolvedKeeps DEF QueryRelays
    <3>6. Keep(v) \in CacheEntries /\ EntryInv("nostr", Keep(v), Shown("nostr", Keep(v).version), Lag("nostr"))
      BY <1>0, <3>3, <3>4, KeepLasts, Numbers
    <3>. QED
      BY <1>0, <1>10, <2>1, <3>5, <3>6, ProfileKept DEF QueryRelays
  <2>2. CASE (\E error \in {"not found", "other"} : TryNext(error)) /\ UNCHANGED profileCache
    BY <1>10, <2>2, TryNextKeeps, CachesStand DEF QueryRelays
  <2>. QED
    BY <1>10, <2>1, <2>2 DEF QueryRelays
<1>11. CASE CheckProfile
  <2>1. ASSUME quoteCall' = [quoteCall EXCEPT !.step = "route"] PROVE quoteCall' \in Quotes /\ CallInv'
    <3>. DEFINE to == [quoteCall EXCEPT !.step = "route"]
    <3>1. /\ to \in Quotes /\ to.step = "route" /\ to.version = quoteCall.version
          /\ to.via = quoteCall.via /\ to.at = quoteCall.at
      BY <1>0 DEF Quotes, QuoteSteps
    <3>2. quoteCall' = to /\ quoteCall.step = "check"
      BY <1>11, <2>1 DEF CheckProfile
    <3>. HIDE DEF to
    <3>. QED
      BY <1>11, <3>1, <3>2 DEF CheckProfile, QuoteInv, CallInv, CallIs, ShownAfter, Requests
  <2>2. quoteCall' \in Quotes /\ CallInv'
    BY <1>11, <2>1, AnsweredKeeps DEF CheckProfile, Answers
  <2>. QED
    BY <1>11, <2>2, CachesStand DEF CheckProfile
<1>12. CASE AnswerQuote
  <2>1. PICK small, cheap \in BOOLEAN :
          LET rail == SelectRoute(RailsOf[quoteCall.version], small, cheap) IN
          Answered(IF rail = "none" THEN "no_route" ELSE "ok", rail)
    BY <1>12 DEF AnswerQuote
  <2>. DEFINE rail == SelectRoute(RailsOf[quoteCall.version], small, cheap)
  <2>2. rail \in {"none", "Lightning", "Onchain", "Ark"}
    BY DEF SelectRoute
  <2>3. PICK step \in Answers : Answered(step, rail)
    BY <2>1 DEF Answers
  <2>. HIDE DEF rail
  <2>4. quoteCall' \in Quotes /\ CallInv'
    BY <1>12, <2>2, <2>3, AnsweredKeeps DEF AnswerQuote
  <2>. QED
    BY <1>12, <2>4, CachesStand DEF AnswerQuote
<1>13. CASE Tick
  <2>1. /\ clock' = clock + 1 /\ clock' \in 0 .. LastTick
        /\ quoteCall.step \in Requests => clock < quoteCall.at + Longest
        /\ UNCHANGED <<served, replacedAt, profileCache, nip05Cache, quoteCall>>
    BY <1>0, <1>13, Numbers DEF Tick
  <2>2. QuoteTypeOK'
    BY <2>1 DEF QuoteInv, QuoteTypeOK
  <2>3. profileCache["https"].expires \in Nat /\ profileCache["nostr"].expires \in Nat /\ nip05Cache.expires \in Nat
    BY <1>0, Numbers DEF CacheEntries
  <2>4. CachesInv'
    BY <1>0, <2>1, <2>3, Numbers DEF QuoteInv, CachesInv, EntryInv, ShownAfter
  <2>5. CallInv'
    <3>1. quoteCall.at <= clock' /\ (quoteCall.step \in Requests => clock' <= quoteCall.at + Longest)
      <4>1. quoteCall.at <= clock
        BY DEF QuoteInv, CallInv, CallIs
      <4>. QED
        BY <1>0, <2>1, <4>1, Numbers
    <3>. QED
      BY <2>1, <3>1 DEF QuoteInv, CallInv, CallIs, ShownAfter
  <2>. QED
    BY <2>2, <2>4, <2>5 DEF QuoteInv
<1>14. ASSUME NEW source \in Documented, Serve(source) PROVE QuoteInv'
  <2>1. /\ served' = [served EXCEPT ![source] = served[source] + 1] /\ served[source] + 1 \in Versions
        /\ UNCHANGED <<clock, profileCache, nip05Cache, quoteCall>>
    BY <1>0, <1>14 DEF Serve
  <2>2. replacedAt' \in [Documented -> [Versions -> 0 .. LastTick]]
    BY <1>0, <1>14, QuoteTypes DEF Serve
  <2>3. QuoteTypeOK'
    BY <1>0, <2>1, <2>2 DEF QuoteTypeOK
  <2>4. ASSUME NEW other \in Documented, NEW entry \in CacheEntries, NEW k,
               NEW lag \in Nat, lag >= CacheTtl, EntryInv(other, entry, k, lag)
        PROVE  /\ entry.expires <= clock' + CacheTtl /\ (entry.version = 0 => entry.expires = 0)
               /\ entry.version # 0 => ShownAfter(other, k, entry.expires - lag)'
    <3>1. entry.expires \in Nat /\ entry.expires <= clock + CacheTtl
      BY <2>4, Numbers DEF CacheEntries, EntryInv
    <3>2. entry.expires - lag \in Int /\ entry.expires - lag <= clock
      BY <1>0, <2>4, <3>1, Numbers
    <3>. QED
      BY <1>14, <2>1, <2>4, <3>1, <3>2, ServeKeeps DEF EntryInv
  <2>5. Lag("https") >= CacheTtl /\ Lag("nostr") >= CacheTtl
    BY Numbers
  <2>6. CachesInv'
    <3>1. profileCache["https"] \in CacheEntries /\ profileCache["nostr"] \in CacheEntries
      BY <1>0
    <3>2. EntryInv("https", profileCache["https"], profileCache["https"].version, Lag("https"))'
      BY <1>0, <2>1, <2>4, <2>5, <3>1, Numbers DEF QuoteInv, CachesInv, EntryInv
    <3>3. EntryInv("nostr", nip05Cache, nip05Cache.version, Lag("https"))'
      BY <1>0, <2>1, <2>4, <2>5, Numbers DEF QuoteInv, CachesInv, EntryInv
    <3>4. EntryInv("nostr", profileCache["nostr"], Shown("nostr", profileCache["nostr"].version), Lag("nostr"))'
      BY <1>0, <2>1, <2>4, <2>5, <3>1, Numbers DEF QuoteInv, CachesInv, EntryInv
    <3>. QED
      BY <3>2, <3>3, <3>4 DEF CachesInv
  <2>7. CallInv'
    <3>0. quoteCall.at <= clock
      BY DEF QuoteInv, CallInv, CallIs
    <3>1. quoteCall.at <= clock /\ quoteCall.at \in Int
      BY <1>0, <3>0
    <3>2. ASSUME NEW other \in Documented
          PROVE  quoteCall.at + 1 - Lag(other) \in Int /\ quoteCall.at + 1 - Lag(other) <= clock
      BY <1>0, <3>1, Numbers DEF Documented
    <3>3. quoteCall.step = "https read" => ShownAfter("https", quoteCall.version, quoteCall.at)'
      BY <1>0, <1>14, <2>1, <3>1, ServeKeeps DEF QuoteInv, CallInv, CallIs
    <3>4. quoteCall.step = "nip05 read" => ShownAfter("nostr", quoteCall.version, quoteCall.at)'
      BY <1>0, <1>14, <2>1, <3>1, ServeKeeps DEF QuoteInv, CallInv, CallIs
    <3>5. quoteCall.step = "relays" => ShownAfter("nostr", quoteCall.version, quoteCall.at + 1 - Lag("https"))'
      BY <1>0, <1>14, <2>1, <3>2, ServeKeeps DEF QuoteInv, CallInv, CallIs
    <3>6. quoteCall.step \in {"check", "route"} /\ quoteCall.via \in Documented =>
            ShownAfter(quoteCall.via, Shown(quoteCall.via, quoteCall.version), quoteCall.at + 1 - Lag(quoteCall.via))'
      BY <1>0, <1>14, <2>1, <3>2, ServeKeeps DEF QuoteInv, CallInv, CallIs
    <3>. QED
      BY <2>1, <3>3, <3>4, <3>5, <3>6 DEF QuoteInv, CallInv, CallIs
  <2>. QED
    BY <2>3, <2>6, <2>7 DEF QuoteInv
<1>. QED
  BY <1>1, <1>2, <1>3, <1>4, <1>5, <1>6, <1>7, <1>8, <1>9, <1>10, <1>11, <1>12, <1>13, <1>14 DEF QuoteNext

LEMMA RoutedRecently == QuoteInv => QuotedIsRecent
<1>. SUFFICES ASSUME QuoteInv, quoteCall.step \in {"check", "route"}, quoteCall.via \in Documented
              PROVE  LET atQuote == Shown(quoteCall.via, quoteCall.version) IN
                     \/ atQuote = Shown(quoteCall.via, served[quoteCall.via])
                     \/ quoteCall.at < replacedAt[quoteCall.via][atQuote] + Lag(quoteCall.via)
  BY DEF QuotedIsRecent
<1>. DEFINE atQuote == Shown(quoteCall.via, quoteCall.version)
<1>1. ShownAfter(quoteCall.via, atQuote, quoteCall.at + 1 - Lag(quoteCall.via))
  BY DEF QuoteInv, CallInv, CallIs
<1>2. atQuote \in Versions /\ quoteCall.at \in Nat /\ Lag(quoteCall.via) \in Nat
  BY <1>1, QuoteTypes, Numbers DEF ShownAfter, QuoteInv, Quotes, Documented
<1>3. replacedAt[quoteCall.via] \in [Versions -> 0 .. LastTick]
  BY QuoteTypes DEF QuoteInv
<1>. HIDE DEF atQuote
<1>4. replacedAt[quoteCall.via][atQuote] \in Nat
  BY <1>2, <1>3, Numbers
<1>5. \/ atQuote = Shown(quoteCall.via, served[quoteCall.via])
      \/ quoteCall.at < replacedAt[quoteCall.via][atQuote] + Lag(quoteCall.via)
  BY <1>1, <1>2, <1>4 DEF ShownAfter
<1>. QED
  BY <1>5 DEF atQuote

LEMMA QuoteInvariant == QuoteSpec => []QuoteInv
BY InitQuotes, StepQuotes, PTL DEF QuoteSpec

\* Caches, quotes and times keep their types.
THEOREM QuoteTypeCorrectness == QuoteSpec => []QuoteTypeOK
BY QuoteInvariant, PTL DEF QuoteInv

\* No quote is routed along a document, or an event of a key, that the domain
\* replaced longer ago than its resolver's caches live and its requests take.
THEOREM QuotesAreRecent == QuoteSpec => []QuotedIsRecent
BY QuoteInvariant, RoutedRecently, PTL
=============================================================================
