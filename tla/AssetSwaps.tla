----------------------------- MODULE AssetSwaps -----------------------------
\* Asset swaps of the wallet (wallet/src/providers/assetSwaps.tsx): the records
\* of the offers it made, the screen's cancel, the watcher of the package and
\* the scan that rebuilds lost records from history. Awaits are step boundaries,
\* but for a read of the store on which a write follows at once with the same
\* answer for any state in between. The watcher, cancelOffer and the record store belong to
\* @arkade-os/swap and are modelled as this file uses them; the store writes one
\* record at a time.
EXTENDS FiniteSets

CONSTANT Offers

VARIABLES
  deposit,       \* what the chain says of each offer's deposit
  unrecorded,    \* offers whose createSwap awaits between send and record
  swapStatus,    \* the stored record of each offer
  shownStatus,   \* the list the screens render (swapsRef and swaps)
  spendEvent,    \* the watcher's handling of each offer's spend
  cancelCall,    \* the cancelSwap call under way for each offer
  scannedTxids,  \* the scan's cursor in the store
  scan           \* the restore scan under way (scanningRef)

swapVars == <<deposit, unrecorded, swapStatus, shownStatus, spendEvent,
              cancelCall, scannedTxids, scan>>

Spent == {"filled", "returned"}
SwapStatuses == {"absent", "pending", "cancelling", "cancelled", "fulfilled", "recoverable"}
NoCall == [step |-> "none", before |-> "absent"]
\* found: what the scan read on the chain of each offer it is to restore.
NothingFound == [o \in Offers |-> "absent"]
NoScan == [step |-> "idle", known |-> {}, found |-> NothingFound, marked |-> {},
           abandoned |-> FALSE]
Scans == [step : {"idle", "reading", "found", "adding"}, known : SUBSET Offers,
          found : [Offers -> SwapStatuses], marked : SUBSET Offers, abandoned : BOOLEAN]
Lost(found) == {o \in Offers : found[o] # "absent"}

SwapTypeOK ==
  /\ deposit \in [Offers -> {"none", "live", "swept"} \cup Spent]
  /\ unrecorded \subseteq Offers
  /\ swapStatus \in [Offers -> SwapStatuses]
  /\ shownStatus \in [Offers -> SwapStatuses]
  /\ spendEvent \in [Offers -> {"waiting", "stored", "done"}]
  /\ cancelCall \in [Offers -> [before : SwapStatuses,
       step : {"none", "read", "marked", "spent", "failed", "resolving", "reverting",
               "writingBack"}]]
  /\ scannedTxids \subseteq Offers
  /\ scan \in Scans

SwapInit ==
  /\ deposit = [o \in Offers |-> "none"]
  /\ unrecorded = {}
  /\ swapStatus = [o \in Offers |-> "absent"]
  /\ shownStatus = swapStatus
  /\ spendEvent = [o \in Offers |-> "waiting"]
  /\ cancelCall = [o \in Offers |-> NoCall]
  /\ scannedTxids = {}
  /\ scan = NoScan

-----------------------------------------------------------------------------
\* updateAssetSwap returns the whole list, which applySwaps shows.
Write(o, status) ==
  /\ swapStatus' = [swapStatus EXCEPT ![o] = status]
  /\ shownStatus' = swapStatus'

\* Fault: any spend of a swap that is being cancelled is taken for the cancel.
OutcomeOfAnySpend(o) == "cancelled"

\* What a spend of the deposit says the swap became. Our own cancel returns the
\* deposit, a fill delivers the other asset: isCancelSpend infers which it was
\* from the assets of the history row, and is taken here to infer it right.
IsCancelSpend(o) == deposit[o] = "returned"
Outcome(o) == IF IsCancelSpend(o) THEN "cancelled" ELSE "fulfilled"

-----------------------------------------------------------------------------
\* createSwap: the record is keyed by the funding txid, so it follows the send.
SendDeposit(o) ==
  /\ deposit[o] = "none"
  /\ deposit' = [deposit EXCEPT ![o] = "live"]
  /\ unrecorded' = unrecorded \cup {o}
  /\ UNCHANGED <<swapStatus, shownStatus, spendEvent, cancelCall, scannedTxids, scan>>

RecordOffer(o) ==
  /\ o \in unrecorded
  /\ unrecorded' = unrecorded \ {o}
  /\ Write(o, "pending")
  /\ UNCHANGED <<deposit, spendEvent, cancelCall, scannedTxids, scan>>

\* A solver fills a live offer, or the server sweeps its deposit.
ChainMoves(o) ==
  /\ deposit[o] = "live"
  /\ \E end \in {"filled", "swept"} : deposit' = [deposit EXCEPT ![o] = end]
  /\ UNCHANGED <<unrecorded, swapStatus, shownStatus, spendEvent, cancelCall, scannedTxids, scan>>

-----------------------------------------------------------------------------
\* The watcher persists the spend of an offer it finds on record and open, and
\* says nothing of a sweep; announce then tells the list.
WatchSpend(o) ==
  /\ deposit[o] \in Spent /\ spendEvent[o] = "waiting"
  /\ IF swapStatus[o] \in {"pending", "cancelling"}
     THEN /\ swapStatus' = [swapStatus EXCEPT ![o] = IF deposit[o] = "returned" THEN "cancelled" ELSE "fulfilled"]
          /\ spendEvent' = [spendEvent EXCEPT ![o] = "stored"]
     ELSE /\ spendEvent' = [spendEvent EXCEPT ![o] = "done"]
          /\ UNCHANGED swapStatus
  /\ UNCHANGED <<deposit, unrecorded, shownStatus, cancelCall, scannedTxids, scan>>

Announce(o) ==
  /\ spendEvent[o] = "stored"
  /\ spendEvent' = [spendEvent EXCEPT ![o] = "done"]
  /\ shownStatus' = [shownStatus EXCEPT ![o] = IF deposit[o] = "returned" THEN "cancelled" ELSE "fulfilled"]
  /\ UNCHANGED <<deposit, unrecorded, swapStatus, cancelCall, scannedTxids, scan>>

-----------------------------------------------------------------------------
\* The transaction screen offers the cancel of a swap it shows in flight, and
\* cancelSwap reads the record, then marks it before the deposit is spent.
StartCancel(o) ==
  /\ shownStatus[o] \in {"pending", "cancelling"}
  /\ cancelCall[o] = NoCall
  /\ swapStatus[o] # "absent"
  /\ cancelCall' = [cancelCall EXCEPT ![o] = [step |-> "read", before |-> swapStatus[o]]]
  /\ UNCHANGED <<deposit, unrecorded, swapStatus, shownStatus, spendEvent, scannedTxids, scan>>

MarkCancelling(o) ==
  /\ cancelCall[o].step = "read"
  /\ cancelCall' = [cancelCall EXCEPT ![o].step = "marked"]
  /\ Write(o, "cancelling")
  /\ UNCHANGED <<deposit, unrecorded, spendEvent, scannedTxids, scan>>

\* cancelOffer spends a live deposit, recording it if it can, or throws; a
\* broadcast whose answer is lost throws as well.
CancelOffer(o) ==
  /\ cancelCall[o].step = "marked"
  /\ \/ /\ deposit[o] = "live"
        /\ deposit' = [deposit EXCEPT ![o] = "returned"]
        /\ \E outcome \in {"spent", "failed"} :
             /\ cancelCall' = [cancelCall EXCEPT ![o].step = outcome]
             /\ \E status \in {swapStatus[o]} \cup (IF outcome = "spent" THEN {"cancelled"} ELSE {}) :
                  swapStatus' = [swapStatus EXCEPT ![o] = status]
     \/ /\ cancelCall' = [cancelCall EXCEPT ![o].step = "failed"]
        /\ UNCHANGED <<deposit, swapStatus>>
  /\ UNCHANGED <<unrecorded, shownStatus, spendEvent, scannedTxids, scan>>

\* The cancel is recorded here only if nobody has recorded anything yet.
FinishCancel(o) ==
  /\ cancelCall[o].step = "spent"
  /\ cancelCall' = [cancelCall EXCEPT ![o] = NoCall]
  /\ IF swapStatus[o] = "cancelling" THEN Write(o, "cancelled")
     ELSE shownStatus' = swapStatus /\ UNCHANGED swapStatus
  /\ UNCHANGED <<deposit, unrecorded, spendEvent, scannedTxids, scan>>

\* After a failed cancel the indexer is asked for the deposit: spent, swept,
\* unspent, or no answer, which leaves the record at 'cancelling'.
LookAtDeposit(o) ==
  /\ cancelCall[o].step = "failed"
  /\ \/ /\ deposit[o] \in Spent
        /\ cancelCall' = [cancelCall EXCEPT ![o].step = "resolving"]
        /\ UNCHANGED <<swapStatus, shownStatus>>
     \/ /\ deposit[o] = "swept"
        /\ cancelCall' = [cancelCall EXCEPT ![o] = NoCall]
        /\ Write(o, "recoverable")
     \/ /\ deposit[o] = "live"
        /\ cancelCall' = [cancelCall EXCEPT ![o].step = "reverting"]
        /\ UNCHANGED <<swapStatus, shownStatus>>
     \/ /\ cancelCall' = [cancelCall EXCEPT ![o] = NoCall]
        /\ UNCHANGED <<swapStatus, shownStatus>>
  /\ UNCHANGED <<deposit, unrecorded, spendEvent, scannedTxids, scan>>

\* resolveCancellingSpend: the history may not show the spend yet; a status that
\* left 'cancelling' meanwhile wins.
ResolveCancellingSpend(o) ==
  /\ cancelCall[o].step = "resolving"
  /\ cancelCall' = [cancelCall EXCEPT ![o] = NoCall]
  /\ \/ swapStatus[o] = "cancelling" /\ Write(o, Outcome(o))
     \/ UNCHANGED <<swapStatus, shownStatus>>
  /\ UNCHANGED <<deposit, unrecorded, spendEvent, scannedTxids, scan>>

\* The deposit was unspent when the indexer looked: if the record still says
\* 'cancelling', the old status comes back.
CheckBeforeRevert(o) ==
  /\ cancelCall[o].step = "reverting"
  /\ cancelCall' = [cancelCall EXCEPT ![o] =
       IF swapStatus[o] = "cancelling" THEN [@ EXCEPT !.step = "writingBack"] ELSE NoCall]
  /\ UNCHANGED <<deposit, unrecorded, swapStatus, shownStatus, spendEvent, scannedTxids, scan>>

RevertCancel(o) ==
  /\ cancelCall[o].step = "writingBack"
  /\ cancelCall' = [cancelCall EXCEPT ![o] = NoCall]
  /\ Write(o, cancelCall[o].before)
  /\ UNCHANGED <<deposit, unrecorded, spendEvent, scannedTxids, scan>>

-----------------------------------------------------------------------------
\* The history was read again. With a scan under way, its effect is cleaned up
\* and the new one returns early; otherwise a scan begins, and reads the records
\* there are.
ReloadHistory ==
  /\ \E o \in Offers : deposit[o] # "none"
  /\ scan' = IF scan.step = "idle"
             THEN [NoScan EXCEPT !.step = "reading",
                                 !.known = {o \in Offers : swapStatus[o] # "absent"}]
             ELSE [scan EXCEPT !.abandoned = TRUE]
  /\ UNCHANGED <<deposit, unrecorded, swapStatus, shownStatus, spendEvent, cancelCall, scannedTxids>>

\* What the chain says now of an offer that was funded.
OnChain(o) ==
  CASE deposit[o] = "live" -> "pending"
    [] deposit[o] = "swept" -> "recoverable"
    [] OTHER -> IF deposit[o] = "returned" THEN "cancelled" ELSE "fulfilled"

\* restoreAssetSwaps: of the sent txs not scanned before, the indexer answers
\* some; an answered offer that had no record is to be restored as it is now.
FindOffers ==
  /\ scan.step = "reading"
  /\ \E answered \in SUBSET ({o \in Offers : deposit[o] # "none"} \ scannedTxids) :
       scan' = [scan EXCEPT !.step = "found", !.marked = answered,
                  !.found = [o \in Offers |->
                    IF o \in answered \ scan.known THEN OnChain(o) ELSE "absent"]]
  /\ UNCHANGED <<deposit, unrecorded, swapStatus, shownStatus, spendEvent, cancelCall, scannedTxids>>

MarkTxidsScanned ==
  /\ scan.step = "found" /\ ~ scan.abandoned
  /\ scannedTxids' = scannedTxids \cup scan.marked
  /\ scan' = IF Lost(scan.found) = {} THEN NoScan ELSE [scan EXCEPT !.step = "adding"]
  /\ UNCHANGED <<deposit, unrecorded, swapStatus, shownStatus, spendEvent, cancelCall>>

\* One restored record, with the status found then, whatever has been recorded
\* since; the list is shown once the last one is in.
AddRestored(o) ==
  /\ scan.step = "adding" /\ ~ scan.abandoned /\ o \in Lost(scan.found)
  /\ swapStatus' = [swapStatus EXCEPT ![o] = scan.found[o]]
  /\ IF Lost(scan.found) = {o} THEN scan' = NoScan /\ shownStatus' = swapStatus'
     ELSE scan' = [scan EXCEPT !.found[o] = "absent"] /\ UNCHANGED shownStatus
  /\ UNCHANGED <<deposit, unrecorded, spendEvent, cancelCall, scannedTxids>>

\* An abandoned scan writes nothing more; a scan that fails ends as well.
LeaveScan ==
  /\ \/ scan.abandoned /\ scan.step \in {"found", "adding"}
     \/ scan.step = "reading"
  /\ scan' = NoScan
  /\ UNCHANGED <<deposit, unrecorded, swapStatus, shownStatus, spendEvent, cancelCall, scannedTxids>>

\* The page is closed and opened again: what it awaited is gone, the watcher
\* subscribes anew and the list is read from the store.
ReloadSwapPage ==
  /\ unrecorded' = {}
  /\ cancelCall' = [o \in Offers |-> NoCall]
  /\ scan' = NoScan
  /\ spendEvent' = [o \in Offers |-> IF spendEvent[o] = "stored" THEN "done" ELSE spendEvent[o]]
  /\ shownStatus' = swapStatus
  /\ UNCHANGED <<deposit, swapStatus, scannedTxids>>

SwapNext ==
  \/ \E o \in Offers :
       \/ SendDeposit(o) \/ RecordOffer(o) \/ ChainMoves(o)
       \/ WatchSpend(o) \/ Announce(o)
       \/ StartCancel(o) \/ MarkCancelling(o) \/ CancelOffer(o) \/ FinishCancel(o)
       \/ LookAtDeposit(o) \/ ResolveCancellingSpend(o)
       \/ CheckBeforeRevert(o) \/ RevertCancel(o) \/ AddRestored(o)
  \/ ReloadHistory \/ FindOffers \/ MarkTxidsScanned \/ LeaveScan \/ ReloadSwapPage

SwapSpec == SwapInit /\ [][SwapNext]_swapVars

-----------------------------------------------------------------------------
\* Whatever the order in which the watcher, a cancel, a failed cancel's
\* reconciliation and the scan write a record, its final status is what happened
\* to the deposit: a swap is 'cancelled' only if the deposit came back and
\* 'fulfilled' only if it was filled.
OfferOutcomeIsTrue ==
  \A o \in Offers :
    /\ swapStatus[o] = "cancelled" => deposit[o] = "returned"
    /\ swapStatus[o] = "fulfilled" => deposit[o] = "filled"
    /\ swapStatus[o] = "recoverable" => deposit[o] = "swept"
=============================================================================
