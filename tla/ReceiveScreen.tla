--------------------------- MODULE ReceiveScreen ---------------------------
\* The receive screen (wallet/src/screens/Wallet/Receive/QrCode.tsx): the amount,
\* the addresses, the Lightning invoice negotiated for the amount and the code
\* that encodes them. What it requests lives in the flow context and outlives
\* the screen; promises of a screen that is gone still settle.
EXTENDS Naturals

CONSTANTS Amounts,         \* amounts the user types, 0 clears
          Quotable,        \* those within the solver's bounds
          MaxNegotiations  \* bound: negotiations of one session

ASSUME AmountsAssumption ==
  Amounts \subseteq Nat \ {0} /\ Quotable \subseteq Amounts /\ MaxNegotiations \in Nat

VARIABLES
  screenOpen,
  recvInfo,      \* what is requested: sats, and the negotiation of its invoice
  addresses,     \* none, being fetched, loaded or failed
  negotiation,   \* each run of the negotiate effect that got past its guards,
                 \* and its step when it was abandoned
  monitoredLn,   \* negotiations whose swap track() handed to the manager
  lnError,       \* the grey line under the code
  limitsAllow,   \* the limits of the server: ark payments, on-chain payments
  selected,      \* the value picked in the copy sheet
  qrCode,        \* the value the code encodes
  rebuild        \* the effect that rebuilds the code is due

recvVars == <<screenOpen, recvInfo, addresses, negotiation, monitoredLn, lnError,
              limitsAllow, selected, qrCode, rebuild>>

Negotiations == 1..MaxNegotiations
EmptyRecv == [sats |-> 0, invoice |-> 0]
Value(kind, sats, invoice) == [kind |-> kind, sats |-> sats, invoice |-> invoice]
NoValue == Value("none", 0, 0)
NoNegotiation == [step |-> "none", sats |-> 0, abandoned |-> "no"]
UnderWay == {"quoting", "tracking", "tracked"}
NoLnError == "none"

RecvTypeOK ==
  /\ screenOpen \in BOOLEAN
  /\ recvInfo \in [sats : Amounts \cup {0}, invoice : 0..MaxNegotiations]
  /\ addresses \in {"none", "fetching", "loaded", "failed"}
  /\ negotiation \in [Negotiations -> [step : {"none", "over"} \cup UnderWay,
                                       sats : Amounts \cup {0}, abandoned : {"no"} \cup UnderWay]]
  /\ monitoredLn \subseteq Negotiations
  /\ lnError \in {"none", "unavailable", "held elsewhere", "retryable"}
  /\ limitsAllow \in [ark : BOOLEAN, btc : BOOLEAN]
  /\ selected.kind \in {"none", "bip21", "ark", "btc", "invoice"}
  /\ qrCode.kind \in {"none", "bip21", "ark", "btc", "invoice"}
  /\ rebuild \in BOOLEAN

RecvInit ==
  /\ screenOpen = FALSE
  /\ recvInfo = EmptyRecv
  /\ addresses = "none"
  /\ negotiation = [n \in Negotiations |-> NoNegotiation]
  /\ monitoredLn = {}
  /\ lnError = NoLnError
  /\ limitsAllow = [ark |-> FALSE, btc |-> FALSE]
  /\ selected = NoValue
  /\ qrCode = NoValue
  /\ rebuild = FALSE

-----------------------------------------------------------------------------
\* createBip21: the unified value and the addresses the limits leave.
Bip21 == Value("bip21", recvInfo.sats, recvInfo.invoice)
Candidates == {Bip21} \cup (IF limitsAllow.ark THEN {Value("ark", 0, 0)} ELSE {})
                      \cup (IF limitsAllow.btc THEN {Value("btc", 0, 0)} ELSE {})

\* resolveQrValue: a pick stands while it is still one of the values offered.
ResolveQrValue(pick) == IF pick \in Candidates THEN pick ELSE Bip21

\* The cleanup of the negotiate effect: the runs before are abandoned.
Abandon == [n \in Negotiations |->
  IF negotiation[n].step \in UnderWay /\ negotiation[n].abandoned = "no"
  THEN [negotiation[n] EXCEPT !.abandoned = negotiation[n].step] ELSE negotiation[n]]

\* The negotiate effect for what is now requested: it clears its messages, then
\* starts unless there is no amount or the invoice is there.
Negotiate(info) ==
  /\ lnError' = NoLnError
  /\ IF info.sats = 0 \/ info.invoice # 0 THEN negotiation' = Abandon
     ELSE \E n \in Negotiations :
            /\ negotiation[n].step = "none"
            /\ \A k \in 1..(n - 1) : negotiation[k].step # "none"
            /\ negotiation' = [Abandon EXCEPT ![n] =
                 [step |-> "quoting", sats |-> info.sats, abandoned |-> "no"]]

\* setRecvInfo, and the effects that depend on it.
Request(info) ==
  /\ recvInfo' = info
  /\ rebuild' = TRUE
  /\ IF info.sats = recvInfo.sats THEN UNCHANGED <<negotiation, lnError>> ELSE Negotiate(info)

-----------------------------------------------------------------------------
OpenReceive ==
  /\ ~ screenOpen
  /\ screenOpen' = TRUE
  /\ recvInfo' = EmptyRecv
  /\ addresses' = "fetching"
  /\ limitsAllow' \in [ark : BOOLEAN, btc : BOOLEAN]
  /\ lnError' = NoLnError
  /\ selected' = NoValue /\ qrCode' = NoValue /\ rebuild' = FALSE
  /\ UNCHANGED <<negotiation, monitoredLn>>

CloseReceive ==
  /\ screenOpen
  /\ screenOpen' = FALSE
  /\ negotiation' = Abandon
  /\ UNCHANGED <<recvInfo, addresses, monitoredLn, lnError, limitsAllow, selected, qrCode, rebuild>>

\* The addresses arrive: they are put into the request the screen was opened
\* with, and the amount and invoice chosen since are dropped.
AddressesArrive ==
  /\ screenOpen /\ addresses = "fetching"
  /\ addresses' = "loaded"
  /\ Request(EmptyRecv)
  /\ UNCHANGED <<screenOpen, monitoredLn, limitsAllow, selected, qrCode>>

AddressesFail ==
  /\ screenOpen /\ addresses = "fetching"
  /\ addresses' = "failed"
  /\ Request(EmptyRecv)
  /\ UNCHANGED <<screenOpen, monitoredLn, limitsAllow, selected, qrCode>>

\* handleAmountConfirm: a new amount drops the invoice of the old one.
SetAmount(v) ==
  /\ screenOpen
  /\ Request(IF v = recvInfo.sats THEN recvInfo ELSE [sats |-> v, invoice |-> 0])
  /\ UNCHANGED <<screenOpen, addresses, monitoredLn, limitsAllow, selected, qrCode>>

\* Fault: a quote that was abandoned meanwhile goes on.
QuoteArrivesLate(n) ==
  /\ negotiation[n].step = "quoting" /\ negotiation[n].sats \in Quotable
  /\ negotiation' = [negotiation EXCEPT ![n].step = "tracking"]
  /\ UNCHANGED <<screenOpen, recvInfo, addresses, monitoredLn, lnError, limitsAllow, selected, qrCode, rebuild>>

\* The quote is back: an abandoned run stops, an amount out of bounds or a
\* missing solver is told, any other quote goes on to be monitored.
QuoteArrives(n) ==
  /\ negotiation[n].step = "quoting"
  /\ \/ /\ negotiation[n].sats \in Quotable
        /\ negotiation' = [negotiation EXCEPT ![n].step =
             IF negotiation[n].abandoned = "no" THEN "tracking" ELSE "over"]
        /\ UNCHANGED lnError
     \/ /\ negotiation' = [negotiation EXCEPT ![n].step = "over"]
        /\ lnError' \in (IF negotiation[n].abandoned = "no" THEN {"unavailable", "retryable"} ELSE {lnError})
  /\ UNCHANGED <<screenOpen, recvInfo, addresses, monitoredLn, limitsAllow, selected, qrCode, rebuild>>

\* Fault: track() is not awaited.
TrackIsNotAwaited(n) ==
  /\ negotiation[n].step = "tracking"
  /\ negotiation' = [negotiation EXCEPT ![n].step = "tracked"]
  /\ UNCHANGED <<screenOpen, recvInfo, addresses, monitoredLn, lnError, limitsAllow, selected, qrCode, rebuild>>

\* The manager takes the swap that track() hands it.
TrackTakes(n) ==
  /\ negotiation[n].step = "tracking"
  /\ negotiation' = [negotiation EXCEPT ![n].step = "tracked"]
  /\ monitoredLn' = monitoredLn \cup {n}
  /\ UNCHANGED <<screenOpen, recvInfo, addresses, lnError, limitsAllow, selected, qrCode, rebuild>>

\* track() returns: only now does the invoice reach the request, as it is by
\* now; whether the run was abandoned meanwhile is not looked at again.
ShowInvoice(n) ==
  /\ negotiation[n].step = "tracked"
  /\ negotiation' = [negotiation EXCEPT ![n].step = "over"]
  /\ lnError' = NoLnError
  /\ recvInfo' = [recvInfo EXCEPT !.invoice = n]
  /\ rebuild' = TRUE
  /\ UNCHANGED <<screenOpen, addresses, monitoredLn, limitsAllow, selected, qrCode>>

TrackFails(n) ==
  /\ negotiation[n].step = "tracking"
  /\ negotiation' = [negotiation EXCEPT ![n].step = "over"]
  /\ lnError' \in (IF negotiation[n].abandoned = "no" THEN {"unavailable", "held elsewhere"} ELSE {lnError})
  /\ UNCHANGED <<screenOpen, recvInfo, addresses, monitoredLn, limitsAllow, selected, qrCode, rebuild>>

\* "Try again" runs the effect once more.
TryAgain ==
  /\ screenOpen /\ lnError = "retryable"
  /\ Negotiate(recvInfo)
  /\ UNCHANGED <<screenOpen, recvInfo, addresses, monitoredLn, limitsAllow, selected, qrCode, rebuild>>

\* Coins arrive: the success screen takes over.
PaymentArrives ==
  /\ screenOpen
  /\ screenOpen' = FALSE
  /\ recvInfo' = EmptyRecv
  /\ negotiation' = Abandon
  /\ UNCHANGED <<addresses, monitoredLn, lnError, limitsAllow, selected, qrCode, rebuild>>

-----------------------------------------------------------------------------
\* A line of the copy sheet is picked: copied, selected and shown at once.
SelectValue ==
  /\ screenOpen /\ addresses = "loaded" /\ ~ rebuild
  /\ \E v \in Candidates \cup (IF recvInfo.invoice # 0 THEN {Value("invoice", 0, recvInfo.invoice)} ELSE {}) :
       /\ selected' = v /\ qrCode' = v
       /\ rebuild' = (v # selected)
  /\ UNCHANGED <<screenOpen, recvInfo, addresses, negotiation, monitoredLn, lnError, limitsAllow>>

\* The effect that rebuilds the code, after the render that made it due.
RebuildCode ==
  /\ screenOpen /\ addresses \in {"loaded", "failed"} /\ rebuild
  /\ rebuild' = FALSE
  /\ qrCode' = ResolveQrValue(selected)
  /\ UNCHANGED <<screenOpen, recvInfo, addresses, negotiation, monitoredLn, lnError, limitsAllow, selected>>

RecvNext ==
  \/ OpenReceive \/ CloseReceive \/ AddressesArrive \/ AddressesFail \/ PaymentArrives
  \/ SelectValue \/ RebuildCode \/ TryAgain
  \/ \E v \in Amounts \cup {0} : SetAmount(v)
  \/ \E n \in Negotiations : QuoteArrives(n) \/ TrackTakes(n) \/ ShowInvoice(n) \/ TrackFails(n)

RecvSpec == RecvInit /\ [][RecvNext]_recvVars

-----------------------------------------------------------------------------
\* What can be paid is monitored: an invoice that is requested, or that the code
\* still encodes, was handed to the receive manager before.
ShownIsMonitored ==
  \A n \in Negotiations :
    n = recvInfo.invoice \/ n = qrCode.invoice => n \in monitoredLn

\* An invoice was negotiated for the amount that is now requested.
ForAmount(n) == negotiation[n].sats = recvInfo.sats

CodeStands == screenOpen /\ addresses = "loaded" /\ ~ rebuild

\* Once rebuilt, the code asks for the amount now requested, and encodes no
\* invoice for another amount, whatever was picked, typed or negotiated before;
\* but for an invoice whose amount was replaced while track() was awaited, which
\* AbandonedIsNotShown is about.
CodeFitsAmount ==
  CodeStands =>
    /\ qrCode.kind = "bip21" => qrCode.sats = recvInfo.sats
    /\ qrCode.invoice # 0 =>
         ForAmount(qrCode.invoice) \/ negotiation[qrCode.invoice].abandoned \in {"tracking", "tracked"}

\* "What must stop is presenting its invoice" (QrCode.tsx:348-353): an invoice for
\* the amount a new one replaced is not in the code.
AbandonedIsNotShown ==
  CodeStands /\ recvInfo.sats # 0 /\ qrCode.invoice # 0 => ForAmount(qrCode.invoice)
=============================================================================
