-------------------------- MODULE WalletApp_proofs --------------------------
(***************************************************************************)
(* Proofs about the screens that move money: what the receive screen       *)
(* shows (ReceiveScreen), what the swap screen creates (SwapScreen), what  *)
(* the signing screen submits (SendFlow); and about the wallet composed of *)
(* them and of its providers (WalletApp).                                  *)
(***************************************************************************)
EXTENDS WalletApp, WalletProviders_proofs

-----------------------------------------------------------------------------
(* The receive screen.                                                     *)

NegotiationRecords ==
    [step : {"none", "over"} \cup UnderWay, sats : Amounts \cup {0}, abandoned : {"no"} \cup UnderWay]

\* A value whose invoice, if it has one, is monitored.
PayableValues ==
    [kind : {"none", "bip21", "ark", "btc", "invoice"}, sats : Amounts \cup {0},
     invoice : {0} \cup monitoredLn]

\* A run that nothing replaced is for the amount the screen requests, one that was
\* replaced while it was quoted goes no further, and the manager has what was
\* tracked.
RunInv(n) ==
    /\ negotiation[n].step \in UnderWay /\ negotiation[n].abandoned = "no" => screenOpen /\ ForAmount(n)
    /\ negotiation[n].step \in {"tracking", "tracked"} => negotiation[n].abandoned # "quoting"
    /\ negotiation[n].step = "tracked" => n \in monitoredLn
    /\ n \in monitoredLn => negotiation[n].step \in {"tracked", "over"}

\* An invoice that may be requested.
Fits(n) ==
    n # 0 => /\ n \in monitoredLn
             /\ ForAmount(n) \/ negotiation[n].abandoned \in {"tracking", "tracked"}

RecvInv ==
    /\ RecvTypeOK
    /\ \A n \in Negotiations : RunInv(n)
    /\ Fits(recvInfo.invoice)
    /\ selected \in PayableValues /\ qrCode \in PayableValues
    /\ CodeFitsAmount

\* What a step may do to the runs that are monitored.
Sticks ==
    \A n \in monitoredLn :
      /\ negotiation'[n].sats = negotiation[n].sats
      /\ negotiation[n].abandoned # "no" => negotiation'[n].abandoned = negotiation[n].abandoned

LEMMA RecvTypes ==
    RecvTypeOK <=>
      /\ recvInfo \in [sats : Amounts \cup {0}, invoice : 0..MaxNegotiations]
      /\ negotiation \in [Negotiations -> NegotiationRecords]
      /\ screenOpen \in BOOLEAN /\ rebuild \in BOOLEAN
      /\ addresses \in {"none", "fetching", "loaded", "failed"}
      /\ lnError \in {"none", "unavailable", "held elsewhere", "retryable"}
      /\ limitsAllow \in [ark : BOOLEAN, btc : BOOLEAN]
      /\ monitoredLn \subseteq Negotiations
      /\ selected.kind \in {"none", "bip21", "ark", "btc", "invoice"}
      /\ qrCode.kind \in {"none", "bip21", "ark", "btc", "invoice"}
BY DEF RecvTypeOK, NegotiationRecords

LEMMA NothingShown ==
    /\ NoNegotiation \in NegotiationRecords
    /\ NoNegotiation.step = "none" /\ NoNegotiation.abandoned = "no"
    /\ NoValue \in PayableValues /\ NoValue.kind = "none" /\ NoValue.invoice = 0
    /\ EmptyRecv \in [sats : Amounts \cup {0}, invoice : 0..MaxNegotiations] /\ EmptyRecv.invoice = 0
BY AmountsAssumption DEF NoNegotiation, NegotiationRecords, NoValue, Value, PayableValues, EmptyRecv

LEMMA RecvInitInv == RecvInit => RecvInv
<1>. SUFFICES ASSUME RecvInit PROVE RecvInv
  OBVIOUS
<1>1. negotiation \in [Negotiations -> NegotiationRecords] /\ monitoredLn = {}
  BY NothingShown DEF RecvInit
<1>2. \A n \in Negotiations : RunInv(n)
  BY NothingShown DEF RecvInit, RunInv, UnderWay
<1>3. limitsAllow \in [ark : BOOLEAN, btc : BOOLEAN]
  BY DEF RecvInit
<1>4. RecvTypeOK
  BY <1>1, <1>3, NothingShown, RecvTypes DEF RecvInit, NoLnError
<1>5. Fits(recvInfo.invoice) /\ selected \in PayableValues /\ qrCode \in PayableValues
  BY NothingShown DEF RecvInit, Fits
<1>6. CodeFitsAmount
  BY DEF RecvInit, CodeFitsAmount, CodeStands
<1>. QED
  BY <1>2, <1>4, <1>5, <1>6 DEF RecvInv

\* Abandoned runs stay what they are, but for the step they were abandoned at.
LEMMA AbandonKeeps ==
    ASSUME RecvInv
    PROVE  /\ Abandon \in [Negotiations -> NegotiationRecords]
           /\ \A n \in Negotiations :
                /\ Abandon[n].step = negotiation[n].step /\ Abandon[n].sats = negotiation[n].sats
                /\ Abandon[n].step \in UnderWay => Abandon[n].abandoned # "no"
                /\ negotiation[n].abandoned # "no" => Abandon[n].abandoned = negotiation[n].abandoned
                /\ Abandon[n].step \in {"tracking", "tracked"} => Abandon[n].abandoned # "quoting"
<1>1. negotiation \in [Negotiations -> NegotiationRecords] /\ \A n \in Negotiations : RunInv(n)
  BY RecvTypes DEF RecvInv
<1>2. ASSUME NEW n \in Negotiations
      PROVE  /\ Abandon[n] \in NegotiationRecords
             /\ Abandon[n].step = negotiation[n].step /\ Abandon[n].sats = negotiation[n].sats
             /\ Abandon[n].step \in UnderWay => Abandon[n].abandoned # "no"
             /\ negotiation[n].abandoned # "no" => Abandon[n].abandoned = negotiation[n].abandoned
             /\ Abandon[n].step \in {"tracking", "tracked"} => Abandon[n].abandoned # "quoting"
  <2>1. negotiation[n] \in NegotiationRecords /\ RunInv(n)
    BY <1>1
  <2>2. CASE negotiation[n].step \in UnderWay /\ negotiation[n].abandoned = "no"
    <3>1. Abandon[n] = [negotiation[n] EXCEPT !.abandoned = negotiation[n].step]
      BY <2>2 DEF Abandon
    <3>2. /\ Abandon[n] \in NegotiationRecords /\ Abandon[n].step = negotiation[n].step
          /\ Abandon[n].sats = negotiation[n].sats /\ Abandon[n].abandoned = negotiation[n].step
      BY <2>1, <2>2, <3>1 DEF NegotiationRecords
    <3>. QED
      BY <2>2, <3>2 DEF UnderWay
  <2>3. CASE ~ (negotiation[n].step \in UnderWay /\ negotiation[n].abandoned = "no")
    <3>1. Abandon[n] = negotiation[n]
      BY <2>3 DEF Abandon
    <3>. QED
      BY <2>1, <2>3, <3>1 DEF RunInv
  <2>. QED
    BY <2>2, <2>3
<1>3. Abandon \in [Negotiations -> NegotiationRecords]
  BY <1>2 DEF Abandon
<1>. QED
  BY <1>2, <1>3

\* The runs after the screen or its request is gone.
LEMMA AbandonedRuns ==
    ASSUME RecvInv, negotiation' = Abandon, UNCHANGED monitoredLn
    PROVE  /\ negotiation' \in [Negotiations -> NegotiationRecords]
           /\ \A n \in Negotiations : RunInv(n)'
           /\ Sticks
<1>1. monitoredLn \subseteq Negotiations /\ \A n \in Negotiations : RunInv(n)
  BY RecvTypes DEF RecvInv
<1>. QED
  BY <1>1, AbandonKeeps DEF RunInv, ForAmount, Sticks

LEMMA NegotiateKeeps ==
    ASSUME RecvInv, NEW info, info.sats \in Amounts \cup {0}, Negotiate(info),
           screenOpen', recvInfo'.sats = info.sats, UNCHANGED monitoredLn
    PROVE  /\ negotiation' \in [Negotiations -> NegotiationRecords] /\ lnError' = NoLnError
           /\ \A n \in Negotiations : RunInv(n)'
           /\ Sticks
<1>0. lnError' = NoLnError
  BY DEF Negotiate
<1>1. CASE info.sats = 0 \/ info.invoice # 0
  BY <1>0, <1>1, AbandonedRuns DEF Negotiate
<1>2. CASE ~ (info.sats = 0 \/ info.invoice # 0)
  <2>. DEFINE run == [step |-> "quoting", sats |-> info.sats, abandoned |-> "no"]
  <2>1. PICK n \in Negotiations :
          negotiation[n].step = "none" /\ negotiation' = [Abandon EXCEPT ![n] = run]
    BY <1>2 DEF Negotiate
  <2>2. /\ run \in NegotiationRecords
        /\ run.step = "quoting" /\ run.sats = info.sats /\ run.abandoned = "no"
    BY DEF NegotiationRecords, UnderWay
  <2>. HIDE DEF run
  <2>3. /\ negotiation' \in [Negotiations -> NegotiationRecords]
        /\ \A k \in Negotiations : negotiation'[k] = IF k = n THEN run ELSE Abandon[k]
    BY <2>1, <2>2, AbandonKeeps
  <2>4. /\ n \notin monitoredLn /\ monitoredLn \subseteq Negotiations
        /\ \A k \in Negotiations : RunInv(k)
    BY <2>1, RecvTypes DEF RecvInv, RunInv
  <2>5. ASSUME NEW k \in Negotiations PROVE RunInv(k)'
    <3>1. CASE k = n
      BY <2>2, <2>3, <2>4, <3>1 DEF RunInv, ForAmount
    <3>2. CASE k # n
      BY <2>3, <2>4, <3>2, AbandonKeeps DEF RunInv
    <3>. QED
      BY <3>1, <3>2
  <2>6. Sticks
    BY <2>3, <2>4, AbandonKeeps DEF Sticks
  <2>. QED
    BY <1>0, <2>3, <2>5, <2>6
<1>. QED
  BY <1>1, <1>2

LEMMA CandidatesPayable ==
    ASSUME RecvInv
    PROVE  \A v \in Candidates \cup {Value("invoice", 0, recvInfo.invoice)} :
             /\ v \in PayableValues /\ v.invoice \in {0, recvInfo.invoice}
             /\ v.kind = "bip21" => v.sats = recvInfo.sats
<1>1. /\ recvInfo.sats \in Amounts \cup {0} /\ recvInfo.invoice \in {0} \cup monitoredLn
  BY RecvTypes DEF RecvInv, Fits
<1>2. /\ Value("bip21", recvInfo.sats, recvInfo.invoice) \in PayableValues
      /\ Value("bip21", recvInfo.sats, recvInfo.invoice).kind = "bip21"
      /\ Value("bip21", recvInfo.sats, recvInfo.invoice).sats = recvInfo.sats
      /\ Value("bip21", recvInfo.sats, recvInfo.invoice).invoice = recvInfo.invoice
  BY <1>1 DEF Value, PayableValues
<1>3. \A kind \in {"ark", "btc"} :
        /\ Value(kind, 0, 0) \in PayableValues /\ Value(kind, 0, 0).kind = kind
        /\ Value(kind, 0, 0).invoice = 0
  BY DEF Value, PayableValues
<1>4. /\ Value("invoice", 0, recvInfo.invoice) \in PayableValues
      /\ Value("invoice", 0, recvInfo.invoice).kind = "invoice"
      /\ Value("invoice", 0, recvInfo.invoice).invoice = recvInfo.invoice
  BY <1>1 DEF Value, PayableValues
<1>. SUFFICES ASSUME NEW v \in Candidates \cup {Value("invoice", 0, recvInfo.invoice)}
              PROVE  /\ v \in PayableValues /\ v.invoice \in {0, recvInfo.invoice}
                     /\ v.kind = "bip21" => v.sats = recvInfo.sats
  OBVIOUS
<1>5. \/ v = Value("bip21", recvInfo.sats, recvInfo.invoice)
      \/ v = Value("ark", 0, 0) \/ v = Value("btc", 0, 0)
      \/ v = Value("invoice", 0, recvInfo.invoice)
  BY DEF Candidates, Bip21
<1>6. CASE v = Value("bip21", recvInfo.sats, recvInfo.invoice)
  BY <1>2, <1>6
<1>7. CASE v = Value("ark", 0, 0) \/ v = Value("btc", 0, 0)
  BY <1>3, <1>7
<1>8. CASE v = Value("invoice", 0, recvInfo.invoice)
  BY <1>4, <1>8
<1>. QED
  BY <1>5, <1>6, <1>7, <1>8

\* A run takes its next step.
LEMMA RunGoesTo ==
    ASSUME RecvInv, NEW n \in Negotiations, NEW step \in {"tracking", "tracked", "over"},
           negotiation' = [negotiation EXCEPT ![n].step = step],
           recvInfo'.sats = recvInfo.sats, UNCHANGED screenOpen,
           monitoredLn \subseteq monitoredLn', monitoredLn' \subseteq monitoredLn \cup {n},
           step = "tracking" => negotiation[n].step = "quoting" /\ negotiation[n].abandoned = "no"
                                /\ monitoredLn' = monitoredLn,
           step = "tracked" => negotiation[n].step = "tracking" /\ n \in monitoredLn'
    PROVE  /\ negotiation' \in [Negotiations -> NegotiationRecords]
           /\ \A k \in Negotiations : RunInv(k)'
           /\ Sticks
<1>1. /\ negotiation \in [Negotiations -> NegotiationRecords] /\ monitoredLn \subseteq Negotiations
      /\ \A k \in Negotiations : RunInv(k)
  BY RecvTypes DEF RecvInv
<1>2. /\ [negotiation[n] EXCEPT !.step = step] \in NegotiationRecords
      /\ [negotiation[n] EXCEPT !.step = step].step = step
      /\ [negotiation[n] EXCEPT !.step = step].sats = negotiation[n].sats
      /\ [negotiation[n] EXCEPT !.step = step].abandoned = negotiation[n].abandoned
  BY <1>1 DEF NegotiationRecords, UnderWay
<1>3. /\ negotiation' \in [Negotiations -> NegotiationRecords]
      /\ \A k \in Negotiations :
           /\ negotiation'[k].sats = negotiation[k].sats
           /\ negotiation'[k].abandoned = negotiation[k].abandoned
           /\ negotiation'[k].step = IF k = n THEN step ELSE negotiation[k].step
  BY <1>1, <1>2
<1>4. ASSUME NEW k \in Negotiations PROVE RunInv(k)'
  <2>1. CASE k = n
    BY <1>1, <1>3, <2>1 DEF RunInv, ForAmount, UnderWay
  <2>2. CASE k # n
    BY <1>1, <1>3, <2>2 DEF RunInv, ForAmount
  <2>. QED
    BY <2>1, <2>2
<1>5. Sticks
  BY <1>1, <1>3 DEF Sticks
<1>. QED
  BY <1>3, <1>4, <1>5

\* An invoice that may be requested for an amount still may.
LEMMA FitsStill ==
    ASSUME RecvInv, NEW n, Fits(n), Sticks, monitoredLn \subseteq monitoredLn',
           recvInfo'.sats = recvInfo.sats
    PROVE  Fits(n)'
BY DEF Fits, Sticks, ForAmount

\* A code that stands after a step stood before it, or has to be looked at anew.
LEMMA CodeStill ==
    ASSUME RecvInv, Sticks,
           CodeStands' => CodeStands /\ recvInfo'.sats = recvInfo.sats /\ qrCode' = qrCode
    PROVE  CodeFitsAmount'
<1>1. qrCode.invoice # 0 => qrCode.invoice \in monitoredLn
  BY DEF RecvInv, PayableValues
<1>. QED
  BY <1>1 DEF RecvInv, CodeFitsAmount, Sticks, ForAmount

LEMMA RecvParts ==
    ASSUME RecvInv,
           screenOpen' \in BOOLEAN, rebuild' \in BOOLEAN,
           recvInfo' \in [sats : Amounts \cup {0}, invoice : 0..MaxNegotiations],
           addresses' \in {"none", "fetching", "loaded", "failed"},
           negotiation' \in [Negotiations -> NegotiationRecords],
           lnError' \in {"none", "unavailable", "held elsewhere", "retryable"},
           limitsAllow' \in [ark : BOOLEAN, btc : BOOLEAN],
           monitoredLn \subseteq monitoredLn', monitoredLn' \subseteq Negotiations,
           selected' \in PayableValues, qrCode' \in PayableValues,
           \A n \in Negotiations : RunInv(n)', Fits(recvInfo.invoice)', CodeFitsAmount'
    PROVE  RecvInv'
<1>1. selected' \in PayableValues' /\ qrCode' \in PayableValues'
  BY DEF PayableValues
<1>2. /\ selected'.kind \in {"none", "bip21", "ark", "btc", "invoice"}
      /\ qrCode'.kind \in {"none", "bip21", "ark", "btc", "invoice"}
  BY DEF PayableValues
<1>3. RecvTypeOK'
  BY <1>2, RecvTypes DEF RecvTypeOK, NegotiationRecords
<1>. QED
  BY <1>1, <1>3 DEF RecvInv

LEMMA RecvStepInv == RecvInv /\ [RecvNext]_recvVars => RecvInv'
<1>. SUFFICES ASSUME RecvInv, [RecvNext]_recvVars PROVE RecvInv'
  OBVIOUS
<1>0. /\ recvInfo \in [sats : Amounts \cup {0}, invoice : 0..MaxNegotiations]
      /\ negotiation \in [Negotiations -> NegotiationRecords]
      /\ screenOpen \in BOOLEAN /\ rebuild \in BOOLEAN
      /\ addresses \in {"none", "fetching", "loaded", "failed"}
      /\ lnError \in {"none", "unavailable", "held elsewhere", "retryable"}
      /\ limitsAllow \in [ark : BOOLEAN, btc : BOOLEAN]
      /\ monitoredLn \subseteq Negotiations
      /\ selected \in PayableValues /\ qrCode \in PayableValues
      /\ Fits(recvInfo.invoice) /\ \A n \in Negotiations : RunInv(n)
  BY RecvTypes DEF RecvInv
<1>00. 0 \in Amounts \cup {0} /\ \A v \in Amounts \cup {0} :
         /\ [sats |-> v, invoice |-> 0] \in [sats : Amounts \cup {0}, invoice : 0..MaxNegotiations]
         /\ [sats |-> v, invoice |-> 0].invoice = 0
  BY AmountsAssumption
\* The runs stand still.
<1>1. ASSUME UNCHANGED <<screenOpen, negotiation, monitoredLn>>, recvInfo'.sats = recvInfo.sats
      PROVE  /\ negotiation' \in [Negotiations -> NegotiationRecords] /\ Sticks
             /\ \A n \in Negotiations : RunInv(n)'
  BY <1>0, <1>1 DEF RunInv, ForAmount, Sticks
<1>2. CASE UNCHANGED recvVars
  <2>1. UNCHANGED <<screenOpen, recvInfo, addresses, negotiation, monitoredLn, lnError, limitsAllow,
                    selected, qrCode, rebuild>>
    BY <1>2 DEF recvVars
  <2>2. /\ Sticks /\ \A n \in Negotiations : RunInv(n)'
        /\ negotiation' \in [Negotiations -> NegotiationRecords]
    BY <1>1, <2>1
  <2>3. CodeFitsAmount'
    BY <2>1, <2>2, CodeStill DEF CodeStands
  <2>4. Fits(recvInfo.invoice)'
    BY <1>0, <2>1, <2>2, FitsStill DEF Fits
  <2>. QED
    BY <1>0, <2>1, <2>2, <2>3, <2>4, RecvParts
\* Whatever makes a new request makes the code due.
<1>3. ASSUME NEW info \in [sats : Amounts \cup {0}, invoice : 0..MaxNegotiations],
             info.invoice = 0 \/ info = recvInfo, Request(info),
             screenOpen, UNCHANGED <<screenOpen, monitoredLn, limitsAllow, selected, qrCode>>,
             addresses' \in {"none", "fetching", "loaded", "failed"}
      PROVE  RecvInv'
  <2>1. recvInfo' = info /\ rebuild' = TRUE /\ info.sats \in Amounts \cup {0}
    BY <1>3 DEF Request
  <2>2. /\ negotiation' \in [Negotiations -> NegotiationRecords] /\ Sticks
        /\ \A n \in Negotiations : RunInv(n)'
        /\ lnError' \in {"none", "unavailable", "held elsewhere", "retryable"}
    <3>1. CASE info.sats = recvInfo.sats
      BY <1>0, <1>1, <1>3, <2>1, <3>1 DEF Request
    <3>2. CASE info.sats # recvInfo.sats
      BY <1>3, <2>1, <3>2, NegotiateKeeps DEF Request, NoLnError
    <3>. QED
      BY <3>1, <3>2
  <2>3. Fits(recvInfo.invoice)'
    <3>1. CASE info.invoice = 0
      BY <2>1, <3>1 DEF Fits
    <3>2. CASE info = recvInfo
      <4>1. Fits(recvInfo.invoice)
        BY <1>0
      <4>2. recvInfo' = recvInfo /\ monitoredLn' = monitoredLn
        BY <1>3, <2>1, <3>2
      <4>. QED
        BY <2>2, <4>1, <4>2 DEF Fits, Sticks, ForAmount
    <3>. QED
      BY <1>3, <3>1, <3>2
  <2>4. CodeFitsAmount'
    BY <2>1 DEF CodeFitsAmount, CodeStands
  <2>. QED
    BY <1>0, <1>3, <2>1, <2>2, <2>3, <2>4, RecvParts
<1>4. CASE AddressesArrive \/ AddressesFail
  BY <1>3, <1>4, NothingShown DEF AddressesArrive, AddressesFail
<1>5. ASSUME NEW v \in Amounts \cup {0}, SetAmount(v) PROVE RecvInv'
  <2>1. CASE v = recvInfo.sats
    BY <1>0, <1>3, <1>5, <2>1 DEF SetAmount
  <2>2. CASE v # recvInfo.sats
    BY <1>0, <1>00, <1>3, <1>5, <2>2 DEF SetAmount
  <2>. QED
    BY <2>1, <2>2
<1>6. CASE OpenReceive
  <2>1. /\ recvInfo' = EmptyRecv /\ selected' = NoValue /\ qrCode' = NoValue
        /\ screenOpen' = TRUE /\ addresses' = "fetching" /\ rebuild' = FALSE
        /\ lnError' = "none" /\ limitsAllow' \in [ark : BOOLEAN, btc : BOOLEAN]
        /\ UNCHANGED <<negotiation, monitoredLn>>
    BY <1>6 DEF OpenReceive, NoLnError
  <2>2. \A n \in Negotiations : RunInv(n)'
    <3>1. screenOpen = FALSE
      BY <1>0, <1>6 DEF OpenReceive
    <3>. QED
      BY <1>0, <2>1, <3>1 DEF RunInv, ForAmount
  <2>3. Fits(recvInfo.invoice)' /\ CodeFitsAmount'
    BY <2>1, NothingShown DEF Fits, CodeFitsAmount, CodeStands
  <2>. QED
    BY <1>0, <2>1, <2>2, <2>3, NothingShown, RecvParts
<1>7. CASE CloseReceive \/ PaymentArrives
  <2>1. /\ recvInfo' \in {recvInfo, EmptyRecv} /\ screenOpen' = FALSE /\ negotiation' = Abandon
        /\ UNCHANGED <<addresses, monitoredLn, lnError, limitsAllow, selected, qrCode, rebuild>>
    BY <1>7 DEF CloseReceive, PaymentArrives
  <2>2. /\ negotiation' \in [Negotiations -> NegotiationRecords] /\ Sticks
        /\ \A n \in Negotiations : RunInv(n)'
    BY <2>1, AbandonedRuns
  <2>3. CodeFitsAmount'
    BY <2>1 DEF CodeFitsAmount, CodeStands
  <2>4. Fits(recvInfo.invoice)'
    <3>1. CASE recvInfo' = recvInfo
      BY <1>0, <2>1, <2>2, <3>1 DEF Fits, Sticks, ForAmount
    <3>2. CASE recvInfo' = EmptyRecv
      BY <3>2, NothingShown DEF Fits
    <3>. QED
      BY <2>1, <3>1, <3>2
  <2>. QED
    BY <1>0, <2>1, <2>2, <2>3, <2>4, NothingShown, RecvParts
\* A run goes on, and nothing else is asked for or shown.
<1>8. ASSUME NEW n \in Negotiations, NEW step \in {"tracking", "tracked", "over"},
             negotiation' = [negotiation EXCEPT ![n].step = step],
             step = "tracking" => negotiation[n].step = "quoting" /\ negotiation[n].abandoned = "no"
                                  /\ monitoredLn' = monitoredLn,
             step = "tracked" => negotiation[n].step = "tracking" /\ n \in monitoredLn',
             monitoredLn' \in {monitoredLn, monitoredLn \cup {n}},
             lnError' \in {"none", "unavailable", "held elsewhere", "retryable"},
             UNCHANGED <<screenOpen, recvInfo, addresses, limitsAllow, selected, qrCode, rebuild>>
      PROVE  RecvInv'
  <2>1. /\ negotiation' \in [Negotiations -> NegotiationRecords] /\ Sticks
        /\ \A k \in Negotiations : RunInv(k)'
    BY <1>8, RunGoesTo
  <2>2. CodeFitsAmount'
    BY <1>8, <2>1, CodeStill DEF CodeStands
  <2>3. Fits(recvInfo.invoice)'
    BY <1>0, <1>8, <2>1 DEF Fits, Sticks, ForAmount
  <2>. QED
    BY <1>0, <1>8, <2>1, <2>2, <2>3, RecvParts
<1>9. ASSUME NEW n \in Negotiations, QuoteArrives(n) PROVE RecvInv'
  <2>1. /\ lnError' \in {"none", "unavailable", "held elsewhere", "retryable"}
        /\ UNCHANGED <<screenOpen, recvInfo, addresses, limitsAllow, selected, qrCode, rebuild>>
        /\ UNCHANGED monitoredLn /\ negotiation[n].step = "quoting"
    BY <1>0, <1>9 DEF QuoteArrives
  <2>2. CASE negotiation' = [negotiation EXCEPT ![n].step = "over"]
    BY <1>8, <2>1, <2>2
  <2>3. CASE negotiation[n].abandoned = "no" /\ negotiation' = [negotiation EXCEPT ![n].step = "tracking"]
    BY <1>8, <2>1, <2>3
  <2>. QED
    BY <1>9, <2>2, <2>3 DEF QuoteArrives
<1>10. ASSUME NEW n \in Negotiations, TrackTakes(n) \/ TrackFails(n) PROVE RecvInv'
  <2>1. CASE TrackTakes(n)
    BY <1>0, <1>8, <2>1 DEF TrackTakes
  <2>2. CASE TrackFails(n)
    BY <1>0, <1>8, <2>2 DEF TrackFails
  <2>. QED
    BY <1>10, <2>1, <2>2
<1>11. ASSUME NEW n \in Negotiations, ShowInvoice(n) PROVE RecvInv'
  <2>1. /\ negotiation' = [negotiation EXCEPT ![n].step = "over"] /\ negotiation[n].step = "tracked"
        /\ lnError' = NoLnError /\ recvInfo' = [recvInfo EXCEPT !.invoice = n] /\ rebuild' = TRUE
        /\ UNCHANGED <<screenOpen, addresses, monitoredLn, limitsAllow, selected, qrCode>>
    BY <1>11 DEF ShowInvoice
  <2>2. /\ recvInfo' \in [sats : Amounts \cup {0}, invoice : 0..MaxNegotiations]
        /\ recvInfo'.invoice = n /\ recvInfo'.sats = recvInfo.sats
    <3>1. n \in 0..MaxNegotiations
      BY AmountsAssumption DEF Negotiations
    <3>. QED
      BY <1>0, <2>1, <3>1
  <2>3. /\ negotiation' \in [Negotiations -> NegotiationRecords] /\ Sticks
        /\ \A k \in Negotiations : RunInv(k)'
    BY <2>1, <2>2, RunGoesTo
  <2>4. CodeFitsAmount'
    BY <2>1 DEF CodeFitsAmount, CodeStands
  <2>5. negotiation[n] \in NegotiationRecords /\ RunInv(n) /\ negotiation[n].step = "tracked"
    BY <1>0, <2>1
  <2>6. Fits(n)
    <3>1. negotiation[n].abandoned \in {"no", "quoting", "tracking", "tracked"}
      BY <2>5 DEF NegotiationRecords, UnderWay
    <3>. QED
      BY <2>5, <3>1 DEF Fits, RunInv, UnderWay
  <2>7. Fits(recvInfo.invoice)'
    BY <2>1, <2>2, <2>3, <2>6 DEF Fits, Sticks, ForAmount
  <2>. QED
    BY <1>0, <2>1, <2>2, <2>3, <2>4, <2>7, RecvParts DEF NoLnError
<1>12. CASE TryAgain
  <2>1. /\ negotiation' \in [Negotiations -> NegotiationRecords] /\ lnError' = NoLnError /\ Sticks
        /\ \A n \in Negotiations : RunInv(n)'
    BY <1>0, <1>12, NegotiateKeeps DEF TryAgain
  <2>2. UNCHANGED <<screenOpen, recvInfo, addresses, monitoredLn, limitsAllow, selected, qrCode, rebuild>>
    BY <1>12 DEF TryAgain
  <2>3. CodeFitsAmount'
    BY <2>1, <2>2, CodeStill DEF CodeStands
  <2>4. Fits(recvInfo.invoice)'
    BY <1>0, <2>1, <2>2 DEF Fits, Sticks, ForAmount
  <2>. QED
    BY <1>0, <2>1, <2>2, <2>3, <2>4, RecvParts DEF NoLnError
\* The code is set to a value there is.
<1>13. ASSUME NEW v \in Candidates \cup {Value("invoice", 0, recvInfo.invoice)}, qrCode' = v,
              selected' \in {selected, v}, rebuild' \in BOOLEAN,
              UNCHANGED <<screenOpen, recvInfo, addresses, negotiation, monitoredLn, lnError, limitsAllow>>
       PROVE  RecvInv'
  <2>1. /\ v \in PayableValues /\ v.invoice \in {0, recvInfo.invoice}
        /\ v.kind = "bip21" => v.sats = recvInfo.sats
    BY CandidatesPayable
  <2>2. /\ Sticks /\ \A n \in Negotiations : RunInv(n)'
        /\ negotiation' \in [Negotiations -> NegotiationRecords]
    BY <1>1, <1>13
  <2>3. CodeFitsAmount'
    BY <1>0, <1>13, <2>1 DEF CodeFitsAmount, Fits, ForAmount
  <2>4. Fits(recvInfo.invoice)'
    BY <1>0, <1>13 DEF Fits, ForAmount
  <2>. QED
    BY <1>0, <1>13, <2>1, <2>2, <2>3, <2>4, RecvParts
<1>14. CASE SelectValue
  <2>1. PICK v \in Candidates \cup {Value("invoice", 0, recvInfo.invoice)} :
          selected' = v /\ qrCode' = v /\ rebuild' = (v # selected)
    BY <1>14 DEF SelectValue
  <2>. QED
    BY <1>13, <1>14, <2>1 DEF SelectValue
<1>15. CASE RebuildCode
  <2>1. ResolveQrValue(selected) \in Candidates
    BY DEF ResolveQrValue, Candidates
  <2>. QED
    BY <1>13, <1>15, <2>1 DEF RebuildCode
<1>. QED
  BY <1>2, <1>4, <1>5, <1>6, <1>7, <1>9, <1>10, <1>11, <1>12, <1>14, <1>15 DEF RecvNext

LEMMA RecvInvariant == RecvSpec => []RecvInv
BY RecvInitInv, RecvStepInv, PTL DEF RecvSpec

LEMMA ShownInvoices == RecvInv => ShownIsMonitored
BY DEF RecvInv, ShownIsMonitored, Negotiations, PayableValues, Fits

\* What the receive screen requests and shows keeps its type.
THEOREM RecvTypeCorrectness == RecvSpec => []RecvTypeOK
BY RecvInvariant, PTL DEF RecvInv

\* An invoice that is requested, or that the code encodes, was handed to the
\* receive manager before, for any number of negotiations, abandoned or not.
THEOREM InvoicesAreMonitored == RecvSpec => []ShownIsMonitored
BY RecvInvariant, ShownInvoices, PTL

\* Once rebuilt, the code asks for the amount requested; an invoice in it is for
\* that amount, unless the amount was replaced while track() was awaited, for any
\* number of amounts and of negotiations under way.
THEOREM CodeFollowsAmount == RecvSpec => []CodeFitsAmount
BY RecvInvariant, PTL DEF RecvInv

-----------------------------------------------------------------------------
(* The swap screen.                                                        *)

\* What can be entered in the display currency.
FiatEntries == KeyedAmounts \cup {0}

\* The pair kept is the pair on screen, and there is none for an asset without a
\* price.
PairBound ==
    /\ Preserved # NoPair =>
         amount = IF AmountMode = "fiat" THEN Preserved.currencyAmount ELSE Preserved.assetAmount
    /\ selectedMode = "fiat" /\ ~ Convertible(unitPrice, fromAsset) => preservedPair = NoPair

\* A plan is asked for between two assets, and the one in hand is for the assets
\* on screen and the amount last asked for.
PlanBound ==
    /\ offer.status = "loading" => toAsset # NoAsset
    /\ offer.status = "success" =>
         offer.plan = [pair |-> <<fromAsset, toAsset>>, deposit |-> giveAmount]

EntriesOK ==
    /\ selectedMode = "fiat" => amount \in FiatEntries
    /\ preservedPair.currencyAmount \in FiatEntries

ScreenInv == SwapScreenTypeOK /\ EntriesOK /\ PairBound /\ PlanBound /\ CreatedIsReviewed

Pairs ==
    [asset : SwapAssetIds, assetAmount : Entries, currencyAmount : Entries] \cup {NoPair}

LEMMA NothingEntered ==
    /\ 0 \in Entries /\ 0 \in FiatEntries /\ FiatEntries \subseteq Entries
    /\ NoPair.asset = NoAsset /\ NoPair.currencyAmount = 0 /\ NoPair \in Pairs
    /\ IdleOffer.status = "idle" /\ IdleOffer.plan = NoPlan /\ NoPlan \in Plans
    /\ NotCreating.plan = NoPlan
BY MarketsAssumption DEF Entries, FiatEntries, NoPair, Pairs, IdleOffer, NoPlan, Plans, NotCreating

LEMMA ScreenInitInv == SwapScreenInit => ScreenInv
<1>. SUFFICES ASSUME SwapScreenInit PROVE ScreenInv
  OBVIOUS
<1>1. fromAsset \in SwapAssetIds
  BY MarketsAssumption DEF SwapScreenInit
<1>2. IdleOffer \in [status : {"idle", "loading", "success", "error"}, plan : Plans]
  BY NothingEntered DEF IdleOffer
<1>3. 0 \in UnitPrices /\ 0 \in 0..MaxHolding
  BY MarketsAssumption
<1>4. SwapScreenTypeOK
  BY <1>1, <1>2, <1>3, NothingEntered DEF SwapScreenInit, SwapScreenTypeOK, Pairs
<1>5. EntriesOK /\ PlanBound /\ CreatedIsReviewed
  BY NothingEntered DEF SwapScreenInit, EntriesOK, PlanBound, CreatedIsReviewed
<1>6. Preserved = NoPair
  BY DEF SwapScreenInit, Preserved
<1>7. PairBound
  BY <1>6 DEF SwapScreenInit, PairBound
<1>. QED
  BY <1>4, <1>5, <1>7 DEF ScreenInv

\* An entry that shows a side of its pair leaves the pair bound.
LEMMA EnterBinds ==
    ASSUME NEW mode \in {"fiat", "asset"}, NEW value \in Entries, NEW pair \in Pairs,
           Enter(mode, value, pair),
           mode = "fiat" => value \in FiatEntries, pair.currencyAmount \in FiatEntries,
           pair # NoPair /\ pair.asset = fromAsset' =>
               value = IF mode = "fiat" THEN pair.currencyAmount ELSE pair.assetAmount
    PROVE  /\ PairBound' /\ EntriesOK'
           /\ selectedMode' \in {"fiat", "asset"} /\ amount' \in Entries /\ preservedPair' \in Pairs
<1>1. CASE mode = "fiat" /\ ~ Convertible(unitPrice', fromAsset')
  <2>1. selectedMode' = "asset" /\ amount' = 0 /\ preservedPair' = NoPair
    BY <1>1 DEF Enter
  <2>2. Preserved' = NoPair
    BY <2>1 DEF Preserved
  <2>. QED
    BY <2>1, <2>2, NothingEntered DEF PairBound, EntriesOK
<1>2. CASE ~ (mode = "fiat" /\ ~ Convertible(unitPrice', fromAsset'))
  <2>1. selectedMode' = mode /\ amount' = value /\ preservedPair' = pair
    BY <1>2 DEF Enter
  <2>2. Preserved' = IF pair.asset = fromAsset' THEN pair ELSE NoPair
    BY <2>1 DEF Preserved
  <2>3. AmountMode' = "fiat" <=> mode = "fiat"
    BY <1>2, <2>1 DEF AmountMode, Convertible
  <2>4. mode = "fiat" /\ ~ Convertible(unitPrice, fromAsset)' => FALSE
    BY <1>2 DEF Convertible
  <2>5. PairBound'
    BY <2>1, <2>2, <2>3, <2>4 DEF PairBound
  <2>. QED
    BY <2>1, <2>5 DEF EntriesOK
<1>. QED
  BY <1>1, <1>2

\* The amount to be given is an entry.
LEMMA AssetAmountType ==
    ASSUME SwapScreenTypeOK, EntriesOK
    PROVE  AssetAmount \in Entries
<1>1. CASE Preserved # NoPair
  <2>1. Preserved = preservedPair /\ preservedPair # NoPair
    BY <1>1 DEF Preserved
  <2>. QED
    BY <1>1, <2>1 DEF AssetAmount, SwapScreenTypeOK
<1>2. CASE Preserved = NoPair /\ AmountMode = "asset"
  BY <1>2 DEF AssetAmount, SwapScreenTypeOK
<1>3. CASE Preserved = NoPair /\ AmountMode # "asset"
  <2>1. AssetAmount = amount * unitPrice[fromAsset]
    BY <1>3 DEF AssetAmount
  <2>2. amount \in FiatEntries /\ unitPrice[fromAsset] \in UnitPrices
    BY <1>3 DEF AmountMode, EntriesOK, SwapScreenTypeOK
  <2>3. CASE amount \in KeyedAmounts
    BY <2>1, <2>2, <2>3 DEF Entries
  <2>4. CASE amount = 0
    <3>1. unitPrice[fromAsset] \in Nat
      BY <2>2, MarketsAssumption
    <3>2. 0 * unitPrice[fromAsset] = 0
      BY <3>1
    <3>. QED
      BY <2>1, <2>4, <3>2, NothingEntered
  <2>. QED
    BY <2>2, <2>3, <2>4 DEF FiatEntries
<1>. QED
  BY <1>1, <1>2, <1>3

\* Whoever sets the assets or the amount asked for drops the plan in hand.
LEMMA SetAssetsBinds ==
    ASSUME SwapScreenTypeOK, PlanBound, NEW from \in SwapAssetIds, NEW to \in SwapAssetIds \cup {NoAsset},
           NEW give \in Entries, SetAssets(from, to, give)
    PROVE  /\ PlanBound' /\ fromAsset' = from /\ toAsset' = to /\ giveAmount' = give
           /\ offer' \in [status : {"idle", "loading", "success", "error"}, plan : Plans]
<1>1. fromAsset' = from /\ toAsset' = to /\ giveAmount' = give
  BY DEF SetAssets
<1>2. CASE from = fromAsset /\ to = toAsset /\ give = giveAmount
  BY <1>1, <1>2 DEF SetAssets, PlanBound, SwapScreenTypeOK
<1>3. CASE ~ (from = fromAsset /\ to = toAsset /\ give = giveAmount)
  <2>1. \/ offer' = [status |-> "loading", plan |-> NoPlan] /\ to # NoAsset
        \/ offer' = IdleOffer
    BY <1>3 DEF SetAssets, HasMarket
  <2>2. /\ offer' \in [status : {"idle", "loading", "success", "error"}, plan : Plans]
        /\ offer'.status # "success" /\ (offer'.status = "loading" => to # NoAsset)
    BY <2>1, NothingEntered DEF IdleOffer
  <2>. QED
    BY <1>1, <2>2 DEF PlanBound
<1>. QED
  BY <1>2, <1>3

\* The steps that leave entry, assets and plan alone.
LEMMA EntryKept ==
    ASSUME ScreenInv, UNCHANGED <<fromAsset, toAsset, amount, selectedMode, preservedPair, unitPrice>>
    PROVE  PairBound' /\ EntriesOK'
BY DEF ScreenInv, PairBound, EntriesOK, Preserved, AmountMode, Convertible

LEMMA ScreenParts ==
    ASSUME ScreenInv,
           swapStep' \in {"closed", "select-from", "compose"},
           fromAsset' \in SwapAssetIds, toAsset' \in SwapAssetIds \cup {NoAsset},
           amount' \in Entries, selectedMode' \in {"fiat", "asset"}, preservedPair' \in Pairs,
           unitPrice' \in [SwapAssetIds -> UnitPrices], holding' \in [SwapAssetIds -> 0..MaxHolding],
           giveAmount' \in Entries,
           offer' \in [status : {"idle", "loading", "success", "error"}, plan : Plans],
           drawer' \in {"none", "to", "review"},
           creating' \in {creating, NotCreating},
           PairBound', EntriesOK', PlanBound'
    PROVE  ScreenInv'
<1>1. creating'.plan \in Plans
  BY NothingEntered DEF ScreenInv, SwapScreenTypeOK
<1>2. CreatedIsReviewed'
  BY DEF ScreenInv, CreatedIsReviewed
<1>. QED
  BY <1>1, <1>2 DEF ScreenInv, SwapScreenTypeOK, Pairs

LEMMA ScreenStepInv == ScreenInv /\ [SwapScreenNext]_swapScreenVars => ScreenInv'
<1>. SUFFICES ASSUME ScreenInv, [SwapScreenNext]_swapScreenVars PROVE ScreenInv'
  OBVIOUS
<1>0. /\ swapStep \in {"closed", "select-from", "compose"}
      /\ fromAsset \in SwapAssetIds /\ toAsset \in SwapAssetIds \cup {NoAsset}
      /\ amount \in Entries /\ selectedMode \in {"fiat", "asset"} /\ preservedPair \in Pairs
      /\ unitPrice \in [SwapAssetIds -> UnitPrices] /\ holding \in [SwapAssetIds -> 0..MaxHolding]
      /\ giveAmount \in Entries
      /\ offer \in [status : {"idle", "loading", "success", "error"}, plan : Plans]
      /\ drawer \in {"none", "to", "review"}
      /\ SwapScreenTypeOK /\ EntriesOK /\ PairBound /\ PlanBound
      /\ selectedMode = "fiat" => amount \in FiatEntries
  BY DEF ScreenInv, SwapScreenTypeOK, Pairs, EntriesOK
<1>1. ASSUME UNCHANGED <<fromAsset, toAsset, amount, selectedMode, preservedPair, unitPrice, holding,
                         giveAmount, offer>>,
             swapStep' \in {"closed", "select-from", "compose"}, drawer' \in {"none", "to", "review"},
             creating' \in {creating, NotCreating}
      PROVE  ScreenInv'
  BY <1>0, <1>1, EntryKept, ScreenParts DEF PlanBound
<1>2. CASE UNCHANGED swapScreenVars
  BY <1>0, <1>1, <1>2 DEF swapScreenVars
<1>3. CASE LeaveSwap \/ BackToAssets \/ OpenDrawer \/ CloseDrawer \/ CreateEnds
  BY <1>0, <1>1, <1>3 DEF LeaveSwap, BackToAssets, OpenDrawer, CloseDrawer, CreateEnds
\* Steps about the entry.
<1>4. ASSUME NEW mode \in {"fiat", "asset"}, NEW value \in Entries, NEW pair \in Pairs,
             Enter(mode, value, pair),
             mode = "fiat" => value \in FiatEntries, pair.currencyAmount \in FiatEntries,
             pair # NoPair /\ pair.asset = fromAsset =>
                 value = IF mode = "fiat" THEN pair.currencyAmount ELSE pair.assetAmount,
             unitPrice' \in [SwapAssetIds -> UnitPrices],
             UNCHANGED <<swapStep, fromAsset, toAsset, holding, giveAmount, offer, drawer, creating>>
      PROVE  ScreenInv'
  <2>1. /\ PairBound' /\ EntriesOK'
        /\ selectedMode' \in {"fiat", "asset"} /\ amount' \in Entries /\ preservedPair' \in Pairs
    BY <1>4, EnterBinds
  <2>2. PlanBound'
    BY <1>0, <1>4 DEF PlanBound
  <2>. QED
    BY <1>0, <1>4, <2>1, <2>2, ScreenParts
<1>5. ASSUME NEW v \in KeyedAmounts, PressKey(v) PROVE ScreenInv'
  <2>1. v \in FiatEntries /\ v \in Entries
    BY NothingEntered DEF FiatEntries
  <2>. QED
    BY <1>0, <1>4, <1>5, <2>1, NothingEntered DEF PressKey
<1>6. CASE UseMaxBalance
  <2>1. holding[fromAsset] \in Entries
    BY <1>0 DEF Entries
  <2>. QED
    BY <1>0, <1>4, <1>6, <2>1, NothingEntered DEF UseMaxBalance
<1>7. CASE ToggleMode
  <2>0. UNCHANGED <<swapStep, fromAsset, toAsset, unitPrice, holding, giveAmount, offer, drawer, creating>>
    BY <1>7 DEF ToggleMode
  <2>1. AssetAmount \in Entries
    BY <1>0, AssetAmountType
  <2>2. CASE AmountMode = "fiat"
    <3>. DEFINE pair == [asset |-> fromAsset, assetAmount |-> AssetAmount, currencyAmount |-> amount]
    <3>1. selectedMode = "fiat"
      BY <2>2 DEF AmountMode
    <3>2. amount \in FiatEntries
      BY <1>0, <3>1
    <3>3. pair \in Pairs /\ pair.currencyAmount = amount /\ pair.assetAmount = AssetAmount
      BY <1>0, <2>1 DEF Pairs
    <3>4. Enter("asset", AssetAmount, pair)
      BY <1>7, <2>2 DEF ToggleMode
    <3>. HIDE DEF pair
    <3>. QED
      BY <1>0, <1>4, <2>0, <2>1, <3>2, <3>3, <3>4
  <2>3. CASE AmountMode # "fiat"
    <3>1. PICK c \in IF Preserved # NoPair THEN {Preserved.currencyAmount} ELSE KeyedAmounts :
              Enter("fiat", c, [asset |-> fromAsset, assetAmount |-> amount, currencyAmount |-> c])
      BY <1>7, <2>3 DEF ToggleMode
    <3>2. c \in FiatEntries /\ c \in Entries
      BY <1>0, <3>1, NothingEntered DEF Preserved, EntriesOK, FiatEntries
    <3>. DEFINE pair == [asset |-> fromAsset, assetAmount |-> amount, currencyAmount |-> c]
    <3>3. pair \in Pairs /\ pair.currencyAmount = c
      BY <1>0, <3>2 DEF Pairs
    <3>4. Enter("fiat", c, pair)
      BY <3>1
    <3>. HIDE DEF pair
    <3>. QED
      BY <1>0, <1>4, <2>0, <3>2, <3>3, <3>4
  <2>. QED
    BY <2>2, <2>3
<1>8. ASSUME NEW a \in SwapAssetIds, NEW p \in UnitPrices, PriceTicks(a, p) PROVE ScreenInv'
  <2>1. unitPrice' \in [SwapAssetIds -> UnitPrices]
    BY <1>0, <1>8 DEF PriceTicks
  <2>2. /\ Enter(selectedMode, amount, preservedPair)
        /\ UNCHANGED <<swapStep, fromAsset, toAsset, holding, giveAmount, offer, drawer, creating>>
    BY <1>8 DEF PriceTicks
  <2>3. preservedPair # NoPair /\ preservedPair.asset = fromAsset =>
            amount = IF selectedMode = "fiat" THEN preservedPair.currencyAmount ELSE preservedPair.assetAmount
    BY <1>0 DEF PairBound, Preserved, AmountMode
  <2>4. preservedPair.currencyAmount \in FiatEntries
    BY <1>0 DEF EntriesOK
  <2>. QED
    BY <1>0, <1>4, <2>1, <2>2, <2>3, <2>4
\* Steps about the assets: those that may change the asset given enter anew.
<1>9. ASSUME NEW from \in SwapAssetIds, NEW to \in SwapAssetIds \cup {NoAsset}, NEW give \in Entries,
             SetAssets(from, to, give), NEW mode \in {"fiat", "asset"}, NEW value \in Entries,
             Enter(mode, value, NoPair), mode = "fiat" => value \in FiatEntries,
             swapStep' \in {"closed", "select-from", "compose"}, drawer' \in {"none", "to", "review"},
             creating' \in {creating, NotCreating}, UNCHANGED <<unitPrice, holding>>
      PROVE  ScreenInv'
  <2>1. /\ PairBound' /\ EntriesOK'
        /\ selectedMode' \in {"fiat", "asset"} /\ amount' \in Entries /\ preservedPair' \in Pairs
    BY <1>9, EnterBinds, NothingEntered
  <2>2. /\ PlanBound' /\ fromAsset' = from /\ toAsset' = to /\ giveAmount' = give
        /\ offer' \in [status : {"idle", "loading", "success", "error"}, plan : Plans]
    BY <1>0, <1>9, SetAssetsBinds
  <2>. QED
    BY <1>0, <1>9, <2>1, <2>2, ScreenParts
<1>10. ASSUME NEW a \in SwapAssetIds, OpenSwap(a) PROVE ScreenInv'
  BY <1>0, <1>9, <1>10, NothingEntered DEF OpenSwap
<1>11. ASSUME NEW a \in SwapAssetIds, SelectFrom(a) PROVE ScreenInv'
  BY <1>0, <1>9, <1>11 DEF SelectFrom
<1>12. CASE SwapSides
  <2>1. toAsset \in SwapAssetIds /\ fromAsset \in SwapAssetIds \cup {NoAsset}
    BY <1>0, <1>12 DEF SwapSides
  <2>. QED
    BY <1>0, <1>9, <1>12, <2>1, NothingEntered DEF SwapSides
<1>13. ASSUME NEW to \in SwapAssetIds \cup {NoAsset}, NEW give \in Entries, SetAssets(fromAsset, to, give),
              drawer' \in {"none", "to", "review"},
              UNCHANGED <<swapStep, amount, selectedMode, preservedPair, unitPrice, holding, creating>>
       PROVE  ScreenInv'
  <2>1. /\ PlanBound' /\ fromAsset' = fromAsset /\ toAsset' = to /\ giveAmount' = give
        /\ offer' \in [status : {"idle", "loading", "success", "error"}, plan : Plans]
    BY <1>0, <1>13, SetAssetsBinds
  <2>2. PairBound' /\ EntriesOK'
    BY <1>0, <1>13, <2>1 DEF PairBound, EntriesOK, Preserved, AmountMode, Convertible
  <2>. QED
    BY <1>0, <1>13, <2>1, <2>2, ScreenParts
<1>14. ASSUME NEW a \in SwapAssetIds, SelectTo(a) PROVE ScreenInv'
  BY <1>0, <1>13, <1>14 DEF SelectTo
<1>15. CASE SettleAmount
  BY <1>0, <1>13, <1>15, AssetAmountType DEF SettleAmount
<1>16. CASE QuoteOffer
  <2>. DEFINE plan == [pair |-> <<fromAsset, toAsset>>, deposit |-> giveAmount]
  <2>1. fromAsset \in SwapAssetIds /\ toAsset \in SwapAssetIds
    BY <1>0, <1>16 DEF QuoteOffer, PlanBound
  <2>2. plan \in Plans
    BY <1>0, <2>1 DEF Plans
  <2>3. offer' \in {[status |-> "success", plan |-> plan], [status |-> "error", plan |-> NoPlan]}
    BY <1>16 DEF QuoteOffer
  <2>4. UNCHANGED <<swapStep, fromAsset, toAsset, amount, selectedMode, preservedPair, unitPrice,
                    holding, giveAmount, drawer, creating>>
    BY <1>16 DEF QuoteOffer
  <2>5. /\ offer' \in [status : {"idle", "loading", "success", "error"}, plan : Plans]
        /\ offer'.status # "loading" /\ (offer'.status = "success" => offer'.plan = plan)
    BY <2>2, <2>3, NothingEntered
  <2>6. PlanBound'
    BY <2>4, <2>5 DEF PlanBound
  <2>. QED
    BY <1>0, <2>4, <2>5, <2>6, EntryKept, ScreenParts
<1>17. CASE ConfirmSwap
  <2>1. UNCHANGED <<swapStep, fromAsset, toAsset, amount, selectedMode, preservedPair, unitPrice, holding,
                    giveAmount, offer, drawer>>
    BY <1>17 DEF ConfirmSwap
  <2>2. offer.plan = [pair |-> <<fromAsset, toAsset>>, deposit |-> AssetAmount]
    BY <1>0, <1>17 DEF ConfirmSwap, CanConfirm, PlanMatches, PlanBound
  <2>3. /\ creating'.plan = offer.plan /\ creating'.spendable = holding[fromAsset]
        /\ creating'.shown = [pair |-> <<fromAsset, toAsset>>, deposit |-> AssetAmount]
    BY <1>17 DEF ConfirmSwap
  <2>4. offer.plan \in Plans /\ offer.plan.deposit <= holding[fromAsset]
    BY <1>0, <1>17 DEF ConfirmSwap, CanConfirm
  <2>5. CreatedIsReviewed'
    BY <2>2, <2>3, <2>4 DEF CreatedIsReviewed
  <2>6. PlanBound' /\ PairBound' /\ EntriesOK'
    BY <1>0, <2>1, EntryKept DEF PlanBound
  <2>7. SwapScreenTypeOK'
    BY <1>0, <2>1, <2>3, <2>4 DEF SwapScreenTypeOK
  <2>. QED
    BY <2>5, <2>6, <2>7 DEF ScreenInv
<1>18. ASSUME NEW a \in SwapAssetIds, NEW h \in 0..MaxHolding, HoldingChanges(a, h) PROVE ScreenInv'
  <2>1. holding' \in [SwapAssetIds -> 0..MaxHolding]
    BY <1>0, <1>18 DEF HoldingChanges
  <2>2. UNCHANGED <<swapStep, fromAsset, toAsset, amount, selectedMode, preservedPair, unitPrice,
                    giveAmount, offer, drawer, creating>>
    BY <1>18 DEF HoldingChanges
  <2>3. PlanBound'
    BY <1>0, <2>2 DEF PlanBound
  <2>. QED
    BY <1>0, <2>1, <2>2, <2>3, EntryKept, ScreenParts
<1>. QED
  BY <1>2, <1>3, <1>5, <1>6, <1>7, <1>8, <1>10, <1>11, <1>12, <1>14, <1>15, <1>16, <1>17, <1>18
     DEF SwapScreenNext

LEMMA ScreenInvariant == SwapScreenSpec => []ScreenInv
BY ScreenInitInv, ScreenStepInv, PTL DEF SwapScreenSpec

LEMMA ShownPair == ScreenInv => PairIsShown
BY DEF ScreenInv, PairBound, PairIsShown

\* Entries, assets, quote and plan keep their types, whatever is keyed, toggled
\* and repriced.
THEOREM SwapScreenTypeCorrectness == SwapScreenSpec => []SwapScreenTypeOK
BY ScreenInvariant, PTL DEF ScreenInv

\* A preserved pair is the pair on screen, for any amounts, assets and prices.
THEOREM PreservedPairIsShown == SwapScreenSpec => []PairIsShown
BY ScreenInvariant, ShownPair, PTL

\* A swap is created from the plan that was reviewed, and can be paid for.
THEOREM SwapsAreReviewed == SwapScreenSpec => []CreatedIsReviewed
BY ScreenInvariant, PTL DEF ScreenInv

-----------------------------------------------------------------------------
(* Sending.                                                                *)

SatsSent == SendAmounts \cup Payees \cup {0, LiquidSats}

SendInfos ==
    [address : Payees \cup {Nobody}, lnUrl : Payees \cup {Nobody},
     arkAddress : [payee : Payees, uri : BOOLEAN] \cup {NoArk},
     invoice : Invoices \cup {NoInvoice}, pendingLnSend : Invoices \cup {NoInvoice},
     satoshis : SatsSent]

FormRecords ==
    [recipient : Recipients \cup {NoText}, ready : BOOLEAN, proceed : BOOLEAN, processing : BOOLEAN,
     error : BOOLEAN, fixed : BOOLEAN, lookup : Payees \cup {Nobody}, card : Payees \cup {Nobody}]

NegotiationsInFlight == [invoice : Invoices, live : BOOLEAN]

\* What an LNURL is asked for is an invoice.
FetchOK(fetch) ==
    /\ fetch \in [by : {"none", "form", "signing"}, payee : Payees \cup {Nobody}, sats : SatsSent,
                  live : BOOLEAN]
    /\ fetch.by # "none" => fetch.payee \in Payees /\ fetch.sats # 0

\* A payment in flight can be afforded.
PaymentRecords ==
    [step : {"submitted", "funded"}, kind : {"ark", "invoice", "address"}, live : BOOLEAN,
     sats : 1..BalanceSats, satoshis : SatsSent, info : SendInfos]

\* The signing screen without an error shows a payment that can be signed.
SignableOK == sendPage = "details" /\ ~ signError => ~ CannotSign(sendInfo)

SendInv ==
    /\ sendPage \in {"home", "form", "details", "success"}
    /\ sendInfo \in SendInfos /\ form \in FormRecords
    /\ FetchOK(lnurlFetch)
    /\ negotiating \subseteq NegotiationsInFlight
    /\ signing \in {"idle", "fetching", "sending", "done", "stuck"} /\ signError \in BOOLEAN
    /\ payment \in PaymentRecords \cup {NoPayment}
    /\ SignableOK

LEMMA PayeesPositive == Payees \subseteq Nat \ {0} /\ SatsSent \subseteq Nat /\ BalanceSats \in Nat
<1>1. Payees \subseteq Nat \ {0}
  BY RecipientsAssumption DEF Payees
<1>2. SendAmounts \subseteq Nat /\ BalanceSats \in Nat /\ LiquidSats \in Nat
  BY RecipientsAssumption
<1>. QED
  BY <1>1, <1>2 DEF SatsSent

LEMMA EmptyIsTyped ==
    /\ EmptySend \in SendInfos /\ FreshForm \in FormRecords /\ FetchOK(NoFetch)
    /\ NoPayment.step = "none"
BY DEF EmptySend, SendInfos, SatsSent, FreshForm, FormRecords, FetchOK, NoFetch, NoPayment, Nobody

LEMMA SendInitInv == SendInit => SendInv
BY EmptyIsTyped DEF SendInit, SendInv, SignableOK

LEMMA InvoiceOfPayee ==
    \A payee \in Payees, sats \in SatsSent \ {0} : [payee |-> payee, sats |-> sats] \in Invoices
BY DEF Invoices, SatsSent

\* A new sendInfo, with the effects that hang on it.
LEMMA UpdateKeeps ==
    ASSUME SendInv, NEW i \in SendInfos, NEW f \in FormRecords,
           NEW others \in SUBSET NegotiationsInFlight, Update(i, f, others),
           FetchOK(lnurlFetch'), payment' \in PaymentRecords \cup {NoPayment}
    PROVE  SendInv'
<1>1. sendInfo' = i /\ form' \in {FreshForm, f}
  BY DEF Update
<1>2. form' \in FormRecords
  BY <1>1, EmptyIsTyped
<1>3. Orphaned(others) \subseteq NegotiationsInFlight
  BY DEF Orphaned, NegotiationsInFlight
<1>4. /\ negotiating' \subseteq NegotiationsInFlight
      /\ sendPage' \in {"home", "form", "details", "success"}
      /\ signing' \in {"idle", "fetching", "sending", "done", "stuck"} /\ signError' \in BOOLEAN
      /\ sendPage' = "details" /\ ~ signError' => ~ CannotSign(i)
  <2>. DEFINE due == sendPage = "form" /\ f.proceed /\ HasDestination(i)
                     /\ Watched(i, f) # Watched(sendInfo, form)
              ready == i.invoice = NoInvoice \/ i.pendingLnSend # NoInvoice \/ i.arkAddress # NoArk
  <2>1. CASE due /\ ready
    <3>1. /\ negotiating' = Orphaned(others)
          /\ sendPage' = "details" /\ signing' = "idle" /\ signError' = CannotSign(i)
      BY <2>1 DEF Update
    <3>2. CannotSign(i) \in BOOLEAN
      BY DEF CannotSign
    <3>. QED
      BY <1>3, <3>1, <3>2
  <2>2. CASE due /\ ~ ready
    <3>1. /\ negotiating' = others \cup {[invoice |-> i.invoice, live |-> TRUE]}
          /\ UNCHANGED <<sendPage, signing, signError>>
      BY <2>2 DEF Update
    <3>2. i.invoice \in Invoices /\ sendPage = "form"
      BY <2>2 DEF SendInfos
    <3>3. [invoice |-> i.invoice, live |-> TRUE] \in NegotiationsInFlight
      BY <3>2 DEF NegotiationsInFlight
    <3>. QED
      BY <3>1, <3>2, <3>3 DEF SendInv
  <2>3. CASE ~ due
    <3>1. /\ negotiating' = others
          /\ signError' = (signError \/ (sendPage = "details" /\ CannotSign(i)))
          /\ UNCHANGED <<sendPage, signing>>
      BY <2>3 DEF Update
    <3>. QED
      BY <3>1 DEF SendInv
  <2>. QED
    BY <2>1, <2>2, <2>3
<1>. QED
  BY <1>1, <1>2, <1>4 DEF SendInv, SignableOK

\* What is typed, scanned or resolved is well formed.
LEMMA ParsedType ==
    ASSUME NEW r \in Recipients, NEW i \in SendInfos
    PROVE  Parsed(r, i) \in SendInfos
<1>1. r.payee \in Payees /\ r.payee \in SatsSent \ {0}
  BY PayeesPositive DEF Payees, SatsSent
<1>2. [payee |-> r.payee, uri |-> FALSE] \in [payee : Payees, uri : BOOLEAN]
  BY <1>1
<1>3. [payee |-> r.payee, sats |-> r.payee] \in Invoices
  BY <1>1, InvoiceOfPayee
<1>4. \A inv : KeepQuote(i, inv) \in Invoices \cup {NoInvoice}
  BY DEF KeepQuote, SendInfos
<1>5. CASE r.kind \in {"ark", "btc", "lnurl"}
  BY <1>1, <1>2, <1>5 DEF Parsed, SendInfos
<1>6. CASE r.kind = "invoice"
  BY <1>1, <1>3, <1>4, <1>6 DEF Parsed, SendInfos
<1>7. CASE r.kind = "bip21"
  BY <1>1, <1>2, <1>4, <1>7 DEF Parsed, SendInfos
<1>8. CASE r.kind \notin {"ark", "btc", "lnurl", "invoice", "bip21"}
  BY <1>8 DEF Parsed
<1>. QED
  BY <1>5, <1>6, <1>7, <1>8

LEMMA OnRailType ==
    ASSUME NEW i \in SendInfos, NEW payee \in Payees, NEW rail \in Rails
    PROVE  OnRail(i, payee, rail) \in SendInfos
<1>1. \A uri \in BOOLEAN : [payee |-> payee, uri |-> uri] \in [payee : Payees, uri : BOOLEAN]
  OBVIOUS
<1>2. CASE rail = "Lightning"
  BY <1>2 DEF OnRail, SendInfos
<1>3. CASE rail = "Onchain"
  BY <1>3 DEF OnRail, SendInfos
<1>4. CASE rail = "Ark"
  BY <1>1, <1>4 DEF OnRail, SendInfos
<1>5. CASE rail = "Ark URI"
  BY <1>1, <1>5 DEF OnRail, SendInfos
<1>. QED
  BY <1>2, <1>3, <1>4, <1>5 DEF Rails

LEMMA LookupType ==
    ASSUME NEW f \in FormRecords, NEW sats
    PROVE  Lookup(f, sats) \in FormRecords
<1>1. f.recipient.kind = "alias" => f.recipient.payee \in Payees
  BY DEF FormRecords, NoText, Payees
<1>. QED
  BY <1>1 DEF Lookup, FormRecords

\* The form changes and nothing else does.
LEMMA FormKeeps ==
    ASSUME SendInv, form' \in FormRecords, FetchOK(lnurlFetch'), payment' \in PaymentRecords \cup {NoPayment},
           negotiating' \subseteq NegotiationsInFlight,
           UNCHANGED <<sendPage, sendInfo, signing, signError>>
    PROVE  SendInv'
BY DEF SendInv, SignableOK, CannotSign, SendTotal

LEMMA FormErrorType ==
    ASSUME SendInv, NEW live \in BOOLEAN, FormError(live)
    PROVE  form' \in FormRecords
BY DEF FormError, SendInv, FormRecords

\* Leaving a screen: what still runs no longer reaches it.
LEMMA NavigationStep ==
    ASSUME SendInv, OpenSend \/ GoBack \/ LeaveSuccess
    PROVE  SendInv'
<1>1. CASE OpenSend
  BY <1>1, EmptyIsTyped DEF OpenSend, SendInv, SignableOK
<1>2. CASE LeaveSuccess
  BY <1>2 DEF LeaveSuccess, SendInv, SignableOK
<1>3. CASE GoBack
  <2>1. sendPage' \in {"home", "form", "details"} /\ (sendPage' = "details" => sendPage = "success")
    BY <1>3 DEF GoBack, SendInv
  <2>2. /\ form' = FreshForm /\ signing' = "idle" /\ sendInfo' = sendInfo
        /\ signError' = (sendPage = "success" /\ CannotSign(sendInfo))
    BY <1>3 DEF GoBack
  <2>3. negotiating' \subseteq NegotiationsInFlight
    BY <1>3 DEF GoBack, Orphaned, NegotiationsInFlight, SendInv
  <2>4. FetchOK(lnurlFetch')
    BY <1>3 DEF GoBack, FetchOK, SendInv
  <2>5. payment' \in PaymentRecords \cup {NoPayment}
    <3>1. CASE payment = NoPayment
      BY <1>3, <3>1 DEF GoBack
    <3>2. CASE payment \in PaymentRecords /\ payment # NoPayment
      BY <1>3, <3>2 DEF GoBack, PaymentRecords
    <3>. QED
      BY <3>1, <3>2 DEF SendInv
  <2>6. SignableOK'
    BY <2>1, <2>2 DEF SignableOK, CannotSign, SendTotal
  <2>7. signError' \in BOOLEAN
    BY <2>2
  <2>. QED
    BY <2>1, <2>2, <2>3, <2>4, <2>5, <2>6, <2>7, EmptyIsTyped DEF SendInv
<1>. QED
  BY <1>1, <1>2, <1>3

\* The form's own steps.
LEMMA FormStep ==
    ASSUME SendInv,
           \/ ParseRecipient \/ LookupFails \/ Continue \/ LnurlAnswers \/ LnurlFails \/ SendAll
           \/ \E r \in Recipients : TypeRecipient(r)
           \/ \E v \in SendAmounts : TypeAmount(v)
           \/ \E rail \in Rails : LookupAnswers(rail) \/ SelectRail(rail)
           \/ \E n \in negotiating : QuoteLands(n) \/ NegotiationFails(n)
    PROVE  SendInv'
<1>0. /\ sendInfo \in SendInfos /\ form \in FormRecords
      /\ FetchOK(lnurlFetch) /\ payment \in PaymentRecords \cup {NoPayment} /\ negotiating \in SUBSET NegotiationsInFlight
  BY DEF SendInv
<1>1. CASE ParseRecipient
  <2>. DEFINE i == Parsed(form.recipient, sendInfo)
              f == Lookup([form EXCEPT !.ready = (form.recipient.kind # "nonsense"),
                                       !.fixed = @ \/ form.recipient.kind = "invoice"], i.satoshis)
  <2>1. form.recipient \in Recipients
    BY <1>0, <1>1 DEF ParseRecipient, FormRecords
  <2>2. i \in SendInfos
    BY <1>0, <2>1, ParsedType
  <2>3. [form EXCEPT !.ready = (form.recipient.kind # "nonsense"),
                     !.fixed = @ \/ form.recipient.kind = "invoice"] \in FormRecords
    BY <1>0 DEF FormRecords
  <2>4. f \in FormRecords
    BY <2>3, LookupType
  <2>5. Update(i, f, negotiating) /\ UNCHANGED <<lnurlFetch, payment>>
    BY <1>1 DEF ParseRecipient
  <2>. HIDE DEF i, f
  <2>. QED
    BY <1>0, <2>2, <2>4, <2>5, UpdateKeeps
<1>2. CASE LookupFails
  <2>1. form' \in FormRecords
    BY <1>0, <1>2 DEF LookupFails, FormRecords
  <2>. QED
    BY <1>0, <1>2, <2>1, FormKeeps DEF LookupFails
<1>3. CASE Continue
  <2>1. CASE sendInfo.lnUrl # Nobody
    <3>1. /\ lnurlFetch' = [by |-> "form", payee |-> sendInfo.lnUrl, sats |-> sendInfo.satoshis, live |-> TRUE]
          /\ form' = [form EXCEPT !.processing = TRUE]
          /\ UNCHANGED <<sendPage, sendInfo, negotiating, signing, signError, payment>>
      BY <1>3, <2>1 DEF Continue
    <3>2. sendInfo.lnUrl \in Payees /\ sendInfo.satoshis \in SatsSent /\ sendInfo.satoshis # 0
      BY <1>0, <1>3, <2>1 DEF Continue, CanContinue, SendInfos
    <3>3. FetchOK(lnurlFetch')
      BY <3>1, <3>2 DEF FetchOK
    <3>4. form' \in FormRecords
      BY <1>0, <3>1 DEF FormRecords
    <3>. QED
      BY <1>0, <3>1, <3>3, <3>4, FormKeeps
  <2>2. CASE sendInfo.lnUrl = Nobody
    <3>1. [form EXCEPT !.processing = TRUE, !.proceed = TRUE] \in FormRecords
      BY <1>0 DEF FormRecords
    <3>2. /\ Update(sendInfo, [form EXCEPT !.processing = TRUE, !.proceed = TRUE], negotiating)
          /\ UNCHANGED <<lnurlFetch, payment>>
      BY <1>3, <2>2 DEF Continue
    <3>. QED
      BY <1>0, <3>1, <3>2, UpdateKeeps
  <2>. QED
    BY <2>1, <2>2
<1>4. CASE LnurlAnswers
  <2>. DEFINE inv == [payee |-> lnurlFetch.payee, sats |-> lnurlFetch.sats]
              f == IF lnurlFetch.live THEN [form EXCEPT !.proceed = TRUE] ELSE form
              arkade == [sendInfo EXCEPT !.arkAddress = [payee |-> lnurlFetch.payee, uri |-> FALSE],
                                         !.invoice = NoInvoice, !.pendingLnSend = NoInvoice]
              lightning == [sendInfo EXCEPT !.arkAddress = NoArk, !.invoice = inv,
                                            !.pendingLnSend = KeepQuote(sendInfo, inv)]
  <2>1. lnurlFetch.payee \in Payees /\ inv \in Invoices
    BY <1>0, <1>4, InvoiceOfPayee DEF LnurlAnswers, FetchOK
  <2>2. f \in FormRecords
    BY <1>0 DEF FormRecords
  <2>3. [payee |-> lnurlFetch.payee, uri |-> FALSE] \in [payee : Payees, uri : BOOLEAN]
    BY <2>1
  <2>4. KeepQuote(sendInfo, inv) \in Invoices \cup {NoInvoice}
    BY <1>0 DEF KeepQuote, SendInfos
  <2>5. arkade \in SendInfos
    BY <1>0, <2>3 DEF SendInfos
  <2>6. lightning \in SendInfos
    <3>. HIDE DEF inv
    <3>. QED
      BY <1>0, <2>1, <2>4 DEF SendInfos
  <2>7. Update(arkade, f, negotiating) \/ Update(lightning, f, negotiating)
    BY <1>4 DEF LnurlAnswers
  <2>8. FetchOK(lnurlFetch') /\ payment' \in PaymentRecords \cup {NoPayment}
    BY <1>0, <1>4, EmptyIsTyped DEF LnurlAnswers
  <2>. HIDE DEF arkade, lightning, f
  <2>. QED
    BY <1>0, <2>2, <2>5, <2>6, <2>7, <2>8, UpdateKeeps
<1>5. CASE LnurlFails
  <2>1. lnurlFetch.live \in BOOLEAN
    BY <1>0 DEF FetchOK
  <2>2. form' \in FormRecords
    BY <1>5, <2>1, FormErrorType DEF LnurlFails
  <2>. QED
    BY <1>0, <1>5, <2>2, FormKeeps, EmptyIsTyped DEF LnurlFails
<1>6. ASSUME NEW r \in Recipients, TypeRecipient(r) PROVE SendInv'
  <2>1. [form EXCEPT !.recipient = r, !.ready = FALSE] \in FormRecords
    BY <1>0 DEF FormRecords
  <2>2. form' \in FormRecords
    BY <1>6, <2>1, LookupType DEF TypeRecipient
  <2>. QED
    BY <1>0, <1>6, <2>2, FormKeeps DEF TypeRecipient
<1>7. ASSUME NEW v \in SendAmounts, TypeAmount(v) PROVE SendInv'
  <2>1. [sendInfo EXCEPT !.satoshis = v] \in SendInfos
    BY <1>0 DEF SendInfos, SatsSent
  <2>2. Lookup(form, v) \in FormRecords
    BY <1>0, LookupType
  <2>3. Update([sendInfo EXCEPT !.satoshis = v], Lookup(form, v), negotiating) /\ UNCHANGED <<lnurlFetch, payment>>
    BY <1>7 DEF TypeAmount
  <2>. QED
    BY <1>0, <2>1, <2>2, <2>3, UpdateKeeps
<1>12. CASE SendAll
  <2>1. [sendInfo EXCEPT !.satoshis = LiquidSats] \in SendInfos
    BY <1>0 DEF SendInfos, SatsSent
  <2>2. Lookup(form, LiquidSats) \in FormRecords
    BY <1>0, LookupType
  <2>3. /\ Update([sendInfo EXCEPT !.satoshis = LiquidSats], Lookup(form, LiquidSats), negotiating)
        /\ UNCHANGED <<lnurlFetch, payment>>
    BY <1>12 DEF SendAll
  <2>. QED
    BY <1>0, <2>1, <2>2, <2>3, UpdateKeeps
<1>8. ASSUME NEW rail \in Rails, LookupAnswers(rail) PROVE SendInv'
  <2>. DEFINE f == [form EXCEPT !.lookup = Nobody, !.card = form.lookup]
  <2>1. form.lookup \in Payees
    BY <1>0, <1>8 DEF LookupAnswers, FormRecords
  <2>2. f \in FormRecords
    BY <1>0, <2>1 DEF FormRecords
  <2>3. OnRail(sendInfo, form.lookup, rail) \in SendInfos
    BY <1>0, <2>1, OnRailType
  <2>4. Update(OnRail(sendInfo, form.lookup, rail), f, negotiating) /\ UNCHANGED <<lnurlFetch, payment>>
    BY <1>8 DEF LookupAnswers
  <2>. HIDE DEF f
  <2>. QED
    BY <1>0, <2>2, <2>3, <2>4, UpdateKeeps
<1>9. ASSUME NEW rail \in Rails, SelectRail(rail) PROVE SendInv'
  <2>1. form.card \in Payees
    BY <1>0, <1>9 DEF SelectRail, FormRecords
  <2>2. OnRail(sendInfo, form.card, rail) \in SendInfos
    BY <1>0, <2>1, OnRailType
  <2>3. Update(OnRail(sendInfo, form.card, rail), form, negotiating) /\ UNCHANGED <<lnurlFetch, payment>>
    BY <1>9 DEF SelectRail
  <2>. QED
    BY <1>0, <2>2, <2>3, UpdateKeeps
<1>10. ASSUME NEW n \in negotiating, QuoteLands(n) PROVE SendInv'
  <2>1. n.invoice \in Invoices
    BY <1>0 DEF NegotiationsInFlight
  <2>2. [sendInfo EXCEPT !.pendingLnSend = n.invoice] \in SendInfos
    BY <1>0, <2>1 DEF SendInfos
  <2>3. /\ Update([sendInfo EXCEPT !.pendingLnSend = n.invoice], form, negotiating \ {n})
        /\ UNCHANGED <<lnurlFetch, payment>>
    BY <1>10 DEF QuoteLands
  <2>4. negotiating \ {n} \in SUBSET NegotiationsInFlight
    BY <1>0
  <2>. QED
    BY <1>0, <2>2, <2>3, <2>4, UpdateKeeps
<1>11. ASSUME NEW n \in negotiating, NegotiationFails(n) PROVE SendInv'
  <2>1. n.live \in BOOLEAN
    BY <1>0 DEF NegotiationsInFlight
  <2>2. form' \in FormRecords
    BY <1>11, <2>1, FormErrorType DEF NegotiationFails
  <2>. QED
    BY <1>0, <1>11, <2>2, FormKeeps DEF NegotiationFails
<1>. QED
  BY <1>1, <1>2, <1>3, <1>4, <1>5, <1>6, <1>7, <1>8, <1>9, <1>10, <1>11, <1>12

\* Signing: the error a screen would have shown keeps what is not covered back.
LEMMA SignStep == SendInv /\ SignSend => SendInv'
<1>. SUFFICES ASSUME SendInv, SignSend PROVE SendInv'
  OBVIOUS
<1>0. sendPage = "details" /\ ~ signError /\ ~ CannotSign(sendInfo)
  BY DEF SignSend, SendInv, SignableOK
<1>1. sendInfo \in SendInfos
  BY DEF SendInv
<1>2. UNCHANGED <<sendPage, sendInfo, form, negotiating>>
  BY DEF SignSend
<1>4. CASE /\ SignBranch(sendInfo) = "lnurl"
           /\ lnurlFetch' = [by |-> "signing", payee |-> sendInfo.lnUrl, sats |-> sendInfo.satoshis, live |-> TRUE]
           /\ signing' = "fetching" /\ UNCHANGED <<payment, signError>>
  <2>1. sendInfo.lnUrl # Nobody
    BY <1>4 DEF SignBranch
  <2>2. sendInfo.lnUrl \in Payees /\ sendInfo.satoshis \in SatsSent /\ sendInfo.satoshis # 0
    BY <1>0, <1>1, <2>1 DEF SendInfos, CannotSign
  <2>3. FetchOK(lnurlFetch')
    BY <1>4, <2>2 DEF FetchOK
  <2>. QED
    BY <1>0, <1>2, <1>4, <2>3 DEF SendInv, SignableOK
<1>5. CASE /\ SignBranch(sendInfo) \in {"ark", "invoice", "address"}
           /\ signing' = "sending"
           /\ payment' = [step |-> "submitted", kind |-> SignBranch(sendInfo), live |-> TRUE,
                sats |-> SendTotal(sendInfo), satoshis |-> sendInfo.satoshis, info |-> sendInfo]
           /\ UNCHANGED <<signError, lnurlFetch>>
  <2>1. sendInfo.satoshis \in SatsSent /\ sendInfo.satoshis # 0
    BY <1>0, <1>1 DEF SendInfos, CannotSign
  <2>2. sendInfo.pendingLnSend # NoInvoice => sendInfo.pendingLnSend.sats \in SatsSent \ {0}
    BY <1>1 DEF SendInfos, Invoices, SatsSent
  <2>3. SendTotal(sendInfo) \in Nat \ {0}
    BY <2>1, <2>2, PayeesPositive DEF SendTotal
  <2>4. SendTotal(sendInfo) \in 1..BalanceSats
    BY <1>0, <2>3, PayeesPositive DEF CannotSign
  <2>5. payment' \in PaymentRecords
    BY <1>1, <1>5, <2>1, <2>4 DEF PaymentRecords
  <2>. QED
    BY <1>0, <1>2, <1>5, <2>5 DEF SendInv, SignableOK
<1>6. CASE /\ signing' \in {"done", "stuck"} /\ signError' \in {signError, TRUE}
           /\ UNCHANGED <<payment, lnurlFetch>>
  BY <1>0, <1>2, <1>6 DEF SendInv, SignableOK
<1>. QED
  BY <1>4, <1>5, <1>6 DEF SignSend

LEMMA SigningStep ==
    ASSUME SendInv,
           InvoiceForSigning \/ LockupFunded \/ PaymentSucceeds \/ PaymentFails \/ ExitComplete
    PROVE  SendInv'
<1>0. /\ sendInfo \in SendInfos /\ form \in FormRecords /\ FetchOK(lnurlFetch)
      /\ payment \in PaymentRecords \cup {NoPayment} /\ negotiating \in SUBSET NegotiationsInFlight
  BY DEF SendInv
<1>1. CASE InvoiceForSigning
  <2>. DEFINE i == [sendInfo EXCEPT !.invoice = [payee |-> lnurlFetch.payee, sats |-> lnurlFetch.sats]]
  <2>1. [payee |-> lnurlFetch.payee, sats |-> lnurlFetch.sats] \in Invoices
    BY <1>0, <1>1, InvoiceOfPayee DEF InvoiceForSigning, FetchOK
  <2>2. i \in SendInfos
    BY <1>0, <2>1 DEF SendInfos
  <2>3. FetchOK(lnurlFetch') /\ payment' \in PaymentRecords \cup {NoPayment}
    BY <1>0, <1>1, EmptyIsTyped DEF InvoiceForSigning
  <2>4. CASE Update(i, form, negotiating)
    <3>. HIDE DEF i
    <3>. QED
      BY <1>0, <2>2, <2>3, <2>4, UpdateKeeps
  <2>5. CASE /\ sendInfo' = i /\ signing' = "idle" /\ signError' = (signError \/ CannotSign(i))
             /\ UNCHANGED <<sendPage, form, negotiating>>
    <3>. HIDE DEF i
    <3>. QED
      BY <2>2, <2>3, <2>5 DEF SendInv, SignableOK
  <2>6. CASE /\ signError' = (signError \/ lnurlFetch.live)
             /\ signing' = IF lnurlFetch.live THEN "done" ELSE signing
             /\ UNCHANGED <<sendPage, sendInfo, form, negotiating>>
    BY <2>3, <2>6 DEF SendInv, SignableOK, CannotSign, SendTotal
  <2>. QED
    BY <1>1, <2>4, <2>5, <2>6 DEF InvoiceForSigning
<1>2. CASE LockupFunded
  <2>1. payment \in PaymentRecords
    BY <1>0, <1>2, EmptyIsTyped DEF LockupFunded
  <2>2. payment' \in PaymentRecords
    BY <1>2, <2>1 DEF LockupFunded, PaymentRecords
  <2>. QED
    BY <1>2, <2>2 DEF LockupFunded, SendInv, SignableOK, CannotSign, SendTotal
<1>3. CASE PaymentSucceeds
  <2>1. payment.info \in SendInfos
    BY <1>0, <1>3, EmptyIsTyped DEF PaymentSucceeds, PaymentRecords
  <2>2. payment' = NoPayment /\ UNCHANGED lnurlFetch
    BY <1>3 DEF PaymentSucceeds
  <2>3. CASE /\ sendInfo' = payment.info /\ signing' = "done"
             /\ signError' \in {signError \/ CannotSign(payment.info), TRUE}
             /\ UNCHANGED <<sendPage, form, negotiating>>
    <3>1. signError' \in BOOLEAN /\ (CannotSign(sendInfo') => signError')
      BY <2>3
    <3>2. CannotSign(sendInfo') <=> CannotSign(sendInfo)'
      BY DEF CannotSign, SendTotal
    <3>. QED
      BY <2>1, <2>2, <2>3, <3>1, <3>2 DEF SendInv, SignableOK
  <2>4. CASE Update(payment.info, form, negotiating)
    BY <1>0, <2>1, <2>2, <2>4, UpdateKeeps
  <2>. QED
    BY <1>3, <2>3, <2>4 DEF PaymentSucceeds
<1>4. CASE PaymentFails
  <2>1. payment.live \in BOOLEAN
    BY <1>0, <1>4, EmptyIsTyped DEF PaymentFails, PaymentRecords
  <2>. QED
    BY <1>4, <2>1 DEF PaymentFails, SendInv, SignableOK, CannotSign, SendTotal
<1>5. CASE ExitComplete
  BY <1>5 DEF ExitComplete, SendInv, SignableOK, CannotSign, SendTotal
<1>. QED
  BY <1>1, <1>2, <1>3, <1>4, <1>5

LEMMA SendStepInv == SendInv /\ [SendNext]_sendVars => SendInv'
<1>. SUFFICES ASSUME SendInv, [SendNext]_sendVars PROVE SendInv'
  OBVIOUS
<1>1. CASE UNCHANGED sendVars
  BY <1>1 DEF sendVars, SendInv, SignableOK, CannotSign, SendTotal
<1>2. CASE SendNext
  BY <1>2, NavigationStep, FormStep, SignStep, SigningStep DEF SendNext
<1>. QED
  BY <1>1, <1>2

LEMMA SendInvariant == SendSpec => []SendInv
BY SendInitInv, SendStepInv, PTL DEF SendSpec

LEMMA SendTypes == SendInv => SendTypeOK
<1>. SUFFICES ASSUME SendInv PROVE SendTypeOK
  OBVIOUS
<1>1. /\ form.recipient \in Recipients \cup {NoText}
      /\ form.lookup \in Payees \cup {Nobody} /\ form.card \in Payees \cup {Nobody}
  BY DEF SendInv, FormRecords
<1>2. lnurlFetch.by \in {"none", "form", "signing"} /\ lnurlFetch.payee \in Payees \cup {Nobody}
  BY DEF SendInv, FetchOK
<1>3. \A n \in negotiating : n.invoice \in Invoices /\ n.live \in BOOLEAN
  BY DEF SendInv, NegotiationsInFlight
<1>4. payment.step \in {"none", "submitted", "funded"}
  BY EmptyIsTyped DEF SendInv, PaymentRecords
<1>. QED
  BY <1>1, <1>2, <1>3, <1>4 DEF SendInv, SendInfos, SatsSent, SendTypeOK

LEMMA CoveredPayments == SendInv => PaidIsCovered
BY DEF SendInv, PaidIsCovered, PaymentRecords

\* What is being sent, the form and the signing screen keep their types.
THEOREM SendTypeCorrect == SendSpec => []SendTypeOK
BY SendInvariant, SendTypes, PTL

\* A payment submitted is covered by the balance, for any recipients, amounts,
\* late quotes, LNURL answers and returns from one screen to another.
THEOREM PaymentsAreCovered == SendSpec => []PaidIsCovered
BY SendInvariant, CoveredPayments, PTL

-----------------------------------------------------------------------------
(* The composed wallet.  What was proved of each part holds in it: a step  *)
(* of WalletApp is a step of one part and leaves the others as they are,   *)
(* so that the parts' inductive invariants together are one of it.         *)

WalletAppInv ==
    /\ focus \in Parts
    /\ LnReceiveInv /\ LnSendInv /\ SwapInv
    /\ WInv /\ SatsPathTypeOK /\ QuoteInv
    /\ RecvInv /\ SendInv /\ ScreenInv

-----------------------------------------------------------------------------
\* A step of the wallet is, for each part, a step of its own or none.
LEMMA PartsStep ==
    ASSUME [WalletAppNext]_walletAppVars
    PROVE  /\ [ReceiveNext]_receiveVars /\ [LnSendNext]_lnSendVars /\ [SwapNext]_swapVars
           /\ [WalletNext]_walletVars /\ [SatsPathNext]_satsPathVars /\ [QuoteNext]_quoteVars
           /\ [RecvNext]_recvVars /\ [SendNext]_sendVars /\ [SwapScreenNext]_swapScreenVars
           /\ UNCHANGED focus
<1>1. CASE UNCHANGED walletAppVars
  BY <1>1 DEF walletAppVars
<1>2. CASE WalletAppNext
  BY <1>2 DEF WalletAppNext, OnlyMoves
<1>. QED
  BY <1>1, <1>2

LEMMA WalletAppInitInv == WalletAppInit => WalletAppInv
BY LnReceiveInit, LnSendInitInv, SwapInitInv, WalletInitInv, SatsPathInitType, InitQuotes,
   RecvInitInv, SendInitInv, ScreenInitInv
   DEF WalletAppInit, WalletAppInv

LEMMA WalletAppStepInv == WalletAppInv /\ [WalletAppNext]_walletAppVars => WalletAppInv'
<1>. SUFFICES ASSUME WalletAppInv, [WalletAppNext]_walletAppVars PROVE WalletAppInv'
  OBVIOUS
<1>1. LnReceiveInv' /\ LnSendInv' /\ SwapInv'
  BY PartsStep, LnReceiveStep, LnSendStep, SwapStepInv DEF WalletAppInv
<1>2. WInv' /\ SatsPathTypeOK' /\ QuoteInv'
  BY PartsStep, WalletStepInv, SatsPathStepType, StepQuotes DEF WalletAppInv
<1>3. RecvInv' /\ SendInv' /\ ScreenInv'
  BY PartsStep, RecvStepInv, SendStepInv, ScreenStepInv DEF WalletAppInv
<1>4. focus' \in Parts
  BY PartsStep DEF WalletAppInv
<1>. QED
  BY <1>1, <1>2, <1>3, <1>4 DEF WalletAppInv

LEMMA WalletAppInvariant == WalletAppSpec => []WalletAppInv
BY WalletAppInitInv, WalletAppStepInv, PTL DEF WalletAppSpec

-----------------------------------------------------------------------------
\* Every variable of the wallet keeps its type, in any interleaving of its parts.
THEOREM WalletAppTypeCorrectness == WalletAppSpec => []WalletAppTypeOK
<1>1. WalletAppInv => WalletAppTypeOK
  BY ReceivesAreSafe, SendTypes
  DEF WalletAppInv, WalletAppTypeOK, LnSendInv, SwapInv, WInv, QuoteInv, RecvInv, ScreenInv
<1>. QED
  BY <1>1, WalletAppInvariant, PTL

\* What the providers promise of the records that tabs, managers and awaits
\* share holds in the wallet as a whole.
THEOREM WalletAppKeepsRecords ==
    WalletAppSpec => [](OneDriver /\ AdmittedIsKnown /\ DrivenIsStored /\ OfferOutcomeIsTrue)
<1>1. WalletAppInv => OneDriver /\ AdmittedIsKnown /\ DrivenIsStored /\ OfferOutcomeIsTrue
  BY ReceivesAreSafe, OffersAreTrue DEF WalletAppInv, LnSendInv
<1>. QED
  BY <1>1, WalletAppInvariant, PTL

\* In the wallet as a whole: a locked wallet stays shut, an invoice that is shown
\* is monitored, the code follows the amount, a payment is within the balance, a
\* swap is the one reviewed and a quote is recent.
THEOREM WalletAppShowsTheTruth ==
    WalletAppSpec => []( /\ LockedIsShut
                         /\ ShownIsMonitored /\ CodeFitsAmount /\ PaidIsCovered
                         /\ PairIsShown /\ CreatedIsReviewed /\ QuotedIsRecent )
<1>1. WalletAppInv => /\ LockedIsShut
                      /\ ShownIsMonitored /\ CodeFitsAmount /\ PaidIsCovered
                      /\ PairIsShown /\ CreatedIsReviewed /\ QuotedIsRecent
  BY LockedStaysShut, ShownInvoices, CoveredPayments, ShownPair, RoutedRecently
  DEF WalletAppInv, RecvInv, ScreenInv
<1>. QED
  BY <1>1, WalletAppInvariant, PTL
=============================================================================
