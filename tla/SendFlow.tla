------------------------------ MODULE SendFlow ------------------------------
\* Sending sats: the form (wallet/src/screens/Wallet/Send/Form.tsx), where a
\* recipient is parsed, an alias resolved and an invoice negotiated, and the
\* signing screen (Send/Details.tsx). What is being sent, sendInfo, lives in the
\* flow context: it outlives both screens, and promises of a screen that is gone
\* still write it. Asset sends and the limits of LNURLs are left out.
EXTENDS Naturals, FiniteSets

CONSTANTS Recipients,     \* what can be typed or scanned: [kind, payee]
          SendAmounts,    \* amounts the user types
          LiquidSats,     \* what the form lets out
          BalanceSats,    \* what the signing screen lets out
          MaxInFlight     \* bound: negotiations and payments in flight at once

Kinds == {"ark", "btc", "invoice", "lnurl", "alias", "bip21", "nonsense"}

ASSUME RecipientsAssumption ==
  /\ \A r \in Recipients : r.kind \in Kinds /\ r.payee \in Nat \ {0}
  /\ SendAmounts \subseteq Nat
  /\ {LiquidSats, BalanceSats} \subseteq Nat

VARIABLES
  sendPage,     \* home, form, details or success
  sendInfo,
  form,         \* the state of the form on screen
  lnurlFetch,   \* the LNURL request the form or the signing screen awaits (bound: one)
  negotiating,  \* negotiations in flight, and whether their form is on screen
  signing,      \* idle, fetching, sending, done (its animation ends), stuck
  signError,    \* the signing screen shows an error, which nothing clears
  payment       \* the payment in flight (bound: one), with the amount shown for
                \* it and the sendInfo it was signed with

sendVars == <<sendPage, sendInfo, form, lnurlFetch, negotiating, signing, signError, payment>>

Nobody == 0
NoArk == [payee |-> Nobody, uri |-> FALSE]
NoInvoice == [payee |-> Nobody, sats |-> 0]
EmptySend == [address |-> Nobody, arkAddress |-> NoArk, invoice |-> NoInvoice,
              lnUrl |-> Nobody, satoshis |-> 0, pendingLnSend |-> NoInvoice]
NoText == [kind |-> "empty", payee |-> Nobody]
FreshForm == [recipient |-> NoText, ready |-> FALSE, proceed |-> FALSE, processing |-> FALSE,
              error |-> FALSE, fixed |-> FALSE, lookup |-> Nobody, card |-> Nobody]
NoFetch == [by |-> "none", payee |-> Nobody, sats |-> 0, live |-> FALSE]
NoPayment == [step |-> "none"]

Payees == {r.payee : r \in Recipients}
Invoices == [payee : Payees, sats : (SendAmounts \cup Payees \cup {LiquidSats}) \ {0}]

SendTypeOK ==
  /\ sendPage \in {"home", "form", "details", "success"}
  /\ sendInfo \in [address : Payees \cup {Nobody}, lnUrl : Payees \cup {Nobody},
       arkAddress : [payee : Payees, uri : BOOLEAN] \cup {NoArk},
       invoice : Invoices \cup {NoInvoice}, pendingLnSend : Invoices \cup {NoInvoice},
       satoshis : SendAmounts \cup Payees \cup {0, LiquidSats}]
  /\ form.recipient \in Recipients \cup {NoText}
  /\ form.lookup \in Payees \cup {Nobody} /\ form.card \in Payees \cup {Nobody}
  /\ lnurlFetch.by \in {"none", "form", "signing"} /\ lnurlFetch.payee \in Payees \cup {Nobody}
  /\ \A n \in negotiating : n.invoice \in Invoices /\ n.live \in BOOLEAN
  /\ signing \in {"idle", "fetching", "sending", "done", "stuck"}
  /\ signError \in BOOLEAN
  /\ payment.step \in {"none", "submitted", "funded"}

SendInit ==
  /\ sendPage = "home"
  /\ sendInfo = EmptySend
  /\ form = FreshForm
  /\ lnurlFetch = NoFetch
  /\ negotiating = {}
  /\ signing = "idle" /\ signError = FALSE /\ payment = NoPayment

-----------------------------------------------------------------------------
HasDestination(i) == i.address # Nobody \/ i.arkAddress # NoArk \/ i.invoice # NoInvoice

\* The errors of the signing screen for what is being sent.
SendTotal(i) == IF i.pendingLnSend # NoInvoice THEN i.pendingLnSend.sats ELSE i.satoshis
\* Fault: the balance is compared with the amount shown.
CannotSignShown(i) ==
  (~ HasDestination(i) /\ i.lnUrl = Nobody) \/ i.satoshis = 0 \/ BalanceSats < i.satoshis

CannotSign(i) ==
  \/ ~ HasDestination(i) /\ i.lnUrl = Nobody
  \/ i.satoshis = 0
  \/ BalanceSats < SendTotal(i)

\* The form is left: its negotiations no longer reach its state.
Orphaned(ns) == {[n EXCEPT !.live = FALSE] : n \in ns}

\* The fields the proceed effect depends on.
Watched(i, f) == <<f.proceed, i.address, i.arkAddress, i.invoice, i.pendingLnSend>>

\* Negotiations and payments under way, of screens that are gone too.
InFlight(ns) == Cardinality(ns) + (IF payment = NoPayment THEN 0 ELSE 1)

\* setSendInfo, with the effects that hang on it: once Continue was pressed the
\* form goes on to the signing screen, or negotiates an invoice that has no
\* quote yet; the signing screen works out its details again. "others" are the
\* negotiations that stay in flight.
Update(i, f, others) ==
  LET due == sendPage = "form" /\ f.proceed /\ HasDestination(i)
             /\ Watched(i, f) # Watched(sendInfo, form)
      ready == i.invoice = NoInvoice \/ i.pendingLnSend # NoInvoice \/ i.arkAddress # NoArk
  IN
  /\ sendInfo' = i
  /\ \/ /\ due /\ ready
        /\ sendPage' = "details" /\ signing' = "idle" /\ signError' = CannotSign(i)
        /\ form' = FreshForm
        /\ negotiating' = Orphaned(others)
     \/ /\ due /\ ~ ready
        /\ InFlight(others) < MaxInFlight
        /\ negotiating' = others \cup {[invoice |-> i.invoice, live |-> TRUE]}
        /\ form' = f
        /\ UNCHANGED <<sendPage, signing, signError>>
     \/ /\ ~ due
        /\ negotiating' = others
        /\ form' = f
        /\ signError' = (signError \/ (sendPage = "details" /\ CannotSign(i)))
        /\ UNCHANGED <<sendPage, signing>>

\* The alias effect: what it looks up, and the quote it drops, when the
\* recipient or the amount changes.
Lookup(f, sats) ==
  LET asks == f.recipient.kind = "alias" /\ sats > 0 IN
  [f EXCEPT !.lookup = IF asks THEN f.recipient.payee ELSE Nobody,
            !.card = IF asks THEN @ ELSE Nobody]

\* A quote survives only the invoice it was made for.
KeepQuote(i, invoice) == IF invoice = i.invoice THEN i.pendingLnSend ELSE NoInvoice

-----------------------------------------------------------------------------
OpenSend ==
  /\ sendPage = "home"
  /\ sendPage' = "form"
  /\ sendInfo' = EmptySend
  /\ form' = FreshForm
  /\ UNCHANGED <<lnurlFetch, negotiating, signing, signError, payment>>

\* Back, by the header or the browser. The form returns empty, but sendInfo stays.
GoBack ==
  /\ sendPage # "home"
  /\ sendPage' = CASE sendPage = "form" -> "home" [] sendPage = "details" -> "form"
                   [] sendPage = "success" -> "details"
  /\ form' = FreshForm
  /\ signing' = "idle" /\ signError' = (sendPage = "success" /\ CannotSign(sendInfo))
  /\ negotiating' = Orphaned(negotiating)
  /\ lnurlFetch' = [lnurlFetch EXCEPT !.live = FALSE]
  /\ payment' = IF payment = NoPayment THEN payment ELSE [payment EXCEPT !.live = FALSE]
  /\ UNCHANGED sendInfo

TypeRecipient(r) ==
  /\ sendPage = "form" /\ r # form.recipient
  /\ form' = Lookup([form EXCEPT !.recipient = r, !.ready = FALSE], sendInfo.satoshis)
  /\ UNCHANGED <<sendPage, sendInfo, lnurlFetch, negotiating, signing, signError, payment>>

\* parseRecipient: each kind writes its own field and leaves the others. A
\* BIP21 code is taken to name an address and an Ark address.
Parsed(r, i) ==
  CASE r.kind = "ark"     -> [i EXCEPT !.arkAddress = [payee |-> r.payee, uri |-> FALSE],
                                       !.pendingLnSend = NoInvoice]
    [] r.kind = "btc"     -> [i EXCEPT !.address = r.payee]
    [] r.kind = "lnurl"   -> [i EXCEPT !.lnUrl = r.payee]
    [] r.kind = "invoice" -> LET inv == [payee |-> r.payee, sats |-> r.payee] IN
                             [i EXCEPT !.invoice = inv, !.satoshis = inv.sats,
                                       !.pendingLnSend = KeepQuote(i, inv)]
    [] r.kind = "bip21"   -> [i EXCEPT !.address = r.payee, !.lnUrl = Nobody,
                                       !.arkAddress = [payee |-> r.payee, uri |-> FALSE],
                                       !.invoice = NoInvoice,
                                       !.pendingLnSend = KeepQuote(i, NoInvoice)]
    [] OTHER              -> i

\* The typed recipient is parsed after RECIPIENT_DEBOUNCE_MS, a scanned one at once.
ParseRecipient ==
  /\ sendPage = "form" /\ ~ form.ready /\ form.recipient # NoText
  /\ LET r == form.recipient
         i == Parsed(r, sendInfo) IN
     Update(i, Lookup([form EXCEPT !.ready = (r.kind # "nonsense"),
                                   !.fixed = @ \/ r.kind = "invoice"], i.satoshis), negotiating)
  /\ UNCHANGED <<lnurlFetch, payment>>

\* The amount of an invoice is fixed, until the conditions of an LNURL free it.
TypeAmount(v) ==
  /\ sendPage = "form" /\ (form.fixed => sendInfo.lnUrl # Nobody)
  /\ Update([sendInfo EXCEPT !.satoshis = v], Lookup(form, v), negotiating)
  /\ UNCHANGED <<lnurlFetch, payment>>

\* "Available" and "max" put in all that may be sent, even for a fixed amount.
SendAll ==
  /\ sendPage = "form"
  /\ Update([sendInfo EXCEPT !.satoshis = LiquidSats], Lookup(form, LiquidSats), negotiating)
  /\ UNCHANGED <<lnurlFetch, payment>>

\* extractRailFromQuote: what a rail of the alias sets.
OnRail(i, payee, rail) ==
  LET bare == [i EXCEPT !.address = Nobody, !.arkAddress = NoArk, !.lnUrl = Nobody,
                        !.invoice = NoInvoice, !.pendingLnSend = NoInvoice] IN
  CASE rail = "Lightning" -> [bare EXCEPT !.lnUrl = payee]
    [] rail = "Onchain"   -> [bare EXCEPT !.address = payee]
    [] rail = "Ark"       -> [bare EXCEPT !.arkAddress = [payee |-> payee, uri |-> FALSE]]
    [] rail = "Ark URI"   -> [bare EXCEPT !.arkAddress = [payee |-> payee, uri |-> TRUE]]

Rails == {"Lightning", "Onchain", "Ark", "Ark URI"}

LookupAnswers(rail) ==
  /\ sendPage = "form" /\ form.lookup # Nobody
  /\ Update(OnRail(sendInfo, form.lookup, rail), [form EXCEPT !.lookup = Nobody, !.card = form.lookup],
            negotiating)
  /\ UNCHANGED <<lnurlFetch, payment>>

\* No route or no answer: the quote goes, what it had written stays.
LookupFails ==
  /\ sendPage = "form" /\ form.lookup # Nobody
  /\ form' = [form EXCEPT !.lookup = Nobody, !.card = Nobody]
  /\ UNCHANGED <<sendPage, sendInfo, lnurlFetch, negotiating, signing, signError, payment>>

SelectRail(rail) ==
  /\ sendPage = "form" /\ form.card # Nobody
  /\ Update(OnRail(sendInfo, form.card, rail), form, negotiating)
  /\ UNCHANGED <<lnurlFetch, payment>>

-----------------------------------------------------------------------------
\* buttonDisabled: an invalid recipient does not count for sats.
CanContinue ==
  /\ sendPage = "form" /\ ~ form.processing /\ ~ form.error
  /\ HasDestination(sendInfo) \/ sendInfo.lnUrl # Nobody
  /\ sendInfo.satoshis \in 1..LiquidSats

Continue ==
  /\ CanContinue
  /\ IF sendInfo.lnUrl # Nobody
     THEN /\ lnurlFetch = NoFetch
          /\ lnurlFetch' = [by |-> "form", payee |-> sendInfo.lnUrl, sats |-> sendInfo.satoshis,
                            live |-> TRUE]
          /\ form' = [form EXCEPT !.processing = TRUE]
          /\ UNCHANGED <<sendPage, sendInfo, negotiating, signing, signError>>
     ELSE /\ Update(sendInfo, [form EXCEPT !.processing = TRUE, !.proceed = TRUE], negotiating)
          /\ UNCHANGED lnurlFetch
  /\ UNCHANGED payment

\* The LNURL answers with an Ark address, or with an invoice for the amount.
LnurlAnswers ==
  /\ lnurlFetch.by = "form"
  /\ lnurlFetch' = NoFetch
  /\ LET inv == [payee |-> lnurlFetch.payee, sats |-> lnurlFetch.sats]
         f   == IF lnurlFetch.live THEN [form EXCEPT !.proceed = TRUE] ELSE form IN
     \/ Update([sendInfo EXCEPT !.arkAddress = [payee |-> lnurlFetch.payee, uri |-> FALSE],
                                !.invoice = NoInvoice, !.pendingLnSend = NoInvoice], f, negotiating)
     \/ Update([sendInfo EXCEPT !.arkAddress = NoArk, !.invoice = inv,
                                !.pendingLnSend = KeepQuote(sendInfo, inv)], f, negotiating)
  /\ UNCHANGED payment

\* handleError of the form.
FormError(live) == form' = IF live THEN [form EXCEPT !.error = TRUE, !.processing = FALSE] ELSE form

LnurlFails ==
  /\ lnurlFetch.by = "form"
  /\ lnurlFetch' = NoFetch
  /\ FormError(lnurlFetch.live)
  /\ UNCHANGED <<sendPage, sendInfo, negotiating, signing, signError, payment>>

\* A negotiation succeeds: its quote is put into whatever is being sent by now.
QuoteLands(n) ==
  /\ n \in negotiating
  /\ Update([sendInfo EXCEPT !.pendingLnSend = n.invoice], form, negotiating \ {n})
  /\ UNCHANGED <<lnurlFetch, payment>>

NegotiationFails(n) ==
  /\ n \in negotiating
  /\ negotiating' = negotiating \ {n}
  /\ FormError(n.live)
  /\ UNCHANGED <<sendPage, sendInfo, lnurlFetch, signing, signError, payment>>

-----------------------------------------------------------------------------
\* What a tap on the button does, whatever the limits let the screen show.
SignBranch(i) ==
  IF i.arkAddress.uri THEN "ark"
  ELSE IF i.lnUrl # Nobody /\ i.invoice = NoInvoice THEN "lnurl"
  ELSE IF i.arkAddress # NoArk THEN "ark"
  ELSE IF i.invoice # NoInvoice /\ i.pendingLnSend # NoInvoice THEN "invoice"
  ELSE IF i.address # Nobody THEN "address" ELSE "none"

\* Tap to sign: an LNURL is asked for an invoice, everything else is submitted;
\* what no branch takes leaves the screen sending for good. An expired quote and
\* an Ark URI of another server are refused.
SignSend ==
  /\ sendPage = "details" /\ signing = "idle" /\ ~ signError
  /\ LET branch == SignBranch(sendInfo) IN
     \/ /\ branch = "lnurl"
        /\ lnurlFetch = NoFetch
        /\ lnurlFetch' = [by |-> "signing", payee |-> sendInfo.lnUrl, sats |-> sendInfo.satoshis,
                          live |-> TRUE]
        /\ signing' = "fetching"
        /\ UNCHANGED <<payment, signError>>
     \/ /\ branch \in {"ark", "invoice", "address"} /\ payment = NoPayment
        /\ InFlight(negotiating) < MaxInFlight
        /\ signing' = "sending"
        /\ payment' = [step |-> "submitted", kind |-> branch, live |-> TRUE,
             sats |-> SendTotal(sendInfo), satoshis |-> sendInfo.satoshis, info |-> sendInfo]
        /\ UNCHANGED <<signError, lnurlFetch>>
     \/ /\ branch = "invoice" \/ sendInfo.arkAddress.uri
        /\ signing' = "done" /\ signError' = TRUE
        /\ UNCHANGED <<payment, lnurlFetch>>
     \/ /\ branch = "none"
        /\ signing' = "stuck"
        /\ UNCHANGED <<payment, signError, lnurlFetch>>
  /\ UNCHANGED <<sendPage, sendInfo, form, negotiating>>

\* The invoice of the LNURL arrives at the signing screen, which is ready to sign
\* again, or finds it gone.
InvoiceForSigning ==
  /\ lnurlFetch.by = "signing"
  /\ lnurlFetch' = NoFetch
  /\ LET i == [sendInfo EXCEPT !.invoice = [payee |-> lnurlFetch.payee, sats |-> lnurlFetch.sats]] IN
     \/ /\ lnurlFetch.live
        /\ sendInfo' = i
        /\ signing' = "idle" /\ signError' = (signError \/ CannotSign(i))
        /\ UNCHANGED <<sendPage, form, negotiating>>
     \/ /\ ~ lnurlFetch.live
        /\ Update(i, form, negotiating)
     \/ /\ signError' = (signError \/ lnurlFetch.live)
        /\ signing' = IF lnurlFetch.live THEN "done" ELSE signing
        /\ UNCHANGED <<sendPage, sendInfo, form, negotiating>>
  /\ UNCHANGED payment

\* The wallet answers with a txid. A funded lockup is handed to the send manager
\* before anything is shown (trackLnSend); a store that refuses it is logged.
LockupFunded ==
  /\ payment.step = "submitted" /\ payment.kind = "invoice"
  /\ payment' = [payment EXCEPT !.step = "funded"]
  /\ UNCHANGED <<sendPage, sendInfo, form, lnurlFetch, negotiating, signing, signError>>

\* handleTxid: what was signed is put back over whatever is being sent by now,
\* and the signing screen works its details out again, with a balance that may
\* lack the payment already.
PaymentSucceeds ==
  /\ \/ payment.step = "submitted" /\ payment.kind # "invoice"
     \/ payment.step = "funded"
  /\ payment' = NoPayment
  /\ \/ /\ payment.live
        /\ sendInfo' = payment.info
        /\ signing' = "done"
        /\ signError' \in {signError \/ CannotSign(payment.info), TRUE}
        /\ UNCHANGED <<sendPage, form, negotiating>>
     \/ ~ payment.live /\ Update(payment.info, form, negotiating)
  /\ UNCHANGED lnurlFetch

PaymentFails ==
  /\ payment.step = "submitted"
  /\ payment' = NoPayment
  /\ signError' = (signError \/ payment.live)
  /\ signing' = IF payment.live THEN "done" ELSE signing
  /\ UNCHANGED <<sendPage, sendInfo, form, lnurlFetch, negotiating>>

\* handleExitComplete: the screen stays when it has an error, also one that came
\* with the success.
ExitComplete ==
  /\ sendPage = "details" /\ signing = "done"
  /\ signing' = "idle"
  /\ sendPage' = IF signError THEN "details" ELSE "success"
  /\ UNCHANGED <<sendInfo, form, lnurlFetch, negotiating, signError, payment>>

LeaveSuccess ==
  /\ sendPage = "success"
  /\ sendPage' = "home"
  /\ UNCHANGED <<sendInfo, form, lnurlFetch, negotiating, signing, signError, payment>>

SendNext ==
  \/ OpenSend \/ GoBack \/ ParseRecipient \/ LookupFails \/ Continue
  \/ LnurlAnswers \/ LnurlFails \/ SignSend \/ InvoiceForSigning
  \/ LockupFunded \/ PaymentSucceeds \/ PaymentFails \/ ExitComplete \/ LeaveSuccess \/ SendAll
  \/ \E r \in Recipients : TypeRecipient(r)
  \/ \E v \in SendAmounts : TypeAmount(v)
  \/ \E rail \in Rails : LookupAnswers(rail) \/ SelectRail(rail)
  \/ \E n \in negotiating : QuoteLands(n) \/ NegotiationFails(n)

SendSpec == SendInit /\ [][SendNext]_sendVars

-----------------------------------------------------------------------------
\* What is submitted is never above the balance, whatever total a late quote, a
\* payment's answer, going back or another recipient's field has left in sendInfo
\* since the form let the amount through.
PaidIsCovered == payment # NoPayment => payment.sats \in 1..BalanceSats

\* The signing screen's comment: a Lightning payment costs exactly the amount of
\* the invoice it shows, "so total == satoshis on the Lightning path".
TotalIsSatoshis ==
  payment # NoPayment /\ payment.kind = "invoice" /\ payment.live
    => payment.sats = payment.satoshis
=============================================================================
