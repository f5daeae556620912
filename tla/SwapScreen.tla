----------------------------- MODULE SwapScreen -----------------------------
\* The asset swap screen (wallet/src/screens/Wallet/Swap/Index.tsx): two assets,
\* an amount entered in the asset or in the display currency, the solver's quote
\* for it, the review drawer and the creation of the swap. The quote hook
\* (useOfferQuote) is a library: it keeps the give amount it was last set and
\* quotes it for the market it is given.
EXTENDS Naturals

CONSTANTS SwapAssetIds,  \* assets of the markets
          Markets,       \* the pairs a market exists for, each a set of two assets
          KeyedAmounts,  \* amounts keyed in
          UnitPrices,    \* asset units per unit of the display currency, 0 for no feed
          MaxHolding     \* bound: balance of an asset

ASSUME MarketsAssumption ==
  /\ \A m \in Markets : m \subseteq SwapAssetIds
  /\ KeyedAmounts \subseteq Nat /\ UnitPrices \subseteq Nat /\ 0 \in UnitPrices /\ MaxHolding \in Nat
  /\ SwapAssetIds # {}

VARIABLES
  swapStep,       \* closed, select-from or compose
  fromAsset, toAsset,
  amount, selectedMode,
  preservedPair,  \* both amounts of a toggled entry, so that toggling loses nothing
  unitPrice, holding,
  giveAmount,     \* what the hook was last told to quote
  offer,          \* the hook's status and plan
  drawer,
  creating        \* the plan being created, with what the screen shows

swapScreenVars == <<swapStep, fromAsset, toAsset, amount, selectedMode, preservedPair,
                    unitPrice, holding, giveAmount, offer, drawer, creating>>

NoAsset == "none"
NoPair == [asset |-> NoAsset, assetAmount |-> 0, currencyAmount |-> 0]
NoPlan == [pair |-> <<NoAsset, NoAsset>>, deposit |-> 0]
IdleOffer == [status |-> "idle", plan |-> NoPlan]
NotCreating == [plan |-> NoPlan, shown |-> NoPlan, spendable |-> 0]
Entries == KeyedAmounts \cup {k * p : k \in KeyedAmounts, p \in UnitPrices} \cup 0..MaxHolding
Plans == [pair : SwapAssetIds \X SwapAssetIds, deposit : Entries] \cup {NoPlan}

SwapScreenTypeOK ==
  /\ swapStep \in {"closed", "select-from", "compose"}
  /\ fromAsset \in SwapAssetIds /\ toAsset \in SwapAssetIds \cup {NoAsset}
  /\ amount \in Entries /\ selectedMode \in {"fiat", "asset"}
  /\ preservedPair \in [asset : SwapAssetIds, assetAmount : Entries, currencyAmount : Entries] \cup {NoPair}
  /\ unitPrice \in [SwapAssetIds -> UnitPrices] /\ holding \in [SwapAssetIds -> 0..MaxHolding]
  /\ giveAmount \in Entries
  /\ offer \in [status : {"idle", "loading", "success", "error"}, plan : Plans]
  /\ drawer \in {"none", "to", "review"}
  /\ creating.plan \in Plans

SwapScreenInit ==
  /\ swapStep = "closed"
  /\ fromAsset = (CHOOSE a \in SwapAssetIds : TRUE) /\ toAsset = NoAsset
  /\ amount = 0 /\ selectedMode = "fiat" /\ preservedPair = NoPair
  /\ unitPrice = [a \in SwapAssetIds |-> 0] /\ holding = [a \in SwapAssetIds |-> 0]
  /\ giveAmount = 0 /\ offer = IdleOffer
  /\ drawer = "none" /\ creating = NotCreating

-----------------------------------------------------------------------------
HasMarket(a, b) == b # NoAsset /\ a # b /\ {a, b} \in Markets

\* currencyConversionUseful: the asset has a price in the display currency.
Convertible(prices, a) == prices[a] # 0
AmountMode == IF Convertible(unitPrice, fromAsset) THEN selectedMode ELSE "asset"

\* preservedAmounts: the pair counts only for the asset it was entered for.
Preserved == IF preservedPair.asset = fromAsset THEN preservedPair ELSE NoPair

\* assetAmount: what is to be given, in units of the asset.
AssetAmount ==
  IF Preserved # NoPair THEN Preserved.assetAmount
  ELSE IF AmountMode = "asset" THEN amount ELSE amount * unitPrice[fromAsset]

\* Fault: the plan in hand is taken for the one of the amount on screen.
ConfirmAnyPlan ==
  /\ toAsset # NoAsset
  /\ offer.status = "success"
  /\ offer.plan.deposit \in 1..holding[fromAsset]

\* planMatchesAssetAmount, currentPlan and validatePlan.
PlanMatches == offer.plan.deposit = AssetAmount
CanConfirm ==
  /\ toAsset # NoAsset
  /\ offer.status = "success" /\ PlanMatches
  /\ offer.plan.deposit \in 1..holding[fromAsset]

\* The entry changes, with the effect that leaves the currency mode when the
\* asset given, or its price, no longer allows it.
Enter(mode, value, pair) ==
  IF mode = "fiat" /\ ~ Convertible(unitPrice', fromAsset')
  THEN selectedMode' = "asset" /\ amount' = 0 /\ preservedPair' = NoPair
  ELSE selectedMode' = mode /\ amount' = value /\ preservedPair' = pair

\* The assets are set; the hook follows the market they make.
SetAssets(from, to, give) ==
  /\ fromAsset' = from /\ toAsset' = to
  /\ giveAmount' = give
  /\ offer' = IF from = fromAsset /\ to = toAsset /\ give = giveAmount THEN offer
              ELSE IF HasMarket(from, to) /\ give > 0 THEN [status |-> "loading", plan |-> NoPlan]
              ELSE IdleOffer

-----------------------------------------------------------------------------
\* The screen opens on a choice of asset, or with the asset it was asked for.
OpenSwap(a) ==
  /\ swapStep = "closed"
  /\ swapStep' \in {"select-from", "compose"}
  /\ SetAssets(a, NoAsset, 0)
  /\ UNCHANGED <<unitPrice, holding>>
  /\ Enter("fiat", 0, NoPair)
  /\ drawer' = "none" /\ creating' = NotCreating

\* Back to the wallet, by the button, the browser's back, also from a drawer, or
\* on its own after a success. A swap being created is not stopped, but nothing
\* here awaits it any more.
LeaveSwap ==
  /\ swapStep # "closed"
  /\ swapStep' = "closed" /\ drawer' = "none" /\ creating' = NotCreating
  /\ UNCHANGED <<fromAsset, toAsset, amount, selectedMode, preservedPair, unitPrice, holding,
                 giveAmount, offer>>

BackToAssets ==
  /\ swapStep = "compose" /\ drawer = "none"
  /\ swapStep' = "select-from"
  /\ UNCHANGED <<fromAsset, toAsset, amount, selectedMode, preservedPair, unitPrice, holding,
                 giveAmount, offer, drawer, creating>>

\* selectFromAsset: the receive side stays if there is a market for it.
SelectFrom(a) ==
  /\ swapStep = "select-from"
  /\ swapStep' = "compose"
  /\ SetAssets(a, IF HasMarket(a, toAsset) THEN toAsset ELSE NoAsset, giveAmount)
  /\ UNCHANGED <<unitPrice, holding, drawer, creating>>
  /\ Enter(selectedMode, amount, NoPair)

SelectTo(a) ==
  /\ swapStep = "compose" /\ drawer = "to" /\ HasMarket(fromAsset, a)
  /\ SetAssets(fromAsset, a, giveAmount)
  /\ drawer' = "none"
  /\ UNCHANGED <<swapStep, amount, selectedMode, preservedPair, unitPrice, holding, creating>>

\* swapSides: the amount starts over.
SwapSides ==
  /\ swapStep = "compose" /\ drawer = "none" /\ toAsset # NoAsset
  /\ SetAssets(toAsset, fromAsset, 0)
  /\ UNCHANGED <<swapStep, unitPrice, holding, drawer, creating>>
  /\ Enter(selectedMode, 0, NoPair)

\* A key that changes the amount drops the preserved pair.
PressKey(v) ==
  /\ swapStep = "compose" /\ drawer = "none" /\ v # amount
  /\ UNCHANGED <<swapStep, fromAsset, toAsset, unitPrice, holding, giveAmount, offer, drawer, creating>>
  /\ Enter(selectedMode, v, NoPair)

\* Fault: the maximum is entered over a preserved pair.
UseMaxOverPair ==
  /\ swapStep = "compose" /\ drawer = "none" /\ holding[fromAsset] > 0
  /\ UNCHANGED <<swapStep, fromAsset, toAsset, unitPrice, holding, giveAmount, offer, drawer, creating>>
  /\ Enter("asset", holding[fromAsset], preservedPair)

UseMaxBalance ==
  /\ swapStep = "compose" /\ drawer = "none" /\ holding[fromAsset] > 0
  /\ UNCHANGED <<swapStep, fromAsset, toAsset, unitPrice, holding, giveAmount, offer, drawer, creating>>
  /\ Enter("asset", holding[fromAsset], NoPair)

\* toggleAmountMode: the other amount of the pair is shown. Towards the currency
\* it is the preserved one, or any the quote's own rate makes of it.
ToggleMode ==
  /\ swapStep = "compose" /\ drawer = "none" /\ Convertible(unitPrice, fromAsset)
  /\ UNCHANGED <<swapStep, fromAsset, toAsset, unitPrice, holding, giveAmount, offer, drawer, creating>>
  /\ IF AmountMode = "fiat"
     THEN Enter("asset", AssetAmount,
                [asset |-> fromAsset, assetAmount |-> AssetAmount, currencyAmount |-> amount])
     ELSE \E c \in IF Preserved # NoPair THEN {Preserved.currencyAmount} ELSE KeyedAmounts :
            Enter("fiat", c, [asset |-> fromAsset, assetAmount |-> amount, currencyAmount |-> c])

-----------------------------------------------------------------------------
\* 600 ms after the last change the hook is told the amount.
SettleAmount ==
  /\ swapStep # "closed" /\ giveAmount # AssetAmount
  /\ SetAssets(fromAsset, toAsset, AssetAmount)
  /\ UNCHANGED <<swapStep, amount, selectedMode, preservedPair, unitPrice, holding, drawer, creating>>

QuoteOffer ==
  /\ swapStep # "closed" /\ offer.status = "loading"
  /\ offer' \in {[status |-> "success", plan |-> [pair |-> <<fromAsset, toAsset>>, deposit |-> giveAmount]],
                 [status |-> "error", plan |-> NoPlan]}
  /\ UNCHANGED <<swapStep, fromAsset, toAsset, amount, selectedMode, preservedPair, unitPrice,
                 holding, giveAmount, drawer, creating>>

\* A price feed moves, comes or goes.
PriceTicks(a, p) ==
  /\ p # unitPrice[a]
  /\ unitPrice' = [unitPrice EXCEPT ![a] = p]
  /\ UNCHANGED <<swapStep, fromAsset, toAsset, holding, giveAmount, offer, drawer, creating>>
  /\ Enter(selectedMode, amount, preservedPair)

HoldingChanges(a, h) ==
  /\ h # holding[a]
  /\ holding' = [holding EXCEPT ![a] = h]
  /\ UNCHANGED <<swapStep, fromAsset, toAsset, amount, selectedMode, preservedPair, unitPrice,
                 giveAmount, offer, drawer, creating>>

OpenDrawer ==
  /\ swapStep = "compose" /\ drawer = "none"
  /\ drawer' \in {"to"} \cup (IF CanConfirm THEN {"review"} ELSE {})
  /\ UNCHANGED <<swapStep, fromAsset, toAsset, amount, selectedMode, preservedPair, unitPrice,
                 holding, giveAmount, offer, creating>>

CloseDrawer ==
  /\ drawer # "none" /\ creating = NotCreating
  /\ drawer' = "none"
  /\ UNCHANGED <<swapStep, fromAsset, toAsset, amount, selectedMode, preservedPair, unitPrice,
                 holding, giveAmount, offer, creating>>

\* confirmSwap: the plan goes to the provider with a snapshot of what is shown.
ConfirmSwap ==
  /\ drawer = "review" /\ creating = NotCreating
  /\ CanConfirm
  /\ creating' = [plan |-> offer.plan, spendable |-> holding[fromAsset],
                  shown |-> [pair |-> <<fromAsset, toAsset>>, deposit |-> AssetAmount]]
  /\ UNCHANGED <<swapStep, fromAsset, toAsset, amount, selectedMode, preservedPair, unitPrice,
                 holding, giveAmount, offer, drawer>>

\* It is created, and the drawer closes, 3 s before the screen leaves for the
\* wallet, or it fails and the drawer says so.
CreateEnds ==
  /\ creating # NotCreating
  /\ creating' = NotCreating
  /\ drawer' \in {"none", drawer}
  /\ UNCHANGED <<swapStep, fromAsset, toAsset, amount, selectedMode, preservedPair, unitPrice,
                 holding, giveAmount, offer>>

SwapScreenNext ==
  \/ LeaveSwap \/ BackToAssets \/ SwapSides \/ UseMaxBalance \/ ToggleMode \/ SettleAmount
  \/ QuoteOffer \/ OpenDrawer \/ CloseDrawer \/ ConfirmSwap \/ CreateEnds
  \/ \E a \in SwapAssetIds :
       \/ OpenSwap(a) \/ SelectFrom(a) \/ SelectTo(a)
       \/ \E p \in UnitPrices : PriceTicks(a, p)
       \/ \E h \in 0..MaxHolding : HoldingChanges(a, h)
  \/ \E v \in KeyedAmounts : PressKey(v)

SwapScreenSpec == SwapScreenInit /\ [][SwapScreenNext]_swapScreenVars

-----------------------------------------------------------------------------
\* A preserved pair is the pair on screen: the amount entered is one of its two
\* sides, whatever was pressed, selected or repriced since ("any path that
\* changes the effective give amount must clear this pair").
PairIsShown ==
  swapStep # "closed" /\ Preserved # NoPair =>
    amount = IF AmountMode = "fiat" THEN Preserved.currencyAmount ELSE Preserved.assetAmount

\* The plan a swap is created from is for the assets and the amount the review
\* showed, and within what could be spent, though it was quoted earlier for an
\* amount, an asset, a price and a balance that may since have changed.
CreatedIsReviewed ==
  creating # NotCreating =>
    creating.plan = creating.shown /\ creating.plan.deposit <= creating.spendable
=============================================================================
