----------------------------- MODULE WalletApp -----------------------------
\* The wallet's parts side by side. They share no variable, so a property of one
\* holds whatever the others do, and interleaving them would only multiply the
\* states: "focus" is the part that moves in a behaviour. What one part needs of
\* another is in its own module (the store and the lock between tabs, the chain,
\* the worker, the daemon).
EXTENDS LnReceives, LnSends, AssetSwaps, WalletLifecycle, SatsPathSync, ReceiveScreen,
        SendFlow, SwapScreen, AliasQuotes

VARIABLE focus

Parts == {"receives", "sends", "swaps", "lifecycle", "satspath", "receive screen", "send flow",
          "swap screen", "quotes"}

walletAppVars == <<focus, receiveVars, lnSendVars, swapVars, walletVars, satsPathVars, recvVars,
                   sendVars, swapScreenVars, quoteVars>>

WalletAppTypeOK ==
  /\ focus \in Parts
  /\ ReceiveTypeOK /\ LnSendTypeOK /\ SwapTypeOK /\ WalletTypeOK /\ SatsPathTypeOK
  /\ RecvTypeOK /\ SendTypeOK /\ SwapScreenTypeOK /\ QuoteTypeOK

WalletAppInit ==
  /\ focus \in Parts
  /\ ReceiveInit /\ LnSendInit /\ SwapInit /\ WalletInit /\ SatsPathInit
  /\ RecvInit /\ SendInit /\ SwapScreenInit /\ QuoteInit
  /\ focus = "satspath" \/ localProfile = [alias |-> FALSE, methods |-> FALSE]
  /\ focus = "receives" \/ hasLocks
  /\ focus = "lifecycle" \/ storedWallet = "none"

\* The parts out of focus stand still.
OnlyMoves(part) ==
  /\ UNCHANGED focus
  /\ part # "receives" => UNCHANGED receiveVars
  /\ part # "sends" => UNCHANGED lnSendVars
  /\ part # "swaps" => UNCHANGED swapVars
  /\ part # "lifecycle" => UNCHANGED walletVars
  /\ part # "satspath" => UNCHANGED satsPathVars
  /\ part # "receive screen" => UNCHANGED recvVars
  /\ part # "send flow" => UNCHANGED sendVars
  /\ part # "swap screen" => UNCHANGED swapScreenVars
  /\ part # "quotes" => UNCHANGED quoteVars

WalletAppNext ==
  \/ focus = "receives" /\ ReceiveNext /\ OnlyMoves("receives")
  \/ focus = "sends" /\ LnSendNext /\ OnlyMoves("sends")
  \/ focus = "swaps" /\ SwapNext /\ OnlyMoves("swaps")
  \/ focus = "lifecycle" /\ WalletNext /\ OnlyMoves("lifecycle")
  \/ focus = "satspath" /\ SatsPathNext /\ OnlyMoves("satspath")
  \/ focus = "receive screen" /\ RecvNext /\ OnlyMoves("receive screen")
  \/ focus = "send flow" /\ SendNext /\ OnlyMoves("send flow")
  \/ focus = "swap screen" /\ SwapScreenNext /\ OnlyMoves("swap screen")
  \/ focus = "quotes" /\ QuoteNext /\ OnlyMoves("quotes")

\* The fairness of each part, see its module.
WalletAppFairness ==
  /\ \A d \in Drivers : WF_receiveVars(focus = "receives" /\ DriverStep(d))
  /\ \A m \in SendManagers, s \in Sends :
       /\ WF_lnSendVars(focus = "sends" /\ PassEnds(m, s))
       /\ WF_lnSendVars(focus = "sends" /\ JobStep(m, s))
  /\ WF_walletVars(focus = "lifecycle" /\ DeadPing)
  /\ \A s \in Sessions :
       /\ WF_walletVars(focus = "lifecycle" /\ ReinitSvcWallet(s))
       /\ WF_walletVars(focus = "lifecycle" /\ SessionStep(s))
  /\ WF_satsPathVars(focus = "satspath" /\ CheckDaemonHealth)
  /\ WF_satsPathVars(focus = "satspath" /\ RefreshAnswered("refresh own"))

WalletAppSpec == WalletAppInit /\ [][WalletAppNext]_walletAppVars /\ WalletAppFairness
=============================================================================
