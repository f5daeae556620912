---------------------------- MODULE MCWalletApp ----------------------------
\* The instance of WalletApp that TLC checks.
EXTENDS WalletApp

MCRecipients == [kind : {"invoice", "alias"}, payee : {2}]
MCMarkets == {{"btc", "usd"}}
MCRailsOf == <<{"Lightning"}, {"Onchain", "Ark"}, {"Lightning"}>>
MCExpiryOf == <<2, 9, 9>>
MCKeyOf == <<1, 1, 3>>
=============================================================================
