SPECIFICATION WalletAppSpec

CONSTANTS
  Tabs = {t1, t2}
  Receives = {r1}
  MaxMounts = 2
  Sends = {s1}
  SendManagers = {m1, m2}
  Offers = {o1}
  MaxSessions = 2
  MaxRetries = 1
  Amounts = {1}
  Quotable = {1}
  MaxNegotiations = 2
  Recipients <- MCRecipients
  SendAmounts = {1}
  LiquidSats = 1
  BalanceSats = 1
  MaxInFlight = 1
  SwapAssetIds = {"btc", "usd"}
  Markets <- MCMarkets
  KeyedAmounts = {0, 1}
  UnitPrices = {0, 2}
  MaxHolding = 1
  RailsOf <- MCRailsOf
  ExpiryOf <- MCExpiryOf
  KeyOf <- MCKeyOf
  CacheTtl = 1
  Longest = 1
  LastTick = 4

INVARIANTS
  WalletAppTypeOK
  OneDriver
  AdmittedIsKnown
  DrivenIsStored
  OfferOutcomeIsTrue
  LockedIsShut
  ShownIsMonitored
  CodeFitsAmount
  PaidIsCovered
  PairIsShown
  CreatedIsReviewed
  QuotedIsRecent

PROPERTIES
  FundedReceiveEnds
  EndedSendIsRecorded
  DeadWorkerIsHealed
  ForeignProfileIsDropped

CHECK_DEADLOCK FALSE
