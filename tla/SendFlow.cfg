SPECIFICATION SendSpec

CONSTANTS
  Recipients <- MCInvoices
  SendAmounts = {1}
  LiquidSats = 2
  BalanceSats = 2
  MaxInFlight = 1

INVARIANT TotalIsSatoshis
