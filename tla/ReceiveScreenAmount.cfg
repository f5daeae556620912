SPECIFICATION RecvSpec

CONSTANTS
  Amounts = {1, 2}
  Quotable = {1}
  MaxNegotiations = 2

INVARIANT AbandonedIsNotShown

CHECK_DEADLOCK FALSE
