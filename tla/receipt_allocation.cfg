\* One receipt, two invoices and a deposit, two concurrent requests, one of which may die.
SPECIFICATION Spec
CONSTANTS
  r1 = r1
  r2 = r2
  c1 = c1
  c2 = c2
  q1 = q1
  q2 = q2
  Receipts = {r1}
  Charges = {c1, c2}
  Requests = {q1, q2}
  Deposit = Deposit
  Dates = {1}
  ChargeAmount <- TwoCharges
  Rank <- TwoRanks
  None = None
  MaxAmount = 2
  MaxEdits = 0
  MaxCrashes = 1
SYMMETRY Symmetry
PROPERTIES FinalizedIsComplete AllocationWithinReceipt
CHECK_DEADLOCK FALSE
