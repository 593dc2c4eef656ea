\* Two requests for one receipt, their calls and their locks, under fairness.
SPECIFICATION FairSpec
CONSTANTS
  r1 = r1
  r2 = r2
  c1 = c1
  c2 = c2
  q1 = q1
  q2 = q2
  Receipts = {r1}
  Charges = {c1}
  Requests = {q1, q2}
  Deposit = Deposit
  Dates = {1}
  ChargeAmount <- OneCharge
  Rank <- OneRank
  None = None
  MaxAmount = 2
  MaxEdits = 0
  MaxCrashes = 1
PROPERTY RequestsFinish
CHECK_DEADLOCK FALSE
