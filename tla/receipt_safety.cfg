\* One receipt, one invoice and a deposit, two concurrent requests, one edit by an administrator or a form.
SPECIFICATION Spec
CONSTANTS
  r1 = r1
  r2 = r2
  c1 = c1
  c2 = c2
  q1 = q1
  q2 = q2
  Receipts = {r1}
  Charges = {c1}
  Requests = {q1, q2}
  Deposit = Deposit
  Dates = {1, 2}
  ChargeAmount <- OneCharge
  Rank <- OneRank
  None = None
  MaxAmount = 2
  MaxEdits = 1
  MaxCrashes = 0
SYMMETRY Symmetry
INVARIANTS TypeOK ConfirmedIsBooked SentOnceUnlessLost FrozenMatchesShare Consistent
PROPERTY PostsIdempotently
CHECK_DEADLOCK FALSE
