\* Two payments of a bill; two form loads, changes of the mappings or requests that die.
SPECIFICATION Spec
CONSTANTS
  p1 = p1
  p2 = p2
  a1 = a1
  a2 = a2
  Payments = {p1, p2}
  Amounts = {1, 2}
  BillAmount = 2
  Bank = Bank
  Card = Card
  Legacy = Legacy
  Accounts = {a1, a2}
  None = None
  MaxUpsets = 2
INVARIANTS TypeOK PostedIsBooked BillNotPaidTwice JournalNotReplaced SentOnceUnlessLost Consistent
PROPERTIES NewRequestChecked PostsIdempotently
SYMMETRY Symmetry
CHECK_DEADLOCK FALSE
