\* Two editors, one of them an administrator; what a request carries varies in the supplier reference and the account.
SPECIFICATION Spec
CONSTANTS
  alice = alice
  bob = bob
  c1 = c1
  c2 = c2
  a1 = a1
  a2 = a2
  p1 = p1
  p2 = p2
  Users = {alice, bob}
  Editors = {alice, bob}
  Admins = {bob}
  Cores = {c1}
  Refs = {0, 1}
  NoRef = 0
  Places = {p1, p2}
  Accounts = {a1, a2}
  Bill = Bill
  None = None
  MaxVersions = 2
  MaxEdits = 1
  MaxCrashes = 1
INVARIANTS TypeOK ApprovedByAnother OneDecision PostedIsBooked SentOnceUnlessLost Consistent
PROPERTIES SentAsApproved PostsIdempotently
SYMMETRY Symmetry
CHECK_DEADLOCK FALSE
