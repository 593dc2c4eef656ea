\* One request with its whole life and another, a property with one unit, one bill and one bill form.
SPECIFICATION Spec
CONSTANTS
  ann = ann
  m1 = m1
  m2 = m2
  b1 = b1
  s1 = s1
  v1 = v1
  house = house
  flat = flat
  Users = {ann}
  BillEditors = {ann}
  Requests = {m1, m2}
  Bills = {b1}
  Submissions = {s1}
  Vendors = {v1}
  Properties = {house}
  Units = {flat}
  Places <- HouseAndFlat
  None = None
  MaxVersion <- Versions
  MaxDetours = 2
INVARIANTS TypeOK HistoryReplays NoLostUpdate LinksMatchHistory
PROPERTIES RepeatReusesBill BillChangesMatch
CHECK_DEADLOCK FALSE
