\* Slots and expiring keys; settlements, corrections and expiring counters.
SPECIFICATION PartSpec
CONSTANTS
  q1 = q1
  q2 = q2
  q3 = q3
  l1 = l1
  Requests = {q1, q2, q3, l1}
  Legacy = {l1}
  Policies = {"p"}
  Amounts = {0, 1, 2}
  ConcurrencyLimit = 2
  CostLimit = 3
  MaxVersion = 2
SYMMETRY QuotaSymmetry
CHECK_DEADLOCK FALSE
INVARIANTS
  SlotsExact
  ConcurrencyLimited
  UsageExact
PROPERTIES
  CorrectionsInOrder
