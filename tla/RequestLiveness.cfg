\* One request with a retry, and what the worker eventually does for it.
SPECIFICATION FairRequestSpec
CONSTANTS
  p1 = p1
  p2 = p2
  Requests = {"r1"}
  Attempts = {2}
  Operations = {"o1"}
  Applications = {}
  Amounts = {0, 2}
  Limits = {9}
  Timezones = {"utc"}
  Months = {"m1"}
  MonthOf <- MCMonthOf
  TotalKey = "TOTAL"
  MaxClock = 1
  LeaseTicks = 1
  Policies = {p1}
  Estimate = 1
  MaxAttempts = 2
  MaxFaults = 1
  LedgerKind = "GROUP"
CHECK_DEADLOCK FALSE
INVARIANT
  CalledIsAccounted
PROPERTIES
  HoldNeverGrows
  Recovered
  EventuallySynced
  SlotsReturned
