\* A project credential: is its reservation ever recovered?
SPECIFICATION FairRequestSpec
CONSTANTS
  p1 = p1
  p2 = p2
  Requests = {"r1"}
  Attempts = {2}
  Operations = {}
  Applications = {}
  Amounts = {0, 2}
  Limits = {9}
  Timezones = {"utc"}
  Months = {"m1"}
  MonthOf <- MCMonthOf
  TotalKey = "TOTAL"
  MaxClock = 1
  LeaseTicks = 1
  Policies = {p1}
  Estimate = 1
  MaxAttempts = 1
  MaxFaults = 1
  LedgerKind = "PROJECT"
CHECK_DEADLOCK FALSE
PROPERTIES
  Recovered
