\* One request under two policies, every interleaving with the worker.
SPECIFICATION MonthlySpec
CONSTANTS
  p1 = p1
  p2 = p2
  Requests = {"r1"}
  Attempts = {2}
  Operations = {"o1"}
  Applications = {}
  Amounts = {0, 2}
  Limits = {9}
  Timezones = {"utc"}
  Months = {"m1"}
  MonthOf <- MCMonthOf
  TotalKey = "TOTAL"
  MaxClock = 1
  LeaseTicks = 1
  Policies = {p1, p2}
  Estimate = 1
  MaxAttempts = 1
  MaxFaults = 1
  LedgerKind = "GROUP"
SYMMETRY PolicySymmetry
CHECK_DEADLOCK FALSE
INVARIANTS
  QuotaFollowsLedger
  InFlightHoldsSlot
  UnresolvedKeepsQuota
