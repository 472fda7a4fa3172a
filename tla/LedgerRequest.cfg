\* One request through every path, real amounts, two corrections.
SPECIFICATION LedgerSpec
CONSTANTS
  r1 = r1
  r2 = r2
  o1 = o1
  o2 = o2
  Requests = {r1}
  Attempts = {"2"}
  Operations = {o1, o2}
  Applications = {"a1"}
  Amounts = {0, 1, 4}
  Limits = {0, 5}
  Timezones = {"west"}
  Months = {"m1", "m2"}
  MonthOf <- MCMonthOf
  TotalKey = "TOTAL"
  MaxClock = 2
  LeaseTicks = 1
SYMMETRY Symmetry
CHECK_DEADLOCK FALSE
INVARIANTS
  LedgerTypeOK
  LogMatchesLedger
  DispatchedNotRefunded
  AlertsCover
PROPERTIES
  ManualFinalHolds
