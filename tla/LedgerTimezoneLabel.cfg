\* Does a period with requests keep its timezone?
SPECIFICATION LedgerSpec
CONSTANTS
  r1 = r1
  r2 = r2
  o1 = o1
  o2 = o2
  Requests = {r1, r2}
  Attempts = {}
  Operations = {o1, o2}
  Applications = {}
  Amounts = {1}
  Limits = {2}
  Timezones = {"west", "east"}
  Months = {"m1", "m2"}
  MonthOf <- MCMonthOf
  TotalKey = "TOTAL"
  MaxClock = 3
  LeaseTicks = 1
SYMMETRY Symmetry
CHECK_DEADLOCK FALSE
PROPERTIES
  UsedPeriodKeepsTimezone
