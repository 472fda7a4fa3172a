\* One period, two requests, real amounts: conservation of money.
SPECIFICATION LedgerSpec
CONSTANTS
  r1 = r1
  r2 = r2
  o1 = o1
  o2 = o2
  Requests = {r1, r2}
  Attempts = {"2"}
  Operations = {o1}
  Applications = {}
  Amounts = {0, 1}
  Limits = {0, 1}
  Timezones = {"west"}
  Months = {"m1", "m2"}
  MonthOf <- MCMonthOf
  TotalKey = "TOTAL"
  MaxClock = 1
  LeaseTicks = 1
SYMMETRY Symmetry
CHECK_DEADLOCK FALSE
INVARIANTS
  ReservedConserved
  SpentConserved
PROPERTIES
  OverdraftOnlyByCost
  AccountImplemented
