\* The catalogue, the tests of its mappings and unbudgeted requests.
SPECIFICATION ModelsSpec
CONSTANTS
  x1 = x1
  x2 = x2
  c1 = c1
  c2 = c2
  k1 = k1
  k2 = k2
  m1 = m1
  m2 = m2
  b1 = b1
  b2 = b2
  p1 = p1
  t1 = t1
  t2 = t2
  q1 = q1
  q2 = q2
  DaysPerWeek = 2
  MinutesPerDay = 3
  TicksPerMinute = 1
  Channels = {c1, c2}
  ChannelKeys = {k1, k2}
  Models = {m1, m2}
  Mappings = {b1, b2}
  Prices = {p1}
  RuleIds = {1, 2}
  Upstreams = {"u", "v"}
  Priorities = {0}
  Windows <- MCWindows
  Patches <- MCPatches
  Validities <- MCValidities
  Calls = {x1, x2}
  Tests = {t1, t2}
  MaxClock = 3
  ProbeInterval = 1
  MaxTries = 2
  MaxFailures = 3
  Requests = {q1, q2}
  Policies = {"p", "q"}
  ConcurrencyLimit = 1
  MaxRetries = 1
SYMMETRY ModelSymmetry
CHECK_DEADLOCK FALSE
INVARIANTS
  CostUnambiguous
  BindingsFollowParents
  OutcomesCountedOnce
  ReservationsEnd
  RefusedStaysOut
