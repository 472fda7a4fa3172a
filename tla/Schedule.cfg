\* Is the next change of cost found at every instant?
SPECIFICATION ScheduleSpec
CONSTANTS
  DaysPerWeek = 3
  MinutesPerDay = 2
  TicksPerMinute = 2
  Froms = {2, 5, 14}
  MaxClock = 12
CHECK_DEADLOCK FALSE
INVARIANTS
  NextTransitionExact
