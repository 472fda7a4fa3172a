------------------------------ MODULE MCSchedule ------------------------------
(***************************************************************************)
(* The cost of a mapping as time goes by: an administrator may look at its *)
(* next change at any instant (evaluate and workspaceItem of               *)
(* apps/api/src/procurement-costs.service.ts).  One rule holds always; a   *)
(* second one, of higher priority, begins later and applies on one day.    *)
(***************************************************************************)
EXTENDS CostSchedule

CONSTANTS
  Froms,   \* when the second rule begins
  MaxClock \* bound on time

VARIABLES
  schedule, \* schedule[r]: rule r of the mapping
  at        \* the present instant

scheduleVars == <<schedule, at>>

Base == [enabled |-> TRUE, priority |-> 0, days |-> Days, start |-> 0, end |-> 0,
         from |-> 0, until |-> Always, created |-> 0]

Peak(day, minute, from) ==
  [Base EXCEPT !.priority = 1, !.days = {day}, !.start = minute, !.from = from]

ScheduleInit ==
  /\ at = 0
  /\ \E day \in Days, minute \in Minutes, from \in Froms :
       schedule = <<Base, Peak(day, minute, from)>>

Pass == at < MaxClock /\ at' = at + 1 /\ UNCHANGED schedule

ScheduleSpec == ScheduleInit /\ [][Pass]_scheduleVars

\* Whenever it is asked, nextCostTransition returns the next instant at which
\* the effective cost changes (test/gateway/cost-schedule.test.ts:104), however
\* far the boundaries of the rules and their days are apart.
NextTransitionExact ==
  \A fallback \in BOOLEAN :
    NextCostTransition(schedule, fallback, at) = EarliestChange(schedule, fallback, at)
===============================================================================
