---------------------------- MODULE CostSchedule ----------------------------
(***************************************************************************)
(* The schedule of procurement costs                                       *)
(* (packages/gateway-core/src/cost-schedule.ts and the views of            *)
(* apps/api/src/procurement-costs.service.ts): which rule of a mapping     *)
(* gives the cost at an instant, when that changes next, which rules may   *)
(* not stand beside each other, and how much of a week they cover.         *)
(*                                                                         *)
(* An instant is a number of ticks in the channel's timezone, which has no *)
(* change of clocks.  A week has DaysPerWeek days of MinutesPerDay minutes *)
(* of TicksPerMinute ticks.  The four prices of a rule always move         *)
(* together and are left out.                                              *)
(***************************************************************************)
EXTENDS Integers, FiniteSets

CONSTANTS DaysPerWeek, MinutesPerDay, TicksPerMinute

ASSUME ScheduleAssumption ==
  /\ DaysPerWeek \in Nat \ {0}
  /\ MinutesPerDay \in Nat \ {0}
  /\ TicksPerMinute \in Nat \ {0}

Days == 1 .. DaysPerWeek
Minutes == 0 .. MinutesPerDay - 1
TicksPerDay == MinutesPerDay * TicksPerMinute

\* `until` is Always for a rule without an end; an end is after the start.
Always == 0

Schedule == [enabled: BOOLEAN, priority: Nat, days: (SUBSET Days) \ {{}},
             start: Minutes, end: Minutes, from: Nat, until: Nat,
             created: Nat]

\* localTime.
Weekday(at) == ((at \div TicksPerDay) % DaysPerWeek) + 1
MinuteOfDay(at) == (at \div TicksPerMinute) % MinutesPerDay

DayBefore(d) == IF d = 1 THEN DaysPerWeek ELSE d - 1
DayAfter(d) == IF d = DaysPerWeek THEN 1 ELSE d + 1

\* A window that ends before it starts belongs to the day on which it starts.
MatchesLocalTime(rule, day, minute) ==
  IF rule.start = rule.end THEN day \in rule.days
  ELSE IF rule.start < rule.end
  THEN day \in rule.days /\ rule.start <= minute /\ minute < rule.end
  ELSE \/ day \in rule.days /\ rule.start <= minute
       \/ DayBefore(day) \in rule.days /\ minute < rule.end

InForce(rule, at) == rule.from <= at /\ (rule.until = Always \/ rule.until > at)

Applies(rule, at) ==
  /\ rule.enabled /\ InForce(rule, at)
  /\ MatchesLocalTime(rule, Weekday(at), MinuteOfDay(at))

\* sortRules, the ids being numbers.  Q[r] is the schedule of rule r.
Outranks(Q, r, s) ==
  LET a == Q[r]
      b == Q[s]
  IN \/ a.priority > b.priority
     \/ /\ a.priority = b.priority
        /\ \/ a.from > b.from
           \/ /\ a.from = b.from
              /\ a.created > b.created \/ (a.created = b.created /\ r < s)

\* resolveChannelCost: 0 stands for none.
ResolveChannelCost(Q, at) ==
  LET applying == {r \in DOMAIN Q : Applies(Q[r], at)}
  IN IF applying = {} THEN 0
     ELSE CHOOSE r \in applying : \A s \in applying \ {r} : Outranks(Q, r, s)

\* resolveChannelCostWithFallback: the source of the cost and its rule.
Resolved(Q, fallback, at) ==
  LET r == ResolveChannelCost(Q, at)
  IN IF r # 0 THEN <<"CHANNEL_COST_RULE", r>>
     ELSE IF fallback THEN <<"PUBLIC_MODEL_FALLBACK", 0>> ELSE <<"NONE", 0>>

-----------------------------------------------------------------------------
(* The next transition.                                                    *)

Least(S) == CHOOSE x \in S : \A y \in S : x <= y

\* Eight days: a week and the day it starts in.
Horizon == (DaysPerWeek + 1) * TicksPerDay

NoTransition == [at |-> 0 - 1, cost |-> <<"NONE", 0>>]

\* transitionCandidates: the starts of minutes and the bounds of validity.
TransitionCandidates(from, until, boundaries) ==
  {t \in from + 1 .. until : t % TicksPerMinute = 0 \/ t \in boundaries}

\* The loop looks at one horizon after another; `current` follows the cost,
\* so the first change of a horizon is the first difference from its start.
NextCostTransition(Q, fallback, at) ==
  LET boundaries == {t \in {Q[r].from : r \in DOMAIN Q} \cup {Q[r].until : r \in DOMAIN Q} :
                       t # Always /\ t > at}
      enabled == {r \in DOMAIN Q : Q[r].enabled}
      unchanging == /\ boundaries = {}
                    /\ \A r \in enabled : Q[r].start = Q[r].end /\ Q[r].days = Days
      valid == {r \in enabled : InForce(Q[r], at)}
      first == IF valid # {} \/ boundaries = {} THEN <<at, at + Horizon>>
               ELSE <<Least(boundaries) - 1, Least(boundaries) + Horizon>>
      windows == {first} \cup {<<b - 1, b + Horizon>> : b \in boundaries}
      Changes(w) == {t \in TransitionCandidates(w[1], w[2], boundaries) :
                       Resolved(Q, fallback, t) # Resolved(Q, fallback, w[1])}
      search[w \in windows] ==
        LET later == {b \in boundaries : b > w[2]}
        IN IF Changes(w) # {}
           THEN [at |-> Least(Changes(w)), cost |-> Resolved(Q, fallback, Least(Changes(w)))]
           ELSE IF later = {} THEN NoTransition
           ELSE search[<<Least(later) - 1, Least(later) + Horizon>>]
  IN IF enabled = {} \/ unchanging THEN NoTransition ELSE search[first]

\* What "next" means: the first instant with another cost.  After the last
\* boundary the schedule repeats itself every week.
EarliestChange(Q, fallback, at) ==
  LET bounds == {Q[r].from : r \in DOMAIN Q} \cup {Q[r].until : r \in DOMAIN Q} \cup {at}
      end == (CHOOSE t \in bounds : \A u \in bounds : u <= t) + Horizon
      changes == {t \in at + 1 .. end : Resolved(Q, fallback, t) # Resolved(Q, fallback, at)}
  IN IF changes = {} THEN NoTransition
     ELSE [at |-> Least(changes), cost |-> Resolved(Q, fallback, Least(changes))]

-----------------------------------------------------------------------------
(* Overlaps, coverage, reservations.                                       *)

\* Mutant of Marked: a window over midnight ends with its day.
MarkedToMidnight(rule, day) ==
  IF rule.start < rule.end THEN {day} \X (rule.start .. rule.end - 1)
  ELSE {day} \X (IF rule.start = rule.end THEN Minutes ELSE rule.start .. MinutesPerDay - 1)

\* `mark` for one day of the rule.
Marked(rule, day) ==
  IF rule.start = rule.end THEN {day} \X Minutes
  ELSE IF rule.start < rule.end THEN {day} \X (rule.start .. rule.end - 1)
  ELSE ({day} \X (rule.start .. MinutesPerDay - 1))
         \cup ({DayAfter(day)} \X (0 .. rule.end - 1))

WeeklyMinutes(rule) == UNION {Marked(rule, day) : day \in rule.days}

CostRulesOverlap(a, b) ==
  /\ a.enabled /\ b.enabled
  /\ ~(a.until # Always /\ a.until <= b.from)
  /\ ~(b.until # Always /\ b.until <= a.from)
  /\ WeeklyMinutes(a) \cap WeeklyMinutes(b) # {}

ActiveRules(Q, at) == {r \in DOMAIN Q : Q[r].enabled /\ InForce(Q[r], at)}

\* The minutes of a week that the rules in force at an instant cover.
CoveredWeek(Q, at) == UNION {WeeklyMinutes(Q[r]) : r \in ActiveRules(Q, at)}

\* weeklyCoverage: minutes with a rule, minutes left to the fallback, and
\* minutes without a cost.
WeeklyCoverage(Q, fallback, at) ==
  LET covered == Cardinality(CoveredWeek(Q, at))
      remaining == DaysPerWeek * MinutesPerDay - covered
  IN [rules |-> covered, fallback |-> IF fallback THEN remaining ELSE 0,
      uncovered |-> IF fallback THEN 0 ELSE remaining]

\* statusFor.
CostStatus(Q, disabled, fallback, at) ==
  LET rules == WeeklyCoverage(Q, fallback, at).rules
      future == {r \in DOMAIN Q : Q[r].enabled /\ Q[r].from > at}
  IN CASE disabled -> "DISABLED"
       [] ~disabled /\ rules = DaysPerWeek * MinutesPerDay -> "CHANNEL_RULE_ACTIVE"
       [] ~disabled /\ 0 < rules /\ rules < DaysPerWeek * MinutesPerDay /\ fallback -> "PARTIAL_FALLBACK"
       [] ~disabled /\ rules = 0 /\ future # {} -> "UPCOMING"
       [] ~disabled /\ rules = 0 /\ future = {} /\ fallback -> "FALLBACK_ONLY"
       [] OTHER -> "NO_COST"

\* highestReservationCost of the prices in S.
HighestReservationCost(S) == CHOOSE x \in S : \A y \in S : y <= x
-----------------------------------------------------------------------------
(* What the administrator's page shows and sends (costRuleLifecycle, the   *)
(* weekly timeline and the form of a rule in                               *)
(* apps/admin/src/procurement-costs.ts).  A slot of the timeline is        *)
(* `length` minutes long, half an hour in the code.                        *)

CostRuleLifecycle(rule, archived, at) ==
  IF archived THEN "ARCHIVED"
  ELSE IF ~rule.enabled THEN "DISABLED"
  ELSE IF rule.from > at THEN "UPCOMING"
  ELSE IF rule.until # Always /\ rule.until <= at THEN "EXPIRED"
  ELSE "CURRENT"

CoversSlot(rule, weekday, minute) ==
  LET starting == weekday \in rule.days
      previous == (IF weekday = 1 THEN DaysPerWeek ELSE weekday - 1) \in rule.days
  IN IF rule.start = rule.end THEN starting
     ELSE IF rule.start < rule.end
     THEN starting /\ minute >= rule.start /\ minute < rule.end
     ELSE (starting /\ minute >= rule.start) \/ (previous /\ minute < rule.end)

TimelineSlots(length) == Days \X {m \in Minutes : m % length = 0}

SelectedLocalSlot(at, length) ==
  <<Weekday(at), (MinuteOfDay(at) \div length) * length>>

\* buildWeeklyCostTimeline: the rule and the kind of each slot; `archived` is
\* the set of archived rules.
WeeklyCostTimeline(Q, archived, fallback, at, length) ==
  LET active == {r \in DOMAIN Q : CostRuleLifecycle(Q[r], r \in archived, at) = "CURRENT"}
      Covering(slot) == {r \in active : CoversSlot(Q[r], slot[1], slot[2])}
      Winner(slot) == CHOOSE r \in Covering(slot) :
                        \A s \in Covering(slot) \ {r} : Outranks(Q, r, s)
  IN [slot \in TimelineSlots(length) |->
        IF Covering(slot) # {}
        THEN [rule |-> Winner(slot),
              kind |-> IF Q[Winner(slot)].priority > 0 THEN "CHANNEL_OVERRIDE" ELSE "CHANNEL_BASE"]
        ELSE [rule |-> 0, kind |-> IF fallback THEN "PUBLIC_FALLBACK" ELSE "UNCOVERED"]]

\* The form keeps dates: dateInTimezone and zonedMidnight.
NoDate == 0 - 1
DateInTimezone(at) == at \div TicksPerDay
ZonedMidnight(date) == date * TicksPerDay

\* draftFromCostRule.
DraftFromCostRule(rule) ==
  [days |-> rule.days, allDay |-> rule.start = rule.end, start |-> rule.start, end |-> rule.end,
   priority |-> rule.priority, from |-> DateInTimezone(rule.from),
   until |-> IF rule.until = Always THEN NoDate ELSE DateInTimezone(rule.until)]

\* What costRulePayload refuses, and what it sends.
AcceptedDraft(draft) ==
  /\ draft.days # {}
  /\ draft.until # NoDate => ZonedMidnight(draft.until) > ZonedMidnight(draft.from)
  /\ ~draft.allDay => draft.start # draft.end

CostRulePayload(draft) ==
  [days |-> draft.days, priority |-> draft.priority,
   start |-> IF draft.allDay THEN 0 ELSE draft.start,
   end |-> IF draft.allDay THEN 0 ELSE draft.end,
   from |-> ZonedMidnight(draft.from),
   until |-> IF draft.until = NoDate THEN Always ELSE ZonedMidnight(draft.until)]

\* A rule opened in the form and saved as it is.
SavedUnchanged(rule) ==
  LET sent == CostRulePayload(DraftFromCostRule(rule))
  IN [rule EXCEPT !.days = sent.days, !.priority = sent.priority, !.start = sent.start,
                  !.end = sent.end, !.from = sent.from, !.until = sent.until]
=============================================================================
