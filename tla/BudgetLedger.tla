----------------------------- MODULE BudgetLedger -----------------------------
(***************************************************************************)
(* The durable budget ledger of one usage group                            *)
(* (packages/quota/src/group-budget.service.ts): its budget periods, the   *)
(* REQUEST entries that reserve and settle money in them, the usage log    *)
(* written with each entry, and the administrators' adjustments.           *)
(*                                                                         *)
(* Each method of the service is one database transaction that locks the   *)
(* group row first, then the period, then the entry, so each is one        *)
(* action.  A call that throws, or that returns what an earlier identical  *)
(* call recorded, changes nothing: it is a stuttering step.                *)
(***************************************************************************)
EXTENDS Totals

CONSTANTS
  Requests,      \* request ids of the model calls made in this group
  Attempts,      \* attempt ids a request may extend its reservation for
  Operations,    \* operation UUIDs of the administrators' calls
  Applications,  \* budget application ids
  Amounts,       \* CNY amounts the gateway and the administrators use
  Limits,        \* CNY limits an administrator may set
  Timezones,     \* budget timezones
  Months,        \* month keys "yyyy-mm" that may open
  MonthOf,       \* MonthOf[tz][t] is the month of instant t in timezone tz
  TotalKey,      \* the one period key of a group in TOTAL mode
  MaxClock,      \* bound on the clock
  LeaseTicks     \* how long a dispatch lease lasts

ASSUME LedgerAssumption ==
  /\ IsFiniteSet(Requests)
  /\ Amounts \subseteq Nat
  /\ Limits \subseteq Nat
  /\ MaxClock \in Nat \ {0}
  /\ LeaseTicks \in Nat \ {0}
  /\ MonthOf \in [Timezones -> [1 .. MaxClock -> Months]]
  /\ TotalKey \notin Months
  /\ Timezones # {}

VARIABLES
  group,        \* the usage_groups row
  period,       \* the group_budget_periods rows, by period key
  entry,        \* the REQUEST rows of group_budget_entries, by request
  outbox,       \* what the snapshot of an entry still owes the Redis quota
  log,          \* the usage_logs rows, by request
  done,         \* operation ids recorded by an adjustment entry
  application,  \* the group_budget_applications rows
  clock         \* the current instant

ledgerVars == <<group, period, entry, outbox, log, done, application, clock>>

PeriodKeys == Months \cup {TotalKey}
NoLease == 0
NoActual == -1
Instants == 1 .. MaxClock

Group == [mode: {"TOTAL", "MONTHLY"}, timezone: Timezones,
          limit: Nat, unlimited: BOOLEAN, archived: BOOLEAN]

Period == [exists: BOOLEAN, limit: Nat, unlimited: BOOLEAN, spent: Int,
           reserved: Int, alerted: {0, 80, 100}, timezone: Timezones]

Entry == [status: {"NONE", "RESERVED", "RECONCILIATION_REQUIRED",
                   "SETTLED", "RELEASED"},
          period: PeriodKeys, startedAt: Instants, reserved: Nat,
          settled: Nat, dispatched: BOOLEAN, lease: Nat,
          extensions: SUBSET Attempts, held: BOOLEAN, manualFinal: BOOLEAN]

Outbox == [actual: Nat \cup {NoActual}, version: Nat, corrected: Nat,
           synced: BOOLEAN]

Log == [written: BOOLEAN, cost: Nat,
        billing: {"NONE", "UNKNOWN", "KNOWN", "NO_CHARGE"}]

Application ==
  [status: {"NONE", "SUBMITTING", "REGISTERED", "LINKED", "REJECTED"},
   approved: Nat]

LedgerTypeOK ==
  /\ group \in Group
  /\ period \in [PeriodKeys -> Period]
  /\ entry \in [Requests -> Entry]
  /\ outbox \in [Requests -> Outbox]
  /\ log \in [Requests -> Log]
  /\ done \subseteq Operations
  /\ application \in [Applications -> Application]
  /\ clock \in Instants

-------------------------------------------------------------------------------
(* Period arithmetic.                                                      *)

\* budgetPeriodKey: one key in TOTAL mode, else the month in the timezone.
PeriodKey(mode, tz, at) == IF mode = "TOTAL" THEN TotalKey ELSE MonthOf[tz][at]

CurrentKey(at) == PeriodKey(group.mode, group.timezone, at)

\* period(): the row of key k, created from the group's defaults at first use.
PeriodRow(k, g) ==
  IF period[k].exists THEN period[k]
  ELSE [exists |-> TRUE, limit |-> g.limit, unlimited |-> g.unlimited,
        spent |-> 0, reserved |-> 0, alerted |-> 0, timezone |-> g.timezone]

\* Mutant of HasFunds: what is reserved is not counted.
HasUnspentFunds(p, amount) ==
  p.unlimited \/ (p.limit # 0 /\ amount <= p.limit - p.spent)

\* checkFunds.
HasFunds(p, amount) ==
  p.unlimited \/ (p.limit # 0 /\ amount <= p.limit - p.spent - p.reserved)

\* Mutant of Threshold: it also alerts at half, as the Redis quota does.
HalfThreshold(p) ==
  LET used == p.spent + p.reserved IN
  IF p.unlimited THEN 0
  ELSE IF used >= p.limit THEN 100
  ELSE IF 10 * used >= 8 * p.limit THEN 80
  ELSE IF 2 * used >= p.limit THEN 50 ELSE 0

\* alert: the share of the limit that is spent or reserved.
Threshold(p) ==
  LET used == p.spent + p.reserved IN
  CASE p.unlimited            -> 0
    [] ~p.unlimited /\ used >= p.limit -> 100
    [] ~p.unlimited /\ used < p.limit /\ 10 * used >= 8 * p.limit -> 80
    [] OTHER                  -> 0

\* Mutant of Alerted: it looks at what is spent only.
AlertedOnSpent(p) ==
  LET t == Threshold([p EXCEPT !.reserved = 0]) IN
  IF t > p.alerted THEN [p EXCEPT !.alerted = t] ELSE p

\* alert raises the recorded threshold and never lowers it.
Alerted(p) ==
  IF Threshold(p) > p.alerted THEN [p EXCEPT !.alerted = Threshold(p)] ELSE p

-------------------------------------------------------------------------------
(* The rows of a request.                                                  *)

Open(r) == entry[r].status \in {"RESERVED", "RECONCILIATION_REQUIRED"}

NewEntry ==
  [status |-> "NONE", period |-> TotalKey, startedAt |-> 1, reserved |-> 0,
   settled |-> 0, dispatched |-> FALSE, lease |-> NoLease,
   extensions |-> {}, held |-> FALSE, manualFinal |-> FALSE]

NewOutbox == [actual |-> NoActual, version |-> 0, corrected |-> 0,
              synced |-> FALSE]

\* The rows when only the period of key `now` has been opened.
InitialPeriod(now, tz, limit) ==
  [k \in PeriodKeys |->
     [exists |-> k = now, limit |-> IF k = now THEN limit ELSE 0,
      unlimited |-> FALSE, spent |-> 0, reserved |-> 0,
      alerted |-> IF k = now /\ limit = 0 THEN 100 ELSE 0, timezone |-> tz]]

\* A ledger whose current period an administrator has funded: CURRENT and
\* DEFAULT limits have been set once and no request has been made.
LedgerInit ==
  \E mode \in {"TOTAL", "MONTHLY"}, tz \in Timezones,
     limit, default \in Limits :
       /\ group = [mode |-> mode, timezone |-> tz, limit |-> default,
                   unlimited |-> FALSE, archived |-> FALSE]
       /\ period = InitialPeriod(PeriodKey(mode, tz, 1), tz, limit)
       /\ entry = [r \in Requests |-> NewEntry]
       /\ outbox = [r \in Requests |-> NewOutbox]
       /\ log = [r \in Requests |-> [written |-> FALSE, cost |-> 0,
                                     billing |-> "NONE"]]
       /\ done = {}
       /\ application = [a \in Applications |-> [status |-> "NONE",
                                                 approved |-> 0]]
       /\ clock = 1

-------------------------------------------------------------------------------
(* The gateway's calls.                                                    *)

\* reserve: the period is the one the request STARTED in.
Reserve(r, at, amount) ==
  LET k == CurrentKey(at)
      p == PeriodRow(k, group)
  IN /\ entry[r].status = "NONE"
     /\ ~group.archived
     /\ HasFunds(p, amount)
     /\ period' = [period EXCEPT ![k] =
                     Alerted([p EXCEPT !.reserved = @ + amount])]
     /\ entry' = [entry EXCEPT ![r] =
                    [NewEntry EXCEPT !.status = "RESERVED", !.period = k,
                                     !.startedAt = at, !.reserved = amount,
                                     !.lease = clock + LeaseTicks]]
     /\ UNCHANGED <<group, outbox, log, done, application, clock>>

\* extend: another attempt of the same request, once per attempt id.
Extend(r, attempt, amount) ==
  LET k == entry[r].period IN
  /\ Open(r)
  /\ attempt \notin entry[r].extensions
  /\ HasFunds(period[k], amount)
  /\ period' = [period EXCEPT ![k] =
                  Alerted([period[k] EXCEPT !.reserved = @ + amount])]
  /\ entry' = [entry EXCEPT ![r] =
                 [entry[r] EXCEPT !.reserved = @ + amount,
                                  !.extensions = @ \cup {attempt}]]
  /\ UNCHANGED <<group, outbox, log, done, application, clock>>

\* Mutants of SettledPeriod: it gives back the cost and not the reservation;
\* it adds the whole cost of a request that was held first.
CostReleasedPeriod(p, e, amount) ==
  [p EXCEPT !.spent = @ + amount - e.settled, !.reserved = @ - amount]

TwiceSpentPeriod(p, e, amount) ==
  [p EXCEPT !.spent = @ + amount, !.reserved = @ - e.reserved]

\* settle's movement of money: actual cost in, the whole reservation out.
SettledPeriod(p, e, amount) ==
  [p EXCEPT !.spent = @ + amount - e.settled, !.reserved = @ - e.reserved]

\* Mutant of Settle: the log that hold wrote is left as it is.
SettleKeepsLog(r, amount) ==
  LET k == entry[r].period IN
  /\ ~entry[r].manualFinal
  /\ Open(r)
  /\ log' = IF log[r].written THEN log
            ELSE [log EXCEPT ![r] = [written |-> TRUE, cost |-> amount,
                                     billing |-> "KNOWN"]]
  /\ period' = [period EXCEPT ![k] =
                  Alerted(SettledPeriod(period[k], entry[r], amount))]
  /\ entry' = [entry EXCEPT ![r] =
                 [entry[r] EXCEPT !.status = "SETTLED", !.settled = amount,
                                  !.lease = NoLease]]
  /\ outbox' = [outbox EXCEPT ![r] =
                  [outbox[r] EXCEPT !.actual = amount, !.synced = FALSE]]
  /\ UNCHANGED <<group, done, application, clock>>

\* settle: every attempt's cost is known (CONFIRMED or ESTIMATED).
Settle(r, amount) ==
  LET k == entry[r].period IN
  /\ ~entry[r].manualFinal
  /\ Open(r)
  /\ log[r].written => entry[r].held /\ log[r].cost = entry[r].settled
  /\ log' = [log EXCEPT ![r] = [written |-> TRUE, cost |-> amount,
                                billing |-> "KNOWN"]]
  /\ period' = [period EXCEPT ![k] =
                  Alerted(SettledPeriod(period[k], entry[r], amount))]
  /\ entry' = [entry EXCEPT ![r] =
                 [entry[r] EXCEPT !.status = "SETTLED", !.settled = amount,
                                  !.lease = NoLease]]
  /\ outbox' = [outbox EXCEPT ![r] =
                  [outbox[r] EXCEPT !.actual = amount, !.synced = FALSE]]
  /\ UNCHANGED <<group, done, application, clock>>

\* hold: some attempt's cost is unknown; its estimate stays reserved.
Hold(r, actual, unresolved) ==
  LET k == entry[r].period IN
  /\ ~entry[r].manualFinal /\ ~entry[r].held
  /\ Open(r)
  /\ ~log[r].written
  /\ log' = [log EXCEPT ![r] = [written |-> TRUE, cost |-> actual,
                                billing |-> "UNKNOWN"]]
  /\ period' = [period EXCEPT ![k] =
                  Alerted([period[k] EXCEPT
                    !.spent = @ + actual,
                    !.reserved = @ + unresolved - entry[r].reserved])]
  /\ entry' = [entry EXCEPT ![r] =
                 [entry[r] EXCEPT !.status = "RECONCILIATION_REQUIRED",
                                  !.settled = actual, !.reserved = unresolved,
                                  !.lease = NoLease, !.held = TRUE]]
  /\ UNCHANGED <<group, outbox, done, application, clock>>

\* releaseEntry: give the reservation back.
ReleaseEntry(r) ==
  LET k == entry[r].period IN
  /\ period' = [period EXCEPT ![k] =
                  [period[k] EXCEPT !.reserved = @ - entry[r].reserved]]
  /\ entry' = [entry EXCEPT ![r] =
                 [entry[r] EXCEPT !.status = "RELEASED", !.lease = NoLease]]
  /\ outbox' = [outbox EXCEPT ![r] = [outbox[r] EXCEPT !.synced = FALSE]]
  /\ UNCHANGED <<group, log, done, application, clock>>

\* release: only a request that was never dispatched.
Release(r) ==
  /\ entry[r].status = "RESERVED"
  /\ ~entry[r].dispatched
  /\ ReleaseEntry(r)

\* markDispatched: before each attempt, and from the heartbeat.
MarkDispatched(r, leaseUntil) ==
  /\ entry[r].status = "RESERVED"
  /\ entry' = [entry EXCEPT ![r] =
                 [entry[r] EXCEPT !.dispatched = TRUE, !.lease = leaseUntil]]
  /\ UNCHANGED <<group, period, outbox, log, done, application, clock>>

\* Mutant of Uncertain: the lease stays.
UncertainLeased(r) ==
  /\ entry' = [entry EXCEPT ![r] =
                 [entry[r] EXCEPT !.status = "RECONCILIATION_REQUIRED"]]
  /\ UNCHANGED <<group, period, outbox, log, done, application, clock>>

Uncertain(r) ==
  /\ entry' = [entry EXCEPT ![r] =
                 [entry[r] EXCEPT !.status = "RECONCILIATION_REQUIRED",
                                  !.lease = NoLease]]
  /\ UNCHANGED <<group, period, outbox, log, done, application, clock>>

\* Mutant of MarkUncertain: no early return for a final entry.
MarkAnyUncertain(r) ==
  /\ entry[r].status # "NONE"
  /\ Uncertain(r)

\* markUncertain: a no-op on an entry that is already final.
MarkUncertain(r) ==
  /\ Open(r)
  /\ Uncertain(r)

-------------------------------------------------------------------------------
(* The worker's calls.                                                     *)

\* Mutant of RecoverExpired: the dispatch is not looked at.
ReleaseExpired(r, now) ==
  /\ entry[r].status = "RESERVED"
  /\ entry[r].lease # NoLease /\ entry[r].lease <= now
  /\ ReleaseEntry(r)

\* recoverExpired, for one entry: `now` is the instant the scan began, and
\* the entry is read again under its lock.
RecoverExpired(r, now) ==
  /\ entry[r].status = "RESERVED"
  /\ entry[r].lease # NoLease /\ entry[r].lease <= now
  /\ \/ entry[r].dispatched /\ Uncertain(r)
     \/ ~entry[r].dispatched /\ ReleaseEntry(r)

\* The last step of syncQuota: the entry is synchronised unless a correction
\* arrived after the snapshot was read (`version` is the one read).
ConfirmSync(r, version) ==
  /\ entry[r].status \in {"SETTLED", "RELEASED"}
  /\ ~outbox[r].synced
  /\ outbox[r].version = version
  /\ outbox' = [outbox EXCEPT ![r] = [outbox[r] EXCEPT !.synced = TRUE]]
  /\ UNCHANGED <<group, period, entry, log, done, application, clock>>

-------------------------------------------------------------------------------
(* The administrators' calls.                                              *)

\* reconcile replaces whatever cost was recorded by the supplier's bill.
ReconciledPeriod(p, e, amount) ==
  [p EXCEPT !.spent = @ + amount - e.settled,
            !.reserved = IF e.status = "RECONCILIATION_REQUIRED"
                         THEN @ - e.reserved ELSE @]

\* reconcile: by hand, on a settled or an uncertain request, any number of
\* times until it is released.
Reconcile(r, o, action, amount) ==
  LET k == entry[r].period IN
  /\ action = "RELEASE" => amount = 0
  /\ o \notin done
  /\ entry[r].status \in {"SETTLED", "RECONCILIATION_REQUIRED"}
  /\ log' = [log EXCEPT ![r] =
               [written |-> TRUE, cost |-> amount,
                billing |-> IF action = "RELEASE" THEN "NO_CHARGE"
                            ELSE "KNOWN"]]
  /\ period' = [period EXCEPT ![k] =
                  Alerted(ReconciledPeriod(period[k], entry[r], amount))]
  /\ entry' = [entry EXCEPT ![r] =
       [entry[r] EXCEPT
          !.status = IF action = "RELEASE" THEN "RELEASED" ELSE "SETTLED",
          !.settled = amount, !.lease = NoLease, !.manualFinal = TRUE]]
  /\ outbox' = [outbox EXCEPT ![r] =
       [outbox[r] EXCEPT
          !.actual = IF @ = NoActual THEN amount ELSE @,
          !.version = @ + 1, !.corrected = amount, !.synced = FALSE]]
  /\ done' = done \cup {o}
  /\ UNCHANGED <<group, application, clock>>

\* adjust refuses a limit below what is already spent and reserved.
LimitFits(p, limit, unlimited) == unlimited \/ limit >= p.spent + p.reserved

\* adjust, scope CURRENT: the named period, or the current one.
SetLimit(o, k, limit, unlimited) ==
  LET p == PeriodRow(k, group) IN
  /\ o \notin done
  /\ ~group.archived
  /\ period[k].exists \/ k = CurrentKey(clock)
  /\ LimitFits(p, limit, unlimited)
  /\ period' = [period EXCEPT ![k] =
       Alerted([p EXCEPT !.limit = limit, !.unlimited = unlimited])]
  /\ done' = done \cup {o}
  /\ UNCHANGED <<group, entry, outbox, log, clock>>

AdjustCurrent(o, k, limit, unlimited) ==
  /\ SetLimit(o, k, limit, unlimited)
  /\ UNCHANGED application

\* adjust with an application id: the application is decided with the limit.
ApproveApplication(o, a, k, limit, unlimited) ==
  /\ application[a].status = "REGISTERED"
  /\ SetLimit(o, k, limit, unlimited)
  /\ application' = [application EXCEPT ![a] = [status |-> "LINKED",
                                                approved |-> limit]]

\* adjust, scope DEFAULT: the limit of the periods still to be opened.  The
\* current period is opened first, with the defaults it had.
AdjustDefault(o, limit, unlimited) ==
  LET k == CurrentKey(clock) IN
  /\ o \notin done
  /\ ~group.archived
  /\ period' = [period EXCEPT ![k] = PeriodRow(k, group)]
  /\ group' = [group EXCEPT !.limit = limit, !.unlimited = unlimited]
  /\ done' = done \cup {o}
  /\ UNCHANGED <<entry, outbox, log, application, clock>>

\* Mutants of Occupied: requests open in other periods, or closed in the
\* target period, do not count.
OccupiedByCurrent(now, target) ==
  \E r \in Requests : /\ entry[r].status # "NONE"
                      /\ entry[r].period \in {now, target}

OccupiedButTarget(now, target) ==
  \E r \in Requests : /\ entry[r].status # "NONE"
                      /\ entry[r].period = now \/ Open(r)

\* configure's refusal: a request in the current period, in the target
\* period, or open in any period.
Occupied(now, target) ==
  \E r \in Requests : /\ entry[r].status # "NONE"
                      /\ entry[r].period \in {now, target} \/ Open(r)

\* configure: change the mode or the timezone of the periods.
Configure(o, mode, tz) ==
  LET now     == CurrentKey(clock)
      target  == PeriodKey(mode, tz, clock)
      changed == [group EXCEPT !.mode = mode, !.timezone = tz]
      opened  == [period EXCEPT ![now] = PeriodRow(now, group)]
      row     == IF opened[target].exists THEN opened[target]
                 ELSE PeriodRow(target, changed)
  IN /\ o \notin done
     /\ ~group.archived
     /\ mode # group.mode \/ tz # group.timezone => ~Occupied(now, target)
     /\ group' = changed
     /\ period' = [opened EXCEPT ![target] = [row EXCEPT !.timezone = tz]]
     /\ done' = done \cup {o}
     /\ UNCHANGED <<entry, outbox, log, application, clock>>

Mark(a, status) ==
  /\ application' = [application EXCEPT ![a] =
                       [application[a] EXCEPT !.status = status]]
  /\ UNCHANGED <<group, period, entry, outbox, log, done, clock>>

\* submitApplication reads the group's archive flag, then inserts the row.
CheckApplication(a) ==
  /\ application[a].status = "NONE"
  /\ ~group.archived
  /\ Mark(a, "SUBMITTING")

SubmitApplication(a) ==
  /\ application[a].status = "SUBMITTING"
  /\ Mark(a, "REGISTERED")

RejectApplication(a) ==
  /\ application[a].status = "REGISTERED"
  /\ ~group.archived
  /\ Mark(a, "REJECTED")

\* archive: requests that are open keep settling, nothing new is admitted.
Archive ==
  /\ ~group.archived
  /\ group' = [group EXCEPT !.archived = TRUE]
  /\ UNCHANGED <<period, entry, outbox, log, done, application, clock>>

Tick ==
  /\ clock < MaxClock
  /\ clock' = clock + 1
  /\ UNCHANGED <<group, period, entry, outbox, log, done, application>>

-------------------------------------------------------------------------------
RequestNext ==
  \E r \in Requests :
    \/ \E at \in 1 .. clock, amount \in Amounts : Reserve(r, at, amount)
    \/ \E attempt \in Attempts, amount \in Amounts : Extend(r, attempt, amount)
    \/ \E amount \in Amounts : Settle(r, amount)
    \/ \E actual, unresolved \in Amounts : Hold(r, actual, unresolved)
    \/ Release(r)
    \/ MarkDispatched(r, clock + LeaseTicks)
    \/ MarkUncertain(r)
    \/ \E now \in 1 .. clock : RecoverExpired(r, now)
    \/ ConfirmSync(r, outbox[r].version)

AdminNext ==
  \/ \E o \in Operations :
       \/ \E r \in Requests, action \in {"SETTLE", "RELEASE"},
             amount \in Amounts : Reconcile(r, o, action, amount)
       \/ \E limit \in Limits, unlimited \in BOOLEAN :
            \/ AdjustDefault(o, limit, unlimited)
            \/ \E k \in PeriodKeys :
                 \/ AdjustCurrent(o, k, limit, unlimited)
                 \/ \E a \in Applications :
                      ApproveApplication(o, a, k, limit, unlimited)
       \/ \E mode \in {"TOTAL", "MONTHLY"}, tz \in Timezones :
            Configure(o, mode, tz)
  \/ \E a \in Applications :
       CheckApplication(a) \/ SubmitApplication(a) \/ RejectApplication(a)
  \/ Archive

LedgerNext == RequestNext \/ AdminNext \/ Tick

LedgerSpec == LedgerInit /\ [][LedgerNext]_ledgerVars

-------------------------------------------------------------------------------
(* The ledger as an implementation of BudgetAccount.                       *)

\* The deal that an entry records.
DealOf(e) ==
  LET open == e.status \in {"RESERVED", "RECONCILIATION_REQUIRED"} IN
  IF e.status = "NONE" THEN [state |-> "NONE"]
  ELSE [state     |-> CASE open /\ ~e.held          -> "OPEN"
                        [] open /\ e.held           -> "HELD"
                        [] e.status = "SETTLED"     -> "SETTLED"
                        [] OTHER                    -> "RETURNED",
        account   |-> e.period,
        promised  |-> IF open THEN e.reserved ELSE 0,
        paid      |-> e.settled,
        sent      |-> e.dispatched,
        corrected |-> e.manualFinal]

\* The limit of a period, which is the group's default until it is opened.
LimitOf(k) ==
  [amount |-> PeriodRow(k, group).limit, unlimited |-> PeriodRow(k, group).unlimited]

Account == INSTANCE BudgetAccount WITH
  Accounts <- PeriodKeys,
  deals <- [r \in Requests |-> DealOf(entry[r])],
  limits <- [k \in PeriodKeys |-> LimitOf(k)]

-------------------------------------------------------------------------------
(* Properties.                                                             *)

\* What the open requests of period k have reserved, by request.
OpenReserved(k) ==
  [r \in Requests |-> IF Open(r) /\ entry[r].period = k
                      THEN entry[r].reserved ELSE 0]

\* What the requests of period k have cost so far, by request.
Costs(k) ==
  [r \in Requests |-> IF entry[r].period = k THEN entry[r].settled ELSE 0]

\* A period's reserved total is the sum of what its open requests hold:
\* no path (settle, hold, release, expiry, reconcile) leaks a reservation or
\* gives one back twice.  Guards availableCny, on which every admission rests.
ReservedConserved ==
  \A k \in PeriodKeys : period[k].reserved = Total(OpenReserved(k), Requests)

\* A period's spent total is the sum of its requests' recorded costs, through
\* holds, settlements after a hold and repeated manual reconciliations.
SpentConserved ==
  \A k \in PeriodKeys : period[k].spent = Total(Costs(k), Requests)

\* Nothing is spent or reserved in a period that was never opened, and a
\* request's period always is: every path that posts money opens the period
\* first (with the group's defaults), so no total is lost to a later upsert.
PeriodsOpened ==
  /\ \A k \in PeriodKeys :
       ~period[k].exists => period[k].spent = 0 /\ period[k].reserved = 0
  /\ \A r \in Requests :
       /\ entry[r].status # "NONE" => period[entry[r].period].exists
       /\ entry[r].status = "NONE" => entry[r].settled = 0

\* The usage log, from which reports bill, and the ledger agree (as long as the
\* log is retained: its deletion by age is no part of this module): a written
\* log carries the entry's cost, a request without a log has cost nothing, and
\* a final entry's log never still says that the cost is unknown.
LogMatchesLedger ==
  \A r \in Requests :
    /\ log[r].cost = entry[r].settled
    /\ entry[r].settled > 0 => log[r].written
    /\ entry[r].status = "SETTLED" => log[r].billing = "KNOWN"
    /\ entry[r].status = "RELEASED" => log[r].billing \in {"NONE", "NO_CHARGE"}

\* A request that may have reached a supplier is never given back by the
\* gateway or the worker: only an administrator can release it.
DispatchedNotRefunded ==
  \A r \in Requests :
    entry[r].status = "RELEASED" /\ entry[r].dispatched => entry[r].manualFinal

\* A RESERVED entry always has a lease, or recoverExpired would never find it
\* and its money would be reserved for ever; no other entry has one.
ReservedHasLease ==
  \A r \in Requests :
    entry[r].status = "RESERVED" <=> entry[r].lease # NoLease

\* While a request is open, its period is the one the group's present mode and
\* timezone give its start: configure never splits a month under a request.
OpenFollowsConfig ==
  \A r \in Requests :
    Open(r) => entry[r].period = CurrentKey(entry[r].startedAt)

\* A period that has spent or reserved money has alerted at least at the
\* threshold it has reached: no change of the totals skips alert().
AlertsCover ==
  \A k \in PeriodKeys :
    period[k].spent + period[k].reserved > 0 =>
      period[k].alerted >= Threshold(period[k])

\* The manual decision is final: a late settle, hold, release or recovery
\* never changes the cost, the status or the log of a reconciled entry.
ManualFinalHolds ==
  [][\A r \in Requests :
       /\ entry[r].manualFinal
       /\ <<entry[r].status, entry[r].settled, log[r]>>'
            # <<entry[r].status, entry[r].settled, log[r]>>
       => outbox'[r].version = outbox[r].version + 1]_ledgerVars

Overdrawn(p) == ~p.unlimited /\ p.spent + p.reserved > p.limit

\* A period becomes overdrawn only by a cost a supplier has already charged
\* or may have charged; no reservation, extension or change of limits does it.
OverdraftOnlyByCost ==
  [][\A k \in PeriodKeys :
       Overdrawn(period[k])' /\ ~Overdrawn(period[k]) =>
         \E r \in Requests :
           /\ entry[r].period = k
           /\ \/ entry'[r].settled > entry[r].settled
              \/ entry'[r].held /\ ~entry[r].held]_ledgerVars

\* A change of mode or timezone finds no request open and leaves the row of
\* every period with requests as it was.
ConfigureSparesHistory ==
  [][<<group.mode, group.timezone>>' # <<group.mode, group.timezone>> =>
       \A r \in Requests :
         entry[r].status # "NONE" =>
           /\ ~Open(r)
           /\ period'[entry[r].period] = period[entry[r].period]]_ledgerVars

\* "An unused period can adopt its new timezone, but existing request history
\* is never rewritten" (group-budget.service.ts:123): a period with requests
\* keeps its timezone.  The refusal is skipped when configure repeats the
\* present mode and timezone, and a period opened under an earlier timezone is
\* then rewritten.
UsedPeriodKeepsTimezone ==
  [][\A r \in Requests :
       entry[r].status # "NONE" =>
         period'[entry[r].period].timezone
           = period[entry[r].period].timezone]_ledgerVars

\* The ledger keeps the promises of a budget account, in which what is used is
\* the sum over the requests: no reservation or extension is made that the
\* limit of its period does not cover, a request that was sent is given back
\* by hand only, what is settled or given back changes by hand only, and a new
\* limit covers what is used.
AccountImplemented == Account!AccountSpec
===============================================================================
