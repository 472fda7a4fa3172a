----------------------------- MODULE UsageViews -----------------------------
(***************************************************************************)
(* What the usage pages add up (apps/api/src/usage-query.ts,               *)
(* analytics.service.ts, usage.controller.ts, profile-usage.service.ts,    *)
(* and the filters of apps/admin/src/views/Analytics.vue).                 *)
(*                                                                         *)
(* A request leaves one log and a route for each attempt.  The pages split *)
(* the cost of a log into allocations: one for each route with a bill, one *)
(* for the whole log if it has none, and one for the difference between    *)
(* the log and its routes.  L is the table of logs, R that of routes and P *)
(* that of projects, as functions from their ids.                          *)
(*                                                                         *)
(* An id is a positive number and a column that may be NULL is Unset.      *)
(* Tokens and latencies are added up like costs and are left out, and so   *)
(* are the conditions on credential, request, session and local project,   *)
(* which compare a column of the log like those on its account and key.    *)
(***************************************************************************)
EXTENDS Totals

Ids == Nat \ {0}
Unset == 0
AnyValue == 0 - 1

RequestStates == {"SUCCESS", "FAILED", "CANCELLED", "INTERRUPTED"}
CostStates == {"CONFIRMED", "ESTIMATED", "UNKNOWN", "NO_CHARGE"}

\* The columns of usage_logs that the views read; status is 2xx or not.
UsageLog ==
  [organization: Ids, account: Ids, model: Ids, channel: Ids, group: Nat, key: Nat,
   project: Nat, mapping: Nat, rule: Nat, price: Ids, started: Nat, cost: Nat,
   billing: CostStates \cup {"NONE"}, estimated: BOOLEAN,
   cancelled: BOOLEAN, interrupted: BOOLEAN, ok: BOOLEAN,
   error: {"NONE", "RECONCILIATION_REQUIRED", "OTHER"}]

\* route_attempts: `billed` when the attempt has a cost of its own.
RouteAttempt ==
  [log: Ids, channel: Ids, mapping: Nat, rule: Nat, price: Ids,
   billing: CostStates \cup {"NONE"}, billed: BOOLEAN, cost: Nat]

UsageReadFilter ==
  [start: Nat, end: Nat, organization: Ids \cup {AnyValue}, account: Ids \cup {AnyValue},
   model: Ids \cup {AnyValue}, project: Ids \cup {AnyValue}, group: Nat \cup {AnyValue},
   key: Nat \cup {AnyValue}, channel: Ids \cup {AnyValue}, mapping: Nat \cup {AnyValue},
   rule: Ids \cup {AnyValue}, price: Ids \cup {AnyValue}, state: RequestStates \cup {"ANY"},
   billing: CostStates \cup {"ANY"}, unallocated: BOOLEAN]

-----------------------------------------------------------------------------
(* The filter.                                                             *)

\* requestStateSql.
RequestState(log) ==
  IF log.cancelled THEN "CANCELLED"
  ELSE IF log.interrupted THEN "INTERRUPTED"
  ELSE IF ~log.ok \/ log.error = "OTHER" THEN "FAILED"
  ELSE "SUCCESS"

\* A log without a state of its own has the one its source of usage implies.
ImpliedBilling(log) == IF log.estimated THEN "ESTIMATED" ELSE "CONFIRMED"
LogBilling(log) == IF log.billing = "NONE" THEN ImpliedBilling(log) ELSE log.billing

\* resolveUsageFilter: the requests it refuses, and the columns it pins.
AcceptedFilter(F, longest) ==
  /\ F.start < F.end /\ F.end - F.start <= longest
  /\ ~(F.channel # AnyValue /\ F.unallocated)

ResolveUsageFilter(principal, F) ==
  [F EXCEPT !.organization = IF principal.role = "PLATFORM_ADMIN" THEN @ ELSE principal.organization,
            !.account = IF principal.role = "MEMBER" THEN principal.sub ELSE @]

HasAllocationFilter(F) ==
  F.channel # AnyValue \/ F.mapping # AnyValue \/ F.rule # AnyValue \/ F.price # AnyValue \/ F.unallocated

Matches(wanted, value) == wanted = AnyValue \/ wanted = value

\* usageWhere, and `requestBilling`: with a condition on the allocations, the
\* state of the bill is asked of these.
UsageWhere(F, log) ==
  /\ F.start <= log.started /\ log.started < F.end
  /\ Matches(F.organization, log.organization) /\ Matches(F.account, log.account)
  /\ Matches(F.model, log.model) /\ Matches(F.project, log.project)
  /\ Matches(F.group, log.group) /\ Matches(F.key, log.key)
  /\ F.state \in {"ANY", RequestState(log)}
  /\ HasAllocationFilter(F) \/ F.billing \in {"ANY", LogBilling(log)}

ScopedUsage(F, L) == {l \in DOMAIN L : UsageWhere(F, L[l])}

-----------------------------------------------------------------------------
(* The allocations (usageReadCte).                                         *)

BilledRoutes(R, l) ==
  {r \in DOMAIN R : R[r].log = l /\ (R[r].billing # "NONE" \/ R[r].billed)}

RouteCost(route) == IF route.billed THEN route.cost ELSE 0

RoutesCost(R, l) == Total([r \in BilledRoutes(R, l) |-> RouteCost(R[r])], BilledRoutes(R, l))

AllocationsOf(L, R, l) ==
  {[kind |-> "ROUTE", log |-> l, route |-> r] : r \in BilledRoutes(R, l)}
    \cup (IF BilledRoutes(R, l) = {}
          THEN {[kind |-> "LEGACY", log |-> l, route |-> Unset]}
          ELSE IF L[l].cost # RoutesCost(R, l)
          THEN {[kind |-> "UNALLOCATED", log |-> l, route |-> Unset]}
          ELSE {})

AllocationCost(L, R, a) ==
  IF a.kind = "ROUTE" THEN RouteCost(R[a.route])
  ELSE IF a.kind = "LEGACY" THEN L[a.log].cost
  ELSE L[a.log].cost - RoutesCost(R, a.log)

\* The channel, mapping, rule and price of an allocation.
Origin(L, R, a) ==
  IF a.kind = "ROUTE" THEN R[a.route]
  ELSE IF a.kind = "LEGACY" THEN L[a.log]
  ELSE [channel |-> Unset, mapping |-> Unset, rule |-> Unset, price |-> Unset]

AllocationBilling(L, R, a) ==
  IF a.kind # "ROUTE" THEN LogBilling(L[a.log])
  ELSE IF R[a.route].billing # "NONE" THEN R[a.route].billing
  ELSE ImpliedBilling(L[a.log])

AllocationWhere(F, L, R, a) ==
  /\ Matches(F.channel, Origin(L, R, a).channel) /\ Matches(F.mapping, Origin(L, R, a).mapping)
  /\ Matches(F.rule, Origin(L, R, a).rule) /\ Matches(F.price, Origin(L, R, a).price)
  /\ HasAllocationFilter(F) => F.billing \in {"ANY", AllocationBilling(L, R, a)}
  /\ F.unallocated => a.kind = "UNALLOCATED"

Allocations(F, L, R) ==
  {a \in UNION {AllocationsOf(L, R, l) : l \in ScopedUsage(F, L)} : AllocationWhere(F, L, R, a)}

-----------------------------------------------------------------------------
(* What the pages show.                                                    *)

MatchedCost(L, R, A) == Balance([a \in A |-> AllocationCost(L, R, a)], A)

\* matched_requests: the logs with an allocation that matches.
MatchedRequests(A) == {a.log : a \in A}

RequestsCost(L, S) == Total([l \in S |-> L[l].cost], S)

\* metricSource: costs come from the allocations or from the logs.
GroupCost(byAllocation, L, R, A) ==
  IF byAllocation THEN MatchedCost(L, R, A) ELSE RequestsCost(L, MatchedRequests(A))

Overview(F, L, R) ==
  LET A == Allocations(F, L, R)
  IN [requests |-> Cardinality(MatchedRequests(A)),
      states |-> [s \in RequestStates |->
                    Cardinality({l \in MatchedRequests(A) : RequestState(L[l]) = s})],
      cost |-> GroupCost(HasAllocationFilter(F), L, R, A)]

LogDimensions == {"organization", "model", "account", "group", "apiKey", "project", "bucket"}
AllocationDimensions == {"channel", "channelModel", "costRule"}

\* The project of a log: the one it names, or the one made of its group.
ProjectOf(P, log) ==
  LET own == {p \in DOMAIN P : /\ P[p].organization = log.organization
                               /\ IF log.project # Unset THEN p = log.project
                                  ELSE log.group # Unset /\ P[p].source = log.group}
  IN IF own = {} THEN Unset ELSE CHOOSE p \in own : TRUE

\* DIMENSIONS; the buckets of timeseries are n units of time long.
DimensionId(d, n, L, R, P, a) ==
  CASE d = "organization" -> L[a.log].organization
    [] d = "model" -> L[a.log].model
    [] d = "account" -> L[a.log].account
    [] d = "group" -> L[a.log].group
    [] d = "apiKey" -> L[a.log].key
    [] d = "project" -> ProjectOf(P, L[a.log])
    [] d = "bucket" -> L[a.log].started \div n
    [] d = "channel" -> Origin(L, R, a).channel
    [] d = "channelModel" -> Origin(L, R, a).mapping
    [] d = "costRule" -> Origin(L, R, a).price

\* groupedRows and timeseries: the allocations and the cost of each row.
RowIds(F, d, n, L, R, P) == {DimensionId(d, n, L, R, P, a) : a \in Allocations(F, L, R)}
Row(F, d, n, L, R, P, k) == {a \in Allocations(F, L, R) : DimensionId(d, n, L, R, P, a) = k}

RowCost(F, d, n, L, R, P, k) ==
  GroupCost(HasAllocationFilter(F) \/ d \in AllocationDimensions, L, R, Row(F, d, n, L, R, P, k))

\* allocation_kind of a row.
RowKind(A) ==
  IF \E kind \in {"ROUTE", "LEGACY", "UNALLOCATED"} : \A a \in A : a.kind = kind
  THEN (CHOOSE a \in A : TRUE).kind ELSE "MIXED"

\* drillQuery, applied to the page's filter by drillFilters.
DrillFilters(F, d, k, kind) ==
  LET G == IF kind = "UNALLOCATED" THEN [F EXCEPT !.unallocated = TRUE, !.channel = AnyValue] ELSE F
  IN CASE d = "channel" -> IF kind = "UNALLOCATED" THEN G
                           ELSE [F EXCEPT !.channel = k, !.unallocated = FALSE]
       [] d = "channelModel" -> [G EXCEPT !.mapping = k]
       [] d = "costRule" -> IF k = Unset THEN G ELSE [G EXCEPT !.price = k, !.rule = AnyValue]
       [] d = "organization" -> [G EXCEPT !.organization = k]
       [] d = "model" -> [G EXCEPT !.model = k]
       [] d = "account" -> [G EXCEPT !.account = k]
       [] d = "group" -> [G EXCEPT !.group = k]
       [] d = "apiKey" -> [G EXCEPT !.key = k]

\* unallocatedCostCny in the detail of one log.
DetailUnallocated(L, R, l) ==
  IF BilledRoutes(R, l) = {} THEN 0 ELSE L[l].cost - RoutesCost(R, l)

-----------------------------------------------------------------------------
(* The budgets on a member's own page (ProfileUsageService.summary).       *)
(* B[p] is the current period of project p.                                *)

ProjectPeriod == [limit: Nat, spent: Nat, reserved: Nat]

PeriodOccupied(b) == b.spent + b.reserved
PeriodAvailable(b) == b.limit - PeriodOccupied(b)

\* totalAvailableCny over the projects with a limit.
TotalAvailable(B) ==
  LET limit == Total([p \in DOMAIN B |-> B[p].limit], DOMAIN B)
      occupied == Total([p \in DOMAIN B |-> PeriodOccupied(B[p])], DOMAIN B)
  IN IF occupied < limit THEN limit - occupied ELSE 0
=============================================================================
