----------------------------- MODULE LedgerViews -----------------------------
(***************************************************************************)
(* What the ledger of a usage group shows: the budget summary              *)
(* (packages/quota/src/group-budget-read.ts), the groups whose budget is   *)
(* at risk (apps/api/src/usage-groups.service.ts), and what a leader sees  *)
(* of the group (led-groups.service.ts).  Each is computed apart from the  *)
(* ledger's own admission and alerts, the risks in SQL; the properties say *)
(* that they agree with them.                                              *)
(***************************************************************************)
EXTENDS BudgetLedger

\* What the requests to be reconciled hold in period k, by request.
UncertainReserved(k) ==
  [r \in Requests |->
     IF entry[r].status = "RECONCILIATION_REQUIRED" /\ entry[r].period = k
     THEN entry[r].reserved ELSE 0]

\* availableCny; it may be negative.
AvailableCny(row) == row.limit - row.spent - row.reserved

\* readGroupBudgets: the current period, or the defaults of the group when it
\* has not been opened.  Without a limit there is no available amount.
GroupBudget(at) ==
  LET k   == CurrentKey(at)
      row == PeriodRow(k, group)
  IN [limit |-> row.limit, unlimited |-> row.unlimited,
      spent |-> row.spent, reserved |-> row.reserved,
      uncertain |-> IF period[k].exists THEN Total(UncertainReserved(k), Requests) ELSE 0,
      available |-> IF row.unlimited THEN {} ELSE {AvailableCny(row)}]

-----------------------------------------------------------------------------
(* riskPage.                                                               *)

Occupation(b) == b.spent + b.reserved

Exhausted(b) == ~b.unlimited /\ (b.limit <= 0 \/ Occupation(b) >= b.limit)
Unsettled(b) == b.uncertain > 0
NearLimit(b) == /\ ~b.unlimited /\ b.limit > 0
                /\ 10 * Occupation(b) >= 8 * b.limit /\ Occupation(b) < b.limit

Risks(b) == {risk \in {"EXHAUSTED", "UNSETTLED", "NEAR_LIMIT"} :
               CASE risk = "EXHAUSTED" -> Exhausted(b)
                 [] risk = "UNSETTLED" -> Unsettled(b)
                 [] OTHER -> NearLimit(b)}

\* The group is on the page of groups at risk, and its place there.
AtRisk(b, filter) == IF filter = "ANY" THEN Risks(b) # {} ELSE filter \in Risks(b)
RiskRank(b) == IF Exhausted(b) THEN 0 ELSE IF Unsettled(b) THEN 1 ELSE 2

\* The status filter of the list of groups.
Listed(status, enabled) ==
  CASE status = "archived" -> group.archived
    [] status = "all"      -> TRUE
    [] OTHER               -> ~group.archived /\ enabled = (status = "active")

-----------------------------------------------------------------------------
(* The leader's pages.                                                     *)

\* resolveRange, in instants; 90 days at most.
InRange(start, end) == start < end /\ end - start <= 90

\* usage: the logs of the requests that started in the range, by the log's
\* cost; a request without a log is not seen yet.
UsageIn(start, end) ==
  {r \in Requests : log[r].written /\ start <= entry[r].startedAt /\ entry[r].startedAt < end}

UsageCost(start, end) ==
  Total([r \in Requests |-> IF r \in UsageIn(start, end) THEN log[r].cost ELSE 0], Requests)

\* applications: every one that has been inserted, whatever became of it.
LedApplications ==
  {a \in Applications : application[a].status \in {"REGISTERED", "LINKED", "REJECTED"}}

-----------------------------------------------------------------------------
(* Properties.                                                             *)

\* The page of groups at risk agrees with the ledger: a group is shown as
\* exhausted exactly when its current period admits no amount at all, the
\* risks are those that the ledger alerts at, and what is uncertain is a part
\* of what is reserved.
RisksMatchLedger ==
  LET b   == GroupBudget(clock)
      row == PeriodRow(CurrentKey(clock), group)
  IN /\ Exhausted(b) <=> \A amount \in Nat \ {0} : ~HasFunds(row, amount)
     /\ Exhausted(b) <=> Threshold(row) = 100
     /\ NearLimit(b) <=> Threshold(row) = 80
     /\ 0 <= b.uncertain /\ b.uncertain <= b.reserved

\* The reports and the budget show the same money: what the usage logs of a
\* period's requests cost, while they are retained, is what the period has spent.
UsageMatchesSpending ==
  \A k \in PeriodKeys :
    period[k].spent =
      Total([r \in Requests |-> IF entry[r].period = k THEN log[r].cost ELSE 0], Requests)
=============================================================================
