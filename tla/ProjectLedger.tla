---------------------------- MODULE ProjectLedger ----------------------------
(***************************************************************************)
(* The budgets of projects (packages/quota/src/project-budget.service.ts): *)
(* like the budgets of groups in BudgetLedger, without configuration and   *)
(* reconciliation, and tied to the workspace: a reservation looks again at *)
(* the project, the membership and the key that the gateway has already    *)
(* accepted, and a project is archived only when its entries are closed.   *)
(*                                                                         *)
(* Every operation locks the project, and so is one step.  An operation    *)
(* repeated with the same arguments changes nothing and is left out.       *)
(***************************************************************************)
EXTENDS Workspace

CONSTANTS
  Requests,     \* gateway requests
  Applications, \* budget applications
  Amounts,      \* amounts of money
  Limits,       \* budget limits
  Months        \* budget periods, in order

ASSUME ProjectLedgerAssumption ==
  /\ Amounts \subseteq Nat /\ Limits \subseteq Nat
  /\ Months \subseteq Nat \ {0}
  /\ IsFiniteSet(Requests)

VARIABLES
  month,        \* the current period
  periods,      \* periods[p][m]: the period row
  entries,      \* entries[r]: the budget entry of request r
  applications  \* applications[x]: its status and its project

projectLedgerVars == <<month, periods, entries, applications>>
projectVars == <<projectLedgerVars, workspaceVars>>

NoPeriod == [limit |-> 0, unlimited |-> FALSE, spent |-> 0, reserved |-> 0,
             alerted |-> 0]

\* Before it is reserved, a request is admitted with its key or not.  `held`
\* says that its usage log was written by a hold; `due`, that its lease ended.
NoEntry(k) == [status |-> "NONE", key |-> k, month |-> 0, reserved |-> 0,
               settled |-> 0, dispatched |-> FALSE, extended |-> FALSE,
               held |-> FALSE, due |-> FALSE, synced |-> TRUE]

Open == {"RESERVED", "RECONCILIATION_REQUIRED"}
Closed == {"SETTLED", "RELEASED"}

ProjectLedgerTypeOK ==
  /\ month \in Months
  /\ periods \in [Projects -> [Months ->
       [limit: Nat, unlimited: BOOLEAN, spent: Nat, reserved: Nat,
        alerted: {0, 80, 100}]]]
  /\ entries \in [Requests ->
       [status: {"NONE", "ADMITTED"} \cup Open \cup Closed, key: Keys,
        month: Months \cup {0}, reserved: Nat, settled: Nat,
        dispatched: BOOLEAN, extended: BOOLEAN, held: BOOLEAN, due: BOOLEAN,
        synced: BOOLEAN]]
  /\ applications \in [Applications ->
       [status: {"NONE", "REGISTERED", "LINKED", "REJECTED"}, project: Projects]]

ProjectLedgerInit ==
  /\ month \in Months /\ \A m \in Months : month <= m
  /\ periods = [p \in Projects |-> [m \in Months |-> NoPeriod]]
  /\ entries \in [Requests -> {NoEntry(k) : k \in Keys}]
  /\ applications \in [Applications -> [status: {"NONE"}, project: Projects]]

ProjectOf(r) == keys[entries[r].key].project
OpenEntries(p) == {r \in Requests : entries[r].status \in Open /\ ProjectOf(r) = p}

\* Mutant of LockProject: the project is read without a lock.
ReadProject(p) == projects[p] # NoProject

\* lockProject.
LockProject(p) == ProjectFree(p)

\* alert: the threshold only rises.
Alerted(row) ==
  LET used == row.spent + row.reserved
      threshold == IF row.unlimited THEN 0
                   ELSE IF used >= row.limit THEN 100
                   ELSE IF used * 10 >= row.limit * 8 THEN 80 ELSE 0
  IN [row EXCEPT !.alerted = IF threshold > @ THEN threshold ELSE @]

\* The periods with other amounts in that of p in m.
WithAmounts(p, m, spent, reserved) ==
  [periods EXCEPT ![p][m] =
     Alerted([periods[p][m] EXCEPT !.spent = spent, !.reserved = reserved])]

\* Negative in a period that a late cost has overdrawn: its checkFunds then
\* refuses a reservation of nothing too.
Available(row) == row.limit - row.spent - row.reserved

HasFunds(row, amount) ==
  row.unlimited \/ (row.limit # 0 /\ Available(row) >= amount)

-----------------------------------------------------------------------------
(* Limits and applications.                                                *)

\* assertCanApply; an administrator may apply for any project.
CanApply(p, a) ==
  \/ IF projects[p].department THEN projectMembers[p][a] # NoRole
     ELSE projectMembers[p][a] = "OWNER"
  \/ /\ projects[p].department
     /\ unitMembers[Owner[p]][a].inside /\ unitMembers[Owner[p]][a].leader

Adjustable(p, limit, unlimited) ==
  LET row == periods[p][month] IN
  /\ LockProject(p)
  /\ projects[p].status \in {"ACTIVE", "SUSPENDED"}
  /\ unlimited \/ limit >= row.spent + row.reserved

WithLimit(p, limit, unlimited) ==
  [periods EXCEPT ![p][month] =
     Alerted([periods[p][month] EXCEPT !.limit = limit, !.unlimited = unlimited])]

Adjust(p, limit, unlimited) ==
  /\ Adjustable(p, limit, unlimited)
  /\ periods' = WithLimit(p, limit, unlimited)
  /\ UNCHANGED <<month, entries, applications, workspaceVars>>

\* adjust with an application, which is decided with it.
AdjustFor(x, limit, unlimited) ==
  LET p == applications[x].project IN
  /\ applications[x].status = "REGISTERED"
  /\ Adjustable(p, limit, unlimited)
  /\ periods' = WithLimit(p, limit, unlimited)
  /\ applications' = [applications EXCEPT ![x].status = "LINKED"]
  /\ UNCHANGED <<month, entries, workspaceVars>>

\* actor is NoRole for an administrator.
CreateApplication(x, actor) ==
  LET p == applications[x].project IN
  /\ applications[x].status = "NONE"
  /\ LockProject(p) /\ projects[p].status \in {"ACTIVE", "SUSPENDED"}
  /\ actor \in Employees => CanApply(p, actor)
  /\ applications' = [applications EXCEPT ![x].status = "REGISTERED"]
  /\ UNCHANGED <<month, periods, entries, workspaceVars>>

SubmitAndApprove(x, limit, unlimited) ==
  LET p == applications[x].project IN
  /\ applications[x].status = "NONE" /\ limit > 0
  /\ Adjustable(p, limit, unlimited)
  /\ periods' = WithLimit(p, limit, unlimited)
  /\ applications' = [applications EXCEPT ![x].status = "LINKED"]
  /\ UNCHANGED <<month, entries, workspaceVars>>

RejectApplication(x) ==
  LET p == applications[x].project IN
  /\ applications[x].status = "REGISTERED"
  /\ LockProject(p) /\ projects[p].status \in {"ACTIVE", "SUSPENDED"}
  /\ applications' = [applications EXCEPT ![x].status = "REJECTED"]
  /\ UNCHANGED <<month, periods, entries, workspaceVars>>

-----------------------------------------------------------------------------
(* Requests.                                                               *)

\* The gateway's guard accepts the key; the reservation follows later, in the
\* period in which the request started.
Admit(r) ==
  /\ entries[r].status = "NONE"
  /\ GatewayAdmits(entries[r].key)
  /\ entries' = [entries EXCEPT ![r].status = "ADMITTED", ![r].month = month]
  /\ UNCHANGED <<month, periods, applications, workspaceVars>>

\* assertReservable.
Reservable(p) ==
  /\ projects[p].status = "ACTIVE"
  /\ Usable(Owner[p])
  /\ IF projects[p].department THEN Department(Owner[p]) ELSE Kind[Owner[p]] = "REGION"

Reserve(r, amount) ==
  LET k == entries[r].key
      p == ProjectOf(r)
      m == entries[r].month
  IN /\ entries[r].status = "ADMITTED"
     /\ LockProject(p) /\ Reservable(p)
     /\ Works(p, keys[k].account)
     /\ LiveKey(k) /\ ~keys[k].disabled
     /\ HasFunds(periods[p][m], amount)
     /\ periods' = WithAmounts(p, m, periods[p][m].spent, periods[p][m].reserved + amount)
     /\ entries' = [entries EXCEPT ![r].status = "RESERVED", ![r].reserved = amount]
     /\ UNCHANGED <<month, applications, workspaceVars>>

\* The period of r with its reservation and its cost moved; the entry locked.
Moves(r, spent, reserved) ==
  LET row == periods[ProjectOf(r)][entries[r].month] IN
  /\ LockProject(ProjectOf(r))
  /\ periods' = WithAmounts(ProjectOf(r), entries[r].month,
                            row.spent + spent - entries[r].settled,
                            row.reserved + reserved - entries[r].reserved)
  /\ UNCHANGED <<month, applications, workspaceVars>>

Extend(r, amount) ==
  /\ entries[r].status \in Open /\ ~entries[r].extended
  /\ HasFunds(periods[ProjectOf(r)][entries[r].month], amount)
  /\ Moves(r, entries[r].settled, entries[r].reserved + amount)
  /\ entries' = [entries EXCEPT ![r].reserved = @ + amount, ![r].extended = TRUE]

\* The lines that set the entry leave its reserved amount as it was.
Settle(r, actual) ==
  /\ entries[r].status \in Open
  /\ Moves(r, actual, 0)
  /\ entries' = [entries EXCEPT ![r].status = "SETTLED", ![r].settled = actual,
                                ![r].due = FALSE, ![r].synced = FALSE]

Hold(r, actual, unresolved) ==
  /\ entries[r].status \in Open /\ ~entries[r].held
  /\ Moves(r, actual + entries[r].settled, unresolved)
  /\ entries' = [entries EXCEPT ![r].status = "RECONCILIATION_REQUIRED",
                                ![r].settled = actual, ![r].reserved = unresolved,
                                ![r].held = TRUE, ![r].due = FALSE]

\* releaseEntry lowers the period and leaves its alert alone.
ReleaseEntry(r) ==
  /\ LockProject(ProjectOf(r))
  /\ periods' = [periods EXCEPT ![ProjectOf(r)][entries[r].month].reserved =
                   @ - entries[r].reserved]
  /\ entries' = [entries EXCEPT ![r].status = "RELEASED", ![r].due = FALSE,
                                ![r].synced = FALSE]
  /\ UNCHANGED <<month, applications, workspaceVars>>

\* Mutant of Releasable: the dispatch is not looked at.
ReleasableSent(r) == entries[r].status = "RESERVED"

Releasable(r) == entries[r].status = "RESERVED" /\ ~entries[r].dispatched

Release(r) ==
  /\ Releasable(r)
  /\ ReleaseEntry(r)

\* An operation on the entry alone.
Marks(r) ==
  /\ LockProject(ProjectOf(r))
  /\ UNCHANGED <<month, periods, applications, workspaceVars>>

\* Also renews the lease.
MarkDispatched(r) ==
  /\ entries[r].status = "RESERVED"
  /\ Marks(r)
  /\ entries' = [entries EXCEPT ![r].dispatched = TRUE, ![r].due = FALSE]

MarkUncertain(r) ==
  /\ entries[r].status \in Open
  /\ Marks(r)
  /\ entries' = [entries EXCEPT ![r].status = "RECONCILIATION_REQUIRED", ![r].due = FALSE]

\* The lease ends, and the worker finds it so.
LeaseEnds(r) ==
  /\ entries[r].status = "RESERVED"
  /\ entries' = [entries EXCEPT ![r].due = TRUE]
  /\ UNCHANGED <<month, periods, applications, workspaceVars>>

RecoverDispatched(r) ==
  /\ entries[r].status = "RESERVED" /\ entries[r].due /\ entries[r].dispatched
  /\ Marks(r)
  /\ entries' = [entries EXCEPT ![r].status = "RECONCILIATION_REQUIRED", ![r].due = FALSE]

RecoverUndispatched(r) ==
  /\ entries[r].status = "RESERVED" /\ entries[r].due /\ ~entries[r].dispatched
  /\ ReleaseEntry(r)

\* syncQuota, by the gateway or by the worker's recoverQuota; what it does to
\* Redis is in QuotaRedis.
SyncQuota(r) ==
  /\ entries[r].status \in Closed /\ ~entries[r].synced
  /\ Marks(r)
  /\ entries' = [entries EXCEPT ![r].synced = TRUE]

NextMonth ==
  /\ month + 1 \in Months
  /\ month' = month + 1
  /\ UNCHANGED <<periods, entries, applications, workspaceVars>>

\* setStatus to ARCHIVED, at its count.
ArchiveProject(p) ==
  /\ BeginArchive(p)
  /\ OpenEntries(p) = {}
  /\ UNCHANGED projectLedgerVars

-----------------------------------------------------------------------------
LedgerNext ==
  \/ \E p \in Projects, l \in Limits, u \in BOOLEAN : Adjust(p, l, u)
  \/ \E x \in Applications :
       \/ RejectApplication(x)
       \/ \E a \in Employees \cup {NoRole} : CreateApplication(x, a)
       \/ \E l \in Limits, u \in BOOLEAN : AdjustFor(x, l, u) \/ SubmitAndApprove(x, l, u)
  \/ \E r \in Requests :
       \/ Admit(r) \/ Release(r) \/ MarkDispatched(r) \/ MarkUncertain(r)
       \/ LeaseEnds(r) \/ RecoverDispatched(r) \/ RecoverUndispatched(r) \/ SyncQuota(r)
       \/ \E m \in Amounts :
            \/ Reserve(r, m) \/ Extend(r, m) \/ Settle(r, m)
            \/ \E n \in Amounts : Hold(r, m, n)
  \/ NextMonth
  \/ \E p \in Projects : ArchiveProject(p)

ProjectInit == WorkspaceInit /\ ProjectLedgerInit
ProjectNext == LedgerNext \/ (WorkspaceNext /\ UNCHANGED projectLedgerVars)
ProjectSpec == ProjectInit /\ [][ProjectNext]_projectVars

-----------------------------------------------------------------------------
(* The ledger as an implementation of BudgetAccount, with one account for  *)
(* each project and period.                                                *)

\* Only an admitted request is not a deal yet.
DealOf(e) ==
  IF e.status \in {"NONE", "ADMITTED"} THEN [state |-> "NONE"]
  ELSE [state     |-> CASE e.status \in Open /\ ~e.held -> "OPEN"
                        [] e.status \in Open /\ e.held  -> "HELD"
                        [] e.status = "SETTLED"         -> "SETTLED"
                        [] OTHER                        -> "RETURNED",
        account   |-> <<keys[e.key].project, e.month>>,
        promised  |-> IF e.status \in Open THEN e.reserved ELSE 0,
        paid      |-> e.settled,
        sent      |-> e.dispatched,
        corrected |-> FALSE]

Account == INSTANCE BudgetAccount WITH
  Accounts <- Projects \X Months,
  deals <- [r \in Requests |-> DealOf(entries[r])],
  limits <- [a \in Projects \X Months |->
               [amount |-> periods[a[1]][a[2]].limit,
                unlimited |-> periods[a[1]][a[2]].unlimited]]

-----------------------------------------------------------------------------
(* Properties.                                                             *)

\* An archived project has no open entry and nothing reserved in any period: a
\* request that was admitted before cannot reserve after the count.
ArchivedProjectSettled ==
  \A p \in Projects : projects[p].status = "ARCHIVED" =>
    /\ OpenEntries(p) = {}
    /\ \A m \in Months : periods[p][m].reserved = 0

\* The project ledger keeps the promises of a budget account: see
\* AccountImplemented of BudgetLedger; here nothing is corrected by hand.
ProjectAccountImplemented == Account!AccountSpec
=============================================================================
