---------------------------- MODULE WorkspaceViews ----------------------------
(***************************************************************************)
(* What the pages show of units, projects, members, keys and budgets       *)
(* (usage-groups.service.ts, org-units.service.ts, projects.service.ts,    *)
(* me-projects.service.ts, employee-keys.service.ts, and                   *)
(* packages/quota/src/project-budget-read.ts).                             *)
(*                                                                         *)
(* Each page asks the tables with conditions of its own, apart from those  *)
(* of the gateway and of the ledger; the properties compare them.  Pages   *)
(* and texts are left out.  `recent` is the set of the requests that       *)
(* started in the last thirty days.                                        *)
(***************************************************************************)
EXTENDS ProjectLedger, Totals

\* readProjectBudgets: the period that is not opened shows zeros.  Without a
\* limit there is no available amount; it may be negative.
ProjectBudget(p) ==
  LET row == periods[p][month]
      uncertain == [r \in Requests |->
        IF /\ entries[r].status = "RECONCILIATION_REQUIRED"
           /\ ProjectOf(r) = p /\ entries[r].month = month
        THEN entries[r].reserved ELSE 0]
  IN [limit |-> row.limit, unlimited |-> row.unlimited,
      spent |-> row.spent, reserved |-> row.reserved,
      uncertain |-> Total(uncertain, Requests),
      available |-> IF row.unlimited THEN {} ELSE {row.limit - row.spent - row.reserved}]

OwnedProjects(u) == {p \in Projects : Owner[p] = u /\ projects[p].status = "ACTIVE"}

\* Keys that count as active, expiry left out.
ActiveKeys == KeysWith("active")

UnitOfKey(k) == Owner[keys[k].project]

\* The usage logs: every request that was held or settled has one, at its cost.
Logged == {r \in Requests : entries[r].held \/ entries[r].status = "SETTLED"}

CostOf(S) == Total([r \in Requests |-> entries[r].settled], S)

UnitOfRequest(r) == Owner[ProjectOf(r)]
AccountOf(r) == keys[entries[r].key].account

-----------------------------------------------------------------------------
(* Usage groups.                                                           *)

Members(u) == {a \in Employees : unitMembers[u][a].inside}

\* What a group's page shows of a project.
ProjectCard(p) ==
  [budget |-> ProjectBudget(p),
   members |-> {a \in Employees : projectMembers[p][a] # NoRole},
   owners |-> {a \in Employees : projectMembers[p][a] = "OWNER"},
   keys |-> {k \in ActiveKeys : keys[k].project = p}]

\* projects: those of a region only.
RegionProjects(u) == IF Kind[u] = "REGION" THEN OwnedProjects(u) ELSE {}

\* list: the members of a group that is not usable are not counted as active.
GroupCard(u) ==
  [members |-> IF Usable(u) THEN Members(u) ELSE {},
   keys |-> {k \in ActiveKeys : UnitOfKey(k) = u},
   projects |-> [p \in RegionProjects(u) |-> ProjectCard(p)]]

\* members: the projects of a member of a region, by their sources, whatever
\* their status, and the member's usage of the region.
MemberProjects(u, a) ==
  LET owned == {p \in Projects : Kind[u] = "REGION" /\ Owner[p] = u}
  IN [MEMBER |-> {p \in owned : projectMembers[p][a] # NoRole},
      KEY |-> {keys[k].project : k \in {k \in ActiveKeys : keys[k].account = a}} \cap owned]

MemberUsage(u, a, recent) ==
  LET uses == {r \in Logged \cap recent : UnitOfRequest(r) = u /\ AccountOf(r) = a}
  IN IF Kind[u] = "REGION" THEN [requests |-> Cardinality(uses), cost |-> CostOf(uses)]
     ELSE [requests |-> 0, cost |-> 0]

-----------------------------------------------------------------------------
(* Units of the organization.                                              *)

PrimaryMembers(u) == {a \in Members(u) : unitMembers[u][a].primary}

\* list and detail.
OrgCard(u) ==
  [members |-> PrimaryMembers(u),
   keys |-> {k \in ActiveKeys : UnitOfKey(k) = u},
   department |-> OwnedProjects(u) \cap DepartmentProjects(u)]

OrgProjectCard(p) ==
  [members |-> {a \in Employees : projectMembers[p][a] # NoRole},
   keys |-> {k \in ActiveKeys : keys[k].project = p}]

Used(row) == row.spent + row.reserved

\* A project is counted as in alert at eight tenths of a limit above zero.
InAlert(row) == ~row.unlimited /\ row.limit > 0 /\ 10 * Used(row) >= 8 * row.limit

LimitOf(S) == Total([p \in Projects |-> periods[p][month].limit], S)
OccupiedOf(S) == Total([p \in Projects |-> Used(periods[p][month])], S)

\* summarizeOrganizations: without a limit on each project there is no
\* available amount; it is never negative.
OrgBudget(u) ==
  LET owned == OwnedProjects(u)
      unlimited == {p \in owned : periods[p][month].unlimited}
      limit == LimitOf(owned)
      occupied == OccupiedOf(owned)
  IN [projects |-> Cardinality(owned),
      departments |-> Cardinality(owned \cap DepartmentProjects(u)),
      unlimited |-> Cardinality(unlimited),
      limit |-> limit, occupied |-> occupied,
      available |-> IF unlimited # {} THEN {}
                    ELSE {IF occupied > limit THEN 0 ELSE limit - occupied},
      alerts |-> Cardinality({p \in owned : InAlert(periods[p][month])})]

\* An account that uses two projects counts twice.
OrgUsage(u, recent) ==
  LET uses == {r \in Logged \cap recent : ProjectOf(r) \in OwnedProjects(u)}
  IN [requests |-> Cardinality(uses), cost |-> CostOf(uses),
      accounts |-> Cardinality({<<ProjectOf(r), AccountOf(r)>> : r \in uses})]

\* members: the budget takes each limit as it is, a project without limit as
\* zero, and what is available may be negative.
OrgMember(u, a, recent) ==
  LET uses == {r \in Logged \cap recent : UnitOfRequest(r) = u /\ AccountOf(r) = a}
  IN [projects |-> {p \in OwnedProjects(u) : projectMembers[p][a] # NoRole},
      keys |-> {k \in ActiveKeys : UnitOfKey(k) = u /\ keys[k].account = a},
      cost |-> CostOf(uses),
      available |-> LimitOf(OwnedProjects(u)) - OccupiedOf(OwnedProjects(u))]

-----------------------------------------------------------------------------
(* Projects and keys.                                                      *)

\* What a MEMBER may see: the projects of the usable units the account is in.
VisibleProjects(a) ==
  {p \in Projects : projects[p] # NoProject /\ Usable(Owner[p]) /\ a \in Members(Owner[p])}

\* list: an administrator sees every project, of the status asked for.
ListedProjects(a, admin, status) ==
  {p \in Projects : projects[p].status = status /\ (admin \/ p \in VisibleProjects(a))}

\* detail: a MEMBER sees active projects only.
MayOpenProject(a, role, p) ==
  /\ projects[p] # NoProject
  /\ role = "MEMBER" => p \in VisibleProjects(a) /\ projects[p].status = "ACTIVE"

ProjectMembersShown(a, role, p) ==
  {b \in Employees : MayOpenProject(a, role, p) /\ projectMembers[p][b] # NoRole}

\* memberCandidates, and those of them in the unit of the project.
Candidates(p) ==
  {a \in Employees : projectMembers[p][a] = NoRole /\ \E u \in Units : Usable(u) /\ a \in Members(u)}

InRegion(p) == {a \in Candidates(p) : Usable(Owner[p]) /\ a \in Members(Owner[p])}

\* me/projects: the account's own projects and those of its units.
MyProjects(a) ==
  {p \in Projects : /\ projects[p].status = "ACTIVE"
                    /\ Kind[Owner[p]] # "LEGACY_PROJECT" /\ Usable(Owner[p])
                    /\ projectMembers[p][a] # NoRole \/ a \in Members(Owner[p])}

\* groups, and the projects of one of them for which a key may be asked.
KeyGroups(a) == {u \in Units : Usable(u) /\ a \in Members(u)}

KeyProjects(u, a) ==
  {p \in OwnedProjects(u) :
     Kind[u] # "LEGACY_PROJECT" /\ Usable(u) /\ a \in Members(u)}

\* listFor: the keys of an account, the groups to filter them by, and what a
\* key has cost.
KeyList(a, status) == {k \in KeysWith(status) : keys[k].account = a}

FilterGroups(a) ==
  {UnitOfKey(k) : k \in {k \in Keys : /\ keys[k].exists /\ ~keys[k].deleted
                                      /\ keys[k].account = a}}

KeyCost(k) == CostOf({r \in Logged : entries[r].key = k})

-----------------------------------------------------------------------------
(* Properties.                                                             *)

\* A key that the gateway takes is shown wherever its owner or its
\* administrators look for it: among the active keys of the owner, of the unit
\* and of the project, and its project among the owner's.
AdmittedKeysShown ==
  \A k \in Keys : GatewayAdmits(k) =>
    LET p == keys[k].project
        a == keys[k].account
    IN /\ k \in KeyList(a, "active") /\ k \in GroupCard(Owner[p]).keys
       /\ k \in OrgProjectCard(p).keys
       /\ Kind[Owner[p]] # "LEGACY_PROJECT" => p \in MyProjects(a)

Reported(row) ==
  InAlert(row) => row.alerted >= (IF Used(row) >= row.limit THEN 100 ELSE 80)

\* A project that the page of the organization counts as in alert has been
\* reported in the audit log, at 100 when nothing is left of its limit:
\* whatever was posted, extended, released or adjusted in between.
AlertsReported ==
  \A p \in Projects, m \in Months : Reported(periods[p][m])

\* What is uncertain is a part of what is reserved.
UncertainIsReserved ==
  \A p \in Projects : ProjectBudget(p).uncertain <= ProjectBudget(p).reserved
===============================================================================
