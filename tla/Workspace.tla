------------------------------ MODULE Workspace ------------------------------
(***************************************************************************)
(* Usage groups, which are also the units of the organization, their       *)
(* projects, who belongs to them, and the employee keys issued for         *)
(* projects (apps/api/src/usage-groups.service.ts, org-units.service.ts,   *)
(* projects.service.ts, employee-keys.service.ts).                         *)
(*                                                                         *)
(* Two services change the same memberships.  That of the groups locks the *)
(* group, that of the units nothing, that of the projects the project; a   *)
(* key is issued under the project's lock, and the group's at the end.     *)
(* Each is one step except three that look before they write, and hold a   *)
(* lock between the two: the issue of a key and the archiving of a project *)
(* that of the project, which keeps its members from being changed there;  *)
(* the enabling of a key that of the group, which does not.  The accounts  *)
(* are all active: a disabled one fails every check that a missing         *)
(* membership fails.                                                       *)
(***************************************************************************)
EXTENDS Naturals, FiniteSets

CONSTANTS
  Employees, \* accounts
  Units,    \* usage groups
  Projects, \* projects
  Keys,     \* employee keys
  Kind,     \* Kind[u]: the orgType of u
  Owner     \* Owner[p]: the unit p belongs to

UnitKinds == {"REGION", "FUNCTIONAL", "EXECUTIVE", "LEGACY_PROJECT"}

ASSUME WorkspaceAssumption ==
  /\ Kind \in [Units -> UnitKinds]
  /\ Owner \in [Projects -> Units]

VARIABLES
  units,          \* units[u]: the row of u
  unitMembers,    \* unitMembers[u][a]: the membership of a in u
  projects,       \* projects[p]: the row of p
  projectMembers, \* projectMembers[p][a]: the role of a in p
  keys,           \* keys[k]: the row of k
  issuing,        \* the keys being issued: their project is locked
  enabling,       \* the keys being enabled: their group is locked
  archiving,      \* the projects being archived: they are locked
  leavers         \* history: <<p, a>> such that p's administrator removed a

workspaceVars ==
  <<units, unitMembers, projects, projectMembers, keys, issuing, enabling, archiving, leavers>>

NoRole == "none"
NoUnit == [exists |-> FALSE, enabled |-> FALSE, archived |-> FALSE]
NoProject == [status |-> "ABSENT", department |-> FALSE]
Outside == [inside |-> FALSE, primary |-> FALSE, leader |-> FALSE]

WorkspaceTypeOK ==
  /\ units \in [Units -> [exists: BOOLEAN, enabled: BOOLEAN, archived: BOOLEAN]]
  /\ unitMembers \in [Units -> [Employees ->
       [inside: BOOLEAN, primary: BOOLEAN, leader: BOOLEAN]]]
  /\ projects \in [Projects -> [department: BOOLEAN,
       status: {"ABSENT", "ACTIVE", "SUSPENDED", "ARCHIVED"}]]
  /\ projectMembers \in [Projects -> [Employees -> {NoRole, "VIEWER", "MEMBER", "OWNER"}]]
  /\ keys \in [Keys -> [exists: BOOLEAN, account: Employees, project: Projects,
                        disabled: BOOLEAN, revoked: BOOLEAN, deleted: BOOLEAN]]
  /\ issuing \subseteq Keys /\ enabling \subseteq Keys /\ archiving \subseteq Projects
  /\ leavers \subseteq Projects \X Employees

WorkspaceInit ==
  /\ units = [u \in Units |-> NoUnit]
  /\ unitMembers = [u \in Units |-> [a \in Employees |-> Outside]]
  /\ projects = [p \in Projects |-> NoProject]
  /\ projectMembers = [p \in Projects |-> [a \in Employees |-> NoRole]]
  /\ keys \in [Keys -> [exists: {FALSE}, account: Employees, project: Projects,
                        disabled: {FALSE}, revoked: {FALSE}, deleted: {FALSE}]]
  /\ issuing = {} /\ enabling = {} /\ archiving = {}
  /\ leavers = {}

Usable(u) == units[u].exists /\ units[u].enabled /\ ~units[u].archived
Mutable(u) == units[u].exists /\ ~units[u].archived
Department(u) == Kind[u] \in {"FUNCTIONAL", "EXECUTIVE"}

\* Mutant of ProjectFree: the project is read without a lock.
ProjectUnlocked(p) == TRUE

\* SELECT ... FROM projects ... FOR UPDATE.
ProjectFree(p) == p \notin archiving /\ \A k \in issuing : keys[k].project # p

\* lockUsageGroup: SELECT ... FROM usage_groups ... FOR UPDATE.
UnitFree(u) == \A k \in enabling : Owner[keys[k].project] # u

\* Someone who may use the project: a member who is not a viewer.
Works(p, a) == projectMembers[p][a] \notin {NoRole, "VIEWER"}

LiveKey(k) == keys[k].exists /\ ~keys[k].revoked /\ ~keys[k].deleted

DepartmentProjects(u) == {p \in Projects : Owner[p] = u /\ projects[p].department}

\* The rows of the keys in S, revoked.
Revoke(S) == [k \in Keys |-> IF k \in S THEN [keys[k] EXCEPT !.revoked = TRUE] ELSE keys[k]]

WithoutMember(S, a) ==
  [p \in Projects |-> IF p \in S THEN [projectMembers[p] EXCEPT ![a] = NoRole]
                      ELSE projectMembers[p]]

-----------------------------------------------------------------------------
(* Groups.                                                                 *)

\* As a group, or as a unit of the organization: then a department gets its
\* own project.
CreateUnit(u) ==
  /\ ~units[u].exists
  /\ units' = [units EXCEPT ![u] = [NoUnit EXCEPT !.exists = TRUE, !.enabled = TRUE]]
  /\ \/ UNCHANGED projects
     \/ /\ Department(u)
        /\ \E p \in Projects :
             /\ Owner[p] = u /\ projects[p] = NoProject
             /\ projects' = [projects EXCEPT ![p] = [status |-> "ACTIVE", department |-> TRUE]]
  /\ UNCHANGED <<unitMembers, projectMembers, keys, issuing, enabling, archiving, leavers>>

SetUnitEnabled(u, enabled) ==
  /\ Mutable(u) /\ UnitFree(u)
  /\ units' = [units EXCEPT ![u].enabled = enabled]
  /\ UNCHANGED <<unitMembers, projects, projectMembers, keys, issuing, enabling, archiving, leavers>>

\* Every credential of the group is revoked.
ArchiveUnit(u) ==
  /\ Mutable(u) /\ UnitFree(u)
  /\ units' = [units EXCEPT ![u].enabled = FALSE, ![u].archived = TRUE]
  /\ keys' = Revoke({k \in Keys : keys[k].exists /\ Owner[keys[k].project] = u})
  /\ UNCHANGED <<unitMembers, projects, projectMembers, issuing, enabling, archiving, leavers>>

AddUnitMember(u, a) ==
  /\ Mutable(u) /\ UnitFree(u)
  /\ LET primary == Kind[u] # "LEGACY_PROJECT" IN
     unitMembers' = [v \in Units |->
       IF v = u THEN [unitMembers[v] EXCEPT ![a].inside = TRUE, ![a].primary = primary]
       ELSE IF primary /\ unitMembers[v][a].inside
       THEN [unitMembers[v] EXCEPT ![a].primary = FALSE] ELSE unitMembers[v]]
  /\ UNCHANGED <<units, projects, projectMembers, keys, issuing, enabling, archiving, leavers>>

RemoveUnitMember(u, a) ==
  /\ Mutable(u) /\ UnitFree(u) /\ unitMembers[u][a].inside
  /\ unitMembers' = [unitMembers EXCEPT ![u][a].inside = FALSE]
  /\ projectMembers' =
       IF Kind[u] = "REGION" THEN WithoutMember({p \in Projects : Owner[p] = u}, a)
       ELSE projectMembers
  /\ keys' = Revoke({k \in Keys : /\ keys[k].exists /\ keys[k].account = a
                                  /\ Owner[keys[k].project] = u})
  /\ UNCHANGED <<units, projects, issuing, enabling, archiving, leavers>>

SetLeader(u, a, leader) ==
  /\ Mutable(u) /\ UnitFree(u) /\ unitMembers[u][a].inside
  /\ unitMembers' = [unitMembers EXCEPT ![u][a].leader = leader]
  /\ UNCHANGED <<units, projects, projectMembers, keys, issuing, enabling, archiving, leavers>>

-----------------------------------------------------------------------------
(* Units of the organization: nothing is locked.                           *)

\* assertMutable of the units: an archived one may still be changed.
Assignable(u) == units[u].exists /\ Kind[u] # "LEGACY_PROJECT"

PrimaryUnits(a) == {v \in Units : unitMembers[v][a].inside /\ unitMembers[v][a].primary}

\* a leaves its primary unit for u, and the department project of the one for
\* that of the other.
MoveMember(u, a) ==
  LET before == PrimaryUnits(a)
      departures == UNION {DepartmentProjects(v) : v \in before \cap {w \in Units : Department(w)}}
      arrivals == {p \in DepartmentProjects(u) : projects[p].status = "ACTIVE"}
      stayed == WithoutMember(departures, a)
  IN /\ Assignable(u)
     /\ unitMembers' = [v \in Units |->
          IF v = u THEN [unitMembers[v] EXCEPT ![a].inside = TRUE, ![a].primary = TRUE]
          ELSE IF v \in before
          THEN [unitMembers[v] EXCEPT ![a].inside = FALSE, ![a].primary = FALSE]
          ELSE unitMembers[v]]
     /\ projectMembers' = [p \in Projects |->
          IF p \in arrivals /\ stayed[p][a] = NoRole
          THEN [stayed[p] EXCEPT ![a] = "MEMBER"] ELSE stayed[p]]
     /\ UNCHANGED <<units, projects, keys, issuing, enabling, archiving, leavers>>

RemoveOrgMember(u, a) ==
  LET left == IF Department(u) THEN DepartmentProjects(u) ELSE {} IN
  /\ Assignable(u) /\ unitMembers[u][a].inside
  /\ unitMembers' = [unitMembers EXCEPT ![u][a].inside = FALSE, ![u][a].primary = FALSE]
  /\ projectMembers' = WithoutMember(left, a)
  /\ keys' = Revoke({k \in Keys : /\ keys[k].exists /\ ~keys[k].deleted
                                  /\ keys[k].account = a /\ keys[k].project \in left})
  /\ UNCHANGED <<units, projects, issuing, enabling, archiving, leavers>>

SetHead(u, a) ==
  /\ Assignable(u) /\ unitMembers[u][a].inside
  /\ unitMembers' = [unitMembers EXCEPT ![u] = [b \in Employees |->
       IF unitMembers[u][b].inside
       THEN [unitMembers[u][b] EXCEPT !.leader = (b = a)] ELSE unitMembers[u][b]]]
  /\ UNCHANGED <<units, projects, projectMembers, keys, issuing, enabling, archiving, leavers>>

-----------------------------------------------------------------------------
(* Projects.                                                               *)

CreateProject(p) ==
  /\ projects[p] = NoProject
  /\ Usable(Owner[p]) /\ Kind[Owner[p]] \in {"REGION", "EXECUTIVE"}
  /\ projects' = [projects EXCEPT ![p].status = "ACTIVE"]
  /\ UNCHANGED <<units, unitMembers, projectMembers, keys, issuing, enabling, archiving, leavers>>

\* The project is locked, and its members may be edited.
Editable(p) == /\ ProjectFree(p) /\ ~projects[p].department
               /\ projects[p].status \in {"ACTIVE", "SUSPENDED"}

SetProjectStatus(p, status) ==
  /\ ProjectFree(p)
  /\ projects[p].status \in {"ACTIVE", "SUSPENDED"}
  /\ projects' = [projects EXCEPT ![p].status = status]
  /\ UNCHANGED <<units, unitMembers, projectMembers, keys, issuing, enabling, archiving, leavers>>

\* The project is locked; its open entries are counted next.
BeginArchive(p) ==
  /\ ProjectFree(p)
  /\ projects[p].status \in {"ACTIVE", "SUSPENDED"}
  /\ archiving' = archiving \cup {p}
  /\ UNCHANGED <<units, unitMembers, projects, projectMembers, keys, issuing, enabling, leavers>>

FinishArchive(p) ==
  /\ p \in archiving
  /\ projects' = [projects EXCEPT ![p].status = "ARCHIVED"]
  /\ archiving' = archiving \ {p}
  /\ UNCHANGED <<units, unitMembers, projectMembers, keys, issuing, enabling, leavers>>

\* A member of the owning unit, or, by a platform administrator, of any.
AddProjectMember(p, a, role) ==
  /\ Editable(p)
  /\ \E u \in Units : Usable(u) /\ unitMembers[u][a].inside
  /\ projectMembers' = [projectMembers EXCEPT ![p][a] = role]
  /\ leavers' = leavers \ {<<p, a>>}
  /\ UNCHANGED <<units, unitMembers, projects, keys, issuing, enabling, archiving>>

SetMemberRole(p, a, role) ==
  /\ Editable(p) /\ projectMembers[p][a] # NoRole
  /\ projectMembers' = [projectMembers EXCEPT ![p][a] = role]
  /\ UNCHANGED <<units, unitMembers, projects, keys, issuing, enabling, archiving, leavers>>

RemoveProjectMember(p, a) ==
  /\ Editable(p) /\ projectMembers[p][a] # NoRole
  /\ projectMembers' = WithoutMember({p}, a)
  /\ keys' = Revoke({k \in Keys : /\ keys[k].exists /\ ~keys[k].deleted
                                  /\ keys[k].project = p /\ keys[k].account = a})
  /\ leavers' = leavers \cup {<<p, a>>}
  /\ UNCHANGED <<units, unitMembers, projects, issuing, enabling, archiving>>

-----------------------------------------------------------------------------
(* Keys.                                                                   *)

\* The project is locked and the membership checked.
BeginIssue(k) ==
  LET p == keys[k].project IN
  /\ ~keys[k].exists /\ k \notin issuing
  /\ ProjectFree(p)
  /\ projects[p].status = "ACTIVE" /\ Usable(Owner[p])
  /\ Kind[Owner[p]] # "LEGACY_PROJECT"
  /\ Works(p, keys[k].account)
  /\ issuing' = issuing \cup {k}
  /\ UNCHANGED <<units, unitMembers, projects, projectMembers, keys, enabling, archiving, leavers>>

Issue(k) ==
  /\ k \in issuing /\ UnitFree(Owner[keys[k].project])
  /\ keys' = [keys EXCEPT ![k].exists = TRUE]
  /\ issuing' = issuing \ {k}
  /\ UNCHANGED <<units, unitMembers, projects, projectMembers, enabling, archiving, leavers>>

\* Only the group is locked: the membership of the project may go at any time.
BeginEnable(k) ==
  /\ LiveKey(k) /\ UnitFree(Owner[keys[k].project])
  /\ Works(keys[k].project, keys[k].account)
  /\ enabling' = enabling \cup {k}
  /\ UNCHANGED <<units, unitMembers, projects, projectMembers, keys, issuing, archiving, leavers>>

\* Mutant of FinishEnable: the row is written as it was read.
EnableAsRead(k) ==
  /\ k \in enabling
  /\ keys' = [keys EXCEPT ![k].disabled = FALSE, ![k].revoked = FALSE]
  /\ enabling' = enabling \ {k}
  /\ UNCHANGED <<units, unitMembers, projects, projectMembers, issuing, archiving, leavers>>

FinishEnable(k) ==
  /\ k \in enabling
  /\ keys' = [keys EXCEPT ![k].disabled = FALSE]
  /\ enabling' = enabling \ {k}
  /\ UNCHANGED <<units, unitMembers, projects, projectMembers, issuing, archiving, leavers>>

DisableKey(k) ==
  /\ LiveKey(k) /\ UnitFree(Owner[keys[k].project])
  /\ keys' = [keys EXCEPT ![k].disabled = TRUE]
  /\ UNCHANGED <<units, unitMembers, projects, projectMembers, issuing, enabling, archiving, leavers>>

RevokeKey(k) ==
  /\ keys[k].exists /\ UnitFree(Owner[keys[k].project])
  /\ \/ keys' = [keys EXCEPT ![k].revoked = TRUE]
     \/ keys' = [keys EXCEPT ![k].revoked = TRUE, ![k].deleted = TRUE]
  /\ UNCHANGED <<units, unitMembers, projects, projectMembers, issuing, enabling, archiving, leavers>>

\* The status filters of the key list, expiry left out.
KeysWith(status) ==
  {k \in Keys : keys[k].exists /\ ~keys[k].deleted /\
     CASE status = "revoked" -> keys[k].revoked
       [] status = "disabled" -> ~keys[k].revoked /\ keys[k].disabled
       [] OTHER -> ~keys[k].revoked /\ ~keys[k].disabled}

\* The gateway takes the key: the guard of GatewayAuthGuard.
GatewayAdmits(k) ==
  LET p == keys[k].project IN
  /\ LiveKey(k) /\ ~keys[k].disabled
  /\ projects[p].status = "ACTIVE" /\ Usable(Owner[p])
  /\ Works(p, keys[k].account)

-----------------------------------------------------------------------------
WorkspaceNext ==
  \/ \E u \in Units :
       \/ CreateUnit(u) \/ ArchiveUnit(u)
       \/ \E enabled \in BOOLEAN : SetUnitEnabled(u, enabled)
       \/ \E a \in Employees :
            \/ AddUnitMember(u, a) \/ RemoveUnitMember(u, a)
            \/ MoveMember(u, a) \/ RemoveOrgMember(u, a) \/ SetHead(u, a)
            \/ \E leader \in BOOLEAN : SetLeader(u, a, leader)
  \/ \E p \in Projects :
       \/ CreateProject(p) \/ FinishArchive(p)
       \/ \E status \in {"ACTIVE", "SUSPENDED"} : SetProjectStatus(p, status)
       \/ \E a \in Employees :
            \/ RemoveProjectMember(p, a)
            \/ \E role \in {"VIEWER", "MEMBER", "OWNER"} :
                 AddProjectMember(p, a, role) \/ SetMemberRole(p, a, role)
  \/ \E k \in Keys :
       \/ BeginIssue(k) \/ Issue(k) \/ RevokeKey(k)
       \/ BeginEnable(k) \/ FinishEnable(k) \/ DisableKey(k)

-----------------------------------------------------------------------------
(* Properties.                                                             *)

\* Whoever was removed from a project holds no live key for it until added
\* back, even if a key was being issued or enabled at that moment.
LeaverHasNoKey ==
  \A k \in Keys : LiveKey(k) => <<keys[k].project, keys[k].account>> \notin leavers
=============================================================================
