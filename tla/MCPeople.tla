------------------------------- MODULE MCPeople -------------------------------
(***************************************************************************)
(* The people, their devices, their projects and their budgets, and the    *)
(* administrators' page of a user.  The components share no state, so that *)
(* their interleavings would add nothing: `part` chooses in the initial    *)
(* state which of them moves, and the run explores the sum of the parts.   *)
(***************************************************************************)
EXTENDS Accounts, DeviceGrants, ProjectLedger, Console, TLC

CONSTANTS a1, a2, e1, e2, e3, w1, w2, u1, u2, s1, s2, c1, c2,
          t1, t2, f1, f2, k1, k2

VARIABLE part

partVars == <<accountVars, deviceVars, projectVars, consoleVars, part>>

\* The two actors of each kind are interchangeable, all swapped at once.
PeopleSymmetry ==
  {[x \in Edits \cup Setups \cup Changes \cup Txs \cup Refreshes |-> x],
   [x \in Edits \cup Setups \cup Changes \cup Txs \cup Refreshes |->
      CASE x = u1 -> u2 [] x = u2 -> u1 [] x = s1 -> s2 [] x = s2 -> s1
        [] x = c1 -> c2 [] x = c2 -> c1 [] x = t1 -> t2 [] x = t2 -> t1
        [] x = f1 -> f2 [] x = f2 -> f1]}

MCKind == [u \in Units |-> IF u = "region" THEN "REGION" ELSE "FUNCTIONAL"]
MCOwner == [p \in Projects |-> IF p = "business" THEN "region" ELSE "department"]

-----------------------------------------------------------------------------
(* Accounts: roles without passwords, then the passwords of a second         *)
(* account.  a1 is the account that the set-up makes, with e1 and w1.        *)

FirstIsA1 == /\ accounts'[a1].email \in {None, e1} /\ accounts'[a2].email # e1
             /\ accounts'[a1].password \in {None, w1}
             /\ accounts[a1] = NoAccount => accounts'[a2] = NoAccount

RolesNext ==
  /\ part = "roles"
  /\ SetupNext \/ RoleNext
  /\ FirstIsA1
  /\ accounts'[a2].email # e3 /\ accounts'[a2].password # w2
  /\ UNCHANGED <<deviceVars, projectVars, consoleVars, part>>

PasswordsNext ==
  /\ part = "passwords"
  /\ AccountNext
  /\ FirstIsA1
  /\ accounts[a1] # NoAccount => /\ accounts'[a1] = accounts[a1]
                                 /\ setups' = setups
  /\ members'[a2] \in {NoMember, [role |-> "MEMBER", active |-> TRUE]}
  /\ setups'[s2] = NotStarted
  /\ Cardinality(tokens') <= 1 /\ \A token \in tokens' : token.account = a2
  /\ UNCHANGED <<edits, deviceVars, projectVars, consoleVars, part>>

-----------------------------------------------------------------------------
(* Devices: two transactions on one grant; a transaction and two refreshes;  *)
(* two transactions on the two grants of a group, one of them to be made.    *)

OneGrant == /\ grants'[2] = Absent
            /\ \A t \in Txs : txs'[t].grant # 2

Only(ops) == \A t \in Txs : txs'[t].op \in ops \cup {"IDLE"}

LinksNext ==
  /\ part = "links"
  /\ DeviceNext /\ OneGrant
  /\ grants'[1].token = 0
  /\ Only({"CREATE", "REDEEM", "ASSIGN", "ENABLE", "EXTEND", "REQUIRE"} \cup Lifecycle)
  /\ UNCHANGED <<sessions, used, accountVars, projectVars, consoleVars, part>>

SessionsNext ==
  /\ part = "sessions"
  /\ DeviceNext /\ OneGrant
  /\ txs'[t2] = Idle /\ Only({"CREATE", "REDEEM", "DELETE"})
  /\ UNCHANGED <<accountVars, projectVars, consoleVars, part>>

GroupNext ==
  /\ part = "group"
  /\ DeviceNext
  /\ \A g \in Grants : ~grants'[g].expired /\ grants'[g].token = 0
                       /\ grants'[g].retry = (grants'[g].device # NoInstallation)
  /\ Only({"CREATE", "REDEEM", "ASSIGN", "ARCHIVE", "REMOVE", "REGENERATE"})
  /\ ~place'.required
  /\ UNCHANGED <<sessions, used, accountVars, projectVars, consoleVars, part>>

OneGrouped ==
  /\ grants = [g \in Grants |->
       IF g = 1 THEN [Absent EXCEPT !.exists = TRUE, !.grouped = TRUE] ELSE Absent]
  /\ links = [g \in Grants |-> IF g = 1 THEN <<"AVAILABLE">> ELSE <<>>]
  /\ place = [required |-> FALSE, member |-> TRUE, archived |-> FALSE]
  /\ txs = [t \in Txs |-> Idle]
  /\ sessions = [r \in Refreshes |-> Idle]
  /\ used = [g \in Grants |-> [n \in 0 .. MaxToken |-> 0]]

-----------------------------------------------------------------------------
(* Projects: who belongs to them; then the money of one of them.             *)

MembersNext ==
  /\ part = "members"
  /\ WorkspaceNext
  /\ ~unitMembers'["region"][a1].leader
  /\ keys'[k2] = keys[k2] /\ k2 \notin issuing' \cup enabling'
  /\ UNCHANGED <<projectLedgerVars, accountVars, deviceVars, consoleVars, part>>

MembersInit ==
  /\ WorkspaceInit /\ ProjectLedgerInit
  /\ keys[k2].project = "business"
  /\ \A r \in Requests : entries[r].key = k2
  /\ \A x \in Applications : applications[x].project = "business"

\* A project in use: its region, its member, and a key for each request.
InUse ==
  /\ units = [u \in Units |-> [exists |-> u = "region", enabled |-> u = "region",
                               archived |-> FALSE]]
  /\ unitMembers = [u \in Units |-> [a \in Employees |->
       [inside |-> u = "region", primary |-> u = "region", leader |-> FALSE]]]
  /\ projects = [p \in Projects |->
       IF p = "business" THEN [status |-> "ACTIVE", department |-> FALSE] ELSE NoProject]
  /\ projectMembers = [p \in Projects |-> [a \in Employees |->
       IF p = "business" THEN "OWNER" ELSE NoRole]]
  /\ keys = [k \in Keys |-> [exists |-> TRUE, account |-> a1, project |-> "business",
                             disabled |-> FALSE, revoked |-> FALSE, deleted |-> FALSE]]
  /\ issuing = {} /\ enabling = {} /\ archiving = {} /\ leavers = {}
  /\ ProjectLedgerInit
  /\ \A r \in Requests : entries[r].key = k1
  /\ \A x \in Applications : applications[x].project = "business"

MoneyNext ==
  /\ part = "money"
  /\ \/ LedgerNext
     \/ /\ \/ FinishArchive("business") \/ RemoveProjectMember("business", a1)
           \/ SetProjectStatus("business", "SUSPENDED")
        /\ UNCHANGED projectLedgerVars
  /\ UNCHANGED <<accountVars, deviceVars, consoleVars, part>>

-----------------------------------------------------------------------------
(* The page of the user "x", left for that of "y" and opened again: its       *)
(* details and a password; a new grant; the link of a grant.                  *)

Sent(ops) == \A c \in onWay' : c.op \in ops /\ (c.user = "y" => c.op = "load")
Unlinked == ~page'.drawer /\ remote'["x"].link = 1 /\ ~remote'["x"].bound
Failing(ops) == \A c \in onWay' : c.stage = "FAILED" => c.op \in ops /\ c.user = "x"

PageNext ==
  /\ part \in {"details", "grant", "link"}
  /\ ConsoleNext
  /\ remote'["y"] = remote["y"]
  /\ \/ part = "details" /\ Sent({"load", "password"}) /\ Unlinked
        /\ Failing(Operations)
     \/ part = "grant" /\ Sent({"load", "groups", "create"}) /\ Unlinked
        /\ Failing({"create"})
     \/ part = "link" /\ Sent({"load", "view", "regenerate"})
        /\ Failing({"view", "regenerate"})
  /\ UNCHANGED <<accountVars, deviceVars, projectVars, part>>

-----------------------------------------------------------------------------
PeopleInit ==
  /\ part \in {"roles", "passwords", "links", "sessions", "group", "members", "money",
              "details", "grant", "link"}
  /\ AccountInit
  /\ ConsoleInit /\ route.user = "x"
  /\ IF part = "group" THEN OneGrouped ELSE DeviceInit
  /\ IF part = "money" THEN InUse
     ELSE MembersInit /\ (part # "members" => keys[k1].project = "business")

PeopleNext == \/ RolesNext \/ PasswordsNext \/ LinksNext \/ SessionsNext
              \/ GroupNext \/ MembersNext \/ MoneyNext \/ PageNext

PeopleSpec == PeopleInit /\ [][PeopleNext]_partVars
===============================================================================
