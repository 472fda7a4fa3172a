---------------------------- MODULE DeviceGrants ----------------------------
(***************************************************************************)
(* Device grants, their one-time links and the sessions of bound devices   *)
(* (apps/api/src/device-grants.service.ts, device-grant-links.service.ts,  *)
(* the refresh of auth.service.ts), for one account in one usage group.    *)
(*                                                                         *)
(* A transaction runs under READ COMMITTED: it takes row locks one at a    *)
(* time, in the order of its statements, writes, and releases them all     *)
(* when it ends.  What it writes is seen when it commits, so its writes    *)
(* are one step; its locks are one step each.  A check that fails, a       *)
(* detected conflict and an error all end in Abort, which any transaction  *)
(* may meet at any point; the code's retries are a new Begin.              *)
(*                                                                         *)
(* The checks are stated where a transaction writes, although the code     *)
(* makes them earlier: the rows they read are locked from the check on, or *)
(* are counted again by the write itself.                                  *)
(***************************************************************************)
EXTENDS Naturals, FiniteSets, Sequences

CONSTANTS
  Grants,        \* device grants, numbered from 1 in the order of their ids
  MaxLinks,      \* bound on the links issued for one grant
  Installations, \* client installations
  Txs,           \* concurrent transactions
  Refreshes,     \* concurrent refresh calls
  MaxToken       \* bound on the refresh tokens issued to one device

ASSUME DeviceAssumption ==
  /\ Grants \subseteq Nat \ {0} /\ IsFiniteSet(Grants)
  /\ MaxLinks \in Nat \ {0} /\ MaxToken \in Nat
  /\ "none" \notin Installations

VARIABLES
  grants,   \* grants[g]: the grant row and the device bound to it
  links,    \* links[g]: the states of its links in order of issuance
  place,    \* the organization's requirement, the group, the membership
  txs,      \* txs[t]: the transaction t, its locks and those it still needs
  sessions, \* sessions[r]: a refresh between its read and its update
  used      \* used[g][n]: how often refresh token n of g's device was exchanged

deviceVars == <<grants, links, place, txs, sessions, used>>

NoInstallation == "none"
Idle == [op |-> "IDLE", grant |-> 0]

Absent == [exists |-> FALSE, grouped |-> FALSE, disabled |-> FALSE,
           deleted |-> FALSE, expired |-> FALSE, device |-> NoInstallation,
           revoked |-> FALSE, token |-> 0, retry |-> FALSE]

LinkStates == {"AVAILABLE", "REVOKED", "CONSUMED"}

DeviceTypeOK ==
  /\ \A g \in Grants :
       /\ grants[g] \in [exists: BOOLEAN, grouped: BOOLEAN, disabled: BOOLEAN,
                         deleted: BOOLEAN, expired: BOOLEAN,
                         device: Installations \cup {NoInstallation},
                         revoked: BOOLEAN, token: 0 .. MaxToken,
                         retry: BOOLEAN]
       /\ links[g] \in Seq(LinkStates) /\ Len(links[g]) <= MaxLinks
       /\ grants[g].exists \/ links[g] = <<>>
  /\ place \in [required: BOOLEAN, member: BOOLEAN, archived: BOOLEAN]

DeviceInit ==
  /\ grants = [g \in Grants |-> Absent]
  /\ links = [g \in Grants |-> <<>>]
  /\ place = [required |-> FALSE, member |-> TRUE, archived |-> FALSE]
  /\ txs = [t \in Txs |-> Idle]
  /\ sessions = [r \in Refreshes |-> Idle]
  /\ used = [g \in Grants |-> [n \in 0 .. MaxToken |-> 0]]

-----------------------------------------------------------------------------
(* What the rows say.                                                      *)

GrantStatus(g) ==
  IF grants[g].deleted THEN "DELETED"
  ELSE IF grants[g].disabled THEN "DISABLED"
  ELSE IF grants[g].expired THEN "EXPIRED"
  ELSE IF grants[g].device # NoInstallation THEN "BOUND" ELSE "AVAILABLE"

GrantFailed(g) == GrantStatus(g) \in {"DELETED", "DISABLED", "EXPIRED"}

CurrentLinks(g) == {i \in DOMAIN links[g] : links[g][i] = "AVAILABLE"}

\* assertDeviceGroup, with the requirement that the caller has read.
GroupAdmits(grouped) ==
  IF grouped THEN place.member /\ ~place.archived ELSE ~place.required

\* The grants the requirement counts: live and in no group.
Ungrouped == {g \in Grants : /\ grants[g].exists /\ ~grants[g].grouped
                             /\ ~GrantFailed(g)}

\* The filters of the grant list.
Listed(filter) ==
  {g \in Grants : grants[g].exists /\
     LET row == grants[g] IN
     CASE filter = "AVAILABLE" -> /\ ~row.deleted /\ ~row.disabled
                                  /\ ~row.expired /\ row.device = NoInstallation
       [] filter = "BOUND" -> /\ ~row.deleted /\ ~row.disabled
                              /\ ~row.expired /\ row.device # NoInstallation
       [] filter = "DISABLED" -> ~row.deleted /\ row.disabled
       [] filter = "EXPIRED" -> ~row.deleted /\ ~row.disabled /\ row.expired
       [] filter = "DELETED" -> row.deleted
       [] OTHER -> ~row.deleted}

\* A device's access token is honoured.
DeviceAdmitted(g) ==
  /\ grants[g].device # NoInstallation /\ ~grants[g].revoked
  /\ ~GrantFailed(g)
  /\ GroupAdmits(grants[g].grouped)

-----------------------------------------------------------------------------
(* Row locks.                                                              *)

Lock(row, mode) == [row |-> row, mode |-> mode]
LinkRow(g, i) == Lock(<<"link", g, i>>, "UPDATE")
GrantRow(g) == Lock(<<"grant", g>>, "UPDATE")
GroupRow == Lock(<<"group">>, "UPDATE")

\* lockOrganization is FOR NO KEY UPDATE: inserting a row that references the
\* organization, as the audit log does, takes its KEY SHARE.
OrganizationRow == Lock(<<"organization">>, "NO KEY UPDATE")
AuditReference == Lock(<<"organization">>, "KEY SHARE")

Conflict(held, wanted) ==
  held = "UPDATE" \/ wanted = "UPDATE"
  \/ (held = "NO KEY UPDATE" /\ wanted = "NO KEY UPDATE")

WaitsFor(t, u) ==
  /\ t # u /\ txs[t] # Idle /\ txs[u] # Idle /\ txs[t].want # <<>>
  /\ \E lock \in txs[u].held :
       /\ lock.row = Head(txs[t].want).row
       /\ Conflict(lock.mode, Head(txs[t].want).mode)

Holds(t, lock) == lock \in txs[t].held

NotHeld(t, g) == {i \in CurrentLinks(g) : ~Holds(t, LinkRow(g, i))}

\* The newest of the links I of g, if there is one.
NewestOf(g, I) ==
  IF I = {} THEN <<>>
  ELSE <<LinkRow(g, CHOOSE i \in I : \A j \in I : j <= i)>>

\* The current link as the first statement of a transaction sees it.
CurrentFirst(g) == NewestOf(g, CurrentLinks(g))

\* The first n links of a grant, newest first, then the grant.
LinksThenGrant(g, n) ==
  [k \in 1 .. n + 1 |-> IF k <= n THEN LinkRow(g, n + 1 - k) ELSE GrantRow(g)]

\* Mutant of RedeemOrder: redeem locks the grant before the link.
GrantThenLink(g, i) == <<GrantRow(g), LinkRow(g, i)>>

RedeemOrder(g, i) == <<LinkRow(g, i), GrantRow(g)>>

\* Mutant of CreateOrder: the group is looked at without lockUsageGroup.
CreateUnlocked(grouped) == <<OrganizationRow>>

CreateOrder(grouped) ==
  <<OrganizationRow>> \o (IF grouped THEN <<GroupRow>> ELSE <<>>)

\* The live grants of the group after grant g, in the order of their ids.
LiveAfter(g) == {h \in Grants : /\ h > g /\ grants[h].exists
                                /\ grants[h].grouped /\ ~grants[h].deleted}

NextOfGroup(g) ==
  IF LiveAfter(g) = {} THEN <<AuditReference>>
  ELSE LET h == CHOOSE h \in LiveAfter(g) : \A k \in LiveAfter(g) : h <= k
       IN  LinksThenGrant(h, Len(links[h]))

-----------------------------------------------------------------------------
(* Transactions begin, take their locks, and end.                          *)

Lifecycle == {"DISABLE", "DELETE", "REGENERATE"}
Revocations == {"ARCHIVE", "REMOVE"}

Start(t, op, g, arg, want) ==
  /\ txs[t] = Idle
  /\ txs' = [txs EXCEPT ![t] = [op |-> op, grant |-> g, arg |-> arg,
                                want |-> want, held |-> {}]]
  /\ UNCHANGED <<grants, links, place, sessions, used>>

BeginRedeem(t, g, i, installation) ==
  /\ i \in DOMAIN links[g]
  /\ Start(t, "REDEEM", g, [link |-> i, installation |-> installation],
           RedeemOrder(g, i))

BeginLifecycle(t, op, g) ==
  /\ grants[g].exists
  /\ Start(t, op, g, FALSE, CurrentFirst(g) \o <<GrantRow(g)>>)

BeginRevocation(t, op) == Start(t, op, 0, FALSE, <<GroupRow>>)

BeginCreate(t, g, grouped) ==
  /\ ~grants[g].exists
  /\ ~\E u \in Txs : txs[u].op = "CREATE" /\ txs[u].grant = g
  /\ Start(t, "CREATE", g, grouped, CreateOrder(grouped))

BeginAssign(t, g) ==
  /\ grants[g].exists
  /\ Start(t, "ASSIGN", g, FALSE, <<OrganizationRow, GroupRow, GrantRow(g)>>)

BeginRenewal(t, op, g) ==
  /\ grants[g].exists
  /\ Start(t, op, g, FALSE, <<OrganizationRow, GrantRow(g)>>)

BeginRequire(t, required) ==
  Start(t, "REQUIRE", 0, required, <<OrganizationRow>>)

\* A link was issued while t waited: the code throws and tries again.
Overtaken(t, g) ==
  \/ /\ txs[t].op \in Lifecycle
     /\ CurrentLinks(g) # {}
     /\ \A i \in DOMAIN links[g] : ~Holds(t, LinkRow(g, i))
  \/ /\ txs[t].op \in Revocations
     /\ \E i \in DOMAIN links[g] : ~Holds(t, LinkRow(g, i))

\* What t locks after the lock it has just taken: the rows that its next
\* statements select or update.
Following(t, lock) ==
  LET op == txs[t].op
      g == lock.row[2]
  IN CASE op \in Revocations /\ lock = GroupRow -> NextOfGroup(0)
       [] op \in Revocations /\ lock.row[1] = "grant" -> NextOfGroup(g)
       [] op \in Lifecycle /\ lock.row[1] = "grant" ->
            NewestOf(g, NotHeld(t, g)) \o <<AuditReference>>
       [] op = "REDEEM" /\ lock.row[1] = "grant" -> <<AuditReference>>
       [] OTHER -> <<>>

\* The row does not match the WHERE of the statement that waited for it.
Gone(t, lock) ==
  /\ txs[t].op \in Lifecycle /\ lock.row[1] = "link"
  /\ links[lock.row[2]][lock.row[3]] # "AVAILABLE"

Acquire(t) ==
  /\ txs[t] # Idle /\ txs[t].want # <<>>
  /\ \A u \in Txs : ~WaitsFor(t, u)
  /\ LET lock == Head(txs[t].want) IN
       /\ lock.row[1] = "grant" => ~Overtaken(t, lock.row[2])
       /\ txs' = [txs EXCEPT
            ![t].held = IF Gone(t, lock) THEN @ ELSE @ \cup {lock},
            ![t].want = Tail(@) \o Following(t, lock)]
  /\ UNCHANGED <<grants, links, place, sessions, used>>

\* An error, a failed check or a conflict: nothing is written.
Abort(t) ==
  /\ txs[t] # Idle
  /\ txs' = [txs EXCEPT ![t] = Idle]
  /\ UNCHANGED <<grants, links, place, sessions, used>>

\* t runs op and has all its locks; committing releases them.
Commits(t, op) ==
  /\ txs[t] # Idle /\ txs[t].op = op /\ txs[t].want = <<>>
  /\ txs' = [txs EXCEPT ![t] = Idle]
  /\ UNCHANGED <<sessions, used>>

\* The links of g that are current are revoked.
Revoked(g) == [i \in DOMAIN links[g] |->
                IF i \in CurrentLinks(g) THEN "REVOKED" ELSE links[g][i]]

-----------------------------------------------------------------------------
(* What each transaction writes.                                           *)

\* The account and its membership are those of place.member: an account
\* without an active membership is in no group.
Bind(t) ==
  LET g == txs[t].grant
      arg == txs[t].arg
  IN /\ Commits(t, "REDEEM")
     /\ GroupAdmits(grants[g].grouped) /\ ~GrantFailed(g)
     /\ links[g][arg.link] = "AVAILABLE"
     /\ grants[g].device = NoInstallation
     /\ \A h \in Grants : grants[h].device # arg.installation \/ grants[h].revoked
     /\ grants' = [grants EXCEPT ![g].device = arg.installation, ![g].retry = TRUE]
     /\ links' = [links EXCEPT ![g][arg.link] = "CONSUMED"]
     /\ UNCHANGED place

\* The same installation redeems its consumed link again within the retry
\* window: it gets a new refresh token.
BindAgain(t) ==
  LET g == txs[t].grant
      arg == txs[t].arg
  IN /\ Commits(t, "REDEEM")
     /\ GroupAdmits(grants[g].grouped) /\ ~GrantFailed(g)
     /\ links[g][arg.link] = "CONSUMED"
     /\ grants[g].device = arg.installation
     /\ ~grants[g].revoked /\ grants[g].retry
     /\ grants[g].token < MaxToken
     /\ grants' = [grants EXCEPT ![g].token = @ + 1]
     /\ UNCHANGED <<links, place>>

Disable(t) ==
  LET g == txs[t].grant
  IN /\ Commits(t, "DISABLE")
     /\ ~grants[g].deleted
     /\ grants' = [grants EXCEPT ![g].disabled = TRUE]
     /\ links' = [links EXCEPT ![g] = Revoked(g)]
     /\ UNCHANGED place

Delete(t) ==
  LET g == txs[t].grant
  IN /\ Commits(t, "DELETE")
     /\ ~grants[g].deleted
     /\ grants' = [grants EXCEPT ![g].deleted = TRUE,
                     ![g].revoked = @ \/ grants[g].device # NoInstallation]
     /\ links' = [links EXCEPT ![g] = Revoked(g)]
     /\ UNCHANGED place

\* Mutant of Regenerable: only deletion is looked at after the locks are taken.
RegenerableIfKept(g) == ~grants[g].deleted

Regenerable(g) == GrantStatus(g) = "AVAILABLE"

Regenerate(t) ==
  LET g == txs[t].grant
  IN /\ Commits(t, "REGENERATE")
     /\ Regenerable(g)
     /\ Len(links[g]) < MaxLinks
     /\ links' = [links EXCEPT ![g] = Append(Revoked(g), "AVAILABLE")]
     /\ UNCHANGED <<grants, place>>

\* revokeCredentials on the grants the transaction has locked.
GrantsRevoked(t) ==
  [g \in Grants |->
     IF Holds(t, GrantRow(g))
     THEN [grants[g] EXCEPT !.deleted = TRUE,
                            !.revoked = @ \/ grants[g].device # NoInstallation]
     ELSE grants[g]]

RevokeCredentials(t) ==
  /\ grants' = GrantsRevoked(t)
  /\ links' = [g \in Grants |-> IF Holds(t, GrantRow(g)) THEN Revoked(g) ELSE links[g]]

ArchiveGroup(t) ==
  /\ Commits(t, "ARCHIVE") /\ ~place.archived
  /\ RevokeCredentials(t)
  /\ place' = [place EXCEPT !.archived = TRUE]

RemoveMember(t) ==
  /\ Commits(t, "REMOVE") /\ ~place.archived /\ place.member
  /\ RevokeCredentials(t)
  /\ place' = [place EXCEPT !.member = FALSE]

Create(t) ==
  LET g == txs[t].grant
  IN /\ Commits(t, "CREATE")
     /\ GroupAdmits(txs[t].arg)
     /\ grants' = [grants EXCEPT ![g] = [Absent EXCEPT !.exists = TRUE,
                                                       !.grouped = txs[t].arg]]
     /\ links' = [links EXCEPT ![g] = <<"AVAILABLE">>]
     /\ UNCHANGED place

AssignGroup(t) ==
  LET g == txs[t].grant
  IN /\ Commits(t, "ASSIGN")
     /\ ~grants[g].deleted /\ ~grants[g].grouped /\ GroupAdmits(TRUE)
     /\ grants' = [grants EXCEPT ![g].grouped = TRUE]
     /\ UNCHANGED <<links, place>>

\* Mutant of Renewable: auditLifecycle leaves out assertDeviceGroup.
RenewableAnywhere(g) == ~grants[g].deleted

\* auditLifecycle: a grant is enabled, or its expiry moved to the future.
Renewable(g) == ~grants[g].deleted /\ GroupAdmits(grants[g].grouped)

Enable(t) ==
  /\ Commits(t, "ENABLE") /\ Renewable(txs[t].grant)
  /\ grants' = [grants EXCEPT ![txs[t].grant].disabled = FALSE]
  /\ UNCHANGED <<links, place>>

UpdateExpiration(t) ==
  /\ Commits(t, "EXTEND") /\ Renewable(txs[t].grant)
  /\ grants' = [grants EXCEPT ![txs[t].grant].expired = FALSE]
  /\ UNCHANGED <<links, place>>

SetGroupRequirement(t) ==
  /\ Commits(t, "REQUIRE")
  /\ txs[t].arg => Ungrouped = {}
  /\ place' = [place EXCEPT !.required = txs[t].arg]
  /\ UNCHANGED <<grants, links>>

-----------------------------------------------------------------------------
(* Single steps: memberships, time, and the refresh of a session.          *)

GroupFree == ~\E t \in Txs : txs[t] # Idle /\ Holds(t, GroupRow)

Join ==
  /\ GroupFree /\ ~place.archived
  /\ place' = [place EXCEPT !.member = TRUE]
  /\ UNCHANGED <<grants, links, txs, sessions, used>>

\* Another organization unit becomes the primary one: the membership ends and
\* no credential is revoked.
MoveAway ==
  /\ place.member
  /\ place' = [place EXCEPT !.member = FALSE]
  /\ UNCHANGED <<grants, links, txs, sessions, used>>

Expire(g) ==
  /\ grants[g].exists
  /\ \/ grants' = [grants EXCEPT ![g].expired = TRUE]
     \/ grants' = [grants EXCEPT ![g].retry = FALSE]
  /\ UNCHANGED <<links, place, txs, sessions, used>>

RefreshRead(r, g) ==
  /\ sessions[r] = Idle
  /\ DeviceAdmitted(g)
  /\ sessions' = [sessions EXCEPT ![r] = [op |-> "REFRESH", grant |-> g,
                                          token |-> grants[g].token]]
  /\ UNCHANGED <<grants, links, place, txs, used>>

\* Mutant of StillPresented: the update names the device only.
Presented(r) == TRUE

\* The update names the hash that was presented.
StillPresented(r) == grants[sessions[r].grant].token = sessions[r].token

RefreshRotate(r) ==
  /\ sessions[r] # Idle
  /\ LET g == sessions[r].grant IN
       IF StillPresented(r)
       THEN /\ grants[g].token < MaxToken
            /\ grants' = [grants EXCEPT ![g].token = @ + 1]
            /\ used' = [used EXCEPT ![g][sessions[r].token] = @ + 1]
       ELSE UNCHANGED <<grants, used>>
  /\ sessions' = [sessions EXCEPT ![r] = Idle]
  /\ UNCHANGED <<links, place, txs>>

-----------------------------------------------------------------------------
BeginNext ==
  \E t \in Txs :
    \/ \E g \in Grants, i \in 1 .. MaxLinks, d \in Installations : BeginRedeem(t, g, i, d)
    \/ \E g \in Grants, op \in Lifecycle : BeginLifecycle(t, op, g)
    \/ \E op \in Revocations : BeginRevocation(t, op)
    \/ \E g \in Grants, grouped \in BOOLEAN : BeginCreate(t, g, grouped)
    \/ \E g \in Grants : BeginAssign(t, g)
    \/ \E g \in Grants, op \in {"ENABLE", "EXTEND"} : BeginRenewal(t, op, g)
    \/ \E required \in BOOLEAN : BeginRequire(t, required)

TransactionNext ==
  \E t \in Txs :
    \/ Acquire(t) \/ Abort(t)
    \/ Bind(t) \/ BindAgain(t) \/ Disable(t) \/ Delete(t) \/ Regenerate(t)
    \/ ArchiveGroup(t) \/ RemoveMember(t) \/ Create(t) \/ AssignGroup(t)
    \/ Enable(t) \/ UpdateExpiration(t) \/ SetGroupRequirement(t)

DeviceNext ==
  \/ BeginNext \/ TransactionNext
  \/ Join \/ MoveAway \/ \E g \in Grants : Expire(g)
  \/ \E r \in Refreshes : RefreshRotate(r) \/ \E g \in Grants : RefreshRead(r, g)

DeviceSpec == DeviceInit /\ [][DeviceNext]_deviceVars

-----------------------------------------------------------------------------
(* Properties.                                                             *)

\* A link that can be redeemed belongs to a grant that can be bound, and is
\* the only one: disabling, deleting, redeeming and regenerating race for it.
CurrentLinkUsable ==
  \A g \in Grants : CurrentLinks(g) # {} =>
    /\ Cardinality(CurrentLinks(g)) = 1
    /\ ~grants[g].disabled /\ ~grants[g].deleted
    /\ grants[g].device = NoInstallation

\* Transactions never wait for each other in a circle: every one takes links
\* before their grant, and a lock on the organization lets others refer to it.
NoDeadlock ==
  \A S \in (SUBSET Txs) \ {{}} : \E t \in S : \A u \in S : ~WaitsFor(t, u)

\* While the organization requires groups, no live grant is without one,
\* however the switch and the grants' own changes interleave.
RequirementHolds == place.required => Ungrouped = {}

\* A deleted grant, whoever deleted it, leaves its device revoked, even if the
\* device was being bound at that moment.
DeletedDeviceRevoked ==
  \A g \in Grants : grants[g].deleted /\ grants[g].device # NoInstallation
                     => grants[g].revoked

\* An archived group has no live grant left, those created or assigned while
\* it was being archived included.
ArchivedGroupLeavesNoGrant ==
  place.archived => \A g \in Grants : grants[g].grouped => grants[g].deleted

\* Both: what is taken away stays with nobody.
RevocationComplete == DeletedDeviceRevoked /\ ArchivedGroupLeavesNoGrant

\* A refresh token is exchanged at most once.
RefreshOnce == \A g \in Grants, n \in 0 .. MaxToken : used[g][n] <= 1

\* Every grant is listed under the filter of its derived status and no other:
\* the queries and the derivation agree.
FiltersAgree ==
  \A g \in Grants : grants[g].exists =>
    \A filter \in {"AVAILABLE", "BOUND", "DISABLED", "EXPIRED", "DELETED"} :
      g \in Listed(filter) <=> GrantStatus(g) = filter
=============================================================================
