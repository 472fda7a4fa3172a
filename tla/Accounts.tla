------------------------------ MODULE Accounts ------------------------------
(***************************************************************************)
(* The accounts of one organization, their roles and their sign-in tokens  *)
(* (apps/api/src/users.service.ts, auth.service.ts,                        *)
(* packages/security/src/auth.ts).                                         *)
(*                                                                         *)
(* A role update is a transaction of two statements: the first writes, and *)
(* so locks, the actor's own membership; the second the target's.  The     *)
(* set-up counts the accounts under an advisory lock.  A password change   *)
(* reads the account, verifies the old password, and writes much later     *)
(* without a lock: hashing takes long.  A call that fails leaves no trace. *)
(***************************************************************************)
EXTENDS Naturals, FiniteSets

CONSTANTS
  People,     \* accounts
  Emails,     \* normalised addresses
  Passwords,  \* passwords
  Edits,      \* concurrent role updates
  Setups,     \* concurrent set-up calls
  Changes,    \* concurrent password changes
  MaxVersion  \* bound on the changes of one account's password

ASSUME AccountAssumption == /\ MaxVersion \in Nat
                            /\ IsFiniteSet(People)
                            /\ "none" \notin Emails

VARIABLES
  accounts,      \* accounts[a]: the account row
  members,       \* members[a]: the membership of a
  organizations, \* how many organizations the set-up has created
  edits,         \* edits[u]: a role update under way
  setups,        \* setups[s]: a set-up under way
  changes,       \* changes[c]: a password change under way
  tokens         \* the access tokens issued by password

accountVars == <<accounts, members, organizations, edits, setups, changes, tokens>>

Role == {"PLATFORM_ADMIN", "ORG_ADMIN", "MEMBER"}
None == "none"
NoAccount == [email |-> None, password |-> None, version |-> 0, pending |-> FALSE]
NoMember == [role |-> None, active |-> FALSE]
NotStarted == [op |-> "IDLE"]

AccountTypeOK ==
  /\ accounts \in [People -> [email: Emails \cup {None},
                              password: Passwords \cup {None},
                              version: 0 .. MaxVersion, pending: BOOLEAN]]
  /\ members \in [People -> [role: Role \cup {None}, active: BOOLEAN]]
  /\ \A a \in People : (accounts[a] = NoAccount) <=> (members[a] = NoMember)
  /\ organizations \in Nat

AccountInit ==
  /\ accounts = [a \in People |-> NoAccount]
  /\ members = [a \in People |-> NoMember]
  /\ organizations = 0
  /\ edits = [u \in Edits |-> NotStarted]
  /\ setups = [s \in Setups |-> NotStarted]
  /\ changes = [c \in Changes |-> NotStarted]
  /\ tokens = {}

Exists(a) == accounts[a] # NoAccount
ActiveAs(a, role) == members[a] = [role |-> role, active |-> TRUE]
Administrator(a) == ActiveAs(a, "PLATFORM_ADMIN") \/ ActiveAs(a, "ORG_ADMIN")
Taken(email) == \E a \in People : accounts[a].email = email

-----------------------------------------------------------------------------
(* Set-up, and the accounts an administrator creates.                      *)

\* pg_advisory_xact_lock.
SetupFree == \A s \in Setups : setups[s] = NotStarted

SetupCount(s) ==
  /\ setups[s] = NotStarted /\ SetupFree
  /\ setups' = [setups EXCEPT ![s] =
                 [counted |-> Cardinality({a \in People : Exists(a)})]]
  /\ UNCHANGED <<accounts, members, organizations, edits, changes, tokens>>

SetupCreate(s, a, email, password) ==
  /\ setups[s] = [counted |-> 0]
  /\ ~Exists(a) /\ ~Taken(email)
  /\ accounts' = [accounts EXCEPT ![a] =
                    [NoAccount EXCEPT !.email = email, !.password = password]]
  /\ members' = [members EXCEPT ![a] = [role |-> "PLATFORM_ADMIN", active |-> TRUE]]
  /\ organizations' = organizations + 1
  /\ setups' = [setups EXCEPT ![s] = NotStarted]
  /\ UNCHANGED <<edits, changes, tokens>>

SetupRefused(s) ==
  /\ setups[s] # NotStarted
  /\ setups' = [setups EXCEPT ![s] = NotStarted]
  /\ UNCHANGED <<accounts, members, organizations, edits, changes, tokens>>

\* password is None for an account that signs in by device only.
CreateUser(actor, a, email, password) ==
  /\ Administrator(actor)
  /\ ~Exists(a) /\ ~Taken(email)
  /\ accounts' = [accounts EXCEPT ![a] =
       [NoAccount EXCEPT !.email = email, !.password = password,
                         !.pending = password # None]]
  /\ members' = [members EXCEPT ![a] = [role |-> "MEMBER", active |-> TRUE]]
  /\ UNCHANGED <<organizations, edits, setups, changes, tokens>>

-----------------------------------------------------------------------------
(* Roles and statuses.                                                     *)

\* The memberships that a role update under way has locked.
Locked(a) == \E u \in Edits : edits[u] # NotStarted /\ edits[u].locked /\ edits[u].actor = a

EditableBy(role) == IF role = "PLATFORM_ADMIN" THEN Role ELSE {"MEMBER", "ORG_ADMIN"}

\* The guard has authenticated the actor; the transaction starts later.
BeginUpdateRole(u, actor, target, role) ==
  /\ edits[u] = NotStarted
  /\ Administrator(actor) /\ actor # target
  /\ role \in EditableBy(members[actor].role)
  /\ edits' = [edits EXCEPT ![u] =
       [actor |-> actor, as |-> members[actor].role, target |-> target,
        role |-> role, locked |-> FALSE]]
  /\ UNCHANGED <<accounts, members, organizations, setups, changes, tokens>>

\* Mutant of Authorized: the first statement does not look at the role again.
AuthorizedEarlier(edit) == TRUE

\* The condition of the first statement.
Authorized(edit) == ActiveAs(edit.actor, edit.as)

\* The first statement: updateMany on the actor's own membership.
Authorize(u) ==
  /\ edits[u] # NotStarted /\ ~edits[u].locked
  /\ ~Locked(edits[u].actor)
  /\ Authorized(edits[u])
  /\ edits' = [edits EXCEPT ![u].locked = TRUE]
  /\ UNCHANGED <<accounts, members, organizations, setups, changes, tokens>>

\* The second statement, and the commit.
UpdateRole(u) ==
  /\ edits[u] # NotStarted /\ edits[u].locked
  /\ ~Locked(edits[u].target)
  /\ members[edits[u].target].role \in EditableBy(edits[u].as)
  /\ members' = [members EXCEPT ![edits[u].target].role = edits[u].role]
  /\ edits' = [edits EXCEPT ![u] = NotStarted]
  /\ UNCHANGED <<accounts, organizations, setups, changes, tokens>>

\* Not authorized any more, not editable, or the victim of a deadlock, which
\* tries again at most twice.
AbortUpdateRole(u) ==
  /\ edits[u] # NotStarted
  /\ \/ edits' = [edits EXCEPT ![u] = NotStarted]
     \/ edits[u].locked /\ edits' = [edits EXCEPT ![u].locked = FALSE]
  /\ UNCHANGED <<accounts, members, organizations, setups, changes, tokens>>

\* disable and enable.
UpdateStatus(actor, a, active) ==
  /\ Administrator(actor)
  /\ ~Locked(a)
  /\ members[a].role = "MEMBER"
  /\ members' = [members EXCEPT ![a].active = active]
  /\ UNCHANGED <<accounts, organizations, edits, setups, changes, tokens>>

UpdateEmail(actor, a, email) ==
  /\ Administrator(actor) /\ actor # a /\ Exists(a)
  /\ accounts[a].email # email /\ ~Taken(email)
  /\ accounts' = [accounts EXCEPT ![a].email = email]
  /\ UNCHANGED <<members, organizations, edits, setups, changes, tokens>>

-----------------------------------------------------------------------------
(* Passwords and the tokens issued for them.                               *)

\* The account row with a new password: `tokenVersion: { increment: 1 }`.
WithPassword(row, password, pending) ==
  [row EXCEPT !.password = password, !.version = row.version + 1,
              !.pending = pending]

ResetPassword(actor, a, password) ==
  /\ Administrator(actor) /\ Exists(a)
  /\ accounts[a].version < MaxVersion
  /\ accounts' = [accounts EXCEPT ![a] = WithPassword(@, password, TRUE)]
  /\ UNCHANGED <<members, organizations, edits, setups, changes, tokens>>

\* changePassword and updateInitialCredentials read the account and verify the
\* current password; the initial change may name a new email.
ReadPassword(c, a, initial, password, email) ==
  /\ changes[c] = NotStarted
  /\ Exists(a) /\ accounts[a].password # None
  /\ IF initial THEN accounts[a].pending ELSE email = accounts[a].email
  /\ changes' = [changes EXCEPT ![c] =
       [account |-> a, initial |-> initial, password |-> password,
        email |-> email, read |-> accounts[a]]]
  /\ UNCHANGED <<accounts, members, organizations, edits, setups, tokens>>

\* Mutant of Incremented: the new version is computed from the row as read.
IncrementedAsRead(change) == change.read

\* The row that the update finds.
Incremented(change) == accounts[change.account]

WritePassword(c) ==
  /\ changes[c] # NotStarted
  /\ LET change == changes[c]
         row == Incremented(change)
         email == IF change.email = change.read.email THEN row.email ELSE change.email
     IN /\ row.version < MaxVersion
        /\ email = row.email \/ ~Taken(email)
        /\ accounts' = [accounts EXCEPT ![change.account] =
             [WithPassword(row, change.password,
                ~change.initial /\ row.pending) EXCEPT !.email = email]]
  /\ changes' = [changes EXCEPT ![c] = NotStarted]
  /\ UNCHANGED <<members, organizations, edits, setups, tokens>>

AbortChange(c) ==
  /\ changes[c] # NotStarted
  /\ changes' = [changes EXCEPT ![c] = NotStarted]
  /\ UNCHANGED <<accounts, members, organizations, edits, setups, tokens>>

Login(a) ==
  /\ Exists(a) /\ members[a].active /\ accounts[a].password # None
  /\ tokens' = tokens \cup {[account |-> a, role |-> members[a].role,
                             version |-> accounts[a].version,
                             password |-> accounts[a].password]}
  /\ UNCHANGED <<accounts, members, organizations, edits, setups, changes>>

\* assertActiveMembership: the token's claims against the rows.
Honoured(token) ==
  /\ token.version = accounts[token.account].version
  /\ ActiveAs(token.account, token.role)

-----------------------------------------------------------------------------
SetupNext ==
  \E s \in Setups :
    \/ SetupCount(s) \/ SetupRefused(s)
    \/ \E a \in People, e \in Emails, p \in Passwords : SetupCreate(s, a, e, p)

RoleNext ==
  \/ \E actor, a \in People :
       \/ \E e \in Emails, p \in Passwords \cup {None} : CreateUser(actor, a, e, p)
       \/ \E active \in BOOLEAN : UpdateStatus(actor, a, active)
       \/ \E u \in Edits, role \in Role : BeginUpdateRole(u, actor, a, role)
  \/ \E u \in Edits : Authorize(u) \/ UpdateRole(u) \/ AbortUpdateRole(u)

PasswordNext ==
  \/ \E actor, a \in People :
       \/ \E p \in Passwords : ResetPassword(actor, a, p)
       \/ \E e \in Emails : UpdateEmail(actor, a, e)
  \/ \E c \in Changes :
       \/ WritePassword(c) \/ AbortChange(c)
       \/ \E a \in People, initial \in BOOLEAN, p \in Passwords, e \in Emails :
            ReadPassword(c, a, initial, p, e)
  \/ \E a \in People : Login(a)

AccountNext == SetupNext \/ RoleNext \/ PasswordNext
AccountSpec == AccountInit /\ [][AccountNext]_accountVars

-----------------------------------------------------------------------------
(* Properties.                                                             *)

\* The calls of setup that race create one organization, which from then on
\* always has an active platform administrator: two who demote each other at
\* once cannot both succeed.
AdminRemains ==
  /\ organizations <= 1
  /\ organizations = 1 => \E a \in People : ActiveAs(a, "PLATFORM_ADMIN")

\* A token that is honoured was obtained with the account's present password,
\* even when several password changes overlap.
TokenProvesPassword ==
  \A token \in tokens : Honoured(token)
                        => token.password = accounts[token.account].password
=============================================================================
