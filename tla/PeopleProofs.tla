----------------------------- MODULE PeopleProofs -----------------------------
(***************************************************************************)
(* The accounts, for every number of people, of role updates, of set-ups   *)
(* and of password changes that run at once; the page of a user in the     *)
(* browser, for every number of users, of changes and of calls on the way; *)
(* and the projects: their keys, and their money.                          *)
(***************************************************************************)
EXTENDS Accounts, Console, ProjectLedger, WorkspaceViews, TotalsProofs

-----------------------------------------------------------------------------
(* What the operations under way hold.                                     *)

AccountRow == [email: Emails \cup {None}, password: Passwords \cup {None},
               version: 0 .. MaxVersion, pending: BOOLEAN]

Edit == [actor: People, as: {"PLATFORM_ADMIN", "ORG_ADMIN"}, target: People,
         role: Role, locked: BOOLEAN]

\* A set-up that has the advisory lock and no account before it is the first.
SetupInv ==
  /\ setups \in [Setups -> {NotStarted} \cup [counted: Nat]]
  /\ \A s, t \in Setups : setups[s] # NotStarted /\ setups[t] # NotStarted => s = t
  /\ \A s \in Setups : setups[s] = [counted |-> 0] => \A a \in People : ~Exists(a)

\* A role update under way names two people; one that holds its actor's row is
\* the only one, and the actor keeps the role.
EditInv ==
  /\ edits \in [Edits -> {NotStarted} \cup Edit]
  /\ \A u \in Edits : edits[u] # NotStarted =>
       /\ edits[u].actor # edits[u].target
       /\ edits[u].locked => ActiveAs(edits[u].actor, edits[u].as)

Change == [account: People, initial: BOOLEAN, password: Passwords,
           email: Emails \cup {None}, read: AccountRow]

ChangeInv ==
  /\ changes \in [Changes -> {NotStarted} \cup Change]
  /\ \A c \in Changes : changes[c] # NotStarted => Exists(changes[c].account)

\* A token names an existing account, is never ahead of it, and one of the
\* account's present version was issued for its present password.
TokenInv ==
  \A token \in tokens :
    /\ token.account \in People /\ Exists(token.account)
    /\ token.version \in Nat
    /\ token.version <= accounts[token.account].version
    /\ token.version = accounts[token.account].version
         => token.password = accounts[token.account].password

AccountInv == AccountTypeOK /\ SetupInv /\ EditInv /\ ChangeInv /\ TokenInv /\ AdminRemains

\* The edits under way are records with a field that the idle one lacks.
LEMMA EditIsStarted == \A e \in Edit : e # NotStarted
  BY DEF Edit, NotStarted

LEMMA SetupIsStarted == \A n \in Nat : [counted |-> n] # NotStarted
  BY DEF NotStarted

LEMMA ChangeIsStarted == \A c \in Change : c # NotStarted
  BY DEF Change, NotStarted

LEMMA AdministratorExists ==
  ASSUME AccountTypeOK, NEW a \in People, members[a].role \in Role
  PROVE  Exists(a)
  BY DEF AccountTypeOK, Exists, NoMember, Role, None

LEMMA AccountInitInv == AccountInit => AccountInv
<1> SUFFICES ASSUME AccountInit PROVE AccountInv
  OBVIOUS
<1>1. AccountTypeOK
  BY AccountAssumption DEF AccountInit, AccountTypeOK, NoAccount, NoMember, None
<1>2. SetupInv
  BY DEF AccountInit, SetupInv, Exists
<1>3. EditInv
  BY DEF AccountInit, EditInv
<1>4. ChangeInv /\ TokenInv /\ AdminRemains
  BY DEF AccountInit, ChangeInv, TokenInv, AdminRemains
<1> QED BY <1>1, <1>2, <1>3, <1>4 DEF AccountInv

-----------------------------------------------------------------------------
(* One account is made, or one password is written.                        *)

\* A new account: nobody signed in to it, no role update and no password
\* change is about it.
LEMMA AccountMade ==
  ASSUME AccountInv, NEW a \in People, ~Exists(a),
         NEW row \in AccountRow, row.email \in Emails,
         NEW role \in Role,
         accounts' = [accounts EXCEPT ![a] = row],
         members' = [members EXCEPT ![a] = [role |-> role, active |-> TRUE]],
         UNCHANGED <<edits, changes, tokens>>
  PROVE  /\ accounts' \in [People -> AccountRow]
         /\ \A x \in People : (accounts'[x] = NoAccount) <=> (members'[x] = NoMember)
         /\ members' \in [People -> [role: Role \cup {None}, active: BOOLEAN]]
         /\ EditInv' /\ ChangeInv' /\ TokenInv'
         /\ \A x \in People : ActiveAs(x, "PLATFORM_ADMIN") => ActiveAs(x, "PLATFORM_ADMIN")'
<1>1. row # NoAccount
  BY AccountAssumption DEF NoAccount, None
<1>2. members[a] = NoMember
  BY DEF AccountInv, AccountTypeOK, Exists
<1>3. \A x \in People : /\ accounts'[x] = IF x = a THEN row ELSE accounts[x]
                        /\ members'[x] = IF x = a THEN [role |-> role, active |-> TRUE]
                                                  ELSE members[x]
  BY DEF AccountInv, AccountTypeOK
<1>4. [role |-> role, active |-> TRUE] # NoMember
  BY DEF NoMember
<1>5. /\ accounts' \in [People -> AccountRow]
      /\ members' \in [People -> [role: Role \cup {None}, active: BOOLEAN]]
  BY DEF AccountInv, AccountTypeOK, AccountRow
<1>6. \A x \in People : (accounts'[x] = NoAccount) <=> (members'[x] = NoMember)
  BY <1>1, <1>3, <1>4 DEF AccountInv, AccountTypeOK
<1>7. \A x \in People, r \in Role : ActiveAs(x, r) => ActiveAs(x, r)'
  BY <1>2, <1>3 DEF ActiveAs, NoMember
<1>8. EditInv'
  BY <1>7 DEF AccountInv, EditInv, Edit, Role
<1>9. ChangeInv'
  BY <1>1, <1>3 DEF AccountInv, ChangeInv, Exists, Change
<1>10. TokenInv'
  BY <1>1, <1>3 DEF AccountInv, TokenInv, Exists
<1> QED BY <1>5, <1>6, <1>7, <1>8, <1>9, <1>10 DEF Role

\* The set-up: nobody else counts or creates meanwhile, and nobody can create
\* an account before there is an administrator.
LEMMA SetupStep == AccountInv /\ SetupNext => AccountInv'
<1> SUFFICES ASSUME AccountInv, SetupNext PROVE AccountInv'
  OBVIOUS
<1> PICK s \in Setups :
      \/ SetupCount(s) \/ SetupRefused(s)
      \/ \E a \in People, e \in Emails, p \in Passwords : SetupCreate(s, a, e, p)
  BY DEF SetupNext
<1>1. CASE SetupCount(s)
  <2> DEFINE found == {a \in People : Exists(a)}
  <2>1. IsFiniteSet(found)
    BY AccountAssumption, FS_Subset
  <2>2. Cardinality(found) \in Nat /\ (Cardinality(found) = 0 => found = {})
    BY <2>1, FS_CardinalityType, FS_EmptySet
  <2>3. setups' = [setups EXCEPT ![s] = [counted |-> Cardinality(found)]]
    BY <1>1 DEF SetupCount
  <2>4. UNCHANGED <<accounts, members, organizations, edits, changes, tokens>>
    BY <1>1 DEF SetupCount
  <2>5. \A x \in Setups : setups'[x] = IF x = s THEN [counted |-> Cardinality(found)]
                                               ELSE NotStarted
    BY <1>1, <2>3 DEF SetupCount, SetupFree, AccountInv, SetupInv
  <2> HIDE DEF found
  <2>6. setups' \in [Setups -> {NotStarted} \cup [counted: Nat]]
    BY <2>2, <2>3 DEF AccountInv, SetupInv
  <2>7. [counted |-> Cardinality(found)] = [counted |-> 0] => Cardinality(found) = 0
    <3> SUFFICES ASSUME [counted |-> Cardinality(found)] = [counted |-> 0]
                 PROVE  Cardinality(found) = 0
      OBVIOUS
    <3>1. [counted |-> Cardinality(found)].counted = [counted |-> 0].counted
      OBVIOUS
    <3> QED BY <3>1
  <2>8. [counted |-> 0] # NotStarted
    BY SetupIsStarted
  <2>9. \A x \in Setups : setups'[x] = [counted |-> 0] => found = {}
    BY <2>2, <2>5, <2>7, <2>8
  <2>10. SetupInv'
    BY <2>4, <2>5, <2>6, <2>9 DEF SetupInv, Exists, found
  <2> QED
    BY <2>4, <2>10 DEF AccountInv, AccountTypeOK, EditInv, ActiveAs, ChangeInv, Exists,
                       TokenInv, AdminRemains
<1>2. CASE SetupRefused(s)
  <2>1. SetupInv'
    BY <1>2, SetupIsStarted DEF SetupRefused, AccountInv, SetupInv, Exists
  <2> QED
    BY <1>2, <2>1 DEF SetupRefused, AccountInv, AccountTypeOK, EditInv, ActiveAs, ChangeInv,
                      Exists, TokenInv, AdminRemains
<1>3. ASSUME NEW a \in People, NEW e \in Emails, NEW p \in Passwords,
             SetupCreate(s, a, e, p)
      PROVE  AccountInv'
  <2> DEFINE row == [NoAccount EXCEPT !.email = e, !.password = p]
  <2>1. row \in AccountRow /\ row.email \in Emails
    <3>1. NoAccount \in AccountRow
      BY AccountAssumption DEF NoAccount, AccountRow
    <3> QED BY <3>1 DEF AccountRow
  <2>2. /\ accounts' = [accounts EXCEPT ![a] = row]
        /\ members' = [members EXCEPT ![a] = [role |-> "PLATFORM_ADMIN", active |-> TRUE]]
        /\ UNCHANGED <<edits, changes, tokens>>
        /\ organizations' = organizations + 1
        /\ ~Exists(a)
    BY <1>3 DEF SetupCreate
  <2> HIDE DEF row
  <2>3. "PLATFORM_ADMIN" \in Role
    BY DEF Role
  <2>4. /\ accounts' \in [People -> AccountRow]
        /\ \A x \in People : (accounts'[x] = NoAccount) <=> (members'[x] = NoMember)
        /\ members' \in [People -> [role: Role \cup {None}, active: BOOLEAN]]
        /\ EditInv' /\ ChangeInv' /\ TokenInv'
    BY <2>1, <2>2, <2>3, AccountMade
  <2>5. \A x \in People : ~Exists(x)
    BY <1>3 DEF SetupCreate, AccountInv, SetupInv
  <2>6. \A x \in People : ~ActiveAs(x, "PLATFORM_ADMIN")
    BY <2>5 DEF AccountInv, AccountTypeOK, Exists, ActiveAs, NoMember
  <2>7. organizations = 0
    BY <2>6 DEF AccountInv, AccountTypeOK, AdminRemains
  <2>8. ActiveAs(a, "PLATFORM_ADMIN")'
    BY <2>2 DEF ActiveAs, AccountInv, AccountTypeOK
  <2>9. AdminRemains' /\ organizations' \in Nat
    BY <2>2, <2>7, <2>8 DEF AdminRemains
  <2>10. \A x \in Setups : setups'[x] = NotStarted
    BY <1>3, SetupIsStarted DEF SetupCreate, AccountInv, SetupInv
  <2>11. setups' \in [Setups -> {NotStarted} \cup [counted: Nat]]
    BY <1>3 DEF SetupCreate, AccountInv, SetupInv
  <2>12. SetupInv'
    BY <2>10, <2>11, SetupIsStarted DEF SetupInv
  <2> QED BY <2>4, <2>9, <2>12 DEF AccountInv, AccountTypeOK, AccountRow
<1> QED BY <1>1, <1>2, <1>3

-----------------------------------------------------------------------------
\* Roles.  A role update that commits leaves its actor's role as it is: the
\* last platform administrator can be demoted by another one only.
LEMMA RoleStep == AccountInv /\ RoleNext => AccountInv'
<1> SUFFICES ASSUME AccountInv, RoleNext PROVE AccountInv'
  OBVIOUS
<1>1. ASSUME NEW actor \in People, NEW a \in People, NEW e \in Emails,
             NEW p \in Passwords \cup {None}, CreateUser(actor, a, e, p)
      PROVE  AccountInv'
  <2> DEFINE row == [NoAccount EXCEPT !.email = e, !.password = p, !.pending = p # None]
  <2>1. row \in AccountRow /\ row.email \in Emails
    <3>1. NoAccount \in AccountRow
      BY AccountAssumption DEF NoAccount, AccountRow
    <3> QED BY <3>1 DEF AccountRow
  <2>2. /\ accounts' = [accounts EXCEPT ![a] = row]
        /\ members' = [members EXCEPT ![a] = [role |-> "MEMBER", active |-> TRUE]]
        /\ UNCHANGED <<edits, changes, tokens>>
        /\ UNCHANGED <<organizations, setups>>
        /\ ~Exists(a)
    BY <1>1 DEF CreateUser
  <2> HIDE DEF row
  <2>3. "MEMBER" \in Role
    BY DEF Role
  <2>4. /\ accounts' \in [People -> AccountRow]
        /\ \A x \in People : (accounts'[x] = NoAccount) <=> (members'[x] = NoMember)
        /\ members' \in [People -> [role: Role \cup {None}, active: BOOLEAN]]
        /\ EditInv' /\ ChangeInv' /\ TokenInv'
        /\ \A x \in People : ActiveAs(x, "PLATFORM_ADMIN") => ActiveAs(x, "PLATFORM_ADMIN")'
    BY <2>1, <2>2, <2>3, AccountMade
  <2>5. AdminRemains'
    BY <2>2, <2>4 DEF AccountInv, AdminRemains
  <2>6. Exists(actor)
    <3>1. members[actor].role \in Role
      BY <1>1 DEF CreateUser, Administrator, ActiveAs, Role
    <3> QED BY <3>1, AdministratorExists DEF AccountInv
  <2>7. \A x \in Setups : setups[x] # [counted |-> 0]
    BY <2>6 DEF AccountInv, SetupInv
  <2>8. SetupInv'
    BY <2>2, <2>7 DEF AccountInv, SetupInv
  <2> QED BY <2>2, <2>4, <2>5, <2>8 DEF AccountInv, AccountTypeOK, AccountRow
<1>2. ASSUME NEW actor \in People, NEW a \in People, NEW active \in BOOLEAN,
             UpdateStatus(actor, a, active)
      PROVE  AccountInv'
  <2>1. \A x \in People :
          members'[x] = IF x = a THEN [members[a] EXCEPT !.active = active] ELSE members[x]
    BY <1>2 DEF UpdateStatus, AccountInv, AccountTypeOK
  <2>2. members[a].role = "MEMBER" /\ members'[a].role = "MEMBER"
    BY <1>2, <2>1 DEF UpdateStatus, AccountInv, AccountTypeOK
  <2>3. members' \in [People -> [role: Role \cup {None}, active: BOOLEAN]]
    BY <1>2 DEF UpdateStatus, AccountInv, AccountTypeOK
  <2>4. \A x \in People : (accounts'[x] = NoAccount) <=> (members'[x] = NoMember)
    <3>1. members[a] # NoMember /\ members'[a] # NoMember
      BY <2>2 DEF NoMember, None
    <3> QED BY <1>2, <2>1, <3>1 DEF UpdateStatus, AccountInv, AccountTypeOK
  <2>5. AdminRemains'
    <3>1. \A x \in People : ActiveAs(x, "PLATFORM_ADMIN") => ActiveAs(x, "PLATFORM_ADMIN")'
      BY <2>1, <2>2 DEF ActiveAs
    <3> QED BY <1>2, <3>1 DEF UpdateStatus, AccountInv, AdminRemains
  <2>6. EditInv'
    <3>1. \A u \in Edits : edits[u] # NotStarted /\ edits[u].locked => edits[u].actor # a
      BY <1>2 DEF UpdateStatus, Locked
    <3> QED BY <1>2, <2>1, <3>1 DEF UpdateStatus, AccountInv, EditInv, Edit, ActiveAs
  <2> QED
    BY <1>2, <2>3, <2>4, <2>5, <2>6
    DEF UpdateStatus, AccountInv, AccountTypeOK, SetupInv, ChangeInv, Exists, TokenInv
<1>3. ASSUME NEW actor \in People, NEW a \in People, NEW u \in Edits, NEW role \in Role,
             BeginUpdateRole(u, actor, a, role)
      PROVE  AccountInv'
  <2> DEFINE edit == [actor |-> actor, as |-> members[actor].role, target |-> a,
                      role |-> role, locked |-> FALSE]
  <2>1. edit \in Edit
    BY <1>3 DEF BeginUpdateRole, Edit, Administrator, ActiveAs
  <2>2. edits' = [edits EXCEPT ![u] = edit]
    BY <1>3 DEF BeginUpdateRole
  <2>3. actor # a
    BY <1>3 DEF BeginUpdateRole
  <2>4. EditInv'
    BY <1>3, <2>1, <2>2, <2>3 DEF BeginUpdateRole, AccountInv, EditInv, ActiveAs
  <2> QED
    BY <1>3, <2>4 DEF BeginUpdateRole, AccountInv, AccountTypeOK, SetupInv, ChangeInv,
                      Exists, TokenInv, AdminRemains, ActiveAs
<1>4. ASSUME NEW u \in Edits, Authorize(u)
      PROVE  AccountInv'
  <2>1. edits[u] \in Edit
    BY <1>4 DEF Authorize, AccountInv, EditInv
  <2>2. edits' = [edits EXCEPT ![u] = [edits[u] EXCEPT !.locked = TRUE]]
    BY <1>4 DEF Authorize
  <2>3. [edits[u] EXCEPT !.locked = TRUE] \in Edit
    BY <2>1 DEF Edit
  <2>4. EditInv'
    BY <1>4, <2>1, <2>2, <2>3 DEF Authorize, Authorized, AccountInv, EditInv, Edit, ActiveAs
  <2> QED
    BY <1>4, <2>4 DEF Authorize, AccountInv, AccountTypeOK, SetupInv, ChangeInv,
                      Exists, TokenInv, AdminRemains, ActiveAs
<1>5. ASSUME NEW u \in Edits, UpdateRole(u)
      PROVE  AccountInv'
  <2>1. edits[u] \in Edit
    BY <1>5 DEF UpdateRole, AccountInv, EditInv
  <2> PICK actor \in People, target \in People :
        actor = edits[u].actor /\ target = edits[u].target
    BY <2>1 DEF Edit
  <2>2. /\ actor \in People /\ target \in People /\ actor # target
        /\ edits[u].as \in {"PLATFORM_ADMIN", "ORG_ADMIN"}
        /\ edits[u].role \in Role
        /\ ActiveAs(actor, edits[u].as)
    BY <1>5, <2>1 DEF UpdateRole, AccountInv, EditInv, Edit
  <2>3. /\ ~Locked(target)
        /\ members[target].role \in EditableBy(edits[u].as)
        /\ members' = [members EXCEPT ![target].role = edits[u].role]
        /\ edits' = [edits EXCEPT ![u] = NotStarted]
        /\ UNCHANGED <<accounts, organizations, setups, changes, tokens>>
    BY <1>5 DEF UpdateRole
  <2>4. \A x \in People : members'[x] = IF x = target
                                        THEN [members[target] EXCEPT !.role = edits[u].role]
                                        ELSE members[x]
    BY <2>2, <2>3 DEF AccountInv, AccountTypeOK
  <2>5. members' \in [People -> [role: Role \cup {None}, active: BOOLEAN]]
    BY <2>2, <2>3 DEF AccountInv, AccountTypeOK
  <2>6. members[target].role \in Role
    BY <2>2, <2>3 DEF EditableBy, Role
  <2>7. members'[target] # NoMember /\ members[target] # NoMember
    <3>1. members'[target].role \in Role
      BY <2>2, <2>4 DEF AccountInv, AccountTypeOK
    <3> QED BY <2>6, <3>1 DEF NoMember, None, Role
  <2>8. \A x \in People : (accounts'[x] = NoAccount) <=> (members'[x] = NoMember)
    BY <2>2, <2>3, <2>4, <2>7 DEF AccountInv, AccountTypeOK
  <2>9. AdminRemains'
    <3>1. organizations' = organizations
      BY <2>3
    <3>2. SUFFICES ASSUME organizations = 1
                   PROVE  \E x \in People : ActiveAs(x, "PLATFORM_ADMIN")'
      BY <3>1 DEF AccountInv, AdminRemains
    <3>3. PICK x \in People : ActiveAs(x, "PLATFORM_ADMIN")
      BY <3>2 DEF AccountInv, AdminRemains
    <3>4. CASE x # target
      BY <2>4, <3>3, <3>4 DEF ActiveAs
    <3>5. CASE x = target
      <4>1. edits[u].as = "PLATFORM_ADMIN"
        BY <2>2, <2>3, <3>3, <3>5 DEF ActiveAs, EditableBy
      <4>2. ActiveAs(actor, "PLATFORM_ADMIN")'
        BY <2>2, <2>4, <4>1 DEF ActiveAs
      <4> QED BY <2>2, <4>2
    <3> QED BY <3>4, <3>5
  <2>10. EditInv'
    <3>1. edits' \in [Edits -> {NotStarted} \cup Edit]
      BY <2>3 DEF AccountInv, EditInv
    <3>2. ASSUME NEW v \in Edits, edits'[v] # NotStarted
          PROVE  /\ edits'[v].actor # edits'[v].target
                 /\ edits'[v].locked => ActiveAs(edits[v].actor, edits[v].as)'
      <4>1. v # u /\ edits'[v] = edits[v]
        BY <2>3, <3>2 DEF AccountInv, EditInv
      <4>2. edits[v] \in Edit
        BY <3>2, <4>1 DEF AccountInv, EditInv
      <4>3. edits[v].locked => edits[v].actor # target
        BY <2>3, <3>2, <4>1 DEF Locked
      <4>4. edits[v].actor \in People
        BY <4>2 DEF Edit
      <4> QED BY <2>4, <3>2, <4>1, <4>3, <4>4 DEF AccountInv, EditInv, ActiveAs
    <3> QED BY <3>1, <3>2 DEF EditInv
  <2> QED
    BY <2>3, <2>5, <2>8, <2>9, <2>10
    DEF AccountInv, AccountTypeOK, SetupInv, ChangeInv, Exists, TokenInv
<1>6. ASSUME NEW u \in Edits, AbortUpdateRole(u)
      PROVE  AccountInv'
  <2>1. edits[u] \in Edit
    BY <1>6 DEF AbortUpdateRole, AccountInv, EditInv
  <2>2. [edits[u] EXCEPT !.locked = FALSE] \in Edit
    BY <2>1 DEF Edit
  <2>3. UNCHANGED <<accounts, members, organizations, setups, changes, tokens>>
    BY <1>6 DEF AbortUpdateRole
  <2>4. \/ edits' = [edits EXCEPT ![u] = NotStarted]
        \/ edits' = [edits EXCEPT ![u] = [edits[u] EXCEPT !.locked = FALSE]]
    BY <1>6 DEF AbortUpdateRole
  <2>5. CASE edits' = [edits EXCEPT ![u] = NotStarted]
    <3>1. EditInv'
      BY <2>3, <2>5 DEF AccountInv, EditInv, ActiveAs
    <3> QED
      BY <2>3, <3>1 DEF AccountInv, AccountTypeOK, SetupInv, ChangeInv,
                        Exists, TokenInv, AdminRemains, ActiveAs
  <2>6. CASE edits' = [edits EXCEPT ![u] = [edits[u] EXCEPT !.locked = FALSE]]
    <3>1. edits'[u] = [edits[u] EXCEPT !.locked = FALSE]
      BY <2>6 DEF AccountInv, EditInv
    <3>2. ~edits'[u].locked /\ edits'[u].actor # edits'[u].target
      BY <1>6, <2>1, <3>1 DEF AbortUpdateRole, AccountInv, EditInv, Edit
    <3>3. EditInv'
      BY <2>2, <2>3, <2>6, <3>2 DEF AccountInv, EditInv, ActiveAs
    <3> QED
      BY <2>3, <3>3 DEF AccountInv, AccountTypeOK, SetupInv, ChangeInv,
                        Exists, TokenInv, AdminRemains, ActiveAs
  <2> QED BY <2>4, <2>5, <2>6
<1> QED BY <1>1, <1>2, <1>3, <1>4, <1>5, <1>6 DEF RoleNext

-----------------------------------------------------------------------------
\* The row of one account is written, its membership is not: the account is
\* there before and after, and either its version grows or its version and its
\* password stay.
LEMMA AccountWritten ==
  ASSUME AccountInv, NEW a \in People, Exists(a),
         NEW row \in AccountRow, row # NoAccount,
         \/ row.version > accounts[a].version
         \/ row.version = accounts[a].version /\ row.password = accounts[a].password,
         accounts' = [accounts EXCEPT ![a] = row],
         UNCHANGED <<members, organizations, edits, setups, tokens>>
  PROVE  AccountTypeOK' /\ SetupInv' /\ EditInv' /\ TokenInv' /\ AdminRemains'
<1>1. \A x \in People : accounts'[x] = IF x = a THEN row ELSE accounts[x]
  BY DEF AccountInv, AccountTypeOK
<1>2. \A x \in People : Exists(x)' = Exists(x)
  BY <1>1 DEF Exists
<1>3. AccountTypeOK'
  BY <1>1 DEF AccountInv, AccountTypeOK, AccountRow, Exists
<1>4. SetupInv'
  BY <1>2 DEF AccountInv, SetupInv
<1>5. EditInv' /\ AdminRemains'
  BY DEF AccountInv, EditInv, AdminRemains, ActiveAs
<1>6. TokenInv'
  <2> SUFFICES ASSUME NEW token \in tokens
      PROVE /\ token.account \in People /\ Exists(token.account)'
            /\ token.version \in Nat
            /\ token.version <= accounts'[token.account].version
            /\ token.version = accounts'[token.account].version
                 => token.password = accounts'[token.account].password
    BY DEF TokenInv
  <2>1. row.version \in Nat /\ accounts[a].version \in Nat
    BY AccountAssumption DEF AccountInv, AccountTypeOK, AccountRow
  <2>2. CASE token.account # a
    BY <1>1, <1>2, <2>2 DEF AccountInv, TokenInv
  <2>3. CASE token.account = a
    BY <1>1, <1>2, <2>1, <2>3 DEF AccountInv, TokenInv
  <2> QED BY <2>2, <2>3
<1> QED BY <1>3, <1>4, <1>5, <1>6

\* WithPassword names the present version, so that it grows by one.
LEMMA WithPasswordGrows ==
  ASSUME NEW row \in AccountRow, NEW password \in Passwords, NEW pending \in BOOLEAN,
         row.version < MaxVersion
  PROVE  /\ WithPassword(row, password, pending) \in AccountRow
         /\ WithPassword(row, password, pending).version > row.version
         /\ WithPassword(row, password, pending) # NoAccount
         /\ WithPassword(row, password, pending).password = password
<1>1. row.version \in Nat /\ row.version + 1 \in 0 .. MaxVersion
  BY AccountAssumption DEF AccountRow
<1>2. WithPassword(row, password, pending) \in AccountRow
  BY <1>1 DEF WithPassword, AccountRow
<1>3. /\ WithPassword(row, password, pending).version = row.version + 1
      /\ WithPassword(row, password, pending).password = password
  BY DEF WithPassword, AccountRow
<1>4. WithPassword(row, password, pending).version # NoAccount.version
  BY <1>1, <1>3 DEF NoAccount
<1> QED BY <1>1, <1>2, <1>3, <1>4

\* Passwords.
LEMMA PasswordStep == AccountInv /\ PasswordNext => AccountInv'
<1> SUFFICES ASSUME AccountInv, PasswordNext PROVE AccountInv'
  OBVIOUS
<1>1. ASSUME NEW actor \in People, NEW a \in People, NEW p \in Passwords,
             ResetPassword(actor, a, p)
      PROVE  AccountInv'
  <2>1. accounts[a] \in AccountRow
    BY DEF AccountInv, AccountTypeOK, AccountRow
  <2>2. /\ Exists(a)
        /\ accounts[a].version < MaxVersion
        /\ accounts' = [accounts EXCEPT ![a] = WithPassword(accounts[a], p, TRUE)]
        /\ UNCHANGED <<members, organizations, edits, setups, tokens>>
        /\ changes' = changes
    BY <1>1 DEF ResetPassword
  <2>3. /\ WithPassword(accounts[a], p, TRUE) \in AccountRow
        /\ WithPassword(accounts[a], p, TRUE).version > accounts[a].version
        /\ WithPassword(accounts[a], p, TRUE) # NoAccount
    BY <2>1, <2>2, WithPasswordGrows
  <2>4. AccountTypeOK' /\ SetupInv' /\ EditInv' /\ TokenInv' /\ AdminRemains'
    BY <2>2, <2>3, AccountWritten
  <2>5. ChangeInv'
    BY <2>2, <2>3 DEF AccountInv, AccountTypeOK, ChangeInv, Change, Exists
  <2> QED BY <2>4, <2>5 DEF AccountInv
<1>2. ASSUME NEW actor \in People, NEW a \in People, NEW e \in Emails,
             UpdateEmail(actor, a, e)
      PROVE  AccountInv'
  <2> DEFINE row == [accounts[a] EXCEPT !.email = e]
  <2>1. accounts[a] \in AccountRow
    BY DEF AccountInv, AccountTypeOK, AccountRow
  <2>2. row \in AccountRow /\ row.email = e
        /\ row.version = accounts[a].version /\ row.password = accounts[a].password
    BY <2>1 DEF AccountRow
  <2>3. row # NoAccount
    BY <2>2, AccountAssumption DEF NoAccount, None
  <2>4. /\ Exists(a)
        /\ accounts' = [accounts EXCEPT ![a] = row]
        /\ UNCHANGED <<members, organizations, edits, setups, tokens>>
        /\ changes' = changes
    BY <1>2 DEF UpdateEmail
  <2> HIDE DEF row
  <2>5. AccountTypeOK' /\ SetupInv' /\ EditInv' /\ TokenInv' /\ AdminRemains'
    BY <2>2, <2>3, <2>4, AccountWritten
  <2>6. ChangeInv'
    BY <2>3, <2>4 DEF AccountInv, AccountTypeOK, ChangeInv, Change, Exists
  <2> QED BY <2>5, <2>6 DEF AccountInv
<1>3. ASSUME NEW c \in Changes, WritePassword(c)
      PROVE  AccountInv'
  <2>1. changes[c] \in Change /\ Exists(changes[c].account)
    BY <1>3 DEF WritePassword, AccountInv, ChangeInv
  <2> PICK a \in People : a = changes[c].account
    BY <2>1 DEF Change
  <2>2. accounts[a] \in AccountRow
    BY DEF AccountInv, AccountTypeOK, AccountRow
  <2>3. PICK p \in Passwords, pending \in BOOLEAN, email \in Emails \cup {None} :
          /\ accounts[a].version < MaxVersion
          /\ accounts' = [accounts EXCEPT ![a] =
               [WithPassword(accounts[a], p, pending) EXCEPT !.email = email]]
    <3> DEFINE email == IF changes[c].email = changes[c].read.email
                        THEN accounts[a].email ELSE changes[c].email
    <3>1. /\ changes[c].password \in Passwords
          /\ (~changes[c].initial /\ accounts[a].pending) \in BOOLEAN
          /\ email \in Emails \cup {None}
      BY <2>1, <2>2 DEF Change, AccountRow
    <3>2. /\ accounts[a].version < MaxVersion
          /\ accounts' = [accounts EXCEPT ![a] =
               [WithPassword(accounts[a], changes[c].password,
                  ~changes[c].initial /\ accounts[a].pending) EXCEPT !.email = email]]
      BY <1>3 DEF WritePassword, Incremented
    <3> QED BY <3>1, <3>2
  <2> DEFINE written == WithPassword(accounts[a], p, pending)
             row == [written EXCEPT !.email = email]
  <2>4. written \in AccountRow /\ written.version > accounts[a].version
    BY <2>2, <2>3, WithPasswordGrows
  <2> HIDE DEF written
  <2>5. row \in AccountRow /\ row.version = written.version
    BY <2>4 DEF AccountRow
  <2>6. row # NoAccount
    <3>1. row.version \in Nat /\ accounts[a].version \in Nat /\ row.version > accounts[a].version
      BY <2>2, <2>4, <2>5, AccountAssumption DEF AccountRow
    <3>2. row.version # NoAccount.version
      BY <3>1 DEF NoAccount
    <3> QED BY <3>2
  <2>7. accounts' = [accounts EXCEPT ![a] = row]
    BY <2>3 DEF written
  <2> HIDE DEF row
  <2>8. UNCHANGED <<members, organizations, edits, setups, tokens>>
    BY <1>3 DEF WritePassword
  <2>9. AccountTypeOK' /\ SetupInv' /\ EditInv' /\ TokenInv' /\ AdminRemains'
    BY <2>1, <2>4, <2>5, <2>6, <2>7, <2>8, AccountWritten
  <2>10. changes' = [changes EXCEPT ![c] = NotStarted]
    BY <1>3 DEF WritePassword
  <2>11. ChangeInv'
    BY <2>6, <2>7, <2>10 DEF AccountInv, AccountTypeOK, ChangeInv, Change, Exists
  <2> QED BY <2>9, <2>11 DEF AccountInv
<1>4. ASSUME NEW c \in Changes, AbortChange(c)
      PROVE  AccountInv'
  BY <1>4 DEF AbortChange, AccountInv, AccountTypeOK, SetupInv, EditInv, ActiveAs,
              ChangeInv, Exists, TokenInv, AdminRemains
<1>5. ASSUME NEW c \in Changes, NEW a \in People, NEW initial \in BOOLEAN,
             NEW p \in Passwords, NEW e \in Emails, ReadPassword(c, a, initial, p, e)
      PROVE  AccountInv'
  <2> DEFINE change == [account |-> a, initial |-> initial, password |-> p,
                        email |-> e, read |-> accounts[a]]
  <2>1. change \in Change
    BY DEF Change, AccountInv, AccountTypeOK, AccountRow
  <2>2. changes' = [changes EXCEPT ![c] = change]
    BY <1>5 DEF ReadPassword
  <2>3. change.account = a /\ Exists(a)
    BY <1>5 DEF ReadPassword
  <2> HIDE DEF change
  <2>4. UNCHANGED <<accounts, members, organizations, edits, setups, tokens>>
    BY <1>5 DEF ReadPassword
  <2>5. ChangeInv'
    BY <2>1, <2>2, <2>3, <2>4 DEF AccountInv, ChangeInv, Exists
  <2> QED
    BY <2>4, <2>5 DEF AccountInv, AccountTypeOK, SetupInv, EditInv, ActiveAs,
                      Exists, TokenInv, AdminRemains
<1>6. ASSUME NEW a \in People, Login(a)
      PROVE  AccountInv'
  <2>1. UNCHANGED <<accounts, members, organizations, edits, setups, changes>>
    BY <1>6 DEF Login
  <2>2. accounts[a].version \in Nat
    BY AccountAssumption DEF AccountInv, AccountTypeOK
  <2>3. TokenInv'
    BY <1>6, <2>2 DEF Login, AccountInv, TokenInv, Exists
  <2> QED
    BY <2>1, <2>3 DEF AccountInv, AccountTypeOK, SetupInv, EditInv, ActiveAs,
                      ChangeInv, Exists, AdminRemains
<1> QED BY <1>1, <1>2, <1>3, <1>4, <1>5, <1>6 DEF PasswordNext

-----------------------------------------------------------------------------
(* The theorems.                                                           *)

LEMMA AccountInvInvariant == AccountSpec => []AccountInv
<1>1. AccountInv /\ [AccountNext]_accountVars => AccountInv'
  <2>1. CASE UNCHANGED accountVars
    BY <2>1 DEF accountVars, AccountInv, AccountTypeOK, SetupInv, EditInv, ActiveAs,
                ChangeInv, Exists, TokenInv, AdminRemains
  <2> QED BY <2>1, SetupStep, RoleStep, PasswordStep DEF AccountNext
<1> QED BY <1>1, AccountInitInv, PTL DEF AccountSpec

\* One set-up wins, and the organization it makes always has an active platform
\* administrator, however many role updates, set-ups and status changes race
\* (auth.service.ts setup, users.service.ts updateRole and updateStatus).
THEOREM AdministratorRemains == AccountSpec => []AdminRemains
<1>1. AccountInv => AdminRemains
  BY DEF AccountInv
<1> QED BY <1>1, AccountInvInvariant, PTL

\* The rows of the accounts keep their types, and an account has a membership
\* exactly when it exists.
THEOREM AccountTypes == AccountSpec => []AccountTypeOK
<1>1. AccountInv => AccountTypeOK
  BY DEF AccountInv
<1> QED BY <1>1, AccountInvInvariant, PTL

\* A token that is honoured was issued for the present password, however many
\* password changes and resets overlap (the version is incremented in the row,
\* never computed from the row that was read).
THEOREM TokensProvePasswords == AccountSpec => []TokenProvesPassword
<1>1. AccountInv => TokenProvesPassword
  BY DEF AccountInv, TokenInv, TokenProvesPassword, Honoured
<1> QED BY <1>1, AccountInvInvariant, PTL

-----------------------------------------------------------------------------
(* The page of a user: what is known of the calls on the way, of the answers *)
(* that have come, and of what the page shows.                               *)

\* The buttons that a load enables again.
Buttons == {"none", "password", "email"}

Owners == Users \cup {NoUser}

\* The rows of the page and of a call on the way.
PageRow == [user: Owners, version: Nat, bound: BOOLEAN, loading: BOOLEAN, failed: BOOLEAN,
            busy: SUBSET Operations, grant: {"CLOSED", "OPEN", "READY"}, secret: Owners,
            password: Owners, drawer: BOOLEAN, shown: Nat]

SentCall == [op: Operations, user: Users, here: BOOLEAN, latest: BOOLEAN, then: Buttons,
             stage: {"SENT", "ANSWERED", "FAILED"}, version: Nat, bound: BOOLEAN]

ConsoleTypes ==
  /\ route \in [user: Users, watched: Users]
  /\ page \in PageRow
  /\ onWay \in SUBSET SentCall
  /\ remote \in [Users -> [version: Nat, link: Nat, bound: BOOLEAN]]
  /\ \A u \in Users : remote[u].link <= remote[u].version
  /\ told \in [change: Nat, link: Nat]

\* A call of this page is about its user, but for the load that an answer sends
\* between a change of the route and the watcher.
OfThisPage(c) ==
  c.here => c.user = route.watched \/ (~Watched /\ c.op = "load" /\ c.stage = "SENT")

\* What an answer says of the server, and what it may still be shown as.
AnswerOK(c) ==
  c.stage = "ANSWERED" =>
    /\ c.op \in Changing => c.version <= remote[c.user].version
    /\ c.op = "regenerate" => c.version <= remote[c.user].link
    /\ c.op = "view" /\ c.here /\ c.latest => told.link <= c.version
    /\ c.op = "load" /\ c.here /\ c.latest => told.change <= c.version

\* While a link is being regenerated, no view of the link counts.
RegenerationOK(c) ==
  /\ c.op = "regenerate" /\ c.here => "regenerate" \in page.busy
  /\ c.op = "view" /\ c.here /\ c.latest => "regenerate" \notin page.busy

OneRegeneration ==
  \A c, d \in onWay :
    c.op = "regenerate" /\ c.here /\ d.op = "regenerate" /\ d.here => c = d

CallsInv == /\ \A c \in onWay : OfThisPage(c) /\ AnswerOK(c) /\ RegenerationOK(c)
            /\ OneRegeneration

\* The page: what it shows belongs to the user it was reset for, the link shown
\* is not older than the newest one answered, loaded details include the newest
\* change answered, and the server is never behind what it has answered.
PageInv ==
  /\ {page.user, page.secret, page.password} \subseteq {NoUser, route.watched}
  /\ page.shown = NoLink \/ told.link <= page.shown
  /\ ~page.loading /\ ~page.failed => page.user = route.watched /\ told.change <= page.version
  /\ told.link <= remote[route.watched].link
  /\ told.change <= remote[route.watched].version

ConsoleInv == ConsoleTypes /\ CallsInv /\ PageInv

-----------------------------------------------------------------------------
\* A call that is sent.
LEMMA CallFields ==
  ASSUME ConsoleTypes, NEW op \in Operations, NEW then \in Buttons
  PROVE  /\ Call(op, then) \in SentCall
         /\ Call(op, then).op = op /\ Call(op, then).user = route.user
         /\ Call(op, then).here /\ Call(op, then).latest /\ Call(op, then).stage = "SENT"
BY DEF Call, SentCall, ConsoleTypes

\* Superseding a call only takes its being the latest from it.
LEMMA Superseded ==
  ASSUME NEW S \in SUBSET SentCall, NEW ops, NEW c \in Superseding(ops, S)
  PROVE  \E d \in S :
           /\ c = [d EXCEPT !.latest = d.latest /\ d.op \notin ops]
           /\ c \in SentCall
           /\ c.op = d.op /\ c.user = d.user /\ c.here = d.here /\ c.stage = d.stage
           /\ c.version = d.version
           /\ c.latest => d.latest /\ d.op \notin ops
<1>1. PICK d \in S : c = [d EXCEPT !.latest = d.latest /\ d.op \notin ops]
  BY DEF Superseding
<1>2. (d.latest /\ d.op \notin ops) \in BOOLEAN
  OBVIOUS
<1>3. c \in SentCall /\ c.latest = (d.latest /\ d.op \notin ops)
  BY <1>1, <1>2 DEF SentCall
<1>4. /\ c.op = d.op /\ c.user = d.user /\ c.here = d.here /\ c.stage = d.stage
      /\ c.version = d.version
  BY <1>1 DEF SentCall
<1> QED BY <1>1, <1>3, <1>4

LEMMA SupersededNone ==
  ASSUME NEW S \in SUBSET SentCall
  PROVE  S = Superseding({}, S)
<1>1. \A c \in S : [c EXCEPT !.latest = c.latest /\ c.op \notin {}] = c
  <2> SUFFICES ASSUME NEW c \in S
               PROVE  [c EXCEPT !.latest = c.latest /\ c.op \notin {}] = c
    OBVIOUS
  <2>1. (c.latest /\ c.op \notin {}) = c.latest
    BY DEF SentCall
  <2> QED BY <2>1 DEF SentCall
<1> QED BY <1>1 DEF Superseding

\* The calls that go on, superseded or not, and perhaps one that has been sent:
\* what is known of the calls stays true.
LEMMA SendingKeepsCalls ==
  ASSUME ConsoleTypes, CallsInv, NEW ops, NEW op \in Operations, NEW then \in Buttons,
         NEW S \in SUBSET onWay,
         onWay' \subseteq Superseding(ops, S) \cup {Call(op, then)},
         route' = route, remote' = remote,
         told'.link = told.link \/ \A d \in S : ~(d.op = "view" /\ d.here /\ d.latest),
         told'.change = told.change \/ "load" \in ops,
         op = "regenerate" => "regenerate" \notin page.busy,
         op = "regenerate" /\ Call(op, then) \in onWay' => "regenerate" \in page'.busy,
         op = "view" => "regenerate" \notin page'.busy,
         Watched \/ op = "load",
         "view" \in ops \/ ("regenerate" \in page'.busy => "regenerate" \in page.busy),
         \/ "regenerate" \in page.busy => "regenerate" \in page'.busy
         \/ \A d \in S : ~(d.op = "regenerate" /\ d.here)
  PROVE  onWay' \in SUBSET SentCall /\ CallsInv'
<1> DEFINE new == Call(op, then)
<1>1. /\ new \in SentCall /\ new.op = op /\ new.user = route.user
      /\ new.here /\ new.latest /\ new.stage = "SENT"
  BY CallFields
<1> HIDE DEF new
<1>2. S \in SUBSET SentCall
  BY DEF ConsoleTypes
<1>3. ASSUME NEW c \in onWay', c # new
      PROVE  \E d \in S :
               /\ c = [d EXCEPT !.latest = d.latest /\ d.op \notin ops]
               /\ c \in SentCall
               /\ c.op = d.op /\ c.user = d.user /\ c.here = d.here /\ c.stage = d.stage
               /\ c.version = d.version
               /\ c.latest => d.latest /\ d.op \notin ops
  <2>1. c \in Superseding(ops, S)
    BY <1>3 DEF new
  <2> QED BY <1>2, <2>1, Superseded
<1>4. onWay' \in SUBSET SentCall
  BY <1>1, <1>3
<1>5. ASSUME NEW c \in onWay'
      PROVE  OfThisPage(c)' /\ AnswerOK(c)' /\ RegenerationOK(c)'
  <2>1. CASE c = new
    <3>1. OfThisPage(c)'
      BY <1>1, <2>1 DEF OfThisPage, Watched
    <3>2. AnswerOK(c)'
      BY <1>1, <2>1 DEF AnswerOK
    <3>3. RegenerationOK(c)'
      BY <1>1, <1>5, <2>1 DEF RegenerationOK, new
    <3> QED BY <3>1, <3>2, <3>3
  <2>2. CASE c # new
    <3>1. PICK d \in S :
               /\ c.op = d.op /\ c.user = d.user /\ c.here = d.here /\ c.stage = d.stage
               /\ c.version = d.version
               /\ c.latest => d.latest /\ d.op \notin ops
      BY <1>3, <2>2
    <3>2. OfThisPage(d) /\ AnswerOK(d) /\ RegenerationOK(d)
      BY DEF CallsInv
    <3>3. OfThisPage(c)'
      BY <3>1, <3>2 DEF OfThisPage, Watched
    <3>4. AnswerOK(c)'
      BY <3>1, <3>2 DEF AnswerOK
    <3>5. RegenerationOK(c)'
      BY <3>1, <3>2 DEF RegenerationOK
    <3> QED BY <3>3, <3>4, <3>5
  <2> QED BY <2>1, <2>2
<1>6. ASSUME NEW c \in onWay', NEW d \in onWay', c.op = "regenerate", c.here,
             d.op = "regenerate", d.here
      PROVE  c = d
  <2>1. CASE c # new /\ d # new
    <3>1. PICK x \in S : /\ c = [x EXCEPT !.latest = x.latest /\ x.op \notin ops]
                         /\ c.op = x.op /\ c.here = x.here
      BY <1>3, <2>1
    <3>2. PICK y \in S : /\ d = [y EXCEPT !.latest = y.latest /\ y.op \notin ops]
                         /\ d.op = y.op /\ d.here = y.here
      BY <1>3, <2>1
    <3>3. x = y
      BY <1>6, <3>1, <3>2 DEF CallsInv, OneRegeneration
    <3> QED BY <3>1, <3>2, <3>3
  <2>2. ASSUME NEW b \in onWay', b # new, b.op = "regenerate", b.here, op = "regenerate"
        PROVE  FALSE
    <3>1. PICK x \in S : b.op = x.op /\ b.here = x.here
      BY <1>3, <2>2
    <3>2. RegenerationOK(x)
      BY DEF CallsInv
    <3> QED BY <2>2, <3>1, <3>2 DEF RegenerationOK
  <2> QED BY <1>1, <1>6, <2>1, <2>2
<1>7. OneRegeneration'
  BY <1>6 DEF OneRegeneration
<1> QED BY <1>4, <1>5, <1>7 DEF CallsInv

\* What every click keeps: it sends at most one call, supersedes others, and
\* shows nothing new of an answer.
LEMMA ClickKeeps ==
  ASSUME ConsoleInv, NEW calls, NEW shows \in PageRow, Sends(calls, shows),
         NEW ops, NEW op \in Operations, NEW then \in Buttons,
         calls \subseteq Superseding(ops, onWay) \cup {Call(op, then)},
         shows.user = page.user, shows.version = page.version,
         shows.secret \in {NoUser, page.secret}, shows.password \in {NoUser, page.password},
         shows.shown \in {NoLink, page.shown},
         shows.loading \/ (shows.loading = page.loading /\ shows.failed = page.failed),
         op \in {"view", "regenerate"} => "regenerate" \notin page.busy,
         IF op = "regenerate" THEN "view" \in ops /\ "regenerate" \in shows.busy
         ELSE "regenerate" \in shows.busy <=> "regenerate" \in page.busy
  PROVE  ConsoleInv'
<1>1. /\ onWay' = calls /\ page' = shows /\ route' = route /\ remote' = remote /\ told' = told
      /\ Watched
  BY DEF Sends
<1>2. onWay \in SUBSET onWay
  OBVIOUS
<1>3. onWay' \in SUBSET SentCall /\ CallsInv'
  <2>1. ConsoleTypes /\ CallsInv
    BY DEF ConsoleInv
  <2>2. onWay' \subseteq Superseding(ops, onWay) \cup {Call(op, then)}
    BY <1>1
  <2>3. /\ told'.link = told.link /\ told'.change = told.change
        /\ op = "regenerate" => "regenerate" \notin page.busy
        /\ op = "regenerate" => "regenerate" \in page'.busy
        /\ op = "view" => "regenerate" \notin page'.busy
        /\ "view" \in ops \/ ("regenerate" \in page'.busy => "regenerate" \in page.busy)
        /\ "regenerate" \in page.busy => "regenerate" \in page'.busy
    BY <1>1
  <2> QED BY <1>1, <1>2, <2>1, <2>2, <2>3, SendingKeepsCalls
<1>4. ConsoleTypes'
  BY <1>1, <1>3 DEF ConsoleInv, ConsoleTypes
<1>5. PageInv'
  BY <1>1 DEF ConsoleInv, PageInv
<1> QED BY <1>3, <1>4, <1>5 DEF ConsoleInv

LEMMA PageFields ==
  ASSUME ConsoleInv
  PROVE  /\ page \in PageRow /\ route.user \in Users /\ route.watched \in Users
         /\ onWay \in SUBSET SentCall /\ onWay = Superseding({}, onWay)
BY SupersededNone DEF ConsoleInv, ConsoleTypes

LEMMA RefreshInv == ASSUME ConsoleInv, Refresh PROVE ConsoleInv'
<1> DEFINE shows == Reloading(page)
<1>1. Sends(Loading(onWay, "none"), shows)
  BY DEF Refresh
<1>2. Loading(onWay, "none") \subseteq Superseding({"load"}, onWay) \cup {Call("load", "none")}
  BY DEF Loading
<1>3. /\ shows \in PageRow /\ shows.user = page.user /\ shows.version = page.version
      /\ shows.secret = page.secret /\ shows.password = page.password
      /\ shows.shown = page.shown /\ shows.loading /\ shows.busy = page.busy
  BY PageFields DEF Reloading, PageRow
<1>4. "load" \in Operations /\ "none" \in Buttons
  BY DEF Operations, Buttons
<1> HIDE DEF shows
<1> QED BY <1>1, <1>2, <1>3, <1>4, ClickKeeps

LEMMA SubmitInv ==
  ASSUME ConsoleInv, NEW op \in {"password", "email"}, Submit(op)
  PROVE  ConsoleInv'
<1> DEFINE shows == [page EXCEPT !.busy = @ \cup {op}]
<1>1. Sends(onWay \cup {Call(op, "none")}, shows)
  BY DEF Submit
<1>2. onWay \cup {Call(op, "none")} \subseteq Superseding({}, onWay) \cup {Call(op, "none")}
  BY PageFields
<1>3. op \in Operations /\ "none" \in Buttons
  BY DEF Operations, Changing, Buttons
<1>4. /\ shows \in PageRow /\ shows.user = page.user /\ shows.version = page.version
      /\ shows.secret = page.secret /\ shows.password = page.password
      /\ shows.shown = page.shown /\ shows.loading = page.loading /\ shows.failed = page.failed
      /\ "regenerate" \in shows.busy <=> "regenerate" \in page.busy
  BY PageFields, <1>3 DEF PageRow
<1> HIDE DEF shows
<1> QED BY <1>1, <1>2, <1>3, <1>4, ClickKeeps

LEMMA GrantFormInv ==
  ASSUME ConsoleInv, OpenGrant \/ CloseGrant \/ CreateGrant
  PROVE  ConsoleInv'
<1>1. {"groups", "create"} \subseteq Operations /\ "none" \in Buttons
  BY DEF Operations, Changing, Buttons
<1>2. CASE OpenGrant
  <2> DEFINE shows == [page EXCEPT !.grant = "OPEN"]
  <2>1. Sends(Superseding({"groups"}, onWay) \cup {Call("groups", "none")}, shows)
    BY <1>2 DEF OpenGrant
  <2>2. /\ shows \in PageRow /\ shows.user = page.user /\ shows.version = page.version
        /\ shows.secret = page.secret /\ shows.password = page.password
        /\ shows.shown = page.shown /\ shows.loading = page.loading /\ shows.failed = page.failed
        /\ shows.busy = page.busy
    BY PageFields DEF PageRow
  <2> HIDE DEF shows
  <2> QED BY <1>1, <2>1, <2>2, ClickKeeps
<1>3. CASE CloseGrant
  <2> DEFINE shows == [page EXCEPT !.grant = "CLOSED"]
  <2>1. Sends(Superseding({"groups"}, onWay), shows)
    BY <1>3 DEF CloseGrant
  <2>2. /\ shows \in PageRow /\ shows.user = page.user /\ shows.version = page.version
        /\ shows.secret = page.secret /\ shows.password = page.password
        /\ shows.shown = page.shown /\ shows.loading = page.loading /\ shows.failed = page.failed
        /\ shows.busy = page.busy
    BY PageFields DEF PageRow
  <2>3. Superseding({"groups"}, onWay)
          \subseteq Superseding({"groups"}, onWay) \cup {Call("groups", "none")}
    OBVIOUS
  <2> HIDE DEF shows
  <2> QED BY <1>1, <2>1, <2>2, <2>3, ClickKeeps
<1>4. CASE CreateGrant
  <2> DEFINE shows == [page EXCEPT !.busy = @ \cup {"create"}, !.secret = NoUser]
  <2>1. Sends(onWay \cup {Call("create", "none")}, shows)
    BY <1>4 DEF CreateGrant
  <2>2. /\ shows \in PageRow /\ shows.user = page.user /\ shows.version = page.version
        /\ shows.secret = NoUser /\ shows.password = page.password
        /\ shows.shown = page.shown /\ shows.loading = page.loading /\ shows.failed = page.failed
        /\ "regenerate" \in shows.busy <=> "regenerate" \in page.busy
    BY <1>1, PageFields DEF PageRow, Owners
  <2>3. onWay \cup {Call("create", "none")} \subseteq Superseding({}, onWay) \cup {Call("create", "none")}
    BY PageFields
  <2> HIDE DEF shows
  <2> QED BY <1>1, <2>1, <2>2, <2>3, ClickKeeps
<1> QED BY <1>2, <1>3, <1>4

LEMMA LinkClicksInv ==
  ASSUME ConsoleInv, ViewConnectionUrl \/ OpenRegeneration \/ CloseRegeneration
                       \/ RegenerateConnectionUrl
  PROVE  ConsoleInv'
<1>1. {"groups", "view", "regenerate"} \subseteq Operations /\ "none" \in Buttons
  BY DEF Operations, Changing, Buttons
<1>2. CASE ViewConnectionUrl
  <2> DEFINE shows == [page EXCEPT !.busy = @ \cup {"view"}]
  <2>1. /\ Sends(Superseding({"view"}, onWay) \cup {Call("view", "none")}, shows)
        /\ "regenerate" \notin page.busy
    BY <1>2 DEF ViewConnectionUrl
  <2>2. /\ shows \in PageRow /\ shows.user = page.user /\ shows.version = page.version
        /\ shows.secret = page.secret /\ shows.password = page.password
        /\ shows.shown = page.shown /\ shows.loading = page.loading /\ shows.failed = page.failed
        /\ "regenerate" \in shows.busy <=> "regenerate" \in page.busy
    BY <1>1, PageFields DEF PageRow
  <2> HIDE DEF shows
  <2> QED BY <1>1, <2>1, <2>2, ClickKeeps
<1>3. CASE OpenRegeneration
  <2> DEFINE shows == [page EXCEPT !.drawer = TRUE, !.shown = NoLink]
  <2>1. Sends(Superseding({"view"}, onWay), shows)
    BY <1>3 DEF OpenRegeneration
  <2>2. /\ shows \in PageRow /\ shows.user = page.user /\ shows.version = page.version
        /\ shows.secret = page.secret /\ shows.password = page.password
        /\ shows.shown = NoLink /\ shows.loading = page.loading /\ shows.failed = page.failed
        /\ shows.busy = page.busy
    BY PageFields DEF PageRow, NoLink
  <2>3. Superseding({"view"}, onWay)
          \subseteq Superseding({"view"}, onWay) \cup {Call("groups", "none")}
    OBVIOUS
  <2> HIDE DEF shows
  <2> QED BY <1>1, <2>1, <2>2, <2>3, ClickKeeps
<1>4. CASE CloseRegeneration
  <2> DEFINE shows == [page EXCEPT !.drawer = FALSE]
  <2>1. Sends(onWay, shows)
    BY <1>4 DEF CloseRegeneration
  <2>2. /\ shows \in PageRow /\ shows.user = page.user /\ shows.version = page.version
        /\ shows.secret = page.secret /\ shows.password = page.password
        /\ shows.shown = page.shown /\ shows.loading = page.loading /\ shows.failed = page.failed
        /\ shows.busy = page.busy
    BY PageFields DEF PageRow
  <2>3. onWay \subseteq Superseding({}, onWay) \cup {Call("groups", "none")}
    BY PageFields
  <2> HIDE DEF shows
  <2> QED BY <1>1, <2>1, <2>2, <2>3, ClickKeeps
<1>5. CASE RegenerateConnectionUrl
  <2> DEFINE shows == [page EXCEPT !.busy = @ \cup {"regenerate"}]
  <2>1. /\ Sends(Superseding({"view"}, onWay) \cup {Call("regenerate", "none")}, shows)
        /\ "regenerate" \notin page.busy
    BY <1>5 DEF RegenerateConnectionUrl
  <2>2. /\ shows \in PageRow /\ shows.user = page.user /\ shows.version = page.version
        /\ shows.secret = page.secret /\ shows.password = page.password
        /\ shows.shown = page.shown /\ shows.loading = page.loading /\ shows.failed = page.failed
        /\ "regenerate" \in shows.busy
    BY <1>1, PageFields DEF PageRow
  <2> HIDE DEF shows
  <2> QED BY <1>1, <2>1, <2>2, ClickKeeps
<1> QED BY <1>2, <1>3, <1>4, <1>5

LEMMA ClearingInv ==
  ASSUME ConsoleInv, ClearConnectionUrl \/ ClearSecret \/ ClearPassword
  PROVE  ConsoleInv'
<1>1. PICK shows \in {[page EXCEPT !.shown = NoLink], [page EXCEPT !.secret = NoUser],
                      [page EXCEPT !.password = NoUser]} : Sends(onWay, shows)
  BY DEF ClearConnectionUrl, ClearSecret, ClearPassword
<1>2. /\ shows \in PageRow /\ shows.user = page.user /\ shows.version = page.version
      /\ shows.secret \in {NoUser, page.secret} /\ shows.password \in {NoUser, page.password}
      /\ shows.shown \in {NoLink, page.shown}
      /\ shows.loading = page.loading /\ shows.failed = page.failed /\ shows.busy = page.busy
  BY PageFields DEF PageRow, NoLink, Owners
<1>3. onWay \subseteq Superseding({}, onWay) \cup {Call("groups", "none")}
  BY PageFields
<1>4. "groups" \in Operations /\ "none" \in Buttons
  BY DEF Operations, Buttons
<1> QED BY <1>1, <1>2, <1>3, <1>4, ClickKeeps

-----------------------------------------------------------------------------
(* The route and the server.                                               *)

LEMMA NavigateInv ==
  ASSUME ConsoleInv, NEW u \in Users, Navigate(u) PROVE ConsoleInv'
<1>1. /\ route'.watched = route.watched /\ route' \in [user: Users, watched: Users]
      /\ page' = page /\ onWay' = onWay /\ remote' = remote /\ told' = told /\ Watched
  BY DEF Navigate, ConsoleInv, ConsoleTypes
<1>2. ConsoleTypes' /\ PageInv'
  BY <1>1 DEF ConsoleInv, ConsoleTypes, PageInv
<1>3. ASSUME NEW c \in onWay PROVE OfThisPage(c)' /\ AnswerOK(c)' /\ RegenerationOK(c)'
  <2>1. OfThisPage(c) /\ AnswerOK(c) /\ RegenerationOK(c)
    BY DEF ConsoleInv, CallsInv
  <2>2. OfThisPage(c)'
    BY <1>1, <2>1 DEF OfThisPage
  <2>3. AnswerOK(c)'
    BY <1>1, <2>1 DEF AnswerOK
  <2>4. RegenerationOK(c)'
    BY <1>1, <2>1 DEF RegenerationOK
  <2> QED BY <2>2, <2>3, <2>4
<1>4. OneRegeneration'
  BY <1>1 DEF ConsoleInv, CallsInv, OneRegeneration
<1> QED BY <1>1, <1>2, <1>3, <1>4 DEF ConsoleInv, CallsInv

LEMMA ResetInv == ASSUME ConsoleInv, ResetForUser PROVE ConsoleInv'
<1> DEFINE S == {[c EXCEPT !.here = FALSE, !.latest = FALSE] : c \in onWay}
           new == Call("load", "none")
<1>1. /\ route' = [user |-> route.user, watched |-> route.user] /\ route.user \in Users
      /\ page' = Blank /\ told' = NothingTold /\ remote' = remote
      /\ onWay' = Superseding({"load"}, S) \cup {new}
  BY DEF ResetForUser, ConsoleInv, ConsoleTypes, Loading
<1>2. S \in SUBSET SentCall /\ \A c \in S : ~c.here
  <2> SUFFICES ASSUME NEW c \in S PROVE c \in SentCall /\ ~c.here
    OBVIOUS
  <2>1. PICK e \in onWay : c = [e EXCEPT !.here = FALSE, !.latest = FALSE]
    OBVIOUS
  <2>2. e \in SentCall
    BY DEF ConsoleInv, ConsoleTypes
  <2> QED BY <2>1, <2>2 DEF SentCall
<1>3. /\ new \in SentCall /\ new.op = "load" /\ new.user = route.user
      /\ new.stage = "SENT"
  <2>1. "load" \in Operations /\ "none" \in Buttons
    BY DEF Operations, Buttons
  <2> QED BY <2>1, CallFields DEF ConsoleInv
<1> HIDE DEF S, new
<1>4. \A c \in onWay' : c \in SentCall /\ (c = new \/ ~c.here)
  <2> SUFFICES ASSUME NEW c \in onWay', c # new PROVE c \in SentCall /\ ~c.here
    BY <1>3
  <2>1. c \in Superseding({"load"}, S)
    BY <1>1
  <2>2. S \in SUBSET SentCall
    BY <1>2
  <2>3. PICK d \in S :
           /\ c = [d EXCEPT !.latest = d.latest /\ d.op \notin {"load"}]
           /\ c \in SentCall
           /\ c.op = d.op /\ c.user = d.user /\ c.here = d.here /\ c.stage = d.stage
           /\ c.version = d.version
           /\ c.latest => d.latest /\ d.op \notin {"load"}
    BY <2>1, <2>2, Superseded
  <2>4. ~d.here
    BY <1>2
  <2> QED BY <2>3, <2>4
<1>5. \A c \in onWay' : OfThisPage(c)' /\ AnswerOK(c)' /\ RegenerationOK(c)'
  <2> SUFFICES ASSUME NEW c \in onWay'
               PROVE  OfThisPage(c)' /\ AnswerOK(c)' /\ RegenerationOK(c)'
    OBVIOUS
  <2>1. OfThisPage(c)'
    BY <1>1, <1>3, <1>4 DEF OfThisPage
  <2>2. c.stage = "ANSWERED" /\ c.op \in Changing => c.version <= remote'[c.user].version
    <3>1. CASE c = new
      BY <1>3, <3>1
    <3>2. CASE c # new
      <4>1. c \in Superseding({"load"}, S)
        BY <1>1, <3>2
      <4>2. PICK d \in S : c.op = d.op /\ c.user = d.user /\ c.stage = d.stage /\ c.version = d.version
        BY <1>2, <4>1, Superseded
      <4>3. PICK e \in onWay : d = [e EXCEPT !.here = FALSE, !.latest = FALSE]
        BY DEF S
      <4>4. d.op = e.op /\ d.user = e.user /\ d.stage = e.stage /\ d.version = e.version
        BY <4>3 DEF ConsoleInv, ConsoleTypes, SentCall
      <4>5. AnswerOK(e)
        BY DEF ConsoleInv, CallsInv
      <4> QED BY <1>1, <4>2, <4>4, <4>5 DEF AnswerOK
    <3> QED BY <3>1, <3>2
  <2>3. c.stage = "ANSWERED" /\ c.op = "regenerate" => c.version <= remote'[c.user].link
    <3>1. CASE c = new
      BY <1>3, <3>1
    <3>2. CASE c # new
      <4>1. c \in Superseding({"load"}, S)
        BY <1>1, <3>2
      <4>2. PICK d \in S : c.op = d.op /\ c.user = d.user /\ c.stage = d.stage /\ c.version = d.version
        BY <1>2, <4>1, Superseded
      <4>3. PICK e \in onWay : d = [e EXCEPT !.here = FALSE, !.latest = FALSE]
        BY DEF S
      <4>4. d.op = e.op /\ d.user = e.user /\ d.stage = e.stage /\ d.version = e.version
        BY <4>3 DEF ConsoleInv, ConsoleTypes, SentCall
      <4>5. AnswerOK(e)
        BY DEF ConsoleInv, CallsInv
      <4> QED BY <1>1, <4>2, <4>4, <4>5 DEF AnswerOK
    <3> QED BY <3>1, <3>2
  <2>4. c.stage = "ANSWERED" => ~c.here
    BY <1>3, <1>4
  <2>5. AnswerOK(c)'
    BY <2>2, <2>3, <2>4 DEF AnswerOK
  <2>6. RegenerationOK(c)'
    BY <1>3, <1>4 DEF RegenerationOK
  <2> QED BY <2>1, <2>5, <2>6
<1>6. OneRegeneration'
  BY <1>3, <1>4 DEF OneRegeneration
<1>7. ConsoleTypes'
  <2>1. page' \in PageRow
    BY <1>1 DEF Blank, PageRow, Owners, NoLink
  <2>2. told' \in [change: Nat, link: Nat]
    BY <1>1 DEF NothingTold, NoLink
  <2> QED BY <1>1, <1>4, <2>1, <2>2 DEF ConsoleInv, ConsoleTypes
<1>8. PageInv'
  <2>1. remote'[route'.watched].link \in Nat /\ remote'[route'.watched].version \in Nat
    BY <1>7 DEF ConsoleTypes
  <2> QED BY <1>1, <2>1 DEF PageInv, Blank, NothingTold, NoLink
<1> QED BY <1>5, <1>6, <1>7, <1>8 DEF ConsoleInv, CallsInv

\* A step of the server: no version and no link goes back.
Grown ==
  /\ remote' \in [Users -> [version: Nat, link: Nat, bound: BOOLEAN]]
  /\ \A u \in Users : /\ remote'[u].link <= remote'[u].version
                      /\ remote[u].link <= remote'[u].link
                      /\ remote[u].version <= remote'[u].version

LEMMA GrowthKeeps ==
  ASSUME ConsoleInv, Grown, UNCHANGED <<route, page, told>>
  PROVE  /\ \A c \in onWay : OfThisPage(c)' /\ AnswerOK(c)' /\ RegenerationOK(c)'
         /\ PageInv'
<1>1. route' = route /\ page' = page /\ told' = told
  OBVIOUS
<1>2. /\ route.watched \in Users /\ told \in [change: Nat, link: Nat]
      /\ \A c \in onWay : c.user \in Users /\ c.version \in Nat
      /\ \A u \in Users : remote[u].link \in Nat /\ remote[u].version \in Nat
      /\ \A u \in Users : remote'[u].link \in Nat /\ remote'[u].version \in Nat
  BY DEF ConsoleInv, ConsoleTypes, SentCall, Grown
<1>3. ASSUME NEW c \in onWay PROVE OfThisPage(c)' /\ AnswerOK(c)' /\ RegenerationOK(c)'
  <2>1. OfThisPage(c) /\ AnswerOK(c) /\ RegenerationOK(c)
    BY DEF ConsoleInv, CallsInv
  <2>2. OfThisPage(c)'
    BY <1>1, <2>1 DEF OfThisPage, Watched
  <2>3. /\ remote[c.user].link <= remote'[c.user].link
        /\ remote[c.user].version <= remote'[c.user].version
    BY <1>2 DEF Grown
  <2>4. AnswerOK(c)'
    BY <1>1, <1>2, <2>1, <2>3 DEF AnswerOK
  <2>5. RegenerationOK(c)'
    BY <1>1, <2>1 DEF RegenerationOK
  <2> QED BY <2>2, <2>4, <2>5
<1>4. PageInv'
  <2>1. /\ remote[route.watched].link <= remote'[route.watched].link
        /\ remote[route.watched].version <= remote'[route.watched].version
    BY <1>2 DEF Grown
  <2> QED BY <1>1, <1>2, <2>1 DEF ConsoleInv, PageInv
<1> QED BY <1>3, <1>4

LEMMA AnswerKeeps ==
  ASSUME ConsoleInv, Grown, UNCHANGED <<route, page, told>>, NEW c \in onWay,
         NEW outcomes \in SUBSET {"ANSWERED", "FAILED"},
         NEW data, data = remote'[c.user], Answered(c, data, outcomes),
         c.op = "regenerate" /\ "ANSWERED" \in outcomes => data.version <= data.link
  PROVE  ConsoleInv'
<1>1. PICK stage \in outcomes :
        onWay' = (onWay \ {c}) \cup
          {[c EXCEPT !.stage = stage, !.bound = data.bound,
                     !.version = IF c.op = "view" THEN data.link ELSE data.version]}
  BY DEF Answered
<1> DEFINE a == [c EXCEPT !.stage = stage, !.bound = data.bound,
                          !.version = IF c.op = "view" THEN data.link ELSE data.version]
<1>2. c \in SentCall /\ data \in [version: Nat, link: Nat, bound: BOOLEAN]
      /\ c.stage = "SENT" /\ Watched /\ route.watched \in Users
      /\ told \in [change: Nat, link: Nat]
  BY DEF ConsoleInv, ConsoleTypes, Grown, SentCall, Answered
<1>3. /\ a \in SentCall /\ a.op = c.op /\ a.user = c.user /\ a.here = c.here
      /\ a.latest = c.latest /\ a.stage = stage
      /\ a.version = IF c.op = "view" THEN data.link ELSE data.version
  BY <1>2 DEF SentCall
<1> HIDE DEF a
<1>4. /\ \A d \in onWay : OfThisPage(d)' /\ AnswerOK(d)' /\ RegenerationOK(d)'
      /\ PageInv'
  BY GrowthKeeps
<1>5. OfThisPage(a)' /\ RegenerationOK(a)'
  <2>1. OfThisPage(c) /\ RegenerationOK(c)
    BY DEF ConsoleInv, CallsInv
  <2>2. OfThisPage(a)'
    BY <1>2, <1>3, <2>1 DEF OfThisPage, Watched
  <2> QED BY <1>3, <2>1, <2>2 DEF RegenerationOK
<1>6. AnswerOK(a)'
  <2>1. c.here => c.user = route.watched
    BY <1>2 DEF ConsoleInv, CallsInv, OfThisPage
  <2>2. data.version \in Nat /\ data.link \in Nat /\ told'.link = told.link /\ told'.change = told.change
    BY <1>2
  <2>3. c.here => told.link <= data.link /\ told.change <= data.version
    <3>1. told'.link <= remote'[route.watched].link /\ told'.change <= remote'[route.watched].version
      BY <1>4 DEF PageInv
    <3> QED BY <2>1, <2>2, <3>1
  <2>4. "view" \notin Changing /\ "load" \notin Changing
    BY DEF Changing
  <2>5. a.op \in Changing => a.version <= remote'[a.user].version
    BY <1>3, <2>2, <2>4
  <2>6. a.stage = "ANSWERED" /\ a.op = "regenerate" => a.version <= remote'[a.user].link
    BY <1>3, <2>2
  <2> QED BY <1>3, <2>2, <2>3, <2>5, <2>6 DEF AnswerOK
<1>7. OneRegeneration'
  <2>1. \A d \in onWay' : d = a \/ d \in onWay \ {c}
    BY <1>1 DEF a
  <2>2. OneRegeneration
    BY DEF ConsoleInv, CallsInv
  <2> QED BY <1>3, <2>1, <2>2 DEF OneRegeneration
<1>8. ConsoleTypes'
  <2>1. onWay' \in SUBSET SentCall
    BY <1>1, <1>3 DEF ConsoleInv, ConsoleTypes, a
  <2> QED BY <2>1 DEF ConsoleInv, ConsoleTypes, Grown
<1>9. \A d \in onWay' : OfThisPage(d)' /\ AnswerOK(d)' /\ RegenerationOK(d)'
  BY <1>1, <1>4, <1>5, <1>6 DEF a
<1> QED BY <1>4, <1>7, <1>8, <1>9 DEF ConsoleInv, CallsInv

LEMMA ChangedGrows ==
  ASSUME ConsoleInv, NEW u \in Users, NEW link \in BOOLEAN
  PROVE  /\ Changed(u, link) \in [Users -> [version: Nat, link: Nat, bound: BOOLEAN]]
         /\ \A v \in Users : /\ Changed(u, link)[v].link <= Changed(u, link)[v].version
                             /\ remote[v].link <= Changed(u, link)[v].link
                             /\ remote[v].version <= Changed(u, link)[v].version
         /\ link => Changed(u, link)[u].link = Changed(u, link)[u].version
<1>1. /\ remote \in [Users -> [version: Nat, link: Nat, bound: BOOLEAN]]
      /\ \A v \in Users : remote[v].link <= remote[v].version
  BY DEF ConsoleInv, ConsoleTypes
<1> DEFINE n == remote[u].version + 1
           row == [remote[u] EXCEPT !.version = n, !.link = IF link THEN n ELSE @]
<1>2. Changed(u, link) = [remote EXCEPT ![u] = row]
  BY <1>1 DEF Changed
<1>3. /\ row \in [version: Nat, link: Nat, bound: BOOLEAN]
      /\ row.version = n /\ row.link = IF link THEN n ELSE remote[u].link
      /\ remote[u].version \in Nat /\ remote[u].link \in Nat
      /\ remote[u].link <= remote[u].version
  <2> DEFINE r == remote[u]
             l == IF link THEN n ELSE r.link
  <2>1. r \in [version: Nat, link: Nat, bound: BOOLEAN] /\ r.link <= r.version
    BY <1>1
  <2>2. n \in Nat /\ l \in Nat
    BY <2>1
  <2>3. row = [r EXCEPT !.version = n, !.link = l]
    OBVIOUS
  <2> HIDE DEF r, l, n, row
  <2>4. row \in [version: Nat, link: Nat, bound: BOOLEAN] /\ row.version = n /\ row.link = l
    BY <2>1, <2>2, <2>3
  <2> QED BY <2>1, <2>4 DEF r, l
<1>4. \A v \in Users : /\ Changed(u, link)[v] = IF v = u THEN row ELSE remote[v]
                       /\ remote[v].version \in Nat /\ remote[v].link \in Nat
  BY <1>1, <1>2
<1>5. /\ row.link <= row.version /\ remote[u].link <= row.link
      /\ remote[u].version <= row.version
  BY <1>3
<1>6. Changed(u, link) \in [Users -> [version: Nat, link: Nat, bound: BOOLEAN]]
  BY <1>1, <1>2, <1>3
<1>7. \A v \in Users : /\ Changed(u, link)[v].link <= Changed(u, link)[v].version
                       /\ remote[v].link <= Changed(u, link)[v].link
                       /\ remote[v].version <= Changed(u, link)[v].version
  <2> HIDE DEF row
  <2> QED BY <1>1, <1>4, <1>5
<1> QED BY <1>3, <1>4, <1>6, <1>7

LEMMA ServerInv ==
  ASSUME ConsoleInv, NEW c \in onWay, ServerReads(c) \/ ServerChanges(c) \/ ServerRefuses(c)
  PROVE  ConsoleInv'
<1>1. c.user \in Users
  BY DEF ConsoleInv, ConsoleTypes, SentCall
<1>2. ASSUME remote' = remote PROVE Grown
  <2>1. \A u \in Users : remote[u].link \in Nat /\ remote[u].version \in Nat
    BY DEF ConsoleInv, ConsoleTypes
  <2> QED BY <1>2, <2>1 DEF Grown, ConsoleInv, ConsoleTypes
<1>3. CASE ServerReads(c)
  <2>1. remote' = remote /\ UNCHANGED <<route, page, told>> /\ c.op # "regenerate"
    BY <1>3 DEF ServerReads, Changing
  <2>2. PICK outcomes \in SUBSET {"ANSWERED", "FAILED"} : Answered(c, remote[c.user], outcomes)
    BY <1>3 DEF ServerReads
  <2> QED BY <1>2, <2>1, <2>2, AnswerKeeps
<1>4. CASE ServerChanges(c)
  <2>1. /\ remote' = Changed(c.user, c.op = "regenerate") /\ UNCHANGED <<route, page, told>>
        /\ Answered(c, remote'[c.user], {"ANSWERED", "FAILED"})
    BY <1>4 DEF ServerChanges
  <2>2. (c.op = "regenerate") \in BOOLEAN
    OBVIOUS
  <2>3. Grown /\ (c.op = "regenerate" => remote'[c.user].link = remote'[c.user].version)
    BY <1>1, <2>1, <2>2, ChangedGrows DEF Grown
  <2>4. remote'[c.user].version \in Nat
    BY <1>1, <2>3 DEF Grown
  <2> QED BY <2>1, <2>3, <2>4, AnswerKeeps
<1>5. CASE ServerRefuses(c)
  <2>1. /\ remote' = remote /\ UNCHANGED <<route, page, told>>
        /\ Answered(c, remote'[c.user], {"FAILED"})
    BY <1>5 DEF ServerRefuses
  <2>2. {"FAILED"} \in SUBSET {"ANSWERED", "FAILED"} /\ "ANSWERED" \notin {"FAILED"}
    OBVIOUS
  <2> QED BY <1>2, <2>1, <2>2, AnswerKeeps
<1> QED BY <1>3, <1>4, <1>5

LEMMA ElsewhereInv ==
  ASSUME ConsoleInv, NEW u \in Users, ElsewhereRegenerated(u) \/ ElsewhereRedeemed(u)
  PROVE  ConsoleInv'
<1>1. UNCHANGED <<route, page, onWay, told>>
  BY DEF ElsewhereRegenerated, ElsewhereRedeemed
<1>2. Grown
  <2>1. CASE ElsewhereRegenerated(u)
    BY <2>1, ChangedGrows DEF ElsewhereRegenerated, Grown
  <2>2. CASE ElsewhereRedeemed(u)
    <3>1. remote' = [Changed(u, FALSE) EXCEPT ![u].bound = TRUE]
      BY <2>2 DEF ElsewhereRedeemed
    <3> DEFINE K == Changed(u, FALSE)
    <3>2. /\ K \in [Users -> [version: Nat, link: Nat, bound: BOOLEAN]]
          /\ \A v \in Users : /\ K[v].link <= K[v].version
                              /\ remote[v].link <= K[v].link
                              /\ remote[v].version <= K[v].version
      BY ChangedGrows
    <3>3. remote' = [K EXCEPT ![u].bound = TRUE]
      BY <3>1
    <3> HIDE DEF K
    <3> QED BY <3>2, <3>3 DEF Grown
  <2> QED BY <2>1, <2>2
<1>3. /\ \A c \in onWay : OfThisPage(c)' /\ AnswerOK(c)' /\ RegenerationOK(c)'
      /\ PageInv'
  BY <1>1, <1>2, GrowthKeeps
<1>4. ConsoleTypes' /\ OneRegeneration'
  BY <1>1, <1>2 DEF ConsoleInv, ConsoleTypes, CallsInv, OneRegeneration, Grown
<1> QED BY <1>1, <1>3, <1>4 DEF ConsoleInv, CallsInv

-----------------------------------------------------------------------------
(* Answers.                                                                *)

\* An answer of the user whose page is open is about the user of the page.
LEMMA AnswerFields ==
  ASSUME ConsoleInv, NEW c \in onWay, NEW op, Arrives(c, op)
  PROVE  /\ c \in SentCall /\ c.op = op /\ c.user \in Users /\ c.version \in Nat
         /\ c.stage \in {"ANSWERED", "FAILED"}
         /\ c.here => c.user = route.watched
         /\ AnswerOK(c) /\ RegenerationOK(c)
         /\ page \in PageRow /\ route.watched \in Users
         /\ told \in [change: Nat, link: Nat]
BY DEF ConsoleInv, ConsoleTypes, CallsInv, OfThisPage, SentCall, Arrives

\* What an answer that sends nothing must leave true of the page.
LEMMA EndKeeps ==
  ASSUME ConsoleInv, NEW c \in onWay, NEW p \in PageRow, Ends(c, p),
         {p.user, p.secret, p.password} \subseteq {NoUser, route.watched},
         p.shown = NoLink \/ told.link <= p.shown,
         ~p.loading /\ ~p.failed => p.user = route.watched /\ told.change <= p.version,
         "regenerate" \in p.busy => "regenerate" \in page.busy,
         \/ "regenerate" \in page.busy => "regenerate" \in p.busy
         \/ c.op = "regenerate" /\ c.here
  PROVE  ConsoleInv'
<1> DEFINE S == onWay \ {c}
<1>1. /\ onWay' = S /\ page' = p /\ route' = route /\ remote' = remote /\ told' = told
  BY DEF Ends
<1>2. S \in SUBSET onWay /\ S \in SUBSET SentCall /\ "load" \in Operations /\ "none" \in Buttons
  BY DEF ConsoleInv, ConsoleTypes, Operations, Buttons
<1>3. onWay' \subseteq Superseding({}, S) \cup {Call("load", "none")}
  BY <1>1, <1>2, SupersededNone
<1>4. \/ "regenerate" \in page.busy => "regenerate" \in page'.busy
      \/ \A d \in S : ~(d.op = "regenerate" /\ d.here)
  BY <1>1 DEF ConsoleInv, CallsInv, OneRegeneration
<1>5. onWay' \in SUBSET SentCall /\ CallsInv'
  <2>1. ConsoleTypes /\ CallsInv
    BY DEF ConsoleInv
  <2>2. /\ told'.link = told.link /\ told'.change = told.change
        /\ "regenerate" \in page'.busy => "regenerate" \in page.busy
    BY <1>1
  <2> HIDE DEF S
  <2> QED BY <1>1, <1>2, <1>3, <1>4, <2>1, <2>2, SendingKeepsCalls
<1>6. ConsoleTypes'
  BY <1>1, <1>5 DEF ConsoleInv, ConsoleTypes
<1>7. PageInv'
  BY <1>1 DEF ConsoleInv, PageInv
<1> QED BY <1>5, <1>6, <1>7 DEF ConsoleInv

\* What an answer to a change must leave true of the page: the details are
\* loaded again, and what the administrator has been told grows.
LEMMA EndAndLoadKeeps ==
  ASSUME ConsoleInv, NEW c \in onWay, NEW op \in Changing, Arrives(c, op),
         c.here, c.stage = "ANSWERED",
         NEW p \in PageRow, NEW then \in Buttons, EndsAndLoads(c, p, then),
         {p.user, p.secret, p.password} \subseteq {NoUser, route.watched},
         p.shown = IF op = "regenerate" THEN c.version ELSE page.shown,
         "regenerate" \in p.busy => "regenerate" \in page.busy,
         \/ "regenerate" \in page.busy => "regenerate" \in p.busy
         \/ c.op = "regenerate"
  PROVE  ConsoleInv'
<1> DEFINE S == onWay \ {c}
<1>1. /\ onWay' = Superseding({"load"}, S) \cup {Call("load", then)} /\ page' = Reloading(p)
      /\ told' = [change |-> IF c.version > told.change THEN c.version ELSE told.change,
                  link |-> IF c.op = "regenerate" THEN c.version ELSE told.link]
      /\ route' = route /\ remote' = remote
  BY DEF EndsAndLoads, Loading
<1>2. /\ c \in SentCall /\ c.op = op /\ c.version \in Nat /\ c.user = route.watched
      /\ AnswerOK(c) /\ RegenerationOK(c) /\ told \in [change: Nat, link: Nat]
  BY AnswerFields
<1>3. /\ page' \in PageRow /\ page'.user = p.user /\ page'.secret = p.secret
      /\ page'.password = p.password /\ page'.shown = p.shown /\ page'.loading
      /\ page'.busy = p.busy
  BY <1>1 DEF Reloading, PageRow
<1>4. S \in SUBSET onWay /\ "load" \in Operations
  BY DEF Operations
<1>5. told'.link = told.link \/ \A d \in S : ~(d.op = "view" /\ d.here /\ d.latest)
  <2>1. CASE op = "regenerate"
    BY <1>2, <2>1 DEF ConsoleInv, CallsInv, RegenerationOK
  <2>2. CASE op # "regenerate"
    BY <1>1, <1>2, <2>2
  <2> QED BY <2>1, <2>2
<1>6. \/ "regenerate" \in page.busy => "regenerate" \in page'.busy
      \/ \A d \in S : ~(d.op = "regenerate" /\ d.here)
  BY <1>3 DEF ConsoleInv, CallsInv, OneRegeneration
<1>7. onWay' \in SUBSET SentCall /\ CallsInv'
  <2>1. ConsoleTypes /\ CallsInv
    BY DEF ConsoleInv
  <2>2. onWay' \subseteq Superseding({"load"}, S) \cup {Call("load", then)}
    BY <1>1
  <2>3. "regenerate" \in page'.busy => "regenerate" \in page.busy
    BY <1>3
  <2> HIDE DEF S
  <2> QED BY <1>1, <1>4, <1>5, <1>6, <2>1, <2>2, <2>3, SendingKeepsCalls
<1>8. told' \in [change: Nat, link: Nat]
  BY <1>1, <1>2
<1>9. ConsoleTypes'
  BY <1>1, <1>3, <1>7, <1>8 DEF ConsoleInv, ConsoleTypes
<1>10. PageInv'
  <2>1. /\ c.version <= remote[route.watched].version
        /\ op = "regenerate" => c.version <= remote[route.watched].link
    BY <1>2 DEF AnswerOK
  <2>2. /\ told'.change = IF c.version > told.change THEN c.version ELSE told.change
        /\ told'.link = IF op = "regenerate" THEN c.version ELSE told.link
    BY <1>1, <1>2
  <2>3. /\ told.link <= remote[route.watched].link
        /\ told.change <= remote[route.watched].version
        /\ page.shown = NoLink \/ told.link <= page.shown
    BY DEF ConsoleInv, PageInv
  <2>4. page'.shown = NoLink \/ told'.link <= page'.shown
    BY <1>2, <1>3, <2>2, <2>3
  <2>5. /\ told'.link <= remote'[route'.watched].link
        /\ told'.change <= remote'[route'.watched].version
    BY <1>1, <2>1, <2>2, <2>3
  <2>6. {page'.user, page'.secret, page'.password} \subseteq {NoUser, route'.watched}
    BY <1>1, <1>3
  <2> QED BY <1>3, <2>4, <2>5, <2>6 DEF PageInv
<1> QED BY <1>7, <1>9, <1>10 DEF ConsoleInv

LEMMA PageHolds ==
  ASSUME ConsoleInv
  PROVE  /\ {page.user, page.secret, page.password} \subseteq {NoUser, route.watched}
         /\ page.shown = NoLink \/ told.link <= page.shown
         /\ ~page.loading /\ ~page.failed =>
              page.user = route.watched /\ told.change <= page.version
BY DEF ConsoleInv, PageInv

LEMMA LoadReplyInv ==
  ASSUME ConsoleInv, NEW c \in onWay, LoadReply(c) PROVE ConsoleInv'
<1> DEFINE enabled == IF IsCurrentRoute(c) THEN [page EXCEPT !.busy = @ \ {c.then}] ELSE page
           p == IF ~(IsCurrentRoute(c) /\ c.latest) THEN enabled
                ELSE IF c.stage = "FAILED" THEN [enabled EXCEPT !.loading = FALSE, !.failed = TRUE]
                ELSE [enabled EXCEPT !.loading = FALSE, !.user = c.user,
                                     !.version = c.version, !.bound = c.bound]
<1>1. Arrives(c, "load") /\ Ends(c, p)
  BY DEF LoadReply
<1>2. /\ c \in SentCall /\ c.op = "load" /\ c.stage \in {"ANSWERED", "FAILED"}
      /\ c.here => c.user = route.watched
      /\ AnswerOK(c) /\ page \in PageRow /\ c.user \in Users /\ c.version \in Nat
  BY <1>1, AnswerFields
<1>3. c.bound \in BOOLEAN /\ c.then # "regenerate"
  BY <1>2 DEF SentCall, Buttons
<1>4. /\ enabled \in PageRow /\ enabled.user = page.user /\ enabled.secret = page.secret
      /\ enabled.password = page.password /\ enabled.shown = page.shown
      /\ enabled.loading = page.loading /\ enabled.failed = page.failed
      /\ enabled.version = page.version
      /\ "regenerate" \in enabled.busy <=> "regenerate" \in page.busy
  BY <1>2, <1>3 DEF PageRow
<1> HIDE DEF enabled
<1>5. CASE ~(IsCurrentRoute(c) /\ c.latest)
  BY <1>1, <1>4, <1>5, PageHolds, EndKeeps
<1>6. CASE IsCurrentRoute(c) /\ c.latest /\ c.stage = "FAILED"
  <2>1. /\ p \in PageRow /\ p.user = page.user /\ p.secret = page.secret
        /\ p.password = page.password /\ p.shown = page.shown /\ p.failed
        /\ "regenerate" \in p.busy <=> "regenerate" \in page.busy
    BY <1>4, <1>6 DEF PageRow
  <2> HIDE DEF p
  <2> QED BY <1>1, <2>1, PageHolds, EndKeeps
<1>7. CASE IsCurrentRoute(c) /\ c.latest /\ c.stage # "FAILED"
  <2>1. /\ p \in PageRow /\ p.user = c.user /\ p.secret = page.secret
        /\ p.password = page.password /\ p.shown = page.shown /\ p.version = c.version
        /\ "regenerate" \in p.busy <=> "regenerate" \in page.busy
    BY <1>2, <1>3, <1>4, <1>7 DEF PageRow, Owners
  <2>2. c.user = route.watched /\ told.change <= c.version
    BY <1>2, <1>7 DEF IsCurrentRoute, AnswerOK
  <2> HIDE DEF p
  <2> QED BY <1>1, <2>1, <2>2, PageHolds, EndKeeps
<1> QED BY <1>5, <1>6, <1>7

LEMMA GroupsReplyInv ==
  ASSUME ConsoleInv, NEW c \in onWay, GroupsReply(c) PROVE ConsoleInv'
<1>1. PICK p \in {page, [page EXCEPT !.grant = "READY"]} : Arrives(c, "groups") /\ Ends(c, p)
  BY DEF GroupsReply
<1>2. page \in PageRow
  BY PageFields
<1>3. /\ p \in PageRow /\ p.user = page.user /\ p.secret = page.secret
      /\ p.password = page.password /\ p.shown = page.shown /\ p.version = page.version
      /\ p.loading = page.loading /\ p.failed = page.failed /\ p.busy = page.busy
  BY <1>1, <1>2 DEF PageRow
<1> QED BY <1>1, <1>3, PageHolds, EndKeeps

LEMMA SubmitReplyInv ==
  ASSUME ConsoleInv, NEW c \in onWay, NEW op \in {"password", "email"}, SubmitReply(c, op)
  PROVE  ConsoleInv'
<1>1. /\ Arrives(c, op) /\ op \in Changing /\ op # "regenerate" /\ op \in Buttons
  BY DEF SubmitReply, Changing, Buttons
<1>2. /\ c.stage \in {"ANSWERED", "FAILED"}
      /\ c.here => c.user = route.watched
      /\ page \in PageRow /\ c.user \in Users
  BY <1>1, AnswerFields
<1>3. CASE ~IsCurrentRoute(c)
  BY <1>2, <1>3, PageHolds, EndKeeps DEF SubmitReply
<1>4. CASE IsCurrentRoute(c) /\ c.stage = "FAILED"
  <2> DEFINE p == [page EXCEPT !.busy = @ \ {op}]
  <2>1. Ends(c, p)
    BY <1>4 DEF SubmitReply
  <2>2. /\ p \in PageRow /\ p.user = page.user /\ p.secret = page.secret
        /\ p.password = page.password /\ p.shown = page.shown /\ p.version = page.version
        /\ p.loading = page.loading /\ p.failed = page.failed
        /\ "regenerate" \in p.busy <=> "regenerate" \in page.busy
    BY <1>1, <1>2 DEF PageRow
  <2> HIDE DEF p
  <2> QED BY <2>1, <2>2, PageHolds, EndKeeps
<1>5. CASE IsCurrentRoute(c) /\ c.stage # "FAILED"
  <2> DEFINE p == [page EXCEPT !.password = IF op = "password" THEN c.user ELSE @]
  <2>1. EndsAndLoads(c, p, op)
    BY <1>5 DEF SubmitReply
  <2>2. c.here /\ c.stage = "ANSWERED" /\ c.user = route.watched
    BY <1>2, <1>5 DEF IsCurrentRoute
  <2>3. /\ p \in PageRow /\ p.user = page.user /\ p.secret = page.secret
        /\ p.password \in {c.user, page.password} /\ p.shown = page.shown
        /\ p.busy = page.busy
    BY <1>2 DEF PageRow, Owners
  <2> HIDE DEF p
  <2>4. {p.user, p.secret, p.password} \subseteq {NoUser, route.watched}
    BY <2>2, <2>3, PageHolds
  <2>5. p.shown = IF op = "regenerate" THEN c.version ELSE page.shown
    BY <1>1, <2>3
  <2> QED BY <1>1, <2>1, <2>2, <2>3, <2>4, <2>5, EndAndLoadKeeps
<1> QED BY <1>3, <1>4, <1>5

LEMMA CreateReplyInv ==
  ASSUME ConsoleInv, NEW c \in onWay, CreateReply(c) PROVE ConsoleInv'
<1> DEFINE enabled == IF c.here THEN [page EXCEPT !.busy = @ \ {"create"}] ELSE page
<1>1. /\ Arrives(c, "create") /\ "create" \in Changing /\ "none" \in Buttons
  BY DEF CreateReply, Changing, Buttons
<1>2. /\ c.stage \in {"ANSWERED", "FAILED"}
      /\ c.here => c.user = route.watched
      /\ page \in PageRow /\ c.user \in Users
  BY <1>1, AnswerFields
<1>3. /\ enabled \in PageRow /\ enabled.user = page.user /\ enabled.secret = page.secret
      /\ enabled.password = page.password /\ enabled.shown = page.shown
      /\ enabled.loading = page.loading /\ enabled.failed = page.failed
      /\ enabled.version = page.version
      /\ "regenerate" \in enabled.busy <=> "regenerate" \in page.busy
  BY <1>2 DEF PageRow
<1>4. IF ~IsCurrentRoute(c) THEN Ends(c, enabled)
      ELSE IF c.stage = "FAILED" THEN Ends(c, [enabled EXCEPT !.secret = NoUser])
      ELSE EndsAndLoads(c, [enabled EXCEPT !.secret = c.user, !.grant = "CLOSED"], "none")
  BY DEF CreateReply
<1> HIDE DEF enabled
<1>5. CASE ~IsCurrentRoute(c)
  BY <1>3, <1>4, <1>5, PageHolds, EndKeeps
<1>6. CASE IsCurrentRoute(c) /\ c.stage = "FAILED"
  <2> DEFINE p == [enabled EXCEPT !.secret = NoUser]
  <2>1. /\ p \in PageRow /\ p.user = page.user /\ p.secret = NoUser
        /\ p.password = page.password /\ p.shown = page.shown /\ p.version = page.version
        /\ p.loading = page.loading /\ p.failed = page.failed
        /\ "regenerate" \in p.busy <=> "regenerate" \in page.busy
    BY <1>3 DEF PageRow, Owners
  <2>2. Ends(c, p)
    BY <1>4, <1>6
  <2> HIDE DEF p
  <2> QED BY <2>1, <2>2, PageHolds, EndKeeps
<1>7. CASE IsCurrentRoute(c) /\ c.stage # "FAILED"
  <2> DEFINE p == [enabled EXCEPT !.secret = c.user, !.grant = "CLOSED"]
  <2>1. /\ p \in PageRow /\ p.user = page.user /\ p.secret = c.user
        /\ p.password = page.password /\ p.shown = page.shown
        /\ "regenerate" \in p.busy <=> "regenerate" \in page.busy
    BY <1>2, <1>3 DEF PageRow, Owners
  <2>2. c.here /\ c.stage = "ANSWERED" /\ c.user = route.watched
    BY <1>2, <1>7 DEF IsCurrentRoute
  <2>4. EndsAndLoads(c, p, "none")
    BY <1>4, <1>7
  <2> HIDE DEF p
  <2>3. {p.user, p.secret, p.password} \subseteq {NoUser, route.watched}
    BY <2>1, <2>2, PageHolds
  <2> QED BY <1>1, <2>1, <2>2, <2>3, <2>4, EndAndLoadKeeps
<1> QED BY <1>5, <1>6, <1>7

LEMMA ViewReplyInv ==
  ASSUME ConsoleInv, NEW c \in onWay, ViewReply(c) PROVE ConsoleInv'
<1> DEFINE enabled == IF c.here THEN [page EXCEPT !.busy = @ \ {"view"}] ELSE page
           p == IF IsCurrentView(c) /\ c.stage = "ANSWERED"
                THEN [enabled EXCEPT !.shown = c.version] ELSE enabled
<1>1. Arrives(c, "view") /\ Ends(c, p)
  BY DEF ViewReply
<1>2. /\ c.op = "view" /\ AnswerOK(c) /\ page \in PageRow /\ c.version \in Nat
  BY <1>1, AnswerFields
<1>3. /\ enabled \in PageRow /\ enabled.user = page.user /\ enabled.secret = page.secret
      /\ enabled.password = page.password /\ enabled.shown = page.shown
      /\ enabled.loading = page.loading /\ enabled.failed = page.failed
      /\ enabled.version = page.version
      /\ "regenerate" \in enabled.busy <=> "regenerate" \in page.busy
  BY <1>2 DEF PageRow
<1> HIDE DEF enabled
<1>4. /\ p \in PageRow /\ p.user = page.user /\ p.secret = page.secret
      /\ p.password = page.password /\ p.loading = page.loading /\ p.failed = page.failed
      /\ p.version = page.version
      /\ "regenerate" \in p.busy <=> "regenerate" \in page.busy
      /\ p.shown = IF IsCurrentView(c) /\ c.stage = "ANSWERED" THEN c.version ELSE page.shown
  BY <1>2, <1>3 DEF PageRow
<1> HIDE DEF p
<1>5. p.shown = NoLink \/ told.link <= p.shown
  BY <1>2, <1>4, PageHolds DEF AnswerOK, IsCurrentView
<1> QED BY <1>1, <1>4, <1>5, PageHolds, EndKeeps

LEMMA RegenerateReplyInv ==
  ASSUME ConsoleInv, NEW c \in onWay, RegenerateReply(c) PROVE ConsoleInv'
<1> DEFINE enabled == IF c.here THEN [page EXCEPT !.busy = @ \ {"regenerate"}] ELSE page
           p == [enabled EXCEPT !.drawer = FALSE, !.shown = c.version]
<1>1. /\ Arrives(c, "regenerate") /\ "regenerate" \in Changing /\ "none" \in Buttons
      /\ IF c.here /\ c.stage = "ANSWERED" THEN EndsAndLoads(c, p, "none")
         ELSE Ends(c, enabled)
  BY DEF RegenerateReply, Changing, Buttons
<1>2. /\ c.op = "regenerate" /\ page \in PageRow /\ c.version \in Nat
  BY <1>1, AnswerFields
<1>3. /\ enabled \in PageRow /\ enabled.user = page.user /\ enabled.secret = page.secret
      /\ enabled.password = page.password /\ enabled.shown = page.shown
      /\ enabled.loading = page.loading /\ enabled.failed = page.failed
      /\ enabled.version = page.version
      /\ "regenerate" \in enabled.busy => "regenerate" \in page.busy
      /\ ~c.here => enabled = page
  BY <1>2 DEF PageRow
<1> HIDE DEF enabled
<1>4. CASE c.here /\ c.stage = "ANSWERED"
  <2>1. /\ p \in PageRow /\ p.user = page.user /\ p.secret = page.secret
        /\ p.password = page.password /\ p.shown = c.version
        /\ "regenerate" \in p.busy => "regenerate" \in page.busy
    BY <1>2, <1>3 DEF PageRow
  <2>2. EndsAndLoads(c, p, "none")
    BY <1>1, <1>4
  <2> HIDE DEF p
  <2> QED BY <1>1, <1>2, <1>4, <2>1, <2>2, PageHolds, EndAndLoadKeeps
<1>5. CASE ~(c.here /\ c.stage = "ANSWERED")
  <2>1. Ends(c, enabled)
    BY <1>1, <1>5
  <2> QED BY <1>2, <1>3, <2>1, PageHolds, EndKeeps
<1> QED BY <1>4, <1>5

-----------------------------------------------------------------------------
(* The theorems.                                                           *)

LEMMA ConsoleInitInv == ASSUME ConsoleInit PROVE ConsoleInv
<1>1. PICK u \in Users :
        /\ route = [user |-> u, watched |-> u]
        /\ onWay = {[Call("load", "none") EXCEPT !.user = u]}
  BY DEF ConsoleInit
<1>2. page = Blank /\ told = NothingTold
      /\ remote = [v \in Users |-> [version |-> 1, link |-> 1, bound |-> FALSE]]
  BY DEF ConsoleInit
<1> DEFINE c == [Call("load", "none") EXCEPT !.user = u]
<1>3. /\ c \in SentCall /\ c.op = "load" /\ c.user = u /\ c.stage = "SENT"
  BY DEF Call, SentCall, Operations, Buttons
<1>4. onWay = {c}
  BY <1>1
<1> HIDE DEF c
<1>5. page \in PageRow /\ told \in [change: Nat, link: Nat]
  BY <1>2 DEF Blank, PageRow, Owners, NothingTold, NoLink
<1>6. ConsoleTypes
  BY <1>1, <1>2, <1>3, <1>4, <1>5 DEF ConsoleTypes
<1>7. CallsInv
  BY <1>1, <1>3, <1>4
  DEF CallsInv, OfThisPage, AnswerOK, RegenerationOK, OneRegeneration
<1>8. PageInv
  BY <1>1, <1>2 DEF PageInv, Blank, NothingTold, NoLink
<1> QED BY <1>6, <1>7, <1>8 DEF ConsoleInv

LEMMA ConsoleNextInv == ASSUME ConsoleInv, [ConsoleNext]_consoleVars PROVE ConsoleInv'
<1>1. ASSUME NEW u \in Users, Navigate(u) \/ ElsewhereRegenerated(u) \/ ElsewhereRedeemed(u)
      PROVE  ConsoleInv'
  BY <1>1, NavigateInv, ElsewhereInv
<1>2. CASE \/ ResetForUser \/ Refresh \/ OpenGrant \/ CloseGrant \/ CreateGrant
           \/ \E op \in {"password", "email"} : Submit(op)
  BY <1>2, ResetInv, RefreshInv, SubmitInv, GrantFormInv
<1>3. CASE \/ ViewConnectionUrl \/ OpenRegeneration \/ CloseRegeneration
           \/ RegenerateConnectionUrl \/ ClearConnectionUrl \/ ClearSecret \/ ClearPassword
  BY <1>3, LinkClicksInv, ClearingInv
<1>4. ASSUME NEW c \in onWay, ServerReads(c) \/ ServerChanges(c) \/ ServerRefuses(c)
      PROVE  ConsoleInv'
  BY <1>4, ServerInv
<1>5. ASSUME NEW c \in onWay,
             \/ LoadReply(c) \/ GroupsReply(c) \/ CreateReply(c)
             \/ ViewReply(c) \/ RegenerateReply(c)
             \/ \E op \in {"password", "email"} : SubmitReply(c, op)
      PROVE  ConsoleInv'
  BY <1>5, LoadReplyInv, GroupsReplyInv, CreateReplyInv, ViewReplyInv, RegenerateReplyInv,
     SubmitReplyInv
<1>6. CASE UNCHANGED consoleVars
  BY <1>6
  DEF consoleVars, ConsoleInv, ConsoleTypes, CallsInv, PageInv, OfThisPage, AnswerOK,
      RegenerationOK, OneRegeneration, Watched
<1> QED BY <1>1, <1>2, <1>3, <1>4, <1>5, <1>6 DEF ConsoleNext

\* The page on its own.
ConsoleSpec == ConsoleInit /\ [][ConsoleNext]_consoleVars

LEMMA ConsoleAlways == ConsoleSpec => []ConsoleInv
BY ConsoleInitInv, ConsoleNextInv, PTL DEF ConsoleSpec

\* Whatever order the answers come in, however many calls are on the way and
\* users are visited: the link shown is never older than one that was made on
\* this page, and what is shown belongs to the user of the page
\* (device-grants.ts createRequestLifecycle, UserDetail.vue
\* isCurrentRoute).
THEOREM LateRepliesHidden == ConsoleSpec => []LateReplyNotShown
<1>1. ConsoleInv => LateReplyNotShown
  BY DEF ConsoleInv, PageInv, LateReplyNotShown, Watched, ConsoleTypes
<1> QED BY <1>1, ConsoleAlways, PTL

\* A page that has loaded includes every change that was answered on it
\* (UserDetail.vue load, whose generation leaves older answers aside).
THEOREM OwnChangesAppear == ConsoleSpec => []OwnChangesShown
<1>1. ConsoleInv => OwnChangesShown
  BY DEF ConsoleInv, PageInv, OwnChangesShown, Watched, ConsoleTypes
<1> QED BY <1>1, ConsoleAlways, PTL

\* The page's state, the calls and the server keep their types.
THEOREM ConsoleTypeCorrect == ConsoleSpec => []ConsoleTypeOK
<1>1. ConsoleInv => ConsoleTypeOK
  BY DEF ConsoleInv, ConsoleTypes, ConsoleTypeOK, SentCall, PageRow
<1> QED BY <1>1, ConsoleAlways, PTL

-----------------------------------------------------------------------------
(* Who left a project has no key for it.                                   *)

\* The types of the rows that decide who has a key.
KeyTypes ==
  /\ projects \in [Projects -> [department: BOOLEAN,
       status: {"ABSENT", "ACTIVE", "SUSPENDED", "ARCHIVED"}]]
  /\ projectMembers \in [Projects -> [Employees -> {NoRole, "VIEWER", "MEMBER", "OWNER"}]]
  /\ keys \in [Keys -> [exists: BOOLEAN, account: Employees, project: Projects,
                        disabled: BOOLEAN, revoked: BOOLEAN, deleted: BOOLEAN]]
  /\ issuing \subseteq Keys /\ enabling \subseteq Keys /\ archiving \subseteq Projects
  /\ leavers \subseteq Projects \X Employees

Pair(k) == <<keys[k].project, keys[k].account>>

\* A leaver is out of a project that exists and is no department's (those get
\* and lose their members with the unit), and no key is being issued for it.
KeyInv ==
  /\ KeyTypes
  /\ LeaverHasNoKey
  /\ \A k \in issuing : Pair(k) \notin leavers
  /\ \A p \in Projects, a \in Employees : <<p, a>> \in leavers =>
       /\ projects[p] # NoProject /\ ~projects[p].department
       /\ projectMembers[p][a] = NoRole

\* Only keys that are inserted can come alive; the rest of a step that leaves
\* the leavers, the members and the projects as they are preserves KeyInv.
LEMMA KeysOnly ==
  ASSUME KeyInv, KeyTypes',
         \A k \in Keys : Pair(k)' = Pair(k),
         \A k \in Keys : LiveKey(k)' => LiveKey(k) \/ k \in issuing,
         issuing' \subseteq issuing,
         leavers' = leavers,
         \A p \in Projects : projects[p] # NoProject =>
            projects'[p] # NoProject /\ projects'[p].department = projects[p].department,
         \A p \in Projects, a \in Employees : projectMembers[p][a] = NoRole =>
            projectMembers'[p][a] = NoRole \/ projects[p].department
              \/ <<p, a>> \notin leavers
  PROVE  KeyInv'
<1>1. LeaverHasNoKey'
  BY DEF KeyInv, LeaverHasNoKey, Pair
<1>2. \A k \in issuing' : Pair(k)' \notin leavers'
  BY DEF KeyInv, KeyTypes
<1>3. \A p \in Projects, a \in Employees : <<p, a>> \in leavers' =>
        /\ projects'[p] # NoProject /\ ~projects'[p].department
        /\ projectMembers'[p][a] = NoRole
  BY DEF KeyInv
<1> QED BY <1>1, <1>2, <1>3 DEF KeyInv

LEMMA Revoked ==
  ASSUME KeyTypes, NEW S, keys' = Revoke(S)
  PROVE  /\ keys' \in [Keys -> [exists: BOOLEAN, account: Employees, project: Projects,
                                disabled: BOOLEAN, revoked: BOOLEAN, deleted: BOOLEAN]]
         /\ \A k \in Keys : Pair(k)' = Pair(k)
         /\ \A k \in Keys : LiveKey(k)' => LiveKey(k) /\ k \notin S
  BY DEF KeyTypes, Revoke, Pair, LiveKey

LEMMA Without ==
  ASSUME KeyTypes, NEW S, NEW a \in Employees
  PROVE  /\ WithoutMember(S, a) \in
              [Projects -> [Employees -> {NoRole, "VIEWER", "MEMBER", "OWNER"}]]
         /\ \A p \in Projects, b \in Employees :
              WithoutMember(S, a)[p][b] = IF p \in S /\ b = a THEN NoRole
                                          ELSE projectMembers[p][b]
  BY DEF KeyTypes, WithoutMember

LEMMA KeyInitInv == ASSUME WorkspaceAssumption, WorkspaceInit PROVE KeyInv
<1>1. KeyTypes
  BY DEF WorkspaceInit, KeyTypes, NoUnit, NoProject, Outside
<1> QED BY <1>1 DEF WorkspaceInit, KeyInv, LeaverHasNoKey

\* Groups and units.
LEMMA UnitStep ==
  ASSUME KeyInv, NEW u \in Units,
         \/ CreateUnit(u) \/ ArchiveUnit(u)
         \/ \E enabled \in BOOLEAN : SetUnitEnabled(u, enabled)
         \/ \E a \in Employees :
              \/ AddUnitMember(u, a) \/ RemoveUnitMember(u, a)
              \/ MoveMember(u, a) \/ RemoveOrgMember(u, a) \/ SetHead(u, a)
              \/ \E leader \in BOOLEAN : SetLeader(u, a, leader)
  PROVE  KeyInv'
<1> USE DEF KeyInv
<1>1. CASE CreateUnit(u)
  <2>1. KeyTypes'
    <3>1. [status |-> "ACTIVE", department |-> TRUE] \in
            [department: BOOLEAN, status: {"ABSENT", "ACTIVE", "SUSPENDED", "ARCHIVED"}]
      OBVIOUS
    <3>2. projects' \in [Projects ->
            [department: BOOLEAN, status: {"ABSENT", "ACTIVE", "SUSPENDED", "ARCHIVED"}]]
      <4>1. CASE UNCHANGED projects
        BY <4>1 DEF KeyTypes
      <4>2. ASSUME NEW q \in Projects,
                   projects' = [projects EXCEPT ![q] =
                                  [status |-> "ACTIVE", department |-> TRUE]]
            PROVE  projects' \in [Projects -> [department: BOOLEAN,
                     status: {"ABSENT", "ACTIVE", "SUSPENDED", "ARCHIVED"}]]
        BY <3>1, <4>2 DEF KeyTypes
      <4> QED BY <1>1, <4>1, <4>2 DEF CreateUnit
    <3> QED BY <1>1, <3>2 DEF CreateUnit, KeyTypes
  <2>2. \A p \in Projects : projects[p] # NoProject => projects'[p] = projects[p]
    BY <1>1 DEF CreateUnit, KeyTypes
  <2> QED BY <1>1, <2>1, <2>2, KeysOnly DEF CreateUnit, Pair, LiveKey
<1>2. CASE ArchiveUnit(u)
  <2>1. PICK S : keys' = Revoke(S)
    BY <1>2 DEF ArchiveUnit
  <2>2. KeyTypes'
    BY <1>2, <2>1, Revoked DEF ArchiveUnit, KeyTypes
  <2> QED BY <1>2, <2>1, <2>2, Revoked, KeysOnly DEF ArchiveUnit
<1>3. ASSUME NEW enabled \in BOOLEAN, SetUnitEnabled(u, enabled)
      PROVE  KeyInv'
  <2>1. KeyTypes'
    BY <1>3 DEF SetUnitEnabled, KeyTypes
  <2> QED BY <1>3, <2>1, KeysOnly DEF SetUnitEnabled, Pair, LiveKey
<1>4. ASSUME NEW a \in Employees, AddUnitMember(u, a)
      PROVE  KeyInv'
  <2>1. KeyTypes'
    BY <1>4 DEF AddUnitMember, KeyTypes
  <2> QED BY <1>4, <2>1, KeysOnly DEF AddUnitMember, Pair, LiveKey
<1>5. ASSUME NEW a \in Employees, RemoveUnitMember(u, a)
      PROVE  KeyInv'
  <2>1. PICK S : keys' = Revoke(S)
    BY <1>5 DEF RemoveUnitMember
  <2>2. \/ projectMembers' = WithoutMember({p \in Projects : Owner[p] = u}, a)
        \/ projectMembers' = projectMembers
    BY <1>5 DEF RemoveUnitMember
  <2>3. KeyTypes'
    <3>1. projectMembers' \in
            [Projects -> [Employees -> {NoRole, "VIEWER", "MEMBER", "OWNER"}]]
      BY <2>2, Without DEF KeyTypes
    <3>2. keys' \in [Keys -> [exists: BOOLEAN, account: Employees, project: Projects,
                             disabled: BOOLEAN, revoked: BOOLEAN, deleted: BOOLEAN]]
      BY <2>1, Revoked
    <3> QED BY <1>5, <3>1, <3>2 DEF RemoveUnitMember, KeyTypes
  <2>4. \A p \in Projects, b \in Employees : projectMembers[p][b] = NoRole =>
          projectMembers'[p][b] = NoRole
    BY <2>2, Without
  <2> QED BY <1>5, <2>1, <2>3, <2>4, Revoked, KeysOnly DEF RemoveUnitMember
<1>6. ASSUME NEW a \in Employees, MoveMember(u, a)
      PROVE  KeyInv'
  <2>1. PICK S, T : /\ T \subseteq DepartmentProjects(u)
                    /\ projectMembers' = [p \in Projects |->
                         IF p \in T /\ WithoutMember(S, a)[p][a] = NoRole
                         THEN [WithoutMember(S, a)[p] EXCEPT ![a] = "MEMBER"]
                         ELSE WithoutMember(S, a)[p]]
    <3>1. {p \in DepartmentProjects(u) : projects[p].status = "ACTIVE"}
            \subseteq DepartmentProjects(u)
      OBVIOUS
    <3> QED BY <1>6, <3>1 DEF MoveMember
  <2>2. projectMembers' \in [Projects -> [Employees -> {NoRole, "VIEWER", "MEMBER", "OWNER"}]]
    BY <2>1, Without
  <2>3. \A p \in Projects, b \in Employees : projectMembers[p][b] = NoRole =>
          projectMembers'[p][b] = NoRole \/ projects[p].department
    BY <2>1, Without DEF DepartmentProjects
  <2>5. KeyTypes'
    BY <1>6, <2>2 DEF MoveMember, KeyTypes
  <2> QED BY <1>6, <2>3, <2>5, KeysOnly DEF MoveMember, Pair, LiveKey
<1>7. ASSUME NEW a \in Employees, RemoveOrgMember(u, a)
      PROVE  KeyInv'
  <2>1. PICK S, L : keys' = Revoke(S) /\ projectMembers' = WithoutMember(L, a)
    BY <1>7 DEF RemoveOrgMember
  <2>2. KeyTypes'
    <3>1. projectMembers' \in
            [Projects -> [Employees -> {NoRole, "VIEWER", "MEMBER", "OWNER"}]]
      BY <2>1, Without DEF KeyTypes
    <3>2. keys' \in [Keys -> [exists: BOOLEAN, account: Employees, project: Projects,
                             disabled: BOOLEAN, revoked: BOOLEAN, deleted: BOOLEAN]]
      BY <2>1, Revoked
    <3> QED BY <1>7, <3>1, <3>2 DEF RemoveOrgMember, KeyTypes
  <2>3. \A p \in Projects, b \in Employees : projectMembers[p][b] = NoRole =>
          projectMembers'[p][b] = NoRole
    BY <2>1, Without
  <2> QED BY <1>7, <2>1, <2>2, <2>3, Revoked, KeysOnly DEF RemoveOrgMember
<1>8. ASSUME NEW a \in Employees, SetHead(u, a)
      PROVE  KeyInv'
  <2>2. KeyTypes'
    BY <1>8 DEF SetHead, KeyTypes
  <2> QED BY <1>8, <2>2, KeysOnly DEF SetHead, Pair, LiveKey
<1>9. ASSUME NEW a \in Employees, NEW leader \in BOOLEAN, SetLeader(u, a, leader)
      PROVE  KeyInv'
  <2>1. KeyTypes'
    BY <1>9 DEF SetLeader, KeyTypes
  <2> QED BY <1>9, <2>1, KeysOnly DEF SetLeader, Pair, LiveKey
<1> QED BY <1>1, <1>2, <1>3, <1>4, <1>5, <1>6, <1>7, <1>8, <1>9

\* Projects: whoever is removed has every key revoked, and no key of a locked
\* project is being issued.
LEMMA ProjectStep ==
  ASSUME KeyInv, NEW p \in Projects,
         \/ CreateProject(p) \/ BeginArchive(p) \/ FinishArchive(p)
         \/ \E status \in {"ACTIVE", "SUSPENDED"} : SetProjectStatus(p, status)
         \/ \E a \in Employees :
              \/ RemoveProjectMember(p, a)
              \/ \E role \in {"VIEWER", "MEMBER", "OWNER"} :
                   AddProjectMember(p, a, role) \/ SetMemberRole(p, a, role)
  PROVE  KeyInv'
<1> USE DEF KeyInv
<1>1. CASE CreateProject(p)
  <2>1. KeyTypes'
    BY <1>1 DEF CreateProject, KeyTypes
  <2>2. \A q \in Projects : projects[q] # NoProject => projects'[q] = projects[q]
    BY <1>1 DEF CreateProject, KeyTypes
  <2> QED BY <1>1, <2>1, <2>2, KeysOnly DEF CreateProject, Pair, LiveKey
<1>2. CASE BeginArchive(p)
  <2>1. KeyTypes'
    BY <1>2 DEF BeginArchive, KeyTypes
  <2> QED BY <1>2, <2>1, KeysOnly DEF BeginArchive, Pair, LiveKey
<1>3. ASSUME NEW status \in {"ACTIVE", "SUSPENDED", "ARCHIVED"},
             projects' = [projects EXCEPT ![p].status = status],
             archiving' \subseteq archiving,
             UNCHANGED <<projectMembers, keys, issuing, enabling, leavers>>
      PROVE  KeyInv'
  <2>0. projects' \in [Projects -> [department: BOOLEAN,
                          status: {"ABSENT", "ACTIVE", "SUSPENDED", "ARCHIVED"}]]
    <3>1. [projects[p] EXCEPT !.status = status]
            \in [department: BOOLEAN, status: {"ABSENT", "ACTIVE", "SUSPENDED", "ARCHIVED"}]
      BY DEF KeyTypes
    <3> QED BY <1>3, <3>1 DEF KeyTypes
  <2>1. KeyTypes'
    BY <1>3, <2>0 DEF KeyTypes
  <2>2. \A q \in Projects : projects[q] # NoProject =>
          projects'[q] # NoProject /\ projects'[q].department = projects[q].department
    BY <1>3 DEF KeyTypes, NoProject
  <2> QED BY <1>3, <2>1, <2>2, KeysOnly DEF Pair, LiveKey
<1>4. CASE FinishArchive(p)
  BY <1>3, <1>4 DEF FinishArchive
<1>5. ASSUME NEW status \in {"ACTIVE", "SUSPENDED"}, SetProjectStatus(p, status)
      PROVE  KeyInv'
  BY <1>3, <1>5 DEF SetProjectStatus
<1>6. ASSUME NEW a \in Employees, RemoveProjectMember(p, a)
      PROVE  KeyInv'
  <2> DEFINE S == {k \in Keys : /\ keys[k].exists /\ ~keys[k].deleted
                                /\ keys[k].project = p /\ keys[k].account = a}
  <2>1. keys' = Revoke(S) /\ projectMembers' = WithoutMember({p}, a)
    BY <1>6 DEF RemoveProjectMember
  <2>2. /\ \A k \in issuing : keys[k].project # p
        /\ projectMembers[p][a] # NoRole /\ ~projects[p].department
        /\ leavers' = leavers \cup {<<p, a>>}
        /\ UNCHANGED <<projects, issuing, enabling, archiving>>
    BY <1>6 DEF RemoveProjectMember, Editable, ProjectFree
  <2>3. KeyTypes'
    BY <2>1, <2>2, Revoked, Without DEF KeyTypes
  <2>4. \A k \in Keys : LiveKey(k)' => LiveKey(k) /\ k \notin S
    BY <2>1, Revoked
  <2>5. \A k \in Keys : Pair(k)' = Pair(k)
    BY <2>1, Revoked
  <2>6. LeaverHasNoKey'
    <3> SUFFICES ASSUME NEW k \in Keys, LiveKey(k)' PROVE Pair(k) \notin leavers'
      BY <2>5 DEF LeaverHasNoKey, Pair
    <3>1. LiveKey(k) /\ k \notin S
      BY <2>4
    <3>2. Pair(k) # <<p, a>>
      BY <3>1 DEF Pair, LiveKey
    <3> QED BY <2>2, <3>1, <3>2 DEF LeaverHasNoKey, Pair
  <2>7. \A k \in issuing' : Pair(k)' \notin leavers'
    BY <2>2, <2>5 DEF Pair, KeyTypes
  <2>8. projects[p] # NoProject
    BY <1>6 DEF RemoveProjectMember, Editable, NoProject
  <2>9. \A q \in Projects, b \in Employees : <<q, b>> \in leavers' =>
          /\ projects'[q] # NoProject /\ ~projects'[q].department
          /\ projectMembers'[q][b] = NoRole
    BY <2>1, <2>2, <2>8, Without
  <2> QED BY <2>3, <2>6, <2>7, <2>9
<1>7. ASSUME NEW a \in Employees, NEW role \in {"VIEWER", "MEMBER", "OWNER"},
             AddProjectMember(p, a, role)
      PROVE  KeyInv'
  <2>1. KeyTypes'
    BY <1>7 DEF AddProjectMember, KeyTypes
  <2>2. \A q \in Projects, b \in Employees :
          projectMembers'[q][b] = IF q = p /\ b = a THEN role ELSE projectMembers[q][b]
    BY <1>7 DEF AddProjectMember, KeyTypes
  <2> QED BY <1>7, <2>1, <2>2 DEF AddProjectMember, LeaverHasNoKey, LiveKey, Pair
<1>8. ASSUME NEW a \in Employees, NEW role \in {"VIEWER", "MEMBER", "OWNER"},
             SetMemberRole(p, a, role)
      PROVE  KeyInv'
  <2>1. KeyTypes'
    BY <1>8 DEF SetMemberRole, KeyTypes
  <2>2. \A q \in Projects, b \in Employees :
          projectMembers[q][b] = NoRole => projectMembers'[q][b] = NoRole
    BY <1>8 DEF SetMemberRole, KeyTypes
  <2> QED BY <1>8, <2>1, <2>2, KeysOnly DEF SetMemberRole, Pair, LiveKey
<1> QED BY <1>1, <1>2, <1>4, <1>5, <1>6, <1>7, <1>8

\* Keys: one is issued to a member only.
LEMMA KeyStep ==
  ASSUME KeyInv, NEW k \in Keys,
         \/ BeginIssue(k) \/ Issue(k) \/ RevokeKey(k)
         \/ BeginEnable(k) \/ FinishEnable(k) \/ DisableKey(k)
  PROVE  KeyInv'
<1> USE DEF KeyInv
<1>1. CASE BeginIssue(k)
  <2>1. KeyTypes'
    BY <1>1 DEF BeginIssue, KeyTypes
  <2>2. Pair(k) \notin leavers
    <3>1. keys[k].project \in Projects /\ keys[k].account \in Employees
      BY DEF KeyTypes
    <3>2. projectMembers[keys[k].project][keys[k].account] # NoRole
      BY <1>1 DEF BeginIssue, Works
    <3> QED BY <3>1, <3>2 DEF Pair
  <2> QED BY <1>1, <2>1, <2>2 DEF BeginIssue, LeaverHasNoKey, LiveKey, Pair
<1>2. CASE Issue(k)
  <2>1. \A x \in Keys : keys'[x] = IF x = k THEN [keys[k] EXCEPT !.exists = TRUE] ELSE keys[x]
    BY <1>2 DEF Issue, KeyTypes
  <2>2. KeyTypes'
    <3>1. [keys[k] EXCEPT !.exists = TRUE] \in
            [exists: BOOLEAN, account: Employees, project: Projects,
             disabled: BOOLEAN, revoked: BOOLEAN, deleted: BOOLEAN]
      BY DEF KeyTypes
    <3>2. keys' \in [Keys -> [exists: BOOLEAN, account: Employees, project: Projects,
                              disabled: BOOLEAN, revoked: BOOLEAN, deleted: BOOLEAN]]
      BY <1>2, <3>1 DEF Issue, KeyTypes
    <3>3. /\ UNCHANGED <<projects, projectMembers, enabling, archiving, leavers>>
          /\ issuing' \subseteq issuing
      BY <1>2 DEF Issue
    <3> QED BY <3>2, <3>3 DEF KeyTypes
  <2>3. \A x \in Keys : Pair(x)' = Pair(x)
    <3>0. keys[k] \in [exists: BOOLEAN, account: Employees, project: Projects,
                       disabled: BOOLEAN, revoked: BOOLEAN, deleted: BOOLEAN]
      BY DEF KeyTypes
    <3>2. /\ [keys[k] EXCEPT !.exists = TRUE].project = keys[k].project
          /\ [keys[k] EXCEPT !.exists = TRUE].account = keys[k].account
      BY <3>0
    <3>1. \A x \in Keys : /\ keys'[x].project = keys[x].project
                           /\ keys'[x].account = keys[x].account
      BY <2>1, <3>2
    <3> QED BY <3>1 DEF Pair
  <2>4. \A x \in Keys : LiveKey(x)' => LiveKey(x) \/ x \in issuing
    BY <1>2, <2>1 DEF Issue, LiveKey
  <2> QED BY <1>2, <2>2, <2>3, <2>4, KeysOnly DEF Issue
<1>3. ASSUME NEW row \in [exists: BOOLEAN, account: Employees, project: Projects,
                          disabled: BOOLEAN, revoked: BOOLEAN, deleted: BOOLEAN],
             row.account = keys[k].account, row.project = keys[k].project,
             row.exists = keys[k].exists,
             keys[k].revoked => row.revoked, keys[k].deleted => row.deleted,
             keys' = [keys EXCEPT ![k] = row],
             enabling' \subseteq Keys,
             UNCHANGED <<projects, projectMembers, issuing, archiving, leavers>>
      PROVE  KeyInv'
  <2>1. KeyTypes'
    BY <1>3 DEF KeyTypes
  <2>2. \A x \in Keys : Pair(x)' = Pair(x) /\ (LiveKey(x)' => LiveKey(x))
    BY <1>3 DEF KeyTypes, Pair, LiveKey
  <2> QED BY <1>3, <2>1, <2>2, KeysOnly
<1>4. keys[k] \in [exists: BOOLEAN, account: Employees, project: Projects,
                   disabled: BOOLEAN, revoked: BOOLEAN, deleted: BOOLEAN]
  BY DEF KeyTypes
<1>5. CASE keys' = [keys EXCEPT ![k].revoked = TRUE] /\ RevokeKey(k)
  <2> DEFINE row == [keys[k] EXCEPT !.revoked = TRUE]
  <2>1. /\ row \in [exists: BOOLEAN, account: Employees, project: Projects,
                    disabled: BOOLEAN, revoked: BOOLEAN, deleted: BOOLEAN]
        /\ row.account = keys[k].account /\ row.project = keys[k].project
        /\ row.exists = keys[k].exists /\ row.revoked
        /\ keys[k].deleted => row.deleted
    BY <1>4
  <2>2. keys' = [keys EXCEPT ![k] = row]
    BY <1>5
  <2>3. /\ enabling' \subseteq Keys
        /\ UNCHANGED <<projects, projectMembers, issuing, archiving, leavers>>
    BY <1>5 DEF RevokeKey, KeyTypes
  <2> HIDE DEF row
  <2> QED BY <1>3, <2>1, <2>2, <2>3
<1>6. CASE keys' = [keys EXCEPT ![k].revoked = TRUE, ![k].deleted = TRUE] /\ RevokeKey(k)
  <2> DEFINE row == [keys[k] EXCEPT !.revoked = TRUE, !.deleted = TRUE]
  <2>1. /\ row \in [exists: BOOLEAN, account: Employees, project: Projects,
                    disabled: BOOLEAN, revoked: BOOLEAN, deleted: BOOLEAN]
        /\ row.account = keys[k].account /\ row.project = keys[k].project
        /\ row.exists = keys[k].exists /\ row.revoked /\ row.deleted
    BY <1>4
  <2>2. keys' = [keys EXCEPT ![k] = row]
    BY <1>6 DEF KeyTypes
  <2>3. /\ enabling' \subseteq Keys
        /\ UNCHANGED <<projects, projectMembers, issuing, archiving, leavers>>
    BY <1>6 DEF RevokeKey, KeyTypes
  <2> HIDE DEF row
  <2> QED BY <1>3, <2>1, <2>2, <2>3
<1>7. ASSUME NEW disabled \in BOOLEAN, keys' = [keys EXCEPT ![k].disabled = disabled],
             FinishEnable(k) \/ DisableKey(k)
      PROVE  KeyInv'
  <2> DEFINE row == [keys[k] EXCEPT !.disabled = disabled]
  <2>1. /\ row \in [exists: BOOLEAN, account: Employees, project: Projects,
                    disabled: BOOLEAN, revoked: BOOLEAN, deleted: BOOLEAN]
        /\ row.account = keys[k].account /\ row.project = keys[k].project
        /\ row.exists = keys[k].exists
        /\ keys[k].revoked => row.revoked
        /\ keys[k].deleted => row.deleted
    BY <1>4
  <2>2. keys' = [keys EXCEPT ![k] = row]
    BY <1>7
  <2>3. /\ enabling' \subseteq Keys
        /\ UNCHANGED <<projects, projectMembers, issuing, archiving, leavers>>
    BY <1>7 DEF FinishEnable, DisableKey, KeyTypes
  <2> HIDE DEF row
  <2> QED BY <1>3, <2>1, <2>2, <2>3
<1>8. CASE FinishEnable(k) \/ DisableKey(k)
  BY <1>7, <1>8 DEF FinishEnable, DisableKey
<1>9. CASE BeginEnable(k)
  <2>1. KeyTypes'
    BY <1>9 DEF BeginEnable, KeyTypes
  <2> QED BY <1>9, <2>1, KeysOnly DEF BeginEnable, Pair, LiveKey
<1> QED BY <1>1, <1>2, <1>5, <1>6, <1>8, <1>9 DEF RevokeKey

\* The budgets change nothing of the workspace except that they begin an
\* archiving.
LEMMA LedgerKeeps ==
  ASSUME LedgerNext
  PROVE  UNCHANGED workspaceVars \/ \E p \in Projects : BeginArchive(p)
<1>1. ASSUME NEW p \in Projects, NEW l \in Limits, NEW u \in BOOLEAN, Adjust(p, l, u)
      PROVE  UNCHANGED workspaceVars
  BY <1>1 DEF Adjust
<1>2. ASSUME NEW x \in Applications, NEW a, NEW l, NEW u,
             \/ RejectApplication(x) \/ CreateApplication(x, a)
             \/ AdjustFor(x, l, u) \/ SubmitAndApprove(x, l, u)
      PROVE  UNCHANGED workspaceVars
  BY <1>2 DEF RejectApplication, CreateApplication, AdjustFor, SubmitAndApprove
<1>3. ASSUME NEW r \in Requests, NEW m, NEW n,
             \/ Reserve(r, m) \/ Extend(r, m) \/ Settle(r, m) \/ Hold(r, m, n)
      PROVE  UNCHANGED workspaceVars
  BY <1>3 DEF Reserve, Extend, Settle, Hold, Moves
<1>4. ASSUME NEW r \in Requests,
             \/ Admit(r) \/ Release(r) \/ MarkDispatched(r) \/ MarkUncertain(r)
             \/ LeaseEnds(r) \/ RecoverDispatched(r) \/ RecoverUndispatched(r) \/ SyncQuota(r)
      PROVE  UNCHANGED workspaceVars
  BY <1>4 DEF Admit, Release, ReleaseEntry, MarkDispatched, MarkUncertain, Marks, LeaseEnds,
              RecoverDispatched, RecoverUndispatched, SyncQuota
<1>5. CASE NextMonth
  BY <1>5 DEF NextMonth
<1>6. ASSUME NEW p \in Projects, ArchiveProject(p)
      PROVE  BeginArchive(p)
  BY <1>6 DEF ArchiveProject
<1> QED BY <1>1, <1>2, <1>3, <1>4, <1>5, <1>6 DEF LedgerNext

LEMMA KeyNext == KeyInv /\ [ProjectNext]_projectVars => KeyInv'
<1> SUFFICES ASSUME KeyInv, [ProjectNext]_projectVars PROVE KeyInv'
  OBVIOUS
<1>1. CASE UNCHANGED workspaceVars
  BY <1>1 DEF workspaceVars, KeyInv, KeyTypes, LeaverHasNoKey, LiveKey, Pair
<1>2. CASE WorkspaceNext
  BY <1>2, UnitStep, ProjectStep, KeyStep DEF WorkspaceNext
<1>3. CASE LedgerNext
  BY <1>1, <1>3, LedgerKeeps, ProjectStep
<1> QED BY <1>1, <1>2, <1>3 DEF ProjectNext, projectVars

LEMMA KeyInvInvariant == ProjectSpec => []KeyInv
<1>1. ProjectInit => KeyInv
  BY KeyInitInv, WorkspaceAssumption DEF ProjectInit
<1> QED BY <1>1, KeyNext, PTL DEF ProjectSpec

\* Nobody who was removed from a project has a live key for it, even one that
\* was being issued or enabled when the removal came (employee-keys.service.ts
\* create and setEnabled, projects.service.ts removeMember).
THEOREM LeaversHaveNoKeys == ProjectSpec => []LeaverHasNoKey
<1>1. KeyInv => LeaverHasNoKey
  BY DEF KeyInv
<1> QED BY <1>1, KeyInvInvariant, PTL

-------------------------------------------------------------------------------
(* The money of the projects: a period's totals are the sums over its      *)
(* entries, and a project is archived with nothing open, whatever requests *)
(* were admitted before.  And what the pages show agrees with the gateway  *)
(* and with the ledger (module WorkspaceViews).                            *)

PeriodRow == [limit: Nat, unlimited: BOOLEAN, spent: Int, reserved: Int,
              alerted: {0, 80, 100}]

EntryRow == [status: {"NONE", "ADMITTED"} \cup Open \cup Closed, key: Keys,
             month: Months \cup {0}, reserved: Nat, settled: Nat,
             dispatched: BOOLEAN, extended: BOOLEAN, held: BOOLEAN, due: BOOLEAN,
             synced: BOOLEAN]

Held(e) == IF e.status \in Open THEN e.reserved ELSE 0

In(e, p, m) == keys[e.key].project = p /\ e.month = m

\* What the open entries of p hold in period m, and what its entries have cost,
\* by request.
Holds(p, m) == [r \in Requests |-> IF In(entries[r], p, m) THEN Held(entries[r]) ELSE 0]
Costs(p, m) == [r \in Requests |-> IF In(entries[r], p, m) THEN entries[r].settled ELSE 0]

\* A period's totals are the sums over its entries.
PeriodsBalance ==
  \A p \in Projects, m \in Months :
    /\ periods[p][m].reserved = Total(Holds(p, m), Requests)
    /\ periods[p][m].spent = Total(Costs(p, m), Requests)

\* An entry has a period from its admission on, and no cost before it is held
\* or closed; a held one is uncertain until it is settled, and what is not
\* reserved is not dispatched.
EntryOK(e) ==
  /\ e.status # "NONE" => e.month \in Months
  /\ ~e.held /\ e.status \notin Closed => e.settled = 0
  /\ e.status \in {"NONE", "ADMITTED", "RESERVED"} => ~e.held
  /\ e.status \in {"NONE", "ADMITTED"} => ~e.dispatched

\* A project being archived is locked, and has no open entry.
SettledOnArchive ==
  \A r \in Requests : entries[r].status \in Open =>
    /\ ProjectOf(r) \notin archiving
    /\ projects[ProjectOf(r)].status # "ARCHIVED"

MoneyInv ==
  /\ month \in Months
  /\ periods \in [Projects -> [Months -> PeriodRow]]
  /\ entries \in [Requests -> EntryRow]
  /\ applications \in [Applications ->
       [status: {"NONE", "REGISTERED", "LINKED", "REJECTED"}, project: Projects]]
  /\ \A r \in Requests : EntryOK(entries[r])
  /\ PeriodsBalance
  /\ SettledOnArchive

LEMMA HoldsType ==
  ASSUME MoneyInv, NEW p \in Projects, NEW m \in Months
  PROVE  Holds(p, m) \in [Requests -> Nat] /\ Costs(p, m) \in [Requests -> Nat]
BY DEF MoneyInv, Holds, Costs, Held, EntryRow

\* The alert changes no amount.
LEMMA AlertedKeeps ==
  ASSUME NEW row \in PeriodRow
  PROVE  /\ Alerted(row) \in PeriodRow
         /\ Alerted(row).reserved = row.reserved /\ Alerted(row).spent = row.spent
BY DEF PeriodRow, Alerted

LEMMA SumMoves ==
  ASSUME NEW f \in [Requests -> Nat], NEW g \in [Requests -> Nat], NEW r \in Requests,
         \A x \in Requests : x # r => g[x] = f[x]
  PROVE  /\ Total(f, Requests) \in Nat /\ Total(g, Requests) \in Nat
         /\ Total(g, Requests) = Total(f, Requests) - f[r] + g[r]
<1>1. IsFiniteSet(Requests)
  BY ProjectLedgerAssumption
<1> QED BY <1>1, TotalDiffers

-----------------------------------------------------------------------------
\* The row of r becomes e: a period is given on admission only, and an entry
\* is opened only in a project that is neither locked nor archived.
EntryBecomes(r, e) ==
  /\ e \in EntryRow /\ EntryOK(e) /\ e.key = entries[r].key
  /\ \/ e.month = entries[r].month
     \/ entries[r].status = "NONE" /\ e.status = "ADMITTED" /\ ~e.held
  /\ e.status \in Open /\ entries[r].status \notin Open =>
       /\ ProjectOf(r) \notin archiving
       /\ projects[ProjectOf(r)].status # "ARCHIVED"
  /\ entries' = [entries EXCEPT ![r] = e]
  /\ UNCHANGED <<month, applications, workspaceVars>>

\* The period of r moves by as much as its entry.
PeriodFollows(r, e) ==
  /\ periods' \in [Projects -> [Months -> PeriodRow]]
  /\ \A p \in Projects, m \in Months :
       /\ periods'[p][m].reserved = periods[p][m].reserved
            + (IF In(entries[r], p, m) THEN Held(e) - Held(entries[r]) ELSE 0)
       /\ periods'[p][m].spent = periods[p][m].spent
            + (IF In(entries[r], p, m) THEN e.settled - entries[r].settled ELSE 0)

\* Then the sums follow.
LEMMA EntryMoves ==
  ASSUME MoneyInv, KeyTypes, NEW r \in Requests, NEW e,
         EntryBecomes(r, e), PeriodFollows(r, e)
  PROVE  MoneyInv'
<1> DEFINE old == entries[r]
<1>0. /\ e.key = old.key
      /\ \/ e.month = old.month
         \/ old.status = "NONE" /\ e.status = "ADMITTED" /\ ~e.held
  BY Zenon DEF EntryBecomes
<1>1. old \in EntryRow /\ EntryOK(old) /\ e \in EntryRow /\ EntryOK(e)
  BY DEF MoneyInv, EntryBecomes
<1>2. entries' \in [Requests -> EntryRow]
  BY <1>1 DEF MoneyInv, EntryBecomes
<1>3. \A x \in Requests : entries'[x] = IF x = r THEN e ELSE entries[x]
  BY DEF MoneyInv, EntryBecomes
<1>4. UNCHANGED <<keys, projects, archiving, month, applications>>
  BY DEF workspaceVars, EntryBecomes
<1>5. \A x \in Requests : EntryOK(entries'[x])
  BY <1>1, <1>3 DEF MoneyInv
<1>6. SettledOnArchive'
  <2>1. \A x \in Requests : ProjectOf(x)' = ProjectOf(x)
    BY <1>3, <1>4 DEF ProjectOf, EntryBecomes
  <2> QED BY <1>3, <1>4, <2>1 DEF MoneyInv, SettledOnArchive, EntryBecomes
<1>7. PeriodsBalance'
  <2> SUFFICES ASSUME NEW p \in Projects, NEW m \in Months
               PROVE  /\ periods'[p][m].reserved = Total(Holds(p, m), Requests)'
                      /\ periods'[p][m].spent = Total(Costs(p, m), Requests)'
    BY DEF PeriodsBalance
  <2> DEFINE h == IF In(e, p, m) THEN Held(e) ELSE 0
             c == IF In(e, p, m) THEN e.settled ELSE 0
             h0 == IF In(old, p, m) THEN Held(old) ELSE 0
             c0 == IF In(old, p, m) THEN old.settled ELSE 0
  <2> DEFINE H == Holds(p, m)
             C == Costs(p, m)
             G == Holds(p, m)'
             D == Costs(p, m)'
  <2>4. h \in Nat /\ c \in Nat /\ h0 \in Nat /\ c0 \in Nat
    BY <1>1 DEF Held, EntryRow
  <2>1. /\ H \in [Requests -> Nat] /\ H[r] = h0
        /\ C \in [Requests -> Nat] /\ C[r] = c0
    BY HoldsType DEF Holds, Costs
  <2>2. /\ G \in [Requests -> Nat] /\ G[r] = h /\ \A x \in Requests : x # r => G[x] = H[x]
    <3>1. G = [x \in Requests |-> IF In(entries'[x], p, m) THEN Held(entries'[x]) ELSE 0]
      BY <1>4 DEF Holds, In, Held
    <3>2. \A x \in Requests : Held(entries'[x]) \in Nat
      BY <1>2 DEF Held, EntryRow
    <3>3. \A x \in Requests : H[x] = IF In(entries[x], p, m) THEN Held(entries[x]) ELSE 0
      BY DEF Holds
    <3> HIDE DEF G, H
    <3> QED BY <1>3, <3>1, <3>2, <3>3
  <2>3. /\ D \in [Requests -> Nat] /\ D[r] = c /\ \A x \in Requests : x # r => D[x] = C[x]
    <3>1. D = [x \in Requests |-> IF In(entries'[x], p, m) THEN entries'[x].settled ELSE 0]
      BY <1>4 DEF Costs, In
    <3>2. \A x \in Requests : entries'[x].settled \in Nat
      BY <1>2 DEF EntryRow
    <3>3. \A x \in Requests : C[x] = IF In(entries[x], p, m) THEN entries[x].settled ELSE 0
      BY DEF Costs
    <3> HIDE DEF C, D
    <3> QED BY <1>3, <3>1, <3>2, <3>3
  <2>5. periods[p][m].reserved = Total(H, Requests) /\ periods[p][m].spent = Total(C, Requests)
    BY DEF MoneyInv, PeriodsBalance
  <2> HIDE DEF h, c, h0, c0
  <2>6. /\ Total(H, Requests) \in Nat /\ Total(C, Requests) \in Nat
        /\ Total(G, Requests) = Total(H, Requests) - h0 + h
        /\ Total(D, Requests) = Total(C, Requests) - c0 + c
    <3> HIDE DEF H, C, G, D
    <3>1. /\ Total(H, Requests) \in Nat
          /\ Total(G, Requests) = Total(H, Requests) - H[r] + G[r]
      BY <2>1, <2>2, SumMoves
    <3>2. /\ Total(C, Requests) \in Nat
          /\ Total(D, Requests) = Total(C, Requests) - C[r] + D[r]
      BY <2>1, <2>3, SumMoves
    <3> QED BY <2>1, <2>2, <2>3, <3>1, <3>2
  <2>7. /\ periods'[p][m].reserved = periods[p][m].reserved
             + (IF In(old, p, m) THEN Held(e) - Held(old) ELSE 0)
        /\ periods'[p][m].spent = periods[p][m].spent
             + (IF In(old, p, m) THEN e.settled - old.settled ELSE 0)
    BY DEF PeriodFollows
  <2>8. CASE e.month = old.month
    <3>1. In(e, p, m) = In(old, p, m)
      BY <1>0, <2>8 DEF In
    <3> QED BY <2>4, <2>5, <2>6, <2>7, <3>1 DEF h, c, h0, c0
  <2>9. CASE old.status = "NONE" /\ e.status = "ADMITTED" /\ ~e.held
    <3>1. Held(old) = 0 /\ Held(e) = 0 /\ old.settled = 0 /\ e.settled = 0
      <4>1. old.status \notin Open \cup Closed /\ e.status \notin Open \cup Closed
        BY <2>9 DEF Open, Closed
      <4>2. ~e.held
        BY <2>9
      <4> QED BY <1>1, <2>9, <4>1, <4>2 DEF Held, EntryOK
    <3> QED BY <2>4, <2>5, <2>6, <2>7, <3>1 DEF h, c, h0, c0
  <2> QED BY <1>0, <2>8, <2>9
<1> QED BY <1>2, <1>4, <1>5, <1>6, <1>7 DEF MoneyInv, PeriodFollows

\* A period row with other amounts.
LEMMA PeriodWritten ==
  ASSUME MoneyInv, NEW p \in Projects, NEW m \in Months, NEW row \in PeriodRow
  PROVE  LET after == [periods EXCEPT ![p][m] = row] IN
         /\ after \in [Projects -> [Months -> PeriodRow]]
         /\ \A q \in Projects, n \in Months :
              after[q][n] = IF q = p /\ n = m THEN row ELSE periods[q][n]
BY DEF MoneyInv

\* The alert that follows keeps them.
RowWith(p, m, spent, reserved) ==
  Alerted([periods[p][m] EXCEPT !.spent = spent, !.reserved = reserved])

LEMMA AmountsWritten ==
  ASSUME MoneyInv, NEW p \in Projects, NEW m \in Months, NEW spent \in Int,
         NEW reserved \in Int
  PROVE  /\ RowWith(p, m, spent, reserved) \in PeriodRow
         /\ RowWith(p, m, spent, reserved).spent = spent
         /\ RowWith(p, m, spent, reserved).reserved = reserved
         /\ WithAmounts(p, m, spent, reserved)
              = [periods EXCEPT ![p][m] = RowWith(p, m, spent, reserved)]
<1> DEFINE moved == [periods[p][m] EXCEPT !.spent = spent, !.reserved = reserved]
<1>1. periods[p][m] \in PeriodRow
  BY DEF MoneyInv
<1>2. moved \in PeriodRow /\ moved.spent = spent /\ moved.reserved = reserved
  BY <1>1 DEF PeriodRow
<1>3. RowWith(p, m, spent, reserved) = Alerted(moved)
  BY DEF RowWith
<1>4. WithAmounts(p, m, spent, reserved)
        = [periods EXCEPT ![p][m] = RowWith(p, m, spent, reserved)]
  BY DEF WithAmounts, RowWith
<1> HIDE DEF moved
<1> QED BY <1>2, <1>3, <1>4, AlertedKeeps

\* An operation on one entry that moves its period by `spent` and `reserved`.
LEMMA EntryAndPeriod ==
  ASSUME MoneyInv, KeyTypes, NEW r \in Requests, NEW e, EntryBecomes(r, e),
         e.month = entries[r].month, e.month \in Months,
         NEW row \in PeriodRow,
         row.reserved = periods[ProjectOf(r)][e.month].reserved
                          + Held(e) - Held(entries[r]),
         row.spent = periods[ProjectOf(r)][e.month].spent
                       + e.settled - entries[r].settled,
         periods' = [periods EXCEPT ![ProjectOf(r)][e.month] = row]
  PROVE  MoneyInv'
<1>1. ProjectOf(r) \in Projects
  BY DEF ProjectOf, KeyTypes, MoneyInv, EntryRow
<1>2. /\ periods' \in [Projects -> [Months -> PeriodRow]]
      /\ \A q \in Projects, n \in Months :
           periods'[q][n] = IF q = ProjectOf(r) /\ n = e.month THEN row ELSE periods[q][n]
  BY <1>1, PeriodWritten
<1>3. \A q \in Projects, n \in Months :
        In(entries[r], q, n) <=> (q = ProjectOf(r) /\ n = e.month)
  BY DEF In, ProjectOf
<1>4. /\ entries[r] \in EntryRow /\ e \in EntryRow
      /\ \A q \in Projects, n \in Months : periods[q][n] \in PeriodRow
  BY DEF MoneyInv, EntryBecomes
<1>5. /\ Held(e) \in Nat /\ Held(entries[r]) \in Nat /\ e.settled \in Nat
      /\ entries[r].settled \in Nat
      /\ \A q \in Projects, n \in Months :
           periods[q][n].reserved \in Int /\ periods[q][n].spent \in Int
  BY <1>4 DEF Held, EntryRow, PeriodRow
<1>6. ASSUME NEW q \in Projects, NEW n \in Months
      PROVE
        /\ periods'[q][n].reserved = periods[q][n].reserved
             + (IF In(entries[r], q, n) THEN Held(e) - Held(entries[r]) ELSE 0)
        /\ periods'[q][n].spent = periods[q][n].spent
             + (IF In(entries[r], q, n) THEN e.settled - entries[r].settled ELSE 0)
  BY <1>1, <1>2, <1>3, <1>5
<1>7. PeriodFollows(r, e)
  BY <1>2, <1>6 DEF PeriodFollows
<1> QED BY <1>7, EntryMoves

\* An operation that moves no money: the entry stays open, or it was not.
LEMMA EntryOnly ==
  ASSUME MoneyInv, KeyTypes, NEW r \in Requests, NEW e, EntryBecomes(r, e),
         e.status \in Open <=> entries[r].status \in Open,
         e.reserved = entries[r].reserved, e.settled = entries[r].settled,
         periods' = periods
  PROVE  MoneyInv'
<1>1. Held(e) = Held(entries[r]) /\ Held(e) \in Nat /\ e.settled \in Nat
  BY DEF Held, EntryRow, EntryBecomes
<1>2. \A q \in Projects, n \in Months :
        periods[q][n].reserved \in Int /\ periods[q][n].spent \in Int
  BY DEF MoneyInv, PeriodRow
<1>3. PeriodFollows(r, e)
  BY <1>1, <1>2 DEF PeriodFollows, MoneyInv
<1> QED BY <1>3, EntryMoves

-----------------------------------------------------------------------------
\* What a type of the rows gives the operations.
LEMMA MoneyRows ==
  ASSUME MoneyInv, KeyTypes, NEW r \in Requests, entries[r].status # "NONE"
  PROVE  /\ entries[r] \in EntryRow /\ EntryOK(entries[r])
         /\ ProjectOf(r) \in Projects /\ entries[r].month \in Months
         /\ periods[ProjectOf(r)][entries[r].month] \in PeriodRow
<1>1. entries[r] \in EntryRow /\ EntryOK(entries[r])
  BY DEF MoneyInv
<1>2. ProjectOf(r) \in Projects /\ entries[r].month \in Months
  BY <1>1 DEF ProjectOf, KeyTypes, EntryRow, EntryOK
<1> QED BY <1>1, <1>2 DEF MoneyInv

\* Moves, the body of extend, settle and hold, with the entry's new row.
LEMMA MovesStep ==
  ASSUME MoneyInv, KeyTypes, NEW r \in Requests, entries[r].status \in Open,
         NEW e \in EntryRow, EntryOK(e), e.key = entries[r].key, e.month = entries[r].month,
         entries' = [entries EXCEPT ![r] = e],
         Moves(r, e.settled, Held(e))
  PROVE  MoneyInv'
<1>1. entries[r].status # "NONE"
  BY DEF Open
<1>2. /\ entries[r] \in EntryRow /\ entries[r].month \in Months
      /\ ProjectOf(r) \in Projects
      /\ periods[ProjectOf(r)][entries[r].month] \in PeriodRow
  BY <1>1, MoneyRows
<1>3. EntryBecomes(r, e)
  BY DEF EntryBecomes, Moves
<1> DEFINE old == periods[ProjectOf(r)][entries[r].month]
           spent == old.spent + e.settled - entries[r].settled
           reserved == old.reserved + Held(e) - entries[r].reserved
<1>4. /\ entries[r].settled \in Nat /\ e.settled \in Nat /\ entries[r].reserved \in Nat
      /\ Held(e) \in Nat /\ old.reserved \in Int /\ old.spent \in Int
  BY <1>2 DEF EntryRow, PeriodRow, Held
<1>5. spent \in Int /\ reserved \in Int
  BY <1>4
<1>6. periods' = WithAmounts(ProjectOf(r), entries[r].month, spent, reserved)
  BY DEF Moves
<1>7. Held(entries[r]) = entries[r].reserved
  BY DEF Held
<1>8. reserved = old.reserved + Held(e) - Held(entries[r])
  BY <1>7
<1> HIDE DEF spent, reserved
<1> DEFINE row == RowWith(ProjectOf(r), entries[r].month, spent, reserved)
<1>9. /\ row \in PeriodRow /\ row.spent = spent /\ row.reserved = reserved
      /\ periods' = [periods EXCEPT ![ProjectOf(r)][entries[r].month] = row]
  BY <1>2, <1>5, <1>6, AmountsWritten
<1> HIDE DEF row
<1> QED BY <1>2, <1>3, <1>8, <1>9, EntryAndPeriod DEF spent

LEMMA MoneyReserve ==
  ASSUME MoneyInv, KeyTypes, NEW r \in Requests, NEW amount \in Nat, Reserve(r, amount)
  PROVE  MoneyInv'
<1> DEFINE p == ProjectOf(r)
           m == entries[r].month
           e == [entries[r] EXCEPT !.status = "RESERVED", !.reserved = amount]
           old == periods[p][m]
<1>1. entries[r].status = "ADMITTED"
  BY DEF Reserve
<1>2. /\ entries[r] \in EntryRow /\ EntryOK(entries[r]) /\ m \in Months
      /\ p \in Projects /\ old \in PeriodRow
  BY <1>1, MoneyRows
<1>3. /\ e \in EntryRow /\ EntryOK(e) /\ e.key = entries[r].key /\ e.month = m
      /\ e.status = "RESERVED" /\ e.reserved = amount /\ e.settled = entries[r].settled
  BY <1>1, <1>2 DEF EntryRow, EntryOK, Open, Closed
<1>4. /\ p \notin archiving /\ projects[p].status # "ARCHIVED"
      /\ UNCHANGED <<month, applications, workspaceVars>>
      /\ entries' = [entries EXCEPT ![r] = e]
  BY DEF Reserve, Reservable, LockProject, ProjectFree
<1>5. periods' = WithAmounts(p, m, old.spent, old.reserved + amount)
  BY DEF Reserve
<1> HIDE DEF e
<1>6. EntryBecomes(r, e)
  BY <1>3, <1>4 DEF EntryBecomes
<1>7. Held(e) = amount /\ Held(entries[r]) = 0
  BY <1>1, <1>3 DEF Held, Open
<1>8. old.reserved \in Int /\ old.spent \in Int /\ e.settled \in Nat
  BY <1>2, <1>3 DEF PeriodRow, EntryRow
<1> DEFINE row == RowWith(p, m, old.spent, old.reserved + amount)
<1>9. /\ row \in PeriodRow /\ row.spent = old.spent /\ row.reserved = old.reserved + amount
      /\ periods' = [periods EXCEPT ![p][m] = row]
  <2>1. old.spent \in Int /\ old.reserved + amount \in Int
    BY <1>1, <1>8
  <2> DEFINE spent == old.spent
             reserved == old.reserved + amount
  <2> HIDE DEF old, row, spent, reserved
  <2>2. spent \in Int /\ reserved \in Int
    BY <2>1 DEF spent, reserved
  <2>3. /\ RowWith(p, m, spent, reserved) \in PeriodRow
        /\ RowWith(p, m, spent, reserved).spent = spent
        /\ RowWith(p, m, spent, reserved).reserved = reserved
        /\ WithAmounts(p, m, spent, reserved)
             = [periods EXCEPT ![p][m] = RowWith(p, m, spent, reserved)]
    BY <1>2, <2>2, AmountsWritten
  <2>4. row = RowWith(p, m, spent, reserved)
    BY DEF row, spent, reserved
  <2>5. periods' = WithAmounts(p, m, spent, reserved)
    BY <1>5 DEF spent, reserved
  <2> QED BY <2>3, <2>4, <2>5 DEF spent, reserved
<1> HIDE DEF row
<1>10. /\ row.reserved = old.reserved + Held(e) - Held(entries[r])
       /\ row.spent = old.spent + e.settled - entries[r].settled
  BY <1>3, <1>7, <1>8, <1>9
<1> QED BY <1>2, <1>3, <1>6, <1>9, <1>10, EntryAndPeriod

LEMMA MoneyExtend ==
  ASSUME MoneyInv, KeyTypes, NEW r \in Requests, NEW amount \in Nat, Extend(r, amount)
  PROVE  MoneyInv'
<1> DEFINE e == [entries[r] EXCEPT !.reserved = @ + amount, !.extended = TRUE]
<1>1. entries[r].status \in Open /\ entries[r].status # "NONE"
  BY DEF Extend, Open
<1>2. entries[r] \in EntryRow /\ EntryOK(entries[r])
  BY <1>1, MoneyRows
<1>3. /\ e \in EntryRow /\ EntryOK(e) /\ e.key = entries[r].key
      /\ e.month = entries[r].month /\ e.status = entries[r].status
      /\ e.reserved = entries[r].reserved + amount /\ e.settled = entries[r].settled
  <2>1. entries[r].reserved + amount \in Nat
    BY <1>2 DEF EntryRow
  <2> QED BY <1>2, <2>1 DEF EntryRow, EntryOK
<1>4. /\ entries' = [entries EXCEPT ![r] = e]
      /\ Moves(r, entries[r].settled, entries[r].reserved + amount)
  BY DEF Extend
<1> HIDE DEF e
<1>5. Held(e) = entries[r].reserved + amount
  BY <1>1, <1>3 DEF Held
<1> QED BY <1>1, <1>3, <1>4, <1>5, MovesStep

LEMMA MoneySettle ==
  ASSUME MoneyInv, KeyTypes, NEW r \in Requests, NEW actual \in Nat, Settle(r, actual)
  PROVE  MoneyInv'
<1> DEFINE e == [entries[r] EXCEPT !.status = "SETTLED", !.settled = actual,
                                   !.due = FALSE, !.synced = FALSE]
<1>1. entries[r].status \in Open /\ entries[r].status # "NONE"
  BY DEF Settle, Open
<1>2. entries[r] \in EntryRow /\ EntryOK(entries[r])
  BY <1>1, MoneyRows
<1>3. /\ e \in EntryRow /\ EntryOK(e) /\ e.key = entries[r].key
      /\ e.month = entries[r].month /\ e.status = "SETTLED" /\ e.settled = actual
  BY <1>1, <1>2 DEF EntryRow, EntryOK, Closed
<1>4. entries' = [entries EXCEPT ![r] = e] /\ Moves(r, actual, 0)
  BY DEF Settle
<1> HIDE DEF e
<1>5. Held(e) = 0
  BY <1>3 DEF Held, Open
<1> QED BY <1>1, <1>3, <1>4, <1>5, MovesStep

LEMMA MoneyHold ==
  ASSUME MoneyInv, KeyTypes, NEW r \in Requests, NEW actual \in Nat,
         NEW unresolved \in Nat, Hold(r, actual, unresolved)
  PROVE  MoneyInv'
<1> DEFINE e == [entries[r] EXCEPT !.status = "RECONCILIATION_REQUIRED",
                   !.settled = actual, !.reserved = unresolved, !.held = TRUE, !.due = FALSE]
<1>1. /\ entries[r].status \in Open /\ entries[r].status # "NONE"
      /\ entries[r].status \notin Closed /\ ~entries[r].held
  BY DEF Hold, Open, Closed
<1>2. entries[r] \in EntryRow /\ EntryOK(entries[r])
  BY <1>1, MoneyRows
<1>3. /\ e \in EntryRow /\ EntryOK(e) /\ e.key = entries[r].key
      /\ e.month = entries[r].month /\ e.status = "RECONCILIATION_REQUIRED"
      /\ e.settled = actual /\ e.reserved = unresolved
  BY <1>1, <1>2 DEF EntryRow, EntryOK, Open
<1>4. /\ entries' = [entries EXCEPT ![r] = e]
      /\ Moves(r, actual + entries[r].settled, unresolved)
  BY DEF Hold
<1> HIDE DEF e
<1>5. Held(e) = unresolved
  BY <1>3 DEF Held, Open
<1>6. entries[r].settled = 0
  BY <1>1, <1>2 DEF EntryOK
<1>7. actual + entries[r].settled = e.settled
  BY <1>3, <1>6
<1> QED BY <1>1, <1>3, <1>4, <1>5, <1>7, MovesStep

LEMMA MoneyRelease ==
  ASSUME MoneyInv, KeyTypes, NEW r \in Requests, entries[r].status = "RESERVED",
         ReleaseEntry(r)
  PROVE  MoneyInv'
<1> DEFINE p == ProjectOf(r)
           m == entries[r].month
           e == [entries[r] EXCEPT !.status = "RELEASED", !.due = FALSE, !.synced = FALSE]
           old == periods[p][m]
           moved == [old EXCEPT !.reserved = @ - entries[r].reserved]
<1>1. entries[r].status \in Open /\ entries[r].status # "NONE"
  BY DEF Open
<1>2. /\ entries[r] \in EntryRow /\ EntryOK(entries[r]) /\ m \in Months
      /\ p \in Projects /\ old \in PeriodRow
  BY <1>1, MoneyRows
<1>3. /\ e \in EntryRow /\ EntryOK(e) /\ e.key = entries[r].key /\ e.month = m
      /\ e.status = "RELEASED" /\ e.settled = entries[r].settled
  BY <1>2 DEF EntryRow, EntryOK, Closed
<1>4. /\ UNCHANGED <<month, applications, workspaceVars>>
      /\ entries' = [entries EXCEPT ![r] = e]
      /\ periods' = [periods EXCEPT ![p][m] = moved]
  BY DEF ReleaseEntry
<1>5. /\ moved \in PeriodRow /\ moved.reserved = old.reserved - entries[r].reserved
      /\ moved.spent = old.spent
  BY <1>2 DEF PeriodRow, EntryRow
<1> HIDE DEF moved, e
<1>6. EntryBecomes(r, e)
  BY <1>3, <1>4 DEF EntryBecomes, Open
<1>7. Held(e) = 0 /\ Held(entries[r]) = entries[r].reserved
  BY <1>1, <1>3 DEF Held, Open
<1>8. /\ old.reserved \in Int /\ old.spent \in Int /\ e.settled \in Nat
      /\ entries[r].reserved \in Nat
  BY <1>2, <1>3 DEF PeriodRow, EntryRow
<1>9. /\ moved.reserved = old.reserved + Held(e) - Held(entries[r])
      /\ moved.spent = old.spent + e.settled - entries[r].settled
  BY <1>3, <1>5, <1>7, <1>8
<1> QED BY <1>2, <1>3, <1>4, <1>5, <1>6, <1>9, EntryAndPeriod

\* The operations that mark an entry: admission, dispatch, uncertainty, the end
\* of the lease and its recovery, and the synchronisation of the quota.
LEMMA MoneyMarks ==
  ASSUME MoneyInv, KeyTypes, NEW r \in Requests,
         \/ Admit(r) \/ MarkDispatched(r) \/ MarkUncertain(r) \/ LeaseEnds(r)
         \/ RecoverDispatched(r) \/ SyncQuota(r)
  PROVE  MoneyInv'
<1>1. entries[r] \in EntryRow /\ EntryOK(entries[r])
  BY DEF MoneyInv
<1>2. ASSUME NEW e \in EntryRow, EntryOK(e), e.key = entries[r].key,
             \/ e.month = entries[r].month
             \/ entries[r].status = "NONE" /\ e.status = "ADMITTED" /\ ~e.held,
             e.status \in Open <=> entries[r].status \in Open,
             e.reserved = entries[r].reserved, e.settled = entries[r].settled,
             entries' = [entries EXCEPT ![r] = e],
             UNCHANGED <<month, periods, applications, workspaceVars>>
      PROVE  MoneyInv'
  <2>1. EntryBecomes(r, e)
    BY <1>2 DEF EntryBecomes
  <2> QED BY <1>2, <2>1, EntryOnly
<1>3. CASE Admit(r)
  <2> DEFINE e == [entries[r] EXCEPT !.status = "ADMITTED", !.month = month]
  <2>1. /\ e \in EntryRow /\ EntryOK(e) /\ e.key = entries[r].key
        /\ entries[r].status = "NONE" /\ e.status = "ADMITTED" /\ ~e.held
        /\ e.reserved = entries[r].reserved /\ e.settled = entries[r].settled
    BY <1>1, <1>3 DEF Admit, EntryRow, EntryOK, MoneyInv, Closed
  <2>2. /\ entries' = [entries EXCEPT ![r] = e]
        /\ UNCHANGED <<month, periods, applications, workspaceVars>>
    BY <1>3 DEF Admit
  <2> HIDE DEF e
  <2> QED BY <1>2, <2>1, <2>2 DEF Open
<1>4. CASE MarkDispatched(r)
  <2> DEFINE e == [entries[r] EXCEPT !.dispatched = TRUE, !.due = FALSE]
  <2>0. entries[r].status = "RESERVED"
    BY <1>4 DEF MarkDispatched
  <2>1. /\ e \in EntryRow /\ EntryOK(e) /\ e.key = entries[r].key
        /\ e.month = entries[r].month /\ e.status = entries[r].status
        /\ e.reserved = entries[r].reserved /\ e.settled = entries[r].settled
    BY <1>1, <2>0 DEF EntryRow, EntryOK
  <2>2. /\ entries' = [entries EXCEPT ![r] = e]
        /\ UNCHANGED <<month, periods, applications, workspaceVars>>
    BY <1>4 DEF MarkDispatched, Marks
  <2> HIDE DEF e
  <2> QED BY <1>2, <2>1, <2>2
<1>5. CASE MarkUncertain(r) \/ RecoverDispatched(r)
  <2> DEFINE e == [entries[r] EXCEPT !.status = "RECONCILIATION_REQUIRED", !.due = FALSE]
  <2>0. entries[r].status \in Open
    BY <1>5 DEF MarkUncertain, RecoverDispatched, Open
  <2>1. /\ e \in EntryRow /\ EntryOK(e) /\ e.key = entries[r].key
        /\ e.month = entries[r].month /\ e.status = "RECONCILIATION_REQUIRED"
        /\ e.reserved = entries[r].reserved /\ e.settled = entries[r].settled
    BY <1>1, <2>0 DEF EntryRow, EntryOK, Open, Closed
  <2>2. /\ entries' = [entries EXCEPT ![r] = e]
        /\ UNCHANGED <<month, periods, applications, workspaceVars>>
    BY <1>5 DEF MarkUncertain, RecoverDispatched, Marks
  <2> HIDE DEF e
  <2>3. e.status \in Open
    BY <2>1 DEF Open
  <2> QED BY <1>2, <2>0, <2>1, <2>2, <2>3
<1>6. CASE LeaseEnds(r)
  <2> DEFINE e == [entries[r] EXCEPT !.due = TRUE]
  <2>1. /\ e \in EntryRow /\ EntryOK(e) /\ e.key = entries[r].key
        /\ e.month = entries[r].month /\ e.status = entries[r].status
        /\ e.reserved = entries[r].reserved /\ e.settled = entries[r].settled
    BY <1>1 DEF EntryRow, EntryOK
  <2>2. /\ entries' = [entries EXCEPT ![r] = e]
        /\ UNCHANGED <<month, periods, applications, workspaceVars>>
    BY <1>6 DEF LeaseEnds
  <2> HIDE DEF e
  <2> QED BY <1>2, <2>1, <2>2
<1>7. CASE SyncQuota(r)
  <2> DEFINE e == [entries[r] EXCEPT !.synced = TRUE]
  <2>1. /\ e \in EntryRow /\ EntryOK(e) /\ e.key = entries[r].key
        /\ e.month = entries[r].month /\ e.status = entries[r].status
        /\ e.reserved = entries[r].reserved /\ e.settled = entries[r].settled
    BY <1>1 DEF EntryRow, EntryOK
  <2>2. /\ entries' = [entries EXCEPT ![r] = e]
        /\ UNCHANGED <<month, periods, applications, workspaceVars>>
    BY <1>7 DEF SyncQuota, Marks
  <2> HIDE DEF e
  <2> QED BY <1>2, <2>1, <2>2
<1> QED BY <1>3, <1>4, <1>5, <1>6, <1>7

-----------------------------------------------------------------------------
(* Steps that leave every entry as it is.                                  *)

LEMMA EntriesKept ==
  ASSUME MoneyInv, UNCHANGED entries,
         \A k \in Keys : keys'[k].project = keys[k].project,
         month' \in Months,
         periods' \in [Projects -> [Months -> PeriodRow]],
         \A p \in Projects, m \in Months :
           /\ periods'[p][m].reserved = periods[p][m].reserved
           /\ periods'[p][m].spent = periods[p][m].spent,
         applications' \in [Applications ->
           [status: {"NONE", "REGISTERED", "LINKED", "REJECTED"}, project: Projects]],
         SettledOnArchive'
  PROVE  MoneyInv'
<1>1. \A r \in Requests : entries[r].key \in Keys
  BY DEF MoneyInv, EntryRow
<1>2. ASSUME NEW p \in Projects, NEW m \in Months
      PROVE  Holds(p, m)' = Holds(p, m) /\ Costs(p, m)' = Costs(p, m)
  <2>1. \A r \in Requests : In(entries[r], p, m)' <=> In(entries[r], p, m)
    BY <1>1 DEF In
  <2> QED BY <2>1 DEF Holds, Costs, Held
<1>3. PeriodsBalance'
  <2> SUFFICES ASSUME NEW p \in Projects, NEW m \in Months
               PROVE  /\ periods'[p][m].reserved = Total(Holds(p, m), Requests)'
                      /\ periods'[p][m].spent = Total(Costs(p, m), Requests)'
    BY DEF PeriodsBalance
  <2>1. /\ Total(Holds(p, m), Requests)' = Total(Holds(p, m), Requests)
        /\ Total(Costs(p, m), Requests)' = Total(Costs(p, m), Requests)
    BY <1>2
  <2>2. /\ periods[p][m].reserved = Total(Holds(p, m), Requests)
        /\ periods[p][m].spent = Total(Costs(p, m), Requests)
    BY DEF MoneyInv, PeriodsBalance
  <2> QED BY <2>1, <2>2
<1> QED BY <1>3 DEF MoneyInv

\* Limits, applications and the passing of months.
LEMMA MoneyLimits ==
  ASSUME MoneyInv, KeyTypes,
         \/ \E p \in Projects, l \in Limits, u \in BOOLEAN : Adjust(p, l, u)
         \/ \E x \in Applications :
              \/ RejectApplication(x)
              \/ \E a \in Employees \cup {NoRole} : CreateApplication(x, a)
              \/ \E l \in Limits, u \in BOOLEAN : AdjustFor(x, l, u) \/ SubmitAndApprove(x, l, u)
         \/ NextMonth
  PROVE  MoneyInv'
<1>1. ASSUME NEW p \in Projects, NEW l \in Limits, NEW u \in BOOLEAN
      PROVE  LET after == WithLimit(p, l, u) IN
             /\ after \in [Projects -> [Months -> PeriodRow]]
             /\ \A q \in Projects, m \in Months :
                  /\ after[q][m].reserved = periods[q][m].reserved
                  /\ after[q][m].spent = periods[q][m].spent
  <2> DEFINE moved == [periods[p][month] EXCEPT !.limit = l, !.unlimited = u]
             row == Alerted(moved)
             after == [periods EXCEPT ![p][month] = row]
  <2>1. periods[p][month] \in PeriodRow /\ month \in Months /\ l \in Nat
    BY ProjectLedgerAssumption DEF MoneyInv
  <2>2. /\ moved \in PeriodRow /\ moved.reserved = periods[p][month].reserved
        /\ moved.spent = periods[p][month].spent
    BY <2>1 DEF PeriodRow
  <2>3. WithLimit(p, l, u) = after
    BY DEF WithLimit
  <2> HIDE DEF moved
  <2>4. /\ row \in PeriodRow
        /\ row.reserved = periods[p][month].reserved
        /\ row.spent = periods[p][month].spent
    BY <2>2, AlertedKeeps
  <2> HIDE DEF row
  <2>5. /\ after \in [Projects -> [Months -> PeriodRow]]
        /\ \A q \in Projects, n \in Months :
             after[q][n] = IF q = p /\ n = month THEN row ELSE periods[q][n]
    BY <2>1, <2>4, PeriodWritten
  <2> HIDE DEF after
  <2>6. /\ after \in [Projects -> [Months -> PeriodRow]]
        /\ \A q \in Projects, m \in Months :
             /\ after[q][m].reserved = periods[q][m].reserved
             /\ after[q][m].spent = periods[q][m].spent
    BY <2>4, <2>5
  <2> QED BY <2>3, <2>6
<1>2. ASSUME UNCHANGED <<entries, workspaceVars>>,
             month' \in Months,
             \/ periods' = periods
             \/ \E p \in Projects, l \in Limits, u \in BOOLEAN : periods' = WithLimit(p, l, u),
             \/ applications' = applications
             \/ \E x \in Applications, status \in {"REGISTERED", "LINKED", "REJECTED"} :
                  applications' = [applications EXCEPT ![x].status = status]
      PROVE  MoneyInv'
  <2>1. /\ periods' \in [Projects -> [Months -> PeriodRow]]
        /\ \A p \in Projects, m \in Months :
             /\ periods'[p][m].reserved = periods[p][m].reserved
             /\ periods'[p][m].spent = periods[p][m].spent
    <3>1. CASE periods' = periods
      BY <3>1 DEF MoneyInv
    <3>2. ASSUME NEW p \in Projects, NEW l \in Limits, NEW u \in BOOLEAN,
                 periods' = WithLimit(p, l, u)
          PROVE  /\ periods' \in [Projects -> [Months -> PeriodRow]]
                 /\ \A q \in Projects, m \in Months :
                      /\ periods'[q][m].reserved = periods[q][m].reserved
                      /\ periods'[q][m].spent = periods[q][m].spent
      BY <1>1, <3>2
    <3> QED BY <1>2, <3>1, <3>2
  <2>2. applications' \in [Applications ->
          [status: {"NONE", "REGISTERED", "LINKED", "REJECTED"}, project: Projects]]
    BY <1>2 DEF MoneyInv
  <2>3. UNCHANGED <<keys, projects, archiving>>
    BY <1>2 DEF workspaceVars
  <2>4. SettledOnArchive'
    BY <1>2, <2>3 DEF MoneyInv, SettledOnArchive, ProjectOf
  <2> QED BY <1>2, <2>1, <2>2, <2>3, <2>4, EntriesKept
<1>3. \A x \in Applications : applications[x].project \in Projects
  BY DEF MoneyInv
<1>4. month \in Months
  BY DEF MoneyInv
<1>5. ASSUME NEW p \in Projects, NEW l \in Limits, NEW u \in BOOLEAN, Adjust(p, l, u)
      PROVE  MoneyInv'
  BY <1>2, <1>4, <1>5 DEF Adjust
<1>6. ASSUME NEW x \in Applications, NEW l \in Limits, NEW u \in BOOLEAN,
             AdjustFor(x, l, u) \/ SubmitAndApprove(x, l, u)
      PROVE  MoneyInv'
  <2>1. /\ periods' = WithLimit(applications[x].project, l, u)
        /\ applications' = [applications EXCEPT ![x].status = "LINKED"]
        /\ UNCHANGED <<month, entries, workspaceVars>>
    BY <1>6 DEF AdjustFor, SubmitAndApprove
  <2> QED BY <1>2, <1>3, <1>4, <2>1
<1>7. ASSUME NEW x \in Applications, NEW a,
             RejectApplication(x) \/ CreateApplication(x, a)
      PROVE  MoneyInv'
  BY <1>2, <1>4, <1>7 DEF RejectApplication, CreateApplication
<1>8. CASE NextMonth
  BY <1>2, <1>8 DEF NextMonth
<1> QED BY <1>5, <1>6, <1>7, <1>8

\* Keys keep their projects; an archived project was locked before.
LEMMA WorkspaceKeeps ==
  ASSUME KeyTypes, WorkspaceNext
  PROVE  /\ \A k \in Keys : keys'[k].project = keys[k].project
         /\ archiving' \subseteq archiving
         /\ \A p \in Projects : projects'[p].status = "ARCHIVED" =>
              projects[p].status = "ARCHIVED" \/ p \in archiving
<1>1. ASSUME NEW S, keys' = Revoke(S)
      PROVE  \A k \in Keys : keys'[k].project = keys[k].project
  BY <1>1 DEF Revoke, KeyTypes
<1>2. ASSUME NEW u \in Units, NEW a \in Employees, NEW b \in BOOLEAN,
             \/ SetUnitEnabled(u, b) \/ AddUnitMember(u, a) \/ MoveMember(u, a)
             \/ SetHead(u, a) \/ SetLeader(u, a, b)
      PROVE  UNCHANGED <<keys, archiving, projects>>
  BY <1>2 DEF SetUnitEnabled, AddUnitMember, MoveMember, SetHead, SetLeader
<1>3. ASSUME NEW u \in Units, NEW a \in Employees,
             \/ ArchiveUnit(u) \/ RemoveUnitMember(u, a) \/ RemoveOrgMember(u, a)
      PROVE  UNCHANGED <<archiving, projects>> /\ \E S : keys' = Revoke(S)
  BY <1>3 DEF ArchiveUnit, RemoveUnitMember, RemoveOrgMember
<1>4. ASSUME NEW u \in Units, CreateUnit(u)
      PROVE  /\ UNCHANGED <<keys, archiving>>
             /\ \A p \in Projects : projects'[p].status = "ARCHIVED" =>
                  projects[p].status = "ARCHIVED"
  <2>1. CASE UNCHANGED projects
    BY <1>4, <2>1 DEF CreateUnit
  <2>2. ASSUME NEW q \in Projects,
               projects' = [projects EXCEPT ![q] = [status |-> "ACTIVE", department |-> TRUE]]
        PROVE  \A p \in Projects : projects'[p].status = "ARCHIVED" =>
                 projects[p].status = "ARCHIVED"
    BY <2>2 DEF KeyTypes
  <2> QED BY <1>4, <2>1, <2>2 DEF CreateUnit
<1>5. ASSUME NEW p \in Projects, NEW status \in {"ACTIVE", "SUSPENDED"},
             \/ CreateProject(p) \/ SetProjectStatus(p, status)
      PROVE  /\ UNCHANGED <<keys, archiving>>
             /\ \A q \in Projects : projects'[q].status = "ARCHIVED" =>
                  projects[q].status = "ARCHIVED"
  <2>1. CASE CreateProject(p)
    BY <1>5, <2>1 DEF CreateProject, KeyTypes
  <2>2. CASE SetProjectStatus(p, status)
    BY <1>5, <2>2 DEF SetProjectStatus, KeyTypes
  <2> QED BY <1>5, <2>1, <2>2
<1>6. ASSUME NEW p \in Projects, FinishArchive(p)
      PROVE  /\ UNCHANGED keys /\ archiving' \subseteq archiving
             /\ \A q \in Projects : projects'[q].status = "ARCHIVED" =>
                  projects[q].status = "ARCHIVED" \/ q \in archiving
  BY <1>6 DEF FinishArchive, KeyTypes
<1>7. ASSUME NEW p \in Projects, NEW a \in Employees, NEW role,
             \/ RemoveProjectMember(p, a) \/ AddProjectMember(p, a, role)
             \/ SetMemberRole(p, a, role)
      PROVE  UNCHANGED <<archiving, projects>> /\ (UNCHANGED keys \/ \E S : keys' = Revoke(S))
  BY <1>7 DEF RemoveProjectMember, AddProjectMember, SetMemberRole
<1>8. ASSUME NEW k \in Keys,
             \/ BeginIssue(k) \/ Issue(k) \/ RevokeKey(k)
             \/ BeginEnable(k) \/ FinishEnable(k) \/ DisableKey(k)
      PROVE  /\ UNCHANGED <<archiving, projects>>
             /\ \A x \in Keys : keys'[x].project = keys[x].project
  <2>1. CASE BeginIssue(k) \/ BeginEnable(k)
    BY <1>8, <2>1 DEF BeginIssue, BeginEnable
  <2>2. CASE Issue(k)
    BY <1>8, <2>2 DEF Issue, KeyTypes
  <2>3. CASE FinishEnable(k) \/ DisableKey(k)
    <3>1. ASSUME NEW disabled \in BOOLEAN, keys' = [keys EXCEPT ![k].disabled = disabled]
          PROVE  \A x \in Keys : keys'[x].project = keys[x].project
      BY <3>1 DEF KeyTypes
    <3> QED BY <2>3, <3>1 DEF FinishEnable, DisableKey
  <2>4. CASE RevokeKey(k)
    <3>1. CASE keys' = [keys EXCEPT ![k].revoked = TRUE]
      BY <2>4, <3>1 DEF RevokeKey, KeyTypes
    <3>2. CASE keys' = [keys EXCEPT ![k].revoked = TRUE, ![k].deleted = TRUE]
      BY <2>4, <3>2 DEF RevokeKey, KeyTypes
    <3> QED BY <2>4, <3>1, <3>2 DEF RevokeKey
  <2> QED BY <1>8, <2>1, <2>2, <2>3, <2>4
<1>9. ASSUME NEW u \in Units, SetUnitEnabled(u, TRUE) \/ SetUnitEnabled(u, FALSE)
      PROVE  UNCHANGED <<keys, archiving, projects>>
  BY <1>9 DEF SetUnitEnabled
<1>10. ASSUME NEW u \in Units, ArchiveUnit(u)
       PROVE  UNCHANGED <<archiving, projects>> /\ \E S : keys' = Revoke(S)
  BY <1>10 DEF ArchiveUnit
<1>11. \A u \in Units :
         \/ CreateUnit(u) \/ ArchiveUnit(u)
         \/ \E enabled \in BOOLEAN : SetUnitEnabled(u, enabled)
         \/ \E a \in Employees :
              \/ AddUnitMember(u, a) \/ RemoveUnitMember(u, a)
              \/ MoveMember(u, a) \/ RemoveOrgMember(u, a) \/ SetHead(u, a)
              \/ \E leader \in BOOLEAN : SetLeader(u, a, leader)
         => /\ UNCHANGED archiving
            /\ \/ UNCHANGED <<keys, projects>>
               \/ UNCHANGED projects /\ \E S : keys' = Revoke(S)
               \/ /\ UNCHANGED keys
                  /\ \A p \in Projects : projects'[p].status = "ARCHIVED" =>
                       projects[p].status = "ARCHIVED"
  BY <1>2, <1>3, <1>4, <1>9, <1>10
<1> QED BY <1>1, <1>5, <1>6, <1>7, <1>8, <1>11 DEF WorkspaceNext

-----------------------------------------------------------------------------
LEMMA MoneyNext == KeyInv /\ MoneyInv /\ [ProjectNext]_projectVars => MoneyInv'
<1> SUFFICES ASSUME KeyInv, MoneyInv, [ProjectNext]_projectVars PROVE MoneyInv'
  OBVIOUS
<1>0. KeyTypes
  BY DEF KeyInv
<1>1. ASSUME UNCHANGED projectLedgerVars,
             \A k \in Keys : keys'[k].project = keys[k].project,
             archiving' \subseteq archiving,
             \A p \in Projects : projects'[p].status = "ARCHIVED" =>
               projects[p].status = "ARCHIVED" \/ p \in archiving
      PROVE  MoneyInv'
  <2>1. \A r \in Requests : ProjectOf(r)' = ProjectOf(r) /\ ProjectOf(r) \in Projects
    BY <1>0, <1>1 DEF MoneyInv, EntryRow, ProjectOf, projectLedgerVars, KeyTypes
  <2>2. UNCHANGED <<month, periods, entries, applications>>
    BY <1>1 DEF projectLedgerVars
  <2>3. SettledOnArchive'
    BY <1>1, <2>1, <2>2 DEF MoneyInv, SettledOnArchive
  <2> QED BY <1>1, <2>2, <2>3, EntriesKept DEF MoneyInv
<1>2. CASE UNCHANGED projectVars
  BY <1>1, <1>2 DEF projectVars, workspaceVars
<1>3. CASE WorkspaceNext /\ UNCHANGED projectLedgerVars
  BY <1>0, <1>1, <1>3, WorkspaceKeeps
<1>4. ASSUME NEW p \in Projects, ArchiveProject(p)
      PROVE  MoneyInv'
  <2>1. /\ UNCHANGED <<month, periods, entries, applications, keys, projects>>
        /\ archiving' = archiving \cup {p}
        /\ projects[p].status # "ARCHIVED"
        /\ \A r \in Requests : entries[r].status \in Open => ProjectOf(r) # p
    BY <1>4 DEF ArchiveProject, BeginArchive, OpenEntries, projectLedgerVars
  <2>2. SettledOnArchive'
    BY <2>1 DEF MoneyInv, SettledOnArchive, ProjectOf
  <2> QED BY <2>1, <2>2, EntriesKept DEF MoneyInv
<1>5. ASSUME NEW r \in Requests, Release(r) \/ RecoverUndispatched(r)
      PROVE  MoneyInv'
  BY <1>0, <1>5, MoneyRelease DEF Release, Releasable, RecoverUndispatched
<1>6. \A m \in Amounts : m \in Nat
  BY ProjectLedgerAssumption
<1>7. CASE LedgerNext
  BY <1>0, <1>4, <1>5, <1>6, <1>7, MoneyLimits, MoneyMarks, MoneyReserve, MoneyExtend,
     MoneySettle, MoneyHold DEF LedgerNext
<1> QED BY <1>2, <1>3, <1>7 DEF ProjectNext

LEMMA MoneyInit == ProjectInit => MoneyInv
<1> SUFFICES ASSUME ProjectInit PROVE MoneyInv
  OBVIOUS
<1>1. \A k \in Keys : NoEntry(k) \in EntryRow /\ EntryOK(NoEntry(k))
  BY DEF NoEntry, EntryRow, EntryOK
<1>2. NoPeriod \in PeriodRow /\ NoPeriod.reserved = 0 /\ NoPeriod.spent = 0
  BY DEF NoPeriod, PeriodRow
<1>3. /\ entries \in [Requests -> EntryRow]
      /\ \A r \in Requests : \E k \in Keys : entries[r] = NoEntry(k)
  BY <1>1 DEF ProjectInit, ProjectLedgerInit
<1>4. \A r \in Requests : /\ EntryOK(entries[r]) /\ entries[r].status \notin Open
                          /\ entries[r].settled = 0
  BY <1>1, <1>3 DEF NoEntry, Open
<1>5. /\ periods \in [Projects -> [Months -> PeriodRow]]
      /\ \A p \in Projects, m \in Months : periods[p][m].reserved = 0 /\ periods[p][m].spent = 0
  BY <1>2 DEF ProjectInit, ProjectLedgerInit
<1>6. PeriodsBalance
  <2> SUFFICES ASSUME NEW p \in Projects, NEW m \in Months
               PROVE  Total(Holds(p, m), Requests) = 0 /\ Total(Costs(p, m), Requests) = 0
    BY <1>5 DEF PeriodsBalance
  <2>1. /\ Holds(p, m) \in [Requests -> Nat] /\ \A r \in Requests : Holds(p, m)[r] = 0
        /\ Costs(p, m) \in [Requests -> Nat] /\ \A r \in Requests : Costs(p, m)[r] = 0
    BY <1>4 DEF Holds, Costs, Held
  <2> QED BY <2>1, TotalZero
<1>7. SettledOnArchive
  BY <1>4 DEF SettledOnArchive
<1>8. /\ month \in Months
      /\ applications \in [Applications ->
           [status: {"NONE", "REGISTERED", "LINKED", "REJECTED"}, project: Projects]]
  BY DEF ProjectInit, ProjectLedgerInit
<1> QED BY <1>3, <1>4, <1>5, <1>6, <1>7, <1>8 DEF MoneyInv

LEMMA MoneyInvInvariant == ProjectSpec => [](KeyInv /\ MoneyInv)
<1>1. ProjectInit => KeyInv /\ MoneyInv
  BY MoneyInit, KeyInitInv, WorkspaceAssumption DEF ProjectInit
<1>2. KeyInv /\ MoneyInv /\ [ProjectNext]_projectVars => (KeyInv /\ MoneyInv)'
  BY KeyNext, MoneyNext
<1> QED BY <1>1, <1>2, PTL DEF ProjectSpec

\* A period's reserved and spent amounts are the sums of what its entries hold
\* and cost, in every interleaving of the requests, the worker and the
\* administrators (project-budget.service.ts: every posting of money).
THEOREM ProjectMoneyConserved == ProjectSpec => []PeriodsBalance
<1>1. MoneyInv => PeriodsBalance
  BY DEF MoneyInv
<1> QED BY <1>1, MoneyInvInvariant, PTL

\* An archived project has no open entry and nothing reserved in any period: a
\* request admitted before the count cannot reserve after it
\* (projects.service.ts setStatus, project-budget.service.ts lockProject).
THEOREM ArchivedProjectsSettled == ProjectSpec => []ArchivedProjectSettled
<1>1. KeyInv /\ MoneyInv => ArchivedProjectSettled
  <2> SUFFICES ASSUME KeyInv, MoneyInv, NEW p \in Projects, projects[p].status = "ARCHIVED"
               PROVE  /\ OpenEntries(p) = {}
                      /\ \A m \in Months : periods[p][m].reserved = 0
    BY DEF ArchivedProjectSettled
  <2>1. \A r \in Requests : entries[r].status \in Open => ProjectOf(r) # p
    BY DEF MoneyInv, SettledOnArchive
  <2>2. ASSUME NEW m \in Months
        PROVE  periods[p][m].reserved = 0
    <3>1. Holds(p, m) \in [Requests -> Nat]
      BY HoldsType
    <3>2. \A r \in Requests : Holds(p, m)[r] = 0
      BY <2>1 DEF Holds, Held, In, ProjectOf
    <3>3. Total(Holds(p, m), Requests) = 0
      BY <3>1, <3>2, TotalZero
    <3> QED BY <3>3 DEF MoneyInv, PeriodsBalance
  <2> QED BY <2>1, <2>2 DEF OpenEntries
<1> QED BY <1>1, MoneyInvInvariant, PTL

\* No amount of a period is ever negative, and every row keeps its type.
THEOREM ProjectLedgerTypes == ProjectSpec => []ProjectLedgerTypeOK
<1>1. MoneyInv => ProjectLedgerTypeOK
  <2> SUFFICES ASSUME MoneyInv PROVE ProjectLedgerTypeOK
    OBVIOUS
  <2>1. \A p \in Projects, m \in Months :
          periods[p][m].reserved \in Nat /\ periods[p][m].spent \in Nat
    <3> SUFFICES ASSUME NEW p \in Projects, NEW m \in Months
                 PROVE  periods[p][m].reserved \in Nat /\ periods[p][m].spent \in Nat
      OBVIOUS
    <3>1. Holds(p, m) \in [Requests -> Nat] /\ Costs(p, m) \in [Requests -> Nat]
      BY HoldsType
    <3>2. IsFiniteSet(Requests)
      BY ProjectLedgerAssumption
    <3>3. Total(Holds(p, m), Requests) \in Nat /\ Total(Costs(p, m), Requests) \in Nat
      BY <3>1, <3>2, TotalType
    <3> QED BY <3>3 DEF MoneyInv, PeriodsBalance
  <2>2. periods \in [Projects -> [Months ->
          [limit: Nat, unlimited: BOOLEAN, spent: Nat, reserved: Nat, alerted: {0, 80, 100}]]]
    BY <2>1 DEF MoneyInv, PeriodRow
  <2> QED BY <2>2 DEF MoneyInv, EntryRow, ProjectLedgerTypeOK
<1> QED BY <1>1, MoneyInvInvariant, PTL

-----------------------------------------------------------------------------
(* The types of units and their members, which no key depends on.          *)

UnitRow == [exists: BOOLEAN, enabled: BOOLEAN, archived: BOOLEAN]
UnitMemberRow == [inside: BOOLEAN, primary: BOOLEAN, leader: BOOLEAN]

UnitTypes ==
  /\ units \in [Units -> UnitRow]
  /\ unitMembers \in [Units -> [Employees -> UnitMemberRow]]

LEMMA MemberWith ==
  ASSUME NEW m \in [Employees -> UnitMemberRow], NEW a \in Employees,
         NEW x \in BOOLEAN, NEW y \in BOOLEAN
  PROVE  /\ [m EXCEPT ![a].inside = x] \in [Employees -> UnitMemberRow]
         /\ [m EXCEPT ![a].primary = x] \in [Employees -> UnitMemberRow]
         /\ [m EXCEPT ![a].leader = x] \in [Employees -> UnitMemberRow]
         /\ [m EXCEPT ![a].inside = x, ![a].primary = y] \in [Employees -> UnitMemberRow]
<1> DEFINE R == m[a]
<1>1. R \in UnitMemberRow
  OBVIOUS
<1>2. /\ [R EXCEPT !.inside = x] \in UnitMemberRow
      /\ [R EXCEPT !.primary = x] \in UnitMemberRow
      /\ [R EXCEPT !.leader = x] \in UnitMemberRow
      /\ [[R EXCEPT !.inside = x] EXCEPT !.primary = y] \in UnitMemberRow
  BY <1>1 DEF UnitMemberRow
<1>3. \A row \in UnitMemberRow : [m EXCEPT ![a] = row] \in [Employees -> UnitMemberRow]
  OBVIOUS
<1>4. [m EXCEPT ![a].inside = x, ![a].primary = y]
        = [m EXCEPT ![a] = [[R EXCEPT !.inside = x] EXCEPT !.primary = y]]
  OBVIOUS
<1> QED BY <1>2, <1>3, <1>4

LEMMA UnitTypesStep ==
  ASSUME UnitTypes, NEW u \in Units,
         \/ CreateUnit(u) \/ ArchiveUnit(u)
         \/ \E enabled \in BOOLEAN : SetUnitEnabled(u, enabled)
         \/ \E a \in Employees :
              \/ AddUnitMember(u, a) \/ RemoveUnitMember(u, a)
              \/ MoveMember(u, a) \/ RemoveOrgMember(u, a) \/ SetHead(u, a)
              \/ \E leader \in BOOLEAN : SetLeader(u, a, leader)
  PROVE  UnitTypes'
<1>1. ASSUME NEW row \in UnitRow, units' = [units EXCEPT ![u] = row],
             UNCHANGED unitMembers
      PROVE  UnitTypes'
  BY <1>1 DEF UnitTypes
<1>2. ASSUME UNCHANGED units,
             \A v \in Units, b \in Employees : unitMembers'[v][b] \in UnitMemberRow,
             unitMembers' = [v \in Units |-> [b \in Employees |-> unitMembers'[v][b]]]
      PROVE  UnitTypes'
  <2>1. unitMembers' \in [Units -> [Employees -> UnitMemberRow]]
    BY <1>2
  <2> QED BY <1>2, <2>1 DEF UnitTypes
<1>3. units[u] \in UnitRow
  BY DEF UnitTypes
<1>4. CASE CreateUnit(u)
  <2>1. [NoUnit EXCEPT !.exists = TRUE, !.enabled = TRUE] \in UnitRow
    BY DEF NoUnit, UnitRow
  <2> QED BY <1>1, <1>4, <2>1 DEF CreateUnit
<1>5. CASE ArchiveUnit(u)
  <2>1. [units[u] EXCEPT !.enabled = FALSE, !.archived = TRUE] \in UnitRow
    BY <1>3 DEF UnitRow
  <2>2. units' = [units EXCEPT ![u] = [units[u] EXCEPT !.enabled = FALSE, !.archived = TRUE]]
    BY <1>5 DEF ArchiveUnit, UnitTypes
  <2> QED BY <1>1, <1>5, <2>1, <2>2 DEF ArchiveUnit
<1>6. ASSUME NEW enabled \in BOOLEAN, SetUnitEnabled(u, enabled)
      PROVE  UnitTypes'
  <2>1. [units[u] EXCEPT !.enabled = enabled] \in UnitRow
    BY <1>3 DEF UnitRow
  <2> QED BY <1>1, <1>6, <2>1 DEF SetUnitEnabled
<1>7. ASSUME NEW a \in Employees,
             \/ AddUnitMember(u, a) \/ RemoveUnitMember(u, a) \/ MoveMember(u, a)
             \/ RemoveOrgMember(u, a) \/ SetHead(u, a)
             \/ \E leader \in BOOLEAN : SetLeader(u, a, leader)
      PROVE  UnitTypes'
  <2>1. UNCHANGED units
    BY <1>7 DEF AddUnitMember, RemoveUnitMember, MoveMember, RemoveOrgMember, SetHead,
                SetLeader
  <2>2. unitMembers' \in [Units -> [Employees -> UnitMemberRow]]
    <3> DEFINE Row == [Employees -> UnitMemberRow]
    <3>0. unitMembers \in [Units -> Row]
      BY DEF UnitTypes
    <3> HIDE DEF Row
    <3>7. \A v \in Units, x, y \in BOOLEAN :
            /\ [unitMembers[v] EXCEPT ![a].inside = x] \in Row
            /\ [unitMembers[v] EXCEPT ![a].primary = x] \in Row
            /\ [unitMembers[v] EXCEPT ![a].leader = x] \in Row
            /\ [unitMembers[v] EXCEPT ![a].inside = x, ![a].primary = y] \in Row
      BY <3>0, MemberWith DEF Row
    <3>8. \A row \in Row : [unitMembers EXCEPT ![u] = row] \in [Units -> Row]
      BY <3>0
    <3> SUFFICES unitMembers' \in [Units -> Row]
      BY DEF Row
    <3>1. CASE AddUnitMember(u, a)
      <4> DEFINE primary == Kind[u] # "LEGACY_PROJECT"
                 row(v) ==
                   IF v = u
                   THEN [unitMembers[v] EXCEPT ![a].inside = TRUE, ![a].primary = primary]
                   ELSE IF primary /\ unitMembers[v][a].inside
                   THEN [unitMembers[v] EXCEPT ![a].primary = FALSE] ELSE unitMembers[v]
      <4>1. unitMembers' = [v \in Units |-> row(v)]
        BY <3>1 DEF AddUnitMember
      <4>2. primary \in BOOLEAN
        OBVIOUS
      <4>3. \A v \in Units : row(v) \in Row
        <5> HIDE DEF primary
        <5> QED BY <3>0, <3>7, <4>2
      <4> HIDE DEF row
      <4> QED BY <4>1, <4>3
    <3>2. CASE RemoveUnitMember(u, a)
      <4>1. unitMembers' = [unitMembers EXCEPT ![u] =
                              [unitMembers[u] EXCEPT ![a].inside = FALSE]]
        BY <3>0, <3>2 DEF RemoveUnitMember
      <4> QED BY <3>7, <3>8, <4>1
    <3>3. CASE MoveMember(u, a)
      <4>1. PICK S : unitMembers' = [v \in Units |->
              IF v = u THEN [unitMembers[v] EXCEPT ![a].inside = TRUE, ![a].primary = TRUE]
              ELSE IF v \in S
              THEN [unitMembers[v] EXCEPT ![a].inside = FALSE, ![a].primary = FALSE]
              ELSE unitMembers[v]]
        BY <3>3 DEF MoveMember
      <4> DEFINE row(v) ==
            IF v = u THEN [unitMembers[v] EXCEPT ![a].inside = TRUE, ![a].primary = TRUE]
            ELSE IF v \in S
            THEN [unitMembers[v] EXCEPT ![a].inside = FALSE, ![a].primary = FALSE]
            ELSE unitMembers[v]
      <4>2. unitMembers' = [v \in Units |-> row(v)]
        BY <4>1
      <4>3. \A v \in Units : row(v) \in Row
        BY <3>0, <3>7
      <4> HIDE DEF row
      <4> QED BY <4>2, <4>3
    <3>4. CASE RemoveOrgMember(u, a)
      <4>1. unitMembers' = [unitMembers EXCEPT ![u] =
              [unitMembers[u] EXCEPT ![a].inside = FALSE, ![a].primary = FALSE]]
        BY <3>0, <3>4 DEF RemoveOrgMember
      <4> QED BY <3>7, <3>8, <4>1
    <3>5. CASE SetHead(u, a)
      <4> DEFINE row == [b \in Employees |->
                           IF unitMembers[u][b].inside
                           THEN [unitMembers[u][b] EXCEPT !.leader = (b = a)]
                           ELSE unitMembers[u][b]]
      <4>1. unitMembers' = [unitMembers EXCEPT ![u] = row]
        BY <3>5 DEF SetHead
      <4>2. \A b \in Employees : unitMembers[u][b] \in UnitMemberRow
        BY <3>0 DEF Row
      <4>3. \A b \in Employees :
              [unitMembers[u][b] EXCEPT !.leader = (b = a)] \in UnitMemberRow
        BY <4>2 DEF UnitMemberRow
      <4>4. row \in Row
        BY <4>2, <4>3 DEF Row
      <4> HIDE DEF row
      <4> QED BY <3>8, <4>1, <4>4
    <3>6. ASSUME NEW leader \in BOOLEAN, SetLeader(u, a, leader)
          PROVE  unitMembers' \in [Units -> Row]
      <4>1. unitMembers' = [unitMembers EXCEPT ![u] =
                              [unitMembers[u] EXCEPT ![a].leader = leader]]
        BY <3>0, <3>6 DEF SetLeader
      <4> QED BY <3>7, <3>8, <4>1
    <3> QED BY <1>7, <3>1, <3>2, <3>3, <3>4, <3>5, <3>6
  <2> QED BY <2>1, <2>2 DEF UnitTypes
<1> QED BY <1>4, <1>5, <1>6, <1>7

LEMMA UnitTypesKept ==
  ASSUME UnitTypes, [ProjectNext]_projectVars
  PROVE  UnitTypes'
<1>1. UNCHANGED <<units, unitMembers>> => UnitTypes'
  BY DEF UnitTypes
<1>2. CASE UNCHANGED projectVars
  BY <1>1, <1>2 DEF projectVars, workspaceVars
<1>3. CASE WorkspaceNext
  <2>1. ASSUME NEW p \in Projects,
               \/ CreateProject(p) \/ FinishArchive(p)
               \/ \E status \in {"ACTIVE", "SUSPENDED"} : SetProjectStatus(p, status)
               \/ \E a \in Employees :
                    \/ RemoveProjectMember(p, a)
                    \/ \E role \in {"VIEWER", "MEMBER", "OWNER"} :
                         AddProjectMember(p, a, role) \/ SetMemberRole(p, a, role)
        PROVE  UNCHANGED <<units, unitMembers>>
    BY <2>1 DEF CreateProject, FinishArchive, SetProjectStatus, RemoveProjectMember,
                AddProjectMember, SetMemberRole
  <2>2. ASSUME NEW k \in Keys,
               \/ BeginIssue(k) \/ Issue(k) \/ RevokeKey(k)
               \/ BeginEnable(k) \/ FinishEnable(k) \/ DisableKey(k)
        PROVE  UNCHANGED <<units, unitMembers>>
    BY <2>2 DEF BeginIssue, Issue, RevokeKey, BeginEnable, FinishEnable, DisableKey
  <2> QED BY <1>1, <1>3, <2>1, <2>2, UnitTypesStep DEF WorkspaceNext
<1>4. CASE LedgerNext
  BY <1>1, <1>4, LedgerKeeps DEF workspaceVars, BeginArchive
<1> QED BY <1>2, <1>3, <1>4 DEF ProjectNext

\* The type invariant of units, projects, members and keys, beside the ledger of
\* the projects: usage-groups.service.ts, org-units.service.ts,
\* projects.service.ts and employee-keys.service.ts.
THEOREM WorkspaceTypes == ProjectSpec => []WorkspaceTypeOK
<1>1. ProjectInit => UnitTypes
  BY DEF ProjectInit, WorkspaceInit, UnitTypes, UnitRow, UnitMemberRow, NoUnit, Outside
<1>2. UnitTypes /\ [ProjectNext]_projectVars => UnitTypes'
  BY UnitTypesKept
<1>3. KeyInv /\ UnitTypes => WorkspaceTypeOK
  BY DEF KeyInv, KeyTypes, UnitTypes, UnitRow, UnitMemberRow, WorkspaceTypeOK
<1> QED BY <1>1, <1>2, <1>3, MoneyInvInvariant, PTL DEF ProjectSpec

-----------------------------------------------------------------------------
(* What the pages show.                                                    *)

\* An alert reports its own row.
LEMMA AlertReports ==
  ASSUME NEW row \in PeriodRow
  PROVE  Alerted(row) \in PeriodRow /\ Reported(Alerted(row))
BY DEF PeriodRow, Alerted, Reported, InAlert, Used

\* A release needs no alert.
LEMMA ReleaseReports ==
  ASSUME NEW row \in PeriodRow, Reported(row), NEW amount \in Nat
  PROVE  LET after == [row EXCEPT !.reserved = row.reserved - amount] IN
         after \in PeriodRow /\ Reported(after)
BY DEF PeriodRow, Reported, InAlert, Used

LEMMA ReportedRow ==
  ASSUME MoneyInv, AlertsReported, NEW p \in Projects, NEW m \in Months,
         NEW row \in PeriodRow, Reported(row),
         periods' = [periods EXCEPT ![p][m] = row]
  PROVE  AlertsReported'
<1>1. \A q \in Projects, n \in Months :
        periods'[q][n] = IF q = p /\ n = m THEN row ELSE periods[q][n]
  BY PeriodWritten
<1>2. \A q \in Projects, n \in Months : Reported(periods'[q][n])
  BY <1>1 DEF AlertsReported
<1> QED BY <1>2 DEF AlertsReported, Reported, InAlert, Used

LEMMA ReportedAmounts ==
  ASSUME MoneyInv, AlertsReported, NEW p \in Projects, NEW m \in Months,
         NEW spent \in Int, NEW reserved \in Int,
         periods' = WithAmounts(p, m, spent, reserved)
  PROVE  AlertsReported'
<1> DEFINE moved == [periods[p][m] EXCEPT !.spent = spent, !.reserved = reserved]
<1>0. periods[p][m] \in PeriodRow
  BY DEF MoneyInv
<1>1. moved \in PeriodRow
  BY <1>0 DEF PeriodRow
<1>2. periods' = [periods EXCEPT ![p][m] = Alerted(moved)]
  BY DEF WithAmounts
<1> HIDE DEF moved
<1> QED BY <1>1, <1>2, AlertReports, ReportedRow

LEMMA ReportedLimit ==
  ASSUME MoneyInv, AlertsReported, NEW p \in Projects, NEW limit \in Limits,
         NEW unlimited \in BOOLEAN, periods' = WithLimit(p, limit, unlimited)
  PROVE  AlertsReported'
<1> DEFINE moved == [periods[p][month] EXCEPT !.limit = limit, !.unlimited = unlimited]
<1>0. periods[p][month] \in PeriodRow /\ month \in Months /\ limit \in Nat
  BY ProjectLedgerAssumption DEF MoneyInv
<1>1. moved \in PeriodRow /\ month \in Months
  BY <1>0 DEF PeriodRow
<1>2. periods' = [periods EXCEPT ![p][month] = Alerted(moved)]
  BY DEF WithLimit
<1> HIDE DEF moved
<1> QED BY <1>1, <1>2, AlertReports, ReportedRow

LEMMA ReportedMoves ==
  ASSUME MoneyInv, KeyTypes, AlertsReported, NEW r \in Requests,
         entries[r].status # "NONE", NEW spent \in Nat, NEW reserved \in Nat,
         Moves(r, spent, reserved)
  PROVE  AlertsReported'
<1> DEFINE row == periods[ProjectOf(r)][entries[r].month]
<1>1. /\ entries[r] \in EntryRow /\ row \in PeriodRow
      /\ ProjectOf(r) \in Projects /\ entries[r].month \in Months
  BY MoneyRows
<1>2. /\ row.spent + spent - entries[r].settled \in Int
      /\ row.reserved + reserved - entries[r].reserved \in Int
  BY <1>1 DEF EntryRow, PeriodRow
<1> QED BY <1>1, <1>2, ReportedAmounts DEF Moves

LEMMA ReportedRelease ==
  ASSUME MoneyInv, KeyTypes, AlertsReported, NEW r \in Requests,
         entries[r].status # "NONE", ReleaseEntry(r)
  PROVE  AlertsReported'
<1> DEFINE row == periods[ProjectOf(r)][entries[r].month]
           after == [row EXCEPT !.reserved = row.reserved - entries[r].reserved]
<1>1. /\ entries[r] \in EntryRow /\ row \in PeriodRow
      /\ ProjectOf(r) \in Projects /\ entries[r].month \in Months
  BY MoneyRows
<1>2. entries[r].reserved \in Nat /\ Reported(row)
  BY <1>1 DEF EntryRow, AlertsReported
<1>3. after \in PeriodRow /\ Reported(after)
  BY <1>1, <1>2, ReleaseReports
<1>4. periods' = [periods EXCEPT ![ProjectOf(r)][entries[r].month] = after]
  BY <1>1 DEF ReleaseEntry, MoneyInv
<1> HIDE DEF after
<1> QED BY <1>1, <1>3, <1>4, ReportedRow

LEMMA ReportedSame ==
  ASSUME AlertsReported, periods' = periods
  PROVE  AlertsReported'
BY DEF AlertsReported, Reported, InAlert, Used

LEMMA ReportedReserve ==
  ASSUME MoneyInv, KeyTypes, AlertsReported, NEW r \in Requests, NEW amount \in Nat,
         Reserve(r, amount)
  PROVE  AlertsReported'
<1> DEFINE row == periods[ProjectOf(r)][entries[r].month]
<1>1. entries[r].status # "NONE"
  BY DEF Reserve
<1>2. /\ row \in PeriodRow /\ ProjectOf(r) \in Projects /\ entries[r].month \in Months
  BY <1>1, MoneyRows
<1>3. row.spent \in Int /\ row.reserved + amount \in Int
  BY <1>2 DEF PeriodRow
<1> QED BY <1>2, <1>3, ReportedAmounts DEF Reserve

LEMMA ReportedNext ==
  ASSUME MoneyInv, KeyTypes, AlertsReported, [ProjectNext]_projectVars
  PROVE  AlertsReported'
<1>1. \A x \in Applications : applications[x].project \in Projects
  BY DEF MoneyInv
<1>2. CASE \E p \in Projects, l \in Limits, u \in BOOLEAN : Adjust(p, l, u)
  BY <1>2, ReportedLimit DEF Adjust
<1>3. CASE \E x \in Applications, l \in Limits, u \in BOOLEAN :
             AdjustFor(x, l, u) \/ SubmitAndApprove(x, l, u)
  BY <1>1, <1>3, ReportedLimit DEF AdjustFor, SubmitAndApprove
<1>4. ASSUME NEW r \in Requests, NEW amount \in Amounts,
             \/ Reserve(r, amount) \/ Extend(r, amount) \/ Settle(r, amount)
             \/ \E n \in Amounts : Hold(r, amount, n)
      PROVE  AlertsReported'
  <2>1. amount \in Nat /\ \A n \in Amounts : n \in Nat
    BY ProjectLedgerAssumption
  <2>2. CASE Reserve(r, amount)
    BY <2>1, <2>2, ReportedReserve
  <2>3. CASE ~Reserve(r, amount)
    <3>1. entries[r].status \in Open /\ entries[r].status # "NONE"
      BY <1>4, <2>3 DEF Extend, Settle, Hold, Open
    <3>2. entries[r].settled \in Nat /\ entries[r].reserved \in Nat
      BY <3>1, MoneyRows DEF EntryRow
    <3>3. \E spent, reserved \in Nat : Moves(r, spent, reserved)
      <4>1. CASE Extend(r, amount)
        <5>1. entries[r].reserved + amount \in Nat
          BY <2>1, <3>2
        <5> QED BY <3>2, <4>1, <5>1 DEF Extend
      <4>2. CASE Settle(r, amount)
        BY <2>1, <4>2 DEF Settle
      <4>3. CASE \E n \in Amounts : Hold(r, amount, n)
        <5>1. amount + entries[r].settled \in Nat
          BY <2>1, <3>2
        <5> QED BY <2>1, <4>3, <5>1 DEF Hold
      <4> QED BY <1>4, <2>3, <4>1, <4>2, <4>3
    <3> QED BY <3>1, <3>3, ReportedMoves
  <2> QED BY <2>2, <2>3
<1>5. CASE \E r \in Requests : Release(r) \/ RecoverUndispatched(r)
  <2>1. PICK r \in Requests : Release(r) \/ RecoverUndispatched(r)
    BY <1>5
  <2>2. entries[r].status # "NONE" /\ ReleaseEntry(r)
    BY <2>1 DEF Release, Releasable, RecoverUndispatched
  <2> QED BY <2>2, ReportedRelease
<1>6. CASE periods' = periods
  BY <1>6, ReportedSame
<1>7. CASE LedgerNext
  <2>1. CASE \E x \in Applications : \/ RejectApplication(x)
                                     \/ \E a \in Employees \cup {NoRole} : CreateApplication(x, a)
    BY <1>6, <2>1 DEF RejectApplication, CreateApplication
  <2>2. CASE \E r \in Requests : \/ Admit(r) \/ MarkDispatched(r) \/ MarkUncertain(r)
                                 \/ LeaseEnds(r) \/ RecoverDispatched(r) \/ SyncQuota(r)
    BY <1>6, <2>2 DEF Admit, MarkDispatched, MarkUncertain, Marks, LeaseEnds,
                      RecoverDispatched, SyncQuota
  <2>3. CASE NextMonth \/ \E p \in Projects : ArchiveProject(p)
    BY <1>6, <2>3 DEF NextMonth, ArchiveProject, projectLedgerVars
  <2> QED BY <1>2, <1>3, <1>4, <1>5, <1>7, <2>1, <2>2, <2>3 DEF LedgerNext
<1>8. CASE WorkspaceNext /\ UNCHANGED projectLedgerVars
  BY <1>6, <1>8 DEF projectLedgerVars
<1>9. CASE UNCHANGED projectVars
  BY <1>6, <1>9 DEF projectVars, projectLedgerVars
<1> QED BY <1>7, <1>8, <1>9 DEF ProjectNext

\* A project that the page of the organization counts as in alert has been
\* reported: no operation on its budget skips an alert that is due
\* (project-budget.service.ts alert; org-units.service.ts alertProjectCount).
THEOREM AlertsAreReported == ProjectSpec => []AlertsReported
<1>1. ProjectInit => AlertsReported
  BY DEF ProjectInit, ProjectLedgerInit, AlertsReported, Reported, InAlert, NoPeriod
<1>2. KeyInv /\ MoneyInv /\ AlertsReported /\ [ProjectNext]_projectVars => AlertsReported'
  BY ReportedNext DEF KeyInv
<1> QED BY <1>1, <1>2, MoneyInvInvariant, PTL DEF ProjectSpec

\* A key that the gateway takes is shown wherever its owner or its
\* administrators look for it (gateway-auth.ts; employee-keys.service.ts
\* listWhere, usage-groups.service.ts list, org-units.service.ts detail,
\* me-projects.service.ts list).
THEOREM AdmittedKeysAreShown == ProjectSpec => []AdmittedKeysShown
<1>1. KeyInv => AdmittedKeysShown
  <2> SUFFICES ASSUME KeyInv, NEW k \in Keys, GatewayAdmits(k)
               PROVE  LET p == keys[k].project
                          a == keys[k].account
                      IN /\ k \in KeyList(a, "active") /\ k \in GroupCard(Owner[p]).keys
                         /\ k \in OrgProjectCard(p).keys
                         /\ Kind[Owner[p]] # "LEGACY_PROJECT" => p \in MyProjects(a)
    BY DEF AdmittedKeysShown
  <2>1. keys[k].project \in Projects /\ keys[k].account \in Employees
    BY DEF KeyInv, KeyTypes
  <2>2. k \in ActiveKeys
    BY DEF GatewayAdmits, LiveKey, ActiveKeys, KeysWith
  <2>3. k \in KeyList(keys[k].account, "active")
    BY <2>2 DEF KeyList, ActiveKeys
  <2>4. /\ k \in GroupCard(Owner[keys[k].project]).keys
        /\ k \in OrgProjectCard(keys[k].project).keys
    BY <2>2 DEF GroupCard, OrgProjectCard, UnitOfKey
  <2>5. Kind[Owner[keys[k].project]] # "LEGACY_PROJECT" =>
          keys[k].project \in MyProjects(keys[k].account)
    BY <2>1 DEF GatewayAdmits, MyProjects, Works
  <2> QED BY <2>3, <2>4, <2>5
<1> QED BY <1>1, MoneyInvInvariant, PTL

\* What a project's page shows as uncertain is a part of what it shows as
\* reserved (project-budget-read.ts: the one is summed over the entries, the
\* other read from the period).
THEOREM UncertainWithinReserved == ProjectSpec => []UncertainIsReserved
<1>1. MoneyInv => UncertainIsReserved
  <2> SUFFICES ASSUME MoneyInv, NEW p \in Projects
               PROVE  ProjectBudget(p).uncertain <= ProjectBudget(p).reserved
    BY DEF UncertainIsReserved
  <2> DEFINE U == [r \in Requests |->
                     IF /\ entries[r].status = "RECONCILIATION_REQUIRED"
                        /\ ProjectOf(r) = p /\ entries[r].month = month
                     THEN entries[r].reserved ELSE 0]
             H == Holds(p, month)
  <2>1. month \in Months /\ H \in [Requests -> Nat]
    BY HoldsType DEF MoneyInv
  <2>2. U \in [Requests -> Nat] /\ \A r \in Requests : U[r] <= H[r]
    <3>1. \A r \in Requests : entries[r].reserved \in Nat
      BY DEF MoneyInv, EntryRow
    <3>2. \A r \in Requests : entries[r].status = "RECONCILIATION_REQUIRED" =>
            entries[r].status \in Open
      BY DEF Open
    <3> QED BY <2>1, <3>1, <3>2 DEF Holds, Held, In, ProjectOf
  <2>3. Total(H, Requests) = periods[p][month].reserved
    BY <2>1 DEF MoneyInv, PeriodsBalance
  <2>4. ProjectBudget(p).uncertain = Total(U, Requests)
        /\ ProjectBudget(p).reserved = periods[p][month].reserved
    BY DEF ProjectBudget
  <2> HIDE DEF U, H
  <2>5. Total(U, Requests) <= Total(H, Requests)
    BY <2>1, <2>2, ProjectLedgerAssumption, TotalMonotone
  <2> QED BY <2>3, <2>4, <2>5
<1> QED BY <1>1, MoneyInvInvariant, PTL

-----------------------------------------------------------------------------
(* The project ledger keeps the promises of a budget account, with one     *)
(* account for each project and period (BudgetAccount).                    *)

\* What a request that made no deal is in.
Before == {"NONE", "ADMITTED"}

\* Sums in the account are the sums of this ledger.
LEMMA DealTotal ==
  ASSUME NEW f, NEW S
  PROVE  Account!Total(f, S) = Total(f, S)
BY DEF Account!Total, Account!UnitSet, Account!Cardinality, Total, UnitSet, Cardinality

LEMMA DealFields ==
  ASSUME NEW e, e.status \notin Before
  PROVE  /\ DealOf(e).account = <<keys[e.key].project, e.month>>
         /\ DealOf(e).paid = e.settled /\ DealOf(e).sent = e.dispatched
         /\ DealOf(e).corrected = FALSE
         /\ e.status \in Open =>
              /\ DealOf(e).promised = e.reserved
              /\ DealOf(e).state = IF e.held THEN "HELD" ELSE "OPEN"
         /\ e.status \in Closed =>
              /\ DealOf(e).promised = 0
              /\ DealOf(e).state = IF e.status = "SETTLED" THEN "SETTLED" ELSE "RETURNED"
BY DEF DealOf, Before, Open, Closed

LEMMA DealType ==
  ASSUME KeyTypes, NEW e \in EntryRow, EntryOK(e)
  PROVE  /\ e.status \in Before => DealOf(e) = Account!NoDeal
         /\ e.status \notin Before => DealOf(e) \in Account!Deal /\ DealOf(e).state # "NONE"
<1>1. e.status \in Before => DealOf(e) = Account!NoDeal
  BY DEF DealOf, Before, Account!NoDeal
<1>2. ASSUME e.status \notin Before
      PROVE  DealOf(e) \in Account!Deal /\ DealOf(e).state # "NONE"
  <2>1. <<keys[e.key].project, e.month>> \in Projects \X Months
    BY <1>2 DEF Before, EntryOK, EntryRow, KeyTypes
  <2>2. /\ e.reserved \in Nat /\ e.settled \in Nat
        /\ e.dispatched \in BOOLEAN /\ e.held \in BOOLEAN
    BY DEF EntryRow
  <2> QED BY <1>2, <2>1, <2>2 DEF DealOf, Account!Deal, Before
<1> QED BY <1>1, <1>2

\* What an account has used is what its period has spent and reserved.
LEMMA AccountUses ==
  ASSUME KeyTypes, MoneyInv, NEW p \in Projects, NEW m \in Months
  PROVE  Account!Used(<<p, m>>) = periods[p][m].spent + periods[p][m].reserved
<1> DEFINE f == Account!Promised(<<p, m>>)
           g == Account!Paid(<<p, m>>)
<1>1. \A r \in Requests :
        /\ f[r] = IF DealOf(entries[r]).state # "NONE" /\ DealOf(entries[r]).account = <<p, m>>
                  THEN DealOf(entries[r]).promised ELSE 0
        /\ g[r] = IF DealOf(entries[r]).state # "NONE" /\ DealOf(entries[r]).account = <<p, m>>
                  THEN DealOf(entries[r]).paid ELSE 0
  BY DEF Account!Promised, Account!Paid, Account!Made
<1>2. \A r \in Requests : f[r] = Holds(p, m)[r] /\ g[r] = Costs(p, m)[r]
  <2> HIDE DEF f, g
  <2> SUFFICES ASSUME NEW r \in Requests
               PROVE  f[r] = Holds(p, m)[r] /\ g[r] = Costs(p, m)[r]
    OBVIOUS
  <2>1. /\ Holds(p, m)[r] = IF In(entries[r], p, m) THEN Held(entries[r]) ELSE 0
        /\ Costs(p, m)[r] = IF In(entries[r], p, m) THEN entries[r].settled ELSE 0
    BY DEF Holds, Costs
  <2>2. entries[r] \in EntryRow /\ EntryOK(entries[r])
    BY DEF MoneyInv
  <2>3. CASE entries[r].status \in Before
    <3>1. DealOf(entries[r]).state = "NONE"
      BY <2>2, <2>3, DealType DEF Account!NoDeal
    <3>2. entries[r].settled = 0 /\ Held(entries[r]) = 0
      BY <2>2, <2>3 DEF EntryOK, Before, Closed, Held, Open
    <3> QED BY <1>1, <2>1, <3>1, <3>2
  <2>4. CASE entries[r].status \notin Before
    <3>1. /\ DealOf(entries[r]).state # "NONE"
          /\ DealOf(entries[r]).account = <<keys[entries[r].key].project, entries[r].month>>
          /\ DealOf(entries[r]).paid = entries[r].settled
      BY <2>2, <2>4, DealType, DealFields
    <3>2. entries[r].status \in Open \cup Closed
      BY <2>2, <2>4 DEF EntryRow, Before
    <3>3. DealOf(entries[r]).promised = Held(entries[r])
      BY <2>4, <3>2, DealFields DEF Held, Open, Closed
    <3>4. DealOf(entries[r]).account = <<p, m>> <=> In(entries[r], p, m)
      BY <3>1 DEF In
    <3> QED BY <1>1, <2>1, <3>1, <3>3, <3>4
  <2> QED BY <2>3, <2>4
<1>3. /\ Total(f, Requests) = Total(Holds(p, m), Requests)
      /\ Total(g, Requests) = Total(Costs(p, m), Requests)
  <2> HIDE DEF f, g
  <2> QED BY <1>2, TotalSame
<1>4. /\ periods[p][m].reserved = Total(Holds(p, m), Requests)
      /\ periods[p][m].spent = Total(Costs(p, m), Requests)
  BY DEF MoneyInv, PeriodsBalance
<1>5. periods[p][m].reserved \in Int /\ periods[p][m].spent \in Int
  BY DEF MoneyInv, PeriodRow
<1>6. Account!Used(<<p, m>>) = Total(f, Requests) + Total(g, Requests)
  BY DealTotal DEF Account!Used
<1> HIDE DEF f, g
<1> QED BY <1>3, <1>4, <1>5, <1>6

\* checkFunds is the account's own test.
LEMMA AccountCovers ==
  ASSUME KeyTypes, MoneyInv, NEW p \in Projects, NEW m \in Months, NEW n \in Nat,
         HasFunds(periods[p][m], n)
  PROVE  Account!Covers(<<p, m>>, n)
<1> DEFINE row == periods[p][m]
           L == [a \in Projects \X Months |->
                   [amount |-> periods[a[1]][a[2]].limit,
                    unlimited |-> periods[a[1]][a[2]].unlimited]]
<1>1. row \in PeriodRow /\ HasFunds(row, n)
  BY DEF MoneyInv
<1>2. L[<<p, m>>].amount = row.limit /\ L[<<p, m>>].unlimited = row.unlimited
  OBVIOUS
<1>3. Account!Used(<<p, m>>) = row.spent + row.reserved
  BY AccountUses
<1> HIDE DEF row, L
<1>4. /\ row.limit \in Nat /\ row.spent \in Int /\ row.reserved \in Int
  BY <1>1 DEF PeriodRow
<1>5. row.unlimited \/ (row.limit # 0 /\ row.spent + row.reserved + n <= row.limit)
  BY <1>1, <1>4 DEF HasFunds, Available
<1>6. L[<<p, m>>].unlimited \/
        (L[<<p, m>>].amount # 0 /\ Account!Used(<<p, m>>) + n <= L[<<p, m>>].amount)
  BY <1>2, <1>3, <1>5
<1> QED BY <1>6 DEF Account!Covers, L

\* No limit changes.
LimitsStay ==
  \A p \in Projects, m \in Months :
    /\ periods'[p][m].limit = periods[p][m].limit
    /\ periods'[p][m].unlimited = periods[p][m].unlimited

\* A call that rewrites one entry is a step of the deal it records.
LEMMA OneDeal ==
  ASSUME KeyTypes, MoneyInv, NEW r \in Requests, NEW e, e \in EntryRow, EntryOK(e),
         e.status \notin Before, entries' = [entries EXCEPT ![r] = e],
         UNCHANGED workspaceVars, LimitsStay,
         \/ Account!Promise(r, DealOf(e)) \/ Account!PromiseMore(r, DealOf(e))
         \/ Account!Send(r, DealOf(e)) \/ Account!Hold(r, DealOf(e))
         \/ Account!Settle(r, DealOf(e)) \/ Account!Return(r, DealOf(e))
  PROVE  Account!DealNext(r)
<1> DEFINE D == [x \in Requests |-> DealOf(entries[x])]
           L == [a \in Projects \X Months |->
                   [amount |-> periods[a[1]][a[2]].limit,
                    unlimited |-> periods[a[1]][a[2]].unlimited]]
<1>1. \A x \in Requests : entries'[x] = IF x = r THEN e ELSE entries[x]
  BY DEF MoneyInv
<1>0. keys' = keys
  BY DEF workspaceVars
<1>2. D' = [D EXCEPT ![r] = DealOf(e)]
  <2>1. \A x \in Requests : DealOf(entries[x])' = IF x = r THEN DealOf(e) ELSE DealOf(entries[x])
    BY <1>0, <1>1 DEF DealOf
  <2> QED BY <2>1
<1>3. D'[r] = DealOf(e)
  BY <1>2
<1>4. DealOf(e) \in Account!Deal
  BY DealType
<1>5. L' = L
  BY DEF LimitsStay
<1> HIDE DEF D, L
<1>6. /\ D'[r] \in Account!Deal /\ D' = [D EXCEPT ![r] = D'[r]]
      /\ \/ Account!Promise(r, D'[r]) \/ Account!PromiseMore(r, D'[r])
         \/ Account!Send(r, D'[r]) \/ Account!Hold(r, D'[r])
         \/ Account!Settle(r, D'[r]) \/ Account!Return(r, D'[r])
  BY <1>2, <1>3, <1>4
<1> QED BY <1>5, <1>6 DEF Account!DealNext, D, L

\* A posting to one period keeps every limit.
LEMMA PostingKeepsLimits ==
  ASSUME MoneyInv, NEW p \in Projects, NEW m \in Months, NEW row \in PeriodRow,
         row.limit = periods[p][m].limit, row.unlimited = periods[p][m].unlimited,
         periods' = [periods EXCEPT ![p][m] = row]
  PROVE  LimitsStay
BY PeriodWritten DEF LimitsStay

LEMMA AmountsKeepLimits ==
  ASSUME MoneyInv, NEW p \in Projects, NEW m \in Months, NEW spent \in Int,
         NEW reserved \in Int, periods' = WithAmounts(p, m, spent, reserved)
  PROVE  LimitsStay
<1> DEFINE row == RowWith(p, m, spent, reserved)
<1>1. row \in PeriodRow /\ periods' = [periods EXCEPT ![p][m] = row]
  BY AmountsWritten
<1>2. row.limit = periods[p][m].limit /\ row.unlimited = periods[p][m].unlimited
  <2>1. periods[p][m] \in PeriodRow
    BY DEF MoneyInv
  <2>2. \A x \in PeriodRow : Alerted(x).limit = x.limit /\ Alerted(x).unlimited = x.unlimited
    BY DEF Alerted, PeriodRow
  <2> DEFINE moved == [periods[p][m] EXCEPT !.spent = spent, !.reserved = reserved]
  <2>3. /\ moved \in PeriodRow /\ moved.limit = periods[p][m].limit
        /\ moved.unlimited = periods[p][m].unlimited
    BY <2>1 DEF PeriodRow
  <2>4. row = Alerted(moved)
    BY DEF RowWith
  <2> HIDE DEF moved, row
  <2> QED BY <2>2, <2>3, <2>4
<1> HIDE DEF row
<1> QED BY <1>1, <1>2, PostingKeepsLimits


\* The call r makes, when its entry becomes e: Moves keeps the limits.
LEMMA MovesKeepLimits ==
  ASSUME MoneyInv, KeyTypes, NEW r \in Requests, entries[r].status \in Open,
         NEW spent \in Nat, NEW reserved \in Nat, Moves(r, spent, reserved)
  PROVE  LimitsStay /\ UNCHANGED workspaceVars
<1> DEFINE p == ProjectOf(r)
           m == entries[r].month
           old == periods[p][m]
           s == old.spent + spent - entries[r].settled
           v == old.reserved + reserved - entries[r].reserved
<1>1. entries[r] \in EntryRow /\ p \in Projects /\ m \in Months /\ old \in PeriodRow
  BY MoneyRows DEF Open
<1>2. periods' = WithAmounts(p, m, s, v) /\ UNCHANGED workspaceVars
  BY DEF Moves
<1>3. s \in Int /\ v \in Int
  BY <1>1 DEF PeriodRow, EntryRow
<1> HIDE DEF p, m, s, v
<1> QED BY <1>1, <1>2, <1>3, AmountsKeepLimits

LEMMA DealReserve ==
  ASSUME KeyTypes, MoneyInv, NEW r \in Requests, NEW amount \in Nat, Reserve(r, amount)
  PROVE  Account!DealNext(r)
<1> DEFINE p == ProjectOf(r)
           m == entries[r].month
           old == periods[p][m]
           e == [entries[r] EXCEPT !.status = "RESERVED", !.reserved = amount]
<1>1. entries[r].status = "ADMITTED"
  BY DEF Reserve
<1>2. /\ entries[r] \in EntryRow /\ EntryOK(entries[r]) /\ m \in Months
      /\ p \in Projects /\ old \in PeriodRow
  BY <1>1, MoneyRows
<1>3. /\ e \in EntryRow /\ EntryOK(e) /\ e.key = entries[r].key /\ e.month = m
      /\ e.status = "RESERVED" /\ e.reserved = amount /\ e.settled = entries[r].settled
      /\ e.dispatched = entries[r].dispatched /\ e.held = entries[r].held
  BY <1>1, <1>2 DEF EntryRow, EntryOK, Open, Closed
<1>4. /\ HasFunds(old, amount) /\ UNCHANGED workspaceVars
      /\ entries' = [entries EXCEPT ![r] = e]
      /\ periods' = WithAmounts(p, m, old.spent, old.reserved + amount)
  BY DEF Reserve
<1>5. ~entries[r].held /\ entries[r].settled = 0
  BY <1>1, <1>2 DEF EntryOK, Closed
<1>6. ~entries[r].dispatched
  BY <1>1, <1>2 DEF EntryOK
<1> HIDE DEF e
<1>7. LimitsStay
  <2>1. old.spent \in Int /\ old.reserved + amount \in Int
    BY <1>2 DEF PeriodRow
  <2> QED BY <1>2, <1>4, <2>1, AmountsKeepLimits
<1>8. Account!Covers(<<p, m>>, amount)
  BY <1>2, <1>4, AccountCovers
<1>9. Account!Promise(r, DealOf(e))
  <2>1. DealOf(entries[r]).state = "NONE"
    BY <1>1, <1>2, DealType DEF Before, Account!NoDeal
  <2>2. ~Account!Made(r)
    BY <2>1 DEF Account!Made
  <2>3. /\ DealOf(e).state = "OPEN" /\ DealOf(e).paid = 0 /\ ~DealOf(e).sent
        /\ ~DealOf(e).corrected /\ DealOf(e).promised = amount
        /\ DealOf(e).account = <<p, m>>
    BY <1>3, <1>5, <1>6, DealFields DEF Before, Open, ProjectOf
  <2> QED BY <1>8, <2>2, <2>3 DEF Account!Promise
<1> QED BY <1>3, <1>4, <1>7, <1>9, OneDeal DEF Before

LEMMA DealExtend ==
  ASSUME KeyTypes, MoneyInv, NEW r \in Requests, NEW amount \in Nat, Extend(r, amount)
  PROVE  Account!DealNext(r)
<1> DEFINE p == ProjectOf(r)
           m == entries[r].month
           e == [entries[r] EXCEPT !.reserved = @ + amount, !.extended = TRUE]
<1>1. entries[r].status \in Open /\ entries[r].status \notin Before
  BY DEF Extend, Open, Before
<1>2. /\ entries[r] \in EntryRow /\ EntryOK(entries[r]) /\ m \in Months /\ p \in Projects
  BY <1>1, MoneyRows DEF Before
<1>3. /\ e \in EntryRow /\ EntryOK(e) /\ e.key = entries[r].key /\ e.month = m
      /\ e.status = entries[r].status /\ e.reserved = entries[r].reserved + amount
      /\ e.settled = entries[r].settled /\ e.dispatched = entries[r].dispatched
      /\ e.held = entries[r].held
  <2>1. entries[r].reserved + amount \in Nat
    BY <1>2 DEF EntryRow
  <2> QED BY <1>2, <2>1 DEF EntryRow, EntryOK
<1>4. /\ entries' = [entries EXCEPT ![r] = e] /\ HasFunds(periods[p][m], amount)
      /\ Moves(r, entries[r].settled, entries[r].reserved + amount)
  BY DEF Extend
<1> HIDE DEF e
<1>5. LimitsStay /\ UNCHANGED workspaceVars
  <2>1. entries[r].settled \in Nat /\ entries[r].reserved + amount \in Nat
    BY <1>2 DEF EntryRow
  <2> QED BY <1>1, <1>4, <2>1, MovesKeepLimits
<1>6. Account!Covers(<<p, m>>, amount)
  BY <1>2, <1>4, AccountCovers
<1>7. Account!PromiseMore(r, DealOf(e))
  <2> DEFINE c == DealOf(entries[r])
             d == DealOf(e)
  <2>1. c \in Account!Deal /\ d \in Account!Deal
    BY <1>1, <1>2, <1>3, DealType
  <2>8. e.status \in Open /\ e.status \notin Before
    BY <1>1, <1>3
  <2>6. /\ c.account = <<keys[entries[r].key].project, entries[r].month>>
        /\ c.paid = entries[r].settled /\ c.sent = entries[r].dispatched
        /\ c.corrected = FALSE /\ c.promised = entries[r].reserved
        /\ c.state = IF entries[r].held THEN "HELD" ELSE "OPEN"
    BY <1>1, DealFields
  <2>7. /\ d.account = <<keys[e.key].project, e.month>>
        /\ d.paid = e.settled /\ d.sent = e.dispatched
        /\ d.corrected = FALSE /\ d.promised = e.reserved
        /\ d.state = IF e.held THEN "HELD" ELSE "OPEN"
    BY <2>8, DealFields
  <2> HIDE DEF c, d
  <2>2. /\ d.state = c.state /\ c.state \in {"OPEN", "HELD"}
        /\ d.account = <<p, m>> /\ c.account = <<p, m>> /\ d.paid = c.paid
        /\ d.sent = c.sent /\ d.corrected = c.corrected
        /\ c.promised = entries[r].reserved /\ d.promised = c.promised + amount
    BY <1>1, <1>3, <2>6, <2>7 DEF ProjectOf
  <2>3. d.promised \in Nat /\ c.promised \in Nat /\ d.promised - c.promised = amount
    BY <2>1, <2>2 DEF Account!Deal
  <2>4. d = [c EXCEPT !.promised = d.promised]
    BY <2>1, <2>2 DEF Account!Deal
  <2>5. d.promised >= c.promised
    BY <2>2, <2>3
  <2> QED BY <1>6, <2>2, <2>3, <2>4, <2>5 DEF Account!PromiseMore, Account!Running, c, d
<1> QED BY <1>1, <1>3, <1>4, <1>5, <1>7, OneDeal

LEMMA DealSettle ==
  ASSUME KeyTypes, MoneyInv, NEW r \in Requests, NEW actual \in Nat, Settle(r, actual)
  PROVE  Account!DealNext(r)
<1> DEFINE e == [entries[r] EXCEPT !.status = "SETTLED", !.settled = actual,
                                   !.due = FALSE, !.synced = FALSE]
<1>1. entries[r].status \in Open /\ entries[r].status \notin Before
  BY DEF Settle, Open, Before
<1>2. entries[r] \in EntryRow /\ EntryOK(entries[r])
  BY <1>1, MoneyRows DEF Before
<1>3. /\ e \in EntryRow /\ EntryOK(e) /\ e.key = entries[r].key
      /\ e.month = entries[r].month /\ e.status = "SETTLED" /\ e.settled = actual
      /\ e.dispatched = entries[r].dispatched
  BY <1>1, <1>2 DEF EntryRow, EntryOK, Closed, Before
<1>4. entries' = [entries EXCEPT ![r] = e] /\ Moves(r, actual, 0)
  BY DEF Settle
<1> HIDE DEF e
<1>5. LimitsStay /\ UNCHANGED workspaceVars
  BY <1>1, <1>4, MovesKeepLimits
<1>6. Account!Settle(r, DealOf(e))
  <2> DEFINE c == DealOf(entries[r])
             d == DealOf(e)
  <2>1. c \in Account!Deal /\ d \in Account!Deal
    BY <1>1, <1>2, <1>3, DealType DEF Before
  <2>2. /\ c.state \in {"OPEN", "HELD"} /\ d.state = "SETTLED" /\ d.promised = 0
        /\ d.account = c.account /\ d.sent = c.sent /\ d.corrected = c.corrected
    BY <1>1, <1>3, DealFields DEF Before, Closed
  <2> HIDE DEF c, d
  <2>3. d = [c EXCEPT !.state = "SETTLED", !.paid = d.paid, !.promised = 0]
    BY <2>1, <2>2 DEF Account!Deal
  <2> QED BY <2>2, <2>3 DEF Account!Settle, Account!Running, c, d
<1> QED BY <1>3, <1>4, <1>5, <1>6, OneDeal DEF Before

LEMMA DealHold ==
  ASSUME KeyTypes, MoneyInv, NEW r \in Requests, NEW actual \in Nat,
         NEW unresolved \in Nat, Hold(r, actual, unresolved)
  PROVE  Account!DealNext(r)
<1> DEFINE e == [entries[r] EXCEPT !.status = "RECONCILIATION_REQUIRED",
                   !.settled = actual, !.reserved = unresolved, !.held = TRUE, !.due = FALSE]
<1>1. /\ entries[r].status \in Open /\ entries[r].status \notin Before
      /\ ~entries[r].held
  BY DEF Hold, Open, Before
<1>2. entries[r] \in EntryRow /\ EntryOK(entries[r])
  BY <1>1, MoneyRows DEF Before
<1>3. /\ e \in EntryRow /\ EntryOK(e) /\ e.key = entries[r].key
      /\ e.month = entries[r].month /\ e.status = "RECONCILIATION_REQUIRED"
      /\ e.dispatched = entries[r].dispatched /\ e.held
  BY <1>1, <1>2 DEF EntryRow, EntryOK, Open, Before
<1>4. /\ entries' = [entries EXCEPT ![r] = e]
      /\ Moves(r, actual + entries[r].settled, unresolved)
  BY DEF Hold
<1> HIDE DEF e
<1>5. LimitsStay /\ UNCHANGED workspaceVars
  <2>1. actual + entries[r].settled \in Nat
    BY <1>2 DEF EntryRow
  <2> QED BY <1>1, <1>4, <2>1, MovesKeepLimits
<1>6. Account!Hold(r, DealOf(e))
  <2> DEFINE c == DealOf(entries[r])
             d == DealOf(e)
  <2>1. c \in Account!Deal /\ d \in Account!Deal
    BY <1>1, <1>2, <1>3, DealType DEF Before
  <2>4. e.status \notin Before /\ e.status \in Open
    BY <1>3 DEF Before, Open
  <2>5. /\ c.account = <<keys[entries[r].key].project, entries[r].month>>
        /\ c.sent = entries[r].dispatched /\ c.corrected = FALSE
        /\ c.state = "OPEN"
    BY <1>1, DealFields
  <2>6. /\ d.account = <<keys[e.key].project, e.month>>
        /\ d.sent = e.dispatched /\ d.corrected = FALSE /\ d.state = "HELD"
    BY <1>3, <2>4, DealFields
  <2> HIDE DEF c, d
  <2>2. /\ c.state = "OPEN" /\ d.state = "HELD"
        /\ d.account = c.account /\ d.sent = c.sent /\ d.corrected = c.corrected
    BY <1>3, <2>5, <2>6
  <2>3. d = [c EXCEPT !.state = "HELD", !.paid = d.paid, !.promised = d.promised]
    BY <2>1, <2>2 DEF Account!Deal
  <2> QED BY <2>2, <2>3 DEF Account!Hold, c, d
<1> QED BY <1>3, <1>4, <1>5, <1>6, OneDeal DEF Before

LEMMA DealRelease ==
  ASSUME KeyTypes, MoneyInv, NEW r \in Requests, entries[r].status = "RESERVED",
         ~entries[r].dispatched, ReleaseEntry(r)
  PROVE  Account!DealNext(r)
<1> DEFINE p == ProjectOf(r)
           m == entries[r].month
           e == [entries[r] EXCEPT !.status = "RELEASED", !.due = FALSE, !.synced = FALSE]
           old == periods[p][m]
           moved == [old EXCEPT !.reserved = @ - entries[r].reserved]
<1>1. /\ entries[r] \in EntryRow /\ EntryOK(entries[r]) /\ m \in Months
      /\ p \in Projects /\ old \in PeriodRow
  BY MoneyRows
<1>2. /\ e \in EntryRow /\ EntryOK(e) /\ e.key = entries[r].key /\ e.month = m
      /\ e.status = "RELEASED" /\ e.settled = entries[r].settled
      /\ e.dispatched = entries[r].dispatched
  BY <1>1 DEF EntryRow, EntryOK, Closed
<1>3. /\ UNCHANGED workspaceVars /\ entries' = [entries EXCEPT ![r] = e]
      /\ periods' = [periods EXCEPT ![p][m] = moved]
  BY DEF ReleaseEntry
<1>4. /\ moved \in PeriodRow /\ moved.limit = old.limit /\ moved.unlimited = old.unlimited
  BY <1>1 DEF PeriodRow, EntryRow
<1> HIDE DEF moved, e
<1>5. LimitsStay
  BY <1>1, <1>3, <1>4, PostingKeepsLimits
<1>6. Account!Return(r, DealOf(e))
  <2> DEFINE c == DealOf(entries[r])
             d == DealOf(e)
  <2>1. c \in Account!Deal /\ d \in Account!Deal
    BY <1>1, <1>2, DealType DEF Before
  <2>2. ~entries[r].held
    BY <1>1 DEF EntryOK
  <2>3. /\ c.state = "OPEN" /\ ~c.sent /\ d.state = "RETURNED" /\ d.promised = 0
        /\ d.account = c.account /\ d.paid = c.paid /\ d.sent = c.sent
        /\ d.corrected = c.corrected
    BY <1>2, <2>2, DealFields DEF Before, Open, Closed
  <2> HIDE DEF c, d
  <2>4. d = [c EXCEPT !.state = "RETURNED", !.promised = 0]
    BY <2>1, <2>3 DEF Account!Deal
  <2> QED BY <2>3, <2>4 DEF Account!Return, c, d
<1> QED BY <1>2, <1>3, <1>5, <1>6, OneDeal DEF Before


LEMMA DealMarkDispatched ==
  ASSUME KeyTypes, MoneyInv, NEW r \in Requests, MarkDispatched(r)
  PROVE  Account!DealNext(r)
<1> DEFINE e == [entries[r] EXCEPT !.dispatched = TRUE, !.due = FALSE]
<1>1. /\ entries[r].status = "RESERVED" /\ UNCHANGED <<periods, workspaceVars>>
      /\ entries' = [entries EXCEPT ![r] = e]
  BY DEF MarkDispatched, Marks
<1>2. entries[r] \in EntryRow /\ EntryOK(entries[r])
  BY <1>1, MoneyRows
<1>3. /\ e \in EntryRow /\ EntryOK(e) /\ e.key = entries[r].key
      /\ e.month = entries[r].month /\ e.status = "RESERVED" /\ e.dispatched
      /\ e.reserved = entries[r].reserved /\ e.settled = entries[r].settled
      /\ e.held = entries[r].held
  BY <1>1, <1>2 DEF EntryRow, EntryOK
<1> HIDE DEF e
<1>4. LimitsStay
  BY <1>1 DEF LimitsStay
<1>5. Account!Send(r, DealOf(e))
  <2> DEFINE c == DealOf(entries[r])
             d == DealOf(e)
  <2>1. c \in Account!Deal /\ d \in Account!Deal
    BY <1>1, <1>2, <1>3, DealType DEF Before
  <2>4. entries[r].status \notin Before /\ entries[r].status \in Open
    BY <1>1 DEF Before, Open
  <2>5. e.status \notin Before /\ e.status \in Open
    BY <1>3 DEF Before, Open
  <2>6. /\ c.account = <<keys[entries[r].key].project, entries[r].month>>
        /\ c.paid = entries[r].settled /\ c.corrected = FALSE
        /\ c.promised = entries[r].reserved
        /\ c.state = IF entries[r].held THEN "HELD" ELSE "OPEN"
    BY <2>4, DealFields
  <2>7. /\ d.account = <<keys[e.key].project, e.month>>
        /\ d.paid = e.settled /\ d.sent = e.dispatched /\ d.corrected = FALSE
        /\ d.promised = e.reserved
        /\ d.state = IF e.held THEN "HELD" ELSE "OPEN"
    BY <2>5, DealFields
  <2> HIDE DEF c, d
  <2>2. /\ c.state \in {"OPEN", "HELD"} /\ d.state = c.state
        /\ d.account = c.account /\ d.promised = c.promised /\ d.paid = c.paid
        /\ d.sent /\ d.corrected = c.corrected
    BY <1>3, <2>6, <2>7
  <2>3. d = [c EXCEPT !.sent = TRUE]
    BY <2>1, <2>2 DEF Account!Deal
  <2> QED BY <2>2, <2>3 DEF Account!Send, Account!Running, c, d
<1> QED BY <1>1, <1>3, <1>4, <1>5, OneDeal DEF Before

\* Steps that the account does not see.
LEMMA DealsSame ==
  ASSUME UNCHANGED periods, \A r \in Requests : DealOf(entries[r])' = DealOf(entries[r])
  PROVE  UNCHANGED Account!accountVars
BY DEF Account!accountVars

\* A key never changes its project.
LEMMA EntriesSame ==
  ASSUME MoneyInv, UNCHANGED <<periods, entries>>,
         \A k \in Keys : keys'[k].project = keys[k].project
  PROVE  UNCHANGED Account!accountVars
<1>1. \A r \in Requests : entries[r].key \in Keys
  BY DEF MoneyInv, EntryRow
<1>2. \A r \in Requests : DealOf(entries[r])' = DealOf(entries[r])
  BY <1>1 DEF DealOf
<1> QED BY <1>2, DealsSame

LEMMA DealMarks ==
  ASSUME MoneyInv, NEW r \in Requests,
         \/ Admit(r) \/ MarkUncertain(r) \/ LeaseEnds(r) \/ RecoverDispatched(r)
         \/ SyncQuota(r)
  PROVE  UNCHANGED Account!accountVars
<1>1. entries[r] \in EntryRow
  BY DEF MoneyInv
<1>2. ASSUME NEW e, entries' = [entries EXCEPT ![r] = e],
             DealOf(e) = DealOf(entries[r]), UNCHANGED <<periods, workspaceVars>>
      PROVE  UNCHANGED Account!accountVars
  <2>1. \A x \in Requests : entries'[x] = IF x = r THEN e ELSE entries[x]
    BY <1>2 DEF MoneyInv
  <2>2. keys' = keys
    BY <1>2 DEF workspaceVars
  <2>3. ASSUME NEW x \in Requests
        PROVE  DealOf(entries[x])' = DealOf(entries[x])
    <3>1. DealOf(entries[x])' = DealOf(entries'[x])
      BY <2>2 DEF DealOf
    <3>2. DealOf(entries'[x]) = DealOf(entries[x])
      BY <1>2, <2>1
    <3> QED BY <3>1, <3>2
  <2> QED BY <1>2, <2>3, DealsSame
<1>3. CASE Admit(r)
  <2> DEFINE e == [entries[r] EXCEPT !.status = "ADMITTED", !.month = month]
  <2>1. /\ entries' = [entries EXCEPT ![r] = e] /\ UNCHANGED <<periods, workspaceVars>>
        /\ entries[r].status = "NONE"
    BY <1>3 DEF Admit
  <2>2. DealOf(e) = DealOf(entries[r])
    BY <1>1, <2>1 DEF DealOf, EntryRow
  <2> QED BY <1>2, <2>1, <2>2
<1>4. CASE MarkUncertain(r) \/ RecoverDispatched(r)
  <2> DEFINE e == [entries[r] EXCEPT !.status = "RECONCILIATION_REQUIRED", !.due = FALSE]
  <2>1. /\ entries' = [entries EXCEPT ![r] = e] /\ UNCHANGED <<periods, workspaceVars>>
        /\ entries[r].status \in Open
    BY <1>4 DEF MarkUncertain, RecoverDispatched, Marks, Open
  <2>2. DealOf(e) = DealOf(entries[r])
    BY <1>1, <2>1 DEF DealOf, EntryRow, Open
  <2> QED BY <1>2, <2>1, <2>2
<1>5. CASE LeaseEnds(r)
  <2> DEFINE e == [entries[r] EXCEPT !.due = TRUE]
  <2>1. entries' = [entries EXCEPT ![r] = e] /\ UNCHANGED <<periods, workspaceVars>>
    BY <1>5 DEF LeaseEnds
  <2>2. DealOf(e) = DealOf(entries[r])
    BY <1>1 DEF DealOf, EntryRow
  <2> QED BY <1>2, <2>1, <2>2
<1>6. CASE SyncQuota(r)
  <2> DEFINE e == [entries[r] EXCEPT !.synced = TRUE]
  <2>1. entries' = [entries EXCEPT ![r] = e] /\ UNCHANGED <<periods, workspaceVars>>
    BY <1>6 DEF SyncQuota, Marks
  <2>2. DealOf(e) = DealOf(entries[r])
    BY <1>1 DEF DealOf, EntryRow
  <2> QED BY <1>2, <2>1, <2>2
<1> QED BY <1>3, <1>4, <1>5, <1>6

\* A new limit covers what the period has spent and reserved.
LEMMA LimitGiven ==
  ASSUME KeyTypes, MoneyInv, NEW p \in Projects, NEW l \in Limits, NEW u \in BOOLEAN,
         Adjustable(p, l, u), periods' = WithLimit(p, l, u), UNCHANGED <<entries, keys>>
  PROVE  Account!LimitsNext
<1> DEFINE L == [a \in Projects \X Months |->
                   [amount |-> periods[a[1]][a[2]].limit,
                    unlimited |-> periods[a[1]][a[2]].unlimited]]
           old == periods[p][month]
           moved == [old EXCEPT !.limit = l, !.unlimited = u]
           row == Alerted(moved)
<1>1. month \in Months /\ old \in PeriodRow /\ l \in Nat
  BY ProjectLedgerAssumption DEF MoneyInv
<1>2. moved \in PeriodRow /\ moved.limit = l /\ moved.unlimited = u
  BY <1>1 DEF PeriodRow
<1>3. periods' = [periods EXCEPT ![p][month] = row]
  BY DEF WithLimit
<1>4. u \/ old.spent + old.reserved <= l
  <2>1. u \/ l >= old.spent + old.reserved
    BY DEF Adjustable
  <2> QED BY <1>1, <2>1 DEF PeriodRow
<1> HIDE DEF moved
<1>5. row \in PeriodRow /\ row.limit = l /\ row.unlimited = u
  <2>1. row \in PeriodRow
    BY <1>2, AlertedKeeps
  <2>2. row.limit = moved.limit /\ row.unlimited = moved.unlimited
    BY <1>2 DEF Alerted, PeriodRow
  <2> QED BY <1>2, <2>1, <2>2
<1> HIDE DEF row
<1>6. /\ periods' \in [Projects -> [Months -> PeriodRow]]
      /\ \A q \in Projects, m \in Months :
           periods'[q][m] = IF q = p /\ m = month THEN row ELSE periods[q][m]
  BY <1>1, <1>3, <1>5, PeriodWritten
<1>7. L' \in [Projects \X Months -> Account!Limit]
  BY <1>6 DEF PeriodRow, Account!Limit
<1>8. ASSUME NEW a \in Projects \X Months, L'[a] # L[a]
      PROVE  L'[a].unlimited \/ Account!Used(a) <= L'[a].amount
  <2>1. a = <<a[1], a[2]>> /\ a[1] \in Projects /\ a[2] \in Months
    OBVIOUS
  <2>2. /\ L[a] = [amount |-> periods[a[1]][a[2]].limit,
                   unlimited |-> periods[a[1]][a[2]].unlimited]
        /\ L'[a] = [amount |-> periods'[a[1]][a[2]].limit,
                    unlimited |-> periods'[a[1]][a[2]].unlimited]
    OBVIOUS
  <2>3. a[1] = p /\ a[2] = month
    BY <1>6, <1>8, <2>1, <2>2
  <2>4. Account!Used(<<p, month>>) = old.spent + old.reserved
    BY <1>1, AccountUses
  <2>5. L'[a].unlimited = u /\ L'[a].amount = l
    BY <1>1, <1>5, <1>6, <2>2, <2>3
  <2>6. Account!Used(a) = old.spent + old.reserved
    BY <2>1, <2>3, <2>4
  <2> QED BY <1>4, <2>5, <2>6
<1>9. \A r \in Requests : DealOf(entries[r])' = DealOf(entries[r])
  BY DEF DealOf
<1> QED BY <1>7, <1>8, <1>9 DEF Account!LimitsNext, L

LEMMA ProjectAccountStep ==
  ASSUME KeyInv, MoneyInv, [ProjectNext]_projectVars
  PROVE  [Account!AccountNext]_(Account!accountVars)
<1> DEFINE Goal == [Account!AccountNext]_(Account!accountVars)
<1>0. KeyTypes
  BY DEF KeyInv
<1>1. ASSUME NEW r \in Requests, Account!DealNext(r)
      PROVE  Goal
  BY <1>1 DEF Account!AccountNext
<1>2. Account!LimitsNext => Goal
  BY DEF Account!AccountNext
<1>3. UNCHANGED Account!accountVars => Goal
  OBVIOUS
<1> HIDE DEF Goal
<1> SUFFICES Goal
  BY DEF Goal
<1>4. CASE UNCHANGED projectVars
  BY <1>3, <1>4, EntriesSame DEF projectVars, projectLedgerVars, workspaceVars
<1>5. CASE WorkspaceNext /\ UNCHANGED projectLedgerVars
  BY <1>0, <1>3, <1>5, WorkspaceKeeps, EntriesSame DEF projectLedgerVars
<1>6. ASSUME NEW p \in Projects, NEW l \in Limits, NEW u \in BOOLEAN, Adjust(p, l, u)
      PROVE  Goal
  BY <1>0, <1>2, <1>6, LimitGiven DEF Adjust, workspaceVars
<1>7. ASSUME NEW x \in Applications, NEW l \in Limits, NEW u \in BOOLEAN,
             AdjustFor(x, l, u) \/ SubmitAndApprove(x, l, u)
      PROVE  Goal
  <2>1. applications[x].project \in Projects
    BY DEF MoneyInv
  <2>2. /\ Adjustable(applications[x].project, l, u)
        /\ periods' = WithLimit(applications[x].project, l, u)
        /\ UNCHANGED <<entries, keys>>
    BY <1>7 DEF AdjustFor, SubmitAndApprove, workspaceVars
  <2> QED BY <1>0, <1>2, <2>1, <2>2, LimitGiven
<1>8. ASSUME NEW x, NEW a, RejectApplication(x) \/ CreateApplication(x, a)
      PROVE  Goal
  BY <1>3, <1>8, EntriesSame DEF RejectApplication, CreateApplication, workspaceVars
<1>14. CASE NextMonth
  BY <1>3, <1>14, EntriesSame DEF NextMonth, workspaceVars
<1>9. ASSUME NEW p \in Projects, ArchiveProject(p)
      PROVE  Goal
  BY <1>3, <1>9, EntriesSame DEF ArchiveProject, BeginArchive, projectLedgerVars
<1>10. ASSUME NEW r \in Requests, Release(r) \/ RecoverUndispatched(r)
       PROVE  Goal
  BY <1>0, <1>1, <1>10, DealRelease DEF Release, Releasable, RecoverUndispatched
<1>11. ASSUME NEW r \in Requests, NEW m \in Amounts,
              \/ Reserve(r, m) \/ Extend(r, m) \/ Settle(r, m)
              \/ \E n \in Amounts : Hold(r, m, n)
       PROVE  Goal
  BY <1>0, <1>1, <1>11, DealReserve, DealExtend, DealSettle, DealHold,
     ProjectLedgerAssumption
<1>12. ASSUME NEW r \in Requests,
              \/ Admit(r) \/ MarkDispatched(r) \/ MarkUncertain(r) \/ LeaseEnds(r)
              \/ RecoverDispatched(r) \/ SyncQuota(r)
       PROVE  Goal
  BY <1>0, <1>1, <1>3, <1>12, DealMarks, DealMarkDispatched
<1>13. CASE LedgerNext
  <2>1. CASE \E p \in Projects, l \in Limits, u \in BOOLEAN : Adjust(p, l, u)
    BY <1>6, <2>1
  <2>2. ASSUME NEW x \in Applications,
               \/ RejectApplication(x)
               \/ \E a \in Employees \cup {NoRole} : CreateApplication(x, a)
               \/ \E l \in Limits, u \in BOOLEAN :
                    AdjustFor(x, l, u) \/ SubmitAndApprove(x, l, u)
        PROVE  Goal
    BY <1>7, <1>8, <2>2
  <2>3. ASSUME NEW r \in Requests,
               \/ Admit(r) \/ Release(r) \/ MarkDispatched(r) \/ MarkUncertain(r)
               \/ LeaseEnds(r) \/ RecoverDispatched(r) \/ RecoverUndispatched(r)
               \/ SyncQuota(r)
               \/ \E m \in Amounts :
                    \/ Reserve(r, m) \/ Extend(r, m) \/ Settle(r, m)
                    \/ \E n \in Amounts : Hold(r, m, n)
        PROVE  Goal
    BY <1>10, <1>11, <1>12, <2>3
  <2>4. CASE \E p \in Projects : ArchiveProject(p)
    BY <1>9, <2>4
  <2> QED BY <1>13, <1>14, <2>1, <2>2, <2>3, <2>4 DEF LedgerNext
<1> QED BY <1>4, <1>5, <1>13 DEF ProjectNext

LEMMA ProjectAccountStarts ==
  ASSUME ProjectInit
  PROVE  Account!AccountInit
<1>1. MoneyInv
  BY MoneyInit
<1>2. ASSUME NEW r \in Requests
      PROVE  DealOf(entries[r]) = Account!NoDeal
  <2>1. PICK k \in Keys : entries[r] = NoEntry(k)
    BY DEF ProjectInit, ProjectLedgerInit
  <2>2. entries[r].status = "NONE"
    BY <2>1 DEF NoEntry
  <2> QED BY <2>2 DEF DealOf, Account!NoDeal
<1>3. ASSUME NEW a \in Projects \X Months
      PROVE  [amount |-> periods[a[1]][a[2]].limit,
              unlimited |-> periods[a[1]][a[2]].unlimited] \in Account!Limit
  <2>1. PICK p \in Projects, m \in Months : a = <<p, m>>
    OBVIOUS
  <2>2. periods[p][m] \in PeriodRow
    BY <1>1 DEF MoneyInv
  <2>3. periods[p][m].limit \in Nat /\ periods[p][m].unlimited \in BOOLEAN
    BY <2>2 DEF PeriodRow
  <2> QED BY <2>1, <2>3 DEF Account!Limit
<1> QED BY <1>2, <1>3 DEF Account!AccountInit

\* The ledger of the projects implements a budget account for each project and
\* month, whatever happens to keys, members and units meanwhile:
\* project-budget.service.ts promises nothing that the limit does not cover and
\* gives back nothing that was sent.
THEOREM ProjectAccountKept == ProjectSpec => ProjectAccountImplemented
<1>1. ProjectInit => Account!AccountInit
  BY ProjectAccountStarts
<1>2. KeyInv /\ MoneyInv /\ [ProjectNext]_projectVars
        => [Account!AccountNext]_(Account!accountVars)
  BY ProjectAccountStep
<1> QED BY <1>1, <1>2, MoneyInvInvariant, PTL
        DEF ProjectSpec, ProjectAccountImplemented, Account!AccountSpec
===============================================================================
