---------------------------- MODULE DeviceProofs ----------------------------
(***************************************************************************)
(* What the row locks of the device transactions protect, and the safety   *)
(* of DeviceSpec that follows from it.  DeviceInv says of every            *)
(* transaction what it holds and still wants at each point (its order of   *)
(* locks), that no two hold conflicting locks, and which of the rows that  *)
(* it has read can therefore not have changed since.                       *)
(***************************************************************************)
EXTENDS DeviceGrants, FiniteSetTheorems, SequenceTheorems,
        WellFoundedInduction, TLAPS

Renewals == {"ENABLE", "EXTEND"}
Ops == {"REDEEM", "CREATE", "ASSIGN", "REQUIRE"} \cup Lifecycle \cup Revocations \cup Renewals

GrantFields == [exists: BOOLEAN, grouped: BOOLEAN, disabled: BOOLEAN,
                deleted: BOOLEAN, expired: BOOLEAN,
                device: Installations \cup {NoInstallation},
                revoked: BOOLEAN, token: 0 .. MaxToken, retry: BOOLEAN]

RowTypes ==
  /\ grants \in [Grants -> GrantFields]
  /\ links \in [Grants -> Seq(LinkStates)]
  /\ \A g \in Grants : Len(links[g]) <= MaxLinks
  /\ \A g \in Grants : ~grants[g].exists => grants[g] = Absent /\ links[g] = <<>>
  /\ place \in [required: BOOLEAN, member: BOOLEAN, archived: BOOLEAN]

\* The four rows of what a transaction may lock.
Locks == {OrganizationRow, AuditReference, GroupRow}
           \cup {GrantRow(g) : g \in Grants}
           \cup {LinkRow(g, i) : g \in Grants, i \in 1 .. MaxLinks}

TxTypes ==
  txs \in [Txs -> {Idle} \cup
                  [op: Ops, grant: Grants \cup {0},
                   arg: BOOLEAN \cup [link: 1 .. MaxLinks, installation: Installations],
                   want: Seq(Locks), held: SUBSET Locks]]

Held(t) == IF txs[t] = Idle THEN {} ELSE txs[t].held

\* No two transactions hold conflicting locks.
Exclusive ==
  \A t, u \in Txs : t # u =>
    \A l \in Held(t), m \in Held(u) : l.row = m.row => ~Conflict(l.mode, m.mode)

-----------------------------------------------------------------------------
(* The order in which each transaction takes its locks.                    *)

At(t, want, held) == txs[t].want = want /\ txs[t].held = held

CurrentRows(g) == {LinkRow(g, i) : i \in CurrentLinks(g)}

RedeemOrdered(t) ==
  LET g == txs[t].grant
      L == LinkRow(g, txs[t].arg.link)
      G == GrantRow(g)
  IN /\ g \in Grants /\ txs[t].arg \in [link: 1 .. MaxLinks, installation: Installations]
     /\ txs[t].arg.link \in DOMAIN links[g]
     /\ \/ At(t, <<L, G>>, {})
        \/ At(t, <<G>>, {L})
        \/ At(t, <<AuditReference>>, {L, G})
        \/ At(t, <<>>, {L, G, AuditReference})

\* The current link is locked before the grant; a link that has been locked is
\* still the current one, and none is current that is not locked.
LifecycleOrdered(t) ==
  LET g == txs[t].grant
      G == GrantRow(g)
  IN /\ g \in Grants /\ grants[g].exists
     /\ \/ \E i \in DOMAIN links[g] : At(t, <<LinkRow(g, i), G>>, {})
        \/ At(t, <<G>>, {})
        \/ \E i \in CurrentLinks(g) : At(t, <<G>>, {LinkRow(g, i)})
        \/ At(t, <<AuditReference>>, {G} \cup CurrentRows(g))
        \/ At(t, <<>>, {G, AuditReference} \cup CurrentRows(g))

LiveGrouped(g) == grants[g].exists /\ grants[g].grouped /\ ~grants[g].deleted

\* The rows locked on the way to link n of grant h.
Behind(h, n) ==
  {GroupRow} \cup {GrantRow(k) : k \in {k \in Grants : k < h}}
    \cup {LinkRow(k, i) : k \in {k \in Grants : k < h}, i \in 1 .. MaxLinks}
    \cup {LinkRow(h, i) : i \in {i \in 1 .. MaxLinks : i > n}}

\* Before each grant, its current link.
GrantsWithLinks(t) ==
  \A k \in Grants : GrantRow(k) \in txs[t].held =>
    grants[k].exists /\ CurrentRows(k) \subseteq txs[t].held

Walking(t, h, n) ==
  /\ txs[t].want = LinksThenGrant(h, n)
  /\ grants[h].exists
  /\ txs[t].held \subseteq Behind(h, n)
  /\ \A k \in Grants : k < h /\ LiveGrouped(k) => GrantRow(k) \in txs[t].held

Walked(t) ==
  /\ txs[t].want \in {<<AuditReference>>, <<>>}
  /\ \A k \in Grants : LiveGrouped(k) => GrantRow(k) \in txs[t].held

\* With the group locked, its grants are visited in the order of their ids,
\* each after its links; none is missed.
RevocationOrdered(t) ==
  \/ At(t, <<GroupRow>>, {})
  \/ /\ GroupRow \in txs[t].held
     /\ GrantsWithLinks(t)
     /\ \/ \E h \in Grants : \E n \in 0 .. Len(links[h]) : Walking(t, h, n)
        \/ Walked(t)

CreateOrdered(t) ==
  LET g == txs[t].grant
      grouped == txs[t].arg
  IN /\ g \in Grants /\ grouped \in BOOLEAN /\ ~grants[g].exists
     /\ \A u \in Txs : u # t => txs[u].op # "CREATE" \/ txs[u].grant # g
     /\ \/ At(t, CreateOrder(grouped), {})
        \/ grouped /\ At(t, <<GroupRow>>, {OrganizationRow})
        \/ grouped /\ At(t, <<>>, {OrganizationRow, GroupRow})
        \/ ~grouped /\ At(t, <<>>, {OrganizationRow})

AssignOrdered(t) ==
  LET g == txs[t].grant
      G == GrantRow(g)
  IN /\ g \in Grants /\ grants[g].exists
     /\ \/ At(t, <<OrganizationRow, GroupRow, G>>, {})
        \/ At(t, <<GroupRow, G>>, {OrganizationRow})
        \/ At(t, <<G>>, {OrganizationRow, GroupRow})
        \/ At(t, <<>>, {OrganizationRow, GroupRow, G})

RenewalOrdered(t) ==
  LET g == txs[t].grant
      G == GrantRow(g)
  IN /\ g \in Grants /\ grants[g].exists
     /\ \/ At(t, <<OrganizationRow, G>>, {})
        \/ At(t, <<G>>, {OrganizationRow})
        \/ At(t, <<>>, {OrganizationRow, G})

RequireOrdered(t) ==
  /\ txs[t].arg \in BOOLEAN
  /\ At(t, <<OrganizationRow>>, {}) \/ At(t, <<>>, {OrganizationRow})

Ordered(t) ==
  /\ txs[t].op = "REDEEM" => RedeemOrdered(t)
  /\ txs[t].op \in Lifecycle => LifecycleOrdered(t)
  /\ txs[t].op \in Revocations => RevocationOrdered(t)
  /\ txs[t].op = "CREATE" => CreateOrdered(t)
  /\ txs[t].op = "ASSIGN" => AssignOrdered(t)
  /\ txs[t].op \in Renewals => RenewalOrdered(t)
  /\ txs[t].op = "REQUIRE" => RequireOrdered(t)

\* A token that has been exchanged is older than the present one.
TokensSpent ==
  /\ used \in [Grants -> [0 .. MaxToken -> Nat]]
  /\ \A g \in Grants, n \in 0 .. MaxToken :
       used[g][n] <= 1 /\ (n >= grants[g].token => used[g][n] = 0)
  /\ sessions \in [Refreshes -> {Idle} \cup
                     [op: {"REFRESH"}, grant: Grants, token: 0 .. MaxToken]]
  /\ \A r \in Refreshes : sessions[r] # Idle => grants[sessions[r].grant].exists

DeviceInv ==
  /\ RowTypes /\ TxTypes /\ TokensSpent /\ Exclusive
  /\ \A t \in Txs : Ordered(t)
  /\ CurrentLinkUsable /\ RevocationComplete /\ RequirementHolds

-----------------------------------------------------------------------------
(* Rows, sequences and extremes.                                           *)

LEMMA RowsDiffer ==
  /\ \A g, h, i, j : LinkRow(g, i).row = LinkRow(h, j).row <=> g = h /\ i = j
  /\ \A g, h : GrantRow(g).row = GrantRow(h).row <=> g = h
  /\ \A g, i, h : LinkRow(g, i).row # GrantRow(h).row
  /\ \A g, i : /\ LinkRow(g, i).row \notin {GroupRow.row, OrganizationRow.row}
               /\ LinkRow(g, i).row[1] = "link" /\ LinkRow(g, i).row[2] = g
               /\ LinkRow(g, i).row[3] = i /\ LinkRow(g, i).mode = "UPDATE"
  /\ \A g : /\ GrantRow(g).row \notin {GroupRow.row, OrganizationRow.row}
            /\ GrantRow(g).row[1] = "grant" /\ GrantRow(g).row[2] = g
            /\ GrantRow(g).mode = "UPDATE"
  /\ GroupRow.row # OrganizationRow.row /\ AuditReference.row = OrganizationRow.row
  /\ GroupRow.row[1] = "group" /\ OrganizationRow.row[1] = "organization"
  /\ GroupRow.mode = "UPDATE" /\ OrganizationRow.mode = "NO KEY UPDATE"
  /\ AuditReference.mode = "KEY SHARE"
BY DEF LinkRow, GrantRow, GroupRow, OrganizationRow, AuditReference, Lock

LEMMA LocksDiffer ==
  /\ \A g, h, i, j : LinkRow(g, i) = LinkRow(h, j) <=> g = h /\ i = j
  /\ \A g, h : GrantRow(g) = GrantRow(h) <=> g = h
  /\ \A g, i, h : LinkRow(g, i) # GrantRow(h)
  /\ \A g, i : LinkRow(g, i) \notin {GroupRow, OrganizationRow, AuditReference}
  /\ \A g : GrantRow(g) \notin {GroupRow, OrganizationRow, AuditReference}
  /\ GroupRow \notin {OrganizationRow, AuditReference}
  /\ OrganizationRow # AuditReference
<1>1. \A g, h, i, j : LinkRow(g, i) = LinkRow(h, j) <=> g = h /\ i = j
  BY DEF LinkRow, GrantRow, Lock
<1>2. \A g, h : GrantRow(g) = GrantRow(h) <=> g = h
  BY DEF LinkRow, GrantRow, Lock
<1>3. \A g, i, h : LinkRow(g, i) # GrantRow(h)
  BY DEF LinkRow, GrantRow, Lock
<1>4. \A g, i : LinkRow(g, i) \notin {GroupRow, OrganizationRow, AuditReference}
  BY DEF LinkRow, GroupRow, OrganizationRow, AuditReference, Lock
<1>5. \A g : GrantRow(g) \notin {GroupRow, OrganizationRow, AuditReference}
  BY RowsDiffer
<1>6. GroupRow \notin {OrganizationRow, AuditReference} /\ OrganizationRow # AuditReference
  BY RowsDiffer
<1> QED BY <1>1, <1>2, <1>3, <1>4, <1>5, <1>6

LEMMA Short ==
  \A a, b, c :
    /\ Head(<<a>>) = a /\ Head(<<a, b>>) = a /\ Head(<<a, b, c>>) = a
    /\ Tail(<<a>>) = <<>> /\ Tail(<<a, b>>) = <<b>> /\ Tail(<<a, b, c>>) = <<b, c>>
    /\ <<>> \o <<>> = <<>> /\ <<>> \o <<a>> = <<a>> /\ <<a>> \o <<>> = <<a>>
    /\ <<a, b>> \o <<>> = <<a, b>> /\ <<a>> \o <<b>> = <<a, b>>
    /\ <<a>> # <<>> /\ <<a, b>> # <<>> /\ <<a, b, c>> # <<>>
<1> TAKE a, b, c
<1>1. <<a>> \o <<b>> = <<a, b>>
  <2>1. <<a>> \in Seq({a, b}) /\ <<b>> \in Seq({a, b}) /\ <<a, b>> \in Seq({a, b})
    OBVIOUS
  <2>2. /\ <<a>> \o <<b>> \in Seq({a, b}) /\ Len(<<a>> \o <<b>>) = 2
        /\ (<<a>> \o <<b>>)[1] = a /\ (<<a>> \o <<b>>)[2] = b
    BY <2>1, ConcatProperties
  <2>3. Len(<<a, b>>) = 2 /\ \A k \in 1 .. 2 : (<<a>> \o <<b>>)[k] = <<a, b>>[k]
    BY <2>2
  <2> QED BY <2>1, <2>2, <2>3, SeqEqual
<1>2. /\ Head(<<a>>) = a /\ Head(<<a, b>>) = a /\ Head(<<a, b, c>>) = a
      /\ <<a>> # <<>> /\ <<a, b>> # <<>> /\ <<a, b, c>> # <<>>
  OBVIOUS
<1>3. Tail(<<a>>) = <<>> /\ Tail(<<a, b>>) = <<b>> /\ Tail(<<a, b, c>>) = <<b, c>>
  OBVIOUS
<1>4. /\ <<>> \o <<>> = <<>> /\ <<>> \o <<a>> = <<a>> /\ <<a>> \o <<>> = <<a>>
      /\ <<a, b>> \o <<>> = <<a, b>>
  OBVIOUS
<1> QED BY <1>1, <1>2, <1>3, <1>4

LEMMA Walk ==
  ASSUME NEW g \in Grants, NEW n \in 0 .. MaxLinks
  PROVE  /\ LinksThenGrant(g, n) \in Seq(Locks)
         /\ LinksThenGrant(g, n) # <<>>
         /\ Head(LinksThenGrant(g, n)) = IF n = 0 THEN GrantRow(g) ELSE LinkRow(g, n)
         /\ n = 0 => Tail(LinksThenGrant(g, n)) = <<>>
         /\ n # 0 => Tail(LinksThenGrant(g, n)) = LinksThenGrant(g, n - 1)
         /\ LinksThenGrant(g, n) \o <<>> = LinksThenGrant(g, n)
<1>0. MaxLinks \in Nat
  BY DeviceAssumption
<1>1. \A k \in 1 .. n + 1 : (IF k <= n THEN LinkRow(g, n + 1 - k) ELSE GrantRow(g)) \in Locks
  BY <1>0 DEF Locks
<1> DEFINE s == LinksThenGrant(g, n)
<1>2. s \in Seq(Locks) /\ Len(s) = n + 1 /\ DOMAIN s = 1 .. n + 1
  BY <1>0, <1>1 DEF LinksThenGrant
<1>3. Head(s) = IF n = 0 THEN GrantRow(g) ELSE LinkRow(g, n)
  BY <1>0, <1>2 DEF LinksThenGrant
<1>4. s # <<>> /\ s \o <<>> = s
  BY <1>0, <1>2
<1>5. Tail(s) \in Seq(Locks) /\ Len(Tail(s)) = n /\ DOMAIN Tail(s) = 1 .. n
      /\ \A k \in 1 .. n : Tail(s)[k] = s[k + 1]
  BY <1>0, <1>2, <1>4
<1>6. n = 0 => Tail(s) = <<>>
  BY <1>5
<1>7. n # 0 => Tail(s) = LinksThenGrant(g, n - 1)
  <2> SUFFICES ASSUME n # 0
               PROVE  Tail(s) = LinksThenGrant(g, n - 1)
    OBVIOUS
  <2>1. \A k \in 1 .. n :
          (IF k <= n - 1 THEN LinkRow(g, n - k) ELSE GrantRow(g)) \in Locks
    BY <1>0 DEF Locks
  <2>2. /\ LinksThenGrant(g, n - 1) \in Seq(Locks)
        /\ Len(LinksThenGrant(g, n - 1)) = n
    BY <1>0, <2>1 DEF LinksThenGrant
  <2>3. \A k \in 1 .. n : Tail(s)[k] = LinksThenGrant(g, n - 1)[k]
    BY <1>0, <1>5 DEF LinksThenGrant
  <2> HIDE DEF s
  <2> QED BY <1>5, <2>2, <2>3, SeqEqual
<1> QED BY <1>2, <1>3, <1>4, <1>6, <1>7

\* A finite set of numbers has a least and a greatest one.
LEMMA Extremes ==
  ASSUME NEW S, IsFiniteSet(S), S \subseteq Nat, S # {}
  PROVE  /\ \E m \in S : /\ \A k \in S : m <= k
                        /\ m = CHOOSE h \in S : \A k \in S : h <= k
         /\ \E m \in S : /\ \A k \in S : k <= m
                        /\ m = CHOOSE i \in S : \A j \in S : j <= i
<1>1. IsWellFoundedOn(StrictSubsetOrdering(S), FiniteSubsetsOf(S))
  BY FS_StrictSubsetOrderingWellFounded
<1>2. \A T \in SUBSET S : T \in FiniteSubsetsOf(S)
  BY FS_Subset DEF FiniteSubsetsOf
<1>3. \E m \in S : \A k \in S : m <= k
  <2> DEFINE Below(m) == {k \in S : k < m}
             W == {Below(m) : m \in S}
  <2>1. W \subseteq FiniteSubsetsOf(S) /\ W # {}
    BY <1>2
  <2>2. PICK X \in W : \A Y \in W : ~ (<<Y, X>> \in StrictSubsetOrdering(S))
    BY <1>1, <2>1, WFMin
  <2>3. PICK m \in S : X = Below(m)
    OBVIOUS
  <2>4. ASSUME NEW k \in S, k < m PROVE FALSE
    <3>0. \A x, y, z \in Nat : ~ x < x /\ (x < y /\ y < z => x < z)
      OBVIOUS
    <3>1. Below(k) \subseteq Below(m) /\ k \in Below(m) /\ k \notin Below(k)
      BY <2>4, <3>0
    <3>2. <<Below(k), X>> \in StrictSubsetOrdering(S)
      BY <2>3, <3>1 DEF StrictSubsetOrdering
    <3> QED BY <2>2, <3>2
  <2> QED BY <2>4
<1>4. \E m \in S : \A k \in S : k <= m
  <2> DEFINE Above(m) == {k \in S : m < k}
             W == {Above(m) : m \in S}
  <2>1. W \subseteq FiniteSubsetsOf(S) /\ W # {}
    BY <1>2
  <2>2. PICK X \in W : \A Y \in W : ~ (<<Y, X>> \in StrictSubsetOrdering(S))
    BY <1>1, <2>1, WFMin
  <2>3. PICK m \in S : X = Above(m)
    OBVIOUS
  <2>4. ASSUME NEW k \in S, m < k PROVE FALSE
    <3>0. \A x, y, z \in Nat : ~ x < x /\ (x < y /\ y < z => x < z)
      OBVIOUS
    <3>1. Above(k) \subseteq Above(m) /\ k \in Above(m) /\ k \notin Above(k)
      BY <2>4, <3>0
    <3>2. <<Above(k), X>> \in StrictSubsetOrdering(S)
      BY <2>3, <3>1 DEF StrictSubsetOrdering
    <3> QED BY <2>2, <3>2
  <2> QED BY <2>4
<1>5. \E m \in S : /\ \A k \in S : m <= k
                   /\ m = CHOOSE h \in S : \A k \in S : h <= k
  BY <1>3, Zenon
<1>6. \E m \in S : /\ \A k \in S : k <= m
                   /\ m = CHOOSE i \in S : \A j \in S : j <= i
  BY <1>4, Zenon
<1> QED BY <1>5, <1>6


-----------------------------------------------------------------------------
(* A transaction begins, takes a lock, ends.                               *)

Args == BOOLEAN \cup [link: 1 .. MaxLinks, installation: Installations]

Tx == [op: Ops, grant: Grants \cup {0}, arg: Args, want: Seq(Locks), held: SUBSET Locks]

LEMMA TxRow ==
  ASSUME TxTypes, NEW t \in Txs
  PROVE  /\ txs[t] # Idle => txs[t] \in Tx /\ Held(t) = txs[t].held
         /\ txs[t] = Idle => txs[t].op \notin Ops /\ Held(t) = {}
         /\ txs[t] # Idle <=> txs[t].op \in Ops
<1>1. Idle.op = "IDLE" /\ "IDLE" \notin Ops
  BY DEF Idle, Ops, Lifecycle, Revocations, Renewals
<1>2. txs[t] \in {Idle} \cup Tx
  BY DEF TxTypes, Tx, Args
<1>3. \A x \in Tx : x.op \in Ops
  BY DEF Tx
<1> QED BY <1>1, <1>2, <1>3 DEF Held

LEMMA Begun ==
  ASSUME TxTypes, NEW t \in Txs, NEW op \in Ops, NEW g \in Grants \cup {0},
         NEW arg \in Args, NEW want \in Seq(Locks), Start(t, op, g, arg, want)
  PROVE  /\ TxTypes' /\ txs[t] = Idle /\ txs'[t].op = op /\ txs'[t].grant = g
         /\ txs'[t].arg = arg /\ txs'[t].want = want /\ txs'[t].held = {}
         /\ Held(t)' = {} /\ \A u \in Txs \ {t} : txs'[u] = txs[u]
<1> DEFINE x == [op |-> op, grant |-> g, arg |-> arg, want |-> want, held |-> {}]
<1>1. x \in Tx
  BY DEF Tx
<1>2. /\ x.op = op /\ x.grant = g /\ x.arg = arg /\ x.want = want /\ x.held = {}
  OBVIOUS
<1>3. txs' = [txs EXCEPT ![t] = x] /\ txs[t] = Idle
  BY DEF Start
<1> HIDE DEF x
<1>4. txs \in [Txs -> {Idle} \cup Tx]
  BY DEF TxTypes, Tx, Args
<1>5. txs' \in [Txs -> {Idle} \cup Tx]
  BY <1>1, <1>3, <1>4
<1> QED BY <1>2, <1>3, <1>4, <1>5 DEF TxTypes, Tx, Args, Held

LEMMA NewestType ==
  ASSUME NEW g \in Grants, NEW I \in SUBSET (1 .. MaxLinks)
  PROVE  /\ NewestOf(g, I) \in Seq(Locks)
         /\ I = {} => NewestOf(g, I) = <<>>
         /\ I # {} => \E i \in I : NewestOf(g, I) = <<LinkRow(g, i)>>
<1>1. CASE I = {}
  BY <1>1 DEF NewestOf
<1>2. CASE I # {}
  <2>1. IsFiniteSet(I) /\ I \subseteq Nat
    <3>1. IsFiniteSet(1 .. MaxLinks)
      BY DeviceAssumption, FS_Interval
    <3>2. IsFiniteSet(I)
      BY <3>1, FS_Subset
    <3>3. 1 .. MaxLinks \subseteq Nat
      BY DeviceAssumption
    <3> QED BY <3>2, <3>3
  <2>2. PICK i \in I : i = CHOOSE k \in I : \A j \in I : j <= k
    BY <1>2, <2>1, Extremes
  <2>3. NewestOf(g, I) = <<LinkRow(g, i)>>
    BY <1>2, <2>2 DEF NewestOf
  <2>4. LinkRow(g, i) \in Locks
    BY DEF Locks
  <2> QED BY <1>2, <2>3, <2>4
<1> QED BY <1>1, <1>2

LEMMA LinkNumbers ==
  ASSUME RowTypes, NEW g \in Grants
  PROVE  /\ Len(links[g]) \in 0 .. MaxLinks /\ DOMAIN links[g] = 1 .. Len(links[g])
         /\ DOMAIN links[g] \subseteq 1 .. MaxLinks
         /\ CurrentLinks(g) \subseteq DOMAIN links[g]
BY DeviceAssumption DEF RowTypes, CurrentLinks

LEMMA LockKinds ==
  ASSUME NEW l \in Locks
  PROVE  /\ l.row[1] = "grant" => l.row[2] \in Grants /\ l = GrantRow(l.row[2])
         /\ l.row[1] = "link" => \E g \in Grants, i \in 1 .. MaxLinks : l = LinkRow(g, i)
<1>1. CASE l \in {OrganizationRow, AuditReference, GroupRow}
  BY <1>1, RowsDiffer
<1>2. ASSUME NEW g \in Grants, l = GrantRow(g)
      PROVE  l.row[1] = "grant" /\ l.row[2] = g
  BY <1>2, RowsDiffer
<1>3. ASSUME NEW g \in Grants, NEW i \in 1 .. MaxLinks, l = LinkRow(g, i)
      PROVE  l.row[1] = "link"
  <2>1. LinkRow(g, i).row[1] = "link"
    BY DEF LinkRow, Lock
  <2> QED BY <1>3, <2>1
<1> QED BY <1>1, <1>2, <1>3 DEF Locks

\* The next grant of the group, after g.
LEMMA Next ==
  ASSUME RowTypes, NEW g \in Nat
  PROVE  \/ LiveAfter(g) = {} /\ NextOfGroup(g) = <<AuditReference>>
         \/ \E h \in LiveAfter(g) :
              /\ h \in Grants /\ \A k \in LiveAfter(g) : h <= k
              /\ NextOfGroup(g) = LinksThenGrant(h, Len(links[h]))
<1>1. LiveAfter(g) \subseteq Grants /\ IsFiniteSet(LiveAfter(g)) /\ LiveAfter(g) \subseteq Nat
  BY DeviceAssumption, FS_Subset DEF LiveAfter
<1>2. CASE LiveAfter(g) = {}
  BY <1>2 DEF NextOfGroup
<1>3. CASE LiveAfter(g) # {}
  <2>1. PICK h \in LiveAfter(g) : /\ h = CHOOSE m \in LiveAfter(g) : \A k \in LiveAfter(g) : m <= k
                                  /\ \A k \in LiveAfter(g) : h <= k
    BY <1>1, <1>3, Extremes
  <2>2. NextOfGroup(g) = LinksThenGrant(h, Len(links[h]))
    BY <1>3, <2>1 DEF NextOfGroup
  <2> QED BY <1>1, <2>1, <2>2
<1> QED BY <1>2, <1>3

\* What follows each lock.
LEMMA Follows ==
  ASSUME NEW t, NEW l
  PROVE  LET op == txs[t].op
         IN  /\ op \in Revocations /\ l = GroupRow => Following(t, l) = NextOfGroup(0)
             /\ op \in Revocations /\ l.row[1] = "grant" =>
                  Following(t, l) = NextOfGroup(l.row[2])
             /\ op \in Lifecycle /\ l.row[1] = "grant" =>
                  Following(t, l) = NewestOf(l.row[2], NotHeld(t, l.row[2])) \o <<AuditReference>>
             /\ op = "REDEEM" /\ l.row[1] = "grant" => Following(t, l) = <<AuditReference>>
             /\ op \notin Lifecycle \cup Revocations \cup {"REDEEM"} => Following(t, l) = <<>>
             /\ l.row[1] # "grant" /\ l # GroupRow => Following(t, l) = <<>>
             /\ op \notin Revocations /\ l.row[1] # "grant" => Following(t, l) = <<>>
<1>1. GroupRow.row[1] # "grant"
  BY RowsDiffer
<1> QED BY <1>1 DEF Following, Lifecycle, Revocations

LEMMA FollowingType ==
  ASSUME RowTypes, TxTypes, NEW t \in Txs, NEW l \in Locks
  PROVE  Following(t, l) \in Seq(Locks)
<1>1. AuditReference \in Locks /\ <<>> \in Seq(Locks) /\ <<AuditReference>> \in Seq(Locks)
  BY DEF Locks
<1>2. ASSUME NEW g \in Nat PROVE NextOfGroup(g) \in Seq(Locks)
  BY <1>1, Next, LinkNumbers, Walk
<1>3. ASSUME NEW g \in Grants
      PROVE  NewestOf(g, NotHeld(t, g)) \o <<AuditReference>> \in Seq(Locks)
  <2>1. NotHeld(t, g) \subseteq 1 .. MaxLinks
    BY LinkNumbers DEF NotHeld
  <2> QED BY <1>1, <2>1, NewestType, ConcatProperties
<1>4. l.row[1] = "grant" => l.row[2] \in Grants /\ l.row[2] \in Nat
  BY LockKinds, DeviceAssumption
<1> QED BY <1>1, <1>2, <1>3, <1>4, Follows

LEMMA Acquired ==
  ASSUME RowTypes, TxTypes, NEW t \in Txs, Acquire(t)
  PROVE  LET l == Head(txs[t].want)
         IN  /\ TxTypes' /\ txs[t] # Idle /\ txs'[t] # Idle /\ l \in Locks
             /\ txs[t].want # <<>>
             /\ txs'[t].op = txs[t].op /\ txs'[t].grant = txs[t].grant
             /\ txs'[t].arg = txs[t].arg
             /\ txs'[t].want = Tail(txs[t].want) \o Following(t, l)
             /\ txs'[t].held = IF Gone(t, l) THEN txs[t].held ELSE txs[t].held \cup {l}
             /\ Held(t)' = txs'[t].held
             /\ \A u \in Txs \ {t} : txs'[u] = txs[u]
<1> DEFINE l == Head(txs[t].want)
           w == Tail(txs[t].want) \o Following(t, l)
           H == IF Gone(t, l) THEN txs[t].held ELSE txs[t].held \cup {l}
           x == [[txs[t] EXCEPT !.held = H] EXCEPT !.want = w]
<1>1. txs[t] # Idle /\ txs[t] \in Tx /\ txs[t].want # <<>>
  BY TxRow DEF Acquire
<1>2. txs[t].want \in Seq(Locks) /\ txs[t].held \subseteq Locks
  BY <1>1 DEF Tx
<1>3. l \in Locks /\ Tail(txs[t].want) \in Seq(Locks)
  BY <1>1, <1>2, HeadTailProperties
<1>4. w \in Seq(Locks)
  BY <1>3, FollowingType, ConcatProperties
<1>5. H \subseteq Locks
  BY <1>2, <1>3
<1>6. txs' = [txs EXCEPT ![t] = x]
  BY DEF Acquire
<1>7. /\ x \in Tx /\ x.op = txs[t].op /\ x.grant = txs[t].grant /\ x.arg = txs[t].arg
      /\ x.want = w /\ x.held = H
  <2> HIDE DEF w, H
  <2> QED BY <1>1, <1>4, <1>5 DEF Tx
<1>8. txs \in [Txs -> {Idle} \cup Tx]
  BY DEF TxTypes, Tx, Args
<1> HIDE DEF x, w, H, l
<1>9. txs' \in [Txs -> {Idle} \cup Tx] /\ txs'[t] = x
  BY <1>6, <1>7, <1>8
<1>10. TxTypes'
  BY <1>9 DEF TxTypes, Tx, Args
<1>11. x # Idle
  <2>1. \A y \in Tx : y.op \in Ops
    BY DEF Tx
  <2> QED BY <1>7, <2>1 DEF Idle, Ops, Lifecycle, Revocations, Renewals
<1>12. Held(t)' = x.held
  BY <1>9, <1>11 DEF Held
<1> QED BY <1>1, <1>3, <1>6, <1>7, <1>8, <1>9, <1>10, <1>11, <1>12 DEF x, w, H, l

LEMMA Ended ==
  ASSUME TxTypes, NEW t \in Txs, txs' = [txs EXCEPT ![t] = Idle]
  PROVE  /\ TxTypes' /\ txs'[t] = Idle /\ Held(t)' = {}
         /\ \A u \in Txs \ {t} : txs'[u] = txs[u]
BY DEF TxTypes, Held


-----------------------------------------------------------------------------
(* Conflicting locks have one holder.                                      *)

LEMMA Alone ==
  ASSUME Exclusive, NEW t \in Txs, NEW u \in Txs, NEW l, l \in Held(t), l \in Held(u),
         l.mode \in {"UPDATE", "NO KEY UPDATE"}
  PROVE  t = u
BY DEF Exclusive, Conflict

LEMMA AloneRows ==
  ASSUME Exclusive, NEW t \in Txs, NEW u \in Txs, t # u
  PROVE  /\ GroupRow \in Held(t) => GroupRow \notin Held(u)
         /\ OrganizationRow \in Held(t) => OrganizationRow \notin Held(u)
         /\ \A g \in Grants : GrantRow(g) \in Held(t) => GrantRow(g) \notin Held(u)
         /\ \A g \in Grants, i \in 1 .. MaxLinks :
              LinkRow(g, i) \in Held(t) => LinkRow(g, i) \notin Held(u)
<1>1. \A g, i : LinkRow(g, i).mode = "UPDATE"
  BY DEF LinkRow, Lock
<1>2. /\ GroupRow.mode = "UPDATE" /\ OrganizationRow.mode = "NO KEY UPDATE"
      /\ \A g : GrantRow(g).mode = "UPDATE"
  BY RowsDiffer
<1>3. \A l : l.mode \in {"UPDATE", "NO KEY UPDATE"} /\ l \in Held(t) => l \notin Held(u)
  BY Alone
<1> QED BY <1>1, <1>2, <1>3

LEMMA ExclusiveLess ==
  ASSUME Exclusive, \A u \in Txs : Held(u)' \subseteq Held(u)
  PROVE  Exclusive'
BY DEF Exclusive

LEMMA ExclusiveAcquire ==
  ASSUME RowTypes, TxTypes, Exclusive, NEW t \in Txs, Acquire(t)
  PROVE  Exclusive'
<1> DEFINE l == Head(txs[t].want)
<1>1. /\ txs[t] # Idle /\ txs[t].want # <<>> /\ Held(t)' \subseteq Held(t) \cup {l}
      /\ \A u \in Txs \ {t} : txs'[u] = txs[u] /\ Held(u)' = Held(u)
  BY Acquired DEF Held
<1>2. ASSUME NEW u \in Txs \ {t}, NEW m \in Held(u), l.row = m.row
      PROVE  ~Conflict(l.mode, m.mode) /\ ~Conflict(m.mode, l.mode)
  <2>1. txs[u] # Idle /\ m \in txs[u].held
    BY <1>2 DEF Held
  <2>2. ~WaitsFor(t, u)
    BY DEF Acquire
  <2>3. ~Conflict(m.mode, l.mode)
    BY <1>1, <1>2, <2>1, <2>2 DEF WaitsFor
  <2> QED BY <2>3 DEF Conflict
<1> HIDE DEF l
<1> SUFFICES ASSUME NEW a \in Txs, NEW b \in Txs, a # b, NEW x \in Held(a)',
                    NEW y \in Held(b)', x.row = y.row
             PROVE  ~Conflict(x.mode, y.mode)
  BY DEF Exclusive
<1>3. CASE a = t
  BY <1>1, <1>2, <1>3 DEF Exclusive
<1>4. CASE b = t
  BY <1>1, <1>2, <1>4 DEF Exclusive
<1>5. CASE a # t /\ b # t
  BY <1>1, <1>5 DEF Exclusive
<1> QED BY <1>3, <1>4, <1>5

-----------------------------------------------------------------------------
(* What a transaction has read under its locks stays as it is.             *)

\* The grants a transaction has locked are there.
LEMMA HeldExists ==
  ASSUME RowTypes, TxTypes, NEW u \in Txs, Ordered(u),
         NEW g \in Grants, GrantRow(g) \in Held(u)
  PROVE  grants[g].exists
<1>1. txs[u].op \in Ops /\ Held(u) = txs[u].held
  BY TxRow
<1>2. CASE txs[u].op = "REDEEM"
  <2>1. RedeemOrdered(u)
    BY <1>2 DEF Ordered
  <2>2. txs[u].grant = g
    BY <1>1, <2>1, LocksDiffer DEF RedeemOrdered, At
  <2>3. links[g] # <<>>
    BY <2>1, <2>2 DEF RedeemOrdered
  <2> QED BY <2>3 DEF RowTypes
<1>3. CASE txs[u].op \in Lifecycle
  <2>1. LifecycleOrdered(u)
    BY <1>3 DEF Ordered
  <2>2. \A i : GrantRow(g) \notin CurrentRows(txs[u].grant)
    BY LocksDiffer DEF CurrentRows
  <2>3. txs[u].grant = g
    BY <1>1, <2>1, <2>2, LocksDiffer DEF LifecycleOrdered, At
  <2> QED BY <2>1, <2>3 DEF LifecycleOrdered
<1>4. CASE txs[u].op \in Revocations
  <2>1. RevocationOrdered(u)
    BY <1>4 DEF Ordered
  <2> QED BY <1>1, <2>1 DEF RevocationOrdered, GrantsWithLinks, At
<1>5. CASE txs[u].op = "CREATE"
  <2>1. CreateOrdered(u)
    BY <1>5 DEF Ordered
  <2> QED BY <1>1, <2>1, LocksDiffer DEF CreateOrdered, At
<1>6. CASE txs[u].op = "ASSIGN"
  <2>1. AssignOrdered(u)
    BY <1>6 DEF Ordered
  <2> QED BY <1>1, <2>1, LocksDiffer DEF AssignOrdered, At
<1>7. CASE txs[u].op \in Renewals
  <2>1. RenewalOrdered(u)
    BY <1>7 DEF Ordered
  <2> QED BY <1>1, <2>1, LocksDiffer DEF RenewalOrdered, At
<1>8. CASE txs[u].op = "REQUIRE"
  <2>1. RequireOrdered(u)
    BY <1>8 DEF Ordered
  <2> QED BY <1>1, <2>1, LocksDiffer DEF RequireOrdered, At
<1> QED BY <1>1, <1>2, <1>3, <1>4, <1>5, <1>6, <1>7, <1>8 DEF Ops

\* The rows that a transaction u has locked, or is about to create, are changed
\* by nobody else.
Undisturbed(u) ==
  /\ \A g \in Grants : grants[g].exists => grants'[g].exists
  /\ \A g \in Grants : Len(links[g]) <= Len(links'[g])
  /\ \A g \in Grants : \A i \in CurrentLinks(g) :
       LinkRow(g, i) \in Held(u) => i \in CurrentLinks(g)'
  /\ \A g \in Grants : GrantRow(g) \in Held(u) => CurrentLinks(g)' \subseteq CurrentLinks(g)
  /\ GroupRow \in Held(u) => \A g \in Grants : LiveGrouped(g)' => LiveGrouped(g)
  /\ txs[u].op = "CREATE" =>
       /\ grants'[txs[u].grant].exists = grants[txs[u].grant].exists
       /\ \A v \in Txs \ {u} : txs'[v].op = "CREATE" /\ txs'[v].grant = txs[u].grant =>
            txs'[v].op = txs[v].op /\ txs'[v].grant = txs[v].grant

LEMMA StillOrdered ==
  ASSUME RowTypes, RowTypes', TxTypes, NEW u \in Txs, Ordered(u),
         txs'[u] = txs[u], Undisturbed(u)
  PROVE  Ordered(u)'
<1>0. txs[u] # Idle => Held(u) = txs[u].held
  BY TxRow
<1>1. \A g \in Grants : DOMAIN links[g] \subseteq DOMAIN links'[g]
  <2> TAKE g \in Grants
  <2>1. links[g] \in Seq(LinkStates) /\ links'[g] \in Seq(LinkStates)
    BY DEF RowTypes
  <2>2. Len(links[g]) <= Len(links'[g])
    BY DEF Undisturbed
  <2> QED BY <2>1, <2>2
<1>2. \A g \in Grants : grants[g].exists => grants'[g].exists
  BY DEF Undisturbed
<1>3. CASE txs[u].op = "REDEEM"
  <2>1. RedeemOrdered(u)
    BY <1>3 DEF Ordered
  <2>2. RedeemOrdered(u)'
    BY <1>1, <2>1 DEF RedeemOrdered, At
  <2> QED BY <1>3, <2>2 DEF Ordered, Lifecycle, Revocations, Renewals
<1>4. CASE txs[u].op \in Lifecycle
  <2> DEFINE g == txs[u].grant
             H == txs[u].held
  <2>1. LifecycleOrdered(u) /\ g \in Grants /\ grants[g].exists /\ H = Held(u)
    BY <1>0, <1>4, TxRow DEF Ordered, LifecycleOrdered, Ops
  <2>2. GrantRow(g) \in H /\ CurrentRows(g) \subseteq H => CurrentRows(g)' = CurrentRows(g)
    BY <2>1 DEF CurrentRows, Undisturbed
  <2>3. \A i \in CurrentLinks(g) : LinkRow(g, i) \in H => i \in CurrentLinks(g)'
    BY <2>1 DEF Undisturbed
  <2>4. LifecycleOrdered(u)'
    <3>1. CASE \E i \in DOMAIN links[g] : At(u, <<LinkRow(g, i), GrantRow(g)>>, {})
      BY <1>1, <1>2, <2>1, <3>1 DEF LifecycleOrdered, At
    <3>2. CASE At(u, <<GrantRow(g)>>, {})
      BY <1>2, <2>1, <3>2 DEF LifecycleOrdered, At
    <3>3. CASE \E i \in CurrentLinks(g) : At(u, <<GrantRow(g)>>, {LinkRow(g, i)})
      BY <1>2, <2>1, <2>3, <3>3 DEF LifecycleOrdered, At
    <3>4. CASE \/ At(u, <<AuditReference>>, {GrantRow(g)} \cup CurrentRows(g))
               \/ At(u, <<>>, {GrantRow(g), AuditReference} \cup CurrentRows(g))
      BY <1>2, <2>1, <2>2, <3>4 DEF LifecycleOrdered, At
    <3> QED BY <2>1, <3>1, <3>2, <3>3, <3>4 DEF LifecycleOrdered
  <2> QED BY <1>4, <2>4 DEF Ordered, Lifecycle, Revocations, Renewals
<1>5. CASE txs[u].op \in Revocations
  <2> DEFINE H == txs[u].held
  <2> SUFFICES RevocationOrdered(u)'
    BY <1>5 DEF Ordered, Lifecycle, Revocations, Renewals
  <2>1. RevocationOrdered(u) /\ H = Held(u) /\ H' = H
    BY <1>0, <1>5, TxRow DEF Ordered, Ops
  <2>2. CASE At(u, <<GroupRow>>, {})
    <3>1. At(u, <<GroupRow>>, {})'
      BY <2>2 DEF At
    <3> QED BY <3>1 DEF RevocationOrdered
  <2>3. CASE ~At(u, <<GroupRow>>, {})
    <3>1. GroupRow \in H /\ \A g \in Grants : LiveGrouped(g)' => LiveGrouped(g)
      BY <2>1, <2>3 DEF RevocationOrdered, Undisturbed
    <3>2. GrantsWithLinks(u)'
      <4> SUFFICES ASSUME NEW k \in Grants, GrantRow(k) \in H
                   PROVE  grants'[k].exists /\ CurrentRows(k)' \subseteq H
        BY <2>1 DEF GrantsWithLinks
      <4>1. grants[k].exists /\ CurrentRows(k) \subseteq H
        BY <2>1, <2>3 DEF RevocationOrdered, GrantsWithLinks
      <4>2. CurrentLinks(k)' \subseteq CurrentLinks(k)
        BY <2>1 DEF Undisturbed
      <4> QED BY <1>2, <4>1, <4>2 DEF CurrentRows
    <3>3. ASSUME NEW h \in Grants, NEW n \in 0 .. Len(links[h]), Walking(u, h, n)
          PROVE  n \in 0 .. Len(links'[h]) /\ Walking(u, h, n)'
      <4>1. n \in 0 .. Len(links'[h])
        BY LinkNumbers, DeviceAssumption DEF Undisturbed, RowTypes
      <4>2. \A k \in Grants : k < h /\ LiveGrouped(k)' => GrantRow(k) \in H
        BY <3>1, <3>3 DEF Walking
      <4> QED BY <1>2, <3>3, <4>1, <4>2 DEF Walking, LinksThenGrant, Behind
    <3>4. Walked(u) => Walked(u)'
      BY <3>1 DEF Walked
    <3>5. \/ \E h \in Grants : \E n \in 0 .. Len(links[h]) : Walking(u, h, n)
          \/ Walked(u)
      BY <2>1, <2>3 DEF RevocationOrdered
    <3>6. \/ \E h \in Grants : \E n \in 0 .. Len(links'[h]) : Walking(u, h, n)'
          \/ Walked(u)'
      BY <3>3, <3>4, <3>5
    <3> QED BY <2>1, <3>1, <3>2, <3>6 DEF RevocationOrdered
  <2> QED BY <2>2, <2>3
<1>6. CASE txs[u].op = "CREATE"
  <2>1. CreateOrdered(u)
    BY <1>6 DEF Ordered
  <2>2. CreateOrdered(u)'
    BY <1>6, <2>1 DEF CreateOrdered, At, Undisturbed, CreateOrder
  <2> QED BY <1>6, <2>2 DEF Ordered, Lifecycle, Revocations, Renewals
<1>7. CASE txs[u].op = "ASSIGN"
  <2>1. AssignOrdered(u)'
    BY <1>2, <1>7 DEF Ordered, AssignOrdered, At
  <2> QED BY <1>7, <2>1 DEF Ordered, Lifecycle, Revocations, Renewals
<1>8. CASE txs[u].op \in Renewals
  <2>1. RenewalOrdered(u)'
    BY <1>2, <1>8 DEF Ordered, RenewalOrdered, At
  <2> QED BY <1>8, <2>1 DEF Ordered, Lifecycle, Revocations, Renewals
<1>9. CASE txs[u].op = "REQUIRE"
  <2>1. RequireOrdered(u)'
    BY <1>9 DEF Ordered, RequireOrdered, At
  <2> QED BY <1>9, <2>1 DEF Ordered, Lifecycle, Revocations, Renewals
<1>10. CASE txs[u].op \notin Ops
  BY <1>10 DEF Ordered, Ops
<1> QED BY <1>3, <1>4, <1>5, <1>6, <1>7, <1>8, <1>9, <1>10 DEF Ops


-----------------------------------------------------------------------------
(* A transaction begins.                                                   *)

LEMMA RowsSame ==
  ASSUME UNCHANGED <<grants, links>>, NEW u \in Txs,
         txs[u].op = "CREATE" => \A v \in Txs \ {u} :
           txs'[v].op = "CREATE" /\ txs'[v].grant = txs[u].grant =>
             txs'[v].op = txs[v].op /\ txs'[v].grant = txs[v].grant
  PROVE  Undisturbed(u)
BY DEF Undisturbed, CurrentLinks, LiveGrouped

\* What does not speak of the transactions.
RowsInv ==
  /\ RowTypes /\ TokensSpent
  /\ CurrentLinkUsable /\ RevocationComplete /\ RequirementHolds

LEMMA RowsInvSame ==
  ASSUME RowsInv, UNCHANGED <<grants, links, place, sessions, used>>
  PROVE  RowsInv'
<1>1. RowTypes' /\ TokensSpent'
  BY DEF RowsInv, RowTypes, TokensSpent
<1>2. CurrentLinkUsable'
  BY DEF RowsInv, CurrentLinkUsable, CurrentLinks
<1>3. RevocationComplete'
  BY DEF RowsInv, RevocationComplete, DeletedDeviceRevoked, ArchivedGroupLeavesNoGrant
<1>4. RequirementHolds'
  BY DEF RowsInv, RequirementHolds, Ungrouped, GrantFailed, GrantStatus
<1> QED BY <1>1, <1>2, <1>3, <1>4 DEF RowsInv

LEMMA BeginInv ==
  ASSUME DeviceInv, NEW t \in Txs, NEW op \in Ops, NEW g \in Grants \cup {0},
         NEW arg \in Args, NEW want \in Seq(Locks), Start(t, op, g, arg, want),
         op = "CREATE" => \A u \in Txs : txs[u].op # "CREATE" \/ txs[u].grant # g,
         Ordered(t)'
  PROVE  DeviceInv'
<1>1. /\ TxTypes' /\ Held(t)' = {} /\ \A u \in Txs \ {t} : txs'[u] = txs[u]
      /\ txs'[t].op = op /\ txs'[t].grant = g
  BY Begun DEF DeviceInv
<1>2. RowsInv'
  BY RowsInvSame DEF DeviceInv, RowsInv, Start
<1>3. Exclusive'
  BY <1>1, ExclusiveLess DEF DeviceInv, Held
<1>4. ASSUME NEW u \in Txs \ {t}
      PROVE  Ordered(u)'
  <2>1. Undisturbed(u)
    BY <1>1, RowsSame DEF Start
  <2> QED BY <1>1, <1>2, <2>1, StillOrdered DEF DeviceInv, RowsInv
<1> QED BY <1>1, <1>2, <1>3, <1>4 DEF DeviceInv, RowsInv

LEMMA ShortLocks ==
  /\ \A a \in Locks : <<a>> \in Seq(Locks)
  /\ \A a, b \in Locks : <<a, b>> \in Seq(Locks)
  /\ \A a, b, c \in Locks : <<a, b, c>> \in Seq(Locks)
  /\ {GroupRow, OrganizationRow, AuditReference} \subseteq Locks
  /\ \A g \in Grants : GrantRow(g) \in Locks
  /\ \A g \in Grants, i \in 1 .. MaxLinks : LinkRow(g, i) \in Locks
<1>1. /\ {GroupRow, OrganizationRow, AuditReference} \subseteq Locks
      /\ \A g \in Grants : GrantRow(g) \in Locks
      /\ \A g \in Grants, i \in 1 .. MaxLinks : LinkRow(g, i) \in Locks
  BY DEF Locks
<1> QED BY <1>1

LEMMA BeginRedeemInv ==
  ASSUME DeviceInv, NEW t \in Txs, NEW g \in Grants, NEW i \in 1 .. MaxLinks,
         NEW d \in Installations, BeginRedeem(t, g, i, d)
  PROVE  DeviceInv'
<1>0. TxTypes
  BY DEF DeviceInv
<1> DEFINE arg == [link |-> i, installation |-> d]
           want == <<LinkRow(g, i), GrantRow(g)>>
<1>1. /\ arg \in Args /\ want \in Seq(Locks) /\ "REDEEM" \in Ops /\ g \in Grants \cup {0}
      /\ arg \in [link: 1 .. MaxLinks, installation: Installations] /\ arg.link = i
  BY ShortLocks DEF Args, Ops
<1>2. Start(t, "REDEEM", g, arg, want) /\ i \in DOMAIN links[g]
  BY DEF BeginRedeem, RedeemOrder
<1> HIDE DEF arg, want
<1>3. /\ txs'[t].op = "REDEEM" /\ txs'[t].grant = g
      /\ txs'[t].arg = arg /\ txs'[t].want = want /\ txs'[t].held = {}
  BY <1>1, <1>2, <1>0, Begun
<1>4. RedeemOrdered(t)'
  BY <1>1, <1>2, <1>3 DEF RedeemOrdered, At, Start, want
<1>5. Ordered(t)'
  BY <1>3, <1>4 DEF Ordered, Lifecycle, Revocations, Renewals
<1> QED BY <1>1, <1>2, <1>5, BeginInv

LEMMA BeginLifecycleInv ==
  ASSUME DeviceInv, NEW t \in Txs, NEW op \in Lifecycle, NEW g \in Grants,
         BeginLifecycle(t, op, g)
  PROVE  DeviceInv'
<1>0. TxTypes
  BY DEF DeviceInv
<1> DEFINE want == CurrentFirst(g) \o <<GrantRow(g)>>
<1>1. RowTypes /\ g \in Grants \cup {0} /\ op \in Ops /\ FALSE \in Args
  BY DEF DeviceInv, Ops, Args
<1>2. /\ CurrentLinks(g) \subseteq DOMAIN links[g]
      /\ CurrentLinks(g) \subseteq 1 .. MaxLinks
  BY <1>1, LinkNumbers
<1>3. \/ want = <<GrantRow(g)>>
      \/ \E i \in CurrentLinks(g) : want = <<LinkRow(g, i), GrantRow(g)>>
  <2>1. CASE CurrentLinks(g) = {}
    BY <1>2, <2>1, NewestType, Short DEF CurrentFirst
  <2>2. ASSUME NEW i \in CurrentLinks(g), CurrentFirst(g) = <<LinkRow(g, i)>>
        PROVE  want = <<LinkRow(g, i), GrantRow(g)>>
    BY <2>2, Short
  <2> QED BY <1>2, <2>1, <2>2, NewestType DEF CurrentFirst
<1>4. want \in Seq(Locks)
  BY <1>2, <1>3, ShortLocks
<1>5. Start(t, op, g, FALSE, want) /\ grants[g].exists /\ UNCHANGED <<grants, links>>
  BY DEF BeginLifecycle, Start
<1> HIDE DEF want
<1>6. txs'[t].op = op /\ txs'[t].grant = g /\ txs'[t].want = want /\ txs'[t].held = {}
  BY <1>1, <1>4, <1>5, <1>0, Begun
<1>7. LifecycleOrdered(t)'
  BY <1>2, <1>3, <1>5, <1>6 DEF LifecycleOrdered, At
<1>8. Ordered(t)' /\ op # "CREATE"
  BY <1>6, <1>7 DEF Ordered, Lifecycle, Revocations, Renewals
<1> QED BY <1>1, <1>4, <1>5, <1>8, BeginInv

LEMMA BeginRevocationInv ==
  ASSUME DeviceInv, NEW t \in Txs, NEW op \in Revocations, BeginRevocation(t, op)
  PROVE  DeviceInv'
<1> DEFINE want == <<GroupRow>>
<1>0. TxTypes
  BY DEF DeviceInv
<1>1. 0 \in Grants \cup {0} /\ op \in Ops /\ FALSE \in Args /\ want \in Seq(Locks)
  BY ShortLocks DEF Ops, Args
<1>2. Start(t, op, 0, FALSE, want)
  BY DEF BeginRevocation
<1> HIDE DEF want
<1>3. txs'[t].op = op /\ txs'[t].want = want /\ txs'[t].held = {}
  <2> PICK g \in Grants \cup {0}, arg \in Args : Start(t, op, g, arg, want)
    BY <1>1, <1>2
  <2> QED BY <1>0, <1>1, Begun
<1>4. RevocationOrdered(t)'
  BY <1>3 DEF RevocationOrdered, At, want
<1>5. Ordered(t)' /\ op # "CREATE"
  BY <1>3, <1>4 DEF Ordered, Lifecycle, Revocations, Renewals
<1> QED BY <1>1, <1>2, <1>5, BeginInv

LEMMA BeginCreateInv ==
  ASSUME DeviceInv, NEW t \in Txs, NEW g \in Grants, NEW grouped \in BOOLEAN,
         BeginCreate(t, g, grouped)
  PROVE  DeviceInv'
<1>0. TxTypes
  BY DEF DeviceInv
<1> DEFINE want == CreateOrder(grouped)
<1>1. g \in Grants \cup {0} /\ "CREATE" \in Ops /\ grouped \in Args
  BY DEF Ops, Args
<1>2. want \in Seq(Locks)
  BY Short, ShortLocks DEF CreateOrder
<1>3. /\ Start(t, "CREATE", g, grouped, want) /\ ~grants[g].exists /\ UNCHANGED grants
      /\ \A u \in Txs : txs[u].op # "CREATE" \/ txs[u].grant # g
  BY DEF BeginCreate, Start
<1>4. /\ txs'[t].op = "CREATE" /\ txs'[t].grant = g /\ txs'[t].arg = grouped
      /\ txs'[t].want = want /\ txs'[t].held = {}
      /\ \A u \in Txs \ {t} : txs'[u] = txs[u]
  BY <1>1, <1>2, <1>3, <1>0, Begun
<1>5. CreateOrdered(t)'
  BY <1>3, <1>4 DEF CreateOrdered, At, CreateOrder
<1>6. Ordered(t)'
  BY <1>4, <1>5 DEF Ordered, Lifecycle, Revocations, Renewals
<1> HIDE DEF want
<1> QED BY <1>1, <1>2, <1>3, <1>6, BeginInv

LEMMA BeginAssignInv ==
  ASSUME DeviceInv, NEW t \in Txs, NEW g \in Grants, BeginAssign(t, g)
  PROVE  DeviceInv'
<1>0. TxTypes
  BY DEF DeviceInv
<1> DEFINE want == <<OrganizationRow, GroupRow, GrantRow(g)>>
<1>1. g \in Grants \cup {0} /\ "ASSIGN" \in Ops /\ FALSE \in Args /\ want \in Seq(Locks)
  BY ShortLocks DEF Ops, Args
<1>2. Start(t, "ASSIGN", g, FALSE, want) /\ grants[g].exists /\ UNCHANGED grants
  BY DEF BeginAssign, Start
<1> HIDE DEF want
<1>3. txs'[t].op = "ASSIGN" /\ txs'[t].grant = g /\ txs'[t].want = want /\ txs'[t].held = {}
  BY <1>1, <1>2, <1>0, Begun
<1>4. AssignOrdered(t)'
  BY <1>2, <1>3 DEF AssignOrdered, At, want
<1>5. Ordered(t)'
  BY <1>3, <1>4 DEF Ordered, Lifecycle, Revocations, Renewals
<1> QED BY <1>1, <1>2, <1>5, BeginInv

LEMMA BeginRenewalInv ==
  ASSUME DeviceInv, NEW t \in Txs, NEW op \in Renewals, NEW g \in Grants,
         BeginRenewal(t, op, g)
  PROVE  DeviceInv'
<1>0. TxTypes
  BY DEF DeviceInv
<1> DEFINE want == <<OrganizationRow, GrantRow(g)>>
<1>1. g \in Grants \cup {0} /\ op \in Ops /\ FALSE \in Args /\ want \in Seq(Locks)
  BY ShortLocks DEF Ops, Args
<1>2. Start(t, op, g, FALSE, want) /\ grants[g].exists /\ UNCHANGED grants
  BY DEF BeginRenewal, Start
<1> HIDE DEF want
<1>3. txs'[t].op = op /\ txs'[t].grant = g /\ txs'[t].want = want /\ txs'[t].held = {}
  BY <1>1, <1>2, <1>0, Begun
<1>4. RenewalOrdered(t)'
  BY <1>2, <1>3 DEF RenewalOrdered, At, want
<1>5. Ordered(t)' /\ op # "CREATE"
  BY <1>3, <1>4 DEF Ordered, Lifecycle, Revocations, Renewals
<1> QED BY <1>1, <1>2, <1>5, BeginInv

LEMMA BeginRequireInv ==
  ASSUME DeviceInv, NEW t \in Txs, NEW required \in BOOLEAN, BeginRequire(t, required)
  PROVE  DeviceInv'
<1> DEFINE want == <<OrganizationRow>>
<1>0. TxTypes
  BY DEF DeviceInv
<1>1. /\ 0 \in Grants \cup {0} /\ "REQUIRE" \in Ops /\ required \in Args
      /\ want \in Seq(Locks)
  BY ShortLocks DEF Ops, Args
<1>2. Start(t, "REQUIRE", 0, required, want)
  BY DEF BeginRequire
<1> HIDE DEF want
<1>3. /\ txs'[t].op = "REQUIRE" /\ txs'[t].want = want
      /\ txs'[t].arg = required /\ txs'[t].held = {}
  BY <1>1, <1>2, <1>0, Begun
<1>4. RequireOrdered(t)'
  BY <1>3 DEF RequireOrdered, At, want
<1>5. Ordered(t)'
  BY <1>3, <1>4 DEF Ordered, Lifecycle, Revocations, Renewals
<1> QED BY <1>1, <1>2, <1>5, BeginInv


-----------------------------------------------------------------------------
(* A transaction takes the lock it wants.                                  *)

LEMMA AcquireInv ==
  ASSUME DeviceInv, NEW t \in Txs, Acquire(t), Ordered(t)'
  PROVE  DeviceInv'
<1>1. /\ TxTypes' /\ txs'[t].op = txs[t].op /\ txs'[t].grant = txs[t].grant
      /\ \A u \in Txs \ {t} : txs'[u] = txs[u]
  BY Acquired DEF DeviceInv
<1>2. RowsInv'
  BY RowsInvSame DEF DeviceInv, RowsInv, Acquire
<1>3. Exclusive'
  BY ExclusiveAcquire DEF DeviceInv
<1>4. ASSUME NEW u \in Txs \ {t}
      PROVE  Ordered(u)'
  <2>1. Undisturbed(u)
    BY <1>1, RowsSame DEF Acquire
  <2> QED BY <1>1, <1>2, <2>1, StillOrdered DEF DeviceInv, RowsInv
<1> QED BY <1>1, <1>2, <1>3, <1>4 DEF DeviceInv, RowsInv

\* Taking the only lock wanted, or the first of several.
LEMMA AcquireLast ==
  ASSUME DeviceInv, NEW t \in Txs, Acquire(t), NEW l, NEW f, NEW H,
         At(t, <<l>>, H), ~Gone(t, l), Following(t, l) = f
  PROVE  At(t, f, H \cup {l})'
<1>1. txs[t].want = <<l>> /\ txs[t].held = H
  BY DEF At
<1>2. Head(txs[t].want) = l /\ Tail(txs[t].want) = <<>>
  BY <1>1, Short
<1>3. l \in Locks /\ txs'[t].want = <<>> \o Following(t, l) /\ txs'[t].held = H \cup {l}
  BY <1>1, <1>2, Acquired DEF DeviceInv
<1>4. Following(t, l) \in Seq(Locks)
  BY <1>3, FollowingType DEF DeviceInv
<1>5. <<>> \o Following(t, l) = Following(t, l)
  BY <1>4, ConcatEmptySeq
<1> QED BY <1>3, <1>5 DEF At

LEMMA AcquireNext ==
  ASSUME DeviceInv, NEW t \in Txs, Acquire(t), NEW l, NEW m, NEW H,
         At(t, <<l, m>>, H), ~Gone(t, l), Following(t, l) = <<>>
  PROVE  At(t, <<m>>, H \cup {l})'
<1>1. txs[t].want = <<l, m>> /\ txs[t].held = H
  BY DEF At
<1>2. Head(txs[t].want) = l /\ Tail(txs[t].want) = <<m>>
  BY <1>1, Short
<1>3. txs'[t].want = <<m>> \o <<>> /\ txs'[t].held = H \cup {l}
  BY <1>1, <1>2, Acquired DEF DeviceInv
<1> QED BY <1>3, Short DEF At

LEMMA AcquireFirst ==
  ASSUME DeviceInv, NEW t \in Txs, Acquire(t), NEW l, NEW m, NEW n, NEW H,
         At(t, <<l, m, n>>, H), ~Gone(t, l), Following(t, l) = <<>>
  PROVE  At(t, <<m, n>>, H \cup {l})'
<1>1. txs[t].want = <<l, m, n>> /\ txs[t].held = H
  BY DEF At
<1>2. Head(txs[t].want) = l /\ Tail(txs[t].want) = <<m, n>>
  BY <1>1, Short
<1>3. txs'[t].want = <<m, n>> \o <<>> /\ txs'[t].held = H \cup {l}
  BY <1>1, <1>2, Acquired DEF DeviceInv
<1> QED BY <1>3, Short DEF At

LEMMA NotGone ==
  ASSUME NEW t, NEW l, txs[t].op \notin Lifecycle \/ l.row[1] # "link"
  PROVE  ~Gone(t, l)
BY DEF Gone

LEMMA AcquireFrame ==
  ASSUME DeviceInv, NEW t \in Txs, Acquire(t)
  PROVE  /\ txs'[t].op = txs[t].op /\ txs'[t].grant = txs[t].grant
         /\ txs'[t].arg = txs[t].arg /\ txs[t].want # <<>>
         /\ \A u \in Txs \ {t} : txs'[u] = txs[u]
         /\ UNCHANGED <<grants, links>>
BY Acquired DEF DeviceInv, Acquire

LEMMA AcquireRedeem ==
  ASSUME DeviceInv, NEW t \in Txs, Acquire(t), txs[t].op = "REDEEM"
  PROVE  Ordered(t)'
<1> PICK g, arg : g = txs[t].grant /\ arg = txs[t].arg
  OBVIOUS
<1> DEFINE L == LinkRow(g, arg.link)
           G == GrantRow(g)
           A == AuditReference
<1>1. RedeemOrdered(t)
  BY DEF DeviceInv, Ordered
<1>2. /\ txs'[t].op = "REDEEM" /\ txs'[t].grant = g /\ txs'[t].arg = arg
      /\ txs[t].want # <<>> /\ UNCHANGED links
  BY AcquireFrame
<1>3. \A l : ~Gone(t, l)
  BY NotGone DEF Lifecycle
<1>4. Following(t, L) = <<>> /\ Following(t, G) = <<A>> /\ Following(t, A) = <<>>
  <2>1. L.row[1] = "link" /\ G.row[1] = "grant" /\ A.row[1] = "organization"
    BY DEF LinkRow, GrantRow, AuditReference, Lock
  <2>2. txs[t].op = "REDEEM" /\ txs[t].op \notin Lifecycle /\ txs[t].op \notin Revocations
    BY DEF Lifecycle, Revocations
  <2> HIDE DEF L, G, A
  <2> QED BY <2>1, <2>2, Follows DEF A
<1> HIDE DEF L, G, A
<1>5. \/ At(t, <<G>>, {} \cup {L})' \/ At(t, <<A>>, {L} \cup {G})'
      \/ At(t, <<>>, {L, G} \cup {A})'
  <2>1. CASE At(t, <<L, G>>, {})
    BY <1>3, <1>4, <2>1, AcquireNext
  <2>2. CASE At(t, <<G>>, {L})
    BY <1>3, <1>4, <2>2, AcquireLast
  <2>3. CASE At(t, <<A>>, {L, G})
    BY <1>3, <1>4, <2>3, AcquireLast
  <2>4. ~At(t, <<>>, {L, G, A})
    BY <1>2 DEF At
  <2> QED BY <1>1, <2>1, <2>2, <2>3, <2>4 DEF RedeemOrdered, L, G, A
<1>6. RedeemOrdered(t)'
  BY <1>1, <1>2, <1>5 DEF RedeemOrdered, At, L, G, A
<1> QED BY <1>2, <1>6 DEF Ordered, Lifecycle, Revocations, Renewals


\* The link that the transaction waited for is current no more.
LEMMA AcquireGone ==
  ASSUME DeviceInv, NEW t \in Txs, Acquire(t), NEW l, NEW m, NEW H,
         At(t, <<l, m>>, H), Gone(t, l), Following(t, l) = <<>>
  PROVE  At(t, <<m>>, H)'
<1>1. txs[t].want = <<l, m>> /\ txs[t].held = H
  BY DEF At
<1>2. Head(txs[t].want) = l /\ Tail(txs[t].want) = <<m>>
  BY <1>1, Short
<1>3. txs'[t].want = <<m>> \o <<>> /\ txs'[t].held = H
  BY <1>1, <1>2, Acquired DEF DeviceInv
<1> QED BY <1>3, Short DEF At

LEMMA OnlyCurrent ==
  ASSUME DeviceInv, NEW g \in Grants, NEW i \in CurrentLinks(g)
  PROVE  CurrentLinks(g) = {i}
<1>1. Cardinality(CurrentLinks(g)) = 1
  BY DEF DeviceInv, CurrentLinkUsable
<1>2. CurrentLinks(g) \subseteq 1 .. MaxLinks
  BY LinkNumbers DEF DeviceInv
<1>3. IsFiniteSet(1 .. MaxLinks)
  BY DeviceAssumption, FS_Interval
<1>4. IsFiniteSet(CurrentLinks(g))
  BY <1>2, <1>3, FS_Subset
<1>5. IsFiniteSet({i}) /\ Cardinality({i}) = 1
  BY FS_Singleton
<1> QED BY <1>1, <1>4, <1>5, FS_Subset

LEMMA AcquireLifecycle ==
  ASSUME DeviceInv, NEW t \in Txs, Acquire(t), txs[t].op \in Lifecycle
  PROVE  Ordered(t)'
<1> PICK g : g = txs[t].grant
  OBVIOUS
<1> DEFINE G == GrantRow(g)
           A == AuditReference
<1>1. LifecycleOrdered(t) /\ g \in Grants /\ grants[g].exists
  BY DEF DeviceInv, Ordered, LifecycleOrdered
<1>2. /\ txs'[t].op = txs[t].op /\ txs'[t].grant = g
      /\ txs[t].want # <<>> /\ UNCHANGED <<grants, links>>
  BY AcquireFrame
<1>3. CurrentLinks(g) \subseteq DOMAIN links[g]
  BY DEF CurrentLinks
<1>4. \/ At(t, <<G>>, {})' \/ \E i \in CurrentLinks(g) : At(t, <<G>>, {LinkRow(g, i)})'
      \/ /\ txs'[t].want = <<A>>
         /\ txs'[t].held = {G} \cup CurrentRows(g)
      \/ /\ txs'[t].want = <<>>
         /\ txs'[t].held = {G, A} \cup CurrentRows(g)
  <2>1. ASSUME NEW i \in DOMAIN links[g], At(t, <<LinkRow(g, i), G>>, {})
        PROVE  \/ At(t, <<G>>, {})'
               \/ i \in CurrentLinks(g) /\ At(t, <<G>>, {LinkRow(g, i)})'
    <3> DEFINE L == LinkRow(g, i)
    <3>1. /\ L.row[1] = "link" /\ L.row[2] = g /\ L.row[3] = i /\ L # GroupRow
      BY LocksDiffer DEF LinkRow, Lock
    <3>2. Following(t, L) = <<>>
      BY <3>1, Follows
    <3>3. ~Gone(t, L) => i \in CurrentLinks(g)
      BY <3>1 DEF Gone, CurrentLinks
    <3> HIDE DEF L, G
    <3>4. CASE Gone(t, L)
      <4>1. At(t, <<L, G>>, {})
        BY <2>1 DEF L
      <4>2. At(t, <<G>>, {})'
        BY <3>2, <3>4, <4>1, AcquireGone
      <4> QED BY <4>2
    <3>5. CASE ~Gone(t, L)
      <4>1. At(t, <<G>>, {} \cup {L})'
        BY <2>1, <3>2, <3>5, AcquireNext DEF L
      <4> QED BY <3>3, <3>5, <4>1 DEF L, At
    <3> QED BY <3>4, <3>5
  <2>2. ASSUME NEW H, At(t, <<G>>, H), H = CurrentRows(g)
        PROVE  txs'[t].want = <<A>> /\ txs'[t].held = {G} \cup CurrentRows(g)
    <3>1. G.row[1] = "grant" /\ G.row[2] = g
      BY DEF GrantRow, Lock
    <3>2. NotHeld(t, g) = {}
      BY <2>2 DEF NotHeld, Holds, At, CurrentRows
    <3>3. NewestOf(g, NotHeld(t, g)) = <<>>
      BY <3>2 DEF NewestOf
    <3>4. Following(t, G) = <<A>>
      BY <3>1, <3>3, Follows, Short
    <3>5. ~Gone(t, G)
      BY <3>1 DEF Gone
    <3> HIDE DEF G, A
    <3>6. At(t, <<A>>, H \cup {G})'
      BY <2>2, <3>4, <3>5, AcquireLast
    <3> QED BY <2>2, <3>6 DEF At
  <2>3. CASE At(t, <<G>>, {})
    <3>1. Head(<<G>>) = G /\ G.row[1] = "grant" /\ G.row[2] = g
      BY DEF GrantRow, Lock
    <3>2. txs[t].want = <<G>> /\ txs[t].held = {}
      BY <2>3 DEF At
    <3>3. ~Overtaken(t, g)
      <4> HIDE DEF G
      <4> QED BY <3>1, <3>2 DEF Acquire
    <3>4. CurrentLinks(g) = {}
      BY <3>2, <3>3 DEF Overtaken, Holds
    <3>5. CurrentRows(g) = {}
      BY <3>4 DEF CurrentRows
    <3> QED BY <2>2, <2>3, <3>5
  <2>4. ASSUME NEW i \in CurrentLinks(g), At(t, <<G>>, {LinkRow(g, i)})
        PROVE  txs'[t].want = <<A>> /\ txs'[t].held = {G} \cup CurrentRows(g)
    <3>1. CurrentRows(g) = {LinkRow(g, i)}
      BY <1>1, OnlyCurrent DEF CurrentRows
    <3> QED BY <2>2, <2>4, <3>1
  <2>5. ASSUME NEW H, At(t, <<A>>, H), H = {G} \cup CurrentRows(g)
        PROVE  txs'[t].want = <<>> /\ txs'[t].held = {G, A} \cup CurrentRows(g)
    <3>1. A.row[1] = "organization"
      BY DEF AuditReference, Lock
    <3>2. Following(t, A) = <<>> /\ ~Gone(t, A)
      <4>1. txs[t].op \notin Revocations
        BY DEF Lifecycle, Revocations
      <4> QED BY <3>1, <4>1, Follows DEF Gone
    <3> HIDE DEF A
    <3>3. At(t, <<>>, H \cup {A})'
      BY <2>5, <3>2, AcquireLast
    <3> QED BY <2>5, <3>3 DEF At
  <2>6. ~ \E H : At(t, <<>>, H)
    BY <1>2 DEF At
  <2> HIDE DEF G, A
  <2> QED BY <1>1, <2>1, <2>2, <2>3, <2>4, <2>5, <2>6 DEF LifecycleOrdered, G, A
<1>5. /\ CurrentRows(g)' = CurrentRows(g) /\ CurrentLinks(g)' = CurrentLinks(g)
  BY <1>2 DEF CurrentRows, CurrentLinks
<1>6. LifecycleOrdered(t)'
  BY <1>1, <1>2, <1>4, <1>5 DEF LifecycleOrdered, At
<1> QED BY <1>2, <1>6 DEF Ordered, Lifecycle, Revocations, Renewals

LEMMA AcquireCreate ==
  ASSUME DeviceInv, NEW t \in Txs, Acquire(t), txs[t].op = "CREATE"
  PROVE  Ordered(t)'
<1> PICK g, grouped : g = txs[t].grant /\ grouped = txs[t].arg
  OBVIOUS
<1> DEFINE O == OrganizationRow
           P == GroupRow
<1>1. CreateOrdered(t) /\ grouped \in BOOLEAN
  BY DEF DeviceInv, Ordered, CreateOrdered
<1>2. /\ txs'[t].op = "CREATE" /\ txs'[t].grant = g /\ txs'[t].arg = grouped
      /\ txs[t].want # <<>> /\ UNCHANGED grants
      /\ \A u \in Txs \ {t} : txs'[u] = txs[u]
  BY AcquireFrame
<1>3. \A l : ~Gone(t, l) /\ Following(t, l) = <<>>
  BY NotGone, Follows DEF Lifecycle, Revocations
<1> HIDE DEF O, P
<1>4. CreateOrder(grouped) = IF grouped THEN <<O, P>> ELSE <<O>>
  BY Short DEF CreateOrder, O, P
<1>5. \/ grouped /\ At(t, <<P>>, {} \cup {O})'
      \/ grouped /\ At(t, <<>>, {O} \cup {P})'
      \/ ~grouped /\ At(t, <<>>, {} \cup {O})'
  <2>1. CASE grouped /\ At(t, <<O, P>>, {})
    <3>1. At(t, <<P>>, {} \cup {O})'
      BY <1>3, <2>1, AcquireNext
    <3> QED BY <2>1, <3>1
  <2>2. CASE ~grouped /\ At(t, <<O>>, {})
    <3>1. At(t, <<>>, {} \cup {O})'
      BY <1>3, <2>2, AcquireLast
    <3> QED BY <2>2, <3>1
  <2>3. CASE grouped /\ At(t, <<P>>, {O})
    <3>1. At(t, <<>>, {O} \cup {P})'
      BY <1>3, <2>3, AcquireLast
    <3> QED BY <2>3, <3>1
  <2>4. ~ \E H : At(t, <<>>, H)
    BY <1>2 DEF At
  <2> QED BY <1>1, <1>4, <2>1, <2>2, <2>3, <2>4 DEF CreateOrdered, O, P
<1>6. CreateOrdered(t)'
  BY <1>1, <1>2, <1>5 DEF CreateOrdered, At, O, P
<1> QED BY <1>2, <1>6 DEF Ordered, Lifecycle, Revocations, Renewals

LEMMA AcquireAssign ==
  ASSUME DeviceInv, NEW t \in Txs, Acquire(t), txs[t].op = "ASSIGN"
  PROVE  Ordered(t)'
<1> PICK g : g = txs[t].grant
  OBVIOUS
<1> DEFINE O == OrganizationRow
           P == GroupRow
           G == GrantRow(g)
<1>1. AssignOrdered(t)
  BY DEF DeviceInv, Ordered
<1>2. /\ txs'[t].op = "ASSIGN" /\ txs'[t].grant = g
      /\ txs[t].want # <<>> /\ UNCHANGED grants
  BY AcquireFrame
<1>3. \A l : ~Gone(t, l) /\ Following(t, l) = <<>>
  BY NotGone, Follows DEF Lifecycle, Revocations
<1> HIDE DEF O, P, G
<1>4. \/ At(t, <<P, G>>, {} \cup {O})' \/ At(t, <<G>>, {O} \cup {P})'
      \/ At(t, <<>>, {O, P} \cup {G})'
  <2>1. CASE At(t, <<O, P, G>>, {})
    BY <1>3, <2>1, AcquireFirst
  <2>2. CASE At(t, <<P, G>>, {O})
    BY <1>3, <2>2, AcquireNext
  <2>3. CASE At(t, <<G>>, {O, P})
    BY <1>3, <2>3, AcquireLast
  <2>4. ~ \E H : At(t, <<>>, H)
    BY <1>2 DEF At
  <2> QED BY <1>1, <2>1, <2>2, <2>3, <2>4 DEF AssignOrdered, O, P, G
<1>5. AssignOrdered(t)'
  BY <1>1, <1>2, <1>4 DEF AssignOrdered, At, O, P, G
<1> QED BY <1>2, <1>5 DEF Ordered, Lifecycle, Revocations, Renewals

LEMMA AcquireRenewal ==
  ASSUME DeviceInv, NEW t \in Txs, Acquire(t), txs[t].op \in Renewals
  PROVE  Ordered(t)'
<1> PICK g : g = txs[t].grant
  OBVIOUS
<1> DEFINE O == OrganizationRow
           G == GrantRow(g)
<1>1. RenewalOrdered(t)
  BY DEF DeviceInv, Ordered
<1>2. /\ txs'[t].op \in Renewals /\ txs'[t].grant = g
      /\ txs[t].want # <<>> /\ UNCHANGED grants
  BY AcquireFrame
<1>3. \A l : ~Gone(t, l) /\ Following(t, l) = <<>>
  BY NotGone, Follows DEF Lifecycle, Revocations, Renewals
<1> HIDE DEF O, G
<1>4. At(t, <<G>>, {} \cup {O})' \/ At(t, <<>>, {O} \cup {G})'
  <2>1. CASE At(t, <<O, G>>, {})
    BY <1>3, <2>1, AcquireNext
  <2>2. CASE At(t, <<G>>, {O})
    BY <1>3, <2>2, AcquireLast
  <2>3. ~ \E H : At(t, <<>>, H)
    BY <1>2 DEF At
  <2> QED BY <1>1, <2>1, <2>2, <2>3 DEF RenewalOrdered, O, G
<1>5. RenewalOrdered(t)'
  BY <1>1, <1>2, <1>4 DEF RenewalOrdered, At, O, G
<1> QED BY <1>2, <1>5 DEF Ordered, Lifecycle, Revocations, Renewals

LEMMA AcquireRequire ==
  ASSUME DeviceInv, NEW t \in Txs, Acquire(t), txs[t].op = "REQUIRE"
  PROVE  Ordered(t)'
<1> DEFINE O == OrganizationRow
<1>1. RequireOrdered(t)
  BY DEF DeviceInv, Ordered
<1>2. /\ txs'[t].op = "REQUIRE" /\ txs'[t].arg = txs[t].arg /\ txs[t].want # <<>>
  BY AcquireFrame
<1>3. \A l : ~Gone(t, l) /\ Following(t, l) = <<>>
  BY NotGone, Follows DEF Lifecycle, Revocations
<1> HIDE DEF O
<1>4. At(t, <<>>, {} \cup {O})'
  <2>1. At(t, <<O>>, {})
    BY <1>1, <1>2 DEF RequireOrdered, At, O
  <2> QED BY <1>3, <2>1, AcquireLast
<1>5. RequireOrdered(t)'
  BY <1>1, <1>2, <1>4 DEF RequireOrdered, At, O
<1> QED BY <1>2, <1>5 DEF Ordered, Lifecycle, Revocations, Renewals


LEMMA AcquireRevocation ==
  ASSUME DeviceInv, NEW t \in Txs, Acquire(t), txs[t].op \in Revocations
  PROVE  Ordered(t)'
<1> DEFINE H == txs[t].held
<1>1. RevocationOrdered(t) /\ RowTypes /\ TxTypes /\ txs[t].op \notin Lifecycle
  BY DEF DeviceInv, Ordered, Lifecycle, Revocations
<1>2. /\ txs'[t].op = txs[t].op /\ txs[t].want # <<>> /\ UNCHANGED <<grants, links>>
  BY AcquireFrame
<1>3. \A l : ~Gone(t, l)
  BY <1>1, NotGone
<1>4. \A g \in Grants : /\ LiveGrouped(g)' = LiveGrouped(g)
                        /\ CurrentRows(g)' = CurrentRows(g)
  BY <1>2 DEF LiveGrouped, CurrentRows, CurrentLinks
\* It takes lock l and goes on.
<1>5. ASSUME NEW l, Head(txs[t].want) = l
      PROVE  /\ txs'[t].held = H \cup {l} /\ l \in Locks
             /\ txs'[t].want = Tail(txs[t].want) \o Following(t, l)
  BY <1>1, <1>3, <1>5, Acquired
\* From a position where every live grant up to g is locked, to the next.
<1>6. ASSUME NEW g \in Nat, txs'[t].want = NextOfGroup(g), GroupRow \in txs'[t].held,
             GrantsWithLinks(t)',
             \A k \in Grants : k <= g /\ LiveGrouped(k) => GrantRow(k) \in txs'[t].held,
             \A h \in Grants, n \in Nat : h > g => txs'[t].held \subseteq Behind(h, n)
      PROVE  RevocationOrdered(t)'
  <2>1. CASE LiveAfter(g) = {} /\ NextOfGroup(g) = <<AuditReference>>
    <3>1. \A k \in Grants : LiveGrouped(k) => k <= g
      BY <2>1, DeviceAssumption DEF LiveAfter, LiveGrouped
    <3>2. Walked(t)'
      BY <1>4, <1>6, <2>1, <3>1 DEF Walked
    <3> QED BY <1>6, <3>2 DEF RevocationOrdered
  <2>2. ASSUME NEW h \in LiveAfter(g), h \in Grants, \A k \in LiveAfter(g) : h <= k,
               NextOfGroup(g) = LinksThenGrant(h, Len(links[h]))
        PROVE  RevocationOrdered(t)'
    <3> DEFINE n == Len(links[h])
    <3>1. grants[h].exists /\ h > g /\ n \in Nat /\ n \in 0 .. n /\ n' = n
      BY <1>1, <1>2, <2>2, LinkNumbers, DeviceAssumption DEF LiveAfter
    <3>2. \A k \in Grants : k < h /\ LiveGrouped(k) => k <= g
      BY <2>2, DeviceAssumption DEF LiveAfter, LiveGrouped
    <3>3. txs'[t].held \subseteq Behind(h, n)
      BY <1>6, <2>2, <3>1
    <3>4. /\ txs'[t].want = LinksThenGrant(h, n) /\ grants'[h].exists
          /\ \A k \in Grants : k < h /\ LiveGrouped(k)' => GrantRow(k) \in txs'[t].held
      BY <1>2, <1>4, <1>6, <2>2, <3>1, <3>2
    <3>5. \E m \in 0 .. Len(links'[h]) : Walking(t, h, m)'
      <4>1. PICK m \in 0 .. Len(links'[h]) : m = n
        BY <1>2, <3>1
      <4>2. Walking(t, h, m)'
        BY <3>3, <3>4, <4>1 DEF Walking, LinksThenGrant, Behind
      <4> QED BY <4>2
    <3> QED BY <1>6, <2>2, <3>5 DEF RevocationOrdered
  <2> QED BY <1>1, <2>1, <2>2, Next
<1>7. CASE At(t, <<GroupRow>>, {})
  <2>1. GroupRow.row[1] = "group"
    BY DEF GroupRow, Lock
  <2>2. Head(txs[t].want) = GroupRow /\ Tail(txs[t].want) = <<>> /\ H = {}
    BY <1>7, Short DEF At
  <2>3. Following(t, GroupRow) = NextOfGroup(0) /\ NextOfGroup(0) \in Seq(Locks)
    BY <1>1, <1>5, <2>2, Follows, FollowingType
  <2>4. txs'[t].want = NextOfGroup(0) /\ txs'[t].held = {GroupRow}
    BY <1>5, <2>2, <2>3, ConcatEmptySeq
  <2>5. GrantsWithLinks(t)'
    BY <2>4, LocksDiffer DEF GrantsWithLinks
  <2>6. \A h \in Grants, n \in Nat : txs'[t].held \subseteq Behind(h, n)
    BY <2>4 DEF Behind
  <2>7. \A k \in Grants : ~ k <= 0
    BY DeviceAssumption
  <2>8. RevocationOrdered(t)'
    BY <1>6, <2>4, <2>5, <2>6, <2>7
  <2> QED BY <1>2, <2>8 DEF Ordered, Lifecycle, Revocations, Renewals
<1>8. ASSUME NEW h \in Grants, NEW n \in 0 .. Len(links[h]), Walking(t, h, n),
             GroupRow \in H, GrantsWithLinks(t)
      PROVE  RevocationOrdered(t)'
  <2>1. n \in 0 .. MaxLinks /\ n \in Nat /\ h \in Nat
    BY <1>1, LinkNumbers, DeviceAssumption
  <2>2. /\ txs[t].want = LinksThenGrant(h, n) /\ grants[h].exists /\ H \subseteq Behind(h, n)
        /\ \A k \in Grants : k < h /\ LiveGrouped(k) => GrantRow(k) \in H
    BY <1>8 DEF Walking
  <2>3. CASE n # 0
    <3> DEFINE l == LinkRow(h, n)
    <3>1. /\ Head(txs[t].want) = l /\ Tail(txs[t].want) = LinksThenGrant(h, n - 1)
          /\ n - 1 \in 0 .. MaxLinks /\ n - 1 \in 0 .. Len(links[h]) /\ n \in 1 .. MaxLinks
      BY <2>1, <2>2, <2>3, Walk, DeviceAssumption
    <3>2. Following(t, l) = <<>>
      <4>1. l.row[1] = "link" /\ l # GroupRow
        BY LocksDiffer DEF LinkRow, Lock
      <4> HIDE DEF l
      <4> QED BY <4>1, Follows
    <3>3. txs'[t].held = H \cup {l} /\ txs'[t].want = LinksThenGrant(h, n - 1)
      <4>1. /\ txs'[t].held = H \cup {l}
            /\ txs'[t].want = LinksThenGrant(h, n - 1) \o Following(t, l)
        <5> HIDE DEF l
        <5> QED BY <1>5, <3>1
      <4>2. LinksThenGrant(h, n - 1) \o <<>> = LinksThenGrant(h, n - 1)
        BY <3>1, Walk
      <4> QED BY <3>2, <4>1, <4>2
    <3>4. H \cup {l} \subseteq Behind(h, n - 1)
      <4>1. Behind(h, n) \subseteq Behind(h, n - 1)
        BY <2>1, DeviceAssumption DEF Behind
      <4>2. l \in Behind(h, n - 1)
        BY <2>1, <3>1 DEF Behind
      <4> QED BY <2>2, <4>1, <4>2
    <3>5. GrantsWithLinks(t)'
      BY <1>2, <1>4, <1>8, <3>3, LocksDiffer DEF GrantsWithLinks
    <3>6. PICK m \in 0 .. Len(links'[h]) : m = n - 1
      BY <1>2, <3>1
    <3>7. Walking(t, h, m)'
      <4>1. /\ txs'[t].want = LinksThenGrant(h, m) /\ grants'[h].exists
            /\ txs'[t].held \subseteq Behind(h, m)
        BY <1>2, <2>2, <3>3, <3>4, <3>6
      <4>2. \A k \in Grants : k < h /\ LiveGrouped(k)' => GrantRow(k) \in txs'[t].held
        BY <1>4, <2>2, <3>3
      <4> QED BY <4>1, <4>2 DEF Walking, LinksThenGrant, Behind
    <3> QED BY <1>8, <3>3, <3>5, <3>7 DEF RevocationOrdered
  <2>4. CASE n = 0
    <3> DEFINE l == GrantRow(h)
    <3>1. Head(txs[t].want) = l /\ Tail(txs[t].want) = <<>>
      BY <2>1, <2>2, <2>4, Walk
    <3>2. l.row[1] = "grant" /\ l.row[2] = h
      BY DEF GrantRow, Lock
    <3>3. \A i \in DOMAIN links[h] : LinkRow(h, i) \in H
      <4>1. ~Overtaken(t, h)
        <5> HIDE DEF l
        <5> QED BY <3>1, <3>2 DEF Acquire
      <4> QED BY <4>1 DEF Overtaken, Holds
    <3> HIDE DEF l
    <3>4. Following(t, l) = NextOfGroup(h) /\ l \in Locks
      BY <1>5, <3>1, <3>2, Follows
    <3>5. NextOfGroup(h) \in Seq(Locks)
      BY <1>1, <3>4, FollowingType
    <3>6. txs'[t].held = H \cup {l} /\ txs'[t].want = NextOfGroup(h)
      BY <1>5, <3>1, <3>4, <3>5, ConcatEmptySeq
    <3>7. CurrentRows(h) \subseteq H
      BY <3>3 DEF CurrentRows, CurrentLinks
    <3>8. GrantsWithLinks(t)'
      <4> SUFFICES ASSUME NEW k \in Grants, GrantRow(k) \in txs'[t].held
                   PROVE  grants'[k].exists /\ CurrentRows(k)' \subseteq txs'[t].held
        BY DEF GrantsWithLinks
      <4>1. k = h \/ GrantRow(k) \in H
        BY <3>6, LocksDiffer DEF l
      <4> QED BY <1>2, <1>4, <1>8, <2>2, <3>6, <3>7, <4>1 DEF GrantsWithLinks
    <3>9. \A k \in Grants : k <= h /\ LiveGrouped(k) => GrantRow(k) \in txs'[t].held
      <4>1. \A k \in Grants : k <= h => k < h \/ k = h
        BY <2>1, DeviceAssumption
      <4> QED BY <2>2, <3>6, <4>1 DEF l
    <3>10. ASSUME NEW j \in Grants, NEW m \in Nat, j > h
           PROVE  txs'[t].held \subseteq Behind(j, m)
      <4>1. \A k \in Grants : k < h \/ k = h => k < j
        BY <2>1, <3>10, DeviceAssumption
      <4>2. Behind(h, n) \subseteq Behind(j, m)
        BY <4>1 DEF Behind
      <4>3. l \in Behind(j, m)
        BY <4>1 DEF Behind, l
      <4> QED BY <2>2, <3>6, <4>2, <4>3
    <3> QED BY <1>6, <1>8, <2>1, <3>6, <3>8, <3>9, <3>10
  <2> QED BY <2>3, <2>4
<1>9. CASE Walked(t) /\ GroupRow \in H /\ GrantsWithLinks(t)
  <2> DEFINE A == AuditReference
  <2>1. txs[t].want = <<A>>
    BY <1>2, <1>9 DEF Walked
  <2>2. Head(txs[t].want) = A /\ Tail(txs[t].want) = <<>>
    BY <2>1, Short
  <2>3. Following(t, A) = <<>>
    <3>1. A.row[1] = "organization" /\ A # GroupRow
      BY LocksDiffer DEF AuditReference, Lock
    <3> HIDE DEF A
    <3> QED BY <3>1, Follows
  <2>4. txs'[t].held = H \cup {A} /\ txs'[t].want = <<>>
    <3>1. txs'[t].want = <<>> \o <<>>
      BY <1>5, <2>2, <2>3
    <3>2. <<>> \o <<>> = <<>>
      OBVIOUS
    <3> HIDE DEF A
    <3>3. txs'[t].held = H \cup {A}
      BY <1>5, <2>2
    <3> QED BY <3>1, <3>2, <3>3
  <2>5. GrantsWithLinks(t)'
    BY <1>2, <1>4, <1>9, <2>4, LocksDiffer DEF GrantsWithLinks
  <2>6. Walked(t)'
    BY <1>4, <1>9, <2>4 DEF Walked
  <2>7. RevocationOrdered(t)'
    BY <1>9, <2>4, <2>5, <2>6 DEF RevocationOrdered
  <2> QED BY <1>2, <2>7 DEF Ordered, Lifecycle, Revocations, Renewals
<1>10. RevocationOrdered(t)' => Ordered(t)'
  BY <1>2 DEF Ordered, Lifecycle, Revocations, Renewals
<1> QED BY <1>1, <1>7, <1>8, <1>9, <1>10 DEF RevocationOrdered

LEMMA AcquireStep ==
  ASSUME DeviceInv, NEW t \in Txs, Acquire(t)
  PROVE  DeviceInv'
<1>1. txs[t].op \in Ops
  BY TxRow DEF DeviceInv, Acquire
<1>2. Ordered(t)'
  BY <1>1, AcquireRedeem, AcquireLifecycle, AcquireRevocation, AcquireCreate,
     AcquireAssign, AcquireRenewal, AcquireRequire DEF Ops
<1> QED BY <1>2, AcquireInv

-----------------------------------------------------------------------------
(* A transaction ends.                                                     *)

LEMMA IdleOrdered ==
  ASSUME NEW t, txs'[t] = Idle
  PROVE  Ordered(t)'
BY DEF Ordered, Idle, Lifecycle, Revocations, Renewals

LEMMA AbortStep ==
  ASSUME DeviceInv, NEW t \in Txs, Abort(t)
  PROVE  DeviceInv'
<1>1. TxTypes' /\ txs'[t] = Idle /\ Held(t)' = {} /\ \A u \in Txs \ {t} : txs'[u] = txs[u]
  BY Ended DEF DeviceInv, Abort
<1>2. RowsInv'
  BY RowsInvSame DEF DeviceInv, RowsInv, Abort
<1>3. Exclusive'
  BY <1>1, ExclusiveLess DEF DeviceInv, Held
<1>4. ASSUME NEW u \in Txs \ {t}
      PROVE  Ordered(u)'
  <2>1. Undisturbed(u)
    BY <1>1, RowsSame DEF Abort, Idle
  <2> QED BY <1>1, <1>2, <2>1, StillOrdered DEF DeviceInv, RowsInv
<1>5. Ordered(t)'
  BY <1>1, IdleOrdered
<1> QED BY <1>1, <1>2, <1>3, <1>4, <1>5 DEF DeviceInv, RowsInv

\* What a commit must respect: it changes only rows that it has locked, or the
\* grant it creates.
LEMMA CommitInv ==
  ASSUME DeviceInv, RowsInv', NEW t \in Txs, txs' = [txs EXCEPT ![t] = Idle],
         \A g \in Grants : grants[g].exists => grants'[g].exists,
         \A g \in Grants : Len(links[g]) <= Len(links'[g]),
         \A g \in Grants : \A i \in CurrentLinks(g) :
           i \in CurrentLinks(g)' \/ LinkRow(g, i) \in Held(t),
         \A g \in Grants : \/ CurrentLinks(g)' \subseteq CurrentLinks(g)
                           \/ GrantRow(g) \in Held(t) \/ ~grants[g].exists,
         \A g \in Grants : LiveGrouped(g)' => LiveGrouped(g) \/ GroupRow \in Held(t),
         \A g \in Grants : grants'[g].exists =>
           grants[g].exists \/ (txs[t].op = "CREATE" /\ txs[t].grant = g)
  PROVE  DeviceInv'
<1>1. TxTypes' /\ txs'[t] = Idle /\ Held(t)' = {} /\ \A u \in Txs \ {t} : txs'[u] = txs[u]
  BY Ended DEF DeviceInv
<1>2. Exclusive'
  BY <1>1, ExclusiveLess DEF DeviceInv, Held
<1>3. ASSUME NEW u \in Txs \ {t}
      PROVE  Ordered(u)'
  <2>1. \A g \in Grants : \A i \in CurrentLinks(g) :
          LinkRow(g, i) \in Held(u) => i \in CurrentLinks(g)'
    <3> SUFFICES ASSUME NEW g \in Grants, NEW i \in CurrentLinks(g), LinkRow(g, i) \in Held(u)
                 PROVE  i \in CurrentLinks(g)'
      OBVIOUS
    <3>1. i \in 1 .. MaxLinks
      BY LinkNumbers DEF DeviceInv
    <3>2. LinkRow(g, i) \notin Held(t)
      BY <3>1, AloneRows DEF DeviceInv
    <3> QED BY <3>2
  <2>2. \A g \in Grants : GrantRow(g) \in Held(u) => CurrentLinks(g)' \subseteq CurrentLinks(g)
    <3> SUFFICES ASSUME NEW g \in Grants, GrantRow(g) \in Held(u)
                 PROVE  CurrentLinks(g)' \subseteq CurrentLinks(g)
      OBVIOUS
    <3>1. GrantRow(g) \notin Held(t)
      BY AloneRows DEF DeviceInv
    <3>2. grants[g].exists
      BY HeldExists DEF DeviceInv
    <3> QED BY <3>1, <3>2
  <2>3. GroupRow \in Held(u) => \A g \in Grants : LiveGrouped(g)' => LiveGrouped(g)
    BY AloneRows DEF DeviceInv
  <2>4. ASSUME txs[u].op = "CREATE"
        PROVE  /\ grants'[txs[u].grant].exists = grants[txs[u].grant].exists
               /\ \A v \in Txs \ {u} : txs'[v].op = "CREATE" /\ txs'[v].grant = txs[u].grant =>
                    txs'[v].op = txs[v].op /\ txs'[v].grant = txs[v].grant
    <3>1. CreateOrdered(u)
      BY <2>4 DEF DeviceInv, Ordered
    <3>2. txs[u].grant \in Grants /\ ~grants[txs[u].grant].exists
          /\ (txs[t].op # "CREATE" \/ txs[t].grant # txs[u].grant)
      BY <3>1 DEF CreateOrdered
    <3>3. grants'[txs[u].grant].exists = FALSE /\ grants[txs[u].grant].exists = FALSE
      BY <3>2 DEF RowsInv, RowTypes, DeviceInv, GrantFields
    <3>4. txs'[t].op # "CREATE"
      BY <1>1 DEF Idle
    <3> QED BY <1>1, <3>3, <3>4
  <2>5. Undisturbed(u)
    BY <2>1, <2>2, <2>3, <2>4 DEF Undisturbed
  <2> QED BY <1>1, <2>5, StillOrdered DEF DeviceInv, RowsInv
<1>4. Ordered(t)'
  BY <1>1, IdleOrdered
<1> QED BY <1>1, <1>2, <1>3, <1>4 DEF DeviceInv, RowsInv

-----------------------------------------------------------------------------
(* What a transaction holds when it writes.                                *)

LEMMA Committing ==
  ASSUME DeviceInv, NEW t \in Txs, NEW op \in Ops, Commits(t, op)
  PROVE  /\ Held(t) = txs[t].held /\ txs[t].op = op /\ txs' = [txs EXCEPT ![t] = Idle]
         /\ txs[t].want = <<>> /\ UNCHANGED <<sessions, used>> /\ Ordered(t)
BY TxRow DEF Commits, DeviceInv

LEMMA RedeemHeld ==
  ASSUME DeviceInv, NEW t \in Txs, Commits(t, "REDEEM")
  PROVE  LET g == txs[t].grant
             arg == txs[t].arg
         IN  /\ g \in Grants /\ arg \in [link: 1 .. MaxLinks, installation: Installations]
             /\ arg.link \in DOMAIN links[g]
             /\ {GrantRow(g), LinkRow(g, arg.link)} \subseteq Held(t)
<1>1. Held(t) = txs[t].held /\ txs[t].want = <<>> /\ RedeemOrdered(t)
  BY Committing DEF Ops, Ordered
<1> QED BY <1>1, Short DEF RedeemOrdered, At

LEMMA LifecycleHeld ==
  ASSUME DeviceInv, NEW t \in Txs, NEW op \in Lifecycle, Commits(t, op)
  PROVE  LET g == txs[t].grant
         IN  /\ g \in Grants /\ grants[g].exists /\ GrantRow(g) \in Held(t)
             /\ \A i \in CurrentLinks(g) : LinkRow(g, i) \in Held(t)
<1>1. Held(t) = txs[t].held /\ txs[t].want = <<>> /\ LifecycleOrdered(t)
  BY Committing DEF Ops, Ordered
<1> QED BY <1>1, Short DEF LifecycleOrdered, At, CurrentRows

LEMMA RevocationHeld ==
  ASSUME DeviceInv, NEW t \in Txs, NEW op \in Revocations, Commits(t, op)
  PROVE  /\ GroupRow \in Held(t)
         /\ \A g \in Grants : LiveGrouped(g) => GrantRow(g) \in Held(t)
         /\ \A g \in Grants : GrantRow(g) \in Held(t) =>
              grants[g].exists /\ \A i \in CurrentLinks(g) : LinkRow(g, i) \in Held(t)
<1>1. Held(t) = txs[t].held /\ txs[t].want = <<>> /\ RevocationOrdered(t)
  BY Committing DEF Ops, Ordered
<1>2. \A h \in Grants : \A n \in 0 .. Len(links[h]) : ~Walking(t, h, n)
  <2>1. \A h \in Grants : 0 .. Len(links[h]) \subseteq 0 .. MaxLinks
    BY LinkNumbers, DeviceAssumption DEF DeviceInv
  <2> QED BY <1>1, <2>1, Walk DEF Walking
<1>3. ~At(t, <<GroupRow>>, {})
  BY <1>1, Short DEF At
<1>4. GroupRow \in txs[t].held /\ GrantsWithLinks(t) /\ Walked(t)
  BY <1>1, <1>2, <1>3 DEF RevocationOrdered
<1> QED BY <1>1, <1>4 DEF Walked, GrantsWithLinks, CurrentRows

LEMMA CreateHeld ==
  ASSUME DeviceInv, NEW t \in Txs, Commits(t, "CREATE")
  PROVE  LET g == txs[t].grant
         IN  /\ g \in Grants /\ txs[t].arg \in BOOLEAN /\ ~grants[g].exists
             /\ txs[t].arg => GroupRow \in Held(t)
<1>1. Held(t) = txs[t].held /\ txs[t].want = <<>> /\ CreateOrdered(t)
  BY Committing DEF Ops, Ordered
<1>2. CreateOrder(TRUE) # <<>> /\ CreateOrder(FALSE) # <<>>
  BY Short DEF CreateOrder
<1> QED BY <1>1, <1>2, Short DEF CreateOrdered, At

LEMMA AssignHeld ==
  ASSUME DeviceInv, NEW t \in Txs, Commits(t, "ASSIGN")
  PROVE  LET g == txs[t].grant
         IN  /\ g \in Grants /\ grants[g].exists
             /\ {GroupRow, GrantRow(g)} \subseteq Held(t)
<1>1. Held(t) = txs[t].held /\ txs[t].want = <<>> /\ AssignOrdered(t)
  BY Committing DEF Ops, Ordered
<1> QED BY <1>1, Short DEF AssignOrdered, At

LEMMA RenewalHeld ==
  ASSUME DeviceInv, NEW t \in Txs, NEW op \in Renewals, Commits(t, op)
  PROVE  LET g == txs[t].grant
         IN  g \in Grants /\ grants[g].exists /\ GrantRow(g) \in Held(t)
<1>1. Held(t) = txs[t].held /\ txs[t].want = <<>> /\ RenewalOrdered(t)
  BY Committing DEF Ops, Ordered
<1> QED BY <1>1, Short DEF RenewalOrdered, At

LEMMA RequireHeld ==
  ASSUME DeviceInv, NEW t \in Txs, Commits(t, "REQUIRE")
  PROVE  txs[t].arg \in BOOLEAN
BY Committing DEF Ops, Ordered, RequireOrdered

-----------------------------------------------------------------------------
(* One grant row and its links are written.                                *)

Available(s) == {i \in DOMAIN s : s[i] = "AVAILABLE"}

LEMMA Failed ==
  \A g : /\ GrantFailed(g) <=> grants[g].deleted \/ grants[g].disabled \/ grants[g].expired
         /\ GrantFailed(g)' <=> grants'[g].deleted \/ grants'[g].disabled \/ grants'[g].expired
         /\ GrantStatus(g) = "AVAILABLE" =>
              ~GrantFailed(g) /\ grants[g].device = NoInstallation
<1> TAKE g
<1>1. GrantFailed(g) <=> grants[g].deleted \/ grants[g].disabled \/ grants[g].expired
  BY DEF GrantFailed, GrantStatus
<1>2. GrantFailed(g)' <=> grants'[g].deleted \/ grants'[g].disabled \/ grants'[g].expired
  BY DEF GrantFailed, GrantStatus
<1>3. GrantStatus(g) = "AVAILABLE" => ~GrantFailed(g) /\ grants[g].device = NoInstallation
  BY DEF GrantFailed, GrantStatus
<1> QED BY <1>1, <1>2, <1>3

\* The states a grant may be left in.
RowSafe(row, s) ==
  /\ Available(s) # {} => /\ Cardinality(Available(s)) = 1
                          /\ ~row.disabled /\ ~row.deleted /\ row.device = NoInstallation
  /\ row.deleted /\ row.device # NoInstallation => row.revoked
  /\ place.archived /\ row.grouped => row.deleted
  /\ place.required /\ row.exists /\ ~row.grouped => row.deleted \/ row.disabled \/ row.expired

LEMMA RowsSafe ==
  /\ (CurrentLinkUsable /\ RevocationComplete /\ RequirementHolds)
       <=> \A g \in Grants : RowSafe(grants[g], links[g])
  /\ (CurrentLinkUsable /\ RevocationComplete /\ RequirementHolds)'
       <=> \A g \in Grants : RowSafe(grants[g], links[g])'
<1>1. \A g : Available(links[g]) = CurrentLinks(g) /\ Available(links[g])' = CurrentLinks(g)'
  BY DEF Available, CurrentLinks
<1>2. (CurrentLinkUsable /\ RevocationComplete /\ RequirementHolds)
       <=> \A g \in Grants : RowSafe(grants[g], links[g])
  BY <1>1, Failed DEF CurrentLinkUsable, RevocationComplete, DeletedDeviceRevoked,
       ArchivedGroupLeavesNoGrant, RequirementHolds, Ungrouped, RowSafe
<1>3. (CurrentLinkUsable /\ RevocationComplete /\ RequirementHolds)'
       <=> \A g \in Grants : RowSafe(grants[g], links[g])'
  BY <1>1, Failed DEF CurrentLinkUsable, RevocationComplete, DeletedDeviceRevoked,
       ArchivedGroupLeavesNoGrant, RequirementHolds, Ungrouped, RowSafe
<1> QED BY <1>2, <1>3

\* A token never comes back.
LEMMA TokensKept ==
  ASSUME RowsInv, UNCHANGED <<sessions, used>>,
         \A h \in Grants : /\ grants[h].token \in Nat /\ grants'[h].token \in Nat
                           /\ grants[h].token <= grants'[h].token
                           /\ grants[h].exists => grants'[h].exists
  PROVE  TokensSpent'
<1>1. ASSUME NEW h \in Grants, NEW n \in 0 .. MaxToken
      PROVE  used'[h][n] <= 1 /\ (n >= grants'[h].token => used'[h][n] = 0)
  <2>1. n >= grants'[h].token => n >= grants[h].token
    BY DeviceAssumption
  <2> QED BY <2>1 DEF RowsInv, TokensSpent
<1>2. \A r \in Refreshes : sessions[r] # Idle =>
        sessions[r].grant \in Grants /\ grants'[sessions[r].grant].exists
  BY DEF RowsInv, TokensSpent
<1> QED BY <1>1, <1>2 DEF RowsInv, TokensSpent

LEMMA RowWrite ==
  ASSUME RowsInv, NEW g \in Grants, NEW row \in GrantFields, NEW s \in Seq(LinkStates),
         grants' = [grants EXCEPT ![g] = row], links' = [links EXCEPT ![g] = s],
         UNCHANGED place, TokensSpent',
         row.exists, Len(s) <= MaxLinks, RowSafe(row, s)
  PROVE  /\ RowsInv' /\ grants'[g] = row /\ CurrentLinks(g)' = Available(s)
         /\ \A h \in Grants \ {g} : /\ grants'[h] = grants[h] /\ links'[h] = links[h]
                                    /\ CurrentLinks(h)' = CurrentLinks(h)
<1>1. /\ grants \in [Grants -> GrantFields] /\ links \in [Grants -> Seq(LinkStates)]
      /\ grants'[g] = row /\ links'[g] = s
      /\ \A h \in Grants \ {g} : grants'[h] = grants[h] /\ links'[h] = links[h]
  BY DEF RowsInv, RowTypes
<1>2. RowTypes'
  BY <1>1 DEF RowsInv, RowTypes
<1>4. \A h \in Grants : RowSafe(grants[h], links[h])'
  <2>1. \A h \in Grants : RowSafe(grants[h], links[h])
    BY RowsSafe DEF RowsInv
  <2>2. RowSafe(grants[g], links[g])'
    BY <1>1 DEF RowSafe, Available
  <2>3. ASSUME NEW h \in Grants \ {g}
        PROVE  RowSafe(grants[h], links[h])'
    <3>1. grants'[h] = grants[h] /\ links'[h] = links[h] /\ place' = place
      BY <1>1
    <3>2. RowSafe(grants[h], links[h])
      BY <2>1
    <3>3. Available(links[h])' = Available(links[h])
      BY <3>1 DEF Available
    <3> HIDE DEF Available
    <3> QED BY <3>1, <3>2, <3>3 DEF RowSafe
  <2> QED BY <2>2, <2>3
<1>5. CurrentLinks(g)' = Available(s)
  BY <1>1 DEF CurrentLinks, Available
<1>6. \A h \in Grants \ {g} : CurrentLinks(h)' = CurrentLinks(h)
  BY <1>1 DEF CurrentLinks
<1>7. RowsInv'
  BY <1>2, <1>4, RowsSafe DEF RowsInv
<1> QED BY <1>1, <1>5, <1>6, <1>7

LEMMA CommitRow ==
  ASSUME DeviceInv, NEW t \in Txs, NEW g \in Grants, NEW row \in GrantFields,
         NEW s \in Seq(LinkStates), txs' = [txs EXCEPT ![t] = Idle],
         grants' = [grants EXCEPT ![g] = row], links' = [links EXCEPT ![g] = s],
         UNCHANGED <<place, sessions, used>>,
         row.exists, Len(s) <= MaxLinks, grants[g].token <= row.token, RowSafe(row, s),
         Len(links[g]) <= Len(s),
         \A i \in CurrentLinks(g) : i \in Available(s) \/ LinkRow(g, i) \in Held(t),
         \/ Available(s) \subseteq CurrentLinks(g)
         \/ GrantRow(g) \in Held(t) \/ ~grants[g].exists,
         row.grouped /\ ~row.deleted => LiveGrouped(g) \/ GroupRow \in Held(t),
         grants[g].exists \/ (txs[t].op = "CREATE" /\ txs[t].grant = g)
  PROVE  DeviceInv'
<1>1. RowsInv
  BY DEF DeviceInv, RowsInv
<1>2. /\ RowsInv' /\ grants'[g] = row /\ CurrentLinks(g)' = Available(s)
      /\ \A h \in Grants \ {g} : /\ grants'[h] = grants[h] /\ links'[h] = links[h]
                                 /\ CurrentLinks(h)' = CurrentLinks(h)
  <2>1. grants \in [Grants -> GrantFields] /\ \A f \in GrantFields : f.token \in Nat
    BY <1>1, DeviceAssumption DEF RowsInv, RowTypes, GrantFields
  <2>2. TokensSpent'
    <3>1. \A h \in Grants : grants'[h] = IF h = g THEN row ELSE grants[h]
      BY <2>1
    <3>2. \A h \in Grants : /\ grants[h].token \in Nat /\ grants'[h].token \in Nat
                            /\ grants[h].token <= grants'[h].token
                            /\ grants[h].exists => grants'[h].exists
      BY <2>1, <3>1
    <3> QED BY <1>1, <3>2, TokensKept
  <2> QED BY <1>1, <2>2, RowWrite
<1>3. links'[g] = s /\ \A h \in Grants : Len(links[h]) \in Nat
  BY <1>1, LinkNumbers DEF RowsInv, RowTypes
<1>4. \A h \in Grants : Len(links[h]) <= Len(links'[h])
  BY <1>2, <1>3
<1>5. \A h \in Grants : LiveGrouped(h)' => LiveGrouped(h) \/ GroupRow \in Held(t)
  BY <1>2 DEF LiveGrouped
<1>6. \A h \in Grants : grants[h].exists => grants'[h].exists
  BY <1>2
<1>7. \A h \in Grants : \A i \in CurrentLinks(h) :
        i \in CurrentLinks(h)' \/ LinkRow(h, i) \in Held(t)
  BY <1>2
<1>8. \A h \in Grants : \/ CurrentLinks(h)' \subseteq CurrentLinks(h)
                        \/ GrantRow(h) \in Held(t) \/ ~grants[h].exists
  BY <1>2
<1>9. \A h \in Grants : grants'[h].exists =>
        grants[h].exists \/ (txs[t].op = "CREATE" /\ txs[t].grant = h)
  BY <1>2
<1> QED BY <1>2, <1>4, <1>5, <1>6, <1>7, <1>8, <1>9, CommitInv

\* revokeCredentials: the links of the grant keep their number, none is current.
LEMMA RevokedLinks ==
  ASSUME RowTypes, NEW g \in Grants
  PROVE  /\ Revoked(g) \in Seq(LinkStates) /\ Len(Revoked(g)) = Len(links[g])
         /\ DOMAIN Revoked(g) = DOMAIN links[g] /\ Available(Revoked(g)) = {}
         /\ Len(links[g]) \in Nat
<1>1. links[g] \in Seq(LinkStates) /\ Len(links[g]) \in Nat
      /\ DOMAIN links[g] = 1 .. Len(links[g])
  BY LinkNumbers DEF RowTypes
<1>2. \A i \in DOMAIN links[g] :
        (IF i \in CurrentLinks(g) THEN "REVOKED" ELSE links[g][i]) \in LinkStates \ {"AVAILABLE"}
  BY <1>1 DEF CurrentLinks, LinkStates
<1>3. DOMAIN Revoked(g) = DOMAIN links[g] /\ \A i \in DOMAIN links[g] :
        Revoked(g)[i] \in LinkStates \ {"AVAILABLE"}
  BY <1>2 DEF Revoked
<1>4. Revoked(g) \in Seq(LinkStates) /\ Len(Revoked(g)) = Len(links[g])
  BY <1>1, <1>2 DEF Revoked
<1> QED BY <1>1, <1>3, <1>4 DEF Available

-----------------------------------------------------------------------------
(* Each transaction writes.                                                *)

LEMMA GrantRowType ==
  ASSUME RowTypes, NEW g \in Grants
  PROVE  /\ grants[g] \in GrantFields /\ links[g] \in Seq(LinkStates)
         /\ Len(links[g]) \in Nat /\ Len(links[g]) <= MaxLinks
         /\ grants[g].token \in Nat /\ MaxToken \in Nat
         /\ Available(links[g]) = CurrentLinks(g)
BY LinkNumbers, DeviceAssumption DEF RowTypes, GrantFields, Available, CurrentLinks

LEMMA BindStep ==
  ASSUME DeviceInv, NEW t \in Txs, Bind(t)
  PROVE  DeviceInv'
<1> PICK g, arg : g = txs[t].grant /\ arg = txs[t].arg
  OBVIOUS
<1> DEFINE i == arg.link
           row == [[grants[g] EXCEPT !.device = arg.installation] EXCEPT !.retry = TRUE]
           s == [links[g] EXCEPT ![i] = "CONSUMED"]
<1>1. /\ g \in Grants /\ arg.installation \in Installations /\ i \in DOMAIN links[g]
      /\ {GrantRow(g), LinkRow(g, i)} \subseteq Held(t)
  BY RedeemHeld DEF Bind
<1>2. /\ txs' = [txs EXCEPT ![t] = Idle] /\ UNCHANGED <<place, sessions, used>>
      /\ ~GrantFailed(g) /\ links[g][i] = "AVAILABLE"
      /\ grants' = [grants EXCEPT ![g] = row] /\ links' = [links EXCEPT ![g] = s]
  BY DEF Bind, Commits
<1>3. RowTypes /\ RowSafe(grants[g], links[g])
  BY <1>1, RowsSafe DEF DeviceInv
<1>4. /\ grants[g] \in GrantFields /\ links[g] \in Seq(LinkStates)
      /\ Len(links[g]) \in Nat /\ Len(links[g]) <= MaxLinks
      /\ grants[g].token \in Nat /\ Available(links[g]) = CurrentLinks(g)
  BY <1>1, <1>3, GrantRowType
<1>5. grants[g].exists
  BY <1>1, <1>3, <1>4 DEF RowTypes
<1>6. /\ row \in GrantFields /\ row.exists /\ row.token = grants[g].token
      /\ row.grouped = grants[g].grouped /\ row.deleted = grants[g].deleted
      /\ row.disabled = grants[g].disabled /\ row.expired = grants[g].expired
  BY <1>1, <1>4, <1>5 DEF GrantFields
<1>7. /\ s \in Seq(LinkStates) /\ Len(s) = Len(links[g]) /\ Available(s) = CurrentLinks(g) \ {i}
  BY <1>1, <1>4 DEF LinkStates, Available, CurrentLinks
<1>8. i \in CurrentLinks(g) /\ CurrentLinks(g) = {i}
  BY <1>1, <1>2, OnlyCurrent DEF CurrentLinks
<1>9. Available(s) = {}
  BY <1>7, <1>8
<1>10. RowSafe(row, s)
  BY <1>2, <1>3, <1>5, <1>6, <1>9, Failed DEF RowSafe
<1>11. row.grouped /\ ~row.deleted => LiveGrouped(g)
  BY <1>5, <1>6 DEF LiveGrouped
<1> HIDE DEF row, s
<1>12. /\ Len(s) <= MaxLinks /\ Len(links[g]) <= Len(s) /\ grants[g].token <= row.token
       /\ Available(s) \subseteq CurrentLinks(g)
       /\ \A j \in CurrentLinks(g) : LinkRow(g, j) \in Held(t)
  BY <1>1, <1>4, <1>6, <1>7, <1>8, <1>9
<1> QED BY <1>1, <1>2, <1>5, <1>6, <1>7, <1>10, <1>11, <1>12, CommitRow

LEMMA CommitKeepingLinks ==
  ASSUME DeviceInv, NEW t \in Txs, NEW g \in Grants, NEW row \in GrantFields,
         txs' = [txs EXCEPT ![t] = Idle], grants' = [grants EXCEPT ![g] = row],
         UNCHANGED <<links, place, sessions, used>>,
         grants[g].exists, row.exists, grants[g].token <= row.token,
         RowSafe(row, links[g]),
         row.grouped /\ ~row.deleted => LiveGrouped(g) \/ GroupRow \in Held(t)
  PROVE  DeviceInv'
<1> DEFINE s == links[g]
<1>1. RowTypes
  BY DEF DeviceInv
<1>2. s \in Seq(LinkStates) /\ Len(s) <= MaxLinks /\ Len(s) <= Len(s)
      /\ Available(s) = CurrentLinks(g)
  BY <1>1, GrantRowType
<1>3. links' = [links EXCEPT ![g] = s]
  BY <1>1 DEF RowTypes
<1> HIDE DEF s
<1>4. RowSafe(row, s) /\ Len(links[g]) <= Len(s)
  BY <1>2 DEF s
<1> QED BY <1>2, <1>3, <1>4, CommitRow

LEMMA BindAgainStep ==
  ASSUME DeviceInv, NEW t \in Txs, BindAgain(t)
  PROVE  DeviceInv'
<1> PICK g : g = txs[t].grant
  OBVIOUS
<1> DEFINE row == [grants[g] EXCEPT !.token = @ + 1]
<1>1. g \in Grants /\ txs[t].arg.link \in DOMAIN links[g]
  BY RedeemHeld DEF BindAgain
<1>2. /\ txs' = [txs EXCEPT ![t] = Idle] /\ UNCHANGED <<links, place, sessions, used>>
      /\ grants' = [grants EXCEPT ![g] = row] /\ grants[g].token < MaxToken
  BY DEF BindAgain, Commits
<1>3. RowTypes /\ RowSafe(grants[g], links[g])
  BY <1>1, RowsSafe DEF DeviceInv
<1>4. grants[g] \in GrantFields /\ grants[g].token \in Nat /\ MaxToken \in Nat
  BY <1>1, <1>3, GrantRowType
<1>5. grants[g].exists
  BY <1>1, <1>3 DEF RowTypes
<1>6. /\ row \in GrantFields /\ row.exists /\ grants[g].token <= row.token
      /\ row.grouped = grants[g].grouped /\ row.deleted = grants[g].deleted
      /\ row.disabled = grants[g].disabled /\ row.expired = grants[g].expired
      /\ row.device = grants[g].device /\ row.revoked = grants[g].revoked
  BY <1>2, <1>4, <1>5 DEF GrantFields
<1>7. RowSafe(row, links[g])
  BY <1>3, <1>5, <1>6 DEF RowSafe
<1>8. row.grouped /\ ~row.deleted => LiveGrouped(g)
  BY <1>5, <1>6 DEF LiveGrouped
<1> HIDE DEF row
<1> QED BY <1>1, <1>2, <1>5, <1>6, <1>7, <1>8, CommitKeepingLinks

\* A grant that has its links revoked is disabled or deleted with them.
LEMMA CommitRevokingLinks ==
  ASSUME DeviceInv, NEW t \in Txs, NEW op \in Lifecycle, Commits(t, op),
         NEW row \in GrantFields, UNCHANGED place,
         grants' = [grants EXCEPT ![txs[t].grant] = row],
         links' = [links EXCEPT ![txs[t].grant] = Revoked(txs[t].grant)],
         row.exists = grants[txs[t].grant].exists, row.token = grants[txs[t].grant].token,
         row.grouped = grants[txs[t].grant].grouped,
         row.device = grants[txs[t].grant].device, row.expired = grants[txs[t].grant].expired,
         row.disabled = grants[txs[t].grant].disabled \/ row.disabled,
         row.deleted = grants[txs[t].grant].deleted \/ row.deleted,
         row.deleted /\ row.device # NoInstallation => row.revoked
  PROVE  DeviceInv'
<1> PICK g : g = txs[t].grant
  OBVIOUS
<1>1. /\ g \in Grants /\ grants[g].exists /\ GrantRow(g) \in Held(t)
      /\ \A i \in CurrentLinks(g) : LinkRow(g, i) \in Held(t)
  BY LifecycleHeld
<1>2. /\ txs' = [txs EXCEPT ![t] = Idle] /\ UNCHANGED <<place, sessions, used>>
  BY DEF Commits
<1>3. RowTypes /\ RowSafe(grants[g], links[g])
  BY <1>1, RowsSafe DEF DeviceInv
<1>4. grants[g] \in GrantFields /\ grants[g].token \in Nat /\ Len(links[g]) <= MaxLinks
  BY <1>1, <1>3, GrantRowType
<1> DEFINE s == Revoked(g)
<1>5. /\ s \in Seq(LinkStates) /\ Len(s) = Len(links[g]) /\ Available(s) = {}
      /\ Len(links[g]) \in Nat
  BY <1>1, <1>3, RevokedLinks
<1> HIDE DEF s
<1>6. RowSafe(row, s)
  BY <1>1, <1>3, <1>5 DEF RowSafe
<1>7. row.grouped /\ ~row.deleted => LiveGrouped(g)
  BY <1>1 DEF LiveGrouped
<1>8. /\ Len(s) <= MaxLinks /\ Len(links[g]) <= Len(s) /\ grants[g].token <= row.token
      /\ Available(s) \subseteq CurrentLinks(g)
  BY <1>4, <1>5
<1>9. /\ grants' = [grants EXCEPT ![g] = row] /\ links' = [links EXCEPT ![g] = s]
      /\ row.exists
  BY <1>1 DEF s
<1> QED BY <1>1, <1>2, <1>5, <1>6, <1>7, <1>8, <1>9, CommitRow

LEMMA DisableStep ==
  ASSUME DeviceInv, NEW t \in Txs, Disable(t)
  PROVE  DeviceInv'
<1> PICK g : g = txs[t].grant
  OBVIOUS
<1> DEFINE row == [grants[g] EXCEPT !.disabled = TRUE]
<1>1. "DISABLE" \in Lifecycle /\ Commits(t, "DISABLE")
  BY DEF Lifecycle, Disable
<1>2. g \in Grants
  BY <1>1, LifecycleHeld
<1>3. RowTypes /\ RowSafe(grants[g], links[g])
  BY <1>2, RowsSafe DEF DeviceInv
<1>4. grants[g] \in GrantFields
  BY <1>2, <1>3, GrantRowType
<1>5. /\ row \in GrantFields /\ row.exists = grants[g].exists /\ row.token = grants[g].token
      /\ row.grouped = grants[g].grouped /\ row.deleted = grants[g].deleted
      /\ row.disabled = TRUE /\ row.expired = grants[g].expired
      /\ row.device = grants[g].device /\ row.revoked = grants[g].revoked
      /\ row.deleted \in BOOLEAN
  BY <1>4 DEF GrantFields
<1>6. /\ grants' = [grants EXCEPT ![g] = row] /\ links' = [links EXCEPT ![g] = Revoked(g)]
      /\ UNCHANGED place
  BY DEF Disable
<1>7. row.deleted /\ row.device # NoInstallation => row.revoked
  BY <1>3, <1>5 DEF RowSafe
<1> HIDE DEF row
<1>8. /\ row.disabled = (grants[g].disabled \/ row.disabled)
      /\ row.deleted = (grants[g].deleted \/ row.deleted)
  BY <1>5
<1> QED BY <1>1, <1>5, <1>6, <1>7, <1>8, CommitRevokingLinks

LEMMA DeleteStep ==
  ASSUME DeviceInv, NEW t \in Txs, Delete(t)
  PROVE  DeviceInv'
<1> PICK g : g = txs[t].grant
  OBVIOUS
<1> DEFINE row == [[grants[g] EXCEPT !.deleted = TRUE]
                     EXCEPT !.revoked = @ \/ grants[g].device # NoInstallation]
<1>1. "DELETE" \in Lifecycle /\ Commits(t, "DELETE")
  BY DEF Lifecycle, Delete
<1>2. g \in Grants
  BY <1>1, LifecycleHeld
<1>3. RowTypes /\ RowSafe(grants[g], links[g])
  BY <1>2, RowsSafe DEF DeviceInv
<1>4. grants[g] \in GrantFields
  BY <1>2, <1>3, GrantRowType
<1>5. /\ row \in GrantFields /\ row.exists = grants[g].exists /\ row.token = grants[g].token
      /\ row.grouped = grants[g].grouped /\ row.disabled = grants[g].disabled
      /\ row.deleted = TRUE /\ row.expired = grants[g].expired
      /\ row.device = grants[g].device
      /\ row.revoked = (grants[g].revoked \/ grants[g].device # NoInstallation)
      /\ row.disabled \in BOOLEAN
  BY <1>4 DEF GrantFields
<1>6. /\ grants' = [grants EXCEPT ![g] = row] /\ links' = [links EXCEPT ![g] = Revoked(g)]
      /\ UNCHANGED place
  BY DEF Delete
<1> HIDE DEF row
<1>7. row.deleted /\ row.device # NoInstallation => row.revoked
  BY <1>5
<1>8. /\ row.disabled = (grants[g].disabled \/ row.disabled)
      /\ row.deleted = (grants[g].deleted \/ row.deleted)
  BY <1>5
<1> QED BY <1>1, <1>5, <1>6, <1>7, <1>8, CommitRevokingLinks

LEMMA RegenerateStep ==
  ASSUME DeviceInv, NEW t \in Txs, Regenerate(t)
  PROVE  DeviceInv'
<1> PICK g : g = txs[t].grant
  OBVIOUS
<1> DEFINE row == grants[g]
           s == Append(Revoked(g), "AVAILABLE")
           n == Len(links[g]) + 1
<1>0. "REGENERATE" \in Lifecycle /\ Commits(t, "REGENERATE")
  BY DEF Lifecycle, Regenerate
<1>1. /\ g \in Grants /\ grants[g].exists /\ GrantRow(g) \in Held(t)
      /\ \A i \in CurrentLinks(g) : LinkRow(g, i) \in Held(t)
  BY <1>0, LifecycleHeld
<1>2. /\ txs' = [txs EXCEPT ![t] = Idle] /\ UNCHANGED <<grants, place, sessions, used>>
      /\ links' = [links EXCEPT ![g] = s] /\ Len(links[g]) < MaxLinks
      /\ ~GrantFailed(g) /\ grants[g].device = NoInstallation
  BY <1>0, Failed DEF Regenerate, Regenerable, Commits
<1>3. RowTypes /\ RowSafe(grants[g], links[g])
  BY <1>1, RowsSafe DEF DeviceInv
<1>4. /\ row \in GrantFields /\ row.token \in Nat /\ row.token <= row.token
  BY <1>1, <1>3, GrantRowType
<1>5. /\ Revoked(g) \in Seq(LinkStates) /\ Len(Revoked(g)) = Len(links[g])
      /\ DOMAIN Revoked(g) = DOMAIN links[g] /\ Available(Revoked(g)) = {}
      /\ Len(links[g]) \in Nat
  BY <1>1, <1>3, RevokedLinks
<1>6. /\ s \in Seq(LinkStates) /\ Len(s) = n /\ DOMAIN s = 1 .. n
      /\ \A i \in 1 .. n : s[i] = IF i = n THEN "AVAILABLE" ELSE Revoked(g)[i]
  BY <1>5 DEF LinkStates
<1>7. \A i \in 1 .. n : i # n => Revoked(g)[i] # "AVAILABLE"
  <2>1. \A i \in 1 .. n : i # n => i \in DOMAIN Revoked(g)
    BY <1>5
  <2> QED BY <1>5, <2>1 DEF Available
<1>8. Available(s) = {n} /\ Cardinality({n}) = 1
  <2>1. n \in 1 .. n
    BY <1>5
  <2> HIDE DEF s, n
  <2>2. \A i \in 1 .. n : s[i] = "AVAILABLE" <=> i = n
    BY <1>6, <1>7
  <2>3. Available(s) = {n}
    BY <1>6, <2>1, <2>2 DEF Available
  <2> QED BY <2>3, FS_Singleton
<1>9. grants' = [grants EXCEPT ![g] = row]
  BY <1>2, <1>3 DEF RowTypes
<1>10. RowSafe(row, s)
  BY <1>1, <1>2, <1>3, <1>8, Failed DEF RowSafe
<1>11. row.grouped /\ ~row.deleted => LiveGrouped(g)
  BY <1>1 DEF LiveGrouped
<1>12. Len(s) <= MaxLinks /\ Len(links[g]) <= Len(s)
  BY <1>2, <1>5, <1>6, DeviceAssumption
<1> HIDE DEF row, s
<1>13. row.exists /\ grants[g].token <= row.token
  BY <1>1, <1>4 DEF row
<1> QED BY <1>1, <1>2, <1>4, <1>6, <1>9, <1>10, <1>11, <1>12, <1>13, CommitRow

LEMMA CreateStep ==
  ASSUME DeviceInv, NEW t \in Txs, Create(t)
  PROVE  DeviceInv'
<1> PICK g, grouped : g = txs[t].grant /\ grouped = txs[t].arg
  OBVIOUS
<1> DEFINE row == [[Absent EXCEPT !.exists = TRUE] EXCEPT !.grouped = grouped]
           s == <<"AVAILABLE">>
<1>1. /\ g \in Grants /\ grouped \in BOOLEAN /\ ~grants[g].exists
      /\ grouped => GroupRow \in Held(t)
  BY CreateHeld DEF Create
<1>2. /\ txs' = [txs EXCEPT ![t] = Idle] /\ UNCHANGED <<place, sessions, used>>
      /\ grants' = [grants EXCEPT ![g] = row] /\ links' = [links EXCEPT ![g] = s]
      /\ txs[t].op = "CREATE" /\ GroupAdmits(grouped)
  BY DEF Create, Commits
<1>3. RowTypes /\ grants[g] = Absent /\ links[g] = <<>>
  BY <1>1 DEF DeviceInv, RowTypes
<1>4. /\ row \in GrantFields /\ row.exists /\ row.token = 0 /\ row.grouped = grouped
      /\ ~row.deleted /\ ~row.disabled /\ row.device = NoInstallation
  <2>1. Absent \in GrantFields
    BY DeviceAssumption DEF GrantFields, Absent
  <2>2. Absent.token = 0 /\ ~Absent.deleted /\ ~Absent.disabled
        /\ Absent.device = NoInstallation
    BY DEF Absent
  <2> QED BY <1>1, <2>1, <2>2 DEF GrantFields
<1>5. grants[g].token <= row.token
  BY <1>3, <1>4 DEF Absent
<1>6. /\ s \in Seq(LinkStates) /\ Len(s) = 1 /\ Available(s) = {1} /\ Cardinality({1}) = 1
      /\ Len(links[g]) = 0
  <2>1. s \in Seq(LinkStates) /\ Len(s) = 1 /\ Len(links[g]) = 0
    BY <1>3 DEF LinkStates
  <2>2. DOMAIN s = {1} /\ s[1] = "AVAILABLE"
    OBVIOUS
  <2>3. Available(s) = {1}
    BY <2>2 DEF Available
  <2> QED BY <2>1, <2>3, FS_Singleton
<1>7. Len(s) <= MaxLinks /\ Len(links[g]) <= Len(s) /\ CurrentLinks(g) = {}
  BY <1>3, <1>6, DeviceAssumption DEF CurrentLinks
<1> HIDE DEF row, s
<1>8. RowSafe(row, s)
  BY <1>1, <1>2, <1>4, <1>6 DEF RowSafe, GroupAdmits
<1> QED BY <1>1, <1>2, <1>4, <1>5, <1>6, <1>7, <1>8, CommitRow

LEMMA AssignStep ==
  ASSUME DeviceInv, NEW t \in Txs, AssignGroup(t)
  PROVE  DeviceInv'
<1> PICK g : g = txs[t].grant
  OBVIOUS
<1> DEFINE row == [grants[g] EXCEPT !.grouped = TRUE]
<1>1. g \in Grants /\ grants[g].exists /\ GroupRow \in Held(t)
  BY AssignHeld DEF AssignGroup
<1>2. /\ txs' = [txs EXCEPT ![t] = Idle] /\ UNCHANGED <<links, place, sessions, used>>
      /\ grants' = [grants EXCEPT ![g] = row] /\ GroupAdmits(TRUE)
  BY DEF AssignGroup, Commits
<1>3. RowTypes /\ RowSafe(grants[g], links[g])
  BY <1>1, RowsSafe DEF DeviceInv
<1>4. grants[g] \in GrantFields /\ grants[g].token \in Nat
  BY <1>1, <1>3, GrantRowType
<1>5. /\ row \in GrantFields /\ row.exists /\ row.token = grants[g].token
      /\ row.grouped /\ row.deleted = grants[g].deleted /\ row.disabled = grants[g].disabled
      /\ row.device = grants[g].device /\ row.revoked = grants[g].revoked
  BY <1>1, <1>4 DEF GrantFields
<1>6. RowSafe(row, links[g])
  BY <1>2, <1>3, <1>5 DEF RowSafe, GroupAdmits
<1>7. grants[g].token <= row.token
  BY <1>4, <1>5
<1> HIDE DEF row
<1> QED BY <1>1, <1>2, <1>5, <1>6, <1>7, CommitKeepingLinks

\* A grant is enabled, or its expiry moved, only where its group admits it.
LEMMA RenewalStep ==
  ASSUME DeviceInv, NEW t \in Txs, NEW op \in Renewals, Commits(t, op),
         Renewable(txs[t].grant), NEW row \in GrantFields,
         grants' = [grants EXCEPT ![txs[t].grant] = row], UNCHANGED <<links, place>>,
         row.exists = grants[txs[t].grant].exists, row.token = grants[txs[t].grant].token,
         row.grouped = grants[txs[t].grant].grouped, row.deleted = grants[txs[t].grant].deleted,
         row.device = grants[txs[t].grant].device,
         row.disabled => grants[txs[t].grant].disabled
  PROVE  DeviceInv'
<1> PICK g : g = txs[t].grant
  OBVIOUS
<1>1. g \in Grants /\ grants[g].exists
  BY RenewalHeld
<1>2. /\ txs' = [txs EXCEPT ![t] = Idle] /\ UNCHANGED <<links, place, sessions, used>>
      /\ ~grants[g].deleted /\ GroupAdmits(grants[g].grouped)
  BY DEF Renewable, Commits
<1>3. RowTypes /\ RowSafe(grants[g], links[g])
  BY <1>1, RowsSafe DEF DeviceInv
<1>4. grants[g].token \in Nat /\ grants[g].token <= row.token
  BY <1>1, <1>3, GrantRowType
<1>5. RowSafe(row, links[g])
  BY <1>2, <1>3 DEF RowSafe, GroupAdmits
<1>6. row.grouped /\ ~row.deleted => LiveGrouped(g)
  BY <1>1 DEF LiveGrouped
<1> QED BY <1>1, <1>2, <1>4, <1>5, <1>6, CommitKeepingLinks

LEMMA EnableStep ==
  ASSUME DeviceInv, NEW t \in Txs, Enable(t)
  PROVE  DeviceInv'
<1> PICK g : g = txs[t].grant
  OBVIOUS
<1> DEFINE row == [grants[g] EXCEPT !.disabled = FALSE]
<1>1. "ENABLE" \in Renewals /\ Commits(t, "ENABLE") /\ Renewable(g)
  BY DEF Renewals, Enable
<1>2. g \in Grants
  BY <1>1, RenewalHeld
<1>3. grants[g] \in GrantFields
  BY <1>2, GrantRowType DEF DeviceInv
<1>4. /\ row \in GrantFields /\ row.exists = grants[g].exists /\ row.token = grants[g].token
      /\ row.grouped = grants[g].grouped /\ row.deleted = grants[g].deleted
      /\ row.device = grants[g].device /\ ~row.disabled
  BY <1>3 DEF GrantFields
<1>5. grants' = [grants EXCEPT ![g] = row] /\ UNCHANGED <<links, place>>
  BY DEF Enable
<1> HIDE DEF row
<1> QED BY <1>1, <1>4, <1>5, RenewalStep

LEMMA UpdateExpirationStep ==
  ASSUME DeviceInv, NEW t \in Txs, UpdateExpiration(t)
  PROVE  DeviceInv'
<1> PICK g : g = txs[t].grant
  OBVIOUS
<1> DEFINE row == [grants[g] EXCEPT !.expired = FALSE]
<1>1. "EXTEND" \in Renewals /\ Commits(t, "EXTEND") /\ Renewable(g)
  BY DEF Renewals, UpdateExpiration
<1>2. g \in Grants
  BY <1>1, RenewalHeld
<1>3. grants[g] \in GrantFields
  BY <1>2, GrantRowType DEF DeviceInv
<1>4. /\ row \in GrantFields /\ row.exists = grants[g].exists /\ row.token = grants[g].token
      /\ row.grouped = grants[g].grouped /\ row.deleted = grants[g].deleted
      /\ row.device = grants[g].device /\ row.disabled = grants[g].disabled
  BY <1>3 DEF GrantFields
<1>5. grants' = [grants EXCEPT ![g] = row] /\ UNCHANGED <<links, place>>
  BY DEF UpdateExpiration
<1> HIDE DEF row
<1> QED BY <1>1, <1>4, <1>5, RenewalStep

\* Archiving the group and removing the member delete the grants they walked.
LEMMA RevokeStep ==
  ASSUME DeviceInv, NEW t \in Txs, NEW op \in Revocations, Commits(t, op),
         RevokeCredentials(t), place'.required = place.required,
         place' \in [required: BOOLEAN, member: BOOLEAN, archived: BOOLEAN]
  PROVE  DeviceInv'
<1> DEFINE taken(g) == GrantRow(g) \in Held(t)
<1>1. /\ GroupRow \in Held(t) /\ \A g \in Grants : LiveGrouped(g) => taken(g)
      /\ \A g \in Grants : taken(g) =>
           grants[g].exists /\ \A i \in CurrentLinks(g) : LinkRow(g, i) \in Held(t)
  BY RevocationHeld
<1>2. /\ txs' = [txs EXCEPT ![t] = Idle] /\ UNCHANGED <<sessions, used>>
      /\ Held(t) = txs[t].held /\ RowsInv /\ RowTypes
  BY Committing DEF Commits, DeviceInv, RowsInv, Ops
<1>3. \A g \in Grants : grants[g] \in GrantFields /\ links[g] \in Seq(LinkStates)
  BY <1>2 DEF RowTypes
<1>4. /\ DOMAIN grants' = Grants /\ DOMAIN links' = Grants
      /\ grants' = [g \in Grants |-> grants'[g]] /\ links' = [g \in Grants |-> links'[g]]
  BY DEF RevokeCredentials, GrantsRevoked
<1>5. ASSUME NEW g \in Grants, taken(g)
      PROVE  /\ grants'[g] \in GrantFields /\ grants'[g].exists /\ grants[g].exists
             /\ grants'[g].deleted /\ grants'[g].token = grants[g].token
             /\ grants'[g].device = grants[g].device
             /\ (grants'[g].device # NoInstallation => grants'[g].revoked)
             /\ links'[g] = Revoked(g) /\ links'[g] \in Seq(LinkStates)
             /\ Len(links'[g]) = Len(links[g]) /\ Available(links'[g]) = {}
  <2> DEFINE row == [[grants[g] EXCEPT !.deleted = TRUE]
                       EXCEPT !.revoked = @ \/ grants[g].device # NoInstallation]
  <2>1. grants'[g] = row /\ links'[g] = Revoked(g) /\ grants[g].exists
    BY <1>1, <1>2, <1>5 DEF RevokeCredentials, GrantsRevoked, Holds
  <2>2. /\ row \in GrantFields /\ row.exists = grants[g].exists /\ row.deleted = TRUE
        /\ row.token = grants[g].token /\ row.device = grants[g].device
        /\ row.revoked = (grants[g].revoked \/ grants[g].device # NoInstallation)
    BY <1>3 DEF GrantFields
  <2>3. /\ Revoked(g) \in Seq(LinkStates) /\ Len(Revoked(g)) = Len(links[g])
        /\ Available(Revoked(g)) = {}
    BY <1>2, RevokedLinks
  <2> HIDE DEF row
  <2> QED BY <2>1, <2>2, <2>3
<1>6. ASSUME NEW g \in Grants, ~taken(g)
      PROVE  grants'[g] = grants[g] /\ links'[g] = links[g] /\ (grants[g].grouped => grants[g].deleted)
  <2>1. grants'[g] = grants[g] /\ links'[g] = links[g]
    BY <1>2, <1>6 DEF RevokeCredentials, GrantsRevoked, Holds
  <2>2. ~LiveGrouped(g)
    BY <1>1, <1>6
  <2>3. ~grants[g].exists => ~grants[g].grouped
    BY <1>2 DEF RowTypes, Absent
  <2> QED BY <2>1, <2>2, <2>3 DEF LiveGrouped
<1>7. RowTypes'
  <2>1. \A g \in Grants : /\ grants'[g] \in GrantFields /\ links'[g] \in Seq(LinkStates)
                          /\ Len(links'[g]) <= MaxLinks
                          /\ ~grants'[g].exists => grants'[g] = Absent /\ links'[g] = <<>>
    BY <1>2, <1>3, <1>5, <1>6 DEF RowTypes
  <2>2. grants' \in [Grants -> GrantFields] /\ links' \in [Grants -> Seq(LinkStates)]
    BY <1>4, <2>1
  <2> QED BY <2>1, <2>2 DEF RowTypes
<1>8. TokensSpent'
  <2>1. \A g \in Grants : grants'[g].token = grants[g].token /\ grants[g].token \in Nat
    BY <1>2, <1>5, <1>6, GrantRowType
  <2>2. \A g \in Grants : grants[g].token <= grants'[g].token
    BY <2>1
  <2>3. \A g \in Grants : grants[g].exists => grants'[g].exists
    BY <1>5, <1>6
  <2> QED BY <1>2, <2>1, <2>2, <2>3, TokensKept
<1>9. \A g \in Grants : RowSafe(grants[g], links[g])'
  <2> SUFFICES ASSUME NEW g \in Grants PROVE RowSafe(grants[g], links[g])'
    OBVIOUS
  <2>1. CASE taken(g)
    BY <1>5, <2>1 DEF RowSafe, Available
  <2>2. CASE ~taken(g)
    <3>1. RowSafe(grants[g], links[g])
      BY RowsSafe DEF DeviceInv
    <3> QED BY <1>6, <2>2, <3>1 DEF RowSafe, Available
  <2> QED BY <2>1, <2>2
<1>10. RowsInv'
  BY <1>7, <1>8, <1>9, RowsSafe DEF RowsInv
<1>11. ASSUME NEW g \in Grants
       PROVE  /\ grants'[g].exists = grants[g].exists /\ Len(links[g]) <= Len(links'[g])
              /\ \A i \in CurrentLinks(g) : i \in CurrentLinks(g)' \/ LinkRow(g, i) \in Held(t)
              /\ CurrentLinks(g)' \subseteq CurrentLinks(g)
  <2>0. Len(links[g]) \in Nat
    BY <1>2, GrantRowType
  <2>1. CASE taken(g)
    <3>1. CurrentLinks(g)' = {}
      BY <1>5, <2>1 DEF CurrentLinks, Available
    <3>2. grants[g].exists \in BOOLEAN /\ grants'[g].exists \in BOOLEAN
      BY <1>3, <1>5, <2>1 DEF GrantFields
    <3> QED BY <1>1, <1>5, <2>0, <2>1, <3>1, <3>2
  <2>2. CASE ~taken(g)
    BY <1>6, <2>0, <2>2 DEF CurrentLinks
  <2> QED BY <2>1, <2>2
<1> QED BY <1>1, <1>2, <1>10, <1>11, CommitInv

LEMMA ArchiveStep ==
  ASSUME DeviceInv, NEW t \in Txs, ArchiveGroup(t)
  PROVE  DeviceInv'
<1>1. "ARCHIVE" \in Revocations
  BY DEF Revocations
<1>2. place \in [required: BOOLEAN, member: BOOLEAN, archived: BOOLEAN]
  BY DEF DeviceInv, RowTypes
<1>3. place'.required = place.required
      /\ place' \in [required: BOOLEAN, member: BOOLEAN, archived: BOOLEAN]
  BY <1>2 DEF ArchiveGroup
<1> QED BY <1>1, <1>3, RevokeStep DEF ArchiveGroup

LEMMA RemoveStep ==
  ASSUME DeviceInv, NEW t \in Txs, RemoveMember(t)
  PROVE  DeviceInv'
<1>1. "REMOVE" \in Revocations
  BY DEF Revocations
<1>2. place \in [required: BOOLEAN, member: BOOLEAN, archived: BOOLEAN]
  BY DEF DeviceInv, RowTypes
<1>3. place'.required = place.required
      /\ place' \in [required: BOOLEAN, member: BOOLEAN, archived: BOOLEAN]
  BY <1>2 DEF RemoveMember
<1> QED BY <1>1, <1>3, RevokeStep DEF RemoveMember

\* Only the switch of the organization or the membership changes.
LEMMA PlaceRows ==
  ASSUME RowsInv, UNCHANGED <<grants, links, sessions, used>>,
         place' \in [required: BOOLEAN, member: BOOLEAN, archived: BOOLEAN],
         place'.archived = place.archived,
         place'.required /\ ~place.required => Ungrouped = {}
  PROVE  RowsInv'
<1>1. RowTypes'
  BY DEF RowsInv, RowTypes
<1>2. TokensSpent'
  BY DEF RowsInv, TokensSpent
<1>3. ASSUME NEW g \in Grants PROVE RowSafe(grants[g], links[g])'
  <2>1. RowSafe(grants[g], links[g])
    BY RowsSafe DEF RowsInv
  <2>2. place'.required /\ grants[g].exists /\ ~grants[g].grouped =>
          grants[g].deleted \/ grants[g].disabled \/ grants[g].expired
    BY <2>1, Failed DEF Ungrouped, RowSafe
  <2> QED BY <2>1, <2>2 DEF RowSafe, Available
<1> QED BY <1>1, <1>2, <1>3, RowsSafe DEF RowsInv

LEMMA RequireStep ==
  ASSUME DeviceInv, NEW t \in Txs, SetGroupRequirement(t)
  PROVE  DeviceInv'
<1>1. txs[t].arg \in BOOLEAN
  BY RequireHeld DEF SetGroupRequirement
<1>2. /\ txs' = [txs EXCEPT ![t] = Idle] /\ UNCHANGED <<grants, links, sessions, used>>
      /\ place' = [place EXCEPT !.required = txs[t].arg]
      /\ txs[t].arg => Ungrouped = {}
  BY DEF SetGroupRequirement, Commits
<1>3. place \in [required: BOOLEAN, member: BOOLEAN, archived: BOOLEAN] /\ RowTypes /\ RowsInv
  BY DEF DeviceInv, RowTypes, RowsInv
<1>4. /\ place' \in [required: BOOLEAN, member: BOOLEAN, archived: BOOLEAN]
      /\ place'.required = txs[t].arg /\ place'.archived = place.archived
  BY <1>1, <1>2, <1>3
<1>5. RowsInv'
  BY <1>2, <1>3, <1>4, PlaceRows
<1>6. \A g \in Grants : /\ grants'[g] = grants[g] /\ links'[g] = links[g]
                        /\ Len(links[g]) \in Nat /\ CurrentLinks(g)' = CurrentLinks(g)
                        /\ LiveGrouped(g)' = LiveGrouped(g)
  BY <1>2, <1>3, GrantRowType DEF CurrentLinks, LiveGrouped
<1>7. \A g \in Grants : Len(links[g]) <= Len(links'[g])
  BY <1>6
<1> QED BY <1>2, <1>5, <1>6, <1>7, CommitInv

-----------------------------------------------------------------------------
(* Single steps.                                                           *)

LEMMA SingleInv ==
  ASSUME DeviceInv, RowsInv', UNCHANGED txs,
         \A g \in Grants : /\ CurrentLinks(g)' = CurrentLinks(g)
                           /\ Len(links[g]) <= Len(links'[g])
                           /\ grants'[g].exists = grants[g].exists
                           /\ grants'[g].grouped = grants[g].grouped
                           /\ grants'[g].deleted = grants[g].deleted
  PROVE  DeviceInv'
<1>1. TxTypes'
  BY DEF DeviceInv, TxTypes
<1>2. Exclusive'
  <2>1. \A u \in Txs : Held(u)' \subseteq Held(u)
    BY DEF Held
  <2> QED BY <2>1, ExclusiveLess DEF DeviceInv
<1>3. ASSUME NEW u \in Txs
      PROVE  Ordered(u)'
  <2>1. \A g \in Grants : LiveGrouped(g)' => LiveGrouped(g)
    BY DEF LiveGrouped
  <2>2. ASSUME txs[u].op = "CREATE" PROVE txs[u].grant \in Grants
    BY <2>2 DEF DeviceInv, Ordered, CreateOrdered
  <2>3. Undisturbed(u)
    BY <2>1, <2>2 DEF Undisturbed
  <2> QED BY <2>3, StillOrdered DEF DeviceInv, RowsInv
<1> QED BY <1>1, <1>2, <1>3 DEF DeviceInv, RowsInv

LEMMA PlaceStep ==
  ASSUME DeviceInv, Join \/ MoveAway
  PROVE  DeviceInv'
<1>1. /\ UNCHANGED <<grants, links, txs, sessions, used>> /\ RowsInv /\ RowTypes
      /\ \E b \in BOOLEAN : place' = [place EXCEPT !.member = b]
  BY DEF Join, MoveAway, DeviceInv, RowsInv
<1>2. place \in [required: BOOLEAN, member: BOOLEAN, archived: BOOLEAN]
  BY <1>1 DEF RowTypes
<1>3. /\ place' \in [required: BOOLEAN, member: BOOLEAN, archived: BOOLEAN]
      /\ place'.required = place.required /\ place'.archived = place.archived
  BY <1>1, <1>2
<1>4. RowsInv'
  BY <1>1, <1>3, PlaceRows
<1>5. \A g \in Grants : Len(links[g]) \in Nat
  BY <1>1, GrantRowType
<1>6. \A g \in Grants : Len(links[g]) <= Len(links'[g]) /\ CurrentLinks(g)' = CurrentLinks(g)
  BY <1>1, <1>5 DEF CurrentLinks
<1> QED BY <1>1, <1>4, <1>6, SingleInv

\* A grant row changes in what no transaction relies on.
LEMMA RowStep ==
  ASSUME DeviceInv, NEW g \in Grants, NEW row \in GrantFields, grants[g].exists,
         grants' = [grants EXCEPT ![g] = row], UNCHANGED <<links, place, txs>>, TokensSpent',
         row.exists = grants[g].exists, row.grouped = grants[g].grouped,
         row.deleted = grants[g].deleted, row.disabled = grants[g].disabled,
         row.device = grants[g].device, row.revoked = grants[g].revoked,
         grants[g].expired => row.expired
  PROVE  DeviceInv'
<1> DEFINE s == links[g]
<1>1. RowsInv /\ RowTypes /\ RowSafe(grants[g], links[g])
  BY RowsSafe DEF DeviceInv, RowsInv
<1>2. /\ s \in Seq(LinkStates) /\ Len(s) <= MaxLinks /\ Available(s) = CurrentLinks(g)
      /\ links' = [links EXCEPT ![g] = s] /\ \A h \in Grants : Len(links[h]) \in Nat
  BY <1>1, GrantRowType DEF RowTypes
<1>3. RowSafe(row, s)
  BY <1>1 DEF RowSafe
<1> HIDE DEF s
<1>4. /\ RowsInv' /\ grants'[g] = row /\ CurrentLinks(g)' = Available(s)
      /\ \A h \in Grants \ {g} : /\ grants'[h] = grants[h] /\ links'[h] = links[h]
                                 /\ CurrentLinks(h)' = CurrentLinks(h)
  BY <1>1, <1>2, <1>3, RowWrite
<1>5. \A h \in Grants : /\ CurrentLinks(h)' = CurrentLinks(h)
                        /\ Len(links[h]) <= Len(links'[h])
                        /\ grants'[h].exists = grants[h].exists
                        /\ grants'[h].grouped = grants[h].grouped
                        /\ grants'[h].deleted = grants[h].deleted
  <2>1. \A h \in Grants : Len(links[h]) <= Len(links'[h])
    BY <1>2
  <2>2. CurrentLinks(g)' = CurrentLinks(g)
    BY <1>2, <1>4
  <2> QED BY <1>4, <2>1, <2>2
<1> QED BY <1>4, <1>5, SingleInv

LEMMA ExpireStep ==
  ASSUME DeviceInv, NEW g \in Grants, Expire(g)
  PROVE  DeviceInv'
<1>0. /\ RowsInv /\ RowTypes /\ grants[g].exists
      /\ UNCHANGED <<links, place, txs, sessions, used>>
  BY DEF DeviceInv, RowsInv, Expire
<1>1. grants[g] \in GrantFields /\ \A h \in Grants : grants[h].token \in Nat
  BY <1>0, GrantRowType
<1>2. ASSUME NEW row \in GrantFields, grants' = [grants EXCEPT ![g] = row],
             row.token = grants[g].token, row.exists
      PROVE  TokensSpent'
  <2>1. \A h \in Grants : /\ grants'[h].token = grants[h].token
                          /\ grants[h].exists => grants'[h].exists
    BY <1>0, <1>2 DEF RowTypes
  <2>2. \A h \in Grants : grants[h].token <= grants'[h].token
    BY <1>1, <2>1
  <2> QED BY <1>0, <1>1, <2>1, <2>2, TokensKept
<1>3. CASE grants' = [grants EXCEPT ![g].expired = TRUE]
  <2> DEFINE row == [grants[g] EXCEPT !.expired = TRUE]
  <2>1. /\ row \in GrantFields /\ row.exists = grants[g].exists /\ row.token = grants[g].token
        /\ row.grouped = grants[g].grouped /\ row.deleted = grants[g].deleted
        /\ row.disabled = grants[g].disabled /\ row.expired
        /\ row.device = grants[g].device /\ row.revoked = grants[g].revoked
    BY <1>1 DEF GrantFields
  <2>2. grants' = [grants EXCEPT ![g] = row]
    BY <1>3
  <2> HIDE DEF row
  <2>3. TokensSpent'
    BY <1>0, <1>2, <2>1, <2>2
  <2> QED BY <1>0, <2>1, <2>2, <2>3, RowStep
<1>4. CASE grants' = [grants EXCEPT ![g].retry = FALSE]
  <2> DEFINE row == [grants[g] EXCEPT !.retry = FALSE]
  <2>1. /\ row \in GrantFields /\ row.exists = grants[g].exists /\ row.token = grants[g].token
        /\ row.grouped = grants[g].grouped /\ row.deleted = grants[g].deleted
        /\ row.disabled = grants[g].disabled /\ row.expired = grants[g].expired
        /\ row.device = grants[g].device /\ row.revoked = grants[g].revoked
    BY <1>1 DEF GrantFields
  <2>2. grants' = [grants EXCEPT ![g] = row]
    BY <1>4
  <2> HIDE DEF row
  <2>3. TokensSpent'
    BY <1>0, <1>2, <2>1, <2>2
  <2> QED BY <1>0, <2>1, <2>2, <2>3, RowStep
<1> QED BY <1>3, <1>4 DEF Expire

\* What RefreshRead and RefreshRotate do to the sessions.
LEMMA SessionType ==
  ASSUME TokensSpent, NEW r \in Refreshes, sessions[r] # Idle
  PROVE  /\ sessions[r].grant \in Grants /\ sessions[r].token \in 0 .. MaxToken
         /\ grants[sessions[r].grant].exists
BY DEF TokensSpent

LEMMA RefreshReadStep ==
  ASSUME DeviceInv, NEW r \in Refreshes, NEW g \in Grants, RefreshRead(r, g)
  PROVE  DeviceInv'
<1> DEFINE session == [op |-> "REFRESH", grant |-> g, token |-> grants[g].token]
<1>1. RowsInv /\ RowTypes /\ UNCHANGED <<grants, links, place, txs, used>>
      /\ sessions' = [sessions EXCEPT ![r] = session]
  BY DEF DeviceInv, RowsInv, RefreshRead
<1>2. session \in [op: {"REFRESH"}, grant: Grants, token: 0 .. MaxToken]
  BY <1>1, GrantRowType DEF GrantFields
<1>8. grants[g].exists /\ session.grant = g
  BY <1>1 DEF RefreshRead, DeviceAdmitted, RowTypes, Absent
<1> HIDE DEF session
<1>3. TokensSpent'
  <2>1. \A x \in Refreshes : sessions'[x] = IF x = r THEN session ELSE sessions[x]
    BY <1>1 DEF RowsInv, TokensSpent
  <2>2. \A x \in Refreshes : sessions'[x] # Idle => grants'[sessions'[x].grant].exists
    BY <1>1, <1>8, <2>1 DEF RowsInv, TokensSpent
  <2> QED BY <1>1, <1>2, <2>2 DEF RowsInv, TokensSpent
<1>4. RowTypes'
  BY <1>1 DEF RowTypes
<1>5. \A h \in Grants : RowSafe(grants[h], links[h])'
  <2>1. \A h \in Grants : RowSafe(grants[h], links[h])
    BY RowsSafe DEF DeviceInv
  <2> QED BY <1>1, <2>1 DEF RowSafe, Available
<1>6. RowsInv'
  BY <1>3, <1>4, <1>5, RowsSafe DEF RowsInv
<1>7. \A h \in Grants : Len(links[h]) <= Len(links'[h]) /\ CurrentLinks(h)' = CurrentLinks(h)
  BY <1>1, GrantRowType DEF CurrentLinks
<1> QED BY <1>1, <1>6, <1>7, SingleInv

\* Exchanging the present token makes it older than the new one.
LEMMA RotatedOnce ==
  ASSUME RowTypes, TokensSpent, NEW g \in Grants, NEW n \in 0 .. MaxToken,
         grants[g].token = n, grants'[g].token = n + 1,
         \A h \in Grants \ {g} : grants'[h] = grants[h],
         used' = [used EXCEPT ![g][n] = @ + 1]
  PROVE  /\ used' \in [Grants -> [0 .. MaxToken -> Nat]]
         /\ \A h \in Grants, m \in 0 .. MaxToken :
              used'[h][m] <= 1 /\ (m >= grants'[h].token => used'[h][m] = 0)
<1>1. used \in [Grants -> [0 .. MaxToken -> Nat]] /\ used[g][n] = 0
  BY DeviceAssumption DEF TokensSpent
<1>2. \A h \in Grants, m \in 0 .. MaxToken : used[h][m] \in Nat
  BY <1>1
<1> DEFINE row == [used[g] EXCEPT ![n] = @ + 1]
<1>3. row \in [0 .. MaxToken -> Nat] /\ row[n] = 1
      /\ \A m \in 0 .. MaxToken : m # n => row[m] = used[g][m]
  <2>1. used[g] \in [0 .. MaxToken -> Nat] /\ used[g][n] + 1 = 1
    BY <1>1
  <2>2. row = [used[g] EXCEPT ![n] = 1]
    BY <2>1
  <2> HIDE DEF row
  <2> QED BY <2>1, <2>2
<1>4. used' = [used EXCEPT ![g] = row]
  OBVIOUS
<1> HIDE DEF row
<1>5. used' \in [Grants -> [0 .. MaxToken -> Nat]] /\ used'[g] = row
      /\ \A h \in Grants \ {g} : used'[h] = used[h]
  BY <1>1, <1>3, <1>4
<1>6. ASSUME NEW m \in 0 .. MaxToken
      PROVE  used'[g][m] <= 1 /\ (m >= grants'[g].token => used'[g][m] = 0)
  <2>1. used[g][m] <= 1 /\ (m >= n => used[g][m] = 0)
    BY DEF TokensSpent
  <2>2. m >= n + 1 => m >= n /\ m # n
    BY DeviceAssumption
  <2> QED BY <1>3, <1>5, <2>1, <2>2
<1>7. ASSUME NEW h \in Grants \ {g}, NEW m \in 0 .. MaxToken
      PROVE  used'[h][m] <= 1 /\ (m >= grants'[h].token => used'[h][m] = 0)
  <2>1. used[h][m] <= 1 /\ (m >= grants[h].token => used[h][m] = 0)
    BY DEF TokensSpent
  <2> QED BY <1>5, <2>1
<1> QED BY <1>5, <1>6, <1>7

LEMMA RefreshRotateStep ==
  ASSUME DeviceInv, NEW r \in Refreshes, RefreshRotate(r)
  PROVE  DeviceInv'
<1> PICK g, n : g = sessions[r].grant /\ n = sessions[r].token
  OBVIOUS
<1>1. /\ RowsInv /\ RowTypes /\ TokensSpent /\ UNCHANGED <<links, place, txs>>
      /\ g \in Grants /\ n \in 0 .. MaxToken /\ grants[g].exists
      /\ sessions' = [sessions EXCEPT ![r] = Idle]
  BY SessionType DEF DeviceInv, RowsInv, RefreshRotate
<1>2. sessions' \in [Refreshes -> {Idle} \cup
                     [op: {"REFRESH"}, grant: Grants, token: 0 .. MaxToken]]
  BY <1>1 DEF TokensSpent
<1>3. CASE StillPresented(r)
  <2> DEFINE row == [grants[g] EXCEPT !.token = @ + 1]
  <2>1. /\ grants[g].token = n /\ grants[g].token < MaxToken
        /\ grants' = [grants EXCEPT ![g] = row] /\ used' = [used EXCEPT ![g][n] = @ + 1]
    BY <1>3 DEF RefreshRotate, StillPresented
  <2>2. grants[g] \in GrantFields /\ MaxToken \in Nat /\ grants \in [Grants -> GrantFields]
    BY <1>1, GrantRowType DEF RowTypes
  <2>3. /\ row \in GrantFields /\ row.exists = grants[g].exists /\ row.token = n + 1
        /\ row.grouped = grants[g].grouped /\ row.deleted = grants[g].deleted
        /\ row.disabled = grants[g].disabled /\ row.expired = grants[g].expired
        /\ row.device = grants[g].device /\ row.revoked = grants[g].revoked
    <3>1. n + 1 \in 0 .. MaxToken
      BY <1>1, <2>1, <2>2
    <3>2. row = [grants[g] EXCEPT !.token = n + 1]
      BY <2>1
    <3> HIDE DEF row
    <3> QED BY <2>2, <3>1, <3>2 DEF GrantFields
  <2> HIDE DEF row
  <2>4. grants'[g].token = n + 1 /\ \A h \in Grants \ {g} : grants'[h] = grants[h]
    BY <1>1, <2>1, <2>2, <2>3
  <2>5. TokensSpent'
    <3>1. /\ used' \in [Grants -> [0 .. MaxToken -> Nat]]
          /\ \A h \in Grants, m \in 0 .. MaxToken :
               used'[h][m] <= 1 /\ (m >= grants'[h].token => used'[h][m] = 0)
      BY <1>1, <2>1, <2>4, RotatedOnce
    <3>2. \A h \in Grants : grants[h].exists => grants'[h].exists
      BY <1>1, <2>1, <2>2, <2>3
    <3>3. \A x \in Refreshes : sessions'[x] # Idle =>
            sessions[x] # Idle /\ sessions'[x] = sessions[x]
      BY <1>1 DEF TokensSpent
    <3>4. \A x \in Refreshes : sessions'[x] # Idle => grants'[sessions'[x].grant].exists
      BY <1>1, <3>2, <3>3, SessionType
    <3> QED BY <1>2, <3>1, <3>4 DEF TokensSpent
  <2>6. grants[g].exists
    BY <1>1
  <2> QED BY <1>1, <2>1, <2>3, <2>5, <2>6, RowStep
<1>4. CASE ~StillPresented(r)
  <2>1. UNCHANGED <<grants, links, place, txs, used>>
    BY <1>1, <1>4 DEF RefreshRotate
  <2>2. RowTypes'
    BY <1>1, <2>1 DEF RowTypes
  <2>3. TokensSpent'
    <3>1. \A x \in Refreshes : sessions'[x] # Idle =>
            sessions[x] # Idle /\ sessions'[x] = sessions[x]
      BY <1>1 DEF TokensSpent
    <3>2. \A x \in Refreshes : sessions'[x] # Idle => grants'[sessions'[x].grant].exists
      BY <1>1, <2>1, <3>1, SessionType
    <3> QED BY <1>1, <1>2, <2>1, <3>2 DEF TokensSpent
  <2>4. \A h \in Grants : RowSafe(grants[h], links[h])'
    <3>1. \A h \in Grants : RowSafe(grants[h], links[h])
      BY RowsSafe DEF DeviceInv
    <3> QED BY <2>1, <3>1 DEF RowSafe, Available
  <2>5. RowsInv'
    BY <2>2, <2>3, <2>4, RowsSafe DEF RowsInv
  <2>6. \A h \in Grants : Len(links[h]) <= Len(links'[h]) /\ CurrentLinks(h)' = CurrentLinks(h)
    BY <1>1, <2>1, GrantRowType DEF CurrentLinks
  <2> QED BY <2>1, <2>5, <2>6, SingleInv
<1> QED BY <1>3, <1>4

-----------------------------------------------------------------------------
(* The specification keeps the invariant.                                  *)

LEMMA DeviceInitInv == DeviceInit => DeviceInv
<1> SUFFICES ASSUME DeviceInit PROVE DeviceInv
  OBVIOUS
<1> USE DEF DeviceInit
<1>1. RowTypes
  <2>1. Absent \in GrantFields
    BY DeviceAssumption DEF GrantFields, Absent
  <2>2. <<>> \in Seq(LinkStates) /\ Len(<<>>) <= MaxLinks
    BY DeviceAssumption
  <2> QED BY <2>1, <2>2 DEF RowTypes
<1>2. TxTypes
  BY DEF TxTypes
<1>3. TokensSpent
  <2>1. \A r \in Refreshes : sessions[r] = Idle
    OBVIOUS
  <2>2. \A g \in Grants, n \in 0 .. MaxToken : used[g][n] = 0
    OBVIOUS
  <2>3. used \in [Grants -> [0 .. MaxToken -> Nat]]
    OBVIOUS
  <2> QED BY <2>1, <2>2, <2>3 DEF TokensSpent
<1>4. Exclusive
  BY DEF Exclusive, Held
<1>5. \A t \in Txs : Ordered(t)
  BY DEF Ordered, Idle, Lifecycle, Revocations, Renewals
<1>6. CurrentLinkUsable /\ RevocationComplete /\ RequirementHolds
  <2>1. \A g \in Grants : CurrentLinks(g) = {} /\ grants[g] = Absent
    BY DEF CurrentLinks
  <2>2. Absent.device = NoInstallation /\ ~Absent.deleted /\ ~Absent.exists /\ ~Absent.grouped
    BY DEF Absent
  <2> QED BY <2>1, <2>2 DEF CurrentLinkUsable, RevocationComplete, DeletedDeviceRevoked,
             ArchivedGroupLeavesNoGrant, RequirementHolds, Ungrouped
<1> QED BY <1>1, <1>2, <1>3, <1>4, <1>5, <1>6 DEF DeviceInv

LEMMA DeviceStep == DeviceInv /\ [DeviceNext]_deviceVars => DeviceInv'
<1> SUFFICES ASSUME DeviceInv, [DeviceNext]_deviceVars PROVE DeviceInv'
  OBVIOUS
<1>1. CASE BeginNext
  BY <1>1, BeginRedeemInv, BeginLifecycleInv, BeginRevocationInv, BeginCreateInv,
     BeginAssignInv, BeginRenewalInv, BeginRequireInv DEF BeginNext, Renewals
<1>2. CASE TransactionNext
  BY <1>2, AcquireStep, AbortStep, BindStep, BindAgainStep, DisableStep, DeleteStep,
     RegenerateStep, ArchiveStep, RemoveStep, CreateStep, AssignStep, EnableStep,
     UpdateExpirationStep, RequireStep DEF TransactionNext
<1>3. CASE Join \/ MoveAway
  BY <1>3, PlaceStep
<1>4. ASSUME NEW g \in Grants, Expire(g) PROVE DeviceInv'
  BY <1>4, ExpireStep
<1>5. ASSUME NEW r \in Refreshes, RefreshRotate(r) \/ \E g \in Grants : RefreshRead(r, g)
      PROVE  DeviceInv'
  BY <1>5, RefreshReadStep, RefreshRotateStep
<1>6. CASE UNCHANGED deviceVars
  <2>1. UNCHANGED <<grants, links, place, txs, sessions, used>>
    BY <1>6 DEF deviceVars
  <2>2. RowsInv' /\ RowTypes
    BY <2>1, RowsInvSame DEF DeviceInv, RowsInv
  <2>3. \A g \in Grants : Len(links[g]) <= Len(links'[g]) /\ CurrentLinks(g)' = CurrentLinks(g)
    BY <2>1, <2>2, GrantRowType DEF CurrentLinks
  <2> QED BY <2>1, <2>2, <2>3, SingleInv
<1> QED BY <1>1, <1>2, <1>3, <1>4, <1>5, <1>6 DEF DeviceNext

LEMMA DeviceInvariant == DeviceSpec => []DeviceInv
BY DeviceInitInv, DeviceStep, PTL DEF DeviceSpec

\* Every grant, its links and the place are of their types.
THEOREM DeviceTypeCorrect == DeviceSpec => []DeviceTypeOK
<1>1. DeviceInv => DeviceTypeOK
  <2> SUFFICES ASSUME DeviceInv PROVE DeviceTypeOK
    OBVIOUS
  <2>1. RowTypes
    BY DEF DeviceInv
  <2>2. \A g \in Grants : grants[g] \in GrantFields
    BY <2>1, GrantRowType
  <2> QED BY <2>1, <2>2 DEF RowTypes, DeviceTypeOK, GrantFields
<1> QED BY <1>1, DeviceInvariant, PTL

\* A link that can be redeemed is the only one of its grant, and the grant can
\* be bound: disable, delete, redeem and regenerate serialize on the rows of the
\* current link and the grant, for any number of them (device-grants.service.ts,
\* device-grant-links.service.ts).
THEOREM LinksUsable == DeviceSpec => []CurrentLinkUsable
<1>1. DeviceInv => CurrentLinkUsable
  BY DEF DeviceInv
<1> QED BY <1>1, DeviceInvariant, PTL

\* Whoever deletes a grant, its device is revoked with it; an archived group
\* keeps no live grant, not even one created or assigned while it was archived.
THEOREM RevocationsComplete == DeviceSpec => []RevocationComplete
<1>1. DeviceInv => RevocationComplete
  BY DEF DeviceInv
<1> QED BY <1>1, DeviceInvariant, PTL

\* While the organization requires a group for every device, no live grant is
\* without one (setDeviceGroupRequirement against create, enable, extend).
THEOREM RequirementKept == DeviceSpec => []RequirementHolds
<1>1. DeviceInv => RequirementHolds
  BY DEF DeviceInv
<1> QED BY <1>1, DeviceInvariant, PTL

\* However many refreshes present the same token, one of them exchanges it.
THEOREM TokensExchangedOnce == DeviceSpec => []RefreshOnce
<1>1. DeviceInv => RefreshOnce
  BY DEF DeviceInv, TokensSpent, RefreshOnce
<1> QED BY <1>1, DeviceInvariant, PTL

-----------------------------------------------------------------------------
(* Nobody waits in a circle.                                               *)

OfGrant(g, l) == l = GrantRow(g) \/ \E i \in 1 .. MaxLinks : l = LinkRow(g, i)

\* A transaction that holds lock l may wait for lock m.
After(l, m) ==
  \/ m = AuditReference
  \/ l = OrganizationRow /\ m = GroupRow
  \/ l \in {OrganizationRow, GroupRow} /\ \E h \in Grants : OfGrant(h, m)
  \/ \E g, h \in Grants : g < h /\ OfGrant(g, l) /\ OfGrant(h, m)
  \/ \E g \in Grants, i \in 1 .. MaxLinks :
       /\ l = LinkRow(g, i)
       /\ m = GrantRow(g) \/ \E j \in 1 .. MaxLinks : j < i /\ m = LinkRow(g, j)

\* No set of locks can be waited for by holders of its members only.
LEMMA NoCircle ==
  ASSUME NEW M, M # {}, M \subseteq Locks \ {AuditReference},
         \A l \in M : \E m \in M : After(l, m)
  PROVE  FALSE
<1> DEFINE R == {g \in Grants : \E m \in M : OfGrant(g, m)}
<1>1. R # {}
  <2>1. ASSUME GroupRow \in M PROVE R # {}
    <3>1. PICK m \in M : After(GroupRow, m)
      BY <2>1
    <3>2. \A g : ~OfGrant(g, GroupRow)
      BY LocksDiffer DEF OfGrant
    <3>3. m # AuditReference /\ GroupRow # OrganizationRow /\ \A g, i : GroupRow # LinkRow(g, i)
      BY LocksDiffer
    <3>4. \E h \in Grants : OfGrant(h, m)
      BY <3>1, <3>2, <3>3 DEF After
    <3> QED BY <3>4
  <2>2. ASSUME OrganizationRow \in M PROVE R # {}
    <3>1. PICK m \in M : After(OrganizationRow, m)
      BY <2>2
    <3>2. \A g : ~OfGrant(g, OrganizationRow)
      BY LocksDiffer DEF OfGrant
    <3>3. m # AuditReference /\ \A g, i : OrganizationRow # LinkRow(g, i)
      BY LocksDiffer
    <3>4. m = GroupRow \/ \E h \in Grants : OfGrant(h, m)
      BY <3>1, <3>2, <3>3 DEF After
    <3> QED BY <2>1, <3>4
  <2>3. PICK l \in M : TRUE
    OBVIOUS
  <2>4. \/ l \in {OrganizationRow, GroupRow} \/ \E g \in Grants : OfGrant(g, l)
    BY DEF Locks, OfGrant
  <2> QED BY <2>1, <2>2, <2>4
<1>2. R \subseteq Nat /\ IsFiniteSet(R)
  BY DeviceAssumption, FS_Subset
<1> HIDE DEF R
<1>3. PICK g \in R : \A h \in R : h <= g
  BY <1>1, <1>2, Extremes
<1> USE DEF R
<1>4. g \in Grants /\ \A h \in Grants : \A m \in M : OfGrant(h, m) => ~ g < h
  <2>1. \A h \in R : g \in Nat /\ h \in Nat /\ (h <= g => ~ g < h)
    BY <1>2
  <2> QED BY <1>3, <2>1
<1>5. GrantRow(g) \notin M
  <2> SUFFICES ASSUME GrantRow(g) \in M PROVE FALSE
    OBVIOUS
  <2>1. PICK m \in M : After(GrantRow(g), m)
    OBVIOUS
  <2>2. /\ m # AuditReference /\ GrantRow(g) \notin {OrganizationRow, GroupRow}
        /\ \A h, i : GrantRow(g) # LinkRow(h, i)
        /\ \A h : OfGrant(h, GrantRow(g)) => h = g
    BY LocksDiffer DEF OfGrant
  <2> QED BY <1>4, <2>1, <2>2 DEF After
<1> DEFINE I == {i \in 1 .. MaxLinks : LinkRow(g, i) \in M}
<1>6. I # {} /\ I \subseteq Nat /\ IsFiniteSet(I)
  <2>1. I # {}
    BY <1>3, <1>5 DEF OfGrant
  <2>2. IsFiniteSet(1 .. MaxLinks) /\ 1 .. MaxLinks \subseteq Nat
    BY DeviceAssumption, FS_Interval
  <2> QED BY <2>1, <2>2, FS_Subset
<1> HIDE DEF I
<1>7. PICK i \in I : \A j \in I : i <= j
  BY <1>6, Extremes
<1> USE DEF I
<1>8. i \in 1 .. MaxLinks /\ \A j \in 1 .. MaxLinks : LinkRow(g, j) \in M => ~ j < i
  <2>1. \A j \in I : i \in Nat /\ j \in Nat /\ (i <= j => ~ j < i)
    BY <1>6
  <2> QED BY <1>7, <2>1
<1>9. PICK m \in M : After(LinkRow(g, i), m)
  BY <1>7
<1>10. /\ m # AuditReference /\ LinkRow(g, i) \notin {OrganizationRow, GroupRow}
       /\ \A h : OfGrant(h, LinkRow(g, i)) => h = g
       /\ \A h, j : LinkRow(g, i) = LinkRow(h, j) => h = g /\ j = i
  BY LocksDiffer DEF OfGrant
<1> QED BY <1>4, <1>5, <1>8, <1>9, <1>10 DEF After

\* Every transaction takes its locks in that order.
LEMMA LockOrder ==
  ASSUME DeviceInv, NEW t \in Txs, txs[t] # Idle, txs[t].want # <<>>,
         NEW l \in txs[t].held
  PROVE  After(l, Head(txs[t].want))
<1>1. txs[t].op \in Ops /\ Ordered(t)
  BY TxRow DEF DeviceInv
<1> PICK g : g = txs[t].grant
  OBVIOUS
<1>2. CASE txs[t].op = "REDEEM"
  <2>1. RedeemOrdered(t) /\ g \in Grants /\ txs[t].arg.link \in 1 .. MaxLinks
    BY <1>1, <1>2 DEF Ordered, RedeemOrdered
  <2>2. \/ /\ Head(txs[t].want) = GrantRow(g) /\ l = LinkRow(g, txs[t].arg.link)
        \/ Head(txs[t].want) = AuditReference
    BY <2>1, Short DEF RedeemOrdered, At
  <2> QED BY <2>1, <2>2 DEF After
<1>3. CASE txs[t].op \in Lifecycle
  <2>1. LifecycleOrdered(t) /\ g \in Grants /\ CurrentLinks(g) \subseteq 1 .. MaxLinks
    BY <1>1, <1>3, LinkNumbers DEF Ordered, LifecycleOrdered, DeviceInv
  <2>2. \/ /\ Head(txs[t].want) = GrantRow(g) /\ \E i \in CurrentLinks(g) : l = LinkRow(g, i)
        \/ Head(txs[t].want) = AuditReference
    BY <2>1, Short DEF LifecycleOrdered, At
  <2> QED BY <2>1, <2>2 DEF After
<1>4. CASE txs[t].op \in Revocations
  <2>1. RevocationOrdered(t)
    BY <1>1, <1>4 DEF Ordered
  <2>2. ASSUME NEW h \in Grants, NEW n \in 0 .. Len(links[h]), Walking(t, h, n)
        PROVE  After(l, Head(txs[t].want))
    <3>1. n \in 0 .. MaxLinks /\ h \in Nat /\ n \in Nat
      BY LinkNumbers, DeviceAssumption DEF DeviceInv
    <3> PICK m : m = Head(txs[t].want)
      OBVIOUS
    <3>2. m = IF n = 0 THEN GrantRow(h) ELSE LinkRow(h, n)
      BY <2>2, <3>1, Walk DEF Walking
    <3>3. OfGrant(h, m) /\ (n # 0 => n \in 1 .. MaxLinks)
      BY <3>1, <3>2 DEF OfGrant
    <3>4. l \in Behind(h, n)
      BY <2>2 DEF Walking
    <3>5. CASE l = GroupRow
      BY <3>3, <3>5 DEF After
    <3>6. ASSUME NEW k \in Grants, k < h, OfGrant(k, l) PROVE After(l, m)
      BY <3>3, <3>6 DEF After
    <3>7. ASSUME NEW i \in 1 .. MaxLinks, i > n, l = LinkRow(h, i) PROVE After(l, m)
      <4>1. n < i
        BY <3>1, <3>7
      <4> QED BY <3>2, <3>3, <3>7, <4>1 DEF After
    <3> QED BY <3>4, <3>5, <3>6, <3>7 DEF Behind, OfGrant
  <2>3. ASSUME Walked(t) PROVE After(l, Head(txs[t].want))
    BY <2>3, Short DEF Walked, After
  <2> QED BY <2>1, <2>2, <2>3 DEF RevocationOrdered, At
<1>5. CASE txs[t].op = "CREATE"
  <2>1. CreateOrdered(t)
    BY <1>1, <1>5 DEF Ordered
  <2> QED BY <2>1, Short DEF CreateOrdered, At, After
<1>6. CASE txs[t].op = "ASSIGN"
  <2>1. AssignOrdered(t) /\ g \in Grants
    BY <1>1, <1>6 DEF Ordered, AssignOrdered
  <2>2. \/ l = OrganizationRow /\ Head(txs[t].want) = GroupRow
        \/ l \in {OrganizationRow, GroupRow} /\ Head(txs[t].want) = GrantRow(g)
    BY <2>1, Short DEF AssignOrdered, At
  <2> QED BY <2>1, <2>2 DEF After, OfGrant
<1>7. CASE txs[t].op \in Renewals
  <2>1. RenewalOrdered(t) /\ g \in Grants
    BY <1>1, <1>7 DEF Ordered, RenewalOrdered
  <2>2. l = OrganizationRow /\ Head(txs[t].want) = GrantRow(g)
    BY <2>1, Short DEF RenewalOrdered, At
  <2> QED BY <2>1, <2>2 DEF After, OfGrant
<1>8. CASE txs[t].op = "REQUIRE"
  BY <1>1, <1>8 DEF Ordered, RequireOrdered, At
<1> QED BY <1>1, <1>2, <1>3, <1>4, <1>5, <1>6, <1>7, <1>8 DEF Ops

\* Who is waited for holds the very lock that is wanted, and nobody waits for
\* the reference that the audit log takes on the organization.
LEMMA Blocker ==
  ASSUME DeviceInv, NEW t \in Txs, NEW u \in Txs, WaitsFor(t, u)
  PROVE  LET l == Head(txs[t].want)
         IN  l \in Locks /\ l # AuditReference /\ l \in txs[u].held
<1> PICK l : l = Head(txs[t].want)
  OBVIOUS
<1>1. txs[t] # Idle /\ txs[u] # Idle /\ txs[t].want # <<>>
  BY DEF WaitsFor
<1>2. txs[t].want \in Seq(Locks) /\ txs[u].held \subseteq Locks
  BY <1>1, TxRow DEF DeviceInv, Tx
<1>3. l \in Locks
  BY <1>1, <1>2, HeadTailProperties
<1>4. PICK m \in txs[u].held : m.row = l.row /\ Conflict(m.mode, l.mode)
  BY DEF WaitsFor
<1>5. m \in Locks
  BY <1>2
<1>6. l # AuditReference /\ l = m
  <2>1. ASSUME l.row # OrganizationRow.row
        PROVE  l # AuditReference /\ l = m
    <3>0. l \notin {OrganizationRow, AuditReference} /\ m \notin {OrganizationRow, AuditReference}
      <4>1. AuditReference.row = OrganizationRow.row
        BY DEF OrganizationRow, AuditReference, Lock
      <4> QED BY <1>4, <2>1, <4>1
    <3>1. l \in {GroupRow} \cup {GrantRow(g) : g \in Grants}
                 \cup {LinkRow(g, i) : g \in Grants, i \in 1 .. MaxLinks}
      BY <1>3, <3>0 DEF Locks
    <3>2. m \in {GroupRow} \cup {GrantRow(g) : g \in Grants}
                 \cup {LinkRow(g, i) : g \in Grants, i \in 1 .. MaxLinks}
      BY <1>5, <3>0 DEF Locks
    <3>3. l.mode = "UPDATE" /\ m.mode = "UPDATE"
      BY <3>1, <3>2 DEF GroupRow, GrantRow, LinkRow, Lock
    <3>4. l = [row |-> l.row, mode |-> l.mode] /\ m = [row |-> m.row, mode |-> m.mode]
      BY <3>1, <3>2 DEF GroupRow, GrantRow, LinkRow, Lock
    <3>5. l # AuditReference
      BY <3>0
    <3>6. l.row = m.row
      BY <1>4
    <3>7. l = m
      BY <3>3, <3>4, <3>6
    <3> QED BY <3>5, <3>7
  <2>2. ASSUME l.row = OrganizationRow.row
        PROVE  l # AuditReference /\ l = m
    <3>1. /\ \A g, i : LinkRow(g, i).row # OrganizationRow.row
          /\ \A g : GrantRow(g).row # OrganizationRow.row
          /\ GroupRow.row # OrganizationRow.row
      BY DEF LinkRow, GrantRow, GroupRow, OrganizationRow, Lock
    <3>2. l \in {OrganizationRow, AuditReference} /\ m \in {OrganizationRow, AuditReference}
      BY <1>3, <1>4, <1>5, <2>2, <3>1 DEF Locks
    <3>3. OrganizationRow.mode = "NO KEY UPDATE" /\ AuditReference.mode = "KEY SHARE"
      BY DEF OrganizationRow, AuditReference, Lock
    <3> QED BY <1>4, <3>2, <3>3 DEF Conflict
  <2> QED BY <2>1, <2>2
<1> QED BY <1>3, <1>4, <1>6

LEMMA CircleFree == DeviceInv => NoDeadlock
<1> SUFFICES ASSUME DeviceInv, NEW S \in (SUBSET Txs) \ {{}},
                    \A t \in S : \E u \in S : WaitsFor(t, u)
             PROVE  FALSE
  BY DEF NoDeadlock
<1> DEFINE M == {Head(txs[t].want) : t \in S}
<1>1. \A t \in S : \E u \in S : /\ Head(txs[t].want) \in Locks \ {AuditReference}
                                /\ Head(txs[t].want) \in txs[u].held
  BY Blocker
<1>2. M # {} /\ M \subseteq Locks \ {AuditReference}
  <2>1. S # {}
    OBVIOUS
  <2> QED BY <1>1, <2>1
<1>3. \A t \in S : txs[t] # Idle /\ txs[t].want # <<>>
  BY DEF WaitsFor
<1>4. ASSUME NEW l \in M
      PROVE  \E m \in M : After(l, m)
  <2>1. PICK u \in S : l \in txs[u].held
    BY <1>1
  <2> QED BY <1>3, <2>1, LockOrder
<1> HIDE DEF M
<1> QED BY <1>2, <1>4, NoCircle

\* No set of transactions waits in a circle: every one takes the organization,
\* the group, then grants in the order of their ids, each after its links from
\* the newest on; and the audit log's reference to the organization is
\* compatible with FOR NO KEY UPDATE.
THEOREM DeadlockFree == DeviceSpec => []NoDeadlock
BY CircleFree, DeviceInvariant, PTL

=============================================================================
