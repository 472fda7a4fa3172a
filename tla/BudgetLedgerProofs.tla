-------------------------- MODULE BudgetLedgerProofs --------------------------
(***************************************************************************)
(* Proofs about BudgetLedger, for every set of requests, amounts, limits,  *)
(* timezones and operations: its types and rows, its alerts and manual     *)
(* ends, and the conservation of its money.                                *)
(***************************************************************************)
EXTENDS BudgetLedger, LedgerViews, TotalsProofs

-------------------------------------------------------------------------------
(* Rows and keys.                                                          *)

LEMMA KeyType ==
  ASSUME NEW mode, NEW tz \in Timezones, NEW at \in Instants
  PROVE  PeriodKey(mode, tz, at) \in PeriodKeys
BY LedgerAssumption DEF PeriodKey, PeriodKeys, Instants

\* alert() changes nothing but the recorded threshold.
LEMMA AlertedType ==
  ASSUME NEW p \in Period
  PROVE  /\ Threshold(p) \in {0, 80, 100}
         /\ Alerted(p) \in Period
         /\ \A f \in DOMAIN p : f # "alerted" => Alerted(p)[f] = p[f]
         /\ Alerted(p).alerted >= Threshold(p)
<1>1. Threshold(p) \in {0, 80, 100}
  BY DEF Threshold, Period
<1>2. Alerted(p) \in Period
  BY <1>1 DEF Alerted, Period
<1>3. \A f \in DOMAIN p : f # "alerted" => Alerted(p)[f] = p[f]
  BY DEF Alerted, Period
<1>4. Alerted(p).alerted >= Threshold(p)
  BY <1>1 DEF Alerted, Period
<1> QED BY <1>1, <1>2, <1>3, <1>4

LEMMA TotalsType ==
  ASSUME NEW p \in Period, NEW a \in Int, NEW b \in Int
  PROVE  [p EXCEPT !.spent = a, !.reserved = b] \in Period
BY DEF Period

\* Every posting to a period's totals keeps it a period.
LEMMA PostingType ==
  ASSUME NEW p \in Period, NEW x \in Nat, NEW y \in Nat, NEW z \in Nat
  PROVE  /\ [p EXCEPT !.reserved = @ + x] \in Period
         /\ [p EXCEPT !.reserved = @ - x] \in Period
         /\ [p EXCEPT !.spent = @ + x - y, !.reserved = @ - z] \in Period
         /\ [p EXCEPT !.spent = @ + x, !.reserved = @ + y - z] \in Period
         /\ [p EXCEPT !.spent = @ + x - y] \in Period
<1>1. p.spent \in Int /\ p.reserved \in Int
  BY DEF Period
<1>2. \A a, b \in Int : [p EXCEPT !.spent = a, !.reserved = b] \in Period
  BY DEF Period
<1>3. \A b \in Int : [p EXCEPT !.reserved = b] \in Period
  BY DEF Period
<1>4. \A a \in Int : [p EXCEPT !.spent = a] \in Period
  BY DEF Period
<1>5. /\ p.reserved + x \in Int /\ p.reserved - x \in Int
      /\ p.reserved - z \in Int /\ p.reserved + y - z \in Int
      /\ p.spent + x \in Int /\ p.spent + x - y \in Int
  BY <1>1
<1> QED BY <1>2, <1>3, <1>4, <1>5

LEMMA PeriodRowType ==
  ASSUME period \in [PeriodKeys -> Period], NEW g \in Group,
         NEW k \in PeriodKeys
  PROVE  PeriodRow(k, g) \in Period /\ PeriodRow(k, g).exists
BY DEF PeriodRow, Period, Group

-------------------------------------------------------------------------------
(* Type correctness.                                                       *)

\* The rows an action reads are well typed.
LEMMA RowTypes ==
  ASSUME LedgerTypeOK, NEW r \in Requests
  PROVE  /\ entry[r] \in Entry /\ outbox[r] \in Outbox /\ log[r] \in Log
         /\ entry[r].period \in PeriodKeys
         /\ period[entry[r].period] \in Period
<1>1. entry[r] \in Entry /\ outbox[r] \in Outbox /\ log[r] \in Log
  BY DEF LedgerTypeOK
<1>2. entry[r].period \in PeriodKeys
  BY <1>1 DEF Entry
<1> QED BY <1>1, <1>2 DEF LedgerTypeOK

LEMMA TypeReserve ==
  ASSUME LedgerTypeOK, NEW r \in Requests, NEW at \in 1 .. clock,
         NEW amount \in Nat, Reserve(r, at, amount)
  PROVE  LedgerTypeOK'
<1> DEFINE k == CurrentKey(at)
           p == PeriodRow(k, group)
           q == [p EXCEPT !.reserved = @ + amount]
<1>1. at \in Instants /\ amount \in Nat
  BY LedgerAssumption DEF LedgerTypeOK, Instants
<1>2. k \in PeriodKeys
  BY <1>1, KeyType DEF CurrentKey, LedgerTypeOK, Group
<1>3. p \in Period
  BY <1>2, PeriodRowType DEF LedgerTypeOK
<1>4. q \in Period
  BY <1>1, <1>3 DEF Period
<1>5. Alerted(q) \in Period
  BY <1>4, AlertedType
<1>6. period' = [period EXCEPT ![k] = Alerted(q)]
  BY DEF Reserve
<1>7. period' \in [PeriodKeys -> Period]
  <2> HIDE DEF k, p, q
  <2> QED BY <1>2, <1>5, <1>6 DEF LedgerTypeOK
<1>8. entry' \in [Requests -> Entry]
  <2>1. entry' = [entry EXCEPT ![r] =
                    [NewEntry EXCEPT !.status = "RESERVED", !.period = k,
                                     !.startedAt = at, !.reserved = amount,
                                     !.lease = clock + LeaseTicks]]
    BY DEF Reserve
  <2>2. clock + LeaseTicks \in Nat
    BY LedgerAssumption DEF LedgerTypeOK, Instants
  <2> HIDE DEF k
  <2> QED BY <1>1, <1>2, <2>1, <2>2 DEF LedgerTypeOK, NewEntry, Entry
<1> QED BY <1>7, <1>8 DEF LedgerTypeOK, Reserve

LEMMA TypeExtend ==
  ASSUME LedgerTypeOK, NEW r \in Requests, NEW attempt \in Attempts,
         NEW amount \in Nat, Extend(r, attempt, amount)
  PROVE  LedgerTypeOK'
<1> DEFINE k == entry[r].period
           p == period[k]
           q == [p EXCEPT !.reserved = @ + amount]
           e == [entry[r] EXCEPT !.reserved = @ + amount,
                                 !.extensions = @ \cup {attempt}]
<1>1. amount \in Nat /\ entry[r] \in Entry /\ k \in PeriodKeys /\ p \in Period
  BY LedgerAssumption, RowTypes
<1>2. Alerted(q) \in Period
  <2> HIDE DEF k, p, e
  <2>2. q \in Period
    BY <1>1, PostingType
  <2> QED BY <2>2, AlertedType
<1>3. e \in Entry
  <2>1. entry[r].extensions \cup {attempt} \in SUBSET Attempts
    BY <1>1 DEF Entry
  <2>2. entry[r].reserved + amount \in Nat
    BY <1>1 DEF Entry
  <2> QED BY <1>1, <2>1, <2>2 DEF Entry
<1>4. /\ period' = [period EXCEPT ![k] = Alerted(q)]
      /\ entry' = [entry EXCEPT ![r] = e]
      /\ UNCHANGED <<group, outbox, log, done, application, clock>>
  BY DEF Extend
<1> HIDE DEF k, p, q, e
<1> QED BY <1>1, <1>2, <1>3, <1>4 DEF LedgerTypeOK

LEMMA TypeSettle ==
  ASSUME LedgerTypeOK, NEW r \in Requests, NEW amount \in Nat,
         Settle(r, amount)
  PROVE  LedgerTypeOK'
<1> DEFINE k == entry[r].period
           p == period[k]
           q == SettledPeriod(p, entry[r], amount)
           e == [entry[r] EXCEPT !.status = "SETTLED", !.settled = amount,
                                 !.lease = NoLease]
           b == [outbox[r] EXCEPT !.actual = amount, !.synced = FALSE]
           l == [written |-> TRUE, cost |-> amount, billing |-> "KNOWN"]
<1>1. /\ amount \in Nat /\ entry[r] \in Entry /\ outbox[r] \in Outbox
      /\ k \in PeriodKeys /\ p \in Period
  BY LedgerAssumption, RowTypes
<1>2. Alerted(q) \in Period
  <2> HIDE DEF k, p, e
  <2>1. entry[r].settled \in Nat /\ entry[r].reserved \in Nat
    BY <1>1 DEF Entry
  <2>2. q \in Period
    BY <1>1, <2>1, PostingType DEF SettledPeriod
  <2> QED BY <2>2, AlertedType
<1>3. e \in Entry /\ b \in Outbox /\ l \in Log
  BY <1>1 DEF Entry, Outbox, Log, NoLease
<1>4. /\ period' = [period EXCEPT ![k] = Alerted(q)]
      /\ entry' = [entry EXCEPT ![r] = e]
      /\ outbox' = [outbox EXCEPT ![r] = b]
      /\ log' = [log EXCEPT ![r] = l]
      /\ UNCHANGED <<group, done, application, clock>>
  BY DEF Settle
<1> HIDE DEF k, p, q, e, b, l
<1> QED BY <1>1, <1>2, <1>3, <1>4 DEF LedgerTypeOK

LEMMA TypeHold ==
  ASSUME LedgerTypeOK, NEW r \in Requests, NEW actual \in Nat,
         NEW unresolved \in Nat, Hold(r, actual, unresolved)
  PROVE  LedgerTypeOK'
<1> DEFINE k == entry[r].period
           p == period[k]
           q == [p EXCEPT !.spent = @ + actual,
                          !.reserved = @ + unresolved - entry[r].reserved]
           e == [entry[r] EXCEPT !.status = "RECONCILIATION_REQUIRED",
                                 !.settled = actual, !.reserved = unresolved,
                                 !.lease = NoLease, !.held = TRUE]
           l == [written |-> TRUE, cost |-> actual, billing |-> "UNKNOWN"]
<1>1. /\ actual \in Nat /\ unresolved \in Nat /\ entry[r] \in Entry
      /\ k \in PeriodKeys /\ p \in Period
  BY LedgerAssumption, RowTypes
<1>2. Alerted(q) \in Period
  <2> HIDE DEF k, p, e
  <2>1. entry[r].reserved \in Nat
    BY <1>1 DEF Entry
  <2>2. q \in Period
    BY <1>1, <2>1, PostingType
  <2> QED BY <2>2, AlertedType
<1>3. e \in Entry /\ l \in Log
  BY <1>1 DEF Entry, Log, NoLease
<1>4. /\ period' = [period EXCEPT ![k] = Alerted(q)]
      /\ entry' = [entry EXCEPT ![r] = e]
      /\ log' = [log EXCEPT ![r] = l]
      /\ UNCHANGED <<group, outbox, done, application, clock>>
  BY DEF Hold
<1> HIDE DEF k, p, q, e, l
<1> QED BY <1>1, <1>2, <1>3, <1>4 DEF LedgerTypeOK

LEMMA TypeReleaseEntry ==
  ASSUME LedgerTypeOK, NEW r \in Requests, ReleaseEntry(r)
  PROVE  LedgerTypeOK'
<1> DEFINE k == entry[r].period
           p == period[k]
           q == [p EXCEPT !.reserved = @ - entry[r].reserved]
           e == [entry[r] EXCEPT !.status = "RELEASED", !.lease = NoLease]
           b == [outbox[r] EXCEPT !.synced = FALSE]
<1>1. /\ entry[r] \in Entry /\ outbox[r] \in Outbox
      /\ k \in PeriodKeys /\ p \in Period
  BY RowTypes
<1>2. q \in Period
  <2> HIDE DEF p
  <2> QED BY <1>1 DEF Period, Entry
<1>3. e \in Entry /\ b \in Outbox
  BY <1>1 DEF Entry, Outbox, NoLease
<1>4. /\ period' = [period EXCEPT ![k] = q]
      /\ entry' = [entry EXCEPT ![r] = e]
      /\ outbox' = [outbox EXCEPT ![r] = b]
      /\ UNCHANGED <<group, log, done, application, clock>>
  BY DEF ReleaseEntry
<1> HIDE DEF k, p, q, e, b
<1> QED BY <1>1, <1>2, <1>3, <1>4 DEF LedgerTypeOK

LEMMA TypeMarkDispatched ==
  ASSUME LedgerTypeOK, NEW r \in Requests, NEW until \in Nat,
         MarkDispatched(r, until)
  PROVE  LedgerTypeOK'
<1> DEFINE e == [entry[r] EXCEPT !.dispatched = TRUE, !.lease = until]
<1>1. e \in Entry
  BY RowTypes DEF Entry
<1>2. /\ entry' = [entry EXCEPT ![r] = e]
      /\ UNCHANGED <<group, period, outbox, log, done, application, clock>>
  BY DEF MarkDispatched
<1> HIDE DEF e
<1> QED BY <1>1, <1>2 DEF LedgerTypeOK

LEMMA TypeUncertain ==
  ASSUME LedgerTypeOK, NEW r \in Requests, Uncertain(r)
  PROVE  LedgerTypeOK'
<1> DEFINE e == [entry[r] EXCEPT !.status = "RECONCILIATION_REQUIRED",
                                 !.lease = NoLease]
<1>1. e \in Entry
  BY RowTypes DEF Entry, NoLease
<1>2. /\ entry' = [entry EXCEPT ![r] = e]
      /\ UNCHANGED <<group, period, outbox, log, done, application, clock>>
  BY DEF Uncertain
<1> HIDE DEF e
<1> QED BY <1>1, <1>2 DEF LedgerTypeOK

LEMMA TypeConfirmSync ==
  ASSUME LedgerTypeOK, NEW r \in Requests, NEW version,
         ConfirmSync(r, version)
  PROVE  LedgerTypeOK'
<1> DEFINE b == [outbox[r] EXCEPT !.synced = TRUE]
<1>1. b \in Outbox
  BY RowTypes DEF Outbox
<1>2. /\ outbox' = [outbox EXCEPT ![r] = b]
      /\ UNCHANGED <<group, period, entry, log, done, application, clock>>
  BY DEF ConfirmSync
<1> HIDE DEF b
<1> QED BY <1>1, <1>2 DEF LedgerTypeOK

LEMMA TypeReconcile ==
  ASSUME LedgerTypeOK, NEW r \in Requests, NEW o \in Operations,
         NEW action, NEW amount \in Nat, Reconcile(r, o, action, amount)
  PROVE  LedgerTypeOK'
<1> DEFINE k == entry[r].period
           p == period[k]
           q == ReconciledPeriod(p, entry[r], amount)
           e == [entry[r] EXCEPT
                   !.status = IF action = "RELEASE" THEN "RELEASED"
                              ELSE "SETTLED",
                   !.settled = amount, !.lease = NoLease, !.manualFinal = TRUE]
           b == [outbox[r] EXCEPT
                   !.actual = IF @ = NoActual THEN amount ELSE @,
                   !.version = @ + 1, !.corrected = amount, !.synced = FALSE]
           l == [written |-> TRUE, cost |-> amount,
                 billing |-> IF action = "RELEASE" THEN "NO_CHARGE"
                             ELSE "KNOWN"]
<1>1. /\ amount \in Nat /\ entry[r] \in Entry /\ outbox[r] \in Outbox
      /\ k \in PeriodKeys /\ p \in Period
  BY LedgerAssumption, RowTypes
<1>2. Alerted(q) \in Period
  <2>1. entry[r].settled \in Nat /\ entry[r].reserved \in Nat
    BY <1>1 DEF Entry
  <2> HIDE DEF k, p, e, b, l
  <2> DEFINE x == p.spent + amount - entry[r].settled
             y == IF entry[r].status = "RECONCILIATION_REQUIRED"
                  THEN p.reserved - entry[r].reserved ELSE p.reserved
  <2>2. x \in Int /\ y \in Int
    BY <1>1, <2>1 DEF Period
  <2>3. q \in Period
    <3>1. q = [p EXCEPT !.spent = x, !.reserved = y]
      BY DEF ReconciledPeriod
    <3> HIDE DEF x, y, q
    <3> QED BY <1>1, <2>2, <3>1, TotalsType
  <2> QED BY <2>3, AlertedType
<1>3. e \in Entry
  BY <1>1 DEF Entry, NoLease
<1>4. b \in Outbox
  <2>1. outbox[r].version + 1 \in Nat
    BY <1>1 DEF Outbox
  <2>2. (IF outbox[r].actual = NoActual THEN amount ELSE outbox[r].actual)
          \in Nat \cup {NoActual}
    BY <1>1 DEF Outbox
  <2> QED BY <1>1, <2>1, <2>2 DEF Outbox
<1>5. l \in Log
  BY <1>1 DEF Log
<1>6. /\ period' = [period EXCEPT ![k] = Alerted(q)]
      /\ entry' = [entry EXCEPT ![r] = e]
      /\ outbox' = [outbox EXCEPT ![r] = b]
      /\ log' = [log EXCEPT ![r] = l]
      /\ done' = done \cup {o}
      /\ UNCHANGED <<group, application, clock>>
  BY DEF Reconcile
<1> HIDE DEF k, p, q, e, b, l
<1> QED BY <1>1, <1>2, <1>3, <1>4, <1>5, <1>6 DEF LedgerTypeOK

\* The part of the type invariant that SetLimit decides.
LEMMA TypeSetLimit ==
  ASSUME LedgerTypeOK, NEW o \in Operations, NEW k \in PeriodKeys,
         NEW limit \in Limits, NEW unlimited \in BOOLEAN,
         SetLimit(o, k, limit, unlimited)
  PROVE  /\ period' \in [PeriodKeys -> Period]
         /\ done' \subseteq Operations
<1> DEFINE p == PeriodRow(k, group)
           q == [p EXCEPT !.limit = limit, !.unlimited = unlimited]
<1>1. p \in Period /\ limit \in Nat
  BY LedgerAssumption, PeriodRowType DEF LedgerTypeOK
<1>2. Alerted(q) \in Period
  <2> HIDE DEF p
  <2>1. q \in Period
    BY <1>1 DEF Period
  <2> QED BY <2>1, AlertedType
<1>3. /\ period' = [period EXCEPT ![k] = Alerted(q)]
      /\ done' = done \cup {o}
  BY DEF SetLimit
<1> HIDE DEF p, q
<1> QED BY <1>2, <1>3 DEF LedgerTypeOK

LEMMA TypeAdjustCurrent ==
  ASSUME LedgerTypeOK, NEW o \in Operations, NEW k \in PeriodKeys,
         NEW limit \in Limits, NEW unlimited \in BOOLEAN,
         AdjustCurrent(o, k, limit, unlimited)
  PROVE  LedgerTypeOK'
<1>1. SetLimit(o, k, limit, unlimited) /\ UNCHANGED application
  BY DEF AdjustCurrent
<1>2. UNCHANGED <<group, entry, outbox, log, clock>>
  BY <1>1 DEF SetLimit
<1> QED BY <1>1, <1>2, TypeSetLimit DEF LedgerTypeOK

LEMMA TypeApproveApplication ==
  ASSUME LedgerTypeOK, NEW o \in Operations, NEW a \in Applications,
         NEW k \in PeriodKeys, NEW limit \in Limits,
         NEW unlimited \in BOOLEAN,
         ApproveApplication(o, a, k, limit, unlimited)
  PROVE  LedgerTypeOK'
<1> DEFINE c == [status |-> "LINKED", approved |-> limit]
<1>1. SetLimit(o, k, limit, unlimited)
  BY DEF ApproveApplication
<1>2. UNCHANGED <<group, entry, outbox, log, clock>>
  BY <1>1 DEF SetLimit
<1>3. application' = [application EXCEPT ![a] = c]
  BY DEF ApproveApplication
<1>4. c \in Application
  BY LedgerAssumption DEF Application
<1>5. application' \in [Applications -> Application]
  <2> HIDE DEF c
  <2> QED BY <1>3, <1>4 DEF LedgerTypeOK
<1> QED BY <1>1, <1>2, <1>5, TypeSetLimit DEF LedgerTypeOK

LEMMA CurrentKeyType ==
  ASSUME LedgerTypeOK
  PROVE  CurrentKey(clock) \in PeriodKeys
BY KeyType DEF CurrentKey, LedgerTypeOK, Group

LEMMA TypeAdjustDefault ==
  ASSUME LedgerTypeOK, NEW o \in Operations, NEW limit \in Limits,
         NEW unlimited \in BOOLEAN, AdjustDefault(o, limit, unlimited)
  PROVE  LedgerTypeOK'
<1> DEFINE k == CurrentKey(clock)
           p == PeriodRow(k, group)
           g == [group EXCEPT !.limit = limit, !.unlimited = unlimited]
<1>1. k \in PeriodKeys
  BY CurrentKeyType
<1>2. p \in Period
  BY <1>1, PeriodRowType DEF LedgerTypeOK
<1>3. g \in Group
  BY LedgerAssumption DEF LedgerTypeOK, Group
<1>4. /\ period' = [period EXCEPT ![k] = p]
      /\ group' = g
      /\ done' = done \cup {o}
      /\ UNCHANGED <<entry, outbox, log, application, clock>>
  BY DEF AdjustDefault
<1> HIDE DEF k, p, g
<1> QED BY <1>1, <1>2, <1>3, <1>4 DEF LedgerTypeOK

LEMMA TypeConfigure ==
  ASSUME LedgerTypeOK, NEW o \in Operations,
         NEW mode \in {"TOTAL", "MONTHLY"}, NEW tz \in Timezones,
         Configure(o, mode, tz)
  PROVE  LedgerTypeOK'
<1> DEFINE now     == CurrentKey(clock)
           target  == PeriodKey(mode, tz, clock)
           changed == [group EXCEPT !.mode = mode, !.timezone = tz]
           opened  == [period EXCEPT ![now] = PeriodRow(now, group)]
           row     == IF opened[target].exists THEN opened[target]
                      ELSE PeriodRow(target, changed)
           q       == [row EXCEPT !.timezone = tz]
<1>1. now \in PeriodKeys /\ target \in PeriodKeys
  BY CurrentKeyType, KeyType DEF LedgerTypeOK
<1>2. changed \in Group
  BY DEF LedgerTypeOK, Group
<1>3. opened \in [PeriodKeys -> Period]
  <2>1. PeriodRow(now, group) \in Period
    BY <1>1, PeriodRowType DEF LedgerTypeOK
  <2> HIDE DEF now
  <2> QED BY <1>1, <2>1 DEF LedgerTypeOK
<1>4. row \in Period
  <2>1. PeriodRow(target, changed) \in Period
    <3> HIDE DEF target, changed
    <3> QED BY <1>1, <1>2, PeriodRowType DEF LedgerTypeOK
  <2> HIDE DEF now, target, changed, opened
  <2> QED BY <1>1, <1>3, <2>1
<1>5. q \in Period
  <2> HIDE DEF row
  <2> QED BY <1>4 DEF Period
<1>6. /\ group' = changed
      /\ period' = [opened EXCEPT ![target] = q]
      /\ done' = done \cup {o}
      /\ UNCHANGED <<entry, outbox, log, application, clock>>
  BY DEF Configure
<1> HIDE DEF now, target, changed, opened, row, q
<1> QED BY <1>1, <1>2, <1>3, <1>5, <1>6 DEF LedgerTypeOK

LEMMA TypeMark ==
  ASSUME LedgerTypeOK, NEW a \in Applications,
         NEW status \in {"SUBMITTING", "REGISTERED", "REJECTED"},
         Mark(a, status)
  PROVE  LedgerTypeOK'
<1> DEFINE c == [application[a] EXCEPT !.status = status]
<1>1. c \in Application
  BY DEF LedgerTypeOK, Application
<1>2. /\ application' = [application EXCEPT ![a] = c]
      /\ UNCHANGED <<group, period, entry, outbox, log, done, clock>>
  BY DEF Mark
<1> HIDE DEF c
<1> QED BY <1>1, <1>2 DEF LedgerTypeOK

-------------------------------------------------------------------------------
(* The calls about one request.                                            *)

\* One step of the ledger about request r, whatever the amounts and whenever
\* the worker's scan began.
RequestMoves(r) ==
  \/ \E at \in 1 .. clock, amount \in Nat : Reserve(r, at, amount)
  \/ \E attempt \in Attempts, amount \in Nat : Extend(r, attempt, amount)
  \/ \E amount \in Nat : Settle(r, amount)
  \/ \E actual, unresolved \in Nat : Hold(r, actual, unresolved)
  \/ Release(r)
  \/ MarkDispatched(r, clock + LeaseTicks)
  \/ MarkUncertain(r)
  \/ \E now \in Nat : RecoverExpired(r, now)
  \/ \E version \in Nat : ConfirmSync(r, version)
  \/ \E o \in Operations, action \in {"SETTLE", "RELEASE"}, amount \in Nat :
       Reconcile(r, o, action, amount)

LEMMA RequestNextMoves ==
  ASSUME LedgerTypeOK, RequestNext
  PROVE  \E r \in Requests : RequestMoves(r)
<1>1. \A r \in Requests : outbox[r].version \in Nat
  BY DEF LedgerTypeOK, Outbox
<1>2. Amounts \subseteq Nat /\ 1 .. clock \subseteq Nat
  BY LedgerAssumption DEF LedgerTypeOK, Instants
<1> PICK r \in Requests :
      \/ \E at \in 1 .. clock, amount \in Amounts : Reserve(r, at, amount)
      \/ \E attempt \in Attempts, amount \in Amounts :
           Extend(r, attempt, amount)
      \/ \E amount \in Amounts : Settle(r, amount)
      \/ \E actual, unresolved \in Amounts : Hold(r, actual, unresolved)
      \/ Release(r)
      \/ MarkDispatched(r, clock + LeaseTicks)
      \/ MarkUncertain(r)
      \/ \E now \in 1 .. clock : RecoverExpired(r, now)
      \/ ConfirmSync(r, outbox[r].version)
  BY Zenon DEF RequestNext
<1> QED BY <1>1, <1>2 DEF RequestMoves

LEMMA TypeMoves ==
  ASSUME LedgerTypeOK, NEW r \in Requests, RequestMoves(r)
  PROVE  LedgerTypeOK'
<1>1. CASE \E at \in 1 .. clock, amount \in Nat : Reserve(r, at, amount)
  BY <1>1, TypeReserve
<1>2. CASE \E attempt \in Attempts, amount \in Nat :
             Extend(r, attempt, amount)
  BY <1>2, TypeExtend
<1>3. CASE \E amount \in Nat : Settle(r, amount)
  BY <1>3, TypeSettle
<1>4. CASE \E actual, unresolved \in Nat : Hold(r, actual, unresolved)
  BY <1>4, TypeHold
<1>5. CASE Release(r)
  BY <1>5, TypeReleaseEntry DEF Release
<1>6. CASE MarkDispatched(r, clock + LeaseTicks)
  <2>1. clock + LeaseTicks \in Nat
    BY LedgerAssumption DEF LedgerTypeOK, Instants
  <2> QED BY <1>6, <2>1, TypeMarkDispatched
<1>7. CASE MarkUncertain(r)
  BY <1>7, TypeUncertain DEF MarkUncertain
<1>8. CASE \E now \in Nat : RecoverExpired(r, now)
  BY <1>8, TypeUncertain, TypeReleaseEntry DEF RecoverExpired
<1>9. CASE \E version \in Nat : ConfirmSync(r, version)
  BY <1>9, TypeConfirmSync
<1>10. CASE \E o \in Operations, action \in {"SETTLE", "RELEASE"},
              amount \in Nat : Reconcile(r, o, action, amount)
  BY <1>10, TypeReconcile
<1> QED
  BY <1>1, <1>2, <1>3, <1>4, <1>5, <1>6, <1>7, <1>8, <1>9, <1>10
     DEF RequestMoves

LEMMA TypeAdminNext ==
  ASSUME LedgerTypeOK, AdminNext
  PROVE  LedgerTypeOK'
<1>1. ASSUME NEW o \in Operations, NEW r \in Requests,
             NEW action \in {"SETTLE", "RELEASE"}, NEW amount \in Amounts,
             Reconcile(r, o, action, amount)
      PROVE  LedgerTypeOK'
  BY <1>1, TypeReconcile, LedgerAssumption
<1>2. ASSUME NEW o \in Operations, NEW limit \in Limits,
             NEW unlimited \in BOOLEAN, AdjustDefault(o, limit, unlimited)
      PROVE  LedgerTypeOK'
  BY <1>2, TypeAdjustDefault
<1>3. ASSUME NEW o \in Operations, NEW k \in PeriodKeys,
             NEW limit \in Limits, NEW unlimited \in BOOLEAN,
             AdjustCurrent(o, k, limit, unlimited)
      PROVE  LedgerTypeOK'
  BY <1>3, TypeAdjustCurrent
<1>4. ASSUME NEW o \in Operations, NEW a \in Applications,
             NEW k \in PeriodKeys, NEW limit \in Limits,
             NEW unlimited \in BOOLEAN,
             ApproveApplication(o, a, k, limit, unlimited)
      PROVE  LedgerTypeOK'
  BY <1>4, TypeApproveApplication
<1>5. ASSUME NEW o \in Operations, NEW mode \in {"TOTAL", "MONTHLY"},
             NEW tz \in Timezones, Configure(o, mode, tz)
      PROVE  LedgerTypeOK'
  BY <1>5, TypeConfigure
<1>6. ASSUME NEW a \in Applications,
             CheckApplication(a) \/ SubmitApplication(a)
               \/ RejectApplication(a)
      PROVE  LedgerTypeOK'
  BY <1>6, TypeMark
     DEF CheckApplication, SubmitApplication, RejectApplication
<1>7. ASSUME Archive
      PROVE  LedgerTypeOK'
  <2>1. group' = [group EXCEPT !.archived = TRUE]
    BY <1>7 DEF Archive
  <2>2. group' \in Group
    BY <2>1 DEF LedgerTypeOK, Group
  <2>3. UNCHANGED <<period, entry, outbox, log, done, application, clock>>
    BY <1>7 DEF Archive
  <2> QED BY <2>2, <2>3 DEF LedgerTypeOK
<1> QED BY <1>1, <1>2, <1>3, <1>4, <1>5, <1>6, <1>7 DEF AdminNext

LEMMA TypeStep ==
  ASSUME LedgerTypeOK, [LedgerNext]_ledgerVars
  PROVE  LedgerTypeOK'
<1>1. CASE RequestNext
  BY <1>1, RequestNextMoves, TypeMoves
<1>2. CASE AdminNext
  BY <1>2, TypeAdminNext
<1>3. CASE Tick
  <2>1. clock' \in Instants
    BY <1>3, LedgerAssumption DEF Tick, LedgerTypeOK, Instants
  <2>2. UNCHANGED <<group, period, entry, outbox, log, done, application>>
    BY <1>3 DEF Tick
  <2> QED BY <2>1, <2>2 DEF LedgerTypeOK
<1>4. CASE UNCHANGED ledgerVars
  BY <1>4 DEF ledgerVars, LedgerTypeOK
<1> QED BY <1>1, <1>2, <1>3, <1>4 DEF LedgerNext

LEMMA InitialPeriodType ==
  ASSUME NEW now, NEW tz \in Timezones, NEW limit \in Limits
  PROVE  InitialPeriod(now, tz, limit) \in [PeriodKeys -> Period]
<1>1. limit \in Nat
  BY LedgerAssumption
<1> QED BY <1>1 DEF InitialPeriod, Period

LEMMA TypeInit ==
  ASSUME LedgerInit
  PROVE  LedgerTypeOK
<1>1. 1 \in Instants /\ TotalKey \in PeriodKeys
  BY LedgerAssumption DEF Instants, PeriodKeys
<1>2. group \in Group
  BY LedgerAssumption DEF LedgerInit, Group
<1>6. period \in [PeriodKeys -> Period]
  <2> PICK mode \in {"TOTAL", "MONTHLY"}, tz \in Timezones, limit \in Limits :
        period = InitialPeriod(PeriodKey(mode, tz, 1), tz, limit)
    BY DEF LedgerInit
  <2> QED BY InitialPeriodType
<1>3. entry \in [Requests -> Entry]
  BY <1>1 DEF LedgerInit, NewEntry, Entry, NoLease
<1>4. outbox \in [Requests -> Outbox] /\ log \in [Requests -> Log]
  BY DEF LedgerInit, NewOutbox, Outbox, Log, NoActual
<1>5. /\ application \in [Applications -> Application]
      /\ done \subseteq Operations /\ clock \in Instants
  BY <1>1 DEF LedgerInit, Application
<1> QED BY <1>2, <1>3, <1>4, <1>5, <1>6 DEF LedgerTypeOK

\* Every row of the group's budget stays well typed: amounts that must not go
\* negative do not, statuses and keys stay in their sets.
THEOREM LedgerTypeCorrect == LedgerSpec => []LedgerTypeOK
<1>1. LedgerInit => LedgerTypeOK
  BY TypeInit
<1>2. LedgerTypeOK /\ [LedgerNext]_ledgerVars => LedgerTypeOK'
  BY TypeStep
<1> QED BY <1>1, <1>2, PTL DEF LedgerSpec

-------------------------------------------------------------------------------
(* What one request's entry and usage log say of each other, in every      *)
(* interleaving of the gateway, the worker and the administrators.         *)

\* The inductive invariant of one request: the properties of the entry and of
\* its log, and that nothing is logged, charged or decided by hand before the
\* entry leaves RESERVED.
Row(e, l) ==
  /\ e.status = "RESERVED" <=> e.lease # NoLease
  /\ e.status = "RELEASED" /\ e.dispatched => e.manualFinal
  /\ l.cost = e.settled
  /\ e.settled > 0 => l.written
  /\ e.status = "SETTLED" => l.billing = "KNOWN"
  /\ e.status = "RELEASED" => l.billing \in {"NONE", "NO_CHARGE"}
  /\ e.status \in {"NONE", "RESERVED"} =>
       /\ ~l.written /\ l.billing = "NONE" /\ e.settled = 0
       /\ ~e.manualFinal /\ ~e.held
  /\ e.manualFinal => e.status \in {"SETTLED", "RELEASED"}

Rows == \A r \in Requests : Row(entry[r], log[r])

LEMMA RowsByOne ==
  ASSUME LedgerTypeOK, Rows, NEW r \in Requests, NEW e, NEW l,
         entry' = [entry EXCEPT ![r] = e], log' = [log EXCEPT ![r] = l],
         Row(e, l)
  PROVE  Rows'
<1>1. \A x \in Requests : /\ entry'[x] = IF x = r THEN e ELSE entry[x]
                          /\ log'[x] = IF x = r THEN l ELSE log[x]
  BY DEF LedgerTypeOK
<1> SUFFICES ASSUME NEW x \in Requests
             PROVE  Row(entry'[x], log'[x])
  BY DEF Rows
<1>2. CASE x = r
  BY <1>1, <1>2
<1>3. CASE x # r
  BY <1>1, <1>3 DEF Rows
<1> QED BY <1>2, <1>3

\* A step of one request that leaves its log alone.
LEMMA RowsByEntry ==
  ASSUME LedgerTypeOK, Rows, NEW r \in Requests, NEW e,
         entry' = [entry EXCEPT ![r] = e], UNCHANGED log, Row(e, log[r])
  PROVE  Rows'
<1>1. log' = [log EXCEPT ![r] = log[r]]
  BY DEF LedgerTypeOK
<1> QED BY <1>1, RowsByOne

-------------------------------------------------------------------------------
(* One lemma per operation that touches an entry or a log.                 *)

LEMMA RowsReserve ==
  ASSUME LedgerTypeOK, Rows, NEW r \in Requests, NEW at, NEW amount,
         Reserve(r, at, amount)
  PROVE  Rows'
<1> DEFINE e == [NewEntry EXCEPT
                   !.status = "RESERVED", !.period = CurrentKey(at),
                   !.startedAt = at, !.reserved = amount,
                   !.lease = clock + LeaseTicks]
<1>1. /\ entry' = [entry EXCEPT ![r] = e] /\ UNCHANGED log
      /\ entry[r].status = "NONE"
  BY DEF Reserve
<1>2. /\ e.status = "RESERVED" /\ e.lease = clock + LeaseTicks
      /\ e.settled = 0 /\ ~e.manualFinal /\ ~e.held
  BY DEF NewEntry
<1>3. e.lease # NoLease
  BY <1>2, LedgerAssumption DEF LedgerTypeOK, Instants, NoLease
<1>4. ~log[r].written /\ log[r].billing = "NONE" /\ log[r].cost = 0
  BY <1>1 DEF Rows, Row
<1> HIDE DEF e
<1>5. Row(e, log[r])
  BY <1>2, <1>3, <1>4 DEF Row
<1> QED BY <1>1, <1>5, RowsByEntry

LEMMA RowsExtend ==
  ASSUME LedgerTypeOK, Rows, NEW r \in Requests, NEW attempt, NEW amount,
         Extend(r, attempt, amount)
  PROVE  Rows'
<1> DEFINE e == [entry[r] EXCEPT !.reserved = @ + amount,
                                 !.extensions = @ \cup {attempt}]
<1>1. entry' = [entry EXCEPT ![r] = e] /\ UNCHANGED log
  BY DEF Extend
<1>2. /\ e.status = entry[r].status /\ e.lease = entry[r].lease
      /\ e.dispatched = entry[r].dispatched /\ e.settled = entry[r].settled
      /\ e.manualFinal = entry[r].manualFinal /\ e.held = entry[r].held
  BY RowTypes DEF Entry
<1> HIDE DEF e
<1>3. Row(e, log[r])
  BY <1>2 DEF Rows, Row
<1> QED BY <1>1, <1>3, RowsByEntry

LEMMA RowsSettle ==
  ASSUME LedgerTypeOK, Rows, NEW r \in Requests, NEW amount \in Nat,
         Settle(r, amount)
  PROVE  Rows'
<1> DEFINE e == [entry[r] EXCEPT !.status = "SETTLED", !.settled = amount,
                                 !.lease = NoLease]
           l == [written |-> TRUE, cost |-> amount, billing |-> "KNOWN"]
<1>1. /\ entry' = [entry EXCEPT ![r] = e] /\ log' = [log EXCEPT ![r] = l]
      /\ ~entry[r].manualFinal
  BY DEF Settle
<1>2. /\ e.status = "SETTLED" /\ e.lease = NoLease /\ e.settled = amount
      /\ e.manualFinal = entry[r].manualFinal
  BY RowTypes DEF Entry
<1> HIDE DEF e
<1>3. Row(e, l)
  BY <1>1, <1>2 DEF Row
<1> QED BY <1>1, <1>3, RowsByOne

LEMMA RowsHold ==
  ASSUME LedgerTypeOK, Rows, NEW r \in Requests, NEW actual \in Nat,
         NEW unresolved, Hold(r, actual, unresolved)
  PROVE  Rows'
<1> DEFINE e == [entry[r] EXCEPT !.status = "RECONCILIATION_REQUIRED",
                                 !.settled = actual, !.reserved = unresolved,
                                 !.lease = NoLease, !.held = TRUE]
           l == [written |-> TRUE, cost |-> actual, billing |-> "UNKNOWN"]
<1>1. /\ entry' = [entry EXCEPT ![r] = e] /\ log' = [log EXCEPT ![r] = l]
      /\ ~entry[r].manualFinal
  BY DEF Hold
<1>2. /\ e.status = "RECONCILIATION_REQUIRED" /\ e.lease = NoLease
      /\ e.settled = actual /\ e.manualFinal = entry[r].manualFinal
  BY RowTypes DEF Entry
<1> HIDE DEF e
<1>3. Row(e, l)
  BY <1>1, <1>2 DEF Row
<1> QED BY <1>1, <1>3, RowsByOne

\* The reservation is given back by the gateway or by the worker: both find
\* the request RESERVED and not dispatched.
LEMMA RowsReleaseEntry ==
  ASSUME LedgerTypeOK, Rows, NEW r \in Requests,
         entry[r].status = "RESERVED", ~entry[r].dispatched, ReleaseEntry(r)
  PROVE  Rows'
<1> DEFINE e == [entry[r] EXCEPT !.status = "RELEASED", !.lease = NoLease]
<1>1. entry' = [entry EXCEPT ![r] = e] /\ UNCHANGED log
  BY DEF ReleaseEntry
<1>2. /\ e.status = "RELEASED" /\ e.lease = NoLease /\ ~e.dispatched
      /\ e.settled = entry[r].settled
      /\ e.manualFinal = entry[r].manualFinal
  BY RowTypes DEF Entry
<1> HIDE DEF e
<1>3. Row(e, log[r])
  BY <1>2 DEF Rows, Row
<1> QED BY <1>1, <1>3, RowsByEntry

LEMMA RowsMarkDispatched ==
  ASSUME LedgerTypeOK, Rows, NEW r \in Requests,
         MarkDispatched(r, clock + LeaseTicks)
  PROVE  Rows'
<1> DEFINE e == [entry[r] EXCEPT !.dispatched = TRUE,
                                 !.lease = clock + LeaseTicks]
<1>1. /\ entry' = [entry EXCEPT ![r] = e] /\ UNCHANGED log
      /\ entry[r].status = "RESERVED"
  BY DEF MarkDispatched
<1>2. /\ e.status = "RESERVED" /\ e.lease = clock + LeaseTicks
      /\ e.settled = entry[r].settled
      /\ e.manualFinal = entry[r].manualFinal /\ e.held = entry[r].held
  BY <1>1, RowTypes DEF Entry
<1>3. e.lease # NoLease
  BY <1>2, LedgerAssumption DEF LedgerTypeOK, Instants, NoLease
<1> HIDE DEF e
<1>4. Row(e, log[r])
  BY <1>1, <1>2, <1>3 DEF Rows, Row
<1> QED BY <1>1, <1>4, RowsByEntry

LEMMA RowsUncertain ==
  ASSUME LedgerTypeOK, Rows, NEW r \in Requests, Open(r), Uncertain(r)
  PROVE  Rows'
<1> DEFINE e == [entry[r] EXCEPT !.status = "RECONCILIATION_REQUIRED",
                                 !.lease = NoLease]
<1>1. entry' = [entry EXCEPT ![r] = e] /\ UNCHANGED log
  BY DEF Uncertain
<1>2. /\ e.status = "RECONCILIATION_REQUIRED" /\ e.lease = NoLease
      /\ e.settled = entry[r].settled
      /\ e.manualFinal = entry[r].manualFinal
  BY RowTypes DEF Entry
<1>3. ~entry[r].manualFinal
  BY DEF Open, Rows, Row
<1> HIDE DEF e
<1>4. Row(e, log[r])
  BY <1>2, <1>3 DEF Rows, Row
<1> QED BY <1>1, <1>4, RowsByEntry

LEMMA RowsReconcile ==
  ASSUME LedgerTypeOK, Rows, NEW r \in Requests, NEW o, NEW action,
         NEW amount \in Nat, Reconcile(r, o, action, amount)
  PROVE  Rows'
<1> DEFINE e == [entry[r] EXCEPT
                   !.status = IF action = "RELEASE" THEN "RELEASED"
                              ELSE "SETTLED",
                   !.settled = amount, !.lease = NoLease, !.manualFinal = TRUE]
           l == [written |-> TRUE, cost |-> amount,
                 billing |-> IF action = "RELEASE" THEN "NO_CHARGE"
                             ELSE "KNOWN"]
<1>1. entry' = [entry EXCEPT ![r] = e] /\ log' = [log EXCEPT ![r] = l]
  BY DEF Reconcile
<1>2. /\ e.status = IF action = "RELEASE" THEN "RELEASED" ELSE "SETTLED"
      /\ e.lease = NoLease /\ e.settled = amount /\ e.manualFinal
  BY RowTypes DEF Entry
<1> HIDE DEF e
<1>3. Row(e, l)
  BY <1>2 DEF Row
<1> QED BY <1>1, <1>3, RowsByOne

-------------------------------------------------------------------------------
LEMMA RowsMoves ==
  ASSUME LedgerTypeOK, Rows, NEW r \in Requests, RequestMoves(r)
  PROVE  Rows'
<1>1. CASE \E at \in 1 .. clock, amount \in Nat : Reserve(r, at, amount)
  BY <1>1, RowsReserve
<1>2. CASE \E attempt \in Attempts, amount \in Nat :
             Extend(r, attempt, amount)
  BY <1>2, RowsExtend
<1>3. CASE \E amount \in Nat : Settle(r, amount)
  BY <1>3, RowsSettle
<1>4. CASE \E actual, unresolved \in Nat : Hold(r, actual, unresolved)
  BY <1>4, RowsHold
<1>5. CASE Release(r)
  BY <1>5, RowsReleaseEntry DEF Release
<1>6. CASE MarkDispatched(r, clock + LeaseTicks)
  BY <1>6, RowsMarkDispatched
<1>7. CASE MarkUncertain(r)
  BY <1>7, RowsUncertain DEF MarkUncertain
<1>8. CASE \E now \in Nat : RecoverExpired(r, now)
  BY <1>8, RowsUncertain, RowsReleaseEntry DEF RecoverExpired, Open
<1>9. CASE \E version \in Nat : ConfirmSync(r, version)
  BY <1>9 DEF ConfirmSync, Rows
<1>10. CASE \E o \in Operations, action \in {"SETTLE", "RELEASE"},
              amount \in Nat : Reconcile(r, o, action, amount)
  BY <1>10, RowsReconcile
<1> QED
  BY <1>1, <1>2, <1>3, <1>4, <1>5, <1>6, <1>7, <1>8, <1>9, <1>10
     DEF RequestMoves

\* Of the administrators' operations only reconcile touches a request.
LEMMA AdminSparesRequests ==
  ASSUME AdminNext
  PROVE  \/ \E o \in Operations, r \in Requests,
               action \in {"SETTLE", "RELEASE"}, amount \in Amounts :
                 Reconcile(r, o, action, amount)
         \/ UNCHANGED <<entry, outbox, log>>
<1> DEFINE Same == UNCHANGED <<entry, outbox, log>>
<1>1. ASSUME NEW o, NEW limit, NEW unlimited, AdjustDefault(o, limit, unlimited)
      PROVE  Same
  BY <1>1 DEF AdjustDefault
<1>2. ASSUME NEW o, NEW k, NEW limit, NEW unlimited,
             AdjustCurrent(o, k, limit, unlimited)
      PROVE  Same
  BY <1>2 DEF AdjustCurrent, SetLimit
<1>3. ASSUME NEW o, NEW a, NEW k, NEW limit, NEW unlimited,
             ApproveApplication(o, a, k, limit, unlimited)
      PROVE  Same
  BY <1>3 DEF ApproveApplication, SetLimit
<1>4. ASSUME NEW o, NEW mode, NEW tz, Configure(o, mode, tz)
      PROVE  Same
  BY <1>4 DEF Configure
<1>5. ASSUME NEW a, CheckApplication(a) \/ SubmitApplication(a)
                      \/ RejectApplication(a)
      PROVE  Same
  BY <1>5 DEF CheckApplication, SubmitApplication, RejectApplication, Mark
<1>6. Archive => Same
  BY DEF Archive
<1> HIDE DEF Same
<1>7. \/ \E o \in Operations, r \in Requests,
           action \in {"SETTLE", "RELEASE"}, amount \in Amounts :
             Reconcile(r, o, action, amount)
      \/ Same
  BY <1>1, <1>2, <1>3, <1>4, <1>5, <1>6, Zenon DEF AdminNext
<1> QED BY <1>7 DEF Same

LEMMA RowsStep ==
  ASSUME LedgerTypeOK, Rows, [LedgerNext]_ledgerVars
  PROVE  Rows'
<1>1. CASE RequestNext
  BY <1>1, RequestNextMoves, RowsMoves
<1>2. CASE AdminNext
  <2>1. CASE UNCHANGED <<entry, outbox, log>>
    BY <2>1 DEF Rows
  <2> QED BY <1>2, <2>1, AdminSparesRequests, RowsReconcile, LedgerAssumption
<1>3. CASE Tick
  BY <1>3 DEF Tick, Rows
<1>4. CASE UNCHANGED ledgerVars
  BY <1>4 DEF ledgerVars, Rows
<1> QED BY <1>1, <1>2, <1>3, <1>4 DEF LedgerNext

LEMMA RowsInit ==
  ASSUME LedgerInit
  PROVE  Rows
BY DEF LedgerInit, Rows, Row, NewEntry, NoLease

LEMMA RowsAlways == LedgerSpec => [](LedgerTypeOK /\ Rows)
<1>1. LedgerInit => LedgerTypeOK /\ Rows
  BY TypeInit, RowsInit
<1>2. LedgerTypeOK /\ Rows /\ [LedgerNext]_ledgerVars => (LedgerTypeOK /\ Rows)'
  BY TypeStep, RowsStep
<1> QED BY <1>1, <1>2, PTL DEF LedgerSpec

\* The usage log and the ledger never disagree about what a request cost, while
\* the log is retained.
THEOREM LogsMatch == LedgerSpec => []LogMatchesLedger
<1>1. LedgerTypeOK /\ Rows => LogMatchesLedger
  BY DEF Rows, Row, LogMatchesLedger
<1> QED BY <1>1, RowsAlways, PTL

\* No request that may have reached a supplier is refunded automatically.
THEOREM DispatchedKept == LedgerSpec => []DispatchedNotRefunded
<1>1. LedgerTypeOK /\ Rows => DispatchedNotRefunded
  BY DEF Rows, Row, DispatchedNotRefunded
<1> QED BY <1>1, RowsAlways, PTL

\* recoverExpired can find every reservation that is left behind.
THEOREM ReservedLeased == LedgerSpec => []ReservedHasLease
<1>1. LedgerTypeOK /\ Rows => ReservedHasLease
  BY DEF Rows, Row, ReservedHasLease
<1> QED BY <1>1, RowsAlways, PTL

-------------------------------------------------------------------------------
(* The manual decision is final.                                           *)

LEMMA ManualFinalStep ==
  ASSUME LedgerTypeOK, Rows, [LedgerNext]_ledgerVars, NEW x \in Requests,
         entry[x].manualFinal,
         <<entry[x].status, entry[x].settled, log[x]>>'
           # <<entry[x].status, entry[x].settled, log[x]>>
  PROVE  outbox'[x].version = outbox[x].version + 1
<1> DEFINE Same == entry'[x] = entry[x] /\ log'[x] = log[x]
<1>1. entry[x].status \in {"SETTLED", "RELEASED"}
  BY DEF Rows, Row
<1>2. ~Same
  OBVIOUS
<1>3. ASSUME NEW r \in Requests, NEW at, NEW amount, Reserve(r, at, amount)
      PROVE  Same
  BY <1>1, <1>3 DEF Reserve, LedgerTypeOK
<1>4. ASSUME NEW r \in Requests, NEW attempt, NEW amount,
             Extend(r, attempt, amount)
      PROVE  Same
  BY <1>1, <1>4 DEF Extend, Open, LedgerTypeOK
<1>5. ASSUME NEW r \in Requests, NEW amount, Settle(r, amount)
      PROVE  Same
  BY <1>1, <1>5 DEF Settle, Open, LedgerTypeOK
<1>6. ASSUME NEW r \in Requests, NEW actual, NEW unresolved,
             Hold(r, actual, unresolved)
      PROVE  Same
  BY <1>1, <1>6 DEF Hold, Open, LedgerTypeOK
<1>7. ASSUME NEW r \in Requests, entry[r].status = "RESERVED", ReleaseEntry(r)
      PROVE  Same
  BY <1>1, <1>7 DEF ReleaseEntry, LedgerTypeOK
<1>8. ASSUME NEW r \in Requests, NEW until, MarkDispatched(r, until)
      PROVE  Same
  BY <1>1, <1>8 DEF MarkDispatched, LedgerTypeOK
<1>9. ASSUME NEW r \in Requests, Open(r), Uncertain(r)
      PROVE  Same
  BY <1>1, <1>9 DEF Uncertain, Open, LedgerTypeOK
<1>10. ASSUME NEW r \in Requests, NEW now, RecoverExpired(r, now)
       PROVE  Same
  BY <1>7, <1>9, <1>10 DEF RecoverExpired, Open
<1>11. ASSUME NEW r \in Requests, NEW version, ConfirmSync(r, version)
       PROVE  Same
  BY <1>11 DEF ConfirmSync
<1>12. ASSUME NEW r \in Requests, NEW o, NEW action, NEW amount,
              Reconcile(r, o, action, amount)
       PROVE  \/ Same
              \/ outbox'[x].version = outbox[x].version + 1
  <2>1. CASE r = x
    BY <1>12, <2>1 DEF Reconcile, LedgerTypeOK, Outbox
  <2>2. CASE r # x
    BY <1>12, <2>2 DEF Reconcile, LedgerTypeOK
  <2> QED BY <2>1, <2>2
<1>13. UNCHANGED <<entry, log>> => Same
  OBVIOUS
<1>14. Tick \/ UNCHANGED ledgerVars => Same
  BY DEF Tick, ledgerVars
<1> HIDE DEF Same
<1>15. CASE RequestNext
  <2>1. RequestNext => Same
    BY <1>3, <1>4, <1>5, <1>6, <1>7, <1>8, <1>9, <1>10, <1>11
       DEF RequestNext, Release, MarkUncertain
  <2> QED BY <1>2, <1>15, <2>1
<1>16. CASE AdminNext
  BY <1>2, <1>12, <1>13, <1>16, AdminSparesRequests
<1> QED BY <1>2, <1>14, <1>15, <1>16 DEF LedgerNext

\* No late settle, hold, release or recovery overturns an administrator's
\* reconciliation: only another reconciliation does.
THEOREM ManualDecisionFinal == LedgerSpec => ManualFinalHolds
<1>1. LedgerTypeOK /\ Rows /\ [LedgerNext]_ledgerVars =>
        [\A r \in Requests :
           /\ entry[r].manualFinal
           /\ <<entry[r].status, entry[r].settled, log[r]>>'
                # <<entry[r].status, entry[r].settled, log[r]>>
           => outbox'[r].version = outbox[r].version + 1]_ledgerVars
  BY ManualFinalStep
<1> QED BY <1>1, RowsAlways, PTL DEF LedgerSpec, ManualFinalHolds

-----------------------------------------------------------------------------
(* The ledger's money is conserved: the running totals of every period are *)
(* the sums over its requests, for any number of requests and amounts; the *)
(* limits and alerts that guard it; and what a change of settings may do.  *)


\* What entry e holds reserved in period j, and what it has cost there.
Held(e, j) == IF /\ e.status \in {"RESERVED", "RECONCILIATION_REQUIRED"}
                 /\ e.period = j
              THEN e.reserved ELSE 0
Cost(e, j) == IF e.period = j THEN e.settled ELSE 0

\* The inductive invariant: conservation, that money is only ever posted to a
\* period that has been opened, and that a request without a log cost nothing.
Money == /\ LedgerTypeOK
         /\ LogMatchesLedger
         /\ PeriodsOpened
         /\ ReservedConserved
         /\ SpentConserved

-------------------------------------------------------------------------------
(* The shapes of a step.                                                   *)

LEMMA HeldType ==
  ASSUME NEW e \in Entry, NEW j
  PROVE  Held(e, j) \in Nat /\ Cost(e, j) \in Nat
BY DEF Held, Cost, Entry

\* The summands of a period are those of its requests' entries.
LEMMA Summands ==
  ASSUME LedgerTypeOK, NEW j
  PROVE  /\ OpenReserved(j) = [r \in Requests |-> Held(entry[r], j)]
         /\ Costs(j) = [r \in Requests |-> Cost(entry[r], j)]
         /\ OpenReserved(j) \in [Requests -> Nat]
         /\ Costs(j) \in [Requests -> Nat]
<1>1. OpenReserved(j) = [r \in Requests |-> Held(entry[r], j)]
  BY DEF OpenReserved, Open, Held
<1>2. Costs(j) = [r \in Requests |-> Cost(entry[r], j)]
  BY DEF Costs, Cost
<1>3. \A r \in Requests : Held(entry[r], j) \in Nat /\ Cost(entry[r], j) \in Nat
  BY HeldType, RowTypes
<1> QED BY <1>1, <1>2, <1>3

\* A step that rewrites one entry conserves money when it moves in every
\* period exactly what that entry's share there changes by.
LEMMA ConservedByPosting ==
  ASSUME LedgerTypeOK, ReservedConserved, SpentConserved,
         NEW r \in Requests, NEW e \in Entry,
         entry' = [entry EXCEPT ![r] = e],
         \A j \in PeriodKeys :
           /\ period'[j].reserved
                = period[j].reserved - Held(entry[r], j) + Held(e, j)
           /\ period'[j].spent
                = period[j].spent - Cost(entry[r], j) + Cost(e, j)
  PROVE  ReservedConserved' /\ SpentConserved'
<1> SUFFICES ASSUME NEW j \in PeriodKeys
             PROVE  /\ period'[j].reserved = Total(OpenReserved(j)', Requests)
                    /\ period'[j].spent = Total(Costs(j)', Requests)
  BY DEF ReservedConserved, SpentConserved
<1> DEFINE f == OpenReserved(j)
           g == Costs(j)
<1>1. /\ f \in [Requests -> Nat] /\ f[r] = Held(entry[r], j)
      /\ g \in [Requests -> Nat] /\ g[r] = Cost(entry[r], j)
  BY Summands
<1>2. Held(e, j) \in Nat /\ Cost(e, j) \in Nat
  BY HeldType
<1>3. \A x \in Requests : entry'[x] = IF x = r THEN e ELSE entry[x]
  BY DEF LedgerTypeOK
<1> DEFINE f2 == OpenReserved(j)'
           g2 == Costs(j)'
<1>4. /\ f2 \in [Requests -> Nat] /\ f2[r] = Held(e, j)
      /\ \A x \in Requests : x # r => f2[x] = f[x]
  <2>1. f2 = [x \in Requests |-> Held(entry'[x], j)]
    BY DEF OpenReserved, Open, Held
  <2>2. f = [x \in Requests |-> Held(entry[x], j)]
    BY Summands
  <2>3. \A x \in Requests : f[x] \in Nat
    BY <1>1
  <2> HIDE DEF f, f2
  <2>4. \A x \in Requests : f2[x] = IF x = r THEN Held(e, j) ELSE f[x]
    BY <1>3, <2>1, <2>2
  <2>5. \A x \in Requests : f2[x] \in Nat
    BY <1>2, <2>3, <2>4
  <2> QED BY <2>1, <2>4, <2>5
<1>5. /\ g2 \in [Requests -> Nat] /\ g2[r] = Cost(e, j)
      /\ \A x \in Requests : x # r => g2[x] = g[x]
  <2>1. g2 = [x \in Requests |-> Cost(entry'[x], j)]
    BY DEF Costs, Cost
  <2>2. g = [x \in Requests |-> Cost(entry[x], j)]
    BY Summands
  <2>3. \A x \in Requests : g[x] \in Nat
    BY <1>1
  <2> HIDE DEF g, g2
  <2>4. \A x \in Requests : g2[x] = IF x = r THEN Cost(e, j) ELSE g[x]
    BY <1>3, <2>1, <2>2
  <2>5. \A x \in Requests : g2[x] \in Nat
    BY <1>2, <2>3, <2>4
  <2> QED BY <2>1, <2>4, <2>5
<1>6. period[j].reserved = Total(f, Requests) /\ period[j].spent = Total(g, Requests)
  BY DEF ReservedConserved, SpentConserved
<1> HIDE DEF f, g, f2, g2
<1>7. IsFiniteSet(Requests)
  BY LedgerAssumption
<1>8. /\ Total(f2, Requests) = Total(f, Requests) - f[r] + f2[r]
      /\ Total(g2, Requests) = Total(g, Requests) - g[r] + g2[r]
  <2>1. Total(f2, Requests) = Total(f, Requests) - f[r] + f2[r]
    BY <1>1, <1>4, <1>7, TotalDiffers
  <2>2. Total(g2, Requests) = Total(g, Requests) - g[r] + g2[r]
    BY <1>1, <1>5, <1>7, TotalDiffers
  <2> QED BY <2>1, <2>2
<1>9. /\ period'[j].reserved
           = period[j].reserved - Held(entry[r], j) + Held(e, j)
      /\ period'[j].spent
           = period[j].spent - Cost(entry[r], j) + Cost(e, j)
  OBVIOUS
<1>10. /\ period'[j].reserved = Total(f2, Requests)
       /\ period'[j].spent = Total(g2, Requests)
  BY <1>1, <1>4, <1>5, <1>6, <1>8, <1>9
<1> QED BY <1>10 DEF f2, g2

\* A call of the gateway, of the worker or of reconcile: it rewrites one
\* entry and posts the difference to the one period the entry is in.
LEMMA MoneyPosting ==
  ASSUME Money, NEW r \in Requests, NEW e \in Entry,
         NEW k \in PeriodKeys, NEW q \in Period,
         entry' = [entry EXCEPT ![r] = e],
         period' = [period EXCEPT ![k] = q],
         e.period = k, e.status # "NONE", q.exists,
         entry[r].status = "NONE" \/ entry[r].period = k,
         q.reserved = period[k].reserved - Held(entry[r], k) + Held(e, k),
         q.spent = period[k].spent - Cost(entry[r], k) + Cost(e, k)
  PROVE  PeriodsOpened' /\ ReservedConserved' /\ SpentConserved'
<1>1. entry[r] \in Entry
  BY RowTypes DEF Money
<1>2. \A j \in PeriodKeys : j # k =>
        /\ Held(entry[r], j) = 0 /\ Cost(entry[r], j) = 0
        /\ Held(e, j) = 0 /\ Cost(e, j) = 0
  BY DEF Held, Cost, Money, PeriodsOpened
<1>3. \A j \in PeriodKeys : period'[j] = IF j = k THEN q ELSE period[j]
  BY DEF Money, LedgerTypeOK
<1>4. \A x \in Requests : entry'[x] = IF x = r THEN e ELSE entry[x]
  BY DEF Money, LedgerTypeOK
<1>5. \A j \in PeriodKeys : period[j].reserved \in Int /\ period[j].spent \in Int
  BY DEF Money, LedgerTypeOK, Period
<1>6. \A j \in PeriodKeys :
        /\ period'[j].reserved
             = period[j].reserved - Held(entry[r], j) + Held(e, j)
        /\ period'[j].spent
             = period[j].spent - Cost(entry[r], j) + Cost(e, j)
  BY <1>2, <1>3, <1>5
<1>7. ReservedConserved' /\ SpentConserved'
  BY <1>6, ConservedByPosting DEF Money
<1>8. \A j \in PeriodKeys :
        ~period'[j].exists => period'[j].spent = 0 /\ period'[j].reserved = 0
  BY <1>3 DEF Money, PeriodsOpened
<1>9. \A x \in Requests :
        /\ entry'[x].status # "NONE" => period'[entry'[x].period].exists
        /\ entry'[x].status = "NONE" => entry'[x].settled = 0
  <2> TAKE x \in Requests
  <2>1. CASE x = r
    BY <2>1, <1>3, <1>4
  <2>2. CASE x # r
    <3>1. entry[x].period \in PeriodKeys
      BY RowTypes DEF Money
    <3> QED BY <2>2, <3>1, <1>3, <1>4 DEF Money, PeriodsOpened
  <2> QED BY <2>1, <2>2
<1> QED BY <1>7, <1>8, <1>9 DEF PeriodsOpened

\* A call of an administrator that moves no money.
LEMMA MoneyUntouched ==
  ASSUME Money, entry' = entry,
         \A j \in PeriodKeys : /\ period'[j].reserved = period[j].reserved
                               /\ period'[j].spent = period[j].spent
                               /\ period[j].exists => period'[j].exists
  PROVE  PeriodsOpened' /\ ReservedConserved' /\ SpentConserved'
<1>1. \A j : OpenReserved(j)' = OpenReserved(j) /\ Costs(j)' = Costs(j)
  BY DEF OpenReserved, Costs, Open
<1>2. ReservedConserved' /\ SpentConserved'
  BY <1>1 DEF Money, ReservedConserved, SpentConserved
<1>3. \A r \in Requests : entry[r].period \in PeriodKeys
  BY RowTypes DEF Money
<1>4. PeriodsOpened'
  BY <1>3 DEF Money, PeriodsOpened
<1> QED BY <1>2, <1>4

LEMMA AlertedTotals ==
  ASSUME NEW p \in Period
  PROVE  /\ Alerted(p) \in Period
         /\ Alerted(p).spent = p.spent
         /\ Alerted(p).reserved = p.reserved
         /\ Alerted(p).exists = p.exists
<1>1. {"spent", "reserved", "exists"} \subseteq DOMAIN p
  BY DEF Period
<1> QED BY <1>1, AlertedType

\* Opening a period changes no total.
LEMMA OpeningKeepsTotals ==
  ASSUME Money, NEW k \in PeriodKeys, NEW g
  PROVE  /\ PeriodRow(k, g).spent = period[k].spent
         /\ PeriodRow(k, g).reserved = period[k].reserved
BY DEF Money, PeriodsOpened, PeriodRow

-------------------------------------------------------------------------------
(* One lemma per operation of the ledger.                                  *)

Kept == PeriodsOpened' /\ ReservedConserved' /\ SpentConserved'

LEMMA MoneyReserve ==
  ASSUME Money, NEW r \in Requests, NEW at \in 1 .. clock,
         NEW amount \in Nat, Reserve(r, at, amount)
  PROVE  Kept
<1> DEFINE k == CurrentKey(at)
           p == PeriodRow(k, group)
           q0 == [p EXCEPT !.reserved = @ + amount]
           q == Alerted(q0)
           e == [NewEntry EXCEPT !.status = "RESERVED", !.period = k,
                                 !.startedAt = at, !.reserved = amount,
                                 !.lease = clock + LeaseTicks]
<1>1. /\ amount \in Nat /\ k \in PeriodKeys
      /\ p \in Period /\ p.exists
  <2>1. at \in Instants /\ amount \in Nat
    BY LedgerAssumption DEF Money, LedgerTypeOK, Instants
  <2>2. k \in PeriodKeys
    BY <2>1, KeyType DEF CurrentKey, Money, LedgerTypeOK, Group
  <2> QED BY <2>1, <2>2, PeriodRowType DEF Money, LedgerTypeOK
<1>2. p.spent = period[k].spent /\ p.reserved = period[k].reserved
  BY <1>1, OpeningKeepsTotals
<1>3. /\ q \in Period /\ q.exists /\ q.spent = p.spent
      /\ q.reserved = p.reserved + amount
  <2> HIDE DEF p
  <2>1. q0 \in Period
    BY <1>1, PostingType
  <2>2. q0.exists /\ q0.spent = p.spent /\ q0.reserved = p.reserved + amount
    BY <1>1 DEF Period
  <2> HIDE DEF q0
  <2> QED BY <2>1, <2>2, AlertedTotals
<1>4. LedgerTypeOK'
  BY TypeReserve DEF Money
<1>5. /\ period' = [period EXCEPT ![k] = q]
      /\ entry' = [entry EXCEPT ![r] = e]
      /\ entry[r].status = "NONE"
  BY DEF Reserve
<1>6. e \in Entry
  <2> HIDE DEF e
  <2>1. entry'[r] = e
    BY <1>5 DEF Money, LedgerTypeOK
  <2> QED BY <1>4, <2>1 DEF LedgerTypeOK
<1>7. /\ e.period = k /\ e.status = "RESERVED"
      /\ e.reserved = amount /\ e.settled = 0
  <2> HIDE DEF k
  <2> QED BY DEF NewEntry
<1>8. /\ Held(entry[r], k) = 0 /\ Cost(entry[r], k) = 0
      /\ Held(e, k) = amount /\ Cost(e, k) = 0
  <2>1. entry[r].settled = 0
    BY <1>5 DEF Money, PeriodsOpened
  <2> HIDE DEF k, e
  <2> QED BY <1>5, <1>7, <2>1 DEF Held, Cost
<1>9. period[k].spent \in Int /\ period[k].reserved \in Int
  BY <1>1 DEF Money, LedgerTypeOK, Period
<1> HIDE DEF k, p, q, e, q0
<1>10. /\ q.reserved = period[k].reserved - Held(entry[r], k) + Held(e, k)
       /\ q.spent = period[k].spent - Cost(entry[r], k) + Cost(e, k)
  BY <1>1, <1>2, <1>3, <1>8, <1>9
<1> QED
  BY <1>1, <1>3, <1>5, <1>6, <1>7, <1>10, MoneyPosting DEF Kept

\* The call of an entry that exists: what remains is the arithmetic.
LEMMA MoneyOfEntry ==
  ASSUME Money, LedgerTypeOK', NEW r \in Requests, NEW e, NEW q0 \in Period,
         NEW q, q = q0 \/ q = Alerted(q0),
         entry[r].status # "NONE", e.status # "NONE",
         e.period = entry[r].period,
         entry' = [entry EXCEPT ![r] = e],
         period' = [period EXCEPT ![entry[r].period] = q],
         q0.exists = period[entry[r].period].exists,
         q0.reserved = period[entry[r].period].reserved
                         - Held(entry[r], e.period) + Held(e, e.period),
         q0.spent = period[entry[r].period].spent
                      - entry[r].settled + e.settled
  PROVE  Kept
<1>1. entry[r].period \in PeriodKeys
  BY RowTypes DEF Money
<1>2. e \in Entry
  <2>1. entry'[r] = e
    BY DEF Money, LedgerTypeOK
  <2> QED BY <2>1 DEF LedgerTypeOK
<1>3. q0.exists
  BY DEF Money, PeriodsOpened
<1>4. /\ q \in Period /\ q.exists
      /\ q.reserved = q0.reserved /\ q.spent = q0.spent
  BY <1>3, AlertedTotals
<1>5. Cost(entry[r], e.period) = entry[r].settled /\ Cost(e, e.period) = e.settled
  BY DEF Cost
<1> DEFINE k == entry[r].period
<1>6. /\ q.reserved = period[k].reserved - Held(entry[r], k) + Held(e, k)
      /\ q.spent = period[k].spent - Cost(entry[r], k) + Cost(e, k)
  <2>1. e.period = k
    OBVIOUS
  <2>2. q0.reserved = period[k].reserved - Held(entry[r], k) + Held(e, k)
    OBVIOUS
  <2>3. q0.spent = period[k].spent - Cost(entry[r], k) + Cost(e, k)
    BY <1>5, <2>1
  <2> QED BY <1>4, <2>2, <2>3
<1>7. k \in PeriodKeys /\ e.period = k /\ period' = [period EXCEPT ![k] = q]
  BY <1>1
<1> HIDE DEF k
<1>8. entry[r].status = "NONE" \/ entry[r].period = k
  BY DEF k
<1>9. PeriodsOpened' /\ ReservedConserved' /\ SpentConserved'
  BY <1>2, <1>4, <1>6, <1>7, <1>8, MoneyPosting, ZenonT(60)
<1> QED BY <1>9 DEF Kept

LEMMA MoneyExtend ==
  ASSUME Money, NEW r \in Requests, NEW attempt \in Attempts,
         NEW amount \in Nat, Extend(r, attempt, amount)
  PROVE  Kept
<1> DEFINE k == entry[r].period
           p == period[k]
           q0 == [p EXCEPT !.reserved = @ + amount]
           e == [entry[r] EXCEPT !.reserved = @ + amount,
                                 !.extensions = @ \cup {attempt}]
<1>1. /\ amount \in Nat /\ entry[r] \in Entry /\ k \in PeriodKeys
      /\ p \in Period
  BY LedgerAssumption, RowTypes DEF Money
<1>2. /\ q0 \in Period /\ q0.exists = p.exists /\ q0.spent = p.spent
      /\ q0.reserved = p.reserved + amount
  <2>1. q0 \in Period
    BY <1>1, PostingType
  <2> HIDE DEF p
  <2>2. q0.exists = p.exists /\ q0.spent = p.spent
    BY <1>1 DEF Period
  <2>3. q0.reserved = p.reserved + amount
    BY <1>1 DEF Period
  <2> QED BY <2>1, <2>2, <2>3
<1>3. /\ e.status = entry[r].status /\ e.period = k
      /\ e.settled = entry[r].settled
      /\ e.reserved = entry[r].reserved + amount
  BY <1>1 DEF Entry
<1>4. /\ period' = [period EXCEPT ![k] = Alerted(q0)]
      /\ entry' = [entry EXCEPT ![r] = e]
      /\ Open(r)
  BY DEF Extend
<1>5. Held(entry[r], k) = entry[r].reserved /\ Held(e, k) = e.reserved
  BY <1>3, <1>4 DEF Open, Held
<1>6. entry[r].status # "NONE"
  BY <1>4 DEF Open
<1>7. /\ q0.reserved = p.reserved - Held(entry[r], k) + Held(e, k)
      /\ q0.spent = p.spent - entry[r].settled + e.settled
  <2>1. /\ entry[r].reserved \in Nat /\ entry[r].settled \in Nat
        /\ p.reserved \in Int /\ p.spent \in Int
    BY <1>1 DEF Entry, Period
  <2> HIDE DEF k, p, q0, e
  <2> QED BY <1>1, <1>2, <1>3, <1>5, <2>1
<1>8. LedgerTypeOK'
  BY TypeExtend DEF Money
<1> HIDE DEF q0, e
<1> QED BY <1>2, <1>3, <1>4, <1>6, <1>7, <1>8, MoneyOfEntry

LEMMA MoneySettle ==
  ASSUME Money, NEW r \in Requests, NEW amount \in Nat,
         Settle(r, amount)
  PROVE  Kept
<1> DEFINE k == entry[r].period
           p == period[k]
           q0 == SettledPeriod(p, entry[r], amount)
           e == [entry[r] EXCEPT !.status = "SETTLED", !.settled = amount,
                                 !.lease = NoLease]
<1>1. /\ amount \in Nat /\ entry[r] \in Entry /\ k \in PeriodKeys
      /\ p \in Period
      /\ entry[r].reserved \in Nat /\ entry[r].settled \in Nat
  BY LedgerAssumption, RowTypes DEF Money, Entry
<1>2. /\ q0 \in Period /\ q0.exists = p.exists
      /\ q0.spent = p.spent + amount - entry[r].settled
      /\ q0.reserved = p.reserved - entry[r].reserved
  <2> DEFINE x == p.spent + amount - entry[r].settled
             y == p.reserved - entry[r].reserved
  <2>1. x \in Int /\ y \in Int
    BY <1>1 DEF Period
  <2>2. q0 = [p EXCEPT !.spent = x, !.reserved = y]
    BY DEF SettledPeriod
  <2> HIDE DEF p, x, y, q0
  <2>3. q0 \in Period /\ q0.exists = p.exists /\ q0.spent = x /\ q0.reserved = y
    BY <1>1, <2>1, <2>2, TotalsType DEF Period
  <2> QED BY <2>3 DEF x, y
<1>3. e.status = "SETTLED" /\ e.period = k /\ e.settled = amount
  BY <1>1 DEF Entry
<1>4. /\ period' = [period EXCEPT ![k] = Alerted(q0)]
      /\ entry' = [entry EXCEPT ![r] = e]
      /\ Open(r)
  BY DEF Settle
<1>5. Held(entry[r], k) = entry[r].reserved /\ Held(e, k) = 0
  BY <1>3, <1>4 DEF Open, Held
<1>6. entry[r].status # "NONE"
  BY <1>4 DEF Open
<1>7. /\ q0.reserved = p.reserved - Held(entry[r], k) + Held(e, k)
      /\ q0.spent = p.spent - entry[r].settled + e.settled
  <2>1. p.reserved \in Int /\ p.spent \in Int
    BY <1>1 DEF Period
  <2> HIDE DEF k, p, q0, e
  <2> QED BY <1>1, <1>2, <1>3, <1>5, <2>1
<1>8. LedgerTypeOK'
  BY TypeSettle DEF Money
<1> HIDE DEF q0, e
<1> QED BY <1>2, <1>3, <1>4, <1>6, <1>7, <1>8, MoneyOfEntry

LEMMA MoneyHold ==
  ASSUME Money, NEW r \in Requests, NEW actual \in Nat,
         NEW unresolved \in Nat, Hold(r, actual, unresolved)
  PROVE  Kept
<1> DEFINE k == entry[r].period
           p == period[k]
           q0 == [p EXCEPT !.spent = @ + actual,
                           !.reserved = @ + unresolved - entry[r].reserved]
           e == [entry[r] EXCEPT !.status = "RECONCILIATION_REQUIRED",
                                 !.settled = actual, !.reserved = unresolved,
                                 !.lease = NoLease, !.held = TRUE]
<1>1. /\ actual \in Nat /\ unresolved \in Nat /\ entry[r] \in Entry
      /\ k \in PeriodKeys /\ p \in Period
      /\ entry[r].reserved \in Nat /\ entry[r].settled \in Nat
  BY LedgerAssumption, RowTypes DEF Money, Entry
<1>2. /\ q0 \in Period /\ q0.exists = p.exists
      /\ q0.spent = p.spent + actual
      /\ q0.reserved = p.reserved + unresolved - entry[r].reserved
  <2> DEFINE x == p.spent + actual
             y == p.reserved + unresolved - entry[r].reserved
  <2>1. x \in Int /\ y \in Int
    BY <1>1 DEF Period
  <2>2. q0 = [p EXCEPT !.spent = x, !.reserved = y]
    OBVIOUS
  <2> HIDE DEF p, x, y, q0
  <2>3. q0 \in Period /\ q0.exists = p.exists /\ q0.spent = x /\ q0.reserved = y
    BY <1>1, <2>1, <2>2, TotalsType DEF Period
  <2> QED BY <2>3 DEF x, y
<1>3. /\ e.status = "RECONCILIATION_REQUIRED" /\ e.period = k
      /\ e.settled = actual /\ e.reserved = unresolved
  BY <1>1 DEF Entry
<1>4. /\ period' = [period EXCEPT ![k] = Alerted(q0)]
      /\ entry' = [entry EXCEPT ![r] = e]
      /\ Open(r) /\ ~log[r].written
  BY DEF Hold
<1>5. Held(entry[r], k) = entry[r].reserved /\ Held(e, k) = unresolved
  BY <1>3, <1>4 DEF Open, Held
<1>6. entry[r].status # "NONE" /\ entry[r].settled = 0
  <2>1. entry[r].settled > 0 => log[r].written
    BY DEF Money, LogMatchesLedger
  <2>2. entry[r].settled = 0
    BY <1>1, <1>4, <2>1
  <2> QED BY <1>4, <2>2 DEF Open
<1>7. /\ q0.reserved = p.reserved - Held(entry[r], k) + Held(e, k)
      /\ q0.spent = p.spent - entry[r].settled + e.settled
  <2>1. p.reserved \in Int /\ p.spent \in Int
    BY <1>1 DEF Period
  <2> HIDE DEF k, p, q0, e
  <2> QED BY <1>1, <1>2, <1>3, <1>5, <1>6, <2>1
<1>8. LedgerTypeOK'
  BY TypeHold DEF Money
<1> HIDE DEF q0, e
<1> QED BY <1>2, <1>3, <1>4, <1>6, <1>7, <1>8, MoneyOfEntry

LEMMA MoneyReleaseEntry ==
  ASSUME Money, NEW r \in Requests, Open(r), ReleaseEntry(r)
  PROVE  Kept
<1> DEFINE k == entry[r].period
           p == period[k]
           q0 == [p EXCEPT !.reserved = @ - entry[r].reserved]
           e == [entry[r] EXCEPT !.status = "RELEASED", !.lease = NoLease]
<1>1. /\ entry[r] \in Entry /\ k \in PeriodKeys /\ p \in Period
      /\ entry[r].reserved \in Nat /\ entry[r].settled \in Nat
  BY RowTypes DEF Money, Entry
<1>2. /\ q0 \in Period /\ q0.exists = p.exists /\ q0.spent = p.spent
      /\ q0.reserved = p.reserved - entry[r].reserved
  <2> HIDE DEF p
  <2>1. q0 \in Period
    BY <1>1, PostingType
  <2>2. q0.exists = p.exists /\ q0.spent = p.spent
    BY <1>1 DEF Period
  <2>3. q0.reserved = p.reserved - entry[r].reserved
    BY <1>1 DEF Period
  <2> QED BY <2>1, <2>2, <2>3
<1>3. /\ e.status = "RELEASED" /\ e.period = k
      /\ e.settled = entry[r].settled
  BY <1>1 DEF Entry
<1>4. /\ period' = [period EXCEPT ![k] = q0]
      /\ entry' = [entry EXCEPT ![r] = e]
  BY DEF ReleaseEntry
<1>5. Held(entry[r], k) = entry[r].reserved /\ Held(e, k) = 0
  BY <1>3 DEF Open, Held
<1>6. entry[r].status # "NONE"
  BY DEF Open
<1>7. /\ q0.reserved = p.reserved - Held(entry[r], k) + Held(e, k)
      /\ q0.spent = p.spent - entry[r].settled + e.settled
  <2>1. p.reserved \in Int /\ p.spent \in Int
    BY <1>1 DEF Period
  <2> HIDE DEF k, p, q0, e
  <2> QED BY <1>1, <1>2, <1>3, <1>5, <2>1
<1>8. LedgerTypeOK'
  BY TypeReleaseEntry DEF Money
<1> HIDE DEF q0, e
<1> QED BY <1>2, <1>3, <1>4, <1>6, <1>7, <1>8, MoneyOfEntry

\* An entry that only changes between the two open statuses moves no money.
LEMMA MoneyStaysOpen ==
  ASSUME Money, LedgerTypeOK', NEW r \in Requests, Open(r), NEW e,
         entry' = [entry EXCEPT ![r] = e],
         e.status \in {"RESERVED", "RECONCILIATION_REQUIRED"},
         e.period = entry[r].period, e.reserved = entry[r].reserved,
         e.settled = entry[r].settled, UNCHANGED period
  PROVE  Kept
<1> DEFINE k == entry[r].period
           p == period[k]
<1>1. /\ k \in PeriodKeys /\ p \in Period
      /\ entry[r].reserved \in Nat /\ entry[r].settled \in Nat
      /\ p.reserved \in Int /\ p.spent \in Int
  BY RowTypes DEF Money, Entry, Period
<1>2. period' = [period EXCEPT ![k] = p]
  BY DEF Money, LedgerTypeOK
<1>3. Held(entry[r], k) = entry[r].reserved /\ Held(e, k) = entry[r].reserved
  BY DEF Open, Held
<1>4. /\ p.reserved = p.reserved - Held(entry[r], k) + Held(e, k)
      /\ p.spent = p.spent - entry[r].settled + e.settled
  <2> HIDE DEF k, p
  <2> QED BY <1>1, <1>3
<1>5. entry[r].status # "NONE" /\ e.status # "NONE"
  BY DEF Open
<1> SUFFICES ASSUME NEW q0 \in Period, q0 = p
             PROVE  Kept
  BY <1>1
<1>6. /\ q0 = q0 \/ q0 = Alerted(q0)
      /\ period' = [period EXCEPT ![k] = q0]
      /\ q0.exists = period[k].exists
      /\ q0.reserved = period[k].reserved - Held(entry[r], e.period)
                         + Held(e, e.period)
      /\ q0.spent = period[k].spent - entry[r].settled + e.settled
  BY <1>2, <1>4
<1> HIDE DEF p
<1> QED BY <1>5, <1>6, MoneyOfEntry

LEMMA MoneyMarkDispatched ==
  ASSUME Money, NEW r \in Requests, NEW until \in Nat,
         MarkDispatched(r, until)
  PROVE  Kept
<1> DEFINE e == [entry[r] EXCEPT !.dispatched = TRUE, !.lease = until]
<1>1. /\ entry' = [entry EXCEPT ![r] = e] /\ UNCHANGED period
      /\ entry[r].status = "RESERVED"
  BY DEF MarkDispatched
<1>2. /\ e.status = entry[r].status /\ e.period = entry[r].period
      /\ e.reserved = entry[r].reserved /\ e.settled = entry[r].settled
  BY RowTypes DEF Money, Entry
<1>3. LedgerTypeOK'
  BY TypeMarkDispatched DEF Money
<1> HIDE DEF e
<1> QED BY <1>1, <1>2, <1>3, MoneyStaysOpen DEF Open

LEMMA MoneyUncertain ==
  ASSUME Money, NEW r \in Requests, Open(r), Uncertain(r)
  PROVE  Kept
<1> DEFINE e == [entry[r] EXCEPT !.status = "RECONCILIATION_REQUIRED",
                                 !.lease = NoLease]
<1>1. entry' = [entry EXCEPT ![r] = e] /\ UNCHANGED period
  BY DEF Uncertain
<1>2. /\ e.status = "RECONCILIATION_REQUIRED" /\ e.period = entry[r].period
      /\ e.reserved = entry[r].reserved /\ e.settled = entry[r].settled
  BY RowTypes DEF Money, Entry
<1>3. LedgerTypeOK'
  BY TypeUncertain DEF Money
<1> HIDE DEF e
<1> QED BY <1>1, <1>2, <1>3, MoneyStaysOpen

LEMMA MoneyReconcile ==
  ASSUME Money, NEW r \in Requests, NEW o \in Operations,
         NEW action, NEW amount \in Nat, Reconcile(r, o, action, amount)
  PROVE  Kept
<1> DEFINE k == entry[r].period
           p == period[k]
           q0 == ReconciledPeriod(p, entry[r], amount)
           e == [entry[r] EXCEPT
                   !.status = IF action = "RELEASE" THEN "RELEASED"
                              ELSE "SETTLED",
                   !.settled = amount, !.lease = NoLease, !.manualFinal = TRUE]
           given == IF entry[r].status = "RECONCILIATION_REQUIRED"
                    THEN entry[r].reserved ELSE 0
<1>1. /\ amount \in Nat /\ entry[r] \in Entry /\ k \in PeriodKeys
      /\ p \in Period /\ p.reserved \in Int /\ p.spent \in Int
      /\ entry[r].reserved \in Nat /\ entry[r].settled \in Nat
  BY LedgerAssumption, RowTypes DEF Money, Entry, Period
<1>2. /\ q0 \in Period /\ q0.exists = p.exists
      /\ q0.spent = p.spent + amount - entry[r].settled
      /\ q0.reserved = p.reserved - given
  <2> DEFINE x == p.spent + amount - entry[r].settled
             y == IF entry[r].status = "RECONCILIATION_REQUIRED"
                  THEN p.reserved - entry[r].reserved ELSE p.reserved
  <2> HIDE DEF p
  <2>1. x \in Int /\ y \in Int /\ y = p.reserved - given
    BY <1>1
  <2>2. q0 = [p EXCEPT !.spent = x, !.reserved = y]
    BY DEF ReconciledPeriod
  <2> HIDE DEF x, y, q0, given
  <2>3. q0 \in Period /\ q0.exists = p.exists /\ q0.spent = x /\ q0.reserved = y
    BY <1>1, <2>1, <2>2, TotalsType DEF Period
  <2> QED BY <2>1, <2>3 DEF x
<1>3. /\ e.status \in {"SETTLED", "RELEASED"} /\ e.period = k
      /\ e.settled = amount
  BY <1>1 DEF Entry
<1>4. /\ period' = [period EXCEPT ![k] = Alerted(q0)]
      /\ entry' = [entry EXCEPT ![r] = e]
      /\ entry[r].status \in {"SETTLED", "RECONCILIATION_REQUIRED"}
  BY DEF Reconcile
<1>5. Held(entry[r], k) = given /\ Held(e, k) = 0
  BY <1>3, <1>4 DEF Held
<1>6. entry[r].status # "NONE" /\ e.status # "NONE"
  BY <1>3, <1>4
<1>7. /\ q0.reserved = p.reserved - Held(entry[r], k) + Held(e, k)
      /\ q0.spent = p.spent - entry[r].settled + e.settled
  <2>1. given \in Nat
    BY <1>1
  <2> HIDE DEF k, p, q0, e, given
  <2> QED BY <1>1, <1>2, <1>3, <1>5, <2>1
<1>8. LedgerTypeOK'
  BY TypeReconcile DEF Money
<1> HIDE DEF q0, e
<1> QED BY <1>2, <1>3, <1>4, <1>6, <1>7, <1>8, MoneyOfEntry

\* The administrators' other operations open periods and change limits.
LEMMA MoneyAdmin ==
  ASSUME Money, AdminNext, UNCHANGED <<entry, outbox, log>>
  PROVE  Kept
<1> DEFINE Still == \A j \in PeriodKeys :
                      /\ period'[j].reserved = period[j].reserved
                      /\ period'[j].spent = period[j].spent
                      /\ period[j].exists => period'[j].exists
<1>1. ASSUME NEW k \in PeriodKeys, NEW q, period' = [period EXCEPT ![k] = q],
             q.exists, q.spent = period[k].spent,
             q.reserved = period[k].reserved
      PROVE  Still
  BY <1>1 DEF Money, LedgerTypeOK
<1>2. ASSUME NEW k \in PeriodKeys, NEW g \in Group
      PROVE  /\ PeriodRow(k, g) \in Period /\ PeriodRow(k, g).exists
             /\ PeriodRow(k, g).spent = period[k].spent
             /\ PeriodRow(k, g).reserved = period[k].reserved
  BY <1>2, PeriodRowType, OpeningKeepsTotals DEF Money, LedgerTypeOK
<1>3. group \in Group /\ CurrentKey(clock) \in PeriodKeys
  BY CurrentKeyType DEF Money, LedgerTypeOK
<1>4. ASSUME NEW o, NEW limit, NEW unlimited, AdjustDefault(o, limit, unlimited)
      PROVE  Still
  <2> DEFINE k == CurrentKey(clock)
             q == PeriodRow(k, group)
  <2>1. /\ k \in PeriodKeys /\ q.exists /\ q.spent = period[k].spent
        /\ q.reserved = period[k].reserved
    BY <1>2, <1>3
  <2>2. period' = [period EXCEPT ![k] = q]
    BY <1>4 DEF AdjustDefault
  <2> HIDE DEF k, q, Still
  <2> QED BY <1>1, <2>1, <2>2
<1>5. ASSUME NEW o, NEW k \in PeriodKeys, NEW limit \in Limits,
             NEW unlimited \in BOOLEAN, SetLimit(o, k, limit, unlimited)
      PROVE  Still
  <2> DEFINE p == PeriodRow(k, group)
             q0 == [p EXCEPT !.limit = limit, !.unlimited = unlimited]
             q == Alerted(q0)
  <2>1. /\ p \in Period /\ p.exists /\ p.spent = period[k].spent
        /\ p.reserved = period[k].reserved
    BY <1>2, <1>3
  <2>2. limit \in Nat
    BY LedgerAssumption
  <2>3. period' = [period EXCEPT ![k] = q]
    BY <1>5 DEF SetLimit
  <2> HIDE DEF p
  <2>4. /\ q0 \in Period /\ q0.exists = p.exists /\ q0.spent = p.spent
        /\ q0.reserved = p.reserved
    BY <2>1, <2>2 DEF Period
  <2> HIDE DEF q0
  <2>5. q.exists /\ q.spent = period[k].spent /\ q.reserved = period[k].reserved
    BY <2>1, <2>4, AlertedTotals
  <2> HIDE DEF q, Still
  <2> QED BY <1>1, <2>3, <2>5
<1>6. ASSUME NEW o, NEW mode \in {"TOTAL", "MONTHLY"}, NEW tz \in Timezones,
             Configure(o, mode, tz)
      PROVE  Still
  <2> DEFINE now     == CurrentKey(clock)
             target  == PeriodKey(mode, tz, clock)
             changed == [group EXCEPT !.mode = mode, !.timezone = tz]
             first   == PeriodRow(now, group)
             opened  == [period EXCEPT ![now] = first]
             row     == IF opened[target].exists THEN opened[target]
                        ELSE PeriodRow(target, changed)
             q       == [row EXCEPT !.timezone = tz]
  <2>1. period' = [opened EXCEPT ![target] = q]
    BY <1>6 DEF Configure
  <2>2. /\ now \in PeriodKeys /\ target \in PeriodKeys
        /\ first \in Period /\ first.exists
        /\ first.spent = period[now].spent
        /\ first.reserved = period[now].reserved
    BY <1>2, <1>3, KeyType DEF Money, LedgerTypeOK
  <2>3. /\ PeriodRow(target, changed) \in Period
        /\ PeriodRow(target, changed).exists
        /\ PeriodRow(target, changed).spent = period[target].spent
        /\ PeriodRow(target, changed).reserved = period[target].reserved
    <3>1. changed \in Group
      BY <1>3 DEF Group
    <3> HIDE DEF target, changed
    <3> QED BY <1>2, <2>2, <3>1
  <2>4. period \in [PeriodKeys -> Period]
    BY DEF Money, LedgerTypeOK
  <2> HIDE DEF now, target, changed, first
  <2>5. opened \in [PeriodKeys -> Period]
    BY <2>2, <2>4
  <2>6. ASSUME NEW j \in PeriodKeys
        PROVE  /\ opened[j].spent = period[j].spent
               /\ opened[j].reserved = period[j].reserved
               /\ period[j].exists => opened[j].exists
    <3>1. CASE j = now
      <4>1. opened[j] = first
        BY <2>2, <2>4, <3>1
      <4> HIDE DEF opened
      <4> QED BY <2>2, <3>1, <4>1
    <3>2. CASE j # now
      <4>1. opened[j] = period[j]
        BY <2>4, <3>2
      <4> HIDE DEF opened
      <4> QED BY <4>1
    <3> QED BY <3>1, <3>2
  <2> HIDE DEF opened
  <2>7. /\ row \in Period /\ row.exists
        /\ row.spent = period[target].spent
        /\ row.reserved = period[target].reserved
    <3>1. CASE opened[target].exists
      <4>1. row = opened[target] /\ opened[target] \in Period
        BY <2>2, <2>5, <3>1
      <4>2. /\ opened[target].spent = period[target].spent
            /\ opened[target].reserved = period[target].reserved
        BY <2>2, <2>6
      <4> HIDE DEF row
      <4> QED BY <3>1, <4>1, <4>2
    <3>2. CASE ~opened[target].exists
      <4>1. row = PeriodRow(target, changed)
        BY <3>2
      <4> HIDE DEF row
      <4> QED BY <2>3, <4>1
    <3> QED BY <3>1, <3>2
  <2> HIDE DEF row
  <2>8. /\ q.exists /\ q.spent = period[target].spent
        /\ q.reserved = period[target].reserved
    BY <2>7 DEF Period
  <2> HIDE DEF q
  <2> SUFFICES ASSUME NEW j \in PeriodKeys
               PROVE  /\ period'[j].reserved = period[j].reserved
                      /\ period'[j].spent = period[j].spent
                      /\ period[j].exists => period'[j].exists
    OBVIOUS
  <2>9. CASE j = target
    <3>1. period'[j] = q
      BY <2>1, <2>5, <2>9
    <3> QED BY <2>8, <2>9, <3>1
  <2>10. CASE j # target
    <3>1. period'[j] = opened[j]
      BY <2>1, <2>5, <2>10
    <3>2. /\ opened[j].spent = period[j].spent
          /\ opened[j].reserved = period[j].reserved
          /\ period[j].exists => opened[j].exists
      BY <2>6
    <3> QED BY <3>1, <3>2
  <2> QED BY <2>9, <2>10
<1>7. ASSUME UNCHANGED period
      PROVE  Still
  BY <1>7
<1>8. Still
  <2>1. \A o, r, action, amount : r \in Requests /\ Reconcile(r, o, action, amount)
          => Still
    <3> SUFFICES ASSUME NEW o, NEW r \in Requests, NEW action, NEW amount,
                        Reconcile(r, o, action, amount)
                 PROVE  FALSE
      OBVIOUS
    <3> DEFINE b == [outbox[r] EXCEPT
                       !.actual = IF @ = NoActual THEN amount ELSE @,
                       !.version = @ + 1, !.corrected = amount,
                       !.synced = FALSE]
    <3>1. outbox[r].version \in Nat /\ b.version = outbox[r].version + 1
      BY RowTypes DEF Money, Outbox
    <3>2. outbox' = [outbox EXCEPT ![r] = b]
      BY DEF Reconcile
    <3> HIDE DEF b
    <3>3. outbox'[r] = b
      BY <3>2 DEF Money, LedgerTypeOK
    <3> QED BY <3>1, <3>3
  <2>2. \A a : \/ CheckApplication(a) \/ SubmitApplication(a)
              \/ RejectApplication(a) \/ Archive
              => UNCHANGED period
    BY DEF CheckApplication, SubmitApplication, RejectApplication, Mark, Archive
  <2> HIDE DEF Still
  <2> QED BY <1>4, <1>5, <1>6, <1>7, <2>1, <2>2
          DEF AdminNext, AdjustCurrent, ApproveApplication
<1> QED BY <1>8, MoneyUntouched DEF Kept

LEMMA MoneyMoves ==
  ASSUME Money, Rows, NEW r \in Requests, RequestMoves(r)
  PROVE  Kept
<1>1. CASE \E at \in 1 .. clock, amount \in Nat : Reserve(r, at, amount)
  BY <1>1, MoneyReserve
<1>2. CASE \E attempt \in Attempts, amount \in Nat :
             Extend(r, attempt, amount)
  BY <1>2, MoneyExtend
<1>3. CASE \E amount \in Nat : Settle(r, amount)
  BY <1>3, MoneySettle
<1>4. CASE \E actual, unresolved \in Nat : Hold(r, actual, unresolved)
  BY <1>4, MoneyHold
<1>5. CASE Release(r)
  BY <1>5, MoneyReleaseEntry DEF Release, Open
<1>6. CASE MarkDispatched(r, clock + LeaseTicks)
  <2>1. clock + LeaseTicks \in Nat
    BY LedgerAssumption DEF Money, LedgerTypeOK, Instants
  <2> QED BY <1>6, <2>1, MoneyMarkDispatched
<1>7. CASE MarkUncertain(r)
  BY <1>7, MoneyUncertain DEF MarkUncertain
<1>8. CASE \E now \in Nat : RecoverExpired(r, now)
  BY <1>8, MoneyUncertain, MoneyReleaseEntry DEF RecoverExpired, Open
<1>9. CASE \E version \in Nat : ConfirmSync(r, version)
  BY <1>9, MoneyUntouched DEF ConfirmSync, Kept
<1>10. CASE \E o \in Operations, action \in {"SETTLE", "RELEASE"},
              amount \in Nat : Reconcile(r, o, action, amount)
  BY <1>10, MoneyReconcile
<1> QED
  BY <1>1, <1>2, <1>3, <1>4, <1>5, <1>6, <1>7, <1>8, <1>9, <1>10
     DEF RequestMoves

LEMMA RowsMatchLogs ==
  ASSUME Rows
  PROVE  LogMatchesLedger
BY DEF Rows, Row, LogMatchesLedger

LEMMA MoneyStep ==
  ASSUME Money, Rows, [LedgerNext]_ledgerVars
  PROVE  (Money /\ Rows)'
<1>1. LedgerTypeOK' /\ Rows'
  BY TypeStep, RowsStep DEF Money
<1>2. LogMatchesLedger'
  <2>1. Rows' => LogMatchesLedger'
    BY DEF Rows, Row, LogMatchesLedger
  <2> QED BY <1>1, <2>1
<1>3. Kept
  <2>1. CASE RequestNext
    BY <2>1, RequestNextMoves, MoneyMoves DEF Money
  <2>2. CASE AdminNext
    BY <2>2, AdminSparesRequests, MoneyReconcile, MoneyAdmin,
       LedgerAssumption
  <2>3. CASE Tick
    BY <2>3, MoneyUntouched DEF Tick, Kept
  <2>4. CASE UNCHANGED ledgerVars
    BY <2>4, MoneyUntouched DEF ledgerVars, Kept
  <2> QED BY <2>1, <2>2, <2>3, <2>4 DEF LedgerNext
<1> QED BY <1>1, <1>2, <1>3 DEF Money, Kept

LEMMA MoneyInit ==
  ASSUME LedgerInit
  PROVE  Money /\ Rows
<1>1. LedgerTypeOK /\ Rows /\ LogMatchesLedger
  BY TypeInit, RowsInit, RowsMatchLogs
<1>2. \A r \in Requests : entry[r] = NewEntry
  BY DEF LedgerInit
<1>3. \A j \in PeriodKeys : period[j].spent = 0 /\ period[j].reserved = 0
  BY DEF LedgerInit, InitialPeriod
<1>4. PeriodsOpened
  BY <1>2, <1>3 DEF PeriodsOpened, NewEntry
<1>5. \A j : Total(OpenReserved(j), Requests) = 0 /\ Total(Costs(j), Requests) = 0
  <2> TAKE j
  <2>1. /\ OpenReserved(j) \in [Requests -> Nat] /\ Costs(j) \in [Requests -> Nat]
    BY <1>1, Summands
  <2>2. \A r \in Requests : OpenReserved(j)[r] = 0 /\ Costs(j)[r] = 0
    BY <1>2 DEF OpenReserved, Costs, Open, NewEntry
  <2> QED BY <2>1, <2>2, TotalZero
<1> QED
  BY <1>1, <1>3, <1>4, <1>5 DEF Money, ReservedConserved, SpentConserved

LEMMA MoneyAlways == LedgerSpec => [](Money /\ Rows)
<1>1. LedgerInit => Money /\ Rows
  BY MoneyInit
<1>2. Money /\ Rows /\ [LedgerNext]_ledgerVars => (Money /\ Rows)'
  BY MoneyStep
<1> QED BY <1>1, <1>2, PTL DEF LedgerSpec

\* Every period's reserved total is exactly what its open requests hold, and
\* money is only posted to periods that have been opened.
THEOREM ReservationsConserved == LedgerSpec => [](ReservedConserved /\ PeriodsOpened)
<1>1. Money /\ Rows => ReservedConserved /\ PeriodsOpened
  BY DEF Money
<1> QED BY <1>1, MoneyAlways, PTL

\* Every period's spent total is exactly what its requests have cost.
THEOREM SpendingConserved == LedgerSpec => []SpentConserved
<1>1. Money /\ Rows => SpentConserved
  BY DEF Money
<1> QED BY <1>1, MoneyAlways, PTL

-------------------------------------------------------------------------------
(* What the ledger shows.                                                  *)

\* The risks of a budget row whose totals are not negative.
LEMMA RiskOfRow ==
  ASSUME NEW row, row.limit \in Nat, row.unlimited \in BOOLEAN,
         row.spent \in Nat, row.reserved \in Nat,
         NEW b, b.limit = row.limit, b.unlimited = row.unlimited,
         b.spent = row.spent, b.reserved = row.reserved
  PROVE  /\ Exhausted(b) <=> \A amount \in Nat \ {0} : ~HasFunds(row, amount)
         /\ Exhausted(b) <=> Threshold(row) = 100
         /\ NearLimit(b) <=> Threshold(row) = 80
<1>1. Exhausted(b) <=> Threshold(row) = 100
  BY DEF Exhausted, Occupation, Threshold
<1>2. NearLimit(b) <=> Threshold(row) = 80
  BY DEF NearLimit, Occupation, Threshold
<1>3. Exhausted(b) => \A amount \in Nat \ {0} : ~HasFunds(row, amount)
  BY DEF Exhausted, Occupation, HasFunds
<1>4. ~Exhausted(b) => HasFunds(row, 1)
  BY DEF Exhausted, Occupation, HasFunds
<1> QED BY <1>1, <1>2, <1>3, <1>4

\* The totals of every period are natural numbers.
LEMMA TotalsNatural ==
  ASSUME Money, NEW j \in PeriodKeys
  PROVE  period[j].spent \in Nat /\ period[j].reserved \in Nat
<1>1. OpenReserved(j) \in [Requests -> Nat] /\ Costs(j) \in [Requests -> Nat]
  BY Summands DEF Money
<1>2. IsFiniteSet(Requests)
  BY LedgerAssumption
<1>3. Total(OpenReserved(j), Requests) \in Nat /\ Total(Costs(j), Requests) \in Nat
  BY <1>1, <1>2, TotalType
<1> QED BY <1>3 DEF Money, ReservedConserved, SpentConserved

\* What is uncertain in a period is a part of what it has reserved.
LEMMA UncertainPart ==
  ASSUME Money, NEW j \in PeriodKeys
  PROVE  /\ Total(UncertainReserved(j), Requests) \in Nat
         /\ Total(UncertainReserved(j), Requests) <= period[j].reserved
<1>1. IsFiniteSet(Requests)
  BY LedgerAssumption
<1>2. \A r \in Requests : entry[r].reserved \in Nat
  BY DEF Money, LedgerTypeOK, Entry
<1>3. UncertainReserved(j) \in [Requests -> Nat]
  BY <1>2 DEF UncertainReserved
<1>4. OpenReserved(j) \in [Requests -> Nat]
  BY Summands DEF Money
<1>5. \A r \in Requests : UncertainReserved(j)[r] <= OpenReserved(j)[r]
  BY <1>2 DEF UncertainReserved, OpenReserved, Open
<1>6. Total(UncertainReserved(j), Requests) <= Total(OpenReserved(j), Requests)
  BY <1>1, <1>3, <1>4, <1>5, TotalMonotone
<1> QED BY <1>1, <1>3, <1>6, TotalType DEF Money, ReservedConserved

LEMMA MoneyShowsRisks ==
  ASSUME Money
  PROVE  RisksMatchLedger
<1> DEFINE k == CurrentKey(clock)
           row == PeriodRow(k, group)
           b == GroupBudget(clock)
<1>1. k \in PeriodKeys
  BY LedgerAssumption DEF Money, LedgerTypeOK, Group, Instants, CurrentKey, PeriodKey, PeriodKeys
<1>2. period[k] \in Period /\ group \in Group
  BY <1>1 DEF Money, LedgerTypeOK
<1>3. period[k].spent \in Nat /\ period[k].reserved \in Nat
  BY <1>1, TotalsNatural
<1>4. /\ row.limit \in Nat /\ row.unlimited \in BOOLEAN
      /\ row.spent \in Nat /\ row.reserved \in Nat
  BY <1>2, <1>3 DEF PeriodRow, Period, Group
<1>5. /\ b.limit = row.limit /\ b.unlimited = row.unlimited
      /\ b.spent = row.spent /\ b.reserved = row.reserved
      /\ b.uncertain = IF period[k].exists THEN Total(UncertainReserved(k), Requests) ELSE 0
  BY DEF GroupBudget
<1>6. period[k].exists => row.reserved = period[k].reserved
  BY DEF PeriodRow
<1>7. 0 <= b.uncertain /\ b.uncertain <= b.reserved
  <2> HIDE DEF b, row, k
  <2>1. Total(UncertainReserved(k), Requests) \in Nat
        /\ Total(UncertainReserved(k), Requests) <= period[k].reserved
    BY <1>1, UncertainPart
  <2> QED BY <2>1, <1>3, <1>4, <1>5, <1>6
<1>8. /\ Exhausted(b) <=> \A amount \in Nat \ {0} : ~HasFunds(row, amount)
      /\ Exhausted(b) <=> Threshold(row) = 100
      /\ NearLimit(b) <=> Threshold(row) = 80
  <2> HIDE DEF b, row, k
  <2> QED BY <1>4, <1>5, RiskOfRow
<1> QED BY <1>7, <1>8 DEF RisksMatchLedger

\* The page of groups at risk, computed in SQL, agrees with the admission and
\* the alerts of the ledger in every state.
THEOREM RisksShown == LedgerSpec => []RisksMatchLedger
<1>1. Money /\ Rows => RisksMatchLedger
  BY MoneyShowsRisks
<1> QED BY <1>1, MoneyAlways, PTL

\* The costs in the usage logs of a period's requests, while all are retained,
\* add up to its spending.
THEOREM UsageAddsUp == LedgerSpec => []UsageMatchesSpending
<1>1. ASSUME Money PROVE UsageMatchesSpending
  <2> SUFFICES ASSUME NEW k \in PeriodKeys
               PROVE  period[k].spent =
                        Total([r \in Requests |->
                                 IF entry[r].period = k THEN log[r].cost ELSE 0], Requests)
    BY DEF UsageMatchesSpending
  <2>1. \A r \in Requests : log[r].cost = entry[r].settled
    BY <1>1 DEF Money, LogMatchesLedger
  <2>2. [r \in Requests |-> IF entry[r].period = k THEN log[r].cost ELSE 0] = Costs(k)
    BY <2>1 DEF Costs
  <2> QED BY <1>1, <2>2 DEF Money, SpentConserved
<1> QED BY <1>1, MoneyAlways, PTL

-------------------------------------------------------------------------------
(* Alerts and limits: what a step may do to the row of a period.           *)

CoveredRow(p) == p.spent + p.reserved > 0 => p.alerted >= Threshold(p)

\* A supplier has charged, or may have charged, a request of period k.
Charged(k) ==
  \E r \in Requests :
    /\ entry[r].period = k
    /\ \/ entry'[r].settled > entry[r].settled
       \/ entry'[r].held /\ ~entry[r].held

\* The row stays covered by an alert, and only a charge overdraws it.
Guarded(k) ==
  /\ CoveredRow(period[k]) => CoveredRow(period'[k])
  /\ Overdrawn(period'[k]) => Overdrawn(period[k]) \/ Charged(k)

LEMMA GuardedRow ==
  ASSUME LedgerTypeOK, NEW k \in PeriodKeys, NEW q,
         period' = [period EXCEPT ![k] = q],
         CoveredRow(period[k]) => CoveredRow(q),
         Overdrawn(q) => Overdrawn(period[k]) \/ Charged(k)
  PROVE  \A j \in PeriodKeys : Guarded(j)
<1>1. \A j \in PeriodKeys : period'[j] = IF j = k THEN q ELSE period[j]
  BY DEF LedgerTypeOK
<1> QED BY <1>1 DEF Guarded

LEMMA GuardedSame ==
  ASSUME period' = period
  PROVE  \A j \in PeriodKeys : Guarded(j)
BY DEF Guarded

\* A row that has just been through alert() is covered, and not more overdrawn.
LEMMA AlertCovers ==
  ASSUME NEW p \in Period
  PROVE  /\ CoveredRow(Alerted(p))
         /\ Overdrawn(Alerted(p)) => Overdrawn(p)
<1> DEFINE q == Alerted(p)
<1>1. /\ q \in Period /\ q.alerted >= Threshold(p)
      /\ q.spent = p.spent /\ q.reserved = p.reserved
  BY AlertedType, AlertedTotals
<1>2. q.limit = p.limit /\ q.unlimited = p.unlimited
  BY DEF Alerted, Period
<1> HIDE DEF q
<1>3. Threshold(q) = Threshold(p)
  BY <1>1, <1>2 DEF Threshold
<1>4. CoveredRow(q)
  BY <1>1, <1>3 DEF CoveredRow
<1>5. Overdrawn(q) => Overdrawn(p)
  BY <1>1, <1>2 DEF Overdrawn
<1> QED BY <1>4, <1>5 DEF q

\* A step that ends in alert() only has to answer for the limit.
LEMMA GuardedAlert ==
  ASSUME LedgerTypeOK, NEW k \in PeriodKeys, NEW p \in Period,
         period' = [period EXCEPT ![k] = Alerted(p)],
         Overdrawn(p) => Overdrawn(period[k]) \/ Charged(k)
  PROVE  \A j \in PeriodKeys : Guarded(j)
BY AlertCovers, GuardedRow

LEMMA OpeningOverdrawsNothing ==
  ASSUME NEW k \in PeriodKeys, NEW g \in Group
  PROVE  /\ CoveredRow(period[k]) => CoveredRow(PeriodRow(k, g))
         /\ Overdrawn(PeriodRow(k, g)) => Overdrawn(period[k])
<1>1. CASE period[k].exists
  BY <1>1 DEF PeriodRow
<1>2. CASE ~period[k].exists
  <2> DEFINE q == PeriodRow(k, g)
  <2>1. q.spent = 0 /\ q.reserved = 0 /\ q.limit = g.limit /\ g.limit \in Nat
    BY <1>2 DEF PeriodRow, Group
  <2> HIDE DEF q
  <2>2. CoveredRow(q) /\ ~Overdrawn(q)
    BY <2>1 DEF CoveredRow, Overdrawn
  <2> QED BY <2>2 DEF q
<1> QED BY <1>1, <1>2

\* checkFunds admits no amount beyond the limit.
LEMMA FundsWithinLimit ==
  ASSUME NEW p \in Period, NEW amount \in Nat, HasFunds(p, amount)
  PROVE  /\ [p EXCEPT !.reserved = @ + amount] \in Period
         /\ ~Overdrawn([p EXCEPT !.reserved = @ + amount])
<1> DEFINE q == [p EXCEPT !.reserved = @ + amount]
<1>1. /\ q.spent = p.spent /\ q.reserved = p.reserved + amount
      /\ q.limit = p.limit /\ q.unlimited = p.unlimited
  BY DEF Period
<1>2. p.spent \in Int /\ p.reserved \in Int /\ p.limit \in Nat
  BY DEF Period
<1>3. q \in Period
  BY <1>2 DEF Period
<1> HIDE DEF q
<1>4. ~Overdrawn(q)
  BY <1>1, <1>2 DEF HasFunds, Overdrawn
<1> QED BY <1>3, <1>4 DEF q

LEMMA GuardedReserve ==
  ASSUME LedgerTypeOK, NEW r \in Requests, NEW at \in 1 .. clock,
         NEW amount \in Amounts, Reserve(r, at, amount)
  PROVE  \A j \in PeriodKeys : Guarded(j)
<1> DEFINE k == CurrentKey(at)
           p == PeriodRow(k, group)
           q == [p EXCEPT !.reserved = @ + amount]
<1>1. at \in Instants /\ amount \in Nat
  BY LedgerAssumption DEF LedgerTypeOK, Instants
<1>2. k \in PeriodKeys
  BY <1>1, KeyType DEF CurrentKey, LedgerTypeOK, Group
<1>3. p \in Period
  BY <1>2, PeriodRowType DEF LedgerTypeOK
<1>4. HasFunds(p, amount) /\ period' = [period EXCEPT ![k] = Alerted(q)]
  BY DEF Reserve
<1> HIDE DEF k, p
<1>5. q \in Period /\ ~Overdrawn(q)
  BY <1>1, <1>3, <1>4, FundsWithinLimit
<1> HIDE DEF q
<1> QED BY <1>2, <1>4, <1>5, GuardedAlert

LEMMA GuardedExtend ==
  ASSUME LedgerTypeOK, NEW r \in Requests, NEW attempt,
         NEW amount \in Amounts, Extend(r, attempt, amount)
  PROVE  \A j \in PeriodKeys : Guarded(j)
<1> DEFINE k == entry[r].period
           p == period[k]
           q == [p EXCEPT !.reserved = @ + amount]
<1>1. amount \in Nat /\ k \in PeriodKeys /\ p \in Period
  BY LedgerAssumption, RowTypes
<1>2. HasFunds(p, amount) /\ period' = [period EXCEPT ![k] = Alerted(q)]
  BY DEF Extend
<1> HIDE DEF k, p
<1>3. q \in Period /\ ~Overdrawn(q)
  BY <1>1, <1>2, FundsWithinLimit
<1> HIDE DEF q
<1> QED BY <1>1, <1>2, <1>3, GuardedAlert

\* Money in for a cost, and at least nothing out of what was reserved: the row
\* is overdrawn only if the cost is higher than the one recorded before.
LEMMA ChargeOverdraws ==
  ASSUME NEW p \in Period, NEW q \in Period, NEW old \in Nat, NEW new \in Nat,
         q.spent = p.spent + new - old, q.reserved <= p.reserved,
         q.limit = p.limit, q.unlimited = p.unlimited,
         Overdrawn(q), ~Overdrawn(p)
  PROVE  new > old
BY DEF Overdrawn, Period

LEMMA GuardedCharge ==
  ASSUME LedgerTypeOK, NEW r \in Requests, NEW e \in Entry, NEW q \in Period,
         entry' = [entry EXCEPT ![r] = e],
         period' = [period EXCEPT ![entry[r].period] = Alerted(q)],
         q.spent = period[entry[r].period].spent + e.settled - entry[r].settled,
         q.reserved <= period[entry[r].period].reserved,
         q.limit = period[entry[r].period].limit,
         q.unlimited = period[entry[r].period].unlimited
  PROVE  \A j \in PeriodKeys : Guarded(j)
<1> DEFINE k == entry[r].period
<1>1. k \in PeriodKeys /\ period[k] \in Period /\ entry'[r] = e
  BY RowTypes DEF LedgerTypeOK
<1>2. entry[r].settled \in Nat /\ e.settled \in Nat
  BY RowTypes DEF Entry
<1>3. Overdrawn(q) => Overdrawn(period[k]) \/ Charged(k)
  <2> SUFFICES ASSUME Overdrawn(q), ~Overdrawn(period[k]) PROVE Charged(k)
    OBVIOUS
  <2>1. e.settled > entry[r].settled
    BY <1>1, <1>2, ChargeOverdraws
  <2> QED BY <1>1, <2>1 DEF Charged
<1> QED BY <1>1, <1>3, GuardedAlert

LEMMA GuardedSettle ==
  ASSUME LedgerTypeOK, LedgerTypeOK', NEW r \in Requests,
         NEW amount \in Amounts, Settle(r, amount)
  PROVE  \A j \in PeriodKeys : Guarded(j)
<1> DEFINE k == entry[r].period
           p == period[k]
           q == SettledPeriod(p, entry[r], amount)
           e == [entry[r] EXCEPT !.status = "SETTLED", !.settled = amount,
                                 !.lease = NoLease]
<1>1. amount \in Nat /\ p \in Period /\ entry[r] \in Entry
  BY LedgerAssumption, RowTypes
<1>2. /\ period' = [period EXCEPT ![k] = Alerted(q)]
      /\ entry' = [entry EXCEPT ![r] = e]
  BY DEF Settle
<1>3. e.settled = amount
  BY <1>1 DEF Entry
<1>4. e \in Entry
  <2> HIDE DEF e
  <2>1. entry'[r] = e
    BY <1>2 DEF LedgerTypeOK
  <2> QED BY <2>1 DEF LedgerTypeOK
<1>5. /\ entry[r].settled \in Nat /\ entry[r].reserved \in Nat
      /\ p.spent \in Int /\ p.reserved \in Int
  BY <1>1 DEF Entry, Period
<1> HIDE DEF k, p, e
<1>6. q \in Period
  <2>1. /\ p.spent + amount - entry[r].settled \in Int
        /\ p.reserved - entry[r].reserved \in Int
    BY <1>1, <1>5
  <2> QED BY <1>1, <2>1 DEF SettledPeriod, Period
<1>7. /\ q.spent = p.spent + amount - entry[r].settled
      /\ q.reserved = p.reserved - entry[r].reserved
      /\ q.limit = p.limit /\ q.unlimited = p.unlimited
  BY <1>1 DEF SettledPeriod, Period
<1> HIDE DEF q
<1>8. q.reserved <= p.reserved
  BY <1>5, <1>7
<1> QED BY <1>2, <1>3, <1>4, <1>6, <1>7, <1>8, GuardedCharge DEF k, p

LEMMA GuardedReconcile ==
  ASSUME LedgerTypeOK, LedgerTypeOK', NEW r \in Requests, NEW o, NEW action,
         NEW amount \in Amounts, Reconcile(r, o, action, amount)
  PROVE  \A j \in PeriodKeys : Guarded(j)
<1> DEFINE k == entry[r].period
           p == period[k]
           q == ReconciledPeriod(p, entry[r], amount)
           e == [entry[r] EXCEPT
                   !.status = IF action = "RELEASE" THEN "RELEASED" ELSE "SETTLED",
                   !.settled = amount, !.lease = NoLease, !.manualFinal = TRUE]
<1>1. amount \in Nat /\ p \in Period /\ entry[r] \in Entry
  BY LedgerAssumption, RowTypes
<1>2. /\ period' = [period EXCEPT ![k] = Alerted(q)]
      /\ entry' = [entry EXCEPT ![r] = e]
  BY DEF Reconcile
<1>3. e.settled = amount
  BY <1>1 DEF Entry
<1>4. e \in Entry
  <2> HIDE DEF e
  <2>1. entry'[r] = e
    BY <1>2 DEF LedgerTypeOK
  <2> QED BY <2>1 DEF LedgerTypeOK
<1>5. /\ entry[r].settled \in Nat /\ entry[r].reserved \in Nat
      /\ p.spent \in Int /\ p.reserved \in Int
  BY <1>1 DEF Entry, Period
<1> HIDE DEF k, p, e
<1>6. /\ q.spent = p.spent + amount - entry[r].settled
      /\ q.reserved \in {p.reserved, p.reserved - entry[r].reserved}
      /\ q.limit = p.limit /\ q.unlimited = p.unlimited
  BY <1>1 DEF ReconciledPeriod, Period
<1>7. q \in Period
  <2>1. /\ p.spent + amount - entry[r].settled \in Int
        /\ p.reserved - entry[r].reserved \in Int
    BY <1>1, <1>5
  <2> QED BY <1>1, <1>5, <2>1 DEF ReconciledPeriod, Period
<1> HIDE DEF q
<1>8. q.reserved <= p.reserved
  BY <1>5, <1>6
<1> QED BY <1>2, <1>3, <1>4, <1>6, <1>7, <1>8, GuardedCharge DEF k, p

LEMMA GuardedHold ==
  ASSUME LedgerTypeOK, NEW r \in Requests, NEW actual \in Amounts,
         NEW unresolved \in Amounts, Hold(r, actual, unresolved)
  PROVE  \A j \in PeriodKeys : Guarded(j)
<1> DEFINE k == entry[r].period
           p == period[k]
           q == [p EXCEPT !.spent = @ + actual,
                          !.reserved = @ + unresolved - entry[r].reserved]
<1>1. /\ actual \in Nat /\ unresolved \in Nat
      /\ entry[r] \in Entry /\ k \in PeriodKeys /\ p \in Period
  BY LedgerAssumption, RowTypes
<1>2. /\ period' = [period EXCEPT ![k] = Alerted(q)]
      /\ ~entry[r].held /\ entry'[r].held
  BY <1>1 DEF Hold, LedgerTypeOK, Entry
<1>3. Charged(k)
  BY <1>2 DEF Charged
<1>4. q \in Period
  <2> HIDE DEF k, p
  <2>1. entry[r].reserved \in Nat
    BY <1>1 DEF Entry
  <2>2. /\ p.spent + actual \in Int
        /\ p.reserved + unresolved - entry[r].reserved \in Int
    BY <1>1, <2>1 DEF Period
  <2> QED BY <1>1, <2>2 DEF Period
<1> HIDE DEF k, q
<1> QED BY <1>1, <1>2, <1>3, <1>4, GuardedAlert

LEMMA GuardedReleaseEntry ==
  ASSUME LedgerTypeOK, NEW r \in Requests, ReleaseEntry(r)
  PROVE  \A j \in PeriodKeys : Guarded(j)
<1> DEFINE k == entry[r].period
           p == period[k]
           q == [p EXCEPT !.reserved = @ - entry[r].reserved]
<1>1. k \in PeriodKeys /\ p \in Period /\ entry[r] \in Entry
  BY RowTypes
<1>2. period' = [period EXCEPT ![k] = q]
  BY DEF ReleaseEntry
<1>3. /\ entry[r].reserved \in Nat /\ p.spent \in Int /\ p.reserved \in Int
      /\ p.limit \in Nat /\ p.alerted \in {0, 80, 100}
  BY <1>1 DEF Entry, Period
<1> HIDE DEF k, p
<1>4. /\ q.spent = p.spent /\ q.reserved = p.reserved - entry[r].reserved
      /\ q.limit = p.limit /\ q.unlimited = p.unlimited /\ q.alerted = p.alerted
  BY <1>1 DEF Period
<1> HIDE DEF q
<1>5. CoveredRow(p) => CoveredRow(q)
  BY <1>3, <1>4 DEF CoveredRow, Threshold
<1>6. Overdrawn(q) => Overdrawn(p)
  BY <1>3, <1>4 DEF Overdrawn
<1> QED BY <1>1, <1>2, <1>5, <1>6, GuardedRow DEF p

LEMMA GuardedLimit ==
  ASSUME LedgerTypeOK, NEW o, NEW k \in PeriodKeys, NEW limit \in Limits,
         NEW unlimited \in BOOLEAN, SetLimit(o, k, limit, unlimited)
  PROVE  \A j \in PeriodKeys : Guarded(j)
<1> DEFINE p == PeriodRow(k, group)
           q == [p EXCEPT !.limit = limit, !.unlimited = unlimited]
<1>1. limit \in Nat /\ p \in Period
  BY LedgerAssumption, PeriodRowType DEF LedgerTypeOK
<1>2. LimitFits(p, limit, unlimited) /\ period' = [period EXCEPT ![k] = Alerted(q)]
  BY DEF SetLimit
<1> HIDE DEF p
<1>3. /\ q \in Period /\ q.spent = p.spent /\ q.reserved = p.reserved
      /\ q.limit = limit /\ q.unlimited = unlimited
      /\ p.spent \in Int /\ p.reserved \in Int
  BY <1>1 DEF Period
<1> HIDE DEF q
<1>4. ~Overdrawn(q)
  BY <1>1, <1>2, <1>3 DEF LimitFits, Overdrawn
<1> QED BY <1>2, <1>3, <1>4, GuardedAlert

LEMMA GuardedDefault ==
  ASSUME LedgerTypeOK, NEW o, NEW limit, NEW unlimited,
         AdjustDefault(o, limit, unlimited)
  PROVE  \A j \in PeriodKeys : Guarded(j)
<1> DEFINE k == CurrentKey(clock)
<1>1. k \in PeriodKeys /\ group \in Group
  BY CurrentKeyType DEF LedgerTypeOK
<1>2. period' = [period EXCEPT ![k] = PeriodRow(k, group)]
  BY DEF AdjustDefault
<1> HIDE DEF k
<1> QED BY <1>1, <1>2, OpeningOverdrawsNothing, GuardedRow

\* The current and the target row are opened, and the latter gets a timezone.
LEMMA GuardedConfigure ==
  ASSUME LedgerTypeOK, NEW o, NEW mode \in {"TOTAL", "MONTHLY"},
         NEW tz \in Timezones, Configure(o, mode, tz)
  PROVE  \A j \in PeriodKeys : Guarded(j)
<1> DEFINE now     == CurrentKey(clock)
           target  == PeriodKey(mode, tz, clock)
           changed == [group EXCEPT !.mode = mode, !.timezone = tz]
           first   == PeriodRow(now, group)
           opened  == [period EXCEPT ![now] = first]
           fresh   == PeriodRow(target, changed)
           row     == IF opened[target].exists THEN opened[target] ELSE fresh
           q       == [row EXCEPT !.timezone = tz]
<1>1. period' = [opened EXCEPT ![target] = q]
  BY DEF Configure
<1>2. /\ now \in PeriodKeys /\ target \in PeriodKeys
      /\ group \in Group /\ changed \in Group
  <2>1. now \in PeriodKeys /\ group \in Group
    BY CurrentKeyType DEF LedgerTypeOK
  <2>2. target \in PeriodKeys
    BY KeyType DEF LedgerTypeOK
  <2>3. changed \in Group
    BY <2>1 DEF Group
  <2> QED BY <2>1, <2>2, <2>3
<1>3. /\ first \in Period /\ fresh \in Period
      /\ CoveredRow(period[now]) => CoveredRow(first)
      /\ Overdrawn(first) => Overdrawn(period[now])
      /\ CoveredRow(period[target]) => CoveredRow(fresh)
      /\ Overdrawn(fresh) => Overdrawn(period[target])
  <2> HIDE DEF now, target, changed
  <2>1. first \in Period /\ fresh \in Period
    BY <1>2, PeriodRowType DEF LedgerTypeOK
  <2> QED BY <1>2, <2>1, OpeningOverdrawsNothing
<1>4. period \in [PeriodKeys -> Period]
  BY DEF LedgerTypeOK
<1> HIDE DEF now, target, changed, first, fresh
<1>5. \A j \in PeriodKeys : opened[j] = IF j = now THEN first ELSE period[j]
  BY <1>4
<1>6. opened \in [PeriodKeys -> Period]
  BY <1>2, <1>3, <1>4
<1>7. \A j \in PeriodKeys : /\ CoveredRow(period[j]) => CoveredRow(opened[j])
                            /\ Overdrawn(opened[j]) => Overdrawn(period[j])
  <2> HIDE DEF opened
  <2> QED BY <1>3, <1>5
<1> HIDE DEF opened
<1>8. /\ row \in Period
      /\ CoveredRow(period[target]) => CoveredRow(row)
      /\ Overdrawn(row) => Overdrawn(period[target])
  BY <1>2, <1>3, <1>6, <1>7
<1> HIDE DEF row
<1>9. /\ q.spent = row.spent /\ q.reserved = row.reserved /\ q.limit = row.limit
      /\ q.unlimited = row.unlimited /\ q.alerted = row.alerted
  BY <1>8 DEF Period
<1> HIDE DEF q
<1>10. /\ CoveredRow(row) => CoveredRow(q)
       /\ Overdrawn(q) => Overdrawn(row)
  BY <1>9 DEF CoveredRow, Threshold, Overdrawn
<1>11. \A j \in PeriodKeys : period'[j] = IF j = target THEN q ELSE opened[j]
  BY <1>1, <1>6
<1> QED BY <1>7, <1>8, <1>10, <1>11 DEF Guarded

LEMMA GuardedStep ==
  ASSUME LedgerTypeOK, LedgerTypeOK', [LedgerNext]_ledgerVars
  PROVE  \A j \in PeriodKeys : Guarded(j)
<1>1. CASE RequestNext
  <2>1. PICK r \in Requests :
          \/ \E at \in 1 .. clock, amount \in Amounts : Reserve(r, at, amount)
          \/ \E attempt \in Attempts, amount \in Amounts : Extend(r, attempt, amount)
          \/ \E amount \in Amounts : Settle(r, amount)
          \/ \E actual, unresolved \in Amounts : Hold(r, actual, unresolved)
          \/ Release(r)
          \/ MarkDispatched(r, clock + LeaseTicks)
          \/ MarkUncertain(r)
          \/ \E now \in 1 .. clock : RecoverExpired(r, now)
          \/ ConfirmSync(r, outbox[r].version)
    BY <1>1 DEF RequestNext
  <2>2. Uncertain(r) \/ MarkDispatched(r, clock + LeaseTicks)
          \/ ConfirmSync(r, outbox[r].version) => period' = period
    BY DEF Uncertain, MarkDispatched, ConfirmSync
  <2>3. Release(r) => ReleaseEntry(r)
    BY DEF Release
  <2>4. MarkUncertain(r) => Uncertain(r)
    BY DEF MarkUncertain
  <2>5. \A now : RecoverExpired(r, now) => Uncertain(r) \/ ReleaseEntry(r)
    BY DEF RecoverExpired
  <2> QED BY <2>1, <2>2, <2>3, <2>4, <2>5, GuardedSame, GuardedReserve, GuardedExtend,
             GuardedSettle, GuardedHold, GuardedReleaseEntry
<1>2. CASE AdminNext
  <2>1. \A a : CheckApplication(a) \/ SubmitApplication(a) \/ RejectApplication(a)
          => period' = period
    BY DEF CheckApplication, SubmitApplication, RejectApplication, Mark
  <2>2. Archive => period' = period
    BY DEF Archive
  <2>3. \A o, k, limit, unlimited :
          /\ AdjustCurrent(o, k, limit, unlimited) => SetLimit(o, k, limit, unlimited)
          /\ \A a : ApproveApplication(o, a, k, limit, unlimited)
                      => SetLimit(o, k, limit, unlimited)
    BY DEF AdjustCurrent, ApproveApplication
  <2> QED BY <1>2, <2>1, <2>2, <2>3, GuardedSame, GuardedReconcile, GuardedLimit,
             GuardedDefault, GuardedConfigure DEF AdminNext
<1>3. CASE Tick \/ UNCHANGED ledgerVars
  <2>1. period' = period
    BY <1>3 DEF Tick, ledgerVars
  <2> QED BY <2>1, GuardedSame
<1> QED BY <1>1, <1>2, <1>3 DEF LedgerNext

\* A period whose money has reached 80 % or all of its limit has been alerted at
\* that threshold: no change of the totals or of the limit skips alert()
\* (group-budget.service.ts).
THEOREM AlertsReachTotals == LedgerSpec => []AlertsCover
<1>1. LedgerInit => AlertsCover
  BY DEF LedgerInit, InitialPeriod, AlertsCover
<1>2. /\ LedgerTypeOK /\ LedgerTypeOK' /\ AlertsCover /\ [LedgerNext]_ledgerVars
      => AlertsCover'
  <2> SUFFICES ASSUME LedgerTypeOK, LedgerTypeOK', AlertsCover,
                      [LedgerNext]_ledgerVars
               PROVE  AlertsCover'
    OBVIOUS
  <2>1. \A k \in PeriodKeys : CoveredRow(period'[k])
    BY GuardedStep DEF Guarded, AlertsCover, CoveredRow
  <2> QED BY <2>1 DEF AlertsCover, CoveredRow, Threshold
<1> QED BY <1>1, <1>2, LedgerTypeCorrect, PTL DEF LedgerSpec

\* Only a cost that a supplier charged, or may have charged, overdraws a period:
\* reservations that compete for the last of a limit, extensions and changes of
\* limits never do (group-budget.service.ts checkFunds, adjust).
THEOREM OverdraftsAreCosts == LedgerSpec => OverdraftOnlyByCost
<1>1. LedgerTypeOK /\ LedgerTypeOK' /\ [LedgerNext]_ledgerVars =>
        [\A k \in PeriodKeys :
           Overdrawn(period[k])' /\ ~Overdrawn(period[k]) =>
             \E r \in Requests :
               /\ entry[r].period = k
               /\ \/ entry'[r].settled > entry[r].settled
                  \/ entry'[r].held /\ ~entry[r].held]_ledgerVars
  BY GuardedStep DEF Guarded, Charged, Overdrawn
<1> QED BY <1>1, LedgerTypeCorrect, PTL DEF LedgerSpec, OverdraftOnlyByCost

-------------------------------------------------------------------------------
(* Changes of mode and timezone.                                           *)

\* What every other step does: the settings and the start and period of each
\* request stay, and no closed request opens again.
Steady(x) ==
  /\ entry'[x].period = entry[x].period /\ entry'[x].startedAt = entry[x].startedAt
  /\ entry'[x].status \in {"RESERVED", "RECONCILIATION_REQUIRED"} => Open(x)

Settled == group'.mode = group.mode /\ group'.timezone = group.timezone

LEMMA SteadyEntry ==
  ASSUME LedgerTypeOK, NEW r \in Requests, NEW e,
         entry' = [entry EXCEPT ![r] = e],
         e.period = entry[r].period, e.startedAt = entry[r].startedAt,
         e.status \in {"RESERVED", "RECONCILIATION_REQUIRED"} => Open(r)
  PROVE  \A x \in Requests : Steady(x)
<1>1. \A x \in Requests : entry'[x] = IF x = r THEN e ELSE entry[x]
  BY DEF LedgerTypeOK
<1> QED BY <1>1 DEF Steady, Open

\* The postings, one lemma each.
LEMMA ReserveSettled ==
  ASSUME NEW r \in Requests, NEW at \in 1 .. clock, NEW amount \in Amounts,
         Reserve(r, at, amount)
  PROVE  Settled
<1>1. group' = group
  BY DEF Reserve
<1> QED BY <1>1 DEF Settled

LEMMA ExtendFollows ==
  ASSUME LedgerTypeOK, NEW r \in Requests, NEW attempt \in Attempts, NEW amount \in Amounts,
         Extend(r, attempt, amount)
  PROVE  Settled /\ \A x \in Requests : Steady(x)
<1>1. group' = group
  BY DEF Extend
<1>2. PICK e : /\ entry' = [entry EXCEPT ![r] = e]
               /\ e.period = entry[r].period /\ e.startedAt = entry[r].startedAt
               /\ e.status \in {"RESERVED", "RECONCILIATION_REQUIRED"} => Open(r)
  <2>1. entry[r] \in Entry
    BY RowTypes
  <2> QED BY <2>1 DEF Extend, Open, Entry
<1>3. \A x \in Requests : Steady(x)
  BY <1>2, SteadyEntry
<1> QED BY <1>1, <1>3 DEF Settled

LEMMA SettleFollows ==
  ASSUME LedgerTypeOK, NEW r \in Requests, NEW amount \in Amounts,
         Settle(r, amount)
  PROVE  Settled /\ \A x \in Requests : Steady(x)
<1>1. group' = group
  BY DEF Settle
<1>2. PICK e : /\ entry' = [entry EXCEPT ![r] = e]
               /\ e.period = entry[r].period /\ e.startedAt = entry[r].startedAt
               /\ e.status \in {"RESERVED", "RECONCILIATION_REQUIRED"} => Open(r)
  <2>1. entry[r] \in Entry
    BY RowTypes
  <2> QED BY <2>1 DEF Settle, Open, Entry
<1>3. \A x \in Requests : Steady(x)
  BY <1>2, SteadyEntry
<1> QED BY <1>1, <1>3 DEF Settled

LEMMA HoldFollows ==
  ASSUME LedgerTypeOK, NEW r \in Requests, NEW actual \in Amounts, NEW unresolved \in Amounts,
         Hold(r, actual, unresolved)
  PROVE  Settled /\ \A x \in Requests : Steady(x)
<1>1. group' = group
  BY DEF Hold
<1>2. PICK e : /\ entry' = [entry EXCEPT ![r] = e]
               /\ e.period = entry[r].period /\ e.startedAt = entry[r].startedAt
               /\ e.status \in {"RESERVED", "RECONCILIATION_REQUIRED"} => Open(r)
  <2>1. entry[r] \in Entry
    BY RowTypes
  <2> QED BY <2>1 DEF Hold, Open, Entry
<1>3. \A x \in Requests : Steady(x)
  BY <1>2, SteadyEntry
<1> QED BY <1>1, <1>3 DEF Settled

\* Every request in its period, while the settings stay.
LEMMA RequestsFollow ==
  ASSUME LedgerTypeOK, RequestNext
  PROVE  /\ Settled
         /\ \/ \A x \in Requests : Steady(x)
            \/ \E r \in Requests, at \in 1 .. clock, amount \in Amounts :
                 Reserve(r, at, amount)
<1> PICK r \in Requests :
      \/ \E at \in 1 .. clock, amount \in Amounts : Reserve(r, at, amount)
      \/ \E attempt \in Attempts, amount \in Amounts : Extend(r, attempt, amount)
      \/ \E amount \in Amounts : Settle(r, amount)
      \/ \E actual, unresolved \in Amounts : Hold(r, actual, unresolved)
      \/ Release(r)
      \/ MarkDispatched(r, clock + LeaseTicks)
      \/ MarkUncertain(r)
      \/ \E now \in 1 .. clock : RecoverExpired(r, now)
      \/ ConfirmSync(r, outbox[r].version)
  BY DEF RequestNext
<1>0. entry[r] \in Entry
  BY RowTypes
<1>5. ASSUME ReleaseEntry(r)
      PROVE  Settled /\ \A x \in Requests : Steady(x)
  BY <1>0, <1>5, SteadyEntry DEF ReleaseEntry, Settled, Entry
<1>6. ASSUME NEW until, MarkDispatched(r, until)
      PROVE  Settled /\ \A x \in Requests : Steady(x)
  BY <1>0, <1>6, SteadyEntry DEF MarkDispatched, Settled, Entry, Open
<1>7. ASSUME Open(r), Uncertain(r)
      PROVE  Settled /\ \A x \in Requests : Steady(x)
  BY <1>0, <1>7, SteadyEntry DEF Uncertain, Settled, Entry
<1>8. ASSUME NEW version, ConfirmSync(r, version)
      PROVE  Settled /\ \A x \in Requests : Steady(x)
  BY <1>8 DEF ConfirmSync, Settled, Steady, Open
<1>9. /\ Release(r) => ReleaseEntry(r)
      /\ MarkUncertain(r) => Open(r) /\ Uncertain(r)
      /\ \A now : RecoverExpired(r, now) =>
           ReleaseEntry(r) \/ (Open(r) /\ Uncertain(r))
  BY DEF Release, MarkUncertain, RecoverExpired, Open
<1> QED BY <1>5, <1>6, <1>7, <1>8, <1>9, ReserveSettled, ExtendFollows, SettleFollows, HoldFollows

\* What an administrator, the clock or nothing does to settings and requests.
LEMMA OthersFollow ==
  ASSUME LedgerTypeOK, AdminNext \/ Tick \/ UNCHANGED ledgerVars
  PROVE  /\ \A x \in Requests : Steady(x)
         /\ \/ Settled
            \/ \E o \in Operations, mode \in {"TOTAL", "MONTHLY"}, tz \in Timezones :
                 Configure(o, mode, tz)
<1>1. ASSUME NEW o \in Operations, NEW r \in Requests, NEW action, NEW amount,
             Reconcile(r, o, action, amount)
      PROVE  Settled /\ \A x \in Requests : Steady(x)
  <2>1. entry[r] \in Entry
    BY RowTypes
  <2> QED BY <1>1, <2>1, SteadyEntry DEF Reconcile, Settled, Entry, Open
<1>2. entry' = entry => \A x \in Requests : Steady(x)
  BY DEF Steady, Open
<1>3. ASSUME NEW o, NEW limit, NEW unlimited, AdjustDefault(o, limit, unlimited)
      PROVE  Settled /\ entry' = entry
  BY <1>3 DEF AdjustDefault, Settled, LedgerTypeOK, Group
<1>4. ASSUME NEW o, NEW k, NEW limit, NEW unlimited, SetLimit(o, k, limit, unlimited)
      PROVE  Settled /\ entry' = entry
  BY <1>4 DEF SetLimit, Settled
<1>5. \A o, k, limit, unlimited :
        /\ AdjustCurrent(o, k, limit, unlimited) => SetLimit(o, k, limit, unlimited)
        /\ \A a : ApproveApplication(o, a, k, limit, unlimited)
                    => SetLimit(o, k, limit, unlimited)
  BY DEF AdjustCurrent, ApproveApplication
<1>6. ASSUME NEW a, CheckApplication(a) \/ SubmitApplication(a) \/ RejectApplication(a)
      PROVE  Settled /\ entry' = entry
  BY <1>6 DEF CheckApplication, SubmitApplication, RejectApplication, Mark, Settled
<1>7. Archive => Settled /\ entry' = entry
  BY DEF Archive, Settled, LedgerTypeOK, Group
<1>8. Tick \/ UNCHANGED ledgerVars => Settled /\ entry' = entry
  BY DEF Tick, ledgerVars, Settled
<1>9. ASSUME NEW o, NEW mode, NEW tz, Configure(o, mode, tz)
      PROVE  entry' = entry
  BY <1>9 DEF Configure
<1> QED BY <1>1, <1>2, <1>3, <1>4, <1>5, <1>6, <1>7, <1>8, <1>9 DEF AdminNext

\* configure, when it changes something, finds no request open and none in the
\* two periods that it writes.
LEMMA ConfigureFindsNone ==
  ASSUME LedgerTypeOK, NEW o, NEW mode, NEW tz, Configure(o, mode, tz), ~Settled,
         NEW x \in Requests, entry[x].status # "NONE"
  PROVE  ~Open(x) /\ period'[entry[x].period] = period[entry[x].period]
<1> DEFINE now    == CurrentKey(clock)
           target == PeriodKey(mode, tz, clock)
<1>1. group \in Group /\ entry[x].period \in PeriodKeys
  BY RowTypes DEF LedgerTypeOK
<1>2. group'.mode = mode /\ group'.timezone = tz
  BY <1>1 DEF Configure, Group
<1>3. ~Occupied(now, target)
  BY <1>2 DEF Configure, Settled
<1>4. ~Open(x) /\ entry[x].period \notin {now, target}
  <2> HIDE DEF now, target
  <2> QED BY <1>3 DEF Occupied
<1>5. PICK row, first :
        period' = [[period EXCEPT ![now] = first] EXCEPT ![target] = row]
  BY DEF Configure
<1> HIDE DEF now, target
<1>6. period'[entry[x].period] = period[entry[x].period]
  BY <1>1, <1>4, <1>5 DEF LedgerTypeOK
<1> QED BY <1>4, <1>6

LEMMA OpenFollowsStep ==
  ASSUME LedgerTypeOK, OpenFollowsConfig, [LedgerNext]_ledgerVars
  PROVE  OpenFollowsConfig'
<1> SUFFICES ASSUME NEW x \in Requests,
                    entry'[x].status \in {"RESERVED", "RECONCILIATION_REQUIRED"}
             PROVE  entry'[x].period =
                      PeriodKey(group'.mode, group'.timezone, entry'[x].startedAt)
  BY DEF OpenFollowsConfig, Open, CurrentKey, PeriodKey
<1>1. CASE Settled /\ Steady(x)
  BY <1>1 DEF Settled, Steady, OpenFollowsConfig, CurrentKey
<1>2. ASSUME NEW r \in Requests, NEW at \in 1 .. clock, NEW amount \in Amounts,
             Reserve(r, at, amount), Settled
      PROVE  entry'[x].period =
               PeriodKey(group'.mode, group'.timezone, entry'[x].startedAt)
  <2>1. CASE x = r
    <3>1. entry'[r].period = CurrentKey(at) /\ entry'[r].startedAt = at
      BY <1>2 DEF Reserve, LedgerTypeOK, NewEntry
    <3> QED BY <1>2, <2>1, <3>1 DEF Settled, CurrentKey
  <2>2. CASE x # r
    <3>1. entry'[x] = entry[x]
      BY <1>2, <2>2 DEF Reserve, LedgerTypeOK
    <3> QED BY <1>1, <1>2, <3>1 DEF Steady, Open
  <2> QED BY <2>1, <2>2
<1>3. CASE RequestNext
  BY <1>1, <1>2, <1>3, RequestsFollow
<1>4. CASE AdminNext \/ Tick \/ UNCHANGED ledgerVars
  <2>1. Steady(x) /\ Open(x) /\ entry[x].status # "NONE"
    BY <1>4, OthersFollow DEF Steady, Open
  <2>2. ASSUME NEW o \in Operations, NEW mode \in {"TOTAL", "MONTHLY"},
               NEW tz \in Timezones, Configure(o, mode, tz)
        PROVE  Settled
    BY <2>1, <2>2, ConfigureFindsNone
  <2> QED BY <1>1, <1>4, <2>1, <2>2, OthersFollow
<1> QED BY <1>3, <1>4 DEF LedgerNext

\* An open request is in the period that the present settings give its start:
\* configure never splits a month under a request (group-budget.service.ts
\* configure, reserve).
THEOREM OpenRequestsFollow == LedgerSpec => []OpenFollowsConfig
<1>1. LedgerInit => OpenFollowsConfig
  BY DEF LedgerInit, OpenFollowsConfig, Open, NewEntry
<1>2. LedgerTypeOK /\ OpenFollowsConfig /\ [LedgerNext]_ledgerVars => OpenFollowsConfig'
  BY OpenFollowsStep
<1> QED BY <1>1, <1>2, LedgerTypeCorrect, PTL DEF LedgerSpec

\* A change of mode or timezone leaves the row of every period with requests as
\* it was (group-budget.service.ts configure).
THEOREM HistorySpared == LedgerSpec => ConfigureSparesHistory
<1>1. LedgerTypeOK /\ [LedgerNext]_ledgerVars =>
        [<<group.mode, group.timezone>>' # <<group.mode, group.timezone>> =>
           \A r \in Requests :
             entry[r].status # "NONE" =>
               /\ ~Open(r)
               /\ period'[entry[r].period] = period[entry[r].period]]_ledgerVars
  <2> SUFFICES ASSUME LedgerTypeOK, LedgerNext, ~Settled, NEW r \in Requests,
                      entry[r].status # "NONE"
               PROVE  ~Open(r) /\ period'[entry[r].period] = period[entry[r].period]
    BY DEF Settled, ledgerVars
  <2>1. \E o \in Operations, mode \in {"TOTAL", "MONTHLY"}, tz \in Timezones :
          Configure(o, mode, tz)
    BY RequestsFollow, OthersFollow DEF LedgerNext
  <2> QED BY <2>1, ConfigureFindsNone
<1> QED BY <1>1, LedgerTypeCorrect, PTL DEF LedgerSpec, ConfigureSparesHistory

-------------------------------------------------------------------------------
(* The ledger keeps the promises of a budget account (BudgetAccount).      *)

\* Sums in the account are the sums of this ledger.
LEMMA AccountTotal ==
  ASSUME NEW f, NEW S
  PROVE  Account!Total(f, S) = Total(f, S)
BY DEF Account!Total, Account!UnitSet, Account!Cardinality, Total, UnitSet, Cardinality

LEMMA DealFields ==
  ASSUME NEW e, e.status # "NONE"
  PROVE  /\ DealOf(e).account = e.period /\ DealOf(e).paid = e.settled
         /\ DealOf(e).sent = e.dispatched /\ DealOf(e).corrected = e.manualFinal
         /\ e.status \in {"RESERVED", "RECONCILIATION_REQUIRED"} =>
              /\ DealOf(e).promised = e.reserved
              /\ DealOf(e).state = IF e.held THEN "HELD" ELSE "OPEN"
         /\ e.status \in {"SETTLED", "RELEASED"} =>
              /\ DealOf(e).promised = 0
              /\ DealOf(e).state = IF e.status = "SETTLED" THEN "SETTLED" ELSE "RETURNED"
BY DEF DealOf

LEMMA DealType ==
  ASSUME NEW e \in Entry
  PROVE  /\ e.status = "NONE" => DealOf(e) = Account!NoDeal
         /\ e.status # "NONE" => DealOf(e) \in Account!Deal /\ DealOf(e).state # "NONE"
<1>1. e.status = "NONE" => DealOf(e) = Account!NoDeal
  BY DEF DealOf, Account!NoDeal
<1>2. ASSUME e.status # "NONE"
      PROVE  DealOf(e) \in Account!Deal /\ DealOf(e).state # "NONE"
  BY <1>2 DEF DealOf, Account!Deal, Entry
<1> QED BY <1>1, <1>2

\* What an account has used is what its period has spent and reserved.
LEMMA AccountUses ==
  ASSUME Money, NEW k \in PeriodKeys
  PROVE  Account!Used(k) = period[k].spent + period[k].reserved
<1> DEFINE f == Account!Promised(k)
           g == Account!Paid(k)
<1>1. \A r \in Requests :
        /\ f[r] = IF DealOf(entry[r]).state # "NONE" /\ DealOf(entry[r]).account = k
                  THEN DealOf(entry[r]).promised ELSE 0
        /\ g[r] = IF DealOf(entry[r]).state # "NONE" /\ DealOf(entry[r]).account = k
                  THEN DealOf(entry[r]).paid ELSE 0
  BY DEF Account!Promised, Account!Paid, Account!Made
<1>2. \A r \in Requests : f[r] = OpenReserved(k)[r] /\ g[r] = Costs(k)[r]
  <2> HIDE DEF f, g
  <2> SUFFICES ASSUME NEW r \in Requests
               PROVE  f[r] = OpenReserved(k)[r] /\ g[r] = Costs(k)[r]
    OBVIOUS
  <2>1. /\ OpenReserved(k)[r] = Held(entry[r], k)
        /\ Costs(k)[r] = Cost(entry[r], k)
    BY Summands DEF Money
  <2>2. entry[r] \in Entry
    BY RowTypes DEF Money
  <2>3. CASE entry[r].status = "NONE"
    <3>1. DealOf(entry[r]).state = "NONE"
      BY <2>2, <2>3, DealType DEF Account!NoDeal
    <3>2. entry[r].settled = 0
      BY <2>3 DEF Money, PeriodsOpened
    <3> QED BY <1>1, <2>1, <2>3, <3>1, <3>2 DEF Held, Cost
  <2>4. CASE entry[r].status # "NONE"
    <3>1. /\ DealOf(entry[r]).state # "NONE"
          /\ DealOf(entry[r]).account = entry[r].period
          /\ DealOf(entry[r]).paid = entry[r].settled
      BY <2>2, <2>4, DealType, DealFields
    <3>2. entry[r].status \in {"RESERVED", "RECONCILIATION_REQUIRED", "SETTLED", "RELEASED"}
      BY <2>2, <2>4 DEF Entry
    <3>3. DealOf(entry[r]).promised =
            IF entry[r].status \in {"RESERVED", "RECONCILIATION_REQUIRED"}
            THEN entry[r].reserved ELSE 0
      BY <2>4, <3>2, DealFields
    <3> QED BY <1>1, <2>1, <3>1, <3>3 DEF Held, Cost
  <2> QED BY <2>3, <2>4
<1>3. /\ Total(f, Requests) = Total(OpenReserved(k), Requests)
      /\ Total(g, Requests) = Total(Costs(k), Requests)
  <2> HIDE DEF f, g
  <2> QED BY <1>2, TotalSame
<1>4. /\ period[k].reserved = Total(OpenReserved(k), Requests)
      /\ period[k].spent = Total(Costs(k), Requests)
  BY DEF Money, ReservedConserved, SpentConserved
<1>5. period[k].reserved \in Int /\ period[k].spent \in Int
  BY DEF Money, LedgerTypeOK, Period
<1>6. Account!Used(k) = Total(f, Requests) + Total(g, Requests)
  BY AccountTotal DEF Account!Used
<1> HIDE DEF f, g
<1> QED BY <1>3, <1>4, <1>5, <1>6

\* checkFunds is the account's own test.
LEMMA AccountCovers ==
  ASSUME Money, NEW k \in PeriodKeys, NEW n \in Nat, HasFunds(PeriodRow(k, group), n)
  PROVE  Account!Covers(k, n)
<1> DEFINE p == PeriodRow(k, group)
<1>1. p.spent = period[k].spent /\ p.reserved = period[k].reserved
  BY OpeningKeepsTotals
<1>2. p \in Period
  BY PeriodRowType DEF Money, LedgerTypeOK
<1>3. /\ LimitOf(k).amount = p.limit /\ LimitOf(k).unlimited = p.unlimited
  BY DEF LimitOf
<1>4. /\ p.limit \in Nat /\ p.spent \in Int /\ p.reserved \in Int
      /\ HasFunds(p, n)
  BY <1>2 DEF Period
<1> HIDE DEF p
<1>5. p.unlimited \/ (p.limit # 0 /\ p.spent + p.reserved + n <= p.limit)
  BY <1>4 DEF HasFunds
<1>6. Account!Used(k) = p.spent + p.reserved
  BY <1>1, AccountUses
<1> QED BY <1>3, <1>5, <1>6 DEF Account!Covers

\* A step that posts to one period, and perhaps opens it, keeps every limit.
LEMMA LimitsKept ==
  ASSUME LedgerTypeOK, NEW k \in PeriodKeys, NEW q,
         group' = group, period' = [period EXCEPT ![k] = q], q.exists,
         q.limit = PeriodRow(k, group).limit, q.unlimited = PeriodRow(k, group).unlimited
  PROVE  \A j \in PeriodKeys : LimitOf(j)' = LimitOf(j)
<1>1. \A j \in PeriodKeys : period'[j] = IF j = k THEN q ELSE period[j]
  BY DEF LedgerTypeOK
<1>2. \A j \in PeriodKeys :
        /\ PeriodRow(j, group)'.limit = PeriodRow(j, group).limit
        /\ PeriodRow(j, group)'.unlimited = PeriodRow(j, group).unlimited
  BY <1>1 DEF PeriodRow
<1> QED BY <1>2 DEF LimitOf

\* alert() leaves the limit alone.
LEMMA AlertedLimit ==
  ASSUME NEW p \in Period
  PROVE  /\ Alerted(p).exists = p.exists /\ Alerted(p).limit = p.limit
         /\ Alerted(p).unlimited = p.unlimited
<1>1. {"exists", "limit", "unlimited"} \subseteq DOMAIN p
  BY DEF Period
<1> QED BY <1>1, AlertedType

\* A call that rewrites one entry is a step of the deal it records.
LEMMA OneDeal ==
  ASSUME LedgerTypeOK, NEW r \in Requests, NEW e \in Entry, e.status # "NONE",
         entry' = [entry EXCEPT ![r] = e],
         \A k \in PeriodKeys : LimitOf(k)' = LimitOf(k),
         \/ Account!Promise(r, DealOf(e)) \/ Account!PromiseMore(r, DealOf(e))
         \/ Account!Send(r, DealOf(e)) \/ Account!Hold(r, DealOf(e))
         \/ Account!Settle(r, DealOf(e)) \/ Account!Return(r, DealOf(e))
         \/ Account!Correct(r, DealOf(e))
  PROVE  Account!DealNext(r)
<1> DEFINE D == [x \in Requests |-> DealOf(entry[x])]
<1>1. \A x \in Requests : entry'[x] = IF x = r THEN e ELSE entry[x]
  BY DEF LedgerTypeOK
<1>2. D' = [D EXCEPT ![r] = DealOf(e)]
  <2>1. D' = [x \in Requests |-> DealOf(entry'[x])]
    OBVIOUS
  <2>2. \A x \in Requests : DealOf(entry'[x]) = IF x = r THEN DealOf(e) ELSE DealOf(entry[x])
    BY <1>1
  <2> QED BY <2>1, <2>2
<1>3. D'[r] = DealOf(e)
  BY <1>2
<1>4. DealOf(e) \in Account!Deal
  BY DealType
<1>5. [k \in PeriodKeys |-> LimitOf(k)]' = [k \in PeriodKeys |-> LimitOf(k)]
  OBVIOUS
<1> HIDE DEF D
<1>6. /\ D'[r] \in Account!Deal /\ D' = [D EXCEPT ![r] = D'[r]]
      /\ \/ Account!Promise(r, D'[r]) \/ Account!PromiseMore(r, D'[r])
         \/ Account!Send(r, D'[r]) \/ Account!Hold(r, D'[r])
         \/ Account!Settle(r, D'[r]) \/ Account!Return(r, D'[r])
         \/ Account!Correct(r, D'[r])
  BY <1>2, <1>3, <1>4
<1> QED BY <1>5, <1>6 DEF Account!DealNext, D

LEMMA AccountReserve ==
  ASSUME Money, Rows, NEW r \in Requests, NEW at \in 1 .. clock, NEW amount \in Nat,
         Reserve(r, at, amount), LedgerTypeOK'
  PROVE  Account!DealNext(r)
<1> DEFINE k == CurrentKey(at)
           p == PeriodRow(k, group)
           q == [p EXCEPT !.reserved = @ + amount]
           e == [NewEntry EXCEPT !.status = "RESERVED", !.period = k, !.startedAt = at,
                                 !.reserved = amount, !.lease = clock + LeaseTicks]
<1>1. at \in Instants
  BY LedgerAssumption DEF Money, LedgerTypeOK, Instants
<1>2. k \in PeriodKeys
  BY <1>1, KeyType DEF CurrentKey, Money, LedgerTypeOK, Group
<1>3. p \in Period /\ p.exists
  BY <1>2, PeriodRowType DEF Money, LedgerTypeOK
<1>4. /\ HasFunds(p, amount) /\ entry[r].status = "NONE" /\ group' = group
      /\ period' = [period EXCEPT ![k] = Alerted(q)]
      /\ entry' = [entry EXCEPT ![r] = e]
  BY DEF Reserve
<1>5. /\ e.status = "RESERVED" /\ e.period = k /\ e.reserved = amount
      /\ e.settled = 0 /\ ~e.dispatched /\ ~e.held /\ ~e.manualFinal
  BY DEF NewEntry
<1> HIDE DEF k, p, e
<1>6. entry'[r] = e /\ e \in Entry
  BY <1>4 DEF Money, LedgerTypeOK
<1>7. q \in Period /\ q.exists /\ q.limit = p.limit /\ q.unlimited = p.unlimited
  <2>1. p.reserved + amount \in Nat \/ p.reserved + amount \in Int
    BY <1>3 DEF Period
  <2> QED BY <1>3, <2>1 DEF Period
<1> HIDE DEF q
<1>8. \A j \in PeriodKeys : LimitOf(j)' = LimitOf(j)
  BY <1>2, <1>4, <1>7, AlertedLimit, LimitsKept DEF p, Money
<1>9. Account!Covers(k, amount)
  BY <1>2, <1>4, AccountCovers DEF p
<1>10. DealOf(entry[r]).state = "NONE"
  BY <1>4, DealType, RowTypes DEF Money, Account!NoDeal
<1>11. Account!Promise(r, DealOf(e))
  <2>1. ~Account!Made(r)
    BY <1>10 DEF Account!Made
  <2>2. /\ DealOf(e).state = "OPEN" /\ DealOf(e).paid = 0 /\ ~DealOf(e).sent
        /\ ~DealOf(e).corrected /\ DealOf(e).account = k /\ DealOf(e).promised = amount
    BY <1>5, DealFields
  <2> QED BY <1>9, <2>1, <2>2 DEF Account!Promise
<1> QED BY <1>4, <1>5, <1>6, <1>8, <1>11, OneDeal DEF Money

\* A call about a request that exists: its entry becomes e, in the same period,
\* whose limit stays.
LEMMA NextDeal ==
  ASSUME Money, LedgerTypeOK', NEW r \in Requests, NEW e,
         entry[r].status # "NONE", e.status # "NONE", e.period = entry[r].period,
         entry' = [entry EXCEPT ![r] = e], group' = group,
         \/ period' = period
         \/ \E q \in Period :
              /\ period' = [period EXCEPT ![e.period] = q]
              /\ q.exists /\ q.limit = period[e.period].limit
              /\ q.unlimited = period[e.period].unlimited,
         \/ Account!PromiseMore(r, DealOf(e))
         \/ Account!Send(r, DealOf(e)) \/ Account!Hold(r, DealOf(e))
         \/ Account!Settle(r, DealOf(e)) \/ Account!Return(r, DealOf(e))
         \/ Account!Correct(r, DealOf(e))
  PROVE  Account!DealNext(r)
<1>1. entry'[r] = e /\ e \in Entry
  BY DEF Money, LedgerTypeOK
<1>2. e.period \in PeriodKeys /\ PeriodRow(e.period, group) = period[e.period]
  BY RowTypes DEF Money, PeriodsOpened, PeriodRow
<1>3. \A k \in PeriodKeys : LimitOf(k)' = LimitOf(k)
  <2>1. CASE period' = period
    BY <2>1 DEF LimitOf, PeriodRow
  <2>2. CASE period' # period
    <3>1. PICK q \in Period :
            /\ period' = [period EXCEPT ![e.period] = q]
            /\ q.exists /\ q.limit = period[e.period].limit
            /\ q.unlimited = period[e.period].unlimited
      BY <2>2
    <3>2. q.limit = PeriodRow(e.period, group).limit
      BY <1>2, <3>1
    <3>3. q.unlimited = PeriodRow(e.period, group).unlimited
      BY <1>2, <3>1
    <3> QED BY <1>2, <3>1, <3>2, <3>3, LimitsKept DEF Money
  <2> QED BY <2>1, <2>2
<1> QED BY <1>1, <1>3, OneDeal DEF Money

LEMMA AccountExtend ==
  ASSUME Money, LedgerTypeOK', NEW r \in Requests, NEW attempt, NEW amount \in Nat,
         Extend(r, attempt, amount)
  PROVE  Account!DealNext(r)
<1> DEFINE k == entry[r].period
           p == period[k]
           q == [p EXCEPT !.reserved = @ + amount]
           e == [entry[r] EXCEPT !.reserved = @ + amount,
                                 !.extensions = @ \cup {attempt}]
<1>1. entry[r] \in Entry /\ k \in PeriodKeys /\ p \in Period
  BY RowTypes DEF Money
<1>2. /\ HasFunds(p, amount) /\ Open(r) /\ group' = group
      /\ period' = [period EXCEPT ![k] = Alerted(q)]
      /\ entry' = [entry EXCEPT ![r] = e]
  BY DEF Extend
<1>3. /\ e.status = entry[r].status /\ e.period = k
      /\ e.reserved = entry[r].reserved + amount
      /\ e.settled = entry[r].settled /\ e.dispatched = entry[r].dispatched
      /\ e.held = entry[r].held /\ e.manualFinal = entry[r].manualFinal
  BY <1>1 DEF Entry
<1>4. p.exists /\ p = PeriodRow(k, group)
  BY <1>2 DEF Open, Money, PeriodsOpened, PeriodRow
<1> HIDE DEF k, p, e
<1>5. Alerted(q) \in Period /\ Alerted(q).exists
      /\ Alerted(q).limit = p.limit /\ Alerted(q).unlimited = p.unlimited
  <2>1. q \in Period /\ q.exists /\ q.limit = p.limit /\ q.unlimited = p.unlimited
    <3>1. p.reserved + amount \in Int
      BY <1>1 DEF Period
    <3> QED BY <1>1, <1>4, <3>1 DEF Period
  <2> HIDE DEF q
  <2> QED BY <2>1, AlertedLimit, AlertedType
<1>6. entry'[r] = e /\ e \in Entry
  BY <1>2 DEF Money, LedgerTypeOK
<1>7. Account!Covers(k, amount)
  BY <1>1, <1>2, <1>4, AccountCovers
<1>8. Account!PromiseMore(r, DealOf(e))
  <2> DEFINE c == DealOf(entry[r])
             d == DealOf(e)
  <2>1. c \in Account!Deal /\ d \in Account!Deal
    BY <1>1, <1>2, <1>3, <1>6, DealType DEF Open
  <2>2. /\ d.state = c.state /\ c.state \in {"OPEN", "HELD"}
        /\ d.account = k /\ c.account = k /\ d.paid = c.paid /\ d.sent = c.sent
        /\ d.corrected = c.corrected /\ c.promised = entry[r].reserved
        /\ d.promised = c.promised + amount
    BY <1>2, <1>3, DealFields DEF Open, k
  <2> HIDE DEF c, d
  <2>3. d.promised \in Nat /\ c.promised \in Nat /\ d.promised - c.promised = amount
    BY <2>1, <2>2 DEF Account!Deal
  <2>4. d = [c EXCEPT !.promised = d.promised]
    BY <2>1, <2>2 DEF Account!Deal
  <2>5. d.promised >= c.promised
    BY <2>2, <2>3
  <2> QED BY <1>7, <2>2, <2>3, <2>4, <2>5 DEF Account!PromiseMore, Account!Running, c, d
<1> QED BY <1>2, <1>3, <1>5, <1>8, NextDeal DEF Open, k, p

LEMMA AccountSettle ==
  ASSUME Money, Rows, LedgerTypeOK', NEW r \in Requests, NEW amount \in Nat,
         Settle(r, amount)
  PROVE  Account!DealNext(r)
<1> DEFINE k == entry[r].period
           p == period[k]
           q == SettledPeriod(p, entry[r], amount)
           e == [entry[r] EXCEPT !.status = "SETTLED", !.settled = amount,
                                 !.lease = NoLease]
<1>1. entry[r] \in Entry /\ k \in PeriodKeys /\ p \in Period
  BY RowTypes DEF Money
<1>2. /\ Open(r) /\ group' = group
      /\ period' = [period EXCEPT ![k] = Alerted(q)]
      /\ entry' = [entry EXCEPT ![r] = e]
  BY DEF Settle
<1>3. /\ e.status = "SETTLED" /\ e.period = k /\ e.settled = amount
      /\ e.dispatched = entry[r].dispatched /\ e.manualFinal = entry[r].manualFinal
  BY <1>1 DEF Entry
<1>4. p.exists
  BY <1>2 DEF Open, Money, PeriodsOpened
<1>5. entry[r].settled \in Nat /\ entry[r].reserved \in Nat
  BY <1>1 DEF Entry
<1> HIDE DEF k, p, e
<1>6. /\ Alerted(q) \in Period /\ Alerted(q).exists
      /\ Alerted(q).limit = p.limit /\ Alerted(q).unlimited = p.unlimited
  <2>1. q \in Period
    BY <1>1, <1>5, PostingType DEF SettledPeriod
  <2>2. q.exists /\ q.limit = p.limit /\ q.unlimited = p.unlimited
    BY <1>1, <1>4 DEF SettledPeriod, Period
  <2> HIDE DEF q
  <2> QED BY <2>1, <2>2, AlertedLimit, AlertedType
<1>7. entry'[r] = e /\ e \in Entry
  BY <1>2 DEF Money, LedgerTypeOK
<1>8. Account!Settle(r, DealOf(e))
  <2> DEFINE c == DealOf(entry[r])
             d == DealOf(e)
  <2>1. c \in Account!Deal /\ d \in Account!Deal
    BY <1>1, <1>2, <1>3, <1>7, DealType DEF Open
  <2>2. /\ c.state \in {"OPEN", "HELD"} /\ d.state = "SETTLED" /\ d.promised = 0
        /\ d.account = c.account /\ d.sent = c.sent /\ d.corrected = c.corrected
    BY <1>2, <1>3, DealFields DEF Open, k
  <2> HIDE DEF c, d
  <2>3. d = [c EXCEPT !.state = "SETTLED", !.paid = d.paid, !.promised = 0]
    BY <2>1, <2>2 DEF Account!Deal
  <2> QED BY <2>2, <2>3 DEF Account!Settle, Account!Running, c, d
<1> HIDE DEF q
<1> QED BY <1>2, <1>3, <1>6, <1>8, NextDeal DEF Open, k, p

LEMMA AccountHold ==
  ASSUME Money, Rows, LedgerTypeOK', NEW r \in Requests, NEW actual \in Nat,
         NEW unresolved \in Nat, Hold(r, actual, unresolved)
  PROVE  Account!DealNext(r)
<1> DEFINE k == entry[r].period
           p == period[k]
           q == [p EXCEPT !.spent = @ + actual,
                          !.reserved = @ + unresolved - entry[r].reserved]
           e == [entry[r] EXCEPT !.status = "RECONCILIATION_REQUIRED",
                                 !.settled = actual, !.reserved = unresolved,
                                 !.lease = NoLease, !.held = TRUE]
<1>1. entry[r] \in Entry /\ k \in PeriodKeys /\ p \in Period
  BY RowTypes DEF Money
<1>2. /\ Open(r) /\ ~entry[r].held /\ group' = group
      /\ period' = [period EXCEPT ![k] = Alerted(q)]
      /\ entry' = [entry EXCEPT ![r] = e]
  BY DEF Hold
<1>3. /\ e.status = "RECONCILIATION_REQUIRED" /\ e.period = k /\ e.held
      /\ e.dispatched = entry[r].dispatched /\ e.manualFinal = entry[r].manualFinal
  BY <1>1 DEF Entry
<1>4. p.exists
  BY <1>2 DEF Open, Money, PeriodsOpened
<1>5. entry[r].reserved \in Nat
  BY <1>1 DEF Entry
<1> HIDE DEF k, p, e
<1>6. /\ Alerted(q) \in Period /\ Alerted(q).exists
      /\ Alerted(q).limit = p.limit /\ Alerted(q).unlimited = p.unlimited
  <2>1. q \in Period
    BY <1>1, <1>5, PostingType
  <2>2. q.exists /\ q.limit = p.limit /\ q.unlimited = p.unlimited
    BY <1>1, <1>4 DEF Period
  <2> HIDE DEF q
  <2> QED BY <2>1, <2>2, AlertedLimit, AlertedType
<1>7. entry'[r] = e /\ e \in Entry
  BY <1>2 DEF Money, LedgerTypeOK
<1>8. Account!Hold(r, DealOf(e))
  <2> DEFINE c == DealOf(entry[r])
             d == DealOf(e)
  <2>1. c \in Account!Deal /\ d \in Account!Deal
    BY <1>1, <1>2, <1>3, <1>7, DealType DEF Open
  <2>2. /\ c.state = "OPEN" /\ d.state = "HELD"
        /\ d.account = c.account /\ d.sent = c.sent /\ d.corrected = c.corrected
    BY <1>2, <1>3, DealFields DEF Open, k
  <2> HIDE DEF c, d
  <2>3. d = [c EXCEPT !.state = "HELD", !.paid = d.paid, !.promised = d.promised]
    BY <2>1, <2>2 DEF Account!Deal
  <2> QED BY <2>2, <2>3 DEF Account!Hold, c, d
<1> HIDE DEF q
<1> QED BY <1>2, <1>3, <1>6, <1>8, NextDeal DEF Open, k, p

LEMMA AccountReleaseEntry ==
  ASSUME Money, Rows, LedgerTypeOK', NEW r \in Requests,
         entry[r].status = "RESERVED", ~entry[r].dispatched, ReleaseEntry(r)
  PROVE  Account!DealNext(r)
<1> DEFINE k == entry[r].period
           p == period[k]
           q == [p EXCEPT !.reserved = @ - entry[r].reserved]
           e == [entry[r] EXCEPT !.status = "RELEASED", !.lease = NoLease]
<1>1. entry[r] \in Entry /\ k \in PeriodKeys /\ p \in Period
  BY RowTypes DEF Money
<1>2. /\ group' = group /\ period' = [period EXCEPT ![k] = q]
      /\ entry' = [entry EXCEPT ![r] = e]
  BY DEF ReleaseEntry
<1>3. /\ e.status = "RELEASED" /\ e.period = k /\ e.settled = entry[r].settled
      /\ e.dispatched = entry[r].dispatched /\ e.manualFinal = entry[r].manualFinal
      /\ ~entry[r].held
  BY <1>1 DEF Entry, Rows, Row
<1>4. p.exists
  BY DEF Money, PeriodsOpened
<1>5. entry[r].reserved \in Nat
  BY <1>1 DEF Entry
<1> HIDE DEF k, p, e
<1>6. q \in Period /\ q.exists /\ q.limit = p.limit /\ q.unlimited = p.unlimited
  <2>1. q \in Period
    BY <1>1, <1>5, PostingType
  <2> QED BY <1>1, <1>4, <2>1 DEF Period
<1>7. entry'[r] = e /\ e \in Entry
  BY <1>2 DEF Money, LedgerTypeOK
<1>8. Account!Return(r, DealOf(e))
  <2> DEFINE c == DealOf(entry[r])
             d == DealOf(e)
  <2>1. c \in Account!Deal /\ d \in Account!Deal
    BY <1>1, <1>3, <1>7, DealType
  <2>2. /\ c.state = "OPEN" /\ ~c.sent /\ d.state = "RETURNED" /\ d.promised = 0
        /\ d.account = c.account /\ d.paid = c.paid /\ d.sent = c.sent
        /\ d.corrected = c.corrected
    BY <1>3, DealFields DEF k
  <2> HIDE DEF c, d
  <2>3. d = [c EXCEPT !.state = "RETURNED", !.promised = 0]
    BY <2>1, <2>2 DEF Account!Deal
  <2> QED BY <2>2, <2>3 DEF Account!Return, c, d
<1> HIDE DEF q
<1> QED BY <1>2, <1>3, <1>6, <1>8, NextDeal DEF k, p

LEMMA AccountReconcile ==
  ASSUME Money, Rows, LedgerTypeOK', NEW r \in Requests, NEW o,
         NEW action \in {"SETTLE", "RELEASE"}, NEW amount \in Nat,
         Reconcile(r, o, action, amount)
  PROVE  Account!DealNext(r)
<1> DEFINE k == entry[r].period
           p == period[k]
           q == ReconciledPeriod(p, entry[r], amount)
           s == IF action = "RELEASE" THEN "RELEASED" ELSE "SETTLED"
           e == [entry[r] EXCEPT !.status = IF action = "RELEASE" THEN "RELEASED"
                                            ELSE "SETTLED",
                                 !.settled = amount, !.lease = NoLease,
                                 !.manualFinal = TRUE]
<1>1. entry[r] \in Entry /\ k \in PeriodKeys /\ p \in Period
  BY RowTypes DEF Money
<1>2. /\ entry[r].status \in {"SETTLED", "RECONCILIATION_REQUIRED"} /\ group' = group
      /\ period' = [period EXCEPT ![k] = Alerted(q)]
      /\ entry' = [entry EXCEPT ![r] = e]
      /\ action = "RELEASE" => amount = 0
  BY DEF Reconcile
<1>3. /\ e.status = s /\ e.period = k /\ e.settled = amount
      /\ e.dispatched = entry[r].dispatched /\ e.manualFinal
  BY <1>1 DEF Entry
<1>4. p.exists
  BY <1>2 DEF Money, PeriodsOpened
<1>5. entry[r].settled \in Nat /\ entry[r].reserved \in Nat
  BY <1>1 DEF Entry
<1> HIDE DEF k, p, e
<1>6. /\ Alerted(q) \in Period /\ Alerted(q).exists
      /\ Alerted(q).limit = p.limit /\ Alerted(q).unlimited = p.unlimited
  <2>1. q \in Period
    <3>1. /\ p.spent + amount - entry[r].settled \in Int
          /\ p.reserved \in Int /\ p.reserved - entry[r].reserved \in Int
      BY <1>1, <1>5 DEF Period
    <3> QED BY <1>1, <3>1 DEF ReconciledPeriod, Period
  <2>2. q.exists /\ q.limit = p.limit /\ q.unlimited = p.unlimited
    BY <1>1, <1>4 DEF ReconciledPeriod, Period
  <2> HIDE DEF q
  <2> QED BY <2>1, <2>2, AlertedLimit, AlertedType
<1>7. entry'[r] = e /\ e \in Entry
  BY <1>2 DEF Money, LedgerTypeOK
<1>8. Account!Correct(r, DealOf(e))
  <2> DEFINE c == DealOf(entry[r])
             d == DealOf(e)
  <2>1. c \in Account!Deal /\ d \in Account!Deal /\ c.state # "NONE"
    BY <1>1, <1>2, <1>3, <1>7, DealType
  <2>2. /\ c.state # "RETURNED" /\ d.state \in {"SETTLED", "RETURNED"}
        /\ d.promised = 0 /\ d.account = c.account /\ d.sent = c.sent /\ d.corrected
        /\ d.state = "RETURNED" => d.paid = 0
    BY <1>2, <1>3, DealFields DEF k
  <2> HIDE DEF c, d
  <2>3. d = [c EXCEPT !.state = d.state, !.paid = d.paid, !.promised = 0,
                      !.corrected = TRUE]
    BY <2>1, <2>2 DEF Account!Deal
  <2> QED BY <2>1, <2>2, <2>3 DEF Account!Correct, Account!Made, c, d
<1> HIDE DEF q
<1> QED BY <1>2, <1>3, <1>6, <1>8, NextDeal DEF k, p

\* Calls that the account does not see, or sees as a request being sent.
LEMMA AccountMarkDispatched ==
  ASSUME Money, LedgerTypeOK', NEW r \in Requests,
         MarkDispatched(r, clock + LeaseTicks)
  PROVE  Account!DealNext(r)
<1> DEFINE e == [entry[r] EXCEPT !.dispatched = TRUE, !.lease = clock + LeaseTicks]
<1>1. entry[r] \in Entry
  BY RowTypes DEF Money
<1>2. /\ entry[r].status = "RESERVED" /\ group' = group /\ period' = period
      /\ entry' = [entry EXCEPT ![r] = e]
  BY DEF MarkDispatched
<1>3. /\ e.status = "RESERVED" /\ e.period = entry[r].period /\ e.dispatched
      /\ e.reserved = entry[r].reserved /\ e.settled = entry[r].settled
      /\ e.held = entry[r].held /\ e.manualFinal = entry[r].manualFinal
  BY <1>1, <1>2 DEF Entry
<1> HIDE DEF e
<1>4. entry'[r] = e /\ e \in Entry
  BY <1>2 DEF Money, LedgerTypeOK
<1>5. Account!Send(r, DealOf(e))
  <2> DEFINE c == DealOf(entry[r])
             d == DealOf(e)
  <2>1. c \in Account!Deal /\ d \in Account!Deal
    BY <1>1, <1>2, <1>3, <1>4, DealType
  <2>2. /\ c.state \in {"OPEN", "HELD"} /\ d.state = c.state
        /\ d.account = c.account /\ d.promised = c.promised /\ d.paid = c.paid
        /\ d.sent /\ d.corrected = c.corrected
    BY <1>2, <1>3, DealFields
  <2> HIDE DEF c, d
  <2>3. d = [c EXCEPT !.sent = TRUE]
    BY <2>1, <2>2 DEF Account!Deal
  <2> QED BY <2>2, <2>3 DEF Account!Send, Account!Running, c, d
<1> QED BY <1>2, <1>3, <1>5, NextDeal

LEMMA AccountSame ==
  ASSUME UNCHANGED <<group, period>>, \A r \in Requests : DealOf(entry[r])' = DealOf(entry[r])
  PROVE  UNCHANGED Account!accountVars
BY DEF Account!accountVars, LimitOf, PeriodRow

LEMMA AccountUncertain ==
  ASSUME Money, NEW r \in Requests, Open(r), Uncertain(r)
  PROVE  UNCHANGED Account!accountVars
<1> DEFINE e == [entry[r] EXCEPT !.status = "RECONCILIATION_REQUIRED",
                                 !.lease = NoLease]
<1>1. entry[r] \in Entry
  BY RowTypes DEF Money
<1>2. entry' = [entry EXCEPT ![r] = e] /\ group' = group /\ period' = period
  BY DEF Uncertain
<1>3. DealOf(e) = DealOf(entry[r])
  BY <1>1 DEF Open, DealOf, Entry
<1> HIDE DEF e
<1>4. \A x \in Requests : entry'[x] = IF x = r THEN e ELSE entry[x]
  BY <1>2 DEF Money, LedgerTypeOK
<1>5. \A x \in Requests : DealOf(entry'[x]) = DealOf(entry[x])
  BY <1>3, <1>4
<1> QED BY <1>2, <1>5, AccountSame

LEMMA AccountMoves ==
  ASSUME Money, Rows, LedgerTypeOK', NEW r \in Requests, RequestMoves(r)
  PROVE  Account!DealNext(r) \/ UNCHANGED Account!accountVars
<1>1. CASE \E at \in 1 .. clock, amount \in Nat : Reserve(r, at, amount)
  BY <1>1, AccountReserve
<1>2. CASE \E attempt \in Attempts, amount \in Nat : Extend(r, attempt, amount)
  BY <1>2, AccountExtend
<1>3. CASE \E amount \in Nat : Settle(r, amount)
  BY <1>3, AccountSettle
<1>4. CASE \E actual, unresolved \in Nat : Hold(r, actual, unresolved)
  BY <1>4, AccountHold
<1>5. CASE Release(r)
  BY <1>5, AccountReleaseEntry DEF Release
<1>6. CASE MarkDispatched(r, clock + LeaseTicks)
  BY <1>6, AccountMarkDispatched
<1>7. CASE MarkUncertain(r)
  BY <1>7, AccountUncertain DEF MarkUncertain
<1>8. CASE \E now \in Nat : RecoverExpired(r, now)
  BY <1>8, AccountUncertain, AccountReleaseEntry DEF RecoverExpired, Open
<1>9. CASE \E version \in Nat : ConfirmSync(r, version)
  BY <1>9, AccountSame DEF ConfirmSync
<1>10. CASE \E o \in Operations, action \in {"SETTLE", "RELEASE"},
              amount \in Nat : Reconcile(r, o, action, amount)
  BY <1>10, AccountReconcile
<1> QED
  BY <1>1, <1>2, <1>3, <1>4, <1>5, <1>6, <1>7, <1>8, <1>9, <1>10
     DEF RequestMoves

-------------------------------------------------------------------------------
(* The administrators' calls: a limit that changes covers what is used.    *)

LimitCovers(k) ==
  \/ LimitOf(k)' = LimitOf(k)
  \/ LimitOf(k)'.unlimited
  \/ period[k].spent + period[k].reserved <= LimitOf(k)'.amount

LEMMA LimitMoves ==
  ASSUME Money, LedgerTypeOK', entry' = entry, \A k \in PeriodKeys : LimitCovers(k)
  PROVE  Account!LimitsNext
<1> DEFINE L == [k \in PeriodKeys |-> LimitOf(k)]
<1>1. \A k \in PeriodKeys : LimitOf(k)' \in Account!Limit
  BY DEF LedgerTypeOK, LimitOf, PeriodRow, Period, Group, Account!Limit
<1>2. L' \in [PeriodKeys -> Account!Limit]
  BY <1>1
<1>3. \A k \in PeriodKeys :
        L'[k] # L[k] => L'[k].unlimited \/ Account!Used(k) <= L'[k].amount
  BY AccountUses DEF LimitCovers
<1> QED BY <1>2, <1>3 DEF Account!LimitsNext

LEMMA LimitsOfSet ==
  ASSUME Money, NEW o, NEW k \in PeriodKeys, NEW limit \in Limits,
         NEW unlimited \in BOOLEAN, SetLimit(o, k, limit, unlimited)
  PROVE  \A j \in PeriodKeys : LimitCovers(j)
<1> DEFINE p == PeriodRow(k, group)
           q == [p EXCEPT !.limit = limit, !.unlimited = unlimited]
<1>1. limit \in Nat /\ p \in Period /\ p.exists
  BY LedgerAssumption, PeriodRowType DEF Money, LedgerTypeOK
<1>2. /\ LimitFits(p, limit, unlimited) /\ group' = group
      /\ period' = [period EXCEPT ![k] = Alerted(q)]
  BY DEF SetLimit
<1>3. p.spent = period[k].spent /\ p.reserved = period[k].reserved
  BY OpeningKeepsTotals
<1> HIDE DEF p
<1>4. q \in Period /\ q.exists /\ q.limit = limit /\ q.unlimited = unlimited
  BY <1>1 DEF Period
<1> DEFINE a == Alerted(q)
<1>5. a.exists /\ a.limit = limit /\ a.unlimited = unlimited
  BY <1>4, AlertedLimit
<1> HIDE DEF q, a
<1>6. \A j \in PeriodKeys : period'[j] = IF j = k THEN a ELSE period[j]
  BY <1>2 DEF Money, LedgerTypeOK, a
<1>7. \A j \in PeriodKeys : j # k => LimitOf(j)' = LimitOf(j)
  BY <1>2, <1>6 DEF LimitOf, PeriodRow
<1>8. LimitOf(k)'.amount = limit /\ LimitOf(k)'.unlimited = unlimited
  BY <1>5, <1>6 DEF LimitOf, PeriodRow
<1> QED BY <1>2, <1>3, <1>7, <1>8 DEF LimitCovers, LimitFits, p

\* A period that is not open yet has used nothing: any default covers it.
LEMMA LimitsOfDefault ==
  ASSUME Money, LedgerTypeOK', NEW o, NEW limit, NEW unlimited,
         AdjustDefault(o, limit, unlimited)
  PROVE  \A j \in PeriodKeys : LimitCovers(j)
<1>1. CurrentKey(clock) \in PeriodKeys
  BY CurrentKeyType DEF Money
<1> PICK k \in PeriodKeys : k = CurrentKey(clock)
  BY <1>1
<1>2. period' = [period EXCEPT ![k] = PeriodRow(k, group)]
  BY DEF AdjustDefault
<1>3. \A j \in PeriodKeys : period'[j] = IF j = k THEN PeriodRow(k, group) ELSE period[j]
  BY <1>2 DEF Money, LedgerTypeOK
<1>4. \A j \in PeriodKeys : period[j].exists => LimitOf(j)' = LimitOf(j)
  BY <1>3 DEF LimitOf, PeriodRow
<1>5. LimitOf(k)' = LimitOf(k)
  BY <1>3 DEF LimitOf, PeriodRow
<1>6. \A j \in PeriodKeys : j # k /\ ~period[j].exists =>
        period[j].spent + period[j].reserved <= LimitOf(j)'.amount
  <2> SUFFICES ASSUME NEW j \in PeriodKeys, j # k, ~period[j].exists
               PROVE  period[j].spent + period[j].reserved <= LimitOf(j)'.amount
    OBVIOUS
  <2>1. period[j].spent = 0 /\ period[j].reserved = 0
    BY DEF Money, PeriodsOpened
  <2>2. LimitOf(j)'.amount \in Nat
    BY DEF LedgerTypeOK, LimitOf, PeriodRow, Period, Group
  <2> QED BY <2>1, <2>2
<1> QED BY <1>4, <1>5, <1>6 DEF LimitCovers

\* configure opens two periods, with the limits they would have had.
LEMMA LimitsOfConfigure ==
  ASSUME Money, NEW o, NEW mode \in {"TOTAL", "MONTHLY"}, NEW tz \in Timezones,
         Configure(o, mode, tz)
  PROVE  \A j \in PeriodKeys : LimitOf(j)' = LimitOf(j)
<1> DEFINE now     == CurrentKey(clock)
           target  == PeriodKey(mode, tz, clock)
           changed == [group EXCEPT !.mode = mode, !.timezone = tz]
           first   == PeriodRow(now, group)
           opened  == [period EXCEPT ![now] = first]
           fresh   == PeriodRow(target, changed)
           row     == IF opened[target].exists THEN opened[target] ELSE fresh
           q       == [row EXCEPT !.timezone = tz]
<1>1. period' = [opened EXCEPT ![target] = q] /\ group' = changed
  BY DEF Configure
<1>2. now \in PeriodKeys /\ target \in PeriodKeys /\ group \in Group
  BY CurrentKeyType, KeyType DEF Money, LedgerTypeOK
<1>3. /\ changed \in Group /\ changed.limit = group.limit
      /\ changed.unlimited = group.unlimited
  BY <1>2 DEF Group
<1>4. period \in [PeriodKeys -> Period]
  BY DEF Money, LedgerTypeOK
<1> HIDE DEF now, target, changed
<1>5. first \in Period /\ first.exists /\ fresh \in Period /\ fresh.exists
  BY <1>2, <1>3, <1>4, PeriodRowType
<1>6. /\ first.limit = IF period[now].exists THEN period[now].limit ELSE group.limit
      /\ first.unlimited = IF period[now].exists THEN period[now].unlimited
                           ELSE group.unlimited
      /\ ~period[target].exists =>
           fresh.limit = group.limit /\ fresh.unlimited = group.unlimited
  BY <1>3 DEF PeriodRow
<1> HIDE DEF first, fresh
<1>7. \A j \in PeriodKeys : opened[j] = IF j = now THEN first ELSE period[j]
  BY <1>4
<1>8. opened \in [PeriodKeys -> Period]
  BY <1>2, <1>4, <1>5
<1> HIDE DEF opened
<1>9. row \in Period /\ row.exists
  BY <1>2, <1>5, <1>8
<1>10. /\ row.limit = IF period[target].exists THEN period[target].limit ELSE group.limit
       /\ row.unlimited = IF period[target].exists THEN period[target].unlimited
                          ELSE group.unlimited
  BY <1>2, <1>5, <1>6, <1>7
<1> HIDE DEF row
<1>11. q.exists /\ q.limit = row.limit /\ q.unlimited = row.unlimited
  BY <1>9 DEF Period
<1> HIDE DEF q
<1>12. \A j \in PeriodKeys : period'[j] = IF j = target THEN q ELSE opened[j]
  BY <1>1, <1>8
<1>13. \A j \in PeriodKeys :
         /\ PeriodRow(j, group)'.limit = PeriodRow(j, group).limit
         /\ PeriodRow(j, group)'.unlimited = PeriodRow(j, group).unlimited
  BY <1>1, <1>3, <1>5, <1>6, <1>7, <1>10, <1>11, <1>12 DEF PeriodRow
<1> QED BY <1>13 DEF LimitOf

LEMMA AccountAdmin ==
  ASSUME Money, Rows, LedgerTypeOK', AdminNext
  PROVE  [Account!AccountNext]_(Account!accountVars)
<1> DEFINE Goal == [Account!AccountNext]_(Account!accountVars)
<1>1. ASSUME entry' = entry, \A j \in PeriodKeys : LimitCovers(j)
      PROVE  Goal
  BY <1>1, LimitMoves DEF Account!AccountNext
<1>2. ASSUME NEW o \in Operations, NEW r \in Requests, NEW action \in {"SETTLE", "RELEASE"},
             NEW amount \in Amounts, Reconcile(r, o, action, amount)
      PROVE  Goal
  BY <1>2, AccountReconcile, LedgerAssumption DEF Account!AccountNext
<1> HIDE DEF Goal
<1>3. ASSUME NEW o, NEW k \in PeriodKeys, NEW limit \in Limits, NEW unlimited \in BOOLEAN,
             SetLimit(o, k, limit, unlimited)
      PROVE  Goal
  BY <1>1, <1>3, LimitsOfSet DEF SetLimit
<1>4. ASSUME NEW o, NEW limit, NEW unlimited, AdjustDefault(o, limit, unlimited)
      PROVE  Goal
  BY <1>1, <1>4, LimitsOfDefault DEF AdjustDefault
<1>5. ASSUME NEW o, NEW mode \in {"TOTAL", "MONTHLY"}, NEW tz \in Timezones,
             Configure(o, mode, tz)
      PROVE  Goal
  <2>1. entry' = entry /\ \A j \in PeriodKeys : LimitOf(j)' = LimitOf(j)
    BY <1>5, LimitsOfConfigure DEF Configure
  <2> QED BY <1>1, <2>1 DEF LimitCovers
<1>6. ASSUME UNCHANGED <<group, period, entry>>
      PROVE  Goal
  <2>1. UNCHANGED Account!accountVars
    BY <1>6, AccountSame
  <2> QED BY <2>1 DEF Goal
<1>7. ASSUME Archive
      PROVE  Goal
  <2>1. /\ entry' = entry /\ period' = period /\ group'.limit = group.limit
        /\ group'.unlimited = group.unlimited
    BY <1>7 DEF Archive, Money, LedgerTypeOK, Group
  <2>2. \A j \in PeriodKeys : LimitOf(j)' = LimitOf(j)
    BY <2>1 DEF LimitOf, PeriodRow
  <2> QED BY <1>1, <2>1, <2>2 DEF LimitCovers
<1>8. ASSUME NEW a, CheckApplication(a) \/ SubmitApplication(a) \/ RejectApplication(a)
      PROVE  Goal
  BY <1>6, <1>8 DEF CheckApplication, SubmitApplication, RejectApplication, Mark
<1>9. \A o, k, limit, unlimited :
        /\ AdjustCurrent(o, k, limit, unlimited) => SetLimit(o, k, limit, unlimited)
        /\ \A a : ApproveApplication(o, a, k, limit, unlimited)
                    => SetLimit(o, k, limit, unlimited)
  BY DEF AdjustCurrent, ApproveApplication
<1>10. Goal
  BY <1>2, <1>3, <1>4, <1>5, <1>7, <1>8, <1>9, Zenon DEF AdminNext
<1> QED BY <1>10 DEF Goal

LEMMA AccountStep ==
  ASSUME Money, Rows, [LedgerNext]_ledgerVars
  PROVE  [Account!AccountNext]_(Account!accountVars)
<1>1. LedgerTypeOK'
  BY TypeStep DEF Money
<1>2. CASE RequestNext
  BY <1>1, <1>2, RequestNextMoves, AccountMoves DEF Account!AccountNext, Money
<1>3. CASE AdminNext
  BY <1>1, <1>3, AccountAdmin
<1>4. CASE Tick
  BY <1>4, AccountSame DEF Tick
<1>5. CASE UNCHANGED ledgerVars
  BY <1>5, AccountSame DEF ledgerVars
<1> QED BY <1>2, <1>3, <1>4, <1>5 DEF LedgerNext

LEMMA AccountStarts ==
  ASSUME LedgerInit
  PROVE  Account!AccountInit
<1>1. LedgerTypeOK
  BY TypeInit
<1>2. \A r \in Requests : DealOf(entry[r]) = Account!NoDeal
  BY DEF LedgerInit, NewEntry, DealOf, Account!NoDeal
<1>3. \A k \in PeriodKeys : LimitOf(k) \in Account!Limit
  BY <1>1 DEF LedgerTypeOK, LimitOf, PeriodRow, Period, Group, Account!Limit
<1> QED BY <1>2, <1>3 DEF Account!AccountInit

\* The ledger of a group implements a budget account, for every number of
\* requests and every amount: group-budget.service.ts promises nothing that the
\* limit does not cover, gives back nothing that was sent, and changes what is
\* final by hand only.
THEOREM AccountKept == LedgerSpec => AccountImplemented
<1>1. LedgerInit => Account!AccountInit
  BY AccountStarts
<1>2. Money /\ Rows /\ [LedgerNext]_ledgerVars => [Account!AccountNext]_(Account!accountVars)
  BY AccountStep
<1> QED BY <1>1, <1>2, MoneyAlways, PTL DEF LedgerSpec, AccountImplemented, Account!AccountSpec
===============================================================================
