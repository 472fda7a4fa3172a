----------------------------- MODULE RequestProofs -----------------------------
(***************************************************************************)
(* The budgeted request from end to end, for any requests, policies,       *)
(* attempts, corrections and failures: ledger, quota, handler and worker   *)
(* agree in every interleaving.  The laws of the ledger and of the Redis   *)
(* quota are carried over to the composition.                              *)
(***************************************************************************)
EXTENDS BudgetedRequest, BudgetLedgerProofs

\* The laws of the Redis quota, for the amounts and versions used here.
Redis == INSTANCE QuotaProofs WITH
           Legacy <- {}, ConcurrencyLimit <- 0, CostLimit <- 0,
           MaxVersion <- Cardinality(Operations), Amounts <- Nat

LEMMA RedisParameters == Redis!QuotaAssumption /\ Cardinality(Operations) \in Nat
<1>1. Cardinality(Operations) \in Nat
  BY FS_CardinalityType, RequestAssumption
<1>2. Redis!IsFiniteSet(Requests)
  BY LedgerAssumption DEF IsFiniteSet, Redis!IsFiniteSet
<1> QED
  BY <1>1, <1>2, RequestAssumption
     DEF Redis!QuotaAssumption, Quota!NoGeneration, Redis!NoGeneration

-------------------------------------------------------------------------------
(* The inductive invariant.                                                *)

Closed(r) == entry[r].status \in {"SETTLED", "RELEASED"}

Types ==
  /\ LedgerTypeOK
  /\ Redis!QuotaTypes
  /\ gateway \in [Requests -> Gateway]
  /\ session \in [Processes -> [Requests -> Session]]
  /\ orphan \in [Requests -> SUBSET Policies]
  /\ faults \in 0 .. MaxFaults

\* What the outbox owes is what the ledger has decided: the first cost until
\* an administrator corrects it, the last correction afterwards.
OutboxOK(r) ==
  LET o == outbox[r] IN
  /\ o.version <= Cardinality(done)
  /\ ~Closed(r) => o.version = 0 /\ o.actual = NoActual
  /\ entry[r].status = "SETTLED" => o.actual # NoActual
  /\ Closed(r) /\ o.version = 0 => FirstCost(o) = entry[r].settled
  /\ o.version > 0 => o.corrected = entry[r].settled

\* A snapshot is of an entry that was closed; it has the entry's first cost,
\* and the policies it is done with record that cost and its correction.
SnapshotOK(s, r) ==
  LET t == session[s][r] IN
  t.active =>
    /\ Closed(r)
    /\ t.actual = outbox[r].actual
    /\ t.version <= outbox[r].version
    /\ t.version = outbox[r].version => t.corrected = outbox[r].corrected
    /\ \A p \in t.half : t.half = {p}
    /\ \A p \in Policies :
         /\ p \notin t.todo =>
              Quota!Settled(r, p) /\ marker[r][p].actual = FirstCost(t)
         /\ p \notin t.todo /\ p \notin t.half =>
              t.version <= marker[r][p].version
         /\ p \in t.half => p \notin t.todo

\* No marker is ahead of the ledger, and one that is level with it agrees.
MarkerOK(r, p) ==
  LET m == marker[r][p] IN
  /\ m.state # "EXPIRED"
  /\ m.version <= outbox[r].version
  /\ m.version = outbox[r].version /\ m.version > 0 =>
       m.corrected = outbox[r].corrected
  /\ Quota!Settled(r, p) /\ m.version = 0 => m.corrected = m.actual
  /\ ~Quota!Settled(r, p) => m.version = 0

SyncedOK(r) ==
  Closed(r) /\ outbox[r].synced =>
    \A p \in Policies : /\ Quota!Settled(r, p)
                        /\ marker[r][p].corrected = entry[r].settled
                        /\ marker[r][p].version = outbox[r].version

DeliveryOK(r) ==
  /\ OutboxOK(r)
  /\ SyncedOK(r)
  /\ \A s \in Processes : SnapshotOK(s, r)
  /\ \A p \in Policies : MarkerOK(r, p)

Delivery == \A r \in Requests : DeliveryOK(r)

\* The handler reserves quota before its entry exists, and has reserved what it
\* thinks it has, though an orphan scan may have given it back since.
HandlerOK(r) ==
  LET g == gateway[r] IN
  /\ g.stage \in {"READY", "RENEW", "CALLING"} => g.attempts < MaxAttempts
  /\ g.stage = "IDLE" =>
       g.mine = {} /\ \A p \in Policies : marker[r][p].state = "NONE"
  /\ g.stage \in {"IDLE", "QUOTA"} => entry[r].status = "NONE" /\ g.attempts = 0
  /\ g.stage = "QUOTA" =>
       /\ \A p \in Policies :
            IF p \in g.mine THEN ~marker[r][p].released
            ELSE marker[r][p].state = "NONE"
       /\ g.mine = {} \/ r \in renewing
  /\ g.stage = "ROLLBACK" => ~entry[r].dispatched
  /\ g.called => entry[r].dispatched
  /\ entry[r].status = "NONE" =>
       g.stage \in {"IDLE", "QUOTA", "ROLLBACK", "DONE"} /\ ~entry[r].dispatched

\* What a group's request holds while it runs, and while its cost is unknown:
\* once it has an entry, only a marker found before is released as an orphan's.
HoldsOK(r) ==
  LET kept == Policies \ gateway[r].overtaken IN
  /\ entry[r].status # "NONE" => \A p \in kept : p \notin orphan[r]
  /\ /\ gateway[r].stage \in {"READY", "RENEW", "CALLING", "FAILED"}
     /\ entry[r].status = "RESERVED"
     => \A p \in kept : Quota!Reserved(r, p) /\ ~marker[r][p].released
  /\ Open(r) /\ entry[r].dispatched => \A p \in kept : Quota!Reserved(r, p)

Unresolved(g) == g.unknown * Estimate

\* The reservation covers every attempt of unknown cost, and the next attempt
\* once its extension has been made.
CoveredOK(r) ==
  LET g == gateway[r]
      reserved == entry[r].reserved
  IN /\ g.stage \in {"IDLE", "QUOTA", "READY", "RENEW", "CALLING", "FAILED"} =>
          (g.attempts = 0 => g.unknown = 0)
     /\ g.stage \in {"RENEW", "CALLING"} => Unresolved(g) + Estimate <= reserved
     /\ g.stage \in {"READY", "FAILED"} =>
          /\ Unresolved(g) <= reserved
          /\ g.attempts = 0 \/ ~g.charged => Unresolved(g) + Estimate <= reserved
     /\ g.stage = "PERSIST" => Unresolved(g) <= reserved

RequestOK(r) ==
  /\ HandlerOK(r)
  /\ CoveredOK(r)
  /\ LedgerKind = "GROUP" => HoldsOK(r)

Handlers == \A r \in Requests : RequestOK(r)

RequestInv == Types /\ Rows /\ Delivery /\ Handlers

-------------------------------------------------------------------------------
(* Rows, and what a script makes of them.                                  *)

LEMMA RowsOf ==
  ASSUME Types, NEW r \in Requests
  PROVE  /\ entry[r] \in Entry /\ outbox[r] \in Outbox /\ log[r] \in Log
         /\ gateway[r] \in Gateway
         /\ \A s \in Processes : session[s][r] \in Session
         /\ orphan[r] \subseteq Policies
         /\ \A p \in Policies : marker[r][p] \in Redis!Marker
BY DEF Types, LedgerTypeOK, Redis!QuotaTypes

LEMMA MarkerWritten ==
  ASSUME Types, NEW r \in Requests, NEW p \in Policies, NEW m,
         Quota!SetMarker(r, p, m)
  PROVE  \A x \in Requests :
           /\ x # r => marker'[x] = marker[x]
           /\ \A q \in Policies :
                marker'[x][q] = IF x = r /\ q = p THEN m ELSE marker[x][q]
BY DEF Types, Redis!QuotaTypes, Quota!SetMarker

\* The scripts that this composition runs, as steps of the quota.
Script(r, p) ==
  \/ Quota!QuotaReserve(r, p, Estimate)
     /\ (r \in renewing \/ \A q \in Policies : marker[r][q].state = "NONE")
  \/ \E cost \in Nat : Quota!QuotaSettle(r, p, cost)
  \/ Quota!ReleaseConcurrency(r, p)
  \/ Quota!Renew(r, p)
  \/ Quota!FallDue(r, p)
  \/ \E cost \in Nat, version \in 1 .. Cardinality(Operations) :
       Quota!CorrectCost(r, p, cost, version)

QuotaMoves(r) == StopRenewing(r) \/ \E p \in Policies : Script(r, p)

LEMMA ScriptIsStep ==
  ASSUME NEW r \in Requests, NEW p \in Policies, Script(r, p)
  PROVE  Redis!QuotaNext
<1> USE DEF Quota!SetMarker, Redis!SetMarker, Quota!Marked, Redis!Marked,
            Quota!Reserved, Redis!Reserved, Quota!Settled, Redis!Settled,
            Quota!Charged, Redis!Charged, Quota!Freed, Redis!Freed,
            Quota!Frees, Redis!Frees, Quota!Windows, Redis!Windows
<1>1. ASSUME Quota!QuotaReserve(r, p, Estimate),
             r \in renewing \/ \A q \in Policies : marker[r][q].state = "NONE"
      PROVE  Redis!QuotaCalls(r, p)
  <2>1. Redis!QuotaReserve(r, p, Estimate)
    BY <1>1 DEF Quota!QuotaReserve, Redis!QuotaReserve, Quota!Entered,
         Redis!Entered, Quota!QuotaAdmits, Redis!QuotaAdmits,
         Quota!NewMarker, Redis!NewMarker, Quota!NoGeneration,
         Redis!NoGeneration
  <2> QED BY <1>1, <2>1, RequestAssumption DEF Redis!QuotaCalls, Redis!Started
<1>2. ASSUME NEW cost \in Nat, Quota!QuotaSettle(r, p, cost)
      PROVE  Redis!QuotaCalls(r, p)
  <2>1. Redis!QuotaSettle(r, p, cost)
    BY <1>2 DEF Quota!QuotaSettle, Redis!QuotaSettle
  <2> QED BY <2>1 DEF Redis!QuotaCalls
<1>3. ASSUME Quota!ReleaseConcurrency(r, p)
      PROVE  Redis!QuotaCalls(r, p)
  <2>1. Redis!ReleaseConcurrency(r, p)
    BY <1>3 DEF Quota!ReleaseConcurrency, Redis!ReleaseConcurrency
  <2> QED BY <2>1 DEF Redis!QuotaCalls
<1>4. ASSUME Quota!Renew(r, p)
      PROVE  Redis!QuotaCalls(r, p)
  <2>1. Redis!Renew(r, p)
    BY <1>4 DEF Quota!Renew, Redis!Renew
  <2> QED BY <2>1 DEF Redis!QuotaCalls
<1>5. ASSUME Quota!FallDue(r, p)
      PROVE  Redis!QuotaTime
  <2>1. Redis!FallDue(r, p)
    BY <1>5 DEF Quota!FallDue, Redis!FallDue
  <2> QED BY <2>1 DEF Redis!QuotaTime
<1>6. ASSUME NEW cost \in Nat, NEW version \in 1 .. Cardinality(Operations),
             Quota!CorrectCost(r, p, cost, version)
      PROVE  Redis!QuotaCalls(r, p)
  <2>1. Redis!CorrectCost(r, p, cost, version)
    BY <1>6 DEF Quota!CorrectCost, Redis!CorrectCost
  <2> QED BY <2>1 DEF Redis!QuotaCalls
<1> QED
  BY <1>1, <1>2, <1>3, <1>4, <1>5, <1>6 DEF Script, Redis!QuotaNext

LEMMA QuotaMovesStep ==
  ASSUME NEW r \in Requests, QuotaMoves(r)
  PROVE  [Redis!QuotaNext]_quotaVars
<1>1. ASSUME StopRenewing(r)
      PROVE  [Redis!QuotaNext]_quotaVars
  <2>1. CASE r \in renewing
    BY <1>1, <2>1
       DEF StopRenewing, Redis!Abandon, Redis!QuotaTime, Redis!QuotaNext
  <2>2. CASE r \notin renewing
    BY <1>1, <2>2 DEF StopRenewing, quotaVars
  <2> QED BY <2>1, <2>2
<1> QED BY <1>1, ScriptIsStep DEF QuotaMoves

LEMMA ExpiryStep ==
  ASSUME NEW p \in Policies, KeyExpires(p)
  PROVE  Redis!QuotaNext
<1>1. Redis!ExpireSlots(p)
  BY DEF KeyExpires, Quota!ExpireSlots, Redis!ExpireSlots, Quota!KeptAlive,
         Redis!KeptAlive, Quota!Marked, Redis!Marked, Quota!Reserved,
         Redis!Reserved, Quota!NoSlots, Redis!NoSlots, Quota!NoGeneration,
         Redis!NoGeneration
<1> QED BY <1>1 DEF Redis!QuotaTime, Redis!QuotaNext

-------------------------------------------------------------------------------
(* The shape of a step: it is about one request, moves at most one row of   *)
(* the ledger and runs at most one script.                                 *)

Shape(r) ==
  /\ UNCHANGED ledgerVars \/ RequestMoves(r)
  /\ UNCHANGED quotaVars \/ QuotaMoves(r)
  /\ UNCHANGED gateway \/ \E g \in Gateway : SetGateway(r, g)
  /\ \/ UNCHANGED session
     \/ \E s \in Processes, t \in Session : SetSession(s, r, t)
  /\ \/ UNCHANGED orphan
     \/ \E v \in SUBSET Policies : orphan' = [orphan EXCEPT ![r] = v]
  /\ faults' \in 0 .. MaxFaults

RequestStep(r) ==
  \/ Accept(r) \/ GatewayStep(r) \/ Heartbeat(r) \/ Crash(r)
  \/ WorkerStep(r)
  \/ \E s \in Processes : SessionStep(s, r)
  \/ \E p \in Policies : MarkerFallsDue(r, p)
  \/ \E o \in Operations, action \in {"SETTLE", "RELEASE"},
        amount \in Amounts : AdminReconcile(r, o, action, amount)

LEMMA StepIsAboutOne ==
  ASSUME RequestsNext
  PROVE  \/ \E r \in Requests : RequestStep(r)
         \/ \E p \in Policies : KeyExpires(p)
BY DEF RequestsNext, RequestStep

LEMMA FaultShape ==
  ASSUME Types, Fault \/ UNCHANGED faults
  PROVE  faults' \in 0 .. MaxFaults
BY RequestAssumption DEF Types, Fault

LEMMA GotoShape ==
  ASSUME Types, NEW r \in Requests, NEW stage \in Stages, Goto(r, stage)
  PROVE  \E g \in Gateway : SetGateway(r, g)
<1>1. [gateway[r] EXCEPT !.stage = stage] \in Gateway
  BY RowsOf DEF Gateway
<1> QED BY <1>1 DEF Goto

LEMMA OutcomeShape ==
  ASSUME Types, NEW r \in Requests, NEW g \in Gateway,
         NEW next \in Stages, NEW failed \in Stages, Outcome(r, g, next, failed)
  PROVE  /\ \E h \in Gateway : SetGateway(r, h)
         /\ faults' \in 0 .. MaxFaults
<1>1. \A stage \in Stages : [g EXCEPT !.stage = stage] \in Gateway
  BY DEF Gateway
<1> QED BY <1>1, FaultShape DEF Outcome, Fault

LEMMA RepeatShape ==
  ASSUME NEW r \in Requests, NEW p \in Policies, NEW cost \in Nat,
         SettleOrRepeat(r, p, cost)
  PROVE  UNCHANGED quotaVars \/ QuotaMoves(r)
BY DEF SettleOrRepeat, QuotaMoves, Script

\* Steps of the handler that only move it.
LEMMA HandlerShape ==
  ASSUME Types, Handlers, NEW r \in Requests,
         \/ Accept(r) \/ Refuse(r) \/ RolledBack(r) \/ Interrupt(r)
         \/ PersistFailure(r) \/ PersistRefused(r) \/ SlotsFreed(r) \/ Crash(r)
         \/ \E billing \in {"KNOWN", "UNKNOWN", "NO_CHARGE"}, cost \in Amounts,
               again \in BOOLEAN : Answer(r, billing, cost, again)
  PROVE  Shape(r)
<1> DEFINE g == gateway[r]
<1>0. /\ g \in Gateway
      /\ \A stage \in Stages : [g EXCEPT !.stage = stage, !.todo = {}] \in Gateway
  BY RowsOf DEF Gateway
<1>1. CASE Accept(r) \/ Refuse(r) \/ SlotsFreed(r)
  BY <1>1, GotoShape, FaultShape DEF Accept, Refuse, SlotsFreed, Shape, Stages
<1>2. CASE RolledBack(r) \/ Crash(r)
  BY <1>2, GotoShape, FaultShape
     DEF RolledBack, Crash, Shape, QuotaMoves, Stages
<1>3. CASE PersistRefused(r)
  BY <1>3, GotoShape, FaultShape
     DEF PersistRefused, Shape, QuotaMoves, Stages
<1>4. CASE Interrupt(r)
  <2>1. [g EXCEPT !.stage = "FAILED", !.todo = {}] \in Gateway
    BY <1>0 DEF Stages
  <2> QED BY <1>4, <2>1, FaultShape DEF Interrupt, Shape
<1>5. CASE PersistFailure(r)
  <2>1. [g EXCEPT !.stage = "PERSIST",
                  !.unknown = IF g.attempts = 0 THEN 1 ELSE @] \in Gateway
    BY <1>0 DEF Gateway, Stages
  <2> QED BY <1>5, <2>1, FaultShape DEF PersistFailure, Shape
<1>6. ASSUME NEW billing \in {"KNOWN", "UNKNOWN", "NO_CHARGE"},
             NEW cost \in Amounts, NEW again \in BOOLEAN,
             Answer(r, billing, cost, again)
      PROVE  Shape(r)
  <2> DEFINE h == [g EXCEPT
       !.attempts = @ + 1, !.known = @ + cost,
       !.unknown = IF billing = "UNKNOWN" THEN @ + 1 ELSE @,
       !.charged = billing # "NO_CHARGE",
       !.stage = IF ~again THEN "PERSIST"
                 ELSE IF g.attempts + 1 < MaxAttempts THEN "READY"
                 ELSE "FAILED"]
  <2>1. cost \in Nat
    BY LedgerAssumption
  <2>2. g.attempts < MaxAttempts
    BY <1>6 DEF Answer, At, Handlers, RequestOK, HandlerOK
  <2>3. g.attempts + 1 \in 0 .. MaxAttempts
    <3>1. g.attempts \in 0 .. MaxAttempts
      BY <1>0 DEF Gateway
    <3> HIDE DEF g
    <3> QED BY <2>2, <3>1, RequestAssumption
  <2>4. h \in Gateway
    <3> DEFINE stage == IF ~again THEN "PERSIST"
                        ELSE IF g.attempts + 1 < MaxAttempts THEN "READY"
                        ELSE "FAILED"
               charged == billing # "NO_CHARGE"
               unknown == IF billing = "UNKNOWN" THEN g.unknown + 1
                          ELSE g.unknown
               known == g.known + cost
    <3>1. /\ stage \in Stages /\ charged \in BOOLEAN
          /\ unknown \in Nat /\ known \in Nat
      BY <1>0, <2>1 DEF Gateway, Stages
    <3>2. h = [g EXCEPT !.attempts = @ + 1, !.known = known,
                        !.unknown = unknown, !.charged = charged,
                        !.stage = stage]
      OBVIOUS
    <3> HIDE DEF g, stage, charged, unknown, known, h
    <3> QED BY <1>0, <2>3, <3>1, <3>2 DEF Gateway
  <2> QED BY <1>6, <2>4, FaultShape DEF Answer, Shape
<1> QED BY <1>1, <1>2, <1>3, <1>4, <1>5, <1>6

\* Steps of the handler that call Redis.
LEMMA ScriptsShape ==
  ASSUME Types, Handlers, NEW r \in Requests, NEW p \in Policies,
         \/ ReserveQuota(r, p) \/ Rollback(r, p) \/ RenewQuota(r, p)
         \/ FreeSlot(r, p) \/ RecoverSlot(r, p) \/ MarkerFallsDue(r, p)
         \/ FindOrphan(r, p) \/ ReleaseOrphan(r, p)
  PROVE  Shape(r)
<1> DEFINE g == gateway[r]
<1>0. /\ [g EXCEPT !.mine = @ \cup {p}] \in Gateway
      /\ [g EXCEPT !.mine = @ \ {p}] \in Gateway
      /\ [g EXCEPT !.todo = @ \ {p}] \in Gateway
      /\ orphan[r] \cup {p} \in SUBSET Policies
      /\ orphan[r] \ {p} \in SUBSET Policies
  BY RowsOf DEF Gateway
<1>1. CASE ReserveQuota(r, p)
  <2>1. QuotaMoves(r)
    BY <1>1 DEF ReserveQuota, At, Handlers, RequestOK, HandlerOK, QuotaMoves,
                Script
  <2>2. \E h \in Gateway : SetGateway(r, h)
    BY <1>0, <1>1, GotoShape DEF ReserveQuota, Stages
  <2>3. faults' \in 0 .. MaxFaults
    BY <1>1, FaultShape DEF ReserveQuota
  <2> QED BY <1>1, <2>1, <2>2, <2>3 DEF ReserveQuota, Shape
<1>2. CASE Rollback(r, p)
  <2>1. UNCHANGED quotaVars \/ QuotaMoves(r)
    BY <1>2, RepeatShape DEF Rollback
  <2>2. \E h \in Gateway : SetGateway(r, h)
    BY <1>0, <1>2 DEF Rollback
  <2>3. faults' \in 0 .. MaxFaults
    BY <1>2, FaultShape DEF Rollback
  <2> QED BY <1>2, <2>1, <2>2, <2>3 DEF Rollback, Shape
<1>3. CASE RenewQuota(r, p)
  <2>1. \E h \in Gateway : SetGateway(r, h)
    BY <1>0, <1>3 DEF RenewQuota
  <2> QED BY <1>3, <2>1, FaultShape DEF RenewQuota, Shape, QuotaMoves, Script
<1>4. CASE FreeSlot(r, p)
  <2>1. \E h \in Gateway : SetGateway(r, h)
    BY <1>0, <1>4 DEF FreeSlot
  <2>2. faults' \in 0 .. MaxFaults
    BY <1>4, FaultShape DEF FreeSlot
  <2>3. UNCHANGED quotaVars \/ QuotaMoves(r)
    BY <1>4 DEF FreeSlot, QuotaMoves, Script
  <2> QED BY <1>4, <2>1, <2>2, <2>3 DEF FreeSlot, Shape
<1>5. CASE RecoverSlot(r, p) \/ MarkerFallsDue(r, p)
  <2>1. QuotaMoves(r)
    BY <1>5 DEF RecoverSlot, MarkerFallsDue, QuotaMoves, Script
  <2> QED
    BY <1>5, <2>1, FaultShape
       DEF RecoverSlot, MarkerFallsDue, processVars, Shape
<1>6. CASE FindOrphan(r, p)
  BY <1>0, <1>6, FaultShape DEF FindOrphan, Shape
<1>7. CASE ReleaseOrphan(r, p)
  <2>1. UNCHANGED quotaVars \/ QuotaMoves(r)
    BY <1>7 DEF ReleaseOrphan, QuotaMoves, Script
  <2>2. \E v \in SUBSET Policies : orphan' = [orphan EXCEPT ![r] = v]
    BY <1>0, <1>7 DEF ReleaseOrphan
  <2> QED BY <1>7, <2>1, <2>2, FaultShape DEF ReleaseOrphan, Shape
<1> QED BY <1>1, <1>2, <1>3, <1>4, <1>5, <1>6, <1>7

\* Steps that call the ledger.
LEMMA LedgerShape ==
  ASSUME Types, Handlers, NEW r \in Requests,
         \/ ReserveBudget(r) \/ ExtendBudget(r) \/ Dispatch(r) \/ Heartbeat(r)
         \/ ReleaseUnsent(r) \/ Persist(r) \/ GiveUp(r) \/ RecoverEntry(r)
         \/ \E o \in Operations, action \in {"SETTLE", "RELEASE"},
               amount \in Amounts : AdminReconcile(r, o, action, amount)
  PROVE  Shape(r)
<1> DEFINE g == gateway[r]
<1>0. g \in Gateway /\ g.attempts \in 0 .. MaxAttempts /\ g.unknown \in Nat
  BY RowsOf DEF Gateway
<1>10. /\ [g EXCEPT !.todo = Policies] \in Gateway
       /\ [g EXCEPT !.stage = "CALLING", !.dispatched = TRUE, !.called = TRUE]
            \in Gateway
       /\ [g EXCEPT !.stage = "FAILED", !.dispatched = TRUE] \in Gateway
  BY <1>0 DEF Gateway, Stages
<1>1. CASE ReserveBudget(r)
  <2>1. RequestMoves(r)
    <3>1. Reserve(r, clock, Estimate)
      BY <1>1 DEF ReserveBudget
    <3>2. clock \in 1 .. clock /\ Estimate \in Nat
      BY RequestAssumption, LedgerAssumption DEF Types, LedgerTypeOK, Instants
    <3> QED BY <3>1, <3>2 DEF RequestMoves
  <2>2. /\ \E h \in Gateway : SetGateway(r, h)
        /\ faults' \in 0 .. MaxFaults
    <3> DEFINE h == [g EXCEPT !.overtaken = Overtaken(r)]
    <3>1. h \in Gateway /\ Outcome(r, h, "READY", "ROLLBACK")
      BY <1>0, <1>1 DEF ReserveBudget, Gateway, Overtaken
    <3> HIDE DEF g, h
    <3> QED BY <3>1, OutcomeShape DEF Stages
  <2> QED BY <1>1, <2>1, <2>2 DEF ReserveBudget, Shape
<1>2. CASE ExtendBudget(r)
  <2>1. UNCHANGED ledgerVars \/ RequestMoves(r)
    <3>1. CASE g.attempts > 0 /\ Extend(r, g.attempts + 1, Estimate)
      <4>1. g.attempts < MaxAttempts
        BY <1>2 DEF ExtendBudget, At, Handlers, RequestOK, HandlerOK
      <4>2. g.attempts + 1 \in Attempts
        <5> HIDE DEF g
        <5> QED BY <1>0, <3>1, <4>1, RequestAssumption
      <4> QED BY <3>1, <4>2, RequestAssumption DEF RequestMoves
    <3> QED BY <1>2, <3>1 DEF ExtendBudget
  <2>2. /\ \E h \in Gateway : SetGateway(r, h)
        /\ faults' \in 0 .. MaxFaults
    BY <1>2, <1>10, OutcomeShape DEF ExtendBudget, Stages
  <2> QED BY <1>2, <2>1, <2>2 DEF ExtendBudget, Shape
<1>3. CASE Dispatch(r)
  <2>1. RequestMoves(r)
    BY <1>3 DEF Dispatch, RequestMoves
  <2>2. \E h \in Gateway : SetGateway(r, h)
    BY <1>3, <1>10, GotoShape DEF Dispatch, Stages
  <2>3. faults' \in 0 .. MaxFaults
    BY <1>3, FaultShape DEF Dispatch
  <2> QED BY <1>3, <2>1, <2>2, <2>3 DEF Dispatch, Shape
<1>4. CASE Heartbeat(r)
  <2>1. /\ UNCHANGED ledgerVars \/ RequestMoves(r)
        /\ UNCHANGED quotaVars \/ QuotaMoves(r)
    BY <1>4 DEF Heartbeat, RequestMoves, QuotaMoves, Script
  <2> QED BY <1>4, <2>1, FaultShape DEF Heartbeat, processVars, Shape
<1>5. CASE ReleaseUnsent(r)
  <2>1. UNCHANGED ledgerVars \/ RequestMoves(r)
    BY <1>5 DEF ReleaseUnsent, RequestMoves
  <2>2. /\ \E h \in Gateway : SetGateway(r, h)
        /\ faults' \in 0 .. MaxFaults
    BY <1>0, <1>5, OutcomeShape, GotoShape, FaultShape DEF ReleaseUnsent, Stages
  <2> QED BY <1>5, <2>1, <2>2 DEF ReleaseUnsent, QuotaMoves, Shape
<1>6. CASE Persist(r)
  <2>1. RequestMoves(r)
    <3>1. g.unknown * Estimate \in Nat /\ g.known \in Nat
      BY <1>0, RequestAssumption DEF Gateway
    <3> QED BY <1>6, <3>1 DEF Persist, RequestMoves
  <2>2. /\ \E h \in Gateway : SetGateway(r, h)
        /\ faults' \in 0 .. MaxFaults
    BY <1>0, <1>6, <1>10, OutcomeShape DEF Persist, Stages
  <2> QED BY <1>6, <2>1, <2>2 DEF Persist, QuotaMoves, Shape
<1>7. CASE GiveUp(r)
  <2>1. UNCHANGED ledgerVars \/ RequestMoves(r)
    BY <1>7 DEF GiveUp, RequestMoves
  <2>2. \E h \in Gateway : SetGateway(r, h)
    BY <1>7, GotoShape DEF GiveUp, Stages
  <2>3. faults' \in 0 .. MaxFaults
    BY <1>7, FaultShape DEF GiveUp
  <2> QED BY <1>7, <2>1, <2>2, <2>3 DEF GiveUp, Shape
<1>8. CASE RecoverEntry(r)
  <2>1. entry[r].lease \in Nat
    BY RowsOf DEF Entry
  <2>2. RequestMoves(r)
    BY <1>8, <2>1 DEF RecoverEntry, RequestMoves
  <2> QED BY <1>8, <2>2, FaultShape DEF RecoverEntry, processVars, Shape
<1>9. ASSUME NEW o \in Operations, NEW action \in {"SETTLE", "RELEASE"},
             NEW amount \in Amounts, AdminReconcile(r, o, action, amount)
      PROVE  Shape(r)
  <2>1. amount \in Nat
    BY LedgerAssumption
  <2>2. RequestMoves(r)
    BY <1>9, <2>1 DEF AdminReconcile, RequestMoves
  <2> QED BY <1>9, <2>2, FaultShape DEF AdminReconcile, processVars, Shape
<1> QED
  BY <1>1, <1>2, <1>3, <1>4, <1>5, <1>6, <1>7, <1>8, <1>9

LEMMA OperationsBound ==
  ASSUME Types
  PROVE  /\ IsFiniteSet(done)
         /\ Cardinality(done) \in Nat
         /\ Cardinality(done) <= Cardinality(Operations)
<1>1. done \subseteq Operations
  BY DEF Types, LedgerTypeOK
<1> QED BY <1>1, FS_Subset, FS_CardinalityType, RequestAssumption

LEMMA OpenSessionShape ==
  ASSUME Types, NEW r \in Requests, NEW s \in Processes, OpenSession(s, r)
  PROVE  \E t \in Session : SetSession(s, r, t)
<1> DEFINE t == [active |-> TRUE, actual |-> outbox[r].actual,
                 version |-> outbox[r].version,
                 corrected |-> outbox[r].corrected,
                 todo |-> Policies, half |-> {}]
<1>1. t \in Session
  BY RowsOf DEF Session, Outbox
<1>2. SetSession(s, r, t)
  BY DEF OpenSession
<1> QED BY <1>1, <1>2

\* Runs of syncQuota.
LEMMA SessionShape ==
  ASSUME Types, Delivery, NEW r \in Requests,
         \/ GatewaySync(r) \/ WorkerSync(r)
         \/ \E s \in Processes : SessionStep(s, r)
  PROVE  Shape(r)
<1>1. CASE GatewaySync(r)
  <2>1. UNCHANGED session \/ \E t \in Session : SetSession("gateway", r, t)
    BY <1>1, OpenSessionShape DEF GatewaySync, Processes
  <2> QED
    BY <1>1, <2>1, GotoShape, FaultShape
       DEF GatewaySync, Shape, Stages, Processes
<1>2. CASE WorkerSync(r)
  <2>1. \E t \in Session : SetSession("worker", r, t)
    BY <1>2, OpenSessionShape DEF WorkerSync, Processes
  <2> QED BY <1>2, <2>1, FaultShape DEF WorkerSync, Shape, Processes
<1>3. ASSUME NEW s \in Processes, SessionStep(s, r)
      PROVE  Shape(r)
  <2> DEFINE t == session[s][r]
  <2>0. /\ t \in Session /\ t.version \in Nat /\ t.corrected \in Nat
        /\ FirstCost(t) \in Nat
    BY RowsOf DEF Session, FirstCost
  <2>1. ASSUME NEW p \in Policies, SyncSettle(s, r, p)
        PROVE  Shape(r)
    <3>1. UNCHANGED quotaVars \/ QuotaMoves(r)
      BY <2>0, <2>1, RepeatShape DEF SyncSettle
    <3>2. [t EXCEPT !.todo = @ \ {p},
                    !.half = IF t.version > 0 THEN {p} ELSE {}] \in Session
      BY <2>0 DEF Session
    <3> QED BY <2>1, <3>1, <3>2, FaultShape DEF SyncSettle, Shape
  <2>2. ASSUME NEW p \in Policies, SyncCorrect(s, r, p)
        PROVE  Shape(r)
    <3>1. [t EXCEPT !.half = {}] \in Session
      BY <2>0 DEF Session
    <3>2. ASSUME Quota!CorrectCost(r, p, t.corrected, t.version)
          PROVE  QuotaMoves(r)
      <4>1. t.version > marker[r][p].version /\ marker[r][p].version \in Nat
        BY <3>2, RowsOf DEF Quota!CorrectCost, Redis!Marker
      <4>2. t.version <= outbox[r].version
        BY <2>2 DEF SyncCorrect, Delivery, DeliveryOK, SnapshotOK
      <4>3. outbox[r].version <= Cardinality(done) /\ outbox[r].version \in Nat
        BY RowsOf DEF Delivery, DeliveryOK, OutboxOK, Outbox
      <4>4. t.version \in 1 .. Cardinality(Operations)
        <5> HIDE DEF t
        <5> QED BY <2>0, <4>1, <4>2, <4>3, OperationsBound, RedisParameters
      <4> QED BY <2>0, <3>2, <4>4 DEF QuotaMoves, Script
    <3>3. UNCHANGED quotaVars \/ QuotaMoves(r)
      BY <2>2, <3>2 DEF SyncCorrect
    <3> QED BY <2>2, <3>1, <3>3, FaultShape DEF SyncCorrect, Shape
  <2>3. NoSession \in Session
    BY DEF NoSession, Session
  <2>4. CASE SyncConfirm(s, r)
    <3>1. UNCHANGED ledgerVars \/ RequestMoves(r)
      BY <2>0, <2>4 DEF SyncConfirm, RequestMoves
    <3> QED BY <2>3, <2>4, <3>1, FaultShape DEF SyncConfirm, Shape
  <2>5. CASE SyncFails(s, r)
    <3>1. faults' \in 0 .. MaxFaults
      BY <2>5, FaultShape DEF SyncFails
    <3> QED BY <2>3, <2>5, <3>1 DEF SyncFails, Shape
  <2> QED
    BY <1>3, <2>1, <2>2, <2>4, <2>5 DEF SessionStep, SessionWork
<1> QED BY <1>1, <1>2, <1>3

LEMMA StepShape ==
  ASSUME Types, Delivery, Handlers, NEW r \in Requests, RequestStep(r)
  PROVE  Shape(r)
<1>1. ASSUME GatewayStep(r)
      PROVE  Shape(r)
  BY <1>1, HandlerShape, ScriptsShape, LedgerShape, SessionShape
     DEF GatewayStep
<1>2. ASSUME WorkerStep(r)
      PROVE  Shape(r)
  BY <1>2, ScriptsShape, LedgerShape, SessionShape DEF WorkerStep
<1>3. ASSUME Accept(r) \/ Heartbeat(r) \/ Crash(r)
      PROVE  Shape(r)
  BY <1>3, HandlerShape, LedgerShape
<1>4. ASSUME NEW s \in Processes, SessionStep(s, r)
      PROVE  Shape(r)
  BY <1>4, SessionShape
<1>5. ASSUME NEW p \in Policies, MarkerFallsDue(r, p)
      PROVE  Shape(r)
  BY <1>5, ScriptsShape
<1>6. ASSUME NEW o \in Operations, NEW action \in {"SETTLE", "RELEASE"},
             NEW amount \in Amounts, AdminReconcile(r, o, action, amount)
      PROVE  Shape(r)
  BY <1>6, LedgerShape
<1> QED BY <1>1, <1>2, <1>3, <1>4, <1>5, <1>6 DEF RequestStep

-------------------------------------------------------------------------------
(* Types, and the requests that a step is not about.                       *)

LEMMA TypesStep ==
  ASSUME Types, Delivery, Handlers, [RequestsNext]_requestVars
  PROVE  Types'
<1>1. ASSUME NEW r \in Requests, Shape(r)
      PROVE  Types'
  <2>1. LedgerTypeOK'
    <3>1. ASSUME UNCHANGED ledgerVars
          PROVE  LedgerTypeOK'
      BY <3>1 DEF Types, LedgerTypeOK, ledgerVars
    <3> QED BY <1>1, <3>1, TypeMoves DEF Types, Shape
  <2>2. Redis!QuotaTypes'
    <3>1. [Redis!QuotaNext]_quotaVars
      BY <1>1, QuotaMovesStep DEF Shape
    <3> QED BY <3>1, RedisParameters, Redis!QuotaTypesStep DEF Types, quotaVars, Redis!quotaVars
  <2>3. gateway' \in [Requests -> Gateway]
    BY <1>1 DEF Types, Shape, SetGateway
  <2>4. session' \in [Processes -> [Requests -> Session]]
    BY <1>1 DEF Types, Shape, SetSession
  <2>5. orphan' \in [Requests -> SUBSET Policies]
    BY <1>1 DEF Types, Shape
  <2> QED BY <1>1, <2>1, <2>2, <2>3, <2>4, <2>5 DEF Types, Shape
<1>2. ASSUME NEW p \in Policies, KeyExpires(p)
      PROVE  Types'
  <2>1. Redis!QuotaTypes'
    BY <1>2, ExpiryStep, RedisParameters, Redis!QuotaTypesStep DEF Types
  <2>2. LedgerTypeOK'
    BY <1>2 DEF KeyExpires, Types, LedgerTypeOK, ledgerVars
  <2> QED BY <1>2, <2>1, <2>2 DEF KeyExpires, processVars, Types
<1>3. CASE UNCHANGED requestVars
  <2>1. LedgerTypeOK'
    BY <1>3 DEF requestVars, ledgerVars, Types, LedgerTypeOK
  <2>2. Redis!QuotaTypes'
    BY <1>3 DEF requestVars, quotaVars, Types, Redis!QuotaTypes
  <2> QED BY <1>3, <2>1, <2>2 DEF requestVars, processVars, Types
<1> QED BY <1>1, <1>2, <1>3, StepIsAboutOne, StepShape

\* Nothing of request x changes.
Spared(x) ==
  /\ entry'[x] = entry[x] /\ outbox'[x] = outbox[x]
  /\ gateway'[x] = gateway[x] /\ orphan'[x] = orphan[x]
  /\ marker'[x] = marker[x] /\ (x \in renewing' <=> x \in renewing)
  /\ \A s \in Processes : session'[s][x] = session[s][x]

LEMMA MovesSpare ==
  ASSUME Types, NEW r \in Requests, RequestMoves(r)
  PROVE  /\ \A x \in Requests \ {r} :
              entry'[x] = entry[x] /\ outbox'[x] = outbox[x]
         /\ done \subseteq done'
<1> DEFINE Kept1 == /\ \A x \in Requests \ {r} :
                         entry'[x] = entry[x] /\ outbox'[x] = outbox[x]
                    /\ done \subseteq done'
<1>0. entry \in [Requests -> Entry] /\ outbox \in [Requests -> Outbox]
  BY DEF Types, LedgerTypeOK
<1>1. ASSUME NEW at, NEW amount, Reserve(r, at, amount)
      PROVE  Kept1
  BY <1>0, <1>1 DEF Reserve
<1>2. ASSUME NEW attempt, NEW amount, Extend(r, attempt, amount)
      PROVE  Kept1
  BY <1>0, <1>2 DEF Extend
<1>3. ASSUME NEW amount, Settle(r, amount)
      PROVE  Kept1
  BY <1>0, <1>3 DEF Settle
<1>4. ASSUME NEW actual, NEW unresolved, Hold(r, actual, unresolved)
      PROVE  Kept1
  BY <1>0, <1>4 DEF Hold
<1>5. ASSUME ReleaseEntry(r)
      PROVE  Kept1
  BY <1>0, <1>5 DEF ReleaseEntry
<1>6. ASSUME NEW until, MarkDispatched(r, until)
      PROVE  Kept1
  BY <1>0, <1>6 DEF MarkDispatched
<1>7. ASSUME Uncertain(r)
      PROVE  Kept1
  BY <1>0, <1>7 DEF Uncertain
<1>8. ASSUME NEW version, ConfirmSync(r, version)
      PROVE  Kept1
  BY <1>0, <1>8 DEF ConfirmSync
<1>9. ASSUME NEW o, NEW action, NEW amount, Reconcile(r, o, action, amount)
      PROVE  Kept1
  BY <1>0, <1>9 DEF Reconcile
<1> HIDE DEF Kept1
<1>10. Kept1
  BY <1>1, <1>2, <1>3, <1>4, <1>5, <1>6, <1>7, <1>8, <1>9
     DEF RequestMoves, Release, MarkUncertain, RecoverExpired
<1> QED BY <1>10 DEF Kept1

LEMMA QuotaSpares ==
  ASSUME Types, NEW r \in Requests, QuotaMoves(r)
  PROVE  \A x \in Requests \ {r} :
           marker'[x] = marker[x] /\ (x \in renewing' <=> x \in renewing)
<1>1. ASSUME StopRenewing(r)
      PROVE  \A x \in Requests \ {r} :
               marker'[x] = marker[x] /\ (x \in renewing' <=> x \in renewing)
  BY <1>1 DEF StopRenewing
<1>2. ASSUME NEW p \in Policies, Script(r, p)
      PROVE  \A x \in Requests \ {r} :
               marker'[x] = marker[x] /\ (x \in renewing' <=> x \in renewing)
  <2>1. \E m : Quota!SetMarker(r, p, m)
    BY <1>2
       DEF Script, Quota!QuotaReserve, Quota!QuotaSettle, Quota!FallDue,
           Quota!ReleaseConcurrency, Quota!Renew, Quota!CorrectCost
  <2>2. renewing' = renewing \/ renewing' = renewing \cup {r}
    BY <1>2
       DEF Script, Quota!QuotaReserve, Quota!QuotaSettle, Quota!FallDue,
           Quota!ReleaseConcurrency, Quota!Renew, Quota!CorrectCost
  <2> QED BY <2>1, <2>2, MarkerWritten
<1> QED BY <1>1, <1>2 DEF QuotaMoves

LEMMA StepSpares ==
  ASSUME Types, NEW r \in Requests, Shape(r)
  PROVE  /\ \A x \in Requests \ {r} : Spared(x)
         /\ done \subseteq done'
<1>1. /\ \A x \in Requests \ {r} :
           entry'[x] = entry[x] /\ outbox'[x] = outbox[x]
      /\ done \subseteq done'
  BY MovesSpare DEF Shape, ledgerVars
<1>2. \A x \in Requests \ {r} :
        marker'[x] = marker[x] /\ (x \in renewing' <=> x \in renewing)
  BY QuotaSpares DEF Shape, quotaVars
<1>3. \A x \in Requests \ {r} : gateway'[x] = gateway[x]
  BY DEF Shape, Types, SetGateway
<1>4. \A x \in Requests \ {r}, s \in Processes : session'[s][x] = session[s][x]
  BY DEF Shape, Types, SetSession
<1>5. \A x \in Requests \ {r} : orphan'[x] = orphan[x]
  BY DEF Shape, Types
<1> QED BY <1>1, <1>2, <1>3, <1>4, <1>5 DEF Spared

LEMMA SparedDelivery ==
  ASSUME Types, Types', done \subseteq done', NEW x \in Requests, Spared(x),
         DeliveryOK(x)
  PROVE  DeliveryOK(x)'
<1>1. Cardinality(done) <= Cardinality(done')
  <2>1. IsFiniteSet(done')
    BY FS_Subset, RequestAssumption DEF Types, LedgerTypeOK
  <2> QED BY <2>1, FS_Subset
<1>2. /\ Cardinality(done) \in Nat /\ Cardinality(done') \in Nat
      /\ outbox[x].version \in Nat
  <2>1. done \subseteq Operations /\ done' \subseteq Operations
    BY DEF Types, LedgerTypeOK
  <2> QED
    BY <2>1, FS_Subset, FS_CardinalityType, RowsOf, RequestAssumption
       DEF Outbox
<1>3. OutboxOK(x)'
  BY <1>1, <1>2 DEF Spared, DeliveryOK, OutboxOK, Closed, FirstCost
<1>4. SyncedOK(x)'
  BY DEF Spared, DeliveryOK, SyncedOK, Closed, Quota!Settled
<1>5. \A s \in Processes : SnapshotOK(s, x)'
  BY DEF Spared, DeliveryOK, SnapshotOK, Closed, Quota!Settled, FirstCost
<1>6. \A p \in Policies : MarkerOK(x, p)'
  BY DEF Spared, DeliveryOK, MarkerOK, Quota!Settled
<1> QED BY <1>3, <1>4, <1>5, <1>6 DEF DeliveryOK

LEMMA SparedHandler ==
  ASSUME NEW x \in Requests, Spared(x), RequestOK(x)
  PROVE  RequestOK(x)'
<1>1. HandlerOK(x)'
  BY DEF Spared, RequestOK, HandlerOK
<1>2. CoveredOK(x)'
  BY DEF Spared, RequestOK, CoveredOK, Unresolved
<1>3. LedgerKind = "GROUP" => HoldsOK(x)'
  BY DEF Spared, RequestOK, HoldsOK, Open, Quota!Reserved
<1> QED BY <1>1, <1>2, <1>3 DEF RequestOK

-------------------------------------------------------------------------------
(* Delivery: what a step leaves of it where it changes nothing of note.    *)

LEMMA DoneGrows ==
  ASSUME Types, Types', done \subseteq done'
  PROVE  /\ Cardinality(done) \in Nat /\ Cardinality(done') \in Nat
         /\ Cardinality(done) <= Cardinality(done')
<1>1. done \subseteq Operations /\ done' \subseteq Operations
  BY DEF Types, LedgerTypeOK
<1>2. IsFiniteSet(done')
  BY <1>1, FS_Subset, RequestAssumption
<1> QED BY <1>1, <1>2, FS_Subset, FS_CardinalityType, RequestAssumption

\* The outbox and the decision of the ledger are as they were.
LedgerStill(r) ==
  /\ outbox'[r] = outbox[r]
  /\ \/ /\ entry'[r].status = entry[r].status
        /\ entry'[r].settled = entry[r].settled
     \/ ~Closed(r) /\ ~Closed(r)'

\* So is what marker p records, but for its flags.
MarkerStill(r, p) ==
  /\ marker'[r][p].state = marker[r][p].state
  /\ marker'[r][p].actual = marker[r][p].actual
  /\ marker'[r][p].corrected = marker[r][p].corrected
  /\ marker'[r][p].version = marker[r][p].version

\* What a settled marker records stays, or is corrected.
MarkersGrow(r) ==
  \A p \in Policies :
    Quota!Settled(r, p) => /\ Quota!Settled(r, p)'
                           /\ marker'[r][p].actual = marker[r][p].actual
                           /\ marker[r][p].version <= marker'[r][p].version

LEMMA OutboxKept ==
  ASSUME Types, Types', done \subseteq done', NEW r \in Requests,
         OutboxOK(r), LedgerStill(r)
  PROVE  OutboxOK(r)'
<1>1. outbox[r].version \in Nat
  BY RowsOf DEF Outbox
<1>2. outbox[r].version <= Cardinality(done')
  BY <1>1, DoneGrows DEF OutboxOK
<1>3. /\ Closed(r)' <=> Closed(r)
      /\ entry'[r].status = "SETTLED" => entry[r].status = "SETTLED"
      /\ Closed(r) => entry'[r].settled = entry[r].settled
  BY DEF LedgerStill, Closed
<1>4. outbox[r].version > 0 => Closed(r)
  BY DEF OutboxOK
<1> QED
  BY <1>2, <1>3, <1>4 DEF OutboxOK, LedgerStill, FirstCost

LEMMA SnapshotKept ==
  ASSUME Types, Types', NEW r \in Requests, NEW s \in Processes,
         SnapshotOK(s, r), session'[s][r] = session[s][r],
         LedgerStill(r), MarkersGrow(r)
  PROVE  SnapshotOK(s, r)'
<1> DEFINE t == session[s][r]
<1>1. Closed(r)' <=> Closed(r)
  BY DEF LedgerStill, Closed
<1>2. /\ t.version \in Nat
      /\ \A p \in Policies : /\ marker[r][p].version \in Nat
                             /\ marker'[r][p].version \in Nat
  BY RowsOf DEF Session, Redis!Marker, Types, Redis!QuotaTypes
<1>3. ASSUME t.active, NEW p \in Policies
      PROVE  /\ p \notin t.todo =>
                  /\ Quota!Settled(r, p)'
                  /\ marker'[r][p].actual = FirstCost(t)
             /\ p \notin t.todo /\ p \notin t.half =>
                  t.version <= marker'[r][p].version
             /\ p \in t.half => p \notin t.todo
  <2>1. /\ p \notin t.todo =>
             Quota!Settled(r, p) /\ marker[r][p].actual = FirstCost(t)
        /\ p \notin t.todo /\ p \notin t.half =>
             t.version <= marker[r][p].version
        /\ p \in t.half => p \notin t.todo
    BY <1>3 DEF SnapshotOK
  <2>2. Quota!Settled(r, p) =>
          /\ Quota!Settled(r, p)'
          /\ marker'[r][p].actual = marker[r][p].actual
          /\ marker[r][p].version <= marker'[r][p].version
    BY DEF MarkersGrow
  <2> HIDE DEF t
  <2> QED BY <1>2, <2>1, <2>2
<1> QED
  BY <1>1, <1>3 DEF SnapshotOK, LedgerStill, FirstCost

LEMMA MarkerKept ==
  ASSUME NEW r \in Requests, NEW p \in Policies, MarkerOK(r, p),
         MarkerStill(r, p), outbox'[r] = outbox[r]
  PROVE  MarkerOK(r, p)'
BY DEF MarkerOK, MarkerStill, Quota!Settled

\* Every run of syncQuota is as it was, has ended, or works from a snapshot
\* that is as it should be.
SessionsFit(r) ==
  \A s \in Processes :
    session'[s][r] = session[s][r] \/ ~session'[s][r].active \/ SnapshotOK(s, r)'

LEMMA DeliveryKept ==
  ASSUME Types, Types', done \subseteq done', NEW r \in Requests,
         DeliveryOK(r), LedgerStill(r), SessionsFit(r),
         \A p \in Policies : MarkerStill(r, p)
  PROVE  DeliveryOK(r)'
<1>1. OutboxOK(r)'
  BY OutboxKept DEF DeliveryOK
<1>2. MarkersGrow(r)
  <2>1. \A p \in Policies : marker[r][p].version \in Nat
    BY RowsOf DEF Redis!Marker
  <2> QED BY <2>1 DEF MarkersGrow, MarkerStill, Quota!Settled
<1>3. ASSUME NEW s \in Processes
      PROVE  SnapshotOK(s, r)'
  <2>1. CASE session'[s][r] = session[s][r]
    BY <1>2, <2>1, SnapshotKept DEF DeliveryOK
  <2>2. CASE ~session'[s][r].active
    BY <2>2 DEF SnapshotOK
  <2> QED BY <2>1, <2>2 DEF SessionsFit
<1>4. \A p \in Policies : MarkerOK(r, p)'
  BY MarkerKept DEF DeliveryOK, LedgerStill
<1>5. SyncedOK(r)'
  BY DEF DeliveryOK, SyncedOK, LedgerStill, MarkerStill, Closed, Quota!Settled
<1> QED BY <1>1, <1>3, <1>4, <1>5 DEF DeliveryOK

-------------------------------------------------------------------------------
(* What each call of the ledger does to it.                                *)

LEMMA MovesStill ==
  ASSUME Types, NEW r \in Requests,
         \/ \E at, amount : Reserve(r, at, amount)
         \/ \E attempt, amount : Extend(r, attempt, amount)
         \/ \E actual, unresolved : Hold(r, actual, unresolved)
         \/ \E until : MarkDispatched(r, until)
         \/ Open(r) /\ Uncertain(r)
  PROVE  LedgerStill(r)
<1>0. entry \in [Requests -> Entry] /\ entry[r] \in Entry
  BY RowsOf DEF Types, LedgerTypeOK
<1>1. ASSUME NEW at, NEW amount, Reserve(r, at, amount)
      PROVE  LedgerStill(r)
  BY <1>0, <1>1 DEF Reserve, LedgerStill, Closed, NewEntry
<1>2. ASSUME NEW attempt, NEW amount, Extend(r, attempt, amount)
      PROVE  LedgerStill(r)
  BY <1>0, <1>2 DEF Extend, LedgerStill, Closed, Entry
<1>3. ASSUME NEW actual, NEW unresolved, Hold(r, actual, unresolved)
      PROVE  LedgerStill(r)
  BY <1>0, <1>3 DEF Hold, LedgerStill, Closed, Open, Entry
<1>4. ASSUME NEW until, MarkDispatched(r, until)
      PROVE  LedgerStill(r)
  BY <1>0, <1>4 DEF MarkDispatched, LedgerStill, Closed, Entry
<1>5. ASSUME Open(r), Uncertain(r)
      PROVE  LedgerStill(r)
  BY <1>0, <1>5 DEF Uncertain, LedgerStill, Closed, Open, Entry
<1> QED BY <1>1, <1>2, <1>3, <1>4, <1>5

\* The entry is closed for the first time: nobody is synchronising it.
LEMMA DeliveryCloses ==
  ASSUME Types, Types', Rows, done \subseteq done', NEW r \in Requests,
         DeliveryOK(r), UNCHANGED <<marker, session>>,
         \/ \E amount \in Nat : Settle(r, amount)
         \/ entry[r].status = "RESERVED" /\ ReleaseEntry(r)
  PROVE  DeliveryOK(r)'
<1>0. /\ entry \in [Requests -> Entry] /\ entry[r] \in Entry
      /\ outbox \in [Requests -> Outbox] /\ outbox[r] \in Outbox
  BY RowsOf DEF Types, LedgerTypeOK
<1>1. ~Closed(r) /\ outbox[r].version = 0 /\ outbox[r].actual = NoActual
  <2>1. ~Closed(r)
    BY DEF Settle, Open, Closed
  <2> QED BY <2>1 DEF DeliveryOK, OutboxOK
<1>2. /\ outbox'[r].version = 0 /\ ~outbox'[r].synced
      /\ Closed(r)' /\ FirstCost(outbox'[r]) = entry'[r].settled
      /\ entry'[r].status = "SETTLED" => outbox'[r].actual # NoActual
  <2>1. ASSUME NEW amount \in Nat, Settle(r, amount)
        PROVE  <1>2!:
    <3>1. /\ entry'[r].status = "SETTLED" /\ entry'[r].settled = amount
          /\ outbox'[r] = [outbox[r] EXCEPT !.actual = amount, !.synced = FALSE]
      BY <1>0, <2>1 DEF Settle, Entry
    <3>2. /\ outbox'[r].version = 0 /\ ~outbox'[r].synced
          /\ outbox'[r].actual = amount
      BY <1>0, <1>1, <3>1 DEF Outbox
    <3>3. amount # NoActual
      BY DEF NoActual
    <3> QED BY <3>1, <3>2, <3>3 DEF Closed, FirstCost
  <2>2. ASSUME entry[r].status = "RESERVED", ReleaseEntry(r)
        PROVE  <1>2!:
    <3>1. /\ entry'[r].status = "RELEASED"
          /\ entry'[r].settled = entry[r].settled
          /\ outbox'[r] = [outbox[r] EXCEPT !.synced = FALSE]
      BY <1>0, <2>2 DEF ReleaseEntry, Entry
    <3>2. /\ outbox'[r].version = 0 /\ ~outbox'[r].synced
          /\ outbox'[r].actual = NoActual
      BY <1>0, <1>1, <3>1 DEF Outbox
    <3>3. entry[r].settled = 0
      BY <2>2 DEF Rows, Row
    <3> QED BY <3>1, <3>2, <3>3 DEF Closed, FirstCost
  <2> QED BY <2>1, <2>2
<1>3. OutboxOK(r)'
  BY <1>2, DoneGrows DEF OutboxOK, Closed
<1>4. SyncedOK(r)'
  BY <1>2 DEF SyncedOK
<1>5. \A s \in Processes : SnapshotOK(s, r)'
  BY <1>1 DEF DeliveryOK, SnapshotOK
<1>6. \A p \in Policies : MarkerOK(r, p)'
  <2> TAKE p \in Policies
  <2>1. marker[r][p].version = 0
    BY <1>1, RowsOf DEF DeliveryOK, MarkerOK, Redis!Marker
  <2> QED BY <1>2, <2>1 DEF DeliveryOK, MarkerOK, Quota!Settled
<1> QED BY <1>3, <1>4, <1>5, <1>6 DEF DeliveryOK

\* A correction: whatever is under way is now behind it.
LEMMA DeliveryReconciles ==
  ASSUME Types, Types', Rows, NEW r \in Requests,
         DeliveryOK(r), UNCHANGED <<marker, session>>,
         NEW o \in Operations, NEW action, NEW amount \in Nat,
         Reconcile(r, o, action, amount)
  PROVE  DeliveryOK(r)'
<1>0. /\ entry \in [Requests -> Entry] /\ entry[r] \in Entry
      /\ outbox \in [Requests -> Outbox] /\ outbox[r] \in Outbox
  BY RowsOf DEF Types, LedgerTypeOK
<1>1. /\ entry[r].status \in {"SETTLED", "RECONCILIATION_REQUIRED"}
      /\ Closed(r)' /\ entry'[r].settled = amount
      /\ outbox'[r] = [outbox[r] EXCEPT
          !.actual = IF @ = NoActual THEN amount ELSE @,
          !.version = @ + 1, !.corrected = amount, !.synced = FALSE]
      /\ o \notin done /\ done' = done \cup {o}
  BY <1>0 DEF Reconcile, Entry, Closed
<1>2. /\ outbox'[r].version = outbox[r].version + 1
      /\ outbox'[r].corrected = amount /\ ~outbox'[r].synced
      /\ outbox'[r].actual # NoActual
      /\ outbox[r].actual # NoActual => outbox'[r].actual = outbox[r].actual
  BY <1>0, <1>1 DEF Outbox, NoActual
<1>3. Cardinality(done') = Cardinality(done) + 1 /\ Cardinality(done) \in Nat
  BY <1>1, OperationsBound, FS_AddElement
<1>4. outbox[r].version \in Nat /\ outbox[r].version <= Cardinality(done)
  BY <1>0 DEF Outbox, DeliveryOK, OutboxOK
<1>5. OutboxOK(r)'
  <2>1. outbox'[r].version > 0 /\ outbox'[r].version <= Cardinality(done')
    BY <1>2, <1>3, <1>4
  <2> QED BY <1>1, <1>2, <1>4, <2>1 DEF OutboxOK, Closed
<1>6. SyncedOK(r)'
  BY <1>2 DEF SyncedOK
<1>7. ASSUME NEW s \in Processes
      PROVE  SnapshotOK(s, r)'
  <2> SUFFICES ASSUME session[s][r].active
               PROVE  SnapshotOK(s, r)'
    BY DEF SnapshotOK
  <2>1. SnapshotOK(s, r)
    BY DEF DeliveryOK
  <2>2. outbox[r].actual # NoActual
    BY <1>1, <2>1 DEF SnapshotOK, Closed, DeliveryOK, OutboxOK
  <2>3. session[s][r].version < outbox'[r].version
    BY <1>2, <1>4, <2>1, RowsOf DEF SnapshotOK, Session
  <2>4. session[s][r].version \in Nat /\ outbox'[r].version \in Nat
    BY <1>2, <1>4, RowsOf DEF Session
  <2> QED
    BY <1>1, <1>2, <2>1, <2>2, <2>3, <2>4
       DEF SnapshotOK, Quota!Settled, FirstCost
<1>8. \A p \in Policies : MarkerOK(r, p)'
  <2> TAKE p \in Policies
  <2>1. MarkerOK(r, p) /\ marker[r][p].version \in Nat
    BY RowsOf DEF DeliveryOK, Redis!Marker
  <2>2. marker[r][p].version < outbox'[r].version
    BY <1>2, <1>4, <2>1 DEF MarkerOK
  <2> QED BY <1>2, <1>4, <2>1, <2>2 DEF MarkerOK, Quota!Settled
<1> QED BY <1>5, <1>6, <1>7, <1>8 DEF DeliveryOK

-------------------------------------------------------------------------------
(* What each script does to it.                                            *)

\* Flags and slots: nothing that is to be delivered.
LEMMA FlagsStill ==
  ASSUME Types, NEW r \in Requests, NEW p \in Policies,
         \/ Quota!ReleaseConcurrency(r, p)
         \/ Quota!Renew(r, p)
         \/ Quota!FallDue(r, p)
  PROVE  \A q \in Policies : MarkerStill(r, q)
<1> DEFINE Flagged(m) == /\ Quota!SetMarker(r, p, m)
                         /\ m.state = marker[r][p].state
                         /\ m.actual = marker[r][p].actual
                         /\ m.corrected = marker[r][p].corrected
                         /\ m.version = marker[r][p].version
<1>0. marker[r][p] \in Redis!Marker
  BY RowsOf
<1>1. \E m : Flagged(m)
  <2>1. ASSUME Quota!ReleaseConcurrency(r, p)
        PROVE  Flagged([marker[r][p] EXCEPT !.released = TRUE])
    BY <1>0, <2>1 DEF Quota!ReleaseConcurrency, Redis!Marker
  <2>2. ASSUME Quota!Renew(r, p)
        PROVE  Flagged([marker[r][p] EXCEPT !.due = FALSE])
    BY <1>0, <2>2 DEF Quota!Renew, Redis!Marker
  <2>3. ASSUME Quota!FallDue(r, p)
        PROVE  Flagged([marker[r][p] EXCEPT !.due = TRUE])
    BY <1>0, <2>3 DEF Quota!FallDue, Redis!Marker
  <2> HIDE DEF Flagged
  <2> QED BY <2>1, <2>2, <2>3
<1> QED BY <1>1, MarkerWritten DEF MarkerStill

\* A reservation, or a settlement: the marker had no correction yet, and its
\* policy is still to be done in every run.
LEMMA DeliverySettles ==
  ASSUME Types, Types', done \subseteq done', NEW r \in Requests,
         NEW p \in Policies, NEW m,
         DeliveryOK(r), LedgerStill(r), SessionsFit(r),
         Quota!SetMarker(r, p, m), marker[r][p].state \in {"NONE", "RESERVED"},
         \/ m.state = "RESERVED" /\ m.version = 0
         \/ m.state = "SETTLED" /\ m.version = 0 /\ m.corrected = m.actual
  PROVE  DeliveryOK(r)'
<1>0. \A q \in Policies :
        marker'[r][q] = IF q = p THEN m ELSE marker[r][q]
  BY MarkerWritten
<1>1. OutboxOK(r)'
  BY OutboxKept DEF DeliveryOK
<1>2. /\ ~Quota!Settled(r, p) /\ marker[r][p].version = 0
      /\ outbox[r].version \in Nat
  BY RowsOf DEF DeliveryOK, MarkerOK, Quota!Settled, Outbox
<1>3. MarkersGrow(r)
  <2>1. \A q \in Policies : marker[r][q].version \in Nat
    BY RowsOf DEF Redis!Marker
  <2> QED BY <1>0, <1>2, <2>1 DEF MarkersGrow, Quota!Settled
<1>4. ASSUME NEW s \in Processes
      PROVE  SnapshotOK(s, r)'
  <2>1. CASE session'[s][r] = session[s][r]
    BY <1>3, <2>1, SnapshotKept DEF DeliveryOK
  <2>2. CASE ~session'[s][r].active
    BY <2>2 DEF SnapshotOK
  <2> QED BY <2>1, <2>2 DEF SessionsFit
<1>5. ASSUME NEW q \in Policies
      PROVE  MarkerOK(r, q)'
  <2>1. CASE q = p
    BY <1>0, <1>2, <2>1 DEF MarkerOK, Quota!Settled, LedgerStill
  <2>2. CASE q # p
    <3>1. MarkerStill(r, q)
      BY <1>0, <2>2 DEF MarkerStill
    <3> QED BY <3>1, MarkerKept DEF DeliveryOK, LedgerStill
  <2> QED BY <2>1, <2>2
<1>6. SyncedOK(r)'
  BY <1>2 DEF DeliveryOK, SyncedOK, LedgerStill, Closed
<1> QED BY <1>1, <1>4, <1>5, <1>6 DEF DeliveryOK

LEMMA ReservationMarks ==
  ASSUME NEW r \in Requests, NEW p \in Policies,
         Quota!QuotaReserve(r, p, Estimate)
  PROVE  \E m : /\ Quota!SetMarker(r, p, m)
                /\ m.state = "RESERVED" /\ m.version = 0
                /\ ~m.due /\ ~m.released
<1> DEFINE m == [Quota!NewMarker EXCEPT
                   !.state = "RESERVED", !.estimate = Estimate,
                   !.generation = IF Quota!Marked(r)
                                  THEN Quota!Entered(r, p).generation ELSE @]
<1>1. Quota!SetMarker(r, p, m)
  BY DEF Quota!QuotaReserve
<1>2. m.state = "RESERVED" /\ m.version = 0 /\ ~m.due /\ ~m.released
  BY DEF Quota!NewMarker
<1> QED BY <1>1, <1>2

LEMMA DeliveryReserves ==
  ASSUME Types, Types', done \subseteq done', NEW r \in Requests,
         NEW p \in Policies, DeliveryOK(r), LedgerStill(r), SessionsFit(r),
         Quota!QuotaReserve(r, p, Estimate)
  PROVE  DeliveryOK(r)'
<1>1. PICK m : /\ Quota!SetMarker(r, p, m)
               /\ m.state = "RESERVED" /\ m.version = 0
               /\ ~m.due /\ ~m.released
  BY ReservationMarks
<1>2. marker[r][p].state = "NONE"
  BY DEF Quota!QuotaReserve
<1> QED BY <1>1, <1>2, DeliverySettles

LEMMA SettlementMarks ==
  ASSUME Types, NEW r \in Requests, NEW p \in Policies, NEW cost,
         DeliveryOK(r), Quota!QuotaSettle(r, p, cost)
  PROVE  \E m : /\ Quota!SetMarker(r, p, m)
                /\ marker[r][p].state \in {"NONE", "RESERVED"}
                /\ m.state = "SETTLED" /\ m.version = 0
                /\ m.actual = cost /\ m.corrected = m.actual
<1> DEFINE m == [marker[r][p] EXCEPT
                   !.state = "SETTLED", !.actual = cost, !.corrected = cost]
<1>1. marker[r][p].state = "RESERVED" /\ Quota!SetMarker(r, p, m)
  BY DEF Quota!QuotaSettle, Quota!Reserved
<1>2. marker[r][p].version = 0
  BY <1>1 DEF DeliveryOK, MarkerOK, Quota!Settled
<1>3. /\ m.state = "SETTLED" /\ m.version = 0
      /\ m.actual = cost /\ m.corrected = m.actual
  BY <1>2, RowsOf DEF Redis!Marker
<1> QED BY <1>1, <1>3

\* A settlement whose run is not recorded: a rollback, or of an orphan.
LEMMA DeliveryFrees ==
  ASSUME Types, Types', done \subseteq done', NEW r \in Requests,
         NEW p \in Policies, NEW cost, DeliveryOK(r), LedgerStill(r),
         SessionsFit(r), Quota!QuotaSettle(r, p, cost)
  PROVE  DeliveryOK(r)'
BY SettlementMarks, DeliverySettles

-------------------------------------------------------------------------------
(* What the runs of syncQuota do to it.                                    *)

LEMMA SessionWritten ==
  ASSUME Types, NEW r \in Requests, NEW s \in Processes, NEW t,
         SetSession(s, r, t)
  PROVE  \A x \in Processes :
           session'[x][r] = IF x = s THEN t ELSE session[x][r]
BY DEF Types, SetSession

\* A run works from the entry as it is when it begins.
LEMMA SnapshotTaken ==
  ASSUME Types, NEW r \in Requests, NEW s \in Processes, OpenSession(s, r),
         DeliveryOK(r), UNCHANGED <<entry, outbox, marker>>
  PROVE  SessionsFit(r)
<1> DEFINE t == [active |-> TRUE, actual |-> outbox[r].actual,
                 version |-> outbox[r].version,
                 corrected |-> outbox[r].corrected,
                 todo |-> Policies, half |-> {}]
<1>1. \A x \in Processes :
        session'[x][r] = IF x = s THEN t ELSE session[x][r]
  BY SessionWritten DEF OpenSession
<1>2. Closed(r)'
  BY DEF OpenSession, Pending, Closed
<1>3. outbox[r].version \in Nat
  BY RowsOf DEF Outbox
<1>4. SnapshotOK(s, r)'
  BY <1>1, <1>2, <1>3 DEF SnapshotOK
<1> QED BY <1>1, <1>4 DEF SessionsFit

LEMMA UnchangedStill ==
  ASSUME NEW r \in Requests, UNCHANGED <<entry, outbox>>
  PROVE  LedgerStill(r)
BY DEF LedgerStill

LEMMA DeliverySyncSettle ==
  ASSUME Types, Types', NEW r \in Requests, NEW s \in Processes,
         NEW p \in Policies, DeliveryOK(r), SyncSettle(s, r, p)
  PROVE  DeliveryOK(r)'
<1> DEFINE t == session[s][r]
           u == [t EXCEPT !.todo = @ \ {p},
                          !.half = IF t.version > 0 THEN {p} ELSE {}]
<1>0. /\ t \in Session /\ t.active /\ p \in t.todo /\ t.half = {}
      /\ UNCHANGED ledgerVars /\ SetSession(s, r, u)
  BY RowsOf DEF SyncSettle
<1>1. /\ LedgerStill(r) /\ done \subseteq done'
      /\ UNCHANGED <<entry, outbox>>
  BY <1>0 DEF LedgerStill, ledgerVars
<1>2. \A x \in Processes :
        session'[x][r] = IF x = s THEN u ELSE session[x][r]
  BY <1>0, SessionWritten
<1>3. /\ u.active /\ u.actual = t.actual /\ u.version = t.version
      /\ u.corrected = t.corrected /\ u.todo = t.todo \ {p}
      /\ u.half = IF t.version > 0 THEN {p} ELSE {}
      /\ FirstCost(u) = FirstCost(t)
      /\ t.version \in Nat
  BY <1>0 DEF Session, FirstCost
<1>4. SnapshotOK(s, r) /\ outbox[r].version \in Nat
  BY RowsOf DEF DeliveryOK, Outbox
\* Whatever the script did, p records the snapshot's first cost.
<1>5. ASSUME /\ Quota!Settled(r, p)' /\ marker'[r][p].actual = FirstCost(t)
             /\ \A q \in Policies \ {p} : marker'[r][q] = marker[r][q]
             /\ marker'[r][p].version \in Nat
      PROVE  SessionsFit(r)
  <2>1. SnapshotOK(s, r)'
    <3> HIDE DEF t, u
    <3>1. ASSUME NEW q \in Policies
          PROVE  /\ q \notin u.todo =>
                      /\ Quota!Settled(r, q)'
                      /\ marker'[r][q].actual = FirstCost(u)
                 /\ q \notin u.todo /\ q \notin u.half =>
                      u.version <= marker'[r][q].version
                 /\ q \in u.half => q \notin u.todo
      <4>1. CASE q = p
        BY <1>3, <1>5, <4>1
      <4>2. CASE q # p
        <5>1. marker'[r][q] = marker[r][q]
          BY <1>5, <4>2
        <5> QED
          BY <1>0, <1>3, <1>4, <4>2, <5>1
             DEF SnapshotOK, Quota!Settled, t
      <4> QED BY <4>1, <4>2
    <3>2. session'[s][r] = u
      BY <1>2
    <3>3. /\ Closed(r)' /\ u.actual = outbox'[r].actual
          /\ u.version <= outbox'[r].version
          /\ u.version = outbox'[r].version =>
               u.corrected = outbox'[r].corrected
      BY <1>0, <1>1, <1>3, <1>4 DEF SnapshotOK, Closed, t
    <3>4. \A q \in u.half : u.half = {q}
      BY <1>3
    <3> QED BY <1>3, <3>1, <3>2, <3>3, <3>4 DEF SnapshotOK
  <2> QED BY <1>2, <2>1 DEF SessionsFit
<1>6. marker'[r][p].version \in Nat
  BY DEF Types, Redis!QuotaTypes, Redis!Marker
<1>7. CASE Quota!QuotaSettle(r, p, FirstCost(t))
  <2>1. PICK m : /\ Quota!SetMarker(r, p, m)
                 /\ marker[r][p].state \in {"NONE", "RESERVED"}
                 /\ m.state = "SETTLED" /\ m.version = 0
                 /\ m.actual = FirstCost(t) /\ m.corrected = m.actual
    BY <1>7, SettlementMarks
  <2>2. \A q \in Policies :
          marker'[r][q] = IF q = p THEN m ELSE marker[r][q]
    BY <2>1, MarkerWritten
  <2>3. SessionsFit(r)
    BY <1>5, <1>6, <2>1, <2>2 DEF Quota!Settled
  <2> QED BY <1>1, <2>1, <2>3, DeliverySettles
<1>8. CASE /\ Quota!Settled(r, p) /\ marker[r][p].actual = FirstCost(t)
           /\ UNCHANGED quotaVars
  <2>1. UNCHANGED marker
    BY <1>8 DEF quotaVars
  <2>2. SessionsFit(r)
    BY <1>5, <1>6, <1>8, <2>1 DEF Quota!Settled
  <2>3. \A q \in Policies : MarkerStill(r, q)
    BY <2>1 DEF MarkerStill
  <2> QED BY <1>1, <2>2, <2>3, DeliveryKept
<1> QED BY <1>7, <1>8 DEF SyncSettle, SettleOrRepeat

LEMMA DeliverySyncCorrect ==
  ASSUME Types, Types', NEW r \in Requests, NEW s \in Processes,
         NEW p \in Policies, DeliveryOK(r), SyncCorrect(s, r, p)
  PROVE  DeliveryOK(r)'
<1> DEFINE t == session[s][r]
           u == [t EXCEPT !.half = {}]
<1>0. /\ t \in Session /\ t.active /\ p \in t.half
      /\ UNCHANGED ledgerVars /\ SetSession(s, r, u)
  BY RowsOf DEF SyncCorrect
<1>1. /\ LedgerStill(r) /\ done \subseteq done'
      /\ UNCHANGED <<entry, outbox>>
  BY <1>0 DEF LedgerStill, ledgerVars
<1>2. \A x \in Processes :
        session'[x][r] = IF x = s THEN u ELSE session[x][r]
  BY <1>0, SessionWritten
<1>3. /\ u.active /\ u.actual = t.actual /\ u.version = t.version
      /\ u.corrected = t.corrected /\ u.todo = t.todo /\ u.half = {}
      /\ FirstCost(u) = FirstCost(t)
      /\ t.version \in Nat
  BY <1>0 DEF Session, FirstCost
<1>4. /\ SnapshotOK(s, r) /\ outbox[r].version \in Nat
      /\ p \notin t.todo /\ t.half = {p}
  BY <1>0, RowsOf DEF DeliveryOK, Outbox, SnapshotOK
<1>5. /\ Quota!Settled(r, p) /\ marker[r][p].actual = FirstCost(t)
      /\ t.version <= outbox[r].version
      /\ t.version = outbox[r].version => t.corrected = outbox[r].corrected
  BY <1>0, <1>4 DEF SnapshotOK
\* Whatever the script did, p is as far as the snapshot, or further.
<1>6. ASSUME MarkersGrow(r), t.version <= marker'[r][p].version
      PROVE  SessionsFit(r)
  <2>1. SnapshotOK(s, r)'
    <3> HIDE DEF t, u
    <3>1. ASSUME NEW q \in Policies
          PROVE  /\ q \notin u.todo =>
                      /\ Quota!Settled(r, q)'
                      /\ marker'[r][q].actual = FirstCost(u)
                 /\ q \notin u.todo => u.version <= marker'[r][q].version
      <4>1. Quota!Settled(r, q) =>
              /\ Quota!Settled(r, q)'
              /\ marker'[r][q].actual = marker[r][q].actual
              /\ marker[r][q].version <= marker'[r][q].version
        BY <1>6 DEF MarkersGrow
      <4>2. /\ marker[r][q].version \in Nat /\ marker'[r][q].version \in Nat
        BY RowsOf DEF Redis!Marker, Types, Redis!QuotaTypes
      <4>3. CASE q = p
        BY <1>3, <1>5, <1>6, <4>1, <4>3
      <4>4. CASE q # p
        <5>1. /\ q \notin t.todo =>
                   Quota!Settled(r, q) /\ marker[r][q].actual = FirstCost(t)
              /\ q \notin t.todo => t.version <= marker[r][q].version
          BY <1>0, <1>4, <4>4 DEF SnapshotOK, t
        <5> QED BY <1>3, <4>1, <4>2, <5>1
      <4> QED BY <4>3, <4>4
    <3>2. session'[s][r] = u
      BY <1>2
    <3>3. /\ Closed(r)' /\ u.actual = outbox'[r].actual
          /\ u.version <= outbox'[r].version
          /\ u.version = outbox'[r].version =>
               u.corrected = outbox'[r].corrected
      BY <1>0, <1>1, <1>3, <1>4 DEF SnapshotOK, Closed, t
    <3> QED BY <1>3, <3>1, <3>2, <3>3 DEF SnapshotOK
  <2> QED BY <1>2, <2>1 DEF SessionsFit
<1>7. \A q \in Policies : marker[r][q].version \in Nat
  BY RowsOf DEF Redis!Marker
<1>8. CASE /\ Quota!Settled(r, p) /\ t.version <= marker[r][p].version
           /\ UNCHANGED quotaVars
  <2>1. UNCHANGED marker
    BY <1>8 DEF quotaVars
  <2>2. \A q \in Policies : MarkerStill(r, q)
    BY <2>1 DEF MarkerStill
  <2>3. MarkersGrow(r)
    BY <1>7, <2>1 DEF MarkersGrow, Quota!Settled
  <2>4. SessionsFit(r)
    BY <1>6, <1>8, <2>1, <2>3
  <2> QED BY <1>1, <2>2, <2>4, DeliveryKept
<1>9. CASE Quota!CorrectCost(r, p, t.corrected, t.version)
  <2> DEFINE m == [marker[r][p] EXCEPT !.corrected = t.corrected,
                                       !.version = t.version]
  <2>1. /\ marker[r][p] \in Redis!Marker /\ t.version > marker[r][p].version
        /\ Quota!SetMarker(r, p, m)
    BY <1>9, RowsOf DEF Quota!CorrectCost
  <2>2. /\ m.state = marker[r][p].state /\ m.actual = marker[r][p].actual
        /\ m.corrected = t.corrected /\ m.version = t.version
    BY <2>1 DEF Redis!Marker
  <2> HIDE DEF m
  <2>3. \A q \in Policies :
          marker'[r][q] = IF q = p THEN m ELSE marker[r][q]
    BY <2>1, MarkerWritten
  <2>4. MarkersGrow(r)
    BY <1>3, <1>7, <2>1, <2>2, <2>3 DEF MarkersGrow, Quota!Settled
  <2>5. SessionsFit(r)
    BY <1>3, <1>6, <2>2, <2>3, <2>4
  <2>6. \A x \in Processes : SnapshotOK(x, r)'
    <3> TAKE x \in Processes
    <3>1. CASE session'[x][r] = session[x][r]
      BY <1>1, <2>4, <3>1, SnapshotKept DEF DeliveryOK
    <3>2. CASE ~session'[x][r].active
      BY <3>2 DEF SnapshotOK
    <3> QED BY <2>5, <3>1, <3>2 DEF SessionsFit
  <2>7. OutboxOK(r)'
    BY <1>1, OutboxKept DEF DeliveryOK
  <2>8. \A q \in Policies : MarkerOK(r, q)'
    <3> TAKE q \in Policies
    <3>1. CASE q = p
      <4>1. /\ MarkerOK(r, p) /\ marker[r][p].version \in Nat
            /\ marker'[r][p] = m /\ outbox'[r] = outbox[r]
        BY <1>1, <1>7, <2>3 DEF DeliveryOK
      <4> QED
        BY <1>3, <1>4, <1>5, <2>1, <2>2, <3>1, <4>1 DEF MarkerOK, Quota!Settled
    <3>2. CASE q # p
      <4>1. MarkerStill(r, q)
        BY <2>3, <3>2 DEF MarkerStill
      <4> QED BY <1>1, <4>1, MarkerKept DEF DeliveryOK
    <3> QED BY <3>1, <3>2
  \* A synchronised marker is as far as the outbox: there is no correction.
  <2>9. SyncedOK(r)'
    <3>1. ~(Closed(r) /\ outbox[r].synced)
      BY <1>3, <1>4, <1>5, <1>7, <2>1 DEF DeliveryOK, SyncedOK
    <3> QED BY <1>1, <3>1 DEF SyncedOK, Closed
  <2> QED BY <2>6, <2>7, <2>8, <2>9 DEF DeliveryOK
<1> QED BY <1>8, <1>9 DEF SyncCorrect

\* The run that finds the entry as its snapshot has delivered all it owed.
LEMMA DeliverySyncConfirm ==
  ASSUME Types, Types', NEW r \in Requests, NEW s \in Processes,
         DeliveryOK(r), SyncConfirm(s, r)
  PROVE  DeliveryOK(r)'
<1> DEFINE t == session[s][r]
<1>1. /\ t.active /\ t.todo = {} /\ t.half = {}
      /\ SetSession(s, r, NoSession) /\ UNCHANGED quotaVars
  BY DEF SyncConfirm
<1>2. SessionsFit(r)
  BY <1>1, SessionWritten DEF SessionsFit, NoSession
<1>3. \A p \in Policies : MarkerStill(r, p)
  BY <1>1 DEF MarkerStill, quotaVars
<1>4. CASE UNCHANGED ledgerVars
  <2>1. LedgerStill(r) /\ done \subseteq done'
    BY <1>4 DEF LedgerStill, ledgerVars
  <2> QED BY <1>2, <1>3, <2>1, DeliveryKept
<1>5. CASE outbox[r].version = t.version /\ ConfirmSync(r, t.version)
  <2>0. /\ outbox \in [Requests -> Outbox] /\ outbox[r] \in Outbox
        /\ t \in Session
    BY RowsOf DEF Types, LedgerTypeOK
  <2>1. /\ UNCHANGED <<entry, done, marker>> /\ done \subseteq done'
        /\ outbox'[r] = [outbox[r] EXCEPT !.synced = TRUE]
    BY <1>1, <1>5, <2>0 DEF ConfirmSync, quotaVars
  <2>2. /\ outbox'[r].actual = outbox[r].actual
        /\ outbox'[r].version = outbox[r].version
        /\ outbox'[r].corrected = outbox[r].corrected
    BY <2>0, <2>1 DEF Outbox
  <2>3. SnapshotOK(s, r)
    BY DEF DeliveryOK
  <2>4. ASSUME NEW p \in Policies
        PROVE  /\ Quota!Settled(r, p)
               /\ marker[r][p].corrected = entry[r].settled
               /\ marker[r][p].version = outbox[r].version
    <3>1. /\ Quota!Settled(r, p) /\ marker[r][p].actual = FirstCost(t)
          /\ t.version <= marker[r][p].version
      BY <1>1, <2>3 DEF SnapshotOK
    <3>2. /\ marker[r][p].version \in Nat /\ outbox[r].version \in Nat
      BY <2>0, RowsOf DEF Redis!Marker, Outbox
    <3>3. MarkerOK(r, p) /\ OutboxOK(r)
      BY DEF DeliveryOK
    <3>4. marker[r][p].version = outbox[r].version
      BY <1>5, <3>1, <3>2, <3>3 DEF MarkerOK
    <3>5. CASE outbox[r].version > 0
      BY <3>1, <3>3, <3>4, <3>5 DEF MarkerOK, OutboxOK
    <3>6. CASE outbox[r].version = 0
      <4>1. marker[r][p].corrected = FirstCost(t)
        BY <3>1, <3>3, <3>4, <3>6 DEF MarkerOK
      <4>2. FirstCost(t) = FirstCost(outbox[r]) /\ Closed(r)
        BY <1>1, <2>3 DEF SnapshotOK, FirstCost
      <4> QED BY <3>1, <3>3, <3>4, <3>6, <4>1, <4>2 DEF OutboxOK
    <3> QED BY <3>1, <3>2, <3>4, <3>5, <3>6
  <2>5. SyncedOK(r)'
    BY <2>1, <2>2, <2>4 DEF SyncedOK, Quota!Settled
  <2>6. OutboxOK(r)'
    BY <2>1, <2>2 DEF DeliveryOK, OutboxOK, Closed, FirstCost
  <2>7. \A p \in Policies : MarkerOK(r, p)'
    BY <2>1, <2>2 DEF DeliveryOK, MarkerOK, Quota!Settled
  <2>8. ASSUME NEW x \in Processes
        PROVE  SnapshotOK(x, r)'
    <3>1. CASE session'[x][r] = session[x][r]
      BY <2>1, <2>2, <3>1
         DEF DeliveryOK, SnapshotOK, Closed, Quota!Settled, FirstCost
    <3>2. CASE x = s
      BY <1>1, <3>2, SessionWritten DEF SnapshotOK, NoSession
    <3> QED BY <1>1, <3>1, <3>2, SessionWritten
  <2> QED BY <2>5, <2>6, <2>7, <2>8 DEF DeliveryOK
<1> QED BY <1>4, <1>5 DEF SyncConfirm

-------------------------------------------------------------------------------
(* One step per action.                                                    *)

LEMMA DeliveryHandler ==
  ASSUME Types, Types', Rows, NEW r \in Requests, DeliveryOK(r),
         UNCHANGED <<session, marker>>,
         \/ UNCHANGED ledgerVars
         \/ \E at, amount : Reserve(r, at, amount)
         \/ \E attempt, amount : Extend(r, attempt, amount)
         \/ \E actual, unresolved : Hold(r, actual, unresolved)
         \/ \E until : MarkDispatched(r, until)
         \/ Open(r) /\ Uncertain(r)
         \/ \E amount \in Nat : Settle(r, amount)
         \/ entry[r].status = "RESERVED" /\ ReleaseEntry(r)
  PROVE  DeliveryOK(r)'
<1>1. done \subseteq done'
  BY DEF ledgerVars, Reserve, Extend, Hold, MarkDispatched, Uncertain, Settle,
         ReleaseEntry
<1>2. SessionsFit(r) /\ \A p \in Policies : MarkerStill(r, p)
  BY DEF SessionsFit, MarkerStill
<1>3. CASE \/ \E amount \in Nat : Settle(r, amount)
           \/ entry[r].status = "RESERVED" /\ ReleaseEntry(r)
  BY <1>1, <1>3, DeliveryCloses
<1>4. CASE LedgerStill(r)
  BY <1>1, <1>2, <1>4, DeliveryKept
<1>5. CASE UNCHANGED ledgerVars
  BY <1>4, <1>5, UnchangedStill DEF ledgerVars
<1> QED BY <1>3, <1>4, <1>5, MovesStill

LEMMA DeliveryScript ==
  ASSUME Types, Types', NEW r \in Requests, NEW p \in Policies, DeliveryOK(r),
         UNCHANGED ledgerVars, UNCHANGED session,
         \/ UNCHANGED marker
         \/ Quota!QuotaReserve(r, p, Estimate)
         \/ \E cost : Quota!QuotaSettle(r, p, cost)
         \/ Quota!ReleaseConcurrency(r, p)
         \/ Quota!Renew(r, p)
         \/ Quota!FallDue(r, p)
  PROVE  DeliveryOK(r)'
<1>1. LedgerStill(r) /\ done \subseteq done' /\ SessionsFit(r)
  BY DEF ledgerVars, LedgerStill, SessionsFit
<1>2. CASE Quota!QuotaReserve(r, p, Estimate)
  BY <1>1, <1>2, DeliveryReserves
<1>3. CASE \E cost : Quota!QuotaSettle(r, p, cost)
  BY <1>1, <1>3, DeliveryFrees
<1>4. CASE \A q \in Policies : MarkerStill(r, q)
  BY <1>1, <1>4, DeliveryKept
<1>5. CASE UNCHANGED marker
  BY <1>4, <1>5 DEF MarkerStill
<1> QED BY <1>2, <1>3, <1>4, <1>5, FlagsStill

LEMMA DeliverySessions ==
  ASSUME Types, Types', NEW r \in Requests, DeliveryOK(r),
         \/ GatewaySync(r) \/ WorkerSync(r)
         \/ \E s \in Processes : SessionStep(s, r)
  PROVE  DeliveryOK(r)'
<1>1. ASSUME UNCHANGED <<ledgerVars, quotaVars>>, SessionsFit(r)
      PROVE  DeliveryOK(r)'
  <2>1. LedgerStill(r) /\ done \subseteq done'
    BY <1>1 DEF ledgerVars, LedgerStill
  <2>2. \A p \in Policies : MarkerStill(r, p)
    BY <1>1 DEF quotaVars, MarkerStill
  <2> QED BY <1>1, <2>1, <2>2, DeliveryKept
<1>2. CASE GatewaySync(r)
  <2>1. CASE UNCHANGED session
    BY <1>1, <1>2, <2>1 DEF GatewaySync, SessionsFit
  <2>2. CASE OpenSession("gateway", r)
    BY <1>1, <1>2, <2>2, SnapshotTaken
       DEF GatewaySync, ledgerVars, quotaVars, Processes
  <2> QED BY <1>2, <2>1, <2>2 DEF GatewaySync
<1>3. CASE WorkerSync(r)
  BY <1>1, <1>3, SnapshotTaken DEF WorkerSync, ledgerVars, quotaVars, Processes
<1>4. ASSUME NEW s \in Processes, SyncFails(s, r)
      PROVE  DeliveryOK(r)'
  <2>1. SessionsFit(r)
    BY <1>4, SessionWritten DEF SyncFails, SessionsFit, NoSession
  <2> QED BY <1>1, <1>4, <2>1 DEF SyncFails
<1>5. ASSUME NEW s \in Processes, SessionWork(s, r)
      PROVE  DeliveryOK(r)'
  BY <1>5, DeliverySyncSettle, DeliverySyncCorrect, DeliverySyncConfirm
     DEF SessionWork
<1> QED BY <1>2, <1>3, <1>4, <1>5 DEF SessionStep

LEMMA DeliveryGateway ==
  ASSUME Types, Types', Rows, NEW r \in Requests, DeliveryOK(r),
         Accept(r) \/ GatewayStep(r) \/ Heartbeat(r) \/ Crash(r)
  PROVE  DeliveryOK(r)'
<1>1. CASE \/ Accept(r) \/ Refuse(r) \/ RolledBack(r) \/ Interrupt(r)
           \/ PersistFailure(r) \/ PersistRefused(r) \/ SlotsFreed(r)
           \/ Crash(r)
           \/ \E billing \in {"KNOWN", "UNKNOWN", "NO_CHARGE"},
                 cost \in Amounts, again \in BOOLEAN :
                   Answer(r, billing, cost, again)
  <2>1. UNCHANGED <<ledgerVars, session, marker>>
    BY <1>1
       DEF Accept, Refuse, RolledBack, Interrupt, PersistFailure,
           PersistRefused, SlotsFreed, Crash, Answer, StopRenewing, quotaVars
  <2> QED BY <2>1, DeliveryHandler
<1>2. CASE ReserveBudget(r) \/ ExtendBudget(r) \/ Dispatch(r) \/ GiveUp(r)
  <2>1. UNCHANGED <<session, marker>>
    BY <1>2 DEF ReserveBudget, ExtendBudget, Dispatch, GiveUp, quotaVars
  <2>2. \/ UNCHANGED ledgerVars
        \/ \E at, amount : Reserve(r, at, amount)
        \/ \E attempt, amount : Extend(r, attempt, amount)
        \/ \E until : MarkDispatched(r, until)
        \/ Open(r) /\ Uncertain(r)
    BY <1>2 DEF ReserveBudget, ExtendBudget, Dispatch, GiveUp, MarkUncertain
  <2> QED BY <2>1, <2>2, DeliveryHandler
<1>3. CASE Heartbeat(r)
  <2>1. CASE MarkDispatched(r, clock + LeaseTicks) /\ UNCHANGED quotaVars
    <3>1. UNCHANGED <<session, marker>>
      BY <1>3, <2>1 DEF Heartbeat, processVars, quotaVars
    <3> QED BY <2>1, <3>1, DeliveryHandler
  <2>2. ASSUME NEW p \in Policies, Quota!Renew(r, p), UNCHANGED ledgerVars
        PROVE  DeliveryOK(r)'
    BY <1>3, <2>2, DeliveryScript DEF Heartbeat, processVars
  <2> QED BY <1>3, <2>1, <2>2 DEF Heartbeat
<1>4. CASE ReleaseUnsent(r)
  <2>1. UNCHANGED <<session, marker>>
    BY <1>4 DEF ReleaseUnsent, StopRenewing
  <2>2. \/ UNCHANGED ledgerVars
        \/ entry[r].status = "RESERVED" /\ ReleaseEntry(r)
    BY <1>4 DEF ReleaseUnsent, Release
  <2> QED BY <2>1, <2>2, DeliveryHandler
<1>5. CASE Persist(r)
  <2>1. UNCHANGED <<session, marker>> /\ gateway[r].known \in Nat
    BY <1>5, RowsOf DEF Persist, StopRenewing, Gateway
  <2>2. \/ \E actual, unresolved : Hold(r, actual, unresolved)
        \/ \E amount \in Nat : Settle(r, amount)
    BY <1>5, <2>1 DEF Persist
  <2> QED BY <2>1, <2>2, DeliveryHandler
<1>6. CASE GatewaySync(r)
  BY <1>6, DeliverySessions
<1>7. ASSUME NEW p \in Policies,
             ReserveQuota(r, p) \/ Rollback(r, p) \/ RenewQuota(r, p)
               \/ FreeSlot(r, p)
      PROVE  DeliveryOK(r)'
  <2>1. UNCHANGED ledgerVars /\ UNCHANGED session
    BY <1>7 DEF ReserveQuota, Rollback, RenewQuota, FreeSlot
  <2>2. \/ UNCHANGED marker
        \/ Quota!QuotaReserve(r, p, Estimate)
        \/ \E cost : Quota!QuotaSettle(r, p, cost)
        \/ Quota!ReleaseConcurrency(r, p)
        \/ Quota!Renew(r, p)
    BY <1>7
       DEF ReserveQuota, Rollback, RenewQuota, FreeSlot, SettleOrRepeat,
           quotaVars
  <2> QED BY <2>1, <2>2, DeliveryScript
<1> QED
  BY <1>1, <1>2, <1>3, <1>4, <1>5, <1>6, <1>7 DEF GatewayStep

LEMMA DeliveryStep ==
  ASSUME Types, Types', Rows, NEW r \in Requests, DeliveryOK(r), RequestStep(r)
  PROVE  DeliveryOK(r)'
<1>1. CASE Accept(r) \/ GatewayStep(r) \/ Heartbeat(r) \/ Crash(r)
  BY <1>1, DeliveryGateway
<1>2. CASE WorkerStep(r)
  <2>1. CASE WorkerSync(r)
    BY <2>1, DeliverySessions
  <2>2. CASE RecoverEntry(r)
    <3>1. UNCHANGED <<session, marker>>
      BY <2>2 DEF RecoverEntry, processVars, quotaVars
    <3>2. \/ entry[r].status = "RESERVED" /\ ReleaseEntry(r)
          \/ Open(r) /\ Uncertain(r)
      BY <2>2 DEF RecoverEntry, RecoverExpired, Open
    <3> QED BY <3>1, <3>2, DeliveryHandler
  <2>3. ASSUME NEW p \in Policies,
               FindOrphan(r, p) \/ ReleaseOrphan(r, p) \/ RecoverSlot(r, p)
        PROVE  DeliveryOK(r)'
    <3>1. UNCHANGED ledgerVars /\ UNCHANGED session
      BY <2>3 DEF FindOrphan, ReleaseOrphan, RecoverSlot, processVars
    <3>2. \/ UNCHANGED marker
          \/ \E cost : Quota!QuotaSettle(r, p, cost)
          \/ Quota!ReleaseConcurrency(r, p)
      BY <2>3 DEF FindOrphan, ReleaseOrphan, RecoverSlot, quotaVars
    <3> QED BY <3>1, <3>2, DeliveryScript
  <2> QED BY <1>2, <2>1, <2>2, <2>3 DEF WorkerStep
<1>3. CASE \E s \in Processes : SessionStep(s, r)
  BY <1>3, DeliverySessions
<1>4. ASSUME NEW p \in Policies, MarkerFallsDue(r, p)
      PROVE  DeliveryOK(r)'
  BY <1>4, DeliveryScript DEF MarkerFallsDue, processVars
<1>5. ASSUME NEW o \in Operations, NEW action \in {"SETTLE", "RELEASE"},
             NEW amount \in Amounts, AdminReconcile(r, o, action, amount)
      PROVE  DeliveryOK(r)'
  <2>1. UNCHANGED <<marker, session>> /\ amount \in Nat
    BY <1>5, LedgerAssumption DEF AdminReconcile, quotaVars, processVars
  <2> QED BY <1>5, <2>1, DeliveryReconciles DEF AdminReconcile
<1> QED BY <1>1, <1>2, <1>3, <1>4, <1>5 DEF RequestStep

-------------------------------------------------------------------------------
(* The handler's part: what a call leaves in the entry and in the markers. *)

LEMMA EntryAfter ==
  ASSUME Types, NEW r \in Requests
  PROVE  LET e == entry[r]
             f == entry'[r]
         IN /\ \A at, amount : Reserve(r, at, amount) =>
                 /\ e.status = "NONE" /\ f.status = "RESERVED"
                 /\ ~f.dispatched /\ f.reserved = amount
            /\ \A attempt, amount : Extend(r, attempt, amount) =>
                 /\ Open(r) /\ f.status = e.status
                 /\ f.dispatched = e.dispatched
                 /\ f.reserved = e.reserved + amount
            /\ \A actual, unresolved : Hold(r, actual, unresolved) =>
                 /\ Open(r) /\ f.status = "RECONCILIATION_REQUIRED"
                 /\ f.dispatched = e.dispatched /\ f.reserved = unresolved
            /\ \A amount : Settle(r, amount) =>
                 /\ Open(r) /\ f.status = "SETTLED"
                 /\ f.dispatched = e.dispatched /\ f.reserved = e.reserved
            /\ ReleaseEntry(r) =>
                 /\ f.status = "RELEASED"
                 /\ f.dispatched = e.dispatched /\ f.reserved = e.reserved
            /\ \A until : MarkDispatched(r, until) =>
                 /\ e.status = "RESERVED" /\ f.status = "RESERVED"
                 /\ f.dispatched /\ f.reserved = e.reserved
            /\ Uncertain(r) =>
                 /\ f.status = "RECONCILIATION_REQUIRED"
                 /\ f.dispatched = e.dispatched /\ f.reserved = e.reserved
            /\ \A o, action, amount : Reconcile(r, o, action, amount) =>
                 /\ e.status \in {"SETTLED", "RECONCILIATION_REQUIRED"}
                 /\ f.status \in {"SETTLED", "RELEASED"}
                 /\ f.dispatched = e.dispatched /\ f.reserved = e.reserved
<1>0. entry \in [Requests -> Entry] /\ entry[r] \in Entry
  BY RowsOf DEF Types, LedgerTypeOK
<1>1. ASSUME NEW at, NEW amount, Reserve(r, at, amount)
      PROVE  /\ entry[r].status = "NONE" /\ entry'[r].status = "RESERVED"
             /\ ~entry'[r].dispatched /\ entry'[r].reserved = amount
  BY <1>0, <1>1 DEF Reserve, NewEntry
<1>2. ASSUME NEW attempt, NEW amount, Extend(r, attempt, amount)
      PROVE  /\ Open(r) /\ entry'[r].status = entry[r].status
             /\ entry'[r].dispatched = entry[r].dispatched
             /\ entry'[r].reserved = entry[r].reserved + amount
  BY <1>0, <1>2 DEF Extend, Entry
<1>3. ASSUME NEW actual, NEW unresolved, Hold(r, actual, unresolved)
      PROVE  /\ Open(r) /\ entry'[r].status = "RECONCILIATION_REQUIRED"
             /\ entry'[r].dispatched = entry[r].dispatched
             /\ entry'[r].reserved = unresolved
  BY <1>0, <1>3 DEF Hold, Entry
<1>4. ASSUME NEW amount, Settle(r, amount)
      PROVE  /\ Open(r) /\ entry'[r].status = "SETTLED"
             /\ entry'[r].dispatched = entry[r].dispatched
             /\ entry'[r].reserved = entry[r].reserved
  BY <1>0, <1>4 DEF Settle, Entry
<1>5. ASSUME ReleaseEntry(r)
      PROVE  /\ entry'[r].status = "RELEASED"
             /\ entry'[r].dispatched = entry[r].dispatched
             /\ entry'[r].reserved = entry[r].reserved
  BY <1>0, <1>5 DEF ReleaseEntry, Entry
<1>6. ASSUME NEW until, MarkDispatched(r, until)
      PROVE  /\ entry[r].status = "RESERVED" /\ entry'[r].status = "RESERVED"
             /\ entry'[r].dispatched /\ entry'[r].reserved = entry[r].reserved
  BY <1>0, <1>6 DEF MarkDispatched, Entry
<1>7. ASSUME Uncertain(r)
      PROVE  /\ entry'[r].status = "RECONCILIATION_REQUIRED"
             /\ entry'[r].dispatched = entry[r].dispatched
             /\ entry'[r].reserved = entry[r].reserved
  BY <1>0, <1>7 DEF Uncertain, Entry
<1>8. ASSUME NEW o, NEW action, NEW amount, Reconcile(r, o, action, amount)
      PROVE  /\ entry[r].status \in {"SETTLED", "RECONCILIATION_REQUIRED"}
             /\ entry'[r].status \in {"SETTLED", "RELEASED"}
             /\ entry'[r].dispatched = entry[r].dispatched
             /\ entry'[r].reserved = entry[r].reserved
  BY <1>0, <1>8 DEF Reconcile, Entry
<1> QED BY <1>1, <1>2, <1>3, <1>4, <1>5, <1>6, <1>7, <1>8

\* A slot that is given back leaves its cost reserved.
LEMMA FlagsAfter ==
  ASSUME Types, NEW r \in Requests, NEW p \in Policies
  PROVE  /\ Quota!ReleaseConcurrency(r, p) =>
              \A q \in Policies : marker'[r][q].state = marker[r][q].state
         /\ Quota!Renew(r, p) =>
              \A q \in Policies : /\ marker'[r][q].state = marker[r][q].state
                                  /\ marker'[r][q].released = marker[r][q].released
                                  /\ marker'[r][q].due => marker[r][q].due
         /\ Quota!FallDue(r, p) =>
              \A q \in Policies : /\ marker'[r][q].state = marker[r][q].state
                                  /\ marker'[r][q].released = marker[r][q].released
<1>0. marker[r][p] \in Redis!Marker
  BY RowsOf
<1>1. ASSUME Quota!ReleaseConcurrency(r, p)
      PROVE  \A q \in Policies : marker'[r][q].state = marker[r][q].state
  BY <1>1, FlagsStill DEF MarkerStill
<1>2. ASSUME Quota!Renew(r, p), NEW q \in Policies
      PROVE  /\ marker'[r][q].state = marker[r][q].state
             /\ marker'[r][q].released = marker[r][q].released
             /\ marker'[r][q].due => marker[r][q].due
  <2>1. marker'[r][q] = IF q = p THEN [marker[r][p] EXCEPT !.due = FALSE]
                        ELSE marker[r][q]
    BY <1>2, MarkerWritten DEF Quota!Renew
  <2> QED BY <1>0, <2>1 DEF Redis!Marker
<1>3. ASSUME Quota!FallDue(r, p), NEW q \in Policies
      PROVE  /\ marker'[r][q].state = marker[r][q].state
             /\ marker'[r][q].released = marker[r][q].released
  <2>1. marker'[r][q] = IF q = p THEN [marker[r][p] EXCEPT !.due = TRUE]
                        ELSE marker[r][q]
    BY <1>3, MarkerWritten DEF Quota!FallDue
  <2> QED BY <1>0, <2>1 DEF Redis!Marker
<1> QED BY <1>1, <1>2, <1>3

LEMMA SettledMarks ==
  ASSUME Types, NEW r \in Requests, NEW p \in Policies, NEW cost,
         Quota!QuotaSettle(r, p, cost)
  PROVE  \A q \in Policies :
           /\ q # p => marker'[r][q] = marker[r][q]
           /\ marker[r][q].state = "NONE" => marker'[r][q].state = "NONE"
           /\ marker'[r][q].released = marker[r][q].released
<1>1. /\ marker[r][p] \in Redis!Marker /\ marker[r][p].state = "RESERVED"
      /\ \A q \in Policies :
           marker'[r][q] =
             IF q = p THEN [marker[r][p] EXCEPT !.state = "SETTLED",
                              !.actual = cost, !.corrected = cost]
             ELSE marker[r][q]
  BY RowsOf, MarkerWritten DEF Quota!QuotaSettle, Quota!Reserved
<1> QED BY <1>1 DEF Redis!Marker

LEMMA GatewayWritten ==
  ASSUME Types, NEW r \in Requests, NEW g, SetGateway(r, g)
  PROVE  gateway'[r] = g
BY DEF Types, SetGateway

LEMMA GatewayGoes ==
  ASSUME Types, NEW r \in Requests, NEW stage, Goto(r, stage)
  PROVE  /\ gateway'[r].stage = stage
         /\ gateway'[r].mine = gateway[r].mine
         /\ gateway'[r].attempts = gateway[r].attempts
         /\ gateway'[r].unknown = gateway[r].unknown
         /\ gateway'[r].charged = gateway[r].charged
         /\ gateway'[r].called = gateway[r].called
         /\ gateway'[r].overtaken = gateway[r].overtaken
BY GatewayWritten, RowsOf DEF Goto, Gateway

LEMMA OutcomeGoes ==
  ASSUME Types, NEW r \in Requests, NEW g \in Gateway, NEW next, NEW failed,
         Outcome(r, g, next, failed)
  PROVE  /\ gateway'[r].stage \in {next, failed}
         /\ gateway'[r].mine = g.mine
         /\ gateway'[r].attempts = g.attempts
         /\ gateway'[r].unknown = g.unknown
         /\ gateway'[r].charged = g.charged
         /\ gateway'[r].called = g.called
         /\ gateway'[r].overtaken = g.overtaken
BY GatewayWritten DEF Outcome, Gateway

\* What was overtaken is written when the budget is reserved, and never again.
LEMMA OvertakenKept ==
  ASSUME Types, NEW r \in Requests, Crash(r) \/ Accept(r) \/ GatewayStep(r),
         ~ReserveBudget(r)
  PROVE  gateway'[r].overtaken = gateway[r].overtaken
<1> DEFINE g == gateway[r]
           Same == gateway'[r].overtaken = g.overtaken
<1>0. g \in Gateway
  BY RowsOf
<1>1. ASSUME NEW stage, Goto(r, stage)
      PROVE  Same
  BY <1>1, GatewayGoes
<1>2. CASE ExtendBudget(r) \/ Persist(r) \/ ReleaseUnsent(r)
  <2> DEFINE h == [g EXCEPT !.todo = Policies]
  <2>1. h \in Gateway /\ h.overtaken = g.overtaken
    BY <1>0 DEF Gateway
  <2>2. \/ \E stage : Goto(r, stage)
        \/ \E next, failed : Outcome(r, g, next, failed)
        \/ \E next, failed : Outcome(r, h, next, failed)
    BY <1>2 DEF ExtendBudget, Persist, ReleaseUnsent
  <2> HIDE DEF g, h
  <2>3. ASSUME NEW next, NEW failed, Outcome(r, g, next, failed)
        PROVE  Same
    BY <1>0, <2>3, OutcomeGoes
  <2>4. ASSUME NEW next, NEW failed, Outcome(r, h, next, failed)
        PROVE  Same
    BY <2>1, <2>4, OutcomeGoes
  <2> QED BY <1>1, <2>2, <2>3, <2>4 DEF g
<1>3. CASE Dispatch(r)
  <2> DEFINE called == [g EXCEPT !.stage = "CALLING", !.dispatched = TRUE, !.called = TRUE]
             gone == [g EXCEPT !.stage = "FAILED", !.dispatched = TRUE]
  <2>1. called.overtaken = g.overtaken /\ gone.overtaken = g.overtaken
    BY <1>0 DEF Gateway
  <2>2. SetGateway(r, called) \/ SetGateway(r, gone) \/ Goto(r, "FAILED")
    BY <1>3 DEF Dispatch
  <2> HIDE DEF called, gone
  <2> QED BY <1>1, <2>1, <2>2, GatewayWritten
<1>4. CASE Interrupt(r) \/ PersistFailure(r)
  BY <1>0, <1>1, <1>4, GatewayWritten DEF Interrupt, PersistFailure, Gateway
<1>5. ASSUME NEW billing \in {"KNOWN", "UNKNOWN", "NO_CHARGE"},
             NEW cost \in Amounts, NEW again \in BOOLEAN,
             Answer(r, billing, cost, again)
      PROVE  Same
  <2> DEFINE attempts == g.attempts + 1
             known == g.known + cost
             unknown == IF billing = "UNKNOWN" THEN g.unknown + 1 ELSE g.unknown
             charged == billing # "NO_CHARGE"
             stage == IF ~again THEN "PERSIST"
                      ELSE IF g.attempts + 1 < MaxAttempts THEN "READY"
                      ELSE "FAILED"
  <2>1. gateway'[r] = [g EXCEPT !.attempts = attempts, !.known = known,
                                !.unknown = unknown, !.charged = charged,
                                !.stage = stage]
    BY <1>5, GatewayWritten DEF Answer
  <2> HIDE DEF g, attempts, known, unknown, charged, stage
  <2> QED BY <1>0, <2>1 DEF Gateway
<1>6. CASE \E p \in Policies : \/ ReserveQuota(r, p) \/ Rollback(r, p)
                               \/ RenewQuota(r, p) \/ FreeSlot(r, p)
  BY <1>0, <1>1, <1>6, GatewayWritten
     DEF ReserveQuota, Rollback, RenewQuota, FreeSlot, Gateway
<1>7. CASE \/ Crash(r) \/ Accept(r) \/ Refuse(r) \/ RolledBack(r)
           \/ PersistRefused(r) \/ GiveUp(r) \/ SlotsFreed(r) \/ GatewaySync(r)
  BY <1>1, <1>7 DEF Crash, Accept, Refuse, RolledBack, PersistRefused, GiveUp,
                    SlotsFreed, GatewaySync
<1> QED BY <1>2, <1>3, <1>4, <1>5, <1>6, <1>7 DEF GatewayStep

LEMMA Estimates ==
  ASSUME NEW n \in Nat
  PROVE  /\ n * Estimate \in Nat
         /\ (n + 1) * Estimate = n * Estimate + Estimate
         /\ 0 * Estimate = 0 /\ 1 * Estimate = Estimate
BY RequestAssumption

-------------------------------------------------------------------------------
(* Steps that the handler does not take: heartbeat, worker, administrator.  *)

\* To a request that is reserving its quota they do nothing it relies on.
LEMMA HandlerLeft ==
  ASSUME NEW r \in Requests, RequestOK(r), gateway'[r] = gateway[r],
         entry[r].dispatched => entry'[r].dispatched,
         entry'[r].status = "NONE" => entry'[r] = entry[r],
         entry'[r].reserved = entry[r].reserved,
         gateway[r].stage = "ROLLBACK" => ~entry'[r].dispatched,
         gateway[r].stage \in {"IDLE", "QUOTA"} =>
           /\ entry'[r].status = "NONE"
           /\ \A p \in Policies :
                /\ marker[r][p].state = "NONE" => marker'[r][p].state = "NONE"
                /\ marker'[r][p].released = marker[r][p].released
           /\ r \in renewing => r \in renewing',
         LedgerKind = "GROUP" => HoldsOK(r)'
  PROVE  RequestOK(r)'
<1>1. HandlerOK(r)'
  BY DEF RequestOK, HandlerOK
<1>2. CoveredOK(r)'
  BY DEF RequestOK, CoveredOK, Unresolved
<1> QED BY <1>1, <1>2 DEF RequestOK

LEMMA HandlerHeartbeat ==
  ASSUME Types, NEW r \in Requests, RequestOK(r), Heartbeat(r)
  PROVE  RequestOK(r)'
<1>1. /\ gateway[r].stage \in {"READY", "RENEW", "CALLING", "FAILED"}
      /\ gateway'[r] = gateway[r] /\ orphan'[r] = orphan[r]
  BY DEF Heartbeat, processVars
<1>2. CASE MarkDispatched(r, clock + LeaseTicks) /\ UNCHANGED quotaVars
  <2>1. /\ entry[r].status = "RESERVED" /\ entry'[r].status = "RESERVED"
        /\ entry'[r].dispatched /\ entry'[r].reserved = entry[r].reserved
    BY <1>2, EntryAfter
  <2>2. LedgerKind = "GROUP" => HoldsOK(r)'
    BY <1>1, <1>2, <2>1 DEF RequestOK, HoldsOK, Open, Quota!Reserved, quotaVars
  <2> QED BY <1>1, <2>1, <2>2, HandlerLeft
<1>3. ASSUME NEW p \in Policies, Quota!Renew(r, p), UNCHANGED ledgerVars
      PROVE  RequestOK(r)'
  <2>1. entry' = entry
    BY <1>3 DEF ledgerVars
  <2>2. LedgerKind = "GROUP" => HoldsOK(r)'
    BY <1>1, <1>3, <2>1, FlagsAfter DEF RequestOK, HoldsOK, Open, Quota!Reserved
  <2> QED BY <1>1, <2>1, <2>2, HandlerLeft
<1> QED BY <1>2, <1>3 DEF Heartbeat

\* syncQuota works on a closed entry, which needs its quota no more.
LEMMA HandlerSession ==
  ASSUME Types, NEW r \in Requests, RequestOK(r), DeliveryOK(r),
         NEW s \in Processes, SessionStep(s, r)
  PROVE  RequestOK(r)'
<1>1. Closed(r)
  BY DEF SessionStep, SessionWork, SyncSettle, SyncCorrect, SyncConfirm,
         SyncFails, DeliveryOK, SnapshotOK
<1>2. gateway' = gateway /\ orphan' = orphan
  BY DEF SessionStep, SessionWork, SyncSettle, SyncCorrect, SyncConfirm,
         SyncFails
<1>3. entry' = entry
  BY DEF SessionStep, SessionWork, SyncSettle, SyncCorrect, SyncConfirm,
         SyncFails, ConfirmSync, ledgerVars
<1>4. gateway[r].stage \notin {"IDLE", "QUOTA"}
  BY <1>1 DEF RequestOK, HandlerOK, Closed
<1>5. LedgerKind = "GROUP" => HoldsOK(r)'
  BY <1>1, <1>2, <1>3 DEF RequestOK, HoldsOK, Open, Closed
<1>6. gateway[r].stage = "ROLLBACK" => ~entry[r].dispatched
  BY DEF RequestOK, HandlerOK
<1> QED BY <1>2, <1>3, <1>4, <1>5, <1>6, HandlerLeft

LEMMA HandlerWorker ==
  ASSUME Types, NEW r \in Requests, RequestOK(r), WorkerStep(r)
  PROVE  RequestOK(r)'
<1>0. gateway[r].stage = "ROLLBACK" => ~entry[r].dispatched
  BY DEF RequestOK, HandlerOK
<1>1. CASE WorkerSync(r)
  <2>1. /\ UNCHANGED <<entry, marker, renewing>>
        /\ gateway' = gateway /\ orphan' = orphan
    BY <1>1 DEF WorkerSync, ledgerVars, quotaVars
  <2>2. LedgerKind = "GROUP" => HoldsOK(r)'
    BY <2>1 DEF RequestOK, HoldsOK, Open, Quota!Reserved
  <2> QED BY <1>0, <2>1, <2>2, HandlerLeft DEF RequestOK, HandlerOK
<1>2. CASE RecoverEntry(r)
  <2>1. /\ UNCHANGED <<marker, renewing>>
        /\ gateway' = gateway /\ orphan' = orphan
    BY <1>2 DEF RecoverEntry, processVars, quotaVars
  <2>2. /\ entry[r].status = "RESERVED"
        /\ entry'[r].status \in {"RECONCILIATION_REQUIRED", "RELEASED"}
        /\ entry'[r].dispatched = entry[r].dispatched
        /\ entry'[r].reserved = entry[r].reserved
    BY <1>2, EntryAfter DEF RecoverEntry, RecoverExpired
  <2>3. LedgerKind = "GROUP" => HoldsOK(r)'
    BY <2>1, <2>2 DEF RequestOK, HoldsOK, Open, Quota!Reserved
  <2>4. gateway[r].stage \notin {"IDLE", "QUOTA"}
    BY <2>2 DEF RequestOK, HandlerOK
  <2> QED BY <1>0, <2>1, <2>2, <2>3, <2>4, HandlerLeft
<1>3. ASSUME NEW p \in Policies, FindOrphan(r, p)
      PROVE  RequestOK(r)'
  <2>1. UNCHANGED <<entry, marker, renewing>> /\ gateway' = gateway
    BY <1>3 DEF FindOrphan, ledgerVars, quotaVars
  <2>2. ASSUME LedgerKind = "GROUP"
        PROVE  HoldsOK(r)'
    <3>1. entry[r].status = "NONE"
      BY <1>3, <2>2 DEF FindOrphan
    <3> QED BY <2>1, <3>1 DEF HoldsOK, Open
  <2> QED BY <1>0, <2>1, <2>2, HandlerLeft DEF RequestOK, HandlerOK
\* Of a request that has an entry only what was overtaken is released.
<1>4. ASSUME NEW p \in Policies, ReleaseOrphan(r, p)
      PROVE  RequestOK(r)'
  <2>1. /\ entry' = entry /\ gateway' = gateway /\ p \in orphan[r]
        /\ orphan'[r] = orphan[r] \ {p} /\ renewing' = renewing
        /\ UNCHANGED quotaVars \/ Quota!QuotaSettle(r, p, 0)
    BY <1>4 DEF ReleaseOrphan, ledgerVars, quotaVars, Types, Quota!QuotaSettle
  <2>2. \A q \in Policies :
          /\ q # p => marker'[r][q] = marker[r][q]
          /\ marker[r][q].state = "NONE" => marker'[r][q].state = "NONE"
          /\ marker'[r][q].released = marker[r][q].released
    BY <2>1, SettledMarks DEF quotaVars
  <2>3. ASSUME LedgerKind = "GROUP"
        PROVE  HoldsOK(r)'
    <3>1. CASE entry[r].status = "NONE"
      BY <2>1, <2>3, <3>1 DEF HoldsOK, Open
    <3>2. CASE entry[r].status # "NONE"
      <4>1. HoldsOK(r) /\ p \in gateway[r].overtaken
        BY <2>1, <2>3, <3>2, RowsOf DEF RequestOK, HoldsOK
      <4> QED BY <2>1, <2>2, <3>2, <4>1 DEF HoldsOK, Open, Quota!Reserved
    <3> QED BY <3>1, <3>2
  <2> QED BY <1>0, <2>1, <2>2, <2>3, HandlerLeft DEF RequestOK, HandlerOK
<1>5. ASSUME NEW p \in Policies, RecoverSlot(r, p)
      PROVE  RequestOK(r)'
  <2>1. /\ entry' = entry /\ gateway' = gateway /\ orphan' = orphan
        /\ Quota!ReleaseConcurrency(r, p)
        /\ entry[r].status = "RECONCILIATION_REQUIRED"
    BY <1>5 DEF RecoverSlot, ledgerVars, processVars
  <2>2. gateway[r].stage \notin {"IDLE", "QUOTA"}
    BY <2>1 DEF RequestOK, HandlerOK
  <2>3. LedgerKind = "GROUP" => HoldsOK(r)'
    BY <2>1, FlagsAfter DEF RequestOK, HoldsOK, Open, Quota!Reserved
  <2> QED BY <1>0, <2>1, <2>2, <2>3, HandlerLeft
<1> QED BY <1>1, <1>2, <1>3, <1>4, <1>5 DEF WorkerStep

LEMMA HandlerFallsDue ==
  ASSUME Types, NEW r \in Requests, RequestOK(r), NEW p \in Policies,
         MarkerFallsDue(r, p)
  PROVE  RequestOK(r)'
<1>1. /\ entry' = entry /\ gateway' = gateway /\ orphan' = orphan
      /\ Quota!FallDue(r, p) /\ renewing' = renewing
  BY DEF MarkerFallsDue, ledgerVars, processVars, Quota!FallDue
<1>2. \A q \in Policies : /\ marker'[r][q].state = marker[r][q].state
                          /\ marker'[r][q].released = marker[r][q].released
  BY <1>1, FlagsAfter
<1>3. LedgerKind = "GROUP" => HoldsOK(r)'
  BY <1>1, <1>2 DEF RequestOK, HoldsOK, Open, Quota!Reserved
<1>4. gateway[r].stage = "ROLLBACK" => ~entry[r].dispatched
  BY DEF RequestOK, HandlerOK
<1> QED BY <1>1, <1>2, <1>3, <1>4, HandlerLeft DEF RequestOK, HandlerOK

LEMMA HandlerReconcile ==
  ASSUME Types, NEW r \in Requests, RequestOK(r), NEW o, NEW action,
         NEW amount, AdminReconcile(r, o, action, amount)
  PROVE  RequestOK(r)'
<1>1. /\ UNCHANGED <<marker, renewing>>
      /\ gateway' = gateway /\ orphan' = orphan
  BY DEF AdminReconcile, processVars, quotaVars
<1>2. /\ entry[r].status \in {"SETTLED", "RECONCILIATION_REQUIRED"}
      /\ entry'[r].status \in {"SETTLED", "RELEASED"}
      /\ entry'[r].dispatched = entry[r].dispatched
      /\ entry'[r].reserved = entry[r].reserved
  BY EntryAfter DEF AdminReconcile
<1>3. /\ gateway[r].stage \notin {"IDLE", "QUOTA"}
      /\ gateway[r].stage = "ROLLBACK" => ~entry[r].dispatched
  BY <1>2 DEF RequestOK, HandlerOK
<1>4. LedgerKind = "GROUP" => HoldsOK(r)'
  BY <1>1, <1>2 DEF RequestOK, HoldsOK, Open
<1> QED BY <1>1, <1>2, <1>3, <1>4, HandlerLeft

-------------------------------------------------------------------------------
(* The handler's own steps.                                                *)

\* A handler that has begun, and has left the stages of the reservation.
LEMMA HandlerBegun ==
  ASSUME NEW r \in Requests, HandlerOK(r),
         gateway'[r].stage \notin {"IDLE", "QUOTA"},
         gateway'[r].stage \in {"READY", "RENEW", "CALLING"} =>
           gateway'[r].attempts < MaxAttempts,
         gateway'[r].stage = "ROLLBACK" => ~entry'[r].dispatched,
         gateway'[r].called => entry'[r].dispatched,
         entry'[r].status = "NONE" =>
           /\ gateway'[r].stage \in {"ROLLBACK", "DONE"}
           /\ ~entry'[r].dispatched
  PROVE  HandlerOK(r)'
BY DEF HandlerOK

LEMMA ReservingSteps ==
  ASSUME Types, NEW r \in Requests, RequestOK(r),
         Accept(r) \/ Refuse(r) \/ \E p \in Policies : ReserveQuota(r, p)
  PROVE  RequestOK(r)'
<1> DEFINE g == gateway[r]
<1>0. g \in Gateway /\ HandlerOK(r) /\ CoveredOK(r)
  BY RowsOf DEF RequestOK
<1>1. /\ g.stage \in {"IDLE", "QUOTA"} /\ entry' = entry /\ orphan' = orphan
      /\ entry[r].status = "NONE" /\ g.attempts = 0
      /\ ~entry[r].dispatched /\ ~g.called /\ g.unknown = 0
  BY <1>0 DEF Accept, Refuse, ReserveQuota, At, HandlerOK, CoveredOK, ledgerVars
<1>2. HoldsOK(r)'
  BY <1>1 DEF HoldsOK, Open
<1>3. CASE Accept(r) \/ Refuse(r)
  <2>1. /\ UNCHANGED <<marker, renewing>>
        /\ gateway'[r].stage \in {"QUOTA", "ROLLBACK"}
        /\ gateway'[r].mine = g.mine /\ gateway'[r].attempts = 0
        /\ gateway'[r].unknown = 0 /\ ~gateway'[r].called
    BY <1>1, <1>3, GatewayGoes DEF Accept, Refuse, quotaVars
  <2>2. g.stage = "IDLE" => g.mine = {}
    BY <1>0 DEF HandlerOK
  <2>3. g.stage = "QUOTA" => gateway'[r].stage = "ROLLBACK"
    BY <1>3, GatewayGoes DEF Accept, Refuse, At
  <2>4. HandlerOK(r)'
    BY <1>0, <1>1, <2>1, <2>2, <2>3 DEF HandlerOK
  <2>5. CoveredOK(r)'
    BY <1>1, <2>1 DEF CoveredOK
  <2> QED BY <1>2, <2>4, <2>5 DEF RequestOK
<1>4. ASSUME NEW p \in Policies, ReserveQuota(r, p)
      PROVE  RequestOK(r)'
  <2>1. PICK m : /\ Quota!SetMarker(r, p, m)
                 /\ m.state = "RESERVED" /\ m.version = 0
                 /\ ~m.due /\ ~m.released
    BY <1>4, ReservationMarks DEF ReserveQuota
  <2>2. \A q \in Policies :
          marker'[r][q] = IF q = p THEN m ELSE marker[r][q]
    BY <2>1, MarkerWritten
  <2>3. /\ g.stage = "QUOTA" /\ p \notin g.mine /\ r \in renewing'
    BY <1>4 DEF ReserveQuota, At, Quota!QuotaReserve
  <2>4. \A q \in Policies :
          IF q \in g.mine THEN ~marker[r][q].released
          ELSE marker[r][q].state = "NONE"
    BY <1>0, <2>3 DEF HandlerOK
  <2>5. /\ gateway'[r].attempts = 0 /\ gateway'[r].unknown = 0
        /\ ~gateway'[r].called
        /\ \/ gateway'[r].stage = "ROLLBACK"
           \/ /\ gateway'[r].stage = "QUOTA"
              /\ gateway'[r].mine = g.mine \cup {p}
    <3>1. CASE Goto(r, "ROLLBACK")
      BY <1>1, <3>1, GatewayGoes
    <3>2. CASE SetGateway(r, [gateway[r] EXCEPT !.mine = @ \cup {p}])
      BY <1>0, <1>1, <2>3, <3>2, GatewayWritten DEF Gateway
    <3> QED BY <1>4, <3>1, <3>2 DEF ReserveQuota
  <2>6. gateway'[r].stage = "QUOTA" =>
          \A q \in Policies :
            IF q \in gateway'[r].mine THEN ~marker'[r][q].released
            ELSE marker'[r][q].state = "NONE"
    BY <2>1, <2>2, <2>4, <2>5
  <2>7. HandlerOK(r)'
    BY <1>1, <2>3, <2>5, <2>6 DEF HandlerOK
  <2>8. CoveredOK(r)'
    BY <2>5 DEF CoveredOK
  <2> QED BY <1>2, <2>7, <2>8 DEF RequestOK
<1> QED BY <1>3, <1>4

LEMMA ReservedStep ==
  ASSUME Types, NEW r \in Requests, RequestOK(r), ReserveBudget(r)
  PROVE  RequestOK(r)'
<1> DEFINE g == gateway[r]
<1>0. g \in Gateway /\ HandlerOK(r) /\ CoveredOK(r)
  BY RowsOf DEF RequestOK
<1>1. /\ g.stage = "QUOTA" /\ g.mine = Policies
      /\ orphan' = orphan /\ UNCHANGED quotaVars
  BY DEF ReserveBudget, At
<1>2. /\ g.attempts = 0 /\ g.unknown = 0 /\ ~g.called
      /\ \A p \in Policies : ~marker[r][p].released
  BY <1>0, <1>1 DEF HandlerOK, CoveredOK
<1>3. /\ entry'[r].status = "RESERVED" /\ ~entry'[r].dispatched
      /\ entry'[r].reserved = Estimate
  BY EntryAfter DEF ReserveBudget
<1>4. /\ gateway'[r].stage \in {"READY", "ROLLBACK"}
      /\ gateway'[r].attempts = 0 /\ gateway'[r].unknown = 0
      /\ ~gateway'[r].called /\ gateway'[r].overtaken = Overtaken(r)
  <2> DEFINE h == [g EXCEPT !.overtaken = Overtaken(r)]
  <2>1. /\ h \in Gateway /\ h.attempts = 0 /\ h.unknown = 0 /\ ~h.called
        /\ h.overtaken = Overtaken(r) /\ Outcome(r, h, "READY", "ROLLBACK")
    BY <1>0, <1>2 DEF ReserveBudget, Gateway, Overtaken
  <2> HIDE DEF h
  <2> QED BY <2>1, OutcomeGoes
<1>5. HandlerOK(r)'
  BY <1>0, <1>3, <1>4, HandlerBegun, RequestAssumption
<1>6. HoldsOK(r)'
  BY <1>1, <1>2, <1>3, <1>4 DEF HoldsOK, Overtaken, Quota!Reserved, quotaVars
<1>7. CoveredOK(r)'
  <2>1. Unresolved(gateway'[r]) = 0
    BY <1>4, Estimates DEF Unresolved
  <2> QED BY <1>3, <1>4, <2>1, RequestAssumption DEF CoveredOK
<1> QED BY <1>5, <1>6, <1>7 DEF RequestOK

LEMMA RollbackSteps ==
  ASSUME Types, NEW r \in Requests, RequestOK(r),
         RolledBack(r) \/ \E p \in Policies : Rollback(r, p)
  PROVE  RequestOK(r)'
<1> DEFINE g == gateway[r]
<1>0. g \in Gateway /\ HandlerOK(r)
  BY RowsOf DEF RequestOK
<1>1. /\ g.stage = "ROLLBACK" /\ entry' = entry /\ orphan' = orphan
      /\ ~entry[r].dispatched /\ ~g.called
  BY <1>0 DEF RolledBack, Rollback, At, HandlerOK, ledgerVars
<1>2. gateway'[r].stage \in {"ROLLBACK", "DONE"} /\ ~gateway'[r].called
  <2>1. CASE RolledBack(r)
    BY <1>1, <2>1, GatewayGoes DEF RolledBack
  <2>2. ASSUME NEW p \in Policies, Rollback(r, p)
        PROVE  <1>2!:
    BY <1>0, <1>1, <2>2, GatewayWritten DEF Rollback, Gateway
  <2> QED BY <2>1, <2>2
<1>3. HandlerOK(r)'
  BY <1>0, <1>1, <1>2, HandlerBegun
<1>4. CoveredOK(r)'
  BY <1>2 DEF CoveredOK
<1>5. LedgerKind = "GROUP" => HoldsOK(r)'
  BY <1>1, <1>2, OvertakenKept DEF RequestOK, HoldsOK, Open, ReserveBudget, At,
         GatewayStep
<1> QED BY <1>3, <1>4, <1>5 DEF RequestOK

-------------------------------------------------------------------------------
(* The retry loop: the reservation is always ahead of the next attempt.    *)

Looping == {"READY", "RENEW", "CALLING", "FAILED"}

\* Steps of the loop that leave the markers, but for their due times, alone.
LEMMA LoopHolds ==
  ASSUME NEW r \in Requests, LedgerKind = "GROUP" => HoldsOK(r),
         gateway[r].stage \in Looping, orphan' = orphan,
         gateway'[r].overtaken = gateway[r].overtaken,
         \A p \in Policies : /\ marker'[r][p].state = marker[r][p].state
                             /\ marker'[r][p].released = marker[r][p].released,
         entry'[r].status = entry[r].status,
         entry'[r].dispatched => \/ entry[r].dispatched
                                 \/ entry[r].status = "RESERVED"
  PROVE  LedgerKind = "GROUP" => HoldsOK(r)'
BY DEF HoldsOK, Looping, Open, Quota!Reserved

LEMMA ExtendStep ==
  ASSUME Types, NEW r \in Requests, RequestOK(r), ExtendBudget(r)
  PROVE  RequestOK(r)'
<1> DEFINE g == gateway[r]
           h == [g EXCEPT !.todo = Policies]
<1>0. /\ g \in Gateway /\ HandlerOK(r) /\ CoveredOK(r) /\ h \in Gateway
      /\ g.unknown \in Nat /\ g.attempts \in Nat /\ entry[r].reserved \in Nat
  BY RowsOf DEF RequestOK, Gateway, Entry
<1>1. g.stage = "READY" /\ orphan' = orphan /\ UNCHANGED quotaVars
  BY DEF ExtendBudget, At
<1>2. /\ gateway'[r].stage \in {"RENEW", "FAILED"}
      /\ gateway'[r].attempts = g.attempts /\ gateway'[r].unknown = g.unknown
      /\ gateway'[r].charged = g.charged /\ gateway'[r].called = g.called
  <2>1. Outcome(r, h, "RENEW", "FAILED")
    BY DEF ExtendBudget
  <2>2. /\ h.attempts = g.attempts /\ h.unknown = g.unknown
        /\ h.charged = g.charged /\ h.called = g.called
    BY <1>0 DEF Gateway
  <2> HIDE DEF g, h
  <2> QED BY <1>0, <2>1, <2>2, OutcomeGoes
<1>3. /\ entry'[r].status = entry[r].status
      /\ entry'[r].dispatched = entry[r].dispatched
      /\ entry'[r].reserved =
           IF g.attempts > 0 /\ g.charged THEN entry[r].reserved + Estimate
           ELSE entry[r].reserved
  BY EntryAfter DEF ExtendBudget, ledgerVars
<1>4. entry[r].status # "NONE" /\ g.attempts < MaxAttempts
  BY <1>0, <1>1 DEF HandlerOK
<1>5. g.called => entry[r].dispatched
  BY <1>0 DEF HandlerOK
<1>6. HandlerOK(r)'
  BY <1>0, <1>2, <1>3, <1>4, <1>5, HandlerBegun
<1>7. LedgerKind = "GROUP" => HoldsOK(r)'
  <2>1. gateway'[r].overtaken = g.overtaken
    BY <1>1, OvertakenKept DEF ReserveBudget, At, GatewayStep
  <2> QED BY <1>1, <1>3, <2>1, LoopHolds DEF RequestOK, Looping, quotaVars
<1>8. CoveredOK(r)'
  <2> DEFINE n == g.unknown * Estimate
  <2>1. n \in Nat /\ Unresolved(g) = n /\ Unresolved(gateway'[r]) = n
    BY <1>0, <1>2, Estimates DEF Unresolved
  <2>2. /\ g.attempts = 0 => g.unknown = 0
        /\ n <= entry[r].reserved
        /\ g.attempts = 0 \/ ~g.charged => n + Estimate <= entry[r].reserved
    BY <1>0, <1>1, <2>1 DEF CoveredOK
  <2> HIDE DEF n
  <2>3. n + Estimate <= entry'[r].reserved
    BY <1>0, <1>3, <2>1, <2>2, RequestAssumption
  <2>4. n <= entry'[r].reserved
    BY <1>0, <1>3, <2>1, <2>2, RequestAssumption
  <2> QED BY <1>2, <2>1, <2>2, <2>3, <2>4 DEF CoveredOK
<1> QED BY <1>6, <1>7, <1>8 DEF RequestOK

LEMMA RenewDispatchSteps ==
  ASSUME Types, NEW r \in Requests, RequestOK(r),
         Dispatch(r) \/ Interrupt(r) \/ \E p \in Policies : RenewQuota(r, p)
  PROVE  RequestOK(r)'
<1> DEFINE g == gateway[r]
<1>0. /\ g \in Gateway /\ HandlerOK(r) /\ CoveredOK(r)
      /\ entry[r].reserved \in Nat /\ Unresolved(g) \in Nat
  BY RowsOf, Estimates DEF RequestOK, Gateway, Entry, Unresolved
<1>1. g.stage \in {"READY", "RENEW"} /\ orphan' = orphan
  BY DEF Dispatch, Interrupt, RenewQuota, At
<1>2. /\ \/ gateway'[r].stage = "FAILED"
         \/ g.stage = "RENEW" /\ gateway'[r].stage \in {"RENEW", "CALLING"}
      /\ gateway'[r].attempts = g.attempts /\ gateway'[r].unknown = g.unknown
      /\ gateway'[r].charged = g.charged
  <2>1. CASE Goto(r, "FAILED")
    BY <2>1, GatewayGoes
  <2>2. CASE SetGateway(r, [g EXCEPT !.stage = "FAILED", !.dispatched = TRUE])
    BY <1>0, <2>2, GatewayWritten DEF Gateway
  <2>3. CASE /\ g.stage = "RENEW"
             /\ SetGateway(r, [g EXCEPT !.stage = "CALLING",
                                        !.dispatched = TRUE, !.called = TRUE])
    <3>1. gateway'[r] = [g EXCEPT !.stage = "CALLING",
                                  !.dispatched = TRUE, !.called = TRUE]
      BY <2>3, GatewayWritten
    <3> QED BY <1>0, <2>3, <3>1 DEF Gateway
  <2>4. CASE SetGateway(r, [g EXCEPT !.stage = "FAILED", !.todo = {}])
    BY <1>0, <2>4, GatewayWritten DEF Gateway
  <2>5. ASSUME g.stage = "RENEW", NEW p,
               SetGateway(r, [g EXCEPT !.todo = @ \ {p}])
        PROVE  <1>2!:
    BY <1>0, <2>5, GatewayWritten DEF Gateway
  <2> QED
    BY <2>1, <2>2, <2>3, <2>4, <2>5 DEF Dispatch, Interrupt, RenewQuota, At
<1>3. /\ entry'[r].status = entry[r].status
      /\ entry'[r].reserved = entry[r].reserved
      /\ entry'[r].dispatched => entry[r].dispatched \/ entry[r].status = "RESERVED"
      /\ entry[r].dispatched => entry'[r].dispatched
  BY EntryAfter DEF Dispatch, Interrupt, RenewQuota, ledgerVars
<1>4. gateway'[r].called => entry'[r].dispatched
  <2>1. g.called => entry[r].dispatched
    BY <1>0 DEF HandlerOK
  <2>2. CASE Dispatch(r)
    BY <2>2, EntryAfter DEF Dispatch
  <2>3. CASE Interrupt(r) \/ \E p \in Policies : RenewQuota(r, p)
    <3>1. ASSUME Interrupt(r)
          PROVE  gateway'[r].called = g.called
      <4>1. gateway'[r] = [g EXCEPT !.stage = "FAILED", !.todo = {}]
        BY <3>1, GatewayWritten DEF Interrupt
      <4> QED BY <1>0, <4>1 DEF Gateway
    <3>2. ASSUME NEW p \in Policies, RenewQuota(r, p)
          PROVE  gateway'[r].called = g.called
      <4>1. gateway'[r] = [g EXCEPT !.todo = @ \ {p}]
        BY <3>2, GatewayWritten DEF RenewQuota
      <4> QED BY <1>0, <4>1 DEF Gateway
    <3> QED BY <1>3, <2>1, <2>3, <3>1, <3>2
  <2> QED BY <2>2, <2>3
<1>5. /\ g.attempts < MaxAttempts /\ entry[r].status # "NONE"
  BY <1>0, <1>1 DEF HandlerOK
<1>6. HandlerOK(r)'
  BY <1>0, <1>1, <1>2, <1>3, <1>4, <1>5, HandlerBegun
<1>7. \A p \in Policies : /\ marker'[r][p].state = marker[r][p].state
                          /\ marker'[r][p].released = marker[r][p].released
  BY FlagsAfter DEF Dispatch, Interrupt, RenewQuota, quotaVars
<1>8. LedgerKind = "GROUP" => HoldsOK(r)'
  <2>1. gateway'[r].overtaken = g.overtaken
    BY <1>1, OvertakenKept DEF ReserveBudget, At, GatewayStep
  <2> QED BY <1>1, <1>3, <1>7, <2>1, LoopHolds DEF RequestOK, Looping
<1>9. CoveredOK(r)'
  <2>1. Unresolved(gateway'[r]) = Unresolved(g)
    BY <1>2 DEF Unresolved
  <2>2. /\ g.attempts = 0 => g.unknown = 0
        /\ Unresolved(g) <= entry[r].reserved
        /\ g.attempts = 0 \/ ~g.charged \/ g.stage = "RENEW" =>
             Unresolved(g) + Estimate <= entry[r].reserved
    <3>1. CASE g.stage = "READY"
      BY <1>0, <3>1 DEF CoveredOK
    <3>2. CASE g.stage = "RENEW"
      <4>1. Unresolved(g) + Estimate <= entry[r].reserved
        BY <1>0, <3>2 DEF CoveredOK
      <4>2. Unresolved(g) <= entry[r].reserved
        <5> HIDE DEF g
        <5> QED BY <1>0, <4>1, RequestAssumption
      <4> QED BY <1>0, <3>2, <4>1, <4>2 DEF CoveredOK
    <3> QED BY <1>1, <3>1, <3>2
  <2> QED BY <1>2, <1>3, <2>1, <2>2 DEF CoveredOK
<1> QED BY <1>6, <1>8, <1>9 DEF RequestOK

LEMMA AnswerStep ==
  ASSUME Types, NEW r \in Requests, RequestOK(r),
         NEW billing \in {"KNOWN", "UNKNOWN", "NO_CHARGE"},
         NEW cost \in Amounts, NEW again \in BOOLEAN,
         Answer(r, billing, cost, again)
  PROVE  RequestOK(r)'
<1> DEFINE g == gateway[r]
<1>0. /\ g \in Gateway /\ HandlerOK(r) /\ CoveredOK(r)
      /\ g.attempts \in Nat /\ g.unknown \in Nat
      /\ entry[r].reserved \in Nat /\ Unresolved(g) \in Nat
  <2>1. /\ g \in Gateway /\ HandlerOK(r) /\ CoveredOK(r)
        /\ entry[r].reserved \in Nat
    BY RowsOf DEF RequestOK, Entry
  <2>2. g.attempts \in 0 .. MaxAttempts /\ g.unknown \in Nat
    BY <2>1 DEF Gateway
  <2> HIDE DEF g
  <2> QED BY <2>1, <2>2, Estimates, RequestAssumption DEF Unresolved
<1>1. /\ g.stage = "CALLING" /\ entry' = entry /\ orphan' = orphan
      /\ marker' = marker
  BY DEF Answer, At, ledgerVars, quotaVars
<1>2. /\ gateway'[r].stage \in {"PERSIST", "READY", "FAILED"}
      /\ gateway'[r].stage = "READY" => g.attempts + 1 < MaxAttempts
      /\ gateway'[r].attempts = g.attempts + 1
      /\ gateway'[r].unknown =
           IF billing = "UNKNOWN" THEN g.unknown + 1 ELSE g.unknown
      /\ gateway'[r].charged <=> billing # "NO_CHARGE"
      /\ gateway'[r].called = g.called
  <2> DEFINE stage == IF ~again THEN "PERSIST"
                      ELSE IF g.attempts + 1 < MaxAttempts THEN "READY"
                      ELSE "FAILED"
             charged == billing # "NO_CHARGE"
             unknown == IF billing = "UNKNOWN" THEN g.unknown + 1
                        ELSE g.unknown
             known == g.known + cost
             attempts == g.attempts + 1
  <2>1. gateway'[r] = [g EXCEPT !.attempts = attempts, !.known = known,
                                !.unknown = unknown, !.charged = charged,
                                !.stage = stage]
    BY GatewayWritten DEF Answer
  <2>2. /\ stage \in {"PERSIST", "READY", "FAILED"}
        /\ stage = "READY" => attempts < MaxAttempts
    OBVIOUS
  <2>3. /\ gateway'[r].stage = stage /\ gateway'[r].attempts = attempts
        /\ gateway'[r].unknown = unknown /\ gateway'[r].charged = charged
        /\ gateway'[r].called = g.called
    <3> HIDE DEF g, stage, charged, unknown, known, attempts
    <3> QED BY <1>0, <2>1 DEF Gateway
  <2>4. gateway'[r].charged <=> billing # "NO_CHARGE"
    BY <2>3, Zenon
  <2> HIDE DEF charged
  <2> QED BY <2>2, <2>3, <2>4
<1>3. entry[r].status # "NONE" /\ (g.called => entry[r].dispatched)
  BY <1>0, <1>1 DEF HandlerOK
<1>4. HandlerOK(r)'
  BY <1>0, <1>1, <1>2, <1>3, HandlerBegun DEF HandlerOK
<1>5. LedgerKind = "GROUP" => HoldsOK(r)'
  <2>1. gateway'[r].overtaken = g.overtaken
    BY <1>1, OvertakenKept DEF ReserveBudget, At, GatewayStep
  <2> QED BY <1>1, <2>1, LoopHolds DEF RequestOK, Looping
<1>6. CoveredOK(r)'
  <2>1. Unresolved(g) + Estimate <= entry[r].reserved
    BY <1>0, <1>1 DEF CoveredOK
  <2>2. Unresolved(gateway'[r]) =
          IF billing = "UNKNOWN" THEN Unresolved(g) + Estimate
          ELSE Unresolved(g)
    BY <1>0, <1>2, Estimates DEF Unresolved
  <2>3. /\ Unresolved(gateway'[r]) <= entry[r].reserved
        /\ ~gateway'[r].charged =>
             Unresolved(gateway'[r]) + Estimate <= entry[r].reserved
    <3>1. ~gateway'[r].charged => billing # "UNKNOWN"
      BY <1>2
    <3>2. /\ Unresolved(g) \in Nat /\ entry[r].reserved \in Nat
          /\ Estimate \in Nat
      BY <1>0, RequestAssumption
    <3> HIDE DEF g
    <3> QED BY <2>1, <2>2, <3>1, <3>2
  <2>4. gateway'[r].attempts # 0
    BY <1>0, <1>2
  <2> QED BY <1>1, <1>2, <2>3, <2>4 DEF CoveredOK
<1> QED BY <1>4, <1>5, <1>6 DEF RequestOK

-------------------------------------------------------------------------------
(* The end of the handler.                                                 *)

\* A step that leaves the loop: what a group's request holds, it holds.
LEMMA EndHolds ==
  ASSUME NEW r \in Requests, HoldsOK(r), orphan' = orphan,
         gateway'[r].overtaken = gateway[r].overtaken,
         gateway'[r].stage \notin Looping, entry[r].status # "NONE",
         \A p \in Policies : marker'[r][p].state = marker[r][p].state,
         Open(r)' => Open(r) /\ entry'[r].dispatched = entry[r].dispatched
  PROVE  HoldsOK(r)'
BY DEF HoldsOK, Looping, Quota!Reserved

LEMMA PersistFailureStep ==
  ASSUME Types, NEW r \in Requests, RequestOK(r), PersistFailure(r)
  PROVE  RequestOK(r)'
<1> DEFINE g == gateway[r]
<1>0. /\ g \in Gateway /\ HandlerOK(r) /\ CoveredOK(r)
      /\ entry[r].reserved \in Nat
  BY RowsOf DEF RequestOK, Entry
<1>1. /\ g.stage = "FAILED" /\ entry' = entry /\ orphan' = orphan
      /\ marker' = marker
  BY DEF PersistFailure, At, ledgerVars, quotaVars
<1>2. /\ gateway'[r].stage = "PERSIST" /\ gateway'[r].called = g.called
      /\ gateway'[r].unknown = IF g.attempts = 0 THEN 1 ELSE g.unknown
  BY <1>0, GatewayWritten DEF PersistFailure, Gateway
<1>3. entry[r].status # "NONE" /\ (g.called => entry[r].dispatched)
  BY <1>0, <1>1 DEF HandlerOK
<1>4. HandlerOK(r)'
  BY <1>0, <1>1, <1>2, <1>3, HandlerBegun
<1>5. LedgerKind = "GROUP" => HoldsOK(r)'
  <2>1. gateway'[r].overtaken = g.overtaken
    BY <1>1, OvertakenKept DEF ReserveBudget, At, GatewayStep
  <2> QED BY <1>1, <1>2, <1>3, <2>1, EndHolds DEF RequestOK, Looping, Open
<1>6. CoveredOK(r)'
  <2>1. /\ Unresolved(g) <= entry[r].reserved
        /\ g.attempts = 0 =>
             /\ g.unknown = 0
             /\ Unresolved(g) + Estimate <= entry[r].reserved
    BY <1>0, <1>1 DEF CoveredOK
  <2>2. g.attempts = 0 => Unresolved(gateway'[r]) = Estimate
    BY <1>2, Estimates DEF Unresolved
  <2>3. g.attempts = 0 => Unresolved(g) = 0
    BY <2>1, Estimates DEF Unresolved
  <2>4. g.attempts # 0 => Unresolved(gateway'[r]) = Unresolved(g)
    BY <1>2 DEF Unresolved
  <2>5. Unresolved(gateway'[r]) <= entry[r].reserved
    <3> HIDE DEF g
    <3> QED BY <1>0, <2>1, <2>2, <2>3, <2>4, RequestAssumption
  <2> QED BY <1>1, <1>2, <2>5 DEF CoveredOK
<1> QED BY <1>4, <1>5, <1>6 DEF RequestOK

LEMMA EndSteps ==
  ASSUME Types, NEW r \in Requests, RequestOK(r),
         \/ ReleaseUnsent(r) \/ Persist(r) \/ PersistRefused(r) \/ GiveUp(r)
         \/ SlotsFreed(r) \/ GatewaySync(r)
         \/ \E p \in Policies : FreeSlot(r, p)
  PROVE  RequestOK(r)'
<1> DEFINE g == gateway[r]
<1>0. g \in Gateway /\ HandlerOK(r)
  BY RowsOf DEF RequestOK
<1>1. /\ g.stage \in {"FAILED", "PERSIST", "UNCERTAIN", "FREE", "SYNC"}
      /\ orphan' = orphan
  BY DEF ReleaseUnsent, Persist, PersistRefused, GiveUp, SlotsFreed,
         GatewaySync, FreeSlot, At
<1>2. /\ gateway'[r].stage \in {"SYNC", "DONE", "FREE", "UNCERTAIN"}
      /\ gateway'[r].called = g.called
  <2>1. ASSUME NEW stage \in {"SYNC", "DONE", "UNCERTAIN"}, Goto(r, stage)
        PROVE  <1>2!:
    BY <2>1, GatewayGoes
  <2>2. CASE ReleaseUnsent(r)
    BY <1>0, <2>1, <2>2, OutcomeGoes DEF ReleaseUnsent
  <2>3. CASE Persist(r)
    <3> DEFINE h == [g EXCEPT !.todo = Policies]
    <3>1. h \in Gateway /\ h.called = g.called
      BY <1>0 DEF Gateway
    <3>2. \/ Outcome(r, h, "FREE", "UNCERTAIN")
          \/ Outcome(r, g, "SYNC", "UNCERTAIN")
      BY <2>3 DEF Persist
    <3> HIDE DEF g, h
    <3> QED BY <1>0, <3>1, <3>2, OutcomeGoes
  <2>4. ASSUME NEW p \in Policies, FreeSlot(r, p)
        PROVE  <1>2!:
    BY <1>0, <2>4, GatewayWritten DEF FreeSlot, At, Gateway
  <2>5. CASE PersistRefused(r) \/ GiveUp(r) \/ SlotsFreed(r) \/ GatewaySync(r)
    BY <2>1, <2>5 DEF PersistRefused, GiveUp, SlotsFreed, GatewaySync
  <2> QED BY <2>2, <2>3, <2>4, <2>5
<1>3. /\ entry'[r].dispatched = entry[r].dispatched
      /\ entry[r].status # "NONE" => entry'[r].status # "NONE"
      /\ Open(r)' => Open(r)
  <2>1. CASE UNCHANGED ledgerVars
    BY <2>1 DEF ledgerVars, Open
  <2>2. CASE Release(r)
    BY <2>2, EntryAfter DEF Release, Open
  <2>3. CASE Persist(r)
    BY <2>3, EntryAfter DEF Persist, Open
  <2>4. CASE MarkUncertain(r)
    BY <2>4, EntryAfter DEF MarkUncertain, Open
  <2> QED
    BY <2>1, <2>2, <2>3, <2>4
       DEF ReleaseUnsent, PersistRefused, GiveUp, SlotsFreed, GatewaySync,
           FreeSlot
<1>4. entry[r].status # "NONE" /\ (g.called => entry[r].dispatched)
  BY <1>0, <1>1 DEF HandlerOK
<1>5. HandlerOK(r)'
  BY <1>0, <1>2, <1>3, <1>4, HandlerBegun
<1>6. CoveredOK(r)'
  BY <1>2 DEF CoveredOK
<1>7. \A p \in Policies : marker'[r][p].state = marker[r][p].state
  <2>1. CASE UNCHANGED marker
    BY <2>1
  <2>2. ASSUME NEW p \in Policies, FreeSlot(r, p)
        PROVE  \A q \in Policies : marker'[r][q].state = marker[r][q].state
    BY <2>2, FlagsAfter DEF FreeSlot, quotaVars
  <2>3. CASE \/ ReleaseUnsent(r) \/ Persist(r) \/ PersistRefused(r)
             \/ GiveUp(r) \/ SlotsFreed(r) \/ GatewaySync(r)
    BY <2>1, <2>3
       DEF ReleaseUnsent, Persist, PersistRefused, GiveUp, SlotsFreed,
           GatewaySync, StopRenewing, quotaVars
  <2> QED BY <2>2, <2>3
<1>8. LedgerKind = "GROUP" => HoldsOK(r)'
  <2>1. gateway'[r].overtaken = g.overtaken
    BY <1>1, OvertakenKept DEF ReserveBudget, At, GatewayStep
  <2> QED BY <1>1, <1>2, <1>3, <1>4, <1>7, <2>1, EndHolds DEF RequestOK, Looping
<1> QED BY <1>5, <1>6, <1>8 DEF RequestOK

LEMMA CrashStep ==
  ASSUME Types, NEW r \in Requests, RequestOK(r), Crash(r)
  PROVE  RequestOK(r)'
<1>1. /\ entry' = entry /\ orphan' = orphan /\ marker' = marker
  BY DEF Crash, ledgerVars, StopRenewing
<1>2. gateway'[r].stage = "DONE" /\ gateway'[r].called = gateway[r].called
  BY GatewayGoes DEF Crash
<1>3. HandlerOK(r)'
  BY <1>1, <1>2, HandlerBegun DEF RequestOK, HandlerOK
<1>4. CoveredOK(r)'
  BY <1>2 DEF CoveredOK
<1>5. LedgerKind = "GROUP" => HoldsOK(r)'
  BY <1>1, <1>2, GatewayGoes DEF Crash, RequestOK, HoldsOK, Open, Quota!Reserved
<1> QED BY <1>3, <1>4, <1>5 DEF RequestOK

LEMMA HandlerStep ==
  ASSUME Types, NEW r \in Requests, RequestOK(r), DeliveryOK(r), RequestStep(r)
  PROVE  RequestOK(r)'
<1>1. CASE GatewayStep(r)
  BY <1>1, ReservingSteps, ReservedStep, RollbackSteps, ExtendStep,
     RenewDispatchSteps, AnswerStep, PersistFailureStep, EndSteps
     DEF GatewayStep
<1>2. CASE Accept(r) \/ Heartbeat(r) \/ Crash(r) \/ WorkerStep(r)
  BY <1>2, ReservingSteps, HandlerHeartbeat, CrashStep, HandlerWorker
<1>3. CASE \E s \in Processes : SessionStep(s, r)
  BY <1>3, HandlerSession
<1>4. CASE \E p \in Policies : MarkerFallsDue(r, p)
  BY <1>4, HandlerFallsDue
<1>5. CASE \E o \in Operations, action \in {"SETTLE", "RELEASE"},
             amount \in Amounts : AdminReconcile(r, o, action, amount)
  BY <1>5, HandlerReconcile
<1> QED BY <1>1, <1>2, <1>3, <1>4, <1>5 DEF RequestStep

-------------------------------------------------------------------------------
(* The invariant is inductive.                                             *)

LEMMA RequestInvStart ==
  ASSUME RequestInit
  PROVE  RequestInv
<1>1. LedgerTypeOK /\ Rows
  BY TypeInit, RowsInit DEF RequestInit
<1>2. Redis!QuotaInit
  BY DEF RequestInit, Quota!QuotaInit, Redis!QuotaInit, Quota!NewMarker,
         Redis!NewMarker, Quota!NoSlots, Redis!NoSlots, Quota!NoGeneration,
         Redis!NoGeneration, Quota!Windows, Redis!Windows
<1>3. Redis!QuotaTypes
  BY <1>2, RedisParameters, Redis!QuotaTypesInit
<1>4. Types
  <2>1. gateway \in [Requests -> Gateway]
    BY RequestAssumption DEF RequestInit, Gateway, Stages
  <2>2. session \in [Processes -> [Requests -> Session]]
    BY DEF RequestInit, Session, NoSession
  <2>3. faults \in 0 .. MaxFaults /\ orphan \in [Requests -> SUBSET Policies]
    BY RequestAssumption DEF RequestInit
  <2> QED BY <1>1, <1>3, <2>1, <2>2, <2>3 DEF Types
<1>5. ASSUME NEW r \in Requests
      PROVE  /\ entry[r] = NewEntry /\ outbox[r] = NewOutbox
             /\ \A p \in Policies : marker[r][p] = Quota!NewMarker
             /\ \A s \in Processes : session[s][r] = NoSession
  BY DEF RequestInit, LedgerInit, Quota!QuotaInit
<1>6. Delivery
  <2> SUFFICES ASSUME NEW r \in Requests
               PROVE  DeliveryOK(r)
    BY DEF Delivery
  <2>1. Cardinality(done) = 0
    BY FS_EmptySet DEF RequestInit, LedgerInit
  <2>2. OutboxOK(r) /\ SyncedOK(r)
    BY <1>5, <2>1
       DEF OutboxOK, SyncedOK, Closed, NewEntry, NewOutbox, FirstCost
  <2>3. \A s \in Processes : SnapshotOK(s, r)
    BY <1>5 DEF SnapshotOK, NoSession
  <2>4. \A p \in Policies : MarkerOK(r, p)
    BY <1>5 DEF MarkerOK, NewOutbox, Quota!NewMarker, Quota!Settled
  <2> QED BY <2>2, <2>3, <2>4 DEF DeliveryOK
<1>7. Handlers
  <2> SUFFICES ASSUME NEW r \in Requests
               PROVE  RequestOK(r)
    BY DEF Handlers
  <2>1. /\ gateway[r].stage = "IDLE" /\ gateway[r].mine = {}
        /\ gateway[r].attempts = 0 /\ gateway[r].unknown = 0
        /\ ~gateway[r].called /\ orphan[r] = {}
    BY DEF RequestInit
  <2>2. HandlerOK(r)
    BY <1>5, <2>1
       DEF HandlerOK, NewEntry, Quota!NewMarker, Due, Quota!Reserved
  <2>3. CoveredOK(r)
    BY <2>1 DEF CoveredOK
  <2>4. HoldsOK(r)
    BY <1>5, <2>1 DEF HoldsOK, NewEntry, Open
  <2> QED BY <2>2, <2>3, <2>4 DEF RequestOK
<1> QED BY <1>1, <1>4, <1>6, <1>7 DEF RequestInv

\* The expiry of a key is about no request.
LEMMA ExpirySpares ==
  ASSUME NEW p \in Policies, KeyExpires(p)
  PROVE  /\ \A x \in Requests : Spared(x)
         /\ done \subseteq done' /\ UNCHANGED <<entry, log>>
BY DEF KeyExpires, Quota!ExpireSlots, Spared, ledgerVars, processVars

LEMMA StutterSpares ==
  ASSUME UNCHANGED requestVars
  PROVE  /\ \A x \in Requests : Spared(x)
         /\ done \subseteq done' /\ UNCHANGED <<entry, log>>
BY DEF requestVars, Spared, ledgerVars, quotaVars, processVars

LEMMA RequestInvStep ==
  ASSUME RequestInv, [RequestsNext]_requestVars
  PROVE  RequestInv'
<1>0. Types /\ Rows /\ Delivery /\ Handlers
  BY DEF RequestInv
<1>1. Types'
  BY <1>0, TypesStep
<1>2. ASSUME NEW r \in Requests, RequestStep(r)
      PROVE  Rows' /\ Delivery' /\ Handlers'
  <2>1. Shape(r)
    BY <1>0, <1>2, StepShape
  <2>2. Rows'
    <3>1. CASE UNCHANGED ledgerVars
      BY <1>0, <3>1 DEF Rows, ledgerVars
    <3>2. CASE RequestMoves(r)
      BY <1>0, <3>2, RowsMoves DEF Types
    <3> QED BY <2>1, <3>1, <3>2 DEF Shape
  <2>3. /\ \A x \in Requests \ {r} : Spared(x)
        /\ done \subseteq done'
    BY <1>0, <2>1, StepSpares
  <2>4. ASSUME NEW x \in Requests
        PROVE  DeliveryOK(x)' /\ RequestOK(x)'
    <3>1. DeliveryOK(x) /\ RequestOK(x)
      BY <1>0 DEF Delivery, Handlers
    <3>2. CASE x = r
      BY <1>0, <1>1, <1>2, <3>1, <3>2, DeliveryStep, HandlerStep
    <3>3. CASE x # r
      BY <1>0, <1>1, <2>3, <3>1, <3>3, SparedDelivery, SparedHandler
    <3> QED BY <3>2, <3>3
  <2> QED BY <2>2, <2>4 DEF Delivery, Handlers
<1>3. ASSUME \A x \in Requests : Spared(x),
             done \subseteq done', UNCHANGED <<entry, log>>
      PROVE  Rows' /\ Delivery' /\ Handlers'
  <2>1. Rows'
    BY <1>0, <1>3 DEF Rows
  <2>2. \A x \in Requests : DeliveryOK(x)' /\ RequestOK(x)'
    BY <1>0, <1>1, <1>3, SparedDelivery, SparedHandler DEF Delivery, Handlers
  <2> QED BY <2>1, <2>2 DEF Delivery, Handlers
<1>4. CASE \E p \in Policies : KeyExpires(p)
  BY <1>1, <1>3, <1>4, ExpirySpares DEF RequestInv
<1>5. CASE UNCHANGED requestVars
  BY <1>1, <1>3, <1>5, StutterSpares DEF RequestInv
<1> QED BY <1>1, <1>2, <1>4, <1>5, StepIsAboutOne DEF RequestInv

LEMMA RequestAlways == RequestSpec => []RequestInv
<1>1. RequestInit => RequestInv
  BY RequestInvStart
<1>2. RequestInv /\ [RequestsNext]_requestVars => RequestInv'
  BY RequestInvStep
<1> QED BY <1>1, <1>2, PTL DEF RequestSpec

-------------------------------------------------------------------------------
(* What follows for the composition.                                       *)

\* The quota of the composition is the Redis quota: every interleaving of
\* handlers, workers and administrators is a run of its scripts.
THEOREM QuotaRefined == RequestSpec => Redis!QuotaSpec
<1>1. RequestInit => Redis!QuotaInit
  BY DEF RequestInit, Quota!QuotaInit, Redis!QuotaInit, Quota!NewMarker,
         Redis!NewMarker, Quota!NoSlots, Redis!NoSlots, Quota!NoGeneration,
         Redis!NoGeneration, Quota!Windows, Redis!Windows
<1>2. RequestInv /\ [RequestsNext]_requestVars
        => [Redis!QuotaNext]_(Redis!quotaVars)
  <2> SUFFICES ASSUME RequestInv, [RequestsNext]_requestVars
               PROVE  [Redis!QuotaNext]_(Redis!quotaVars)
    OBVIOUS
  <2>0. Redis!quotaVars = quotaVars /\ Redis!quotaVars' = quotaVars'
    BY DEF Redis!quotaVars, quotaVars
  <2>1. ASSUME NEW r \in Requests, RequestStep(r)
        PROVE  [Redis!QuotaNext]_quotaVars
    BY <2>1, StepShape, QuotaMovesStep DEF RequestInv, Shape
  <2>2. ASSUME NEW p \in Policies, KeyExpires(p)
        PROVE  [Redis!QuotaNext]_quotaVars
    BY <2>2, ExpiryStep
  <2>3. ASSUME UNCHANGED requestVars
        PROVE  [Redis!QuotaNext]_quotaVars
    BY <2>3 DEF requestVars, quotaVars
  <2>4. ASSUME RequestsNext
        PROVE  [Redis!QuotaNext]_quotaVars
    BY <2>1, <2>2, <2>4, StepIsAboutOne
  <2> QED BY <2>0, <2>3, <2>4
<1> QED BY <1>1, <1>2, RequestAlways, PTL DEF RequestSpec, Redis!QuotaSpec

\* Every variable of the composition keeps its type; no counter of the quota
\* falls below zero and no slot count does.
THEOREM RequestTypeCorrect == RequestSpec => []RequestTypeOK
<1>1. Redis!QuotaSpec => []Redis!QuotaTypeOK
  BY RedisParameters, Redis!QuotaTypeCorrect, PTL
<1>2. RequestInv /\ Redis!QuotaTypeOK => RequestTypeOK
  BY DEF RequestInv, Types, RequestTypeOK, Redis!QuotaTypeOK,
         Quota!QuotaTypeOK, Redis!Marker, Quota!Marker, Redis!Counter,
         Quota!Counter, Redis!Slots, Quota!Slots, Redis!Windows,
         Quota!Windows, Redis!NoGeneration, Quota!NoGeneration
<1> QED BY <1>1, <1>2, QuotaRefined, RequestAlways, PTL

\* The laws of the Redis quota hold in the composition: the counters are the
\* sums of what the requests count for, and the slots their holders.
THEOREM QuotaLawsHold == RequestSpec => [](Quota!UsageExact /\ Quota!SlotsExact)
<1>1. Redis!QuotaSpec => []Redis!UsageExact
  BY RedisParameters, Redis!CountersExact, PTL
<1>2. Redis!QuotaSpec => []Redis!SlotsExact
  BY RedisParameters, Redis!SlotsCount, PTL
<1>3. ASSUME NEW S
      PROVE  Quota!Cardinality(S) = Redis!Cardinality(S)
  BY DEF Quota!Cardinality, Redis!Cardinality
<1>4. Redis!UsageExact => Quota!UsageExact
  <2>1. ASSUME NEW p
        PROVE  Quota!Charges(p) = Redis!Charges(p)
    BY Zenon DEF Quota!Charges, Redis!Charges, Redis!Reserved,
         Quota!Reserved, Redis!Settled, Quota!Settled
  <2>2. ASSUME NEW f, NEW S
        PROVE  Quota!Total(f, S) = Redis!Total(f, S)
    BY <1>3 DEF Quota!Total, Redis!Total, Quota!UnitSet, Redis!UnitSet
  <2> QED
    BY <2>1, <2>2
       DEF Redis!UsageExact, Quota!UsageExact, Redis!Windows, Quota!Windows
<1>5. Redis!SlotsExact => Quota!SlotsExact
  <2>1. ASSUME NEW p
        PROVE  Quota!Holders(p) = Redis!Holders(p)
    BY DEF Redis!Holders, Quota!Holders, Redis!Marked, Quota!Marked,
           Redis!Reserved, Quota!Reserved
  <2> QED BY <1>3, <2>1 DEF Redis!SlotsExact, Quota!SlotsExact
<1> QED BY <1>1, <1>2, <1>4, <1>5, QuotaRefined, PTL

\* The money of the ledger is conserved in the composition, where Estimate and
\* the sums of attempts are its amounts.
LEMMA RequestMoney == RequestSpec => []Money
<1>1. RequestInit => Money
  BY MoneyInit DEF RequestInit
<1>2. RequestInv /\ RequestInv' /\ Money /\ [RequestsNext]_requestVars => Money'
  <2> SUFFICES ASSUME RequestInv, RequestInv', Money,
                      [RequestsNext]_requestVars
               PROVE  Money'
    OBVIOUS
  <2>1. LedgerTypeOK' /\ LogMatchesLedger' /\ Rows
    <3>1. Rows' => LogMatchesLedger'
      BY DEF Rows, Row, LogMatchesLedger
    <3> QED BY <3>1 DEF RequestInv, Types
  <2>2. Kept
    <3>1. ASSUME NEW r \in Requests, RequestStep(r)
          PROVE  Kept
      <4>1. UNCHANGED ledgerVars \/ RequestMoves(r)
        BY <3>1, StepShape DEF RequestInv, Shape
      <4>2. CASE UNCHANGED ledgerVars
        BY <4>2, MoneyUntouched DEF ledgerVars, Kept
      <4> QED BY <2>1, <4>1, <4>2, MoneyMoves
    <3>2. ASSUME NEW p \in Policies, KeyExpires(p)
          PROVE  Kept
      BY <3>2, MoneyUntouched DEF KeyExpires, ledgerVars, Kept
    <3>3. CASE UNCHANGED requestVars
      BY <3>3, MoneyUntouched DEF requestVars, ledgerVars, Kept
    <3> QED BY <3>1, <3>2, <3>3, StepIsAboutOne
  <2> QED BY <2>1, <2>2 DEF Money, Kept
<1> QED BY <1>1, <1>2, RequestAlways, PTL DEF RequestSpec

\* The laws of the ledger hold in the composition: money is conserved, the
\* usage log agrees, and nothing dispatched is given back but by hand.
THEOREM LedgerLawsHold ==
  RequestSpec => [](/\ ReservedConserved /\ PeriodsOpened /\ SpentConserved
                    /\ LogMatchesLedger /\ DispatchedNotRefunded)
<1>1. RequestInv /\ Money =>
        /\ ReservedConserved /\ PeriodsOpened /\ SpentConserved
        /\ LogMatchesLedger /\ DispatchedNotRefunded
  BY DEF RequestInv, Money, Rows, Row, DispatchedNotRefunded
<1> QED BY <1>1, RequestMoney, RequestAlways, PTL

\* The ledger keeps the promises of a budget account in the composition too,
\* whatever the handlers, the worker and their crashes make of their calls.
THEOREM RequestsKeepAccount == RequestSpec => AccountImplemented
<1>1. RequestInit => Account!AccountInit
  BY AccountStarts DEF RequestInit
<1>2. RequestInv /\ RequestInv' /\ Money /\ [RequestsNext]_requestVars =>
        [Account!AccountNext]_(Account!accountVars)
  <2> SUFFICES ASSUME RequestInv, RequestInv', Money, [RequestsNext]_requestVars
               PROVE  [Account!AccountNext]_(Account!accountVars)
    OBVIOUS
  <2>1. LedgerTypeOK' /\ Rows
    BY DEF RequestInv, Types
  <2>2. ASSUME UNCHANGED ledgerVars
        PROVE  UNCHANGED Account!accountVars
    BY <2>2, AccountSame DEF ledgerVars
  <2>3. ASSUME NEW r \in Requests, RequestStep(r)
        PROVE  [Account!AccountNext]_(Account!accountVars)
    <3>1. UNCHANGED ledgerVars \/ RequestMoves(r)
      BY <2>3, StepShape DEF RequestInv, Shape
    <3> QED BY <2>1, <2>2, <3>1, AccountMoves DEF Account!AccountNext
  <2>4. (\E p \in Policies : KeyExpires(p)) \/ UNCHANGED requestVars
          => UNCHANGED ledgerVars
    BY DEF KeyExpires, requestVars, ledgerVars
  <2> QED BY <2>2, <2>3, <2>4, StepIsAboutOne
<1> QED BY <1>1, <1>2, RequestMoney, RequestAlways, PTL
        DEF RequestSpec, AccountImplemented, Account!AccountSpec

\* Once an entry is marked synchronised, every marker of the request records
\* what the ledger has settled, whatever ran at the same time.
THEOREM QuotaFollows == RequestSpec => []QuotaFollowsLedger
<1>1. RequestInv => QuotaFollowsLedger
  BY DEF RequestInv, Delivery, DeliveryOK, SyncedOK, Closed,
         QuotaFollowsLedger
<1> QED BY <1>1, RequestAlways, PTL

\* A request that a supplier has been called for is not given back, unless an
\* administrator says so.
THEOREM CallsAccounted == RequestSpec => []CalledIsAccounted
<1>1. RequestInv => CalledIsAccounted
  BY DEF RequestInv, Handlers, RequestOK, HandlerOK, Rows, Row,
         CalledIsAccounted
<1> QED BY <1>1, RequestAlways, PTL

\* A group's request keeps its slot while a supplier is being called for it,
\* unless an orphan scan had found its marker before the budget was reserved.
THEOREM SlotHeldInFlight ==
  ASSUME LedgerKind = "GROUP"
  PROVE  RequestSpec => []InFlightHoldsSlot
<1>1. RequestInv => InFlightHoldsSlot
  BY DEF RequestInv, Handlers, RequestOK, HoldsOK, InFlightHoldsSlot, At
<1> QED BY <1>1, RequestAlways, PTL

\* A group's dispatched request of unresolved cost keeps its quota reserved,
\* with the same exception.
THEOREM QuotaKeptUnresolved ==
  ASSUME LedgerKind = "GROUP"
  PROVE  RequestSpec => []UnresolvedKeepsQuota
<1>1. RequestInv => UnresolvedKeepsQuota
  BY DEF RequestInv, Handlers, RequestOK, HoldsOK, UnresolvedKeepsQuota
<1> QED BY <1>1, RequestAlways, PTL

\* A call that holds an entry is the handler's persist.
LEMMA HoldIsPersist ==
  ASSUME Types, NEW r \in Requests, RequestStep(r),
         entry'[r].held, ~entry[r].held
  PROVE  /\ At(r, "PERSIST") /\ entry'[r].reserved = Unresolved(gateway[r])
<1>0. entry \in [Requests -> Entry] /\ entry[r] \in Entry
  BY RowsOf DEF Types, LedgerTypeOK
<1>1. ~UNCHANGED entry
  OBVIOUS
<1>3. ASSUME NEW at, NEW amount, Reserve(r, at, amount)
      PROVE  FALSE
  BY <1>0, <1>3 DEF Reserve, NewEntry
<1>4. ASSUME NEW attempt, NEW amount, Extend(r, attempt, amount)
      PROVE  FALSE
  BY <1>0, <1>4 DEF Extend, Entry
<1>5. ASSUME NEW amount, Settle(r, amount)
      PROVE  FALSE
  BY <1>0, <1>5 DEF Settle, Entry
<1>6. ASSUME ReleaseEntry(r)
      PROVE  FALSE
  BY <1>0, <1>6 DEF ReleaseEntry, Entry
<1>7. ASSUME NEW until, MarkDispatched(r, until)
      PROVE  FALSE
  BY <1>0, <1>7 DEF MarkDispatched, Entry
<1>8. ASSUME Uncertain(r)
      PROVE  FALSE
  BY <1>0, <1>8 DEF Uncertain, Entry
<1>9. ASSUME NEW o, NEW action, NEW amount, Reconcile(r, o, action, amount)
      PROVE  FALSE
  BY <1>0, <1>9 DEF Reconcile, Entry
<1>10. CASE GatewayStep(r)
  <2>1. Persist(r)
    BY <1>1, <1>3, <1>4, <1>6, <1>7, <1>8, <1>10
       DEF GatewayStep, ReserveBudget, Refuse, RolledBack, ExtendBudget,
           Dispatch, Interrupt, Answer, ReleaseUnsent, Release,
           PersistFailure, PersistRefused, GiveUp, MarkUncertain, SlotsFreed,
           GatewaySync, ReserveQuota, Rollback, RenewQuota, FreeSlot,
           ledgerVars
  <2>2. Hold(r, gateway[r].known, Unresolved(gateway[r]))
    BY <1>5, <2>1 DEF Persist, Unresolved
  <2> QED BY <2>1, <2>2, EntryAfter DEF Persist
<1>11. CASE Accept(r) \/ Heartbeat(r) \/ Crash(r)
  BY <1>1, <1>7, <1>11 DEF Accept, Heartbeat, Crash, ledgerVars
<1>12. CASE WorkerStep(r)
  BY <1>1, <1>6, <1>8, <1>12
     DEF WorkerStep, WorkerSync, RecoverEntry, RecoverExpired, FindOrphan,
         ReleaseOrphan, RecoverSlot, ledgerVars
<1>13. ASSUME NEW s, SessionStep(s, r)
       PROVE  FALSE
  BY <1>1, <1>13
     DEF SessionStep, SessionWork, SyncSettle, SyncCorrect, SyncConfirm,
         SyncFails, ConfirmSync, ledgerVars
<1>14. CASE \E p \in Policies : MarkerFallsDue(r, p)
  BY <1>1, <1>14 DEF MarkerFallsDue, ledgerVars
<1>15. ASSUME NEW o, NEW action, NEW amount,
              AdminReconcile(r, o, action, amount)
       PROVE  FALSE
  BY <1>9, <1>15 DEF AdminReconcile
<1> QED BY <1>10, <1>11, <1>12, <1>13, <1>14, <1>15 DEF RequestStep

\* hold never reserves more than the attempts had reserved before: every retry
\* that may have been charged for was covered by an extension.
THEOREM HoldsCovered == RequestSpec => HoldNeverGrows
<1>1. RequestInv /\ [RequestsNext]_requestVars =>
        [\A r \in Requests :
           entry'[r].held /\ ~entry[r].held =>
             entry'[r].reserved <= entry[r].reserved]_requestVars
  <2> SUFFICES ASSUME RequestInv, RequestsNext, NEW r \in Requests,
                      entry'[r].held, ~entry[r].held
               PROVE  entry'[r].reserved <= entry[r].reserved
    OBVIOUS
  <2>0. Types /\ Delivery /\ Handlers
    BY DEF RequestInv
  <2>1. ASSUME NEW x \in Requests, RequestStep(x)
        PROVE  entry'[r].reserved <= entry[r].reserved
    <3>1. x = r
      BY <2>0, <2>1, StepShape, StepSpares DEF Spared
    <3>2. At(r, "PERSIST") /\ entry'[r].reserved = Unresolved(gateway[r])
      BY <2>0, <2>1, <3>1, HoldIsPersist
    <3> QED
      BY <2>0, <3>2 DEF Handlers, RequestOK, CoveredOK, At
  <2>2. ASSUME NEW p \in Policies, KeyExpires(p)
        PROVE  FALSE
    BY <2>2, ExpirySpares DEF Spared
  <2> QED BY <2>1, <2>2, StepIsAboutOne
<1> QED BY <1>1, RequestAlways, PTL DEF RequestSpec, HoldNeverGrows

===============================================================================
