---------------------------- MODULE BudgetedRequest ----------------------------
(***************************************************************************)
(* A budgeted model call from end to end: the gateway's handler            *)
(* (apps/gateway/src/group-request.ts and the retry loop of                *)
(* packages/gateway-core/src/relay.ts), the durable ledger (BudgetLedger), *)
(* the Redis quota (QuotaRedis), and the worker that recovers what a dead  *)
(* gateway leaves behind (apps/worker/src/worker.service.ts).              *)
(*                                                                         *)
(* Each database transaction and each Redis script is one step, so that    *)
(* other processes act between any two of them; the gateway may die        *)
(* between any two, and a reply may be lost after its call took effect.    *)
(***************************************************************************)
EXTENDS BudgetLedger

CONSTANTS
  Policies,     \* quota policies that apply to the requests
  Estimate,     \* estimated cost of one attempt
  MaxAttempts,  \* bound on the attempts of the retry loop
  MaxFaults,    \* bound on the calls that fail, or whose reply is lost
  LedgerKind    \* "GROUP", or "PROJECT" for a credential of a project

VARIABLES
  gateway,   \* the handler of each request
  session,   \* the runs of syncQuota, by process and request
  orphan,    \* orphan[r]: markers of r the worker has found without an entry
  faults,    \* failures so far
  marker, usage, slots, renewing   \* the Redis quota

Quota == INSTANCE QuotaRedis WITH
           Legacy <- {}, ConcurrencyLimit <- 0, CostLimit <- 0,
           MaxVersion <- Cardinality(Operations)

\* Attempt n of the retry loop, from the second, extends under attempt id n.
ASSUME RequestAssumption ==
  /\ Estimate \in Nat
  /\ MaxAttempts \in Nat \ {0}
  /\ 2 .. MaxAttempts \subseteq Attempts
  /\ MaxFaults \in Nat
  /\ LedgerKind \in {"GROUP", "PROJECT"}
  /\ IsFiniteSet(Operations)
  /\ Quota!NoGeneration \notin Requests

quotaVars == <<marker, usage, slots, renewing>>
processVars == <<gateway, session, orphan, faults>>
requestVars == <<ledgerVars, quotaVars, processVars>>

Processes == {"gateway", "worker"}

Stages == {"IDLE", "QUOTA", "ROLLBACK", "READY", "RENEW", "CALLING",
           "FAILED", "PERSIST", "FREE", "UNCERTAIN", "SYNC", "DONE"}

\* `mine`: reservations the handler holds; `todo`: policies a loop has left;
\* known, unknown: cost of the attempts, and how many cost an unknown amount;
\* charged: the last attempt may have cost something; dispatched: the local
\* flag.  History, for the properties: called, a supplier has been called;
\* overtaken, the policies whose marker the worker had taken for an orphan's
\* before the budget was reserved.
Gateway == [stage: Stages, mine: SUBSET Policies, todo: SUBSET Policies,
            attempts: 0 .. MaxAttempts, known: Nat, unknown: Nat,
            charged: BOOLEAN, dispatched: BOOLEAN, called: BOOLEAN,
            overtaken: SUBSET Policies]

\* The snapshot of the entry that syncQuota works from.
Session == [active: BOOLEAN, actual: Nat \cup {NoActual}, version: Nat,
            corrected: Nat, todo: SUBSET Policies, half: SUBSET Policies]

RequestTypeOK ==
  /\ LedgerTypeOK
  /\ Quota!QuotaTypeOK
  /\ gateway \in [Requests -> Gateway]
  /\ session \in [Processes -> [Requests -> Session]]
  /\ orphan \in [Requests -> SUBSET Policies]
  /\ faults \in 0 .. MaxFaults

NoSession == [active |-> FALSE, actual |-> NoActual, version |-> 0,
              corrected |-> 0, todo |-> {}, half |-> {}]

RequestInit ==
  /\ LedgerInit
  /\ Quota!QuotaInit
  /\ gateway = [r \in Requests |->
       [stage |-> "IDLE", mine |-> {}, todo |-> {}, attempts |-> 0,
        known |-> 0, unknown |-> 0, charged |-> FALSE, dispatched |-> FALSE,
        called |-> FALSE, overtaken |-> {}]]
  /\ session = [s \in Processes |-> [r \in Requests |-> NoSession]]
  /\ orphan = [r \in Requests |-> {}]
  /\ faults = 0

-------------------------------------------------------------------------------
At(r, stage) == gateway[r].stage = stage

SetGateway(r, g) == gateway' = [gateway EXCEPT ![r] = g]
Goto(r, stage) == SetGateway(r, [gateway[r] EXCEPT !.stage = stage])

\* The handler goes to `next`; or its call fails after all, a bounded number
\* of times, and it goes to `failed` instead.
Outcome(r, g, next, failed) ==
  \/ SetGateway(r, [g EXCEPT !.stage = next]) /\ UNCHANGED faults
  \/ /\ faults < MaxFaults
     /\ faults' = faults + 1
     /\ SetGateway(r, [g EXCEPT !.stage = failed])

Fault == faults < MaxFaults /\ faults' = faults + 1

\* finalized: the heartbeat stops.
StopRenewing(r) ==
  /\ renewing' = renewing \ {r}
  /\ UNCHANGED <<marker, usage, slots>>

-------------------------------------------------------------------------------
(* Reservation: the quotas one by one, then the budget.                    *)

Accept(r) ==
  /\ At(r, "IDLE")
  /\ Goto(r, "QUOTA")
  /\ UNCHANGED <<ledgerVars, quotaVars, session, orphan, faults>>

\* A lost reply leaves a reservation the handler does not know it has.
ReserveQuota(r, p) ==
  /\ At(r, "QUOTA") /\ p \notin gateway[r].mine
  /\ Quota!QuotaReserve(r, p, Estimate)
  /\ \/ /\ SetGateway(r, [gateway[r] EXCEPT !.mine = @ \cup {p}])
        /\ UNCHANGED faults
     \/ Fault /\ Goto(r, "ROLLBACK")
  /\ UNCHANGED <<ledgerVars, session, orphan>>

\* The policies whose marker an orphan scan has found, or has released.
Overtaken(r) == {p \in Policies : p \in orphan[r] \/ ~Quota!Reserved(r, p)}

ReserveBudget(r) ==
  /\ At(r, "QUOTA") /\ gateway[r].mine = Policies
  /\ Reserve(r, clock, Estimate)
  /\ Outcome(r, [gateway[r] EXCEPT !.overtaken = Overtaken(r)],
             "READY", "ROLLBACK")
  /\ UNCHANGED <<quotaVars, session, orphan>>

\* A quota or the budget refuses the request.
Refuse(r) ==
  /\ At(r, "QUOTA")
  /\ Goto(r, "ROLLBACK")
  /\ UNCHANGED <<ledgerVars, quotaVars, session, orphan, faults>>

\* settle on a marker that repeats what it records is accepted unchanged.
SettleOrRepeat(r, p, cost) ==
  \/ Quota!QuotaSettle(r, p, cost)
  \/ /\ Quota!Settled(r, p) /\ marker[r][p].actual = cost
     /\ UNCHANGED quotaVars

Rollback(r, p) ==
  /\ At(r, "ROLLBACK") /\ p \in gateway[r].mine
  /\ \/ SettleOrRepeat(r, p, 0) /\ UNCHANGED faults
     \/ Fault /\ UNCHANGED quotaVars
  /\ SetGateway(r, [gateway[r] EXCEPT !.mine = @ \ {p}])
  /\ UNCHANGED <<ledgerVars, session, orphan>>

RolledBack(r) ==
  /\ At(r, "ROLLBACK") /\ gateway[r].mine = {}
  /\ Goto(r, "DONE")
  /\ StopRenewing(r)
  /\ UNCHANGED <<ledgerVars, session, orphan, faults>>

-------------------------------------------------------------------------------
(* The retry loop.  beforeAttempt extends, renews and records the dispatch; *)
(* whatever it throws ends the loop.                                       *)

\* Mutant of ExtendBudget: a retry is never charged for.
ExtendNothing(r) ==
  /\ At(r, "READY")
  /\ Goto(r, "RENEW")
  /\ UNCHANGED <<ledgerVars, quotaVars, session, orphan, faults>>

\* The first attempt, and the one after an attempt that cost nothing, is
\* covered by the present reservation.
ExtendBudget(r) ==
  LET g == gateway[r] IN
  /\ At(r, "READY")
  /\ IF g.attempts > 0 /\ g.charged
     THEN Extend(r, g.attempts + 1, Estimate) ELSE UNCHANGED ledgerVars
  /\ Outcome(r, [g EXCEPT !.todo = Policies], "RENEW", "FAILED")
  /\ UNCHANGED <<quotaVars, session, orphan>>

RenewQuota(r, p) ==
  /\ At(r, "RENEW") /\ p \in gateway[r].todo
  /\ Quota!Renew(r, p)
  /\ SetGateway(r, [gateway[r] EXCEPT !.todo = @ \ {p}])
  /\ UNCHANGED <<ledgerVars, session, orphan, faults>>

\* markDispatched, then the local flag; the client may have gone meanwhile.
Dispatch(r) ==
  LET g == gateway[r] IN
  /\ At(r, "RENEW") /\ g.todo = {}
  /\ MarkDispatched(r, clock + LeaseTicks)
  /\ \/ /\ SetGateway(r, [g EXCEPT !.stage = "CALLING", !.dispatched = TRUE,
                                   !.called = TRUE])
        /\ UNCHANGED faults
     \/ /\ SetGateway(r, [g EXCEPT !.stage = "FAILED", !.dispatched = TRUE])
        /\ UNCHANGED faults
     \/ Fault /\ Goto(r, "FAILED")
  /\ UNCHANGED <<quotaVars, session, orphan>>

\* The client disconnects, or a call of beforeAttempt is refused.
Interrupt(r) ==
  /\ gateway[r].stage \in {"READY", "RENEW"}
  /\ SetGateway(r, [gateway[r] EXCEPT !.stage = "FAILED", !.todo = {}])
  /\ UNCHANGED <<ledgerVars, quotaVars, session, orphan, faults>>

\* The supplier answers, or not: the attempt is billed, free, or unknown.
\* The loop tries again after a refusal or a network error, while it may.
Answer(r, billing, cost, again) ==
  LET g == gateway[r] IN
  /\ At(r, "CALLING")
  /\ billing # "KNOWN" => cost = 0
  /\ SetGateway(r, [g EXCEPT
       !.attempts = @ + 1, !.known = @ + cost,
       !.unknown = IF billing = "UNKNOWN" THEN @ + 1 ELSE @,
       !.charged = billing # "NO_CHARGE",
       !.stage = IF ~again THEN "PERSIST"
                 ELSE IF g.attempts + 1 < MaxAttempts THEN "READY"
                 ELSE "FAILED"])
  /\ UNCHANGED <<ledgerVars, quotaVars, session, orphan, faults>>

\* The heartbeat, every 30 s from the reservation to the end of the handler.
Heartbeat(r) ==
  /\ gateway[r].stage \in {"READY", "RENEW", "CALLING", "FAILED"}
  /\ \/ MarkDispatched(r, clock + LeaseTicks) /\ UNCHANGED quotaVars
     \/ \E p \in Policies : Quota!Renew(r, p) /\ UNCHANGED ledgerVars
  /\ UNCHANGED processVars

-------------------------------------------------------------------------------
(* The end of the handler.                                                 *)

\* Nothing was sent: the reservation is given back.  release is accepted when
\* the worker was first; it is refused when the heartbeat has recorded a
\* dispatch, and the handler ends there.
ReleaseUnsent(r) ==
  LET g == gateway[r] IN
  /\ At(r, "FAILED") /\ g.attempts = 0 /\ ~g.dispatched
  /\ \/ Release(r) /\ Outcome(r, g, "SYNC", "DONE")
     \/ /\ entry[r].status = "RELEASED"
        /\ Goto(r, "SYNC") /\ UNCHANGED <<ledgerVars, faults>>
     \/ /\ entry[r].status # "RELEASED"
        /\ entry[r].status = "RESERVED" => entry[r].dispatched
        /\ Goto(r, "DONE") /\ UNCHANGED <<ledgerVars, faults>>
  /\ StopRenewing(r)
  /\ UNCHANGED <<session, orphan>>

\* Something may have been sent: an attempt of unknown cost if none is known.
PersistFailure(r) ==
  LET g == gateway[r] IN
  /\ At(r, "FAILED") /\ (g.attempts > 0 \/ g.dispatched)
  /\ SetGateway(r, [g EXCEPT !.stage = "PERSIST",
                             !.unknown = IF g.attempts = 0 THEN 1 ELSE @])
  /\ UNCHANGED <<ledgerVars, quotaVars, session, orphan, faults>>

\* persist: hold while some cost is unknown, else settle; tried twice, which
\* a lost reply makes a repetition.
Persist(r) ==
  LET g == gateway[r] IN
  /\ At(r, "PERSIST")
  /\ IF g.unknown > 0
     THEN /\ Hold(r, g.known, g.unknown * Estimate)
          /\ Outcome(r, [g EXCEPT !.todo = Policies], "FREE", "UNCERTAIN")
     ELSE /\ Settle(r, g.known)
          /\ Outcome(r, g, "SYNC", "UNCERTAIN")
  /\ StopRenewing(r)
  /\ UNCHANGED <<session, orphan>>

\* Both tries fail: the database is away, or the entry is final.
PersistRefused(r) ==
  /\ At(r, "PERSIST")
  /\ Open(r) => Fault
  /\ ~Open(r) => UNCHANGED faults
  /\ Goto(r, "UNCERTAIN")
  /\ StopRenewing(r)
  /\ UNCHANGED <<ledgerVars, session, orphan>>

\* markUncertain, and its own failure is ignored.
GiveUp(r) ==
  /\ At(r, "UNCERTAIN")
  /\ \/ MarkUncertain(r) /\ UNCHANGED faults
     \/ ~Open(r) /\ UNCHANGED <<ledgerVars, faults>>
     \/ Fault /\ UNCHANGED ledgerVars
  /\ Goto(r, "DONE")
  /\ UNCHANGED <<quotaVars, session, orphan>>

\* The slot of a held request is given back at once.
FreeSlot(r, p) ==
  /\ At(r, "FREE") /\ p \in gateway[r].todo
  /\ \/ Quota!ReleaseConcurrency(r, p) /\ UNCHANGED faults
     \/ /\ Quota!Reserved(r, p) => marker[r][p].released
        /\ UNCHANGED <<quotaVars, faults>>
     \/ Fault /\ UNCHANGED quotaVars
  /\ SetGateway(r, [gateway[r] EXCEPT !.todo = @ \ {p}])
  /\ UNCHANGED <<ledgerVars, session, orphan>>

SlotsFreed(r) ==
  /\ At(r, "FREE") /\ gateway[r].todo = {}
  /\ Goto(r, "SYNC")
  /\ UNCHANGED <<ledgerVars, quotaVars, session, orphan, faults>>

Crash(r) ==
  /\ gateway[r].stage \notin {"IDLE", "DONE"}
  /\ Goto(r, "DONE")
  /\ StopRenewing(r)
  /\ UNCHANGED <<ledgerVars, session, orphan, faults>>

-------------------------------------------------------------------------------
(* syncQuota, run by the handler and by the worker at the same time.       *)

Pending(r) == entry[r].status \in {"SETTLED", "RELEASED"} /\ ~outbox[r].synced

SetSession(s, r, t) == session' = [session EXCEPT ![s] = [@ EXCEPT ![r] = t]]

\* It reads the entry: from here on it works from this snapshot.
OpenSession(s, r) ==
  /\ Pending(r) /\ ~session[s][r].active
  /\ SetSession(s, r,
       [active |-> TRUE, actual |-> outbox[r].actual,
        version |-> outbox[r].version, corrected |-> outbox[r].corrected,
        todo |-> Policies, half |-> {}])

GatewaySync(r) ==
  /\ At(r, "SYNC")
  /\ IF Pending(r) THEN OpenSession("gateway", r) ELSE UNCHANGED session
  /\ Goto(r, "DONE")
  /\ UNCHANGED <<ledgerVars, quotaVars, orphan, faults>>

\* Mutant of WorkerSync: entries that were given back are not looked for.
WorkerSyncSettled(r) ==
  /\ LedgerKind = "GROUP"
  /\ entry[r].status = "SETTLED"
  /\ OpenSession("worker", r)
  /\ UNCHANGED <<ledgerVars, quotaVars, gateway, orphan, faults>>

\* The worker looks at the group's entries only.
WorkerSync(r) ==
  /\ LedgerKind = "GROUP"
  /\ OpenSession("worker", r)
  /\ UNCHANGED <<ledgerVars, quotaVars, gateway, orphan, faults>>

\* What the entry's first settlement came to; nothing if it was given back.
FirstCost(t) == IF t.actual = NoActual THEN 0 ELSE t.actual

SyncSettle(s, r, p) ==
  LET t == session[s][r] IN
  /\ t.active /\ p \in t.todo /\ t.half = {}
  /\ SettleOrRepeat(r, p, FirstCost(t))
  /\ SetSession(s, r, [t EXCEPT !.todo = @ \ {p},
                                !.half = IF t.version > 0 THEN {p} ELSE {}])
  /\ UNCHANGED <<ledgerVars, gateway, orphan, faults>>

SyncCorrect(s, r, p) ==
  LET t == session[s][r] IN
  /\ t.active /\ p \in t.half
  /\ \/ Quota!CorrectCost(r, p, t.corrected, t.version)
     \/ /\ Quota!Settled(r, p) /\ t.version <= marker[r][p].version
        /\ UNCHANGED quotaVars
  /\ SetSession(s, r, [t EXCEPT !.half = {}])
  /\ UNCHANGED <<ledgerVars, gateway, orphan, faults>>

\* Mutant of SyncConfirm: the entry is not compared with the snapshot.
SyncConfirmBlind(s, r) ==
  LET t == session[s][r] IN
  /\ t.active /\ t.todo = {} /\ t.half = {}
  /\ IF Pending(r) THEN ConfirmSync(r, outbox[r].version) ELSE UNCHANGED ledgerVars
  /\ SetSession(s, r, NoSession)
  /\ UNCHANGED <<quotaVars, gateway, orphan, faults>>

\* Synchronised, unless a correction has arrived since the snapshot.
SyncConfirm(s, r) ==
  LET t == session[s][r] IN
  /\ t.active /\ t.todo = {} /\ t.half = {}
  /\ IF Pending(r) /\ outbox[r].version = t.version
     THEN ConfirmSync(r, t.version) ELSE UNCHANGED ledgerVars
  /\ SetSession(s, r, NoSession)
  /\ UNCHANGED <<quotaVars, gateway, orphan, faults>>

\* A conflict with the marker ends the run; so do a failure and a crash.
SyncFails(s, r) ==
  LET t == session[s][r] IN
  /\ t.active
  /\ \/ Fault
     \/ /\ \E p \in t.todo : Quota!Settled(r, p) /\ marker[r][p].actual # FirstCost(t)
        /\ UNCHANGED faults
  /\ SetSession(s, r, NoSession)
  /\ UNCHANGED <<ledgerVars, quotaVars, gateway, orphan>>

-------------------------------------------------------------------------------
(* The worker's recovery.                                                  *)

\* Mutants of RecoverEntry: every expired reservation is given back; only one
\* that was never dispatched is looked for.
RecoverByRelease(r) ==
  /\ LedgerKind = "GROUP"
  /\ entry[r].status = "RESERVED"
  /\ ReleaseEntry(r)
  /\ UNCHANGED <<quotaVars, processVars>>

RecoverUndispatched(r) ==
  /\ LedgerKind = "GROUP"
  /\ ~entry[r].dispatched
  /\ RecoverExpired(r, entry[r].lease)
  /\ UNCHANGED <<quotaVars, processVars>>

\* recoverExpired: the lease has passed (a stalled gateway may be alive).
RecoverEntry(r) ==
  /\ LedgerKind = "GROUP"
  /\ RecoverExpired(r, entry[r].lease)
  /\ UNCHANGED <<quotaVars, processVars>>

Due(r, p) == Quota!Reserved(r, p) /\ marker[r][p].due

\* Mutant of FindOrphan: an entry that is not RESERVED counts as none.
FindInactive(r, p) ==
  /\ Due(r, p)
  /\ entry[r].status # "RESERVED"
  /\ p \notin orphan[r]
  /\ orphan' = [orphan EXCEPT ![r] = @ \cup {p}]
  /\ UNCHANGED <<ledgerVars, quotaVars, gateway, session, faults>>

\* recoverQuota finds an expired marker, and reads its entry in the group
\* ledger: a project's entry is not there.
FindOrphan(r, p) ==
  /\ Due(r, p)
  /\ LedgerKind = "PROJECT" \/ entry[r].status = "NONE"
  /\ p \notin orphan[r]
  /\ orphan' = [orphan EXCEPT ![r] = @ \cup {p}]
  /\ UNCHANGED <<ledgerVars, quotaVars, gateway, session, faults>>

\* It then releases the marker, whatever has happened since it read.
ReleaseOrphan(r, p) ==
  /\ p \in orphan[r]
  /\ \/ Quota!QuotaSettle(r, p, 0)
     \/ ~Quota!Reserved(r, p) /\ UNCHANGED quotaVars
  /\ orphan' = [orphan EXCEPT ![r] = @ \ {p}]
  /\ UNCHANGED <<ledgerVars, gateway, session, faults>>

\* Mutants of RecoverSlot: the entry's status is not looked at; only a request
\* that was held is.
RecoverAnySlot(r, p) ==
  /\ LedgerKind = "GROUP"
  /\ Due(r, p)
  /\ Quota!ReleaseConcurrency(r, p)
  /\ UNCHANGED <<ledgerVars, processVars>>

RecoverHeldSlot(r, p) ==
  /\ LedgerKind = "GROUP"
  /\ Due(r, p) /\ entry[r].held
  /\ Quota!ReleaseConcurrency(r, p)
  /\ UNCHANGED <<ledgerVars, processVars>>

\* An uncertain request keeps its cost reserved and gives its slot back.
RecoverSlot(r, p) ==
  /\ LedgerKind = "GROUP"
  /\ Due(r, p) /\ entry[r].status = "RECONCILIATION_REQUIRED"
  /\ Quota!ReleaseConcurrency(r, p)
  /\ UNCHANGED <<ledgerVars, processVars>>

-------------------------------------------------------------------------------
(* The environment.                                                        *)

\* A gateway that is alive may be late too, even before the budget is reserved.
MarkerFallsDue(r, p) ==
  /\ Quota!FallDue(r, p)
  /\ UNCHANGED <<ledgerVars, processVars>>

KeyExpires(p) ==
  /\ Quota!ExpireSlots(p)
  /\ UNCHANGED <<ledgerVars, processVars>>

AdminReconcile(r, o, action, amount) ==
  /\ Reconcile(r, o, action, amount)
  /\ UNCHANGED <<quotaVars, processVars>>

GatewayStep(r) ==
  \/ ReserveBudget(r) \/ Refuse(r) \/ RolledBack(r)
  \/ ExtendBudget(r) \/ Dispatch(r) \/ Interrupt(r)
  \/ \E billing \in {"KNOWN", "UNKNOWN", "NO_CHARGE"}, cost \in Amounts,
        again \in BOOLEAN : Answer(r, billing, cost, again)
  \/ ReleaseUnsent(r) \/ PersistFailure(r) \/ Persist(r) \/ PersistRefused(r)
  \/ GiveUp(r) \/ SlotsFreed(r) \/ GatewaySync(r)
  \/ \E p \in Policies : \/ ReserveQuota(r, p) \/ Rollback(r, p)
                         \/ RenewQuota(r, p) \/ FreeSlot(r, p)

\* What syncQuota does when nothing fails.
SessionWork(s, r) ==
  \/ \E p \in Policies : SyncSettle(s, r, p) \/ SyncCorrect(s, r, p)
  \/ SyncConfirm(s, r)

SessionStep(s, r) == SessionWork(s, r) \/ SyncFails(s, r)

WorkerStep(r) ==
  \/ WorkerSync(r) \/ RecoverEntry(r)
  \/ \E p \in Policies : \/ FindOrphan(r, p) \/ ReleaseOrphan(r, p)
                         \/ RecoverSlot(r, p)

RequestsNext ==
  \/ \E r \in Requests :
       \/ Accept(r) \/ GatewayStep(r) \/ Heartbeat(r) \/ Crash(r)
       \/ WorkerStep(r)
       \/ \E s \in Processes : SessionStep(s, r)
       \/ \E p \in Policies : MarkerFallsDue(r, p)
       \/ \E o \in Operations, action \in {"SETTLE", "RELEASE"},
             amount \in Amounts : AdminReconcile(r, o, action, amount)
  \/ \E p \in Policies : KeyExpires(p)

RequestSpec == RequestInit /\ [][RequestsNext]_requestVars

-------------------------------------------------------------------------------
(* Fairness: the worker's cron runs for ever, so what it finds it does.     *)
(* Nothing is assumed of the gateway: a handler may stop at any step.      *)

\* Time passes for what a handler has left behind, and the worker meets it.
Abandoned(r) == At(r, "DONE")

WorkerFair ==
  \A r \in Requests :
    /\ WF_requestVars(Abandoned(r) /\ RecoverEntry(r))
    /\ WF_requestVars(WorkerSync(r))
    /\ WF_requestVars(SessionWork("worker", r))
    /\ \A p \in Policies :
         /\ WF_requestVars(Abandoned(r) /\ MarkerFallsDue(r, p))
         /\ WF_requestVars(FindOrphan(r, p))
         /\ WF_requestVars(ReleaseOrphan(r, p))
         /\ WF_requestVars(RecoverSlot(r, p))

FairRequestSpec == RequestSpec /\ WorkerFair

-------------------------------------------------------------------------------
(* Properties.                                                             *)

\* Once an entry is marked synchronised, every marker of the request records
\* what the ledger settled (nothing, if it was given back): however the
\* handler's run, the worker's run and an administrator's corrections
\* interleave, no correction is marked as delivered that was not.
QuotaFollowsLedger ==
  \A r \in Requests, p \in Policies :
    /\ entry[r].status \in {"SETTLED", "RELEASED"}
    /\ outbox[r].synced
    => /\ Quota!Settled(r, p)
       /\ marker[r][p].corrected = entry[r].settled

\* A request that a supplier has been called for is not given back, whatever
\* died or was lost between the call and the end of the handler, unless an
\* administrator says so.
CalledIsAccounted ==
  \A r \in Requests :
    gateway[r].called /\ entry[r].status = "RELEASED" => entry[r].manualFinal

\* While a supplier is being called and the ledger still has the request as
\* running, it has its slot under every policy, however often its gateway
\* stalls and its markers fall due: neither the worker's recovery nor an orphan
\* scan gives it to another request.  Not so for a marker an orphan scan had
\* found before the budget was reserved: recoverQuota releases it without
\* looking again (group-budget.service.ts:346-349).
InFlightHoldsSlot ==
  \A r \in Requests, p \in Policies :
    /\ At(r, "CALLING") /\ entry[r].status = "RESERVED"
    /\ p \notin gateway[r].overtaken
    => Quota!Reserved(r, p) /\ ~marker[r][p].released

\* A dispatched request of unresolved cost keeps its quota reserved: "cost of
\* unknown routes stays reserved [...] and is not cleared by a timeout, an
\* interrupted stream, [...] or the exit of a process"
\* (docs/employee-api-access.md:148).  The marker that was overtaken before the
\* budget was reserved is again the exception.
UnresolvedKeepsQuota ==
  \A r \in Requests, p \in Policies :
    Open(r) /\ entry[r].dispatched /\ p \notin gateway[r].overtaken =>
      Quota!Reserved(r, p)

\* hold never reserves more than the attempts had reserved before: retries
\* that may have been charged were all covered by an extension.
HoldNeverGrows ==
  [][\A r \in Requests :
       entry'[r].held /\ ~entry[r].held =>
         entry'[r].reserved <= entry[r].reserved]_requestVars

\* A reservation whose handler has ended is settled, released or put up for
\* reconciliation: no lost reply or crash leaves money reserved for ever
\* without anyone to see it.
Recovered ==
  \A r \in Requests :
    Abandoned(r) /\ entry[r].status = "RESERVED"
      ~> entry[r].status # "RESERVED"

\* What the ledger has decided reaches Redis, even when the handler died
\* before, during or after its own synchronisation; unless a marker was
\* overtaken, which has recorded another cost and refuses every repetition.
EventuallySynced ==
  \A r \in Requests :
    Pending(r) ~> ~Pending(r) \/ gateway[r].overtaken # {}

\* The slot of a request whose handler has ended is given back under every
\* policy, with an entry of any status or none at all.
SlotsReturned ==
  \A r \in Requests, p \in Policies :
    Abandoned(r) /\ Quota!Reserved(r, p)
      ~> ~Quota!Reserved(r, p) \/ marker[r][p].released
===============================================================================
