------------------------------ MODULE QuotaRedis ------------------------------
(***************************************************************************)
(* The Redis quota (packages/quota/src/redis-quota.ts): for each quota     *)
(* policy its cost counters, its concurrency key, and one marker for each  *)
(* reservation.  A Lua script runs alone, so each call is one action; a    *)
(* call that is refused, or repeats what the marker already records,       *)
(* changes nothing.  The token counters move like the cost counters and    *)
(* are never corrected; the per-second and per-minute rate keys only       *)
(* refuse reservations.  Both are left out.                                *)
(*                                                                         *)
(* Keys expire.  A time to live is not a number here: it is the condition  *)
(* under which nothing refreshes the key any more.                         *)
(***************************************************************************)
EXTENDS Totals

CONSTANTS
  Requests,         \* requests that reserve quota
  Legacy,           \* those of the unbudgeted path: they have no marker
  Policies,         \* quota policies: each has its own keys
  Amounts,          \* micro-dollar amounts
  ConcurrencyLimit, \* a policy's concurrency; 0 is no limit
  CostLimit,        \* a policy's cost quota; 0 is no limit
  MaxVersion        \* bound on the corrections of one request

NoGeneration == "no generation"

ASSUME QuotaAssumption ==
  /\ IsFiniteSet(Requests)
  /\ NoGeneration \notin Requests
  /\ Legacy \subseteq Requests
  /\ Amounts \subseteq Nat
  /\ ConcurrencyLimit \in Nat
  /\ CostLimit \in Nat
  /\ MaxVersion \in Nat

VARIABLES
  marker,     \* marker[r][p]: the reservation of r under policy p
  usage,      \* usage[p][w]: the cost counter of p in window w
  slots,      \* slots[p]: the concurrency key of p and its generation key
  renewing    \* the requests whose gateway is alive and renews them

quotaVars == <<marker, usage, slots, renewing>>

Windows == {"day", "month"}

\* A marker; of a legacy request, what the gateway keeps in memory instead.
\* `due` says that recoverAfter has passed.
Marker == [state: {"NONE", "RESERVED", "SETTLED", "EXPIRED"},
           estimate: Nat, actual: Nat, corrected: Nat, version: Nat,
           generation: Requests \cup {NoGeneration},
           released: BOOLEAN, due: BOOLEAN]

Counter == [state: {"UNOPENED", "OPEN", "EXPIRED"}, cost: Nat]

\* `ahead`: the concurrency key was refreshed later than its generation key.
\* History of the key, for the properties: `overrun`, the requests it last
\* expired under that have nothing to match; `lapsed`, its generation expired.
Slots == [exists: BOOLEAN, count: Nat,
          generation: Requests \cup {NoGeneration}, ahead: BOOLEAN,
          overrun: SUBSET Requests, lapsed: BOOLEAN]

QuotaTypeOK ==
  /\ marker \in [Requests -> [Policies -> Marker]]
  /\ usage \in [Policies -> [Windows -> Counter]]
  /\ slots \in [Policies -> Slots]
  /\ renewing \subseteq Requests

-------------------------------------------------------------------------------
Marked(r) == r \notin Legacy
Reserved(r, p) == marker[r][p].state = "RESERVED"
Settled(r, p) == marker[r][p].state = "SETTLED"

NewMarker == [state |-> "NONE", estimate |-> 0, actual |-> 0, corrected |-> 0,
              version |-> 0, generation |-> NoGeneration,
              released |-> FALSE, due |-> FALSE]

NoSlots == [exists |-> FALSE, count |-> 0, generation |-> NoGeneration,
            ahead |-> FALSE, overrun |-> {}, lapsed |-> FALSE]

QuotaInit ==
  /\ marker = [r \in Requests |-> [p \in Policies |-> NewMarker]]
  /\ usage = [p \in Policies |->
                [w \in Windows |-> [state |-> "UNOPENED", cost |-> 0]]]
  /\ slots = [p \in Policies |-> NoSlots]
  /\ renewing = {}

\* Mutant of Charged: INCRBY brings an expired counter back.
ChargedAnyway(p, delta) ==
  [w \in Windows |-> [state |-> "OPEN", cost |-> usage[p][w].cost + delta]]

\* INCRBY on the counters of p that exist.
Charged(p, delta) ==
  [w \in Windows |->
     IF usage[p][w].state = "OPEN"
     THEN [usage[p][w] EXCEPT !.cost = @ + delta] ELSE usage[p][w]]

\* Mutants of Frees: the key has no lower bound; a slot is given back twice;
\* a slot of an earlier life of the key is taken from the present one.
FreesBelowZero(r, p) ==
  Marked(r) => /\ ~marker[r][p].released
               /\ marker[r][p].generation = slots[p].generation

FreesTwice(r, p) ==
  /\ slots[p].count > 0
  /\ Marked(r) => marker[r][p].generation = slots[p].generation

FreesAnyLife(r, p) ==
  /\ slots[p].count > 0
  /\ Marked(r) => ~marker[r][p].released

\* A reservation gives its slot back if it has one in the present life of the
\* concurrency key.
Frees(r, p) ==
  /\ slots[p].count > 0
  /\ Marked(r) => /\ ~marker[r][p].released
                  /\ marker[r][p].generation = slots[p].generation

Freed(r, p) ==
  IF Frees(r, p) THEN [slots[p] EXCEPT !.count = @ - 1] ELSE slots[p]

SetMarker(r, p, m) == marker' = [marker EXCEPT ![r] = [@ EXCEPT ![p] = m]]

-------------------------------------------------------------------------------
(* The scripts.                                                            *)

QuotaAdmits(p, amount) ==
  /\ ConcurrencyLimit = 0 \/ slots[p].count + 1 <= ConcurrencyLimit
  /\ \A w \in Windows :
       /\ usage[p][w].state # "EXPIRED"
       /\ CostLimit = 0 \/ usage[p][w].cost + amount <= CostLimit

\* The concurrency key after one more request has entered.
Entered(r, p) ==
  [slots[p] EXCEPT
     !.exists = TRUE, !.count = @ + 1,
     !.generation = IF Marked(r) /\ ~slots[p].exists THEN r ELSE @,
     !.ahead = ~Marked(r)]

\* reserve (reserveQuotaLua).
QuotaReserve(r, p, amount) ==
  /\ marker[r][p].state = "NONE"
  /\ QuotaAdmits(p, amount)
  /\ usage' = [usage EXCEPT ![p] =
                 [w \in Windows |->
                    [state |-> "OPEN", cost |-> usage[p][w].cost + amount]]]
  /\ slots' = [slots EXCEPT ![p] = Entered(r, p)]
  /\ SetMarker(r, p, [NewMarker EXCEPT
       !.state = "RESERVED", !.estimate = amount,
       !.generation = IF Marked(r) THEN Entered(r, p).generation ELSE @])
  /\ renewing' = renewing \cup {r}

\* settle (settleQuotaLua); release is a settlement at no cost.
QuotaSettle(r, p, actual) ==
  /\ Reserved(r, p)
  /\ usage' = [usage EXCEPT ![p] = Charged(p, actual - marker[r][p].estimate)]
  /\ slots' = [slots EXCEPT ![p] = Freed(r, p)]
  /\ SetMarker(r, p, [marker[r][p] EXCEPT
       !.state = "SETTLED", !.actual = actual, !.corrected = actual])
  /\ UNCHANGED renewing

\* releaseConcurrency: the cost stays reserved, the slot does not.
ReleaseConcurrency(r, p) ==
  /\ Marked(r) /\ Reserved(r, p) /\ ~marker[r][p].released
  /\ slots' = [slots EXCEPT ![p] = Freed(r, p)]
  /\ SetMarker(r, p, [marker[r][p] EXCEPT !.released = TRUE])
  /\ UNCHANGED <<usage, renewing>>

\* renew: the marker's recovery time, and the keys of its own generation.
Renew(r, p) ==
  /\ Marked(r) /\ Reserved(r, p) /\ r \in renewing
  /\ SetMarker(r, p, [marker[r][p] EXCEPT !.due = FALSE])
  /\ slots' = [slots EXCEPT ![p] =
                 IF marker[r][p].generation = slots[p].generation
                 THEN [slots[p] EXCEPT !.ahead = FALSE] ELSE slots[p]]
  /\ UNCHANGED <<usage, renewing>>

\* Mutant of CorrectCost: a late version is applied.
CorrectCostLate(r, p, cost, version) ==
  /\ Marked(r) /\ Settled(r, p)
  /\ version # marker[r][p].version
  /\ usage' = [usage EXCEPT ![p] = Charged(p, cost - marker[r][p].corrected)]
  /\ SetMarker(r, p, [marker[r][p] EXCEPT !.corrected = cost,
                                          !.version = version])
  /\ UNCHANGED <<slots, renewing>>

\* correctCost: versions apply in order, each once, and a late one not at all.
CorrectCost(r, p, cost, version) ==
  /\ Marked(r) /\ Settled(r, p)
  /\ version > marker[r][p].version
  /\ usage' = [usage EXCEPT ![p] = Charged(p, cost - marker[r][p].corrected)]
  /\ SetMarker(r, p, [marker[r][p] EXCEPT !.corrected = cost,
                                          !.version = version])
  /\ UNCHANGED <<slots, renewing>>

-------------------------------------------------------------------------------
(* The passing of time.                                                    *)

\* The gateway of r dies, or is done with it, and renews it no more (a stall
\* shorter than the 600 s of the concurrency key is not an end).
Abandon(r) ==
  /\ r \in renewing
  /\ renewing' = renewing \ {r}
  /\ UNCHANGED <<marker, usage, slots>>

\* recoverAfter (120 s) passes: the gateway is dead, or stalled too long to
\* renew the marker (every 30 s).
FallDue(r, p) ==
  /\ Marked(r) /\ Reserved(r, p) /\ ~marker[r][p].due
  /\ SetMarker(r, p, [marker[r][p] EXCEPT !.due = TRUE])
  /\ UNCHANGED <<usage, slots, renewing>>

\* Some live gateway keeps the keys of the present generation from expiring.
KeptAlive(p) ==
  \E r \in renewing : /\ Marked(r) /\ Reserved(r, p)
                      /\ marker[r][p].generation = slots[p].generation

\* The concurrency key expires (600 s); its generation key does not outlive it.
ExpireSlots(p) ==
  /\ slots[p].exists
  /\ ~KeptAlive(p)
  /\ slots' = [slots EXCEPT ![p] =
       [NoSlots EXCEPT !.overrun =
          {r \in Requests : /\ Reserved(r, p) /\ ~marker[r][p].released
                            /\ marker[r][p].generation = NoGeneration}]]
  /\ UNCHANGED <<marker, usage, renewing>>

\* The generation key expires alone: only unbudgeted requests, which do not
\* refresh it, have reserved since.
ExpireGeneration(p) ==
  /\ slots[p].exists /\ slots[p].ahead
  /\ slots[p].generation # NoGeneration
  /\ ~KeptAlive(p)
  /\ slots' = [slots EXCEPT ![p] = [slots[p] EXCEPT
                 !.generation = NoGeneration, !.lapsed = TRUE]]
  /\ UNCHANGED <<marker, usage, renewing>>

\* The counters of a window expire (2 days, 32 days) after the window itself
\* has ended and the unbudgeted requests that reserved in it are over.
ExpireWindow(p, w) ==
  /\ usage[p][w].state = "OPEN"
  /\ w = "month" => usage[p]["day"].state = "EXPIRED"
  /\ \A r \in Legacy : ~Reserved(r, p)
  /\ usage' = [usage EXCEPT ![p] =
                 [@ EXCEPT ![w] = [state |-> "EXPIRED", cost |-> 0]]]
  /\ UNCHANGED <<marker, slots, renewing>>

\* A settled marker expires (64 days).
ExpireMarker(r, p) ==
  /\ Marked(r) /\ Settled(r, p)
  /\ usage[p]["month"].state = "EXPIRED"
  /\ SetMarker(r, p, [marker[r][p] EXCEPT !.state = "EXPIRED"])
  /\ UNCHANGED <<usage, slots, renewing>>

-------------------------------------------------------------------------------
\* A gateway that has ended reserves nothing more.
Started(r) == r \in renewing \/ \A p \in Policies : marker[r][p].state = "NONE"

QuotaCalls(r, p) ==
  \/ \E amount \in Amounts : \/ Started(r) /\ QuotaReserve(r, p, amount)
                             \/ QuotaSettle(r, p, amount)
  \/ ReleaseConcurrency(r, p)
  \/ Renew(r, p)
  \/ \E cost \in Amounts, version \in 1 .. MaxVersion :
       CorrectCost(r, p, cost, version)

QuotaTime ==
  \/ \E r \in Requests :
       \/ Abandon(r)
       \/ \E p \in Policies : FallDue(r, p) \/ ExpireMarker(r, p)
  \/ \E p \in Policies :
       \/ ExpireSlots(p)
       \/ ExpireGeneration(p)
       \/ \E w \in Windows : ExpireWindow(p, w)

QuotaNext ==
  \/ \E r \in Requests, p \in Policies : QuotaCalls(r, p)
  \/ QuotaTime

QuotaSpec == QuotaInit /\ [][QuotaNext]_quotaVars

-------------------------------------------------------------------------------
(* Properties.                                                             *)

\* What each request counts for under policy p.
Charges(p) ==
  [r \in Requests |-> CASE Reserved(r, p) -> marker[r][p].estimate
                        [] Settled(r, p)  -> marker[r][p].corrected
                        [] OTHER          -> 0]

\* A counter is the sum of what is reserved and of what was finally charged,
\* through late settlements, repeated and reordered corrections; and a counter
\* that has expired is not brought back to life by any of them.
UsageExact ==
  \A p \in Policies, w \in Windows :
    usage[p][w].cost =
      IF usage[p][w].state = "OPEN" THEN Total(Charges(p), Requests) ELSE 0

\* The requests that hold a slot in the present life of the concurrency key.
Holders(p) ==
  {r \in Requests :
     /\ Reserved(r, p) /\ ~marker[r][p].released
     /\ Marked(r) => slots[p].exists
                       /\ marker[r][p].generation = slots[p].generation}

\* The concurrency key counts its holders: a slot is given back once, and a
\* late settlement of a request from before the key expired takes nobody
\* else's.  Not so after a key has expired under an unbudgeted request, or a
\* generation under a crashed one: those slots return when the key expires.
SlotsExact ==
  \A p \in Policies :
    slots[p].overrun = {} /\ ~slots[p].lapsed =>
      slots[p].count = Cardinality(Holders(p))

\* The live budgeted requests, of every generation, and all the unbudgeted ones.
Running(p) ==
  {r \in Requests : /\ Reserved(r, p) /\ ~marker[r][p].released
                    /\ Marked(r) => r \in renewing}

\* No more requests run than the policy allows, but for one more for each that
\* the key has expired under: an unbudgeted request of more than 600 s lets one
\* other in, be it still running or be its settlement taken from the new count,
\* and never two.
ConcurrencyLimited ==
  \A p \in Policies :
    ConcurrencyLimit > 0 =>
      Cardinality(Running(p)) <= ConcurrencyLimit + Cardinality(slots[p].overrun)

\* A correction is never undone by an older one that arrives late.
CorrectionsInOrder ==
  [][\A r \in Requests, p \in Policies :
       marker[r][p].version > 0 /\ Settled(r, p) =>
         /\ marker'[r][p].version >= marker[r][p].version
         /\ marker'[r][p].corrected # marker[r][p].corrected =>
              marker'[r][p].version > marker[r][p].version]_quotaVars
===============================================================================
