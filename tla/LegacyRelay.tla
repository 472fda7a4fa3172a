---------------------------- MODULE LegacyRelay ----------------------------
(***************************************************************************)
(* A request without a group (apps/gateway/src/gateway.service.ts,         *)
(* packages/gateway-core/src/relay.ts and routing.ts): the candidates are  *)
(* chosen from the catalogue, every quota policy is reserved, the          *)
(* candidates are tried in turn, and the answer is settled and logged when *)
(* the client's response finishes or closes.  What the request learns of   *)
(* keys and channels is written to the catalogue, which administrators and *)
(* other requests change meanwhile.                                        *)
(*                                                                         *)
(* The quota is the counter of requests under way of each policy; how it   *)
(* is kept in Redis is QuotaRedis.  Prices are left out: a reservation is  *)
(* not told from another by its amount.                                    *)
(***************************************************************************)
EXTENDS Catalog, Sequences

CONSTANTS
  Requests,
  Policies,         \* quota policies; any of them may concern a request
  ConcurrencyLimit, \* of each policy
  MaxRetries        \* of each channel

ASSUME RelayAssumption == {ConcurrencyLimit, MaxRetries} \subseteq Nat /\ IsFiniteSet(Mappings)

VARIABLES
  requests, \* requests[q]: a request under way
  quota,    \* quota[p]: the requests with a reservation against p
  ended,    \* ended[q]: the reservations of q that were settled or released, with repetition
  refused   \* keys that a supplier refused and nobody enabled since

relayVars == <<requests, quota, ended, refused>>

NewRequest == [stage |-> "NEW"]

RelayInit ==
  /\ requests = [q \in Requests |-> NewRequest]
  /\ quota = [p \in Policies |-> {}]
  /\ ended = [q \in Requests |-> <<>>]
  /\ refused = {}

Goes(q, request) == requests' = [requests EXCEPT ![q] = request]

-----------------------------------------------------------------------------
(* The candidates.                                                         *)

\* Mappings of the model that may be called, each with a usable key.
CandidatesOf(m, at) ==
  {b \in Mappings : /\ mappings[b].model = m /\ Routable(b)
                    /\ UsableKeys(mappings[b].channel) # {}
                    /\ CostOf(b, at)[1] # "NONE"}

PriorityOf(b) == channels[mappings[b].channel].priority

\* selectChannel draws among the highest priority that remains, so every order
\* in which priorities do not rise is possible.
Routes(m, at) ==
  LET S == CandidatesOf(m, at)
      Orders == {f \in [1 .. Cardinality(S) -> S] :
                   \A i, j \in 1 .. Cardinality(S) :
                     i < j => f[i] # f[j] /\ PriorityOf(f[i]) >= PriorityOf(f[j])}
  IN UNION {{[i \in DOMAIN f |-> [mapping |-> f[i], channel |-> mappings[f[i]].channel, key |-> keyOf[f[i]],
                                  price |-> IF CostOf(f[i], at)[1] = "CHANNEL_COST_RULE" THEN {}
                                            ELSE FallbackPrices(m, at)]] :
               keyOf \in {g \in [S -> ChannelKeys] : \A b \in S : g[b] \in UsableKeys(mappings[b].channel)}} :
              f \in Orders}

Begin(q, m, at) ==
  /\ requests[q] = NewRequest
  /\ Live(models[m]) /\ models[m].enabled
  /\ CandidatesOf(m, at) # {}
  /\ \E route \in Routes(m, at), todo \in SUBSET Policies, streaming \in BOOLEAN :
       Goes(q, [stage |-> "OPEN", todo |-> todo, made |-> {}, first |-> route[1], route |-> route,
                tries |-> 0, tried |-> <<>>, streaming |-> streaming, gone |-> FALSE,
                finalized |-> FALSE])
  /\ UNCHANGED <<quota, ended, refused, channels, upstreamKeys, prices>>

-----------------------------------------------------------------------------
(* Reservations.                                                           *)

Rejected(q) == Goes(q, [requests[q] EXCEPT !.stage = "REJECTED"])

\* The limit may refuse, Redis may fail before or after it has reserved, and so
\* may the audit of a threshold that the reservation passed.
Reserve(q, p) ==
  /\ requests[q].stage = "OPEN" /\ p \in requests[q].todo
  /\ \/ /\ Cardinality(quota[p]) < ConcurrencyLimit
        /\ quota' = [quota EXCEPT ![p] = @ \cup {q}]
        /\ \/ \E stage \in {"OPEN", "REJECTED"} :
                Goes(q, [requests[q] EXCEPT !.stage = stage, !.todo = @ \ {p}, !.made = @ \cup {p}])
           \/ Rejected(q)
     \/ Rejected(q) /\ UNCHANGED quota
  /\ UNCHANGED <<ended, refused, channels, upstreamKeys, prices>>

\* Mutant of Returned: a rejected request keeps what it had reserved before.
ReturnedUnlessRejected(q) == IF requests[q].stage = "REJECTED" THEN {} ELSE requests[q].made

\* The reservations that a request gives back: all that it knows it made.
Returned(q) == requests[q].made

\* Release or settle every reservation.  A call that fails leaves the slot in
\* use until the counter expires.
Return(q, next) ==
  \E lost \in SUBSET Returned(q) :
    /\ quota' = [p \in Policies |-> IF p \in Returned(q) \ lost THEN quota[p] \ {q} ELSE quota[p]]
    /\ ended' = [ended EXCEPT ![q] = Append(@, [given |-> Returned(q), lost |-> lost])]
    /\ Goes(q, next)

Reject(q) ==
  /\ requests[q].stage = "REJECTED"
  /\ Return(q, [requests[q] EXCEPT !.stage = "DONE"])
  /\ UNCHANGED <<refused, channels, upstreamKeys, prices>>

-----------------------------------------------------------------------------
(* relayRequest.                                                           *)

Retried == {"down", "late", "unavailable"}  \* no answer; 408; 429 and 5xx

\* One attempt: what cannot be retried is the answer; after the retries of a
\* channel comes the next candidate.
Attempt(q) ==
  LET request == requests[q]
      candidate == request.route[1]
  IN /\ request.stage = "OPEN" /\ request.todo = {} /\ request.route # <<>>
     /\ \E status \in Retried \cup {"ok", "refused", "invalid"} :
          LET tried == Append(request.tried, [channel |-> candidate.channel, key |-> candidate.key,
                                              status |-> status])
          IN Goes(q, CASE status \notin Retried -> [request EXCEPT !.stage = "ANSWERED", !.tried = tried]
                       [] status \in Retried /\ request.tries < MaxRetries ->
                            [request EXCEPT !.tries = @ + 1, !.tried = tried]
                       [] OTHER -> [request EXCEPT !.tries = 0, !.tried = tried, !.route = Tail(@)])
     /\ UNCHANGED <<quota, ended, refused, channels, upstreamKeys, prices>>

\* Keys whose attempts found no answer, 429 or 5xx, but not 408.
FailedKeys(q) ==
  {requests[q].tried[i].key : i \in {j \in DOMAIN requests[q].tried :
                                       requests[q].tried[j].status \in {"down", "unavailable"}}}

Isolate(K) ==
  upstreamKeys' = [k \in ChannelKeys |->
    IF k \in K /\ Live(upstreamKeys[k])
    THEN Merge(upstreamKeys[k], [health |-> "DEGRADED", isolated |-> TRUE]) ELSE upstreamKeys[k]]

\* No candidate answered: give the reservations back ...
Exhausted(q) ==
  /\ requests[q].stage = "OPEN" /\ requests[q].todo = {} /\ requests[q].route = <<>>
  /\ Return(q, [requests[q] EXCEPT !.stage = "UNLOGGED"])
  /\ UNCHANGED <<refused, channels, upstreamKeys, prices>>

Used(P) == prices' = [p \in Prices |-> IF p \in P THEN [prices[p] EXCEPT !.used = TRUE] ELSE prices[p]]

\* ... unless that failed, log the request, isolate its keys, open its channels.
LogFailure(q) ==
  LET tried == requests[q].tried
  IN /\ requests[q].stage = "UNLOGGED"
     /\ IF ended[q][Len(ended[q])].lost = {}
        THEN /\ Used(requests[q].first.price)
             /\ Isolate(FailedKeys(q))
             /\ channels' = [c \in Channels |->
                  IF Live(channels[c]) /\ \E i \in DOMAIN tried : tried[i].channel = c
                  THEN Merge(channels[c], [health |-> "DEGRADED", open |-> TRUE]) ELSE channels[c]]
        ELSE UNCHANGED <<channels, upstreamKeys, prices>>
     /\ Goes(q, [requests[q] EXCEPT !.stage = "DONE"])
     /\ UNCHANGED <<quota, ended, refused>>

-----------------------------------------------------------------------------
(* The end of an answered request.                                         *)

\* The client goes away before the listeners of the response are there.
ClientGoes(q) ==
  /\ requests[q].stage = "OPEN" /\ ~requests[q].gone /\ requests[q].streaming
  /\ Goes(q, [requests[q] EXCEPT !.gone = TRUE])
  /\ UNCHANGED <<quota, ended, refused, channels, upstreamKeys, prices>>

\* The body of an error breaks off while it is read: the log is never reached.
BodyBreaks(q) ==
  /\ requests[q].stage = "ANSWERED" /\ ~requests[q].gone /\ ~requests[q].streaming
  /\ requests[q].tried[Len(requests[q].tried)].status # "ok"
  /\ Goes(q, [requests[q] EXCEPT !.gone = TRUE])
  /\ UNCHANGED <<quota, ended, refused, channels, upstreamKeys, prices>>

\* saveLog: settle once; the status is 499 when the response was closed early.
SaveLog(q, status) ==
  /\ ~requests[q].finalized
  /\ Return(q, [requests[q] EXCEPT !.stage = "SETTLED", !.finalized = TRUE,
                                   !.tried[Len(requests[q].tried)].status = status])

\* A response that is not streamed is sent and logged; a stream is logged when
\* it finishes, or closes unfinished.
Finish(q) ==
  /\ requests[q].stage = "ANSWERED" /\ ~requests[q].gone
  /\ SaveLog(q, requests[q].tried[Len(requests[q].tried)].status)
  /\ UNCHANGED <<refused, channels, upstreamKeys, prices>>

Close(q) ==
  /\ requests[q].stage = "ANSWERED" /\ ~requests[q].gone /\ requests[q].streaming
  /\ SaveLog(q, "closed")
  /\ UNCHANGED <<refused, channels, upstreamKeys, prices>>

\* Mutant of Refusal: a refused key is only marked, as by a test of the channel.
RefusalMarked == [health |-> "UNHEALTHY", isolated |-> FALSE]

Refusal == [enabled |-> FALSE, health |-> "UNHEALTHY", isolated |-> FALSE]

\* The log, which uses the price version; then key, other keys and channel.
Log(q) ==
  LET request == requests[q]
      candidate == request.route[1]
      k == candidate.key
      c == candidate.channel
      status == request.tried[Len(request.tried)].status
      others == FailedKeys(q) \ {k}
  IN /\ request.stage = "SETTLED"
     /\ upstreamKeys' = [l \in ChannelKeys |->
          LET row == upstreamKeys[l]
          IN CASE l = k /\ Live(row) /\ status = "refused" -> Merge(row, Refusal)
               [] l = k /\ Live(row) /\ status = "ok" ->
                    Merge(row, [health |-> "HEALTHY", isolated |-> FALSE])
               [] l \in others /\ Live(row) -> Merge(row, [health |-> "DEGRADED", isolated |-> TRUE])
               [] OTHER -> row]
     /\ channels' = [channels EXCEPT ![c] =
          IF ~Live(@) THEN @
          ELSE IF status = "ok" THEN Merge(@, [health |-> "HEALTHY", open |-> FALSE])
          ELSE IF status = "refused" THEN Merge(@, [health |-> "DEGRADED"]) ELSE @]
     /\ Used(candidate.price)
     /\ refused' = IF status = "refused" /\ Live(upstreamKeys[k]) THEN refused \cup {k} ELSE refused
     /\ Goes(q, [request EXCEPT !.stage = "DONE"])
     /\ UNCHANGED <<quota, ended>>

-----------------------------------------------------------------------------
(* Time: isolation and open circuits last 60 s, an unreturned slot 600 s.  *)

IsolationEnds(k) ==
  /\ upstreamKeys[k].isolated
  /\ upstreamKeys' = [upstreamKeys EXCEPT ![k].isolated = FALSE]
  /\ UNCHANGED <<relayVars, channels, prices>>

CircuitCloses(c) ==
  /\ channels[c].open
  /\ channels' = [channels EXCEPT ![c].open = FALSE]
  /\ UNCHANGED <<relayVars, upstreamKeys, prices>>

SlotExpires(q, p) ==
  /\ q \in quota[p]
  /\ requests[q].stage = "DONE" \/ (requests[q].stage = "ANSWERED" /\ requests[q].gone)
  /\ quota' = [quota EXCEPT ![p] = @ \ {q}]
  /\ UNCHANGED <<requests, ended, refused, channels, upstreamKeys, prices>>

RelayNext(at) ==
  /\ \/ \E q \in Requests :
          \/ \E m \in Models : Begin(q, m, at)
          \/ Reject(q) \/ Attempt(q) \/ Exhausted(q) \/ LogFailure(q)
          \/ ClientGoes(q) \/ BodyBreaks(q) \/ Finish(q) \/ Close(q) \/ Log(q)
          \/ \E p \in Policies : Reserve(q, p) \/ SlotExpires(q, p)
     \/ \E k \in ChannelKeys : IsolationEnds(k)
     \/ \E c \in Channels : CircuitCloses(c)
  /\ UNCHANGED <<models, mappings, rules, calls, overtaken, stale>>

\* What administrators and probes do to the keys meanwhile.
KeysNext ==
  /\ \E x \in Calls :
       \/ FinishUnlocked(x) \/ FinishProbe(x)
       \/ \E k \in ChannelKeys : \/ UpdateKey(x, k) \/ ArchiveKey(x, k) \/ RestoreKey(x, k)
                                 \/ \E c \in Channels : TestChannel(x, c, k) \/ ProbeChannel(x, c, k)
  /\ refused' = {k \in refused :
       ~\E x \in Calls : /\ calls[x].op = "WRITE" /\ calls'[x] = Idle
                         /\ calls[x].table = "upstreamKeys" /\ calls[x].id = k
                         /\ "enabled" \in DOMAIN calls[x].patch /\ calls[x].patch["enabled"]}
  /\ UNCHANGED <<requests, quota, ended>>

-----------------------------------------------------------------------------
\* A request that is over has ended each reservation it made exactly once,
\* whether it was rejected half-way, found no supplier, or finished or was
\* closed: of what it knows it reserved it holds only what Redis lost.
ReservationsEnd ==
  \A q \in Requests : requests[q].stage = "DONE" =>
    /\ Len(ended[q]) = 1
    /\ \A p \in requests[q].made \ ended[q][1].lost : q \notin quota[p]

\* A key that a supplier refused is out of the routes until an administrator
\* enables it again, whatever successes, failures and probes of the same key
\* are recorded later by requests that began before.
RefusedStaysOut == \A k \in refused : ~upstreamKeys[k].enabled
=============================================================================
