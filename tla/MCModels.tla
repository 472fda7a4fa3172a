------------------------------ MODULE MCModels ------------------------------
(***************************************************************************)
(* The catalogue, the tests of its mappings and the requests that use it.  *)
(* `part` chooses in the initial state which of them moves, from a         *)
(* catalogue in use: the run explores the sum of the parts.                *)
(***************************************************************************)
EXTENDS ModelTesting, LegacyRelay, TLC

CONSTANTS x1, x2, c1, c2, k1, k2, m1, m2, b1, b2, p1, t1, t2, q1, q2

VARIABLE part

modelVars == <<catalogVars, testingVars, relayVars, part>>

\* The two actors of each kind are interchangeable.
ModelSymmetry ==
  {[s \in Calls \cup Tests \cup Requests |->
                   CASE i \in {2, 4} /\ s = x1 -> x2 [] i \in {2, 4} /\ s = x2 -> x1
                     [] i \in {3, 4} /\ s = t1 -> t2 [] i \in {3, 4} /\ s = t2 -> t1
                     [] i \in {3, 4} /\ s = q1 -> q2 [] i \in {3, 4} /\ s = q2 -> q1
                     [] OTHER -> s] : i \in 1 .. 4}

\* A week of two days of three minutes.  The first window passes midnight.
Window(days, start, end, from, until) ==
  [days |-> days, start |-> start, end |-> end, from |-> from, until |-> until, priority |-> 0]
MCWindows == {Window({1}, 2, 1, 0, Always), Window({2}, 0, 0, 0, 4)}
MCPatches == {[enabled |-> TRUE], [from |-> 4, until |-> Always], [priority |-> 1]}
MCValidities == {[from |-> 0, until |-> Always], [from |-> 0, until |-> 4]}

-----------------------------------------------------------------------------
(* A catalogue in use.                                                     *)

UsedChannel == [NoChannel EXCEPT !.lifecycle = "ACTIVE", !.enabled = TRUE]
UsedKey(c) == [NoKey EXCEPT !.lifecycle = "ACTIVE", !.channel = c, !.enabled = TRUE]
UsedMapping(c) == [NoMapping EXCEPT !.lifecycle = "ACTIVE", !.channel = c, !.model = m1,
                                    !.upstream = "u", !.enabled = TRUE, !.probed = TRUE,
                                    !.health = "HEALTHY"]
UsedPrice == [NoPrice EXCEPT !.lifecycle = "ACTIVE", !.model = m1, !.enabled = TRUE]

InUse(C, B) ==
  /\ channels = [c \in Channels |-> IF c \in C THEN UsedChannel ELSE NoChannel]
  /\ upstreamKeys = [k \in ChannelKeys |->
       IF k = k1 THEN UsedKey(c1) ELSE IF c2 \in C THEN UsedKey(c2) ELSE NoKey]
  /\ models = [m \in Models |-> IF m = m1 THEN [lifecycle |-> "ACTIVE", enabled |-> TRUE, sized |-> TRUE]
                                ELSE NoModel]
  /\ mappings = [b \in Mappings |-> IF b \notin B THEN NoMapping
                                    ELSE UsedMapping(IF b = b1 THEN c1 ELSE c2)]
  /\ rules = [r \in RuleIds |-> NoRule]
  /\ prices = [p \in Prices |-> IF B = {} THEN NoPrice ELSE UsedPrice]
  /\ calls = [x \in Calls |-> Idle]
  /\ overtaken = {} /\ stale = {}

ModelsInit ==
  /\ part \in {"binding", "rules", "channels", "offer", "probes", "relay", "keys"}
  /\ CASE part = "keys" -> InUse({c1, c2}, {b1, b2})
       [] part = "binding" -> InUse({c1}, {})
       [] OTHER -> InUse({c1}, {b1})
  /\ TestingInit /\ RelayInit

-----------------------------------------------------------------------------
\* One call of an administrator at a time.
OneCall == \E x \in Calls : calls'[x] = Idle

Resting == UNCHANGED <<testingVars, relayVars, part>>

\* Bindings: one channel, two models, two mappings.
BindingPart ==
  /\ part = "binding" /\ BindingNext /\ Resting
  /\ \A m \in Models : models'[m].sized => models[m].sized
  /\ \A b \in Mappings : ~mappings'[b].probed
  /\ mappings'[b1] = NoMapping => mappings'[b2] = NoMapping
  /\ \A x \in Calls : calls'[x].op \in {"BIND", "REBIND"} =>
       calls'[x].row.upstream = "u" /\ ~calls'[x].row.probed

\* Rules: one mapping, two rules, two calls.
RulesPart == part = "rules" /\ RulesNext /\ Resting

\* Channels: one that is used, one that is made; two keys of the first.
ChannelsPart ==
  /\ part = "channels" /\ ChannelsNext /\ Resting
  /\ OneCall
  /\ channels'[c2] \in {NoChannel, UsedChannel}
  /\ upstreamKeys'[k2] \in {NoKey, UsedKey(c1)}

\* What is offered: one model, one mapping, one price.
OfferPart ==
  /\ part = "offer" /\ Resting
  /\ \E at \in {1, 5} : OfferNext(at)
  /\ OneCall

\* Two tests of a mapping that is rebound and archived.
ProbesPart ==
  /\ part = "probes"
  /\ \/ TestingNext /\ UNCHANGED <<relayVars, part>>
     \/ Rebound /\ UNCHANGED <<relayVars, part>>
  /\ OneCall /\ mappings'[b2] = NoMapping
  /\ \A x \in Calls :
       /\ (calls'[x].op = "WRITE" /\ "probed" \in DOMAIN calls'[x].patch) =>
            calls'[x].patch["health"] = "DISABLED"
       /\ calls'[x].op = "REBIND" => calls'[x].row = [calls'[x].row EXCEPT !.model = m1, !.probed = TRUE]

\* Two requests, two quota policies, one channel.
RelayPart ==
  /\ part = "relay" /\ RelayNext(1) /\ UNCHANGED <<testingVars, part>>
  /\ \A q \in Requests : requests'[q].stage # "NEW" =>
       \A i \in DOMAIN requests'[q].tried :
         requests'[q].tried[i].status # IF i = 1 THEN "down" ELSE "late"

\* Two requests without quota policies, two channels, and an administrator and
\* a probe at work on the key of the first.
KeysPart ==
  /\ part = "keys"
  /\ \/ RelayNext(1) \/ KeysNext
  /\ UNCHANGED <<testingVars, part>>
  /\ OneCall
  /\ \A x \in Calls : calls'[x] # Idle =>
       /\ k1 \in {calls'[x][f] : f \in DOMAIN calls'[x] \cap {"id", "key"}}
       /\ calls'[x].op = "WRITE" => "spent" \notin DOMAIN calls'[x].patch
  /\ \A q \in Requests : requests'[q].stage # "NEW" =>
       /\ requests'[q].todo = {} /\ ~requests'[q].streaming /\ ~requests'[q].gone
       /\ \A i \in DOMAIN requests'[q].tried :
            requests'[q].tried[i].status \in (IF i < 3 THEN {"unavailable"} ELSE {}) \cup {"ok", "refused"}

ModelsNext == \/ BindingPart \/ RulesPart \/ ChannelsPart \/ OfferPart \/ ProbesPart \/ RelayPart \/ KeysPart

ModelsSpec == ModelsInit /\ [][ModelsNext]_modelVars
=============================================================================
