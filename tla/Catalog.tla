------------------------------ MODULE Catalog ------------------------------
(***************************************************************************)
(* The catalogue of the gateway: channels with their keys, public models   *)
(* with their prices, the mappings of models to channels and the cost      *)
(* rules of the mappings (apps/api/src/channels.service.ts,                *)
(* channel-models.service.ts, model-binding.service.ts, models.service.ts).*)
(*                                                                         *)
(* Most handlers read a row, decide, and write it later by its id alone:   *)
(* a call of the model keeps the row to insert, or the fields to write,    *)
(* between the two.  A binding, and the archiving of a channel or a public *)
(* model, hold advisory locks of the channel and of the models; a cost     *)
(* rule is checked against the others and written under a lock of its      *)
(* mapping.  A mapping has one protocol.                                   *)
(***************************************************************************)
EXTENDS CostSchedule

CONSTANTS
  Channels, ChannelKeys, Models, Mappings, Prices,
  RuleIds,     \* numbers: the order of ids decides between equal rules
  Upstreams,   \* names of models at the suppliers
  Priorities,  \* of channels and keys
  Windows,     \* the schedules that a new rule may have
  Patches,     \* the fields that an update of a rule may change
  Validities,  \* the validity that a price may have
  Calls        \* concurrent calls of the administrators

\* What the DTOs and validateScheduledCost let through.
RuleInput == [enabled |-> BOOLEAN, priority |-> Nat, days |-> (SUBSET Days) \ {{}},
              start |-> Minutes, end |-> Minutes, from |-> Nat, until |-> Nat]

\* `patch` sets some of the fields, each to a value of its set.
Fits(patch, fields) ==
  DOMAIN patch \subseteq DOMAIN fields /\ \A f \in DOMAIN patch : patch[f] \in fields[f]

ASSUME CatalogAssumption ==
  /\ RuleIds \subseteq Nat /\ IsFiniteSet(RuleIds) /\ Priorities \subseteq Int
  /\ "none" \notin Channels \cup Models \cup Mappings
  /\ \A w \in Windows : Fits(w, RuleInput) /\ DOMAIN w = DOMAIN RuleInput \ {"enabled"}
  /\ \A patch \in Patches : Fits(patch, RuleInput)
  /\ \A v \in Validities : Fits(v, [from |-> Nat, until |-> Nat])

VARIABLES
  channels, upstreamKeys, models, mappings, rules, prices,
  calls,       \* calls[x]: a call under way
  overtaken,   \* unlocked calls that have seen a parent in use which is archived since
  stale        \* mappings that such a call has brought back under an archived parent

catalogVars ==
  <<channels, upstreamKeys, models, mappings, rules, prices, calls, overtaken, stale>>

\* Every row may be written by a patch: the fields of the patch replace its own.
Merge(row, patch) ==
  [f \in DOMAIN row |-> IF f \in DOMAIN patch THEN patch[f] ELSE row[f]]

Live(row) == row.lifecycle = "ACTIVE"
Healthy(row) == row.health \in {"HEALTHY", "DEGRADED"}

NoChannel == [lifecycle |-> "ABSENT", enabled |-> FALSE, health |-> "HEALTHY", open |-> FALSE,
              priority |-> 0, auto |-> FALSE]
NoKey == [lifecycle |-> "ABSENT", channel |-> "none", enabled |-> FALSE, health |-> "HEALTHY",
          isolated |-> FALSE, spent |-> FALSE, priority |-> 0]
NoModel == [lifecycle |-> "ABSENT", enabled |-> FALSE, sized |-> FALSE]
NoMapping == [lifecycle |-> "ABSENT", channel |-> "none", model |-> "none", upstream |-> "none",
              enabled |-> FALSE, probed |-> FALSE, health |-> "UNKNOWN", failures |-> 0, tested |-> 0]
NoRule == [lifecycle |-> "ABSENT", mapping |-> "none", enabled |-> FALSE, priority |-> 0,
           days |-> {}, start |-> 0, end |-> 0, from |-> 0, until |-> Always, created |-> 0]
NoPrice == [lifecycle |-> "ABSENT", model |-> "none", enabled |-> FALSE, from |-> 0,
            until |-> Always, used |-> FALSE]
Idle == [op |-> "IDLE"]

CatalogInit ==
  /\ channels = [c \in Channels |-> NoChannel]
  /\ upstreamKeys = [k \in ChannelKeys |-> NoKey]
  /\ models = [m \in Models |-> NoModel]
  /\ mappings = [b \in Mappings |-> NoMapping]
  /\ rules = [r \in RuleIds |-> NoRule]
  /\ prices = [p \in Prices |-> NoPrice]
  /\ calls = [x \in Calls |-> Idle]
  /\ overtaken = {} /\ stale = {}

-----------------------------------------------------------------------------
(* Locks.                                                                  *)

LockOf(kind, id) == <<kind, id>>

\* A binding holds its channel, its public models (taken in the order of their
\* names, so that bindings do not wait in a circle) and its mapping's row; a
\* rule that has been checked holds the lock of its mapping's rules.
LocksOf(call) ==
  CASE call.op = "BIND" -> {LockOf("channel", call.channel), LockOf("model", call.row.model)}
    [] call.op = "REBIND" -> {LockOf("channel", call.channel), LockOf("model", call.row.model),
                              LockOf("model", call.former), LockOf("row", call.id)}
    [] call.op = "RULE" /\ call.checked -> {LockOf("rules", call.mapping)}
    [] OTHER -> {}

\* Mutant of LockFree: no call waits for another.
LockFreeAlways(kind, id) == LockOf(kind, id) \in {LockOf(kind, id)}

LockFree(kind, id) == \A x \in Calls : LockOf(kind, id) \notin LocksOf(calls[x])

-----------------------------------------------------------------------------
(* Reads shared by the handlers.                                           *)

ParentsLive(b) == Live(channels[mappings[b].channel]) /\ Live(models[mappings[b].model])

\* The unique constraint of channel, public model and protocol.
Mapped(c, m, except) ==
  {b \in Mappings \ except : /\ mappings[b].lifecycle # "ABSENT"
                             /\ mappings[b].channel = c /\ mappings[b].model = m}

RulesOf(b) == {r \in RuleIds : rules[r].mapping = b}
LiveRules(b) == {r \in RulesOf(b) : Live(rules[r]) /\ rules[r].enabled}

\* selectKey and selectKeyRoundRobin: any usable key of the highest priority.
UsableKeys(c) ==
  LET usable == {k \in ChannelKeys : /\ Live(upstreamKeys[k]) /\ upstreamKeys[k].channel = c
                                     /\ upstreamKeys[k].enabled /\ Healthy(upstreamKeys[k])
                                     /\ ~upstreamKeys[k].isolated /\ ~upstreamKeys[k].spent}
  IN {k \in usable : \A l \in usable : upstreamKeys[l].priority <= upstreamKeys[k].priority}

\* The price of the public model in force: the cost when no rule applies.
FallbackPrices(m, at) ==
  LET current == {p \in Prices : /\ Live(prices[p]) /\ prices[p].enabled /\ prices[p].model = m
                                 /\ InForce(prices[p], at)}
  IN {p \in current : \A q \in current : prices[q].from <= prices[p].from}

\* The cost of mapping b at an instant.
CostOf(b, at) ==
  Resolved([r \in {s \in RulesOf(b) : Live(rules[s])} |-> rules[r]],
           FallbackPrices(mappings[b].model, at) # {}, at)

Routable(b) ==
  LET c == mappings[b].channel
  IN /\ Live(mappings[b]) /\ mappings[b].enabled /\ Healthy(mappings[b])
     /\ Live(channels[c]) /\ channels[c].enabled /\ Healthy(channels[c]) /\ ~channels[c].open

-----------------------------------------------------------------------------
(* Unlocked handlers: the read, and the insert or the write that follows.  *)

Start(x, call) ==
  /\ calls[x] = Idle
  /\ calls' = [calls EXCEPT ![x] = call]
  /\ UNCHANGED <<channels, upstreamKeys, models, mappings, rules, prices, overtaken, stale>>

Write(table, id, patch) == [op |-> "WRITE", table |-> table, id |-> id, patch |-> patch]
Insert(table, id, row) == [op |-> "INSERT", table |-> table, id |-> id, row |-> row]

Archived == [lifecycle |-> "ARCHIVED", enabled |-> FALSE]

\* channels.service
CreateChannel(x, c) ==
  \E n \in Priorities :
    Start(x, Insert("channels", c, [NoChannel EXCEPT !.lifecycle = "ACTIVE", !.enabled = TRUE,
                                                     !.priority = n]))

SetChannelEnabled(x, c) ==
  /\ Live(channels[c])
  /\ \E on \in BOOLEAN :
       Start(x, Write("channels", c,
         IF on /\ channels[c].health = "DISABLED" THEN [enabled |-> TRUE, health |-> "DEGRADED"]
         ELSE [enabled |-> on]))

UpdateChannel(x, c) ==
  /\ Live(channels[c])
  /\ \E n \in Priorities, auto \in BOOLEAN :
       Start(x, Write("channels", c, [priority |-> n, auto |-> auto]))

RestoreChannel(x, c) ==
  /\ channels[c].lifecycle = "ARCHIVED"
  /\ Start(x, Write("channels", c,
       [lifecycle |-> "ACTIVE", enabled |-> FALSE, health |-> "DISABLED", open |-> FALSE]))

AddKey(x, k) ==
  \E c \in Channels, n \in Priorities :
    /\ Live(channels[c])
    /\ Start(x, Insert("upstreamKeys", k,
         [NoKey EXCEPT !.lifecycle = "ACTIVE", !.channel = c, !.enabled = TRUE, !.priority = n]))

\* updateKey also sets what remains of a key and its expiry.
UpdateKey(x, k) ==
  /\ Live(upstreamKeys[k]) /\ Live(channels[upstreamKeys[k].channel])
  /\ \/ \E spent \in BOOLEAN, n \in Priorities :
          Start(x, Write("upstreamKeys", k, [spent |-> spent, priority |-> n]))
     \/ \E on \in BOOLEAN :
          Start(x, Write("upstreamKeys", k,
            IF on /\ upstreamKeys[k].health = "DISABLED" THEN [enabled |-> on, health |-> "DEGRADED"]
            ELSE [enabled |-> on]))

ArchiveKey(x, k) ==
  /\ Live(upstreamKeys[k]) /\ Live(channels[upstreamKeys[k].channel])
  /\ Start(x, Write("upstreamKeys", k,
       [lifecycle |-> "ARCHIVED", enabled |-> FALSE, health |-> "DISABLED", isolated |-> FALSE]))

RestoreKey(x, k) ==
  /\ upstreamKeys[k].lifecycle = "ARCHIVED" /\ Live(channels[upstreamKeys[k].channel])
  /\ Start(x, Write("upstreamKeys", k,
       [lifecycle |-> "ACTIVE", enabled |-> FALSE, health |-> "DISABLED", isolated |-> FALSE]))

\* channel-models.service
CreateMapping(x, b) ==
  \E c \in Channels, m \in Models, u \in Upstreams, probed \in BOOLEAN :
    /\ Live(channels[c]) /\ Live(models[m])
    /\ \A other \in Mapped(c, m, {}) : mappings[other].lifecycle # "ARCHIVED"
    /\ Start(x, Insert("mappings", b,
         [NoMapping EXCEPT !.lifecycle = "ACTIVE", !.channel = c, !.model = m, !.upstream = u,
                           !.enabled = TRUE, !.probed = probed]))

\* Mutant of RestoreMapping: the parents are not looked at.
RestoreUnderAny(x, b) ==
  /\ mappings[b].lifecycle = "ARCHIVED"
  /\ Start(x, Write("mappings", b,
       [lifecycle |-> "ACTIVE", enabled |-> FALSE, probed |-> FALSE, health |-> "DISABLED"]))

RestoreMapping(x, b) ==
  /\ mappings[b].lifecycle = "ARCHIVED" /\ ParentsLive(b)
  /\ Start(x, Write("mappings", b,
       [lifecycle |-> "ACTIVE", enabled |-> FALSE, probed |-> FALSE, health |-> "DISABLED"]))

UpdateMapping(x, b) ==
  /\ Live(mappings[b]) /\ ParentsLive(b)
  /\ \/ \E on \in BOOLEAN :
          Start(x, Write("mappings", b,
            IF on /\ mappings[b].health = "DISABLED" THEN [enabled |-> on, health |-> "UNKNOWN"]
            ELSE [enabled |-> on]))
     \/ \E probed \in BOOLEAN, h \in {"HEALTHY", "UNHEALTHY"} :
          Start(x, Write("mappings", b, [probed |-> probed, health |-> h]))

ArchiveMapping(x, b) ==
  /\ Live(mappings[b])
  /\ Start(x, [op |-> "ARCHIVE", id |-> b])

ArchiveRule(x, r) ==
  /\ Live(rules[r])
  /\ Start(x, Write("rules", r, Archived))

RestoreRule(x, r) ==
  /\ rules[r].lifecycle = "ARCHIVED" /\ Live(mappings[rules[r].mapping])
  /\ Start(x, Write("rules", r, [lifecycle |-> "ACTIVE", enabled |-> FALSE]))

\* models.service
CreateModel(x, m) ==
  /\ models[m].lifecycle = "ABSENT"
  /\ \E sized \in BOOLEAN :
       Start(x, Insert("models", m, [NoModel EXCEPT !.lifecycle = "ACTIVE", !.sized = sized]))

UpdateModel(x, m) ==
  /\ Live(models[m])
  /\ \E sized \in BOOLEAN : Start(x, Write("models", m, [sized |-> sized]))

RestoreModel(x, m) ==
  /\ models[m].lifecycle = "ARCHIVED"
  /\ Start(x, Write("models", m, [lifecycle |-> "ACTIVE", enabled |-> FALSE]))

\* ChannelModelsService.publishCheck.
Blockers(m, at) ==
  LET routing == {b \in Mappings : mappings[b].model = m /\ Routable(b)
                                   /\ UsableKeys(mappings[b].channel) # {}}
      ready == {b \in routing : CostOf(b, at)[1] # "NONE"}
  IN {code \in {"NO_HEALTHY_CHANNEL_MODEL", "NO_CURRENT_COST", "LATEST_TEST_FAILED"} :
        CASE code = "NO_HEALTHY_CHANNEL_MODEL" -> routing = {}
          [] code = "NO_CURRENT_COST" -> ready = {}
          [] code = "LATEST_TEST_FAILED" -> /\ \E b \in ready : mappings[b].tested # 0
                                            /\ \A b \in ready : mappings[b].health # "HEALTHY"}

\* publishCheck of a model also requires the size of its context.
Publish(x, m, at) ==
  /\ Live(models[m]) /\ models[m].sized /\ Blockers(m, at) = {}
  /\ Start(x, Write("models", m, [enabled |-> TRUE]))

Unpublish(x, m) ==
  /\ Live(models[m])
  /\ Start(x, Write("models", m, [enabled |-> FALSE]))

CreatePrice(x, p) ==
  \E m \in Models, v \in Validities :
    /\ Live(models[m])
    /\ Start(x, Insert("prices", p,
         Merge([NoPrice EXCEPT !.lifecycle = "ACTIVE", !.model = m, !.enabled = TRUE], v)))

UpdatePrice(x, p) ==
  /\ Live(prices[p]) /\ Live(models[prices[p].model]) /\ ~prices[p].used
  /\ \E v \in Validities : Start(x, Write("prices", p, v))

ArchivePrice(x, p) ==
  /\ Live(prices[p]) /\ Live(models[prices[p].model])
  /\ Start(x, Write("prices", p, Archived))

RestorePrice(x, p) ==
  /\ prices[p].lifecycle = "ARCHIVED" /\ Live(models[prices[p].model])
  /\ Start(x, Write("prices", p, [lifecycle |-> "ACTIVE", enabled |-> FALSE]))

SetPriceEnabled(x, p) ==
  /\ Live(prices[p]) /\ Live(models[prices[p].model])
  /\ \E on \in BOOLEAN : Start(x, Write("prices", p, [enabled |-> on]))

-----------------------------------------------------------------------------
(* The second half of an unlocked handler.                                 *)

Ends(x) == calls' = [calls EXCEPT ![x] = Idle] /\ overtaken' = overtaken \ {x}

\* An insert meets the primary key and the unique constraint of mappings.
Violates(call) ==
  CASE call.table = "channels" -> channels[call.id].lifecycle # "ABSENT"
    [] call.table = "upstreamKeys" -> upstreamKeys[call.id].lifecycle # "ABSENT"
    [] call.table = "models" -> models[call.id].lifecycle # "ABSENT"
    [] call.table = "prices" -> prices[call.id].lifecycle # "ABSENT"
    [] OTHER -> \/ mappings[call.id].lifecycle # "ABSENT"
                \/ Mapped(call.row.channel, call.row.model, {}) # {}

\* What the call leaves in the row.
Result(call, row) == IF call.op = "INSERT" THEN call.row ELSE Merge(row, call.patch)

FinishUnlocked(x) ==
  LET call == calls[x]
      With(table, f) == IF call.table = table THEN [f EXCEPT ![call.id] = Result(call, f[call.id])]
                        ELSE f
  IN /\ call.op \in {"INSERT", "WRITE"}
     /\ call.op = "INSERT" => ~Violates(call)
     /\ call.table = "mappings" => LockFree("row", call.id)
     /\ Ends(x)
     /\ channels' = With("channels", channels)
     /\ upstreamKeys' = With("upstreamKeys", upstreamKeys)
     /\ models' = With("models", models)
     /\ mappings' = With("mappings", mappings)
     /\ rules' = With("rules", rules)
     /\ prices' = With("prices", prices)
     /\ stale' = IF call.table # "mappings" THEN stale
                 ELSE LET b == call.id
                          revived == Live(mappings'[b]) /\ ~Live(mappings[b])
                          orphan == \/ ~Live(channels[mappings'[b].channel])
                                    \/ ~Live(models[mappings'[b].model])
                      IN IF revived /\ orphan /\ x \in overtaken THEN stale \cup {b} ELSE stale

\* A conflict of the constraint, or any error: the call leaves nothing.
Fail(x) ==
  /\ calls[x] # Idle
  /\ Ends(x)
  /\ UNCHANGED <<channels, upstreamKeys, models, mappings, rules, prices, stale>>

ArchivedMapping(row) ==
  Merge(row, [lifecycle |-> "ARCHIVED", enabled |-> FALSE, probed |-> FALSE, health |-> "DISABLED"])

FinishArchive(x) ==
  LET b == calls[x].id
  IN /\ calls[x].op = "ARCHIVE" /\ LockFree("row", b)
     /\ Ends(x)
     /\ rules' = [r \in RuleIds |-> IF rules[r].mapping = b /\ Live(rules[r])
                                    THEN Merge(rules[r], Archived) ELSE rules[r]]
     /\ mappings' = [mappings EXCEPT ![b] = ArchivedMapping(@)]
     /\ stale' = stale \ {b}
     /\ UNCHANGED <<channels, upstreamKeys, models, prices>>

-----------------------------------------------------------------------------
(* Archiving a channel or a public model with all that belongs to it.      *)

\* The unlocked calls that are to bring a mapping of a parent into use.
BringsIn(call) ==
  /\ call.op \in {"INSERT", "WRITE"} /\ call.table = "mappings"
  /\ call.op = "WRITE" => "lifecycle" \in DOMAIN call.patch

RowOf(call) == IF call.op = "INSERT" THEN call.row ELSE mappings[call.id]

Under(kind, id) == {x \in Calls : BringsIn(calls[x]) /\ RowOf(calls[x])[kind] = id}

ArchiveMappings(S) ==
  /\ rules' = [r \in RuleIds |-> IF rules[r].mapping \in S THEN Merge(rules[r], Archived) ELSE rules[r]]
  /\ mappings' = [b \in Mappings |-> IF b \in S THEN ArchivedMapping(mappings[b]) ELSE mappings[b]]
  /\ stale' = stale \ S

ArchiveChannel(c) ==
  /\ Live(channels[c]) /\ LockFree("channel", c)
  /\ ArchiveMappings({b \in Mappings : mappings[b].channel = c})
  /\ overtaken' = overtaken \cup Under("channel", c)
  /\ upstreamKeys' = [k \in ChannelKeys |->
       IF upstreamKeys[k].channel # c THEN upstreamKeys[k]
       ELSE Merge(upstreamKeys[k], [lifecycle |-> "ARCHIVED", enabled |-> FALSE,
                                    health |-> "DISABLED", isolated |-> FALSE])]
  /\ channels' = [channels EXCEPT ![c] =
       Merge(@, [lifecycle |-> "ARCHIVED", enabled |-> FALSE, health |-> "DISABLED", open |-> FALSE])]
  /\ UNCHANGED <<models, prices, calls>>

ArchiveModel(m) ==
  /\ Live(models[m]) /\ LockFree("model", m)
  /\ ArchiveMappings({b \in Mappings : mappings[b].model = m})
  /\ overtaken' = overtaken \cup Under("model", m)
  /\ prices' = [p \in Prices |-> IF prices[p].model = m THEN Merge(prices[p], Archived) ELSE prices[p]]
  /\ models' = [models EXCEPT ![m] = Merge(@, Archived)]
  /\ UNCHANGED <<channels, upstreamKeys, calls>>

-----------------------------------------------------------------------------
(* model-binding.service: the checks under the locks, then the commit.     *)

NewlyBound(c, m, u, probed) ==
  [NoMapping EXCEPT !.lifecycle = "ACTIVE", !.channel = c, !.model = m, !.upstream = u,
                    !.enabled = TRUE, !.probed = probed]

\* An archived public model stops a binding; a missing one may be created.
ModelAllows(m, create) ==
  IF create THEN models[m].lifecycle = "ABSENT" ELSE Live(models[m])

Bind(x, b) ==
  \E c \in Channels, m \in Models, u \in Upstreams, create, probed \in BOOLEAN :
    /\ mappings[b].lifecycle = "ABSENT"
    /\ LockFree("channel", c) /\ LockFree("model", m)
    /\ Live(channels[c]) /\ ModelAllows(m, create)
    /\ Mapped(c, m, {}) = {}
    /\ Start(x, [op |-> "BIND", id |-> b, channel |-> c, create |-> create,
                 row |-> NewlyBound(c, m, u, probed)])

Rebind(x, b) ==
  LET c == mappings[b].channel
      former == mappings[b].model
  IN \E m \in Models, u \in Upstreams, create, probed \in BOOLEAN :
       /\ Live(mappings[b])
       /\ LockFree("channel", c) /\ LockFree("model", m) /\ LockFree("model", former)
       /\ LockFree("row", b)
       /\ Live(channels[c]) /\ ModelAllows(m, create)
       /\ Mapped(c, m, {b}) = {}
       /\ Start(x, [op |-> "REBIND", id |-> b, channel |-> c, former |-> former, create |-> create,
                    row |-> [model |-> m, upstream |-> u, probed |-> probed, health |-> "UNKNOWN",
                             failures |-> 0, tested |-> 0]])

\* The mapping keeps `enabled`; its rules go when its identity changes.
FinishBinding(x) ==
  LET call == calls[x]
      b == call.id
      m == call.row.model
      changed == mappings[b].model # m \/ mappings[b].upstream # call.row.upstream
  IN /\ call.op \in {"BIND", "REBIND"}
     /\ Mapped(call.channel, m, {b}) = {}
     /\ call.op = "BIND" => mappings[b].lifecycle = "ABSENT"
     /\ call.create => models[m].lifecycle = "ABSENT"
     /\ Ends(x)
     /\ mappings' = [mappings EXCEPT ![b] = Merge(@, call.row)]
     /\ IF call.create
        THEN \E sized \in BOOLEAN :
               models' = [models EXCEPT ![m] = [NoModel EXCEPT !.lifecycle = "ACTIVE", !.sized = sized]]
        ELSE UNCHANGED models
     /\ rules' = [r \in RuleIds |->
          IF call.op = "REBIND" /\ changed /\ rules[r].mapping = b /\ Live(rules[r])
          THEN Merge(rules[r], Archived) ELSE rules[r]]
     /\ stale' = stale \ {b}
     /\ UNCHANGED <<channels, upstreamKeys, prices>>

-----------------------------------------------------------------------------
(* Cost rules.                                                             *)

Conflicts(b, r, candidate) ==
  {s \in LiveRules(b) \ {r} : /\ rules[s].priority = candidate.priority
                              /\ CostRulesOverlap(rules[s], candidate)}

\* The mapping, and for an update the rule, are read before the lock.
CreateRule(x, r) ==
  \E b \in Mappings, w \in Windows :
    /\ Live(mappings[b])
    /\ rules[r].lifecycle = "ABSENT"
    /\ Start(x, [op |-> "RULE", checked |-> FALSE, id |-> r, mapping |-> b, create |-> TRUE,
                 patch |-> w])

UpdateRule(x, r) ==
  /\ Live(rules[r]) /\ Live(mappings[rules[r].mapping])
  /\ \E patch \in Patches :
       Start(x, [op |-> "RULE", checked |-> FALSE, id |-> r, mapping |-> rules[r].mapping,
                 create |-> FALSE, patch |-> patch])

NewRule(call) ==
  Merge([NoRule EXCEPT !.lifecycle = "ACTIVE", !.mapping = call.mapping, !.enabled = TRUE,
                       !.created = Cardinality({s \in RuleIds : rules[s].lifecycle # "ABSENT"})],
        call.patch)

\* Under the lock: the rule as it would be is compared with the others.
CheckRule(x) ==
  LET call == calls[x]
      candidate == IF call.create THEN NewRule(call) ELSE Merge(rules[call.id], call.patch)
  IN /\ call.op = "RULE" /\ ~call.checked
     /\ LockFree("rules", call.mapping)
     /\ candidate.enabled => Conflicts(call.mapping, call.id, candidate) = {}
     /\ calls' = [calls EXCEPT ![x].checked = TRUE]
     /\ UNCHANGED <<channels, upstreamKeys, models, mappings, rules, prices, overtaken, stale>>

FinishRule(x) ==
  LET call == calls[x]
  IN /\ call.op = "RULE" /\ call.checked
     /\ call.create => rules[call.id].lifecycle = "ABSENT"
     /\ Ends(x)
     /\ rules' = [rules EXCEPT ![call.id] = IF call.create THEN NewRule(call) ELSE Merge(@, call.patch)]
     /\ UNCHANGED <<channels, upstreamKeys, models, mappings, prices, stale>>

-----------------------------------------------------------------------------
(* Tests of a channel: by an administrator (channels.service, `test`), and *)
(* by the worker every five minutes (worker.service, `probeChannels`).     *)

TestChannel(x, c, k) ==
  /\ Live(channels[c])
  /\ Live(upstreamKeys[k]) /\ upstreamKeys[k].channel = c /\ upstreamKeys[k].enabled
  /\ \E b \in Mappings : mappings[b].channel = c /\ Live(mappings[b]) /\ mappings[b].enabled
  /\ Start(x, [op |-> "TEST", id |-> c, key |-> k, auto |-> channels[c].auto])

\* The worker passes over disabled channels, disabled keys and archived models.
ProbeChannel(x, c, k) ==
  /\ Live(channels[c]) /\ channels[c].enabled
  /\ Live(upstreamKeys[k]) /\ upstreamKeys[k].channel = c /\ upstreamKeys[k].enabled
  /\ upstreamKeys[k].health # "DISABLED"
  /\ \E b \in Mappings : /\ mappings[b].channel = c /\ Live(mappings[b]) /\ mappings[b].enabled
                         /\ Live(models[mappings[b].model])
  /\ Start(x, [op |-> "PROBE", id |-> c, key |-> k, auto |-> channels[c].auto])

ProbedHealth == [ok |-> "HEALTHY", refused |-> "UNHEALTHY", error |-> "DEGRADED"]

\* `test` writes by id alone, and opens the circuit when nothing answers; the
\* worker spares archived channels and always closes it.
FinishProbe(x) ==
  LET call == calls[x]
      c == call.id
      manual == call.op = "TEST"
  IN /\ call.op \in {"TEST", "PROBE"}
     /\ Ends(x)
     /\ \E answer \in {"ok", "refused", "error", "down"} :
          LET health == IF answer # "down" THEN ProbedHealth[answer]
                        ELSE IF manual THEN "UNHEALTHY" ELSE "DEGRADED"
              open == CASE answer = "ok" \/ ~manual -> FALSE
                        [] answer = "down" /\ manual -> TRUE
                        [] OTHER -> channels[c].open
          IN /\ channels' = IF manual \/ Live(channels[c])
                            THEN [channels EXCEPT ![c] = Merge(@, [health |-> health, open |-> open])]
                            ELSE channels
             /\ upstreamKeys' = IF answer = "refused" /\ call.auto
                                THEN [upstreamKeys EXCEPT ![call.key].health = "DISABLED"]
                                ELSE upstreamKeys
     /\ UNCHANGED <<models, mappings, rules, prices, stale>>

-----------------------------------------------------------------------------
(* The parts of the next-state relation.                                   *)

BindingNext ==
  \/ \E x \in Calls :
       \/ FinishUnlocked(x) \/ FinishArchive(x) \/ FinishBinding(x) \/ Fail(x)
       \/ \E b \in Mappings : \/ Bind(x, b) \/ Rebind(x, b) \/ CreateMapping(x, b)
                              \/ RestoreMapping(x, b) \/ ArchiveMapping(x, b)
       \/ \E m \in Models : RestoreModel(x, m)
  \/ \E c \in Channels : ArchiveChannel(c)
  \/ \E m \in Models : ArchiveModel(m)

RulesNext ==
  \E x \in Calls :
    \/ CheckRule(x) \/ FinishRule(x) \/ FinishUnlocked(x) \/ FinishArchive(x) \/ Fail(x)
    \/ \E r \in RuleIds : CreateRule(x, r) \/ UpdateRule(x, r) \/ ArchiveRule(x, r) \/ RestoreRule(x, r)
    \/ \E b \in Mappings : ArchiveMapping(x, b)

\* The rest: channels and their keys, with the tests and probes ...
ChannelsNext ==
  \/ \E x \in Calls :
       \/ FinishUnlocked(x) \/ FinishProbe(x) \/ Fail(x)
       \/ \E c \in Channels :
            \/ CreateChannel(x, c) \/ SetChannelEnabled(x, c) \/ UpdateChannel(x, c)
            \/ RestoreChannel(x, c)
            \/ \E k \in ChannelKeys : TestChannel(x, c, k) \/ ProbeChannel(x, c, k)
       \/ \E k \in ChannelKeys : AddKey(x, k) \/ UpdateKey(x, k) \/ ArchiveKey(x, k) \/ RestoreKey(x, k)
  \/ \E c \in Channels : ArchiveChannel(c)

\* ... and what makes a public model fit to be published at an instant.
OfferNext(at) ==
  \/ \E x \in Calls :
       \/ FinishUnlocked(x) \/ Fail(x)
       \/ \E b \in Mappings : UpdateMapping(x, b)
       \/ \E m \in Models : CreateModel(x, m) \/ UpdateModel(x, m) \/ Publish(x, m, at) \/ Unpublish(x, m)
       \/ \E p \in Prices : \/ CreatePrice(x, p) \/ UpdatePrice(x, p) \/ ArchivePrice(x, p)
                            \/ RestorePrice(x, p) \/ SetPriceEnabled(x, p)
  \/ \E m \in Models : ArchiveModel(m)

-----------------------------------------------------------------------------
\* Two enabled rules of a mapping with the same priority never apply at the
\* same instant, although they are checked and written by concurrent calls,
\* archived and restored without the lock, and although the check compares
\* weeks and validities while the resolution looks at local time: the cost of
\* a request does not hang on the order of ids or of creation.
CostUnambiguous ==
  \A b \in Mappings : \A r, s \in LiveRules(b) :
    r # s /\ rules[r].priority = rules[s].priority =>
      \A at \in 0 .. 2 * Horizon : ~(Applies(rules[r], at) /\ Applies(rules[s], at))

\* A mapping in use has a channel and a public model in use: what a binding
\* checked under its locks still holds when it commits, and an archived parent
\* takes its mappings with it.  Nor does an unlocked restore or create bring one
\* back under a parent that was archived when it looked.  (Nothing stops one
\* whose parent is archived between its look and its write: `stale`.)
BindingsFollowParents ==
  \A b \in Mappings : Live(mappings[b]) /\ b \notin stale => ParentsLive(b)
=============================================================================
