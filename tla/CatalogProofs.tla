------------------------------ MODULE CatalogProofs ------------------------------
(***************************************************************************)
(* Proofs about the catalogue as a whole: every administrator, prober,     *)
(* worker and request at once, where the runs take them part by part.      *)
(***************************************************************************)
EXTENDS ModelTesting, LegacyRelay, CostProofs

-----------------------------------------------------------------------------
(* All that happens to the catalogue.                                      *)

CatalogNext == BindingNext \/ RulesNext \/ ChannelsNext \/ \E at \in Nat : OfferNext(at)

\* What the calls of administrators mean for the remembered history: a binding
\* starts the count of failures again, and whoever enables a key calls it back.
Enables(x, k) ==
  /\ calls[x].op = "WRITE" /\ calls[x].table = "upstreamKeys" /\ calls[x].id = k
  /\ "enabled" \in DOMAIN calls[x].patch /\ calls[x].patch["enabled"]

CatalogHistory ==
  /\ inARow' = [b \in Mappings |->
       IF \E x \in Calls : FinishBinding(x) /\ calls[x].id = b THEN 0 ELSE inARow[b]]
  /\ claims' = [b \in Mappings |-> IF mappings'[b].tested = 0 THEN {} ELSE claims[b]]
  /\ refused' = {k \in refused : ~ \E x \in Calls : FinishUnlocked(x) /\ Enables(x, k)}
  /\ UNCHANGED <<tests, clock, requests, quota, ended>>

GatewayNext ==
  \/ CatalogNext /\ CatalogHistory
  \/ TestingNext /\ UNCHANGED relayVars
  \/ (\E at \in Nat : RelayNext(at)) /\ UNCHANGED testingVars

gatewayVars == <<catalogVars, testingVars, relayVars>>

GatewaySpec == (CatalogInit /\ TestingInit /\ RelayInit) /\ [][GatewayNext]_gatewayVars

-----------------------------------------------------------------------------
(* Types.                                                                  *)

Lifecycles == {"ABSENT", "ACTIVE", "ARCHIVED"}
Healths == {"UNKNOWN", "HEALTHY", "DEGRADED", "UNHEALTHY", "DISABLED"}

ChannelFields ==
  [lifecycle |-> Lifecycles, enabled |-> BOOLEAN, health |-> Healths, open |-> BOOLEAN,
   priority |-> Int, auto |-> BOOLEAN]
KeyFields ==
  [lifecycle |-> Lifecycles, channel |-> Channels \cup {"none"}, enabled |-> BOOLEAN,
   health |-> Healths, isolated |-> BOOLEAN, spent |-> BOOLEAN, priority |-> Int]
ModelFields == [lifecycle |-> Lifecycles, enabled |-> BOOLEAN, sized |-> BOOLEAN]
MappingFields ==
  [lifecycle |-> Lifecycles, channel |-> Channels \cup {"none"}, model |-> Models \cup {"none"},
   upstream |-> Upstreams \cup {"none"}, enabled |-> BOOLEAN, probed |-> BOOLEAN,
   health |-> Healths, failures |-> Nat, tested |-> Nat]
RuleFields ==
  [lifecycle |-> Lifecycles, mapping |-> Mappings \cup {"none"}, enabled |-> BOOLEAN,
   priority |-> Nat, days |-> SUBSET Days, start |-> Minutes, end |-> Minutes, from |-> Nat,
   until |-> Nat, created |-> Nat]
PriceFields ==
  [lifecycle |-> Lifecycles, model |-> Models \cup {"none"}, enabled |-> BOOLEAN, from |-> Nat,
   until |-> Nat, used |-> BOOLEAN]

\* A row has the fields, and each has a value of its set.
HasFields(row, fields) == row = [f \in DOMAIN fields |-> row[f]] /\ \A f \in DOMAIN fields : row[f] \in fields[f]

TableOf(rows, ids, fields) == rows = [i \in ids |-> rows[i]] /\ \A i \in ids : HasFields(rows[i], fields)

TablesTypeOK ==
  /\ TableOf(channels, Channels, ChannelFields) /\ TableOf(upstreamKeys, ChannelKeys, KeyFields)
  /\ TableOf(models, Models, ModelFields) /\ TableOf(mappings, Mappings, MappingFields)
  /\ TableOf(rules, RuleIds, RuleFields) /\ TableOf(prices, Prices, PriceFields)

\* What a call may write: never that a row is absent, and nothing that is
\* decided under a lock; a channel and a public model are archived elsewhere.
Changes(call, table, ids, fields) ==
  /\ call.table = table /\ call.id \in ids /\ Fits(call.patch, fields)
  /\ "lifecycle" \in DOMAIN call.patch => call.patch["lifecycle"] # "ABSENT"

Revives(patch) == "lifecycle" \in DOMAIN patch => patch["lifecycle"] = "ACTIVE"

WriteOK(call) ==
  \/ Changes(call, "channels", Channels, ChannelFields) /\ Revives(call.patch)
  \/ Changes(call, "upstreamKeys", ChannelKeys, KeyFields)
  \/ Changes(call, "models", Models, ModelFields) /\ Revives(call.patch)
  \/ /\ Changes(call, "mappings", Mappings, MappingFields)
     /\ DOMAIN call.patch \cap {"channel", "model", "failures", "tested"} = {}
  \/ /\ Changes(call, "rules", RuleIds, RuleFields)
     /\ DOMAIN call.patch = {"lifecycle", "enabled"} /\ call.patch["enabled"] = FALSE
  \/ Changes(call, "prices", Prices, PriceFields)

\* What it may insert.
Adds(call, table, ids, fields) ==
  /\ call.table = table /\ call.id \in ids
  /\ HasFields(call.row, fields) /\ call.row.lifecycle = "ACTIVE"

InsertOK(call) ==
  \/ Adds(call, "channels", Channels, ChannelFields)
  \/ Adds(call, "upstreamKeys", ChannelKeys, KeyFields)
  \/ Adds(call, "models", Models, ModelFields)
  \/ /\ Adds(call, "mappings", Mappings, MappingFields)
     /\ call.row.channel \in Channels /\ call.row.model \in Models
     /\ call.row.failures = 0 /\ call.row.tested = 0
  \/ Adds(call, "prices", Prices, PriceFields)

BindOK(call) ==
  /\ call.id \in Mappings /\ call.channel \in Channels /\ call.create \in BOOLEAN
  /\ Fits(call.row, MappingFields) /\ {"model", "upstream", "failures", "tested"} \subseteq DOMAIN call.row
  /\ call.row["model"] \in Models /\ call.row["failures"] = 0 /\ call.row["tested"] = 0
  /\ call.op = "BIND" => /\ {"channel", "lifecycle"} \subseteq DOMAIN call.row
                         /\ call.row["channel"] = call.channel /\ call.row["lifecycle"] = "ACTIVE"
  /\ call.op = "REBIND" => DOMAIN call.row \cap {"channel", "lifecycle"} = {}

RuleOK(call) ==
  /\ call = [op |-> "RULE", checked |-> call.checked, id |-> call.id, mapping |-> call.mapping,
             create |-> call.create, patch |-> call.patch]
  /\ call.checked \in BOOLEAN /\ call.create \in BOOLEAN
  /\ call.id \in RuleIds /\ call.mapping \in Mappings
  /\ call.patch \in IF call.create THEN Windows ELSE Patches

CallOK(call) ==
  /\ call.op \in {"IDLE", "WRITE", "INSERT", "ARCHIVE", "BIND", "REBIND", "RULE", "TEST", "PROBE"}
  /\ call.op = "WRITE" => WriteOK(call)
  /\ call.op = "INSERT" => InsertOK(call)
  /\ call.op = "ARCHIVE" => call.id \in Mappings
  /\ call.op \in {"BIND", "REBIND"} => BindOK(call)
  /\ call.op = "RULE" => RuleOK(call)
  /\ call.op \in {"TEST", "PROBE"} => call.id \in Channels /\ call.key \in ChannelKeys

CatalogTypeOK ==
  /\ TablesTypeOK
  /\ calls = [x \in Calls |-> calls[x]] /\ \A x \in Calls : CallOK(calls[x])

-----------------------------------------------------------------------------
(* The invariants.                                                         *)

\* What has been made has parents, and what is still to be made has no history.
RowsMade ==
  /\ \A b \in Mappings :
       IF mappings[b].lifecycle = "ABSENT"
       THEN /\ mappings[b].channel = "none" /\ mappings[b].model = "none"
            /\ mappings[b].failures = 0 /\ mappings[b].tested = 0
       ELSE mappings[b].channel \in Channels /\ mappings[b].model \in Models
  /\ \A r \in RuleIds :
       IF rules[r].lifecycle = "ABSENT" THEN rules[r].mapping = "none"
       ELSE rules[r].mapping \in Mappings /\ rules[r].days # {}

\* The rows that a call read still exist.
CallFollows(call) ==
  /\ call.op = "WRITE" /\ call.table = "upstreamKeys" => upstreamKeys[call.id].lifecycle # "ABSENT"
  /\ call.op = "WRITE" /\ call.table = "rules" => rules[call.id].lifecycle # "ABSENT"
  /\ call.op = "WRITE" /\ call.table = "mappings" => mappings[call.id].lifecycle # "ABSENT"
  /\ call.op = "ARCHIVE" => mappings[call.id].lifecycle # "ABSENT"
  /\ call.op = "REBIND" => /\ mappings[call.id].lifecycle # "ABSENT"
                           /\ mappings[call.id].channel = call.channel
  /\ call.op = "RULE" /\ ~call.create => /\ rules[call.id].lifecycle # "ABSENT"
                                         /\ rules[call.id].mapping = call.mapping

\* Under the locks of a binding its parents stay.
CallParents(call) ==
  call.op \in {"BIND", "REBIND"} =>
    /\ Live(channels[call.channel])
    /\ call.create \/ Live(models[call.row["model"]])

\* An unlocked call that brings a mapping into use has seen its parents in use,
\* and they still are, unless it is overtaken.
CallSeen(call) ==
  BringsIn(call) => Live(channels[RowOf(call).channel]) /\ Live(models[RowOf(call).model])

SeenInv == \A x \in Calls : x \in overtaken \/ CallSeen(calls[x])

CallInv(call) == CallOK(call) /\ CallFollows(call) /\ CallParents(call) /\ CallSeen(call)

\* Of the calls that have checked a rule of a mapping one is to write it.
CheckedOnce ==
  \A x, y \in Calls : /\ calls[x].op = "RULE" /\ calls[x].checked
                      /\ calls[y].op = "RULE" /\ calls[y].checked
                      /\ calls[x].mapping = calls[y].mapping
    => x = y

Candidate(call) == IF call.create THEN NewRule(call) ELSE Merge(rules[call.id], call.patch)

\* What was checked still holds when it is written ...
ChecksHold ==
  \A x \in Calls : /\ calls[x].op = "RULE" /\ calls[x].checked
                   /\ calls[x].create => rules[calls[x].id].lifecycle = "ABSENT"
                   /\ Candidate(calls[x]).enabled
    => Conflicts(calls[x].mapping, calls[x].id, Candidate(calls[x])) = {}

\* ... so the enabled rules of a mapping with one priority do not overlap.
NoConflicts ==
  \A b \in Mappings : \A r, s \in LiveRules(b) :
    r # s /\ rules[r].priority = rules[s].priority => ~CostRulesOverlap(rules[r], rules[s])

CatalogInv ==
  /\ CatalogTypeOK /\ RowsMade
  /\ \A x \in Calls : CallFollows(calls[x]) /\ CallParents(calls[x])
  /\ CheckedOnce /\ ChecksHold /\ NoConflicts /\ SeenInv /\ BindingsFollowParents

TestOK(test) ==
  /\ test.op \in {"IDLE", "CLAIM", "CLAIMED", "SENT", "RECORD", "MISSED"}
  /\ test.op # "IDLE" => test.mapping \in Mappings
  /\ test.op = "CLAIM" => test.seen \in Nat /\ test.at \in Nat /\ test.seen < test.at
  /\ test.op = "CLAIMED" => test.again = FALSE
  /\ test.op \in {"SENT", "RECORD", "MISSED"} => test.failures \in Nat
  /\ test.op \in {"RECORD", "MISSED"} =>
       /\ test = [op |-> test.op, mapping |-> test.mapping, failures |-> test.failures,
                  outcome |-> test.outcome, at |-> test.at, tries |-> test.tries]
       /\ test.at \in Nat /\ test.outcome \in {"ok", "failed", "terminal"}

\* Every claim of a mapping was made from an earlier instant than the last.
TestsInv ==
  /\ clock \in Nat \ {0}
  /\ inARow = [b \in Mappings |-> mappings[b].failures]
  /\ claims = [b \in Mappings |-> claims[b]]
  /\ \A b \in Mappings : \A s \in claims[b] : s \in Nat /\ s < mappings[b].tested
  /\ tests = [t \in Tests |-> tests[t]]
  /\ \A t \in Tests : TestOK(tests[t])

\* A request tries the candidates of its route, and gives its reservations back
\* at one place.
Candidates == [mapping : Mappings, channel : Channels, key : ChannelKeys, price : SUBSET Prices]

RequestFields ==
  {"stage", "todo", "made", "first", "route", "tries", "tried", "streaming", "gone", "finalized"}

RequestOK(request) ==
  \/ request = NewRequest
  \/ /\ request = [f \in RequestFields |-> request[f]]
     /\ request.stage \in {"OPEN", "REJECTED", "ANSWERED", "UNLOGGED", "SETTLED", "DONE"}
     /\ request.todo \subseteq Policies /\ request.made \subseteq Policies
     /\ request.route \in Seq(Candidates)
     /\ request.stage \in {"ANSWERED", "SETTLED"} => request.route # <<>>

ReturnedOnce(q) ==
  /\ requests[q].stage \in {"NEW", "OPEN", "REJECTED", "ANSWERED"} => ended[q] = <<>>
  /\ requests[q].stage \in {"UNLOGGED", "SETTLED", "DONE"} =>
       /\ Len(ended[q]) = 1
       /\ \A p \in requests[q].made \ ended[q][1].lost : q \notin quota[p]

RelayInv ==
  /\ requests = [q \in Requests |-> requests[q]] /\ quota = [p \in Policies |-> quota[p]]
  /\ ended = [q \in Requests |-> ended[q]]
  /\ \A q \in Requests : RequestOK(requests[q]) /\ ReturnedOnce(q)

KeysInv == \A k \in refused : k \in ChannelKeys /\ upstreamKeys[k].lifecycle # "ABSENT" /\ ~upstreamKeys[k].enabled

-----------------------------------------------------------------------------
(* Rows.                                                                   *)

LEMMA MergeFields ==
  ASSUME NEW fields, NEW row, HasFields(row, fields), NEW patch, Fits(patch, fields)
  PROVE  HasFields(Merge(row, patch), fields)
<1>1. DOMAIN row = DOMAIN fields
  BY DEF HasFields
<1>2. \A f \in DOMAIN fields : Merge(row, patch)[f] = IF f \in DOMAIN patch THEN patch[f] ELSE row[f]
  BY <1>1 DEF Merge
<1>3. \A f \in DOMAIN fields : Merge(row, patch)[f] \in fields[f]
  BY <1>2 DEF HasFields, Fits
<1>4. Merge(row, patch) = [f \in DOMAIN fields |-> Merge(row, patch)[f]]
  BY <1>1 DEF Merge
<1> QED BY <1>3, <1>4 DEF HasFields

\* What a patch does to one field.
LEMMA MergeField ==
  ASSUME NEW fields, NEW row, HasFields(row, fields), NEW patch, NEW f \in DOMAIN fields
  PROVE  Merge(row, patch)[f] = IF f \in DOMAIN patch THEN patch[f] ELSE row[f]
BY DEF HasFields, Merge

\* Changing one row, or all rows, of a table.
LEMMA TableExcept ==
  ASSUME NEW ids, NEW fields, NEW rows, TableOf(rows, ids, fields),
         NEW id \in ids, NEW row, HasFields(row, fields)
  PROVE  TableOf([rows EXCEPT ![id] = row], ids, fields)
<1>1. /\ [rows EXCEPT ![id] = row] = [i \in ids |-> [rows EXCEPT ![id] = row][i]]
      /\ \A i \in ids : [rows EXCEPT ![id] = row][i] = IF i = id THEN row ELSE rows[i]
  BY DEF TableOf
<1> QED BY <1>1 DEF TableOf

LEMMA TableMapped ==
  ASSUME NEW ids, NEW fields, NEW rows, NEW g, rows = [i \in ids |-> g[i]],
         \A i \in ids : HasFields(g[i], fields)
  PROVE  TableOf(rows, ids, fields)
BY DEF TableOf

LEMMA TableRow ==
  ASSUME NEW ids, NEW fields, NEW rows, TableOf(rows, ids, fields), NEW i \in ids
  PROVE  HasFields(rows[i], fields)
BY DEF TableOf

\* The rows of each table.
LEMMA ChannelRow ==
  ASSUME NEW row
  PROVE  HasFields(row, ChannelFields) <=>
           row = [lifecycle |-> row.lifecycle, enabled |-> row.enabled, health |->
                  row.health, open |-> row.open, priority |-> row.priority, auto |->
                  row.auto]
           /\ row.lifecycle \in Lifecycles /\ row.enabled \in BOOLEAN
           /\ row.health \in Healths /\ row.open \in BOOLEAN /\ row.priority \in Int
           /\ row.auto \in BOOLEAN
BY DEF HasFields, ChannelFields

LEMMA KeyRow ==
  ASSUME NEW row
  PROVE  HasFields(row, KeyFields) <=>
           row = [lifecycle |-> row.lifecycle, channel |-> row.channel, enabled |->
                  row.enabled, health |-> row.health, isolated |-> row.isolated, spent
                  |-> row.spent, priority |-> row.priority]
           /\ row.lifecycle \in Lifecycles /\ row.channel \in Channels \cup {"none"}
           /\ row.enabled \in BOOLEAN /\ row.health \in Healths /\ row.isolated \in BOOLEAN
           /\ row.spent \in BOOLEAN /\ row.priority \in Int
BY DEF HasFields, KeyFields

LEMMA ModelRow ==
  ASSUME NEW row
  PROVE  HasFields(row, ModelFields) <=>
           row = [lifecycle |-> row.lifecycle, enabled |-> row.enabled, sized |->
                  row.sized]
           /\ row.lifecycle \in Lifecycles /\ row.enabled \in BOOLEAN /\ row.sized \in BOOLEAN
BY DEF HasFields, ModelFields

LEMMA MappingRow ==
  ASSUME NEW row
  PROVE  HasFields(row, MappingFields) <=>
           row = [lifecycle |-> row.lifecycle, channel |-> row.channel, model |->
                  row.model, upstream |-> row.upstream, enabled |-> row.enabled, probed
                  |-> row.probed, health |-> row.health, failures |-> row.failures,
                  tested |-> row.tested]
           /\ row.lifecycle \in Lifecycles /\ row.channel \in Channels \cup {"none"}
           /\ row.model \in Models \cup {"none"} /\ row.upstream \in Upstreams \cup {"none"}
           /\ row.enabled \in BOOLEAN /\ row.probed \in BOOLEAN /\ row.health \in Healths
           /\ row.failures \in Nat /\ row.tested \in Nat
BY DEF HasFields, MappingFields

LEMMA RuleRow ==
  ASSUME NEW row
  PROVE  HasFields(row, RuleFields) <=>
           row = [lifecycle |-> row.lifecycle, mapping |-> row.mapping, enabled |->
                  row.enabled, priority |-> row.priority, days |-> row.days, start |->
                  row.start, end |-> row.end, from |-> row.from, until |-> row.until,
                  created |-> row.created]
           /\ row.lifecycle \in Lifecycles /\ row.mapping \in Mappings \cup {"none"}
           /\ row.enabled \in BOOLEAN /\ row.priority \in Nat /\ row.days \in SUBSET Days
           /\ row.start \in Minutes /\ row.end \in Minutes /\ row.from \in Nat
           /\ row.until \in Nat /\ row.created \in Nat
BY DEF HasFields, RuleFields

LEMMA PriceRow ==
  ASSUME NEW row
  PROVE  HasFields(row, PriceFields) <=>
           row = [lifecycle |-> row.lifecycle, model |-> row.model, enabled |->
                  row.enabled, from |-> row.from, until |-> row.until, used |-> row.used]
           /\ row.lifecycle \in Lifecycles /\ row.model \in Models \cup {"none"}
           /\ row.enabled \in BOOLEAN /\ row.from \in Nat /\ row.until \in Nat
           /\ row.used \in BOOLEAN
BY DEF HasFields, PriceFields

\* The columns of each table.
LEMMA ChannelColumns ==
  /\ DOMAIN ChannelFields = {"lifecycle", "enabled", "health", "open", "priority", "auto"}
  /\ ChannelFields["lifecycle"] = Lifecycles /\ ChannelFields["enabled"] = BOOLEAN
  /\ ChannelFields["health"] = Healths /\ ChannelFields["open"] = BOOLEAN
  /\ ChannelFields["priority"] = Int /\ ChannelFields["auto"] = BOOLEAN
BY DEF ChannelFields

LEMMA KeyColumns ==
  /\ DOMAIN KeyFields = {"lifecycle", "channel", "enabled", "health", "isolated", "spent",
                              "priority"}
  /\ KeyFields["lifecycle"] = Lifecycles /\ KeyFields["channel"] = Channels \cup {"none"}
  /\ KeyFields["enabled"] = BOOLEAN /\ KeyFields["health"] = Healths
  /\ KeyFields["isolated"] = BOOLEAN /\ KeyFields["spent"] = BOOLEAN
  /\ KeyFields["priority"] = Int
BY DEF KeyFields

LEMMA ModelColumns ==
  /\ DOMAIN ModelFields = {"lifecycle", "enabled", "sized"}
  /\ ModelFields["lifecycle"] = Lifecycles /\ ModelFields["enabled"] = BOOLEAN
  /\ ModelFields["sized"] = BOOLEAN
BY DEF ModelFields

LEMMA MappingColumns ==
  /\ DOMAIN MappingFields = {"lifecycle", "channel", "model", "upstream", "enabled", "probed",
                              "health", "failures", "tested"}
  /\ MappingFields["lifecycle"] = Lifecycles
  /\ MappingFields["channel"] = Channels \cup {"none"}
  /\ MappingFields["model"] = Models \cup {"none"}
  /\ MappingFields["upstream"] = Upstreams \cup {"none"} /\ MappingFields["enabled"] = BOOLEAN
  /\ MappingFields["probed"] = BOOLEAN /\ MappingFields["health"] = Healths
  /\ MappingFields["failures"] = Nat /\ MappingFields["tested"] = Nat
BY DEF MappingFields

LEMMA RuleColumns ==
  /\ DOMAIN RuleFields = {"lifecycle", "mapping", "enabled", "priority", "days", "start",
                              "end", "from", "until", "created"}
  /\ RuleFields["lifecycle"] = Lifecycles /\ RuleFields["mapping"] = Mappings \cup {"none"}
  /\ RuleFields["enabled"] = BOOLEAN /\ RuleFields["priority"] = Nat
  /\ RuleFields["days"] = SUBSET Days /\ RuleFields["start"] = Minutes
  /\ RuleFields["end"] = Minutes /\ RuleFields["from"] = Nat /\ RuleFields["until"] = Nat
  /\ RuleFields["created"] = Nat
BY DEF RuleFields

LEMMA PriceColumns ==
  /\ DOMAIN PriceFields = {"lifecycle", "model", "enabled", "from", "until", "used"}
  /\ PriceFields["lifecycle"] = Lifecycles /\ PriceFields["model"] = Models \cup {"none"}
  /\ PriceFields["enabled"] = BOOLEAN /\ PriceFields["from"] = Nat
  /\ PriceFields["until"] = Nat /\ PriceFields["used"] = BOOLEAN
BY DEF PriceFields

\* What is not yet made.
LEMMA NoChannelRow == HasFields(NoChannel, ChannelFields)
<1> SUFFICES ASSUME NEW row, row = NoChannel PROVE HasFields(row, ChannelFields)
  OBVIOUS
<1>1. 0 \in Nat /\ 0 \in Int /\ 0 \in Minutes
  BY ScheduleAssumption DEF Minutes
<1> QED BY <1>1, ChannelRow DEF NoChannel, Lifecycles, Healths, Always

LEMMA NoKeyRow == HasFields(NoKey, KeyFields)
<1> SUFFICES ASSUME NEW row, row = NoKey PROVE HasFields(row, KeyFields)
  OBVIOUS
<1>1. 0 \in Nat /\ 0 \in Int /\ 0 \in Minutes
  BY ScheduleAssumption DEF Minutes
<1> QED BY <1>1, KeyRow DEF NoKey, Lifecycles, Healths, Always

LEMMA NoModelRow == HasFields(NoModel, ModelFields)
<1> SUFFICES ASSUME NEW row, row = NoModel PROVE HasFields(row, ModelFields)
  OBVIOUS
<1>1. 0 \in Nat /\ 0 \in Int /\ 0 \in Minutes
  BY ScheduleAssumption DEF Minutes
<1> QED BY <1>1, ModelRow DEF NoModel, Lifecycles, Healths, Always

LEMMA NoMappingRow == HasFields(NoMapping, MappingFields)
<1> SUFFICES ASSUME NEW row, row = NoMapping PROVE HasFields(row, MappingFields)
  OBVIOUS
<1>1. 0 \in Nat /\ 0 \in Int /\ 0 \in Minutes
  BY ScheduleAssumption DEF Minutes
<1> QED BY <1>1, MappingRow DEF NoMapping, Lifecycles, Healths, Always

LEMMA NoRuleRow == HasFields(NoRule, RuleFields)
<1> SUFFICES ASSUME NEW row, row = NoRule PROVE HasFields(row, RuleFields)
  OBVIOUS
<1>1. 0 \in Nat /\ 0 \in Int /\ 0 \in Minutes
  BY ScheduleAssumption DEF Minutes
<1> QED BY <1>1, RuleRow DEF NoRule, Lifecycles, Healths, Always

LEMMA NoPriceRow == HasFields(NoPrice, PriceFields)
<1> SUFFICES ASSUME NEW row, row = NoPrice PROVE HasFields(row, PriceFields)
  OBVIOUS
<1>1. 0 \in Nat /\ 0 \in Int /\ 0 \in Minutes
  BY ScheduleAssumption DEF Minutes
<1> QED BY <1>1, PriceRow DEF NoPrice, Lifecycles, Healths, Always

-----------------------------------------------------------------------------
(* Calls that begin.                                                       *)

Begins(x) == \E call : Start(x, call) /\ CallInv(call) /\ (call.op = "RULE" => ~call.checked)

LEMMA WriteBegins ==
  ASSUME NEW x, NEW table, NEW id, NEW patch, Start(x, Write(table, id, patch)),
         WriteOK(Write(table, id, patch)), CallFollows(Write(table, id, patch)),
         table # "mappings" \/ ("lifecycle" \in DOMAIN patch => ParentsLive(id))
  PROVE  Begins(x)
<1> DEFINE call == Write(table, id, patch)
<1>1. call.op = "WRITE" /\ call.table = table /\ call.id = id /\ call.patch = patch
  BY DEF Write
<1> HIDE DEF call
<1>2. CallOK(call) /\ CallParents(call)
  BY <1>1 DEF CallOK, CallParents, call
<1>3. CallSeen(call)
  BY <1>1 DEF CallSeen, BringsIn, RowOf, ParentsLive
<1> QED BY <1>1, <1>2, <1>3 DEF Begins, CallInv, call

LEMMA InsertBegins ==
  ASSUME NEW x, NEW table, NEW id, NEW row, Start(x, Insert(table, id, row)),
         InsertOK(Insert(table, id, row)),
         table # "mappings" \/ (Live(channels[row.channel]) /\ Live(models[row.model]))
  PROVE  Begins(x)
<1> DEFINE call == Insert(table, id, row)
<1>1. call.op = "INSERT" /\ call.table = table /\ call.row = row
  BY DEF Insert
<1> HIDE DEF call
<1>2. CallOK(call) /\ CallParents(call) /\ CallFollows(call)
  BY <1>1 DEF CallOK, CallParents, CallFollows, call
<1>3. CallSeen(call)
  BY <1>1 DEF CallSeen, BringsIn, RowOf
<1> QED BY <1>1, <1>2, <1>3 DEF Begins, CallInv, call

\* What a write of each table needs.
LEMMA WriteChannel ==
  ASSUME NEW x, NEW c \in Channels, NEW patch, Start(x, Write("channels", c, patch)),
         Fits(patch, ChannelFields), Revives(patch)
  PROVE  Begins(x)
<1>1. WriteOK(Write("channels", c, patch)) /\ CallFollows(Write("channels", c, patch))
  BY DEF WriteOK, Changes, Revives, CallFollows, Write
<1> QED BY <1>1, WriteBegins

LEMMA WriteKey ==
  ASSUME NEW x, NEW k \in ChannelKeys, NEW patch, Start(x, Write("upstreamKeys", k, patch)),
         Fits(patch, KeyFields), upstreamKeys[k].lifecycle # "ABSENT",
         "lifecycle" \in DOMAIN patch => patch["lifecycle"] # "ABSENT"
  PROVE  Begins(x)
<1>1. WriteOK(Write("upstreamKeys", k, patch)) /\ CallFollows(Write("upstreamKeys", k, patch))
  BY DEF WriteOK, Changes, CallFollows, Write
<1> QED BY <1>1, WriteBegins

LEMMA WriteModel ==
  ASSUME NEW x, NEW m \in Models, NEW patch, Start(x, Write("models", m, patch)),
         Fits(patch, ModelFields), Revives(patch)
  PROVE  Begins(x)
<1>1. WriteOK(Write("models", m, patch)) /\ CallFollows(Write("models", m, patch))
  BY DEF WriteOK, Changes, Revives, CallFollows, Write
<1> QED BY <1>1, WriteBegins

LEMMA WriteMapping ==
  ASSUME NEW x, NEW b \in Mappings, NEW patch, Start(x, Write("mappings", b, patch)),
         Fits(patch, MappingFields), Revives(patch), mappings[b].lifecycle # "ABSENT",
         DOMAIN patch \cap {"channel", "model", "failures", "tested"} = {}, ParentsLive(b)
  PROVE  Begins(x)
<1>1. WriteOK(Write("mappings", b, patch)) /\ CallFollows(Write("mappings", b, patch))
  BY DEF WriteOK, Changes, Revives, CallFollows, Write
<1> QED BY <1>1, WriteBegins

LEMMA WriteRule ==
  ASSUME NEW x, NEW r \in RuleIds, NEW patch, Start(x, Write("rules", r, patch)),
         Fits(patch, RuleFields), rules[r].lifecycle # "ABSENT",
         DOMAIN patch = {"lifecycle", "enabled"}, patch["enabled"] = FALSE,
         patch["lifecycle"] # "ABSENT"
  PROVE  Begins(x)
<1>1. WriteOK(Write("rules", r, patch)) /\ CallFollows(Write("rules", r, patch))
  BY DEF WriteOK, Changes, CallFollows, Write
<1> QED BY <1>1, WriteBegins

LEMMA WritePrice ==
  ASSUME NEW x, NEW p \in Prices, NEW patch, Start(x, Write("prices", p, patch)),
         Fits(patch, PriceFields), "lifecycle" \in DOMAIN patch => patch["lifecycle"] # "ABSENT"
  PROVE  Begins(x)
<1>1. WriteOK(Write("prices", p, patch)) /\ CallFollows(Write("prices", p, patch))
  BY DEF WriteOK, Changes, CallFollows, Write
<1> QED BY <1>1, WriteBegins

\* What the administrators may enter.
LEMMA ValidityFits ==
  ASSUME NEW v \in Validities
  PROVE  Fits(v, PriceFields) /\ "lifecycle" \notin DOMAIN v
<1> DEFINE fields == [from |-> Nat, until |-> Nat]
<1>1. DOMAIN fields = {"from", "until"} /\ fields["from"] = Nat /\ fields["until"] = Nat
  OBVIOUS
<1>2. Fits(v, fields)
  BY CatalogAssumption
<1> HIDE DEF fields
<1>3. DOMAIN v \subseteq {"from", "until"} /\ \A f \in DOMAIN v : v[f] \in Nat
  BY <1>1, <1>2 DEF Fits
<1> QED BY <1>3, PriceColumns DEF Fits

\* The columns of what is entered for a rule.
LEMMA InputColumns ==
  /\ DOMAIN RuleInput = {"enabled", "priority", "days", "start", "end", "from", "until"}
  /\ RuleInput["enabled"] = BOOLEAN /\ RuleInput["priority"] = Nat
  /\ RuleInput["days"] = (SUBSET Days) \ {{}} /\ RuleInput["start"] = Minutes
  /\ RuleInput["end"] = Minutes /\ RuleInput["from"] = Nat /\ RuleInput["until"] = Nat
BY DEF RuleInput

LEMMA InputFits ==
  ASSUME NEW patch, Fits(patch, RuleInput)
  PROVE  /\ Fits(patch, RuleFields)
         /\ DOMAIN patch \cap {"lifecycle", "mapping", "created"} = {}
         /\ "days" \in DOMAIN patch => patch["days"] # {}
<1>1. Fits(patch, RuleFields)
  BY InputColumns, RuleColumns DEF Fits
<1>2. DOMAIN patch \cap {"lifecycle", "mapping", "created"} = {}
  BY InputColumns DEF Fits
<1>3. "days" \in DOMAIN patch => patch["days"] # {}
  BY InputColumns DEF Fits
<1> QED BY <1>1, <1>2, <1>3

\* A rule that is created has the window that was entered.
NewRow(b, w, n) ==
  Merge([NoRule EXCEPT !.lifecycle = "ACTIVE", !.mapping = b, !.enabled = TRUE, !.created = n], w)

LEMMA RowOfWindow ==
  ASSUME NEW b \in Mappings, NEW w \in Windows, NEW n \in Nat, NEW row,
         row = NewRow(b, w, n)
  PROVE  /\ HasFields(row, RuleFields) /\ row.lifecycle = "ACTIVE" /\ row.mapping = b
         /\ row.enabled /\ row.priority = w["priority"] /\ row.days = w["days"]
         /\ row.start = w["start"] /\ row.end = w["end"] /\ row.from = w["from"]
         /\ row.until = w["until"] /\ row.days # {}
<1>1. PICK new : new = [NoRule EXCEPT !.lifecycle = "ACTIVE", !.mapping = b, !.enabled = TRUE,
                                      !.created = n]
  OBVIOUS
<1>2. new = [lifecycle |-> "ACTIVE", mapping |-> b, enabled |-> TRUE, priority |-> 0, days |-> {},
             start |-> 0, end |-> 0, from |-> 0, until |-> Always, created |-> n]
  BY <1>1 DEF NoRule
<1>3. HasFields(new, RuleFields) /\ new.lifecycle = "ACTIVE" /\ new.mapping = b /\ new.enabled = TRUE
  <2>1. 0 \in Nat /\ 0 \in Minutes
    BY ScheduleAssumption DEF Minutes
  <2> QED BY <1>2, <2>1, RuleRow DEF Lifecycles, Always
<1>4. Fits(w, RuleInput) /\ DOMAIN w = DOMAIN RuleInput \ {"enabled"}
  BY CatalogAssumption
<1>5. DOMAIN w = {"priority", "days", "start", "end", "from", "until"}
  BY <1>4, InputColumns
<1>6. Fits(w, RuleFields) /\ w["days"] # {}
  BY <1>4, <1>5, InputFits
<1>7. row = Merge(new, w)
  BY <1>1 DEF NewRow
<1>8. HasFields(row, RuleFields)
  BY <1>3, <1>6, <1>7, MergeFields
<1>9. /\ row.lifecycle = new.lifecycle /\ row.mapping = new.mapping /\ row.enabled = new.enabled
      /\ row.priority = w["priority"] /\ row.days = w["days"]
      /\ row.start = w["start"] /\ row.end = w["end"] /\ row.from = w["from"]
      /\ row.until = w["until"]
  BY <1>3, <1>5, <1>7, MergeField, RuleColumns
<1> QED BY <1>3, <1>6, <1>8, <1>9

\* A rule that is updated keeps what was not entered.
LEMMA RowOfPatch ==
  ASSUME NEW old, HasFields(old, RuleFields), NEW patch, Fits(patch, RuleInput), NEW row,
         row = Merge(old, patch)
  PROVE  /\ HasFields(row, RuleFields) /\ row.lifecycle = old.lifecycle /\ row.mapping = old.mapping
         /\ row.created = old.created
         /\ row.enabled = IF "enabled" \in DOMAIN patch THEN patch["enabled"] ELSE old.enabled
         /\ row.priority = IF "priority" \in DOMAIN patch THEN patch["priority"] ELSE old.priority
         /\ row.days = IF "days" \in DOMAIN patch THEN patch["days"] ELSE old.days
         /\ row.start = IF "start" \in DOMAIN patch THEN patch["start"] ELSE old.start
         /\ row.end = IF "end" \in DOMAIN patch THEN patch["end"] ELSE old.end
         /\ row.from = IF "from" \in DOMAIN patch THEN patch["from"] ELSE old.from
         /\ row.until = IF "until" \in DOMAIN patch THEN patch["until"] ELSE old.until
         /\ old.days # {} => row.days # {}
<1>1. /\ Fits(patch, RuleFields) /\ DOMAIN patch \cap {"lifecycle", "mapping", "created"} = {}
      /\ "days" \in DOMAIN patch => patch["days"] # {}
  BY InputFits
<1>2. HasFields(row, RuleFields)
  BY <1>1, MergeFields
<1>3. \A f \in DOMAIN RuleFields : row[f] = IF f \in DOMAIN patch THEN patch[f] ELSE old[f]
  BY MergeField
<1>4. /\ row.lifecycle = old.lifecycle /\ row.mapping = old.mapping /\ row.created = old.created
      /\ row.enabled = IF "enabled" \in DOMAIN patch THEN patch["enabled"] ELSE old.enabled
      /\ row.priority = IF "priority" \in DOMAIN patch THEN patch["priority"] ELSE old.priority
  BY <1>1, <1>3, RuleColumns
<1>5. /\ row.days = IF "days" \in DOMAIN patch THEN patch["days"] ELSE old.days
      /\ row.start = IF "start" \in DOMAIN patch THEN patch["start"] ELSE old.start
      /\ row.end = IF "end" \in DOMAIN patch THEN patch["end"] ELSE old.end
      /\ row.from = IF "from" \in DOMAIN patch THEN patch["from"] ELSE old.from
      /\ row.until = IF "until" \in DOMAIN patch THEN patch["until"] ELSE old.until
  BY <1>3, RuleColumns
<1> QED BY <1>1, <1>2, <1>4, <1>5

LEMMA NewChannelRow ==
  ASSUME NEW n \in Int, NEW row,
         row = [NoChannel EXCEPT !.lifecycle = "ACTIVE", !.enabled = TRUE, !.priority = n]
  PROVE  HasFields(row, ChannelFields) /\ row.lifecycle = "ACTIVE"
<1>1. row = [lifecycle |-> "ACTIVE", enabled |-> TRUE, health |-> "HEALTHY", open |-> FALSE,
             priority |-> n, auto |-> FALSE]
  BY DEF NoChannel
<1> QED BY <1>1, ChannelRow DEF Lifecycles, Healths

LEMMA NewKeyRow ==
  ASSUME NEW c \in Channels, NEW n \in Int, NEW row,
         row = [NoKey EXCEPT !.lifecycle = "ACTIVE", !.channel = c, !.enabled = TRUE, !.priority = n]
  PROVE  HasFields(row, KeyFields) /\ row.lifecycle = "ACTIVE"
<1>1. row = [lifecycle |-> "ACTIVE", channel |-> c, enabled |-> TRUE, health |-> "HEALTHY",
             isolated |-> FALSE, spent |-> FALSE, priority |-> n]
  BY DEF NoKey
<1> QED BY <1>1, KeyRow DEF Lifecycles, Healths

\* Channels.
LEMMA CreateChannelBegins ==
  ASSUME NEW x, NEW c \in Channels, CreateChannel(x, c)
  PROVE  Begins(x)
<1>1. PICK n \in Priorities :
        Start(x, Insert("channels", c, [NoChannel EXCEPT !.lifecycle = "ACTIVE", !.enabled = TRUE,
                                                         !.priority = n]))
  BY DEF CreateChannel
<1> DEFINE row == [NoChannel EXCEPT !.lifecycle = "ACTIVE", !.enabled = TRUE, !.priority = n]
<1>2. n \in Int
  BY CatalogAssumption
<1>3. HasFields(row, ChannelFields) /\ row.lifecycle = "ACTIVE"
  BY <1>2, NewChannelRow
<1> HIDE DEF row
<1>4. InsertOK(Insert("channels", c, row))
  BY <1>3 DEF InsertOK, Adds, Insert
<1> QED BY <1>1, <1>4, InsertBegins DEF row

LEMMA SetChannelEnabledBegins ==
  ASSUME NEW x, NEW c \in Channels, SetChannelEnabled(x, c)
  PROVE  Begins(x)
<1>1. PICK on \in BOOLEAN : Start(x, Write("channels", c,
         IF on /\ channels[c].health = "DISABLED" THEN [enabled |-> TRUE, health |-> "DEGRADED"]
         ELSE [enabled |-> on]))
  BY DEF SetChannelEnabled
<1> DEFINE patch == IF on /\ channels[c].health = "DISABLED" THEN [enabled |-> TRUE, health |-> "DEGRADED"]
                    ELSE [enabled |-> on]
<1>2. \/ DOMAIN patch = {"enabled", "health"} /\ patch["enabled"] = TRUE /\ patch["health"] = "DEGRADED"
      \/ DOMAIN patch = {"enabled"} /\ patch["enabled"] = on
  OBVIOUS
<1> HIDE DEF patch
<1>3. Fits(patch, ChannelFields) /\ Revives(patch)
  BY <1>2, ChannelColumns DEF Fits, Revives, Healths
<1> QED BY <1>1, <1>3, WriteChannel DEF patch

LEMMA UpdateChannelBegins ==
  ASSUME NEW x, NEW c \in Channels, UpdateChannel(x, c)
  PROVE  Begins(x)
<1>1. PICK n \in Priorities, auto \in BOOLEAN :
        Start(x, Write("channels", c, [priority |-> n, auto |-> auto]))
  BY DEF UpdateChannel
<1> DEFINE patch == [priority |-> n, auto |-> auto]
<1>2. DOMAIN patch = {"priority", "auto"} /\ patch["priority"] = n /\ patch["auto"] = auto
  OBVIOUS
<1> HIDE DEF patch
<1>3. Fits(patch, ChannelFields) /\ Revives(patch)
  BY <1>2, ChannelColumns, CatalogAssumption DEF Fits, Revives
<1> QED BY <1>1, <1>3, WriteChannel DEF patch

LEMMA RestoreChannelBegins ==
  ASSUME NEW x, NEW c \in Channels, RestoreChannel(x, c)
  PROVE  Begins(x)
<1> DEFINE patch == [lifecycle |-> "ACTIVE", enabled |-> FALSE, health |-> "DISABLED", open |-> FALSE]
<1>1. Start(x, Write("channels", c, patch))
  BY DEF RestoreChannel
<1>2. /\ DOMAIN patch = {"lifecycle", "enabled", "health", "open"} /\ patch["lifecycle"] = "ACTIVE"
      /\ patch["enabled"] = FALSE /\ patch["health"] = "DISABLED" /\ patch["open"] = FALSE
  OBVIOUS
<1> HIDE DEF patch
<1>3. Fits(patch, ChannelFields) /\ Revives(patch)
  BY <1>2, ChannelColumns DEF Fits, Revives, Lifecycles, Healths
<1> QED BY <1>1, <1>3, WriteChannel

\* Keys.
LEMMA AddKeyBegins ==
  ASSUME NEW x, NEW k \in ChannelKeys, AddKey(x, k)
  PROVE  Begins(x)
<1>1. PICK c \in Channels, n \in Priorities :
        Start(x, Insert("upstreamKeys", k,
          [NoKey EXCEPT !.lifecycle = "ACTIVE", !.channel = c, !.enabled = TRUE, !.priority = n]))
  BY DEF AddKey
<1> DEFINE row == [NoKey EXCEPT !.lifecycle = "ACTIVE", !.channel = c, !.enabled = TRUE, !.priority = n]
<1>2. n \in Int
  BY CatalogAssumption
<1>3. HasFields(row, KeyFields) /\ row.lifecycle = "ACTIVE"
  BY <1>2, NewKeyRow
<1> HIDE DEF row
<1>4. InsertOK(Insert("upstreamKeys", k, row))
  BY <1>3 DEF InsertOK, Adds, Insert
<1> QED BY <1>1, <1>4, InsertBegins DEF row

LEMMA UpdateKeyBegins ==
  ASSUME NEW x, NEW k \in ChannelKeys, UpdateKey(x, k)
  PROVE  Begins(x)
<1>1. upstreamKeys[k].lifecycle # "ABSENT"
  BY DEF UpdateKey, Live
<1>2. CASE \E spent \in BOOLEAN, n \in Priorities :
             Start(x, Write("upstreamKeys", k, [spent |-> spent, priority |-> n]))
  <2>1. PICK spent \in BOOLEAN, n \in Priorities :
          Start(x, Write("upstreamKeys", k, [spent |-> spent, priority |-> n]))
    BY <1>2
  <2> DEFINE patch == [spent |-> spent, priority |-> n]
  <2>2. DOMAIN patch = {"spent", "priority"} /\ patch["spent"] = spent /\ patch["priority"] = n
    OBVIOUS
  <2> HIDE DEF patch
  <2>3. Fits(patch, KeyFields) /\ "lifecycle" \notin DOMAIN patch
    BY <2>2, KeyColumns, CatalogAssumption DEF Fits
  <2> QED BY <1>1, <2>1, <2>3, WriteKey DEF patch
<1>3. CASE \E on \in BOOLEAN : Start(x, Write("upstreamKeys", k,
             IF on /\ upstreamKeys[k].health = "DISABLED" THEN [enabled |-> on, health |-> "DEGRADED"]
             ELSE [enabled |-> on]))
  <2>1. PICK on \in BOOLEAN : Start(x, Write("upstreamKeys", k,
          IF on /\ upstreamKeys[k].health = "DISABLED" THEN [enabled |-> on, health |-> "DEGRADED"]
          ELSE [enabled |-> on]))
    BY <1>3
  <2> DEFINE patch == IF on /\ upstreamKeys[k].health = "DISABLED"
                      THEN [enabled |-> on, health |-> "DEGRADED"] ELSE [enabled |-> on]
  <2>2. \/ DOMAIN patch = {"enabled", "health"} /\ patch["enabled"] = on /\ patch["health"] = "DEGRADED"
        \/ DOMAIN patch = {"enabled"} /\ patch["enabled"] = on
    OBVIOUS
  <2> HIDE DEF patch
  <2>3. Fits(patch, KeyFields) /\ "lifecycle" \notin DOMAIN patch
    BY <2>2, KeyColumns DEF Fits, Healths
  <2> QED BY <1>1, <2>1, <2>3, WriteKey DEF patch
<1> QED BY <1>2, <1>3 DEF UpdateKey

LEMMA ArchiveKeyBegins ==
  ASSUME NEW x, NEW k \in ChannelKeys, ArchiveKey(x, k) \/ RestoreKey(x, k)
  PROVE  Begins(x)
<1>1. PICK lifecycle \in {"ACTIVE", "ARCHIVED"} :
        Start(x, Write("upstreamKeys", k,
          [lifecycle |-> lifecycle, enabled |-> FALSE, health |-> "DISABLED", isolated |-> FALSE]))
  BY DEF ArchiveKey, RestoreKey
<1> DEFINE patch == [lifecycle |-> lifecycle, enabled |-> FALSE, health |-> "DISABLED", isolated |-> FALSE]
<1>2. /\ DOMAIN patch = {"lifecycle", "enabled", "health", "isolated"} /\ patch["lifecycle"] = lifecycle
      /\ patch["enabled"] = FALSE /\ patch["health"] = "DISABLED" /\ patch["isolated"] = FALSE
  OBVIOUS
<1> HIDE DEF patch
<1>3. Fits(patch, KeyFields)
  BY <1>2, KeyColumns DEF Fits, Lifecycles, Healths
<1>4. upstreamKeys[k].lifecycle # "ABSENT"
  BY DEF ArchiveKey, RestoreKey, Live
<1> QED BY <1>1, <1>2, <1>3, <1>4, WriteKey DEF patch

\* Mappings.
LEMMA NewMappingRow ==
  ASSUME NEW c \in Channels, NEW m \in Models, NEW u \in Upstreams, NEW probed \in BOOLEAN, NEW row,
         row = [lifecycle |-> "ACTIVE", channel |-> c, model |-> m, upstream |-> u, enabled |-> TRUE,
                probed |-> probed, health |-> "UNKNOWN", failures |-> 0, tested |-> 0]
  PROVE  /\ HasFields(row, MappingFields) /\ row.lifecycle = "ACTIVE"
         /\ row.channel = c /\ row.model = m /\ row.failures = 0 /\ row.tested = 0
<1>1. /\ row.lifecycle = "ACTIVE" /\ row.channel = c /\ row.model = m /\ row.upstream = u
      /\ row.health = "UNKNOWN" /\ row.failures = 0 /\ row.tested = 0
  OBVIOUS
<1>2. row.enabled \in BOOLEAN /\ row.probed \in BOOLEAN
  OBVIOUS
<1>3. row = [lifecycle |-> row.lifecycle, channel |-> row.channel, model |-> row.model,
             upstream |-> row.upstream, enabled |-> row.enabled, probed |-> row.probed,
             health |-> row.health, failures |-> row.failures, tested |-> row.tested]
  OBVIOUS
<1>4. HasFields(row, MappingFields)
  BY <1>1, <1>2, <1>3, MappingRow DEF Lifecycles, Healths
<1> QED BY <1>1, <1>4

LEMMA CreateMappingBegins ==
  ASSUME NEW x, NEW b \in Mappings, CreateMapping(x, b)
  PROVE  Begins(x)
<1>1. PICK c \in Channels, m \in Models, u \in Upstreams, probed \in BOOLEAN :
        /\ Live(channels[c]) /\ Live(models[m])
        /\ Start(x, Insert("mappings", b,
             [NoMapping EXCEPT !.lifecycle = "ACTIVE", !.channel = c, !.model = m, !.upstream = u,
                               !.enabled = TRUE, !.probed = probed]))
  BY DEF CreateMapping
<1>a. PICK row : row = [NoMapping EXCEPT !.lifecycle = "ACTIVE", !.channel = c, !.model = m,
                                         !.upstream = u, !.enabled = TRUE, !.probed = probed]
  OBVIOUS
<1>b. Start(x, Insert("mappings", b, row))
  BY <1>1, <1>a
<1>c. row = [lifecycle |-> "ACTIVE", channel |-> c, model |-> m, upstream |-> u, enabled |-> TRUE,
              probed |-> probed, health |-> "UNKNOWN", failures |-> 0, tested |-> 0]
  BY <1>a DEF NoMapping
<1>2. /\ HasFields(row, MappingFields) /\ row.lifecycle = "ACTIVE"
      /\ row.channel = c /\ row.model = m /\ row.failures = 0 /\ row.tested = 0
  BY <1>c, NewMappingRow
<1>3. InsertOK(Insert("mappings", b, row))
  BY <1>2 DEF InsertOK, Adds, Insert
<1>4. Live(channels[row.channel]) /\ Live(models[row.model])
  BY <1>1, <1>2
<1> QED BY <1>b, <1>3, <1>4, InsertBegins

LEMMA RestoreMappingBegins ==
  ASSUME NEW x, NEW b \in Mappings, RestoreMapping(x, b)
  PROVE  Begins(x)
<1> DEFINE patch == [lifecycle |-> "ACTIVE", enabled |-> FALSE, probed |-> FALSE, health |-> "DISABLED"]
<1>1. Start(x, Write("mappings", b, patch)) /\ mappings[b].lifecycle # "ABSENT" /\ ParentsLive(b)
  BY DEF RestoreMapping
<1>2. /\ DOMAIN patch = {"lifecycle", "enabled", "probed", "health"} /\ patch["lifecycle"] = "ACTIVE"
      /\ patch["enabled"] = FALSE /\ patch["probed"] = FALSE /\ patch["health"] = "DISABLED"
  OBVIOUS
<1> HIDE DEF patch
<1>3. Fits(patch, MappingFields) /\ Revives(patch)
  BY <1>2, MappingColumns DEF Fits, Revives, Lifecycles, Healths
<1>4. DOMAIN patch \cap {"channel", "model", "failures", "tested"} = {}
  BY <1>2
<1> QED BY <1>1, <1>3, <1>4, WriteMapping

LEMMA UpdateMappingBegins ==
  ASSUME NEW x, NEW b \in Mappings, UpdateMapping(x, b)
  PROVE  Begins(x)
<1>1. mappings[b].lifecycle # "ABSENT" /\ ParentsLive(b)
  BY DEF UpdateMapping, Live
<1>2. CASE \E on \in BOOLEAN : Start(x, Write("mappings", b,
             IF on /\ mappings[b].health = "DISABLED" THEN [enabled |-> on, health |-> "UNKNOWN"]
             ELSE [enabled |-> on]))
  <2>1. PICK on \in BOOLEAN : Start(x, Write("mappings", b,
          IF on /\ mappings[b].health = "DISABLED" THEN [enabled |-> on, health |-> "UNKNOWN"]
          ELSE [enabled |-> on]))
    BY <1>2
  <2> DEFINE patch == IF on /\ mappings[b].health = "DISABLED"
                      THEN [enabled |-> on, health |-> "UNKNOWN"] ELSE [enabled |-> on]
  <2>2. \/ DOMAIN patch = {"enabled", "health"} /\ patch["enabled"] = on /\ patch["health"] = "UNKNOWN"
        \/ DOMAIN patch = {"enabled"} /\ patch["enabled"] = on
    OBVIOUS
  <2> HIDE DEF patch
  <2>3. Fits(patch, MappingFields) /\ Revives(patch)
    BY <2>2, MappingColumns DEF Fits, Revives, Healths
  <2>4. DOMAIN patch \cap {"channel", "model", "failures", "tested"} = {}
    BY <2>2
  <2> QED BY <1>1, <2>1, <2>3, <2>4, WriteMapping DEF patch
<1>3. CASE \E probed \in BOOLEAN, h \in {"HEALTHY", "UNHEALTHY"} :
             Start(x, Write("mappings", b, [probed |-> probed, health |-> h]))
  <2>1. PICK probed \in BOOLEAN, h \in {"HEALTHY", "UNHEALTHY"} :
          Start(x, Write("mappings", b, [probed |-> probed, health |-> h]))
    BY <1>3
  <2> DEFINE patch == [probed |-> probed, health |-> h]
  <2>2. DOMAIN patch = {"probed", "health"} /\ patch["probed"] = probed /\ patch["health"] = h
    OBVIOUS
  <2> HIDE DEF patch
  <2>3. Fits(patch, MappingFields) /\ Revives(patch)
    BY <2>2, MappingColumns DEF Fits, Revives, Healths
  <2>4. DOMAIN patch \cap {"channel", "model", "failures", "tested"} = {}
    BY <2>2
  <2> QED BY <1>1, <2>1, <2>3, <2>4, WriteMapping DEF patch
<1> QED BY <1>2, <1>3 DEF UpdateMapping

LEMMA ArchiveMappingBegins ==
  ASSUME NEW x, NEW b \in Mappings, ArchiveMapping(x, b)
  PROVE  Begins(x)
<1> DEFINE call == [op |-> "ARCHIVE", id |-> b]
<1>1. Start(x, call) /\ mappings[b].lifecycle # "ABSENT"
  BY DEF ArchiveMapping, Live
<1>2. call.op = "ARCHIVE" /\ call.id = b
  OBVIOUS
<1> HIDE DEF call
<1>3. CallOK(call) /\ CallFollows(call) /\ CallParents(call) /\ CallSeen(call)
  BY <1>1, <1>2 DEF CallOK, CallFollows, CallParents, CallSeen, BringsIn
<1> QED BY <1>1, <1>2, <1>3 DEF Begins, CallInv

\* Rules: archiving and restoring leave a rule disabled.
LEMMA RetireRuleBegins ==
  ASSUME NEW x, NEW r \in RuleIds, ArchiveRule(x, r) \/ RestoreRule(x, r)
  PROVE  Begins(x)
<1>1. PICK lifecycle \in {"ACTIVE", "ARCHIVED"} :
        Start(x, Write("rules", r, [lifecycle |-> lifecycle, enabled |-> FALSE]))
  BY DEF ArchiveRule, RestoreRule, Archived
<1> DEFINE patch == [lifecycle |-> lifecycle, enabled |-> FALSE]
<1>2. /\ DOMAIN patch = {"lifecycle", "enabled"} /\ patch["lifecycle"] = lifecycle
      /\ patch["enabled"] = FALSE
  OBVIOUS
<1> HIDE DEF patch
<1>3. Fits(patch, RuleFields)
  BY <1>2, RuleColumns DEF Fits, Lifecycles
<1>4. rules[r].lifecycle # "ABSENT"
  BY DEF ArchiveRule, RestoreRule, Live
<1> QED BY <1>1, <1>2, <1>3, <1>4, WriteRule DEF patch

\* Public models and prices.
LEMMA NewModelRow ==
  ASSUME NEW sized \in BOOLEAN, NEW row, row = [NoModel EXCEPT !.lifecycle = "ACTIVE", !.sized = sized]
  PROVE  HasFields(row, ModelFields) /\ row.lifecycle = "ACTIVE"
<1>1. row = [lifecycle |-> "ACTIVE", enabled |-> FALSE, sized |-> sized]
  BY DEF NoModel
<1> QED BY <1>1, ModelRow DEF Lifecycles

LEMMA NewPriceRow ==
  ASSUME NEW m \in Models, NEW row,
         row = [NoPrice EXCEPT !.lifecycle = "ACTIVE", !.model = m, !.enabled = TRUE]
  PROVE  HasFields(row, PriceFields) /\ row.lifecycle = "ACTIVE"
<1>1. row = [lifecycle |-> "ACTIVE", model |-> m, enabled |-> TRUE, from |-> 0, until |-> Always,
             used |-> FALSE]
  BY DEF NoPrice
<1> QED BY <1>1, PriceRow DEF Lifecycles, Always

LEMMA CreateModelBegins ==
  ASSUME NEW x, NEW m \in Models, CreateModel(x, m)
  PROVE  Begins(x)
<1>1. PICK sized \in BOOLEAN :
        Start(x, Insert("models", m, [NoModel EXCEPT !.lifecycle = "ACTIVE", !.sized = sized]))
  BY DEF CreateModel
<1>a. PICK row : row = [NoModel EXCEPT !.lifecycle = "ACTIVE", !.sized = sized]
  OBVIOUS
<1>b. Start(x, Insert("models", m, row))
  BY <1>1, <1>a
<1>2. HasFields(row, ModelFields) /\ row.lifecycle = "ACTIVE"
  BY <1>a, NewModelRow
<1>3. InsertOK(Insert("models", m, row))
  BY <1>2 DEF InsertOK, Adds, Insert
<1> QED BY <1>b, <1>3, InsertBegins

LEMMA UpdateModelBegins ==
  ASSUME NEW x, NEW m \in Models, UpdateModel(x, m)
  PROVE  Begins(x)
<1>1. PICK sized \in BOOLEAN : Start(x, Write("models", m, [sized |-> sized]))
  BY DEF UpdateModel
<1> DEFINE patch == [sized |-> sized]
<1>2. DOMAIN patch = {"sized"} /\ patch["sized"] = sized
  OBVIOUS
<1> HIDE DEF patch
<1>3. Fits(patch, ModelFields) /\ Revives(patch)
  BY <1>2, ModelColumns DEF Fits, Revives
<1> QED BY <1>1, <1>3, WriteModel DEF patch

LEMMA OfferModelBegins ==
  ASSUME NEW x, NEW m \in Models, NEW at, Publish(x, m, at) \/ Unpublish(x, m)
  PROVE  Begins(x)
<1>1. PICK on \in BOOLEAN : Start(x, Write("models", m, [enabled |-> on]))
  BY DEF Publish, Unpublish
<1> DEFINE patch == [enabled |-> on]
<1>2. DOMAIN patch = {"enabled"} /\ patch["enabled"] = on
  OBVIOUS
<1> HIDE DEF patch
<1>3. Fits(patch, ModelFields) /\ Revives(patch)
  BY <1>2, ModelColumns DEF Fits, Revives
<1> QED BY <1>1, <1>3, WriteModel DEF patch

LEMMA RestoreModelBegins ==
  ASSUME NEW x, NEW m \in Models, RestoreModel(x, m)
  PROVE  Begins(x)
<1> DEFINE patch == [lifecycle |-> "ACTIVE", enabled |-> FALSE]
<1>1. Start(x, Write("models", m, patch))
  BY DEF RestoreModel
<1>2. DOMAIN patch = {"lifecycle", "enabled"} /\ patch["lifecycle"] = "ACTIVE" /\ patch["enabled"] = FALSE
  OBVIOUS
<1> HIDE DEF patch
<1>3. Fits(patch, ModelFields) /\ Revives(patch)
  BY <1>2, ModelColumns DEF Fits, Revives, Lifecycles
<1> QED BY <1>1, <1>3, WriteModel

LEMMA CreatePriceBegins ==
  ASSUME NEW x, NEW p \in Prices, CreatePrice(x, p)
  PROVE  Begins(x)
<1>1. PICK m \in Models, v \in Validities :
        Start(x, Insert("prices", p,
          Merge([NoPrice EXCEPT !.lifecycle = "ACTIVE", !.model = m, !.enabled = TRUE], v)))
  BY DEF CreatePrice
<1>a. PICK priced : priced = [NoPrice EXCEPT !.lifecycle = "ACTIVE", !.model = m, !.enabled = TRUE]
  OBVIOUS
<1> DEFINE row == Merge(priced, v)
<1>2. HasFields(priced, PriceFields) /\ priced.lifecycle = "ACTIVE"
  BY <1>a, NewPriceRow
<1>3. Fits(v, PriceFields) /\ "lifecycle" \notin DOMAIN v
  BY ValidityFits
<1>4. HasFields(row, PriceFields) /\ row.lifecycle = "ACTIVE"
  BY <1>2, <1>3, MergeFields, MergeField, PriceColumns
<1> HIDE DEF row
<1>5. InsertOK(Insert("prices", p, row))
  BY <1>4 DEF InsertOK, Adds, Insert
<1>6. Start(x, Insert("prices", p, row))
  BY <1>1, <1>a DEF row
<1> QED BY <1>5, <1>6, InsertBegins

LEMMA UpdatePriceBegins ==
  ASSUME NEW x, NEW p \in Prices, UpdatePrice(x, p)
  PROVE  Begins(x)
<1>1. PICK v \in Validities : Start(x, Write("prices", p, v))
  BY DEF UpdatePrice
<1> QED BY <1>1, ValidityFits, WritePrice

LEMMA RetirePriceBegins ==
  ASSUME NEW x, NEW p \in Prices, ArchivePrice(x, p) \/ RestorePrice(x, p)
  PROVE  Begins(x)
<1>1. PICK lifecycle \in {"ACTIVE", "ARCHIVED"} :
        Start(x, Write("prices", p, [lifecycle |-> lifecycle, enabled |-> FALSE]))
  BY DEF ArchivePrice, RestorePrice, Archived
<1> DEFINE patch == [lifecycle |-> lifecycle, enabled |-> FALSE]
<1>2. /\ DOMAIN patch = {"lifecycle", "enabled"} /\ patch["lifecycle"] = lifecycle
      /\ patch["enabled"] = FALSE
  OBVIOUS
<1> HIDE DEF patch
<1>3. Fits(patch, PriceFields)
  BY <1>2, PriceColumns DEF Fits, Lifecycles
<1> QED BY <1>1, <1>2, <1>3, WritePrice DEF patch

LEMMA SetPriceEnabledBegins ==
  ASSUME NEW x, NEW p \in Prices, SetPriceEnabled(x, p)
  PROVE  Begins(x)
<1>1. PICK on \in BOOLEAN : Start(x, Write("prices", p, [enabled |-> on]))
  BY DEF SetPriceEnabled
<1> DEFINE patch == [enabled |-> on]
<1>2. DOMAIN patch = {"enabled"} /\ patch["enabled"] = on
  OBVIOUS
<1> HIDE DEF patch
<1>3. Fits(patch, PriceFields) /\ "lifecycle" \notin DOMAIN patch
  BY <1>2, PriceColumns DEF Fits
<1> QED BY <1>1, <1>3, WritePrice DEF patch

\* Bindings.
LEMMA BindingBegins ==
  ASSUME NEW x, NEW call, Start(x, call), call.op \in {"BIND", "REBIND"}, BindOK(call),
         CallParents(call),
         call.op = "REBIND" => /\ mappings[call.id].lifecycle # "ABSENT"
                               /\ mappings[call.id].channel = call.channel
  PROVE  Begins(x)
<1>1. CallOK(call) /\ CallFollows(call) /\ CallSeen(call)
  BY DEF CallOK, CallFollows, CallSeen, BringsIn
<1> QED BY <1>1 DEF Begins, CallInv

LEMMA BindBegins ==
  ASSUME NEW x, NEW b \in Mappings, Bind(x, b)
  PROVE  Begins(x)
<1>1. PICK c \in Channels, m \in Models, u \in Upstreams, create \in BOOLEAN, probed \in BOOLEAN :
        /\ Live(channels[c]) /\ ModelAllows(m, create)
        /\ Start(x, [op |-> "BIND", id |-> b, channel |-> c, create |-> create,
                     row |-> NewlyBound(c, m, u, probed)])
  BY DEF Bind
<1>2. PICK row : row = NewlyBound(c, m, u, probed)
  OBVIOUS
<1>3. row = [lifecycle |-> "ACTIVE", channel |-> c, model |-> m, upstream |-> u, enabled |-> TRUE,
             probed |-> probed, health |-> "UNKNOWN", failures |-> 0, tested |-> 0]
  BY <1>2 DEF NoMapping, NewlyBound
<1>4. /\ HasFields(row, MappingFields) /\ row.lifecycle = "ACTIVE"
      /\ row.channel = c /\ row.model = m /\ row.failures = 0 /\ row.tested = 0
  BY <1>3, NewMappingRow
<1>5. PICK call : call = [op |-> "BIND", id |-> b, channel |-> c, create |-> create, row |-> row]
  OBVIOUS
<1>6. Start(x, call)
  BY <1>1, <1>2, <1>5
<1>7. /\ call.op = "BIND" /\ call.id = b /\ call.channel = c /\ call.create = create
      /\ call.row = row
  BY <1>5
<1>8. Fits(row, MappingFields) /\ {"model", "upstream", "failures", "tested", "channel", "lifecycle"} \subseteq DOMAIN row
  BY <1>4, MappingColumns DEF HasFields, Fits
<1>9. BindOK(call)
  BY <1>4, <1>7, <1>8 DEF BindOK
<1>10. CallParents(call)
  BY <1>1, <1>4, <1>7 DEF CallParents, ModelAllows
<1> QED BY <1>6, <1>7, <1>9, <1>10, BindingBegins

LEMMA RebindBegins ==
  ASSUME NEW x, NEW b \in Mappings, Rebind(x, b), RowsMade
  PROVE  Begins(x)
<1> DEFINE c == mappings[b].channel
           former == mappings[b].model
<1>1. PICK m \in Models, u \in Upstreams, create \in BOOLEAN, probed \in BOOLEAN :
        /\ Live(channels[c]) /\ ModelAllows(m, create)
        /\ Start(x, [op |-> "REBIND", id |-> b, channel |-> c, former |-> former, create |-> create,
                     row |-> [model |-> m, upstream |-> u, probed |-> probed, health |-> "UNKNOWN",
                              failures |-> 0, tested |-> 0]])
  BY DEF Rebind
<1>0. Live(mappings[b])
  BY DEF Rebind
<1>a. mappings[b].lifecycle # "ABSENT" /\ c \in Channels
  BY <1>0 DEF Live, RowsMade
<1>2. PICK row : row = [model |-> m, upstream |-> u, probed |-> probed, health |-> "UNKNOWN",
                        failures |-> 0, tested |-> 0]
  OBVIOUS
<1>3. /\ DOMAIN row = {"model", "upstream", "probed", "health", "failures", "tested"}
      /\ row["model"] = m /\ row["upstream"] = u /\ row["probed"] = probed /\ row["health"] = "UNKNOWN"
      /\ row["failures"] = 0 /\ row["tested"] = 0
  BY <1>2
<1>4. Fits(row, MappingFields)
  BY <1>3, MappingColumns DEF Fits, Healths
<1>5. PICK call : call = [op |-> "REBIND", id |-> b, channel |-> c, former |-> former,
                          create |-> create, row |-> row]
  OBVIOUS
<1>6. Start(x, call)
  BY <1>1, <1>2, <1>5
<1>7. /\ call.op = "REBIND" /\ call.id = b /\ call.channel = c /\ call.create = create
      /\ call.row = row
  BY <1>5
<1> HIDE DEF c, former
<1>8. BindOK(call)
  BY <1>3, <1>4, <1>7, <1>a DEF BindOK
<1>9. CallParents(call)
  BY <1>1, <1>3, <1>7 DEF CallParents, ModelAllows
<1>10. mappings[call.id].lifecycle # "ABSENT" /\ mappings[call.id].channel = call.channel
  BY <1>7, <1>a DEF c
<1> QED BY <1>6, <1>7, <1>8, <1>9, <1>10, BindingBegins

\* Rules to be checked.
LEMMA RuleBegins ==
  ASSUME NEW x, NEW r \in RuleIds, NEW b \in Mappings, NEW create \in BOOLEAN, NEW patch,
         patch \in IF create THEN Windows ELSE Patches,
         ~create => rules[r].lifecycle # "ABSENT" /\ rules[r].mapping = b,
         Start(x, [op |-> "RULE", checked |-> FALSE, id |-> r, mapping |-> b, create |-> create,
                   patch |-> patch])
  PROVE  Begins(x)
<1>1. PICK call : call = [op |-> "RULE", checked |-> FALSE, id |-> r, mapping |-> b, create |-> create,
                          patch |-> patch]
  OBVIOUS
<1>2. /\ call.op = "RULE" /\ call.checked = FALSE /\ call.id = r /\ call.mapping = b
      /\ call.create = create /\ call.patch = patch
  BY <1>1
<1>3. RuleOK(call)
  BY <1>1, <1>2 DEF RuleOK
<1>4. CallOK(call) /\ CallFollows(call) /\ CallParents(call) /\ CallSeen(call)
  BY <1>2, <1>3 DEF CallOK, CallFollows, CallParents, CallSeen, BringsIn
<1> QED BY <1>1, <1>2, <1>4 DEF Begins, CallInv

LEMMA CreateRuleBegins ==
  ASSUME NEW x, NEW r \in RuleIds, CreateRule(x, r)
  PROVE  Begins(x)
BY RuleBegins DEF CreateRule

LEMMA UpdateRuleBegins ==
  ASSUME NEW x, NEW r \in RuleIds, UpdateRule(x, r), RowsMade
  PROVE  Begins(x)
<1>1. rules[r].lifecycle # "ABSENT" /\ rules[r].mapping \in Mappings
  BY DEF UpdateRule, Live, RowsMade
<1>2. PICK patch \in Patches :
       Start(x, [op |-> "RULE", checked |-> FALSE, id |-> r, mapping |-> rules[r].mapping,
                 create |-> FALSE, patch |-> patch])
  BY DEF UpdateRule
<1> QED BY <1>1, <1>2, RuleBegins

\* Tests and probes.
LEMMA TestBegins ==
  ASSUME NEW x, NEW c \in Channels, NEW k \in ChannelKeys,
         TestChannel(x, c, k) \/ ProbeChannel(x, c, k)
  PROVE  Begins(x)
<1>1. PICK op \in {"TEST", "PROBE"} : Start(x, [op |-> op, id |-> c, key |-> k, auto |-> channels[c].auto])
  BY DEF TestChannel, ProbeChannel
<1>2. PICK call : call = [op |-> op, id |-> c, key |-> k, auto |-> channels[c].auto]
  OBVIOUS
<1>3. call.op = op /\ call.id = c /\ call.key = k
  BY <1>2
<1>4. CallOK(call) /\ CallFollows(call) /\ CallParents(call) /\ CallSeen(call)
  BY <1>3 DEF CallOK, CallFollows, CallParents, CallSeen, BringsIn
<1> QED BY <1>1, <1>2, <1>3, <1>4 DEF Begins, CallInv

\* Every step of the catalogue begins a call, ends one, or archives.
LEMMA CatalogSteps ==
  ASSUME RowsMade, CatalogNext
  PROVE  \/ \E x \in Calls : \/ Begins(x) \/ FinishUnlocked(x) \/ FinishArchive(x) \/ FinishBinding(x)
                             \/ CheckRule(x) \/ FinishRule(x) \/ FinishProbe(x) \/ Fail(x)
         \/ \E c \in Channels : ArchiveChannel(c)
         \/ \E m \in Models : ArchiveModel(m)
<1>1. ASSUME BindingNext PROVE \/ \E x \in Calls : Begins(x) \/ FinishUnlocked(x) \/ FinishArchive(x) \/ FinishBinding(x) \/ Fail(x)
                               \/ \E c \in Channels : ArchiveChannel(c)
                               \/ \E m \in Models : ArchiveModel(m)
  BY <1>1, BindBegins, RebindBegins, CreateMappingBegins, RestoreMappingBegins, ArchiveMappingBegins,
     RestoreModelBegins DEF BindingNext
<1>2. ASSUME RulesNext PROVE \E x \in Calls : Begins(x) \/ CheckRule(x) \/ FinishRule(x) \/ FinishUnlocked(x) \/ FinishArchive(x) \/ Fail(x)
  BY <1>2, CreateRuleBegins, UpdateRuleBegins, RetireRuleBegins, ArchiveMappingBegins DEF RulesNext
<1>3. ASSUME ChannelsNext PROVE \/ \E x \in Calls : Begins(x) \/ FinishUnlocked(x) \/ FinishProbe(x) \/ Fail(x)
                                \/ \E c \in Channels : ArchiveChannel(c)
  BY <1>3, CreateChannelBegins, SetChannelEnabledBegins, UpdateChannelBegins, RestoreChannelBegins,
     TestBegins, AddKeyBegins, UpdateKeyBegins, ArchiveKeyBegins DEF ChannelsNext
<1>4. ASSUME NEW at, OfferNext(at) PROVE \/ \E x \in Calls : Begins(x) \/ FinishUnlocked(x) \/ Fail(x)
                                         \/ \E m \in Models : ArchiveModel(m)
  BY <1>4, UpdateMappingBegins, CreateModelBegins, UpdateModelBegins, OfferModelBegins,
     CreatePriceBegins, UpdatePriceBegins, RetirePriceBegins, SetPriceEnabledBegins DEF OfferNext
<1> QED BY <1>1, <1>2, <1>3, <1>4 DEF CatalogNext

-----------------------------------------------------------------------------
(* Rules that overlap.                                                     *)

\* What a change of `enabled`, or of the number of rules, leaves as it is.
SameWindow(a, b) ==
  /\ a.priority = b.priority /\ a.days = b.days /\ a.start = b.start /\ a.end = b.end
  /\ a.from = b.from /\ a.until = b.until

LEMMA SameMinutes ==
  ASSUME NEW a, NEW b, SameWindow(a, b)
  PROVE  WeeklyMinutes(a) = WeeklyMinutes(b)
<1>1. \A day : Marked(a, day) = Marked(b, day)
  BY DEF SameWindow, Marked
<1> QED BY <1>1 DEF SameWindow, WeeklyMinutes

LEMMA SameOverlap ==
  ASSUME NEW a, NEW b, NEW c, NEW d, SameWindow(a, c), SameWindow(b, d), c.enabled, d.enabled,
         CostRulesOverlap(a, b)
  PROVE  CostRulesOverlap(c, d)
<1>1. WeeklyMinutes(a) = WeeklyMinutes(c) /\ WeeklyMinutes(b) = WeeklyMinutes(d)
  BY SameMinutes
<1> QED BY <1>1 DEF SameWindow, CostRulesOverlap

LEMMA OverlapSymmetric ==
  ASSUME NEW a, NEW b, CostRulesOverlap(a, b)
  PROVE  CostRulesOverlap(b, a)
BY DEF CostRulesOverlap

-----------------------------------------------------------------------------
(* What nearly every step leaves as it is.                                 *)

\* Rows that are made stay, with what identifies them.
RowsKept ==
  /\ \A b \in Mappings : mappings[b].lifecycle # "ABSENT" =>
       /\ mappings'[b].lifecycle # "ABSENT" /\ mappings'[b].channel = mappings[b].channel
       /\ \/ mappings'[b].model = mappings[b].model
          \/ Live(channels'[mappings'[b].channel]) /\ Live(models'[mappings'[b].model])
  /\ \A k \in ChannelKeys : upstreamKeys[k].lifecycle # "ABSENT" => upstreamKeys'[k].lifecycle # "ABSENT"
  /\ \A r \in RuleIds : rules[r].lifecycle # "ABSENT" =>
       rules'[r].lifecycle # "ABSENT" /\ rules'[r].mapping = rules[r].mapping

\* A rule changes only by being disabled.
RulesWane ==
  \A r \in RuleIds :
    \/ rules'[r] = rules[r]
    \/ /\ rules'[r].enabled = FALSE /\ rules[r].lifecycle # "ABSENT"
       /\ rules'[r].mapping = rules[r].mapping /\ SameWindow(rules'[r], rules[r])

\* A parent goes only when nobody holds its lock, and overtakes the calls under it.
ParentsKept ==
  /\ \A c \in Channels : Live(channels[c]) =>
       Live(channels'[c]) \/ (LockFree("channel", c) /\ Under("channel", c) \subseteq overtaken')
  /\ \A m \in Models : Live(models[m]) =>
       Live(models'[m]) \/ (LockFree("model", m) /\ Under("model", m) \subseteq overtaken')

CatalogKept ==
  /\ TablesTypeOK' /\ RowsMade' /\ BindingsFollowParents'
  /\ RowsKept /\ RulesWane /\ ParentsKept

\* Calls go on or end.
CallsGoOn ==
  /\ calls' = [x \in Calls |-> calls'[x]]
  /\ \A x \in Calls : \/ calls'[x] = Idle
                      \/ calls'[x] = calls[x] /\ (x \in overtaken => x \in overtaken')

LEMMA IdleCall ==
  ASSUME NEW call, call = Idle
  PROVE  /\ call.op = "IDLE" /\ CallOK(call)
<1>1. call.op = "IDLE"
  BY DEF Idle
<1> QED BY <1>1 DEF CallOK

LEMMA CallsKept ==
  ASSUME CatalogInv, RowsKept, ParentsKept, CallsGoOn
  PROVE  \A x \in Calls : CallOK(calls'[x]) /\ CallFollows(calls[x])' /\ CallParents(calls[x])'
<1> SUFFICES ASSUME NEW x \in Calls
             PROVE  CallOK(calls'[x]) /\ CallFollows(calls[x])' /\ CallParents(calls[x])'
  OBVIOUS
<1>1. CASE calls'[x] = Idle
  <2>1. calls'[x].op = "IDLE" /\ CallOK(calls'[x])
    BY <1>1, IdleCall
  <2> QED BY <2>1 DEF CallFollows, CallParents
<1>2. CASE calls'[x] = calls[x]
  <2>0. CallOK(calls[x]) /\ CallFollows(calls[x]) /\ CallParents(calls[x])
    BY DEF CatalogInv, CatalogTypeOK
  <2>1. CallOK(calls'[x])
    BY <1>2, <2>0
  <2>2. CallFollows(calls[x])'
    <3>1. /\ calls[x].op = "WRITE" /\ calls[x].table = "upstreamKeys" => calls[x].id \in ChannelKeys
          /\ calls[x].op = "WRITE" /\ calls[x].table = "rules" => calls[x].id \in RuleIds
          /\ calls[x].op = "WRITE" /\ calls[x].table = "mappings" => calls[x].id \in Mappings
      BY <2>0 DEF CallOK, WriteOK, Changes
    <3>2. /\ calls[x].op = "ARCHIVE" => calls[x].id \in Mappings
          /\ calls[x].op = "REBIND" => calls[x].id \in Mappings
          /\ calls[x].op = "RULE" => calls[x].id \in RuleIds
      BY <2>0 DEF CallOK, BindOK, RuleOK
    <3> QED BY <1>2, <2>0, <3>1, <3>2 DEF CallFollows, RowsKept
  <2>3. CallParents(calls[x])'
    <3> SUFFICES ASSUME calls[x].op \in {"BIND", "REBIND"}
                 PROVE  /\ Live(channels'[calls[x].channel])
                        /\ calls[x].create \/ Live(models'[calls[x].row["model"]])
      BY <1>2 DEF CallParents, Live
    <3>1. BindOK(calls[x])
      BY <2>0 DEF CallOK
    <3>2. calls[x].channel \in Channels /\ calls[x].row["model"] \in Models
      BY <3>1 DEF BindOK
    <3>3. /\ LockOf("channel", calls[x].channel) \in LocksOf(calls[x])
          /\ LockOf("model", calls[x].row["model"]) \in LocksOf(calls[x])
      BY DEF LocksOf
    <3>4. ~LockFree("channel", calls[x].channel) /\ ~LockFree("model", calls[x].row["model"])
      BY <3>3 DEF LockFree
    <3> QED BY <2>0, <3>2, <3>4 DEF ParentsKept, CallParents
  <2> QED BY <2>1, <2>2, <2>3
<1> QED BY <1>1, <1>2 DEF CallsGoOn

\* What an unlocked call has seen.
LEMMA SeenKept ==
  ASSUME CatalogInv, RowsKept, ParentsKept, CallsGoOn
  PROVE  SeenInv'
<1> SUFFICES ASSUME NEW x \in Calls, x \notin overtaken'
             PROVE  CallSeen(calls[x])'
  BY DEF SeenInv
<1>1. CASE calls'[x] = Idle
  BY <1>1, IdleCall DEF CallSeen, BringsIn
<1>2. CASE calls'[x] # Idle
  <2> SUFFICES ASSUME BringsIn(calls'[x])
               PROVE  Live(channels'[RowOf(calls[x])'.channel]) /\ Live(models'[RowOf(calls[x])'.model])
    BY DEF CallSeen, BringsIn, RowOf, Live
  <2>1. calls'[x] = calls[x] /\ x \notin overtaken
    BY <1>2 DEF CallsGoOn
  <2>2. BringsIn(calls[x])
    BY <2>1
  <2>3. /\ CallOK(calls[x]) /\ CallFollows(calls[x])
        /\ Live(channels[RowOf(calls[x]).channel]) /\ Live(models[RowOf(calls[x]).model])
    BY <2>1, <2>2 DEF CatalogInv, CatalogTypeOK, SeenInv, CallSeen
  <2>4. x \in Under("channel", RowOf(calls[x]).channel) /\ x \in Under("model", RowOf(calls[x]).model)
    BY <2>2 DEF Under
  <2>5. CASE calls[x].op = "INSERT"
    <3>1. RowOf(calls[x]) = calls[x].row /\ RowOf(calls[x])' = calls[x].row
      BY <2>1, <2>5 DEF RowOf
    <3>2. calls[x].row.channel \in Channels /\ calls[x].row.model \in Models
      BY <2>2, <2>3, <2>5 DEF CallOK, InsertOK, Adds, BringsIn
    <3> QED BY <2>3, <2>4, <3>1, <3>2 DEF ParentsKept
  <2>6. CASE calls[x].op = "WRITE"
    <3>1. /\ RowOf(calls[x]) = mappings[calls[x].id]
          /\ RowOf(calls[x])' = mappings'[calls[x].id]
      BY <2>1, <2>6 DEF RowOf
    <3>2. calls[x].id \in Mappings /\ mappings[calls[x].id].lifecycle # "ABSENT"
      BY <2>2, <2>3, <2>6 DEF CallOK, WriteOK, Changes, BringsIn, CallFollows
    <3>3. mappings[calls[x].id].channel \in Channels /\ mappings[calls[x].id].model \in Models
      BY <3>2 DEF CatalogInv, RowsMade
    <3>4. /\ Live(channels'[mappings[calls[x].id].channel])
          /\ Live(models'[mappings[calls[x].id].model])
      BY <2>3, <2>4, <3>1, <3>3 DEF ParentsKept
    <3> QED BY <3>1, <3>2, <3>4 DEF RowsKept
  <2> QED BY <2>2, <2>5, <2>6 DEF BringsIn
<1> QED BY <1>1, <1>2

\* The checks and the rules themselves, when rules only wane.
NoNewCheck ==
  \A x \in Calls : calls'[x] = calls[x] \/ ~(calls'[x].op = "RULE" /\ calls'[x].checked)

LEMMA CandidateKept ==
  ASSUME CatalogInv, TablesTypeOK', NEW x \in Calls, calls[x].op = "RULE",
         \/ rules'[calls[x].id] = rules[calls[x].id]
         \/ rules'[calls[x].id].enabled = FALSE /\ SameWindow(rules'[calls[x].id], rules[calls[x].id])
         \/ calls[x].create,
         Candidate(calls[x])'.enabled, calls'[x] = calls[x]
  PROVE  Candidate(calls[x]).enabled /\ SameWindow(Candidate(calls[x]), Candidate(calls[x])')
<1> DEFINE call == calls[x]
<1>1. RuleOK(call)
  BY DEF CatalogInv, CatalogTypeOK, CallOK
<1>2. CASE call.create
  <2> DEFINE n == Cardinality({s \in RuleIds : rules[s].lifecycle # "ABSENT"})
             row == NewRow(call.mapping, call.patch, n)
             next == NewRow(call.mapping, call.patch, n')
  <2>1. n \in Nat /\ n' \in Nat
    <3>1. IsFiniteSet(RuleIds)
      BY CatalogAssumption
    <3> QED BY <3>1, FS_Subset, FS_CardinalityType
  <2>2. Candidate(call) = row /\ Candidate(calls[x])' = next
    BY <1>2 DEF Candidate, NewRule, NewRow
  <2>3. call.mapping \in Mappings /\ call.patch \in Windows
    BY <1>1, <1>2 DEF RuleOK
  <2> HIDE DEF n
  <2>a. row = NewRow(call.mapping, call.patch, n) /\ next = NewRow(call.mapping, call.patch, n')
    OBVIOUS
  <2> HIDE DEF row, next, call
  <2>4. /\ row.enabled /\ row.priority = call.patch["priority"] /\ row.days = call.patch["days"]
        /\ row.start = call.patch["start"] /\ row.end = call.patch["end"]
        /\ row.from = call.patch["from"] /\ row.until = call.patch["until"]
    BY <2>1, <2>3, <2>a, RowOfWindow
  <2>5. /\ next.enabled /\ next.priority = call.patch["priority"] /\ next.days = call.patch["days"]
        /\ next.start = call.patch["start"] /\ next.end = call.patch["end"]
        /\ next.from = call.patch["from"] /\ next.until = call.patch["until"]
    BY <2>1, <2>3, <2>a, RowOfWindow
  <2> QED BY <2>2, <2>4, <2>5 DEF SameWindow, call
<1>3. CASE ~call.create
  <2>1. call.id \in RuleIds /\ Fits(call.patch, RuleInput)
    BY <1>1, <1>3, CatalogAssumption DEF RuleOK
  <2> DEFINE old == rules[call.id]
             new == rules'[call.id]
             row == Merge(old, call.patch)
             next == Merge(new, call.patch)
  <2>2. HasFields(old, RuleFields) /\ HasFields(new, RuleFields)
    BY <2>1, TableRow DEF CatalogInv, CatalogTypeOK, TablesTypeOK, TableOf
  <2>3. Candidate(call) = row /\ Candidate(calls[x])' = next
    BY <1>3 DEF Candidate
  <2>4. \/ new = old
        \/ new.enabled = FALSE /\ SameWindow(new, old)
    BY <1>3, <2>1
  <2> HIDE DEF old, new
  <2>5. next.enabled => row.enabled
    BY <2>1, <2>2, <2>4, RowOfPatch
  <2>6. SameWindow(row, next)
    BY <2>1, <2>2, <2>4, RowOfPatch DEF SameWindow
  <2> QED BY <2>3, <2>5, <2>6
<1> QED BY <1>2, <1>3

\* What was checked still holds when the rules of the mapping only wane.
LEMMA CheckKept ==
  ASSUME CatalogInv, TablesTypeOK', NEW x \in Calls, calls'[x] = calls[x],
         calls[x].op = "RULE", calls[x].checked,
         calls[x].create => rules[calls[x].id].lifecycle = "ABSENT",
         \/ rules'[calls[x].id] = rules[calls[x].id]
         \/ rules'[calls[x].id].enabled = FALSE /\ SameWindow(rules'[calls[x].id], rules[calls[x].id])
         \/ calls[x].create,
         \A r \in LiveRules(calls[x].mapping)' : r \in LiveRules(calls[x].mapping) /\ rules'[r] = rules[r],
         Candidate(calls[x])'.enabled
  PROVE  Conflicts(calls[x].mapping, calls[x].id, Candidate(calls[x]))' = {}
<1>1. RuleOK(calls[x])
  BY DEF CatalogInv, CatalogTypeOK, CallOK
<1>2. calls[x].id \in RuleIds /\ calls[x].mapping \in Mappings
  BY <1>1 DEF RuleOK
<1>3. Candidate(calls[x]).enabled /\ SameWindow(Candidate(calls[x]), Candidate(calls[x])')
  BY CandidateKept
<1>4. Conflicts(calls[x].mapping, calls[x].id, Candidate(calls[x])) = {}
  BY <1>3 DEF CatalogInv, ChecksHold
<1> DEFINE mine == Candidate(calls[x])
           next == Candidate(calls[x])'
<1>5. PICK b \in Mappings : b = calls[x].mapping
  BY <1>2
<1>6. \A r \in LiveRules(b)' : r \in LiveRules(b) /\ rules'[r] = rules[r]
  BY <1>5 DEF LiveRules, RulesOf
<1>7. ASSUME NEW s \in LiveRules(b)', s # calls[x].id,
             rules'[s].priority = next.priority, CostRulesOverlap(rules'[s], next)
      PROVE  FALSE
  <2>1. s \in LiveRules(b) /\ rules'[s] = rules[s] /\ rules[s].enabled
    BY <1>6, <1>7 DEF LiveRules
  <2>2. SameWindow(rules[s], rules[s])
    BY DEF SameWindow
  <2>3. SameWindow(next, mine)
    BY <1>3 DEF SameWindow
  <2> HIDE DEF mine, next
  <2>4. mine.enabled
    BY <1>3 DEF mine
  <2>5. CostRulesOverlap(rules[s], mine)
    BY <1>7, <2>1, <2>2, <2>3, <2>4, SameOverlap
  <2>6. rules[s].priority = mine.priority
    BY <1>7, <2>1, <2>3 DEF SameWindow
  <2>7. s \in Conflicts(calls[x].mapping, calls[x].id, mine)
    BY <1>5, <1>7, <2>1, <2>5, <2>6 DEF Conflicts
  <2> QED BY <1>4, <2>7 DEF mine
<1> QED BY <1>5, <1>7 DEF Conflicts

LEMMA RulesKept ==
  ASSUME CatalogInv, RowsKept, RulesWane, TablesTypeOK', NoNewCheck
  PROVE  CheckedOnce' /\ ChecksHold' /\ NoConflicts'
<1>1. ASSUME NEW b \in Mappings, NEW r \in LiveRules(b)'
      PROVE  r \in LiveRules(b) /\ r \in RuleIds /\ rules'[r] = rules[r]
  BY <1>1 DEF LiveRules, RulesOf, RulesWane
<1>2. CheckedOnce'
  BY DEF CatalogInv, CheckedOnce, NoNewCheck
<1>3. NoConflicts'
  BY <1>1 DEF CatalogInv, NoConflicts
<1>4. ChecksHold'
  <2> SUFFICES ASSUME NEW x \in Calls, calls'[x].op = "RULE", calls'[x].checked,
                      calls'[x].create => rules'[calls'[x].id].lifecycle = "ABSENT",
                      Candidate(calls[x])'.enabled
               PROVE  Conflicts(calls[x].mapping, calls[x].id, Candidate(calls[x]))' = {}
    BY DEF ChecksHold
  <2>1. calls'[x] = calls[x]
    BY DEF NoNewCheck
  <2>2. RuleOK(calls[x])
    BY <2>1 DEF CatalogInv, CatalogTypeOK, CallOK
  <2>3. calls[x].id \in RuleIds /\ calls[x].mapping \in Mappings
    BY <2>2 DEF RuleOK
  <2>4. calls[x].create => rules[calls[x].id].lifecycle = "ABSENT"
    BY <2>1, <2>3 DEF RowsKept
  <2>5. \A r \in LiveRules(calls[x].mapping)' : r \in LiveRules(calls[x].mapping) /\ rules'[r] = rules[r]
    <3>1. PICK b \in Mappings : b = calls[x].mapping
      BY <2>3
    <3>2. \A r \in LiveRules(b)' : r \in LiveRules(b) /\ rules'[r] = rules[r]
      BY <1>1
    <3> QED BY <2>1, <3>1, <3>2 DEF LiveRules, RulesOf
  <2>6. \/ rules'[calls[x].id] = rules[calls[x].id]
        \/ rules'[calls[x].id].enabled = FALSE /\ SameWindow(rules'[calls[x].id], rules[calls[x].id])
    BY <2>3 DEF RulesWane
  <2> QED BY <2>1, <2>4, <2>5, <2>6, CheckKept
<1> QED BY <1>2, <1>3, <1>4

\* Most steps.
LEMMA KeptInv ==
  ASSUME CatalogInv, CatalogKept, CallsGoOn
  PROVE  CatalogInv'
<1>1. NoNewCheck
  BY IdleCall DEF CallsGoOn, NoNewCheck
<1>2. CheckedOnce' /\ ChecksHold' /\ NoConflicts'
  BY <1>1, RulesKept DEF CatalogKept
<1>3. \A x \in Calls : CallOK(calls'[x]) /\ CallFollows(calls[x])' /\ CallParents(calls[x])'
  BY CallsKept DEF CatalogKept
<1>4. CatalogTypeOK'
  <2>1. (\A x \in Calls : CallOK(calls[x]))'
    BY <1>3 DEF CallOK
  <2> QED BY <2>1 DEF CatalogTypeOK, CatalogKept, CallsGoOn
<1>5. SeenInv'
  BY SeenKept DEF CatalogKept
<1> QED BY <1>2, <1>3, <1>4, <1>5 DEF CatalogInv, CatalogKept

-----------------------------------------------------------------------------
(* The steps.                                                              *)

LEMMA ParentsFollow ==
  ASSUME CatalogInv,
         \A c \in Channels : Live(channels[c]) => Live(channels'[c]),
         \A m \in Models : Live(models[m]) => Live(models'[m]),
         \A b \in Mappings : Live(mappings'[b]) /\ b \notin stale' =>
           /\ Live(mappings[b]) /\ b \notin stale
           /\ mappings'[b].channel = mappings[b].channel /\ mappings'[b].model = mappings[b].model
  PROVE  BindingsFollowParents' /\ ParentsKept
<1>1. ASSUME NEW b \in Mappings, Live(mappings'[b]), b \notin stale'
      PROVE  Live(channels'[mappings'[b].channel]) /\ Live(models'[mappings'[b].model])
  <2>1. ParentsLive(b) /\ mappings[b].lifecycle # "ABSENT"
    BY <1>1 DEF CatalogInv, BindingsFollowParents, Live
  <2>2. mappings[b].channel \in Channels /\ mappings[b].model \in Models
    BY <2>1 DEF CatalogInv, RowsMade
  <2> QED BY <1>1, <2>1, <2>2 DEF ParentsLive
<1> QED BY <1>1 DEF BindingsFollowParents, ParentsLive, ParentsKept, Live

LEMMA EndsGoOn ==
  ASSUME CatalogInv, NEW x \in Calls, Ends(x)
  PROVE  CallsGoOn
BY DEF CatalogInv, CatalogTypeOK, Ends, CallsGoOn

\* An insert or a write of one table.
LEMMA ResultFits ==
  ASSUME NEW call, NEW row, NEW fields, HasFields(row, fields),
         \/ call.op = "INSERT" /\ HasFields(call.row, fields)
         \/ call.op = "WRITE" /\ Fits(call.patch, fields)
  PROVE  HasFields(Result(call, row), fields)
BY MergeFields DEF Result

LEMMA UnlockedCall ==
  ASSUME CatalogInv, NEW x \in Calls, FinishUnlocked(x)
  PROVE  LET call == calls[x]
         IN \/ call.op = "INSERT" /\ InsertOK(call) /\ ~Violates(call)
            \/ call.op = "WRITE" /\ WriteOK(call) /\ CallFollows(call)
BY DEF FinishUnlocked, CatalogInv, CatalogTypeOK, CallOK

LEMMA UnlockedChannel ==
  ASSUME CatalogInv, NEW x \in Calls, FinishUnlocked(x), calls[x].table = "channels"
  PROVE  CatalogKept
<1> DEFINE call == calls[x]
           row == Result(call, channels[call.id])
<1>1. /\ channels' = [channels EXCEPT ![call.id] = row]
      /\ UNCHANGED <<upstreamKeys, models, mappings, rules, prices, stale>>
  BY DEF FinishUnlocked
<1>2. /\ call.id \in Channels
      /\ \/ call.op = "INSERT" /\ HasFields(call.row, ChannelFields) /\ call.row.lifecycle = "ACTIVE"
         \/ call.op = "WRITE" /\ Fits(call.patch, ChannelFields) /\ Revives(call.patch)
  BY UnlockedCall DEF InsertOK, Adds, WriteOK, Changes
<1>3. HasFields(channels[call.id], ChannelFields)
  BY <1>2, TableRow DEF CatalogInv, CatalogTypeOK, TablesTypeOK
<1>4. HasFields(row, ChannelFields)
  BY <1>2, <1>3, ResultFits
<1>5. Live(channels[call.id]) => Live(row)
  BY <1>2, <1>3, MergeField, ChannelColumns DEF Live, Result, Revives
<1> HIDE DEF call, row
<1>6. TablesTypeOK'
  <2>1. TableOf(channels', Channels, ChannelFields)
    BY <1>1, <1>2, <1>4, TableExcept DEF CatalogInv, CatalogTypeOK, TablesTypeOK
  <2> QED BY <1>1, <2>1 DEF CatalogInv, CatalogTypeOK, TablesTypeOK
<1>7. \A c \in Channels : Live(channels[c]) => Live(channels'[c])
  <2>1. \A c \in Channels : channels'[c] = IF c = call.id THEN row ELSE channels[c]
    BY <1>1 DEF CatalogInv, CatalogTypeOK, TablesTypeOK, TableOf
  <2> QED BY <1>5, <2>1
<1>8. BindingsFollowParents' /\ ParentsKept
  BY <1>1, <1>7, ParentsFollow
<1>9. RowsMade' /\ RowsKept /\ RulesWane
  BY <1>1 DEF CatalogInv, RowsMade, RowsKept, RulesWane
<1> QED BY <1>6, <1>8, <1>9 DEF CatalogKept

LEMMA UnlockedModel ==
  ASSUME CatalogInv, NEW x \in Calls, FinishUnlocked(x), calls[x].table = "models"
  PROVE  CatalogKept
<1> DEFINE call == calls[x]
           row == Result(call, models[call.id])
<1>1. /\ models' = [models EXCEPT ![call.id] = row]
      /\ UNCHANGED <<upstreamKeys, channels, mappings, rules, prices, stale>>
  BY DEF FinishUnlocked
<1>2. /\ call.id \in Models
      /\ \/ call.op = "INSERT" /\ HasFields(call.row, ModelFields) /\ call.row.lifecycle = "ACTIVE"
         \/ call.op = "WRITE" /\ Fits(call.patch, ModelFields) /\ Revives(call.patch)
  BY UnlockedCall DEF InsertOK, Adds, WriteOK, Changes
<1>3. HasFields(models[call.id], ModelFields)
  BY <1>2, TableRow DEF CatalogInv, CatalogTypeOK, TablesTypeOK
<1>4. HasFields(row, ModelFields)
  BY <1>2, <1>3, ResultFits
<1>5. Live(models[call.id]) => Live(row)
  BY <1>2, <1>3, MergeField, ModelColumns DEF Live, Result, Revives
<1> HIDE DEF call, row
<1>6. TablesTypeOK'
  <2>1. TableOf(models', Models, ModelFields)
    BY <1>1, <1>2, <1>4, TableExcept DEF CatalogInv, CatalogTypeOK, TablesTypeOK
  <2> QED BY <1>1, <2>1 DEF CatalogInv, CatalogTypeOK, TablesTypeOK
<1>7. \A m \in Models : Live(models[m]) => Live(models'[m])
  <2>1. \A m \in Models : models'[m] = IF m = call.id THEN row ELSE models[m]
    BY <1>1 DEF CatalogInv, CatalogTypeOK, TablesTypeOK, TableOf
  <2> QED BY <1>5, <2>1
<1>8. BindingsFollowParents' /\ ParentsKept
  BY <1>1, <1>7, ParentsFollow
<1>9. RowsMade' /\ RowsKept /\ RulesWane
  BY <1>1 DEF CatalogInv, RowsMade, RowsKept, RulesWane
<1> QED BY <1>6, <1>8, <1>9 DEF CatalogKept

LEMMA UnlockedKey ==
  ASSUME CatalogInv, NEW x \in Calls, FinishUnlocked(x), calls[x].table = "upstreamKeys"
  PROVE  CatalogKept
<1> DEFINE call == calls[x]
           row == Result(call, upstreamKeys[call.id])
<1>1. /\ upstreamKeys' = [upstreamKeys EXCEPT ![call.id] = row]
      /\ UNCHANGED <<channels, models, mappings, rules, prices, stale>>
  BY DEF FinishUnlocked
<1>2. /\ call.id \in ChannelKeys
      /\ \/ call.op = "INSERT" /\ HasFields(call.row, KeyFields) /\ call.row.lifecycle = "ACTIVE"
         \/ /\ call.op = "WRITE" /\ Fits(call.patch, KeyFields)
            /\ "lifecycle" \in DOMAIN call.patch => call.patch["lifecycle"] # "ABSENT"
  BY UnlockedCall DEF InsertOK, Adds, WriteOK, Changes
<1>3. HasFields(upstreamKeys[call.id], KeyFields)
  BY <1>2, TableRow DEF CatalogInv, CatalogTypeOK, TablesTypeOK
<1>4. HasFields(row, KeyFields)
  BY <1>2, <1>3, ResultFits
<1>5. upstreamKeys[call.id].lifecycle # "ABSENT" => row.lifecycle # "ABSENT"
  BY <1>2, <1>3, MergeField, KeyColumns DEF Result
<1> HIDE DEF call, row
<1>6. TablesTypeOK'
  <2>1. TableOf(upstreamKeys', ChannelKeys, KeyFields)
    BY <1>1, <1>2, <1>4, TableExcept DEF CatalogInv, CatalogTypeOK, TablesTypeOK
  <2> QED BY <1>1, <2>1 DEF CatalogInv, CatalogTypeOK, TablesTypeOK
<1>7. \A k \in ChannelKeys : upstreamKeys'[k] = IF k = call.id THEN row ELSE upstreamKeys[k]
  BY <1>1 DEF CatalogInv, CatalogTypeOK, TablesTypeOK, TableOf
<1>8. BindingsFollowParents' /\ ParentsKept
  BY <1>1, ParentsFollow
<1>9. RowsMade' /\ RowsKept /\ RulesWane
  BY <1>1, <1>5, <1>7 DEF CatalogInv, RowsMade, RowsKept, RulesWane
<1> QED BY <1>6, <1>8, <1>9 DEF CatalogKept

LEMMA UnlockedPrice ==
  ASSUME CatalogInv, NEW x \in Calls, FinishUnlocked(x), calls[x].table = "prices"
  PROVE  CatalogKept
<1> DEFINE call == calls[x]
           row == Result(call, prices[call.id])
<1>1. /\ prices' = [prices EXCEPT ![call.id] = row]
      /\ UNCHANGED <<channels, models, mappings, rules, upstreamKeys, stale>>
  BY DEF FinishUnlocked
<1>2. /\ call.id \in Prices
      /\ \/ call.op = "INSERT" /\ HasFields(call.row, PriceFields)
         \/ call.op = "WRITE" /\ Fits(call.patch, PriceFields)
  BY UnlockedCall DEF InsertOK, Adds, WriteOK, Changes
<1>3. HasFields(prices[call.id], PriceFields)
  BY <1>2, TableRow DEF CatalogInv, CatalogTypeOK, TablesTypeOK
<1>4. HasFields(row, PriceFields)
  BY <1>2, <1>3, ResultFits
<1> HIDE DEF call, row
<1>6. TablesTypeOK'
  <2>1. TableOf(prices', Prices, PriceFields)
    BY <1>1, <1>2, <1>4, TableExcept DEF CatalogInv, CatalogTypeOK, TablesTypeOK
  <2> QED BY <1>1, <2>1 DEF CatalogInv, CatalogTypeOK, TablesTypeOK
<1>8. BindingsFollowParents' /\ ParentsKept
  BY <1>1, ParentsFollow
<1>9. RowsMade' /\ RowsKept /\ RulesWane
  BY <1>1 DEF CatalogInv, RowsMade, RowsKept, RulesWane
<1> QED BY <1>6, <1>8, <1>9 DEF CatalogKept

\* A rule that is archived or restored is disabled.
LEMMA UnlockedRule ==
  ASSUME CatalogInv, NEW x \in Calls, FinishUnlocked(x), calls[x].table = "rules"
  PROVE  CatalogKept
<1> DEFINE call == calls[x]
           row == Result(call, rules[call.id])
<1>1. /\ rules' = [rules EXCEPT ![call.id] = row]
      /\ UNCHANGED <<channels, models, mappings, prices, upstreamKeys, stale>>
  BY DEF FinishUnlocked
<1>2. /\ call.id \in RuleIds /\ call.op = "WRITE" /\ Fits(call.patch, RuleFields)
      /\ "lifecycle" \in DOMAIN call.patch => call.patch["lifecycle"] # "ABSENT"
      /\ DOMAIN call.patch = {"lifecycle", "enabled"} /\ call.patch["enabled"] = FALSE
      /\ rules[call.id].lifecycle # "ABSENT"
  BY UnlockedCall DEF InsertOK, Adds, WriteOK, Changes, CallFollows
<1>3. HasFields(rules[call.id], RuleFields)
  BY <1>2, TableRow DEF CatalogInv, CatalogTypeOK, TablesTypeOK
<1>4. HasFields(row, RuleFields)
  BY <1>2, <1>3, ResultFits
<1>5. /\ row.lifecycle # "ABSENT" /\ row.enabled = FALSE /\ row.mapping = rules[call.id].mapping
      /\ SameWindow(row, rules[call.id])
  BY <1>2, <1>3, MergeField, RuleColumns DEF Result, SameWindow
<1> HIDE DEF call, row
<1>6. TablesTypeOK'
  <2>1. TableOf(rules', RuleIds, RuleFields)
    BY <1>1, <1>2, <1>4, TableExcept DEF CatalogInv, CatalogTypeOK, TablesTypeOK
  <2> QED BY <1>1, <2>1 DEF CatalogInv, CatalogTypeOK, TablesTypeOK
<1>7. \A r \in RuleIds : rules'[r] = IF r = call.id THEN row ELSE rules[r]
  BY <1>1 DEF CatalogInv, CatalogTypeOK, TablesTypeOK, TableOf
<1>8. BindingsFollowParents' /\ ParentsKept
  BY <1>1, ParentsFollow
<1>9. RowsMade' /\ RowsKept /\ RulesWane
  <2>1. row.days = rules[call.id].days
    BY <1>5 DEF SameWindow
  <2> QED BY <1>1, <1>2, <1>5, <1>7, <2>1 DEF CatalogInv, RowsMade, RowsKept, RulesWane
<1> QED BY <1>6, <1>8, <1>9 DEF CatalogKept

\* A mapping that is revived under an archived parent is remembered.
LEMMA UnlockedMapping ==
  ASSUME CatalogInv, NEW x \in Calls, FinishUnlocked(x), calls[x].table = "mappings"
  PROVE  CatalogKept
<1> DEFINE call == calls[x]
           b == call.id
           row == Result(call, mappings[b])
           revived == Live(mappings'[b]) /\ ~Live(mappings[b])
           orphan == \/ ~Live(channels[mappings'[b].channel])
                     \/ ~Live(models[mappings'[b].model])
<1>1. /\ mappings' = [mappings EXCEPT ![b] = row]
      /\ UNCHANGED <<channels, models, rules, prices, upstreamKeys>>
      /\ stale' = IF revived /\ orphan /\ x \in overtaken THEN stale \cup {b} ELSE stale
      /\ call.op \in {"INSERT", "WRITE"} /\ call.table = "mappings"
  BY DEF FinishUnlocked
<1>2. /\ b \in Mappings
      /\ \/ /\ call.op = "INSERT" /\ HasFields(call.row, MappingFields) /\ call.row.lifecycle = "ACTIVE"
            /\ call.row.channel \in Channels /\ call.row.model \in Models
            /\ mappings[b].lifecycle = "ABSENT"
         \/ /\ call.op = "WRITE" /\ Fits(call.patch, MappingFields)
            /\ "lifecycle" \in DOMAIN call.patch => call.patch["lifecycle"] # "ABSENT"
            /\ DOMAIN call.patch \cap {"channel", "model", "failures", "tested"} = {}
            /\ mappings[b].lifecycle # "ABSENT"
  BY UnlockedCall DEF InsertOK, Adds, WriteOK, Changes, CallFollows, Violates
<1>3. HasFields(mappings[b], MappingFields)
  BY <1>2, TableRow DEF CatalogInv, CatalogTypeOK, TablesTypeOK
<1>4. HasFields(row, MappingFields)
  BY <1>2, <1>3, ResultFits
<1>5. /\ row.lifecycle # "ABSENT"
      /\ \/ mappings[b].lifecycle = "ABSENT" /\ row.channel \in Channels /\ row.model \in Models
         \/ /\ mappings[b].lifecycle # "ABSENT"
            /\ row.channel = mappings[b].channel /\ row.model = mappings[b].model
  BY <1>2, <1>3, MergeField, MappingColumns DEF Result
<1>6. \A a \in Mappings : mappings'[a] = IF a = b THEN row ELSE mappings[a]
  BY <1>1 DEF CatalogInv, CatalogTypeOK, TablesTypeOK, TableOf
\* What it brings into use it has seen.
<1>14. Live(row) /\ ~Live(mappings[b]) =>
         BringsIn(call) /\ row.channel = RowOf(call).channel /\ row.model = RowOf(call).model
  <2>1. CASE call.op = "INSERT"
    BY <1>1, <2>1 DEF BringsIn, RowOf, Result
  <2>2. CASE call.op = "WRITE"
    <3>1. RowOf(call) = mappings[b] /\ row = Merge(mappings[b], call.patch)
      BY <2>2 DEF RowOf, Result
    <3>2. row.channel = mappings[b].channel /\ row.model = mappings[b].model
      BY <1>2, <1>3, <2>2, <3>1, MergeField, MappingColumns
    <3>3. "lifecycle" \in DOMAIN call.patch \/ row.lifecycle = mappings[b].lifecycle
      BY <1>3, <3>1, MergeField, MappingColumns
    <3> QED BY <1>1, <2>2, <3>1, <3>2, <3>3 DEF BringsIn, Live
  <2> QED BY <1>1, <2>1, <2>2
<1> HIDE DEF call, row
<1>7. TablesTypeOK'
  <2>1. TableOf(mappings', Mappings, MappingFields)
    BY <1>1, <1>2, <1>4, TableExcept DEF CatalogInv, CatalogTypeOK, TablesTypeOK
  <2> QED BY <1>1, <2>1 DEF CatalogInv, CatalogTypeOK, TablesTypeOK
<1>8. BindingsFollowParents'
  <2> SUFFICES ASSUME NEW a \in Mappings, Live(mappings'[a]), a \notin stale'
               PROVE  Live(channels[mappings'[a].channel]) /\ Live(models[mappings'[a].model])
    BY <1>1 DEF BindingsFollowParents, ParentsLive, Live
  <2>1. a \notin stale
    BY <1>1
  <2>2. CASE a # b
    BY <1>6, <2>1, <2>2 DEF CatalogInv, BindingsFollowParents, ParentsLive
  <2>3. CASE a = b /\ Live(mappings[b])
    BY <1>5, <1>6, <2>1, <2>3 DEF CatalogInv, BindingsFollowParents, ParentsLive, Live
  <2>4. CASE a = b /\ ~Live(mappings[b])
    <3>1. CASE x \in overtaken
      BY <1>1, <2>4, <3>1
    <3>2. CASE x \notin overtaken
      <4>1. CallSeen(call) /\ BringsIn(call)
        BY <1>6, <1>14, <2>4, <3>2 DEF CatalogInv, SeenInv, call
      <4> QED BY <1>6, <1>14, <2>4, <4>1 DEF CallSeen
    <3> QED BY <3>1, <3>2
  <2> QED BY <2>2, <2>3, <2>4
<1>9. ParentsKept
  BY <1>1 DEF ParentsKept
<1>10. RowsKept /\ RulesWane
  BY <1>1, <1>5, <1>6 DEF RowsKept, RulesWane
<1>11. RowsMade'
  BY <1>1, <1>2, <1>5, <1>6 DEF CatalogInv, RowsMade
<1> QED BY <1>7, <1>8, <1>9, <1>10, <1>11 DEF CatalogKept

LEMMA UnlockedKept ==
  ASSUME CatalogInv, NEW x \in Calls, FinishUnlocked(x)
  PROVE  CatalogKept /\ CallsGoOn
<1>1. Ends(x)
  BY DEF FinishUnlocked
<1>2. calls[x].table \in {"channels", "upstreamKeys", "models", "mappings", "rules", "prices"}
  BY UnlockedCall DEF InsertOK, Adds, WriteOK, Changes
<1> QED BY <1>1, <1>2, EndsGoOn, UnlockedChannel, UnlockedKey, UnlockedModel, UnlockedMapping,
           UnlockedRule, UnlockedPrice

\* What archiving makes of a row.
LEMMA ArchivedFits ==
  /\ Fits(Archived, RuleFields) /\ Fits(Archived, PriceFields) /\ Fits(Archived, ModelFields)
  /\ DOMAIN Archived = {"lifecycle", "enabled"}
  /\ Archived["lifecycle"] = "ARCHIVED" /\ Archived["enabled"] = FALSE
<1>1. /\ DOMAIN Archived = {"lifecycle", "enabled"}
      /\ Archived["lifecycle"] = "ARCHIVED" /\ Archived["enabled"] = FALSE
  BY DEF Archived
<1> QED BY <1>1, RuleColumns, PriceColumns, ModelColumns DEF Fits, Lifecycles

LEMMA ArchivedRule ==
  ASSUME NEW rule, HasFields(rule, RuleFields), NEW row, row = Merge(rule, Archived)
  PROVE  /\ HasFields(row, RuleFields) /\ row.lifecycle = "ARCHIVED" /\ row.enabled = FALSE
         /\ row.mapping = rule.mapping /\ SameWindow(row, rule)
<1>1. HasFields(row, RuleFields)
  BY ArchivedFits, MergeFields
<1> QED BY <1>1, ArchivedFits, MergeField, RuleColumns DEF SameWindow

LEMMA ArchivedMappingRow ==
  ASSUME NEW mapping, HasFields(mapping, MappingFields), NEW row, row = ArchivedMapping(mapping)
  PROVE  /\ HasFields(row, MappingFields) /\ row.lifecycle = "ARCHIVED"
         /\ row.channel = mapping.channel /\ row.model = mapping.model
         /\ row.failures = mapping.failures /\ row.tested = mapping.tested
<1>1. PICK patch : patch = [lifecycle |-> "ARCHIVED", enabled |-> FALSE, probed |-> FALSE,
                            health |-> "DISABLED"]
  OBVIOUS
<1>2. /\ DOMAIN patch = {"lifecycle", "enabled", "probed", "health"}
      /\ patch["lifecycle"] = "ARCHIVED" /\ patch["enabled"] = FALSE
      /\ patch["probed"] = FALSE /\ patch["health"] = "DISABLED"
  BY <1>1
<1>3. row = Merge(mapping, patch)
  BY <1>1 DEF ArchivedMapping
<1>4. Fits(patch, MappingFields)
  BY <1>2, MappingColumns DEF Fits, Lifecycles, Healths
<1>5. HasFields(row, MappingFields)
  BY <1>3, <1>4, MergeFields
<1>6. row.lifecycle = "ARCHIVED"
  BY <1>2, <1>3, MergeField, MappingColumns
<1>7. /\ row.channel = mapping.channel /\ row.model = mapping.model
      /\ row.failures = mapping.failures /\ row.tested = mapping.tested
  BY <1>2, <1>3, MergeField, MappingColumns
<1> QED BY <1>5, <1>6, <1>7

\* Tables in which some rules, or some mappings, are archived.
RulesArchived(S) ==
  /\ S \subseteq RuleIds
  /\ rules' = [r \in RuleIds |-> IF r \in S THEN Merge(rules[r], Archived) ELSE rules[r]]

MappingsArchived(S) ==
  /\ S \subseteq Mappings
  /\ mappings' = [b \in Mappings |-> IF b \in S THEN ArchivedMapping(mappings[b]) ELSE mappings[b]]

LEMMA ArchivedRules ==
  ASSUME CatalogInv, NEW S, RulesArchived(S), \A r \in S : rules[r].lifecycle # "ABSENT"
  PROVE  /\ TableOf(rules', RuleIds, RuleFields)
         /\ RulesWane
         /\ \A r \in RuleIds :
              /\ rules[r].lifecycle # "ABSENT" <=> rules'[r].lifecycle # "ABSENT"
              /\ rules'[r].mapping = rules[r].mapping /\ rules'[r].days = rules[r].days
<1>1. \A r \in RuleIds : HasFields(rules[r], RuleFields)
  BY TableRow DEF CatalogInv, CatalogTypeOK, TablesTypeOK
<1>2. \A r \in RuleIds : rules'[r] = IF r \in S THEN Merge(rules[r], Archived) ELSE rules[r]
  BY DEF RulesArchived
<1>3. \A r \in RuleIds : r \in S =>
        /\ HasFields(rules'[r], RuleFields) /\ rules'[r].lifecycle = "ARCHIVED"
        /\ rules'[r].enabled = FALSE /\ rules'[r].mapping = rules[r].mapping
        /\ SameWindow(rules'[r], rules[r])
  BY <1>1, <1>2, ArchivedRule
<1>4. TableOf(rules', RuleIds, RuleFields)
  <2>1. rules' = [r \in RuleIds |-> rules'[r]]
    BY DEF RulesArchived
  <2> QED BY <1>1, <1>2, <1>3, <2>1, TableMapped
<1>5. RulesWane
  BY <1>2, <1>3 DEF RulesWane
<1>6. \A r \in RuleIds :
        /\ rules[r].lifecycle # "ABSENT" <=> rules'[r].lifecycle # "ABSENT"
        /\ rules'[r].mapping = rules[r].mapping /\ rules'[r].days = rules[r].days
  BY <1>2, <1>3 DEF SameWindow
<1> QED BY <1>4, <1>5, <1>6

LEMMA ArchivedMappings ==
  ASSUME CatalogInv, NEW S, MappingsArchived(S), \A b \in S : mappings[b].lifecycle # "ABSENT"
  PROVE  /\ TableOf(mappings', Mappings, MappingFields)
         /\ \A b \in Mappings :
              /\ mappings[b].lifecycle # "ABSENT" <=> mappings'[b].lifecycle # "ABSENT"
              /\ mappings'[b].channel = mappings[b].channel /\ mappings'[b].model = mappings[b].model
              /\ mappings'[b].failures = mappings[b].failures
              /\ mappings'[b].tested = mappings[b].tested
              /\ Live(mappings'[b]) => Live(mappings[b]) /\ b \notin S
<1>1. \A b \in Mappings : HasFields(mappings[b], MappingFields)
  BY TableRow DEF CatalogInv, CatalogTypeOK, TablesTypeOK
<1>2. \A b \in Mappings : mappings'[b] = IF b \in S THEN ArchivedMapping(mappings[b]) ELSE mappings[b]
  BY DEF MappingsArchived
<1>3. \A b \in Mappings : b \in S =>
        /\ HasFields(mappings'[b], MappingFields) /\ mappings'[b].lifecycle = "ARCHIVED"
        /\ mappings'[b].channel = mappings[b].channel /\ mappings'[b].model = mappings[b].model
        /\ mappings'[b].failures = mappings[b].failures /\ mappings'[b].tested = mappings[b].tested
  BY <1>1, <1>2, ArchivedMappingRow
<1>4. TableOf(mappings', Mappings, MappingFields)
  <2>1. mappings' = [b \in Mappings |-> mappings'[b]]
    BY DEF MappingsArchived
  <2> QED BY <1>1, <1>2, <1>3, <2>1, TableMapped
<1>5. ASSUME NEW b \in Mappings
      PROVE  /\ mappings[b].lifecycle # "ABSENT" <=> mappings'[b].lifecycle # "ABSENT"
             /\ mappings'[b].channel = mappings[b].channel /\ mappings'[b].model = mappings[b].model
             /\ mappings'[b].failures = mappings[b].failures
             /\ mappings'[b].tested = mappings[b].tested
             /\ Live(mappings'[b]) => Live(mappings[b]) /\ b \notin S
  BY <1>2, <1>3 DEF Live
<1> QED BY <1>4, <1>5

\* Archiving: the parents that go are those of archived mappings.
LEMMA ArchivingKept ==
  ASSUME CatalogInv, NEW B, NEW R, MappingsArchived(B), RulesArchived(R), stale' = stale \ B,
         \A b \in B : mappings[b].lifecycle # "ABSENT",
         \A r \in R : rules[r].lifecycle # "ABSENT",
         TableOf(channels', Channels, ChannelFields), TableOf(models', Models, ModelFields),
         TableOf(upstreamKeys', ChannelKeys, KeyFields), TableOf(prices', Prices, PriceFields),
         \A k \in ChannelKeys : upstreamKeys[k].lifecycle # "ABSENT" => upstreamKeys'[k].lifecycle # "ABSENT",
         \A c \in Channels : Live(channels[c]) =>
           \/ Live(channels'[c])
           \/ /\ LockFree("channel", c) /\ Under("channel", c) \subseteq overtaken'
              /\ \A b \in Mappings : mappings[b].channel = c => b \in B,
         \A m \in Models : Live(models[m]) =>
           \/ Live(models'[m])
           \/ /\ LockFree("model", m) /\ Under("model", m) \subseteq overtaken'
              /\ \A b \in Mappings : mappings[b].model = m => b \in B
  PROVE  CatalogKept
<1>1. /\ TableOf(mappings', Mappings, MappingFields)
      /\ \A b \in Mappings :
           /\ mappings[b].lifecycle # "ABSENT" <=> mappings'[b].lifecycle # "ABSENT"
           /\ mappings'[b].channel = mappings[b].channel /\ mappings'[b].model = mappings[b].model
           /\ mappings'[b].failures = mappings[b].failures /\ mappings'[b].tested = mappings[b].tested
           /\ Live(mappings'[b]) => Live(mappings[b]) /\ b \notin B
  BY ArchivedMappings
<1>2. /\ TableOf(rules', RuleIds, RuleFields)
      /\ RulesWane
      /\ \A r \in RuleIds :
           /\ rules[r].lifecycle # "ABSENT" <=> rules'[r].lifecycle # "ABSENT"
           /\ rules'[r].mapping = rules[r].mapping /\ rules'[r].days = rules[r].days
  BY ArchivedRules
<1>3. TablesTypeOK'
  BY <1>1, <1>2 DEF TablesTypeOK
<1>4. RowsMade'
  BY <1>1, <1>2 DEF CatalogInv, RowsMade
<1>5. RowsKept
  BY <1>1, <1>2 DEF RowsKept
<1>6. ParentsKept
  BY DEF ParentsKept
<1>7. BindingsFollowParents'
  <2> SUFFICES ASSUME NEW b \in Mappings, Live(mappings'[b]), b \notin stale'
               PROVE  Live(channels'[mappings'[b].channel]) /\ Live(models'[mappings'[b].model])
    BY DEF BindingsFollowParents, ParentsLive, Live
  <2>1. Live(mappings[b]) /\ b \notin B /\ b \notin stale
    BY <1>1
  <2>2. Live(channels[mappings[b].channel]) /\ Live(models[mappings[b].model])
    BY <2>1 DEF CatalogInv, BindingsFollowParents, ParentsLive
  <2>3. mappings[b].channel \in Channels /\ mappings[b].model \in Models
    BY <2>1 DEF CatalogInv, RowsMade, Live
  <2> QED BY <1>1, <2>1, <2>2, <2>3
<1> QED BY <1>2, <1>3, <1>4, <1>5, <1>6, <1>7 DEF CatalogKept

LEMMA FinishArchiveKept ==
  ASSUME CatalogInv, NEW x \in Calls, FinishArchive(x)
  PROVE  CatalogKept /\ CallsGoOn
<1> DEFINE b == calls[x].id
           R == {r \in RuleIds : rules[r].mapping = b /\ Live(rules[r])}
<1>1. b \in Mappings /\ mappings[b].lifecycle # "ABSENT"
  BY DEF FinishArchive, CatalogInv, CatalogTypeOK, CallOK, CallFollows
<1>2. MappingsArchived({b})
  BY <1>1 DEF FinishArchive, MappingsArchived, CatalogInv, CatalogTypeOK, TablesTypeOK, TableOf
<1>3. RulesArchived(R)
  BY DEF FinishArchive, RulesArchived
<1>4. stale' = stale \ {b} /\ UNCHANGED <<channels, upstreamKeys, models, prices>> /\ Ends(x)
  BY DEF FinishArchive
<1>5. /\ \A r \in R : rules[r].lifecycle # "ABSENT"
      /\ \A a \in {b} : mappings[a].lifecycle # "ABSENT"
  BY <1>1 DEF Live
<1>6. /\ TableOf(channels', Channels, ChannelFields) /\ TableOf(models', Models, ModelFields)
      /\ TableOf(upstreamKeys', ChannelKeys, KeyFields) /\ TableOf(prices', Prices, PriceFields)
  BY <1>4 DEF CatalogInv, CatalogTypeOK, TablesTypeOK
<1> HIDE DEF b, R
<1>7. CatalogKept
  BY <1>2, <1>3, <1>4, <1>5, <1>6, ArchivingKept
<1> QED BY <1>4, <1>7, EndsGoOn

LEMMA ArchivedTable ==
  ASSUME NEW ids, NEW fields, NEW rows, NEW next, TableOf(rows, ids, fields), NEW patch,
         Fits(patch, fields), next = [i \in ids |-> next[i]],
         \A i \in ids : next[i] = rows[i] \/ next[i] = Merge(rows[i], patch)
  PROVE  TableOf(next, ids, fields)
<1>1. \A i \in ids : HasFields(next[i], fields)
  BY TableRow, MergeFields
<1> QED BY <1>1, TableMapped

LEMMA ArchiveChannelKept ==
  ASSUME CatalogInv, NEW c \in Channels, ArchiveChannel(c)
  PROVE  CatalogKept /\ CallsGoOn
<1> DEFINE B == {b \in Mappings : mappings[b].channel = c}
           R == {r \in RuleIds : rules[r].mapping \in B}
<1>1. MappingsArchived(B) /\ RulesArchived(R) /\ stale' = stale \ B
  BY DEF ArchiveChannel, ArchiveMappings, MappingsArchived, RulesArchived
<1>2. \A b \in B : mappings[b].lifecycle # "ABSENT"
  BY CatalogAssumption DEF CatalogInv, RowsMade
<1>3. \A r \in R : rules[r].lifecycle # "ABSENT"
  BY CatalogAssumption DEF CatalogInv, RowsMade
<1>4. PICK patch : patch = [lifecycle |-> "ARCHIVED", enabled |-> FALSE, health |-> "DISABLED",
                            open |-> FALSE]
  OBVIOUS
<1>5. PICK kpatch : kpatch = [lifecycle |-> "ARCHIVED", enabled |-> FALSE, health |-> "DISABLED",
                              isolated |-> FALSE]
  OBVIOUS
<1>6. Fits(patch, ChannelFields)
  <2>1. /\ DOMAIN patch = {"lifecycle", "enabled", "health", "open"}
        /\ patch["lifecycle"] = "ARCHIVED" /\ patch["enabled"] = FALSE
        /\ patch["health"] = "DISABLED" /\ patch["open"] = FALSE
    BY <1>4
  <2> QED BY <2>1, ChannelColumns DEF Fits, Lifecycles, Healths
<1>7. Fits(kpatch, KeyFields) /\ kpatch["lifecycle"] = "ARCHIVED" /\ "lifecycle" \in DOMAIN kpatch
  <2>1. /\ DOMAIN kpatch = {"lifecycle", "enabled", "health", "isolated"}
        /\ kpatch["lifecycle"] = "ARCHIVED" /\ kpatch["enabled"] = FALSE
        /\ kpatch["health"] = "DISABLED" /\ kpatch["isolated"] = FALSE
    BY <1>5
  <2> QED BY <2>1, KeyColumns DEF Fits, Lifecycles, Healths
<1>8. /\ channels' = [channels EXCEPT ![c] = Merge(@, patch)]
      /\ upstreamKeys' = [k \in ChannelKeys |-> IF upstreamKeys[k].channel # c THEN upstreamKeys[k]
                                                ELSE Merge(upstreamKeys[k], kpatch)]
      /\ LockFree("channel", c) /\ UNCHANGED <<models, prices, calls>>
      /\ overtaken' = overtaken \cup Under("channel", c)
  BY <1>4, <1>5 DEF ArchiveChannel
<1>9. TablesTypeOK
  BY DEF CatalogInv, CatalogTypeOK
<1>10. TableOf(channels', Channels, ChannelFields) /\ \A d \in Channels : d # c => channels'[d] = channels[d]
  <2>1. HasFields(Merge(channels[c], patch), ChannelFields)
    BY <1>6, <1>9, TableRow, MergeFields DEF TablesTypeOK
  <2>2. channels' = [channels EXCEPT ![c] = Merge(channels[c], patch)]
    BY <1>8
  <2> QED BY <1>9, <2>1, <2>2, TableExcept DEF TablesTypeOK, TableOf
<1>11. TableOf(upstreamKeys', ChannelKeys, KeyFields)
  <2>1. /\ upstreamKeys' = [k \in ChannelKeys |-> upstreamKeys'[k]]
        /\ \A k \in ChannelKeys : upstreamKeys'[k] = upstreamKeys[k] \/ upstreamKeys'[k] = Merge(upstreamKeys[k], kpatch)
    BY <1>8
  <2> QED BY <1>7, <1>9, <2>1, ArchivedTable DEF TablesTypeOK
<1>12. \A k \in ChannelKeys : upstreamKeys[k].lifecycle # "ABSENT" => upstreamKeys'[k].lifecycle # "ABSENT"
  <2>1. \A k \in ChannelKeys : HasFields(upstreamKeys[k], KeyFields)
    BY <1>9, TableRow DEF TablesTypeOK
  <2>2. \A k \in ChannelKeys : Merge(upstreamKeys[k], kpatch).lifecycle = "ARCHIVED"
    BY <1>7, <2>1, MergeField, KeyColumns
  <2> QED BY <1>8, <2>2
<1>13. TableOf(models', Models, ModelFields) /\ TableOf(prices', Prices, PriceFields)
  BY <1>8, <1>9 DEF TablesTypeOK
<1>14. /\ \A d \in Channels : Live(channels[d]) =>
            \/ Live(channels'[d])
            \/ /\ LockFree("channel", d) /\ Under("channel", d) \subseteq overtaken'
               /\ \A b \in Mappings : mappings[b].channel = d => b \in B
       /\ \A m \in Models : Live(models[m]) => Live(models'[m])
  BY <1>8, <1>10
<1> HIDE DEF B, R
<1>15. CatalogKept
  BY <1>1, <1>2, <1>3, <1>10, <1>11, <1>12, <1>13, <1>14, ArchivingKept
<1>16. CallsGoOn
  BY <1>8 DEF CallsGoOn, CatalogInv, CatalogTypeOK
<1> QED BY <1>15, <1>16

LEMMA ArchiveModelKept ==
  ASSUME CatalogInv, NEW m \in Models, ArchiveModel(m)
  PROVE  CatalogKept /\ CallsGoOn
<1> DEFINE B == {b \in Mappings : mappings[b].model = m}
           R == {r \in RuleIds : rules[r].mapping \in B}
<1>1. MappingsArchived(B) /\ RulesArchived(R) /\ stale' = stale \ B
  BY DEF ArchiveModel, ArchiveMappings, MappingsArchived, RulesArchived
<1>2. \A b \in B : mappings[b].lifecycle # "ABSENT"
  BY CatalogAssumption DEF CatalogInv, RowsMade
<1>3. \A r \in R : rules[r].lifecycle # "ABSENT"
  BY CatalogAssumption DEF CatalogInv, RowsMade
<1>8. /\ models' = [models EXCEPT ![m] = Merge(@, Archived)]
      /\ prices' = [p \in Prices |-> IF prices[p].model = m THEN Merge(prices[p], Archived) ELSE prices[p]]
      /\ LockFree("model", m) /\ UNCHANGED <<channels, upstreamKeys, calls>>
      /\ overtaken' = overtaken \cup Under("model", m)
  BY DEF ArchiveModel
<1>9. TablesTypeOK
  BY DEF CatalogInv, CatalogTypeOK
<1>10. TableOf(models', Models, ModelFields) /\ \A n \in Models : n # m => models'[n] = models[n]
  <2>1. HasFields(Merge(models[m], Archived), ModelFields)
    BY <1>9, ArchivedFits, TableRow, MergeFields DEF TablesTypeOK
  <2>2. models' = [models EXCEPT ![m] = Merge(models[m], Archived)]
    BY <1>8
  <2> QED BY <1>9, <2>1, <2>2, TableExcept DEF TablesTypeOK, TableOf
<1>11. TableOf(prices', Prices, PriceFields)
  <2>1. /\ prices' = [p \in Prices |-> prices'[p]]
        /\ \A p \in Prices : prices'[p] = prices[p] \/ prices'[p] = Merge(prices[p], Archived)
    BY <1>8
  <2> QED BY <1>9, <2>1, ArchivedFits, ArchivedTable DEF TablesTypeOK
<1>12. /\ TableOf(channels', Channels, ChannelFields) /\ TableOf(upstreamKeys', ChannelKeys, KeyFields)
       /\ \A k \in ChannelKeys : upstreamKeys[k].lifecycle # "ABSENT" => upstreamKeys'[k].lifecycle # "ABSENT"
  BY <1>8, <1>9 DEF TablesTypeOK
<1>13. /\ \A c \in Channels : Live(channels[c]) => Live(channels'[c])
       /\ \A n \in Models : Live(models[n]) =>
            \/ Live(models'[n])
            \/ /\ LockFree("model", n) /\ Under("model", n) \subseteq overtaken'
               /\ \A b \in Mappings : mappings[b].model = n => b \in B
  BY <1>8, <1>10
<1> HIDE DEF B, R
<1>14. CatalogKept
  BY <1>1, <1>2, <1>3, <1>10, <1>11, <1>12, <1>13, ArchivingKept
<1>15. CallsGoOn
  BY <1>8 DEF CallsGoOn, CatalogInv, CatalogTypeOK
<1> QED BY <1>14, <1>15

\* What a binding commits.
LEMMA BoundRow ==
  ASSUME CatalogInv, NEW x \in Calls, FinishBinding(x)
  PROVE  LET call == calls[x]
             row == Merge(mappings[call.id], call.row)
         IN /\ call.id \in Mappings /\ call.channel \in Channels /\ call.row["model"] \in Models
            /\ HasFields(row, MappingFields) /\ row.lifecycle # "ABSENT"
            /\ row.channel = call.channel /\ row.model = call.row["model"]
            /\ row.failures = 0 /\ row.tested = 0
            /\ mappings[call.id].lifecycle # "ABSENT" => mappings[call.id].channel = call.channel
            /\ Live(channels[call.channel])
            /\ call.create \/ Live(models[call.row["model"]])
<1> DEFINE call == calls[x]
           b == call.id
           row == Merge(mappings[b], call.row)
<1>1. call.op \in {"BIND", "REBIND"} /\ (call.op = "BIND" => mappings[b].lifecycle = "ABSENT")
  BY DEF FinishBinding
<1>2. CallOK(call) /\ CallFollows(call) /\ CallParents(call)
  BY DEF CatalogInv, CatalogTypeOK
<1>3. BindOK(call)
  BY <1>1, <1>2 DEF CallOK
<1>4. /\ b \in Mappings /\ call.channel \in Channels /\ call.row["model"] \in Models
      /\ Fits(call.row, MappingFields) /\ call.row["failures"] = 0 /\ call.row["tested"] = 0
      /\ {"model", "upstream", "failures", "tested"} \subseteq DOMAIN call.row
  BY <1>3 DEF BindOK
<1>5. HasFields(mappings[b], MappingFields)
  BY <1>4, TableRow DEF CatalogInv, CatalogTypeOK, TablesTypeOK
<1>6. HasFields(row, MappingFields)
  BY <1>4, <1>5, MergeFields
<1>7. row.model = call.row["model"] /\ row.failures = 0 /\ row.tested = 0
  BY <1>4, <1>5, MergeField, MappingColumns
<1>8. /\ row.lifecycle = IF "lifecycle" \in DOMAIN call.row THEN call.row["lifecycle"] ELSE mappings[b].lifecycle
      /\ row.channel = IF "channel" \in DOMAIN call.row THEN call.row["channel"] ELSE mappings[b].channel
  BY <1>5, MergeField, MappingColumns
<1>9. /\ row.lifecycle # "ABSENT" /\ row.channel = call.channel
      /\ mappings[b].lifecycle # "ABSENT" => mappings[b].channel = call.channel
  <2>1. CASE call.op = "BIND"
    BY <1>1, <1>3, <1>8, <2>1 DEF BindOK
  <2>2. CASE call.op = "REBIND"
    BY <1>2, <1>3, <1>8, <2>2 DEF BindOK, CallFollows
  <2> QED BY <1>1, <2>1, <2>2
<1>10. Live(channels[call.channel]) /\ (call.create \/ Live(models[call.row["model"]]))
  BY <1>1, <1>2 DEF CallParents
<1> HIDE DEF row
<1> QED BY <1>4, <1>6, <1>7, <1>9, <1>10 DEF row

LEMMA FinishBindingKept ==
  ASSUME CatalogInv, NEW x \in Calls, FinishBinding(x)
  PROVE  CatalogKept /\ CallsGoOn
<1> DEFINE call == calls[x]
           b == call.id
           m == call.row["model"]
           row == Merge(mappings[b], call.row)
           changed == mappings[b].model # call.row.model \/ mappings[b].upstream # call.row.upstream
           R == {r \in RuleIds : call.op = "REBIND" /\ changed /\ rules[r].mapping = b /\ Live(rules[r])}
<1>1. /\ b \in Mappings /\ call.channel \in Channels /\ m \in Models
      /\ HasFields(row, MappingFields) /\ row.lifecycle # "ABSENT"
      /\ row.channel = call.channel /\ row.model = m
      /\ mappings[b].lifecycle # "ABSENT" => mappings[b].channel = call.channel
      /\ Live(channels[call.channel])
      /\ call.create \/ Live(models[m])
  BY BoundRow
<1>2. /\ mappings' = [mappings EXCEPT ![b] = row]
      /\ stale' = stale \ {b} /\ UNCHANGED <<channels, upstreamKeys, prices>> /\ Ends(x)
  BY DEF FinishBinding
<1>3. RulesArchived(R)
  BY DEF FinishBinding, RulesArchived
<1>4. IF call.create
      THEN \E sized \in BOOLEAN :
             models' = [models EXCEPT ![m] = [NoModel EXCEPT !.lifecycle = "ACTIVE", !.sized = sized]]
      ELSE UNCHANGED models
  BY DEF FinishBinding
<1>5. \A r \in R : rules[r].lifecycle # "ABSENT"
  BY DEF Live
<1>6. TablesTypeOK
  BY DEF CatalogInv, CatalogTypeOK
<1> HIDE DEF call, row, R
<1>7. \A a \in Mappings : mappings'[a] = IF a = b THEN row ELSE mappings[a]
  BY <1>2, <1>6 DEF TablesTypeOK, TableOf
<1>8. TableOf(mappings', Mappings, MappingFields)
  BY <1>1, <1>2, <1>6, TableExcept DEF TablesTypeOK
<1>9. /\ TableOf(models', Models, ModelFields)
      /\ \A n \in Models : Live(models[n]) => Live(models'[n])
      /\ Live(models'[m])
  <2>1. CASE call.create
    <3>0. PICK sized \in BOOLEAN :
            models' = [models EXCEPT ![m] = [NoModel EXCEPT !.lifecycle = "ACTIVE", !.sized = sized]]
      BY <1>4, <2>1
    <3>1. PICK new : /\ new = [NoModel EXCEPT !.lifecycle = "ACTIVE", !.sized = sized]
                     /\ models' = [models EXCEPT ![m] = new]
      BY <3>0
    <3>2. HasFields(new, ModelFields) /\ new.lifecycle = "ACTIVE"
      BY <3>1, NewModelRow
    <3>3. TableOf(models', Models, ModelFields)
      BY <1>1, <1>6, <3>1, <3>2, TableExcept DEF TablesTypeOK
    <3>4. \A n \in Models : models'[n] = IF n = m THEN new ELSE models[n]
      BY <1>6, <3>1 DEF TablesTypeOK, TableOf
    <3> QED BY <1>1, <3>2, <3>3, <3>4 DEF Live
  <2>2. CASE ~call.create
    BY <1>1, <1>4, <1>6, <2>2 DEF TablesTypeOK
  <2> QED BY <2>1, <2>2
<1>10. /\ TableOf(rules', RuleIds, RuleFields)
       /\ RulesWane
       /\ \A r \in RuleIds :
            /\ rules[r].lifecycle # "ABSENT" <=> rules'[r].lifecycle # "ABSENT"
            /\ rules'[r].mapping = rules[r].mapping /\ rules'[r].days = rules[r].days
  BY <1>3, <1>5, ArchivedRules
<1>11. TablesTypeOK'
  BY <1>2, <1>6, <1>8, <1>9, <1>10 DEF TablesTypeOK
<1>12. RowsMade'
  BY <1>1, <1>7, <1>10 DEF CatalogInv, RowsMade
<1>13. RowsKept
  BY <1>1, <1>2, <1>7, <1>9, <1>10 DEF RowsKept
<1>14. ParentsKept
  BY <1>2, <1>9 DEF ParentsKept
<1>15. BindingsFollowParents'
  <2> SUFFICES ASSUME NEW a \in Mappings, Live(mappings'[a]), a \notin stale'
               PROVE  Live(channels'[mappings'[a].channel]) /\ Live(models'[mappings'[a].model])
    BY DEF BindingsFollowParents, ParentsLive, Live
  <2>1. CASE a = b
    BY <1>1, <1>2, <1>7, <1>9, <2>1
  <2>2. CASE a # b
    <3>1. Live(mappings[a]) /\ a \notin stale /\ mappings'[a] = mappings[a]
      BY <1>2, <1>7, <2>2
    <3>2. Live(channels[mappings[a].channel]) /\ Live(models[mappings[a].model])
      BY <3>1 DEF CatalogInv, BindingsFollowParents, ParentsLive
    <3>3. mappings[a].model \in Models
      BY <3>1 DEF CatalogInv, RowsMade, Live
    <3> QED BY <1>2, <1>9, <3>1, <3>2, <3>3
  <2> QED BY <2>1, <2>2
<1> QED BY <1>2, <1>10, <1>11, <1>12, <1>13, <1>14, <1>15, EndsGoOn DEF CatalogKept

LEMMA ProbePatch ==
  ASSUME NEW health \in Healths, NEW open \in BOOLEAN, NEW patch, patch = [health |-> health, open |-> open]
  PROVE  Fits(patch, ChannelFields) /\ "lifecycle" \notin DOMAIN patch
<1>1. DOMAIN patch = {"health", "open"} /\ patch["health"] = health /\ patch["open"] = open
  OBVIOUS
<1> QED BY <1>1, ChannelColumns DEF Fits

\* A step that only changes the health of channels and keys.
LEMMA HealthKept ==
  ASSUME CatalogInv, UNCHANGED <<models, mappings, rules, stale>>,
         TableOf(channels', Channels, ChannelFields), TableOf(upstreamKeys', ChannelKeys, KeyFields),
         TableOf(prices', Prices, PriceFields),
         \A c \in Channels : channels'[c].lifecycle = channels[c].lifecycle,
         \A k \in ChannelKeys : upstreamKeys'[k].lifecycle = upstreamKeys[k].lifecycle
  PROVE  CatalogKept
<1>1. TablesTypeOK'
  BY DEF TablesTypeOK, CatalogInv, CatalogTypeOK
<1>2. RowsMade' /\ RowsKept /\ RulesWane
  BY DEF CatalogInv, RowsMade, RowsKept, RulesWane
<1>3. BindingsFollowParents' /\ ParentsKept
  BY ParentsFollow DEF Live
<1> QED BY <1>1, <1>2, <1>3 DEF CatalogKept

LEMMA FinishProbeKept ==
  ASSUME CatalogInv, NEW x \in Calls, FinishProbe(x)
  PROVE  CatalogKept /\ CallsGoOn
<1> DEFINE call == calls[x]
           c == call.id
<1>1. c \in Channels /\ call.key \in ChannelKeys
  BY DEF FinishProbe, CatalogInv, CatalogTypeOK, CallOK
<1>2. HasFields(channels[c], ChannelFields) /\ HasFields(upstreamKeys[call.key], KeyFields)
  BY <1>1, TableRow DEF CatalogInv, CatalogTypeOK, TablesTypeOK
<1>3. \E health \in Healths, open \in BOOLEAN :
        channels' \in {[channels EXCEPT ![c] = Merge(@, [health |-> health, open |-> open])], channels}
  <2>1. channels[c].open \in BOOLEAN
    BY <1>2, ChannelRow
  <2>2. /\ ProbedHealth["ok"] \in Healths /\ ProbedHealth["refused"] \in Healths
        /\ ProbedHealth["error"] \in Healths
    BY DEF ProbedHealth, Healths
  <2>3. "UNHEALTHY" \in Healths /\ "DEGRADED" \in Healths
    BY DEF Healths
  <2>4. PICK answer \in {"ok", "refused", "error", "down"} :
          LET manual == call.op = "TEST"
              health == IF answer # "down" THEN ProbedHealth[answer]
                        ELSE IF manual THEN "UNHEALTHY" ELSE "DEGRADED"
              open == CASE answer = "ok" \/ ~manual -> FALSE
                        [] answer = "down" /\ manual -> TRUE
                        [] OTHER -> channels[c].open
          IN channels' = IF manual \/ Live(channels[c])
                         THEN [channels EXCEPT ![c] = Merge(@, [health |-> health, open |-> open])]
                         ELSE channels
    BY DEF FinishProbe
  <2> DEFINE manual == call.op = "TEST"
             health == IF answer # "down" THEN ProbedHealth[answer]
                       ELSE IF manual THEN "UNHEALTHY" ELSE "DEGRADED"
             open == CASE answer = "ok" \/ ~manual -> FALSE
                       [] answer = "down" /\ manual -> TRUE
                       [] OTHER -> channels[c].open
  <2>5. health \in Healths
    BY <2>2, <2>3
  <2>6. open \in BOOLEAN
    <3>1. CASE answer = "ok" \/ ~manual
      BY <3>1
    <3>2. CASE answer = "down" /\ manual
      BY <3>2
    <3>3. CASE ~(answer = "ok" \/ ~manual) /\ ~(answer = "down" /\ manual)
      BY <2>1, <3>3
    <3> QED BY <3>1, <3>2, <3>3
  <2>7. channels' \in {[channels EXCEPT ![c] = Merge(@, [health |-> health, open |-> open])], channels}
    BY <2>4
  <2> HIDE DEF health, open
  <2> QED BY <2>5, <2>6, <2>7
<1>4. /\ upstreamKeys' \in {[upstreamKeys EXCEPT ![call.key].health = "DISABLED"], upstreamKeys}
      /\ UNCHANGED <<models, mappings, rules, prices, stale>> /\ Ends(x)
  BY DEF FinishProbe
<1>5. TablesTypeOK
  BY DEF CatalogInv, CatalogTypeOK
<1> HIDE DEF call
<1>6. TableOf(channels', Channels, ChannelFields) /\ \A d \in Channels : channels'[d].lifecycle = channels[d].lifecycle
  <2>1. CASE channels' = channels
    BY <1>5, <2>1 DEF TablesTypeOK
  <2>2. CASE channels' # channels
    <3>0. PICK health \in Healths, open \in BOOLEAN :
            channels' = [channels EXCEPT ![c] = Merge(@, [health |-> health, open |-> open])]
      BY <1>3, <2>2
    <3>1. PICK patch : /\ patch = [health |-> health, open |-> open]
                       /\ channels' = [channels EXCEPT ![c] = Merge(@, patch)]
      BY <3>0
    <3>2. Fits(patch, ChannelFields) /\ "lifecycle" \notin DOMAIN patch
      BY <3>1, ProbePatch
    <3>3. PICK row : row = Merge(channels[c], patch)
      OBVIOUS
    <3>4. HasFields(row, ChannelFields) /\ row.lifecycle = channels[c].lifecycle
      BY <1>2, <3>2, <3>3, MergeFields, MergeField, ChannelColumns
    <3>5. channels' = [channels EXCEPT ![c] = row]
      BY <3>1, <3>3
    <3>6. TableOf(channels', Channels, ChannelFields)
      BY <1>1, <1>5, <3>4, <3>5, TableExcept DEF TablesTypeOK
    <3>7. \A d \in Channels : channels'[d] = IF d = c THEN row ELSE channels[d]
      BY <1>5, <3>5 DEF TablesTypeOK, TableOf
    <3> QED BY <3>4, <3>6, <3>7
  <2> QED BY <2>1, <2>2
<1>7. TableOf(upstreamKeys', ChannelKeys, KeyFields)
      /\ \A k \in ChannelKeys : upstreamKeys'[k].lifecycle = upstreamKeys[k].lifecycle
  <2>1. CASE upstreamKeys' = upstreamKeys
    BY <1>5, <2>1 DEF TablesTypeOK
  <2>2. CASE upstreamKeys' # upstreamKeys
    <3>1. PICK row : row = [upstreamKeys[call.key] EXCEPT !.health = "DISABLED"]
      OBVIOUS
    <3>2. HasFields(row, KeyFields) /\ row.lifecycle = upstreamKeys[call.key].lifecycle
      BY <1>2, <3>1, KeyColumns DEF HasFields, Healths
    <3>3. upstreamKeys' = [upstreamKeys EXCEPT ![call.key] = row]
      BY <1>4, <2>2, <3>1
    <3>4. TableOf(upstreamKeys', ChannelKeys, KeyFields)
      BY <1>1, <1>5, <3>2, <3>3, TableExcept DEF TablesTypeOK
    <3>5. \A k \in ChannelKeys : upstreamKeys'[k] = IF k = call.key THEN row ELSE upstreamKeys[k]
      BY <1>5, <3>3 DEF TablesTypeOK, TableOf
    <3> QED BY <3>2, <3>4, <3>5
  <2> QED BY <2>1, <2>2
<1>8. TableOf(prices', Prices, PriceFields)
  BY <1>4, <1>5 DEF TablesTypeOK
<1> QED BY <1>4, <1>6, <1>7, <1>8, HealthKept, EndsGoOn

-----------------------------------------------------------------------------
(* The catalogue's invariant is kept.                                      *)

\* Steps that leave the rows.
SameRows == UNCHANGED <<channels, upstreamKeys, models, mappings, rules, prices, stale>>

LEMMA SameRowsKept ==
  ASSUME CatalogInv, SameRows
  PROVE  CatalogKept
<1>1. TablesTypeOK' /\ RowsMade' /\ BindingsFollowParents'
  BY DEF CatalogInv, CatalogTypeOK, TablesTypeOK, RowsMade, BindingsFollowParents, ParentsLive, SameRows
<1>2. RowsKept /\ RulesWane /\ ParentsKept
  BY DEF RowsKept, RulesWane, ParentsKept, SameRows
<1> QED BY <1>1, <1>2 DEF CatalogKept

LEMMA BeginsInv ==
  ASSUME CatalogInv, NEW x \in Calls, Begins(x)
  PROVE  CatalogInv'
<1>1. PICK call : Start(x, call) /\ CallInv(call) /\ (call.op = "RULE" => ~call.checked)
  BY DEF Begins
<1>2. SameRows /\ overtaken' = overtaken
  BY <1>1 DEF Start, SameRows
<1>3. CatalogKept
  BY <1>2, SameRowsKept
<1>4. /\ calls' = [calls EXCEPT ![x] = call]
      /\ calls' = [y \in Calls |-> calls'[y]]
      /\ \A y \in Calls : calls'[y] = IF y = x THEN call ELSE calls[y]
  BY <1>1 DEF Start, CatalogInv, CatalogTypeOK
<1>5. NoNewCheck
  BY <1>1, <1>4 DEF NoNewCheck
<1>6. CheckedOnce' /\ ChecksHold' /\ NoConflicts'
  BY <1>3, <1>5, RulesKept DEF CatalogKept
<1>7. \A y \in Calls : CallOK(calls'[y]) /\ CallFollows(calls[y])' /\ CallParents(calls[y])'
  <2> SUFFICES ASSUME NEW y \in Calls
               PROVE  CallOK(calls'[y]) /\ CallFollows(calls[y])' /\ CallParents(calls[y])'
    OBVIOUS
  <2>1. CallOK(calls'[y]) /\ CallFollows(calls'[y]) /\ CallParents(calls'[y])
    BY <1>1, <1>4 DEF CallInv, CatalogInv, CatalogTypeOK
  <2>2. CallFollows(calls[y])'
    BY <1>2, <2>1 DEF CallFollows, SameRows
  <2>3. CallParents(calls[y])'
    BY <1>2, <2>1 DEF CallParents, SameRows
  <2> QED BY <2>1, <2>2, <2>3
<1>8. CatalogTypeOK'
  <2>1. (\A y \in Calls : CallOK(calls[y]))'
    BY <1>7
  <2> QED BY <1>3, <1>4, <2>1 DEF CatalogTypeOK, CatalogKept
<1>9. SeenInv'
  <2>1. \A y \in Calls : y \in overtaken \/ CallSeen(calls'[y])
    BY <1>1, <1>4 DEF CatalogInv, SeenInv, CallInv
  <2> QED BY <1>2, <2>1 DEF SeenInv, CallSeen, BringsIn, RowOf, SameRows
<1> QED BY <1>3, <1>6, <1>7, <1>8, <1>9 DEF CatalogInv, CatalogKept

\* A candidate is a rule.
LEMMA CandidateRow ==
  ASSUME CatalogInv, NEW x \in Calls, calls[x].op = "RULE"
  PROVE  LET call == calls[x]
             row == Candidate(call)
         IN /\ call.id \in RuleIds /\ call.mapping \in Mappings
            /\ HasFields(row, RuleFields)
            /\ call.create => row.lifecycle = "ACTIVE" /\ row.mapping = call.mapping /\ row.days # {}
            /\ ~call.create => /\ row.lifecycle = rules[call.id].lifecycle
                               /\ row.mapping = rules[call.id].mapping
                               /\ rules[call.id].days # {} => row.days # {}
<1> DEFINE call == calls[x]
           row == Candidate(call)
<1>1. RuleOK(call)
  BY DEF CatalogInv, CatalogTypeOK, CallOK
<1>2. call.id \in RuleIds /\ call.mapping \in Mappings
  BY <1>1 DEF RuleOK
<1>3. CASE call.create
  <2> DEFINE n == Cardinality({s \in RuleIds : rules[s].lifecycle # "ABSENT"})
  <2>1. n \in Nat
    <3>1. IsFiniteSet(RuleIds)
      BY CatalogAssumption
    <3> QED BY <3>1, FS_Subset, FS_CardinalityType
  <2> HIDE DEF n
  <2>2. row = NewRow(call.mapping, call.patch, n)
    BY <1>3 DEF Candidate, NewRule, NewRow, n
  <2>3. call.patch \in Windows
    BY <1>1, <1>3 DEF RuleOK
  <2> HIDE DEF call, row
  <2>4. HasFields(row, RuleFields) /\ row.lifecycle = "ACTIVE" /\ row.mapping = call.mapping /\ row.days # {}
    BY <1>2, <2>1, <2>2, <2>3, RowOfWindow
  <2> QED BY <1>2, <1>3, <2>4 DEF row, call
<1>4. CASE ~call.create
  <2>1. HasFields(rules[call.id], RuleFields)
    BY <1>2, TableRow DEF CatalogInv, CatalogTypeOK, TablesTypeOK
  <2>2. Fits(call.patch, RuleInput)
    BY <1>1, <1>4, CatalogAssumption DEF RuleOK
  <2>3. row = Merge(rules[call.id], call.patch)
    BY <1>4 DEF Candidate
  <2> HIDE DEF row
  <2>4. /\ HasFields(row, RuleFields) /\ row.lifecycle = rules[call.id].lifecycle
        /\ row.mapping = rules[call.id].mapping
        /\ rules[call.id].days # {} => row.days # {}
    BY <2>1, <2>2, <2>3, RowOfPatch
  <2> QED BY <1>2, <1>4, <2>4 DEF row
<1> QED BY <1>3, <1>4

LEMMA CheckRuleInv ==
  ASSUME CatalogInv, NEW x \in Calls, CheckRule(x)
  PROVE  CatalogInv'
<1> DEFINE call == calls[x]
<1>1. /\ call.op = "RULE" /\ ~call.checked /\ LockFree("rules", call.mapping)
      /\ Candidate(call).enabled => Conflicts(call.mapping, call.id, Candidate(call)) = {}
      /\ calls' = [calls EXCEPT ![x].checked = TRUE]
      /\ SameRows /\ overtaken' = overtaken
  BY DEF CheckRule, Candidate, SameRows
<1>2. CatalogKept
  BY <1>1, SameRowsKept
<1>3. RuleOK(call)
  BY <1>1 DEF CatalogInv, CatalogTypeOK, CallOK
<1>4. PICK next : next = [call EXCEPT !.checked = TRUE]
  OBVIOUS
<1>5. /\ calls' = [y \in Calls |-> calls'[y]]
      /\ \A y \in Calls : calls'[y] = IF y = x THEN next ELSE calls[y]
  BY <1>1, <1>4 DEF CatalogInv, CatalogTypeOK
<1>6. next = [op |-> "RULE", checked |-> TRUE, id |-> call.id, mapping |-> call.mapping,
              create |-> call.create, patch |-> call.patch]
  BY <1>1, <1>3, <1>4 DEF RuleOK
<1>7. /\ next.op = "RULE" /\ next.checked = TRUE /\ next.id = call.id /\ next.mapping = call.mapping
      /\ next.create = call.create /\ next.patch = call.patch
  BY <1>6
<1>8. RuleOK(next)
  BY <1>3, <1>6, <1>7 DEF RuleOK
<1>9. CallOK(next) /\ CallFollows(next) /\ CallParents(next)
  <2>1. CallFollows(call)
    BY DEF CatalogInv
  <2> QED BY <1>1, <1>7, <1>8, <2>1 DEF CallOK, CallFollows, CallParents
<1>10. Candidate(next) = Candidate(call)
  BY <1>7 DEF Candidate, NewRule
<1> HIDE DEF call
<1>11. \A y \in Calls : CallOK(calls'[y]) /\ CallFollows(calls[y])' /\ CallParents(calls[y])'
  <2> SUFFICES ASSUME NEW y \in Calls
               PROVE  CallOK(calls'[y]) /\ CallFollows(calls[y])' /\ CallParents(calls[y])'
    OBVIOUS
  <2>1. CallOK(calls'[y]) /\ CallFollows(calls'[y]) /\ CallParents(calls'[y])
    BY <1>5, <1>9 DEF CatalogInv, CatalogTypeOK
  <2>2. CallFollows(calls[y])'
    BY <1>1, <2>1 DEF CallFollows, SameRows
  <2>3. CallParents(calls[y])'
    BY <1>1, <2>1 DEF CallParents, SameRows
  <2> QED BY <2>1, <2>2, <2>3
<1>12. CatalogTypeOK'
  <2>1. (\A y \in Calls : CallOK(calls[y]))'
    BY <1>11
  <2> QED BY <1>2, <1>5, <2>1 DEF CatalogTypeOK, CatalogKept
<1>13. CheckedOnce'
  <2>1. ASSUME NEW y \in Calls, calls[y].op = "RULE", calls[y].checked, calls[y].mapping = call.mapping
        PROVE  FALSE
    <3>1. LockOf("rules", call.mapping) \in LocksOf(calls[y])
      BY <2>1 DEF LocksOf
    <3> QED BY <1>1, <3>1 DEF LockFree
  <2> SUFFICES ASSUME NEW y \in Calls, NEW z \in Calls,
                      calls'[y].op = "RULE", calls'[y].checked, calls'[z].op = "RULE", calls'[z].checked,
                      calls'[y].mapping = calls'[z].mapping
               PROVE  y = z
    BY DEF CheckedOnce
  <2>2. CASE y # x /\ z # x
    BY <1>5, <2>2 DEF CatalogInv, CheckedOnce
  <2>3. CASE y = x /\ z # x
    BY <1>5, <1>7, <2>1, <2>3
  <2>4. CASE y # x /\ z = x
    BY <1>5, <1>7, <2>1, <2>4
  <2> QED BY <2>2, <2>3, <2>4
<1>14. ChecksHold'
  <2>a. \A y \in Calls : Candidate(calls[y])' = Candidate(calls'[y])
    <3> SUFFICES ASSUME NEW y \in Calls PROVE Candidate(calls[y])' = Candidate(calls'[y])
      OBVIOUS
    <3>1. rules' = rules
      BY <1>1 DEF SameRows
    <3>2. {s \in RuleIds : rules'[s].lifecycle # "ABSENT"} = {s \in RuleIds : rules[s].lifecycle # "ABSENT"}
      BY <3>1
    <3>3. NewRule(calls[y])' = NewRule(calls'[y])
      BY <3>2, Zenon DEF NewRule
    <3> QED BY <3>1, <3>3 DEF Candidate
  <2>b. \A y \in Calls : \A candidate :
          {s \in LiveRules(calls[y].mapping)' \ {calls'[y].id} :
             /\ rules'[s].priority = candidate.priority
             /\ CostRulesOverlap(rules'[s], candidate)}
            = Conflicts(calls'[y].mapping, calls'[y].id, candidate)
    BY <1>1 DEF SameRows, Conflicts, LiveRules, RulesOf
  <2> SUFFICES ASSUME NEW y \in Calls, calls'[y].op = "RULE", calls'[y].checked,
                      calls'[y].create => rules'[calls'[y].id].lifecycle = "ABSENT",
                      Candidate(calls'[y]).enabled
               PROVE  Conflicts(calls'[y].mapping, calls'[y].id, Candidate(calls'[y])) = {}
    BY <2>a, <2>b DEF ChecksHold, Conflicts
  <2>1. CASE y = x
    BY <1>1, <1>5, <1>7, <1>10, <2>1
  <2>2. CASE y # x
    BY <1>1, <1>5, <2>2 DEF CatalogInv, ChecksHold, SameRows
  <2> QED BY <2>1, <2>2
<1>15. NoConflicts'
  BY <1>1 DEF CatalogInv, NoConflicts, LiveRules, RulesOf, SameRows
<1>16. SeenInv'
  <2>1. \A y \in Calls : y \in overtaken \/ CallSeen(calls'[y])
    BY <1>5, <1>7 DEF CatalogInv, SeenInv, CallSeen, BringsIn
  <2> QED BY <1>1, <2>1 DEF SeenInv, CallSeen, BringsIn, RowOf, SameRows
<1> QED BY <1>2, <1>11, <1>12, <1>13, <1>14, <1>15, <1>16 DEF CatalogInv, CatalogKept

LEMMA FinishRuleInv ==
  ASSUME CatalogInv, NEW x \in Calls, FinishRule(x)
  PROVE  CatalogInv'
<1> DEFINE call == calls[x]
           id == call.id
           row == Candidate(call)
<1>1. /\ call.op = "RULE" /\ call.checked /\ Ends(x)
      /\ call.create => rules[id].lifecycle = "ABSENT"
      /\ UNCHANGED <<channels, upstreamKeys, models, mappings, prices, stale>>
  BY DEF FinishRule
<1>2. rules' = [rules EXCEPT ![id] = row]
  BY DEF FinishRule, Candidate
<1>3. /\ id \in RuleIds /\ call.mapping \in Mappings
      /\ HasFields(row, RuleFields)
      /\ call.create => row.lifecycle = "ACTIVE" /\ row.mapping = call.mapping /\ row.days # {}
      /\ ~call.create => /\ row.lifecycle = rules[id].lifecycle
                         /\ row.mapping = rules[id].mapping
                         /\ rules[id].days # {} => row.days # {}
  BY <1>1, CandidateRow
<1>4. ~call.create => rules[id].lifecycle # "ABSENT" /\ rules[id].mapping = call.mapping
  BY <1>1 DEF CatalogInv, CallFollows
<1>5. row.enabled => Conflicts(call.mapping, id, row) = {}
  BY <1>1 DEF CatalogInv, ChecksHold
<1>6. row.lifecycle # "ABSENT" /\ row.mapping = call.mapping
  BY <1>3, <1>4
<1>7. TablesTypeOK
  BY DEF CatalogInv, CatalogTypeOK
<1>8. \A y \in Calls : calls'[y] = IF y = x THEN Idle ELSE calls[y]
  BY <1>1 DEF Ends, CatalogInv, CatalogTypeOK
<1>9. CallsGoOn
  BY <1>1, EndsGoOn
<1>10. \A y \in Calls : /\ y # x /\ calls[y].op = "RULE" /\ calls[y].checked
                        /\ calls[y].create => rules[calls[y].id].lifecycle = "ABSENT"
         => calls[y].mapping # call.mapping
  BY <1>1 DEF CatalogInv, CheckedOnce
<1> HIDE DEF call, id, row
<1>11. \A r \in RuleIds : rules'[r] = IF r = id THEN row ELSE rules[r]
  BY <1>2, <1>7 DEF TablesTypeOK, TableOf
<1>12. TablesTypeOK'
  <2>1. TableOf(rules', RuleIds, RuleFields)
    BY <1>2, <1>3, <1>7, TableExcept DEF TablesTypeOK
  <2> QED BY <1>1, <1>7, <2>1 DEF TablesTypeOK
<1>13. RowsMade'
  <2>1. row.days # {}
    BY <1>3, <1>4 DEF CatalogInv, RowsMade
  <2> QED BY <1>1, <1>3, <1>6, <1>11, <2>1 DEF CatalogInv, RowsMade
<1>14. RowsKept
  BY <1>1, <1>3, <1>4, <1>6, <1>11 DEF RowsKept
<1>15. BindingsFollowParents' /\ ParentsKept
  BY <1>1, ParentsFollow
<1>16. /\ \A y \in Calls : CallOK(calls'[y]) /\ CallFollows(calls[y])' /\ CallParents(calls[y])'
       /\ SeenInv'
  BY <1>9, <1>14, <1>15, CallsKept, SeenKept
<1>17. CatalogTypeOK'
  <2>1. (\A y \in Calls : CallOK(calls[y]))'
    BY <1>16
  <2> QED BY <1>9, <1>12, <2>1 DEF CatalogTypeOK, CallsGoOn
<1>18. CheckedOnce'
  <2>1. \A y \in Calls : calls'[y].op = "RULE" => calls'[y] = calls[y]
    BY <1>8, IdleCall
  <2> QED BY <2>1 DEF CatalogInv, CheckedOnce
\* The rules of other mappings are as they were.
<1>19. ASSUME NEW b \in Mappings, NEW r \in LiveRules(b)', r # id \/ b # call.mapping
       PROVE  r # id /\ r \in LiveRules(b) /\ rules'[r] = rules[r]
  <2>1. r \in RuleIds /\ rules'[r].mapping = b
    BY <1>19 DEF LiveRules, RulesOf
  <2>2. r # id
    BY <1>6, <1>11, <1>19, <2>1
  <2> QED BY <1>11, <1>19, <2>1, <2>2 DEF LiveRules, RulesOf
<1>20. ChecksHold'
  <2> SUFFICES ASSUME NEW y \in Calls, calls'[y].op = "RULE", calls'[y].checked,
                      calls'[y].create => rules'[calls'[y].id].lifecycle = "ABSENT",
                      Candidate(calls[y])'.enabled
               PROVE  Conflicts(calls[y].mapping, calls[y].id, Candidate(calls[y]))' = {}
    BY DEF ChecksHold
  <2>1. y # x /\ calls'[y] = calls[y]
    BY <1>8, IdleCall
  <2>2. calls[y].id \in RuleIds /\ calls[y].mapping \in Mappings
    <3>1. RuleOK(calls[y])
      BY <2>1 DEF CatalogInv, CatalogTypeOK, CallOK
    <3> QED BY <3>1 DEF RuleOK
  <2>3. calls[y].create => rules[calls[y].id].lifecycle = "ABSENT"
    BY <1>14, <2>1, <2>2 DEF RowsKept
  <2>4. calls[y].mapping # call.mapping
    BY <1>10, <2>1, <2>3
  <2>5. calls[y].id # id
    <3>1. ~calls[y].create => rules[calls[y].id].lifecycle # "ABSENT" /\ rules[calls[y].id].mapping = calls[y].mapping
      BY <2>1 DEF CatalogInv, CallFollows
    <3>2. CASE calls[y].create
      BY <1>6, <1>11, <2>1, <2>2, <3>2
    <3>3. CASE ~calls[y].create
      BY <1>1, <1>4, <2>4, <3>1, <3>3 DEF id
    <3> QED BY <3>2, <3>3
  <2>6. rules'[calls[y].id] = rules[calls[y].id]
    BY <1>11, <2>2, <2>5
  <2>7. \A r \in LiveRules(calls[y].mapping)' : r \in LiveRules(calls[y].mapping) /\ rules'[r] = rules[r]
    <3>1. PICK b \in Mappings : b = calls[y].mapping
      BY <2>2
    <3>2. \A r \in LiveRules(b)' : r \in LiveRules(b) /\ rules'[r] = rules[r]
      BY <1>19, <2>4, <3>1
    <3> QED BY <2>1, <3>1, <3>2 DEF LiveRules, RulesOf
  <2> QED BY <1>12, <2>1, <2>3, <2>6, <2>7, CheckKept
\* The rule that is written was checked against the others of its mapping.
<1>21. ASSUME NEW s \in LiveRules(call.mapping), s # id, rules[s].priority = row.priority,
              row.enabled
       PROVE  ~CostRulesOverlap(rules[s], row)
  BY <1>5, <1>21 DEF Conflicts
<1>22. NoConflicts'
  <2> SUFFICES ASSUME NEW b \in Mappings, NEW r \in LiveRules(b)', NEW s \in LiveRules(b)', r # s,
                      rules'[r].priority = rules'[s].priority
               PROVE  ~CostRulesOverlap(rules'[r], rules'[s])
    BY DEF NoConflicts
  <2>0. r \in RuleIds /\ s \in RuleIds
    BY DEF LiveRules, RulesOf
  <2>1. CASE r # id /\ s # id
    <3>1. r \in LiveRules(b) /\ s \in LiveRules(b) /\ rules'[r] = rules[r] /\ rules'[s] = rules[s]
      BY <1>19, <2>1
    <3> QED BY <3>1 DEF CatalogInv, NoConflicts
  <2>2. CASE r = id
    <3>1. b = call.mapping /\ rules'[r] = row /\ row.enabled
      BY <1>6, <1>11, <2>0, <2>2 DEF LiveRules, RulesOf
    <3>2. s # id /\ s \in LiveRules(b) /\ rules'[s] = rules[s]
      BY <1>19, <2>2
    <3> QED BY <1>21, <3>1, <3>2, OverlapSymmetric
  <2>3. CASE s = id
    <3>1. b = call.mapping /\ rules'[s] = row /\ row.enabled
      BY <1>6, <1>11, <2>0, <2>3 DEF LiveRules, RulesOf
    <3>2. r # id /\ r \in LiveRules(b) /\ rules'[r] = rules[r]
      BY <1>19, <2>3
    <3> QED BY <1>21, <3>1, <3>2
  <2> QED BY <2>1, <2>2, <2>3
<1> QED BY <1>13, <1>15, <1>16, <1>17, <1>18, <1>20, <1>22 DEF CatalogInv


LEMMA FailInv ==
  ASSUME CatalogInv, NEW x \in Calls, Fail(x)
  PROVE  CatalogInv'
<1>1. SameRows /\ Ends(x)
  BY DEF Fail, SameRows
<1> QED BY <1>1, SameRowsKept, EndsGoOn, KeptInv

LEMMA CatalogNextInv ==
  ASSUME CatalogInv, CatalogNext
  PROVE  CatalogInv'
<1>1. CASE \E c \in Channels : ArchiveChannel(c)
  BY <1>1, ArchiveChannelKept, KeptInv
<1>2. CASE \E m \in Models : ArchiveModel(m)
  BY <1>2, ArchiveModelKept, KeptInv
<1>3. ASSUME NEW x \in Calls,
             \/ Begins(x) \/ FinishUnlocked(x) \/ FinishArchive(x) \/ FinishBinding(x)
             \/ CheckRule(x) \/ FinishRule(x) \/ FinishProbe(x) \/ Fail(x)
      PROVE  CatalogInv'
  <2>1. CASE Begins(x)
    BY <2>1, BeginsInv
  <2>2. CASE FinishUnlocked(x)
    BY <2>2, UnlockedKept, KeptInv
  <2>3. CASE FinishArchive(x)
    BY <2>3, FinishArchiveKept, KeptInv
  <2>4. CASE FinishBinding(x)
    BY <2>4, FinishBindingKept, KeptInv
  <2>5. CASE CheckRule(x)
    BY <2>5, CheckRuleInv
  <2>6. CASE FinishRule(x)
    BY <2>6, FinishRuleInv
  <2>7. CASE FinishProbe(x)
    BY <2>7, FinishProbeKept, KeptInv
  <2>8. CASE Fail(x)
    BY <2>8, FailInv
  <2> QED BY <1>3, <2>1, <2>2, <2>3, <2>4, <2>5, <2>6, <2>7, <2>8
<1>4. RowsMade
  BY DEF CatalogInv
<1> QED BY <1>1, <1>2, <1>3, <1>4, CatalogSteps

LEMMA CatalogInitInv ==
  ASSUME CatalogInit
  PROVE  CatalogInv
<1>1. /\ \A c \in Channels : channels[c] = NoChannel
      /\ \A k \in ChannelKeys : upstreamKeys[k] = NoKey
      /\ \A m \in Models : models[m] = NoModel
      /\ \A b \in Mappings : mappings[b] = NoMapping
      /\ \A r \in RuleIds : rules[r] = NoRule
      /\ \A p \in Prices : prices[p] = NoPrice
      /\ \A x \in Calls : calls[x] = Idle
  BY DEF CatalogInit
<1>2. TablesTypeOK
  <2>1. TableOf(channels, Channels, ChannelFields) /\ TableOf(upstreamKeys, ChannelKeys, KeyFields)
    BY <1>1, NoChannelRow, NoKeyRow DEF TableOf, CatalogInit
  <2>2. TableOf(models, Models, ModelFields) /\ TableOf(mappings, Mappings, MappingFields)
    BY <1>1, NoModelRow, NoMappingRow DEF TableOf, CatalogInit
  <2>3. TableOf(rules, RuleIds, RuleFields) /\ TableOf(prices, Prices, PriceFields)
    BY <1>1, NoRuleRow, NoPriceRow DEF TableOf, CatalogInit
  <2> QED BY <2>1, <2>2, <2>3 DEF TablesTypeOK
<1>3. CatalogTypeOK
  <2>1. calls = [x \in Calls |-> calls[x]]
    BY DEF CatalogInit
  <2> QED BY <1>1, <1>2, <2>1, IdleCall DEF CatalogTypeOK
<1>4. RowsMade
  BY <1>1 DEF RowsMade, NoMapping, NoRule
<1>5. SeenInv /\ \A x \in Calls : CallFollows(calls[x]) /\ CallParents(calls[x])
  BY <1>1 DEF SeenInv, CallSeen, BringsIn, CallFollows, CallParents, Idle
<1>6. CheckedOnce /\ ChecksHold
  BY <1>1 DEF CheckedOnce, ChecksHold, Idle
<1>7. NoConflicts
  BY <1>1 DEF NoConflicts, LiveRules, RulesOf, Live, NoRule
<1>8. BindingsFollowParents
  BY <1>1 DEF BindingsFollowParents, Live, NoMapping
<1> QED BY <1>3, <1>4, <1>5, <1>6, <1>7, <1>8 DEF CatalogInv

-----------------------------------------------------------------------------
(* Tests of mappings.                                                      *)

\* A mapping's health and counts may change while it is in use.
LEMMA MappingTested ==
  ASSUME CatalogInv, UNCHANGED <<channels, upstreamKeys, models, rules, prices, stale>>,
         NEW b \in Mappings, Live(mappings[b]), NEW row, HasFields(row, MappingFields),
         row.lifecycle = mappings[b].lifecycle, row.channel = mappings[b].channel,
         row.model = mappings[b].model, mappings' = [mappings EXCEPT ![b] = row]
  PROVE  CatalogKept
<1>1. TablesTypeOK
  BY DEF CatalogInv, CatalogTypeOK
<1>2. \A a \in Mappings : mappings'[a] = IF a = b THEN row ELSE mappings[a]
  BY <1>1 DEF TablesTypeOK, TableOf
<1>3. TablesTypeOK'
  <2>1. TableOf(mappings', Mappings, MappingFields)
    BY <1>1, TableExcept DEF TablesTypeOK
  <2> QED BY <1>1, <2>1 DEF TablesTypeOK
<1>4. \A a \in Mappings : /\ mappings'[a].lifecycle = mappings[a].lifecycle
                          /\ mappings'[a].channel = mappings[a].channel
                          /\ mappings'[a].model = mappings[a].model
  BY <1>2
<1>5. RowsMade'
  <2>1. \A a \in Mappings : mappings[a].lifecycle = "ABSENT" => mappings'[a] = mappings[a]
    BY <1>2 DEF Live
  <2> QED BY <1>4, <2>1 DEF CatalogInv, RowsMade
<1>6. RowsKept /\ RulesWane
  BY <1>4 DEF RowsKept, RulesWane
<1>7. BindingsFollowParents' /\ ParentsKept
  BY <1>4, ParentsFollow DEF Live
<1> QED BY <1>3, <1>5, <1>6, <1>7 DEF CatalogKept

LEMMA TestedPatch ==
  ASSUME NEW health \in Healths, NEW failures \in Nat, NEW at \in Nat, NEW patch,
         patch = [health |-> health, failures |-> failures, tested |-> at]
  PROVE  /\ Fits(patch, MappingFields) /\ DOMAIN patch = {"health", "failures", "tested"}
         /\ patch["failures"] = failures /\ patch["tested"] = at
<1>1. /\ DOMAIN patch = {"health", "failures", "tested"} /\ patch["health"] = health
      /\ patch["failures"] = failures /\ patch["tested"] = at
  OBVIOUS
<1> QED BY <1>1, MappingColumns DEF Fits

LEMMA HealthAfter ==
  ASSUME NEW failures \in Nat, NEW outcome \in {"ok", "failed", "terminal"}
  PROVE  LET next == NextHealth(failures, outcome)
         IN /\ next.health \in Healths
            /\ next.failures = IF outcome = "ok" THEN 0 ELSE failures + 1
BY DEF NextHealth, Healths

\* An outcome that finds the count as it was read is recorded.
LEMMA RecordKept ==
  ASSUME CatalogInv, TestsInv, NEW t \in Tests, Record(t), Current(tests[t].mapping, tests[t].failures),
         UNCHANGED <<channels, upstreamKeys, models, rules, prices, calls, overtaken, stale>>
  PROVE  /\ CatalogKept
         /\ \A b \in Mappings :
              IF b = tests[t].mapping
              THEN /\ mappings'[b].failures = IF tests[t].outcome = "ok" THEN 0 ELSE mappings[b].failures + 1
                   /\ mappings'[b].tested = tests[t].at
              ELSE mappings'[b] = mappings[b]
<1> DEFINE test == tests[t]
           b == test.mapping
<1>1. test.op = "RECORD" /\ b \in Mappings /\ test.failures \in Nat /\ test.at \in Nat
      /\ test.outcome \in {"ok", "failed", "terminal"}
  BY DEF TestsInv, TestOK, Record
<1>2. PICK next : next = NextHealth(test.failures, test.outcome)
  OBVIOUS
<1>3. next.health \in Healths /\ next.failures = IF test.outcome = "ok" THEN 0 ELSE test.failures + 1
  BY <1>1, <1>2, HealthAfter
<1>4. PICK patch : patch = [health |-> next.health, failures |-> next.failures, tested |-> test.at]
  OBVIOUS
<1>5. mappings' = [mappings EXCEPT ![b] = Merge(@, patch)]
  BY <1>2, <1>4 DEF Record
<1>6. next.failures \in Nat
  BY <1>1, <1>3
<1>7. /\ Fits(patch, MappingFields) /\ DOMAIN patch = {"health", "failures", "tested"}
      /\ patch["failures"] = next.failures /\ patch["tested"] = test.at
  BY <1>1, <1>3, <1>4, <1>6, TestedPatch
<1>8. Live(mappings[b]) /\ mappings[b].failures = test.failures
  BY DEF Current
<1> HIDE DEF test, b
<1>9. HasFields(mappings[b], MappingFields) /\ TableOf(mappings, Mappings, MappingFields)
  BY <1>1, TableRow DEF CatalogInv, CatalogTypeOK, TablesTypeOK
<1>10. PICK row : row = Merge(mappings[b], patch)
  OBVIOUS
<1>11. /\ HasFields(row, MappingFields)
       /\ row.lifecycle = mappings[b].lifecycle /\ row.channel = mappings[b].channel
       /\ row.model = mappings[b].model
       /\ row.failures = next.failures /\ row.tested = test.at
  BY <1>7, <1>9, <1>10, MergeFields, MergeField, MappingColumns
<1>12. mappings' = [mappings EXCEPT ![b] = row]
  BY <1>5, <1>10
<1>13. CatalogKept
  BY <1>1, <1>8, <1>11, <1>12, MappingTested
<1>14. \A a \in Mappings : mappings'[a] = IF a = b THEN row ELSE mappings[a]
  BY <1>9, <1>12 DEF TableOf
<1> QED BY <1>3, <1>8, <1>11, <1>13, <1>14 DEF test, b

\* A claim sets the instant of the last test.
LEMMA ClaimKept ==
  ASSUME CatalogInv, TestsInv, NEW t \in Tests, Claim(t), Claimable(t),
         UNCHANGED <<channels, upstreamKeys, models, rules, prices, calls, overtaken, stale>>
  PROVE  /\ CatalogKept
         /\ \A b \in Mappings :
              IF b = tests[t].mapping
              THEN mappings'[b].failures = mappings[b].failures /\ mappings'[b].tested = tests[t].at
              ELSE mappings'[b] = mappings[b]
<1> DEFINE test == tests[t]
           b == test.mapping
<1>1. test.op = "CLAIM" /\ b \in Mappings /\ test.at \in Nat
  BY DEF TestsInv, TestOK, Claim
<1>2. Live(mappings[b]) /\ mappings' = [mappings EXCEPT ![b].tested = test.at]
  BY DEF Claim, Claimable
<1> HIDE DEF test, b
<1>3. HasFields(mappings[b], MappingFields) /\ TableOf(mappings, Mappings, MappingFields)
  BY <1>1, TableRow DEF CatalogInv, CatalogTypeOK, TablesTypeOK
<1>4. PICK row : row = [mappings[b] EXCEPT !.tested = test.at]
  OBVIOUS
<1>5. mappings' = [mappings EXCEPT ![b] = row]
  BY <1>2, <1>4
<1>6. /\ HasFields(row, MappingFields)
      /\ row.lifecycle = mappings[b].lifecycle /\ row.channel = mappings[b].channel
      /\ row.model = mappings[b].model /\ row.failures = mappings[b].failures /\ row.tested = test.at
  BY <1>1, <1>3, <1>4, MappingColumns DEF HasFields
<1>7. CatalogKept
  BY <1>1, <1>2, <1>5, <1>6, MappingTested
<1>8. \A a \in Mappings : mappings'[a] = IF a = b THEN row ELSE mappings[a]
  BY <1>3, <1>5 DEF TableOf
<1> QED BY <1>6, <1>7, <1>8 DEF test, b

LEMMA TestingKept ==
  ASSUME CatalogInv, TestsInv, TestingNext
  PROVE  CatalogInv'
<1>1. UNCHANGED <<channels, upstreamKeys, models, rules, prices, calls, overtaken, stale>>
  BY DEF TestingNext
<1>2. CallsGoOn
  BY <1>1 DEF CallsGoOn, CatalogInv, CatalogTypeOK
<1>3. CASE UNCHANGED mappings
  BY <1>1, <1>2, <1>3, SameRowsKept, KeptInv DEF SameRows
<1>4. ASSUME NEW t \in Tests, Claim(t), mappings' # mappings
      PROVE  CatalogInv'
  <2>1. Claimable(t)
    BY <1>4 DEF Claim
  <2> QED BY <1>1, <1>2, <1>4, <2>1, ClaimKept, KeptInv
<1>5. ASSUME NEW t \in Tests, Record(t), mappings' # mappings
      PROVE  CatalogInv'
  <2>1. Current(tests[t].mapping, tests[t].failures)
    BY <1>5 DEF Record
  <2> QED BY <1>1, <1>2, <1>5, <2>1, RecordKept, KeptInv
<1> QED BY <1>3, <1>4, <1>5 DEF TestingNext, GiveUp, Answer, ReadAgain, Scan, Send, Tick

\* Every test of a table of tests is as TestsInv says.
LEMMA TestsStep ==
  ASSUME TestsInv, clock' \in Nat \ {0}, NEW t \in Tests, NEW test, Step(t, test),
         inARow' = [b \in Mappings |-> mappings'[b].failures],
         claims' = [b \in Mappings |-> claims'[b]],
         \A b \in Mappings : \A s \in claims'[b] : s \in Nat /\ s < mappings'[b].tested,
         TestOK(test)
  PROVE  TestsInv'
<1>1. tests' = [tests EXCEPT ![t] = test]
  BY DEF Step
<1>2. \A u \in Tests : tests'[u] = IF u = t THEN test ELSE tests[u]
  BY <1>1 DEF TestsInv
<1>3. tests' = [u \in Tests |-> tests'[u]]
  BY <1>1 DEF TestsInv
<1>4. \A u \in Tests : TestOK(tests'[u])
  BY <1>2 DEF TestsInv
<1> QED BY <1>3, <1>4 DEF TestsInv

\* The same, for a test that leaves the mappings.
LEMMA TestsGoOn ==
  ASSUME TestsInv, clock' \in Nat \ {0}, NEW t \in Tests, NEW test, Step(t, test),
         UNCHANGED <<mappings, inARow, claims>>, TestOK(test)
  PROVE  TestsInv'
<1>1. inARow' = [b \in Mappings |-> mappings'[b].failures] /\ claims' = [b \in Mappings |-> claims'[b]]
  BY DEF TestsInv
<1>2. \A b \in Mappings : \A s \in claims'[b] : s \in Nat /\ s < mappings'[b].tested
  BY DEF TestsInv
<1> QED BY <1>1, <1>2, TestsStep

LEMMA IdleTest == TestOK(Idle)
BY DEF TestOK, Idle

LEMMA ScanInv ==
  ASSUME CatalogInv, TestsInv, NEW t \in Tests, NEW b \in Mappings, Scan(t, b)
  PROVE  TestsInv'
<1>1. PICK test : test = [op |-> "CLAIM", mapping |-> b, seen |-> mappings[b].tested, at |-> clock]
  OBVIOUS
<1>2. mappings[b].tested \in Nat
  BY TableRow, MappingRow DEF CatalogInv, CatalogTypeOK, TablesTypeOK
<1>3. mappings[b].tested < clock
  BY <1>2, TestingAssumption DEF Scan, Due, TestsInv
<1>4. TestOK(test)
  BY <1>1, <1>2, <1>3 DEF TestOK, TestsInv
<1>5. Step(t, test) /\ UNCHANGED <<mappings, clock, inARow, claims>>
  BY <1>1 DEF Scan
<1> QED BY <1>4, <1>5, TestsGoOn DEF TestsInv

LEMMA ClaimInv ==
  ASSUME CatalogInv, TestsInv, NEW t \in Tests, Claim(t),
         UNCHANGED <<channels, upstreamKeys, models, rules, prices, calls, overtaken, stale>>
  PROVE  TestsInv'
<1> DEFINE b == tests[t].mapping
<1>1. CASE ~Claimable(t)
  BY <1>1, IdleTest, TestsGoOn DEF Claim, TestsInv
<1>2. CASE Claimable(t)
  <2>1. /\ tests[t].op = "CLAIM" /\ TestOK(tests[t]) /\ UNCHANGED <<clock, inARow>>
        /\ claims' = [claims EXCEPT ![b] = @ \cup {tests[t].seen}]
        /\ Step(t, [op |-> "CLAIMED", mapping |-> b, again |-> tests[t].seen \in claims[b]])
    BY <1>2 DEF Claim, TestsInv
  <2>2. /\ b \in Mappings /\ tests[t].seen \in Nat /\ tests[t].at \in Nat
        /\ tests[t].seen < tests[t].at
    BY <2>1 DEF TestOK
  <2>3. mappings[b].tested = tests[t].seen
    BY <1>2 DEF Claimable
  <2>4. tests[t].seen \notin claims[b]
    BY <2>2, <2>3 DEF TestsInv
  <2>5. \A a \in Mappings :
          IF a = b THEN mappings'[a].failures = mappings[a].failures /\ mappings'[a].tested = tests[t].at
          ELSE mappings'[a] = mappings[a]
    BY <1>2, ClaimKept
  <2> HIDE DEF b
  <2>6. inARow' = [a \in Mappings |-> mappings'[a].failures]
    BY <2>1, <2>5 DEF TestsInv
  <2>7. claims' = [a \in Mappings |-> claims'[a]]
        /\ \A a \in Mappings : claims'[a] = IF a = b THEN claims[a] \cup {tests[t].seen} ELSE claims[a]
    BY <2>1 DEF TestsInv
  <2>8. \A a \in Mappings : \A s \in claims'[a] : s \in Nat /\ s < mappings'[a].tested
    <3> SUFFICES ASSUME NEW a \in Mappings, NEW s \in claims'[a]
                 PROVE  s \in Nat /\ s < mappings'[a].tested
      OBVIOUS
    <3>1. CASE a # b
      BY <2>5, <2>7, <3>1 DEF TestsInv
    <3>2. CASE a = b
      <4>1. mappings'[a].tested = tests[t].at /\ s \in claims[a] \cup {tests[t].seen}
        BY <2>5, <2>7, <3>2
      <4>2. s \in Nat /\ s <= mappings[a].tested /\ mappings[a].tested \in Nat
        BY <2>2, <2>3, <3>2, <4>1 DEF TestsInv
      <4> QED BY <2>2, <2>3, <3>2, <4>1, <4>2
    <3> QED BY <3>1, <3>2
  <2>9. PICK test : test = [op |-> "CLAIMED", mapping |-> b, again |-> FALSE]
    OBVIOUS
  <2>10. (tests[t].seen \in claims[b]) = FALSE
    BY <2>4
  <2>11. Step(t, test)
    BY <2>1, <2>9, <2>10
  <2>12. TestOK(test)
    BY <2>2, <2>9 DEF TestOK
  <2>13. clock' \in Nat \ {0}
    BY <2>1 DEF TestsInv
  <2> QED BY <2>6, <2>7, <2>8, <2>11, <2>12, <2>13, TestsStep
<1> QED BY <1>1, <1>2

LEMMA SendInv ==
  ASSUME CatalogInv, TestsInv, NEW t \in Tests, NEW b \in Mappings, Send(t, b)
  PROVE  TestsInv'
<1>1. PICK test : test = [op |-> "SENT", mapping |-> b, failures |-> mappings[b].failures]
  OBVIOUS
<1>2. mappings[b].failures \in Nat
  BY TableRow, MappingRow DEF CatalogInv, CatalogTypeOK, TablesTypeOK
<1>3. TestOK(test)
  BY <1>1, <1>2 DEF TestOK
<1>4. Step(t, test) /\ UNCHANGED <<mappings, clock, inARow, claims>>
  BY <1>1 DEF Send
<1> QED BY <1>3, <1>4, TestsGoOn DEF TestsInv

LEMMA AnswerInv ==
  ASSUME TestsInv, NEW t \in Tests, Answer(t)
  PROVE  TestsInv'
<1>1. /\ tests[t].op = "SENT" /\ TestOK(tests[t]) /\ clock' \in Nat \ {0}
      /\ UNCHANGED <<mappings, inARow, claims>>
  BY DEF Answer, TestsInv
<1>2. PICK outcome \in {"ok", "failed", "terminal"} :
        Step(t, [op |-> "RECORD", mapping |-> tests[t].mapping, failures |-> tests[t].failures,
                 outcome |-> outcome, at |-> clock', tries |-> 0])
  BY DEF Answer
<1>3. PICK n : n = clock'
  OBVIOUS
<1>4. PICK test : test = [op |-> "RECORD", mapping |-> tests[t].mapping, failures |-> tests[t].failures,
                          outcome |-> outcome, at |-> n, tries |-> 0]
  OBVIOUS
<1>5. Step(t, test)
  BY <1>2, <1>3, <1>4
<1>6. tests[t].mapping \in Mappings /\ tests[t].failures \in Nat
  BY <1>1 DEF TestOK
<1>7. TestOK(test)
  BY <1>1, <1>3, <1>4, <1>6 DEF TestOK
<1> QED BY <1>1, <1>5, <1>7, TestsGoOn

LEMMA RecordInv ==
  ASSUME CatalogInv, TestsInv, NEW t \in Tests, Record(t),
         UNCHANGED <<channels, upstreamKeys, models, rules, prices, calls, overtaken, stale>>
  PROVE  TestsInv'
<1> DEFINE test == tests[t]
           b == test.mapping
<1>1. /\ test.op = "RECORD" /\ TestOK(test) /\ clock' = clock /\ clock \in Nat \ {0}
  BY DEF Record, TestsInv
<1>2. /\ b \in Mappings
      /\ test = [op |-> test.op, mapping |-> test.mapping, failures |-> test.failures,
                 outcome |-> test.outcome, at |-> test.at, tries |-> test.tries]
      /\ test.failures \in Nat /\ test.at \in Nat /\ test.outcome \in {"ok", "failed", "terminal"}
  BY <1>1 DEF TestOK
<1>3. CASE ~Current(b, test.failures)
  <2>1. PICK missed : missed = [test EXCEPT !.op = "MISSED"]
    OBVIOUS
  <2>2. Step(t, missed) /\ UNCHANGED <<mappings, inARow, claims>>
    BY <1>3, <2>1 DEF Record
  <2>3. TestOK(missed)
    BY <1>2, <2>1 DEF TestOK
  <2> QED BY <1>1, <2>2, <2>3, TestsGoOn
<1>4. CASE Current(b, test.failures)
  <2>1. /\ inARow' = [inARow EXCEPT ![b] = IF test.outcome = "ok" THEN 0 ELSE @ + 1]
        /\ claims' = [claims EXCEPT ![b] = {}] /\ Step(t, Idle)
    BY <1>4 DEF Record
  <2>2. \A a \in Mappings :
          IF a = b
          THEN mappings'[a].failures = IF test.outcome = "ok" THEN 0 ELSE mappings[a].failures + 1
          ELSE mappings'[a] = mappings[a]
    BY <1>4, RecordKept
  <2> HIDE DEF test, b
  <2>3. inARow' = [a \in Mappings |-> mappings'[a].failures]
    BY <1>2, <2>1, <2>2 DEF TestsInv
  <2>4. claims' = [a \in Mappings |-> claims'[a]]
        /\ \A a \in Mappings : claims'[a] = IF a = b THEN {} ELSE claims[a]
    BY <2>1 DEF TestsInv
  <2>5. \A a \in Mappings : \A s \in claims'[a] : s \in Nat /\ s < mappings'[a].tested
    BY <2>2, <2>4 DEF TestsInv
  <2> QED BY <1>1, <2>1, <2>3, <2>4, <2>5, IdleTest, TestsStep
<1> QED BY <1>3, <1>4

LEMMA ReadAgainInv ==
  ASSUME CatalogInv, TestsInv, NEW t \in Tests, ReadAgain(t)
  PROVE  TestsInv'
<1> DEFINE test == tests[t]
<1>1. /\ test.op = "MISSED" /\ TestOK(test) /\ UNCHANGED <<mappings, clock, inARow, claims>>
      /\ clock' \in Nat \ {0}
  BY DEF ReadAgain, TestsInv
<1>2. CASE Step(t, Idle)
  BY <1>1, <1>2, IdleTest, TestsGoOn
<1>3. CASE ~Step(t, Idle)
  <2>1. PICK again : again = [test EXCEPT !.op = "RECORD", !.tries = @ + 1,
                                          !.failures = mappings[test.mapping].failures]
    OBVIOUS
  <2>2. Step(t, again)
    BY <1>3, <2>1 DEF ReadAgain
  <2>3. /\ test.mapping \in Mappings
        /\ test = [op |-> test.op, mapping |-> test.mapping, failures |-> test.failures,
                   outcome |-> test.outcome, at |-> test.at, tries |-> test.tries]
        /\ test.at \in Nat /\ test.outcome \in {"ok", "failed", "terminal"}
    BY <1>1 DEF TestOK
  <2>4. mappings[test.mapping].failures \in Nat
    BY <2>3, TableRow, MappingRow DEF CatalogInv, CatalogTypeOK, TablesTypeOK
  <2>5. TestOK(again)
    BY <2>1, <2>3, <2>4 DEF TestOK
  <2> QED BY <1>1, <2>2, <2>5, TestsGoOn
<1> QED BY <1>2, <1>3

LEMMA TestingInv ==
  ASSUME CatalogInv, TestsInv, TestingNext
  PROVE  TestsInv'
<1>1. UNCHANGED <<channels, upstreamKeys, models, rules, prices, calls, overtaken, stale>>
  BY DEF TestingNext
<1>2. CASE Tick
  <2>1. clock' \in Nat \ {0}
    BY <1>2 DEF Tick, TestsInv
  <2> QED BY <1>2, <2>1 DEF Tick, TestsInv
<1>3. ASSUME NEW t \in Tests, GiveUp(t)
      PROVE  TestsInv'
  BY <1>3, IdleTest, TestsGoOn DEF GiveUp, TestsInv
<1> QED BY <1>1, <1>2, <1>3, ScanInv, ClaimInv, SendInv, AnswerInv, RecordInv, ReadAgainInv DEF TestingNext

\* What administrators do leaves the counts, but for a binding.
CountsKept ==
  \A b \in Mappings :
    mappings'[b].failures = mappings[b].failures /\ mappings'[b].tested = mappings[b].tested

LEMMA UnlockedCounts ==
  ASSUME CatalogInv, NEW x \in Calls, FinishUnlocked(x)
  PROVE  CountsKept
<1> DEFINE call == calls[x]
           b == call.id
<1>1. CASE call.table # "mappings"
  BY <1>1 DEF CountsKept, FinishUnlocked
<1>2. CASE call.table = "mappings"
  <2>1. mappings' = [mappings EXCEPT ![b] = Result(call, mappings[b])]
    BY <1>2 DEF FinishUnlocked
  <2>2. \/ call.op = "INSERT" /\ InsertOK(call) /\ ~Violates(call)
        \/ call.op = "WRITE" /\ WriteOK(call) /\ CallFollows(call)
    BY UnlockedCall
  <2> HIDE DEF call
  <2>3. CASE call.op = "INSERT"
    <3>1. /\ b \in Mappings /\ call.row.failures = 0 /\ call.row.tested = 0
      BY <1>2, <2>2, <2>3 DEF InsertOK, Adds
    <3>2. mappings[b].lifecycle = "ABSENT"
      BY <1>2, <2>2, <2>3 DEF Violates
    <3>3. mappings[b].failures = 0 /\ mappings[b].tested = 0
      BY <3>1, <3>2 DEF CatalogInv, RowsMade
    <3>4. Result(call, mappings[b]) = call.row
      BY <2>3 DEF Result
    <3>5. \A a \in Mappings : mappings'[a] = IF a = b THEN call.row ELSE mappings[a]
      BY <2>1, <3>4 DEF CatalogInv, CatalogTypeOK, TablesTypeOK, TableOf
    <3> QED BY <3>1, <3>3, <3>5 DEF CountsKept
  <2>4. CASE call.op = "WRITE"
    <3>1. /\ b \in Mappings /\ Fits(call.patch, MappingFields)
          /\ "failures" \notin DOMAIN call.patch /\ "tested" \notin DOMAIN call.patch
      BY <1>2, <2>2, <2>4 DEF WriteOK, Changes
    <3>2. HasFields(mappings[b], MappingFields)
      BY <3>1, TableRow DEF CatalogInv, CatalogTypeOK, TablesTypeOK
    <3>3. PICK row : row = Merge(mappings[b], call.patch)
      OBVIOUS
    <3>4. row.failures = mappings[b].failures /\ row.tested = mappings[b].tested
      BY <3>1, <3>2, <3>3, MergeField, MappingColumns
    <3>5. Result(call, mappings[b]) = row
      BY <2>4, <3>3 DEF Result
    <3>6. \A a \in Mappings : mappings'[a] = IF a = b THEN row ELSE mappings[a]
      BY <2>1, <3>5 DEF CatalogInv, CatalogTypeOK, TablesTypeOK, TableOf
    <3> QED BY <3>4, <3>6 DEF CountsKept
  <2> QED BY <2>2, <2>3, <2>4
<1> QED BY <1>1, <1>2

LEMMA ArchivedCounts ==
  ASSUME CatalogInv,
         \/ \E x \in Calls : FinishArchive(x)
         \/ \E c \in Channels : ArchiveChannel(c)
         \/ \E m \in Models : ArchiveModel(m)
  PROVE  CountsKept
<1>1. ASSUME NEW S, MappingsArchived(S), \A b \in S : mappings[b].lifecycle # "ABSENT"
      PROVE  CountsKept
  BY <1>1, ArchivedMappings DEF CountsKept
<1>2. ASSUME NEW x \in Calls, FinishArchive(x)
      PROVE  CountsKept
  <2> DEFINE b == calls[x].id
  <2>1. b \in Mappings /\ mappings[b].lifecycle # "ABSENT"
    BY <1>2 DEF FinishArchive, CatalogInv, CatalogTypeOK, CallOK, CallFollows
  <2>2. mappings' = [mappings EXCEPT ![b] = ArchivedMapping(mappings[b])]
    BY <1>2 DEF FinishArchive
  <2> HIDE DEF b
  <2>3. MappingsArchived({b})
    BY <2>1, <2>2 DEF MappingsArchived, CatalogInv, CatalogTypeOK, TablesTypeOK, TableOf
  <2> QED BY <1>1, <2>1, <2>3
<1>3. ASSUME NEW c \in Channels, ArchiveChannel(c)
      PROVE  CountsKept
  <2> DEFINE B == {b \in Mappings : mappings[b].channel = c}
  <2>1. MappingsArchived(B)
    BY <1>3 DEF ArchiveChannel, ArchiveMappings, MappingsArchived
  <2>2. \A b \in B : mappings[b].lifecycle # "ABSENT"
    BY CatalogAssumption DEF CatalogInv, RowsMade
  <2> HIDE DEF B
  <2> QED BY <1>1, <2>1, <2>2
<1>4. ASSUME NEW m \in Models, ArchiveModel(m)
      PROVE  CountsKept
  <2> DEFINE B == {b \in Mappings : mappings[b].model = m}
  <2>1. MappingsArchived(B)
    BY <1>4 DEF ArchiveModel, ArchiveMappings, MappingsArchived
  <2>2. \A b \in B : mappings[b].lifecycle # "ABSENT"
    BY CatalogAssumption DEF CatalogInv, RowsMade
  <2> HIDE DEF B
  <2> QED BY <1>1, <2>1, <2>2
<1> QED BY <1>2, <1>3, <1>4

LEMMA BoundCounts ==
  ASSUME CatalogInv, NEW x \in Calls, FinishBinding(x)
  PROVE  /\ calls[x].id \in Mappings
         /\ mappings'[calls[x].id].failures = 0 /\ mappings'[calls[x].id].tested = 0
         /\ \A b \in Mappings : b # calls[x].id => mappings'[b] = mappings[b]
<1>1. PICK row : row = Merge(mappings[calls[x].id], calls[x].row)
  OBVIOUS
<1>2. calls[x].id \in Mappings /\ row.failures = 0 /\ row.tested = 0
  BY <1>1, BoundRow
<1>3. mappings' = [mappings EXCEPT ![calls[x].id] = row]
  BY <1>1 DEF FinishBinding
<1>4. \A b \in Mappings : mappings'[b] = IF b = calls[x].id THEN row ELSE mappings[b]
  BY <1>3 DEF CatalogInv, CatalogTypeOK, TablesTypeOK, TableOf
<1> QED BY <1>2, <1>4

\* Steps that leave the mappings.
LEMMA OthersCounts ==
  ASSUME CatalogInv, NEW x \in Calls,
         Begins(x) \/ CheckRule(x) \/ FinishRule(x) \/ FinishProbe(x) \/ Fail(x)
  PROVE  CountsKept
<1>1. UNCHANGED mappings
  BY DEF Begins, Start, CheckRule, FinishRule, FinishProbe, Fail
<1> QED BY <1>1 DEF CountsKept

LEMMA HistoryInv ==
  ASSUME CatalogInv, TestsInv, CatalogNext, CatalogHistory
  PROVE  TestsInv'
<1> DEFINE Starts(b) == \E x \in Calls : FinishBinding(x) /\ calls[x].id = b
<1>1. \A b \in Mappings :
        \/ mappings'[b].failures = 0 /\ mappings'[b].tested = 0 /\ Starts(b)
        \/ ~Starts(b) /\ mappings'[b].failures = mappings[b].failures /\ mappings'[b].tested = mappings[b].tested
  <2>1. CASE \E x \in Calls : FinishBinding(x)
    <3>1. PICK x \in Calls : FinishBinding(x)
      BY <2>1
    <3> SUFFICES ASSUME NEW b \in Mappings
                 PROVE  \/ mappings'[b].failures = 0 /\ mappings'[b].tested = 0 /\ Starts(b)
                        \/ /\ ~Starts(b) /\ mappings'[b].failures = mappings[b].failures
                           /\ mappings'[b].tested = mappings[b].tested
      OBVIOUS
    <3>2. CASE Starts(b)
      BY <3>2, BoundCounts
    <3>3. CASE ~Starts(b)
      BY <3>1, <3>3, BoundCounts
    <3> QED BY <3>2, <3>3
  <2>2. CASE ~ \E x \in Calls : FinishBinding(x)
    <3>1. RowsMade
      BY DEF CatalogInv
    <3>2. CountsKept
      BY <2>2, <3>1, CatalogSteps, UnlockedCounts, ArchivedCounts, OthersCounts
    <3> QED BY <2>2, <3>2 DEF CountsKept
  <2> QED BY <2>1, <2>2
<1>2. /\ inARow' = [b \in Mappings |-> IF Starts(b) THEN 0 ELSE inARow[b]]
      /\ claims' = [b \in Mappings |-> IF mappings'[b].tested = 0 THEN {} ELSE claims[b]]
      /\ UNCHANGED <<tests, clock>>
  BY DEF CatalogHistory
<1> HIDE DEF Starts
<1>3. inARow' = [b \in Mappings |-> mappings'[b].failures]
  BY <1>1, <1>2 DEF TestsInv
<1>4. claims' = [b \in Mappings |-> claims'[b]]
      /\ \A b \in Mappings : \A s \in claims'[b] : s \in Nat /\ s < mappings'[b].tested
  BY <1>1, <1>2 DEF TestsInv
<1> QED BY <1>2, <1>3, <1>4 DEF TestsInv

LEMMA TestsInitInv ==
  ASSUME CatalogInit, TestingInit
  PROVE  TestsInv
<1>1. \A b \in Mappings : mappings[b].failures = 0
  BY DEF CatalogInit, NoMapping
<1> QED BY <1>1, IdleTest DEF TestsInv, TestingInit

-----------------------------------------------------------------------------
(* Requests: what they learn is written to channels, keys and prices.      *)

\* A channel or price stays what it is; a key besides is never enabled.
Alike(new, old, fields) == HasFields(new, fields) /\ new.lifecycle = old.lifecycle

Stays(patch, fields) == Fits(patch, fields) /\ "lifecycle" \notin DOMAIN patch

LEMMA PatchedAlike ==
  ASSUME NEW fields, NEW old, HasFields(old, fields), NEW patch, Stays(patch, fields),
         "lifecycle" \in DOMAIN fields
  PROVE  Alike(Merge(old, patch), old, fields)
BY MergeFields, MergeField DEF Alike, Stays

LEMMA ChannelPatches ==
  ASSUME NEW patch, patch \in {[health |-> "HEALTHY", open |-> FALSE], [health |-> "DEGRADED", open |-> TRUE],
                               [health |-> "DEGRADED"]}
  PROVE  Stays(patch, ChannelFields)
<1>1. CASE patch = [health |-> "HEALTHY", open |-> FALSE]
  <2>1. DOMAIN patch = {"health", "open"} /\ patch["health"] = "HEALTHY" /\ patch["open"] = FALSE
    BY <1>1
  <2> QED BY <2>1, ChannelColumns DEF Stays, Fits, Healths
<1>2. CASE patch = [health |-> "DEGRADED", open |-> TRUE]
  <2>1. DOMAIN patch = {"health", "open"} /\ patch["health"] = "DEGRADED" /\ patch["open"] = TRUE
    BY <1>2
  <2> QED BY <2>1, ChannelColumns DEF Stays, Fits, Healths
<1>3. CASE patch = [health |-> "DEGRADED"]
  <2>1. DOMAIN patch = {"health"} /\ patch["health"] = "DEGRADED"
    BY <1>3
  <2> QED BY <2>1, ChannelColumns DEF Stays, Fits, Healths
<1> QED BY <1>1, <1>2, <1>3

LEMMA KeyPatches ==
  ASSUME NEW patch, patch \in {[health |-> "HEALTHY", isolated |-> FALSE],
                               [health |-> "DEGRADED", isolated |-> TRUE], Refusal}
  PROVE  /\ Stays(patch, KeyFields)
         /\ "enabled" \in DOMAIN patch => patch["enabled"] = FALSE
         /\ patch = Refusal => "enabled" \in DOMAIN patch
<1>1. CASE patch = [health |-> "HEALTHY", isolated |-> FALSE]
  <2>1. DOMAIN patch = {"health", "isolated"} /\ patch["health"] = "HEALTHY" /\ patch["isolated"] = FALSE
    BY <1>1
  <2>2. patch # Refusal
    <3>1. "enabled" \in DOMAIN Refusal
      BY DEF Refusal
    <3> QED BY <2>1, <3>1
  <2> QED BY <2>1, <2>2, KeyColumns DEF Stays, Fits, Healths
<1>2. CASE patch = [health |-> "DEGRADED", isolated |-> TRUE]
  <2>1. DOMAIN patch = {"health", "isolated"} /\ patch["health"] = "DEGRADED" /\ patch["isolated"] = TRUE
    BY <1>2
  <2>2. patch # Refusal
    <3>1. "enabled" \in DOMAIN Refusal
      BY DEF Refusal
    <3> QED BY <2>1, <3>1
  <2> QED BY <2>1, <2>2, KeyColumns DEF Stays, Fits, Healths
<1>3. CASE patch = Refusal
  <2>1. /\ DOMAIN patch = {"enabled", "health", "isolated"} /\ patch["enabled"] = FALSE
        /\ patch["health"] = "UNHEALTHY" /\ patch["isolated"] = FALSE
    BY <1>3 DEF Refusal
  <2> QED BY <2>1, KeyColumns DEF Stays, Fits, Healths
<1> QED BY <1>1, <1>2, <1>3

\* What requests do to the tables.
ChannelsAlike ==
  /\ channels' = [c \in Channels |-> channels'[c]]
  /\ \A c \in Channels : Alike(channels'[c], channels[c], ChannelFields)
KeysAlike ==
  /\ upstreamKeys' = [k \in ChannelKeys |-> upstreamKeys'[k]]
  /\ \A k \in ChannelKeys : /\ Alike(upstreamKeys'[k], upstreamKeys[k], KeyFields)
                            /\ upstreamKeys'[k].enabled => upstreamKeys[k].enabled
PricesAlike ==
  /\ prices' = [p \in Prices |-> prices'[p]]
  /\ \A p \in Prices : Alike(prices'[p], prices[p], PriceFields)

LEMMA RowsTyped ==
  ASSUME CatalogInv
  PROVE  /\ TableOf(channels, Channels, ChannelFields) /\ TableOf(upstreamKeys, ChannelKeys, KeyFields)
         /\ TableOf(prices, Prices, PriceFields)
         /\ \A c \in Channels : HasFields(channels[c], ChannelFields)
         /\ \A k \in ChannelKeys : HasFields(upstreamKeys[k], KeyFields)
         /\ \A p \in Prices : HasFields(prices[p], PriceFields)
BY TableRow DEF CatalogInv, CatalogTypeOK, TablesTypeOK

LEMMA SameAlike ==
  ASSUME CatalogInv
  PROVE  /\ UNCHANGED channels => ChannelsAlike
         /\ UNCHANGED upstreamKeys => KeysAlike
         /\ UNCHANGED prices => PricesAlike
BY RowsTyped DEF ChannelsAlike, KeysAlike, PricesAlike, Alike, TableOf

LEMMA UsedAlike ==
  ASSUME CatalogInv, NEW P, Used(P)
  PROVE  PricesAlike
<1>1. \A p \in Prices : Alike([prices[p] EXCEPT !.used = TRUE], prices[p], PriceFields)
  BY RowsTyped, PriceColumns DEF HasFields, Alike
<1>2. \A p \in Prices : Alike(prices[p], prices[p], PriceFields)
  BY RowsTyped DEF Alike
<1> QED BY <1>1, <1>2 DEF Used, PricesAlike

\* A key that is patched by a request.
LEMMA KeyPatched ==
  ASSUME NEW old, HasFields(old, KeyFields), NEW new,
         NEW patch, patch \in {[health |-> "HEALTHY", isolated |-> FALSE],
                               [health |-> "DEGRADED", isolated |-> TRUE], Refusal},
         new = Merge(old, patch)
  PROVE  /\ Alike(new, old, KeyFields) /\ (new.enabled => old.enabled)
         /\ patch = Refusal => ~new.enabled
<1>1. Alike(new, old, KeyFields)
  BY KeyPatches, PatchedAlike, KeyColumns
<1>2. new.enabled = IF "enabled" \in DOMAIN patch THEN patch["enabled"] ELSE old.enabled
  BY MergeField, KeyColumns
<1>3. ("enabled" \in DOMAIN patch => patch["enabled"] = FALSE) /\ (patch = Refusal => "enabled" \in DOMAIN patch)
  BY KeyPatches
<1> QED BY <1>1, <1>2, <1>3

LEMMA IsolateAlike ==
  ASSUME CatalogInv, NEW K, Isolate(K)
  PROVE  KeysAlike
<1>1. PICK patch : patch = [health |-> "DEGRADED", isolated |-> TRUE]
  OBVIOUS
<1>2. upstreamKeys' = [k \in ChannelKeys |-> IF k \in K /\ Live(upstreamKeys[k])
                                             THEN Merge(upstreamKeys[k], patch) ELSE upstreamKeys[k]]
  BY <1>1 DEF Isolate
<1>3. \A k \in ChannelKeys : LET new == Merge(upstreamKeys[k], patch)
                             IN Alike(new, upstreamKeys[k], KeyFields) /\ (new.enabled => upstreamKeys[k].enabled)
  BY <1>1, KeyPatched, RowsTyped
<1>4. \A k \in ChannelKeys : Alike(upstreamKeys[k], upstreamKeys[k], KeyFields)
  BY RowsTyped DEF Alike
<1> QED BY <1>2, <1>3, <1>4 DEF KeysAlike

\* A channel that is patched by a request.
LEMMA ChannelPatched ==
  ASSUME NEW old, HasFields(old, ChannelFields), NEW new,
         NEW patch, patch \in {[health |-> "HEALTHY", open |-> FALSE], [health |-> "DEGRADED", open |-> TRUE],
                               [health |-> "DEGRADED"]},
         new = Merge(old, patch)
  PROVE  Alike(new, old, ChannelFields)
BY ChannelPatches, PatchedAlike, ChannelColumns

LEMMA LogFailureAlike ==
  ASSUME CatalogInv, NEW q, LogFailure(q)
  PROVE  ChannelsAlike /\ KeysAlike /\ PricesAlike /\ refused' = refused
<1>1. CASE UNCHANGED <<channels, upstreamKeys, prices>>
  BY <1>1, SameAlike DEF LogFailure
<1>2. CASE ~ UNCHANGED <<channels, upstreamKeys, prices>>
  <2>1. Used(requests[q].first.price) /\ Isolate(FailedKeys(q))
    BY <1>2 DEF LogFailure
  <2>2. PICK patch : patch = [health |-> "DEGRADED", open |-> TRUE]
    OBVIOUS
  <2>3. PICK C : C = {c \in Channels : Live(channels[c]) /\ \E i \in DOMAIN requests[q].tried :
                                                              requests[q].tried[i].channel = c}
    OBVIOUS
  <2>4. channels' = [c \in Channels |-> IF c \in C THEN Merge(channels[c], patch) ELSE channels[c]]
    BY <1>2, <2>2, <2>3 DEF LogFailure
  <2>5. \A c \in Channels : Alike(Merge(channels[c], patch), channels[c], ChannelFields)
    BY <2>2, ChannelPatched, RowsTyped
  <2>6. \A c \in Channels : Alike(channels[c], channels[c], ChannelFields)
    BY RowsTyped DEF Alike
  <2>7. ChannelsAlike
    BY <2>4, <2>5, <2>6 DEF ChannelsAlike
  <2> QED BY <2>1, <2>7, UsedAlike, IsolateAlike DEF LogFailure
<1> QED BY <1>1, <1>2

LEMMA LogAlike ==
  ASSUME CatalogInv, NEW q, Log(q)
  PROVE  /\ ChannelsAlike /\ KeysAlike /\ PricesAlike
         /\ \A k \in refused' : \/ k \in refused
                                \/ /\ k = requests[q].route[1].key
                                   /\ Live(upstreamKeys[k])
                                   /\ k \in ChannelKeys => ~upstreamKeys'[k].enabled
<1> DEFINE request == requests[q]
           k == request.route[1].key
           c == request.route[1].channel
           status == request.tried[Len(request.tried)].status
           others == FailedKeys(q) \ {k}
<1>1. PICK heal, isolate : /\ heal = [health |-> "HEALTHY", isolated |-> FALSE]
                           /\ isolate = [health |-> "DEGRADED", isolated |-> TRUE]
  OBVIOUS
<1>2. upstreamKeys' = [l \in ChannelKeys |->
        LET row == upstreamKeys[l]
        IN CASE l = k /\ Live(row) /\ status = "refused" -> Merge(row, Refusal)
             [] l = k /\ Live(row) /\ status = "ok" -> Merge(row, heal)
             [] l \in others /\ Live(row) -> Merge(row, isolate)
             [] OTHER -> row]
  BY <1>1 DEF Log
<1>3. refused' = IF status = "refused" /\ Live(upstreamKeys[k]) THEN refused \cup {k} ELSE refused
  BY DEF Log
<1>4. PICK up, degrade : /\ up = [health |-> "HEALTHY", open |-> FALSE]
                         /\ degrade = [health |-> "DEGRADED"]
  OBVIOUS
<1>5. channels' = [channels EXCEPT ![c] = IF ~Live(@) THEN @
                                          ELSE IF status = "ok" THEN Merge(@, up)
                                          ELSE IF status = "refused" THEN Merge(@, degrade) ELSE @]
  BY <1>4 DEF Log
<1>6. PricesAlike
  BY UsedAlike DEF Log
<1> HIDE DEF k, c, status, others
<1>7. KeysAlike /\ (k \in ChannelKeys /\ Live(upstreamKeys[k]) /\ status = "refused" => ~upstreamKeys'[k].enabled)
  <2>1. \A l \in ChannelKeys :
          LET row == upstreamKeys[l]
          IN upstreamKeys'[l] = CASE l = k /\ Live(row) /\ status = "refused" -> Merge(row, Refusal)
                                  [] l = k /\ Live(row) /\ status = "ok" -> Merge(row, heal)
                                  [] l \in others /\ Live(row) -> Merge(row, isolate)
                                  [] OTHER -> row
    BY <1>2
  <2>2. \A l \in ChannelKeys : \/ upstreamKeys'[l] = upstreamKeys[l]
                               \/ \E patch \in {heal, isolate, Refusal} : upstreamKeys'[l] = Merge(upstreamKeys[l], patch)
    <3> SUFFICES ASSUME NEW l \in ChannelKeys
                 PROVE  \/ upstreamKeys'[l] = upstreamKeys[l]
                        \/ \E patch \in {heal, isolate, Refusal} : upstreamKeys'[l] = Merge(upstreamKeys[l], patch)
      OBVIOUS
    <3>1. CASE l = k /\ Live(upstreamKeys[l]) /\ status = "refused"
      BY <2>1, <3>1
    <3>2. CASE l = k /\ Live(upstreamKeys[l]) /\ status = "ok"
      <4>1. status # "refused" /\ l \notin others
        BY <3>2 DEF others
      <4>2. upstreamKeys'[l] = Merge(upstreamKeys[l], heal)
        BY <2>1, <3>2, <4>1
      <4> QED BY <4>2
    <3>3. CASE l \in others /\ Live(upstreamKeys[l])
      <4>1. l # k
        BY <3>3 DEF others
      <4> QED BY <2>1, <3>3, <4>1
    <3>4. CASE /\ ~(l = k /\ Live(upstreamKeys[l]) /\ status = "refused")
               /\ ~(l = k /\ Live(upstreamKeys[l]) /\ status = "ok")
               /\ ~(l \in others /\ Live(upstreamKeys[l]))
      BY <2>1, <3>4
    <3> QED BY <3>1, <3>2, <3>3, <3>4
  <2>3. \A l \in ChannelKeys : /\ Alike(upstreamKeys'[l], upstreamKeys[l], KeyFields)
                               /\ upstreamKeys'[l].enabled => upstreamKeys[l].enabled
    <3> SUFFICES ASSUME NEW l \in ChannelKeys
                 PROVE  /\ Alike(upstreamKeys'[l], upstreamKeys[l], KeyFields)
                        /\ upstreamKeys'[l].enabled => upstreamKeys[l].enabled
      OBVIOUS
    <3>1. HasFields(upstreamKeys[l], KeyFields)
      BY RowsTyped
    <3>2. CASE upstreamKeys'[l] = upstreamKeys[l]
      BY <3>1, <3>2 DEF Alike
    <3>3. ASSUME NEW patch \in {heal, isolate, Refusal},
                 upstreamKeys'[l] = Merge(upstreamKeys[l], patch)
          PROVE  /\ Alike(upstreamKeys'[l], upstreamKeys[l], KeyFields)
                 /\ upstreamKeys'[l].enabled => upstreamKeys[l].enabled
      <4>1. patch \in {[health |-> "HEALTHY", isolated |-> FALSE],
                       [health |-> "DEGRADED", isolated |-> TRUE], Refusal}
        BY <1>1
      <4> QED BY <3>1, <3>3, <4>1, KeyPatched
    <3> QED BY <2>2, <3>2, <3>3
  <2>4. ASSUME k \in ChannelKeys, Live(upstreamKeys[k]), status = "refused"
        PROVE  ~upstreamKeys'[k].enabled
    <3>1. k \notin others
      BY DEF others
    <3>2. upstreamKeys'[k] = Merge(upstreamKeys[k], Refusal)
      BY <2>1, <2>4, <3>1
    <3> QED BY <2>4, <3>2, KeyPatched, RowsTyped
  <2>5. upstreamKeys' = [l \in ChannelKeys |-> upstreamKeys'[l]]
    BY <1>2
  <2> QED BY <2>3, <2>4, <2>5 DEF KeysAlike
<1>8. ChannelsAlike
  <2>1. TableOf(channels, Channels, ChannelFields)
    BY RowsTyped
  <2>2. channels' = [d \in Channels |-> channels'[d]]
    BY <1>5, <2>1 DEF TableOf
  <2>3. \A d \in Channels : \/ channels'[d] = channels[d]
                            \/ \E patch \in {up, degrade} : channels'[d] = Merge(channels[d], patch)
    BY <1>5, <2>1 DEF TableOf
  <2>4. \A d \in Channels : Alike(channels'[d], channels[d], ChannelFields)
    BY <1>4, <2>3, ChannelPatched, RowsTyped DEF Alike
  <2> QED BY <2>2, <2>4 DEF ChannelsAlike
<1> QED BY <1>3, <1>6, <1>7, <1>8 DEF k, request

LEMMA IsolationEndsAlike ==
  ASSUME CatalogInv, NEW k \in ChannelKeys, IsolationEnds(k)
  PROVE  ChannelsAlike /\ KeysAlike /\ PricesAlike
<1>1. PICK row : row = [upstreamKeys[k] EXCEPT !.isolated = FALSE]
  OBVIOUS
<1>2. Alike(row, upstreamKeys[k], KeyFields) /\ row.enabled = upstreamKeys[k].enabled
  BY <1>1, RowsTyped, KeyColumns DEF HasFields, Alike
<1>3. upstreamKeys' = [upstreamKeys EXCEPT ![k] = row]
  BY <1>1 DEF IsolationEnds
<1>4. upstreamKeys' = [l \in ChannelKeys |-> IF l = k THEN row ELSE upstreamKeys[l]]
  BY <1>3, RowsTyped DEF TableOf
<1>5. \A l \in ChannelKeys : Alike(upstreamKeys[l], upstreamKeys[l], KeyFields)
  BY RowsTyped DEF Alike
<1>6. KeysAlike
  BY <1>2, <1>4, <1>5 DEF KeysAlike
<1> QED BY <1>6, SameAlike DEF IsolationEnds

LEMMA CircuitClosesAlike ==
  ASSUME CatalogInv, NEW c \in Channels, CircuitCloses(c)
  PROVE  ChannelsAlike /\ KeysAlike /\ PricesAlike
<1>1. PICK row : row = [channels[c] EXCEPT !.open = FALSE]
  OBVIOUS
<1>2. Alike(row, channels[c], ChannelFields)
  BY <1>1, RowsTyped, ChannelColumns DEF HasFields, Alike
<1>3. channels' = [channels EXCEPT ![c] = row]
  BY <1>1 DEF CircuitCloses
<1>4. channels' = [d \in Channels |-> IF d = c THEN row ELSE channels[d]]
  BY <1>3, RowsTyped DEF TableOf
<1>5. \A d \in Channels : Alike(channels[d], channels[d], ChannelFields)
  BY RowsTyped DEF Alike
<1>6. ChannelsAlike
  BY <1>2, <1>4, <1>5 DEF ChannelsAlike
<1> QED BY <1>6, SameAlike DEF CircuitCloses

\* Steps of requests that leave the catalogue.
QuietStep(q, at) ==
  \/ \E m \in Models : Begin(q, m, at)
  \/ Reject(q) \/ Attempt(q) \/ Exhausted(q) \/ ClientGoes(q) \/ BodyBreaks(q) \/ Finish(q) \/ Close(q)
  \/ \E p \in Policies : Reserve(q, p) \/ SlotExpires(q, p)

LEMMA QuietSteps ==
  ASSUME NEW q, NEW at, QuietStep(q, at)
  PROVE  UNCHANGED <<channels, upstreamKeys, prices, refused>>
BY DEF QuietStep, Begin, Reject, Attempt, Exhausted, ClientGoes, BodyBreaks, Finish, Close, Reserve, SlotExpires

LEMMA RelaySteps ==
  ASSUME NEW at, RelayNext(at)
  PROVE  /\ UNCHANGED <<models, mappings, rules, calls, overtaken, stale>>
         /\ \/ \E q \in Requests : QuietStep(q, at) \/ LogFailure(q) \/ Log(q)
            \/ \E k \in ChannelKeys : IsolationEnds(k)
            \/ \E c \in Channels : CircuitCloses(c)
BY DEF RelayNext, QuietStep

LEMMA RelayAlike ==
  ASSUME CatalogInv, NEW at, RelayNext(at)
  PROVE  ChannelsAlike /\ KeysAlike /\ PricesAlike
<1>1. ASSUME NEW q \in Requests, QuietStep(q, at)
      PROVE  ChannelsAlike /\ KeysAlike /\ PricesAlike
  BY <1>1, QuietSteps, SameAlike
<1> QED BY <1>1, RelaySteps, LogFailureAlike, LogAlike, IsolationEndsAlike, CircuitClosesAlike

LEMMA RelayKept ==
  ASSUME CatalogInv, NEW at, RelayNext(at)
  PROVE  CatalogInv'
<1>1. ChannelsAlike /\ KeysAlike /\ PricesAlike
  BY RelayAlike
<1>2. /\ TableOf(channels', Channels, ChannelFields) /\ TableOf(upstreamKeys', ChannelKeys, KeyFields)
      /\ TableOf(prices', Prices, PriceFields)
      /\ \A c \in Channels : channels'[c].lifecycle = channels[c].lifecycle
      /\ \A k \in ChannelKeys : upstreamKeys'[k].lifecycle = upstreamKeys[k].lifecycle
  BY <1>1 DEF ChannelsAlike, KeysAlike, PricesAlike, Alike, TableOf
<1>3. UNCHANGED <<models, mappings, rules, calls, overtaken, stale>>
  BY RelaySteps
<1>4. CatalogKept
  BY <1>2, <1>3, HealthKept
<1>5. CallsGoOn
  BY <1>3 DEF CallsGoOn, CatalogInv, CatalogTypeOK
<1> QED BY <1>4, <1>5, KeptInv

-----------------------------------------------------------------------------
(* The reservations of requests.                                           *)

\* One request goes on.
LEMMA RequestStep ==
  ASSUME RelayInv, NEW q \in Requests, NEW request, RequestOK(request), Goes(q, request),
         quota' = [p \in Policies |-> quota'[p]], ended' = [r \in Requests |-> ended'[r]],
         \A r \in Requests : r # q => ended'[r] = ended[r],
         \A p \in Policies : \A r \in quota'[p] : r = q \/ r \in quota[p],
         ReturnedOnce(q)'
  PROVE  RelayInv'
<1>1. /\ requests' = [r \in Requests |-> requests'[r]]
      /\ \A r \in Requests : requests'[r] = IF r = q THEN request ELSE requests[r]
  BY DEF Goes, RelayInv
<1>2. ASSUME NEW r \in Requests
      PROVE  RequestOK(requests'[r]) /\ ReturnedOnce(r)'
  <2>1. CASE r = q
    BY <1>1, <2>1
  <2>2. CASE r # q
    <3>1. requests'[r] = requests[r] /\ ended'[r] = ended[r] /\ RequestOK(requests[r]) /\ ReturnedOnce(r)
      BY <1>1, <2>2 DEF RelayInv
    <3>2. requests[r].stage \in {"UNLOGGED", "SETTLED", "DONE"} => requests[r].made \subseteq Policies
      BY <3>1 DEF RequestOK, NewRequest
    <3> QED BY <2>2, <3>1, <3>2 DEF ReturnedOnce
  <2> QED BY <2>1, <2>2
<1>3. (\A r \in Requests : RequestOK(requests[r]) /\ ReturnedOnce(r))'
  BY <1>2
<1> QED BY <1>1, <1>3 DEF RelayInv

\* A request that has not returned anything and goes on without doing so.
LEMMA RequestGoesOn ==
  ASSUME RelayInv, NEW q \in Requests, NEW request, RequestOK(request), Goes(q, request),
         request.stage \in {"OPEN", "REJECTED", "ANSWERED"},
         requests[q].stage \in {"NEW", "OPEN", "REJECTED", "ANSWERED"},
         quota' = [p \in Policies |-> quota'[p]],
         \A p \in Policies : \A r \in quota'[p] : r = q \/ r \in quota[p], UNCHANGED ended
  PROVE  RelayInv'
<1>1. requests'[q] = request
  BY DEF Goes, RelayInv
<1>2. ended[q] = <<>>
  BY DEF RelayInv, ReturnedOnce
<1>3. ReturnedOnce(q)'
  BY <1>1, <1>2 DEF ReturnedOnce
<1> QED BY <1>3, RequestStep DEF RelayInv

\* A request that returns what it made.
LEMMA RequestReturns ==
  ASSUME RelayInv, NEW q \in Requests, requests[q].stage \in {"OPEN", "REJECTED", "ANSWERED"},
         NEW request, RequestOK(request), Return(q, request),
         request.stage \in {"UNLOGGED", "SETTLED", "DONE"}, request.made = requests[q].made
  PROVE  RelayInv'
<1>1. PICK lost \in SUBSET Returned(q) :
        /\ quota' = [p \in Policies |-> IF p \in Returned(q) \ lost THEN quota[p] \ {q} ELSE quota[p]]
        /\ ended' = [ended EXCEPT ![q] = Append(@, [given |-> Returned(q), lost |-> lost])]
        /\ Goes(q, request)
  BY DEF Return
<1>2. PICK entry : entry = [given |-> Returned(q), lost |-> lost]
  OBVIOUS
<1>3. ended[q] = <<>>
  BY DEF RelayInv, ReturnedOnce
<1>4. ended' = [ended EXCEPT ![q] = <<entry>>]
  <2>1. Append(<<>>, entry) = <<entry>>
    OBVIOUS
  <2>2. ended' = [ended EXCEPT ![q] = Append(ended[q], entry)]
    BY <1>1, <1>2
  <2> QED BY <1>3, <2>1, <2>2
<1>5. ended'[q] = <<entry>> /\ entry.lost = lost
  BY <1>2, <1>4 DEF RelayInv
<1>6. Len(ended'[q]) = 1 /\ ended'[q][1].lost = lost
  BY <1>5
<1>7. requests'[q] = request
  BY <1>1 DEF Goes, RelayInv
<1>8. requests[q].made \subseteq Policies
  <2>1. RequestOK(requests[q])
    BY DEF RelayInv
  <2> QED BY <2>1 DEF RequestOK, NewRequest
<1>9. \A p \in request.made \ lost : q \notin quota'[p]
  BY <1>1, <1>8 DEF Returned
<1>10. ReturnedOnce(q)'
  BY <1>6, <1>7, <1>9 DEF ReturnedOnce
<1>11. \A p \in Policies : \A r \in quota'[p] : r \in quota[p]
  BY <1>1
<1>12. ended' = [r \in Requests |-> ended'[r]] /\ \A r \in Requests : r # q => ended'[r] = ended[r]
  BY <1>4 DEF RelayInv
<1> QED BY <1>1, <1>10, <1>11, <1>12, RequestStep

\* A request that has returned everything, or holds nothing more.
LEMMA RequestOver ==
  ASSUME RelayInv, NEW q \in Requests, requests[q].stage \in {"UNLOGGED", "SETTLED"},
         NEW request, RequestOK(request), Goes(q, request), request.stage = "DONE",
         request.made = requests[q].made, UNCHANGED <<quota, ended>>
  PROVE  RelayInv'
<1>1. requests'[q] = request
  BY DEF Goes, RelayInv
<1>2. ReturnedOnce(q)
  BY DEF RelayInv
<1>3. ReturnedOnce(q)'
  BY <1>1, <1>2 DEF ReturnedOnce
<1> QED BY <1>3, RequestStep DEF RelayInv

\* The routes of a request.
LEMMA RoutesTyped ==
  ASSUME CatalogInv, NEW m, NEW at
  PROVE  Routes(m, at) \subseteq Seq(Candidates)
<1> DEFINE S == CandidatesOf(m, at)
           Orders == {f \in [1 .. Cardinality(S) -> S] :
                        \A i, j \in 1 .. Cardinality(S) :
                          i < j => f[i] # f[j] /\ PriorityOf(f[i]) >= PriorityOf(f[j])}
           KeysOf == {g \in [S -> ChannelKeys] : \A b \in S : g[b] \in UsableKeys(mappings[b].channel)}
           Cost(f, i) == IF CostOf(f[i], at)[1] = "CHANNEL_COST_RULE" THEN {} ELSE FallbackPrices(m, at)
           Try(f, keyOf, i) == [mapping |-> f[i], channel |-> mappings[f[i]].channel, key |-> keyOf[f[i]],
                                price |-> Cost(f, i)]
<1>1. S \subseteq Mappings /\ \A b \in S : mappings[b].channel \in Channels
  BY DEF CandidatesOf, Routable, Live, CatalogInv, RowsMade
<1>2. Cardinality(S) \in Nat
  BY <1>1, RelayAssumption, FS_Subset, FS_CardinalityType
<1>3. FallbackPrices(m, at) \subseteq Prices
  BY DEF FallbackPrices
<1> HIDE DEF S
<1>4. ASSUME NEW route \in Routes(m, at)
      PROVE  route \in Seq(Candidates)
  <2>1. PICK f \in Orders : \E keyOf \in KeysOf : route = [i \in DOMAIN f |-> Try(f, keyOf, i)]
    BY DEF Routes, S
  <2>2. PICK keyOf \in KeysOf : route = [i \in DOMAIN f |-> Try(f, keyOf, i)]
    BY <2>1
  <2>3. f \in [1 .. Cardinality(S) -> S] /\ keyOf \in [S -> ChannelKeys]
    OBVIOUS
  <2>4. DOMAIN f = 1 .. Cardinality(S)
    BY <2>3
  <2>5. ASSUME NEW i \in 1 .. Cardinality(S)
        PROVE  Try(f, keyOf, i) \in Candidates
    <3>1. f[i] \in Mappings /\ mappings[f[i]].channel \in Channels /\ keyOf[f[i]] \in ChannelKeys
      BY <1>1, <2>3
    <3>2. Cost(f, i) \in SUBSET Prices
      BY <1>3
    <3> HIDE DEF Cost
    <3> QED BY <3>1, <3>2 DEF Candidates
  <2> HIDE DEF Try
  <2>6. route = [i \in 1 .. Cardinality(S) |-> Try(f, keyOf, i)]
    BY <2>2, <2>4
  <2>7. route \in [1 .. Cardinality(S) -> Candidates]
    BY <2>5, <2>6
  <2> QED BY <1>2, <2>7
<1> QED BY <1>4

\* A request under way.
LEMMA OpenRequest ==
  ASSUME RelayInv, NEW q \in Requests, requests[q].stage # "NEW"
  PROVE  LET request == requests[q]
         IN /\ request = [f \in RequestFields |-> request[f]]
            /\ request.stage \in {"OPEN", "REJECTED", "ANSWERED", "UNLOGGED", "SETTLED", "DONE"}
            /\ request.todo \subseteq Policies /\ request.made \subseteq Policies
            /\ request.route \in Seq(Candidates)
            /\ request.stage \in {"ANSWERED", "SETTLED"} => request.route # <<>>
BY DEF RelayInv, RequestOK, NewRequest

\* It goes on with some of its fields changed.
LEMMA RequestChanged ==
  ASSUME RelayInv, NEW q \in Requests, requests[q].stage # "NEW", NEW request,
         request = [f \in RequestFields |-> request[f]],
         request.stage \in {"OPEN", "REJECTED", "ANSWERED", "UNLOGGED", "SETTLED", "DONE"},
         request.todo \subseteq requests[q].todo, request.made \subseteq requests[q].made \cup Policies,
         \/ request.route = requests[q].route
         \/ request.route \in Seq(Candidates) /\ request.stage \notin {"ANSWERED", "SETTLED"},
         request.stage \in {"ANSWERED", "SETTLED"} =>
           requests[q].stage \in {"ANSWERED", "SETTLED"} \/ requests[q].route # <<>>
  PROVE  RequestOK(request)
BY OpenRequest DEF RequestOK

LEMMA BeginInv ==
  ASSUME CatalogInv, RelayInv, NEW q \in Requests, NEW m \in Models, NEW at, Begin(q, m, at)
  PROVE  RelayInv'
<1>1. requests[q].stage = "NEW" /\ UNCHANGED <<quota, ended>>
  BY DEF Begin, NewRequest
<1>2. PICK route \in Routes(m, at), todo \in SUBSET Policies, streaming \in BOOLEAN :
        Goes(q, [stage |-> "OPEN", todo |-> todo, made |-> {}, first |-> route[1], route |-> route,
                 tries |-> 0, tried |-> <<>>, streaming |-> streaming, gone |-> FALSE,
                 finalized |-> FALSE])
  BY DEF Begin
<1>3. PICK request : request = [stage |-> "OPEN", todo |-> todo, made |-> {}, first |-> route[1],
                                route |-> route, tries |-> 0, tried |-> <<>>, streaming |-> streaming,
                                gone |-> FALSE, finalized |-> FALSE]
  OBVIOUS
<1>4. route \in Seq(Candidates)
  BY RoutesTyped
<1>5. request = [f \in RequestFields |-> request[f]]
  BY <1>3 DEF RequestFields
<1>6. request.stage = "OPEN" /\ request.todo = todo /\ request.made = {} /\ request.route = route
  BY <1>3
<1>7. RequestOK(request)
  BY <1>4, <1>5, <1>6 DEF RequestOK
<1>8. Goes(q, request)
  BY <1>2, <1>3
<1> QED BY <1>1, <1>6, <1>7, <1>8, RequestGoesOn DEF RelayInv

LEMMA ReserveInv ==
  ASSUME RelayInv, NEW q \in Requests, NEW p \in Policies, Reserve(q, p)
  PROVE  RelayInv'
<1>1. requests[q].stage = "OPEN" /\ UNCHANGED ended
  BY DEF Reserve
<1>2. requests[q] = [f \in RequestFields |-> requests[q][f]]
  BY <1>1, OpenRequest
<1>3. /\ quota' = [r \in Policies |-> quota'[r]]
      /\ \A r \in Policies : \A s \in quota'[r] : s = q \/ s \in quota[r]
  BY DEF Reserve, RelayInv
<1>4. CASE Rejected(q)
  <2>1. PICK request : request = [requests[q] EXCEPT !.stage = "REJECTED"]
    OBVIOUS
  <2>2. /\ request = [f \in RequestFields |-> request[f]] /\ request.stage = "REJECTED"
        /\ request.todo = requests[q].todo /\ request.made = requests[q].made
        /\ request.route = requests[q].route
    BY <1>2, <2>1 DEF RequestFields
  <2>3. RequestOK(request)
    BY <1>1, <2>2, RequestChanged
  <2>4. Goes(q, request)
    BY <1>4, <2>1 DEF Rejected
  <2> QED BY <1>1, <1>3, <2>2, <2>3, <2>4, RequestGoesOn
<1>5. CASE ~Rejected(q)
  <2>1. PICK stage \in {"OPEN", "REJECTED"} :
          Goes(q, [requests[q] EXCEPT !.stage = stage, !.todo = @ \ {p}, !.made = @ \cup {p}])
    BY <1>5 DEF Reserve
  <2>2. PICK request : request = [requests[q] EXCEPT !.stage = stage, !.todo = @ \ {p}, !.made = @ \cup {p}]
    OBVIOUS
  <2>3. /\ request = [f \in RequestFields |-> request[f]] /\ request.stage = stage
        /\ request.todo = requests[q].todo \ {p} /\ request.made = requests[q].made \cup {p}
        /\ request.route = requests[q].route
    BY <1>2, <2>2 DEF RequestFields
  <2>4. RequestOK(request)
    BY <1>1, <2>3, RequestChanged
  <2>5. Goes(q, request)
    BY <2>1, <2>2
  <2> QED BY <1>1, <1>3, <2>3, <2>4, <2>5, RequestGoesOn
<1> QED BY <1>4, <1>5

\* The end of a request in one step.
LEMMA EndsInv ==
  ASSUME RelayInv, NEW q \in Requests, Reject(q) \/ Exhausted(q)
  PROVE  RelayInv'
<1>1. PICK stage \in {"DONE", "UNLOGGED"} :
        /\ requests[q].stage \in {"OPEN", "REJECTED"}
        /\ Return(q, [requests[q] EXCEPT !.stage = stage])
  BY DEF Reject, Exhausted
<1>2. PICK request : request = [requests[q] EXCEPT !.stage = stage]
  OBVIOUS
<1>3. requests[q] = [f \in RequestFields |-> requests[q][f]]
  BY <1>1, OpenRequest
<1>4. /\ request = [f \in RequestFields |-> request[f]] /\ request.stage = stage
      /\ request.todo = requests[q].todo /\ request.made = requests[q].made
      /\ request.route = requests[q].route
  BY <1>2, <1>3 DEF RequestFields
<1>5. RequestOK(request)
  BY <1>1, <1>4, RequestChanged
<1>6. Return(q, request)
  BY <1>1, <1>2
<1> QED BY <1>1, <1>4, <1>5, <1>6, RequestReturns

LEMMA AttemptInv ==
  ASSUME RelayInv, NEW q \in Requests, Attempt(q)
  PROVE  RelayInv'
<1> DEFINE old == requests[q]
<1>1. old.stage = "OPEN" /\ old.route # <<>> /\ UNCHANGED <<quota, ended>>
  BY DEF Attempt
<1>2. PICK tried : \/ Goes(q, [old EXCEPT !.stage = "ANSWERED", !.tried = tried])
                   \/ Goes(q, [old EXCEPT !.tries = @ + 1, !.tried = tried])
                   \/ Goes(q, [old EXCEPT !.tries = 0, !.tried = tried, !.route = Tail(@)])
  <2>1. PICK status : LET tried == Append(old.tried, [channel |-> old.route[1].channel,
                                                      key |-> old.route[1].key, status |-> status])
                      IN Goes(q, CASE status \notin Retried -> [old EXCEPT !.stage = "ANSWERED", !.tried = tried]
                                   [] status \in Retried /\ old.tries < MaxRetries ->
                                        [old EXCEPT !.tries = @ + 1, !.tried = tried]
                                   [] OTHER -> [old EXCEPT !.tries = 0, !.tried = tried, !.route = Tail(@)])
    BY DEF Attempt
  <2> DEFINE tried == Append(old.tried, [channel |-> old.route[1].channel,
                                         key |-> old.route[1].key, status |-> status])
  <2> HIDE DEF old
  <2>2. CASE status \notin Retried
    BY <2>1, <2>2
  <2>3. CASE status \in Retried /\ old.tries < MaxRetries
    BY <2>1, <2>3
  <2>4. CASE status \in Retried /\ ~(old.tries < MaxRetries)
    BY <2>1, <2>4
  <2> QED BY <2>2, <2>3, <2>4
<1>3. old = [f \in RequestFields |-> old[f]] /\ old.route \in Seq(Candidates)
  BY <1>1, OpenRequest
<1>4. PICK request : /\ Goes(q, request)
                     /\ \/ request = [old EXCEPT !.stage = "ANSWERED", !.tried = tried]
                        \/ request = [old EXCEPT !.tries = @ + 1, !.tried = tried]
                        \/ request = [old EXCEPT !.tries = 0, !.tried = tried, !.route = Tail(@)]
  BY <1>2
<1>5. Tail(old.route) \in Seq(Candidates)
  BY <1>1, <1>3
<1> HIDE DEF old
<1>6. /\ request = [f \in RequestFields |-> request[f]]
      /\ request.todo = old.todo /\ request.made = old.made
      /\ \/ request.stage = "ANSWERED" /\ request.route = old.route
         \/ request.stage = old.stage /\ request.route = old.route
         \/ request.stage = old.stage /\ request.route = Tail(old.route)
  BY <1>3, <1>4 DEF RequestFields
<1>7. RequestOK(request)
  BY <1>1, <1>5, <1>6, RequestChanged DEF old
<1>8. /\ quota' = [p \in Policies |-> quota'[p]]
      /\ \A p \in Policies : \A r \in quota'[p] : r = q \/ r \in quota[p]
  BY <1>1 DEF RelayInv
<1> QED BY <1>1, <1>4, <1>6, <1>7, <1>8, RequestGoesOn DEF old

LEMMA GoneInv ==
  ASSUME RelayInv, NEW q \in Requests, ClientGoes(q) \/ BodyBreaks(q)
  PROVE  RelayInv'
<1>1. PICK request : request = [requests[q] EXCEPT !.gone = TRUE]
  OBVIOUS
<1>2. requests[q].stage \in {"OPEN", "ANSWERED"} /\ UNCHANGED <<quota, ended>> /\ Goes(q, request)
  BY <1>1 DEF ClientGoes, BodyBreaks
<1>3. requests[q] = [f \in RequestFields |-> requests[q][f]]
  BY <1>2, OpenRequest
<1>4. /\ request = [f \in RequestFields |-> request[f]] /\ request.stage = requests[q].stage
      /\ request.todo = requests[q].todo /\ request.made = requests[q].made
      /\ request.route = requests[q].route
  BY <1>1, <1>3 DEF RequestFields
<1>5. RequestOK(request)
  BY <1>2, <1>4, RequestChanged
<1> QED BY <1>2, <1>4, <1>5, RequestGoesOn DEF RelayInv

LEMMA SaveLogInv ==
  ASSUME RelayInv, NEW q \in Requests, Finish(q) \/ Close(q)
  PROVE  RelayInv'
<1>1. PICK status : requests[q].stage = "ANSWERED" /\ SaveLog(q, status)
  BY DEF Finish, Close
<1>2. PICK tried : Return(q, [requests[q] EXCEPT !.stage = "SETTLED", !.finalized = TRUE, !.tried = tried])
  <2>1. PICK tried : tried = [requests[q].tried EXCEPT ![Len(requests[q].tried)].status = status]
    OBVIOUS
  <2>2. [requests[q] EXCEPT !.stage = "SETTLED", !.finalized = TRUE, !.tried = tried]
        = [requests[q] EXCEPT !.stage = "SETTLED", !.finalized = TRUE,
                              !.tried[Len(requests[q].tried)].status = status]
    BY <2>1
  <2> QED BY <1>1, <2>2 DEF SaveLog
<1>3. PICK request : request = [requests[q] EXCEPT !.stage = "SETTLED", !.finalized = TRUE, !.tried = tried]
  OBVIOUS
<1>4. requests[q] = [f \in RequestFields |-> requests[q][f]]
  BY <1>1, OpenRequest
<1>5. /\ request = [f \in RequestFields |-> request[f]] /\ request.stage = "SETTLED"
      /\ request.todo = requests[q].todo /\ request.made = requests[q].made
      /\ request.route = requests[q].route
  BY <1>3, <1>4 DEF RequestFields
<1>6. RequestOK(request)
  BY <1>1, <1>5, RequestChanged
<1>7. Return(q, request)
  BY <1>2, <1>3
<1> QED BY <1>1, <1>5, <1>6, <1>7, RequestReturns

LEMMA LoggedInv ==
  ASSUME RelayInv, NEW q \in Requests, LogFailure(q) \/ Log(q)
  PROVE  RelayInv'
<1>1. PICK request : request = [requests[q] EXCEPT !.stage = "DONE"]
  OBVIOUS
<1>2. /\ requests[q].stage \in {"UNLOGGED", "SETTLED"} /\ UNCHANGED <<quota, ended>>
      /\ Goes(q, request)
  BY <1>1 DEF LogFailure, Log
<1>3. requests[q] = [f \in RequestFields |-> requests[q][f]]
  BY <1>2, OpenRequest
<1>4. /\ request = [f \in RequestFields |-> request[f]] /\ request.stage = "DONE"
      /\ request.todo = requests[q].todo /\ request.made = requests[q].made
      /\ request.route = requests[q].route
  BY <1>1, <1>3 DEF RequestFields
<1>5. RequestOK(request)
  BY <1>2, <1>4, RequestChanged
<1> QED BY <1>2, <1>4, <1>5, RequestOver

LEMMA ExpiresInv ==
  ASSUME RelayInv, NEW q \in Requests, NEW p \in Policies, SlotExpires(q, p)
  PROVE  RelayInv'
<1>1. UNCHANGED <<requests, ended>> /\ quota' = [quota EXCEPT ![p] = @ \ {q}]
  BY DEF SlotExpires
<1>2. quota' = [r \in Policies |-> quota'[r]] /\ \A r \in Policies : quota'[r] \subseteq quota[r]
  BY <1>1 DEF RelayInv
<1>3. ASSUME NEW r \in Requests
      PROVE  RequestOK(requests'[r]) /\ ReturnedOnce(r)'
  <2>1. RequestOK(requests[r]) /\ ReturnedOnce(r)
    BY DEF RelayInv
  <2>2. requests[r].stage \in {"UNLOGGED", "SETTLED", "DONE"} => requests[r].made \subseteq Policies
    BY <2>1 DEF RequestOK, NewRequest
  <2> QED BY <1>1, <1>2, <2>1, <2>2 DEF ReturnedOnce
<1>4. (\A r \in Requests : RequestOK(requests[r]) /\ ReturnedOnce(r))'
  BY <1>3
<1> QED BY <1>1, <1>2, <1>4 DEF RelayInv

LEMMA RelayStepInv ==
  ASSUME CatalogInv, RelayInv, NEW at, RelayNext(at)
  PROVE  RelayInv'
<1>1. ASSUME NEW q \in Requests, QuietStep(q, at) \/ LogFailure(q) \/ Log(q)
      PROVE  RelayInv'
  BY <1>1, BeginInv, ReserveInv, EndsInv, AttemptInv, GoneInv, SaveLogInv, LoggedInv, ExpiresInv DEF QuietStep
<1>2. CASE UNCHANGED relayVars
  BY <1>2 DEF RelayInv, RequestOK, ReturnedOnce, relayVars
<1> QED BY <1>1, <1>2, RelaySteps DEF IsolationEnds, CircuitCloses

LEMMA RelayInitInv ==
  ASSUME RelayInit
  PROVE  RelayInv
<1>1. \A q \in Requests : requests[q] = NewRequest /\ ended[q] = <<>>
  BY DEF RelayInit
<1>2. NewRequest.stage = "NEW"
  BY DEF NewRequest
<1> QED BY <1>1, <1>2 DEF RelayInv, RelayInit, RequestOK, ReturnedOnce

-----------------------------------------------------------------------------
(* Keys that a supplier refused.                                           *)

LEMMA UnlockedKeyKept ==
  ASSUME CatalogInv, NEW k \in ChannelKeys, upstreamKeys[k].lifecycle # "ABSENT",
         ~upstreamKeys[k].enabled, NEW x \in Calls, FinishUnlocked(x), ~Enables(x, k)
  PROVE  ~upstreamKeys'[k].enabled
<1> DEFINE call == calls[x]
           id == call.id
<1>1. CASE call.table # "upstreamKeys"
  BY <1>1 DEF FinishUnlocked
<1>2. CASE call.table = "upstreamKeys"
  <2>1. upstreamKeys' = [upstreamKeys EXCEPT ![id] = Result(call, upstreamKeys[id])]
    BY <1>2 DEF FinishUnlocked
  <2>2. \/ call.op = "INSERT" /\ InsertOK(call) /\ ~Violates(call)
        \/ call.op = "WRITE" /\ WriteOK(call) /\ CallFollows(call)
    BY UnlockedCall
  <2>3. call.op = "WRITE" /\ id = k /\ "enabled" \in DOMAIN call.patch => ~call.patch["enabled"]
    BY <1>2 DEF Enables
  <2> HIDE DEF call
  <2>4. \A l \in ChannelKeys : upstreamKeys'[l] = IF l = id THEN Result(call, upstreamKeys[id]) ELSE upstreamKeys[l]
    BY <2>1, RowsTyped DEF TableOf
  <2>5. CASE k # id
    BY <2>4, <2>5
  <2>6. CASE k = id /\ call.op = "INSERT"
    BY <1>2, <2>2, <2>6 DEF Violates
  <2>7. CASE k = id /\ call.op = "WRITE"
    <3>1. PICK row : row = Merge(upstreamKeys[k], call.patch)
      OBVIOUS
    <3>2. row.enabled = IF "enabled" \in DOMAIN call.patch THEN call.patch["enabled"] ELSE upstreamKeys[k].enabled
      BY <3>1, MergeField, RowsTyped, KeyColumns
    <3>3. upstreamKeys'[k] = row
      BY <2>4, <2>7, <3>1 DEF Result
    <3> QED BY <2>3, <2>7, <3>2, <3>3
  <2> QED BY <2>2, <2>5, <2>6, <2>7
<1> QED BY <1>1, <1>2

LEMMA ArchivedKeyKept ==
  ASSUME CatalogInv, NEW k \in ChannelKeys, ~upstreamKeys[k].enabled, NEW c \in Channels, ArchiveChannel(c)
  PROVE  ~upstreamKeys'[k].enabled
<1>1. PICK patch : patch = [lifecycle |-> "ARCHIVED", enabled |-> FALSE, health |-> "DISABLED",
                            isolated |-> FALSE]
  OBVIOUS
<1>2. "enabled" \in DOMAIN patch /\ ~patch["enabled"]
  BY <1>1
<1>3. PICK row : row = Merge(upstreamKeys[k], patch)
  OBVIOUS
<1>4. ~row.enabled
  BY <1>2, <1>3, MergeField, RowsTyped, KeyColumns
<1>5. upstreamKeys'[k] = upstreamKeys[k] \/ upstreamKeys'[k] = row
  BY <1>1, <1>3 DEF ArchiveChannel
<1> QED BY <1>4, <1>5

LEMMA ProbedKeyKept ==
  ASSUME CatalogInv, NEW k \in ChannelKeys, ~upstreamKeys[k].enabled, NEW x \in Calls, FinishProbe(x)
  PROVE  ~upstreamKeys'[k].enabled
<1>1. upstreamKeys' \in {[upstreamKeys EXCEPT ![calls[x].key].health = "DISABLED"], upstreamKeys}
  BY DEF FinishProbe
<1>2. PICK l : l = calls[x].key
  OBVIOUS
<1>3. CASE upstreamKeys' = [upstreamKeys EXCEPT ![calls[x].key].health = "DISABLED"]
  <2>1. PICK row : row = [upstreamKeys[l] EXCEPT !.health = "DISABLED"]
    OBVIOUS
  <2>2. upstreamKeys' = [upstreamKeys EXCEPT ![l] = row]
    BY <1>2, <1>3, <2>1
  <2>3. upstreamKeys'[k] = IF k = l THEN row ELSE upstreamKeys[k]
    BY <2>2, RowsTyped DEF TableOf
  <2>4. k = l => row.enabled = upstreamKeys[k].enabled
    BY <2>1, RowsTyped, KeyColumns DEF HasFields
  <2> QED BY <2>3, <2>4
<1> QED BY <1>1, <1>3

LEMMA KeysHistoryInv ==
  ASSUME CatalogInv, CatalogInv', KeysInv, CatalogNext, CatalogHistory
  PROVE  KeysInv'
<1> SUFFICES ASSUME NEW k \in refused'
             PROVE  k \in ChannelKeys /\ upstreamKeys'[k].lifecycle # "ABSENT" /\ ~upstreamKeys'[k].enabled
  BY DEF KeysInv
<1>1. k \in refused /\ ~ \E x \in Calls : FinishUnlocked(x) /\ Enables(x, k)
  BY DEF CatalogHistory
<1>2. k \in ChannelKeys /\ upstreamKeys[k].lifecycle # "ABSENT" /\ ~upstreamKeys[k].enabled
  BY <1>1 DEF KeysInv
<1>3. RowsMade
  BY DEF CatalogInv
<1>4. CASE UNCHANGED upstreamKeys
  BY <1>2, <1>4
<1>5. ASSUME CatalogKept
      PROVE  upstreamKeys'[k].lifecycle # "ABSENT"
  BY <1>2, <1>5 DEF CatalogKept, RowsKept
<1>6. ASSUME NEW x \in Calls, FinishUnlocked(x)
      PROVE  upstreamKeys'[k].lifecycle # "ABSENT" /\ ~upstreamKeys'[k].enabled
  BY <1>1, <1>2, <1>5, <1>6, UnlockedKept, UnlockedKeyKept
<1>7. ASSUME NEW x \in Calls, FinishProbe(x)
      PROVE  upstreamKeys'[k].lifecycle # "ABSENT" /\ ~upstreamKeys'[k].enabled
  BY <1>2, <1>5, <1>7, FinishProbeKept, ProbedKeyKept
<1>8. ASSUME NEW c \in Channels, ArchiveChannel(c)
      PROVE  upstreamKeys'[k].lifecycle # "ABSENT" /\ ~upstreamKeys'[k].enabled
  BY <1>2, <1>5, <1>8, ArchiveChannelKept, ArchivedKeyKept
<1>9. ASSUME NEW x \in Calls,
             \/ Begins(x) \/ FinishArchive(x) \/ FinishBinding(x) \/ CheckRule(x) \/ FinishRule(x) \/ Fail(x)
      PROVE  UNCHANGED upstreamKeys
  BY <1>9 DEF Begins, Start, FinishArchive, FinishBinding, CheckRule, FinishRule, Fail
<1>10. ASSUME NEW m \in Models, ArchiveModel(m)
       PROVE  UNCHANGED upstreamKeys
  BY <1>10 DEF ArchiveModel
<1> QED BY <1>2, <1>3, <1>4, <1>6, <1>7, <1>8, <1>9, <1>10, CatalogSteps

LEMMA KeysRelayInv ==
  ASSUME CatalogInv, RelayInv, KeysInv, NEW at, RelayNext(at)
  PROVE  KeysInv'
<1>1. \A k \in ChannelKeys : /\ upstreamKeys'[k].lifecycle = upstreamKeys[k].lifecycle
                             /\ upstreamKeys'[k].enabled => upstreamKeys[k].enabled
  BY RelayAlike DEF KeysAlike, Alike
<1>2. CASE refused' = refused
  BY <1>1, <1>2 DEF KeysInv
<1>3. ASSUME NEW q \in Requests, Log(q)
      PROVE  KeysInv'
  <2>1. /\ requests[q].stage = "SETTLED" /\ requests[q].route \in Seq(Candidates)
        /\ requests[q].route # <<>>
    BY <1>3, OpenRequest DEF Log
  <2>2. requests[q].route[1] \in Candidates
    BY <2>1
  <2>3. requests[q].route[1].key \in ChannelKeys
    BY <2>2 DEF Candidates
  <2>4. \A k \in refused' : k \in refused \/ /\ k = requests[q].route[1].key /\ Live(upstreamKeys[k])
                                             /\ k \in ChannelKeys => ~upstreamKeys'[k].enabled
    BY <1>3, LogAlike
  <2> QED BY <1>1, <2>3, <2>4 DEF KeysInv, Live
<1>4. ASSUME NEW q \in Requests, QuietStep(q, at) \/ LogFailure(q)
      PROVE  KeysInv'
  BY <1>2, <1>4, QuietSteps, LogFailureAlike
<1>5. CASE (\E k \in ChannelKeys : IsolationEnds(k)) \/ (\E c \in Channels : CircuitCloses(c))
  BY <1>2, <1>5 DEF IsolationEnds, CircuitCloses, relayVars
<1> QED BY <1>3, <1>4, <1>5, RelaySteps

-----------------------------------------------------------------------------
(* The whole.                                                              *)

\* What a rule says of costs, as a schedule.
ScheduleOf(row) ==
  [enabled |-> row.enabled, priority |-> row.priority, days |-> row.days, start |-> row.start,
   end |-> row.end, from |-> row.from, until |-> row.until, created |-> row.created]

LEMMA RowSchedule ==
  ASSUME NEW row, HasFields(row, RuleFields), row.days # {}, NEW at
  PROVE  /\ ScheduleOf(row) \in Schedule /\ SameWindow(ScheduleOf(row), row)
         /\ Applies(row, at) => Applies(ScheduleOf(row), at)
<1>1. ScheduleOf(row) \in Schedule
  BY RuleRow DEF ScheduleOf, Schedule
<1>2. SameWindow(ScheduleOf(row), row) /\ ScheduleOf(row).enabled = row.enabled
  BY DEF ScheduleOf, SameWindow
<1>3. Applies(row, at) => Applies(ScheduleOf(row), at)
  BY <1>2 DEF Applies, InForce, MatchesLocalTime, SameWindow
<1> QED BY <1>1, <1>2, <1>3

LEMMA UnambiguousCosts ==
  ASSUME CatalogInv
  PROVE  CostUnambiguous
<1> SUFFICES ASSUME NEW b \in Mappings, NEW r \in LiveRules(b), NEW s \in LiveRules(b), r # s,
                    rules[r].priority = rules[s].priority, NEW at \in 0 .. 2 * Horizon
             PROVE  ~(Applies(rules[r], at) /\ Applies(rules[s], at))
  BY DEF CostUnambiguous
<1>1. at \in Nat
  OBVIOUS
<1>2. r \in RuleIds /\ s \in RuleIds /\ rules[r].enabled /\ rules[s].enabled
      /\ Live(rules[r]) /\ Live(rules[s])
  BY DEF LiveRules, RulesOf
<1>3. HasFields(rules[r], RuleFields) /\ HasFields(rules[s], RuleFields)
  BY <1>2, TableRow DEF CatalogInv, CatalogTypeOK, TablesTypeOK
<1>4. rules[r].days # {} /\ rules[s].days # {}
  BY <1>2 DEF CatalogInv, RowsMade, Live
<1>5. ~CostRulesOverlap(rules[r], rules[s])
  BY DEF CatalogInv, NoConflicts
<1>6. ~CostRulesOverlap(ScheduleOf(rules[r]), ScheduleOf(rules[s]))
  BY <1>2, <1>3, <1>4, <1>5, RowSchedule, SameOverlap
<1> QED BY <1>1, <1>3, <1>4, <1>6, RowSchedule, NoOverlapNoTie

GatewayInv == CatalogInv /\ TestsInv /\ RelayInv /\ KeysInv

LEMMA GatewayInitInv ==
  ASSUME CatalogInit, TestingInit, RelayInit
  PROVE  GatewayInv
<1>1. KeysInv
  BY DEF KeysInv, RelayInit
<1> QED BY <1>1, CatalogInitInv, TestsInitInv, RelayInitInv DEF GatewayInv

LEMMA GatewayNextInv ==
  ASSUME GatewayInv, [GatewayNext]_gatewayVars
  PROVE  GatewayInv'
<1>1. CatalogInv /\ TestsInv /\ RelayInv /\ KeysInv
  BY DEF GatewayInv
<1>2. CASE CatalogNext /\ CatalogHistory
  <2>1. CatalogInv' /\ TestsInv'
    BY <1>1, <1>2, CatalogNextInv, HistoryInv
  <2>2. RelayInv'
    BY <1>1, <1>2 DEF CatalogHistory, RelayInv, ReturnedOnce
  <2> QED BY <1>1, <1>2, <2>1, <2>2, KeysHistoryInv DEF GatewayInv
<1>3. CASE TestingNext /\ UNCHANGED relayVars
  <2>1. CatalogInv' /\ TestsInv'
    BY <1>1, <1>3, TestingKept, TestingInv
  <2>2. RelayInv' /\ KeysInv'
    BY <1>1, <1>3 DEF relayVars, TestingNext, RelayInv, ReturnedOnce, KeysInv
  <2> QED BY <2>1, <2>2 DEF GatewayInv
<1>4. CASE (\E at \in Nat : RelayNext(at)) /\ UNCHANGED testingVars
  <2>1. PICK at \in Nat : RelayNext(at)
    BY <1>4
  <2>2. CatalogInv' /\ RelayInv' /\ KeysInv'
    BY <1>1, <2>1, RelayKept, RelayStepInv, KeysRelayInv
  <2>3. TestsInv'
    BY <1>1, <1>4, <2>1 DEF RelayNext, testingVars, TestsInv
  <2> QED BY <2>2, <2>3 DEF GatewayInv
<1>5. CASE UNCHANGED gatewayVars
  <2>1. /\ UNCHANGED <<channels, upstreamKeys, models, mappings, rules, prices, calls, overtaken, stale>>
        /\ UNCHANGED <<tests, clock, inARow, claims>> /\ UNCHANGED <<requests, quota, ended, refused>>
    BY <1>5 DEF gatewayVars, catalogVars, testingVars, relayVars
  <2>2. CatalogInv'
    <3>1. CallsGoOn
      BY <1>1, <2>1 DEF CallsGoOn, CatalogInv, CatalogTypeOK
    <3> QED BY <1>1, <2>1, <3>1, SameRowsKept, KeptInv DEF SameRows
  <2>3. TestsInv' /\ RelayInv' /\ KeysInv'
    BY <1>1, <2>1 DEF TestsInv, RelayInv, ReturnedOnce, KeysInv
  <2> QED BY <2>2, <2>3 DEF GatewayInv
<1> QED BY <1>2, <1>3, <1>4, <1>5 DEF GatewayNext

LEMMA GatewayInvariant == GatewaySpec => []GatewayInv
<1>1. CatalogInit /\ TestingInit /\ RelayInit => GatewayInv
  BY GatewayInitInv
<1>2. GatewayInv /\ [GatewayNext]_gatewayVars => GatewayInv'
  BY GatewayNextInv
<1> QED BY <1>1, <1>2, PTL DEF GatewaySpec

\* Types: whatever administrators, workers and requests do at once, the rows
\* of the catalogue keep their fields, and a call under way writes only fields
\* of its table.
THEOREM CatalogTypeCorrect == GatewaySpec => []CatalogTypeOK
<1>1. GatewayInv => CatalogTypeOK
  BY DEF GatewayInv, CatalogInv
<1> QED BY <1>1, GatewayInvariant, PTL

\* Concurrent administrators never leave two enabled rules of a mapping with one
\* priority that apply at the same instant (procurement-costs.service.ts: the
\* check under the lock of the mapping's rules).
THEOREM CostsUnambiguous == GatewaySpec => []CostUnambiguous
<1>1. GatewayInv => CostUnambiguous
  BY UnambiguousCosts DEF GatewayInv
<1> QED BY <1>1, GatewayInvariant, PTL

\* A mapping in use has a channel and a public model in use, unless an unlocked
\* write revived it whose parent was archived since its look
\* (model-binding.service.ts: the locks of the parents).
THEOREM MappingsFollowParents == GatewaySpec => []BindingsFollowParents
<1>1. GatewayInv => BindingsFollowParents
  BY DEF GatewayInv, CatalogInv
<1> QED BY <1>1, GatewayInvariant, PTL

\* Every outcome of a test is counted once, and a due mapping is tested by one
\* pass (model-testing.service.ts: the two compare-and-sets).
THEOREM EveryOutcomeCounted == GatewaySpec => []OutcomesCountedOnce
<1>1. GatewayInv => OutcomesCountedOnce
  BY DEF GatewayInv, TestsInv, TestOK, OutcomesCountedOnce
<1> QED BY <1>1, GatewayInvariant, PTL

\* A request that is over has ended each of its reservations exactly once
\* (gateway.service.ts: release, saveLog and its `finalized`).
THEOREM EveryReservationEnds == GatewaySpec => []ReservationsEnd
<1>1. GatewayInv => ReservationsEnd
  BY DEF GatewayInv, RelayInv, ReturnedOnce, ReservationsEnd
<1> QED BY <1>1, GatewayInvariant, PTL

\* A key that a supplier refused stays out of the routes until an administrator
\* enables it, whatever else is recorded of it (gateway.service.ts, worker.service.ts).
THEOREM RefusedKeysStayOut == GatewaySpec => []RefusedStaysOut
<1>1. GatewayInv => RefusedStaysOut
  BY DEF GatewayInv, KeysInv, RefusedStaysOut
<1> QED BY <1>1, GatewayInvariant, PTL
====
