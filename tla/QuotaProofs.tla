----------------------------- MODULE QuotaProofs ------------------------------
(***************************************************************************)
(* The Redis quota, for any requests, policies, amounts and limits: its    *)
(* cost counters are sums over the markers, and its concurrency keys count *)
(* the requests that hold a slot.                                          *)
(***************************************************************************)
EXTENDS QuotaRedis, TotalsProofs

\* The types, with counters that could fall below zero: that they do not is
\* a consequence of UsageExact.
QuotaTypes ==
  /\ marker \in [Requests -> [Policies -> Marker]]
  /\ usage \in [Policies -> [Windows -> [state: {"UNOPENED", "OPEN", "EXPIRED"},
                                         cost: Int]]]
  /\ slots \in [Policies -> Slots]
  /\ renewing \subseteq Requests

-------------------------------------------------------------------------------
(* Rows, and what a script makes of them.                                  *)

LEMMA QuotaRows ==
  ASSUME QuotaTypes, NEW p \in Policies
  PROVE  /\ \A r \in Requests : marker[r][p] \in Marker
         /\ slots[p] \in Slots
         /\ \A w \in Windows :
              /\ usage[p][w].state \in {"UNOPENED", "OPEN", "EXPIRED"}
              /\ usage[p][w].cost \in Int
BY DEF QuotaTypes

LEMMA MarkerSet ==
  ASSUME QuotaTypes, NEW r \in Requests, NEW p \in Policies, NEW m \in Marker,
         SetMarker(r, p, m)
  PROVE  /\ marker' \in [Requests -> [Policies -> Marker]]
         /\ \A x \in Requests, q \in Policies :
              marker'[x][q] = IF x = r /\ q = p THEN m ELSE marker[x][q]
<1>1. marker' = [marker EXCEPT ![r] = [marker[r] EXCEPT ![p] = m]]
  BY DEF SetMarker
<1>2. [marker[r] EXCEPT ![p] = m] \in [Policies -> Marker]
  BY DEF QuotaTypes
<1>3. marker' \in [Requests -> [Policies -> Marker]]
  BY <1>1, <1>2 DEF QuotaTypes
<1>4. \A x \in Requests : marker'[x] = IF x = r THEN [marker[r] EXCEPT ![p] = m]
                                       ELSE marker[x]
  BY <1>1 DEF QuotaTypes
<1>5. \A q \in Policies :
        [marker[r] EXCEPT ![p] = m][q] = IF q = p THEN m ELSE marker[r][q]
  BY DEF QuotaTypes
<1> QED BY <1>3, <1>4, <1>5

LEMMA FreedType ==
  ASSUME QuotaTypes, NEW r \in Requests, NEW p \in Policies
  PROVE  /\ Freed(r, p) \in Slots
         /\ Freed(r, p).count =
              IF Frees(r, p) THEN slots[p].count - 1 ELSE slots[p].count
         /\ \A f \in DOMAIN slots[p] : f # "count" => Freed(r, p)[f] = slots[p][f]
<1>1. slots[p] \in Slots
  BY QuotaRows
<1>2. Frees(r, p) => slots[p].count - 1 \in Nat
  BY <1>1 DEF Frees, Slots
<1> QED BY <1>1, <1>2 DEF Freed, Slots

LEMMA EnteredType ==
  ASSUME QuotaTypes, NEW r \in Requests, NEW p \in Policies
  PROVE  /\ Entered(r, p) \in Slots
         /\ Entered(r, p).exists /\ Entered(r, p).count = slots[p].count + 1
         /\ Entered(r, p).generation = IF Marked(r) /\ ~slots[p].exists THEN r
                                       ELSE slots[p].generation
         /\ Entered(r, p).overrun = slots[p].overrun
         /\ Entered(r, p).lapsed = slots[p].lapsed
<1> DEFINE g == IF Marked(r) /\ ~slots[p].exists THEN r ELSE slots[p].generation
           a == ~Marked(r)
<1>1. slots[p] \in Slots
  BY QuotaRows
<1>2. g \in Requests \cup {NoGeneration} /\ a \in BOOLEAN
  BY <1>1 DEF Slots, Marked
<1>3. Entered(r, p) = [slots[p] EXCEPT !.exists = TRUE, !.count = @ + 1,
                                       !.generation = g, !.ahead = a]
  BY DEF Entered
<1> HIDE DEF a
<1>4. slots[p].count + 1 \in Nat
  BY <1>1 DEF Slots
<1>5. Entered(r, p).generation = g
  BY <1>1, <1>3 DEF Slots
<1> HIDE DEF g
<1>6. /\ Entered(r, p) \in Slots
      /\ Entered(r, p).exists /\ Entered(r, p).count = slots[p].count + 1
      /\ Entered(r, p).overrun = slots[p].overrun
      /\ Entered(r, p).lapsed = slots[p].lapsed
  BY <1>1, <1>2, <1>3, <1>4 DEF Slots
<1> QED BY <1>5, <1>6 DEF g

LEMMA ChargedType ==
  ASSUME QuotaTypes, NEW p \in Policies, NEW delta \in Int
  PROVE  /\ Charged(p, delta) \in [Windows ->
              [state: {"UNOPENED", "OPEN", "EXPIRED"}, cost: Int]]
         /\ \A w \in Windows :
              IF usage[p][w].state = "OPEN"
              THEN /\ Charged(p, delta)[w].state = "OPEN"
                   /\ Charged(p, delta)[w].cost = usage[p][w].cost + delta
              ELSE Charged(p, delta)[w] = usage[p][w]
<1> DEFINE Row == [state: {"UNOPENED", "OPEN", "EXPIRED"}, cost: Int]
           c(w) == IF usage[p][w].state = "OPEN"
                   THEN [usage[p][w] EXCEPT !.cost = @ + delta] ELSE usage[p][w]
<1>1. \A w \in Windows : usage[p][w] \in Row
  BY DEF QuotaTypes
<1>2. \A x \in Row : /\ [x EXCEPT !.cost = @ + delta] \in Row
                     /\ [x EXCEPT !.cost = @ + delta].state = x.state
                     /\ [x EXCEPT !.cost = @ + delta].cost = x.cost + delta
  OBVIOUS
<1>3. \A w \in Windows : c(w) \in Row
  BY <1>1, <1>2
<1>4. Charged(p, delta) = [w \in Windows |-> c(w)]
  BY DEF Charged
<1>5. \A w \in Windows : Charged(p, delta)[w] = c(w)
  BY <1>4
<1>6. Charged(p, delta) \in [Windows -> Row]
  <2> HIDE DEF c, Row
  <2> QED BY <1>3, <1>4
<1> QED BY <1>1, <1>2, <1>5, <1>6

\* The marker that each script writes.
LEMMA MarkerTypes ==
  ASSUME NEW m \in Marker, NEW a \in Nat, NEW c \in Nat, NEW v \in Nat,
         NEW d \in BOOLEAN
  PROVE  /\ [m EXCEPT !.state = "SETTLED", !.actual = a, !.corrected = c] \in Marker
         /\ [m EXCEPT !.released = TRUE] \in Marker
         /\ [m EXCEPT !.due = d] \in Marker
         /\ [m EXCEPT !.corrected = c, !.version = v] \in Marker
         /\ [m EXCEPT !.state = "EXPIRED"] \in Marker
BY DEF Marker

-------------------------------------------------------------------------------
(* Types.                                                                  *)

LEMMA ReserveTypes ==
  ASSUME QuotaTypes, NEW r \in Requests, NEW p \in Policies,
         NEW amount \in Amounts, QuotaReserve(r, p, amount)
  PROVE  QuotaTypes'
<1> DEFINE m == [NewMarker EXCEPT !.state = "RESERVED", !.estimate = amount,
                   !.generation = IF Marked(r) THEN Entered(r, p).generation ELSE @]
           u == [w \in Windows |-> [state |-> "OPEN", cost |-> usage[p][w].cost + amount]]
<1>1. Entered(r, p) \in Slots
  BY EnteredType
<1>2. m \in Marker
  BY <1>1, QuotaAssumption DEF NewMarker, Marker, Slots
<1>3. u \in [Windows -> [state: {"UNOPENED", "OPEN", "EXPIRED"}, cost: Int]]
  BY QuotaRows, QuotaAssumption
<1>4. /\ SetMarker(r, p, m)
      /\ usage' = [usage EXCEPT ![p] = u]
      /\ slots' = [slots EXCEPT ![p] = Entered(r, p)]
      /\ renewing' = renewing \cup {r}
  BY DEF QuotaReserve
<1> HIDE DEF m, u
<1> QED BY <1>1, <1>2, <1>3, <1>4, MarkerSet DEF QuotaTypes

LEMMA SettleTypes ==
  ASSUME QuotaTypes, NEW r \in Requests, NEW p \in Policies,
         NEW actual \in Nat, QuotaSettle(r, p, actual)
  PROVE  QuotaTypes'
<1> DEFINE m == [marker[r][p] EXCEPT
                   !.state = "SETTLED", !.actual = actual, !.corrected = actual]
           u == Charged(p, actual - marker[r][p].estimate)
<1>1. m \in Marker
  BY QuotaRows, MarkerTypes
<1>2. u \in [Windows -> [state: {"UNOPENED", "OPEN", "EXPIRED"}, cost: Int]]
  BY QuotaRows, ChargedType DEF Marker
<1>3. Freed(r, p) \in Slots
  BY FreedType
<1>4. /\ SetMarker(r, p, m)
      /\ usage' = [usage EXCEPT ![p] = u]
      /\ slots' = [slots EXCEPT ![p] = Freed(r, p)]
      /\ UNCHANGED renewing
  BY DEF QuotaSettle
<1> HIDE DEF m, u
<1> QED BY <1>1, <1>2, <1>3, <1>4, MarkerSet DEF QuotaTypes

LEMMA CorrectTypes ==
  ASSUME QuotaTypes, NEW r \in Requests, NEW p \in Policies,
         NEW cost \in Nat, NEW version \in Nat, CorrectCost(r, p, cost, version)
  PROVE  QuotaTypes'
<1> DEFINE m == [marker[r][p] EXCEPT !.corrected = cost, !.version = version]
           u == Charged(p, cost - marker[r][p].corrected)
<1>1. m \in Marker
  BY QuotaRows, MarkerTypes
<1>2. u \in [Windows -> [state: {"UNOPENED", "OPEN", "EXPIRED"}, cost: Int]]
  BY QuotaRows, ChargedType DEF Marker
<1>4. /\ SetMarker(r, p, m)
      /\ usage' = [usage EXCEPT ![p] = u]
      /\ UNCHANGED <<slots, renewing>>
  BY DEF CorrectCost
<1> HIDE DEF m, u
<1> QED BY <1>1, <1>2, <1>4, MarkerSet DEF QuotaTypes

\* The scripts and the time-outs that write a marker's flags only.
LEMMA FlagTypes ==
  ASSUME QuotaTypes, NEW r \in Requests, NEW p \in Policies,
         \/ ReleaseConcurrency(r, p) \/ Renew(r, p)
         \/ FallDue(r, p) \/ ExpireMarker(r, p)
  PROVE  QuotaTypes'
<1>1. marker[r][p] \in Marker /\ slots[p] \in Slots
  BY QuotaRows
<1>2. [slots[p] EXCEPT !.ahead = FALSE] \in Slots
  BY <1>1 DEF Slots
<1>3. CASE ReleaseConcurrency(r, p)
  BY <1>1, <1>3, MarkerSet, MarkerTypes, FreedType DEF ReleaseConcurrency, QuotaTypes
<1>4. CASE Renew(r, p)
  BY <1>1, <1>2, <1>4, MarkerSet, MarkerTypes DEF Renew, QuotaTypes
<1>5. CASE FallDue(r, p)
  BY <1>1, <1>5, MarkerSet, MarkerTypes DEF FallDue, QuotaTypes
<1>6. CASE ExpireMarker(r, p)
  BY <1>1, <1>6, MarkerSet, MarkerTypes DEF ExpireMarker, QuotaTypes
<1> QED BY <1>3, <1>4, <1>5, <1>6

\* The keys that expire.
LEMMA KeyTypes ==
  ASSUME QuotaTypes, NEW p \in Policies,
         \/ ExpireSlots(p) \/ ExpireGeneration(p)
         \/ \E w \in Windows : ExpireWindow(p, w)
  PROVE  QuotaTypes'
<1>1. slots[p] \in Slots
  BY QuotaRows
<1>2. \A b \in SUBSET Requests : [NoSlots EXCEPT !.overrun = b] \in Slots
  BY DEF NoSlots, Slots
<1>3. [slots[p] EXCEPT !.generation = NoGeneration, !.lapsed = TRUE] \in Slots
  BY <1>1 DEF Slots
<1>4. CASE ExpireSlots(p)
  BY <1>2, <1>4 DEF ExpireSlots, QuotaTypes
<1>5. CASE ExpireGeneration(p)
  BY <1>3, <1>5 DEF ExpireGeneration, QuotaTypes
<1>6. ASSUME NEW w \in Windows, ExpireWindow(p, w)
      PROVE  QuotaTypes'
  BY <1>6 DEF ExpireWindow, QuotaTypes
<1> QED BY <1>4, <1>5, <1>6

LEMMA QuotaTypesStep ==
  ASSUME QuotaTypes, [QuotaNext]_quotaVars
  PROVE  QuotaTypes'
<1>1. ASSUME NEW r \in Requests, NEW p \in Policies, QuotaCalls(r, p)
      PROVE  QuotaTypes'
  <2>1. Amounts \subseteq Nat /\ 1 .. MaxVersion \subseteq Nat
    BY QuotaAssumption
  <2> QED BY <1>1, <2>1, ReserveTypes, SettleTypes, CorrectTypes, FlagTypes DEF QuotaCalls
<1>2. CASE QuotaTime
  <2>1. ASSUME NEW r \in Requests, Abandon(r)
        PROVE  QuotaTypes'
    BY <2>1 DEF Abandon, QuotaTypes
  <2> QED BY <1>2, <2>1, FlagTypes, KeyTypes DEF QuotaTime
<1>3. CASE UNCHANGED quotaVars
  BY <1>3 DEF quotaVars, QuotaTypes
<1> QED BY <1>1, <1>2, <1>3 DEF QuotaNext

LEMMA QuotaTypesInit ==
  ASSUME QuotaInit
  PROVE  QuotaTypes
<1>1. NewMarker \in Marker /\ NoSlots \in Slots
  BY DEF NewMarker, Marker, NoSlots, Slots
<1> QED BY <1>1 DEF QuotaInit, QuotaTypes

-------------------------------------------------------------------------------
(* The cost counters.                                                      *)

\* What a marker counts for.
Share(m) == IF m.state = "RESERVED" THEN m.estimate
            ELSE IF m.state = "SETTLED" THEN m.corrected ELSE 0

\* The counters of a policy are opened by its first reservation, and that of
\* the month expires last: a sum is only compared with a counter that has seen
\* all of it.
UsageInv ==
  /\ QuotaTypes
  /\ UsageExact
  /\ \A p \in Policies, w \in Windows :
       usage[p][w].state = "UNOPENED" => \A r \in Requests : marker[r][p].state = "NONE"
  /\ \A p \in Policies :
       usage[p]["month"].state = "EXPIRED" => usage[p]["day"].state = "EXPIRED"

LEMMA ShareOfCharges ==
  ASSUME QuotaTypes, NEW p \in Policies
  PROVE  /\ Charges(p) \in [Requests -> Nat]
         /\ \A r \in Requests : Charges(p)[r] = Share(marker[r][p])
<1>1. ASSUME NEW r \in Requests
      PROVE  /\ Share(marker[r][p]) \in Nat
             /\ (CASE Reserved(r, p) -> marker[r][p].estimate
                   [] Settled(r, p)  -> marker[r][p].corrected
                   [] OTHER          -> 0) = Share(marker[r][p])
  <2>1. marker[r][p] \in Marker
    BY QuotaRows
  <2> QED BY <2>1 DEF Share, Marker, Reserved, Settled
<1> QED BY <1>1 DEF Charges

\* A script that writes one marker, and posts the difference to the counters
\* that exist, keeps them exact.
LEMMA UsagePosted ==
  ASSUME UsageInv, QuotaTypes', NEW r \in Requests, NEW p \in Policies,
         NEW m \in Marker, SetMarker(r, p, m), m.state # "NONE",
         NEW u, usage' = [usage EXCEPT ![p] = u],
         \A w \in Windows :
           IF usage[p][w].state = "EXPIRED" THEN u[w] = usage[p][w]
           ELSE /\ u[w].state = "OPEN"
                /\ u[w].cost = usage[p][w].cost + Share(m) - Share(marker[r][p])
  PROVE  UsageInv'
<1>1. /\ \A x \in Requests, q \in Policies :
           marker'[x][q] = IF x = r /\ q = p THEN m ELSE marker[x][q]
      /\ \A q \in Policies : usage'[q] = IF q = p THEN u ELSE usage[q]
  BY MarkerSet DEF UsageInv, QuotaTypes
<1>2. ASSUME NEW q \in Policies, q # p
      PROVE  Charges(q)' = Charges(q)
  BY <1>1, <1>2 DEF Charges, Reserved, Settled
<1>3. Total(Charges(p)', Requests)
        = Total(Charges(p), Requests) + Share(m) - Share(marker[r][p])
  <2>1. /\ Charges(p) \in [Requests -> Nat]
        /\ \A x \in Requests : Charges(p)[x] = Share(marker[x][p])
    BY ShareOfCharges DEF UsageInv
  <2>2. /\ Charges(p)' \in [Requests -> Nat]
        /\ \A x \in Requests : Charges(p)'[x] = Share(marker'[x][p])
    <3> DEFINE c(x) == CASE marker'[x][p].state = "RESERVED" -> marker'[x][p].estimate
                         [] marker'[x][p].state = "SETTLED"  -> marker'[x][p].corrected
                         [] OTHER                            -> 0
    <3>1. ASSUME NEW x \in Requests
          PROVE  c(x) \in Nat /\ c(x) = Share(marker'[x][p])
      <4>1. marker'[x][p] \in Marker
        BY DEF QuotaTypes
      <4> QED BY <4>1 DEF Share, Marker
    <3>2. Charges(p)' = [x \in Requests |-> c(x)]
      BY DEF Charges, Reserved, Settled
    <3> QED BY <3>1, <3>2
  <2>3. \A x \in Requests : x # r => Charges(p)'[x] = Charges(p)[x]
    BY <1>1, <2>1, <2>2
  <2>4. /\ Total(Charges(p), Requests) \in Nat
        /\ Total(Charges(p)', Requests)
             = Total(Charges(p), Requests) - Charges(p)[r] + Charges(p)'[r]
    BY <2>1, <2>2, <2>3, TotalDiffers, QuotaAssumption
  <2>5. Charges(p)[r] = Share(marker[r][p]) /\ Charges(p)'[r] = Share(m)
    BY <1>1, <2>1, <2>2
  <2>6. Charges(p)[r] \in Nat /\ Charges(p)'[r] \in Nat
    BY <2>1, <2>2
  <2> QED BY <2>4, <2>5, <2>6
<1>4. ASSUME NEW q \in Policies, NEW w \in Windows
      PROVE  usage'[q][w].cost =
               IF usage'[q][w].state = "OPEN" THEN Total(Charges(q)', Requests) ELSE 0
  <2>1. CASE q # p
    BY <1>1, <1>2, <2>1 DEF UsageInv, UsageExact
  <2>2. CASE q = p /\ usage[p][w].state = "EXPIRED"
    BY <1>1, <2>2 DEF UsageInv, UsageExact
  <2>3. CASE q = p /\ usage[p][w].state # "EXPIRED"
    <3>1. usage[p][w].cost = Total(Charges(p), Requests)
      <4>1. CASE usage[p][w].state = "OPEN"
        BY <4>1 DEF UsageInv, UsageExact
      <4>2. CASE usage[p][w].state = "UNOPENED"
        <5>1. \A x \in Requests : Charges(p)[x] = 0
          BY <4>2, ShareOfCharges DEF UsageInv, Share
        <5>2. Total(Charges(p), Requests) = 0
          BY <5>1, ShareOfCharges, TotalZero DEF UsageInv
        <5> QED BY <4>2, <5>2 DEF UsageInv, UsageExact
      <4> QED BY <2>3, <4>1, <4>2, QuotaRows DEF UsageInv
    <3>2. /\ usage'[p][w].state = "OPEN"
          /\ usage'[p][w].cost = usage[p][w].cost + Share(m) - Share(marker[r][p])
      BY <1>1, <2>3
    <3> QED BY <1>3, <2>3, <3>1, <3>2
  <2> QED BY <2>1, <2>2, <2>3
<1>5. ASSUME NEW q \in Policies, NEW w \in Windows, NEW x \in Requests,
             usage'[q][w].state = "UNOPENED"
      PROVE  marker'[x][q].state = "NONE"
  BY <1>1, <1>5 DEF UsageInv
<1>6. ASSUME NEW q \in Policies, usage'[q]["month"].state = "EXPIRED"
      PROVE  usage'[q]["day"].state = "EXPIRED"
  <2>1. "day" \in Windows /\ "month" \in Windows
    BY DEF Windows
  <2> QED BY <1>1, <1>6, <2>1 DEF UsageInv
<1> QED BY <1>4, <1>5, <1>6 DEF UsageInv, UsageExact

LEMMA UsageReserve ==
  ASSUME UsageInv, NEW r \in Requests, NEW p \in Policies,
         NEW amount \in Amounts, QuotaReserve(r, p, amount)
  PROVE  UsageInv'
<1> DEFINE m == [NewMarker EXCEPT !.state = "RESERVED", !.estimate = amount,
                   !.generation = IF Marked(r) THEN Entered(r, p).generation ELSE @]
           u == [w \in Windows |-> [state |-> "OPEN", cost |-> usage[p][w].cost + amount]]
<1>1. m \in Marker /\ m.state = "RESERVED" /\ m.estimate = amount
  <2>1. Entered(r, p) \in Slots
    BY EnteredType DEF UsageInv
  <2> QED BY <2>1, QuotaAssumption DEF NewMarker, Marker, Slots
<1>2. /\ SetMarker(r, p, m) /\ usage' = [usage EXCEPT ![p] = u]
      /\ marker[r][p].state = "NONE"
      /\ \A w \in Windows : usage[p][w].state # "EXPIRED"
  BY DEF QuotaReserve, QuotaAdmits
<1>3. QuotaTypes'
  BY ReserveTypes DEF UsageInv
<1>4. \A w \in Windows :
        /\ u[w].state = "OPEN" /\ u[w].cost = usage[p][w].cost + amount
        /\ usage[p][w].cost \in Int
  BY QuotaRows DEF UsageInv
<1>5. Share(m) = amount /\ Share(marker[r][p]) = 0 /\ amount \in Nat
  <2> HIDE DEF m
  <2> QED BY <1>1, <1>2, QuotaAssumption DEF Share
<1> HIDE DEF m, u
<1>6. \A w \in Windows :
        /\ u[w].state = "OPEN"
        /\ u[w].cost = usage[p][w].cost + Share(m) - Share(marker[r][p])
  BY <1>4, <1>5
<1> QED BY <1>1, <1>2, <1>3, <1>6, UsagePosted

LEMMA UsageSettle ==
  ASSUME UsageInv, NEW r \in Requests, NEW p \in Policies,
         NEW actual \in Nat, QuotaSettle(r, p, actual)
  PROVE  UsageInv'
<1> DEFINE old == marker[r][p]
           m == [old EXCEPT !.state = "SETTLED", !.actual = actual, !.corrected = actual]
           u == Charged(p, actual - old.estimate)
<1>1. old \in Marker /\ m \in Marker
  BY QuotaRows, MarkerTypes DEF UsageInv
<1>2. m.state = "SETTLED" /\ m.corrected = actual
  BY <1>1 DEF Marker
<1>3. /\ SetMarker(r, p, m) /\ usage' = [usage EXCEPT ![p] = u]
      /\ old.state = "RESERVED"
  BY DEF QuotaSettle, Reserved
<1>4. QuotaTypes'
  BY SettleTypes DEF UsageInv
<1>5. actual - old.estimate \in Int /\ old.estimate \in Nat
  BY <1>1 DEF Marker
<1>6. \A w \in Windows :
        IF usage[p][w].state = "OPEN"
        THEN u[w].state = "OPEN" /\ u[w].cost = usage[p][w].cost + (actual - old.estimate)
        ELSE u[w] = usage[p][w]
  BY <1>5, ChargedType DEF UsageInv
<1> HIDE DEF m, u
<1>7. Share(m) = actual /\ Share(old) = old.estimate
  BY <1>2, <1>3 DEF Share
<1>8. \A w \in Windows : usage[p][w].state # "UNOPENED"
  BY <1>3 DEF UsageInv
<1>9. \A w \in Windows :
        IF usage[p][w].state = "EXPIRED" THEN u[w] = usage[p][w]
        ELSE /\ u[w].state = "OPEN"
             /\ u[w].cost = usage[p][w].cost + Share(m) - Share(old)
  BY <1>5, <1>6, <1>7, <1>8, QuotaRows DEF UsageInv
<1> QED BY <1>1, <1>2, <1>3, <1>4, <1>9, UsagePosted

LEMMA UsageCorrect ==
  ASSUME UsageInv, NEW r \in Requests, NEW p \in Policies,
         NEW cost \in Nat, NEW version \in Nat, CorrectCost(r, p, cost, version)
  PROVE  UsageInv'
<1> DEFINE old == marker[r][p]
           m == [old EXCEPT !.corrected = cost, !.version = version]
           u == Charged(p, cost - old.corrected)
<1>1. old \in Marker /\ m \in Marker
  BY QuotaRows, MarkerTypes DEF UsageInv
<1>2. m.state = old.state /\ m.corrected = cost
  BY <1>1 DEF Marker
<1>3. /\ SetMarker(r, p, m) /\ usage' = [usage EXCEPT ![p] = u]
      /\ old.state = "SETTLED"
  BY DEF CorrectCost, Settled
<1>4. QuotaTypes'
  BY CorrectTypes DEF UsageInv
<1>5. cost - old.corrected \in Int /\ old.corrected \in Nat
  BY <1>1 DEF Marker
<1>6. \A w \in Windows :
        IF usage[p][w].state = "OPEN"
        THEN u[w].state = "OPEN" /\ u[w].cost = usage[p][w].cost + (cost - old.corrected)
        ELSE u[w] = usage[p][w]
  BY <1>5, ChargedType DEF UsageInv
<1> HIDE DEF m, u
<1>7. Share(m) = cost /\ Share(old) = old.corrected
  BY <1>2, <1>3 DEF Share
<1>8. \A w \in Windows : usage[p][w].state # "UNOPENED"
  BY <1>3 DEF UsageInv
<1>9. \A w \in Windows :
        IF usage[p][w].state = "EXPIRED" THEN u[w] = usage[p][w]
        ELSE /\ u[w].state = "OPEN"
             /\ u[w].cost = usage[p][w].cost + Share(m) - Share(old)
  BY <1>5, <1>6, <1>7, <1>8, QuotaRows DEF UsageInv
<1> QED BY <1>1, <1>2, <1>3, <1>4, <1>9, UsagePosted

\* A flag of a marker counts for nothing, and a marker expires after all the
\* counters that it counted in.
LEMMA UsageFlags ==
  ASSUME UsageInv, NEW r \in Requests, NEW p \in Policies,
         \/ ReleaseConcurrency(r, p) \/ Renew(r, p)
         \/ FallDue(r, p) \/ ExpireMarker(r, p)
  PROVE  UsageInv'
<1> DEFINE old == marker[r][p]
<1>1. QuotaTypes' /\ usage' = usage
  BY FlagTypes DEF UsageInv, ReleaseConcurrency, Renew, FallDue, ExpireMarker
<1>2. old \in Marker
  BY QuotaRows DEF UsageInv
<1>3. PICK m \in Marker :
        /\ SetMarker(r, p, m) /\ m.state # "NONE" /\ old.state # "NONE"
        /\ \/ Share(m) = Share(old)
           \/ \A w \in Windows : usage[p][w].state = "EXPIRED"
  <2>1. /\ [old EXCEPT !.released = TRUE].state = old.state
        /\ Share([old EXCEPT !.released = TRUE]) = Share(old)
        /\ \A d \in BOOLEAN : /\ [old EXCEPT !.due = d].state = old.state
                              /\ Share([old EXCEPT !.due = d]) = Share(old)
        /\ [old EXCEPT !.state = "EXPIRED"].state = "EXPIRED"
    BY <1>2 DEF Marker, Share
  <2>2. /\ [old EXCEPT !.released = TRUE] \in Marker
        /\ \A d \in BOOLEAN : [old EXCEPT !.due = d] \in Marker
        /\ [old EXCEPT !.state = "EXPIRED"] \in Marker
    BY <1>2 DEF Marker
  <2>3. CASE ReleaseConcurrency(r, p)
    BY <2>1, <2>2, <2>3 DEF ReleaseConcurrency, Reserved
  <2>4. CASE Renew(r, p)
    BY <2>1, <2>2, <2>4 DEF Renew, Reserved
  <2>5. CASE FallDue(r, p)
    BY <2>1, <2>2, <2>5 DEF FallDue, Reserved
  <2>6. CASE ExpireMarker(r, p)
    <3>1. /\ SetMarker(r, p, [old EXCEPT !.state = "EXPIRED"])
          /\ old.state = "SETTLED" /\ \A w \in Windows : usage[p][w].state = "EXPIRED"
      BY <2>6 DEF ExpireMarker, Settled, UsageInv, Windows
    <3> QED BY <2>1, <2>2, <3>1
  <2> QED BY <2>3, <2>4, <2>5, <2>6
<1>4. usage' = [usage EXCEPT ![p] = usage[p]]
  BY <1>1 DEF UsageInv, QuotaTypes
<1>5. \A w \in Windows : usage[p][w].state # "UNOPENED"
  BY <1>3 DEF UsageInv
<1>6. \A x \in Marker : Share(x) \in Nat
  BY DEF Share, Marker
<1>7. \A w \in Windows :
        IF usage[p][w].state = "EXPIRED" THEN usage[p][w] = usage[p][w]
        ELSE /\ usage[p][w].state = "OPEN"
             /\ usage[p][w].cost = usage[p][w].cost + Share(m) - Share(old)
  BY <1>2, <1>3, <1>5, <1>6, QuotaRows DEF UsageInv
<1> QED BY <1>1, <1>3, <1>4, <1>7, UsagePosted

\* Keys that expire: a counter that is gone counts nothing.
LEMMA UsageKeys ==
  ASSUME UsageInv, UNCHANGED marker,
         \/ UNCHANGED usage
         \/ \E p \in Policies, w \in Windows : ExpireWindow(p, w),
         QuotaTypes'
  PROVE  UsageInv'
<1>1. \A q \in Policies : Charges(q)' = Charges(q)
  BY DEF Charges, Reserved, Settled
<1>2. CASE UNCHANGED usage
  BY <1>1, <1>2 DEF UsageInv, UsageExact
<1>3. ASSUME NEW p \in Policies, NEW w \in Windows, ExpireWindow(p, w)
      PROVE  UsageInv'
  <2> DEFINE gone == [state |-> "EXPIRED", cost |-> 0]
  <2>1. \A q \in Policies, v \in Windows :
          usage'[q][v] = IF q = p /\ v = w THEN gone ELSE usage[q][v]
    BY <1>3 DEF ExpireWindow, UsageInv, QuotaTypes
  <2>2. w = "month" => usage[p]["day"].state = "EXPIRED"
    BY <1>3 DEF ExpireWindow
  <2>3. \A q \in Policies, v \in Windows :
          usage'[q][v].cost = IF usage'[q][v].state = "OPEN"
                              THEN Total(Charges(q)', Requests) ELSE 0
    BY <1>1, <2>1 DEF UsageInv, UsageExact
  <2>4. \A q \in Policies, v \in Windows :
          usage'[q][v].state = "UNOPENED" =>
            \A r \in Requests : marker'[r][q].state = "NONE"
    BY <2>1 DEF UsageInv
  <2>5. \A q \in Policies :
          usage'[q]["month"].state = "EXPIRED" => usage'[q]["day"].state = "EXPIRED"
    BY <2>1, <2>2 DEF UsageInv, Windows
  <2> QED BY <2>3, <2>4, <2>5 DEF UsageInv, UsageExact
<1> QED BY <1>2, <1>3

LEMMA UsageStep ==
  ASSUME UsageInv, [QuotaNext]_quotaVars
  PROVE  UsageInv'
<1>1. ASSUME NEW r \in Requests, NEW p \in Policies, QuotaCalls(r, p)
      PROVE  UsageInv'
  <2>1. Amounts \subseteq Nat /\ 1 .. MaxVersion \subseteq Nat
    BY QuotaAssumption
  <2> QED BY <1>1, <2>1, UsageReserve, UsageSettle, UsageCorrect, UsageFlags DEF QuotaCalls
<1>2. CASE QuotaTime
  <2>1. QuotaTypes'
    BY <1>2, QuotaTypesStep DEF UsageInv, QuotaNext
  <2>2. ASSUME NEW r \in Requests, Abandon(r)
        PROVE  UsageInv'
    BY <2>1, <2>2, UsageKeys DEF Abandon
  <2>3. ASSUME NEW p \in Policies, \/ ExpireSlots(p) \/ ExpireGeneration(p)
                                   \/ \E w \in Windows : ExpireWindow(p, w)
        PROVE  UsageInv'
    BY <2>1, <2>3, UsageKeys DEF ExpireSlots, ExpireGeneration, ExpireWindow
  <2> QED BY <1>2, <2>2, <2>3, UsageFlags DEF QuotaTime
<1>3. CASE UNCHANGED quotaVars
  <2>1. QuotaTypes'
    BY QuotaTypesStep DEF UsageInv
  <2> QED BY <1>3, <2>1, UsageKeys DEF quotaVars
<1> QED BY <1>1, <1>2, <1>3 DEF QuotaNext

LEMMA UsageStart ==
  ASSUME QuotaInit
  PROVE  UsageInv
<1>1. QuotaTypes
  BY QuotaTypesInit
<1>2. \A r \in Requests, p \in Policies : marker[r][p].state = "NONE"
  BY DEF QuotaInit, NewMarker
<1>3. \A p \in Policies, w \in Windows :
        usage[p][w].state = "UNOPENED" /\ usage[p][w].cost = 0
  BY DEF QuotaInit
<1> QED BY <1>1, <1>2, <1>3 DEF UsageInv, UsageExact, Windows

LEMMA UsageAlways == QuotaSpec => []UsageInv
BY UsageStart, UsageStep, PTL DEF QuotaSpec

\* The cost counter of every window that is still there is the sum of what is
\* reserved and of what was finally charged (redis-quota.ts reserve, settle,
\* correctCost).
THEOREM CountersExact == QuotaSpec => []UsageExact
<1>1. UsageInv => UsageExact
  BY DEF UsageInv
<1> QED BY <1>1, UsageAlways, PTL

\* The quota's type invariant: no counter falls below zero.
THEOREM QuotaTypeCorrect == QuotaSpec => []QuotaTypeOK
<1>1. ASSUME UsageInv
      PROVE  QuotaTypeOK
  <2>1. ASSUME NEW p \in Policies, NEW w \in Windows
        PROVE  usage[p][w] \in Counter
    <3>1. Total(Charges(p), Requests) \in Nat
      BY <1>1, ShareOfCharges, TotalType, QuotaAssumption DEF UsageInv
    <3>2. usage[p][w] \in [state: {"UNOPENED", "OPEN", "EXPIRED"}, cost: Int]
      BY <1>1 DEF UsageInv, QuotaTypes
    <3>3. usage[p][w].cost \in Nat
      BY <1>1, <3>1 DEF UsageInv, UsageExact
    <3> QED BY <3>2, <3>3 DEF Counter
  <2>2. usage \in [Policies -> [Windows -> Counter]]
    BY <1>1, <2>1 DEF UsageInv, QuotaTypes
  <2> QED BY <1>1, <2>2 DEF UsageInv, QuotaTypes, QuotaTypeOK
<1> QED BY <1>1, UsageAlways, PTL

-------------------------------------------------------------------------------
(* The concurrency keys.                                                   *)

\* Request r holds a slot of some life of the key of p.
Occupies(r, p) == Reserved(r, p) /\ ~marker[r][p].released

\* What the key knows and what the markers know of each other.
SlotsKnown(p) ==
  /\ ~slots[p].exists => slots[p].count = 0 /\ slots[p].generation = NoGeneration
  /\ slots[p].generation # NoGeneration =>
       marker[slots[p].generation][p].state # "NONE"
  /\ \A r \in Requests :
       /\ marker[r][p].generation # NoGeneration =>
            marker[marker[r][p].generation][p].state # "NONE"
       /\ ~Marked(r) => ~marker[r][p].released /\ marker[r][p].generation = NoGeneration
       /\ Marked(r) /\ Reserved(r, p) /\ r \in renewing =>
            slots[p].exists /\ marker[r][p].generation = slots[p].generation

\* Unless the key has expired under it, no request without a generation is
\* left from an earlier life of the key.
NoneLeft(p) ==
  \A r \in Requests :
    /\ Occupies(r, p) /\ marker[r][p].generation = NoGeneration
    /\ \/ ~slots[p].exists
       \/ slots[p].generation # NoGeneration /\ Marked(r)
    => r \in slots[p].overrun

\* Who may be running: the holders, and those the key has expired under.
Claims(p) == Holders(p) \cup {r \in slots[p].overrun : Occupies(r, p)}

\* A lapsed generation leaves slots that nobody can give back: the key then
\* counts too many, never too few.  It is short by one at most for each request
\* it has expired under: that one itself, or what its settlement took away.
SlotsCounted(p) ==
  /\ ConcurrencyLimit > 0 => slots[p].count <= ConcurrencyLimit
  /\ Cardinality(Claims(p)) <= slots[p].count + Cardinality(slots[p].overrun)
  /\ slots[p].overrun = {} /\ ~slots[p].lapsed =>
       slots[p].count = Cardinality(Holders(p))

SlotInv ==
  /\ QuotaTypes
  /\ \A p \in Policies : SlotsKnown(p) /\ NoneLeft(p) /\ SlotsCounted(p)

LEMMA HoldersFinite ==
  ASSUME NEW p
  PROVE  /\ IsFiniteSet(Holders(p)) /\ Cardinality(Holders(p)) \in Nat
         /\ Holders(p) \subseteq Requests
<1>1. Holders(p) \subseteq Requests
  BY DEF Holders
<1> QED BY <1>1, QuotaAssumption, FS_Subset, FS_CardinalityType

LEMMA ClaimsFinite ==
  ASSUME SlotInv, NEW p \in Policies
  PROVE  /\ IsFiniteSet(Claims(p)) /\ Cardinality(Claims(p)) \in Nat
         /\ Claims(p) \subseteq Requests
         /\ IsFiniteSet(slots[p].overrun)
         /\ Cardinality(slots[p].overrun) \in Nat
         /\ slots[p].overrun = {} => Claims(p) = Holders(p)
<1>1. slots[p].overrun \subseteq Requests
  BY QuotaRows DEF SlotInv, Slots
<1>2. Claims(p) \subseteq Requests
  BY <1>1, HoldersFinite DEF Claims
<1>3. slots[p].overrun = {} => Claims(p) = Holders(p)
  BY DEF Claims
<1> QED BY <1>1, <1>2, <1>3, QuotaAssumption, FS_Subset, FS_CardinalityType

\* A step that leaves alone what the key of q is counted by.
LEMMA SlotsSame ==
  ASSUME SlotInv, QuotaTypes', NEW q \in Policies,
         \A x \in Requests :
           /\ Reserved(x, q)' <=> Reserved(x, q)
           /\ marker'[x][q].state = "NONE" <=> marker[x][q].state = "NONE"
           /\ marker'[x][q].released = marker[x][q].released
           /\ marker'[x][q].generation = marker[x][q].generation
           /\ x \in renewing' => x \in renewing \/ ~Reserved(x, q),
         \A f \in {"exists", "count", "generation", "overrun", "lapsed"} :
           slots'[q][f] = slots[q][f]
  PROVE  SlotsKnown(q)' /\ NoneLeft(q)' /\ SlotsCounted(q)'
<1>1. /\ slots'[q].exists = slots[q].exists
      /\ slots'[q].count = slots[q].count
      /\ slots'[q].generation = slots[q].generation
      /\ slots'[q].overrun = slots[q].overrun
      /\ slots'[q].lapsed = slots[q].lapsed
  OBVIOUS
<1>2. Holders(q)' = Holders(q) /\ Claims(q)' = Claims(q)
  <2>1. slots[q].overrun \subseteq Requests
    BY QuotaRows DEF SlotInv, Slots
  <2>2. Holders(q)' = Holders(q)
    BY <1>1 DEF Holders
  <2> QED BY <1>1, <2>1, <2>2 DEF Claims, Occupies
<1>3. SlotsKnown(q) /\ NoneLeft(q) /\ SlotsCounted(q)
  BY DEF SlotInv
<1>4. SlotsKnown(q)'
  <2>1. /\ slots[q].generation \in Requests \cup {NoGeneration}
        /\ \A x \in Requests : marker[x][q].generation \in Requests \cup {NoGeneration}
    BY QuotaRows DEF SlotInv, Marker, Slots
  <2> QED BY <1>1, <1>3, <2>1 DEF SlotsKnown, Marked
<1>5. NoneLeft(q)'
  BY <1>1, <1>3 DEF NoneLeft, Occupies, Marked
<1>6. SlotsCounted(q)'
  BY <1>1, <1>2, <1>3 DEF SlotsCounted
<1> QED BY <1>4, <1>5, <1>6

\* A request that leaves gives back its own slot and nobody else's.
LEMMA SlotsLeave ==
  ASSUME SlotInv, QuotaTypes', NEW r \in Requests, NEW p \in Policies,
         NEW m \in Marker, SetMarker(r, p, m), Reserved(r, p), UNCHANGED renewing,
         slots' = [slots EXCEPT ![p] = Freed(r, p)],
         m.state # "NONE", m.generation = marker[r][p].generation,
         m.state = "RESERVED" => m.released /\ Marked(r),
         ~Marked(r) => ~m.released
  PROVE  SlotInv'
<1>1. /\ \A x \in Requests, q \in Policies :
           marker'[x][q] = IF x = r /\ q = p THEN m ELSE marker[x][q]
      /\ \A q \in Policies : slots'[q] = IF q = p THEN Freed(r, p) ELSE slots[q]
      /\ marker[r][p] \in Marker /\ slots[p] \in Slots
  BY MarkerSet, QuotaRows DEF SlotInv, QuotaTypes
<1>2. /\ slots'[p].count = IF Frees(r, p) THEN slots[p].count - 1 ELSE slots[p].count
      /\ slots'[p].exists = slots[p].exists
      /\ slots'[p].generation = slots[p].generation
      /\ slots'[p].overrun = slots[p].overrun
      /\ slots'[p].lapsed = slots[p].lapsed
  BY <1>1, FreedType DEF SlotInv, Slots
<1>3. SlotsKnown(p) /\ NoneLeft(p) /\ SlotsCounted(p)
  BY DEF SlotInv
<1>4. Holders(p)' = Holders(p) \ {r}
  BY <1>1, <1>2 DEF Holders, Reserved, Marked
<1>5. Frees(r, p) => r \in Holders(p)
  BY <1>1, <1>3 DEF Frees, Holders, SlotsKnown, Slots
<1>6. /\ slots[p].overrun = {} /\ ~slots[p].lapsed /\ r \in Holders(p)
      => Frees(r, p)
  <2> SUFFICES ASSUME slots[p].overrun = {}, ~slots[p].lapsed, r \in Holders(p)
               PROVE  Frees(r, p)
    OBVIOUS
  <2>1. Cardinality(Holders(p)) # 0
    BY HoldersFinite, FS_EmptySet
  <2>2. slots[p].count > 0
    BY <1>1, <1>3, <2>1, HoldersFinite DEF SlotsCounted, Slots
  <2> QED BY <2>2 DEF Frees, Holders
<1>7. Cardinality(Holders(p)') = IF r \in Holders(p) THEN Cardinality(Holders(p)) - 1
                                 ELSE Cardinality(Holders(p))
  BY <1>4, HoldersFinite, FS_RemoveElement
<1>8. SlotsCounted(p)'
  <2>1. slots[p].count \in Nat /\ Cardinality(Holders(p)) \in Nat
        /\ ConcurrencyLimit \in Nat /\ Cardinality(slots[p].overrun) \in Nat
        /\ Cardinality(Claims(p)) \in Nat
    BY <1>1, HoldersFinite, ClaimsFinite, QuotaAssumption DEF Slots
  <2>2. Claims(p)' = Claims(p) \ {r}
    <3>1. slots[p].overrun \subseteq Requests
      BY <1>1 DEF Slots
    <3> QED BY <1>1, <1>2, <1>4, <3>1 DEF Claims, Occupies, Reserved
  <2>3. Cardinality(Claims(p)') = IF r \in Claims(p) THEN Cardinality(Claims(p)) - 1
                                  ELSE Cardinality(Claims(p))
    BY <2>2, ClaimsFinite, FS_RemoveElement
  <2>4. Frees(r, p) => r \in Claims(p)
    BY <1>5 DEF Claims
  <2>5. ConcurrencyLimit > 0 => slots'[p].count <= ConcurrencyLimit
    BY <1>2, <1>3, <2>1 DEF SlotsCounted
  <2>6. Cardinality(Claims(p)') <= slots'[p].count + Cardinality(slots'[p].overrun)
    BY <1>2, <1>3, <2>1, <2>3, <2>4 DEF SlotsCounted
  <2>7. slots'[p].overrun = {} /\ ~slots'[p].lapsed =>
          slots'[p].count = Cardinality(Holders(p)')
    BY <1>2, <1>3, <1>5, <1>6, <1>7, <2>1 DEF SlotsCounted
  <2> QED BY <2>5, <2>6, <2>7 DEF SlotsCounted
<1>9. SlotsKnown(p)'
  <2>1. /\ slots[p].generation \in Requests \cup {NoGeneration}
        /\ \A x \in Requests : marker[x][p].generation \in Requests \cup {NoGeneration}
    BY <1>1, QuotaRows DEF SlotInv, Marker, Slots
  <2>2. slots[p].count = 0 => ~Frees(r, p)
    BY DEF Frees
  <2> QED BY <1>1, <1>2, <1>3, <2>1, <2>2 DEF SlotsKnown, Marked, Reserved
<1>10. NoneLeft(p)'
  BY <1>1, <1>2, <1>3 DEF NoneLeft, Occupies, Marked, Reserved
<1>11. ASSUME NEW q \in Policies, q # p
       PROVE  SlotsKnown(q)' /\ NoneLeft(q)' /\ SlotsCounted(q)'
  BY <1>1, <1>11, SlotsSame DEF Reserved
<1> QED BY <1>8, <1>9, <1>10, <1>11 DEF SlotInv

\* A request that enters takes one slot; the first of a new life of the key
\* gives it a generation that no earlier marker has.
LEMMA SlotsEnter ==
  ASSUME SlotInv, NEW r \in Requests, NEW p \in Policies,
         NEW amount \in Amounts, Started(r), QuotaReserve(r, p, amount)
  PROVE  SlotInv'
<1> DEFINE k == Entered(r, p)
           m == [NewMarker EXCEPT !.state = "RESERVED", !.estimate = amount,
                   !.generation = IF Marked(r) THEN k.generation ELSE @]
<1>1. k \in Slots /\ k.exists /\ k.count = slots[p].count + 1
      /\ k.generation = (IF Marked(r) /\ ~slots[p].exists THEN r ELSE slots[p].generation)
      /\ k.overrun = slots[p].overrun /\ k.lapsed = slots[p].lapsed
  BY EnteredType DEF SlotInv
<1> HIDE DEF k
<1>2. /\ m \in Marker /\ m.state = "RESERVED" /\ ~m.released
      /\ m.generation = IF Marked(r) THEN k.generation ELSE NoGeneration
  <2> DEFINE g == IF Marked(r) THEN k.generation ELSE NoGeneration
  <2>1. g \in Requests \cup {NoGeneration}
    BY <1>1 DEF Slots
  <2>2. m = [NewMarker EXCEPT !.state = "RESERVED", !.estimate = amount,
                              !.generation = g]
    BY DEF NewMarker
  <2> HIDE DEF g, m
  <2>3. m \in Marker /\ m.state = "RESERVED" /\ ~m.released /\ m.generation = g
    BY <2>1, <2>2, QuotaAssumption DEF NewMarker, Marker
  <2> QED BY <2>3 DEF g
<1> HIDE DEF m
<1>3. /\ SetMarker(r, p, m) /\ slots' = [slots EXCEPT ![p] = k]
      /\ renewing' = renewing \cup {r} /\ marker[r][p].state = "NONE"
      /\ ConcurrencyLimit = 0 \/ slots[p].count + 1 <= ConcurrencyLimit
  BY DEF QuotaReserve, QuotaAdmits, k, m
<1>4. QuotaTypes'
  BY ReserveTypes DEF SlotInv
<1>5. /\ \A x \in Requests, q \in Policies :
           marker'[x][q] = IF x = r /\ q = p THEN m ELSE marker[x][q]
      /\ \A q \in Policies : slots'[q] = IF q = p THEN k ELSE slots[q]
      /\ slots[p] \in Slots
  BY <1>2, <1>3, MarkerSet, QuotaRows DEF SlotInv, QuotaTypes
<1>6. SlotsKnown(p) /\ NoneLeft(p) /\ SlotsCounted(p)
  BY DEF SlotInv
<1>7. r \notin Holders(p) /\ r # NoGeneration
  BY <1>3, QuotaAssumption DEF Holders, Reserved
<1>8. \A x \in Requests : marker[x][p].generation # r
  BY <1>3, <1>6, <1>7 DEF SlotsKnown
<1>9. /\ Holders(p) \cup {r} \subseteq Holders(p)'
      /\ Holders(p)' \subseteq Claims(p) \cup {r}
  <2>1. r \in Holders(p)'
    BY <1>1, <1>2, <1>5 DEF Holders, Reserved, Marked
  <2>2. ASSUME NEW x \in Requests, x # r
        PROVE  /\ x \in Holders(p) => x \in Holders(p)'
               /\ x \in Holders(p)' => x \in Claims(p)
    <3>1. marker'[x][p] = marker[x][p]
      BY <1>5, <2>2
    <3>2. CASE slots[p].exists
      BY <1>1, <1>5, <3>1, <3>2 DEF Holders, Claims, Reserved, Marked
    <3>3. CASE ~slots[p].exists
      <4>1. x \in Holders(p) => ~Marked(x)
        BY <3>3 DEF Holders
      <4>2. x \in Holders(p) => x \in Holders(p)'
        BY <3>1, <4>1 DEF Holders, Reserved, Marked
      <4>3. k.generation = IF Marked(r) THEN r ELSE NoGeneration
        BY <1>1, <1>6, <3>3 DEF SlotsKnown
      <4>4. x \in Holders(p)' =>
              /\ Occupies(x, p)
              /\ Marked(x) => marker[x][p].generation = k.generation
        BY <1>5, <3>1 DEF Holders, Occupies, Reserved, Marked
      <4>5. x \in Holders(p)' => marker[x][p].generation = NoGeneration
        BY <1>6, <1>8, <4>3, <4>4 DEF SlotsKnown
      <4>6. x \in Holders(p)' => x \in slots[p].overrun
        BY <1>6, <3>3, <4>4, <4>5 DEF NoneLeft
      <4>7. x \in slots[p].overrun /\ Occupies(x, p) => x \in Claims(p)
        BY DEF Claims
      <4> QED BY <4>2, <4>4, <4>6, <4>7
    <3> QED BY <3>2, <3>3
  <2>3. Holders(p)' \subseteq Requests
    BY DEF Holders
  <2> QED BY <2>1, <2>2, <2>3, HoldersFinite
<1>10. SlotsCounted(p)'
  <2>1. slots[p].overrun = {} => Cardinality(Holders(p)') = Cardinality(Holders(p)) + 1
    <3>1. slots[p].overrun = {} => Holders(p)' = Holders(p) \cup {r}
      BY <1>9, ClaimsFinite
    <3> QED BY <1>7, <3>1, HoldersFinite, FS_AddElement
  <2>2. slots[p].count \in Nat /\ Cardinality(Holders(p)) \in Nat
        /\ ConcurrencyLimit \in Nat /\ Cardinality(slots[p].overrun) \in Nat
        /\ Cardinality(Claims(p)) \in Nat
    BY <1>5, HoldersFinite, ClaimsFinite, QuotaAssumption DEF Slots
  <2>3. slots'[p] = k
    BY <1>5
  <2>4. Claims(p)' \subseteq Claims(p) \cup {r}
    <3>1. slots[p].overrun \subseteq Requests
      BY <1>5 DEF Slots
    <3>2. ASSUME NEW x \in slots[p].overrun, Occupies(x, p)', x # r
          PROVE  x \in Claims(p)
      BY <1>5, <3>1, <3>2 DEF Claims, Occupies, Reserved
    <3>3. slots'[p].overrun = slots[p].overrun
      BY <1>1, <2>3
    <3>4. Claims(p)' = Holders(p)' \cup {x \in slots[p].overrun : Occupies(x, p)'}
      BY <3>3 DEF Claims
    <3> QED BY <1>9, <3>2, <3>4
  <2>5. /\ Cardinality(Claims(p)') \in Nat
        /\ Cardinality(Claims(p)') <= Cardinality(Claims(p)) + 1
    <3>1. /\ IsFiniteSet(Claims(p) \cup {r})
          /\ Cardinality(Claims(p) \cup {r}) \in Nat
          /\ Cardinality(Claims(p) \cup {r}) <= Cardinality(Claims(p)) + 1
      <4>1. IsFiniteSet(Claims(p))
        BY ClaimsFinite
      <4>2. /\ IsFiniteSet(Claims(p) \cup {r})
            /\ Cardinality(Claims(p) \cup {r}) =
                 IF r \in Claims(p) THEN Cardinality(Claims(p))
                                  ELSE Cardinality(Claims(p)) + 1
        BY <4>1, FS_AddElement
      <4> QED BY <2>2, <4>2
    <3>2. /\ IsFiniteSet(Claims(p)')
          /\ Cardinality(Claims(p)') <= Cardinality(Claims(p) \cup {r})
      BY <2>4, <3>1, FS_Subset
    <3>3. Cardinality(Claims(p)') \in Nat
      BY <3>2, FS_CardinalityType
    <3> QED BY <2>2, <3>1, <3>2, <3>3
  <2>6. ConcurrencyLimit > 0 => slots'[p].count <= ConcurrencyLimit
    BY <1>1, <1>3, <2>2, <2>3
  <2>7. Cardinality(Claims(p)') <= slots'[p].count + Cardinality(slots'[p].overrun)
    BY <1>1, <1>6, <2>2, <2>3, <2>5 DEF SlotsCounted
  <2>8. slots'[p].overrun = {} /\ ~slots'[p].lapsed =>
          slots'[p].count = Cardinality(Holders(p)')
    BY <1>1, <1>6, <2>1, <2>3 DEF SlotsCounted
  <2> QED BY <2>6, <2>7, <2>8 DEF SlotsCounted
<1>11. SlotsKnown(p)'
  <2>1. /\ slots'[p].exists
        /\ slots'[p].generation = IF Marked(r) /\ ~slots[p].exists THEN r
                                  ELSE slots[p].generation
    BY <1>1, <1>5
  <2>2. \A x \in Requests : marker'[x][p] = IF x = r THEN m ELSE marker[x][p]
    BY <1>5
  <2>3. slots'[p].generation # NoGeneration =>
          marker'[slots'[p].generation][p].state # "NONE"
    <3>1. slots[p].generation \in Requests \cup {NoGeneration}
      BY <1>5 DEF Slots
    <3> QED BY <1>2, <1>6, <2>1, <2>2, <3>1 DEF SlotsKnown
  <2>4. ASSUME NEW x \in Requests
        PROVE  marker'[x][p].generation # NoGeneration =>
                 marker'[marker'[x][p].generation][p].state # "NONE"
    <3>1. marker[x][p].generation \in Requests \cup {NoGeneration}
      BY QuotaRows DEF SlotInv, Marker
    <3>2. CASE x = r
      BY <1>2, <1>1, <2>1, <2>2, <2>3, <3>2
    <3>3. CASE x # r
      BY <1>2, <1>6, <2>2, <3>1, <3>3 DEF SlotsKnown
    <3> QED BY <3>2, <3>3
  <2>5. ASSUME NEW x \in Requests, ~Marked(x)
        PROVE  ~marker'[x][p].released /\ marker'[x][p].generation = NoGeneration
    BY <1>2, <1>6, <2>2, <2>5 DEF SlotsKnown
  <2>6. ASSUME NEW x \in Requests, Marked(x), Reserved(x, p)', x \in renewing'
        PROVE  slots'[p].exists /\ marker'[x][p].generation = slots'[p].generation
    <3>1. CASE x = r
      BY <1>1, <1>2, <2>1, <2>2, <2>6, <3>1
    <3>2. CASE x # r
      <4>1. x \in renewing /\ Reserved(x, p)
        BY <1>3, <2>2, <2>6, <3>2 DEF Reserved
      <4>2. slots[p].exists /\ marker[x][p].generation = slots[p].generation
        BY <1>6, <2>6, <4>1 DEF SlotsKnown
      <4> QED BY <2>1, <2>2, <3>2, <4>2
    <3> QED BY <3>1, <3>2
  <2>7. \A x \in Requests :
          /\ marker'[x][p].generation # NoGeneration =>
               marker'[marker'[x][p].generation][p].state # "NONE"
          /\ ~Marked(x) => ~marker'[x][p].released /\ marker'[x][p].generation = NoGeneration
          /\ Marked(x) /\ Reserved(x, p)' /\ x \in renewing' =>
               slots'[p].exists /\ marker'[x][p].generation = slots'[p].generation
    BY <2>4, <2>5, <2>6
  <2> QED BY <2>1, <2>3, <2>7 DEF SlotsKnown, Marked
<1>12. NoneLeft(p)'
  <2> SUFFICES ASSUME k.generation # NoGeneration, NEW x \in Requests, Marked(x),
                      Occupies(x, p)', marker'[x][p].generation = NoGeneration
               PROVE  x \in slots[p].overrun
    BY <1>1, <1>5 DEF NoneLeft, Marked
  <2>1. x # r
    BY <1>2, <1>5
  <2>2. Occupies(x, p) /\ marker'[x][p] = marker[x][p]
    BY <1>5, <2>1 DEF Occupies, Reserved
  <2>3. ~slots[p].exists \/ slots[p].generation # NoGeneration
    BY <1>1
  <2> QED BY <1>6, <2>2, <2>3 DEF NoneLeft
<1>13. ASSUME NEW q \in Policies, q # p
       PROVE  SlotsKnown(q)' /\ NoneLeft(q)' /\ SlotsCounted(q)'
  <2>1. \A x \in Requests : x \in renewing' => x \in renewing \/ ~Reserved(x, q)
    BY <1>3 DEF Started, Reserved
  <2> QED BY <1>4, <1>5, <1>13, <2>1, SlotsSame DEF Reserved
<1> QED BY <1>4, <1>10, <1>11, <1>12, <1>13 DEF SlotInv

\* The key expires: whoever is left of its holders, it has overrun.
LEMMA SlotsExpire ==
  ASSUME SlotInv, NEW p \in Policies, ExpireSlots(p)
  PROVE  SlotInv'
<1> DEFINE over == {r \in Requests : /\ Reserved(r, p) /\ ~marker[r][p].released
                                     /\ marker[r][p].generation = NoGeneration}
           k == [NoSlots EXCEPT !.overrun = over]
<1>1. /\ slots' = [slots EXCEPT ![p] = k] /\ UNCHANGED <<marker, renewing>>
      /\ ~KeptAlive(p)
  BY DEF ExpireSlots
<1>2. QuotaTypes'
  BY KeyTypes DEF SlotInv
<1>3. /\ ~k.exists /\ k.count = 0 /\ k.generation = NoGeneration /\ ~k.lapsed
      /\ k.overrun = over
  <2> HIDE DEF over
  <2> QED BY DEF NoSlots
<1>4. \A q \in Policies : slots'[q] = IF q = p THEN k ELSE slots[q]
  BY <1>1 DEF SlotInv, QuotaTypes
<1>5. SlotsKnown(p) /\ NoneLeft(p) /\ SlotsCounted(p)
  BY DEF SlotInv
<1>6. SlotsKnown(p)'
  <2>1. \A r \in Requests : Marked(r) /\ Reserved(r, p) => r \notin renewing
    BY <1>1, <1>5 DEF KeptAlive, SlotsKnown
  <2> HIDE DEF k
  <2> QED BY <1>1, <1>3, <1>4, <1>5, <2>1 DEF SlotsKnown, Reserved, Marked
<1>7. NoneLeft(p)'
  <2>1. \A r \in Requests :
          Occupies(r, p) /\ marker[r][p].generation = NoGeneration => r \in over
    BY DEF Occupies
  <2> HIDE DEF over, k
  <2> QED BY <1>1, <1>3, <1>4, <2>1 DEF NoneLeft, Occupies, Reserved
<1>8. SlotsCounted(p)'
  <2>1. \A r \in Holders(p)' : r \in over
    <3> SUFFICES ASSUME NEW r \in Requests, r \in Holders(p)'
                 PROVE  r \in over
      BY DEF Holders
    <3>1. /\ Reserved(r, p) /\ ~marker[r][p].released
          /\ Marked(r) => slots'[p].exists
      BY <1>1 DEF Holders, Reserved, Marked
    <3>2. ~slots'[p].exists
      BY <1>3, <1>4
    <3> QED BY <1>5, <3>1, <3>2 DEF SlotsKnown
  <2>2. over \subseteq Requests /\ slots'[p] = k
    BY <1>4
  <2> HIDE DEF k, over
  <2>3. Claims(p)' \subseteq over
    BY <1>3, <2>1, <2>2 DEF Claims
  <2>4. /\ IsFiniteSet(over) /\ Cardinality(over) \in Nat
        /\ Cardinality(Claims(p)') <= Cardinality(over)
    BY <2>2, <2>3, QuotaAssumption, FS_Subset, FS_CardinalityType
  <2>5. Cardinality(Claims(p)') \in Nat
    BY <2>3, <2>4, FS_Subset, FS_CardinalityType
  <2>6. over = {} => Cardinality(Holders(p)') = 0
    <3>1. over = {} => Holders(p)' = {}
      BY <2>1
    <3> QED BY <3>1, FS_EmptySet
  <2> QED BY <1>3, <2>2, <2>4, <2>5, <2>6, QuotaAssumption DEF SlotsCounted
<1>9. ASSUME NEW q \in Policies, q # p
      PROVE  SlotsKnown(q)' /\ NoneLeft(q)' /\ SlotsCounted(q)'
  BY <1>1, <1>2, <1>4, <1>9, SlotsSame DEF Reserved
<1> QED BY <1>2, <1>6, <1>7, <1>8, <1>9 DEF SlotInv

\* The generation alone lapses: its holders can give nothing back.
LEMMA SlotsLapse ==
  ASSUME SlotInv, NEW p \in Policies, ExpireGeneration(p)
  PROVE  SlotInv'
<1> DEFINE k == [slots[p] EXCEPT !.generation = NoGeneration, !.lapsed = TRUE]
<1>1. /\ slots' = [slots EXCEPT ![p] = k] /\ UNCHANGED <<marker, renewing>>
      /\ ~KeptAlive(p) /\ slots[p].exists /\ slots[p].generation # NoGeneration
  BY DEF ExpireGeneration
<1>2. QuotaTypes'
  BY KeyTypes DEF SlotInv
<1>3. slots[p] \in Slots
  BY QuotaRows DEF SlotInv
<1>4. /\ k.exists /\ k.count = slots[p].count /\ k.generation = NoGeneration
      /\ k.lapsed /\ k.overrun = slots[p].overrun
  BY <1>1, <1>3 DEF Slots
<1>5. \A q \in Policies : slots'[q] = IF q = p THEN k ELSE slots[q]
  BY <1>1 DEF SlotInv, QuotaTypes
<1> HIDE DEF k
<1>6. SlotsKnown(p) /\ NoneLeft(p) /\ SlotsCounted(p)
  BY DEF SlotInv
<1>7. SlotsKnown(p)'
  <2>1. \A r \in Requests : Marked(r) /\ Reserved(r, p) => r \notin renewing
    BY <1>1, <1>6 DEF KeptAlive, SlotsKnown
  <2> QED BY <1>1, <1>4, <1>5, <1>6, <2>1 DEF SlotsKnown, Reserved, Marked
<1>8. NoneLeft(p)'
  BY <1>4, <1>5 DEF NoneLeft
<1>9. SlotsCounted(p)'
  <2>1. ASSUME NEW x \in Requests, x \in Holders(p)'
        PROVE  x \in Claims(p)
    <3>1. CASE ~Marked(x)
      BY <1>1, <2>1, <3>1 DEF Holders, Claims, Reserved, Marked
    <3>2. CASE Marked(x)
      <4>1. Occupies(x, p) /\ marker[x][p].generation = NoGeneration
        BY <1>1, <1>4, <1>5, <2>1, <3>2 DEF Holders, Occupies, Reserved, Marked
      <4> QED BY <1>1, <1>6, <3>2, <4>1 DEF NoneLeft, Claims
    <3> QED BY <3>1, <3>2
  <2>2. Claims(p)' \subseteq Claims(p)
    <3>1. Holders(p)' \subseteq Claims(p)
      BY <2>1 DEF Holders
    <3> QED BY <1>1, <1>4, <1>5, <3>1 DEF Claims, Occupies, Reserved
  <2>3. /\ Cardinality(Claims(p)') \in Nat
        /\ Cardinality(Claims(p)') <= Cardinality(Claims(p))
    BY <2>2, ClaimsFinite, FS_Subset, FS_CardinalityType
  <2>4. slots[p].count \in Nat /\ Cardinality(Claims(p)) \in Nat
        /\ Cardinality(slots[p].overrun) \in Nat
    BY <1>3, ClaimsFinite DEF Slots
  <2> QED BY <1>4, <1>5, <1>6, <2>3, <2>4 DEF SlotsCounted
<1>10. ASSUME NEW q \in Policies, q # p
       PROVE  SlotsKnown(q)' /\ NoneLeft(q)' /\ SlotsCounted(q)'
  BY <1>1, <1>2, <1>5, <1>10, SlotsSame DEF Reserved
<1> QED BY <1>2, <1>7, <1>8, <1>9, <1>10 DEF SlotInv

LEMMA SlotsSettle ==
  ASSUME SlotInv, NEW r \in Requests, NEW p \in Policies,
         NEW actual \in Nat, QuotaSettle(r, p, actual)
  PROVE  SlotInv'
<1> DEFINE old == marker[r][p]
           m == [old EXCEPT !.state = "SETTLED", !.actual = actual, !.corrected = actual]
<1>1. old \in Marker /\ m \in Marker
  BY QuotaRows, MarkerTypes DEF SlotInv
<1>2. m.state = "SETTLED" /\ m.generation = old.generation /\ m.released = old.released
  BY <1>1 DEF Marker
<1>3. /\ SetMarker(r, p, m) /\ Reserved(r, p) /\ UNCHANGED renewing
      /\ slots' = [slots EXCEPT ![p] = Freed(r, p)]
  BY DEF QuotaSettle
<1>4. QuotaTypes' /\ (~Marked(r) => ~old.released)
  BY SettleTypes DEF SlotInv, SlotsKnown
<1> HIDE DEF m
<1> QED BY <1>1, <1>2, <1>3, <1>4, SlotsLeave

LEMMA SlotsRelease ==
  ASSUME SlotInv, NEW r \in Requests, NEW p \in Policies, ReleaseConcurrency(r, p)
  PROVE  SlotInv'
<1> DEFINE old == marker[r][p]
           m == [old EXCEPT !.released = TRUE]
<1>1. old \in Marker /\ m \in Marker
  BY QuotaRows, MarkerTypes DEF SlotInv
<1>2. m.state = old.state /\ m.generation = old.generation /\ m.released
  BY <1>1 DEF Marker
<1>3. /\ SetMarker(r, p, m) /\ Marked(r) /\ Reserved(r, p) /\ UNCHANGED renewing
      /\ slots' = [slots EXCEPT ![p] = Freed(r, p)]
  BY DEF ReleaseConcurrency
<1>4. QuotaTypes'
  BY FlagTypes DEF SlotInv
<1> HIDE DEF m
<1> QED BY <1>1, <1>2, <1>3, <1>4, SlotsLeave DEF Reserved

\* Corrections, renewals and the expiry of a settled marker move no slot.
LEMMA SlotsFlags ==
  ASSUME SlotInv, NEW r \in Requests, NEW p \in Policies,
         \/ \E cost, version \in Nat : CorrectCost(r, p, cost, version)
         \/ Renew(r, p) \/ FallDue(r, p) \/ ExpireMarker(r, p)
  PROVE  SlotInv'
<1> DEFINE old == marker[r][p]
<1>1. old \in Marker /\ slots[p] \in Slots
  BY QuotaRows DEF SlotInv
<1>2. QuotaTypes' /\ UNCHANGED renewing
  BY CorrectTypes, FlagTypes DEF SlotInv, CorrectCost, Renew, FallDue, ExpireMarker
<1> DEFINE Keeps(m) == /\ SetMarker(r, p, m)
                       /\ m.released = old.released /\ m.generation = old.generation
                       /\ old.state # "NONE" /\ m.state # "NONE"
                       /\ m.state = "RESERVED" <=> old.state = "RESERVED"
<1>3. PICK m \in Marker : Keeps(m)
  <2>1. ASSUME NEW cost \in Nat, NEW version \in Nat, CorrectCost(r, p, cost, version)
        PROVE  \E m \in Marker : Keeps(m)
    <3> DEFINE m == [old EXCEPT !.corrected = cost, !.version = version]
    <3>1. m \in Marker /\ m.state = old.state /\ m.released = old.released
          /\ m.generation = old.generation
      BY <1>1 DEF Marker
    <3>2. SetMarker(r, p, m) /\ old.state = "SETTLED"
      BY <2>1 DEF CorrectCost, Settled
    <3> HIDE DEF m
    <3> QED BY <3>1, <3>2
  <2>2. ASSUME ExpireMarker(r, p)
        PROVE  \E m \in Marker : Keeps(m)
    <3> DEFINE m == [old EXCEPT !.state = "EXPIRED"]
    <3>1. m \in Marker /\ m.state = "EXPIRED" /\ m.released = old.released
          /\ m.generation = old.generation
      BY <1>1 DEF Marker
    <3>2. SetMarker(r, p, m) /\ old.state = "SETTLED"
      BY <2>2 DEF ExpireMarker, Settled
    <3> HIDE DEF m
    <3> QED BY <3>1, <3>2
  <2>3. ASSUME NEW d \in BOOLEAN, SetMarker(r, p, [old EXCEPT !.due = d]), Reserved(r, p)
        PROVE  \E m \in Marker : Keeps(m)
    <3> DEFINE m == [old EXCEPT !.due = d]
    <3>1. m \in Marker /\ m.state = old.state /\ m.released = old.released
          /\ m.generation = old.generation
      BY <1>1 DEF Marker
    <3>2. SetMarker(r, p, m) /\ old.state = "RESERVED"
      BY <2>3 DEF Reserved
    <3> HIDE DEF m
    <3> QED BY <3>1, <3>2
  <2>4. CASE Renew(r, p) \/ FallDue(r, p)
    BY <2>3, <2>4 DEF Renew, FallDue
  <2> HIDE DEF Keeps
  <2> QED BY <2>1, <2>2, <2>4
<1>4. \A x \in Requests, q \in Policies :
        marker'[x][q] = IF x = r /\ q = p THEN m ELSE marker[x][q]
  BY <1>3, MarkerSet DEF SlotInv
<1>5. ASSUME NEW q \in Policies,
             NEW f \in {"exists", "count", "generation", "overrun", "lapsed"}
      PROVE  slots'[q][f] = slots[q][f]
  <2>1. CASE Renew(r, p)
    <3>1. \A k \in Slots : [k EXCEPT !.ahead = FALSE][f] = k[f]
      BY DEF Slots
    <3>2. slots'[q] = slots[q] \/ slots'[q] = [slots[q] EXCEPT !.ahead = FALSE]
      BY <2>1 DEF Renew, SlotInv, QuotaTypes
    <3>3. slots[q] \in Slots
      BY QuotaRows DEF SlotInv
    <3> QED BY <3>1, <3>2, <3>3
  <2>2. CASE slots' = slots
    BY <2>2
  <2> QED BY <2>1, <2>2 DEF CorrectCost, FallDue, ExpireMarker
<1>6. ASSUME NEW q \in Policies
      PROVE  SlotsKnown(q)' /\ NoneLeft(q)' /\ SlotsCounted(q)'
  BY <1>2, <1>3, <1>4, <1>5, SlotsSame DEF Reserved
<1> QED BY <1>2, <1>6 DEF SlotInv

\* Nothing but a release of a slot, a reservation or an expiry moves a slot.
LEMMA SlotsIdle ==
  ASSUME SlotInv, QuotaTypes', UNCHANGED <<marker, slots>>, renewing' \subseteq renewing
  PROVE  SlotInv'
<1>1. ASSUME NEW q \in Policies
      PROVE  SlotsKnown(q)' /\ NoneLeft(q)' /\ SlotsCounted(q)'
  BY SlotsSame DEF Reserved
<1> QED BY <1>1 DEF SlotInv

LEMMA SlotsStep ==
  ASSUME SlotInv, [QuotaNext]_quotaVars
  PROVE  SlotInv'
<1>1. QuotaTypes'
  BY QuotaTypesStep DEF SlotInv
<1>2. ASSUME NEW r \in Requests, NEW p \in Policies, QuotaCalls(r, p)
      PROVE  SlotInv'
  <2>1. Amounts \subseteq Nat /\ 1 .. MaxVersion \subseteq Nat
    BY QuotaAssumption
  <2> QED BY <1>2, <2>1, SlotsEnter, SlotsSettle, SlotsRelease, SlotsFlags DEF QuotaCalls
<1>3. CASE QuotaTime
  <2>1. ASSUME NEW r \in Requests, Abandon(r)
        PROVE  SlotInv'
    BY <1>1, <2>1, SlotsIdle DEF Abandon
  <2>2. ASSUME NEW p \in Policies, NEW w \in Windows, ExpireWindow(p, w)
        PROVE  SlotInv'
    BY <1>1, <2>2, SlotsIdle DEF ExpireWindow
  <2> QED BY <1>3, <2>1, <2>2, SlotsExpire, SlotsLapse, SlotsFlags DEF QuotaTime
<1>4. CASE UNCHANGED quotaVars
  BY <1>1, <1>4, SlotsIdle DEF quotaVars
<1> QED BY <1>2, <1>3, <1>4 DEF QuotaNext

LEMMA SlotsStart ==
  ASSUME QuotaInit
  PROVE  SlotInv
<1>1. QuotaTypes
  BY QuotaTypesInit
<1>2. /\ renewing = {}
      /\ \A r \in Requests, p \in Policies :
           /\ marker[r][p].state = "NONE" /\ ~marker[r][p].released
           /\ marker[r][p].generation = NoGeneration
  BY DEF QuotaInit, NewMarker
<1>3. \A p \in Policies : /\ slots[p].count = 0 /\ slots[p].generation = NoGeneration
                          /\ ~slots[p].exists
  BY DEF QuotaInit, NoSlots
<1>4. \A p \in Policies : /\ Cardinality(Holders(p)) = 0
                          /\ Cardinality(Claims(p)) = 0
                          /\ Cardinality(slots[p].overrun) = 0
  <2> SUFFICES ASSUME NEW p \in Policies
               PROVE  Holders(p) = {} /\ Claims(p) = {} /\ slots[p].overrun = {}
    BY FS_EmptySet
  <2>1. Holders(p) = {} /\ slots[p].overrun = {}
    BY <1>2 DEF Holders, Reserved, QuotaInit, NoSlots
  <2> QED BY <2>1 DEF Claims
<1>5. \A p \in Policies : SlotsKnown(p) /\ NoneLeft(p)
  BY <1>2, <1>3 DEF SlotsKnown, NoneLeft, Occupies, Reserved
<1>6. \A p \in Policies : SlotsCounted(p)
  BY <1>3, <1>4, QuotaAssumption DEF SlotsCounted
<1> QED BY <1>1, <1>5, <1>6 DEF SlotInv

LEMMA SlotsAlways == QuotaSpec => []SlotInv
BY SlotsStart, SlotsStep, PTL DEF QuotaSpec

\* The concurrency key of a policy counts exactly the requests that hold a slot
\* in its present life (redis-quota.ts reserve, settle, releaseConcurrency).
THEOREM SlotsCount == QuotaSpec => []SlotsExact
<1>1. SlotInv => SlotsExact
  BY DEF SlotInv, SlotsCounted, SlotsExact
<1> QED BY <1>1, SlotsAlways, PTL

\* No more requests are in flight than the concurrency of a policy allows and
\* one for each unmatched request its key has expired under, whatever has
\* expired or crashed before.
THEOREM ConcurrencyWithinLimit == QuotaSpec => []ConcurrencyLimited
<1>1. ASSUME SlotInv
      PROVE  ConcurrencyLimited
  <2> SUFFICES ASSUME NEW p \in Policies, ConcurrencyLimit > 0
               PROVE  Cardinality(Running(p)) <=
                        ConcurrencyLimit + Cardinality(slots[p].overrun)
    BY DEF ConcurrencyLimited
  <2>1. SlotsKnown(p) /\ SlotsCounted(p) /\ slots[p].count \in Nat
    BY <1>1, QuotaRows DEF SlotInv, Slots
  <2>2. Running(p) \subseteq Claims(p)
    BY <2>1 DEF Running, SlotsKnown, Holders, Claims
  <2>3. /\ Cardinality(Running(p)) \in Nat
        /\ Cardinality(Running(p)) <= Cardinality(Claims(p))
    BY <1>1, <2>2, ClaimsFinite, FS_Subset, FS_CardinalityType
  <2> QED BY <1>1, <2>1, <2>3, ClaimsFinite, QuotaAssumption DEF SlotsCounted
<1> QED BY <1>1, SlotsAlways, PTL

\* A correction of a settled cost is never undone by an older one that arrives
\* late, and none is lost from the marker (redis-quota.ts correctCost).
THEOREM CorrectionsOrdered == QuotaSpec => CorrectionsInOrder
<1> DEFINE Ordered(r, p) ==
      marker[r][p].version > 0 /\ Settled(r, p) =>
        /\ marker'[r][p].version >= marker[r][p].version
        /\ marker'[r][p].corrected # marker[r][p].corrected =>
             marker'[r][p].version > marker[r][p].version
<1>1. ASSUME QuotaTypes, NEW r \in Requests, NEW p \in Policies, Settled(r, p),
             [QuotaNext]_quotaVars
      PROVE  Ordered(r, p)
  <2>1. marker[r][p].version \in Nat /\ marker[r][p].corrected \in Nat
    BY <1>1, QuotaRows DEF Marker
  <2>2. CASE marker'[r][p] = marker[r][p]
    BY <2>1, <2>2
  <2>3. ASSUME NEW x \in Requests, NEW q \in Policies, NEW m, SetMarker(x, q, m),
               ~Settled(x, q)
        PROVE  marker'[r][p] = marker[r][p]
    <3>1. x # r \/ q # p
      BY <1>1, <2>3
    <3>2. marker \in [Requests -> [Policies -> Marker]]
      BY <1>1 DEF QuotaTypes
    <3>3. marker' = [marker EXCEPT ![x] = [marker[x] EXCEPT ![q] = m]]
      BY <2>3 DEF SetMarker
    <3> QED BY <3>1, <3>2, <3>3
  <2>4. ASSUME NEW x \in Requests, NEW q \in Policies, NEW amount \in Amounts,
               QuotaReserve(x, q, amount) \/ QuotaSettle(x, q, amount)
        PROVE  marker'[r][p] = marker[r][p]
    BY <2>3, <2>4 DEF QuotaReserve, QuotaSettle, Reserved, Settled
  <2>5. ASSUME NEW x \in Requests, NEW q \in Policies,
               ReleaseConcurrency(x, q) \/ Renew(x, q) \/ FallDue(x, q)
        PROVE  marker'[r][p] = marker[r][p]
    BY <2>3, <2>5 DEF ReleaseConcurrency, Renew, FallDue, Reserved, Settled
  <2>6. ASSUME NEW x \in Requests, NEW q \in Policies, NEW cost \in Nat,
               NEW version \in Nat, CorrectCost(x, q, cost, version)
        PROVE  Ordered(r, p)
    <3> DEFINE m == [marker[x][q] EXCEPT !.corrected = cost, !.version = version]
    <3>0. marker[x][q] \in Marker
      BY <1>1, QuotaRows
    <3>1. /\ m \in Marker /\ m.version = version
          /\ SetMarker(x, q, m) /\ version > marker[x][q].version
      BY <2>6, <3>0 DEF CorrectCost, Marker
    <3> HIDE DEF m
    <3>2. marker'[r][p] = IF r = x /\ p = q THEN m ELSE marker[r][p]
      BY <1>1, <3>1, MarkerSet
    <3> QED BY <2>1, <3>1, <3>2
  <2>7. ASSUME NEW x \in Requests, NEW q \in Policies, ExpireMarker(x, q)
        PROVE  Ordered(r, p)
    <3> DEFINE m == [marker[x][q] EXCEPT !.state = "EXPIRED"]
    <3>1. /\ m \in Marker /\ m.version = marker[x][q].version
          /\ m.corrected = marker[x][q].corrected /\ SetMarker(x, q, m)
      <4>1. marker[x][q] \in Marker
        BY <1>1, QuotaRows
      <4>2. SetMarker(x, q, m)
        BY <2>7 DEF ExpireMarker
      <4> QED BY <4>1, <4>2 DEF Marker
    <3> HIDE DEF m
    <3>2. marker'[r][p] = IF r = x /\ p = q THEN m ELSE marker[r][p]
      BY <1>1, <3>1, MarkerSet
    <3> QED BY <2>1, <3>1, <3>2
  <2>8. ASSUME NEW x \in Requests, NEW q \in Policies, QuotaCalls(x, q)
        PROVE  Ordered(r, p)
    <3>1. Amounts \subseteq Nat /\ 1 .. MaxVersion \subseteq Nat
      BY QuotaAssumption
    <3> HIDE DEF Ordered
    <3> QED BY <2>2, <2>4, <2>5, <2>6, <2>8, <3>1 DEF QuotaCalls
  <2>9. ASSUME marker' = marker
        PROVE  Ordered(r, p)
    BY <2>2, <2>9
  <2>10. CASE QuotaTime
    <3>1. ASSUME NEW x \in Requests, Abandon(x)
          PROVE  marker' = marker
      BY <3>1 DEF Abandon
    <3>2. ASSUME NEW q \in Policies, \/ ExpireSlots(q) \/ ExpireGeneration(q)
                                     \/ \E w \in Windows : ExpireWindow(q, w)
          PROVE  marker' = marker
      BY <3>2 DEF ExpireSlots, ExpireGeneration, ExpireWindow
    <3> HIDE DEF Ordered
    <3> QED BY <2>2, <2>5, <2>7, <2>9, <2>10, <3>1, <3>2 DEF QuotaTime
  <2>11. CASE UNCHANGED quotaVars
    BY <2>9, <2>11 DEF quotaVars
  <2> HIDE DEF Ordered
  <2> QED BY <1>1, <2>8, <2>10, <2>11 DEF QuotaNext
<1>2. ASSUME QuotaTypes, [QuotaNext]_quotaVars
      PROVE  [\A r \in Requests, p \in Policies : Ordered(r, p)]_quotaVars
  BY <1>1, <1>2
<1>3. UsageInv => QuotaTypes
  BY DEF UsageInv
<1> QED BY <1>2, <1>3, UsageAlways, PTL DEF QuotaSpec, CorrectionsInOrder
===============================================================================
