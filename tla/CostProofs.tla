------------------------------ MODULE CostProofs ------------------------------
(***************************************************************************)
(* What a call may cost and what is shown of costs: the reservation covers *)
(* the charge; one rule gives the cost of an instant, the timeline of the  *)
(* page shows it and the status of the mapping is true to it; and the      *)
(* views of usage show every request and lose no amount.                   *)
(***************************************************************************)
EXTENDS CostSchedule, Pricing, UsageViews, TotalsProofs, WellFoundedInduction, TLAPS

\* A longer call at a higher price costs no less.
LEMMA ProductMonotone ==
  ASSUME NEW a \in Nat, NEW b \in Nat, NEW p \in Nat, NEW q \in Nat,
         a <= b, p <= q
  PROVE  a * p <= b * q
<1>1. a * p <= b * p
  BY SMT
<1>2. b * p <= b * q
  BY SMT
<1>3. a * p \in Nat /\ b * p \in Nat /\ b * q \in Nat
  BY SMT
<1> QED BY <1>1, <1>2, <1>3

\* Rounding up what bounds an amount bounds the amount rounded to the nearest.
LEMMA RoundingUpBounds ==
  ASSUME NEW n \in Nat, NEW m \in Nat, n <= m
  PROVE  Nearest(n) <= Up(m)
BY DEF Nearest, Up, Million

-----------------------------------------------------------------------------
(* The greatest of some numbers.                                           *)

\* Some natural numbers have a least one ...
LEMMA LeastExists ==
  ASSUME NEW S \in SUBSET Nat, S # {}
  PROVE  \E x \in S : \A y \in S : x <= y
<1> DEFINE R == OpToRel(<, Nat)
<1>1. IsWellFoundedOn(R, Nat)
  BY NatLessThanWellFounded
<1>2. \A x, y \in Nat : y < x => <<y, x>> \in R
  BY DEF OpToRel
<1> HIDE DEF R
<1>3. \E x \in S : \A y \in S : ~ (<<y, x>> \in R)
  BY <1>1, WFMin
<1>4. PICK x \in S : \A y \in S : ~ (<<y, x>> \in R)
  BY <1>3
<1>5. \A y \in S : ~ (y < x)
  BY <1>2, <1>4
<1>6. \A y \in S : x <= y
  BY <1>5
<1> QED BY <1>6

\* ... and, with a bound, a greatest one.
LEMMA GreatestExists ==
  ASSUME NEW S \in SUBSET Nat, S # {}, NEW top \in Nat, \A x \in S : x <= top
  PROVE  \E x \in S : \A y \in S : y <= x
<1> DEFINE Gaps == {top - x : x \in S}
<1>1. Gaps \in SUBSET Nat /\ Gaps # {}
  <2>1. \A x \in S : top - x \in Nat
    OBVIOUS
  <2> QED BY <2>1
<1>2. PICK g \in Gaps : \A h \in Gaps : g <= h
  BY <1>1, LeastExists
<1>3. PICK x \in S : g = top - x
  OBVIOUS
<1>4. \A y \in S : top - x <= top - y
  BY <1>2, <1>3
<1> QED BY <1>4

\* Finitely many numbers have a bound.
LEMMA FiniteBounded ==
  ASSUME NEW S, IsFiniteSet(S), NEW f \in [S -> Nat]
  PROVE  \E top \in Nat : \A s \in S : f[s] <= top
<1>1. PICK n \in Nat : ExistsSurjection(1 .. n, S)
  BY FS_NatSurjection
<1>2. PICK g \in [1 .. n -> S] : \A s \in S : \E i \in 1 .. n : g[i] = s
  BY <1>1 DEF ExistsSurjection, Surjection
<1> DEFINE Bounded(m) == \E top \in Nat : \A i \in 1 .. m : f[g[i]] <= top
           unbounded == {m \in 0 .. n : ~Bounded(m)}
<1>3. \A m \in 1 .. n : Bounded(m - 1) => Bounded(m)
  <2> SUFFICES ASSUME NEW m \in 1 .. n, Bounded(m - 1)
               PROVE  Bounded(m)
    OBVIOUS
  <2>1. PICK top \in Nat : \A i \in 1 .. m - 1 : f[g[i]] <= top
    OBVIOUS
  <2>2. \A i \in 1 .. n : f[g[i]] \in Nat
    BY <1>2
  <2> DEFINE more == IF top <= f[g[m]] THEN f[g[m]] ELSE top
  <2>3. more \in Nat /\ top <= more /\ f[g[m]] <= more
    BY <2>2
  <2> HIDE DEF more
  <2>4. \A i \in 1 .. m : f[g[i]] <= more
    <3> SUFFICES ASSUME NEW i \in 1 .. m
                 PROVE  f[g[i]] <= more
      OBVIOUS
    <3>1. f[g[i]] \in Nat
      BY <2>2
    <3>2. CASE i = m
      BY <2>3, <3>2
    <3>3. CASE i # m
      <4>1. i \in 1 .. m - 1
        BY <3>3
      <4> QED BY <2>1, <2>3, <3>1, <4>1
    <3> QED BY <3>2, <3>3
  <2> QED BY <2>3, <2>4
<1>4. Bounded(0)
  <2>1. \A i \in 1 .. 0 : f[g[i]] <= 0
    OBVIOUS
  <2> QED BY <2>1
<1>5. unbounded = {}
  <2> HIDE DEF Bounded
  <2> SUFFICES ASSUME unbounded # {}
               PROVE  FALSE
    OBVIOUS
  <2>1. unbounded \in SUBSET Nat
    OBVIOUS
  <2>2. PICK m \in unbounded : \A k \in unbounded : m <= k
    <3> HIDE DEF unbounded
    <3> QED BY <2>1, LeastExists
  <2>3. m \in 1 .. n
    BY <1>4, <2>2
  <2>4. m - 1 \in 0 .. n /\ m - 1 \notin unbounded
    BY <2>2, <2>3
  <2> QED BY <1>3, <2>2, <2>3, <2>4
<1>6. Bounded(n)
  <2> HIDE DEF Bounded
  <2> QED BY <1>5
<1> QED BY <1>2, <1>6

\* One of finitely many has the greatest number.
LEMMA FiniteGreatest ==
  ASSUME NEW S, IsFiniteSet(S), S # {}, NEW f \in [S -> Nat]
  PROVE  \E s \in S : \A u \in S : f[u] <= f[s]
<1> DEFINE values == {f[s] : s \in S}
<1>1. values \in SUBSET Nat /\ values # {}
  OBVIOUS
<1>2. PICK top \in Nat : \A s \in S : f[s] <= top
  BY FiniteBounded
<1>3. \A v \in values : v <= top
  BY <1>2
<1>4. PICK v \in values : \A w \in values : w <= v
  BY <1>1, <1>3, GreatestExists
<1> QED BY <1>4

-----------------------------------------------------------------------------
(* What is reserved covers what is charged.                                *)

\* A call that stays within its limits, on either side.
LEMMA SideBounded ==
  ASSUME NEW all \in Nat, NEW part \in Nat, NEW limit \in Nat,
         NEW rate \in Nat, NEW partRate \in Nat,
         part <= all, all <= limit
  PROVE  /\ Greater(0, all - part) * rate + part * partRate \in Nat
         /\ Greater(0, all - part) * rate + part * partRate
              <= limit * Greater(rate, partRate)
<1> DEFINE rest == all - part
           dearer == Greater(rate, partRate)
<1>1. rest \in Nat /\ Greater(0, rest) = rest /\ rest + part <= limit
  BY DEF Greater
<1>2. dearer \in Nat /\ rate <= dearer /\ partRate <= dearer
  BY DEF Greater
<1> HIDE DEF rest, dearer
<1>3. rest * rate <= rest * dearer /\ part * partRate <= part * dearer
  BY <1>1, <1>2, ProductMonotone
<1>4. (rest + part) * dearer <= limit * dearer
  BY <1>1, <1>2, ProductMonotone
<1>5. (rest + part) * dearer = rest * dearer + part * dearer
  BY <1>1, <1>2, SMT
<1>6. /\ rest * rate \in Nat /\ part * partRate \in Nat
      /\ rest * dearer \in Nat /\ part * dearer \in Nat /\ limit * dearer \in Nat
  BY <1>1, <1>2, SMT
<1>7. rest * rate + part * partRate <= limit * dearer
  BY <1>3, <1>4, <1>5, <1>6
<1> QED BY <1>1, <1>6, <1>7 DEF rest, dearer

\* The charge for a call within its limits stays below the bound on its price.
LEMMA ChargeBounded ==
  ASSUME NEW tokens \in Tokens, NEW price \in Price, NEW i \in Nat, NEW o \in Nat,
         tokens.cached <= tokens.input, tokens.input <= i,
         tokens.reasoning <= tokens.output, tokens.output <= o
  PROVE  /\ Charge(tokens, price) \in Nat /\ Bound(i, o, price) \in Nat
         /\ Charge(tokens, price) <= Bound(i, o, price)
<1> DEFINE inside == Greater(0, tokens.input - tokens.cached) * price.input
                       + tokens.cached * price.cached
           outside == Greater(0, tokens.output - tokens.reasoning) * price.output
                       + tokens.reasoning * price.reasoning
<1>1. /\ tokens.input \in Nat /\ tokens.output \in Nat
      /\ tokens.cached \in Nat /\ tokens.reasoning \in Nat
      /\ price.input \in Nat /\ price.output \in Nat
      /\ price.cached \in Nat /\ price.reasoning \in Nat
  BY DEF Tokens, Price
<1>2. inside \in Nat /\ inside <= i * Greater(price.input, price.cached)
  BY <1>1, SideBounded
<1>3. outside \in Nat /\ outside <= o * Greater(price.output, price.reasoning)
  BY <1>1, SideBounded
<1>4. /\ Greater(0, tokens.input - tokens.cached) * price.input \in Nat
      /\ Greater(0, tokens.output - tokens.reasoning) * price.output \in Nat
      /\ tokens.cached * price.cached \in Nat
      /\ tokens.reasoning * price.reasoning \in Nat
      /\ i * Greater(price.input, price.cached) \in Nat
      /\ o * Greater(price.output, price.reasoning) \in Nat
  <2>1. \A m, n \in Nat : Greater(m, n) \in Nat
    BY DEF Greater
  <2>2. /\ Greater(0, tokens.input - tokens.cached) \in Nat
        /\ Greater(0, tokens.output - tokens.reasoning) \in Nat
    BY <1>1 DEF Greater
  <2>3. \A m, n \in Nat : m * n \in Nat
    BY SMT
  <2> QED BY <1>1, <2>1, <2>2, <2>3
<1>5. Charge(tokens, price) = inside + outside
  BY <1>4 DEF Charge
<1> HIDE DEF inside, outside
<1> QED BY <1>2, <1>3, <1>4, <1>5 DEF Bound

\* Whatever route a budgeted call takes, and however its tokens are divided, it
\* costs no more than was reserved for it, as long as the supplier counts no
\* more input than the bytes of the body and the envelope and keeps the cap on
\* the output: calculateCost, rounded to the nearest, stays below
\* estimateBudgetCost, rounded up, for the dearest of the prices.
THEOREM ReservationCoversCost ==
  ASSUME NEW prices \in SUBSET Price, NEW price \in prices, NEW top \in Nat,
         \A p \in prices : /\ p.input <= top /\ p.output <= top
                           /\ p.cached <= top /\ p.reasoning <= top,
         NEW i \in Nat, NEW o \in Nat, NEW tokens \in Tokens,
         tokens.cached <= tokens.input, tokens.input <= i,
         tokens.reasoning <= tokens.output, tokens.output <= o
  PROVE  CalculateCost(tokens, price) <= EstimateBudgetCost(i, o, prices)
<1> DEFINE bounds == {Up(Bound(i, o, p)) : p \in prices}
           most == (i + o) * top
<1>1. \A p \in prices : Bound(i, o, p) \in Nat /\ Bound(i, o, p) <= most
  <2> SUFFICES ASSUME NEW p \in prices
               PROVE  Bound(i, o, p) \in Nat /\ Bound(i, o, p) <= most
    OBVIOUS
  <2> DEFINE a == Greater(p.input, p.cached)
             b == Greater(p.output, p.reasoning)
  <2>1. a \in Nat /\ a <= top /\ b \in Nat /\ b <= top
    BY DEF Price, Greater
  <2> HIDE DEF a, b
  <2>2. i * a <= i * top /\ o * b <= o * top
    BY <2>1, ProductMonotone
  <2>3. (i + o) * top = i * top + o * top
    BY SMT
  <2>4. i * a \in Nat /\ o * b \in Nat /\ i * top \in Nat /\ o * top \in Nat
    BY <2>1, SMT
  <2>5. i * a + o * b \in Nat /\ i * a + o * b <= most
    BY <2>2, <2>3, <2>4
  <2> QED BY <2>5 DEF Bound, a, b
<1>2. most \in Nat
  BY SMT
<1> HIDE DEF most
<1>3. \A p \in prices : Up(Bound(i, o, p)) \in Nat /\ Up(Bound(i, o, p)) <= Up(most)
  BY <1>1, <1>2 DEF Up, Million
<1>4. Up(most) \in Nat
  BY <1>2 DEF Up, Million
<1>5. bounds \in SUBSET Nat /\ bounds # {} /\ \A n \in bounds : n <= Up(most)
  BY <1>3
<1>6. \E n \in bounds : \A m \in bounds : m <= n
  BY <1>4, <1>5, GreatestExists
<1>7. \A m \in bounds : m <= EstimateBudgetCost(i, o, prices)
  BY <1>6 DEF EstimateBudgetCost
<1>8. Up(Bound(i, o, price)) <= EstimateBudgetCost(i, o, prices)
  BY <1>7
<1>9. EstimateBudgetCost(i, o, prices) \in Nat
  BY <1>5, <1>6 DEF EstimateBudgetCost
<1>10. Charge(tokens, price) \in Nat /\ Charge(tokens, price) <= Bound(i, o, price)
  BY ChargeBounded
<1>11. CalculateCost(tokens, price) <= Up(Bound(i, o, price))
  BY <1>1, <1>10, RoundingUpBounds DEF CalculateCost
<1>12. CalculateCost(tokens, price) \in Int /\ Up(Bound(i, o, price)) \in Int
  BY <1>1, <1>10 DEF CalculateCost, Nearest, Up, Million
<1> QED BY <1>8, <1>9, <1>11, <1>12

-----------------------------------------------------------------------------
(* The rule that gives the cost.                                           *)

\* The columns of a rule.
LEMMA ScheduleType ==
  ASSUME NEW rule \in Schedule
  PROVE  /\ rule.enabled \in BOOLEAN /\ rule.priority \in Nat
         /\ rule.days \in (SUBSET Days) \ {{}}
         /\ rule.start \in Minutes /\ rule.start \in Nat
         /\ rule.end \in Minutes /\ rule.end \in Nat
         /\ rule.from \in Nat /\ rule.until \in Nat /\ rule.created \in Nat
<1>1. \A m \in Minutes : m \in Nat
  BY ScheduleAssumption DEF Minutes
<1> QED BY <1>1 DEF Schedule

\* sortRules puts one of any rules before all others.
LEMMA FirstRuleExists ==
  ASSUME NEW RS \in SUBSET Nat, NEW Q \in [RS -> Schedule],
         NEW S \in SUBSET RS, IsFiniteSet(S), S # {}
  PROVE  \E r \in S : \A s \in S \ {r} : Outranks(Q, r, s)
<1>1. \A r \in RS : Q[r].priority \in Nat /\ Q[r].from \in Nat /\ Q[r].created \in Nat
  <2>1. \A r \in RS : Q[r] \in Schedule
    OBVIOUS
  <2> QED BY <2>1, ScheduleType
<1>2. PICK a \in S : \A u \in S : Q[u].priority <= Q[a].priority
  <2> DEFINE f == [u \in S |-> Q[u].priority]
  <2>1. f \in [S -> Nat]
    BY <1>1
  <2> HIDE DEF f
  <2>2. PICK s \in S : \A u \in S : f[u] <= f[s]
    BY <2>1, FiniteGreatest
  <2> QED BY <2>2 DEF f
<1> DEFINE A == {u \in S : Q[u].priority = Q[a].priority}
<1>3. IsFiniteSet(A) /\ a \in A
  BY FS_Subset
<1>4. PICK b \in A : \A u \in A : Q[u].from <= Q[b].from
  <2> DEFINE f == [u \in A |-> Q[u].from]
  <2>1. f \in [A -> Nat] /\ A # {}
    BY <1>1, <1>3
  <2> HIDE DEF f, A
  <2>2. PICK s \in A : \A u \in A : f[u] <= f[s]
    BY <1>3, <2>1, FiniteGreatest
  <2> QED BY <2>2 DEF f
<1> DEFINE B == {u \in A : Q[u].from = Q[b].from}
<1>5. IsFiniteSet(B) /\ b \in B
  <2> HIDE DEF A
  <2> QED BY <1>3, FS_Subset
<1>6. PICK c \in B : \A u \in B : Q[u].created <= Q[c].created
  <2> DEFINE f == [u \in B |-> Q[u].created]
  <2>1. f \in [B -> Nat] /\ B # {}
    BY <1>1, <1>5
  <2> HIDE DEF f, B
  <2>2. PICK s \in B : \A u \in B : f[u] <= f[s]
    BY <1>5, <2>1, FiniteGreatest
  <2> QED BY <2>2 DEF f
<1> DEFINE C == {u \in B : Q[u].created = Q[c].created}
<1>7. C \in SUBSET Nat /\ C # {}
  OBVIOUS
<1>8. PICK r \in C : \A u \in C : r <= u
  <2> HIDE DEF C
  <2> QED BY <1>7, LeastExists
<1>9. \A s \in S \ {r} : Outranks(Q, r, s)
  <2> SUFFICES ASSUME NEW s \in S, s # r
               PROVE  Outranks(Q, r, s)
    OBVIOUS
  <2>1. r \in S /\ r \in RS /\ s \in RS /\ r \in Nat /\ s \in Nat
    OBVIOUS
  <2>2. /\ Q[r].priority \in Nat /\ Q[r].from \in Nat /\ Q[r].created \in Nat
        /\ Q[s].priority \in Nat /\ Q[s].from \in Nat /\ Q[s].created \in Nat
    BY <1>1, <2>1
  <2>3. /\ Q[r].priority = Q[a].priority /\ Q[r].from = Q[b].from /\ Q[r].created = Q[c].created
    BY <1>8
  <2>4. Q[s].priority <= Q[r].priority
    BY <1>2, <2>3
  <2>5. Q[s].priority = Q[r].priority => Q[s].from <= Q[r].from
    BY <1>4, <2>3
  <2>6. Q[s].priority = Q[r].priority /\ Q[s].from = Q[r].from => Q[s].created <= Q[r].created
    BY <1>6, <2>3
  <2>7. Q[s].priority = Q[r].priority /\ Q[s].from = Q[r].from /\ Q[s].created = Q[r].created => r <= s
    BY <1>8, <2>3
  <2> HIDE DEF A, B, C
  <2> QED BY <2>1, <2>2, <2>4, <2>5, <2>6, <2>7 DEF Outranks
<1> QED BY <1>9

\* The rule that gives the cost applies, and none that applies comes before it.
LEMMA ResolvedRule ==
  ASSUME NEW RS \in SUBSET Nat, IsFiniteSet(RS), NEW Q \in [RS -> Schedule], NEW at \in Nat,
         {r \in RS : Applies(Q[r], at)} # {}
  PROVE  LET w == ResolveChannelCost(Q, at)
         IN /\ w \in RS /\ Applies(Q[w], at)
            /\ \A s \in RS \ {w} : Applies(Q[s], at) => Outranks(Q, w, s)
<1> DEFINE S == {r \in RS : Applies(Q[r], at)}
<1>1. IsFiniteSet(S) /\ S \in SUBSET RS
  BY FS_Subset
<1>2. \E r \in S : \A s \in S \ {r} : Outranks(Q, r, s)
  <2>1. S # {}
    OBVIOUS
  <2> HIDE DEF S
  <2> QED BY <1>1, <2>1, FirstRuleExists
<1>3. ResolveChannelCost(Q, at) = CHOOSE r \in S : \A s \in S \ {r} : Outranks(Q, r, s)
  BY DEF ResolveChannelCost
<1>4. /\ ResolveChannelCost(Q, at) \in S
      /\ \A s \in S \ {ResolveChannelCost(Q, at)} : Outranks(Q, ResolveChannelCost(Q, at), s)
  <2> HIDE DEF S
  <2> QED BY <1>2, <1>3
<1> QED BY <1>4

-----------------------------------------------------------------------------
(* The timeline of the page.                                               *)

\* A number, the part of it that fills whole slots, and the rest.
LEMMA WholeSlots ==
  ASSUME NEW length \in Nat \ {0}, NEW x \in Nat
  PROVE  /\ x \div length \in Nat
         /\ x % length \in 0 .. length - 1
         /\ x = length * (x \div length) + (x % length)
BY SMT

\* Between two bounds of slots lies a whole slot.
LEMMA SlotsApart ==
  ASSUME NEW length \in Nat \ {0}, NEW m \in Nat, NEW n \in Nat,
         m % length = 0, n % length = 0, m < n
  PROVE  m + length <= n
<1> DEFINE a == m \div length
           b == n \div length
<1>1. a \in Nat /\ m = length * a
  BY WholeSlots
<1>2. b \in Nat /\ n = length * b
  BY WholeSlots
<1> HIDE DEF a, b
<1>3. a + 1 <= b
  <2> SUFFICES ASSUME b <= a
               PROVE  FALSE
    BY <1>1, <1>2
  <2>1. length * b <= length * a
    BY <1>1, <1>2, ProductMonotone
  <2> QED BY <1>1, <1>2, <2>1
<1>4. length * (a + 1) <= length * b
  BY <1>1, <1>2, <1>3, ProductMonotone
<1>5. length * (a + 1) = length * a + length
  BY <1>1, SMT
<1> QED BY <1>1, <1>2, <1>4, <1>5

\* A minute lies in its slot.
LEMMA SelectedSlotContains ==
  ASSUME NEW length \in Nat \ {0}, NEW x \in Nat
  PROVE  LET m == (x \div length) * length
         IN m \in Nat /\ m <= x /\ x < m + length /\ m % length = 0
<1> DEFINE a == x \div length
           rest == x % length
<1>1. a \in Nat /\ rest \in 0 .. length - 1 /\ x = length * a + rest
  BY WholeSlots
<1> HIDE DEF a, rest
<1>2. length * a = a * length /\ a * length \in Nat
  BY <1>1, SMT
<1>3. a * length <= x /\ x < a * length + length
  BY <1>1, <1>2
<1>4. (a * length) % length = 0
  <2> DEFINE b == (a * length) \div length
             other == (a * length) % length
  <2>1. b \in Nat /\ other \in 0 .. length - 1 /\ a * length = length * b + other
    BY <1>2, WholeSlots
  <2> HIDE DEF b, other
  <2>2. CASE a = b
    <3>1. other = 0
      BY <1>2, <2>1, <2>2
    <3> QED BY <3>1 DEF other
  <2>3. CASE a < b
    <3>1. length * (a + 1) <= length * b
      BY <1>1, <2>1, <2>3, ProductMonotone
    <3>2. length * (a + 1) = length * a + length
      BY <1>1, SMT
    <3>3. length * a \in Nat /\ length * b \in Nat
      BY <1>1, <2>1, SMT
    <3> QED BY <1>2, <2>1, <3>1, <3>2, <3>3
  <2>4. CASE b < a
    <3>1. length * (b + 1) <= length * a
      BY <1>1, <2>1, <2>4, ProductMonotone
    <3>2. length * (b + 1) = length * b + length
      BY <2>1, SMT
    <3>3. length * a \in Nat /\ length * b \in Nat
      BY <1>1, <2>1, SMT
    <3> QED BY <1>2, <2>1, <3>1, <3>2, <3>3
  <2> QED BY <1>1, <2>1, <2>2, <2>3, <2>4
<1> QED BY <1>2, <1>3, <1>4 DEF a

\* An instant has a minute and a day.
LEMMA LocalTimeType ==
  ASSUME NEW at \in Nat
  PROVE  MinuteOfDay(at) \in Minutes /\ Weekday(at) \in Days
<1>1. /\ DaysPerWeek \in Nat \ {0} /\ MinutesPerDay \in Nat \ {0} /\ TicksPerMinute \in Nat \ {0}
  BY ScheduleAssumption
<1>2. TicksPerDay \in Nat \ {0}
  BY <1>1, SMT DEF TicksPerDay
<1>3. at \div TicksPerMinute \in Nat /\ at \div TicksPerDay \in Nat
  BY <1>1, <1>2, WholeSlots
<1>4. MinuteOfDay(at) \in 0 .. MinutesPerDay - 1
  BY <1>1, <1>3, WholeSlots DEF MinuteOfDay
<1>5. (at \div TicksPerDay) % DaysPerWeek \in 0 .. DaysPerWeek - 1
  BY <1>1, <1>3, WholeSlots
<1> QED BY <1>1, <1>4, <1>5 DEF Minutes, Days, Weekday


\* The page and the server compare a window with a minute in the same way.
LEMMA CoversAsMatches ==
  ASSUME NEW rule \in Schedule, NEW day \in Days, NEW minute \in Nat
  PROVE  CoversSlot(rule, day, minute) <=> MatchesLocalTime(rule, day, minute)
BY ScheduleType DEF CoversSlot, MatchesLocalTime, DayBefore

\* A window whose bounds are bounds of slots holds for all of a slot or none.
LEMMA WindowOfSlots ==
  ASSUME NEW rule \in Schedule, NEW day \in Days, NEW length \in Nat \ {0},
         rule.start % length = 0, rule.end % length = 0,
         NEW m \in Nat, NEW x \in Nat, m % length = 0, m <= x, x < m + length
  PROVE  MatchesLocalTime(rule, day, m) <=> MatchesLocalTime(rule, day, x)
<1>1. rule.start \in Nat /\ rule.end \in Nat
  BY ScheduleType
<1>2. rule.start <= m <=> rule.start <= x
  <2>1. CASE m < rule.start
    <3>1. m + length <= rule.start
      BY <1>1, <2>1, SlotsApart
    <3> QED BY <1>1, <2>1, <3>1
  <2>2. CASE rule.start <= m
    BY <1>1, <2>2
  <2> QED BY <1>1, <2>1, <2>2
<1>3. m < rule.end <=> x < rule.end
  <2>1. CASE m < rule.end
    <3>1. m + length <= rule.end
      BY <1>1, <2>1, SlotsApart
    <3> QED BY <1>1, <2>1, <3>1
  <2>2. CASE rule.end <= m
    BY <1>1, <2>2
  <2> QED BY <1>1, <2>1, <2>2
<1> QED BY <1>2, <1>3 DEF MatchesLocalTime

\* The slot in which the page shows an instant holds the rule, or the fallback,
\* that resolveChannelCostWithFallback gives at that instant, as long as the
\* same rules are in force as at the instant the page is drawn for and either
\* every window begins and ends with a slot or the instant is in the first
\* minute of its slot: the timeline decides by the start of each half hour, by
\* a search of its own, and the server by the instant.
THEOREM TimelineShowsCost ==
  ASSUME NEW RS \in SUBSET (Nat \ {0}), IsFiniteSet(RS), NEW Q \in [RS -> Schedule], NEW archived \in SUBSET RS,
         NEW fallback \in BOOLEAN, NEW at \in Nat, NEW t \in Nat, NEW length \in Nat \ {0},
         \A r \in RS : InForce(Q[r], t) <=> InForce(Q[r], at),
         \/ \A r \in RS : Q[r].start % length = 0 /\ Q[r].end % length = 0
         \/ MinuteOfDay(t) % length = 0
  PROVE  LET shown == WeeklyCostTimeline(Q, archived, fallback, at, length)[SelectedLocalSlot(t, length)]
             kept == [r \in RS \ archived |-> Q[r]]
         IN Resolved(kept, fallback, t) =
              IF shown.kind \in {"CHANNEL_BASE", "CHANNEL_OVERRIDE"} THEN <<"CHANNEL_COST_RULE", shown.rule>>
              ELSE IF shown.kind = "PUBLIC_FALLBACK" THEN <<"PUBLIC_MODEL_FALLBACK", 0>>
              ELSE <<"NONE", 0>>
<1> DEFINE kept == [r \in RS \ archived |-> Q[r]]
           active == {r \in DOMAIN Q : CostRuleLifecycle(Q[r], r \in archived, at) = "CURRENT"}
           Covering(slot) == {r \in active : CoversSlot(Q[r], slot[1], slot[2])}
           Winner(slot) == CHOOSE r \in Covering(slot) :
                             \A s \in Covering(slot) \ {r} : Outranks(Q, r, s)
           slot == SelectedLocalSlot(t, length)
           applying == {r \in DOMAIN kept : Applies(kept[r], t)}
           day == Weekday(t)
           x == MinuteOfDay(t)
           m == (x \div length) * length
           shown == WeeklyCostTimeline(Q, archived, fallback, at, length)[slot]
<1>1. day \in Days /\ x \in Minutes /\ x \in Nat
  BY LocalTimeType, ScheduleAssumption DEF Minutes
<1>2. m \in Nat /\ m <= x /\ x < m + length /\ m % length = 0
  BY <1>1, SelectedSlotContains
<1>3. m \in Minutes
  BY <1>1, <1>2, ScheduleAssumption DEF Minutes
<1>4. slot = <<day, m>> /\ slot \in TimelineSlots(length) /\ slot[1] = day /\ slot[2] = m
  BY <1>1, <1>2, <1>3 DEF SelectedLocalSlot, TimelineSlots
<1>5. \A r \in RS : CoversSlot(Q[r], day, m) <=> MatchesLocalTime(Q[r], day, x)
  <2> SUFFICES ASSUME NEW r \in RS
               PROVE  CoversSlot(Q[r], day, m) <=> MatchesLocalTime(Q[r], day, x)
    OBVIOUS
  <2>1. Q[r] \in Schedule
    OBVIOUS
  <2>2. CoversSlot(Q[r], day, m) <=> MatchesLocalTime(Q[r], day, m)
    BY <1>1, <1>2, <2>1, CoversAsMatches
  <2>3. CASE x % length = 0
    <3>1. m = x
      <4>1. CASE m < x
        <5>1. m + length <= x
          BY <1>1, <1>2, <2>3, <4>1, SlotsApart
        <5> QED BY <1>1, <1>2, <5>1
      <4> QED BY <1>1, <1>2, <4>1
    <3> QED BY <2>2, <3>1
  <2>4. CASE Q[r].start % length = 0 /\ Q[r].end % length = 0
    <3>1. MatchesLocalTime(Q[r], day, m) <=> MatchesLocalTime(Q[r], day, x)
      BY <1>1, <1>2, <2>1, <2>4, WindowOfSlots
    <3> QED BY <2>2, <3>1
  <2> QED BY <2>3, <2>4
<1>6. \A r \in RS : CostRuleLifecycle(Q[r], r \in archived, at) = "CURRENT"
                      <=> r \notin archived /\ Q[r].enabled /\ InForce(Q[r], t)
  <2> SUFFICES ASSUME NEW r \in RS
               PROVE  CostRuleLifecycle(Q[r], r \in archived, at) = "CURRENT"
                        <=> r \notin archived /\ Q[r].enabled /\ InForce(Q[r], at)
    OBVIOUS
  <2>1. Q[r] \in Schedule
    OBVIOUS
  <2>2. Q[r].enabled \in BOOLEAN /\ Q[r].from \in Nat /\ Q[r].until \in Nat
    BY <2>1, ScheduleType
  <2> QED BY <2>2 DEF CostRuleLifecycle, InForce
<1>7. Covering(slot) = applying
  <2>1. Covering(slot) = {r \in RS : /\ CostRuleLifecycle(Q[r], r \in archived, at) = "CURRENT"
                                     /\ CoversSlot(Q[r], day, m)}
    BY <1>4
  <2>2. applying = {r \in RS : r \notin archived /\ Applies(Q[r], t)}
    OBVIOUS
  <2> HIDE DEF applying, Covering, slot, day, m, x
  <2>3. \A r \in RS : (/\ CostRuleLifecycle(Q[r], r \in archived, at) = "CURRENT"
                       /\ CoversSlot(Q[r], day, m))
                        <=> (r \notin archived /\ Applies(Q[r], t))
    BY <1>5, <1>6 DEF Applies, day, x
  <2> QED BY <2>1, <2>2, <2>3
<1>8. shown = IF Covering(slot) # {}
              THEN [rule |-> Winner(slot),
                    kind |-> IF Q[Winner(slot)].priority > 0 THEN "CHANNEL_OVERRIDE" ELSE "CHANNEL_BASE"]
              ELSE [rule |-> 0, kind |-> IF fallback THEN "PUBLIC_FALLBACK" ELSE "UNCOVERED"]
  BY <1>4 DEF WeeklyCostTimeline
<1>9. CASE applying = {}
  <2>1. shown = [rule |-> 0, kind |-> IF fallback THEN "PUBLIC_FALLBACK" ELSE "UNCOVERED"]
    BY <1>7, <1>8, <1>9
  <2>2. ResolveChannelCost(kept, t) = 0
    BY <1>9 DEF ResolveChannelCost
  <2> HIDE DEF shown, kept
  <2>3. Resolved(kept, fallback, t) =
          IF fallback THEN <<"PUBLIC_MODEL_FALLBACK", 0>> ELSE <<"NONE", 0>>
    BY <2>2 DEF Resolved
  <2>4. CASE fallback
    <3>1. shown.kind = "PUBLIC_FALLBACK" /\ Resolved(kept, fallback, t) = <<"PUBLIC_MODEL_FALLBACK", 0>>
      BY <2>1, <2>3, <2>4
    <3> QED BY <3>1 DEF shown, kept
  <2>5. CASE ~fallback
    <3>1. shown.kind = "UNCOVERED" /\ Resolved(kept, fallback, t) = <<"NONE", 0>>
      BY <2>1, <2>3, <2>5
    <3> QED BY <3>1 DEF shown, kept
  <2> QED BY <2>4, <2>5
<1>10. CASE applying # {}
  <2> DEFINE w == CHOOSE r \in applying : \A s \in applying \ {r} : Outranks(Q, r, s)
  <2>1. \A r \in applying : \A s \in applying : Outranks(Q, r, s) <=> Outranks(kept, r, s)
    BY DEF Outranks
  <2>2. ResolveChannelCost(kept, t) = CHOOSE r \in applying : \A s \in applying \ {r} : Outranks(kept, r, s)
    BY <1>10 DEF ResolveChannelCost
  <2> HIDE DEF applying, kept
  <2>3. ResolveChannelCost(kept, t) = w
    BY <2>1, <2>2
  <2>4. Winner(slot) = w
    BY <1>7
  <2>5. shown.rule = w /\ shown.kind \in {"CHANNEL_BASE", "CHANNEL_OVERRIDE"}
    BY <1>7, <1>8, <1>10, <2>4
  <2> HIDE DEF w, shown
  <2>6. w # 0
    <3>1. /\ RS \ archived \in SUBSET Nat /\ IsFiniteSet(RS \ archived)
          /\ kept \in [RS \ archived -> Schedule]
      BY FS_Subset DEF kept
    <3>2. {r \in RS \ archived : Applies(kept[r], t)} # {}
      BY <1>10 DEF kept, applying
    <3>3. ResolveChannelCost(kept, t) \in RS \ archived
      BY <3>1, <3>2, ResolvedRule
    <3> QED BY <2>3, <3>3
  <2>7. Resolved(kept, fallback, t) = <<"CHANNEL_COST_RULE", w>>
    BY <2>3, <2>6 DEF Resolved
  <2> QED BY <2>5, <2>7 DEF shown, kept
<1> QED BY <1>9, <1>10

-----------------------------------------------------------------------------
(* Overlaps and coverage.                                                  *)

\* The minutes that the overlap and the coverage mark are those at which the
\* resolution finds the window open.
LEMMA MarkedMinutes ==
  ASSUME NEW rule \in Schedule
  PROVE  /\ WeeklyMinutes(rule) \subseteq Days \X Minutes
         /\ \A d \in Days, m \in Minutes :
              <<d, m>> \in WeeklyMinutes(rule) <=> MatchesLocalTime(rule, d, m)
<1>1. /\ DaysPerWeek \in Nat \ {0} /\ MinutesPerDay \in Nat \ {0}
  BY ScheduleAssumption
<1>2. /\ rule.days \in SUBSET Days /\ rule.start \in Minutes /\ rule.end \in Minutes
      /\ \A m \in Minutes : m \in 0 .. MinutesPerDay - 1
  BY ScheduleType DEF Minutes
<1>3. \A d \in Days : DayAfter(d) \in Days
  BY <1>1 DEF DayAfter, Days
<1>4. \A d, e \in Days : d = DayAfter(e) <=> e = DayBefore(d)
  BY <1>1 DEF DayAfter, DayBefore, Days
<1>5. \A e \in rule.days : Marked(rule, e) \subseteq Days \X Minutes
  <2> SUFFICES ASSUME NEW e \in rule.days
               PROVE  Marked(rule, e) \subseteq Days \X Minutes
    OBVIOUS
  <2>1. e \in Days /\ DayAfter(e) \in Days
    BY <1>2, <1>3
  <2>2. /\ rule.start .. rule.end - 1 \subseteq Minutes
        /\ rule.start .. MinutesPerDay - 1 \subseteq Minutes
        /\ 0 .. rule.end - 1 \subseteq Minutes
    BY <1>1, <1>2 DEF Minutes
  <2> QED BY <2>1, <2>2 DEF Marked
<1>6. \A d \in Days, m \in Minutes :
        <<d, m>> \in WeeklyMinutes(rule) <=> MatchesLocalTime(rule, d, m)
  <2> SUFFICES ASSUME NEW d \in Days, NEW m \in Minutes
               PROVE  <<d, m>> \in WeeklyMinutes(rule) <=> MatchesLocalTime(rule, d, m)
    OBVIOUS
  <2>1. <<d, m>> \in WeeklyMinutes(rule) <=> \E e \in rule.days : <<d, m>> \in Marked(rule, e)
    BY DEF WeeklyMinutes
  <2>2. CASE rule.start = rule.end
    <3>1. \A e \in rule.days : <<d, m>> \in Marked(rule, e) <=> d = e
      BY <2>2 DEF Marked
    <3> QED BY <2>1, <2>2, <3>1 DEF MatchesLocalTime
  <2>3. CASE rule.start < rule.end
    <3>1. m \in rule.start .. rule.end - 1 <=> rule.start <= m /\ m < rule.end
      BY <1>1, <1>2
    <3>2. rule.start # rule.end
      BY <1>1, <1>2, <2>3
    <3>3. \A e \in rule.days : <<d, m>> \in Marked(rule, e) <=> d = e /\ m \in rule.start .. rule.end - 1
      BY <2>3, <3>2 DEF Marked
    <3> QED BY <2>1, <2>3, <3>1, <3>2, <3>3 DEF MatchesLocalTime
  <2>4. CASE rule.end < rule.start
    <3>1. /\ m \in rule.start .. MinutesPerDay - 1 <=> rule.start <= m
          /\ m \in 0 .. rule.end - 1 <=> m < rule.end
      BY <1>1, <1>2
    <3>2. rule.start # rule.end /\ ~(rule.start < rule.end)
      BY <1>1, <1>2, <2>4
    <3>3. \A e \in rule.days : <<d, m>> \in Marked(rule, e) <=>
            \/ d = e /\ m \in rule.start .. MinutesPerDay - 1
            \/ d = DayAfter(e) /\ m \in 0 .. rule.end - 1
      BY <3>2 DEF Marked
    <3>4. \A e \in rule.days : d = DayAfter(e) <=> e = DayBefore(d)
      BY <1>2, <1>4
    <3>5. (\E e \in rule.days : <<d, m>> \in Marked(rule, e)) <=>
            \/ d \in rule.days /\ rule.start <= m
            \/ DayBefore(d) \in rule.days /\ m < rule.end
      BY <3>1, <3>3, <3>4
    <3> QED BY <2>1, <3>2, <3>5 DEF MatchesLocalTime
  <2> QED BY <1>1, <1>2, <2>2, <2>3, <2>4
<1>7. WeeklyMinutes(rule) \subseteq Days \X Minutes
  BY <1>5 DEF WeeklyMinutes
<1> QED BY <1>6, <1>7

\* What costRulesOverlap lets stand side by side never applies at one instant,
\* although it compares weeks and validities and the resolution local times.
THEOREM NoOverlapNoTie ==
  ASSUME NEW a \in Schedule, NEW b \in Schedule, ~CostRulesOverlap(a, b), NEW at \in Nat
  PROVE  ~(Applies(a, at) /\ Applies(b, at))
<1> SUFFICES ASSUME Applies(a, at), Applies(b, at)
             PROVE  CostRulesOverlap(a, b)
  OBVIOUS
<1>1. Weekday(at) \in Days /\ MinuteOfDay(at) \in Minutes
  BY LocalTimeType
<1>2. /\ <<Weekday(at), MinuteOfDay(at)>> \in WeeklyMinutes(a)
      /\ <<Weekday(at), MinuteOfDay(at)>> \in WeeklyMinutes(b)
  BY <1>1, MarkedMinutes DEF Applies
<1>3. a.from \in Nat /\ a.until \in Nat /\ b.from \in Nat /\ b.until \in Nat
  BY ScheduleType
<1>4. /\ ~(a.until # Always /\ a.until <= b.from)
      /\ ~(b.until # Always /\ b.until <= a.from)
  BY <1>3 DEF Applies, InForce
<1> QED BY <1>2, <1>4 DEF CostRulesOverlap, Applies

\* If the enabled rules of one priority never overlap, the cost at an instant is
\* that of the only rule that applies with the highest priority: the ids and the
\* ages of the rules decide nothing.
THEOREM PriorityDecides ==
  ASSUME NEW RS \in SUBSET (Nat \ {0}), IsFiniteSet(RS), NEW Q \in [RS -> Schedule], NEW at \in Nat,
         \A r, s \in RS : r # s /\ Q[r].priority = Q[s].priority => ~CostRulesOverlap(Q[r], Q[s]),
         NEW r \in RS, Applies(Q[r], at),
         \A s \in RS : Applies(Q[s], at) => Q[s].priority <= Q[r].priority
  PROVE  ResolveChannelCost(Q, at) = r
<1> DEFINE w == ResolveChannelCost(Q, at)
<1>1. RS \in SUBSET Nat /\ {s \in RS : Applies(Q[s], at)} # {}
  OBVIOUS
<1>2. /\ w \in RS /\ Applies(Q[w], at)
      /\ \A s \in RS \ {w} : Applies(Q[s], at) => Outranks(Q, w, s)
  BY <1>1, ResolvedRule
<1> HIDE DEF w
<1>3. \A s \in RS : Q[s] \in Schedule
  OBVIOUS
<1>4. \A s \in RS : Q[s].priority \in Nat
  BY <1>3, ScheduleType
<1>5. Q[w].priority = Q[r].priority
  <2>1. CASE w = r
    BY <2>1
  <2>2. CASE w # r
    <3>1. Outranks(Q, w, r)
      BY <1>2, <2>2
    <3>2. Q[r].priority <= Q[w].priority
      BY <1>2, <1>4, <3>1 DEF Outranks
    <3> QED BY <1>2, <1>4, <3>2
  <2> QED BY <2>1, <2>2
<1>6. w = r
  <2> SUFFICES ASSUME w # r
               PROVE  FALSE
    OBVIOUS
  <2>1. ~CostRulesOverlap(Q[w], Q[r])
    BY <1>2, <1>5
  <2> QED BY <1>2, <1>3, <2>1, NoOverlapNoTie
<1> QED BY <1>6 DEF w

\* The week that the rules in force cover.
LEMMA CoveredMinutes ==
  ASSUME NEW RS \in SUBSET (Nat \ {0}), NEW Q \in [RS -> Schedule], NEW at \in Nat
  PROVE  LET covered == CoveredWeek(Q, at)
         IN /\ covered \subseteq Days \X Minutes
            /\ \A d \in Days, m \in Minutes : <<d, m>> \in covered <=>
                 \E r \in RS : Q[r].enabled /\ InForce(Q[r], at) /\ MatchesLocalTime(Q[r], d, m)
            /\ Cardinality(covered) \in 0 .. DaysPerWeek * MinutesPerDay
            /\ Cardinality(covered) = DaysPerWeek * MinutesPerDay <=> covered = Days \X Minutes
            /\ Cardinality(covered) = 0 => covered = {}
<1> DEFINE covered == CoveredWeek(Q, at)
<1>1. \A r \in RS : Q[r] \in Schedule
  OBVIOUS
<1>2. ActiveRules(Q, at) = {r \in RS : Q[r].enabled /\ InForce(Q[r], at)}
  BY DEF ActiveRules
<1>3. covered \subseteq Days \X Minutes
  BY <1>1, <1>2, MarkedMinutes DEF CoveredWeek
<1>4. \A d \in Days, m \in Minutes : <<d, m>> \in covered <=>
        \E r \in RS : Q[r].enabled /\ InForce(Q[r], at) /\ MatchesLocalTime(Q[r], d, m)
  <2> SUFFICES ASSUME NEW d \in Days, NEW m \in Minutes
               PROVE  <<d, m>> \in covered <=>
                        \E r \in RS : Q[r].enabled /\ InForce(Q[r], at) /\ MatchesLocalTime(Q[r], d, m)
    OBVIOUS
  <2>1. \A r \in RS : <<d, m>> \in WeeklyMinutes(Q[r]) <=> MatchesLocalTime(Q[r], d, m)
    BY <1>1, MarkedMinutes
  <2> QED BY <1>2, <2>1 DEF CoveredWeek
<1> HIDE DEF covered
<1>5. /\ DaysPerWeek \in Nat \ {0} /\ MinutesPerDay \in Nat \ {0}
  BY ScheduleAssumption
<1>6. /\ IsFiniteSet(Days) /\ Cardinality(Days) = DaysPerWeek
  <2>1. 1 \in Int /\ DaysPerWeek \in Int /\ DaysPerWeek - 1 + 1 = DaysPerWeek /\ 1 <= DaysPerWeek
    BY <1>5
  <2> QED BY <2>1, FS_Interval DEF Days
<1>7. /\ IsFiniteSet(Minutes) /\ Cardinality(Minutes) = MinutesPerDay
  <2>1. 0 \in Int /\ MinutesPerDay - 1 \in Int /\ 0 <= MinutesPerDay - 1
    BY <1>5
  <2>2. Cardinality(0 .. MinutesPerDay - 1) = (MinutesPerDay - 1) - 0 + 1 /\ IsFiniteSet(0 .. MinutesPerDay - 1)
    BY <2>1, FS_Interval
  <2> QED BY <1>5, <2>2 DEF Minutes
<1>8. /\ IsFiniteSet(Days \X Minutes)
      /\ Cardinality(Days \X Minutes) = DaysPerWeek * MinutesPerDay
  BY <1>6, <1>7, FS_Product
<1>9. /\ IsFiniteSet(covered) /\ Cardinality(covered) <= DaysPerWeek * MinutesPerDay
      /\ Cardinality(covered) = DaysPerWeek * MinutesPerDay <=> covered = Days \X Minutes
  <2>1. IsFiniteSet(covered)
    BY <1>3, <1>8, FS_Subset
  <2>2. Cardinality(covered) <= Cardinality(Days \X Minutes)
    BY <1>3, <1>8, FS_Subset
  <2>3. Cardinality(covered) = Cardinality(Days \X Minutes) <=> covered = Days \X Minutes
    BY <1>3, <1>8, FS_Subset
  <2> QED BY <1>8, <2>1, <2>2, <2>3
<1>10. Cardinality(covered) \in Nat /\ (Cardinality(covered) = 0 => covered = {})
  BY <1>9, FS_CardinalityType, FS_EmptySet
<1>11. DaysPerWeek * MinutesPerDay \in Nat
  BY <1>5, SMT
<1>12. Cardinality(covered) \in 0 .. DaysPerWeek * MinutesPerDay
  BY <1>9, <1>10, <1>11
<1> QED BY <1>3, <1>4, <1>9, <1>10, <1>12 DEF covered

\* What the status of a mapping promises of every instant at which the same
\* rules are in force: with the rules active, one of them gives the cost; with
\* a partial fallback there is always a cost; with the fallback alone it gives
\* the cost; and without a cost there is a minute of the week that no rule in
\* force and no fallback covers.
THEOREM StatusTruthful ==
  ASSUME NEW RS \in SUBSET (Nat \ {0}), IsFiniteSet(RS), NEW Q \in [RS -> Schedule],
         NEW fallback \in BOOLEAN, NEW at \in Nat, NEW t \in Nat,
         \A r \in RS : InForce(Q[r], t) <=> InForce(Q[r], at)
  PROVE  LET status == CostStatus(Q, FALSE, fallback, at)
             source == Resolved(Q, fallback, t)[1]
         IN /\ status = "CHANNEL_RULE_ACTIVE" => source = "CHANNEL_COST_RULE"
            /\ status = "PARTIAL_FALLBACK" => source # "NONE"
            /\ status = "FALLBACK_ONLY" => source = "PUBLIC_MODEL_FALLBACK"
            /\ status = "NO_COST" =>
                 /\ ~fallback
                 /\ \E d \in Days, m \in Minutes : \A r \in RS :
                      ~(Q[r].enabled /\ InForce(Q[r], at) /\ MatchesLocalTime(Q[r], d, m))
<1> DEFINE covered == CoveredWeek(Q, at)
           count == Cardinality(covered)
           week == DaysPerWeek * MinutesPerDay
           future == {r \in DOMAIN Q : Q[r].enabled /\ Q[r].from > at}
           day == Weekday(t)
           minute == MinuteOfDay(t)
           status == CostStatus(Q, FALSE, fallback, at)
           applying == {r \in RS : Applies(Q[r], t)}
<1>1. /\ \A d \in Days, m \in Minutes : <<d, m>> \in covered <=>
           \E r \in RS : Q[r].enabled /\ InForce(Q[r], at) /\ MatchesLocalTime(Q[r], d, m)
      /\ count \in 0 .. week
      /\ count = week <=> covered = Days \X Minutes
      /\ count = 0 => covered = {}
      /\ covered \subseteq Days \X Minutes
  <2>1. /\ covered \subseteq Days \X Minutes
        /\ \A d \in Days, m \in Minutes : <<d, m>> \in covered <=>
             \E r \in RS : Q[r].enabled /\ InForce(Q[r], at) /\ MatchesLocalTime(Q[r], d, m)
    BY CoveredMinutes
  <2>2. /\ Cardinality(covered) \in 0 .. DaysPerWeek * MinutesPerDay
        /\ Cardinality(covered) = DaysPerWeek * MinutesPerDay <=> covered = Days \X Minutes
        /\ Cardinality(covered) = 0 => covered = {}
    BY CoveredMinutes
  <2> HIDE DEF covered
  <2> QED BY <2>1, <2>2
<1>2. week \in Nat \ {0}
  BY ScheduleAssumption, SMT
<1>3. day \in Days /\ minute \in Minutes
  BY LocalTimeType
<1>4. applying # {} <=> <<day, minute>> \in covered
  BY <1>1, <1>3 DEF Applies
<1>5. /\ applying = {} => ResolveChannelCost(Q, t) = 0
      /\ applying # {} => ResolveChannelCost(Q, t) # 0
  <2>1. applying = {r \in DOMAIN Q : Applies(Q[r], t)}
    OBVIOUS
  <2>2. CASE applying = {}
    BY <2>1, <2>2 DEF ResolveChannelCost
  <2>3. CASE applying # {}
    <3>1. ResolveChannelCost(Q, t) \in RS
      BY <2>3, ResolvedRule
    <3> QED BY <2>3, <3>1
  <2> QED BY <2>2, <2>3
<1>6. status = CASE count = week -> "CHANNEL_RULE_ACTIVE"
                 [] 0 < count /\ count < week /\ fallback -> "PARTIAL_FALLBACK"
                 [] count = 0 /\ future # {} -> "UPCOMING"
                 [] count = 0 /\ future = {} /\ fallback -> "FALLBACK_ONLY"
                 [] OTHER -> "NO_COST"
  BY DEF CostStatus, WeeklyCoverage
<1> HIDE DEF status, count, week, future, covered, applying, day, minute
<1>7. /\ status = "CHANNEL_RULE_ACTIVE" => count = week
      /\ status = "PARTIAL_FALLBACK" => fallback
      /\ status = "FALLBACK_ONLY" => count = 0 /\ fallback
      /\ status = "NO_COST" => ~fallback /\ count # week
  BY <1>1, <1>2, <1>6
<1>8. ASSUME status = "CHANNEL_RULE_ACTIVE"
      PROVE  Resolved(Q, fallback, t)[1] = "CHANNEL_COST_RULE"
  <2>1. applying # {}
    BY <1>1, <1>3, <1>4, <1>7, <1>8
  <2> QED BY <1>5, <2>1 DEF Resolved
<1>9. ASSUME status = "PARTIAL_FALLBACK"
      PROVE  Resolved(Q, fallback, t)[1] # "NONE"
  BY <1>7, <1>9 DEF Resolved
<1>10. ASSUME status = "FALLBACK_ONLY"
       PROVE  Resolved(Q, fallback, t)[1] = "PUBLIC_MODEL_FALLBACK"
  <2>1. applying = {}
    BY <1>1, <1>4, <1>7, <1>10
  <2> QED BY <1>5, <1>7, <1>10, <2>1 DEF Resolved
<1>11. ASSUME status = "NO_COST"
       PROVE  /\ ~fallback
              /\ \E d \in Days, m \in Minutes : \A r \in RS :
                   ~(Q[r].enabled /\ InForce(Q[r], at) /\ MatchesLocalTime(Q[r], d, m))
  <2>1. ~fallback /\ count # week
    BY <1>7, <1>11
  <2>2. covered # Days \X Minutes
    BY <1>1, <2>1
  <2>3. PICK d \in Days, m \in Minutes : <<d, m>> \notin covered
    BY <1>1, <2>2
  <2> QED BY <1>1, <2>1, <2>3
<1> QED BY <1>8, <1>9, <1>10, <1>11 DEF status

-----------------------------------------------------------------------------
(* A rule in the form.                                                     *)

\* A day has begun when its midnight is past.
LEMMA MidnightBefore ==
  ASSUME NEW length \in Nat \ {0}, NEW d \in Nat, NEW t \in Nat
  PROVE  /\ d * length \in Nat
         /\ d * length <= t <=> d <= t \div length
<1> DEFINE a == t \div length
           rest == t % length
<1>1. a \in Nat /\ rest \in 0 .. length - 1 /\ t = length * a + rest
  BY WholeSlots
<1> HIDE DEF a, rest
<1>2. d * length = length * d /\ length * d \in Nat /\ length * a \in Nat
  BY <1>1, SMT
<1>3. ASSUME d <= a
      PROVE  d * length <= t
  <2>1. length * d <= length * a
    BY <1>1, <1>3, ProductMonotone
  <2> QED BY <1>1, <1>2, <2>1
<1>4. ASSUME a < d
      PROVE  t < d * length
  <2>1. length * (a + 1) <= length * d
    BY <1>1, <1>4, ProductMonotone
  <2>2. length * (a + 1) = length * a + length
    BY <1>1, SMT
  <2> QED BY <1>1, <1>2, <2>1, <2>2
<1>5. d <= a \/ a < d
  BY <1>1
<1>6. d * length <= t <=> d <= a
  BY <1>1, <1>2, <1>3, <1>4, <1>5
<1> QED BY <1>2, <1>6 DEF a

\* A rule opened in the form and saved as it is keeps its windows but not its
\* validity: the form knows dates only, so the rule then holds from the midnight
\* before its beginning to the midnight before its end; and the form refuses a
\* rule that begins and ends on one day, which the server accepts.
THEOREM SavedUnchangedByDays ==
  ASSUME NEW rule \in Schedule
  PROVE  /\ AcceptedDraft(DraftFromCostRule(rule)) <=>
              rule.until = Always \/ DateInTimezone(rule.from) < DateInTimezone(rule.until)
         /\ AcceptedDraft(DraftFromCostRule(rule)) =>
              \A t \in Nat : Applies(SavedUnchanged(rule), t) <=>
                /\ rule.enabled
                /\ MatchesLocalTime(rule, Weekday(t), MinuteOfDay(t))
                /\ DateInTimezone(rule.from) <= DateInTimezone(t)
                /\ rule.until = Always \/ DateInTimezone(t) < DateInTimezone(rule.until)
<1> DEFINE draft == DraftFromCostRule(rule)
           saved == SavedUnchanged(rule)
           first == DateInTimezone(rule.from)
           last == DateInTimezone(rule.until)
<1>1. TicksPerDay \in Nat \ {0}
  BY ScheduleAssumption, SMT DEF TicksPerDay
<1>2. /\ rule.days \in (SUBSET Days) \ {{}} /\ rule.start \in Nat /\ rule.end \in Nat
      /\ rule.from \in Nat /\ rule.until \in Nat /\ rule.enabled \in BOOLEAN
  BY ScheduleType
<1>3. \A t \in Nat : DateInTimezone(t) \in Nat
  BY <1>1, WholeSlots DEF DateInTimezone
<1>4. first \in Nat /\ last \in Nat
  BY <1>2, <1>3
<1>5. \A d, t \in Nat : ZonedMidnight(d) \in Nat /\ (ZonedMidnight(d) <= t <=> d <= DateInTimezone(t))
  BY <1>1, MidnightBefore DEF ZonedMidnight, DateInTimezone
<1>6. \A d, e \in Nat : ZonedMidnight(d) < ZonedMidnight(e) <=> d < e
  <2> SUFFICES ASSUME NEW d \in Nat, NEW e \in Nat
               PROVE  ZonedMidnight(d) < ZonedMidnight(e) <=> d < e
    OBVIOUS
  <2>1. d * TicksPerDay \in Nat /\ e * TicksPerDay \in Nat
    BY <1>1, MidnightBefore
  <2>2. CASE d < e
    <3>1. TicksPerDay * (d + 1) <= TicksPerDay * e
      BY <1>1, <2>2, ProductMonotone
    <3>2. TicksPerDay * (d + 1) = d * TicksPerDay + TicksPerDay /\ TicksPerDay * e = e * TicksPerDay
      BY <1>1, SMT
    <3> QED BY <1>1, <2>1, <2>2, <3>1, <3>2 DEF ZonedMidnight
  <2>3. CASE e <= d
    <3>1. TicksPerDay * e <= TicksPerDay * d
      BY <1>1, <2>3, ProductMonotone
    <3>2. TicksPerDay * d = d * TicksPerDay /\ TicksPerDay * e = e * TicksPerDay
      BY <1>1, SMT
    <3> QED BY <1>1, <2>1, <2>3, <3>1, <3>2 DEF ZonedMidnight
  <2> QED BY <2>2, <2>3
<1>7. /\ draft.days = rule.days /\ draft.allDay = (rule.start = rule.end)
      /\ draft.start = rule.start /\ draft.end = rule.end /\ draft.from = first
      /\ draft.until = IF rule.until = Always THEN NoDate ELSE last
  BY DEF DraftFromCostRule
<1> HIDE DEF draft, first, last
<1>8. AcceptedDraft(draft) <=> rule.until = Always \/ first < last
  <2>1. draft.until # NoDate <=> rule.until # Always
    BY <1>4, <1>7 DEF NoDate
  <2>2. rule.until # Always => (ZonedMidnight(draft.until) > ZonedMidnight(draft.from) <=> first < last)
    <3> SUFFICES ASSUME rule.until # Always
                 PROVE  ZonedMidnight(last) > ZonedMidnight(first) <=> first < last
      BY <1>7
    <3> QED BY <1>4, <1>5, <1>6
  <2>3. draft.days # {} /\ (~draft.allDay => draft.start # draft.end)
    BY <1>2, <1>7
  <2> QED BY <2>1, <2>2, <2>3 DEF AcceptedDraft
<1>9. /\ saved.enabled = rule.enabled /\ saved.days = rule.days
      /\ saved.start = IF rule.start = rule.end THEN 0 ELSE rule.start
      /\ saved.end = IF rule.start = rule.end THEN 0 ELSE rule.end
      /\ saved.from = ZonedMidnight(first)
      /\ saved.until = IF rule.until = Always THEN Always ELSE ZonedMidnight(last)
  <2>1. draft.until = NoDate <=> rule.until = Always
    BY <1>4, <1>7 DEF NoDate
  <2> QED BY <1>7, <2>1 DEF SavedUnchanged, CostRulePayload, Schedule, draft
<1> HIDE DEF saved
<1>10. ASSUME AcceptedDraft(draft), NEW t \in Nat
       PROVE  Applies(saved, t) <=>
                /\ rule.enabled
                /\ MatchesLocalTime(rule, Weekday(t), MinuteOfDay(t))
                /\ first <= DateInTimezone(t)
                /\ rule.until = Always \/ DateInTimezone(t) < last
  <2>1. \A d, m : MatchesLocalTime(saved, d, m) <=> MatchesLocalTime(rule, d, m)
    BY <1>9 DEF MatchesLocalTime
  <2>2. saved.from <= t <=> first <= DateInTimezone(t)
    BY <1>4, <1>5, <1>9
  <2>3. saved.until = Always \/ saved.until > t <=> rule.until = Always \/ DateInTimezone(t) < last
    <3>1. CASE rule.until = Always
      BY <1>9, <3>1
    <3>2. CASE rule.until # Always
      <4>1. saved.until = ZonedMidnight(last) /\ first < last
        BY <1>8, <1>9, <1>10, <3>2
      <4>2. ZonedMidnight(first) < ZonedMidnight(last)
        BY <1>4, <1>6, <4>1
      <4>3. ZonedMidnight(first) \in Nat /\ ZonedMidnight(last) \in Nat
        BY <1>4, <1>5
      <4>4. saved.until # Always
        BY <4>1, <4>2, <4>3 DEF Always
      <4>5. ZonedMidnight(last) <= t <=> last <= DateInTimezone(t)
        BY <1>4, <1>5
      <4>6. DateInTimezone(t) \in Nat
        BY <1>3
      <4> QED BY <1>4, <3>2, <4>1, <4>3, <4>4, <4>5, <4>6
    <3> QED BY <3>1, <3>2
  <2> QED BY <1>9, <2>1, <2>2, <2>3 DEF Applies, InForce
<1> QED BY <1>8, <1>10 DEF draft, saved, first, last

-----------------------------------------------------------------------------
(* The views of the logs.                                                  *)

\* The bills of the attempts of a request add up to an amount.
LEMMA RoutesCostType ==
  ASSUME NEW RS, IsFiniteSet(RS), NEW R \in [RS -> RouteAttempt], NEW l
  PROVE  /\ IsFiniteSet(BilledRoutes(R, l)) /\ BilledRoutes(R, l) \subseteq RS
         /\ \A r \in BilledRoutes(R, l) : RouteCost(R[r]) \in Nat
         /\ RoutesCost(R, l) \in Nat
<1>1. BilledRoutes(R, l) \in SUBSET RS
  BY DEF BilledRoutes
<1>2. IsFiniteSet(BilledRoutes(R, l))
  BY <1>1, FS_Subset
<1>3. \A r \in BilledRoutes(R, l) : RouteCost(R[r]) \in Nat
  BY <1>1 DEF RouteCost, RouteAttempt
<1> DEFINE B == BilledRoutes(R, l)
           f == [r \in B |-> RouteCost(R[r])]
<1>4. f \in [B -> Nat]
  BY <1>3
<1>5. RoutesCost(R, l) = Total(f, B)
  BY DEF RoutesCost
<1> HIDE DEF f, B
<1>6. Total(f, B) \in Nat
  BY <1>2, <1>4, TotalType DEF B
<1> QED BY <1>1, <1>2, <1>3, <1>5, <1>6

\* The allocations of a log: those of its bills, and at most one more.
LEMMA AllocationsFinite ==
  ASSUME NEW RS, IsFiniteSet(RS), NEW R \in [RS -> RouteAttempt],
         NEW LS, NEW L \in [LS -> UsageLog], NEW l \in LS
  PROVE  /\ IsFiniteSet(AllocationsOf(L, R, l))
         /\ AllocationsOf(L, R, l) # {}
         /\ \A a \in AllocationsOf(L, R, l) : a.log = l /\ AllocationCost(L, R, a) \in Int
<1> DEFINE B == BilledRoutes(R, l)
           A == {[kind |-> "ROUTE", log |-> l, route |-> r] : r \in B}
           c == [r \in B |-> [kind |-> "ROUTE", log |-> l, route |-> r]]
           Rest == IF B = {} THEN {[kind |-> "LEGACY", log |-> l, route |-> Unset]}
                   ELSE IF L[l].cost # RoutesCost(R, l)
                   THEN {[kind |-> "UNALLOCATED", log |-> l, route |-> Unset]}
                   ELSE {}
<1>1. AllocationsOf(L, R, l) = A \cup Rest
  BY DEF AllocationsOf
<1>2. IsFiniteSet(B)
  BY RoutesCostType
<1>3. IsFiniteSet(A)
  <2>1. c \in Surjection(B, A)
    BY DEF Surjection
  <2> HIDE DEF c, A, B
  <2> QED BY <1>2, <2>1, FS_Surjection
<1>4. IsFiniteSet(Rest)
  <2>1. \/ Rest = {} \/ Rest = {[kind |-> "LEGACY", log |-> l, route |-> Unset]}
        \/ Rest = {[kind |-> "UNALLOCATED", log |-> l, route |-> Unset]}
    OBVIOUS
  <2>2. IsFiniteSet({}) /\ \A x : IsFiniteSet({x})
    BY FS_EmptySet, FS_Singleton
  <2> HIDE DEF Rest
  <2> QED BY <2>1, <2>2
<1>5. A \cup Rest # {}
  OBVIOUS
<1>6. L[l].cost \in Nat
  BY DEF UsageLog
<1>7. RoutesCost(R, l) \in Nat /\ (\A r \in B : RouteCost(R[r]) \in Nat)
  BY RoutesCostType
<1>8. \A a \in A : a.log = l /\ AllocationCost(L, R, a) \in Int
  BY <1>7 DEF AllocationCost
<1>9. \A a \in Rest : a.log = l /\ AllocationCost(L, R, a) \in Int
  BY <1>6, <1>7 DEF AllocationCost
<1>10. IsFiniteSet(A \cup Rest)
  <2> HIDE DEF A, Rest
  <2> QED BY <1>3, <1>4, FS_Union
<1> QED BY <1>1, <1>5, <1>8, <1>9, <1>10

\* However a request was billed, its allocations add up to the cost of its log.
LEMMA AllocationsAddUp ==
  ASSUME NEW RS, IsFiniteSet(RS), NEW R \in [RS -> RouteAttempt],
         NEW LS, NEW L \in [LS -> UsageLog], NEW l \in LS
  PROVE  MatchedCost(L, R, AllocationsOf(L, R, l)) = L[l].cost
<1> DEFINE B == BilledRoutes(R, l)
           A == {[kind |-> "ROUTE", log |-> l, route |-> r] : r \in B}
           u == [kind |-> "UNALLOCATED", log |-> l, route |-> Unset]
           v == [kind |-> "LEGACY", log |-> l, route |-> Unset]
           c == [r \in B |-> [kind |-> "ROUTE", log |-> l, route |-> r]]
           f == [r \in B |-> RouteCost(R[r])]
           g == [a \in A |-> AllocationCost(L, R, a)]
<1>1. /\ IsFiniteSet(B) /\ RoutesCost(R, l) \in Nat /\ L[l].cost \in Nat
      /\ \A r \in B : RouteCost(R[r]) \in Nat
  BY RoutesCostType DEF UsageLog
<1>2. c \in Bijection(B, A)
  BY DEF Bijection, Injection, Surjection, IsInjective
<1>3. f \in [B -> Nat] /\ g \in [A -> Nat] /\ (\A r \in B : f[r] = g[c[r]])
  BY <1>1 DEF AllocationCost
<1>4. IsFiniteSet(A) /\ Balance(g, A) = RoutesCost(R, l)
  <2>1. RoutesCost(R, l) = Total(f, B)
    BY DEF RoutesCost
  <2> HIDE DEF A, B, c, f, g
  <2>2. Total(f, B) = Total(g, A)
    BY <1>1, <1>2, <1>3, TotalRenamed
  <2>3. IsFiniteSet(A)
    BY <1>1, <1>2, FS_Bijection DEF ExistsBijection
  <2>4. Balance(g, A) = Total(g, A)
    BY <1>3, <2>3, BalanceNat
  <2> QED BY <2>1, <2>2, <2>3, <2>4
<1>5. CASE B = {}
  <2>1. AllocationsOf(L, R, l) = {v}
    BY <1>5 DEF AllocationsOf
  <2> DEFINE h == [a \in {v} |-> AllocationCost(L, R, a)]
  <2>2. h[v] = L[l].cost
    BY DEF AllocationCost
  <2>3. h \in [{v} -> Int]
    BY <1>1, <2>2
  <2>4. MatchedCost(L, R, {v}) = Balance(h, {v})
    BY DEF MatchedCost
  <2> HIDE DEF h, v
  <2>5. Balance(h, {v}) = h[v]
    BY <2>3, BalanceOfOne
  <2> QED BY <2>1, <2>2, <2>4, <2>5
<1>6. CASE B # {} /\ L[l].cost = RoutesCost(R, l)
  <2>1. AllocationsOf(L, R, l) = A
    BY <1>6 DEF AllocationsOf
  <2>2. MatchedCost(L, R, A) = Balance(g, A)
    BY DEF MatchedCost
  <2> QED BY <1>4, <1>6, <2>1, <2>2
<1>7. CASE B # {} /\ L[l].cost # RoutesCost(R, l)
  <2>1. AllocationsOf(L, R, l) = A \cup {u}
    BY <1>7 DEF AllocationsOf
  <2> DEFINE h == [a \in A \cup {u} |-> AllocationCost(L, R, a)]
             hu == [a \in {u} |-> AllocationCost(L, R, a)]
  <2>2. MatchedCost(L, R, A \cup {u}) = Balance(h, A \cup {u})
    BY DEF MatchedCost
  <2>3. A \cap {u} = {}
    OBVIOUS
  <2>4. h[u] = L[l].cost - RoutesCost(R, l) /\ h[u] \in Int /\ hu[u] = h[u]
    BY <1>1 DEF AllocationCost
  <2>5. h \in [A \cup {u} -> Int]
    <3>1. \A a \in A : AllocationCost(L, R, a) \in Int
      BY <1>3
    <3> QED BY <2>4, <3>1
  <2>6. \A a \in A : h[a] = g[a]
    OBVIOUS
  <2>7. hu \in [{u} -> Int] /\ (\A a \in {u} : h[a] = hu[a])
    BY <2>4
  <2> HIDE DEF h, hu, u, A, g
  <2>8. Balance(h, A \cup {u}) = Balance(h, A) + Balance(h, {u})
    <3>1. IsFiniteSet(A) /\ IsFiniteSet({u})
      BY <1>4, FS_Singleton
    <3> QED BY <2>3, <2>5, <3>1, BalanceUnion
  <2>9. Balance(h, A) = Balance(g, A)
    BY <2>6, BalanceSame
  <2>10. Balance(h, {u}) = hu[u]
    <3>1. Balance(h, {u}) = Balance(hu, {u})
      BY <2>7, BalanceSame
    <3> QED BY <2>7, <3>1, BalanceOfOne
  <2> QED BY <1>1, <1>4, <2>1, <2>2, <2>4, <2>8, <2>9, <2>10
<1> QED BY <1>5, <1>6, <1>7


\* The allocations a page reads are finite in number and have costs.
LEMMA ViewFinite ==
  ASSUME NEW RS, IsFiniteSet(RS), NEW R \in [RS -> RouteAttempt],
         NEW LS, IsFiniteSet(LS), NEW L \in [LS -> UsageLog], NEW F
  PROVE  /\ IsFiniteSet(ScopedUsage(F, L)) /\ ScopedUsage(F, L) \subseteq LS
         /\ IsFiniteSet(UNION {AllocationsOf(L, R, l) : l \in ScopedUsage(F, L)})
         /\ IsFiniteSet(Allocations(F, L, R))
         /\ \A a \in Allocations(F, L, R) : /\ a.log \in ScopedUsage(F, L)
                                            /\ AllocationCost(L, R, a) \in Int
<1> DEFINE S == ScopedUsage(F, L)
           T == {AllocationsOf(L, R, l) : l \in S}
           c == [l \in S |-> AllocationsOf(L, R, l)]
<1>1. S \in SUBSET LS
  BY DEF ScopedUsage
<1>2. IsFiniteSet(S)
  BY <1>1, FS_Subset
<1>3. \A l \in S : /\ IsFiniteSet(AllocationsOf(L, R, l))
                   /\ \A a \in AllocationsOf(L, R, l) : a.log = l /\ AllocationCost(L, R, a) \in Int
  BY <1>1, AllocationsFinite
<1>4. c \in Surjection(S, T)
  BY DEF Surjection
<1>5. \A A \in T : IsFiniteSet(A)
  BY <1>3
<1>6. IsFiniteSet(T)
  <2> HIDE DEF c, S, T
  <2> QED BY <1>2, <1>4, FS_Surjection
<1>7. IsFiniteSet(UNION T)
  <2> HIDE DEF T
  <2> QED BY <1>5, <1>6, FS_UNION
<1>8. Allocations(F, L, R) \in SUBSET (UNION T)
  BY DEF Allocations
<1>9. IsFiniteSet(Allocations(F, L, R))
  BY <1>7, <1>8, FS_Subset
<1>10. \A a \in UNION T : a.log \in S /\ AllocationCost(L, R, a) \in Int
  BY <1>3
<1> QED BY <1>1, <1>2, <1>7, <1>8, <1>9, <1>10

\* Split by any h into the sets m[k], a set of allocations costs the same.
LEMMA MatchedPartition ==
  ASSUME NEW L, NEW R, NEW A, IsFiniteSet(A),
         \A a \in A : AllocationCost(L, R, a) \in Int,
         NEW K, IsFiniteSet(K), NEW h \in [A -> K], NEW m \in [K -> SUBSET A],
         \A k \in K : \A a \in A : a \in m[k] <=> h[a] = k,
         NEW t, \A k \in K : t[k] = MatchedCost(L, R, m[k])
  PROVE  /\ Balance(t, K) = MatchedCost(L, R, A)
         /\ \A k \in K : t[k] \in Int
<1> DEFINE f == [a \in A |-> AllocationCost(L, R, a)]
           tt == [k \in K |-> t[k]]
<1>1. f \in [A -> Int]
  OBVIOUS
<1>2. ASSUME NEW k \in K
      PROVE  t[k] = Balance(f, m[k]) /\ t[k] \in Int
  <2> DEFINE g == [a \in m[k] |-> AllocationCost(L, R, a)]
             z == [a \in m[k] |-> 0]
  <2>1. m[k] \in SUBSET A
    OBVIOUS
  <2>2. t[k] = Balance(g, m[k])
    BY DEF MatchedCost
  <2>3. g \in [m[k] -> Int] /\ (\A a \in m[k] : f[a] = g[a])
    BY <2>1
  <2> HIDE DEF f, g
  <2>4. Balance(f, m[k]) = Balance(g, m[k])
    BY <2>3, BalanceSame
  <2>5. IsFiniteSet(m[k])
    BY <2>1, FS_Subset
  <2>6. Balance(g, m[k]) \in Int
    BY <2>3, <2>5, BalanceType
  <2> QED BY <2>2, <2>4, <2>6
<1>3. tt \in [K -> Int] /\ (\A k \in K : tt[k] = Balance(f, m[k]))
  BY <1>2
<1>4. Balance(tt, K) = Balance(t, K)
  BY BalanceSame
<1>5. MatchedCost(L, R, A) = Balance(f, A)
  BY DEF MatchedCost
<1> HIDE DEF f, tt
<1>6. Balance(tt, K) = Balance(f, A)
  <2>1. \A k \in K : \A a \in A : a \in m[k] <=> h[a] = k
    OBVIOUS
  <2>2. tt \in [K -> Int]
    BY <1>3
  <2>3. \A k \in K : tt[k] = Balance(f, m[k])
    BY <1>3
  <2> QED BY <1>1, <2>1, <2>2, <2>3, BalancePartition, SMTT(60)
<1> QED BY <1>2, <1>4, <1>5, <1>6

\* Without a condition on the allocations, every request of the range and the
\* scope is shown, and with all its allocations: the pages join the logs with
\* their allocations, and no log is without one.
THEOREM EveryRequestShown ==
  ASSUME NEW RS, IsFiniteSet(RS), NEW R \in [RS -> RouteAttempt],
         NEW LS, IsFiniteSet(LS), NEW L \in [LS -> UsageLog], NEW F,
         ~HasAllocationFilter(F)
  PROVE  /\ MatchedRequests(Allocations(F, L, R)) = ScopedUsage(F, L)
         /\ Allocations(F, L, R) = UNION {AllocationsOf(L, R, l) : l \in ScopedUsage(F, L)}
         /\ MatchedCost(L, R, Allocations(F, L, R)) = RequestsCost(L, ScopedUsage(F, L))
<1> DEFINE S == ScopedUsage(F, L)
           A == Allocations(F, L, R)
           h == [a \in A |-> a.log]
           m == [l \in S |-> AllocationsOf(L, R, l)]
           t == [l \in S |-> L[l].cost]
<1>1. \A a : AllocationWhere(F, L, R, a)
  BY DEF AllocationWhere, HasAllocationFilter, Matches
<1>2. A = UNION {AllocationsOf(L, R, l) : l \in S}
  BY <1>1 DEF Allocations
<1>3. IsFiniteSet(S) /\ S \subseteq LS /\ IsFiniteSet(A)
      /\ \A a \in A : a.log \in S /\ AllocationCost(L, R, a) \in Int
  BY ViewFinite
<1>4. \A l \in S : /\ AllocationsOf(L, R, l) # {}
                   /\ \A a \in AllocationsOf(L, R, l) : a.log = l
  BY <1>3, AllocationsFinite
<1> HIDE DEF A, S
<1>5. MatchedRequests(A) = S
  BY <1>2, <1>3, <1>4 DEF MatchedRequests
<1>6. \A l \in S : t[l] = MatchedCost(L, R, m[l]) /\ t[l] \in Nat
  BY <1>3, AllocationsAddUp DEF UsageLog
<1>7. h \in [A -> S] /\ m \in [S -> SUBSET A]
  BY <1>2, <1>3
<1>8. \A l \in S : \A a \in A : a \in m[l] <=> h[a] = l
  BY <1>2, <1>4
<1>9. t \in [S -> Nat] /\ RequestsCost(L, S) = Total(t, S)
  BY <1>6 DEF RequestsCost
<1> HIDE DEF h, m, t
<1>10. Balance(t, S) = MatchedCost(L, R, A)
  <2>1. \A a \in A : AllocationCost(L, R, a) \in Int
    BY <1>3
  <2>2. \A l \in S : t[l] = MatchedCost(L, R, m[l])
    BY <1>6
  <2> QED BY <1>3, <1>7, <1>8, <2>1, <2>2, MatchedPartition, SMTT(60)
<1>11. Balance(t, S) = Total(t, S)
  BY <1>3, <1>9, BalanceNat
<1> QED BY <1>2, <1>5, <1>9, <1>10, <1>11 DEF A, S


\* The rows of a table add up to the total above it, whatever the dimension and
\* the filter: groupedRows and timeseries share out the cost that overview
\* shows, an attempt of another channel, a request with no group and a corrected
\* amount no route accounts for included.
THEOREM BreakdownComplete ==
  ASSUME NEW RS, IsFiniteSet(RS), NEW R \in [RS -> RouteAttempt],
         NEW LS, IsFiniteSet(LS), NEW L \in [LS -> UsageLog],
         NEW F, NEW P, NEW n, NEW d \in LogDimensions \cup AllocationDimensions
  PROVE  LET K == RowIds(F, d, n, L, R, P)
         IN Balance([k \in K |-> RowCost(F, d, n, L, R, P, k)], K) = Overview(F, L, R).cost
<1> DEFINE A == Allocations(F, L, R)
           S == ScopedUsage(F, L)
           K == RowIds(F, d, n, L, R, P)
           h == [a \in A |-> DimensionId(d, n, L, R, P, a)]
           m == [k \in K |-> Row(F, d, n, L, R, P, k)]
           t == [k \in K |-> RowCost(F, d, n, L, R, P, k)]
<1>1. IsFiniteSet(S) /\ S \subseteq LS /\ IsFiniteSet(A)
      /\ \A a \in A : a.log \in S /\ AllocationCost(L, R, a) \in Int
  BY ViewFinite
<1>2. h \in Surjection(A, K)
  BY DEF Surjection, RowIds
<1>3. IsFiniteSet(K)
  <2> HIDE DEF h, A, K
  <2> QED BY <1>1, <1>2, FS_Surjection
<1>4. m \in [K -> SUBSET A] /\ (\A k \in K : \A a \in A : a \in m[k] <=> h[a] = k)
  BY DEF Row
<1>5. h \in [A -> K]
  BY <1>2 DEF Surjection
<1>6. Overview(F, L, R).cost = GroupCost(HasAllocationFilter(F), L, R, A)
  BY DEF Overview
<1>7. \A k \in K : t[k] = GroupCost(HasAllocationFilter(F) \/ d \in AllocationDimensions, L, R, m[k])
  BY DEF RowCost
<1>8. SUFFICES Balance(t, K) = Overview(F, L, R).cost
  OBVIOUS
<1>9. CASE HasAllocationFilter(F) \/ d \in AllocationDimensions
  <2> HIDE DEF A, S, K, h, m, t
  <2>1. \A k \in K : t[k] = MatchedCost(L, R, m[k])
    BY <1>7, <1>9 DEF GroupCost
  <2>2. \A a \in A : AllocationCost(L, R, a) \in Int
    BY <1>1
  <2>3. \A k \in K : \A a \in A : a \in m[k] <=> h[a] = k
    BY <1>4
  <2>4. Balance(t, K) = MatchedCost(L, R, A)
    BY <1>1, <1>3, <1>4, <1>5, <2>1, <2>2, <2>3, MatchedPartition, SMTT(60)
  <2>5. CASE HasAllocationFilter(F)
    BY <1>6, <2>4, <2>5 DEF GroupCost
  <2>6. CASE ~HasAllocationFilter(F)
    <3>1. MatchedRequests(A) = S /\ MatchedCost(L, R, A) = RequestsCost(L, S)
      BY <2>6, EveryRequestShown DEF A, S
    <3> QED BY <1>6, <2>4, <2>6, <3>1 DEF GroupCost
  <2> QED BY <2>5, <2>6
<1>10. CASE ~HasAllocationFilter(F) /\ d \in LogDimensions /\ d \notin AllocationDimensions
  <2> DEFINE any(l) == [kind |-> "LEGACY", log |-> l, route |-> Unset]
             g == [l \in S |-> DimensionId(d, n, L, R, P, any(l))]
             q == [k \in K |-> MatchedRequests(m[k])]
             f == [l \in S |-> L[l].cost]
  <2>1. MatchedRequests(A) = S
    BY <1>10, EveryRequestShown
  <2>2. \A a, b : a.log = b.log => DimensionId(d, n, L, R, P, a) = DimensionId(d, n, L, R, P, b)
    BY <1>10 DEF DimensionId, LogDimensions
  <2>3. \A a \in A : h[a] = g[a.log]
    <3>1. SUFFICES ASSUME NEW a \in A PROVE h[a] = g[a.log]
      OBVIOUS
    <3>2. a.log \in S /\ any(a.log).log = a.log
      BY <1>1
    <3> QED BY <2>2, <3>2
  <2>4. f \in [S -> Nat]
    BY <1>1 DEF UsageLog
  <2>5. \A B \in SUBSET A : MatchedRequests(B) \subseteq S /\ RequestsCost(L, MatchedRequests(B)) = Total(f, MatchedRequests(B))
    <3>1. SUFFICES ASSUME NEW B \in SUBSET A
                   PROVE  /\ MatchedRequests(B) \subseteq S
                          /\ RequestsCost(L, MatchedRequests(B)) = Total(f, MatchedRequests(B))
      OBVIOUS
    <3>2. MatchedRequests(B) \subseteq S
      BY <1>1 DEF MatchedRequests
    <3> DEFINE M == MatchedRequests(B)
               e == [l \in M |-> L[l].cost]
    <3>3. RequestsCost(L, M) = Total(e, M)
      BY DEF RequestsCost
    <3>4. \A l \in M : e[l] = f[l]
      BY <3>2
    <3> HIDE DEF M, e, f
    <3>5. Total(e, M) = Total(f, M)
      BY <3>4, TotalSame
    <3> QED BY <3>2, <3>3, <3>5 DEF M
  <2> HIDE DEF A, S, K, h, m, t, g, f, any
  <2>6. \A k \in K : m[k] \in SUBSET A
    BY <1>4
  <2>7. q \in [K -> SUBSET S]
    BY <2>5, <2>6
  <2>8. \A l \in S : \E a \in A : a.log = l
    BY <2>1 DEF MatchedRequests
  <2>9. \A k \in K : \A l \in S : l \in q[k] <=> g[l] = k
    BY <1>4, <2>3, <2>6, <2>8 DEF MatchedRequests
  <2>10. g \in [S -> K]
    <3>1. \A l \in S : g[l] \in K
      BY <1>5, <2>3, <2>8
    <3> QED BY <3>1 DEF g
  <2>11. \A k \in K : t[k] = Total(f, q[k])
    BY <1>7, <1>10, <2>5, <2>6 DEF GroupCost
  <2>12. \A k \in K : Total(f, q[k]) \in Nat
    <3>1. SUFFICES ASSUME NEW k \in K PROVE Total(f, q[k]) \in Nat
      OBVIOUS
    <3> DEFINE M == q[k]
               e == [l \in M |-> f[l]]
    <3>2. M \in SUBSET S
      BY <2>7
    <3>3. IsFiniteSet(M) /\ e \in [M -> Nat] /\ (\A l \in M : e[l] = f[l])
      BY <1>1, <2>4, <3>2, FS_Subset
    <3> HIDE DEF M, e
    <3>4. Total(e, M) \in Nat /\ Total(e, M) = Total(f, M)
      BY <3>3, TotalType, TotalSame
    <3> QED BY <3>4 DEF M
  <2>13. t \in [K -> Nat]
    <3>1. \A k \in K : t[k] \in Nat
      BY <2>11, <2>12
    <3> QED BY <3>1 DEF t
  <2> HIDE DEF q
  <2>14. Total(t, K) = Total(f, S)
    BY <1>1, <2>4, <2>7, <2>9, <2>10, <2>11, <2>13, TotalPartition, SMTT(60)
  <2>15. Balance(t, K) = Total(t, K)
    BY <1>3, <2>13, BalanceNat
  <2>16. RequestsCost(L, S) = Total(f, S)
    BY <2>1, <2>5
  <2> QED BY <1>6, <1>10, <2>1, <2>14, <2>15, <2>16 DEF GroupCost
<1> QED BY <1>9, <1>10


\* The link of a row leads to the allocations of that row and no others, and to
\* a filter the server accepts: what an administrator finds behind a number is
\* what the number counts.  A condition on the state of the bill is asked of the
\* request until the filter has one on its allocations, so with such a condition
\* alone the link would change its meaning, and a rule in the filter gives way
\* to the price of the row.
THEOREM DrillExact ==
  ASSUME NEW RS \in SUBSET Ids, NEW R \in [RS -> RouteAttempt],
         NEW LS, NEW L \in [LS -> UsageLog],
         NEW F \in UsageReadFilter, NEW longest, AcceptedFilter(F, longest),
         F.billing = "ANY" \/ HasAllocationFilter(F),
         NEW P, NEW n, NEW d \in {"organization", "model", "account", "group", "apiKey"}
                                   \cup AllocationDimensions,
         d = "costRule" => F.rule = AnyValue,
         NEW k \in RowIds(F, d, n, L, R, P)
  PROVE  LET A == Row(F, d, n, L, R, P, k)
             G == DrillFilters(F, d, k, RowKind(A))
         IN Allocations(G, L, R) = A /\ AcceptedFilter(G, longest)
<1> DEFINE A == Row(F, d, n, L, R, P, k)
           kind == RowKind(A)
           G == DrillFilters(F, d, k, kind)
           All(S) == UNION {AllocationsOf(L, R, l) : l \in S}
           H(a) == HasAllocationFilter(a)
<1>1. A # {} /\ A \subseteq Allocations(F, L, R)
  BY DEF Row, RowIds
<1>2. \A a \in Allocations(F, L, R) : AllocationWhere(F, L, R, a) /\ a.log \in ScopedUsage(F, L)
                                      /\ a.log \in LS /\ a \in AllocationsOf(L, R, a.log)
  <2>1. \A l : \A a \in AllocationsOf(L, R, l) : a.log = l
    BY DEF AllocationsOf
  <2>2. ScopedUsage(F, L) \subseteq LS
    BY DEF ScopedUsage
  <2> QED BY <2>1, <2>2 DEF Allocations
<1>3. \A a : (\E l \in LS : a \in AllocationsOf(L, R, l))
               => /\ a.log \in LS /\ a.kind \in {"ROUTE", "LEGACY", "UNALLOCATED"}
                  /\ a.kind = "ROUTE" => a.route \in RS
  BY DEF AllocationsOf, BilledRoutes
<1>4. \A a : (\E l \in LS : a \in AllocationsOf(L, R, l))
               => IF a.kind = "UNALLOCATED"
                  THEN /\ Origin(L, R, a).channel = Unset /\ Origin(L, R, a).mapping = Unset
                       /\ Origin(L, R, a).rule = Unset /\ Origin(L, R, a).price = Unset
                  ELSE Origin(L, R, a).channel \in Ids /\ Origin(L, R, a).price \in Ids
                       /\ Origin(L, R, a).mapping \in Nat
  BY <1>3 DEF Origin, UsageLog, RouteAttempt
<1>5. kind = "UNALLOCATED" <=> \A a \in A : a.kind = "UNALLOCATED"
  <2>1. CASE \E c \in {"ROUTE", "LEGACY", "UNALLOCATED"} : \A a \in A : a.kind = c
    <3>1. kind = (CHOOSE a \in A : TRUE).kind /\ (CHOOSE a \in A : TRUE) \in A
      BY <1>1, <2>1 DEF RowKind
    <3> HIDE DEF kind, A
    <3> QED BY <2>1, <3>1
  <2>2. CASE ~\E c \in {"ROUTE", "LEGACY", "UNALLOCATED"} : \A a \in A : a.kind = c
    BY <2>2 DEF RowKind
  <2> QED BY <2>1, <2>2
<1>6. /\ G.start = F.start /\ G.end = F.end /\ G.state = F.state /\ G.billing = F.billing
      /\ G.project = F.project
      /\ G.organization = (IF d = "organization" THEN k ELSE F.organization)
      /\ G.model = (IF d = "model" THEN k ELSE F.model)
      /\ G.account = (IF d = "account" THEN k ELSE F.account)
      /\ G.group = (IF d = "group" THEN k ELSE F.group)
      /\ G.key = (IF d = "apiKey" THEN k ELSE F.key)
      /\ G.mapping = (IF d = "channelModel" THEN k ELSE F.mapping)
      /\ G.price = (IF d = "costRule" /\ k # Unset THEN k ELSE F.price)
      /\ G.rule = (IF d = "costRule" /\ k # Unset THEN AnyValue ELSE F.rule)
      /\ G.channel = (IF kind = "UNALLOCATED" THEN AnyValue ELSE IF d = "channel" THEN k ELSE F.channel)
      /\ G.unallocated = (IF kind = "UNALLOCATED" THEN TRUE
                          ELSE IF d = "channel" THEN FALSE ELSE F.unallocated)
  <2> HIDE DEF kind
  <2>1. CASE d = "organization" BY <2>1 DEF DrillFilters, UsageReadFilter
  <2>2. CASE d = "model" BY <2>2 DEF DrillFilters, UsageReadFilter
  <2>3. CASE d = "account" BY <2>3 DEF DrillFilters, UsageReadFilter
  <2>4. CASE d = "group" BY <2>4 DEF DrillFilters, UsageReadFilter
  <2>5. CASE d = "apiKey" BY <2>5 DEF DrillFilters, UsageReadFilter
  <2>6. CASE d = "channel" BY <2>6 DEF DrillFilters, UsageReadFilter
  <2>7. CASE d = "channelModel" BY <2>7 DEF DrillFilters, UsageReadFilter
  <2>8. CASE d = "costRule" BY <2>8 DEF DrillFilters, UsageReadFilter
  <2> QED BY <2>1, <2>2, <2>3, <2>4, <2>5, <2>6, <2>7, <2>8 DEF AllocationDimensions
<1>7. \A a \in A : /\ UsageWhere(F, L[a.log]) /\ AllocationWhere(F, L, R, a) /\ a.log \in LS
                   /\ a \in AllocationsOf(L, R, a.log) /\ DimensionId(d, n, L, R, P, a) = k
  BY <1>1, <1>2 DEF ScopedUsage, Row
<1>8. kind = "UNALLOCATED" => /\ F.channel = AnyValue /\ F.rule = AnyValue /\ F.price = AnyValue
                              /\ F.mapping \in {AnyValue, Unset}
  <2>1. SUFFICES ASSUME kind = "UNALLOCATED"
                 PROVE  /\ F.channel = AnyValue /\ F.rule = AnyValue /\ F.price = AnyValue
                        /\ F.mapping \in {AnyValue, Unset}
    OBVIOUS
  <2> HIDE DEF kind, A
  <2>2. PICK a \in A : a.kind = "UNALLOCATED"
    BY <1>1, <1>5, <2>1
  <2>3. /\ Origin(L, R, a).channel = Unset /\ Origin(L, R, a).mapping = Unset
        /\ Origin(L, R, a).rule = Unset /\ Origin(L, R, a).price = Unset
    BY <2>2 DEF Origin
  <2>4. AllocationWhere(F, L, R, a)
    BY <1>7
  <2> QED BY <2>3, <2>4 DEF AllocationWhere, Matches, UsageReadFilter, Ids, Unset, AnyValue
<1>9. kind # "UNALLOCATED" =>
        /\ ~F.unallocated
        /\ d = "channel" => k \in Ids /\ F.channel \in {AnyValue, k}
        /\ d = "costRule" => k \in Ids /\ F.price \in {AnyValue, k}
  <2>1. SUFFICES ASSUME kind # "UNALLOCATED"
                 PROVE  /\ ~F.unallocated
                        /\ d = "channel" => k \in Ids /\ F.channel \in {AnyValue, k}
                        /\ d = "costRule" => k \in Ids /\ F.price \in {AnyValue, k}
    OBVIOUS
  <2> HIDE DEF kind, A
  <2>2. PICK a \in A : a.kind # "UNALLOCATED"
    BY <1>5, <2>1
  <2>3. Origin(L, R, a).channel \in Ids /\ Origin(L, R, a).price \in Ids
    BY <1>4, <1>7, <2>2
  <2>4. AllocationWhere(F, L, R, a) /\ DimensionId(d, n, L, R, P, a) = k
    BY <1>7
  <2>5. d = "channel" => k = Origin(L, R, a).channel
    BY <2>4 DEF DimensionId
  <2>6. d = "costRule" => k = Origin(L, R, a).price
    BY <2>4 DEF DimensionId
  <2> QED BY <2>2, <2>3, <2>4, <2>5, <2>6 DEF AllocationWhere, Matches
<1>10. d = "costRule" /\ kind = "UNALLOCATED" => k = Unset
  <2> HIDE DEF kind, A
  <2>1. PICK a \in A : TRUE
    BY <1>1
  <2>2. DimensionId(d, n, L, R, P, a) = k /\ (kind = "UNALLOCATED" => a.kind = "UNALLOCATED")
    BY <1>5, <1>7
  <2> QED BY <2>2 DEF DimensionId, Origin
<1>11. d = "channel" /\ kind = "UNALLOCATED" => k = Unset
  <2> HIDE DEF kind, A
  <2>1. PICK a \in A : TRUE
    BY <1>1
  <2>2. DimensionId(d, n, L, R, P, a) = k /\ (kind = "UNALLOCATED" => a.kind = "UNALLOCATED")
    BY <1>5, <1>7
  <2> QED BY <2>2 DEF DimensionId, Origin
<1>12. /\ k \in Nat
       /\ d = "organization" => F.organization \in {AnyValue, k}
       /\ d = "model" => F.model \in {AnyValue, k}
       /\ d = "account" => F.account \in {AnyValue, k}
       /\ d = "group" => F.group \in {AnyValue, k}
       /\ d = "apiKey" => F.key \in {AnyValue, k}
       /\ d = "channelModel" => F.mapping \in {AnyValue, k}
  <2> HIDE DEF kind, A
  <2>1. PICK a \in A : TRUE
    BY <1>1
  <2>2. /\ UsageWhere(F, L[a.log]) /\ AllocationWhere(F, L, R, a) /\ L[a.log] \in UsageLog
        /\ DimensionId(d, n, L, R, P, a) = k
    BY <1>7
  <2>3. /\ Origin(L, R, a).mapping \in Nat /\ Origin(L, R, a).channel \in Nat
        /\ Origin(L, R, a).price \in Nat
    BY <1>4, <1>7 DEF Unset, Ids
  <2>4. /\ L[a.log].organization \in Nat /\ L[a.log].model \in Nat /\ L[a.log].account \in Nat
        /\ L[a.log].group \in Nat /\ L[a.log].key \in Nat
    BY <2>2 DEF UsageLog, Ids
  <2>5. CASE d = "organization" BY <2>2, <2>4, <2>5 DEF DimensionId, UsageWhere, Matches
  <2>6. CASE d = "model" BY <2>2, <2>4, <2>6 DEF DimensionId, UsageWhere, Matches
  <2>7. CASE d = "account" BY <2>2, <2>4, <2>7 DEF DimensionId, UsageWhere, Matches
  <2>8. CASE d = "group" BY <2>2, <2>4, <2>8 DEF DimensionId, UsageWhere, Matches
  <2>9. CASE d = "apiKey" BY <2>2, <2>4, <2>9 DEF DimensionId, UsageWhere, Matches
  <2>10. CASE d = "channel" BY <2>2, <2>3, <2>10 DEF DimensionId
  <2>11. CASE d = "channelModel" BY <2>2, <2>3, <2>11 DEF DimensionId, AllocationWhere, Matches
  <2>12. CASE d = "costRule" BY <2>2, <2>3, <2>12 DEF DimensionId
  <2> QED BY <2>5, <2>6, <2>7, <2>8, <2>9, <2>10, <2>11, <2>12 DEF AllocationDimensions
<1> HIDE DEF kind, A
<1>13. HasAllocationFilter(F) => HasAllocationFilter(G)
  <2> HIDE DEF G
  <2>1. Unset # AnyValue /\ (\A x \in Ids : x # AnyValue) /\ (\A x \in Nat : x # AnyValue)
    BY DEF Unset, AnyValue, Ids
  <2> QED BY <1>6, <1>8, <1>9, <1>10, <1>12, <2>1 DEF HasAllocationFilter
<1> HIDE DEF G
<1>14. \A x \in Ids : x # AnyValue /\ x # Unset
  BY DEF Unset, AnyValue, Ids
<1>15. ASSUME NEW a \in A
       PROVE  UsageWhere(G, L[a.log]) /\ AllocationWhere(G, L, R, a)
  <2>1. UsageWhere(F, L[a.log]) /\ AllocationWhere(F, L, R, a) /\ DimensionId(d, n, L, R, P, a) = k
    BY <1>7
  <2>2. UsageWhere(G, L[a.log])
    <3>1. /\ d = "organization" => k = L[a.log].organization
          /\ d = "model" => k = L[a.log].model
          /\ d = "account" => k = L[a.log].account
          /\ d = "group" => k = L[a.log].group
          /\ d = "apiKey" => k = L[a.log].key
      BY <2>1 DEF DimensionId
    <3> QED BY <1>6, <1>13, <2>1, <3>1 DEF UsageWhere, Matches
  <2>3. /\ d = "channel" => k = Origin(L, R, a).channel
        /\ d = "channelModel" => k = Origin(L, R, a).mapping
        /\ d = "costRule" => k = Origin(L, R, a).price
    BY <2>1 DEF DimensionId
  <2>4. kind = "UNALLOCATED" => a.kind = "UNALLOCATED"
    BY <1>5
  <2>5. HasAllocationFilter(G) => F.billing \in {"ANY", AllocationBilling(L, R, a)}
    BY <2>1 DEF AllocationWhere
  <2> QED BY <1>6, <1>8, <1>9, <2>1, <2>2, <2>3, <2>4, <2>5 DEF AllocationWhere, Matches
<1>16. ASSUME NEW l \in LS, NEW a \in AllocationsOf(L, R, l), a.log = l,
              UsageWhere(G, L[l]), AllocationWhere(G, L, R, a)
       PROVE  /\ UsageWhere(F, L[l]) /\ AllocationWhere(F, L, R, a)
              /\ DimensionId(d, n, L, R, P, a) = k
  <2>1. k # AnyValue
    BY <1>12 DEF AnyValue
  <2>2. kind = "UNALLOCATED" =>
          /\ a.kind = "UNALLOCATED"
          /\ Origin(L, R, a).channel = Unset /\ Origin(L, R, a).price = Unset
    BY <1>4, <1>6, <1>16 DEF AllocationWhere
  <2>3. /\ Matches(G.channel, Origin(L, R, a).channel) /\ Matches(G.mapping, Origin(L, R, a).mapping)
        /\ Matches(G.rule, Origin(L, R, a).rule) /\ Matches(G.price, Origin(L, R, a).price)
        /\ HasAllocationFilter(G) => F.billing \in {"ANY", AllocationBilling(L, R, a)}
    BY <1>6, <1>16 DEF AllocationWhere
  <2>4. /\ F.start <= L[l].started /\ L[l].started < F.end /\ F.state \in {"ANY", RequestState(L[l])}
        /\ Matches(G.organization, L[l].organization) /\ Matches(G.account, L[l].account)
        /\ Matches(G.model, L[l].model) /\ Matches(F.project, L[l].project)
        /\ Matches(G.group, L[l].group) /\ Matches(G.key, L[l].key)
    BY <1>6, <1>16 DEF UsageWhere
  <2>5. /\ d = "organization" => L[l].organization = k
        /\ d = "model" => L[l].model = k
        /\ d = "account" => L[l].account = k
        /\ d = "group" => L[l].group = k
        /\ d = "apiKey" => L[l].key = k
        /\ d = "channelModel" => Origin(L, R, a).mapping = k
    BY <1>6, <2>1, <2>3, <2>4 DEF Matches
  <2>6. d = "channel" => Origin(L, R, a).channel = k
    BY <1>6, <1>9, <1>11, <2>1, <2>2, <2>3 DEF Matches
  <2>7. d = "costRule" => Origin(L, R, a).price = k
    BY <1>6, <1>9, <1>10, <1>14, <2>1, <2>2, <2>3 DEF Matches
  <2>8. DimensionId(d, n, L, R, P, a) = k
    <3>1. d \in {"organization", "model", "account", "group", "apiKey", "channel",
                 "channelModel", "costRule"}
      BY DEF AllocationDimensions
    <3> QED BY <1>16, <2>5, <2>6, <2>7, <3>1 DEF DimensionId
  <2>9. UsageWhere(F, L[l])
    BY <1>6, <1>12, <2>4, <2>5 DEF UsageWhere, Matches
  <2>10. AllocationWhere(F, L, R, a)
    <3>1. F.unallocated => a.kind = "UNALLOCATED"
      BY <1>9, <2>2
    <3>2. HasAllocationFilter(F) => F.billing \in {"ANY", AllocationBilling(L, R, a)}
      BY <1>13, <2>3
    <3>3. Matches(F.channel, Origin(L, R, a).channel) /\ Matches(F.mapping, Origin(L, R, a).mapping)
      BY <1>6, <1>8, <1>9, <1>12, <2>3, <2>5, <2>6 DEF Matches
    <3>4. Matches(F.rule, Origin(L, R, a).rule)
      BY <1>6, <2>3 DEF Matches
    <3>5. Matches(F.price, Origin(L, R, a).price)
      BY <1>6, <1>8, <1>9, <2>3, <2>7 DEF Matches
    <3> QED BY <3>1, <3>2, <3>3, <3>4, <3>5 DEF AllocationWhere
  <2> QED BY <2>8, <2>9, <2>10
<1>17. \A l \in LS : \A a \in AllocationsOf(L, R, l) : a.log = l
  BY DEF AllocationsOf
<1>18. \A X : \A a : a \in Allocations(X, L, R)
         <=> \E l \in LS : /\ a \in AllocationsOf(L, R, l) /\ UsageWhere(X, L[l])
                           /\ AllocationWhere(X, L, R, a)
  BY DEF Allocations, ScopedUsage
<1>19. Allocations(G, L, R) \subseteq A
  <2>1. SUFFICES ASSUME NEW a \in Allocations(G, L, R) PROVE a \in A
    OBVIOUS
  <2>2. PICK l \in LS : /\ a \in AllocationsOf(L, R, l) /\ UsageWhere(G, L[l])
                        /\ AllocationWhere(G, L, R, a)
    BY <1>18
  <2>3. /\ UsageWhere(F, L[l]) /\ AllocationWhere(F, L, R, a)
        /\ DimensionId(d, n, L, R, P, a) = k
    BY <1>16, <1>17, <2>2
  <2>4. a \in Allocations(F, L, R)
    BY <1>18, <2>2, <2>3
  <2> QED BY <2>3, <2>4 DEF A, Row
<1>20. A \subseteq Allocations(G, L, R)
  BY <1>7, <1>15, <1>18
<1>21. AcceptedFilter(G, longest)
  BY <1>6, <1>9 DEF AcceptedFilter
<1> QED BY <1>19, <1>20, <1>21 DEF A, G, kind


\* Each request of an overview is in exactly one of the four states, so that
\* the counts by state add up to the number of requests.
THEOREM StatesAddUp ==
  ASSUME NEW RS, IsFiniteSet(RS), NEW R \in [RS -> RouteAttempt],
         NEW LS, IsFiniteSet(LS), NEW L \in [LS -> UsageLog], NEW F
  PROVE  LET page == Overview(F, L, R) IN page.requests = Total(page.states, RequestStates)
<1> DEFINE S == MatchedRequests(Allocations(F, L, R))
           h == [l \in S |-> RequestState(L[l])]
           m == [s \in RequestStates |-> {l \in S : RequestState(L[l]) = s}]
           f == [l \in S |-> 1]
           t == [s \in RequestStates |-> Cardinality({l \in S : RequestState(L[l]) = s})]
<1>1. IsFiniteSet(S)
  <2> DEFINE A == Allocations(F, L, R)
  <2>1. \A a \in A : a.log \in LS
    BY ViewFinite
  <2>2. S \in SUBSET LS
    BY <2>1 DEF MatchedRequests
  <2> HIDE DEF S
  <2> QED BY <2>2, FS_Subset
<1>2. Overview(F, L, R).requests = Cardinality(S) /\ Overview(F, L, R).states = t
  BY DEF Overview
<1>3. h \in [S -> RequestStates] /\ m \in [RequestStates -> SUBSET S]
  BY DEF RequestState, RequestStates
<1>4. \A s \in RequestStates : \A l \in S : l \in m[s] <=> h[l] = s
  OBVIOUS
<1>5. ASSUME NEW s \in RequestStates
      PROVE  t[s] = Total(f, m[s]) /\ t[s] \in Nat
  <2> DEFINE M == m[s]
             e == [l \in M |-> 1]
  <2>1. M \in SUBSET S /\ t[s] = Cardinality(M) /\ (\A l \in M : f[l] = e[l])
    OBVIOUS
  <2>2. IsFiniteSet(M)
    <3> HIDE DEF M
    <3> QED BY <1>1, <2>1, FS_Subset
  <2>3. Total(e, M) = Cardinality(M) /\ Cardinality(M) \in Nat
    <3> HIDE DEF M
    <3> QED BY <2>2, TotalOfOnes, FS_CardinalityType
  <2> HIDE DEF M, e, f, t
  <2>4. Total(f, M) = Total(e, M)
    BY <2>1, TotalSame
  <2> QED BY <2>1, <2>3, <2>4 DEF M
<1>6. f \in [S -> Nat]
  OBVIOUS
<1>7. Total(f, S) = Cardinality(S)
  <2> HIDE DEF S
  <2> QED BY <1>1, TotalOfOnes
<1>8. t \in [RequestStates -> Nat] /\ (\A s \in RequestStates : t[s] = Total(f, m[s]))
  <2> HIDE DEF m, f
  <2>1. \A s \in RequestStates : t[s] \in Nat /\ t[s] = Total(f, m[s])
    BY <1>5
  <2>2. t = [s \in RequestStates |-> t[s]]
    OBVIOUS
  <2> HIDE DEF t
  <2> QED BY <2>1, <2>2
<1> HIDE DEF S, h, m, f, t
<1>9. Total(t, RequestStates) = Total(f, S)
  BY <1>1, <1>3, <1>4, <1>6, <1>8, TotalPartition, SMTT(60)
<1> QED BY <1>2, <1>7, <1>9

\* A member's pages count the member's own requests, and those of any other
\* account than the platform's administrators only requests of its
\* organization, whatever the query asks for.
THEOREM OwnRequestsOnly ==
  ASSUME NEW R, NEW L, NEW F \in UsageReadFilter,
         NEW principal \in [role: {"PLATFORM_ADMIN", "ORG_ADMIN", "MEMBER"},
                            sub: Ids, organization: Ids],
         NEW a \in Allocations(ResolveUsageFilter(principal, F), L, R)
  PROVE  /\ principal.role = "MEMBER" => L[a.log].account = principal.sub
         /\ principal.role # "PLATFORM_ADMIN" => L[a.log].organization = principal.organization
<1> DEFINE G == ResolveUsageFilter(principal, F)
<1>1. a.log \in ScopedUsage(G, L)
  <2>1. \A l : \A b \in AllocationsOf(L, R, l) : b.log = l
    BY DEF AllocationsOf
  <2> QED BY <2>1 DEF Allocations
<1>2. /\ G.account = (IF principal.role = "MEMBER" THEN principal.sub ELSE F.account)
      /\ G.organization = (IF principal.role = "PLATFORM_ADMIN" THEN F.organization
                           ELSE principal.organization)
  BY DEF ResolveUsageFilter, UsageReadFilter
<1>3. principal.sub # AnyValue /\ principal.organization # AnyValue
  BY DEF AnyValue, Ids
<1> HIDE DEF G
<1>4. Matches(G.account, L[a.log].account) /\ Matches(G.organization, L[a.log].organization)
  BY <1>1 DEF ScopedUsage, UsageWhere
<1> QED BY <1>2, <1>3, <1>4 DEF Matches

\* The difference shown in the detail of a request is the one its list counts
\* as unallocated.
THEOREM DetailAgrees ==
  ASSUME NEW RS, IsFiniteSet(RS), NEW R \in [RS -> RouteAttempt],
         NEW LS, NEW L \in [LS -> UsageLog], NEW l \in LS
  PROVE  MatchedCost(L, R, {a \in AllocationsOf(L, R, l) : a.kind = "UNALLOCATED"})
           = DetailUnallocated(L, R, l)
<1> DEFINE U == {a \in AllocationsOf(L, R, l) : a.kind = "UNALLOCATED"}
           u == [kind |-> "UNALLOCATED", log |-> l, route |-> Unset]
           h == [a \in U |-> AllocationCost(L, R, a)]
<1>1. RoutesCost(R, l) \in Nat /\ L[l].cost \in Nat
  BY RoutesCostType DEF UsageLog
<1>2. MatchedCost(L, R, U) = Balance(h, U)
  BY DEF MatchedCost
<1>3. CASE BilledRoutes(R, l) # {} /\ L[l].cost # RoutesCost(R, l)
  <2>1. U = {u}
    BY <1>3 DEF AllocationsOf
  <2>2. h[u] = L[l].cost - RoutesCost(R, l) /\ h \in [{u} -> Int]
    BY <1>1, <2>1 DEF AllocationCost
  <2>3. DetailUnallocated(L, R, l) = L[l].cost - RoutesCost(R, l)
    BY <1>3 DEF DetailUnallocated
  <2> HIDE DEF U, u, h
  <2>4. Balance(h, {u}) = h[u]
    BY <2>2, BalanceOfOne
  <2> QED BY <1>2, <2>1, <2>2, <2>3, <2>4 DEF U
<1>4. CASE ~(BilledRoutes(R, l) # {} /\ L[l].cost # RoutesCost(R, l))
  <2>1. U = {}
    BY <1>4 DEF AllocationsOf
  <2>2. h \in [{} -> Nat] /\ \A x \in {} : h[x] = 0
    BY <2>1
  <2>3. DetailUnallocated(L, R, l) = 0
    BY <1>1, <1>4 DEF DetailUnallocated
  <2> HIDE DEF h, U
  <2>4. Total(h, {}) = 0
    BY <2>2, TotalZero
  <2>5. IsFiniteSet({})
    BY FS_EmptySet
  <2>6. Balance(h, {}) = 0
    BY <2>2, <2>4, <2>5, BalanceNat
  <2> QED BY <1>2, <2>1, <2>3, <2>6 DEF U
<1> QED BY <1>3, <1>4

\* The amount a member's page shows as available in all is what the limited
\* projects have available together: a project that has spent more than its
\* limit takes its excess from the others', and the sum is never below nothing.
THEOREM ProfileAvailable ==
  ASSUME NEW D, IsFiniteSet(D), NEW B \in [D -> ProjectPeriod]
  PROVE  LET rest == Balance([p \in D |-> PeriodAvailable(B[p])], D)
         IN TotalAvailable(B) = (IF rest > 0 THEN rest ELSE 0)
<1> DEFINE f == [p \in D |-> PeriodAvailable(B[p])]
           g == [p \in D |-> B[p].limit]
           h == [p \in D |-> PeriodOccupied(B[p])]
<1>1. /\ f \in [D -> Int] /\ g \in [D -> Nat] /\ h \in [D -> Nat]
      /\ \A p \in D : f[p] = g[p] - h[p]
  BY DEF PeriodAvailable, PeriodOccupied, ProjectPeriod
<1>2. DOMAIN B = D
  OBVIOUS
<1>3. TotalAvailable(B) = (IF Total(h, D) < Total(g, D) THEN Total(g, D) - Total(h, D) ELSE 0)
  BY <1>2 DEF TotalAvailable
<1> HIDE DEF f, g, h
<1>4. Balance(f, D) = Total(g, D) - Total(h, D)
  BY <1>1, BalanceOf
<1>5. Total(g, D) \in Nat /\ Total(h, D) \in Nat
  BY <1>1, TotalType
<1>6. TotalAvailable(B) = (IF Balance(f, D) > 0 THEN Balance(f, D) ELSE 0)
  BY <1>3, <1>4, <1>5
<1> QED BY <1>6 DEF f
===============================================================================
