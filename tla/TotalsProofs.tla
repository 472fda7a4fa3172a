----------------------------- MODULE TotalsProofs -----------------------------
(***************************************************************************)
(* Laws of the sums of module Totals.                                      *)
(***************************************************************************)
EXTENDS Totals, FiniteSetTheorems, TLAPS

\* The n units that x contributes to a sum are n in number.
LEMMA ColumnSize ==
  ASSUME NEW x, NEW n \in Nat
  PROVE  /\ IsFiniteSet({x} \X (1 .. n))
         /\ Cardinality({x} \X (1 .. n)) = n
<1>1. IsFiniteSet({x}) /\ Cardinality({x}) = 1
  BY FS_Singleton
<1>2. IsFiniteSet(1 .. n) /\ Cardinality(1 .. n) = n
  BY FS_Interval
<1>3. /\ IsFiniteSet({x} \X (1 .. n))
      /\ Cardinality({x} \X (1 .. n)) = 1 * n
  <2> DEFINE A == {x}
             B == 1 .. n
  <2>1. IsFiniteSet(A) /\ Cardinality(A) = 1 BY <1>1
  <2>2. IsFiniteSet(B) /\ Cardinality(B) = n BY <1>2
  <2> HIDE DEF A, B
  <2>3. IsFiniteSet(A \X B) /\ Cardinality(A \X B) = Cardinality(A) * Cardinality(B)
    BY <2>1, <2>2, FS_Product
  <2>4. IsFiniteSet(A \X B) /\ Cardinality(A \X B) = 1 * n
    BY <2>1, <2>2, <2>3
  <2> QED BY <2>4 DEF A, B
<1> QED BY <1>3

\* A sum over a finite set is a natural number.
LEMMA TotalType ==
  ASSUME NEW S, IsFiniteSet(S), NEW f \in [S -> Nat]
  PROVE  IsFiniteSet(UnitSet(f, S)) /\ Total(f, S) \in Nat
<1> DEFINE Column(x) == {x} \X (1 .. f[x])
<1>1. \A x \in S : IsFiniteSet(Column(x))
  BY ColumnSize
<1>2. IsFiniteSet({Column(x) : x \in S})
  <2> DEFINE T == {Column(x) : x \in S}
             c == [x \in S |-> Column(x)]
  <2>1. c \in Surjection(S, T)
    <3> HIDE DEF Column
    <3> QED BY DEF Surjection
  <2> HIDE DEF c, T
  <2>2. IsFiniteSet(T)
    BY <2>1, FS_Surjection
  <2> QED BY <2>2 DEF T
<1>3. IsFiniteSet(UNION {Column(x) : x \in S})
  <2>1. \A T \in {Column(x) : x \in S} : IsFiniteSet(T)
    BY <1>1
  <2> HIDE DEF Column
  <2> QED BY <2>1, <1>2, FS_UNION
<1>4. IsFiniteSet(UnitSet(f, S))
  BY <1>3 DEF UnitSet
<1> QED BY <1>4, FS_CardinalityType DEF Total

\* Taking x out of the set takes its units out of the sum.
LEMMA TotalSplit ==
  ASSUME NEW S, IsFiniteSet(S), NEW f \in [S -> Nat], NEW x \in S
  PROVE  /\ Cardinality(UnitSet(f, S \ {x})) \in Nat
         /\ Total(f, S) = Cardinality(UnitSet(f, S \ {x})) + f[x]
<1> DEFINE Rest == UnitSet(f, S \ {x})
           Own  == {x} \X (1 .. f[x])
<1>1. UnitSet(f, S) = Rest \cup Own
  BY DEF UnitSet
<1>2. Rest \cap Own = {}
  BY DEF UnitSet
<1>3. IsFiniteSet(Own) /\ Cardinality(Own) = f[x]
  BY ColumnSize
<1>4. IsFiniteSet(Rest)
  <2>1. IsFiniteSet(UnitSet(f, S)) BY TotalType
  <2>2. Rest \in SUBSET UnitSet(f, S) BY <1>1
  <2> QED BY <2>1, <2>2, FS_Subset
<1>5. Cardinality(Rest) \in Nat
  BY <1>4, FS_CardinalityType
<1>6. Cardinality(Rest \cup Own) =
        Cardinality(Rest) + Cardinality(Own) - Cardinality(Rest \cap Own)
  BY <1>3, <1>4, FS_Union
<1>7. Cardinality({}) = 0
  BY FS_EmptySet
<1> HIDE DEF Rest, Own
<1>8. Total(f, S) = Cardinality(Rest) + f[x]
  BY <1>1, <1>2, <1>3, <1>5, <1>6, <1>7 DEF Total
<1> QED BY <1>5, <1>8 DEF Rest

\* The same law for two functions that differ at one place.
LEMMA TotalDiffers ==
  ASSUME NEW S, IsFiniteSet(S), NEW f \in [S -> Nat], NEW g \in [S -> Nat],
         NEW x \in S, \A y \in S : y # x => g[y] = f[y]
  PROVE  /\ Total(f, S) \in Nat /\ Total(g, S) \in Nat
         /\ Total(g, S) = Total(f, S) - f[x] + g[x]
<1>1. UnitSet(g, S \ {x}) = UnitSet(f, S \ {x})
  BY DEF UnitSet
<1>2. /\ Cardinality(UnitSet(f, S \ {x})) \in Nat
      /\ Total(f, S) = Cardinality(UnitSet(f, S \ {x})) + f[x]
  BY TotalSplit
<1>3. Total(g, S) = Cardinality(UnitSet(g, S \ {x})) + g[x]
  BY TotalSplit
<1>4. Total(f, S) \in Nat /\ Total(g, S) \in Nat
  BY TotalType
<1> QED BY <1>1, <1>2, <1>3, <1>4

\* A sum of zeros is zero.
LEMMA TotalZero ==
  ASSUME NEW S, NEW f \in [S -> Nat], \A x \in S : f[x] = 0
  PROVE  Total(f, S) = 0
<1>1. \A x \in S : {x} \X (1 .. f[x]) = {}
  OBVIOUS
<1>2. UnitSet(f, S) = {}
  BY <1>1 DEF UnitSet
<1> QED BY <1>2, FS_EmptySet DEF Total

\* A sum is not greater than one whose every term is as great.
LEMMA TotalMonotone ==
  ASSUME NEW S, IsFiniteSet(S), NEW f \in [S -> Nat], NEW g \in [S -> Nat],
         \A x \in S : f[x] <= g[x]
  PROVE  Total(f, S) <= Total(g, S)
<1>1. \A x \in S : 1 .. f[x] \subseteq 1 .. g[x]
  OBVIOUS
<1>2. UnitSet(f, S) \subseteq UnitSet(g, S)
  BY <1>1 DEF UnitSet
<1>3. IsFiniteSet(UnitSet(g, S))
  BY TotalType
<1> QED BY <1>2, <1>3, FS_Subset DEF Total

\* A sum depends on the values over its set only.
LEMMA TotalSame ==
  ASSUME NEW S, NEW f, NEW g, \A x \in S : f[x] = g[x]
  PROVE  Total(f, S) = Total(g, S)
<1>1. UnitSet(f, S) = UnitSet(g, S)
  BY DEF UnitSet
<1> QED BY <1>1 DEF Total

\* The sum over one element is its value.
LEMMA TotalOfOne ==
  ASSUME NEW x, NEW f \in [{x} -> Nat]
  PROVE  Total(f, {x}) = f[x]
<1>1. UnitSet(f, {x}) = {x} \X (1 .. f[x])
  BY DEF UnitSet
<1> QED BY <1>1, ColumnSize DEF Total

\* The sum over two sets with nothing in common.
LEMMA TotalUnion ==
  ASSUME NEW S, IsFiniteSet(S), NEW T, IsFiniteSet(T), S \cap T = {},
         NEW f \in [S \cup T -> Nat]
  PROVE  Total(f, S \cup T) = Total(f, S) + Total(f, T)
<1> DEFINE fs == [x \in S |-> f[x]]
           ft == [x \in T |-> f[x]]
<1>1. IsFiniteSet(UnitSet(fs, S)) /\ IsFiniteSet(UnitSet(ft, T))
  BY TotalType
<1>2. UnitSet(f, S \cup T) = UnitSet(fs, S) \cup UnitSet(ft, T)
  BY DEF UnitSet
<1>3. UnitSet(fs, S) \cap UnitSet(ft, T) = {}
  BY DEF UnitSet
<1>4. Total(fs, S) = Total(f, S) /\ Total(ft, T) = Total(f, T)
  <2>1. Total(fs, S) = Total(f, S) BY TotalSame
  <2>2. Total(ft, T) = Total(f, T) BY TotalSame
  <2> QED BY <2>1, <2>2
<1> DEFINE A == UnitSet(fs, S)
           B == UnitSet(ft, T)
<1>5. Cardinality(A \cup B) = Cardinality(A) + Cardinality(B) - Cardinality(A \cap B)
  BY <1>1, FS_Union
<1>6. Cardinality(A \cap B) = 0
  BY <1>3, FS_EmptySet
<1>7. Cardinality(A) \in Nat /\ Cardinality(B) \in Nat
  BY <1>1, FS_CardinalityType
<1>8. Cardinality(A \cup B) = Cardinality(A) + Cardinality(B)
  <2> HIDE DEF A, B
  <2> QED BY <1>5, <1>6, <1>7
<1> QED BY <1>2, <1>4, <1>8 DEF Total

\* The same terms under other names have the same sum.
LEMMA TotalRenamed ==
  ASSUME NEW S, IsFiniteSet(S), NEW T, NEW b \in Bijection(S, T),
         NEW f \in [S -> Nat], NEW g \in [T -> Nat],
         \A x \in S : f[x] = g[b[x]]
  PROVE  Total(f, S) = Total(g, T)
<1> DEFINE A == UnitSet(f, S)
           B == UnitSet(g, T)
           c == [p \in A |-> <<b[p[1]], p[2]>>]
<1>1. b \in [S -> T] /\ (\A x, y \in S : b[x] = b[y] => x = y)
        /\ (\A y \in T : \E x \in S : b[x] = y)
  BY DEF Bijection, Injection, Surjection, IsInjective
<1>2. \A p : p \in A <=> \E x \in S : \E i \in 1 .. f[x] : p = <<x, i>>
  BY DEF UnitSet
<1>3. \A p : p \in B <=> \E y \in T : \E i \in 1 .. g[y] : p = <<y, i>>
  BY DEF UnitSet
<1> HIDE DEF A, B
<1>4. c \in [A -> B]
  <2>1. SUFFICES ASSUME NEW p \in A PROVE <<b[p[1]], p[2]>> \in B
    OBVIOUS
  <2>2. PICK x \in S : \E i \in 1 .. f[x] : p = <<x, i>>
    BY <1>2
  <2>3. PICK i \in 1 .. f[x] : p = <<x, i>>
    BY <2>2
  <2>4. b[x] \in T /\ i \in 1 .. g[b[x]]
    BY <1>1
  <2>5. p[1] = x /\ p[2] = i
    BY <2>3
  <2> QED BY <1>3, <2>4, <2>5
<1>5. \A p, q \in A : c[p] = c[q] => p = q
  <2>1. SUFFICES ASSUME NEW p \in A, NEW q \in A, c[p] = c[q] PROVE p = q
    OBVIOUS
  <2>2. PICK x \in S, i \in Nat : p = <<x, i>>
    BY <1>2
  <2>3. PICK y \in S, j \in Nat : q = <<y, j>>
    BY <1>2
  <2>4. b[x] = b[y] /\ i = j
    BY <2>1, <2>2, <2>3
  <2> QED BY <1>1, <2>2, <2>3, <2>4
<1>6. \A q \in B : \E p \in A : c[p] = q
  <2>1. SUFFICES ASSUME NEW q \in B PROVE \E p \in A : c[p] = q
    OBVIOUS
  <2>2. PICK y \in T : \E i \in 1 .. g[y] : q = <<y, i>>
    BY <1>3
  <2>3. PICK i \in 1 .. g[y] : q = <<y, i>>
    BY <2>2
  <2>4. PICK x \in S : b[x] = y
    BY <1>1
  <2>5. <<x, i>> \in A
    BY <1>2, <2>3, <2>4
  <2>6. c[<<x, i>>] = q
    BY <2>3, <2>4, <2>5
  <2> QED BY <2>5, <2>6
<1>7. c \in Bijection(A, B)
  <2> HIDE DEF c
  <2> QED BY <1>4, <1>5, <1>6 DEF Bijection, Injection, Surjection, IsInjective
<1>8. IsFiniteSet(A)
  BY TotalType DEF A
<1>9. Cardinality(B) = Cardinality(A)
  BY <1>7, <1>8, FS_Bijection DEF ExistsBijection
<1> QED BY <1>9 DEF A, B, Total

\* The sum of a term-by-term sum.
LEMMA TotalPlus ==
  ASSUME NEW S, IsFiniteSet(S), NEW f \in [S -> Nat], NEW g \in [S -> Nat],
         NEW h \in [S -> Nat], \A x \in S : h[x] = f[x] + g[x]
  PROVE  Total(h, S) = Total(f, S) + Total(g, S)
<1> DEFINE A == UnitSet(f, S)
           B == UnitSet(g, S)
           C == UNION {{x} \X ((f[x] + 1) .. h[x]) : x \in S}
           c == [p \in B |-> <<p[1], f[p[1]] + p[2]>>]
<1>1. \A p : p \in B <=> \E x \in S : \E i \in 1 .. g[x] : p = <<x, i>>
  BY DEF UnitSet
<1>2. \A p : p \in C <=> \E x \in S : \E i \in (f[x] + 1) .. h[x] : p = <<x, i>>
  OBVIOUS
<1>3. UnitSet(h, S) = A \cup C
  <2>1. \A x \in S : 1 .. h[x] = (1 .. f[x]) \cup ((f[x] + 1) .. h[x])
    OBVIOUS
  <2> QED BY <2>1 DEF UnitSet
<1>4. A \cap C = {}
  BY DEF UnitSet
<1>5. IsFiniteSet(A) /\ IsFiniteSet(B)
  BY TotalType
<1> HIDE DEF A, B, C
<1>6. c \in [B -> C]
  <2>1. SUFFICES ASSUME NEW p \in B PROVE <<p[1], f[p[1]] + p[2]>> \in C
    OBVIOUS
  <2>2. PICK x \in S : \E i \in 1 .. g[x] : p = <<x, i>>
    BY <1>1
  <2>3. PICK i \in 1 .. g[x] : p = <<x, i>>
    BY <2>2
  <2>4. f[x] + i \in (f[x] + 1) .. h[x] /\ p[1] = x /\ p[2] = i
    BY <2>3
  <2> QED BY <1>2, <2>4
<1>7. \A p, q \in B : c[p] = c[q] => p = q
  <2>1. SUFFICES ASSUME NEW p \in B, NEW q \in B, c[p] = c[q] PROVE p = q
    OBVIOUS
  <2>2. PICK x \in S, i \in Nat : p = <<x, i>>
    BY <1>1
  <2>3. PICK y \in S, j \in Nat : q = <<y, j>>
    BY <1>1
  <2>4. x = y /\ f[x] + i = f[y] + j
    BY <2>1, <2>2, <2>3
  <2>5. i = j
    BY <2>4
  <2> QED BY <2>2, <2>3, <2>4, <2>5
<1>8. \A q \in C : \E p \in B : c[p] = q
  <2>1. SUFFICES ASSUME NEW q \in C PROVE \E p \in B : c[p] = q
    OBVIOUS
  <2>2. PICK x \in S : \E i \in (f[x] + 1) .. h[x] : q = <<x, i>>
    BY <1>2
  <2>3. PICK i \in (f[x] + 1) .. h[x] : q = <<x, i>>
    BY <2>2
  <2>4. i - f[x] \in 1 .. g[x] /\ f[x] + (i - f[x]) = i
    OBVIOUS
  <2>5. <<x, i - f[x]>> \in B
    BY <1>1, <2>4
  <2>6. c[<<x, i - f[x]>>] = q
    BY <2>3, <2>4, <2>5
  <2> QED BY <2>5, <2>6
<1>9. c \in Bijection(B, C)
  <2> HIDE DEF c
  <2> QED BY <1>6, <1>7, <1>8 DEF Bijection, Injection, Surjection, IsInjective
<1>10. IsFiniteSet(C) /\ Cardinality(C) = Cardinality(B)
  BY <1>5, <1>9, FS_Bijection DEF ExistsBijection
<1>11. Cardinality(A \cup C) = Cardinality(A) + Cardinality(C) - Cardinality(A \cap C)
  BY <1>5, <1>10, FS_Union
<1>12. Cardinality(A \cap C) = 0
  BY <1>4, FS_EmptySet
<1>13. Cardinality(A) \in Nat /\ Cardinality(C) \in Nat
  BY <1>5, <1>10, FS_CardinalityType
<1>14. Cardinality(A \cup C) = Cardinality(A) + Cardinality(B)
  BY <1>10, <1>11, <1>12, <1>13
<1> QED BY <1>3, <1>14 DEF A, B, Total

\* Summed group by group, a sum is the same: h[x] is the group of x, m[k] the
\* members of group k.
LEMMA TotalPartition ==
  ASSUME NEW S, IsFiniteSet(S), NEW K, NEW h \in [S -> K], NEW m \in [K -> SUBSET S],
         \A k \in K : \A x \in S : x \in m[k] <=> h[x] = k,
         NEW f \in [S -> Nat], NEW t \in [K -> Nat], \A k \in K : t[k] = Total(f, m[k])
  PROVE  Total(t, K) = Total(f, S)
<1> DEFINE U(k) == UnitSet(f, m[k])
           A == UnitSet(f, S)
           B == UnitSet(t, K)
           number == [k \in K |-> CHOOSE b : b \in Bijection(U(k), 1 .. t[k])]
           c == [p \in A |-> <<h[p[1]], number[h[p[1]]][p]>>]
<1>1. \A p : p \in A <=> \E x \in S : \E i \in 1 .. f[x] : p = <<x, i>>
  BY DEF UnitSet
<1>2. \A p : p \in B <=> \E k \in K : \E i \in 1 .. t[k] : p = <<k, i>>
  BY DEF UnitSet
<1>3. \A k \in K : \A p : p \in U(k) <=> p \in A /\ h[p[1]] = k
  <2>1. SUFFICES ASSUME NEW k \in K, NEW p
                 PROVE  p \in U(k) <=> p \in A /\ h[p[1]] = k
    OBVIOUS
  <2>2. p \in U(k) <=> \E x \in m[k] : \E i \in 1 .. f[x] : p = <<x, i>>
    BY DEF UnitSet
  <2> QED BY <1>1, <2>2
<1>4. \A k \in K : number[k] \in Bijection(U(k), 1 .. t[k])
  <2>1. SUFFICES ASSUME NEW k \in K
                 PROVE  \E b : b \in Bijection(U(k), 1 .. t[k])
    OBVIOUS
  <2> DEFINE own == [x \in m[k] |-> f[x]]
  <2>2. IsFiniteSet(m[k])
    <3>1. m[k] \in SUBSET S OBVIOUS
    <3> QED BY <3>1, FS_Subset
  <2>3. UnitSet(own, m[k]) = U(k)
    <3>1. \A x \in m[k] : own[x] = f[x] OBVIOUS
    <3> HIDE DEF own
    <3> QED BY <3>1 DEF UnitSet
  <2>4. IsFiniteSet(UnitSet(own, m[k]))
    <3>1. own \in [m[k] -> Nat] OBVIOUS
    <3> HIDE DEF own
    <3> QED BY <2>2, <3>1, TotalType
  <2>5. Cardinality(U(k)) = t[k]
    BY DEF Total
  <2> DEFINE V == U(k)
  <2>6. IsFiniteSet(V) /\ Cardinality(V) = t[k]
    BY <2>3, <2>4, <2>5
  <2>7. IsFiniteSet(1 .. t[k]) /\ Cardinality(1 .. t[k]) = t[k]
    BY FS_Interval
  <2> HIDE DEF V
  <2>8. ExistsBijection(V, 1 .. t[k])
    BY <2>6, <2>7, FS_SameCardinalityBij
  <2> QED BY <2>8 DEF ExistsBijection, V
<1>5. IsFiniteSet(A)
  BY TotalType
<1> HIDE DEF A, B, U, number
<1>6. \A k \in K : /\ number[k] \in [U(k) -> 1 .. t[k]]
                   /\ \A p, q \in U(k) : number[k][p] = number[k][q] => p = q
                   /\ \A i \in 1 .. t[k] : \E p \in U(k) : number[k][p] = i
  BY <1>4 DEF Bijection, Injection, Surjection, IsInjective
<1>7. \A p \in A : h[p[1]] \in K /\ p \in U(h[p[1]])
  BY <1>1, <1>3
<1>8. c \in [A -> B]
  BY <1>2, <1>6, <1>7
<1>9. \A p, q \in A : c[p] = c[q] => p = q
  <2>1. SUFFICES ASSUME NEW p \in A, NEW q \in A, c[p] = c[q] PROVE p = q
    OBVIOUS
  <2>2. h[p[1]] = h[q[1]] /\ number[h[p[1]]][p] = number[h[q[1]]][q]
    BY <2>1
  <2> QED BY <1>6, <1>7, <2>2
<1>10. \A q \in B : \E p \in A : c[p] = q
  <2>1. SUFFICES ASSUME NEW q \in B PROVE \E p \in A : c[p] = q
    OBVIOUS
  <2>2. PICK k \in K : \E i \in 1 .. t[k] : q = <<k, i>>
    BY <1>2
  <2>3. PICK i \in 1 .. t[k] : q = <<k, i>>
    BY <2>2
  <2>4. PICK p \in U(k) : number[k][p] = i
    BY <1>6
  <2>5. p \in A /\ h[p[1]] = k
    BY <1>3
  <2> QED BY <2>3, <2>4, <2>5
<1>11. c \in Bijection(A, B)
  <2> HIDE DEF c
  <2> QED BY <1>8, <1>9, <1>10 DEF Bijection, Injection, Surjection, IsInjective
<1>12. Cardinality(B) = Cardinality(A)
  BY <1>5, <1>11, FS_Bijection DEF ExistsBijection
<1> QED BY <1>12 DEF A, B, Total

\* A balance is the difference of any two sums whose terms differ as its own do.
LEMMA BalanceOf ==
  ASSUME NEW S, IsFiniteSet(S), NEW f \in [S -> Int],
         NEW p \in [S -> Nat], NEW q \in [S -> Nat],
         \A x \in S : f[x] = p[x] - q[x]
  PROVE  /\ Balance(f, S) = Total(p, S) - Total(q, S)
         /\ Balance(f, S) \in Int
<1> DEFINE gains == [x \in S |-> IF f[x] > 0 THEN f[x] ELSE 0]
           losses == [x \in S |-> IF f[x] < 0 THEN 0 - f[x] ELSE 0]
           both == [x \in S |-> gains[x] + q[x]]
<1>1. gains \in [S -> Nat] /\ losses \in [S -> Nat] /\ both \in [S -> Nat]
  OBVIOUS
<1>2. \A x \in S : both[x] = gains[x] + q[x] /\ both[x] = losses[x] + p[x]
  OBVIOUS
<1>3. Balance(f, S) = Total(gains, S) - Total(losses, S)
  BY DEF Balance
<1> HIDE DEF gains, losses, both
<1>4. Total(both, S) = Total(gains, S) + Total(q, S)
  BY <1>1, <1>2, TotalPlus
<1>5. Total(both, S) = Total(losses, S) + Total(p, S)
  BY <1>1, <1>2, TotalPlus
<1>6. /\ Total(gains, S) \in Nat /\ Total(losses, S) \in Nat
      /\ Total(p, S) \in Nat /\ Total(q, S) \in Nat
  BY <1>1, TotalType
<1> QED BY <1>3, <1>4, <1>5, <1>6

\* A balance depends on the values over its set only.
LEMMA BalanceSame ==
  ASSUME NEW S, NEW f, NEW g, \A x \in S : f[x] = g[x]
  PROVE  Balance(f, S) = Balance(g, S)
<1>1. /\ [x \in S |-> IF f[x] > 0 THEN f[x] ELSE 0] = [x \in S |-> IF g[x] > 0 THEN g[x] ELSE 0]
      /\ [x \in S |-> IF f[x] < 0 THEN 0 - f[x] ELSE 0]
           = [x \in S |-> IF g[x] < 0 THEN 0 - g[x] ELSE 0]
  OBVIOUS
<1> QED BY <1>1 DEF Balance

\* Without losses a balance is a sum.
LEMMA BalanceNat ==
  ASSUME NEW S, IsFiniteSet(S), NEW f \in [S -> Nat]
  PROVE  Balance(f, S) = Total(f, S)
<1> DEFINE zero == [x \in S |-> 0]
<1>1. f \in [S -> Int] /\ zero \in [S -> Nat] /\ \A x \in S : f[x] = f[x] - zero[x]
  OBVIOUS
<1>2. Total(zero, S) = 0
  BY TotalZero
<1> HIDE DEF zero
<1>3. Balance(f, S) = Total(f, S) - Total(zero, S)
  BY <1>1, BalanceOf
<1> QED BY <1>2, <1>3, TotalType

\* The two sums a balance is the difference of.
LEMMA BalanceParts ==
  ASSUME NEW S, IsFiniteSet(S), NEW f \in [S -> Int]
  PROVE  \E p, q \in [S -> Nat] : \A x \in S : f[x] = p[x] - q[x]
<1> DEFINE gains == [x \in S |-> IF f[x] > 0 THEN f[x] ELSE 0]
           losses == [x \in S |-> IF f[x] < 0 THEN 0 - f[x] ELSE 0]
<1>1. gains \in [S -> Nat] /\ losses \in [S -> Nat]
        /\ \A x \in S : f[x] = gains[x] - losses[x]
  OBVIOUS
<1> QED BY <1>1

\* A balance is an integer.
LEMMA BalanceType ==
  ASSUME NEW S, IsFiniteSet(S), NEW f \in [S -> Int]
  PROVE  Balance(f, S) \in Int
<1> DEFINE gains == [x \in S |-> IF f[x] > 0 THEN f[x] ELSE 0]
           losses == [x \in S |-> IF f[x] < 0 THEN 0 - f[x] ELSE 0]
<1>1. gains \in [S -> Nat] /\ losses \in [S -> Nat]
  OBVIOUS
<1>2. Balance(f, S) = Total(gains, S) - Total(losses, S)
  BY DEF Balance
<1> HIDE DEF gains, losses
<1>3. Total(gains, S) \in Nat /\ Total(losses, S) \in Nat
  BY <1>1, TotalType
<1> QED BY <1>2, <1>3

\* The balance of two sets with nothing in common.
LEMMA BalanceUnion ==
  ASSUME NEW S, IsFiniteSet(S), NEW T, IsFiniteSet(T), S \cap T = {},
         NEW f \in [S \cup T -> Int]
  PROVE  Balance(f, S \cup T) = Balance(f, S) + Balance(f, T)
<1>1. IsFiniteSet(S \cup T)
  BY FS_Union
<1>2. PICK p \in [S \cup T -> Nat], q \in [S \cup T -> Nat] :
             \A x \in S \cup T : f[x] = p[x] - q[x]
  <2> DEFINE V == S \cup T
  <2>1. IsFiniteSet(V) /\ f \in [V -> Int] BY <1>1
  <2> HIDE DEF V
  <2>2. \E p, q \in [V -> Nat] : \A x \in V : f[x] = p[x] - q[x]
    BY <2>1, BalanceParts
  <2> QED BY <2>2 DEF V
<1> DEFINE Part(g, A) == [x \in A |-> g[x]]
<1>3. ASSUME NEW A, A = S \/ A = T
      PROVE  Balance(f, A) = Total(p, A) - Total(q, A) /\ Total(p, A) \in Nat /\ Total(q, A) \in Nat
  <2>1. /\ Part(f, A) \in [A -> Int] /\ Part(p, A) \in [A -> Nat] /\ Part(q, A) \in [A -> Nat]
        /\ \A x \in A : Part(f, A)[x] = Part(p, A)[x] - Part(q, A)[x]
    BY <1>2, <1>3
  <2>2. Balance(Part(f, A), A) = Balance(f, A)
    BY BalanceSame
  <2>3. Total(Part(p, A), A) = Total(p, A)
    BY TotalSame
  <2>4. Total(Part(q, A), A) = Total(q, A)
    BY TotalSame
  <2> HIDE DEF Part
  <2>5. Balance(Part(f, A), A) = Total(Part(p, A), A) - Total(Part(q, A), A)
    BY <1>3, <2>1, BalanceOf
  <2>6. Total(Part(p, A), A) \in Nat /\ Total(Part(q, A), A) \in Nat
    BY <1>3, <2>1, TotalType
  <2> QED BY <2>2, <2>3, <2>4, <2>5, <2>6
<1>4. Balance(f, S \cup T) = Total(p, S \cup T) - Total(q, S \cup T)
  BY <1>1, <1>2, BalanceOf
<1>5. Total(p, S \cup T) = Total(p, S) + Total(p, T) /\ Total(q, S \cup T) = Total(q, S) + Total(q, T)
  BY TotalUnion
<1> QED BY <1>3, <1>4, <1>5

\* The balance of one value.
LEMMA BalanceOfOne ==
  ASSUME NEW x, NEW f \in [{x} -> Int]
  PROVE  Balance(f, {x}) = f[x]
<1>1. IsFiniteSet({x})
  BY FS_Singleton
<1>2. PICK p \in [{x} -> Nat], q \in [{x} -> Nat] : \A y \in {x} : f[y] = p[y] - q[y]
  BY <1>1, BalanceParts
<1>3. Balance(f, {x}) = Total(p, {x}) - Total(q, {x})
  BY <1>1, <1>2, BalanceOf
<1>4. Total(p, {x}) = p[x] /\ Total(q, {x}) = q[x]
  BY TotalOfOne
<1> QED BY <1>2, <1>3, <1>4

\* Group by group, a balance is the same.
LEMMA BalancePartition ==
  ASSUME NEW S, IsFiniteSet(S), NEW K, IsFiniteSet(K), NEW h \in [S -> K],
         NEW m \in [K -> SUBSET S],
         \A k \in K : \A x \in S : x \in m[k] <=> h[x] = k,
         NEW f \in [S -> Int], NEW t \in [K -> Int],
         \A k \in K : t[k] = Balance(f, m[k])
  PROVE  Balance(t, K) = Balance(f, S)
<1> DEFINE Part(g, k) == [x \in m[k] |-> g[x]]
<1> DEFINE p == [x \in S |-> IF f[x] > 0 THEN f[x] ELSE 0]
           q == [x \in S |-> IF f[x] < 0 THEN 0 - f[x] ELSE 0]
<1>1. p \in [S -> Nat] /\ q \in [S -> Nat] /\ (\A x \in S : f[x] = p[x] - q[x])
  OBVIOUS
<1> HIDE DEF p, q
<1> DEFINE tp == [k \in K |-> Total(p, m[k])]
           tq == [k \in K |-> Total(q, m[k])]
<1>2. ASSUME NEW k \in K
      PROVE  /\ Total(p, m[k]) \in Nat /\ Total(q, m[k]) \in Nat
             /\ t[k] = Total(p, m[k]) - Total(q, m[k])
  <2>1. IsFiniteSet(m[k])
    <3>1. m[k] \in SUBSET S OBVIOUS
    <3> QED BY <3>1, FS_Subset
  <2>2. /\ Part(f, k) \in [m[k] -> Int]
        /\ Part(p, k) \in [m[k] -> Nat] /\ Part(q, k) \in [m[k] -> Nat]
        /\ \A x \in m[k] : Part(f, k)[x] = Part(p, k)[x] - Part(q, k)[x]
    BY <1>1
  <2>3. Balance(Part(f, k), m[k]) = Balance(f, m[k])
    BY BalanceSame
  <2>4. Total(Part(p, k), m[k]) = Total(p, m[k])
    BY TotalSame
  <2>5. Total(Part(q, k), m[k]) = Total(q, m[k])
    BY TotalSame
  <2> HIDE DEF Part
  <2>6. Balance(Part(f, k), m[k]) = Total(Part(p, k), m[k]) - Total(Part(q, k), m[k])
    BY <2>1, <2>2, BalanceOf
  <2>7. Total(Part(p, k), m[k]) \in Nat /\ Total(Part(q, k), m[k]) \in Nat
    BY <2>1, <2>2, TotalType
  <2> QED BY <2>3, <2>4, <2>5, <2>6, <2>7
<1>3. /\ tp \in [K -> Nat] /\ tq \in [K -> Nat]
      /\ \A k \in K : tp[k] = Total(p, m[k]) /\ tq[k] = Total(q, m[k]) /\ t[k] = tp[k] - tq[k]
  BY <1>2
<1> HIDE DEF tp, tq
<1>4. Total(tp, K) = Total(p, S)
  <2>1. tp \in [K -> Nat] /\ p \in [S -> Nat]
    BY <1>1, <1>3
  <2>2. \A k \in K : tp[k] = Total(p, m[k])
    BY <1>3
  <2>3. \A k \in K : \A x \in S : x \in m[k] <=> h[x] = k
    OBVIOUS
  <2> QED BY <2>1, <2>2, <2>3, TotalPartition, SMTT(60)
<1>5. Total(tq, K) = Total(q, S)
  <2>1. tq \in [K -> Nat] /\ q \in [S -> Nat]
    BY <1>1, <1>3
  <2>2. \A k \in K : tq[k] = Total(q, m[k])
    BY <1>3
  <2>3. \A k \in K : \A x \in S : x \in m[k] <=> h[x] = k
    OBVIOUS
  <2> QED BY <2>1, <2>2, <2>3, TotalPartition, SMTT(60)
<1>6. Balance(t, K) = Total(tp, K) - Total(tq, K)
  BY <1>3, BalanceOf
<1>7. Balance(f, S) = Total(p, S) - Total(q, S)
  BY <1>1, BalanceOf
<1> QED BY <1>4, <1>5, <1>6, <1>7

\* As many terms of one as there are elements.
LEMMA TotalOfOnes ==
  ASSUME NEW S, IsFiniteSet(S)
  PROVE  Total([x \in S |-> 1], S) = Cardinality(S)
<1> DEFINE f == [x \in S |-> 1]
           b == [x \in S |-> <<x, 1>>]
<1>1. UnitSet(f, S) = {<<x, 1>> : x \in S}
  BY DEF UnitSet
<1>2. b \in Bijection(S, {<<x, 1>> : x \in S})
  BY DEF Bijection, Injection, Surjection, IsInjective
<1>3. Cardinality({<<x, 1>> : x \in S}) = Cardinality(S)
  <2> DEFINE T == {<<x, 1>> : x \in S}
  <2> HIDE DEF b, T
  <2>1. b \in Bijection(S, T) BY <1>2 DEF T
  <2> QED BY <2>1, FS_Bijection DEF ExistsBijection, T
<1> QED BY <1>1, <1>3 DEF Total
===============================================================================
