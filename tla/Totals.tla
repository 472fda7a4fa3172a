-------------------------------- MODULE Totals --------------------------------
(***************************************************************************)
(* The sum of a function of natural numbers over a finite set.             *)
(*                                                                         *)
(* The ledgers compare a period's running totals with the sum over its     *)
(* requests, and the quota counters with the sum over their markers.  A    *)
(* sum is written as the number of units in a set with f[x] units for      *)
(* each x, so that it is an ordinary cardinality and its laws can be       *)
(* proved from those of finite sets (module TotalsProofs).                 *)
(***************************************************************************)
EXTENDS Integers, FiniteSets

\* One element <<x, i>> for each unit i of f[x].
UnitSet(f, S) == UNION {{x} \X (1 .. f[x]) : x \in S}

\* The sum of f[x] over the elements x of S.
Total(f, S) == Cardinality(UnitSet(f, S))

\* The sum of numbers of either sign: what is gained less what is lost.
Balance(f, S) ==
  Total([x \in S |-> IF f[x] > 0 THEN f[x] ELSE 0], S)
    - Total([x \in S |-> IF f[x] < 0 THEN 0 - f[x] ELSE 0], S)
===============================================================================
