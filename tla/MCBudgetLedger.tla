---------------------------- MODULE MCBudgetLedger ----------------------------
(* Instances of BudgetLedger for TLC.                                      *)
EXTENDS BudgetLedger, TLC

CONSTANTS r1, r2, o1, o2

\* Two requests and two operation ids are interchangeable.
Symmetry == Permutations(Requests) \cup Permutations(Operations)

\* Two timezones that disagree about the month at instant 2 only, so that a
\* change of timezone can move the current period forwards or back.
MCMonthOf ==
  [tz \in Timezones |->
     [t \in 1 .. MaxClock |->
        IF t = 1 THEN "m1" ELSE IF t = 2 /\ tz = "west" THEN "m1" ELSE "m2"]]
===============================================================================
