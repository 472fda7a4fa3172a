--------------------------- MODULE MCBudgetedRequest ---------------------------
(* Instances of BudgetedRequest for TLC: one timezone and one month.       *)
EXTENDS BudgetedRequest, TLC

CONSTANTS p1, p2

\* The policies of a request are interchangeable.
PolicySymmetry == Permutations(Policies)

MCMonthOf == [tz \in Timezones |-> [t \in 1 .. MaxClock |-> "m1"]]

\* With one month the two modes of a group behave alike: one is enough.
MonthlyInit == RequestInit /\ group.mode = "MONTHLY"
MonthlySpec == MonthlyInit /\ [][RequestsNext]_requestVars
===============================================================================
