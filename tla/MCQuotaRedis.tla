----------------------------- MODULE MCQuotaRedis -----------------------------
(***************************************************************************)
(* An instance of QuotaRedis for TLC.  `part` chooses in the initial state *)
(* what is explored: the slots of three budgeted requests and an           *)
(* unbudgeted one that cost nothing, or the cost of one of each.           *)
(***************************************************************************)
EXTENDS QuotaRedis, TLC

CONSTANTS q1, q2, q3, l1

VARIABLE part

partVars == <<quotaVars, part>>

\* Budgeted requests are interchangeable.
QuotaSymmetry == Permutations(Requests \ Legacy)

PartInit == part \in {"slots", "usage"} /\ QuotaInit

SlotsPart ==
  /\ part = "slots" /\ QuotaNext
  /\ \A r \in Requests, p \in Policies :
       marker'[r][p].estimate = 0 /\ marker'[r][p].actual = 0 /\ marker'[r][p].version = 0

UsagePart ==
  /\ part = "usage" /\ QuotaNext
  /\ Cardinality({r \in Requests \ Legacy : \E p \in Policies : marker'[r][p].state # "NONE"}) <= 1

PartNext == (SlotsPart \/ UsagePart) /\ UNCHANGED part
PartSpec == PartInit /\ [][PartNext]_partVars
===============================================================================
