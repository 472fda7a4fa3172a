---------------------------- MODULE BudgetAccount ----------------------------
(***************************************************************************)
(* What a budget promises, whoever keeps it: the group ledger and the      *)
(* project ledger are two implementations of it (Account in BudgetLedger   *)
(* and in ProjectLedger).                                                  *)
(*                                                                         *)
(* A request makes one deal with one account.  What it may cost is         *)
(* promised before it is sent; what it did cost is paid.  There are no     *)
(* running totals here: what an account has used is the sum over its       *)
(* deals.                                                                  *)
(***************************************************************************)
EXTENDS Totals

CONSTANTS
  Requests,  \* the requests
  Accounts   \* what has a limit: a budget period

VARIABLES
  deals,     \* the deal of each request
  limits     \* the limit of each account

accountVars == <<deals, limits>>

NoDeal == [state |-> "NONE"]

\* HELD: a part is paid, and the rest is promised at an estimate.
Deal == [state: {"OPEN", "HELD", "SETTLED", "RETURNED"}, account: Accounts,
         promised: Nat, paid: Nat, sent: BOOLEAN, corrected: BOOLEAN]

Limit == [amount: Nat, unlimited: BOOLEAN]

Made(r) == deals[r].state # "NONE"
Running(r) == deals[r].state \in {"OPEN", "HELD"}

Promised(a) ==
  [r \in Requests |-> IF Made(r) /\ deals[r].account = a THEN deals[r].promised ELSE 0]

Paid(a) ==
  [r \in Requests |-> IF Made(r) /\ deals[r].account = a THEN deals[r].paid ELSE 0]

Used(a) == Total(Promised(a), Requests) + Total(Paid(a), Requests)

\* A limit of nothing admits nothing, an amount of nothing included.
Covers(a, n) ==
  limits[a].unlimited \/ (limits[a].amount # 0 /\ Used(a) + n <= limits[a].amount)

-----------------------------------------------------------------------------
(* What the deal of r may become: d is the new one.                        *)

Promise(r, d) ==
  /\ ~Made(r)
  /\ d.state = "OPEN" /\ d.paid = 0 /\ ~d.sent /\ ~d.corrected
  /\ Covers(d.account, d.promised)

\* Another attempt of the same request.
PromiseMore(r, d) ==
  /\ Running(r)
  /\ d = [deals[r] EXCEPT !.promised = d.promised]
  /\ d.promised >= deals[r].promised
  /\ Covers(d.account, d.promised - deals[r].promised)

Send(r, d) ==
  /\ Running(r)
  /\ d = [deals[r] EXCEPT !.sent = TRUE]

\* Once: what is known is paid, covered or not, and the rest estimated anew.
Hold(r, d) ==
  /\ deals[r].state = "OPEN"
  /\ d = [deals[r] EXCEPT !.state = "HELD", !.paid = d.paid, !.promised = d.promised]

Settle(r, d) ==
  /\ Running(r)
  /\ d = [deals[r] EXCEPT !.state = "SETTLED", !.paid = d.paid, !.promised = 0]

\* Only what was never sent is given back.
Return(r, d) ==
  /\ deals[r].state = "OPEN" /\ ~deals[r].sent
  /\ d = [deals[r] EXCEPT !.state = "RETURNED", !.promised = 0]

\* By hand, and again, until the deal is returned.
Correct(r, d) ==
  /\ Made(r) /\ deals[r].state # "RETURNED"
  /\ d.state \in {"SETTLED", "RETURNED"}
  /\ d = [deals[r] EXCEPT !.state = d.state, !.paid = d.paid, !.promised = 0,
                          !.corrected = TRUE]
  /\ d.state = "RETURNED" => d.paid = 0

DealNext(r) ==
  LET d == deals'[r] IN
  /\ d \in Deal
  /\ deals' = [deals EXCEPT ![r] = d]
  /\ UNCHANGED limits
  /\ \/ Promise(r, d) \/ PromiseMore(r, d) \/ Send(r, d) \/ Hold(r, d)
     \/ Settle(r, d) \/ Return(r, d) \/ Correct(r, d)

\* A new limit covers what is used already.
LimitsNext ==
  /\ UNCHANGED deals
  /\ limits' \in [Accounts -> Limit]
  /\ \A a \in Accounts :
       limits'[a] # limits[a] => limits'[a].unlimited \/ Used(a) <= limits'[a].amount

AccountInit ==
  /\ deals = [r \in Requests |-> NoDeal]
  /\ limits \in [Accounts -> Limit]

AccountNext == LimitsNext \/ \E r \in Requests : DealNext(r)

AccountSpec == AccountInit /\ [][AccountNext]_accountVars
=============================================================================
