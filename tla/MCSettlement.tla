---------------------------- MODULE MCSettlement ----------------------------
(***************************************************************************)
(* An instance of Settlement for TLC that looks, in one run, at an order, a *)
(* top-up, a voucher and an order with two payment intents, one at a time: *)
(* `about` says which, and is chosen at the start.                          *)
(***************************************************************************)
EXTENDS Settlement

CONSTANTS o1, o2, t1, g1, ann
VARIABLE about

MCRecipientOf == [v \in Vouchers |-> ann]
MCMaxIntents == [ref \in Payables |-> IF ref = o2 THEN 2 ELSE 1]

PayableOf(job) == CASE job[1] = "pay" -> job[2]
                    [] job[1] = "register" -> g1
                    [] OTHER -> job[2][1]

ScenarioInit == Init /\ about \in Payables

ScenarioNext ==
  /\ Next
  /\ \A p \in Procs : proc'[p].job # <<"none">> => PayableOf(proc'[p].job) = about
  /\ about \notin Vouchers => UNCHANGED voucher
  /\ UNCHANGED about

ScenarioSpec == ScenarioInit /\ [][ScenarioNext]_<<vars, about>> /\ Fairness
=============================================================================
