------------------------------ MODULE MCWallet ------------------------------
(***************************************************************************)
(* Instances of Wallet for TLC: a learner who opens with 2, and credits,   *)
(* orders and lessons small enough that some orders are covered, some only *)
(* after a credit or a refund, and some withdrawals are refused.           *)
(***************************************************************************)
EXTENDS Wallet, TLC

CONSTANTS c1, c2,                   \* a top-up and a voucher
          o1, o2,                   \* orders; o2 buys a lesson pack too
          l1, l2                    \* lessons of o1 and o2

Symmetry == Permutations(Procs)

MCWorth == [c \in Credits |-> IF c = c1 THEN 1 ELSE 2]
MCCost == [o \in Orders |-> IF o = o1 THEN 2 ELSE 1]
MCOrderOf == [l \in Lessons |-> IF l = l1 THEN o1 ELSE o2]
MCPrice == [l \in Lessons |-> MCCost[MCOrderOf[l]]]
=============================================================================
