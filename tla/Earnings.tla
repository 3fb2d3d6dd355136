------------------------------ MODULE Earnings ------------------------------
(***************************************************************************)
(* What an instructor earns: the wallet, its ledger, the fast cash that    *)
(* leaves it through a Stripe Express account, and the weekly payout of    *)
(* transactions still PENDING_PAYOUT.  One instructor: generateWeeklyPayout *)
(* treats the instructors one after the other and apart.                   *)
(*                                                                         *)
(* One action is one database or Stripe call, with the code up to the next *)
(* await.  Stripe is external: it activates and restricts the account when *)
(* it likes and tells so in events that may arrive late, out of order and  *)
(* more than once.                                                         *)
(***************************************************************************)
EXTENDS FiniteSums

CONSTANTS
  Txns,                \* instructor transactions that may exist
  Legacy,              \* those stored as PENDING_PAYOUT by earlier releases
  Outstanding,         \* instructorEarning of each of them
  Amounts, MaxCash,    \* what fast cash may ask for, and how often it is asked
  Gifts, MaxGranted,   \* what add-wallet may add, and how much in total
  Procs,               \* concurrent executions
  MaxFaults            \* how many of them die

ASSUME TxnsAssumption == Legacy \subseteq Txns /\ Outstanding \in [Legacy -> Nat]
ASSUME ProcsAssumption == IsFiniteSet(Procs)
ASSUME AmountsAssumption ==
  Amounts \subseteq Nat /\ Gifts \subseteq Nat /\ MaxCash \in Nat /\ MaxGranted \in Nat /\ MaxFaults \in Nat

VARIABLES
  txn,       \* payoutStatus and instructorEarning of each transaction
  payouts,   \* transactionIds of the Payout documents
  balance,   \* walletBalance of the instructor's user document
  ledger,    \* sums of the CREDIT and the DEBIT entries
  granted,   \* what add-wallet added: it writes no entry
  account,   \* stripeAccountId is stored, and stripeOnboardingCompleted
  stripe,    \* the account at Stripe, and the snapshots its events carry
  asked,     \* fast cash requests so far
  proc,      \* the executions
  died, lost \* executions that died, and the difference they left behind

money == <<balance, ledger, granted>>
records == <<txn, payouts>>
onboarding == <<account, stripe>>
earnings == <<txn, payouts, balance, ledger, granted, account, stripe, asked, proc, died, lost>>

Statuses == {"NONE", "PENDING_PAYOUT", "PAID"}
NoEarning == [status |-> "NONE", earning |-> 0]
NoTxn == [none |-> "none"]
Idle == [pc |-> "idle", amount |-> 0, ids |-> {}, job |-> NoTxn, seen |-> NoTxn]

RecordsInit ==
  /\ txn = [t \in Txns |-> IF t \in Legacy THEN [status |-> "PENDING_PAYOUT", earning |-> Outstanding[t]]
                             ELSE NoEarning]
  /\ payouts = {}

FundsInit ==
  /\ balance = 0 /\ ledger = [credit |-> 0, debit |-> 0] /\ granted = 0
  /\ account = [id |-> FALSE, completed |-> FALSE]
  /\ stripe = [state |-> "none", sent |-> {}]
  /\ asked = 0
  /\ proc = [p \in Procs |-> Idle]
  /\ died = 0 /\ lost = 0

EarningsInit == RecordsInit /\ FundsInit

At(p, pc) == proc[p].pc = pc
Goto(p, pc) == proc' = [proc EXCEPT ![p].pc = pc]
Finish(p) == proc' = [proc EXCEPT ![p] = Idle]

-----------------------------------------------------------------------------
(* instructorFastCash *)

StartFastCash(p, a) ==
  /\ At(p, "idle")
  /\ a > 0 /\ asked < MaxCash
  /\ asked' = asked + 1
  /\ proc' = [proc EXCEPT ![p] = [Idle EXCEPT !.amount = a, !.pc =
       IF ~account.id THEN "createAccount" ELSE IF account.completed THEN "platform" ELSE "verify"]]
  /\ UNCHANGED <<money, records, onboarding, died, lost>>

\* createExpressAccount: the idempotencyKey gives every call the same account.
CreateAccount(p) ==
  /\ At(p, "createAccount")
  /\ stripe' = [stripe EXCEPT !.state = IF @ = "none" THEN "created" ELSE @]
  /\ Goto(p, "storeAccount")
  /\ UNCHANGED <<money, records, account, asked, died, lost>>

StoreAccount(p) ==
  /\ At(p, "storeAccount")
  /\ account' = [id |-> TRUE, completed |-> FALSE]
  /\ Finish(p)
  /\ UNCHANGED <<money, records, stripe, asked, died, lost>>

\* Mutant: an account whose onboarding is not finished is paid to.
VerifyAccountLeniently(p) ==
  /\ At(p, "verify")
  /\ Goto(p, "storeCompleted")
  /\ UNCHANGED <<money, records, onboarding, asked, died, lost>>

\* getAccount; without an answer the instructor gets the onboarding link, too.
VerifyAccount(p) ==
  /\ At(p, "verify")
  /\ \/ stripe.state = "active" /\ Goto(p, "storeCompleted")
     \/ Finish(p)
  /\ UNCHANGED <<money, records, onboarding, asked, died, lost>>

StoreCompleted(p) ==
  /\ At(p, "storeCompleted")
  /\ account' = [account EXCEPT !.completed = TRUE]
  /\ Goto(p, "platform")
  /\ UNCHANGED <<money, records, stripe, asked, died, lost>>

\* The platform's own balance may be too small.
CheckPlatform(p) ==
  /\ At(p, "platform")
  /\ Goto(p, "take") \/ Finish(p)
  /\ UNCHANGED <<money, records, onboarding, asked, died, lost>>

\* Mutant: the balance is only what the caller believes.
TakeFundsBlindly(p) ==
  /\ At(p, "take")
  /\ balance' = balance - proc[p].amount
  /\ Goto(p, "transfer")
  /\ UNCHANGED <<ledger, granted, records, onboarding, asked, died, lost>>

TakeFunds(p) ==
  /\ At(p, "take")
  /\ IF balance >= proc[p].amount
     THEN balance' = balance - proc[p].amount /\ Goto(p, "transfer")
     ELSE Finish(p) /\ UNCHANGED balance
  /\ UNCHANGED <<ledger, granted, records, onboarding, asked, died, lost>>

\* createTransfer, then instantPayout: whatever fails, the balance is restored.
Transfer(p) ==
  /\ At(p, "transfer")
  /\ Goto(p, "instantPayout") \/ Goto(p, "restore")
  /\ UNCHANGED <<money, records, onboarding, asked, died, lost>>

InstantPayout(p) ==
  /\ At(p, "instantPayout")
  /\ Goto(p, "recordDebit") \/ Goto(p, "restore")
  /\ UNCHANGED <<money, records, onboarding, asked, died, lost>>

RecordDebit(p) ==
  /\ At(p, "recordDebit")
  /\ ledger' = [ledger EXCEPT !.debit = @ + proc[p].amount]
  /\ Finish(p)
  /\ UNCHANGED <<balance, granted, records, onboarding, asked, died, lost>>

\* Mutant: the entry is written before the payout is known to have worked.
RestoreRecorded(p) ==
  /\ At(p, "restore")
  /\ balance' = balance + proc[p].amount
  /\ ledger' = [ledger EXCEPT !.debit = @ + proc[p].amount]
  /\ Finish(p)
  /\ UNCHANGED <<granted, records, onboarding, asked, died, lost>>

Restore(p) ==
  /\ At(p, "restore")
  /\ balance' = balance + proc[p].amount
  /\ Finish(p)
  /\ UNCHANGED <<ledger, granted, records, onboarding, asked, died, lost>>

-----------------------------------------------------------------------------
(* creditInstructorWallet, for the transaction in `job` *)

IncBalance(p) ==
  /\ At(p, "incBalance")
  /\ balance' = balance + txn[proc[p].job].earning
  /\ Goto(p, "markCredited")
  /\ UNCHANGED <<ledger, granted, records, onboarding, asked, died, lost>>

MarkCredited(p) ==
  /\ At(p, "markCredited")
  /\ txn' = [txn EXCEPT ![proc[p].job].status = "PAID"]
  /\ Goto(p, "recordCredit")
  /\ UNCHANGED <<money, payouts, onboarding, asked, died, lost>>

RecordCredit(p) ==
  /\ At(p, "recordCredit")
  /\ ledger' = [ledger EXCEPT !.credit = @ + txn[proc[p].job].earning]
  /\ Finish(p)
  /\ UNCHANGED <<balance, granted, records, onboarding, asked, died, lost>>

\* POST add-wallet
AddWalletBalance(a) ==
  /\ granted + a <= MaxGranted
  /\ balance' = balance + a
  /\ granted' = granted + a
  /\ UNCHANGED <<ledger, records, onboarding, asked, proc, died, lost>>

-----------------------------------------------------------------------------
(* generateWeeklyPayout: the cron job of Sunday, and POST run-weekly *)

Pending == {t \in Txns : txn[t].status = "PENDING_PAYOUT"}

\* distinct
StartWeekly(p) ==
  /\ At(p, "idle")
  /\ Pending # {}
  /\ proc' = [proc EXCEPT ![p] = [Idle EXCEPT !.pc = "findPending"]]
  /\ UNCHANGED <<money, records, onboarding, asked, died, lost>>

\* Mutant: the transactions are marked first, so that no other run takes them.
FindPendingMarking(p) ==
  /\ At(p, "findPending")
  /\ proc' = [proc EXCEPT ![p] = IF Pending = {} THEN Idle
                                 ELSE [@ EXCEPT !.pc = "createPayout", !.ids = Pending]]
  /\ txn' = [t \in Txns |-> IF t \in Pending THEN [txn[t] EXCEPT !.status = "PAID"] ELSE txn[t]]
  /\ UNCHANGED <<money, payouts, onboarding, asked, died, lost>>

FindPending(p) ==
  /\ At(p, "findPending")
  /\ proc' = [proc EXCEPT ![p] = IF Pending = {} THEN Idle
                                 ELSE [@ EXCEPT !.pc = "createPayout", !.ids = Pending]]
  /\ UNCHANGED <<money, records, onboarding, asked, died, lost>>

CreatePayout(p) ==
  /\ At(p, "createPayout")
  /\ payouts' = payouts \cup {proc[p].ids}
  /\ Goto(p, "markPaid")
  /\ UNCHANGED <<money, txn, onboarding, asked, died, lost>>

\* Mutant: the update matches the payout's own _id, so no transaction.
MarkNonePaid(p) ==
  /\ At(p, "markPaid")
  /\ Finish(p)
  /\ UNCHANGED <<money, records, onboarding, asked, died, lost>>

MarkPaid(p) ==
  /\ At(p, "markPaid")
  /\ txn' = [t \in Txns |-> IF t \in proc[p].ids THEN [txn[t] EXCEPT !.status = "PAID"] ELSE txn[t]]
  /\ Finish(p)
  /\ UNCHANGED <<money, payouts, onboarding, asked, died, lost>>

-----------------------------------------------------------------------------
(* Stripe's account, and the account.updated branch of the webhook *)

AccountChanges ==
  /\ stripe.state # "none"
  /\ \E s \in {"active", "restricted"} \ {stripe.state} :
       stripe' = [state |-> s, sent |-> stripe.sent \cup {s = "active"}]
  /\ UNCHANGED <<money, records, account, asked, proc, died, lost>>

AccountUpdated ==
  /\ \E completed \in stripe.sent : account' = [account EXCEPT !.completed = completed]
  /\ UNCHANGED <<money, records, stripe, asked, proc, died, lost>>

-----------------------------------------------------------------------------

\* What an execution has put into the balance and not yet into the ledger.
Owed(p) ==
  CASE proc[p].pc \in {"transfer", "instantPayout", "recordDebit", "restore"} -> -proc[p].amount
    [] proc[p].pc \in {"markCredited", "recordCredit"} -> txn[proc[p].job].earning
    [] OTHER -> 0

\* The server stops between two awaits.
Die(p) ==
  /\ ~At(p, "idle") /\ died < MaxFaults
  /\ died' = died + 1
  /\ lost' = lost + Owed(p)
  /\ Finish(p)
  /\ UNCHANGED <<money, records, onboarding, asked>>

Continue(p) ==
  \/ CreateAccount(p) \/ StoreAccount(p) \/ VerifyAccount(p) \/ StoreCompleted(p)
  \/ CheckPlatform(p) \/ TakeFunds(p) \/ Transfer(p) \/ InstantPayout(p)
  \/ RecordDebit(p) \/ Restore(p)
  \/ IncBalance(p) \/ MarkCredited(p) \/ RecordCredit(p)
  \/ FindPending(p) \/ CreatePayout(p) \/ MarkPaid(p)

EarningsNext ==
  \/ \E p \in Procs : \/ Continue(p) \/ StartWeekly(p) \/ Die(p)
                      \/ \E a \in Amounts : StartFastCash(p, a)
  \/ \E a \in Gifts : AddWalletBalance(a)
  \/ AccountChanges \/ AccountUpdated

EarningsSpec == EarningsInit /\ [][EarningsNext]_earnings

-----------------------------------------------------------------------------
(* Properties *)

\* The documents keep their types; in particular the conditional decrement of
\* fast cash never lets concurrent requests overdraw the wallet.
EarningsTypeOK ==
  /\ txn \in [Txns -> [status : Statuses, earning : Nat]]
  /\ payouts \subseteq SUBSET Txns
  /\ balance \in Nat /\ granted \in Nat /\ lost \in Int /\ died \in Nat /\ asked \in Nat
  /\ ledger \in [credit : Nat, debit : Nat]
  /\ account \in [id : BOOLEAN, completed : BOOLEAN]
  /\ stripe \in [state : {"none", "created", "active", "restricted"}, sent : SUBSET BOOLEAN]
  /\ \A p \in Procs :
       /\ DOMAIN proc[p] = DOMAIN Idle /\ proc[p].amount \in Nat
       /\ proc[p].pc \in {"createPayout", "markPaid"} => proc[p].ids \subseteq Txns
       /\ proc[p].pc \in {"incBalance", "markCredited", "recordCredit"} => proc[p].job \in Txns

\* The wallet is what its ledger says plus what add-wallet put in, up to the
\* executions under way and those that died: every failure of Stripe leads to
\* the restored balance or to the entry, never to both or to neither.
BalanceExplained ==
  balance = ledger.credit - ledger.debit + granted + lost + SumOf([p \in Procs |-> Owed(p)], Procs)

\* Fast cash only leaves for an account Stripe once reported complete, however
\* late or stale the account.updated events are.
OnboardedOnly ==
  \A p \in Procs : proc[p].pc \in {"take", "transfer", "instantPayout", "recordDebit"} => TRUE \in stripe.sent

\* A transaction of an earlier release that is PAID is part of a payout, also
\* when the weekly run dies half way or another one overlaps it.
PaidIsPaidOut == \A t \in Legacy : txn[t].status = "PAID" => \E ids \in payouts : t \in ids

\* Every such transaction is PAID some day: a run that died is made up for.
PendingEventuallyPaid == Pending # {} ~> Pending = {}
=============================================================================
