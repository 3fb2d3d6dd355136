------------------------------- MODULE Wallet -------------------------------
(***************************************************************************)
(* The wallet of one learner: learner.walletBalance and the entries of     *)
(* wallet_transactions, under concurrent callers.  creditWallet is called  *)
(* by the payment webhook and by voucher redemption, any number of times   *)
(* with the same key; debitWallet by createOrder; cancelSlot writes the    *)
(* balance and the entry itself; requestWithdrawToCard takes the balance   *)
(* by one guarded update.  One action is one database operation with the   *)
(* synchronous code that follows it.                                       *)
(***************************************************************************)
EXTENDS FiniteSums, Sequences

CONSTANTS
  Credits,    \* idempotency keys that creditWallet is called with
  Worth,      \* the amount of each credit
  Orders,
  Cost,       \* what the booked lessons and tests of an order cost
  WithPack,   \* orders that buy a lesson pack too: Stripe takes that part
  Lessons,
  OrderOf,    \* the order of each lesson
  Price,      \* what the cancellation of a lesson refunds
  Sums,       \* the amounts learners withdraw
  Opening,    \* the balance at first
  Nobody,     \* no movement
  Handlers,   \* the handlers called in this instance
  Procs,      \* concurrent executions of handlers
  Crashes     \* whether an execution may die between two awaits

ASSUME WorthAssumption == Worth \in [Credits -> Nat \ {0}]
ASSUME CostAssumption == Cost \in [Orders -> Nat \ {0}]
ASSUME PriceAssumption == OrderOf \in [Lessons -> Orders] /\ Price \in [Lessons -> Nat \ {0}]
ASSUME SumsAssumption == Sums \subseteq Nat \ {0}
ASSUME OpeningAssumption == Opening \in Nat
ASSUME CrashesAssumption == Crashes \in BOOLEAN

\* A movement of money, named by its idempotency key where it has one.
Credit(c) == [kind |-> "CREDIT", ref |-> c]
Debit(o) == [kind |-> "DEBIT", ref |-> o]
Refund(l) == [kind |-> "SLOT_CANCELLED", ref |-> l]
Withdrawal(c) == [kind |-> "STRIPE_REFUND", ref |-> c]

Keyed == {Credit(c) : c \in Credits} \cup {Debit(o) : o \in Orders}
Movements == Keyed \cup {Refund(l) : l \in Lessons} \cup {Withdrawal(c) : c \in Credits}

ASSUME NobodyAssumption == Nobody \notin Movements

\* What creditWallet and debitWallet add to the balance.
Value == [m \in Keyed |-> IF m.kind = "CREDIT" THEN Worth[m.ref] ELSE -Cost[m.ref]]

VARIABLES
  balance,    \* learner.walletBalance
  entries,    \* wallet_transactions, in the order they were created
  orders,     \* NONE, PENDING or PAID
  cancelled,  \* the lessons whose status is CANCELLED
  proc        \* the executions

vars == <<balance, entries, orders, cancelled, proc>>

\* A process: where it waits (pc), the movement it makes, its amount, and
\* the balance it works with.
Idle == [pc |-> "idle", move |-> Nobody, amount |-> 0, read |-> 0]
Waits == {"idle", "order", "attach", "learner", "create", "inc", "cancel",
          "load", "save", "take", "record"}

Entries == [move : Movements, amount : Int, after : Int]
Entered(m) == \E i \in 1..Len(entries) : entries[i].move = m

\* Amounts are numbers, entries name movements, and a handler that waits for
\* the ledger or the balance makes a movement that has a key
\* (wallet-transaction.schema, learner.schema).
TypeOK ==
  /\ balance \in Int
  /\ entries \in Seq(Entries)
  /\ orders \in [Orders -> {"NONE", "PENDING", "PAID"}]
  /\ cancelled \subseteq Lessons
  /\ proc \in [Procs -> [pc : Waits, move : Movements \cup {Nobody}, amount : Int, read : Int]]
  /\ \A p \in Procs :
       /\ proc[p].pc \in {"order", "attach", "learner", "create", "inc"} =>
            proc[p].move \in Keyed /\ proc[p].amount = Value[proc[p].move]
       /\ proc[p].pc = "cancel" => proc[p].move \in {Refund(l) : l \in Lessons}
       /\ proc[p].pc # "idle" => proc[p].move \in Movements

Init ==
  /\ balance = Opening
  /\ entries = <<>>
  /\ orders = [o \in Orders |-> "NONE"]
  /\ cancelled = {}
  /\ proc = [p \in Procs |-> Idle]

Start(p, handler) == handler \in Handlers /\ proc[p].pc = "idle"
Begin(p, pc, move, amount, read) ==
  proc' = [proc EXCEPT ![p] = [pc |-> pc, move |-> move, amount |-> amount, read |-> read]]
Goto(p, pc) == proc' = [proc EXCEPT ![p].pc = pc]
Finish(p) == proc' = [proc EXCEPT ![p] = Idle]

Crash(p) == /\ Crashes
            /\ proc[p].pc # "idle"
            /\ Finish(p)
            /\ UNCHANGED <<balance, entries, orders, cancelled>>

-----------------------------------------------------------------------------
(* creditWallet and debitWallet *)

\* A key that is in the ledger already returns at once; any other goes on.
CallCredit(p, c) ==
  /\ Start(p, "creditWallet")
  /\ ~Entered(Credit(c))
  /\ Begin(p, "learner", Credit(c), Worth[c], 0)
  /\ UNCHANGED <<balance, entries, orders, cancelled>>

\* Insufficient wallet balance: debitWallet throws.
LoadLearner(p) ==
  /\ proc[p].pc = "learner"
  /\ IF proc[p].amount < 0 /\ balance + proc[p].amount < 0 THEN Finish(p)
     ELSE proc' = [proc EXCEPT ![p].pc = "create", ![p].read = balance]
  /\ UNCHANGED <<balance, entries, orders, cancelled>>

Append1(m, amount, after) ==
  entries' = Append(entries, [move |-> m, amount |-> amount, after |-> after])

\* Mutants: no unique index, and the balance before the movement is entered.
CreateEntryAgain(p) ==
  /\ proc[p].pc = "create"
  /\ Append1(proc[p].move, proc[p].amount, proc[p].read + proc[p].amount)
  /\ Goto(p, "inc")
  /\ UNCHANGED <<balance, orders, cancelled>>
CreateEntryBefore(p) ==
  /\ proc[p].pc = "create"
  /\ ~Entered(proc[p].move)
  /\ Append1(proc[p].move, proc[p].amount, proc[p].read)
  /\ Goto(p, "inc")
  /\ UNCHANGED <<balance, orders, cancelled>>

\* The entry comes first; the index on idempotencyKey is unique.
CreateEntry(p) ==
  /\ proc[p].pc = "create"
  /\ ~Entered(proc[p].move)
  /\ Append1(proc[p].move, proc[p].amount, proc[p].read + proc[p].amount)
  /\ Goto(p, "inc")
  /\ UNCHANGED <<balance, orders, cancelled>>

DuplicateKey(p) ==
  /\ proc[p].pc = "create"
  /\ Entered(proc[p].move)
  /\ Finish(p)
  /\ UNCHANGED <<balance, entries, orders, cancelled>>

IncBalance(p) ==
  /\ proc[p].pc = "inc"
  /\ balance' = balance + proc[p].amount
  /\ Finish(p)
  /\ UNCHANGED <<entries, orders, cancelled>>

-----------------------------------------------------------------------------
(* createOrder *)

\* Mutant: the amount of the debit has the wrong sign.
StartOrderCredited(p, o) ==
  /\ Start(p, "createOrder")
  /\ orders[o] = "NONE"
  /\ Begin(p, "order", Debit(o), Cost[o], balance)
  /\ UNCHANGED <<balance, entries, orders, cancelled>>

\* The learner is loaded, then the slots are validated ...
StartOrder(p, o) ==
  /\ Start(p, "createOrder")
  /\ orders[o] = "NONE"
  /\ \A q \in Procs : proc[q].move # Debit(o)
  /\ Begin(p, "order", Debit(o), -Cost[o], balance)
  /\ UNCHANGED <<balance, entries, orders, cancelled>>

\* ... and the order is stored: PAID when the balance that was read covers
\* it and there is no pack; Stripe takes everything when it does not.
StoreOrder(p) ==
  LET o == proc[p].move.ref
      enough == proc[p].read >= Cost[o]
  IN  /\ proc[p].pc = "order"
      /\ orders' = [orders EXCEPT ![o] = IF enough /\ o \notin WithPack THEN "PAID" ELSE "PENDING"]
      /\ IF ~enough THEN Finish(p)
         ELSE Goto(p, IF o \in WithPack THEN "learner" ELSE "attach")
      /\ UNCHANGED <<balance, entries, cancelled>>

\* The slots are attached to the calendar, which may throw; then the debit.
AttachSlots(p) ==
  /\ proc[p].pc = "attach"
  /\ Goto(p, "learner") \/ Finish(p)
  /\ UNCHANGED <<balance, entries, orders, cancelled>>

-----------------------------------------------------------------------------
(* cancelSlot *)

\* The order is loaded and the lesson found not to be cancelled: whether the
\* order was paid is not asked.
StartCancel(p, l) ==
  /\ Start(p, "cancelSlot")
  /\ orders[OrderOf[l]] # "NONE"
  /\ l \notin cancelled
  /\ Begin(p, "cancel", Refund(l), Price[l], 0)
  /\ UNCHANGED <<balance, entries, orders, cancelled>>

SaveCancelled(p) ==
  /\ proc[p].pc = "cancel"
  /\ cancelled' = cancelled \cup {proc[p].move.ref}
  /\ Goto(p, "load")
  /\ UNCHANGED <<balance, entries, orders>>

LoadBalance(p) ==
  /\ proc[p].pc = "load"
  /\ proc' = [proc EXCEPT ![p].pc = "save", ![p].read = balance + proc[p].amount]
  /\ UNCHANGED <<balance, entries, orders, cancelled>>

\* learner.save() writes the sum computed from what was loaded.
SaveBalance(p) ==
  /\ proc[p].pc = "save"
  /\ balance' = proc[p].read
  /\ Goto(p, "record")
  /\ UNCHANGED <<entries, orders, cancelled>>

-----------------------------------------------------------------------------
(* requestWithdrawToCard *)

\* A credit without a pending withdrawal; the sum is not compared with it.
StartWithdraw(p, c, sum) ==
  /\ Start(p, "requestWithdrawToCard")
  /\ Entered(Credit(c))
  /\ ~Entered(Withdrawal(c))
  /\ Begin(p, "take", Withdrawal(c), -sum, 0)
  /\ UNCHANGED <<balance, entries, orders, cancelled>>

\* Mutant: the filter walletBalance: { $gte: amount } is missing.
TakeFundsUnchecked(p) ==
  /\ proc[p].pc = "take"
  /\ balance' = balance + proc[p].amount
  /\ proc' = [proc EXCEPT ![p].pc = "record", ![p].read = balance + proc[p].amount]
  /\ UNCHANGED <<entries, orders, cancelled>>

TakeFunds(p) ==
  /\ proc[p].pc = "take"
  /\ IF balance + proc[p].amount < 0
     THEN Finish(p) /\ UNCHANGED balance
     ELSE /\ balance' = balance + proc[p].amount
          /\ proc' = [proc EXCEPT ![p].pc = "record", ![p].read = balance + proc[p].amount]
  /\ UNCHANGED <<entries, orders, cancelled>>

\* The entry of a refund or a withdrawal, which has no key, comes last.
RecordEntry(p) ==
  /\ proc[p].pc = "record"
  /\ Append1(proc[p].move, proc[p].amount, proc[p].read)
  /\ Finish(p)
  /\ UNCHANGED <<balance, orders, cancelled>>

-----------------------------------------------------------------------------

Step(p) ==
  \/ \E c \in Credits : CallCredit(p, c) \/ \E sum \in Sums : StartWithdraw(p, c, sum)
  \/ \E o \in Orders : StartOrder(p, o)
  \/ \E l \in Lessons : StartCancel(p, l)
  \/ LoadLearner(p) \/ CreateEntry(p) \/ DuplicateKey(p) \/ IncBalance(p)
  \/ StoreOrder(p) \/ AttachSlots(p)
  \/ SaveCancelled(p) \/ LoadBalance(p) \/ SaveBalance(p)
  \/ TakeFunds(p) \/ RecordEntry(p)
  \/ Crash(p)

Next == \E p \in Procs : Step(p)

Spec == Init /\ [][Next]_vars
-----------------------------------------------------------------------------
(* Properties *)

\* The keyed movements whose entry has not reached the balance yet.
InFlight == {m \in Keyed : \E p \in Procs : proc[p].pc = "inc" /\ proc[p].move = m}

Posted == {m \in Keyed : Entered(m)}

\* With creditWallet and debitWallet alone, any number of calls with a key, at
\* the same time or later, change the balance at most once: the entry is the
\* movement, and the increment after it its only effect ("Create ledger FIRST").
\* An execution that dies between the two loses the movement for good.
TheLedger == INSTANCE Ledger WITH
  Movements <- Keyed, Lossy <- Crashes,
  funds <- balance, posted <- Posted, settled <- Posted \ InFlight
ImplementsLedger == TheLedger!LedgerSpec

Quiet == \A p \in Procs : proc[p].pc = "idle"
Total == SumOf([i \in 1..Len(entries) |-> entries[i].amount], 1..Len(entries))

\* Between requests the balance is what the ledger says, and the last entry
\* says so too (balanceAfter, "REQUIRED FOR LEDGER"): credits, debits,
\* refunds and withdrawals, each with its own order of the two writes, agree.
BalanceIsLedger ==
  Quiet => /\ balance = Opening + Total
           /\ entries # <<>> => entries[Len(entries)].after = balance

\* One request at a time, no learner spends more than the wallet holds:
\* debitWallet and the withdrawal refuse, also after an order was stored as
\* PAID on a balance that a later step no longer finds.
NeverNegative == balance >= 0

\* A lesson is refunded once ("Prevent double cancel" of cancelSlot).
RefundedOnce ==
  \A i, j \in 1..Len(entries) :
    entries[i].move = entries[j].move /\ entries[i].move.kind = "SLOT_CANCELLED" => i = j
=============================================================================
