---------------------------- MODULE WalletProofs ----------------------------
(***************************************************************************)
(* Theorems about Wallet: type correctness, that its credits and debits    *)
(* implement the ledger, and that a wallet used by one request at a time   *)
(* is never overdrawn and agrees with the entries of its ledger.           *)
(***************************************************************************)
EXTENDS Wallet, FiniteSumsProofs

\* Every movement is a movement, and the keyed ones have a value.
LEMMA KeyedType ==
  /\ \A c \in Credits : Credit(c) \in Keyed /\ Value[Credit(c)] = Worth[c]
  /\ \A o \in Orders : Debit(o) \in Keyed /\ Value[Debit(o)] = -Cost[o]
  /\ Keyed \subseteq Movements
  /\ Value \in [Keyed -> Int]
<1>1. \A c \in Credits : Credit(c) \in Keyed /\ Value[Credit(c)] = Worth[c]
  BY DEF Keyed, Value, Credit, Debit
<1>2. \A o \in Orders : Debit(o) \in Keyed /\ Value[Debit(o)] = -Cost[o]
  BY DEF Keyed, Value, Credit, Debit
<1>3. ASSUME NEW m \in Keyed PROVE Value[m] \in Int
  <2>1. CASE \E c \in Credits : m = Credit(c)
    BY <2>1, <1>1, WorthAssumption
  <2>2. CASE \E o \in Orders : m = Debit(o)
    BY <2>2, <1>2, CostAssumption
  <2> QED BY <2>1, <2>2 DEF Keyed
<1>4. Value \in [Keyed -> Int]
  BY <1>3 DEF Value
<1> QED BY <1>1, <1>2, <1>4 DEF Movements

\* The entry that is appended is one of the schema's.
LEMMA AppendType ==
  ASSUME entries \in Seq(Entries), NEW m \in Movements, NEW amount \in Int, NEW after \in Int,
         Append1(m, amount, after)
  PROVE  /\ entries' \in Seq(Entries)
         /\ \A x : Entered(x)' <=> Entered(x) \/ x = m
<1> DEFINE e == [move |-> m, amount |-> amount, after |-> after]
<1>1. e \in Entries
  BY DEF Entries
<1>2. entries' = Append(entries, e)
  BY DEF Append1
<1>3. entries' \in Seq(Entries) /\ Len(entries') = Len(entries) + 1 /\ Len(entries) \in Nat
  BY <1>1, <1>2
<1>4. \A i \in 1..Len(entries) : entries'[i] = entries[i]
  BY <1>1, <1>2
<1>5. entries'[Len(entries) + 1] = e
  BY <1>1, <1>2
<1>6. \A x : Entered(x) \/ x = m => Entered(x)'
  BY <1>3, <1>4, <1>5 DEF Entered
<1>7. \A x : Entered(x)' => Entered(x) \/ x = m
  BY <1>3, <1>4, <1>5 DEF Entered
<1> QED BY <1>3, <1>6, <1>7

\* What a process is, and what TypeOK asks of it.
Processes == [pc : Waits, move : Movements \cup {Nobody}, amount : Int, read : Int]
Fits(x) == /\ x \in Processes
           /\ x.pc \in {"order", "attach", "learner", "create", "inc"} =>
                x.move \in Keyed /\ x.amount = Value[x.move]
           /\ x.pc = "cancel" => x.move \in {Refund(l) : l \in Lessons}
           /\ x.pc # "idle" => x.move \in Movements

\* An idle process fits.
LEMMA IdleFits == Fits(Idle)
BY DEF Fits, Idle, Processes, Waits

\* The parts of the state other than the processes.
Stores == /\ balance \in Int
          /\ entries \in Seq(Entries)
          /\ orders \in [Orders -> {"NONE", "PENDING", "PAID"}]
          /\ cancelled \subseteq Lessons

\* TypeOK says that the stores are typed and that each process fits.
LEMMA TypeParts ==
  TypeOK <=> Stores /\ proc = [p \in Procs |-> proc[p]] /\ \A p \in Procs : Fits(proc[p])
BY DEF TypeOK, Stores, Fits, Processes

\* A step that replaces one process by one that fits keeps the types.
LEMMA StepType ==
  ASSUME TypeOK, NEW p \in Procs, NEW x, Fits(x), proc' = [proc EXCEPT ![p] = x], Stores'
  PROVE  TypeOK'
<1>1. proc' = [q \in Procs |-> proc'[q]] /\ \A q \in Procs : Fits(proc'[q])
  BY TypeParts
<1> QED BY <1>1, TypeParts DEF TypeOK, Stores, Fits, Processes

\* The step of an execution that goes on: only its place and what it has read
\* change.
LEMMA MoveOn ==
  ASSUME TypeOK, NEW p \in Procs, NEW pc \in Waits, NEW read \in Int, Stores',
         proc' = [proc EXCEPT ![p].pc = pc, ![p].read = read],
         pc \in {"learner", "create", "inc"} =>
           proc[p].pc \in {"order", "attach", "learner", "create", "inc"},
         pc \notin {"order", "attach", "cancel"}, proc[p].pc # "idle"
  PROVE  TypeOK'
<1> DEFINE x == [proc[p] EXCEPT !.pc = pc, !.read = read]
<1>1. Fits(proc[p]) /\ proc = [q \in Procs |-> proc[q]]
  BY TypeParts
<1>2. Fits(x)
  BY <1>1 DEF Fits, Processes
<1>3. proc' = [proc EXCEPT ![p] = x]
  BY <1>1
<1> QED BY <1>2, <1>3, StepType

\* Going on without reading anything.
LEMMA GoOn ==
  ASSUME TypeOK, NEW p \in Procs, NEW pc \in Waits, Stores', Goto(p, pc),
         pc \in {"learner", "create", "inc", "attach"} =>
           proc[p].pc \in {"order", "attach", "learner", "create", "inc"},
         pc \notin {"order", "cancel"}, proc[p].pc # "idle"
  PROVE  TypeOK'
<1> DEFINE x == [proc[p] EXCEPT !.pc = pc]
<1>1. Fits(proc[p]) /\ proc = [q \in Procs |-> proc[q]]
  BY TypeParts
<1>2. Fits(x)
  BY <1>1 DEF Fits, Processes
<1>3. proc' = [proc EXCEPT ![p] = x]
  BY <1>1 DEF Goto
<1> QED BY <1>2, <1>3, StepType

\* An execution that ends, in a step that keeps the stores typed.
LEMMA EndType == ASSUME TypeOK, NEW p \in Procs, Stores', Finish(p) PROVE TypeOK'
BY IdleFits, StepType DEF Finish

\* What TypeOK says of one execution.
LEMMA OneProcess ==
  ASSUME TypeOK, NEW p \in Procs
  PROVE  /\ Stores
         /\ proc[p].amount \in Int /\ proc[p].read \in Int
         /\ proc[p].pc \in {"order", "attach", "learner", "create", "inc"} =>
              proc[p].move \in Keyed /\ proc[p].amount = Value[proc[p].move]
         /\ proc[p].pc = "cancel" => proc[p].move \in {Refund(l) : l \in Lessons}
         /\ proc[p].pc # "idle" => proc[p].move \in Movements
BY TypeParts DEF Fits, Processes

\* The steps of creditWallet and debitWallet keep the types.
LEMMA LedgerStepType ==
  ASSUME TypeOK, NEW p \in Procs,
         (\E c \in Credits : CallCredit(p, c)) \/ LoadLearner(p) \/ CreateEntry(p)
           \/ DuplicateKey(p) \/ IncBalance(p)
  PROVE  TypeOK'
<1>0. Stores /\ proc[p].amount \in Int /\ proc[p].read \in Int
  BY OneProcess
<1>1. ASSUME NEW c \in Credits, CallCredit(p, c) PROVE TypeOK'
  <2> DEFINE x == [pc |-> "learner", move |-> Credit(c), amount |-> Worth[c], read |-> 0]
  <2>0. Credit(c) \in Keyed /\ Credit(c) \in Movements /\ Value[Credit(c)] = Worth[c]
        /\ Worth[c] \in Int
    BY KeyedType, WorthAssumption
  <2>1. Fits(x)
    BY <2>0, KeyedType DEF Fits, Processes, Waits
  <2>2. Stores' /\ proc' = [proc EXCEPT ![p] = x]
    BY <1>0, <1>1 DEF CallCredit, Begin, Stores
  <2> QED BY <2>1, <2>2, StepType
<1>2. CASE LoadLearner(p)
  <2>1. Stores' /\ balance \in Int
    BY <1>0, <1>2 DEF LoadLearner, Stores
  <2>2. CASE Finish(p)
    BY <2>1, <2>2, EndType
  <2>3. CASE proc' = [proc EXCEPT ![p].pc = "create", ![p].read = balance]
    BY <2>1, <2>3, <1>2, MoveOn DEF LoadLearner, Waits
  <2> QED BY <2>2, <2>3, <1>2 DEF LoadLearner
<1>3. CASE CreateEntry(p)
  <2>1. proc[p].move \in Movements /\ proc[p].read + proc[p].amount \in Int
    BY <1>0, <1>3, OneProcess, KeyedType DEF CreateEntry
  <2>2. Stores'
    BY <1>0, <1>3, <2>1, AppendType DEF CreateEntry, Stores
  <2> QED BY <2>2, <1>3, GoOn DEF CreateEntry, Waits
<1>4. CASE DuplicateKey(p)
  BY <1>0, <1>4, EndType DEF DuplicateKey, Stores
<1>5. CASE IncBalance(p)
  <2>1. Stores'
    BY <1>0, <1>5 DEF IncBalance, Stores
  <2> QED BY <2>1, <1>5, EndType DEF IncBalance
<1> QED BY <1>1, <1>2, <1>3, <1>4, <1>5

\* The steps of createOrder up to the debit keep the types.
LEMMA OrderStepType ==
  ASSUME TypeOK, NEW p \in Procs,
         (\E o \in Orders : StartOrder(p, o)) \/ StoreOrder(p) \/ AttachSlots(p)
  PROVE  TypeOK'
<1>0. Stores /\ proc[p].read \in Int
  BY OneProcess
<1>1. ASSUME NEW o \in Orders, StartOrder(p, o) PROVE TypeOK'
  <2> DEFINE x == [pc |-> "order", move |-> Debit(o), amount |-> -Cost[o],
                read |-> balance]
  <2>1. Fits(x)
    BY <1>0, KeyedType, CostAssumption DEF Fits, Processes, Waits, Stores
  <2>2. Stores' /\ proc' = [proc EXCEPT ![p] = x]
    BY <1>0, <1>1 DEF StartOrder, Begin, Stores
  <2> QED BY <2>1, <2>2, StepType
<1>2. CASE StoreOrder(p)
  <2>1. Stores'
    BY <1>0, <1>2 DEF StoreOrder, Stores
  <2>2. CASE Finish(p)
    BY <2>1, <2>2, EndType
  <2>3. CASE Goto(p, "learner")
    BY <2>1, <2>3, <1>2, GoOn DEF StoreOrder, Waits
  <2>4. CASE Goto(p, "attach")
    BY <2>1, <2>4, <1>2, GoOn DEF StoreOrder, Waits
  <2> QED BY <2>2, <2>3, <2>4, <1>2 DEF StoreOrder
<1>3. CASE AttachSlots(p)
  <2>1. Stores'
    BY <1>0, <1>3 DEF AttachSlots, Stores
  <2>2. CASE Goto(p, "learner")
    BY <2>1, <2>2, <1>3, GoOn DEF AttachSlots, Waits
  <2>3. CASE Finish(p)
    BY <2>1, <2>3, EndType
  <2> QED BY <2>2, <2>3, <1>3 DEF AttachSlots
<1> QED BY <1>1, <1>2, <1>3

\* The steps of cancelSlot and requestWithdrawToCard keep the types.
LEMMA RefundStepType ==
  ASSUME TypeOK, NEW p \in Procs,
         \/ \E l \in Lessons : StartCancel(p, l)
         \/ \E c \in Credits, sum \in Sums : StartWithdraw(p, c, sum)
         \/ SaveCancelled(p) \/ LoadBalance(p) \/ SaveBalance(p)
         \/ TakeFunds(p) \/ RecordEntry(p)
  PROVE  TypeOK'
<1>0. /\ Stores /\ proc[p].amount \in Int /\ proc[p].read \in Int
      /\ balance \in Int /\ balance + proc[p].amount \in Int
  BY OneProcess DEF Stores
<1>1. ASSUME NEW l \in Lessons, StartCancel(p, l) PROVE TypeOK'
  <2> DEFINE x == [pc |-> "cancel", move |-> Refund(l), amount |-> Price[l], read |-> 0]
  <2>0. Refund(l) \in Movements /\ Price[l] \in Int
    BY PriceAssumption DEF Movements
  <2>1. Fits(x)
    BY <2>0, KeyedType DEF Fits, Processes, Waits
  <2>2. Stores' /\ proc' = [proc EXCEPT ![p] = x]
    BY <1>0, <1>1 DEF StartCancel, Begin, Stores
  <2> QED BY <2>1, <2>2, StepType
<1>2. ASSUME NEW c \in Credits, NEW sum \in Sums, StartWithdraw(p, c, sum) PROVE TypeOK'
  <2> DEFINE x == [pc |-> "take", move |-> Withdrawal(c), amount |-> -sum, read |-> 0]
  <2>0. Withdrawal(c) \in Movements /\ -sum \in Int
    BY SumsAssumption DEF Movements
  <2>1. Fits(x)
    BY <2>0, KeyedType DEF Fits, Processes, Waits
  <2>2. Stores' /\ proc' = [proc EXCEPT ![p] = x]
    BY <1>0, <1>2 DEF StartWithdraw, Begin, Stores
  <2> QED BY <2>1, <2>2, StepType
<1>3. CASE SaveCancelled(p)
  <2>1. PICK l \in Lessons : proc[p].move = Refund(l)
    BY <1>3, OneProcess DEF SaveCancelled
  <2>2. Stores'
    BY <1>0, <1>3, <2>1 DEF SaveCancelled, Stores, Refund
  <2> QED BY <2>2, <1>3, GoOn DEF SaveCancelled, Waits
<1>4. CASE LoadBalance(p)
  <2>1. Stores'
    BY <1>0, <1>4 DEF LoadBalance, Stores
  <2>2. proc' = [proc EXCEPT ![p].pc = "save", ![p].read = balance + proc[p].amount]
    BY <1>4 DEF LoadBalance
  <2> QED BY <1>0, <1>4, <2>1, <2>2, MoveOn DEF LoadBalance, Waits
<1>5. CASE SaveBalance(p)
  <2>1. Stores'
    BY <1>0, <1>5 DEF SaveBalance, Stores
  <2> QED BY <2>1, <1>5, GoOn DEF SaveBalance, Waits
<1>6. CASE TakeFunds(p)
  <2>1. Stores'
    BY <1>0, <1>6 DEF TakeFunds, Stores
  <2>2. CASE Finish(p)
    BY <2>1, <2>2, EndType
  <2>3. CASE proc' = [proc EXCEPT ![p].pc = "record", ![p].read = balance + proc[p].amount]
    BY <1>0, <1>6, <2>1, <2>3, MoveOn DEF TakeFunds, Waits
  <2> QED BY <2>2, <2>3, <1>6 DEF TakeFunds
<1>7. CASE RecordEntry(p)
  <2>1. proc[p].move \in Movements
    BY <1>7, OneProcess DEF RecordEntry
  <2>2. Stores'
    BY <1>0, <1>7, <2>1, AppendType DEF RecordEntry, Stores
  <2> QED BY <2>2, <1>7, EndType DEF RecordEntry
<1> QED BY <1>1, <1>2, <1>3, <1>4, <1>5, <1>6, <1>7

\* A step of an execution keeps the types.
LEMMA AnyStepType == ASSUME TypeOK, NEW p \in Procs, Step(p) PROVE TypeOK'
<1>1. CASE Crash(p)
  <2>1. Stores'
    BY <1>1, OneProcess DEF Crash, Stores
  <2> QED BY <2>1, <1>1, EndType DEF Crash
<1> QED BY <1>1, LedgerStepType, OrderStepType, RefundStepType DEF Step

\* The wallet keeps its types, for any handlers, executions and movements.
THEOREM TypeCorrect == Spec => []TypeOK
<1>1. Init => TypeOK
  <2> SUFFICES ASSUME Init PROVE TypeOK
    OBVIOUS
  <2>1. Stores
    BY OpeningAssumption DEF Init, Stores
  <2>2. proc = [p \in Procs |-> proc[p]] /\ \A p \in Procs : Fits(proc[p])
    BY IdleFits DEF Init
  <2> QED BY <2>1, <2>2, TypeParts
<1>2. TypeOK /\ [Next]_vars => TypeOK'
  <2> SUFFICES ASSUME TypeOK, [Next]_vars PROVE TypeOK'
    OBVIOUS
  <2>1. CASE Next
    BY <2>1, AnyStepType DEF Next
  <2>2. CASE UNCHANGED vars
    BY <2>2 DEF vars, TypeOK
  <2> QED BY <2>1, <2>2
<1> QED BY <1>1, <1>2, PTL DEF Spec

-----------------------------------------------------------------------------
(* The wallet of one request at a time *)

\* A handler that is about to write the balance leaves it at zero or more.
Covered(x) == /\ x.pc \in {"create", "inc"} => balance + x.amount >= 0
              /\ x.pc \in {"cancel", "load"} => x.amount >= 0
              /\ x.pc = "save" => x.read >= 0

Solvent == balance >= 0 /\ \A p \in Procs : Covered(proc[p])

\* The balance after the step of the only execution.
LEMMA SolventStep ==
  ASSUME TypeOK, Solvent, NEW p \in Procs, \A q \in Procs : q = p, Step(p)
  PROVE  Solvent'
<1>0. /\ balance \in Int /\ proc[p].amount \in Int /\ proc[p].read \in Int
      /\ balance >= 0 /\ Covered(proc[p])
  BY OneProcess DEF Stores, Solvent
<1> SUFFICES balance' >= 0 /\ Covered(proc[p])'
  BY DEF Solvent, Covered
<1>f. ASSUME Finish(p) PROVE Covered(proc[p])'
  BY <1>f, TypeOK DEF TypeOK, Finish, Idle, Covered
<1>p. proc = [q \in Procs |-> proc[q]] /\ Fits(proc[p])
  BY TypeParts
<1>1. ASSUME NEW c \in Credits, CallCredit(p, c) PROVE balance' >= 0 /\ Covered(proc[p])'
  BY <1>0, <1>1, <1>p DEF CallCredit, Begin, Covered
<1>2. ASSUME NEW c \in Credits, NEW sum \in Sums, StartWithdraw(p, c, sum)
      PROVE  balance' >= 0 /\ Covered(proc[p])'
  BY <1>0, <1>2, <1>p DEF StartWithdraw, Begin, Covered
<1>3. ASSUME NEW o \in Orders, StartOrder(p, o) PROVE balance' >= 0 /\ Covered(proc[p])'
  BY <1>0, <1>3, <1>p DEF StartOrder, Begin, Covered
<1>4. ASSUME NEW l \in Lessons, StartCancel(p, l) PROVE balance' >= 0 /\ Covered(proc[p])'
  BY <1>0, <1>4, <1>p, PriceAssumption DEF StartCancel, Begin, Covered
<1>5. CASE LoadLearner(p)
  <2>1. CASE Finish(p)
    BY <2>1, <1>0, <1>5, <1>f DEF LoadLearner
  <2>2. CASE ~Finish(p)
    <3>1. proc'[p] = [proc[p] EXCEPT !.pc = "create", !.read = balance]
      BY <2>2, <1>5 DEF LoadLearner, TypeOK
    <3>2. balance + proc[p].amount >= 0
      BY <2>2, <1>0, <1>5 DEF LoadLearner
    <3>3. proc'[p].pc = "create" /\ proc'[p].amount = proc[p].amount /\ balance' = balance
      BY <3>1, <1>5, TypeParts DEF LoadLearner, Fits, Processes
    <3> QED BY <1>0, <3>2, <3>3 DEF Covered
  <2> QED BY <2>1, <2>2
<1>6. CASE CreateEntry(p)
  <2>1. proc'[p].pc = "inc" /\ proc'[p].amount = proc[p].amount /\ balance' = balance
    BY <1>6, <1>p DEF Goto, CreateEntry, Fits, Processes
  <2> QED BY <1>0, <1>6, <2>1 DEF CreateEntry, Covered
<1>7. CASE DuplicateKey(p)
  BY <1>0, <1>7, <1>f DEF DuplicateKey
<1>8. CASE IncBalance(p)
  BY <1>0, <1>8, <1>f DEF IncBalance, Covered
<1>9. CASE StoreOrder(p)
  <2>1. balance' = balance
    BY <1>9 DEF StoreOrder
  <2>2. CASE Goto(p, "learner")
    BY <2>2, <1>0, <1>p, <2>1 DEF Goto, Fits, Processes, Covered
  <2>3. CASE Goto(p, "attach")
    BY <2>3, <1>0, <1>p, <2>1 DEF Goto, Fits, Processes, Covered
  <2> QED BY <1>0, <1>9, <1>f, <2>1, <2>2, <2>3 DEF StoreOrder
<1>10. CASE AttachSlots(p)
  <2>1. balance' = balance
    BY <1>10 DEF AttachSlots
  <2>2. CASE Goto(p, "learner")
    BY <2>2, <1>0, <1>p, <2>1 DEF Goto, Fits, Processes, Covered
  <2> QED BY <1>0, <1>10, <1>f, <2>1, <2>2 DEF AttachSlots
<1>11. CASE SaveCancelled(p)
  <2>1. proc'[p].pc = "load" /\ proc'[p].amount = proc[p].amount /\ balance' = balance
    BY <1>11, <1>p DEF Goto, SaveCancelled, Fits, Processes
  <2> QED BY <1>0, <1>11, <2>1 DEF SaveCancelled, Covered
<1>12. CASE LoadBalance(p)
  <2>1. /\ proc'[p] = [proc[p] EXCEPT !.pc = "save", !.read = balance + proc[p].amount]
        /\ balance' = balance
    BY <1>12 DEF LoadBalance, TypeOK
  <2>2. proc'[p].pc = "save" /\ proc'[p].read = balance + proc[p].amount
    BY <2>1, TypeParts DEF Fits, Processes
  <2> QED BY <1>0, <1>12, <2>1, <2>2 DEF LoadBalance, Covered
<1>13. CASE SaveBalance(p)
  <2>1. proc'[p].pc = "record" /\ balance' = proc[p].read
    BY <1>13, <1>p DEF Goto, SaveBalance, Fits, Processes
  <2> QED BY <1>0, <1>13, <2>1 DEF SaveBalance, Covered
<1>14. CASE TakeFunds(p)
  <2>1. CASE balance + proc[p].amount < 0
    BY <2>1, <1>0, <1>14, <1>f DEF TakeFunds
  <2>2. CASE ~(balance + proc[p].amount < 0)
    <3>1. proc'[p] = [proc[p] EXCEPT !.pc = "record", !.read = balance + proc[p].amount]
      BY <2>2, <1>14 DEF TakeFunds, TypeOK
    <3>2. proc'[p].pc = "record" /\ balance' = balance + proc[p].amount
      BY <2>2, <3>1, <1>14, TypeParts DEF TakeFunds, Fits, Processes
    <3> QED BY <1>0, <2>2, <3>2 DEF Covered
  <2> QED BY <2>1, <2>2
<1>15. CASE RecordEntry(p)
  BY <1>0, <1>15, <1>f DEF RecordEntry
<1>16. CASE Crash(p)
  BY <1>0, <1>16, <1>f DEF Crash
<1> QED BY <1>1, <1>2, <1>3, <1>4, <1>5, <1>6, <1>7, <1>8, <1>9, <1>10, <1>11, <1>12,
           <1>13, <1>14, <1>15, <1>16 DEF Step

\* One request at a time never overdraws the wallet, with any credits, orders,
\* refunds and withdrawals, also when the process dies between two steps.
THEOREM NeverOverdrawnAlone ==
  ASSUME \A p, q \in Procs : p = q
  PROVE  Spec => []NeverNegative
<1>1. Init => Solvent
  BY OpeningAssumption DEF Init, Solvent, Covered, Idle
<1>2. TypeOK /\ Solvent /\ [Next]_vars => Solvent'
  <2> SUFFICES ASSUME TypeOK, Solvent, [Next]_vars PROVE Solvent'
    OBVIOUS
  <2>1. ASSUME NEW p \in Procs, Step(p) PROVE Solvent'
    BY <2>1, SolventStep
  <2>2. CASE UNCHANGED vars
    BY <2>2 DEF vars, Solvent, Covered
  <2> QED BY <2>1, <2>2 DEF Next
<1>3. Solvent => NeverNegative
  BY DEF Solvent, NeverNegative
<1> QED BY <1>1, <1>2, <1>3, TypeCorrect, PTL DEF Spec

-----------------------------------------------------------------------------
(* Credits and debits implement the ledger *)

\* Where creditWallet and debitWallet alone are called: an execution about to
\* change the balance has made its entry, and is the only one with its key.
Single ==
  /\ \A p \in Procs : proc[p].pc \notin {"cancel", "load", "save", "take", "record"}
  /\ \A p \in Procs : proc[p].pc = "inc" => Entered(proc[p].move)
  /\ \A p, q \in Procs :
       proc[p].pc = "inc" /\ proc[q].pc = "inc" /\ proc[p].move = proc[q].move => p = q

\* Every step of the wallet is one of the ledger, or none.
LedgerStep == [TheLedger!LedgerNext]_(TheLedger!ledger)

\* A step that neither enters nor leaves the increment is none of the ledger.
LEMMA StutterStep ==
  ASSUME TypeOK, Single, NEW p \in Procs, NEW x, proc' = [proc EXCEPT ![p] = x],
         proc[p].pc # "inc", x.pc \notin {"inc", "cancel", "load", "save", "take", "record"},
         UNCHANGED <<balance, entries>>
  PROVE  Single' /\ LedgerStep
<1>1. \A q \in Procs : proc'[q] = IF q = p THEN x ELSE proc[q]
  BY DEF TypeOK
<1>2. \A m : Entered(m)' <=> Entered(m)
  BY DEF Entered
<1>3. Single'
  BY <1>1, <1>2 DEF Single
<1>4. InFlight' = InFlight
  BY <1>1 DEF InFlight
<1>5. Posted' = Posted
  BY <1>2 DEF Posted
<1> QED BY <1>3, <1>4, <1>5 DEF LedgerStep, TheLedger!ledger

\* CreateEntry posts the movement.
LEMMA PostStep ==
  ASSUME TypeOK, Single, NEW p \in Procs, CreateEntry(p)
  PROVE  Single' /\ LedgerStep
<1> DEFINE m == proc[p].move
<1>0. /\ m \in Keyed /\ m \in Movements /\ proc[p].amount \in Int
      /\ proc[p].read + proc[p].amount \in Int /\ entries \in Seq(Entries)
  BY OneProcess, KeyedType DEF CreateEntry, Stores
<1>1. \A q \in Procs : /\ proc'[q].pc = IF q = p THEN "inc" ELSE proc[q].pc
                       /\ proc'[q].move = proc[q].move
  BY TypeParts DEF CreateEntry, Goto, Fits, Processes
<1>2. \A y : Entered(y)' <=> Entered(y) \/ y = m
  BY <1>0, AppendType DEF CreateEntry
<1>3. ~Entered(m)
  BY DEF CreateEntry
<1>4. Single'
  BY <1>1, <1>2, <1>3 DEF Single
<1>5. InFlight' = InFlight \cup {m} /\ InFlight \subseteq Posted
  BY <1>0, <1>1 DEF InFlight, Posted, Single, CreateEntry
<1>6. Posted' = Posted \cup {m} /\ m \notin Posted
  BY <1>0, <1>2, <1>3 DEF Posted
<1>7. balance' = balance
  BY DEF CreateEntry
<1>8. TheLedger!Post(m)
  BY <1>5, <1>6, <1>7 DEF TheLedger!Post
<1> QED BY <1>0, <1>4, <1>8 DEF LedgerStep, TheLedger!LedgerNext

\* An execution that leaves the increment settles its movement, or loses it.
LEMMA OverStep ==
  ASSUME TypeOK, Single, NEW p \in Procs, proc[p].pc = "inc", Finish(p), UNCHANGED entries,
         balance' = balance + proc[p].amount \/ (Crashes /\ balance' = balance)
  PROVE  Single' /\ LedgerStep
<1> DEFINE m == proc[p].move
<1>0. m \in Keyed /\ proc[p].amount = Value[m]
  BY OneProcess
<1>1. \A q \in Procs : proc'[q] = IF q = p THEN Idle ELSE proc[q]
  BY DEF TypeOK, Finish
<1>2. \A y : Entered(y)' <=> Entered(y)
  BY DEF Entered
<1>3. Single'
  BY <1>1, <1>2 DEF Single, Idle
<1>4. InFlight' = InFlight \ {m} /\ m \in InFlight
  BY <1>0, <1>1 DEF InFlight, Single, Idle
<1>5. Posted' = Posted /\ m \in Posted
  BY <1>0, <1>2 DEF Posted, Single
<1>6. TheLedger!Settle(m) \/ TheLedger!Lose(m)
  BY <1>0, <1>4, <1>5 DEF TheLedger!Settle, TheLedger!Lose
<1> QED BY <1>0, <1>3, <1>6 DEF LedgerStep, TheLedger!LedgerNext

\* However creditWallet and debitWallet are called and interleaved, and wherever
\* executions die, each key moves the balance at most once.
THEOREM LedgerImplemented ==
  ASSUME Handlers \subseteq {"creditWallet", "createOrder"}
  PROVE  Spec => ImplementsLedger
<1>1. Init => Single /\ TheLedger!LedgerInit
  <2> SUFFICES ASSUME Init PROVE Single /\ TheLedger!LedgerInit
    OBVIOUS
  <2>1. \A m : ~Entered(m)
    BY DEF Init, Entered
  <2>2. Single
    BY DEF Init, Single, Idle
  <2>3. Posted = {}
    BY <2>1 DEF Posted
  <2> QED BY <2>2, <2>3 DEF Init, TheLedger!LedgerInit
<1>2. TypeOK /\ Single /\ [Next]_vars => Single' /\ LedgerStep
  <2> SUFFICES ASSUME TypeOK, Single, [Next]_vars PROVE Single' /\ LedgerStep
    OBVIOUS
  <2>1. ASSUME NEW p \in Procs, Step(p) PROVE Single' /\ LedgerStep
    <3>0. proc = [q \in Procs |-> proc[q]] /\ Fits(proc[p])
      BY TypeParts
    <3>f. ASSUME Finish(p), proc[p].pc # "inc", UNCHANGED <<balance, entries>>
          PROVE  Single' /\ LedgerStep
      BY <3>f, StutterStep DEF Finish, Idle
    <3>1. ASSUME NEW c \in Credits, CallCredit(p, c) PROVE Single' /\ LedgerStep
      BY <3>1, StutterStep DEF CallCredit, Start, Begin
    <3>2. ASSUME NEW o \in Orders, StartOrder(p, o) PROVE Single' /\ LedgerStep
      BY <3>2, StutterStep DEF StartOrder, Start, Begin
    <3>3. CASE LoadLearner(p)
      <4> DEFINE x == [proc[p] EXCEPT !.pc = "create", !.read = balance]
      <4>1. CASE ~Finish(p)
        <5>1. proc' = [proc EXCEPT ![p] = x] /\ x.pc = "create"
          BY <3>0, <3>3, <4>1 DEF LoadLearner, Fits, Processes
        <5> QED BY <5>1, <3>3, StutterStep DEF LoadLearner
      <4> QED BY <4>1, <3>3, <3>f DEF LoadLearner
    <3>4. CASE CreateEntry(p)
      BY <3>4, PostStep
    <3>5. CASE DuplicateKey(p)
      BY <3>5, <3>f DEF DuplicateKey
    <3>6. CASE IncBalance(p)
      <4>1. /\ proc[p].pc = "inc" /\ Finish(p) /\ UNCHANGED entries
            /\ balance' = balance + proc[p].amount
        BY <3>6 DEF IncBalance
      <4> QED BY <4>1, OverStep
    <3>g. ASSUME NEW pc \in {"learner", "attach"}, proc' = [proc EXCEPT ![p].pc = pc],
                 proc[p].pc # "inc", UNCHANGED <<balance, entries>>
          PROVE  Single' /\ LedgerStep
      <4> DEFINE x == [proc[p] EXCEPT !.pc = pc]
      <4>1. proc' = [proc EXCEPT ![p] = x] /\ x.pc = pc
        BY <3>0, <3>g DEF Fits, Processes
      <4> QED BY <4>1, <3>g, StutterStep
    <3>7. CASE StoreOrder(p)
      BY <3>7, <3>f, <3>g DEF StoreOrder, Goto
    <3>8. CASE AttachSlots(p)
      BY <3>8, <3>f, <3>g DEF AttachSlots, Goto
    <3>9. CASE Crash(p)
      <4>1. CASE proc[p].pc = "inc"
        BY <3>9, <4>1, OverStep DEF Crash
      <4> QED BY <3>9, <4>1, <3>f DEF Crash
    <3>10. CASE \E l \in Lessons : StartCancel(p, l)
      BY <3>10 DEF StartCancel, Start
    <3>11. CASE \E c \in Credits, sum \in Sums : StartWithdraw(p, c, sum)
      BY <3>11 DEF StartWithdraw, Start
    <3>12. ~(SaveCancelled(p) \/ LoadBalance(p) \/ SaveBalance(p) \/ TakeFunds(p) \/ RecordEntry(p))
      BY DEF Single, SaveCancelled, LoadBalance, SaveBalance, TakeFunds, RecordEntry
    <3> QED BY <2>1, <3>1, <3>2, <3>3, <3>4, <3>5, <3>6, <3>7, <3>8, <3>9, <3>10, <3>11, <3>12
            DEF Step
  <2>2. CASE UNCHANGED vars
    <3>1. /\ InFlight' = InFlight /\ Posted' = Posted /\ balance' = balance
          /\ \A m : Entered(m)' <=> Entered(m)
      BY <2>2 DEF vars, InFlight, Posted, Entered
    <3>2. Single'
      BY <2>2, <3>1 DEF vars, Single
    <3> QED BY <3>1, <3>2 DEF LedgerStep, TheLedger!ledger
  <2> QED BY <2>1, <2>2 DEF Next
<1>3. LedgerStep <=> [TheLedger!LedgerNext]_(TheLedger!ledger)
  BY DEF LedgerStep
<1> QED BY <1>1, <1>2, <1>3, TypeCorrect, PTL DEF Spec, ImplementsLedger, TheLedger!LedgerSpec

-----------------------------------------------------------------------------
(* The wallet used by one request at a time *)

LastIs(n) == entries # <<>> => entries[Len(entries)].after = n
Agrees(n) == n = Opening + Total /\ LastIs(n)

\* Where the balance and the ledger are, while p makes its movement: creditWallet
\* and debitWallet enter first, the refund and the withdrawal last.
Explains(p) ==
  /\ proc[p].pc \notin {"inc", "record"} => Agrees(balance)
  /\ proc[p].pc = "create" => proc[p].read = balance
  /\ proc[p].pc = "inc" => Agrees(balance + proc[p].amount)
  /\ proc[p].pc = "save" => proc[p].read = balance + proc[p].amount
  /\ proc[p].pc = "record" => proc[p].read = balance /\ Agrees(balance - proc[p].amount)

\* The entry is added to the sum of the ledger.
LEMMA TotalAppend ==
  ASSUME entries \in Seq(Entries), NEW m \in Movements, NEW amount \in Int, NEW after \in Int,
         Append1(m, amount, after)
  PROVE  /\ Total \in Int /\ Total' = Total + amount
         /\ \A n : LastIs(n)' <=> after = n
<1> DEFINE x == [move |-> m, amount |-> amount, after |-> after]
<1>1. x \in Entries /\ entries' = Append(entries, x)
  BY DEF Entries, Append1
<1>2. PICK k \in Nat : k = Len(entries)
  OBVIOUS
<1>3. Len(entries') = k + 1 /\ entries'[k + 1] = x /\ \A i \in 1..k : entries'[i] = entries[i]
  BY <1>1, <1>2
<1>4. ASSUME NEW i \in 1..k PROVE entries[i].amount \in Int
  <2>1. entries[i] \in Entries
    BY <1>2
  <2> QED BY <2>1 DEF Entries
<1>5. PICK f : f = [i \in 1..k |-> entries[i].amount]
  OBVIOUS
<1>6. PICK e : e = [i \in 1..(k + 1) |-> entries'[i].amount]
  OBVIOUS
<1>7. PICK S : S = 1..k
  OBVIOUS
<1>8. IsFiniteSet(S) /\ k + 1 \notin S /\ 1..(k + 1) = S \cup {k + 1}
  <2>1. IsFiniteSet(1..k)
    BY FS_Interval
  <2> QED BY <1>7, <2>1
<1>9. \A i \in S : f[i] = e[i] /\ f[i] \in Int
  BY <1>3, <1>4, <1>5, <1>6, <1>7
<1>10. e[k + 1] = amount
  BY <1>3, <1>6
<1>11. \A i \in S \cup {k + 1} : e[i] \in Int
  BY <1>9, <1>10
<1>12. SumOf(f, S) = SumOf(e, S) /\ SumOf(f, S) \in Int
  BY <1>8, <1>9, SumSame, SumInt
<1>13. SumOf(e, S \cup {k + 1}) = SumOf(e, S) + amount
  <2>1. PICK j : j = k + 1
    OBVIOUS
  <2>2. j \notin S /\ IsFiniteSet(S) /\ \A i \in S \cup {j} : e[i] \in Int
    BY <1>8, <1>11, <2>1
  <2>3. SumOf(e, S \cup {j}) = SumOf(e, S) + e[j]
    BY <2>2, SumAdd
  <2> QED BY <1>10, <2>1, <2>3
<1>14. Total = SumOf(f, S)
  BY <1>2, <1>5, <1>7 DEF Total
<1>15. Total' = SumOf(e, S \cup {k + 1})
  <2>1. Len(entries)' = k + 1
    BY <1>3
  <2> QED BY <1>6, <1>8, <2>1 DEF Total
<1>16. \A n : LastIs(n)' <=> after = n
  <2>1. entries' # <<>>
    BY <1>2, <1>3
  <2> QED BY <1>3, <2>1 DEF LastIs
<1> QED BY <1>12, <1>13, <1>14, <1>15, <1>16

\* A sum at all.
LEMMA TotalInt == ASSUME entries \in Seq(Entries) PROVE Total \in Int
<1>1. PICK k \in Nat : k = Len(entries)
  OBVIOUS
<1>2. ASSUME NEW i \in 1..k PROVE entries[i].amount \in Int
  <2>1. entries[i] \in Entries
    BY <1>1
  <2> QED BY <2>1 DEF Entries
<1>3. PICK f : f = [i \in 1..k |-> entries[i].amount]
  OBVIOUS
<1>4. SumOf(f, 1..k) \in Int
  <2>1. PICK S : S = 1..k
    OBVIOUS
  <2>2. IsFiniteSet(S)
    BY <2>1, FS_Interval
  <2>3. \A i \in S : f[i] \in Int
    BY <1>2, <1>3, <2>1
  <2> QED BY <2>1, <2>2, <2>3, SumInt
<1> QED BY <1>1, <1>3, <1>4 DEF Total

\* A step that writes neither balance nor entry.
LEMMA ReadStep ==
  ASSUME NEW p \in Procs, Explains(p), UNCHANGED <<balance, entries>>,
         proc[p].pc \notin {"inc", "record"}, proc'[p].pc \notin {"inc", "record"},
         proc'[p].pc = "create" => proc'[p].read = balance,
         proc'[p].pc = "save" => proc'[p].read = balance + proc'[p].amount
  PROVE  Explains(p)'
<1>1. Total' = Total /\ \A n : LastIs(n)' <=> LastIs(n)
  BY DEF Total, LastIs
<1> QED BY <1>1 DEF Explains, Agrees

\* What the steps leave in the fields of an execution.
LEMMA Fields ==
  ASSUME TypeOK, NEW p \in Procs
  PROVE  /\ \A pc : Goto(p, pc) => proc'[p].pc = pc /\ proc'[p].amount = proc[p].amount
                                   /\ proc'[p].read = proc[p].read
         /\ \A pc, read : proc' = [proc EXCEPT ![p].pc = pc, ![p].read = read] =>
              proc'[p].pc = pc /\ proc'[p].amount = proc[p].amount /\ proc'[p].read = read
         /\ \A pc, move, amount, read : Begin(p, pc, move, amount, read) => proc'[p].pc = pc
         /\ Finish(p) => proc'[p].pc = "idle"
<1>1. proc = [q \in Procs |-> proc[q]]
      /\ proc[p] = [pc |-> proc[p].pc, move |-> proc[p].move, amount |-> proc[p].amount, read |-> proc[p].read]
  BY DEF TypeOK
<1>2. ASSUME NEW x, proc' = [proc EXCEPT ![p] = x] PROVE proc'[p] = x
  BY <1>1, <1>2
<1>3. ASSUME NEW pc, Goto(p, pc)
      PROVE  proc'[p].pc = pc /\ proc'[p].amount = proc[p].amount /\ proc'[p].read = proc[p].read
  BY <1>1, <1>3 DEF Goto
<1>4. ASSUME NEW pc, NEW read, proc' = [proc EXCEPT ![p].pc = pc, ![p].read = read]
      PROVE  proc'[p].pc = pc /\ proc'[p].amount = proc[p].amount /\ proc'[p].read = read
  BY <1>1, <1>4
<1>5. ASSUME NEW pc, NEW move, NEW amount, NEW read, Begin(p, pc, move, amount, read)
      PROVE  proc'[p].pc = pc
  BY <1>2, <1>5 DEF Begin
<1>6. ASSUME Finish(p) PROVE proc'[p].pc = "idle"
  <2>1. proc'[p] = Idle
    BY <1>1, <1>6 DEF Finish
  <2> QED BY <2>1 DEF Idle
<1> QED BY <1>3, <1>4, <1>5, <1>6

\* The entry of a step adds its amount and carries its balanceAfter.
LEMMA Enters ==
  ASSUME TypeOK, NEW m \in Movements, NEW amount \in Int, NEW after \in Int, Append1(m, amount, after)
  PROVE  Total' = Total + amount /\ \A n : LastIs(n)' <=> after = n
BY TotalAppend DEF TypeOK

\* A step of the only execution keeps the account of balance and ledger.
LEMMA ExplainsStep ==
  ASSUME TypeOK, ~Crashes, NEW p \in Procs, Explains(p), Step(p)
  PROVE  Explains(p)'
<1>0. balance \in Int /\ entries \in Seq(Entries) /\ proc[p].amount \in Int /\ proc[p].read \in Int
      /\ Total \in Int /\ Opening \in Int
  BY OneProcess, TotalInt, OpeningAssumption DEF Stores
<1>1. ASSUME \/ \E c \in Credits : CallCredit(p, c) \/ \E sum \in Sums : StartWithdraw(p, c, sum)
             \/ \E o \in Orders : StartOrder(p, o)
             \/ \E l \in Lessons : StartCancel(p, l)
      PROVE  Explains(p)'
  <2>1. proc[p].pc = "idle" /\ proc'[p].pc \in {"learner", "take", "order", "cancel"}
        /\ UNCHANGED <<balance, entries>>
    BY <1>1, Fields DEF CallCredit, StartWithdraw, StartOrder, StartCancel, Start
  <2> QED BY <2>1, ReadStep
<1>2. CASE LoadLearner(p)
  <2>1. \/ proc'[p].pc = "idle"
        \/ proc'[p].pc = "create" /\ proc'[p].read = balance
    BY <1>2, Fields DEF LoadLearner
  <2> QED BY <1>2, <2>1, ReadStep DEF LoadLearner
<1>3. CASE CreateEntry(p)
  <2>1. /\ proc[p].pc = "create" /\ proc'[p].pc = "inc" /\ proc'[p].amount = proc[p].amount
        /\ Append1(proc[p].move, proc[p].amount, proc[p].read + proc[p].amount) /\ UNCHANGED balance
    BY <1>3, Fields DEF CreateEntry
  <2>2. proc[p].move \in Movements
    BY <2>1, OneProcess
  <2>3. Total' = Total + proc[p].amount /\ \A n : LastIs(n)' <=> proc[p].read + proc[p].amount = n
    BY <1>0, <2>1, <2>2, Enters
  <2>4. balance = Opening + Total /\ proc[p].read = balance
    BY <2>1 DEF Explains, Agrees
  <2>5. balance' + proc'[p].amount = Opening + Total' /\ balance' + proc'[p].amount = proc[p].read + proc[p].amount
    BY <1>0, <2>1, <2>3, <2>4
  <2> QED BY <2>1, <2>3, <2>5 DEF Explains, Agrees
<1>4. CASE DuplicateKey(p) \/ StoreOrder(p) \/ AttachSlots(p) \/ SaveCancelled(p)
  <2>1. proc[p].pc \notin {"inc", "record"} /\ proc'[p].pc \in {"idle", "learner", "attach", "load"}
        /\ UNCHANGED <<balance, entries>>
    BY <1>4, Fields DEF DuplicateKey, StoreOrder, AttachSlots, SaveCancelled
  <2> QED BY <2>1, ReadStep
<1>5. CASE IncBalance(p)
  <2>1. proc[p].pc = "inc" /\ proc'[p].pc = "idle" /\ UNCHANGED entries /\ balance' = balance + proc[p].amount
    BY <1>5, Fields DEF IncBalance
  <2>2. Total' = Total /\ \A n : LastIs(n)' <=> LastIs(n)
    BY <2>1 DEF Total, LastIs
  <2> QED BY <2>1, <2>2 DEF Explains, Agrees
<1>6. CASE LoadBalance(p)
  <2>1. /\ proc[p].pc = "load" /\ proc'[p].pc = "save" /\ proc'[p].amount = proc[p].amount
        /\ proc'[p].read = balance + proc[p].amount /\ UNCHANGED <<balance, entries>>
    <3>1. PICK read : read = balance + proc[p].amount
      OBVIOUS
    <3>2. proc' = [proc EXCEPT ![p].pc = "save", ![p].read = read]
      BY <1>6, <3>1 DEF LoadBalance
    <3>3. proc'[p].pc = "save" /\ proc'[p].amount = proc[p].amount /\ proc'[p].read = read
      BY <3>2, Fields
    <3> QED BY <1>6, <3>1, <3>3 DEF LoadBalance
  <2> QED BY <2>1, ReadStep
<1>7. ASSUME proc[p].pc \in {"save", "take"}, proc'[p].pc = "record", proc'[p].amount = proc[p].amount,
             UNCHANGED entries, balance' = balance + proc[p].amount, proc'[p].read = balance'
      PROVE  Explains(p)'
  <2>3. Total' = Total /\ \A n : LastIs(n)' <=> LastIs(n)
    BY <1>7 DEF Total, LastIs
  <2>4. balance' - proc'[p].amount = balance /\ Agrees(balance)
    BY <1>0, <1>7 DEF Explains
  <2> QED BY <1>7, <2>3, <2>4 DEF Explains, Agrees
<1>11. CASE SaveBalance(p)
  <2>1. proc'[p].pc = "record" /\ proc'[p].amount = proc[p].amount /\ proc'[p].read = proc[p].read
    BY <1>11, Fields DEF SaveBalance
  <2>2. proc[p].pc = "save" /\ UNCHANGED entries /\ balance' = proc[p].read /\ proc[p].read = balance + proc[p].amount
    BY <1>11 DEF SaveBalance, Explains
  <2> QED BY <1>7, <2>1, <2>2
<1>12. CASE TakeFunds(p) /\ ~(balance + proc[p].amount < 0)
  <2>1. PICK read : read = balance + proc[p].amount
    OBVIOUS
  <2>2. /\ proc' = [proc EXCEPT ![p].pc = "record", ![p].read = read]
        /\ proc[p].pc = "take" /\ UNCHANGED entries /\ balance' = read
    BY <1>12, <2>1 DEF TakeFunds
  <2>3. proc'[p].pc = "record" /\ proc'[p].amount = proc[p].amount /\ proc'[p].read = read
    BY <2>2, Fields
  <2> QED BY <1>7, <2>1, <2>2, <2>3
<1>8. CASE TakeFunds(p) /\ balance + proc[p].amount < 0
  <2>1. proc[p].pc = "take" /\ proc'[p].pc = "idle" /\ UNCHANGED <<balance, entries>>
    BY <1>8, Fields DEF TakeFunds
  <2> QED BY <2>1, ReadStep
<1>9. CASE RecordEntry(p)
  <2>1. /\ proc[p].pc = "record" /\ proc'[p].pc = "idle" /\ UNCHANGED balance
        /\ Append1(proc[p].move, proc[p].amount, proc[p].read)
    BY <1>9, Fields DEF RecordEntry
  <2>2. proc[p].move \in Movements
    BY <2>1, OneProcess
  <2>3. Total' = Total + proc[p].amount /\ \A n : LastIs(n)' <=> proc[p].read = n
    BY <1>0, <2>1, <2>2, Enters
  <2>4. proc[p].read = balance /\ balance - proc[p].amount = Opening + Total
    BY <2>1 DEF Explains, Agrees
  <2>5. balance' = Opening + Total' /\ balance' = proc[p].read
    BY <1>0, <2>1, <2>3, <2>4
  <2> QED BY <2>1, <2>3, <2>5 DEF Explains, Agrees
<1>10. ~Crash(p)
  BY DEF Crash
<1> QED BY <1>1, <1>2, <1>3, <1>4, <1>5, <1>6, <1>8, <1>9, <1>10, <1>11, <1>12 DEF Step

\* creditWallet, debitWallet, cancelSlot and requestWithdrawToCard, for any
\* amounts and any sequence of requests, one at a time and none of them dying:
\* between two of them balance, ledger and the last balanceAfter agree.
THEOREM LedgerAgreesAlone ==
  ASSUME \A p, q \in Procs : p = q, ~Crashes
  PROVE  Spec => []BalanceIsLedger
<1> DEFINE Told == Procs # {} => \A p \in Procs : Explains(p)
           Inv == Told /\ (Procs = {} => Agrees(balance))
<1>1. Init => Inv
  <2> SUFFICES ASSUME Init PROVE Inv
    OBVIOUS
  <2>1. Total = 0
    <3>1. Len(entries) = 0
      BY DEF Init
    <3>2. 1..Len(entries) = {}
      BY <3>1
    <3> QED BY <3>2, SumEmpty DEF Total
  <2>2. Agrees(balance)
    BY <2>1, OpeningAssumption DEF Init, Agrees, LastIs
  <2>3. \A p \in Procs : proc[p].pc = "idle"
    BY DEF Init, Idle
  <2>4. Told
    BY <2>2, <2>3 DEF Explains
  <2> QED BY <2>2, <2>4
<1>2. TypeOK /\ Inv /\ [Next]_vars => Inv'
  <2> SUFFICES ASSUME TypeOK, Inv, [Next]_vars PROVE Inv'
    OBVIOUS
  <2>1. CASE UNCHANGED vars
    <3>2. Total' = Total /\ \A n : LastIs(n)' <=> LastIs(n)
      BY <2>1 DEF vars, Total, LastIs
    <3> QED BY <2>1, <3>2 DEF vars, Explains, Agrees
  <2>2. ASSUME NEW p \in Procs, Step(p) PROVE Inv'
    <3>1. Explains(p)'
      BY <2>2, ExplainsStep
    <3> QED BY <3>1
  <2> QED BY <2>1, <2>2 DEF Next
<1>3. Inv => BalanceIsLedger
  <2> SUFFICES ASSUME Inv, Quiet PROVE Agrees(balance)
    BY DEF BalanceIsLedger, Agrees, LastIs
  <2> QED BY DEF Quiet, Explains
<1> QED BY <1>1, <1>2, <1>3, TypeCorrect, PTL DEF Spec
=============================================================================
