---------------------------- MODULE LessonsProofs ----------------------------
(***************************************************************************)
(* Theorems about Lessons and Earnings, for any lessons, transactions,     *)
(* credits, amounts, executions and failures: fast cash leaves for an      *)
(* onboarded account only, what is PAID is in a payout, a no-show has its  *)
(* request; completed lessons are paid, the wallet is explained by its     *)
(* ledger, and no hours of a credit are lost or consumed twice.            *)
(*                                                                         *)
(* The invariant grows in parts, each proved with those before it: IInv    *)
(* (shapes), JobInv (who works on which lesson), HoursInv (the profile's   *)
(* hours), CreditInv and TraceInv (which lesson used which credit),        *)
(* TypeInv, and BalanceExplained.                                          *)
(***************************************************************************)
EXTENDS Lessons, FiniteSumsProofs

\* The state functions keep their domains and their fields.
ProcShape(p) == proc[p] = [pc |-> proc[p].pc, amount |-> proc[p].amount, ids |-> proc[p].ids,
                           job |-> proc[p].job, seen |-> proc[p].seen]
Shape ==
  /\ proc = [p \in Procs |-> proc[p]]
  /\ \A p \in Procs : ProcShape(p)
  /\ txn = [t \in Txns |-> txn[t]]
  /\ \A t \in Txns : txn[t] = [status |-> txn[t].status, earning |-> txn[t].earning]
  /\ lesson = [l \in LessonSet |-> lesson[l]]
  /\ account = [id |-> account.id, completed |-> account.completed]
  /\ stripe = [state |-> stripe.state, sent |-> stripe.sent] /\ stripe.sent \subseteq BOOLEAN

\* Whatever lets fast cash go on came from an active account at some time.
Onboarded == TRUE \in stripe.sent
Onboarding == /\ account.completed => Onboarded
              /\ stripe.state = "active" => Onboarded

CashAwaits == {"storeCompleted", "platform", "take", "transfer", "instantPayout", "recordDebit"}
LessonAwaits == {"saveCompleted", "addHours", "findCredits", "saveCredit", "createTxn",
                 "incBalance", "markCredited", "recordCredit", "saveNoShow", "createRequest"}
Working(p) == /\ proc[p].pc \in CashAwaits => Onboarded
              /\ proc[p].pc \in LessonAwaits => proc[p].job \in LessonSet
              /\ proc[p].pc = "markPaid" => proc[p].ids \in payouts

\* The request is there, or its execution died, or is about to store it.
Filed(l) == lesson[l] = "NOSHOW_REQUESTED" =>
              \/ l \in requests \cup abandoned
              \/ \E p \in Procs : proc[p].job = l /\ proc[p].pc = "createRequest"

IInv == /\ Shape /\ Onboarding
        /\ \A p \in Procs : Working(p)
        /\ PaidIsPaidOut
        /\ \A l \in LessonSet : Filed(l)

\* The initial state satisfies IInv.
LEMMA InitIInv == Init => IInv
<1> SUFFICES ASSUME Init PROVE IInv
  OBVIOUS
<1> USE DEF Init, EarningsInit, RecordsInit, FundsInit, LessonsInit
<1>1. Shape
  BY DEF Shape, ProcShape, Idle, NoEarning
<1>2. Onboarding
  BY DEF Onboarding
<1>3. \A p \in Procs : Working(p)
  BY DEF Working, Idle, CashAwaits, LessonAwaits
<1>4. PaidIsPaidOut
  BY TxnsAssumption DEF PaidIsPaidOut, NoEarning
<1>5. \A l \in LessonSet : Filed(l)
  BY DEF Filed
<1> QED BY <1>1, <1>2, <1>3, <1>4, <1>5 DEF IInv

\* IInv has what the first three theorems promise.
LEMMA IInvImplies == IInv => OnboardedOnly /\ PaidIsPaidOut /\ RequestFiled
<1> SUFFICES ASSUME IInv PROVE OnboardedOnly /\ PaidIsPaidOut /\ RequestFiled
  OBVIOUS
<1>1. OnboardedOnly
  BY DEF IInv, Working, CashAwaits, Onboarded, OnboardedOnly
<1>2. RequestFiled
  BY DEF IInv, Filed, RequestFiled, Free
<1> QED BY <1>1, <1>2 DEF IInv

-----------------------------------------------------------------------------

\* Only p has moved.
Moved(p) == /\ proc' = [q \in Procs |-> proc'[q]]
            /\ \A q \in Procs \ {p} : proc'[q] = proc[q]
            /\ ProcShape(p)'

\* Goto leaves the job and the ids of the execution alone.
LEMMA Goes ==
  ASSUME Shape, NEW p \in Procs, NEW pc, Goto(p, pc)
  PROVE  /\ Moved(p) /\ proc'[p].pc = pc
         /\ proc'[p].job = proc[p].job /\ proc'[p].ids = proc[p].ids
BY DEF Shape, ProcShape, Goto, Moved

\* So do the two steps of the credits, up to the fields they name.
LEMMA MovesThree ==
  ASSUME Shape, NEW p \in Procs, NEW pc, NEW ids, NEW x,
         \/ proc' = [proc EXCEPT ![p].seen = x, ![p].ids = ids, ![p].pc = pc]
         \/ proc' = [proc EXCEPT ![p].ids = ids, ![p].amount = x, ![p].pc = pc]
  PROVE  Moved(p) /\ proc'[p].pc = pc /\ proc'[p].job = proc[p].job
<1>1. \/ proc'[p] = [proc[p] EXCEPT !.seen = x, !.ids = ids, !.pc = pc]
      \/ proc'[p] = [proc[p] EXCEPT !.ids = ids, !.amount = x, !.pc = pc]
  BY DEF Shape
<1>2. ProcShape(p)' /\ proc'[p].pc = pc /\ proc'[p].job = proc[p].job
  BY <1>1 DEF Shape, ProcShape
<1>3. proc' = [q \in Procs |-> proc'[q]] /\ \A q \in Procs \ {p} : proc'[q] = proc[q]
  BY DEF Shape
<1> QED BY <1>2, <1>3 DEF Moved

\* An execution that ends works on nothing.
LEMMA Ends ==
  ASSUME Shape, NEW p \in Procs, Finish(p)
  PROVE  Moved(p) /\ proc'[p].pc = "idle" /\ Working(p)'
<1>1. Moved(p) /\ proc'[p].pc = "idle"
  BY DEF Shape, ProcShape, Finish, Moved, Idle
<1> QED BY <1>1 DEF Working, CashAwaits, LessonAwaits

\* The others still know what they knew.
LEMMA Others ==
  ASSUME IInv, NEW p \in Procs, Moved(p), Working(p)',
         Onboarded => Onboarded', payouts \subseteq payouts'
  PROVE  \A q \in Procs : Working(q)'
BY DEF IInv, Moved, Working

\* A step that touches neither lessons nor transactions.
LEMMA CashStep ==
  ASSUME IInv, NEW p \in Procs, Moved(p), Working(p)', proc[p].pc # "createRequest",
         UNCHANGED <<txn, lesson, requests, abandoned>>, payouts \subseteq payouts',
         UNCHANGED onboarding \/
           (/\ account' = [id |-> account'.id, completed |-> account'.completed]
            /\ stripe' = [state |-> stripe'.state, sent |-> stripe'.sent]
            /\ stripe'.sent = stripe.sent /\ Onboarding')
  PROVE  IInv'
<1>0. Shape' /\ Onboarding' /\ (Onboarded => Onboarded')
  <2>1. \A q \in Procs : ProcShape(q)'
    BY DEF IInv, Shape, Moved, ProcShape
  <2> QED BY <2>1 DEF IInv, Shape, Moved, Onboarding, Onboarded, onboarding
<1>1. \A q \in Procs : Working(q)'
  BY <1>0, Others
<1>2. PaidIsPaidOut'
  BY DEF IInv, PaidIsPaidOut
<1>3. ASSUME NEW l \in LessonSet PROVE Filed(l)'
  <2>1. Filed(l)
    BY DEF IInv
  <2>2. ASSUME NEW q \in Procs, proc[q].job = l, proc[q].pc = "createRequest"
        PROVE  proc'[q].job = l /\ proc'[q].pc = "createRequest"
    BY <2>2 DEF Moved
  <2> QED BY <2>1, <2>2 DEF Filed
<1> QED BY <1>0, <1>1, <1>2, <1>3 DEF IInv

\* A step to the next await.
LEMMA GoStep ==
  ASSUME IInv, NEW p \in Procs, NEW pc, Goto(p, pc), proc[p].pc # "createRequest",
         UNCHANGED <<txn, payouts, onboarding, lesson, requests, abandoned>>,
         pc \in CashAwaits => Onboarded,
         pc \in LessonAwaits => proc[p].job \in LessonSet,
         pc # "markPaid"
  PROVE  IInv'
<1>1. Moved(p) /\ proc'[p].pc = pc /\ proc'[p].job = proc[p].job
  BY Goes DEF IInv
<1>2. Working(p)'
  BY <1>1 DEF Working, Onboarded, onboarding
<1> QED BY <1>1, <1>2, CashStep

\* The last step of an execution.
LEMMA EndStep ==
  ASSUME IInv, NEW p \in Procs, Finish(p), proc[p].pc # "createRequest",
         UNCHANGED <<txn, payouts, onboarding, lesson, requests, abandoned>>
  PROVE  IInv'
<1>1. Moved(p) /\ Working(p)'
  BY Ends DEF IInv
<1> QED BY <1>1, CashStep

\* The execution that begins.
LEMMA BeginStep ==
  ASSUME IInv, NEW p \in Procs, At(p, "idle"), NEW e,
         proc' = [proc EXCEPT ![p] = e],
         e = [pc |-> e.pc, amount |-> e.amount, ids |-> e.ids, job |-> e.job, seen |-> e.seen],
         e.pc \in CashAwaits => Onboarded,
         e.pc \in LessonAwaits => e.job \in LessonSet,
         e.pc # "markPaid",
         UNCHANGED <<txn, payouts, onboarding, lesson, requests, abandoned>>
  PROVE  IInv'
<1>1. proc'[p] = e /\ Moved(p)
  BY DEF IInv, Shape, Moved, ProcShape
<1>2. Working(p)'
  BY <1>1 DEF Working, Onboarded, onboarding
<1>3. proc[p].pc # "createRequest"
  BY DEF At
<1> QED BY <1>1, <1>2, <1>3, CashStep

-----------------------------------------------------------------------------
(* Earnings *)

\* instructorFastCash.
LEMMA FastCashIInv ==
  ASSUME IInv, NEW p \in Procs, UNCHANGED lessons,
         \/ CreateAccount(p) \/ StoreAccount(p) \/ VerifyAccount(p) \/ StoreCompleted(p)
         \/ CheckPlatform(p) \/ TakeFunds(p) \/ Transfer(p) \/ InstantPayout(p)
         \/ RecordDebit(p) \/ Restore(p)
  PROVE  IInv'
<1> USE DEF lessons, records, At
<1>0. Working(p) /\ Onboarding /\ Shape
  BY DEF IInv
<1>1. CASE CreateAccount(p)
  <2>1. Goto(p, "storeAccount") /\ proc[p].pc # "createRequest" /\ UNCHANGED account
        /\ stripe' = [stripe EXCEPT !.state = IF @ = "none" THEN "created" ELSE @]
    BY <1>1 DEF CreateAccount
  <2>2. Moved(p) /\ proc'[p].pc = "storeAccount"
    BY <1>0, <2>1, Goes
  <2>3. Working(p)'
    BY <2>2 DEF Working, CashAwaits, LessonAwaits
  <2>4. stripe' = [state |-> stripe'.state, sent |-> stripe'.sent] /\ stripe'.sent = stripe.sent
        /\ (stripe'.state = "active" => stripe.state = "active")
    BY <1>0, <2>1 DEF Shape
  <2>5. Onboarding'
    BY <1>0, <2>1, <2>4 DEF Onboarding, Onboarded
  <2>6. account' = [id |-> account'.id, completed |-> account'.completed]
    BY <1>0, <2>1 DEF Shape
  <2>7. UNCHANGED <<txn, payouts, lesson, requests, abandoned>>
    BY <1>1 DEF CreateAccount
  <2> QED BY <2>1, <2>2, <2>3, <2>4, <2>5, <2>6, <2>7, CashStep
<1>2. CASE StoreAccount(p)
  <2>1. Finish(p) /\ proc[p].pc # "createRequest" /\ UNCHANGED stripe
        /\ account' = [id |-> TRUE, completed |-> FALSE]
    BY <1>2 DEF StoreAccount
  <2>2. Moved(p) /\ Working(p)'
    BY <1>0, <2>1, Ends
  <2>3. account' = [id |-> account'.id, completed |-> account'.completed] /\ Onboarding'
        /\ stripe' = [state |-> stripe'.state, sent |-> stripe'.sent] /\ stripe'.sent = stripe.sent
    BY <1>0, <2>1 DEF Onboarding, Onboarded, Shape
  <2>4. UNCHANGED <<txn, payouts, lesson, requests, abandoned>>
    BY <1>2 DEF StoreAccount
  <2> QED BY <2>1, <2>2, <2>3, <2>4, CashStep
<1>3. CASE VerifyAccount(p)
  <2>1. UNCHANGED <<txn, payouts, onboarding, lesson, requests, abandoned>> /\ proc[p].pc # "createRequest"
    BY <1>3 DEF VerifyAccount
  <2>2. CASE Finish(p)
    BY <2>1, <2>2, EndStep
  <2>3. CASE stripe.state = "active" /\ Goto(p, "storeCompleted")
    <3>1. Onboarded
      BY <1>0, <2>3 DEF Onboarding
    <3> QED BY <2>1, <2>3, <3>1, GoStep DEF LessonAwaits
  <2> QED BY <1>3, <2>2, <2>3 DEF VerifyAccount
<1>4. CASE StoreCompleted(p)
  <2>1. Onboarded
    BY <1>0, <1>4 DEF StoreCompleted, Working, CashAwaits
  <2>2. Goto(p, "platform") /\ proc[p].pc # "createRequest" /\ UNCHANGED stripe
        /\ account' = [account EXCEPT !.completed = TRUE]
    BY <1>4 DEF StoreCompleted
  <2>3. Moved(p) /\ proc'[p].pc = "platform"
    BY <1>0, <2>2, Goes
  <2>4. Working(p)'
    BY <2>1, <2>2, <2>3 DEF Working, LessonAwaits, Onboarded
  <2>5. account' = [id |-> account'.id, completed |-> account'.completed] /\ Onboarding'
        /\ stripe' = [state |-> stripe'.state, sent |-> stripe'.sent] /\ stripe'.sent = stripe.sent
    BY <1>0, <2>1, <2>2 DEF Onboarding, Onboarded, Shape
  <2>6. UNCHANGED <<txn, payouts, lesson, requests, abandoned>>
    BY <1>4 DEF StoreCompleted
  <2> QED BY <2>2, <2>3, <2>4, <2>5, <2>6, CashStep
<1>5. CASE CheckPlatform(p)
  <2>1. Onboarded /\ UNCHANGED <<txn, payouts, onboarding, lesson, requests, abandoned>>
        /\ proc[p].pc # "createRequest" /\ (Goto(p, "take") \/ Finish(p))
    BY <1>0, <1>5 DEF CheckPlatform, Working, CashAwaits
  <2> QED BY <2>1, GoStep, EndStep DEF LessonAwaits
<1>6. CASE TakeFunds(p)
  <2>1. Onboarded /\ UNCHANGED <<txn, payouts, onboarding, lesson, requests, abandoned>>
        /\ proc[p].pc # "createRequest" /\ (Goto(p, "transfer") \/ Finish(p))
    BY <1>0, <1>6 DEF TakeFunds, Working, CashAwaits
  <2> QED BY <2>1, GoStep, EndStep DEF LessonAwaits
<1>7. CASE Transfer(p)
  <2>1. Onboarded /\ UNCHANGED <<txn, payouts, onboarding, lesson, requests, abandoned>>
        /\ proc[p].pc # "createRequest" /\ (Goto(p, "instantPayout") \/ Goto(p, "restore"))
    BY <1>0, <1>7 DEF Transfer, Working, CashAwaits
  <2> QED BY <2>1, GoStep DEF LessonAwaits
<1>8. CASE InstantPayout(p)
  <2>1. Onboarded /\ UNCHANGED <<txn, payouts, onboarding, lesson, requests, abandoned>>
        /\ proc[p].pc # "createRequest" /\ (Goto(p, "recordDebit") \/ Goto(p, "restore"))
    BY <1>0, <1>8 DEF InstantPayout, Working, CashAwaits
  <2> QED BY <2>1, GoStep DEF LessonAwaits
<1>9. CASE RecordDebit(p) \/ Restore(p)
  <2>1. UNCHANGED <<txn, payouts, onboarding, lesson, requests, abandoned>>
        /\ proc[p].pc # "createRequest" /\ Finish(p)
    BY <1>9 DEF RecordDebit, Restore
  <2> QED BY <2>1, EndStep
<1> QED BY <1>1, <1>2, <1>3, <1>4, <1>5, <1>6, <1>7, <1>8, <1>9

\* Steps that write transactions: a Legacy one becomes PAID in a payout only.
LEMMA TxnStep ==
  ASSUME IInv, NEW p \in Procs, Moved(p), Working(p)', proc[p].pc # "createRequest",
         UNCHANGED <<lesson, requests, abandoned, onboarding>>, payouts \subseteq payouts',
         txn' = [t \in Txns |-> txn'[t]],
         \A t \in Txns : txn'[t] = [status |-> txn'[t].status, earning |-> txn'[t].earning],
         \A t \in Legacy : \/ txn'[t].status = "PAID" => txn[t].status = "PAID"
                           \/ \E ids \in payouts' : t \in ids
  PROVE  IInv'
<1>0. Shape' /\ Onboarding' /\ (Onboarded => Onboarded')
  <2>1. \A q \in Procs : ProcShape(q)'
    BY DEF IInv, Shape, Moved, ProcShape
  <2> QED BY <2>1 DEF IInv, Shape, Moved, Onboarding, Onboarded, onboarding
<1>1. \A q \in Procs : Working(q)'
  BY <1>0, Others
<1>2. PaidIsPaidOut'
  BY DEF IInv, PaidIsPaidOut
<1>3. ASSUME NEW l \in LessonSet PROVE Filed(l)'
  <2>1. Filed(l)
    BY DEF IInv
  <2>2. ASSUME NEW q \in Procs, proc[q].job = l, proc[q].pc = "createRequest"
        PROVE  proc'[q].job = l /\ proc'[q].pc = "createRequest"
    BY <2>2 DEF Moved
  <2> QED BY <2>1, <2>2 DEF Filed
<1> QED BY <1>0, <1>1, <1>2, <1>3 DEF IInv

\* generateWeeklyPayout.
LEMMA WeeklyIInv ==
  ASSUME IInv, NEW p \in Procs, UNCHANGED lessons, FindPending(p) \/ CreatePayout(p) \/ MarkPaid(p)
  PROVE  IInv'
<1> USE DEF lessons, records, At
<1>0. Working(p) /\ Shape
  BY DEF IInv
<1>1. CASE FindPending(p)
  <2>1. UNCHANGED <<txn, payouts, onboarding, lesson, requests, abandoned>> /\ proc[p].pc # "createRequest"
    BY <1>1 DEF FindPending
  <2>2. CASE Pending = {}
    <3>1. Finish(p)
      BY <1>1, <2>2 DEF FindPending, Finish
    <3> QED BY <2>1, <3>1, EndStep
  <2>3. CASE Pending # {}
    <3>1. proc' = [proc EXCEPT ![p] = [@ EXCEPT !.pc = "createPayout", !.ids = Pending]]
      BY <1>1, <2>3 DEF FindPending
    <3>2. PICK ids : ids = Pending
      OBVIOUS
    <3>3. proc'[p] = [proc[p] EXCEPT !.pc = "createPayout", !.ids = ids]
      BY <1>0, <3>1, <3>2 DEF Shape
    <3>4. ProcShape(p)' /\ proc'[p].pc = "createPayout"
      BY <1>0, <3>3 DEF Shape, ProcShape
    <3>5. Moved(p) /\ proc'[p].pc = "createPayout"
      BY <1>0, <3>1, <3>4 DEF Shape, Moved
    <3>6. Working(p)'
      BY <3>5 DEF Working, CashAwaits, LessonAwaits
    <3> QED BY <2>1, <3>5, <3>6, CashStep
  <2> QED BY <2>2, <2>3
<1>2. CASE CreatePayout(p)
  <2>1. payouts' = payouts \cup {proc[p].ids} /\ Goto(p, "markPaid") /\ proc[p].pc # "createRequest"
        /\ UNCHANGED <<txn, onboarding, lesson, requests, abandoned>>
    BY <1>2 DEF CreatePayout
  <2>2. Moved(p) /\ proc'[p].pc = "markPaid" /\ proc'[p].ids = proc[p].ids
    BY <1>0, <2>1, Goes
  <2>3. Working(p)'
    BY <2>1, <2>2 DEF Working, CashAwaits, LessonAwaits
  <2> QED BY <2>1, <2>2, <2>3, CashStep
<1>3. CASE MarkPaid(p)
  <2>1. txn' = [t \in Txns |-> IF t \in proc[p].ids THEN [txn[t] EXCEPT !.status = "PAID"] ELSE txn[t]]
        /\ Finish(p) /\ proc[p].pc # "createRequest" /\ proc[p].ids \in payouts
        /\ UNCHANGED <<payouts, onboarding, lesson, requests, abandoned>>
    BY <1>0, <1>3 DEF MarkPaid, Working
  <2>2. Moved(p) /\ Working(p)'
    BY <1>0, <2>1, Ends
  <2>3. txn' = [t \in Txns |-> txn'[t]]
    BY <2>1
  <2>4. ASSUME NEW t \in Txns
        PROVE  /\ txn'[t] = [status |-> txn'[t].status, earning |-> txn'[t].earning]
               /\ t \notin proc[p].ids => txn'[t] = txn[t]
    BY <1>0, <2>1 DEF Shape
  <2>5. Legacy \subseteq Txns
    BY TxnsAssumption
  <2> QED BY <2>1, <2>2, <2>3, <2>4, <2>5, TxnStep
<1> QED BY <1>1, <1>2, <1>3

\* The credit of a lesson, whose transaction is no Legacy one.
LEMMA OneTxn ==
  ASSUME IInv, NEW p \in Procs, Moved(p), Working(p)', proc[p].pc # "createRequest",
         UNCHANGED <<payouts, onboarding, lesson, requests, abandoned>>,
         NEW l \in LessonSet, NEW status, NEW earning,
         txn' = [txn EXCEPT ![l] = [status |-> status, earning |-> earning]]
  PROVE  IInv'
<1>1. l \in Txns /\ l \notin Legacy /\ Legacy \subseteq Txns
  BY LessonsAssumption, TxnsAssumption
<1>2. txn' = [t \in Txns |-> txn'[t]]
  BY DEF IInv, Shape
<1>3. \A t \in Txns \ {l} : txn'[t] = txn[t]
  BY DEF IInv, Shape
<1>4. txn'[l] = [status |-> status, earning |-> earning]
  BY <1>1 DEF IInv, Shape
<1>5. \A t \in Txns : txn'[t] = [status |-> txn'[t].status, earning |-> txn'[t].earning]
  BY <1>3, <1>4 DEF IInv, Shape
<1> QED BY <1>1, <1>2, <1>3, <1>5, TxnStep

\* creditInstructorWallet.
LEMMA CreditIInv ==
  ASSUME IInv, NEW p \in Procs, UNCHANGED lessons, IncBalance(p) \/ MarkCredited(p) \/ RecordCredit(p)
  PROVE  IInv'
<1> USE DEF lessons, records, At
<1>0. Working(p) /\ Shape
  BY DEF IInv
<1>1. CASE IncBalance(p)
  <2>1. proc[p].job \in LessonSet /\ Goto(p, "markCredited") /\ proc[p].pc # "createRequest"
        /\ UNCHANGED <<txn, payouts, onboarding, lesson, requests, abandoned>>
    BY <1>0, <1>1 DEF IncBalance, Working, LessonAwaits
  <2> QED BY <2>1, GoStep DEF CashAwaits
<1>2. CASE MarkCredited(p)
  <2>1. proc[p].job \in LessonSet /\ Goto(p, "recordCredit") /\ proc[p].pc # "createRequest"
        /\ txn' = [txn EXCEPT ![proc[p].job].status = "PAID"]
        /\ UNCHANGED <<payouts, onboarding, lesson, requests, abandoned>>
    BY <1>0, <1>2 DEF MarkCredited, Working, LessonAwaits
  <2>2. Moved(p) /\ proc'[p].pc = "recordCredit" /\ proc'[p].job = proc[p].job
    BY <1>0, <2>1, Goes
  <2>3. Working(p)'
    BY <2>1, <2>2 DEF Working, CashAwaits
  <2>4. PICK l \in LessonSet : l = proc[p].job
    BY <2>1
  <2>5. l \in Txns
    BY LessonsAssumption
  <2>6. PICK earning : earning = txn[l].earning
    OBVIOUS
  <2>7. [txn[l] EXCEPT !.status = "PAID"] = [status |-> "PAID", earning |-> earning]
    BY <1>0, <2>5, <2>6 DEF Shape
  <2>8. txn' = [txn EXCEPT ![l] = [status |-> "PAID", earning |-> earning]]
    BY <2>1, <2>4, <2>7
  <2> QED BY <2>1, <2>2, <2>3, <2>4, <2>8, OneTxn
<1>3. CASE RecordCredit(p)
  <2>1. Finish(p) /\ proc[p].pc # "createRequest"
        /\ UNCHANGED <<txn, payouts, onboarding, lesson, requests, abandoned>>
    BY <1>3 DEF RecordCredit
  <2> QED BY <2>1, EndStep
<1> QED BY <1>1, <1>2, <1>3

-----------------------------------------------------------------------------
(* Lessons *)

\* A step that writes lessons, their requests, or who is abandoned.
LEMMA FilingStep ==
  ASSUME IInv, NEW p \in Procs, Moved(p), Working(p)',
         UNCHANGED <<txn, payouts, onboarding>>,
         lesson' = [l \in LessonSet |-> lesson'[l]],
         \A l \in LessonSet : Filed(l)'
  PROVE  IInv'
<1>1. \A q \in Procs : ProcShape(q)'
  BY DEF IInv, Shape, Moved, ProcShape
<1>2. Shape' /\ Onboarding' /\ (Onboarded => Onboarded')
  BY <1>1 DEF IInv, Shape, Moved, Onboarding, Onboarded, onboarding
<1>3. \A q \in Procs : Working(q)'
  BY <1>2, Others
<1>4. PaidIsPaidOut'
  BY DEF IInv, PaidIsPaidOut
<1> QED BY <1>2, <1>3, <1>4 DEF IInv

\* completeSlot and requestNoShowSlot.
LEMMA LessonIInv ==
  ASSUME IInv, NEW p \in Procs, LessonStep(p)
  PROVE  IInv'
<1> USE DEF StaysEarned, lessons, records, At
<1>0. Working(p) /\ Shape
  BY DEF IInv
<1>1. CASE SaveCompleted(p)
  <2>1. proc[p].job \in LessonSet /\ Goto(p, "addHours") /\ proc[p].pc # "createRequest"
        /\ lesson' = [lesson EXCEPT ![proc[p].job] = "COMPLETED"]
        /\ UNCHANGED <<txn, payouts, onboarding, requests, abandoned>>
    BY <1>0, <1>1 DEF SaveCompleted, Working, LessonAwaits
  <2>2. Moved(p) /\ proc'[p].pc = "addHours" /\ proc'[p].job = proc[p].job
    BY <1>0, <2>1, Goes
  <2>3. Working(p)'
    BY <2>1, <2>2 DEF Working, CashAwaits
  <2>4. lesson' = [l \in LessonSet |-> lesson'[l]]
    BY <1>0, <2>1 DEF Shape
  <2>5. ASSUME NEW l \in LessonSet PROVE Filed(l)'
    <3>1. lesson'[l] = lesson[l] \/ lesson'[l] = "COMPLETED"
      BY <1>0, <2>1 DEF Shape
    <3>2. ASSUME NEW q \in Procs, proc[q].job = l, proc[q].pc = "createRequest"
          PROVE  proc'[q].job = l /\ proc'[q].pc = "createRequest"
      BY <2>1, <2>2, <3>2 DEF Moved
    <3> QED BY <2>1, <3>1, <3>2 DEF Filed, IInv
  <2> QED BY <2>1, <2>2, <2>3, <2>4, <2>5, FilingStep
<1>2. CASE AddHours(p)
  <2>1. proc[p].job \in LessonSet /\ Goto(p, "findCredits") /\ proc[p].pc # "createRequest"
        /\ UNCHANGED <<txn, payouts, onboarding, lesson, requests, abandoned>>
    BY <1>0, <1>2 DEF AddHours, Working, LessonAwaits
  <2> QED BY <2>1, GoStep DEF CashAwaits
<1>3. CASE FindCredits(p)
  <2>1. proc[p].job \in LessonSet /\ proc[p].pc # "createRequest"
        /\ UNCHANGED <<txn, payouts, onboarding, lesson, requests, abandoned>>
    BY <1>0, <1>3 DEF FindCredits, Working, LessonAwaits
  <2>2. PICK ids : ids = ToSave(credit, Hours[proc[p].job])
    OBVIOUS
  <2>3. PICK pc \in {"createTxn", "saveCredit"} : pc = IF ids = {} THEN "createTxn" ELSE "saveCredit"
    OBVIOUS
  <2>4. proc' = [proc EXCEPT ![p].seen = credit, ![p].ids = ids, ![p].pc = pc]
    BY <1>3, <2>2, <2>3 DEF FindCredits
  <2>5. Moved(p) /\ proc'[p].pc = pc /\ proc'[p].job = proc[p].job
    BY <1>0, <2>4, MovesThree
  <2>6. Working(p)'
    BY <2>1, <2>3, <2>5 DEF Working, CashAwaits
  <2> QED BY <2>1, <2>5, <2>6, CashStep
<1>4. CASE SaveCredit(p)
  <2>1. proc[p].job \in LessonSet /\ proc[p].pc # "createRequest"
        /\ UNCHANGED <<txn, payouts, onboarding, lesson, requests, abandoned>>
    BY <1>0, <1>4 DEF SaveCredit, Working, LessonAwaits
  <2>2. PICK c : c = Min(proc[p].ids)
    OBVIOUS
  <2>3. PICK ids, amount : /\ ids = proc[p].ids \ {c}
                           /\ amount = proc[p].amount
                                + Applied(c, proc[p].seen, Hours[proc[p].job]) * Credits[c].rate
    OBVIOUS
  <2>4. PICK pc \in {"createTxn", "saveCredit"} :
          pc = IF proc[p].ids = {c} THEN "createTxn" ELSE "saveCredit"
    OBVIOUS
  <2>5. proc' = [proc EXCEPT ![p].ids = ids, ![p].amount = amount, ![p].pc = pc]
    BY <1>0, <1>4, <2>2, <2>3, <2>4 DEF SaveCredit, Shape
  <2>6. Moved(p) /\ proc'[p].pc = pc /\ proc'[p].job = proc[p].job
    BY <1>0, <2>5, MovesThree
  <2>7. Working(p)'
    BY <2>1, <2>4, <2>6 DEF Working, CashAwaits
  <2> QED BY <2>1, <2>6, <2>7, CashStep
<1>5. CASE CreateTxn(p)
  <2> DEFINE e == EarningOf(Hours[proc[p].job], proc[p].amount)
  <2>1. proc[p].job \in LessonSet /\ proc[p].pc # "createRequest"
        /\ proc' = [proc EXCEPT ![p].pc = "incBalance", ![p].seen = NoTxn]
        /\ txn' = [txn EXCEPT ![proc[p].job] = [status |-> "PAID", earning |-> e]]
        /\ UNCHANGED <<payouts, onboarding, lesson, requests, abandoned>>
    BY <1>0, <1>5 DEF CreateTxn, Working, LessonAwaits
  <2>2. Moved(p) /\ proc'[p].pc = "incBalance" /\ proc'[p].job = proc[p].job
    BY <1>0, <2>1 DEF Shape, ProcShape, Moved
  <2>3. Working(p)'
    BY <2>1, <2>2 DEF Working, CashAwaits
  <2>4. PICK l \in LessonSet : l = proc[p].job
    BY <2>1
  <2>5. PICK earning : earning = e
    OBVIOUS
  <2>6. txn' = [txn EXCEPT ![l] = [status |-> "PAID", earning |-> earning]]
    BY <2>1, <2>4, <2>5
  <2> QED BY <2>1, <2>2, <2>3, <2>4, <2>6, OneTxn
<1>6. CASE SaveNoShow(p)
  <2>1. proc[p].job \in LessonSet /\ Goto(p, "createRequest") /\ proc[p].pc # "createRequest"
        /\ lesson' = [lesson EXCEPT ![proc[p].job] = "NOSHOW_REQUESTED"]
        /\ UNCHANGED <<txn, payouts, onboarding, requests, abandoned>>
    BY <1>0, <1>6 DEF SaveNoShow, Working, LessonAwaits
  <2>2. Moved(p) /\ proc'[p].pc = "createRequest" /\ proc'[p].job = proc[p].job
    BY <1>0, <2>1, Goes
  <2>3. Working(p)'
    BY <2>1, <2>2 DEF Working, CashAwaits
  <2>4. lesson' = [l \in LessonSet |-> lesson'[l]]
    BY <1>0, <2>1 DEF Shape
  <2>5. ASSUME NEW l \in LessonSet PROVE Filed(l)'
    <3>1. CASE l = proc[p].job
      BY <2>2, <3>1 DEF Filed
    <3>2. CASE l # proc[p].job
      <4>1. lesson'[l] = lesson[l]
        BY <1>0, <2>1, <3>2 DEF Shape
      <4>2. ASSUME NEW q \in Procs, proc[q].job = l, proc[q].pc = "createRequest"
            PROVE  proc'[q].job = l /\ proc'[q].pc = "createRequest"
        BY <2>1, <2>2, <4>2 DEF Moved
      <4> QED BY <2>1, <2>2, <4>1, <4>2 DEF Filed, IInv
    <3> QED BY <3>1, <3>2
  <2> QED BY <2>1, <2>2, <2>3, <2>4, <2>5, FilingStep
<1>7. CASE CreateRequest(p)
  <2>1. requests' = requests \cup {proc[p].job} /\ Finish(p)
        /\ UNCHANGED <<txn, payouts, onboarding, lesson, abandoned>>
    BY <1>7 DEF CreateRequest
  <2>2. Moved(p) /\ Working(p)'
    BY <1>0, <2>1, Ends
  <2>3. lesson' = [l \in LessonSet |-> lesson'[l]]
    BY <1>0, <2>1 DEF Shape
  <2>4. ASSUME NEW l \in LessonSet PROVE Filed(l)'
    <3>1. ASSUME NEW q \in Procs, proc[q].job = l, proc[q].pc = "createRequest"
          PROVE  l \in requests' \/ (proc'[q].job = l /\ proc'[q].pc = "createRequest")
      BY <2>1, <2>2, <3>1 DEF Moved
    <3> QED BY <2>1, <3>1 DEF Filed, IInv
  <2> QED BY <2>1, <2>2, <2>3, <2>4, FilingStep
<1> QED BY <1>1, <1>2, <1>3, <1>4, <1>5, <1>6, <1>7 DEF LessonStep

\* The beginning of an execution.
LEMMA StartIInv ==
  ASSUME IInv, NEW p \in Procs,
         \/ \E l \in LessonSet : StartComplete(p, l) \/ StartNoShow(p, l)
         \/ StartWeekly(p) /\ UNCHANGED lessons
         \/ \E a \in Amounts : StartFastCash(p, a) /\ UNCHANGED lessons
  PROVE  IInv'
<1> USE DEF StaysEarned, lessons, records
<1>0. Onboarding
  BY DEF IInv
<1>1. ASSUME NEW l \in LessonSet, StartComplete(p, l) \/ StartNoShow(p, l)
      PROVE  IInv'
  <2>1. PICK pc \in {"saveCompleted", "saveNoShow"} : Begin(p, pc, l)
    BY <1>1 DEF StartComplete, StartNoShow
  <2>2. UNCHANGED <<txn, payouts, onboarding, lesson, requests, abandoned>>
    BY <1>1 DEF StartComplete, StartNoShow
  <2>3. PICK copy : copy = order
    OBVIOUS
  <2>4. PICK e : e = [Idle EXCEPT !.pc = pc, !.job = l, !.seen = copy]
    OBVIOUS
  <2>5. e = [pc |-> e.pc, amount |-> e.amount, ids |-> e.ids, job |-> e.job, seen |-> e.seen]
        /\ e.pc = pc /\ e.job = l
    BY <2>4 DEF Idle
  <2>6. At(p, "idle") /\ proc' = [proc EXCEPT ![p] = e]
    BY <2>1, <2>3, <2>4 DEF Begin
  <2>7. e.pc \notin CashAwaits /\ e.pc # "markPaid"
    BY <2>5 DEF CashAwaits
  <2> QED BY <2>2, <2>5, <2>6, <2>7, BeginStep
<1>2. ASSUME StartWeekly(p), UNCHANGED lessons
      PROVE  IInv'
  <2>1. PICK e : e = [Idle EXCEPT !.pc = "findPending"]
    OBVIOUS
  <2>2. e = [pc |-> e.pc, amount |-> e.amount, ids |-> e.ids, job |-> e.job, seen |-> e.seen]
        /\ e.pc = "findPending"
    BY <2>1 DEF Idle
  <2>3. At(p, "idle") /\ proc' = [proc EXCEPT ![p] = e]
        /\ UNCHANGED <<txn, payouts, onboarding, lesson, requests, abandoned>>
    BY <1>2, <2>1 DEF StartWeekly
  <2> QED BY <2>2, <2>3, BeginStep DEF CashAwaits, LessonAwaits
<1>3. ASSUME NEW a \in Amounts, StartFastCash(p, a), UNCHANGED lessons
      PROVE  IInv'
  <2>1. PICK pc \in {"createAccount", "platform", "verify"} :
          /\ pc = "platform" => account.completed
          /\ proc' = [proc EXCEPT ![p] = [Idle EXCEPT !.amount = a, !.pc = pc]]
    BY <1>3 DEF StartFastCash
  <2>2. PICK e : e = [Idle EXCEPT !.amount = a, !.pc = pc]
    OBVIOUS
  <2>3. e = [pc |-> e.pc, amount |-> e.amount, ids |-> e.ids, job |-> e.job, seen |-> e.seen]
        /\ e.pc = pc
    BY <2>2 DEF Idle
  <2>4. At(p, "idle") /\ proc' = [proc EXCEPT ![p] = e]
        /\ UNCHANGED <<txn, payouts, onboarding, lesson, requests, abandoned>>
    BY <1>3, <2>1, <2>2 DEF StartFastCash
  <2>5. e.pc \in CashAwaits => Onboarded
    BY <1>0, <2>1, <2>3 DEF CashAwaits, Onboarding
  <2>6. e.pc \notin LessonAwaits /\ e.pc # "markPaid"
    BY <2>3 DEF LessonAwaits
  <2> QED BY <2>3, <2>4, <2>5, <2>6, BeginStep
<1> QED BY <1>1, <1>2, <1>3

\* A server that stops.
LEMMA AbandonIInv ==
  ASSUME IInv, NEW p \in Procs, Abandon(p)
  PROVE  IInv'
<1>1. Finish(p) /\ abandoned' = abandoned \cup ({proc[p].job} \cap LessonSet)
      /\ UNCHANGED <<txn, payouts, onboarding, lesson, requests>>
  BY DEF Abandon, Die, records
<1>2. Shape
  BY DEF IInv
<1>3. Moved(p) /\ Working(p)'
  BY <1>1, <1>2, Ends
<1>4. lesson' = [l \in LessonSet |-> lesson'[l]]
  BY <1>1, <1>2 DEF Shape
<1>5. ASSUME NEW l \in LessonSet PROVE Filed(l)'
  <2>1. ASSUME NEW q \in Procs, proc[q].job = l, proc[q].pc = "createRequest"
        PROVE  l \in abandoned' \/ (proc'[q].job = l /\ proc'[q].pc = "createRequest")
    BY <1>1, <1>3, <2>1 DEF Moved
  <2> QED BY <1>1, <2>1 DEF Filed, IInv
<1> QED BY <1>1, <1>3, <1>4, <1>5, FilingStep

\* No execution moves: the other handlers, the flags, Stripe.
LEMMA StillStep ==
  ASSUME IInv, UNCHANGED <<proc, txn, payouts, requests, abandoned>>,
         account' = [id |-> account'.id, completed |-> account'.completed],
         stripe' = [state |-> stripe'.state, sent |-> stripe'.sent],
         stripe.sent \subseteq stripe'.sent, stripe'.sent \subseteq BOOLEAN, Onboarding',
         lesson' = [l \in LessonSet |-> lesson'[l]],
         \A l \in LessonSet : lesson'[l] = lesson[l] \/ lesson'[l] # "NOSHOW_REQUESTED"
  PROVE  IInv'
<1>1. Shape'
  BY DEF IInv, Shape, ProcShape
<1>2. \A p \in Procs : Working(p)'
  BY DEF IInv, Working, Onboarded
<1>3. PaidIsPaidOut' /\ \A l \in LessonSet : Filed(l)'
  BY DEF IInv, PaidIsPaidOut, Filed
<1> QED BY <1>1, <1>2, <1>3 DEF IInv

\* What is done in one step: cancellation, moves, flags, gifts, Stripe.
LEMMA OtherIInv ==
  ASSUME IInv,
         \/ \E l \in LessonSet : Cancel(l) \/ Move(l) \/ Propose(l) \/ Answer(l)
         \/ \E role \in Roles : \/ MarkRead(role, LessonSet)
                                \/ \E l \in LessonSet : MarkRead(role, {l})
         \/ (\E a \in Gifts : AddWalletBalance(a)) /\ UNCHANGED lessons
         \/ (AccountChanges \/ AccountUpdated) /\ UNCHANGED lessons
         \/ UNCHANGED vars
  PROVE  IInv'
<1>0. Shape /\ Onboarding
  BY DEF IInv
<1>1. ASSUME NEW l \in LessonSet, Cancel(l) \/ Move(l) \/ Propose(l) \/ Answer(l)
      PROVE  IInv'
  <2>1. PICK status \in {"CANCELLED", "RESCHEDULED", "PENDING_RESCHEDULE", "BOOKED"} : Set(l, status)
    BY <1>1 DEF Cancel, Move, Propose, Answer
  <2>2. lesson' = [lesson EXCEPT ![l] = status]
        /\ UNCHANGED <<proc, txn, payouts, requests, abandoned, account, stripe>>
    BY <2>1 DEF Set, earnings
  <2>3. lesson' = [k \in LessonSet |-> lesson'[k]]
        /\ \A k \in LessonSet : lesson'[k] = lesson[k] \/ lesson'[k] # "NOSHOW_REQUESTED"
    BY <1>0, <2>2 DEF Shape
  <2> QED BY <1>0, <2>2, <2>3, StillStep DEF Shape, Onboarding, Onboarded
<1>2. CASE \/ \E role \in Roles : \/ MarkRead(role, LessonSet)
                                  \/ \E l \in LessonSet : MarkRead(role, {l})
           \/ (\E a \in Gifts : AddWalletBalance(a)) /\ UNCHANGED lessons
           \/ UNCHANGED vars
  <2>1. UNCHANGED <<proc, txn, payouts, lesson, requests, abandoned, account, stripe>>
    BY <1>2 DEF MarkRead, AddWalletBalance, earnings, lessons, vars, records, onboarding
  <2> QED BY <1>0, <2>1, StillStep DEF Shape, Onboarding, Onboarded
<1>3. ASSUME AccountChanges, UNCHANGED lessons
      PROVE  IInv'
  <2>1. UNCHANGED <<proc, txn, payouts, lesson, requests, abandoned, account>>
    BY <1>3 DEF AccountChanges, lessons, records
  <2>2. PICK s \in {"active", "restricted"} : stripe' = [state |-> s, sent |-> stripe.sent \cup {s = "active"}]
    BY <1>3 DEF AccountChanges
  <2>3. stripe' = [state |-> stripe'.state, sent |-> stripe'.sent] /\ stripe.sent \subseteq stripe'.sent
        /\ (stripe'.state = "active" => TRUE \in stripe'.sent) /\ stripe'.sent \subseteq BOOLEAN
    BY <1>0, <2>2 DEF Shape
  <2>4. Onboarding'
    BY <1>0, <2>1, <2>3 DEF Onboarding, Onboarded
  <2> QED BY <1>0, <2>1, <2>3, <2>4, StillStep DEF Shape
<1>4. ASSUME AccountUpdated, UNCHANGED lessons
      PROVE  IInv'
  <2>1. UNCHANGED <<proc, txn, payouts, lesson, requests, abandoned, stripe>>
    BY <1>4 DEF AccountUpdated, lessons, records
  <2>2. PICK completed \in stripe.sent : account' = [account EXCEPT !.completed = completed]
    BY <1>4 DEF AccountUpdated
  <2>3. account' = [id |-> account'.id, completed |-> account'.completed]
        /\ account'.completed = completed /\ completed \in BOOLEAN
    BY <1>0, <2>2 DEF Shape
  <2>4. Onboarding'
    BY <1>0, <2>1, <2>2, <2>3 DEF Onboarding, Onboarded
  <2> QED BY <1>0, <2>1, <2>3, <2>4, StillStep DEF Shape
<1> QED BY <1>1, <1>2, <1>3, <1>4

\* Every step keeps IInv.
LEMMA NextIInv ==
  ASSUME IInv, [Next]_vars
  PROVE  IInv'
<1>1. ASSUME NEW p \in Procs, Work(p) PROVE IInv'
  <2>1. CASE LessonStep(p)
    BY <2>1, LessonIInv
  <2>2. CASE Continue(p) /\ UNCHANGED lessons
    BY <2>2, FastCashIInv, CreditIInv, WeeklyIInv DEF Continue
  <2> QED BY <1>1, <2>1, <2>2 DEF Work
<1> QED BY <1>1, AbandonIInv, StartIInv, OtherIInv DEF Next

\* IInv holds for every behaviour.
LEMMA Invariant == Spec => []IInv
<1>1. Init => IInv
  BY InitIInv
<1>2. IInv /\ [Next]_vars => IInv'
  BY NextIInv
<1> QED BY <1>1, <1>2, PTL DEF Spec

-----------------------------------------------------------------------------
(* Who works on which lesson, and which transactions are paid *)

Early == {"saveCompleted", "saveNoShow", "createRequest"}
Unpaid == {"addHours", "findCredits", "saveCredit", "createTxn"}

\* An execution that works on a lesson has it for itself, and the lesson is
\* COMPLETED once completeSlot has saved it.
HasJob(p) ==
  /\ proc[p].pc \notin LessonAwaits => proc[p].job = NoTxn
  /\ proc[p].pc \in LessonAwaits =>
       /\ proc[p].job # NoTxn
       /\ \A q \in Procs \ {p} : proc[q].job # proc[p].job
       /\ lesson[proc[p].job] = "COMPLETED" <=> proc[p].pc \notin Early

\* The weekly run takes only what earlier releases left.
OldOnly(p) == proc[p].pc \in {"createPayout", "markPaid"} => proc[p].ids \subseteq Legacy
Recent == Txns \ Legacy
NoneWaits == \A t \in Recent : txn[t].status # "PENDING_PAYOUT"

\* A completed lesson is paid, or somebody is about to pay it, or died.
PaysFor(p, l) == proc[p].job = l /\ proc[p].pc \in Unpaid
Settles(l) ==
  /\ txn[l].status = "PAID" => lesson[l] = "COMPLETED"
  /\ lesson[l] = "COMPLETED" => \/ txn[l].status = "PAID" \/ l \in abandoned
                                \/ \E p \in Procs : PaysFor(p, l)

JobInv == /\ \A p \in Procs : HasJob(p) /\ OldOnly(p)
          /\ NoneWaits
          /\ \A l \in LessonSet : Settles(l)

\* No execution has a job, nothing is paid.
LEMMA InitJobInv == Init => JobInv
<1> SUFFICES ASSUME Init PROVE JobInv
  OBVIOUS
<1>1. \A p \in Procs : proc[p] = Idle
  BY DEF Init, EarningsInit, FundsInit
<1>2. \A p \in Procs : HasJob(p) /\ OldOnly(p)
  BY <1>1 DEF HasJob, OldOnly, Idle, LessonAwaits
<1>3. \A t \in Recent : txn[t].status = "NONE"
  BY DEF Init, EarningsInit, RecordsInit, NoEarning, Recent
<1>4. \A l \in LessonSet : l \in Recent /\ lesson[l] = "BOOKED"
  BY LessonsAssumption DEF Recent, Init, LessonsInit
<1> QED BY <1>2, <1>3, <1>4 DEF JobInv, NoneWaits, Settles

\* A step of an execution that does not work on a lesson.
Outside(p) == /\ Moved(p) /\ proc[p].pc \notin LessonAwaits
              /\ proc'[p].pc \notin LessonAwaits /\ proc'[p].job = NoTxn
              /\ OldOnly(p)'
              /\ \A t \in Recent : txn'[t] = txn[t]

\* Such a step keeps JobInv.
LEMMA OutsideJobInv ==
  ASSUME IInv, JobInv, NEW p \in Procs, Outside(p),
         UNCHANGED lesson, abandoned \subseteq abandoned'
  PROVE  JobInv'
<1>1. ASSUME NEW q \in Procs PROVE HasJob(q)' /\ OldOnly(q)'
  BY DEF JobInv, HasJob, OldOnly, Outside, Moved
<1>2. NoneWaits'
  BY DEF JobInv, NoneWaits, Outside
<1>3. ASSUME NEW l \in LessonSet PROVE Settles(l)'
  <2>1. l \in Recent
    BY LessonsAssumption DEF Recent
  <2>2. ASSUME NEW q \in Procs, PaysFor(q, l) PROVE PaysFor(q, l)'
    BY <2>2 DEF PaysFor, Outside, Moved, LessonAwaits, Unpaid
  <2> QED BY <2>1, <2>2 DEF JobInv, Settles, Outside
<1> QED BY <1>1, <1>2, <1>3 DEF JobInv

\* A step of one that does, or begins to.
LEMMA InsideJobInv ==
  ASSUME IInv, JobInv, NEW p \in Procs, NEW l \in LessonSet, Moved(p), HasJob(p)', OldOnly(p)',
         proc[p].job = l, proc[p].pc \in LessonAwaits,
         proc'[p].job \in {l, NoTxn},
         \A k \in LessonSet \ {l} : lesson'[k] = lesson[k],
         \A t \in Recent : txn'[t].status = txn[t].status \/ (t = l /\ txn'[t].status = "PAID"),
         Settles(l)', abandoned \subseteq abandoned'
  PROVE  JobInv'
<1>1. ASSUME NEW q \in Procs PROVE HasJob(q)' /\ OldOnly(q)'
  <2>1. CASE q = p
    BY <2>1
  <2>2. CASE q # p
    <3>1. proc'[q] = proc[q] /\ HasJob(q) /\ OldOnly(q) /\ HasJob(p)
      BY <2>2 DEF JobInv, Moved
    <3>2. proc[q].pc \in LessonAwaits => proc[q].job \in LessonSet \ {l}
      BY <2>2, <3>1 DEF HasJob, IInv, Working
    <3>3. \A r \in Procs \ {q} : proc'[r].job # proc[r].job => r = p
      BY DEF Moved
    <3> QED BY <2>2, <3>1, <3>2, <3>3 DEF HasJob, OldOnly
  <2> QED BY <2>1, <2>2
<1>2. NoneWaits'
  BY DEF JobInv, NoneWaits
<1>3. ASSUME NEW k \in LessonSet, k # l PROVE Settles(k)'
  <2>1. k \in Recent
    BY LessonsAssumption DEF Recent
  <2>2. ASSUME NEW q \in Procs, PaysFor(q, k) PROVE PaysFor(q, k)'
    BY <1>3, <2>2 DEF PaysFor, Moved
  <2> QED BY <1>3, <2>1, <2>2 DEF JobInv, Settles
<1> QED BY <1>1, <1>2, <1>3 DEF JobInv

\* A lesson that nobody works on is taken.
LEMMA BeginJobInv ==
  ASSUME IInv, JobInv, NEW p \in Procs, NEW l \in LessonSet, Free(l), lesson[l] # "COMPLETED",
         Moved(p), proc[p].pc = "idle", proc'[p].pc \in {"saveCompleted", "saveNoShow"},
         proc'[p].job = l, UNCHANGED <<lesson, txn, abandoned>>
  PROVE  JobInv'
<1>0. l # NoTxn
  BY DEF JobInv, HasJob, Free, LessonAwaits
<1>1. ASSUME NEW q \in Procs PROVE HasJob(q)' /\ OldOnly(q)'
  <2>1. CASE q = p
    BY <1>0, <2>1 DEF HasJob, OldOnly, Free, Moved, Early, LessonAwaits
  <2>2. CASE q # p
    <3>1. proc'[q] = proc[q] /\ HasJob(q) /\ OldOnly(q)
      BY <2>2 DEF JobInv, Moved
    <3>2. proc[q].job # l
      BY DEF Free
    <3>3. \A r \in Procs \ {q} : proc'[r].job # proc[r].job => r = p
      BY DEF Moved
    <3> QED BY <2>2, <3>1, <3>2, <3>3 DEF HasJob, OldOnly
  <2> QED BY <2>1, <2>2
<1>2. NoneWaits'
  BY DEF JobInv, NoneWaits
<1>3. ASSUME NEW k \in LessonSet PROVE Settles(k)'
  <2>2. ASSUME NEW q \in Procs, PaysFor(q, k) PROVE PaysFor(q, k)'
    BY <1>3, <2>2 DEF PaysFor, Moved, Unpaid
  <2> QED BY <1>3, <2>2 DEF JobInv, Settles
<1> QED BY <1>1, <1>2, <1>3 DEF JobInv

\* An execution that ends has no job.
LEMMA Quits ==
  ASSUME Shape, NEW p \in Procs, Finish(p)
  PROVE  Moved(p) /\ proc'[p].pc = "idle" /\ proc'[p].job = NoTxn
<1>1. proc'[p] = Idle
  BY DEF Shape, Finish
<1> QED BY <1>1, Ends DEF Idle

\* Where fast cash and the weekly run are.
CashOrWeekly == {"createAccount", "storeAccount", "verify", "storeCompleted", "platform", "take",
                 "transfer", "instantPayout", "recordDebit", "restore", "findPending"}

\* Goto between two of these awaits.
LEMMA GoesOutside ==
  ASSUME IInv, JobInv, NEW p \in Procs, proc[p].pc \notin LessonAwaits, NEW pc \in CashOrWeekly,
         Goto(p, pc), UNCHANGED txn
  PROVE  Outside(p)
<1>1. Moved(p) /\ proc'[p].pc = pc /\ proc'[p].job = proc[p].job
  BY Goes DEF IInv
<1>2. pc \notin LessonAwaits /\ pc \notin {"createPayout", "markPaid"}
  BY DEF CashOrWeekly, LessonAwaits
<1> QED BY <1>1, <1>2 DEF Outside, JobInv, HasJob, OldOnly

\* Their last step.
LEMMA EndsOutside ==
  ASSUME IInv, NEW p \in Procs, proc[p].pc \notin LessonAwaits, Finish(p),
         \A t \in Recent : txn'[t] = txn[t]
  PROVE  Outside(p)
<1>1. Moved(p) /\ proc'[p].pc = "idle" /\ proc'[p].job = NoTxn
  BY Quits DEF IInv
<1> QED BY <1>1 DEF Outside, OldOnly, LessonAwaits

\* Their first step.
LEMMA BeginsOutside ==
  ASSUME IInv, NEW p \in Procs, proc[p].pc = "idle", NEW e, e.pc \in CashOrWeekly, e.job = NoTxn,
         e = [pc |-> e.pc, amount |-> e.amount, ids |-> e.ids, job |-> e.job, seen |-> e.seen],
         proc' = [proc EXCEPT ![p] = e], UNCHANGED txn
  PROVE  Outside(p)
<1>1. Moved(p) /\ proc'[p] = e
  BY DEF IInv, Shape, Moved, ProcShape
<1>2. e.pc \notin LessonAwaits /\ e.pc \notin {"createPayout", "markPaid"}
  BY DEF CashOrWeekly, LessonAwaits
<1> QED BY <1>1, <1>2 DEF Outside, OldOnly, LessonAwaits

\* Fast cash works on no lesson.
LEMMA FastCashOutside ==
  ASSUME IInv, JobInv, NEW p \in Procs,
         \/ CreateAccount(p) \/ StoreAccount(p) \/ VerifyAccount(p) \/ StoreCompleted(p)
         \/ CheckPlatform(p) \/ TakeFunds(p) \/ Transfer(p) \/ InstantPayout(p)
         \/ RecordDebit(p) \/ Restore(p)
  PROVE  Outside(p)
<1>1. proc[p].pc \notin LessonAwaits
  BY DEF LessonAwaits, At, CreateAccount, StoreAccount, VerifyAccount, StoreCompleted,
         CheckPlatform, TakeFunds, Transfer, InstantPayout, RecordDebit, Restore
<1>2. Finish(p) \/ \E pc \in CashOrWeekly : Goto(p, pc)
  BY DEF CashOrWeekly, CreateAccount, StoreAccount, VerifyAccount, StoreCompleted,
         CheckPlatform, TakeFunds, Transfer, InstantPayout, RecordDebit, Restore
<1>3. UNCHANGED txn
  BY DEF records, CreateAccount, StoreAccount, VerifyAccount, StoreCompleted,
         CheckPlatform, TakeFunds, Transfer, InstantPayout, RecordDebit, Restore
<1> QED BY <1>1, <1>2, <1>3, GoesOutside, EndsOutside

\* The weekly run neither: it takes transactions of earlier releases only.
LEMMA WeeklyOutside ==
  ASSUME IInv, JobInv, NEW p \in Procs, FindPending(p) \/ CreatePayout(p) \/ MarkPaid(p)
  PROVE  Outside(p)
<1> USE DEF At
<1>0. Shape /\ Legacy \subseteq Txns
  BY TxnsAssumption DEF IInv
<1>1. CASE FindPending(p)
  <2>1. proc[p].pc \notin LessonAwaits /\ UNCHANGED txn
    BY <1>1 DEF FindPending, LessonAwaits, records
  <2>2. CASE Pending = {}
    <3>1. Finish(p)
      BY <1>1, <2>2 DEF FindPending, Finish
    <3> QED BY <2>1, <3>1, EndsOutside
  <2>3. CASE Pending # {}
    <3>1. proc' = [proc EXCEPT ![p] = [@ EXCEPT !.pc = "createPayout", !.ids = Pending]]
      BY <1>1, <2>3 DEF FindPending
    <3>2. PICK ids : ids = Pending
      OBVIOUS
    <3>3. proc'[p] = [proc[p] EXCEPT !.pc = "createPayout", !.ids = ids]
      BY <1>0, <3>1, <3>2 DEF Shape
    <3>4. ProcShape(p)' /\ proc'[p].pc = "createPayout" /\ proc'[p].ids = ids /\ proc'[p].job = proc[p].job
      BY <1>0, <3>3 DEF Shape, ProcShape
    <3>5. Moved(p)
      BY <1>0, <3>1, <3>4 DEF Shape, Moved
    <3>6. ids \subseteq Legacy
      BY <3>2 DEF JobInv, NoneWaits, Recent, Pending
    <3> QED BY <2>1, <3>4, <3>5, <3>6 DEF Outside, OldOnly, LessonAwaits, JobInv, HasJob
  <2> QED BY <2>2, <2>3
<1>2. CASE CreatePayout(p)
  <2>1. Goto(p, "markPaid") /\ proc[p].pc = "createPayout" /\ UNCHANGED txn
    BY <1>2 DEF CreatePayout
  <2>2. Moved(p) /\ proc'[p].pc = "markPaid" /\ proc'[p].ids = proc[p].ids /\ proc'[p].job = proc[p].job
    BY <1>0, <2>1, Goes
  <2> QED BY <2>1, <2>2 DEF Outside, OldOnly, LessonAwaits, JobInv, HasJob
<1>3. CASE MarkPaid(p)
  <2>1. txn' = [t \in Txns |-> IF t \in proc[p].ids THEN [txn[t] EXCEPT !.status = "PAID"] ELSE txn[t]]
        /\ Finish(p) /\ proc[p].pc = "markPaid"
    BY <1>3 DEF MarkPaid
  <2>2. proc[p].ids \subseteq Legacy
    BY <2>1 DEF JobInv, OldOnly
  <2>3. \A t \in Recent : txn'[t] = txn[t]
    BY <2>1, <2>2 DEF Recent
  <2> QED BY <2>1, <2>3, EndsOutside DEF LessonAwaits
<1> QED BY <1>1, <1>2, <1>3

\* Both begin without a lesson.
LEMMA StartOutside ==
  ASSUME IInv, JobInv, NEW p \in Procs, StartWeekly(p) \/ \E a \in Amounts : StartFastCash(p, a)
  PROVE  Outside(p)
<1>1. ASSUME StartWeekly(p) PROVE Outside(p)
  <2>1. PICK e : e = [Idle EXCEPT !.pc = "findPending"]
    OBVIOUS
  <2>2. e = [pc |-> e.pc, amount |-> e.amount, ids |-> e.ids, job |-> e.job, seen |-> e.seen]
        /\ e.pc \in CashOrWeekly /\ e.job = NoTxn
    BY <2>1 DEF Idle, CashOrWeekly
  <2>3. proc[p].pc = "idle" /\ proc' = [proc EXCEPT ![p] = e] /\ UNCHANGED txn
    BY <1>1, <2>1 DEF StartWeekly, At, records
  <2> QED BY <2>2, <2>3, BeginsOutside
<1>2. ASSUME NEW a \in Amounts, StartFastCash(p, a) PROVE Outside(p)
  <2>1. PICK pc \in {"createAccount", "platform", "verify"} :
          proc' = [proc EXCEPT ![p] = [Idle EXCEPT !.amount = a, !.pc = pc]]
    BY <1>2 DEF StartFastCash
  <2>2. PICK e : e = [Idle EXCEPT !.amount = a, !.pc = pc]
    OBVIOUS
  <2>3. e = [pc |-> e.pc, amount |-> e.amount, ids |-> e.ids, job |-> e.job, seen |-> e.seen]
        /\ e.pc \in CashOrWeekly /\ e.job = NoTxn
    BY <2>2 DEF Idle, CashOrWeekly
  <2>4. proc[p].pc = "idle" /\ proc' = [proc EXCEPT ![p] = e] /\ UNCHANGED txn
    BY <1>2, <2>1, <2>2 DEF StartFastCash, At, records
  <2> QED BY <2>3, <2>4, BeginsOutside
<1> QED BY <1>1, <1>2

\* What the steps of completeSlot and requestNoShowSlot do to their execution.
Carries(p, pc) == /\ Moved(p) /\ proc'[p].pc = pc /\ proc'[p].job = proc[p].job
                  /\ proc[p].pc \in LessonAwaits /\ proc[p].job \in LessonSet
Leaves(p) == /\ Moved(p) /\ proc'[p].pc = "idle" /\ proc'[p].job = NoTxn
             /\ proc[p].pc \in LessonAwaits /\ proc[p].job \in LessonSet

\* Where the steps of completeSlot and requestNoShowSlot lead.
LEMMA InsideSteps ==
  ASSUME IInv, NEW p \in Procs
  PROVE  /\ SaveCompleted(p) => proc[p].pc = "saveCompleted" /\ Carries(p, "addHours")
         /\ AddHours(p) => proc[p].pc = "addHours" /\ Carries(p, "findCredits")
         /\ FindCredits(p) => proc[p].pc = "findCredits" /\ (Carries(p, "saveCredit") \/ Carries(p, "createTxn"))
         /\ SaveCredit(p) => proc[p].pc = "saveCredit" /\ (Carries(p, "saveCredit") \/ Carries(p, "createTxn"))
         /\ CreateTxn(p) => proc[p].pc = "createTxn" /\ Carries(p, "incBalance")
         /\ IncBalance(p) => proc[p].pc = "incBalance" /\ Carries(p, "markCredited")
         /\ MarkCredited(p) => proc[p].pc = "markCredited" /\ Carries(p, "recordCredit")
         /\ RecordCredit(p) => proc[p].pc = "recordCredit" /\ Leaves(p)
         /\ SaveNoShow(p) => proc[p].pc = "saveNoShow" /\ Carries(p, "createRequest")
         /\ CreateRequest(p) => proc[p].pc = "createRequest" /\ Leaves(p)
<1> USE DEF At
<1>0. Shape /\ Working(p)
  BY DEF IInv
<1>1. proc[p].pc \in LessonAwaits => proc[p].job \in LessonSet
  BY <1>0 DEF Working
<1>2. ASSUME NEW pc, Goto(p, pc), proc[p].pc \in LessonAwaits PROVE Carries(p, pc)
  BY <1>0, <1>1, <1>2, Goes DEF Carries
<1>3. ASSUME Finish(p), proc[p].pc \in LessonAwaits PROVE Leaves(p)
  BY <1>0, <1>1, <1>3, Quits DEF Leaves
<1>4. ASSUME FindCredits(p) PROVE Carries(p, "saveCredit") \/ Carries(p, "createTxn")
  <2>1. PICK ids : ids = ToSave(credit, Hours[proc[p].job])
    OBVIOUS
  <2>2. PICK pc \in {"createTxn", "saveCredit"} : pc = IF ids = {} THEN "createTxn" ELSE "saveCredit"
    OBVIOUS
  <2>3. proc' = [proc EXCEPT ![p].seen = credit, ![p].ids = ids, ![p].pc = pc]
    BY <1>4, <2>1, <2>2 DEF FindCredits
  <2>4. Moved(p) /\ proc'[p].pc = pc /\ proc'[p].job = proc[p].job
    BY <1>0, <2>3, MovesThree
  <2> QED BY <1>1, <1>4, <2>4 DEF Carries, FindCredits, LessonAwaits
<1>5. ASSUME SaveCredit(p) PROVE Carries(p, "saveCredit") \/ Carries(p, "createTxn")
  <2>1. PICK c : c = Min(proc[p].ids)
    OBVIOUS
  <2>2. PICK ids, amount : /\ ids = proc[p].ids \ {c}
                           /\ amount = proc[p].amount
                                + Applied(c, proc[p].seen, Hours[proc[p].job]) * Credits[c].rate
    OBVIOUS
  <2>3. PICK pc \in {"createTxn", "saveCredit"} :
          pc = IF proc[p].ids = {c} THEN "createTxn" ELSE "saveCredit"
    OBVIOUS
  <2>4. proc' = [proc EXCEPT ![p].ids = ids, ![p].amount = amount, ![p].pc = pc]
    BY <1>0, <1>5, <2>1, <2>2, <2>3 DEF SaveCredit, Shape
  <2>5. Moved(p) /\ proc'[p].pc = pc /\ proc'[p].job = proc[p].job
    BY <1>0, <2>4, MovesThree
  <2> QED BY <1>1, <1>5, <2>5 DEF Carries, SaveCredit, LessonAwaits
<1>6. ASSUME CreateTxn(p) PROVE Carries(p, "incBalance")
  <2>1. proc' = [proc EXCEPT ![p].pc = "incBalance", ![p].seen = NoTxn] /\ proc[p].pc = "createTxn"
    BY <1>6 DEF CreateTxn
  <2>2. Moved(p) /\ proc'[p].pc = "incBalance" /\ proc'[p].job = proc[p].job
    BY <1>0, <2>1 DEF Shape, ProcShape, Moved
  <2> QED BY <1>1, <2>1, <2>2 DEF Carries, LessonAwaits
<1> QED BY <1>2, <1>3, <1>4, <1>5, <1>6 DEF SaveCompleted, AddHours, FindCredits, SaveCredit, CreateTxn,
       IncBalance, MarkCredited, RecordCredit, SaveNoShow, CreateRequest, LessonAwaits

\* A step that keeps the job.
LEMMA CarryJobInv ==
  ASSUME IInv, JobInv, NEW p \in Procs, NEW pc, Carries(p, pc), pc \in LessonAwaits, pc # "markPaid",
         NEW l \in LessonSet, l = proc[p].job,
         \A k \in LessonSet \ {l} : lesson'[k] = lesson[k],
         lesson'[l] = "COMPLETED" <=> pc \notin Early,
         \A t \in Recent : txn'[t].status = txn[t].status \/ (t = l /\ txn'[t].status = "PAID"),
         txn'[l].status = "PAID" => lesson'[l] = "COMPLETED",
         lesson'[l] = "COMPLETED" => txn'[l].status = "PAID" \/ pc \in Unpaid \/ l \in abandoned,
         UNCHANGED abandoned
  PROVE  JobInv'
<1>1. HasJob(p) /\ OldOnly(p)' 
  BY DEF JobInv, OldOnly, Carries, LessonAwaits
<1>2. HasJob(p)'
  BY <1>1 DEF HasJob, Carries, Moved
<1>3. pc \in Unpaid => PaysFor(p, l)'
  BY DEF PaysFor, Carries
<1>4. Settles(l)'
  BY <1>3 DEF Settles
<1> QED BY <1>1, <1>2, <1>4, InsideJobInv DEF Carries

\* A step that gives it up.
LEMMA LeaveJobInv ==
  ASSUME IInv, JobInv, NEW p \in Procs, Leaves(p), UNCHANGED <<lesson, txn>>,
         abandoned \subseteq abandoned',
         proc[p].pc \in Unpaid => proc[p].job \in abandoned'
  PROVE  JobInv'
<1>1. PICK l \in LessonSet : l = proc[p].job
  BY DEF Leaves
<1>2. HasJob(p)' /\ OldOnly(p)'
  BY DEF HasJob, OldOnly, Leaves, LessonAwaits
<1>3. ASSUME NEW q \in Procs \ {p}, PaysFor(q, l) PROVE PaysFor(q, l)'
  BY <1>3 DEF PaysFor, Leaves, Moved
<1>4. PaysFor(p, l) => l \in abandoned'
  BY <1>1 DEF PaysFor
<1>5. Settles(l)'
  BY <1>3, <1>4 DEF Settles, JobInv
<1> QED BY <1>1, <1>2, <1>5, InsideJobInv DEF Leaves

\* The handlers that change the status at once, of a lesson nobody works on.
LEMMA StillJobInv ==
  ASSUME IInv, JobInv, UNCHANGED <<proc, txn, abandoned>>,
         \A l \in LessonSet : \/ lesson'[l] = lesson[l]
                              \/ Free(l) /\ lesson[l] # "COMPLETED" /\ lesson'[l] # "COMPLETED"
  PROVE  JobInv'
<1>1. ASSUME NEW p \in Procs PROVE HasJob(p)' /\ OldOnly(p)'
  <2>1. HasJob(p) /\ OldOnly(p) /\ (proc[p].pc \in LessonAwaits => proc[p].job \in LessonSet)
    BY DEF JobInv, IInv, Working
  <2> QED BY <2>1 DEF HasJob, OldOnly, Free
<1>2. \A l \in LessonSet : Settles(l)'
  BY DEF JobInv, Settles, PaysFor
<1> QED BY <1>1, <1>2 DEF JobInv, NoneWaits

\* Every step of completeSlot and requestNoShowSlot is one of these.
LEMMA LessonJobInv ==
  ASSUME IInv, JobInv, NEW p \in Procs,
         \/ LessonStep(p)
         \/ (IncBalance(p) \/ MarkCredited(p) \/ RecordCredit(p)) /\ UNCHANGED lessons
  PROVE  JobInv'
<1> USE DEF lessons, records, StaysEarned, LessonAwaits, Early, Unpaid
<1>0. Shape /\ HasJob(p) /\ (proc[p].job \in LessonSet => Settles(proc[p].job))
  BY DEF IInv, JobInv
<1>a. LessonSet \subseteq Txns
  BY LessonsAssumption
<1>1. CASE SaveCompleted(p) \/ SaveNoShow(p)
  <2>1. PICK status \in {"COMPLETED", "NOSHOW_REQUESTED"} :
          /\ lesson' = [lesson EXCEPT ![proc[p].job] = status]
          /\ status = "COMPLETED" <=> SaveCompleted(p)
    BY <1>1 DEF SaveCompleted, SaveNoShow, At
  <2>2. UNCHANGED <<txn, abandoned>>
    BY <1>1 DEF SaveCompleted, SaveNoShow
  <2>3. PICK l \in LessonSet : l = proc[p].job
    BY <1>1, InsideSteps DEF Carries
  <2>4. lesson'[l] = status /\ \A k \in LessonSet \ {l} : lesson'[k] = lesson[k]
    BY <1>0, <2>1, <2>3 DEF Shape
  <2>5. lesson[l] # "COMPLETED" /\ txn[l].status # "PAID"
    BY <1>0, <1>1, <2>3, InsideSteps DEF HasJob, Settles
  <2> QED BY <1>1, <2>1, <2>2, <2>3, <2>4, <2>5, InsideSteps, CarryJobInv
<1>2. CASE AddHours(p) \/ FindCredits(p) \/ SaveCredit(p)
  <2>1. UNCHANGED <<txn, abandoned, lesson>>
    BY <1>2 DEF AddHours, FindCredits, SaveCredit
  <2>2. PICK l \in LessonSet : l = proc[p].job
    BY <1>2, InsideSteps DEF Carries
  <2>3. lesson[l] = "COMPLETED"
    BY <1>0, <1>2, <2>2, InsideSteps DEF HasJob
  <2>4. PICK pc \in Unpaid : Carries(p, pc)
    BY <1>2, InsideSteps
  <2> QED BY <2>1, <2>2, <2>3, <2>4, CarryJobInv
<1>3. CASE CreateTxn(p) \/ (MarkCredited(p) /\ UNCHANGED lessons)
  <2>1. PICK l \in LessonSet : l = proc[p].job
    BY <1>3, InsideSteps DEF Carries
  <2>2. txn'[l].status = "PAID" /\ \A t \in Txns \ {l} : txn'[t] = txn[t]
    <3>1. CASE CreateTxn(p)
      <4>1. PICK e : e = EarningOf(Hours[l], proc[p].amount)
        OBVIOUS
      <4>2. txn' = [txn EXCEPT ![l] = [status |-> "PAID", earning |-> e]]
        BY <2>1, <3>1, <4>1 DEF CreateTxn
      <4> QED BY <1>0, <1>a, <4>2 DEF Shape
    <3>2. CASE MarkCredited(p)
      <4>1. txn' = [txn EXCEPT ![l].status = "PAID"]
        BY <2>1, <3>2 DEF MarkCredited
      <4>2. txn[l] = [status |-> txn[l].status, earning |-> txn[l].earning]
        BY <1>0, <1>a DEF Shape
      <4> QED BY <1>0, <1>a, <4>1, <4>2 DEF Shape
    <3> QED BY <1>3, <3>1, <3>2
  <2>3. UNCHANGED <<abandoned, lesson>>
    BY <1>3 DEF CreateTxn, MarkCredited
  <2>4. lesson[l] = "COMPLETED"
    BY <1>0, <1>3, <2>1, InsideSteps DEF HasJob
  <2>5. PICK pc \in {"incBalance", "recordCredit"} : Carries(p, pc)
    BY <1>3, InsideSteps
  <2>6. Recent \subseteq Txns
    BY DEF Recent
  <2> QED BY <2>1, <2>2, <2>3, <2>4, <2>5, <2>6, CarryJobInv
<1>4. CASE IncBalance(p) /\ UNCHANGED lessons
  <2>1. PICK l \in LessonSet : l = proc[p].job
    BY <1>4, InsideSteps DEF Carries
  <2>2. UNCHANGED <<txn, abandoned, lesson>>
    BY <1>4 DEF IncBalance
  <2>3. proc[p].pc = "incBalance" /\ Carries(p, "markCredited")
    BY <1>4, InsideSteps
  <2>4. lesson[l] = "COMPLETED" /\ \A q \in Procs : ~PaysFor(q, l)
    BY <1>0, <2>1, <2>3 DEF HasJob, PaysFor
  <2>5. txn[l].status = "PAID" \/ l \in abandoned
    BY <1>0, <2>1, <2>4 DEF Settles
  <2> QED BY <2>1, <2>2, <2>3, <2>4, <2>5, CarryJobInv
<1>5. CASE (RecordCredit(p) /\ UNCHANGED lessons) \/ CreateRequest(p)
  <2>1. UNCHANGED <<txn, abandoned, lesson>>
    BY <1>5 DEF RecordCredit, CreateRequest
  <2> QED BY <1>5, <2>1, InsideSteps, LeaveJobInv
<1> QED BY <1>1, <1>2, <1>3, <1>4, <1>5 DEF LessonStep

\* Their beginning.
LEMMA StartJobInv ==
  ASSUME IInv, JobInv, NEW p \in Procs, NEW l \in LessonSet, StartComplete(p, l) \/ StartNoShow(p, l)
  PROVE  JobInv'
<1>1. PICK pc \in {"saveCompleted", "saveNoShow"} : Begin(p, pc, l)
  BY DEF StartComplete, StartNoShow
<1>2. PICK copy : copy = order
  OBVIOUS
<1>3. PICK e : e = [Idle EXCEPT !.pc = pc, !.job = l, !.seen = copy]
  OBVIOUS
<1>4. e = [pc |-> e.pc, amount |-> e.amount, ids |-> e.ids, job |-> e.job, seen |-> e.seen]
      /\ e.pc = pc /\ e.job = l
  BY <1>3 DEF Idle
<1>5. proc[p].pc = "idle" /\ Free(l) /\ proc' = [proc EXCEPT ![p] = e]
  BY <1>1, <1>2, <1>3 DEF Begin, At
<1>6. Moved(p) /\ proc'[p] = e
  BY <1>4, <1>5 DEF IInv, Shape, Moved, ProcShape
<1>7. lesson[l] # "COMPLETED" /\ UNCHANGED <<txn, abandoned, lesson>>
  BY DEF StartComplete, StartNoShow, Active, StaysEarned, lessons, records
<1> QED BY <1>4, <1>5, <1>6, <1>7, BeginJobInv

\* A lesson whose execution died is remembered.
LEMMA AbandonJobInv ==
  ASSUME IInv, JobInv, NEW p \in Procs, Abandon(p)
  PROVE  JobInv'
<1>1. Finish(p) /\ abandoned' = abandoned \cup ({proc[p].job} \cap LessonSet) /\ UNCHANGED <<txn, lesson>>
  BY DEF Abandon, Die, records
<1>2. CASE proc[p].pc \in LessonAwaits
  <2>1. Leaves(p)
    BY <1>1, <1>2, Quits DEF IInv, Working, Leaves
  <2> QED BY <1>1, <2>1, LeaveJobInv DEF Leaves
<1>3. CASE proc[p].pc \notin LessonAwaits
  BY <1>1, <1>3, EndsOutside, OutsideJobInv
<1> QED BY <1>2, <1>3

\* What is done in one step happens to lessons nobody works on.
LEMMA OtherJobInv ==
  ASSUME IInv, JobInv,
         \/ \E l \in LessonSet : Cancel(l) \/ Move(l) \/ Propose(l) \/ Answer(l)
         \/ \E role \in Roles : \/ MarkRead(role, LessonSet)
                                \/ \E l \in LessonSet : MarkRead(role, {l})
         \/ (\E a \in Gifts : AddWalletBalance(a)) /\ UNCHANGED lessons
         \/ (AccountChanges \/ AccountUpdated) /\ UNCHANGED lessons
         \/ UNCHANGED vars
  PROVE  JobInv'
<1>1. ASSUME NEW l \in LessonSet, Cancel(l) \/ Move(l) \/ Propose(l) \/ Answer(l)
      PROVE  JobInv'
  <2>1. PICK status \in {"CANCELLED", "RESCHEDULED", "PENDING_RESCHEDULE", "BOOKED"} : Set(l, status)
    BY <1>1 DEF Cancel, Move, Propose, Answer
  <2>2. lesson[l] # "COMPLETED"
    BY <1>1 DEF Cancel, Move, Propose, Answer, Active
  <2>3. lesson' = [lesson EXCEPT ![l] = status] /\ Free(l) /\ UNCHANGED <<proc, txn, abandoned>>
    BY <2>1 DEF Set, earnings
  <2>4. \A k \in LessonSet : \/ lesson'[k] = lesson[k]
                             \/ Free(k) /\ lesson[k] # "COMPLETED" /\ lesson'[k] # "COMPLETED"
    BY <2>2, <2>3 DEF IInv, Shape
  <2> QED BY <2>3, <2>4, StillJobInv
<1>2. CASE \/ \E role \in Roles : \/ MarkRead(role, LessonSet)
                                  \/ \E l \in LessonSet : MarkRead(role, {l})
           \/ (\E a \in Gifts : AddWalletBalance(a)) /\ UNCHANGED lessons
           \/ (AccountChanges \/ AccountUpdated) /\ UNCHANGED lessons
           \/ UNCHANGED vars
  <2>1. UNCHANGED <<proc, txn, lesson, abandoned>>
    BY <1>2 DEF MarkRead, AddWalletBalance, AccountChanges, AccountUpdated, earnings, lessons, vars, records
  <2> QED BY <2>1, StillJobInv
<1> QED BY <1>1, <1>2

\* Every step keeps JobInv.
LEMMA NextJobInv ==
  ASSUME IInv, JobInv, [Next]_vars
  PROVE  JobInv'
<1>1. ASSUME NEW p \in Procs, Work(p) PROVE JobInv'
  <2>1. CASE LessonStep(p)
    BY <2>1, LessonJobInv
  <2>2. CASE Continue(p) /\ UNCHANGED lessons
    <3>1. UNCHANGED <<lesson, abandoned>>
      BY <2>2 DEF lessons
    <3>2. Outside(p) \/ IncBalance(p) \/ MarkCredited(p) \/ RecordCredit(p)
      BY <2>2, FastCashOutside, WeeklyOutside DEF Continue
    <3> QED BY <2>2, <3>1, <3>2, OutsideJobInv, LessonJobInv
  <2> QED BY <1>1, <2>1, <2>2 DEF Work
<1>2. ASSUME NEW p \in Procs, StartWeekly(p) \/ \E a \in Amounts : StartFastCash(p, a), UNCHANGED lessons
      PROVE  JobInv'
  <2>1. UNCHANGED <<lesson, abandoned>>
    BY <1>2 DEF lessons
  <2> QED BY <1>2, <2>1, StartOutside, OutsideJobInv
<1> QED BY <1>1, <1>2, StartJobInv, AbandonJobInv, OtherJobInv DEF Next

\* JobInv holds for every behaviour.
LEMMA JobInvariant == Spec => [](IInv /\ JobInv)
<1>1. Init => IInv /\ JobInv
  BY InitIInv, InitJobInv
<1>2. IInv /\ JobInv /\ [Next]_vars => (IInv /\ JobInv)'
  BY NextIInv, NextJobInv
<1> QED BY <1>1, <1>2, PTL DEF Spec

-----------------------------------------------------------------------------
(* What a step does to the hours taught and to the learner's credits *)

Counting == {"addHours", "findCredits", "saveCredit"}

\* p is not counting hours or consuming credits, or stops to.
Aside(p) ==
  /\ Moved(p) /\ proc'[p].pc \notin Counting
  /\ proc[p].pc \in Counting => abandoned' # {}
  /\ \A l \in LessonSet : lesson'[l] = "COMPLETED" <=> lesson[l] = "COMPLETED"
  /\ abandoned \subseteq abandoned' /\ UNCHANGED <<taught, credit>>
Quiet ==
  /\ \A l \in LessonSet : lesson'[l] = "COMPLETED" <=> lesson[l] = "COMPLETED"
  /\ UNCHANGED <<proc, abandoned, taught, credit>>

\* Who works on no lesson is aside.
LEMMA OutsideAside ==
  ASSUME NEW p \in Procs, Outside(p), abandoned \subseteq abandoned', UNCHANGED <<lesson, taught, credit>>
  PROVE  Aside(p)
BY DEF Outside, Aside, Counting, LessonAwaits

\* Four steps count or consume, the others are aside.
LEMMA WorkKinds ==
  ASSUME IInv, JobInv, NEW p \in Procs, Work(p)
  PROVE  SaveCompleted(p) \/ AddHours(p) \/ FindCredits(p) \/ SaveCredit(p) \/ Aside(p)
<1> USE DEF StaysEarned, Counting
<1>0. Shape /\ HasJob(p)
  BY DEF IInv, JobInv
<1>1. CASE CreateTxn(p) \/ CreateRequest(p)
  <2>1. UNCHANGED <<lesson, taught, credit, abandoned>>
    BY <1>1 DEF CreateTxn, CreateRequest, lessons
  <2> QED BY <1>1, <2>1, InsideSteps DEF Aside, Carries, Leaves
<1>2. CASE SaveNoShow(p)
  <2>1. UNCHANGED <<taught, credit, abandoned>> /\ lesson' = [lesson EXCEPT ![proc[p].job] = "NOSHOW_REQUESTED"]
    BY <1>2 DEF SaveNoShow
  <2>2. \A l \in LessonSet : lesson'[l] = "COMPLETED" <=> lesson[l] = "COMPLETED"
    BY <1>0, <1>2, <2>1, InsideSteps DEF Shape, HasJob, Early, Carries
  <2> QED BY <1>2, <2>1, <2>2, InsideSteps DEF Aside, Carries
<1>3. CASE Continue(p) /\ UNCHANGED lessons
  <2>1. UNCHANGED <<lesson, taught, credit, abandoned>>
    BY <1>3 DEF lessons
  <2>2. CASE IncBalance(p) \/ MarkCredited(p) \/ RecordCredit(p)
    BY <2>1, <2>2, InsideSteps DEF Aside, Carries, Leaves
  <2>3. Outside(p) \/ IncBalance(p) \/ MarkCredited(p) \/ RecordCredit(p)
    BY <1>3, FastCashOutside, WeeklyOutside DEF Continue
  <2> QED BY <2>1, <2>2, <2>3, OutsideAside
<1> QED BY <1>1, <1>2, <1>3 DEF Work, LessonStep

\* Who begins or dies is aside.
LEMMA StartKinds ==
  ASSUME IInv, JobInv, NEW p \in Procs,
         \/ \E l \in LessonSet : StartComplete(p, l) \/ StartNoShow(p, l)
         \/ StartWeekly(p) /\ UNCHANGED lessons
         \/ \E a \in Amounts : StartFastCash(p, a) /\ UNCHANGED lessons
         \/ Abandon(p)
  PROVE  Aside(p)
<1>1. ASSUME NEW l \in LessonSet, StartComplete(p, l) \/ StartNoShow(p, l) PROVE Aside(p)
  <2>1. PICK pc \in {"saveCompleted", "saveNoShow"} : Begin(p, pc, l)
    BY <1>1 DEF StartComplete, StartNoShow
  <2>2. UNCHANGED <<lesson, abandoned, taught, credit>>
    BY <1>1 DEF StartComplete, StartNoShow, lessons
  <2>3. PICK copy : copy = order
    OBVIOUS
  <2>4. PICK e : e = [Idle EXCEPT !.pc = pc, !.job = l, !.seen = copy]
    OBVIOUS
  <2>5. e = [pc |-> e.pc, amount |-> e.amount, ids |-> e.ids, job |-> e.job, seen |-> e.seen]
        /\ e.pc = pc
    BY <2>4 DEF Idle
  <2>6. proc[p].pc = "idle" /\ proc' = [proc EXCEPT ![p] = e]
    BY <2>1, <2>3, <2>4 DEF Begin, At
  <2>7. Moved(p) /\ proc'[p] = e
    BY <2>5, <2>6 DEF IInv, Shape, Moved, ProcShape
  <2> QED BY <2>2, <2>5, <2>6, <2>7 DEF Aside, Counting
<1>2. CASE (StartWeekly(p) \/ \E a \in Amounts : StartFastCash(p, a)) /\ UNCHANGED lessons
  <2>1. UNCHANGED <<lesson, abandoned, taught, credit>>
    BY <1>2 DEF lessons
  <2> QED BY <1>2, <2>1, StartOutside, OutsideAside
<1>3. CASE Abandon(p)
  <2>1. Finish(p) /\ abandoned' = abandoned \cup ({proc[p].job} \cap LessonSet)
        /\ UNCHANGED <<lesson, taught, credit>>
    BY <1>3 DEF Abandon, Die
  <2>2. Moved(p) /\ proc'[p].pc = "idle"
    BY <2>1, Quits DEF IInv
  <2>3. proc[p].pc \in Counting => proc[p].job \in LessonSet
    BY DEF IInv, Working, Counting, LessonAwaits
  <2> QED BY <2>1, <2>2, <2>3 DEF Aside, Counting
<1> QED BY <1>1, <1>2, <1>3

\* The rest is quiet.
LEMMA OtherKinds ==
  ASSUME IInv, JobInv,
         \/ \E l \in LessonSet : Cancel(l) \/ Move(l) \/ Propose(l) \/ Answer(l)
         \/ \E role \in Roles : \/ MarkRead(role, LessonSet)
                                \/ \E l \in LessonSet : MarkRead(role, {l})
         \/ (\E a \in Gifts : AddWalletBalance(a)) /\ UNCHANGED lessons
         \/ (AccountChanges \/ AccountUpdated) /\ UNCHANGED lessons
         \/ UNCHANGED vars
  PROVE  Quiet
<1>1. ASSUME NEW l \in LessonSet, Cancel(l) \/ Move(l) \/ Propose(l) \/ Answer(l)
      PROVE  Quiet
  <2>1. PICK status \in {"CANCELLED", "RESCHEDULED", "PENDING_RESCHEDULE", "BOOKED"} : Set(l, status)
    BY <1>1 DEF Cancel, Move, Propose, Answer
  <2>2. lesson[l] # "COMPLETED"
    BY <1>1 DEF Cancel, Move, Propose, Answer, Active
  <2>3. lesson' = [lesson EXCEPT ![l] = status] /\ UNCHANGED <<proc, taught, credit, abandoned>>
    BY <2>1 DEF Set, earnings
  <2> QED BY <2>2, <2>3 DEF IInv, Shape, Quiet
<1>2. CASE \/ \E role \in Roles : \/ MarkRead(role, LessonSet)
                                  \/ \E l \in LessonSet : MarkRead(role, {l})
           \/ (\E a \in Gifts : AddWalletBalance(a)) /\ UNCHANGED lessons
           \/ (AccountChanges \/ AccountUpdated) /\ UNCHANGED lessons
           \/ UNCHANGED vars
  <2>1. UNCHANGED <<proc, taught, lesson, credit, abandoned>>
    BY <1>2 DEF MarkRead, AddWalletBalance, AccountChanges, AccountUpdated, earnings, lessons, vars
  <2> QED BY <2>1 DEF Quiet
<1> QED BY <1>1, <1>2

\* So every step is one of six kinds.
LEMMA Kinds ==
  ASSUME IInv, JobInv, [Next]_vars
  PROVE  \/ \E p \in Procs : SaveCompleted(p) \/ AddHours(p) \/ FindCredits(p) \/ SaveCredit(p) \/ Aside(p)
         \/ Quiet
BY WorkKinds, StartKinds, OtherKinds DEF Next

-----------------------------------------------------------------------------
(* The hours of the profile *)

\* The completed lessons whose hours have been added.
Adds(p, l) == proc[p].job = l /\ proc[p].pc = "addHours"
Counted == {l \in Completed : ~ \E p \in Procs : Adds(p, l)}
HoursInv == abandoned = {} => taught = SumOf(Hours, Counted)

\* The counted lessons are some of the order.
LEMMA CountedFinite == IsFiniteSet(Counted) /\ Counted \subseteq LessonSet
<1>1. Counted \subseteq LessonSet
  BY DEF Counted, Completed
<1> QED BY <1>1, LessonsAssumption, FS_Subset

\* Nothing is counted at first.
LEMMA InitHoursInv == Init => HoursInv
<1> SUFFICES ASSUME Init PROVE HoursInv
  OBVIOUS
<1>1. Counted = {} /\ taught = 0
  BY DEF Init, LessonsInit, Counted, Completed
<1> QED BY <1>1, SumEmpty DEF HoursInv

\* A step that counts no lesson.
LEMMA SameCounted ==
  ASSUME HoursInv, Counted' = Counted, UNCHANGED taught, abandoned \subseteq abandoned'
  PROVE  HoursInv'
BY DEF HoursInv

\* Every step keeps HoursInv.
LEMMA NextHoursInv ==
  ASSUME IInv, JobInv, HoursInv, [Next]_vars
  PROVE  HoursInv'
<1>0. Shape /\ \A p \in Procs : HasJob(p)
  BY DEF IInv, JobInv
<1>1. ASSUME NEW p \in Procs, SaveCompleted(p) PROVE HoursInv'
  <2>1. Carries(p, "addHours") /\ proc[p].pc = "saveCompleted"
    BY <1>1, InsideSteps
  <2>2. PICK l \in LessonSet : l = proc[p].job
    BY <2>1 DEF Carries
  <2>3. lesson' = [lesson EXCEPT ![l] = "COMPLETED"] /\ UNCHANGED <<taught, abandoned>>
    BY <1>1, <2>2 DEF SaveCompleted
  <2>4. l \notin Completed /\ Completed' = Completed \cup {l}
    BY <1>0, <2>1, <2>2, <2>3 DEF HasJob, Early, LessonAwaits, Completed, Shape
  <2>5. Adds(p, l)' /\ \A q \in Procs, k \in LessonSet \ {l} : Adds(q, k)' <=> Adds(q, k)
    BY <2>1, <2>2 DEF Adds, Carries, Moved
  <2>6. Counted' = Counted
    BY <2>4, <2>5 DEF Counted, Completed
  <2> QED BY <2>3, <2>6, SameCounted
<1>2. ASSUME NEW p \in Procs, AddHours(p) PROVE HoursInv'
  <2>1. Carries(p, "findCredits") /\ proc[p].pc = "addHours"
    BY <1>2, InsideSteps
  <2>2. PICK l \in LessonSet : l = proc[p].job
    BY <2>1 DEF Carries
  <2>3. UNCHANGED <<lesson, abandoned>> /\ taught' = taught + Hours[l]
    BY <1>2, <2>2 DEF AddHours
  <2>4. l \in Completed /\ Completed' = Completed
    BY <1>0, <2>1, <2>2, <2>3 DEF HasJob, Early, LessonAwaits, Completed
  <2>5. Adds(p, l) /\ (\A q \in Procs : ~Adds(q, l)')
        /\ \A q \in Procs, k \in LessonSet \ {l} : Adds(q, k)' <=> Adds(q, k)
    BY <1>0, <2>1, <2>2 DEF Adds, Carries, Moved, HasJob, LessonAwaits
  <2>6. Counted' = Counted \cup {l} /\ l \notin Counted
    BY <2>4, <2>5 DEF Counted, Completed
  <2>7. SumOf(Hours, Counted \cup {l}) = SumOf(Hours, Counted) + Hours[l]
    <3>1. \A k \in Counted \cup {l} : Hours[k] \in Int
      BY CountedFinite, LessonsAssumption
    <3> QED BY <2>6, <3>1, CountedFinite, SumAdd
  <2> QED BY <2>3, <2>6, <2>7 DEF HoursInv
<1>3. ASSUME NEW p \in Procs, FindCredits(p) \/ SaveCredit(p) PROVE HoursInv'
  <2>1. proc[p].pc # "addHours" /\ proc'[p].pc # "addHours" /\ Moved(p)
    BY <1>3, InsideSteps DEF Carries
  <2>2. UNCHANGED <<lesson, taught, abandoned>>
    BY <1>3 DEF FindCredits, SaveCredit, lessons
  <2>3. \A q \in Procs, k \in LessonSet : Adds(q, k)' <=> Adds(q, k)
    BY <2>1 DEF Adds, Moved
  <2> QED BY <2>2, <2>3, SameCounted DEF Counted, Completed
<1>4. ASSUME NEW p \in Procs, Aside(p) PROVE HoursInv'
  <2>1. CASE proc[p].pc \in Counting
    BY <1>4, <2>1 DEF Aside, HoursInv
  <2>2. CASE proc[p].pc \notin Counting
    <3>1. \A q \in Procs, k \in LessonSet : Adds(q, k)' <=> Adds(q, k)
      BY <1>4, <2>2 DEF Adds, Aside, Moved, Counting
    <3> QED BY <1>4, <3>1, SameCounted DEF Counted, Completed, Aside
  <2> QED BY <2>1, <2>2
<1>5. ASSUME Quiet PROVE HoursInv'
  BY <1>5, SameCounted DEF Quiet, Counted, Completed, Adds
<1> QED BY <1>1, <1>2, <1>3, <1>4, <1>5, Kinds

\* When no execution is under way, all completed lessons are counted and paid.
LEMMA PaidImplies == IInv /\ JobInv /\ HoursInv => PaidForCompleted
<1> SUFFICES ASSUME IInv, JobInv, HoursInv, \A l \in LessonSet : Free(l), abandoned = {}
             PROVE  Completed = {l \in LessonSet : txn[l].status = "PAID"} /\ taught = SumOf(Hours, Completed)
  BY DEF PaidForCompleted
<1>1. \A l \in LessonSet, p \in Procs : ~PaysFor(p, l) /\ ~Adds(p, l)
  BY DEF Free, PaysFor, Adds
<1>2. Completed = {l \in LessonSet : txn[l].status = "PAID"}
  BY <1>1 DEF JobInv, Settles, Completed
<1>3. Counted = Completed
  BY <1>1 DEF Counted, Completed
<1> QED BY <1>2, <1>3 DEF HoursInv

-----------------------------------------------------------------------------
(* Credits are consumed first in first out *)

Gives(copy, hours) == [c \in CreditIds |-> Applied(c, copy, hours)]

\* The credits are finitely many.
LEMMA CreditIdsFinite == Len(Credits) \in Nat /\ IsFiniteSet(CreditIds) /\ CreditIds \subseteq Nat
<1>1. Len(Credits) \in Nat
  BY CreditsAssumption
<1> QED BY <1>1, FS_Interval DEF CreditIds

\* Their hours and rates.
LEMMA CreditsTyped ==
  ASSUME NEW c \in CreditIds
  PROVE  Credits[c].hours \in Nat /\ Credits[c].rate \in Nat /\ Credits[c].rate <= 100
<1>1. PICK T : T = [hours : Nat, rate : 0..100]
  OBVIOUS
<1>2. Credits \in Seq(T)
  BY <1>1, CreditsAssumption
<1>3. Credits[c] \in T
  BY <1>2 DEF CreditIds
<1> QED BY <1>1, <1>3

\* No credit gives more than it has, all of them together no more than the lesson.
LEMMA Fifo ==
  ASSUME NEW copy, \A c \in CreditIds : copy[c].remaining \in Nat, NEW hours \in Nat
  PROVE  /\ \A c \in CreditIds : /\ Applied(c, copy, hours) \in Nat
                                 /\ Applied(c, copy, hours) <= copy[c].remaining
         /\ SumOf(Gives(copy, hours), CreditIds) <= hours
<1> DEFINE has == [b \in CreditIds |-> Available(b, copy)]
           n == Len(Credits)
           gives == Gives(copy, hours)
<1>0. n \in Nat /\ CreditIds = 1..n
  BY CreditIdsFinite DEF CreditIds
<1>1. \A c \in CreditIds : has[c] \in Nat /\ has[c] = copy[c].remaining
  BY DEF Available
<1>2. ASSUME NEW k \in Nat PROVE IsFiniteSet(1..k)
  BY FS_Interval
<1>3. ASSUME NEW k \in Nat, k <= n PROVE SumOf(has, 1..k) \in Nat
  <2>1. \A x \in 1..k : x \in CreditIds
    BY <1>0, <1>3
  <2>2. \A x \in 1..k : has[x] \in Nat
    BY <1>1, <2>1, Zenon
  <2>3. IsFiniteSet(1..k)
    BY <1>2, <1>3
  <2> HIDE DEF has
  <2> QED BY <2>2, <2>3, SumNat, Zenon
<1>4. ASSUME NEW c \in CreditIds PROVE Before(c, copy) = SumOf(has, 1..(c - 1)) /\ Before(c, copy) \in Nat
  <2>1. c - 1 \in Nat /\ c - 1 <= n
    BY <1>0
  <2> QED BY <1>3, <2>1 DEF Before
<1>5. ASSUME NEW c \in CreditIds
      PROVE  /\ gives[c] = Applied(c, copy, hours)
             /\ gives[c] \in Nat /\ gives[c] <= has[c]
             /\ gives[c] = IF Before(c, copy) >= hours THEN 0 ELSE Least(hours - Before(c, copy), has[c])
  <2>1. gives[c] = IF Before(c, copy) >= hours THEN 0 ELSE Least(hours - Before(c, copy), has[c])
    BY DEF Applied, Gives
  <2>2. gives[c] = Applied(c, copy, hours)
    BY DEF Gives
  <2> HIDE DEF gives, has
  <2>3. has[c] \in Nat /\ Before(c, copy) \in Nat
    BY <1>1, <1>4
  <2> QED BY <2>1, <2>2, <2>3 DEF Least
<1> HIDE DEF gives, has
<1> DEFINE T == {k \in Nat : k <= n => SumOf(gives, 1..k) = Least(hours, SumOf(has, 1..k))}
<1>6. 0 \in T
  <2>1. 1..0 = {}
    OBVIOUS
  <2>2. SumOf(gives, 1..0) = 0 /\ SumOf(has, 1..0) = 0
    BY <2>1, SumEmpty
  <2> QED BY <2>2 DEF Least
<1>7. ASSUME NEW k \in Nat, k \in T PROVE k + 1 \in T
  <2>1. SUFFICES ASSUME k + 1 <= n
                 PROVE  SumOf(gives, 1..(k + 1)) = Least(hours, SumOf(has, 1..(k + 1)))
    OBVIOUS
  <2>2. k + 1 \in CreditIds /\ 1..(k + 1) = (1..k) \cup {k + 1} /\ k + 1 \notin 1..k /\ 1..(k + 1) \subseteq CreditIds
    BY <1>0, <2>1
  <2>a. \A y \in (1..k) \cup {k + 1} : gives[y] \in Int /\ has[y] \in Int
    BY <1>1, <1>5, <2>2
  <2>b. IsFiniteSet(1..k)
    BY <1>2
  <2>c. PICK S, x : S = 1..k /\ x = k + 1
    OBVIOUS
  <2>d. IsFiniteSet(S) /\ x \notin S /\ \A y \in S \cup {x} : gives[y] \in Int /\ has[y] \in Int
    BY <2>2, <2>a, <2>b, <2>c
  <2>e. SumOf(gives, S \cup {x}) = SumOf(gives, S) + gives[x]
    BY <2>d, SumAdd
  <2>f. SumOf(has, S \cup {x}) = SumOf(has, S) + has[x]
    BY <2>d, SumAdd
  <2>3. SumOf(gives, (1..k) \cup {k + 1}) = SumOf(gives, 1..k) + gives[k + 1]
    BY <2>c, <2>e
  <2>4. SumOf(has, (1..k) \cup {k + 1}) = SumOf(has, 1..k) + has[k + 1]
    BY <2>c, <2>f
  <2>5. Before(k + 1, copy) = SumOf(has, 1..k) /\ SumOf(has, 1..k) \in Nat
    <3>1. (k + 1) - 1 = k
      OBVIOUS
    <3> QED BY <1>4, <2>2, <3>1
  <2>6. SumOf(gives, 1..k) = Least(hours, SumOf(has, 1..k))
    BY <1>7, <2>1
  <2>7. /\ gives[k + 1] = IF SumOf(has, 1..k) >= hours THEN 0 ELSE Least(hours - SumOf(has, 1..k), has[k + 1])
        /\ has[k + 1] \in Nat
    BY <1>1, <1>5, <2>2, <2>5
  <2>8. SumOf(gives, 1..k) + gives[k + 1] = Least(hours, SumOf(has, 1..k) + has[k + 1])
    BY <2>5, <2>6, <2>7 DEF Least
  <2> QED BY <2>2, <2>3, <2>4, <2>8
<1> HIDE DEF T
<1>8. n \in T
  BY <1>0, <1>6, <1>7, CountInduction
<1>9. SumOf(gives, 1..n) = Least(hours, SumOf(has, 1..n))
  BY <1>0, <1>8 DEF T
<1>10. SumOf(gives, CreditIds) <= hours
  <2>1. SumOf(has, 1..n) \in Nat
    BY <1>0, <1>3
  <2> HIDE DEF n
  <2> QED BY <1>0, <1>9, <2>1 DEF Least
<1> QED BY <1>1, <1>5, <1>10 DEF gives

\* Copies of the learner's credits, stored or found.
CopyOK(copy) ==
  /\ copy \in [CreditIds -> [remaining : Nat, consumed : Nat]]
  /\ \A c \in CreditIds : copy[c].remaining + copy[c].consumed = Credits[c].hours

\* The discount collected so far and still to come never exceeds the lesson.
Consumes == {"saveCompleted", "addHours", "findCredits", "saveCredit", "createTxn"}
Consuming(p) ==
  /\ proc[p].pc \in {"saveCompleted", "addHours", "findCredits"} => proc[p].amount = 0
  /\ proc[p].pc = "saveCredit" =>
       /\ CopyOK(proc[p].seen)
       /\ proc[p].ids \subseteq CreditIds /\ proc[p].ids # {} /\ proc[p].amount \in Nat
       /\ proc[p].amount + 100 * SumOf(Gives(proc[p].seen, Hours[proc[p].job]), proc[p].ids)
            <= 100 * Hours[proc[p].job]
  /\ proc[p].pc = "createTxn" => proc[p].amount \in Nat /\ proc[p].amount <= 100 * Hours[proc[p].job]

CreditInv == CopyOK(credit) /\ \A p \in Procs : Consuming(p)

\* Nothing is consumed at first.
LEMMA InitCreditInv == Init => CreditInv
<1> SUFFICES ASSUME Init PROVE CreditInv
  OBVIOUS
<1>1. \A p \in Procs : proc[p] = Idle
  BY DEF Init, EarningsInit, FundsInit
<1>2. \A p \in Procs : Consuming(p)
  BY <1>1 DEF Consuming, Idle
<1>3. credit = [c \in CreditIds |-> [remaining |-> Credits[c].hours, consumed |-> 0]]
  BY DEF Init, LessonsInit
<1>4. ASSUME NEW c \in CreditIds PROVE Credits[c].hours \in Nat
  BY CreditsTyped
<1>5. CopyOK(credit)
  BY <1>3, <1>4 DEF CopyOK
<1> QED BY <1>2, <1>5 DEF CreditInv

\* One execution moves, the credits stay sound.
LEMMA ConsumeStep ==
  ASSUME CreditInv, NEW p \in Procs, Moved(p), Consuming(p)', CopyOK(credit)'
  PROVE  CreditInv'
BY DEF CreditInv, Moved, Consuming

\* Goto leaves all fields but pc alone.
LEMMA GoesOn ==
  ASSUME Shape, NEW p \in Procs, NEW pc, Goto(p, pc)
  PROVE  /\ proc'[p].amount = proc[p].amount /\ proc'[p].seen = proc[p].seen
         /\ proc'[p].ids = proc[p].ids /\ proc'[p].job = proc[p].job
BY DEF Shape, ProcShape, Goto

\* What FindCredits writes.
LEMMA FindsCredits ==
  ASSUME IInv, NEW p \in Procs, FindCredits(p)
  PROVE  \E ids : /\ ids = ToSave(credit, Hours[proc[p].job])
                  /\ proc'[p].ids = ids /\ proc'[p].seen = credit
                  /\ proc'[p].amount = proc[p].amount /\ proc'[p].job = proc[p].job
                  /\ proc'[p].pc = IF ids = {} THEN "createTxn" ELSE "saveCredit"
<1>1. PICK ids : ids = ToSave(credit, Hours[proc[p].job])
  OBVIOUS
<1>2. PICK pc \in {"createTxn", "saveCredit"} : pc = IF ids = {} THEN "createTxn" ELSE "saveCredit"
  OBVIOUS
<1>3. proc' = [proc EXCEPT ![p].seen = credit, ![p].ids = ids, ![p].pc = pc]
  BY <1>1, <1>2 DEF FindCredits
<1>4. proc'[p] = [proc[p] EXCEPT !.seen = credit, !.ids = ids, !.pc = pc]
  BY <1>3 DEF IInv, Shape
<1>5. /\ proc'[p].ids = ids /\ proc'[p].seen = credit /\ proc'[p].amount = proc[p].amount
      /\ proc'[p].job = proc[p].job /\ proc'[p].pc = pc
  BY <1>4 DEF IInv, Shape, ProcShape
<1> QED BY <1>1, <1>2, <1>5

\* What SaveCredit writes.
LEMMA SavesCredit ==
  ASSUME IInv, CreditInv, NEW p \in Procs, SaveCredit(p)
  PROVE  \E c \in proc[p].ids : \E applied :
           /\ applied = Applied(c, proc[p].seen, Hours[proc[p].job])
           /\ proc'[p].ids = proc[p].ids \ {c} /\ proc'[p].seen = proc[p].seen
           /\ proc'[p].amount = proc[p].amount + applied * Credits[c].rate
           /\ proc'[p].job = proc[p].job
           /\ proc'[p].pc = IF proc[p].ids = {c} THEN "createTxn" ELSE "saveCredit"
           /\ credit' = [credit EXCEPT ![c] = [remaining |-> proc[p].seen[c].remaining - applied,
                                               consumed |-> proc[p].seen[c].consumed + applied]]
<1>0. proc[p].pc = "saveCredit" /\ proc[p].ids \subseteq Nat /\ proc[p].ids # {}
  BY CreditIdsFinite DEF CreditInv, Consuming, SaveCredit, At
<1>1. PICK c : c = Min(proc[p].ids)
  OBVIOUS
<1>2. c \in proc[p].ids
  BY <1>0, <1>1, SmallestNat DEF Min
<1>3. PICK applied : applied = Applied(c, proc[p].seen, Hours[proc[p].job])
  OBVIOUS
<1>4. PICK ids, amount : ids = proc[p].ids \ {c} /\ amount = proc[p].amount + applied * Credits[c].rate
  OBVIOUS
<1>5. PICK pc \in {"createTxn", "saveCredit"} : pc = IF proc[p].ids = {c} THEN "createTxn" ELSE "saveCredit"
  OBVIOUS
<1>6. proc' = [proc EXCEPT ![p].ids = ids, ![p].amount = amount, ![p].pc = pc]
  BY <1>1, <1>3, <1>4, <1>5 DEF SaveCredit, IInv, Shape
<1>7. proc'[p] = [proc[p] EXCEPT !.ids = ids, !.amount = amount, !.pc = pc]
  BY <1>6 DEF IInv, Shape
<1>8. /\ proc'[p].ids = ids /\ proc'[p].seen = proc[p].seen /\ proc'[p].amount = amount
      /\ proc'[p].job = proc[p].job /\ proc'[p].pc = pc
  BY <1>7 DEF IInv, Shape, ProcShape
<1>9. credit' = [credit EXCEPT ![c] = [remaining |-> proc[p].seen[c].remaining - applied,
                                       consumed |-> proc[p].seen[c].consumed + applied]]
  BY <1>1, <1>3 DEF SaveCredit
<1> QED BY <1>2, <1>3, <1>4, <1>5, <1>8, <1>9

\* Fifo for a sound copy.
LEMMA GivesNat ==
  ASSUME NEW copy, CopyOK(copy), NEW hours \in Nat
  PROVE  /\ \A c \in CreditIds : /\ Gives(copy, hours)[c] = Applied(c, copy, hours)
                                 /\ Applied(c, copy, hours) \in Nat
                                 /\ Applied(c, copy, hours) <= copy[c].remaining
                                 /\ copy[c].remaining \in Nat /\ copy[c].consumed \in Nat
         /\ SumOf(Gives(copy, hours), CreditIds) <= hours
         /\ SumOf(Gives(copy, hours), CreditIds) \in Nat
<1>1. \A c \in CreditIds : copy[c].remaining \in Nat /\ copy[c].consumed \in Nat
  BY DEF CopyOK
<1>2. /\ \A c \in CreditIds : Applied(c, copy, hours) \in Nat /\ Applied(c, copy, hours) <= copy[c].remaining
      /\ SumOf(Gives(copy, hours), CreditIds) <= hours
  BY <1>1, Fifo
<1>3. \A c \in CreditIds : Gives(copy, hours)[c] = Applied(c, copy, hours)
  BY DEF Gives
<1>4. SumOf(Gives(copy, hours), CreditIds) \in Nat
  BY <1>2, <1>3, CreditIdsFinite, SumNat
<1> QED BY <1>1, <1>2, <1>3, <1>4

\* The four steps that consume, and the rest.
LEMMA WorkConsumes ==
  ASSUME IInv, JobInv, NEW p \in Procs, Work(p)
  PROVE  \/ SaveCompleted(p) \/ AddHours(p) \/ FindCredits(p) \/ SaveCredit(p)
         \/ Moved(p) /\ proc'[p].pc \notin Consumes /\ UNCHANGED credit
<1> USE DEF StaysEarned, Consumes
<1>1. CASE CreateTxn(p) \/ CreateRequest(p) \/ SaveNoShow(p)
  <2>1. UNCHANGED credit
    BY <1>1 DEF CreateTxn, CreateRequest, SaveNoShow, lessons
  <2> QED BY <1>1, <2>1, InsideSteps DEF Carries, Leaves
<1>2. CASE Continue(p) /\ UNCHANGED lessons
  <2>1. UNCHANGED credit
    BY <1>2 DEF lessons
  <2>2. CASE IncBalance(p) \/ MarkCredited(p) \/ RecordCredit(p)
    BY <2>1, <2>2, InsideSteps DEF Carries, Leaves
  <2>3. Outside(p) \/ IncBalance(p) \/ MarkCredited(p) \/ RecordCredit(p)
    BY <1>2, FastCashOutside, WeeklyOutside DEF Continue
  <2> QED BY <2>1, <2>2, <2>3 DEF Outside, LessonAwaits
<1> QED BY <1>1, <1>2 DEF Work, LessonStep

\* The steps of an execution keep CreditInv.
LEMMA WorkCreditInv ==
  ASSUME IInv, JobInv, CreditInv, NEW p \in Procs, Work(p)
  PROVE  CreditInv'
<1> DEFINE h == Hours[proc[p].job]
<1>0. Shape /\ Consuming(p) /\ CopyOK(credit)
  BY DEF IInv, CreditInv
<1>1. CASE SaveCompleted(p) \/ AddHours(p)
  <2>1. /\ Moved(p) /\ proc'[p].pc \in {"addHours", "findCredits"}
        /\ proc[p].pc \in {"saveCompleted", "addHours"}
    BY <1>1, InsideSteps DEF Carries
  <2>2. proc'[p].amount = proc[p].amount
    BY <1>0, <1>1, GoesOn DEF SaveCompleted, AddHours
  <2>3. UNCHANGED credit
    BY <1>1 DEF SaveCompleted, AddHours
  <2>4. Consuming(p)'
    BY <1>0, <2>1, <2>2 DEF Consuming
  <2> QED BY <1>0, <2>1, <2>3, <2>4, ConsumeStep DEF CopyOK
<1>2. CASE FindCredits(p)
  <2>1. Moved(p) /\ proc[p].job \in LessonSet /\ proc[p].pc = "findCredits" /\ UNCHANGED credit
    BY <1>2, InsideSteps DEF Carries, FindCredits, lessons
  <2>2. h \in Nat
    BY <2>1, LessonsAssumption
  <2>3. PICK ids : /\ ids = ToSave(credit, h)
                   /\ proc'[p].ids = ids /\ proc'[p].seen = credit
                   /\ proc'[p].amount = proc[p].amount /\ proc'[p].job = proc[p].job
                   /\ proc'[p].pc = IF ids = {} THEN "createTxn" ELSE "saveCredit"
    BY <1>2, FindsCredits
  <2>4. ids \subseteq CreditIds /\ proc[p].amount = 0
    BY <1>0, <2>1, <2>3 DEF ToSave, Consuming
  <2>5. PICK gives : gives = Gives(credit, h)
    OBVIOUS
  <2>6. /\ \A c \in CreditIds : gives[c] \in Nat
        /\ SumOf(gives, CreditIds) <= h /\ SumOf(gives, CreditIds) \in Nat
    BY <1>0, <2>2, <2>5, GivesNat
  <2>7. SumOf(gives, ids) <= SumOf(gives, CreditIds)
    BY <2>4, <2>6, CreditIdsFinite, SumPart
  <2>8. SumOf(gives, ids) \in Nat
    <3>1. IsFiniteSet(ids)
      BY <2>4, CreditIdsFinite, FS_Subset
    <3> QED BY <2>4, <2>6, <3>1, SumNat
  <2>9. 0 + 100 * SumOf(gives, ids) <= 100 * h
    BY <2>2, <2>6, <2>7, <2>8
  <2>10. Consuming(p)'
    BY <1>0, <2>1, <2>2, <2>3, <2>4, <2>5, <2>9 DEF Consuming, CopyOK
  <2> QED BY <1>0, <2>1, <2>10, ConsumeStep DEF CopyOK
<1>3. CASE SaveCredit(p)
  <2>1. Moved(p) /\ proc[p].job \in LessonSet /\ proc[p].pc = "saveCredit"
    BY <1>3, InsideSteps DEF Carries
  <2>2. h \in Nat
    BY <2>1, LessonsAssumption
  <2>3. PICK copy, ids : copy = proc[p].seen /\ ids = proc[p].ids
    OBVIOUS
  <2>4. PICK c, applied :
           /\ c \in ids /\ applied = Applied(c, copy, h)
           /\ proc'[p].ids = ids \ {c} /\ proc'[p].seen = copy
           /\ proc'[p].amount = proc[p].amount + applied * Credits[c].rate
           /\ proc'[p].job = proc[p].job
           /\ proc'[p].pc = IF ids = {c} THEN "createTxn" ELSE "saveCredit"
           /\ credit' = [credit EXCEPT ![c] = [remaining |-> copy[c].remaining - applied,
                                               consumed |-> copy[c].consumed + applied]]
    BY <1>3, <2>3, SavesCredit
  <2>5. /\ CopyOK(copy) /\ ids \subseteq CreditIds /\ proc[p].amount \in Nat
        /\ proc[p].amount + 100 * SumOf(Gives(copy, h), ids) <= 100 * h
    BY <1>0, <2>1, <2>3 DEF Consuming
  <2>6. PICK gives : gives = Gives(copy, h)
    OBVIOUS
  <2>7. /\ \A d \in CreditIds : gives[d] \in Nat
        /\ gives[c] = applied /\ applied \in Nat /\ applied <= copy[c].remaining
        /\ copy[c].remaining \in Nat /\ copy[c].consumed \in Nat
    BY <2>2, <2>4, <2>5, <2>6, GivesNat
  <2>8. CopyOK(credit')
    <3>1. copy[c].remaining + copy[c].consumed = Credits[c].hours
      BY <2>4, <2>5 DEF CopyOK
    <3>2. PICK left, used : left = copy[c].remaining - applied /\ used = copy[c].consumed + applied
      OBVIOUS
    <3>3. left \in Nat /\ used \in Nat /\ left + used = Credits[c].hours
      BY <2>7, <3>1, <3>2
    <3>4. credit' = [credit EXCEPT ![c] = [remaining |-> left, consumed |-> used]]
      BY <2>4, <3>2
    <3>5. c \in CreditIds
      BY <2>4, <2>5
    <3> QED BY <1>0, <3>3, <3>4, <3>5 DEF CopyOK
  <2>9. IsFiniteSet(ids) /\ IsFiniteSet(ids \ {c})
    <3>1. IsFiniteSet(ids)
      BY <2>5, CreditIdsFinite, FS_Subset
    <3> QED BY <3>1, FS_RemoveElement
  <2>10. SumOf(gives, ids) = applied + SumOf(gives, ids \ {c})
    <3>1. \A d \in ids : gives[d] \in Int
      BY <2>5, <2>7
    <3> QED BY <2>4, <2>7, <2>9, <3>1, SumRemove
  <2>11. SumOf(gives, ids \ {c}) \in Nat
    <3>1. \A d \in ids \ {c} : gives[d] \in Nat
      BY <2>5, <2>7
    <3> QED BY <2>9, <3>1, SumNat
  <2>12. PICK rate \in Nat : rate = Credits[c].rate /\ rate <= 100
    BY <2>4, <2>5, CreditsTyped
  <2>13. applied * rate \in Nat /\ applied * rate <= 100 * applied
    BY <2>7, <2>12
  <2>14. /\ proc[p].amount + applied * rate \in Nat
         /\ (proc[p].amount + applied * rate) + 100 * SumOf(gives, ids \ {c}) <= 100 * h
         /\ proc[p].amount + applied * rate <= 100 * h
    BY <2>2, <2>5, <2>6, <2>7, <2>10, <2>11, <2>13
  <2>15. Consuming(p)'
    <3>1. CASE ids = {c}
      BY <2>4, <2>12, <2>14, <3>1 DEF Consuming
    <3>2. CASE ids # {c}
      <4>1. ids \ {c} # {} /\ ids \ {c} \subseteq CreditIds
        BY <2>4, <2>5, <3>2
      <4> QED BY <2>4, <2>5, <2>6, <2>12, <2>14, <3>2, <4>1 DEF Consuming, CopyOK
    <3> QED BY <3>1, <3>2
  <2>16. CopyOK(credit)'
    BY <2>8 DEF CopyOK
  <2> QED BY <2>1, <2>15, <2>16, ConsumeStep
<1>4. CASE Moved(p) /\ proc'[p].pc \notin Consumes /\ UNCHANGED credit
  <2>1. Consuming(p)'
    BY <1>4 DEF Consuming, Consumes
  <2> QED BY <1>0, <1>4, <2>1, ConsumeStep DEF CopyOK
<1> QED BY <1>1, <1>2, <1>3, <1>4, WorkConsumes

\* Every step keeps it.
LEMMA NextCreditInv ==
  ASSUME IInv, JobInv, CreditInv, [Next]_vars
  PROVE  CreditInv'
<1>0. CopyOK(credit)
  BY DEF CreditInv
<1>1. ASSUME NEW p \in Procs, NEW l \in LessonSet, StartComplete(p, l) \/ StartNoShow(p, l)
      PROVE  CreditInv'
  <2>1. PICK pc \in {"saveCompleted", "saveNoShow"} : Begin(p, pc, l)
    BY <1>1 DEF StartComplete, StartNoShow
  <2>2. PICK copy : copy = order
    OBVIOUS
  <2>3. PICK e : e = [Idle EXCEPT !.pc = pc, !.job = l, !.seen = copy]
    OBVIOUS
  <2>4. e = [pc |-> e.pc, amount |-> e.amount, ids |-> e.ids, job |-> e.job, seen |-> e.seen]
        /\ e.pc = pc /\ e.amount = 0
    BY <2>3 DEF Idle
  <2>5. proc' = [proc EXCEPT ![p] = e]
    BY <2>1, <2>2, <2>3 DEF Begin
  <2>6. Moved(p) /\ proc'[p] = e
    BY <2>4, <2>5 DEF IInv, Shape, Moved, ProcShape
  <2>7. Consuming(p)' /\ UNCHANGED credit
    BY <1>1, <2>4, <2>6 DEF Consuming, StartComplete, StartNoShow, lessons
  <2> QED BY <1>0, <2>6, <2>7, ConsumeStep DEF CopyOK
<1>2. ASSUME NEW p \in Procs,
             \/ (StartWeekly(p) \/ \E a \in Amounts : StartFastCash(p, a)) /\ UNCHANGED lessons
             \/ Abandon(p)
      PROVE  CreditInv'
  <2>1. UNCHANGED credit
    BY <1>2 DEF Abandon, lessons
  <2>2. Moved(p) /\ proc'[p].pc \notin Consumes
    <3>1. CASE Abandon(p)
      <4>1. Finish(p)
        BY <3>1 DEF Abandon, Die
      <4> QED BY <4>1, Quits DEF IInv, Consumes
    <3>2. CASE StartWeekly(p) \/ \E a \in Amounts : StartFastCash(p, a)
      BY <3>2, StartOutside DEF Outside, LessonAwaits, Consumes
    <3> QED BY <1>2, <3>1, <3>2
  <2>3. Consuming(p)'
    BY <2>2 DEF Consuming, Consumes
  <2> QED BY <1>0, <2>1, <2>2, <2>3, ConsumeStep DEF CopyOK
<1>3. ASSUME UNCHANGED <<proc, credit>> PROVE CreditInv'
  BY <1>3 DEF CreditInv, Consuming, CopyOK
<1>4. ASSUME \/ \E l \in LessonSet : Cancel(l) \/ Move(l) \/ Propose(l) \/ Answer(l)
             \/ \E role \in Roles : \/ MarkRead(role, LessonSet)
                                    \/ \E l \in LessonSet : MarkRead(role, {l})
             \/ (\E a \in Gifts : AddWalletBalance(a)) /\ UNCHANGED lessons
             \/ (AccountChanges \/ AccountUpdated) /\ UNCHANGED lessons
             \/ UNCHANGED vars
      PROVE  UNCHANGED <<proc, credit>>
  BY <1>4, OtherKinds DEF Quiet
<1> QED BY <1>1, <1>2, <1>3, <1>4, WorkCreditInv DEF Next

-----------------------------------------------------------------------------
(* Whose hours a credit was consumed for *)

\* A[l][c] is what lesson l took from credit c, as far as any copy shows it:
\* copies that were found before a save may lose it again, never invent it.
Tables == [LessonSet -> [CreditIds -> Nat]]
Col(A, c) == [l \in LessonSet |-> A[l][c]]
Asks(p, l) == proc[p].job = l /\ proc[p].pc \in {"addHours", "findCredits"}
Shows(A, p) ==
  proc[p].pc = "saveCredit" =>
    \A c \in CreditIds :
      /\ proc[p].seen[c].consumed <= SumOf(Col(A, c), LessonSet \ {proc[p].job})
      /\ Applied(c, proc[p].seen, Hours[proc[p].job]) <= A[proc[p].job][c]
Traced(A) ==
  /\ \A l \in LessonSet : SumOf(A[l], CreditIds) <= Hours[l]
  /\ \A l \in LessonSet : (\E c \in CreditIds : A[l][c] # 0) =>
       lesson[l] = "COMPLETED" /\ ~ \E p \in Procs : Asks(p, l)
  /\ \A c \in CreditIds : credit[c].consumed <= SumOf(Col(A, c), LessonSet)
  /\ \A p \in Procs : Shows(A, p)
TraceInv == \E A \in Tables : Traced(A)

\* The columns of a table have sums.
LEMMA ColNat ==
  ASSUME NEW A \in Tables, NEW c \in CreditIds, NEW S \in SUBSET LessonSet
  PROVE  /\ \A l \in LessonSet : Col(A, c)[l] = A[l][c] /\ A[l][c] \in Nat
         /\ SumOf(Col(A, c), S) \in Nat /\ IsFiniteSet(S)
<1>1. \A l \in LessonSet : Col(A, c)[l] = A[l][c] /\ A[l][c] \in Nat
  BY DEF Tables, Col
<1>2. IsFiniteSet(S)
  BY LessonsAssumption, FS_Subset
<1>3. SumOf(Col(A, c), S) \in Nat
  BY <1>1, <1>2, SumNat
<1> QED BY <1>1, <1>2, <1>3

\* The empty table traces nothing.
LEMMA InitTraceInv == Init => TraceInv
<1> SUFFICES ASSUME Init PROVE TraceInv
  OBVIOUS
<1> DEFINE A == [l \in LessonSet |-> [c \in CreditIds |-> 0]]
<1>1. A \in Tables
  BY DEF Tables
<1>2. \A l \in LessonSet, c \in CreditIds : A[l][c] = 0
  OBVIOUS
<1> HIDE DEF A
<1>3. ASSUME NEW l \in LessonSet PROVE SumOf(A[l], CreditIds) <= Hours[l]
  <2>1. SumOf(A[l], CreditIds) = 0
    BY <1>2, CreditIdsFinite, SumZero
  <2>2. Hours[l] \in Nat
    BY LessonsAssumption
  <2> QED BY <2>1, <2>2
<1>4. ASSUME NEW c \in CreditIds PROVE credit[c].consumed <= SumOf(Col(A, c), LessonSet)
  <2>1. credit[c].consumed = 0
    BY DEF Init, LessonsInit
  <2>2. SumOf(Col(A, c), LessonSet) \in Nat
    BY <1>1, ColNat
  <2> QED BY <2>1, <2>2
<1>5. \A p \in Procs : Shows(A, p)
  BY DEF Init, EarningsInit, FundsInit, Idle, Shows
<1> QED BY <1>1, <1>2, <1>3, <1>4, <1>5 DEF TraceInv, Traced

\* A step after which the same table explains the copies.
LEMMA KeepTrace ==
  ASSUME NEW A \in Tables, Traced(A), NEW p \in Procs, Moved(p),
         \A l \in LessonSet : lesson[l] = "COMPLETED" => lesson'[l] = "COMPLETED",
         proc'[p].pc = "saveCredit" => /\ proc[p].pc = "saveCredit" /\ proc'[p].job = proc[p].job
                                       /\ proc'[p].seen = proc[p].seen,
         proc'[p].pc \in {"addHours", "findCredits"} =>
           \A l \in LessonSet : proc'[p].job = l => \A c \in CreditIds : A[l][c] = 0,
         \A c \in CreditIds : credit'[c].consumed <= SumOf(Col(A, c), LessonSet)
  PROVE  TraceInv'
<1>1. ASSUME NEW q \in Procs PROVE Shows(A, q)'
  BY DEF Traced, Shows, Moved
<1>2. ASSUME NEW l \in LessonSet, NEW c \in CreditIds, A[l][c] # 0
      PROVE  lesson'[l] = "COMPLETED" /\ ~ \E q \in Procs : Asks(q, l)'
  <2>1. lesson'[l] = "COMPLETED" /\ ~ \E q \in Procs : Asks(q, l)
    BY <1>2 DEF Traced
  <2>2. ~Asks(p, l)'
    BY <1>2 DEF Asks
  <2>3. \A q \in Procs \ {p} : Asks(q, l)' <=> Asks(q, l)
    BY DEF Asks, Moved
  <2> QED BY <2>1, <2>2, <2>3
<1>3. Traced(A)'
  BY <1>1, <1>2 DEF Traced
<1> QED BY <1>3 DEF TraceInv, Tables

\* FindCredits writes down the row of its lesson.
LEMMA FindTrace ==
  ASSUME IInv, JobInv, CreditInv, TraceInv, NEW p \in Procs, FindCredits(p)
  PROVE  TraceInv'
<1>1. Moved(p) /\ proc[p].pc = "findCredits" /\ UNCHANGED <<credit, lesson>>
  BY InsideSteps DEF Carries, FindCredits, lessons
<1>2. PICK l \in LessonSet : l = proc[p].job
  BY InsideSteps DEF Carries
<1>3. PICK h \in Nat : h = Hours[l]
  BY LessonsAssumption
<1>4. PICK ids : /\ proc'[p].seen = credit /\ proc'[p].job = l
                 /\ proc'[p].pc = IF ids = {} THEN "createTxn" ELSE "saveCredit"
  BY <1>2, FindsCredits
<1>5. PICK gives : gives = Gives(credit, h)
  OBVIOUS
<1>6. /\ \A c \in CreditIds : gives[c] = Applied(c, credit, h) /\ gives[c] \in Nat
      /\ SumOf(gives, CreditIds) <= h
  BY <1>3, <1>5, GivesNat DEF CreditInv
<1>7. gives \in [CreditIds -> Nat]
  BY <1>5, <1>6 DEF Gives
<1>8. PICK A \in Tables : Traced(A)
  BY DEF TraceInv
<1>9. \A c \in CreditIds : A[l][c] = 0
  BY <1>1, <1>2, <1>8 DEF Traced, Asks
<1>10. PICK B : B = [A EXCEPT ![l] = gives]
  OBVIOUS
<1>11. B \in Tables /\ B[l] = gives /\ \A k \in LessonSet \ {l} : B[k] = A[k]
  BY <1>7, <1>10 DEF Tables
<1>12. lesson[l] = "COMPLETED" /\ \A q \in Procs \ {p} : proc[q].job # l
  BY <1>1, <1>2 DEF JobInv, HasJob, Early, LessonAwaits
<1>13. ASSUME NEW c \in CreditIds, NEW S \in SUBSET LessonSet
       PROVE  SumOf(Col(A, c), S) <= SumOf(Col(B, c), S)
  <2>1. \A k \in S : Col(A, c)[k] \in Int /\ Col(B, c)[k] \in Int /\ Col(A, c)[k] <= Col(B, c)[k]
    BY <1>9, <1>11, ColNat
  <2>2. IsFiniteSet(S)
    BY ColNat
  <2> QED BY <2>1, <2>2, SumOrder
<1>14. ASSUME NEW c \in CreditIds
       PROVE  credit[c].consumed <= SumOf(Col(A, c), LessonSet \ {l})
  <2>1. SumOf(Col(A, c), LessonSet) = Col(A, c)[l] + SumOf(Col(A, c), LessonSet \ {l})
    BY ColNat, SumRemove
  <2>2. Col(A, c)[l] = 0 /\ SumOf(Col(A, c), LessonSet \ {l}) \in Nat
    BY <1>9, ColNat
  <2>3. credit[c].consumed <= SumOf(Col(A, c), LessonSet)
    BY <1>8 DEF Traced
  <2> QED BY <2>1, <2>2, <2>3
<1>15. ASSUME NEW c \in CreditIds
       PROVE  credit[c].consumed <= SumOf(Col(B, c), LessonSet) /\ credit[c].consumed <= SumOf(Col(B, c), LessonSet \ {l})
  <2>1. credit[c].consumed \in Nat
    BY DEF CreditInv, CopyOK
  <2>2. /\ SumOf(Col(A, c), LessonSet \ {l}) \in Nat /\ SumOf(Col(B, c), LessonSet \ {l}) \in Nat
        /\ SumOf(Col(A, c), LessonSet) \in Nat /\ SumOf(Col(B, c), LessonSet) \in Nat
    BY <1>11, ColNat
  <2>3. /\ SumOf(Col(A, c), LessonSet) <= SumOf(Col(B, c), LessonSet)
        /\ SumOf(Col(A, c), LessonSet \ {l}) <= SumOf(Col(B, c), LessonSet \ {l})
    BY <1>13
  <2>4. credit[c].consumed <= SumOf(Col(A, c), LessonSet)
    BY <1>8 DEF Traced
  <2> QED BY <1>14, <2>1, <2>2, <2>3, <2>4
<1>16. ASSUME NEW q \in Procs PROVE Shows(B, q)'
  <2>1. CASE q = p
    BY <1>1, <1>3, <1>4, <1>6, <1>11, <1>2, <1>15, <2>1 DEF Shows
  <2>2. CASE q # p
    <3>1. proc'[q] = proc[q] /\ proc[q].job # l
      BY <1>1, <1>12, <2>2 DEF Moved
    <3>2. SUFFICES ASSUME proc[q].pc = "saveCredit", NEW c \in CreditIds
                   PROVE  /\ proc[q].seen[c].consumed <= SumOf(Col(B, c), LessonSet \ {proc[q].job})
                          /\ Applied(c, proc[q].seen, Hours[proc[q].job]) <= B[proc[q].job][c]
      BY <3>1 DEF Shows
    <3>3. /\ proc[q].seen[c].consumed <= SumOf(Col(A, c), LessonSet \ {proc[q].job})
          /\ Applied(c, proc[q].seen, Hours[proc[q].job]) <= A[proc[q].job][c]
      BY <1>8, <3>2 DEF Traced, Shows
    <3>4. proc[q].job \in LessonSet
      BY <3>2 DEF IInv, Working, LessonAwaits
    <3>5. PICK S \in SUBSET LessonSet : S = LessonSet \ {proc[q].job}
      OBVIOUS
    <3>6. SumOf(Col(A, c), S) <= SumOf(Col(B, c), S) /\ SumOf(Col(A, c), S) \in Nat /\ SumOf(Col(B, c), S) \in Nat
      BY <1>11, <1>13, ColNat
    <3>7. proc[q].seen[c].consumed \in Nat
      BY <3>2 DEF CreditInv, Consuming, CopyOK
    <3> QED BY <1>11, <3>1, <3>3, <3>4, <3>5, <3>6, <3>7
  <2> QED BY <2>1, <2>2
<1>17. ASSUME NEW k \in LessonSet, NEW c \in CreditIds, B[k][c] # 0
       PROVE  lesson'[k] = "COMPLETED" /\ ~ \E q \in Procs : Asks(q, k)'
  <2>1. CASE k = l
    BY <1>1, <1>4, <1>12, <2>1 DEF Asks, Moved
  <2>2. CASE k # l
    <3>1. lesson[k] = "COMPLETED" /\ ~ \E q \in Procs : Asks(q, k)
      BY <1>8, <1>11, <1>17, <2>2 DEF Traced
    <3>2. \A q \in Procs : Asks(q, k)' => Asks(q, k)
      BY <1>1, <1>4, <2>2 DEF Asks, Moved
    <3> QED BY <1>1, <3>1, <3>2
  <2> QED BY <2>1, <2>2
<1>18. \A k \in LessonSet : SumOf(B[k], CreditIds) <= Hours[k]
  BY <1>3, <1>6, <1>8, <1>11 DEF Traced
<1>19. Traced(B)'
  BY <1>1, <1>15, <1>16, <1>17, <1>18 DEF Traced
<1> QED BY <1>11, <1>19 DEF TraceInv, Tables

\* SaveCredit consumes what the row holds.
LEMMA SaveTrace ==
  ASSUME IInv, JobInv, CreditInv, TraceInv, NEW p \in Procs, SaveCredit(p)
  PROVE  TraceInv'
<1>1. /\ Moved(p) /\ proc[p].pc = "saveCredit" /\ proc[p].job \in LessonSet /\ UNCHANGED lesson
      /\ proc'[p].pc \in {"saveCredit", "createTxn"}
  BY InsideSteps DEF Carries, SaveCredit
<1>2. PICK A \in Tables : Traced(A)
  BY DEF TraceInv
<1>3. PICK l \in LessonSet, h \in Nat : l = proc[p].job /\ h = Hours[l]
  BY <1>1, LessonsAssumption
<1>b. PICK copy : copy = proc[p].seen
  OBVIOUS
<1>4. PICK c, applied :
        /\ c \in proc[p].ids /\ applied = Applied(c, copy, h)
        /\ proc'[p].seen = copy /\ proc'[p].job = l
        /\ credit' = [credit EXCEPT ![c] = [remaining |-> copy[c].remaining - applied,
                                            consumed |-> copy[c].consumed + applied]]
  BY <1>3, <1>b, SavesCredit
<1>5. c \in CreditIds /\ CopyOK(copy)
  BY <1>1, <1>b, <1>4 DEF CreditInv, Consuming
<1>6. applied \in Nat /\ copy[c].consumed \in Nat
  BY <1>3, <1>4, <1>5, GivesNat
<1>7. copy[c].consumed <= SumOf(Col(A, c), LessonSet \ {l}) /\ applied <= A[l][c]
  BY <1>1, <1>2, <1>3, <1>b, <1>4, <1>5 DEF Traced, Shows
<1>8. SumOf(Col(A, c), LessonSet) = A[l][c] + SumOf(Col(A, c), LessonSet \ {l})
  <2>1. SumOf(Col(A, c), LessonSet) = Col(A, c)[l] + SumOf(Col(A, c), LessonSet \ {l})
    BY <1>5, ColNat, SumRemove
  <2> QED BY <1>5, <2>1, ColNat
<1>9. A[l][c] \in Nat /\ SumOf(Col(A, c), LessonSet \ {l}) \in Nat
  BY <1>5, ColNat
<1>10. copy[c].consumed + applied <= SumOf(Col(A, c), LessonSet)
  BY <1>6, <1>7, <1>8, <1>9
<1>11. ASSUME NEW d \in CreditIds PROVE credit'[d].consumed <= SumOf(Col(A, d), LessonSet)
  <2>1. credit \in [CreditIds -> [remaining : Nat, consumed : Nat]]
    BY DEF CreditInv, CopyOK
  <2>2. CASE d = c
    <3>1. PICK r : r = [remaining |-> copy[c].remaining - applied, consumed |-> copy[c].consumed + applied]
      OBVIOUS
    <3>2. credit'[c] = r
      BY <1>4, <1>5, <2>1, <3>1
    <3> QED BY <1>10, <2>2, <3>1, <3>2
  <2>3. CASE d # c
    <3>1. credit'[d] = credit[d]
      BY <1>4, <2>1, <2>3
    <3> QED BY <1>2, <3>1 DEF Traced
  <2> QED BY <2>2, <2>3
<1> QED BY <1>1, <1>2, <1>3, <1>b, <1>4, <1>11, KeepTrace

\* Every step keeps TraceInv.
LEMMA NextTraceInv ==
  ASSUME IInv, JobInv, CreditInv, TraceInv, [Next]_vars
  PROVE  TraceInv'
<1>0. PICK A \in Tables : Traced(A)
  BY DEF TraceInv
<1>a. \A c \in CreditIds : credit[c].consumed <= SumOf(Col(A, c), LessonSet)
  BY <1>0 DEF Traced
<1>1. ASSUME NEW p \in Procs, SaveCompleted(p) \/ AddHours(p) PROVE TraceInv'
  <2>1. Moved(p) /\ proc'[p].pc \in {"addHours", "findCredits"} /\ proc'[p].job = proc[p].job
        /\ (SaveCompleted(p) => proc[p].pc = "saveCompleted") /\ (AddHours(p) => proc[p].pc = "addHours")
    BY <1>1, InsideSteps DEF Carries
  <2>2. UNCHANGED credit
    BY <1>1 DEF SaveCompleted, AddHours
  <2>3. \A l \in LessonSet : lesson[l] = "COMPLETED" => lesson'[l] = "COMPLETED"
    <3>1. CASE AddHours(p)
      BY <3>1 DEF AddHours
    <3>2. CASE SaveCompleted(p)
      <4>1. lesson' = [lesson EXCEPT ![proc[p].job] = "COMPLETED"]
        BY <3>2 DEF SaveCompleted
      <4> QED BY <4>1 DEF IInv, Shape
    <3> QED BY <1>1, <3>1, <3>2
  <2>4. ASSUME NEW l \in LessonSet, proc'[p].job = l PROVE \A c \in CreditIds : A[l][c] = 0
    <3>1. CASE AddHours(p)
      BY <1>0, <2>1, <2>4, <3>1 DEF Traced, Asks
    <3>2. CASE SaveCompleted(p)
      <4>1. lesson[l] # "COMPLETED"
        BY <2>1, <2>4, <3>2 DEF JobInv, HasJob, Early, LessonAwaits
      <4> QED BY <1>0, <4>1 DEF Traced
    <3> QED BY <1>1, <3>1, <3>2
  <2>5. proc'[p].pc # "saveCredit"
    BY <2>1
  <2> QED BY <1>0, <1>a, <2>1, <2>2, <2>3, <2>4, <2>5, KeepTrace
<1>2. ASSUME NEW p \in Procs, Aside(p) PROVE TraceInv'
  <2>1. Moved(p) /\ proc'[p].pc \notin {"addHours", "findCredits", "saveCredit"} /\ UNCHANGED credit
        /\ \A l \in LessonSet : lesson[l] = "COMPLETED" => lesson'[l] = "COMPLETED"
    BY <1>2 DEF Aside, Counting
  <2> QED BY <1>0, <1>a, <2>1, KeepTrace
<1>3. ASSUME Quiet PROVE TraceInv'
  <2>1. Traced(A)'
    BY <1>0, <1>3 DEF Quiet, Traced, Shows, Asks
  <2> QED BY <2>1 DEF TraceInv, Tables
<1> QED BY <1>1, <1>2, <1>3, FindTrace, SaveTrace, Kinds

\* Summed by rows: the lessons that took something are completed, and none
\* took more than its hours.
LEMMA TraceImplies == CreditInv /\ TraceInv => CreditsAccounted
<1> SUFFICES ASSUME CreditInv, TraceInv PROVE CreditsAccounted
  OBVIOUS
<1>1. PICK A \in Tables : Traced(A)
  BY DEF TraceInv
<1> DEFINE used == [c \in CreditIds |-> credit[c].consumed]
           cols == [c \in CreditIds |-> SumOf([l \in LessonSet |-> A[l][c]], LessonSet)]
           rows == [l \in LessonSet |-> SumOf(A[l], CreditIds)]
           hours == [l \in LessonSet |-> IF l \in Completed THEN Hours[l] ELSE 0]
<1>2. \A c \in CreditIds : used[c] \in Int /\ cols[c] \in Int /\ used[c] <= cols[c]
  <2>1. \A c \in CreditIds : used[c] \in Int
    BY DEF CreditInv, CopyOK
  <2>2. \A c \in CreditIds : cols[c] \in Int /\ used[c] <= cols[c]
    BY <1>1, ColNat DEF Traced, Col
  <2> QED BY <2>1, <2>2
<1>3. \A l \in LessonSet : rows[l] \in Int /\ hours[l] \in Int /\ rows[l] <= hours[l]
  <2> SUFFICES ASSUME NEW l \in LessonSet PROVE rows[l] \in Int /\ hours[l] \in Int /\ rows[l] <= hours[l]
    OBVIOUS
  <2>1. \A c \in CreditIds : A[l][c] \in Nat
    BY DEF Tables
  <2>2. rows[l] \in Nat
    BY <2>1, CreditIdsFinite, SumNat
  <2>3. Hours[l] \in Nat
    BY LessonsAssumption
  <2>4. CASE l \in Completed
    BY <1>1, <2>2, <2>3, <2>4 DEF Traced
  <2>5. CASE l \notin Completed
    <3>1. \A c \in CreditIds : A[l][c] = 0
      BY <1>1, <2>5 DEF Traced, Completed
    <3>2. rows[l] = 0
      BY <3>1, CreditIdsFinite, SumZero
    <3> QED BY <2>5, <3>2
  <2> QED BY <2>4, <2>5
<1>4. SumOf(cols, CreditIds) = SumOf(rows, LessonSet)
  <2>1. \A l \in LessonSet : \A c \in CreditIds : A[l][c] \in Int
    BY DEF Tables
  <2> QED BY <2>1, LessonsAssumption, CreditIdsFinite, SumSwap
<1>5. SumOf(hours, LessonSet) = SumOf(Hours, Completed)
  <2>1. Completed \in SUBSET LessonSet
    BY DEF Completed
  <2>2. \A l \in LessonSet : Hours[l] \in Int
    BY LessonsAssumption
  <2> QED BY <2>1, <2>2, LessonsAssumption, SumWhere
<1> HIDE DEF used, cols, rows, hours
<1>6. SumOf(used, CreditIds) <= SumOf(cols, CreditIds) /\ SumOf(used, CreditIds) \in Int /\ SumOf(cols, CreditIds) \in Int
  BY <1>2, CreditIdsFinite, SumOrder, SumInt
<1>7. SumOf(rows, LessonSet) <= SumOf(hours, LessonSet) /\ SumOf(hours, LessonSet) \in Int
  BY <1>3, LessonsAssumption, SumOrder, SumInt
<1>8. SumOf(used, CreditIds) <= SumOf(Hours, Completed)
  BY <1>4, <1>5, <1>6, <1>7
<1>9. \A c \in CreditIds : credit[c].remaining + credit[c].consumed = Credits[c].hours
  BY DEF CreditInv, CopyOK
<1> QED BY <1>8, <1>9 DEF CreditsAccounted, used

-----------------------------------------------------------------------------
(* Which steps write which document *)

\* The documents of the order and of its lessons.
LEMMA LessonWrites ==
  ASSUME [Next]_vars
  PROVE  /\ UNCHANGED order \/ \E p \in Procs : SaveCompleted(p)
         /\ UNCHANGED taught \/ \E p \in Procs : AddHours(p)
         /\ UNCHANGED requests \/ \E p \in Procs : CreateRequest(p)
         /\ UNCHANGED abandoned \/ \E p \in Procs : Abandon(p)
         /\ UNCHANGED lesson \/ (\E p \in Procs : SaveCompleted(p) \/ SaveNoShow(p))
              \/ \E l \in LessonSet, s \in LessonStatus : Set(l, s)
         /\ UNCHANGED unread \/ (\E p \in Procs : SaveCompleted(p))
              \/ (\E l \in LessonSet, s \in LessonStatus : Set(l, s))
              \/ \E role \in Roles, S \in SUBSET LessonSet : MarkRead(role, S)
<1> USE DEF Next, vars, lessons, Work, LessonStep, StartComplete, StartNoShow, Cancel, Move, Propose, Answer
<1>0. ASSUME NEW l \in LessonSet, Cancel(l) \/ Move(l) \/ Propose(l) \/ Answer(l)
      PROVE  \E s \in LessonStatus : Set(l, s)
  BY <1>0 DEF LessonStatus
<1>1. UNCHANGED order \/ \E p \in Procs : SaveCompleted(p)
  BY DEF Set, MarkRead, Abandon, AddHours, FindCredits, SaveCredit, CreateTxn, SaveNoShow, CreateRequest
<1>2. UNCHANGED taught \/ \E p \in Procs : AddHours(p)
  BY DEF Set, MarkRead, Abandon, SaveCompleted, FindCredits, SaveCredit, CreateTxn, SaveNoShow, CreateRequest
<1>3. UNCHANGED requests \/ \E p \in Procs : CreateRequest(p)
  BY DEF Set, MarkRead, Abandon, SaveCompleted, AddHours, FindCredits, SaveCredit, CreateTxn, SaveNoShow
<1>4. UNCHANGED abandoned \/ \E p \in Procs : Abandon(p)
  BY DEF Set, MarkRead, SaveCompleted, AddHours, FindCredits, SaveCredit, CreateTxn, SaveNoShow, CreateRequest
<1>5. UNCHANGED lesson \/ (\E p \in Procs : SaveCompleted(p) \/ SaveNoShow(p))
        \/ \E l \in LessonSet : Cancel(l) \/ Move(l) \/ Propose(l) \/ Answer(l)
  BY DEF MarkRead, Abandon, AddHours, FindCredits, SaveCredit, CreateTxn, CreateRequest
<1>6. \A l \in LessonSet : {l} \in SUBSET LessonSet
  OBVIOUS
<1>7. UNCHANGED unread \/ (\E p \in Procs : SaveCompleted(p))
        \/ (\E l \in LessonSet : Cancel(l) \/ Move(l) \/ Propose(l) \/ Answer(l))
        \/ \E role \in Roles, S \in SUBSET LessonSet : MarkRead(role, S)
  BY <1>6 DEF Abandon, AddHours, FindCredits, SaveCredit, CreateTxn, SaveNoShow, CreateRequest
<1> QED BY <1>0, <1>1, <1>2, <1>3, <1>4, <1>5, <1>7

\* Transactions, payouts, onboarding and counters.
LEMMA EarningWrites ==
  ASSUME [Next]_vars
  PROVE  /\ UNCHANGED txn \/ \E p \in Procs : MarkCredited(p) \/ MarkPaid(p) \/ CreateTxn(p)
         /\ UNCHANGED payouts \/ \E p \in Procs : CreatePayout(p)
         /\ UNCHANGED account \/ AccountUpdated \/ \E p \in Procs : StoreAccount(p) \/ StoreCompleted(p)
         /\ UNCHANGED stripe \/ AccountChanges \/ \E p \in Procs : CreateAccount(p)
         /\ UNCHANGED asked \/ \E p \in Procs, a \in Amounts : StartFastCash(p, a)
         /\ UNCHANGED died \/ \E p \in Procs : Die(p)
         /\ UNCHANGED lost \/ \E p \in Procs : Die(p)
<1> USE DEF Next, vars, earnings, money, records, onboarding, Work, LessonStep, Continue, StartComplete, StartNoShow,
            StaysEarned, Cancel, Move, Propose, Answer, Set, MarkRead, Abandon, AddWalletBalance, StartWeekly,
            SaveCompleted, AddHours, FindCredits, SaveCredit, SaveNoShow, CreateRequest,
            VerifyAccount, CheckPlatform, TakeFunds, Transfer, InstantPayout, RecordDebit, Restore,
            IncBalance, RecordCredit, FindPending
<1>1. UNCHANGED txn \/ \E p \in Procs : MarkCredited(p) \/ MarkPaid(p) \/ CreateTxn(p)
  BY ZenonT(60) DEF Die, StartFastCash, CreateAccount, StoreAccount, StoreCompleted, CreatePayout, AccountChanges, AccountUpdated
<1>2. UNCHANGED payouts \/ \E p \in Procs : CreatePayout(p)
  BY ZenonT(60) DEF Die, StartFastCash, CreateAccount, StoreAccount, StoreCompleted, MarkCredited, MarkPaid, CreateTxn,
         AccountChanges, AccountUpdated
<1>3. UNCHANGED account \/ AccountUpdated \/ \E p \in Procs : StoreAccount(p) \/ StoreCompleted(p)
  BY ZenonT(60) DEF Die, StartFastCash, CreateAccount, CreatePayout, MarkCredited, MarkPaid, CreateTxn, AccountChanges
<1>4. UNCHANGED stripe \/ AccountChanges \/ \E p \in Procs : CreateAccount(p)
  BY ZenonT(60) DEF Die, StartFastCash, StoreAccount, StoreCompleted, CreatePayout, MarkCredited, MarkPaid, CreateTxn, AccountUpdated
<1>5. UNCHANGED asked \/ \E p \in Procs, a \in Amounts : StartFastCash(p, a)
  BY ZenonT(60) DEF Die, CreateAccount, StoreAccount, StoreCompleted, CreatePayout, MarkCredited, MarkPaid, CreateTxn,
         AccountChanges, AccountUpdated
<1>6. UNCHANGED died \/ \E p \in Procs : Die(p)
  BY ZenonT(60) DEF StartFastCash, CreateAccount, StoreAccount, StoreCompleted, CreatePayout, MarkCredited, MarkPaid, CreateTxn,
         AccountChanges, AccountUpdated
<1>7. UNCHANGED lost \/ \E p \in Procs : Die(p)
  BY ZenonT(60) DEF StartFastCash, CreateAccount, StoreAccount, StoreCompleted, CreatePayout, MarkCredited, MarkPaid, CreateTxn,
         AccountChanges, AccountUpdated
<1> QED BY <1>1, <1>2, <1>3, <1>4, <1>5, <1>6, <1>7

\* The wallet and its ledger.
LEMMA FundsWrites ==
  ASSUME [Next]_vars
  PROVE  /\ UNCHANGED balance \/ (\E p \in Procs : TakeFunds(p) \/ Restore(p) \/ IncBalance(p))
              \/ \E a \in Gifts : AddWalletBalance(a)
         /\ UNCHANGED ledger \/ \E p \in Procs : RecordDebit(p) \/ RecordCredit(p)
         /\ UNCHANGED granted \/ \E a \in Gifts : AddWalletBalance(a)
<1> USE DEF Next, vars, earnings, money, records, onboarding, Work, LessonStep, Continue, StartComplete, StartNoShow,
            StaysEarned, Cancel, Move, Propose, Answer, Set, MarkRead, Abandon, Die, StartWeekly, StartFastCash,
            SaveCompleted, AddHours, FindCredits, SaveCredit, CreateTxn, SaveNoShow, CreateRequest,
            CreateAccount, StoreAccount, VerifyAccount, StoreCompleted, CheckPlatform, Transfer, InstantPayout,
            MarkCredited, FindPending, CreatePayout, MarkPaid, AccountChanges, AccountUpdated
<1>1. UNCHANGED balance \/ (\E p \in Procs : TakeFunds(p) \/ Restore(p) \/ IncBalance(p))
        \/ \E a \in Gifts : AddWalletBalance(a)
  BY ZenonT(60) DEF RecordDebit, RecordCredit
<1>2. UNCHANGED ledger \/ \E p \in Procs : RecordDebit(p) \/ RecordCredit(p)
  BY ZenonT(60) DEF TakeFunds, Restore, IncBalance, AddWalletBalance
<1>3. UNCHANGED granted \/ \E a \in Gifts : AddWalletBalance(a)
  BY ZenonT(60) DEF TakeFunds, Restore, IncBalance, RecordDebit, RecordCredit
<1> QED BY <1>1, <1>2, <1>3

-----------------------------------------------------------------------------
(* Types *)

SeenOK(p) == proc[p].pc = "saveCompleted" => proc[p].seen.used \in Nat
AmountOK(p) == proc[p].amount \in Nat
TypeInv == TypeOK /\ \A p \in Procs : SeenOK(p)
Known == IInv /\ JobInv /\ CreditInv

\* The initial documents are typed.
LEMMA InitTypeInv == Init => TypeInv
<1> SUFFICES ASSUME Init PROVE TypeInv
  OBVIOUS
<1> USE DEF Init, EarningsInit, RecordsInit, FundsInit, LessonsInit
<1>1. /\ balance \in Nat /\ granted \in Nat /\ lost \in Int /\ died \in Nat /\ asked \in Nat
      /\ ledger \in [credit : Nat, debit : Nat]
      /\ account \in [id : BOOLEAN, completed : BOOLEAN]
      /\ stripe \in [state : {"none", "created", "active", "restricted"}, sent : SUBSET BOOLEAN]
      /\ payouts \subseteq SUBSET Txns
  OBVIOUS
<1>2. txn \in [Txns -> [status : Statuses, earning : Nat]]
  BY TxnsAssumption DEF NoEarning, Statuses
<1>3. \A p \in Procs : proc[p] = Idle
  OBVIOUS
<1>4. EarningsTypeOK
  BY <1>1, <1>2, <1>3 DEF EarningsTypeOK, Idle
<1>5. /\ lesson \in [LessonSet -> LessonStatus] /\ unread \in [LessonSet -> SUBSET Roles]
      /\ taught \in Nat /\ requests \subseteq LessonSet /\ abandoned \subseteq LessonSet
  BY DEF LessonStatus
<1>6. UsedAtBooking \in Nat
  BY LessonsAssumption, SumNat DEF UsedAtBooking
<1>7. order \in [used : Nat, remaining : Int, scheduled : BOOLEAN]
  BY <1>6, CreditsAssumption
<1>8. credit \in [CreditIds -> [remaining : Nat, consumed : Nat]]
  BY InitCreditInv DEF CreditInv, CopyOK
<1>9. \A p \in Procs : SeenOK(p)
  BY <1>3 DEF Idle, SeenOK
<1> QED BY <1>4, <1>5, <1>7, <1>8, <1>9 DEF TypeOK, TypeInv

\* An execution keeps a natural amount: the discount and the cash only grow or stay.
LEMMA WorkAmount ==
  ASSUME Known, Known', TypeInv, NEW p \in Procs, Work(p)
  PROVE  Moved(p) /\ AmountOK(p)'
<1>0. Shape /\ AmountOK(p)
  BY DEF Known, IInv, TypeInv, TypeOK, EarningsTypeOK, AmountOK
<1>1. CASE Finish(p)
  <2>1. proc'[p] = Idle /\ Moved(p)
    BY <1>0, <1>1, Ends DEF Finish, Shape
  <2> QED BY <2>1 DEF AmountOK, Idle
<1>2. ASSUME NEW pc, Goto(p, pc) PROVE Moved(p) /\ AmountOK(p)'
  BY <1>0, <1>2, Goes, GoesOn DEF AmountOK
<1>3. CASE FindCredits(p)
  BY <1>0, <1>3, FindsCredits, InsideSteps DEF AmountOK, Known, Carries
<1>4. CASE SaveCredit(p)
  <2>1. Moved(p) /\ proc'[p].pc \in {"saveCredit", "createTxn"}
    BY <1>4, InsideSteps DEF Known, Carries
  <2>2. Consuming(p)'
    BY DEF Known, CreditInv
  <2> QED BY <2>1, <2>2 DEF Consuming, AmountOK
<1>5. CASE CreateTxn(p)
  <2>1. proc' = [proc EXCEPT ![p].pc = "incBalance", ![p].seen = NoTxn]
    BY <1>5 DEF CreateTxn
  <2>2. proc'[p].amount = proc[p].amount
    BY <1>0, <2>1 DEF Shape, ProcShape
  <2> QED BY <1>0, <1>5, <2>2, InsideSteps DEF AmountOK, Known, Carries
<1>6. CASE FindPending(p) /\ Pending # {}
  <2>1. proc' = [proc EXCEPT ![p] = [@ EXCEPT !.pc = "createPayout", !.ids = Pending]]
    BY <1>6 DEF FindPending
  <2>2. PICK ids : ids = Pending
    OBVIOUS
  <2>3. proc'[p] = [proc[p] EXCEPT !.pc = "createPayout", !.ids = ids]
    BY <1>0, <2>1, <2>2 DEF Shape
  <2>4. proc'[p].amount = proc[p].amount
    BY <1>0, <2>3 DEF Shape, ProcShape
  <2> QED BY <1>0, <1>6, <2>4, WeeklyOutside DEF AmountOK, Known, Outside
<1>7. CASE FindPending(p) /\ Pending = {}
  <2>1. Finish(p)
    BY <1>7 DEF FindPending, Finish
  <2> QED BY <1>1, <2>1
<1>8. \/ FindPending(p) \/ CreateTxn(p) \/ SaveCredit(p) \/ FindCredits(p)
      \/ Finish(p) \/ \E pc : Goto(p, pc)
  BY DEF Work, LessonStep, Continue, CreateAccount, StoreAccount, VerifyAccount, StoreCompleted,
         CheckPlatform, TakeFunds, Transfer, InstantPayout, RecordDebit, Restore, IncBalance, MarkCredited,
         RecordCredit, CreatePayout, MarkPaid, SaveCompleted, AddHours, SaveNoShow, CreateRequest
<1> QED BY <1>1, <1>2, <1>3, <1>4, <1>5, <1>6, <1>7, <1>8

\* What an execution begins with.
LEMMA StartAmount ==
  ASSUME Known, TypeInv, NEW p \in Procs,
         \/ \E l \in LessonSet : StartComplete(p, l) \/ StartNoShow(p, l)
         \/ StartWeekly(p) \/ (\E a \in Amounts : StartFastCash(p, a))
  PROVE  /\ Moved(p) /\ AmountOK(p)' /\ SeenOK(p)' /\ proc[p].pc = "idle"
         /\ proc'[p].pc \in {"saveCompleted", "saveNoShow", "findPending", "createAccount", "platform", "verify"}
<1> DEFINE Starting(e) ==
  /\ proc' = [proc EXCEPT ![p] = e]
  /\ e = [pc |-> e.pc, amount |-> e.amount, ids |-> e.ids, job |-> e.job, seen |-> e.seen]
  /\ e.pc \in {"saveCompleted", "saveNoShow", "findPending", "createAccount", "platform", "verify"}
  /\ e.amount \in Nat /\ (e.pc = "saveCompleted" => e.seen.used \in Nat)
<1>0. order.used \in Nat /\ Amounts \subseteq Nat
  BY AmountsAssumption DEF TypeInv, TypeOK
<1>1. ASSUME NEW l \in LessonSet, NEW pc \in {"saveCompleted", "saveNoShow"}, Begin(p, pc, l)
      PROVE  \E e : Starting(e)
  <2>1. PICK copy : copy = order
    OBVIOUS
  <2>2. PICK e : e = [Idle EXCEPT !.pc = pc, !.job = l, !.seen = copy]
    OBVIOUS
  <2>3. proc' = [proc EXCEPT ![p] = e]
    BY <1>1, <2>1, <2>2 DEF Begin
  <2>4. e = [pc |-> e.pc, amount |-> e.amount, ids |-> e.ids, job |-> e.job, seen |-> e.seen]
        /\ e.pc = pc /\ e.amount = 0 /\ e.seen = copy
    BY <2>2 DEF Idle
  <2>5. e.amount \in Nat /\ (e.pc = "saveCompleted" => e.seen.used \in Nat)
    BY <1>0, <2>1, <2>4
  <2>6. Starting(e)
    BY <2>3, <2>4, <2>5
  <2> QED BY <2>6
<1>2. ASSUME StartWeekly(p) PROVE \E e : Starting(e)
  <2>1. PICK e : e = [Idle EXCEPT !.pc = "findPending"]
    OBVIOUS
  <2>2. proc' = [proc EXCEPT ![p] = e]
    BY <1>2, <2>1 DEF StartWeekly
  <2>3. e = [pc |-> e.pc, amount |-> e.amount, ids |-> e.ids, job |-> e.job, seen |-> e.seen]
        /\ e.pc = "findPending" /\ e.amount = 0
    BY <2>1 DEF Idle
  <2>4. Starting(e)
    BY <2>2, <2>3
  <2> QED BY <2>4
<1>3. ASSUME NEW a \in Amounts, StartFastCash(p, a) PROVE \E e : Starting(e)
  <2>1. PICK pc : pc = IF ~account.id THEN "createAccount" ELSE IF account.completed THEN "platform" ELSE "verify"
    OBVIOUS
  <2>2. PICK e : e = [Idle EXCEPT !.amount = a, !.pc = pc]
    OBVIOUS
  <2>3. proc' = [proc EXCEPT ![p] = e]
    BY <1>3, <2>1, <2>2 DEF StartFastCash
  <2>4. e = [pc |-> e.pc, amount |-> e.amount, ids |-> e.ids, job |-> e.job, seen |-> e.seen]
        /\ e.pc = pc /\ e.amount = a
    BY <2>2 DEF Idle
  <2> QED BY <1>0, <2>1, <2>3, <2>4
<1>4. PICK e : Starting(e)
  BY <1>1, <1>2, <1>3 DEF StartComplete, StartNoShow
<1>5. Moved(p) /\ proc'[p] = e
  BY <1>4 DEF Known, IInv, Shape, Moved, ProcShape
<1>6. proc[p].pc = "idle"
  BY DEF StartComplete, StartNoShow, StartWeekly, StartFastCash, Begin, At
<1> QED BY <1>4, <1>5, <1>6 DEF AmountOK, SeenOK

\* The executions stay typed.
LEMMA ProcsTyped ==
  ASSUME Known, Known', TypeInv, [Next]_vars
  PROVE  \A q \in Procs :
           /\ SeenOK(q)' /\ AmountOK(q)'
           /\ DOMAIN proc'[q] = DOMAIN Idle
           /\ proc'[q].pc \in {"createPayout", "markPaid"} => proc'[q].ids \subseteq Txns
           /\ proc'[q].pc \in {"incBalance", "markCredited", "recordCredit"} => proc'[q].job \in Txns
<1>1. \A q \in Procs : SeenOK(q) /\ AmountOK(q)
  BY DEF TypeInv, TypeOK, EarningsTypeOK, AmountOK
<1>2. UNCHANGED proc \/ \E p \in Procs : Moved(p) /\ AmountOK(p)' /\ SeenOK(p)'
  <2>1. ASSUME NEW p \in Procs, Work(p) PROVE Moved(p) /\ AmountOK(p)' /\ SeenOK(p)'
    <3>1. proc'[p].pc # "saveCompleted"
      BY <2>1, WorkConsumes, InsideSteps DEF Known, Carries, Consumes
    <3> QED BY <2>1, <3>1, WorkAmount DEF SeenOK
  <2>2. ASSUME NEW p \in Procs, Abandon(p) PROVE Moved(p) /\ AmountOK(p)' /\ SeenOK(p)'
    <3>1. Finish(p) /\ Shape
      BY <2>2 DEF Abandon, Die, Known, IInv
    <3>2. proc'[p] = Idle
      BY <3>1 DEF Finish, Shape
    <3> QED BY <3>1, <3>2, Ends DEF AmountOK, SeenOK, Idle
  <2>3. ASSUME \/ \E l \in LessonSet : Cancel(l) \/ Move(l) \/ Propose(l) \/ Answer(l)
               \/ \E role \in Roles : \/ MarkRead(role, LessonSet)
                                      \/ \E l \in LessonSet : MarkRead(role, {l})
               \/ (\E a \in Gifts : AddWalletBalance(a)) \/ AccountChanges \/ AccountUpdated
               \/ UNCHANGED vars
        PROVE  UNCHANGED proc
    BY <2>3 DEF Cancel, Move, Propose, Answer, Set, MarkRead, AddWalletBalance, AccountChanges, AccountUpdated,
                vars, earnings
  <2> QED BY <2>1, <2>2, <2>3, StartAmount DEF Next
<1>3. ASSUME NEW q \in Procs PROVE SeenOK(q)' /\ AmountOK(q)'
  BY <1>1, <1>2 DEF Moved, SeenOK, AmountOK
<1>4. ASSUME NEW q \in Procs PROVE DOMAIN proc'[q] = DOMAIN Idle
  BY DEF Known, IInv, Shape, ProcShape, Idle
<1>5. ASSUME NEW q \in Procs
      PROVE  /\ proc'[q].pc \in {"createPayout", "markPaid"} => proc'[q].ids \subseteq Txns
             /\ proc'[q].pc \in {"incBalance", "markCredited", "recordCredit"} => proc'[q].job \in Txns
  <2>1. OldOnly(q)' /\ Working(q)'
    BY DEF Known, IInv, JobInv
  <2> QED BY <2>1, TxnsAssumption, LessonsAssumption DEF OldOnly, Working, LessonAwaits
<1> QED BY <1>3, <1>4, <1>5

\* The discount collected is less than the price: the earning is not negative.
LEMMA EarningNat ==
  ASSUME Known, NEW p \in Procs, CreateTxn(p)
  PROVE  /\ proc[p].job \in LessonSet
         /\ EarningOf(Hours[proc[p].job], proc[p].amount) \in Nat
<1>1. proc[p].pc = "createTxn" /\ proc[p].job \in LessonSet /\ Consuming(p)
  BY DEF CreateTxn, At, Known, IInv, Working, LessonAwaits, CreditInv
<1>2. Hours[proc[p].job] \in Nat /\ proc[p].amount \in Nat /\ proc[p].amount <= 100 * Hours[proc[p].job]
  BY <1>1, LessonsAssumption DEF Consuming
<1>3. ASSUME NEW h \in Nat, NEW a \in Nat, a <= 100 * h PROVE 166 * h - a \in Nat
  BY <1>3
<1> QED BY <1>1, <1>2, <1>3 DEF EarningOf

TxnTyped == txn \in [Txns -> [status : Statuses, earning : Nat]]

\* Transactions stay typed.
LEMMA TxnTypedNext ==
  ASSUME Known, TxnTyped, [Next]_vars
  PROVE  TxnTyped'
<1> USE DEF TxnTyped, Statuses
<1>1. ASSUME NEW p \in Procs, MarkCredited(p) PROVE TxnTyped'
  BY <1>1 DEF MarkCredited
<1>2. ASSUME NEW p \in Procs, MarkPaid(p) PROVE TxnTyped'
  BY <1>2 DEF MarkPaid
<1>3. ASSUME NEW p \in Procs, CreateTxn(p) PROVE TxnTyped'
  <2>1. PICK n \in Nat : n = EarningOf(Hours[proc[p].job], proc[p].amount)
    BY <1>3, EarningNat
  <2>2. txn' = [txn EXCEPT ![proc[p].job] = [status |-> "PAID", earning |-> n]]
    BY <1>3, <2>1 DEF CreateTxn
  <2> QED BY <2>2
<1> QED BY <1>1, <1>2, <1>3, EarningWrites

FundsTyped == balance \in Nat /\ granted \in Nat /\ ledger \in [credit : Nat, debit : Nat]

\* No step overdraws the wallet: TakeFunds compares and decrements at once.
LEMMA FundsTypedNext ==
  ASSUME Known, TypeInv, [Next]_vars
  PROVE  FundsTyped'
<1>0. FundsTyped /\ TxnTyped
  BY DEF TypeInv, TypeOK, EarningsTypeOK, FundsTyped, TxnTyped
<1>1. ASSUME NEW p \in Procs PROVE proc[p].amount \in Nat
  BY DEF TypeInv, TypeOK, EarningsTypeOK
<1>2. ASSUME NEW p \in Procs, proc[p].pc \in {"incBalance", "recordCredit"}
      PROVE  txn[proc[p].job].earning \in Nat
  <2>1. proc[p].job \in Txns
    BY <1>2 DEF TypeInv, TypeOK, EarningsTypeOK
  <2> QED BY <1>0, <2>1 DEF TxnTyped
<1>3. balance' \in Nat
  <2>1. ASSUME NEW p \in Procs, TakeFunds(p) PROVE balance' \in Nat
    BY <1>0, <1>1, <2>1 DEF TakeFunds, FundsTyped
  <2>2. ASSUME NEW p \in Procs, Restore(p) PROVE balance' \in Nat
    BY <1>0, <1>1, <2>2 DEF Restore, FundsTyped
  <2>3. ASSUME NEW p \in Procs, IncBalance(p) PROVE balance' \in Nat
    BY <1>0, <1>2, <2>3 DEF IncBalance, At, FundsTyped
  <2>4. ASSUME NEW a \in Gifts, AddWalletBalance(a) PROVE balance' \in Nat
    BY <1>0, <2>4, AmountsAssumption DEF AddWalletBalance, FundsTyped
  <2> QED BY <1>0, <2>1, <2>2, <2>3, <2>4, FundsWrites DEF FundsTyped
<1>4. ledger' \in [credit : Nat, debit : Nat]
  <2>1. ASSUME NEW p \in Procs, RecordDebit(p) PROVE ledger' \in [credit : Nat, debit : Nat]
    BY <1>0, <1>1, <2>1 DEF RecordDebit, FundsTyped
  <2>2. ASSUME NEW p \in Procs, RecordCredit(p) PROVE ledger' \in [credit : Nat, debit : Nat]
    BY <1>0, <1>2, <2>2 DEF RecordCredit, At, FundsTyped
  <2> QED BY <1>0, <2>1, <2>2, FundsWrites DEF FundsTyped
<1>5. granted' \in Nat
  BY <1>0, FundsWrites, AmountsAssumption DEF AddWalletBalance, FundsTyped
<1> QED BY <1>3, <1>4, <1>5 DEF FundsTyped

\* What an execution owes is a number.
LEMMA OwedInt ==
  ASSUME TypeInv, NEW p \in Procs
  PROVE  Owed(p) \in Int
<1>1. proc[p].amount \in Nat
  BY DEF TypeInv, TypeOK, EarningsTypeOK
<1>2. proc[p].pc \in {"markCredited", "recordCredit"} => txn[proc[p].job].earning \in Nat
  BY DEF TypeInv, TypeOK, EarningsTypeOK
<1> QED BY <1>1, <1>2 DEF Owed

CountersTyped == lost \in Int /\ died \in Nat /\ asked \in Nat /\ taught \in Nat

\* Counters stay typed.
LEMMA CountersTypedNext ==
  ASSUME Known, TypeInv, [Next]_vars
  PROVE  CountersTyped'
<1>0. lost \in Int /\ died \in Nat /\ asked \in Nat /\ taught \in Nat
  BY DEF TypeInv, TypeOK, EarningsTypeOK
<1>1. lost' \in Int /\ died' \in Nat
  BY <1>0, EarningWrites, OwedInt DEF Die
<1>2. asked' \in Nat
  <2>1. ASSUME NEW p \in Procs, NEW a \in Amounts, StartFastCash(p, a) PROVE asked' = asked + 1
    BY <2>1 DEF StartFastCash
  <2> QED BY <1>0, <2>1, EarningWrites
<1>3. taught' \in Nat
  <2>1. ASSUME NEW p \in Procs, AddHours(p) PROVE Hours[proc[p].job] \in Nat
    BY <2>1, LessonsAssumption DEF AddHours, At, Known, IInv, Working, LessonAwaits
  <2> QED BY <1>0, <2>1, LessonWrites DEF AddHours
<1> QED BY <1>1, <1>2, <1>3 DEF CountersTyped

StripeTyped ==
  /\ payouts \subseteq SUBSET Txns
  /\ account \in [id : BOOLEAN, completed : BOOLEAN]
  /\ stripe \in [state : {"none", "created", "active", "restricted"}, sent : SUBSET BOOLEAN]

\* Payouts and the Stripe account stay typed.
LEMMA StripeTypedNext ==
  ASSUME Known, TypeInv, [Next]_vars
  PROVE  StripeTyped'
<1>0. StripeTyped
  BY DEF TypeInv, TypeOK, EarningsTypeOK, StripeTyped
<1> USE DEF StripeTyped
<1>1. payouts' \subseteq SUBSET Txns
  <2>1. ASSUME NEW p \in Procs, CreatePayout(p) PROVE proc[p].ids \subseteq Txns /\ payouts' = payouts \cup {proc[p].ids}
    BY <2>1 DEF CreatePayout, At, TypeInv, TypeOK, EarningsTypeOK
  <2> QED BY <1>0, <2>1, EarningWrites
<1>2. account' \in [id : BOOLEAN, completed : BOOLEAN]
  <2>1. ASSUME AccountUpdated PROVE account' \in [id : BOOLEAN, completed : BOOLEAN]
    BY <1>0, <2>1 DEF AccountUpdated
  <2>2. ASSUME NEW p \in Procs, StoreAccount(p) \/ StoreCompleted(p)
        PROVE  account' \in [id : BOOLEAN, completed : BOOLEAN]
    <3>1. account = [id |-> account.id, completed |-> account.completed] /\ account.id \in BOOLEAN
      BY <1>0
    <3>2. CASE StoreAccount(p)
      BY <3>2 DEF StoreAccount
    <3>3. CASE StoreCompleted(p)
      <4>1. account' = [account EXCEPT !.completed = TRUE]
        BY <3>3 DEF StoreCompleted
      <4>2. account' = [id |-> account.id, completed |-> TRUE]
        BY <3>1, <4>1
      <4> QED BY <3>1, <4>2
    <3> QED BY <2>2, <3>2, <3>3
  <2>3. CASE UNCHANGED account
    BY <1>0, <2>3
  <2>4. UNCHANGED account \/ AccountUpdated \/ \E p \in Procs : StoreAccount(p) \/ StoreCompleted(p)
    BY EarningWrites
  <2> QED BY <2>1, <2>2, <2>3, <2>4
<1>3. stripe' \in [state : {"none", "created", "active", "restricted"}, sent : SUBSET BOOLEAN]
  <2>1. ASSUME AccountChanges PROVE stripe' \in [state : {"none", "created", "active", "restricted"}, sent : SUBSET BOOLEAN]
    <3>1. PICK s \in {"active", "restricted"}, b \in BOOLEAN : stripe' = [state |-> s, sent |-> stripe.sent \cup {b}]
      BY <2>1 DEF AccountChanges
    <3> QED BY <1>0, <3>1
  <2>2. ASSUME NEW p \in Procs, CreateAccount(p)
        PROVE  stripe' \in [state : {"none", "created", "active", "restricted"}, sent : SUBSET BOOLEAN]
    BY <1>0, <2>2 DEF CreateAccount
  <2> QED BY <1>0, <2>1, <2>2, EarningWrites
<1> QED BY <1>1, <1>2, <1>3

LessonTyped ==
  /\ lesson \in [LessonSet -> LessonStatus]
  /\ unread \in [LessonSet -> SUBSET Roles]
  /\ order \in [used : Nat, remaining : Int, scheduled : BOOLEAN]
  /\ requests \subseteq LessonSet /\ abandoned \subseteq LessonSet

\* Lessons, flags and the order stay typed.
LEMMA LessonTypedNext ==
  ASSUME Known, TypeInv, [Next]_vars
  PROVE  LessonTyped'
<1>0. LessonTyped /\ \A p \in Procs : SeenOK(p)
  BY DEF TypeInv, TypeOK, LessonTyped
<1> USE DEF LessonTyped
<1>1. ASSUME NEW p \in Procs, proc[p].pc \in LessonAwaits PROVE proc[p].job \in LessonSet /\ Hours[proc[p].job] \in Nat
  BY <1>1, LessonsAssumption DEF Known, IInv, Working
<1>2. lesson' \in [LessonSet -> LessonStatus]
  <2>1. ASSUME NEW p \in Procs, SaveCompleted(p) \/ SaveNoShow(p) PROVE lesson' \in [LessonSet -> LessonStatus]
    <3>1. PICK s \in LessonStatus : lesson' = [lesson EXCEPT ![proc[p].job] = s]
      BY <2>1 DEF SaveCompleted, SaveNoShow, LessonStatus
    <3> QED BY <1>0, <3>1
  <2>2. ASSUME NEW l \in LessonSet, NEW s \in LessonStatus, Set(l, s) PROVE lesson' \in [LessonSet -> LessonStatus]
    BY <1>0, <2>2 DEF Set
  <2> QED BY <1>0, <2>1, <2>2, LessonWrites
<1>3. unread' \in [LessonSet -> SUBSET Roles]
  BY <1>0, LessonWrites DEF SaveCompleted, Set, MarkRead, Roles
<1>4. order' \in [used : Nat, remaining : Int, scheduled : BOOLEAN]
  <2>1. ASSUME NEW p \in Procs, SaveCompleted(p) PROVE order' \in [used : Nat, remaining : Int, scheduled : BOOLEAN]
    <3>1. proc[p].seen.used \in Nat /\ Hours[proc[p].job] \in Nat
      BY <1>0, <1>1, <2>1 DEF SaveCompleted, At, SeenOK, LessonAwaits
    <3>2. PICK used \in Nat : used = proc[p].seen.used + Hours[proc[p].job]
      BY <3>1
    <3>3. PICK left \in Int : left = IF TotalHours > used THEN TotalHours - used ELSE 0
      <4>1. (IF TotalHours > used THEN TotalHours - used ELSE 0) \in Int
        BY CreditsAssumption
      <4> QED BY <4>1
    <3>4. order' = [used |-> used, remaining |-> left, scheduled |-> order.scheduled \/ left = 0]
      BY <2>1, <3>2, <3>3 DEF SaveCompleted
    <3>5. PICK done \in BOOLEAN : done = (order.scheduled \/ left = 0)
      BY <1>0
    <3> QED BY <3>4, <3>5
  <2> QED BY <1>0, <2>1, LessonWrites
<1>5. requests' \subseteq LessonSet
  BY <1>0, <1>1, LessonWrites DEF CreateRequest, At, LessonAwaits
<1>6. abandoned' \subseteq LessonSet
  BY <1>0, LessonWrites DEF Abandon
<1> QED BY <1>2, <1>3, <1>4, <1>5, <1>6

\* Every step keeps TypeInv.
LEMMA NextTypeInv ==
  ASSUME Known, Known', TypeInv, [Next]_vars
  PROVE  TypeInv'
<1>1. TxnTyped'
  BY TxnTypedNext DEF TypeInv, TypeOK, EarningsTypeOK, TxnTyped
<1>2. EarningsTypeOK'
  BY <1>1, FundsTypedNext, CountersTypedNext, StripeTypedNext, ProcsTyped
     DEF EarningsTypeOK, TxnTyped, FundsTyped, CountersTyped, StripeTyped, AmountOK
<1>3. credit' \in [CreditIds -> [remaining : Nat, consumed : Nat]]
  BY DEF Known, CreditInv, CopyOK
<1>4. TypeOK'
  BY <1>2, <1>3, CountersTypedNext, LessonTypedNext DEF TypeOK, CountersTyped, LessonTyped
<1> QED BY <1>4, ProcsTyped DEF TypeInv

Debts == [p \in Procs |-> Owed(p)]
Unexplained == balance - ledger.credit + ledger.debit - granted - lost
Owing == {"transfer", "instantPayout", "recordDebit", "restore", "markCredited", "recordCredit"}

\* Only p works on a transaction whose earning changes.
OwnEarning(p) ==
  \A t \in Txns : txn'[t].earning = txn[t].earning \/ (t = proc[p].job /\ proc[p].pc \in LessonAwaits)

\* What the others owe does not change: no two work on one transaction.
LEMMA OthersOwe ==
  ASSUME Known, NEW p \in Procs, Moved(p), OwnEarning(p), NEW q \in Procs \ {p}
  PROVE  Owed(q)' = Owed(q)
<1>1. proc'[q] = proc[q]
  BY DEF Moved
<1>2. CASE proc[q].pc \in {"markCredited", "recordCredit"}
  <2>1. proc[q].job \in LessonSet
    BY <1>2 DEF Known, IInv, Working, LessonAwaits
  <2>2. proc[q].job \in Txns
    BY <2>1, LessonsAssumption
  <2>3. proc[q].job # proc[p].job \/ proc[p].pc \notin LessonAwaits
    BY DEF Known, JobInv, HasJob
  <2>4. txn'[proc[q].job].earning = txn[proc[q].job].earning
    BY <2>2, <2>3 DEF OwnEarning
  <2> QED BY <1>1, <1>2, <2>4 DEF Owed
<1>3. CASE proc[q].pc \notin {"markCredited", "recordCredit"}
  BY <1>1, <1>3 DEF Owed
<1> QED BY <1>2, <1>3

Values == /\ balance \in Int /\ ledger.credit \in Int /\ ledger.debit \in Int
          /\ granted \in Int /\ lost \in Int

\* Balance and ledger move by what p owes more or less.
LEMMA BalanceStep ==
  ASSUME Known, TypeInv, TypeInv', BalanceExplained, NEW p \in Procs, Moved(p), OwnEarning(p),
         Unexplained' - Unexplained = Owed(p)' - Owed(p)
  PROVE  BalanceExplained'
<1>1. ASSUME NEW q \in Procs PROVE Owed(q) \in Int /\ Owed(q)' \in Int
  <2>1. proc'[q].amount \in Nat
    BY DEF TypeInv, TypeOK, EarningsTypeOK
  <2>2. proc'[q].pc \in {"markCredited", "recordCredit"} => txn'[proc'[q].job].earning \in Nat
    BY DEF TypeInv, TypeOK, EarningsTypeOK
  <2> QED BY <2>1, <2>2, OwedInt DEF Owed
<1>2. \A q \in Procs \ {p} : Owed(q)' = Owed(q)
  BY OthersOwe
<1>3. PICK f : f = [q \in Procs |-> Owed(q)]
  OBVIOUS
<1>4. PICK e : e = [q \in Procs |-> Owed(q)']
  OBVIOUS
<1>5. SumOf(e, Procs) = SumOf(f, Procs) - f[p] + e[p]
  BY <1>1, <1>2, <1>3, <1>4, ProcsAssumption, SumChange
<1>6. SumOf(f, Procs) \in Int
  BY <1>1, <1>3, ProcsAssumption, SumInt
<1>7. Values /\ Values'
  BY DEF TypeInv, TypeOK, EarningsTypeOK, Values
<1>8. balance = ledger.credit - ledger.debit + granted + lost + SumOf(f, Procs)
  BY <1>3 DEF BalanceExplained
<1>9. f[p] = Owed(p) /\ e[p] = Owed(p)' /\ f[p] \in Int /\ e[p] \in Int
  BY <1>1, <1>3, <1>4
<1>10. Unexplained = SumOf(f, Procs)
  BY <1>6, <1>7, <1>8 DEF Values, Unexplained
<1>11. Unexplained' = SumOf(e, Procs)
  <2>1. Unexplained' \in Int /\ Unexplained \in Int
    BY <1>7 DEF Values, Unexplained
  <2>2. Unexplained' - Unexplained = e[p] - f[p]
    BY <1>9
  <2> QED BY <1>5, <1>6, <1>9, <1>10, <2>1, <2>2
<1>12. SumOf(e, Procs) \in Int
  BY <1>5, <1>6, <1>9
<1>13. balance' = ledger'.credit - ledger'.debit + granted' + lost' + SumOf(e, Procs)
  BY <1>7, <1>11, <1>12 DEF Values, Unexplained
<1> QED BY <1>4, <1>13 DEF BalanceExplained

\* A step of an execution between two that move money.
Apart(p) ==
  /\ Moved(p) /\ proc[p].pc \notin Owing /\ proc'[p].pc \notin Owing
  /\ OwnEarning(p) /\ UNCHANGED <<balance, ledger, granted, lost>>
Pays(p) == \/ TakeFunds(p) \/ Transfer(p) \/ InstantPayout(p) \/ RecordDebit(p) \/ Restore(p)
           \/ IncBalance(p) \/ MarkCredited(p) \/ RecordCredit(p)

\* A step that writes no transaction.
LEMMA SameEarning ==
  ASSUME NEW p \in Procs, UNCHANGED txn
  PROVE  OwnEarning(p)
BY DEF OwnEarning

\* Every other step of an execution is apart.
LEMMA WorkFlows ==
  ASSUME Known, NEW p \in Procs, Work(p)
  PROVE  Pays(p) \/ Apart(p)
<1> USE DEF StaysEarned, money, records
<1>0. Shape
  BY DEF Known, IInv
<1>1. ASSUME Finish(p), proc[p].pc \notin Owing, OwnEarning(p), UNCHANGED <<balance, ledger, granted, lost>>
      PROVE  Apart(p)
  BY <1>0, <1>1, Ends DEF Apart, Owing
<1>2. ASSUME NEW pc, Goto(p, pc), pc \notin Owing, proc[p].pc \notin Owing, OwnEarning(p),
             UNCHANGED <<balance, ledger, granted, lost>>
      PROVE  Apart(p)
  BY <1>0, <1>2, Goes DEF Apart
<1>3. CASE LessonStep(p)
  <2>1. Moved(p) /\ proc[p].pc \notin Owing /\ proc'[p].pc \notin Owing
    BY <1>3, InsideSteps DEF LessonStep, Known, Carries, Leaves, Owing
  <2>2. UNCHANGED <<balance, ledger, granted, lost>>
    BY <1>3 DEF LessonStep, SaveCompleted, AddHours, FindCredits, SaveCredit, CreateTxn, SaveNoShow, CreateRequest
  <2>3. UNCHANGED txn \/ CreateTxn(p)
    BY <1>3 DEF LessonStep, SaveCompleted, AddHours, FindCredits, SaveCredit, SaveNoShow, CreateRequest
  <2>4. ASSUME CreateTxn(p) PROVE OwnEarning(p)
    <3>1. proc[p].pc \in LessonAwaits
      BY <2>4 DEF CreateTxn, At, LessonAwaits
    <3>2. \A t \in Txns \ {proc[p].job} : txn'[t] = txn[t]
      BY <2>4, <1>0 DEF CreateTxn, Shape
    <3> QED BY <3>1, <3>2 DEF OwnEarning
  <2> QED BY <2>1, <2>2, <2>3, <2>4, SameEarning DEF Apart
<1>4. CASE CreateAccount(p)
  BY <1>2, <1>4, SameEarning DEF CreateAccount, At, Owing
<1>5. CASE StoreAccount(p)
  BY <1>1, <1>5, SameEarning DEF StoreAccount, At, Owing
<1>6. CASE VerifyAccount(p)
  BY <1>1, <1>2, <1>6, SameEarning DEF VerifyAccount, At, Owing
<1>7. CASE StoreCompleted(p)
  BY <1>2, <1>7, SameEarning DEF StoreCompleted, At, Owing
<1>8. CASE CheckPlatform(p)
  BY <1>1, <1>2, <1>8, SameEarning DEF CheckPlatform, At, Owing
<1>9. CASE FindPending(p) \/ CreatePayout(p) \/ MarkPaid(p)
  <2>1. Moved(p) /\ proc[p].pc \notin Owing
    BY <1>9, WeeklyOutside DEF Known, Outside, FindPending, CreatePayout, MarkPaid, At, Owing
  <2>2. proc'[p].pc \notin Owing
    <3>1. ASSUME FindPending(p), Pending # {} PROVE proc'[p].pc = "createPayout"
      <4>1. PICK ids : ids = Pending
        OBVIOUS
      <4>2. proc' = [proc EXCEPT ![p] = [@ EXCEPT !.pc = "createPayout", !.ids = ids]]
        BY <3>1, <4>1 DEF FindPending
      <4>3. proc'[p] = [proc[p] EXCEPT !.pc = "createPayout", !.ids = ids]
        BY <1>0, <4>2 DEF Shape
      <4> QED BY <1>0, <4>3 DEF Shape, ProcShape
    <3>2. ASSUME FindPending(p), Pending = {} PROVE Finish(p)
      BY <3>2 DEF FindPending, Finish
    <3> QED BY <1>0, <1>9, <3>1, <3>2, Ends, Goes DEF CreatePayout, MarkPaid, Owing
  <2>3. OwnEarning(p)
    <3>1. ASSUME MarkPaid(p) PROVE OwnEarning(p)
      <4>1. ASSUME NEW t \in Txns PROVE txn'[t].earning = txn[t].earning
        <5>1. txn'[t] = IF t \in proc[p].ids THEN [txn[t] EXCEPT !.status = "PAID"] ELSE txn[t]
          BY <3>1 DEF MarkPaid
        <5>2. txn[t] = [status |-> txn[t].status, earning |-> txn[t].earning]
          BY <1>0 DEF Shape
        <5> QED BY <5>1, <5>2
      <4> QED BY <4>1 DEF OwnEarning
    <3> QED BY <1>9, <3>1, SameEarning DEF FindPending, CreatePayout
  <2> QED BY <1>9, <2>1, <2>2, <2>3 DEF Apart, FindPending, CreatePayout, MarkPaid
<1> QED BY <1>3, <1>4, <1>5, <1>6, <1>7, <1>8, <1>9 DEF Work, Continue, Pays

\* So is its beginning.
LEMMA StartFlows ==
  ASSUME Known, TypeInv, NEW p \in Procs,
         \/ \E l \in LessonSet : StartComplete(p, l) \/ StartNoShow(p, l)
         \/ StartWeekly(p) \/ (\E a \in Amounts : StartFastCash(p, a))
  PROVE  Apart(p)
<1>1. UNCHANGED <<txn, balance, ledger, granted, lost>>
  BY DEF StartComplete, StartNoShow, StartWeekly, StartFastCash, StaysEarned, money, records
<1> QED BY <1>1, StartAmount, SameEarning DEF Apart, Owing

\* Each of the eight money steps moves balance or ledger by what it settles.
LEMMA PaysBalance ==
  ASSUME Known, TypeInv, TypeInv', BalanceExplained, NEW p \in Procs, Pays(p)
  PROVE  BalanceExplained'
<1> USE DEF money, records
<1>0. Shape /\ Values /\ proc[p].amount \in Nat
  BY DEF Known, IInv, TypeInv, TypeOK, EarningsTypeOK, Values
<1>1. ASSUME NEW pc, Goto(p, pc)
      PROVE  Moved(p) /\ proc'[p].pc = pc /\ proc'[p].amount = proc[p].amount /\ proc'[p].job = proc[p].job
  BY <1>0, <1>1, Goes, GoesOn
<1>2. ASSUME Finish(p) PROVE Moved(p) /\ Owed(p)' = 0
  BY <1>0, <1>2, Ends DEF Owed
<1>3. CASE TakeFunds(p) /\ balance >= proc[p].amount
  <2>1. Goto(p, "transfer") /\ proc[p].pc = "take" /\ UNCHANGED <<txn, ledger, granted, lost>>
        /\ balance' = balance - proc[p].amount
    BY <1>3 DEF TakeFunds, At
  <2>2. Owed(p) = 0 /\ Owed(p)' = -proc[p].amount /\ Moved(p) /\ OwnEarning(p)
    BY <1>1, <2>1, SameEarning DEF Owed
  <2>3. Unexplained' - Unexplained = Owed(p)' - Owed(p)
    BY <1>0, <2>1, <2>2 DEF Unexplained, Values
  <2> QED BY <2>2, <2>3, BalanceStep
<1>4. CASE TakeFunds(p) /\ ~(balance >= proc[p].amount)
  <2>1. Finish(p) /\ proc[p].pc = "take" /\ UNCHANGED <<txn, balance, ledger, granted, lost>>
    BY <1>4 DEF TakeFunds, At
  <2>2. Owed(p) = 0 /\ Owed(p)' = 0 /\ Moved(p) /\ OwnEarning(p)
    BY <1>2, <2>1, SameEarning DEF Owed
  <2>3. Unexplained' - Unexplained = Owed(p)' - Owed(p)
    BY <1>0, <2>1, <2>2 DEF Unexplained, Values
  <2> QED BY <2>2, <2>3, BalanceStep
<1>5. CASE Transfer(p) \/ InstantPayout(p)
  <2>1. PICK pc \in {"instantPayout", "restore", "recordDebit"} : Goto(p, pc)
    BY <1>5 DEF Transfer, InstantPayout
  <2>2. proc[p].pc \in {"transfer", "instantPayout"} /\ UNCHANGED <<txn, balance, ledger, granted, lost>>
    BY <1>5 DEF Transfer, InstantPayout, At
  <2>3. Owed(p) = -proc[p].amount /\ Owed(p)' = -proc[p].amount /\ Moved(p) /\ OwnEarning(p)
    BY <1>1, <2>1, <2>2, SameEarning DEF Owed
  <2>4. Unexplained' - Unexplained = Owed(p)' - Owed(p)
    BY <1>0, <2>2, <2>3 DEF Unexplained, Values
  <2> QED BY <2>3, <2>4, BalanceStep
<1>6. CASE RecordDebit(p)
  <2>1. Finish(p) /\ proc[p].pc = "recordDebit" /\ UNCHANGED <<txn, balance, granted, lost>>
        /\ ledger' = [ledger EXCEPT !.debit = @ + proc[p].amount]
    BY <1>6 DEF RecordDebit, At
  <2>2. ledger'.debit = ledger.debit + proc[p].amount /\ ledger'.credit = ledger.credit
    BY <2>1 DEF TypeInv, TypeOK, EarningsTypeOK
  <2>3. Owed(p) = -proc[p].amount /\ Owed(p)' = 0 /\ Moved(p) /\ OwnEarning(p)
    BY <1>2, <2>1, SameEarning DEF Owed
  <2>4. Unexplained' - Unexplained = Owed(p)' - Owed(p)
    BY <1>0, <2>1, <2>2, <2>3 DEF Unexplained, Values
  <2> QED BY <2>3, <2>4, BalanceStep
<1>7. CASE Restore(p)
  <2>1. Finish(p) /\ proc[p].pc = "restore" /\ UNCHANGED <<txn, ledger, granted, lost>>
        /\ balance' = balance + proc[p].amount
    BY <1>7 DEF Restore, At
  <2>2. Owed(p) = -proc[p].amount /\ Owed(p)' = 0 /\ Moved(p) /\ OwnEarning(p)
    BY <1>2, <2>1, SameEarning DEF Owed
  <2>3. Unexplained' - Unexplained = Owed(p)' - Owed(p)
    BY <1>0, <2>1, <2>2 DEF Unexplained, Values
  <2> QED BY <2>2, <2>3, BalanceStep
<1>8. ASSUME proc[p].pc \in {"incBalance", "markCredited", "recordCredit"}
      PROVE  proc[p].job \in Txns /\ txn[proc[p].job].earning \in Nat
  BY <1>8 DEF TypeInv, TypeOK, EarningsTypeOK
<1>9. CASE IncBalance(p)
  <2>1. Goto(p, "markCredited") /\ proc[p].pc = "incBalance" /\ UNCHANGED <<txn, ledger, granted, lost>>
        /\ balance' = balance + txn[proc[p].job].earning
    BY <1>9 DEF IncBalance, At
  <2>2. Owed(p) = 0 /\ Owed(p)' = txn[proc[p].job].earning /\ Moved(p) /\ OwnEarning(p)
    BY <1>1, <2>1, SameEarning DEF Owed
  <2>3. Unexplained' - Unexplained = Owed(p)' - Owed(p)
    BY <1>0, <1>8, <2>1, <2>2 DEF Unexplained, Values
  <2> QED BY <2>2, <2>3, BalanceStep
<1>10. CASE MarkCredited(p)
  <2>1. Goto(p, "recordCredit") /\ proc[p].pc = "markCredited" /\ UNCHANGED <<balance, ledger, granted, lost>>
        /\ txn' = [txn EXCEPT ![proc[p].job].status = "PAID"]
    BY <1>10 DEF MarkCredited, At
  <2>2. \A t \in Txns : txn'[t].earning = txn[t].earning
    <3>1. \A t \in Txns : txn[t] = [status |-> txn[t].status, earning |-> txn[t].earning]
      BY <1>0 DEF Shape
    <3> QED BY <1>0, <2>1, <3>1 DEF Shape
  <2>3. Owed(p) = txn[proc[p].job].earning /\ Owed(p)' = txn[proc[p].job].earning
    BY <1>1, <1>8, <2>1, <2>2 DEF Owed
  <2>4. Unexplained' - Unexplained = Owed(p)' - Owed(p)
    BY <1>0, <1>8, <2>1, <2>3 DEF Unexplained, Values
  <2> QED BY <1>1, <2>1, <2>2, <2>4, BalanceStep DEF OwnEarning
<1>11. CASE RecordCredit(p)
  <2>1. Finish(p) /\ proc[p].pc = "recordCredit" /\ UNCHANGED <<txn, balance, granted, lost>>
        /\ ledger' = [ledger EXCEPT !.credit = @ + txn[proc[p].job].earning]
    BY <1>11 DEF RecordCredit, At
  <2>2. ledger'.credit = ledger.credit + txn[proc[p].job].earning /\ ledger'.debit = ledger.debit
    BY <2>1 DEF TypeInv, TypeOK, EarningsTypeOK
  <2>3. Owed(p) = txn[proc[p].job].earning /\ Owed(p)' = 0 /\ Moved(p) /\ OwnEarning(p)
    BY <1>2, <2>1, SameEarning DEF Owed
  <2>4. Unexplained' - Unexplained = Owed(p)' - Owed(p)
    BY <1>0, <1>8, <2>1, <2>2, <2>3 DEF Unexplained, Values
  <2> QED BY <2>3, <2>4, BalanceStep
<1> QED BY <1>3, <1>4, <1>5, <1>6, <1>7, <1>9, <1>10, <1>11 DEF Pays

\* Nothing is owed at first.
LEMMA InitBalance == Init => BalanceExplained
<1> SUFFICES ASSUME Init PROVE BalanceExplained
  OBVIOUS
<1>1. PICK f : f = [p \in Procs |-> Owed(p)]
  OBVIOUS
<1>2. \A p \in Procs : f[p] = 0
  BY <1>1 DEF Init, EarningsInit, FundsInit, Idle, Owed
<1>3. SumOf(f, Procs) = 0
  BY <1>2, ProcsAssumption, SumZero
<1> QED BY <1>1, <1>3 DEF BalanceExplained, Init, EarningsInit, FundsInit

\* Every step keeps BalanceExplained.
LEMMA NextBalance ==
  ASSUME Known, TypeInv, TypeInv', BalanceExplained, [Next]_vars
  PROVE  BalanceExplained'
<1>0. Values
  BY DEF TypeInv, TypeOK, EarningsTypeOK, Values
<1>1. ASSUME NEW p \in Procs, Apart(p) PROVE BalanceExplained'
  <2>1. Owed(p) = 0 /\ Owed(p)' = 0
    BY <1>1 DEF Apart, Owing, Owed
  <2>2. Unexplained' - Unexplained = Owed(p)' - Owed(p)
    BY <1>0, <1>1, <2>1 DEF Apart, Unexplained, Values
  <2> QED BY <1>1, <2>2, BalanceStep DEF Apart
<1>2. ASSUME NEW p \in Procs, Abandon(p) PROVE BalanceExplained'
  <2>1. Moved(p) /\ Owed(p)' = 0 /\ OwnEarning(p)
    BY <1>2, Ends, SameEarning DEF Abandon, Die, records, Known, IInv, Owed
  <2>2. UNCHANGED <<balance, ledger, granted>> /\ lost' = lost + Owed(p) /\ Owed(p) \in Int
    BY <1>2, OwedInt DEF Abandon, Die, money
  <2>3. Unexplained' - Unexplained = Owed(p)' - Owed(p)
    BY <1>0, <2>1, <2>2 DEF Unexplained, Values
  <2> QED BY <2>1, <2>3, BalanceStep
<1>3. ASSUME UNCHANGED <<proc, txn, ledger, lost>>, NEW a \in Nat, balance' = balance + a, granted' = granted + a
      PROVE  BalanceExplained'
  <2>1. \A p \in Procs : Owed(p)' = Owed(p)
    BY <1>3 DEF Owed
  <2>2. PICK f : f = [p \in Procs |-> Owed(p)]
    OBVIOUS
  <2>3. f = [p \in Procs |-> Owed(p)']
    BY <2>1, <2>2
  <2>4. \A p \in Procs : f[p] \in Int
    BY <2>2, OwedInt
  <2>5. SumOf(f, Procs) \in Int
    BY <2>4, ProcsAssumption, SumInt
  <2>6. balance' = ledger'.credit - ledger'.debit + granted' + lost' + SumOf(f, Procs)
    BY <1>0, <1>3, <2>2, <2>5 DEF BalanceExplained, Values
  <2> QED BY <2>3, <2>6 DEF BalanceExplained
<1>4. ASSUME UNCHANGED <<proc, txn, balance, ledger, granted, lost>>
      PROVE  BalanceExplained'
  BY <1>0, <1>3, <1>4 DEF Values
<1>5. ASSUME NEW a \in Gifts, AddWalletBalance(a) PROVE BalanceExplained'
  BY <1>3, <1>5, AmountsAssumption DEF AddWalletBalance, records
<1>6. ASSUME \/ \E l \in LessonSet : Cancel(l) \/ Move(l) \/ Propose(l) \/ Answer(l)
             \/ \E role \in Roles : \/ MarkRead(role, LessonSet)
                                    \/ \E l \in LessonSet : MarkRead(role, {l})
             \/ AccountChanges \/ AccountUpdated \/ UNCHANGED vars
      PROVE  UNCHANGED <<proc, txn, balance, ledger, granted, lost>>
  BY <1>6 DEF Cancel, Move, Propose, Answer, Set, MarkRead, AccountChanges, AccountUpdated, vars, earnings, money, records
<1> QED BY <1>1, <1>2, <1>4, <1>5, <1>6, WorkFlows, StartFlows, PaysBalance DEF Next

TotalInv == /\ Known /\ HoursInv /\ TraceInv
            /\ TypeInv /\ BalanceExplained

\* The whole invariant holds for every behaviour.
LEMMA TotalInvariant == Spec => []TotalInv
<1>1. Init => TotalInv
  BY InitIInv, InitJobInv, InitHoursInv, InitCreditInv, InitTraceInv, InitTypeInv, InitBalance DEF TotalInv, Known
<1>2. TotalInv /\ [Next]_vars => TotalInv'
  <2> SUFFICES ASSUME TotalInv, [Next]_vars PROVE TotalInv'
    OBVIOUS
  <2>1. Known /\ HoursInv /\ TraceInv /\ TypeInv /\ BalanceExplained
    BY DEF TotalInv
  <2>2. Known'
    BY <2>1, NextIInv, NextJobInv, NextCreditInv DEF Known
  <2>3. HoursInv' /\ TraceInv'
    BY <2>1, NextHoursInv, NextTraceInv DEF Known
  <2>4. TypeInv'
    BY <2>1, <2>2, NextTypeInv
  <2>5. BalanceExplained'
    BY <2>1, <2>4, NextBalance
  <2> QED BY <2>2, <2>3, <2>4, <2>5 DEF TotalInv
<1> QED BY <1>1, <1>2, PTL DEF Spec

-----------------------------------------------------------------------------

\* instructorFastCash and the account.updated webhook: for any interleaving and
\* any order of the events, money leaves only after Stripe reported the account
\* complete.
THEOREM PayoutsOnboarded == Spec => []OnboardedOnly
BY Invariant, IInvImplies, PTL

\* generateWeeklyPayout: for any number of overlapping or dying runs, a
\* transaction it marks PAID is in a Payout document.
THEOREM PaidArePaidOut == Spec => []PaidIsPaidOut
BY Invariant, IInvImplies, PTL

\* requestNoShowSlot: for any lessons of the order, whatever else is done to
\* them, who waits for a decision has a request unless its execution died.
THEOREM RequestsFiled == Spec => []RequestFiled
BY Invariant, IInvImplies, PTL

\* For any lessons, amounts, executions and failures the documents keep their
\* types; in particular the wallet never goes below zero.
THEOREM Typed == Spec => []TypeOK
<1>1. TotalInv => TypeOK
  BY DEF TotalInv, TypeInv
<1> QED BY <1>1, TotalInvariant, PTL

\* instructorFastCash and creditInstructorWallet: for any number of executions,
\* whatever fails or dies, the wallet differs from its ledger by what add-wallet
\* put in, what is under way and what died.
THEOREM BalancesExplained == Spec => []BalanceExplained
<1>1. TotalInv => BalanceExplained
  BY DEF TotalInv
<1> QED BY <1>1, TotalInvariant, PTL

\* completeSlot: for any order, unless an execution died, exactly the COMPLETED
\* lessons are paid and counted once.
THEOREM CompletedArePaid == Spec => []PaidForCompleted
<1>1. TotalInv => PaidForCompleted
  BY PaidImplies DEF TotalInv, Known
<1> QED BY <1>1, TotalInvariant, PTL

\* handleCreditConsumption: for any credits, saved from copies however stale, no
\* hours appear or vanish, and no more are consumed than were taught.
THEOREM CreditsAreAccounted == Spec => []CreditsAccounted
<1>1. TotalInv => CreditsAccounted
  BY TraceImplies DEF TotalInv, Known
<1> QED BY <1>1, TotalInvariant, PTL
=============================================================================
