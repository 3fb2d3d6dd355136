------------------------------ MODULE Lessons -------------------------------
(***************************************************************************)
(* What happens to the lessons of one order after they were booked:        *)
(* completion with its payment to the instructor, cancellation,            *)
(* rescheduling, no-show requests and the notification flags.              *)
(*                                                                         *)
(* completeSlot runs over three services: it saves the order, consumes the *)
(* lesson credits of the learner first in first out, creates the           *)
(* instructor's transaction and credits his wallet (Earnings).  Executions *)
(* interleave between awaits, and may die there; two executions never work *)
(* on the same lesson at once (Free), nothing else is serialised.          *)
(***************************************************************************)
EXTENDS Earnings, Sequences

CONSTANTS
  LessonSet,        \* the lessons of the order; each is also a transaction
  Hours,            \* their length
  TotalHours,       \* hours of the lesson pack bought with the order
  Credits           \* remainingHours and discountRate (percent) of the learner's
                    \* CREDIT entries, oldest first

ASSUME LessonsAssumption ==
  /\ LessonSet \subseteq Txns \ Legacy /\ IsFiniteSet(LessonSet)
  /\ Hours \in [LessonSet -> Nat \ {0}]
ASSUME CreditsAssumption ==
  /\ TotalHours \in Nat
  /\ Credits \in Seq([hours : Nat, rate : 0..100])

VARIABLES
  lesson,      \* status of each lesson
  unread,      \* who has its notification flag set
  order,       \* usedHours, remainingHours, scheduleStatus = FULLY_SCHEDULED
  credit,      \* remainingHours and consumedHours of each credit
  taught,      \* totalHours of the instructor's profile
  requests,    \* lessons with a PENDING no-show request
  abandoned    \* lessons whose execution died

lessons == <<lesson, unread, order, credit, taught, requests, abandoned>>
vars == <<earnings, lessons>>

Roles == {"learner", "instructor"}
LessonStatus == {"BOOKED", "RESCHEDULED", "PENDING_RESCHEDULE", "CANCELLED", "COMPLETED", "NOSHOW_REQUESTED"}
CreditIds == 1..Len(Credits)
UsedAtBooking == SumOf(Hours, LessonSet)

LessonsInit ==
  /\ lesson = [l \in LessonSet |-> "BOOKED"]
  /\ unread = [l \in LessonSet |-> {}]
  /\ order = [used |-> UsedAtBooking,
              remaining |-> IF TotalHours > 0 THEN TotalHours - UsedAtBooking ELSE 0,
              scheduled |-> FALSE]
  /\ credit = [c \in CreditIds |-> [remaining |-> Credits[c].hours, consumed |-> 0]]
  /\ taught = 0
  /\ requests = {}
  /\ abandoned = {}

Init == EarningsInit /\ LessonsInit

Free(l) == \A p \in Procs : proc[p].job # l
Active(l) == lesson[l] \in {"BOOKED", "RESCHEDULED"}
Begin(p, pc, l) == /\ At(p, "idle") /\ Free(l)
                   /\ proc' = [proc EXCEPT ![p] = [Idle EXCEPT !.pc = pc, !.job = l, !.seen = order]]
StaysEarned == UNCHANGED <<money, records, onboarding, asked, died, lost>>

-----------------------------------------------------------------------------
(* completeSlot *)

StartComplete(p, l) ==
  /\ Active(l)
  /\ Begin(p, "saveCompleted", l)
  /\ StaysEarned /\ UNCHANGED lessons

\* The hours come from the copy that was loaded; 0 is the floor.
SaveCompleted(p) ==
  /\ At(p, "saveCompleted")
  /\ LET l == proc[p].job
         used == proc[p].seen.used + Hours[l]
         left == IF TotalHours > used THEN TotalHours - used ELSE 0
     IN  /\ lesson' = [lesson EXCEPT ![l] = "COMPLETED"]
         /\ unread' = [unread EXCEPT ![l] = Roles]
         /\ order' = [used |-> used, remaining |-> left, scheduled |-> order.scheduled \/ left = 0]
  /\ Goto(p, "addHours")
  /\ StaysEarned /\ UNCHANGED <<credit, taught, requests, abandoned>>

AddHours(p) ==
  /\ At(p, "addHours")
  /\ taught' = taught + Hours[proc[p].job]
  /\ Goto(p, "findCredits")
  /\ StaysEarned /\ UNCHANGED <<lesson, unread, order, credit, requests, abandoned>>

\* handleCreditConsumption, CONSUME: what each credit gives, oldest first.
Available(c, copy) == IF copy[c].remaining > 0 THEN copy[c].remaining ELSE 0
Before(c, copy) == SumOf([b \in CreditIds |-> Available(b, copy)], 1..(c - 1))
Least(a, b) == IF a < b THEN a ELSE b
\* Mutant: hoursRemaining is not decreased from one credit to the next.
AppliedAnew(c, copy, hours) == Least(hours, Available(c, copy))

Applied(c, copy, hours) ==
  IF Before(c, copy) >= hours THEN 0 ELSE Least(hours - Before(c, copy), Available(c, copy))

ToSave(copy, hours) == {c \in CreditIds : Applied(c, copy, hours) > 0}

FindCredits(p) ==
  /\ At(p, "findCredits")
  /\ proc' = [proc EXCEPT ![p].seen = credit,
                          ![p].ids = ToSave(credit, Hours[proc[p].job]),
                          ![p].pc = IF ToSave(credit, Hours[proc[p].job]) = {} THEN "createTxn" ELSE "saveCredit"]
  /\ StaysEarned /\ UNCHANGED lessons

\* Each document is saved by itself, from the copy that was found.
SaveCredit(p) ==
  /\ At(p, "saveCredit")
  /\ LET c == Min(proc[p].ids)
         applied == Applied(c, proc[p].seen, Hours[proc[p].job])
     IN  /\ credit' = [credit EXCEPT ![c] = [remaining |-> proc[p].seen[c].remaining - applied,
                                             consumed |-> proc[p].seen[c].consumed + applied]]
         /\ proc' = [proc EXCEPT ![p].ids = @ \ {c}, ![p].amount = @ + applied * Credits[c].rate,
                                 ![p].pc = IF proc[p].ids = {c} THEN "createTxn" ELSE "saveCredit"]
  /\ StaysEarned /\ UNCHANGED <<lesson, unread, order, taught, requests, abandoned>>

\* 83 percent of the price less half the discount, in 1/200 of the hourly price:
\* amount is the sum of hours * discountRate (percent) over the credits used.
EarningOf(hours, discount) == 166 * hours - discount

\* The transaction is created as PAID; creditInstructorWallet follows.
CreateTxn(p) ==
  /\ At(p, "createTxn")
  /\ txn' = [txn EXCEPT ![proc[p].job] =
       [status |-> "PAID", earning |-> EarningOf(Hours[proc[p].job], proc[p].amount)]]
  /\ proc' = [proc EXCEPT ![p].pc = "incBalance", ![p].seen = NoTxn]
  /\ UNCHANGED <<money, payouts, onboarding, asked, died, lost>> /\ UNCHANGED lessons

-----------------------------------------------------------------------------
(* requestNoShowSlot *)

\* A lesson with a pending request is left alone.
StartNoShow(p, l) ==
  /\ Active(l)
  /\ l \notin requests
  /\ Begin(p, "saveNoShow", l)
  /\ StaysEarned /\ UNCHANGED lessons

SaveNoShow(p) ==
  /\ At(p, "saveNoShow")
  /\ lesson' = [lesson EXCEPT ![proc[p].job] = "NOSHOW_REQUESTED"]
  /\ Goto(p, "createRequest")
  /\ StaysEarned /\ UNCHANGED <<unread, order, credit, taught, requests, abandoned>>

\* Mutant: the index on the order and PENDING is unique.
CreateRequestUnique(p) ==
  /\ At(p, "createRequest")
  /\ requests' = IF requests = {} THEN {proc[p].job} ELSE requests
  /\ Finish(p)
  /\ StaysEarned /\ UNCHANGED <<lesson, unread, order, credit, taught, abandoned>>

CreateRequest(p) ==
  /\ At(p, "createRequest")
  /\ requests' = requests \cup {proc[p].job}
  /\ Finish(p)
  /\ StaysEarned /\ UNCHANGED <<lesson, unread, order, credit, taught, abandoned>>

-----------------------------------------------------------------------------
(* Handlers whose detail is in Calendar and Wallet: here, what they do to   *)
(* the status and the flags.                                                *)

Set(l, status) ==
  /\ Free(l)
  /\ lesson' = [lesson EXCEPT ![l] = status]
  /\ unread' = [unread EXCEPT ![l] = Roles]
  /\ UNCHANGED <<earnings, order, credit, taught, requests, abandoned>>

Cancel(l) == Active(l) /\ Set(l, "CANCELLED")

\* Mutant: any lesson can be moved.
MoveAny(l) == Set(l, "RESCHEDULED")

\* requestSlotReschedule: a learner's move, an instructor's proposal; also of a
\* cancelled lesson, and of one a no-show was requested for.
Move(l) == lesson[l] # "COMPLETED" /\ Set(l, "RESCHEDULED")
Propose(l) == lesson[l] \notin {"COMPLETED", "PENDING_RESCHEDULE"} /\ Set(l, "PENDING_RESCHEDULE")

\* respondSlotReschedule
Answer(l) == /\ lesson[l] = "PENDING_RESCHEDULE"
             /\ Set(l, "RESCHEDULED") \/ Set(l, "BOOKED")

\* getNotifications; markNotificationRead and markAllNotificationsRead
Notifications(role) == {l \in LessonSet : role \in unread[l]}
MarkRead(role, S) ==
  /\ S \cap Notifications(role) # {}
  /\ unread' = [l \in LessonSet |-> IF l \in S THEN unread[l] \ {role} ELSE unread[l]]
  /\ UNCHANGED <<earnings, lesson, order, credit, taught, requests, abandoned>>

-----------------------------------------------------------------------------

Abandon(p) ==
  /\ Die(p)
  /\ abandoned' = abandoned \cup ({proc[p].job} \cap LessonSet)
  /\ UNCHANGED <<lesson, unread, order, credit, taught, requests>>

LessonStep(p) ==
  \/ SaveCompleted(p) \/ AddHours(p) \/ FindCredits(p) \/ SaveCredit(p) \/ CreateTxn(p)
  \/ SaveNoShow(p) \/ CreateRequest(p)

Work(p) == LessonStep(p) \/ (Continue(p) /\ UNCHANGED lessons)

Next ==
  \/ \E p \in Procs :
       \/ Work(p) \/ Abandon(p)
       \/ \E l \in LessonSet : StartComplete(p, l) \/ StartNoShow(p, l)
       \/ StartWeekly(p) /\ UNCHANGED lessons
       \/ \E a \in Amounts : StartFastCash(p, a) /\ UNCHANGED lessons
  \/ \E l \in LessonSet : Cancel(l) \/ Move(l) \/ Propose(l) \/ Answer(l)
  \/ \E role \in Roles : \/ MarkRead(role, LessonSet)
                         \/ \E l \in LessonSet : MarkRead(role, {l})
  \/ (\E a \in Gifts : AddWalletBalance(a)) /\ UNCHANGED lessons
  \/ (AccountChanges \/ AccountUpdated) /\ UNCHANGED lessons

Spec == Init /\ [][Next]_vars

\* An execution that started goes on, and the cron job comes round again.
Fairness == \A p \in Procs : WF_vars(Work(p)) /\ SF_vars(StartWeekly(p) /\ UNCHANGED lessons)
-----------------------------------------------------------------------------
(* Properties *)

\* The documents keep their types, the instructor's wallet included.
TypeOK ==
  /\ EarningsTypeOK
  /\ lesson \in [LessonSet -> LessonStatus]
  /\ unread \in [LessonSet -> SUBSET Roles]
  /\ order \in [used : Nat, remaining : Int, scheduled : BOOLEAN]
  /\ credit \in [CreditIds -> [remaining : Nat, consumed : Nat]]
  /\ taught \in Nat
  /\ requests \subseteq LessonSet /\ abandoned \subseteq LessonSet

\* Whatever is cancelled, moved or proposed in between: unless an execution
\* died, exactly the COMPLETED lessons have their transaction, and the profile
\* counts their hours once.
Completed == {l \in LessonSet : lesson[l] = "COMPLETED"}
PaidForCompleted ==
  (\A l \in LessonSet : Free(l)) /\ abandoned = {} =>
    /\ Completed = {l \in LessonSet : txn[l].status = "PAID"}
    /\ taught = SumOf(Hours, Completed)

\* Executions save credits from stale copies; still no credit gains or loses
\* hours, and never more hours are consumed than were taught.
CreditsAccounted ==
  /\ \A c \in CreditIds : credit[c].remaining + credit[c].consumed = Credits[c].hours
  /\ SumOf([c \in CreditIds |-> credit[c].consumed], CreditIds) <= SumOf(Hours, Completed)

\* A lesson that waits for the decision on a no-show has a request an
\* administrator can decide, unless the execution died between the two writes.
RequestFiled ==
  \A l \in LessonSet :
    lesson[l] = "NOSHOW_REQUESTED" /\ Free(l) /\ l \notin abandoned => l \in requests
=============================================================================
