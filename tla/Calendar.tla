------------------------------ MODULE Calendar ------------------------------
(***************************************************************************)
(* The calendar of one instructor under concurrent request handlers: order *)
(* creation, Stripe webhooks, cancellation, rescheduling, availability     *)
(* edits and the lock-release cron, each a process that loads documents,   *)
(* edits its copies and saves them.  One action is one database operation  *)
(* with the synchronous code that follows it, up to the next await.        *)
(*                                                                         *)
(* Mongoose, as the code uses it: a save that replaces an array (splice,   *)
(* assignment) requires the __v it loaded and increments it; one that sets *)
(* fields of array elements requires it only; updateOne and updateMany do  *)
(* neither.  `current` is the set of processes whose copy still has the    *)
(* stored __v.  Nothing replaces bookedSlots in an order, so the __v of an *)
(* order never moves and its saves are writes of the modified fields.      *)
(***************************************************************************)
EXTENDS DaySlots, FiniteSets

CONSTANTS
  Private,    \* the orders made by createPrivateOrder
  ByWallet,   \* public orders whose learner can pay from the wallet
  Lessons,    \* ids of the elements of bookedSlots / lessonSlots
  OrderOf,    \* the order each lesson belongs to
  NoLesson,
  Requests,   \* the time ranges clients ask for
  Weeks,      \* the weeks of the availability, as sets of dates
  Layouts,    \* the days instructors ask for, as sets of ranges
  Handlers,   \* the handlers clients call in this instance
  Procs,      \* concurrent executions of handlers
  Crashes     \* whether an execution may die between two awaits

ByStripe == Orders \ (Private \cup ByWallet)
Public == Orders \ Private

ASSUME LessonsAssumption == OrderOf \in [Lessons -> Orders] /\ NoLesson \notin Lessons
ASSUME RequestsAssumption == Requests \subseteq {r \in Ranges : r.start < r.end}
ASSUME WeeksAssumption == Weeks \subseteq (SUBSET Dates) \ {{}}
ASSUME LayoutsAssumption == Layouts \subseteq SUBSET Ranges
ASSUME CrashesAssumption == Crashes \in BOOLEAN

VARIABLES
  slots,      \* the stored availability
  current,    \* the processes whose loaded profile has the stored __v
  orders,     \* the stored orders: status, paymentStatus, stripeChargeId known
  lessons,    \* the stored bookedSlots elements
  proc        \* the executions

vars == <<slots, current, orders, lessons, proc>>

OrderStatus == {"NONE", "PENDING_PAYMENT", "CONFIRMING", "CONFIRMED", "CANCELLED",
                "REFUNDED", "DELETED"}
\* What the order's schema allows: save() validates the loaded fields too, and
\* throws for a REFUNDED order (an update wrote that, which validates nothing).
SchemaStatus == {"PENDING_PAYMENT", "CONFIRMING", "CONFIRMED", "CANCELLED"}
LessonStatus == {"BOOKED", "CANCELLED", "RESCHEDULED", "PENDING_RESCHEDULE"}

NoRange == [date |-> NoOrder, start |-> 0, end |-> 0]
NoReschedule == [status |-> "NONE", proposed |-> NoRange]
NoLessonDoc == [range |-> NoRange, status |-> "BOOKED", reschedule |-> NoReschedule]

Reschedules == [status : {"NONE", "PENDING", "ACCEPTED", "REJECTED"},
                proposed : Requests \cup {NoRange}]
LessonDocs == [range : Requests \cup {NoRange}, status : LessonStatus,
               reschedule : Reschedules]

\* A process: where its handler waits (pc), the handler, its order and
\* lesson, its copy of the profile (doc) with the dates whose array it
\* replaced (dirty), its copy of the lesson (seen) and of the order's status
\* (was), the ranges of the order's lessons (want) with those not yet
\* attached (todo), and the range a reschedule moves to (new).
Idle == [pc |-> "idle", handler |-> "none", order |-> NoOrder, lesson |-> NoLesson,
         doc |-> NoDoc, dirty |-> {}, seen |-> NoLessonDoc, was |-> "NONE",
         want |-> [l \in Lessons |-> NoRange], todo |-> {}, new |-> NoRange]

LessonsOf(o) == {l \in Lessons : OrderOf[l] = o}
RangesOf(o) == [l \in Lessons |-> IF OrderOf[l] = o THEN lessons[l].range ELSE NoRange]
Exists(o) == orders[o].status \notin {"NONE", "DELETED"}

\* The type of a process, its copy of the profile apart.
FieldsType(x) ==
  /\ DOMAIN x = DOMAIN Idle
  /\ x.dirty \subseteq Dates
  /\ x.order \in Orders \cup (IF x.pc \in {"lock", "reload"} THEN {} ELSE {NoOrder})
  /\ x.lesson \in Lessons \cup {NoLesson}
  /\ x.seen \in LessonDocs
  /\ x.was \in OrderStatus
  /\ x.want \in [Lessons -> Requests \cup {NoRange}]
  /\ x.todo \subseteq Lessons
  /\ x.new \in Requests \cup {NoRange}

\* Every copy of the availability is a document, and no handler stores a
\* range, a status or a lesson of another kind (the schemas' types).
TypeOK ==
  /\ IsDoc(slots)
  /\ current \subseteq Procs
  /\ orders \in [Orders -> [status : OrderStatus, paid : BOOLEAN, charged : BOOLEAN]]
  /\ lessons \in [Lessons -> LessonDocs]
  /\ DOMAIN proc = Procs
  /\ \A p \in Procs : FieldsType(proc[p]) /\ IsDoc(proc[p].doc)

Init ==
  /\ \E L \in Layouts : Normalized(L) /\ slots = [r \in L |-> FreeSlot]
  /\ current = {}
  /\ orders = [o \in Orders |-> [status |-> "NONE", paid |-> FALSE, charged |-> FALSE]]
  /\ lessons = [l \in Lessons |-> NoLessonDoc]
  /\ proc = [p \in Procs |-> Idle]

-----------------------------------------------------------------------------
(* Steps of every handler *)

Start(p, handler) == handler \in Handlers /\ proc[p].pc = "idle"
At(p, pc, handlers) == proc[p].pc = pc /\ proc[p].handler \in handlers
Goto(p, pc) == proc' = [proc EXCEPT ![p].pc = pc]
Finish(p) == proc' = [proc EXCEPT ![p] = Idle]

\* instructorProfileModel.findById: a copy of the stored document.
LoadProfile(p) ==
  /\ proc[p].pc = "load"
  /\ proc' = [proc EXCEPT ![p].doc = slots, ![p].dirty = {}, ![p].pc =
       IF proc[p].handler \in {"createOrder", "handlePublicOrderSuccess"} THEN "attach" ELSE "loaded"]
  /\ current' = current \cup {p}
  /\ UNCHANGED <<slots, orders, lessons>>

\* Mutant: the stored __v is not required.
SaveProfileUnversioned(p, edited, dirty) ==
  /\ slots' = Save(slots, proc[p].doc, edited, dirty)
  /\ current' = current \ {p}

\* profile.save() of the copy, changed into `edited`: TRUE, as an action, when
\* it succeeds.  Replaced arrays invalidate every other copy.
SaveProfile(p, edited, dirty) ==
  IF Modified(proc[p].doc, edited, dirty)
  THEN /\ p \in current
       /\ slots' = Save(slots, proc[p].doc, edited, dirty)
       /\ current' = IF dirty = {} THEN current \ {p} ELSE {}
  ELSE /\ current' = current \ {p}
       /\ UNCHANGED slots

\* ... and when it throws VersionError.
VersionError(p, edited, dirty) ==
  /\ Modified(proc[p].doc, edited, dirty)
  /\ p \notin current
  /\ UNCHANGED <<slots, current>>

\* An exception, with nothing stored: the execution ends.
Throw(p) == /\ Finish(p)
            /\ current' = current \ {p}
            /\ UNCHANGED <<slots, orders, lessons>>

\* An execution may die (the process restarts) between any two awaits.
Crash(p) == Crashes /\ proc[p].pc # "idle" /\ Throw(p)

-----------------------------------------------------------------------------
(* createOrder *)

\* validateSlotConflict of the order service reads the stored profile.
NoSlotConflict(req) == OpenFor(slots, req) # {}

\* The ranges an order asks for: one per lesson of o.
Wishes(o) == {w \in [Lessons -> Requests \cup {NoRange}] :
                \A l \in Lessons : (OrderOf[l] = o) = (w[l] # NoRange)}
Ask(o, w) == lessons' = [l \in Lessons |->
               IF OrderOf[l] = o THEN [NoLessonDoc EXCEPT !.range = w[l]] ELSE lessons[l]]

\* An order that the wallet pays for is CONFIRMED and PAID when it is created,
\* before its slots are attached; the others wait for Stripe.
CreateOrder(p, o) ==
  /\ Start(p, "createOrder")
  /\ o \in Public
  /\ orders[o].status = "NONE"
  /\ \E w \in Wishes(o) :
       /\ \A l \in LessonsOf(o) : NoSlotConflict(w[l])
       /\ Ask(o, w)
       /\ IF o \in ByWallet
          THEN /\ orders' = [orders EXCEPT ![o].status = "CONFIRMED", ![o].paid = TRUE]
               /\ proc' = [proc EXCEPT ![p] = [Idle EXCEPT
                    !.pc = "load", !.handler = "createOrder", !.order = o,
                    !.want = w, !.todo = LessonsOf(o)]]
          ELSE /\ orders' = [orders EXCEPT ![o].status = "PENDING_PAYMENT"]
               /\ UNCHANGED proc
  /\ UNCHANGED <<slots, current>>

\* createPrivateOrder loads the profile first, and attaches to that copy.
StartPrivateOrder(p, o) ==
  /\ Start(p, "createPrivateOrder")
  /\ o \in Private
  /\ orders[o].status = "NONE"
  /\ \A q \in Procs : proc[q].order # o
  /\ proc' = [proc EXCEPT ![p] = [Idle EXCEPT
       !.pc = "load", !.handler = "createPrivateOrder", !.order = o]]
  /\ UNCHANGED <<slots, current, orders, lessons>>

CreatePrivateOrder(p) ==
  /\ At(p, "loaded", {"createPrivateOrder"})
  /\ \E w \in Wishes(proc[p].order) :
       /\ \A l \in LessonsOf(proc[p].order) : NoSlotConflict(w[l])
       /\ Ask(proc[p].order, w)
       /\ orders' = [orders EXCEPT ![proc[p].order].status = "PENDING_PAYMENT"]
       /\ proc' = [proc EXCEPT ![p].pc = "attach", ![p].want = w,
                               ![p].todo = LessonsOf(proc[p].order)]
  /\ UNCHANGED <<slots, current>>

CreatePrivateOrderFails(p) ==
  /\ At(p, "loaded", {"createPrivateOrder"})
  /\ \E req \in Requests : ~NoSlotConflict(req)
  /\ Throw(p)

\* The slots are attached in the order of their start and duration.
BookingHandlers == {"createOrder", "createPrivateOrder"}

Earliest(p) == {l \in proc[p].todo : \A k \in proc[p].todo :
              LET a == proc[p].want[l]  b == proc[p].want[k]
              IN  a.start < b.start \/ (a.start = b.start /\ a.end <= b.end)}

\* The copy of p after req is cut out of s for p's order.
Attached(p, s, req, gap) ==
  [proc EXCEPT ![p].doc = Split(proc[p].doc, s, req, proc[p].order, gap),
               ![p].dirty = @ \cup {req.date}]

\* The loop of both: validate against the store, attach to the copy.
Bookable(p, req) == {s \in OpenFor(proc[p].doc, req) : BookingRules(s, req)}

AttachSlot(p) ==
  /\ At(p, "attach", BookingHandlers)
  /\ \E l \in Earliest(p) : \E s \in Bookable(p, proc[p].want[l]) :
       /\ NoSlotConflict(proc[p].want[l])
       /\ proc' = [Attached(p, s, proc[p].want[l], Gap) EXCEPT ![p].todo = @ \ {l}]
  /\ UNCHANGED <<slots, current, orders, lessons>>

\* A slot that was taken meanwhile, or breaks the rules, ends the request:
\* createOrder leaves the order it stored, createPrivateOrder deletes it.
FailBooking(p) ==
  /\ proc' = [proc EXCEPT ![p] = IF proc[p].handler = "createOrder" THEN Idle
                                 ELSE [Idle EXCEPT !.pc = "delete",
                                        !.handler = "createPrivateOrder",
                                        !.order = proc[p].order]]
  /\ current' = current \ {p}
  /\ UNCHANGED <<slots, orders, lessons>>

AttachFails(p) ==
  /\ At(p, "attach", BookingHandlers)
  /\ \E l \in Earliest(p) : ~NoSlotConflict(proc[p].want[l]) \/ Bookable(p, proc[p].want[l]) = {}
  /\ FailBooking(p)

SaveBooking(p) ==
  /\ At(p, "attach", BookingHandlers)
  /\ proc[p].todo = {}
  /\ SaveProfile(p, proc[p].doc, proc[p].dirty)
  /\ Finish(p)
  /\ UNCHANGED <<orders, lessons>>

SaveBookingFails(p) ==
  /\ At(p, "attach", BookingHandlers)
  /\ proc[p].todo = {}
  /\ VersionError(p, proc[p].doc, proc[p].dirty)
  /\ FailBooking(p)

DeletePrivateOrder(p) ==
  /\ At(p, "delete", {"createPrivateOrder"})
  /\ orders' = [orders EXCEPT ![proc[p].order].status = "DELETED"]
  /\ Finish(p)
  /\ UNCHANGED <<slots, current, lessons>>
-----------------------------------------------------------------------------
(* Stripe webhooks.  Stripe delivers an event again until it is answered, so *)
(* each may arrive any number of times, and in any order.                    *)

\* payment_intent.succeeded: the charge is stored with the payment ...
RecordCharge(p, o) ==
  /\ Start(p, "handlePublicOrderSuccess")
  /\ o \in ByStripe
  /\ Exists(o)
  /\ orders' = [orders EXCEPT ![o].charged = TRUE]
  /\ proc' = [proc EXCEPT ![p] = [Idle EXCEPT
       !.pc = "lock", !.handler = "handlePublicOrderSuccess", !.order = o]]
  /\ UNCHANGED <<slots, current, lessons>>

\* ... then handlePublicOrderSuccess, from its "ATOMIC LOCK".
LockOrder(p) ==
  /\ At(p, "lock", {"handlePublicOrderSuccess"})
  /\ LET o == proc[p].order
         locked == ~orders[o].paid /\ orders[o].status # "CONFIRMING"
     IN  /\ orders' = IF locked THEN [orders EXCEPT ![o].status = "CONFIRMING"] ELSE orders
         /\ proc' = [proc EXCEPT ![p].pc = IF locked THEN "load" ELSE "reload",
                                 ![p].want = RangesOf(o), ![p].todo = LessonsOf(o)]
  /\ UNCHANGED <<slots, current, lessons>>

\* The lock was refused: a PAID order is left alone, any other is processed.
ReloadOrder(p) ==
  /\ At(p, "reload", {"handlePublicOrderSuccess"})
  /\ IF orders[proc[p].order].paid
     THEN Finish(p)
     ELSE proc' = [proc EXCEPT ![p].pc = "relock", ![p].want = RangesOf(proc[p].order),
                               ![p].was = orders[proc[p].order].status]
  /\ UNCHANGED <<slots, current, orders, lessons>>

\* order.status = 'CONFIRMING'; save() writes it when it was something else.
ForceLock(p) ==
  /\ At(p, "relock", {"handlePublicOrderSuccess"})
  /\ orders' = [orders EXCEPT ![proc[p].order].status =
                  Written("CONFIRMING", proc[p].was, @)]
  /\ Goto(p, "load")
  /\ UNCHANGED <<slots, current, lessons>>

\* validateSlotConflict of the webhook reads the other orders, and takes any
\* of their lessons, whatever its status.
PaidOrderConflict(o, req) ==
  \E l \in Lessons : /\ OrderOf[l] \in Public \ {o}
                     /\ orders[OrderOf[l]].paid
                     /\ orders[OrderOf[l]].status = "CONFIRMED"
                     /\ Overlaps(req, lessons[l].range)

\* attachBookingByRange of the webhook: no gap and no booking rules; a slot
\* that cannot be attached is skipped.
AttachPaidSlot(p) ==
  /\ At(p, "attach", {"handlePublicOrderSuccess"})
  /\ \E l \in Earliest(p) :
       LET req == proc[p].want[l]
           free == IF PaidOrderConflict(proc[p].order, req) THEN {}
                   ELSE OpenFor(proc[p].doc, req)
       IN  IF free = {}
           THEN proc' = [proc EXCEPT ![p].todo = @ \ {l}]
           ELSE \E s \in free :
                  proc' = [Attached(p, s, req, 0) EXCEPT ![p].todo = @ \ {l}]
  /\ UNCHANGED <<slots, current, orders, lessons>>

SaveAttached(p) ==
  /\ At(p, "attach", {"handlePublicOrderSuccess"})
  /\ proc[p].todo = {}
  /\ SaveProfile(p, proc[p].doc, proc[p].dirty)
  /\ Goto(p, "settle")
  /\ UNCHANGED <<orders, lessons>>

\* Mutant: the error is only logged.
SaveAttachedLogged(p) ==
  /\ At(p, "attach", {"handlePublicOrderSuccess"})
  /\ proc[p].todo = {}
  /\ VersionError(p, proc[p].doc, proc[p].dirty)
  /\ Finish(p)
  /\ UNCHANGED <<orders, lessons>>

SaveAttachedFails(p) ==
  /\ At(p, "attach", {"handlePublicOrderSuccess"})
  /\ proc[p].todo = {}
  /\ VersionError(p, proc[p].doc, proc[p].dirty)
  /\ Goto(p, "rollback")
  /\ UNCHANGED <<orders, lessons>>

\* The wallet credit, which may throw, and the order's final status.
ConfirmOrder(p) ==
  /\ At(p, "settle", {"handlePublicOrderSuccess"})
  /\ orders' = [orders EXCEPT ![proc[p].order].status = "CONFIRMED",
                              ![proc[p].order].paid = TRUE]
  /\ Finish(p)
  /\ UNCHANGED <<slots, current, lessons>>

WalletCreditFails(p) ==
  /\ At(p, "settle", {"handlePublicOrderSuccess"})
  /\ Goto(p, "rollback")
  /\ UNCHANGED <<slots, current, orders, lessons>>

RollbackOrder(p) ==
  /\ At(p, "rollback", {"handlePublicOrderSuccess"})
  /\ orders' = [orders EXCEPT ![proc[p].order].status = "PENDING_PAYMENT"]
  /\ Finish(p)
  /\ UNCHANGED <<slots, current, lessons>>

\* payment_intent.payment_failed and charge.refunded: the status whatever it
\* was, then unlockSlots.
UndoOrder(p, o) ==
  /\ Start(p, "unlockSlots")
  /\ o \in ByStripe
  /\ Exists(o)
  /\ \E status \in {"CANCELLED"} \cup (IF orders[o].charged THEN {"REFUNDED"} ELSE {}) :
       orders' = [orders EXCEPT ![o].status = status]
  /\ proc' = [proc EXCEPT ![p] = [Idle EXCEPT
       !.pc = "load", !.handler = "unlockSlots", !.order = o]]
  /\ UNCHANGED <<slots, current, lessons>>

UnlockSlots(p) ==
  /\ At(p, "loaded", {"unlockSlots"})
  /\ LET edited == ReleaseOrder(proc[p].doc, proc[p].order)
     IN  SaveProfile(p, edited, {}) \/ VersionError(p, edited, {})
  /\ Finish(p)
  /\ UNCHANGED <<orders, lessons>>

\* Both events for a private order are one write of its status; deleted
\* orders are not found, and no slot is touched.
PrivatePayment(o) ==
  /\ "privatePayment" \in Handlers
  /\ o \in Private
  /\ Exists(o)
  /\ \/ orders' = [orders EXCEPT ![o].status = "CONFIRMED", ![o].paid = TRUE]
     \/ orders' = [orders EXCEPT ![o].status = "CANCELLED"]
  /\ UNCHANGED <<slots, current, lessons, proc>>

-----------------------------------------------------------------------------
(* Cancellation *)

\* cancelSlot reads the order and checks the lesson ...
StartCancelSlot(p, l) ==
  /\ Start(p, "cancelSlot")
  /\ OrderOf[l] \in Public
  /\ orders[OrderOf[l]].status \in SchemaStatus
  /\ lessons[l].status \in {"BOOKED", "RESCHEDULED"}
  /\ proc' = [proc EXCEPT ![p] = [Idle EXCEPT
       !.pc = "save", !.handler = "cancelSlot", !.order = OrderOf[l],
       !.lesson = l, !.seen = lessons[l]]]
  /\ UNCHANGED <<slots, current, orders, lessons>>

\* ... saves it as CANCELLED ...
SaveCancelled(p) ==
  /\ At(p, "save", {"cancelSlot"})
  /\ lessons' = [lessons EXCEPT ![proc[p].lesson].status = "CANCELLED"]
  /\ Goto(p, "free")
  /\ UNCHANGED <<slots, current, orders>>

\* ... and frees the range it was loaded with, by updateOne: no __v involved.
FreeSlotRange(p) ==
  /\ At(p, "free", {"cancelSlot"})
  /\ slots' = ReleaseRange(slots, proc[p].seen.range)
  /\ Finish(p)
  /\ UNCHANGED <<current, orders, lessons>>

CancelPrivateOrder(p, o) ==
  /\ Start(p, "cancelPrivateOrder")
  /\ o \in Private
  /\ orders[o].status \in {"PENDING_PAYMENT", "CONFIRMED"}
  /\ orders' = [orders EXCEPT ![o].status = "CANCELLED"]
  /\ proc' = [proc EXCEPT ![p] = [Idle EXCEPT
       !.pc = "free", !.handler = "cancelPrivateOrder", !.order = o]]
  /\ UNCHANGED <<slots, current, lessons>>

UnlockPrivateOrderSlots(p) ==
  /\ At(p, "free", {"cancelPrivateOrder"})
  /\ slots' = ReleaseOrder(slots, proc[p].order)
  /\ Finish(p)
  /\ UNCHANGED <<current, orders, lessons>>
-----------------------------------------------------------------------------
(* Rescheduling *)

\* Both branches of requestSlotReschedule, and respondSlotReschedule, start
\* from a loaded order: here, its lesson l and the range it should move to.
LoadLesson(p, handler, pc, l, new) ==
  proc' = [proc EXCEPT ![p] = [Idle EXCEPT
    !.pc = pc, !.handler = handler, !.order = OrderOf[l], !.lesson = l,
    !.seen = lessons[l], !.was = orders[OrderOf[l]].status, !.new = new]]

\* The status list is the code's: neither CANCELLED nor the order's status
\* is looked at.
Reschedulable(l) == /\ OrderOf[l] \in Public
                    /\ Exists(OrderOf[l])
                    /\ lessons[l].status \notin {"COMPLETED", "CANCEL", "NOSHOW"}

\* requestSlotReschedule of a learner: approved at once.
StartMove(p, l, new) ==
  /\ Start(p, "moveSlot")
  /\ Reschedulable(l)
  /\ LoadLesson(p, "moveSlot", "load", l, new)
  /\ UNCHANGED <<slots, current, orders, lessons>>

\* respondSlotReschedule: the proposal must be pending.
StartRespond(p, l, action) ==
  /\ Start(p, action)
  /\ OrderOf[l] \in Public
  /\ Exists(OrderOf[l])
  /\ lessons[l].reschedule.status = "PENDING"
  /\ LoadLesson(p, action, "load", l, lessons[l].reschedule.proposed)
  /\ UNCHANGED <<slots, current, orders, lessons>>

Movers == {"moveSlot", "ACCEPTED"}

ValidateMove(p) ==
  /\ At(p, "loaded", Movers)
  /\ NoSlotConflict(proc[p].new)
  /\ Goto(p, "move")
  /\ UNCHANGED <<slots, current, orders, lessons>>

ValidateMoveFails(p) ==
  /\ At(p, "loaded", Movers)
  /\ ~NoSlotConflict(proc[p].new)
  /\ Throw(p)

\* The copy without the old booking (and, when a proposal is accepted,
\* without the temporary locks of the order).
Vacated(p) ==
  ReleaseRange(IF proc[p].handler = "ACCEPTED"
               THEN UnlockTemporary(proc[p].doc, proc[p].order)
               ELSE proc[p].doc,
               proc[p].seen.range)

MoveTargets(p) == {s \in OpenFor(Vacated(p), proc[p].new) : BookingRules(s, proc[p].new)}
Moved(p, s) == Split(Vacated(p), s, proc[p].new, proc[p].order, Gap)

SaveMove(p) ==
  /\ At(p, "move", Movers)
  /\ \E s \in MoveTargets(p) : SaveProfile(p, Moved(p, s), {proc[p].new.date})
  /\ Goto(p, "order")
  /\ UNCHANGED <<orders, lessons>>

SaveMoveFails(p) ==
  /\ At(p, "move", Movers)
  /\ MoveTargets(p) = {} \/ p \notin current
  /\ Throw(p)

\* order.save() writes the fields whose values differ from the loaded ones.
WriteLesson(p, range, status, reschedule) ==
  lessons' = [lessons EXCEPT ![proc[p].lesson] =
    [range      |-> Written(range, proc[p].seen.range, @.range),
     status     |-> Written(status, proc[p].seen.status, @.status),
     reschedule |-> reschedule]]

StoredReschedule(p) == lessons[proc[p].lesson].reschedule

\* Mutant: the lesson's status is left as it was.
SaveMovedRange(p) ==
  /\ At(p, "order", {"moveSlot"})
  /\ proc[p].was \in SchemaStatus
  /\ WriteLesson(p, proc[p].new, proc[p].seen.status,
                 Written(NoReschedule, proc[p].seen.reschedule, StoredReschedule(p)))
  /\ Finish(p)
  /\ UNCHANGED <<slots, current, orders>>

\* slot.reschedule = undefined, which writes nothing when nothing was loaded.
SaveMovedLesson(p) ==
  /\ At(p, "order", {"moveSlot"})
  /\ proc[p].was \in SchemaStatus
  /\ WriteLesson(p, proc[p].new, "RESCHEDULED",
                 Written(NoReschedule, proc[p].seen.reschedule, StoredReschedule(p)))
  /\ Finish(p)
  /\ UNCHANGED <<slots, current, orders>>

\* slot.reschedule.status = action: the one field, whatever is stored by now.
SaveAccepted(p) ==
  /\ At(p, "order", {"ACCEPTED"})
  /\ proc[p].was \in SchemaStatus
  /\ WriteLesson(p, proc[p].new, "RESCHEDULED",
                 [StoredReschedule(p) EXCEPT !.status = "ACCEPTED"])
  /\ Goto(p, "clear")
  /\ UNCHANGED <<slots, current, orders>>

UnlockRejected(p) ==
  /\ At(p, "loaded", {"REJECTED"})
  /\ SaveProfile(p, UnlockTemporary(proc[p].doc, proc[p].order), {})
  /\ Goto(p, "order")
  /\ UNCHANGED <<orders, lessons>>

UnlockRejectedFails(p) ==
  /\ At(p, "loaded", {"REJECTED"})
  /\ VersionError(p, UnlockTemporary(proc[p].doc, proc[p].order), {})
  /\ Finish(p)
  /\ UNCHANGED <<orders, lessons>>

SaveRejected(p) ==
  /\ At(p, "order", {"REJECTED"})
  /\ proc[p].was \in SchemaStatus
  /\ WriteLesson(p, proc[p].seen.range, "BOOKED",
                 [StoredReschedule(p) EXCEPT !.status = "REJECTED"])
  /\ Goto(p, "clear")
  /\ UNCHANGED <<slots, current, orders>>

\* The calendar was saved, the order's save throws ValidationError.
SaveLessonFails(p) ==
  /\ At(p, "order", Movers \cup {"REJECTED"})
  /\ proc[p].was \notin SchemaStatus
  /\ Throw(p)

\* slot.reschedule = undefined, saved after the notifications were sent.
ClearReschedule(p) ==
  /\ At(p, "clear", {"ACCEPTED", "REJECTED"})
  /\ lessons' = [lessons EXCEPT ![proc[p].lesson].reschedule = NoReschedule]
  /\ Finish(p)
  /\ UNCHANGED <<slots, current, orders>>

\* requestSlotReschedule of an instructor: a proposal for the learner ...
StartProposal(p, l, new) ==
  /\ Start(p, "proposeSlot")
  /\ Reschedulable(l)
  /\ orders[OrderOf[l]].status \in SchemaStatus
  /\ lessons[l].reschedule.status # "PENDING"
  /\ LoadLesson(p, "proposeSlot", "save", l, new)
  /\ UNCHANGED <<slots, current, orders, lessons>>

SaveProposal(p) ==
  /\ At(p, "save", {"proposeSlot"})
  /\ WriteLesson(p, proc[p].seen.range, "PENDING_RESCHEDULE",
                 [status |-> "PENDING", proposed |-> proc[p].new])
  /\ Goto(p, "load")
  /\ UNCHANGED <<slots, current, orders>>

\* ... and the temporary lock of the ranges it would need.
SaveLock(p) ==
  /\ At(p, "loaded", {"proposeSlot"})
  /\ LET edited == LockTemporarily(proc[p].doc, proc[p].new, proc[p].order)
     IN  SaveProfile(p, edited, {}) \/ VersionError(p, edited, {})
  /\ Finish(p)
  /\ UNCHANGED <<orders, lessons>>

-----------------------------------------------------------------------------
(* The instructor's edits of the availability, and the cron *)

StartEdit(p, handler) ==
  /\ Start(p, handler)
  /\ proc' = [proc EXCEPT ![p] = [Idle EXCEPT !.pc = "load", !.handler = handler]]
  /\ UNCHANGED <<slots, current, orders, lessons>>

OnDates(doc, days) == {r \in DOMAIN doc : r.date \in days}

Occupied(meta) == meta.by # NoOrder \/ meta.tempBy # NoOrder

\* The copy of p with the ranges of some days replaced by those of layout.
Relaid(p, days, layout, kept) ==
  [r \in (DOMAIN proc[p].doc \ OnDates(proc[p].doc, days)) \cup layout |->
     IF r \in kept \/ r.date \notin days THEN proc[p].doc[r] ELSE FreeSlot]

LayoutsOf(days) == {layout \in Layouts : Normalized(layout) /\ \A r \in layout : r.date \in days}

\* updateDaySlots replaces a day that has no booking.
SaveDay(p) ==
  /\ At(p, "loaded", {"updateDaySlots"})
  /\ \E d \in Dates : \E layout \in LayoutsOf({d}) :
       /\ \A r \in OnDates(proc[p].doc, {d}) : proc[p].doc[r].by = NoOrder
       /\ SaveProfile(p, Relaid(p, {d}, layout, {}), {d})
  /\ Finish(p)
  /\ UNCHANGED <<orders, lessons>>

\* updateWeek keeps the booked and locked ranges of the days it is sent, all
\* of which must be among the incoming ones, and assigns the days of the week.
SaveWeek(p) ==
  /\ At(p, "loaded", {"updateWeek"})
  /\ \E week \in Weeks : \E days \in SUBSET week : \E layout \in LayoutsOf(days) :
       LET held == {r \in OnDates(proc[p].doc, days) : Occupied(proc[p].doc[r])}
       IN  /\ held \subseteq layout
           /\ SaveProfile(p, Relaid(p, days, layout, held), week)
  /\ Finish(p)
  /\ UNCHANGED <<orders, lessons>>

\* A refused edit, or a copy that is no longer current.
EditFails(p) ==
  /\ At(p, "loaded", {"updateDaySlots", "updateWeek"})
  /\ Throw(p)

\* releaseExpiredTempLocks, every 15 minutes; which locks have expired by
\* then depends on the clock.
SaveReleased(p, expired) ==
  /\ At(p, "loaded", {"releaseExpiredTempLocks"})
  /\ LET edited == ReleaseExpired(proc[p].doc, expired)
     IN  SaveProfile(p, edited, {}) \/ VersionError(p, edited, {})
  /\ Finish(p)
  /\ UNCHANGED <<orders, lessons>>

-----------------------------------------------------------------------------

OrderStep(p) ==
  \/ \E o \in Orders : CreateOrder(p, o) \/ StartPrivateOrder(p, o)
  \/ CreatePrivateOrder(p) \/ CreatePrivateOrderFails(p)
  \/ AttachSlot(p) \/ AttachFails(p)
  \/ SaveBooking(p) \/ SaveBookingFails(p) \/ DeletePrivateOrder(p)

WebhookStep(p) ==
  \/ \E o \in Orders : RecordCharge(p, o) \/ UndoOrder(p, o)
  \/ LockOrder(p) \/ ReloadOrder(p) \/ ForceLock(p)
  \/ AttachPaidSlot(p) \/ SaveAttached(p) \/ SaveAttachedFails(p)
  \/ ConfirmOrder(p) \/ WalletCreditFails(p) \/ RollbackOrder(p)
  \/ UnlockSlots(p)

CancelStep(p) ==
  \/ \E l \in Lessons : StartCancelSlot(p, l)
  \/ \E o \in Orders : CancelPrivateOrder(p, o)
  \/ SaveCancelled(p) \/ FreeSlotRange(p) \/ UnlockPrivateOrderSlots(p)

RescheduleStep(p) ==
  \/ \E l \in Lessons, new \in Requests : StartMove(p, l, new) \/ StartProposal(p, l, new)
  \/ \E l \in Lessons, action \in {"ACCEPTED", "REJECTED"} : StartRespond(p, l, action)
  \/ ValidateMove(p) \/ ValidateMoveFails(p) \/ SaveMove(p) \/ SaveMoveFails(p)
  \/ SaveMovedLesson(p) \/ SaveAccepted(p) \/ SaveLessonFails(p)
  \/ UnlockRejected(p) \/ UnlockRejectedFails(p) \/ SaveRejected(p) \/ ClearReschedule(p)
  \/ SaveProposal(p) \/ SaveLock(p)

EditStep(p) ==
  \/ \E handler \in {"updateDaySlots", "updateWeek", "releaseExpiredTempLocks"} :
       StartEdit(p, handler)
  \/ SaveDay(p) \/ SaveWeek(p) \/ EditFails(p)
  \/ \E expired \in {{}, DOMAIN proc[p].doc} : SaveReleased(p, expired)

Step(p) == LoadProfile(p) \/ OrderStep(p) \/ WebhookStep(p) \/ CancelStep(p)
           \/ RescheduleStep(p) \/ EditStep(p) \/ Crash(p)

Next == (\E p \in Procs : Step(p)) \/ (\E o \in Orders : PrivatePayment(o))

Spec == Init /\ [][Next]_vars
-----------------------------------------------------------------------------
(* Properties *)

\* No two ranges of a day overlap, in the store: whatever handlers interleave,
\* the splits and the edits never leave one half hour in two ranges, so it
\* cannot be booked twice (attachBookingByRange, updateWeek, updateDaySlots).
RangesDisjoint == Disjoint(slots)

\* The step of p that gives up the booking of r: unlocking by bookingId, or
\* freeing, by its times, the range p's lesson had.
Releases(p, r) ==
  /\ proc'[p] # proc[p]
  /\ \/ /\ At(p, "loaded", {"unlockSlots"}) \/ At(p, "free", {"cancelPrivateOrder"})
        /\ slots[r].by = proc[p].order
     \/ /\ At(p, "free", {"cancelSlot"}) \/ At(p, "move", Movers)
        /\ proc[p].seen.range = r

\* A stored booking disappears only in a step that releases it: a handler
\* that saves a copy loaded earlier never undoes a booking stored meanwhile.
KeepsBookings ==
  \A r \in DOMAIN slots : slots[r].by # NoOrder =>
    \/ r \in DOMAIN slots' /\ slots'[r].by = slots[r].by
    \/ \E p \in Procs : Releases(p, r)
BookingsKept == [][KeepsBookings]_vars

\* An order is CONFIRMING only while a delivery of its payment works on it: no
\* interleaving of deliveries, failed saves and undone payments leaves it so,
\* when neither the learner nor a later event would find it to be settled
\* (handlePublicOrderSuccess, its "ATOMIC LOCK" and its rollback).
ConfirmingHeld ==
  \A o \in Orders : orders[o].status = "CONFIRMING" =>
    \E p \in Procs : proc[p].handler = "handlePublicOrderSuccess" /\ proc[p].order = o

\* With the order service alone every range stays at least MinSlot long and
\* Gap away from the others, as validateBookingRules and the splits intend.
WellSpaced == Normalized(DOMAIN slots)

\* Between requests, a booking belongs to a lesson of its order that was not
\* cancelled: cancelling, moving and unlocking leave no booking behind.
Backed(r, o) == \E l \in LessonsOf(o) : /\ lessons[l].range = r
                                        /\ lessons[l].status # "CANCELLED"
CalendarBacked ==
  (\A p \in Procs : proc[p].pc = "idle") =>
    \A r \in DOMAIN slots : slots[r].by # NoOrder => Backed(r, slots[r].by)

\* A lesson that waits for an answer to a reschedule proposal has a proposal
\* to answer: otherwise nobody can accept, reject or cancel it any more.
PendingAnswerable ==
  (\A p \in Procs : proc[p].pc = "idle") =>
    \A l \in Lessons : lessons[l].status = "PENDING_RESCHEDULE" =>
      lessons[l].reschedule.status = "PENDING"

\* Only the handlers of an order give up its bookings (removeBookingByRange
\* and cancelSlot free "the old booking" of the lesson).
OwnBookingsOnly ==
  [][\A r \in DOMAIN slots :
       slots[r].by # NoOrder =>
         \/ r \in DOMAIN slots' /\ slots'[r].by = slots[r].by
         \/ \E p \in Procs : Releases(p, r) /\ slots[r].by = proc[p].order]_vars

\* Only the handlers of an order book ranges for it: what cancelSlot freed is
\* not booked for the cancelled order again by a handler of another one.
FreedStaysFree ==
  [][\A r \in DOMAIN slots' :
       slots'[r].by # NoOrder =>
         \/ r \in DOMAIN slots /\ slots[r].by = slots'[r].by
         \/ \E p \in Procs : proc'[p] # proc[p] /\ proc[p].order = slots'[r].by]_vars

\* The handlers and the cron keep running, and time passes: what stays locked
\* is expired in infinitely many runs of the cron.
Fairness == \A p \in Procs :
  /\ WF_vars(Step(p) /\ proc[p].pc # "idle")
  /\ WF_vars(StartEdit(p, "releaseExpiredTempLocks"))
  /\ SF_vars(SaveReleased(p, DOMAIN proc[p].doc))
FairSpec == Spec /\ Fairness

\* The ranges locked for an order's proposal are all unlocked some day: by the
\* answer or, failing one, by releaseExpiredTempLocks after twelve hours.
LockedFor(o) == \E r \in DOMAIN slots : slots[r].temp /\ slots[r].tempBy = o
TempLocksReleased == \A o \in Orders : LockedFor(o) ~> ~LockedFor(o)
=============================================================================
