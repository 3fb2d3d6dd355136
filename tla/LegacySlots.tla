----------------------------- MODULE LegacySlots -----------------------------
(***************************************************************************)
(* The slots and bookings of the first version of the platform, still      *)
(* served beside the calendar of Calendar.tla: InstructorSlotService keeps *)
(* one document per slot of an instructor, and BookingService books such   *)
(* slots, one document after the other.                                    *)
(*                                                                         *)
(* A handler of the instructor reads, checks and writes in one step here:  *)
(* it is a booking whose reads and writes are apart, may interleave with   *)
(* everything else, and may end between any two of them.                   *)
(***************************************************************************)
EXTENDS Integers, Sequences, FiniteSets

CONSTANTS
  None,
  SlotIds,  \* bound on the slots ever created
  Dates,    \* consecutive dates
  Times,    \* of the day, in half hours
  Procs,    \* one createBooking each
  Payloads  \* sequences of [slot, hours]: the lessons of a booking

Gap == 1    \* MIN_GAP_MINUTES

VARIABLES
  slots,    \* [SlotIds -> None or the slot's document]
  used,     \* slot ids that were given out
  exec,     \* the executions of createBooking
  bookings, \* [Procs -> None or the booking's document]
  lessons,  \* the lesson documents
  today

vars == <<slots, used, exec, bookings, lessons, today>>

Ranges == {r \in [start : Times, end : Times] : r.start < r.end}

Init == /\ slots = [s \in SlotIds |-> None] /\ used = {}
        /\ exec = [p \in Procs |-> [pc |-> "idle", lessons |-> <<>>, total |-> 0, k |-> 0]]
        /\ bookings = [p \in Procs |-> None] /\ lessons = {}
        /\ today \in {d \in Dates : \A e \in Dates : d <= e}

Existing == {s \in SlotIds : slots[s] # None}

Overlap(a, b)  == a.start < b.end /\ a.end > b.start
Apart(a, b)    == a.start - b.end >= Gap \/ b.start - a.end >= Gap

\* The document of a new slot.
NewSlot(d, r) == [date |-> d, start |-> r.start, end |-> r.end, status |-> "available", locked |-> FALSE]

-----------------------------------------------------------------------------
(* The instructor *)

\* Mutant: the slot before is not looked at.
IsFreeAfter(d, r, S) == \A s \in S : slots[s].date = d => ~Overlap(r, slots[s]) \/ slots[s].start < r.start

\* isSlotExist and validateSlotTiming: no overlap, and the gap, among S.
IsFree(d, r, S) == \A s \in S : slots[s].date = d => ~Overlap(r, slots[s]) /\ Apart(r, slots[s])

\* createSlot: slots of every status count.
CreateSlot(s, d, r) ==
  /\ s \notin used /\ d > today
  /\ IsFree(d, r, Existing)
  /\ slots' = [slots EXCEPT ![s] = NewSlot(d, r)] /\ used' = used \cup {s}
  /\ UNCHANGED <<exec, bookings, lessons, today>>

\* createMultipleSlot: on days without any slot; no gap is asked for.
CreateMultipleSlot(S, d, times) ==
  /\ S \cap used = {} /\ d > today
  /\ \A s \in Existing : slots[s].date # d
  /\ \A s, t \in S : s # t => ~Overlap(times[s], times[t])
  /\ slots' = [s \in SlotIds |-> IF s \in S THEN NewSlot(d, times[s]) ELSE slots[s]]
  /\ used' = used \cup S
  /\ UNCHANGED <<exec, bookings, lessons, today>>

\* Neither booked nor locked.
Editable(s) == slots[s] # None /\ slots[s].status # "booked" /\ ~slots[s].locked

SetSlot(s, doc) == /\ slots' = [slots EXCEPT ![s] = doc]
                   /\ UNCHANGED <<used, exec, bookings, lessons, today>>

\* updateSlotStatus: the only transition that an editable slot has.
UpdateSlotStatus(s) == /\ Editable(s) /\ slots[s].status = "available" /\ slots[s].date >= today
                       /\ SetSlot(s, [slots[s] EXCEPT !.status = "cancelled"])

DeleteSlot(s) == /\ Editable(s) /\ slots[s].status = "available" /\ slots[s].date >= today
                 /\ SetSlot(s, None)

\* Mutant: booked slots may be moved.
UpdateBookedSlot(s, d, r) ==
  /\ slots[s] # None /\ d >= today
  /\ IsFree(d, r, {t \in Existing \ {s} : slots[t].status \in {"available", "booked"}})
  /\ SetSlot(s, [slots[s] EXCEPT !.start = r.start, !.end = r.end])

\* updateSlot: the date of the request is checked and not stored; cancelled
\* slots are not in the way.
UpdateSlot(s, d, r) ==
  /\ Editable(s) /\ d >= today
  /\ IsFree(d, r, {t \in Existing \ {s} : slots[t].status \in {"available", "booked"}})
  /\ SetSlot(s, [slots[s] EXCEPT !.start = r.start, !.end = r.end])

Tomorrow == /\ today + 1 \in Dates /\ today' = today + 1
            /\ UNCHANGED <<slots, used, exec, bookings, lessons>>

-----------------------------------------------------------------------------
(* createBooking *)

Goto(p, pc, k) == [exec EXCEPT ![p].pc = pc, ![p].k = k]
Asked(p) == exec[p].lessons[exec[p].k]

StartBooking(p, payload, total) ==
  /\ exec[p].pc = "idle"
  /\ exec' = [exec EXCEPT ![p] = [pc |-> IF payload = <<>> THEN "create" ELSE "check",
                                  lessons |-> [k \in DOMAIN payload |-> [slot |-> payload[k].slot, hours |-> payload[k].hours,
                                                                        start |-> 0, end |-> 0]],
                                  total |-> total, k |-> 1]]
  /\ UNCHANGED <<slots, used, bookings, lessons, today>>

\* Each slot is found available, and its times are copied.
CheckLesson(p) ==
  /\ exec[p].pc = "check"
  /\ LET e == exec[p]  slot == slots[Asked(p).slot]  last == e.k = Len(e.lessons) IN
       exec' = IF slot # None /\ slot.status = "available"
               THEN [exec EXCEPT ![p] = [e EXCEPT !.lessons[e.k].start = slot.start, !.lessons[e.k].end = slot.end,
                                                  !.pc = IF last THEN "create" ELSE "check",
                                                  !.k = IF last THEN 1 ELSE e.k + 1]]
               ELSE Goto(p, "refused", 0)
  /\ UNCHANGED <<slots, used, bookings, lessons, today>>

BookedHours(p) == LET L == exec[p].lessons IN
  IF Len(L) = 0 THEN 0 ELSE IF Len(L) = 1 THEN L[1].hours ELSE L[1].hours + L[2].hours

Status(total, booked) == IF booked = total THEN "fully_booked"
                         ELSE IF booked = 0 THEN "pending" ELSE "partially_booked"

CreateBooking(p) ==
  LET booked == BookedHours(p)  total == exec[p].total IN
  /\ exec[p].pc = "create"
  /\ \/ /\ booked > total /\ exec' = Goto(p, "refused", 0) /\ UNCHANGED bookings
     \/ /\ booked <= total
        /\ bookings' = [bookings EXCEPT ![p] = [total |-> total, remaining |-> total - booked,
                                                status |-> Status(total, booked)]]
        /\ exec' = IF exec[p].lessons = <<>> THEN Goto(p, "done", 1) ELSE Goto(p, "lesson", 1)
  /\ UNCHANGED <<slots, used, lessons, today>>

CreateLesson(p) ==
  /\ exec[p].pc = "lesson"
  /\ lessons' = lessons \cup {[of |-> p, k |-> exec[p].k, slot |-> Asked(p).slot, hours |-> Asked(p).hours,
                               start |-> Asked(p).start, end |-> Asked(p).end]}
  /\ exec' = Goto(p, "mark", exec[p].k)
  /\ UNCHANGED <<slots, used, bookings, today>>

\* updateOne by the slot's id, whatever has become of it.
MarkSlot(p) ==
  /\ exec[p].pc = "mark"
  /\ LET s == Asked(p).slot
     IN  slots' = IF slots[s] = None THEN slots
                  ELSE [slots EXCEPT ![s] = [@ EXCEPT !.status = "booked", !.locked = TRUE]]
  /\ exec' = Goto(p, IF exec[p].k < Len(exec[p].lessons) THEN "lesson" ELSE "done", exec[p].k + 1)
  /\ UNCHANGED <<used, bookings, lessons, today>>

\* The process restarts, or a write is refused.
Dies(p) == /\ exec[p].pc \in {"check", "create", "lesson", "mark"}
           /\ exec' = Goto(p, "died", exec[p].k)
           /\ UNCHANGED <<slots, used, bookings, lessons, today>>

-----------------------------------------------------------------------------
InstructorStep ==
  \/ \E s \in SlotIds, d \in Dates, r \in Ranges : CreateSlot(s, d, r) \/ UpdateSlot(s, d, r)
  \/ \E S \in SUBSET SlotIds : S # {} /\ \E d \in Dates : \E times \in [S -> Ranges] : CreateMultipleSlot(S, d, times)
  \/ \E s \in SlotIds : UpdateSlotStatus(s) \/ DeleteSlot(s)

BookingStep(p) == \/ \E payload \in Payloads, total \in 1..2 : StartBooking(p, payload, total)
                  \/ CheckLesson(p) \/ CreateBooking(p) \/ CreateLesson(p) \/ MarkSlot(p) \/ Dies(p)

Next == InstructorStep \/ Tomorrow \/ \E p \in Procs : BookingStep(p)

Spec == Init /\ [][Next]_vars

\* The steps when no edit falls between the check of a slot and its marking,
\* and a request to move a slot names the slot's own date: what the code leaves
\* to the instructor, and what the properties below are about.
UnderWay == \E p \in Procs : exec[p].pc \in {"check", "create", "lesson", "mark"}

CarefulEdit ==
  \/ \E s \in SlotIds, r \in Ranges :
       (\E d \in Dates : CreateSlot(s, d, r)) \/ (slots[s] # None /\ UpdateSlot(s, slots[s].date, r))
  \/ \E S \in SUBSET SlotIds : S # {} /\ \E d \in Dates : \E times \in [S -> Ranges] : CreateMultipleSlot(S, d, times)
  \/ \E s \in SlotIds : UpdateSlotStatus(s) \/ DeleteSlot(s)

CarefulNext == (~UnderWay /\ CarefulEdit) \/ Tomorrow \/ \E p \in Procs : BookingStep(p)
CarefulSpec == Init /\ [][CarefulNext]_vars

-----------------------------------------------------------------------------
(* Properties *)

\* The documents have the fields of their schemas; a booking accounts for its
\* hours, and has as many lessons as its execution came to create.
TypeOK ==
  /\ used \subseteq SlotIds /\ Existing \subseteq used /\ today \in Dates
  /\ \A s \in Existing :
       /\ slots[s].date \in Dates /\ slots[s].start \in Times /\ slots[s].end \in Times
       /\ slots[s].status \in {"available", "booked", "cancelled"}
       /\ slots[s].locked \in BOOLEAN
  /\ \A l \in lessons : l.slot \in SlotIds /\ l.of \in Procs /\ bookings[l.of] # None
  /\ \A p \in Procs : bookings[p] # None =>
       /\ bookings[p].remaining >= 0
       /\ exec[p].pc = "done" => Cardinality({l \in lessons : l.of = p}) = Len(exec[p].lessons)

\* The lessons whose slot the execution has marked.
Marked(l) == exec[l.of].k > l.k

\* A lesson that was booked to its end has its slot: the slot exists, is
\* booked, locked against the instructor's edits, and at the lesson's times,
\* as long as no edit falls between the check of a slot and its marking.
LessonSlotBooked ==
  \A l \in lessons : Marked(l) =>
    /\ slots[l.slot] # None
    /\ slots[l.slot].status = "booked" /\ slots[l.slot].locked
    /\ slots[l.slot].start = l.start /\ slots[l.slot].end = l.end

\* No two slots that can be or are booked overlap, as long as a request to move
\* a slot names the slot's own date.
SlotsDisjoint ==
  \A s, t \in {s \in Existing : slots[s].status # "cancelled"} :
    s # t /\ slots[s].date = slots[t].date => ~Overlap(slots[s], slots[t])
=============================================================================
