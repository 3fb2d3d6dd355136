------------------------------- MODULE Views -------------------------------
(***************************************************************************)
(* What learners and instructors are shown of the calendar: the lists that *)
(* InstructorService computes from the stored availability and from the    *)
(* stored orders.  The availability knows which ranges are booked, and so  *)
(* do the orders; no list reads both in the same way, so whether they show *)
(* the same calendar depends on every handler of Calendar.                 *)
(*                                                                         *)
(* A list is a set of ranges: sorting and formatting are left out.         *)
(***************************************************************************)
EXTENDS Calendar

\* splitSlotByDuration: pieces of one length, a gap apart, from the start on.
SplitByDuration(s, d) ==
  {[s EXCEPT !.start = s.start + k * (d + Gap), !.end = s.start + k * (d + Gap) + d] :
     k \in {k \in 0..(s.end - s.start) : s.start + k * (d + Gap) + d <= s.end}}

\* isBooked or isTempBlocked.
Blocked(doc) == {r \in DOMAIN doc : doc[r].by # NoOrder \/ doc[r].temp}

Apart(a, b) == IF a < b THEN b - a ELSE a - b
TooClose(p, r) == p.date = r.date /\ (Apart(p.start, r.end) < Gap \/ Apart(p.end, r.start) < Gap)

-----------------------------------------------------------------------------
(* For learners *)

\* What the clock, with an hour's notice today, and the half of the day leave.
Sellable(p, clock) == /\ p.date \notin clock.past
                      /\ p.date = clock.today => p.start > clock.soonest
                      /\ p.start \in clock.half
Anytime == [past |-> {}, today |-> NoOrder, soonest |-> 0, half |-> Int]

\* Mutant: a range that is only locked is offered.
AvailableSlotsLocked(doc, d, clock) ==
  {p \in UNION {SplitByDuration(s, d) : s \in {r \in DOMAIN doc : doc[r].by = NoOrder}} :
     Sellable(p, clock)}

\* getAvailableSlots: no piece overlaps a blocked range or comes too close.
AvailableSlots(doc, d, clock) ==
  {p \in UNION {SplitByDuration(s, d) : s \in DOMAIN doc \ Blocked(doc)} :
     Sellable(p, clock) /\ \A r \in Blocked(doc) : ~Overlaps(p, r) /\ ~TooClose(p, r)}

\* checkAvailability of the ranges a learner has picked.
Available(doc, picked) ==
  /\ \A a, b \in picked : a # b /\ a.date = b.date => a.start - b.end >= Gap \/ b.start - a.end >= Gap
  /\ \A req \in picked :
       /\ \E s \in DOMAIN doc \ Blocked(doc) : Contains(s, req)
       /\ \A r \in Blocked(doc) : ~TooClose(req, r)

-----------------------------------------------------------------------------
(* For the instructor *)

\* getOrdersForInstructor
OrdersForInstructor == {o \in Public : orders[o].status = "CONFIRMED" /\ orders[o].paid}

\* Mutant: only lessons that were never moved are looked at.
ListedBooked == {l \in Lessons : Exists(OrderOf[l]) /\ OrderOf[l] \in Public /\ lessons[l].status = "BOOKED"}

\* The lessons getBookedSlotsOnly looks at: of any order, paid or not.
Listed == {l \in Lessons : /\ OrderOf[l] \in Public /\ Exists(OrderOf[l])
                           /\ lessons[l].range # NoRange /\ lessons[l].status # "CANCELLED"}

\* The ranges it shows: those some of these lessons overlap.
BookedSlotsOnly == {r \in DOMAIN slots : \E l \in Listed : Overlaps(r, lessons[l].range)}

\* getCalendarSlots asks for slot.bookingDate of a private order; its lessons
\* have a date, and no other field of that kind.
BookingDate(l) == IF OrderOf[l] \in Public THEN lessons[l].range.date ELSE NoOrder

InCalendar(l) ==
  IF OrderOf[l] \in Public
  THEN orders[OrderOf[l]].status = "CONFIRMED" /\ lessons[l].status = "BOOKED"
  ELSE orders[OrderOf[l]].status = "PENDING_PAYMENT"

\* addBooking, for all of them
Bookings == {lessons[l].range : l \in {l \in Lessons : InCalendar(l) /\ BookingDate(l) # NoOrder}}

\* Pieces of an hour of every range, booked or not by the orders, then each
\* booking that is not one of these pieces.
CalendarSlots ==
  LET pieces == UNION {SplitByDuration(s, MinSlot) : s \in DOMAIN slots}
  IN  {[range |-> p, isBooked |-> \E b \in Bookings : Overlaps(p, b)] : p \in pieces}
        \cup {[range |-> b, isBooked |-> TRUE] : b \in Bookings \ pieces}

-----------------------------------------------------------------------------
(* Properties *)

\* Any two of the slots offered for a duration may be booked together as far
\* as checkAvailability is concerned: the pieces leave the gap to each other,
\* to the pieces of other ranges and to what is booked or locked.
OfferedIsAvailable ==
  \A d \in Durations : \A p, q \in AvailableSlots(slots, d, Anytime) : Available(slots, {p, q})

\* Between requests, every range booked for a learner is in the instructor's
\* list of bookings, and the calendar shows it as booked while the lesson was
\* not moved (RESCHEDULED lessons are free in the calendar, by the code).
InstructorSees ==
  (\A p \in Procs : proc[p].pc = "idle") =>
    \A r \in DOMAIN slots : slots[r].by \in Public =>
      /\ r \in BookedSlotsOnly
      /\ (\E l \in LessonsOf(slots[r].by) : lessons[l].range = r /\ lessons[l].status = "BOOKED") =>
           [range |-> r, isBooked |-> TRUE] \in CalendarSlots

\* The calendar shows the ranges of private orders as booked, until they are
\* paid ("Manual Private Slots", instructor.service.ts:2438).
PrivateShown ==
  \A r \in DOMAIN slots :
    slots[r].by \in Private /\ orders[slots[r].by].status = "PENDING_PAYMENT" =>
      \E e \in CalendarSlots : e.range = r /\ e.isBooked
=============================================================================
