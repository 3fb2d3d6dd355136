------------------------------ MODULE DaySlots ------------------------------
(***************************************************************************)
(* The availability of one instructor, as the order service and the        *)
(* payment webhook read and edit it: profile.availability.weeks[].days[].  *)
(* slots[].  The weeks of a profile never overlap, so the array of a date  *)
(* is found by the date alone, and a document is a function from the time  *)
(* ranges it holds to what is stored with each range.  Times are integers  *)
(* (toMinutes); the unit is chosen by the instance.                        *)
(*                                                                         *)
(* Only pure operators live here: Calendar gives them to the request       *)
(* handlers, and CalendarProofs proves what they preserve.                 *)
(***************************************************************************)
EXTENDS Integers

CONSTANTS
  Orders,     \* order ids, public and private
  NoOrder,    \* bookingId / tempBookingId = null
  Dates,      \* the dates of the profile's weeks
  Gap,        \* GAP: the pause kept free around a lesson
  MinSlot,    \* MIN_SLOT: the shortest range worth keeping
  Durations   \* the bookable durations

ASSUME OrdersAssumption == NoOrder \notin Orders
ASSUME DatesAssumption == NoOrder \notin Dates
ASSUME GapAssumption == Gap \in Nat
ASSUME MinSlotAssumption == MinSlot \in Nat \ {0}
ASSUME DurationsAssumption == Durations \subseteq {d \in Nat : d >= MinSlot}

Ranges == [date : Dates, start : Int, end : Int]

\* A stored array element: the booking (isBooked with its bookingId, which
\* every writer sets together), the temporary lock, and tempBlockedTill.
Meta == [by : Orders \cup {NoOrder}, temp : BOOLEAN,
         tempBy : Orders \cup {NoOrder}, till : BOOLEAN]

FreeSlot == [by |-> NoOrder, temp |-> FALSE, tempBy |-> NoOrder, till |-> FALSE]

\* Mutant: an element pushed without the defaults of the schema.
BookedSlotBare(o) == [by |-> o]

BookedSlot(o) == [FreeSlot EXCEPT !.by = o]

IsDoc(doc) == /\ DOMAIN doc \subseteq Ranges
              /\ doc \in [DOMAIN doc -> Meta]

NoDoc == [r \in {} |-> FreeSlot]

-----------------------------------------------------------------------------
(* Time ranges *)

Overlaps(a, b) == /\ a.date = b.date
                  /\ a.start < b.end
                  /\ b.start < a.end

Contains(s, req) == /\ s.date = req.date
                    /\ req.start >= s.start
                    /\ req.end <= s.end

DisjointSet(S) == \A a, b \in S : a # b => ~Overlaps(a, b)
Disjoint(doc) == DisjointSet(DOMAIN doc)

\* What an instructor's edit of a day must satisfy: ranges of at least an
\* hour, none overlapping, half an hour apart.
Normalized(S) ==
  /\ \A a \in S : a.end - a.start >= MinSlot
  /\ \A a, b \in S : a # b /\ a.date = b.date =>
       a.start - b.end >= Gap \/ b.start - a.end >= Gap

-----------------------------------------------------------------------------
(* Booking a range *)

\* The ranges a request may be cut out of.  With disjoint ranges at most one
\* range contains a (non-empty) request, so the code's "first" is "the".
OpenFor(doc, req) == {s \in DOMAIN doc : Contains(s, req) /\ doc[s].by = NoOrder}

\* validateBookingRules: an allowed duration, and on each side either no
\* more than the gap or the gap and a bookable range.
BookingRules(s, req) ==
  LET awkward(rest) == rest > Gap /\ rest < Gap + MinSlot
  IN  /\ (req.end - req.start) \in Durations
      /\ ~awkward(s.end - req.end)
      /\ ~awkward(req.start - s.start)

\* The ranges that replace s when req is booked in it, `gap` away on each side.
Before(s, req, gap) ==
  IF req.start - gap > s.start THEN {[s EXCEPT !.end = req.start - gap]} ELSE {}

\* Mutant: the start of the booking taken for its end.
AfterStart(s, req, gap) ==
  IF req.end + gap < s.end THEN {[s EXCEPT !.start = req.start + gap]} ELSE {}

After(s, req, gap) ==
  IF req.end + gap < s.end THEN {[s EXCEPT !.start = req.end + gap]} ELSE {}

\* Mutant: ranges cut without the gap.
PiecesTight(s, req, gap) == Before(s, req, 0) \cup {req} \cup After(s, req, 0)

Pieces(s, req, gap) == Before(s, req, gap) \cup {req} \cup After(s, req, gap)

Split(doc, s, req, o, gap) ==
  [r \in (DOMAIN doc \ {s}) \cup Pieces(s, req, gap) |->
     IF r = req THEN BookedSlot(o)
     ELSE IF r \in Pieces(s, req, gap) THEN FreeSlot ELSE doc[r]]

-----------------------------------------------------------------------------
(* Edits of single fields: the array keeps its ranges *)

\* Mutant: the lock is cleared, the booking is not.
ReleaseRangeLock(doc, range) ==
  [r \in DOMAIN doc |->
     IF r = range THEN [doc[r] EXCEPT !.temp = FALSE] ELSE doc[r]]

\* removeBookingByRange, and the $set of cancelSlot: the element is found by
\* its times, whoever booked it; the temporary lock's owner stays.
ReleaseRange(doc, range) ==
  [r \in DOMAIN doc |->
     IF r = range THEN [doc[r] EXCEPT !.by = NoOrder, !.temp = FALSE] ELSE doc[r]]

\* unlockSlots and unlockPrivateOrderSlots: every element of this booking.
ReleaseOrder(doc, o) ==
  [r \in DOMAIN doc |->
     IF doc[r].by = o THEN [doc[r] EXCEPT !.by = NoOrder] ELSE doc[r]]

LockTemporarily(doc, range, o) ==
  [r \in DOMAIN doc |->
     IF Overlaps(range, r)
     THEN [doc[r] EXCEPT !.temp = TRUE, !.tempBy = o, !.till = TRUE] ELSE doc[r]]

UnlockTemporary(doc, o) ==
  [r \in DOMAIN doc |->
     IF doc[r].tempBy = o
     THEN [doc[r] EXCEPT !.temp = FALSE, !.tempBy = NoOrder, !.till = FALSE] ELSE doc[r]]

\* releaseExpiredTempLocks, for the ranges whose tempBlockedTill has passed.
ReleaseExpired(doc, expired) ==
  [r \in DOMAIN doc |->
     IF r \in expired /\ doc[r].temp /\ doc[r].till
     THEN [doc[r] EXCEPT !.temp = FALSE, !.tempBy = NoOrder, !.till = FALSE] ELSE doc[r]]

-----------------------------------------------------------------------------
(* Saving a document *)

\* tempBlockedAt and tempBlockedTill carry no @Prop: they are not stored.
Stored(meta) == [meta EXCEPT !.till = FALSE]

\* A field is written when its value differs from the loaded one.
Written(new, old, cur) == IF new # old THEN new ELSE cur
WriteFields(cur, loaded, edited) ==
  [by     |-> Written(edited.by, loaded.by, cur.by),
   temp   |-> Written(edited.temp, loaded.temp, cur.temp),
   tempBy |-> Written(edited.tempBy, loaded.tempBy, cur.tempBy),
   till   |-> FALSE]

Modified(loaded, edited, dirty) ==
  \/ dirty # {}
  \/ \E r \in DOMAIN loaded : Stored(edited[r]) # Stored(loaded[r])

\* What the collection holds after `edited`, loaded as `loaded`, is saved
\* over `cur`: the arrays of the dates in `dirty` were replaced as a whole,
\* the other dates get the changed fields of their elements.
Save(cur, loaded, edited, dirty) ==
  [r \in {x \in DOMAIN edited : x.date \in dirty}
           \cup {x \in DOMAIN cur : x.date \notin dirty} |->
     IF r.date \in dirty THEN Stored(edited[r])
     ELSE IF r \in DOMAIN loaded \cap DOMAIN edited
          THEN WriteFields(cur[r], loaded[r], edited[r])
          ELSE cur[r]]
=============================================================================
