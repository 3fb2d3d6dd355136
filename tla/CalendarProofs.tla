--------------------------- MODULE CalendarProofs ---------------------------
(***************************************************************************)
(* Theorems of Calendar and of the lists Views makes of it, for any number *)
(* of orders, lessons, dates, ranges, processes and crashes, except where  *)
(* a theorem says that requests do not overlap.  Every step of a process   *)
(* has one of five effects on the stored calendar and on the copies        *)
(* (Effect); that each action has one of them is proved once, in           *)
(* StepEffect, and the invariants of the calendar alone are shown to be    *)
(* preserved by the five effects.  The last parts follow what a request    *)
(* knows of its order and its lesson: who has locked an order (LocksHeld), *)
(* and, one request at a time, that what was read is still stored          *)
(* (Informed, Orderly) and which bookings belong to lessons (Backing).     *)
(*                                                                         *)
(* The first lemmas are about the operators of DaySlots: every edit of a   *)
(* document is a document, cutting a request out of a free range and       *)
(* saving a copy keep the ranges of a day disjoint, and with the booking   *)
(* rules long enough and a gap apart.                                      *)
(***************************************************************************)
EXTENDS Views, TLAPS

-----------------------------------------------------------------------------
(* What the operators of DaySlots preserve *)

\* The times a request may carry: the date may be missing.
Times == [date : Dates \cup {NoOrder}, start : Int, end : Int]

\* Two ranges of a day that are a gap apart do not overlap.
LEMMA NormalizedDisjoint ==
  ASSUME NEW S \in SUBSET Ranges, Normalized(S)
  PROVE  DisjointSet(S)
<1>1. SUFFICES ASSUME NEW a \in S, NEW b \in S, a # b, a.date = b.date
               PROVE  ~Overlaps(a, b)
  BY DEF DisjointSet, Overlaps
<1>2. /\ a.start \in Int /\ a.end \in Int /\ b.start \in Int /\ b.end \in Int
      /\ Gap \in Nat
  BY GapAssumption DEF Ranges
<1>3. a.start - b.end >= Gap \/ b.start - a.end >= Gap
  BY <1>1 DEF Normalized
<1> QED BY <1>2, <1>3 DEF Overlaps

\* The pieces cut out of s are ranges of the same day, inside s, and disjoint.
LEMMA PiecesInside ==
  ASSUME NEW s \in Ranges, NEW req \in Times, Contains(s, req),
         req.start <= req.end, NEW gap \in Nat
  PROVE  /\ Pieces(s, req, gap) \subseteq Ranges
         /\ \A a \in Pieces(s, req, gap) :
              a.date = s.date /\ a.start >= s.start /\ a.end <= s.end /\ a.start <= a.end
         /\ DisjointSet(Pieces(s, req, gap))
<1>1. /\ s.start \in Int /\ s.end \in Int /\ req.start \in Int /\ req.end \in Int
      /\ req.date = s.date /\ s.date \in Dates
      /\ req.start >= s.start /\ req.end <= s.end
  BY DEF Ranges, Times, Contains
<1>2. req \in Ranges
  BY <1>1 DEF Ranges, Times
<1>3. ASSUME NEW a \in Before(s, req, gap)
      PROVE  /\ a \in Ranges /\ a.date = s.date /\ a.start = s.start
             /\ a.end = req.start - gap /\ a.start < a.end
  BY <1>1 DEF Before, Ranges
<1>4. ASSUME NEW a \in After(s, req, gap)
      PROVE  /\ a \in Ranges /\ a.date = s.date /\ a.end = s.end
             /\ a.start = req.end + gap /\ a.start < a.end
  BY <1>1 DEF After, Ranges
<1>5. \A a, b \in Before(s, req, gap) : a = b
  BY DEF Before
<1>6. \A a, b \in After(s, req, gap) : a = b
  BY DEF After
<1>7. Pieces(s, req, gap) \subseteq Ranges
  BY <1>2, <1>3, <1>4 DEF Pieces
<1>8. \A a \in Pieces(s, req, gap) :
        a.date = s.date /\ a.start >= s.start /\ a.end <= s.end /\ a.start <= a.end
  BY <1>1, <1>3, <1>4 DEF Pieces
<1>9. ASSUME NEW a \in Pieces(s, req, gap), NEW b \in Pieces(s, req, gap), a # b
      PROVE  ~Overlaps(a, b)
  <2>1. CASE a \in Before(s, req, gap)
    BY <1>1, <1>3, <1>4, <1>5, <1>9, <2>1 DEF Pieces, Overlaps
  <2>2. CASE a \in After(s, req, gap)
    BY <1>1, <1>3, <1>4, <1>6, <1>9, <2>2 DEF Pieces, Overlaps
  <2>3. CASE a = req
    BY <1>1, <1>3, <1>4, <1>9, <2>3 DEF Pieces, Overlaps
  <2> QED BY <2>1, <2>2, <2>3 DEF Pieces
<1> QED BY <1>7, <1>8, <1>9 DEF DisjointSet

\* What a split stores with the booked range has the type of an element.
LEMMA MetaOfBooked == \A o \in Orders \cup {NoOrder} : BookedSlot(o) \in Meta
BY DEF BookedSlot, FreeSlot, Meta

\* ... and so has what it stores with the ranges left free.
LEMMA MetaOfFree == FreeSlot \in Meta
BY DEF FreeSlot, Meta

\* Cutting a request out of a range of a document gives a document.
LEMMA SplitDoc ==
  ASSUME NEW doc, IsDoc(doc), NEW s \in DOMAIN doc, NEW req \in Times, Contains(s, req),
         req.start <= req.end, NEW o \in Orders \cup {NoOrder}, NEW gap \in Nat
  PROVE  /\ IsDoc(Split(doc, s, req, o, gap))
         /\ DOMAIN Split(doc, s, req, o, gap) = (DOMAIN doc \ {s}) \cup Pieces(s, req, gap)
<1>1. s \in Ranges
  BY DEF IsDoc
<1>2. Pieces(s, req, gap) \subseteq Ranges
  BY <1>1, PiecesInside
<1>3. \A r \in DOMAIN doc : doc[r] \in Meta
  BY DEF IsDoc
<1> QED BY <1>2, <1>3, MetaOfBooked, MetaOfFree DEF IsDoc, Split

\* ... whose ranges are disjoint when they were.
LEMMA SplitDisjoint ==
  ASSUME NEW doc, IsDoc(doc), Disjoint(doc), NEW s \in DOMAIN doc, NEW req \in Times,
         Contains(s, req), req.start <= req.end, NEW o \in Orders \cup {NoOrder}, NEW gap \in Nat
  PROVE  Disjoint(Split(doc, s, req, o, gap))
<1>1. s \in Ranges /\ DOMAIN doc \subseteq Ranges
  BY DEF IsDoc
<1>2. /\ Pieces(s, req, gap) \subseteq Ranges
      /\ \A a \in Pieces(s, req, gap) :
           a.date = s.date /\ a.start >= s.start /\ a.end <= s.end /\ a.start <= a.end
      /\ DisjointSet(Pieces(s, req, gap))
  BY <1>1, PiecesInside
<1>3. ASSUME NEW a \in Pieces(s, req, gap), NEW b \in DOMAIN doc \ {s}
      PROVE  ~Overlaps(a, b) /\ ~Overlaps(b, a)
  <2>1. ~Overlaps(s, b)
    BY DEF Disjoint, DisjointSet
  <2>2. /\ a.start \in Int /\ a.end \in Int /\ b.start \in Int /\ b.end \in Int
        /\ s.start \in Int /\ s.end \in Int
    BY <1>1, <1>2 DEF Ranges
  <2> QED BY <1>2, <2>1, <2>2 DEF Overlaps
<1>4. \A a, b \in DOMAIN doc \ {s} : a # b => ~Overlaps(a, b)
  BY DEF Disjoint, DisjointSet
<1>5. DisjointSet((DOMAIN doc \ {s}) \cup Pieces(s, req, gap))
  BY <1>2, <1>3, <1>4 DEF DisjointSet
<1> QED BY <1>5, SplitDoc DEF Disjoint

\* ... and which keeps what it held outside s.
LEMMA SplitKeeps ==
  ASSUME NEW doc, IsDoc(doc), Disjoint(doc), NEW s \in DOMAIN doc, NEW req \in Times,
         Contains(s, req), req.start < req.end, NEW o \in Orders \cup {NoOrder}, NEW gap \in Nat,
         NEW r \in DOMAIN doc \ {s}
  PROVE  /\ r \in DOMAIN Split(doc, s, req, o, gap)
         /\ Split(doc, s, req, o, gap)[r] = doc[r]
<1>1. s \in Ranges /\ r \in Ranges /\ ~Overlaps(s, r)
  BY DEF IsDoc, Disjoint, DisjointSet
<1>2. \A a \in Pieces(s, req, gap) :
        a \in Ranges /\ a.date = s.date /\ a.start >= s.start /\ a.end <= s.end
  BY <1>1, PiecesInside DEF Times
<1>3. \A a \in Pieces(s, req, gap) : a.start < a.end
  <2>1. /\ s.start \in Int /\ s.end \in Int /\ req.start \in Int /\ req.end \in Int
        /\ req.start >= s.start /\ req.end <= s.end
    BY <1>1 DEF Ranges, Times, Contains
  <2>2. \A a \in Before(s, req, gap) : a.start < a.end
    BY <1>1, <2>1 DEF Before, Ranges
  <2>3. \A a \in After(s, req, gap) : a.start < a.end
    BY <1>1, <2>1 DEF After, Ranges
  <2> QED BY <2>2, <2>3 DEF Pieces
<1>4. r \notin Pieces(s, req, gap)
  BY <1>1, <1>2, <1>3 DEF Overlaps, Ranges
<1>5. r # req
  BY <1>4 DEF Pieces
<1> QED BY <1>4, <1>5 DEF Split

-----------------------------------------------------------------------------
(* Edits of fields *)

\* An edit of fields: a document with the same ranges.
SameRanges(doc, edited) == IsDoc(edited) /\ DOMAIN edited = DOMAIN doc

\* Freeing a range keeps the ranges, and every other element.
LEMMA ReleaseRangeDoc ==
  ASSUME NEW doc, IsDoc(doc), NEW range
  PROVE  /\ SameRanges(doc, ReleaseRange(doc, range))
         /\ \A r \in DOMAIN doc \ {range} : ReleaseRange(doc, range)[r] = doc[r]
<1>1. \A r \in DOMAIN doc : [doc[r] EXCEPT !.by = NoOrder, !.temp = FALSE] \in Meta
  BY DEF IsDoc, Meta
<1> QED BY <1>1 DEF SameRanges, IsDoc, ReleaseRange

\* Unlocking an order keeps the ranges, frees its bookings and no others.
LEMMA ReleaseOrderDoc ==
  ASSUME NEW doc, IsDoc(doc), NEW o
  PROVE  /\ SameRanges(doc, ReleaseOrder(doc, o))
         /\ \A r \in DOMAIN doc : IF doc[r].by = o THEN ReleaseOrder(doc, o)[r].by = NoOrder
                                  ELSE ReleaseOrder(doc, o)[r] = doc[r]
<1>1. \A r \in DOMAIN doc : /\ [doc[r] EXCEPT !.by = NoOrder] \in Meta
                            /\ [doc[r] EXCEPT !.by = NoOrder].by = NoOrder
  BY DEF IsDoc, Meta
<1> QED BY <1>1 DEF SameRanges, IsDoc, ReleaseOrder

\* The locks and unlocks leave the bookings alone.
SameBookings(doc, edited) ==
  SameRanges(doc, edited) /\ \A r \in DOMAIN doc : edited[r].by = doc[r].by

\* requestSlotReschedule locks ranges without touching a booking.
LEMMA LockTemporarilyDoc ==
  ASSUME NEW doc, IsDoc(doc), NEW range, NEW o \in Orders \cup {NoOrder}
  PROVE  SameBookings(doc, LockTemporarily(doc, range, o))
<1>1. \A r \in DOMAIN doc :
        /\ [doc[r] EXCEPT !.temp = TRUE, !.tempBy = o, !.till = TRUE] \in Meta
        /\ [doc[r] EXCEPT !.temp = TRUE, !.tempBy = o, !.till = TRUE].by = doc[r].by
  BY DEF IsDoc, Meta
<1> QED BY <1>1 DEF SameBookings, SameRanges, IsDoc, LockTemporarily

\* An answer to a proposal unlocks them without touching a booking.
LEMMA UnlockTemporaryDoc ==
  ASSUME NEW doc, IsDoc(doc), NEW o
  PROVE  SameBookings(doc, UnlockTemporary(doc, o))
<1>1. \A r \in DOMAIN doc :
        /\ [doc[r] EXCEPT !.temp = FALSE, !.tempBy = NoOrder, !.till = FALSE] \in Meta
        /\ [doc[r] EXCEPT !.temp = FALSE, !.tempBy = NoOrder, !.till = FALSE].by = doc[r].by
  BY DEF IsDoc, Meta
<1> QED BY <1>1 DEF SameBookings, SameRanges, IsDoc, UnlockTemporary

\* The cron unlocks them without touching a booking.
LEMMA ReleaseExpiredDoc ==
  ASSUME NEW doc, IsDoc(doc), NEW expired
  PROVE  SameBookings(doc, ReleaseExpired(doc, expired))
<1>1. \A r \in DOMAIN doc :
        /\ [doc[r] EXCEPT !.temp = FALSE, !.tempBy = NoOrder, !.till = FALSE] \in Meta
        /\ [doc[r] EXCEPT !.temp = FALSE, !.tempBy = NoOrder, !.till = FALSE].by = doc[r].by
  BY DEF IsDoc, Meta
<1> QED BY <1>1 DEF SameBookings, SameRanges, IsDoc, ReleaseExpired

-----------------------------------------------------------------------------
(* Saving *)

\* What mongoose drops from an element is not its booking.
LEMMA StoredMeta == \A m \in Meta : Stored(m) \in Meta /\ Stored(m).by = m.by
BY DEF Stored, Meta

\* What is stored after a save is a document, with the ranges of the copy on
\* the dates it replaced and the stored ones on the others.
SavedRanges(cur, edited, dirty) ==
  {x \in DOMAIN edited : x.date \in dirty} \cup {x \in DOMAIN cur : x.date \notin dirty}

\* A save of a copy over the store leaves a document with SavedRanges.
LEMMA SaveDoc ==
  ASSUME NEW cur, IsDoc(cur), NEW loaded, IsDoc(loaded), NEW edited, IsDoc(edited), NEW dirty
  PROVE  /\ IsDoc(Save(cur, loaded, edited, dirty))
         /\ DOMAIN Save(cur, loaded, edited, dirty) = SavedRanges(cur, edited, dirty)
<1>1. ASSUME NEW m \in Meta, NEW l \in Meta, NEW e \in Meta
      PROVE  WriteFields(m, l, e) \in Meta
  BY DEF WriteFields, Written, Meta
<1> QED BY <1>1, StoredMeta DEF IsDoc, Save, SavedRanges

\* A save mixes whole dates of the copy and of the store: the ranges of each
\* date stay disjoint, whatever was saved since the copy was loaded.
LEMMA SaveDisjoint ==
  ASSUME NEW cur, IsDoc(cur), NEW loaded, IsDoc(loaded), NEW edited, IsDoc(edited), NEW dirty,
         Disjoint(cur), Disjoint(edited)
  PROVE  Disjoint(Save(cur, loaded, edited, dirty))
<1>1. SUFFICES ASSUME NEW a \in SavedRanges(cur, edited, dirty),
                      NEW b \in SavedRanges(cur, edited, dirty), a # b
               PROVE  ~Overlaps(a, b)
  BY SaveDoc DEF Disjoint, DisjointSet
<1>2. CASE a.date = b.date
  BY <1>1, <1>2 DEF SavedRanges, Disjoint, DisjointSet
<1> QED BY <1>2 DEF Overlaps

\* The same for the length of the ranges and the gap between them.
LEMMA SaveNormalized ==
  ASSUME NEW cur, IsDoc(cur), NEW loaded, IsDoc(loaded), NEW edited, IsDoc(edited), NEW dirty,
         Normalized(DOMAIN cur), Normalized(DOMAIN edited)
  PROVE  Normalized(DOMAIN Save(cur, loaded, edited, dirty))
<1> DEFINE D == SavedRanges(cur, edited, dirty)
<1>1. DOMAIN Save(cur, loaded, edited, dirty) = D
  BY SaveDoc
<1>2. \A a \in D : a.end - a.start >= MinSlot
  BY DEF Normalized, SavedRanges
<1>3. ASSUME NEW a \in D, NEW b \in D, a # b, a.date = b.date
      PROVE  a.start - b.end >= Gap \/ b.start - a.end >= Gap
  BY <1>3 DEF Normalized, SavedRanges
<1> HIDE DEF D
<1> QED BY <1>1, <1>2, <1>3 DEF Normalized

\* A booking that obeys the booking rules leaves no range shorter than
\* MinSlot, and a gap on both sides of itself.
LEMMA SplitNormalized ==
  ASSUME NEW doc, IsDoc(doc), Normalized(DOMAIN doc), NEW s \in DOMAIN doc, NEW req \in Times,
         Contains(s, req), req.start <= req.end, BookingRules(s, req), NEW o \in Orders \cup {NoOrder}
  PROVE  Normalized(DOMAIN Split(doc, s, req, o, Gap))
<1> DEFINE P == Pieces(s, req, Gap)
<1>0. /\ Gap \in Nat /\ MinSlot \in Nat
      /\ \A d \in Durations : d \in Nat /\ d >= MinSlot
  BY GapAssumption, MinSlotAssumption, DurationsAssumption
<1>1. s \in Ranges /\ DOMAIN doc \subseteq Ranges
  BY DEF IsDoc
<1>2. /\ s.start \in Int /\ s.end \in Int /\ req.start \in Int /\ req.end \in Int
      /\ req.start >= s.start /\ req.end <= s.end
      /\ req.end - req.start >= MinSlot
      /\ ~(s.end - req.end > Gap /\ s.end - req.end < Gap + MinSlot)
      /\ ~(req.start - s.start > Gap /\ req.start - s.start < Gap + MinSlot)
  BY <1>0, <1>1 DEF Ranges, Times, Contains, BookingRules
<1>3. ASSUME NEW a \in Before(s, req, Gap)
      PROVE  /\ a \in Ranges /\ a.start = s.start /\ a.end = req.start - Gap
             /\ a.end - a.start >= MinSlot
  <2>1. a = [s EXCEPT !.end = req.start - Gap] /\ req.start - Gap > s.start
    BY DEF Before
  <2>2. a \in Ranges /\ a.start = s.start /\ a.end = req.start - Gap
    BY <1>0, <1>1, <1>2, <2>1 DEF Ranges
  <2> QED BY <1>0, <1>2, <2>1, <2>2
<1>4. ASSUME NEW a \in After(s, req, Gap)
      PROVE  /\ a \in Ranges /\ a.end = s.end /\ a.start = req.end + Gap
             /\ a.end - a.start >= MinSlot
  <2>1. a = [s EXCEPT !.start = req.end + Gap] /\ req.end + Gap < s.end
    BY DEF After
  <2>2. a \in Ranges /\ a.end = s.end /\ a.start = req.end + Gap
    BY <1>0, <1>1, <1>2, <2>1 DEF Ranges
  <2> QED BY <1>0, <1>2, <2>1, <2>2
<1>5. \A a \in P : a.end - a.start >= MinSlot
  BY <1>2, <1>3, <1>4 DEF Pieces
<1>6. /\ P \subseteq Ranges
      /\ \A a \in P : a.date = s.date /\ a.start >= s.start /\ a.end <= s.end /\ a.start <= a.end
  BY <1>0, <1>1, PiecesInside
<1>7. ASSUME NEW a \in P, NEW b \in P, a # b
      PROVE  a.start - b.end >= Gap \/ b.start - a.end >= Gap
  <2>1. \A x, y \in Before(s, req, Gap) : x = y
    BY DEF Before
  <2>2. \A x, y \in After(s, req, Gap) : x = y
    BY DEF After
  <2>3. CASE a \in Before(s, req, Gap)
    BY <1>0, <1>2, <1>3, <1>4, <1>7, <2>1, <2>3 DEF Pieces
  <2>4. CASE a \in After(s, req, Gap)
    BY <1>0, <1>2, <1>3, <1>4, <1>7, <2>2, <2>4 DEF Pieces
  <2>5. CASE a = req
    BY <1>0, <1>2, <1>3, <1>4, <1>7, <2>5 DEF Pieces
  <2> QED BY <2>3, <2>4, <2>5 DEF Pieces
<1>8. ASSUME NEW a \in P, NEW b \in DOMAIN doc \ {s}, a.date = b.date
      PROVE  a.start - b.end >= Gap \/ b.start - a.end >= Gap
  <2>1. s.start - b.end >= Gap \/ b.start - s.end >= Gap
    BY <1>6, <1>8 DEF Normalized
  <2>2. /\ a.start \in Int /\ a.end \in Int /\ b.start \in Int /\ b.end \in Int
        /\ a.start >= s.start /\ a.end <= s.end
    BY <1>1, <1>6 DEF Ranges
  <2> QED BY <1>0, <1>2, <2>1, <2>2
<1>9. DOMAIN Split(doc, s, req, o, Gap) = (DOMAIN doc \ {s}) \cup P
  <2>1. DOMAIN Split(doc, s, req, o, Gap) = (DOMAIN doc \ {s}) \cup Pieces(s, req, Gap)
    BY GapAssumption, SplitDoc
  <2> QED BY <2>1
<1>10. \A a, b \in (DOMAIN doc \ {s}) \cup P : a # b /\ a.date = b.date =>
         a.start - b.end >= Gap \/ b.start - a.end >= Gap
  BY <1>7, <1>8 DEF Normalized
<1>11. \A a \in (DOMAIN doc \ {s}) \cup P : a.end - a.start >= MinSlot
  BY <1>5 DEF Normalized
<1> HIDE DEF P
<1> QED BY <1>9, <1>10, <1>11 DEF Normalized

-----------------------------------------------------------------------------
(* The types of the calendar *)

\* The parts of TypeOK that say nothing about documents.
Typed ==
  /\ orders \in [Orders -> [status : OrderStatus, paid : BOOLEAN, charged : BOOLEAN]]
  /\ lessons \in [Lessons -> LessonDocs]
  /\ DOMAIN proc = Procs
  /\ \A p \in Procs : FieldsType(proc[p])

\* Only a process that has loaded a profile and not saved it yet has a copy
\* with the stored __v.
Holding == {"loaded", "attach", "move"}
Shape ==
  /\ Typed
  /\ current \subseteq Procs
  /\ IsDoc(slots)
  /\ \A p \in Procs : IsDoc(proc[p].doc)
  /\ \A p \in current : proc[p].pc \in Holding

-----------------------------------------------------------------------------
(* The effects of a step *)

\* Only p moves, and it runs the payment webhook only if some order uses Stripe.
Follows(p) ==
  /\ \A q \in Procs \ {p} : proc'[q] = proc[q]
  /\ proc'[p].handler = "handlePublicOrderSuccess" =>
       proc[p].handler = "handlePublicOrderSuccess" \/ ByStripe # {}

\* The calendar stays, and p keeps its copy or drops it.
Quiet(p) ==
  /\ Follows(p)
  /\ slots' = slots
  /\ proc'[p].doc \in {proc[p].doc, NoDoc}
  /\ current' \in {current, current \ {p}}
  /\ p \in current' => proc'[p].doc = proc[p].doc /\ proc'[p].pc \in Holding

Loads(p) ==
  /\ Follows(p)
  /\ slots' = slots
  /\ proc'[p].doc = slots
  /\ current' = current \cup {p}
  /\ proc'[p].pc \in Holding

\* p cuts a request out of a free range of its copy.
Cuts(p, s, req, gap) ==
  /\ s \in OpenFor(proc[p].doc, req)
  /\ req \in Requests \cup {NoRange}
  /\ gap \in Nat
  /\ \/ gap = Gap /\ BookingRules(s, req)
     \/ proc[p].handler = "handlePublicOrderSuccess"
  /\ proc'[p].doc = Split(proc[p].doc, s, req, proc[p].order, gap)

Attaches(p) ==
  /\ Follows(p)
  /\ slots' = slots
  /\ current' = current
  /\ proc'[p].pc \in Holding
  /\ \E s \in Ranges, req \in Requests \cup {NoRange}, gap \in Nat : Cuts(p, s, req, gap)

\* What a handler may do to its copy before it saves it.
Drops(p, r) ==
  \/ At(p, "loaded", {"unlockSlots"}) /\ proc[p].doc[r].by = proc[p].order
  \/ At(p, "move", Movers) /\ proc[p].seen.range = r

Edits(p, edited, dirty) ==
  /\ IsDoc(edited)
  /\ Disjoint(proc[p].doc) => Disjoint(edited)
  /\ Normalized(DOMAIN proc[p].doc) => Normalized(DOMAIN edited)
  /\ Disjoint(proc[p].doc) => \A r \in DOMAIN proc[p].doc : proc[p].doc[r].by # NoOrder =>
       \/ r \in DOMAIN edited /\ edited[r].by = proc[p].doc[r].by
       \/ Drops(p, r)
  /\ dirty = {} => \A r \in DOMAIN proc[p].doc \cap DOMAIN edited :
                     edited[r].by \in {proc[p].doc[r].by, NoOrder}

Saves(p) ==
  /\ Follows(p)
  /\ proc'[p].doc \in {proc[p].doc, NoDoc}
  /\ proc'[p].pc # proc[p].pc
  /\ \E edited, dirty : Edits(p, edited, dirty) /\ SaveProfile(p, edited, dirty)

\* p frees ranges in the store directly.
Frees(p) ==
  /\ Follows(p)
  /\ proc'[p].doc \in {proc[p].doc, NoDoc}
  /\ proc'[p].pc # proc[p].pc
  /\ p \notin current
  /\ current' = current
  /\ \/ At(p, "free", {"cancelSlot"}) /\ slots' = ReleaseRange(slots, proc[p].seen.range)
     \/ At(p, "free", {"cancelPrivateOrder"}) /\ slots' = ReleaseOrder(slots, proc[p].order)

Effect(p) == Quiet(p) \/ Loads(p) \/ Attaches(p) \/ Saves(p) \/ Frees(p)

-----------------------------------------------------------------------------
(* Steps of the process itself *)

\* The fields of an idle process, one by one.
LEMMA IdleFields ==
  /\ DOMAIN Idle = {"pc", "handler", "order", "lesson", "doc", "dirty", "seen", "was",
                    "want", "todo", "new"}
  /\ Idle.pc = "idle" /\ Idle.handler = "none" /\ Idle.order = NoOrder
  /\ Idle.lesson = NoLesson /\ Idle.doc = NoDoc /\ Idle.dirty = {}
  /\ Idle.seen = NoLessonDoc /\ Idle.was = "NONE"
  /\ Idle.want = [l \in Lessons |-> NoRange] /\ Idle.todo = {} /\ Idle.new = NoRange
BY DEF Idle

\* A lesson that does not exist yet has the type of a lesson.
LEMMA NoLessonType == NoLessonDoc \in LessonDocs
BY DEF NoLessonDoc, LessonDocs, LessonStatus, NoReschedule, Reschedules

\* An idle process has the type of a process.
LEMMA IdleType == FieldsType(Idle)
BY IdleFields, NoLessonType DEF FieldsType, OrderStatus

\* The copy of a process that loaded nothing satisfies every invariant.
LEMMA NoDocDoc == IsDoc(NoDoc) /\ Disjoint(NoDoc) /\ Normalized(DOMAIN NoDoc)
BY DEF IsDoc, NoDoc, Disjoint, DisjointSet, Normalized

ProcTyped == DOMAIN proc = Procs /\ \A p \in Procs : FieldsType(proc[p])

\* A process that gets a new state x: the others stay, types are kept.
LEMMA StartStep ==
  ASSUME Shape, NEW p \in Procs, NEW x, FieldsType(x), proc' = [proc EXCEPT ![p] = x],
         x.handler = "handlePublicOrderSuccess" =>
           proc[p].handler = "handlePublicOrderSuccess" \/ ByStripe # {}
  PROVE  ProcTyped' /\ Follows(p) /\ proc'[p] = x
BY DEF Shape, Typed, ProcTyped, Follows

\* The same for a process that ends,
LEMMA FinishStep ==
  ASSUME Shape, NEW p \in Procs, Finish(p)
  PROVE  /\ ProcTyped' /\ Follows(p)
         /\ proc'[p].doc = NoDoc /\ proc'[p].pc = "idle"
BY StartStep, IdleType, IdleFields DEF Finish

\* and for one that moves on to another await.
LEMMA GotoStep ==
  ASSUME Shape, NEW p \in Procs, NEW pc, pc \notin {"lock", "reload"}, Goto(p, pc)
  PROVE  /\ ProcTyped' /\ Follows(p)
         /\ proc'[p].doc = proc[p].doc /\ proc'[p].pc = pc
<1> DEFINE x == [proc[p] EXCEPT !.pc = pc]
<1>1. DOMAIN proc = Procs /\ FieldsType(proc[p])
  BY DEF Shape, Typed
<1>2. DOMAIN proc[p] = {"pc", "handler", "order", "lesson", "doc", "dirty", "seen", "was",
                        "want", "todo", "new"}
  BY <1>1, IdleFields DEF FieldsType
<1>3. /\ DOMAIN x = DOMAIN proc[p] /\ x.pc = pc /\ x.handler = proc[p].handler
      /\ x.order = proc[p].order /\ x.lesson = proc[p].lesson /\ x.doc = proc[p].doc
      /\ x.dirty = proc[p].dirty /\ x.seen = proc[p].seen /\ x.was = proc[p].was
      /\ x.want = proc[p].want /\ x.todo = proc[p].todo /\ x.new = proc[p].new
  BY <1>2
<1>4. FieldsType(x)
  BY <1>1, <1>3 DEF FieldsType
<1>5. DOMAIN proc' = Procs /\ proc'[p] = x /\ \A q \in Procs \ {p} : proc'[q] = proc[q]
  BY <1>1 DEF Goto
<1> HIDE DEF x
<1> QED BY <1>3, <1>4, <1>5 DEF ProcTyped, Follows, Shape, Typed

\* A process that waits elsewhere has no copy with the stored __v.
LEMMA NotHolding ==
  ASSUME Shape, NEW p \in Procs, proc[p].pc \notin Holding
  PROVE  p \notin current
BY DEF Shape

\* A handler that starts changes no document.
LEMMA StartQuiet ==
  ASSUME Shape, NEW p \in Procs, proc[p].pc = "idle", NEW x, FieldsType(x), x.doc = NoDoc,
         x.handler = "handlePublicOrderSuccess" => ByStripe # {},
         proc' = [proc EXCEPT ![p] = x], UNCHANGED <<slots, current>>
  PROVE  ProcTyped' /\ Quiet(p)
<1>1. ProcTyped' /\ Follows(p) /\ proc'[p] = x
  BY StartStep
<1>2. p \notin current
  BY NotHolding DEF Holding
<1> QED BY <1>1, <1>2 DEF Quiet

\* An exception or a crash changes no document.
LEMMA ThrowQuiet ==
  ASSUME Shape, NEW p \in Procs, Throw(p)
  PROVE  Typed' /\ Quiet(p)
<1>1. /\ ProcTyped' /\ Follows(p) /\ proc'[p].doc = NoDoc
      /\ UNCHANGED <<slots, orders, lessons>> /\ current' = current \ {p}
  BY FinishStep DEF Throw
<1> QED BY <1>1 DEF Shape, Typed, ProcTyped, Quiet

-----------------------------------------------------------------------------
(* createOrder and createPrivateOrder *)

\* The ranges an order asks for have the type of `want`.
LEMMA WishesType ==
  ASSUME NEW o \in Orders, NEW w \in Wishes(o)
  PROVE  w \in [Lessons -> Requests \cup {NoRange}] /\ LessonsOf(o) \subseteq Lessons
BY DEF Wishes, LessonsOf

\* Storing the lessons of a new order keeps the type of lessons.
LEMMA AskType ==
  ASSUME Shape, NEW o \in Orders, NEW w \in Wishes(o), Ask(o, w)
  PROVE  lessons' \in [Lessons -> LessonDocs]
<1>1. \A l \in Lessons : [NoLessonDoc EXCEPT !.range = w[l]] \in LessonDocs
  BY WishesType, NoLessonType DEF LessonDocs
<1>2. lessons \in [Lessons -> LessonDocs]
  BY DEF Shape, Typed
<1> QED BY <1>1, <1>2 DEF Ask

\* createOrder stores the order and its lessons, and no document.
LEMMA CreateOrderEffect ==
  ASSUME Shape, NEW p \in Procs, NEW o \in Orders, CreateOrder(p, o)
  PROVE  Typed' /\ Quiet(p)
<1>1. PICK w \in Wishes(o) :
       /\ Ask(o, w)
       /\ IF o \in ByWallet
          THEN /\ orders' = [orders EXCEPT ![o].status = "CONFIRMED", ![o].paid = TRUE]
               /\ proc' = [proc EXCEPT ![p] = [Idle EXCEPT
                    !.pc = "load", !.handler = "createOrder", !.order = o,
                    !.want = w, !.todo = LessonsOf(o)]]
          ELSE /\ orders' = [orders EXCEPT ![o].status = "PENDING_PAYMENT"]
               /\ UNCHANGED proc
  BY DEF CreateOrder
<1>2. current' = current /\ slots' = slots /\ proc[p].pc = "idle" /\ p \notin current
  BY NotHolding DEF CreateOrder, Start, Holding
<1>3. orders' \in [Orders -> [status : OrderStatus, paid : BOOLEAN, charged : BOOLEAN]]
  BY <1>1 DEF Shape, Typed, OrderStatus
<1>4. lessons' \in [Lessons -> LessonDocs]
  BY <1>1, AskType
<1>5. CASE o \in ByWallet
  <2> DEFINE x == [Idle EXCEPT !.pc = "load", !.handler = "createOrder", !.order = o,
                               !.want = w, !.todo = LessonsOf(o)]
  <2>1. FieldsType(x) /\ x.doc = NoDoc /\ x.handler = "createOrder"
    BY WishesType, IdleFields, IdleType DEF FieldsType
  <2>2. proc' = [proc EXCEPT ![p] = x]
    BY <1>1, <1>5
  <2> HIDE DEF x
  <2>3. ProcTyped' /\ Quiet(p)
    BY <1>2, <2>1, <2>2, StartQuiet
  <2> QED BY <1>3, <1>4, <2>3 DEF ProcTyped, Typed
<1>6. CASE o \notin ByWallet
  BY <1>1, <1>2, <1>3, <1>4, <1>6 DEF Shape, Typed, Quiet, Follows
<1> QED BY <1>5, <1>6

\* createPrivateOrder starts by loading the profile.
LEMMA StartPrivateOrderEffect ==
  ASSUME Shape, NEW p \in Procs, NEW o \in Orders, StartPrivateOrder(p, o)
  PROVE  Typed' /\ Quiet(p)
<1> DEFINE x == [Idle EXCEPT !.pc = "load", !.handler = "createPrivateOrder", !.order = o]
<1>1. FieldsType(x) /\ x.doc = NoDoc /\ x.handler = "createPrivateOrder"
  BY IdleFields, IdleType DEF FieldsType
<1>2. proc' = [proc EXCEPT ![p] = x] /\ proc[p].pc = "idle"
      /\ UNCHANGED <<slots, current, orders, lessons>>
  BY DEF StartPrivateOrder, Start
<1> HIDE DEF x
<1>3. ProcTyped' /\ Quiet(p)
  BY <1>1, <1>2, StartQuiet
<1> QED BY <1>2, <1>3 DEF ProcTyped, Shape, Typed

\* proc[p] with some fields replaced by others of their type.
LEMMA FieldsOfProc ==
  ASSUME Shape, NEW p \in Procs
  PROVE  /\ DOMAIN proc = Procs /\ FieldsType(proc[p]) /\ IsDoc(proc[p].doc)
         /\ DOMAIN proc[p] = {"pc", "handler", "order", "lesson", "doc", "dirty", "seen",
                              "was", "want", "todo", "new"}
BY IdleFields DEF Shape, Typed, FieldsType

\* It then stores the order, still with an unchanged copy.
LEMMA CreatePrivateOrderEffect ==
  ASSUME Shape, NEW p \in Procs, CreatePrivateOrder(p)
  PROVE  Typed' /\ Quiet(p)
<1>1. PICK w \in Wishes(proc[p].order) :
       /\ Ask(proc[p].order, w)
       /\ orders' = [orders EXCEPT ![proc[p].order].status = "PENDING_PAYMENT"]
       /\ proc' = [proc EXCEPT ![p].pc = "attach", ![p].want = w,
                               ![p].todo = LessonsOf(proc[p].order)]
  BY DEF CreatePrivateOrder
<1>2. UNCHANGED <<slots, current>>
  BY DEF CreatePrivateOrder
<1>3. w \in [Lessons -> Requests \cup {NoRange}] /\ LessonsOf(proc[p].order) \subseteq Lessons
  BY DEF Wishes, LessonsOf
<1>4. lessons' \in [Lessons -> LessonDocs]
  <2>1. \A l \in Lessons : [NoLessonDoc EXCEPT !.range = w[l]] \in LessonDocs
    BY <1>3, NoLessonType DEF LessonDocs
  <2> QED BY <1>1, <2>1 DEF Shape, Typed, Ask
<1>5. orders' \in [Orders -> [status : OrderStatus, paid : BOOLEAN, charged : BOOLEAN]]
  BY <1>1 DEF Shape, Typed, OrderStatus
<1>6. /\ DOMAIN proc' = Procs /\ \A q \in Procs \ {p} : proc'[q] = proc[q]
      /\ FieldsType(proc'[p]) /\ proc'[p].doc = proc[p].doc
      /\ proc'[p].handler = proc[p].handler /\ proc'[p].pc = "attach"
  BY <1>1, <1>3, FieldsOfProc, IdleFields DEF FieldsType
<1> QED BY <1>2, <1>4, <1>5, <1>6 DEF Shape, Typed, Quiet, Follows, Holding

\* What is cut out of a range is a request: NoRange is on no date.
LEMMA OpenRequest ==
  ASSUME NEW doc, IsDoc(doc), NEW req \in Requests \cup {NoRange}, NEW s \in OpenFor(doc, req)
  PROVE  /\ s \in DOMAIN doc /\ s \in Ranges /\ Contains(s, req) /\ doc[s].by = NoOrder
         /\ req \in Requests /\ req \in Ranges /\ req \in Times
         /\ req.start < req.end /\ req.start <= req.end
<1>1. s \in DOMAIN doc /\ s \in Ranges /\ Contains(s, req) /\ doc[s].by = NoOrder
  BY DEF OpenFor, IsDoc
<1>2. req # NoRange
  BY <1>1, DatesAssumption DEF Contains, NoRange, Ranges
<1>3. req \in Requests /\ req \in Ranges /\ req.start < req.end
  BY <1>2, RequestsAssumption
<1> QED BY <1>1, <1>3 DEF Ranges, Times

\* Cutting a request out of the copy, and dropping a lesson from what is left.
LEMMA AttachEffect ==
  ASSUME Shape, NEW p \in Procs, proc[p].pc = "attach", NEW l \in proc[p].todo,
         NEW gap \in Nat, NEW s \in OpenFor(proc[p].doc, proc[p].want[l]),
         \/ gap = Gap /\ BookingRules(s, proc[p].want[l])
         \/ proc[p].handler = "handlePublicOrderSuccess",
         proc' = [Attached(p, s, proc[p].want[l], gap) EXCEPT ![p].todo = @ \ {l}],
         UNCHANGED <<slots, current, orders, lessons>>
  PROVE  Typed' /\ Attaches(p)
<1> DEFINE req == proc[p].want[l]
<1>1. req \in Requests \cup {NoRange}
  BY FieldsOfProc DEF FieldsType
<1>2. s \in Ranges /\ req.date \in Dates
  BY FieldsOfProc DEF OpenFor, IsDoc, Contains, Ranges
<1>3. /\ DOMAIN proc' = Procs /\ \A q \in Procs \ {p} : proc'[q] = proc[q]
      /\ FieldsType(proc'[p]) /\ proc'[p].handler = proc[p].handler
      /\ proc'[p].pc = "attach"
      /\ proc'[p].doc = Split(proc[p].doc, s, req, proc[p].order, gap)
  BY <1>2, FieldsOfProc, IdleFields DEF FieldsType, Attached
<1> HIDE DEF req
<1>4. Cuts(p, s, req, gap)
  BY <1>1, <1>3 DEF Cuts, req
<1> QED BY <1>1, <1>2, <1>3, <1>4 DEF Shape, Typed, Attaches, Follows, Holding

\* Attaching a slot of an order cuts it out of the copy, by the rules.
LEMMA AttachSlotEffect ==
  ASSUME Shape, NEW p \in Procs, AttachSlot(p)
  PROVE  Typed' /\ Attaches(p)
<1>1. PICK l \in Earliest(p) : \E s \in Bookable(p, proc[p].want[l]) :
        proc' = [Attached(p, s, proc[p].want[l], Gap) EXCEPT ![p].todo = @ \ {l}]
  BY DEF AttachSlot
<1>. PICK s \in Bookable(p, proc[p].want[l]) :
        proc' = [Attached(p, s, proc[p].want[l], Gap) EXCEPT ![p].todo = @ \ {l}]
  BY <1>1
<1>2. /\ l \in proc[p].todo /\ s \in OpenFor(proc[p].doc, proc[p].want[l])
      /\ BookingRules(s, proc[p].want[l])
  BY DEF Earliest, Bookable
<1>3. proc[p].pc = "attach" /\ UNCHANGED <<slots, current, orders, lessons>>
  BY DEF AttachSlot, At
<1> QED BY <1>1, <1>2, <1>3, AttachEffect, GapAssumption

\* A slot that cannot be attached ends the booking: no document changes.
LEMMA FailBookingEffect ==
  ASSUME Shape, NEW p \in Procs, FailBooking(p)
  PROVE  Typed' /\ Quiet(p)
<1> DEFINE x == IF proc[p].handler = "createOrder" THEN Idle
                ELSE [Idle EXCEPT !.pc = "delete", !.handler = "createPrivateOrder",
                                  !.order = proc[p].order]
<1>1. FieldsType(x) /\ x.doc = NoDoc /\ x.handler \in {"none", "createPrivateOrder"}
  BY IdleFields, IdleType, FieldsOfProc DEF FieldsType
<1>2. /\ proc' = [proc EXCEPT ![p] = x] /\ current' = current \ {p}
      /\ UNCHANGED <<slots, orders, lessons>>
  BY DEF FailBooking
<1> HIDE DEF x
<1>3. ProcTyped' /\ Follows(p) /\ proc'[p] = x
  BY <1>1, <1>2, StartStep
<1> QED BY <1>1, <1>2, <1>3 DEF Shape, Typed, ProcTyped, Quiet

\* Saving the copy as it stands, with the arrays that were cut replaced.
LEMMA OwnCopyEdits ==
  ASSUME Shape, NEW p \in Procs
  PROVE  Edits(p, proc[p].doc, proc[p].dirty)
BY FieldsOfProc DEF Edits

\* The last step of a booking saves the copy.
LEMMA SaveBookingEffect ==
  ASSUME Shape, NEW p \in Procs, SaveBooking(p)
  PROVE  Typed' /\ Saves(p)
<1>1. ProcTyped' /\ Follows(p) /\ proc'[p].doc = NoDoc /\ proc'[p].pc = "idle"
  BY FinishStep DEF SaveBooking
<1>2. /\ proc[p].pc = "attach" /\ SaveProfile(p, proc[p].doc, proc[p].dirty)
      /\ UNCHANGED <<orders, lessons>>
  BY DEF SaveBooking, At
<1> QED BY <1>1, <1>2, OwnCopyEdits DEF Saves, Shape, Typed, ProcTyped

\* The rollback of a private order touches no document.
LEMMA DeletePrivateOrderEffect ==
  ASSUME Shape, NEW p \in Procs, DeletePrivateOrder(p)
  PROVE  Typed' /\ Quiet(p)
<1>1. ProcTyped' /\ Follows(p) /\ proc'[p].doc = NoDoc /\ p \notin current
  BY FinishStep, NotHolding DEF DeletePrivateOrder, At, Holding
<1>2. orders' \in [Orders -> [status : OrderStatus, paid : BOOLEAN, charged : BOOLEAN]]
  BY DEF DeletePrivateOrder, Shape, Typed, OrderStatus
<1> QED BY <1>1, <1>2 DEF DeletePrivateOrder, Shape, Typed, ProcTyped, Quiet

\* The steps of createOrder and createPrivateOrder, together.
LEMMA OrderStepEffect ==
  ASSUME Shape, NEW p \in Procs, OrderStep(p)
  PROVE  Typed' /\ Effect(p)
<1>1. CASE \E o \in Orders : CreateOrder(p, o) \/ StartPrivateOrder(p, o)
  BY <1>1, CreateOrderEffect, StartPrivateOrderEffect DEF Effect
<1>2. CASE CreatePrivateOrder(p)
  BY <1>2, CreatePrivateOrderEffect DEF Effect
<1>3. CASE CreatePrivateOrderFails(p)
  BY <1>3, ThrowQuiet DEF CreatePrivateOrderFails, Effect
<1>4. CASE AttachSlot(p)
  BY <1>4, AttachSlotEffect DEF Effect
<1>5. CASE AttachFails(p)
  BY <1>5, FailBookingEffect DEF AttachFails, Effect
<1>6. CASE SaveBooking(p)
  BY <1>6, SaveBookingEffect DEF Effect
<1>7. CASE SaveBookingFails(p)
  BY <1>7, FailBookingEffect DEF SaveBookingFails, Effect
<1>8. CASE DeletePrivateOrder(p)
  BY <1>8, DeletePrivateOrderEffect DEF Effect
<1> QED BY <1>1, <1>2, <1>3, <1>4, <1>5, <1>6, <1>7, <1>8 DEF OrderStep

-----------------------------------------------------------------------------
(* The webhooks *)

\* The ranges read from an order's lessons have the type of `want`.
LEMMA RangesOfType ==
  ASSUME Shape, NEW o \in Orders
  PROVE  RangesOf(o) \in [Lessons -> Requests \cup {NoRange}]
BY DEF Shape, Typed, RangesOf, LessonDocs

OrderDocs == [status : OrderStatus, paid : BOOLEAN, charged : BOOLEAN]

\* Recording the charge writes the payment only.
LEMMA RecordChargeEffect ==
  ASSUME Shape, NEW p \in Procs, NEW o \in Orders, RecordCharge(p, o)
  PROVE  Typed' /\ Quiet(p)
<1> DEFINE x == [Idle EXCEPT !.pc = "lock", !.handler = "handlePublicOrderSuccess", !.order = o]
<1>1. /\ proc[p].pc = "idle" /\ ByStripe # {}
      /\ proc' = [proc EXCEPT ![p] = x]
      /\ UNCHANGED <<slots, current, lessons>>
  BY DEF RecordCharge, Start
<1>2. FieldsType(x) /\ x.doc = NoDoc
  BY IdleFields, IdleType DEF FieldsType
<1>3. orders' \in [Orders -> OrderDocs]
  BY DEF RecordCharge, Shape, Typed, OrderDocs
<1> HIDE DEF x
<1>4. ProcTyped' /\ Quiet(p)
  BY <1>1, <1>2, StartQuiet
<1> QED BY <1>1, <1>3, <1>4 DEF ProcTyped, Shape, Typed, OrderDocs

\* The atomic lock of the webhook writes the order only.
LEMMA LockOrderEffect ==
  ASSUME Shape, NEW p \in Procs, LockOrder(p)
  PROVE  Typed' /\ Quiet(p)
<1>1. /\ UNCHANGED <<slots, current, lessons>> /\ p \notin current /\ proc[p].order \in Orders
  BY NotHolding, FieldsOfProc DEF LockOrder, At, Holding, FieldsType
<1>2. PICK pc \in {"load", "reload"} :
        proc' = [proc EXCEPT ![p].pc = pc, ![p].want = RangesOf(proc[p].order),
                             ![p].todo = LessonsOf(proc[p].order)]
  BY DEF LockOrder
<1>3. /\ RangesOf(proc[p].order) \in [Lessons -> Requests \cup {NoRange}]
      /\ LessonsOf(proc[p].order) \subseteq Lessons
  BY <1>1, RangesOfType DEF LessonsOf
<1>4. /\ DOMAIN proc' = Procs /\ \A q \in Procs \ {p} : proc'[q] = proc[q]
      /\ FieldsType(proc'[p]) /\ proc'[p].handler = proc[p].handler
      /\ proc'[p].doc = proc[p].doc
  BY <1>1, <1>2, <1>3, FieldsOfProc DEF FieldsType
<1>5. orders' \in [Orders -> OrderDocs]
  BY <1>1 DEF LockOrder, Shape, Typed, OrderDocs, OrderStatus
<1> QED BY <1>1, <1>4, <1>5 DEF Shape, Typed, OrderDocs, Quiet, Follows

\* A failed payment or a refund writes the order, then loads the profile.
LEMMA UndoOrderEffect ==
  ASSUME Shape, NEW p \in Procs, NEW o \in Orders, UndoOrder(p, o)
  PROVE  Typed' /\ Quiet(p)
<1> DEFINE x == [Idle EXCEPT !.pc = "load", !.handler = "unlockSlots", !.order = o]
<1>1. /\ proc[p].pc = "idle" /\ proc' = [proc EXCEPT ![p] = x]
      /\ UNCHANGED <<slots, current, lessons>>
  BY DEF UndoOrder, Start
<1>2. FieldsType(x) /\ x.doc = NoDoc /\ x.handler = "unlockSlots"
  BY IdleFields, IdleType DEF FieldsType
<1>3. PICK status \in {"CANCELLED", "REFUNDED"} : orders' = [orders EXCEPT ![o].status = status]
  BY DEF UndoOrder
<1>4. orders' \in [Orders -> OrderDocs]
  BY <1>3 DEF Shape, Typed, OrderDocs, OrderStatus
<1> HIDE DEF x
<1>5. ProcTyped' /\ Quiet(p)
  BY <1>1, <1>2, StartQuiet
<1> QED BY <1>1, <1>4, <1>5 DEF ProcTyped, Shape, Typed, OrderDocs

\* Reloading the order when the lock was refused touches no document.
LEMMA ReloadOrderEffect ==
  ASSUME Shape, NEW p \in Procs, ReloadOrder(p)
  PROVE  Typed' /\ Quiet(p)
<1>1. /\ UNCHANGED <<slots, current, orders, lessons>> /\ p \notin current
  BY NotHolding DEF ReloadOrder, At, Holding
<1>2. CASE Finish(p)
  BY <1>1, <1>2, FinishStep DEF Shape, Typed, ProcTyped, Quiet
<1>3. CASE /\ proc[p].order \in Orders
           /\ proc' = [proc EXCEPT ![p].pc = "relock", ![p].want = RangesOf(proc[p].order),
                                   ![p].was = orders[proc[p].order].status]
  <2>1. /\ RangesOf(proc[p].order) \in [Lessons -> Requests \cup {NoRange}]
        /\ orders[proc[p].order].status \in OrderStatus
    BY <1>3, RangesOfType DEF Shape, Typed
  <2>2. /\ DOMAIN proc' = Procs /\ \A q \in Procs \ {p} : proc'[q] = proc[q]
        /\ FieldsType(proc'[p]) /\ proc'[p].handler = proc[p].handler
        /\ proc'[p].doc = proc[p].doc
    BY <1>3, <2>1, FieldsOfProc DEF FieldsType
  <2> QED BY <1>1, <2>2 DEF Shape, Typed, Quiet, Follows
<1>4. proc[p].order \in Orders
  BY FieldsOfProc DEF FieldsType, ReloadOrder, At
<1> QED BY <1>2, <1>3, <1>4 DEF ReloadOrder

\* A handler that moves on, or ends, and has no copy with the stored __v.
LEMMA GotoQuiet ==
  ASSUME Shape, NEW p \in Procs, NEW pc, pc \notin {"lock", "reload"}, Goto(p, pc),
         p \notin current \/ pc \in Holding, UNCHANGED <<slots, current>>
  PROVE  ProcTyped' /\ Quiet(p)
BY GotoStep DEF Quiet

\* The same for a handler that ends.
LEMMA FinishQuiet ==
  ASSUME Shape, NEW p \in Procs, Finish(p), p \notin current, UNCHANGED <<slots, current>>
  PROVE  ProcTyped' /\ Quiet(p)
BY FinishStep DEF Quiet

\* Forcing the lock writes the order only.
LEMMA ForceLockEffect ==
  ASSUME Shape, NEW p \in Procs, ForceLock(p)
  PROVE  Typed' /\ Quiet(p)
<1>1. ProcTyped' /\ Quiet(p)
  BY GotoQuiet, NotHolding DEF ForceLock, At, Holding
<1>2. orders' \in [Orders -> OrderDocs]
  BY DEF ForceLock, Shape, Typed, OrderDocs, OrderStatus, Written
<1> QED BY <1>1, <1>2 DEF ForceLock, ProcTyped, Shape, Typed, OrderDocs

\* The webhook cuts a lesson out of its copy, or skips it.
LEMMA AttachPaidSlotEffect ==
  ASSUME Shape, NEW p \in Procs, AttachPaidSlot(p)
  PROVE  Typed' /\ (Quiet(p) \/ Attaches(p))
<1>0. /\ proc[p].pc = "attach" /\ proc[p].handler = "handlePublicOrderSuccess"
      /\ UNCHANGED <<slots, current, orders, lessons>>
  BY DEF AttachPaidSlot, At
<1>1. PICK l \in Earliest(p) :
        \/ proc' = [proc EXCEPT ![p].todo = @ \ {l}]
        \/ \E s \in OpenFor(proc[p].doc, proc[p].want[l]) :
             proc' = [Attached(p, s, proc[p].want[l], 0) EXCEPT ![p].todo = @ \ {l}]
  BY DEF AttachPaidSlot
<1>2. l \in proc[p].todo
  BY DEF Earliest
<1>3. CASE proc' = [proc EXCEPT ![p].todo = @ \ {l}]
  <2>1. /\ DOMAIN proc' = Procs /\ \A q \in Procs \ {p} : proc'[q] = proc[q]
        /\ FieldsType(proc'[p]) /\ proc'[p].handler = proc[p].handler
        /\ proc'[p].pc = "attach" /\ proc'[p].doc = proc[p].doc
    BY <1>0, <1>3, FieldsOfProc DEF FieldsType
  <2> QED BY <1>0, <2>1 DEF Shape, Typed, Quiet, Follows, Holding
<1>4. ASSUME NEW s \in OpenFor(proc[p].doc, proc[p].want[l]),
             proc' = [Attached(p, s, proc[p].want[l], 0) EXCEPT ![p].todo = @ \ {l}]
      PROVE  Typed' /\ Attaches(p)
  BY <1>0, <1>2, <1>4, AttachEffect
<1> QED BY <1>1, <1>3, <1>4

\* The webhook saves the copy as it stands.
LEMMA SaveAttachedEffect ==
  ASSUME Shape, NEW p \in Procs, SaveAttached(p)
  PROVE  Typed' /\ Saves(p)
<1>1. /\ ProcTyped' /\ Follows(p) /\ proc'[p].doc = proc[p].doc /\ proc'[p].pc = "settle"
  BY GotoStep DEF SaveAttached
<1>2. /\ proc[p].pc = "attach" /\ SaveProfile(p, proc[p].doc, proc[p].dirty)
      /\ UNCHANGED <<orders, lessons>>
  BY DEF SaveAttached, At
<1> QED BY <1>1, <1>2, OwnCopyEdits DEF Saves, Shape, Typed, ProcTyped

\* A save refused for its __v leads to the rollback.
LEMMA SaveAttachedFailsEffect ==
  ASSUME Shape, NEW p \in Procs, SaveAttachedFails(p)
  PROVE  Typed' /\ Quiet(p)
<1>1. ProcTyped' /\ Quiet(p)
  BY GotoQuiet DEF SaveAttachedFails, VersionError
<1> QED BY <1>1 DEF SaveAttachedFails, ProcTyped, Shape, Typed

\* The ends of the webhook: a status is written, or the rollback awaited.
LEMMA SettleEffect ==
  ASSUME Shape, NEW p \in Procs,
         ConfirmOrder(p) \/ WalletCreditFails(p) \/ RollbackOrder(p)
  PROVE  Typed' /\ Quiet(p)
<1>1. p \notin current
  BY NotHolding DEF ConfirmOrder, WalletCreditFails, RollbackOrder, At, Holding
<1>2. ProcTyped' /\ Quiet(p)
  BY <1>1, GotoQuiet, FinishQuiet DEF ConfirmOrder, WalletCreditFails, RollbackOrder
<1>3. orders' \in [Orders -> OrderDocs]
  BY DEF ConfirmOrder, WalletCreditFails, RollbackOrder, Shape, Typed, OrderDocs, OrderStatus
<1>4. lessons' = lessons
  BY DEF ConfirmOrder, WalletCreditFails, RollbackOrder
<1> QED BY <1>2, <1>3, <1>4 DEF ProcTyped, Shape, Typed, OrderDocs

\* A save of edited fields, or the VersionError that the handler logs.
LEMMA SaveOrErrorEffect ==
  ASSUME Shape, NEW p \in Procs, NEW edited, Edits(p, edited, {}), proc[p].pc = "loaded",
         SaveProfile(p, edited, {}) \/ VersionError(p, edited, {}),
         Finish(p), UNCHANGED <<orders, lessons>>
  PROVE  Typed' /\ (Quiet(p) \/ Saves(p))
<1>1. ProcTyped' /\ Follows(p) /\ proc'[p].doc = NoDoc /\ proc'[p].pc = "idle"
  BY FinishStep
<1>2. Typed'
  BY <1>1 DEF ProcTyped, Shape, Typed
<1>3. CASE SaveProfile(p, edited, {})
  BY <1>1, <1>2, <1>3 DEF Saves
<1>4. CASE VersionError(p, edited, {})
  BY <1>1, <1>2, <1>4 DEF VersionError, Quiet
<1> QED BY <1>3, <1>4

\* unlockSlots drops the bookings of its order, and no others.
LEMMA UnlockSlotsEffect ==
  ASSUME Shape, NEW p \in Procs, UnlockSlots(p)
  PROVE  Typed' /\ (Quiet(p) \/ Saves(p))
<1> DEFINE edited == ReleaseOrder(proc[p].doc, proc[p].order)
<1>1. /\ At(p, "loaded", {"unlockSlots"})
      /\ SaveProfile(p, edited, {}) \/ VersionError(p, edited, {})
      /\ Finish(p) /\ UNCHANGED <<orders, lessons>>
  BY DEF UnlockSlots
<1>2. /\ SameRanges(proc[p].doc, edited)
      /\ \A r \in DOMAIN proc[p].doc :
           IF proc[p].doc[r].by = proc[p].order THEN edited[r].by = NoOrder
           ELSE edited[r] = proc[p].doc[r]
  BY FieldsOfProc, ReleaseOrderDoc
<1> HIDE DEF edited
<1>3. Edits(p, edited, {})
  BY <1>1, <1>2 DEF Edits, SameRanges, Drops, Disjoint
<1> QED BY <1>1, <1>3, SaveOrErrorEffect DEF At

\* The steps of the webhooks, together.
LEMMA WebhookStepEffect ==
  ASSUME Shape, NEW p \in Procs, WebhookStep(p)
  PROVE  Typed' /\ Effect(p)
<1>1. CASE \E o \in Orders : RecordCharge(p, o) \/ UndoOrder(p, o)
  BY <1>1, RecordChargeEffect, UndoOrderEffect DEF Effect
<1>2. CASE LockOrder(p) \/ ReloadOrder(p) \/ ForceLock(p)
  BY <1>2, LockOrderEffect, ReloadOrderEffect, ForceLockEffect DEF Effect
<1>3. CASE AttachPaidSlot(p)
  BY <1>3, AttachPaidSlotEffect DEF Effect
<1>4. CASE SaveAttached(p) \/ SaveAttachedFails(p)
  BY <1>4, SaveAttachedEffect, SaveAttachedFailsEffect DEF Effect
<1>5. CASE ConfirmOrder(p) \/ WalletCreditFails(p) \/ RollbackOrder(p)
  BY <1>5, SettleEffect DEF Effect
<1>6. CASE UnlockSlots(p)
  BY <1>6, UnlockSlotsEffect DEF Effect
<1> QED BY <1>1, <1>2, <1>3, <1>4, <1>5, <1>6 DEF WebhookStep

-----------------------------------------------------------------------------
(* Cancellation *)

\* cancelSlot starts by reading the lesson.
LEMMA StartCancelSlotEffect ==
  ASSUME Shape, NEW p \in Procs, NEW l \in Lessons, StartCancelSlot(p, l)
  PROVE  Typed' /\ Quiet(p)
<1> DEFINE x == [Idle EXCEPT !.pc = "save", !.handler = "cancelSlot", !.order = OrderOf[l],
                             !.lesson = l, !.seen = lessons[l]]
<1>1. /\ proc[p].pc = "idle" /\ proc' = [proc EXCEPT ![p] = x]
      /\ UNCHANGED <<slots, current, orders, lessons>>
  BY DEF StartCancelSlot, Start
<1>2. FieldsType(x) /\ x.doc = NoDoc /\ x.handler = "cancelSlot"
  BY IdleFields, IdleType, LessonsAssumption DEF FieldsType, Shape, Typed
<1> HIDE DEF x
<1>3. ProcTyped' /\ Quiet(p)
  BY <1>1, <1>2, StartQuiet
<1> QED BY <1>1, <1>3 DEF ProcTyped, Shape, Typed

\* cancelPrivateOrder writes the order, then frees its bookings.
LEMMA CancelPrivateOrderEffect ==
  ASSUME Shape, NEW p \in Procs, NEW o \in Orders, CancelPrivateOrder(p, o)
  PROVE  Typed' /\ Quiet(p)
<1> DEFINE x == [Idle EXCEPT !.pc = "free", !.handler = "cancelPrivateOrder", !.order = o]
<1>1. /\ proc[p].pc = "idle" /\ proc' = [proc EXCEPT ![p] = x]
      /\ UNCHANGED <<slots, current, lessons>>
  BY DEF CancelPrivateOrder, Start
<1>2. FieldsType(x) /\ x.doc = NoDoc /\ x.handler = "cancelPrivateOrder"
  BY IdleFields, IdleType DEF FieldsType
<1>3. orders' \in [Orders -> OrderDocs]
  BY DEF CancelPrivateOrder, Shape, Typed, OrderDocs, OrderStatus
<1> HIDE DEF x
<1>4. ProcTyped' /\ Quiet(p)
  BY <1>1, <1>2, StartQuiet
<1> QED BY <1>1, <1>3, <1>4 DEF ProcTyped, Shape, Typed, OrderDocs

\* The CANCELLED status is written to the lesson only.
LEMMA SaveCancelledEffect ==
  ASSUME Shape, NEW p \in Procs, SaveCancelled(p)
  PROVE  Typed' /\ Quiet(p)
<1>1. ProcTyped' /\ Quiet(p)
  BY GotoQuiet, NotHolding DEF SaveCancelled, At, Holding
<1>2. lessons' \in [Lessons -> LessonDocs]
  BY DEF SaveCancelled, Shape, Typed, LessonDocs, LessonStatus
<1> QED BY <1>1, <1>2 DEF SaveCancelled, ProcTyped, Shape, Typed

\* Both cancellations then free ranges in the store directly.
LEMMA FreeEffect ==
  ASSUME Shape, NEW p \in Procs, FreeSlotRange(p) \/ UnlockPrivateOrderSlots(p)
  PROVE  Typed' /\ Frees(p)
<1>1. /\ ProcTyped' /\ Follows(p) /\ proc'[p].doc = NoDoc /\ proc'[p].pc = "idle"
      /\ proc[p].pc = "free" /\ p \notin current
  BY FinishStep, NotHolding DEF FreeSlotRange, UnlockPrivateOrderSlots, At, Holding
<1>2. UNCHANGED <<current, orders, lessons>>
  BY DEF FreeSlotRange, UnlockPrivateOrderSlots
<1> QED BY <1>1, <1>2 DEF FreeSlotRange, UnlockPrivateOrderSlots, Frees, ProcTyped, Shape, Typed

\* The steps of the cancellations, together.
LEMMA CancelStepEffect ==
  ASSUME Shape, NEW p \in Procs, CancelStep(p)
  PROVE  Typed' /\ Effect(p)
<1>1. CASE \E l \in Lessons : StartCancelSlot(p, l)
  BY <1>1, StartCancelSlotEffect DEF Effect
<1>2. CASE \E o \in Orders : CancelPrivateOrder(p, o)
  BY <1>2, CancelPrivateOrderEffect DEF Effect
<1>3. CASE SaveCancelled(p)
  BY <1>3, SaveCancelledEffect DEF Effect
<1>4. CASE FreeSlotRange(p) \/ UnlockPrivateOrderSlots(p)
  BY <1>4, FreeEffect DEF Effect
<1> QED BY <1>1, <1>2, <1>3, <1>4 DEF CancelStep

-----------------------------------------------------------------------------
(* Rescheduling *)

\* Every reschedule starts by reading a lesson.
LEMMA LoadLessonEffect ==
  ASSUME Shape, NEW p \in Procs, proc[p].pc = "idle", NEW l \in Lessons,
         NEW handler \in {"moveSlot", "proposeSlot", "ACCEPTED", "REJECTED"},
         NEW pc \in {"load", "save"}, NEW new \in Requests \cup {NoRange},
         LoadLesson(p, handler, pc, l, new), UNCHANGED <<slots, current, orders, lessons>>
  PROVE  Typed' /\ Quiet(p)
<1> DEFINE x == [Idle EXCEPT !.pc = pc, !.handler = handler, !.order = OrderOf[l],
                             !.lesson = l, !.seen = lessons[l],
                             !.was = orders[OrderOf[l]].status, !.new = new]
<1>1. proc' = [proc EXCEPT ![p] = x]
  BY DEF LoadLesson
<1>2. FieldsType(x) /\ x.doc = NoDoc /\ x.handler = handler
  BY IdleFields, IdleType, LessonsAssumption DEF FieldsType, Shape, Typed
<1> HIDE DEF x
<1>3. ProcTyped' /\ Quiet(p)
  BY <1>1, <1>2, StartQuiet
<1> QED BY <1>3 DEF ProcTyped, Shape, Typed

\* So do a move, a proposal and an answer.
LEMMA StartRescheduleEffect ==
  ASSUME Shape, NEW p \in Procs, NEW l \in Lessons,
         \/ \E new \in Requests : StartMove(p, l, new) \/ StartProposal(p, l, new)
         \/ \E action \in {"ACCEPTED", "REJECTED"} : StartRespond(p, l, action)
  PROVE  Typed' /\ Quiet(p)
<1>1. ASSUME NEW new \in Requests, StartMove(p, l, new)
      PROVE  Typed' /\ Quiet(p)
  BY <1>1, LoadLessonEffect DEF StartMove, Start
<1>2. ASSUME NEW new \in Requests, StartProposal(p, l, new)
      PROVE  Typed' /\ Quiet(p)
  BY <1>2, LoadLessonEffect DEF StartProposal, Start
<1>3. ASSUME NEW action \in {"ACCEPTED", "REJECTED"}, StartRespond(p, l, action)
      PROVE  Typed' /\ Quiet(p)
  <2>1. lessons[l].reschedule.proposed \in Requests \cup {NoRange}
    BY DEF Shape, Typed, LessonDocs, Reschedules
  <2> QED BY <1>3, <2>1, LoadLessonEffect DEF StartRespond, Start
<1> QED BY <1>1, <1>2, <1>3

\* Moving a lesson: the copy without the old booking, cut for the new one.
LEMMA MovedEdits ==
  ASSUME Shape, NEW p \in Procs, At(p, "move", Movers), NEW s \in MoveTargets(p), NEW date
  PROVE  Edits(p, Moved(p, s), {date})
<1> DEFINE doc == proc[p].doc
           unlocked == IF proc[p].handler = "ACCEPTED"
                       THEN UnlockTemporary(doc, proc[p].order) ELSE doc
           freed == ReleaseRange(unlocked, proc[p].seen.range)
           new == proc[p].new
           moved == Split(freed, s, new, proc[p].order, Gap)
<1>1. IsDoc(doc) /\ proc[p].order \in Orders \cup {NoOrder} /\ new \in Requests \cup {NoRange}
  BY FieldsOfProc DEF FieldsType
<1>2. /\ IsDoc(unlocked) /\ DOMAIN unlocked = DOMAIN doc
      /\ \A r \in DOMAIN doc : unlocked[r].by = doc[r].by
  BY <1>1, UnlockTemporaryDoc DEF SameBookings, SameRanges
<1> HIDE DEF unlocked
<1>3. /\ IsDoc(freed) /\ DOMAIN freed = DOMAIN doc
      /\ \A r \in DOMAIN doc \ {proc[p].seen.range} : freed[r].by = doc[r].by
  BY <1>2, ReleaseRangeDoc DEF SameRanges
<1>4. Vacated(p) = freed
  BY DEF Vacated, unlocked
<1> HIDE DEF freed
<1>5. /\ s \in DOMAIN freed /\ Contains(s, new) /\ freed[s].by = NoOrder
      /\ new \in Times /\ new.start < new.end /\ new.start <= new.end
  BY <1>1, <1>3, <1>4, OpenRequest DEF MoveTargets
<1>6. BookingRules(s, new) /\ Gap \in Nat
  BY GapAssumption DEF MoveTargets
<1>7. Moved(p, s) = moved
  BY <1>4 DEF Moved
<1>8. IsDoc(moved)
  BY <1>1, <1>3, <1>5, <1>6, SplitDoc
<1>9. Disjoint(doc) => Disjoint(freed)
  BY <1>3 DEF Disjoint
<1>10. Disjoint(doc) => Disjoint(moved)
  BY <1>1, <1>3, <1>5, <1>6, <1>9, SplitDisjoint
<1>11. Normalized(DOMAIN doc) => Normalized(DOMAIN moved)
  BY <1>1, <1>3, <1>5, <1>6, SplitNormalized
<1>12. ASSUME Disjoint(doc), NEW r \in DOMAIN doc, doc[r].by # NoOrder, r # proc[p].seen.range
       PROVE  r \in DOMAIN moved /\ moved[r].by = doc[r].by
  <2>1. r \in DOMAIN freed /\ freed[r].by = doc[r].by /\ r # s
    BY <1>3, <1>5, <1>12
  <2>2. r \in DOMAIN freed \ {s}
    BY <2>1
  <2>3. Disjoint(freed)
    BY <1>9, <1>12
  <2>4. r \in DOMAIN moved /\ moved[r] = freed[r]
    BY <1>1, <1>3, <1>5, <1>6, <2>2, <2>3, SplitKeeps
  <2> QED BY <2>1, <2>4
<1>13. ASSUME NEW r \in DOMAIN doc, r = proc[p].seen.range
       PROVE  Drops(p, r)
  BY <1>13 DEF Drops
<1> HIDE DEF doc, moved
<1> QED BY <1>7, <1>8, <1>10, <1>11, <1>12, <1>13 DEF Edits, doc

\* A move saves the copy with the booking at its new range.
LEMMA SaveMoveEffect ==
  ASSUME Shape, NEW p \in Procs, SaveMove(p)
  PROVE  Typed' /\ Saves(p)
<1>1. /\ ProcTyped' /\ Follows(p) /\ proc'[p].doc = proc[p].doc /\ proc'[p].pc = "order"
  BY GotoStep DEF SaveMove
<1>2. PICK s \in MoveTargets(p) : SaveProfile(p, Moved(p, s), {proc[p].new.date})
  BY DEF SaveMove
<1>3. At(p, "move", Movers) /\ UNCHANGED <<orders, lessons>>
  BY DEF SaveMove
<1>4. Edits(p, Moved(p, s), {proc[p].new.date})
  BY <1>3, MovedEdits
<1>5. proc'[p].pc # proc[p].pc
  BY <1>1, <1>3 DEF At
<1> QED BY <1>1, <1>2, <1>3, <1>4, <1>5 DEF Saves, Shape, Typed, ProcTyped

\* Writing the modified fields of a lesson keeps its type.
LEMMA WriteLessonType ==
  ASSUME Shape, NEW p \in Procs, NEW range \in Requests \cup {NoRange},
         NEW status \in LessonStatus, NEW reschedule,
         proc[p].lesson \in Lessons => reschedule \in Reschedules,
         WriteLesson(p, range, status, reschedule)
  PROVE  lessons' \in [Lessons -> LessonDocs]
<1>1. ASSUME NEW doc \in LessonDocs, proc[p].lesson \in Lessons
      PROVE  [range      |-> Written(range, proc[p].seen.range, doc.range),
              status     |-> Written(status, proc[p].seen.status, doc.status),
              reschedule |-> reschedule] \in LessonDocs
  BY <1>1 DEF LessonDocs, Written
<1> QED BY <1>1 DEF WriteLesson, Shape, Typed

\* The lesson's writes after the calendar was saved.
LEMMA SaveLessonEffect ==
  ASSUME Shape, NEW p \in Procs,
         SaveMovedLesson(p) \/ SaveAccepted(p) \/ SaveRejected(p) \/ SaveProposal(p)
           \/ ClearReschedule(p)
  PROVE  Typed' /\ Quiet(p)
<1>1. p \notin current
  BY NotHolding DEF SaveMovedLesson, SaveAccepted, SaveRejected, SaveProposal, ClearReschedule,
                    At, Holding
<1>2. ProcTyped' /\ Quiet(p)
  BY <1>1, GotoQuiet, FinishQuiet
     DEF SaveMovedLesson, SaveAccepted, SaveRejected, SaveProposal, ClearReschedule
<1>3. orders' = orders
  BY DEF SaveMovedLesson, SaveAccepted, SaveRejected, SaveProposal, ClearReschedule
<1>4. /\ proc[p].new \in Requests \cup {NoRange}
      /\ proc[p].seen.range \in Requests \cup {NoRange}
  BY FieldsOfProc DEF FieldsType, LessonDocs
<1>5. NoReschedule \in Reschedules
  BY DEF NoReschedule, Reschedules
<1>6. proc[p].lesson \in Lessons =>
        /\ StoredReschedule(p) \in Reschedules
        /\ [StoredReschedule(p) EXCEPT !.status = "ACCEPTED"] \in Reschedules
        /\ [StoredReschedule(p) EXCEPT !.status = "REJECTED"] \in Reschedules
  BY DEF StoredReschedule, Shape, Typed, LessonDocs, Reschedules
<1>7. [status |-> "PENDING", proposed |-> proc[p].new] \in Reschedules
  BY <1>4 DEF Reschedules
<1>8. {"RESCHEDULED", "BOOKED", "PENDING_RESCHEDULE"} \subseteq LessonStatus
  BY DEF LessonStatus
<1>9. lessons' \in [Lessons -> LessonDocs]
  <2>1. CASE SaveMovedLesson(p)
    BY <1>4, <1>5, <1>6, <1>8, <2>1, WriteLessonType DEF SaveMovedLesson, Written
  <2>2. CASE SaveAccepted(p)
    BY <1>4, <1>6, <1>8, <2>2, WriteLessonType DEF SaveAccepted
  <2>3. CASE SaveRejected(p)
    BY <1>4, <1>6, <1>8, <2>3, WriteLessonType DEF SaveRejected
  <2>4. CASE SaveProposal(p)
    BY <1>4, <1>7, <1>8, <2>4, WriteLessonType DEF SaveProposal
  <2>5. CASE ClearReschedule(p)
    BY <1>5, <2>5 DEF ClearReschedule, Shape, Typed, LessonDocs
  <2> QED BY <2>1, <2>2, <2>3, <2>4, <2>5
<1> QED BY <1>2, <1>3, <1>9 DEF ProcTyped, Shape, Typed

\* Locks and unlocks keep the ranges and the bookings.
LEMMA SameBookingsEdits ==
  ASSUME Shape, NEW p \in Procs, NEW edited, SameBookings(proc[p].doc, edited)
  PROVE  Edits(p, edited, {})
BY DEF SameBookings, SameRanges, Edits, Disjoint

\* A rejection saves the copy without the temporary locks, or fails.
LEMMA RejectEffect ==
  ASSUME Shape, NEW p \in Procs, UnlockRejected(p) \/ UnlockRejectedFails(p)
  PROVE  Typed' /\ (Quiet(p) \/ Saves(p))
<1> DEFINE edited == UnlockTemporary(proc[p].doc, proc[p].order)
<1>1. Edits(p, edited, {})
  BY FieldsOfProc, UnlockTemporaryDoc, SameBookingsEdits
<1>2. CASE UnlockRejected(p)
  <2>1. /\ ProcTyped' /\ Follows(p) /\ proc'[p].doc = proc[p].doc /\ proc'[p].pc = "order"
    BY <1>2, GotoStep DEF UnlockRejected
  <2>2. proc[p].pc = "loaded" /\ SaveProfile(p, edited, {}) /\ UNCHANGED <<orders, lessons>>
    BY <1>2 DEF UnlockRejected, At
  <2> HIDE DEF edited
  <2> QED BY <1>1, <2>1, <2>2 DEF Saves, Shape, Typed, ProcTyped
<1>3. CASE UnlockRejectedFails(p)
  <2>1. ProcTyped' /\ Quiet(p)
    BY <1>3, FinishQuiet DEF UnlockRejectedFails, VersionError
  <2> QED BY <1>3, <2>1 DEF UnlockRejectedFails, ProcTyped, Shape, Typed
<1> QED BY <1>2, <1>3

\* A proposal saves the copy with the temporary lock, or fails.
LEMMA SaveLockEffect ==
  ASSUME Shape, NEW p \in Procs, SaveLock(p)
  PROVE  Typed' /\ (Quiet(p) \/ Saves(p))
<1> DEFINE edited == LockTemporarily(proc[p].doc, proc[p].new, proc[p].order)
<1>1. Edits(p, edited, {})
  BY FieldsOfProc, LockTemporarilyDoc, SameBookingsEdits DEF FieldsType
<1>2. /\ proc[p].pc = "loaded" /\ Finish(p) /\ UNCHANGED <<orders, lessons>>
      /\ SaveProfile(p, edited, {}) \/ VersionError(p, edited, {})
  BY DEF SaveLock, At
<1> HIDE DEF edited
<1> QED BY <1>1, <1>2, SaveOrErrorEffect

\* The steps of the reschedules, together.
LEMMA RescheduleStepEffect ==
  ASSUME Shape, NEW p \in Procs, RescheduleStep(p)
  PROVE  Typed' /\ Effect(p)
<1>1. CASE \E l \in Lessons, new \in Requests : StartMove(p, l, new) \/ StartProposal(p, l, new)
  BY <1>1, StartRescheduleEffect DEF Effect
<1>2. CASE \E l \in Lessons, action \in {"ACCEPTED", "REJECTED"} : StartRespond(p, l, action)
  BY <1>2, StartRescheduleEffect DEF Effect
<1>3. CASE ValidateMove(p)
  <2>1. ProcTyped' /\ Quiet(p)
    BY <1>3, GotoQuiet DEF ValidateMove, Holding
  <2> QED BY <1>3, <2>1 DEF ValidateMove, Effect, ProcTyped, Shape, Typed
<1>4. CASE ValidateMoveFails(p) \/ SaveMoveFails(p) \/ SaveLessonFails(p)
  BY <1>4, ThrowQuiet DEF ValidateMoveFails, SaveMoveFails, SaveLessonFails, Effect
<1>5. CASE SaveMove(p)
  BY <1>5, SaveMoveEffect DEF Effect
<1>6. CASE SaveMovedLesson(p) \/ SaveAccepted(p) \/ SaveRejected(p) \/ SaveProposal(p)
           \/ ClearReschedule(p)
  BY <1>6, SaveLessonEffect DEF Effect
<1>7. CASE UnlockRejected(p) \/ UnlockRejectedFails(p)
  BY <1>7, RejectEffect DEF Effect
<1>8. CASE SaveLock(p)
  BY <1>8, SaveLockEffect DEF Effect
<1> QED BY <1>1, <1>2, <1>3, <1>4, <1>5, <1>6, <1>7, <1>8 DEF RescheduleStep

-----------------------------------------------------------------------------
(* The instructor's edits, the cron, and every step *)

\* An edit of the availability, and the cron, start by loading it.
LEMMA StartEditEffect ==
  ASSUME Shape, NEW p \in Procs,
         NEW handler \in {"updateDaySlots", "updateWeek", "releaseExpiredTempLocks"},
         StartEdit(p, handler)
  PROVE  Typed' /\ Quiet(p)
<1> DEFINE x == [Idle EXCEPT !.pc = "load", !.handler = handler]
<1>1. /\ proc[p].pc = "idle" /\ proc' = [proc EXCEPT ![p] = x]
      /\ UNCHANGED <<slots, current, orders, lessons>>
  BY DEF StartEdit, Start
<1>2. FieldsType(x) /\ x.doc = NoDoc /\ x.handler = handler
  BY IdleFields, IdleType DEF FieldsType
<1> HIDE DEF x
<1>3. ProcTyped' /\ Quiet(p)
  BY <1>1, <1>2, StartQuiet
<1> QED BY <1>1, <1>3 DEF ProcTyped, Shape, Typed

\* A day laid out anew around the ranges that are kept on it.
LEMMA RelaidEdits ==
  ASSUME Shape, NEW p \in Procs, NEW days \in SUBSET Dates, NEW layout \in LayoutsOf(days),
         NEW kept \in SUBSET (OnDates(proc[p].doc, days) \cap layout),
         \A r \in OnDates(proc[p].doc, days) : proc[p].doc[r].by # NoOrder => r \in kept,
         NEW dirty, dirty # {}
  PROVE  Edits(p, Relaid(p, days, layout, kept), dirty)
<1> DEFINE doc == proc[p].doc
           new == Relaid(p, days, layout, kept)
<1>1. IsDoc(doc)
  BY FieldsOfProc
<1>2. /\ layout \subseteq Ranges /\ Normalized(layout)
      /\ \A r \in layout : r.date \in days
  BY LayoutsAssumption DEF LayoutsOf
<1>3. DisjointSet(layout)
  BY <1>2, NormalizedDisjoint
<1>4. /\ DOMAIN new = {r \in DOMAIN doc : r.date \notin days} \cup layout
      /\ \A r \in DOMAIN new : new[r] = IF r \in kept \/ r.date \notin days THEN doc[r] ELSE FreeSlot
  BY DEF Relaid, OnDates
<1>5. IsDoc(new)
  <2>1. \A r \in DOMAIN new : r \in kept \/ r.date \notin days => r \in DOMAIN doc
    BY <1>2, <1>4 DEF OnDates
  <2>2. \A r \in DOMAIN new : new[r] \in Meta
    BY <1>1, <1>4, <2>1, MetaOfFree DEF IsDoc
  <2>3. DOMAIN new \subseteq Ranges
    BY <1>1, <1>2, <1>4 DEF IsDoc
  <2>4. new = [r \in DOMAIN new |-> new[r]]
    BY DEF Relaid
  <2> HIDE DEF new
  <2> QED BY <2>2, <2>3, <2>4 DEF IsDoc
<1> HIDE DEF new
<1>6. Disjoint(doc) => Disjoint(new)
  BY <1>2, <1>3, <1>4 DEF Disjoint, DisjointSet, Overlaps
<1>7. Normalized(DOMAIN doc) => Normalized(DOMAIN new)
  BY <1>2, <1>4 DEF Normalized
<1>8. ASSUME NEW r \in DOMAIN doc, doc[r].by # NoOrder
      PROVE  r \in DOMAIN new /\ new[r].by = doc[r].by
  BY <1>4, <1>8 DEF OnDates
<1> QED BY <1>5, <1>6, <1>7, <1>8 DEF Edits, new

\* updateDaySlots and updateWeek save a day laid out anew.
LEMMA LayoutEffect ==
  ASSUME Shape, NEW p \in Procs, SaveDay(p) \/ SaveWeek(p)
  PROVE  Typed' /\ Saves(p)
<1>1. /\ ProcTyped' /\ Follows(p) /\ proc'[p].doc = NoDoc /\ proc'[p].pc = "idle"
  BY FinishStep DEF SaveDay, SaveWeek
<1>2. proc[p].pc = "loaded" /\ UNCHANGED <<orders, lessons>>
  BY DEF SaveDay, SaveWeek, At
<1>3. \E edited, dirty : Edits(p, edited, dirty) /\ SaveProfile(p, edited, dirty)
  <2>1. CASE SaveDay(p)
    <3>1. PICK d \in Dates : \E layout \in LayoutsOf({d}) :
            /\ \A r \in OnDates(proc[p].doc, {d}) : proc[p].doc[r].by = NoOrder
            /\ SaveProfile(p, Relaid(p, {d}, layout, {}), {d})
      BY <2>1 DEF SaveDay
    <3>2. PICK layout \in LayoutsOf({d}) :
            /\ \A r \in OnDates(proc[p].doc, {d}) : proc[p].doc[r].by = NoOrder
            /\ SaveProfile(p, Relaid(p, {d}, layout, {}), {d})
      BY <3>1
    <3>3. Edits(p, Relaid(p, {d}, layout, {}), {d})
      BY <3>2, RelaidEdits
    <3> QED BY <3>2, <3>3
  <2>2. CASE SaveWeek(p)
    <3> DEFINE Held(days) == {r \in OnDates(proc[p].doc, days) : Occupied(proc[p].doc[r])}
    <3>1. PICK week \in Weeks : \E days \in SUBSET week : \E layout \in LayoutsOf(days) :
            /\ Held(days) \subseteq layout
            /\ SaveProfile(p, Relaid(p, days, layout, Held(days)), week)
      BY <2>2, Zenon DEF SaveWeek
    <3>2. PICK days \in SUBSET week : \E layout \in LayoutsOf(days) :
            /\ Held(days) \subseteq layout
            /\ SaveProfile(p, Relaid(p, days, layout, Held(days)), week)
      BY <3>1, Zenon
    <3>3. PICK layout \in LayoutsOf(days) :
            /\ Held(days) \subseteq layout
            /\ SaveProfile(p, Relaid(p, days, layout, Held(days)), week)
      BY <3>2, Zenon
    <3>4. days \in SUBSET Dates /\ week # {}
      BY WeeksAssumption
    <3>5. /\ Held(days) \in SUBSET (OnDates(proc[p].doc, days) \cap layout)
          /\ \A r \in OnDates(proc[p].doc, days) :
               proc[p].doc[r].by # NoOrder => r \in Held(days)
      BY <3>3 DEF Occupied
    <3> HIDE DEF Held
    <3>6. Edits(p, Relaid(p, days, layout, Held(days)), week)
      BY <3>4, <3>5, RelaidEdits
    <3> QED BY <3>3, <3>6
  <2> QED BY <2>1, <2>2
<1> QED BY <1>1, <1>2, <1>3 DEF Saves, ProcTyped, Shape, Typed

\* The cron saves the copy without the expired locks, or fails.
LEMMA SaveReleasedEffect ==
  ASSUME Shape, NEW p \in Procs, NEW expired, SaveReleased(p, expired)
  PROVE  Typed' /\ (Quiet(p) \/ Saves(p))
<1> DEFINE edited == ReleaseExpired(proc[p].doc, expired)
<1>1. Edits(p, edited, {})
  BY FieldsOfProc, ReleaseExpiredDoc, SameBookingsEdits
<1>2. /\ proc[p].pc = "loaded" /\ Finish(p) /\ UNCHANGED <<orders, lessons>>
      /\ SaveProfile(p, edited, {}) \/ VersionError(p, edited, {})
  BY DEF SaveReleased, At
<1> HIDE DEF edited
<1> QED BY <1>1, <1>2, SaveOrErrorEffect

\* The steps of the edits and of the cron, together.
LEMMA EditStepEffect ==
  ASSUME Shape, NEW p \in Procs, EditStep(p)
  PROVE  Typed' /\ Effect(p)
<1>1. CASE \E handler \in {"updateDaySlots", "updateWeek", "releaseExpiredTempLocks"} :
             StartEdit(p, handler)
  BY <1>1, StartEditEffect DEF Effect
<1>2. CASE SaveDay(p) \/ SaveWeek(p)
  BY <1>2, LayoutEffect DEF Effect
<1>3. CASE EditFails(p)
  BY <1>3, ThrowQuiet DEF EditFails, Effect
<1>4. CASE \E expired \in {{}, DOMAIN proc[p].doc} : SaveReleased(p, expired)
  BY <1>4, SaveReleasedEffect DEF Effect
<1> QED BY <1>1, <1>2, <1>3, <1>4 DEF EditStep

\* Loading copies the stored calendar, at the stored __v.
LEMMA LoadProfileEffect ==
  ASSUME Shape, NEW p \in Procs, LoadProfile(p)
  PROVE  Typed' /\ Loads(p)
<1>1. PICK pc \in {"attach", "loaded"} :
        proc' = [proc EXCEPT ![p].doc = slots, ![p].dirty = {}, ![p].pc = pc]
  BY DEF LoadProfile
<1>2. /\ DOMAIN proc' = Procs /\ \A q \in Procs \ {p} : proc'[q] = proc[q]
      /\ FieldsType(proc'[p]) /\ proc'[p].handler = proc[p].handler
      /\ proc'[p].doc = slots /\ proc'[p].pc \in Holding
  BY <1>1, FieldsOfProc DEF FieldsType, Holding
<1> QED BY <1>2 DEF LoadProfile, Loads, Follows, Shape, Typed

\* Every step of a process has one of the five effects.
LEMMA StepEffect ==
  ASSUME Shape, NEW p \in Procs, Step(p)
  PROVE  Typed' /\ Effect(p)
<1>1. CASE LoadProfile(p)
  BY <1>1, LoadProfileEffect DEF Effect
<1>2. CASE Crash(p)
  BY <1>2, ThrowQuiet DEF Crash, Effect
<1> QED BY <1>1, <1>2, OrderStepEffect, WebhookStepEffect, CancelStepEffect,
           RescheduleStepEffect, EditStepEffect DEF Step

-----------------------------------------------------------------------------
(* The invariants *)

\* What a save leaves in the store and which copies stay current.
LEMMA SaveMeans ==
  ASSUME Shape, NEW p \in Procs, NEW edited, NEW dirty, Edits(p, edited, dirty),
         SaveProfile(p, edited, dirty)
  PROVE  /\ current' \subseteq current \ {p}
         /\ \/ slots' = slots
            \/ /\ p \in current
               /\ slots' = Save(slots, proc[p].doc, edited, dirty)
               /\ dirty # {} => current' = {}
         /\ IsDoc(slots') /\ IsDoc(edited)
<1>1. IsDoc(slots) /\ IsDoc(proc[p].doc) /\ IsDoc(edited)
  BY DEF Shape, Edits
<1>2. /\ current' \subseteq current \ {p}
      /\ \/ slots' = slots
         \/ /\ p \in current
            /\ slots' = Save(slots, proc[p].doc, edited, dirty)
            /\ dirty # {} => current' = {}
  BY DEF SaveProfile
<1>3. IsDoc(Save(slots, proc[p].doc, edited, dirty))
  BY <1>1, SaveDoc
<1>4. IsDoc(slots')
  BY <1>1, <1>2, <1>3
<1> QED BY <1>1, <1>2, <1>4

\* The initial states have the shape, and normalised ranges.
LEMMA ShapeInit ==
  ASSUME Init
  PROVE  Shape /\ Disjoint(slots) /\ Normalized(DOMAIN slots)
<1>1. PICK L \in Layouts : Normalized(L) /\ slots = [r \in L |-> FreeSlot]
  BY DEF Init
<1>2. L \subseteq Ranges
  BY LayoutsAssumption
<1>3. IsDoc(slots) /\ DOMAIN slots = L
  BY <1>1, <1>2, MetaOfFree DEF IsDoc
<1>4. Disjoint(slots) /\ Normalized(DOMAIN slots)
  BY <1>1, <1>2, <1>3, NormalizedDisjoint DEF Disjoint
<1>5. Typed
  BY NoLessonType, IdleType DEF Init, Typed, OrderStatus
<1>6. \A p \in Procs : IsDoc(proc[p].doc)
  BY IdleFields, NoDocDoc DEF Init
<1> QED BY <1>3, <1>4, <1>5, <1>6 DEF Shape, Init

\* A step keeps the shape of the state.
LEMMA ShapeStep ==
  ASSUME Shape, NEW p \in Procs, Typed', Effect(p)
  PROVE  Shape'
<1>1. IsDoc(slots) /\ IsDoc(proc[p].doc) /\ DOMAIN proc = Procs /\ IsDoc(NoDoc)
  BY NoDocDoc DEF Shape, Typed
<1>2. SUFFICES /\ current' \subseteq Procs /\ IsDoc(slots') /\ IsDoc(proc'[p].doc)
               /\ \A q \in Procs \ {p} : proc'[q] = proc[q]
               /\ \A q \in current' : q = p => proc'[q].pc \in Holding
               /\ current' \subseteq current \cup {p}
  BY DEF Shape
<1>3. CASE Quiet(p)
  BY <1>1, <1>3 DEF Quiet, Follows, Shape
<1>4. CASE Loads(p)
  BY <1>1, <1>4 DEF Loads, Follows, Shape
<1>5. CASE Attaches(p)
  <2>1. PICK s \in Ranges, req \in Requests \cup {NoRange}, gap \in Nat : Cuts(p, s, req, gap)
    BY <1>5 DEF Attaches
  <2>2. proc[p].order \in Orders \cup {NoOrder}
    BY FieldsOfProc DEF FieldsType
  <2>3. IsDoc(proc'[p].doc)
    BY <1>1, <2>1, <2>2, OpenRequest, SplitDoc DEF Cuts
  <2> QED BY <1>1, <1>5, <2>3 DEF Attaches, Follows, Shape
<1>6. CASE Saves(p)
  <2>1. current' \subseteq current \ {p} /\ IsDoc(slots')
    BY <1>6, SaveMeans DEF Saves
  <2> QED BY <1>1, <1>6, <2>1 DEF Saves, Follows, Shape
<1>7. CASE Frees(p)
  <2>1. IsDoc(slots')
    BY <1>1, <1>7, ReleaseRangeDoc, ReleaseOrderDoc DEF Frees, SameRanges
  <2> QED BY <1>1, <1>7, <2>1 DEF Frees, Follows, Shape
<1> QED BY <1>3, <1>4, <1>5, <1>6, <1>7 DEF Effect

\* The events of private orders, and stuttering, touch no document.
LEMMA OtherSteps ==
  ASSUME Shape, (\E o \in Orders : PrivatePayment(o)) \/ UNCHANGED vars
  PROVE  Shape' /\ UNCHANGED <<slots, current, proc>>
<1>1. UNCHANGED <<slots, current, lessons, proc>>
  BY DEF PrivatePayment, vars
<1>2. CASE UNCHANGED vars
  BY <1>2 DEF vars, Shape, Typed
<1>3. ASSUME NEW o \in Orders, PrivatePayment(o)
      PROVE  orders' \in [Orders -> OrderDocs]
  BY <1>3 DEF PrivatePayment, Shape, Typed, OrderDocs, OrderStatus
<1> QED BY <1>1, <1>2, <1>3 DEF Shape, Typed, OrderDocs

\* Every step keeps the shape, and is an effect or touches no document.
LEMMA NextSteps ==
  ASSUME Shape, [Next]_vars
  PROVE  /\ Shape'
         /\ (\E p \in Procs : Effect(p)) \/ UNCHANGED <<slots, current, proc>>
<1>1. ASSUME NEW p \in Procs, Step(p)
      PROVE  Shape' /\ Effect(p)
  BY <1>1, StepEffect, ShapeStep
<1> QED BY <1>1, OtherSteps DEF Next

\* Every value keeps its type, for any number of orders and processes.
THEOREM TypeCorrect == Spec => []TypeOK
<1>1. Init => Shape
  BY ShapeInit
<1>2. Shape /\ [Next]_vars => Shape'
  BY NextSteps
<1>3. Shape => TypeOK
  BY DEF Shape, Typed, TypeOK
<1> QED BY <1>1, <1>2, <1>3, PTL DEF Spec

-----------------------------------------------------------------------------
(* No range overlaps another *)

\* The copies are disjoint too: a save carries whole dates of a copy.
AllDisjoint == Shape /\ Disjoint(slots) /\ \A p \in Procs : Disjoint(proc[p].doc)

\* Each effect keeps the ranges of the store and of the copies disjoint.
LEMMA DisjointStep ==
  ASSUME AllDisjoint, NEW p \in Procs, Effect(p)
  PROVE  Disjoint(slots') /\ \A q \in Procs : Disjoint(proc'[q].doc)
<1>1. /\ Shape /\ Disjoint(slots) /\ Disjoint(proc[p].doc) /\ Disjoint(NoDoc)
      /\ IsDoc(slots) /\ IsDoc(proc[p].doc)
  BY NoDocDoc DEF AllDisjoint, Shape
<1>2. \A q \in Procs \ {p} : Disjoint(proc'[q].doc)
  BY DEF AllDisjoint, Effect, Quiet, Loads, Attaches, Saves, Frees, Follows
<1>3. SUFFICES Disjoint(slots') /\ Disjoint(proc'[p].doc)
  BY <1>2
<1>4. CASE Quiet(p) \/ Loads(p)
  BY <1>1, <1>4 DEF Quiet, Loads
<1>5. CASE Attaches(p)
  <2>1. PICK s \in Ranges, req \in Requests \cup {NoRange}, gap \in Nat : Cuts(p, s, req, gap)
    BY <1>5 DEF Attaches
  <2>2. proc[p].order \in Orders \cup {NoOrder}
    BY <1>1, FieldsOfProc DEF FieldsType
  <2>3. Disjoint(proc'[p].doc)
    BY <1>1, <2>1, <2>2, OpenRequest, SplitDisjoint DEF Cuts
  <2> QED BY <1>1, <1>5, <2>3 DEF Attaches
<1>6. CASE Saves(p)
  <2>1. PICK edited, dirty : Edits(p, edited, dirty) /\ SaveProfile(p, edited, dirty)
    BY <1>6 DEF Saves
  <2>2. IsDoc(edited) /\ Disjoint(edited)
    BY <1>1, <2>1 DEF Edits
  <2>3. slots' = slots \/ slots' = Save(slots, proc[p].doc, edited, dirty)
    BY <1>1, <2>1, SaveMeans
  <2>4. Disjoint(Save(slots, proc[p].doc, edited, dirty))
    BY <1>1, <2>2, SaveDisjoint
  <2> QED BY <1>1, <1>6, <2>3, <2>4 DEF Saves
<1>7. CASE Frees(p)
  <2>1. DOMAIN slots' = DOMAIN slots
    BY <1>1, <1>7, ReleaseRangeDoc, ReleaseOrderDoc DEF Frees, SameRanges
  <2> QED BY <1>1, <1>7, <2>1 DEF Frees, Disjoint
<1> QED BY <1>4, <1>5, <1>6, <1>7 DEF Effect

\* AllDisjoint is an inductive invariant.
LEMMA AllDisjointInductive ==
  /\ Init => AllDisjoint
  /\ AllDisjoint /\ [Next]_vars => AllDisjoint'
<1>1. Init => AllDisjoint
  BY ShapeInit, IdleFields, NoDocDoc DEF Init, AllDisjoint
<1>2. ASSUME AllDisjoint, [Next]_vars
      PROVE  AllDisjoint'
  <2>1. /\ Shape'
        /\ (\E p \in Procs : Effect(p)) \/ UNCHANGED <<slots, current, proc>>
    BY <1>2, NextSteps DEF AllDisjoint
  <2> QED BY <1>2, <2>1, DisjointStep DEF AllDisjoint
<1> QED BY <1>1, <1>2

\* No two ranges of a day overlap, whatever the handlers interleave, with or
\* without crashes, and whatever was saved since a copy was loaded.
THEOREM RangesStayDisjoint == Spec => []RangesDisjoint
<1>1. AllDisjoint => RangesDisjoint
  BY DEF AllDisjoint, RangesDisjoint
<1> QED BY <1>1, AllDisjointInductive, PTL DEF Spec

-----------------------------------------------------------------------------
(* Long enough ranges, far enough apart *)

\* A booking through Stripe leaves no gap, so no execution of the webhook.
AllSpaced ==
  /\ Shape
  /\ Normalized(DOMAIN slots)
  /\ \A p \in Procs : /\ Normalized(DOMAIN proc[p].doc)
                      /\ proc[p].handler # "handlePublicOrderSuccess"

\* Each effect keeps the spacing of the store and of the copies.
LEMMA SpacedStep ==
  ASSUME AllSpaced, ByStripe = {}, NEW p \in Procs, Effect(p)
  PROVE  /\ Normalized(DOMAIN slots')
         /\ \A q \in Procs : /\ Normalized(DOMAIN proc'[q].doc)
                             /\ proc'[q].handler # "handlePublicOrderSuccess"
<1>1. /\ Shape /\ Normalized(DOMAIN slots) /\ Normalized(DOMAIN proc[p].doc)
      /\ Normalized(DOMAIN NoDoc) /\ IsDoc(slots) /\ IsDoc(proc[p].doc)
      /\ proc[p].handler # "handlePublicOrderSuccess"
  BY NoDocDoc DEF AllSpaced, Shape
<1>2. Follows(p)
  BY DEF Effect, Quiet, Loads, Attaches, Saves, Frees
<1>3. \A q \in Procs \ {p} : proc'[q] = proc[q]
  BY <1>2 DEF Follows
<1>4. proc'[p].handler # "handlePublicOrderSuccess"
  BY <1>1, <1>2 DEF Follows
<1>5. SUFFICES Normalized(DOMAIN slots') /\ Normalized(DOMAIN proc'[p].doc)
  BY <1>3, <1>4 DEF AllSpaced
<1>6. CASE Quiet(p) \/ Loads(p)
  BY <1>1, <1>6 DEF Quiet, Loads
<1>7. CASE Attaches(p)
  <2>1. PICK s \in Ranges, req \in Requests \cup {NoRange}, gap \in Nat : Cuts(p, s, req, gap)
    BY <1>7 DEF Attaches
  <2>2. proc[p].order \in Orders \cup {NoOrder}
    BY <1>1, FieldsOfProc DEF FieldsType
  <2>3. gap = Gap /\ BookingRules(s, req)
    BY <1>1, <2>1 DEF Cuts
  <2>4. /\ s \in DOMAIN proc[p].doc /\ req \in Times /\ Contains(s, req)
        /\ req.start <= req.end
    BY <1>1, <2>1, OpenRequest DEF Cuts
  <2>5. Normalized(DOMAIN Split(proc[p].doc, s, req, proc[p].order, Gap))
    BY <1>1, <2>2, <2>3, <2>4, SplitNormalized
  <2>6. proc'[p].doc = Split(proc[p].doc, s, req, proc[p].order, Gap)
    BY <2>1, <2>3 DEF Cuts
  <2> QED BY <1>1, <1>7, <2>5, <2>6 DEF Attaches
<1>8. CASE Saves(p)
  <2>1. PICK edited, dirty : Edits(p, edited, dirty) /\ SaveProfile(p, edited, dirty)
    BY <1>8 DEF Saves
  <2>2. IsDoc(edited) /\ Normalized(DOMAIN edited)
    BY <1>1, <2>1 DEF Edits
  <2>3. slots' = slots \/ slots' = Save(slots, proc[p].doc, edited, dirty)
    BY <1>1, <2>1, SaveMeans
  <2>4. Normalized(DOMAIN Save(slots, proc[p].doc, edited, dirty))
    BY <1>1, <2>2, SaveNormalized
  <2> QED BY <1>1, <1>8, <2>3, <2>4 DEF Saves
<1>9. CASE Frees(p)
  <2>1. DOMAIN slots' = DOMAIN slots
    BY <1>1, <1>9, ReleaseRangeDoc, ReleaseOrderDoc DEF Frees, SameRanges
  <2> QED BY <1>1, <1>9, <2>1 DEF Frees
<1> QED BY <1>6, <1>7, <1>8, <1>9 DEF Effect

\* When no order is paid through Stripe, every range stays at least MinSlot
\* long and Gap away from the others: validateBookingRules refuses the
\* requests whose cut would leave a shorter range, edits are normalised, and
\* a save mixes whole dates, each of which is well spaced.
THEOREM WellSpacedAlways ==
  ASSUME ByStripe = {}
  PROVE  Spec => []WellSpaced
<1>1. Init => AllSpaced
  BY ShapeInit, IdleFields, NoDocDoc DEF Init, AllSpaced
<1>2. AllSpaced /\ [Next]_vars => AllSpaced'
  <2>1. SUFFICES ASSUME AllSpaced, [Next]_vars
                 PROVE  AllSpaced'
    OBVIOUS
  <2>2. /\ Shape'
        /\ (\E p \in Procs : Effect(p)) \/ UNCHANGED <<slots, current, proc>>
    BY <2>1, NextSteps DEF AllSpaced
  <2>3. CASE UNCHANGED <<slots, current, proc>>
    BY <2>1, <2>2, <2>3 DEF AllSpaced
  <2>4. ASSUME NEW p \in Procs, Effect(p)
        PROVE  AllSpaced'
    BY <2>1, <2>2, <2>4, SpacedStep DEF AllSpaced
  <2> QED BY <2>2, <2>3, <2>4
<1>3. AllSpaced => WellSpaced
  BY DEF AllSpaced, WellSpaced
<1> QED BY <1>1, <1>2, <1>3, PTL DEF Spec

-----------------------------------------------------------------------------
(* Bookings disappear only when they are released *)

\* A copy with the stored __v holds every stored booking: a booking is stored
\* by replacing an array, which makes every other copy stale.
Knows(p) ==
  \A r \in DOMAIN slots : slots[r].by # NoOrder =>
    r \in DOMAIN proc[p].doc /\ proc[p].doc[r].by = slots[r].by
AllKnown == AllDisjoint /\ \A p \in current : Knows(p)

\* A save keeps the bookings its copy knows and does not drop, and a save of
\* single fields adds none.
LEMMA SaveKeeps ==
  ASSUME AllKnown, NEW p \in current, NEW edited, NEW dirty, Edits(p, edited, dirty)
  PROVE  LET saved == Save(slots, proc[p].doc, edited, dirty)
         IN  /\ \A r \in DOMAIN slots : slots[r].by # NoOrder =>
                  \/ r \in DOMAIN saved /\ saved[r].by = slots[r].by
                  \/ Drops(p, r)
             /\ dirty = {} => \A r \in DOMAIN saved : saved[r].by # NoOrder =>
                  r \in DOMAIN slots /\ saved[r].by = slots[r].by
<1> DEFINE saved == Save(slots, proc[p].doc, edited, dirty)
<1>1. /\ p \in Procs /\ Knows(p) /\ Disjoint(proc[p].doc)
      /\ IsDoc(slots) /\ IsDoc(proc[p].doc) /\ IsDoc(edited)
  BY DEF AllKnown, AllDisjoint, Shape, Edits
<1>2. DOMAIN saved = SavedRanges(slots, edited, dirty)
  BY <1>1, SaveDoc
<1>3. \A r \in DOMAIN saved :
        saved[r] = IF r.date \in dirty THEN Stored(edited[r])
                   ELSE IF r \in DOMAIN proc[p].doc \cap DOMAIN edited
                   THEN WriteFields(slots[r], proc[p].doc[r], edited[r]) ELSE slots[r]
  BY <1>2 DEF Save, SavedRanges
<1>4. \A m, l, e : WriteFields(m, l, e).by = IF e.by # l.by THEN e.by ELSE m.by
  BY DEF WriteFields, Written
<1>5. \A r \in DOMAIN edited : Stored(edited[r]).by = edited[r].by
  BY <1>1, StoredMeta DEF IsDoc
<1> HIDE DEF saved
<1>6. ASSUME NEW r \in DOMAIN slots, slots[r].by # NoOrder, ~Drops(p, r)
      PROVE  r \in DOMAIN saved /\ saved[r].by = slots[r].by
  <2>1. /\ r \in DOMAIN proc[p].doc /\ proc[p].doc[r].by = slots[r].by
        /\ r \in DOMAIN edited /\ edited[r].by = slots[r].by
    BY <1>1, <1>6 DEF Knows, Edits
  <2>2. r \in DOMAIN saved
    BY <1>2, <2>1 DEF SavedRanges
  <2> QED BY <1>3, <1>4, <1>5, <2>1, <2>2
<1>7. ASSUME dirty = {}, NEW r \in DOMAIN saved, saved[r].by # NoOrder
      PROVE  r \in DOMAIN slots /\ saved[r].by = slots[r].by
  <2>1. r \in DOMAIN slots /\ r.date \notin dirty
    BY <1>2, <1>7 DEF SavedRanges
  <2>2. r \in DOMAIN proc[p].doc \cap DOMAIN edited =>
          edited[r].by \in {proc[p].doc[r].by, NoOrder}
    BY <1>7 DEF Edits
  <2> QED BY <1>3, <1>4, <1>7, <2>1, <2>2
<1> QED BY <1>6, <1>7 DEF saved

\* Each effect keeps the copies informed, and the bookings not released.
LEMMA KnownStep ==
  ASSUME AllKnown, NEW p \in Procs, Effect(p)
  PROVE  (\A q \in current' : Knows(q)') /\ KeepsBookings
<1>1. /\ Shape /\ Disjoint(proc[p].doc) /\ IsDoc(slots) /\ IsDoc(proc[p].doc)
      /\ current \subseteq Procs
  BY DEF AllKnown, AllDisjoint, Shape
<1>2. \A q \in Procs \ {p} : proc'[q] = proc[q]
  BY DEF Effect, Quiet, Loads, Attaches, Saves, Frees, Follows
<1>3. \A q \in current : Knows(q)
  BY DEF AllKnown
<1>4. CASE Quiet(p)
  BY <1>1, <1>2, <1>3, <1>4 DEF Quiet, Knows, KeepsBookings
<1>5. CASE Loads(p)
  BY <1>1, <1>2, <1>3, <1>5 DEF Loads, Knows, KeepsBookings
<1>6. CASE Attaches(p)
  <2>1. PICK s \in Ranges, req \in Requests \cup {NoRange}, gap \in Nat : Cuts(p, s, req, gap)
    BY <1>6 DEF Attaches
  <2>2. /\ s \in DOMAIN proc[p].doc /\ proc[p].doc[s].by = NoOrder /\ Contains(s, req)
        /\ req \in Times /\ req.start < req.end
    BY <1>1, <2>1, OpenRequest DEF Cuts
  <2>3. proc[p].order \in Orders \cup {NoOrder}
    BY <1>1, FieldsOfProc DEF FieldsType
  <2>4. \A r \in DOMAIN proc[p].doc : proc[p].doc[r].by # NoOrder =>
          r \in DOMAIN proc'[p].doc /\ proc'[p].doc[r] = proc[p].doc[r]
    BY <1>1, <2>1, <2>2, <2>3, SplitKeeps DEF Cuts
  <2> QED BY <1>1, <1>2, <1>3, <1>6, <2>4 DEF Attaches, Knows, KeepsBookings
<1>7. CASE Saves(p)
  <2>1. PICK edited, dirty : Edits(p, edited, dirty) /\ SaveProfile(p, edited, dirty)
    BY <1>7 DEF Saves
  <2>2. /\ current' \subseteq current \ {p}
        /\ \/ slots' = slots
           \/ /\ p \in current
              /\ slots' = Save(slots, proc[p].doc, edited, dirty)
              /\ dirty # {} => current' = {}
    BY <1>1, <2>1, SaveMeans
  <2>3. CASE slots' = slots
    BY <1>1, <1>2, <1>3, <2>2, <2>3 DEF Knows, KeepsBookings
  <2>4. CASE p \in current /\ slots' = Save(slots, proc[p].doc, edited, dirty)
             /\ (dirty # {} => current' = {})
    <3>1. /\ \A r \in DOMAIN slots : slots[r].by # NoOrder =>
               \/ r \in DOMAIN slots' /\ slots'[r].by = slots[r].by
               \/ Drops(p, r)
          /\ dirty = {} => \A r \in DOMAIN slots' : slots'[r].by # NoOrder =>
               r \in DOMAIN slots /\ slots'[r].by = slots[r].by
      BY <2>1, <2>4, SaveKeeps
    <3>2. \A q \in current' : Knows(q)'
      BY <1>1, <1>2, <1>3, <2>2, <2>4, <3>1 DEF Knows
    <3>3. proc'[p] # proc[p]
      BY <1>7 DEF Saves
    <3>4. \A r \in DOMAIN slots : slots[r].by # NoOrder /\ Drops(p, r) => Releases(p, r)
      BY <1>3, <2>4, <3>3 DEF Drops, Releases, Knows
    <3> QED BY <3>1, <3>2, <3>4 DEF KeepsBookings
  <2> QED BY <2>2, <2>3, <2>4
<1>8. CASE Frees(p)
  <2>1. proc'[p] # proc[p] /\ p \notin current /\ current' = current
    BY <1>8 DEF Frees
  <2>2. /\ DOMAIN slots' = DOMAIN slots
        /\ \A r \in DOMAIN slots : slots'[r].by \in {slots[r].by, NoOrder}
        /\ \A r \in DOMAIN slots : slots'[r].by = slots[r].by \/ Releases(p, r)
    <3>1. CASE At(p, "free", {"cancelSlot"}) /\ slots' = ReleaseRange(slots, proc[p].seen.range)
      <4>1. /\ SameRanges(slots, slots')
            /\ \A r \in DOMAIN slots \ {proc[p].seen.range} : slots'[r] = slots[r]
        BY <1>1, <3>1, ReleaseRangeDoc
      <4>2. \A r \in DOMAIN slots : r = proc[p].seen.range =>
              slots'[r].by = NoOrder /\ Releases(p, r)
        BY <1>1, <2>1, <3>1 DEF Releases, ReleaseRange, IsDoc, Meta
      <4> QED BY <4>1, <4>2 DEF SameRanges
    <3>2. CASE At(p, "free", {"cancelPrivateOrder"})
               /\ slots' = ReleaseOrder(slots, proc[p].order)
      <4>1. /\ SameRanges(slots, slots')
            /\ \A r \in DOMAIN slots : IF slots[r].by = proc[p].order THEN slots'[r].by = NoOrder
                                       ELSE slots'[r] = slots[r]
        BY <1>1, <3>2, ReleaseOrderDoc
      <4> QED BY <2>1, <3>2, <4>1 DEF SameRanges, Releases
    <3> QED BY <1>8, <3>1, <3>2 DEF Frees
  <2>3. \A q \in current' : Knows(q)'
    BY <1>1, <1>2, <1>3, <2>1, <2>2 DEF Knows
  <2> QED BY <2>2, <2>3 DEF KeepsBookings
<1> QED BY <1>4, <1>5, <1>6, <1>7, <1>8 DEF Effect

\* A stored booking disappears only in a step that releases it, for any number
\* of concurrent handlers: saving a copy loaded before the booking was stored
\* fails, or does not touch the range.
THEOREM BookingsAlwaysKept == Spec => BookingsKept
<1>1. Init => AllKnown
  BY AllDisjointInductive DEF Init, AllKnown
<1>2. AllKnown /\ [Next]_vars => AllKnown' /\ [KeepsBookings]_vars
  <2>1. SUFFICES ASSUME AllKnown, [Next]_vars
                 PROVE  AllKnown' /\ [KeepsBookings]_vars
    OBVIOUS
  <2>2. AllDisjoint' /\ Shape
    BY <2>1, AllDisjointInductive DEF AllKnown, AllDisjoint
  <2>3. (\E p \in Procs : Effect(p)) \/ UNCHANGED <<slots, current, proc>>
    BY <2>1, <2>2, NextSteps
  <2>4. CASE UNCHANGED <<slots, current, proc>>
    BY <2>1, <2>2, <2>4 DEF AllKnown, Knows, KeepsBookings
  <2>5. ASSUME NEW p \in Procs, Effect(p)
        PROVE  AllKnown' /\ KeepsBookings
    BY <2>1, <2>2, <2>5, KnownStep DEF AllKnown
  <2> QED BY <2>3, <2>4, <2>5
<1> QED BY <1>1, <1>2, PTL DEF Spec, BookingsKept

-----------------------------------------------------------------------------
(* Who confirms an order *)

\* p has locked its order and neither confirmed it nor rolled it back.
Confirming(p) == /\ proc[p].handler = "handlePublicOrderSuccess"
                 /\ proc[p].pc \in {"load", "attach", "settle", "rollback"}
LocksHeld == \A o \in Orders : orders[o].status = "CONFIRMING" =>
          \E p \in Procs : Confirming(p) /\ proc[p].order = o

\* A step of p locks an order itself, and leaves none that it had locked.
Hands(p) ==
  /\ \A q \in Procs \ {p} : proc'[q] = proc[q]
  /\ \A o \in Orders : orders'[o].status = "CONFIRMING" =>
       orders[o].status = "CONFIRMING" \/ (Confirming(p)' /\ proc'[p].order = o)
  /\ Confirming(p) /\ proc[p].order \in Orders =>
       \/ Confirming(p)' /\ proc'[p].order = proc[p].order
       \/ orders'[proc[p].order].status # "CONFIRMING"

\* Such a step leaves each locked order in somebody's hands.
LEMMA HandsHold ==
  ASSUME LocksHeld, NEW p \in Procs, Hands(p)
  PROVE  LocksHeld'
<1> SUFFICES ASSUME NEW o \in Orders, orders'[o].status = "CONFIRMING"
             PROVE  \E q \in Procs : Confirming(q)' /\ proc'[q].order = o
  BY DEF LocksHeld
<1>1. CASE Confirming(p)' /\ proc'[p].order = o
  BY <1>1
<1>2. CASE ~(Confirming(p)' /\ proc'[p].order = o)
  <2>1. PICK q \in Procs : Confirming(q) /\ proc[q].order = o
    BY <1>2 DEF Hands, LocksHeld
  <2>2. q # p
    BY <1>2, <2>1 DEF Hands
  <2>3. proc'[q] = proc[q]
    BY <2>2 DEF Hands
  <2>4. Confirming(q)' /\ proc'[q].order = o
    BY <2>1, <2>3 DEF Confirming
  <2> QED BY <2>4
<1> QED BY <1>1, <1>2

\* Whoever has locked no order cannot lose one.
LEMMA OthersHand ==
  ASSUME Shape, NEW p \in Procs, Effect(p), ~Confirming(p),
         \A o \in Orders : orders'[o].status = "CONFIRMING" => orders[o].status = "CONFIRMING"
  PROVE  Hands(p)
<1>1. \A q \in Procs \ {p} : proc'[q] = proc[q]
  BY DEF Effect, Quiet, Loads, Attaches, Saves, Frees, Follows
<1> QED BY <1>1, Zenon DEF Hands

\* A status that is written to one order is none of the others'.
LEMMA StatusWritten ==
  ASSUME Shape, NEW o \in Orders, NEW status,
         \/ orders' = [orders EXCEPT ![o].status = status]
         \/ orders' = [orders EXCEPT ![o].status = status, ![o].paid = TRUE]
  PROVE  /\ orders'[o].status = status
         /\ \A u \in Orders \ {o} : orders'[u] = orders[u]
<1>1. orders \in [Orders -> OrderDocs]
  BY DEF Shape, Typed, OrderDocs
<1> QED BY <1>1 DEF OrderDocs

\* The steps of the order handlers.
LEMMA OrdersHand ==
  ASSUME Shape, NEW p \in Procs, OrderStep(p) \/ CancelStep(p)
  PROVE  Hands(p)
<1>1. ASSUME NEW o \in Orders, NEW status, status # "CONFIRMING",
             \/ orders' = [orders EXCEPT ![o].status = status]
             \/ orders' = [orders EXCEPT ![o].status = status, ![o].paid = TRUE]
      PROVE  \A u \in Orders : orders'[u].status = "CONFIRMING" => orders[u].status = "CONFIRMING"
  BY <1>1, StatusWritten
<1>2. Effect(p)
  BY OrderStepEffect, CancelStepEffect
<1>3. ~Confirming(p)
  BY DEF Confirming, OrderStep, CancelStep, CreateOrder, StartPrivateOrder, CreatePrivateOrder,
         CreatePrivateOrderFails, AttachSlot, AttachFails, SaveBooking, SaveBookingFails, DeletePrivateOrder,
         StartCancelSlot, CancelPrivateOrder, SaveCancelled, FreeSlotRange, UnlockPrivateOrderSlots,
         Start, At, BookingHandlers
<1>4. CASE \E o \in Orders : CreateOrder(p, o)
  BY <1>1, <1>2, <1>3, <1>4, OthersHand DEF CreateOrder
<1>5. CASE \E o \in Orders : CancelPrivateOrder(p, o)
  BY <1>1, <1>2, <1>3, <1>5, OthersHand DEF CancelPrivateOrder
<1>6. CASE CreatePrivateOrder(p) \/ DeletePrivateOrder(p)
  <2>1. CASE proc[p].order \in Orders
    <3>1. \A u \in Orders : orders'[u].status = "CONFIRMING" => orders[u].status = "CONFIRMING"
      BY <1>1, <1>6, <2>1 DEF CreatePrivateOrder, DeletePrivateOrder
    <3> QED BY <1>2, <1>3, <3>1, OthersHand
  <2>2. CASE proc[p].order \notin Orders
    <3>1. \A u \in Orders : orders'[u] = orders[u]
      BY <1>6, <2>2 DEF CreatePrivateOrder, DeletePrivateOrder, Shape, Typed
    <3> QED BY <1>2, <1>3, <3>1, OthersHand
  <2> QED BY <2>1, <2>2
<1>7. ASSUME UNCHANGED orders PROVE Hands(p)
  BY <1>2, <1>3, <1>7, OthersHand
<1>8. CASE \/ \E o \in Orders : StartPrivateOrder(p, o)
           \/ CreatePrivateOrderFails(p) \/ AttachSlot(p) \/ AttachFails(p) \/ SaveBooking(p) \/ SaveBookingFails(p)
           \/ \E l \in Lessons : StartCancelSlot(p, l)
           \/ SaveCancelled(p) \/ FreeSlotRange(p) \/ UnlockPrivateOrderSlots(p)
  BY <1>7, <1>8 DEF StartPrivateOrder, CreatePrivateOrderFails, AttachSlot, AttachFails, SaveBooking,
     SaveBookingFails, StartCancelSlot, SaveCancelled, FreeSlotRange, UnlockPrivateOrderSlots, Throw, FailBooking
<1> QED BY <1>4, <1>5, <1>6, <1>8, Zenon DEF OrderStep, CancelStep

\* The steps of reschedules, edits and the cron write no order.
LEMMA EditsHand ==
  ASSUME Shape, NEW p \in Procs, RescheduleStep(p) \/ EditStep(p)
  PROVE  Hands(p)
<1>1. Effect(p)
  BY RescheduleStepEffect, EditStepEffect
<1>2. CASE RescheduleStep(p)
  <2>1. ~Confirming(p) /\ UNCHANGED orders
    BY <1>2 DEF Confirming, RescheduleStep, StartMove, StartProposal, StartRespond, ValidateMove, ValidateMoveFails,
       SaveMove, SaveMoveFails, SaveMovedLesson, SaveAccepted, SaveLessonFails, UnlockRejected,
       UnlockRejectedFails, SaveRejected, ClearReschedule, SaveProposal, SaveLock, Start, At, Throw, Movers
  <2> QED BY <1>1, <2>1, OthersHand
<1>3. CASE EditStep(p)
  <2>1. ~Confirming(p) /\ UNCHANGED orders
    BY <1>3 DEF Confirming, EditStep, StartEdit, SaveDay, SaveWeek, EditFails, SaveReleased, Start, At, Throw
  <2> QED BY <1>1, <2>1, OthersHand
<1> QED BY <1>2, <1>3

\* The steps of the webhook: a lock is taken by the one who goes on with it,
\* and given up with another status.
LEMMA WebhookHands ==
  ASSUME Shape, NEW p \in Procs, WebhookStep(p)
  PROVE  Hands(p)
<1>1. Effect(p) /\ FieldsType(proc[p])
  BY WebhookStepEffect, FieldsOfProc
<1>2. \A q \in Procs \ {p} : proc'[q] = proc[q]
  BY <1>1 DEF Effect, Quiet, Loads, Attaches, Saves, Frees, Follows
<1>3. ASSUME NEW o \in Orders, UndoOrder(p, o) PROVE Hands(p)
  <2>1. PICK status \in {"CANCELLED", "REFUNDED"} : orders' = [orders EXCEPT ![o].status = status]
    BY <1>3 DEF UndoOrder
  <2>2. ~Confirming(p)
    BY <1>3 DEF UndoOrder, Start, Confirming
  <2> QED BY <1>1, <2>1, <2>2, StatusWritten, OthersHand
<1>4. ASSUME NEW o \in Orders, RecordCharge(p, o) PROVE Hands(p)
  <2>1. ~Confirming(p) /\ orders' = [orders EXCEPT ![o].charged = TRUE]
    BY <1>4 DEF RecordCharge, Start, Confirming
  <2>2. orders \in [Orders -> OrderDocs]
    BY DEF Shape, Typed, OrderDocs
  <2>3. \A u \in Orders : orders'[u].status = orders[u].status
    BY <2>1, <2>2 DEF OrderDocs
  <2> QED BY <1>1, <2>1, <2>3, OthersHand
<1>5. CASE ReloadOrder(p) \/ UnlockSlots(p)
  <2>1. ~Confirming(p) /\ UNCHANGED orders
    BY <1>5 DEF ReloadOrder, UnlockSlots, At, Confirming
  <2> QED BY <1>1, <2>1, OthersHand
<1>6. CASE LockOrder(p)
  <2>1. ~Confirming(p) /\ proc[p].handler = "handlePublicOrderSuccess" /\ proc[p].order \in Orders
    BY <1>1, <1>6 DEF LockOrder, At, Confirming, FieldsType
  <2>2. CASE UNCHANGED orders
    BY <1>1, <2>1, <2>2, OthersHand
  <2>3. CASE orders' # orders
    <3>1. /\ orders' = [orders EXCEPT ![proc[p].order].status = "CONFIRMING"]
          /\ proc' = [proc EXCEPT ![p].pc = "load", ![p].want = RangesOf(proc[p].order),
                                  ![p].todo = LessonsOf(proc[p].order)]
      BY <1>6, <2>3 DEF LockOrder
    <3>2. Confirming(p)' /\ proc'[p].order = proc[p].order
      BY <2>1, <3>1, FieldsOfProc DEF Confirming
    <3> QED BY <1>2, <2>1, <3>1, <3>2, StatusWritten DEF Hands
  <2> QED BY <2>2, <2>3
<1>7. CASE ForceLock(p)
  <2>1. ~Confirming(p) /\ proc[p].handler = "handlePublicOrderSuccess" /\ Goto(p, "load")
    BY <1>7 DEF ForceLock, At, Confirming
  <2>2. Confirming(p)' /\ proc'[p].order = proc[p].order
    BY <2>1, FieldsOfProc DEF Confirming, Goto
  <2>3. PICK status : orders' = [orders EXCEPT ![proc[p].order].status = status]
    BY <1>7 DEF ForceLock
  <2>4. \A u \in Orders \ {proc[p].order} : orders'[u] = orders[u]
    BY <2>3 DEF Shape, Typed
  <2> QED BY <1>2, <2>1, <2>2, <2>4 DEF Hands
<1>8. CASE AttachPaidSlot(p) \/ SaveAttached(p) \/ SaveAttachedFails(p) \/ WalletCreditFails(p)
  <2>1. UNCHANGED orders /\ proc[p].handler = "handlePublicOrderSuccess"
    BY <1>8 DEF AttachPaidSlot, SaveAttached, SaveAttachedFails, WalletCreditFails, At
  <2>2. Confirming(p)' /\ proc'[p].order = proc[p].order
    <3>1. CASE SaveAttached(p) \/ SaveAttachedFails(p) \/ WalletCreditFails(p)
      BY <2>1, <3>1, FieldsOfProc DEF SaveAttached, SaveAttachedFails, WalletCreditFails, Goto, Confirming
    <3>2. CASE AttachPaidSlot(p)
      <4>1. PICK l \in Earliest(p) : \/ proc' = [proc EXCEPT ![p].todo = @ \ {l}]
                                    \/ \E s \in OpenFor(proc[p].doc, proc[p].want[l]) :
                                         proc' = [Attached(p, s, proc[p].want[l], 0) EXCEPT ![p].todo = @ \ {l}]
        BY <3>2, Zenon DEF AttachPaidSlot
      <4>2. proc[p].pc = "attach"
        BY <3>2 DEF AttachPaidSlot, At
      <4>3. ASSUME NEW s, proc' = [Attached(p, s, proc[p].want[l], 0) EXCEPT ![p].todo = @ \ {l}]
            PROVE  proc'[p].pc = proc[p].pc /\ proc'[p].handler = proc[p].handler /\ proc'[p].order = proc[p].order
        BY <4>3, FieldsOfProc DEF Attached
      <4>4. CASE proc' = [proc EXCEPT ![p].todo = @ \ {l}]
        BY <2>1, <4>2, <4>4, FieldsOfProc DEF Confirming
      <4> QED BY <2>1, <4>1, <4>2, <4>3, <4>4 DEF Confirming
    <3> QED BY <1>8, <3>1, <3>2
  <2> QED BY <1>2, <2>1, <2>2 DEF Hands
<1>9. CASE ConfirmOrder(p) \/ RollbackOrder(p)
  <2>1. proc[p].order \in Orders => orders'[proc[p].order].status # "CONFIRMING"
    BY <1>9, StatusWritten DEF ConfirmOrder, RollbackOrder
  <2>2. \A u \in Orders \ {proc[p].order} : orders'[u] = orders[u]
    BY <1>9 DEF ConfirmOrder, RollbackOrder, Shape, Typed
  <2> QED BY <1>2, <2>1, <2>2 DEF Hands
<1> QED BY <1>3, <1>4, <1>5, <1>6, <1>7, <1>8, <1>9, Zenon DEF WebhookStep

\* Loading the profile, a locked order stays in the same hands.
LEMMA LoadHands ==
  ASSUME Shape, NEW p \in Procs, LoadProfile(p)
  PROVE  Hands(p)
<1>1. /\ orders' = orders /\ \A q \in Procs \ {p} : proc'[q] = proc[q]
      /\ proc[p].pc = "load" /\ proc'[p].handler = proc[p].handler /\ proc'[p].order = proc[p].order
      /\ proc[p].handler = "handlePublicOrderSuccess" => proc'[p].pc = "attach"
  BY FieldsOfProc DEF LoadProfile
<1>2. Confirming(p) => Confirming(p)'
  BY <1>1 DEF Confirming
<1> QED BY <1>1, <1>2 DEF Hands

\* The events of private orders lock nothing.
LEMMA PaymentHolds ==
  ASSUME Shape, LocksHeld, NEW o \in Orders, PrivatePayment(o)
  PROVE  LocksHeld'
<1> SUFFICES ASSUME NEW u \in Orders, orders'[u].status = "CONFIRMING"
             PROVE  \E q \in Procs : Confirming(q)' /\ proc'[q].order = u
  BY DEF LocksHeld
<1>1. orders[u].status = "CONFIRMING" /\ proc' = proc
  BY StatusWritten DEF PrivatePayment
<1>2. PICK q \in Procs : Confirming(q) /\ proc[q].order = u
  BY <1>1 DEF LocksHeld
<1>3. Confirming(q)'
  BY <1>1, <1>2 DEF Confirming
<1> QED BY <1>1, <1>2, <1>3

\* Every step leaves each locked order in the hands of a delivery.
LEMMA LocksHeldNext ==
  ASSUME ~Crashes, Shape, LocksHeld, [Next]_vars
  PROVE  LocksHeld'
<1>1. ASSUME NEW p \in Procs, Step(p)
      PROVE  LocksHeld'
  <2>1. ~Crash(p)
    BY DEF Crash
  <2>2. Hands(p)
    BY <1>1, <2>1, LoadHands, OrdersHand, WebhookHands, EditsHand DEF Step
  <2> QED BY <2>2, HandsHold
<1>2. ASSUME NEW o \in Orders, PrivatePayment(o)
      PROVE  LocksHeld'
  BY <1>2, PaymentHolds
<1>3. CASE UNCHANGED vars
  BY <1>3 DEF vars, LocksHeld, Confirming
<1> QED BY <1>1, <1>2, <1>3 DEF Next

\* When no execution dies, an order is CONFIRMING only while a delivery of its
\* payment works on it, for any number of deliveries, executions and orders:
\* whichever lock, forced or not, comes before whichever rollback.
THEOREM ConfirmingStaysHeld ==
  ASSUME ~Crashes
  PROVE  Spec => []ConfirmingHeld
<1>1. Init => Shape /\ LocksHeld
  <2>1. Init => LocksHeld
    BY DEF Init, LocksHeld
  <2> QED BY <2>1, ShapeInit
<1>2. Shape /\ LocksHeld /\ [Next]_vars => Shape' /\ LocksHeld'
  BY NextSteps, LocksHeldNext
<1>3. Shape /\ LocksHeld => ConfirmingHeld
  BY DEF LocksHeld, ConfirmingHeld, Confirming
<1> QED BY <1>1, <1>2, <1>3, PTL DEF Spec

-----------------------------------------------------------------------------
(* What learners are offered *)

\* Multiples of a step are a step apart.
LEMMA MultiplesApart ==
  ASSUME NEW k \in Int, NEW m \in Int, NEW step \in Nat, k < m
  PROVE  m * step >= k * step + step
<1>1. m * step = k * step + step + (m - k - 1) * step
  OBVIOUS
<1>2. m - k - 1 \in Nat
  OBVIOUS
<1>3. \A a, b \in Nat : a * b >= 0
  OBVIOUS
<1>4. (m - k - 1) * step >= 0
  BY <1>2, <1>3
<1>5. (m - k - 1) * step \in Int /\ k * step \in Int /\ m * step \in Int
  OBVIOUS
<1> QED BY <1>1, <1>4, <1>5

\* The pieces of a range are inside it, and two of them a gap apart.
LEMMA PiecesOfRange ==
  ASSUME NEW s \in Ranges, NEW d \in Durations, NEW a \in SplitByDuration(s, d)
  PROVE  /\ Contains(s, a) /\ a.date = s.date /\ a.start \in Int /\ a.end \in Int /\ a.start < a.end
         /\ \A b \in SplitByDuration(s, d) : a # b => a.start - b.end >= Gap \/ b.start - a.end >= Gap
<1>1. d \in Nat /\ d > 0 /\ Gap \in Nat /\ s.start \in Int /\ s.end \in Int /\ d + Gap \in Nat
  BY DurationsAssumption, GapAssumption, MinSlotAssumption DEF Ranges
<1>2. ASSUME NEW b \in SplitByDuration(s, d)
      PROVE  \E k \in Nat : /\ b.date = s.date /\ k * (d + Gap) \in Nat
                            /\ b.start = s.start + k * (d + Gap) /\ b.end = b.start + d
                            /\ b.end <= s.end
                            /\ b = [s EXCEPT !.start = s.start + k * (d + Gap),
                                             !.end = s.start + k * (d + Gap) + d]
  <2>1. PICK k \in 0..(s.end - s.start) :
          /\ s.start + k * (d + Gap) + d <= s.end
          /\ b = [s EXCEPT !.start = s.start + k * (d + Gap), !.end = s.start + k * (d + Gap) + d]
    BY <1>2 DEF SplitByDuration
  <2>2. b.date = s.date /\ b.start = s.start + k * (d + Gap) /\ b.end = s.start + k * (d + Gap) + d
    BY <2>1 DEF Ranges
  <2>3. k \in Nat
    BY <1>1
  <2>4. \A i, j \in Nat : i * j \in Nat
    OBVIOUS
  <2>5. k * (d + Gap) \in Nat
    BY <1>1, <2>3, <2>4
  <2> QED BY <2>1, <2>2, <2>3, <2>5
<1>3. PICK k \in Nat : /\ a.date = s.date /\ k * (d + Gap) \in Nat
                       /\ a.start = s.start + k * (d + Gap) /\ a.end = a.start + d
                       /\ a.end <= s.end
                       /\ a = [s EXCEPT !.start = s.start + k * (d + Gap),
                                        !.end = s.start + k * (d + Gap) + d]
  BY <1>2
<1>4. ASSUME NEW b \in SplitByDuration(s, d), a # b
      PROVE  a.start - b.end >= Gap \/ b.start - a.end >= Gap
  <2>1. PICK m \in Nat : /\ b.date = s.date /\ m * (d + Gap) \in Nat
                         /\ b.start = s.start + m * (d + Gap) /\ b.end = b.start + d
                         /\ b.end <= s.end
                         /\ b = [s EXCEPT !.start = s.start + m * (d + Gap),
                                          !.end = s.start + m * (d + Gap) + d]
    BY <1>2, <1>4
  <2>2. k # m
    BY <1>3, <1>4, <2>1
  <2>3. CASE k < m
    <3>1. m * (d + Gap) >= k * (d + Gap) + (d + Gap)
      BY <1>1, <2>3, MultiplesApart
    <3> DEFINE x == k * (d + Gap)  y == m * (d + Gap)
    <3>2. y >= x + (d + Gap) /\ x \in Nat /\ y \in Nat /\ a.start = s.start + x /\ b.start = s.start + y
      BY <1>3, <2>1, <3>1
    <3> HIDE DEF x, y
    <3> QED BY <1>1, <1>3, <2>1, <3>2
  <2>4. CASE m < k
    <3>1. k * (d + Gap) >= m * (d + Gap) + (d + Gap)
      BY <1>1, <2>4, MultiplesApart
    <3> DEFINE x == k * (d + Gap)  y == m * (d + Gap)
    <3>2. x >= y + (d + Gap) /\ x \in Nat /\ y \in Nat /\ a.start = s.start + x /\ b.start = s.start + y
      BY <1>3, <2>1, <3>1
    <3> HIDE DEF x, y
    <3> QED BY <1>1, <1>3, <2>1, <3>2
  <2> QED BY <2>2, <2>3, <2>4
<1>5. Contains(s, a) /\ a.start \in Int /\ a.end \in Int /\ a.start < a.end
  <2> DEFINE x == k * (d + Gap)
  <2>1. x \in Nat /\ a.start = s.start + x
    BY <1>3
  <2> HIDE DEF x
  <2> QED BY <1>1, <1>3, <2>1 DEF Contains
<1> QED BY <1>3, <1>4, <1>5

\* What is offered of ranges a gap apart may be booked together.
LEMMA OfferedApart ==
  ASSUME IsDoc(slots), WellSpaced
  PROVE  OfferedIsAvailable
<1> SUFFICES ASSUME NEW d \in Durations, NEW p \in AvailableSlots(slots, d, Anytime),
                    NEW q \in AvailableSlots(slots, d, Anytime)
             PROVE  Available(slots, {p, q})
  BY DEF OfferedIsAvailable
<1>1. ASSUME NEW a \in AvailableSlots(slots, d, Anytime)
      PROVE  /\ \E s \in DOMAIN slots \ Blocked(slots) : s \in Ranges /\ a \in SplitByDuration(s, d)
             /\ \A r \in Blocked(slots) : ~TooClose(a, r)
  BY <1>1 DEF AvailableSlots, IsDoc
<1>2. PICK s \in DOMAIN slots \ Blocked(slots) : s \in Ranges /\ p \in SplitByDuration(s, d)
  BY <1>1
<1>3. PICK t \in DOMAIN slots \ Blocked(slots) : t \in Ranges /\ q \in SplitByDuration(t, d)
  BY <1>1
<1>4. Contains(s, p) /\ Contains(t, q)
  BY <1>2, <1>3, PiecesOfRange
<1>5. ASSUME p # q, p.date = q.date
      PROVE  p.start - q.end >= Gap \/ q.start - p.end >= Gap
  <2>1. CASE s = t
    BY <1>2, <1>3, <1>5, <2>1, PiecesOfRange
  <2>2. CASE s # t
    <3>1. s.date = t.date
      BY <1>4, <1>5 DEF Contains
    <3>2. s.start - t.end >= Gap \/ t.start - s.end >= Gap
      BY <2>2, <3>1 DEF WellSpaced, Normalized
    <3>3. /\ p.start \in Int /\ p.end \in Int /\ q.start \in Int /\ q.end \in Int
          /\ s.start \in Int /\ s.end \in Int /\ t.start \in Int /\ t.end \in Int /\ Gap \in Nat
      BY <1>2, <1>3, PiecesOfRange, GapAssumption DEF Ranges
    <3> QED BY <1>4, <3>2, <3>3 DEF Contains
  <2> QED BY <2>1, <2>2
<1>6. \A a \in {p, q} : /\ \E x \in DOMAIN slots \ Blocked(slots) : Contains(x, a)
                        /\ \A r \in Blocked(slots) : ~TooClose(a, r)
  BY <1>1, <1>2, <1>3, <1>4
<1>7. \A a, b \in {p, q} : a # b /\ a.date = b.date => a.start - b.end >= Gap \/ b.start - a.end >= Gap
  BY <1>5
<1> QED BY <1>6, <1>7 DEF Available

\* Without the payment webhook, whatever the handlers interleave and wherever
\* they die, any two slots that getAvailableSlots offers for a duration pass
\* checkAvailability together.
THEOREM OfferedStaysAvailable ==
  ASSUME ByStripe = {}
  PROVE  Spec => []OfferedIsAvailable
<1>1. Spec => []WellSpaced
  BY WellSpacedAlways
<1>2. TypeOK /\ WellSpaced => OfferedIsAvailable
  BY OfferedApart DEF TypeOK
<1> QED BY <1>1, <1>2, TypeCorrect, PTL

-----------------------------------------------------------------------------
(* One request at a time: what a request knows of its lesson *)

\* p has read its lesson and not written it yet.
Reading(p) == \/ At(p, "save", {"proposeSlot", "cancelSlot"})
              \/ proc[p].pc \in {"load", "loaded", "move", "order"} /\ proc[p].handler \in Movers \cup {"REJECTED"}

\* Then it has seen what is stored; and an answered lesson no longer waits.
Fresh(p) ==
  /\ Reading(p) => proc[p].lesson \in Lessons /\ proc[p].seen = lessons[proc[p].lesson]
  /\ proc[p].pc = "clear" => /\ proc[p].lesson \in Lessons
                             /\ lessons[proc[p].lesson].status # "PENDING_RESCHEDULE"
Answerable(l) == lessons[l].status = "PENDING_RESCHEDULE" => lessons[l].reschedule.status = "PENDING"
Informed == (\A p \in Procs : Fresh(p)) /\ \A l \in Lessons : Answerable(l)

\* A step that writes no lesson and begins no reading of one.
LEMMA FreshKept ==
  ASSUME Informed, NEW p \in Procs, lessons' = lessons,
         Reading(p)' => Reading(p), proc'[p].pc = "clear" => proc[p].pc = "clear",
         Reading(p)' \/ proc'[p].pc = "clear" =>
           proc'[p].lesson = proc[p].lesson /\ proc'[p].seen = proc[p].seen
  PROVE  Fresh(p)' /\ \A l \in Lessons : Answerable(l)'
<1>1. \A l \in Lessons : Answerable(l)'
  BY DEF Informed, Answerable
<1>2. Fresh(p)
  BY DEF Informed
<1> QED BY <1>1, <1>2 DEF Fresh

\* A request that ends, or begins without a lesson, reads none.
LEMMA NothingRead ==
  ASSUME Informed, NEW p \in Procs, proc'[p].pc # "clear", ~Reading(p)',
         \A l \in Lessons : lessons'[l] = lessons[l] \/ lessons'[l].status # "PENDING_RESCHEDULE"
  PROVE  Fresh(p)' /\ \A l \in Lessons : Answerable(l)'
<1>1. \A l \in Lessons : Answerable(l)'
  BY DEF Informed, Answerable
<1> QED BY <1>1 DEF Fresh

\* Steps of requests that are about whole orders.
LEMMA OrderInformed ==
  ASSUME Shape, Informed, NEW p \in Procs, OrderStep(p)
  PROVE  Fresh(p)' /\ \A l \in Lessons : Answerable(l)'
<1>1. DOMAIN proc = Procs /\ FieldsType(proc[p])
  BY FieldsOfProc
<1>2. ASSUME NEW o \in Orders, NEW w, Ask(o, w)
      PROVE  \A l \in Lessons : lessons'[l] = lessons[l] \/ lessons'[l].status # "PENDING_RESCHEDULE"
  BY <1>2 DEF Ask, NoLessonDoc
<1>3. proc'[p].pc # "clear" /\ ~Reading(p)'
  <2>1. CASE \E o \in Orders : CreateOrder(p, o) \/ StartPrivateOrder(p, o)
    <3>1. PICK o \in Orders : CreateOrder(p, o) \/ StartPrivateOrder(p, o)
      BY <2>1
    <3>2. proc'[p].pc \in {"load", "idle"} /\ proc'[p].handler \in {"createOrder", "createPrivateOrder", proc[p].handler}
      <4>1. CASE StartPrivateOrder(p, o)
        BY <1>1, <4>1, IdleFields DEF StartPrivateOrder
      <4>2. CASE CreateOrder(p, o)
        <5>1. PICK w : \/ proc' = proc
                       \/ proc' = [proc EXCEPT ![p] = [Idle EXCEPT
                            !.pc = "load", !.handler = "createOrder", !.order = o,
                            !.want = w, !.todo = LessonsOf(o)]]
          BY <4>2, Zenon DEF CreateOrder
        <5>2. proc[p].pc = "idle"
          BY <4>2 DEF CreateOrder, Start
        <5>3. CASE proc' = [proc EXCEPT ![p] = [Idle EXCEPT
                            !.pc = "load", !.handler = "createOrder", !.order = o,
                            !.want = w, !.todo = LessonsOf(o)]]
          BY <1>1, <5>3, IdleFields
        <5> QED BY <5>1, <5>2, <5>3
      <4> QED BY <3>1, <4>1, <4>2
    <3>3. proc'[p].pc = "load" => proc'[p].handler \in {"createOrder", "createPrivateOrder"}
      <4>1. CASE proc'[p] = proc[p]
        BY <3>1, <4>1 DEF CreateOrder, StartPrivateOrder, Start
      <4>2. CASE proc'[p] # proc[p]
        BY <3>1, <1>1, <4>2, IdleFields DEF CreateOrder, StartPrivateOrder
      <4> QED BY <4>1, <4>2
    <3> QED BY <3>2, <3>3 DEF Reading, At, Movers
  <2>2. CASE CreatePrivateOrder(p) \/ AttachSlot(p)
    <3>1. CASE CreatePrivateOrder(p)
      BY <3>1, FieldsOfProc DEF CreatePrivateOrder, Reading, At
    <3>2. CASE AttachSlot(p)
      <4>1. PICK l, s : proc' = [Attached(p, s, proc[p].want[l], Gap) EXCEPT ![p].todo = @ \ {l}]
        BY <3>2, Zenon DEF AttachSlot
      <4>2. proc'[p].pc = proc[p].pc
        BY <4>1, FieldsOfProc DEF Attached
      <4>3. proc[p].pc = "attach"
        BY <3>2 DEF AttachSlot, At
      <4> QED BY <4>2, <4>3 DEF Reading, At
    <3> QED BY <2>2, <3>1, <3>2
  <2>3. CASE CreatePrivateOrderFails(p) \/ AttachFails(p) \/ SaveBooking(p) \/ SaveBookingFails(p) \/ DeletePrivateOrder(p)
    <3>1. proc'[p].pc \in {"idle", "delete"}
      BY <1>1, <2>3, IdleFields DEF CreatePrivateOrderFails, AttachFails, SaveBooking, SaveBookingFails, DeletePrivateOrder,
         Throw, Finish, FailBooking
    <3> QED BY <3>1 DEF Reading, At
  <2> QED BY <2>1, <2>2, <2>3 DEF OrderStep
<1>4. \A l \in Lessons : lessons'[l] = lessons[l] \/ lessons'[l].status # "PENDING_RESCHEDULE"
  <2>1. CASE \E o \in Orders : CreateOrder(p, o)
    BY <1>2, <2>1 DEF CreateOrder
  <2>2. CASE CreatePrivateOrder(p)
    BY <2>2 DEF CreatePrivateOrder, Ask, NoLessonDoc
  <2>3. CASE UNCHANGED lessons
    BY <2>3
  <2> QED BY <2>1, <2>2, <2>3, Zenon DEF OrderStep, StartPrivateOrder, AttachSlot, CreatePrivateOrderFails, AttachFails,
        SaveBooking, SaveBookingFails, DeletePrivateOrder, Throw, FailBooking
<1> QED BY <1>3, <1>4, NothingRead

\* Steps of the payment webhook, of the edits and of the cron.
LEMMA OtherInformed ==
  ASSUME Shape, Informed, NEW p \in Procs, WebhookStep(p) \/ EditStep(p) \/ LoadProfile(p) \/ Crash(p)
  PROVE  Fresh(p)' /\ \A l \in Lessons : Answerable(l)'
<1>1. DOMAIN proc = Procs /\ FieldsType(proc[p])
  BY FieldsOfProc
<1>2. lessons' = lessons
  BY DEF WebhookStep, RecordCharge, UndoOrder, LockOrder, ReloadOrder, ForceLock, AttachPaidSlot, SaveAttached,
     SaveAttachedFails, ConfirmOrder, WalletCreditFails, RollbackOrder, UnlockSlots, EditStep, StartEdit, SaveDay, SaveWeek,
     EditFails, SaveReleased, LoadProfile, Crash, Throw
<1>3. CASE LoadProfile(p)
  <2>1. /\ proc[p].pc = "load" /\ proc'[p].pc \in {"loaded", "attach"}
        /\ proc'[p].handler = proc[p].handler /\ proc'[p].lesson = proc[p].lesson /\ proc'[p].seen = proc[p].seen
    BY <1>3, FieldsOfProc DEF LoadProfile
  <2>2. Reading(p)' => Reading(p)
    BY <2>1 DEF Reading, At
  <2> QED BY <1>2, <2>1, <2>2, FreshKept
<1>4. ASSUME proc'[p].pc # "clear", proc'[p].handler \notin Movers \cup {"REJECTED", "proposeSlot", "cancelSlot"}
      PROVE  Fresh(p)' /\ \A l \in Lessons : Answerable(l)'
  BY <1>2, <1>4, NothingRead DEF Reading, At
<1>5. CASE WebhookStep(p) /\ ~AttachPaidSlot(p)
  <2>1. proc'[p].pc # "clear" /\ proc'[p].handler \in {"none", "handlePublicOrderSuccess", "unlockSlots"}
    <3>1. CASE \E o \in Orders : RecordCharge(p, o) \/ UndoOrder(p, o)
      BY <1>1, <3>1, IdleFields DEF RecordCharge, UndoOrder
    <3>2. CASE LockOrder(p) \/ ReloadOrder(p)
      <4>1. proc[p].handler = "handlePublicOrderSuccess"
        BY <3>2 DEF LockOrder, ReloadOrder, At
      <4>2. CASE LockOrder(p)
        <5>1. PICK pc \in {"load", "reload"} : \E w, t : proc' = [proc EXCEPT ![p].pc = pc, ![p].want = w, ![p].todo = t]
          BY <4>2, Zenon DEF LockOrder
        <5> QED BY <4>1, <5>1, FieldsOfProc
      <4>3. CASE ReloadOrder(p)
        <5>1. Finish(p) \/ \E w, x : proc' = [proc EXCEPT ![p].pc = "relock", ![p].want = w, ![p].was = x]
          BY <4>3, Zenon DEF ReloadOrder
        <5>2. ASSUME Finish(p) PROVE proc'[p].pc # "clear" /\ proc'[p].handler = "none"
          BY <5>2, FieldsOfProc, IdleFields DEF Finish
        <5>3. ASSUME NEW w, NEW x, proc' = [proc EXCEPT ![p].pc = "relock", ![p].want = w, ![p].was = x]
              PROVE  proc'[p].pc # "clear" /\ proc'[p].handler = proc[p].handler
          BY <5>3, FieldsOfProc
        <5> QED BY <4>1, <5>1, <5>2, <5>3
      <4> QED BY <3>2, <4>2, <4>3
    <3>3. CASE ForceLock(p) \/ SaveAttached(p) \/ SaveAttachedFails(p) \/ WalletCreditFails(p)
      <4>1. proc[p].handler = "handlePublicOrderSuccess" /\ \E pc \in {"load", "settle", "rollback"} : Goto(p, pc)
        BY <3>3, Zenon DEF ForceLock, SaveAttached, SaveAttachedFails, WalletCreditFails, At
      <4> QED BY <4>1, FieldsOfProc DEF Goto
    <3>4. CASE ConfirmOrder(p) \/ RollbackOrder(p) \/ UnlockSlots(p)
      BY <1>1, <3>4, IdleFields DEF ConfirmOrder, RollbackOrder, UnlockSlots, Finish
    <3> QED BY <1>5, <3>1, <3>2, <3>3, <3>4, Zenon DEF WebhookStep
  <2> QED BY <1>4, <2>1 DEF Movers
<1>6. CASE AttachPaidSlot(p)
  <2>1. PICK l \in Earliest(p) : \/ proc' = [proc EXCEPT ![p].todo = @ \ {l}]
                                \/ \E s \in OpenFor(proc[p].doc, proc[p].want[l]) :
                                     proc' = [Attached(p, s, proc[p].want[l], 0) EXCEPT ![p].todo = @ \ {l}]
    BY <1>6, Zenon DEF AttachPaidSlot
  <2>2. proc[p].pc = "attach" /\ proc[p].handler = "handlePublicOrderSuccess"
    BY <1>6 DEF AttachPaidSlot, At
  <2>3. ASSUME NEW s, proc' = [Attached(p, s, proc[p].want[l], 0) EXCEPT ![p].todo = @ \ {l}]
        PROVE  proc'[p].pc = proc[p].pc /\ proc'[p].handler = proc[p].handler
    BY <2>3, FieldsOfProc DEF Attached
  <2>4. proc'[p].pc = proc[p].pc /\ proc'[p].handler = proc[p].handler
    BY <2>1, <2>3, FieldsOfProc
  <2> QED BY <1>4, <2>2, <2>4 DEF Movers
<1>7. CASE EditStep(p) \/ Crash(p)
  <2>1. proc'[p].pc # "clear" /\ proc'[p].handler \in {"none", "updateDaySlots", "updateWeek", "releaseExpiredTempLocks"}
    BY <1>1, <1>7, IdleFields DEF EditStep, StartEdit, SaveDay, SaveWeek, EditFails, SaveReleased, Crash, Throw, Finish
  <2> QED BY <1>4, <2>1 DEF Movers
<1> QED BY <1>3, <1>5, <1>6, <1>7

\* Cancellation.
LEMMA CancelInformed ==
  ASSUME Shape, Informed, NEW p \in Procs, CancelStep(p)
  PROVE  Fresh(p)' /\ \A l \in Lessons : Answerable(l)'
<1>1. DOMAIN proc = Procs /\ FieldsType(proc[p])
  BY FieldsOfProc
<1>2. CASE \E l \in Lessons : StartCancelSlot(p, l)
  <2>1. PICK l \in Lessons : StartCancelSlot(p, l)
    BY <1>2
  <2>2. /\ lessons' = lessons /\ proc'[p].pc = "save" /\ proc'[p].lesson = l /\ proc'[p].seen = lessons[l]
    BY <1>1, <2>1, IdleFields DEF StartCancelSlot
  <2> QED BY <2>2 DEF Fresh, Informed, Answerable
<1>3. CASE SaveCancelled(p)
  <2>1. /\ proc'[p].pc = "free"
        /\ lessons' = [lessons EXCEPT ![proc[p].lesson].status = "CANCELLED"]
    BY <1>3, FieldsOfProc DEF SaveCancelled, Goto
  <2>2. lessons \in [Lessons -> LessonDocs]
    BY DEF Shape, Typed
  <2>3. \A l \in Lessons : lessons'[l] = lessons[l] \/ lessons'[l].status # "PENDING_RESCHEDULE"
    BY <2>1, <2>2 DEF LessonDocs
  <2> QED BY <2>1, <2>3, NothingRead DEF Reading, At
<1>4. CASE \/ \E o \in Orders : CancelPrivateOrder(p, o)
           \/ FreeSlotRange(p) \/ UnlockPrivateOrderSlots(p)
  <2>1. lessons' = lessons /\ proc'[p].pc \in {"idle", "free"}
    BY <1>1, <1>4, IdleFields DEF CancelPrivateOrder, FreeSlotRange, UnlockPrivateOrderSlots, Finish
  <2> QED BY <2>1, NothingRead DEF Reading, At
<1> QED BY <1>2, <1>3, <1>4 DEF CancelStep

\* A write of the lesson that was read, when nobody wrote it since: the status
\* is the one written.
LEMMA WrittenStatus ==
  ASSUME Shape, NEW p \in Procs, proc[p].lesson \in Lessons, proc[p].seen = lessons[proc[p].lesson],
         NEW range, NEW status, NEW reschedule, WriteLesson(p, range, status, reschedule)
  PROVE  /\ lessons'[proc[p].lesson] = [range |-> range, status |-> status, reschedule |-> reschedule]
         /\ \A l \in Lessons \ {proc[p].lesson} : lessons'[l] = lessons[l]
<1>1. lessons \in [Lessons -> LessonDocs]
  BY DEF Shape, Typed
<1> QED BY <1>1 DEF WriteLesson, Written

\* Starts of rescheduling read their lesson.
LEMMA StartInformed ==
  ASSUME Shape, Informed, NEW p \in Procs, NEW l \in Lessons, lessons' = lessons,
         NEW handler, NEW pc, pc # "clear", NEW new, LoadLesson(p, handler, pc, l, new)
  PROVE  Fresh(p)' /\ \A k \in Lessons : Answerable(k)'
<1>1. proc'[p].pc = pc /\ proc'[p].lesson = l /\ proc'[p].seen = lessons[l]
  BY IdleFields, FieldsOfProc DEF LoadLesson
<1> QED BY <1>1 DEF Fresh, Informed, Answerable

\* Rescheduling: the proposal is stored with the status that waits for its
\* answer, and taken away after that status.
LEMMA RescheduleInformed ==
  ASSUME Shape, Informed, NEW p \in Procs, RescheduleStep(p)
  PROVE  Fresh(p)' /\ \A l \in Lessons : Answerable(l)'
<1>1. DOMAIN proc = Procs /\ FieldsType(proc[p]) /\ Fresh(p)
  BY FieldsOfProc DEF Informed
<1>2. CASE \/ \E l \in Lessons, new \in Requests : StartMove(p, l, new) \/ StartProposal(p, l, new)
           \/ \E l \in Lessons, action \in {"ACCEPTED", "REJECTED"} : StartRespond(p, l, action)
  <2>1. /\ lessons' = lessons
        /\ \E l \in Lessons, pc \in {"load", "save"} : \E handler, new : LoadLesson(p, handler, pc, l, new)
    <3>1. CASE \E l \in Lessons, new \in Requests : StartMove(p, l, new)
      BY <3>1, Zenon DEF StartMove
    <3>2. CASE \E l \in Lessons, new \in Requests : StartProposal(p, l, new)
      BY <3>2, Zenon DEF StartProposal
    <3>3. CASE \E l \in Lessons, action \in {"ACCEPTED", "REJECTED"} : StartRespond(p, l, action)
      BY <3>3, Zenon DEF StartRespond
    <3> QED BY <1>2, <3>1, <3>2, <3>3, Zenon
  <2> QED BY <2>1, StartInformed
<1>3. CASE ValidateMove(p) \/ SaveMove(p) \/ UnlockRejected(p)
  <2>1. lessons' = lessons /\ Reading(p)
    BY <1>3 DEF ValidateMove, SaveMove, UnlockRejected, At, Reading
  <2>2. \E pc \in {"move", "order"} : Goto(p, pc)
    BY <1>3, Zenon DEF ValidateMove, SaveMove, UnlockRejected
  <2>3. proc'[p].pc \in {"move", "order"} /\ proc'[p].lesson = proc[p].lesson /\ proc'[p].seen = proc[p].seen
    BY <2>2, FieldsOfProc DEF Goto
  <2> QED BY <2>1, <2>3, FreshKept
<1>4. CASE ValidateMoveFails(p) \/ SaveMoveFails(p) \/ SaveLessonFails(p) \/ UnlockRejectedFails(p) \/ SaveLock(p)
  <2>1. lessons' = lessons /\ proc'[p].pc = "idle"
    BY <1>1, <1>4, IdleFields DEF ValidateMoveFails, SaveMoveFails, SaveLessonFails, UnlockRejectedFails, SaveLock,
       Throw, Finish
  <2> QED BY <2>1, NothingRead DEF Reading, At
<1>5. ASSUME NEW range, NEW status \in LessonStatus \ {"PENDING_RESCHEDULE"}, NEW reschedule, Reading(p),
             WriteLesson(p, range, status, reschedule)
      PROVE  /\ proc[p].lesson \in Lessons /\ lessons'[proc[p].lesson].status = status
             /\ \A l \in Lessons : lessons'[l] = lessons[l] \/ lessons'[l].status # "PENDING_RESCHEDULE"
  <2>1. proc[p].lesson \in Lessons /\ proc[p].seen = lessons[proc[p].lesson]
    BY <1>1, <1>5 DEF Fresh
  <2>2. /\ lessons'[proc[p].lesson] = [range |-> range, status |-> status, reschedule |-> reschedule]
        /\ \A l \in Lessons \ {proc[p].lesson} : lessons'[l] = lessons[l]
    BY <1>5, <2>1, WrittenStatus
  <2> QED BY <1>5, <2>1, <2>2
<1>6. CASE SaveMovedLesson(p)
  <2>1. Reading(p) /\ \E range, reschedule : WriteLesson(p, range, "RESCHEDULED", reschedule)
    BY <1>6, Zenon DEF SaveMovedLesson, At, Reading, Movers
  <2>2. proc'[p].pc = "idle"
    BY <1>1, <1>6, IdleFields DEF SaveMovedLesson, Finish
  <2> QED BY <1>5, <2>1, <2>2, NothingRead DEF LessonStatus, Reading, At
<1>7. CASE SaveAccepted(p) \/ SaveRejected(p)
  <2>1. Reading(p) /\ \E status \in {"RESCHEDULED", "BOOKED"} : \E range, reschedule : WriteLesson(p, range, status, reschedule)
    <3>1. Reading(p)
      BY <1>7 DEF SaveAccepted, SaveRejected, At, Reading, Movers
    <3>2. CASE SaveAccepted(p)
      BY <3>1, <3>2, Zenon DEF SaveAccepted
    <3>3. CASE SaveRejected(p)
      BY <3>1, <3>3, Zenon DEF SaveRejected
    <3> QED BY <1>7, <3>2, <3>3
  <2>2. proc'[p].pc = "clear" /\ proc'[p].lesson = proc[p].lesson
    BY <1>7, FieldsOfProc DEF SaveAccepted, SaveRejected, Goto
  <2>3. /\ proc[p].lesson \in Lessons /\ lessons'[proc[p].lesson].status # "PENDING_RESCHEDULE"
        /\ \A l \in Lessons : lessons'[l] = lessons[l] \/ lessons'[l].status # "PENDING_RESCHEDULE"
    BY <1>5, <2>1 DEF LessonStatus
  <2>4. Fresh(p)'
    BY <2>2, <2>3 DEF Fresh, Reading, At
  <2> QED BY <2>3, <2>4 DEF Informed, Answerable
<1>8. CASE ClearReschedule(p)
  <2>1. /\ proc[p].pc = "clear" /\ lessons' = [lessons EXCEPT ![proc[p].lesson].reschedule = NoReschedule]
        /\ proc'[p].pc = "idle"
    BY <1>1, <1>8, IdleFields DEF ClearReschedule, At, Finish
  <2>2. proc[p].lesson \in Lessons /\ lessons[proc[p].lesson].status # "PENDING_RESCHEDULE"
    BY <1>1, <2>1 DEF Fresh
  <2>3. \A l \in Lessons : lessons'[l] = lessons[l] \/ lessons'[l].status # "PENDING_RESCHEDULE"
    BY <2>1, <2>2 DEF Shape, Typed, LessonDocs
  <2> QED BY <2>1, <2>3, NothingRead DEF Reading, At
<1>9. CASE SaveProposal(p)
  <2>1. /\ Reading(p) /\ proc[p].handler = "proposeSlot"
        /\ WriteLesson(p, proc[p].seen.range, "PENDING_RESCHEDULE", [status |-> "PENDING", proposed |-> proc[p].new])
    BY <1>9 DEF SaveProposal, At, Reading
  <2>2. proc'[p].pc = "load" /\ proc'[p].handler = "proposeSlot"
    BY <1>9, <2>1, FieldsOfProc DEF SaveProposal, Goto
  <2>3. proc[p].lesson \in Lessons /\ proc[p].seen = lessons[proc[p].lesson]
    BY <1>1, <2>1 DEF Fresh
  <2>4. /\ lessons'[proc[p].lesson] = [range |-> proc[p].seen.range, status |-> "PENDING_RESCHEDULE",
                                      reschedule |-> [status |-> "PENDING", proposed |-> proc[p].new]]
        /\ \A l \in Lessons \ {proc[p].lesson} : lessons'[l] = lessons[l]
    BY <2>1, <2>3, WrittenStatus
  <2>5. \A l \in Lessons : Answerable(l)'
    BY <2>4 DEF Informed, Answerable
  <2>6. Fresh(p)'
    BY <2>2 DEF Fresh, Reading, At, Movers
  <2> QED BY <2>5, <2>6
<1> QED BY <1>2, <1>3, <1>4, <1>6, <1>7, <1>8, <1>9, Zenon DEF RescheduleStep

\* Every step of the only execution keeps it informed.
LEMMA InformedStep ==
  ASSUME Shape, Informed, \A p, q \in Procs : p = q, [Next]_vars
  PROVE  Informed'
<1>1. ASSUME NEW p \in Procs, Step(p)
      PROVE  Informed'
  <2>1. Fresh(p)' /\ \A l \in Lessons : Answerable(l)'
    BY <1>1, OrderInformed, OtherInformed, CancelInformed, RescheduleInformed DEF Step
  <2> QED BY <2>1 DEF Informed
<1>2. CASE (\E o \in Orders : PrivatePayment(o)) \/ UNCHANGED vars
  <2>1. lessons' = lessons /\ proc' = proc
    BY <1>2 DEF PrivatePayment, vars
  <2> QED BY <2>1 DEF Informed, Fresh, Answerable, Reading, At
<1> QED BY <1>1, <1>2 DEF Next

\* When requests do not overlap, and wherever each of them dies, a lesson that
\* waits for an answer has a proposal to answer.
THEOREM PendingStaysAnswerable ==
  ASSUME \A p, q \in Procs : p = q
  PROVE  Spec => []PendingAnswerable
<1>1. Init => Shape /\ Informed
  <2>1. Init => Informed
    BY IdleFields DEF Init, Informed, Fresh, Answerable, Reading, At, NoLessonDoc, Movers
  <2> QED BY <2>1, ShapeInit
<1>2. Shape /\ Informed /\ [Next]_vars => Shape' /\ Informed'
  BY NextSteps, InformedStep
<1>3. Shape /\ Informed => PendingAnswerable
  BY DEF Informed, Answerable, PendingAnswerable
<1> QED BY <1>1, <1>2, <1>3, PTL DEF Spec

-----------------------------------------------------------------------------
(* Without the payment webhook: the orders and lessons requests work on *)

\* Public orders are paid from the wallet at once, and an order that was not
\* made yet has no lessons.
Ordered ==
  /\ \A o \in Public : orders[o].status \in {"NONE", "CONFIRMED"}
  /\ \A l \in Lessons : orders[OrderOf[l]].status = "NONE" => lessons[l].range = NoRange

\* What a request knows of its order: what it has yet to attach are lessons of
\* the order, and the lesson it reads is one of a confirmed order.
Wanted(p, l) == /\ OrderOf[l] = proc[p].order
                /\ lessons[l].range = proc[p].want[l]
                /\ lessons[l].status = "BOOKED"
Own(p) ==
  /\ proc[p].handler \notin {"handlePublicOrderSuccess", "unlockSlots"}
  /\ proc[p].handler = "createPrivateOrder" =>
       /\ proc[p].order \in Private \cap Orders
       /\ proc[p].pc \in {"load", "loaded"} => orders[proc[p].order].status = "NONE"
  /\ proc[p].pc = "attach" \/ proc[p].handler = "createOrder" => \A l \in proc[p].todo : Wanted(p, l)
  /\ Reading(p) => /\ proc[p].order = OrderOf[proc[p].lesson] /\ proc[p].order \in Public
                   /\ orders[proc[p].order].status = "CONFIRMED"
                   /\ proc[p].handler \in Movers \cup {"REJECTED"} => proc[p].was = "CONFIRMED"
Orderly == Ordered /\ \A p \in Procs : Own(p)

\* A request that ends.
LEMMA EndsOwn ==
  ASSUME Shape, NEW p \in Procs, Finish(p)
  PROVE  Own(p)'
<1>1. proc'[p].pc = "idle" /\ proc'[p].handler = "none"
  BY FinishStep, IdleFields DEF Finish, Shape, Typed
<1> QED BY <1>1 DEF Own, Reading, At

\* A request that goes on without a change of orders or lessons.
LEMMA GoesOwn ==
  ASSUME Shape, Orderly, NEW p \in Procs, orders' = orders, lessons' = lessons,
         proc'[p].handler = proc[p].handler, proc'[p].order = proc[p].order,
         proc'[p].lesson = proc[p].lesson, proc'[p].was = proc[p].was, proc'[p].want = proc[p].want,
         proc'[p].todo \subseteq proc[p].todo,
         proc'[p].pc = "attach" => proc[p].pc = "attach" \/ proc[p].handler = "createOrder",
         proc'[p].pc \in {"load", "loaded"} => proc[p].pc \in {"load", "loaded"} \/ proc[p].handler # "createPrivateOrder",
         Reading(p)' => Reading(p)
  PROVE  Orderly' \/ (Ordered' /\ Own(p)')
<1>1. Ordered'
  BY DEF Orderly, Ordered
<1>2. Own(p)
  BY DEF Orderly
<1>3. Own(p)'
  BY <1>2 DEF Own, Wanted
<1> QED BY <1>1, <1>3

\* Nothing but the lessons of an order that has some is written.
LEMMA LessonsOrdered ==
  ASSUME Shape, Orderly, orders' = orders,
         \A l \in Lessons : lessons'[l].range = lessons[l].range \/ orders[OrderOf[l]].status # "NONE"
  PROVE  Ordered'
BY DEF Orderly, Ordered

\* The steps of bookings.
LEMMA OrderOrderly ==
  ASSUME Shape, Orderly, ByStripe = {}, NEW p \in Procs, OrderStep(p)
  PROVE  Ordered' /\ Own(p)'
<1>1. FieldsType(proc[p]) /\ Own(p) /\ DOMAIN proc = Procs
  BY FieldsOfProc DEF Orderly
<1>2. orders \in [Orders -> OrderDocs] /\ lessons \in [Lessons -> LessonDocs] /\ OrderOf \in [Lessons -> Orders]
  BY LessonsAssumption DEF Shape, Typed, OrderDocs
<1>3. ASSUME NEW o \in Orders, NEW status, status # "NONE", o \in Public => status = "CONFIRMED",
             \/ orders' = [orders EXCEPT ![o].status = status]
             \/ orders' = [orders EXCEPT ![o].status = status, ![o].paid = TRUE],
             lessons' = lessons \/ \E w : Ask(o, w)
      PROVE  Ordered'
  <2>1. /\ orders'[o].status = status /\ \A u \in Orders \ {o} : orders'[u] = orders[u]
    BY <1>3, StatusWritten
  <2>2. \A l \in Lessons : OrderOf[l] # o => lessons'[l] = lessons[l]
    BY <1>3 DEF Ask
  <2>3. \A u \in Public : orders'[u].status \in {"NONE", "CONFIRMED"}
    BY <1>3, <2>1 DEF Orderly, Ordered, Public
  <2>4. ASSUME NEW l \in Lessons, orders'[OrderOf[l]].status = "NONE" PROVE lessons'[l].range = NoRange
    <3>1. OrderOf[l] # o /\ OrderOf[l] \in Orders
      BY <1>2, <1>3, <2>1, <2>4
    <3>2. orders[OrderOf[l]].status = "NONE"
      BY <2>1, <2>4, <3>1
    <3> QED BY <2>2, <3>1, <3>2 DEF Orderly, Ordered
  <2> QED BY <2>3, <2>4 DEF Ordered
<1>4. ASSUME NEW o \in Orders, NEW w \in Wishes(o), Ask(o, w)
      PROVE  \A l \in LessonsOf(o) : OrderOf[l] = o /\ lessons'[l].range = w[l] /\ lessons'[l].status = "BOOKED"
  BY <1>4 DEF Ask, LessonsOf, NoLessonDoc
<1>5. CASE \E o \in Orders : CreateOrder(p, o)
  <2>1. PICK o \in Orders : CreateOrder(p, o)
    BY <1>5
  <2>2. o \in ByWallet /\ o \in Public
    BY <2>1 DEF CreateOrder, ByStripe, Public
  <2>3. PICK w \in Wishes(o) :
          /\ Ask(o, w)
          /\ orders' = [orders EXCEPT ![o].status = "CONFIRMED", ![o].paid = TRUE]
          /\ proc' = [proc EXCEPT ![p] = [Idle EXCEPT
               !.pc = "load", !.handler = "createOrder", !.order = o, !.want = w, !.todo = LessonsOf(o)]]
    BY <2>1, <2>2 DEF CreateOrder
  <2>4. Ordered'
    BY <1>3, <2>3
  <2>5. /\ proc'[p].pc = "load" /\ proc'[p].handler = "createOrder" /\ proc'[p].order = o
        /\ proc'[p].want = w /\ proc'[p].todo = LessonsOf(o)
    BY <1>1, <2>3, IdleFields
  <2>6. \A l \in LessonsOf(o) : OrderOf[l] = o /\ lessons'[l].range = w[l] /\ lessons'[l].status = "BOOKED"
    BY <1>4, <2>3
  <2> QED BY <2>4, <2>5, <2>6 DEF Own, Wanted, Reading, At, Movers
<1>6. CASE \E o \in Orders : StartPrivateOrder(p, o)
  <2>1. PICK o \in Orders : StartPrivateOrder(p, o)
    BY <1>6
  <2>2. /\ proc'[p].pc = "load" /\ proc'[p].handler = "createPrivateOrder" /\ proc'[p].order = o
        /\ o \in Private /\ orders[o].status = "NONE" /\ orders' = orders /\ lessons' = lessons
    BY <1>1, <2>1, IdleFields DEF StartPrivateOrder
  <2>3. Ordered'
    BY <2>2, LessonsOrdered
  <2> QED BY <2>2, <2>3 DEF Own, Reading, At, Movers
<1>7. CASE CreatePrivateOrder(p)
  <2>1. proc[p].handler = "createPrivateOrder" /\ proc[p].order \in Private /\ proc[p].order \in Orders
    BY <1>1, <1>7 DEF CreatePrivateOrder, At, Own
  <2> DEFINE o == proc[p].order
  <2>2. PICK w \in Wishes(o) :
          /\ Ask(o, w) /\ orders' = [orders EXCEPT ![o].status = "PENDING_PAYMENT"]
          /\ proc' = [proc EXCEPT ![p].pc = "attach", ![p].want = w, ![p].todo = LessonsOf(o)]
    BY <1>7 DEF CreatePrivateOrder
  <2>3. Ordered'
    BY <1>3, <2>1, <2>2 DEF Public
  <2>4. /\ proc'[p].pc = "attach" /\ proc'[p].handler = proc[p].handler /\ proc'[p].order = o
        /\ proc'[p].want = w /\ proc'[p].todo = LessonsOf(o)
    BY <1>1, <2>2, FieldsOfProc
  <2>5. \A l \in LessonsOf(o) : OrderOf[l] = o /\ lessons'[l].range = w[l] /\ lessons'[l].status = "BOOKED"
    BY <1>4, <2>1, <2>2
  <2> QED BY <2>1, <2>3, <2>4, <2>5 DEF Own, Wanted, Reading, At, Movers
<1>8. CASE AttachSlot(p)
  <2>1. PICK l, s : proc' = [Attached(p, s, proc[p].want[l], Gap) EXCEPT ![p].todo = @ \ {l}]
    BY <1>8, Zenon DEF AttachSlot
  <2>2. /\ proc'[p].pc = proc[p].pc /\ proc'[p].handler = proc[p].handler /\ proc'[p].order = proc[p].order
        /\ proc'[p].lesson = proc[p].lesson /\ proc'[p].was = proc[p].was /\ proc'[p].want = proc[p].want
        /\ proc'[p].todo = proc[p].todo \ {l}
    BY <2>1, FieldsOfProc DEF Attached
  <2>3. orders' = orders /\ lessons' = lessons
    BY <1>8 DEF AttachSlot
  <2>4. Own(p)'
    BY <1>1, <2>2, <2>3 DEF Own, Wanted, Reading, At
  <2> QED BY <2>3, <2>4, LessonsOrdered
<1>9. CASE AttachFails(p) \/ SaveBookingFails(p)
  <2>1. FailBooking(p)
    BY <1>9 DEF AttachFails, SaveBookingFails
  <2>2. orders' = orders /\ lessons' = lessons /\ proc[p].handler \in BookingHandlers
    BY <1>9, <2>1 DEF FailBooking, AttachFails, SaveBookingFails, At
  <2>3. CASE proc[p].handler = "createOrder"
    <3>1. Finish(p)
      BY <2>1, <2>3 DEF FailBooking, Finish
    <3> QED BY <2>2, <3>1, EndsOwn, LessonsOrdered
  <2>4. CASE proc[p].handler = "createPrivateOrder"
    <3>1. proc'[p].pc = "delete" /\ proc'[p].handler = "createPrivateOrder" /\ proc'[p].order = proc[p].order
      BY <1>1, <2>1, <2>4, IdleFields DEF FailBooking
    <3>2. Own(p)'
      BY <1>1, <2>4, <3>1 DEF Own, Reading, At, Movers
    <3> QED BY <2>2, <3>2, LessonsOrdered
  <2> QED BY <2>2, <2>3, <2>4 DEF BookingHandlers
<1>10. CASE CreatePrivateOrderFails(p) \/ SaveBooking(p)
  <2>1. Finish(p) /\ orders' = orders /\ lessons' = lessons
    BY <1>10 DEF CreatePrivateOrderFails, SaveBooking, Throw
  <2> QED BY <2>1, EndsOwn, LessonsOrdered
<1>11. CASE DeletePrivateOrder(p)
  <2>1. proc[p].order \in Private /\ proc[p].pc = "delete"
    BY <1>1, <1>11 DEF DeletePrivateOrder, At, Own
  <2>2. Finish(p) /\ lessons' = lessons /\ orders' = [orders EXCEPT ![proc[p].order].status = "DELETED"]
    BY <1>11 DEF DeletePrivateOrder
  <2>3. CASE proc[p].order \in Orders
    BY <1>3, <2>1, <2>2, <2>3, EndsOwn DEF Public
  <2>4. CASE proc[p].order \notin Orders
    <3>1. orders' = orders
      BY <1>2, <2>2, <2>4
    <3> QED BY <2>2, <3>1, EndsOwn, LessonsOrdered
  <2> QED BY <2>3, <2>4
<1> QED BY <1>5, <1>6, <1>7, <1>8, <1>9, <1>10, <1>11 DEF OrderStep

\* The webhook and its refunds are never at work.
LEMMA NoWebhook ==
  ASSUME Orderly, ByStripe = {}, NEW p \in Procs
  PROVE  ~WebhookStep(p)
<1>1. Own(p)
  BY DEF Orderly
<1> QED BY <1>1 DEF Own, WebhookStep, RecordCharge, UndoOrder, LockOrder, ReloadOrder, ForceLock, AttachPaidSlot,
         SaveAttached, SaveAttachedFails, ConfirmOrder, WalletCreditFails, RollbackOrder, UnlockSlots, At

\* An edit of a lesson that leaves the orders.
LEMMA LessonEdited ==
  ASSUME Shape, Orderly, NEW p \in Procs, orders' = orders,
         \A l \in Lessons : lessons'[l].range = lessons[l].range \/ l = proc[p].lesson,
         Reading(p), proc'[p].handler \in {"none", "cancelSlot", "ACCEPTED", "REJECTED", "proposeSlot"},
         proc'[p].pc \notin {"attach", "save", "loaded", "move", "order"},
         proc'[p].pc = "load" => proc'[p].handler = "proposeSlot"
  PROVE  Ordered' /\ Own(p)'
<1>1. orders[OrderOf[proc[p].lesson]].status # "NONE"
  BY DEF Orderly, Own
<1>2. Ordered'
  BY <1>1, LessonsOrdered
<1> QED BY <1>2 DEF Own, Reading, At, Movers

\* The steps of cancellations.
LEMMA CancelOrderly ==
  ASSUME Shape, Orderly, Informed, ByStripe = {}, NEW p \in Procs, CancelStep(p)
  PROVE  Ordered' /\ Own(p)'
<1>1. FieldsType(proc[p]) /\ Own(p) /\ Fresh(p) /\ DOMAIN proc = Procs
  BY FieldsOfProc DEF Orderly, Informed
<1>2. CASE \E l \in Lessons : StartCancelSlot(p, l)
  <2>1. PICK l \in Lessons : StartCancelSlot(p, l)
    BY <1>2
  <2>2. /\ proc'[p].pc = "save" /\ proc'[p].handler = "cancelSlot" /\ proc'[p].order = OrderOf[l]
        /\ proc'[p].lesson = l /\ orders' = orders /\ lessons' = lessons /\ OrderOf[l] \in Public
        /\ orders[OrderOf[l]].status \in SchemaStatus
    BY <1>1, <2>1, IdleFields DEF StartCancelSlot
  <2>3. orders[OrderOf[l]].status = "CONFIRMED"
    BY <2>2 DEF Orderly, Ordered, SchemaStatus
  <2>4. Ordered'
    BY <2>2, LessonsOrdered
  <2> QED BY <2>2, <2>3, <2>4 DEF Own, Reading, At, Movers
<1>3. CASE SaveCancelled(p)
  <2>1. /\ proc'[p].pc = "free" /\ proc'[p].handler = "cancelSlot" /\ Reading(p) /\ orders' = orders
        /\ lessons' = [lessons EXCEPT ![proc[p].lesson].status = "CANCELLED"]
    BY <1>3, FieldsOfProc DEF SaveCancelled, Goto, At, Reading
  <2>2. \A l \in Lessons : lessons'[l].range = lessons[l].range \/ l = proc[p].lesson
    BY <2>1 DEF Shape, Typed
  <2> QED BY <2>1, <2>2, LessonEdited
<1>4. CASE \E o \in Orders : CancelPrivateOrder(p, o)
  <2>1. PICK o \in Orders : CancelPrivateOrder(p, o)
    BY <1>4
  <2>2. /\ proc'[p].pc = "free" /\ proc'[p].handler = "cancelPrivateOrder" /\ lessons' = lessons
        /\ orders' = [orders EXCEPT ![o].status = "CANCELLED"] /\ o \in Private /\ orders[o].status # "NONE"
    BY <1>1, <2>1, IdleFields DEF CancelPrivateOrder
  <2>3. orders'[o].status = "CANCELLED" /\ \A u \in Orders \ {o} : orders'[u] = orders[u]
    BY <2>2, StatusWritten
  <2>4. Ordered'
    BY <2>2, <2>3, LessonsAssumption DEF Orderly, Ordered, Public
  <2> QED BY <2>2, <2>4 DEF Own, Reading, At, Movers
<1>5. CASE FreeSlotRange(p) \/ UnlockPrivateOrderSlots(p)
  <2>1. Finish(p) /\ orders' = orders /\ lessons' = lessons
    BY <1>5 DEF FreeSlotRange, UnlockPrivateOrderSlots
  <2> QED BY <2>1, EndsOwn, LessonsOrdered
<1> QED BY <1>2, <1>3, <1>4, <1>5 DEF CancelStep

\* Rescheduling starts for a lesson of a confirmed order.
LEMMA StartOrderly ==
  ASSUME Shape, Orderly, NEW p \in Procs, NEW l \in Lessons, orders' = orders, lessons' = lessons,
         OrderOf[l] \in Public, Exists(OrderOf[l]), NEW pc \in {"load", "save"},
         NEW handler \in Movers \cup {"REJECTED", "proposeSlot"}, NEW new, LoadLesson(p, handler, pc, l, new)
  PROVE  Ordered' /\ Own(p)'
<1>1. /\ proc'[p].pc = pc /\ proc'[p].handler = handler /\ proc'[p].order = OrderOf[l]
      /\ proc'[p].lesson = l /\ proc'[p].was = orders[OrderOf[l]].status
  BY IdleFields, FieldsOfProc DEF LoadLesson
<1>2. orders[OrderOf[l]].status = "CONFIRMED"
  BY DEF Orderly, Ordered, Exists
<1>3. Ordered'
  BY LessonsOrdered
<1> QED BY <1>1, <1>2, <1>3 DEF Own, Reading, At, Movers

\* The steps of rescheduling.
LEMMA RescheduleOrderly ==
  ASSUME Shape, Orderly, Informed, NEW p \in Procs, RescheduleStep(p)
  PROVE  Ordered' /\ Own(p)'
<1>1. FieldsType(proc[p]) /\ Own(p) /\ Fresh(p) /\ DOMAIN proc = Procs
  BY FieldsOfProc DEF Orderly, Informed
<1>2. CASE \/ \E l \in Lessons, new \in Requests : StartMove(p, l, new) \/ StartProposal(p, l, new)
           \/ \E l \in Lessons, action \in {"ACCEPTED", "REJECTED"} : StartRespond(p, l, action)
  <2>1. CASE \E l \in Lessons, new \in Requests : StartMove(p, l, new)
    BY <2>1, StartOrderly DEF StartMove, Reschedulable, Movers
  <2>2. CASE \E l \in Lessons, new \in Requests : StartProposal(p, l, new)
    BY <2>2, StartOrderly DEF StartProposal, Reschedulable, Movers
  <2>3. CASE \E l \in Lessons, action \in {"ACCEPTED", "REJECTED"} : StartRespond(p, l, action)
    BY <2>3, StartOrderly DEF StartRespond, Movers
  <2> QED BY <1>2, <2>1, <2>2, <2>3, Zenon
<1>3. CASE ValidateMove(p) \/ SaveMove(p) \/ UnlockRejected(p)
  <2>1. orders' = orders /\ lessons' = lessons /\ Reading(p) /\ proc[p].handler \in Movers \cup {"REJECTED"}
    BY <1>3 DEF ValidateMove, SaveMove, UnlockRejected, At, Reading
  <2>2. \E pc \in {"move", "order"} : Goto(p, pc)
    BY <1>3, Zenon DEF ValidateMove, SaveMove, UnlockRejected
  <2>3. /\ proc'[p].pc \in {"move", "order"} /\ proc'[p].lesson = proc[p].lesson /\ proc'[p].was = proc[p].was
        /\ proc'[p].handler = proc[p].handler /\ proc'[p].order = proc[p].order
    BY <2>2, FieldsOfProc DEF Goto
  <2>4. Own(p)'
    BY <1>1, <2>1, <2>3 DEF Own, Reading, At, Movers
  <2> QED BY <2>1, <2>4, LessonsOrdered
<1>4. CASE ValidateMoveFails(p) \/ SaveMoveFails(p) \/ SaveLessonFails(p) \/ UnlockRejectedFails(p) \/ SaveLock(p)
  <2>1. Finish(p) /\ orders' = orders /\ lessons' = lessons
    BY <1>4 DEF ValidateMoveFails, SaveMoveFails, SaveLessonFails, UnlockRejectedFails, SaveLock, Throw
  <2> QED BY <2>1, EndsOwn, LessonsOrdered
<1>5. CASE SaveMovedLesson(p) \/ SaveAccepted(p) \/ SaveRejected(p) \/ SaveProposal(p)
  <2>1. /\ orders' = orders /\ Reading(p) /\ \E range, status, reschedule : WriteLesson(p, range, status, reschedule)
    <3>1. CASE SaveMovedLesson(p)
      <4>1. Reading(p)
        BY <3>1 DEF SaveMovedLesson, Reading, At, Movers
      <4> QED BY <3>1, <4>1, Zenon DEF SaveMovedLesson
    <3>2. CASE SaveAccepted(p)
      <4>1. Reading(p)
        BY <3>2 DEF SaveAccepted, Reading, At, Movers
      <4> QED BY <3>2, <4>1, Zenon DEF SaveAccepted
    <3>3. CASE SaveRejected(p)
      <4>1. Reading(p)
        BY <3>3 DEF SaveRejected, Reading, At, Movers
      <4> QED BY <3>3, <4>1, Zenon DEF SaveRejected
    <3>4. CASE SaveProposal(p)
      <4>1. Reading(p)
        BY <3>4 DEF SaveProposal, Reading, At, Movers
      <4> QED BY <3>4, <4>1, Zenon DEF SaveProposal
    <3> QED BY <1>5, <3>1, <3>2, <3>3, <3>4
  <2>2. \A l \in Lessons : lessons'[l].range = lessons[l].range \/ l = proc[p].lesson
    BY <2>1 DEF WriteLesson, Shape, Typed
  <2>3. /\ proc'[p].handler \in {"none", "ACCEPTED", "REJECTED", "proposeSlot"}
        /\ proc'[p].pc \in {"idle", "clear", "load"}
        /\ proc'[p].pc = "load" => proc'[p].handler = "proposeSlot"
    <3>1. CASE SaveMovedLesson(p)
      BY <1>1, <3>1, IdleFields DEF SaveMovedLesson, Finish
    <3>2. CASE SaveAccepted(p)
      BY <3>2, FieldsOfProc DEF SaveAccepted, Goto, At
    <3>3. CASE SaveRejected(p)
      BY <3>3, FieldsOfProc DEF SaveRejected, Goto, At
    <3>4. CASE SaveProposal(p)
      BY <3>4, FieldsOfProc DEF SaveProposal, Goto, At
    <3> QED BY <1>5, <3>1, <3>2, <3>3, <3>4
  <2>4. /\ proc'[p].handler \in {"none", "cancelSlot", "ACCEPTED", "REJECTED", "proposeSlot"}
        /\ proc'[p].pc \notin {"attach", "save", "loaded", "move", "order"}
    BY <2>3
  <2>5. proc'[p].pc = "load" => proc'[p].handler = "proposeSlot"
    BY <2>3
  <2>6. orders' = orders /\ Reading(p)
    BY <2>1
  <2> QED BY <2>2, <2>4, <2>5, <2>6, LessonEdited
<1>6. CASE ClearReschedule(p)
  <2>1. Finish(p) /\ orders' = orders /\ lessons' = [lessons EXCEPT ![proc[p].lesson].reschedule = NoReschedule]
    BY <1>6 DEF ClearReschedule
  <2>2. \A l \in Lessons : lessons'[l].range = lessons[l].range
    BY <2>1 DEF Shape, Typed, LessonDocs
  <2> QED BY <2>1, <2>2, EndsOwn, LessonsOrdered
<1> QED BY <1>2, <1>3, <1>4, <1>5, <1>6, Zenon DEF RescheduleStep

\* Edits of the availability, the cron, and loads.
LEMMA EditOrderly ==
  ASSUME Shape, Orderly, NEW p \in Procs, EditStep(p) \/ LoadProfile(p)
  PROVE  Ordered' /\ Own(p)'
<1>1. FieldsType(proc[p]) /\ Own(p) /\ DOMAIN proc = Procs
  BY FieldsOfProc DEF Orderly
<1>2. orders' = orders /\ lessons' = lessons
  BY DEF EditStep, StartEdit, SaveDay, SaveWeek, EditFails, SaveReleased, LoadProfile, Throw
<1>3. Ordered'
  BY <1>2, LessonsOrdered
<1>4. CASE LoadProfile(p)
  <2>1. /\ proc[p].pc = "load" /\ proc'[p].handler = proc[p].handler /\ proc'[p].order = proc[p].order
        /\ proc'[p].lesson = proc[p].lesson /\ proc'[p].was = proc[p].was /\ proc'[p].want = proc[p].want
        /\ proc'[p].todo = proc[p].todo
        /\ proc'[p].pc = IF proc[p].handler \in {"createOrder", "handlePublicOrderSuccess"} THEN "attach" ELSE "loaded"
    BY <1>4, FieldsOfProc DEF LoadProfile
  <2>2. Own(p)'
    BY <1>1, <1>2, <2>1 DEF Own, Wanted, Reading, At
  <2> QED BY <1>3, <2>2
<1>5. CASE \E handler \in {"updateDaySlots", "updateWeek", "releaseExpiredTempLocks"} : StartEdit(p, handler)
  <2>1. proc'[p].handler \in {"updateDaySlots", "updateWeek", "releaseExpiredTempLocks"} /\ proc'[p].pc = "load"
    BY <1>1, <1>5, IdleFields DEF StartEdit
  <2> QED BY <1>3, <2>1 DEF Own, Reading, At, Movers
<1>6. ASSUME Finish(p) PROVE Ordered' /\ Own(p)'
  BY <1>3, <1>6, EndsOwn
<1> QED BY <1>4, <1>5, <1>6 DEF EditStep, SaveDay, SaveWeek, EditFails, SaveReleased, Throw

\* Every step keeps orders, lessons and requests in order.
LEMMA OrderlyStep ==
  ASSUME Shape, Orderly, Informed, ByStripe = {}, \A p, q \in Procs : p = q, [Next]_vars
  PROVE  Orderly'
<1>1. ASSUME NEW p \in Procs, Step(p)
      PROVE  Orderly'
  <2>1. CASE Crash(p)
    BY <2>1, EndsOwn, LessonsOrdered DEF Crash, Throw, Orderly
  <2>2. CASE ~Crash(p)
    <3>1. Ordered' /\ Own(p)'
      BY <1>1, <2>2, NoWebhook, OrderOrderly, CancelOrderly, RescheduleOrderly, EditOrderly DEF Step
    <3> QED BY <3>1 DEF Orderly
  <2> QED BY <2>1, <2>2
<1>2. ASSUME NEW o \in Orders, PrivatePayment(o)
      PROVE  Orderly'
  <2>1. PICK status \in {"CONFIRMED", "CANCELLED"} :
          \/ orders' = [orders EXCEPT ![o].status = status]
          \/ orders' = [orders EXCEPT ![o].status = status, ![o].paid = TRUE]
    BY <1>2 DEF PrivatePayment
  <2>2. orders'[o].status = status /\ \A u \in Orders \ {o} : orders'[u] = orders[u]
    BY <2>1, StatusWritten
  <2>3. lessons' = lessons /\ proc' = proc /\ o \in Private /\ orders[o].status # "NONE"
    BY <1>2 DEF PrivatePayment, Exists
  <2>4. Ordered'
    BY <2>2, <2>3, LessonsAssumption DEF Orderly, Ordered, Public
  <2>5. ASSUME NEW p \in Procs PROVE Own(p)'
    BY <2>2, <2>3 DEF Orderly, Own, Wanted, Reading, At, Public
  <2> QED BY <2>4, <2>5 DEF Orderly
<1>3. CASE UNCHANGED vars
  BY <1>3 DEF vars, Orderly, Ordered, Own, Wanted, Reading, At
<1> QED BY <1>1, <1>2, <1>3 DEF Next

-----------------------------------------------------------------------------
(* One request at a time, none of which dies: the bookings belong to lessons *)

\* The bookings of a document belong to lessons that were not cancelled.
DocBacked(doc) == \A r \in DOMAIN doc : doc[r].by # NoOrder => Backed(r, doc[r].by)

\* Between its two saves p has either cancelled a lesson whose range is still
\* booked, or moved a booking whose lesson still has its old range.
Freeing(p) == At(p, "free", {"cancelSlot"})
Moving(p) == At(p, "order", Movers)
Booking(r) == slots[r].by # NoOrder
Given(p, r) == \/ r = proc[p].new /\ slots[r].by = proc[p].order
               \/ r # proc[p].seen.range /\ Backed(r, slots[r].by)

Backs(p) ==
  /\ ~Freeing(p) /\ ~Moving(p) => DocBacked(slots)
  /\ Freeing(p) => \A r \in DOMAIN slots \ {proc[p].seen.range} : Booking(r) => Backed(r, slots[r].by)
  /\ Moving(p) => \A r \in DOMAIN slots : Booking(r) => Given(p, r)
  /\ proc[p].pc \in {"loaded", "move"} => proc[p].doc = slots
  /\ proc[p].pc = "attach" => DocBacked(proc[p].doc)
Backing == (Procs = {} => DocBacked(slots)) /\ \A p \in Procs : Backs(p)

\* A booking stays backed by a lesson that keeps its range and its status.
LEMMA BackedKept ==
  ASSUME NEW r, NEW o, Backed(r, o),
         \A l \in Lessons : lessons[l].range = r /\ lessons[l].status # "CANCELLED" =>
           lessons'[l].range = r /\ lessons'[l].status # "CANCELLED"
  PROVE  Backed(r, o)'
BY DEF Backed, LessonsOf

\* The calendar and the lessons stay as they are.
LEMMA SameBacked ==
  ASSUME NEW p \in Procs, slots' = slots, lessons' = lessons, DocBacked(slots),
         ~Freeing(p)', ~Moving(p)',
         proc'[p].pc \in {"loaded", "move"} => proc'[p].doc = slots,
         proc'[p].pc = "attach" => DocBacked(proc'[p].doc)
  PROVE  Backs(p)'
<1>1. ASSUME NEW doc, DocBacked(doc)
      PROVE  \A r \in DOMAIN doc : doc[r].by # NoOrder => Backed(r, doc[r].by)'
  BY <1>1, BackedKept DEF DocBacked
<1>2. DocBacked(slots)'
  BY <1>1 DEF DocBacked
<1>3. proc'[p].pc = "attach" => DocBacked(proc[p].doc)'
  BY <1>1 DEF DocBacked
<1> QED BY <1>2, <1>3 DEF Backs

\* The request ends.
LEMMA EndsBacked ==
  ASSUME Shape, NEW p \in Procs, Finish(p), lessons' = lessons,
         \A r \in DOMAIN slots' : slots'[r].by # NoOrder => Backed(r, slots'[r].by)
  PROVE  Backs(p)'
<1>1. proc'[p].pc = "idle" /\ proc'[p].handler = "none"
  BY FinishStep, IdleFields DEF Finish, Shape, Typed
<1>2. DocBacked(slots)'
  BY BackedKept DEF DocBacked
<1> QED BY <1>1, <1>2 DEF Backs, Freeing, Moving, At

\* An edit that books nothing.
Shrinks(doc, edited) ==
  /\ IsDoc(edited)
  /\ \A r \in DOMAIN edited : edited[r].by # NoOrder => r \in DOMAIN doc /\ doc[r].by = edited[r].by

\* Every booking of what is saved was stored or is one of the copy.
LEMMA SaveBy ==
  ASSUME NEW cur, IsDoc(cur), NEW loaded, IsDoc(loaded), NEW edited, IsDoc(edited), NEW dirty,
         NEW r \in DOMAIN Save(cur, loaded, edited, dirty)
  PROVE  LET by == Save(cur, loaded, edited, dirty)[r].by
         IN  \/ r \in DOMAIN edited /\ edited[r].by = by
             \/ r \in DOMAIN cur /\ cur[r].by = by
<1>1. r \in SavedRanges(cur, edited, dirty)
  BY SaveDoc
<1>2. CASE r.date \in dirty
  <2>1. r \in DOMAIN edited /\ edited[r] \in Meta
    BY <1>1, <1>2 DEF SavedRanges, IsDoc
  <2>2. Save(cur, loaded, edited, dirty)[r] = Stored(edited[r])
    BY <1>1, <1>2 DEF Save, SavedRanges
  <2> QED BY <2>1, <2>2, StoredMeta
<1>3. CASE r.date \notin dirty
  <2>1. r \in DOMAIN cur
    BY <1>1, <1>3 DEF SavedRanges
  <2>2. CASE r \in DOMAIN loaded \cap DOMAIN edited
    <3>1. Save(cur, loaded, edited, dirty)[r] = WriteFields(cur[r], loaded[r], edited[r])
      BY <1>1, <1>3, <2>2 DEF Save, SavedRanges
    <3> QED BY <2>1, <2>2, <3>1 DEF WriteFields, Written
  <2>3. CASE r \notin DOMAIN loaded \cap DOMAIN edited
    <3>1. Save(cur, loaded, edited, dirty)[r] = cur[r]
      BY <1>1, <1>3, <2>3 DEF Save, SavedRanges
    <3> QED BY <2>1, <3>1
  <2> QED BY <2>2, <2>3
<1> QED BY <1>2, <1>3

\* What was loaded as it is stored is saved as it was edited.
LEMMA SaveByFresh ==
  ASSUME NEW cur, IsDoc(cur), NEW edited, IsDoc(edited), NEW dirty,
         NEW r \in DOMAIN Save(cur, cur, edited, dirty)
  PROVE  LET by == Save(cur, cur, edited, dirty)[r].by
         IN  \/ r \in DOMAIN edited /\ edited[r].by = by
             \/ r \in DOMAIN cur \ DOMAIN edited /\ r.date \notin dirty /\ cur[r].by = by
<1>1. r \in SavedRanges(cur, edited, dirty)
  BY SaveDoc
<1>2. CASE r.date \in dirty
  <2>1. r \in DOMAIN edited /\ edited[r] \in Meta
    BY <1>1, <1>2 DEF SavedRanges, IsDoc
  <2>2. Save(cur, cur, edited, dirty)[r] = Stored(edited[r])
    BY <1>1, <1>2 DEF Save, SavedRanges
  <2> QED BY <2>1, <2>2, StoredMeta
<1>3. CASE r.date \notin dirty
  <2>1. r \in DOMAIN cur
    BY <1>1, <1>3 DEF SavedRanges
  <2>2. CASE r \in DOMAIN edited
    <3>1. Save(cur, cur, edited, dirty)[r] = WriteFields(cur[r], cur[r], edited[r])
      BY <1>1, <1>3, <2>1, <2>2 DEF Save, SavedRanges
    <3> QED BY <2>1, <2>2, <3>1 DEF WriteFields, Written
  <2>3. CASE r \notin DOMAIN edited
    <3>1. Save(cur, cur, edited, dirty)[r] = cur[r]
      BY <1>1, <1>3, <2>3 DEF Save, SavedRanges
    <3> QED BY <1>3, <2>1, <2>3, <3>1
  <2> QED BY <2>2, <2>3
<1> QED BY <1>2, <1>3

\* Saving a copy whose bookings are backed.
LEMMA SaveBacked ==
  ASSUME Shape, NEW p \in Procs, NEW edited, IsDoc(edited), NEW dirty,
         DocBacked(slots), DocBacked(edited), SaveProfile(p, edited, dirty)
  PROVE  \A r \in DOMAIN slots' : slots'[r].by # NoOrder => Backed(r, slots'[r].by)
<1>1. CASE slots' = slots
  BY <1>1 DEF DocBacked
<1>2. CASE slots' = Save(slots, proc[p].doc, edited, dirty)
  <2>1. IsDoc(slots) /\ IsDoc(proc[p].doc)
    BY FieldsOfProc DEF Shape
  <2>2. ASSUME NEW r \in DOMAIN slots', slots'[r].by # NoOrder
        PROVE  Backed(r, slots'[r].by)
    <3>1. \/ r \in DOMAIN edited /\ edited[r].by = slots'[r].by
          \/ r \in DOMAIN slots /\ slots[r].by = slots'[r].by
      BY <1>2, <2>1, <2>2, SaveBy
    <3> QED BY <2>2, <3>1 DEF DocBacked
  <2> QED BY <2>2
<1> QED BY <1>1, <1>2 DEF SaveProfile

\* An edit that books nothing keeps the bookings backed.
LEMMA ShrunkBacked ==
  ASSUME NEW doc, NEW edited, Shrinks(doc, edited), DocBacked(doc)
  PROVE  DocBacked(edited) /\ IsDoc(edited)
BY DEF Shrinks, DocBacked

\* The edits of fields book nothing.
LEMMA FieldsShrink ==
  ASSUME NEW doc, IsDoc(doc), NEW edited, SameBookings(doc, edited)
  PROVE  Shrinks(doc, edited)
BY DEF Shrinks, SameBookings, SameRanges

\* Nor does a new layout.
LEMMA RelaidShrinks ==
  ASSUME Shape, NEW p \in Procs, NEW days, NEW layout \in LayoutsOf(days),
         NEW kept \in SUBSET (OnDates(proc[p].doc, days) \cap layout),
         IsDoc(Relaid(p, days, layout, kept))
  PROVE  Shrinks(proc[p].doc, Relaid(p, days, layout, kept))
<1> DEFINE doc == proc[p].doc
           new == Relaid(p, days, layout, kept)
<1>1. /\ DOMAIN new = (DOMAIN doc \ OnDates(doc, days)) \cup layout
      /\ \A r \in DOMAIN new : new[r] = IF r \in kept \/ r.date \notin days THEN doc[r] ELSE FreeSlot
  BY DEF Relaid
<1>2. \A r \in layout : r.date \in days
  BY DEF LayoutsOf
<1>3. ASSUME NEW r \in DOMAIN new, new[r].by # NoOrder
      PROVE  r \in DOMAIN doc /\ doc[r].by = new[r].by
  <2>1. r \in kept \/ r.date \notin days
    BY <1>1, <1>3 DEF FreeSlot
  <2>2. r \in DOMAIN doc
    BY <1>1, <1>2, <2>1 DEF OnDates
  <2> QED BY <1>1, <2>1, <2>2
<1> QED BY <1>3 DEF Shrinks

\* The steps of bookings.
LEMMA OrderBacked ==
  ASSUME Shape, Orderly, Backing, ByStripe = {}, NEW p \in Procs, OrderStep(p)
  PROVE  Backs(p)'
<1>1. FieldsType(proc[p]) /\ IsDoc(proc[p].doc) /\ IsDoc(slots) /\ Own(p) /\ Backs(p) /\ DOMAIN proc = Procs
  BY FieldsOfProc DEF Orderly, Backing, Shape
<1>2. DocBacked(slots)
  <2>1. ~Freeing(p) /\ ~Moving(p)
    BY DEF Freeing, Moving, At, OrderStep, CreateOrder, StartPrivateOrder, CreatePrivateOrder, CreatePrivateOrderFails,
       AttachSlot, AttachFails, SaveBooking, SaveBookingFails, DeletePrivateOrder, Start
  <2> QED BY <1>1, <2>1 DEF Backs
<1>3. ASSUME NEW o \in Orders, orders[o].status = "NONE", NEW w, Ask(o, w),
             NEW r \in Ranges, NEW by, Backed(r, by)
      PROVE  Backed(r, by)'
  <2>1. ASSUME NEW l \in Lessons, lessons[l].range = r, lessons[l].status # "CANCELLED"
        PROVE  lessons'[l].range = r /\ lessons'[l].status # "CANCELLED"
    <3>1. OrderOf[l] # o
      BY <1>3, <2>1, DatesAssumption DEF Orderly, Ordered, NoRange, Ranges
    <3> QED BY <1>3, <2>1, <3>1 DEF Ask
  <2> QED BY <1>3, <2>1, BackedKept
<1>4. CASE \E o \in Orders : CreateOrder(p, o)
  <2>1. PICK o \in Orders : CreateOrder(p, o)
    BY <1>4
  <2>2. orders[o].status = "NONE" /\ slots' = slots /\ proc[p].pc = "idle" /\ \E w : Ask(o, w)
    BY <2>1 DEF CreateOrder, Start
  <2>3. proc'[p].pc \in {"idle", "load"}
    <3>1. o \in ByWallet
      BY <2>1 DEF CreateOrder, ByStripe, Public
    <3>2. PICK w : proc' = [proc EXCEPT ![p] = [Idle EXCEPT
               !.pc = "load", !.handler = "createOrder", !.order = o, !.want = w, !.todo = LessonsOf(o)]]
      BY <2>1, <3>1, Zenon DEF CreateOrder
    <3> QED BY <1>1, <3>2, IdleFields
  <2>4. DocBacked(slots)'
    BY <1>1, <1>2, <1>3, <2>2 DEF DocBacked, IsDoc
  <2> QED BY <2>3, <2>4 DEF Backs, Freeing, Moving, At
<1>5. CASE \E o \in Orders : StartPrivateOrder(p, o)
  <2>1. slots' = slots /\ lessons' = lessons /\ proc'[p].pc = "load"
    BY <1>1, <1>5, IdleFields DEF StartPrivateOrder
  <2> QED BY <1>2, <2>1, SameBacked DEF Freeing, Moving, At
<1>6. CASE CreatePrivateOrder(p)
  <2>1. /\ slots' = slots /\ \E w : Ask(proc[p].order, w) /\ proc'[p].pc = "attach" /\ proc'[p].doc = proc[p].doc
        /\ proc[p].pc = "loaded" /\ proc[p].handler = "createPrivateOrder"
    BY <1>6, FieldsOfProc DEF CreatePrivateOrder, At
  <2>2. proc[p].order \in Orders /\ orders[proc[p].order].status = "NONE" /\ proc[p].doc = slots
    BY <1>1, <2>1 DEF Own, Backs
  <2>3. DocBacked(slots)'
    BY <1>1, <1>2, <1>3, <2>1, <2>2 DEF DocBacked, IsDoc
  <2>4. proc'[p].doc = slots'
    BY <2>1, <2>2
  <2>5. DocBacked(proc[p].doc)'
    BY <2>3, <2>4 DEF DocBacked
  <2> QED BY <2>1, <2>3, <2>5 DEF Backs, Freeing, Moving, At
<1>7. CASE AttachSlot(p)
  <2>1. PICK l \in Earliest(p) : \E s \in Bookable(p, proc[p].want[l]) :
             proc' = [Attached(p, s, proc[p].want[l], Gap) EXCEPT ![p].todo = @ \ {l}]
    BY <1>7, Zenon DEF AttachSlot
  <2>2. PICK s \in Bookable(p, proc[p].want[l]) :
             proc' = [Attached(p, s, proc[p].want[l], Gap) EXCEPT ![p].todo = @ \ {l}]
    BY <2>1
  <2> DEFINE req == proc[p].want[l]
             cut == Split(proc[p].doc, s, req, proc[p].order, Gap)
  <2>3. /\ proc[p].pc = "attach" /\ proc'[p].pc = "attach" /\ proc'[p].doc = cut /\ slots' = slots /\ lessons' = lessons
    BY <1>7, <2>2, FieldsOfProc DEF AttachSlot, Attached, At
  <2>4. DocBacked(proc[p].doc) /\ Wanted(p, l) /\ l \in Lessons
    BY <1>1, <2>3 DEF Backs, Own, Earliest, FieldsType
  <2>5. Backed(req, proc[p].order)
    BY <2>4 DEF Backed, Wanted, LessonsOf
  <2>6. ASSUME NEW r \in DOMAIN cut, cut[r].by # NoOrder
        PROVE  Backed(r, cut[r].by)
    <3>1. CASE r = req
      <4>1. cut[r] = BookedSlot(proc[p].order)
        BY <3>1 DEF Split
      <4>2. cut[r].by = proc[p].order
        BY <4>1 DEF BookedSlot, FreeSlot
      <4> QED BY <2>5, <3>1, <4>2
    <3>2. CASE r # req
      <4>1. r \notin Pieces(s, req, Gap)
        BY <2>6, <3>2 DEF Split, FreeSlot
      <4>2. r \in DOMAIN proc[p].doc /\ cut[r] = proc[p].doc[r]
        BY <2>6, <3>2, <4>1 DEF Split
      <4> QED BY <2>4, <2>6, <4>2 DEF DocBacked
    <3> QED BY <3>1, <3>2
  <2>7. DocBacked(cut)
    BY <2>6 DEF DocBacked
  <2> HIDE DEF cut, req
  <2> QED BY <1>2, <2>3, <2>7, SameBacked DEF Freeing, Moving, At
<1>8. CASE AttachFails(p) \/ SaveBookingFails(p)
  <2>1. slots' = slots /\ lessons' = lessons /\ FailBooking(p)
    BY <1>8 DEF AttachFails, SaveBookingFails, FailBooking
  <2>2. proc'[p].pc \in {"idle", "delete"}
    BY <1>1, <2>1, IdleFields DEF FailBooking
  <2> QED BY <1>2, <2>1, <2>2, SameBacked DEF Freeing, Moving, At
<1>9. CASE CreatePrivateOrderFails(p) \/ DeletePrivateOrder(p)
  <2>1. Finish(p) /\ slots' = slots /\ lessons' = lessons
    BY <1>9 DEF CreatePrivateOrderFails, DeletePrivateOrder, Throw
  <2> QED BY <1>2, <2>1, EndsBacked DEF DocBacked
<1>10. CASE SaveBooking(p)
  <2>1. /\ proc[p].pc = "attach" /\ Finish(p) /\ lessons' = lessons
        /\ SaveProfile(p, proc[p].doc, proc[p].dirty)
    BY <1>10 DEF SaveBooking, At
  <2>2. DocBacked(proc[p].doc)
    BY <1>1, <2>1 DEF Backs
  <2> QED BY <1>1, <1>2, <2>1, <2>2, SaveBacked, EndsBacked
<1> QED BY <1>4, <1>5, <1>6, <1>7, <1>8, <1>9, <1>10 DEF OrderStep

\* Cancellations: the booking that has lost its lesson is the one freed next.
LEMMA CancelBacked ==
  ASSUME Shape, Orderly, Informed, Backing, NEW p \in Procs, CancelStep(p)
  PROVE  Backs(p)'
<1>1. FieldsType(proc[p]) /\ IsDoc(slots) /\ Fresh(p) /\ Backs(p) /\ DOMAIN proc = Procs
  BY FieldsOfProc DEF Informed, Backing, Shape
<1>2. CASE \E l \in Lessons : StartCancelSlot(p, l)
  <2>1. slots' = slots /\ lessons' = lessons /\ proc'[p].pc = "save" /\ proc[p].pc = "idle"
    BY <1>1, <1>2, IdleFields DEF StartCancelSlot, Start
  <2>2. DocBacked(slots)
    BY <1>1, <2>1 DEF Backs, Freeing, Moving, At
  <2> QED BY <2>1, <2>2, SameBacked DEF Freeing, Moving, At
<1>3. CASE SaveCancelled(p)
  <2>1. /\ proc[p].pc = "save" /\ proc[p].handler = "cancelSlot" /\ slots' = slots /\ Reading(p)
        /\ lessons' = [lessons EXCEPT ![proc[p].lesson].status = "CANCELLED"]
        /\ proc'[p].pc = "free" /\ proc'[p].seen = proc[p].seen /\ proc'[p].handler = "cancelSlot"
    BY <1>3, FieldsOfProc DEF SaveCancelled, Goto, At, Reading
  <2>2. DocBacked(slots)
    BY <1>1, <2>1 DEF Backs, Freeing, Moving, At
  <2>3. proc[p].lesson \in Lessons /\ proc[p].seen = lessons[proc[p].lesson]
    BY <1>1, <2>1 DEF Fresh
  <2>4. \A l \in Lessons \ {proc[p].lesson} : lessons'[l] = lessons[l]
    BY <2>1 DEF Shape, Typed
  <2>5. ASSUME NEW r \in DOMAIN slots \ {proc[p].seen.range}, slots[r].by # NoOrder
        PROVE  Backed(r, slots[r].by)'
    BY <2>1, <2>2, <2>3, <2>4, <2>5, BackedKept DEF DocBacked
  <2>6. (\A r \in DOMAIN slots \ {proc[p].seen.range} : Booking(r) => Backed(r, slots[r].by))'
    BY <2>1, <2>5 DEF Booking
  <2>7. Freeing(p)' /\ ~Moving(p)' /\ proc'[p].pc = "free"
    BY <2>1 DEF Freeing, Moving, At
  <2> QED BY <2>6, <2>7 DEF Backs
<1>4. CASE \E o \in Orders : CancelPrivateOrder(p, o)
  <2>1. slots' = slots /\ lessons' = lessons /\ proc'[p].pc = "free" /\ proc'[p].handler = "cancelPrivateOrder"
        /\ proc[p].pc = "idle"
    BY <1>1, <1>4, IdleFields DEF CancelPrivateOrder, Start
  <2>2. DocBacked(slots)
    BY <1>1, <2>1 DEF Backs, Freeing, Moving, At
  <2> QED BY <2>1, <2>2, SameBacked DEF Freeing, Moving, At
<1>5. CASE FreeSlotRange(p)
  <2>1. Freeing(p) /\ slots' = ReleaseRange(slots, proc[p].seen.range) /\ Finish(p) /\ lessons' = lessons
    BY <1>5 DEF FreeSlotRange, Freeing
  <2>2. ASSUME NEW r \in DOMAIN slots', slots'[r].by # NoOrder
        PROVE  Backed(r, slots'[r].by)
    <3>1. r \in DOMAIN slots
      BY <2>1, <2>2 DEF ReleaseRange
    <3>2. r # proc[p].seen.range
      <4>1. slots[r] \in Meta
        BY <1>1, <3>1 DEF IsDoc
      <4> QED BY <2>1, <2>2, <3>1, <4>1 DEF ReleaseRange, Meta
    <3>3. slots'[r] = slots[r]
      BY <2>1, <3>1, <3>2 DEF ReleaseRange
    <3> QED BY <1>1, <2>1, <2>2, <3>1, <3>2, <3>3 DEF Backs, Booking
  <2> QED BY <2>1, <2>2, EndsBacked
<1>6. CASE UnlockPrivateOrderSlots(p)
  <2>1. /\ proc[p].handler = "cancelPrivateOrder" /\ slots' = ReleaseOrder(slots, proc[p].order)
        /\ Finish(p) /\ lessons' = lessons
    BY <1>6 DEF UnlockPrivateOrderSlots, At
  <2>2. DocBacked(slots)
    BY <1>1, <2>1 DEF Backs, Freeing, Moving, At, Movers
  <2>3. ASSUME NEW r \in DOMAIN slots', slots'[r].by # NoOrder
        PROVE  Backed(r, slots'[r].by)
    <3>1. r \in DOMAIN slots
      BY <2>1, <2>3 DEF ReleaseOrder
    <3>2. slots'[r] = slots[r]
      BY <1>1, <2>1, <2>3, <3>1, ReleaseOrderDoc
    <3> QED BY <2>2, <2>3, <3>1, <3>2 DEF DocBacked
  <2> QED BY <2>1, <2>3, EndsBacked
<1> QED BY <1>2, <1>3, <1>4, <1>5, <1>6 DEF CancelStep

\* Edits, the cron and loads book nothing.
LEMMA EditBacked ==
  ASSUME Shape, Backing, NEW p \in Procs, EditStep(p) \/ LoadProfile(p)
  PROVE  Backs(p)'
<1>1. FieldsType(proc[p]) /\ IsDoc(slots) /\ IsDoc(proc[p].doc) /\ Backs(p) /\ DOMAIN proc = Procs
  BY FieldsOfProc DEF Backing, Shape
<1>2. lessons' = lessons
  BY DEF EditStep, StartEdit, SaveDay, SaveWeek, EditFails, SaveReleased, LoadProfile, Throw
<1>3. proc[p].pc \in {"idle", "load", "loaded"}
  BY DEF EditStep, StartEdit, SaveDay, SaveWeek, EditFails, SaveReleased, LoadProfile, Start, At
<1>4. DocBacked(slots)
  BY <1>1, <1>3 DEF Backs, Freeing, Moving, At
<1>5. CASE LoadProfile(p)
  <2>1. slots' = slots /\ proc'[p].doc = slots /\ proc'[p].pc \in {"loaded", "attach"}
    BY <1>5, FieldsOfProc DEF LoadProfile
  <2> QED BY <1>2, <1>4, <2>1, SameBacked DEF Freeing, Moving, At
<1>6. CASE \E handler \in {"updateDaySlots", "updateWeek", "releaseExpiredTempLocks"} : StartEdit(p, handler)
  <2>1. slots' = slots /\ proc'[p].pc = "load"
    BY <1>1, <1>6, IdleFields DEF StartEdit
  <2> QED BY <1>2, <1>4, <2>1, SameBacked DEF Freeing, Moving, At
<1>7. CASE EditFails(p)
  <2>1. Finish(p) /\ slots' = slots
    BY <1>7 DEF EditFails, Throw
  <2> QED BY <1>2, <1>4, <2>1, EndsBacked DEF DocBacked
<1>8. ASSUME NEW edited, NEW dirty, Shrinks(proc[p].doc, edited), proc[p].pc = "loaded", Finish(p),
             SaveProfile(p, edited, dirty) \/ VersionError(p, edited, dirty)
      PROVE  Backs(p)'
  <2>1. DocBacked(edited) /\ IsDoc(edited)
    BY <1>1, <1>4, <1>8, ShrunkBacked DEF Backs
  <2>2. \A r \in DOMAIN slots' : slots'[r].by # NoOrder => Backed(r, slots'[r].by)
    <3>1. CASE SaveProfile(p, edited, dirty)
      BY <1>4, <2>1, <3>1, SaveBacked
    <3>2. CASE VersionError(p, edited, dirty)
      BY <1>4, <3>2 DEF VersionError, DocBacked
    <3> QED BY <1>8, <3>1, <3>2
  <2> QED BY <1>2, <1>8, <2>2, EndsBacked
<1>9. CASE SaveDay(p)
  <2>1. PICK d \in Dates : \E layout \in LayoutsOf({d}) : SaveProfile(p, Relaid(p, {d}, layout, {}), {d})
                             /\ \A r \in OnDates(proc[p].doc, {d}) : proc[p].doc[r].by = NoOrder
    BY <1>9 DEF SaveDay
  <2>2. PICK layout \in LayoutsOf({d}) : SaveProfile(p, Relaid(p, {d}, layout, {}), {d})
                             /\ \A r \in OnDates(proc[p].doc, {d}) : proc[p].doc[r].by = NoOrder
    BY <2>1
  <2>3. IsDoc(Relaid(p, {d}, layout, {}))
    BY <2>2, RelaidEdits DEF Edits
  <2>4. Shrinks(proc[p].doc, Relaid(p, {d}, layout, {}))
    BY <2>3, RelaidShrinks
  <2>5. proc[p].pc = "loaded" /\ Finish(p)
    BY <1>9 DEF SaveDay, At
  <2> QED BY <1>8, <2>2, <2>4, <2>5
<1>10. CASE SaveWeek(p)
  <2> DEFINE Kept(days) == {r \in OnDates(proc[p].doc, days) : Occupied(proc[p].doc[r])}
  <2>1. PICK week \in Weeks : \E days \in SUBSET week : \E layout \in LayoutsOf(days) :
          Kept(days) \subseteq layout /\ SaveProfile(p, Relaid(p, days, layout, Kept(days)), week)
    BY <1>10, Zenon DEF SaveWeek
  <2>2. PICK days \in SUBSET week : \E layout \in LayoutsOf(days) :
          Kept(days) \subseteq layout /\ SaveProfile(p, Relaid(p, days, layout, Kept(days)), week)
    BY <2>1, Zenon
  <2>3. PICK layout \in LayoutsOf(days) :
          Kept(days) \subseteq layout /\ SaveProfile(p, Relaid(p, days, layout, Kept(days)), week)
    BY <2>2, Zenon
  <2>4. days \in SUBSET Dates /\ week # {}
    BY WeeksAssumption
  <2>5. /\ Kept(days) \in SUBSET (OnDates(proc[p].doc, days) \cap layout)
        /\ \A r \in OnDates(proc[p].doc, days) : proc[p].doc[r].by # NoOrder => r \in Kept(days)
    BY <2>3 DEF Occupied
  <2>6. proc[p].pc = "loaded" /\ Finish(p)
    BY <1>10 DEF SaveWeek, At
  <2> HIDE DEF Kept
  <2>7. IsDoc(Relaid(p, days, layout, Kept(days)))
    BY <2>4, <2>5, RelaidEdits DEF Edits
  <2>8. Shrinks(proc[p].doc, Relaid(p, days, layout, Kept(days)))
    BY <2>5, <2>7, RelaidShrinks
  <2> QED BY <1>8, <2>3, <2>6, <2>8
<1>11. CASE \E expired \in {{}, DOMAIN proc[p].doc} : SaveReleased(p, expired)
  <2>1. PICK expired : SaveReleased(p, expired)
    BY <1>11
  <2> DEFINE edited == ReleaseExpired(proc[p].doc, expired)
  <2>2. Shrinks(proc[p].doc, edited)
    BY <1>1, ReleaseExpiredDoc, FieldsShrink
  <2>3. proc[p].pc = "loaded" /\ Finish(p) /\ (SaveProfile(p, edited, {}) \/ VersionError(p, edited, {}))
    BY <2>1 DEF SaveReleased, At
  <2> HIDE DEF edited
  <2> QED BY <1>8, <2>2, <2>3
<1> QED BY <1>5, <1>6, <1>7, <1>9, <1>10, <1>11 DEF EditStep

\* The copy of a moved lesson books nothing but the new range, and not the
\* old one.
LEMMA MovedBookings ==
  ASSUME Shape, NEW p \in Procs, NEW s \in MoveTargets(p)
  PROVE  /\ \A r \in DOMAIN Moved(p, s) : Moved(p, s)[r].by # NoOrder =>
              \/ r = proc[p].new /\ Moved(p, s)[r].by = proc[p].order
              \/ r # proc[p].seen.range /\ r \in DOMAIN proc[p].doc /\ Moved(p, s)[r].by = proc[p].doc[r].by
         /\ \A r \in DOMAIN proc[p].doc \ DOMAIN Moved(p, s) : r.date = proc[p].new.date
<1> DEFINE doc == proc[p].doc
           unlocked == IF proc[p].handler = "ACCEPTED"
                       THEN UnlockTemporary(doc, proc[p].order) ELSE doc
           freed == ReleaseRange(unlocked, proc[p].seen.range)
           new == proc[p].new
           moved == Split(freed, s, new, proc[p].order, Gap)
<1>1. IsDoc(doc)
  BY FieldsOfProc
<1>2. /\ IsDoc(unlocked) /\ DOMAIN unlocked = DOMAIN doc
      /\ \A r \in DOMAIN doc : unlocked[r].by = doc[r].by
  BY <1>1, UnlockTemporaryDoc DEF SameBookings, SameRanges
<1> HIDE DEF unlocked
<1>3. /\ DOMAIN freed = DOMAIN doc
      /\ \A r \in DOMAIN doc : IF r = proc[p].seen.range THEN freed[r].by = NoOrder ELSE freed[r].by = doc[r].by
  <2>1. ASSUME NEW r \in DOMAIN doc, r = proc[p].seen.range PROVE freed[r].by = NoOrder
    <3>1. unlocked[r] \in Meta
      BY <1>2 DEF IsDoc
    <3>2. freed[r] = [unlocked[r] EXCEPT !.by = NoOrder, !.temp = FALSE]
      BY <1>2, <2>1 DEF ReleaseRange
    <3> QED BY <3>1, <3>2 DEF Meta
  <2> QED BY <1>2, <2>1, ReleaseRangeDoc DEF SameRanges
<1>4. Vacated(p) = freed /\ Moved(p, s) = moved
  BY DEF Vacated, unlocked, Moved
<1>5. s \in DOMAIN doc /\ s.date = new.date
  BY <1>3, <1>4 DEF MoveTargets, OpenFor, Contains
<1> HIDE DEF freed
<1>6. ASSUME NEW r \in DOMAIN moved, moved[r].by # NoOrder, r # new
      PROVE  r # proc[p].seen.range /\ r \in DOMAIN doc /\ moved[r].by = doc[r].by
  <2>1. r \notin Pieces(s, new, Gap)
    BY <1>6 DEF Split, FreeSlot
  <2>2. r \in DOMAIN freed /\ moved[r] = freed[r]
    BY <1>6, <2>1 DEF Split
  <2> QED BY <1>3, <1>6, <2>2
<1>7. new \in DOMAIN moved => moved[new].by = proc[p].order
  <2>1. new \in DOMAIN moved => moved[new] = BookedSlot(proc[p].order)
    BY DEF Split
  <2> QED BY <2>1 DEF BookedSlot, FreeSlot
<1>8. \A r \in DOMAIN doc \ DOMAIN moved : r = s
  BY <1>3 DEF Split
<1> HIDE DEF moved, doc, new
<1> QED BY <1>4, <1>5, <1>6, <1>7, <1>8 DEF doc, new

\* A write of the lesson that was read: the bookings of every other range
\* keep their lessons, and so does the range itself if the lesson keeps it.
LEMMA WriteBacked ==
  ASSUME Shape, Informed, NEW p \in Procs, Reading(p), NEW range, NEW status \in LessonStatus \ {"CANCELLED"},
         NEW reschedule, WriteLesson(p, range, status, reschedule)
  PROVE  /\ proc[p].lesson \in Lessons
         /\ lessons'[proc[p].lesson].range = range /\ lessons'[proc[p].lesson].status # "CANCELLED"
         /\ \A r, o : Backed(r, o) /\ (r # proc[p].seen.range \/ r = range) => Backed(r, o)'
<1>1. proc[p].lesson \in Lessons /\ proc[p].seen = lessons[proc[p].lesson]
  BY DEF Informed, Fresh
<1>2. /\ lessons'[proc[p].lesson] = [range |-> range, status |-> status, reschedule |-> reschedule]
      /\ \A l \in Lessons \ {proc[p].lesson} : lessons'[l] = lessons[l]
  BY <1>1, WrittenStatus
<1>3. ASSUME NEW r, NEW o, Backed(r, o), r # proc[p].seen.range \/ r = range
      PROVE  Backed(r, o)'
  <2>1. ASSUME NEW l \in Lessons, lessons[l].range = r, lessons[l].status # "CANCELLED"
        PROVE  lessons'[l].range = r /\ lessons'[l].status # "CANCELLED"
    <3>1. CASE l = proc[p].lesson
      BY <1>1, <1>2, <1>3, <2>1, <3>1
    <3>2. CASE l # proc[p].lesson
      BY <1>2, <2>1, <3>2
    <3> QED BY <3>1, <3>2
  <2> QED BY <1>3, <2>1, BackedKept
<1> QED BY <1>1, <1>2, <1>3

\* Rescheduling: what the calendar was given is given to the lesson next.
LEMMA RescheduleBacked ==
  ASSUME Shape, Orderly, Informed, Backing, NEW p \in Procs, RescheduleStep(p)
  PROVE  Backs(p)'
<1>1. FieldsType(proc[p]) /\ IsDoc(slots) /\ Fresh(p) /\ Own(p) /\ Backs(p) /\ DOMAIN proc = Procs /\ IsDoc(proc[p].doc)
  BY FieldsOfProc DEF Informed, Orderly, Backing, Shape
<1>2. CASE \/ \E l \in Lessons, new \in Requests : StartMove(p, l, new) \/ StartProposal(p, l, new)
           \/ \E l \in Lessons, action \in {"ACCEPTED", "REJECTED"} : StartRespond(p, l, action)
  <2>1. slots' = slots /\ lessons' = lessons /\ proc[p].pc = "idle"
    BY <1>2 DEF StartMove, StartProposal, StartRespond, Start
  <2>2. \E pc \in {"load", "save"}, l \in Lessons : \E handler, new : LoadLesson(p, handler, pc, l, new)
    <3>1. CASE \E l \in Lessons, new \in Requests : StartMove(p, l, new)
      BY <3>1, Zenon DEF StartMove
    <3>2. CASE \E l \in Lessons, new \in Requests : StartProposal(p, l, new)
      BY <3>2, Zenon DEF StartProposal
    <3>3. CASE \E l \in Lessons, action \in {"ACCEPTED", "REJECTED"} : StartRespond(p, l, action)
      BY <3>3, Zenon DEF StartRespond
    <3> QED BY <1>2, <3>1, <3>2, <3>3, Zenon
  <2>3. proc'[p].pc \in {"load", "save"}
    BY <1>1, <2>2, IdleFields DEF LoadLesson
  <2>4. DocBacked(slots)
    BY <1>1, <2>1 DEF Backs, Freeing, Moving, At
  <2> QED BY <2>1, <2>3, <2>4, SameBacked DEF Freeing, Moving, At
<1>3. CASE ValidateMove(p)
  <2>1. /\ slots' = slots /\ lessons' = lessons /\ proc[p].pc = "loaded" /\ proc'[p].pc = "move"
        /\ proc'[p].doc = proc[p].doc
    BY <1>3, FieldsOfProc DEF ValidateMove, Goto, At
  <2>2. DocBacked(slots) /\ proc[p].doc = slots
    BY <1>1, <2>1 DEF Backs, Freeing, Moving, At
  <2> QED BY <2>1, <2>2, SameBacked DEF Freeing, Moving, At
<1>4. CASE ValidateMoveFails(p) \/ SaveMoveFails(p)
  <2>1. Finish(p) /\ slots' = slots /\ lessons' = lessons /\ proc[p].pc \in {"loaded", "move"}
    BY <1>4 DEF ValidateMoveFails, SaveMoveFails, Throw, At
  <2>2. DocBacked(slots)
    BY <1>1, <2>1 DEF Backs, Freeing, Moving, At
  <2> QED BY <2>1, <2>2, EndsBacked DEF DocBacked
<1>5. CASE SaveLessonFails(p)
  <2>1. Reading(p) /\ proc[p].handler \in Movers \cup {"REJECTED"} /\ proc[p].was \notin SchemaStatus
    BY <1>5 DEF SaveLessonFails, At, Reading
  <2> QED BY <1>1, <2>1 DEF Own, SchemaStatus
<1>6. CASE SaveMove(p)
  <2>1. At(p, "move", Movers) /\ lessons' = lessons
    BY <1>6 DEF SaveMove
  <2>2. PICK s \in MoveTargets(p) : SaveProfile(p, Moved(p, s), {proc[p].new.date})
    BY <1>6 DEF SaveMove
  <2>3. proc[p].doc = slots /\ DocBacked(slots)
    BY <1>1, <2>1 DEF Backs, Freeing, Moving, At
  <2>4. /\ proc'[p].pc = "order" /\ proc'[p].handler = proc[p].handler /\ proc'[p].new = proc[p].new
        /\ proc'[p].order = proc[p].order /\ proc'[p].seen = proc[p].seen
    BY <1>6, FieldsOfProc DEF SaveMove, Goto
  <2>5. IsDoc(Moved(p, s))
    BY <2>1, MovedEdits DEF Edits
  <2>6. slots' = Save(slots, slots, Moved(p, s), {proc[p].new.date})
    BY <2>2, <2>3 DEF SaveProfile, Modified
  <2>7. ASSUME NEW r \in DOMAIN slots', slots'[r].by # NoOrder
        PROVE  \/ r = proc[p].new /\ slots'[r].by = proc[p].order
               \/ r # proc[p].seen.range /\ Backed(r, slots'[r].by)
    <3>1. \/ r \in DOMAIN Moved(p, s) /\ Moved(p, s)[r].by = slots'[r].by
          \/ r \in DOMAIN slots \ DOMAIN Moved(p, s) /\ r.date \notin {proc[p].new.date} /\ slots[r].by = slots'[r].by
      BY <1>1, <2>5, <2>6, <2>7, SaveByFresh
    <3>2. r \in DOMAIN Moved(p, s) /\ Moved(p, s)[r].by = slots'[r].by
      BY <2>3, <3>1, MovedBookings
    <3>3. \/ r = proc[p].new /\ slots'[r].by = proc[p].order
          \/ r # proc[p].seen.range /\ r \in DOMAIN slots /\ slots'[r].by = slots[r].by
      BY <2>3, <2>7, <3>2, MovedBookings
    <3> QED BY <2>3, <2>7, <3>3 DEF DocBacked
  <2>8. \A r, o : Backed(r, o) => Backed(r, o)'
    BY <2>1, BackedKept
  <2>9. (\A r \in DOMAIN slots : Booking(r) => Given(p, r))'
    <3>1. ASSUME NEW r \in DOMAIN slots', slots'[r].by # NoOrder
          PROVE  Given(p, r)'
      <4>1. CASE r = proc[p].new /\ slots'[r].by = proc[p].order
        BY <2>4, <4>1 DEF Given
      <4>2. CASE r # proc[p].seen.range /\ Backed(r, slots'[r].by)
        <5>1. PICK o : o = slots'[r].by
          OBVIOUS
        <5>2. Backed(r, o)'
          BY <2>8, <4>2, <5>1
        <5>3. Backed(r, slots[r].by)'
          BY <5>1, <5>2 DEF Backed
        <5> QED BY <2>4, <4>2, <5>3 DEF Given
      <4> QED BY <2>7, <3>1, <4>1, <4>2
    <3> QED BY <3>1 DEF Booking
  <2>10. Moving(p)' /\ ~Freeing(p)'
    BY <2>1, <2>4 DEF Moving, Freeing, At
  <2> QED BY <2>4, <2>9, <2>10 DEF Backs
<1>7. CASE SaveMovedLesson(p) \/ SaveAccepted(p)
  <2>1. Moving(p) /\ Reading(p) /\ slots' = slots
    BY <1>7 DEF SaveMovedLesson, SaveAccepted, Moving, Reading, At, Movers
  <2>2. PICK reschedule : WriteLesson(p, proc[p].new, "RESCHEDULED", reschedule)
    <3>1. CASE SaveMovedLesson(p)
      BY <3>1, Zenon DEF SaveMovedLesson
    <3>2. CASE SaveAccepted(p)
      BY <3>2, Zenon DEF SaveAccepted
    <3> QED BY <1>7, <3>1, <3>2
  <2>3. /\ proc[p].lesson \in Lessons
        /\ lessons'[proc[p].lesson].range = proc[p].new /\ lessons'[proc[p].lesson].status # "CANCELLED"
        /\ \A r, o : Backed(r, o) /\ r # proc[p].seen.range => Backed(r, o)'
    BY <2>1, <2>2, WriteBacked DEF LessonStatus
  <2>4. proc[p].order = OrderOf[proc[p].lesson]
    BY <1>1, <2>1 DEF Own
  <2>5. PICK new, o : new = proc[p].new /\ o = proc[p].order
    OBVIOUS
  <2>6. Backed(new, o)'
    BY <2>3, <2>4, <2>5 DEF Backed, LessonsOf
  <2>10. ASSUME NEW r \in DOMAIN slots, slots[r].by # NoOrder
         PROVE  Backed(r, slots[r].by)'
    <3>1. PICK by : by = slots[r].by
      OBVIOUS
    <3>2. Given(p, r)
      BY <1>1, <2>1, <2>10 DEF Backs, Booking
    <3>3. Backed(r, by)'
      BY <2>3, <2>5, <2>6, <3>1, <3>2 DEF Given
    <3> QED BY <2>1, <3>1, <3>3 DEF Backed
  <2>7. DocBacked(slots)'
    BY <2>1, <2>10 DEF DocBacked
  <2>8. proc'[p].pc \in {"idle", "clear"}
    <3>1. CASE SaveMovedLesson(p)
      BY <1>1, <3>1, IdleFields DEF SaveMovedLesson, Finish
    <3>2. CASE SaveAccepted(p)
      BY <3>2, FieldsOfProc DEF SaveAccepted, Goto
    <3> QED BY <1>7, <3>1, <3>2
  <2> QED BY <2>7, <2>8 DEF Backs, Freeing, Moving, At
<1>8. CASE SaveRejected(p) \/ SaveProposal(p)
  <2>1. Reading(p) /\ ~Freeing(p) /\ ~Moving(p) /\ slots' = slots
    BY <1>8 DEF SaveRejected, SaveProposal, Freeing, Moving, Reading, At, Movers
  <2>2. \E status \in {"BOOKED", "PENDING_RESCHEDULE"} : \E reschedule : WriteLesson(p, proc[p].seen.range, status, reschedule)
    <3>1. CASE SaveRejected(p)
      BY <3>1, Zenon DEF SaveRejected
    <3>2. CASE SaveProposal(p)
      BY <3>2, Zenon DEF SaveProposal
    <3> QED BY <1>8, <3>1, <3>2
  <2>3. \A r, o : Backed(r, o) => Backed(r, o)'
    BY <2>1, <2>2, WriteBacked DEF LessonStatus
  <2>4. DocBacked(slots)'
    BY <1>1, <2>1, <2>3 DEF Backs, DocBacked
  <2>5. \E pc \in {"clear", "load"} : Goto(p, pc)
    BY <1>8, Zenon DEF SaveRejected, SaveProposal
  <2>6. proc'[p].pc \in {"clear", "load"}
    BY <2>5, FieldsOfProc DEF Goto
  <2> QED BY <2>4, <2>6 DEF Backs, Freeing, Moving, At
<1>9. CASE ClearReschedule(p)
  <2>1. /\ proc[p].pc = "clear" /\ Finish(p) /\ slots' = slots
        /\ lessons' = [lessons EXCEPT ![proc[p].lesson].reschedule = NoReschedule]
    BY <1>9 DEF ClearReschedule, At
  <2>2. \A l \in Lessons : lessons'[l].range = lessons[l].range /\ lessons'[l].status = lessons[l].status
    BY <2>1 DEF Shape, Typed, LessonDocs
  <2>3. \A r, o : Backed(r, o) => Backed(r, o)'
    BY <2>2, BackedKept
  <2>4. DocBacked(slots)'
    BY <1>1, <2>1, <2>3 DEF Backs, DocBacked, Freeing, Moving, At
  <2>5. proc'[p].pc = "idle"
    BY <2>1, FinishStep
  <2> QED BY <2>4, <2>5 DEF Backs, Freeing, Moving, At
<1>10. ASSUME NEW edited, SameBookings(proc[p].doc, edited), proc[p].pc = "loaded", lessons' = lessons,
              SaveProfile(p, edited, {}) \/ VersionError(p, edited, {})
       PROVE  \A r \in DOMAIN slots' : slots'[r].by # NoOrder => Backed(r, slots'[r].by)
  <2>1. DocBacked(slots) /\ proc[p].doc = slots
    BY <1>1, <1>10 DEF Backs, Freeing, Moving, At
  <2>2. DocBacked(edited) /\ IsDoc(edited)
    BY <1>1, <1>10, <2>1, FieldsShrink, ShrunkBacked
  <2>3. CASE SaveProfile(p, edited, {})
    BY <2>1, <2>2, <2>3, SaveBacked
  <2>4. CASE VersionError(p, edited, {})
    BY <2>1, <2>4 DEF VersionError, DocBacked
  <2> QED BY <1>10, <2>3, <2>4
<1>11. CASE UnlockRejected(p) \/ UnlockRejectedFails(p)
  <2> DEFINE edited == UnlockTemporary(proc[p].doc, proc[p].order)
  <2>1. SameBookings(proc[p].doc, edited)
    BY <1>1, UnlockTemporaryDoc
  <2>2. /\ proc[p].pc = "loaded" /\ proc[p].handler = "REJECTED" /\ lessons' = lessons
        /\ SaveProfile(p, edited, {}) \/ VersionError(p, edited, {})
    BY <1>11 DEF UnlockRejected, UnlockRejectedFails, At
  <2> HIDE DEF edited
  <2>3. \A r \in DOMAIN slots' : slots'[r].by # NoOrder => Backed(r, slots'[r].by)
    BY <1>10, <2>1, <2>2
  <2>4. CASE UnlockRejectedFails(p)
    BY <2>2, <2>3, <2>4, EndsBacked DEF UnlockRejectedFails
  <2>5. CASE UnlockRejected(p)
    <3>1. proc'[p].pc = "order" /\ proc'[p].handler = "REJECTED"
      BY <2>2, <2>5, FieldsOfProc DEF UnlockRejected, Goto
    <3>2. DocBacked(slots)'
      BY <2>2, <2>3, BackedKept DEF DocBacked
    <3> QED BY <3>1, <3>2 DEF Backs, Freeing, Moving, At, Movers
  <2> QED BY <1>11, <2>4, <2>5
<1>12. CASE SaveLock(p)
  <2> DEFINE edited == LockTemporarily(proc[p].doc, proc[p].new, proc[p].order)
  <2>1. SameBookings(proc[p].doc, edited)
    BY <1>1, LockTemporarilyDoc DEF FieldsType
  <2>2. /\ proc[p].pc = "loaded" /\ lessons' = lessons /\ Finish(p)
        /\ SaveProfile(p, edited, {}) \/ VersionError(p, edited, {})
    BY <1>12 DEF SaveLock, At
  <2> HIDE DEF edited
  <2> QED BY <1>10, <2>1, <2>2, EndsBacked
<1> QED BY <1>2, <1>3, <1>4, <1>5, <1>6, <1>7, <1>8, <1>9, <1>11, <1>12, Zenon DEF RescheduleStep

\* Every step of the only execution keeps the bookings backed.
LEMMA BackingStep ==
  ASSUME Shape, Orderly, Informed, Backing, ByStripe = {}, ~Crashes, \A p, q \in Procs : p = q, [Next]_vars
  PROVE  Backing'
<1>1. ASSUME NEW p \in Procs, Step(p)
      PROVE  Backing'
  <2>1. ~Crash(p) /\ ~WebhookStep(p)
    BY NoWebhook DEF Crash
  <2>2. Backs(p)'
    BY <1>1, <2>1, OrderBacked, CancelBacked, RescheduleBacked, EditBacked DEF Step
  <2> QED BY <2>2 DEF Backing
<1>2. CASE (\E o \in Orders : PrivatePayment(o)) \/ UNCHANGED vars
  <2>1. lessons' = lessons /\ proc' = proc /\ slots' = slots
    BY <1>2 DEF PrivatePayment, vars
  <2>2. \A r, o : Backed(r, o) => Backed(r, o)'
    BY <2>1, BackedKept
  <2>3. DocBacked(slots) => DocBacked(slots)'
    BY <2>1, <2>2 DEF DocBacked
  <2>4. ASSUME NEW p \in Procs PROVE Backs(p)'
    <3>1. Backs(p) /\ (Freeing(p)' <=> Freeing(p)) /\ (Moving(p)' <=> Moving(p))
      BY <2>1 DEF Backing, Freeing, Moving, At
    <3>2. DocBacked(proc[p].doc) => DocBacked(proc[p].doc)'
      BY <2>1, <2>2 DEF DocBacked
    <3>3. Moving(p) => (\A r \in DOMAIN slots : Booking(r) => Given(p, r))'
      BY <2>1, <2>2, <3>1 DEF Backs, Booking, Given
    <3>4. Freeing(p) => (\A r \in DOMAIN slots \ {proc[p].seen.range} : Booking(r) => Backed(r, slots[r].by))'
      BY <2>1, <2>2, <3>1 DEF Backs, Booking
    <3> QED BY <2>1, <2>3, <3>1, <3>2, <3>3, <3>4 DEF Backs
  <2> QED BY <2>3, <2>4 DEF Backing
<1> QED BY <1>1, <1>2 DEF Next

\* At the start nothing is booked.
LEMMA BackingInit ==
  ASSUME Init
  PROVE  Shape /\ Orderly /\ Informed /\ Backing
<1>1. Informed
  BY IdleFields DEF Init, Informed, Fresh, Answerable, Reading, At, NoLessonDoc, Movers
<1>2. Orderly
  BY IdleFields, LessonsAssumption DEF Init, Orderly, Ordered, Own, Reading, At, NoLessonDoc, Movers, Public
<1>3. DocBacked(slots)
  BY DEF Init, DocBacked, FreeSlot
<1>4. Backing
  BY <1>3, IdleFields DEF Init, Backing, Backs, Freeing, Moving, At
<1> QED BY <1>1, <1>2, <1>4, ShapeInit

Served == Shape /\ Orderly /\ Informed /\ Backing

\* All of it together is inductive.
LEMMA ServedStep ==
  ASSUME ByStripe = {}, ~Crashes, \A p, q \in Procs : p = q, Served, [Next]_vars
  PROVE  Served'
<1>1. Shape' /\ Orderly' /\ Informed' /\ Backing'
  BY NextSteps, InformedStep, OrderlyStep, BackingStep DEF Served
<1> QED BY <1>1 DEF Served

\* Between requests that do not overlap and do not die, with no payment by
\* Stripe, every booking belongs to a lesson of its order that was not
\* cancelled, whatever was booked, moved, proposed, cancelled and edited.
THEOREM CalendarStaysBacked ==
  ASSUME ByStripe = {}, ~Crashes, \A p, q \in Procs : p = q
  PROVE  Spec => []CalendarBacked
<1>1. Init => Served
  BY BackingInit DEF Served
<1>2. Served /\ [Next]_vars => Served'
  BY ServedStep
<1>3. Served => CalendarBacked
  BY DEF Served, Backing, Backs, Freeing, Moving, At, DocBacked, CalendarBacked
<1> QED BY <1>1, <1>2, <1>3, PTL DEF Spec

\* Between requests, a booking of a learner is a lesson of a confirmed order
\* at that very range, and the range is not empty.
LEMMA BookedLesson ==
  ASSUME Served, CalendarBacked, WellSpaced, \A p \in Procs : proc[p].pc = "idle",
         NEW r \in DOMAIN slots, slots[r].by \in Public
  PROVE  /\ r # NoRange /\ r.date # NoOrder /\ Overlaps(r, r)
         /\ \E l \in LessonsOf(slots[r].by) : lessons[l].range = r /\ lessons[l].status # "CANCELLED"
         /\ \A l \in LessonsOf(slots[r].by) : lessons[l].range = r => orders[OrderOf[l]].status = "CONFIRMED"
<1>1. r \in Ranges /\ slots[r].by # NoOrder
  BY OrdersAssumption DEF Served, Shape, IsDoc, Public
<1>2. r # NoRange /\ r.date # NoOrder /\ r.start \in Int /\ r.end \in Int
  BY <1>1, DatesAssumption DEF NoRange, Ranges
<1>3. r.start < r.end
  BY <1>2, MinSlotAssumption DEF WellSpaced, Normalized
<1>4. Backed(r, slots[r].by)
  BY <1>1 DEF CalendarBacked
<1>5. ASSUME NEW l \in LessonsOf(slots[r].by), lessons[l].range = r
      PROVE  orders[OrderOf[l]].status = "CONFIRMED"
  <2>1. l \in Lessons /\ OrderOf[l] = slots[r].by
    BY <1>5 DEF LessonsOf
  <2> QED BY <1>2, <1>5, <2>1 DEF Served, Orderly, Ordered
<1> QED BY <1>2, <1>3, <1>4, <1>5 DEF Overlaps, Backed

\* Such a booking is in both lists.
LEMMA BookedListed ==
  ASSUME Served, CalendarBacked, WellSpaced
  PROVE  InstructorSees
<1> SUFFICES ASSUME \A p \in Procs : proc[p].pc = "idle", NEW r \in DOMAIN slots, slots[r].by \in Public
             PROVE  /\ r \in BookedSlotsOnly
                    /\ (\E l \in LessonsOf(slots[r].by) : lessons[l].range = r /\ lessons[l].status = "BOOKED") =>
                         [range |-> r, isBooked |-> TRUE] \in CalendarSlots
  BY DEF InstructorSees
<1>1. /\ r # NoRange /\ r.date # NoOrder /\ Overlaps(r, r)
      /\ \E l \in LessonsOf(slots[r].by) : lessons[l].range = r /\ lessons[l].status # "CANCELLED"
      /\ \A l \in LessonsOf(slots[r].by) : lessons[l].range = r => orders[OrderOf[l]].status = "CONFIRMED"
  BY BookedLesson
<1>2. r \in BookedSlotsOnly
  <2>1. PICK l \in LessonsOf(slots[r].by) : lessons[l].range = r /\ lessons[l].status # "CANCELLED"
    BY <1>1
  <2>2. l \in Lessons /\ OrderOf[l] \in Public /\ orders[OrderOf[l]].status = "CONFIRMED"
    BY <1>1, <2>1 DEF LessonsOf
  <2>3. l \in Listed
    BY <1>1, <2>1, <2>2 DEF Listed, Exists
  <2> QED BY <1>1, <2>1, <2>3 DEF BookedSlotsOnly
<1>3. ASSUME NEW l \in LessonsOf(slots[r].by), lessons[l].range = r, lessons[l].status = "BOOKED"
      PROVE  [range |-> r, isBooked |-> TRUE] \in CalendarSlots
  <2>1. l \in Lessons /\ OrderOf[l] \in Public /\ orders[OrderOf[l]].status = "CONFIRMED"
    BY <1>1, <1>3 DEF LessonsOf
  <2>2. r \in Bookings
    BY <1>1, <1>3, <2>1 DEF Bookings, InCalendar, BookingDate
  <2> DEFINE pieces == UNION {SplitByDuration(s, MinSlot) : s \in DOMAIN slots}
  <2>3. CalendarSlots = {[range |-> p, isBooked |-> \E b \in Bookings : Overlaps(p, b)] : p \in pieces}
                          \cup {[range |-> b, isBooked |-> TRUE] : b \in Bookings \ pieces}
    BY DEF CalendarSlots
  <2> HIDE DEF pieces
  <2>4. CASE r \in pieces
    <3>1. (\E b \in Bookings : Overlaps(r, b)) = TRUE
      BY <1>1, <2>2
    <3>2. [range |-> r, isBooked |-> \E b \in Bookings : Overlaps(r, b)] \in CalendarSlots
      BY <2>3, <2>4, Zenon
    <3> DEFINE booked == \E b \in Bookings : Overlaps(r, b)
    <3>3. booked = TRUE /\ [range |-> r, isBooked |-> booked] \in CalendarSlots
      BY <3>1, <3>2, Zenon
    <3> HIDE DEF booked
    <3> QED BY <3>3, Zenon
  <2>5. CASE r \notin pieces
    BY <2>2, <2>3, <2>5, Zenon
  <2> QED BY <2>4, <2>5
<1> QED BY <1>2, <1>3

\* Under the same conditions the instructor's two lists show every range that
\* is booked for a learner.
THEOREM InstructorAlwaysSees ==
  ASSUME ByStripe = {}, ~Crashes, \A p, q \in Procs : p = q
  PROVE  Spec => []InstructorSees
<1>1. Init => Served
  BY BackingInit DEF Served
<1>2. Served /\ [Next]_vars => Served'
  BY ServedStep
<1>3. Spec => []WellSpaced
  BY WellSpacedAlways
<1>4. Spec => []CalendarBacked
  BY CalendarStaysBacked
<1>5. Served /\ CalendarBacked /\ WellSpaced => InstructorSees
  BY BookedListed
<1> QED BY <1>1, <1>2, <1>3, <1>4, <1>5, PTL DEF Spec
=============================================================================
