------------------------------ MODULE Profiles ------------------------------
(***************************************************************************)
(* An instructor's profile: how it comes into being when the instructor    *)
(* registers, what the instructor fills in, the weeks of availability that *)
(* are appended to it, and the two ways in which others come across it:    *)
(* the search for instructors, and the pages of weeks.                     *)
(*                                                                         *)
(* The profile is one document and each update is one atomic write; the    *)
(* interleavings of those that load, edit and save it are in Calendar.     *)
(* Here several requests of one reader, and the two writes of a            *)
(* registration, interleave with everything else.                          *)
(***************************************************************************)
EXTENDS Integers, SequencesExt

CONSTANTS
  None,          \* no document; no date given
  Areas,         \* suburbs, as service areas and as test locations
  Vehicles,      \* 'auto' and 'manual'
  Transmissions, \* what a registration names: sets of vehicles
  WeekChoices,   \* the weeks an instructor may append
  DayChoices,    \* the ranges an instructor may give a day
  Lesson,        \* the length of a lesson
  Noon,
  Limit          \* weeks per page

Dates == UNION {w.start..w.end : w \in WeekChoices}

VARIABLES
  user,        \* None, or the user's document
  profile,     \* None, or the instructor profile
  registering, \* BOOLEAN: register is between its two writes
  today,
  reader       \* someone who turns the pages of weeks

vars == <<user, profile, registering, today, reader>>

NoReader == [from |-> None, page |-> 0, total |-> 1, seen |-> <<>>, due |-> {}, pc |-> "idle"]

Init == /\ user = None /\ profile = None /\ registering = FALSE
        /\ today \in {d \in Dates : \A e \in Dates : d <= e}   \* the first one
        /\ reader = NoReader

-----------------------------------------------------------------------------
(* Registration *)

\* buildDefaultVehicles: prices for the vehicles of the transmission type.
DefaultVehicles(t) == [v \in Vehicles |-> [has |-> FALSE, price |-> v \in t]]

\* createUser.  The unique e-mail address refuses a second attempt, also when
\* the first one ended before the profile was created.
Register == /\ user = None
            /\ \E t \in Transmissions :
                 user' = [published |-> FALSE, transmission |-> t]
            /\ registering' = TRUE
            /\ UNCHANGED <<profile, today, reader>>

CreateProfile == /\ registering
                 /\ profile' = [vehicles |-> DefaultVehicles(user.transmission), private |-> user.transmission,
                                areas |-> {}, tests |-> {}, filled |-> {}, weeks |-> <<>>]
                 /\ registering' = FALSE
                 /\ UNCHANGED <<user, today, reader>>

\* The process restarts, or the creation is refused.
RegisterDies == /\ registering /\ registering' = FALSE
                /\ UNCHANGED <<user, profile, today, reader>>

\* isPublish, which no handler sets.
Publish == /\ user # None /\ ~user.published
           /\ user' = [user EXCEPT !.published = TRUE]
           /\ UNCHANGED <<profile, registering, today, reader>>

\* PUT me: the user's fields; the profile's vehicles stay those of the
\* transmission type named at registration.
UpdateUser(t) == /\ user # None
                 /\ user' = [user EXCEPT !.transmission = t]
                 /\ UNCHANGED <<profile, registering, today, reader>>

-----------------------------------------------------------------------------
(* The instructor fills the profile in: each handler is one $set *)

Set(fields) == /\ profile # None
               /\ profile' = fields
               /\ UNCHANGED <<user, registering, today, reader>>

\* updateVehicle: the price is optional.
UpdateVehicle(v, price) ==
  Set([profile EXCEPT !.vehicles[v] = [has |-> TRUE, price |-> @.price \/ price]])

UpdatePrivateVehicle(priced) == Set([profile EXCEPT !.private = @ \cup priced])
UpdateServiceAreas(as)  == Set([profile EXCEPT !.areas = as])
UpdateTestLocations(as) == Set([profile EXCEPT !.tests = as])

\* updateDocuments and updateFinancialDetails
UpdateDetails(part) == Set([profile EXCEPT !.filled = @ \cup {part}])

-----------------------------------------------------------------------------
(* Weeks *)

Normalized(slots) ==
  /\ \A a \in slots : a.end - a.start >= Lesson
  /\ \A a, b \in slots : a # b => a.end < b.start \/ b.end < a.start

\* Mutant: the week comes before the others.
AppendWeekFirst(w) ==
  /\ profile # None
  /\ \A i \in DOMAIN profile.weeks : profile.weeks[i].start > w.end \/ profile.weeks[i].end < w.start
  /\ Set([profile EXCEPT !.weeks = <<w>> \o @])

\* appendWeek: one atomic update, conditional on no week's dates overlapping.
AppendWeek(w) ==
  /\ profile # None
  /\ w.start <= w.end
  /\ \A d \in w.start..w.end : Normalized(w.days[d])
  /\ \A i \in DOMAIN profile.weeks : profile.weeks[i].start > w.end \/ profile.weeks[i].end < w.start
  /\ Set([profile EXCEPT !.weeks = Append(@, w)])

\* updateDaySlots
UpdateDaySlots(i, d, slots) ==
  /\ d \in DOMAIN profile.weeks[i].days
  /\ \A s \in profile.weeks[i].days[d] : ~s.booked
  /\ Normalized(slots)
  /\ Set([profile EXCEPT !.weeks[i].days[d] = slots])

\* A booking of a whole range, by the order service.
Book(i, d, s) ==
  Set([profile EXCEPT !.weeks[i].days[d] = (@ \ {s}) \cup {[s EXCEPT !.booked = TRUE]}])

Tomorrow == /\ today + 1 \in Dates /\ today' = today + 1
            /\ UNCHANGED <<user, profile, registering, reader>>

-----------------------------------------------------------------------------
(* Pages of weeks *)

\* The weeks, of the first i, that have not ended on a date, in the order of
\* the array.
DueOf(weeks, date) ==
  LET due[i \in 0..Len(weeks)] ==
        IF i = 0 THEN <<>>
        ELSE IF weeks[i].end >= date THEN Append(due[i - 1], weeks[i]) ELSE due[i - 1]
  IN  due

\* $filter, from a date on; from today on, if none is given.
Due(from) == DueOf(profile.weeks, IF from = None THEN today ELSE from)[Len(profile.weeks)]

TotalPages(from) == (Len(Due(from)) + Limit - 1) \div Limit

\* $slice
Slice(seq, skip, n) == SubSeq(seq, skip + 1, Min({Len(seq), skip + n}))

\* getAvailabilityPaginated and getAvailabilities: $slice of $filter.
Page(from, k) == Slice(Due(from), (k - 1) * Limit, Limit)

\* The reader asks for the first page, from a date on.
Open(from) == /\ profile # None /\ reader.pc = "idle"
              /\ reader' = [NoReader EXCEPT !.from = from, !.pc = "reading",
                                            !.due = ToSet(Due(from))]
              /\ UNCHANGED <<user, profile, registering, today>>

\* One request; the reader goes on while there are pages.
Turn ==
  LET k == reader.page + 1  from == reader.from  IN
  /\ reader.pc = "reading"
  /\ reader' = [reader EXCEPT !.page = k, !.total = TotalPages(from),
                              !.seen = @ \o [i \in DOMAIN Page(from, k) |-> Page(from, k)[i].start],
                              !.pc = IF k < TotalPages(from) THEN "reading" ELSE "done"]
  /\ UNCHANGED <<user, profile, registering, today>>

Close == /\ reader.pc = "done" /\ reader' = NoReader
         /\ UNCHANGED <<user, profile, registering, today>>

-----------------------------------------------------------------------------
(* Search *)

SlotsOn(d) == UNION {IF d \in DOMAIN profile.weeks[i].days THEN profile.weeks[i].days[d] ELSE {} :
                       i \in DOMAIN profile.weeks}

\* The half of the day is that of the start of the whole range.
InHalf(s, half) == CASE half = "AM" -> s.start < Noon
                     [] half = "PM" -> s.start >= Noon
                     [] half = None -> TRUE

\* Mutant: the last day of a week is left out.
AroundBefore(d) == /\ \E i \in DOMAIN profile.weeks : profile.weeks[i].start <= d
                   /\ \E i \in DOMAIN profile.weeks : profile.weeks[i].end > d

\* The match on the date before the weeks are unwound: some week starts by
\* then, and some week, not necessarily the same, ends no earlier.
Around(d) == /\ \E i \in DOMAIN profile.weeks : profile.weeks[i].start <= d
             /\ \E i \in DOMAIN profile.weeks : profile.weeks[i].end >= d

\* Booked ranges count as much as free ones.
HasSlot(d, half) ==
  IF d = None THEN \E e \in Dates : \E s \in SlotsOn(e) : InHalf(s, half)
  ELSE Around(d) /\ \E s \in SlotsOn(d) : InHalf(s, half)

\* searchInstructors, and searchTestInstructors, which does not ask whether
\* the instructor is published.
Found(area, v, d, half) ==
  /\ area \in profile.areas /\ profile.vehicles[v].has
  /\ HasSlot(d, half)
  /\ user # None /\ user.published

FoundForTest(area, v, d, half) ==
  /\ area \in profile.tests /\ profile.vehicles[v].has
  /\ HasSlot(d, half)
  /\ user # None

\* The vehicles shown by getInstructorProfile as the instructor's own.
Shown == {v \in Vehicles : profile.vehicles[v].has}

-----------------------------------------------------------------------------
Next == \/ Register \/ CreateProfile \/ RegisterDies \/ Publish \/ Tomorrow
        \/ \E t \in Transmissions : UpdateUser(t)
        \/ \E v \in Vehicles, p \in BOOLEAN : UpdateVehicle(v, p)
        \/ \E t \in Transmissions : UpdatePrivateVehicle(t)
        \/ \E as \in SUBSET Areas : UpdateServiceAreas(as) \/ UpdateTestLocations(as)
        \/ \E part \in {"documents", "financial"} : UpdateDetails(part)
        \/ \E w \in WeekChoices : AppendWeek(w)
        \/ profile # None /\ \E i \in DOMAIN profile.weeks : \E d \in DOMAIN profile.weeks[i].days :
             \/ \E slots \in DayChoices : UpdateDaySlots(i, d, slots)
             \/ \E s \in profile.weeks[i].days[d] : ~s.booked /\ Book(i, d, s)
        \/ \E from \in Dates \cup {None} : Open(from)
        \/ Turn \/ Close

Spec == Init /\ [][Next]_vars

-----------------------------------------------------------------------------
(* Properties *)

Slots == (UNION DayChoices) \cup {[s EXCEPT !.booked = TRUE] : s \in UNION DayChoices}

\* A profile belongs to a user; its weeks have the fields of the schema.
TypeOK ==
  /\ user \in {None} \cup [published : BOOLEAN, transmission : Transmissions]
  /\ profile # None =>
       /\ user # None /\ ~registering
       /\ profile.vehicles \in [Vehicles -> [has : BOOLEAN, price : BOOLEAN]]
       /\ profile.private \subseteq Vehicles /\ profile.filled \subseteq {"documents", "financial"}
       /\ profile.areas \subseteq Areas /\ profile.tests \subseteq Areas
       /\ \A i \in DOMAIN profile.weeks :
            LET w == profile.weeks[i] IN w.days \in [w.start..w.end -> SUBSET Slots]
  /\ registering \in BOOLEAN /\ today \in Dates
  /\ reader.pc \in {"idle", "reading", "done"}
  /\ reader.page \in Nat /\ \A w \in reader.due : w.start \in Dates

\* What getVehiclePricing and the availability let a learner book.
Bookable(v, d, t) ==
  /\ profile.vehicles[v].has /\ profile.vehicles[v].price
  /\ \E s \in SlotsOn(d) : ~s.booked /\ s.start <= t /\ t + Lesson <= s.end

\* Whoever could be booked in the morning of a date, or at any time of it, is
\* found by a search for that date (searchInstructors), by the search for a
\* test (searchTestInstructors), and shown with the vehicle.
\* For an afternoon that starts in a morning's range this is false by the code.
BookableIsFound ==
  profile # None => \A v \in Vehicles, d \in Dates : \A t \in 0..Noon :
    t < Noon /\ Bookable(v, d, t) =>
      /\ v \in Shown
      /\ \A area \in Areas, half \in {"AM", None} :
           /\ user.published /\ area \in profile.areas => Found(area, v, d, half)
           /\ area \in profile.tests => FoundForTest(area, v, d, half)

\* A reader who asks for page after page from a given date on, until the last one the answers
\* speak of, has seen every week that was due when the reading began, and none
\* twice, whatever weeks are appended meanwhile.  Without a date it is false by
\* the code: at midnight the pages shift.
PagesComplete ==
  reader.pc = "done" /\ reader.from # None =>
    /\ IsInjective(reader.seen)
    /\ {w.start : w \in reader.due} \subseteq ToSet(reader.seen)
=============================================================================
