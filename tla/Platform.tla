------------------------------ MODULE Platform ------------------------------
(***************************************************************************)
(* The parts of the platform that live beside the calendar, the wallet and *)
(* the payments: lessons and their earnings, profiles and the search, mail *)
(* and SMS, the slots of the first version, courses, and accounts.  They   *)
(* share no document that their properties speak of: a step of the         *)
(* platform is a step of one of them.                                      *)
(***************************************************************************)
EXTENDS Lessons

CONSTANTS
  None,
  Areas, Vehicles, Transmissions, WeekChoices, DayChoices, Lesson, Noon, Limit, \* Profiles
  Senders,                                                 \* Notices: its executions
  SlotIds, SlotDates, Times, Payloads,                     \* LegacySlots
  Providers, Emails, Phones, CourseIds, Customers,         \* Courses
  Learners, Mobiles, Passwords, Tokens, Taught, Stars      \* Accounts; Emails are shared

\* None stands for what MongoDB leaves out: no document, and no token, is None,
\* nor is an answer.
ASSUME NoticesAssumption == None \notin {"ok", "failed"}
ASSUME ProfilesAssumption ==
  /\ None \notin [published : BOOLEAN, transmission : Transmissions] /\ None \notin {"AM", "PM"}
  /\ Transmissions \subseteq SUBSET Vehicles /\ Lesson \in Nat /\ Noon \in Int /\ Limit \in Nat \ {0}
  /\ DayChoices \subseteq SUBSET [start : Int, end : Int, booked : {FALSE}]
  /\ \A w \in WeekChoices :
       w \in [start : Int, end : Int, days : [w.start..w.end -> SUBSET UNION DayChoices]]
ASSUME SlotsAssumption ==
  /\ None \notin [date : SlotDates, start : Times, end : Times, status : {"available", "booked", "cancelled"},
                  locked : BOOLEAN]
  /\ None \notin [total : 1..2, remaining : Nat, status : {"fully_booked", "pending", "partially_booked"}]
  /\ Payloads \subseteq Seq([slot : SlotIds, hours : Nat])
ASSUME CoursesAssumption ==
  /\ None \notin [email : Emails, phone : Phones]
  /\ None \notin [of : Providers, version : {1, 2}, status : {"PENDING_APPROVAL", "APPROVED", "REJECTED"},
                  active : BOOLEAN, deleted : BOOLEAN]
ASSUME AccountsAssumption ==
  /\ None \notin [email : Emails, mobile : Mobiles, password : Passwords,
                  token : Tokens \cup {None}, referredBy : Learners \cup {None}]
  /\ None \notin Tokens

VARIABLES
  user, profile, registering, pageDay, reader,             \* Profiles
  sending, tasks, attempted, configured, up,               \* Notices
  slots, used, booking, bookings, booked, slotDay,         \* LegacySlots
  provider, signing, course, leads, asking,                \* Courses
  learner, referrals, drawn, spent, reviews, rating, exec  \* Accounts

profileVars == <<user, profile, registering, pageDay, reader>>
noticeVars  == <<sending, tasks, attempted, configured, up>>
legacyVars  == <<slots, used, booking, bookings, booked, slotDay>>
courseVars  == <<provider, signing, course, leads, asking>>
accountVars == <<learner, referrals, drawn, spent, reviews, rating, exec>>

Profiling   == INSTANCE Profiles WITH today <- pageDay
Notifying   == INSTANCE Notices WITH exec <- sending, Procs <- Senders
Booking     == INSTANCE LegacySlots WITH exec <- booking, lessons <- booked, today <- slotDay, Dates <- SlotDates
Teaching    == INSTANCE Courses
Registering == INSTANCE Accounts WITH Lessons <- Taught

-----------------------------------------------------------------------------
(* One part at a time *)

PlatformInit == /\ Init /\ Profiling!Init /\ Notifying!Init
                /\ Booking!Init /\ Teaching!Init /\ Registering!Init

PlatformVars == <<vars, profileVars, noticeVars, legacyVars, courseVars, accountVars>>

PlatformNext ==
  \/ Next                /\ UNCHANGED <<profileVars, noticeVars, legacyVars, courseVars, accountVars>>
  \/ Profiling!Next      /\ UNCHANGED <<vars, noticeVars, legacyVars, courseVars, accountVars>>
  \/ Notifying!Next      /\ UNCHANGED <<vars, profileVars, legacyVars, courseVars, accountVars>>
  \/ Booking!CarefulNext /\ UNCHANGED <<vars, profileVars, noticeVars, courseVars, accountVars>>
  \/ Teaching!Next       /\ UNCHANGED <<vars, profileVars, noticeVars, legacyVars, accountVars>>
  \/ Registering!Next    /\ UNCHANGED <<vars, profileVars, noticeVars, legacyVars, courseVars>>

PlatformSpec == PlatformInit /\ [][PlatformNext]_PlatformVars

-----------------------------------------------------------------------------
(* Properties *)

\* Every document of every part has the fields of its schema: the type
\* invariants of the modules.
TypesOK == /\ TypeOK /\ Profiling!TypeOK /\ Notifying!TypeOK
           /\ Booking!TypeOK /\ Teaching!TypeOK /\ Registering!TypeOK

\* Whoever could be booked in the morning is found by the search (Profiles).
BookableIsFound == Profiling!BookableIsFound

\* A reader of all the pages of weeks misses none and sees none twice (Profiles).
PagesComplete == Profiling!PagesComplete

\* A refused mail neither suppresses the next one nor the answer (Notices).
AnswerKept == Notifying!AnswerKept

\* No message that fails in the background ends the process (Notices).
ProcessSurvives == Notifying!ProcessSurvives

\* A lesson booked to its end has its slot (LegacySlots).
LessonSlotBooked == Booking!LessonSlotBooked

\* No two slots on offer, or booked, overlap (LegacySlots).
SlotsDisjoint == Booking!SlotsDisjoint

\* No two providers share an e-mail address or a phone (Courses).
ContactsUnique == Teaching!ContactsUnique

\* A repeated request leaves one lead (Courses).
RepeatLeavesOneLead == Teaching!RepeatLeavesOneLead

\* An answered request is among the leads of the course's provider (Courses).
LeadReachesProvider == Teaching!LeadReachesProvider

\* A stored referral is the one its referee's document names (Accounts).
ReferralsBacked == Registering!ReferralsBacked

\* A spent token opens no other reset (Accounts).
SpentTokenRefused == Registering!SpentTokenRefused

\* The rating shown is the summary of the oldest reviews (Accounts).
RatingIsOfReviews == Registering!RatingIsOfReviews
=============================================================================
