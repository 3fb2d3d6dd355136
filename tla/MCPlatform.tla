----------------------------- MODULE MCPlatform -----------------------------
(***************************************************************************)
(* Instances, for TLC, of the parts of the platform that live beside the    *)
(* calendar, the wallet and the payments: lessons and their earnings,       *)
(* profiles and the search, mail and SMS, the slots of the first version,   *)
(* courses, accounts.  They share no state that their properties speak of,  *)
(* so that a behaviour moves one of them, chosen at the start as `about`,   *)
(* and leaves the others at one of their initial states.                    *)
(***************************************************************************)
EXTENDS Platform

CONSTANTS l1, l2, x1, n1, s1, s2, ann, ben, p1

VARIABLE about

-----------------------------------------------------------------------------
(* Lessons: two lessons of one and two hours, a learner with two credits.   *)
(* A behaviour is about the lessons and their credits, the notification     *)
(* flags of one of them, one lesson and fast cash, or the weekly payout.    *)

MCHours == [l \in LessonSet |-> IF l = l1 THEN 1 ELSE 2]
MCOutstanding == [t \in Legacy |-> 100]
MCCredits == <<[hours |-> 2, rate |-> 10], [hours |-> 1, rate |-> 0]>>

LessonSubjects == {"lessons", "flags", "cash", "weekly"}

\* Where the weekly run is not looked at, it has been.
LessonsStart ==
  IF about = "weekly" THEN Init
  ELSE /\ txn = [t \in Txns |-> IF t \in Legacy THEN [status |-> "PAID", earning |-> 100] ELSE NoEarning]
       /\ payouts = {Legacy}
       /\ FundsInit /\ LessonsInit

Jobs(p) == CASE about = "lessons" -> LessonSet
             [] about \in {"flags", "cash"} -> {l1}
             [] about = "weekly" -> {}

FastCash == {"createAccount", "verify", "platform"}

LessonsMove ==
  /\ Next
  /\ \A p \in Procs : /\ proc'[p].job \in LessonSet => proc'[p].job \in Jobs(p)
                      /\ proc'[p].pc \in FastCash => about = "cash"
  /\ about # "cash" => UNCHANGED <<granted, stripe, account>>
  /\ about # "flags" => \A l \in LessonSet : unread[l] \subseteq unread'[l]
  /\ \A l \in LessonSet : lesson'[l] \notin {lesson[l], "COMPLETED"} =>
       about = "lessons" \/ (about = "flags" /\ l = l1)

-----------------------------------------------------------------------------
(* Profiles: one area, both vehicles, weeks of one and two days, a morning  *)
(* and an afternoon; one week per page.  A behaviour is about how the       *)
(* profile is filled in, the search, or the pages.                          *)

ProfileSubjects == {"fill", "search", "pages"}

am == [start |-> 0, end |-> 2, booked |-> FALSE]
pm == [start |-> 3, end |-> 4, booked |-> FALSE]
Week(a, b) == [start |-> a, end |-> b, days |-> [d \in a..b |-> IF d = b THEN {am} ELSE {}]]

MCTransmissions == {{"auto"}, {"auto", "manual"}}
MCWeekChoices == {Week(1, 2), Week(1, 1), Week(2, 2), Week(3, 3)}
MCDayChoices == {{}, {am}, {am, pm}}

ProfilesStart ==
  IF about # "pages" THEN Profiling!Init
  ELSE /\ user = [published |-> FALSE, transmission |-> {"auto"}]
       /\ profile = [vehicles |-> Profiling!DefaultVehicles({"auto"}), private |-> {"auto"},
                     areas |-> {}, tests |-> {}, filled |-> {}, weeks |-> <<>>]
       /\ registering = FALSE /\ pageDay = 1 /\ reader = Profiling!NoReader

HasProfile == profile # None /\ profile' # None

ProfilesMove ==
  /\ Profiling!Next
  /\ about # "pages" => UNCHANGED <<pageDay, reader>>
  /\ CASE about = "fill" -> profile' # None => profile'.weeks = <<>>
       [] about = "search" -> HasProfile => /\ user'.transmission = user.transmission
                                            /\ profile'.filled = profile.filled
                                            /\ profile'.private = profile.private
                                            /\ Len(profile'.weeks) <= 2
                                            /\ profile'.vehicles["auto"] = profile.vehicles["auto"]
       [] about = "pages" -> /\ user' = user
                             /\ \/ profile' = profile
                                \/ Len(profile'.weeks) > Len(profile.weeks)

-----------------------------------------------------------------------------
(* LegacySlots: two slots, a day to come, half hours.  A behaviour is about *)
(* one booking and every edit, or two bookings of slots that may be         *)
(* cancelled or deleted and packs of two hours; edits come while no booking *)
(* is under way.                                                            *)

LegacySubjects == {"one booking", "two bookings"}

Lessons1 == <<[slot |-> s1, hours |-> 1]>>
Lessons2 == <<[slot |-> s1, hours |-> 1], [slot |-> s2, hours |-> 1]>>

MCTimes == 0..3
MCPayloads == {<<>>, Lessons1, Lessons2}

LegacyEdits ==
  IF about = "one booking" THEN Booking!CarefulEdit
  ELSE \/ Booking!CreateSlot(s1, 2, [start |-> 0, end |-> 1]) \/ Booking!CreateSlot(s2, 2, [start |-> 2, end |-> 3])
       \/ \E s \in {s1, s2} : Booking!UpdateSlotStatus(s) \/ Booking!DeleteSlot(s)

LegacyMove == \/ ~Booking!UnderWay /\ LegacyEdits
              \/ Booking!Tomorrow
              \/ about = "one booking" /\ Booking!BookingStep(p1)
              \/ /\ about = "two bookings" /\ \E p \in Procs : Booking!BookingStep(p) /\ booking'[p].total = 2

-----------------------------------------------------------------------------
(* Courses: two providers with two addresses and phones, a course and all   *)
(* that is done to it, or two courses and two requests.                     *)

CourseSubjects == {"contacts", "course", "leads"}

CoursesMove ==
  \/ about = "contacts" /\ \E p \in {ann, ben} : Teaching!Contact(p)
  \/ about # "contacts" /\ (Teaching!SignUp(ann, 1, 1) \/ Teaching!CreateProvider(ann))
  \/ about = "course" /\ Teaching!Manage(1)
  \/ /\ about = "leads"
     /\ \/ \E c \in {1, 2} : Teaching!AddCourse(ann, c) \/ Teaching!SoftDeleteCourse(ann, c)
        \/ \E p \in Procs : Teaching!Lead(p)

-----------------------------------------------------------------------------
(* Accounts: two learners and every pair of contacts, one learner's         *)
(* password, or three reviews.                                              *)

AccountSubjects == {"accounts", "passwords", "reviews"}

AccountsMove ==
  \E p \in Procs :
    \/ Registering!Dies(p)
    \/ /\ about = "accounts" /\ (Registering!Register(p) \/ Registering!Update(p))
       /\ \A l \in {ann, ben} : learner'[l] # None => learner'[l].password = 1
    \/ about = "passwords" /\ (Registering!CreateLearner(p, ann, 1, 1, 1, None) \/ Registering!Password(p))
    \/ about = "reviews" /\ Registering!Review(p)

-----------------------------------------------------------------------------
(* One part at a time *)

Subjects == LessonSubjects \cup ProfileSubjects \cup {"notices"} \cup LegacySubjects
              \cup CourseSubjects \cup AccountSubjects

ScenarioInit ==
  /\ about \in Subjects
  /\ IF about \in LessonSubjects THEN LessonsStart ELSE RecordsInit /\ FundsInit /\ LessonsInit
  /\ ProfilesStart
  /\ Notifying!Init /\ (about # "notices" => configured)
  /\ Booking!Init /\ Teaching!Init /\ Registering!Init

\* The subjects of a part, its moves, and the variables of the other parts.
Only(subjects, move, others) == about \in subjects /\ move /\ UNCHANGED <<about, others>>

ScenarioNext ==
  \/ Only(LessonSubjects,  LessonsMove,    <<profileVars, noticeVars, legacyVars, courseVars, accountVars>>)
  \/ Only(ProfileSubjects, ProfilesMove,   <<vars, noticeVars, legacyVars, courseVars, accountVars>>)
  \/ Only({"notices"},     Notifying!Next, <<vars, profileVars, legacyVars, courseVars, accountVars>>)
  \/ Only(LegacySubjects,  LegacyMove,     <<vars, profileVars, noticeVars, courseVars, accountVars>>)
  \/ Only(CourseSubjects,  CoursesMove,    <<vars, profileVars, noticeVars, legacyVars, accountVars>>)
  \/ Only(AccountSubjects, AccountsMove,   <<vars, profileVars, noticeVars, legacyVars, courseVars>>)

ScenarioSpec == ScenarioInit /\ [][ScenarioNext]_<<PlatformVars, about>> /\ Fairness
=============================================================================
