--------------------------- MODULE PlatformProofs ---------------------------
(***************************************************************************)
(* Theorems about Platform: what is proved of its parts holds of the whole *)
(* - for any number of documents, executions and failures.                 *)
(***************************************************************************)
EXTENDS Platform, LessonsProofs, SequenceTheorems

Lectured == INSTANCE CoursesProofs
Recorded == INSTANCE AccountsProofs WITH Lessons <- Taught

-----------------------------------------------------------------------------
(* The platform behaves as its parts *)

\* A step of the platform is a step of one part, which leaves the others alone.
LEMMA PartsBehave ==
  PlatformSpec => Spec /\ Profiling!Spec /\ Notifying!Spec /\ Booking!CarefulSpec /\ Teaching!Spec /\ Registering!Spec
<1>1. PlatformInit => Init /\ Profiling!Init /\ Notifying!Init /\ Booking!Init /\ Teaching!Init /\ Registering!Init
  BY DEF PlatformInit
<1>2. [PlatformNext]_PlatformVars =>
        /\ [Next]_vars /\ [Profiling!Next]_(Profiling!vars) /\ [Notifying!Next]_(Notifying!vars)
        /\ [Booking!CarefulNext]_(Booking!vars) /\ [Teaching!Next]_(Teaching!vars)
        /\ [Registering!Next]_(Registering!vars)
  BY DEF PlatformNext, PlatformVars, profileVars, noticeVars, legacyVars, courseVars, accountVars,
         Profiling!vars, Notifying!vars, Booking!vars, Teaching!vars, Registering!vars
<1> QED BY <1>1, <1>2, PTL DEF PlatformSpec, Spec, Profiling!Spec, Notifying!Spec, Booking!CarefulSpec,
                               Teaching!Spec, Registering!Spec

-----------------------------------------------------------------------------
(* Courses *)

\* Courses, as its proofs see it.
LEMMA SameCourses == Teaching!Spec => Lectured!Spec
<1>1. Teaching!Init <=> Lectured!Init
  BY DEF Teaching!Init, Lectured!Init, Teaching!Idle, Lectured!Idle
<1>2. [Teaching!Next]_(Teaching!vars) <=> [Lectured!Next]_(Lectured!vars)
  BY DEF Teaching!Init, Teaching!Next, Teaching!vars, Teaching!Idle, Teaching!Contact, Teaching!Manage,
         Teaching!Lead, Teaching!SignUp, Teaching!UpdateProfile, Teaching!CreateProvider,
         Teaching!StoreProfile, Teaching!SignDies, Teaching!AddCourse, Teaching!UpdateCourse,
         Teaching!SoftDeleteCourse, Teaching!ApproveCourse, Teaching!RejectCourse, Teaching!FindCourse,
         Teaching!CheckLead, Teaching!CreateLead, Teaching!AskingDies, Teaching!Unused, Teaching!Sign,
         Teaching!ProviderStep, Teaching!Registered, Teaching!Insertable, Teaching!SetCourse,
         Teaching!LeadStep, Teaching!Ask, Teaching!LeadExists,
         Lectured!Init, Lectured!Next, Lectured!vars, Lectured!Idle, Lectured!Contact, Lectured!Manage,
         Lectured!Lead, Lectured!SignUp, Lectured!UpdateProfile, Lectured!CreateProvider, Lectured!StoreProfile,
         Lectured!SignDies, Lectured!AddCourse, Lectured!UpdateCourse, Lectured!SoftDeleteCourse,
         Lectured!ApproveCourse, Lectured!RejectCourse, Lectured!FindCourse, Lectured!CheckLead,
         Lectured!CreateLead, Lectured!AskingDies, Lectured!Unused, Lectured!Sign, Lectured!ProviderStep,
         Lectured!Registered, Lectured!Insertable, Lectured!SetCourse, Lectured!LeadStep, Lectured!Ask,
         Lectured!LeadExists
<1> QED BY <1>1, <1>2, PTL DEF Teaching!Spec, Lectured!Spec

\* However sign-ups and profile changes of course providers interleave with
\* each other and with the rest, the unique indexes keep their contacts apart.
THEOREM ContactsStayUnique == PlatformSpec => []ContactsUnique
<1>1. Lectured!ContactsUnique => ContactsUnique
  BY DEF ContactsUnique, Teaching!ContactsUnique, Lectured!ContactsUnique, Teaching!Registered, Lectured!Registered
<1> QED BY <1>1, SameCourses, PartsBehave, Lectured!ContactsStayUnique, PTL

\* A customer who repeats a request for a course leaves no second lead.
THEOREM RepeatsLeaveOneLead == PlatformSpec => []RepeatLeavesOneLead
<1>1. Lectured!RepeatLeavesOneLead => RepeatLeavesOneLead
  BY DEF RepeatLeavesOneLead, Teaching!RepeatLeavesOneLead, Lectured!RepeatLeavesOneLead
<1> QED BY <1>1, SameCourses, PartsBehave, Lectured!RepeatsLeaveOneLead, PTL

\* Whoever was answered is among the leads of the course's provider until the
\* course is deleted, whatever is done to the course meanwhile.
THEOREM LeadsReachTheirProvider == PlatformSpec => []LeadReachesProvider
<1>1. Lectured!LeadReachesProvider => LeadReachesProvider
  BY DEF LeadReachesProvider, Teaching!LeadReachesProvider, Lectured!LeadReachesProvider,
         Teaching!LeadsOf, Lectured!LeadsOf
<1> QED BY <1>1, SameCourses, PartsBehave, Lectured!LeadsReachTheirProvider, PTL

\* The types of Courses.
LEMMA CoursesTyped == PlatformSpec => []Teaching!TypeOK
<1>1. Lectured!NoneIsApart
  BY CoursesAssumption DEF Lectured!NoneIsApart
<1>2. Lectured!TypeOK => Teaching!TypeOK
  BY DEF Teaching!TypeOK, Lectured!TypeOK, Teaching!Registered, Lectured!Registered,
         Teaching!Courses, Lectured!Courses
<1> QED BY <1>1, <1>2, SameCourses, PartsBehave, Lectured!CoursesTyped, PTL

-----------------------------------------------------------------------------
(* Accounts *)

\* Accounts, as its proofs see it.
LEMMA SameAccounts == Registering!Spec => Recorded!Spec
<1>1. Registering!Init <=> Recorded!Init
  BY DEF Registering!Init, Recorded!Init, Registering!Idle, Recorded!Idle
<1>2. [Registering!Next]_(Registering!vars) <=> [Recorded!Next]_(Recorded!vars)
  BY DEF Registering!Init, Registering!Next, Registering!vars, Registering!Idle, Registering!Register,
         Registering!Update, Registering!Password, Registering!Review, Registering!Dies,
         Registering!CreateLearner, Registering!TryRedeem, Registering!FindReferrer,
         Registering!SetReferredBy, Registering!CreateReferral, Registering!CheckEmail,
         Registering!CheckMobile, Registering!StoreProfile, Registering!ReadPassword,
         Registering!ForgotPassword, Registering!FindToken, Registering!ChangePassword,
         Registering!ResetPassword, Registering!CheckReview, Registering!CreateReview,
         Registering!GetSummary, Registering!StoreRating, Registering!At, Registering!Ends,
         Registering!Insertable, Registering!Become, Registering!Goto, Registering!Accounts,
         Registering!Taken, Registering!CanReview, Registering!SummaryOf, Registering!Reviewed,
         Registering!RoundTenths,
         Recorded!Init, Recorded!Next, Recorded!vars, Recorded!Idle, Recorded!Register, Recorded!Update,
         Recorded!Password, Recorded!Review, Recorded!Dies, Recorded!CreateLearner, Recorded!TryRedeem,
         Recorded!FindReferrer, Recorded!SetReferredBy, Recorded!CreateReferral, Recorded!CheckEmail,
         Recorded!CheckMobile, Recorded!StoreProfile, Recorded!ReadPassword, Recorded!ForgotPassword,
         Recorded!FindToken, Recorded!ChangePassword, Recorded!ResetPassword, Recorded!CheckReview,
         Recorded!CreateReview, Recorded!GetSummary, Recorded!StoreRating, Recorded!At, Recorded!Ends,
         Recorded!Insertable, Recorded!Become, Recorded!Goto, Recorded!Accounts, Recorded!Taken,
         Recorded!CanReview, Recorded!SummaryOf, Recorded!Reviewed, Recorded!RoundTenths, Registering!FoldFunction, Recorded!FoldFunction,
         Registering!FoldFunctionOnSet, Recorded!FoldFunctionOnSet,
         Registering!MapThenFoldSet, Recorded!MapThenFoldSet
<1> QED BY <1>1, <1>2, PTL DEF Registering!Spec, Recorded!Spec

\* No document, and no token, is None.
LEMMA NoneIsNoAccount == Recorded!NoneIsApart
BY AccountsAssumption DEF Recorded!NoneIsApart, Recorded!Documents

\* Wherever registrations end or die, a referral is the one of the referee's
\* document.
THEOREM ReferralsStayBacked == PlatformSpec => []ReferralsBacked
<1>1. Recorded!ReferralsBacked => ReferralsBacked
  BY DEF ReferralsBacked, Registering!ReferralsBacked, Recorded!ReferralsBacked,
         Registering!Accounts, Recorded!Accounts
<1> QED BY <1>1, NoneIsNoAccount, SameAccounts, PartsBehave, Recorded!ReferralsStayBacked, PTL

\* A reset that was answered leaves no document its token, whoever saves it.
THEOREM SpentTokensRefused == PlatformSpec => []SpentTokenRefused
<1>1. Recorded!SpentTokenRefused => SpentTokenRefused
  BY DEF SpentTokenRefused, Registering!SpentTokenRefused, Recorded!SpentTokenRefused,
         Registering!Accounts, Recorded!Accounts
<1> QED BY <1>1, NoneIsNoAccount, SameAccounts, PartsBehave, Recorded!SpentTokensRefused, PTL

\* The rating shown is the summary of the oldest reviews, however many are
\* created at once.
THEOREM RatingsAreOfReviews == PlatformSpec => []RatingIsOfReviews
<1>1. Recorded!RatingIsOfReviews => RatingIsOfReviews
  BY DEF RatingIsOfReviews, Registering!RatingIsOfReviews, Recorded!RatingIsOfReviews,
         Registering!SummaryOf, Recorded!SummaryOf, Registering!RoundTenths, Recorded!RoundTenths, Registering!FoldFunction, Recorded!FoldFunction, Registering!FoldFunctionOnSet, Recorded!FoldFunctionOnSet,
         Registering!MapThenFoldSet, Recorded!MapThenFoldSet
<1> QED BY <1>1, SameAccounts, PartsBehave, Recorded!RatingsAreOfReviews, PTL

\* The types of Accounts.
LEMMA AccountsTyped == PlatformSpec => []Registering!TypeOK
<1>1. Recorded!TypeOK => Registering!TypeOK
  BY DEF Registering!TypeOK, Recorded!TypeOK, Registering!Accounts, Recorded!Accounts,
         Registering!Insertable, Recorded!Insertable
<1> QED BY <1>1, NoneIsNoAccount, SameAccounts, PartsBehave, Recorded!AccountsTyped, PTL

-----------------------------------------------------------------------------
(* Mail and SMS *)

\* The calls of a send; one that is not awaited is caught.
Recipients == {"instructor", "provider", "learner", "recipient", "sender", "support"}
CallDocs == {c \in [by : {"mail", "sms", "error"}, to : Recipients \cup {None}, wait : BOOLEAN, caught : BOOLEAN] :
               ~c.wait => c.caught}
OneMail(calls) == \A k \in 2..Len(calls) : calls[k].by # "mail"
ItemDocs == {x \in [do : {"write", "caught", "thrown", "detached", "settled"}, calls : Seq(CallDocs)] :
               x.do = "write" => x.calls = <<>>}

\* Items that do not throw, and send one mail each.
Harmless == {x \in ItemDocs : x.do # "thrown" /\ (x.do # "detached" => OneMail(x.calls))}

\* Sequences of up to four.
LEMMA ShortTuples ==
  ASSUME NEW S, NEW a \in S, NEW b \in S, NEW c \in S, NEW d \in S
  PROVE  <<a>> \in Seq(S) /\ <<a, b>> \in Seq(S) /\ <<a, b, c>> \in Seq(S) /\ <<a, b, c, d>> \in Seq(S)
OBVIOUS

\* What the senders call.
LEMMA SendersCall ==
  ASSUME NEW to \in Recipients
  PROVE  /\ <<Notifying!Mail(to)>> \in Seq(CallDocs) /\ OneMail(<<Notifying!Mail(to)>>)
         /\ \A phone \in BOOLEAN : /\ Notifying!MailThenSms(to, phone) \in Seq(CallDocs)
                                   /\ OneMail(Notifying!MailThenSms(to, phone))
         /\ Notifying!CourseSignUp(to) \in Seq(CallDocs)
<1>1. Notifying!Mail(to) \in CallDocs /\ Notifying!Sms(to) \in CallDocs /\ Notifying!NoMobileNumber \in CallDocs
      /\ Notifying!Sms(to).by = "sms"
  BY DEF Notifying!Mail, Notifying!Sms, Notifying!NoMobileNumber, CallDocs, Recipients
<1> DEFINE m == Notifying!Mail(to)
           s == Notifying!Sms(to)
<1>2. /\ <<m>> \in Seq(CallDocs) /\ OneMail(<<m>>) /\ <<m, s>> \in Seq(CallDocs)
      /\ <<m, Notifying!NoMobileNumber, s>> \in Seq(CallDocs)
  BY <1>1, ShortTuples DEF OneMail
<1>3. OneMail(<<m, s>>)
  <2>1. Len(<<m, s>>) = 2 /\ <<m, s>>[2] = s
    OBVIOUS
  <2> QED BY <1>1, <2>1 DEF OneMail
<1> QED BY <1>2, <1>3 DEF Notifying!MailThenSms, Notifying!CourseSignUp

\* What a request does, item by item.
LEMMA ItemsAre ==
  ASSUME NEW to \in Recipients, NEW phone \in BOOLEAN
  PROVE  /\ Notifying!Write \in Harmless
         /\ Notifying!Caught(Notifying!MailThenSms(to, phone)) \in Harmless
         /\ Notifying!Settled(Notifying!MailThenSms(to, phone)) \in Harmless
         /\ Notifying!Caught(<<Notifying!Mail(to)>>) \in Harmless
         /\ Notifying!Detached(<<Notifying!Mail(to)>>) \in Harmless
         /\ Notifying!Detached(Notifying!CourseSignUp(to)) \in Harmless
         /\ Notifying!Thrown(<<Notifying!Mail(to)>>) \in ItemDocs
         /\ Notifying!Thrown(Notifying!MailThenSms(to, phone)) \in ItemDocs
         /\ \A other \in Recipients :
              Notifying!Caught(<<Notifying!Mail(to), Notifying!Mail(other)>>) \in ItemDocs
<1>1. \A calls \in Seq(CallDocs), do \in {"caught", "thrown", "detached", "settled"} :
        [do |-> do, calls |-> calls] \in ItemDocs
  BY DEF ItemDocs
<1>2. \A calls \in Seq(CallDocs) : OneMail(calls) =>
        Notifying!Caught(calls) \in Harmless /\ Notifying!Settled(calls) \in Harmless
  BY <1>1 DEF Harmless, Notifying!Caught, Notifying!Settled
<1>3. \A calls \in Seq(CallDocs) : Notifying!Detached(calls) \in Harmless
  BY <1>1 DEF Harmless, Notifying!Detached
<1>4. \A calls \in Seq(CallDocs) : Notifying!Thrown(calls) \in ItemDocs /\ Notifying!Caught(calls) \in ItemDocs
  BY <1>1 DEF Notifying!Thrown, Notifying!Caught
<1>5. Notifying!Write \in Harmless
  BY EmptySeq DEF Notifying!Write, Harmless, ItemDocs, OneMail
<1>6. \A other \in Recipients : <<Notifying!Mail(to), Notifying!Mail(other)>> \in Seq(CallDocs)
  <2>1. \A x \in Recipients : Notifying!Mail(x) \in CallDocs
    BY DEF Notifying!Mail, CallDocs
  <2> QED BY <2>1, ShortTuples
<1> QED BY <1>2, <1>3, <1>4, <1>5, <1>6, SendersCall

\* A script that is not fragile does not throw.
LEMMA QuietScripts ==
  ASSUME NEW s \in Notifying!Scripts, s \notin Notifying!Fragile, s # Notifying!Order
  PROVE  s \in Seq(Harmless)
<1>1. {"learner", "instructor", "provider", "sender", "recipient", "support"} \subseteq Recipients
  BY DEF Recipients
<1> DEFINE w == Notifying!Write
           c(to, phone) == Notifying!Caught(Notifying!MailThenSms(to, phone))
           a(to, phone) == Notifying!Settled(Notifying!MailThenSms(to, phone))
<1>2. w \in Harmless /\ \A to \in Recipients, phone \in BOOLEAN : c(to, phone) \in Harmless /\ a(to, phone) \in Harmless
  <2>1. \A to \in Recipients, phone \in BOOLEAN : c(to, phone) \in Harmless /\ a(to, phone) \in Harmless
    BY ItemsAre
  <2>2. "learner" \in Recipients /\ TRUE \in BOOLEAN
    BY <1>1
  <2>3. w \in Harmless
    BY <2>2, ItemsAre
  <2> QED BY <2>1, <2>3
<1>3. <<w, a("learner", TRUE), a("instructor", TRUE)>> \in Seq(Harmless)
  BY <1>1, <1>2, ShortTuples
<1>4. <<w, c("learner", TRUE), c("instructor", TRUE)>> \in Seq(Harmless)
  BY <1>1, <1>2, ShortTuples
<1>5. <<w, c("learner", TRUE), c("instructor", TRUE), w>> \in Seq(Harmless)
  BY <1>1, <1>2, ShortTuples
<1>6. <<w, c("learner", TRUE), c("instructor", FALSE)>> \in Seq(Harmless) /\ <<w, c("learner", TRUE)>> \in Seq(Harmless)
  BY <1>1, <1>2, ShortTuples
<1>7. /\ <<w>> \in Seq(Harmless) /\ <<w, c("learner", FALSE)>> \in Seq(Harmless) /\ <<>> \in Seq(Harmless)
      /\ <<c("sender", FALSE), c("recipient", FALSE)>> \in Seq(Harmless)
  <2>1. <<w>> \in Seq(Harmless) /\ <<>> \in Seq(Harmless)
    BY <1>2, ShortTuples
  <2>2. /\ c("learner", FALSE) \in Harmless /\ c("sender", FALSE) \in Harmless /\ c("recipient", FALSE) \in Harmless
    BY <1>1, <1>2
  <2> QED BY <1>2, <2>1, <2>2, ShortTuples
<1>8. /\ <<Notifying!Caught(<<Notifying!Mail("instructor")>>)>> \in Seq(Harmless)
      /\ <<w, Notifying!Detached(<<Notifying!Mail("instructor")>>)>> \in Seq(Harmless)
      /\ <<w, Notifying!Detached(Notifying!CourseSignUp("provider"))>> \in Seq(Harmless)
      /\ <<w, Notifying!Detached(<<Notifying!Mail("learner")>>), Notifying!Detached(<<Notifying!Mail("provider")>>)>>
           \in Seq(Harmless)
  BY <1>1, ItemsAre, ShortTuples
<1>9. \A x, y \in Seq(Harmless) : x \o y \in Seq(Harmless)
  BY ConcatProperties
<1>10. CASE s \in {Notifying!CancelSlot, Notifying!RequestNoShow, Notifying!CompleteSlot, Notifying!Respond,
                  Notifying!Move, Notifying!Propose}
  BY <1>3, <1>4, <1>5, <1>6, <1>10
     DEF Notifying!CancelSlot, Notifying!RequestNoShow, Notifying!CompleteSlot, Notifying!Respond,
         Notifying!Move, Notifying!Propose, Notifying!SlotCancelled, Notifying!NoShow, Notifying!SlotCompleted,
         Notifying!Reschedule
<1>11. CASE s \in {Notifying!ActivateVoucher(TRUE), Notifying!ActivateVoucher(FALSE)}
  <2> DEFINE last == <<c("sender", FALSE), c("recipient", FALSE)>>
  <2>1. <<w>> \o <<w, c("learner", FALSE)>> \o last \in Seq(Harmless) /\ <<w>> \o <<>> \o last \in Seq(Harmless)
    <3> HIDE DEF w, c, last
    <3>1. last \in Seq(Harmless)
      BY <1>7 DEF last
    <3> QED BY <1>7, <1>9, <3>1
  <2>2. /\ Notifying!ActivateVoucher(TRUE) = <<w>> \o <<w, c("learner", FALSE)>> \o last
        /\ Notifying!ActivateVoucher(FALSE) = <<w>> \o <<>> \o last
    BY DEF Notifying!ActivateVoucher, Notifying!VoucherCredited, Notifying!GiftVoucherSent, Notifying!GiftVoucher
  <2> QED BY <1>11, <2>1, <2>2
<1>12. CASE s \in {Notifying!RegisterInstructor(FALSE), Notifying!ForgetPassword, Notifying!SignUpProvider,
                   Notifying!CourseLead}
  BY <1>7, <1>8, <1>9, <1>12
     DEF Notifying!RegisterInstructor, Notifying!ForgetPassword, Notifying!SignUpProvider, Notifying!CourseLead,
         Notifying!InstructorWelcome, Notifying!ForgotPassword, Notifying!CourseLeadCustomer,
         Notifying!CourseLeadProvider
<1> QED BY <1>10, <1>11, <1>12 DEF Notifying!Scripts

\* The scripts: what throws comes last, and only where a request may fail.
Throws(s) == \A i \in 1..Len(s) : s[i].do = "thrown" => i = Len(s) /\ s \in Notifying!Fragile
OneEach(s) == \A i \in 1..Len(s) :
  s[i].do # "detached" /\ (s # Notifying!Order \/ s[i].do = "settled") => OneMail(s[i].calls)
Unjoined(s) == s \in Notifying!Fragile => \A i \in 1..Len(s) : s[i].do # "settled"

\* Every script is made of items; one that may answer a failure is Fragile.
LEMMA ScriptsAre ==
  ASSUME NEW s \in Notifying!Scripts \cup {<<>>}
  PROVE  s \in Seq(ItemDocs) /\ Throws(s) /\ OneEach(s) /\ Unjoined(s)
<1>1. CASE s \in Seq(Harmless) /\ s \notin Notifying!Fragile
  <2>1. \A i \in 1..Len(s) : s[i] \in Harmless
    BY <1>1
  <2>2. Harmless \subseteq ItemDocs
    BY DEF Harmless
  <2>3. s \in Seq(ItemDocs)
    BY <1>1, <2>1, <2>2
  <2> QED BY <1>1, <2>1, <2>3 DEF Harmless, Throws, OneEach, Unjoined
<1>2. CASE s = Notifying!Order
  <2> DEFINE x == Notifying!Caught(<<Notifying!Mail("learner"), Notifying!Mail("instructor")>>)
  <2>1. "learner" \in Recipients /\ "instructor" \in Recipients /\ TRUE \in BOOLEAN
    BY DEF Recipients
  <2>2. Notifying!Write \in ItemDocs /\ x \in ItemDocs /\ Notifying!Write.do = "write" /\ x.do = "caught"
    BY <2>1, ItemsAre DEF Harmless, Notifying!Write, Notifying!Caught
  <2>3. s = <<Notifying!Write, x>>
    BY <1>2 DEF Notifying!Order, Notifying!OrderCreated
  <2> HIDE DEF x
  <2>4. s \in Seq(ItemDocs) /\ \A i \in 1..Len(s) : s[i].do \in {"write", "caught"}
    BY <2>2, <2>3, ShortTuples
  <2> QED BY <1>2, <2>4 DEF Throws, OneEach, Unjoined
<1>3. CASE s \in Notifying!Fragile
  <2>1. PICK front, y : /\ front \in Seq(Harmless) /\ y \in ItemDocs /\ y.do = "thrown" /\ OneMail(y.calls)
                        /\ \A i \in 1..Len(front) : front[i].do # "settled"
                        /\ s = front \o <<y>>
    <3> DEFINE w == Notifying!Write
               d == Notifying!Detached(<<Notifying!Mail("instructor")>>)
               t == Notifying!Thrown(<<Notifying!Mail("support")>>)
               f == Notifying!Thrown(Notifying!MailThenSms("support", FALSE))
               c == Notifying!Thrown(Notifying!MailThenSms("support", TRUE))
    <3>1. "support" \in Recipients /\ "instructor" \in Recipients /\ TRUE \in BOOLEAN /\ FALSE \in BOOLEAN
      BY DEF Recipients
    <3>2. w \in Harmless /\ d \in Harmless /\ t \in ItemDocs /\ f \in ItemDocs /\ c \in ItemDocs
      BY <3>1, ItemsAre
    <3>3. /\ t.do = "thrown" /\ OneMail(t.calls) /\ f.do = "thrown" /\ OneMail(f.calls)
          /\ c.do = "thrown" /\ OneMail(c.calls)
      BY <3>1, SendersCall DEF Notifying!Thrown
    <3>4. s \in {<<w, d>> \o <<t>>, <<w, t>>, <<w, f>>, <<c>>}
      BY <1>3 DEF Notifying!Fragile, Notifying!RegisterInstructor, Notifying!SubmitLead, Notifying!SubmitFeedback,
                  Notifying!SubmitContact, Notifying!InstructorWelcome, Notifying!InstructorLead,
                  Notifying!Feedback, Notifying!ContactUs
    <3> HIDE DEF w, d, t, f, c
    <3>5. <<w, d>> \in Seq(Harmless) /\ <<w>> \in Seq(Harmless) /\ <<>> \in Seq(Harmless)
      BY <3>2, ShortTuples
    <3>7. /\ \A i \in 1..Len(<<w, d>>) : <<w, d>>[i].do # "settled"
          /\ \A i \in 1..Len(<<w>>) : <<w>>[i].do # "settled"
      BY DEF w, d, Notifying!Write, Notifying!Detached
    <3>6. <<w, t>> = <<w>> \o <<t>> /\ <<w, f>> = <<w>> \o <<f>> /\ <<c>> = <<>> \o <<c>>
      <4>1. ASSUME NEW x \in ItemDocs, NEW z \in ItemDocs PROVE <<x, z>> = <<x>> \o <<z>>
        <5>1. <<x>> \in Seq(ItemDocs) /\ <<z>> \in Seq(ItemDocs) /\ <<x, z>> \in Seq(ItemDocs)
          BY ShortTuples
        <5>2. /\ Len(<<x>> \o <<z>>) = 2 /\ <<x>> \o <<z>> \in Seq(ItemDocs)
              /\ (<<x>> \o <<z>>)[1] = x /\ (<<x>> \o <<z>>)[2] = z
          <6>1. /\ Len(<<x>>) = 1 /\ Len(<<z>>) = 1 /\ <<x>>[1] = x /\ <<z>>[1] = z
            OBVIOUS
          <6>2. PICK a, b : a = <<x>> /\ b = <<z>>
            BY Zenon
          <6>3. a \in Seq(ItemDocs) /\ b \in Seq(ItemDocs) /\ Len(a) = 1 /\ Len(b) = 1 /\ a[1] = x /\ b[1] = z
            BY <5>1, <6>1, <6>2
          <6>4. /\ a \o b \in Seq(ItemDocs) /\ Len(a \o b) = Len(a) + Len(b)
                /\ \A i \in 1..(Len(a) + Len(b)) : (a \o b)[i] = IF i <= Len(a) THEN a[i] ELSE b[i - Len(a)]
            BY <6>3, ConcatProperties
          <6>5. /\ a \o b \in Seq(ItemDocs) /\ Len(a \o b) = 2 /\ (a \o b)[1] = x /\ (a \o b)[2] = z
            BY <6>3, <6>4
          <6> QED BY <6>2, <6>5
        <5>3. Len(<<x, z>>) = 2 /\ <<x, z>>[1] = x /\ <<x, z>>[2] = z
          OBVIOUS
        <5>4. PICK u, v : u = <<x, z>> /\ v = <<x>> \o <<z>>
          BY Zenon
        <5>5. /\ u \in Seq(ItemDocs) /\ v \in Seq(ItemDocs) /\ Len(u) = 2 /\ Len(v) = 2
              /\ u[1] = v[1] /\ u[2] = v[2]
          BY <5>1, <5>2, <5>3, <5>4
        <5>6. \A i \in 1..Len(u) : u[i] = v[i]
          <6>1. \A i \in 1..2 : i = 1 \/ i = 2
            OBVIOUS
          <6> QED BY <5>5, <6>1
        <5>7. u = v
          BY <5>5, <5>6, SeqEqual
        <5> QED BY <5>4, <5>7
      <4>2. ASSUME NEW z \in ItemDocs PROVE <<z>> = <<>> \o <<z>>
        BY ConcatEmptySeq, ShortTuples
      <4>3. w \in ItemDocs
        BY <3>2 DEF Harmless
      <4> QED BY <3>2, <4>1, <4>2, <4>3
    <3> DEFINE P(front, y) == /\ front \in Seq(Harmless) /\ y \in ItemDocs /\ y.do = "thrown" /\ OneMail(y.calls)
                              /\ \A i \in 1..Len(front) : front[i].do # "settled"
    <3>8. /\ P(<<w, d>>, t) /\ P(<<w>>, t) /\ P(<<w>>, f) /\ P(<<>>, c)
      BY <3>2, <3>3, <3>5, <3>7
    <3> HIDE DEF P
    <3>9. \E front, y : P(front, y) /\ s = front \o <<y>>
      BY <3>4, <3>6, <3>8
    <3> QED BY <3>9 DEF P
  <2>2. <<y>> \in Seq(ItemDocs) /\ Harmless \subseteq ItemDocs
    BY <2>1 DEF Harmless
  <2>3. front \in Seq(ItemDocs)
    <3>1. \A i \in 1..Len(front) : front[i] \in Harmless
      BY <2>1
    <3> QED BY <2>1, <2>2, <3>1
  <2>4. /\ s \in Seq(ItemDocs) /\ Len(s) = Len(front) + 1 /\ Len(front) \in Nat
        /\ s[Len(s)] = y /\ \A i \in 1..Len(front) : s[i] = front[i] /\ front[i] \in Harmless
    BY <2>1, <2>2, <2>3
  <2>5. \A i \in 1..Len(s) : (s[i] = y /\ i = Len(s)) \/ s[i] \in Harmless
    <3>1. \A i \in 1..Len(s) : i = Len(s) \/ i \in 1..Len(front)
      BY <2>4
    <3> QED BY <2>4, <3>1
  <2>6. Throws(s)
    BY <1>3, <2>5 DEF Throws, Harmless
  <2>7. Unjoined(s)
    <3>1. \A i \in 1..Len(s) : i = Len(s) \/ i \in 1..Len(front)
      BY <2>4
    <3> QED BY <2>1, <2>4, <3>1 DEF Unjoined
  <2> QED BY <2>1, <2>4, <2>5, <2>6, <2>7 DEF OneEach, Harmless
<1> QED BY <1>1, <1>2, <1>3, QuietScripts, EmptySeq

\* What is still to do of a script: its end, of whose first item some calls may
\* be made.  H are the mails that were handed over, R those that will be.
Place(s, todo) == Len(s) - Len(todo) + 1
Made(s, todo) == Len(s[Place(s, todo)].calls) - Len(todo[1].calls)
EndOf(s, todo) ==
  /\ Len(todo) <= Len(s)
  /\ \A i \in 2..Len(todo) : todo[i] = s[Place(s, todo) + i - 1]
  /\ todo # <<>> =>
       LET item == todo[1]  of == s[Place(s, todo)] IN
       /\ item.do = of.do /\ Len(item.calls) <= Len(of.calls)
       /\ \A k \in 1..Len(item.calls) : item.calls[k] = of.calls[Made(s, todo) + k]
       /\ item.do \notin {"caught", "thrown"} => item.calls = of.calls
Mailed(calls, n, R) == \A k \in 1..n : calls[k].by = "mail" => calls[k] \in R
Handled(s, todo, H, R) ==
  /\ todo # <<>> => Mailed(s[Place(s, todo)].calls, Made(s, todo), H)
  /\ \A i \in 1..(Place(s, todo) - 1) :
       s # Notifying!Order /\ s[i].do # "detached" => Mailed(s[i].calls, Len(s[i].calls), R)

\* A script that has just started, and one that has ended.
LEMMA WholeScript ==
  ASSUME NEW s \in Seq(ItemDocs), NEW H, NEW R
  PROVE  EndOf(s, s) /\ Handled(s, s, H, R)
<1>1. Len(s) \in Nat /\ Place(s, s) = 1
  BY DEF Place
<1>2. s # <<>> => s[1] \in ItemDocs
  BY EmptySeq
<1>3. s # <<>> => s[1].calls \in Seq(CallDocs)
  BY <1>2 DEF ItemDocs
<1>4. s # <<>> => Len(s[1].calls) \in Nat /\ Made(s, s) = 0
  BY <1>1, <1>3 DEF Made
<1> QED BY <1>1, <1>4 DEF EndOf, Handled, Mailed

\* The first item is done with.
LEMMA ItemDone ==
  ASSUME NEW s \in Seq(ItemDocs), NEW todo \in Seq(ItemDocs), todo # <<>>, EndOf(s, todo),
         NEW H, NEW R, NEW H1, NEW R1, Handled(s, todo, H, R), R \subseteq R1,
         LET of == s[Place(s, todo)] IN
           s # Notifying!Order /\ of.do # "detached" => Mailed(of.calls, Len(of.calls), R1)
  PROVE  Tail(todo) \in Seq(ItemDocs) /\ EndOf(s, Tail(todo)) /\ Handled(s, Tail(todo), H1, R1)
<1>1. PICK n \in Nat, m \in Nat : n = Len(s) /\ m = Len(todo)
  OBVIOUS
<1>2. m # 0 /\ m <= n
  BY <1>1, EmptySeq DEF EndOf
<1>3. PICK rest : rest = Tail(todo)
  BY Zenon
<1>4. rest \in Seq(ItemDocs) /\ Len(rest) = m - 1 /\ \A i \in 1..(m - 1) : rest[i] = todo[i + 1]
  BY <1>1, <1>2, <1>3, HeadTailProperties
<1>5. Place(s, todo) = n - m + 1 /\ Place(s, rest) = n - m + 2
  BY <1>1, <1>4 DEF Place
<1>6. \A i \in 1..(m - 1) : rest[i] = s[Place(s, rest) + i - 1]
  <2> SUFFICES ASSUME NEW i \in 1..(m - 1) PROVE rest[i] = s[Place(s, rest) + i - 1]
    OBVIOUS
  <2>1. i + 1 \in 2..m /\ Place(s, rest) + i - 1 = Place(s, todo) + (i + 1) - 1
    BY <1>5
  <2> QED BY <1>1, <1>4, <2>1 DEF EndOf
<1>7. rest # <<>> => 1 \in 1..(m - 1)
  BY <1>1, <1>2, <1>4
<1>8. rest # <<>> => rest[1] = s[Place(s, rest)] /\ s[Place(s, rest)] \in ItemDocs
  <2>1. rest # <<>> => rest[1] = s[Place(s, rest) + 1 - 1] /\ Place(s, rest) + 1 - 1 = Place(s, rest)
    BY <1>5, <1>6, <1>7
  <2>2. rest # <<>> => Place(s, rest) \in 1..n
    BY <1>2, <1>5, <1>7
  <2> QED BY <1>1, <2>1, <2>2
<1>9. rest # <<>> => Made(s, rest) = 0 /\ Len(rest[1].calls) \in Nat
  <2>1. rest # <<>> => rest[1].calls \in Seq(CallDocs)
    BY <1>8 DEF ItemDocs
  <2> QED BY <1>8, <2>1 DEF Made
<1>10. EndOf(s, rest)
  <2>1. \A i \in 2..Len(rest) : i \in 1..(m - 1)
    BY <1>4
  <2> QED BY <1>1, <1>2, <1>4, <1>6, <1>8, <1>9, <2>1 DEF EndOf
<1>11. Handled(s, rest, H1, R1)
  <2>1. \A i \in 1..(Place(s, rest) - 1) : i \in 1..(Place(s, todo) - 1) \/ i = Place(s, todo)
    BY <1>5
  <2> QED BY <1>9, <2>1 DEF Handled, Mailed
<1> QED BY <1>3, <1>4, <1>10, <1>11

\* Positions in the rest of a sequence.
LEMMA Shifted ==
  ASSUME NEW k \in Nat, NEW l \in Nat
  PROVE  /\ \A i \in 1..(k - 1) : i + 1 \in 1..k /\ l - k + (i + 1) = l - k + 1 + i
         /\ \A i \in 1..(l - k + 1) : i \in 1..(l - k) \/ i = l - k + 1
         /\ k # 0 => 1 \in 1..k /\ l - (k - 1) = l - k + 1
OBVIOUS

\* One call of the first item is made.
LEMMA CallMade ==
  ASSUME NEW s \in Seq(ItemDocs), NEW todo \in Seq(ItemDocs), todo # <<>>, EndOf(s, todo),
         NEW H, NEW R, NEW H1, NEW R1, Handled(s, todo, H, R), H \subseteq H1, R \subseteq R1,
         todo[1].do \in {"caught", "thrown"}, todo[1].calls # <<>>,
         Head(todo[1].calls).by = "mail" => Head(todo[1].calls) \in H1
  PROVE  LET next == [todo EXCEPT ![1].calls = Tail(@)] IN
         next \in Seq(ItemDocs) /\ EndOf(s, next) /\ Handled(s, next, H1, R1)
<1>1. PICK n \in Nat, m \in Nat : n = Len(s) /\ m = Len(todo)
  OBVIOUS
<1>2. m # 0 /\ m <= n
  BY <1>1, EmptySeq DEF EndOf
<1>3. todo[1] \in ItemDocs
  BY <1>1, <1>2
<1>4. todo[1].calls \in Seq(CallDocs)
  BY <1>3 DEF ItemDocs
<1>5. PICK rest : rest = Tail(todo[1].calls)
  BY Zenon
<1>6. /\ rest \in Seq(CallDocs) /\ Len(rest) = Len(todo[1].calls) - 1 /\ Len(todo[1].calls) \in Nat \ {0}
      /\ \A i \in 1..Len(rest) : rest[i] = todo[1].calls[i + 1]
      /\ Head(todo[1].calls) = todo[1].calls[1]
  BY <1>4, <1>5, HeadTailProperties
<1>7. PICK item : item = [todo[1] EXCEPT !.calls = rest]
  BY Zenon
<1>8. item \in ItemDocs /\ item.do = todo[1].do /\ item.calls = rest
  BY <1>3, <1>6, <1>7 DEF ItemDocs
<1>9. PICK next : next = [todo EXCEPT ![1] = item]
  BY Zenon
<1>10. /\ next \in Seq(ItemDocs) /\ Len(next) = m /\ next[1] = item /\ next # <<>>
       /\ \A i \in 2..m : next[i] = todo[i]
  <2>1. next \in Seq(ItemDocs) /\ Len(next) = m /\ \A i \in 1..m : next[i] = IF i = 1 THEN item ELSE todo[i]
    BY <1>1, <1>2, <1>8, <1>9, ExceptSeq
  <2> QED BY <1>2, <2>1, EmptySeq
<1>11. Place(s, next) = Place(s, todo) /\ Place(s, todo) \in 1..n
  BY <1>1, <1>2, <1>10 DEF Place
<1>12. PICK of : of = s[Place(s, todo)]
  BY Zenon
<1>13. of \in ItemDocs
  BY <1>1, <1>11, <1>12
<1>14. of.calls \in Seq(CallDocs)
  BY <1>13 DEF ItemDocs
<1>15. PICK k \in Nat, l \in Nat : k = Len(todo[1].calls) /\ l = Len(of.calls)
  BY <1>6, <1>14
<1>16. k # 0 /\ k <= l /\ Made(s, todo) = l - k /\ Made(s, next) = l - k + 1 /\ Len(rest) = k - 1
  <2>1. k # 0 /\ Len(rest) = k - 1
    BY <1>6, <1>15
  <2>2. k <= l /\ Made(s, todo) = l - k
    BY <1>12, <1>15 DEF EndOf, Made
  <2>3. Made(s, next) = l - (k - 1)
    BY <1>8, <1>10, <1>11, <1>12, <1>15, <2>1 DEF Made
  <2> QED BY <2>1, <2>2, <2>3, Shifted
<1>17. \A i \in 1..k : todo[1].calls[i] = of.calls[l - k + i]
  BY <1>12, <1>15, <1>16 DEF EndOf
<1>18. \A i \in 1..(k - 1) : rest[i] = of.calls[l - k + 1 + i]
  <2> SUFFICES ASSUME NEW i \in 1..(k - 1) PROVE rest[i] = of.calls[l - k + 1 + i]
    OBVIOUS
  <2>1. i + 1 \in 1..k /\ l - k + (i + 1) = l - k + 1 + i
    BY Shifted
  <2> QED BY <1>6, <1>16, <1>17, <2>1
<1>19. EndOf(s, next)
  <2>1. Len(next) <= Len(s)
    BY <1>1, <1>2, <1>10
  <2>2. \A i \in 2..Len(next) : next[i] = s[Place(s, next) + i - 1]
    BY <1>1, <1>10, <1>11 DEF EndOf
  <2>3. next[1].do = of.do /\ next[1].calls = rest /\ Len(rest) <= Len(of.calls)
    BY <1>8, <1>10, <1>12, <1>15, <1>16 DEF EndOf
  <2>4. \A i \in 1..Len(rest) : rest[i] = of.calls[Made(s, next) + i]
    BY <1>16, <1>18
  <2>5. next[1].do \in {"caught", "thrown"}
    BY <1>8, <1>10
  <2> HIDE DEF Place, Made
  <2> QED BY <1>11, <1>12, <2>1, <2>2, <2>3, <2>4, <2>5 DEF EndOf
<1>20. Handled(s, next, H1, R1)
  <2>1. Mailed(of.calls, l - k + 1, H1)
    <3>1. Mailed(of.calls, l - k, H)
      <4>1. Mailed(s[Place(s, todo)].calls, Made(s, todo), H)
        BY DEF Handled
      <4> QED BY <1>12, <1>16, <4>1
    <3>2. 1 \in 1..k /\ \A i \in 1..(l - k + 1) : i \in 1..(l - k) \/ i = l - k + 1
      BY <1>16, Shifted
    <3>3. Head(todo[1].calls) = of.calls[l - k + 1]
      BY <1>6, <1>17, <3>2
    <3> QED BY <3>1, <3>2, <3>3 DEF Mailed
  <2>2. \A i \in 1..(Place(s, todo) - 1) :
          s # Notifying!Order /\ s[i].do # "detached" => Mailed(s[i].calls, Len(s[i].calls), R1)
    BY DEF Handled, Mailed
  <2>3. Made(s, next) = l - k + 1 /\ Place(s, next) = Place(s, todo)
    BY <1>11, <1>16
  <2> QED BY <1>12, <2>1, <2>2, <2>3 DEF Handled
<1>21. next = [todo EXCEPT ![1].calls = Tail(@)]
  <2>1. [todo EXCEPT ![1].calls = Tail(@)] = [todo EXCEPT ![1] = [todo[1] EXCEPT !.calls = Tail(todo[1].calls)]]
    BY <1>1, <1>2
  <2> QED BY <1>5, <1>7, <1>9, <2>1
<1> QED BY <1>10, <1>19, <1>20, <1>21

\* The mails of an execution that were handed over, and those a promise that its
\* answer waits for still has.
Mails == {c \in CallDocs : c.by = "mail"}
Handed(p) == {x \in Mails : <<p, x.to>> \in attempted}
Awaited(p) == {x \in Mails : \E t \in tasks : t.of = p /\ t.joined /\ \E m \in 1..Len(t.calls) : t.calls[m] = x}
Secured(p) == Handed(p) \cup Awaited(p)

Requests == [script : Notifying!Scripts \cup {<<>>}, todo : Seq(ItemDocs), answer : {None, "ok", "failed"}]
TaskDocs == {t \in [of : Senders, calls : Seq(CallDocs), caught : {TRUE}, joined : BOOLEAN] :
               t.joined => OneMail(t.calls)}
Held == {t \in TaskDocs : t.joined}   \* the answer waits for them

\* A promise is of a request that was started, and none waits for it that may fail.
Backed(t, script) == script # <<>> /\ (t \in Held => script \notin Notifying!Fragile)

NoticeTypes ==
  /\ sending \in [Senders -> Requests]
  /\ tasks \subseteq TaskDocs
  /\ \A t \in tasks : Backed(t, sending[t.of].script)
  /\ configured \in BOOLEAN /\ up = TRUE

Kept(p) ==
  LET e == sending[p] IN
  /\ e.answer = "failed" => e.script \in Notifying!Fragile
  /\ e.answer # None /\ e.script # Notifying!Order =>
       \A i \in 1..Len(e.script) : e.script[i].do # "detached" =>
         Mailed(e.script[i].calls, Len(e.script[i].calls), Handed(p))

Sends(p) ==
  LET e == sending[p] IN
  /\ EndOf(e.script, e.todo) /\ Handled(e.script, e.todo, Handed(p), Secured(p))
  /\ (e.answer # None => e.todo = <<>>) /\ Kept(p)

NoticeInv == NoticeTypes /\ \A p \in Senders : Sends(p)

\* An execution that does not move.
LEMMA StandsStill ==
  ASSUME NEW p \in Senders, Sends(p), sending'[p] = sending[p], attempted \subseteq attempted',
         Awaited(p) \subseteq Secured(p)'
  PROVE  Sends(p)'
<1>1. Handed(p) \subseteq Handed(p)'
  BY DEF Handed
<1>2. Secured(p) \subseteq Secured(p)'
  BY <1>1 DEF Secured
<1> QED BY <1>1, <1>2 DEF Sends, Kept, Handled, Mailed

\* Promises that are added take nothing away.
LEMMA MoreTasks ==
  ASSUME tasks \subseteq tasks', attempted \subseteq attempted', NEW p
  PROVE  Awaited(p) \subseteq Secured(p)' /\ Handed(p) \subseteq Handed(p)' /\ Secured(p) \subseteq Secured(p)'
BY DEF Awaited, Secured, Handed

\* One execution moves on in its script.
LEMMA Proceeds ==
  ASSUME NoticeInv, NEW p \in Senders, NEW e \in Requests, sending' = [sending EXCEPT ![p] = e],
         e.script = sending[p].script, tasks \subseteq tasks', attempted \subseteq attempted',
         \A t \in tasks' : t \in tasks \/ (t \in TaskDocs /\ t.of = p /\ Backed(t, e.script)),
         UNCHANGED <<configured, up>>,
         EndOf(e.script, e.todo), Handled(e.script, e.todo, Handed(p)', Secured(p)'),
         e.answer # None => e.todo = <<>>,
         e.answer = "failed" => e.script \in Notifying!Fragile,
         e.answer # None /\ e.script # Notifying!Order =>
           \A i \in 1..Len(e.script) : e.script[i].do # "detached" =>
             Mailed(e.script[i].calls, Len(e.script[i].calls), Handed(p)')
  PROVE  NoticeInv'
<1>1. sending'[p] = e /\ \A q \in Senders \ {p} : sending'[q] = sending[q]
  BY DEF NoticeInv, NoticeTypes
<1>2. NoticeTypes'
  <2>1. sending' \in [Senders -> Requests]
    BY DEF NoticeInv, NoticeTypes
  <2>2. tasks' \subseteq TaskDocs
    BY DEF NoticeInv, NoticeTypes
  <2>3. \A t \in tasks' : Backed(t, sending'[t.of].script)
    <3>1. \A t \in tasks : t.of \in Senders /\ Backed(t, sending[t.of].script)
      BY DEF NoticeInv, NoticeTypes, TaskDocs
    <3> QED BY <1>1, <3>1
  <2> QED BY <2>1, <2>2, <2>3 DEF NoticeInv, NoticeTypes
<1>3. \A q \in Senders \ {p} : Sends(q)'
  BY <1>1, StandsStill, MoreTasks DEF NoticeInv
<1>4. Sends(p)'
  BY <1>1 DEF Sends, Kept
<1> QED BY <1>2, <1>3, <1>4 DEF NoticeInv

\* The item an execution is at.
LEMMA HeadItem ==
  ASSUME NoticeInv, NEW p \in Senders, sending[p].todo # <<>>
  PROVE  LET e == sending[p]  of == e.script[Place(e.script, e.todo)] IN
         /\ e \in Requests /\ e.script \in Seq(ItemDocs) /\ e.todo \in Seq(ItemDocs)
         /\ e.script # <<>> /\ Place(e.script, e.todo) \in 1..Len(e.script) /\ of \in ItemDocs
         /\ Head(e.todo) = e.todo[1] /\ e.todo[1] \in ItemDocs /\ e.todo[1].do = of.do
         /\ e.answer = None
<1> DEFINE e == sending[p]
<1>1. e \in Requests /\ EndOf(e.script, e.todo) /\ e.answer = None
  BY DEF NoticeInv, NoticeTypes, Sends
<1>2. e.script \in Seq(ItemDocs) /\ e.todo \in Seq(ItemDocs)
  BY <1>1, ScriptsAre DEF Requests
<1>3. PICK s, todo : s = e.script /\ todo = e.todo
  BY Zenon
<1>4. s \in Seq(ItemDocs) /\ todo \in Seq(ItemDocs) /\ todo # <<>> /\ EndOf(s, todo)
  BY <1>1, <1>2, <1>3
<1>5. PICK n \in Nat, m \in Nat : n = Len(s) /\ m = Len(todo) /\ m # 0 /\ m <= n
  BY <1>4, EmptySeq DEF EndOf
<1>6. Place(s, todo) \in 1..n /\ 1 \in 1..m
  BY <1>5 DEF Place
<1>7. s[Place(s, todo)] \in ItemDocs /\ todo[1] \in ItemDocs /\ Head(todo) = todo[1] /\ s # <<>>
      /\ todo[1].do = s[Place(s, todo)].do
  BY <1>4, <1>5, <1>6, HeadTailProperties DEF EndOf
<1> QED BY <1>1, <1>2, <1>3, <1>5, <1>6, <1>7

\* An item is done with: what of it was to be mailed was, or will be.
LEMMA ItemStep ==
  ASSUME NoticeInv, NEW p \in Senders, sending[p].todo # <<>>,
         sending' = [sending EXCEPT ![p].todo = Tail(@)],
         tasks \subseteq tasks', attempted \subseteq attempted',
         \A t \in tasks' : t \in tasks \/ (t \in TaskDocs /\ t.of = p /\ Backed(t, sending[p].script)),
         UNCHANGED <<configured, up>>,
         LET of == sending[p].script[Place(sending[p].script, sending[p].todo)] IN
           sending[p].script # Notifying!Order /\ of.do # "detached" =>
             Mailed(of.calls, Len(of.calls), Secured(p)')
  PROVE  NoticeInv'
<1> DEFINE a == sending[p]
<1>1. PICK s, todo, R1, H1 : s = a.script /\ todo = a.todo /\ R1 = Secured(p)' /\ H1 = Handed(p)'
  BY Zenon
<1>2. PICK H, R : H = Handed(p) /\ R = Secured(p)
  BY Zenon
<1>3. a \in Requests /\ s \in Seq(ItemDocs) /\ todo \in Seq(ItemDocs) /\ todo # <<>> /\ s # <<>> /\ a.answer = None
  BY <1>1, HeadItem
<1>4. EndOf(s, todo) /\ Handled(s, todo, H, R)
  BY <1>1, <1>2 DEF NoticeInv, Sends
<1>5. R \subseteq R1
  BY <1>1, <1>2, MoreTasks
<1>6. LET of == s[Place(s, todo)] IN
        s # Notifying!Order /\ of.do # "detached" => Mailed(of.calls, Len(of.calls), R1)
  BY <1>1
<1>7. PICK rest : rest = Tail(todo)
  BY Zenon
<1>8. rest \in Seq(ItemDocs) /\ EndOf(s, rest) /\ Handled(s, rest, H1, R1)
  BY <1>3, <1>4, <1>5, <1>6, <1>7, ItemDone
<1>9. PICK e : e = [a EXCEPT !.todo = rest]
  BY Zenon
<1>10. e \in Requests /\ e.todo = rest /\ e.script = s /\ e.answer = None
  BY <1>1, <1>3, <1>8, <1>9 DEF Requests
<1>11. sending' = [sending EXCEPT ![p] = e]
  BY <1>1, <1>7, <1>9 DEF NoticeInv, NoticeTypes
<1>12. None # "failed"
  BY NoticesAssumption
<1>13. \A t \in tasks' : t \in tasks \/ (t \in TaskDocs /\ t.of = p /\ Backed(t, e.script))
  BY <1>1, <1>10
<1>14. EndOf(e.script, e.todo) /\ Handled(e.script, e.todo, Handed(p)', Secured(p)')
  BY <1>1, <1>8, <1>10
<1>15. e.script = sending[p].script
  BY <1>1, <1>10
<1> HIDE DEF a
<1> QED BY <1>10, <1>11, <1>12, <1>13, <1>14, <1>15, Proceeds

\* A document is stored.
LEMMA SaveStep ==
  ASSUME NoticeInv, NEW p \in Senders, Notifying!Saves(p)
  PROVE  NoticeInv'
<1> DEFINE a == sending[p]
           of == a.script[Place(a.script, a.todo)]
<1>1. /\ a.todo # <<>> /\ Head(a.todo).do = "write" /\ sending' = [sending EXCEPT ![p].todo = Tail(@)]
      /\ UNCHANGED <<tasks, attempted, configured, up>>
  BY DEF Notifying!Saves, Notifying!Drop
<1>2. of \in ItemDocs /\ of.do = "write"
  BY <1>1, HeadItem
<1>3. Mailed(of.calls, Len(of.calls), Secured(p)')
  BY <1>2 DEF ItemDocs, Mailed
<1> HIDE DEF of
<1> QED BY <1>1, <1>3, ItemStep DEF of

\* Calls are left running, or run together.
LEMMA LaunchStep ==
  ASSUME NoticeInv, NEW p \in Senders, Notifying!Launch(p)
  PROVE  NoticeInv'
<1> DEFINE a == sending[p]
           of == a.script[Place(a.script, a.todo)]
           item == Head(a.todo)
           task == Notifying!Task(p, item.calls, TRUE, item.do = "settled")
<1>1. /\ a.todo # <<>> /\ item.do \in {"detached", "settled"} /\ sending' = [sending EXCEPT ![p].todo = Tail(@)]
      /\ tasks' = tasks \cup {task} /\ UNCHANGED <<attempted, configured, up>>
  BY DEF Notifying!Launch, Notifying!Drop
<1>2. of \in ItemDocs /\ item \in ItemDocs /\ item.do = of.do /\ item = a.todo[1]
      /\ Place(a.script, a.todo) \in 1..Len(a.script) /\ a \in Requests
  BY <1>1, HeadItem
<1>3. item.calls = of.calls
  BY <1>1, <1>2 DEF NoticeInv, Sends, EndOf
<1>4. of.do = "settled" => OneMail(of.calls)
  BY <1>2, ScriptsAre DEF Requests, OneEach
<1>5. /\ task.of = p /\ task.calls = of.calls /\ task.caught /\ task.joined = (of.do = "settled")
      /\ task \in TaskDocs
  BY <1>2, <1>3, <1>4 DEF Notifying!Task, TaskDocs, ItemDocs
<1>6. of.do # "detached" => Mailed(of.calls, Len(of.calls), Secured(p)')
  <2> SUFFICES ASSUME of.do # "detached", NEW k \in 1..Len(of.calls), of.calls[k].by = "mail"
               PROVE  of.calls[k] \in Secured(p)'
    BY DEF Mailed
  <2>1. of.calls[k] \in Mails
    <3>1. of.calls \in Seq(CallDocs)
      BY <1>2 DEF ItemDocs
    <3> QED BY <3>1 DEF Mails
  <2>2. task \in tasks' /\ task.joined
    BY <1>1, <1>2, <1>5
  <2> QED BY <1>5, <2>1, <2>2 DEF Secured, Awaited
<1>7. /\ tasks \subseteq tasks' /\ attempted \subseteq attempted'
      /\ \A t \in tasks' : t \in tasks \/ (t \in TaskDocs /\ t.of = p /\ Backed(t, a.script))
  <2>1. of.do = "settled" => a.script \notin Notifying!Fragile
    BY <1>2, ScriptsAre DEF Requests, Unjoined
  <2>2. task \in Held => of.do = "settled"
    BY <1>5 DEF Held
  <2>3. a.script # <<>>
    BY <1>1, HeadItem
  <2> QED BY <1>1, <1>5, <2>1, <2>2, <2>3 DEF Backed
<1> HIDE DEF of, task, item
<1> QED BY <1>1, <1>6, <1>7, ItemStep DEF of

\* An item has no call left.
LEMMA SentStep ==
  ASSUME NoticeInv, NEW p \in Senders, Notifying!Sent(p)
  PROVE  NoticeInv'
<1> DEFINE a == sending[p]
           of == a.script[Place(a.script, a.todo)]
<1>1. /\ a.todo # <<>> /\ Head(a.todo).calls = <<>> /\ sending' = [sending EXCEPT ![p].todo = Tail(@)]
      /\ UNCHANGED <<tasks, attempted, configured, up>>
  BY DEF Notifying!Sent, Notifying!Drop
<1>2. of \in ItemDocs /\ a.todo[1].calls = <<>>
  BY <1>1, HeadItem
<1>3. Len(of.calls) \in Nat
  BY <1>2 DEF ItemDocs
<1>4. Made(a.script, a.todo) = Len(of.calls)
  BY <1>2, <1>3 DEF Made
<1>5. Mailed(of.calls, Len(of.calls), Handed(p))
  BY <1>1, <1>4 DEF NoticeInv, Sends, Handled
<1>6. Mailed(of.calls, Len(of.calls), Secured(p)')
  <2>1. Handed(p) \subseteq Secured(p)'
    BY <1>1 DEF Handed, Secured
  <2> QED BY <1>5, <2>1 DEF Mailed
<1> HIDE DEF of
<1> QED BY <1>1, <1>6, ItemStep DEF of

\* A call of the item that is awaited.
LEMMA CallStep ==
  ASSUME NoticeInv, NEW p \in Senders, Notifying!Call(p)
  PROVE  NoticeInv'
<1> DEFINE a == sending[p]
           of == a.script[Place(a.script, a.todo)]
           item == Head(a.todo)
           call == Head(item.calls)
           sms == Notifying!Task(p, <<[call EXCEPT !.wait = TRUE]>>, call.caught, FALSE)
<1>1. /\ a.todo # <<>> /\ item.do \in {"caught", "thrown"} /\ item.calls # <<>> /\ UNCHANGED <<configured, up>>
      /\ attempted' = attempted \cup (IF call.by = "mail" THEN {<<p, call.to>>} ELSE {})
      /\ \/ /\ sending' = [sending EXCEPT ![p].todo[1].calls = Tail(@)]
            /\ tasks' = tasks \/ (~call.wait /\ tasks' = tasks \cup {sms})
         \/ /\ tasks' = tasks
            /\ IF item.do = "caught" THEN sending' = [sending EXCEPT ![p].todo = Tail(@)]
               ELSE sending' = [sending EXCEPT ![p].todo = <<>>, ![p].answer = "failed"]
  BY DEF Notifying!Call, Notifying!Attempt, Notifying!Drop
<1>2. /\ of \in ItemDocs /\ item \in ItemDocs /\ item.do = of.do /\ item = a.todo[1]
      /\ Place(a.script, a.todo) \in 1..Len(a.script) /\ a \in Requests /\ a.answer = None
      /\ a.script \in Seq(ItemDocs) /\ a.todo \in Seq(ItemDocs) /\ a.script # <<>>
  BY <1>1, HeadItem
<1>3. item.calls \in Seq(CallDocs) /\ of.calls \in Seq(CallDocs)
  BY <1>2 DEF ItemDocs
<1>4. call \in CallDocs /\ call = item.calls[1] /\ Len(item.calls) # 0 /\ Len(item.calls) \in Nat
  <2>1. PICK cs : cs = item.calls
    OBVIOUS
  <2>2. cs \in Seq(CallDocs) /\ cs # <<>>
    BY <1>1, <1>3, <2>1, Zenon
  <2>3. Len(cs) # 0 /\ Len(cs) \in Nat /\ cs[1] \in CallDocs /\ Head(cs) = cs[1]
    BY <2>2, EmptySeq
  <2> QED BY <2>1, <2>3, Zenon
<1>5. call.by = "mail" => call \in Handed(p)'
  BY <1>1, <1>4 DEF Handed, Mails
<1>6. ~call.wait => sms \in TaskDocs /\ sms.of = p /\ sms \notin Held
  <2>1. ASSUME ~call.wait PROVE [call EXCEPT !.wait = TRUE] \in CallDocs /\ call.caught = TRUE
    BY <1>4, <2>1 DEF CallDocs
  <2>2. \A x \in CallDocs : <<x>> \in Seq(CallDocs)
    BY ShortTuples
  <2> QED BY <2>1, <2>2 DEF Notifying!Task, TaskDocs, Held
<1>7. attempted \subseteq attempted'
  BY <1>1
<1>8. EndOf(a.script, a.todo) /\ Handled(a.script, a.todo, Handed(p), Secured(p))
  BY DEF NoticeInv, Sends
\* What comes after the call has no mail.
<1>9. a.script # Notifying!Order => Mailed(of.calls, Len(of.calls), Handed(p)')
  <2> SUFFICES ASSUME a.script # Notifying!Order, NEW k \in 1..Len(of.calls), of.calls[k].by = "mail"
               PROVE  of.calls[k] \in Handed(p)'
    BY DEF Mailed
  <2>1. OneMail(of.calls)
    BY <1>1, <1>2, ScriptsAre DEF Requests, OneEach
  <2>2. k = 1
    BY <1>3, <2>1 DEF OneMail
  <2>3. PICK n \in Nat, m \in Nat : n = Len(of.calls) /\ m = Len(item.calls) /\ m # 0 /\ m <= n
    <3>1. Len(item.calls) <= Len(of.calls)
      BY <1>1, <1>2, <1>8 DEF EndOf
    <3>2. Len(of.calls) \in Nat
      BY <1>3
    <3> HIDE DEF item, of
    <3> QED BY <1>4, <3>1, <3>2
  <2>4. CASE m = n
    <3>1. Made(a.script, a.todo) = 0 /\ 1 \in 1..m
      <4>1. Made(a.script, a.todo) = n - m
        BY <1>2, <2>3, Zenon DEF Made
      <4> HIDE DEF item, of
      <4> QED BY <2>3, <2>4, <4>1
    <3>2. item.calls[1] = of.calls[1]
      <4>1. item.calls[1] = of.calls[0 + 1]
        BY <1>1, <1>2, <1>8, <2>3, <3>1 DEF EndOf
      <4> QED BY <4>1
    <3> QED BY <1>4, <1>5, <2>2, <3>2
  <2>5. CASE m # n
    <3>1. Made(a.script, a.todo) = n - m
      BY <1>2, <2>3 DEF Made
    <3>3. 1 \in 1..(n - m)
      <4>1. \A i, j \in Nat : j <= i /\ j # i => 1 \in 1..(i - j)
        OBVIOUS
      <4> QED BY <2>3, <2>5, <4>1
    <3>2. of.calls[k] \in Handed(p)
      BY <1>1, <1>8, <2>2, <3>1, <3>3 DEF Handled, Mailed
    <3> QED BY <1>7, <3>2 DEF Handed
  <2> QED BY <2>4, <2>5
<1>10. CASE /\ sending' = [sending EXCEPT ![p].todo[1].calls = Tail(@)]
            /\ tasks' = tasks \/ (~call.wait /\ tasks' = tasks \cup {sms})
  <2>1. PICK next : next = [a.todo EXCEPT ![1].calls = Tail(@)]
    BY Zenon
  <2>2. /\ tasks \subseteq tasks'
        /\ \A t \in tasks' : t \in tasks \/ (t \in TaskDocs /\ t.of = p /\ Backed(t, a.script))
    <3> HIDE DEF sms, call, item, of
    <3> QED BY <1>2, <1>6, <1>10 DEF Backed
  <2>3. next \in Seq(ItemDocs) /\ EndOf(a.script, next) /\ Handled(a.script, next, Handed(p)', Secured(p)')
    <3>1. PICK s, todo, H, R, H1, R1 : /\ s = a.script /\ todo = a.todo /\ H = Handed(p) /\ R = Secured(p)
                                       /\ H1 = Handed(p)' /\ R1 = Secured(p)'
      BY Zenon
    <3>2. /\ s \in Seq(ItemDocs) /\ todo \in Seq(ItemDocs) /\ todo # <<>> /\ EndOf(s, todo) /\ Handled(s, todo, H, R)
          /\ H \subseteq H1 /\ R \subseteq R1 /\ todo[1].do \in {"caught", "thrown"} /\ todo[1].calls # <<>>
          /\ Head(todo[1].calls).by = "mail" => Head(todo[1].calls) \in H1
      BY <1>1, <1>2, <1>5, <1>7, <1>8, <2>2, <3>1, MoreTasks
    <3>3. next = [todo EXCEPT ![1].calls = Tail(@)]
      BY <2>1, <3>1
    <3> QED BY <3>1, <3>2, <3>3, CallMade
  <2>4. PICK e : e = [a EXCEPT !.todo = next]
    BY Zenon
  <2>5. e \in Requests /\ e.script = a.script /\ e.todo = next /\ e.answer = None
    BY <1>2, <2>3, <2>4 DEF Requests
  <2>6. sending' = [sending EXCEPT ![p] = e]
    BY <1>10, <2>1, <2>4 DEF NoticeInv, NoticeTypes
  <2>7. None # "failed"
    BY NoticesAssumption
  <2> HIDE DEF a, of, item, call, sms
  <2>8. e.script = sending[p].script
    BY <1>2, <2>5 DEF a
  <2> QED BY <1>1, <1>7, <2>2, <2>3, <2>5, <2>6, <2>7, <2>8, Proceeds
<1>11. CASE tasks' = tasks /\ item.do = "caught" /\ sending' = [sending EXCEPT ![p].todo = Tail(@)]
  <2>1. Handed(p)' \subseteq Secured(p)'
    BY DEF Secured
  <2>2. a.script # Notifying!Order => Mailed(of.calls, Len(of.calls), Secured(p)')
    BY <1>9, <2>1 DEF Mailed
  <2> HIDE DEF of, item, call, sms
  <2> QED BY <1>1, <1>7, <1>11, <2>2, ItemStep DEF of
<1>12. CASE /\ tasks' = tasks /\ item.do = "thrown"
            /\ sending' = [sending EXCEPT ![p].todo = <<>>, ![p].answer = "failed"]
  <2>1. Place(a.script, a.todo) = Len(a.script) /\ a.script \in Notifying!Fragile
    BY <1>2, <1>12, ScriptsAre DEF Requests, Throws
  <2>2. PICK e : e = [a EXCEPT !.todo = <<>>, !.answer = "failed"]
    BY Zenon
  <2>3. e \in Requests /\ e.script = a.script /\ e.todo = <<>> /\ e.answer = "failed"
    BY <1>2, <2>2, EmptySeq DEF Requests
  <2>4. sending' = [sending EXCEPT ![p] = e]
    BY <1>12, <2>2 DEF NoticeInv, NoticeTypes
  <2>5. Len(a.script) \in Nat /\ Place(a.script, <<>>) = Len(a.script) + 1
    BY <1>2 DEF Place
  <2>6. a.script # Notifying!Order => \A i \in 1..Len(a.script) : a.script[i].do # "detached" =>
          Mailed(a.script[i].calls, Len(a.script[i].calls), Handed(p)')
    <3>1. Secured(p) \subseteq Handed(p)'
      <4>1. Awaited(p) = {}
        <5>1. \A t \in tasks : t.of = p => t \notin Held
          BY <2>1 DEF NoticeInv, NoticeTypes, Backed
        <5> QED BY <5>1 DEF Awaited, Held, NoticeInv, NoticeTypes
      <4> QED BY <1>7, <4>1 DEF Secured, Handed
    <3>2. \A i \in 1..Len(a.script) : i \in 1..(Place(a.script, a.todo) - 1) \/ i = Place(a.script, a.todo)
      BY <2>1, <2>5
    <3> QED BY <1>8, <1>9, <3>1, <3>2 DEF Handled, Mailed
  <2>7. EndOf(a.script, <<>>) /\ Handled(a.script, <<>>, Handed(p)', Secured(p)')
    <3>1. EndOf(a.script, <<>>)
      BY <2>5 DEF EndOf
    <3>2. \A i \in 1..(Place(a.script, <<>>) - 1) : i \in 1..Len(a.script)
      BY <2>5
    <3>3. Handed(p)' \subseteq Secured(p)'
      BY DEF Secured
    <3> QED BY <2>6, <3>1, <3>2, <3>3 DEF Handled, Mailed
  <2> HIDE DEF a, of, item, call, sms
  <2>8. e.script = sending[p].script
    BY <1>2, <2>3 DEF a
  <2>9. /\ tasks \subseteq tasks' /\ tasks' = tasks
        /\ EndOf(e.script, e.todo) /\ Handled(e.script, e.todo, Handed(p)', Secured(p)')
        /\ e.script \in Notifying!Fragile
        /\ e.script # Notifying!Order => \A i \in 1..Len(e.script) : e.script[i].do # "detached" =>
             Mailed(e.script[i].calls, Len(e.script[i].calls), Handed(p)')
    BY <1>12, <2>1, <2>3, <2>6, <2>7
  <2> QED BY <1>1, <1>7, <2>3, <2>4, <2>8, <2>9, Proceeds
<1> QED BY <1>1, <1>10, <1>11, <1>12

\* A promise moves on: no execution does.
LEMMA TasksMove ==
  ASSUME NoticeInv, sending' = sending, UNCHANGED <<configured, up>>, attempted \subseteq attempted',
         \A t \in tasks' : t \in tasks \/ (t \in TaskDocs /\ Backed(t, sending[t.of].script)),
         \A p \in Senders : Awaited(p) \subseteq Secured(p)'
  PROVE  NoticeInv'
<1>1. NoticeTypes'
  BY DEF NoticeInv, NoticeTypes
<1>2. \A p \in Senders : Sends(p)'
  BY StandsStill DEF NoticeInv
<1> QED BY <1>1, <1>2 DEF NoticeInv

\* A promise makes a call, which may fail.
LEMMA TaskStep ==
  ASSUME NoticeInv, NEW t \in tasks, Notifying!RunTask(t)
  PROVE  NoticeInv'
<1> DEFINE call == Head(t.calls)
           rest == [t EXCEPT !.calls = Tail(t.calls)]
           sms == Notifying!Task(t.of, <<[call EXCEPT !.wait = TRUE]>>, call.caught, FALSE)
<1>1. /\ t.calls # <<>> /\ sending' = sending /\ configured' = configured
      /\ attempted' = attempted \cup (IF call.by = "mail" THEN {<<t.of, call.to>>} ELSE {})
      /\ \/ ~call.wait /\ tasks' = (tasks \ {t}) \cup {rest, sms} /\ up' = up
         \/ tasks' = (tasks \ {t}) \cup {rest} /\ up' = up
         \/ tasks' = tasks \ {t} /\ up' = t.caught
  BY DEF Notifying!RunTask, Notifying!Attempt
<1>2. t \in TaskDocs /\ Backed(t, sending[t.of].script)
  BY DEF NoticeInv, NoticeTypes
<1>3. t.calls \in Seq(CallDocs) /\ t.of \in Senders /\ t.caught = TRUE
  BY <1>2 DEF TaskDocs
<1>4. PICK calls : calls = Tail(t.calls)
  BY Zenon
<1>5. /\ call \in CallDocs /\ call = t.calls[1] /\ calls \in Seq(CallDocs) /\ Len(calls) = Len(t.calls) - 1
      /\ Len(t.calls) \in Nat \ {0} /\ \A i \in 1..Len(calls) : calls[i] = t.calls[i + 1]
  BY <1>1, <1>3, <1>4, HeadTailProperties, EmptySeq
<1>6. UNCHANGED <<configured, up>> /\ attempted \subseteq attempted'
  BY <1>1, <1>3 DEF NoticeInv, NoticeTypes
<1>7. rest = [t EXCEPT !.calls = calls]
  BY <1>4
<1>8. rest \in TaskDocs /\ rest.of = t.of /\ rest.calls = calls /\ rest.joined = t.joined
  <2>1. OneMail(t.calls) => OneMail(calls)
    <3> SUFFICES ASSUME OneMail(t.calls), NEW k \in 2..Len(calls) PROVE calls[k].by # "mail"
      BY DEF OneMail
    <3>1. k + 1 \in 2..Len(t.calls) /\ k \in 1..Len(calls)
      BY <1>5
    <3> QED BY <1>5, <3>1 DEF OneMail
  <2> HIDE DEF rest
  <2> QED BY <1>2, <1>5, <1>7, <2>1 DEF TaskDocs
<1>9. Backed(rest, sending[t.of].script)
  <2>1. rest \in Held => t \in Held
    BY <1>2, <1>8 DEF Held
  <2> QED BY <1>2, <2>1 DEF Backed
<1>10. ~call.wait => sms \in TaskDocs /\ sms.of = t.of /\ sms \notin Held
  <2>1. ASSUME ~call.wait PROVE [call EXCEPT !.wait = TRUE] \in CallDocs /\ call.caught = TRUE
    BY <1>5, <2>1 DEF CallDocs
  <2>2. \A x \in CallDocs : <<x>> \in Seq(CallDocs)
    BY ShortTuples
  <2> QED BY <1>3, <2>1, <2>2 DEF Notifying!Task, TaskDocs, Held
<1>11. \A u \in tasks' : u \in tasks \/ (u \in TaskDocs /\ Backed(u, sending[u.of].script))
  <2>1. ~call.wait => Backed(sms, sending[t.of].script)
    BY <1>2, <1>10 DEF Backed
  <2> HIDE DEF sms, rest, call
  <2> QED BY <1>1, <1>8, <1>9, <1>10, <2>1
<1>12. ASSUME NEW p \in Senders PROVE Awaited(p) \subseteq Secured(p)'
  <2> SUFFICES ASSUME NEW x \in Awaited(p) PROVE x \in Secured(p)'
    OBVIOUS
  <2>1. x \in Mails
    BY DEF Awaited
  <2>2. PICK u \in tasks : u.of = p /\ u.joined /\ \E m \in 1..Len(u.calls) : u.calls[m] = x
    BY DEF Awaited
  <2>3. CASE u # t
    <3>1. u \in tasks'
      BY <1>1, <2>3
    <3> QED BY <2>1, <2>2, <3>1 DEF Secured, Awaited
  <2>4. CASE u = t
    <3>1. PICK m \in 1..Len(t.calls) : t.calls[m] = x
      BY <2>2, <2>4
    <3>2. CASE m = 1
      <4>1. <<p, x.to>> \in attempted'
        BY <1>1, <1>5, <2>1, <2>2, <2>4, <3>1, <3>2 DEF Mails
      <4> QED BY <2>1, <4>1 DEF Secured, Handed
    <3>3. CASE m # 1 /\ rest \in tasks'
      <4>1. m - 1 \in 1..Len(calls) /\ m - 1 + 1 = m
        BY <1>5, <3>3
      <4>2. rest.of = p /\ rest.joined /\ rest.calls[m - 1] = x
        BY <1>5, <1>8, <2>2, <2>4, <3>1, <4>1
      <4> HIDE DEF rest
      <4> QED BY <1>8, <2>1, <3>3, <4>1, <4>2 DEF Secured, Awaited
    <3>4. CASE m # 1
      <4>1. OneMail(t.calls) /\ m \in 2..Len(t.calls)
        BY <1>2, <1>5, <2>2, <2>4, <3>4 DEF TaskDocs
      <4> QED BY <2>1, <3>1, <4>1 DEF OneMail, Mails
    <3> QED BY <3>2, <3>4
  <2> QED BY <2>3, <2>4
<1> QED BY <1>1, <1>6, <1>11, <1>12, TasksMove

\* A promise that has no call left is gone.
LEMMA SettleStep ==
  ASSUME NoticeInv, NEW t \in tasks, Notifying!Settle(t)
  PROVE  NoticeInv'
<1>1. t.calls = <<>> /\ tasks' = tasks \ {t} /\ UNCHANGED <<sending, attempted, configured, up>>
  BY DEF Notifying!Settle
<1>2. ASSUME NEW p \in Senders PROVE Awaited(p) \subseteq Secured(p)'
  <2> SUFFICES ASSUME NEW x \in Awaited(p) PROVE x \in Secured(p)'
    OBVIOUS
  <2>1. PICK u \in tasks : u.of = p /\ u.joined /\ \E m \in 1..Len(u.calls) : u.calls[m] = x
    BY DEF Awaited
  <2>2. u # t
    BY <1>1, <2>1
  <2>3. u \in tasks' /\ x \in Mails
    BY <1>1, <2>2 DEF Awaited
  <2> QED BY <2>1, <2>3 DEF Secured, Awaited
<1> QED BY <1>1, <1>2, TasksMove

\* An execution answers.
LEMMA AnswerStep ==
  ASSUME NoticeInv, NEW p \in Senders, Notifying!Answer(p)
  PROVE  NoticeInv'
<1> DEFINE a == sending[p]
<1>1. /\ a.todo = <<>> /\ a.answer = None /\ sending' = [sending EXCEPT ![p].answer = "ok"]
      /\ \A t \in tasks : t.of = p => ~t.joined
      /\ UNCHANGED <<tasks, attempted, configured, up>>
  BY DEF Notifying!Answer
<1>2. PICK e : e = [a EXCEPT !.answer = "ok"]
  BY Zenon
<1>3. a \in Requests
  BY DEF NoticeInv, NoticeTypes
<1>4. e \in Requests /\ e.script = a.script /\ e.todo = <<>> /\ e.answer = "ok"
  BY <1>1, <1>2, <1>3 DEF Requests
<1>5. sending' = [sending EXCEPT ![p] = e]
  BY <1>1, <1>2 DEF NoticeInv, NoticeTypes
<1>6. EndOf(a.script, <<>>) /\ Handled(a.script, <<>>, Handed(p), Secured(p))
  BY <1>1 DEF NoticeInv, Sends
<1>7. Awaited(p) = {} /\ Secured(p)' = Handed(p)' /\ Handed(p)' = Handed(p) /\ Secured(p) = Handed(p)
  BY <1>1 DEF Secured, Awaited, Handed
<1>8. a.script # Notifying!Order => \A i \in 1..Len(a.script) : a.script[i].do # "detached" =>
        Mailed(a.script[i].calls, Len(a.script[i].calls), Handed(p)')
  <2>1. Place(a.script, <<>>) - 1 = Len(a.script)
    BY <1>3, ScriptsAre DEF Requests, Place
  <2> QED BY <1>6, <1>7, <2>1 DEF Handled
<1>9. Handled(e.script, e.todo, Handed(p)', Secured(p)') /\ EndOf(e.script, e.todo) /\ e.script = sending[p].script
  BY <1>4, <1>6, <1>7
<1> HIDE DEF a
<1> QED BY <1>1, <1>4, <1>5, <1>8, <1>9, Proceeds

\* A request comes in.
LEMMA RequestStep ==
  ASSUME NoticeInv, NEW p \in Senders, NEW s \in Notifying!Scripts, Notifying!Start(p, s)
  PROVE  NoticeInv'
<1>1. /\ sending[p] = Notifying!Idle /\ UNCHANGED <<tasks, attempted, configured, up>>
      /\ sending' = [sending EXCEPT ![p] = [Notifying!Idle EXCEPT !.script = s, !.todo = s]]
  BY DEF Notifying!Start
<1>2. PICK e : e = [Notifying!Idle EXCEPT !.script = s, !.todo = s]
  BY Zenon
<1>3. e \in Requests /\ e.script = s /\ e.todo = s /\ e.answer = None /\ s \in Seq(ItemDocs)
  <2>1. s \in Seq(ItemDocs) /\ <<>> \in Seq(ItemDocs)
    BY ScriptsAre, EmptySeq
  <2>2. Notifying!Idle \in [script : {<<>>}, todo : Seq(ItemDocs), answer : {None}]
    BY <2>1 DEF Notifying!Idle
  <2> QED BY <1>2, <2>1, <2>2 DEF Requests
<1>4. sending' = [sending EXCEPT ![p] = e] /\ sending[p].script = <<>>
  <2>1. sending' = [sending EXCEPT ![p] = e]
    BY <1>1, <1>2, Zenon
  <2>2. Notifying!Idle.script = <<>>
    BY DEF Notifying!Idle
  <2> QED BY <1>1, <2>1, <2>2
<1>5. sending'[p] = e /\ \A q \in Senders \ {p} : sending'[q] = sending[q]
  BY <1>4 DEF NoticeInv, NoticeTypes
<1>6. \A t \in tasks : t.of # p
  BY <1>4 DEF NoticeInv, NoticeTypes, Backed
<1>7. NoticeTypes'
  <2>1. \A t \in tasks : t.of \in Senders /\ Backed(t, sending[t.of].script)
    BY DEF NoticeInv, NoticeTypes, TaskDocs
  <2>2. \A t \in tasks' : Backed(t, sending'[t.of].script)
    BY <1>1, <1>5, <1>6, <2>1
  <2> QED BY <1>1, <1>3, <1>4, <2>2 DEF NoticeInv, NoticeTypes
<1>8. \A q \in Senders \ {p} : Sends(q)'
  BY <1>1, <1>5, StandsStill, MoreTasks DEF NoticeInv
<1>9. Sends(p)'
  <2>1. None # "failed"
    BY NoticesAssumption
  <2>2. PICK H1, R1 : H1 = Handed(p)' /\ R1 = Secured(p)'
    BY Zenon
  <2>3. EndOf(s, s) /\ Handled(s, s, H1, R1)
    BY <1>3, WholeScript
  <2> QED BY <1>3, <1>5, <2>1, <2>2, <2>3 DEF Sends, Kept
<1> QED BY <1>7, <1>8, <1>9 DEF NoticeInv

\* Nothing was asked yet.
LEMMA NoticesAtFirst == Notifying!Init => NoticeInv
<1> SUFFICES ASSUME Notifying!Init PROVE NoticeInv
  OBVIOUS
<1>1. /\ tasks = {} /\ configured \in BOOLEAN /\ up = TRUE
      /\ \A p \in Senders : sending[p] = [script |-> <<>>, todo |-> <<>>, answer |-> None]
  BY DEF Notifying!Init, Notifying!Idle
<1>2. [script |-> <<>>, todo |-> <<>>, answer |-> None] \in Requests
  BY EmptySeq DEF Requests
<1>3. NoticeTypes
  BY <1>1, <1>2 DEF NoticeTypes, Notifying!Init, Notifying!Idle
<1>4. ASSUME NEW p \in Senders PROVE Sends(p)
  <2>1. None # "failed"
    BY NoticesAssumption
  <2>2. <<>> \in Seq(ItemDocs)
    BY EmptySeq
  <2>3. \A H, R : EndOf(<<>>, <<>>) /\ Handled(<<>>, <<>>, H, R)
    BY <2>2, WholeScript
  <2>4. sending[p].script = <<>> /\ sending[p].todo = <<>> /\ sending[p].answer = None
    BY <1>1
  <2> QED BY <2>1, <2>3, <2>4 DEF Sends, Kept
<1> QED BY <1>3, <1>4 DEF NoticeInv

\* The invariant of Notices.
LEMMA NoticesHold == Notifying!Spec => []NoticeInv
<1>1. NoticeInv /\ [Notifying!Next]_(Notifying!vars) => NoticeInv'
  <2> SUFFICES ASSUME NoticeInv, [Notifying!Next]_(Notifying!vars) PROVE NoticeInv'
    OBVIOUS
  <2>1. CASE Notifying!Next
    BY <2>1, RequestStep, SaveStep, LaunchStep, CallStep, SentStep, AnswerStep, TaskStep, SettleStep
       DEF Notifying!Next
  <2>2. CASE UNCHANGED Notifying!vars
    <3>1. UNCHANGED <<sending, tasks, attempted, configured, up>>
      BY <2>2 DEF Notifying!vars
    <3> QED BY <3>1, TasksMove, MoreTasks
  <2> QED BY <2>1, <2>2
<1> QED BY <1>1, NoticesAtFirst, PTL DEF Notifying!Spec

\* An answer says what was tried.
LEMMA AnswersAreKept == NoticeInv => AnswerKept
<1> SUFFICES ASSUME NoticeInv, NEW p \in Senders
             PROVE  LET e == sending[p] IN
                    /\ e.answer = "failed" => e.script \in Notifying!Fragile
                    /\ e.answer # None =>
                         \A i \in DOMAIN e.script : \A k \in DOMAIN e.script[i].calls :
                           e.script[i].calls[k].by = "mail" /\ e.script # Notifying!Order
                             /\ e.script[i].do # "detached" => <<p, e.script[i].calls[k].to>> \in attempted
  BY DEF AnswerKept, Notifying!AnswerKept
<1> DEFINE e == sending[p]
<1>1. Kept(p) /\ e \in Requests
  BY DEF NoticeInv, NoticeTypes, Sends
<1>2. e.script \in Seq(ItemDocs)
  BY <1>1, ScriptsAre DEF Requests
<1>3. ASSUME e.answer # None, NEW i \in DOMAIN e.script, NEW k \in DOMAIN e.script[i].calls,
             e.script[i].calls[k].by = "mail", e.script # Notifying!Order, e.script[i].do # "detached"
      PROVE  <<p, e.script[i].calls[k].to>> \in attempted
  <2>1. i \in 1..Len(e.script) /\ e.script[i] \in ItemDocs
    BY <1>2
  <2>2. k \in 1..Len(e.script[i].calls)
    BY <2>1 DEF ItemDocs
  <2>3. e.script[i].calls[k] \in Handed(p)
    BY <1>1, <1>3, <2>1, <2>2 DEF Kept, Mailed
  <2> QED BY <2>3 DEF Handed
<1> QED BY <1>1, <1>3 DEF Kept

\* Where the end of a sequence stands in it, and in its reverse.
LEMMA EndsWhere ==
  ASSUME NEW l \in Nat, NEW m \in Nat, m <= l
  PROVE  /\ m # 0 => l - m + 1 \in 1..l
         /\ \A k \in 1..m : (m - k) + 1 \in 1..m /\ l - m + ((m - k) + 1) = (l - k) + 1 /\ k \in 1..l
OBVIOUS

\* The end of a script, as TypeOK says it.
LEMMA EndsAre ==
  ASSUME NEW s \in Seq(ItemDocs), NEW todo \in Seq(ItemDocs), EndOf(s, todo), todo # <<>>
  PROVE  LET n == Len(s) - Len(todo) + 1 IN
         /\ Tail(todo) = SubSeq(s, n + 1, Len(s))
         /\ Head(todo).do = s[n].do
         /\ Notifying!IsSuffix(Head(todo).calls, s[n].calls)
<1>1. PICK l \in Nat, m \in Nat : l = Len(s) /\ m = Len(todo) /\ m # 0 /\ m <= l
  BY EmptySeq DEF EndOf
<1>2. PICK n \in 1..l : n = l - m + 1 /\ n = Place(s, todo)
  <2>1. l - m + 1 \in 1..l
    BY <1>1, EndsWhere
  <2>2. Place(s, todo) = l - m + 1
    BY <1>1, Zenon DEF Place
  <2> QED BY <2>1, <2>2, Zenon
<1>3. Tail(todo) = SubSeq(s, n + 1, l)
  <2>1. PICK rest, sub : rest = Tail(todo) /\ sub = SubSeq(s, n + 1, l)
    BY Zenon
  <2>2. rest \in Seq(ItemDocs) /\ Len(rest) = m - 1 /\ \A i \in 1..(m - 1) : rest[i] = todo[i + 1]
    BY <1>1, <2>1, HeadTailProperties
  <2>3. \A i \in (n + 1)..l : s[i] \in ItemDocs
    BY <1>1, <1>2
  <2>4. /\ sub \in Seq(ItemDocs) /\ Len(sub) = (IF n + 1 <= l THEN l - (n + 1) + 1 ELSE 0)
        /\ \A i \in 1..(l - (n + 1) + 1) : sub[i] = s[(n + 1) + i - 1]
    BY <2>1, <2>3, SubSeqProperties
  <2>5. Len(sub) = m - 1 /\ l - (n + 1) + 1 = m - 1
    BY <1>1, <1>2, <2>4
  <2>6. ASSUME NEW i \in 1..(m - 1) PROVE rest[i] = sub[i]
    <3>1. i + 1 \in 2..m /\ n + (i + 1) - 1 = (n + 1) + i - 1
      BY <1>1, <1>2
    <3>2. todo[i + 1] = s[n + (i + 1) - 1]
      BY <1>1, <1>2, <3>1 DEF EndOf
    <3> QED BY <2>2, <2>4, <2>5, <3>1, <3>2
  <2> QED BY <2>1, <2>2, <2>4, <2>5, <2>6, SeqEqual
<1>4. Head(todo) = todo[1] /\ todo[1] \in ItemDocs /\ s[n] \in ItemDocs
  BY <1>1, HeadTailProperties
<1>5. Notifying!IsSuffix(todo[1].calls, s[n].calls)
  <2>1. PICK a, b : a = todo[1].calls /\ b = s[n].calls
    BY Zenon
  <2>2. a \in Seq(CallDocs) /\ b \in Seq(CallDocs)
    BY <1>4, <2>1 DEF ItemDocs
  <2>3. PICK i \in Nat, j \in Nat : i = Len(a) /\ j = Len(b)
    BY <2>2
  <2>4. i <= j /\ \A k \in 1..i : a[k] = b[j - i + k]
    BY <1>2, <2>1, <2>3 DEF EndOf, Made
  <2> DEFINE ra == [k \in 1..i |-> a[(i - k) + 1]]
             rb == [k \in 1..j |-> b[(j - k) + 1]]
  <2>5. ra = Notifying!Reverse(a) /\ rb = Notifying!Reverse(b)
    BY <2>3 DEF Notifying!Reverse
  <2>6. \A k \in 1..i : ra[k] = rb[k] /\ ra[k] \in CallDocs
    <3> SUFFICES ASSUME NEW k \in 1..i PROVE ra[k] = rb[k] /\ ra[k] \in CallDocs
      OBVIOUS
    <3>1. (i - k) + 1 \in 1..i /\ j - i + ((i - k) + 1) = (j - k) + 1 /\ k \in 1..j
      BY <2>4, EndsWhere
    <3>2. PICK x, y : x \in 1..i /\ x = (i - k) + 1 /\ y = (j - k) + 1 /\ y = j - i + x
      BY <3>1, Zenon
    <3>3. a[x] = b[y] /\ a[x] \in CallDocs
      <4> HIDE DEF ra, rb
      <4>1. a[x] = b[y]
        BY <2>4, <3>2, Zenon
      <4>2. a[x] \in CallDocs
        BY <2>2, <2>3, <3>2, ElementOfSeq
      <4> QED BY <4>1, <4>2
    <3>4. ra[k] = a[x] /\ rb[k] = b[y]
      BY <3>1, <3>2, Zenon
    <3> QED BY <3>3, <3>4, Zenon
  <2>7. Len(ra) = i /\ Len(rb) = j
    OBVIOUS
  <2>8. SubSeq(ra, 1, i) = SubSeq(rb, 1, i)
    <3>1. PICK u, v : u = SubSeq(ra, 1, i) /\ v = SubSeq(rb, 1, i)
      BY Zenon
    <3> HIDE DEF ra, rb
    <3>2. /\ u \in Seq(CallDocs) /\ Len(u) = (IF 1 <= i THEN i - 1 + 1 ELSE 0)
          /\ \A k \in 1..(i - 1 + 1) : u[k] = ra[1 + k - 1]
      BY <2>6, <3>1, SubSeqProperties
    <3>3. /\ v \in Seq(CallDocs) /\ Len(v) = (IF 1 <= i THEN i - 1 + 1 ELSE 0)
          /\ \A k \in 1..(i - 1 + 1) : v[k] = rb[1 + k - 1]
      BY <2>6, <3>1, SubSeqProperties
    <3>4. Len(u) = i /\ Len(v) = i /\ \A k \in 1..i : u[k] = v[k]
      BY <2>6, <3>2, <3>3
    <3> QED BY <3>1, <3>2, <3>3, <3>4, SeqEqual
  <2> HIDE DEF ra, rb
  <2> QED BY <2>1, <2>4, <2>5, <2>7, <2>8 DEF Notifying!IsSuffix, Notifying!IsPrefix
<1> QED BY <1>1, <1>2, <1>3, <1>4, <1>5 DEF EndOf

\* The type invariant of Notices follows.
LEMMA NoticesTyped == NoticeInv => Notifying!TypeOK
<1> SUFFICES ASSUME NoticeInv PROVE Notifying!TypeOK
  OBVIOUS
<1>1. ASSUME NEW p \in Senders
      PROVE  LET e == sending[p]  n == Len(e.script) - Len(e.todo) + 1 IN
             /\ e.script \in Notifying!Scripts \cup {<<>>} /\ e.answer \in {None, "ok", "failed"}
             /\ Len(e.todo) <= Len(e.script)
             /\ e.todo # <<>> => /\ Tail(e.todo) = SubSeq(e.script, n + 1, Len(e.script))
                                 /\ Head(e.todo).do = e.script[n].do
                                 /\ Notifying!IsSuffix(Head(e.todo).calls, e.script[n].calls)
  <2>1. sending[p] \in Requests /\ EndOf(sending[p].script, sending[p].todo)
    BY DEF NoticeInv, NoticeTypes, Sends
  <2>2. sending[p].script \in Seq(ItemDocs) /\ sending[p].todo \in Seq(ItemDocs)
    BY <2>1, ScriptsAre DEF Requests
  <2>3. Len(sending[p].todo) <= Len(sending[p].script)
    BY <2>1 DEF EndOf
  <2> QED BY <2>1, <2>2, <2>3, EndsAre DEF Requests
<1>2. \A t \in tasks : sending[t.of].script # <<>> /\ t.caught \in BOOLEAN /\ t.joined \in BOOLEAN
  BY DEF NoticeInv, NoticeTypes, TaskDocs, Backed
<1>3. configured \in BOOLEAN /\ up \in BOOLEAN
  BY DEF NoticeInv, NoticeTypes
<1> QED BY <1>1, <1>2, <1>3 DEF Notifying!TypeOK

\* A request that was answered has had every mail of it tried that its sender
\* catches or leaves running, whatever failed; and an answer is a failure only
\* where the sender lets one through.
THEOREM AnswersStayKept == PlatformSpec => []AnswerKept
BY AnswersAreKept, NoticesHold, PartsBehave, PTL

\* No promise that is left running rejects unhandled: the process stays up.
THEOREM TheProcessSurvives == PlatformSpec => []ProcessSurvives
<1>1. NoticeInv => ProcessSurvives
  BY DEF NoticeInv, NoticeTypes, ProcessSurvives, Notifying!ProcessSurvives
<1> QED BY <1>1, NoticesHold, PartsBehave, PTL

\* The types of Notices.
LEMMA NotifyingTyped == PlatformSpec => []Notifying!TypeOK
BY NoticesTyped, NoticesHold, PartsBehave, PTL

-----------------------------------------------------------------------------
(* The slots of the first version *)

SlotDocs == [date : SlotDates, start : Times, end : Times, status : {"available", "booked", "cancelled"},
             locked : BOOLEAN]
BookingDocs == [total : 1..2, remaining : Nat, status : {"fully_booked", "pending", "partially_booked"}]
Requested == [slot : SlotIds, hours : Nat, start : Times \cup {0}, end : Times \cup {0}]
Bookers == [pc : {"idle", "check", "create", "lesson", "mark", "done", "refused", "died"},
            lessons : Seq(Requested), total : 0..2, k : Nat]
Count(p) == Len(booking[p].lessons)

\* The documents, and what the executions carry.
SlotTypes ==
  /\ slots \in [SlotIds -> SlotDocs \cup {None}] /\ used \subseteq SlotIds
  /\ \A s \in SlotIds : slots[s] # None => s \in used
  /\ slotDay \in SlotDates
  /\ booking \in [Procs -> Bookers]
  /\ bookings \in [Procs -> BookingDocs \cup {None}]

\* How far an execution has come.
Progress(p) ==
  LET e == booking[p] IN
  /\ e.pc \in {"check", "lesson", "mark"} => e.k \in 1..Count(p)
  /\ e.pc = "create" => e.k = 1 /\ e.total \in 1..2
  /\ e.pc = "check" => e.total \in 1..2
  /\ e.pc = "done" => e.k = Count(p) + 1
  /\ e.pc = "refused" => e.k = 0
  /\ e.pc \in {"lesson", "mark", "done"} => bookings[p] # None

\* The lesson documents an execution has created: those before k, and k itself
\* when it is to be marked.
LessonOf(p, i) == [of |-> p, k |-> i, slot |-> booking[p].lessons[i].slot, hours |-> booking[p].lessons[i].hours,
                   start |-> booking[p].lessons[i].start, end |-> booking[p].lessons[i].end]
Created(p) ==
  LET e == booking[p]
      of == {l \in booked : l.of = p}
  IN  /\ e.pc \in {"idle", "check", "create", "refused"} => of = {}
      /\ e.pc = "lesson" => of = {LessonOf(p, i) : i \in 1..(e.k - 1)}
      /\ e.pc = "mark" => of = {LessonOf(p, i) : i \in 1..e.k}
      /\ e.pc = "done" => of = {LessonOf(p, i) : i \in 1..Count(p)}
Lessoned == \A l \in booked : /\ l.of \in Procs /\ bookings[l.of] # None
                              /\ l.k \in 1..Count(l.of) /\ l = LessonOf(l.of, l.k)

\* A slot that was checked stays as it was, until it is marked.
Ready(x) == /\ slots[x.slot] # None /\ slots[x.slot].status \in {"available", "booked"}
            /\ slots[x.slot].start = x.start /\ slots[x.slot].end = x.end
Checked(p) ==
  LET e == booking[p] IN
  /\ e.pc = "check" => \A i \in 1..(e.k - 1) : Ready(e.lessons[i])
  /\ e.pc \in {"create", "lesson", "mark"} => \A i \in 1..Count(p) : Ready(e.lessons[i])

SlotInv == /\ SlotTypes /\ Lessoned /\ LessonSlotBooked /\ SlotsDisjoint
           /\ \A p \in Procs : Progress(p) /\ Created(p) /\ Checked(p)

\* No document is None.
LEMMA NoSlotIsNone == None \notin SlotDocs /\ None \notin BookingDocs
BY SlotsAssumption DEF SlotDocs, BookingDocs

\* An edit leaves the executions and their lessons alone, and the booked slots.
LEMMA EditKeeps ==
  ASSUME SlotInv, ~Booking!UnderWay, UNCHANGED <<booking, bookings, booked, slotDay>>,
         slots' \in [SlotIds -> SlotDocs \cup {None}], used' \subseteq SlotIds,
         \A s \in SlotIds : slots'[s] # None => s \in used',
         \A s \in SlotIds : slots[s] # None /\ slots[s].status = "booked" /\ slots[s].locked => slots'[s] = slots[s],
         SlotsDisjoint'
  PROVE  SlotInv'
<1> USE DEF SlotInv
<1>1. SlotTypes'
  BY DEF SlotTypes
<1>2. Lessoned' /\ \A p \in Procs : Progress(p)' /\ Created(p)'
  BY DEF Lessoned, LessonOf, Progress, Created, Count
<1>3. LessonSlotBooked'
  <2> SUFFICES ASSUME NEW l \in booked, Booking!Marked(l)
               PROVE  /\ slots'[l.slot] # None /\ slots'[l.slot].status = "booked" /\ slots'[l.slot].locked
                      /\ slots'[l.slot].start = l.start /\ slots'[l.slot].end = l.end
    BY DEF LessonSlotBooked, Booking!LessonSlotBooked, Booking!Marked
  <2>1. /\ slots[l.slot] # None /\ slots[l.slot].status = "booked" /\ slots[l.slot].locked
        /\ slots[l.slot].start = l.start /\ slots[l.slot].end = l.end
    BY DEF LessonSlotBooked, Booking!LessonSlotBooked
  <2>2. l.slot \in SlotIds
    <3>1. l.of \in Procs /\ l.k \in 1..Count(l.of) /\ l = LessonOf(l.of, l.k)
      BY DEF Lessoned
    <3>2. booking[l.of].lessons \in Seq(Requested)
      BY <3>1 DEF SlotTypes, Bookers
    <3>3. booking[l.of].lessons[l.k] \in Requested
      BY <3>1, <3>2 DEF Count
    <3>4. l.slot = booking[l.of].lessons[l.k].slot
      BY <3>1 DEF LessonOf
    <3> QED BY <3>3, <3>4 DEF Requested
  <2> QED BY <2>1, <2>2
<1>4. \A p \in Procs : Checked(p)'
  BY DEF Booking!UnderWay, Checked
<1> QED BY <1>1, <1>2, <1>3, <1>4

\* A document that is stored for one slot.
LEMMA OneSlot ==
  ASSUME SlotInv, NEW s \in SlotIds, NEW doc \in SlotDocs \cup {None}, slots' = [slots EXCEPT ![s] = doc],
         doc # None /\ doc.status # "cancelled" =>
           \A t \in Booking!Existing \ {s} : slots[t].status # "cancelled" /\ slots[t].date = doc.date =>
             ~Booking!Overlap(doc, slots[t])
  PROVE  /\ slots' \in [SlotIds -> SlotDocs \cup {None}] /\ SlotsDisjoint'
         /\ slots'[s] = doc /\ \A t \in SlotIds \ {s} : slots'[t] = slots[t]
<1>1. /\ slots' \in [SlotIds -> SlotDocs \cup {None}]
      /\ slots'[s] = doc /\ \A t \in SlotIds \ {s} : slots'[t] = slots[t]
  BY DEF SlotInv, SlotTypes
<1>2. ASSUME NEW t \in SlotIds, NEW u \in SlotIds, slots'[t] # None, slots'[u] # None,
             slots'[t].status # "cancelled", slots'[u].status # "cancelled",
             t # u, slots'[t].date = slots'[u].date
      PROVE  ~Booking!Overlap(slots'[t], slots'[u])
  <2>1. CASE t # s /\ u # s
    BY <1>1, <1>2, <2>1 DEF SlotInv, SlotsDisjoint, Booking!SlotsDisjoint, Booking!Existing
  <2>2. CASE t = s
    BY <1>1, <1>2, <2>2 DEF Booking!Existing
  <2>3. CASE u = s
    <3>1. ~Booking!Overlap(slots'[u], slots'[t])
      BY <1>1, <1>2, <2>3 DEF Booking!Existing
    <3> QED BY <3>1 DEF Booking!Overlap
  <2> QED BY <2>1, <2>2, <2>3
<1> QED BY <1>1, <1>2 DEF SlotsDisjoint, Booking!SlotsDisjoint, Booking!Existing

\* The handlers of the instructor.
LEMMA EditStep ==
  ASSUME SlotInv, ~Booking!UnderWay, Booking!CarefulEdit
  PROVE  SlotInv'
<1> USE DEF SlotInv, SlotTypes
<1>1. ASSUME NEW s \in SlotIds, NEW d \in SlotDates, NEW r \in Booking!Ranges, Booking!CreateSlot(s, d, r)
      PROVE  SlotInv'
  <2> DEFINE doc == Booking!NewSlot(d, r)
  <2>1. /\ doc \in SlotDocs /\ slots' = [slots EXCEPT ![s] = doc] /\ used' = used \cup {s} /\ s \notin used
        /\ UNCHANGED <<booking, bookings, booked, slotDay>>
    BY <1>1 DEF Booking!CreateSlot, Booking!NewSlot, Booking!Ranges, SlotDocs
  <2>2. \A t \in Booking!Existing : slots[t].date = d => ~Booking!Overlap(r, slots[t])
    BY <1>1 DEF Booking!CreateSlot, Booking!IsFree
  <2>3. \A t \in Booking!Existing : slots[t].date = doc.date => ~Booking!Overlap(doc, slots[t])
    BY <2>2 DEF Booking!NewSlot, Booking!Overlap
  <2> HIDE DEF doc
  <2>4. /\ slots' \in [SlotIds -> SlotDocs \cup {None}] /\ SlotsDisjoint'
        /\ slots'[s] = doc /\ \A t \in SlotIds \ {s} : slots'[t] = slots[t]
    BY <2>1, <2>3, OneSlot
  <2>5. slots[s] = None
    BY <2>1
  <2> QED BY <1>1, <2>1, <2>4, <2>5, EditKeeps
<1>2. ASSUME NEW s \in SlotIds, NEW doc \in SlotDocs \cup {None}, Booking!SetSlot(s, doc), Booking!Editable(s),
             doc # None /\ doc.status # "cancelled" =>
               \A t \in Booking!Existing \ {s} : slots[t].status # "cancelled" /\ slots[t].date = doc.date =>
                 ~Booking!Overlap(doc, slots[t])
      PROVE  SlotInv'
  <2>1. slots' = [slots EXCEPT ![s] = doc] /\ UNCHANGED <<used, booking, bookings, booked, slotDay>>
    BY <1>2 DEF Booking!SetSlot
  <2>2. /\ slots' \in [SlotIds -> SlotDocs \cup {None}] /\ SlotsDisjoint'
        /\ slots'[s] = doc /\ \A t \in SlotIds \ {s} : slots'[t] = slots[t]
    BY <1>2, <2>1, OneSlot
  <2> QED BY <1>2, <2>1, <2>2, EditKeeps DEF Booking!Editable
<1>3. ASSUME NEW s \in SlotIds, Booking!Editable(s)
      PROVE  slots[s] \in SlotDocs /\ s \in Booking!Existing
  BY <1>3 DEF Booking!Editable, Booking!Existing
<1>4. ASSUME NEW s \in SlotIds, Booking!UpdateSlotStatus(s) PROVE SlotInv'
  <2> DEFINE doc == [slots[s] EXCEPT !.status = "cancelled"]
  <2>1. doc \in SlotDocs /\ doc.status = "cancelled" /\ Booking!Editable(s) /\ Booking!SetSlot(s, doc)
    BY <1>3, <1>4 DEF Booking!UpdateSlotStatus, SlotDocs
  <2> HIDE DEF doc
  <2> QED BY <1>2, <2>1
<1>5. ASSUME NEW s \in SlotIds, Booking!DeleteSlot(s) PROVE SlotInv'
  BY <1>2, <1>5 DEF Booking!DeleteSlot
<1>6. ASSUME NEW s \in SlotIds, NEW r \in Booking!Ranges, slots[s] # None, Booking!UpdateSlot(s, slots[s].date, r)
      PROVE  SlotInv'
  <2> DEFINE doc == [slots[s] EXCEPT !.start = r.start, !.end = r.end]
  <2>1. /\ doc \in SlotDocs /\ doc.start = r.start /\ doc.end = r.end /\ doc.date = slots[s].date
        /\ doc.status = slots[s].status /\ Booking!Editable(s) /\ Booking!SetSlot(s, doc)
    BY <1>3, <1>6 DEF Booking!UpdateSlot, SlotDocs, Booking!Ranges
  <2>2. \A t \in Booking!Existing \ {s} : slots[t].status \in {"available", "booked"} /\ slots[t].date = slots[s].date =>
          ~Booking!Overlap(r, slots[t])
    BY <1>6 DEF Booking!UpdateSlot, Booking!IsFree
  <2>3. \A t \in Booking!Existing \ {s} : slots[t].status # "cancelled" => slots[t].status \in {"available", "booked"}
    BY DEF Booking!Existing, SlotDocs
  <2> HIDE DEF doc
  <2>4. \A t \in Booking!Existing \ {s} : slots[t].status # "cancelled" /\ slots[t].date = doc.date =>
                 ~Booking!Overlap(doc, slots[t])
    BY <2>1, <2>2, <2>3 DEF Booking!Overlap
  <2> QED BY <1>2, <2>1, <2>4
<1>7. ASSUME NEW S \in SUBSET SlotIds, NEW d \in SlotDates, NEW times \in [S -> Booking!Ranges],
             Booking!CreateMultipleSlot(S, d, times)
      PROVE  SlotInv'
  <2>1. /\ slots' = [s \in SlotIds |-> IF s \in S THEN Booking!NewSlot(d, times[s]) ELSE slots[s]]
        /\ used' = used \cup S /\ UNCHANGED <<booking, bookings, booked, slotDay>> /\ S \cap used = {}
    BY <1>7 DEF Booking!CreateMultipleSlot
  <2>2. \A s \in S : /\ slots'[s] = Booking!NewSlot(d, times[s]) /\ slots'[s] \in SlotDocs
                     /\ slots'[s].date = d /\ slots'[s].start = times[s].start /\ slots'[s].end = times[s].end
    BY <2>1 DEF Booking!NewSlot, Booking!Ranges, SlotDocs
  <2>3. \A s \in SlotIds \ S : slots'[s] = slots[s]
    BY <2>1
  <2>4. slots' \in [SlotIds -> SlotDocs \cup {None}]
    BY <2>1, <2>2, <2>3
  <2>5. /\ \A s \in Booking!Existing : slots[s].date # d
        /\ \A s, t \in S : s # t => ~Booking!Overlap(times[s], times[t])
    BY <1>7 DEF Booking!CreateMultipleSlot
  <2>6. ASSUME NEW t \in SlotIds, NEW u \in SlotIds, slots'[t] # None, slots'[u] # None,
               slots'[t].status # "cancelled", slots'[u].status # "cancelled",
               t # u, slots'[t].date = slots'[u].date
        PROVE  ~Booking!Overlap(slots'[t], slots'[u])
    <3>1. CASE t \notin S /\ u \notin S
      BY <2>3, <2>6, <3>1 DEF SlotsDisjoint, Booking!SlotsDisjoint, Booking!Existing
    <3>2. CASE t \in S /\ u \in S
      BY <2>2, <2>5, <2>6, <3>2 DEF Booking!Overlap
    <3>3. CASE t \in S /\ u \notin S
      BY <2>2, <2>3, <2>5, <2>6, <3>3 DEF Booking!Existing
    <3>4. CASE t \notin S /\ u \in S
      BY <2>2, <2>3, <2>5, <2>6, <3>4 DEF Booking!Existing
    <3> QED BY <3>1, <3>2, <3>3, <3>4
  <2>7. SlotsDisjoint'
    BY <2>6 DEF SlotsDisjoint, Booking!SlotsDisjoint, Booking!Existing
  <2>8. \A s \in SlotIds : slots[s] # None => slots'[s] = slots[s]
    BY <2>1, <2>3
  <2> QED BY <2>1, <2>3, <2>4, <2>7, <2>8, EditKeeps
<1> QED BY <1>1, <1>4, <1>5, <1>6, <1>7 DEF Booking!CarefulEdit

\* An execution moves: what the others rely on stays.
LEMMA OthersKeep ==
  ASSUME SlotInv, NEW p \in Procs,
         \A q \in Procs \ {p} : /\ booking'[q] = booking[q] /\ bookings'[q] = bookings[q]
                                /\ {l \in booked' : l.of = q} = {l \in booked : l.of = q},
         \A s \in SlotIds : slots[s] # None /\ slots[s].status \in {"available", "booked"} =>
           /\ slots'[s] # None /\ slots'[s].status \in {"available", "booked"}
           /\ slots'[s].start = slots[s].start /\ slots'[s].end = slots[s].end
  PROVE  \A q \in Procs \ {p} : Progress(q)' /\ Created(q)' /\ Checked(q)'
<1> SUFFICES ASSUME NEW q \in Procs \ {p} PROVE Progress(q)' /\ Created(q)' /\ Checked(q)'
  OBVIOUS
<1>1. /\ booking'[q] = booking[q] /\ bookings'[q] = bookings[q]
      /\ {l \in booked' : l.of = q} = {l \in booked : l.of = q}
      /\ Progress(q) /\ Created(q) /\ Checked(q)
  BY DEF SlotInv
<1>2. Progress(q)'
  BY <1>1 DEF Progress, Count
<1>3. Created(q)'
  BY <1>1 DEF Created, LessonOf, Count
<1>4. Checked(q)'
  <2>1. \A i \in 1..Count(q) : booking[q].lessons[i].slot \in SlotIds
    <3>1. booking[q].lessons \in Seq(Requested)
      BY DEF SlotInv, SlotTypes, Bookers
    <3>2. \A i \in 1..Count(q) : booking[q].lessons[i] \in Requested
      BY <3>1 DEF Count
    <3> QED BY <3>2 DEF Requested
  <2>2. \A i \in 1..Count(q) : Ready(booking[q].lessons[i]) => Ready(booking[q].lessons[i])'
    BY <1>1, <2>1 DEF Ready
  <2>3. booking[q].pc = "check" => booking[q].k \in 1..Count(q)
    BY <1>1 DEF Progress
  <2>4. booking[q] \in Bookers /\ Count(q) \in Nat
    BY DEF SlotInv, SlotTypes, Bookers, Count
  <2>5. \A i \in 1..(booking[q].k - 1) : booking[q].pc = "check" => i \in 1..Count(q)
    BY <2>3, <2>4 DEF Bookers
  <2>6. Count(q)' = Count(q)
    BY <1>1 DEF Count
  <2> QED BY <1>1, <2>2, <2>5, <2>6 DEF Checked
<1> QED BY <1>2, <1>3, <1>4

\* An execution that keeps its lessons and touches no slot, and no lesson document.
LEMMA MovesOn ==
  ASSUME SlotInv, NEW p \in Procs, NEW e \in Bookers, booking' = [booking EXCEPT ![p] = e],
         UNCHANGED <<slots, used, slotDay, booked>>,
         bookings' \in [Procs -> BookingDocs \cup {None}],
         \A q \in Procs : bookings[q] # None => bookings'[q] # None,
         \A q \in Procs \ {p} : bookings'[q] = bookings[q],
         Progress(p)', Created(p)', Checked(p)',
         \A l \in booked : l.of = p => e.lessons = booking[p].lessons /\ e.k <= booking[p].k
  PROVE  SlotInv'
<1>1. booking'[p] = e /\ \A q \in Procs \ {p} : booking'[q] = booking[q]
  BY DEF SlotInv, SlotTypes
<1>2. SlotTypes'
  BY DEF SlotInv, SlotTypes
<1>3. \A q \in Procs : Progress(q)' /\ Created(q)' /\ Checked(q)'
  BY <1>1, OthersKeep
<1>4. Lessoned'
  <2> SUFFICES ASSUME NEW l \in booked
               PROVE  l.of \in Procs /\ bookings'[l.of] # None /\ l.k \in 1..Count(l.of)' /\ l = LessonOf(l.of, l.k)'
    BY DEF Lessoned
  <2>1. l.of \in Procs /\ bookings[l.of] # None /\ l.k \in 1..Count(l.of) /\ l = LessonOf(l.of, l.k)
    BY DEF SlotInv, Lessoned
  <2>2. booking'[l.of].lessons = booking[l.of].lessons
    BY <1>1, <2>1
  <2> QED BY <2>1, <2>2 DEF LessonOf, Count
<1>5. LessonSlotBooked'
  <2> SUFFICES ASSUME NEW l \in booked, booking'[l.of].k > l.k
               PROVE  /\ slots[l.slot] # None /\ slots[l.slot].status = "booked" /\ slots[l.slot].locked
                      /\ slots[l.slot].start = l.start /\ slots[l.slot].end = l.end
    BY DEF LessonSlotBooked, Booking!LessonSlotBooked, Booking!Marked
  <2>1. l.of \in Procs /\ l.k \in 1..Count(l.of)
    BY DEF SlotInv, Lessoned
  <2>2. booking[l.of].k \in Nat /\ booking'[l.of].k \in Nat /\ l.k \in Nat
    BY <1>2, <2>1 DEF SlotInv, SlotTypes, Bookers
  <2>3. booking'[l.of].k <= booking[l.of].k
    BY <1>1, <2>1, <2>2
  <2>4. booking[l.of].k > l.k
    BY <2>2, <2>3
  <2> QED BY <2>4 DEF SlotInv, LessonSlotBooked, Booking!LessonSlotBooked, Booking!Marked
<1>6. SlotsDisjoint'
  BY DEF SlotInv, SlotsDisjoint, Booking!SlotsDisjoint, Booking!Existing, Booking!Overlap
<1> QED BY <1>2, <1>3, <1>4, <1>5, <1>6 DEF SlotInv

\* A booking is wanted for.
LEMMA StartStep ==
  ASSUME SlotInv, NEW p \in Procs, NEW payload \in Payloads, NEW total \in 1..2,
         Booking!StartBooking(p, payload, total)
  PROVE  SlotInv'
<1> DEFINE wanted == [k \in DOMAIN payload |-> [slot |-> payload[k].slot, hours |-> payload[k].hours,
                                               start |-> 0, end |-> 0]]
           e == [pc |-> IF payload = <<>> THEN "create" ELSE "check", lessons |-> wanted, total |-> total, k |-> 1]
<1>1. booking' = [booking EXCEPT ![p] = e] /\ UNCHANGED <<slots, used, bookings, booked, slotDay>>
      /\ booking[p].pc = "idle"
  BY DEF Booking!StartBooking
<1>2. payload \in Seq([slot : SlotIds, hours : Nat])
  BY SlotsAssumption
<1>3. wanted \in Seq(Requested) /\ Len(wanted) = Len(payload)
  <2>1. DOMAIN payload = 1..Len(payload) /\ Len(payload) \in Nat
    BY <1>2
  <2>2. \A k \in DOMAIN payload : payload[k].slot \in SlotIds /\ payload[k].hours \in Nat
    <3> DEFINE R == [slot : SlotIds, hours : Nat]
    <3>1. payload \in Seq(R)
      BY <1>2
    <3> HIDE DEF R
    <3>2. \A k \in DOMAIN payload : payload[k] \in R
      BY <3>1, <2>1
    <3> USE DEF R
    <3> QED BY <3>2
  <2>3. \A k \in DOMAIN payload : wanted[k] \in Requested
    BY <2>2 DEF Requested
  <2> QED BY <2>1, <2>3
<1>4. e \in Bookers
  BY <1>3 DEF Bookers
<1>5. payload # <<>> => Len(payload) >= 1
  BY <1>2
<1>6. /\ e.pc \in {"create", "check"} /\ (e.pc = "check" <=> payload # <<>>)
      /\ e.lessons = wanted /\ e.k = 1 /\ e.total = total
  OBVIOUS
<1> HIDE DEF e, wanted
<1>7. booking'[p] = e
  BY <1>1 DEF SlotInv, SlotTypes
<1>8. Progress(p)'
  BY <1>3, <1>5, <1>6, <1>7, <1>2 DEF Progress, Count
<1>9. {l \in booked : l.of = p} = {}
  BY <1>1 DEF SlotInv, Created
<1>10. Created(p)'
  BY <1>1, <1>6, <1>7, <1>9 DEF Created
<1>11. Checked(p)'
  <2>1. e.pc = "create" => Len(e.lessons) = 0
    BY <1>2, <1>3, <1>6
  <2> QED BY <1>6, <1>7, <2>1 DEF Checked, Count
<1>12. bookings' \in [Procs -> BookingDocs \cup {None}] /\ \A q \in Procs : bookings'[q] = bookings[q]
  BY <1>1 DEF SlotInv, SlotTypes
<1> QED BY <1>1, <1>4, <1>8, <1>9, <1>10, <1>11, <1>12, MovesOn

\* A slot is looked at.
LEMMA CheckStep ==
  ASSUME SlotInv, NEW p \in Procs, Booking!CheckLesson(p)
  PROVE  SlotInv'
<1> DEFINE a == booking[p]
           slot == slots[a.lessons[a.k].slot]
           last == a.k = Len(a.lessons)
           looked == [a EXCEPT !.lessons[a.k].start = slot.start, !.lessons[a.k].end = slot.end,
                               !.pc = IF last THEN "create" ELSE "check", !.k = IF last THEN 1 ELSE a.k + 1]
           refused == [a EXCEPT !.pc = "refused", !.k = 0]
<1>1. /\ a.pc = "check" /\ UNCHANGED <<slots, used, bookings, booked, slotDay>>
      /\ slot # None /\ slot.status = "available" => booking' = [booking EXCEPT ![p] = looked]
      /\ ~(slot # None /\ slot.status = "available") => booking' = [booking EXCEPT ![p] = refused]
  BY DEF Booking!CheckLesson, Booking!Asked, Booking!Goto, SlotInv, SlotTypes
<1>2. /\ a \in Bookers /\ a.k \in 1..Len(a.lessons) /\ a.total \in 1..2
      /\ \A i \in 1..(a.k - 1) : Ready(a.lessons[i])
      /\ {l \in booked : l.of = p} = {}
  BY <1>1 DEF SlotInv, SlotTypes, Progress, Created, Checked, Count
<1>3. a.lessons \in Seq(Requested) /\ Len(a.lessons) \in Nat /\ a.k \in Nat
  BY <1>2 DEF Bookers
<1>4. a.lessons[a.k] \in Requested
  BY <1>2, <1>3
<1>5. slot \in SlotDocs \cup {None}
  BY <1>4 DEF SlotInv, SlotTypes, Requested
<1>6. bookings' \in [Procs -> BookingDocs \cup {None}] /\ \A q \in Procs : bookings'[q] = bookings[q]
  BY <1>1 DEF SlotInv, SlotTypes
<1>7. CASE slot # None /\ slot.status = "available"
  <2> DEFINE r == [a.lessons[a.k] EXCEPT !.start = slot.start, !.end = slot.end]
             L == [a.lessons EXCEPT ![a.k] = r]
  <2>1. r \in Requested /\ r.slot = a.lessons[a.k].slot /\ r.start = slot.start /\ r.end = slot.end
    BY <1>4, <1>5, <1>7 DEF Requested, SlotDocs
  <2>2. L \in Seq(Requested) /\ Len(L) = Len(a.lessons) /\ L[a.k] = r
        /\ \A i \in 1..Len(L) : i # a.k => L[i] = a.lessons[i]
    <3> HIDE DEF r
    <3> QED BY <1>2, <1>3, <2>1
  <2>3. PICK e : e = looked
    OBVIOUS
  <2>4. /\ e.pc = (IF last THEN "create" ELSE "check") /\ e.k = (IF last THEN 1 ELSE a.k + 1)
        /\ e.total = a.total /\ e.lessons = L
        /\ e = [pc |-> e.pc, lessons |-> e.lessons, total |-> e.total, k |-> e.k]
    <3>1. a = [pc |-> a.pc, lessons |-> a.lessons, total |-> a.total, k |-> a.k]
      BY <1>2 DEF Bookers
    <3>2. [a.lessons EXCEPT ![a.k] = [a.lessons[a.k] EXCEPT !.start = slot.start, !.end = slot.end]]
          = [[a.lessons EXCEPT ![a.k] = [a.lessons[a.k] EXCEPT !.start = slot.start]]
               EXCEPT ![a.k] = [[a.lessons EXCEPT ![a.k] = [a.lessons[a.k] EXCEPT !.start = slot.start]][a.k]
                                  EXCEPT !.end = slot.end]]
      BY <1>2, <1>3, <1>4 DEF Requested
    <3> QED BY <2>3, <3>1, <3>2
  <2> HIDE DEF looked, refused, L, r
  <2>5. e \in Bookers
    BY <1>2, <1>3, <2>2, <2>4 DEF Bookers
  <2>6. booking' = [booking EXCEPT ![p] = e] /\ booking'[p] = e
    BY <1>1, <1>7, <2>3 DEF SlotInv, SlotTypes
  <2>7. Progress(p)'
    BY <1>2, <1>3, <2>2, <2>4, <2>6 DEF Progress, Count
  <2>8. Created(p)'
    BY <1>1, <1>2, <2>4, <2>6 DEF Created
  <2>9. \A i \in 1..a.k : Ready(e.lessons[i])
    <3>1. Ready(e.lessons[a.k])
      BY <1>2, <1>7, <2>1, <2>2, <2>4 DEF Ready, SlotDocs
    <3>2. \A i \in 1..(a.k - 1) : e.lessons[i] = a.lessons[i]
      BY <1>2, <1>3, <2>2, <2>4
    <3>3. \A i \in 1..(a.k - 1) : Ready(e.lessons[i])
      BY <1>2, <3>2
    <3>4. \A i \in 1..a.k : i = a.k \/ i \in 1..(a.k - 1)
      BY <1>2, <1>3
    <3> QED BY <3>1, <3>3, <3>4
  <2>10. Checked(p)'
    <3>1. \A x : Ready(x) => Ready(x)'
      BY <1>1 DEF Ready
    <3>2. \A i \in 1..a.k : Ready(e.lessons[i])'
      BY <2>9, <3>1
    <3> QED BY <1>2, <1>3, <2>2, <2>4, <2>6, <3>2 DEF Checked, Count
  <2> QED BY <1>1, <1>2, <1>6, <2>5, <2>6, <2>7, <2>8, <2>10, MovesOn
<1>8. CASE ~(slot # None /\ slot.status = "available")
  <2>1. PICK e : e = refused
    OBVIOUS
  <2>2. e.pc = "refused" /\ e.k = 0 /\ e \in Bookers
    BY <1>2, <2>1 DEF Bookers
  <2> HIDE DEF looked, refused
  <2>3. booking' = [booking EXCEPT ![p] = e] /\ booking'[p] = e
    BY <1>1, <1>8, <2>1 DEF SlotInv, SlotTypes
  <2>4. Progress(p)' /\ Created(p)' /\ Checked(p)'
    BY <1>1, <1>2, <2>2, <2>3 DEF Progress, Created, Checked
  <2> QED BY <1>1, <1>2, <1>6, <2>2, <2>3, <2>4, MovesOn
<1> QED BY <1>7, <1>8

\* The booking is stored, or refused.
LEMMA StoreStep ==
  ASSUME SlotInv, NEW p \in Procs, Booking!CreateBooking(p)
  PROVE  SlotInv'
<1> DEFINE a == booking[p]
           hours == Booking!BookedHours(p)
           doc == [total |-> a.total, remaining |-> a.total - hours, status |-> Booking!Status(a.total, hours)]
<1>1. /\ a.pc = "create" /\ UNCHANGED <<slots, used, booked, slotDay>>
      /\ \/ booking' = [booking EXCEPT ![p] = [a EXCEPT !.pc = "refused", !.k = 0]] /\ bookings' = bookings
         \/ /\ hours <= a.total /\ bookings' = [bookings EXCEPT ![p] = doc]
            /\ booking' = [booking EXCEPT ![p] = [a EXCEPT !.pc = IF a.lessons = <<>> THEN "done" ELSE "lesson",
                                                          !.k = 1]]
  BY DEF Booking!CreateBooking, Booking!Goto, SlotInv, SlotTypes
<1>2. /\ a \in Bookers /\ a.k = 1 /\ a.total \in 1..2 /\ {l \in booked : l.of = p} = {}
      /\ \A i \in 1..Len(a.lessons) : Ready(a.lessons[i])
  BY <1>1 DEF SlotInv, SlotTypes, Progress, Created, Checked, Count
<1>3. a.lessons \in Seq(Requested) /\ Len(a.lessons) \in Nat
  BY <1>2 DEF Bookers
<1>4. hours \in Nat
  <2>1. \A i \in 1..Len(a.lessons) : a.lessons[i] \in Requested
    BY <1>3
  <2>2. \A i \in 1..Len(a.lessons) : a.lessons[i].hours \in Nat
    BY <2>1 DEF Requested
  <2>3. /\ Len(a.lessons) # 0 => a.lessons[1].hours \in Nat
        /\ Len(a.lessons) # 0 /\ Len(a.lessons) # 1 => a.lessons[2].hours \in Nat
    <3>1. PICK n \in Nat : n = Len(a.lessons)
      BY <1>3
    <3>2. (n # 0 => 1 \in 1..n) /\ (n # 0 /\ n # 1 => 2 \in 1..n)
      OBVIOUS
    <3> QED BY <3>1, <3>2, <2>2
  <2> QED BY <2>3 DEF Booking!BookedHours
<1>5. hours <= a.total => doc \in BookingDocs
  BY <1>2, <1>4 DEF BookingDocs, Booking!Status
<1> HIDE DEF hours, doc
<1>6. CASE booking' = [booking EXCEPT ![p] = [a EXCEPT !.pc = "refused", !.k = 0]] /\ bookings' = bookings
  <2>1. PICK e : e = [a EXCEPT !.pc = "refused", !.k = 0]
    OBVIOUS
  <2>2. e.pc = "refused" /\ e.k = 0 /\ e \in Bookers
    BY <1>2, <2>1 DEF Bookers
  <2>3. booking' = [booking EXCEPT ![p] = e] /\ booking'[p] = e
    BY <1>6, <2>1 DEF SlotInv, SlotTypes
  <2>4. Progress(p)' /\ Created(p)' /\ Checked(p)'
    BY <1>1, <1>2, <2>2, <2>3 DEF Progress, Created, Checked
  <2>5. bookings' \in [Procs -> BookingDocs \cup {None}] /\ \A q \in Procs : bookings'[q] = bookings[q]
    BY <1>6 DEF SlotInv, SlotTypes
  <2> QED BY <1>1, <1>2, <2>2, <2>3, <2>4, <2>5, MovesOn
<1>7. CASE /\ hours <= a.total /\ bookings' = [bookings EXCEPT ![p] = doc]
           /\ booking' = [booking EXCEPT ![p] = [a EXCEPT !.pc = IF a.lessons = <<>> THEN "done" ELSE "lesson", !.k = 1]]
  <2>1. PICK e : e = [a EXCEPT !.pc = IF a.lessons = <<>> THEN "done" ELSE "lesson", !.k = 1]
    OBVIOUS
  <2>2. /\ e.pc = (IF a.lessons = <<>> THEN "done" ELSE "lesson") /\ e.k = 1 /\ e \in Bookers
        /\ e.lessons = a.lessons
    BY <1>2, <2>1 DEF Bookers
  <2>3. booking' = [booking EXCEPT ![p] = e] /\ booking'[p] = e
    BY <1>7, <2>1 DEF SlotInv, SlotTypes
  <2>4. bookings' \in [Procs -> BookingDocs \cup {None}] /\ bookings'[p] # None
        /\ \A q \in Procs \ {p} : bookings'[q] = bookings[q]
    BY <1>5, <1>7, NoSlotIsNone DEF SlotInv, SlotTypes
  <2>5. Progress(p)'
    BY <1>3, <2>2, <2>3, <2>4 DEF Progress, Count
  <2>6. Created(p)'
    <3>1. e.k - 1 = 0 /\ (e.pc = "done" => Len(e.lessons) = 0)
      BY <2>2
    <3>2. {LessonOf(p, i)' : i \in 1..0} = {}
      OBVIOUS
    <3>3. {l \in booked' : l.of = p} = {}
      BY <1>1, <1>2
    <3>4. e.pc = "lesson" => {LessonOf(p, i)' : i \in 1..(e.k - 1)} = {}
      BY <3>1
    <3>5. e.pc = "done" => {LessonOf(p, i)' : i \in 1..Len(e.lessons)} = {}
      BY <3>1
    <3> QED BY <2>2, <2>3, <3>3, <3>4, <3>5 DEF Created, Count
  <2>7. Checked(p)'
    <3>1. \A x : Ready(x) => Ready(x)'
      BY <1>1 DEF Ready
    <3>2. \A i \in 1..Len(e.lessons) : Ready(e.lessons[i])'
      BY <1>2, <2>2, <3>1
    <3> QED BY <2>2, <2>3, <3>2 DEF Checked, Count
  <2> QED BY <1>1, <1>2, <2>2, <2>3, <2>4, <2>5, <2>6, <2>7, MovesOn
<1> QED BY <1>1, <1>6, <1>7

\* The lesson document is stored.
LEMMA DocumentStep ==
  ASSUME SlotInv, NEW p \in Procs, Booking!CreateLesson(p)
  PROVE  SlotInv'
<1> DEFINE a == booking[p]
<1>1. /\ a.pc = "lesson" /\ booking' = [booking EXCEPT ![p] = [a EXCEPT !.pc = "mark"]]
      /\ booked' = booked \cup {LessonOf(p, a.k)}
      /\ UNCHANGED <<slots, used, bookings, slotDay>>
  <2>1. booking' = [booking EXCEPT ![p].pc = "mark", ![p].k = a.k] /\ a \in Bookers
    BY DEF Booking!CreateLesson, Booking!Goto, SlotInv, SlotTypes
  <2>2. [a EXCEPT !.pc = "mark", !.k = a.k] = [a EXCEPT !.pc = "mark"]
    BY <2>1 DEF Bookers
  <2> QED BY <2>1, <2>2 DEF Booking!CreateLesson, Booking!Asked, LessonOf, SlotInv, SlotTypes
<1>2. /\ a \in Bookers /\ a.k \in 1..Len(a.lessons) /\ bookings[p] # None
      /\ \A i \in 1..Len(a.lessons) : Ready(a.lessons[i])
      /\ {l \in booked : l.of = p} = {LessonOf(p, i) : i \in 1..(a.k - 1)}
  BY <1>1 DEF SlotInv, SlotTypes, Progress, Created, Checked, Count
<1>3. a.lessons \in Seq(Requested) /\ Len(a.lessons) \in Nat /\ a.k \in Nat
  BY <1>2 DEF Bookers
<1>4. PICK e : e = [a EXCEPT !.pc = "mark"]
  OBVIOUS
<1>5. e.pc = "mark" /\ e.k = a.k /\ e.lessons = a.lessons /\ e \in Bookers
  BY <1>2, <1>4 DEF Bookers
<1>6. booking' = [booking EXCEPT ![p] = e] /\ booking'[p] = e /\ \A q \in Procs \ {p} : booking'[q] = booking[q]
  BY <1>1, <1>4 DEF SlotInv, SlotTypes
<1>7. \A q \in Procs : booking'[q].lessons = booking[q].lessons /\ booking'[q].k = booking[q].k
  BY <1>5, <1>6
<1>8. PICK new : new = LessonOf(p, a.k)
  OBVIOUS
<1>9. new.of = p /\ new.k = a.k /\ new = LessonOf(p, a.k)
  BY <1>8 DEF LessonOf
<1>10. booked' = booked \cup {new}
  BY <1>1, <1>8
<1>11. \A q \in Procs : \A i : LessonOf(q, i)' = LessonOf(q, i)
  BY <1>7 DEF LessonOf
<1>12. \A q \in Procs : Count(q)' = Count(q)
  BY <1>7 DEF Count
<1>13. SlotTypes'
  BY <1>1, <1>5, <1>6 DEF SlotInv, SlotTypes
<1>14. Lessoned'
  <2> SUFFICES ASSUME NEW l \in booked'
               PROVE  l.of \in Procs /\ bookings'[l.of] # None /\ l.k \in 1..Count(l.of)' /\ l = LessonOf(l.of, l.k)'
    BY DEF Lessoned
  <2>1. l.of \in Procs /\ bookings[l.of] # None /\ l.k \in 1..Count(l.of) /\ l = LessonOf(l.of, l.k)
    BY <1>2, <1>9, <1>10 DEF SlotInv, Lessoned, Count
  <2> QED BY <1>1, <1>11, <1>12, <2>1
<1>15. LessonSlotBooked'
  <2> SUFFICES ASSUME NEW l \in booked', booking'[l.of].k > l.k
               PROVE  /\ slots[l.slot] # None /\ slots[l.slot].status = "booked" /\ slots[l.slot].locked
                      /\ slots[l.slot].start = l.start /\ slots[l.slot].end = l.end
    BY <1>1 DEF LessonSlotBooked, Booking!LessonSlotBooked, Booking!Marked
  <2>1. l # new
    BY <1>3, <1>7, <1>9
  <2>2. l \in booked /\ l.of \in Procs
    BY <1>10, <2>1 DEF SlotInv, Lessoned
  <2>3. booking[l.of].k > l.k
    BY <1>7, <2>2
  <2> QED BY <2>2, <2>3 DEF SlotInv, LessonSlotBooked, Booking!LessonSlotBooked, Booking!Marked
<1>16. SlotsDisjoint'
  BY <1>1 DEF SlotInv, SlotsDisjoint, Booking!SlotsDisjoint, Booking!Existing, Booking!Overlap
<1>17. \A q \in Procs \ {p} : Progress(q)' /\ Created(q)' /\ Checked(q)'
  <2>1. \A q \in Procs \ {p} : {l \in booked' : l.of = q} = {l \in booked : l.of = q}
    BY <1>9, <1>10
  <2> QED BY <1>1, <1>6, <2>1, OthersKeep
<1>18. Progress(p)'
  BY <1>1, <1>2, <1>5, <1>6 DEF Progress, Count
<1>19. Created(p)'
  <2>1. {l \in booked' : l.of = p} = {LessonOf(p, i) : i \in 1..(a.k - 1)} \cup {new}
    BY <1>2, <1>9, <1>10
  <2>2. {LessonOf(p, i) : i \in 1..(a.k - 1)} \cup {new} = {LessonOf(p, i) : i \in 1..a.k}
    <3>1. 1..a.k = 1..(a.k - 1) \cup {a.k}
      BY <1>2, <1>3
    <3> QED BY <3>1, <1>9
  <2>3. {l \in booked' : l.of = p} = {LessonOf(p, i)' : i \in 1..e.k}
    BY <1>5, <1>11, <2>1, <2>2
  <2> QED BY <1>5, <1>6, <2>3 DEF Created
<1>20. Checked(p)'
  <2>1. \A x : Ready(x) => Ready(x)'
    BY <1>1 DEF Ready
  <2>2. \A i \in 1..Len(e.lessons) : Ready(e.lessons[i])'
    BY <1>2, <1>5, <2>1
  <2> QED BY <1>5, <1>6, <2>2 DEF Checked, Count
<1> QED BY <1>13, <1>14, <1>15, <1>16, <1>17, <1>18, <1>19, <1>20 DEF SlotInv

\* The slot is marked.
LEMMA MarkStep ==
  ASSUME SlotInv, NEW p \in Procs, Booking!MarkSlot(p)
  PROVE  SlotInv'
<1> DEFINE a == booking[p]
           s == a.lessons[a.k].slot
           next == IF a.k < Len(a.lessons) THEN "lesson" ELSE "done"
<1>1. /\ a.pc = "mark" /\ UNCHANGED <<used, bookings, booked, slotDay>>
      /\ booking' = [booking EXCEPT ![p] = [a EXCEPT !.pc = next, !.k = a.k + 1]]
      /\ slots[s] # None => slots' = [slots EXCEPT ![s] = [slots[s] EXCEPT !.status = "booked", !.locked = TRUE]]
  BY DEF Booking!MarkSlot, Booking!Asked, Booking!Goto, SlotInv, SlotTypes
<1>2. /\ a \in Bookers /\ a.k \in 1..Len(a.lessons) /\ bookings[p] # None
      /\ \A i \in 1..Len(a.lessons) : Ready(a.lessons[i])
      /\ {l \in booked : l.of = p} = {LessonOf(p, i) : i \in 1..a.k}
  BY <1>1 DEF SlotInv, SlotTypes, Progress, Created, Checked, Count
<1>3. a.lessons \in Seq(Requested) /\ Len(a.lessons) \in Nat /\ a.k \in Nat
  BY <1>2 DEF Bookers
<1>4. PICK e : e = [a EXCEPT !.pc = next, !.k = a.k + 1]
  OBVIOUS
<1>5. /\ e.pc = next /\ e.k = a.k + 1 /\ e.lessons = a.lessons /\ e \in Bookers
      /\ a.k < Len(a.lessons) <=> e.pc = "lesson"
      /\ a.k = Len(a.lessons) <=> e.pc = "done"
  <2>1. next \in {"lesson", "done"}
    OBVIOUS
  <2>2. e.pc = next /\ e.k = a.k + 1 /\ e.lessons = a.lessons /\ e \in Bookers
    <3>1. PICK pc, k : pc = next /\ k = a.k + 1
      OBVIOUS
    <3>2. pc \in {"lesson", "done"} /\ k \in Nat /\ e = [a EXCEPT !.pc = pc, !.k = k]
      BY <1>3, <1>4, <2>1, <3>1
    <3> HIDE DEF next
    <3>3. e.pc = pc /\ e.k = k /\ e.lessons = a.lessons /\ e \in Bookers
      BY <1>2, <3>2 DEF Bookers
    <3> QED BY <3>1, <3>3
  <2>3. PICK n \in Nat, k \in Nat : n = Len(a.lessons) /\ k = a.k
    BY <1>3
  <2>4. k <= n
    BY <1>2, <2>3
  <2> QED BY <2>2, <2>3, <2>4
<1>6. booking' = [booking EXCEPT ![p] = e] /\ booking'[p] = e /\ \A q \in Procs \ {p} : booking'[q] = booking[q]
  BY <1>1, <1>4 DEF SlotInv, SlotTypes
<1>7. a.lessons[a.k] \in Requested /\ s \in SlotIds
  <2>1. a.lessons[a.k] \in Requested
    BY <1>2, <1>3
  <2> QED BY <2>1 DEF Requested
<1>8. slots[s] \in SlotDocs /\ slots[s].status \in {"available", "booked"} /\ slots[s] # None
  BY <1>2, <1>7 DEF Ready, SlotInv, SlotTypes
<1>9. PICK doc : doc = [slots[s] EXCEPT !.status = "booked", !.locked = TRUE]
  OBVIOUS
<1>10. /\ doc \in SlotDocs /\ doc.status = "booked" /\ doc.locked
       /\ doc.start = slots[s].start /\ doc.end = slots[s].end /\ doc.date = slots[s].date
  BY <1>8, <1>9 DEF SlotDocs
<1>11. slots' = [slots EXCEPT ![s] = doc]
  BY <1>1, <1>8, <1>9
<1>12. slots'[s] = doc /\ \A t \in SlotIds \ {s} : slots'[t] = slots[t]
  BY <1>7, <1>11 DEF SlotInv, SlotTypes
<1>13. \A q \in Procs : booking'[q].lessons = booking[q].lessons
  BY <1>5, <1>6
<1>14. /\ \A q \in Procs : \A i : LessonOf(q, i)' = LessonOf(q, i)
       /\ \A q \in Procs : Count(q)' = Count(q)
  BY <1>13 DEF LessonOf, Count
<1>15. \A t \in SlotIds : slots[t] # None /\ slots[t].status \in {"available", "booked"} =>
         /\ slots'[t] # None /\ slots'[t].status \in {"available", "booked"}
         /\ slots'[t].start = slots[t].start /\ slots'[t].end = slots[t].end
  BY <1>10, <1>12, NoSlotIsNone
<1>16. SlotTypes'
  <2>1. slots' \in [SlotIds -> SlotDocs \cup {None}] /\ \A t \in SlotIds : slots'[t] # None => t \in used'
    BY <1>1, <1>8, <1>10, <1>11, <1>12 DEF SlotInv, SlotTypes
  <2> QED BY <1>1, <1>5, <1>6, <2>1 DEF SlotInv, SlotTypes
<1>17. Lessoned'
  BY <1>1, <1>14 DEF SlotInv, Lessoned
<1>18. LessonSlotBooked'
  <2> SUFFICES ASSUME NEW l \in booked, booking'[l.of].k > l.k
               PROVE  /\ slots'[l.slot] # None /\ slots'[l.slot].status = "booked" /\ slots'[l.slot].locked
                      /\ slots'[l.slot].start = l.start /\ slots'[l.slot].end = l.end
    BY <1>1 DEF LessonSlotBooked, Booking!LessonSlotBooked, Booking!Marked
  <2>1. l.of \in Procs /\ l.k \in 1..Count(l.of) /\ l = LessonOf(l.of, l.k) /\ l.k \in Nat
    BY DEF SlotInv, Lessoned
  <2>2. CASE l.of = p /\ l.k = a.k
    <3>1. l = LessonOf(p, a.k)
      BY <2>1, <2>2
    <3>2. l.slot = s /\ l.start = slots[s].start /\ l.end = slots[s].end
      BY <1>2, <3>1 DEF LessonOf, Ready
    <3> QED BY <1>10, <1>12, <3>2, <1>8, NoSlotIsNone
  <2>3. CASE ~(l.of = p /\ l.k = a.k)
    <3>1. booking[l.of].k > l.k
      BY <1>3, <1>5, <1>6, <2>1, <2>3
    <3>2. /\ slots[l.slot] # None /\ slots[l.slot].status = "booked" /\ slots[l.slot].locked
          /\ slots[l.slot].start = l.start /\ slots[l.slot].end = l.end
      BY <3>1 DEF SlotInv, LessonSlotBooked, Booking!LessonSlotBooked, Booking!Marked
    <3>3. l.slot \in SlotIds
      <4>1. booking[l.of].lessons \in Seq(Requested)
        BY <2>1 DEF SlotInv, SlotTypes, Bookers
      <4>2. booking[l.of].lessons[l.k] \in Requested
        BY <2>1, <4>1 DEF Count
      <4> QED BY <2>1, <4>2 DEF Requested, LessonOf
    <3> QED BY <1>10, <1>12, <3>2, <3>3, <1>8, NoSlotIsNone
  <2> QED BY <2>2, <2>3
<1>19. SlotsDisjoint'
  <2>1. \A t \in SlotIds : slots'[t] # None /\ slots'[t].status # "cancelled" =>
          /\ slots[t] # None /\ slots[t].status # "cancelled" /\ slots'[t].date = slots[t].date
          /\ slots'[t].start = slots[t].start /\ slots'[t].end = slots[t].end
    BY <1>8, <1>10, <1>12
  <2> QED BY <2>1 DEF SlotInv, SlotsDisjoint, Booking!SlotsDisjoint, Booking!Existing, Booking!Overlap
<1>20. \A q \in Procs \ {p} : Progress(q)' /\ Created(q)' /\ Checked(q)'
  BY <1>1, <1>6, <1>15, OthersKeep
<1>21. Progress(p)'
  BY <1>1, <1>2, <1>3, <1>5, <1>6 DEF Progress, Count
<1>22. Created(p)'
  <2>1. /\ e.k - 1 = a.k /\ (e.pc = "done" => a.k = Len(e.lessons))
        /\ e.pc \notin {"idle", "check", "create", "refused", "mark"}
    BY <1>2, <1>3, <1>5
  <2>2. {l \in booked' : l.of = p} = {LessonOf(p, i)' : i \in 1..a.k}
    BY <1>1, <1>2, <1>14
  <2> QED BY <1>5, <1>6, <2>1, <2>2 DEF Created, Count
<1>23. Checked(p)'
  <2>1. \A i \in 1..Len(a.lessons) : a.lessons[i].slot \in SlotIds
    <3>1. \A i \in 1..Len(a.lessons) : a.lessons[i] \in Requested
      BY <1>3
    <3> QED BY <3>1 DEF Requested
  <2>2. \A x : x.slot \in SlotIds /\ Ready(x) => Ready(x)'
    BY <1>15 DEF Ready
  <2>3. \A i \in 1..Len(e.lessons) : Ready(e.lessons[i])'
    BY <1>2, <1>5, <2>1, <2>2
  <2> QED BY <1>5, <1>6, <2>3 DEF Checked, Count
<1> QED BY <1>16, <1>17, <1>18, <1>19, <1>20, <1>21, <1>22, <1>23 DEF SlotInv

\* An execution that ends, and a day that passes.
LEMMA DiesStep ==
  ASSUME SlotInv, NEW p \in Procs, Booking!Dies(p)
  PROVE  SlotInv'
<1>1. PICK e : e = [booking[p] EXCEPT !.pc = "died", !.k = booking[p].k]
  OBVIOUS
<1>2. booking[p] \in Bookers
  BY DEF SlotInv, SlotTypes
<1>3. e.pc = "died" /\ e.k = booking[p].k /\ e.lessons = booking[p].lessons /\ e \in Bookers
  BY <1>1, <1>2 DEF Bookers
<1>4. booking' = [booking EXCEPT ![p] = e] /\ UNCHANGED <<slots, used, bookings, booked, slotDay>>
  BY <1>1 DEF Booking!Dies, Booking!Goto, SlotInv, SlotTypes
<1>5. booking'[p] = e
  BY <1>4 DEF SlotInv, SlotTypes
<1>6. Progress(p)' /\ Created(p)' /\ Checked(p)'
  BY <1>3, <1>5 DEF Progress, Created, Checked
<1>7. bookings' \in [Procs -> BookingDocs \cup {None}] /\ \A q \in Procs : bookings'[q] = bookings[q]
  BY <1>4 DEF SlotInv, SlotTypes
<1>8. e.k <= booking[p].k
  BY <1>2, <1>3 DEF Bookers
<1> QED BY <1>3, <1>4, <1>6, <1>7, <1>8, MovesOn

\* A day passes.
LEMMA DayStep ==
  ASSUME SlotInv, slotDay' \in SlotDates, UNCHANGED <<slots, used, booking, bookings, booked>>
  PROVE  SlotInv'
<1>1. SlotTypes' /\ Lessoned'
  BY DEF SlotInv, SlotTypes, Lessoned, LessonOf, Count
<1>2. LessonSlotBooked' /\ SlotsDisjoint'
  BY DEF SlotInv, LessonSlotBooked, Booking!LessonSlotBooked, Booking!Marked,
         SlotsDisjoint, Booking!SlotsDisjoint, Booking!Existing, Booking!Overlap
<1>3. ASSUME NEW p \in Procs PROVE Progress(p)' /\ Created(p)' /\ Checked(p)'
  <2>1. Progress(p) /\ Created(p) /\ Checked(p)
    BY DEF SlotInv
  <2>2. Progress(p)' /\ Created(p)'
    BY <2>1 DEF Progress, Created, LessonOf, Count
  <2>3. Checked(p)'
    BY <2>1 DEF Checked, Ready, Count
  <2> QED BY <2>2, <2>3
<1> QED BY <1>1, <1>2, <1>3 DEF SlotInv

\* There is no slot at first.
LEMMA SlotsAtFirst == Booking!Init => SlotInv
<1> SUFFICES ASSUME Booking!Init PROVE SlotInv
  OBVIOUS
<1>1. \A p \in Procs : booking[p] = [pc |-> "idle", lessons |-> <<>>, total |-> 0, k |-> 0]
  BY DEF Booking!Init
<1>2. booked = {} /\ \A s \in SlotIds : slots[s] = None
  BY DEF Booking!Init
<1>3. [pc |-> "idle", lessons |-> <<>>, total |-> 0, k |-> 0] \in Bookers
  BY DEF Bookers
<1>4. SlotTypes
  BY <1>3 DEF Booking!Init, SlotTypes
<1>5. \A p \in Procs : Progress(p) /\ Created(p) /\ Checked(p)
  BY <1>1, <1>2 DEF Progress, Created, Checked
<1> QED BY <1>2, <1>4, <1>5 DEF SlotInv, Lessoned, LessonSlotBooked, Booking!LessonSlotBooked,
                              SlotsDisjoint, Booking!SlotsDisjoint, Booking!Existing

\* The invariant of LegacySlots.
LEMMA SlotsHold == Booking!CarefulSpec => []SlotInv
<1>1. SlotInv /\ [Booking!CarefulNext]_(Booking!vars) => SlotInv'
  <2> SUFFICES ASSUME SlotInv, [Booking!CarefulNext]_(Booking!vars) PROVE SlotInv'
    OBVIOUS
  <2>1. CASE ~Booking!UnderWay /\ Booking!CarefulEdit
    BY <2>1, EditStep
  <2>2. CASE Booking!Tomorrow
    BY <2>2, DayStep DEF Booking!Tomorrow
  <2>3. ASSUME NEW p \in Procs, Booking!BookingStep(p) PROVE SlotInv'
    BY <2>3, StartStep, CheckStep, StoreStep, DocumentStep, MarkStep, DiesStep DEF Booking!BookingStep
  <2>4. CASE UNCHANGED Booking!vars
    <3>1. slotDay' \in SlotDates /\ UNCHANGED <<slots, used, booking, bookings, booked>>
      BY <2>4 DEF Booking!vars, SlotInv, SlotTypes
    <3> QED BY <3>1, DayStep
  <2> QED BY <2>1, <2>2, <2>3, <2>4 DEF Booking!CarefulNext
<1> QED BY <1>1, SlotsAtFirst, PTL DEF Booking!CarefulSpec

\* A booking that was carried to its end has as many lessons as it asked for.
LEMMA AllCreated ==
  ASSUME SlotInv, NEW p \in Procs, booking[p].pc = "done"
  PROVE  Cardinality({l \in booked : l.of = p}) = Len(booking[p].lessons)
<1> DEFINE n == Count(p)
           f == [i \in 1..n |-> LessonOf(p, i)]
<1>1. n \in Nat
  BY DEF SlotInv, SlotTypes, Bookers, Count
<1>2. {l \in booked : l.of = p} = {LessonOf(p, i) : i \in 1..n}
  BY DEF SlotInv, Created
<1>3. \A i \in 1..n : f[i] = LessonOf(p, i) /\ f[i].k = i
  BY DEF LessonOf
<1> DEFINE S == {LessonOf(p, i) : i \in 1..n}
<1>4. Cardinality(S) = n
  <2>1. f \in [1..n -> S] /\ \A i, j \in 1..n : f[i] = f[j] => i = j
    BY <1>3
  <2>2. \A t \in S : \E i \in 1..n : f[i] = t
    BY <1>3
  <2>3. ExistsBijection(1..n, S)
    BY <2>1, <2>2 DEF ExistsBijection, Bijection, Injection, Surjection, IsInjective
  <2> QED BY <1>1, <2>3, FS_CountingElements
<1> QED BY <1>2, <1>4 DEF Count

\* The type invariant of LegacySlots follows.
LEMMA SlotsTyped == SlotInv => Booking!TypeOK
<1> SUFFICES ASSUME SlotInv PROVE Booking!TypeOK
  OBVIOUS
<1>1. /\ used \subseteq SlotIds /\ Booking!Existing \subseteq used /\ slotDay \in SlotDates
      /\ \A s \in Booking!Existing :
           /\ slots[s].date \in SlotDates /\ slots[s].start \in Times /\ slots[s].end \in Times
           /\ slots[s].status \in {"available", "booked", "cancelled"}
           /\ slots[s].locked \in BOOLEAN
  BY DEF SlotInv, SlotTypes, Booking!Existing, SlotDocs
<1>2. ASSUME NEW l \in booked PROVE l.slot \in SlotIds /\ l.of \in Procs /\ bookings[l.of] # None
  <2>1. l.of \in Procs /\ bookings[l.of] # None /\ l.k \in 1..Count(l.of) /\ l = LessonOf(l.of, l.k)
    BY DEF SlotInv, Lessoned
  <2>2. booking[l.of].lessons \in Seq(Requested)
    BY <2>1 DEF SlotInv, SlotTypes, Bookers
  <2>3. booking[l.of].lessons[l.k] \in Requested
    BY <2>1, <2>2 DEF Count
  <2> QED BY <2>1, <2>3 DEF Requested, LessonOf
<1>3. ASSUME NEW p \in Procs, bookings[p] # None PROVE bookings[p].remaining >= 0
  BY <1>3 DEF SlotInv, SlotTypes, BookingDocs
<1>4. \A p \in Procs : booking[p].pc = "done" =>
        Cardinality({l \in booked : l.of = p}) = Len(booking[p].lessons)
  BY AllCreated
<1>5. \A S : Booking!Cardinality(S) = Cardinality(S)
  BY DEF Cardinality, Booking!Cardinality
<1> QED BY <1>1, <1>2, <1>3, <1>4, <1>5, Zenon DEF Booking!TypeOK

\* Whatever the instructor edits in the first version's days - save between a
\* check and a marking, and save another day's slots - a lesson that was booked
\* to its end has its slot, and the slot is booked for it.
THEOREM LessonsHaveTheirSlots == PlatformSpec => []LessonSlotBooked
<1>1. SlotInv => LessonSlotBooked
  BY DEF SlotInv, LessonSlotBooked
<1> QED BY <1>1, SlotsHold, PartsBehave, PTL

\* No two slots on offer, or booked, come to overlap.
THEOREM SlotsStayDisjoint == PlatformSpec => []SlotsDisjoint
<1>1. SlotInv => SlotsDisjoint
  BY DEF SlotInv, SlotsDisjoint
<1> QED BY <1>1, SlotsHold, PartsBehave, PTL

\* The types of LegacySlots.
LEMMA BookingTyped == PlatformSpec => []Booking!TypeOK
BY SlotsTyped, SlotsHold, PartsBehave, PTL

-----------------------------------------------------------------------------
(* Profiles and the search *)

Ranges == [start : Int, end : Int, booked : BOOLEAN]
WeekDocs == {w \in [start : Int, end : Int, days : UNION {[S -> SUBSET Profiling!Slots] : S \in SUBSET Int}] :
               /\ w.start <= w.end /\ w.start \in Profiling!Dates
               /\ w.days \in [w.start..w.end -> SUBSET Profiling!Slots]}
ProfileDocs == [vehicles : [Vehicles -> [has : BOOLEAN, price : BOOLEAN]], private : SUBSET Vehicles,
                areas : SUBSET Areas, tests : SUBSET Areas, filled : SUBSET {"documents", "financial"},
                weeks : Seq(WeekDocs)]
UserDocs == [published : BOOLEAN, transmission : Transmissions]

\* Dues is the table of the weeks that are due, of the first n.
DueStep(weeks, date, dues, i) ==
  IF i = 0 THEN <<>>
  ELSE IF weeks[i].end >= date THEN Append(dues[i - 1], weeks[i]) ELSE dues[i - 1]
IsDue(dues, weeks, date, n) == dues = [i \in 0..n |-> DueStep(weeks, date, dues, i)]
DueWeeks(weeks, date) == Profiling!DueOf(weeks, date)[Len(weeks)]

\* There is such a table.
LEMMA DueUpTo ==
  ASSUME NEW weeks, NEW date, NEW n \in Nat
  PROVE  \E dues : IsDue(dues, weeks, date, n)
<1> DEFINE T == {m \in Nat : ~ \E dues : IsDue(dues, weeks, date, m)}
<1>1. SUFFICES ASSUME T # {} PROVE FALSE
  OBVIOUS
<1>2. PICK m \in T : \A k \in T : m <= k
  BY <1>1, SmallestNat
<1>3. CASE m = 0
  <2> DEFINE none == [i \in 0..0 |-> <<>>]
  <2>1. none = [i \in 0..0 |-> DueStep(weeks, date, none, i)]
    BY DEF DueStep
  <2>2. \E dues : IsDue(dues, weeks, date, 0)
    BY <2>1 DEF IsDue
  <2> QED BY <1>2, <1>3, <2>2
<1>4. CASE m # 0
  <2>1. m - 1 \in Nat /\ m - 1 \notin T
    BY <1>2, <1>4
  <2>2. PICK dues : IsDue(dues, weeks, date, m - 1)
    BY <2>1
  <2> DEFINE more == [i \in 0..m |-> DueStep(weeks, date, dues, i)]
  <2>3. ASSUME NEW i \in 0..m PROVE DueStep(weeks, date, more, i) = DueStep(weeks, date, dues, i)
    <3>1. CASE i = 0
      BY <3>1 DEF DueStep
    <3>2. CASE i # 0
      <4>1. i - 1 \in 0..(m - 1) /\ i - 1 \in 0..m
        BY <1>2, <3>2
      <4>2. more[i - 1] = dues[i - 1]
        BY <2>2, <4>1 DEF IsDue
      <4>3. more[i] = DueStep(weeks, date, dues, i)
        OBVIOUS
      <4> HIDE DEF more
      <4> QED BY <3>2, <4>2, Zenon DEF DueStep
    <3> QED BY <3>1, <3>2
  <2>4. more = [i \in 0..m |-> DueStep(weeks, date, more, i)]
    BY <2>3
  <2>5. \E all : IsDue(all, weeks, date, m)
    BY <2>4 DEF IsDue
  <2> QED BY <1>2, <2>5
<1> QED BY <1>3, <1>4

\* The table of the model is one.
LEMMA DueUnfold ==
  ASSUME NEW weeks, NEW date, Len(weeks) \in Nat
  PROVE  IsDue(Profiling!DueOf(weeks, date), weeks, date, Len(weeks))
<1>1. PICK dues : IsDue(dues, weeks, date, Len(weeks))
  BY DueUpTo
<1> DEFINE of == Profiling!DueOf(weeks, date)
<1>2. of = [i \in 0..Len(weeks) |-> IF i = 0 THEN <<>>
              ELSE IF weeks[i].end >= date THEN Append(of[i - 1], weeks[i]) ELSE of[i - 1]]
  BY <1>1, Zenon DEF IsDue, DueStep, Profiling!DueOf
<1> HIDE DEF of
<1>3. IsDue(of, weeks, date, Len(weeks))
  BY <1>2, Zenon DEF IsDue, DueStep
<1> QED BY <1>3 DEF of

\* The weeks of an instructor: none ends where another is.
Disjointed(weeks) == \A i, j \in DOMAIN weeks : i # j => weeks[i].start > weeks[j].end \/ weeks[i].end < weeks[j].start
StartsOnce(weeks) == \A i, j \in DOMAIN weeks : weeks[i].start = weeks[j].start => i = j

\* The weeks that are due are weeks of the instructor, all of those that end
\* no earlier, and each once.
LEMMA DueElements ==
  ASSUME NEW weeks \in Seq(WeekDocs), Disjointed(weeks), NEW date,
         NEW dues, IsDue(dues, weeks, date, Len(weeks)), NEW n \in 0..Len(weeks)
  PROVE  /\ dues[n] \in Seq(WeekDocs) /\ StartsOnce(dues[n])
         /\ \A k \in DOMAIN dues[n] : \E i \in 1..n : dues[n][k] = weeks[i]
<1> DEFINE P(m) == /\ dues[m] \in Seq(WeekDocs) /\ StartsOnce(dues[m])
                   /\ \A k \in DOMAIN dues[m] : \E i \in 1..m : dues[m][k] = weeks[i]
           T == {m \in Nat : m <= Len(weeks) /\ ~P(m)}
<1>1. SUFFICES ASSUME T # {} PROVE FALSE
  OBVIOUS
<1>2. PICK m \in T : \A k \in T : m <= k
  BY <1>1, SmallestNat
<1>3. dues[m] = DueStep(weeks, date, dues, m) /\ Len(weeks) \in Nat /\ m \in 0..Len(weeks)
  BY <1>2 DEF IsDue
<1>4. CASE m = 0
  <2>1. dues[m] = <<>>
    BY <1>3, <1>4 DEF DueStep
  <2>2. P(m)
    BY <2>1, EmptySeq DEF StartsOnce
  <2> QED BY <1>2, <2>2
<1>5. CASE m # 0
  <2>1. m - 1 \in Nat /\ m \in 1..Len(weeks) /\ P(m - 1)
    <3>1. m \in Nat /\ m <= Len(weeks) /\ Len(weeks) \in Nat
      BY <1>2, <1>3
    <3>2. m - 1 \in Nat /\ m \in 1..Len(weeks) /\ m - 1 <= Len(weeks) /\ ~(m <= m - 1)
      BY <1>5, <3>1
    <3> HIDE DEF P
    <3>3. m - 1 \notin T
      BY <1>2, <3>2, Zenon
    <3>4. P(m - 1)
      BY <3>2, <3>3
    <3> QED BY <3>2, <3>4
  <2>2. PICK before, week : before = dues[m - 1] /\ week = weeks[m] /\ week \in WeekDocs
    BY <2>1
  <2>3. /\ before \in Seq(WeekDocs) /\ StartsOnce(before)
        /\ \A k \in 1..Len(before) : \E i \in 1..(m - 1) : before[k] = weeks[i]
    BY <2>1, <2>2
  <2>4. ASSUME NEW k \in 1..Len(before) PROVE before[k].start # week.start /\ \E i \in 1..m : before[k] = weeks[i]
    <3>1. PICK i \in 1..(m - 1) : before[k] = weeks[i]
      BY <2>3
    <3>2. i \in DOMAIN weeks /\ m \in DOMAIN weeks /\ i # m
      BY <2>1, <3>1
    <3>3. weeks[i] \in WeekDocs
      BY <3>2
    <3>4. weeks[i].start > week.end \/ weeks[i].end < week.start
      BY <2>2, <3>2 DEF Disjointed
    <3>5. weeks[i].start # week.start
      BY <2>2, <3>3, <3>4 DEF WeekDocs
    <3>6. i \in 1..m
      BY <2>1
    <3> QED BY <3>1, <3>5, <3>6
  <2>5. CASE dues[m] = before
    BY <1>2, <2>3, <2>4, <2>5
  <2>6. CASE dues[m] = Append(before, week)
    <3>1. PICK s : s = Append(before, week)
      BY Zenon
    <3>2. PICK l \in Nat : l = Len(before)
      BY <2>3
    <3>3. s \in Seq(WeekDocs) /\ Len(s) = l + 1 /\ s[l + 1] = week /\ \A k \in 1..l : s[k] = before[k]
      BY <2>2, <2>3, <3>1, <3>2, AppendProperties
    <3>4. \A k \in 1..(l + 1) : k \in 1..l \/ k = l + 1
      BY <3>2
    <3>5. StartsOnce(s)
      BY <2>3, <2>4, <3>2, <3>3, <3>4 DEF StartsOnce
    <3>6. \A k \in DOMAIN s : \E i \in 1..m : s[k] = weeks[i]
      <4>1. DOMAIN s = 1..(l + 1) /\ m \in 1..m
        BY <2>1, <3>2, <3>3
      <4>2. s[l + 1] = weeks[m]
        BY <2>2, <3>3, Zenon
      <4>3. ASSUME NEW k \in 1..l PROVE \E i \in 1..m : s[k] = weeks[i]
        <5>1. k \in 1..Len(before)
          BY <3>2, Zenon
        <5>2. \E i \in 1..m : before[k] = weeks[i]
          BY <2>4, <5>1, Zenon
        <5>3. s[k] = before[k]
          BY <3>3, Zenon
        <5> QED BY <5>2, <5>3, Zenon
      <4> QED BY <3>4, <4>1, <4>2, <4>3, Zenon
    <3>7. P(m)
      BY <2>6, <3>1, <3>3, <3>5, <3>6
    <3> QED BY <1>2, <3>7
  <2> QED BY <1>3, <1>5, <2>2, <2>5, <2>6 DEF DueStep
<1> QED BY <1>4, <1>5

Joined(seen, page) == seen \o [i \in DOMAIN page |-> page[i].start]
IsRead(seen, weeks, r) ==
  seen \in Seq(Int) /\ Len(seen) = r /\ \A i \in 1..r : seen[i] = weeks[i].start
IsPart(page, weeks, r, d) ==
  page \in Seq(WeekDocs) /\ Len(page) = d /\ \A i \in 1..d : page[i] = weeks[r + i]
PagesOf(weeks) == (Len(weeks) + Limit - 1) \div Limit
PageOf(weeks, k) == Profiling!Slice(weeks, (k - 1) * Limit, Limit)

\* What a reader has seen of the weeks that are due: their first ones, and the
\* weeks that were due at first are still among them.
ReadTo(weeks, e) ==
  /\ e.page * Limit <= Len(weeks)
  /\ e.seen \in Seq(Int) /\ Len(e.seen) = e.page * Limit
  /\ \A i \in 1..(e.page * Limit) : e.seen[i] = weeks[i].start
  /\ \A w \in e.due : \E k \in 1..Len(weeks) : weeks[k].start = w.start
Reading ==
  /\ reader.pc \in {"idle", "reading", "done"} /\ reader.page \in Nat
  /\ reader.from \in Profiling!Dates \cup {None} /\ \A w \in reader.due : w.start \in Profiling!Dates
  /\ reader.pc = "reading" =>
       /\ profile \in ProfileDocs /\ Disjointed(profile.weeks) /\ user # None /\ ~registering
       /\ reader.from # None => ReadTo(DueWeeks(profile.weeks, reader.from), reader)
  /\ PagesComplete

\* A profile belongs to a user, who is stored first; its weeks were appended
\* with a first day no later than the last, and none where another is.
ProfileInv ==
  /\ user \in {None} \cup UserDocs /\ registering \in BOOLEAN /\ pageDay \in Profiling!Dates
  /\ registering => user # None
  /\ profile # None => profile \in ProfileDocs /\ Disjointed(profile.weeks) /\ user # None /\ ~registering
  /\ Reading

\* Weeks that came to be: they began with these, and one may have been added.
Later(weeks, more) ==
  /\ Len(more) = Len(weeks) \/ Len(more) = Len(weeks) + 1
  /\ \A i \in 1..Len(weeks) : more[i].start = weeks[i].start /\ more[i].end = weeks[i].end

\* What is due depends on the first and the last days alone.
LEMMA DuesAgree ==
  ASSUME NEW weeks \in Seq(WeekDocs), NEW more \in Seq(WeekDocs), Disjointed(weeks), Disjointed(more), Later(weeks, more),
         NEW date, NEW dues, IsDue(dues, weeks, date, Len(weeks)), NEW mores, IsDue(mores, more, date, Len(more)),
         NEW n \in 0..Len(weeks)
  PROVE  Len(mores[n]) = Len(dues[n]) /\ \A k \in 1..Len(dues[n]) : mores[n][k].start = dues[n][k].start
<1> DEFINE P(m) == Len(mores[m]) = Len(dues[m]) /\ \A k \in 1..Len(dues[m]) : mores[m][k].start = dues[m][k].start
           T == {m \in Nat : m <= Len(weeks) /\ ~P(m)}
<1>1. SUFFICES ASSUME T # {} PROVE FALSE
  OBVIOUS
<1>2. PICK m \in T : \A k \in T : m <= k
  BY <1>1, SmallestNat
<1>3. /\ Len(weeks) \in Nat /\ m \in 0..Len(weeks) /\ m \in 0..Len(more)
      /\ dues[m] = DueStep(weeks, date, dues, m) /\ mores[m] = DueStep(more, date, mores, m)
  <2>1. Len(weeks) \in Nat /\ Len(more) \in Nat /\ m \in Nat /\ m <= Len(weeks)
    BY <1>2
  <2>2. m \in 0..Len(weeks) /\ m \in 0..Len(more)
    BY <2>1 DEF Later
  <2> QED BY <2>1, <2>2 DEF IsDue
<1>4. CASE m = 0
  <2>1. dues[m] = <<>> /\ mores[m] = <<>>
    BY <1>3, <1>4 DEF DueStep
  <2>2. P(m)
    BY <2>1
  <2> QED BY <1>2, <2>2
<1>5. CASE m # 0
  <2>1. /\ m - 1 \in Nat /\ m \in 1..Len(weeks) /\ m \in 1..Len(more) /\ P(m - 1)
        /\ m - 1 \in 0..Len(weeks) /\ m - 1 \in 0..Len(more)
    BY <1>2, <1>3, <1>5
  <2>2. PICK a, b, w, v : a = dues[m - 1] /\ b = mores[m - 1] /\ w = weeks[m] /\ v = more[m]
    BY Zenon
  <2>3. a \in Seq(WeekDocs) /\ b \in Seq(WeekDocs)
    BY <2>1, <2>2, DueElements
  <2>4. Len(b) = Len(a) /\ (\A k \in 1..Len(a) : b[k].start = a[k].start) /\ v.start = w.start /\ v.end = w.end
    BY <2>1, <2>2 DEF Later
  <2>5. CASE w.end >= date
    <3>1. dues[m] = Append(a, w) /\ mores[m] = Append(b, v)
      BY <1>3, <1>5, <2>2, <2>4, <2>5 DEF DueStep
    <3>2. PICK s, q, l : s = Append(a, w) /\ q = Append(b, v) /\ l = Len(a) /\ l \in Nat
      <4>1. Len(a) \in Nat
        BY <2>3
      <4> QED BY <4>1, Zenon
    <3>3. w \in WeekDocs /\ v \in WeekDocs
      BY <2>1, <2>2
    <3>4. /\ Len(s) = l + 1 /\ s[l + 1] = w /\ \A k \in 1..l : s[k] = a[k]
          /\ Len(q) = l + 1 /\ q[l + 1] = v /\ \A k \in 1..l : q[k] = b[k]
      BY <2>3, <2>4, <3>2, <3>3, AppendProperties
    <3>5. \A k \in 1..(l + 1) : k \in 1..l \/ k = l + 1
      BY <3>2
    <3>6. Len(q) = Len(s) /\ \A k \in 1..Len(s) : q[k].start = s[k].start
      BY <2>4, <3>2, <3>4, <3>5
    <3>7. P(m)
      BY <3>1, <3>2, <3>6
    <3> QED BY <1>2, <3>7
  <2>6. CASE ~(w.end >= date)
    <3>1. dues[m] = a /\ mores[m] = b
      BY <1>3, <1>5, <2>2, <2>4, <2>6 DEF DueStep
    <3>2. P(m)
      BY <2>4, <3>1
    <3> QED BY <1>2, <3>2
  <2> QED BY <2>5, <2>6
<1> QED BY <1>4, <1>5

\* What is due of the weeks, as DueElements has it of the table.
LEMMA DueAre ==
  ASSUME NEW weeks \in Seq(WeekDocs), Disjointed(weeks), NEW date
  PROVE  /\ DueWeeks(weeks, date) \in Seq(WeekDocs) /\ StartsOnce(DueWeeks(weeks, date))
         /\ \A k \in DOMAIN DueWeeks(weeks, date) :
              \E i \in 1..Len(weeks) : DueWeeks(weeks, date)[k] = weeks[i]
<1>1. PICK dues : dues = Profiling!DueOf(weeks, date)
  BY Zenon
<1>2. IsDue(dues, weeks, date, Len(weeks)) /\ Len(weeks) \in 0..Len(weeks)
  BY <1>1, DueUnfold
<1>3. PICK due : due = dues[Len(weeks)]
  BY Zenon
<1>4. /\ due \in Seq(WeekDocs) /\ StartsOnce(due)
      /\ \A k \in DOMAIN due : \E i \in 1..Len(weeks) : due[k] = weeks[i]
  BY <1>2, <1>3, DueElements
<1> QED BY <1>1, <1>3, <1>4 DEF DueWeeks

\* Of more weeks, no less is due, and in the same order.
LEMMA DueLater ==
  ASSUME NEW weeks \in Seq(WeekDocs), NEW more \in Seq(WeekDocs), Disjointed(weeks), Disjointed(more), Later(weeks, more),
         NEW date, NEW due, due = DueWeeks(weeks, date), NEW mores, mores = DueWeeks(more, date)
  PROVE  Len(due) <= Len(mores) /\ \A k \in 1..Len(due) : mores[k].start = due[k].start
<1>1. PICK of, ofMore : of = Profiling!DueOf(weeks, date) /\ ofMore = Profiling!DueOf(more, date)
  BY Zenon
<1>2. PICK n \in Nat, m \in Nat : n = Len(weeks) /\ m = Len(more)
  BY Zenon, LenProperties
<1>3. IsDue(of, weeks, date, n) /\ IsDue(ofMore, more, date, m) /\ due = of[n] /\ mores = ofMore[m]
  BY <1>1, <1>2, DueUnfold DEF DueWeeks
<1>4. n \in 0..n /\ (m = n \/ m = n + 1)
  BY <1>2 DEF Later
<1>5. PICK first : first = ofMore[n]
  BY Zenon
<1>6. Len(first) = Len(due) /\ \A k \in 1..Len(due) : first[k].start = due[k].start
  BY <1>2, <1>3, <1>4, <1>5, DuesAgree
<1>7. due \in Seq(WeekDocs) /\ first \in Seq(WeekDocs)
  BY <1>2, <1>3, <1>4, <1>5, DueElements
<1>8. CASE m = n
  BY <1>3, <1>5, <1>6, <1>7, <1>8
<1>9. CASE m = n + 1
  <2>1. mores = DueStep(more, date, ofMore, m) /\ m # 0 /\ m - 1 = n /\ m \in 1..Len(more)
    <3>1. m \in 0..m /\ m # 0 /\ m - 1 = n /\ m \in 1..m
      BY <1>9
    <3> QED BY <1>2, <1>3, <3>1 DEF IsDue
  <2>2. mores = first \/ mores = Append(first, more[m])
    BY <1>5, <2>1 DEF DueStep
  <2>3. CASE mores = first
    BY <1>6, <1>7, <2>3
  <2>4. CASE mores = Append(first, more[m])
    <3>1. PICK w, l : w = more[m] /\ l = Len(first) /\ w \in WeekDocs /\ l \in Nat
      <4>1. Len(first) \in Nat
        BY <1>7
      <4>2. PICK all : all = more
        BY Zenon
      <4>3. all \in Seq(WeekDocs) /\ m \in 1..Len(all)
        BY <1>2, <2>1, <4>2, Zenon
      <4>4. all[m] \in WeekDocs
        BY <4>3
      <4> QED BY <4>1, <4>2, <4>4, Zenon
    <3>2. Len(mores) = l + 1 /\ \A k \in 1..l : mores[k] = first[k]
      BY <1>7, <2>4, <3>1, AppendProperties
    <3> QED BY <1>6, <3>1, <3>2
  <2> QED BY <2>2, <2>3, <2>4
<1> QED BY <1>4, <1>8, <1>9

\* What was read of the weeks that are due was read of those due later.
LEMMA ReadLater ==
  ASSUME NEW weeks \in Seq(WeekDocs), NEW more \in Seq(WeekDocs), NEW e, e.page * Limit \in Nat, ReadTo(weeks, e),
         Len(weeks) <= Len(more), \A k \in 1..Len(weeks) : more[k].start = weeks[k].start
  PROVE  ReadTo(more, e)
<1>1. PICK n \in Nat, m \in Nat, r \in Nat : n = Len(weeks) /\ m = Len(more) /\ r = e.page * Limit
  BY LenProperties
<1>2. r <= n /\ n <= m
  BY <1>1 DEF ReadTo
<1>3. \A k \in 1..r : k \in 1..n
  BY <1>2
<1>4. \A k \in 1..n : k \in 1..m
  BY <1>2
<1>5. r <= m
  BY <1>2
<1> QED BY <1>1, <1>3, <1>4, <1>5 DEF ReadTo

\* Whether there is another page.
LEMMA PagesAre ==
  ASSUME NEW l \in Nat \ {0}, NEW n \in Nat, NEW k \in Nat
  PROVE  /\ k < (n + l - 1) \div l => k * l < n
         /\ ~(k < (n + l - 1) \div l) => k * l >= n
<1>1. PICK q \in Nat, r \in Nat : q = (n + l - 1) \div l /\ n + l - 1 = q * l + r /\ r < l
  OBVIOUS
<1>2. ASSUME k < q PROVE k * l < n
  <2>1. k + 1 <= q
    BY <1>2
  <2>2. (k + 1) * l <= q * l
    BY <2>1
  <2> QED BY <1>1, <2>2
<1>3. ASSUME ~(k < q) PROVE k * l >= n
  <2>1. q * l <= k * l
    BY <1>3
  <2> QED BY <1>1, <2>1
<1> QED BY <1>1, <1>2, <1>3

\* A function of 1..n is a sequence.
LEMMA TuplesAre == \A S : \A n \in Nat : \A f \in [1..n -> S] : f \in Seq(S)
OBVIOUS

\* Two sequences of integers in a row.
LEMMA IntegersJoined ==
  \A s, t \in Seq(Int) :
    /\ s \o t \in Seq(Int) /\ Len(s \o t) = Len(s) + Len(t)
    /\ \A i \in 1..(Len(s) + Len(t)) : (s \o t)[i] = (IF i <= Len(s) THEN s[i] ELSE t[i - Len(s)])
<1> TAKE s, t \in Seq(Int)
<1> QED BY ConcatProperties

\* The starts of one more stretch of weeks.
LEMMA PageRead ==
  ASSUME NEW weeks \in Seq(WeekDocs), NEW r \in Nat, NEW d \in Nat, r + d <= Len(weeks),
         NEW seen, IsRead(seen, weeks, r), NEW page, IsPart(page, weeks, r, d)
  PROVE  IsRead(Joined(seen, page), weeks, r + d)
<1>0. PICK new : new = Joined(seen, page)
  BY Zenon
<1> USE DEF IsRead, IsPart
<1>1. PICK starts : starts = [i \in DOMAIN page |-> page[i].start]
  BY Zenon
<1>2. starts \in Seq(Int) /\ Len(starts) = d /\ \A i \in 1..d : starts[i] = weeks[r + i].start
  <2>1. starts = [i \in 1..d |-> page[i].start] /\ \A i \in 1..d : page[i] \in WeekDocs
    BY <1>1
  <2>2. \A i \in 1..d : page[i].start \in Int
    BY <2>1 DEF WeekDocs
  <2>3. starts \in [1..d -> Int]
    BY <2>1, <2>2
  <2>4. \A i \in 1..d : starts[i] = weeks[r + i].start
    BY <2>1
  <2>5. starts \in Seq(Int) /\ Len(starts) = d
    <3>1. starts \in Seq(Int)
      BY <2>3, TuplesAre
    <3> QED BY <2>3, <3>1, LenProperties
  <2> QED BY <2>4, <2>5
<1>3. new = seen \o starts
  BY <1>0, <1>1, Zenon DEF Joined
<1>4. new \in Seq(Int) /\ Len(new) = r + d /\ \A i \in 1..(r + d) : new[i] = (IF i <= r THEN seen[i] ELSE starts[i - r])
  <2>1. /\ new \in Seq(Int) /\ Len(new) = Len(seen) + Len(starts)
        /\ \A i \in 1..(Len(seen) + Len(starts)) : new[i] = (IF i <= Len(seen) THEN seen[i] ELSE starts[i - Len(seen)])
    <3>1. /\ seen \o starts \in Seq(Int) /\ Len(seen \o starts) = Len(seen) + Len(starts)
          /\ \A i \in 1..(Len(seen) + Len(starts)) :
                (seen \o starts)[i] = (IF i <= Len(seen) THEN seen[i] ELSE starts[i - Len(seen)])
      <4>1. seen \in Seq(Int) /\ starts \in Seq(Int)
        BY <1>2
      <4> QED BY <4>1, IntegersJoined, Zenon
    <3> QED BY <1>3, <3>1, Zenon
  <2>2. Len(seen) = r /\ Len(starts) = d
    BY <1>2
  <2> QED BY <2>1, <2>2, Zenon
<1>5. ASSUME NEW i \in 1..(r + d) PROVE new[i] = weeks[i].start
  <2>1. CASE i <= r
    BY <1>4, <2>1
  <2>2. CASE ~(i <= r)
    <3>1. i - r \in 1..d /\ r + (i - r) = i
      BY <2>2
    <3> QED BY <1>2, <1>4, <2>2, <3>1
  <2> QED BY <2>1, <2>2
<1> QED BY <1>0, <1>4, <1>5

\* The stretch of a page.
LEMMA PageEnds ==
  \A l \in Nat \ {0}, n \in Nat, r \in Nat : r <= n =>
    \E d \in Nat : /\ Profiling!Min({n, r + l}) = r + d /\ r + d <= n
                   /\ r + l < n => d = l
                   /\ r + l >= n => r + d = n
<1> TAKE l \in Nat \ {0}, n \in Nat, r \in Nat
<1> HAVE r <= n
<1>1. PICK x \in Nat : x = r + l /\ r <= x
  OBVIOUS
<1>2. PICK m \in {n, x} : \A y \in {n, x} : m <= y
  OBVIOUS
<1>3. PICK k : k = Profiling!Min({n, x})
  BY Zenon
<1>4. k \in {n, x} /\ \A y \in {n, x} : k <= y
  BY <1>2, <1>3, Zenon DEF Profiling!Min
<1>5. k - r \in Nat /\ k = r + (k - r) /\ k <= n /\ (x < n => k - r = l) /\ (x >= n => k = n)
  BY <1>1, <1>4
<1> QED BY <1>1, <1>3, <1>5

\* A page is turned.
LEMMA PageTurned ==
  ASSUME NEW weeks \in Seq(WeekDocs), StartsOnce(weeks), NEW e, e.page \in Nat, ReadTo(weeks, e),
         NEW k, k = e.page + 1, NEW total, total = PagesOf(weeks),
         NEW page, page = PageOf(weeks, k)
  PROVE  \A f : f.page = k /\ f.due = e.due /\ f.seen = Joined(e.seen, page) =>
           /\ k < total => ReadTo(weeks, f)
           /\ ~(k < total) => /\ \A i, j \in DOMAIN f.seen : f.seen[i] = f.seen[j] => i = j
                              /\ \A w \in f.due : \E i \in DOMAIN f.seen : f.seen[i] = w.start
<1> TAKE f
<1> HAVE f.page = k /\ f.due = e.due /\ f.seen = Joined(e.seen, page)
<1>1. PICK n \in Nat, r \in Nat, l \in Nat \ {0}, kl \in Nat :
           n = Len(weeks) /\ r = e.page * Limit /\ r <= n /\ r = (k - 1) * Limit /\ l = Limit /\ kl = k * Limit /\ kl = r + l
  <2>1. Len(weeks) \in Nat /\ e.page * Limit <= Len(weeks)
    BY LenProperties DEF ReadTo
  <2>2. \A a, b \in Nat : a * b \in Nat /\ (a + 1) * b = a * b + b
    OBVIOUS
  <2>3. k - 1 = e.page /\ k = e.page + 1 /\ k \in Nat /\ Limit \in Nat \ {0}
    BY ProfilesAssumption
  <2>4. e.page * Limit \in Nat /\ k * Limit \in Nat /\ k * Limit = e.page * Limit + Limit
    BY <2>2, <2>3
  <2> QED BY <2>1, <2>3, <2>4, Zenon
<1>2. PICK d \in Nat : /\ Profiling!Min({n, r + l}) = r + d /\ r + d <= n
                       /\ r + l < n => d = l
                       /\ r + l >= n => r + d = n
  <2>1. r <= n
    BY <1>1
  <2> QED BY <2>1, PageEnds
<1>3. page \in Seq(WeekDocs) /\ Len(page) = d /\ \A i \in 1..d : page[i] = weeks[r + i]
  <2>1. page = SubSeq(weeks, r + 1, r + d)
    BY <1>1, <1>2, Zenon DEF Profiling!Slice, PageOf
  <2>2. PICK a \in Nat, m \in Nat : a = r + 1 /\ m = r + d
    OBVIOUS
  <2>3. \A i \in a..m : weeks[i] \in WeekDocs
    <3>1. n = Len(weeks) /\ r + d <= n
      BY <1>1, <1>2, Zenon
    <3>2. \A i \in a..m : i \in 1..n
      BY <2>2, <3>1
    <3>3. \A i \in 1..n : weeks[i] \in WeekDocs
      BY <3>1
    <3> QED BY <3>2, <3>3, Zenon
  <2>4. PICK part : part = SubSeq(weeks, a, m)
    BY Zenon
  <2>5. /\ part \in Seq(WeekDocs) /\ Len(part) = (IF a <= m THEN m - a + 1 ELSE 0)
        /\ \A i \in 1..(m - a + 1) : part[i] = weeks[a + i - 1]
    BY <2>3, <2>4, SubSeqProperties
  <2>6. m - a + 1 = d /\ (~(a <= m) => d = 0)
    BY <2>2
  <2>7. \A i \in 1..d : a + i - 1 = r + i
    BY <2>2
  <2>8. part = page
    BY <2>1, <2>2, <2>4, Zenon
  <2> QED BY <2>5, <2>6, <2>7, <2>8
<1>4. PICK old, new : old = e.seen /\ new = f.seen
  BY Zenon
<1>5. old \in Seq(Int) /\ Len(old) = r /\ \A i \in 1..r : old[i] = weeks[i].start
  BY <1>1, <1>4 DEF ReadTo
<1>6. new = Joined(old, page)
  BY <1>4, Zenon
<1>7. new \in Seq(Int) /\ Len(new) = r + d /\ \A i \in 1..(r + d) : new[i] = weeks[i].start
  <2>1. r + d <= Len(weeks) /\ IsRead(old, weeks, r) /\ IsPart(page, weeks, r, d)
    BY <1>1, <1>2, <1>3, <1>5 DEF IsRead, IsPart
  <2>2. IsRead(new, weeks, r + d)
    BY <1>6, <2>1, PageRead
  <2> QED BY <2>2 DEF IsRead
<1>8. \A w \in f.due : \E i \in 1..n : weeks[i].start = w.start
  BY <1>1 DEF ReadTo
<1>9. ASSUME k < total PROVE ReadTo(weeks, f)
  <2>1. k * Limit < Len(weeks)
    <3>1. k \in Nat
      OBVIOUS
    <3> QED BY <1>1, <1>9, <3>1, PagesAre DEF PagesOf
  <2>2. kl < n
    BY <1>1, <2>1
  <2>3. r + d = kl /\ kl <= n
    BY <1>1, <1>2, <2>2
  <2>4. new \in Seq(Int) /\ Len(new) = kl /\ \A i \in 1..kl : new[i] = weeks[i].start
    BY <1>7, <2>3
  <2> QED BY <1>1, <1>4, <1>8, <2>3, <2>4, Zenon DEF ReadTo
<1>10. ASSUME ~(k < total)
       PROVE  /\ \A i, j \in DOMAIN f.seen : f.seen[i] = f.seen[j] => i = j
              /\ \A w \in f.due : \E i \in DOMAIN f.seen : f.seen[i] = w.start
  <2>1. k * Limit >= Len(weeks)
    <3>1. k \in Nat
      OBVIOUS
    <3> QED BY <1>1, <1>10, <3>1, PagesAre DEF PagesOf
  <2>2. kl >= n
    BY <1>1, <2>1
  <2>3. r + d = n
    BY <1>1, <1>2, <2>2
  <2>4. DOMAIN new = 1..n /\ DOMAIN weeks = 1..n /\ \A i \in 1..n : new[i] = weeks[i].start
    <3>1. new \in Seq(Int) /\ Len(new) = n /\ \A i \in 1..n : new[i] = weeks[i].start
      BY <1>7, <2>3, Zenon
    <3>2. DOMAIN new = 1..n /\ DOMAIN weeks = 1..n
      BY <1>1, <3>1
    <3> QED BY <3>1, <3>2
  <2>5. \A i, j \in 1..n : new[i] = new[j] => i = j
    BY <2>4, Zenon DEF StartsOnce
  <2>6. ASSUME NEW w \in f.due PROVE \E i \in 1..n : new[i] = w.start
    BY <1>8, <2>4, Zenon
  <2> QED BY <1>4, <2>4, <2>5, <2>6, Zenon
<1> QED BY <1>9, <1>10

\* The ranges a day may have.
LEMMA SlotsAre == /\ Profiling!Slots \subseteq Ranges
                  /\ \A day \in DayChoices : day \subseteq Profiling!Slots
                  /\ \A s \in Profiling!Slots : [s EXCEPT !.booked = TRUE] \in Profiling!Slots
<1>0. PICK B : /\ Profiling!Slots = (UNION DayChoices) \cup B
               /\ B = {[q EXCEPT !.booked = TRUE] : q \in UNION DayChoices}
  BY Zenon DEF Profiling!Slots
<1>1. ASSUME NEW day \in DayChoices, NEW s \in day
      PROVE  s \in [start : Int, end : Int, booked : {FALSE}] /\ s \in Profiling!Slots
  BY ProfilesAssumption DEF Profiling!Slots
<1>2. ASSUME NEW s \in [start : Int, end : Int, booked : {FALSE}]
      PROVE  s \in Ranges /\ [s EXCEPT !.booked = TRUE] \in Ranges
  BY DEF Ranges
<1>3. ASSUME NEW day \in DayChoices, NEW s \in day PROVE [s EXCEPT !.booked = TRUE] \in Profiling!Slots
  <2>1. PICK r : r = [s EXCEPT !.booked = TRUE]
    BY Zenon
  <2>2. s \in UNION DayChoices
    BY <1>3
  <2>3. r \in B
    BY <1>0, <2>1, <2>2, Zenon
  <2>4. r \in Profiling!Slots
    BY <1>0, <2>3
  <2> QED BY <2>1, <2>4, Zenon
<1>4. ASSUME NEW r, NEW s, r = [s EXCEPT !.booked = TRUE], r \in Ranges
      PROVE  [r EXCEPT !.booked = TRUE] = r
  BY <1>4 DEF Ranges
<1>5. ASSUME NEW s \in Profiling!Slots
      PROVE  s \in Ranges /\ [s EXCEPT !.booked = TRUE] \in Profiling!Slots
  <2>1. CASE s \in UNION DayChoices
    BY <1>1, <1>2, <1>3, <2>1
  <2>2. CASE s \in B
    <3>1. PICK s0 \in UNION DayChoices : s = [s0 EXCEPT !.booked = TRUE]
      BY <1>0, <2>2, Zenon
    <3>2. s \in Ranges
      BY <1>1, <1>2, <3>1
    <3>3. [s EXCEPT !.booked = TRUE] = s
      BY <1>4, <3>1, <3>2, Zenon
    <3> QED BY <3>2, <3>3
  <2>3. s \in UNION DayChoices \/ s \in B
    BY <1>0
  <2> QED BY <2>1, <2>2, <2>3, Zenon
<1> QED BY <1>1, <1>5

\* The weeks that may be appended.
LEMMA WeeksAre == \A w \in WeekChoices : w.start <= w.end => w \in WeekDocs
<1> SUFFICES ASSUME NEW w \in WeekChoices, w.start <= w.end PROVE w \in WeekDocs
  OBVIOUS
<1>1. w \in [start : Int, end : Int, days : [w.start..w.end -> SUBSET UNION DayChoices]]
  BY ProfilesAssumption
<1>2. UNION DayChoices \subseteq Profiling!Slots
  BY DEF Profiling!Slots
<1>3. w.start \in w.start..w.end /\ w.start..w.end \in SUBSET Int
  BY <1>1
<1>4. w.start \in Profiling!Dates
  BY <1>3 DEF Profiling!Dates
<1>5. w.days \in [w.start..w.end -> SUBSET Profiling!Slots]
  BY <1>1, <1>2
<1> QED BY <1>1, <1>3, <1>4, <1>5 DEF WeekDocs

\* A week whose day is given other ranges.
LEMMA DayChanged ==
  ASSUME NEW w \in WeekDocs, NEW d \in DOMAIN w.days, NEW day \in SUBSET Profiling!Slots
  PROVE  [w EXCEPT !.days[d] = day] \in WeekDocs
<1>1. PICK days : days = [w.days EXCEPT ![d] = day]
  BY Zenon
<1>2. PICK a \in Int, b \in Int : a = w.start /\ b = w.end /\ w.days \in [a..b -> SUBSET Profiling!Slots]
  BY DEF WeekDocs
<1>3. days \in [a..b -> SUBSET Profiling!Slots] /\ a..b \in SUBSET Int
  BY <1>1, <1>2
<1>4. PICK v : v = [w EXCEPT !.days = days]
  BY Zenon
<1>5. v.start = a /\ v.end = b /\ v.days = days
  BY <1>2, <1>4 DEF WeekDocs
<1>6. v \in [start : Int, end : Int, days : UNION {[S -> SUBSET Profiling!Slots] : S \in SUBSET Int}]
  BY <1>3, <1>4 DEF WeekDocs
<1>7. v \in WeekDocs
  BY <1>2, <1>3, <1>5, <1>6 DEF WeekDocs
<1> QED BY <1>1, <1>4, <1>7, Zenon

\* The profile is edited, or a week appended: a reader has seen no less.
LEMMA ProfileEdited ==
  ASSUME ProfileInv, NEW edited \in ProfileDocs, profile # None, profile' = edited,
         Disjointed(edited.weeks), Later(profile.weeks, edited.weeks), UNCHANGED <<user, registering, pageDay, reader>>
  PROVE  ProfileInv'
<1>1. profile \in ProfileDocs /\ Disjointed(profile.weeks) /\ user # None /\ ~registering /\ Reading
  BY DEF ProfileInv
<1>2. ASSUME reader.pc = "reading", reader.from # None
      PROVE  ReadTo(DueWeeks(edited.weeks, reader.from), reader)
  <2>1. PICK weeks \in Seq(WeekDocs), more \in Seq(WeekDocs) : weeks = profile.weeks /\ more = edited.weeks
    BY <1>1 DEF ProfileDocs
  <2>2. PICK due, mores : due = DueWeeks(weeks, reader.from) /\ mores = DueWeeks(more, reader.from)
    BY Zenon
  <2>3. Disjointed(weeks) /\ Disjointed(more) /\ Later(weeks, more)
    BY <1>1, <2>1
  <2>4. due \in Seq(WeekDocs) /\ mores \in Seq(WeekDocs)
    BY <2>2, <2>3, DueAre
  <2>5. Len(due) <= Len(mores) /\ \A k \in 1..Len(due) : mores[k].start = due[k].start
    BY <2>2, <2>3, DueLater
  <2>6. ReadTo(due, reader) /\ reader.page * Limit \in Nat
    BY <1>1, <1>2, <2>1, <2>2, ProfilesAssumption DEF Reading
  <2>7. ReadTo(mores, reader)
    BY <2>4, <2>5, <2>6, ReadLater
  <2> QED BY <2>1, <2>2, <2>7
<1>3. PagesComplete'
  BY <1>1 DEF Reading, PagesComplete, Profiling!PagesComplete, Profiling!IsInjective, Profiling!ToSet
<1>4. Reading'
  BY <1>1, <1>2, <1>3 DEF Reading
<1> QED BY <1>1, <1>4 DEF ProfileInv

\* The fields but for the weeks are edited.
LEMMA FieldsEdited ==
  ASSUME ProfileInv, NEW edited \in ProfileDocs, profile # None, profile' = edited,
         edited.weeks = profile.weeks, UNCHANGED <<user, registering, pageDay, reader>>
  PROVE  ProfileInv'
<1>1. Disjointed(edited.weeks) /\ Later(profile.weeks, edited.weeks)
  BY DEF ProfileInv, Later
<1> QED BY <1>1, ProfileEdited

\* The user, a registration or the day moves on.
LEMMA OthersMove ==
  ASSUME ProfileInv, UNCHANGED <<profile, reader>>, user' \in {None} \cup UserDocs, registering' \in BOOLEAN,
         pageDay' \in Profiling!Dates, registering' => user' # None,
         user # None => user' # None /\ (registering' => registering)
  PROVE  ProfileInv'
<1>1. PagesComplete'
  BY DEF ProfileInv, Reading, PagesComplete, Profiling!PagesComplete, Profiling!IsInjective, Profiling!ToSet
<1>2. Reading'
  BY <1>1 DEF ProfileInv, Reading
<1> QED BY <1>2 DEF ProfileInv

\* One day of one week gets other ranges.
LEMMA RangesStep ==
  ASSUME ProfileInv, profile # None, NEW i \in DOMAIN profile.weeks, NEW d \in DOMAIN profile.weeks[i].days,
         NEW day \in SUBSET Profiling!Slots, profile' = [profile EXCEPT !.weeks[i].days[d] = day],
         UNCHANGED <<user, registering, pageDay, reader>>
  PROVE  ProfileInv'
<1>1. profile \in ProfileDocs /\ profile.weeks \in Seq(WeekDocs)
  BY DEF ProfileInv, ProfileDocs
<1>2. PICK w \in WeekDocs : w = [profile.weeks[i] EXCEPT !.days[d] = day]
  <2>1. profile.weeks[i] \in WeekDocs
    BY <1>1
  <2> QED BY <2>1, DayChanged
<1>3. PICK weeks : weeks = [profile.weeks EXCEPT ![i] = w]
  BY Zenon
<1>4. weeks \in Seq(WeekDocs) /\ Len(weeks) = Len(profile.weeks)
  BY <1>1, <1>3
<1>5. PICK edited : edited = [profile EXCEPT !.weeks = weeks]
  BY Zenon
<1>6. edited \in ProfileDocs /\ edited.weeks = weeks
  BY <1>1, <1>4, <1>5 DEF ProfileDocs
<1>7. profile' = edited
  BY <1>2, <1>3, <1>5, Zenon
<1>8. \A j \in DOMAIN weeks : weeks[j].start = profile.weeks[j].start /\ weeks[j].end = profile.weeks[j].end
  <2>1. profile.weeks[i] \in WeekDocs
    BY <1>1
  <2>2. w.start = profile.weeks[i].start /\ w.end = profile.weeks[i].end
    BY <1>2, <2>1 DEF WeekDocs
  <2> QED BY <1>1, <1>3, <1>4, <2>2
<1>9. Disjointed(weeks) /\ Later(profile.weeks, weeks)
  <2>1. Disjointed(profile.weeks) /\ DOMAIN weeks = DOMAIN profile.weeks /\ DOMAIN weeks = 1..Len(weeks)
    BY <1>1, <1>4 DEF ProfileInv
  <2> QED BY <1>4, <1>8, <2>1 DEF Disjointed, Later
<1> QED BY <1>6, <1>7, <1>9, ProfileEdited

\* Every step keeps what the search relies on.
LEMMA ProfileStep == ProfileInv /\ [Profiling!Next]_(Profiling!vars) => ProfileInv'
<1> SUFFICES ASSUME ProfileInv, [Profiling!Next]_(Profiling!vars) PROVE ProfileInv'
  OBVIOUS
<1>1. CASE Profiling!Register
  <2>1. PICK t \in Transmissions : user' = [published |-> FALSE, transmission |-> t]
    BY <1>1 DEF Profiling!Register
  <2>2. user' \in UserDocs
    BY <2>1 DEF UserDocs
  <2>3. None \notin UserDocs
    BY ProfilesAssumption, Zenon DEF UserDocs
  <2> QED BY <1>1, <2>2, <2>3, OthersMove DEF ProfileInv, Profiling!Register
<1>2. CASE Profiling!CreateProfile
  <2>1. user \in UserDocs /\ user.transmission \in SUBSET Vehicles
    BY <1>2, ProfilesAssumption DEF Profiling!CreateProfile, ProfileInv, UserDocs
  <2>2. profile' \in ProfileDocs
    <3>1. <<>> \in Seq(WeekDocs)
      BY EmptySeq
    <3> QED BY <1>2, <2>1, <3>1 DEF Profiling!CreateProfile, Profiling!DefaultVehicles, ProfileDocs
  <2>3. profile'.weeks = <<>> /\ UNCHANGED <<user, pageDay, reader>> /\ registering /\ registering' = FALSE
    BY <1>2 DEF Profiling!CreateProfile
  <2>4. Disjointed(profile'.weeks)
    BY <2>3 DEF Disjointed
  <2>5. reader.pc # "reading" /\ user # None
    BY <2>3 DEF ProfileInv, Reading
  <2>6. PagesComplete'
    BY <2>3 DEF ProfileInv, Reading, PagesComplete, Profiling!PagesComplete, Profiling!IsInjective, Profiling!ToSet
  <2>7. Reading'
    BY <2>3, <2>5, <2>6 DEF ProfileInv, Reading
  <2> QED BY <2>2, <2>3, <2>4, <2>5, <2>7 DEF ProfileInv
<1>3. CASE Profiling!RegisterDies
  BY <1>3, OthersMove DEF ProfileInv, Profiling!RegisterDies
<1>4. CASE Profiling!Publish \/ \E t \in Transmissions : Profiling!UpdateUser(t)
  <2>1. user' \in UserDocs /\ user # None
    BY <1>4 DEF ProfileInv, UserDocs, Profiling!Publish, Profiling!UpdateUser
  <2>2. None \notin UserDocs
    BY ProfilesAssumption, Zenon DEF UserDocs
  <2>3. user' # None /\ UNCHANGED <<profile, registering, pageDay, reader>>
    BY <1>4, <2>1, <2>2 DEF Profiling!Publish, Profiling!UpdateUser
  <2> QED BY <2>1, <2>3, OthersMove DEF ProfileInv
<1>5. CASE Profiling!Tomorrow
  BY <1>5, OthersMove DEF ProfileInv, Profiling!Tomorrow
<1>6. CASE \/ \E v \in Vehicles, p \in BOOLEAN : Profiling!UpdateVehicle(v, p)
           \/ \E t \in Transmissions : Profiling!UpdatePrivateVehicle(t)
           \/ \E as \in SUBSET Areas : Profiling!UpdateServiceAreas(as) \/ Profiling!UpdateTestLocations(as)
           \/ \E part \in {"documents", "financial"} : Profiling!UpdateDetails(part)
  <2>1. profile # None /\ profile \in ProfileDocs /\ UNCHANGED <<user, registering, pageDay, reader>>
    BY <1>6 DEF ProfileInv, Profiling!UpdateVehicle, Profiling!UpdatePrivateVehicle, Profiling!UpdateServiceAreas,
                Profiling!UpdateTestLocations, Profiling!UpdateDetails, Profiling!Set
  <2>2. profile' \in ProfileDocs /\ profile'.weeks = profile.weeks
    <3>1. CASE \E v \in Vehicles, p \in BOOLEAN : Profiling!UpdateVehicle(v, p)
      <4>1. PICK v \in Vehicles, p \in BOOLEAN : Profiling!UpdateVehicle(v, p)
        BY <3>1
      <4>2. PICK e : e = [has |-> TRUE, price |-> profile.vehicles[v].price \/ p]
        BY Zenon
      <4>3. e \in [has : BOOLEAN, price : BOOLEAN]
        BY <4>2
      <4>4. PICK all : all = [profile.vehicles EXCEPT ![v] = e]
        BY Zenon
      <4>5. all \in [Vehicles -> [has : BOOLEAN, price : BOOLEAN]]
        BY <2>1, <4>3, <4>4 DEF ProfileDocs
      <4>6. profile' = [profile EXCEPT !.vehicles = all]
        BY <4>1, <4>2, <4>4, Zenon DEF Profiling!UpdateVehicle, Profiling!Set
      <4> QED BY <2>1, <4>5, <4>6 DEF ProfileDocs
    <3>2. CASE \E t \in Transmissions : Profiling!UpdatePrivateVehicle(t)
      BY <2>1, <3>2, ProfilesAssumption DEF Profiling!UpdatePrivateVehicle, Profiling!Set, ProfileDocs
    <3>3. CASE \E as \in SUBSET Areas : Profiling!UpdateServiceAreas(as) \/ Profiling!UpdateTestLocations(as)
      BY <2>1, <3>3 DEF Profiling!UpdateServiceAreas, Profiling!UpdateTestLocations, Profiling!Set, ProfileDocs
    <3>4. CASE \E part \in {"documents", "financial"} : Profiling!UpdateDetails(part)
      BY <2>1, <3>4 DEF Profiling!UpdateDetails, Profiling!Set, ProfileDocs
    <3> QED BY <1>6, <3>1, <3>2, <3>3, <3>4
  <2> QED BY <2>1, <2>2, FieldsEdited
<1>7. CASE \E w \in WeekChoices : Profiling!AppendWeek(w)
  <2>1. PICK w \in WeekChoices : Profiling!AppendWeek(w)
    BY <1>7
  <2>2. w \in WeekDocs /\ profile # None /\ profile.weeks \in Seq(WeekDocs)
    BY <2>1, WeeksAre DEF Profiling!AppendWeek, ProfileInv, ProfileDocs
  <2>3. PICK weeks, n : weeks = Append(profile.weeks, w) /\ n = Len(profile.weeks)
    BY Zenon
  <2>4. /\ n \in Nat /\ weeks \in Seq(WeekDocs) /\ Len(weeks) = n + 1 /\ weeks[n + 1] = w
        /\ \A i \in 1..n : weeks[i] = profile.weeks[i]
    BY <2>2, <2>3, AppendProperties
  <2>5. PICK edited : edited = [profile EXCEPT !.weeks = weeks]
    BY Zenon
  <2>6. edited \in ProfileDocs /\ edited.weeks = weeks
    BY <2>2, <2>4, <2>5 DEF ProfileInv, ProfileDocs
  <2>7. profile' = edited /\ UNCHANGED <<user, registering, pageDay, reader>>
    BY <2>1, <2>3, <2>5, Zenon DEF Profiling!AppendWeek, Profiling!Set
  <2>8. \A i \in 1..n : profile.weeks[i].start > w.end \/ profile.weeks[i].end < w.start
    BY <2>1, <2>2, <2>3 DEF Profiling!AppendWeek
  <2>9. Later(profile.weeks, weeks)
    BY <2>3, <2>4 DEF Later
  <2>10. Disjointed(weeks)
    <3>1. Disjointed(profile.weeks) /\ DOMAIN profile.weeks = 1..n
      BY <2>2, <2>3 DEF ProfileInv
    <3>2. \A i \in DOMAIN weeks : i \in 1..n \/ i = n + 1
      BY <2>4
    <3>3. \A i \in 1..n : weeks[i] \in WeekDocs
      BY <2>4
    <3>4. \A i \in 1..n : w.start > weeks[i].end \/ w.end < weeks[i].start
      BY <2>2, <2>4, <2>8, <3>3 DEF WeekDocs
    <3> QED BY <2>4, <2>8, <3>1, <3>2, <3>4 DEF Disjointed
  <2> QED BY <2>2, <2>6, <2>7, <2>9, <2>10, ProfileEdited
<1>8. CASE profile # None /\ \E i \in DOMAIN profile.weeks : \E d \in DOMAIN profile.weeks[i].days :
             \/ \E day \in DayChoices : Profiling!UpdateDaySlots(i, d, day)
             \/ \E s \in profile.weeks[i].days[d] : ~s.booked /\ Profiling!Book(i, d, s)
  <2>0. PICK i \in DOMAIN profile.weeks : \E d \in DOMAIN profile.weeks[i].days :
             \/ \E day \in DayChoices : Profiling!UpdateDaySlots(i, d, day)
             \/ \E s \in profile.weeks[i].days[d] : ~s.booked /\ Profiling!Book(i, d, s)
    BY <1>8
  <2>1. PICK d \in DOMAIN profile.weeks[i].days :
             \/ \E day \in DayChoices : Profiling!UpdateDaySlots(i, d, day)
             \/ \E s \in profile.weeks[i].days[d] : ~s.booked /\ Profiling!Book(i, d, s)
    BY <2>0
  <2>2. CASE \E day \in DayChoices : Profiling!UpdateDaySlots(i, d, day)
    <3>1. PICK day \in DayChoices : Profiling!UpdateDaySlots(i, d, day)
      BY <2>2
    <3>2. day \in SUBSET Profiling!Slots
      BY SlotsAre
    <3>3. /\ profile' = [profile EXCEPT !.weeks[i].days[d] = day]
          /\ UNCHANGED <<user, registering, pageDay, reader>>
      BY <3>1 DEF Profiling!UpdateDaySlots, Profiling!Set
    <3> QED BY <1>8, <3>2, <3>3, RangesStep
  <2>3. CASE \E s \in profile.weeks[i].days[d] : ~s.booked /\ Profiling!Book(i, d, s)
    <3>1. PICK s \in profile.weeks[i].days[d] : Profiling!Book(i, d, s)
      BY <2>3
    <3>2. profile.weeks[i] \in WeekDocs
      BY <1>8 DEF ProfileInv, ProfileDocs
    <3>3. profile.weeks[i].days[d] \in SUBSET Profiling!Slots
      BY <3>2 DEF WeekDocs
    <3>4. PICK day : day = (profile.weeks[i].days[d] \ {s}) \cup {[s EXCEPT !.booked = TRUE]}
      BY Zenon
    <3>5. day \in SUBSET Profiling!Slots
      BY <3>3, <3>4, SlotsAre
    <3>6. /\ profile' = [profile EXCEPT !.weeks[i].days[d] = day]
          /\ UNCHANGED <<user, registering, pageDay, reader>>
      BY <3>1, <3>4, Zenon DEF Profiling!Book, Profiling!Set
    <3> QED BY <1>8, <3>5, <3>6, RangesStep
  <2> QED BY <2>1, <2>2, <2>3
<1>9. CASE \E from \in Profiling!Dates \cup {None} : Profiling!Open(from)
  <2>1. PICK from \in Profiling!Dates \cup {None} : Profiling!Open(from)
    BY <1>9
  <2>2. profile # None /\ UNCHANGED <<user, profile, registering, pageDay>>
    BY <2>1 DEF Profiling!Open
  <2>3. profile \in ProfileDocs /\ Disjointed(profile.weeks) /\ user # None /\ ~registering
    BY <2>2 DEF ProfileInv
  <2>4. PICK date, due : /\ date = (IF from = None THEN pageDay ELSE from)
                         /\ due = DueWeeks(profile.weeks, date) /\ due = Profiling!Due(from)
    BY Zenon DEF DueWeeks, Profiling!Due
  <2>5. due \in Seq(WeekDocs)
    BY <2>3, <2>4, DueAre DEF ProfileDocs
  <2>6. PICK e : e = [Profiling!NoReader EXCEPT !.from = from, !.pc = "reading", !.due = Profiling!ToSet(due)]
    BY Zenon
  <2>7. reader' = e
    BY <2>1, <2>4, <2>6, Zenon DEF Profiling!Open
  <2>8. /\ e.from = from /\ e.pc = "reading" /\ e.page = 0 /\ e.seen = <<>>
        /\ e.due = {due[i] : i \in DOMAIN due}
    BY <2>6 DEF Profiling!NoReader, Profiling!ToSet
  <2>9. \A w \in e.due : w.start \in Profiling!Dates /\ \E k \in 1..Len(due) : due[k].start = w.start
    <3>1. DOMAIN due = 1..Len(due) /\ \A k \in 1..Len(due) : due[k] \in WeekDocs
      BY <2>5
    <3>2. \A w \in WeekDocs : w.start \in Profiling!Dates
      BY DEF WeekDocs
    <3> QED BY <2>8, <3>1, <3>2, Zenon
  <2>10. ASSUME from # None PROVE ReadTo(DueWeeks(profile.weeks, from), e)
    <3>1. due = DueWeeks(profile.weeks, from)
      BY <2>4, <2>10
    <3>2. e.page * Limit = 0
      BY <2>8, ProfilesAssumption
    <3> QED BY <2>5, <2>8, <2>9, <3>1, <3>2, EmptySeq DEF ReadTo
  <2>11. PagesComplete'
    BY <2>7, <2>8 DEF PagesComplete, Profiling!PagesComplete
  <2>12. Reading'
    BY <2>2, <2>3, <2>7, <2>8, <2>9, <2>10, <2>11 DEF Reading
  <2> QED BY <2>2, <2>3, <2>12 DEF ProfileInv
<1>10. CASE Profiling!Turn
  <2>1. /\ reader.pc = "reading" /\ UNCHANGED <<user, profile, registering, pageDay>>
        /\ profile \in ProfileDocs /\ Disjointed(profile.weeks) /\ Reading
    BY <1>10 DEF Profiling!Turn, ProfileInv, Reading
  <2>2. PICK from, k, total, page :
          /\ from = reader.from /\ k = reader.page + 1 /\ total = Profiling!TotalPages(from)
          /\ page = Profiling!Page(from, k)
    BY Zenon
  <2>3. PICK seen : seen = Joined(reader.seen, page)
    BY Zenon
  <2>4. PICK e : e = [reader EXCEPT !.page = k, !.total = total, !.seen = seen,
                                    !.pc = IF k < total THEN "reading" ELSE "done"]
    BY Zenon
  <2>5. reader' = e
    BY <1>10, <2>2, <2>3, <2>4, Zenon DEF Profiling!Turn, Joined
  <2>6. /\ e.from = from /\ e.page = k /\ e.due = reader.due /\ e.seen = seen
        /\ e.pc = (IF k < total THEN "reading" ELSE "done")
    BY <2>2, <2>4 DEF Reading
  <2>7. ASSUME from # None
        PROVE  /\ k < total => ReadTo(DueWeeks(profile.weeks, from), e)
               /\ ~(k < total) => /\ \A i, j \in DOMAIN seen : seen[i] = seen[j] => i = j
                                  /\ \A w \in e.due : \E i \in DOMAIN seen : seen[i] = w.start
    <3>1. PICK due : due = DueWeeks(profile.weeks, from) /\ due = Profiling!Due(from)
      BY <2>7, Zenon DEF DueWeeks, Profiling!Due
    <3>2. due \in Seq(WeekDocs) /\ StartsOnce(due)
      <4>1. profile.weeks \in Seq(WeekDocs)
        BY <2>1 DEF ProfileDocs
      <4> QED BY <2>1, <3>1, <4>1, DueAre, Zenon
    <3>3. ReadTo(due, reader) /\ reader.page \in Nat
      BY <2>1, <2>2, <2>7, <3>1 DEF Reading
    <3>4. total = PagesOf(due) /\ page = PageOf(due, k)
      BY <2>2, <3>1, Zenon DEF Profiling!TotalPages, Profiling!Page, PagesOf, PageOf
    <3>5. k = reader.page + 1 /\ e.seen = Joined(reader.seen, page)
      BY <2>2, <2>3, <2>6, Zenon
    <3>6. /\ k < total => ReadTo(due, e)
          /\ ~(k < total) => /\ \A i, j \in DOMAIN e.seen : e.seen[i] = e.seen[j] => i = j
                             /\ \A w \in e.due : \E i \in DOMAIN e.seen : e.seen[i] = w.start
      <4>1. e.page = k /\ e.due = reader.due
        BY <2>6
      <4>2. \A f : f.page = k /\ f.due = reader.due
                     /\ f.seen = Joined(reader.seen, page) =>
              /\ k < total => ReadTo(due, f)
              /\ ~(k < total) => /\ \A i, j \in DOMAIN f.seen : f.seen[i] = f.seen[j] => i = j
                                 /\ \A w \in f.due : \E i \in DOMAIN f.seen : f.seen[i] = w.start
        BY <3>2, <3>3, <3>4, <3>5, PageTurned
      <4> QED BY <3>5, <4>1, <4>2, Zenon
    <3> QED BY <2>6, <3>1, <3>6, Zenon
  <2>8. PagesComplete'
    <3>1. SUFFICES ASSUME ~(k < total), from # None
                   PROVE  Profiling!IsInjective(seen) /\ {w.start : w \in e.due} \subseteq Profiling!ToSet(seen)
      BY <2>5, <2>6 DEF PagesComplete, Profiling!PagesComplete
    <3> QED BY <2>7, <3>1, Zenon DEF Profiling!IsInjective, Profiling!ToSet
  <2>9. Reading'
    <3>1. e.page \in Nat /\ e.pc \in {"idle", "reading", "done"} /\ e.from \in Profiling!Dates \cup {None}
          /\ \A w \in e.due : w.start \in Profiling!Dates
      BY <2>1, <2>2, <2>6 DEF Reading
    <3>2. e.pc = "reading" => k < total
      BY <2>6
    <3>3. user # None /\ ~registering
      BY <2>1 DEF Reading
    <3> QED BY <2>1, <2>5, <2>6, <2>7, <2>8, <3>1, <3>2, <3>3 DEF Reading
  <2> QED BY <2>1, <2>9 DEF ProfileInv
<1>11. CASE Profiling!Close
  <2>1. reader' = Profiling!NoReader /\ UNCHANGED <<user, profile, registering, pageDay>>
    BY <1>11 DEF Profiling!Close
  <2>2. reader'.pc = "idle" /\ reader'.page = 0 /\ reader'.due = {} /\ reader'.from = None
    BY <2>1 DEF Profiling!NoReader
  <2>3. PagesComplete'
    BY <2>2 DEF PagesComplete, Profiling!PagesComplete
  <2> QED BY <2>1, <2>2, <2>3 DEF ProfileInv, Reading
<1>12. CASE UNCHANGED Profiling!vars
  BY <1>12, OthersMove DEF ProfileInv, Profiling!vars
<1> QED BY <1>1, <1>2, <1>3, <1>4, <1>5, <1>6, <1>7, <1>8, <1>9, <1>10, <1>11, <1>12 DEF Profiling!Next

\* The invariant of Profiles.
LEMMA ProfilesHold == Profiling!Spec => []ProfileInv
<1>1. Profiling!Init => ProfileInv
  <2> SUFFICES ASSUME Profiling!Init PROVE ProfileInv
    OBVIOUS
  <2>1. user = None /\ profile = None /\ registering = FALSE /\ pageDay \in Profiling!Dates
    BY DEF Profiling!Init
  <2>2. reader.pc = "idle" /\ reader.page = 0 /\ reader.due = {} /\ reader.from = None
    BY DEF Profiling!Init, Profiling!NoReader
  <2>3. registering \in BOOLEAN /\ ~registering
    BY <2>1, Zenon
  <2>4. PagesComplete
    BY <2>2 DEF PagesComplete, Profiling!PagesComplete
  <2> QED BY <2>1, <2>2, <2>3, <2>4 DEF ProfileInv, Reading
<1> QED BY <1>1, ProfileStep, PTL DEF Profiling!Spec

\* Its type invariant follows.
LEMMA ProfilesTyped == ProfileInv => Profiling!TypeOK
<1> SUFFICES ASSUME ProfileInv PROVE Profiling!TypeOK
  OBVIOUS
<1>1. ASSUME profile # None, NEW i \in DOMAIN profile.weeks
      PROVE  LET w == profile.weeks[i] IN w.days \in [w.start..w.end -> SUBSET Profiling!Slots]
  BY <1>1 DEF ProfileInv, ProfileDocs, WeekDocs
<1> QED BY <1>1 DEF ProfileInv, Reading, ProfileDocs, UserDocs, Profiling!TypeOK

\* Whoever can be booked has a week around the day, and a range of its morning.
LEMMA FoundInTheMorning == ProfileInv => BookableIsFound
<1> SUFFICES ASSUME ProfileInv, profile # None, NEW v \in Vehicles, NEW d \in Profiling!Dates, NEW t \in 0..Noon,
                    t < Noon, Profiling!Bookable(v, d, t)
             PROVE  /\ v \in Profiling!Shown
                    /\ \A area \in Areas, half \in {"AM", None} :
                         /\ user.published /\ area \in profile.areas => Profiling!Found(area, v, d, half)
                         /\ area \in profile.tests => Profiling!FoundForTest(area, v, d, half)
  BY DEF BookableIsFound, Profiling!BookableIsFound
<1>1. profile.vehicles[v].has /\ v \in Profiling!Shown /\ user # None
  BY DEF Profiling!Bookable, Profiling!Shown, ProfileInv
<1>2. PICK s \in Profiling!SlotsOn(d) : s.start <= t
  BY DEF Profiling!Bookable
<1>3. PICK i \in DOMAIN profile.weeks : d \in DOMAIN profile.weeks[i].days /\ s \in profile.weeks[i].days[d]
  BY <1>2 DEF Profiling!SlotsOn
<1>4. profile.weeks[i] \in WeekDocs
  BY <1>3 DEF ProfileInv, ProfileDocs
<1>5. profile.weeks[i].start <= d /\ d <= profile.weeks[i].end /\ s \in Profiling!Slots
  BY <1>3, <1>4 DEF WeekDocs
<1>6. s.start \in Int /\ s.start < Noon
  BY <1>2, <1>5, SlotsAre, ProfilesAssumption DEF Ranges
<1>7. Profiling!Around(d)
  BY <1>3, <1>4, <1>5 DEF Profiling!Around
<1>8. ASSUME NEW half \in {"AM", None} PROVE Profiling!InHalf(s, half)
  BY <1>6, ProfilesAssumption DEF Profiling!InHalf
<1>9. ASSUME NEW half \in {"AM", None} PROVE Profiling!HasSlot(d, half)
  BY <1>2, <1>7, <1>8 DEF Profiling!HasSlot
<1> QED BY <1>1, <1>9 DEF Profiling!Found, Profiling!FoundForTest

\* Whoever can be booked in the morning is found by the search.
THEOREM BookableAreFound == PlatformSpec => []BookableIsFound
BY FoundInTheMorning, ProfilesHold, PartsBehave, PTL

\* A reader who names a day and turns all the pages has read every week that was
\* due at the start, and no week twice, whatever is appended meanwhile.
THEOREM PagesAreComplete == PlatformSpec => []PagesComplete
<1>1. ProfileInv => PagesComplete
  BY DEF ProfileInv, Reading
<1> QED BY <1>1, ProfilesHold, PartsBehave, PTL

\* The types of Profiles.
LEMMA ProfilingTyped == PlatformSpec => []Profiling!TypeOK
BY ProfilesTyped, ProfilesHold, PartsBehave, PTL

-----------------------------------------------------------------------------
(* The types of all parts *)

\* Every document of every part has the fields of its schema.
THEOREM TypesStayOK == PlatformSpec => []TypesOK
<1>1. TypeOK /\ Profiling!TypeOK /\ Notifying!TypeOK /\ Booking!TypeOK /\ Teaching!TypeOK /\ Registering!TypeOK
      => TypesOK
  BY DEF TypesOK
<1> QED BY <1>1, Typed, ProfilingTyped, NotifyingTyped, BookingTyped, CoursesTyped, AccountsTyped, PartsBehave, PTL
=============================================================================
