------------------------------ MODULE Accounts ------------------------------
(***************************************************************************)
(* The accounts of learners, their referrals, and their reviews of an      *)
(* instructor: LearnerService and InstructorReviewService.                 *)
(*                                                                         *)
(* Each request is an execution that reads and writes documents one after  *)
(* the other, with awaits in between; a save of a document writes the      *)
(* fields that the execution has set.                                      *)
(***************************************************************************)
EXTENDS Integers, Sequences, FiniteSets, Functions

CONSTANTS
  None,
  Learners,  \* bound on the learners ever created
  Emails, Mobiles, Passwords,
  Tokens,    \* of password resets, in the order they are drawn
  Lessons,   \* <<learner, order, slot>> of the instructor's lessons
  Stars,     \* the ratings that are given
  Procs

VARIABLES
  learner,   \* [Learners -> None or the learner's document]
  referrals, \* the referral documents
  drawn,     \* tokens that were drawn
  spent,     \* tokens whose reset was answered: history
  reviews,   \* the reviews of the instructor, oldest first
  rating,    \* [avg, total] of the instructor's profile
  exec       \* [Procs -> the execution]

vars == <<learner, referrals, drawn, spent, reviews, rating, exec>>

Idle == [pc |-> "idle"]

Init == /\ learner = [l \in Learners |-> None] /\ referrals = {}
        /\ drawn = {} /\ spent = {}
        /\ reviews = <<>> /\ rating = [avg |-> 0, total |-> 0]
        /\ exec = [p \in Procs |-> Idle]

Accounts == {l \in Learners : learner[l] # None}

At(p, pc)    == exec[p].pc = pc
Become(p, e) == exec' = [exec EXCEPT ![p] = e]
Goto(p, pc)  == Become(p, [exec[p] EXCEPT !.pc = pc])
Ends(p)      == Become(p, Idle)

\* The unique indexes of email and mobileNumber, when l's document is written.
Insertable(l, email, mobile) ==
  \A k \in Accounts \ {l} : learner[k].email # email /\ learner[k].mobile # mobile

-----------------------------------------------------------------------------
(* createLearner *)

\* The captcha is verified and the password hashed before.
CreateLearner(p, l, email, mobile, password, referrer) ==
  /\ At(p, "idle") /\ learner[l] = None
  /\ IF Insertable(l, email, mobile)
     THEN /\ learner' = [learner EXCEPT ![l] = [email |-> email, mobile |-> mobile, password |-> password,
                                                token |-> None, referredBy |-> None]]
          /\ Become(p, [pc |-> "redeem", learner |-> l, referrer |-> referrer])
     ELSE UNCHANGED <<learner, exec>>
  /\ UNCHANGED <<referrals, drawn, spent, reviews, rating>>

\* tryRedeemForLearner, modelled in Settlement: when it throws, the answer is
\* an error although the learner exists.
TryRedeem(p) == /\ At(p, "redeem") /\ (Goto(p, "referrer") \/ Ends(p))
                /\ UNCHANGED <<learner, referrals, drawn, spent, reviews, rating>>

FindReferrer(p) ==
  /\ At(p, "referrer")
  /\ IF exec[p].referrer \in Accounts \ {exec[p].learner} THEN Goto(p, "referred") ELSE Ends(p)
  /\ UNCHANGED <<learner, referrals, drawn, spent, reviews, rating>>

\* Mutant: the learner's document is left to the referral.
SetReferredByLater(p) == /\ At(p, "referred") /\ Goto(p, "referral")
                         /\ UNCHANGED <<learner, referrals, drawn, spent, reviews, rating>>

SetReferredBy(p) ==
  /\ At(p, "referred") /\ Goto(p, "referral")
  /\ learner' = [learner EXCEPT ![exec[p].learner].referredBy = exec[p].referrer]
  /\ UNCHANGED <<referrals, drawn, spent, reviews, rating>>

CreateReferral(p) ==
  /\ At(p, "referral") /\ Ends(p)
  /\ referrals' = referrals \cup {[referrer |-> exec[p].referrer, referee |-> exec[p].learner, status |-> "REGISTERED"]}
  /\ UNCHANGED <<learner, drawn, spent, reviews, rating>>

-----------------------------------------------------------------------------
(* updateProfile *)

Taken(l, email, mobile) == \E k \in Accounts \ {l} : learner[k].email = email \/ learner[k].mobile = mobile

\* email and mobile are None when they are not in the payload: what is absent
\* is not looked for, and nobody has None.
CheckEmail(p, l, email, mobile) ==
  /\ At(p, "idle") /\ l \in Accounts /\ (email # None \/ mobile # None)
  /\ ~Taken(l, email, None)
  /\ Become(p, [pc |-> "mobile", learner |-> l, email |-> email, mobile |-> mobile])
  /\ UNCHANGED <<learner, referrals, drawn, spent, reviews, rating>>

CheckMobile(p) ==
  /\ At(p, "mobile")
  /\ IF Taken(exec[p].learner, None, exec[p].mobile) THEN Ends(p) ELSE Goto(p, "profile")
  /\ UNCHANGED <<learner, referrals, drawn, spent, reviews, rating>>

\* findByIdAndUpdate; the indexes refuse what another request has taken since.
StoreProfile(p) ==
  /\ At(p, "profile") /\ Ends(p)
  /\ LET e == exec[p]  old == learner[e.learner]
         new == [old EXCEPT !.email = IF e.email = None THEN @ ELSE e.email,
                            !.mobile = IF e.mobile = None THEN @ ELSE e.mobile]
     IN  learner' = IF Insertable(e.learner, new.email, new.mobile) THEN [learner EXCEPT ![e.learner] = new]
                    ELSE learner
  /\ UNCHANGED <<referrals, drawn, spent, reviews, rating>>

-----------------------------------------------------------------------------
(* Passwords: between the read and the save the password is compared and hashed *)

ReadPassword(p, l, existing, new) ==
  /\ At(p, "idle") /\ l \in Accounts /\ learner[l].password = existing
  /\ Become(p, [pc |-> "change", learner |-> l, read |-> learner[l], new |-> new])
  /\ UNCHANGED <<learner, referrals, drawn, spent, reviews, rating>>

\* Mutant: the document is stored as it was read.
ChangePasswordWhole(p) ==
  /\ At(p, "change") /\ Ends(p)
  /\ learner' = [learner EXCEPT ![exec[p].learner] = [exec[p].read EXCEPT !.password = exec[p].new]]
  /\ UNCHANGED <<referrals, drawn, spent, reviews, rating>>

ChangePassword(p) ==
  /\ At(p, "change") /\ Ends(p)
  /\ learner' = [learner EXCEPT ![exec[p].learner].password = exec[p].new]
  /\ UNCHANGED <<referrals, drawn, spent, reviews, rating>>

\* forgotPassword: the last token drawn is the one that is stored.
ForgotPassword(l, token) ==
  /\ l \in Accounts /\ token \notin drawn
  /\ drawn' = drawn \cup {token}
  /\ learner' = [learner EXCEPT ![l].token = token]
  /\ UNCHANGED <<referrals, spent, reviews, rating, exec>>

\* resetPassword: a token that no learner has, or that expired, is refused.
FindToken(p, token, new) ==
  /\ At(p, "idle") /\ token \in drawn
  /\ \E l \in Accounts : /\ learner[l].token = token
                         /\ Become(p, [pc |-> "reset", learner |-> l, token |-> token, new |-> new])
  /\ UNCHANGED <<learner, referrals, drawn, spent, reviews, rating>>

\* The save takes whatever token the learner has by now.
ResetPassword(p) ==
  /\ At(p, "reset") /\ Ends(p)
  /\ learner' = [learner EXCEPT ![exec[p].learner].password = exec[p].new, ![exec[p].learner].token = None]
  /\ spent' = spent \cup {exec[p].token}
  /\ UNCHANGED <<referrals, drawn, reviews, rating>>

-----------------------------------------------------------------------------
(* Reviews *)

Reviewed(lesson) == \E k \in DOMAIN reviews : reviews[k].lesson = lesson

\* exists
CanReview(lesson) == ~Reviewed(lesson)

CheckReview(p, lesson, stars) ==
  /\ At(p, "idle") /\ CanReview(lesson)
  /\ Become(p, [pc |-> "review", lesson |-> lesson, stars |-> stars])
  /\ UNCHANGED <<learner, referrals, drawn, spent, reviews, rating>>

\* The unique index of the four ids refuses a second review of the lesson.
CreateReview(p) ==
  /\ At(p, "review")
  /\ IF CanReview(exec[p].lesson)
     THEN /\ reviews' = Append(reviews, [lesson |-> exec[p].lesson, stars |-> exec[p].stars])
          /\ Goto(p, "summary")
     ELSE Ends(p) /\ UNCHANGED reviews
  /\ UNCHANGED <<learner, referrals, drawn, spent, rating>>

\* $round and toFixed(1) of sum / n, in tenths: half goes to the even digit.
RoundTenths(sum, n) ==
  LET q == (10 * sum) \div n  r == (10 * sum) % n IN
  IF 2 * r > n \/ (2 * r = n /\ q % 2 = 1) THEN q + 1 ELSE q

SummaryOf(R) == IF R = <<>> THEN [avg |-> 0, total |-> 0]
                ELSE [avg |-> RoundTenths(FoldFunction(+, 0, [k \in DOMAIN R |-> R[k].stars]), Len(R)),
                      total |-> Len(R)]

\* Mutant: the new review is added to the rating that is stored.
SummaryAdded(p) ==
  /\ At(p, "summary")
  /\ Become(p, [pc |-> "rate", new |-> [avg |-> RoundTenths((rating.avg * rating.total) \div 10 + exec[p].stars,
                                                            rating.total + 1),
                                        total |-> rating.total + 1]])
  /\ UNCHANGED <<learner, referrals, drawn, spent, reviews, rating>>

GetSummary(p) ==
  /\ At(p, "summary")
  /\ Become(p, [pc |-> "rate", new |-> SummaryOf(reviews)])
  /\ UNCHANGED <<learner, referrals, drawn, spent, reviews, rating>>

StoreRating(p) ==
  /\ At(p, "rate") /\ Ends(p)
  /\ rating' = exec[p].new
  /\ UNCHANGED <<learner, referrals, drawn, spent, reviews>>

-----------------------------------------------------------------------------
\* The process restarts between two documents.
Dies(p) == /\ ~At(p, "idle") /\ Ends(p)
           /\ UNCHANGED <<learner, referrals, drawn, spent, reviews, rating>>

Register(p) == \/ \E l \in Learners, email \in Emails, mobile \in Mobiles, password \in Passwords :
                    \E referrer \in Learners \cup {None} : CreateLearner(p, l, email, mobile, password, referrer)
               \/ TryRedeem(p) \/ FindReferrer(p) \/ SetReferredBy(p) \/ CreateReferral(p)

Update(p) == \/ \E l \in Learners, email \in Emails \cup {None}, mobile \in Mobiles \cup {None} :
                  CheckEmail(p, l, email, mobile)
             \/ CheckMobile(p) \/ StoreProfile(p)

Password(p) == \/ \E l \in Learners, existing, new \in Passwords : ReadPassword(p, l, existing, new)
               \/ \E l \in Learners, token \in Tokens : ForgotPassword(l, token)
               \/ \E token \in Tokens, new \in Passwords : FindToken(p, token, new)
               \/ ChangePassword(p) \/ ResetPassword(p)

Review(p) == \/ \E lesson \in Lessons, stars \in Stars : CheckReview(p, lesson, stars)
             \/ CreateReview(p) \/ GetSummary(p) \/ StoreRating(p)

Next == \E p \in Procs : Register(p) \/ Update(p) \/ Password(p) \/ Review(p) \/ Dies(p)

Spec == Init /\ [][Next]_vars

-----------------------------------------------------------------------------
(* Properties *)

\* The documents have the fields of their schemas, contacts are unique, and no
\* lesson has two reviews.
TypeOK ==
  /\ \A l \in Accounts : /\ learner[l].email \in Emails /\ learner[l].mobile \in Mobiles
                         /\ learner[l].password \in Passwords
                         /\ learner[l].token \in drawn \cup {None}
                         /\ Insertable(l, learner[l].email, learner[l].mobile)
  /\ spent \subseteq drawn /\ drawn \subseteq Tokens
  /\ \A j, k \in DOMAIN reviews : j # k => reviews[j].lesson # reviews[k].lesson
  /\ rating.total \in 0..Len(reviews)

\* A referral that was stored is the one its referee's document names, at any
\* point where registrations end or die, and nobody refers oneself.
ReferralsBacked ==
  \A r \in referrals : /\ r.referee \in Accounts /\ r.referrer \in Accounts \ {r.referee}
                       /\ learner[r.referee].referredBy = r.referrer

\* A token whose reset was answered opens no other reset, whatever else has
\* saved the learner's document meanwhile.
SpentTokenRefused == \A l \in Accounts : learner[l].token \notin spent

\* The rating that an instructor's profile shows is the summary of the reviews
\* there were at one moment, the oldest `total` ones: requests that overlap, or
\* die, can leave it old and never wrong.
RatingIsOfReviews == rating = SummaryOf(SubSeq(reviews, 1, rating.total))
=============================================================================
