--------------------------- MODULE AccountsProofs ---------------------------
(***************************************************************************)
(* Theorems about Accounts: referrals are backed by the referee's          *)
(* document, a spent token opens no reset, and the rating of an instructor *)
(* is the summary of reviews there were at one moment - for any number of  *)
(* learners and of concurrent requests.                                    *)
(***************************************************************************)
EXTENDS Accounts, TLAPS

\* None stands for what MongoDB leaves out: no document and no token is None.
Documents == [email : Emails, mobile : Mobiles, password : Passwords,
              token : Tokens \cup {None}, referredBy : Learners \cup {None}]
NoneIsApart == None \notin Documents /\ None \notin Tokens

-----------------------------------------------------------------------------
(* Documents and executions keep their types *)

Chain == {"redeem", "referrer", "referred", "referral"}

\* What an execution carries.
Typed(p) ==
  LET e == exec[p] IN
  /\ e.pc \in Chain => e.learner \in Accounts
  /\ e.pc \in {"mobile", "profile"} =>
       e.learner \in Accounts /\ e.email \in Emails \cup {None} /\ e.mobile \in Mobiles \cup {None}
  /\ e.pc \in {"change", "reset"} => e.learner \in Accounts /\ e.new \in Passwords
  /\ e.pc \in {"referred", "referral"} => e.referrer \in Accounts \ {e.learner}
  /\ e.pc = "reset" => e.token \in drawn
Documented ==
  /\ exec = [p \in Procs |-> exec[p]]
  /\ learner = [l \in Learners |-> learner[l]]
  /\ \A l \in Accounts : learner[l] \in Documents
  /\ spent \subseteq drawn /\ drawn \subseteq Tokens
Types == Documented /\ \A p \in Procs : Typed(p)

\* A document that is replaced by another one leaves the accounts as they are.
LEMMA Replaced ==
  ASSUME NoneIsApart, Types, NEW l \in Learners, NEW doc \in Documents,
         learner' = [learner EXCEPT ![l] = doc]
  PROVE  /\ learner' = [k \in Learners |-> learner'[k]]
         /\ Accounts' = Accounts \cup {l} /\ (l \in Accounts => Accounts' = Accounts)
         /\ learner'[l] = doc /\ \A k \in Learners \ {l} : learner'[k] = learner[k]
         /\ \A k \in Accounts' : learner'[k] \in Documents
<1>1. learner'[l] = doc /\ \A k \in Learners \ {l} : learner'[k] = learner[k]
  BY DEF Types, Documented
<1>2. doc # None
  BY DEF NoneIsApart
<1> QED BY <1>1, <1>2 DEF Types, Documented, Accounts

\* The others keep their types when accounts and drawn tokens only grow.
LEMMA OthersTyped ==
  ASSUME Types, NEW p \in Procs, NEW e, exec' = [exec EXCEPT ![p] = e],
         Accounts \subseteq Accounts', drawn \subseteq drawn'
  PROVE  /\ exec' = [q \in Procs |-> exec'[q]] /\ exec'[p] = e
         /\ \A q \in Procs \ {p} : exec'[q] = exec[q] /\ Typed(q)'
<1>1. exec' = [q \in Procs |-> exec'[q]] /\ exec'[p] = e /\ \A q \in Procs \ {p} : exec'[q] = exec[q]
  BY DEF Types, Documented
<1>2. \A q \in Procs \ {p} : Typed(q)'
  BY <1>1 DEF Types, Typed
<1> QED BY <1>1, <1>2

\* An execution that ends, or goes on without a write.
LEMMA Reads ==
  ASSUME Types, NEW p \in Procs, NEW e, Become(p, e),
         UNCHANGED <<learner, spent, drawn>>, Typed(p)'
  PROVE  Types'
<1>1. Accounts' = Accounts
  BY DEF Accounts
<1>2. \A q \in Procs \ {p} : Typed(q)'
  BY <1>1, OthersTyped DEF Become
<1>3. exec' = [q \in Procs |-> exec'[q]]
  BY <1>1, OthersTyped DEF Become
<1> QED BY <1>1, <1>2, <1>3 DEF Types, Documented

\* An execution that ends carries nothing.
LEMMA EndTyped ==
  ASSUME Types, NEW p \in Procs, Ends(p), Accounts \subseteq Accounts', drawn \subseteq drawn'
  PROVE  /\ exec' = [q \in Procs |-> exec'[q]]
         /\ exec'[p].pc = "idle" /\ \A q \in Procs : Typed(q)'
         /\ \A q \in Procs \ {p} : exec'[q] = exec[q]
<1>1. exec'[p] = Idle
  BY OthersTyped DEF Ends, Become
<1>2. Typed(p)'
  BY <1>1 DEF Typed, Idle, Chain
<1> QED BY <1>1, <1>2, OthersTyped DEF Ends, Become, Idle

\* A save of one document by an execution.
LEMMA Saves ==
  ASSUME NoneIsApart, Types, NEW p \in Procs, NEW l \in Accounts, NEW doc \in Documents, NEW e,
         learner' = [learner EXCEPT ![l] = doc], Become(p, e), Typed(p)',
         spent' \subseteq drawn', drawn' = drawn
  PROVE  Types' /\ Accounts' = Accounts
<1>1. l \in Learners
  BY DEF Accounts
<1>2. Accounts' = Accounts /\ \A k \in Accounts' : learner'[k] \in Documents
  BY <1>1, Replaced
<1>3. \A q \in Procs : Typed(q)'
  BY <1>2, OthersTyped DEF Become
<1>4. exec' = [q \in Procs |-> exec'[q]] /\ learner' = [k \in Learners |-> learner'[k]]
  BY <1>1, <1>2, OthersTyped, Replaced DEF Become
<1> QED BY <1>2, <1>3, <1>4 DEF Types, Documented

\* The steps of createLearner.
LEMMA RegisterTyped ==
  ASSUME NoneIsApart, Types, NEW p \in Procs, Register(p)
  PROVE  Types'
<1>1. ASSUME NEW l \in Learners, NEW email \in Emails, NEW mobile \in Mobiles, NEW password \in Passwords,
             NEW referrer \in Learners \cup {None}, CreateLearner(p, l, email, mobile, password, referrer)
      PROVE  Types'
  <2> DEFINE doc == [email |-> email, mobile |-> mobile, password |-> password,
                     token |-> None, referredBy |-> None]
             e == [pc |-> "redeem", learner |-> l, referrer |-> referrer]
  <2>1. CASE Insertable(l, email, mobile)
    <3>1. doc \in Documents /\ learner' = [learner EXCEPT ![l] = doc] /\ Become(p, e)
      BY <1>1, <2>1 DEF CreateLearner, Documents
    <3>2. Accounts' = Accounts \cup {l} /\ learner' = [k \in Learners |-> learner'[k]]
          /\ \A k \in Accounts' : learner'[k] \in Documents
      BY <3>1, Replaced
    <3>3. UNCHANGED <<drawn, spent>>
      BY <1>1 DEF CreateLearner
    <3>4. exec' = [q \in Procs |-> exec'[q]] /\ exec'[p] = e /\ \A q \in Procs \ {p} : Typed(q)'
      BY <3>1, <3>2, <3>3, OthersTyped DEF Become
    <3>5. Typed(p)'
      BY <3>2, <3>4 DEF Typed
    <3> QED BY <3>2, <3>3, <3>4, <3>5 DEF Types, Documented
  <2>2. CASE ~Insertable(l, email, mobile)
    BY <1>1, <2>2 DEF CreateLearner, Types, Documented, Typed, Accounts
  <2> QED BY <2>1, <2>2
<1>2. CASE TryRedeem(p)
  <2>1. UNCHANGED <<learner, drawn, spent>> /\ Accounts' = Accounts
    BY <1>2 DEF TryRedeem, Accounts
  <2>2. CASE Ends(p)
    BY <2>1, <2>2, EndTyped, Reads DEF Ends
  <2>3. CASE Goto(p, "referrer")
    <3>1. exec'[p] = [exec[p] EXCEPT !.pc = "referrer"]
      BY <2>1, <2>3, OthersTyped DEF Goto, Become
    <3>2. exec'[p].pc = "referrer" /\ exec'[p].learner = exec[p].learner
      BY <3>1
    <3>3. Typed(p)'
      BY <1>2, <2>1, <3>2 DEF TryRedeem, At, Types, Typed, Chain
    <3> QED BY <2>1, <2>3, <3>3, Reads DEF Goto
  <2> QED BY <1>2, <2>2, <2>3 DEF TryRedeem
<1>3. CASE FindReferrer(p)
  <2>1. UNCHANGED <<learner, drawn, spent>> /\ Accounts' = Accounts
    BY <1>3 DEF FindReferrer, Accounts
  <2>2. CASE Ends(p)
    BY <2>1, <2>2, EndTyped, Reads DEF Ends
  <2>3. CASE Goto(p, "referred") /\ exec[p].referrer \in Accounts \ {exec[p].learner}
    <3>1. exec'[p] = [exec[p] EXCEPT !.pc = "referred"]
      BY <2>1, <2>3, OthersTyped DEF Goto, Become
    <3>2. exec'[p].pc = "referred" /\ exec'[p].learner = exec[p].learner /\ exec'[p].referrer = exec[p].referrer
      BY <3>1
    <3>3. Typed(p)'
      BY <1>3, <2>1, <2>3, <3>2 DEF FindReferrer, At, Types, Typed, Chain
    <3> QED BY <2>1, <2>3, <3>3, Reads DEF Goto
  <2> QED BY <1>3, <2>2, <2>3 DEF FindReferrer
<1>4. CASE SetReferredBy(p)
  <2> DEFINE l == exec[p].learner
             doc == [learner[l] EXCEPT !.referredBy = exec[p].referrer]
  <2>1. l \in Accounts /\ exec[p].referrer \in Accounts \ {l}
    BY <1>4 DEF SetReferredBy, At, Types, Typed, Chain
  <2>2. doc \in Documents /\ learner' = [learner EXCEPT ![l] = doc] /\ l \in Learners
    BY <1>4, <2>1 DEF SetReferredBy, Types, Documented, Documents, Accounts
  <2>3. UNCHANGED <<drawn, spent>>
    BY <1>4 DEF SetReferredBy
  <2>4. Accounts' = Accounts
    BY <2>1, <2>2, Replaced
  <2>5. exec'[p] = [exec[p] EXCEPT !.pc = "referral"]
    BY <1>4, <2>3, <2>4, OthersTyped DEF SetReferredBy, Goto, Become
  <2>6. exec'[p].pc = "referral" /\ exec'[p].learner = l /\ exec'[p].referrer = exec[p].referrer
    BY <2>5
  <2>7. Typed(p)'
    BY <2>1, <2>4, <2>6 DEF Typed, Chain
  <2> QED BY <1>4, <2>1, <2>2, <2>3, <2>7, Saves DEF SetReferredBy, Goto, Types, Documented
<1>5. CASE CreateReferral(p)
  <2>1. UNCHANGED <<learner, drawn, spent>> /\ Accounts' = Accounts
    BY <1>5 DEF CreateReferral, Accounts
  <2> QED BY <1>5, <2>1, EndTyped, Reads DEF CreateReferral, Ends
<1> QED BY <1>1, <1>2, <1>3, <1>4, <1>5 DEF Register

\* The steps of updateProfile.
LEMMA UpdateTyped ==
  ASSUME NoneIsApart, Types, NEW p \in Procs, Update(p)
  PROVE  Types'
<1>1. ASSUME NEW l \in Learners, NEW email \in Emails \cup {None}, NEW mobile \in Mobiles \cup {None},
             CheckEmail(p, l, email, mobile)
      PROVE  Types'
  <2> DEFINE e == [pc |-> "mobile", learner |-> l, email |-> email, mobile |-> mobile]
  <2>1. UNCHANGED <<learner, drawn, spent>> /\ Accounts' = Accounts /\ Become(p, e) /\ l \in Accounts
    BY <1>1 DEF CheckEmail, Accounts
  <2>2. exec'[p] = e
    BY <2>1, OthersTyped DEF Become
  <2>3. Typed(p)'
    BY <2>1, <2>2 DEF Typed, Chain
  <2> QED BY <2>1, <2>3, Reads
<1>2. CASE CheckMobile(p)
  <2>1. UNCHANGED <<learner, drawn, spent>> /\ Accounts' = Accounts
    BY <1>2 DEF CheckMobile, Accounts
  <2>2. CASE Ends(p)
    BY <2>1, <2>2, EndTyped, Reads DEF Ends
  <2>3. CASE Goto(p, "profile")
    <3>1. exec'[p] = [exec[p] EXCEPT !.pc = "profile"]
      BY <2>1, <2>3, OthersTyped DEF Goto, Become
    <3>2. exec'[p].pc = "profile" /\ exec'[p].learner = exec[p].learner
          /\ exec'[p].email = exec[p].email /\ exec'[p].mobile = exec[p].mobile
      BY <3>1
    <3>3. Typed(p)'
      BY <1>2, <2>1, <3>2 DEF CheckMobile, At, Types, Typed, Chain
    <3> QED BY <2>1, <2>3, <3>3, Reads DEF Goto
  <2> QED BY <1>2, <2>2, <2>3 DEF CheckMobile
<1>3. CASE StoreProfile(p)
  <2> DEFINE e == exec[p]
             l == e.learner
             doc == [learner[l] EXCEPT !.email = IF e.email = None THEN @ ELSE e.email,
                                       !.mobile = IF e.mobile = None THEN @ ELSE e.mobile]
  <2>1. l \in Accounts /\ e.email \in Emails \cup {None} /\ e.mobile \in Mobiles \cup {None}
    BY <1>3 DEF StoreProfile, At, Types, Typed
  <2>2. doc \in Documents
    BY <2>1 DEF Types, Documented, Documents
  <2>3. UNCHANGED <<drawn, spent>> /\ Ends(p)
    BY <1>3 DEF StoreProfile
  <2>4. CASE UNCHANGED learner
    <3>1. Accounts' = Accounts
      BY <2>4 DEF Accounts
    <3> QED BY <2>3, <2>4, <3>1, EndTyped, Reads DEF Ends
  <2>5. CASE learner' = [learner EXCEPT ![l] = doc]
    <3>1. Accounts' = Accounts
      BY <2>1, <2>2, <2>5, Replaced DEF Accounts
    <3>2. Typed(p)'
      BY <2>3, <3>1, EndTyped
    <3> QED BY <2>1, <2>2, <2>3, <2>5, <3>2, Saves DEF Ends, Types, Documented
  <2> QED BY <1>3, <2>4, <2>5 DEF StoreProfile
<1> QED BY <1>1, <1>2, <1>3 DEF Update

\* The steps that deal with passwords.
LEMMA PasswordTyped ==
  ASSUME NoneIsApart, Types, NEW p \in Procs, Password(p)
  PROVE  Types'
<1>1. ASSUME NEW l \in Learners, NEW existing \in Passwords, NEW new \in Passwords,
             ReadPassword(p, l, existing, new)
      PROVE  Types'
  <2> DEFINE e == [pc |-> "change", learner |-> l, read |-> learner[l], new |-> new]
  <2>1. UNCHANGED <<learner, drawn, spent>> /\ Accounts' = Accounts /\ Become(p, e) /\ l \in Accounts
    BY <1>1 DEF ReadPassword, Accounts
  <2>2. exec'[p] = e
    BY <2>1, OthersTyped DEF Become
  <2>3. Typed(p)'
    BY <2>1, <2>2 DEF Typed, Chain
  <2> QED BY <2>1, <2>3, Reads
<1>2. ASSUME NEW l \in Learners, NEW token \in Tokens, ForgotPassword(l, token)
      PROVE  Types'
  <2> DEFINE doc == [learner[l] EXCEPT !.token = token]
  <2>1. l \in Accounts /\ learner' = [learner EXCEPT ![l] = doc] /\ drawn' = drawn \cup {token}
        /\ UNCHANGED <<spent, exec>>
    BY <1>2 DEF ForgotPassword, Types, Documented
  <2>2. doc \in Documents
    BY <2>1 DEF Types, Documented, Documents
  <2>3. Accounts' = Accounts /\ learner' = [k \in Learners |-> learner'[k]]
        /\ \A k \in Accounts' : learner'[k] \in Documents
    BY <2>1, <2>2, Replaced
  <2>4. \A q \in Procs : Typed(q)'
    BY <2>1, <2>3 DEF Types, Typed
  <2> QED BY <2>1, <2>3, <2>4 DEF Types, Documented
<1>3. ASSUME NEW token \in Tokens, NEW new \in Passwords, FindToken(p, token, new)
      PROVE  Types'
  <2>1. PICK l \in Accounts : Become(p, [pc |-> "reset", learner |-> l, token |-> token, new |-> new])
    BY <1>3 DEF FindToken
  <2> DEFINE e == [pc |-> "reset", learner |-> l, token |-> token, new |-> new]
  <2>2. UNCHANGED <<learner, drawn, spent>> /\ Accounts' = Accounts /\ token \in drawn
    BY <1>3 DEF FindToken, Accounts
  <2>3. exec'[p] = e
    BY <2>1, <2>2, OthersTyped DEF Become
  <2>4. Typed(p)'
    BY <2>2, <2>3 DEF Typed, Chain
  <2> QED BY <2>1, <2>2, <2>4, Reads
<1>4. CASE ChangePassword(p) \/ ResetPassword(p)
  <2> DEFINE l == exec[p].learner
             changed == [learner[l] EXCEPT !.password = exec[p].new]
             reset == [changed EXCEPT !.token = None]
  <2>1. l \in Accounts /\ exec[p].new \in Passwords /\ l \in Learners
    BY <1>4 DEF ChangePassword, ResetPassword, At, Types, Typed, Accounts
  <2>2. changed \in Documents /\ reset \in Documents
    BY <2>1 DEF Types, Documented, Documents
  <2>3. Ends(p) /\ drawn' = drawn
    BY <1>4 DEF ChangePassword, ResetPassword
  <2>4. \E doc \in Documents : learner' = [learner EXCEPT ![l] = doc]
    <3>1. CASE ChangePassword(p)
      <4>1. learner' = [learner EXCEPT ![l] = changed]
        BY <3>1 DEF ChangePassword
      <4> QED BY <4>1, <2>2
    <3>2. CASE ResetPassword(p)
      <4>1. learner' = [learner EXCEPT ![l] = reset]
        BY <3>2, <2>1 DEF ResetPassword, Types, Documented
      <4> QED BY <4>1, <2>2
    <3> QED BY <1>4, <3>1, <3>2
  <2>5. spent' \subseteq drawn'
    BY <1>4, <2>3 DEF ChangePassword, ResetPassword, At, Types, Documented, Typed
  <2>6. PICK doc \in Documents : learner' = [learner EXCEPT ![l] = doc]
    BY <2>4
  <2>7. Accounts' = Accounts
    BY <2>1, <2>6, Replaced
  <2>8. Typed(p)'
    BY <2>3, <2>7, EndTyped
  <2> QED BY <2>1, <2>3, <2>5, <2>6, <2>8, Saves DEF Ends
<1> QED BY <1>1, <1>2, <1>3, <1>4 DEF Password

\* The steps of a review, and the end of an execution that dies.
LEMMA ReviewTyped ==
  ASSUME Types, NEW p \in Procs, Review(p) \/ Dies(p)
  PROVE  Types'
<1>1. UNCHANGED <<learner, drawn, spent>> /\ Accounts' = Accounts
  BY DEF Review, CheckReview, CreateReview, GetSummary, StoreRating, Dies, Accounts
<1>2. ASSUME NEW e, Become(p, e), e.pc \in {"idle", "review", "summary", "rate"} PROVE Types'
  <2>1. exec'[p] = e
    BY <1>1, <1>2, OthersTyped DEF Become
  <2>2. Typed(p)'
    BY <1>2, <2>1 DEF Typed, Chain
  <2> QED BY <1>1, <1>2, <2>2, Reads
<1>3. Ends(p) => Types'
  BY <1>2 DEF Ends, Idle
<1>4. ASSUME NEW lesson \in Lessons, NEW stars \in Stars, CheckReview(p, lesson, stars) PROVE Types'
  BY <1>2, <1>4 DEF CheckReview
<1>5. CASE CreateReview(p)
  <2>1. ASSUME Goto(p, "summary") PROVE Types'
    <3> DEFINE e == [exec[p] EXCEPT !.pc = "summary"]
    <3>1. Become(p, e)
      BY <2>1 DEF Goto
    <3>2. e.pc = "summary"
      OBVIOUS
    <3> HIDE DEF e
    <3> QED BY <1>2, <3>1, <3>2
  <2> QED BY <1>3, <1>5, <2>1 DEF CreateReview
<1>6. CASE GetSummary(p)
  BY <1>2, <1>6 DEF GetSummary
<1>7. CASE StoreRating(p) \/ Dies(p)
  BY <1>3, <1>7 DEF StoreRating, Dies
<1> QED BY <1>4, <1>5, <1>6, <1>7 DEF Review

\* Documents and executions are typed in every state.
LEMMA AlwaysTyped == ASSUME NoneIsApart PROVE Spec => []Types
<1>1. Init => Types
  BY DEF Init, Types, Documented, Typed, Accounts, Idle, Chain
<1>2. Types /\ [Next]_vars => Types'
  <2>1. Types /\ UNCHANGED vars => Types'
    BY DEF vars, Types, Documented, Typed, Accounts
  <2>2. Types /\ Next => Types'
    BY RegisterTyped, UpdateTyped, PasswordTyped, ReviewTyped DEF Next
  <2> QED BY <2>1, <2>2
<1> QED BY <1>1, <1>2, PTL DEF Spec

-----------------------------------------------------------------------------
(* Referrals *)

\* Each learner is registered by one execution, and has no referral before it
\* comes to the end.
Referring(p) ==
  LET e == exec[p] IN
  /\ e.pc = "referral" => learner[e.learner].referredBy = e.referrer
  /\ e.pc \in {"redeem", "referrer", "referred"} => \A r \in referrals : r.referee # e.learner
  /\ e.pc \in Chain => \A q \in Procs \ {p} : exec[q].pc \in Chain => exec[q].learner # e.learner
RefInv == ReferralsBacked /\ \A p \in Procs : Referring(p)

\* How far a step of one execution may go without touching a referral.
SameReferrals(p) ==
  /\ \A q \in Procs \ {p} : exec'[q] = exec[q]
  /\ \A k \in Accounts : learner'[k].referredBy = learner[k].referredBy
  /\ Accounts \subseteq Accounts'
  /\ referrals' = referrals

\* A step that does not belong to a registration, or ends one.
LEMMA OtherThanReferring ==
  ASSUME Types, RefInv, NEW p \in Procs, SameReferrals(p), exec'[p].pc \notin Chain
  PROVE  RefInv'
<1>1. ReferralsBacked'
  BY DEF SameReferrals, RefInv, ReferralsBacked
<1>2. ASSUME NEW q \in Procs PROVE Referring(q)'
  <2>1. CASE q = p
    BY <2>1 DEF Referring, Chain
  <2>2. CASE q # p
    BY <2>2 DEF Types, Typed, SameReferrals, RefInv, Referring, Chain
  <2> QED BY <2>1, <2>2
<1> QED BY <1>1, <1>2 DEF RefInv

\* A registration that goes on, before the referral.
LEMMA StillReferring ==
  ASSUME Types, RefInv, NEW p \in Procs, SameReferrals(p),
         exec[p].pc \in Chain \ {"referral"}, exec'[p].pc \in Chain \ {"referral"},
         exec'[p].learner = exec[p].learner
  PROVE  RefInv'
<1>1. ReferralsBacked'
  BY DEF SameReferrals, RefInv, ReferralsBacked
<1>2. ASSUME NEW q \in Procs PROVE Referring(q)'
  <2>1. CASE q = p
    BY <2>1 DEF Types, Typed, SameReferrals, RefInv, Referring, Chain
  <2>2. CASE q # p
    BY <2>2 DEF Types, Typed, SameReferrals, RefInv, Referring, Chain
  <2> QED BY <2>1, <2>2
<1> QED BY <1>1, <1>2 DEF RefInv

\* The steps of createLearner.
LEMMA RegisterRefers ==
  ASSUME NoneIsApart, Types, RefInv, NEW p \in Procs, Register(p)
  PROVE  RefInv'
<1>1. ASSUME NEW l \in Learners, NEW email \in Emails, NEW mobile \in Mobiles, NEW password \in Passwords,
             NEW referrer \in Learners \cup {None}, CreateLearner(p, l, email, mobile, password, referrer)
      PROVE  RefInv'
  <2> DEFINE doc == [email |-> email, mobile |-> mobile, password |-> password,
                     token |-> None, referredBy |-> None]
             e == [pc |-> "redeem", learner |-> l, referrer |-> referrer]
  <2>1. CASE Insertable(l, email, mobile)
    <3>1. doc \in Documents /\ learner' = [learner EXCEPT ![l] = doc] /\ Become(p, e) /\ l \notin Accounts
      BY <1>1, <2>1 DEF CreateLearner, Documents, Accounts
    <3>2. Accounts' = Accounts \cup {l} /\ \A k \in Accounts : learner'[k] = learner[k]
      BY <3>1, Replaced DEF Accounts
    <3>3. referrals' = referrals /\ drawn' = drawn
      BY <1>1 DEF CreateLearner
    <3>4. exec'[p] = e /\ \A q \in Procs \ {p} : exec'[q] = exec[q]
      BY <3>1, <3>2, <3>3, OthersTyped DEF Become
    <3>5. ReferralsBacked'
      BY <3>2, <3>3 DEF RefInv, ReferralsBacked
    <3>6. \A r \in referrals : r.referee # l
      BY <3>1 DEF RefInv, ReferralsBacked
    <3>7. \A q \in Procs : exec[q].pc \in Chain => exec[q].learner # l
      BY <3>1 DEF Types, Typed
    <3>8. exec'[p].pc = "redeem" /\ exec'[p].learner = l
      BY <3>4
    <3>9. Referring(p)'
      BY <3>3, <3>4, <3>6, <3>7, <3>8 DEF Referring
    <3>10. ASSUME NEW q \in Procs \ {p} PROVE Referring(q)'
      BY <3>2, <3>3, <3>4, <3>7, <3>8 DEF Types, Typed, RefInv, Referring, Chain
    <3> QED BY <3>5, <3>9, <3>10 DEF RefInv
  <2>2. CASE ~Insertable(l, email, mobile)
    BY <1>1, <2>2 DEF CreateLearner, RefInv, Referring, ReferralsBacked, Accounts
  <2> QED BY <2>1, <2>2
<1>2. CASE TryRedeem(p) \/ FindReferrer(p)
  <2>1. UNCHANGED <<learner, referrals, drawn>> /\ Accounts' = Accounts
    BY <1>2 DEF TryRedeem, FindReferrer, Accounts
  <2>2. exec[p].pc \in Chain \ {"referral"}
    BY <1>2 DEF TryRedeem, FindReferrer, At, Chain
  <2>3. CASE Ends(p)
    <3>1. SameReferrals(p) /\ exec'[p].pc \notin Chain
      BY <2>1, <2>3, EndTyped DEF SameReferrals, Chain
    <3> QED BY <3>1, OtherThanReferring
  <2>4. ASSUME NEW pc \in {"referrer", "referred"}, Goto(p, pc) PROVE RefInv'
    <3>1. exec'[p] = [exec[p] EXCEPT !.pc = pc] /\ \A q \in Procs \ {p} : exec'[q] = exec[q]
      BY <2>1, <2>4, OthersTyped DEF Goto, Become
    <3>2. exec'[p].pc = pc /\ exec'[p].learner = exec[p].learner
      BY <3>1
    <3>3. SameReferrals(p)
      BY <2>1, <3>1 DEF SameReferrals
    <3> QED BY <2>2, <3>2, <3>3, StillReferring DEF Chain
  <2> QED BY <1>2, <2>3, <2>4 DEF TryRedeem, FindReferrer
<1>3. CASE SetReferredBy(p)
  <2> DEFINE l == exec[p].learner
             doc == [learner[l] EXCEPT !.referredBy = exec[p].referrer]
  <2>1. l \in Accounts /\ exec[p].referrer \in Accounts \ {l} /\ exec[p].pc = "referred"
    BY <1>3 DEF SetReferredBy, At, Types, Typed, Chain
  <2>2. doc \in Documents /\ learner' = [learner EXCEPT ![l] = doc] /\ l \in Learners
    BY <1>3, <2>1 DEF SetReferredBy, Types, Documented, Documents, Accounts
  <2>3. Accounts' = Accounts /\ learner'[l] = doc /\ \A k \in Accounts \ {l} : learner'[k] = learner[k]
    BY <2>1, <2>2, Replaced DEF Accounts
  <2>4. referrals' = referrals /\ drawn' = drawn
    BY <1>3 DEF SetReferredBy
  <2>5. exec'[p] = [exec[p] EXCEPT !.pc = "referral"] /\ \A q \in Procs \ {p} : exec'[q] = exec[q]
    BY <1>3, <2>3, <2>4, OthersTyped DEF SetReferredBy, Goto, Become
  <2>6. exec'[p].pc = "referral" /\ exec'[p].learner = l /\ exec'[p].referrer = exec[p].referrer
    BY <2>5
  <2>7. doc.referredBy = exec[p].referrer
    BY <2>1 DEF Types, Documented, Documents
  <2>8. \A r \in referrals : r.referee # l
    BY <2>1 DEF RefInv, Referring
  <2>9. ReferralsBacked'
    BY <2>3, <2>4, <2>8 DEF RefInv, ReferralsBacked
  <2>10. \A q \in Procs \ {p} : exec[q].pc \in Chain => exec[q].learner # l
    BY <2>1 DEF RefInv, Referring, Chain
  <2>11. Referring(p)'
    BY <2>3, <2>5, <2>6, <2>7, <2>10 DEF Referring
  <2>12. ASSUME NEW q \in Procs \ {p} PROVE Referring(q)'
    <3>1. exec[q].pc = "referral" => exec[q].learner \in Accounts \ {l}
      BY <2>10 DEF Types, Typed, Chain
    <3>2. \A r \in Procs \ {q} : exec'[r].pc \in Chain => exec[r].pc \in Chain /\ exec'[r].learner = exec[r].learner
      BY <2>1, <2>5, <2>6 DEF Chain
    <3> QED BY <2>3, <2>4, <2>5, <3>1, <3>2 DEF RefInv, Referring
  <2> QED BY <2>9, <2>11, <2>12 DEF RefInv
<1>4. CASE CreateReferral(p)
  <2> DEFINE l == exec[p].learner
             r == [referrer |-> exec[p].referrer, referee |-> l, status |-> "REGISTERED"]
  <2>1. referrals' = referrals \cup {r} /\ learner' = learner /\ drawn' = drawn /\ Ends(p)
    BY <1>4 DEF CreateReferral
  <2>2. Accounts' = Accounts
    BY <2>1 DEF Accounts
  <2>3. l \in Accounts /\ exec[p].referrer \in Accounts \ {l} /\ learner[l].referredBy = exec[p].referrer
        /\ exec[p].pc = "referral"
    BY <1>4 DEF CreateReferral, At, Types, Typed, Chain, RefInv, Referring
  <2>4. ReferralsBacked'
    BY <2>1, <2>2, <2>3 DEF RefInv, ReferralsBacked
  <2>5. exec'[p].pc = "idle" /\ \A q \in Procs \ {p} : exec'[q] = exec[q]
    BY <2>1, <2>2, EndTyped
  <2>6. ASSUME NEW q \in Procs \ {p} PROVE Referring(q)'
    <3>1. exec[q].pc \in Chain => exec[q].learner # l
      BY <2>3 DEF RefInv, Referring, Chain
    <3> QED BY <2>1, <2>5, <3>1 DEF RefInv, Referring, Chain
  <2>7. Referring(p)'
    BY <2>5 DEF Referring, Chain
  <2> QED BY <2>4, <2>6, <2>7 DEF RefInv
<1> QED BY <1>1, <1>2, <1>3, <1>4 DEF Register

\* A document that keeps its referredBy keeps it for the referrals.
LEMMA SameDocument ==
  ASSUME NoneIsApart, Types, NEW l \in Accounts, NEW doc \in Documents,
         learner' = [learner EXCEPT ![l] = doc], doc.referredBy = learner[l].referredBy
  PROVE  Accounts \subseteq Accounts' /\ \A k \in Accounts : learner'[k].referredBy = learner[k].referredBy
<1>1. l \in Learners
  BY DEF Accounts
<1> QED BY <1>1, Replaced DEF Accounts

\* Profiles, passwords and reviews leave the referrals alone.
LEMMA OthersRefer ==
  ASSUME NoneIsApart, Types, RefInv, NEW p \in Procs, Update(p) \/ Password(p) \/ Review(p) \/ Dies(p)
  PROVE  RefInv'
<1>1. ASSUME UNCHANGED <<learner, referrals>>, NEW e, Become(p, e), e.pc \notin Chain, drawn' = drawn PROVE RefInv'
  <2>1. Accounts' = Accounts
    BY <1>1 DEF Accounts
  <2>2. exec'[p] = e /\ \A q \in Procs \ {p} : exec'[q] = exec[q]
    BY <1>1, <2>1, OthersTyped DEF Become
  <2> QED BY <1>1, <2>1, <2>2, OtherThanReferring DEF SameReferrals
<1>2. ASSUME UNCHANGED <<learner, referrals, drawn>>, Ends(p) PROVE RefInv'
  BY <1>1, <1>2 DEF Ends, Idle, Chain
<1>3. ASSUME UNCHANGED <<learner, referrals, drawn>>, NEW pc, pc \notin Chain, Goto(p, pc) PROVE RefInv'
  <2> DEFINE e == [exec[p] EXCEPT !.pc = pc]
  <2>1. e.pc = pc /\ Become(p, e)
    BY <1>3 DEF Goto
  <2> HIDE DEF e
  <2> QED BY <1>1, <1>3, <2>1
<1>4. ASSUME NEW l \in Accounts, NEW doc \in Documents, learner' = [learner EXCEPT ![l] = doc],
             doc.referredBy = learner[l].referredBy, referrals' = referrals, Ends(p), drawn' = drawn
      PROVE  RefInv'
  <2>1. Accounts \subseteq Accounts' /\ \A k \in Accounts : learner'[k].referredBy = learner[k].referredBy
    BY <1>4, SameDocument
  <2>2. exec'[p].pc = "idle" /\ \A q \in Procs \ {p} : exec'[q] = exec[q]
    BY <1>4, <2>1, EndTyped
  <2> QED BY <1>4, <2>1, <2>2, OtherThanReferring DEF SameReferrals, Chain
<1>5. CASE Update(p)
  <2>1. ASSUME NEW l \in Learners, NEW email, NEW mobile, CheckEmail(p, l, email, mobile) PROVE RefInv'
    BY <1>1, <2>1 DEF CheckEmail, Chain
  <2>2. CASE CheckMobile(p)
    BY <1>2, <1>3, <2>2 DEF CheckMobile, Chain
  <2>3. CASE StoreProfile(p)
    <3> DEFINE e == exec[p]
               l == e.learner
               doc == [learner[l] EXCEPT !.email = IF e.email = None THEN @ ELSE e.email,
                                         !.mobile = IF e.mobile = None THEN @ ELSE e.mobile]
    <3>1. l \in Accounts /\ e.email \in Emails \cup {None} /\ e.mobile \in Mobiles \cup {None}
      BY <2>3 DEF StoreProfile, At, Types, Typed
    <3>2. doc \in Documents /\ doc.referredBy = learner[l].referredBy
      BY <3>1 DEF Types, Documented, Documents
    <3>3. UNCHANGED <<referrals, drawn>> /\ Ends(p) /\ (learner' = learner \/ learner' = [learner EXCEPT ![l] = doc])
      BY <2>3 DEF StoreProfile
    <3> QED BY <1>2, <1>4, <3>1, <3>2, <3>3
  <2> QED BY <1>5, <2>1, <2>2, <2>3 DEF Update
<1>6. CASE Password(p)
  <2>1. ASSUME NEW l \in Learners, NEW existing, NEW new, ReadPassword(p, l, existing, new) PROVE RefInv'
    BY <1>1, <2>1 DEF ReadPassword, Chain
  <2>2. ASSUME NEW l \in Learners, NEW token \in Tokens, ForgotPassword(l, token) PROVE RefInv'
    <3> DEFINE doc == [learner[l] EXCEPT !.token = token]
    <3>1. l \in Accounts /\ learner' = [learner EXCEPT ![l] = doc] /\ UNCHANGED <<referrals, exec>>
      BY <2>2 DEF ForgotPassword, Types, Documented
    <3>2. doc \in Documents /\ doc.referredBy = learner[l].referredBy
      BY <3>1 DEF Types, Documented, Documents
    <3>3. Accounts \subseteq Accounts' /\ \A k \in Accounts : learner'[k].referredBy = learner[k].referredBy
      BY <3>1, <3>2, SameDocument
    <3> QED BY <3>1, <3>3 DEF RefInv, Referring, ReferralsBacked, Types, Typed, Chain
  <2>3. ASSUME NEW token, NEW new, FindToken(p, token, new) PROVE RefInv'
    BY <1>1, <2>3 DEF FindToken, Chain
  <2>4. CASE ChangePassword(p) \/ ResetPassword(p)
    <3> DEFINE l == exec[p].learner
               changed == [learner[l] EXCEPT !.password = exec[p].new]
               reset == [changed EXCEPT !.token = None]
    <3>1. l \in Accounts /\ exec[p].new \in Passwords
      BY <2>4 DEF ChangePassword, ResetPassword, At, Types, Typed
    <3>2. /\ changed \in Documents /\ changed.referredBy = learner[l].referredBy
          /\ reset \in Documents /\ reset.referredBy = learner[l].referredBy
      BY <3>1 DEF Types, Documented, Documents
    <3>3. UNCHANGED <<referrals, drawn>> /\ Ends(p)
      BY <2>4 DEF ChangePassword, ResetPassword
    <3>4. learner' = [learner EXCEPT ![l] = changed] \/ learner' = [learner EXCEPT ![l] = reset]
      BY <2>4, <3>1 DEF ChangePassword, ResetPassword, Types, Documented, Accounts
    <3> QED BY <1>4, <3>1, <3>2, <3>3, <3>4
  <2> QED BY <1>6, <2>1, <2>2, <2>3, <2>4 DEF Password
<1>7. CASE Review(p) \/ Dies(p)
  BY <1>1, <1>2, <1>3, <1>7 DEF Review, Dies, CheckReview, CreateReview, GetSummary, StoreRating, Chain
<1> QED BY <1>5, <1>6, <1>7

\* createLearner writes the referral last: a referral stored by a registration
\* that ended or died is backed by the referee's document, for ever.
THEOREM ReferralsStayBacked == ASSUME NoneIsApart PROVE Spec => []ReferralsBacked
<1>1. Init => RefInv
  BY DEF Init, RefInv, ReferralsBacked, Referring, Idle, Chain
<1>2. Types /\ RefInv /\ [Next]_vars => RefInv'
  <2>1. RefInv /\ UNCHANGED vars => RefInv'
    BY DEF vars, RefInv, ReferralsBacked, Referring, Accounts
  <2>2. Types /\ RefInv /\ Next => RefInv'
    BY RegisterRefers, OthersRefer DEF Next
  <2> QED BY <2>1, <2>2
<1>3. RefInv => ReferralsBacked
  BY DEF RefInv
<1> QED BY <1>1, <1>2, <1>3, AlwaysTyped, PTL DEF Spec

-----------------------------------------------------------------------------
(* Tokens *)

\* A token is one learner's, and was drawn; the execution that found it knows
\* whose it is.
Sole == \A k, l \in Accounts : k # l => learner[k].token = None \/ learner[k].token # learner[l].token
Drawn == \A l \in Accounts : learner[l].token \in drawn \cup {None}
Resetting(p) == exec[p].pc = "reset" =>
                  \A k \in Accounts : learner[k].token = exec[p].token => k = exec[p].learner
TokInv == SpentTokenRefused /\ Sole /\ Drawn /\ \A p \in Procs : Resetting(p)

\* A step in which learners keep their tokens or lose them.
KeepTokens(p) ==
  /\ \A q \in Procs \ {p} : exec'[q] = exec[q]
  /\ \A k \in Accounts' : learner'[k].token = None \/ (k \in Accounts /\ learner'[k].token = learner[k].token)
  /\ drawn' = drawn

\* Tokens that are kept or lost stay as they should be.
LEMMA TokensKept ==
  ASSUME NoneIsApart, Types, Types', TokInv, NEW p \in Procs, KeepTokens(p), spent' = spent, exec'[p].pc # "reset"
  PROVE  TokInv'
<1>1. None \notin spent /\ \A q \in Procs : exec[q].pc = "reset" => exec[q].token # None
  BY DEF NoneIsApart, Types, Documented, Typed
<1>2. SpentTokenRefused'
  BY <1>1 DEF KeepTokens, TokInv, SpentTokenRefused
<1>3. Sole' /\ Drawn'
  BY DEF KeepTokens, TokInv, Sole, Drawn
<1>4. ASSUME NEW q \in Procs PROVE Resetting(q)'
  BY <1>1 DEF KeepTokens, TokInv, Resetting
<1> QED BY <1>2, <1>3, <1>4 DEF TokInv

\* Registrations, profiles and reviews keep the tokens, and so does a change
\* of the password.
LEMMA OthersKeepTokens ==
  ASSUME NoneIsApart, Types, Types', TokInv, NEW p \in Procs,
         Register(p) \/ Update(p) \/ ChangePassword(p) \/ Review(p) \/ Dies(p)
           \/ \E l \in Learners, existing, new \in Passwords : ReadPassword(p, l, existing, new)
  PROVE  TokInv'
<1>1. UNCHANGED <<drawn, spent>>
  BY DEF Register, CreateLearner, TryRedeem, FindReferrer, SetReferredBy, CreateReferral, Update, CheckEmail,
         CheckMobile, StoreProfile, ChangePassword, Review, CheckReview, CreateReview, GetSummary, StoreRating,
         Dies, ReadPassword
<1>2. (\A q \in Procs \ {p} : exec'[q] = exec[q]) /\ exec'[p].pc # "reset"
  <2>1. ASSUME NEW e, Become(p, e), e.pc # "reset"
        PROVE  (\A q \in Procs \ {p} : exec'[q] = exec[q]) /\ exec'[p].pc # "reset"
    BY <2>1 DEF Become, Types, Documented
  <2>2. ASSUME NEW pc, pc # "reset", Goto(p, pc)
        PROVE  (\A q \in Procs \ {p} : exec'[q] = exec[q]) /\ exec'[p].pc # "reset"
    <3> DEFINE e == [exec[p] EXCEPT !.pc = pc]
    <3>1. e.pc = pc /\ Become(p, e)
      BY <2>2 DEF Goto
    <3> HIDE DEF e
    <3> QED BY <2>1, <2>2, <3>1
  <2>3. ASSUME Ends(p)
        PROVE  (\A q \in Procs \ {p} : exec'[q] = exec[q]) /\ exec'[p].pc # "reset"
    BY <2>1, <2>3 DEF Ends, Idle
  <2>4. CASE Register(p)
    <3>1. ASSUME NEW l \in Learners, NEW email, NEW mobile, NEW password, NEW referrer,
                 CreateLearner(p, l, email, mobile, password, referrer), exec' = exec
          PROVE  exec[p].pc # "reset"
      BY <3>1 DEF CreateLearner, At
    <3> QED BY <2>1, <2>2, <2>3, <2>4, <3>1 DEF Register, CreateLearner, TryRedeem, FindReferrer, SetReferredBy, CreateReferral
  <2>5. CASE Update(p)
    BY <2>1, <2>2, <2>3, <2>5 DEF Update, CheckEmail, CheckMobile, StoreProfile
  <2>6. CASE ChangePassword(p) \/ Dies(p)
    BY <2>3, <2>6 DEF ChangePassword, Dies
  <2>7. CASE Review(p)
    BY <2>1, <2>2, <2>3, <2>7 DEF Review, CheckReview, CreateReview, GetSummary, StoreRating
  <2>8. ASSUME NEW l \in Learners, NEW existing, NEW new, ReadPassword(p, l, existing, new)
        PROVE  (\A q \in Procs \ {p} : exec'[q] = exec[q]) /\ exec'[p].pc # "reset"
    BY <2>1, <2>8 DEF ReadPassword
  <2> QED BY <2>4, <2>5, <2>6, <2>7, <2>8
<1>3. ASSUME NEW l \in Learners, NEW doc \in Documents, learner' = [learner EXCEPT ![l] = doc],
             doc.token = None \/ (l \in Accounts /\ doc.token = learner[l].token)
      PROVE  KeepTokens(p)
  BY <1>1, <1>2, <1>3, Replaced DEF KeepTokens, Accounts
<1>4. learner' = learner => KeepTokens(p)
  BY <1>1, <1>2 DEF KeepTokens, Accounts
<1>5. KeepTokens(p)
  <2>1. ASSUME NEW l \in Learners, NEW email \in Emails, NEW mobile \in Mobiles, NEW password \in Passwords, NEW referrer,
               CreateLearner(p, l, email, mobile, password, referrer)
        PROVE  KeepTokens(p)
    <3> DEFINE doc == [email |-> email, mobile |-> mobile, password |-> password,
                       token |-> None, referredBy |-> None]
    <3>1. doc \in Documents /\ doc.token = None
      BY DEF Documents
    <3> QED BY <1>3, <1>4, <2>1, <3>1 DEF CreateLearner
  <2>2. CASE SetReferredBy(p)
    <3> DEFINE l == exec[p].learner
               doc == [learner[l] EXCEPT !.referredBy = exec[p].referrer]
    <3>1. l \in Accounts /\ exec[p].referrer \in Accounts
      BY <2>2 DEF SetReferredBy, At, Types, Typed, Chain
    <3>2. doc \in Documents /\ doc.token = learner[l].token /\ l \in Learners
      BY <3>1 DEF Types, Documented, Documents, Accounts
    <3>3. learner' = [learner EXCEPT ![l] = doc]
      BY <2>2, <3>1 DEF SetReferredBy, Types, Documented, Accounts
    <3> QED BY <1>3, <3>1, <3>2, <3>3
  <2>3. CASE StoreProfile(p)
    <3> DEFINE e == exec[p]
               l == e.learner
               doc == [learner[l] EXCEPT !.email = IF e.email = None THEN @ ELSE e.email,
                                         !.mobile = IF e.mobile = None THEN @ ELSE e.mobile]
    <3>1. l \in Accounts /\ l \in Learners /\ e.email \in Emails \cup {None} /\ e.mobile \in Mobiles \cup {None}
      BY <2>3 DEF StoreProfile, At, Types, Typed, Accounts
    <3>2. doc \in Documents /\ doc.token = learner[l].token
      BY <3>1 DEF Types, Documented, Documents
    <3>3. learner' = learner \/ learner' = [learner EXCEPT ![l] = doc]
      BY <2>3 DEF StoreProfile
    <3> QED BY <1>3, <1>4, <3>1, <3>2, <3>3
  <2>4. CASE ChangePassword(p)
    <3> DEFINE l == exec[p].learner
               doc == [learner[l] EXCEPT !.password = exec[p].new]
    <3>1. l \in Accounts /\ l \in Learners /\ exec[p].new \in Passwords
      BY <2>4 DEF ChangePassword, At, Types, Typed, Accounts
    <3>2. doc \in Documents /\ doc.token = learner[l].token
      BY <3>1 DEF Types, Documented, Documents
    <3>3. learner' = [learner EXCEPT ![l] = doc]
      BY <2>4, <3>1 DEF ChangePassword, Types, Documented
    <3> QED BY <1>3, <3>1, <3>2, <3>3
  <2>5. TryRedeem(p) \/ FindReferrer(p) \/ CreateReferral(p) \/ CheckMobile(p) \/ Review(p) \/ Dies(p) => learner' = learner
    BY DEF TryRedeem, FindReferrer, CreateReferral, CheckMobile, Review, CheckReview, CreateReview,
           GetSummary, StoreRating, Dies
  <2>6. ASSUME NEW l, NEW a, NEW b, CheckEmail(p, l, a, b) \/ ReadPassword(p, l, a, b) PROVE learner' = learner
    BY <2>6 DEF CheckEmail, ReadPassword
  <2> QED BY <1>4, <2>1, <2>2, <2>3, <2>4, <2>5, <2>6 DEF Register, Update
<1> QED BY <1>1, <1>2, <1>5, TokensKept

\* The steps of forgotPassword and resetPassword.
LEMMA TokenSteps ==
  ASSUME NoneIsApart, Types, Types', TokInv, NEW p \in Procs,
         \/ \E l \in Learners, token \in Tokens : ForgotPassword(l, token)
         \/ \E token \in Tokens, new \in Passwords : FindToken(p, token, new)
         \/ ResetPassword(p)
  PROVE  TokInv'
<1>1. ASSUME NEW l \in Learners, NEW token \in Tokens, ForgotPassword(l, token) PROVE TokInv'
  <2> DEFINE doc == [learner[l] EXCEPT !.token = token]
  <2>1. l \in Accounts /\ learner' = [learner EXCEPT ![l] = doc] /\ drawn' = drawn \cup {token}
        /\ UNCHANGED <<spent, exec>> /\ token \notin drawn
    BY <1>1 DEF ForgotPassword, Types, Documented
  <2>2. doc \in Documents /\ doc.token = token /\ token # None
    BY <2>1 DEF NoneIsApart, Types, Documented, Documents
  <2>3. Accounts' = Accounts /\ learner'[l].token = token
        /\ \A k \in Accounts \ {l} : learner'[k] = learner[k]
    BY <2>1, <2>2, Replaced DEF Accounts
  <2>4. SpentTokenRefused'
    BY <2>1, <2>3 DEF TokInv, SpentTokenRefused, Types, Documented
  <2>5. Sole' /\ Drawn'
    BY <2>1, <2>2, <2>3 DEF TokInv, Sole, Drawn
  <2>6. \A q \in Procs : Resetting(q)'
    BY <2>1, <2>3 DEF TokInv, Resetting, Types, Typed
  <2> QED BY <2>4, <2>5, <2>6 DEF TokInv
<1>2. ASSUME NEW token \in Tokens, NEW new \in Passwords, FindToken(p, token, new) PROVE TokInv'
  <2>1. PICK l \in Accounts : /\ learner[l].token = token
                              /\ Become(p, [pc |-> "reset", learner |-> l, token |-> token, new |-> new])
    BY <1>2 DEF FindToken
  <2>2. UNCHANGED <<learner, drawn, spent>> /\ Accounts' = Accounts /\ token # None
    BY <1>2 DEF FindToken, Accounts, NoneIsApart
  <2>3. exec'[p].token = token /\ exec'[p].learner = l /\ \A q \in Procs \ {p} : exec'[q] = exec[q]
    BY <2>1 DEF Become, Types, Documented
  <2>4. \A k \in Accounts : learner[k].token = token => k = l
    BY <2>1, <2>2 DEF TokInv, Sole
  <2>5. \A q \in Procs : Resetting(q)'
    BY <2>2, <2>3, <2>4 DEF TokInv, Resetting
  <2> QED BY <2>2, <2>5 DEF TokInv, SpentTokenRefused, Sole, Drawn
<1>3. CASE ResetPassword(p)
  <2> DEFINE l == exec[p].learner
             changed == [learner[l] EXCEPT !.password = exec[p].new]
             doc == [changed EXCEPT !.token = None]
  <2>1. l \in Accounts /\ l \in Learners /\ exec[p].new \in Passwords /\ exec[p].pc = "reset"
    BY <1>3 DEF ResetPassword, At, Types, Typed, Accounts
  <2>2. doc \in Documents /\ doc.token = None
    BY <2>1 DEF Types, Documented, Documents
  <2>3. learner' = [learner EXCEPT ![l] = doc] /\ drawn' = drawn /\ spent' = spent \cup {exec[p].token} /\ Ends(p)
    BY <1>3, <2>1 DEF ResetPassword, Types, Documented
  <2>4. Accounts' = Accounts /\ learner'[l].token = None
        /\ \A k \in Accounts \ {l} : learner'[k] = learner[k]
    BY <2>1, <2>2, <2>3, Replaced DEF Accounts
  <2>5. exec'[p].pc = "idle" /\ \A q \in Procs \ {p} : exec'[q] = exec[q]
    BY <2>3, <2>4, EndTyped
  <2>6. None \notin spent' /\ \A q \in Procs : exec[q].pc = "reset" => exec[q].token # None
    BY DEF NoneIsApart, Types, Documented, Typed
  <2>7. SpentTokenRefused'
    BY <2>1, <2>3, <2>4, <2>6 DEF TokInv, SpentTokenRefused, Resetting
  <2>8. Sole' /\ Drawn'
    BY <2>3, <2>4 DEF TokInv, Sole, Drawn
  <2>9. \A q \in Procs : Resetting(q)'
    BY <2>4, <2>5, <2>6 DEF TokInv, Resetting
  <2> QED BY <2>7, <2>8, <2>9 DEF TokInv
<1> QED BY <1>1, <1>2, <1>3

\* resetPassword answers a token once, whatever changePassword, updateProfile
\* and other resets save to the same document in between.
THEOREM SpentTokensRefused == ASSUME NoneIsApart PROVE Spec => []SpentTokenRefused
<1>1. Init => TokInv
  BY DEF Init, TokInv, SpentTokenRefused, Sole, Drawn, Resetting, Idle, Accounts
<1>2. Types /\ Types' /\ TokInv /\ [Next]_vars => TokInv'
  <2>1. TokInv /\ UNCHANGED vars => TokInv'
    BY DEF vars, TokInv, SpentTokenRefused, Sole, Drawn, Resetting, Accounts
  <2>2. ASSUME Types, Types', TokInv, NEW p \in Procs, Password(p) PROVE TokInv'
    BY <2>2, OthersKeepTokens, TokenSteps DEF Password
  <2>3. ASSUME Types, Types', TokInv, NEW p \in Procs, Register(p) \/ Update(p) \/ Review(p) \/ Dies(p) PROVE TokInv'
    BY <2>3, OthersKeepTokens
  <2> QED BY <2>1, <2>2, <2>3 DEF Next
<1>3. TokInv => SpentTokenRefused
  BY DEF TokInv
<1> QED BY <1>1, <1>2, <1>3, AlwaysTyped, PTL DEF Spec

-----------------------------------------------------------------------------
(* The rating *)

\* A summary of the oldest reviews.
OfReviews(r) == r.total \in 0..Len(reviews) /\ r = SummaryOf(SubSeq(reviews, 1, r.total))
RevInv ==
  /\ reviews \in Seq([lesson : Lessons, stars : Stars])
  /\ exec = [p \in Procs |-> exec[p]]
  /\ OfReviews(rating)
  /\ \A p \in Procs : /\ exec[p].pc = "review" => exec[p].lesson \in Lessons /\ exec[p].stars \in Stars
                      /\ exec[p].pc = "rate" => OfReviews(exec[p].new)

\* The oldest reviews stay the oldest ones.
LEMMA Oldest ==
  ASSUME NEW S, NEW s \in Seq(S), NEW x \in S, NEW n \in 0..Len(s)
  PROVE  /\ Append(s, x) \in Seq(S) /\ Len(Append(s, x)) = Len(s) + 1
         /\ SubSeq(Append(s, x), 1, n) = SubSeq(s, 1, n)
<1>1. Append(s, x) \in Seq(S) /\ Len(Append(s, x)) = Len(s) + 1
  OBVIOUS
<1>2. \A i \in 1..n : Append(s, x)[i] = s[i]
  OBVIOUS
<1>3. SubSeq(Append(s, x), 1, n) = [i \in 1..n |-> Append(s, x)[i]] /\ SubSeq(s, 1, n) = [i \in 1..n |-> s[i]]
  BY <1>1
<1> QED BY <1>1, <1>2, <1>3

\* A summary counts the reviews it is of.
LEMMA SummaryCounts ==
  ASSUME reviews \in Seq([lesson : Lessons, stars : Stars])
  PROVE  OfReviews(SummaryOf(reviews))
<1>1. SubSeq(reviews, 1, Len(reviews)) = reviews
  OBVIOUS
<1>2. SummaryOf(reviews).total = Len(reviews)
  BY DEF SummaryOf
<1>3. Len(reviews) \in 0..Len(reviews)
  OBVIOUS
<1> DEFINE r == SummaryOf(reviews)
<1>4. r = SummaryOf(SubSeq(reviews, 1, r.total))
  BY <1>1, <1>2
<1> HIDE DEF r
<1>5. r.total \in 0..Len(reviews)
  BY <1>2, <1>3 DEF r
<1> QED BY <1>4, <1>5 DEF OfReviews, r

\* A step that leaves the reviews alone.
LEMMA ReviewsKept ==
  ASSUME RevInv, NEW p \in Procs, NEW e, Become(p, e), reviews' = reviews,
         rating' = rating \/ (OfReviews(rating') /\ e.pc = "idle"),
         e.pc = "review" => e.lesson \in Lessons /\ e.stars \in Stars,
         e.pc = "rate" => OfReviews(e.new)
  PROVE  RevInv'
<1>1. exec' = [q \in Procs |-> exec'[q]] /\ exec'[p] = e /\ \A q \in Procs \ {p} : exec'[q] = exec[q]
  BY DEF Become, RevInv
<1>2. \A r : OfReviews(r) => r.total \in 0..Len(reviews') /\ r = SummaryOf(SubSeq(reviews', 1, r.total))
  BY DEF OfReviews
<1>3. OfReviews(rating)'
  BY <1>2 DEF RevInv, OfReviews
<1>4. \A q \in Procs : /\ exec'[q].pc = "review" => exec'[q].lesson \in Lessons /\ exec'[q].stars \in Stars
                       /\ exec'[q].pc = "rate" => OfReviews(exec[q].new)' \/ q = p
  BY <1>1, <1>2 DEF RevInv, OfReviews
<1>5. \A q \in Procs : exec'[q].pc = "rate" => OfReviews(exec[q].new)'
  BY <1>1, <1>2, <1>4 DEF OfReviews
<1> QED BY <1>1, <1>3, <1>4, <1>5 DEF RevInv

\* Every step keeps what the ratings are said to be.
LEMMA RatingStep == ASSUME RevInv, NEW p \in Procs, Register(p) \/ Update(p) \/ Password(p) \/ Review(p) \/ Dies(p)
                    PROVE  RevInv'
<1>1. ASSUME NEW e, Become(p, e), e.pc \notin {"review", "rate"}, UNCHANGED <<reviews, rating>> PROVE RevInv'
  BY <1>1, ReviewsKept
<1>2. ASSUME Ends(p), UNCHANGED <<reviews, rating>> PROVE RevInv'
  BY <1>1, <1>2 DEF Ends, Idle
<1>3. ASSUME NEW pc, pc \notin {"review", "rate"}, Goto(p, pc), UNCHANGED <<reviews, rating>> PROVE RevInv'
  <2> DEFINE e == [exec[p] EXCEPT !.pc = pc]
  <2>1. e.pc = pc /\ Become(p, e)
    BY <1>3 DEF Goto
  <2> HIDE DEF e
  <2> QED BY <1>1, <1>3, <2>1
<1>4. ASSUME UNCHANGED <<reviews, rating, exec>> PROVE RevInv'
  BY <1>4 DEF RevInv, OfReviews
<1>5. CASE Register(p)
  BY <1>1, <1>2, <1>3, <1>4, <1>5 DEF Register, CreateLearner, TryRedeem, FindReferrer, SetReferredBy, CreateReferral
<1>6. CASE Update(p)
  BY <1>1, <1>2, <1>3, <1>6 DEF Update, CheckEmail, CheckMobile, StoreProfile
<1>7. CASE Password(p)
  BY <1>1, <1>2, <1>4, <1>7 DEF Password, ReadPassword, ForgotPassword, FindToken, ChangePassword, ResetPassword
<1>8. CASE Dies(p)
  BY <1>2, <1>8 DEF Dies
<1>9. ASSUME NEW lesson \in Lessons, NEW stars \in Stars, CheckReview(p, lesson, stars) PROVE RevInv'
  BY <1>9, ReviewsKept DEF CheckReview
<1>10. CASE CreateReview(p)
  <2> DEFINE x == [lesson |-> exec[p].lesson, stars |-> exec[p].stars]
             e == [exec[p] EXCEPT !.pc = "summary"]
  <2>1. CASE ~CanReview(exec[p].lesson)
    BY <1>2, <1>10, <2>1 DEF CreateReview
  <2>2. CASE CanReview(exec[p].lesson)
    <3>1. x \in [lesson : Lessons, stars : Stars] /\ reviews' = Append(reviews, x) /\ Become(p, e) /\ rating' = rating
      BY <1>10, <2>2 DEF CreateReview, At, RevInv, Goto
    <3>2. reviews' \in Seq([lesson : Lessons, stars : Stars]) /\ Len(reviews') = Len(reviews) + 1
          /\ \A n \in 0..Len(reviews) : SubSeq(reviews', 1, n) = SubSeq(reviews, 1, n)
      BY <3>1, Oldest DEF RevInv
    <3>3. \A r : OfReviews(r) => r.total \in 0..Len(reviews') /\ r = SummaryOf(SubSeq(reviews', 1, r.total))
      <4> SUFFICES ASSUME NEW r, OfReviews(r)
                   PROVE  r.total \in 0..Len(reviews') /\ r = SummaryOf(SubSeq(reviews', 1, r.total))
        OBVIOUS
      <4>1. r.total \in 0..Len(reviews) /\ r = SummaryOf(SubSeq(reviews, 1, r.total))
        BY DEF OfReviews
      <4>2. Len(reviews) \in Nat
        BY DEF RevInv
      <4>3. r.total \in 0..Len(reviews')
        BY <3>2, <4>1, <4>2
      <4>4. SubSeq(reviews', 1, r.total) = SubSeq(reviews, 1, r.total)
        BY <3>2, <4>1
      <4> QED BY <4>1, <4>3, <4>4
    <3>4. e.pc = "summary"
      OBVIOUS
    <3> HIDE DEF e
    <3>5. exec' = [q \in Procs |-> exec'[q]] /\ exec'[p] = e /\ \A q \in Procs \ {p} : exec'[q] = exec[q]
      BY <3>1 DEF Become, RevInv
    <3>6. OfReviews(rating)'
      BY <3>1, <3>3 DEF RevInv, OfReviews
    <3>7. \A q \in Procs : /\ exec'[q].pc = "review" => exec'[q].lesson \in Lessons /\ exec'[q].stars \in Stars
                           /\ exec'[q].pc = "rate" => OfReviews(exec[q].new)'
      BY <3>3, <3>4, <3>5 DEF RevInv, OfReviews
    <3> QED BY <3>2, <3>5, <3>6, <3>7 DEF RevInv
  <2> QED BY <2>1, <2>2
<1>11. CASE GetSummary(p)
  <2> DEFINE e == [pc |-> "rate", new |-> SummaryOf(reviews)]
  <2>1. Become(p, e) /\ UNCHANGED <<reviews, rating>>
    BY <1>11 DEF GetSummary
  <2>2. OfReviews(SummaryOf(reviews))
    BY SummaryCounts DEF RevInv
  <2> QED BY <2>1, <2>2, ReviewsKept
<1>12. CASE StoreRating(p)
  <2>1. Ends(p) /\ reviews' = reviews /\ rating' = exec[p].new /\ OfReviews(exec[p].new)
    BY <1>12 DEF StoreRating, At, RevInv
  <2>2. OfReviews(rating')
    BY <2>1
  <2> QED BY <2>1, <2>2, ReviewsKept DEF Ends, Idle
<1> QED BY <1>5, <1>6, <1>7, <1>8, <1>9, <1>10, <1>11, <1>12 DEF Review

\* At first there are no reviews, and a rating of none.
LEMMA RatedAtFirst == Init => RevInv
<1> SUFFICES ASSUME Init PROVE RevInv
  OBVIOUS
<1> DEFINE none == [avg |-> 0, total |-> 0]
<1>1. reviews = <<>> /\ rating = none /\ \A p \in Procs : exec[p].pc = "idle"
  BY DEF Init, Idle
<1>2. reviews \in Seq([lesson : Lessons, stars : Stars])
  BY <1>1
<1>3. SummaryOf(reviews) = none
  BY <1>1 DEF SummaryOf
<1>4. OfReviews(rating)
  BY <1>1, <1>2, <1>3, SummaryCounts
<1>5. exec = [p \in Procs |-> exec[p]]
  BY DEF Init
<1> QED BY <1>1, <1>2, <1>4, <1>5 DEF RevInv

\* RevInv in every state.
LEMMA AlwaysRated == Spec => []RevInv
<1>1. Init => RevInv
  BY RatedAtFirst
<1>2. RevInv /\ [Next]_vars => RevInv'
  <2>1. RevInv /\ UNCHANGED vars => RevInv'
    BY DEF vars, RevInv, OfReviews
  <2> QED BY <2>1, RatingStep DEF Next
<1> QED BY <1>1, <1>2, PTL DEF Spec

\* Reviews created at once may leave the rating old, and never wrong.
THEOREM RatingsAreOfReviews == Spec => []RatingIsOfReviews
<1>1. RevInv => RatingIsOfReviews
  BY DEF RevInv, OfReviews, RatingIsOfReviews
<1> QED BY <1>1, AlwaysRated, PTL

-----------------------------------------------------------------------------
(* Types *)

\* Contacts are unique, tokens were drawn, and no lesson has two reviews.
Distinct ==
  /\ \A l \in Accounts : /\ learner[l].token \in drawn \cup {None}
                         /\ Insertable(l, learner[l].email, learner[l].mobile)
  /\ \A j, k \in DOMAIN reviews : j # k => reviews[j].lesson # reviews[k].lesson

\* A document that the unique indexes accept.
Stores(l, doc) == /\ learner' = [learner EXCEPT ![l] = doc]
                  /\ doc.token \in drawn' \cup {None}
                  /\ Insertable(l, doc.email, doc.mobile)

\* A step stores at most one document, which the indexes accept.
LEMMA Documents1 ==
  ASSUME NoneIsApart, Types, Distinct, NEW p \in Procs,
         Register(p) \/ Update(p) \/ Password(p) \/ Review(p) \/ Dies(p)
  PROVE  /\ drawn \subseteq drawn'
         /\ UNCHANGED learner \/ \E l \in Learners, doc \in Documents : Stores(l, doc)
<1> DEFINE Good == /\ drawn \subseteq drawn'
                   /\ UNCHANGED learner \/ \E l \in Learners, doc \in Documents : Stores(l, doc)
<1>1. ASSUME UNCHANGED <<learner, drawn>> PROVE Good
  BY <1>1
<1>2. \A l \in Accounts : l \in Learners /\ learner[l] \in Documents
  BY DEF Types, Documented, Accounts
<1>3. ASSUME NEW l \in Accounts, NEW doc \in Documents, learner' = [learner EXCEPT ![l] = doc],
             doc.email = learner[l].email, doc.mobile = learner[l].mobile,
             doc.token \in drawn' \cup {None} \/ doc.token = learner[l].token, drawn \subseteq drawn'
      PROVE  Good
  BY <1>2, <1>3 DEF Distinct, Stores
<1>4. ASSUME NEW l \in Learners, NEW email \in Emails, NEW mobile \in Mobiles, NEW password \in Passwords,
             NEW referrer \in Learners \cup {None}, CreateLearner(p, l, email, mobile, password, referrer)
      PROVE  Good
  <2> DEFINE doc == [email |-> email, mobile |-> mobile, password |-> password,
                     token |-> None, referredBy |-> None]
  <2>1. drawn' = drawn
    BY <1>4 DEF CreateLearner
  <2>2. CASE Insertable(l, email, mobile)
    <3>1. doc \in Documents /\ Stores(l, doc)
      BY <1>4, <2>2 DEF CreateLearner, Documents, Stores
    <3> QED BY <2>1, <3>1
  <2> QED BY <1>4, <2>1, <2>2 DEF CreateLearner
<1>5. CASE TryRedeem(p) \/ FindReferrer(p) \/ CreateReferral(p) \/ CheckMobile(p) \/ Review(p) \/ Dies(p)
  BY <1>1, <1>5 DEF TryRedeem, FindReferrer, CreateReferral, CheckMobile, Review, CheckReview, CreateReview,
                    GetSummary, StoreRating, Dies
<1>6. CASE SetReferredBy(p)
  <2> DEFINE l == exec[p].learner
             doc == [learner[l] EXCEPT !.referredBy = exec[p].referrer]
  <2>1. l \in Accounts /\ exec[p].referrer \in Accounts \ {l}
    BY <1>6 DEF SetReferredBy, At, Types, Typed, Chain
  <2>2. doc \in Documents /\ learner' = [learner EXCEPT ![l] = doc] /\ drawn' = drawn
    BY <1>2, <1>6, <2>1 DEF SetReferredBy, Types, Documented, Documents
  <2>3. doc.email = learner[l].email /\ doc.mobile = learner[l].mobile /\ doc.token = learner[l].token
    BY <1>2, <2>1 DEF Documents
  <2> HIDE DEF l, doc
  <2> QED BY <1>3, <2>1, <2>2, <2>3
<1>7. CASE StoreProfile(p)
  <2> DEFINE e == exec[p]
             l == e.learner
             doc == [learner[l] EXCEPT !.email = IF e.email = None THEN @ ELSE e.email,
                                       !.mobile = IF e.mobile = None THEN @ ELSE e.mobile]
  <2>1. l \in Accounts /\ e.email \in Emails \cup {None} /\ e.mobile \in Mobiles \cup {None}
    BY <1>7 DEF StoreProfile, At, Types, Typed
  <2>2. doc \in Documents /\ doc.token = learner[l].token
    BY <1>2, <2>1 DEF Documents
  <2>3. drawn' = drawn /\ (UNCHANGED learner \/ (learner' = [learner EXCEPT ![l] = doc] /\ Insertable(l, doc.email, doc.mobile)))
    BY <1>7 DEF StoreProfile
  <2> HIDE DEF l, doc
  <2> QED BY <1>2, <2>1, <2>2, <2>3 DEF Stores, Distinct
<1>8. ASSUME NEW l \in Learners, NEW email \in Emails \cup {None}, NEW mobile \in Mobiles \cup {None},
             CheckEmail(p, l, email, mobile)
      PROVE  Good
  BY <1>1, <1>8 DEF CheckEmail
<1>9. ASSUME NEW l \in Learners, NEW token \in Tokens, ForgotPassword(l, token) PROVE Good
  <2> DEFINE doc == [learner[l] EXCEPT !.token = token]
  <2>1. l \in Accounts /\ learner' = [learner EXCEPT ![l] = doc] /\ drawn' = drawn \cup {token}
    BY <1>9 DEF ForgotPassword, Types, Documented
  <2>2. doc \in Documents /\ doc.email = learner[l].email /\ doc.mobile = learner[l].mobile /\ doc.token = token
    BY <1>2, <2>1 DEF Documents
  <2> HIDE DEF doc
  <2> QED BY <1>3, <2>1, <2>2
<1>10. CASE ChangePassword(p)
  <2> DEFINE l == exec[p].learner
             doc == [learner[l] EXCEPT !.password = exec[p].new]
  <2>1. l \in Accounts /\ exec[p].new \in Passwords
    BY <1>10 DEF ChangePassword, At, Types, Typed
  <2>2. doc \in Documents /\ doc.email = learner[l].email /\ doc.mobile = learner[l].mobile /\ doc.token = learner[l].token
    BY <1>2, <2>1 DEF Documents
  <2>3. learner' = [learner EXCEPT ![l] = doc] /\ drawn' = drawn
    BY <1>10 DEF ChangePassword
  <2> HIDE DEF l, doc
  <2> QED BY <1>3, <2>1, <2>2, <2>3
<1>11. CASE ResetPassword(p)
  <2> DEFINE l == exec[p].learner
             doc == [learner[l] EXCEPT !.password = exec[p].new, !.token = None]
  <2>1. l \in Accounts /\ exec[p].new \in Passwords
    BY <1>11 DEF ResetPassword, At, Types, Typed
  <2>2. doc \in Documents /\ doc.email = learner[l].email /\ doc.mobile = learner[l].mobile /\ doc.token = None
    BY <1>2, <2>1 DEF Documents
  <2>3. learner' = [learner EXCEPT ![l] = doc] /\ drawn' = drawn
    BY <1>2, <1>11, <2>1 DEF ResetPassword, Types, Documented
  <2> HIDE DEF l, doc
  <2> QED BY <1>3, <2>1, <2>2, <2>3
<1>12. ASSUME NEW l \in Learners, NEW existing \in Passwords, NEW new \in Passwords, ReadPassword(p, l, existing, new)
       PROVE  Good
  BY <1>1, <1>12 DEF ReadPassword
<1>13. ASSUME NEW token \in Tokens, NEW new \in Passwords, FindToken(p, token, new) PROVE Good
  BY <1>1, <1>13 DEF FindToken
<1>14. CASE Register(p)
  BY <1>4, <1>5, <1>6, <1>14 DEF Register
<1>15. CASE Update(p)
  BY <1>5, <1>7, <1>8, <1>15 DEF Update
<1>16. CASE Password(p)
  BY <1>9, <1>10, <1>11, <1>12, <1>13, <1>16 DEF Password
<1>17. Good
  BY <1>5, <1>14, <1>15, <1>16
<1> QED BY <1>17 DEF Good

\* A document that the unique indexes accept keeps the contacts unique.
LEMMA StaysDistinct ==
  ASSUME NoneIsApart, Types, Distinct, NEW l \in Learners, NEW doc \in Documents, Stores(l, doc), drawn \subseteq drawn'
  PROVE  \A k \in Accounts' : /\ learner'[k].token \in drawn' \cup {None}
                             /\ Insertable(k, learner[k].email, learner[k].mobile)'
<1>1. /\ Accounts' = Accounts \cup {l}
      /\ learner'[l] = doc /\ \A k \in Learners \ {l} : learner'[k] = learner[k]
  BY Replaced DEF Stores
<1>2. \A k \in Accounts' : learner'[k].token \in drawn' \cup {None}
  BY <1>1 DEF Stores, Distinct, Accounts
<1>3. \A j, k \in Accounts' : j # k => learner'[k].email # learner'[j].email /\ learner'[k].mobile # learner'[j].mobile
  <2> SUFFICES ASSUME NEW j \in Accounts', NEW k \in Accounts', j # k
               PROVE  learner'[k].email # learner'[j].email /\ learner'[k].mobile # learner'[j].mobile
    OBVIOUS
  <2>1. CASE j = l
    BY <1>1, <2>1 DEF Stores, Insertable, Accounts
  <2>2. CASE k = l
    BY <1>1, <2>2 DEF Stores, Insertable, Accounts
  <2>3. CASE j # l /\ k # l
    BY <1>1, <2>3 DEF Distinct, Insertable, Accounts
  <2> QED BY <2>1, <2>2, <2>3
<1> QED BY <1>2, <1>3 DEF Insertable

\* createReview: the unique index refuses a second review of a lesson.
LEMMA ReviewsDistinct ==
  ASSUME RevInv, Distinct, NEW p \in Procs, Register(p) \/ Update(p) \/ Password(p) \/ Review(p) \/ Dies(p)
  PROVE  \A j, k \in DOMAIN reviews' : j # k => reviews'[j].lesson # reviews'[k].lesson
<1>1. CASE UNCHANGED reviews
  BY <1>1 DEF Distinct
<1>2. CASE CreateReview(p) /\ CanReview(exec[p].lesson)
  <2> DEFINE x == [lesson |-> exec[p].lesson, stars |-> exec[p].stars]
  <2>1. x \in [lesson : Lessons, stars : Stars] /\ reviews' = Append(reviews, x)
    BY <1>2 DEF CreateReview, At, RevInv
  <2>2. /\ DOMAIN reviews' = 1..(Len(reviews) + 1) /\ DOMAIN reviews = 1..Len(reviews) /\ Len(reviews) \in Nat
        /\ reviews'[Len(reviews) + 1] = x /\ \A k \in 1..Len(reviews) : reviews'[k] = reviews[k]
    BY <2>1 DEF RevInv
  <2>3. \A k \in 1..Len(reviews) : reviews[k].lesson # x.lesson
    BY <1>2, <2>2 DEF CanReview, Reviewed
  <2>4. \A j, k \in 1..Len(reviews) : j # k => reviews[j].lesson # reviews[k].lesson
    BY <2>2 DEF Distinct
  <2> HIDE DEF x
  <2> QED BY <2>2, <2>3, <2>4
<1>3. UNCHANGED reviews \/ (CreateReview(p) /\ CanReview(exec[p].lesson))
  BY DEF Register, CreateLearner, TryRedeem, FindReferrer, SetReferredBy, CreateReferral,
         Update, CheckEmail, CheckMobile, StoreProfile,
         Password, ReadPassword, ForgotPassword, FindToken, ChangePassword, ResetPassword,
         Review, CheckReview, CreateReview, GetSummary, StoreRating, Dies
<1> QED BY <1>1, <1>2, <1>3

\* Whatever interleaves, the unique indexes hold, and an execution never
\* stores what its document has no field for.
THEOREM AccountsTyped == ASSUME NoneIsApart PROVE Spec => []TypeOK
<1>1. Init => Distinct
  BY DEF Init, Distinct, Accounts
<1>2. Types /\ RevInv /\ Distinct /\ [Next]_vars => Distinct'
  <2> SUFFICES ASSUME Types, RevInv, Distinct, [Next]_vars PROVE Distinct'
    OBVIOUS
  <2>1. CASE UNCHANGED vars
    BY <2>1 DEF vars, Distinct, Accounts, Insertable
  <2>2. ASSUME NEW p \in Procs, Register(p) \/ Update(p) \/ Password(p) \/ Review(p) \/ Dies(p) PROVE Distinct'
    <3>1. drawn \subseteq drawn'
      BY <2>2, Documents1
    <3>2. CASE UNCHANGED learner
      BY <2>2, <3>1, <3>2, ReviewsDistinct DEF Distinct, Accounts, Insertable
    <3>3. CASE \E l \in Learners, doc \in Documents : Stores(l, doc)
      BY <2>2, <3>1, <3>3, StaysDistinct, ReviewsDistinct DEF Distinct
    <3> QED BY <2>2, <3>2, <3>3, Documents1
  <2> QED BY <2>1, <2>2 DEF Next
<1>3. Types /\ RevInv /\ Distinct => TypeOK
  BY DEF Types, Documented, Documents, RevInv, OfReviews, Distinct, TypeOK
<1> QED BY <1>1, <1>2, <1>3, AlwaysTyped, AlwaysRated, PTL DEF Spec
=============================================================================
