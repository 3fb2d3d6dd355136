------------------------------ MODULE Notices -------------------------------
(***************************************************************************)
(* Mail and SMS: what NotificationService sends when a request has done    *)
(* its work, and what becomes of the request when the mail server refuses  *)
(* or the SMS gateway is not configured.                                   *)
(*                                                                         *)
(* A sender is a sequence of calls: a mail, awaited, and for a recipient   *)
(* with a phone number an SMS that is not awaited.  A request is a script: *)
(* writes to the database, and sends which it awaits with a try/catch      *)
(* ("caught"), without ("thrown"), in pairs with allSettled ("settled"),   *)
(* or not at all ("detached").  The wording of the messages, and what the  *)
(* writes are, is left out; the writes succeed here.  A promise rejected   *)
(* with nobody to catch it ends the Node process.                          *)
(***************************************************************************)
EXTENDS SequencesExt, FiniteSets

CONSTANTS Procs, None

VARIABLES
  exec,       \* what each execution has still to do, and its answer
  tasks,      \* promises nobody has awaited yet
  attempted,  \* <<execution, recipient>>: a mail was handed to the server
  configured, \* the SMS gateway's environment variables are set
  up          \* the process runs

vars == <<exec, tasks, attempted, configured, up>>

-----------------------------------------------------------------------------
(* Calls *)

Mail(to) == [by |-> "mail", to |-> to, wait |-> TRUE, caught |-> FALSE]

\* Mutant: the SMS without its .catch.
SmsBare(to) == [by |-> "sms", to |-> to, wait |-> FALSE, caught |-> FALSE]

Sms(to) == [by |-> "sms", to |-> to, wait |-> FALSE, caught |-> TRUE]

\* course.mobileNumber.startsWith of a provider, who has a phone: TypeError.
NoMobileNumber == [by |-> "error", to |-> None, wait |-> TRUE, caught |-> FALSE]

\* smsService.send rejects only when the gateway is not configured; other
\* failures are logged.
Rejects(call) == CASE call.by = "mail" -> BOOLEAN
                   [] call.by = "sms" -> {~configured}
                   [] call.by = "error" -> {TRUE}

-----------------------------------------------------------------------------
(* Senders of NotificationService *)

MailThenSms(to, phone) == IF phone THEN <<Mail(to), Sms(to)>> ELSE <<Mail(to)>>

InstructorWelcome(to)            == <<Mail(to)>>
CourseSignUp(to)                 == <<Mail(to), NoMobileNumber, Sms(to)>>
CourseLeadCustomer(to)           == <<Mail(to)>>
CourseLeadProvider(to)           == <<Mail(to)>>
GiftVoucher(to, phone)           == MailThenSms(to, phone)
VoucherCredited(to, phone)       == MailThenSms(to, phone)
GiftVoucherSent(to, phone)       == MailThenSms(to, phone)
Reschedule(to, phone)            == MailThenSms(to, phone)
NoShow(to, phone)                == MailThenSms(to, phone)
SlotCompleted(to, phone)         == MailThenSms(to, phone)
OrderCreated(learner, instructor) == <<Mail(learner), Mail(instructor)>>
ForgotPassword(to)               == <<Mail(to)>>
SlotCancelled(to, phone)         == MailThenSms(to, phone)
Feedback(to, phone)              == MailThenSms(to, phone)
ContactUs(to, phone)             == MailThenSms(to, phone)
InstructorLead(to)               == <<Mail(to)>>

-----------------------------------------------------------------------------
(* Requests *)

Write         == [do |-> "write", calls |-> <<>>]
Caught(calls) == [do |-> "caught", calls |-> calls]
Thrown(calls) == [do |-> "thrown", calls |-> calls]
Detached(calls) == [do |-> "detached", calls |-> calls]
Settled(calls) == [do |-> "settled", calls |-> calls]

CancelSlot == <<Write, Settled(SlotCancelled("learner", TRUE)), Settled(SlotCancelled("instructor", TRUE))>>
RequestNoShow == <<Write, Caught(NoShow("learner", TRUE)), Caught(NoShow("instructor", TRUE))>>
CompleteSlot == <<Write, Caught(SlotCompleted("learner", TRUE)), Caught(SlotCompleted("instructor", TRUE))>>

\* respondSlotReschedule clears the proposal after the mails.
\* Mutant: one try for both mails.
RespondTogether ==
  <<Write, Caught(Reschedule("learner", TRUE) \o Reschedule("instructor", TRUE)), Write>>

Respond == <<Write, Caught(Reschedule("learner", TRUE)), Caught(Reschedule("instructor", TRUE)), Write>>

Move    == <<Write, Caught(Reschedule("learner", TRUE)), Caught(Reschedule("instructor", FALSE))>>
Propose == <<Write, Caught(Reschedule("learner", TRUE))>>
Order   == <<Write, Caught(OrderCreated("learner", "instructor"))>>

\* activateVoucher redeems for a recipient who is a learner already.
ActivateVoucher(known) ==
  <<Write>> \o (IF known THEN <<Write, Caught(VoucherCredited("learner", FALSE))>> ELSE <<>>)
    \o <<Caught(GiftVoucherSent("sender", FALSE)), Caught(GiftVoucher("recipient", FALSE))>>

RegisterInstructor(paid) ==
  <<Write, Detached(InstructorWelcome("instructor"))>>
    \o (IF paid THEN <<Thrown(InstructorLead("support"))>> ELSE <<>>)
SubmitLead     == <<Write, Thrown(InstructorLead("support"))>>
SubmitFeedback == <<Write, Thrown(Feedback("support", FALSE))>>
SubmitContact  == <<Thrown(ContactUs("support", TRUE))>>
ForgetPassword == <<Caught(ForgotPassword("instructor"))>>
SignUpProvider == <<Write, Detached(CourseSignUp("provider"))>>
CourseLead     == <<Write, Detached(CourseLeadCustomer("learner")), Detached(CourseLeadProvider("provider"))>>

\* Requests that answer with an error when a mail is refused.
Fragile == {RegisterInstructor(TRUE), SubmitLead, SubmitFeedback, SubmitContact}

Scripts == Fragile \cup {CancelSlot, RequestNoShow, CompleteSlot, Respond, Move, Propose, Order,
                         ActivateVoucher(TRUE), ActivateVoucher(FALSE), RegisterInstructor(FALSE),
                         ForgetPassword, SignUpProvider, CourseLead}

-----------------------------------------------------------------------------
Idle == [script |-> <<>>, todo |-> <<>>, answer |-> None]

Init == /\ exec = [p \in Procs |-> Idle]
        /\ tasks = {} /\ attempted = {}
        /\ configured \in BOOLEAN
        /\ up = TRUE

Start(p, script) == /\ exec[p] = Idle
                    /\ exec' = [exec EXCEPT ![p] = [Idle EXCEPT !.script = script, !.todo = script]]
                    /\ UNCHANGED <<tasks, attempted, configured, up>>

Task(p, calls, caught, joined) == [of |-> p, calls |-> calls, caught |-> caught, joined |-> joined]

Drop(p) == exec' = [exec EXCEPT ![p].todo = Tail(@)]

Saves(p) == /\ exec[p].todo # <<>> /\ Head(exec[p].todo).do = "write"
            /\ Drop(p)
            /\ UNCHANGED <<tasks, attempted, configured, up>>

\* The promise is not awaited (detached), or is awaited later (settled).  All
\* detached sends of the services have a .catch.
Launch(p) ==
  /\ exec[p].todo # <<>> /\ Head(exec[p].todo).do \in {"detached", "settled"}
  /\ LET item == Head(exec[p].todo)
     IN  tasks' = tasks \cup {Task(p, item.calls, TRUE, item.do = "settled")}
  /\ Drop(p)
  /\ UNCHANGED <<attempted, configured, up>>

Attempt(p, call) == attempted' = attempted \cup (IF call.by = "mail" THEN {<<p, call.to>>} ELSE {})

\* One call of the send that is awaited: it is made, and not awaited; it is
\* done, and the next one follows; or it rejects, and with it the send.
Call(p) ==
  LET item == Head(exec[p].todo)  call == Head(item.calls) IN
  /\ exec[p].todo # <<>> /\ item.do \in {"caught", "thrown"} /\ item.calls # <<>>
  /\ Attempt(p, call)
  /\ \/ /\ ~call.wait
        /\ tasks' = tasks \cup {Task(p, <<[call EXCEPT !.wait = TRUE]>>, call.caught, FALSE)}
        /\ exec' = [exec EXCEPT ![p].todo[1].calls = Tail(@)]
     \/ /\ call.wait /\ FALSE \in Rejects(call)
        /\ exec' = [exec EXCEPT ![p].todo[1].calls = Tail(@)]
        /\ UNCHANGED tasks
     \/ /\ call.wait /\ TRUE \in Rejects(call)
        /\ IF item.do = "caught" THEN Drop(p)
           ELSE exec' = [exec EXCEPT ![p].todo = <<>>, ![p].answer = "failed"]
        /\ UNCHANGED tasks
  /\ UNCHANGED <<configured, up>>

Sent(p) == /\ exec[p].todo # <<>> /\ Head(exec[p].todo).do \in {"caught", "thrown"}
           /\ Head(exec[p].todo).calls = <<>>
           /\ Drop(p)
           /\ UNCHANGED <<tasks, attempted, configured, up>>

\* The same for a promise that is not awaited.
RunTask(t) ==
  LET call == Head(t.calls)  rest == [t EXCEPT !.calls = Tail(@)] IN
  /\ t.calls # <<>>
  /\ Attempt(t.of, call)
  /\ \/ /\ ~call.wait
        /\ tasks' = (tasks \ {t}) \cup {rest, Task(t.of, <<[call EXCEPT !.wait = TRUE]>>, call.caught, FALSE)}
        /\ UNCHANGED up
     \/ /\ call.wait /\ FALSE \in Rejects(call)
        /\ tasks' = (tasks \ {t}) \cup {rest}
        /\ UNCHANGED up
     \/ /\ call.wait /\ TRUE \in Rejects(call)
        /\ tasks' = tasks \ {t}
        /\ up' = t.caught
  /\ UNCHANGED <<exec, configured>>

Settle(t) == /\ t.calls = <<>> /\ tasks' = tasks \ {t}
             /\ UNCHANGED <<exec, attempted, configured, up>>

\* allSettled: the answer waits for the sends of the pair.
Answer(p) == /\ exec[p].script # <<>> /\ exec[p].todo = <<>> /\ exec[p].answer = None
             /\ \A t \in tasks : t.of = p => ~t.joined
             /\ exec' = [exec EXCEPT ![p].answer = "ok"]
             /\ UNCHANGED <<tasks, attempted, configured, up>>

Next == /\ up
        /\ \/ \E p \in Procs, s \in Scripts : Start(p, s)
           \/ \E p \in Procs : Saves(p) \/ Launch(p) \/ Call(p) \/ Sent(p) \/ Answer(p)
           \/ \E t \in tasks : RunTask(t) \/ Settle(t)

Spec == Init /\ [][Next]_vars

-----------------------------------------------------------------------------
(* Properties *)

\* What an execution has still to do is the end of its script, of whose first
\* item some calls may be made; a promise in the background is of a request
\* that was started.
TypeOK ==
  /\ \A p \in Procs :
       LET e == exec[p]  n == Len(e.script) - Len(e.todo) + 1 IN
       /\ e.script \in Scripts \cup {<<>>} /\ e.answer \in {None, "ok", "failed"}
       /\ Len(e.todo) <= Len(e.script)
       /\ e.todo # <<>> => /\ Tail(e.todo) = SubSeq(e.script, n + 1, Len(e.script))
                           /\ Head(e.todo).do = e.script[n].do
                           /\ IsSuffix(Head(e.todo).calls, e.script[n].calls)
  /\ \A t \in tasks : exec[t.of].script # <<>> /\ t.caught \in BOOLEAN /\ t.joined \in BOOLEAN
  /\ configured \in BOOLEAN /\ up \in BOOLEAN

\* A request is answered with an error only if it is one of the four that await
\* a mail without a try; and of two recipients each was written to although
\* the mail to the other was refused - except for a confirmed order, whose two
\* mails share a try.
AnswerKept ==
  \A p \in Procs :
    /\ exec[p].answer = "failed" => exec[p].script \in Fragile
    /\ exec[p].answer # None =>
         \A i \in DOMAIN exec[p].script : \A k \in DOMAIN exec[p].script[i].calls :
           LET call == exec[p].script[i].calls[k] IN
           call.by = "mail" /\ exec[p].script # Order /\ exec[p].script[i].do # "detached" =>
             <<p, call.to>> \in attempted

\* No message that fails in the background ends the process: what is not
\* awaited is caught.
ProcessSurvives == up
=============================================================================
