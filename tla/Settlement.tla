----------------------------- MODULE Settlement -----------------------------
(***************************************************************************)
(* Money that arrives through Stripe: the payment intents of orders, of    *)
(* wallet top-ups and of gift vouchers, the webhook that settles them, and *)
(* the registration of a voucher's recipient.                              *)
(*                                                                         *)
(* Stripe is external: an open intent may fail any number of times and may *)
(* succeed once, and may then be refunded; each of these emits an event,   *)
(* delivered again until it is answered, possibly once more, in any order. *)
(* One action is one database operation, with the code up to the next      *)
(* await.  creditWallet is its two steps that decide who enters the ledger *)
(* (Wallet shows the rest); the calendar is in module Calendar.            *)
(***************************************************************************)
EXTENDS Naturals, FiniteSets

CONSTANTS
  Orders, Topups, Vouchers,  \* what can be paid for
  Packs,                     \* the orders with lesson hours to credit
  Recipients, RecipientOf,   \* learners who may register, and whose voucher it is
  MaxIntents,                \* how many payment intents each of them may get
  MaxCodes,                  \* activations of one voucher
  Unreliable, MaxFaults,     \* what can fail: attempts to pay it, and deliveries, which
                             \* may throw, die, or come twice; and how many throw or die
  Procs                      \* concurrent executions of handlers

ASSUME PurposesAssumption ==
  /\ Packs \subseteq Orders
  /\ Orders \cap Topups = {} /\ Orders \cap Vouchers = {} /\ Topups \cap Vouchers = {}
  /\ RecipientOf \in [Vouchers -> Recipients]
ASSUME BoundsAssumption == MaxIntents \in [Orders \cup Topups \cup Vouchers -> Nat] /\ MaxCodes \in Nat /\ MaxFaults \in Nat

Payables == Orders \cup Topups \cup Vouchers
IntentsOf(ref) == {ref} \X (1..MaxIntents[ref])
Intents == UNION {IntentsOf(ref) : ref \in Payables}
Ref(i) == i[1]
Events == {"succeeded", "failed", "refunded"} \X Intents

\* The idempotencyKey of a wallet entry: intent.id, `refund-${charge.id}`, code.
Keys == {"intent", "refund"} \X Intents \cup {"code"} \X (Vouchers \X (1..MaxCodes))

VARIABLES
  intent,      \* Stripe's payment intents
  emitted,     \* events Stripe has to deliver
  acked,       \* those it got an answer to
  payment,     \* Payment documents: status, and whether stripeChargeId is stored
  order,       \* status, paymentStatus = PAID, walletCredited > 0
  voucher,     \* status, and which of the generated codes is stored (0: none)
  registered,  \* the learners that exist
  entries,     \* the idempotencyKeys of the wallet ledger
  proc,        \* the executions
  faults       \* deliveries that failed so far

vars == <<intent, emitted, acked, payment, order, voucher, registered, entries, proc, faults>>
stripe == <<intent, emitted>>
documents == <<payment, order, voucher, registered, entries>>

NoKey == <<"none">>
Idle == [pc |-> "idle", job |-> <<"none">>, key |-> NoKey, was |-> "none", credited |-> FALSE]

OrderStatus == {"PENDING_PAYMENT", "CONFIRMING", "CONFIRMED", "CANCELLED", "REFUNDED"}
VoucherStatus == {"NONE", "PENDING", "PAYMENT_PENDING", "ACTIVE", "FAILED", "REDEEMED"}
Jobs == Events \cup {"pay"} \X Payables \cup {"paid"} \X Intents
        \cup {"register"} \X Recipients \cup {<<"none">>}

\* The documents keep the schemas' types, and an execution knows what it is for.
TypeOK ==
  /\ intent \in [Intents -> {"none", "open", "succeeded", "refunded"}]
  /\ acked \subseteq emitted /\ emitted \subseteq Events
  /\ payment \in [Intents -> [status : {"NONE", "INITIATED", "SUCCESS", "FAILED"},
                              charge : BOOLEAN]]
  /\ order \in [Orders -> [status : OrderStatus, paid : BOOLEAN, credited : BOOLEAN]]
  /\ voucher \in [Vouchers -> [status : VoucherStatus, code : 0..MaxCodes]]
  /\ registered \subseteq Recipients
  /\ entries \subseteq Keys
  /\ \A p \in Procs : /\ DOMAIN proc[p] = DOMAIN Idle
                      /\ proc[p].job \in Jobs
                      /\ proc[p].key \in Keys \cup {NoKey}
                      /\ proc[p].pc \in {"check", "create"} => proc[p].key # NoKey
  /\ faults \in 0..MaxFaults

Init ==
  /\ intent = [i \in Intents |-> "none"]
  /\ emitted = {} /\ acked = {}
  /\ payment = [i \in Intents |-> [status |-> "NONE", charge |-> FALSE]]
  /\ order = [o \in Orders |-> [status |-> "PENDING_PAYMENT", paid |-> FALSE, credited |-> FALSE]]
  /\ voucher = [v \in Vouchers |-> [status |-> "NONE", code |-> 0]]
  /\ registered = {} /\ entries = {}
  /\ proc = [p \in Procs |-> Idle]
  /\ faults = 0

-----------------------------------------------------------------------------
(* Executions *)

Start(p, pc, job) == /\ proc[p].pc = "idle"
                     /\ proc' = [proc EXCEPT ![p] = [Idle EXCEPT !.pc = pc, !.job = job]]
At(p, pc) == proc[p].pc = pc
Kind(p) == proc[p].job[1]
Intent(p) == proc[p].job[2]
Goto(p, pc) == proc' = [proc EXCEPT ![p].pc = pc] /\ UNCHANGED acked

\* The handler returns; Stripe is answered when it was a delivery.
Finish(p) == /\ proc' = [proc EXCEPT ![p] = Idle]
             /\ acked' = acked \cup (emitted \cap {proc[p].job})

\* Mutant: the error is caught, and Stripe is told that all went well.
ThrowQuietly(p) == Finish(p)

\* The handler throws: Stripe gets an error, and will deliver again.
Throw(p) == /\ proc' = [proc EXCEPT ![p] = Idle]
            /\ acked' = acked \ {proc[p].job}

\* A delivery dies, or throws where no catch follows (Stripe or the database
\* does not answer).
Fault(p) ==
  /\ faults < MaxFaults
  /\ proc[p].job \in Events
  /\ Ref(Intent(p)) \in Unreliable
  /\ faults' = faults + 1
  /\ Throw(p)
  /\ UNCHANGED <<stripe, documents>>

-----------------------------------------------------------------------------
(* Payment intents *)

\* createVoucher stores no code, which the unique index treats as a value: a
\* second voucher without one is refused.
CreateVoucher(v) ==
  /\ voucher[v].status = "NONE"
  /\ \A u \in Vouchers : voucher[u].status # "NONE" => voucher[u].code # 0
  /\ voucher' = [voucher EXCEPT ![v].status = "PENDING"]
  /\ UNCHANGED <<stripe, acked, payment, order, registered, entries, proc, faults>>

Payable(ref) == /\ ref \in Orders => order[ref].status = "PENDING_PAYMENT"
                /\ ref \in Vouchers => voucher[ref].status = "PENDING"

\* createOrderPaymentIntent, createWalletTopupIntent, createGiftVoucherPaymentIntent
StartPayment(p, ref) ==
  /\ Payable(ref)
  /\ Start(p, IF ref \in Vouchers THEN "lockVoucher" ELSE "createIntent", <<"pay", ref>>)
  /\ UNCHANGED <<stripe, acked, documents, faults>>

LockVoucher(p) ==
  /\ At(p, "lockVoucher")
  /\ voucher' = [voucher EXCEPT ![Intent(p)].status = "PAYMENT_PENDING"]
  /\ Goto(p, "createIntent")
  /\ UNCHANGED <<stripe, payment, order, registered, entries, faults>>

CreateIntent(p) ==
  /\ At(p, "createIntent")
  /\ \E i \in IntentsOf(Intent(p)) :
       /\ intent[i] = "none"
       /\ \A k \in 1..(i[2] - 1) : intent[<<Ref(i), k>>] # "none"
       /\ intent' = [intent EXCEPT ![i] = "open"]
       /\ proc' = [proc EXCEPT ![p] = IF Ref(i) \in Topups THEN Idle ELSE
            [Idle EXCEPT !.pc = "createPayment", !.job = <<"paid", i>>]]
  /\ UNCHANGED <<emitted, acked, documents, faults>>

\* Bound: no intent is left for it.
NoIntentLeft(p) ==
  /\ At(p, "createIntent")
  /\ \A i \in IntentsOf(Intent(p)) : intent[i] # "none"
  /\ Throw(p)
  /\ UNCHANGED <<stripe, documents, faults>>

CreatePayment(p) ==
  /\ At(p, "createPayment")
  /\ payment' = [payment EXCEPT ![Intent(p)].status = "INITIATED"]
  /\ Finish(p)
  /\ UNCHANGED <<stripe, order, voucher, registered, entries, faults>>

-----------------------------------------------------------------------------
(* Stripe *)

Emit(kind, i) == emitted' = emitted \cup {<<kind, i>>}

Fails(i) == /\ intent[i] = "open"
            /\ Ref(i) \in Unreliable
            /\ Emit("failed", i)
            /\ UNCHANGED <<intent, acked, documents, proc, faults>>

Succeeds(i) == /\ intent[i] = "open"
               /\ intent' = [intent EXCEPT ![i] = "succeeded"]
               /\ Emit("succeeded", i)
               /\ UNCHANGED <<acked, documents, proc, faults>>

Refunds(i) == /\ intent[i] = "succeeded"
              /\ intent' = [intent EXCEPT ![i] = "refunded"]
              /\ Emit("refunded", i)
              /\ UNCHANGED <<acked, documents, proc, faults>>

Deliver(p, e) == /\ e \in emitted
                 /\ \/ Ref(e[2]) \in Unreliable
                    \/ e \notin acked /\ \A q \in Procs : proc[q].job # e
                 /\ Start(p, e[1], e)
                 /\ UNCHANGED <<stripe, acked, documents, faults>>

-----------------------------------------------------------------------------
(* handleWebhook *)

\* findOneAndUpdate of the payment: nothing happens when there is none.
Update(p, status, charge) ==
  payment' = [payment EXCEPT ![Intent(p)] =
    IF @.status = "NONE" THEN @ ELSE [status |-> status, charge |-> @.charge \/ charge]]

With(p, pc, key) == /\ proc' = [proc EXCEPT ![p].pc = pc, ![p].key = key]
                    /\ UNCHANGED acked

\* Mutant: a top-up is credited without an idempotencyKey.
RecordSuccessUnkeyed(p) ==
  /\ At(p, "succeeded")
  /\ Update(p, "SUCCESS", TRUE)
  /\ LET ref == Ref(Intent(p))
     IN  Goto(p, CASE ref \in Topups -> "check" [] ref \in Orders -> "lock" [] OTHER -> "activate")
  /\ UNCHANGED <<stripe, order, voucher, registered, entries, faults>>

RecordSuccess(p) ==
  /\ At(p, "succeeded")
  /\ Update(p, "SUCCESS", TRUE)
  /\ LET ref == Ref(Intent(p))
     IN  With(p, CASE ref \in Topups -> "check" [] ref \in Orders -> "lock" [] OTHER -> "activate",
              <<"intent", Intent(p)>>)
  /\ UNCHANGED <<stripe, order, voucher, registered, entries, faults>>

\* Mutant: a failed top-up or voucher is taken for a paid one.
RecordFailureAsPaid(p) ==
  /\ At(p, "failed")
  /\ Update(p, "FAILED", FALSE)
  /\ LET ref == Ref(Intent(p))
     IN  With(p, IF ref \in Topups THEN "check" ELSE IF ref \in Orders THEN "undo" ELSE "activate",
              <<"intent", Intent(p)>>)
  /\ UNCHANGED <<stripe, order, voucher, registered, entries, faults>>

RecordFailure(p) ==
  /\ At(p, "failed")
  /\ Update(p, "FAILED", FALSE)
  /\ Goto(p, "undo")
  /\ UNCHANGED <<stripe, order, voucher, registered, entries, faults>>

\* The order is CANCELLED or the voucher FAILED, whatever happened to it since.
Undo(p) ==
  /\ At(p, "undo")
  /\ LET ref == Ref(Intent(p))
     IN  /\ order' = IF ref \in Orders THEN [order EXCEPT ![ref].status = "CANCELLED"] ELSE order
         /\ voucher' = IF ref \in Vouchers THEN [voucher EXCEPT ![ref].status = "FAILED"] ELSE voucher
  /\ Finish(p)
  /\ UNCHANGED <<stripe, payment, registered, entries, faults>>

\* Only the payment of an order leads on from a charge.
FindRefunded(p) ==
  /\ At(p, "refunded")
  /\ IF payment[Intent(p)].charge /\ Ref(Intent(p)) \in Orders
     THEN With(p, "check", <<"refund", Intent(p)>>)
     ELSE Finish(p)
  /\ UNCHANGED <<stripe, documents, faults>>

MarkRefunded(p) ==
  /\ At(p, "markRefunded")
  /\ order' = [order EXCEPT ![Ref(Intent(p))].status = "REFUNDED"]
  /\ Finish(p)
  /\ UNCHANGED <<stripe, payment, voucher, registered, entries, faults>>

\* handlePublicOrderSuccess: the lock, and what follows when it is refused.
LockOrder(p) ==
  /\ At(p, "lock")
  /\ LET o == Ref(Intent(p))
         locked == ~order[o].paid /\ order[o].status # "CONFIRMING"
     IN  /\ order' = IF locked THEN [order EXCEPT ![o].status = "CONFIRMING"] ELSE order
         /\ proc' = [proc EXCEPT ![p].pc = IF locked THEN "attach" ELSE "reload",
                                 ![p].credited = order[o].credited]
  /\ UNCHANGED <<stripe, acked, payment, voucher, registered, entries, faults>>

ReloadOrder(p) ==
  /\ At(p, "reload")
  /\ IF order[Ref(Intent(p))].paid
     THEN Finish(p)
     ELSE /\ proc' = [proc EXCEPT ![p].pc = "relock", ![p].was = order[Ref(Intent(p))].status,
                                  ![p].credited = order[Ref(Intent(p))].credited]
          /\ UNCHANGED acked
  /\ UNCHANGED <<stripe, documents, faults>>

\* Mutant: the delivery that finds the lock taken leaves the credit to the other.
ForceLockUncredited(p) ==
  /\ At(p, "relock")
  /\ order' = [order EXCEPT ![Ref(Intent(p))].status = "CONFIRMING"]
  /\ proc' = [proc EXCEPT ![p].pc = "attach", ![p].credited = TRUE]
  /\ UNCHANGED <<stripe, acked, payment, voucher, registered, entries, faults>>

ForceLock(p) ==
  /\ At(p, "relock")
  /\ order' = [order EXCEPT ![Ref(Intent(p))].status =
                 IF proc[p].was = "CONFIRMING" THEN @ ELSE "CONFIRMING"]
  /\ Goto(p, "attach")
  /\ UNCHANGED <<stripe, payment, voucher, registered, entries, faults>>

\* The lessons are attached to the calendar; that save may throw.
Attach(p) ==
  /\ At(p, "attach")
  /\ Goto(p, IF Ref(Intent(p)) \in Packs /\ ~proc[p].credited THEN "check" ELSE "save")
  /\ UNCHANGED <<stripe, documents, faults>>

AttachFails(p) ==
  /\ At(p, "attach")
  /\ faults < MaxFaults
  /\ Ref(Intent(p)) \in Unreliable
  /\ faults' = faults + 1
  /\ Goto(p, "rollback")
  /\ UNCHANGED <<stripe, documents>>

SaveOrder(p) ==
  /\ At(p, "save")
  /\ order' = [order EXCEPT ![Ref(Intent(p))] =
       [status |-> "CONFIRMED", paid |-> TRUE, credited |-> @.credited \/ Ref(Intent(p)) \in Packs]]
  /\ Finish(p)
  /\ UNCHANGED <<stripe, payment, voucher, registered, entries, faults>>

\* Mutant: the rollback forgets the payment, too.
RollbackPayment(p) ==
  /\ At(p, "rollback")
  /\ order' = [order EXCEPT ![Ref(Intent(p))].status = "PENDING_PAYMENT",
                            ![Ref(Intent(p))].paid = FALSE]
  /\ Throw(p)
  /\ UNCHANGED <<stripe, payment, voucher, registered, entries, faults>>

Rollback(p) ==
  /\ At(p, "rollback")
  /\ order' = [order EXCEPT ![Ref(Intent(p))].status = "PENDING_PAYMENT"]
  /\ Throw(p)
  /\ UNCHANGED <<stripe, payment, voucher, registered, entries, faults>>

-----------------------------------------------------------------------------
(* Gift vouchers *)

\* activateVoucher: a new code, whatever the status is.
Activate(p) ==
  /\ At(p, "activate")
  /\ LET v == Ref(Intent(p))
     IN  /\ voucher[v].code < MaxCodes
         /\ voucher' = [voucher EXCEPT ![v] = [status |-> "ACTIVE", code |-> @.code + 1]]
  /\ Goto(p, "lookup")
  /\ UNCHANGED <<stripe, payment, order, registered, entries, faults>>

\* Bound: no code is left for it.
NoCodeLeft(p) ==
  /\ At(p, "activate")
  /\ voucher[Ref(Intent(p))].code = MaxCodes
  /\ Throw(p)
  /\ UNCHANGED <<stripe, documents, faults>>

CodeOf(v) == <<"code", <<v, voucher[v].code>>>>

\* Mutant: only registration redeems.
FindNoLearner(p) ==
  /\ At(p, "lookup")
  /\ Finish(p)
  /\ UNCHANGED <<stripe, documents, faults>>

\* tryRedeemForExistingLearner ...
FindLearner(p) ==
  /\ At(p, "lookup")
  /\ LET v == Ref(Intent(p))
     IN  IF RecipientOf[v] \in registered THEN With(p, "redeem", CodeOf(v)) ELSE Finish(p)
  /\ UNCHANGED <<stripe, documents, faults>>

\* ... and createLearner, with tryRedeemForLearner: one ACTIVE voucher, if any.
Register(p, r) ==
  /\ r \notin registered
  /\ registered' = registered \cup {r}
  /\ Start(p, "findVoucher", <<"register", r>>)
  /\ UNCHANGED <<stripe, acked, payment, order, voucher, entries, faults>>

FindVoucher(p) ==
  /\ At(p, "findVoucher")
  /\ LET found == {v \in Vouchers : RecipientOf[v] = proc[p].job[2] /\ voucher[v].status = "ACTIVE"}
     IN  IF found = {} THEN Finish(p) ELSE \E v \in found : With(p, "redeem", CodeOf(v))
  /\ UNCHANGED <<stripe, documents, faults>>

\* redeemVoucher: one conditional update, then the credit.
Redeem(p) ==
  /\ At(p, "redeem")
  /\ LET v == proc[p].key[2][1]
     IN  IF voucher[v].status = "ACTIVE"
         THEN /\ voucher' = [voucher EXCEPT ![v].status = "REDEEMED"]
              /\ With(p, "check", CodeOf(v))
         ELSE Finish(p) /\ UNCHANGED voucher
  /\ UNCHANGED <<stripe, payment, order, registered, entries, faults>>

-----------------------------------------------------------------------------
(* creditWallet, and what its callers do next *)

Then(p) == CASE Kind(p) = "succeeded" /\ Ref(Intent(p)) \in Orders -> Goto(p, "save")
             [] Kind(p) = "refunded" -> Goto(p, "markRefunded")
             [] OTHER -> Finish(p)

CheckEntry(p) ==
  /\ At(p, "check")
  /\ IF proc[p].key \in entries THEN Then(p) ELSE Goto(p, "create")
  /\ UNCHANGED <<stripe, documents, faults>>

CreateEntry(p) ==
  /\ At(p, "create")
  /\ proc[p].key \notin entries
  /\ entries' = entries \cup {proc[p].key}
  /\ Then(p)
  /\ UNCHANGED <<stripe, payment, order, voucher, registered, faults>>

\* The unique index on idempotencyKey.
DuplicateEntry(p) ==
  /\ At(p, "create")
  /\ proc[p].key \in entries
  /\ IF Kind(p) = "succeeded" /\ Ref(Intent(p)) \in Orders THEN Goto(p, "rollback") ELSE Throw(p)
  /\ UNCHANGED <<stripe, documents, faults>>

-----------------------------------------------------------------------------

PaymentStep(p) ==
  \/ \E ref \in Payables : StartPayment(p, ref)
  \/ LockVoucher(p) \/ CreateIntent(p) \/ NoIntentLeft(p) \/ CreatePayment(p)

WebhookStep(p) ==
  \/ RecordSuccess(p) \/ RecordFailure(p) \/ Undo(p) \/ FindRefunded(p) \/ MarkRefunded(p)
  \/ LockOrder(p) \/ ReloadOrder(p) \/ ForceLock(p) \/ Attach(p) \/ AttachFails(p)
  \/ SaveOrder(p) \/ Rollback(p)

VoucherStep(p) == Activate(p) \/ NoCodeLeft(p) \/ FindLearner(p) \/ FindVoucher(p) \/ Redeem(p)

EntryStep(p) == CheckEntry(p) \/ CreateEntry(p) \/ DuplicateEntry(p)

\* The steps of an execution that has started.
Continue(p) == WebhookStep(p) \/ VoucherStep(p) \/ EntryStep(p)

Next ==
  \/ \E p \in Procs : \/ PaymentStep(p) \/ Continue(p) \/ Fault(p)
                      \/ \E e \in emitted : Deliver(p, e)
                      \/ \E r \in Recipients : Register(p, r)
  \/ \E i \in Intents : Fails(i) \/ Succeeds(i) \/ Refunds(i)
  \/ \E v \in Vouchers : CreateVoucher(v)

Spec == Init /\ [][Next]_vars

\* Executions go on; Stripe keeps delivering what was not answered, and the
\* server is free for it often enough.
Fairness ==
  /\ \A p \in Procs : WF_vars(Continue(p) \/ (PaymentStep(p) /\ ~At(p, "idle")))
  /\ SF_vars(\E p \in Procs, e \in emitted \ acked : Deliver(p, e))
FairSpec == Spec /\ Fairness

-----------------------------------------------------------------------------
(* Properties *)

\* Every entry of the wallet's ledger is backed by money Stripe took (or gave
\* back) for that very intent, or by a success Stripe announced for that
\* voucher: no failure, retry or late event makes the webhook create money.
Backed(key) ==
  CASE key[1] = "intent" -> intent[key[2]] \in {"succeeded", "refunded"}
    [] key[1] = "refund" -> intent[key[2]] = "refunded"
    [] key[1] = "code" -> \E i \in IntentsOf(key[2][1]) : <<"succeeded", i>> \in emitted
CreditsBacked == \A key \in entries : Backed(key)

\* A paid lesson pack is in the wallet: PAID is never stored without the entry
\* of an intent of that order, whichever delivery fails, dies or comes twice.
PaidIsCredited ==
  \A o \in Packs : order[o].paid => \E i \in IntentsOf(o) : <<"intent", i>> \in entries

\* paymentStatus never goes back from PAID: late failures, refunds and the
\* rollback of a parallel delivery change the status only.
PaidForever == [][\A o \in Orders : order[o].paid => order'[o].paid]_vars

\* A recipient who registers while the voucher is being activated is credited
\* by one of the two: when nothing is under way and nothing has failed, no
\* voucher of a registered learner waits for a redemption nobody tries again.
\* Registration redeems one voucher: a second one for the recipient may wait.
Only(v) == \A u \in Vouchers \ {v} : RecipientOf[u] = RecipientOf[v] => voucher[u].status = "NONE"
Quiet == (\A p \in Procs : proc[p].pc = "idle") /\ emitted \subseteq acked
RegisteredRedeemed ==
  Quiet /\ faults = 0 =>
    \A v \in Vouchers : voucher[v].status = "ACTIVE" /\ Only(v) => RecipientOf[v] \notin registered

\* Once Stripe took the money of a top-up or an order, the wallet is credited
\* or the order is PAID some day, although deliveries fail and die.
Settled(i) == IF Ref(i) \in Orders THEN order[Ref(i)].paid ELSE <<"intent", i>> \in entries
Unsettled == {i \in Intents : Ref(i) \notin Vouchers /\ intent[i] = "succeeded" /\ ~Settled(i)}
EventuallySettled == Unsettled # {} ~> Unsettled = {}
=============================================================================
