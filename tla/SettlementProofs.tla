-------------------------- MODULE SettlementProofs --------------------------
(***************************************************************************)
(* Theorems about Settlement: types, credits only for money Stripe took,   *)
(* paid packs credited, PAID for ever, and vouchers of registered          *)
(* recipients redeemed - for any number of orders, top-ups, vouchers,      *)
(* intents, executions and failures.                                       *)
(***************************************************************************)
EXTENDS Settlement, TLAPS

Awaits == {"idle", "lockVoucher", "createIntent", "createPayment", "succeeded", "failed", "undo",
           "refunded", "markRefunded", "lock", "reload", "relock", "attach", "save", "rollback",
           "activate", "lookup", "findVoucher", "redeem", "check", "create"}
Statuses == OrderStatus \cup {"none"}
Execution == [pc : Awaits, job : Jobs, key : Keys \cup {NoKey}, was : Statuses, credited : BOOLEAN]

\* The types of all but the executions.
Store ==
  /\ intent \in [Intents -> {"none", "open", "succeeded", "refunded"}]
  /\ acked \subseteq emitted /\ emitted \subseteq Events
  /\ payment \in [Intents -> [status : {"NONE", "INITIATED", "SUCCESS", "FAILED"},
                              charge : BOOLEAN]]
  /\ order \in [Orders -> [status : OrderStatus, paid : BOOLEAN, credited : BOOLEAN]]
  /\ voucher \in [Vouchers -> [status : VoucherStatus, code : 0..MaxCodes]]
  /\ registered \subseteq Recipients
  /\ entries \subseteq Keys
  /\ faults \in 0..MaxFaults

\* What Stripe announced is so.
Announced ==
  \A i \in Intents : /\ <<"succeeded", i>> \in emitted => intent[i] \in {"succeeded", "refunded"}
                     /\ <<"refunded", i>> \in emitted => intent[i] = "refunded"

Bought(v) == \E i \in IntentsOf(v) : <<"succeeded", i>> \in emitted
Credited(o) == \E i \in IntentsOf(o) : <<"intent", i>> \in entries

\* What justifies a wallet entry, and stays so: an event Stripe announced.
Due(key) == /\ key[1] = "intent" => <<"succeeded", key[2]>> \in emitted
            /\ key[1] = "refund" => <<"refunded", key[2]>> \in emitted
            /\ key[1] = "code" => Bought(key[2][1])

ActiveBought == \A v \in Vouchers : voucher[v].status = "ACTIVE" => voucher[v].code # 0 /\ Bought(v)
PacksCredited == \A o \in Packs : order[o].credited \/ order[o].paid => Credited(o)
EntriesDue == \A key \in entries : Due(key)

\* What an execution knows at the await it is at.
Paying(p) ==
  /\ At(p, "lockVoucher") => Kind(p) = "pay" /\ Intent(p) \in Vouchers
  /\ At(p, "createIntent") => Kind(p) = "pay" /\ Intent(p) \in Payables
  /\ At(p, "createPayment") => Kind(p) = "paid" /\ Intent(p) \in Intents
  /\ At(p, "findVoucher") => Kind(p) = "register"
Delivered(p, kind) == /\ Kind(p) = kind
                      /\ Intent(p) \in Intents
                      /\ <<kind, Intent(p)>> \in emitted
Confirming(p) == /\ Delivered(p, "succeeded")
                 /\ Ref(Intent(p)) \in Orders
                 /\ proc[p].key = <<"intent", Intent(p)>>
Delivery(p) ==
  /\ At(p, "succeeded") => Delivered(p, "succeeded")
  /\ At(p, "failed") \/ At(p, "undo") => Delivered(p, "failed")
  /\ At(p, "refunded") => Delivered(p, "refunded")
  /\ At(p, "markRefunded") => Delivered(p, "refunded") /\ Ref(Intent(p)) \in Orders
  /\ At(p, "activate") \/ At(p, "lookup") => Delivered(p, "succeeded") /\ Ref(Intent(p)) \in Vouchers
  /\ At(p, "lookup") => voucher[Ref(Intent(p))].code # 0
  /\ At(p, "lock") \/ At(p, "reload") \/ At(p, "relock") \/ At(p, "attach")
     \/ At(p, "save") \/ At(p, "rollback") => Confirming(p)
Crediting(p) ==
  /\ At(p, "redeem") \/ At(p, "check") \/ At(p, "create") => proc[p].key \in Keys /\ Due(proc[p].key)
  /\ At(p, "redeem") => proc[p].key[1] = "code" /\ proc[p].key[2][1] \in Vouchers
  /\ At(p, "redeem") => Kind(p) = "register" \/ (Kind(p) = "succeeded" /\ Ref(Intent(p)) \in Vouchers)
  /\ At(p, "check") \/ At(p, "create") =>
       \/ Kind(p) = "register"
       \/ Kind(p) = "succeeded" /\ Ref(Intent(p)) \in Topups \cup Vouchers
       \/ Delivered(p, "refunded") /\ Ref(Intent(p)) \in Orders
       \/ Confirming(p)
  /\ At(p, "attach") \/ At(p, "relock") =>
       (Ref(Intent(p)) \in Packs /\ proc[p].credited => Credited(Ref(Intent(p))))
  /\ At(p, "save") => (Ref(Intent(p)) \in Packs => Credited(Ref(Intent(p))))
OK(p) == Paying(p) /\ Delivery(p) /\ Crediting(p)

IInv == /\ Store
        /\ Announced /\ ActiveBought /\ PacksCredited /\ EntriesDue
        /\ proc \in [Procs -> Execution]
        /\ \A p \in Procs : OK(p)

-----------------------------------------------------------------------------

\* What the type says of an intent.
LEMMA IntentFacts ==
  /\ \A i \in Intents : Ref(i) \in Payables /\ i \in IntentsOf(Ref(i))
  /\ \A ref \in Payables : IntentsOf(ref) \subseteq Intents
<1>1. ASSUME NEW i \in Intents PROVE Ref(i) \in Payables /\ i \in IntentsOf(Ref(i))
  <2>1. PICK ref \in Payables : i \in IntentsOf(ref)
    BY DEF Intents
  <2>2. i[1] = ref
    BY <2>1 DEF IntentsOf
  <2> QED BY <2>1, <2>2 DEF Ref
<1>2. ASSUME NEW ref \in Payables PROVE IntentsOf(ref) \subseteq Intents
  BY DEF Intents
<1> QED BY <1>1, <1>2

\* What the type says of a key.
LEMMA KeyFacts ==
  /\ \A i \in Intents : <<"intent", i>> \in Keys /\ <<"refund", i>> \in Keys
  /\ \A v \in Vouchers, n \in 1..MaxCodes : <<"code", <<v, n>>>> \in Keys
BY DEF Keys

\* What the type says of an execution.
LEMMA JobFacts ==
  /\ \A kind \in {"succeeded", "failed", "refunded"}, i \in Intents : <<kind, i>> \in Jobs
  /\ \A ref \in Payables : <<"pay", ref>> \in Jobs
  /\ \A i \in Intents : <<"paid", i>> \in Jobs
  /\ \A r \in Recipients : <<"register", r>> \in Jobs
  /\ <<"none">> \in Jobs
BY DEF Jobs, Events

\* An idle execution is one.
LEMMA IdleOK == Idle \in Execution
<1> DEFINE J == <<"none">>
<1>1. J \in Jobs
  BY JobFacts
<1>2. Idle = [pc |-> "idle", job |-> J, key |-> NoKey, was |-> "none", credited |-> FALSE]
  BY DEF Idle
<1>3. "idle" \in Awaits /\ "none" \in Statuses
  BY DEF Awaits, Statuses
<1> HIDE DEF J
<1> QED BY <1>1, <1>2, <1>3 DEF Execution

\* What the invariant is for.
LEMMA IInvImplies == IInv => TypeOK /\ CreditsBacked /\ PaidIsCredited
<1> SUFFICES ASSUME IInv PROVE TypeOK /\ CreditsBacked /\ PaidIsCredited
  OBVIOUS
<1>1. TypeOK
  <2>1. ASSUME NEW p \in Procs
        PROVE  /\ DOMAIN proc[p] = DOMAIN Idle
               /\ proc[p].job \in Jobs
               /\ proc[p].key \in Keys \cup {NoKey}
    <3>1. proc[p] \in Execution
      BY DEF IInv
    <3> QED BY <3>1 DEF Execution, Idle
  <2>2. NoKey \notin Keys
    BY DEF NoKey, Keys
  <2>3. ASSUME NEW p \in Procs, proc[p].pc \in {"check", "create"} PROVE proc[p].key # NoKey
    BY <2>2, <2>3 DEF IInv, OK, Crediting, At
  <2> QED BY <2>1, <2>3 DEF IInv, Store, TypeOK
<1>2. CreditsBacked
  <2> SUFFICES ASSUME NEW key \in entries PROVE Backed(key)
    BY DEF CreditsBacked
  <2>1. Due(key) /\ key \in Keys
    BY DEF IInv, Store, EntriesDue
  <2>2. CASE key[1] = "intent"
    <3>1. key[2] \in Intents
      BY <2>1, <2>2 DEF Keys
    <3> QED BY <2>1, <2>2, <3>1 DEF Due, Backed, IInv, Announced
  <2>3. CASE key[1] = "refund"
    <3>1. key[2] \in Intents
      BY <2>1, <2>3 DEF Keys
    <3> QED BY <2>1, <2>3, <3>1 DEF Due, Backed, IInv, Announced
  <2>4. CASE key[1] = "code"
    BY <2>1, <2>4 DEF Due, Backed, Bought
  <2>5. key[1] \in {"intent", "refund", "code"}
    BY <2>1 DEF Keys
  <2> QED BY <2>2, <2>3, <2>4, <2>5
<1>3. PaidIsCredited
  BY DEF IInv, PacksCredited, Credited, PaidIsCredited
<1> QED BY <1>1, <1>2, <1>3

\* It holds at first.
LEMMA InitIInv == Init => IInv
<1> SUFFICES ASSUME Init PROVE IInv
  OBVIOUS
<1>1. Store
  BY PurposesAssumption, BoundsAssumption DEF Init, Store, OrderStatus, VoucherStatus
<1>2. Announced /\ EntriesDue
  BY DEF Init, Announced, EntriesDue
<1>3. ActiveBought /\ PacksCredited
  BY PurposesAssumption DEF Init, ActiveBought, PacksCredited
<1>4. proc \in [Procs -> Execution]
  BY IdleOK DEF Init
<1>5. ASSUME NEW p \in Procs PROVE OK(p)
  <2>1. proc[p].pc = "idle"
    BY DEF Init, Idle
  <2> QED BY <2>1 DEF OK, Paying, Delivery, Crediting, At
<1> QED BY <1>1, <1>2, <1>3, <1>4, <1>5 DEF IInv
-----------------------------------------------------------------------------

\* What was announced, entered and generated stays so.
Grows == /\ emitted \subseteq emitted' /\ entries \subseteq entries'
         /\ \A v \in Vouchers : voucher[v].code # 0 => voucher'[v].code # 0

\* An execution that does not move keeps what the invariant says of it.
LEMMA Stays ==
  ASSUME Grows, NEW p \in Procs, proc'[p] = proc[p], OK(p)
  PROVE  OK(p)'
<1> USE DEF Grows
<1>1. \A v : Bought(v) => Bought(v)'
  BY DEF Bought, IntentsOf
<1>2. \A o : Credited(o) => Credited(o)'
  BY DEF Credited, IntentsOf
<1>3. \A key : Due(key) => Due(key)'
  BY <1>1 DEF Due
<1>4. \A kind : Delivered(p, kind) => Delivered(p, kind)'
  BY DEF Delivered, Kind, Intent
<1>5. Confirming(p) => Confirming(p)'
  BY <1>4 DEF Confirming, Intent
<1>6. \A pc : At(p, pc)' <=> At(p, pc)
  BY DEF At
<1>7. Paying(p)'
  BY <1>6 DEF OK, Paying, Kind, Intent
<1>8. Delivery(p)'
  BY <1>4, <1>5, <1>6 DEF OK, Delivery, Intent
<1>9. Crediting(p)'
  BY <1>2, <1>3, <1>4, <1>5, <1>6 DEF OK, Crediting, Intent, Kind
<1> QED BY <1>7, <1>8, <1>9 DEF OK

\* Only p has moved.
Changed(p) == /\ proc' \in [Procs -> Execution]
              /\ \A q \in Procs \ {p} : proc'[q] = proc[q]

\* What is left to show of the step of one execution.
LEMMA OneStep ==
  ASSUME IInv, Grows, NEW p \in Procs, Changed(p), OK(p)'
  PROVE  proc' \in [Procs -> Execution] /\ \A q \in Procs : OK(q)'
<1>1. ASSUME NEW q \in Procs \ {p} PROVE OK(q)'
  BY <1>1, Stays DEF IInv, Changed
<1> QED BY <1>1 DEF Changed

\* An execution that ends, answering Stripe or not.
LEMMA Idles ==
  ASSUME IInv, NEW p \in Procs, Finish(p) \/ Throw(p)
  PROVE  Changed(p) /\ acked' \subseteq emitted /\ OK(p)'
<1>1. proc' = [proc EXCEPT ![p] = Idle] /\ acked' \subseteq emitted
  BY DEF Finish, Throw, IInv, Store
<1>2. proc'[p] = Idle /\ Changed(p)
  BY <1>1, IdleOK DEF IInv, Changed
<1>3. OK(p)'
  BY <1>2 DEF OK, Paying, Delivery, Crediting, At, Idle
<1> QED BY <1>1, <1>2, <1>3

\* An execution that goes on to another await.
LEMMA GoesOn ==
  ASSUME IInv, NEW p \in Procs, \E pc \in Awaits : Goto(p, pc)
  PROVE  /\ Changed(p) /\ acked' = acked /\ proc'[p].job = proc[p].job
         /\ proc'[p].key = proc[p].key /\ proc'[p].credited = proc[p].credited
<1>1. PICK pc \in Awaits : Goto(p, pc)
  OBVIOUS
<1>2. proc[p] \in Execution /\ proc \in [Procs -> Execution]
  BY DEF IInv
<1>3. proc' = [proc EXCEPT ![p] = [proc[p] EXCEPT !.pc = pc]]
  BY <1>1 DEF Goto
<1>4. [proc[p] EXCEPT !.pc = pc] \in Execution
  BY <1>2 DEF Execution
<1>5. proc'[p] = [proc[p] EXCEPT !.pc = pc] /\ Changed(p)
  BY <1>2, <1>3, <1>4 DEF Changed
<1> QED BY <1>1, <1>2, <1>5 DEF Goto, Execution

\* An execution goes on to its next await; its request and what it credited stay.
LEMMA Carries ==
  ASSUME IInv, NEW p \in Procs, \E pc \in Awaits, key \in Keys : With(p, pc, key)
  PROVE  /\ Changed(p) /\ acked' = acked /\ proc'[p].job = proc[p].job
         /\ proc'[p].credited = proc[p].credited
<1>1. PICK pc \in Awaits, key \in Keys : With(p, pc, key)
  OBVIOUS
<1>2. proc[p] \in Execution /\ proc \in [Procs -> Execution]
  BY DEF IInv
<1>3. proc' = [proc EXCEPT ![p] = [proc[p] EXCEPT !.pc = pc, !.key = key]]
  BY <1>1 DEF With
<1>4. [proc[p] EXCEPT !.pc = pc, !.key = key] \in Execution
  BY <1>2 DEF Execution
<1>5. proc'[p] = [proc[p] EXCEPT !.pc = pc, !.key = key] /\ Changed(p)
  BY <1>2, <1>3, <1>4 DEF Changed
<1> QED BY <1>1, <1>2, <1>5 DEF With, Execution

\* An execution that starts is at its first await, with its request.
LEMMA Starts ==
  ASSUME IInv, NEW p \in Procs, NEW pc \in Awaits, NEW job \in Jobs, Start(p, pc, job)
  PROVE  Changed(p) /\ proc'[p].pc = pc /\ proc'[p].job = job
<1> DEFINE e == [Idle EXCEPT !.pc = pc, !.job = job]
<1>1. e \in Execution
  BY IdleOK DEF Execution
<1>2. e.pc = pc /\ e.job = job
  BY DEF Idle
<1>3. proc' = [proc EXCEPT ![p] = e]
  BY DEF Start
<1> HIDE DEF e
<1>4. proc'[p] = e /\ Changed(p)
  BY <1>1, <1>3 DEF IInv, Changed
<1> QED BY <1>2, <1>4

\* The value that a Goto or a With stores.
LEMMA Stored ==
  ASSUME IInv, NEW p \in Procs
  PROVE  /\ \A pc : Goto(p, pc) => proc'[p].pc = pc
         /\ \A pc, key : With(p, pc, key) => proc'[p].pc = pc /\ proc'[p].key = key
<1>1. proc[p] \in Execution /\ proc \in [Procs -> Execution]
  BY DEF IInv
<1> QED BY <1>1 DEF Goto, With, Execution

\* The facts about the documents, where a step leaves them alone.
Documented == Store /\ Announced /\ ActiveBought /\ PacksCredited /\ EntriesDue

\* A step that leaves the gateway and the documents alone.
LEMMA Undisturbed ==
  ASSUME IInv, UNCHANGED <<stripe, documents>>, acked' \subseteq emitted, faults' \in 0..MaxFaults
  PROVE  Documented' /\ Grows
<1> USE DEF IInv, stripe, documents
<1>1. Store' /\ Grows
  BY DEF Store, Grows
<1>2. Announced' /\ ActiveBought'
  BY DEF Announced, ActiveBought, Bought
<1>3. PacksCredited' /\ EntriesDue'
  BY DEF PacksCredited, Credited, EntriesDue, Due, Bought
<1> QED BY <1>1, <1>2, <1>3 DEF Documented

\* A step of one execution that only moves it.
LEMMA Keeps ==
  ASSUME IInv, NEW p \in Procs, Changed(p), OK(p)',
         UNCHANGED <<stripe, documents>>, acked' \subseteq emitted, faults' \in 0..MaxFaults
  PROVE  IInv'
<1>1. Documented' /\ Grows
  BY Undisturbed
<1> QED BY <1>1, OneStep DEF IInv, Documented, Changed

\* An execution that ends, well or not, keeps the invariant.
LEMMA KeepsIdle ==
  ASSUME IInv, NEW p \in Procs, Finish(p) \/ Throw(p),
         UNCHANGED <<stripe, documents>>, faults' \in 0..MaxFaults
  PROVE  IInv'
BY Idles, Keeps

VouchersKept ==
  \A v \in Vouchers : /\ voucher[v].code # 0 => voucher'[v].code # 0
                      /\ voucher'[v].status = "ACTIVE" => voucher'[v].code # 0 /\ Bought(v)

\* A step that changes vouchers, and makes none ACTIVE that was not bought.
LEMMA VoucherOnly ==
  ASSUME IInv, NEW p \in Procs, Changed(p), OK(p)', acked' \subseteq emitted,
         UNCHANGED <<stripe, payment, order, registered, entries, faults>>,
         voucher' \in [Vouchers -> [status : VoucherStatus, code : 0..MaxCodes]],
         VouchersKept
  PROVE  IInv'
<1> USE DEF stripe, VouchersKept
<1>1. Grows /\ Store'
  BY DEF IInv, Grows, Store
<1>2. Announced' /\ ActiveBought'
  BY DEF IInv, Announced, ActiveBought, Bought
<1>3. PacksCredited' /\ EntriesDue'
  BY DEF IInv, PacksCredited, Credited, EntriesDue, Due, Bought
<1> QED BY <1>1, <1>2, <1>3, OneStep DEF IInv, Changed

\* A step that changes payments.
LEMMA PaymentOnly ==
  ASSUME IInv, NEW p \in Procs, Changed(p), OK(p)', acked' \subseteq emitted,
         UNCHANGED <<stripe, order, voucher, registered, entries, faults>>,
         payment' \in [Intents -> [status : {"NONE", "INITIATED", "SUCCESS", "FAILED"}, charge : BOOLEAN]]
  PROVE  IInv'
<1> USE DEF stripe
<1>1. Grows /\ Store'
  BY DEF IInv, Grows, Store
<1>2. Announced' /\ ActiveBought'
  BY DEF IInv, Announced, ActiveBought, Bought
<1>3. PacksCredited' /\ EntriesDue'
  BY DEF IInv, PacksCredited, Credited, EntriesDue, Due, Bought
<1> QED BY <1>1, <1>2, <1>3, OneStep DEF IInv, Changed

\* A step that changes orders, and none that was not credited to PAID.
LEMMA OrderOnly ==
  ASSUME IInv, NEW p \in Procs, Changed(p), OK(p)', acked' \subseteq emitted,
         UNCHANGED <<stripe, payment, voucher, registered, entries, faults>>,
         order' \in [Orders -> [status : OrderStatus, paid : BOOLEAN, credited : BOOLEAN]],
         \A o \in Packs : order'[o].credited \/ order'[o].paid => Credited(o)
  PROVE  IInv'
<1> USE DEF stripe
<1>1. Grows /\ Store'
  BY DEF IInv, Grows, Store
<1>2. Announced' /\ ActiveBought'
  BY DEF IInv, Announced, ActiveBought, Bought
<1>3. PacksCredited' /\ EntriesDue'
  BY DEF IInv, PacksCredited, Credited, EntriesDue, Due, Bought
<1> QED BY <1>1, <1>2, <1>3, OneStep DEF IInv, Changed

-----------------------------------------------------------------------------
(* One lemma per group of actions *)

\* A step of the payments.
LEMMA PaymentIInv ==
  ASSUME IInv, NEW p \in Procs, PaymentStep(p)
  PROVE  IInv'
<1>1. CASE \E ref \in Payables : StartPayment(p, ref)
  <2>1. PICK ref \in Payables : StartPayment(p, ref)
    BY <1>1
  <2> DEFINE pc == IF ref \in Vouchers THEN "lockVoucher" ELSE "createIntent"
             e == [Idle EXCEPT !.pc = pc, !.job = <<"pay", ref>>]
  <2>2. proc' = [proc EXCEPT ![p] = e] /\ UNCHANGED <<stripe, acked, documents, faults>>
    BY <2>1 DEF StartPayment, Start
  <2>3. e \in Execution /\ e.pc = pc /\ e.job = <<"pay", ref>>
    <3> DEFINE j == <<"pay", ref>>
    <3>1. j \in Jobs /\ pc \in Awaits
      BY JobFacts DEF Awaits
    <3> HIDE DEF j, pc
    <3>2. [Idle EXCEPT !.pc = pc, !.job = j] \in Execution
      BY <3>1, IdleOK DEF Execution
    <3>3. [Idle EXCEPT !.pc = pc, !.job = j].pc = pc /\ [Idle EXCEPT !.pc = pc, !.job = j].job = j
      BY DEF Idle
    <3> QED BY <3>2, <3>3 DEF j
  <2> HIDE DEF e
  <2>4. proc'[p] = e /\ Changed(p)
    BY <2>2, <2>3 DEF Changed, IInv
  <2>5. OK(p)'
    <3>1. proc'[p].pc = pc /\ proc'[p].job[1] = "pay" /\ proc'[p].job[2] = ref
      BY <2>3, <2>4
    <3> QED BY <3>1 DEF OK, Paying, Delivery, Crediting, At, Kind, Intent
  <2> QED BY <2>2, <2>4, <2>5, Keeps DEF IInv, Store
<1>2. CASE LockVoucher(p)
  <2>1. Kind(p) = "pay" /\ Intent(p) \in Vouchers
    BY <1>2 DEF LockVoucher, IInv, OK, Paying
  <2>2. Goto(p, "createIntent") /\ "createIntent" \in Awaits
    BY <1>2 DEF LockVoucher, Awaits
  <2>3. Changed(p) /\ acked' = acked /\ proc'[p].job = proc[p].job /\ proc'[p].pc = "createIntent"
    BY <2>2, GoesOn, Stored
  <2>4. OK(p)'
    BY <2>1, <2>3 DEF OK, Paying, Delivery, Crediting, At, Kind, Intent, Payables
  <2> DEFINE v == Intent(p)
  <2>5. voucher' = [voucher EXCEPT ![v].status = "PAYMENT_PENDING"]
        /\ UNCHANGED <<stripe, payment, order, registered, entries, faults>>
    BY <1>2 DEF LockVoucher
  <2>6. \A u \in Vouchers : /\ voucher'[u].code = voucher[u].code
                            /\ voucher'[u].status = "ACTIVE" => voucher[u].status = "ACTIVE"
    BY <2>1, <2>5 DEF IInv, Store
  <2>7. voucher' \in [Vouchers -> [status : VoucherStatus, code : 0..MaxCodes]]
    BY <2>1, <2>5 DEF IInv, Store, VoucherStatus
  <2>8. acked' \subseteq emitted /\ VouchersKept
    BY <2>3, <2>6 DEF IInv, Store, ActiveBought, VouchersKept
  <2> QED BY <2>3, <2>4, <2>5, <2>7, <2>8, VoucherOnly
<1>3. CASE CreateIntent(p)
  <2>1. Intent(p) \in Payables
    BY <1>3 DEF CreateIntent, IInv, OK, Paying
  <2>2. PICK i \in IntentsOf(Intent(p)) :
               /\ intent[i] = "none"
               /\ intent' = [intent EXCEPT ![i] = "open"]
               /\ proc' = [proc EXCEPT ![p] = IF Ref(i) \in Topups THEN Idle ELSE
                    [Idle EXCEPT !.pc = "createPayment", !.job = <<"paid", i>>]]
    BY <1>3 DEF CreateIntent
  <2>3. i \in Intents
    BY <2>1, <2>2, IntentFacts
  <2>4. UNCHANGED <<emitted, acked, documents, faults>>
    BY <1>3 DEF CreateIntent
  <2>5. Announced' /\ intent' \in [Intents -> {"none", "open", "succeeded", "refunded"}]
    BY <2>2, <2>3, <2>4 DEF IInv, Store, Announced
  <2>6. Store' /\ Grows /\ ActiveBought' /\ PacksCredited' /\ EntriesDue'
    BY <2>4, <2>5 DEF IInv, Store, Grows, documents, ActiveBought, PacksCredited, EntriesDue,
                      Bought, Credited, Due
  <2> DEFINE e == [Idle EXCEPT !.pc = "createPayment", !.job = <<"paid", i>>]
  <2>7. e \in Execution /\ e.pc = "createPayment" /\ e.job = <<"paid", i>>
    <3> DEFINE j == <<"paid", i>>
    <3>1. j \in Jobs /\ "createPayment" \in Awaits
      BY <2>3, JobFacts DEF Awaits
    <3> HIDE DEF j
    <3>2. [Idle EXCEPT !.pc = "createPayment", !.job = j] \in Execution
      BY <3>1, IdleOK DEF Execution
    <3>3. /\ [Idle EXCEPT !.pc = "createPayment", !.job = j].pc = "createPayment"
          /\ [Idle EXCEPT !.pc = "createPayment", !.job = j].job = j
      BY DEF Idle
    <3> QED BY <3>2, <3>3 DEF j
  <2> HIDE DEF e
  <2>8. Changed(p) /\ (proc'[p] = Idle \/ proc'[p] = e)
    <3>1. proc' = [proc EXCEPT ![p] = IF Ref(i) \in Topups THEN Idle ELSE e]
      BY <2>2 DEF e
    <3> QED BY <3>1, <2>7, IdleOK DEF Changed, IInv
  <2>9. OK(p)'
    <3>1. CASE proc'[p] = Idle
      BY <3>1 DEF OK, Paying, Delivery, Crediting, At, Idle
    <3>2. CASE proc'[p] = e
      <4>1. proc'[p].pc = "createPayment" /\ proc'[p].job[1] = "paid" /\ proc'[p].job[2] = i
        BY <2>7, <3>2
      <4> QED BY <2>3, <4>1 DEF OK, Paying, Delivery, Crediting, At, Kind, Intent
    <3> QED BY <2>8, <3>1, <3>2
  <2> QED BY <2>5, <2>6, <2>8, <2>9, OneStep DEF IInv
<1>4. CASE NoIntentLeft(p)
  BY <1>4, KeepsIdle DEF NoIntentLeft, IInv, Store
<1>5. CASE CreatePayment(p)
  <2> DEFINE i == Intent(p)
  <2>1. i \in Intents
    BY <1>5 DEF CreatePayment, IInv, OK, Paying
  <2>2. payment' = [payment EXCEPT ![i].status = "INITIATED"] /\ Finish(p)
        /\ UNCHANGED <<stripe, order, voucher, registered, entries, faults>>
    BY <1>5 DEF CreatePayment
  <2> HIDE DEF i
  <2>3. payment' \in [Intents -> [status : {"NONE", "INITIATED", "SUCCESS", "FAILED"}, charge : BOOLEAN]]
    BY <2>1, <2>2 DEF IInv, Store
  <2> QED BY <2>2, <2>3, Idles, PaymentOnly
<1> QED BY <1>1, <1>2, <1>3, <1>4, <1>5 DEF PaymentStep

\* An order of which only the status is written.
StatusOnly(o) == \E status \in OrderStatus : order' = [order EXCEPT ![o].status = status]

\* To leave an order alone is to write the status it has.
LEMMA StatusSame ==
  ASSUME IInv, NEW o \in Orders, order' = order
  PROVE  StatusOnly(o)
<1>1. order[o] \in [status : OrderStatus, paid : BOOLEAN, credited : BOOLEAN]
  BY DEF IInv, Store
<1> DEFINE status == order[o].status
<1>2. status \in OrderStatus
  BY <1>1
<1>3. order = [order EXCEPT ![o].status = status]
  BY <1>1 DEF IInv, Store
<1> QED BY <1>2, <1>3 DEF StatusOnly

\* To write a status keeps the types of orders and the credit of packs.
LEMMA StatusKeeps ==
  ASSUME IInv, NEW o \in Orders, StatusOnly(o)
  PROVE  /\ order' \in [Orders -> [status : OrderStatus, paid : BOOLEAN, credited : BOOLEAN]]
         /\ \A u \in Packs : order'[u].credited \/ order'[u].paid => Credited(u)
<1>1. PICK status \in OrderStatus : order' = [order EXCEPT ![o].status = status]
  BY DEF StatusOnly
<1>2. order' \in [Orders -> [status : OrderStatus, paid : BOOLEAN, credited : BOOLEAN]]
  BY <1>1 DEF IInv, Store
<1>3. \A u \in Packs : order'[u].credited = order[u].credited /\ order'[u].paid = order[u].paid
  BY <1>1, PurposesAssumption DEF IInv, Store
<1> QED BY <1>2, <1>3 DEF IInv, PacksCredited

\* An order that is updated has its type.
LEMMA UpdateType ==
  ASSUME IInv, NEW p \in Procs, Intent(p) \in Intents,
         Update(p, "SUCCESS", TRUE) \/ Update(p, "FAILED", FALSE)
  PROVE  payment' \in [Intents -> [status : {"NONE", "INITIATED", "SUCCESS", "FAILED"}, charge : BOOLEAN]]
<1> PICK i \in Intents : i = Intent(p)
  OBVIOUS
<1> DEFINE old == payment[i]
           success == IF old.status = "NONE" THEN old ELSE [status |-> "SUCCESS", charge |-> old.charge \/ TRUE]
           failure == IF old.status = "NONE" THEN old ELSE [status |-> "FAILED", charge |-> old.charge \/ FALSE]
           T == [status : {"NONE", "INITIATED", "SUCCESS", "FAILED"}, charge : BOOLEAN]
<1>1. old \in T /\ payment \in [Intents -> T]
  BY DEF IInv, Store
<1>2. success \in T /\ failure \in T
  <2>1. (old.charge \/ TRUE) \in BOOLEAN /\ (old.charge \/ FALSE) \in BOOLEAN
    OBVIOUS
  <2> QED BY <1>1, <2>1
<1>3. payment' = [payment EXCEPT ![i] = success] \/ payment' = [payment EXCEPT ![i] = failure]
  BY DEF Update
<1> HIDE DEF T, success, failure, old
<1>4. payment' \in [Intents -> T]
  BY <1>1, <1>2, <1>3
<1> QED BY <1>4 DEF T

\* A voucher's code is a key.
LEMMA VoucherCode ==
  ASSUME IInv, NEW v \in Vouchers, voucher[v].code # 0
  PROVE  CodeOf(v) \in Keys
<1>1. voucher[v].code \in 1..MaxCodes
  BY BoundsAssumption DEF IInv, Store
<1> QED BY <1>1, KeyFacts DEF CodeOf

\* What follows the entry, for the caller that finds it made.
LEMMA ThenOK ==
  ASSUME IInv, NEW p \in Procs, At(p, "check") \/ At(p, "create"), Then(p),
         UNCHANGED <<emitted, order>>, entries \subseteq entries', proc[p].key \in entries'
  PROVE  Changed(p) /\ OK(p)' /\ acked' \subseteq emitted
<1> PICK i : i = Intent(p)
  OBVIOUS
<1>0. Crediting(p) /\ acked \subseteq emitted
  BY DEF IInv, OK, Store
<1>1. CASE Kind(p) = "succeeded" /\ Ref(i) \in Orders
  <2>1. Confirming(p)
    BY <1>0, <1>1, PurposesAssumption DEF Crediting, Delivered
  <2>2. Goto(p, "save") /\ "save" \in Awaits
    BY <1>1 DEF Then, Awaits
  <2>3. Changed(p) /\ acked' = acked /\ proc'[p].job = proc[p].job
        /\ proc'[p].pc = "save" /\ proc'[p].key = proc[p].key
    BY <2>2, GoesOn, Stored
  <2>4. Credited(Ref(i))'
    BY <2>1, IntentFacts DEF Confirming, Delivered, Credited
  <2>5. OK(p)'
    BY <2>1, <2>3, <2>4
    DEF OK, Paying, Delivery, Crediting, At, Confirming, Delivered, Kind, Intent
  <2> QED BY <1>0, <2>3, <2>5
<1>2. CASE Kind(p) = "refunded"
  <2>1. Delivered(p, "refunded") /\ Ref(i) \in Orders
    BY <1>0, <1>2 DEF Crediting, Confirming, Delivered
  <2>2. Goto(p, "markRefunded") /\ "markRefunded" \in Awaits
    BY <1>2 DEF Then, Awaits
  <2>3. Changed(p) /\ acked' = acked /\ proc'[p].job = proc[p].job
        /\ proc'[p].pc = "markRefunded" /\ proc'[p].key = proc[p].key
    BY <2>2, GoesOn, Stored
  <2>4. OK(p)'
    BY <2>1, <2>3
    DEF OK, Paying, Delivery, Crediting, At, Delivered, Kind, Intent
  <2> QED BY <1>0, <2>3, <2>4
<1>3. CASE ~(Kind(p) = "succeeded" /\ Ref(i) \in Orders) /\ Kind(p) # "refunded"
  BY <1>3, Idles DEF Then
<1> QED BY <1>1, <1>2, <1>3

\* The steps of the webhook that touch no document.
LEMMA LookingIInv ==
  ASSUME IInv, NEW p \in Procs,
         \/ FindRefunded(p) \/ ReloadOrder(p) \/ Attach(p) \/ AttachFails(p) \/ NoCodeLeft(p)
         \/ FindLearner(p) \/ FindVoucher(p) \/ CheckEntry(p) \/ DuplicateEntry(p) \/ Fault(p)
  PROVE  IInv'
<1> PICK i : i = Intent(p)
  OBVIOUS
<1>0. acked \subseteq emitted /\ OK(p) /\ proc[p] \in Execution /\ faults \in 0..MaxFaults
  BY DEF IInv, Store
<1>1. CASE FindRefunded(p)
  <2>1. Delivered(p, "refunded")
    BY <1>0, <1>1 DEF FindRefunded, OK, Delivery
  <2>2. UNCHANGED <<stripe, documents, faults>>
    BY <1>1 DEF FindRefunded
  <2>3. CASE payment[i].charge /\ Ref(i) \in Orders
    <3>1. With(p, "check", <<"refund", i>>) /\ "check" \in Awaits /\ <<"refund", i>> \in Keys
      BY <1>1, <2>1, <2>3, KeyFacts DEF FindRefunded, Delivered, Awaits
    <3>2. Changed(p) /\ acked' = acked /\ proc'[p].job = proc[p].job
          /\ proc'[p].pc = "check" /\ proc'[p].key = <<"refund", i>>
      BY <3>1, Carries, Stored
    <3>3. Due(<<"refund", i>>)'
      BY <2>1, <2>2 DEF Due, Delivered, stripe
    <3>4. OK(p)'
      BY <2>1, <2>2, <2>3, <3>1, <3>2, <3>3
      DEF OK, Paying, Delivery, Crediting, At, Delivered, Kind, Intent, stripe
    <3> QED BY <1>0, <2>2, <3>2, <3>4, Keeps
  <2>4. CASE ~(payment[i].charge /\ Ref(i) \in Orders)
    BY <1>0, <1>1, <2>2, <2>4, KeepsIdle DEF FindRefunded
  <2> QED BY <2>3, <2>4
<1>2. CASE ReloadOrder(p)
  <2>1. Confirming(p)
    BY <1>0, <1>2 DEF ReloadOrder, OK, Delivery
  <2>2. UNCHANGED <<stripe, documents, faults>>
    BY <1>2 DEF ReloadOrder
  <2> DEFINE o == order[Ref(i)]
  <2>3. CASE o.paid
    BY <1>0, <1>2, <2>2, <2>3, KeepsIdle DEF ReloadOrder
  <2>4. CASE ~o.paid
    <3>1. proc' = [proc EXCEPT ![p].pc = "relock", ![p].was = o.status, ![p].credited = o.credited]
          /\ acked' = acked
      BY <1>2, <2>4 DEF ReloadOrder
    <3>2. o.status \in Statuses /\ o.credited \in BOOLEAN /\ "relock" \in Awaits
      BY <2>1 DEF IInv, Store, Confirming, Statuses, Awaits
    <3> HIDE DEF o
    <3>3. Changed(p) /\ proc'[p].job = proc[p].job /\ proc'[p].key = proc[p].key
          /\ proc'[p].pc = "relock" /\ proc'[p].credited = o.credited
      BY <3>1, <3>2 DEF IInv, Changed, Execution
    <3>4. Ref(i) \in Packs /\ o.credited => Credited(Ref(i))'
      <4>1. Ref(i) \in Packs /\ o.credited => Credited(Ref(i))
        BY DEF IInv, PacksCredited, o
      <4> QED BY <2>2, <4>1 DEF Credited, documents
    <3>5. OK(p)'
      BY <2>1, <2>2, <3>3, <3>4
      DEF OK, Paying, Delivery, Crediting, At, Confirming, Delivered, Kind, Intent, stripe
    <3> QED BY <1>0, <2>2, <3>1, <3>3, <3>5, Keeps
  <2> QED BY <2>3, <2>4
<1>3. CASE Attach(p)
  <2>1. Confirming(p) /\ (Ref(i) \in Packs /\ proc[p].credited => Credited(Ref(i)))
    BY <1>0, <1>3 DEF Attach, OK, Delivery, Crediting
  <2>2. UNCHANGED <<stripe, documents, faults>>
    BY <1>3 DEF Attach
  <2>3. i \in Intents /\ <<"succeeded", i>> \in emitted /\ proc[p].key = <<"intent", i>> /\ <<"intent", i>> \in Keys
    BY <2>1, KeyFacts DEF Confirming, Delivered
  <2>4. Due(<<"intent", i>>)'
    BY <2>2, <2>3 DEF Due, stripe
  <2>5. Credited(Ref(i)) => Credited(Ref(i))'
    BY <2>2 DEF Credited, documents
  <2>6. CASE Ref(i) \in Packs /\ ~proc[p].credited
    <3>1. Goto(p, "check") /\ "check" \in Awaits
      BY <1>3, <2>6 DEF Attach, Awaits
    <3>2. Changed(p) /\ acked' = acked /\ proc'[p].job = proc[p].job
          /\ proc'[p].pc = "check" /\ proc'[p].key = proc[p].key
      BY <3>1, GoesOn, Stored
    <3>3. OK(p)'
      BY <2>1, <2>2, <2>3, <2>4, <3>2
      DEF OK, Paying, Delivery, Crediting, At, Confirming, Delivered, Kind, Intent, stripe
    <3> QED BY <1>0, <2>2, <3>2, <3>3, Keeps
  <2>7. CASE ~(Ref(i) \in Packs /\ ~proc[p].credited)
    <3>1. Goto(p, "save") /\ "save" \in Awaits
      BY <1>3, <2>7 DEF Attach, Awaits
    <3>2. Changed(p) /\ acked' = acked /\ proc'[p].job = proc[p].job
          /\ proc'[p].pc = "save" /\ proc'[p].key = proc[p].key
      BY <3>1, GoesOn, Stored
    <3>3. Ref(i) \in Packs => Credited(Ref(i))'
      BY <2>1, <2>5, <2>7
    <3>4. OK(p)'
      BY <2>1, <2>2, <3>2, <3>3
      DEF OK, Paying, Delivery, Crediting, At, Confirming, Delivered, Kind, Intent, stripe
    <3> QED BY <1>0, <2>2, <3>2, <3>4, Keeps
  <2> QED BY <2>6, <2>7
<1>4. CASE AttachFails(p)
  <2>1. Confirming(p)
    BY <1>0, <1>4 DEF AttachFails, OK, Delivery
  <2>2. UNCHANGED <<stripe, documents>> /\ faults' \in 0..MaxFaults
    BY <1>0, <1>4, BoundsAssumption DEF AttachFails
  <2>3. Goto(p, "rollback") /\ "rollback" \in Awaits
    BY <1>4 DEF AttachFails, Awaits
  <2>4. Changed(p) /\ acked' = acked /\ proc'[p].job = proc[p].job
        /\ proc'[p].pc = "rollback" /\ proc'[p].key = proc[p].key
    BY <2>3, GoesOn, Stored
  <2>5. OK(p)'
    BY <2>1, <2>2, <2>4
    DEF OK, Paying, Delivery, Crediting, At, Confirming, Delivered, Kind, Intent, stripe
  <2> QED BY <1>0, <2>2, <2>4, <2>5, Keeps
<1>5. CASE NoCodeLeft(p)
  BY <1>0, <1>5, KeepsIdle DEF NoCodeLeft
<1>6. CASE FindLearner(p)
  <2> DEFINE v == Ref(i)
  <2>1. Delivered(p, "succeeded") /\ v \in Vouchers /\ voucher[v].code # 0
    BY <1>0, <1>6 DEF FindLearner, OK, Delivery
  <2>2. UNCHANGED <<stripe, documents, faults>>
    BY <1>6 DEF FindLearner
  <2>3. CASE RecipientOf[v] \in registered
    <3>1. CodeOf(v) \in Keys
      BY <2>1, VoucherCode
    <3>2. With(p, "redeem", CodeOf(v)) /\ "redeem" \in Awaits
      BY <1>6, <2>3 DEF FindLearner, Awaits
    <3>3. Changed(p) /\ acked' = acked /\ proc'[p].job = proc[p].job
          /\ proc'[p].pc = "redeem" /\ proc'[p].key = CodeOf(v)
      BY <3>1, <3>2, Carries, Stored
    <3>4. Bought(v)'
      BY <2>1, <2>2, IntentFacts DEF Delivered, Bought, stripe
    <3>5. OK(p)'
      BY <2>1, <3>1, <3>3, <3>4
      DEF OK, Paying, Delivery, Crediting, At, Delivered, Kind, Intent, Due, CodeOf
    <3> QED BY <1>0, <2>2, <3>3, <3>5, Keeps
  <2>4. CASE RecipientOf[v] \notin registered
    BY <1>6, <1>0, <2>2, <2>4, KeepsIdle DEF FindLearner
  <2> QED BY <2>3, <2>4
<1>7. CASE FindVoucher(p)
  <2>1. Kind(p) = "register"
    BY <1>0, <1>7 DEF FindVoucher, OK, Paying
  <2>2. UNCHANGED <<stripe, documents, faults>>
    BY <1>7 DEF FindVoucher
  <2>3. CASE \E v \in Vouchers : voucher[v].status = "ACTIVE" /\ With(p, "redeem", CodeOf(v))
    <3>1. PICK v \in Vouchers : voucher[v].status = "ACTIVE" /\ With(p, "redeem", CodeOf(v))
      BY <2>3
    <3>2. Bought(v)' /\ voucher[v].code # 0
      BY <2>2, <3>1 DEF IInv, ActiveBought, Bought, stripe
    <3>3. CodeOf(v) \in Keys /\ "redeem" \in Awaits
      BY <3>2, VoucherCode DEF Awaits
    <3>4. Changed(p) /\ acked' = acked /\ proc'[p].job = proc[p].job
          /\ proc'[p].pc = "redeem" /\ proc'[p].key = CodeOf(v)
      BY <3>1, <3>3, Carries, Stored
    <3> PICK key \in Keys : key = CodeOf(v)
      BY <3>3
    <3>5. key[1] = "code" /\ key[2][1] = v
      BY DEF CodeOf
    <3>6. Due(key)'
      BY <3>2, <3>5 DEF Due
    <3>7. Paying(p)' /\ Delivery(p)'
      BY <3>4 DEF Paying, Delivery, At
    <3>8. Kind(p)' = "register"
      BY <2>1, <3>4 DEF Kind
    <3>9. proc'[p].key = key /\ At(p, "redeem")' /\ ~At(p, "check")' /\ ~At(p, "create")'
          /\ ~At(p, "attach")' /\ ~At(p, "relock")' /\ ~At(p, "save")'
      BY <3>4 DEF At
    <3>10. Crediting(p)'
      BY <3>5, <3>6, <3>8, <3>9 DEF Crediting
    <3>11. OK(p)'
      BY <3>7, <3>10 DEF OK
    <3> QED BY <1>0, <2>2, <3>4, <3>11, Keeps
  <2>4. CASE Finish(p)
    BY <1>0, <2>2, <2>4, KeepsIdle
  <2> QED BY <1>7, <2>3, <2>4 DEF FindVoucher
<1>8. CASE CheckEntry(p)
  <2>1. UNCHANGED <<stripe, documents, faults>>
    BY <1>8 DEF CheckEntry
  <2>2. CASE proc[p].key \in entries
    <3>1. Changed(p) /\ OK(p)' /\ acked' \subseteq emitted
      BY <1>8, <2>1, <2>2, ThenOK DEF CheckEntry, documents, stripe
    <3> QED BY <1>0, <2>1, <3>1, Keeps
  <2>3. CASE proc[p].key \notin entries
    <3>1. Goto(p, "create") /\ "create" \in Awaits
      BY <1>8, <2>3 DEF CheckEntry, Awaits
    <3>2. Changed(p) /\ acked' = acked /\ proc'[p].job = proc[p].job
          /\ proc'[p].pc = "create" /\ proc'[p].key = proc[p].key
      BY <3>1, GoesOn, Stored
    <3>3. Crediting(p) /\ At(p, "check")
      BY <1>0, <1>8 DEF CheckEntry, OK
    <3>4. Due(proc[p].key)' /\ proc[p].key \in Keys
      BY <2>1, <3>2, <3>3 DEF Crediting, Due, Bought, stripe
    <3>5. OK(p)'
      BY <2>1, <3>2, <3>3, <3>4
      DEF OK, Paying, Delivery, Crediting, At, Delivered, Confirming, Kind, Intent, stripe
    <3> QED BY <1>0, <2>1, <3>2, <3>5, Keeps
  <2> QED BY <2>2, <2>3
<1>9. CASE DuplicateEntry(p)
  <2>1. UNCHANGED <<stripe, documents, faults>>
    BY <1>9 DEF DuplicateEntry
  <2>2. CASE Kind(p) = "succeeded" /\ Ref(Intent(p)) \in Orders
    <3>1. Goto(p, "rollback") /\ "rollback" \in Awaits
      BY <1>9, <2>2 DEF DuplicateEntry, Awaits
    <3>2. Changed(p) /\ acked' = acked /\ proc'[p].job = proc[p].job
          /\ proc'[p].pc = "rollback" /\ proc'[p].key = proc[p].key
      BY <3>1, GoesOn, Stored
    <3>3. Confirming(p)
      BY <1>0, <1>9, <2>2, PurposesAssumption DEF DuplicateEntry, OK, Crediting, Delivered
    <3>4. OK(p)'
      BY <2>1, <3>2, <3>3
      DEF OK, Paying, Delivery, Crediting, At, Delivered, Confirming, Kind, Intent, stripe
    <3> QED BY <1>0, <2>1, <3>2, <3>4, Keeps
  <2>3. CASE ~(Kind(p) = "succeeded" /\ Ref(Intent(p)) \in Orders)
    BY <1>0, <1>9, <2>1, <2>3, KeepsIdle DEF DuplicateEntry
  <2> QED BY <2>2, <2>3
<1>10. CASE Fault(p)
  <2>1. UNCHANGED <<stripe, documents>> /\ faults' \in 0..MaxFaults /\ Throw(p)
    BY <1>0, <1>10, BoundsAssumption DEF Fault
  <2> QED BY <2>1, KeepsIdle
<1> QED BY <1>1, <1>2, <1>3, <1>4, <1>5, <1>6, <1>7, <1>8, <1>9, <1>10

\* The steps of the webhook that write an order or a payment.
LEMMA OrderIInv ==
  ASSUME IInv, NEW p \in Procs,
         \/ RecordSuccess(p) \/ RecordFailure(p) \/ MarkRefunded(p) \/ LockOrder(p)
         \/ ForceLock(p) \/ SaveOrder(p) \/ Rollback(p)
  PROVE  IInv'
<1> PICK i : i = Intent(p)
  OBVIOUS
<1>0. acked \subseteq emitted /\ OK(p) /\ proc[p] \in Execution
  BY DEF IInv, Store
<1>1. CASE RecordSuccess(p)
  <2> DEFINE pc == CASE Ref(i) \in Topups -> "check" [] Ref(i) \in Orders -> "lock" [] OTHER -> "activate"
  <2>1. Delivered(p, "succeeded")
    BY <1>0, <1>1 DEF RecordSuccess, OK, Delivery
  <2>2. UNCHANGED <<stripe, order, voucher, registered, entries, faults>> /\ Update(p, "SUCCESS", TRUE)
        /\ With(p, pc, <<"intent", i>>)
    BY <1>1 DEF RecordSuccess
  <2>3. payment' \in [Intents -> [status : {"NONE", "INITIATED", "SUCCESS", "FAILED"}, charge : BOOLEAN]]
    BY <2>1, <2>2, UpdateType DEF Delivered
  <2>4. <<"intent", i>> \in Keys /\ Ref(i) \in Payables /\ i \in Intents /\ pc \in Awaits
    BY <2>1, KeyFacts, IntentFacts DEF Delivered, Awaits
  <2>5. \/ pc = "lock" /\ Ref(i) \in Orders
        \/ pc = "check" /\ Ref(i) \in Topups
        \/ pc = "activate" /\ Ref(i) \in Vouchers
    <3>1. CASE Ref(i) \in Topups BY <3>1
    <3>2. CASE Ref(i) \in Orders
      <4>1. Ref(i) \notin Topups
        BY <3>2, PurposesAssumption
      <4>2. pc = "lock"
        BY <3>2, <4>1
      <4> QED BY <3>2, <4>2
    <3>3. CASE Ref(i) \in Vouchers
      <4>1. Ref(i) \notin Topups /\ Ref(i) \notin Orders
        BY <3>3, PurposesAssumption
      <4>2. pc = "activate"
        BY <4>1
      <4> QED BY <3>3, <4>2
    <3> QED BY <2>4, <3>1, <3>2, <3>3 DEF Payables
  <2> HIDE DEF pc
  <2>6. Changed(p) /\ acked' = acked /\ proc'[p].job = proc[p].job
        /\ proc'[p].pc = pc /\ proc'[p].key = <<"intent", i>>
    BY <2>2, <2>4, Carries, Stored
  <2>7. Due(<<"intent", i>>)'
    BY <2>1, <2>2 DEF Due, Delivered, stripe
  <2>8. OK(p)'
    BY <2>1, <2>2, <2>4, <2>5, <2>6, <2>7
    DEF OK, Paying, Delivery, Crediting, At, Confirming, Delivered, Kind, Intent, stripe
  <2> QED BY <1>0, <2>2, <2>3, <2>6, <2>8, PaymentOnly
<1>2. CASE RecordFailure(p)
  <2>1. Delivered(p, "failed")
    BY <1>0, <1>2 DEF RecordFailure, OK, Delivery
  <2>2. UNCHANGED <<stripe, order, voucher, registered, entries, faults>> /\ Update(p, "FAILED", FALSE)
        /\ Goto(p, "undo") /\ "undo" \in Awaits
    BY <1>2 DEF RecordFailure, Awaits
  <2>3. payment' \in [Intents -> [status : {"NONE", "INITIATED", "SUCCESS", "FAILED"}, charge : BOOLEAN]]
    BY <2>1, <2>2, UpdateType DEF Delivered
  <2>4. Changed(p) /\ acked' = acked /\ proc'[p].job = proc[p].job /\ proc'[p].pc = "undo"
    BY <2>2, GoesOn, Stored
  <2>5. OK(p)'
    BY <2>1, <2>2, <2>4
    DEF OK, Paying, Delivery, Crediting, At, Delivered, Kind, Intent, stripe
  <2> QED BY <1>0, <2>2, <2>3, <2>4, <2>5, PaymentOnly
<1>3. CASE MarkRefunded(p)
  <2> DEFINE o == Ref(i)
  <2>1. o \in Orders
    BY <1>0, <1>3 DEF MarkRefunded, OK, Delivery
  <2>2. order' = [order EXCEPT ![o].status = "REFUNDED"] /\ Finish(p)
        /\ UNCHANGED <<stripe, payment, voucher, registered, entries, faults>>
    BY <1>3 DEF MarkRefunded
  <2>3. StatusOnly(o)
    BY <2>1, <2>2 DEF StatusOnly, OrderStatus
  <2> QED BY <2>1, <2>2, <2>3, StatusKeeps, Idles, OrderOnly
<1>4. CASE LockOrder(p)
  <2> DEFINE o == Ref(i)
             locked == ~order[o].paid /\ order[o].status # "CONFIRMING"
             pc == IF locked THEN "attach" ELSE "reload"
  <2>1. Confirming(p) /\ o \in Orders
    BY <1>0, <1>4 DEF LockOrder, OK, Delivery, Confirming
  <2>2. order' = (IF locked THEN [order EXCEPT ![o].status = "CONFIRMING"] ELSE order)
        /\ proc' = [proc EXCEPT ![p].pc = pc, ![p].credited = order[o].credited]
        /\ acked' = acked /\ UNCHANGED <<stripe, payment, voucher, registered, entries, faults>>
    BY <1>4 DEF LockOrder
  <2>3. pc \in {"attach", "reload"} /\ pc \in Awaits /\ order[o].credited \in BOOLEAN
    BY <2>1 DEF Awaits, IInv, Store
  <2>4. StatusOnly(o)
    <3>1. CASE locked BY <2>2, <3>1 DEF StatusOnly, OrderStatus
    <3>2. CASE ~locked
      <4>1. order' = order
        BY <2>2, <3>2
      <4> QED BY <4>1, <2>1, StatusSame
    <3> QED BY <3>1, <3>2
  <2> HIDE DEF pc
  <2>5. Changed(p) /\ proc'[p].job = proc[p].job /\ proc'[p].key = proc[p].key
        /\ proc'[p].pc = pc /\ proc'[p].credited = order[o].credited
    BY <2>2, <2>3 DEF IInv, Changed, Execution
  <2>6. o \in Packs /\ order[o].credited => Credited(o)'
    <3>1. o \in Packs /\ order[o].credited => Credited(o)
      BY DEF IInv, PacksCredited
    <3> QED BY <2>2, <3>1 DEF Credited
  <2>7. OK(p)'
    <3>1. Intent(p)' = i /\ Kind(p)' = Kind(p)
      BY <2>5 DEF Kind, Intent
    <3>4. Confirming(p)'
      BY <2>1, <2>2, <2>5, <3>1 DEF Confirming, Delivered, stripe
    <3>2. CASE pc = "attach"
      <4>1. Paying(p)' /\ Delivery(p)'
        BY <2>5, <3>4, <3>2 DEF Paying, Delivery, At
      <4>2. o \in Packs /\ proc'[p].credited => Credited(o)'
        BY <2>5, <2>6
      <4>3. Crediting(p)'
        BY <2>5, <3>1, <3>2, <4>2 DEF Crediting, At
      <4> QED BY <4>1, <4>3 DEF OK
    <3>3. CASE pc = "reload"
      BY <2>5, <3>4, <3>3 DEF OK, Paying, Delivery, Crediting, At
    <3> QED BY <2>3, <3>2, <3>3
  <2> QED BY <1>0, <2>1, <2>2, <2>4, <2>5, <2>7, StatusKeeps, OrderOnly
<1>5. CASE ForceLock(p)
  <2> DEFINE o == Ref(i)
  <2>1. Confirming(p) /\ o \in Orders /\ (o \in Packs /\ proc[p].credited => Credited(o))
    BY <1>0, <1>5 DEF ForceLock, OK, Delivery, Crediting, Confirming
  <2>2. order' = [order EXCEPT ![o].status = IF proc[p].was = "CONFIRMING" THEN @ ELSE "CONFIRMING"]
        /\ Goto(p, "attach") /\ "attach" \in Awaits
        /\ UNCHANGED <<stripe, payment, voucher, registered, entries, faults>>
    BY <1>5 DEF ForceLock, Awaits
  <2>3. StatusOnly(o)
    BY <2>1, <2>2 DEF StatusOnly, OrderStatus, IInv, Store
  <2>4. Changed(p) /\ acked' = acked /\ proc'[p].job = proc[p].job /\ proc'[p].pc = "attach"
        /\ proc'[p].key = proc[p].key /\ proc'[p].credited = proc[p].credited
    BY <2>2, GoesOn, Stored
  <2>5. o \in Packs /\ proc[p].credited => Credited(o)'
    BY <2>1, <2>2 DEF Credited
  <2>6. OK(p)'
    BY <2>1, <2>2, <2>4, <2>5
    DEF OK, Paying, Delivery, Crediting, At, Confirming, Delivered, Kind, Intent, stripe
  <2> QED BY <1>0, <2>1, <2>2, <2>3, <2>4, <2>6, StatusKeeps, OrderOnly
<1>6. CASE SaveOrder(p)
  <2> DEFINE o == Ref(i)
             c == order[o].credited \/ o \in Packs
  <2>1. o \in Orders /\ (o \in Packs => Credited(o))
    BY <1>0, <1>6 DEF SaveOrder, OK, Delivery, Crediting, Confirming
  <2>2. order' = [order EXCEPT ![o] = [status |-> "CONFIRMED", paid |-> TRUE, credited |-> c]]
        /\ Finish(p) /\ UNCHANGED <<stripe, payment, voucher, registered, entries, faults>>
    BY <1>6 DEF SaveOrder
  <2>3. c \in BOOLEAN
    OBVIOUS
  <2> HIDE DEF c
  <2>4. order' \in [Orders -> [status : OrderStatus, paid : BOOLEAN, credited : BOOLEAN]]
    BY <2>1, <2>2, <2>3 DEF IInv, Store, OrderStatus
  <2>5. \A u \in Packs : order'[u].credited \/ order'[u].paid => Credited(u)
    BY <2>1, <2>2, PurposesAssumption DEF IInv, Store, PacksCredited
  <2> QED BY <2>2, <2>4, <2>5, Idles, OrderOnly
<1>7. CASE Rollback(p)
  <2> DEFINE o == Ref(i)
  <2>1. o \in Orders
    BY <1>0, <1>7 DEF Rollback, OK, Delivery, Confirming
  <2>2. order' = [order EXCEPT ![o].status = "PENDING_PAYMENT"] /\ Throw(p)
        /\ UNCHANGED <<stripe, payment, voucher, registered, entries, faults>>
    BY <1>7 DEF Rollback
  <2>3. StatusOnly(o)
    BY <2>1, <2>2 DEF StatusOnly, OrderStatus
  <2> QED BY <2>1, <2>2, <2>3, StatusKeeps, Idles, OrderOnly
<1> QED BY <1>1, <1>2, <1>3, <1>4, <1>5, <1>6, <1>7

\* The steps that write a voucher, and the entry.
LEMMA VoucherIInv ==
  ASSUME IInv, NEW p \in Procs, Undo(p) \/ Activate(p) \/ Redeem(p) \/ CreateEntry(p)
  PROVE  IInv'
<1> PICK i : i = Intent(p)
  OBVIOUS
<1>0. acked \subseteq emitted /\ OK(p) /\ proc[p] \in Execution
  BY DEF IInv, Store
<1>1. CASE Undo(p)
  <2>1. Ref(i) \in Payables
    BY <1>0, <1>1, IntentFacts DEF Undo, OK, Delivery, Delivered
  <2>2. Finish(p) /\ UNCHANGED <<stripe, payment, registered, entries, faults>>
    BY <1>1 DEF Undo
  <2>3. CASE Ref(i) \in Orders
    <3>1. Ref(i) \notin Vouchers
      BY <2>3, PurposesAssumption
    <3>2. order' = [order EXCEPT ![Ref(i)].status = "CANCELLED"] /\ UNCHANGED voucher
      BY <1>1, <2>3, <3>1 DEF Undo
    <3>3. StatusOnly(Ref(i))
      BY <3>2 DEF StatusOnly, OrderStatus
    <3> QED BY <2>2, <2>3, <3>2, <3>3, StatusKeeps, Idles, OrderOnly
  <2>4. CASE Ref(i) \in Vouchers
    <3>1. Ref(i) \notin Orders
      BY <2>4, PurposesAssumption
    <3>2. voucher' = [voucher EXCEPT ![Ref(i)].status = "FAILED"] /\ UNCHANGED order
      BY <1>1, <2>4, <3>1 DEF Undo
    <3>3. voucher' \in [Vouchers -> [status : VoucherStatus, code : 0..MaxCodes]]
      BY <2>4, <3>2 DEF IInv, Store, VoucherStatus
    <3>4. VouchersKept
      BY <2>4, <3>2 DEF IInv, Store, VouchersKept, ActiveBought
    <3> QED BY <2>2, <3>2, <3>3, <3>4, Idles, VoucherOnly
  <2>5. CASE Ref(i) \in Topups
    <3>1. Ref(i) \notin Orders /\ Ref(i) \notin Vouchers
      BY <2>5, PurposesAssumption
    <3>2. UNCHANGED documents
      BY <1>1, <2>2, <3>1 DEF Undo, documents
    <3> QED BY <2>2, <3>2, KeepsIdle DEF IInv, Store
  <2> QED BY <2>1, <2>3, <2>4, <2>5 DEF Payables
<1>2. CASE Activate(p)
  <2> DEFINE v == Ref(i)
             n == voucher[v].code + 1
  <2>1. Delivered(p, "succeeded") /\ v \in Vouchers
    BY <1>0, <1>2 DEF Activate, OK, Delivery
  <2>2. voucher[v].code < MaxCodes /\ voucher' = [voucher EXCEPT ![v] = [status |-> "ACTIVE", code |-> n]]
        /\ Goto(p, "lookup") /\ "lookup" \in Awaits
        /\ UNCHANGED <<stripe, payment, order, registered, entries, faults>>
    BY <1>2 DEF Activate, Awaits
  <2>3. n \in 0..MaxCodes /\ n # 0
    BY <2>1, <2>2, BoundsAssumption DEF IInv, Store
  <2> HIDE DEF n
  <2>4. voucher' \in [Vouchers -> [status : VoucherStatus, code : 0..MaxCodes]]
    BY <2>1, <2>2, <2>3 DEF IInv, Store, VoucherStatus
  <2>5. Bought(v)
    BY <2>1, IntentFacts DEF Delivered, Bought
  <2>6. VouchersKept /\ voucher'[v].code # 0
    BY <2>1, <2>2, <2>3, <2>5 DEF IInv, Store, VouchersKept, ActiveBought
  <2>7. Changed(p) /\ acked' = acked /\ proc'[p].job = proc[p].job /\ proc'[p].pc = "lookup"
    BY <2>2, GoesOn, Stored
  <2>8. OK(p)'
    BY <2>1, <2>2, <2>6, <2>7
    DEF OK, Paying, Delivery, Crediting, At, Delivered, Kind, Intent, stripe
  <2> QED BY <1>0, <2>2, <2>4, <2>6, <2>7, <2>8, VoucherOnly
<1>3. CASE Redeem(p)
  <2> PICK v : v = proc[p].key[2][1]
    OBVIOUS
  <2>1. /\ proc[p].key \in Keys /\ Due(proc[p].key) /\ proc[p].key[1] = "code" /\ v \in Vouchers
        /\ Kind(p) = "register" \/ (Kind(p) = "succeeded" /\ Ref(i) \in Vouchers)
    BY <1>0, <1>3 DEF Redeem, OK, Crediting
  <2>2. UNCHANGED <<stripe, payment, order, registered, entries, faults>>
    BY <1>3 DEF Redeem
  <2>3. CASE voucher[v].status = "ACTIVE"
    <3>1. voucher' = [voucher EXCEPT ![v].status = "REDEEMED"] /\ With(p, "check", CodeOf(v))
          /\ "check" \in Awaits
      BY <1>3, <2>3 DEF Redeem, Awaits
    <3>2. voucher[v].code # 0 /\ Bought(v)
      BY <2>1, <2>3 DEF IInv, ActiveBought
    <3> PICK key \in Keys : key = CodeOf(v)
      BY <2>1, <3>2, VoucherCode
    <3>3. voucher' \in [Vouchers -> [status : VoucherStatus, code : 0..MaxCodes]]
      BY <2>1, <3>1 DEF IInv, Store, VoucherStatus
    <3>4. VouchersKept
      BY <2>1, <3>1 DEF IInv, Store, VouchersKept, ActiveBought
    <3>5. Changed(p) /\ acked' = acked /\ proc'[p].job = proc[p].job
          /\ proc'[p].pc = "check" /\ proc'[p].key = key
      BY <3>1, Carries, Stored
    <3>6. Due(key)'
      BY <2>1, <2>2, <3>2 DEF Due, CodeOf, Bought, stripe
    <3>7. Paying(p)' /\ Delivery(p)'
      BY <3>5 DEF Paying, Delivery, At
    <3>8. Crediting(p)'
      BY <2>1, <3>5, <3>6 DEF Crediting, At, Kind, Intent
    <3> QED BY <1>0, <2>2, <3>3, <3>4, <3>5, <3>7, <3>8, VoucherOnly DEF OK
  <2>4. CASE voucher[v].status # "ACTIVE"
    <3>1. Finish(p) /\ UNCHANGED documents
      BY <1>3, <2>2, <2>4 DEF Redeem, documents
    <3> QED BY <2>2, <3>1, KeepsIdle DEF IInv, Store
  <2> QED BY <2>3, <2>4
<1>4. CASE CreateEntry(p)
  <2>1. proc[p].key \in Keys /\ Due(proc[p].key)
    BY <1>0, <1>4 DEF CreateEntry, OK, Crediting
  <2>2. entries' = entries \cup {proc[p].key} /\ Then(p) /\ At(p, "create")
        /\ UNCHANGED <<stripe, payment, order, voucher, registered, faults>>
    BY <1>4 DEF CreateEntry
  <2>3. Changed(p) /\ OK(p)' /\ acked' \subseteq emitted
    BY <2>2, ThenOK DEF stripe
  <2>4. Store' /\ Grows
    BY <2>1, <2>2, <2>3 DEF IInv, Store, Grows, stripe
  <2>5. Announced' /\ ActiveBought'
    BY <2>2 DEF IInv, Announced, ActiveBought, Bought, stripe
  <2>6. PacksCredited'
    BY <2>2 DEF IInv, PacksCredited, Credited
  <2>7. EntriesDue'
    BY <2>1, <2>2 DEF IInv, EntriesDue, Due, Bought, stripe
  <2> QED BY <2>3, <2>4, <2>5, <2>6, <2>7, OneStep DEF IInv
<1> QED BY <1>1, <1>2, <1>3, <1>4

\* A delivery or a registration that begins.
LEMMA BeginsIInv ==
  ASSUME IInv, NEW p \in Procs,
         (\E e \in emitted : Deliver(p, e)) \/ (\E r \in Recipients : Register(p, r))
  PROVE  IInv'
<1>1. CASE \E e \in emitted : Deliver(p, e)
  <2>1. PICK e \in emitted : Deliver(p, e)
    BY <1>1
  <2>2. PICK kind \in {"succeeded", "failed", "refunded"}, i \in Intents : e = <<kind, i>>
    BY <2>1 DEF IInv, Store, Events
  <2>3. Start(p, kind, e) /\ UNCHANGED <<stripe, acked, documents, faults>>
        /\ kind \in Awaits /\ e \in Jobs
    BY <2>1, <2>2, JobFacts DEF Deliver, Awaits
  <2>4. Changed(p) /\ proc'[p].pc = kind /\ proc'[p].job = e
    BY <2>3, Starts
  <2>5. kind # "failed" /\ kind # "refunded" => kind = "succeeded"
    BY <2>2
  <2>6. Delivered(p, kind)'
    BY <2>1, <2>2, <2>3, <2>4 DEF Delivered, Kind, Intent, stripe
  <2>7. OK(p)'
    BY <2>2, <2>4, <2>6 DEF OK, Paying, Delivery, Crediting, At
  <2> QED BY <2>3, <2>4, <2>7, Keeps DEF IInv, Store
<1>2. CASE \E r \in Recipients : Register(p, r)
  <2>1. PICK r \in Recipients : Register(p, r)
    BY <1>2
  <2>2. Start(p, "findVoucher", <<"register", r>>) /\ registered' = registered \cup {r}
        /\ UNCHANGED <<stripe, acked, payment, order, voucher, entries, faults>>
        /\ "findVoucher" \in Awaits /\ <<"register", r>> \in Jobs
    BY <2>1, JobFacts DEF Register, Awaits
  <2>3. Changed(p) /\ proc'[p].pc = "findVoucher" /\ proc'[p].job = <<"register", r>>
    BY <2>2, Starts
  <2>4. OK(p)'
    BY <2>3 DEF OK, Paying, Delivery, Crediting, At, Kind
  <2>5. Store' /\ Grows
    BY <2>1, <2>2 DEF IInv, Store, Grows, stripe
  <2>6. Announced' /\ ActiveBought' /\ PacksCredited' /\ EntriesDue'
    BY <2>2 DEF IInv, Announced, ActiveBought, PacksCredited, EntriesDue, Bought, Credited, Due, stripe
  <2> QED BY <2>3, <2>4, <2>5, <2>6, OneStep DEF IInv
<1> QED BY <1>1, <1>2

\* What no execution does.
LEMMA WorldIInv ==
  ASSUME IInv,
         \/ \E i \in Intents : Fails(i) \/ Succeeds(i) \/ Refunds(i)
         \/ \E v \in Vouchers : CreateVoucher(v)
  PROVE  IInv'
<1>1. CASE \E i \in Intents : Fails(i) \/ Succeeds(i) \/ Refunds(i)
  <2>1. PICK i \in Intents : Fails(i) \/ Succeeds(i) \/ Refunds(i)
    BY <1>1
  <2>2. UNCHANGED <<acked, documents, proc, faults>> /\ emitted \subseteq emitted'
    BY <2>1 DEF Fails, Succeeds, Refunds, Emit
  <2>3. Announced' /\ intent' \in [Intents -> {"none", "open", "succeeded", "refunded"}]
    <3>1. CASE Fails(i)
      BY <3>1 DEF Fails, Emit, IInv, Store, Announced
    <3>2. CASE Succeeds(i)
      BY <3>2 DEF Succeeds, Emit, IInv, Store, Announced
    <3>3. CASE Refunds(i)
      BY <3>3 DEF Refunds, Emit, IInv, Store, Announced
    <3> QED BY <2>1, <3>1, <3>2, <3>3
  <2>4. emitted' \subseteq Events
    BY <2>1 DEF Fails, Succeeds, Refunds, Emit, IInv, Store, Events
  <2>5. Store' /\ Grows
    BY <2>2, <2>3, <2>4 DEF IInv, Store, Grows, documents
  <2>6. PacksCredited' /\ ActiveBought' /\ EntriesDue'
    BY <2>2 DEF IInv, PacksCredited, ActiveBought, EntriesDue, Credited, Bought, Due, documents
  <2>7. \A p \in Procs : OK(p)'
    BY <2>2, <2>5, Stays DEF IInv
  <2> QED BY <2>2, <2>3, <2>5, <2>6, <2>7 DEF IInv
<1>2. CASE \E v \in Vouchers : CreateVoucher(v)
  <2>1. PICK v \in Vouchers : CreateVoucher(v)
    BY <1>2
  <2>2. voucher' = [voucher EXCEPT ![v].status = "PENDING"]
        /\ UNCHANGED <<stripe, acked, payment, order, registered, entries, proc, faults>>
    BY <2>1 DEF CreateVoucher
  <2>3. voucher' \in [Vouchers -> [status : VoucherStatus, code : 0..MaxCodes]]
    BY <2>2 DEF IInv, Store, VoucherStatus
  <2>4. Store' /\ Grows
    BY <2>2, <2>3 DEF IInv, Store, Grows, stripe
  <2>5. ActiveBought'
    BY <2>2 DEF IInv, Store, ActiveBought, Bought, stripe
  <2>6. Announced' /\ PacksCredited' /\ EntriesDue'
    BY <2>2 DEF IInv, Announced, PacksCredited, EntriesDue, Bought, Credited, Due, stripe
  <2>7. \A p \in Procs : OK(p)'
    BY <2>2, <2>4, Stays DEF IInv
  <2> QED BY <2>2, <2>4, <2>5, <2>6, <2>7 DEF IInv
<1> QED BY <1>1, <1>2

\* Every step keeps the invariant.
LEMMA NextIInv == IInv /\ [Next]_vars => IInv'
<1> SUFFICES ASSUME IInv, [Next]_vars PROVE IInv'
  OBVIOUS
<1>1. ASSUME NEW p \in Procs, PaymentStep(p) PROVE IInv'
  BY <1>1, PaymentIInv
<1>2. ASSUME NEW p \in Procs, Continue(p) \/ Fault(p) PROVE IInv'
  BY <1>2, LookingIInv, OrderIInv, VoucherIInv
  DEF Continue, WebhookStep, VoucherStep, EntryStep
<1>3. ASSUME NEW p \in Procs, (\E e \in emitted : Deliver(p, e)) \/ (\E r \in Recipients : Register(p, r))
      PROVE  IInv'
  BY <1>3, BeginsIInv
<1>4. CASE (\E i \in Intents : Fails(i) \/ Succeeds(i) \/ Refunds(i)) \/ (\E v \in Vouchers : CreateVoucher(v))
  BY <1>4, WorldIInv
<1>5. CASE UNCHANGED vars
  <2> USE <1>5 DEF vars
  <2>1. Store' /\ Announced' /\ ActiveBought' /\ PacksCredited' /\ EntriesDue' /\ Grows
    BY DEF IInv, Store, Announced, ActiveBought, PacksCredited, EntriesDue, Bought, Credited, Due, Grows
  <2>2. \A p \in Procs : OK(p)'
    BY <2>1, Stays DEF IInv
  <2> QED BY <2>1, <2>2 DEF IInv
<1> QED BY <1>1, <1>2, <1>3, <1>4, <1>5 DEF Next

\* The invariant of Settlement.
LEMMA Invariant == Spec => []IInv
BY InitIInv, NextIInv, PTL DEF Spec

-----------------------------------------------------------------------------
(* The theorems *)

\* The documents keep their types, and an execution knows what it is for,
\* whatever is delivered when, and whatever fails.
THEOREM TypeCorrect == Spec => []TypeOK
BY Invariant, IInvImplies, PTL

\* The webhook creates no money: every wallet entry is backed by a payment
\* that Stripe took, or refunded, for the same intent or voucher.
THEOREM CreditsStayBacked == Spec => []CreditsBacked
BY Invariant, IInvImplies, PTL

\* No lesson pack is PAID without its entry in the wallet, whichever of its
\* deliveries, at once or one after the other, marks it.
THEOREM PaidStaysCredited == Spec => []PaidIsCredited
BY Invariant, IInvImplies, PTL

\* paymentStatus never goes back from PAID.
THEOREM PaidStaysPaid == Spec => PaidForever
<1> DEFINE Stay == \A o \in Orders : order[o].paid => order'[o].paid
<1>1. IInv /\ [Next]_vars => [Stay]_vars
  <2> SUFFICES ASSUME IInv, Next PROVE Stay
    BY DEF vars
  <2>1. CASE UNCHANGED order
    BY <2>1
  <2>2. ASSUME NEW p \in Procs, Undo(p) \/ MarkRefunded(p) \/ LockOrder(p)
               \/ ForceLock(p) \/ SaveOrder(p) \/ Rollback(p)
        PROVE  Stay
    BY <2>2 DEF Undo, MarkRefunded, LockOrder, ForceLock, SaveOrder, Rollback, IInv, Store
  <2>3. ASSUME NEW p \in Procs, PaymentStep(p) PROVE UNCHANGED order
    BY <2>3 DEF PaymentStep, StartPayment, LockVoucher, CreateIntent, NoIntentLeft, CreatePayment, documents
  <2>4. ASSUME NEW p \in Procs, VoucherStep(p) \/ EntryStep(p) \/ Fault(p) PROVE UNCHANGED order
    BY <2>4 DEF VoucherStep, Activate, NoCodeLeft, FindLearner, FindVoucher, Redeem,
                EntryStep, CheckEntry, CreateEntry, DuplicateEntry, Fault, documents
  <2>5. ASSUME NEW p \in Procs, RecordSuccess(p) \/ RecordFailure(p) \/ FindRefunded(p)
               \/ ReloadOrder(p) \/ Attach(p) \/ AttachFails(p)
        PROVE  UNCHANGED order
    BY <2>5 DEF RecordSuccess, RecordFailure, FindRefunded, ReloadOrder, Attach, AttachFails, documents
  <2>6. ASSUME NEW p \in Procs, Continue(p) PROVE Stay
    BY <2>1, <2>2, <2>4, <2>5, <2>6 DEF Continue, WebhookStep
  <2>7. ASSUME NEW p \in Procs, (\E e \in emitted : Deliver(p, e)) \/ (\E r \in Recipients : Register(p, r))
        PROVE  UNCHANGED order
    BY <2>7 DEF Deliver, Register, documents
  <2>8. CASE (\E i \in Intents : Fails(i) \/ Succeeds(i) \/ Refunds(i)) \/ (\E v \in Vouchers : CreateVoucher(v))
    BY <2>1, <2>8 DEF Fails, Succeeds, Refunds, CreateVoucher, documents
  <2> QED BY <2>1, <2>3, <2>4, <2>6, <2>7, <2>8 DEF Next
<1> QED BY Invariant, <1>1, PTL DEF Spec, PaidForever

-----------------------------------------------------------------------------
(* Vouchers of registered recipients *)

\* An execution that is going to redeem v, or to look for it.
Redeems(p, v) ==
  \/ At(p, "lookup") /\ Ref(Intent(p)) = v
  \/ At(p, "findVoucher") /\ Intent(p) = RecipientOf[v]
  \/ At(p, "redeem") /\ proc[p].key[2][1] = v

Redeemable(v) == voucher[v].status = "ACTIVE" /\ Only(v) /\ RecipientOf[v] \in registered

\* While nothing fails, somebody is going to redeem it.
RedeemInv == faults = 0 => \A v \in Vouchers : Redeemable(v) => \E p \in Procs : Redeems(p, v)

StepOf(p) == \/ PaymentStep(p) \/ Continue(p) \/ Fault(p)
             \/ (\E e \in emitted : Deliver(p, e))
             \/ \E r \in Recipients : Register(p, r)

\* A step of one execution leaves the others where they are.
LEMMA Mine ==
  ASSUME IInv, NEW p \in Procs, StepOf(p), NEW q \in Procs \ {p}
  PROVE  proc'[q] = proc[q]
<1> USE DEF IInv, Start, Goto, With, Finish, Throw
<1>1. CASE PaymentStep(p)
  BY <1>1 DEF PaymentStep, StartPayment, LockVoucher, CreateIntent, NoIntentLeft, CreatePayment
<1>2. CASE WebhookStep(p)
  <2>1. CASE RecordSuccess(p) \/ RecordFailure(p) \/ Undo(p) \/ FindRefunded(p) \/ MarkRefunded(p)
    BY <2>1 DEF RecordSuccess, RecordFailure, Undo, FindRefunded, MarkRefunded
  <2>2. CASE LockOrder(p) \/ ReloadOrder(p) \/ ForceLock(p) \/ Attach(p)
    BY <2>2 DEF LockOrder, ReloadOrder, ForceLock, Attach
  <2>3. CASE AttachFails(p) \/ SaveOrder(p) \/ Rollback(p)
    BY <2>3 DEF AttachFails, SaveOrder, Rollback
  <2> QED BY <1>2, <2>1, <2>2, <2>3 DEF WebhookStep
<1>3. CASE VoucherStep(p)
  BY <1>3 DEF VoucherStep, Activate, NoCodeLeft, FindLearner, FindVoucher, Redeem
<1>4. CASE EntryStep(p)
  BY <1>4 DEF EntryStep, CheckEntry, CreateEntry, DuplicateEntry, Then
<1>5. CASE Fault(p)
  BY <1>5 DEF Fault
<1>6. CASE (\E e \in emitted : Deliver(p, e)) \/ \E r \in Recipients : Register(p, r)
  BY <1>6 DEF Deliver, Register
<1> QED BY <1>1, <1>2, <1>3, <1>4, <1>5, <1>6 DEF StepOf, Continue

\* Who makes a voucher ACTIVE, and a recipient registered; nobody forgets one.
LEMMA VoucherWrites ==
  ASSUME IInv, Next, NEW v \in Vouchers
  PROVE  /\ voucher'[v].status = "ACTIVE" =>
              \/ voucher[v].status = "ACTIVE"
              \/ \E p \in Procs : Activate(p) /\ Ref(Intent(p)) = v
         /\ voucher'[v].status = "NONE" => voucher[v].status = "NONE"
         /\ UNCHANGED registered \/ \E p \in Procs, r \in Recipients : Register(p, r)
         /\ faults <= faults' /\ faults \in Nat
<1>0. /\ voucher \in [Vouchers -> [status : VoucherStatus, code : 0..MaxCodes]]
      /\ faults \in Nat
  BY BoundsAssumption DEF IInv, Store
<1> USE DEF documents
<1>1. CASE UNCHANGED <<voucher, registered>> /\ faults <= faults'
  BY <1>0, <1>1
<1>2. ASSUME NEW p \in Procs, LockVoucher(p) \/ Undo(p) \/ Redeem(p)
      PROVE  /\ voucher'[v] = voucher[v] \/ voucher'[v].status \in {"PAYMENT_PENDING", "FAILED", "REDEEMED"}
             /\ UNCHANGED registered /\ faults <= faults'
  BY <1>0, <1>2 DEF LockVoucher, Undo, Redeem
<1>3. ASSUME NEW p \in Procs, Activate(p)
      PROVE  /\ voucher'[v] = voucher[v] \/ (voucher'[v].status = "ACTIVE" /\ Ref(Intent(p)) = v)
             /\ UNCHANGED registered /\ faults <= faults'
  <2>1. UNCHANGED registered /\ faults <= faults'
    BY <1>0, <1>3 DEF Activate
  <2>2. voucher' = [voucher EXCEPT ![Ref(Intent(p))] =
                      [status |-> "ACTIVE", code |-> voucher[Ref(Intent(p))].code + 1]]
    BY <1>3 DEF Activate
  <2> DEFINE u == Ref(Intent(p))
  <2>3. CASE u = v
    <3>1. voucher'[v] = [status |-> "ACTIVE", code |-> voucher[u].code + 1]
      BY <1>0, <2>2, <2>3, Zenon
    <3> QED BY <1>0, <2>1, <2>3, <3>1
  <2>4. CASE u # v
    <3>1. voucher'[v] = voucher[v]
      BY <1>0, <2>2, <2>4, Zenon
    <3> QED BY <2>1, <3>1
  <2> QED BY <2>3, <2>4
<1>4. ASSUME NEW u \in Vouchers, CreateVoucher(u)
      PROVE  /\ voucher'[v] = voucher[v] \/ voucher'[v].status = "PENDING"
             /\ UNCHANGED registered /\ faults <= faults'
  BY <1>0, <1>4 DEF CreateVoucher
<1>5. ASSUME NEW p \in Procs, NEW r \in Recipients, Register(p, r)
      PROVE  UNCHANGED voucher /\ faults <= faults'
  BY <1>0, <1>5 DEF Register
<1>6. ASSUME NEW p \in Procs, PaymentStep(p), ~LockVoucher(p)
      PROVE  UNCHANGED <<voucher, registered>> /\ faults <= faults'
  <2>1. UNCHANGED <<voucher, registered, faults>>
    BY <1>6 DEF PaymentStep, StartPayment, CreateIntent, NoIntentLeft, CreatePayment
  <2> QED BY <1>0, <2>1
<1>7. ASSUME NEW p \in Procs, WebhookStep(p), ~Undo(p)
      PROVE  UNCHANGED <<voucher, registered>> /\ faults <= faults'
  <2>1. CASE RecordSuccess(p)
    <3>1. UNCHANGED <<voucher, registered, faults>>
      BY <2>1, Zenon DEF RecordSuccess
    <3> QED BY <1>0, <3>1
  <2>4. CASE RecordFailure(p) \/ MarkRefunded(p)
    <3>1. UNCHANGED <<voucher, registered, faults>>
      BY <2>4, Zenon DEF RecordFailure, MarkRefunded
    <3> QED BY <1>0, <3>1
  <2>6. CASE FindRefunded(p)
    <3>1. UNCHANGED <<voucher, registered, faults>>
      BY <2>6, Zenon DEF FindRefunded
    <3> QED BY <1>0, <3>1
  <2>2. CASE LockOrder(p) \/ ReloadOrder(p) \/ ForceLock(p) \/ Attach(p)
    BY <1>0, <2>2 DEF LockOrder, ReloadOrder, ForceLock, Attach
  <2>3. CASE AttachFails(p)
    BY <1>0, <2>3 DEF AttachFails
  <2>5. CASE SaveOrder(p) \/ Rollback(p)
    BY <1>0, <2>5 DEF SaveOrder, Rollback
  <2> QED BY <1>7, <2>1, <2>2, <2>3, <2>4, <2>5, <2>6 DEF WebhookStep
<1>8. ASSUME NEW p \in Procs, VoucherStep(p) \/ EntryStep(p) \/ Fault(p), ~Activate(p), ~Redeem(p)
      PROVE  UNCHANGED <<voucher, registered>> /\ faults <= faults'
  BY <1>0, <1>8 DEF VoucherStep, EntryStep, NoCodeLeft, FindLearner, FindVoucher,
                    CheckEntry, CreateEntry, DuplicateEntry, Fault
<1>9. ASSUME \/ \E p \in Procs, e \in emitted : Deliver(p, e)
             \/ \E i \in Intents : Fails(i) \/ Succeeds(i) \/ Refunds(i)
      PROVE  UNCHANGED <<voucher, registered>> /\ faults <= faults'
  BY <1>0, <1>9 DEF Deliver, Fails, Succeeds, Refunds
<1>10. \/ \E p \in Procs : PaymentStep(p) \/ WebhookStep(p) \/ VoucherStep(p) \/ EntryStep(p) \/ Fault(p)
       \/ \E p \in Procs, r \in Recipients : Register(p, r)
       \/ \E u \in Vouchers : CreateVoucher(u)
       \/ \E p \in Procs, e \in emitted : Deliver(p, e)
       \/ \E i \in Intents : Fails(i) \/ Succeeds(i) \/ Refunds(i)
  BY DEF Next, Continue
<1>11. ASSUME NEW p \in Procs, PaymentStep(p) \/ WebhookStep(p) \/ VoucherStep(p) \/ EntryStep(p) \/ Fault(p)
       PROVE  \/ UNCHANGED <<voucher, registered>> /\ faults <= faults'
              \/ LockVoucher(p) \/ Undo(p) \/ Redeem(p) \/ Activate(p)
  BY <1>6, <1>7, <1>8, <1>11
<1>12. CASE \E p \in Procs : PaymentStep(p) \/ WebhookStep(p) \/ VoucherStep(p) \/ EntryStep(p) \/ Fault(p)
  BY <1>0, <1>1, <1>2, <1>3, <1>11, <1>12
<1> QED BY <1>0, <1>1, <1>4, <1>5, <1>9, <1>10, <1>12

\* Who is going to redeem v does, or goes on to it.
LEMMA GoesOnToRedeem ==
  ASSUME IInv, NEW p \in Procs, StepOf(p), faults' = faults, NEW v \in Vouchers,
         Redeemable(v), Redeemable(v)', Redeems(p, v)
  PROVE  Redeems(p, v)'
<1>0. proc[p] \in Execution /\ proc \in [Procs -> Execution] /\ faults \in Nat
  BY BoundsAssumption DEF IInv, Store
<1>1. At(p, "lookup") \/ At(p, "findVoucher") \/ At(p, "redeem")
  BY DEF Redeems
<1>2. FindLearner(p) \/ FindVoucher(p) \/ Redeem(p)
  <2> USE <1>1 DEF At
  <2>1. ~PaymentStep(p)
    BY DEF PaymentStep, StartPayment, Start, LockVoucher, CreateIntent, NoIntentLeft, CreatePayment
  <2>2. ~WebhookStep(p)
    BY DEF WebhookStep, RecordSuccess, RecordFailure, Undo, FindRefunded, MarkRefunded, LockOrder, ReloadOrder,
           ForceLock, Attach, AttachFails, SaveOrder, Rollback
  <2>3. ~EntryStep(p) /\ ~Activate(p) /\ ~NoCodeLeft(p)
    BY DEF EntryStep, CheckEntry, CreateEntry, DuplicateEntry, Activate, NoCodeLeft
  <2>4. ~Fault(p)
    BY <1>0 DEF Fault
  <2>5. (\A e \in emitted : ~Deliver(p, e)) /\ \A r \in Recipients : ~Register(p, r)
    BY DEF Deliver, Register, Start
  <2> QED BY <2>1, <2>2, <2>3, <2>4, <2>5 DEF StepOf, Continue, VoucherStep
<1>3. ASSUME With(p, "redeem", CodeOf(v)) PROVE Redeems(p, v)'
  <2>1. proc'[p].pc = "redeem" /\ proc'[p].key = CodeOf(v)
    BY <1>3, Stored
  <2>2. proc'[p].key[2][1] = v
    BY <2>1 DEF CodeOf
  <2> QED BY <2>1, <2>2 DEF Redeems, At
<1>4. CASE FindLearner(p)
  <2>1. Ref(Intent(p)) = v
    BY <1>4 DEF FindLearner, Redeems, At
  <2> QED BY <1>3, <1>4, <2>1 DEF FindLearner, Redeemable
<1>5. CASE FindVoucher(p)
  <2>1. Intent(p) = RecipientOf[v] /\ proc[p].job[2] = RecipientOf[v]
    BY <1>5 DEF FindVoucher, Redeems, At, Intent
  <2>2. {u \in Vouchers : RecipientOf[u] = proc[p].job[2] /\ voucher[u].status = "ACTIVE"} = {v}
    BY <2>1 DEF Redeemable, Only
  <2> QED BY <1>3, <1>5, <2>2 DEF FindVoucher
<1>6. CASE Redeem(p)
  <2>1. proc[p].key[2][1] = v
    BY <1>6 DEF Redeem, Redeems, At
  <2>2. voucher' = [voucher EXCEPT ![v].status = "REDEEMED"]
    BY <1>6, <2>1 DEF Redeem, Redeemable
  <2>3. voucher'[v].status = "REDEEMED"
    BY <2>2 DEF IInv, Store
  <2> QED BY <2>3 DEF Redeemable
<1> QED BY <1>2, <1>4, <1>5, <1>6

\* While nothing fails, an active voucher of a registered recipient has an
\* execution that is going to redeem it.
LEMMA NextRedeemInv ==
  ASSUME IInv, RedeemInv, [Next]_vars
  PROVE  RedeemInv'
<1>1. CASE UNCHANGED vars
  BY <1>1 DEF vars, RedeemInv, Redeemable, Only, Redeems, At, Intent
<1>2. CASE Next
  <2> SUFFICES ASSUME faults' = 0, NEW v \in Vouchers, Redeemable(v)'
               PROVE  \E p \in Procs : Redeems(p, v)'
    BY DEF RedeemInv
  <2>1. faults = 0
    BY <1>2, VoucherWrites
  <2>2. Only(v)
    BY <1>2, VoucherWrites DEF Redeemable, Only
  <2>3. CASE Redeemable(v)
    <3>1. PICK p \in Procs : Redeems(p, v)
      BY <2>1, <2>3 DEF RedeemInv
    <3>2. CASE StepOf(p)
      BY <2>1, <2>3, <3>1, <3>2, GoesOnToRedeem
    <3>3. ASSUME NEW q \in Procs \ {p}, StepOf(q) PROVE Redeems(p, v)'
      <4>1. proc'[p] = proc[p]
        BY <3>3, Mine
      <4> QED BY <3>1, <4>1 DEF Redeems, At, Intent
    <3>4. ASSUME \/ \E i \in Intents : Fails(i) \/ Succeeds(i) \/ Refunds(i)
                 \/ \E u \in Vouchers : CreateVoucher(u)
          PROVE  Redeems(p, v)'
      <4>1. proc' = proc
        BY <3>4 DEF Fails, Succeeds, Refunds, CreateVoucher
      <4> QED BY <3>1, <4>1 DEF Redeems, At, Intent
    <3> QED BY <1>2, <3>2, <3>3, <3>4 DEF Next, StepOf
  <2>4. CASE voucher[v].status # "ACTIVE"
    <3>1. PICK p \in Procs : Activate(p) /\ Ref(Intent(p)) = v
      BY <1>2, <2>4, VoucherWrites DEF Redeemable
    <3>2. Goto(p, "lookup")
      BY <3>1 DEF Activate
    <3>3. proc'[p].pc = "lookup" /\ proc'[p].job = proc[p].job
      BY <3>2, Stored, GoesOn DEF Awaits
    <3> QED BY <3>1, <3>3 DEF Redeems, At, Intent
  <2>5. CASE RecipientOf[v] \notin registered
    <3>1. PICK p \in Procs, r \in Recipients : Register(p, r)
      BY <1>2, <2>5, VoucherWrites DEF Redeemable
    <3>2. r = RecipientOf[v]
      BY <2>5, <3>1 DEF Register, Redeemable
    <3>3. proc'[p].pc = "findVoucher" /\ proc'[p].job = <<"register", r>>
      BY <3>1, Starts, JobFacts DEF Register, Awaits
    <3> QED BY <3>2, <3>3 DEF Redeems, At, Intent
  <2> QED BY <2>2, <2>3, <2>4, <2>5 DEF Redeemable
<1> QED BY <1>1, <1>2

\* activateVoucher and createLearner: for any vouchers, recipients and
\* interleavings, without a failure the only voucher of a registered recipient
\* is redeemed by the one or the other.
THEOREM RegisteredAreRedeemed == Spec => []RegisteredRedeemed
<1>1. Init => RedeemInv
  BY DEF Init, RedeemInv, Redeemable
<1>2. IInv /\ RedeemInv /\ [Next]_vars => RedeemInv'
  BY NextRedeemInv
<1>3. RedeemInv => RegisteredRedeemed
  BY DEF RedeemInv, RegisteredRedeemed, Quiet, Redeemable, Redeems, At
<1> QED BY <1>1, <1>2, <1>3, Invariant, PTL DEF Spec
=============================================================================
