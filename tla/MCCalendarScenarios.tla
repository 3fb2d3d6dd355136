------------------------ MODULE MCCalendarScenarios ------------------------
(***************************************************************************)
(* Instances of Calendar that explore several scenarios in one run.  A     *)
(* scenario, chosen at the start, says which executions there are, which   *)
(* handlers clients call, for which orders, on which layouts of the day,   *)
(* and which handlers may die halfway.                                     *)
(***************************************************************************)
EXTENDS MCCalendar

CONSTANTS Scenarios
VARIABLE scenario

Scenario(calls, about, executions, days, deadly) ==
  [handlers |-> calls, orders |-> about, procs |-> executions,
   layouts |-> days, dying |-> deadly]

One == {CHOOSE p \in Procs : TRUE}

PaymentHandlers == {"createOrder", "handlePublicOrderSuccess", "unlockSlots"}

\* Payment events of a Stripe order against a wallet order; refunds of a
\* Stripe order of one lesson against everything done to that lesson.
LessonHandlers == {"cancelSlot", "moveSlot", "proposeSlot", "ACCEPTED", "REJECTED", "updateWeek"}

MCPayments ==
  {Scenario(PaymentHandlers, {w1, s1}, Procs, MCWhole, {}),
   Scenario(PaymentHandlers \cup LessonHandlers, {s2}, One, MCLayouts, LessonHandlers)}

\* Moves, cancellations and private orders; proposals against edits.
MoveHandlers == {"createOrder", "createPrivateOrder", "moveSlot", "cancelSlot",
                 "cancelPrivateOrder"}
ProposalHandlers == {"createOrder", "proposeSlot", "ACCEPTED", "REJECTED", "updateWeek"}

MCMoves == {Scenario(MoveHandlers, {w1, v1}, Procs, MCWhole, MoveHandlers),
            Scenario(ProposalHandlers, {w1}, Procs, MCLayouts, {})}

\* Every handler but Stripe's, one request at a time.
MCOneAtATime == {Scenario(AllHandlers, Orders, Procs, MCLayouts, {})}

ScenarioInit == /\ Init
                /\ scenario \in Scenarios
                /\ DOMAIN slots \in scenario.layouts

ScenarioNext ==
  /\ \/ \E p \in scenario.procs :
          \/ LoadProfile(p) \/ OrderStep(p) \/ WebhookStep(p) \/ CancelStep(p)
          \/ RescheduleStep(p) \/ EditStep(p)
          \/ proc[p].handler \in scenario.dying /\ Crash(p)
     \/ "privatePayment" \in scenario.handlers /\ \E o \in scenario.orders : PrivatePayment(o)
  /\ \A p \in Procs : /\ proc'[p].handler \in scenario.handlers \cup {"none"}
                      /\ proc'[p].order \in scenario.orders \cup {NoOrder}
  /\ \A o \in Orders \ scenario.orders : orders'[o] = orders[o]
  /\ UNCHANGED scenario

ScenarioSpec == ScenarioInit /\ [][ScenarioNext]_<<vars, scenario>>
=============================================================================
