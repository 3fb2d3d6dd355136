----------------------------- MODULE MCCalendar -----------------------------
(***************************************************************************)
(* Instances of Calendar for TLC.  Times are half hours from the start of  *)
(* a four-hour day, so GAP is 1, MIN_SLOT 2 and the durations of one, two  *)
(* and two and a half hours are 2, 4 and 5.                                *)
(***************************************************************************)
EXTENDS Views, TLC

CONSTANTS w1, w2, s1, s2, v1,           \* orders: two by wallet, by Stripe, private
          lw, lx, ly, ls, lt, lv        \* lessons: ls and lx of s1, one of each other

At1(a, b) == [date |-> 1, start |-> a, end |-> b]
At2(a, b) == [date |-> 2, start |-> a, end |-> b]

MCWeeks == {Dates}
MCDurations == {2, 4, 5}

MCOrderOf == [l \in Lessons |->
  CASE l = lw -> w1 [] l = ly -> w2 [] l \in {ls, lx} -> s1 [] l = lt -> s2 [] l = lv -> v1]

WholeDay == {At1(0, 8)}
TwoRanges == {At1(0, 2), At1(3, 8)}
MCWhole == {WholeDay}
MCLayouts == {WholeDay, TwoRanges}

\* The first hour and the middle of the day; the third request, cut out of the
\* whole day, would leave an awkward hour before it.
MCRequests == {At1(0, 2), At1(3, 5)}
MCThreeRequests == MCRequests \cup {At1(2, 4)}

Symmetry == Permutations(Procs)

AllHandlers == {"createOrder", "createPrivateOrder", "handlePublicOrderSuccess",
  "unlockSlots", "privatePayment", "cancelSlot", "cancelPrivateOrder", "moveSlot",
  "proposeSlot", "ACCEPTED", "REJECTED", "updateDaySlots", "updateWeek",
  "releaseExpiredTempLocks"}
=============================================================================
