SPECIFICATION ScenarioSpec
CONSTANTS
  w1 = w1 w2 = w2 s1 = s1 s2 = s2 v1 = v1
  lt = lt lw = lw lx = lx ly = ly ls = ls lv = lv
  Orders = {w1, s1, s2}
  Private = {}
  ByWallet = {w1}
  Lessons = {lw, ls, lx, lt}
  NoOrder = NoOrder
  NoLesson = NoLesson
  Procs = {p1, p2}
  Dates = {1}
  Gap = 1
  MinSlot = 2
  Weeks <- MCWeeks
  Durations <- MCDurations
  OrderOf <- MCOrderOf
  Layouts <- MCLayouts
  Requests <- MCRequests
  Handlers <- AllHandlers
  Scenarios <- MCPayments
  Crashes = TRUE
SYMMETRY Symmetry
INVARIANTS TypeOK  ConfirmingHeld PendingAnswerable
CHECK_DEADLOCK FALSE
