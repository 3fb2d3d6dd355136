SPECIFICATION Spec
CONSTANTS
  w1 = w1 w2 = w2 s1 = s1 s2 = s2 v1 = v1
  lt = lt lw = lw lx = lx ly = ly ls = ls lv = lv
  Orders = {w1, v1}
  Private = {v1}
  ByWallet = {w1}
  Lessons = {lw, lv}
  NoOrder = NoOrder
  NoLesson = NoLesson
  Procs = {p1}
  Dates = {1}
  Gap = 1
  MinSlot = 2
  Weeks <- MCWeeks
  Durations <- MCDurations
  OrderOf <- MCOrderOf
  Layouts <- MCLayouts
  Requests <- MCThreeRequests
  Handlers <- AllHandlers
  Crashes = FALSE
INVARIANTS PrivateShown
CHECK_DEADLOCK FALSE
