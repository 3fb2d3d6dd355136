SPECIFICATION ScenarioSpec
CONSTANTS
  o1 = o1 o2 = o2 t1 = t1 g1 = g1 ann = ann
  Orders = {o1, o2}
  Topups = {t1}
  Vouchers = {g1}
  Packs = {o1, o2}
  Recipients = {ann}
  RecipientOf <- MCRecipientOf
  MaxIntents <- MCMaxIntents
  MaxCodes = 2
  Unreliable = {o1, t1, g1}
  MaxFaults = 1
  Procs = {p1, p2}
INVARIANTS TypeOK CreditsBacked PaidIsCredited RegisteredRedeemed
PROPERTIES PaidForever EventuallySettled
CHECK_DEADLOCK FALSE
