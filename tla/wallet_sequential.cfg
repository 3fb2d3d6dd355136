SPECIFICATION Spec
CONSTANTS
  c1 = c1 c2 = c2 o1 = o1 o2 = o2 l1 = l1 l2 = l2
  Credits = {c1, c2}
  Orders = {o1, o2}
  WithPack = {o2}
  Lessons = {l1, l2}
  Sums = {1, 2}
  Opening = 2
  Nobody = Nobody
  Procs = {p1}
  Worth <- MCWorth
  Cost <- MCCost
  OrderOf <- MCOrderOf
  Price <- MCPrice
  Handlers = {"creditWallet", "createOrder", "cancelSlot", "requestWithdrawToCard"}
  Crashes = FALSE
INVARIANTS BalanceIsLedger NeverNegative
CHECK_DEADLOCK FALSE
