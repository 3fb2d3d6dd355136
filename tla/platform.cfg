SPECIFICATION ScenarioSpec
CONSTANTS
  None = None
  l1 = l1 l2 = l2 x1 = x1 n1 = n1 s1 = s1 s2 = s2 ann = ann ben = ben p1 = p1
  Txns = {l1, l2, x1}
  Legacy = {x1}
  Outstanding <- MCOutstanding
  Amounts = {100, 150}
  MaxCash = 2
  Gifts = {50}
  MaxGranted = 50
  LessonSet = {l1, l2}
  Hours <- MCHours
  TotalHours = 4
  Credits <- MCCredits
  Procs = {p1, p2}
  MaxFaults = 1
  Areas = {a1}
  Vehicles = {"auto", "manual"}
  Transmissions <- MCTransmissions
  WeekChoices <- MCWeekChoices
  DayChoices <- MCDayChoices
  Lesson = 1 Noon = 2 Limit = 1
  Senders = {p1}
  SlotIds = {s1, s2}
  SlotDates = {1, 2}
  Times <- MCTimes
  Payloads <- MCPayloads
  Providers = {ann, ben}
  Emails = {1, 2}
  Phones = {1, 2}
  CourseIds = {1, 2}
  Customers = {n1}
  Learners = {ann, ben}
  Mobiles = {1, 2}
  Passwords = {1, 2}
  Tokens = {1, 2}
  Taught = {n1, n2, n3}
  Stars = {4, 5}
INVARIANTS
  TypesOK
  BalanceExplained OnboardedOnly PaidIsPaidOut   RequestFiled
   PagesComplete
  AnswerKept ProcessSurvives
   
  ContactsUnique RepeatLeavesOneLead LeadReachesProvider
  ReferralsBacked SpentTokenRefused RatingIsOfReviews
 
CHECK_DEADLOCK FALSE
