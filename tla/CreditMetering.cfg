SPECIFICATION MeteringSpec
CONSTANTS
  Users = {u1}
  SignedUp = {u1}
  Subs = {s1}
  Requests = {r1, r2}
  Handlers = {h1}
  ShortMonths = {2}
  YearMonths = 3
  pro = pro
  studio = studio
  image = image
  text = text
  Features = {image}
  ImageFeature = image
  FREE = FREE
  PaidPlans = {pro}
  Intervals = {"year"}
  Subscribed = {"checkout", "invoice"}
  Forever = 5
  LastDay = 3
  CronHours = {2, 3}
  OwnCustomer = OwnCustomer
  None = None
  Quota <- MCQuota
  Cost <- MCCost
  DayOfMonth <- MCDayOfMonth
  StartOfDay <- MCStartOfDay
  AddMonth <- MCAddMonth
  AddYear <- MCAddYear
  NextMonth <- MCNextMonth
SYMMETRY MCSymmetry
CONSTRAINT NoScheduledCancellation
CHECK_DEADLOCK FALSE
INVARIANTS
  CreditsWithinQuota
  CyclesArePaidFor
PROPERTY MeterSpec
