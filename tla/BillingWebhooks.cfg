SPECIFICATION Spec
CONSTANTS
  Users = {u1}
  SignedUp = {u1}
  Subs = {s1, s2}
  Requests = {}
  Handlers = {h1}
  ShortMonths = {}
  YearMonths = 2
  pro = pro
  studio = studio
  image = image
  text = text
  Features = {image}
  ImageFeature = image
  FREE = FREE
  PaidPlans = {pro}
  Intervals = {"month", "year"}
  Subscribed = {"checkout", "updated", "deleted"}
  Forever = 4
  LastDay = 2
  CronHours = {}
  OwnCustomer = OwnCustomer
  None = None
  Quota <- MCQuota
  Cost <- MCCost
  DayOfMonth <- MCDayOfMonth
  StartOfDay <- MCStartOfDay
  AddMonth <- MCAddMonth
  AddYear <- MCAddYear
  NextMonth <- MCNextMonth
SYMMETRY MCSymmetry
CONSTRAINT NobodyDisturbed
CHECK_DEADLOCK FALSE
INVARIANTS
  TypeOK
  NoUnpaidAccess
  AccessMirrorsStripe
  PaidPeriodHasCycle
