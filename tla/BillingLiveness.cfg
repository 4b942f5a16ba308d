SPECIFICATION FairSpec
CONSTANTS
  Users = {u1}
  SignedUp = {u1}
  Subs = {s1}
  Requests = {}
  Handlers = {h1, h2}
  ShortMonths = {}
  YearMonths = 2
  pro = pro
  studio = studio
  image = image
  text = text
  Features = {image}
  ImageFeature = image
  FREE = FREE
  PaidPlans = {pro, studio}
  Intervals = {"month"}
  Subscribed = {"checkout", "deleted"}
  Forever = 4
  LastDay = 1
  CronHours = {}
  OwnCustomer = OwnCustomer
  None = None
  Quota <- MCQuota
  Cost <- MCCost
  DayOfMonth <- MCDayOfMonth
  StartOfDay <- MCStartOfDay
  AddMonth <- MCAddMonth
  AddYear <- MCAddYear
  NextMonth <- MCNextMonth
CHECK_DEADLOCK FALSE
INVARIANTS
  NoUnpaidAccess
PROPERTY CheckoutGrantsAccess
