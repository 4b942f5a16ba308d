---------------------------- MODULE CreditUsage ----------------------------
(***************************************************************************)
(* The AI-credit meter: the tables UserAccess and UserUsage, and the code  *)
(* that spends and resets credits.                                         *)
(*                                                                         *)
(*   UsageService         handleCreditUsage, resetUsageForNewCycle         *)
(*   SubscriptionService  getSubscriptionInfo (the just-in-time reset)     *)
(*   AnniversaryResetScheduler   the daily reset of yearly subscribers     *)
(*                                                                         *)
(* Every await of the source ends a step here, so requests, the scheduler  *)
(* and (in StripeBilling) the webhook handlers interleave between the      *)
(* reads and the writes of one another.  The module has no specification   *)
(* of its own: StripeBilling, which writes UserAccess, composes it.        *)
(***************************************************************************)
EXTENDS Integers, FiniteSets

CONSTANTS
    Users,          \* user ids
    SignedUp,       \* the users who signed up; an administrator made the others
    Subs,           \* Stripe subscription ids
    Requests,       \* API requests in flight at the same time
    Features,       \* what a request spends credits on
    ImageFeature,   \* the feature that also reads the subscription info
    FREE,           \* PaidAccessLevel.FREE
    PaidPlans,      \* the other PaidAccessLevels
    Quota,          \* Plan.monthlyQuotaCredits of every plan
    Cost,           \* credits one request of a feature costs
    Forever,        \* the last instant: the code's 9999-12-31
    LastDay,        \* bound: the clock stops here
    DayOfMonth,     \* Date.getDate of an instant
    StartOfDay,     \* startOfDay of an instant
    AddMonth,       \* addMonths(instant, 1)
    CronHours,      \* the instants at which the 1 AM job can run
    None            \* null, or a row that does not exist

Instants == 0 .. Forever
Plans    == {FREE} \cup PaidPlans

ASSUME UsersAssumption == SignedUp \subseteq Users
ASSUME InstantsAssumption == /\ Forever \in Nat
                             /\ LastDay \in 1 .. Forever - 1
ASSUME PlansAssumption == /\ FREE \notin PaidPlans
                          /\ Quota \in [Plans -> Nat]
ASSUME FeaturesAssumption == /\ ImageFeature \in Features
                             /\ Cost \in [Features -> Nat \ {0}]
ASSUME CalendarAssumption ==
    /\ DayOfMonth \in [Instants -> Nat]
    /\ StartOfDay \in [Instants -> Instants]
    /\ AddMonth   \in [Instants -> Instants]
    /\ \A t \in Instants : StartOfDay[t] <= t /\ t <= AddMonth[t]
    /\ CronHours \subseteq Instants
ASSUME NoneAssumption == /\ None \notin Users
                         /\ None \notin Subs
                         /\ None \notin Plans
                         /\ None \notin Int

VARIABLES
    now,         \* the wall clock
    access,      \* UserAccess: one row per user
    cycleEnd,    \* UserUsage.cycleEndsAt, by user and cycleStartedAt
    usedAmount,  \* UserUsage.usedAmount, by user and cycleStartedAt
    req,         \* the local variables of every request in flight
    cron         \* the local variables of the daily job

tableVars == <<cycleEnd, usedAmount>>
usageVars == <<now, access, cycleEnd, usedAmount, req, cron>>

-----------------------------------------------------------------------------
(* Rows.  (user, feature, cycleStartedAt) is a unique index, so UserUsage   *)
(* is a function of the user and the start of the cycle; cycleEnd = None    *)
(* says that there is no such row.                                          *)

AccessRow == [planId            : Plans \cup {None},
              expiresAt         : Instants,
              subscriptionId    : Subs \cup {None},
              cancelAtPeriodEnd : BOOLEAN,
              monthlyResetDay   : Nat \cup {None}]

FreeAccess == [planId |-> FREE, expiresAt |-> Forever, subscriptionId |-> None,
               cancelAtPeriodEnd |-> FALSE, monthlyResetDay |-> None]

\* An account made by an administrator has no UserAccess row.
NoAccess == [FreeAccess EXCEPT !.planId = None]

RequestState ==
    [pc       : {"idle", "findUsage", "deduct", "info", "reset"},
     user     : Users \cup {None},
     feature  : Features \cup {None},
     quota    : Nat,
     cycle    : Instants \cup {None},
     newStart : Instants \cup {None},
     newEnd   : Instants \cup {None}]

Idle == [pc |-> "idle", user |-> None, feature |-> None, quota |-> 0,
         cycle |-> None, newStart |-> None, newEnd |-> None]

UsageTypeOK ==
    /\ now \in Instants
    /\ access \in [Users -> AccessRow]
    /\ cycleEnd \in [Users -> [Instants -> Instants \cup {None}]]
    /\ usedAmount \in [Users -> [Instants -> Nat]]
    /\ req \in [Requests -> RequestState]
    /\ cron \in [ran : Instants \cup {None}, due : SUBSET (Users \X Instants)]

(* A user who signed up has a FREE access and one usage row that lasts for  *)
(* ever; one made by an administrator has neither.                          *)
UsageInitFor(signedUp) ==
    /\ now = 1
    /\ access = [u \in Users |-> IF u \in signedUp THEN FreeAccess ELSE NoAccess]
    /\ cycleEnd = [u \in Users |-> [c \in Instants |->
                     IF u \in signedUp /\ c = 0 THEN Forever ELSE None]]
    /\ usedAmount = [u \in Users |-> [c \in Instants |-> 0]]
    /\ req = [r \in Requests |-> Idle]
    /\ cron = [ran |-> None, due |-> {}]

UsageInit == UsageInitFor(SignedUp)

-----------------------------------------------------------------------------
(* UsageService *)

Cycles(u) == {c \in Instants : cycleEnd[u][c] # None}

ActiveCycles(u) == {c \in Cycles(u) : c <= now /\ now <= cycleEnd[u][c]}

IsLatest(c, S) == c \in S /\ \A d \in S : d <= c

Finish(r) == req' = [req EXCEPT ![r] = Idle]

ResetUsageForNewCycle(u, start, end) ==
    /\ cycleEnd'   = [cycleEnd EXCEPT ![u][start] = end]
    /\ usedAmount' = [usedAmount EXCEPT ![u][start] = 0]

(* handleCreditUsage, first read: the user's access and its plan. *)
HandleCreditUsage(r, u, f) ==
    /\ req[r].pc = "idle"
    /\ access[u].planId # None
    /\ req' = [req EXCEPT ![r] = [Idle EXCEPT !.pc      = "findUsage",
                                              !.user    = u,
                                              !.feature = f,
                                              !.quota   = Quota[access[u].planId]]]
    /\ UNCHANGED <<now, access, tableVars, cron>>

(* getActiveUsageRecord: the cycle in force that started last. *)
GetActiveUsageRecord(r) ==
    /\ req[r].pc = "findUsage"
    /\ LET active == ActiveCycles(req[r].user) IN
         \/ /\ active = {}
            /\ Finish(r)
         \/ \E c \in Instants :
              /\ IsLatest(c, active)
              /\ req' = [req EXCEPT ![r].pc = "deduct", ![r].cycle = c]
    /\ UNCHANGED <<now, access, tableVars, cron>>

(* The conditional updateMany: it tests and increments the row as it is     *)
(* now, against the quota read two awaits ago.  Image generation goes on    *)
(* to read the subscription info.                                           *)
\* Mutation: the increment is not conditional.
CreditsNotChecked(r) == usedAmount[req[r].user][req[r].cycle] >= 0

CreditsSuffice(r) ==
    usedAmount[req[r].user][req[r].cycle] <= req[r].quota - Cost[req[r].feature]

AfterCharge(r) ==
    IF req[r].feature = ImageFeature THEN [Idle EXCEPT !.pc = "info", !.user = req[r].user]
    ELSE Idle

\* Mutation: the updateMany names the user and the dates, and not the record.
DeductFromActiveCycles(r) ==
    LET u == req[r].user IN
    /\ req[r].pc = "deduct"
    /\ CreditsSuffice(r)
    /\ usedAmount' = [usedAmount EXCEPT ![u] = [c \in Instants |->
           usedAmount[u][c] + IF c \in ActiveCycles(u) THEN Cost[req[r].feature] ELSE 0]]
    /\ req' = [req EXCEPT ![r] = AfterCharge(r)]
    /\ UNCHANGED <<now, access, cycleEnd, cron>>

DeductCredits(r) ==
    /\ req[r].pc = "deduct"
    /\ \/ /\ CreditsSuffice(r)
          /\ usedAmount' = [usedAmount EXCEPT
                 ![req[r].user][req[r].cycle] = @ + Cost[req[r].feature]]
          /\ req' = [req EXCEPT ![r] = AfterCharge(r)]
       \/ /\ ~CreditsSuffice(r)
          /\ Finish(r)
          /\ UNCHANGED usedAmount
    /\ UNCHANGED <<now, access, cycleEnd, cron>>

-----------------------------------------------------------------------------
(* SubscriptionService *)

(* The cycle a just-in-time reset starts from: the end of the cycle that    *)
(* started last, or the present when the user has no usage row.             *)
IsResetStart(u, start) ==
    \/ Cycles(u) = {} /\ start = now
    \/ \E c \in Cycles(u) : /\ IsLatest(c, Cycles(u))
                            /\ now > cycleEnd[u][c]
                            /\ start = cycleEnd[u][c]

\* Mutation: users without a paid plan are reset too.
NeedsResetOnAnyPlan(u, start) ==
    /\ now < access[u].expiresAt
    /\ IsResetStart(u, start)

NeedsReset(u, start) ==
    /\ access[u].planId \in PaidPlans
    /\ now < access[u].expiresAt
    /\ IsResetStart(u, start)

BeginSubscriptionInfo(r, u) ==
    /\ req[r].pc = "idle"
    /\ req' = [req EXCEPT ![r] = [Idle EXCEPT !.pc = "info", !.user = u]]
    /\ UNCHANGED <<now, access, tableVars, cron>>

GetSubscriptionInfo(r) ==
    /\ req[r].pc = "info"
    /\ LET u == req[r].user IN
         \/ \E start \in Instants :
              /\ NeedsReset(u, start)
              /\ req' = [req EXCEPT ![r].pc       = "reset",
                                    ![r].newStart = start,
                                    ![r].newEnd   = access[u].expiresAt]
         \/ /\ ~\E start \in Instants : NeedsReset(u, start)
            /\ Finish(r)
    /\ UNCHANGED <<now, access, tableVars, cron>>

JustInTimeReset(r) ==
    /\ req[r].pc = "reset"
    /\ ResetUsageForNewCycle(req[r].user, req[r].newStart, req[r].newEnd)
    /\ Finish(r)
    /\ UNCHANGED <<now, access, cron>>

-----------------------------------------------------------------------------
(* AnniversaryResetScheduler: one query, then one reset per user found.     *)

DueToday == {u \in Users : /\ access[u].planId # None
                           /\ access[u].monthlyResetDay = DayOfMonth[now]
                           /\ access[u].expiresAt > now}

AnniversaryEnd(u) ==
    LET end == AddMonth[StartOfDay[now]] IN
    IF end > access[u].expiresAt THEN access[u].expiresAt ELSE end

HandleAnniversaryResets ==
    /\ now \in CronHours
    /\ cron.ran # now
    /\ cron.due = {}
    /\ cron' = [ran |-> now, due |-> {<<u, AnniversaryEnd(u)>> : u \in DueToday}]
    /\ UNCHANGED <<now, access, tableVars, req>>

ResetOnAnniversary(u) ==
    \E end \in Instants :
      /\ <<u, end>> \in cron.due
      /\ cron' = [cron EXCEPT !.due = @ \ {<<u, end>>}]
      /\ \/ ResetUsageForNewCycle(u, StartOfDay[cron.ran], end)
         \/ UNCHANGED tableVars          \* the reset threw; the loop goes on
      /\ UNCHANGED <<now, access, req>>

-----------------------------------------------------------------------------
Tick ==
    /\ now < LastDay
    /\ now' = now + 1
    /\ UNCHANGED <<access, tableVars, req, cron>>

RequestStep(r) ==
    \/ \E u \in Users, f \in Features : HandleCreditUsage(r, u, f)
    \/ \E u \in Users : BeginSubscriptionInfo(r, u)
    \/ GetActiveUsageRecord(r)
    \/ DeductCredits(r)
    \/ GetSubscriptionInfo(r)
    \/ JustInTimeReset(r)

UsageNext ==
    \/ Tick
    \/ \E r \in Requests : RequestStep(r)
    \/ HandleAnniversaryResets
    \/ \E u \in Users : ResetOnAnniversary(u)
=============================================================================
