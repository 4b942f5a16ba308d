------------------------ MODULE StripeBilling_proofs ------------------------
(***************************************************************************)
(* What holds of StripeBilling for every set of users, subscriptions,      *)
(* requests and webhook handlers, every calendar and every price list.     *)
(***************************************************************************)
EXTENDS StripeBilling, TLAPS

USE DEF Plans

(* The local variables a request or a webhook has set when it needs them.  *)
RequestInv ==
    \A r \in Requests :
      /\ req[r].pc # "idle" => req[r].user \in Users
      /\ req[r].pc \in {"findUsage", "deduct"} => req[r].feature \in Features
      /\ req[r].pc = "deduct" => req[r].cycle \in Instants
      /\ req[r].pc = "reset" => req[r].newStart \in Instants /\ req[r].newEnd \in Instants

HandlerInv == \A h \in Handlers : handler[h].pc # "idle" => handler[h].sub \in Subs

CronInv == cron.due # {} => cron.ran \in Instants

(* Only a subscription nobody asked for has no owner and no plan. *)
SubInv == \A s \in Subs : sub[s].status # "none" => /\ sub[s].owner \in Users
                                                  /\ sub[s].planId \in PaidPlans

UsageInv  == UsageTypeOK /\ RequestInv /\ CronInv
StripeInv == StripeTypeOK /\ HandlerInv /\ SubInv
TypeInv   == UsageInv /\ StripeInv

-----------------------------------------------------------------------------
(* Type correctness *)

LEMMA RowTypes ==
  /\ FreeAccess \in AccessRow
  /\ NoAccess \in AccessRow
  /\ Idle \in RequestState
  /\ NoSubscription \in Subscription
  /\ IdleHandler \in HandlerState
<1>1. 0 \in Instants /\ 1 \in Instants /\ Forever \in Instants
  BY InstantsAssumption DEF Instants
<1>2. FreeAccess \in AccessRow
  BY <1>1 DEF AccessRow, FreeAccess
<1>3. NoAccess \in AccessRow
  BY <1>2 DEF AccessRow, FreeAccess, NoAccess
<1>4. Idle \in RequestState
  BY DEF RequestState, Idle
<1>5. NoSubscription \in Subscription
  BY <1>1 DEF Subscription, NoSubscription, Status
<1>6. IdleHandler \in HandlerState
  BY <1>5 DEF HandlerState, IdleHandler
<1> QED  BY <1>2, <1>3, <1>4, <1>5, <1>6

LEMMA InitTypeInv == Init => TypeInv
<1> SUFFICES ASSUME Init PROVE TypeInv
  OBVIOUS
<1>1. 0 \in Instants /\ 1 \in Instants /\ Forever \in Instants
  BY InstantsAssumption DEF Instants
<1>2. UsageTypeOK
  BY <1>1, RowTypes DEF Init, UsageInit, UsageInitFor, UsageTypeOK
<1>3. StripeTypeOK
  BY <1>1, RowTypes DEF Init, StripeTypeOK, Customer
<1>4. RequestInv /\ HandlerInv /\ CronInv /\ SubInv
  BY DEF Init, UsageInit, UsageInitFor, RequestInv, HandlerInv, CronInv, SubInv, Idle,
         IdleHandler, NoSubscription
<1> QED  BY <1>2, <1>3, <1>4 DEF TypeInv, UsageInv, StripeInv

(* A reset keeps the type of UserUsage. *)
LEMMA ResetKeepsType ==
  ASSUME NEW u, NEW start, NEW end \in Instants, UsageTypeOK,
         ResetUsageForNewCycle(u, start, end)
  PROVE  /\ cycleEnd' \in [Users -> [Instants -> Instants \cup {None}]]
         /\ usedAmount' \in [Users -> [Instants -> Nat]]
  BY DEF UsageTypeOK, ResetUsageForNewCycle

(* A request only ever carries values it has read. *)
LEMMA RequestStepKeepsType ==
  ASSUME UsageInv, NEW r \in Requests, RequestStep(r)
  PROVE  UsageInv'
<1> USE NoneAssumption DEF UsageInv
<1>t. req \in [Requests -> RequestState] /\ req[r] \in RequestState
  BY DEF UsageTypeOK
<1>i. Idle \in RequestState /\ Idle.pc = "idle"
  BY RowTypes DEF Idle
<1>1. CASE \E u \in Users, f \in Features : HandleCreditUsage(r, u, f)
  <2> PICK u \in Users, f \in Features : HandleCreditUsage(r, u, f)
    BY <1>1
  <2>1. access[u].planId \in Plans
    BY DEF HandleCreditUsage, UsageTypeOK, AccessRow
  <2>2. Quota[access[u].planId] \in Nat
    BY <2>1, PlansAssumption
  <2>3. req' \in [Requests -> RequestState]
    BY <1>t, <1>i, <2>2 DEF HandleCreditUsage, RequestState
  <2>4. RequestInv'
    BY <1>t, <1>i DEF HandleCreditUsage, RequestState, RequestInv
  <2> QED  BY <2>3, <2>4 DEF HandleCreditUsage, UsageTypeOK, CronInv, tableVars
<1>2. CASE \E u \in Users : BeginSubscriptionInfo(r, u)
  <2> PICK u \in Users : BeginSubscriptionInfo(r, u)
    BY <1>2
  <2>1. req' \in [Requests -> RequestState]
    BY <1>t, <1>i DEF BeginSubscriptionInfo, RequestState
  <2>2. RequestInv'
    BY <1>t, <1>i DEF BeginSubscriptionInfo, RequestState, RequestInv
  <2> QED  BY <2>1, <2>2 DEF BeginSubscriptionInfo, UsageTypeOK, CronInv, tableVars
<1>3. CASE GetActiveUsageRecord(r)
  <2>1. req' \in [Requests -> RequestState]
    BY <1>3, <1>t, <1>i DEF GetActiveUsageRecord, RequestState, Finish
  <2>2. RequestInv'
    BY <1>3, <1>t, <1>i DEF GetActiveUsageRecord, RequestState, RequestInv, Finish
  <2> QED  BY <1>3, <2>1, <2>2 DEF GetActiveUsageRecord, UsageTypeOK, CronInv, tableVars
<1>4. CASE DeductCredits(r)
  <2>1. AfterCharge(r) \in RequestState
    BY <1>t, <1>i DEF AfterCharge, RequestState
  <2>2. /\ req[r].user \in Users
        /\ req[r].feature \in Features
        /\ req[r].cycle \in Instants
    BY <1>4 DEF DeductCredits, RequestInv
  <2>3. Cost[req[r].feature] \in Nat
    BY <2>2, FeaturesAssumption
  <2>4. usedAmount' \in [Users -> [Instants -> Nat]]
    <3>1. usedAmount[req[r].user][req[r].cycle] \in Nat
      BY <2>2 DEF UsageTypeOK
    <3>2. usedAmount[req[r].user][req[r].cycle] + Cost[req[r].feature] \in Nat
      BY <2>3, <3>1
    <3> DEFINE charged == usedAmount[req[r].user][req[r].cycle] + Cost[req[r].feature]
    <3>3. \/ usedAmount' = usedAmount
          \/ usedAmount' = [usedAmount EXCEPT ![req[r].user][req[r].cycle] = charged]
      BY <1>4 DEF DeductCredits
    <3> HIDE DEF charged
    <3>4. charged \in Nat
      BY <3>2 DEF charged
    <3>5. usedAmount \in [Users -> [Instants -> Nat]]
      BY DEF UsageTypeOK
    <3> QED  BY <2>2, <3>3, <3>4, <3>5
  <2>5. req' \in [Requests -> RequestState]
    BY <1>4, <1>t, <1>i, <2>1 DEF DeductCredits, Finish
  <2>6. AfterCharge(r).pc \in {"idle", "info"}
        /\ (AfterCharge(r).pc = "info" => AfterCharge(r).user = req[r].user)
    BY <1>i DEF AfterCharge, RequestState
  <2>7. RequestInv'
    BY <1>4, <1>t, <1>i, <2>2, <2>6 DEF DeductCredits, RequestInv, Finish
  <2> QED  BY <1>4, <2>4, <2>5, <2>7 DEF DeductCredits, UsageTypeOK, CronInv
<1>5. CASE GetSubscriptionInfo(r)
  <2>1. req[r].user \in Users
    BY <1>5 DEF GetSubscriptionInfo, RequestInv
  <2>2. access[req[r].user].expiresAt \in Instants
    BY <2>1 DEF UsageTypeOK, AccessRow
  <2>3. CASE Finish(r)
    BY <1>5, <2>3, <1>t, <1>i
       DEF GetSubscriptionInfo, Finish, RequestInv, UsageTypeOK, CronInv, tableVars
  <2>4. CASE \E start \in Instants :
               req' = [req EXCEPT ![r].pc       = "reset",
                                  ![r].newStart = start,
                                  ![r].newEnd   = access[req[r].user].expiresAt]
    <3> PICK start \in Instants :
               req' = [req EXCEPT ![r].pc       = "reset",
                                  ![r].newStart = start,
                                  ![r].newEnd   = access[req[r].user].expiresAt]
      BY <2>4
    <3>1. req' \in [Requests -> RequestState]
      BY <1>t, <2>2 DEF RequestState
    <3>2. RequestInv'
      BY <1>t, <2>1, <2>2 DEF RequestState, RequestInv
    <3> QED
      BY <1>5, <3>1, <3>2 DEF GetSubscriptionInfo, UsageTypeOK, CronInv, tableVars
  <2> QED  BY <1>5, <2>3, <2>4 DEF GetSubscriptionInfo
<1>6. CASE JustInTimeReset(r)
  <2>1. req[r].newEnd \in Instants
    BY <1>6 DEF JustInTimeReset, RequestInv
  <2>2. /\ cycleEnd' \in [Users -> [Instants -> Instants \cup {None}]]
        /\ usedAmount' \in [Users -> [Instants -> Nat]]
    BY <1>6, <2>1, ResetKeepsType DEF JustInTimeReset
  <2>3. req' \in [Requests -> RequestState] /\ RequestInv'
    BY <1>6, <1>t, <1>i DEF JustInTimeReset, RequestInv, Finish
  <2> QED  BY <1>6, <2>2, <2>3 DEF JustInTimeReset, UsageTypeOK, CronInv
<1> QED  BY <1>1, <1>2, <1>3, <1>4, <1>5, <1>6 DEF RequestStep

(* The scheduler resets with the dates its query computed. *)
LEMMA UsageNextKeepsType ==
  ASSUME UsageInv, UsageNext
  PROVE  UsageInv'
<1> USE DEF UsageInv
<1>1. CASE Tick
  <2>1. now' \in Instants
    BY <1>1, InstantsAssumption DEF Tick, UsageTypeOK, Instants
  <2> QED  BY <1>1, <2>1 DEF Tick, UsageTypeOK, RequestInv, CronInv, tableVars
<1>2. CASE \E r \in Requests : RequestStep(r)
  BY <1>2, RequestStepKeepsType
<1>3. CASE HandleAnniversaryResets
  <2>1. \A u \in DueToday : u \in Users /\ AnniversaryEnd(u) \in Instants
    BY CalendarAssumption DEF DueToday, AnniversaryEnd, UsageTypeOK, AccessRow
  <2>2. {<<u, AnniversaryEnd(u)>> : u \in DueToday} \subseteq Users \X Instants
    BY <2>1
  <2>3. cron' \in [ran : Instants \cup {None}, due : SUBSET (Users \X Instants)]
    BY <1>3, <2>2 DEF HandleAnniversaryResets, UsageTypeOK
  <2>4. CronInv'
    BY <1>3 DEF HandleAnniversaryResets, UsageTypeOK, CronInv
  <2> QED
    BY <1>3, <2>3, <2>4 DEF HandleAnniversaryResets, UsageTypeOK, RequestInv, tableVars
<1>4. CASE \E u \in Users : ResetOnAnniversary(u)
  <2> PICK u \in Users, end \in Instants :
         /\ <<u, end>> \in cron.due
         /\ cron' = [cron EXCEPT !.due = @ \ {<<u, end>>}]
         /\ \/ ResetUsageForNewCycle(u, StartOfDay[cron.ran], end)
            \/ UNCHANGED tableVars
         /\ UNCHANGED <<now, access, req>>
    BY <1>4 DEF ResetOnAnniversary
  <2>1. /\ cycleEnd' \in [Users -> [Instants -> Instants \cup {None}]]
        /\ usedAmount' \in [Users -> [Instants -> Nat]]
    BY ResetKeepsType DEF UsageTypeOK, tableVars
  <2>2. cron' \in [ran : Instants \cup {None}, due : SUBSET (Users \X Instants)]
    BY DEF UsageTypeOK
  <2>3. CronInv'
    BY DEF UsageTypeOK, CronInv
  <2> QED  BY <2>1, <2>2, <2>3 DEF UsageTypeOK, RequestInv
<1> QED  BY <1>1, <1>2, <1>3, <1>4 DEF UsageNext

(* Nothing that leaves the usage tables and the requests alone can break    *)
(* their types.                                                             *)
LEMMA UsageUnchanged ==
  ASSUME UsageInv, UNCHANGED usageVars
  PROVE  UsageInv'
  BY DEF UsageInv, usageVars, UsageTypeOK, RequestInv, CronInv

(* A call of the checkout endpoint. *)
LEMMA CheckoutKeepsType ==
  ASSUME TypeInv, NEW u \in Users, BeginCheckout(u) \/ FinishCheckout(u)
  PROVE  TypeInv'
<1> USE DEF TypeInv, StripeInv
<1>1. UsageInv'
  BY UsageUnchanged DEF BeginCheckout, FinishCheckout
<1>2. CASE BeginCheckout(u)
  BY <1>1, <1>2 DEF BeginCheckout, StripeTypeOK, HandlerInv, SubInv, stripeVars
<1>3. CASE FinishCheckout(u)
  <2>1. sub' \in [Subs -> Subscription] /\ SubInv'
    <3>1. CASE UNCHANGED sub
      BY <3>1 DEF StripeTypeOK, SubInv
    <3>2. CASE OpenSession(u)
      <4> PICK s \in Subs, p \in PaidPlans, i \in Intervals :
             sub' = [sub EXCEPT ![s] = [NoSubscription EXCEPT !.status   = "session",
                                                              !.owner    = u,
                                                              !.planId   = p,
                                                              !.interval = i]]
        BY <3>2 DEF OpenSession
      <4> DEFINE session == [NoSubscription EXCEPT !.status = "session", !.owner = u,
                                                   !.planId = p, !.interval = i]
      <4>1. /\ session \in Subscription
            /\ session.owner = u
            /\ session.planId = p
        BY RowTypes, BillingAssumption DEF Subscription, Status
      <4> HIDE DEF session
      <4>2. sub' = [sub EXCEPT ![s] = session]
        BY DEF session
      <4> QED  BY <4>1, <4>2 DEF StripeTypeOK, SubInv
    <3> QED  BY <1>3, <3>1, <3>2 DEF FinishCheckout
  <2>2. stripeCustomerId' \in [Users -> Customer] /\ checkout' \subseteq Users
    <3>1. \A c \in CustomersByEmail(u) : c \in Customer
      BY DEF CustomersByEmail, Customer
    <3> QED  BY <1>3, <3>1 DEF FinishCheckout, StripeTypeOK
  <2> QED  BY <1>1, <1>3, <2>1, <2>2 DEF FinishCheckout, StripeTypeOK, HandlerInv
<1> QED  BY <1>2, <1>3

(* What Stripe does to a subscription in one step keeps it a subscription. *)
LEMMA StripeStepKeepsType ==
  ASSUME TypeInv, NEW s \in Subs, StripeStep(s)
  PROVE  TypeInv'
<1> USE DEF TypeInv, StripeInv
<1>t. sub \in [Subs -> Subscription] /\ sub[s] \in Subscription
  BY DEF StripeTypeOK
<1>e. \A t \in Instants : PeriodEnd(sub[s].interval, t) \in Instants
  BY CalendarAssumption, BillingAssumption DEF PeriodEnd
<1>n. /\ NextPeriod(s) \in Subscription
      /\ NextPeriod(s).owner = sub[s].owner
      /\ NextPeriod(s).planId = sub[s].planId
  BY <1>t, <1>e DEF NextPeriod, Subscription
<1>a. ASSUME NEW new \in Subscription, NEW types, StripeChange(s, new, types),
             new.owner = sub[s].owner, new.planId \in PaidPlans, sub[s].status # "none",
             Paid(s, new) \/ UNCHANGED <<paidThrough, plansHad>>
      PROVE  TypeInv'
  <2>1. UsageInv'
    BY <1>a, UsageUnchanged DEF StripeChange
  <2>2. sub' \in [Subs -> Subscription] /\ pending' \subseteq Event
    BY <1>a DEF StripeChange, StripeTypeOK, Event
  <2>3. paidThrough' \in [Subs -> Instants] /\ plansHad' \in [Subs -> SUBSET PaidPlans]
    BY <1>a DEF Paid, StripeTypeOK, Subscription
  <2>4. SubInv'
    BY <1>a DEF StripeChange, SubInv, StripeTypeOK
  <2> QED
    BY <1>a, <2>1, <2>2, <2>3, <2>4 DEF StripeChange, StripeTypeOK, HandlerInv, webhookVars
<1>p. sub[s].status # "none" => sub[s].planId \in PaidPlans
  BY DEF SubInv
<1>1. CASE CompleteCheckout(s)
  <2> DEFINE new == [sub[s] EXCEPT !.status = "active", !.start = now,
                                   !.end = PeriodEnd(sub[s].interval, now)]
  <2>1. /\ new \in Subscription
        /\ new.owner = sub[s].owner
        /\ new.planId = sub[s].planId
    BY <1>t, <1>e DEF Subscription, Status, UsageInv, UsageTypeOK
  <2> QED  BY <1>1, <1>a, <1>p, <2>1 DEF CompleteCheckout
<1>2. CASE PortalToggleCancel(s)
  <2> DEFINE new == [sub[s] EXCEPT !.cancelAtPeriodEnd = ~@]
  <2>1. /\ new \in Subscription
        /\ new.owner = sub[s].owner
        /\ new.planId = sub[s].planId
    BY <1>t DEF Subscription
  <2> QED  BY <1>2, <1>a, <1>p, <2>1 DEF PortalToggleCancel
<1>3. CASE PortalSwitchPlan(s)
  <2> PICK p \in PaidPlans :
         /\ sub[s].status = "active"
         /\ StripeChange(s, [sub[s] EXCEPT !.planId = p], {"updated"})
         /\ Paid(s, [sub[s] EXCEPT !.planId = p])
    BY <1>3 DEF PortalSwitchPlan
  <2> DEFINE new == [sub[s] EXCEPT !.planId = p]
  <2>1. /\ new \in Subscription
        /\ new.owner = sub[s].owner
        /\ new.planId = p
    BY <1>t DEF Subscription
  <2> QED  BY <1>a, <2>1
<1>4. CASE Renew(s)
  BY <1>4, <1>a, <1>n, <1>p DEF Renew
<1>5. CASE RenewalFails(s)
  <2> DEFINE new == [NextPeriod(s) EXCEPT !.status = "past_due"]
  <2>1. /\ new \in Subscription
        /\ new.owner = sub[s].owner
        /\ new.planId = sub[s].planId
    BY <1>n DEF Subscription, Status
  <2> QED  BY <1>5, <1>a, <1>p, <2>1 DEF RenewalFails
<1>6. CASE PaymentRecovers(s)
  <2> DEFINE new == [sub[s] EXCEPT !.status = "active"]
  <2>1. /\ new \in Subscription
        /\ new.owner = sub[s].owner
        /\ new.planId = sub[s].planId
    BY <1>t DEF Subscription, Status
  <2> QED  BY <1>6, <1>a, <1>p, <2>1 DEF PaymentRecovers
<1>7. CASE Cancel(s)
  <2> DEFINE new == [sub[s] EXCEPT !.status = "canceled"]
  <2>1. /\ new \in Subscription
        /\ new.owner = sub[s].owner
        /\ new.planId = sub[s].planId
    BY <1>t DEF Subscription, Status
  <2> QED  BY <1>7, <1>a, <1>p, <2>1 DEF Cancel
<1> QED  BY <1>1, <1>2, <1>3, <1>4, <1>5, <1>6, <1>7 DEF StripeStep

(* A webhook handler writes rows of the tables' types. *)
LEMMA HandlerKeepsType ==
  ASSUME TypeInv, NEW h \in Handlers,
         (\E e \in Event : Deliver(h, e)) \/ HandlerStep(h) \/ HandlerFails(h)
  PROVE  TypeInv'
<1> USE NoneAssumption DEF TypeInv, StripeInv
<1>t. handler \in [Handlers -> HandlerState] /\ handler[h] \in HandlerState
  BY DEF StripeTypeOK
<1>i. IdleHandler \in HandlerState /\ IdleHandler.pc = "idle"
  BY RowTypes DEF IdleHandler
<1>s. handler[h].pc # "idle" => handler[h].sub \in Subs
  BY DEF HandlerInv
<1>f. handler[h].snap \in Subscription
  BY <1>t DEF HandlerState
<1>d. Done(h) => handler' \in [Handlers -> HandlerState] /\ HandlerInv'
  BY <1>t, <1>i DEF Done, HandlerInv
<1>1. CASE \E e \in Event : Deliver(h, e)
  <2> PICK e \in Event : Deliver(h, e)
    BY <1>1
  <2> DEFINE new == [IdleHandler EXCEPT !.pc = "resolve", !.type = e[1], !.sub = e[2]]
  <2>1. new \in HandlerState /\ new.sub \in Subs
    BY <1>i, BillingAssumption DEF HandlerState, Event, EventType
  <2>2. handler' = [handler EXCEPT ![h] = new]
    BY DEF Deliver
  <2> HIDE DEF new
  <2>3. handler' \in [Handlers -> HandlerState] /\ HandlerInv'
    BY <1>t, <2>1, <2>2 DEF HandlerInv
  <2> QED  BY <2>3, UsageUnchanged DEF Deliver, StripeTypeOK, SubInv
<1>2. CASE ResolveActivation(h)
  <2>1. UserByStripeData(handler[h].type, handler[h].sub) \subseteq Users \cup {None}
    BY <1>2, <1>s DEF ResolveActivation, UserByStripeData, StripeTypeOK, Subscription
  <2>2. handler' \in [Handlers -> HandlerState] /\ HandlerInv'
    BY <1>2, <1>t, <1>d, <1>s, <2>1 DEF ResolveActivation, HandlerState, HandlerInv
  <2>3. stripeCustomerId' \in [Users -> Customer]
    BY <1>2, <1>s DEF ResolveActivation, StripeTypeOK, Customer
  <2> QED
    BY <1>2, <2>2, <2>3, UsageUnchanged DEF ResolveActivation, stripeVars, StripeTypeOK, SubInv
<1>3. CASE ProcessRenewal(h)
  BY <1>3, <1>d, UsageUnchanged DEF ProcessRenewal, stripeVars, StripeTypeOK, SubInv
<1>4. CASE ResolveCancellation(h)
  <2>1. UserToDowngrade(handler[h].sub) \subseteq Users \cup {None}
    BY <1>4, <1>s
       DEF ResolveCancellation, UserToDowngrade, UserByStripeData, StripeTypeOK, Subscription
  <2>2. handler' \in [Handlers -> HandlerState] /\ HandlerInv'
    BY <1>4, <1>t, <1>d, <1>s, <2>1 DEF ResolveCancellation, HandlerState, HandlerInv
  <2> QED
    BY <1>4, <2>2, UsageUnchanged DEF ResolveCancellation, stripeVars, StripeTypeOK, SubInv
<1>5. CASE GetSubscriptionDetails(h)
  <2>1. handler[h].sub \in Subs /\ sub[handler[h].sub] \in Subscription
    BY <1>5, <1>s DEF GetSubscriptionDetails, StripeTypeOK
  <2>2. handler' \in [Handlers -> HandlerState] /\ HandlerInv'
    BY <1>5, <1>t, <2>1 DEF GetSubscriptionDetails, HandlerState, HandlerInv
  <2> QED
    BY <1>5, <2>2, UsageUnchanged DEF GetSubscriptionDetails, stripeVars, StripeTypeOK, SubInv
<1>6. CASE UpsertUserAccess(h)
  <2>1. PaidAccess(handler[h].sub, handler[h].snap) \in AccessRow
    <3>1. handler[h].sub \in Subs
      BY <1>6, <1>s DEF UpsertUserAccess
    <3>2. DayOfMonth[handler[h].snap.start] \in Nat
      BY <1>f, CalendarAssumption DEF Subscription
    <3> QED  BY <3>1, <3>2, <1>f DEF PaidAccess, AccessRow, Subscription
  <2>2. access' \in [Users -> AccessRow]
    BY <1>6, <2>1, RowTypes DEF UpsertUserAccess, UsageInv, UsageTypeOK
  <2>3. handler' \in [Handlers -> HandlerState] /\ HandlerInv'
    BY <1>6, <1>t, <1>d, <1>s DEF UpsertUserAccess, HandlerState, HandlerInv
  <2>4. UsageInv'
    BY <1>6, <2>2
       DEF UpsertUserAccess, UsageInv, UsageTypeOK, RequestInv, CronInv, tableVars
  <2> QED  BY <1>6, <2>3, <2>4 DEF UpsertUserAccess, stripeVars, StripeTypeOK, SubInv
<1>7. CASE ResetOnActivation(h)
  <2>1. /\ cycleEnd' \in [Users -> [Instants -> Instants \cup {None}]]
        /\ usedAmount' \in [Users -> [Instants -> Nat]]
    <3> DEFINE end == IF handler[h].snap.interval = "year"
                      THEN NextMonth[handler[h].snap.start] ELSE handler[h].snap.end
    <3>1. end \in Instants
      BY <1>f, BillingAssumption DEF Subscription
    <3> QED  BY <1>7, <3>1, ResetKeepsType DEF ResetOnActivation, UsageInv
  <2>2. UsageInv'
    BY <1>7, <2>1 DEF ResetOnActivation, UsageInv, UsageTypeOK, RequestInv, CronInv
  <2> QED  BY <1>7, <1>d, <2>2 DEF ResetOnActivation, stripeVars, StripeTypeOK, SubInv
<1>8. CASE DowngradeUserToFreeTier(h)
  <2>1. access' \in [Users -> AccessRow]
    BY <1>8, RowTypes DEF DowngradeUserToFreeTier, UsageInv, UsageTypeOK
  <2>2. UsageInv'
    BY <1>8, <2>1
       DEF DowngradeUserToFreeTier, UsageInv, UsageTypeOK, RequestInv, CronInv, tableVars
  <2> QED  BY <1>8, <1>d, <2>2 DEF DowngradeUserToFreeTier, stripeVars, StripeTypeOK, SubInv
<1>9. CASE HandlerFails(h)
  BY <1>9, <1>d, UsageUnchanged DEF HandlerFails, stripeVars, StripeTypeOK, SubInv
<1> QED
  BY <1>1, <1>2, <1>3, <1>4, <1>5, <1>6, <1>7, <1>8, <1>9 DEF HandlerStep

(* A restart forgets what was in memory and nothing else. *)
LEMMA CrashKeepsType ==
  ASSUME TypeInv, Crash
  PROVE  TypeInv'
<1> USE DEF TypeInv
<1>1. req' \in [Requests -> RequestState] /\ handler' \in [Handlers -> HandlerState]
  BY RowTypes DEF Crash
<1>2. RequestInv' /\ HandlerInv' /\ CronInv'
  BY DEF Crash, RequestInv, HandlerInv, CronInv, Idle, IdleHandler, UsageInv, UsageTypeOK
<1>3. UsageInv'
  BY <1>1, <1>2 DEF Crash, UsageInv, UsageTypeOK, tableVars
<1>4. StripeInv'
  BY <1>1, <1>2 DEF Crash, StripeInv, StripeTypeOK, SubInv, stripeVars
<1> QED  BY <1>3, <1>4

(* Every step of the system keeps every variable in its type. *)
LEMMA NextKeepsType ==
  ASSUME TypeInv, [Next]_vars
  PROVE  TypeInv'
<1>1. CASE UsageNext /\ UNCHANGED <<stripeVars, webhookVars>>
  <2>1. UsageInv'
    BY <1>1, UsageNextKeepsType DEF TypeInv
  <2> QED
    BY <1>1, <2>1
       DEF TypeInv, StripeInv, stripeVars, webhookVars, StripeTypeOK, HandlerInv, SubInv
<1>2. CASE \E u \in Users : BeginCheckout(u) \/ FinishCheckout(u)
  BY <1>2, CheckoutKeepsType
<1>3. CASE \E s \in Subs : StripeStep(s)
  BY <1>3, StripeStepKeepsType
<1>4. CASE \E h \in Handlers : (\E e \in Event : Deliver(h, e)) \/ HandlerStep(h)
                               \/ HandlerFails(h)
  BY <1>4, HandlerKeepsType
<1>5. CASE Crash
  BY <1>5, CrashKeepsType
<1>6. CASE UNCHANGED vars
  BY <1>6, UsageUnchanged
     DEF vars, TypeInv, StripeInv, stripeVars, webhookVars, StripeTypeOK, HandlerInv, SubInv
<1> QED  BY <1>1, <1>2, <1>3, <1>4, <1>5, <1>6 DEF Next

(* Every variable always has its type: in particular no access row without  *)
(* an expiry, no cycle without an end, and no usage below zero.             *)
THEOREM TypeCorrect == Spec => []TypeOK
<1>1. Spec => []TypeInv
  BY InitTypeInv, NextKeepsType, PTL DEF Spec
<1>2. TypeInv => TypeOK
  BY DEF TypeInv, UsageInv, StripeInv, TypeOK
<1> QED  BY <1>1, <1>2, PTL

-----------------------------------------------------------------------------
(* No unpaid access.  The access row is written from a snapshot of the      *)
(* subscription that may be stale by then; the argument is that what was    *)
(* paid for only grows, so that a stale snapshot grants too little and      *)
(* never too much.                                                          *)

PaymentInv ==
    \A s \in Subs :
      /\ paidThrough[s] <= sub[s].end
      /\ ~Started(s) => paidThrough[s] = 0 /\ plansHad[s] = {}
      /\ Entitles(sub[s]) => sub[s].planId \in plansHad[s] /\ sub[s].end <= paidThrough[s]

CustomerInv ==
    \A u \in Users : stripeCustomerId[u] \in Subs =>
      Started(stripeCustomerId[u]) /\ sub[stripeCustomerId[u]].owner = u

SnapshotInv ==
    \A h \in Handlers :
      LET s == handler[h].sub IN
      /\ handler[h].pc # "idle" => Started(s)
      /\ handler[h].pc \in {"fetch", "write", "usage"} => handler[h].user = sub[s].owner
      /\ handler[h].pc = "write" /\ Entitles(handler[h].snap) =>
           handler[h].snap.planId \in plansHad[s] /\ handler[h].snap.end <= paidThrough[s]

AccessInv == TypeInv /\ PaymentInv /\ CustomerInv /\ SnapshotInv /\ NoUnpaidAccess

(* What was paid for is never taken back, and a subscription somebody paid  *)
(* for never changes hands.                                                 *)
PaymentGrows ==
    \A s \in Subs :
      /\ Started(s) => Started(s)' /\ sub'[s].owner = sub[s].owner
      /\ plansHad[s] \subseteq plansHad'[s]
      /\ paidThrough[s] <= paidThrough'[s]

(* One change of a subscription at Stripe, paid or not. *)
LEMMA StripeChangeGrows ==
  ASSUME TypeInv, PaymentInv, NEW s \in Subs, NEW new \in Subscription, NEW types,
         StripeChange(s, new, types), new.owner = sub[s].owner,
         new.status \notin {"none", "session"}, sub[s].end <= new.end \/ ~Started(s),
         \/ Paid(s, new)
         \/ UNCHANGED <<paidThrough, plansHad>> /\ Started(s) /\ ~Entitles(new)
         \/ /\ UNCHANGED <<paidThrough, plansHad>> /\ Entitles(sub[s])
            /\ new.planId = sub[s].planId /\ new.end = sub[s].end
  PROVE  PaymentGrows /\ PaymentInv'
<1> USE DEF TypeInv, StripeInv, StripeTypeOK
<1>1. /\ sub' = [sub EXCEPT ![s] = new]
      /\ sub'[s] = new
      /\ \A t \in Subs \ {s} : sub'[t] = sub[t]
  BY DEF StripeChange
<1>2. /\ \A t \in Subs \ {s} : paidThrough'[t] = paidThrough[t] /\ plansHad'[t] = plansHad[t]
      /\ \/ paidThrough'[s] = new.end /\ plansHad'[s] = plansHad[s] \cup {new.planId}
         \/ paidThrough'[s] = paidThrough[s] /\ plansHad'[s] = plansHad[s]
  BY DEF Paid
<1>3. /\ new.end \in Nat
      /\ \A t \in Subs : sub[t].end \in Nat /\ paidThrough[t] \in Nat
  BY DEF Subscription, Instants
<1>4. paidThrough[s] <= new.end
  BY <1>3 DEF PaymentInv
<1>5. PaymentGrows
  BY <1>1, <1>2, <1>3, <1>4 DEF PaymentGrows, Started
<1>6. \A t \in Subs \ {s} : Started(t)' <=> Started(t)
  BY <1>1 DEF Started
<1>7. Started(s)'
  BY <1>1 DEF Started
<1>8. /\ paidThrough'[s] <= sub'[s].end
      /\ Entitles(sub'[s]) => sub'[s].planId \in plansHad'[s] /\ sub'[s].end <= paidThrough'[s]
  <2>1. CASE Paid(s, new)
    BY <2>1, <1>1, <1>3 DEF Paid
  <2>2. CASE UNCHANGED <<paidThrough, plansHad>> /\ Started(s) /\ ~Entitles(new)
    BY <2>2, <1>1, <1>4
  <2>3. CASE /\ UNCHANGED <<paidThrough, plansHad>> /\ Entitles(sub[s])
             /\ new.planId = sub[s].planId /\ new.end = sub[s].end
    BY <2>3, <1>1, <1>4 DEF PaymentInv
  <2> QED  BY <2>1, <2>2, <2>3
<1>9. PaymentInv'
  BY <1>1, <1>2, <1>6, <1>7, <1>8 DEF PaymentInv, Entitles
<1> QED  BY <1>5, <1>9

(* Every step of Stripe's. *)
LEMMA StripeStepGrows ==
  ASSUME TypeInv, PaymentInv, NEW s \in Subs, StripeStep(s)
  PROVE  PaymentGrows /\ PaymentInv'
<1>t. sub[s] \in Subscription /\ sub[s].end \in Nat
  BY DEF TypeInv, StripeInv, StripeTypeOK, Subscription, Instants
<1>e. \A t \in Instants : PeriodEnd(sub[s].interval, t) \in Instants
  BY CalendarAssumption, BillingAssumption DEF PeriodEnd
<1>n. /\ NextPeriod(s) \in Subscription
      /\ NextPeriod(s).owner = sub[s].owner
      /\ NextPeriod(s).status = sub[s].status
  BY <1>t, <1>e DEF NextPeriod, Subscription
<1>1. CASE CompleteCheckout(s)
  <2> DEFINE new == [sub[s] EXCEPT !.status = "active", !.start = now,
                                   !.end = PeriodEnd(sub[s].interval, now)]
  <2>1. new \in Subscription /\ new.owner = sub[s].owner /\ new.status = "active"
    BY <1>t, <1>e DEF Subscription, Status, TypeInv, UsageInv, UsageTypeOK
  <2>2. ~Started(s)
    BY <1>1 DEF CompleteCheckout, Started
  <2>3. StripeChange(s, new, {"checkout", "invoice"}) /\ Paid(s, new)
    BY <1>1 DEF CompleteCheckout
  <2> HIDE DEF new
  <2> QED  BY <2>1, <2>2, <2>3, StripeChangeGrows
<1>2. CASE PortalToggleCancel(s)
  <2> DEFINE new == [sub[s] EXCEPT !.cancelAtPeriodEnd = ~@]
  <2>1. /\ new \in Subscription
        /\ new.owner = sub[s].owner /\ new.planId = sub[s].planId
        /\ new.status = sub[s].status /\ new.end = sub[s].end
    BY <1>t DEF Subscription
  <2>2. StripeChange(s, new, {"updated"}) /\ UNCHANGED <<paidThrough, plansHad>>
    BY <1>2 DEF PortalToggleCancel
  <2>3. sub[s].status = "active" /\ Entitles(sub[s])
    BY <1>2 DEF PortalToggleCancel, Entitles
  <2>4. sub[s].end <= new.end
    BY <1>t, <2>1
  <2> HIDE DEF new
  <2> QED  BY <2>1, <2>2, <2>3, <2>4, StripeChangeGrows
<1>3. CASE PortalSwitchPlan(s)
  <2> PICK p \in PaidPlans :
         /\ sub[s].status = "active"
         /\ StripeChange(s, [sub[s] EXCEPT !.planId = p], {"updated"})
         /\ Paid(s, [sub[s] EXCEPT !.planId = p])
    BY <1>3 DEF PortalSwitchPlan
  <2> DEFINE new == [sub[s] EXCEPT !.planId = p]
  <2>1. /\ new \in Subscription /\ new.owner = sub[s].owner
        /\ new.status = "active" /\ new.end = sub[s].end
    BY <1>t DEF Subscription
  <2>2. StripeChange(s, new, {"updated"}) /\ Paid(s, new)
    OBVIOUS
  <2>3. sub[s].end <= new.end
    BY <1>t, <2>1
  <2> HIDE DEF new
  <2> QED  BY <2>1, <2>2, <2>3, StripeChangeGrows
<1>4. CASE Renew(s)
  <2>1. /\ StripeChange(s, NextPeriod(s), {"updated", "invoice"})
        /\ Paid(s, NextPeriod(s))
        /\ sub[s].status = "active"
        /\ sub[s].end < NextPeriod(s).end
    BY <1>4 DEF Renew, HasNextPeriod
  <2>2. sub[s].end <= NextPeriod(s).end
    BY <1>t, <1>n, <2>1 DEF Subscription, Instants
  <2> QED  BY <1>n, <2>1, <2>2, StripeChangeGrows
<1>5. CASE RenewalFails(s)
  <2> DEFINE new == [NextPeriod(s) EXCEPT !.status = "past_due"]
  <2>1. /\ new \in Subscription /\ new.owner = sub[s].owner
        /\ new.status = "past_due" /\ new.end = NextPeriod(s).end
    BY <1>n DEF Subscription, Status
  <2>2. StripeChange(s, new, {"updated"}) /\ UNCHANGED <<paidThrough, plansHad>>
    BY <1>5 DEF RenewalFails
  <2>3. sub[s].end <= new.end /\ Started(s) /\ ~Entitles(new)
    BY <1>5, <1>n, <1>t, <2>1
       DEF RenewalFails, HasNextPeriod, Started, Entitles, Subscription, Instants
  <2> HIDE DEF new
  <2> QED  BY <2>1, <2>2, <2>3, StripeChangeGrows
<1>6. CASE PaymentRecovers(s)
  <2> DEFINE new == [sub[s] EXCEPT !.status = "active"]
  <2>1. /\ new \in Subscription /\ new.owner = sub[s].owner
        /\ new.status = "active" /\ new.end = sub[s].end
    BY <1>t DEF Subscription, Status
  <2>2. StripeChange(s, new, {"updated", "invoice"}) /\ Paid(s, new)
    BY <1>6 DEF PaymentRecovers
  <2>3. sub[s].end <= new.end
    BY <1>t, <2>1
  <2> HIDE DEF new
  <2> QED  BY <2>1, <2>2, <2>3, StripeChangeGrows
<1>7. CASE Cancel(s)
  <2> DEFINE new == [sub[s] EXCEPT !.status = "canceled"]
  <2>1. /\ new \in Subscription /\ new.owner = sub[s].owner
        /\ new.status = "canceled" /\ new.end = sub[s].end
    BY <1>t DEF Subscription, Status
  <2>2. StripeChange(s, new, {"deleted"}) /\ UNCHANGED <<paidThrough, plansHad>>
    BY <1>7 DEF Cancel
  <2>3. sub[s].end <= new.end /\ Started(s) /\ ~Entitles(new)
    BY <1>7, <1>t, <2>1 DEF Cancel, Started, Entitles
  <2> HIDE DEF new
  <2> QED  BY <2>1, <2>2, <2>3, StripeChangeGrows
<1> QED  BY <1>1, <1>2, <1>3, <1>4, <1>5, <1>6, <1>7 DEF StripeStep

(* A new session belongs to a subscription id nobody has used. *)
LEMMA FinishCheckoutGrows ==
  ASSUME TypeInv, PaymentInv, NEW u \in Users, FinishCheckout(u)
  PROVE  PaymentGrows /\ PaymentInv'
<1> USE DEF TypeInv, StripeInv, StripeTypeOK
<1>1. UNCHANGED <<paidThrough, plansHad>>
  BY DEF FinishCheckout
<1>2. \A t \in Subs : paidThrough[t] \in Nat
  BY DEF Instants
<1>3. CASE UNCHANGED sub
  BY <1>1, <1>2, <1>3 DEF PaymentGrows, PaymentInv, Started, Entitles
<1>4. CASE OpenSession(u)
  <2> PICK s \in Subs, p \in PaidPlans, i \in Intervals :
         /\ sub[s].status = "none"
         /\ sub' = [sub EXCEPT ![s] = [NoSubscription EXCEPT !.status   = "session",
                                                             !.owner    = u,
                                                             !.planId   = p,
                                                             !.interval = i]]
    BY <1>4 DEF OpenSession
  <2> DEFINE session == [NoSubscription EXCEPT !.status = "session", !.owner = u,
                                               !.planId = p, !.interval = i]
  <2>1. session.status = "session" /\ session.end = 0
    BY RowTypes DEF Subscription, NoSubscription
  <2>2. sub' = [sub EXCEPT ![s] = session]
    OBVIOUS
  <2> HIDE DEF session
  <2>3. ~Started(s) /\ ~Started(s)' /\ sub'[s].end = 0 /\ ~Entitles(sub'[s])
    BY <2>1, <2>2 DEF Started, Entitles
  <2>4. \A t \in Subs \ {s} : sub'[t] = sub[t] /\ (Started(t)' <=> Started(t))
    BY <2>2 DEF Started
  <2>5. paidThrough[s] = 0 /\ plansHad[s] = {}
    BY <2>3 DEF PaymentInv
  <2>6. PaymentGrows
    BY <1>1, <1>2, <2>3, <2>4 DEF PaymentGrows
  <2>7. PaymentInv'
    BY <1>1, <1>2, <2>3, <2>4, <2>5 DEF PaymentInv, Entitles
  <2> QED  BY <2>6, <2>7
<1> QED  BY <1>3, <1>4 DEF FinishCheckout

(* Every step of the system. *)
LEMMA NextGrows ==
  ASSUME TypeInv, PaymentInv, [Next]_vars
  PROVE  PaymentGrows /\ PaymentInv'
<1>1. CASE UNCHANGED stripeVars
  <2>1. \A s \in Subs : paidThrough[s] \in Nat
    BY DEF TypeInv, StripeInv, StripeTypeOK, Instants
  <2> QED  BY <1>1, <2>1 DEF stripeVars, PaymentGrows, PaymentInv, Started, Entitles
<1>2. CASE \E h \in Handlers, e \in Event : Deliver(h, e)
  <2>1. \A s \in Subs : paidThrough[s] \in Nat
    BY DEF TypeInv, StripeInv, StripeTypeOK, Instants
  <2> QED  BY <1>2, <2>1 DEF Deliver, PaymentGrows, PaymentInv, Started, Entitles
<1>3. CASE \E u \in Users : FinishCheckout(u)
  BY <1>3, FinishCheckoutGrows
<1>4. CASE \E s \in Subs : StripeStep(s)
  BY <1>4, StripeStepGrows
<1>5. ASSUME NEW h \in Handlers, HandlerStep(h) \/ HandlerFails(h)
      PROVE  UNCHANGED stripeVars
  BY <1>5 DEF HandlerStep, HandlerFails, ResolveActivation, ProcessRenewal,
              ResolveCancellation, GetSubscriptionDetails, UpsertUserAccess,
              ResetOnActivation, DowngradeUserToFreeTier
<1>6. (\E u \in Users : BeginCheckout(u)) \/ Crash \/ UNCHANGED vars => UNCHANGED stripeVars
  BY DEF BeginCheckout, Crash, vars
<1> QED  BY <1>1, <1>2, <1>3, <1>4, <1>5, <1>6 DEF Next

(* The steps that write User.stripeCustomerId, UserAccess or a handler. *)
LEMMA OtherStepsKeepAccess ==
  ASSUME [Next]_vars,
         \A u \in Users : ~BeginCheckout(u) /\ ~FinishCheckout(u),
         \A h \in Handlers : ~HandlerStep(h) /\ ~HandlerFails(h),
         \A h \in Handlers, e \in Event : ~Deliver(h, e),
         ~Crash
  PROVE  UNCHANGED <<stripeCustomerId, access, handler>>
<1>1. CASE UsageNext /\ UNCHANGED <<stripeVars, webhookVars>>
  <2>1. UNCHANGED access
    BY <1>1 DEF UsageNext, Tick, RequestStep, HandleCreditUsage, BeginSubscriptionInfo,
                GetActiveUsageRecord, DeductCredits, GetSubscriptionInfo, JustInTimeReset,
                HandleAnniversaryResets, ResetOnAnniversary
  <2> QED  BY <1>1, <2>1 DEF webhookVars
<1>2. CASE \E s \in Subs : StripeStep(s)
  BY <1>2 DEF StripeStep, CompleteCheckout, PortalToggleCancel, PortalSwitchPlan, Renew,
              RenewalFails, PaymentRecovers, Cancel, StripeChange, usageVars, webhookVars
<1>3. CASE UNCHANGED vars
  BY <1>3 DEF vars, usageVars, webhookVars
<1> QED  BY <1>1, <1>2, <1>3 DEF Next

(* The customer a user row names is a customer of that user's. *)
LEMMA CustomerStep ==
  ASSUME AccessInv, [Next]_vars, PaymentGrows
  PROVE  CustomerInv'
<1>1. SUFFICES ASSUME NEW u \in Users, stripeCustomerId'[u] \in Subs
               PROVE  /\ sub'[stripeCustomerId'[u]].status \notin {"none", "session"}
                      /\ sub'[stripeCustomerId'[u]].owner = u
  BY DEF CustomerInv, Started
<1>2. CASE stripeCustomerId'[u] = stripeCustomerId[u]
  BY <1>1, <1>2 DEF AccessInv, CustomerInv, PaymentGrows, Started
<1>3. CASE stripeCustomerId' # stripeCustomerId
  <2>1. CASE \E v \in Users : FinishCheckout(v)
    <3> PICK v \in Users : FinishCheckout(v)
      BY <2>1
    <3>1. PICK c \in CustomersByEmail(v) :
            stripeCustomerId' = [stripeCustomerId EXCEPT ![v] = c]
      BY <1>3 DEF FinishCheckout
    <3>2. CASE u # v
      BY <1>2, <3>1, <3>2 DEF AccessInv, TypeInv, StripeInv, StripeTypeOK
    <3>3. CASE u = v
      <4>1. stripeCustomerId'[u] = c
        BY <3>1, <3>3 DEF AccessInv, TypeInv, StripeInv, StripeTypeOK
      <4>2. c \in Subs /\ Started(c) /\ sub[c].owner = u
        BY <1>1, <3>3, <4>1, BillingAssumption DEF CustomersByEmail
      <4> QED  BY <4>1, <4>2 DEF PaymentGrows, Started
    <3> QED  BY <3>2, <3>3
  <2>2. CASE \E h \in Handlers : ResolveActivation(h)
    <3> PICK h \in Handlers : ResolveActivation(h)
      BY <2>2
    <3> DEFINE s == handler[h].sub
    <3>1. s \in Subs /\ Started(s)
      BY DEF ResolveActivation, AccessInv, SnapshotInv, TypeInv, StripeInv, HandlerInv
    <3>2. PICK v \in UserByStripeData(handler[h].type, s) :
            stripeCustomerId' = [stripeCustomerId EXCEPT ![v] = s]
      BY <1>3 DEF ResolveActivation
    <3>3. v \in Users => sub[s].owner = v
      BY <3>1, <3>2 DEF UserByStripeData, AccessInv, CustomerInv
    <3>4. CASE u = v
      BY <1>1, <3>1, <3>2, <3>3, <3>4
         DEF PaymentGrows, Started, AccessInv, TypeInv, StripeInv, StripeTypeOK
    <3>5. CASE u # v
      BY <1>2, <3>2, <3>5 DEF AccessInv, TypeInv, StripeInv, StripeTypeOK
    <3> QED  BY <3>4, <3>5
  <2>3. (\E v \in Users : FinishCheckout(v)) \/ (\E h \in Handlers : ResolveActivation(h))
    <3>1. \A v \in Users : BeginCheckout(v) => UNCHANGED stripeCustomerId
      BY DEF BeginCheckout
    <3>2. \A h \in Handlers : HandlerFails(h) => UNCHANGED stripeCustomerId
      BY DEF HandlerFails
    <3>3. \A h \in Handlers, e \in Event : Deliver(h, e) => UNCHANGED stripeCustomerId
      BY DEF Deliver
    <3>4. Crash => UNCHANGED stripeCustomerId
      BY DEF Crash
    <3>5. \A h \in Handlers : HandlerStep(h) /\ ~ResolveActivation(h)
                               => UNCHANGED stripeCustomerId
      BY DEF HandlerStep, ProcessRenewal, ResolveCancellation, GetSubscriptionDetails,
             UpsertUserAccess, ResetOnActivation, DowngradeUserToFreeTier
    <3> QED  BY <1>3, <3>1, <3>2, <3>3, <3>4, <3>5, OtherStepsKeepAccess
  <2> QED  BY <2>1, <2>2, <2>3
<1> QED  BY <1>2, <1>3

(* The steps that leave a handler with something to do. *)
LEMMA HandlerWrites ==
  ASSUME TypeInv, [Next]_vars, NEW h \in Handlers, handler'[h] # handler[h]
  PROVE  \/ handler'[h].pc = "idle"
         \/ \E e \in Event : Deliver(h, e)
         \/ ResolveActivation(h)
         \/ ResolveCancellation(h)
         \/ GetSubscriptionDetails(h)
         \/ UpsertUserAccess(h)
<1>t. handler \in [Handlers -> HandlerState]
  BY DEF TypeInv, StripeInv, StripeTypeOK
<1>1. Crash => handler'[h].pc = "idle"
  BY DEF Crash, IdleHandler
<1>2. \A u \in Users : BeginCheckout(u) \/ FinishCheckout(u) => UNCHANGED handler
  BY DEF BeginCheckout, FinishCheckout
<1>3. \A g \in Handlers : Done(g) => handler'[g].pc = "idle"
  BY <1>t DEF Done, IdleHandler
<1>4. HandlerFails(h) \/ ProcessRenewal(h) \/ ResetOnActivation(h)
      \/ DowngradeUserToFreeTier(h) => handler'[h].pc = "idle"
  BY <1>3 DEF HandlerFails, ProcessRenewal, ResetOnActivation, DowngradeUserToFreeTier
<1>5. \A g \in Handlers \ {h}, e \in Event : Deliver(g, e) => handler'[h] = handler[h]
  BY <1>t DEF Deliver
<1>6. \A g \in Handlers \ {h} : HandlerStep(g) \/ HandlerFails(g)
                                 => handler'[h] = handler[h]
  BY <1>t DEF HandlerStep, HandlerFails, Done, ResolveActivation, ProcessRenewal,
              ResolveCancellation, GetSubscriptionDetails, UpsertUserAccess,
              ResetOnActivation, DowngradeUserToFreeTier
<1> QED
  BY <1>1, <1>2, <1>4, <1>5, <1>6, OtherStepsKeepAccess DEF HandlerStep

(* What a handler knows of its subscription is true, if perhaps too little. *)
LEMMA SnapshotStep ==
  ASSUME AccessInv, [Next]_vars, PaymentGrows
  PROVE  SnapshotInv'
<1> DEFINE Known(h) ==
      LET s == handler[h].sub IN
      /\ handler[h].pc # "idle" => Started(s)
      /\ handler[h].pc \in {"fetch", "write", "usage"} => handler[h].user = sub[s].owner
      /\ handler[h].pc = "write" /\ Entitles(handler[h].snap) =>
           handler[h].snap.planId \in plansHad[s] /\ handler[h].snap.end <= paidThrough[s]
<1>1. SUFFICES ASSUME NEW h \in Handlers PROVE Known(h)'
  BY DEF SnapshotInv
<1>t. /\ handler \in [Handlers -> HandlerState]
      /\ handler[h] \in HandlerState
      /\ handler[h].pc # "idle" => handler[h].sub \in Subs
      /\ paidThrough \in [Subs -> Nat]
      /\ sub \in [Subs -> Subscription]
  BY DEF AccessInv, TypeInv, StripeInv, StripeTypeOK, HandlerInv, Instants
<1>k. Known(h)
  BY DEF AccessInv, SnapshotInv
<1>2. CASE handler'[h] = handler[h]
  <2>1. CASE handler[h].pc = "idle"
    BY <1>2, <2>1
  <2>2. CASE handler[h].pc # "idle"
    <3> DEFINE s == handler[h].sub
    <3>1. s \in Subs /\ Started(s)
      BY <1>t, <1>k, <2>2
    <3>2. /\ sub'[s].status \notin {"none", "session"}
          /\ sub'[s].owner = sub[s].owner
          /\ plansHad[s] \subseteq plansHad'[s]
          /\ paidThrough[s] <= paidThrough'[s]
      BY <3>1 DEF PaymentGrows, Started
    <3>3. Entitles(handler[h].snap)' => Entitles(handler[h].snap)
      BY <1>2 DEF Entitles
    <3>4. handler[h].snap.end \in Nat /\ paidThrough[s] \in Nat /\ paidThrough'[s] \in Nat
      <4>1. TypeInv'
        BY NextKeepsType DEF AccessInv
      <4> QED  BY <1>t, <3>1, <4>1
                  DEF HandlerState, Subscription, Instants, TypeInv, StripeInv, StripeTypeOK
    <3> QED  BY <1>2, <1>k, <2>2, <3>2, <3>3, <3>4 DEF Started
  <2> QED  BY <2>1, <2>2
<1>3. CASE handler'[h].pc = "idle"
  BY <1>3
<1>4. CASE \E e \in Event : Deliver(h, e)
  <2> PICK e \in Event : Deliver(h, e)
    BY <1>4
  <2>1. handler'[h].pc = "resolve" /\ handler'[h].sub = e[2]
    BY <1>t, RowTypes DEF Deliver, HandlerState
  <2>2. e[2] \in Subs /\ Started(e[2])
    BY DEF Deliver, Sent, Event
  <2> QED  BY <2>1, <2>2 DEF PaymentGrows, Started
<1>5. CASE ResolveActivation(h) /\ handler'[h].pc # "idle"
  <2> DEFINE s == handler[h].sub
  <2>1. s \in Subs /\ Started(s)
    BY <1>5, <1>t, <1>k DEF ResolveActivation
  <2>2. PICK u \in UserByStripeData(handler[h].type, s) :
          handler' = [handler EXCEPT ![h].pc = "fetch", ![h].user = u]
    BY <1>5, <1>t, RowTypes DEF ResolveActivation, Done, IdleHandler
  <2>3. u = sub[s].owner
    BY <2>1, <2>2 DEF UserByStripeData, AccessInv, CustomerInv
  <2>4. handler'[h].pc = "fetch" /\ handler'[h].sub = s /\ handler'[h].user = u
    BY <1>t, <2>2 DEF HandlerState
  <2> QED  BY <2>1, <2>3, <2>4 DEF PaymentGrows, Started
<1>6. CASE ResolveCancellation(h) /\ handler'[h].pc # "idle"
  <2> DEFINE s == handler[h].sub
  <2>1. s \in Subs /\ Started(s)
    BY <1>6, <1>t, <1>k DEF ResolveCancellation
  <2>2. handler'[h].pc = "downgrade" /\ handler'[h].sub = s
    BY <1>6, <1>t, RowTypes DEF ResolveCancellation, Done, IdleHandler, HandlerState
  <2> QED  BY <2>1, <2>2 DEF PaymentGrows, Started
<1>7. CASE GetSubscriptionDetails(h)
  <2> DEFINE s == handler[h].sub
  <2>1. s \in Subs /\ Started(s) /\ handler[h].user = sub[s].owner
    BY <1>7, <1>t, <1>k DEF GetSubscriptionDetails
  <2>2. /\ handler'[h].pc = "write" /\ handler'[h].sub = s
        /\ handler'[h].user = handler[h].user /\ handler'[h].snap = sub[s]
    BY <1>7, <1>t DEF GetSubscriptionDetails, HandlerState
  <2>3. UNCHANGED stripeVars
    BY <1>7 DEF GetSubscriptionDetails
  <2>4. Entitles(sub[s]) => sub[s].planId \in plansHad[s] /\ sub[s].end <= paidThrough[s]
    BY <2>1 DEF AccessInv, PaymentInv
  <2> QED  BY <2>1, <2>2, <2>3, <2>4 DEF stripeVars, Started, Entitles
<1>8. CASE UpsertUserAccess(h) /\ handler'[h].pc # "idle"
  <2> DEFINE s == handler[h].sub
  <2>1. s \in Subs /\ Started(s) /\ handler[h].user = sub[s].owner
    BY <1>8, <1>t, <1>k DEF UpsertUserAccess
  <2>2. handler'[h].pc = "usage" /\ handler'[h].sub = s /\ handler'[h].user = handler[h].user
    BY <1>8, <1>t, RowTypes DEF UpsertUserAccess, Done, IdleHandler, HandlerState
  <2> QED  BY <2>1, <2>2 DEF PaymentGrows, Started
<1>9. handler'[h] # handler[h] =>
        \/ handler'[h].pc = "idle"
        \/ \E e \in Event : Deliver(h, e)
        \/ ResolveActivation(h)
        \/ ResolveCancellation(h)
        \/ GetSubscriptionDetails(h)
        \/ UpsertUserAccess(h)
  BY HandlerWrites DEF AccessInv
<1> HIDE DEF Known
<1> QED  BY <1>2, <1>3, <1>4, <1>5, <1>6, <1>7, <1>8, <1>9

(* The steps that write an access row. *)
LEMMA AccessWrites ==
  ASSUME TypeInv, [Next]_vars, NEW u \in Users, access'[u] # access[u]
  PROVE  \/ access'[u] = FreeAccess
         \/ \E h \in Handlers : UpsertUserAccess(h)
<1>t. /\ access \in [Users -> AccessRow]
      /\ handler \in [Handlers -> HandlerState]
  BY DEF TypeInv, UsageInv, UsageTypeOK, StripeInv, StripeTypeOK
<1>1. \A v \in Users : BeginCheckout(v) \/ FinishCheckout(v) => UNCHANGED access
  BY DEF BeginCheckout, FinishCheckout, usageVars
<1>2. \A h \in Handlers : HandlerFails(h) => UNCHANGED access
  BY DEF HandlerFails, usageVars
<1>3. \A h \in Handlers, e \in Event : Deliver(h, e) => UNCHANGED access
  BY DEF Deliver, usageVars
<1>4. Crash => UNCHANGED access
  BY DEF Crash
<1>5. \A h \in Handlers : DowngradeUserToFreeTier(h) =>
        access'[u] = access[u] \/ access'[u] = FreeAccess
  BY <1>t DEF DowngradeUserToFreeTier
<1>6. \A h \in Handlers : HandlerStep(h) /\ ~DowngradeUserToFreeTier(h)
                          /\ ~UpsertUserAccess(h) => UNCHANGED access
  BY DEF HandlerStep, ResolveActivation, ProcessRenewal, ResolveCancellation,
         GetSubscriptionDetails, ResetOnActivation, usageVars
<1> QED  BY <1>1, <1>2, <1>3, <1>4, <1>5, <1>6, OtherStepsKeepAccess

(* The access row a handler writes is paid for: by its snapshot, or FREE. *)
LEMMA AccessStep ==
  ASSUME AccessInv, [Next]_vars, PaymentGrows
  PROVE  NoUnpaidAccess'
<1> DEFINE PaidRow(u) ==
      access[u].planId \in PaidPlans =>
        LET s == access[u].subscriptionId IN
        /\ s \in Subs
        /\ sub[s].owner = u
        /\ access[u].planId \in plansHad[s]
        /\ access[u].expiresAt <= paidThrough[s]
<1>1. SUFFICES ASSUME NEW u \in Users PROVE PaidRow(u)'
  BY DEF NoUnpaidAccess
<1>t. /\ access \in [Users -> AccessRow]
      /\ handler \in [Handlers -> HandlerState]
      /\ paidThrough \in [Subs -> Nat] /\ paidThrough' \in [Subs -> Nat]
  <2>1. TypeInv'
    BY NextKeepsType DEF AccessInv
  <2> QED
    BY <2>1 DEF AccessInv, TypeInv, UsageInv, UsageTypeOK, StripeInv, StripeTypeOK, Instants
<1>2. CASE access'[u] = access[u]
  <2>1. CASE access[u].planId \notin PaidPlans
    BY <1>2, <2>1
  <2>2. CASE access[u].planId \in PaidPlans
    <3> DEFINE s == access[u].subscriptionId
    <3>1. /\ s \in Subs /\ sub[s].owner = u
          /\ access[u].planId \in plansHad[s] /\ access[u].expiresAt <= paidThrough[s]
      BY <2>2 DEF AccessInv, NoUnpaidAccess
    <3>2. Started(s)
      BY <3>1 DEF AccessInv, PaymentInv
    <3>3. /\ sub'[s].owner = sub[s].owner /\ plansHad[s] \subseteq plansHad'[s]
          /\ paidThrough[s] <= paidThrough'[s]
      BY <3>1, <3>2 DEF PaymentGrows
    <3>4. access[u].expiresAt \in Nat
      BY <1>t DEF AccessRow, Instants
    <3>5. access[u].expiresAt <= paidThrough'[s]
      BY <1>t, <3>1, <3>3, <3>4
    <3> QED  BY <1>2, <3>1, <3>3, <3>5
  <2> QED  BY <2>1, <2>2
<1>3. CASE access'[u] = FreeAccess
  BY <1>3, PlansAssumption DEF FreeAccess
<1>4. ASSUME NEW h \in Handlers, UpsertUserAccess(h), access'[u] # access[u],
             access'[u] # FreeAccess
      PROVE  PaidRow(u)'
  <2> DEFINE s    == handler[h].sub
             snap == handler[h].snap
  <2>1. /\ Entitles(snap)
        /\ access' = [access EXCEPT ![handler[h].user] = PaidAccess(s, snap)]
    BY <1>4, <1>t DEF UpsertUserAccess
  <2>2. handler[h].user = u /\ access'[u] = PaidAccess(s, snap)
    BY <1>4, <1>t, <2>1
  <2>3. handler[h].pc = "write" /\ s \in Subs
    BY <1>4 DEF UpsertUserAccess, AccessInv, TypeInv, StripeInv, HandlerInv
  <2>4. /\ handler[h].user = sub[s].owner
        /\ snap.planId \in plansHad[s] /\ snap.end <= paidThrough[s]
    BY <2>1, <2>3 DEF AccessInv, SnapshotInv
  <2>5. UNCHANGED <<sub, plansHad, paidThrough>>
    BY <1>4 DEF UpsertUserAccess, stripeVars
  <2> QED  BY <2>2, <2>3, <2>4, <2>5 DEF PaidAccess
<1>5. access'[u] # access[u] =>
        \/ access'[u] = FreeAccess
        \/ \E h \in Handlers : UpsertUserAccess(h)
  BY AccessWrites DEF AccessInv
<1> HIDE DEF PaidRow
<1> QED  BY <1>2, <1>3, <1>4, <1>5

(* Nobody pays before the first subscription. *)
LEMMA InitAccessInv == Init => AccessInv
<1> SUFFICES ASSUME Init PROVE AccessInv
  OBVIOUS
<1>1. TypeInv
  BY InitTypeInv
<1>2. PaymentInv
  BY DEF Init, PaymentInv, NoSubscription, Started, Entitles
<1>3. CustomerInv
  BY NoneAssumption DEF Init, CustomerInv
<1>4. SnapshotInv
  BY DEF Init, SnapshotInv, IdleHandler
<1>5. NoUnpaidAccess
  BY PlansAssumption, NoneAssumption
     DEF Init, UsageInit, UsageInitFor, NoUnpaidAccess, FreeAccess, NoAccess
<1> QED  BY <1>1, <1>2, <1>3, <1>4, <1>5 DEF AccessInv

(* Every step keeps the inductive invariant. *)
LEMMA NextKeepsAccess ==
  ASSUME AccessInv, [Next]_vars
  PROVE  AccessInv' /\ PaymentGrows
<1>1. TypeInv'
  BY NextKeepsType DEF AccessInv
<1>2. PaymentGrows /\ PaymentInv'
  BY NextGrows DEF AccessInv
<1> QED  BY <1>1, <1>2, CustomerStep, SnapshotStep, AccessStep DEF AccessInv

(* A paid access names a subscription the same user bought, on a plan it    *)
(* was paid for, and does not outlast what was paid: for any number of      *)
(* webhooks in progress, duplicated, reordered, lost or cut off by a crash. *)
THEOREM PaidAccessIsPaidFor == Spec => []NoUnpaidAccess
<1>1. Spec => []AccessInv
  BY InitAccessInv, NextKeepsAccess, PTL DEF Spec
<1>2. AccessInv => NoUnpaidAccess
  BY DEF AccessInv
<1> QED  BY <1>1, <1>2, PTL

-----------------------------------------------------------------------------
(* The access row and Stripe.  A user is undisturbed while events are       *)
(* processed one at a time and none fails; then whatever Stripe has changed *)
(* since the row was written is still to be delivered.                      *)

\* The events that are processed, not skipped, reach the endpoint.
Registered == {"checkout", "updated", "deleted"} \subseteq Subscribed

\* Some event about s, other than an invoice, is not delivered yet.
Owed(s) == \E t \in {"checkout", "updated", "deleted"} : <<t, s>> \in pending

MirrorOf(s, snap) == IF Entitles(snap) THEN PaidAccess(s, snap) ELSE FreeAccess

Mirrored(u) == stripeCustomerId[u] \in Subs =>
                 \/ access[u] = MirrorOf(stripeCustomerId[u], sub[stripeCustomerId[u]])
                 \/ Owed(stripeCustomerId[u])

Named(u) == access[u].subscriptionId \in {None, stripeCustomerId[u]}

\* The handler h processes an event of u.
For(h, u) == handler[h].pc # "idle" /\ sub[handler[h].sub].owner = u

ProcessedFor(h, u) ==
    LET s == handler[h].sub IN
    /\ handler[h].type = "deleted" => sub[s].status = "canceled"
    /\ handler[h].pc = "resolve" =>
         /\ Named(u)
         /\ handler[h].type = "invoice" \/ s # stripeCustomerId[u] => Mirrored(u)
    /\ handler[h].pc # "resolve" => stripeCustomerId[u] = s /\ handler[h].user = u
    /\ handler[h].pc \in {"write", "usage"} => handler[h].snap = sub[s] \/ Owed(s)
    /\ handler[h].pc = "usage" => /\ Entitles(handler[h].snap)
                                  /\ access[u] = PaidAccess(s, handler[h].snap)
    /\ handler[h].pc = "downgrade" => handler[h].type = "deleted"

\* The checkout of s is to be processed still, by a handler or later.
Unprocessed(s) ==
    \/ <<"checkout", s>> \in pending
    \/ \E h \in Handlers : /\ handler[h].pc = "resolve"
                           /\ handler[h].type = "checkout"
                           /\ handler[h].sub = s

MirrorFor(u) ==
    /\ (\A h \in Handlers : ~For(h, u)) => Mirrored(u) /\ Named(u)
    /\ \A h \in Handlers : For(h, u) =>
         /\ ProcessedFor(h, u)
         /\ u \notin checkout
         /\ \A g \in Handlers : For(g, u) => g = h
    /\ u \in checkout => access[u].subscriptionId = None
    /\ stripeCustomerId[u] = None \/ u \in checkout =>
         \A s \in Subs : Started(s) /\ sub[s].owner = u => Unprocessed(s)

\* A row that names a subscription is a paid one; who is downgraded has bought it.
RowsInv ==
    /\ \A u \in Users : access[u].subscriptionId \in Subs => access[u].planId \in PaidPlans
    /\ \A h \in Handlers : handler[h].pc = "downgrade" =>
         handler[h].user = sub[handler[h].sub].owner

MirrorInv == Registered /\ RowsInv /\ \A u \in Users \ disturbed : MirrorFor(u)

(* Nothing in process and nothing owed: the row is as Stripe has it.        *)
LEMMA MirrorSuffices ==
  ASSUME AccessInv, MirrorInv
  PROVE  AccessMirrorsStripe
<1> SUFFICES ASSUME NEW u \in Users, Quiet(u), stripeCustomerId[u] \in Subs
             PROVE  access[u] = MirrorOf(stripeCustomerId[u], sub[stripeCustomerId[u]])
  BY DEF AccessMirrorsStripe, MirrorOf
<1> DEFINE s == stripeCustomerId[u]
<1>1. u \notin disturbed /\ \A h \in Handlers : ~For(h, u)
  BY DEF Quiet, Busy, For
<1>2. Mirrored(u)
  BY <1>1 DEF MirrorInv, MirrorFor
<1>3. sub[s].owner = u
  BY DEF AccessInv, CustomerInv
<1>4. ~Owed(s)
  <2>1. \A t : <<t, s>> \in pending => sub[s].owner # u
    BY DEF Quiet
  <2> QED  BY <1>3, <2>1 DEF Owed
<1> QED  BY <1>2, <1>4 DEF Mirrored

LEMMA InitMirrorInv == Init /\ Registered => MirrorInv
<1> SUFFICES ASSUME Init, Registered PROVE MirrorInv
  OBVIOUS
<1>1. \A h \in Handlers : handler[h] = IdleHandler
  BY DEF Init
<1>2. \A u \in Users : stripeCustomerId[u] = None /\ access[u].subscriptionId = None
  BY DEF Init, UsageInit, UsageInitFor, FreeAccess, NoAccess
<1>3. RowsInv
  BY <1>1, <1>2, NoneAssumption DEF RowsInv, IdleHandler
<1>4. ASSUME NEW u \in Users PROVE MirrorFor(u)
  <2>1. \A h \in Handlers : ~For(h, u)
    BY <1>1 DEF For, IdleHandler
  <2>2. Mirrored(u) /\ Named(u)
    BY <1>2, NoneAssumption DEF Mirrored, Named
  <2>3. checkout = {} /\ \A s \in Subs : ~Started(s)
    BY DEF Init, Started, NoSubscription
  <2> QED  BY <2>1, <2>2, <2>3 DEF MirrorFor
<1> QED  BY <1>3, <1>4 DEF MirrorInv

(* What one event in process promises of a user, told with the values it    *)
(* reads, so that it can be carried from one state to the next.             *)
LEMMA MirrorKept ==
  ASSUME AccessInv, PaymentGrows, NEW u \in Users, MirrorFor(u),
         stripeCustomerId'[u] = stripeCustomerId[u],
         access'[u] = access[u],
         u \in checkout' <=> u \in checkout,
         \A h \in Handlers : For(h, u) \/ For(h, u)' => handler'[h] = handler[h],
         \A s \in Subs : Started(s) /\ sub[s].owner = u =>
           /\ sub'[s] = sub[s] \/ Owed(s)'
           /\ sub[s].status = "canceled" => sub'[s] = sub[s]
           /\ Owed(s) => Owed(s)'
           /\ <<"checkout", s>> \in pending => <<"checkout", s>> \in pending',
         \A s \in Subs : Started(s)' /\ ~Started(s) /\ sub'[s].owner = u =>
           <<"checkout", s>> \in pending'
  PROVE  MirrorFor(u)'
<1>1. ASSUME NEW h \in Handlers PROVE For(h, u)' <=> For(h, u)
  <2>1. CASE For(h, u) \/ For(h, u)'
    <3>1. handler'[h] = handler[h] /\ handler[h].pc # "idle"
      BY <2>1 DEF For
    <3>2. handler[h].sub \in Subs /\ Started(handler[h].sub)
      BY <3>1 DEF AccessInv, SnapshotInv, TypeInv, StripeInv, HandlerInv
    <3>3. sub'[handler[h].sub].owner = sub[handler[h].sub].owner
      BY <3>2 DEF PaymentGrows
    <3> QED  BY <3>1, <3>3 DEF For
  <2> QED  BY <2>1
<1>2. ASSUME Mirrored(u) PROVE Mirrored(u)'
  <2> SUFFICES ASSUME stripeCustomerId[u] \in Subs
               PROVE  Mirrored(u)'
    BY DEF Mirrored
  <2>1. PICK s \in Subs : s = stripeCustomerId[u]
    OBVIOUS
  <2>2. Started(s) /\ sub[s].owner = u
    BY <2>1 DEF AccessInv, CustomerInv
  <2>3. CASE sub'[s] = sub[s] /\ ~Owed(s)'
    <3>1. access[u] = MirrorOf(s, sub[s])
      BY <1>2, <2>1, <2>2, <2>3 DEF Mirrored
    <3>2. access'[u] = MirrorOf(s, sub'[s])
      BY <3>1, <2>3
    <3> QED  BY <3>2, <2>1 DEF Mirrored, MirrorOf, Entitles, PaidAccess
  <2>4. CASE Owed(s)'
    BY <2>1, <2>4 DEF Mirrored, Owed
  <2> QED  BY <2>2, <2>3, <2>4
<1>3. Named(u)' <=> Named(u)
  BY DEF Named
<1>4. ASSUME NEW h \in Handlers, For(h, u), ProcessedFor(h, u)
      PROVE  ProcessedFor(h, u)'
  <2>1. handler'[h] = handler[h] /\ handler[h].pc # "idle"
    BY <1>4 DEF For
  <2>2. PICK s \in Subs : s = handler[h].sub
    BY <2>1 DEF AccessInv, TypeInv, StripeInv, HandlerInv
  <2>3. Started(s) /\ sub[s].owner = u
    BY <1>4, <2>1, <2>2 DEF For, AccessInv, SnapshotInv
  <2>4. handler[h].type = "deleted" => sub'[s].status = "canceled"
    BY <1>4, <2>2, <2>3 DEF ProcessedFor
  <2>5. handler[h].pc = "resolve" =>
          /\ Named(u)'
          /\ handler[h].type = "invoice" \/ s # stripeCustomerId[u] => Mirrored(u)'
    BY <1>2, <1>3, <1>4, <2>2 DEF ProcessedFor
  <2>6. handler[h].pc # "resolve" => stripeCustomerId[u] = s /\ handler[h].user = u
    BY <1>4, <2>2 DEF ProcessedFor
  <2>7. handler[h].pc \in {"write", "usage"} => handler[h].snap = sub'[s] \/ Owed(s)'
    BY <1>4, <2>2, <2>3 DEF ProcessedFor
  <2>8. handler[h].pc = "usage" => /\ Entitles(handler[h].snap)
                                  /\ access[u] = PaidAccess(s, handler[h].snap)
    BY <1>4, <2>2 DEF ProcessedFor
  <2>9. handler[h].pc = "downgrade" => handler[h].type = "deleted"
    BY <1>4 DEF ProcessedFor
  <2>10. handler'[h].sub = s
    BY <2>1, <2>2
  <2> QED  BY <2>1, <2>4, <2>5, <2>6, <2>7, <2>8, <2>9, <2>10
              DEF ProcessedFor, Entitles, PaidAccess, Owed
<1>5. ASSUME NEW s \in Subs, Started(s), sub[s].owner = u, Unprocessed(s)
      PROVE  Unprocessed(s)'
  <2>1. CASE <<"checkout", s>> \in pending
    BY <1>5, <2>1 DEF Unprocessed
  <2>2. ASSUME NEW h \in Handlers, handler[h].pc = "resolve",
               handler[h].type = "checkout", handler[h].sub = s
        PROVE  Unprocessed(s)'
    BY <1>5, <2>2 DEF Unprocessed, For
  <2> QED  BY <1>5, <2>1, <2>2 DEF Unprocessed
<1>6. ASSUME stripeCustomerId'[u] = None \/ u \in checkout',
             NEW s \in Subs, Started(s)', sub'[s].owner = u
      PROVE  Unprocessed(s)'
  <2>1. CASE Started(s)
    BY <1>5, <1>6, <2>1 DEF MirrorFor, PaymentGrows
  <2>2. CASE ~Started(s)
    BY <1>6, <2>2 DEF Unprocessed
  <2> QED  BY <2>1, <2>2
<1>7. (\A h \in Handlers : ~For(h, u)') => Mirrored(u)' /\ Named(u)'
  BY <1>1, <1>2, <1>3 DEF MirrorFor
<1>8. ASSUME NEW h \in Handlers, For(h, u)'
      PROVE  ProcessedFor(h, u)' /\ u \notin checkout' /\ \A g \in Handlers : For(g, u)' => g = h
  BY <1>1, <1>4, <1>8 DEF MirrorFor
<1>9. u \in checkout' => access'[u].subscriptionId = None
  BY DEF MirrorFor
<1> QED  BY <1>6, <1>7, <1>8, <1>9 DEF MirrorFor

(* Who a cancellation downgrades has bought the subscription. *)
LEMMA DowngradesTheOwner ==
  ASSUME AccessInv, RowsInv, NEW s \in Subs, NEW u \in UserToDowngrade(s)
  PROVE  u \in Users /\ sub[s].owner = u
<1>1. CASE u \in Users /\ stripeCustomerId[u] = s
  BY <1>1 DEF AccessInv, CustomerInv
<1>2. CASE u \in Users /\ access[u].subscriptionId = s
  <2>1. access[u].planId \in PaidPlans
    BY <1>2 DEF RowsInv
  <2> QED  BY <1>2, <2>1 DEF AccessInv, NoUnpaidAccess
<1> QED  BY <1>1, <1>2 DEF UserToDowngrade, UserByStripeData

(* A row that names a subscription is written with a paid plan. *)
LEMMA RowsStep ==
  ASSUME AccessInv, RowsInv, [Next]_vars, PaymentGrows
  PROVE  RowsInv'
<1>t. /\ access \in [Users -> AccessRow]
      /\ handler \in [Handlers -> HandlerState]
      /\ plansHad \in [Subs -> SUBSET PaidPlans]
  BY DEF AccessInv, TypeInv, UsageInv, UsageTypeOK, StripeInv, StripeTypeOK
<1>1. ASSUME NEW u \in Users, access'[u].subscriptionId \in Subs
      PROVE  access'[u].planId \in PaidPlans
  <2>1. CASE access'[u] = access[u]
    BY <1>1, <2>1 DEF RowsInv
  <2>2. CASE access'[u] = FreeAccess
    BY <1>1, <2>2, NoneAssumption DEF FreeAccess
  <2>3. ASSUME NEW h \in Handlers, UpsertUserAccess(h), access'[u] # access[u],
               access'[u] # FreeAccess
        PROVE  access'[u].planId \in PaidPlans
    <3> DEFINE s == handler[h].sub  snap == handler[h].snap
    <3>1. Entitles(snap) /\ access' = [access EXCEPT ![handler[h].user] = PaidAccess(s, snap)]
      BY <2>3, <1>t DEF UpsertUserAccess
    <3>2. access'[u] = PaidAccess(s, snap)
      BY <2>3, <1>t, <3>1
    <3>3. handler[h].pc = "write" /\ s \in Subs
      BY <2>3 DEF UpsertUserAccess, AccessInv, TypeInv, StripeInv, HandlerInv
    <3>4. snap.planId \in PaidPlans
      BY <1>t, <3>1, <3>3 DEF AccessInv, SnapshotInv
    <3> QED  BY <3>2, <3>4 DEF PaidAccess
  <2> QED  BY <2>1, <2>2, <2>3, AccessWrites DEF AccessInv
<1>2. ASSUME NEW h \in Handlers, handler'[h].pc = "downgrade"
      PROVE  handler'[h].user = sub'[handler'[h].sub].owner
  <2>1. CASE handler'[h] = handler[h]
    <3> PICK s \in Subs : s = handler[h].sub /\ Started(s)
      BY <1>2, <2>1 DEF AccessInv, SnapshotInv, TypeInv, StripeInv, HandlerInv
    <3>1. sub'[s].owner = sub[s].owner
      BY DEF PaymentGrows
    <3>2. handler[h].user = sub[s].owner
      BY <1>2, <2>1 DEF RowsInv
    <3> QED  BY <2>1, <3>1, <3>2
  <2>2. CASE ResolveCancellation(h)
    <3> PICK s \in Subs : s = handler[h].sub
      BY <2>2 DEF ResolveCancellation, AccessInv, TypeInv, StripeInv, HandlerInv
    <3>1. PICK u \in UserToDowngrade(s) :
            handler' = [handler EXCEPT ![h].pc = "downgrade", ![h].user = u]
      BY <1>2, <1>t, <2>2, RowTypes DEF ResolveCancellation, Done, IdleHandler
    <3>2. u = sub[s].owner
      BY <3>1, DowngradesTheOwner
    <3>3. handler'[h].user = u /\ handler'[h].sub = s
      BY <3>1, <1>t DEF HandlerState
    <3>4. sub' = sub
      BY <2>2 DEF ResolveCancellation, stripeVars
    <3> QED  BY <3>2, <3>3, <3>4
  <2>3. handler'[h] # handler[h] => ResolveCancellation(h)
    <3>1. \A e \in Event : Deliver(h, e) => handler'[h].pc = "resolve"
      BY <1>t, RowTypes DEF Deliver, HandlerState
    <3>2. ResolveActivation(h) => handler'[h].pc \in {"idle", "fetch"}
      BY <1>t DEF ResolveActivation, Done, IdleHandler, HandlerState
    <3>3. GetSubscriptionDetails(h) => handler'[h].pc = "write"
      BY <1>t DEF GetSubscriptionDetails, HandlerState
    <3>4. UpsertUserAccess(h) => handler'[h].pc \in {"idle", "usage"}
      BY <1>t DEF UpsertUserAccess, Done, IdleHandler, HandlerState
    <3> QED  BY <1>2, <3>1, <3>2, <3>3, <3>4, HandlerWrites DEF AccessInv
  <2> QED  BY <2>1, <2>2, <2>3
<1> QED  BY <1>1, <1>2 DEF RowsInv

(* A step that touches nothing the invariant is about. *)
LEMMA MirrorUnchanged ==
  ASSUME AccessInv, PaymentGrows, NEW u \in Users, MirrorFor(u),
         UNCHANGED <<access, sub, pending, handler, stripeCustomerId, checkout>>
  PROVE  MirrorFor(u)'
<1>1. \A s \in Subs : Started(s)' <=> Started(s)
  BY DEF Started
<1>2. \A s \in Subs : Owed(s)' <=> Owed(s)
  BY DEF Owed
<1> QED  BY <1>1, <1>2, MirrorKept

(* A user begins a checkout only when nothing of that user's is in process, *)
(* or is disturbed.                                                         *)
LEMMA BeginCheckoutKeepsMirror ==
  ASSUME AccessInv, PaymentGrows, NEW v \in Users, BeginCheckout(v),
         NEW u \in Users, u \notin disturbed', MirrorFor(u)
  PROVE  MirrorFor(u)'
<1>1. UNCHANGED <<access, sub, pending, handler, stripeCustomerId>>
  BY DEF BeginCheckout, usageVars, stripeVars
<1>2. /\ \A s \in Subs : Started(s)' <=> Started(s)
      /\ \A s \in Subs : Owed(s)' <=> Owed(s)
  BY <1>1 DEF Started, Owed
<1>3. CASE u # v
  <2>1. u \in checkout' <=> u \in checkout
    BY <1>3 DEF BeginCheckout
  <2> QED  BY <1>1, <1>2, <2>1, MirrorKept
<1>4. CASE u = v
  <2>1. stripeCustomerId[u] = None /\ ~Busy(u)
    BY <1>4 DEF BeginCheckout
  <2>2. \A h \in Handlers : ~For(h, u)
    BY <2>1 DEF Busy, For
  <2>3. \A h \in Handlers : ~For(h, u)'
    BY <1>1, <2>2 DEF For
  <2>4. Mirrored(u) /\ Named(u)
    BY <2>2 DEF MirrorFor
  <2>5. access[u].subscriptionId = None
    BY <2>1, <2>4 DEF Named
  <2>6. Mirrored(u)' /\ Named(u)'
    BY <1>1, <2>1, <2>5, NoneAssumption DEF Mirrored, Named
  <2>7. ASSUME NEW s \in Subs, Started(s), sub[s].owner = u
        PROVE  Unprocessed(s)'
    <3>1. Unprocessed(s)
      BY <2>1, <2>7 DEF MirrorFor
    <3> QED  BY <1>1, <3>1 DEF Unprocessed
  <2>8. \A s \in Subs : Started(s)' /\ sub'[s].owner = u => Unprocessed(s)'
    BY <1>1, <1>2, <2>7
  <2> QED  BY <1>1, <2>3, <2>5, <2>6, <2>8 DEF MirrorFor
<1> QED  BY <1>3, <1>4

(* The customer a checkout stores is new, or its checkout event is still    *)
(* to be processed.                                                         *)
LEMMA FinishCheckoutKeepsMirror ==
  ASSUME AccessInv, PaymentGrows, NEW v \in Users, FinishCheckout(v),
         NEW u \in Users, MirrorFor(u)
  PROVE  MirrorFor(u)'
<1>t. stripeCustomerId \in [Users -> Customer] /\ sub \in [Subs -> Subscription]
  BY DEF AccessInv, TypeInv, StripeInv, StripeTypeOK
<1>1. UNCHANGED <<access, pending, handler>>
  BY DEF FinishCheckout, usageVars
<1>2. \A s \in Subs : Owed(s)' <=> Owed(s)
  BY <1>1 DEF Owed
<1>3. \A s \in Subs : \/ sub'[s] = sub[s]
                      \/ /\ sub[s].status = "none"
                         /\ sub'[s].status = "session"
  <2>1. CASE UNCHANGED sub
    BY <2>1
  <2>2. CASE OpenSession(v)
    BY <2>2, <1>t, RowTypes DEF OpenSession, Subscription
  <2> QED  BY <2>1, <2>2 DEF FinishCheckout
<1>4. \A s \in Subs : /\ Started(s)' <=> Started(s)
                      /\ Started(s) => sub'[s] = sub[s]
  BY <1>3 DEF Started
<1>5. CASE stripeCustomerId'[u] = stripeCustomerId[u] /\ (u \in checkout' <=> u \in checkout)
  <2>1. \A s \in Subs : Started(s) /\ sub[s].owner = u =>
           /\ sub'[s] = sub[s] \/ Owed(s)'
           /\ sub[s].status = "canceled" => sub'[s] = sub[s]
           /\ Owed(s) => Owed(s)'
           /\ <<"checkout", s>> \in pending => <<"checkout", s>> \in pending'
    BY <1>1, <1>2, <1>4
  <2> QED  BY <1>1, <1>4, <1>5, <2>1, MirrorKept
<1>6. CASE u = v /\ u \in checkout
  <2>1. PICK c \in CustomersByEmail(u) \cup {stripeCustomerId[u]} : stripeCustomerId'[u] = c
    BY <1>6, <1>t DEF FinishCheckout
  <2>2. \A h \in Handlers : ~For(h, u)
    BY <1>6 DEF MirrorFor
  <2>3. \A h \in Handlers : ~For(h, u)'
    <3> SUFFICES ASSUME NEW h \in Handlers, For(h, u)' PROVE FALSE
      OBVIOUS
    <3>1. handler[h].pc # "idle"
      BY <1>1 DEF For
    <3>2. handler[h].sub \in Subs /\ Started(handler[h].sub)
      BY <3>1 DEF AccessInv, SnapshotInv, TypeInv, StripeInv, HandlerInv
    <3>3. sub'[handler[h].sub] = sub[handler[h].sub]
      BY <3>2, <1>4
    <3> QED  BY <1>1, <2>2, <3>1, <3>3 DEF For
  <2>4. access[u].subscriptionId = None
    BY <1>6 DEF MirrorFor
  <2>5. ASSUME NEW s \in Subs, Started(s), sub[s].owner = u
        PROVE  <<"checkout", s>> \in pending
    <3>1. Unprocessed(s)
      BY <1>6, <2>5 DEF MirrorFor
    <3>2. \A h \in Handlers : handler[h].pc = "resolve" => handler[h].sub # s
      BY <2>2, <2>5 DEF For
    <3> QED  BY <3>1, <3>2 DEF Unprocessed
  <2>6. c \in Subs => Started(c) /\ sub[c].owner = u
    BY <2>1, BillingAssumption DEF CustomersByEmail, AccessInv, CustomerInv
  <2>7. Mirrored(u)'
    <3>1. c \in Subs => Owed(c)'
      BY <1>1, <2>5, <2>6 DEF Owed
    <3> QED  BY <2>1, <3>1 DEF Mirrored, Owed
  <2>8. Named(u)'
    BY <1>1, <2>4 DEF Named
  <2>9. \A s \in Subs : Started(s)' /\ sub'[s].owner = u => Unprocessed(s)'
    BY <1>1, <1>4, <2>5 DEF Unprocessed
  <2> QED  BY <1>1, <2>3, <2>4, <2>7, <2>8, <2>9 DEF MirrorFor
<1> QED  BY <1>t, <1>5, <1>6 DEF FinishCheckout

(* Whatever happens to a subscription at Stripe, an event says so, and the  *)
(* first one is of its checkout.                                            *)
LEMMA StripeTells ==
  ASSUME TypeInv, Registered, NEW s \in Subs, StripeStep(s)
  PROVE  /\ UNCHANGED <<usageVars, webhookVars>>
         /\ \A t \in Subs \ {s} : sub'[t] = sub[t]
         /\ pending \subseteq pending'
         /\ Owed(s)'
         /\ sub[s].status # "canceled"
         /\ Started(s) \/ <<"checkout", s>> \in pending'
<1>t. sub \in [Subs -> Subscription]
  BY DEF TypeInv, StripeInv, StripeTypeOK
<1>1. ASSUME NEW new, NEW types, StripeChange(s, new, types),
             NEW t \in {"checkout", "updated", "deleted"}, t \in types
      PROVE  /\ UNCHANGED <<usageVars, webhookVars>>
             /\ \A r \in Subs \ {s} : sub'[r] = sub[r]
             /\ pending \subseteq pending'
             /\ <<t, s>> \in pending'
             /\ Owed(s)'
  <2>1. t \in types \cap Subscribed
    BY <1>1 DEF Registered
  <2>2. <<t, s>> \in pending'
    BY <1>1, <2>1 DEF StripeChange
  <2>3. Owed(s)'
    BY <2>2 DEF Owed
  <2> QED  BY <1>1, <1>t, <2>2, <2>3 DEF StripeChange
<1>2. CASE CompleteCheckout(s)
  <2>1. PICK new : StripeChange(s, new, {"checkout", "invoice"})
    BY <1>2 DEF CompleteCheckout
  <2>2. sub[s].status = "session"
    BY <1>2 DEF CompleteCheckout
  <2>3. /\ UNCHANGED <<usageVars, webhookVars>>
        /\ \A r \in Subs \ {s} : sub'[r] = sub[r]
        /\ pending \subseteq pending'
        /\ <<"checkout", s>> \in pending'
        /\ Owed(s)'
    BY <1>1, <2>1
  <2> QED  BY <2>2, <2>3
<1>3. ASSUME NEW new, NEW types, NEW t \in {"updated", "deleted"}, t \in types,
             StripeChange(s, new, types), sub[s].status \in {"active", "past_due"}
      PROVE  /\ UNCHANGED <<usageVars, webhookVars>>
             /\ \A r \in Subs \ {s} : sub'[r] = sub[r]
             /\ pending \subseteq pending'
             /\ Owed(s)'
             /\ sub[s].status # "canceled"
             /\ Started(s)
  BY <1>1, <1>3 DEF Started
<1>4. CASE PortalToggleCancel(s)
  <2>1. PICK new : StripeChange(s, new, {"updated"})
    BY <1>4 DEF PortalToggleCancel
  <2> QED  BY <1>3, <1>4, <2>1 DEF PortalToggleCancel
<1>5. CASE PortalSwitchPlan(s)
  <2>1. (\E new : StripeChange(s, new, {"updated"})) /\ sub[s].status = "active"
    BY <1>5 DEF PortalSwitchPlan
  <2> QED  BY <1>3, <2>1
<1>6. CASE Renew(s)
  BY <1>3, <1>6 DEF Renew
<1>7. CASE RenewalFails(s)
  <2>1. PICK new : StripeChange(s, new, {"updated"})
    BY <1>7 DEF RenewalFails
  <2> QED  BY <1>3, <1>7, <2>1 DEF RenewalFails
<1>8. CASE PaymentRecovers(s)
  <2>1. PICK new : StripeChange(s, new, {"updated", "invoice"})
    BY <1>8 DEF PaymentRecovers
  <2> QED  BY <1>3, <1>8, <2>1 DEF PaymentRecovers
<1>9. CASE Cancel(s)
  <2>1. PICK new : StripeChange(s, new, {"deleted"})
    BY <1>9 DEF Cancel
  <2> QED  BY <1>3, <1>9, <2>1 DEF Cancel
<1> QED  BY <1>2, <1>4, <1>5, <1>6, <1>7, <1>8, <1>9 DEF StripeStep

(* So the row is as Stripe has it, or an event is owed. *)
LEMMA StripeStepKeepsMirror ==
  ASSUME AccessInv, Registered, PaymentGrows, NEW s \in Subs, StripeStep(s),
         NEW u \in Users, MirrorFor(u)
  PROVE  MirrorFor(u)'
<1>1. /\ UNCHANGED <<access, handler, stripeCustomerId, checkout>>
      /\ \A t \in Subs \ {s} : sub'[t] = sub[t]
      /\ pending \subseteq pending'
      /\ Owed(s)'
      /\ sub[s].status # "canceled"
      /\ Started(s) \/ <<"checkout", s>> \in pending'
  BY StripeTells DEF AccessInv, usageVars, webhookVars
<1>2. \A t \in Subs : Owed(t) => Owed(t)'
  BY <1>1 DEF Owed
<1>3. \A t \in Subs \ {s} : Started(t)' => Started(t)
  BY <1>1 DEF Started
<1>4. \A t \in Subs : Started(t) /\ sub[t].owner = u =>
           /\ sub'[t] = sub[t] \/ Owed(t)'
           /\ sub[t].status = "canceled" => sub'[t] = sub[t]
           /\ Owed(t) => Owed(t)'
           /\ <<"checkout", t>> \in pending => <<"checkout", t>> \in pending'
  BY <1>1, <1>2
<1>5. \A t \in Subs : Started(t)' /\ ~Started(t) /\ sub'[t].owner = u =>
           <<"checkout", t>> \in pending'
  BY <1>1, <1>3
<1> QED  BY <1>1, <1>4, <1>5, MirrorKept

(* An event of a user is processed alone, or the user is disturbed. *)
LEMMA DeliverKeepsMirror ==
  ASSUME AccessInv, PaymentGrows, NEW h \in Handlers, NEW e \in Event, Deliver(h, e),
         NEW u \in Users, u \notin disturbed', MirrorFor(u)
  PROVE  MirrorFor(u)'
<1>t. /\ handler \in [Handlers -> HandlerState]
      /\ handler[h].pc = "idle"
      /\ pending' = pending \ {e}
      /\ UNCHANGED <<access, sub, stripeCustomerId, checkout>>
  BY DEF AccessInv, TypeInv, StripeInv, StripeTypeOK, Deliver, usageVars
<1>1. PICK s \in Subs, type \in EventType : e = <<type, s>>
  <2>1. Subscribed \subseteq EventType
    BY BillingAssumption DEF EventType
  <2> QED  BY <2>1 DEF Event
<1>2. /\ handler'[h].pc = "resolve"
      /\ handler'[h].type = type
      /\ handler'[h].sub = s
      /\ \A g \in Handlers \ {h} : handler'[g] = handler[g]
  BY <1>t, <1>1, RowTypes DEF Deliver, HandlerState
<1>3. Started(s) /\ (type = "deleted" => sub[s].status = "canceled")
  BY <1>1 DEF Deliver, Sent
<1>4. \A r \in Subs : Started(r)' <=> Started(r)
  BY <1>t DEF Started
<1>5. \A r \in Subs, t \in EventType :
         r # s \/ t # type => (<<t, r>> \in pending' <=> <<t, r>> \in pending)
  BY <1>t, <1>1
<1>6. CASE sub[s].owner # u
  <2>1. \A g \in Handlers : For(g, u) \/ For(g, u)' => handler'[g] = handler[g]
    BY <1>t, <1>2, <1>6 DEF For
  <2>2. \A r \in Subs : r # s => (Owed(r)' <=> Owed(r))
    BY <1>5 DEF Owed, EventType
  <2>3. \A r \in Subs : Started(r) /\ sub[r].owner = u =>
           /\ sub'[r] = sub[r] \/ Owed(r)'
           /\ sub[r].status = "canceled" => sub'[r] = sub[r]
           /\ Owed(r) => Owed(r)'
           /\ <<"checkout", r>> \in pending => <<"checkout", r>> \in pending'
    BY <1>t, <1>5, <1>6, <2>2 DEF EventType
  <2> QED  BY <1>t, <1>4, <2>1, <2>3, MirrorKept
<1>7. CASE sub[s].owner = u
  <2>1. ~Busy(u)
    BY <1>1, <1>7 DEF Deliver
  <2>2. u \notin checkout /\ \A g \in Handlers : ~For(g, u)
    BY <2>1 DEF Busy, For
  <2>3. Mirrored(u) /\ Named(u)
    BY <2>2 DEF MirrorFor
  <2>4. Named(u)'
    BY <1>t, <2>3 DEF Named
  <2>5. ASSUME type = "invoice" \/ s # stripeCustomerId[u]
        PROVE  Mirrored(u)'
    <3> SUFFICES ASSUME stripeCustomerId[u] \in Subs PROVE Mirrored(u)'
      BY <1>t DEF Mirrored
    <3>1. PICK r \in Subs : r = stripeCustomerId[u]
      OBVIOUS
    <3>2. Owed(r) => Owed(r)'
      BY <1>5, <2>5, <3>1 DEF Owed, EventType
    <3>3. access[u] = MirrorOf(r, sub[r]) \/ Owed(r)
      BY <2>3, <3>1 DEF Mirrored
    <3>4. access'[u] = MirrorOf(r, sub'[r]) \/ Owed(r)'
      BY <1>t, <3>2, <3>3
    <3> QED  BY <1>t, <3>1, <3>4 DEF Mirrored, MirrorOf, PaidAccess, Entitles, Owed
  <2>6. ProcessedFor(h, u)'
    BY <1>t, <1>2, <1>3, <2>4, <2>5 DEF ProcessedFor
  <2>7. \A g \in Handlers : For(g, u)' => g = h
    BY <1>t, <1>2, <2>2 DEF For
  <2>8. For(h, u)'
    BY <1>t, <1>2, <1>7 DEF For
  <2>9. ASSUME stripeCustomerId'[u] = None \/ u \in checkout',
               NEW r \in Subs, Started(r)', sub'[r].owner = u
        PROVE  Unprocessed(r)'
    <3>1. Unprocessed(r)
      BY <1>t, <1>4, <2>9 DEF MirrorFor
    <3>2. <<"checkout", r>> \in pending
      BY <1>t, <2>2, <2>9, <3>1 DEF Unprocessed, For
    <3>3. CASE <<"checkout", r>> \in pending'
      BY <3>3 DEF Unprocessed
    <3>4. CASE r = s /\ type = "checkout"
      BY <1>2, <3>4 DEF Unprocessed
    <3> QED  BY <1>5, <3>2, <3>3, <3>4 DEF EventType
  <2> QED  BY <1>t, <2>2, <2>6, <2>7, <2>8, <2>9 DEF MirrorFor
<1> QED  BY <1>6, <1>7

(* A handler only touches the user whose event it processes. *)
LEMMA HandlerKeepsOthers ==
  ASSUME AccessInv, PaymentGrows, NEW h \in Handlers, handler[h].pc # "idle",
         NEW u \in Users, ~For(h, u), MirrorFor(u),
         UNCHANGED <<sub, pending, checkout>>,
         access'[u] = access[u], stripeCustomerId'[u] = stripeCustomerId[u],
         \A g \in Handlers \ {h} : handler'[g] = handler[g],
         handler'[h].pc # "idle" => handler'[h].sub = handler[h].sub
  PROVE  MirrorFor(u)'
<1>1. \A g \in Handlers : For(g, u) \/ For(g, u)' => handler'[g] = handler[g]
  BY DEF For
<1>2. /\ \A s \in Subs : Started(s)' <=> Started(s)
      /\ \A s \in Subs : Owed(s)' <=> Owed(s)
  BY DEF Started, Owed
<1> QED  BY <1>1, <1>2, MirrorKept

(* When the only handler of a user is done, the row is as Stripe has it or  *)
(* an event is owed.                                                        *)
LEMMA HandlerDone ==
  ASSUME AccessInv, NEW h \in Handlers, NEW u \in Users, For(h, u), MirrorFor(u),
         UNCHANGED <<sub, pending, checkout>>,
         handler' = [handler EXCEPT ![h] = IdleHandler],
         Mirrored(u)', Named(u)',
         \/ /\ stripeCustomerId'[u] = stripeCustomerId[u]
            /\ handler[h].pc # "resolve" \/ handler[h].type # "checkout"
         \/ stripeCustomerId'[u] # None
  PROVE  MirrorFor(u)'
<1>t. handler \in [Handlers -> HandlerState]
  BY DEF AccessInv, TypeInv, StripeInv, StripeTypeOK
<1>1. \A g \in Handlers : For(g, u)' => FALSE
  BY <1>t DEF For, MirrorFor, IdleHandler
<1>2. u \notin checkout
  BY DEF MirrorFor
<1>3. ASSUME stripeCustomerId'[u] = None, NEW s \in Subs, Started(s)', sub'[s].owner = u
      PROVE  Unprocessed(s)'
  <2>1. Started(s) /\ sub[s].owner = u /\ stripeCustomerId[u] = None
    BY <1>3 DEF Started
  <2>2. Unprocessed(s)
    BY <2>1 DEF MirrorFor
  <2>3. CASE <<"checkout", s>> \in pending
    BY <2>3 DEF Unprocessed
  <2>4. ASSUME NEW g \in Handlers, handler[g].pc = "resolve",
               handler[g].type = "checkout", handler[g].sub = s
        PROVE  Unprocessed(s)'
    <3>1. g # h
      BY <1>3, <2>4
    <3>2. handler'[g] = handler[g]
      BY <1>t, <3>1
    <3> QED  BY <2>4, <3>2 DEF Unprocessed
  <2> QED  BY <2>2, <2>3, <2>4 DEF Unprocessed
<1> QED  BY <1>1, <1>2, <1>3 DEF MirrorFor

(* When it goes on instead, it goes on for the customer the user row names. *)
LEMMA HandlerMoved ==
  ASSUME AccessInv, NEW h \in Handlers, NEW u \in Users, For(h, u), MirrorFor(u),
         UNCHANGED <<sub, pending, checkout>>,
         \A g \in Handlers \ {h} : handler'[g] = handler[g],
         handler'[h].pc \notin {"idle", "resolve"},
         handler'[h].sub = handler[h].sub,
         ProcessedFor(h, u)'
  PROVE  MirrorFor(u)'
<1>1. PICK s \in Subs : s = handler[h].sub /\ sub[s].owner = u
  BY DEF For, AccessInv, TypeInv, StripeInv, HandlerInv
<1>2. stripeCustomerId'[u] # None
  BY <1>1, NoneAssumption DEF ProcessedFor
<1>3. u \notin checkout /\ \A g \in Handlers \ {h} : ~For(g, u)
  BY DEF MirrorFor
<1>4. For(h, u)' /\ \A g \in Handlers : For(g, u)' => g = h
  BY <1>1, <1>3 DEF For
<1> QED  BY <1>2, <1>3, <1>4 DEF MirrorFor

(* findUserByStripeData finds the owner of the subscription, or nobody. *)
LEMMA ResolveActivationKeepsMirror ==
  ASSUME AccessInv, PaymentGrows, NEW h \in Handlers, ResolveActivation(h),
         NEW u \in Users, MirrorFor(u)
  PROVE  MirrorFor(u)'
<1>t. /\ handler \in [Handlers -> HandlerState]
      /\ stripeCustomerId \in [Users -> Customer]
      /\ handler[h].pc = "resolve"
      /\ handler[h].type \in {"checkout", "updated"}
      /\ UNCHANGED <<access, sub, pending, checkout>>
  BY DEF AccessInv, TypeInv, StripeInv, StripeTypeOK, ResolveActivation, usageVars, stripeVars
<1>1. PICK s \in Subs : s = handler[h].sub
  BY <1>t DEF AccessInv, TypeInv, StripeInv, HandlerInv
<1>2. CASE UserByStripeData(handler[h].type, s) = {} /\ Done(h) /\ UNCHANGED stripeCustomerId
  <2>1. handler[h].type = "updated" /\ stripeCustomerId[u] # s
    BY <1>t, <1>2 DEF UserByStripeData
  <2>2. CASE ~For(h, u)
    BY <1>t, <1>2, <2>2, HandlerKeepsOthers DEF Done, IdleHandler
  <2>3. CASE For(h, u)
    <3>1. Named(u) /\ Mirrored(u)
      BY <1>t, <1>1, <2>1, <2>3 DEF MirrorFor, ProcessedFor
    <3>2. Named(u)' /\ Mirrored(u)'
      BY <1>t, <1>2, <3>1 DEF Named, Mirrored, MirrorOf, Entitles, PaidAccess, Owed
    <3> QED  BY <1>t, <1>2, <2>1, <2>3, <3>2, HandlerDone DEF Done
  <2> QED  BY <2>2, <2>3
<1>3. ASSUME NEW v \in UserByStripeData(handler[h].type, s),
             stripeCustomerId' = [stripeCustomerId EXCEPT ![v] = s],
             handler' = [handler EXCEPT ![h].pc = "fetch", ![h].user = v]
      PROVE  MirrorFor(u)'
  <2>1. sub[s].owner = v
    BY <1>t, <1>3 DEF UserByStripeData, AccessInv, CustomerInv
  <2>2. /\ \A g \in Handlers \ {h} : handler'[g] = handler[g]
        /\ handler'[h].pc = "fetch" /\ handler'[h].user = v
        /\ handler'[h].sub = s /\ handler'[h].type = handler[h].type
    BY <1>t, <1>1, <1>3 DEF HandlerState
  <2>3. CASE ~For(h, u)
    <3>1. u # v
      BY <1>t, <1>1, <2>1, <2>3 DEF For
    <3>2. stripeCustomerId'[u] = stripeCustomerId[u]
      BY <1>t, <1>3, <3>1
    <3> QED  BY <1>t, <1>1, <2>2, <2>3, <3>2, HandlerKeepsOthers
  <2>4. CASE For(h, u)
    <3>1. u = v
      BY <1>t, <1>1, <2>1, <2>4 DEF For
    <3>2. stripeCustomerId'[u] = s
      BY <1>t, <1>3, <3>1
    <3>3. ProcessedFor(h, u)'
      BY <1>t, <2>2, <3>1, <3>2 DEF ProcessedFor
    <3> QED  BY <1>t, <1>1, <2>2, <2>4, <3>3, HandlerMoved
  <2> QED  BY <2>3, <2>4
<1> QED  BY <1>1, <1>2, <1>3 DEF ResolveActivation

(* An invoice event is skipped; one of a deletion finds the user, whose     *)
(* customer is the canceled one, or a user whose row names another.         *)
LEMMA OtherResolvesKeepMirror ==
  ASSUME AccessInv, RowsInv, PaymentGrows, NEW h \in Handlers,
         ProcessRenewal(h) \/ ResolveCancellation(h),
         NEW u \in Users, MirrorFor(u)
  PROVE  MirrorFor(u)'
<1>t. /\ handler \in [Handlers -> HandlerState]
      /\ handler[h].pc = "resolve"
      /\ UNCHANGED <<access, sub, pending, checkout, stripeCustomerId>>
  BY DEF AccessInv, TypeInv, StripeInv, StripeTypeOK, ProcessRenewal, ResolveCancellation,
         usageVars, stripeVars
<1>1. PICK s \in Subs : s = handler[h].sub
  BY <1>t DEF AccessInv, TypeInv, StripeInv, HandlerInv
<1>2. ASSUME Done(h), handler[h].type # "checkout",
             For(h, u) => handler[h].type = "invoice" \/ stripeCustomerId[u] # s
      PROVE  MirrorFor(u)'
  <2>1. CASE ~For(h, u)
    BY <1>t, <1>2, <2>1, HandlerKeepsOthers DEF Done, IdleHandler
  <2>2. CASE For(h, u)
    <3>1. Named(u) /\ Mirrored(u)
      BY <1>t, <1>1, <1>2, <2>2 DEF MirrorFor, ProcessedFor
    <3>2. Named(u)' /\ Mirrored(u)'
      BY <1>t, <3>1 DEF Named, Mirrored, MirrorOf, Entitles, PaidAccess, Owed
    <3> QED  BY <1>t, <1>2, <2>2, <3>2, HandlerDone DEF Done
  <2> QED  BY <2>1, <2>2
<1>3. CASE ProcessRenewal(h)
  BY <1>2, <1>3 DEF ProcessRenewal
<1>4. CASE UserToDowngrade(s) = {} /\ Done(h) /\ handler[h].type = "deleted"
  <2>1. stripeCustomerId[u] # s
    BY <1>4 DEF UserToDowngrade, UserByStripeData
  <2> QED  BY <1>2, <1>4, <2>1
<1>5. ASSUME NEW v \in UserToDowngrade(s), handler[h].type = "deleted",
             handler' = [handler EXCEPT ![h].pc = "downgrade", ![h].user = v]
      PROVE  MirrorFor(u)'
  <2>1. v \in Users /\ sub[s].owner = v
    BY <1>5, DowngradesTheOwner
  <2>2. /\ \A g \in Handlers \ {h} : handler'[g] = handler[g]
        /\ handler'[h].pc = "downgrade" /\ handler'[h].user = v
        /\ handler'[h].sub = s /\ handler'[h].type = "deleted"
    BY <1>t, <1>1, <1>5 DEF HandlerState
  <2>3. CASE ~For(h, u)
    BY <1>t, <1>1, <2>2, <2>3, HandlerKeepsOthers
  <2>4. CASE For(h, u)
    <3>1. u = v
      BY <1>t, <1>1, <2>1, <2>4 DEF For
    <3>2. Named(u) /\ sub[s].status = "canceled"
      BY <1>t, <1>1, <1>5, <2>4 DEF MirrorFor, ProcessedFor
    <3>3. stripeCustomerId[u] = s
      BY <1>5, <3>1, <3>2, NoneAssumption DEF UserToDowngrade, UserByStripeData, Named
    <3>4. ProcessedFor(h, u)'
      BY <1>t, <2>2, <3>1, <3>2, <3>3 DEF ProcessedFor
    <3> QED  BY <1>t, <1>1, <2>2, <2>4, <3>4, HandlerMoved
  <2> QED  BY <2>3, <2>4
<1> QED  BY <1>1, <1>3, <1>4, <1>5 DEF ResolveCancellation

(* The snapshot is what Stripe says now; it may be stale later, but then an *)
(* event is owed.                                                           *)
LEMMA GetDetailsKeepsMirror ==
  ASSUME AccessInv, PaymentGrows, NEW h \in Handlers, GetSubscriptionDetails(h),
         NEW u \in Users, MirrorFor(u)
  PROVE  MirrorFor(u)'
<1>t. /\ handler \in [Handlers -> HandlerState]
      /\ handler[h].pc = "fetch"
      /\ UNCHANGED <<access, sub, pending, checkout, stripeCustomerId>>
  BY DEF AccessInv, TypeInv, StripeInv, StripeTypeOK, GetSubscriptionDetails, usageVars,
         stripeVars
<1>1. PICK s \in Subs : s = handler[h].sub
  BY <1>t DEF AccessInv, TypeInv, StripeInv, HandlerInv
<1>2. /\ \A g \in Handlers \ {h} : handler'[g] = handler[g]
      /\ handler'[h].pc = "write" /\ handler'[h].snap = sub[s] /\ handler'[h].sub = s
      /\ handler'[h].user = handler[h].user /\ handler'[h].type = handler[h].type
  BY <1>t, <1>1 DEF GetSubscriptionDetails, HandlerState
<1>3. CASE ~For(h, u)
  BY <1>t, <1>1, <1>2, <1>3, HandlerKeepsOthers
<1>4. CASE For(h, u)
  <2>1. ProcessedFor(h, u)
    BY <1>4 DEF MirrorFor
  <2>2. ProcessedFor(h, u)'
    BY <1>t, <1>1, <1>2, <2>1 DEF ProcessedFor
  <2> QED  BY <1>t, <1>1, <1>2, <1>4, <2>2, HandlerMoved
<1> QED  BY <1>3, <1>4

(* The row is written from the snapshot. *)
LEMMA UpsertKeepsMirror ==
  ASSUME AccessInv, PaymentGrows, NEW h \in Handlers, UpsertUserAccess(h),
         NEW u \in Users, MirrorFor(u)
  PROVE  MirrorFor(u)'
<1>t. /\ handler \in [Handlers -> HandlerState]
      /\ access \in [Users -> AccessRow]
      /\ handler[h].pc = "write"
      /\ UNCHANGED <<sub, pending, checkout, stripeCustomerId>>
  BY DEF AccessInv, TypeInv, UsageInv, UsageTypeOK, StripeInv, StripeTypeOK,
         UpsertUserAccess, stripeVars
<1>1. PICK s \in Subs, snap \in Subscription : s = handler[h].sub /\ snap = handler[h].snap
  BY <1>t DEF AccessInv, TypeInv, StripeInv, HandlerInv, HandlerState
<1>2. handler[h].user = sub[s].owner
  BY <1>t, <1>1 DEF AccessInv, SnapshotInv
<1>3. \/ /\ Entitles(snap)
         /\ access' = [access EXCEPT ![handler[h].user] = PaidAccess(s, snap)]
         /\ handler' = [handler EXCEPT ![h].pc = "usage"]
      \/ /\ ~Entitles(snap)
         /\ access' = [access EXCEPT ![handler[h].user] = FreeAccess]
         /\ Done(h)
  BY <1>1 DEF UpsertUserAccess
<1>4. CASE ~For(h, u)
  <2>1. access'[u] = access[u]
    BY <1>t, <1>1, <1>2, <1>3, <1>4 DEF For
  <2> QED  BY <1>t, <1>3, <1>4, <2>1, HandlerKeepsOthers DEF Done, HandlerState, IdleHandler
<1>5. CASE For(h, u)
  <2>1. /\ handler[h].user = u /\ stripeCustomerId[u] = s
        /\ snap = sub[s] \/ Owed(s)
        /\ handler[h].type = "deleted" => sub[s].status = "canceled"
    BY <1>t, <1>1, <1>5 DEF MirrorFor, ProcessedFor
  <2>2. CASE Entitles(snap)
    <3>1. access'[u] = PaidAccess(s, snap)
      BY <1>t, <1>3, <2>1, <2>2
    <3>2. /\ \A g \in Handlers \ {h} : handler'[g] = handler[g]
          /\ handler'[h].pc = "usage" /\ handler'[h].snap = snap /\ handler'[h].sub = s
          /\ handler'[h].user = u /\ handler'[h].type = handler[h].type
      BY <1>t, <1>1, <1>3, <2>1, <2>2 DEF HandlerState
    <3>3. ProcessedFor(h, u)'
      BY <1>t, <2>1, <2>2, <3>1, <3>2 DEF ProcessedFor, Entitles, PaidAccess, Owed
    <3> QED  BY <1>t, <1>1, <1>5, <3>2, <3>3, HandlerMoved
  <2>3. CASE ~Entitles(snap)
    <3>1. access'[u] = FreeAccess /\ Done(h)
      BY <1>t, <1>3, <2>1, <2>3
    <3>2. Named(u)'
      BY <3>1 DEF Named, FreeAccess
    <3>3. Mirrored(u)'
      BY <1>t, <2>1, <2>3, <3>1 DEF Mirrored, MirrorOf, Entitles, PaidAccess, FreeAccess, Owed
    <3> QED  BY <1>t, <1>5, <3>1, <3>2, <3>3, HandlerDone DEF Done
  <2> QED  BY <2>2, <2>3
<1> QED  BY <1>4, <1>5

(* The last step of an activation and of a cancellation. *)
LEMMA LastStepsKeepMirror ==
  ASSUME AccessInv, RowsInv, PaymentGrows, NEW h \in Handlers,
         ResetOnActivation(h) \/ DowngradeUserToFreeTier(h),
         NEW u \in Users, MirrorFor(u)
  PROVE  MirrorFor(u)'
<1>t. /\ handler \in [Handlers -> HandlerState]
      /\ access \in [Users -> AccessRow]
      /\ handler[h].pc \in {"usage", "downgrade"}
      /\ Done(h)
      /\ UNCHANGED <<sub, pending, checkout, stripeCustomerId>>
  BY DEF AccessInv, TypeInv, UsageInv, UsageTypeOK, StripeInv, StripeTypeOK,
         ResetOnActivation, DowngradeUserToFreeTier, stripeVars
<1>1. PICK s \in Subs, snap \in Subscription : s = handler[h].sub /\ snap = handler[h].snap
  BY <1>t DEF AccessInv, TypeInv, StripeInv, HandlerInv, HandlerState
<1>2. CASE ~For(h, u)
  <2>1. handler[h].user = sub[s].owner
    BY <1>t, <1>1 DEF AccessInv, SnapshotInv, RowsInv
  <2>2. access'[u] = access[u]
    BY <1>t, <1>1, <1>2, <2>1 DEF For, ResetOnActivation, DowngradeUserToFreeTier
  <2> QED  BY <1>t, <1>2, <2>2, HandlerKeepsOthers DEF Done, IdleHandler
<1>3. CASE For(h, u)
  <2>1. ProcessedFor(h, u) /\ stripeCustomerId[u] = s /\ handler[h].user = u
    BY <1>t, <1>1, <1>3 DEF MirrorFor, ProcessedFor
  <2>2. CASE ResetOnActivation(h)
    <3>1. handler[h].pc = "usage" /\ access' = access
      BY <2>2 DEF ResetOnActivation
    <3>2. /\ snap = sub[s] \/ Owed(s)
          /\ Entitles(snap) /\ access[u] = PaidAccess(s, snap)
      BY <1>1, <2>1, <3>1 DEF ProcessedFor
    <3>3. access[u] = MirrorOf(s, sub[s]) \/ Owed(s)
      BY <3>2 DEF MirrorOf
    <3>4. Mirrored(u)' /\ Named(u)'
      BY <1>t, <2>1, <3>1, <3>2, <3>3
         DEF Mirrored, Named, MirrorOf, Entitles, PaidAccess, Owed
    <3> QED  BY <1>t, <1>3, <3>4, HandlerDone DEF Done
  <2>3. CASE DowngradeUserToFreeTier(h)
    <3>1. handler[h].pc = "downgrade" /\ access'[u] = FreeAccess
      BY <1>t, <2>1, <2>3 DEF DowngradeUserToFreeTier
    <3>2. sub[s].status = "canceled"
      BY <1>1, <2>1, <3>1 DEF ProcessedFor
    <3>3. Mirrored(u)' /\ Named(u)'
      BY <1>t, <2>1, <3>1, <3>2 DEF Mirrored, Named, MirrorOf, Entitles, FreeAccess
    <3> QED  BY <1>t, <1>3, <3>3, HandlerDone DEF Done
  <2> QED  BY <2>2, <2>3
<1> QED  BY <1>2, <1>3

(* A failure, or a restart, disturbs the users it takes an event from. *)
LEMMA FailuresKeepMirror ==
  ASSUME AccessInv, PaymentGrows,
         Crash \/ \E h \in Handlers : HandlerFails(h),
         NEW u \in Users, u \notin disturbed', MirrorFor(u)
  PROVE  MirrorFor(u)'
<1>1. CASE Crash
  <2>1. ~Busy(u)
    BY <1>1 DEF Crash
  <2>2. u \notin checkout /\ u \notin checkout' /\ \A h \in Handlers : ~For(h, u) /\ ~For(h, u)'
    BY <1>1, <2>1 DEF Busy, For, Crash, IdleHandler
  <2>3. UNCHANGED <<access, sub, pending, stripeCustomerId>>
    BY <1>1 DEF Crash, stripeVars
  <2>4. /\ \A s \in Subs : Started(s)' <=> Started(s)
        /\ \A s \in Subs : Owed(s)' <=> Owed(s)
    BY <2>3 DEF Started, Owed
  <2> QED  BY <2>2, <2>3, <2>4, MirrorKept
<1>2. ASSUME NEW h \in Handlers, HandlerFails(h)
      PROVE  MirrorFor(u)'
  <2>1. /\ handler \in [Handlers -> HandlerState]
        /\ handler[h].pc # "idle" /\ Done(h)
        /\ sub[handler[h].sub].owner # u
        /\ UNCHANGED <<access, sub, pending, checkout, stripeCustomerId>>
    BY <1>2 DEF AccessInv, TypeInv, StripeInv, StripeTypeOK, HandlerFails, usageVars, stripeVars
  <2>2. ~For(h, u)
    BY <2>1 DEF For
  <2> QED  BY <2>1, <2>2, HandlerKeepsOthers DEF Done, IdleHandler
<1> QED  BY <1>1, <1>2

LEMMA NextKeepsMirror ==
  ASSUME AccessInv, MirrorInv, [Next]_vars
  PROVE  MirrorInv'
<1>1. PaymentGrows
  BY NextKeepsAccess
<1>2. RowsInv'
  BY <1>1, RowsStep DEF MirrorInv
<1>3. disturbed \subseteq disturbed'
  BY DEF Next, UsageNext, BeginCheckout, FinishCheckout, StripeStep, CompleteCheckout,
         PortalToggleCancel, PortalSwitchPlan, Renew, RenewalFails, PaymentRecovers, Cancel,
         StripeChange, Deliver, HandlerStep, ResolveActivation, ProcessRenewal,
         ResolveCancellation, GetSubscriptionDetails, UpsertUserAccess, ResetOnActivation,
         DowngradeUserToFreeTier, HandlerFails, Crash, vars, webhookVars
<1>4. SUFFICES ASSUME NEW u \in Users, u \notin disturbed'
               PROVE  MirrorFor(u)'
  BY <1>2 DEF MirrorInv, Registered
<1>5. MirrorFor(u)
  BY <1>3, <1>4 DEF MirrorInv
<1>6. CASE (UsageNext /\ UNCHANGED <<stripeVars, webhookVars>>) \/ UNCHANGED vars
  <2>1. UNCHANGED access
    BY <1>6 DEF UsageNext, Tick, RequestStep, HandleCreditUsage, BeginSubscriptionInfo,
                GetActiveUsageRecord, DeductCredits, GetSubscriptionInfo, JustInTimeReset,
                HandleAnniversaryResets, ResetOnAnniversary, vars, usageVars
  <2>2. UNCHANGED <<sub, pending, handler, stripeCustomerId, checkout>>
    BY <1>6 DEF stripeVars, webhookVars, vars
  <2> QED  BY <1>1, <1>5, <2>1, <2>2, MirrorUnchanged
<1>7. CASE \E v \in Users : BeginCheckout(v) \/ FinishCheckout(v)
  BY <1>1, <1>4, <1>5, <1>7, BeginCheckoutKeepsMirror, FinishCheckoutKeepsMirror
<1>8. CASE \E s \in Subs : StripeStep(s)
  BY <1>1, <1>5, <1>8, StripeStepKeepsMirror DEF MirrorInv
<1>9. CASE \E h \in Handlers, e \in Event : Deliver(h, e)
  BY <1>1, <1>4, <1>5, <1>9, DeliverKeepsMirror
<1>10. CASE \E h \in Handlers : HandlerStep(h)
  BY <1>1, <1>5, <1>10, ResolveActivationKeepsMirror, OtherResolvesKeepMirror,
     GetDetailsKeepsMirror, UpsertKeepsMirror, LastStepsKeepMirror
     DEF HandlerStep, MirrorInv
<1>11. CASE Crash \/ \E h \in Handlers : HandlerFails(h)
  BY <1>1, <1>4, <1>5, <1>11, FailuresKeepMirror
<1> QED  BY <1>6, <1>7, <1>8, <1>9, <1>10, <1>11 DEF Next

(* Where the endpoint is registered for the events that are processed, the  *)
(* access row of a user whose events were all processed, one at a time and  *)
(* without a failure, is what Stripe says of the subscription the user row  *)
(* names: for any number of users, subscriptions and handlers, whatever is  *)
(* duplicated, reordered or changed while an event is processed.            *)
THEOREM AccessFollowsStripe == Spec /\ Registered => []AccessMirrorsStripe
<1>1. Spec => []AccessInv
  BY InitAccessInv, NextKeepsAccess, PTL DEF Spec
<1>2. AccessInv /\ MirrorInv /\ [Next]_vars => MirrorInv'
  BY NextKeepsMirror
<1>3. Spec /\ Registered => []MirrorInv
  BY <1>1, <1>2, InitMirrorInv, PTL DEF Spec
<1>4. AccessInv /\ MirrorInv => AccessMirrorsStripe
  BY MirrorSuffices
<1> QED  BY <1>1, <1>3, <1>4, PTL

-----------------------------------------------------------------------------
(* The usage cycles.  A period only begins where the one before it ended,   *)
(* so that its end tells its start, and what is read of a subscription or   *)
(* of an access row remains paid for until it is written.                   *)

Period(p) == /\ 1 <= p.start /\ p.start <= p.end
             /\ p.interval = "year" => NextMonth[p.start] <= p.end

SnapshotPeriod(h) ==
    LET s    == handler[h].sub
        snap == handler[h].snap
    IN  handler[h].pc \in {"write", "usage"} =>
          /\ Period(snap)
          /\ snap.end <= sub[s].end
          /\ snap.end = sub[s].end => snap.start = sub[s].start
          /\ handler[h].pc = "usage" => snap.end <= paidThrough[s]

PeriodInv ==
    /\ now >= 1
    /\ \A s \in Subs : Started(s) => Period(sub[s])
    /\ \A h \in Handlers : SnapshotPeriod(h)

\* From a to b, which u has paid for.
Covered(subs, paid, u, a, b) ==
    /\ a <= b
    /\ \E s \in Subs : /\ subs[s].status \notin {"none", "session"}
                       /\ subs[s].owner = u
                       /\ b <= paid[s]

CycleInv ==
    /\ \A u \in Users : \A c \in Cycles(u) \ {0} :
         Covered(sub, paidThrough, u, c, cycleEnd[u][c])
    /\ \A r \in Requests : req[r].pc = "reset" =>
         Covered(sub, paidThrough, req[r].user, req[r].newStart, req[r].newEnd)
    /\ \A due \in cron.due :
         Covered(sub, paidThrough, due[1], StartOfDay[cron.ran], due[2])

\* A row that grants the current period of s has the cycle of that period, or
\* the handler that wrote the row is about to open it.
OpenedInv ==
    \A u \in Users \ disturbed, s \in Subs :
      access[u].subscriptionId = s /\ access[u].expiresAt = sub[s].end =>
        \/ sub[s].start \in Cycles(u)
        \/ \E h \in Handlers : /\ handler[h].pc = "usage"
                               /\ handler[h].sub = s /\ handler[h].user = u
                               /\ handler[h].snap.start = sub[s].start

(* The types these proofs need. *)
LEMMA CycleTypes ==
  ASSUME AccessInv
  PROVE  /\ now \in Nat
         /\ access \in [Users -> AccessRow]
         /\ \A u \in Users : access[u].expiresAt \in Nat
         /\ cycleEnd \in [Users -> [Instants -> Instants \cup {None}]]
         /\ req \in [Requests -> RequestState]
         /\ handler \in [Handlers -> HandlerState]
         /\ \A h \in Handlers : /\ handler[h].snap.start \in Nat
                                /\ handler[h].snap.end \in Nat
                                /\ handler[h].pc # "idle" => handler[h].sub \in Subs
         /\ sub \in [Subs -> Subscription]
         /\ \A s \in Subs : /\ sub[s].start \in Instants /\ sub[s].start \in Nat
                            /\ sub[s].end \in Instants /\ sub[s].end \in Nat
                            /\ paidThrough[s] \in Nat
<1>1. UsageTypeOK /\ StripeTypeOK /\ HandlerInv
  BY DEF AccessInv, TypeInv, UsageInv, StripeInv
<1>2. Instants \subseteq Nat
  BY DEF Instants
<1>3. \A u \in Users : access[u].expiresAt \in Nat
  BY <1>1, <1>2 DEF UsageTypeOK, AccessRow
<1>4. \A h \in Handlers : /\ handler[h].snap.start \in Nat
                          /\ handler[h].snap.end \in Nat
                          /\ handler[h].pc # "idle" => handler[h].sub \in Subs
  BY <1>1, <1>2 DEF StripeTypeOK, HandlerInv, HandlerState, Subscription
<1>5. \A s \in Subs : /\ sub[s].start \in Instants /\ sub[s].start \in Nat
                      /\ sub[s].end \in Instants /\ sub[s].end \in Nat
                      /\ paidThrough[s] \in Nat
  BY <1>1, <1>2 DEF StripeTypeOK, Subscription
<1> QED  BY <1>1, <1>2, <1>3, <1>4, <1>5 DEF UsageTypeOK, StripeTypeOK

(* A period that begins at t.                                               *)
LEMMA PeriodFrom ==
  ASSUME NEW t \in Instants, t >= 1, NEW p, p.start = t, p.end = PeriodEnd(p.interval, t)
  PROVE  Period(p)
<1>1. t <= AddMonth[t] /\ AddMonth[t] <= AddYear[t] /\ NextMonth[t] <= AddYear[t]
  BY CalendarAssumption, BillingAssumption
<1>2. t \in Nat /\ AddMonth[t] \in Nat /\ AddYear[t] \in Nat /\ NextMonth[t] \in Nat
  BY CalendarAssumption, BillingAssumption DEF Instants
<1>3. CASE p.interval = "year"
  BY <1>1, <1>2, <1>3 DEF Period, PeriodEnd
<1>4. CASE p.interval # "year"
  BY <1>1, <1>2, <1>4 DEF Period, PeriodEnd
<1> QED  BY <1>3, <1>4

(* What happens to a subscription moves its end with its start.             *)
LEMMA StripeStepMoves ==
  ASSUME AccessInv, PeriodInv, NEW s \in Subs, StripeStep(s)
  PROVE  /\ \A t \in Subs \ {s} : sub'[t] = sub[t]
         /\ Period(sub'[s])
         /\ Started(s) => /\ sub[s].end <= sub'[s].end
                          /\ sub'[s].end = sub[s].end => sub'[s].start = sub[s].start
<1>t. /\ sub \in [Subs -> Subscription] /\ sub[s] \in Subscription
      /\ sub[s].start \in Instants /\ sub[s].start \in Nat
      /\ sub[s].end \in Instants /\ sub[s].end \in Nat
      /\ now \in Instants /\ now \in Nat /\ now >= 1
  BY CycleTypes DEF AccessInv, TypeInv, UsageInv, UsageTypeOK, PeriodInv
<1>1. CASE CompleteCheckout(s)
  <2> DEFINE new == [sub[s] EXCEPT !.status = "active", !.start = now,
                                   !.end = PeriodEnd(sub[s].interval, now)]
  <2>1. sub' = [sub EXCEPT ![s] = new] /\ ~Started(s)
    BY <1>1 DEF CompleteCheckout, StripeChange, Started
  <2>2. new.start = now /\ new.end = PeriodEnd(new.interval, now)
    BY <1>t DEF Subscription
  <2>3. Period(new)
    BY <1>t, <2>2, PeriodFrom
  <2> QED  BY <1>t, <2>1, <2>3
<1>2. ASSUME Started(s), NEW new, sub' = [sub EXCEPT ![s] = new],
             new.start = sub[s].start, new.end = sub[s].end, new.interval = sub[s].interval
      PROVE  /\ \A t \in Subs \ {s} : sub'[t] = sub[t]
             /\ Period(sub'[s])
             /\ sub[s].end <= sub'[s].end
             /\ sub'[s].end = sub[s].end => sub'[s].start = sub[s].start
  BY <1>t, <1>2 DEF PeriodInv, Period
<1>3. ASSUME Started(s), NEW new, sub' = [sub EXCEPT ![s] = new],
             new.start = sub[s].end, new.end = PeriodEnd(new.interval, sub[s].end),
             sub[s].end < new.end
      PROVE  /\ \A t \in Subs \ {s} : sub'[t] = sub[t]
             /\ Period(sub'[s])
             /\ sub[s].end <= sub'[s].end
             /\ sub'[s].end = sub[s].end => sub'[s].start = sub[s].start
  <2>1. sub[s].end >= 1
    BY <1>t, <1>3 DEF PeriodInv, Period
  <2>2. Period(new)
    BY <1>t, <1>3, <2>1, PeriodFrom
  <2>3. new.end \in Nat
    BY <1>t, <1>3, CalendarAssumption, BillingAssumption DEF PeriodEnd, Instants
  <2> QED  BY <1>t, <1>3, <2>2, <2>3
<1>n. /\ NextPeriod(s).start = sub[s].end
      /\ NextPeriod(s).end = PeriodEnd(NextPeriod(s).interval, sub[s].end)
  BY <1>t DEF NextPeriod, Subscription
<1>4. CASE PortalToggleCancel(s)
  <2> DEFINE new == [sub[s] EXCEPT !.cancelAtPeriodEnd = ~@]
  <2>1. Started(s) /\ sub' = [sub EXCEPT ![s] = new]
    BY <1>4 DEF PortalToggleCancel, StripeChange, Started
  <2>2. /\ new.start = sub[s].start /\ new.end = sub[s].end
        /\ new.interval = sub[s].interval
    BY <1>t DEF Subscription
  <2> HIDE DEF new
  <2> QED  BY <1>2, <2>1, <2>2
<1>5. CASE PortalSwitchPlan(s)
  <2> PICK p \in PaidPlans : /\ sub[s].status = "active"
                             /\ StripeChange(s, [sub[s] EXCEPT !.planId = p], {"updated"})
    BY <1>5 DEF PortalSwitchPlan
  <2> DEFINE new == [sub[s] EXCEPT !.planId = p]
  <2>1. Started(s) /\ sub' = [sub EXCEPT ![s] = new]
    BY DEF StripeChange, Started
  <2>2. /\ new.start = sub[s].start /\ new.end = sub[s].end
        /\ new.interval = sub[s].interval
    BY <1>t DEF Subscription
  <2> HIDE DEF new
  <2> QED  BY <1>2, <2>1, <2>2
<1>6. CASE Renew(s)
  <2>1. /\ Started(s) /\ sub' = [sub EXCEPT ![s] = NextPeriod(s)]
        /\ sub[s].end < NextPeriod(s).end
    BY <1>6 DEF Renew, HasNextPeriod, StripeChange, Started
  <2> QED  BY <1>3, <1>n, <2>1
<1>7. CASE RenewalFails(s)
  <2> DEFINE new == [NextPeriod(s) EXCEPT !.status = "past_due"]
  <2>1. /\ Started(s) /\ sub' = [sub EXCEPT ![s] = new]
        /\ sub[s].end < NextPeriod(s).end
    BY <1>7 DEF RenewalFails, HasNextPeriod, StripeChange, Started
  <2>2. /\ new.start = NextPeriod(s).start /\ new.end = NextPeriod(s).end
        /\ new.interval = NextPeriod(s).interval
    BY <1>t DEF NextPeriod, Subscription
  <2> HIDE DEF new
  <2> QED  BY <1>3, <1>n, <2>1, <2>2
<1>8. CASE PaymentRecovers(s)
  <2> DEFINE new == [sub[s] EXCEPT !.status = "active"]
  <2>1. Started(s) /\ sub' = [sub EXCEPT ![s] = new]
    BY <1>8 DEF PaymentRecovers, StripeChange, Started
  <2>2. /\ new.start = sub[s].start /\ new.end = sub[s].end
        /\ new.interval = sub[s].interval
    BY <1>t DEF Subscription
  <2> HIDE DEF new
  <2> QED  BY <1>2, <2>1, <2>2
<1>9. CASE Cancel(s)
  <2> DEFINE new == [sub[s] EXCEPT !.status = "canceled"]
  <2>1. Started(s) /\ sub' = [sub EXCEPT ![s] = new]
    BY <1>9 DEF Cancel, StripeChange, Started
  <2>2. /\ new.start = sub[s].start /\ new.end = sub[s].end
        /\ new.interval = sub[s].interval
    BY <1>t DEF Subscription
  <2> HIDE DEF new
  <2> QED  BY <1>2, <2>1, <2>2
<1> QED  BY <1>1, <1>4, <1>5, <1>6, <1>7, <1>8, <1>9 DEF StripeStep

(* The steps that change a subscription.                                    *)
LEMMA SubWrites ==
  ASSUME [Next]_vars, sub' # sub
  PROVE  \/ \E s \in Subs : StripeStep(s)
         \/ \E u \in Users : OpenSession(u) /\ UNCHANGED <<access, cycleEnd>>
<1>1. \A u \in Users : BeginCheckout(u) => UNCHANGED sub
  BY DEF BeginCheckout, stripeVars
<1>2. \A h \in Handlers : HandlerStep(h) \/ HandlerFails(h) => UNCHANGED sub
  BY DEF HandlerStep, HandlerFails, ResolveActivation, ProcessRenewal,
         ResolveCancellation, GetSubscriptionDetails, UpsertUserAccess,
         ResetOnActivation, DowngradeUserToFreeTier, stripeVars
<1>3. \A h \in Handlers, e \in Event : Deliver(h, e) => UNCHANGED sub
  BY DEF Deliver
<1>4. Crash \/ UNCHANGED vars \/ UNCHANGED stripeVars => UNCHANGED sub
  BY DEF Crash, vars, stripeVars
<1>5. \A u \in Users : FinishCheckout(u) => UNCHANGED sub \/ OpenSession(u)
  BY DEF FinishCheckout
<1>6. \A u \in Users : FinishCheckout(u) => UNCHANGED <<access, cycleEnd>>
  BY DEF FinishCheckout, usageVars, tableVars
<1> QED  BY <1>1, <1>2, <1>3, <1>4, <1>5, <1>6 DEF Next

\* The period of s stays, or a later one begins.
Moved(s) ==
    Started(s)' =>
      /\ Period(sub'[s])
      /\ Started(s) => /\ sub[s].end <= sub'[s].end
                       /\ sub'[s].end = sub[s].end => sub'[s].start = sub[s].start

LEMMA PeriodsMove ==
  ASSUME AccessInv, PeriodInv, [Next]_vars, NEW s \in Subs
  PROVE  Moved(s)
<1>t. sub[s].end \in Nat
  BY CycleTypes
<1>1. CASE sub'[s] = sub[s]
  BY <1>1, <1>t DEF Moved, Started, PeriodInv
<1>2. ASSUME NEW t \in Subs, StripeStep(t)
      PROVE  Moved(s)
  <2>1. CASE s = t
    BY <1>2, <2>1, StripeStepMoves DEF Moved
  <2>2. CASE s # t
    BY <1>1, <1>2, <2>2, StripeStepMoves
  <2> QED  BY <2>1, <2>2
<1>3. ASSUME NEW u \in Users, OpenSession(u), sub'[s] # sub[s]
      PROVE  ~Started(s)'
  <2> PICK t \in Subs, p \in PaidPlans, i \in Intervals :
         /\ sub[t].status = "none"
         /\ sub' = [sub EXCEPT ![t] = [NoSubscription EXCEPT !.status   = "session",
                                                             !.owner    = u,
                                                             !.planId   = p,
                                                             !.interval = i]]
    BY <1>3, Zenon DEF OpenSession
  <2> DEFINE session == [NoSubscription EXCEPT !.status = "session", !.owner = u,
                                               !.planId = p, !.interval = i]
  <2>1. session.status = "session"
    BY RowTypes DEF Subscription, NoSubscription
  <2>2. sub' = [sub EXCEPT ![t] = session]
    OBVIOUS
  <2> HIDE DEF session
  <2>3. sub'[s].status = "session"
    BY <1>3, <2>1, <2>2, CycleTypes
  <2> QED  BY <2>3 DEF Started
<1> QED  BY <1>1, <1>2, <1>3, SubWrites DEF Moved

(* Time only moves on.                                                      *)
LEMMA ClockStep ==
  ASSUME AccessInv, [Next]_vars
  PROVE  now <= now'
<1>1. now \in Nat
  BY CycleTypes
<1>2. CASE UsageNext
  <2>1. ASSUME NEW r \in Requests, RequestStep(r) PROVE now' = now
    <3>1. \A u \in Users, f \in Features : HandleCreditUsage(r, u, f) => now' = now
      BY DEF HandleCreditUsage
    <3>2. \A u \in Users : BeginSubscriptionInfo(r, u) => now' = now
      BY DEF BeginSubscriptionInfo
    <3>3. GetActiveUsageRecord(r) => now' = now
      BY DEF GetActiveUsageRecord
    <3>4. GetSubscriptionInfo(r) => now' = now
      BY Zenon DEF GetSubscriptionInfo
    <3>5. DeductCredits(r) \/ JustInTimeReset(r) => now' = now
      BY DEF DeductCredits, JustInTimeReset
    <3> QED  BY <2>1, <3>1, <3>2, <3>3, <3>4, <3>5 DEF RequestStep
  <2>2. HandleAnniversaryResets \/ (\E u \in Users : ResetOnAnniversary(u)) => now' = now
    BY DEF HandleAnniversaryResets, ResetOnAnniversary
  <2>3. Tick => now' = now + 1
    BY DEF Tick
  <2>4. now' = now \/ now' = now + 1
    BY <1>2, <2>1, <2>2, <2>3 DEF UsageNext
  <2> QED  BY <1>1, <2>4
<1>3. CASE ~UsageNext
  <2>1. \A u \in Users : BeginCheckout(u) \/ FinishCheckout(u) => now' = now
    BY DEF BeginCheckout, FinishCheckout, usageVars
  <2>2. \A s \in Subs : StripeStep(s) => now' = now
    BY DEF StripeStep, CompleteCheckout, PortalToggleCancel, PortalSwitchPlan, Renew,
           RenewalFails, PaymentRecovers, Cancel, StripeChange, usageVars
  <2>3. \A h \in Handlers, e \in Event : Deliver(h, e) => now' = now
    BY DEF Deliver, usageVars
  <2>4. \A h \in Handlers : HandlerStep(h) \/ HandlerFails(h) => now' = now
    BY DEF HandlerStep, HandlerFails, ResolveActivation, ProcessRenewal,
           ResolveCancellation, GetSubscriptionDetails, UpsertUserAccess,
           ResetOnActivation, DowngradeUserToFreeTier, usageVars
  <2>5. Crash \/ UNCHANGED vars => now' = now
    BY DEF Crash, vars, usageVars
  <2>6. now' = now
    BY <1>3, <2>1, <2>2, <2>3, <2>4, <2>5 DEF Next
  <2> QED  BY <1>1, <2>6
<1> QED  BY <1>2, <1>3

(* What a handler has read of a subscription is a period it had.            *)
LEMMA PeriodStep ==
  ASSUME AccessInv, PeriodInv, [Next]_vars, PaymentGrows
  PROVE  PeriodInv'
<1>1. now' >= 1
  <2>1. now \in Nat /\ now' \in Nat /\ now >= 1 /\ now <= now'
    BY NextKeepsType, CycleTypes, ClockStep
       DEF PeriodInv, AccessInv, TypeInv, UsageInv, UsageTypeOK, Instants
  <2> QED  BY <2>1
<1>2. \A s \in Subs : Moved(s)
  BY PeriodsMove
<1>3. ASSUME NEW h \in Handlers PROVE SnapshotPeriod(h)'
  <2>t. /\ handler \in [Handlers -> HandlerState]
        /\ handler[h] \in HandlerState
        /\ handler[h].snap.start \in Nat /\ handler[h].snap.end \in Nat
        /\ handler[h].pc # "idle" => handler[h].sub \in Subs /\ Started(handler[h].sub)
        /\ \A s \in Subs : sub[s].end \in Nat /\ sub'[s].end \in Nat
        /\ \A s \in Subs : paidThrough[s] \in Nat /\ paidThrough'[s] \in Nat
    <3>1. TypeInv'
      BY NextKeepsType DEF AccessInv
    <3>2. \A s \in Subs : sub'[s].end \in Nat /\ paidThrough'[s] \in Nat
      BY <3>1 DEF TypeInv, StripeInv, StripeTypeOK, Subscription, Instants
    <3> QED  BY <3>2, CycleTypes DEF AccessInv, SnapshotInv
  <2>k. SnapshotPeriod(h)
    BY DEF PeriodInv
  <2>1. CASE handler'[h] = handler[h]
    <3> SUFFICES ASSUME handler[h].pc \in {"write", "usage"}
                 PROVE  SnapshotPeriod(h)'
      BY <2>1 DEF SnapshotPeriod
    <3>1. PICK s \in Subs, snap \in {handler[h].snap} : s = handler[h].sub /\ snap = handler[h].snap
      BY <2>t
    <3>2. /\ Started(s) /\ Started(s)'
          /\ paidThrough[s] <= paidThrough'[s]
      BY <2>t, <3>1 DEF PaymentGrows
    <3>3. /\ sub[s].end <= sub'[s].end
          /\ sub'[s].end = sub[s].end => sub'[s].start = sub[s].start
      BY <1>2, <3>2 DEF Moved
    <3>4. /\ Period(snap) /\ snap.end <= sub[s].end
          /\ snap.end = sub[s].end => snap.start = sub[s].start
          /\ handler[h].pc = "usage" => snap.end <= paidThrough[s]
      BY <2>k, <3>1 DEF SnapshotPeriod
    <3>5. /\ snap.end <= sub'[s].end
          /\ snap.end = sub'[s].end => snap.start = sub'[s].start
          /\ handler[h].pc = "usage" => snap.end <= paidThrough'[s]
      BY <2>t, <3>1, <3>2, <3>3, <3>4
    <3> QED  BY <2>1, <3>1, <3>4, <3>5 DEF SnapshotPeriod, Period
  <2>2. CASE GetSubscriptionDetails(h)
    <3>1. PICK s \in Subs : s = handler[h].sub /\ Started(s)
      BY <2>2, <2>t DEF GetSubscriptionDetails
    <3>2. /\ handler'[h].pc = "write" /\ handler'[h].sub = s /\ handler'[h].snap = sub[s]
          /\ sub' = sub
      BY <2>2, <2>t, <3>1 DEF GetSubscriptionDetails, HandlerState, stripeVars
    <3>3. Period(sub[s])
      BY <3>1 DEF PeriodInv
    <3> QED  BY <2>t, <3>2, <3>3 DEF SnapshotPeriod, Period
  <2>3. CASE UpsertUserAccess(h)
    <3>1. PICK s \in Subs, snap \in {handler[h].snap} : s = handler[h].sub /\ snap = handler[h].snap
      BY <2>3, <2>t DEF UpsertUserAccess
    <3>2. handler[h].pc = "write" /\ UNCHANGED <<sub, paidThrough>>
      BY <2>3 DEF UpsertUserAccess, stripeVars
    <3>3. CASE Entitles(snap) /\ handler' = [handler EXCEPT ![h].pc = "usage"]
      <4>1. snap.end <= paidThrough[s]
        BY <3>1, <3>2, <3>3 DEF AccessInv, SnapshotInv
      <4>2. handler'[h].pc = "usage" /\ handler'[h].sub = s /\ handler'[h].snap = snap
        BY <2>t, <3>1, <3>3 DEF HandlerState
      <4> QED  BY <2>k, <3>1, <3>2, <4>1, <4>2 DEF SnapshotPeriod, Period
    <3>4. CASE Done(h)
      BY <2>t, <3>4 DEF Done, IdleHandler, SnapshotPeriod
    <3> QED  BY <2>3, <3>1, <3>3, <3>4 DEF UpsertUserAccess
  <2>4. CASE handler'[h].pc \in {"idle", "resolve", "fetch", "downgrade"}
    BY <2>4 DEF SnapshotPeriod
  <2>5. handler'[h] # handler[h] => \/ handler'[h].pc \in {"idle", "resolve", "fetch", "downgrade"}
                                    \/ GetSubscriptionDetails(h)
                                    \/ UpsertUserAccess(h)
    <3>1. \A e \in Event : Deliver(h, e) => handler'[h].pc = "resolve"
      BY <2>t, RowTypes DEF Deliver, HandlerState
    <3>2. ResolveActivation(h) => handler'[h].pc \in {"idle", "fetch"}
      BY <2>t DEF ResolveActivation, Done, IdleHandler, HandlerState
    <3>3. ResolveCancellation(h) => handler'[h].pc \in {"idle", "downgrade"}
      BY <2>t DEF ResolveCancellation, Done, IdleHandler, HandlerState
    <3> QED  BY <3>1, <3>2, <3>3, HandlerWrites DEF AccessInv
  <2> QED  BY <2>1, <2>2, <2>3, <2>4, <2>5
<1> QED  BY <1>1, <1>2, <1>3 DEF PeriodInv, Moved

(* What was paid for stays paid for.                                        *)
LEMMA CoveredGrows ==
  ASSUME AccessInv, AccessInv', PaymentGrows, NEW u, NEW a, NEW b \in Nat,
         Covered(sub, paidThrough, u, a, b)
  PROVE  Covered(sub', paidThrough', u, a, b)
<1>1. PICK s \in Subs : Started(s) /\ sub[s].owner = u /\ b <= paidThrough[s]
  BY DEF Covered, Started
<1>2. Started(s)' /\ sub'[s].owner = u /\ paidThrough[s] <= paidThrough'[s]
  BY <1>1 DEF PaymentGrows
<1>3. paidThrough[s] \in Nat /\ paidThrough'[s] \in Nat
  BY DEF AccessInv, TypeInv, StripeInv, StripeTypeOK, Instants
<1>4. b <= paidThrough'[s]
  BY <1>1, <1>2, <1>3
<1> QED  BY <1>2, <1>4 DEF Covered, Started

(* A paid row covers the time until it expires.                             *)
LEMMA RowCovers ==
  ASSUME AccessInv, NEW u \in Users, access[u].planId \in PaidPlans,
         NEW a, NEW b \in Nat, a <= b, b <= access[u].expiresAt
  PROVE  Covered(sub, paidThrough, u, a, b)
<1>1. PICK s \in Subs : /\ sub[s].owner = u
                        /\ access[u].planId \in plansHad[s]
                        /\ access[u].expiresAt <= paidThrough[s]
  BY DEF AccessInv, NoUnpaidAccess
<1>2. Started(s)
  BY <1>1 DEF AccessInv, PaymentInv
<1>3. access[u].expiresAt \in Nat /\ paidThrough[s] \in Nat
  BY CycleTypes
<1>4. b <= paidThrough[s]
  BY <1>1, <1>3
<1> QED  BY <1>1, <1>2, <1>4 DEF Covered, Started

(* The steps outside of the usage tables.                                   *)
LEMMA StripeOnly ==
  ASSUME [Next]_vars, ~UsageNext, ~Crash
  PROVE  /\ UNCHANGED <<now, req, cron>>
         /\ (\A h \in Handlers : ~ResetOnActivation(h)) => UNCHANGED cycleEnd
<1>1. \A u \in Users : BeginCheckout(u) \/ FinishCheckout(u) => UNCHANGED usageVars
  BY DEF BeginCheckout, FinishCheckout
<1>2. \A s \in Subs : StripeStep(s) => UNCHANGED usageVars
  BY DEF StripeStep, CompleteCheckout, PortalToggleCancel, PortalSwitchPlan, Renew,
         RenewalFails, PaymentRecovers, Cancel, StripeChange
<1>3. \A h \in Handlers, e \in Event : Deliver(h, e) => UNCHANGED usageVars
  BY DEF Deliver
<1>4. ASSUME NEW h \in Handlers, HandlerStep(h) \/ HandlerFails(h)
      PROVE  /\ UNCHANGED <<now, req, cron>>
             /\ ~ResetOnActivation(h) => UNCHANGED cycleEnd
  BY <1>4 DEF HandlerStep, HandlerFails, ResolveActivation, ProcessRenewal,
              ResolveCancellation, GetSubscriptionDetails, UpsertUserAccess,
              ResetOnActivation, DowngradeUserToFreeTier, usageVars, tableVars
<1>5. UNCHANGED vars => UNCHANGED usageVars
  BY DEF vars
<1>6. UNCHANGED usageVars => UNCHANGED <<now, req, cron, cycleEnd>>
  BY DEF usageVars
<1> QED  BY <1>1, <1>2, <1>3, <1>4, <1>5, <1>6 DEF Next

(* The steps that open a cycle ...                                          *)
LEMMA CycleWrites ==
  ASSUME [Next]_vars
  PROVE  \/ UNCHANGED cycleEnd
         \/ \E r \in Requests : JustInTimeReset(r)
         \/ \E u \in Users : ResetOnAnniversary(u)
         \/ \E h \in Handlers : ResetOnActivation(h)
<1>1. CASE UsageNext
  <2>1. ASSUME NEW r \in Requests, RequestStep(r), ~JustInTimeReset(r)
        PROVE  UNCHANGED cycleEnd
    <3>1. \A u \in Users, f \in Features : HandleCreditUsage(r, u, f) => UNCHANGED cycleEnd
      BY DEF HandleCreditUsage, tableVars
    <3>2. \A u \in Users : BeginSubscriptionInfo(r, u) => UNCHANGED cycleEnd
      BY DEF BeginSubscriptionInfo, tableVars
    <3>3. GetActiveUsageRecord(r) => UNCHANGED cycleEnd
      BY DEF GetActiveUsageRecord, tableVars
    <3>4. GetSubscriptionInfo(r) => UNCHANGED cycleEnd
      BY Zenon DEF GetSubscriptionInfo, tableVars
    <3>5. DeductCredits(r) => UNCHANGED cycleEnd
      BY DEF DeductCredits
    <3> QED  BY <2>1, <3>1, <3>2, <3>3, <3>4, <3>5 DEF RequestStep
  <2>2. Tick \/ HandleAnniversaryResets => UNCHANGED cycleEnd
    BY DEF Tick, HandleAnniversaryResets, tableVars
  <2> QED  BY <1>1, <2>1, <2>2 DEF UsageNext
<1>2. CASE Crash
  BY <1>2 DEF Crash, tableVars
<1>3. CASE ~UsageNext /\ ~Crash
  BY <1>3, StripeOnly
<1> QED  BY <1>1, <1>2, <1>3

(* ... that decide to ...                                                   *)
LEMMA ResetWrites ==
  ASSUME AccessInv, [Next]_vars, NEW r \in Requests, req'[r].pc = "reset", req'[r] # req[r]
  PROVE  GetSubscriptionInfo(r) /\ UNCHANGED access
<1>t. req \in [Requests -> RequestState] /\ Idle.pc = "idle"
  BY CycleTypes DEF Idle
<1>1. CASE UsageNext
  <2>1. Tick \/ HandleAnniversaryResets \/ (\E u \in Users : ResetOnAnniversary(u))
          => UNCHANGED req
    BY DEF Tick, HandleAnniversaryResets, ResetOnAnniversary
  <2>2. PICK q \in Requests : RequestStep(q)
    BY <1>1, <2>1 DEF UsageNext
  <2>3. ASSUME NEW n, req' = [req EXCEPT ![q] = n], n.pc # "reset"
        PROVE  FALSE
    BY <1>t, <2>3
  <2>4. ASSUME NEW u \in Users, NEW f \in Features
        PROVE  ~HandleCreditUsage(q, u, f)
    <3>1. HandleCreditUsage(q, u, f) =>
            \E n : req' = [req EXCEPT ![q] = n] /\ n.pc # "reset"
      BY DEF HandleCreditUsage, Idle
    <3> QED  BY <2>3, <3>1
  <2>5. ASSUME NEW u \in Users
        PROVE  ~BeginSubscriptionInfo(q, u)
    <3>1. BeginSubscriptionInfo(q, u) => \E n : req' = [req EXCEPT ![q] = n] /\ n.pc # "reset"
      BY DEF BeginSubscriptionInfo, Idle
    <3> QED  BY <2>3, <3>1
  <2>6. ~Finish(q)
    BY <1>t, <2>3 DEF Finish
  <2>7. ~GetActiveUsageRecord(q)
    <3>1. GetActiveUsageRecord(q) =>
            \/ Finish(q)
            \/ \E c \in Instants : req' = [req EXCEPT ![q].pc = "deduct", ![q].cycle = c]
      BY DEF GetActiveUsageRecord
    <3>2. ASSUME NEW c, req' = [req EXCEPT ![q].pc = "deduct", ![q].cycle = c]
          PROVE  FALSE
      BY <1>t, <3>2 DEF RequestState
    <3> QED  BY <2>6, <3>1, <3>2
  <2>8. ~DeductCredits(q)
    <3>1. AfterCharge(q).pc # "reset"
      BY <1>t DEF AfterCharge, Idle
    <3> QED  BY <2>3, <2>6, <3>1 DEF DeductCredits
  <2>9. ~JustInTimeReset(q)
    BY <2>6 DEF JustInTimeReset
  <2>10. GetSubscriptionInfo(q)
    BY <2>2, <2>4, <2>5, <2>7, <2>8, <2>9 DEF RequestStep
  <2>11. UNCHANGED access
    BY <2>10, Zenon DEF GetSubscriptionInfo
  <2>12. PICK start \in Instants :
           req' = [req EXCEPT ![q].pc = "reset", ![q].newStart = start,
                              ![q].newEnd = access[req[q].user].expiresAt]
    BY <2>6, <2>10, Zenon DEF GetSubscriptionInfo
  <2>13. q = r
    BY <1>t, <2>12
  <2> QED  BY <2>10, <2>11, <2>13
<1>2. CASE Crash
  BY <1>2, <1>t DEF Crash
<1>3. CASE ~UsageNext /\ ~Crash
  BY <1>3, StripeOnly
<1> QED  BY <1>1, <1>2, <1>3

(* ... or that list who is due.                                             *)
LEMMA CronWrites ==
  ASSUME AccessInv, [Next]_vars
  PROVE  \/ HandleAnniversaryResets
         \/ cron'.ran = cron.ran /\ cron'.due \subseteq cron.due
<1>t. cron \in [ran : Instants \cup {None}, due : SUBSET (Users \X Instants)]
  BY DEF AccessInv, TypeInv, UsageInv, UsageTypeOK
<1>1. CASE UsageNext
  <2>1. ASSUME NEW r \in Requests, RequestStep(r)
        PROVE  UNCHANGED cron
    <3>1. \A u \in Users, f \in Features : HandleCreditUsage(r, u, f) => UNCHANGED cron
      BY DEF HandleCreditUsage
    <3>2. \A u \in Users : BeginSubscriptionInfo(r, u) => UNCHANGED cron
      BY DEF BeginSubscriptionInfo
    <3>3. GetActiveUsageRecord(r) => UNCHANGED cron
      BY DEF GetActiveUsageRecord
    <3>4. GetSubscriptionInfo(r) => UNCHANGED cron
      BY Zenon DEF GetSubscriptionInfo
    <3>5. DeductCredits(r) \/ JustInTimeReset(r) => UNCHANGED cron
      BY DEF DeductCredits, JustInTimeReset
    <3> QED  BY <2>1, <3>1, <3>2, <3>3, <3>4, <3>5 DEF RequestStep
  <2>2. Tick => UNCHANGED cron
    BY DEF Tick
  <2>3. ASSUME NEW u \in Users, ResetOnAnniversary(u)
        PROVE  cron'.ran = cron.ran /\ cron'.due \subseteq cron.due
    BY <1>t, <2>3 DEF ResetOnAnniversary
  <2> QED  BY <1>1, <2>1, <2>2, <2>3 DEF UsageNext
<1>2. CASE Crash
  BY <1>2, <1>t DEF Crash
<1>3. CASE ~UsageNext /\ ~Crash
  BY <1>3, StripeOnly
<1> QED  BY <1>1, <1>2, <1>3

\* Only a paid row has a day of the month on which its usage is reset.
ResetDayInv == \A u \in Users : access[u].monthlyResetDay # None => access[u].planId \in PaidPlans

LEMMA ResetDayStep ==
  ASSUME AccessInv, ResetDayInv, [Next]_vars
  PROVE  ResetDayInv'
<1> SUFFICES ASSUME NEW u \in Users, access'[u].monthlyResetDay # None
             PROVE  access'[u].planId \in PaidPlans
  BY DEF ResetDayInv
<1>t. access \in [Users -> AccessRow] /\ handler \in [Handlers -> HandlerState]
  BY CycleTypes
<1>1. CASE access'[u] = access[u]
  BY <1>1 DEF ResetDayInv
<1>2. CASE access'[u] = FreeAccess
  BY <1>2 DEF FreeAccess
<1>3. ASSUME NEW h \in Handlers, UpsertUserAccess(h), access'[u] # access[u],
             access'[u] # FreeAccess
      PROVE  access'[u].planId \in PaidPlans
  <2>1. PICK s \in Subs, snap \in {handler[h].snap} : s = handler[h].sub /\ snap = handler[h].snap
    BY <1>3, CycleTypes DEF UpsertUserAccess
  <2>2. handler[h].pc = "write" /\ Entitles(snap) /\ access'[u] = PaidAccess(s, snap)
    BY <1>3, <1>t, <2>1 DEF UpsertUserAccess
  <2>3. snap.planId \in plansHad[s] /\ plansHad[s] \subseteq PaidPlans
    BY <2>1, <2>2 DEF AccessInv, SnapshotInv, TypeInv, StripeInv, StripeTypeOK
  <2> QED  BY <2>2, <2>3 DEF PaidAccess
<1> QED  BY <1>1, <1>2, <1>3, AccessWrites DEF AccessInv

(* A reset for a cycle that is paid for leaves only such cycles.            *)
LEMMA ResetCovers ==
  ASSUME AccessInv, AccessInv', CycleInv, PaymentGrows,
         NEW u \in Users, NEW start \in Instants, NEW end \in Instants,
         Covered(sub, paidThrough, u, start, end),
         cycleEnd' = [cycleEnd EXCEPT ![u][start] = end]
  PROVE  \A v \in Users : \A c \in Cycles(v)' \ {0} :
           Covered(sub', paidThrough', v, c, cycleEnd'[v][c])
<1> SUFFICES ASSUME NEW v \in Users, NEW c \in Instants, cycleEnd'[v][c] # None, c # 0
             PROVE  Covered(sub', paidThrough', v, c, cycleEnd'[v][c])
  BY DEF Cycles
<1>t. /\ cycleEnd \in [Users -> [Instants -> Instants \cup {None}]]
      /\ end \in Nat /\ Instants \subseteq Nat
  BY CycleTypes DEF Instants
<1>1. CASE v = u /\ c = start
  <2>1. cycleEnd'[v][c] = end
    BY <1>1, <1>t
  <2> QED  BY <1>1, <1>t, <2>1, CoveredGrows
<1>2. CASE ~(v = u /\ c = start)
  <2>1. cycleEnd'[v][c] = cycleEnd[v][c]
    BY <1>2, <1>t
  <2>2. cycleEnd[v][c] \in Nat
    BY <1>t, <2>1
  <2>3. Covered(sub, paidThrough, v, c, cycleEnd[v][c])
    BY <2>1 DEF CycleInv, Cycles
  <2> QED  BY <2>1, <2>2, <2>3, CoveredGrows
<1> QED  BY <1>1, <1>2

(* The cycles that exist are paid for ...                                   *)
LEMMA CyclesStep ==
  ASSUME AccessInv, AccessInv', PeriodInv, CycleInv, PaymentGrows, [Next]_vars
  PROVE  \A v \in Users : \A c \in Cycles(v)' \ {0} :
           Covered(sub', paidThrough', v, c, cycleEnd'[v][c])
<1>t. /\ cycleEnd \in [Users -> [Instants -> Instants \cup {None}]]
      /\ Instants \subseteq Nat
  BY CycleTypes DEF Instants
<1>1. CASE UNCHANGED cycleEnd
  <2> SUFFICES ASSUME NEW v \in Users, NEW c \in Instants, cycleEnd[v][c] # None, c # 0
               PROVE  Covered(sub', paidThrough', v, c, cycleEnd[v][c])
    BY <1>1 DEF Cycles
  <2>1. Covered(sub, paidThrough, v, c, cycleEnd[v][c])
    BY DEF CycleInv, Cycles
  <2> QED  BY <1>t, <2>1, CoveredGrows
<1>2. ASSUME NEW r \in Requests, JustInTimeReset(r)
      PROVE  \A v \in Users : \A c \in Cycles(v)' \ {0} :
               Covered(sub', paidThrough', v, c, cycleEnd'[v][c])
  <2>1. /\ req[r].user \in Users /\ req[r].newStart \in Instants
        /\ req[r].newEnd \in Instants
    BY <1>2 DEF JustInTimeReset, AccessInv, TypeInv, UsageInv, RequestInv
  <2>2. Covered(sub, paidThrough, req[r].user, req[r].newStart, req[r].newEnd)
    BY <1>2 DEF JustInTimeReset, CycleInv
  <2>3. cycleEnd' = [cycleEnd EXCEPT ![req[r].user][req[r].newStart] = req[r].newEnd]
    BY <1>2 DEF JustInTimeReset, ResetUsageForNewCycle
  <2> QED  BY <2>1, <2>2, <2>3, ResetCovers
<1>3. ASSUME NEW u \in Users, ResetOnAnniversary(u), cycleEnd' # cycleEnd
      PROVE  \A v \in Users : \A c \in Cycles(v)' \ {0} :
               Covered(sub', paidThrough', v, c, cycleEnd'[v][c])
  <2>1. PICK end \in Instants :
          /\ <<u, end>> \in cron.due
          /\ cycleEnd' = [cycleEnd EXCEPT ![u][StartOfDay[cron.ran]] = end]
    BY <1>3 DEF ResetOnAnniversary, ResetUsageForNewCycle, tableVars
  <2>2. StartOfDay[cron.ran] \in Instants
    BY <2>1, CalendarAssumption DEF AccessInv, TypeInv, UsageInv, CronInv
  <2>3. Covered(sub, paidThrough, u, StartOfDay[cron.ran], end)
    BY <2>1 DEF CycleInv
  <2> QED  BY <2>1, <2>2, <2>3, ResetCovers
<1>4. ASSUME NEW h \in Handlers, ResetOnActivation(h)
      PROVE  \A v \in Users : \A c \in Cycles(v)' \ {0} :
               Covered(sub', paidThrough', v, c, cycleEnd'[v][c])
  <2>1. PICK s \in Subs, snap \in {handler[h].snap} : s = handler[h].sub /\ snap = handler[h].snap
    BY <1>4, CycleTypes DEF ResetOnActivation
  <2> DEFINE end == IF snap.interval = "year" THEN NextMonth[snap.start] ELSE snap.end
  <2>2. /\ handler[h].pc = "usage"
        /\ cycleEnd' = [cycleEnd EXCEPT ![handler[h].user][snap.start] = end]
    BY <1>4, <2>1 DEF ResetOnActivation, ResetUsageForNewCycle
  <2>3. Started(s) /\ handler[h].user = sub[s].owner /\ snap \in Subscription
    BY <2>1, <2>2, CycleTypes DEF AccessInv, SnapshotInv, HandlerState
  <2>4. handler[h].user \in Users
    BY <2>3 DEF AccessInv, TypeInv, StripeInv, SubInv, Started
  <2>5. Period(snap) /\ snap.end <= paidThrough[s]
    BY <2>1, <2>2 DEF PeriodInv, SnapshotPeriod
  <2>6. /\ snap.start \in Instants /\ end \in Instants
        /\ snap.start <= NextMonth[snap.start]
    BY <2>3, BillingAssumption DEF Subscription
  <2>7. snap.start <= end /\ end <= snap.end
    <3>1. CASE snap.interval = "year"
      BY <2>5, <2>6, <3>1 DEF Period
    <3>2. CASE snap.interval # "year"
      <4>1. end = snap.end /\ snap.end \in Nat
        BY <2>1, <3>2, CycleTypes
      <4> QED  BY <2>5, <4>1 DEF Period
    <3> QED  BY <3>1, <3>2
  <2>8. paidThrough[s] \in Nat /\ snap.end \in Nat
    BY <1>t, <2>3, CycleTypes DEF Subscription
  <2> HIDE DEF end
  <2>9. end <= paidThrough[s]
    <3>1. end \in Nat
      BY <1>t, <2>6
    <3> QED  BY <2>5, <2>7, <2>8, <3>1
  <2>10. Covered(sub, paidThrough, handler[h].user, snap.start, end)
    BY <2>3, <2>7, <2>9 DEF Covered, Started
  <2> QED  BY <2>2, <2>4, <2>6, <2>10, ResetCovers
<1> QED  BY <1>1, <1>2, <1>3, <1>4, CycleWrites

(* ... as are those a request or the daily job is about to open: they end   *)
(* with the access row that was read, which ends after the present.         *)
LEMMA ResetsStep ==
  ASSUME AccessInv, AccessInv', CycleInv, PaymentGrows, [Next]_vars,
         NEW r \in Requests, req'[r].pc = "reset"
  PROVE  Covered(sub', paidThrough', req'[r].user, req'[r].newStart, req'[r].newEnd)
<1>t. /\ req \in [Requests -> RequestState]
      /\ now \in Nat /\ Instants \subseteq Nat
      /\ cycleEnd \in [Users -> [Instants -> Instants \cup {None}]]
  BY CycleTypes DEF Instants
<1>1. req'[r].newEnd \in Nat
  BY <1>t DEF AccessInv, TypeInv, UsageInv, RequestInv
<1>2. CASE req'[r] = req[r]
  <2>1. Covered(sub, paidThrough, req[r].user, req[r].newStart, req[r].newEnd)
    BY <1>2 DEF CycleInv
  <2> QED  BY <1>1, <1>2, <2>1, CoveredGrows
<1>3. CASE req'[r] # req[r]
  <2>1. GetSubscriptionInfo(r) /\ UNCHANGED access
    BY <1>3, ResetWrites
  <2>2. ~Finish(r)
    BY <1>t DEF Finish, Idle
  <2>3. PICK start \in Instants :
          /\ NeedsReset(req[r].user, start)
          /\ req' = [req EXCEPT ![r].pc = "reset", ![r].newStart = start,
                                ![r].newEnd = access[req[r].user].expiresAt]
    BY <2>1, <2>2, Zenon DEF GetSubscriptionInfo
  <2>4. PICK u : u = req[r].user
    OBVIOUS
  <2>5. u \in Users
    <3>1. req[r].pc = "info"
      BY <2>1, Zenon DEF GetSubscriptionInfo
    <3> QED  BY <2>4, <3>1 DEF AccessInv, TypeInv, UsageInv, RequestInv
  <2>6. /\ req'[r].user = u /\ req'[r].newStart = start
        /\ req'[r].newEnd = access[u].expiresAt
    BY <1>t, <2>3, <2>4 DEF RequestState
  <2>7. access[u].planId \in PaidPlans /\ now < access[u].expiresAt /\ IsResetStart(u, start)
    BY <2>3, <2>4 DEF NeedsReset
  <2>8. start <= now
    <3>1. CASE start = now
      BY <1>t, <3>1
    <3>2. ASSUME NEW c \in Cycles(u), now > cycleEnd[u][c], start = cycleEnd[u][c]
          PROVE  start <= now
      BY <1>t, <3>2
    <3> QED  BY <2>7, <3>1, <3>2 DEF IsResetStart
  <2>9. access[u].expiresAt \in Nat /\ start \in Nat
    BY <1>t, <2>5, CycleTypes
  <2>10. start <= access[u].expiresAt
    BY <1>t, <2>7, <2>8, <2>9
  <2>11. Covered(sub, paidThrough, u, start, access[u].expiresAt)
    BY <2>5, <2>7, <2>9, <2>10, RowCovers
  <2> QED  BY <2>6, <2>9, <2>11, CoveredGrows
<1> QED  BY <1>2, <1>3

LEMMA DueStep ==
  ASSUME AccessInv, AccessInv', ResetDayInv, CycleInv, PaymentGrows, [Next]_vars,
         NEW due \in cron'.due
  PROVE  Covered(sub', paidThrough', due[1], StartOfDay[cron'.ran], due[2])
<1>t. /\ now \in Instants /\ now \in Nat /\ Instants \subseteq Nat
      /\ cron' \in [ran : Instants \cup {None}, due : SUBSET (Users \X Instants)]
  BY CycleTypes DEF Instants, AccessInv, TypeInv, UsageInv, UsageTypeOK
<1>1. due \in Users \X Instants /\ due[2] \in Nat
  BY <1>t
<1>2. CASE cron'.ran = cron.ran /\ due \in cron.due
  <2>1. Covered(sub, paidThrough, due[1], StartOfDay[cron.ran], due[2])
    BY <1>2 DEF CycleInv
  <2> QED  BY <1>1, <1>2, <2>1, CoveredGrows
<1>3. CASE HandleAnniversaryResets
  <2>1. /\ cron'.ran = now
        /\ cron'.due = {<<u, AnniversaryEnd(u)>> : u \in DueToday}
    BY <1>3 DEF HandleAnniversaryResets
  <2>2. PICK u \in DueToday : due = <<u, AnniversaryEnd(u)>>
    BY <2>1
  <2>3. /\ u \in Users /\ access[u].expiresAt > now
        /\ access[u].monthlyResetDay = DayOfMonth[now]
    BY DEF DueToday
  <2>4. access[u].planId \in PaidPlans
    <3>1. DayOfMonth[now] # None
      BY <1>t, CalendarAssumption, NoneAssumption
    <3> QED  BY <2>3, <3>1 DEF ResetDayInv
  <2> DEFINE start == StartOfDay[now]
             end   == AddMonth[start]
  <2>5. /\ start \in Nat /\ end \in Nat /\ access[u].expiresAt \in Nat
        /\ start <= now /\ start <= end
    BY <1>t, <2>3, CycleTypes, CalendarAssumption
  <2> HIDE DEF start
  <2>6. due[2] \in {end, access[u].expiresAt} /\ due[2] <= access[u].expiresAt
    BY <2>2, <2>5 DEF AnniversaryEnd, start
  <2> HIDE DEF end
  <2>7. start <= due[2]
    BY <1>t, <2>3, <2>5, <2>6
  <2>8. Covered(sub, paidThrough, u, start, due[2])
    BY <1>1, <2>3, <2>4, <2>6, <2>7, RowCovers
  <2> QED  BY <1>1, <2>1, <2>2, <2>8, CoveredGrows DEF start
<1> QED  BY <1>2, <1>3, CronWrites

LEMMA CycleStep ==
  ASSUME AccessInv, AccessInv', PeriodInv, ResetDayInv, CycleInv, PaymentGrows, [Next]_vars
  PROVE  CycleInv'
<1>1. \A v \in Users : \A c \in Cycles(v)' \ {0} :
        Covered(sub', paidThrough', v, c, cycleEnd'[v][c])
  BY CyclesStep
<1>2. \A r \in Requests : req'[r].pc = "reset" =>
        Covered(sub', paidThrough', req'[r].user, req'[r].newStart, req'[r].newEnd)
  BY ResetsStep
<1>3. \A due \in cron'.due :
        Covered(sub', paidThrough', due[1], StartOfDay[cron'.ran], due[2])
  BY DueStep
<1> QED  BY <1>1, <1>2, <1>3 DEF CycleInv, Cycles

MeteredInv == AccessInv /\ PeriodInv /\ ResetDayInv /\ CycleInv

LEMMA InitMeteredInv == Init => MeteredInv
<1> SUFFICES ASSUME Init PROVE MeteredInv
  OBVIOUS
<1>1. AccessInv
  BY InitAccessInv
<1>2. PeriodInv
  BY DEF Init, UsageInit, UsageInitFor, PeriodInv, SnapshotPeriod, IdleHandler, Started,
         NoSubscription
<1>3. ResetDayInv
  BY DEF Init, UsageInit, UsageInitFor, ResetDayInv, FreeAccess, NoAccess
<1>4. CycleInv
  <2>1. \A u \in Users : Cycles(u) \ {0} = {}
    BY DEF Init, UsageInit, UsageInitFor, Cycles
  <2>2. \A r \in Requests : req[r].pc # "reset"
    BY DEF Init, UsageInit, UsageInitFor, Idle
  <2>3. cron.due = {}
    BY DEF Init, UsageInit, UsageInitFor
  <2> QED  BY <2>1, <2>2, <2>3 DEF CycleInv
<1> QED  BY <1>1, <1>2, <1>3, <1>4 DEF MeteredInv

LEMMA NextKeepsMetered ==
  ASSUME MeteredInv, [Next]_vars
  PROVE  MeteredInv'
<1>1. AccessInv' /\ PaymentGrows
  BY NextKeepsAccess DEF MeteredInv
<1> QED  BY <1>1, PeriodStep, ResetDayStep, CycleStep DEF MeteredInv

(* No usage cycle but that of the sign-up outlasts what its user has paid,  *)
(* whoever opened it - a webhook, a request or the daily job - and however  *)
(* stale what it had read was by then.                                      *)
THEOREM CyclesPaidFor == Spec => []CyclesArePaidFor
<1>1. Spec => []MeteredInv
  BY InitMeteredInv, NextKeepsMetered, PTL DEF Spec
<1>2. MeteredInv => CyclesArePaidFor
  BY DEF MeteredInv, CycleInv, CyclesArePaidFor, Covered, PaidUntil
<1> QED  BY <1>1, <1>2, PTL

-----------------------------------------------------------------------------
(* The cycle of the period.  Who has written the row of a period opens its  *)
(* cycle next, fails, or is cut off; and no cycle is ever taken away.       *)

LEMMA ActivationOpens ==
  ASSUME AccessInv, NEW h \in Handlers, ResetOnActivation(h)
  PROVE  \E end \in Instants :
           /\ handler[h].user \in Users /\ handler[h].snap.start \in Instants
           /\ cycleEnd' = [cycleEnd EXCEPT ![handler[h].user][handler[h].snap.start] = end]
<1>1. PICK s \in Subs, snap \in {handler[h].snap} : s = handler[h].sub /\ snap = handler[h].snap
  BY CycleTypes DEF ResetOnActivation
<1>2. /\ handler[h].pc = "usage"
      /\ cycleEnd' = [cycleEnd EXCEPT ![handler[h].user][snap.start] =
                        IF snap.interval = "year" THEN NextMonth[snap.start] ELSE snap.end]
  BY <1>1 DEF ResetOnActivation, ResetUsageForNewCycle
<1>3. Started(s) /\ handler[h].user = sub[s].owner /\ snap \in Subscription
  BY <1>1, <1>2, CycleTypes DEF AccessInv, SnapshotInv, HandlerState
<1>4. handler[h].user \in Users
  BY <1>3 DEF AccessInv, TypeInv, StripeInv, SubInv, Started
<1>5. snap.start \in Instants /\ snap.end \in Instants /\ NextMonth[snap.start] \in Instants
  BY <1>3, BillingAssumption DEF Subscription
<1> QED  BY <1>1, <1>2, <1>4, <1>5

(* What a step may do to UserUsage: nothing, a charge of one cycle that     *)
(* stays within the quota the request carries, or the reset of one cycle.   *)
ChargeStep(r) ==
    /\ req[r].pc = "deduct"
    /\ usedAmount[req[r].user][req[r].cycle] + Cost[req[r].feature] <= req[r].quota
    /\ usedAmount' = [usedAmount EXCEPT
           ![req[r].user][req[r].cycle] = @ + Cost[req[r].feature]]
    /\ UNCHANGED cycleEnd

ResetStep(u, start, end) ==
    /\ cycleEnd'   = [cycleEnd EXCEPT ![u][start] = end]
    /\ usedAmount' = [usedAmount EXCEPT ![u][start] = 0]

LEMMA UsageSteps ==
  ASSUME AccessInv, [Next]_vars
  PROVE  \/ UNCHANGED tableVars
         \/ \E r \in Requests : ChargeStep(r)
         \/ \E u \in Users, start \in Instants, end \in Instants : ResetStep(u, start, end)
<1> USE DEF AccessInv, TypeInv, UsageInv
<1>1. CASE UsageNext
  <2>1. CASE Tick \/ HandleAnniversaryResets
    BY <2>1 DEF Tick, HandleAnniversaryResets
  <2>2. CASE \E u \in Users : ResetOnAnniversary(u)
    <3> PICK u \in Users, end \in Instants :
           /\ <<u, end>> \in cron.due
           /\ \/ ResetUsageForNewCycle(u, StartOfDay[cron.ran], end)
              \/ UNCHANGED tableVars
      BY <2>2 DEF ResetOnAnniversary
    <3>1. StartOfDay[cron.ran] \in Instants
      BY CalendarAssumption DEF CronInv
    <3> QED  BY <3>1 DEF ResetUsageForNewCycle, ResetStep
  <2>3. CASE \E r \in Requests : RequestStep(r)
    <3> PICK r \in Requests : RequestStep(r)
      BY <2>3
    <3>t. req[r] \in RequestState
      BY DEF UsageTypeOK
    <3>1. CASE DeductCredits(r)
      <4>1. /\ req[r].user \in Users /\ req[r].feature \in Features
            /\ req[r].cycle \in Instants
        BY <3>1 DEF DeductCredits, RequestInv
      <4>2. /\ usedAmount[req[r].user][req[r].cycle] \in Nat
            /\ Cost[req[r].feature] \in Nat
            /\ req[r].quota \in Nat
        BY <3>t, <4>1, FeaturesAssumption DEF UsageTypeOK, RequestState
      <4>3. CreditsSuffice(r) =>
              usedAmount[req[r].user][req[r].cycle] + Cost[req[r].feature] <= req[r].quota
        BY <4>2 DEF CreditsSuffice
      <4> QED  BY <3>1, <4>3 DEF DeductCredits, ChargeStep, tableVars
    <3>2. CASE JustInTimeReset(r)
      <4>1. /\ req[r].user \in Users
            /\ req[r].newStart \in Instants /\ req[r].newEnd \in Instants
        BY <3>2 DEF JustInTimeReset, RequestInv
      <4> QED  BY <3>2, <4>1 DEF JustInTimeReset, ResetUsageForNewCycle, ResetStep
    <3>3. CASE \/ \E u \in Users, f \in Features : HandleCreditUsage(r, u, f)
               \/ \E u \in Users : BeginSubscriptionInfo(r, u)
               \/ GetActiveUsageRecord(r)
               \/ GetSubscriptionInfo(r)
      BY <3>3 DEF HandleCreditUsage, BeginSubscriptionInfo, GetActiveUsageRecord,
                  GetSubscriptionInfo
    <3> QED  BY <3>1, <3>2, <3>3 DEF RequestStep
  <2> QED  BY <1>1, <2>1, <2>2, <2>3 DEF UsageNext
<1>2. ASSUME NEW h \in Handlers, ResetOnActivation(h)
      PROVE  \E u \in Users, start \in Instants, end \in Instants : ResetStep(u, start, end)
  <2> DEFINE snap == handler[h].snap
             end  == IF snap.interval = "year" THEN NextMonth[snap.start] ELSE snap.end
  <2>1. handler[h].user \in Users
    <3>1. handler[h].sub \in Subs /\ Started(handler[h].sub)
      BY <1>2 DEF ResetOnActivation, SnapshotInv, StripeInv, HandlerInv
    <3>2. handler[h].user = sub[handler[h].sub].owner
      BY <1>2 DEF ResetOnActivation, SnapshotInv
    <3> QED  BY <3>1, <3>2 DEF StripeInv, SubInv, Started
  <2>2. snap.start \in Instants /\ end \in Instants
    BY BillingAssumption DEF StripeInv, StripeTypeOK, HandlerState, Subscription
  <2>3. ResetUsageForNewCycle(handler[h].user, snap.start, end)
    BY <1>2 DEF ResetOnActivation
  <2> HIDE DEF snap, end
  <2> QED  BY <2>1, <2>2, <2>3 DEF ResetUsageForNewCycle, ResetStep
<1>3. ASSUME NEW h \in Handlers,
             HandlerFails(h) \/ (HandlerStep(h) /\ ~ResetOnActivation(h))
      PROVE  UNCHANGED tableVars
  BY <1>3 DEF HandlerStep, HandlerFails, ResolveActivation, ProcessRenewal,
              ResolveCancellation, GetSubscriptionDetails, UpsertUserAccess,
              DowngradeUserToFreeTier, usageVars, tableVars
<1>4. (\E u \in Users : BeginCheckout(u) \/ FinishCheckout(u))
        \/ (\E h \in Handlers, e \in Event : Deliver(h, e)) \/ Crash \/ UNCHANGED vars
        => UNCHANGED tableVars
  BY DEF BeginCheckout, FinishCheckout, Deliver, Crash, vars, usageVars, tableVars
<1>5. (\E s \in Subs : StripeStep(s)) => UNCHANGED tableVars
  BY DEF StripeStep, CompleteCheckout, PortalToggleCancel, PortalSwitchPlan, Renew,
         RenewalFails, PaymentRecovers, Cancel, StripeChange, usageVars, tableVars
<1> QED  BY <1>1, <1>2, <1>3, <1>4, <1>5 DEF Next

(* No row of UserUsage is ever deleted. *)
LEMMA CyclesStay ==
  ASSUME AccessInv, [Next]_vars, NEW u \in Users, NEW c \in Instants,
         cycleEnd[u][c] # None
  PROVE  cycleEnd'[u][c] # None
<1>t. cycleEnd \in [Users -> [Instants -> Instants \cup {None}]]
  BY DEF AccessInv, TypeInv, UsageInv, UsageTypeOK
<1>1. CASE UNCHANGED tableVars
  BY <1>1 DEF tableVars
<1>2. CASE \E r \in Requests : ChargeStep(r)
  BY <1>2 DEF ChargeStep
<1>3. CASE \E v \in Users, start \in Instants, end \in Instants : ResetStep(v, start, end)
  <2> PICK v \in Users, start \in Instants, end \in Instants : ResetStep(v, start, end)
    BY <1>3
  <2>1. end # None
    BY NoneAssumption DEF Instants
  <2> QED  BY <1>t, <2>1 DEF ResetStep
<1> QED  BY <1>1, <1>2, <1>3, UsageSteps

(* How a handler that is about to open a cycle ends.                        *)
LEMMA UsageEnds ==
  ASSUME AccessInv, [Next]_vars, NEW h \in Handlers,
         handler[h].pc = "usage", handler'[h] # handler[h]
  PROVE  ResetOnActivation(h) \/ HandlerFails(h) \/ Crash
<1>t. handler \in [Handlers -> HandlerState]
  BY CycleTypes
<1>1. \A u \in Users : BeginCheckout(u) \/ FinishCheckout(u) => UNCHANGED handler
  BY DEF BeginCheckout, FinishCheckout
<1>2. \A g \in Handlers, e \in Event : Deliver(g, e) => handler'[h] = handler[h]
  BY <1>t DEF Deliver
<1>3. \A g \in Handlers \ {h} : HandlerStep(g) \/ HandlerFails(g)
                                 => handler'[h] = handler[h]
  BY <1>t DEF HandlerStep, HandlerFails, Done, ResolveActivation, ProcessRenewal,
              ResolveCancellation, GetSubscriptionDetails, UpsertUserAccess,
              ResetOnActivation, DowngradeUserToFreeTier
<1>4. HandlerStep(h) => ResetOnActivation(h)
  BY DEF HandlerStep, ResolveActivation, ProcessRenewal, ResolveCancellation,
         GetSubscriptionDetails, UpsertUserAccess, DowngradeUserToFreeTier
<1> QED  BY <1>1, <1>2, <1>3, <1>4, OtherStepsKeepAccess

LEMMA DisturbedStay ==
  ASSUME [Next]_vars
  PROVE  disturbed \subseteq disturbed'
<1>1. UNCHANGED vars \/ UNCHANGED webhookVars => UNCHANGED disturbed
  BY DEF vars, webhookVars
<1>2. \A u \in Users : BeginCheckout(u) \/ FinishCheckout(u) => disturbed \subseteq disturbed'
  BY DEF BeginCheckout, FinishCheckout
<1>3. \A s \in Subs : StripeStep(s) => UNCHANGED webhookVars
  BY DEF StripeStep, CompleteCheckout, PortalToggleCancel, PortalSwitchPlan, Renew,
         RenewalFails, PaymentRecovers, Cancel, StripeChange
<1>4. ASSUME NEW h \in Handlers, HandlerStep(h) PROVE UNCHANGED disturbed
  <2>1. ResolveActivation(h) \/ ProcessRenewal(h) => UNCHANGED disturbed
    BY DEF ResolveActivation, ProcessRenewal
  <2>2. ResolveCancellation(h) \/ GetSubscriptionDetails(h) => UNCHANGED disturbed
    BY DEF ResolveCancellation, GetSubscriptionDetails
  <2>3. UpsertUserAccess(h) => UNCHANGED disturbed
    BY DEF UpsertUserAccess
  <2>4. ResetOnActivation(h) \/ DowngradeUserToFreeTier(h) => UNCHANGED disturbed
    BY DEF ResetOnActivation, DowngradeUserToFreeTier
  <2> QED  BY <1>4, <2>1, <2>2, <2>3, <2>4 DEF HandlerStep
<1>5. ASSUME NEW h \in Handlers
      PROVE  /\ HandlerFails(h) => disturbed \subseteq disturbed'
             /\ \A e \in Event : Deliver(h, e) => disturbed \subseteq disturbed'
  <2>1. HandlerFails(h) => disturbed \subseteq disturbed'
    BY DEF HandlerFails
  <2>2. \A e \in Event : Deliver(h, e) => disturbed \subseteq disturbed'
    BY DEF Deliver
  <2> QED  BY <2>1, <2>2
<1>6. Crash => disturbed \subseteq disturbed'
  BY DEF Crash
<1> QED  BY <1>1, <1>2, <1>3, <1>4, <1>5, <1>6 DEF Next

(* What stands between the row of a period and its cycle.                   *)
Opened(u, s) ==
    \/ sub[s].start \in Cycles(u)
    \/ \E h \in Handlers : /\ handler[h].pc = "usage"
                           /\ handler[h].sub = s /\ handler[h].user = u
                           /\ handler[h].snap.start = sub[s].start

LEMMA RowOfThePeriod ==
  ASSUME AccessInv, RowsInv, PeriodInv, [Next]_vars,
         NEW u \in Users, NEW s \in Subs, access'[u] = access[u],
         access[u].subscriptionId = s, access[u].expiresAt = sub'[s].end
  PROVE  /\ sub[s].owner = u
         /\ access[u].expiresAt = sub[s].end /\ sub'[s].start = sub[s].start
<1>1. /\ sub[s].owner = u /\ access[u].planId \in plansHad[s]
      /\ access[u].expiresAt <= paidThrough[s]
  BY DEF RowsInv, AccessInv, NoUnpaidAccess
<1>2. Started(s) /\ paidThrough[s] <= sub[s].end
  BY <1>1 DEF AccessInv, PaymentInv
<1>3. Moved(s) /\ Started(s)'
  BY <1>2, PeriodsMove, NextKeepsAccess DEF PaymentGrows
<1>4. /\ sub[s].end <= sub'[s].end
      /\ sub'[s].end = sub[s].end => sub'[s].start = sub[s].start
  BY <1>2, <1>3 DEF Moved
<1>5. access[u].expiresAt \in Nat /\ paidThrough[s] \in Nat /\ sub[s].end \in Nat
  BY CycleTypes
<1>6. access[u].expiresAt = sub[s].end
  BY <1>1, <1>2, <1>4, <1>5
<1> QED  BY <1>1, <1>4, <1>6

LEMMA OpenedKept ==
  ASSUME AccessInv, [Next]_vars,
         NEW u \in Users, NEW s \in Subs, u \notin disturbed',
         sub[s].owner = u, sub'[s].start = sub[s].start, Opened(u, s)
  PROVE  Opened(u, s)'
<1>1. CASE sub[s].start \in Cycles(u)
  BY <1>1, CyclesStay DEF Opened, Cycles
<1>2. ASSUME NEW h \in Handlers, handler[h].pc = "usage", handler[h].sub = s,
             handler[h].user = u, handler[h].snap.start = sub[s].start
      PROVE  Opened(u, s)'
  <2>1. CASE handler'[h] = handler[h]
    BY <1>2, <2>1 DEF Opened
  <2>2. CASE ResetOnActivation(h)
    <3>1. PICK end \in Instants :
            cycleEnd' = [cycleEnd EXCEPT ![handler[h].user][handler[h].snap.start] = end]
      BY <2>2, ActivationOpens
    <3>2. sub[s].start \in Instants
      BY CycleTypes
    <3>3. cycleEnd'[u][sub[s].start] = end
      BY <1>2, <3>1, <3>2, CycleTypes
    <3>4. sub[s].start \in Cycles(u)'
      BY <3>2, <3>3, NoneAssumption DEF Cycles, Instants
    <3> QED  BY <3>4 DEF Opened
  <2>3. CASE HandlerFails(h)
    BY <1>2, <2>3 DEF HandlerFails
  <2>4. CASE Crash
    BY <1>2, <2>4 DEF Crash, Busy
  <2> QED  BY <1>2, <2>1, <2>2, <2>3, <2>4, UsageEnds
<1> QED  BY <1>1, <1>2 DEF Opened

LEMMA OpenedStep ==
  ASSUME AccessInv, RowsInv, PeriodInv, OpenedInv, [Next]_vars
  PROVE  OpenedInv'
<1> SUFFICES ASSUME NEW u \in Users, u \notin disturbed', NEW s \in Subs,
                    access'[u].subscriptionId = s, access'[u].expiresAt = sub'[s].end
             PROVE  Opened(u, s)'
  BY DEF OpenedInv, Opened
<1>t. access \in [Users -> AccessRow] /\ handler \in [Handlers -> HandlerState]
  BY CycleTypes
<1>1. CASE access'[u] = access[u]
  <2>1. /\ sub[s].owner = u
        /\ access[u].expiresAt = sub[s].end /\ sub'[s].start = sub[s].start
    BY <1>1, RowOfThePeriod
  <2>2. u \notin disturbed
    BY DisturbedStay
  <2>3. Opened(u, s)
    BY <1>1, <2>1, <2>2 DEF OpenedInv, Opened
  <2> QED  BY <2>1, <2>3, OpenedKept
<1>2. CASE access'[u] = FreeAccess
  BY <1>2, NoneAssumption DEF FreeAccess
<1>3. ASSUME NEW h \in Handlers, UpsertUserAccess(h), access'[u] # access[u],
             access'[u] # FreeAccess
      PROVE  Opened(u, s)'
  <2>1. PICK snap : snap = handler[h].snap
    OBVIOUS
  <2>2. /\ handler[h].pc = "write" /\ handler[h].user = u
        /\ access'[u] = PaidAccess(handler[h].sub, snap)
        /\ handler' = [handler EXCEPT ![h].pc = "usage"]
        /\ UNCHANGED sub
    BY <1>3, <1>t, <2>1 DEF UpsertUserAccess, stripeVars
  <2>3. handler[h].sub = s /\ snap.end = sub[s].end
    BY <2>2 DEF PaidAccess
  <2>4. snap.start = sub[s].start
    BY <2>1, <2>2, <2>3 DEF PeriodInv, SnapshotPeriod
  <2>5. /\ handler'[h].pc = "usage" /\ handler'[h].sub = s
        /\ handler'[h].user = u /\ handler'[h].snap = snap
    BY <1>t, <2>1, <2>2, <2>3 DEF HandlerState
  <2> QED  BY <2>2, <2>4, <2>5 DEF Opened
<1> QED  BY <1>1, <1>2, <1>3, AccessWrites DEF AccessInv

LEMMA CycleSuffices ==
  ASSUME MeteredInv, MirrorInv, OpenedInv
  PROVE  PaidPeriodHasCycle
<1> SUFFICES ASSUME NEW u \in Users, Quiet(u), NEW s \in Subs, s = stripeCustomerId[u],
                    Entitles(sub[s])
             PROVE  LET start == sub[s].start
                    IN  /\ start \in Cycles(u)
                        /\ start <= cycleEnd[u][start]
                        /\ PaidUntil(u, cycleEnd[u][start])
  BY DEF PaidPeriodHasCycle
<1>1. access[u] = PaidAccess(s, sub[s])
  BY MirrorSuffices DEF MeteredInv, AccessMirrorsStripe
<1>2. access[u].subscriptionId = s /\ access[u].expiresAt = sub[s].end
  BY <1>1 DEF PaidAccess
<1>3. sub[s].owner = u /\ Started(s)
  BY DEF MeteredInv, AccessInv, CustomerInv
<1>4. u \notin disturbed /\ \A h \in Handlers : handler[h].pc = "usage" => handler[h].sub # s
  BY <1>3 DEF Quiet, Busy
<1>5. sub[s].start \in Cycles(u)
  BY <1>2, <1>4 DEF OpenedInv
<1>6. sub[s].start # 0
  BY <1>3, CycleTypes DEF MeteredInv, PeriodInv, Period
<1>7. Covered(sub, paidThrough, u, sub[s].start, cycleEnd[u][sub[s].start])
  BY <1>5, <1>6 DEF MeteredInv, CycleInv
<1> QED  BY <1>5, <1>7 DEF Covered, PaidUntil

(* An entitled user whose events were all processed, one at a time and      *)
(* without a failure, has a cycle that starts with the period and ends when *)
(* a period of the same user's does: for any number of users, handlers and  *)
(* requests in flight.                                                      *)
THEOREM PaidPeriodHasItsCycle == Spec /\ Registered => []PaidPeriodHasCycle
<1>1. Spec => []MeteredInv
  BY InitMeteredInv, NextKeepsMetered, PTL DEF Spec
<1>2. Spec /\ Registered => []MirrorInv
  <2>1. MeteredInv /\ MirrorInv /\ [Next]_vars => MirrorInv'
    BY NextKeepsMirror DEF MeteredInv
  <2> QED  BY <1>1, <2>1, InitMirrorInv, PTL DEF Spec
<1>3. Init => OpenedInv
  BY NoneAssumption DEF Init, UsageInit, UsageInitFor, OpenedInv, FreeAccess, NoAccess
<1>4. MeteredInv /\ MirrorInv /\ OpenedInv /\ [Next]_vars => OpenedInv'
  BY OpenedStep DEF MeteredInv, MirrorInv
<1>5. Spec /\ Registered => []OpenedInv
  BY <1>1, <1>2, <1>3, <1>4, PTL DEF Spec
<1>6. MeteredInv /\ MirrorInv /\ OpenedInv => PaidPeriodHasCycle
  BY CycleSuffices
<1> QED  BY <1>1, <1>2, <1>5, <1>6, PTL
=============================================================================
