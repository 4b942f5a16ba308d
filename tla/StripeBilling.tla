--------------------------- MODULE StripeBilling ---------------------------
(***************************************************************************)
(* Subscriptions bought through Stripe, on top of the credit meter.        *)
(*                                                                         *)
(*   StripeService                 createCheckoutOrPortalSession,          *)
(*                                 handleWebhookEvent                      *)
(*   StripeController.handleWebhook                                        *)
(*   StripeWebhookProcessorService activation, renewal, cancellation       *)
(*   StripeDbService               the reads and writes of User and        *)
(*                                 UserAccess                              *)
(*                                                                         *)
(* A webhook is acknowledged before it is processed; the processing then   *)
(* runs on its own, one step per await, and whatever it throws is logged.  *)
(* Stripe itself is the environment: it delivers every event at least      *)
(* once, in any order, and the processor reads the CURRENT subscription    *)
(* back from it.                                                           *)
(***************************************************************************)
EXTENDS CreditUsage

CONSTANTS
    Handlers,      \* webhook events processed at the same time
    AddYear,       \* the end of a yearly period
    NextMonth,     \* setMonth(getMonth() + 1): past the end of a shorter month
    Intervals,     \* billing intervals on sale, of {"month", "year"}
    Subscribed,    \* event types the webhook endpoint is registered for
    OwnCustomer    \* any Stripe customer without a subscription

ASSUME BillingAssumption == /\ AddYear \in [Instants -> Instants]
                            /\ NextMonth \in [Instants -> Instants]
                            /\ \A t \in Instants :
                                 /\ AddMonth[t] <= AddYear[t]
                                 /\ t <= NextMonth[t] /\ NextMonth[t] <= AddYear[t]
                            /\ Intervals \subseteq {"month", "year"}
                            /\ Subscribed \subseteq
                                 {"checkout", "invoice", "updated", "deleted"}
                            /\ OwnCustomer \notin Subs
                            /\ OwnCustomer # None

VARIABLES
    sub,               \* Stripe: every subscription, by id
    pending,           \* Stripe: events not delivered yet
    stripeCustomerId,  \* User.stripeCustomerId
    checkout,          \* the users with a call about to store a new customer
    handler,           \* the local variables of every webhook in progress
    paidThrough,       \* history: the end of the last period paid, by subscription
    plansHad,          \* history: the plans a subscription was ever active on
    disturbed          \* history: the users whose processing failed or overlapped

stripeVars  == <<sub, pending, paidThrough, plansHad>>
webhookVars == <<stripeCustomerId, checkout, handler, disturbed>>
vars == <<usageVars, stripeVars, webhookVars>>

-----------------------------------------------------------------------------
(* A Checkout session is opened with customer_email and never with          *)
(* customer, so Stripe makes a new customer for every subscription: the     *)
(* customer of subscription s is written s.  "session" is a Checkout        *)
(* session nobody has paid yet.                                             *)

Status == {"none", "session", "active", "past_due", "canceled"}

Subscription == [status            : Status,
                 owner             : Users \cup {None},
                 planId            : PaidPlans \cup {None},
                 interval          : {"month", "year"},
                 start             : Instants,
                 end               : Instants,
                 cancelAtPeriodEnd : BOOLEAN]

NoSubscription == [status |-> "none", owner |-> None, planId |-> None,
                   interval |-> "month", start |-> 0, end |-> 0,
                   cancelAtPeriodEnd |-> FALSE]

EventType == {"checkout", "invoice", "updated", "deleted"}
Event     == Subscribed \X Subs

Started(s) == sub[s].status \notin {"none", "session"}

(* What Stripe may deliver, or deliver again: a subscription that exists    *)
(* had its checkout completed, an invoice paid and updates; only a          *)
(* canceled one was deleted.                                                *)
Sent == {e \in Event : /\ Started(e[2])
                       /\ e[1] = "deleted" => sub[e[2]].status = "canceled"}

HandlerState == [pc   : {"idle", "resolve", "fetch", "write", "usage", "downgrade"},
                 type : EventType \cup {None},
                 sub  : Subs \cup {None},
                 user : Users \cup {None},
                 snap : Subscription]

IdleHandler == [pc |-> "idle", type |-> None, sub |-> None, user |-> None,
                snap |-> NoSubscription]

Customer == Subs \cup {OwnCustomer, None}

StripeTypeOK ==
    /\ sub \in [Subs -> Subscription]
    /\ pending \subseteq Event
    /\ paidThrough \in [Subs -> Instants]
    /\ plansHad \in [Subs -> SUBSET PaidPlans]
    /\ stripeCustomerId \in [Users -> Customer]
    /\ checkout \subseteq Users
    /\ handler \in [Handlers -> HandlerState]
    /\ disturbed \subseteq Users

(* Every variable has its type. *)
TypeOK == UsageTypeOK /\ StripeTypeOK

Init ==
    /\ UsageInit
    /\ sub = [s \in Subs |-> NoSubscription]
    /\ pending = {}
    /\ paidThrough = [s \in Subs |-> 0]
    /\ plansHad = [s \in Subs |-> {}]
    /\ stripeCustomerId = [u \in Users |-> None]
    /\ checkout = {}
    /\ handler = [h \in Handlers |-> IdleHandler]
    /\ disturbed = {}

-----------------------------------------------------------------------------
(* StripeService.createCheckoutOrPortalSession.  A call for a user without  *)
(* a customer first finds or makes one at Stripe, then stores it; a user    *)
(* with a customer carries nothing over.                                    *)

\* An event is, or is about to be, processed for u.
Busy(u) == \/ u \in checkout
           \/ \E h \in Handlers : handler[h].pc # "idle" /\ sub[handler[h].sub].owner = u

BeginCheckout(u) ==
    /\ stripeCustomerId[u] = None
    /\ checkout' = checkout \cup {u}
    /\ disturbed' = disturbed \cup {v \in {u} : Busy(v)}
    /\ UNCHANGED <<usageVars, stripeVars, stripeCustomerId, handler>>

HasActiveNonCanceledSubscription(u) ==
    /\ access[u].planId \in PaidPlans
    /\ access[u].expiresAt > now
    /\ ~access[u].cancelAtPeriodEnd

OpenSession(u) ==
    \E s \in Subs, p \in PaidPlans, i \in Intervals :
      /\ sub[s].status = "none"
      /\ sub' = [sub EXCEPT ![s] = [NoSubscription EXCEPT !.status   = "session",
                                                          !.owner    = u,
                                                          !.planId   = p,
                                                          !.interval = i]]

(* The customers Stripe lists for the email of u, or makes for it. *)
CustomersByEmail(u) == {OwnCustomer} \cup {s \in Subs : Started(s) /\ sub[s].owner = u}

(* The store, then the portal or a Checkout session.  Another call of the   *)
(* same user may still be on its way with the customer it found.            *)
FinishCheckout(u) ==
    /\ \/ /\ u \in checkout
          /\ checkout' \in {checkout, checkout \ {u}}
          /\ \E c \in CustomersByEmail(u) :
               stripeCustomerId' = [stripeCustomerId EXCEPT ![u] = c]
       \/ /\ stripeCustomerId[u] # None
          /\ UNCHANGED <<checkout, stripeCustomerId>>
    /\ \/ HasActiveNonCanceledSubscription(u) /\ UNCHANGED sub
       \/ ~HasActiveNonCanceledSubscription(u) /\ OpenSession(u)
    /\ UNCHANGED <<usageVars, pending, paidThrough, plansHad, handler, disturbed>>

-----------------------------------------------------------------------------
(* Stripe: what happens to a subscription, and the events it sends.         *)

PeriodEnd(i, t) == IF i = "year" THEN AddYear[t] ELSE AddMonth[t]

StripeChange(s, new, types) ==
    /\ sub' = [sub EXCEPT ![s] = new]
    /\ pending' = pending \cup {<<t, s>> : t \in types \cap Subscribed}
    /\ UNCHANGED <<usageVars, webhookVars>>

Paid(s, new) ==
    /\ paidThrough' = [paidThrough EXCEPT ![s] = new.end]
    /\ plansHad' = [plansHad EXCEPT ![s] = @ \cup {new.planId}]

\* The period after the current one.  Bound: it ends before Forever.
NextPeriod(s) ==
    [sub[s] EXCEPT !.start = sub[s].end, !.end = PeriodEnd(sub[s].interval, sub[s].end)]

HasNextPeriod(s) ==
    /\ now >= sub[s].end
    /\ ~sub[s].cancelAtPeriodEnd
    /\ sub[s].end < NextPeriod(s).end
    /\ NextPeriod(s).end < Forever

\* The user pays.  Bound: the first period ends before Forever.
CompleteCheckout(s) ==
    LET new == [sub[s] EXCEPT !.status = "active", !.start = now,
                              !.end = PeriodEnd(sub[s].interval, now)]
    IN  /\ sub[s].status = "session"
        /\ new.end < Forever
        /\ StripeChange(s, new, {"checkout", "invoice"})
        /\ Paid(s, new)

\* The portal of a user only manages the customer the user row names.
PortalToggleCancel(s) ==
    /\ sub[s].status = "active"
    /\ stripeCustomerId[sub[s].owner] = s
    /\ StripeChange(s, [sub[s] EXCEPT !.cancelAtPeriodEnd = ~@], {"updated"})
    /\ UNCHANGED <<paidThrough, plansHad>>

PortalSwitchPlan(s) ==
    \E p \in PaidPlans \ {sub[s].planId} :
      LET new == [sub[s] EXCEPT !.planId = p] IN
      /\ sub[s].status = "active"
      /\ stripeCustomerId[sub[s].owner] = s
      /\ StripeChange(s, new, {"updated"})
      /\ Paid(s, new)

Renew(s) ==
    /\ sub[s].status = "active"
    /\ HasNextPeriod(s)
    /\ StripeChange(s, NextPeriod(s), {"updated", "invoice"})
    /\ Paid(s, NextPeriod(s))

RenewalFails(s) ==
    /\ sub[s].status = "active"
    /\ HasNextPeriod(s)
    /\ StripeChange(s, [NextPeriod(s) EXCEPT !.status = "past_due"], {"updated"})
    /\ UNCHANGED <<paidThrough, plansHad>>

PaymentRecovers(s) ==
    LET new == [sub[s] EXCEPT !.status = "active"] IN
    /\ sub[s].status = "past_due"
    /\ StripeChange(s, new, {"updated", "invoice"})
    /\ Paid(s, new)

\* At the end of its last period, for want of payment, or by the dashboard.
Cancel(s) ==
    /\ sub[s].status \in {"active", "past_due"}
    /\ StripeChange(s, [sub[s] EXCEPT !.status = "canceled"], {"deleted"})
    /\ UNCHANGED <<paidThrough, plansHad>>

StripeStep(s) ==
    \/ CompleteCheckout(s)
    \/ PortalToggleCancel(s)
    \/ PortalSwitchPlan(s)
    \/ Renew(s)
    \/ RenewalFails(s)
    \/ PaymentRecovers(s)
    \/ Cancel(s)

-----------------------------------------------------------------------------
(* Webhooks *)

Done(h) == handler' = [handler EXCEPT ![h] = IdleHandler]

(* StripeController.handleWebhook: acknowledged at once.  A delivery that   *)
(* is not pending is a duplicate.                                           *)
Deliver(h, e) ==
    /\ handler[h].pc = "idle"
    /\ e \in Sent
    /\ pending' = pending \ {e}
    /\ handler' = [handler EXCEPT ![h] = [IdleHandler EXCEPT !.pc   = "resolve",
                                                             !.type = e[1],
                                                             !.sub  = e[2]]]
    /\ disturbed' = disturbed \cup {u \in Users : sub[e[2]].owner = u /\ Busy(u)}
    /\ UNCHANGED <<usageVars, sub, paidThrough, plansHad, stripeCustomerId, checkout>>

(* findUserByStripeData: by customer, else by the user id the event         *)
(* carries; only a Checkout session carries one.                            *)
\* Mutation: no fall-back to the user id of the Checkout session.
UserByCustomerOnly(type, s) == {u \in Users : stripeCustomerId[u] = s}

UserByStripeData(type, s) ==
    LET byCustomer == {u \in Users : stripeCustomerId[u] = s} IN
    IF byCustomer # {} THEN byCustomer
    ELSE IF type = "checkout" THEN {sub[s].owner} ELSE {}

(* processSubscriptionActivation up to the call of Stripe. *)
ResolveActivation(h) ==
    LET s == handler[h].sub IN
    /\ handler[h].pc = "resolve"
    /\ handler[h].type \in {"checkout", "updated"}
    /\ \/ /\ UserByStripeData(handler[h].type, s) = {}
          /\ Done(h)
          /\ UNCHANGED stripeCustomerId
       \/ \E u \in UserByStripeData(handler[h].type, s) :
            /\ stripeCustomerId' = [stripeCustomerId EXCEPT ![u] = s]
            /\ handler' = [handler EXCEPT ![h].pc = "fetch", ![h].user = u]
    /\ UNCHANGED <<usageVars, stripeVars, checkout, disturbed>>

(* processSubscriptionRenewal takes the id of the invoice for the id of its *)
(* subscription.  An invoice id never starts with sub_, so it returns.      *)
ProcessRenewal(h) ==
    /\ handler[h].pc = "resolve"
    /\ handler[h].type = "invoice"
    /\ Done(h)
    /\ UNCHANGED <<usageVars, stripeVars, stripeCustomerId, checkout, disturbed>>

(* processSubscriptionCancellation: the user of the customer, else the user *)
(* whose access names the subscription.                                     *)
UserToDowngrade(s) ==
    LET found == UserByStripeData("deleted", s) IN
    IF found # {} THEN found ELSE {u \in Users : access[u].subscriptionId = s}

ResolveCancellation(h) ==
    LET s == handler[h].sub IN
    /\ handler[h].pc = "resolve"
    /\ handler[h].type = "deleted"
    /\ \/ UserToDowngrade(s) = {} /\ Done(h)
       \/ \E u \in UserToDowngrade(s) :
            handler' = [handler EXCEPT ![h].pc = "downgrade", ![h].user = u]
    /\ UNCHANGED <<usageVars, stripeVars, stripeCustomerId, checkout, disturbed>>

(* _getSubscriptionDetails: the subscription as Stripe has it now. *)
GetSubscriptionDetails(h) ==
    /\ handler[h].pc = "fetch"
    /\ handler' = [handler EXCEPT ![h].pc = "write", ![h].snap = sub[handler[h].sub]]
    /\ UNCHANGED <<usageVars, stripeVars, stripeCustomerId, checkout, disturbed>>

(* What the access row becomes: the paid plan for an active subscription,   *)
(* FREE for one that is past due or canceled.                               *)
\* Mutation: a month of grace on top of the period.
PaidAccessWithGrace(s, snap) ==
    [planId            |-> snap.planId,
     expiresAt         |-> AddMonth[snap.end],
     subscriptionId    |-> s,
     cancelAtPeriodEnd |-> snap.cancelAtPeriodEnd,
     monthlyResetDay   |-> None]

PaidAccess(s, snap) ==
    [planId            |-> snap.planId,
     expiresAt         |-> snap.end,
     subscriptionId    |-> s,
     cancelAtPeriodEnd |-> snap.cancelAtPeriodEnd,
     monthlyResetDay   |-> IF snap.interval = "year" THEN DayOfMonth[snap.start]
                           ELSE None]

\* Mutation: a subscription past due keeps its access.
EntitlesPastDue(snap) == snap.status \in {"active", "past_due"}

Entitles(snap) == snap.status = "active"

\* Mutation: the statuses that end a subscription are unhandled ones.
UpsertWithoutDowngrade(h) ==
    LET snap == handler[h].snap
        u    == handler[h].user
    IN  /\ handler[h].pc = "write"
        /\ \/ /\ Entitles(snap)
              /\ access' = [access EXCEPT ![u] = PaidAccess(handler[h].sub, snap)]
              /\ handler' = [handler EXCEPT ![h].pc = "usage"]
           \/ /\ ~Entitles(snap)
              /\ Done(h)
              /\ UNCHANGED access
        /\ UNCHANGED <<now, tableVars, req, cron, stripeVars, stripeCustomerId,
                       checkout, disturbed>>

UpsertUserAccess(h) ==
    LET snap == handler[h].snap
        u    == handler[h].user
    IN  /\ handler[h].pc = "write"
        /\ \/ /\ Entitles(snap)
              /\ access' = [access EXCEPT ![u] = PaidAccess(handler[h].sub, snap)]
              /\ handler' = [handler EXCEPT ![h].pc = "usage"]
           \/ /\ ~Entitles(snap)
              /\ access' = [access EXCEPT ![u] = FreeAccess]
              /\ Done(h)
        /\ UNCHANGED <<now, tableVars, req, cron, stripeVars, stripeCustomerId,
                       checkout, disturbed>>

\* Mutation: only a new subscription resets the usage.
ResetOnCheckoutOnly(h) ==
    LET snap == handler[h].snap IN
    /\ handler[h].pc = "usage"
    /\ IF handler[h].type = "checkout"
       THEN ResetUsageForNewCycle(handler[h].user, snap.start, snap.end)
       ELSE UNCHANGED tableVars
    /\ Done(h)
    /\ UNCHANGED <<now, access, req, cron, stripeVars, stripeCustomerId, checkout,
                   disturbed>>

(* The usage reset that ends an activation: the whole period of a monthly   *)
(* plan, the first month of a yearly one.                                   *)
ResetOnActivation(h) ==
    LET snap == handler[h].snap IN
    /\ handler[h].pc = "usage"
    /\ ResetUsageForNewCycle(handler[h].user, snap.start,
           IF snap.interval = "year" THEN NextMonth[snap.start] ELSE snap.end)
    /\ Done(h)
    /\ UNCHANGED <<now, access, req, cron, stripeVars, stripeCustomerId, checkout,
                   disturbed>>

\* Mutation: the free access of a downgraded user has no expiry.
DowngradeWithoutExpiry(h) ==
    /\ handler[h].pc = "downgrade"
    /\ access' = [access EXCEPT ![handler[h].user] = [FreeAccess EXCEPT !.expiresAt = None]]
    /\ Done(h)
    /\ UNCHANGED <<now, tableVars, req, cron, stripeVars, stripeCustomerId, checkout,
                   disturbed>>

DowngradeUserToFreeTier(h) ==
    /\ handler[h].pc = "downgrade"
    /\ access' = [access EXCEPT ![handler[h].user] = FreeAccess]
    /\ Done(h)
    /\ UNCHANGED <<now, tableVars, req, cron, stripeVars, stripeCustomerId, checkout,
                   disturbed>>

(* A call to Stripe or to the database throws: the error is logged and the  *)
(* event, already acknowledged, is lost.                                    *)
HandlerFails(h) ==
    /\ handler[h].pc # "idle"
    /\ Done(h)
    /\ disturbed' = disturbed \cup {u \in Users : sub[handler[h].sub].owner = u}
    /\ UNCHANGED <<usageVars, stripeVars, stripeCustomerId, checkout>>

HandlerStep(h) ==
    \/ ResolveActivation(h)
    \/ ProcessRenewal(h)
    \/ ResolveCancellation(h)
    \/ GetSubscriptionDetails(h)
    \/ UpsertUserAccess(h)
    \/ ResetOnActivation(h)
    \/ DowngradeUserToFreeTier(h)

(* The server restarts: everything in memory is gone. *)
Crash ==
    /\ handler' = [h \in Handlers |-> IdleHandler]
    /\ req' = [r \in Requests |-> Idle]
    /\ cron' = [cron EXCEPT !.due = {}]
    /\ checkout' = {}
    /\ disturbed' = disturbed \cup {u \in Users : Busy(u)}
    /\ UNCHANGED <<now, access, tableVars, stripeVars, stripeCustomerId>>

-----------------------------------------------------------------------------
Next ==
    \/ UsageNext /\ UNCHANGED <<stripeVars, webhookVars>>
    \/ \E u \in Users : BeginCheckout(u) \/ FinishCheckout(u)
    \/ \E s \in Subs : StripeStep(s)
    \/ \E h \in Handlers : \/ \E e \in Event : Deliver(h, e)
                           \/ HandlerStep(h)
                           \/ HandlerFails(h)
    \/ Crash

Spec == Init /\ [][Next]_vars

(* Fairness.  Stripe retries until an event is acknowledged, and the server *)
(* accepts any number of webhooks: a pending event is delivered although    *)
(* Handlers bounds how many are processed at the same time (hence SF).  The *)
(* event loop runs every processing step that is ready.                     *)
Fairness ==
    /\ \A e \in Event : SF_vars(e \in pending /\ \E h \in Handlers : Deliver(h, e))
    /\ \A h \in Handlers : WF_vars(HandlerStep(h))

FairSpec == Spec /\ Fairness

-----------------------------------------------------------------------------
(* Properties *)

PlansEverHad(u) == {FREE} \cup UNION {plansHad[s] : s \in {t \in Subs : sub[t].owner = u}}

(* However requests, webhooks, resets and plan changes interleave, no cycle *)
(* of a user is ever charged beyond the largest quota that user ever paid   *)
(* for: the conditional update of handleCreditUsage.                        *)
CreditsWithinQuota ==
    \A u \in Users, c \in Instants :
      \E p \in PlansEverHad(u) : usedAmount[u][c] <= Quota[p]

(* A paid access always names a subscription the same user bought, on a     *)
(* plan it was paid for, and never outlasts what was paid - with the rows   *)
(* written from a snapshot that may be stale by then.                       *)
NoUnpaidAccess ==
    \A u \in Users :
      access[u].planId \in PaidPlans =>
        LET s == access[u].subscriptionId IN
        /\ s \in Subs
        /\ sub[s].owner = u
        /\ access[u].planId \in plansHad[s]
        /\ access[u].expiresAt <= paidThrough[s]

Quiet(u) == /\ ~Busy(u)
            /\ u \notin disturbed
            /\ \A e \in pending : sub[e[2]].owner # u

(* Duplicated and reordered webhooks are harmless: once the events of a     *)
(* user were all processed one at a time and none failed, the access row is *)
(* what Stripe says of the subscription the user row names, since each      *)
(* processing reads it back from Stripe.                                    *)
AccessMirrorsStripe ==
    \A u \in Users :
      LET s == stripeCustomerId[u] IN
      Quiet(u) /\ s \in Subs =>
        access[u] = IF Entitles(sub[s]) THEN PaidAccess(s, sub[s]) ELSE FreeAccess

\* Some subscription of u is paid through the instant t.
PaidUntil(u, t) == \E s \in Subs : sub[s].owner = u /\ t <= paidThrough[s]

(* No usage cycle outlasts what its user has paid, except the one of the    *)
(* sign-up: activations, just-in-time resets and the daily reset each end   *)
(* the cycle with what they read of the access row or the subscription, by  *)
(* then perhaps stale.                                                      *)
CyclesArePaidFor ==
    \A u \in Users : \A c \in Cycles(u) \ {0} :
      c <= cycleEnd[u][c] /\ PaidUntil(u, cycleEnd[u][c])

(* An entitled user whose events were processed has a usage cycle that      *)
(* starts with the period, which the charges of that period can find.  With *)
(* a second subscription of the same user it may end when that one does: a  *)
(* just-in-time reset that read the other row may write last.               *)
PaidPeriodHasCycle ==
    \A u \in Users :
      LET s     == stripeCustomerId[u]
          start == sub[s].start
      IN  Quiet(u) /\ s \in Subs /\ Entitles(sub[s]) =>
            /\ start \in Cycles(u)
            /\ start <= cycleEnd[u][start]
            /\ PaidUntil(u, cycleEnd[u][start])

(* A paid checkout leads to the paid access unless the subscription stops   *)
(* being active, or the processing fails or overlaps with another.          *)
CheckoutGrantsAccess ==
    \A s \in Subs :
      <<"checkout", s>> \in pending ~>
        \/ sub[s].status # "active"
        \/ access[sub[s].owner].subscriptionId = s
        \/ sub[s].owner \in disturbed

(* The credit meter this implements: see CreditMeter. *)
Meter == INSTANCE CreditMeter WITH
           Instants <- Instants,
           Costs    <- {Cost[f] : f \in Features},
           Caps     <- {Quota[p] : p \in Plans},
           opened   <- [u \in Users |-> Cycles(u)],
           used     <- usedAmount

MeterSpec == Meter!Spec

(* What the refusal message says: "AI credit limit reached. Please wait for *)
(* your next billing cycle." - used credits only come back with a cycle     *)
(* that has not begun yet.                                                  *)
CreditsReturnOnlyWithANewCycle ==
    [][\A u \in Users, c \in Instants :
         c \in ActiveCycles(u) => usedAmount'[u][c] >= usedAmount[u][c]]_vars
=============================================================================
