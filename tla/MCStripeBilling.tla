-------------------------- MODULE MCStripeBilling --------------------------
(***************************************************************************)
(* StripeBilling on a small calendar: an instant is the last day of a      *)
(* month, the 28th in ShortMonths and the 31st in the others, and a year   *)
(* has YearMonths months.  From the 31st, setMonth overflows a short month  *)
(* by some days: the next instant is the first at which that has passed.    *)
(***************************************************************************)
EXTENDS StripeBilling, TLC

CONSTANTS ShortMonths, YearMonths, pro, studio, image, text

Capped(t) == IF t > Forever THEN Forever ELSE t

MCQuota      == [p \in Plans |-> CASE p = FREE -> 1 [] p = pro -> 2 [] OTHER -> 3]
MCCost       == [f \in Features |-> 1]
MCDayOfMonth == [t \in Instants |-> IF t \in ShortMonths THEN 28 ELSE 31]
MCStartOfDay == [t \in Instants |-> t]
MCAddMonth   == [t \in Instants |-> Capped(t + 1)]
MCNextMonth  == [t \in Instants |-> Capped(IF t + 1 \in ShortMonths THEN t + 2 ELSE t + 1)]
MCAddYear    == [t \in Instants |-> Capped(t + YearMonths)]

(* The metering runs start when a Checkout session was just paid and no     *)
(* webhook was processed yet: every user has an own subscription.           *)
MeteringInit ==
    /\ \E signedUp \in SUBSET Users : UsageInitFor(signedUp)
    /\ \E owner \in [Subs -> Users], i \in Intervals, p \in PaidPlans :
         sub = [s \in Subs |-> [NoSubscription EXCEPT !.status   = "active",
                                                      !.owner    = owner[s],
                                                      !.planId   = p,
                                                      !.interval = i,
                                                      !.start    = now,
                                                      !.end      = PeriodEnd(i, now)]]
    /\ pending = {<<"checkout", s>> : s \in Subs}
    /\ paidThrough = [s \in Subs |-> sub[s].end]
    /\ plansHad = [s \in Subs |-> {sub[s].planId}]
    /\ stripeCustomerId = [u \in Users |-> OwnCustomer]
    /\ checkout = {}
    /\ handler = [h \in Handlers |-> IdleHandler]
    /\ disturbed = Users         \* no property of these runs reads it

MeteringSpec == MeteringInit /\ [][Next]_vars

\* Bound of the metering run: no cancellation at the end of the period.
NoScheduledCancellation == \A s \in Subs : ~sub[s].cancelAtPeriodEnd

\* Bound of the webhook run: the history ends when a user's processing failed or
\* overlapped, which the billing_liveness run explores.
NobodyDisturbed == disturbed = {}

\* Used without liveness only.
MCSymmetry == Permutations(Subs) \cup Permutations(Handlers)
              \cup Permutations(Requests)
=============================================================================
