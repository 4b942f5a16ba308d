------------------------- MODULE CreditMeter_proofs -------------------------
(***************************************************************************)
(* The credit meter: no cycle is charged beyond a quota its user paid for, *)
(* and the system implements the abstract meter.                           *)
(***************************************************************************)
EXTENDS StripeBilling_proofs

(* A request carries the quota of a plan its user has had, and charges a    *)
(* cycle that was opened.                                                   *)
QuotaInv ==
    \A r \in Requests :
      /\ req[r].pc \in {"findUsage", "deduct"} =>
           \E p \in PlansEverHad(req[r].user) : req[r].quota = Quota[p]
      /\ req[r].pc = "deduct" => cycleEnd[req[r].user][req[r].cycle] # None

MeterInv == AccessInv /\ QuotaInv /\ CreditsWithinQuota

-----------------------------------------------------------------------------
(* The plans a user ever had are plans, and only grow. *)
LEMMA PlansEverHadArePlans ==
  ASSUME TypeInv, NEW u
  PROVE  /\ PlansEverHad(u) \subseteq Plans
         /\ FREE \in PlansEverHad(u)
         /\ \A p \in PlansEverHad(u) : Quota[p] \in Nat
<1>1. PlansEverHad(u) \subseteq Plans
  <2>1. \A s \in Subs : plansHad[s] \subseteq PaidPlans
    BY DEF TypeInv, StripeInv, StripeTypeOK
  <2> QED  BY <2>1 DEF PlansEverHad, Plans
<1>2. FREE \in PlansEverHad(u)
  BY DEF PlansEverHad
<1>3. \A p \in PlansEverHad(u) : Quota[p] \in Nat
  BY <1>1, PlansAssumption DEF Plans
<1> QED  BY <1>1, <1>2, <1>3

LEMMA PlansEverHadGrow ==
  ASSUME TypeInv, PaymentInv, PaymentGrows, NEW u
  PROVE  PlansEverHad(u) \subseteq PlansEverHad(u)'
<1>1. SUFFICES ASSUME NEW s \in Subs, sub[s].owner = u, NEW p \in plansHad[s]
               PROVE  sub'[s].owner = u /\ p \in plansHad'[s]
  BY DEF PlansEverHad
<1>2. Started(s)
  BY DEF PaymentInv
<1> QED  BY <1>1, <1>2 DEF PaymentGrows

(* The requests that do not take part in a step stay as they are. *)
LEMMA OneRequestSteps ==
  ASSUME TypeInv, [Next]_vars, NEW r \in Requests
  PROVE  req'[r] = req[r] \/ req'[r] = Idle \/ RequestStep(r)
<1>t. req \in [Requests -> RequestState]
  BY DEF TypeInv, UsageInv, UsageTypeOK
<1>1. CASE UsageNext
  <2>1. CASE \E q \in Requests \ {r} : RequestStep(q)
    BY <1>t, <2>1 DEF RequestStep, HandleCreditUsage, BeginSubscriptionInfo,
       GetActiveUsageRecord, DeductCredits, GetSubscriptionInfo, JustInTimeReset, Finish
  <2>2. CASE Tick \/ HandleAnniversaryResets \/ \E u \in Users : ResetOnAnniversary(u)
    BY <2>2 DEF Tick, HandleAnniversaryResets, ResetOnAnniversary
  <2> QED  BY <1>1, <2>1, <2>2 DEF UsageNext
<1>2. CASE Crash
  BY <1>2 DEF Crash
<1>3. ASSUME NEW h \in Handlers, HandlerFails(h) \/ HandlerStep(h)
      PROVE  UNCHANGED req
  BY <1>3 DEF HandlerStep, HandlerFails, ResolveActivation, ProcessRenewal,
              ResolveCancellation, GetSubscriptionDetails, UpsertUserAccess,
              ResetOnActivation, DowngradeUserToFreeTier, usageVars
<1>4. (\E u \in Users : BeginCheckout(u) \/ FinishCheckout(u))
        \/ (\E h \in Handlers, e \in Event : Deliver(h, e)) \/ UNCHANGED vars
        => UNCHANGED req
  BY DEF BeginCheckout, FinishCheckout, Deliver, vars, usageVars
<1>5. (\E s \in Subs : StripeStep(s)) => UNCHANGED req
  BY DEF StripeStep, CompleteCheckout, PortalToggleCancel, PortalSwitchPlan, Renew,
         RenewalFails, PaymentRecovers, Cancel, StripeChange, usageVars
<1> QED  BY <1>1, <1>2, <1>3, <1>4, <1>5 DEF Next

(* A request that reads the access row reads a plan the user has had. *)
LEMMA QuotaStep ==
  ASSUME MeterInv, [Next]_vars, PaymentGrows
  PROVE  QuotaInv'
<1> USE DEF MeterInv, AccessInv
<1>t. /\ req \in [Requests -> RequestState]
      /\ RequestInv
      /\ TypeInv'
  BY NextKeepsType DEF TypeInv, UsageInv, UsageTypeOK
<1>1. SUFFICES ASSUME NEW r \in Requests, NEW u, req'[r].user = u
               PROVE  /\ req'[r].pc \in {"findUsage", "deduct"} =>
                           \E p \in PlansEverHad(u)' : req'[r].quota = Quota[p]
                      /\ req'[r].pc = "deduct" => cycleEnd'[u][req'[r].cycle] # None
  BY DEF QuotaInv, PlansEverHad
<1>g. PlansEverHad(u) \subseteq PlansEverHad(u)'
  BY PlansEverHadGrow
<1>i. Idle.pc = "idle"
  BY DEF Idle
<1>k. req[r].user = u =>
        /\ req[r].pc \in {"findUsage", "deduct"} =>
             \E p \in PlansEverHad(u) : req[r].quota = Quota[p]
        /\ req[r].pc = "deduct" => /\ u \in Users /\ req[r].cycle \in Instants
                                  /\ cycleEnd[u][req[r].cycle] # None
  BY <1>t DEF QuotaInv, RequestInv
<1>2. CASE req'[r] = req[r]
  BY <1>1, <1>2, <1>g, <1>k, CyclesStay
<1>3. CASE req'[r] = Idle
  BY <1>3, <1>i
<1>4. CASE \E v \in Users, f \in Features : HandleCreditUsage(r, v, f)
  <2> PICK v \in Users, f \in Features : HandleCreditUsage(r, v, f)
    BY <1>4
  <2>1. /\ req'[r].pc = "findUsage" /\ u = v
        /\ req'[r].quota = Quota[access[u].planId]
    BY <1>t, <1>1, RowTypes DEF HandleCreditUsage, RequestState
  <2>2. access[u].planId \in Plans
    BY <2>1, NoneAssumption
       DEF HandleCreditUsage, TypeInv, UsageInv, UsageTypeOK, AccessRow
  <2>3. access[u].planId \in PlansEverHad(u)
    <3>1. CASE access[u].planId = FREE
      BY <3>1 DEF PlansEverHad
    <3>2. CASE access[u].planId \in PaidPlans
      BY <2>1, <3>2 DEF NoUnpaidAccess, PlansEverHad
    <3> QED  BY <2>2, <3>1, <3>2 DEF Plans
  <2> QED  BY <1>g, <2>1, <2>3
<1>5. CASE GetActiveUsageRecord(r) /\ req'[r] # Idle
  <2> PICK c \in Instants :
         /\ IsLatest(c, ActiveCycles(req[r].user))
         /\ req' = [req EXCEPT ![r].pc = "deduct", ![r].cycle = c]
    BY <1>5, <1>t DEF GetActiveUsageRecord, Finish
  <2>1. /\ req'[r].pc = "deduct" /\ req'[r].cycle = c /\ req[r].user = u
        /\ req'[r].quota = req[r].quota
    BY <1>1, <1>t DEF RequestState
  <2>2. cycleEnd[u][c] # None
    BY <2>1 DEF IsLatest, ActiveCycles, Cycles
  <2>3. cycleEnd'[u][c] # None
    BY <1>5, <2>2 DEF GetActiveUsageRecord, tableVars
  <2>4. req[r].pc = "findUsage"
    BY <1>5 DEF GetActiveUsageRecord
  <2> QED  BY <1>g, <1>k, <2>1, <2>3, <2>4
<1>6. CASE req'[r].pc \in {"info", "reset"}
  BY <1>6
<1>7. RequestStep(r) =>
        \/ \E v \in Users, f \in Features : HandleCreditUsage(r, v, f)
        \/ GetActiveUsageRecord(r)
        \/ req'[r] = Idle
        \/ req'[r].pc \in {"info", "reset"}
  <2>1. (\E v \in Users : BeginSubscriptionInfo(r, v)) => req'[r].pc = "info"
    BY <1>t, RowTypes DEF BeginSubscriptionInfo, RequestState
  <2>2. DeductCredits(r) => req'[r] = Idle \/ req'[r].pc = "info"
    <3>1. AfterCharge(r) = Idle \/ AfterCharge(r).pc = "info"
      BY RowTypes DEF AfterCharge, RequestState
    <3> QED  BY <1>t, <3>1 DEF DeductCredits, Finish
  <2>3. GetSubscriptionInfo(r) => req'[r] = Idle \/ req'[r].pc = "reset"
    <3>1. req[r] \in RequestState
      BY <1>t
    <3>2. CASE Finish(r)
      BY <1>t, <3>2 DEF Finish
    <3>3. CASE \E start \in Instants :
                 req' = [req EXCEPT ![r].pc       = "reset",
                                    ![r].newStart = start,
                                    ![r].newEnd   = access[req[r].user].expiresAt]
      BY <1>t, <3>1, <3>3 DEF RequestState
    <3> QED  BY <3>2, <3>3 DEF GetSubscriptionInfo
  <2>4. JustInTimeReset(r) => req'[r] = Idle
    BY <1>t DEF JustInTimeReset, Finish
  <2> QED  BY <2>1, <2>2, <2>3, <2>4 DEF RequestStep
<1> QED
  BY <1>2, <1>3, <1>4, <1>5, <1>6, <1>7, OneRequestSteps

(* A charge stays within the quota its request carries; a reset is zero. *)
LEMMA ChargeStaysWithinQuota ==
  ASSUME MeterInv, [Next]_vars, PaymentGrows
  PROVE  CreditsWithinQuota'
<1> USE DEF MeterInv, AccessInv
<1>t. /\ usedAmount \in [Users -> [Instants -> Nat]]
      /\ RequestInv
  BY DEF TypeInv, UsageInv, UsageTypeOK
<1>1. SUFFICES ASSUME NEW u \in Users, NEW c \in Instants
               PROVE  \E p \in PlansEverHad(u)' : usedAmount'[u][c] <= Quota[p]
  BY DEF CreditsWithinQuota
<1>g. PlansEverHad(u) \subseteq PlansEverHad(u)'
  BY PlansEverHadGrow
<1>2. CASE usedAmount'[u][c] = usedAmount[u][c]
  BY <1>2, <1>g DEF CreditsWithinQuota
<1>3. CASE \E r \in Requests : ChargeStep(r) /\ req[r].user = u /\ req[r].cycle = c
  <2> PICK r \in Requests : ChargeStep(r) /\ req[r].user = u /\ req[r].cycle = c
    BY <1>3
  <2>1. usedAmount'[u][c] = usedAmount[u][c] + Cost[req[r].feature]
    BY <1>t DEF ChargeStep
  <2>2. \E p \in PlansEverHad(u) : req[r].quota = Quota[p]
    BY DEF ChargeStep, QuotaInv
  <2> QED  BY <1>g, <2>1, <2>2 DEF ChargeStep
<1>4. CASE usedAmount'[u][c] = 0
  <2>1. FREE \in PlansEverHad(u) /\ Quota[FREE] >= 0
    BY PlansEverHadArePlans, PlansAssumption DEF Plans
  <2> QED  BY <1>4, <1>g, <2>1
<1>5. \/ usedAmount'[u][c] = usedAmount[u][c]
      \/ \E r \in Requests : ChargeStep(r) /\ req[r].user = u /\ req[r].cycle = c
      \/ usedAmount'[u][c] = 0
  <2>1. CASE UNCHANGED tableVars
    BY <2>1 DEF tableVars
  <2>2. CASE \E r \in Requests : ChargeStep(r)
    <3> PICK r \in Requests : ChargeStep(r)
      BY <2>2
    <3>1. req[r].user # u \/ req[r].cycle # c => usedAmount'[u][c] = usedAmount[u][c]
      BY <1>t DEF ChargeStep
    <3> QED  BY <3>1
  <2>3. CASE \E v \in Users, start \in Instants, end \in Instants : ResetStep(v, start, end)
    BY <2>3, <1>t DEF ResetStep
  <2> QED  BY <2>1, <2>2, <2>3, UsageSteps
<1> QED  BY <1>2, <1>3, <1>4, <1>5

(* The meter starts at zero, with no request in flight. *)
LEMMA InitMeterInv == Init => MeterInv
<1> SUFFICES ASSUME Init PROVE MeterInv
  OBVIOUS
<1>1. AccessInv
  BY InitAccessInv
<1>2. QuotaInv
  BY DEF Init, UsageInit, UsageInitFor, QuotaInv, Idle
<1>3. CreditsWithinQuota
  <2>1. \A u \in Users : FREE \in PlansEverHad(u) /\ Quota[FREE] >= 0
    BY <1>1, PlansEverHadArePlans, PlansAssumption DEF Plans, AccessInv
  <2>2. \A u \in Users, c \in Instants : usedAmount[u][c] = 0
    BY DEF Init, UsageInit, UsageInitFor
  <2> QED  BY <2>1, <2>2 DEF CreditsWithinQuota
<1> QED  BY <1>1, <1>2, <1>3 DEF MeterInv

(* Every step keeps the meter's inductive invariant. *)
LEMMA NextKeepsMeter ==
  ASSUME MeterInv, [Next]_vars
  PROVE  MeterInv'
BY NextKeepsAccess, QuotaStep, ChargeStaysWithinQuota DEF MeterInv

(* However requests, webhooks, resets and plan changes interleave, no cycle *)
(* is charged beyond the largest quota its user ever paid for.              *)
THEOREM CreditsStayWithinQuota == Spec => []CreditsWithinQuota
<1>1. Spec => []MeterInv
  BY InitMeterInv, NextKeepsMeter, PTL DEF Spec
<1>2. MeterInv => CreditsWithinQuota
  BY DEF MeterInv
<1> QED  BY <1>1, <1>2, PTL

-----------------------------------------------------------------------------
(* Refinement *)

(* The signup rows are the cycles open at the start, and they are unused. *)
LEMMA MeterInit == Init => Meter!Init
<1> SUFFICES ASSUME Init PROVE Meter!Init
  OBVIOUS
<1>1. [u \in Users |-> Cycles(u)] \in [Users -> SUBSET Instants]
  BY DEF Cycles
<1>2. usedAmount = [u \in Users |-> [c \in Instants |-> 0]]
  BY DEF Init, UsageInit, UsageInitFor
<1> QED  BY <1>1, <1>2 DEF Meter!Init

(* A charge is a charge of the abstract meter, a reset opens a cycle. *)
LEMMA MeterStep ==
  ASSUME MeterInv, [Next]_vars
  PROVE  [Meter!Next]_(Meter!meterVars)
<1> USE DEF MeterInv, AccessInv
<1>t. /\ usedAmount \in [Users -> [Instants -> Nat]]
      /\ cycleEnd \in [Users -> [Instants -> Instants \cup {None}]]
      /\ RequestInv
  BY DEF TypeInv, UsageInv, UsageTypeOK
<1>1. CASE UNCHANGED tableVars
  BY <1>1 DEF tableVars, Meter!meterVars, Cycles
<1>2. CASE \E r \in Requests : ChargeStep(r)
  <2> PICK r \in Requests : ChargeStep(r)
    BY <1>2
  <2> DEFINE u    == req[r].user
             c    == req[r].cycle
             cost == Cost[req[r].feature]
  <2>1. u \in Users /\ c \in Instants /\ req[r].feature \in Features
    BY <1>t DEF ChargeStep, RequestInv
  <2>2. c \in Cycles(u)
    BY <2>1 DEF ChargeStep, QuotaInv, Cycles
  <2>3. usedAmount[u][c] + cost <= req[r].quota
    BY DEF ChargeStep
  <2>4. \E cap \in {Quota[p] : p \in Plans} : usedAmount[u][c] + cost <= cap
    <3>1. PICK p \in PlansEverHad(u) : req[r].quota = Quota[p]
      BY DEF ChargeStep, QuotaInv
    <3>2. p \in Plans
      BY <3>1, PlansEverHadArePlans
    <3> QED  BY <2>3, <3>1, <3>2
  <2>5. UNCHANGED [v \in Users |-> Cycles(v)]
    BY DEF ChargeStep, Cycles
  <2>6. usedAmount' = [usedAmount EXCEPT ![u][c] = @ + cost]
    BY DEF ChargeStep
  <2>7. cost \in {Cost[f] : f \in Features}
    BY <2>1
  <2>8. [v \in Users |-> Cycles(v)][u] = Cycles(u)
    BY <2>1
  <2> HIDE DEF u, c, cost
  <2>9. Meter!Charge(u, c, cost)
    BY <2>2, <2>4, <2>5, <2>6, <2>8 DEF Meter!Charge
  <2> QED  BY <2>1, <2>7, <2>9 DEF Meter!Next
<1>3. CASE \E u \in Users, start \in Instants, end \in Instants : ResetStep(u, start, end)
  <2> PICK u \in Users, start \in Instants, end \in Instants : ResetStep(u, start, end)
    BY <1>3
  <2>1. end # None
    BY NoneAssumption DEF Instants
  <2>2. \A v \in Users, c \in Instants :
          cycleEnd'[v][c] = IF v = u /\ c = start THEN end ELSE cycleEnd[v][c]
    BY <1>t DEF ResetStep
  <2>3. \A v \in Users : Cycles(v)' = IF v = u THEN Cycles(v) \cup {start} ELSE Cycles(v)
    BY <2>1, <2>2 DEF Cycles
  <2> DEFINE open == [v \in Users |-> Cycles(v)]
  <2>4. [v \in Users |-> Cycles(v)'] = [open EXCEPT ![u] = @ \cup {start}]
    BY <2>3
  <2>5. open' = [v \in Users |-> Cycles(v)']
    OBVIOUS
  <2>6. Meter!Open(u, start)
    BY <2>4, <2>5 DEF Meter!Open, ResetStep
  <2> QED  BY <2>6 DEF Meter!Next
<1> QED  BY <1>1, <1>2, <1>3, UsageSteps

(* The system implements the abstract meter: every step charges one cycle   *)
(* once, within a quota, or opens a cycle, or does not touch the meter.     *)
THEOREM ImplementsMeter == Spec => MeterSpec
<1>1. Spec => []MeterInv
  BY InitMeterInv, NextKeepsMeter, PTL DEF Spec
<1>2. Spec => Meter!Init /\ [][Meter!Next]_(Meter!meterVars)
  BY <1>1, MeterInit, MeterStep, PTL DEF Spec
<1> QED  BY <1>2 DEF MeterSpec, Meter!Spec

=============================================================================
