--------------------------- MODULE Subscriptions ---------------------------
(***************************************************************************)
(* One subscription: its pure lifecycle, the service operations that run a  *)
(* transition under the row lock, its renewal invoices and its crons.       *)
(*                                                                          *)
(* A lifecycle function gives its outcomes: the next row and the delivery    *)
(* keys to append, or none where the code returns an error.  A transition    *)
(* locks the row, applies, saves and appends to the outbox in one             *)
(* transaction: one action.  What is read before that transaction (the cron's *)
(* list, renew's row) is kept in `listed` and `renewing` until it is used.    *)
(* Time is counted in ticks up to Horizon.                                    *)
(***************************************************************************)
EXTENDS Integers, FiniteSets

CONSTANTS
  Products,      \* products of kind subscription_plan
  CycleLength,   \* CycleLength[c]: ticks added by computePeriodEnd for cycle c
  Grace,         \* GRACE_PERIOD_DAYS
  Uncalled,      \* service operations without a caller today, called all the same
  Horizon,       \* bound: last tick
  MaxInvoices,   \* bound: renewal invoices issued
  MaxOpen,       \* bound: renewal invoices waiting for their payment
  MaxResends,    \* bound: resend requests
  NoValue

Cycles == DOMAIN CycleLength

ASSUME SubscriptionsAssumption ==
  /\ CycleLength \in [Cycles -> Nat \ {0}]
  /\ Grace \in Nat /\ Horizon \in Nat /\ MaxInvoices \in Nat
  /\ MaxOpen \in Nat /\ MaxResends \in Nat
  /\ Uncalled \subseteq {"pause", "resume", "extendTrial", "triggerTrialEnded"}
  /\ NoValue \notin Products \cup Cycles \cup Nat

VARIABLES
  now,        \* the clock
  sub,        \* the subscription row
  outbox,     \* delivery keys appended for the subscription
  issued,     \* renewal invoices issued
  bills,      \* bills[i]: what the i-th open renewal invoice bills, or None
  renewing,   \* what a renew request between its read and its invoice bills, or None
  listed,     \* the status a running cron read the subscription with
  renewals,   \* history: paid transitions that committed
  dropped,    \* history: keys a transition appended in vain, being there already
  resends     \* history: resend requests answered

subVars == <<now, sub, outbox, issued, bills, renewing, listed, renewals, dropped, resends>>
subHistory == <<renewals, dropped, resends>>

-----------------------------------------------------------------------------
Statuses == {"none", "trialing", "active", "past_due", "canceling", "canceled", "paused"}
Reasons == {"user_requested", "trial_expired", "grace_expired"}

SubscriptionRow ==
       [status : Statuses, product : Products \cup {NoValue}, cycle : Cycles \cup {NoValue},
        start : Nat, end : Nat, grace : Nat \cup {NoValue},
        nextProduct : Products \cup {NoValue}, nextCycle : Cycles \cup {NoValue},
        trialEnds : Nat \cup {NoValue}, canceledAt : Nat \cup {NoValue},
        reason : Reasons \cup {NoValue}]

NoSubscription ==
         [status |-> "none", product |-> NoValue, cycle |-> NoValue, start |-> 0, end |-> 0,
          grace |-> NoValue, nextProduct |-> NoValue, nextCycle |-> NoValue,
          trialEnds |-> NoValue, canceledAt |-> NoValue, reason |-> NoValue]

(* What a renewal invoice bills. *)
Terms == [product : Products, cycle : Cycles, start : Nat, end : Nat]

(* Keys with the instant of the call (paused, resumed, immediate plan_changed) *)
(* never repeat and are left out.                                              *)
Kinds == {"created", "renewed", "plan_changed", "past_due", "trial_ended", "canceled", "resend"}
Key == Kinds \X (Nat \cup {NoValue})

-----------------------------------------------------------------------------
(* subscription-lifecycle.ts *)

Ok(next, keys) == {[next |-> next, keys |-> keys]}
Err == {}

ComputePeriodEnd(start, cycle) == start + CycleLength[cycle]

NoSchedule(row) == [row EXCEPT !.nextProduct = NoValue, !.nextCycle = NoValue]

(* Always trialing, for one cycle: no caller passes a trial. *)
ApplyCreate(p, c) ==
  Ok([NoSubscription EXCEPT !.status = "trialing", !.product = p, !.cycle = c,
                   !.start = now, !.end = ComputePeriodEnd(now, c)],
     {<<"created", NoValue>>})

EffectiveProduct(s) == IF s.nextProduct # NoValue THEN s.nextProduct ELSE s.product
EffectiveCycle(s) == IF s.nextCycle # NoValue THEN s.nextCycle ELSE s.cycle

(* Mutation: a past_due subscription has its lapsed period confirmed. *)
PaidStartOfLapse(s) == IF s.status \in {"trialing", "past_due"} THEN s.start ELSE s.end

(* Mutation: the next period starts on the day of the payment. *)
PaidStartToday(s) == IF s.status = "trialing" THEN s.start ELSE now

(* The first payment confirms the period, the others advance it. *)
PaidStart(s) == IF s.status = "trialing" THEN s.start ELSE s.end
PaidEnd(s) == IF s.status = "trialing" THEN s.end
              ELSE ComputePeriodEnd(PaidStart(s), EffectiveCycle(s))

(* Mutation: the grace and the scheduled cancellation survive the payment. *)
PaidRowKeepsMarks(s) ==
  [NoSchedule(s) EXCEPT !.status = "active", !.product = EffectiveProduct(s),
     !.cycle = EffectiveCycle(s), !.start = PaidStart(s), !.end = PaidEnd(s)]

PaidRow(s) ==
  [NoSchedule(s) EXCEPT !.status = "active", !.product = EffectiveProduct(s),
     !.cycle = EffectiveCycle(s), !.start = PaidStart(s), !.end = PaidEnd(s),
     !.grace = NoValue, !.canceledAt = NoValue, !.reason = NoValue]

PaidKeys(s) ==
  {<<"renewed", PaidStart(s)>>} \cup
  (IF s.nextProduct # NoValue /\ (s.nextProduct # s.product \/ s.nextCycle # s.cycle)
   THEN {<<"plan_changed", PaidStart(s)>>} ELSE {})

(* Mutation: a canceled subscription is revived by a late payment. *)
ApplyPaidRevives(s) == Ok(PaidRow(s), PaidKeys(s))

ApplyPaid(s) ==
  IF s.status \in {"canceled", "paused"} THEN Err ELSE Ok(PaidRow(s), PaidKeys(s))

(* Mutation: past_due is entered without a grace period. *)
ApplyPeriodEndedNoGrace(s) ==
  IF s.status = "active" THEN Ok([s EXCEPT !.status = "past_due"], {<<"past_due", s.end>>})
  ELSE Err

(* active lapses with a grace period, canceling ends; the clock is not asked. *)
ApplyPeriodEndedUnpaid(s) ==
  CASE s.status = "active" ->
         Ok([s EXCEPT !.status = "past_due", !.grace = now + Grace], {<<"past_due", s.end>>})
    [] s.status = "canceling" ->
         Ok([s EXCEPT !.status = "canceled", !.grace = NoValue], {<<"canceled", NoValue>>})
    [] OTHER -> Err

ApplyTrialEnded(s) ==
  IF s.status # "trialing" THEN Err
  ELSE Ok([s EXCEPT !.status = "past_due", !.grace = now + Grace, !.reason = "trial_expired"],
          {<<"trial_ended", NoValue>>})

ApplyGraceExpired(s) ==
  IF s.status # "past_due" THEN Err
  ELSE Ok([s EXCEPT !.status = "canceled", !.canceledAt = now, !.grace = NoValue,
                    !.reason = IF @ = "trial_expired" THEN @ ELSE "grace_expired"],
          {<<"canceled", NoValue>>})

ApplyCancelNow(s) ==
  IF s.status = "canceled" THEN Err
  ELSE Ok([NoSchedule(s) EXCEPT !.status = "canceled", !.canceledAt = now,
                                !.reason = "user_requested", !.grace = NoValue],
          {<<"canceled", NoValue>>})

ApplyCancelAtPeriodEnd(s) ==
  IF s.status \notin {"trialing", "active", "paused", "past_due"} THEN Err
  ELSE Ok([NoSchedule(s) EXCEPT !.status = "canceling", !.canceledAt = now,
                                !.reason = "user_requested"], {})

ApplyPlanSchedule(s, p, c) ==
  IF s.status \notin {"active", "trialing"} THEN Err
  ELSE Ok([s EXCEPT !.nextProduct = p, !.nextCycle = c], {})

ApplyPlanChangeImmediate(s, p, c) ==
  IF s.status \notin {"active", "trialing"} \/ (p = s.product /\ c = s.cycle) THEN Err
  ELSE Ok([NoSchedule(s) EXCEPT !.product = p, !.cycle = c], {})

ApplyPause(s) == IF s.status # "active" THEN Err ELSE Ok([s EXCEPT !.status = "paused"], {})
ApplyResume(s) == IF s.status # "paused" THEN Err ELSE Ok([s EXCEPT !.status = "active"], {})

ApplyTrialExtend(s, t) ==
  IF s.status # "trialing" \/ t <= (IF s.trialEnds # NoValue THEN s.trialEnds ELSE s.end) THEN Err
  ELSE Ok([s EXCEPT !.end = t, !.trialEnds = t], {})

-----------------------------------------------------------------------------
(* SubscriptionsService: mutateEntityFromState, save and appendOutboxEvents, in *)
(* the transition's transaction.                                                *)
AppendOutboxEvents(keys) ==
  /\ outbox' = outbox \cup keys
  /\ dropped' = dropped \cup (outbox \cap keys)

Commit(result) ==
  \E success \in result : sub' = success.next /\ AppendOutboxEvents(success.keys)

(* entityToState takes the product it is handed: the scheduled one if there is *)
(* one, or, in changePlan, the one asked for.                                  *)
Loaded == EffectiveProduct(sub)
EntityToState(product) == [sub EXCEPT !.product = product]
Current == EntityToState(Loaded)

(* An error leaves everything as it is. *)
RunLifecycleTransition(result) ==
  /\ sub.status # "none"
  /\ Commit(result)
  /\ UNCHANGED <<now, issued, bills, renewing, listed, renewals, resends>>

Create(p, c) ==
  /\ sub.status = "none"
  /\ Commit(ApplyCreate(p, c))
  /\ UNCHANGED <<now, issued, bills, renewing, listed, renewals, resends>>

-----------------------------------------------------------------------------
(* renew issues an invoice in steps of its own; paying it fires onRenewalPaid *)

(* Mutation: the cycle billed ignores the scheduled one. *)
BilledAsToday(s) ==
  LET start == IF s.status = "trialing" THEN s.start ELSE s.end
  IN  [product |-> EffectiveProduct(s), cycle |-> s.cycle, start |-> start,
       end |-> IF s.status = "trialing" THEN s.end ELSE ComputePeriodEnd(start, s.cycle)]

Billed(s) ==
  LET cycle == IF s.nextCycle # NoValue THEN s.nextCycle ELSE s.cycle
      start == IF s.status = "trialing" THEN s.start ELSE s.end
  IN  [product |-> IF s.nextProduct # NoValue THEN s.nextProduct ELSE s.product,
       cycle |-> cycle, start |-> start,
       end |-> IF s.status = "trialing" THEN s.end ELSE ComputePeriodEnd(start, cycle)]

Renew ==
  /\ renewing = NoValue
  /\ issued < MaxInvoices
  /\ sub.status \in {"active", "trialing", "past_due"}
  /\ renewing' = Billed(sub)
  /\ UNCHANGED <<now, sub, outbox, issued, bills, listed, subHistory>>

IssueRenewalInvoice ==
  /\ renewing # NoValue
  /\ \E i \in 1..MaxOpen :
       /\ bills[i] = NoValue /\ \A j \in 1..(i - 1) : bills[j] # NoValue
       /\ bills' = [bills EXCEPT ![i] = renewing]
  /\ issued' = issued + 1
  /\ renewing' = NoValue
  /\ UNCHANGED <<now, sub, outbox, listed, subHistory>>

(* An invoice is paid whatever the subscription makes of it. *)
OnRenewalPaid(i) ==
  /\ bills[i] # NoValue
  /\ bills' = [bills EXCEPT ![i] = NoValue]
  /\ IF ApplyPaid(Current) = Err
     THEN UNCHANGED <<sub, outbox, dropped, renewals>>
     ELSE Commit(ApplyPaid(Current)) /\ renewals' = renewals + 1
  /\ UNCHANGED <<now, issued, renewing, listed, resends>>

-----------------------------------------------------------------------------
(* Requests of the SaaS and of the administrator *)

SchedulePlan(p, c) == RunLifecycleTransition(ApplyPlanSchedule(EntityToState(p), p, c))

(* The requested product is compared with itself: only the cycle tells a change. *)
ChangePlanNow(p, c) == RunLifecycleTransition(ApplyPlanChangeImmediate(EntityToState(p), p, c))

CancelNow == RunLifecycleTransition(ApplyCancelNow(Current))

CancelAtPeriodEnd == RunLifecycleTransition(ApplyCancelAtPeriodEnd(Current))

(* The key is the period's, whatever was resent before. *)
ResendRenewedWebhook ==
  /\ sub.status # "none" /\ resends < MaxResends
  /\ resends' = resends + 1
  /\ outbox' = outbox \cup {<<"resend", sub.start>>}
  /\ UNCHANGED <<now, sub, issued, bills, renewing, listed, renewals, dropped>>

-----------------------------------------------------------------------------
(* Operations of the service that nothing calls today *)

Pause == "pause" \in Uncalled /\ RunLifecycleTransition(ApplyPause(Current))

Resume == "resume" \in Uncalled /\ RunLifecycleTransition(ApplyResume(Current))

ExtendTrial(t) ==
  "extendTrial" \in Uncalled /\ RunLifecycleTransition(ApplyTrialExtend(Current, t))

TriggerTrialEnded ==
  "triggerTrialEnded" \in Uncalled /\ RunLifecycleTransition(ApplyTrialEnded(Current))

-----------------------------------------------------------------------------
(* Crons: they list the rows, then run one transition for each row listed; an  *)
(* error is logged and the row let go.                                         *)

ListExpired ==
  /\ "active" \notin listed
  /\ sub.status = "active" /\ sub.end <= now
  /\ listed' = listed \cup {"active"}
  /\ UNCHANGED <<now, sub, outbox, issued, bills, renewing, subHistory>>

CronTransition(status, result) ==
  /\ status \in listed /\ listed' = listed \ {status}
  /\ IF result = Err THEN UNCHANGED <<sub, outbox, dropped>> ELSE Commit(result)
  /\ UNCHANGED <<now, issued, bills, renewing, renewals, resends>>

ExpireToPastDue == CronTransition("active", ApplyPeriodEndedUnpaid(Current))

ListExpiredGrace ==
  /\ "past_due" \notin listed
  /\ sub.status = "past_due" /\ sub.grace # NoValue /\ sub.grace < now
  /\ listed' = listed \cup {"past_due"}
  /\ UNCHANGED <<now, sub, outbox, issued, bills, renewing, subHistory>>

DowngradeOnGraceExpiry == CronTransition("past_due", ApplyGraceExpired(Current))

Tick ==
  /\ now < Horizon
  /\ now' = now + 1
  /\ UNCHANGED <<sub, outbox, issued, bills, renewing, listed, subHistory>>

-----------------------------------------------------------------------------
SubInit ==
  /\ now = 0 /\ sub = NoSubscription /\ outbox = {}
  /\ issued = 0 /\ bills = [i \in 1..MaxOpen |-> NoValue]
  /\ renewing = NoValue /\ listed = {}
  /\ renewals = 0 /\ dropped = {} /\ resends = 0

Request ==
  \/ \E p \in Products, c \in Cycles : Create(p, c) \/ SchedulePlan(p, c) \/ ChangePlanNow(p, c)
  \/ Renew \/ IssueRenewalInvoice
  \/ \E i \in 1..MaxOpen : OnRenewalPaid(i)
  \/ CancelNow \/ CancelAtPeriodEnd \/ ResendRenewedWebhook
  \/ Pause \/ Resume \/ TriggerTrialEnded
  \/ \E t \in 1..Horizon : ExtendTrial(t)

Crons == ListExpired \/ ExpireToPastDue \/ ListExpiredGrace \/ DowngradeOnGraceExpiry

SubNext == Request \/ Crons \/ Tick

SubSpec == SubInit /\ [][SubNext]_subVars

(* The daily crons run and the clock ticks; nobody is obliged to pay or ask. *)
CronFairness ==
  /\ WF_subVars(ListExpired) /\ WF_subVars(ExpireToPastDue)
  /\ WF_subVars(ListExpiredGrace) /\ WF_subVars(DowngradeOnGraceExpiry)

FairSubSpec == SubSpec /\ CronFairness /\ WF_subVars(Tick)

-----------------------------------------------------------------------------
(* Properties *)

SubTypeOK ==
  /\ now \in 0..Horizon
  /\ sub \in SubscriptionRow
  /\ sub.status # "none" => sub.product # NoValue /\ sub.cycle # NoValue /\ sub.start < sub.end
  /\ outbox \subseteq Key /\ dropped \subseteq Key
  /\ issued \in 0..MaxInvoices
  /\ bills \in [1..MaxOpen -> Terms \cup {NoValue}]
  /\ renewing \in Terms \cup {NoValue}
  /\ listed \subseteq {"active", "past_due"}
  /\ renewals \in Nat /\ resends \in 0..MaxResends

(* Nobody has access without a payment: a subscription that is active or       *)
(* paused was paid at least once since it was registered.                      *)
ActiveWasPaid == sub.status \in {"active", "paused"} => renewals > 0

(* A subscription in good standing carries no mark of a lapse or of a          *)
(* scheduled cancellation, however many of them it went through (applyPaid     *)
(* clears what the other transitions set).                                     *)
GoodStandingIsClean ==
  sub.status \in {"trialing", "active", "paused"} =>
    sub.grace = NoValue /\ sub.canceledAt = NoValue /\ sub.reason = NoValue

(* Both, of every subscription whose service is in use.                        *)
GoodStanding == ActiveWasPaid /\ GoodStandingIsClean

(* No transition's event is lost to delivery-key deduplication: every renewal, *)
(* lapse and cancellation of the subscription has a key of its own.            *)
NothingDeduplicated == dropped = {}

(* The paid period only moves forward, one cycle after the last.               *)
PeriodsAreContiguous ==
  [][sub.status # "none" =>
       \/ sub'.start = sub.start /\ sub'.end >= sub.end
       \/ sub'.start = sub.end /\ sub'.end = sub.end + CycleLength[sub'.cycle]]_sub

(* A canceled subscription stays as it is, late payments and stale cron lists  *)
(* included.                                                                   *)
CanceledIsFinal == [][sub.status = "canceled" => sub' = sub]_sub

(* What is paid is what is granted: renew and applyPaid work out the plan and  *)
(* the period apart, and paying an invoice that bills what a renewal would bill *)
(* now grants exactly that.  (An invoice older than a change of plan or period  *)
(* is granted what holds when it is paid.)                                      *)
BilledIsGranted ==
  [][\A i \in 1..MaxOpen :
       bills[i] # NoValue /\ bills'[i] = NoValue /\ sub' # sub /\ bills[i] = Billed(sub) =>
         /\ sub'.product = bills[i].product /\ sub'.cycle = bills[i].cycle
         /\ sub'.start = bills[i].start /\ sub'.end = bills[i].end]_subVars

(* A lapse is acted on: an active subscription whose period is over becomes   *)
(* past_due unless it is paid or changed, and a past_due one whose grace is      *)
(* over ends (both crons, the errors of stale lists included).                   *)
LapseIsActedOn ==
  /\ sub.status = "active" /\ sub.end <= now ~> sub.status # "active" \/ sub.end > now
  /\ sub.status = "past_due" /\ (sub.grace # NoValue => sub.grace < now) ~> sub.status # "past_due"

-----------------------------------------------------------------------------
(* What the repository says and the code does not do *)

(* expire-subscriptions.cron.ts:7: "mueve active con currentPeriodEnd < now a  *)
(* past_due": a subscription whose period is not over is not moved.            *)
OnlyEndedPeriodsLapse ==
  [][sub.status = "active" /\ sub'.status = "past_due" => sub.end <= now]_sub

(* subscription-lifecycle.ts:399: a cancellation at the period's end "se emite *)
(* cuando el periodo termine": canceling ends with the period.                 *)
CancelingEnds ==
  sub.status = "canceling" /\ sub.end < now ~> sub.status # "canceling"

(* domain/subscription.ts:43: a scheduled product is the "plan al que cambiara *)
(* automaticamente al fin del periodo actual": until then the subscription     *)
(* keeps the product it has.                                                    *)
ScheduledPlanWaits ==
  [][sub.status # "none" /\ sub'.nextProduct # NoValue => sub'.product = sub.product]_sub
=============================================================================
