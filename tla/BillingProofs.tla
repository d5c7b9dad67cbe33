---------------------------- MODULE BillingProofs ----------------------------
(***************************************************************************)
(* A subscription through any sequence of its operations, for any products,  *)
(* cycles, grace and number of invoices.                                     *)
(*                                                                           *)
(* Every operation commits an outcome of a lifecycle function applied to the *)
(* row.  An outcome is sound (Sound) when the row it leaves is well formed,   *)
(* its period continues the last one, and its keys are new.  One lemma says    *)
(* so of each lifecycle function, and one that sound outcomes preserve the      *)
(* invariant; the invariant says what the keys in the outbox tell of the row,   *)
(* which is why the keys of the next transition are not among them.             *)
(*                                                                                *)
(* Then the mails of the reminder cron, for any runs that overlap or die; the     *)
(* periods as dates, for any calendar; and the types of all the components        *)
(* around a payment, side by side.                                                 *)
(***************************************************************************)
EXTENDS MCBilling, InvoicesProofs, OutboxProofs, SumsProofs, FiniteSetTheorems, TLAPS

(* A row as the transitions leave it. *)
WellFormed(s) ==
  /\ s \in SubscriptionRow
  /\ s.status # "none" /\ s.product # NoValue /\ s.cycle # NoValue
  /\ s.start < s.end
  /\ s.status = "trialing" /\ s.trialEnds # NoValue => s.trialEnds = s.end

Clean(s) ==
  s.status \in {"trialing", "active", "paused"} =>
    s.grace = NoValue /\ s.canceledAt = NoValue /\ s.reason = NoValue

(* What a key among those appended says of the row. *)
Tells(s, e) ==
  /\ e[1] \in {"renewed", "plan_changed"} => s.status # "trialing" /\ e[2] \in Nat /\ e[2] <= s.start
  /\ e[1] = "past_due" =>
       /\ e[2] \in Nat /\ e[2] <= s.end
       /\ e[2] = s.end => s.status \in {"past_due", "canceling", "canceled"}
  /\ e[1] = "trial_ended" => s.status # "trialing"
  /\ e[1] = "canceled" => s.status = "canceled"

Existing == sub.status # "none"

SubInv ==
  /\ SubTypeOK
  /\ Existing => WellFormed(sub) /\ Clean(sub) /\ \A e \in outbox : Tells(sub, e)
  /\ ~Existing => outbox = {} /\ renewing = NoValue /\ \A i \in 1..MaxOpen : bills[i] = NoValue
  /\ renewing # NoValue => issued < MaxInvoices
  /\ ActiveWasPaid
  /\ dropped = {}

(* The period a transition may leave: the one there is, perhaps longer, or the     *)
(* next one.                                                                        *)
Continues(s, t) ==
  \/ t.start = s.start /\ t.end >= s.end
  \/ t.start = s.end /\ t.end = s.end + CycleLength[t.cycle]

Sound(r) ==
  /\ WellFormed(r.next) /\ Clean(r.next)
  /\ sub.status # "canceled" /\ Continues(sub, r.next)
  /\ r.keys \subseteq Key /\ r.keys \cap outbox = {}
  /\ \A e \in outbox \cup r.keys : Tells(r.next, e)

(* Nothing but a payment gives access. *)
Unpaid(r) == r.next.status \in {"active", "paused"} => sub.status \in {"active", "paused"}

-----------------------------------------------------------------------------
(* The row the lifecycle is handed: with the scheduled product, or the one asked. *)
LEMMA Handed ==
  ASSUME SubInv, Existing, NEW p \in Products
  PROVE  /\ EntityToState(p) \in SubscriptionRow /\ EntityToState(p).product = p
         /\ LET s == EntityToState(p)
            IN  /\ s.status = sub.status /\ s.cycle = sub.cycle /\ s.start = sub.start /\ s.end = sub.end
                /\ s.grace = sub.grace /\ s.nextProduct = sub.nextProduct /\ s.nextCycle = sub.nextCycle
                /\ s.trialEnds = sub.trialEnds /\ s.canceledAt = sub.canceledAt /\ s.reason = sub.reason
<1>1. sub \in SubscriptionRow
  BY DEF SubInv, SubTypeOK
<1>2. EntityToState(p) \in SubscriptionRow
  BY <1>1, Zenon DEF EntityToState, SubscriptionRow
<1>3. QED
  BY <1>1, <1>2, SMT DEF EntityToState, SubscriptionRow

LEMMA LoadedIsAProduct ==
  ASSUME SubInv, Existing
  PROVE  Loaded \in Products
BY SubscriptionsAssumption, SMT DEF SubInv, SubTypeOK, SubscriptionRow, Loaded, EffectiveProduct, Existing

(* The row without its schedule. *)
LEMMA Unscheduled ==
  ASSUME NEW s \in SubscriptionRow
  PROVE  /\ NoSchedule(s) \in SubscriptionRow
         /\ LET t == NoSchedule(s)
            IN  /\ t.nextProduct = NoValue /\ t.nextCycle = NoValue
                /\ t.status = s.status /\ t.product = s.product /\ t.cycle = s.cycle
                /\ t.start = s.start /\ t.end = s.end /\ t.grace = s.grace
                /\ t.trialEnds = s.trialEnds /\ t.canceledAt = s.canceledAt /\ t.reason = s.reason
<1>1. NoSchedule(s) \in SubscriptionRow
  BY Zenon DEF NoSchedule, SubscriptionRow
<1>2. QED
  BY <1>1, SMT DEF NoSchedule, SubscriptionRow

(* The row a payment leaves. *)
LEMMA Paid ==
  ASSUME NEW s \in SubscriptionRow, PaidStart(s) \in Nat, PaidEnd(s) \in Nat,
         EffectiveProduct(s) \in Products, EffectiveCycle(s) \in Cycles
  PROVE  /\ PaidRow(s) \in SubscriptionRow
         /\ LET t == PaidRow(s)
            IN  /\ t.status = "active" /\ t.product = EffectiveProduct(s) /\ t.cycle = EffectiveCycle(s)
                /\ t.start = PaidStart(s) /\ t.end = PaidEnd(s) /\ t.grace = NoValue
                /\ t.canceledAt = NoValue /\ t.reason = NoValue
                /\ t.nextProduct = NoValue /\ t.nextCycle = NoValue
<1> DEFINE u == NoSchedule(s)
<1>1. u \in SubscriptionRow /\ u.nextProduct = NoValue /\ u.nextCycle = NoValue
  BY Unscheduled
<1> HIDE DEF u
<1>2. PaidRow(s) = [u EXCEPT !.status = "active", !.product = EffectiveProduct(s),
                      !.cycle = EffectiveCycle(s), !.start = PaidStart(s), !.end = PaidEnd(s),
                      !.grace = NoValue, !.canceledAt = NoValue, !.reason = NoValue]
  BY DEF PaidRow, u
<1>3. PaidRow(s) \in SubscriptionRow
  BY <1>1, <1>2, Zenon DEF SubscriptionRow, Statuses
<1>4. QED
  BY <1>1, <1>2, <1>3, SMT DEF SubscriptionRow

-----------------------------------------------------------------------------
(* An outcome that keeps the period, and leaves a row that is well formed and    *)
(* clean, is sound if its keys are new: what the keys in the outbox tell of the   *)
(* row goes on being true.                                                        *)
LEMMA SamePeriodSound ==
  ASSUME SubInv, Existing, sub.status # "canceled", NEW t, NEW keys \in SUBSET Key,
         WellFormed(t), Clean(t), t.start = sub.start, t.end >= sub.end,
         t.status = "trialing" => sub.status = "trialing",
         t.status = sub.status \/ t.status \in {"past_due", "canceling", "canceled"}
           \/ (sub.status \in {"active", "paused"} /\ t.status \in {"active", "paused"}),
         keys \cap outbox = {}, \A e \in keys : Tells(t, e)
  PROVE  Sound([next |-> t, keys |-> keys])
<1>1. \A e \in outbox : Tells(t, e)
  <2> SUFFICES ASSUME NEW e \in outbox PROVE Tells(t, e)
    OBVIOUS
  <2>1. Tells(sub, e)
    BY DEF SubInv
  <2>2. t.end \in Nat /\ sub.end \in Nat
    BY DEF WellFormed, SubscriptionRow, SubInv, SubTypeOK
  <2>3. QED
    BY <2>1, <2>2, SMT DEF Tells
<1>2. Continues(sub, t)
  BY DEF Continues
<1>3. QED
  BY <1>1, <1>2 DEF Sound

LEMMA RowFields ==
  ASSUME NEW s \in SubscriptionRow
  PROVE  /\ s.status \in Statuses /\ s.start \in Nat /\ s.end \in Nat /\ s.grace \in Nat \cup {NoValue}
         /\ s.product \in Products \cup {NoValue} /\ s.cycle \in Cycles \cup {NoValue}
         /\ s.nextProduct \in Products \cup {NoValue} /\ s.nextCycle \in Cycles \cup {NoValue}
         /\ s.trialEnds \in Nat \cup {NoValue} /\ s.canceledAt \in Nat \cup {NoValue}
         /\ s.reason \in Reasons \cup {NoValue}
BY SMT DEF SubscriptionRow

LEMMA TimeIsNat ==
  ASSUME SubInv
  PROVE  now \in Nat /\ now + Grace \in Nat /\ sub \in SubscriptionRow
BY SubscriptionsAssumption, SMT DEF SubInv, SubTypeOK

(* active lapses, and the key is of the period that ended: none said so before. *)
LEMMA PeriodEndedUnpaidSound ==
  ASSUME SubInv, Existing, NEW p \in Products, NEW r \in ApplyPeriodEndedUnpaid(EntityToState(p))
  PROVE  Sound(r) /\ Unpaid(r)
<1> DEFINE s == EntityToState(p)
<1>1. /\ s \in SubscriptionRow /\ s.product = p
      /\ s.status = sub.status /\ s.cycle = sub.cycle /\ s.start = sub.start /\ s.end = sub.end
      /\ s.trialEnds = sub.trialEnds
  BY Handed, Zenon
<1>2. now + Grace \in Nat /\ s.cycle # NoValue /\ s.product # NoValue /\ s.start < s.end /\ s.end \in Nat
  BY <1>1, TimeIsNat, RowFields, SubscriptionsAssumption, SMT DEF SubInv, WellFormed
<1> HIDE DEF s
<1>3. CASE s.status = "active"
  <2> DEFINE t == [s EXCEPT !.status = "past_due", !.grace = now + Grace]
  <2>1. r = [next |-> t, keys |-> {<<"past_due", s.end>>}]
    BY <1>3, SMT DEF ApplyPeriodEndedUnpaid, Ok, s
  <2>2. t \in SubscriptionRow
    BY <1>1, <1>2, Zenon DEF SubscriptionRow, Statuses
  <2>3. /\ t.status = "past_due" /\ t.product = s.product /\ t.cycle = s.cycle
        /\ t.start = s.start /\ t.end = s.end
    BY <1>1, SMT DEF SubscriptionRow
  <2> HIDE DEF t
  <2>4. WellFormed(t) /\ Clean(t)
    BY <1>2, <2>2, <2>3 DEF WellFormed, Clean
  <2>5. <<"past_due", s.end>> \notin outbox
    BY <1>1, <1>3 DEF SubInv, Tells
  <2>6. {<<"past_due", s.end>>} \in SUBSET Key /\ \A e \in {<<"past_due", s.end>>} : Tells(t, e)
    BY <1>2, <2>3, SMT DEF Key, Kinds, Tells
  <2>7. Sound(r)
    BY <1>1, <1>2, <1>3, <2>1, <2>2, <2>3, <2>4, <2>5, <2>6, SamePeriodSound
  <2>8. QED
    BY <2>1, <2>3, <2>7 DEF Unpaid
<1>4. CASE s.status = "canceling"
  <2> DEFINE t == [s EXCEPT !.status = "canceled", !.grace = NoValue]
  <2>1. r = [next |-> t, keys |-> {<<"canceled", NoValue>>}]
    BY <1>4, SMT DEF ApplyPeriodEndedUnpaid, Ok, s
  <2>2. t \in SubscriptionRow
    BY <1>1, <1>2, Zenon DEF SubscriptionRow, Statuses
  <2>3. /\ t.status = "canceled" /\ t.product = s.product /\ t.cycle = s.cycle
        /\ t.start = s.start /\ t.end = s.end
    BY <1>1, SMT DEF SubscriptionRow
  <2> HIDE DEF t
  <2>4. WellFormed(t) /\ Clean(t)
    BY <1>2, <2>2, <2>3 DEF WellFormed, Clean
  <2>5. <<"canceled", NoValue>> \notin outbox
    BY <1>1, <1>4 DEF SubInv, Tells
  <2>6. {<<"canceled", NoValue>>} \in SUBSET Key /\ \A e \in {<<"canceled", NoValue>>} : Tells(t, e)
    BY <2>3, SMT DEF Key, Kinds, Tells
  <2>7. Sound(r)
    BY <1>1, <1>2, <1>4, <2>1, <2>2, <2>3, <2>4, <2>5, <2>6, SamePeriodSound
  <2>8. QED
    BY <2>1, <2>3, <2>7 DEF Unpaid
<1>5. CASE s.status \notin {"active", "canceling"}
  BY <1>5 DEF ApplyPeriodEndedUnpaid, Err, s
<1>6. QED
  BY <1>3, <1>4, <1>5

(* A trial ends unpaid, once: nothing brings a subscription back to trial. *)
LEMMA TrialEndedSound ==
  ASSUME SubInv, Existing, NEW p \in Products,
         NEW r \in ApplyTrialEnded(EntityToState(p))
  PROVE  Sound(r) /\ Unpaid(r)
<1> DEFINE s == EntityToState(p)
<1>1. s \in SubscriptionRow /\ s.product = p /\ s.status = sub.status /\ s.cycle = sub.cycle
      /\ s.start = sub.start /\ s.end = sub.end /\ s.trialEnds = sub.trialEnds
      /\ s.grace = sub.grace /\ s.canceledAt = sub.canceledAt /\ s.reason = sub.reason
  BY Handed, Zenon
<1>2. /\ s.cycle # NoValue /\ s.product # NoValue /\ s.start < s.end /\ s.start \in Nat /\ s.end \in Nat
      /\ now \in Nat /\ now + Grace \in Nat /\ Clean(s)
      /\ s.status = "trialing" /\ s.trialEnds # NoValue => s.trialEnds = s.end
  BY <1>1, TimeIsNat, RowFields, SubscriptionsAssumption, SMT DEF SubInv, WellFormed, Clean
<1> HIDE DEF s
<1>3. s.status = "trialing"
  BY <1>1, <1>2, SMT DEF ApplyTrialEnded, Err, s
<1> DEFINE t == [s EXCEPT !.status = "past_due", !.grace = now + Grace, !.reason = "trial_expired"]
<1>4. r = [next |-> t, keys |-> {<<"trial_ended", NoValue>>}]
  BY <1>3, SMT DEF ApplyTrialEnded, Err, Ok, s
<1>7. t \in SubscriptionRow
  BY <1>1, <1>2, <1>3, Zenon DEF SubscriptionRow, Statuses, Reasons
<1>8. /\ t.status = "past_due" /\ t.product = s.product /\ t.cycle = s.cycle
      /\ t.start = s.start /\ t.end = s.end
  BY <1>1, <1>2, <1>3, SMT DEF SubscriptionRow
<1> HIDE DEF t
<1>9. WellFormed(t) /\ Clean(t)
  BY <1>1, <1>2, <1>3, <1>7, <1>8, SubscriptionsAssumption, SMT DEF WellFormed, Clean, SubInv
<1>10. {<<"trial_ended", NoValue>>} \in SUBSET Key /\ {<<"trial_ended", NoValue>>} \cap outbox = {} /\ \A e \in {<<"trial_ended", NoValue>>} : Tells(t, e)
  BY <1>1, <1>3, <1>8, SMT DEF SubInv, Tells, Key, Kinds
<1>11. Sound(r)
  BY <1>1, <1>2, <1>3, <1>4, <1>7, <1>8, <1>9, <1>10, SamePeriodSound
<1>12. QED
  BY <1>1, <1>3, <1>4, <1>8, <1>11 DEF Unpaid

(* Canceled once: nothing leaves canceled. *)
LEMMA GraceExpiredSound ==
  ASSUME SubInv, Existing, NEW p \in Products,
         NEW r \in ApplyGraceExpired(EntityToState(p))
  PROVE  Sound(r) /\ Unpaid(r)
<1> DEFINE s == EntityToState(p)
<1>1. s \in SubscriptionRow /\ s.product = p /\ s.status = sub.status /\ s.cycle = sub.cycle
      /\ s.start = sub.start /\ s.end = sub.end /\ s.trialEnds = sub.trialEnds
      /\ s.grace = sub.grace /\ s.canceledAt = sub.canceledAt /\ s.reason = sub.reason
  BY Handed, Zenon
<1>2. /\ s.cycle # NoValue /\ s.product # NoValue /\ s.start < s.end /\ s.start \in Nat /\ s.end \in Nat
      /\ now \in Nat /\ now + Grace \in Nat /\ Clean(s)
      /\ s.status = "trialing" /\ s.trialEnds # NoValue => s.trialEnds = s.end
  BY <1>1, TimeIsNat, RowFields, SubscriptionsAssumption, SMT DEF SubInv, WellFormed, Clean
<1> HIDE DEF s
<1>3. s.status = "past_due"
  BY <1>1, <1>2, SMT DEF ApplyGraceExpired, Err, s
<1> DEFINE t == [s EXCEPT !.status = "canceled", !.canceledAt = now, !.grace = NoValue,
                                 !.reason = IF @ = "trial_expired" THEN @ ELSE "grace_expired"]
<1>4. r = [next |-> t, keys |-> {<<"canceled", NoValue>>}]
  BY <1>3, SMT DEF ApplyGraceExpired, Err, Ok, s
<1>7. t \in SubscriptionRow
  BY <1>1, <1>2, <1>3, Zenon DEF SubscriptionRow, Statuses, Reasons
<1>8. /\ t.status = "canceled" /\ t.product = s.product /\ t.cycle = s.cycle
      /\ t.start = s.start /\ t.end = s.end
  BY <1>1, <1>2, <1>3, SMT DEF SubscriptionRow
<1> HIDE DEF t
<1>9. WellFormed(t) /\ Clean(t)
  BY <1>1, <1>2, <1>3, <1>7, <1>8, SubscriptionsAssumption, SMT DEF WellFormed, Clean, SubInv
<1>10. {<<"canceled", NoValue>>} \in SUBSET Key /\ {<<"canceled", NoValue>>} \cap outbox = {} /\ \A e \in {<<"canceled", NoValue>>} : Tells(t, e)
  BY <1>1, <1>3, <1>8, SMT DEF SubInv, Tells, Key, Kinds
<1>11. Sound(r)
  BY <1>1, <1>2, <1>3, <1>4, <1>7, <1>8, <1>9, <1>10, SamePeriodSound
<1>12. QED
  BY <1>1, <1>3, <1>4, <1>8, <1>11 DEF Unpaid

LEMMA CancelNowSound ==
  ASSUME SubInv, Existing, NEW p \in Products,
         NEW r \in ApplyCancelNow(EntityToState(p))
  PROVE  Sound(r) /\ Unpaid(r)
<1> DEFINE s == EntityToState(p)
<1>1. s \in SubscriptionRow /\ s.product = p /\ s.status = sub.status /\ s.cycle = sub.cycle
      /\ s.start = sub.start /\ s.end = sub.end /\ s.trialEnds = sub.trialEnds
      /\ s.grace = sub.grace /\ s.canceledAt = sub.canceledAt /\ s.reason = sub.reason
  BY Handed, Zenon
<1>2. /\ s.cycle # NoValue /\ s.product # NoValue /\ s.start < s.end /\ s.start \in Nat /\ s.end \in Nat
      /\ now \in Nat /\ now + Grace \in Nat /\ Clean(s)
      /\ s.status = "trialing" /\ s.trialEnds # NoValue => s.trialEnds = s.end
  BY <1>1, TimeIsNat, RowFields, SubscriptionsAssumption, SMT DEF SubInv, WellFormed, Clean
<1> HIDE DEF s
<1>3. s.status # "canceled"
  BY <1>1, <1>2, SMT DEF ApplyCancelNow, Err, s
<1> DEFINE t == [NoSchedule(s) EXCEPT !.status = "canceled", !.canceledAt = now,
                          !.reason = "user_requested", !.grace = NoValue]
<1>4. r = [next |-> t, keys |-> {<<"canceled", NoValue>>}]
  BY <1>3, SMT DEF ApplyCancelNow, Err, Ok, s
<1> DEFINE u == NoSchedule(s)
<1>5. /\ u \in SubscriptionRow /\ u.product = s.product /\ u.cycle = s.cycle /\ u.status = s.status
      /\ u.start = s.start /\ u.end = s.end /\ u.trialEnds = s.trialEnds
      /\ u.grace = s.grace /\ u.canceledAt = s.canceledAt /\ u.reason = s.reason
  BY <1>1, Unscheduled, Zenon
<1> HIDE DEF u
<1>6. t = [u EXCEPT !.status = "canceled", !.canceledAt = now,
                          !.reason = "user_requested", !.grace = NoValue]
  BY DEF u
<1> HIDE DEF t
<1>7. t \in SubscriptionRow
  BY <1>2, <1>3, <1>5, <1>6, Zenon DEF SubscriptionRow, Statuses, Reasons
<1>8. /\ t.status = "canceled" /\ t.product = s.product /\ t.cycle = s.cycle
      /\ t.start = s.start /\ t.end = s.end
  BY <1>2, <1>3, <1>5, <1>6, SMT DEF SubscriptionRow
<1>9. WellFormed(t) /\ Clean(t)
  BY <1>1, <1>2, <1>3, <1>7, <1>8, <1>5, SubscriptionsAssumption, SMT DEF WellFormed, Clean, SubInv
<1>10. {<<"canceled", NoValue>>} \in SUBSET Key /\ {<<"canceled", NoValue>>} \cap outbox = {} /\ \A e \in {<<"canceled", NoValue>>} : Tells(t, e)
  BY <1>1, <1>3, <1>8, SMT DEF SubInv, Tells, Key, Kinds
<1>11. Sound(r)
  BY <1>1, <1>2, <1>3, <1>4, <1>7, <1>8, <1>9, <1>10, SamePeriodSound
<1>12. QED
  BY <1>1, <1>3, <1>4, <1>8, <1>11 DEF Unpaid

LEMMA CancelAtPeriodEndSound ==
  ASSUME SubInv, Existing, NEW p \in Products,
         NEW r \in ApplyCancelAtPeriodEnd(EntityToState(p))
  PROVE  Sound(r) /\ Unpaid(r)
<1> DEFINE s == EntityToState(p)
<1>1. s \in SubscriptionRow /\ s.product = p /\ s.status = sub.status /\ s.cycle = sub.cycle
      /\ s.start = sub.start /\ s.end = sub.end /\ s.trialEnds = sub.trialEnds
      /\ s.grace = sub.grace /\ s.canceledAt = sub.canceledAt /\ s.reason = sub.reason
  BY Handed, Zenon
<1>2. /\ s.cycle # NoValue /\ s.product # NoValue /\ s.start < s.end /\ s.start \in Nat /\ s.end \in Nat
      /\ now \in Nat /\ now + Grace \in Nat /\ Clean(s)
      /\ s.status = "trialing" /\ s.trialEnds # NoValue => s.trialEnds = s.end
  BY <1>1, TimeIsNat, RowFields, SubscriptionsAssumption, SMT DEF SubInv, WellFormed, Clean
<1> HIDE DEF s
<1>3. s.status \in {"trialing", "active", "paused", "past_due"}
  BY <1>1, <1>2, SMT DEF ApplyCancelAtPeriodEnd, Err, s
<1> DEFINE t == [NoSchedule(s) EXCEPT !.status = "canceling", !.canceledAt = now,
                          !.reason = "user_requested"]
<1>4. r = [next |-> t, keys |-> {}]
  BY <1>3, SMT DEF ApplyCancelAtPeriodEnd, Err, Ok, s
<1> DEFINE u == NoSchedule(s)
<1>5. /\ u \in SubscriptionRow /\ u.product = s.product /\ u.cycle = s.cycle /\ u.status = s.status
      /\ u.start = s.start /\ u.end = s.end /\ u.trialEnds = s.trialEnds
      /\ u.grace = s.grace /\ u.canceledAt = s.canceledAt /\ u.reason = s.reason
  BY <1>1, Unscheduled, Zenon
<1> HIDE DEF u
<1>6. t = [u EXCEPT !.status = "canceling", !.canceledAt = now,
                          !.reason = "user_requested"]
  BY DEF u
<1> HIDE DEF t
<1>7. t \in SubscriptionRow
  BY <1>2, <1>3, <1>5, <1>6, Zenon DEF SubscriptionRow, Statuses, Reasons
<1>8. /\ t.status = "canceling" /\ t.product = s.product /\ t.cycle = s.cycle
      /\ t.start = s.start /\ t.end = s.end
  BY <1>2, <1>3, <1>5, <1>6, SMT DEF SubscriptionRow
<1>9. WellFormed(t) /\ Clean(t)
  BY <1>1, <1>2, <1>3, <1>7, <1>8, <1>5, SubscriptionsAssumption, SMT DEF WellFormed, Clean, SubInv
<1>10. {} \in SUBSET Key /\ {} \cap outbox = {} /\ \A e \in {} : Tells(t, e)
  BY <1>1, <1>3, <1>8, SMT DEF SubInv, Tells, Key, Kinds
<1>11. Sound(r)
  BY <1>1, <1>2, <1>3, <1>4, <1>7, <1>8, <1>9, <1>10, SamePeriodSound
<1>12. QED
  BY <1>1, <1>3, <1>4, <1>8, <1>11 DEF Unpaid

LEMMA PlanScheduleSound ==
  ASSUME SubInv, Existing, NEW p \in Products, NEW q \in Products, NEW c \in Cycles,
         NEW r \in ApplyPlanSchedule(EntityToState(p), q, c)
  PROVE  Sound(r) /\ Unpaid(r)
<1> DEFINE s == EntityToState(p)
<1>1. s \in SubscriptionRow /\ s.product = p /\ s.status = sub.status /\ s.cycle = sub.cycle
      /\ s.start = sub.start /\ s.end = sub.end /\ s.trialEnds = sub.trialEnds
      /\ s.grace = sub.grace /\ s.canceledAt = sub.canceledAt /\ s.reason = sub.reason
  BY Handed, Zenon
<1>2. /\ s.cycle # NoValue /\ s.product # NoValue /\ s.start < s.end /\ s.start \in Nat /\ s.end \in Nat
      /\ now \in Nat /\ now + Grace \in Nat /\ Clean(s)
      /\ s.status = "trialing" /\ s.trialEnds # NoValue => s.trialEnds = s.end
  BY <1>1, TimeIsNat, RowFields, SubscriptionsAssumption, SMT DEF SubInv, WellFormed, Clean
<1> HIDE DEF s
<1>3. s.status \in {"active", "trialing"}
  BY <1>1, <1>2, SMT DEF ApplyPlanSchedule, Err, s
<1> DEFINE t == [s EXCEPT !.nextProduct = q, !.nextCycle = c]
<1>4. r = [next |-> t, keys |-> {}]
  BY <1>3, SMT DEF ApplyPlanSchedule, Err, Ok, s
<1>7. t \in SubscriptionRow
  BY <1>1, <1>2, <1>3, Zenon DEF SubscriptionRow, Statuses, Reasons
<1>8. /\ t.status = s.status /\ t.product = s.product /\ t.cycle = s.cycle
      /\ t.start = s.start /\ t.end = s.end /\ t.trialEnds = s.trialEnds /\ t.grace = s.grace /\ t.canceledAt = s.canceledAt /\ t.reason = s.reason
  BY <1>1, <1>2, <1>3, SMT DEF SubscriptionRow
<1> HIDE DEF t
<1>9. WellFormed(t) /\ Clean(t)
  BY <1>1, <1>2, <1>3, <1>7, <1>8, SubscriptionsAssumption, SMT DEF WellFormed, Clean, SubInv
<1>10. {} \in SUBSET Key /\ {} \cap outbox = {} /\ \A e \in {} : Tells(t, e)
  BY <1>1, <1>3, <1>8, SMT DEF SubInv, Tells, Key, Kinds
<1>11. Sound(r)
  BY <1>1, <1>2, <1>3, <1>4, <1>7, <1>8, <1>9, <1>10, SamePeriodSound
<1>12. QED
  BY <1>1, <1>3, <1>4, <1>8, <1>11 DEF Unpaid

LEMMA PlanChangeSound ==
  ASSUME SubInv, Existing, NEW p \in Products, NEW q \in Products, NEW c \in Cycles,
         NEW r \in ApplyPlanChangeImmediate(EntityToState(p), q, c)
  PROVE  Sound(r) /\ Unpaid(r)
<1> DEFINE s == EntityToState(p)
<1>1. s \in SubscriptionRow /\ s.product = p /\ s.status = sub.status /\ s.cycle = sub.cycle
      /\ s.start = sub.start /\ s.end = sub.end /\ s.trialEnds = sub.trialEnds
      /\ s.grace = sub.grace /\ s.canceledAt = sub.canceledAt /\ s.reason = sub.reason
  BY Handed, Zenon
<1>2. /\ s.cycle # NoValue /\ s.product # NoValue /\ s.start < s.end /\ s.start \in Nat /\ s.end \in Nat
      /\ now \in Nat /\ now + Grace \in Nat /\ Clean(s)
      /\ s.status = "trialing" /\ s.trialEnds # NoValue => s.trialEnds = s.end
  BY <1>1, TimeIsNat, RowFields, SubscriptionsAssumption, SMT DEF SubInv, WellFormed, Clean
<1> HIDE DEF s
<1>3. s.status \in {"active", "trialing"}
  BY <1>1, <1>2, SMT DEF ApplyPlanChangeImmediate, Err, s
<1> DEFINE t == [NoSchedule(s) EXCEPT !.product = q, !.cycle = c]
<1>4. r = [next |-> t, keys |-> {}]
  BY <1>3, SMT DEF ApplyPlanChangeImmediate, Err, Ok, s
<1> DEFINE u == NoSchedule(s)
<1>5. /\ u \in SubscriptionRow /\ u.product = s.product /\ u.cycle = s.cycle /\ u.status = s.status
      /\ u.start = s.start /\ u.end = s.end /\ u.trialEnds = s.trialEnds
      /\ u.grace = s.grace /\ u.canceledAt = s.canceledAt /\ u.reason = s.reason
  BY <1>1, Unscheduled, Zenon
<1> HIDE DEF u
<1>6. t = [u EXCEPT !.product = q, !.cycle = c]
  BY DEF u
<1> HIDE DEF t
<1>7. t \in SubscriptionRow
  BY <1>2, <1>3, <1>5, <1>6, Zenon DEF SubscriptionRow, Statuses, Reasons
<1>8. /\ t.status = s.status /\ t.product = q /\ t.cycle = c
      /\ t.start = s.start /\ t.end = s.end /\ t.trialEnds = s.trialEnds /\ t.grace = s.grace /\ t.canceledAt = s.canceledAt /\ t.reason = s.reason
  BY <1>2, <1>3, <1>5, <1>6, SMT DEF SubscriptionRow
<1>9. WellFormed(t) /\ Clean(t)
  BY <1>1, <1>2, <1>3, <1>7, <1>8, <1>5, SubscriptionsAssumption, SMT DEF WellFormed, Clean, SubInv
<1>10. {} \in SUBSET Key /\ {} \cap outbox = {} /\ \A e \in {} : Tells(t, e)
  BY <1>1, <1>3, <1>8, SMT DEF SubInv, Tells, Key, Kinds
<1>11. Sound(r)
  BY <1>1, <1>2, <1>3, <1>4, <1>7, <1>8, <1>9, <1>10, SamePeriodSound
<1>12. QED
  BY <1>1, <1>3, <1>4, <1>8, <1>11 DEF Unpaid

LEMMA PauseSound ==
  ASSUME SubInv, Existing, NEW p \in Products,
         NEW r \in ApplyPause(EntityToState(p))
  PROVE  Sound(r) /\ Unpaid(r)
<1> DEFINE s == EntityToState(p)
<1>1. s \in SubscriptionRow /\ s.product = p /\ s.status = sub.status /\ s.cycle = sub.cycle
      /\ s.start = sub.start /\ s.end = sub.end /\ s.trialEnds = sub.trialEnds
      /\ s.grace = sub.grace /\ s.canceledAt = sub.canceledAt /\ s.reason = sub.reason
  BY Handed, Zenon
<1>2. /\ s.cycle # NoValue /\ s.product # NoValue /\ s.start < s.end /\ s.start \in Nat /\ s.end \in Nat
      /\ now \in Nat /\ now + Grace \in Nat /\ Clean(s)
      /\ s.status = "trialing" /\ s.trialEnds # NoValue => s.trialEnds = s.end
  BY <1>1, TimeIsNat, RowFields, SubscriptionsAssumption, SMT DEF SubInv, WellFormed, Clean
<1> HIDE DEF s
<1>3. s.status = "active"
  BY <1>1, <1>2, SMT DEF ApplyPause, Err, s
<1> DEFINE t == [s EXCEPT !.status = "paused"]
<1>4. r = [next |-> t, keys |-> {}]
  BY <1>3, SMT DEF ApplyPause, Err, Ok, s
<1>7. t \in SubscriptionRow
  BY <1>1, <1>2, <1>3, Zenon DEF SubscriptionRow, Statuses, Reasons
<1>8. /\ t.status = "paused" /\ t.product = s.product /\ t.cycle = s.cycle
      /\ t.start = s.start /\ t.end = s.end /\ t.trialEnds = s.trialEnds /\ t.grace = s.grace /\ t.canceledAt = s.canceledAt /\ t.reason = s.reason
  BY <1>1, <1>2, <1>3, SMT DEF SubscriptionRow
<1> HIDE DEF t
<1>9. WellFormed(t) /\ Clean(t)
  BY <1>1, <1>2, <1>3, <1>7, <1>8, SubscriptionsAssumption, SMT DEF WellFormed, Clean, SubInv
<1>10. {} \in SUBSET Key /\ {} \cap outbox = {} /\ \A e \in {} : Tells(t, e)
  BY <1>1, <1>3, <1>8, SMT DEF SubInv, Tells, Key, Kinds
<1>11. Sound(r)
  BY <1>1, <1>2, <1>3, <1>4, <1>7, <1>8, <1>9, <1>10, SamePeriodSound
<1>12. QED
  BY <1>1, <1>3, <1>4, <1>8, <1>11 DEF Unpaid

LEMMA ResumeSound ==
  ASSUME SubInv, Existing, NEW p \in Products,
         NEW r \in ApplyResume(EntityToState(p))
  PROVE  Sound(r) /\ Unpaid(r)
<1> DEFINE s == EntityToState(p)
<1>1. s \in SubscriptionRow /\ s.product = p /\ s.status = sub.status /\ s.cycle = sub.cycle
      /\ s.start = sub.start /\ s.end = sub.end /\ s.trialEnds = sub.trialEnds
      /\ s.grace = sub.grace /\ s.canceledAt = sub.canceledAt /\ s.reason = sub.reason
  BY Handed, Zenon
<1>2. /\ s.cycle # NoValue /\ s.product # NoValue /\ s.start < s.end /\ s.start \in Nat /\ s.end \in Nat
      /\ now \in Nat /\ now + Grace \in Nat /\ Clean(s)
      /\ s.status = "trialing" /\ s.trialEnds # NoValue => s.trialEnds = s.end
  BY <1>1, TimeIsNat, RowFields, SubscriptionsAssumption, SMT DEF SubInv, WellFormed, Clean
<1> HIDE DEF s
<1>3. s.status = "paused"
  BY <1>1, <1>2, SMT DEF ApplyResume, Err, s
<1> DEFINE t == [s EXCEPT !.status = "active"]
<1>4. r = [next |-> t, keys |-> {}]
  BY <1>3, SMT DEF ApplyResume, Err, Ok, s
<1>7. t \in SubscriptionRow
  BY <1>1, <1>2, <1>3, Zenon DEF SubscriptionRow, Statuses, Reasons
<1>8. /\ t.status = "active" /\ t.product = s.product /\ t.cycle = s.cycle
      /\ t.start = s.start /\ t.end = s.end /\ t.trialEnds = s.trialEnds /\ t.grace = s.grace /\ t.canceledAt = s.canceledAt /\ t.reason = s.reason
  BY <1>1, <1>2, <1>3, SMT DEF SubscriptionRow
<1> HIDE DEF t
<1>9. WellFormed(t) /\ Clean(t)
  BY <1>1, <1>2, <1>3, <1>7, <1>8, SubscriptionsAssumption, SMT DEF WellFormed, Clean, SubInv
<1>10. {} \in SUBSET Key /\ {} \cap outbox = {} /\ \A e \in {} : Tells(t, e)
  BY <1>1, <1>3, <1>8, SMT DEF SubInv, Tells, Key, Kinds
<1>11. Sound(r)
  BY <1>1, <1>2, <1>3, <1>4, <1>7, <1>8, <1>9, <1>10, SamePeriodSound
<1>12. QED
  BY <1>1, <1>3, <1>4, <1>8, <1>11 DEF Unpaid

(* A trial is only ever extended: its end is where it was extended to. *)
LEMMA TrialExtendSound ==
  ASSUME SubInv, Existing, NEW p \in Products, NEW n \in Nat,
         NEW r \in ApplyTrialExtend(EntityToState(p), n)
  PROVE  Sound(r) /\ Unpaid(r)
<1> DEFINE s == EntityToState(p)
<1>1. s \in SubscriptionRow /\ s.product = p /\ s.status = sub.status /\ s.cycle = sub.cycle
      /\ s.start = sub.start /\ s.end = sub.end /\ s.trialEnds = sub.trialEnds
      /\ s.grace = sub.grace /\ s.canceledAt = sub.canceledAt /\ s.reason = sub.reason
  BY Handed, Zenon
<1>2. /\ s.cycle # NoValue /\ s.product # NoValue /\ s.start < s.end /\ s.start \in Nat /\ s.end \in Nat
      /\ now \in Nat /\ now + Grace \in Nat /\ Clean(s)
      /\ s.status = "trialing" /\ s.trialEnds # NoValue => s.trialEnds = s.end
  BY <1>1, TimeIsNat, RowFields, SubscriptionsAssumption, SMT DEF SubInv, WellFormed, Clean
<1> HIDE DEF s
<1>3. s.status = "trialing" /\ n > s.end
  BY <1>1, <1>2, SMT DEF ApplyTrialExtend, Err, s
<1> DEFINE t == [s EXCEPT !.end = n, !.trialEnds = n]
<1>4. r = [next |-> t, keys |-> {}]
  BY <1>3, SMT DEF ApplyTrialExtend, Err, Ok, s
<1>7. t \in SubscriptionRow
  BY <1>1, <1>2, <1>3, Zenon DEF SubscriptionRow, Statuses, Reasons
<1>8. /\ t.status = "trialing" /\ t.product = s.product /\ t.cycle = s.cycle
      /\ t.start = s.start /\ t.end = n /\ t.trialEnds = n
      /\ t.grace = s.grace /\ t.canceledAt = s.canceledAt /\ t.reason = s.reason
  BY <1>1, <1>2, <1>3, SMT DEF SubscriptionRow
<1> HIDE DEF t
<1>9. WellFormed(t) /\ Clean(t)
  BY <1>1, <1>2, <1>3, <1>7, <1>8, SubscriptionsAssumption, SMT DEF WellFormed, Clean, SubInv
<1>10. {} \in SUBSET Key /\ {} \cap outbox = {} /\ \A e \in {} : Tells(t, e)
  BY <1>1, <1>3, <1>8, SMT DEF SubInv, Tells, Key, Kinds
<1>11. Sound(r)
  BY <1>1, <1>2, <1>3, <1>4, <1>7, <1>8, <1>9, <1>10, SamePeriodSound
<1>12. QED
  BY <1>1, <1>3, <1>4, <1>8, <1>11 DEF Unpaid

(* A payment confirms the period of a trial or opens the one after the last, and   *)
(* neither start was paid before.                                                   *)
LEMMA PaidSound ==
  ASSUME SubInv, Existing, NEW p \in Products, NEW r \in ApplyPaid(EntityToState(p))
  PROVE  Sound(r) /\ r.next.status = "active"
<1> DEFINE s == EntityToState(p)
           t == PaidRow(s)
<1>1. s \in SubscriptionRow /\ s.product = p /\ s.status = sub.status /\ s.cycle = sub.cycle
      /\ s.start = sub.start /\ s.end = sub.end
  BY Handed, Zenon
<1> HIDE DEF s, t
<1>2. s.status \notin {"canceled", "paused"} /\ r = [next |-> t, keys |-> PaidKeys(s)]
  BY SMT DEF ApplyPaid, Err, Ok, s, t
<1>3. EffectiveProduct(s) \in Products /\ EffectiveCycle(s) \in Cycles
  BY <1>1, RowFields, SubscriptionsAssumption, SMT
     DEF EffectiveProduct, EffectiveCycle, SubInv, WellFormed
<1>4. CycleLength[EffectiveCycle(s)] \in Nat \ {0}
  BY <1>3, SubscriptionsAssumption
<1>5. /\ s.start \in Nat /\ s.end \in Nat /\ s.start < s.end
      /\ PaidStart(s) \in Nat /\ PaidEnd(s) \in Nat /\ PaidStart(s) < PaidEnd(s)
  BY <1>1, <1>4, RowFields, SMT DEF PaidStart, PaidEnd, ComputePeriodEnd, SubInv, WellFormed
<1>6. /\ t \in SubscriptionRow /\ t.status = "active"
      /\ t.product = EffectiveProduct(s) /\ t.cycle = EffectiveCycle(s)
      /\ t.start = PaidStart(s) /\ t.end = PaidEnd(s)
      /\ t.grace = NoValue /\ t.canceledAt = NoValue /\ t.reason = NoValue
  BY <1>1, <1>3, <1>5, Paid, Zenon DEF t
<1>7. WellFormed(t) /\ Clean(t)
  BY <1>3, <1>5, <1>6, SubscriptionsAssumption, SMT DEF WellFormed, Clean
<1>8. Continues(sub, t)
  BY <1>1, <1>5, <1>6, SMT DEF Continues, PaidStart, PaidEnd, ComputePeriodEnd
<1>9. \A e \in PaidKeys(s) : e[1] \in {"renewed", "plan_changed"} /\ e[2] = PaidStart(s) /\ e \in Key
  BY <1>5, SMT DEF PaidKeys, Key, Kinds
<1>10. \A e \in outbox : Tells(sub, e)
  BY DEF SubInv
<1>11. PaidKeys(s) \cap outbox = {}
  <2> SUFFICES ASSUME NEW e \in PaidKeys(s), e \in outbox PROVE FALSE
    OBVIOUS
  <2>1. sub.status # "trialing" /\ e[2] <= sub.start
    BY <1>9, <1>10 DEF Tells
  <2>2. PaidStart(s) = sub.end
    BY <1>1, <2>1 DEF PaidStart
  <2>3. QED
    BY <1>1, <1>5, <1>9, <2>1, <2>2, SMT
<1>12. \A e \in PaidKeys(s) : Tells(t, e)
  BY <1>5, <1>6, <1>9, SMT DEF Tells
<1>13. \A e \in outbox : Tells(t, e)
  <2> SUFFICES ASSUME NEW e \in outbox PROVE Tells(t, e)
    OBVIOUS
  <2>1. Tells(sub, e)
    BY <1>10
  <2>2. PaidStart(s) >= sub.start /\ PaidEnd(s) >= sub.end
    BY <1>1, <1>4, <1>5, SMT DEF PaidStart, PaidEnd, ComputePeriodEnd
  <2>3. sub.status # "trialing" => PaidEnd(s) > sub.end
    BY <1>1, <1>5, SMT DEF PaidStart
  <2>4. sub.status # "canceled"
    BY <1>1, <1>2
  <2>5. QED
    BY <1>1, <1>5, <1>6, <2>1, <2>2, <2>3, <2>4, SMT DEF Tells
<1>14. QED
  BY <1>1, <1>2, <1>6, <1>7, <1>8, <1>9, <1>11, <1>12, <1>13 DEF Sound

-----------------------------------------------------------------------------
(* Sound outcomes preserve the invariant, whatever else the step does. *)
LEMMA CommitInv ==
  ASSUME SubInv, Existing, NEW r, Sound(r),
         sub' = r.next, AppendOutboxEvents(r.keys),
         now' \in 0..Horizon, issued' \in 0..MaxInvoices, bills' \in [1..MaxOpen -> Terms \cup {NoValue}],
         renewing' \in Terms \cup {NoValue}, listed' \subseteq {"active", "past_due"},
         renewals' \in Nat, resends' \in 0..MaxResends,
         renewing' # NoValue => issued' < MaxInvoices,
         renewals' >= renewals, r.next.status \in {"active", "paused"} => renewals' > 0
  PROVE  SubInv'
<1>1. dropped' = {} /\ outbox' = outbox \cup r.keys
  BY DEF AppendOutboxEvents, SubInv, Sound
<1>2. WellFormed(sub)' /\ Clean(sub)' /\ \A e \in outbox' : Tells(sub, e)'
  BY <1>1 DEF Sound, WellFormed, Clean, Tells, SubscriptionRow
<1>3. SubTypeOK'
  BY <1>1, <1>2 DEF Sound, SubInv, SubTypeOK, WellFormed, SubscriptionRow
<1>4. ActiveWasPaid'
  BY DEF ActiveWasPaid
<1>5. Existing'
  BY <1>2 DEF WellFormed, Existing
<1>6. QED
  BY <1>1, <1>2, <1>3, <1>4, <1>5 DEF SubInv

(* A transition of the service, whose outcomes are sound and do not make the         *)
(* subscription active.                                                              *)
LEMMA TransitionInv ==
  ASSUME SubInv, NEW result, RunLifecycleTransition(result),
         Existing => \A r \in result : Sound(r) /\ Unpaid(r)
  PROVE  SubInv'
<1>1. PICK r \in result : sub' = r.next /\ AppendOutboxEvents(r.keys)
  BY DEF RunLifecycleTransition, Commit
<1>2. Existing /\ Sound(r) /\ (r.next.status \in {"active", "paused"} => renewals > 0)
  BY DEF RunLifecycleTransition, Existing, SubInv, ActiveWasPaid, Unpaid
<1>3. UNCHANGED <<now, issued, bills, renewing, listed, renewals, resends>>
  BY DEF RunLifecycleTransition
<1>4. /\ now' \in 0..Horizon /\ issued' \in 0..MaxInvoices /\ bills' \in [1..MaxOpen -> Terms \cup {NoValue}]
      /\ renewing' \in Terms \cup {NoValue} /\ listed' \subseteq {"active", "past_due"}
      /\ renewals' \in Nat /\ resends' \in 0..MaxResends /\ renewals' >= renewals
      /\ renewing' # NoValue => issued' < MaxInvoices
  BY <1>3 DEF SubInv, SubTypeOK
<1>5. QED
  BY <1>1, <1>2, <1>3, <1>4, CommitInv

(* The requests of the service that run a transition. *)
LEMMA ServiceInv ==
  ASSUME SubInv,
         \/ \E p \in Products, c \in Cycles : SchedulePlan(p, c) \/ ChangePlanNow(p, c)
         \/ CancelNow \/ CancelAtPeriodEnd \/ Pause \/ Resume \/ TriggerTrialEnded
         \/ \E n \in 1..Horizon : ExtendTrial(n)
  PROVE  SubInv'
<1>1. Existing => Loaded \in Products
  BY LoadedIsAProduct
<1>2. \A n \in 1..Horizon : n \in Nat
  BY SubscriptionsAssumption, SMT
<1>3. ASSUME NEW p \in Products, NEW c \in Cycles, SchedulePlan(p, c) PROVE SubInv'
  BY <1>3, PlanScheduleSound, TransitionInv DEF SchedulePlan
<1>4. ASSUME NEW p \in Products, NEW c \in Cycles, ChangePlanNow(p, c) PROVE SubInv'
  BY <1>4, PlanChangeSound, TransitionInv DEF ChangePlanNow
<1>5. CASE CancelNow
  BY <1>1, <1>5, CancelNowSound, TransitionInv DEF CancelNow, Current
<1>6. CASE CancelAtPeriodEnd
  BY <1>1, <1>6, CancelAtPeriodEndSound, TransitionInv DEF CancelAtPeriodEnd, Current
<1>7. CASE Pause
  BY <1>1, <1>7, PauseSound, TransitionInv DEF Pause, Current
<1>8. CASE Resume
  BY <1>1, <1>8, ResumeSound, TransitionInv DEF Resume, Current
<1>9. ASSUME NEW n \in 1..Horizon, ExtendTrial(n) PROVE SubInv'
  BY <1>1, <1>2, <1>9, TrialExtendSound, TransitionInv DEF ExtendTrial, Current
<1>10. CASE TriggerTrialEnded
  BY <1>1, <1>10, TrialEndedSound, TransitionInv DEF TriggerTrialEnded, Current
<1>11. QED
  BY <1>3, <1>4, <1>5, <1>6, <1>7, <1>8, <1>9, <1>10

(* A subscription that does not exist has status none, which no transition takes. *)
LEMMA NobodyLapses ==
  ASSUME SubInv, ~Existing
  PROVE  ApplyPeriodEndedUnpaid(Current) = Err /\ ApplyGraceExpired(Current) = Err
<1>1. Current.status = "none"
  BY SMT DEF Existing, Current, EntityToState, SubInv, SubTypeOK, SubscriptionRow
<1>2. QED
  BY <1>1, SMT DEF ApplyPeriodEndedUnpaid, ApplyGraceExpired, Err

LEMMA CronTransitionInv ==
  ASSUME SubInv, NEW status, NEW result, CronTransition(status, result),
         result # Err => Existing /\ \A r \in result : Sound(r) /\ Unpaid(r)
  PROVE  SubInv'
<1>1. /\ UNCHANGED <<now, issued, bills, renewing, renewals, resends>>
      /\ listed' \subseteq {"active", "past_due"}
  BY DEF CronTransition, SubInv, SubTypeOK
<1>2. CASE result = Err
  <2>1. UNCHANGED <<sub, outbox, dropped>>
    BY <1>2 DEF CronTransition
  <2>2. QED
    BY <1>1, <2>1 DEF SubInv, SubTypeOK, Existing, WellFormed, Clean, Tells, ActiveWasPaid
<1>3. CASE result # Err
  <2>1. PICK r \in result : sub' = r.next /\ AppendOutboxEvents(r.keys)
    BY <1>3 DEF CronTransition, Commit
  <2>2. Existing /\ Sound(r) /\ (r.next.status \in {"active", "paused"} => renewals > 0)
    BY <1>3 DEF SubInv, ActiveWasPaid, Unpaid
  <2>3. /\ now' \in 0..Horizon /\ issued' \in 0..MaxInvoices /\ bills' \in [1..MaxOpen -> Terms \cup {NoValue}]
        /\ renewing' \in Terms \cup {NoValue}
        /\ renewals' \in Nat /\ resends' \in 0..MaxResends /\ renewals' >= renewals
        /\ renewing' # NoValue => issued' < MaxInvoices
    BY <1>1 DEF SubInv, SubTypeOK
  <2>4. QED
    BY <1>1, <2>1, <2>2, <2>3, CommitInv
<1>4. QED
  BY <1>2, <1>3

LEMMA CronsInv ==
  ASSUME SubInv, ExpireToPastDue \/ DowngradeOnGraceExpiry
  PROVE  SubInv'
<1>1. Existing => Loaded \in Products
  BY LoadedIsAProduct
<1>2. CASE ExpireToPastDue
  <2>1. ApplyPeriodEndedUnpaid(Current) # Err =>
          Existing /\ \A r \in ApplyPeriodEndedUnpaid(Current) : Sound(r) /\ Unpaid(r)
    BY <1>1, NobodyLapses, PeriodEndedUnpaidSound DEF Current
  <2>2. QED
    BY <1>2, <2>1, CronTransitionInv DEF ExpireToPastDue
<1>3. CASE DowngradeOnGraceExpiry
  <2>1. ApplyGraceExpired(Current) # Err =>
          Existing /\ \A r \in ApplyGraceExpired(Current) : Sound(r) /\ Unpaid(r)
    BY <1>1, NobodyLapses, GraceExpiredSound DEF Current
  <2>2. QED
    BY <1>3, <2>1, CronTransitionInv DEF DowngradeOnGraceExpiry
<1>4. QED
  BY <1>2, <1>3

(* An invoice is paid, by whoever holds it; there is none before the subscription. *)
LEMMA OnRenewalPaidInv ==
  ASSUME SubInv, NEW i \in 1..MaxOpen, OnRenewalPaid(i)
  PROVE  SubInv'
<1>1. Existing
  BY DEF OnRenewalPaid, SubInv
<1>2. Loaded \in Products
  BY <1>1, LoadedIsAProduct
<1>3. /\ UNCHANGED <<now, issued, renewing, listed, resends>>
      /\ bills' \in [1..MaxOpen -> Terms \cup {NoValue}]
  BY DEF OnRenewalPaid, SubInv, SubTypeOK
<1>4. CASE ApplyPaid(Current) = Err
  <2>1. UNCHANGED <<sub, outbox, dropped, renewals>>
    BY <1>4 DEF OnRenewalPaid
  <2>2. QED
    BY <1>1, <1>3, <2>1 DEF SubInv, SubTypeOK, Existing, WellFormed, Clean, Tells, ActiveWasPaid
<1>5. CASE ApplyPaid(Current) # Err
  <2>1. PICK r \in ApplyPaid(Current) : sub' = r.next /\ AppendOutboxEvents(r.keys)
    BY <1>5 DEF OnRenewalPaid, Commit
  <2>2. Sound(r)
    BY <1>1, <1>2, <2>1, PaidSound DEF Current
  <2>3. renewals' = renewals + 1 /\ renewals \in Nat
    BY <1>5 DEF OnRenewalPaid, SubInv, SubTypeOK
  <2>4. /\ now' \in 0..Horizon /\ issued' \in 0..MaxInvoices /\ renewing' \in Terms \cup {NoValue}
        /\ listed' \subseteq {"active", "past_due"} /\ resends' \in 0..MaxResends
        /\ renewals' \in Nat /\ renewals' >= renewals /\ renewals' > 0
        /\ renewing' # NoValue => issued' < MaxInvoices
    BY <1>3, <2>3, SMT DEF SubInv, SubTypeOK
  <2>5. QED
    BY <1>1, <1>3, <2>1, <2>2, <2>4, CommitInv
<1>6. QED
  BY <1>4, <1>5

LEMMA CreateInv ==
  ASSUME SubInv, NEW p \in Products, NEW c \in Cycles, Create(p, c)
  PROVE  SubInv'
<1> DEFINE t == [NoSubscription EXCEPT !.status = "trialing", !.product = p, !.cycle = c,
                                       !.start = now, !.end = ComputePeriodEnd(now, c)]
<1>1. /\ sub' = t /\ outbox' = outbox \cup {<<"created", NoValue>>}
      /\ dropped' = dropped \cup (outbox \cap {<<"created", NoValue>>})
      /\ UNCHANGED <<now, issued, bills, renewing, listed, renewals, resends>>
      /\ ~Existing
  BY SMT DEF Create, Commit, ApplyCreate, Ok, AppendOutboxEvents, Existing
<1>2. now \in Nat /\ ComputePeriodEnd(now, c) \in Nat /\ now < ComputePeriodEnd(now, c)
  <2>1. CycleLength[c] \in Nat \ {0}
    BY SubscriptionsAssumption
  <2>2. QED
    BY <2>1, TimeIsNat, SMT DEF ComputePeriodEnd
<1>3. NoSubscription \in SubscriptionRow
  BY DEF NoSubscription, SubscriptionRow, Statuses, Reasons
<1>4. t \in SubscriptionRow
  BY <1>2, <1>3, Zenon DEF SubscriptionRow, Statuses
<1>5. /\ t.status = "trialing" /\ t.product = p /\ t.cycle = c /\ t.start = now
      /\ t.end = ComputePeriodEnd(now, c) /\ t.trialEnds = NoValue
      /\ t.grace = NoValue /\ t.canceledAt = NoValue /\ t.reason = NoValue
  BY SMT DEF NoSubscription
<1> HIDE DEF t
<1>6. WellFormed(t) /\ Clean(t)
  BY <1>2, <1>4, <1>5, SubscriptionsAssumption, SMT DEF WellFormed, Clean
<1>7. outbox = {} /\ dropped = {}
  BY <1>1 DEF SubInv
<1>8. outbox' = {<<"created", NoValue>>} /\ dropped' = {}
  BY <1>1, <1>7
<1>9. \A e \in outbox' : Tells(t, e)
  BY <1>8, SMT DEF Tells
<1>10. outbox' \subseteq Key
  BY <1>8 DEF Key, Kinds
<1>11. (\A e \in outbox : Tells(sub, e))' /\ WellFormed(sub)' /\ Clean(sub)'
  BY <1>1, <1>6, <1>9 DEF Tells, WellFormed, Clean, SubscriptionRow
<1>12. SubTypeOK' /\ Existing' /\ ActiveWasPaid'
  BY <1>1, <1>5, <1>6, <1>8, <1>10 DEF SubInv, SubTypeOK, WellFormed, Existing, ActiveWasPaid
<1>13. QED
  BY <1>1, <1>8, <1>11, <1>12 DEF SubInv

(* Steps that leave the row and its keys alone, but for a resent webhook. *)
LEMMA RestInv ==
  ASSUME SubInv,
         \/ Renew \/ IssueRenewalInvoice \/ ResendRenewedWebhook \/ ListExpired \/ ListExpiredGrace \/ Tick
         \/ UNCHANGED subVars
  PROVE  SubInv'
<1>1. UNCHANGED <<sub, dropped, renewals>>
  BY DEF Renew, IssueRenewalInvoice, ResendRenewedWebhook, ListExpired, ListExpiredGrace, Tick, subVars, subHistory
<1>2. sub.status # "none" => sub.start \in Nat
  BY DEF SubInv, SubTypeOK, SubscriptionRow
<1>3. SubTypeOK'
  <2>1. CASE Renew
    <3>1. Billed(sub) \in Terms
      <4>1. sub \in SubscriptionRow /\ sub.product \in Products /\ sub.cycle \in Cycles
        BY <2>1, RowFields, SMT DEF Renew, SubInv, SubTypeOK
      <4>2. EffectiveCycle(sub) \in Cycles /\ EffectiveProduct(sub) \in Products
        BY <4>1, RowFields, SMT DEF EffectiveCycle, EffectiveProduct
      <4>3. CycleLength[EffectiveCycle(sub)] \in Nat
        BY <4>2, SubscriptionsAssumption
      <4>4. sub.start \in Nat /\ sub.end \in Nat /\ sub.end + CycleLength[EffectiveCycle(sub)] \in Nat
        BY <4>1, <4>3, RowFields, SMT
      <4>5. QED
        BY <4>2, <4>4, SMT DEF Billed, Terms, EffectiveCycle, EffectiveProduct, ComputePeriodEnd
    <3>2. QED
      BY <1>1, <2>1, <3>1 DEF Renew, subHistory, SubInv, SubTypeOK
  <2>2. CASE IssueRenewalInvoice
    <3>1. issued' \in 0..MaxInvoices
      BY <2>2, SubscriptionsAssumption, SMT DEF IssueRenewalInvoice, SubInv, SubTypeOK
    <3>2. QED
      BY <1>1, <2>2, <3>1 DEF IssueRenewalInvoice, subHistory, SubInv, SubTypeOK
  <2>3. CASE ResendRenewedWebhook
    BY <1>1, <1>2, <2>3, SubscriptionsAssumption, SMT DEF ResendRenewedWebhook, SubInv, SubTypeOK, Key, Kinds
  <2>4. CASE ListExpired \/ ListExpiredGrace
    BY <1>1, <2>4 DEF ListExpired, ListExpiredGrace, subHistory, SubInv, SubTypeOK
  <2>5. CASE Tick
    BY <1>1, <2>5, SubscriptionsAssumption, SMT DEF Tick, subHistory, SubInv, SubTypeOK
  <2>6. CASE UNCHANGED subVars
    BY <2>6 DEF subVars, subHistory, SubInv, SubTypeOK
  <2>7. QED
    BY <2>1, <2>2, <2>3, <2>4, <2>5, <2>6
<1>4. Existing' = Existing /\ WellFormed(sub)' = WellFormed(sub) /\ Clean(sub)' = Clean(sub)
  BY <1>1 DEF Existing, WellFormed, Clean, SubscriptionRow
<1>5. \A e \in outbox' : e \in outbox \/ (e[1] = "resend" /\ Existing)
  BY SMT DEF Renew, IssueRenewalInvoice, ResendRenewedWebhook, ListExpired, ListExpiredGrace, Tick,
         subVars, Existing
<1>6. Existing => \A e \in outbox' : Tells(sub, e)'
  BY <1>1, <1>5, SMT DEF SubInv, Tells
<1>7. ~Existing => outbox' = {} /\ renewing' = NoValue /\ \A i \in 1..MaxOpen : bills'[i] = NoValue
  BY SMT DEF SubInv, Existing, Renew, IssueRenewalInvoice, ResendRenewedWebhook, ListExpired,
         ListExpiredGrace, Tick, subVars
<1>8. renewing' # NoValue => issued' < MaxInvoices
  BY SMT DEF SubInv, Renew, IssueRenewalInvoice, ResendRenewedWebhook, ListExpired, ListExpiredGrace,
         Tick, subVars
<1>9. ActiveWasPaid'
  BY <1>1 DEF SubInv, ActiveWasPaid
<1>10. QED
  BY <1>1, <1>3, <1>4, <1>6, <1>7, <1>8, <1>9 DEF SubInv

-----------------------------------------------------------------------------
LEMMA SubInitInv == SubInit => SubInv
<1> SUFFICES ASSUME SubInit PROVE SubInv
  OBVIOUS
<1>1. NoSubscription \in SubscriptionRow /\ sub.status = "none"
  BY DEF SubInit, NoSubscription, SubscriptionRow, Statuses, Reasons
<1>2. SubTypeOK
  BY <1>1, SubscriptionsAssumption, SMT DEF SubInit, SubTypeOK
<1>3. ~Existing /\ ActiveWasPaid
  BY <1>1 DEF Existing, ActiveWasPaid
<1>4. QED
  BY <1>2, <1>3 DEF SubInit, SubInv

LEMMA SubStepInv == SubInv /\ [SubNext]_subVars => SubInv'
<1> SUFFICES ASSUME SubInv, [SubNext]_subVars PROVE SubInv'
  OBVIOUS
<1>1. ASSUME NEW p \in Products, NEW c \in Cycles, Create(p, c) PROVE SubInv'
  BY <1>1, CreateInv
<1>2. ASSUME NEW i \in 1..MaxOpen, OnRenewalPaid(i) PROVE SubInv'
  BY <1>2, OnRenewalPaidInv
<1>3. CASE \/ \E p \in Products, c \in Cycles : SchedulePlan(p, c) \/ ChangePlanNow(p, c)
           \/ CancelNow \/ CancelAtPeriodEnd \/ Pause \/ Resume \/ TriggerTrialEnded
           \/ \E n \in 1..Horizon : ExtendTrial(n)
  BY <1>3, ServiceInv
<1>4. CASE ExpireToPastDue \/ DowngradeOnGraceExpiry
  BY <1>4, CronsInv
<1>5. CASE \/ Renew \/ IssueRenewalInvoice \/ ResendRenewedWebhook \/ ListExpired \/ ListExpiredGrace \/ Tick
           \/ UNCHANGED subVars
  BY <1>5, RestInv
<1>6. QED
  BY <1>1, <1>2, <1>3, <1>4, <1>5 DEF SubNext, Request, Crons

(* How the row of a subscription changes: by a sound outcome, or not at all. *)
LEMMA RowChanges ==
  ASSUME SubInv, Existing, [SubNext]_subVars
  PROVE  UNCHANGED sub \/ \E r : Sound(r) /\ sub' = r.next
<1>1. Loaded \in Products
  BY LoadedIsAProduct
<1>2. ASSUME NEW result, \A r \in result : Sound(r),
             RunLifecycleTransition(result) \/ \E status : CronTransition(status, result)
      PROVE  UNCHANGED sub \/ \E r : Sound(r) /\ sub' = r.next
  BY <1>2 DEF RunLifecycleTransition, CronTransition, Commit
<1>3. ASSUME NEW p \in Products, NEW c \in Cycles, SchedulePlan(p, c)
      PROVE  UNCHANGED sub \/ \E r : Sound(r) /\ sub' = r.next
  BY <1>2, <1>3, PlanScheduleSound DEF SchedulePlan
<1>4. ASSUME NEW p \in Products, NEW c \in Cycles, ChangePlanNow(p, c)
      PROVE  UNCHANGED sub \/ \E r : Sound(r) /\ sub' = r.next
  BY <1>2, <1>4, PlanChangeSound DEF ChangePlanNow
<1>5. CASE CancelNow
  BY <1>1, <1>2, <1>5, CancelNowSound DEF CancelNow, Current
<1>6. CASE CancelAtPeriodEnd
  BY <1>1, <1>2, <1>6, CancelAtPeriodEndSound DEF CancelAtPeriodEnd, Current
<1>7. CASE Pause
  BY <1>1, <1>2, <1>7, PauseSound DEF Pause, Current
<1>8. CASE Resume
  BY <1>1, <1>2, <1>8, ResumeSound DEF Resume, Current
<1>9. ASSUME NEW n \in 1..Horizon, ExtendTrial(n)
      PROVE  UNCHANGED sub \/ \E r : Sound(r) /\ sub' = r.next
  <2>1. n \in Nat
    BY SubscriptionsAssumption, SMT
  <2>2. QED
    BY <1>1, <1>2, <1>9, <2>1, TrialExtendSound DEF ExtendTrial, Current
<1>10. CASE TriggerTrialEnded
  BY <1>1, <1>2, <1>10, TrialEndedSound DEF TriggerTrialEnded, Current
<1>11. CASE ExpireToPastDue
  BY <1>1, <1>2, <1>11, PeriodEndedUnpaidSound DEF ExpireToPastDue, Current
<1>12. CASE DowngradeOnGraceExpiry
  BY <1>1, <1>2, <1>12, GraceExpiredSound DEF DowngradeOnGraceExpiry, Current
<1>13. ASSUME NEW i \in 1..MaxOpen, OnRenewalPaid(i)
       PROVE  UNCHANGED sub \/ \E r : Sound(r) /\ sub' = r.next
  <2>1. UNCHANGED sub \/ \E r \in ApplyPaid(Current) : sub' = r.next
    BY <1>13 DEF OnRenewalPaid, Commit
  <2>2. QED
    BY <1>1, <2>1, PaidSound DEF Current
<1>14. CASE \/ Renew \/ IssueRenewalInvoice \/ ResendRenewedWebhook \/ ListExpired \/ ListExpiredGrace \/ Tick
            \/ UNCHANGED subVars
  BY <1>14 DEF Renew, IssueRenewalInvoice, ResendRenewedWebhook, ListExpired, ListExpiredGrace, Tick, subVars
<1>15. ASSUME NEW p \in Products, NEW c \in Cycles PROVE ~Create(p, c)
  BY DEF Create, Existing
<1>16. QED
  BY <1>3, <1>4, <1>5, <1>6, <1>7, <1>8, <1>9, <1>10, <1>11, <1>12, <1>13, <1>14, <1>15
     DEF SubNext, Request, Crons

(* Every reachable state is typed. *)
THEOREM SubTypeCorrect == SubSpec => []SubTypeOK
BY SubInitInv, SubStepInv, PTL DEF SubSpec, SubInv

(* Whatever the order of payments, lapses, cancellations and changes of plan, an    *)
(* active subscription was paid, and one in good standing has no mark of a lapse.    *)
THEOREM GoodStandingHolds == SubSpec => []GoodStanding
<1>1. SubInv => GoodStanding
  BY DEF SubInv, GoodStanding, ActiveWasPaid, GoodStandingIsClean, Clean, Existing
<1>2. QED
  BY <1>1, SubInitInv, SubStepInv, PTL DEF SubSpec

(* No transition's event is deduplicated against that of another. *)
THEOREM KeysAreNew == SubSpec => []NothingDeduplicated
<1>1. SubInv => NothingDeduplicated
  BY DEF SubInv, NothingDeduplicated
<1>2. QED
  BY <1>1, SubInitInv, SubStepInv, PTL DEF SubSpec

(* Periods follow each other without gap or overlap. *)
THEOREM PeriodsFollow == SubSpec => PeriodsAreContiguous
<1>1. SubInv /\ [SubNext]_subVars =>
        [sub.status # "none" =>
           \/ sub'.start = sub.start /\ sub'.end >= sub.end
           \/ sub'.start = sub.end /\ sub'.end = sub.end + CycleLength[sub'.cycle]]_sub
  <2> SUFFICES ASSUME SubInv, [SubNext]_subVars, sub.status # "none", sub' # sub
               PROVE  \/ sub'.start = sub.start /\ sub'.end >= sub.end
                      \/ sub'.start = sub.end /\ sub'.end = sub.end + CycleLength[sub'.cycle]
    OBVIOUS
  <2>1. PICK r : Sound(r) /\ sub' = r.next
    BY RowChanges DEF Existing
  <2>2. QED
    BY <2>1 DEF Sound, Continues
<1>2. QED
  BY <1>1, SubInitInv, SubStepInv, PTL DEF SubSpec, PeriodsAreContiguous

(* A canceled subscription stays as it is, whatever is paid or listed too late. *)
THEOREM CanceledForGood == SubSpec => CanceledIsFinal
<1>1. SubInv /\ [SubNext]_subVars => [sub.status = "canceled" => sub' = sub]_sub
  BY RowChanges DEF Existing, Sound
<1>2. QED
  BY <1>1, SubInitInv, SubStepInv, PTL DEF SubSpec, CanceledIsFinal

(* A payment of an invoice that bills what would be billed now grants that. *)
LEMMA GrantOfTheBill ==
  ASSUME SubInv, [SubNext]_subVars, NEW i \in 1..MaxOpen,
         bills[i] # NoValue, bills'[i] = NoValue, sub' # sub, bills[i] = Billed(sub)
  PROVE  /\ sub'.product = bills[i].product /\ sub'.cycle = bills[i].cycle
         /\ sub'.start = bills[i].start /\ sub'.end = bills[i].end
<1>1. bills' # bills
  OBVIOUS
<1>2. ~IssueRenewalInvoice
  BY DEF IssueRenewalInvoice
<1>3. PICK j \in 1..MaxOpen : OnRenewalPaid(j)
  BY <1>1, <1>2 DEF SubNext, Request, Crons, subVars, subHistory, Create, SchedulePlan, ChangePlanNow, Renew,
     CancelNow, CancelAtPeriodEnd, ResendRenewedWebhook, Pause, Resume, TriggerTrialEnded, ExtendTrial,
     RunLifecycleTransition, ListExpired, ListExpiredGrace, ExpireToPastDue, DowngradeOnGraceExpiry,
     CronTransition, Tick
<1> DEFINE s == Current
<1>4. Existing /\ Loaded \in Products
  BY <1>3, LoadedIsAProduct DEF OnRenewalPaid, SubInv
<1>5. /\ s \in SubscriptionRow /\ s.product = Loaded /\ s.status = sub.status /\ s.cycle = sub.cycle
      /\ s.start = sub.start /\ s.end = sub.end /\ s.nextProduct = sub.nextProduct /\ s.nextCycle = sub.nextCycle
  BY <1>4, Handed, Zenon DEF Current
<1>6. PICK r \in ApplyPaid(s) : sub' = r.next
  BY <1>3 DEF OnRenewalPaid, Commit
<1> HIDE DEF s
<1>7. r.next = PaidRow(s)
  BY <1>6, SMT DEF ApplyPaid, Ok, Err
<1>8. EffectiveProduct(s) \in Products /\ EffectiveCycle(s) \in Cycles
  BY <1>4, <1>5, RowFields, SubscriptionsAssumption, SMT
     DEF EffectiveProduct, EffectiveCycle, SubInv, WellFormed
<1>9. PaidStart(s) \in Nat /\ PaidEnd(s) \in Nat
  <2>1. CycleLength[EffectiveCycle(s)] \in Nat
    BY <1>8, SubscriptionsAssumption
  <2>2. QED
    BY <1>5, <2>1, RowFields, SMT DEF PaidStart, PaidEnd, ComputePeriodEnd
<1>10. /\ sub'.product = EffectiveProduct(s) /\ sub'.cycle = EffectiveCycle(s)
       /\ sub'.start = PaidStart(s) /\ sub'.end = PaidEnd(s)
  BY <1>5, <1>6, <1>7, <1>8, <1>9, Paid, Zenon
<1>11. /\ Billed(sub).product = EffectiveProduct(s) /\ Billed(sub).cycle = EffectiveCycle(s)
       /\ Billed(sub).start = PaidStart(s) /\ Billed(sub).end = PaidEnd(s)
  BY <1>5, SMT DEF Billed, Loaded, EffectiveProduct, EffectiveCycle, PaidStart, PaidEnd, ComputePeriodEnd
<1>12. QED
  BY <1>10, <1>11

(* The plan and the period a renewal bills are those a payment grants. *)
THEOREM GrantsWhatIsBilled == SubSpec => BilledIsGranted
<1>1. SubInv /\ [SubNext]_subVars =>
        [\A i \in 1..MaxOpen :
           bills[i] # NoValue /\ bills'[i] = NoValue /\ sub' # sub /\ bills[i] = Billed(sub) =>
             /\ sub'.product = bills[i].product /\ sub'.cycle = bills[i].cycle
             /\ sub'.start = bills[i].start /\ sub'.end = bills[i].end]_subVars
  BY GrantOfTheBill
<1>2. QED
  BY <1>1, SubInitInv, SubStepInv, PTL DEF SubSpec, BilledIsGranted

-----------------------------------------------------------------------------
(* The renewal reminders *)

(***************************************************************************)
(* A run appends what it listed on the day it lists it, so an event and its    *)
(* delivery key say the same thing: the days left, and the day they are       *)
(* counted from.  That is why a key that is taken is taken by the same event.   *)
(***************************************************************************)
KeyOf(e) == <<e.days, e.ends - e.days>>

RunsAreOfToday ==
  \A f \in Replicas : running[f] # Idling /\ running[f].step = "dispatch" =>
    running[f].ends = today + ReminderDays[running[f].k]

ToldByKey == \A e \in ReminderEvent : e \in told <=> KeyOf(e) \in reminderKeys

Redone(e) == IF e \in redelivered THEN 1 ELSE 0

MailsAreCounted ==
  \A e \in ReminderEvent :
    /\ mails[e] <= 1 + Redone(e)
    /\ e \in due => mails[e] <= Redone(e)
    /\ e \notin told => mails[e] = 0

EndsFollowPayments == standing.ends = PeriodDays * (standing.renewals + 1)

ReminderInv == RemindersTypeOK /\ RunsAreOfToday /\ ToldByKey /\ MailsAreCounted /\ EndsFollowPayments

LEMMA ReminderDaysAre ==
  /\ DOMAIN ReminderDays = 1..3 /\ Len(ReminderDays) = 3
  /\ \A k \in 1..3 : ReminderDays[k] \in Days /\ ReminderDays[k] \in Nat \ {0}
  /\ Days \subseteq Nat
<1>1. ReminderDays[1] = 7 /\ ReminderDays[2] = 3 /\ ReminderDays[3] = 1 /\ DOMAIN ReminderDays = 1..3
      /\ Len(ReminderDays) = 3
  BY DEF ReminderDays
<1> HIDE DEF ReminderDays
<1>2. \A k \in 1..3 : k = 1 \/ k = 2 \/ k = 3
  OBVIOUS
<1> QED
  BY <1>1, <1>2 DEF Days

(* Each period fits before the last end. *)
LEMMA EndsFit ==
  ASSUME NEW r \in 0..MaxRenewals
  PROVE  /\ PeriodDays * (r + 1) \in 0..LastEnd
         /\ PeriodDays * (r + 1) + PeriodDays = PeriodDays * ((r + 1) + 1)
<1>1. PeriodDays \in Nat /\ MaxRenewals \in Nat /\ r \in Nat /\ r <= MaxRenewals
  BY RemindersAssumption
<1>2. \A p, a, b \in Nat : a <= b => p * a <= p * b
  OBVIOUS
<1>3. \A p, a \in Nat : p * a + p = p * (a + 1) /\ p * a \in Nat
  OBVIOUS
<1>4. PeriodDays * (r + 1) <= PeriodDays * (MaxRenewals + 1)
  BY <1>1, <1>2
<1> QED
  BY <1>1, <1>3, <1>4 DEF LastEnd

LEMMA RunParts ==
  ASSUME RemindersTypeOK, NEW f \in Replicas, running[f] # Idling
  PROVE  /\ running[f].k \in 1..3 /\ running[f].step \in {"list", "dispatch"}
         /\ running[f].step = "dispatch" => running[f].ends \in 0..LastEnd
BY DEF RemindersTypeOK, Run

LEMMA NextRun ==
  ASSUME NEW k \in 1..3
  PROVE  NextReminder(k) \in Run \cup {Idling} /\ (NextReminder(k) = Idling \/ NextReminder(k).step = "list")
BY ReminderDaysAre DEF NextReminder, Run

LEMMA RedoneCount ==
  ASSUME NEW e
  PROVE  Cardinality({e} \cap redelivered) = Redone(e)
<1>1. CASE e \in redelivered
  <2>1. {e} \cap redelivered = {e}
    BY <1>1
  <2> QED
    BY <1>1, <2>1, FS_Singleton DEF Redone
<1>2. CASE e \notin redelivered
  <2>1. {e} \cap redelivered = {}
    BY <1>2
  <2> QED
    BY <1>2, <2>1, FS_EmptySet DEF Redone
<1> QED
  BY <1>1, <1>2

LEMMA ReminderInitially == RemindersInit => ReminderInv
<1> SUFFICES ASSUME RemindersInit PROVE ReminderInv
  OBVIOUS
<1>1. 0 \in 0..MaxRenewals /\ 0 \in 0..FinalDay
  BY RemindersAssumption
<1>2. PeriodDays * 1 = PeriodDays
  BY RemindersAssumption
<1>3. PeriodDays \in 0..LastEnd
  <2>1. PeriodDays * (0 + 1) \in 0..LastEnd
    BY <1>1, EndsFit
  <2> QED
    BY <1>2, <2>1
<1>4. RemindersTypeOK
  BY <1>1, <1>3 DEF RemindersInit, RemindersTypeOK
<1>5. RunsAreOfToday /\ ToldByKey /\ MailsAreCounted
  BY DEF RemindersInit, RunsAreOfToday, ToldByKey, MailsAreCounted, Redone
<1>6. EndsFollowPayments
  BY <1>2 DEF RemindersInit, EndsFollowPayments
<1> QED
  BY <1>4, <1>5, <1>6 DEF ReminderInv

(* The cron moves on; its last part is what it appends. *)
LEMMA CronMoves ==
  ASSUME ReminderInv, NEW f \in Replicas, NEW r \in Run \cup {Idling},
         running' = [running EXCEPT ![f] = r],
         r # Idling /\ r.step = "dispatch" => r.ends = today + ReminderDays[r.k],
         UNCHANGED today
  PROVE  running' \in [Replicas -> Run \cup {Idling}] /\ RunsAreOfToday'
<1>1. running \in [Replicas -> Run \cup {Idling}]
  BY DEF ReminderInv, RemindersTypeOK
<1> QED
  BY <1>1 DEF ReminderInv, RunsAreOfToday

LEMMA CronKeeps ==
  ASSUME ReminderInv, NEW f \in Replicas, CronFires(f) \/ ListEnding(f)
  PROVE  ReminderInv'
<1>1. UNCHANGED <<today, standing, reminderKeys, due, told, mails, redelivered>> /\ fired' \subseteq Replicas
  BY DEF CronFires, ListEnding, ReminderInv, RemindersTypeOK
<1>2. running' \in [Replicas -> Run \cup {Idling}] /\ RunsAreOfToday'
  <2>1. CASE CronFires(f)
    <3> DEFINE r == [step |-> "list", k |-> 1]
    <3>1. r \in Run /\ r.step = "list"
      BY DEF Run
    <3>2. running' = [running EXCEPT ![f] = r]
      BY <2>1 DEF CronFires
    <3> HIDE DEF r
    <3> QED
      BY <1>1, <3>1, <3>2, CronMoves
  <2>2. CASE ListEnding(f)
    <3> DEFINE k == running[f].k
    <3>1. k \in 1..3
      BY <2>2, RunParts DEF ListEnding, ReminderInv
    <3>2. CASE EndsIn(ReminderDays[k])
      <4> DEFINE r == [step |-> "dispatch", k |-> k, ends |-> standing.ends]
      <4>1. r \in Run /\ r.ends = standing.ends /\ r.k = k
        BY <3>1 DEF Run, ReminderInv, RemindersTypeOK
      <4>2. running' = [running EXCEPT ![f] = r]
        BY <2>2, <3>2 DEF ListEnding
      <4> HIDE DEF r
      <4>3. r.ends = today + ReminderDays[r.k]
        BY <3>2, <4>1 DEF EndsIn
      <4> QED
        BY <1>1, <4>1, <4>2, <4>3, CronMoves
    <3>3. CASE ~EndsIn(ReminderDays[k])
      <4>1. running' = [running EXCEPT ![f] = NextReminder(k)]
        BY <2>2, <3>3 DEF ListEnding
      <4> QED
        BY <1>1, <3>1, <4>1, NextRun, CronMoves
    <3> QED
      BY <3>2, <3>3
  <2> QED
    BY <2>1, <2>2
<1>3. (ToldByKey /\ MailsAreCounted /\ EndsFollowPayments)'
  BY <1>1 DEF ReminderInv, ToldByKey, MailsAreCounted, EndsFollowPayments, Redone
<1> QED
  BY <1>1, <1>2, <1>3 DEF ReminderInv, RemindersTypeOK

(* An event is appended with the key that says the same. *)
LEMMA DispatchKeeps ==
  ASSUME ReminderInv, NEW f \in Replicas, DispatchRenewalReminder(f)
  PROVE  ReminderInv'
<1> DEFINE k == running[f].k
           e == [days |-> ReminderDays[k], ends |-> running[f].ends]
<1>1. /\ UNCHANGED <<today, standing, fired, mails, redelivered>>
      /\ running[f] # Idling /\ running[f].step = "dispatch"
      /\ running' = [running EXCEPT ![f] = NextReminder(k)]
  BY DEF DispatchRenewalReminder
<1>2. k \in 1..3 /\ running[f].ends \in 0..LastEnd /\ running[f].ends = today + ReminderDays[k]
  BY <1>1, RunParts DEF ReminderInv, RunsAreOfToday
<1>3. running' \in [Replicas -> Run \cup {Idling}] /\ RunsAreOfToday'
  BY <1>1, <1>2, NextRun, CronMoves
<1>4. /\ e \in ReminderEvent /\ e.days = ReminderDays[k] /\ e.ends = today + e.days
      /\ e.days \in Days /\ e.days \in Nat
  BY <1>2, ReminderDaysAre DEF ReminderEvent
<1>5. (RemindersTypeOK /\ ToldByKey /\ MailsAreCounted)'
  <2>1. CASE AppendReminder(e)
    <3> HIDE DEF e
    <3>1. today \in 0..FinalDay /\ ReminderKey(e.days) = <<e.days, today>> /\ KeyOf(e) = <<e.days, today>>
      BY <1>4, RemindersAssumption DEF ReminderInv, RemindersTypeOK, ReminderKey, KeyOf
    <3>2. reminderKeys' = reminderKeys \cup {<<e.days, today>>}
      BY <2>1, <3>1 DEF AppendReminder
    <3>3. CASE <<e.days, today>> \in reminderKeys
      <4>1. UNCHANGED <<reminderKeys, due, told>>
        BY <2>1, <3>1, <3>2, <3>3 DEF AppendReminder
      <4> QED
        BY <1>1, <1>3, <4>1 DEF ReminderInv, RemindersTypeOK, ToldByKey, MailsAreCounted, Redone
    <3>4. CASE <<e.days, today>> \notin reminderKeys
      <4>1. due' = due \cup {e} /\ told' = told \cup {e}
        BY <2>1, <3>1, <3>4 DEF AppendReminder
      <4>2. RemindersTypeOK'
        BY <1>1, <1>3, <1>4, <3>1, <3>2, <4>1 DEF ReminderInv, RemindersTypeOK
      <4>3. ASSUME NEW g \in ReminderEvent
            PROVE  KeyOf(g) = <<e.days, today>> <=> g = e
        <5>1. g.days \in Nat /\ g.ends \in Nat /\ today \in Nat /\ e.ends \in Nat
          <6>1. g.days \in Days /\ g.ends \in 0..LastEnd /\ e.ends \in 0..LastEnd
            BY <1>4 DEF ReminderEvent
          <6>2. today \in 0..FinalDay
            BY DEF ReminderInv, RemindersTypeOK
          <6>3. g.days \in Nat
            BY <6>1, ReminderDaysAre
          <6> QED
            BY <6>1, <6>2, <6>3
        <5>2. KeyOf(g) = <<e.days, today>> => g.days = e.days /\ g.ends = e.ends
          BY <1>4, <5>1 DEF KeyOf
        <5> QED
          BY <1>4, <3>1, <5>2 DEF ReminderEvent
      <4>4. ToldByKey'
        BY <3>2, <4>1, <4>3 DEF ReminderInv, ToldByKey, KeyOf
      <4>5. e \notin told
        BY <1>4, <3>1, <3>4 DEF ReminderInv, ToldByKey
      <4>6. MailsAreCounted'
        BY <1>1, <4>1, <4>5 DEF ReminderInv, MailsAreCounted, Redone
      <4> QED
        BY <4>2, <4>4, <4>6
    <3> QED
      BY <3>3, <3>4
  <2>2. CASE UNCHANGED <<reminderKeys, due, told>>
    BY <1>1, <1>3, <2>2 DEF ReminderInv, RemindersTypeOK, ToldByKey, MailsAreCounted, Redone
  <2> QED
    BY <2>1, <2>2 DEF DispatchRenewalReminder
<1> QED
  BY <1>1, <1>3, <1>5 DEF ReminderInv, EndsFollowPayments

LEMMA MailKeeps ==
  ASSUME ReminderInv, NEW e \in ReminderEvent,
         SendReminderAgain(e) \/ \E hasEmail \in BOOLEAN : SendReminder(e, hasEmail)
  PROVE  ReminderInv'
<1>1. /\ UNCHANGED <<today, standing, fired, running, reminderKeys, told>> /\ e \in due
      /\ \/ due' = due \ {e} /\ redelivered' = redelivered
         \/ due' = due /\ redelivered' = redelivered \cup {e} /\ e \notin redelivered
                    /\ mails' = [mails EXCEPT ![e] = @ + 1]
      /\ mails' = mails \/ mails' = [mails EXCEPT ![e] = @ + 1]
  BY DEF SendReminderAgain, SendReminder
<1>2. mails \in [ReminderEvent -> Nat] /\ due \subseteq told /\ told \subseteq ReminderEvent /\ redelivered \subseteq ReminderEvent
  BY DEF ReminderInv, RemindersTypeOK
<1>3. RemindersTypeOK' /\ (RunsAreOfToday /\ ToldByKey /\ EndsFollowPayments)'
  BY <1>1, <1>2 DEF ReminderInv, RemindersTypeOK, RunsAreOfToday, ToldByKey, EndsFollowPayments
<1>4. ASSUME NEW g \in ReminderEvent
      PROVE  /\ mails'[g] <= 1 + Redone(g)'
             /\ g \in due' => mails'[g] <= Redone(g)'
             /\ g \notin told' => mails'[g] = 0
  <2>1. /\ mails[g] <= 1 + Redone(g) /\ (g \in due => mails[g] <= Redone(g)) /\ (g \notin told => mails[g] = 0)
        /\ mails[g] \in Nat
    BY <1>2 DEF ReminderInv, MailsAreCounted
  <2>2. CASE g # e
    <3>1. mails'[g] = mails[g] /\ Redone(g)' = Redone(g) /\ (g \in due' => g \in due)
      BY <1>1, <1>2, <2>2 DEF Redone
    <3> QED
      BY <1>1, <2>1, <3>1
  <2>3. CASE g = e
    <3>1. mails[g] <= Redone(g) /\ g \in told
      BY <1>1, <1>2, <2>1, <2>3
    <3>2. CASE due' = due \ {e} /\ redelivered' = redelivered
      <4>1. mails'[g] \in {mails[g], mails[g] + 1} /\ Redone(g)' = Redone(g) /\ g \notin due'
        BY <1>1, <1>2, <2>3, <3>2 DEF Redone
      <4> QED
        BY <1>1, <2>1, <3>1, <4>1 DEF Redone
    <3>3. CASE redelivered' = redelivered \cup {e} /\ e \notin redelivered /\ mails' = [mails EXCEPT ![e] = @ + 1]
      <4>1. mails'[g] = mails[g] + 1 /\ Redone(g)' = 1 /\ Redone(g) = 0
        BY <1>2, <2>3, <3>3 DEF Redone
      <4> QED
        BY <1>1, <2>1, <3>1, <4>1
    <3> QED
      BY <1>1, <3>2, <3>3
  <2> QED
    BY <2>2, <2>3
<1>5. MailsAreCounted'
  BY <1>4 DEF MailsAreCounted
<1> QED
  BY <1>3, <1>5 DEF ReminderInv

LEMMA StandingKeeps ==
  ASSUME ReminderInv, RenewStanding \/ StandingToggles \/ Tomorrow
  PROVE  ReminderInv'
<1>1. UNCHANGED <<running, reminderKeys, due, told, mails, redelivered>>
  BY DEF RenewStanding, StandingToggles, Tomorrow
<1>2. standing \in [active : BOOLEAN, ends : 0..LastEnd, renewals : 0..MaxRenewals]
  BY DEF ReminderInv, RemindersTypeOK
<1>3. /\ today' \in 0..FinalDay /\ fired' \subseteq Replicas
      /\ standing' \in [active : BOOLEAN, ends : 0..LastEnd, renewals : 0..MaxRenewals] /\ EndsFollowPayments'
  <2>1. CASE RenewStanding
    <3> DEFINE ends == standing.ends + PeriodDays  paid == standing.renewals + 1
    <3>1. paid \in 0..MaxRenewals
      BY <1>2, <2>1, RemindersAssumption DEF RenewStanding
    <3>2. ends \in 0..LastEnd /\ ends = PeriodDays * (paid + 1)
      <4>1. PeriodDays * (paid + 1) \in 0..LastEnd
        BY <3>1, EndsFit
      <4>2. ends = PeriodDays * (paid + 1)
        BY <1>2, EndsFit DEF ReminderInv, EndsFollowPayments
      <4> QED
        BY <4>1, <4>2
    <3>3. standing' = [standing EXCEPT !.ends = ends, !.renewals = paid]
      BY <2>1 DEF RenewStanding
    <3> HIDE DEF ends, paid
    <3>4. standing' = [active |-> standing.active, ends |-> ends, renewals |-> paid]
      BY <1>2, <3>3
    <3>5. standing' \in [active : BOOLEAN, ends : 0..LastEnd, renewals : 0..MaxRenewals] /\ EndsFollowPayments'
      BY <1>2, <3>1, <3>2, <3>4 DEF EndsFollowPayments
    <3> QED
      BY <2>1, <3>5 DEF RenewStanding, ReminderInv, RemindersTypeOK
  <2>2. CASE StandingToggles
    BY <1>2, <2>2 DEF StandingToggles, ReminderInv, RemindersTypeOK, EndsFollowPayments
  <2>3. CASE Tomorrow
    BY <1>2, <2>3, RemindersAssumption DEF Tomorrow, ReminderInv, RemindersTypeOK, EndsFollowPayments
  <2> QED
    BY <2>1, <2>2, <2>3
<1>4. RunsAreOfToday'
  BY <1>1 DEF ReminderInv, RunsAreOfToday, RenewStanding, StandingToggles, Tomorrow
<1>5. (ToldByKey /\ MailsAreCounted)'
  BY <1>1 DEF ReminderInv, ToldByKey, MailsAreCounted, Redone
<1> QED
  BY <1>1, <1>3, <1>4, <1>5 DEF ReminderInv, RemindersTypeOK

LEMMA ReminderStep == ReminderInv /\ [RemindersNext]_reminderVars => ReminderInv'
<1> SUFFICES ASSUME ReminderInv, [RemindersNext]_reminderVars PROVE ReminderInv'
  OBVIOUS
<1>1. CASE UNCHANGED reminderVars
  BY <1>1 DEF reminderVars, ReminderInv, RemindersTypeOK, RunsAreOfToday, ToldByKey, MailsAreCounted, Redone,
     EndsFollowPayments
<1> QED
  BY <1>1, CronKeeps, DispatchKeeps, MailKeeps, StandingKeeps DEF RemindersNext

LEMMA ReminderInvariance == RemindersSpec => []ReminderInv
BY ReminderInitially, ReminderStep, PTL DEF RemindersSpec

(* The clock, the standing, the runs and the events keep their types. *)
THEOREM RemindersTypes == RemindersSpec => []RemindersTypeOK
<1>1. ReminderInv => RemindersTypeOK
  BY DEF ReminderInv
<1> QED
  BY <1>1, ReminderInvariance, PTL

(* However many replicas fire on a day, a reminder is mailed once but for what the    *)
(* outbox delivers again, and none is dropped for the key of another.                   *)
THEOREM RemindedExactly == RemindersSpec => []RemindersAreExact
<1>1. ReminderInv => RemindedOnce
  BY RedoneCount DEF ReminderInv, MailsAreCounted, RemindedOnce
<1>2. ReminderInv => NoReminderIsSwallowed
  <2> SUFFICES ASSUME ReminderInv, NEW f \in Replicas, running[f] # Idling, running[f].step = "dispatch",
                      ReminderKey(ReminderDays[running[f].k]) \in reminderKeys
               PROVE  [days |-> ReminderDays[running[f].k], ends |-> running[f].ends] \in told
    BY DEF NoReminderIsSwallowed
  <2> DEFINE e == [days |-> ReminderDays[running[f].k], ends |-> running[f].ends]
  <2>1. /\ running[f].k \in 1..3 /\ running[f].ends \in 0..LastEnd
        /\ running[f].ends = today + ReminderDays[running[f].k] /\ today \in 0..FinalDay
    BY RunParts DEF ReminderInv, RunsAreOfToday, RemindersTypeOK
  <2>2. e \in ReminderEvent /\ ReminderDays[running[f].k] \in Nat
    BY <2>1, ReminderDaysAre DEF ReminderEvent
  <2>3. KeyOf(e) = ReminderKey(ReminderDays[running[f].k])
    BY <2>1, <2>2, RemindersAssumption DEF KeyOf, ReminderKey
  <2> QED
    BY <2>2, <2>3 DEF ReminderInv, ToldByKey
<1> QED
  BY <1>1, <1>2, ReminderInvariance, PTL DEF RemindersAreExact

-----------------------------------------------------------------------------
(* The calendar of the periods *)

(***************************************************************************)
(* What a date counts for does not change when a month that has not so many     *)
(* days hands the rest to the next one, so a month further is as many days as    *)
(* the month has.  A date that moves that way moves to the third at most, which    *)
(* every month has: it does not move again.                                         *)
(***************************************************************************)
YearLengths == [k \in Nat |-> DaysOfYear(1969 + k)]
MonthLengths(y) == [mo \in 1..12 |-> DaysIn(y, mo)]
Before(y, mo) == SumUpTo(YearLengths, y - 1970) + SumUpTo(MonthLengths(y), mo - 1)

Years == {y \in Nat : y >= 1970}
CalendarDate == {date \in [y : Years, mo : 1..12, d : 1..31] : IsDate(date)}

DayFits(d) == d = created \/ (created > 28 /\ d <= 3)

CalendarInv ==
  period # NoPeriod =>
    /\ period.from \in CalendarDate /\ period.to \in CalendarDate
    /\ period.cycle \in BillingCycles
    /\ period.to = AddCycle(period.from, period.cycle)
    /\ DayFits(period.from.d) /\ DayFits(period.to.d)

LEMMA MonthDays ==
  ASSUME NEW y, NEW mo \in 1..12
  PROVE  DaysIn(y, mo) \in 28..31
BY DEF DaysIn

LEMMA FebruaryDays == \A y : /\ DaysIn(y, 2) = IF IsLeap(y) THEN 29 ELSE 28
                             /\ DaysOfYear(y) = IF IsLeap(y) THEN 366 ELSE 365
BY DEF DaysIn, DaysOfYear

(* The days of the months before each, in a year with a February of so many. *)
LEMMA MonthsAddUp ==
  ASSUME NEW y
  PROVE  LET sum(mo) == SumUpTo(MonthLengths(y), mo)  february == DaysIn(y, 2)
         IN  /\ sum(0) = 0 /\ sum(1) = 31 /\ sum(2) = 31 + february /\ sum(3) = 62 + february
             /\ sum(4) = 92 + february /\ sum(5) = 123 + february /\ sum(6) = 153 + february
             /\ sum(7) = 184 + february /\ sum(8) = 215 + february /\ sum(9) = 245 + february
             /\ sum(10) = 276 + february /\ sum(11) = 306 + february /\ sum(12) = 337 + february
<1> DEFINE sum(mo) == SumUpTo(MonthLengths(y), mo)
<1>1. sum(0) = 0
  BY SumZero
<1>2. ASSUME NEW mo \in 0..11 PROVE sum(mo + 1) = sum(mo) + DaysIn(y, mo + 1)
  <2>1. sum(mo + 1) = sum(mo) + MonthLengths(y)[mo + 1]
    BY SumNext
  <2> QED
    BY <2>1 DEF MonthLengths
<1>3. /\ DaysIn(y, 1) = 31 /\ DaysIn(y, 3) = 31 /\ DaysIn(y, 4) = 30 /\ DaysIn(y, 5) = 31
      /\ DaysIn(y, 6) = 30 /\ DaysIn(y, 7) = 31 /\ DaysIn(y, 8) = 31 /\ DaysIn(y, 9) = 30
      /\ DaysIn(y, 10) = 31 /\ DaysIn(y, 11) = 30 /\ DaysIn(y, 12) = 31 /\ DaysIn(y, 2) \in 28..31
  BY MonthDays DEF DaysIn
<1> HIDE DEF sum
<1>4. /\ sum(0 + 1) = sum(0) + DaysIn(y, 0 + 1) /\ sum(1 + 1) = sum(1) + DaysIn(y, 1 + 1)
      /\ sum(2 + 1) = sum(2) + DaysIn(y, 2 + 1) /\ sum(3 + 1) = sum(3) + DaysIn(y, 3 + 1)
      /\ sum(4 + 1) = sum(4) + DaysIn(y, 4 + 1) /\ sum(5 + 1) = sum(5) + DaysIn(y, 5 + 1)
      /\ sum(6 + 1) = sum(6) + DaysIn(y, 6 + 1) /\ sum(7 + 1) = sum(7) + DaysIn(y, 7 + 1)
      /\ sum(8 + 1) = sum(8) + DaysIn(y, 8 + 1) /\ sum(9 + 1) = sum(9) + DaysIn(y, 9 + 1)
      /\ sum(10 + 1) = sum(10) + DaysIn(y, 10 + 1) /\ sum(11 + 1) = sum(11) + DaysIn(y, 11 + 1)
  BY <1>2
<1>5. /\ sum(0) = 0 /\ sum(1) = 31 /\ sum(2) = 31 + DaysIn(y, 2) /\ sum(3) = 62 + DaysIn(y, 2)
      /\ sum(4) = 92 + DaysIn(y, 2) /\ sum(5) = 123 + DaysIn(y, 2) /\ sum(6) = 153 + DaysIn(y, 2)
      /\ sum(7) = 184 + DaysIn(y, 2) /\ sum(8) = 215 + DaysIn(y, 2) /\ sum(9) = 245 + DaysIn(y, 2)
      /\ sum(10) = 276 + DaysIn(y, 2) /\ sum(11) = 306 + DaysIn(y, 2) /\ sum(12) = 337 + DaysIn(y, 2)
  BY <1>1, <1>3, <1>4
<1> QED
  BY <1>5 DEF sum

LEMMA BeforeIsInt ==
  ASSUME NEW y \in Years, NEW mo \in 1..12
  PROVE  Before(y, mo) \in Int
<1>1. y - 1970 \in Nat /\ mo - 1 \in Nat
  BY DEF Years
<1>2. \A k \in 1..(y - 1970) : YearLengths[k] \in Nat
  BY DEF YearLengths, DaysOfYear
<1>3. \A k \in 1..(mo - 1) : MonthLengths(y)[k] \in Nat
  BY MonthDays DEF MonthLengths
<1>4. SumUpTo(YearLengths, y - 1970) \in Nat
  BY <1>1, <1>2, SumIsNat
<1>5. SumUpTo(MonthLengths(y), mo - 1) \in Nat
  BY <1>1, <1>3, SumIsNat
<1> QED
  BY <1>4, <1>5 DEF Before

(* A month further, and a year. *)
LEMMA MonthFurther ==
  ASSUME NEW y \in Years, NEW mo \in 1..11
  PROVE  Before(y, mo + 1) = Before(y, mo) + DaysIn(y, mo)
<1>1. SumUpTo(MonthLengths(y), (mo - 1) + 1) = SumUpTo(MonthLengths(y), mo - 1) + MonthLengths(y)[(mo - 1) + 1]
  <2>1. mo - 1 \in Nat
    OBVIOUS
  <2> QED
    BY <2>1, SumNext
<1>2. MonthLengths(y)[mo] = DaysIn(y, mo) /\ (mo - 1) + 1 = mo /\ (mo + 1) - 1 = mo /\ mo \in 1..12
  BY DEF MonthLengths
<1>3. \A k \in 1..mo : MonthLengths(y)[k] \in Nat
  BY <1>2, MonthDays DEF MonthLengths
<1>4. y - 1970 \in Nat /\ \A k \in 1..(y - 1970) : YearLengths[k] \in Nat
  BY DEF Years, YearLengths, DaysOfYear
<1>5. SumUpTo(YearLengths, y - 1970) \in Nat
  BY <1>4, SumIsNat
<1>6. SumUpTo(MonthLengths(y), mo - 1) \in Nat
  <2>1. mo - 1 \in Nat /\ \A k \in 1..(mo - 1) : MonthLengths(y)[k] \in Nat
    BY <1>3
  <2> QED
    BY <2>1, SumIsNat
<1>7. DaysIn(y, mo) \in Nat
  BY <1>2, MonthDays
<1> QED
  BY <1>1, <1>2, <1>5, <1>6, <1>7 DEF Before

LEMMA YearFurther ==
  ASSUME NEW y \in Years
  PROVE  y + 1 \in Years /\ Before(y + 1, 1) = Before(y, 1) + DaysOfYear(y)
<1>1. SumUpTo(YearLengths, (y - 1970) + 1) = SumUpTo(YearLengths, y - 1970) + YearLengths[(y - 1970) + 1]
  <2>1. y - 1970 \in Nat
    BY DEF Years
  <2> QED
    BY <2>1, SumNext
<1>2. (y - 1970) + 1 = (y + 1) - 1970 /\ (y + 1) - 1970 \in Nat /\ 1969 + ((y + 1) - 1970) = y /\ y + 1 \in Years
  BY DEF Years
<1>3. YearLengths[(y + 1) - 1970] = DaysOfYear(y)
  BY <1>2 DEF YearLengths
<1>4. SumUpTo(MonthLengths(y), 1 - 1) = 0 /\ SumUpTo(MonthLengths(y + 1), 1 - 1) = 0
  BY SumZero
<1>5. y - 1970 \in Nat /\ \A k \in 1..(y - 1970) : YearLengths[k] \in Nat
  BY DEF Years, YearLengths, DaysOfYear
<1>6. SumUpTo(YearLengths, y - 1970) \in Nat
  BY <1>5, SumIsNat
<1>7. DaysOfYear(y) \in Nat
  BY DEF DaysOfYear
<1> QED
  BY <1>1, <1>2, <1>3, <1>4, <1>6, <1>7 DEF Before

(* The days of a year are those of its months. *)
LEMMA TurnOfYear ==
  ASSUME NEW y \in Years
  PROVE  Before(y + 1, 1) = Before(y, 12) + DaysIn(y, 12)
<1> DEFINE years == SumUpTo(YearLengths, y - 1970)
<1>1. SumUpTo(MonthLengths(y), 11) = 306 + DaysIn(y, 2) /\ SumUpTo(MonthLengths(y), 0) = 0
  BY MonthsAddUp
<1>2. DaysIn(y, 12) = 31
  BY DEF DaysIn
<1>3. Before(y, 12) = years + (306 + DaysIn(y, 2)) /\ Before(y, 1) = years + 0
  <2>1. 12 - 1 = 11 /\ 1 - 1 = 0
    OBVIOUS
  <2> QED
    BY <1>1, <2>1 DEF Before
<1>4. Before(y + 1, 1) = Before(y, 1) + DaysOfYear(y)
  BY YearFurther
<1>5. DaysOfYear(y) = 337 + DaysIn(y, 2) /\ DaysIn(y, 2) \in Int
  BY FebruaryDays
<1>6. years \in Int
  <2>1. y - 1970 \in Nat /\ \A k \in 1..(y - 1970) : YearLengths[k] \in Nat
    BY DEF Years, YearLengths, DaysOfYear
  <2> QED
    BY <2>1, SumIsNat
<1> HIDE DEF years
<1> QED
  BY <1>2, <1>3, <1>4, <1>5, <1>6

(* The same month a year later. *)
LEMMA YearsApart ==
  ASSUME NEW y \in Years, NEW mo \in 1..12
  PROVE  Before(y + 1, mo) - Before(y, mo) \in {365, 366}
<1> DEFINE years(z) == SumUpTo(YearLengths, z - 1970)
           months(z) == SumUpTo(MonthLengths(z), mo - 1)
<1>1. y + 1 \in Years /\ Before(y + 1, 1) = Before(y, 1) + DaysOfYear(y)
  BY YearFurther
<1>2. ASSUME NEW z \in Years PROVE Before(z, 1) = years(z) /\ years(z) \in Int
  <2>1. z - 1970 \in Nat /\ \A k \in 1..(z - 1970) : YearLengths[k] \in Nat
    BY DEF Years, YearLengths, DaysOfYear
  <2>2. years(z) \in Int
    BY <2>1, SumIsNat
  <2>3. SumUpTo(MonthLengths(z), 1 - 1) = 0
    BY SumZero
  <2> QED
    BY <2>2, <2>3 DEF Before
<1>3. \A z \in Years : Before(z, mo) = years(z) + months(z)
  BY DEF Before
<1>4. ASSUME NEW z \in Years
      PROVE  /\ months(z) \in Int
             /\ mo <= 2 => months(z) = IF mo = 1 THEN 0 ELSE 31
             /\ mo > 2 => months(z) - DaysIn(z, 2) =
                  (CASE mo = 3 -> 31 [] mo = 4 -> 62 [] mo = 5 -> 92 [] mo = 6 -> 123 [] mo = 7 -> 153
                     [] mo = 8 -> 184 [] mo = 9 -> 215 [] mo = 10 -> 245 [] mo = 11 -> 276 [] mo = 12 -> 306)
  <2>1. DaysIn(z, 2) \in Int
    BY FebruaryDays
  <2>2. mo = 1 \/ mo = 2 \/ mo = 3 \/ mo = 4 \/ mo = 5 \/ mo = 6 \/ mo = 7 \/ mo = 8 \/ mo = 9 \/ mo = 10
        \/ mo = 11 \/ mo = 12
    OBVIOUS
  <2> QED
    BY <2>1, <2>2, MonthsAddUp
<1>5. /\ DaysOfYear(y) = 337 + DaysIn(y, 2) /\ DaysIn(y, 2) \in {28, 29} /\ DaysIn(y + 1, 2) \in {28, 29}
      /\ DaysOfYear(y) \in {365, 366}
  BY FebruaryDays
<1> HIDE DEF years, months
<1>6. CASE mo <= 2
  <2>1. months(y + 1) = months(y) /\ months(y) \in Int
    BY <1>1, <1>4, <1>6
  <2> QED
    BY <1>1, <1>2, <1>3, <1>5, <2>1
<1>7. CASE mo > 2
  <2>1. /\ months(y + 1) - DaysIn(y + 1, 2) = months(y) - DaysIn(y, 2)
        /\ months(y) \in Int /\ months(y + 1) \in Int
    BY <1>1, <1>4, <1>7
  <2> QED
    BY <1>1, <1>2, <1>3, <1>5, <2>1
<1> QED
  BY <1>6, <1>7

(* What setUTCMonth does with a day the month has not. *)
LEMMA NormaliseKeeps ==
  ASSUME NEW y \in Years, NEW mo \in 1..13, NEW d \in 1..31
  PROVE  LET year  == IF mo > 12 THEN y + 1 ELSE y
             month == IF mo > 12 THEN mo - 12 ELSE mo
             date  == Normalise(y, mo, d)
         IN  /\ date \in CalendarDate
             /\ DayNumber(date) = Before(year, month) + d
             /\ date.d = d \/ (d > 28 /\ date.d <= 3)
<1> DEFINE year  == IF mo > 12 THEN y + 1 ELSE y
           month == IF mo > 12 THEN mo - 12 ELSE mo
           over  == d - DaysIn(year, month)
           date  == Normalise(y, mo, d)
<1>1. year \in Years /\ month \in 1..12
  BY YearFurther
<1>2. date = CASE over <= 0 -> [y |-> year, mo |-> month, d |-> d]
               [] over > 0 /\ month < 12 -> [y |-> year, mo |-> month + 1, d |-> over]
               [] over > 0 /\ month = 12 -> [y |-> year + 1, mo |-> 1, d |-> over]
  BY DEF Normalise
<1>3. ASSUME NEW e PROVE DayNumber(e) = Before(e.y, e.mo) + e.d
  BY DEF DayNumber, Before, YearLengths, MonthLengths
<1> HIDE DEF year, month, date
<1>4. DaysIn(year, month) \in 28..31 /\ Before(year, month) \in Int
  BY <1>1, MonthDays, BeforeIsInt
<1>5. CASE over <= 0
  <2>1. date = [y |-> year, mo |-> month, d |-> d]
    BY <1>2, <1>4, <1>5
  <2>2. date \in CalendarDate
    BY <1>1, <1>4, <1>5, <2>1 DEF CalendarDate, IsDate
  <2> QED
    BY <1>3, <2>1, <2>2 DEF date, year, month
<1>6. CASE over > 0 /\ month < 12
  <2>1. date = [y |-> year, mo |-> month + 1, d |-> over]
    BY <1>2, <1>6
  <2>2. month + 1 \in 1..12 /\ over \in 1..3 /\ d > 28 /\ month \in 1..11
    BY <1>1, <1>4, <1>6
  <2>3. DaysIn(year, month + 1) \in 28..31
    BY <2>2, MonthDays
  <2>4. date \in CalendarDate
    BY <1>1, <2>1, <2>2, <2>3 DEF CalendarDate, IsDate
  <2>5. Before(year, month + 1) = Before(year, month) + DaysIn(year, month)
    BY <1>1, <2>2, MonthFurther
  <2>6. DayNumber(date) = Before(year, month + 1) + over
    BY <1>3, <2>1
  <2>7. DayNumber(date) = Before(year, month) + d
    BY <1>4, <2>5, <2>6
  <2> QED
    BY <2>1, <2>2, <2>4, <2>7 DEF date, year, month
<1>7. CASE over > 0 /\ month = 12
  <2>1. date = [y |-> year + 1, mo |-> 1, d |-> over]
    BY <1>2, <1>7
  <2>2. over \in 1..3 /\ d > 28 /\ year + 1 \in Years
    BY <1>1, <1>4, <1>7, YearFurther
  <2>3. DaysIn(year + 1, 1) \in 28..31
    BY MonthDays
  <2>4. date \in CalendarDate
    BY <2>1, <2>2, <2>3 DEF CalendarDate, IsDate
  <2>5. Before(year + 1, 1) = Before(year, month) + DaysIn(year, month)
    BY <1>1, <1>7, TurnOfYear
  <2>6. DayNumber(date) = Before(year + 1, 1) + over
    BY <1>3, <2>1
  <2>7. DayNumber(date) = Before(year, month) + d
    BY <1>4, <2>5, <2>6
  <2> QED
    BY <2>1, <2>2, <2>4, <2>7 DEF date, year, month
<1> QED
  BY <1>1, <1>4, <1>5, <1>6, <1>7

(* A cycle further: a date again, a whole period later, on its day, or on one of the first three. *)
LEMMA CycleFurther ==
  ASSUME NEW date \in CalendarDate, NEW cycle \in BillingCycles
  PROVE  LET to == AddCycle(date, cycle)  length == DayNumber(to) - DayNumber(date)
         IN  /\ to \in CalendarDate
             /\ IF cycle = "monthly" THEN length = DaysIn(date.y, date.mo) ELSE length \in {365, 366}
             /\ to.d = date.d \/ (date.d > 28 /\ to.d <= 3)
<1> DEFINE y == date.y  mo == date.mo  d == date.d  to == AddCycle(date, cycle)
<1>1. y \in Years /\ mo \in 1..12 /\ d \in 1..31
  BY DEF CalendarDate
<1>2. DayNumber(date) = Before(y, mo) + d
  BY DEF DayNumber, Before, YearLengths, MonthLengths
<1>3. Before(y, mo) \in Int /\ DaysIn(y, mo) \in Int
  BY <1>1, BeforeIsInt, MonthDays
<1>4. cycle = "monthly" \/ cycle = "annual"
  BY DEF BillingCycles
<1>5. CASE cycle = "monthly"
  <2>1. to = Normalise(y, mo + 1, d)
    BY <1>5 DEF AddCycle
  <2>2. mo + 1 \in 1..13
    BY <1>1
  <2> HIDE DEF y, mo, d, to
  <2>3. CASE mo = 12
    <3>1. mo + 1 > 12 /\ (mo + 1) - 12 = 1
      BY <2>3
    <3>2. /\ to \in CalendarDate /\ DayNumber(to) = Before(y + 1, 1) + d
          /\ to.d = d \/ (d > 28 /\ to.d <= 3)
      BY <1>1, <2>1, <2>2, <3>1, NormaliseKeeps
    <3>3. Before(y + 1, 1) = Before(y, mo) + DaysIn(y, mo)
      BY <1>1, <2>3, TurnOfYear
    <3>4. DayNumber(to) - DayNumber(date) = DaysIn(y, mo)
      BY <1>1, <1>2, <1>3, <3>2, <3>3
    <3> QED
      BY <1>5, <3>2, <3>4 DEF y, mo, d, to
  <2>4. CASE mo # 12
    <3>1. ~(mo + 1 > 12) /\ mo \in 1..11
      BY <1>1, <2>4
    <3>2. /\ to \in CalendarDate /\ DayNumber(to) = Before(y, mo + 1) + d
          /\ to.d = d \/ (d > 28 /\ to.d <= 3)
      BY <1>1, <2>1, <2>2, <3>1, NormaliseKeeps
    <3>3. Before(y, mo + 1) = Before(y, mo) + DaysIn(y, mo)
      BY <1>1, <3>1, MonthFurther
    <3>4. DayNumber(to) - DayNumber(date) = DaysIn(y, mo)
      BY <1>1, <1>2, <1>3, <3>2, <3>3
    <3> QED
      BY <1>5, <3>2, <3>4 DEF y, mo, d, to
  <2> QED
    BY <2>3, <2>4
<1>6. CASE cycle = "annual"
  <2>1. to = Normalise(y + 1, mo, d)
    BY <1>6 DEF AddCycle
  <2>2. mo \in 1..13 /\ ~(mo > 12) /\ y + 1 \in Years
    BY <1>1, YearFurther
  <2> HIDE DEF y, mo, d, to
  <2>3. /\ to \in CalendarDate /\ DayNumber(to) = Before(y + 1, mo) + d
        /\ to.d = d \/ (d > 28 /\ to.d <= 3)
    BY <1>1, <2>1, <2>2, NormaliseKeeps
  <2>4. Before(y + 1, mo) - Before(y, mo) \in {365, 366} /\ Before(y + 1, mo) \in Int
    BY <1>1, <2>2, YearsApart, BeforeIsInt
  <2>5. DayNumber(to) - DayNumber(date) \in {365, 366}
    BY <1>1, <1>2, <1>3, <2>3, <2>4
  <2> QED
    BY <1>6, <2>3, <2>5 DEF y, mo, d, to
<1> QED
  BY <1>4, <1>5, <1>6

(* A day that was moved is one of the first three, and stays. *)
LEMMA DayStays ==
  ASSUME NEW c, NEW d \in 1..31, NEW e \in 1..31, d = c \/ (c > 28 /\ d <= 3), e = d \/ (d > 28 /\ e <= 3)
  PROVE  e = c \/ (c > 28 /\ e <= 3)
OBVIOUS

LEMMA PeriodKeeps ==
  ASSUME NEW from \in CalendarDate, NEW cycle \in BillingCycles,
         period' = [from |-> from, to |-> AddCycle(from, cycle), cycle |-> cycle],
         from.d = created' \/ (created' > 28 /\ from.d <= 3)
  PROVE  CalendarInv'
<1> DEFINE to == AddCycle(from, cycle)
<1>1. to \in CalendarDate /\ (to.d = from.d \/ (from.d > 28 /\ to.d <= 3))
  BY CycleFurther
<1>2. period'.from = from /\ period'.to = to /\ period'.cycle = cycle
  OBVIOUS
<1>3. from.d \in 1..31 /\ to.d \in 1..31
  BY <1>1 DEF CalendarDate
<1>4. to.d = created' \/ (created' > 28 /\ to.d <= 3)
  BY <1>1, <1>3, DayStays
<1>5. period'.to = AddCycle(period'.from, period'.cycle)
  BY <1>2
<1> HIDE DEF to
<1> QED
  BY <1>1, <1>2, <1>4, <1>5 DEF CalendarInv, DayFits

LEMMA CalendarStep == CalendarInv /\ [CalendarNext]_calendarVars => CalendarInv'
<1> SUFFICES ASSUME CalendarInv, [CalendarNext]_calendarVars PROVE CalendarInv'
  OBVIOUS
<1>1. CASE UNCHANGED calendarVars
  BY <1>1 DEF calendarVars, CalendarInv, DayFits
<1>2. ASSUME NEW cycle \in BillingCycles, NextPeriod(cycle)
      PROVE  CalendarInv'
  <2>1. period.to \in CalendarDate /\ DayFits(period.to.d) /\ created' = created
    BY <1>2 DEF NextPeriod, CalendarInv
  <2>2. period' = [from |-> period.to, to |-> AddCycle(period.to, cycle), cycle |-> cycle]
    BY <1>2 DEF NextPeriod
  <2> QED
    BY <2>1, <2>2, PeriodKeeps DEF DayFits
<1>3. ASSUME NEW cycle \in BillingCycles, NEW y \in FirstYears, NEW mo \in 1..12, NEW d \in 1..DaysIn(y, mo),
             StartPeriod([y |-> y, mo |-> mo, d |-> d], cycle)
      PROVE  CalendarInv'
  <2> DEFINE date == [y |-> y, mo |-> mo, d |-> d]
  <2>1. y \in Years
    BY CalendarAssumption DEF Years
  <2>2. d \in 1..31
    BY MonthDays
  <2>3. date \in CalendarDate /\ date.d = d
    BY <2>1, <2>2 DEF CalendarDate, IsDate
  <2>4. period' = [from |-> date, to |-> AddCycle(date, cycle), cycle |-> cycle] /\ created' = date.d
    BY <1>3 DEF StartPeriod
  <2> HIDE DEF date
  <2> QED
    BY <2>3, <2>4, PeriodKeeps
<1> QED
  BY <1>1, <1>2, <1>3 DEF CalendarNext

LEMMA CalendarInvariance == CalendarSpec => []CalendarInv
<1>1. CalendarInit => CalendarInv
  BY DEF CalendarInit, CalendarInv
<1> QED
  BY <1>1, CalendarStep, PTL DEF CalendarSpec

(* From any day of any year on, for any number of periods: a month is as long as   *)
(* the calendar says and a year too, and the day of the month is kept, or moves once  *)
(* to one of the first three.                                                            *)
THEOREM PeriodsAreKept == CalendarSpec => []PeriodsKeepTheCalendar
<1>1. CalendarInv => PeriodsAreWhole
  <2> SUFFICES ASSUME CalendarInv, period # NoPeriod
               PROVE  /\ IsDate(period.from) /\ IsDate(period.to)
                      /\ LET length == DayNumber(period.to) - DayNumber(period.from)
                         IN  IF period.cycle = "monthly" THEN length = DaysIn(period.from.y, period.from.mo)
                             ELSE length \in {365, 366}
    BY DEF PeriodsAreWhole
  <2>1. /\ period.from \in CalendarDate /\ period.to \in CalendarDate /\ period.cycle \in BillingCycles
        /\ period.to = AddCycle(period.from, period.cycle)
    BY DEF CalendarInv
  <2>2. IsDate(period.from) /\ IsDate(period.to)
    BY <2>1 DEF CalendarDate
  <2> QED
    BY <2>1, <2>2, CycleFurther
<1>2. CalendarInv => BillingDayIsKept
  BY DEF CalendarInv, BillingDayIsKept, DayFits
<1> QED
  BY <1>1, <1>2, CalendarInvariance, PTL DEF PeriodsKeepTheCalendar

-----------------------------------------------------------------------------
(* The components around a payment together: while one runs the others rest. *)

LEMMA BillingIsSix ==
  BillingSpec => SubSpec /\ CalendarSpec /\ RemindersSpec /\ InvoicesSpec /\ CheckoutSpec /\ OutboxSpec
<1>1. BillingInit => /\ SubInit /\ CalendarInit /\ RemindersInit
                     /\ InvoicesInit /\ CheckoutInit /\ OutboxInit
  BY DEF BillingInit
<1>2. BillingNext => /\ [SubNext]_subVars /\ [CalendarNext]_calendarVars /\ [RemindersNext]_reminderVars
                     /\ [InvoicesNext]_invoiceVars /\ [CheckoutNext]_checkoutVars /\ [OutboxNext]_outboxVars
  BY DEF BillingNext
<1>3. UNCHANGED BillingVars =>
        UNCHANGED <<subVars, calendarVars, reminderVars, invoiceVars, checkoutVars, outboxVars>>
  BY DEF BillingVars
<1>4. [BillingNext]_BillingVars =>
        /\ [SubNext]_subVars /\ [CalendarNext]_calendarVars /\ [RemindersNext]_reminderVars
        /\ [InvoicesNext]_invoiceVars /\ [CheckoutNext]_checkoutVars /\ [OutboxNext]_outboxVars
  BY <1>2, <1>3
<1> QED
  BY <1>1, <1>4, PTL DEF BillingSpec, SubSpec, CalendarSpec, RemindersSpec, InvoicesSpec, CheckoutSpec, OutboxSpec

(* The state of every component is typed wherever they run side by side. *)
THEOREM BillingTypes == BillingSpec => []BillingTypeOK
<1> QED
  BY BillingIsSix, SubTypeCorrect, RemindersTypes, TypeCorrect, CheckoutTypes, OutboxTypeCorrect, PTL
     DEF BillingTypeOK
=============================================================================
