----------------------------- MODULE Reminders -----------------------------
(***************************************************************************)
(* The renewal reminders of a subscription: every day at nine the cron of     *)
(* each replica may list the subscriptions that end in 7, 3 or 1 days and      *)
(* append one event for each; the outbox hands the event to the handler that    *)
(* mails the customer.                                                           *)
(*                                                                                *)
(* Two replicas may run the cron on one day, even at the same time (module          *)
(* CronLeader says when).  A run that started on a day ends on it.                   *)
(***************************************************************************)
EXTENDS Integers, Sequences, FiniteSets

CONSTANTS
  Replicas,
  PeriodDays,     \* length of a period
  FinalDay,       \* bound: last day
  MaxRenewals,    \* bound: renewals paid
  MaxRedelivered, \* bound: deliveries the outbox makes again
  Idling          \* a replica whose cron is not running

ASSUME RemindersAssumption ==
  /\ PeriodDays \in Nat \ {0} /\ FinalDay \in Nat
  /\ MaxRenewals \in Nat /\ MaxRedelivered \in Nat

ReminderDays == <<7, 3, 1>>

VARIABLES
  today,        \* the clock, in days
  standing,     \* the subscription: [active, ends, renewals]
  fired,        \* replicas whose cron fired today
  running,      \* running[f]: what the run of replica f does next, or Idling
  reminderKeys, \* delivery keys in the outbox
  due,          \* events the handler was not given yet, or did not answer for
  told,         \* history: events appended
  mails,        \* history: mails[e]: mails the customer got about event e
  redelivered   \* history: events given to the handler once more

reminderVars == <<today, standing, fired, running, reminderKeys, due, told, mails, redelivered>>

-----------------------------------------------------------------------------
Days == {ReminderDays[k] : k \in DOMAIN ReminderDays}
LastEnd == PeriodDays * (MaxRenewals + 1)

(* What an event says. *)
ReminderEvent == [days : Days, ends : 0..LastEnd]

(* Mutation: one key for each kind of reminder. *)
ReminderKeyUndated(days) == <<days, 0>>

(* The key the event is deduplicated by. *)
ReminderKey(days) == <<days, today>>

Run == [step : {"list"}, k : 1..3] \cup [step : {"dispatch"}, k : 1..3, ends : 0..LastEnd]

ASSUME IdlingIsNoRun == Idling \notin Run

-----------------------------------------------------------------------------
(* RenewalReminderCron.handle *)

CronFires(f) ==
  /\ running[f] = Idling /\ f \notin fired
  /\ fired' = fired \cup {f}
  /\ running' = [running EXCEPT ![f] = [step |-> "list", k |-> 1]]
  /\ UNCHANGED <<today, standing, reminderKeys, due, told, mails, redelivered>>

NextReminder(k) == IF k = Len(ReminderDays) THEN Idling ELSE [step |-> "list", k |-> k + 1]

EndsIn(days) == standing.active /\ standing.ends = today + days

(* findEndingBetween, for one of the reminder days. *)
ListEnding(f) ==
  /\ running[f] # Idling /\ running[f].step = "list"
  /\ LET k == running[f].k
     IN  running' = [running EXCEPT ![f] =
           IF EndsIn(ReminderDays[k])
           THEN [step |-> "dispatch", k |-> k, ends |-> standing.ends]
           ELSE NextReminder(k)]
  /\ UNCHANGED <<today, standing, fired, reminderKeys, due, told, mails, redelivered>>

(* append: the delivery key is unique, a second event with it is dropped. *)
AppendReminder(event) ==
  LET key == ReminderKey(event.days)
  IN  /\ reminderKeys' = reminderKeys \cup {key}
      /\ IF key \in reminderKeys THEN UNCHANGED <<due, told>>
         ELSE due' = due \cup {event} /\ told' = told \cup {event}

(* dispatchRenewalReminder, of the subscription as it was listed; a failure to     *)
(* read its product is logged and the subscription let go.                          *)
DispatchRenewalReminder(f) ==
  /\ running[f] # Idling /\ running[f].step = "dispatch"
  /\ \/ AppendReminder([days |-> ReminderDays[running[f].k], ends |-> running[f].ends])
     \/ UNCHANGED <<reminderKeys, due, told>>
  /\ running' = [running EXCEPT ![f] = NextReminder(running[f].k)]
  /\ UNCHANGED <<today, standing, fired, mails, redelivered>>

-----------------------------------------------------------------------------
(* RenewalReminderEmailHandler.handle, given the event by the registry *)

(* A customer without an address is skipped. *)
SendReminder(event, hasEmail) ==
  /\ event \in due
  /\ due' = due \ {event}
  /\ mails' = IF hasEmail THEN [mails EXCEPT ![event] = @ + 1] ELSE mails
  /\ UNCHANGED <<today, standing, fired, running, reminderKeys, told, redelivered>>

(* The mail left and its delivery is not known of: the outbox gives it again. *)
SendReminderAgain(event) ==
  /\ event \in due
  /\ Cardinality(redelivered) < MaxRedelivered /\ event \notin redelivered
  /\ mails' = [mails EXCEPT ![event] = @ + 1]
  /\ redelivered' = redelivered \cup {event}
  /\ UNCHANGED <<today, standing, fired, running, reminderKeys, due, told>>

-----------------------------------------------------------------------------
(* The subscription, by module Subscriptions: it is paid, or stops being active. *)
RenewStanding ==
  /\ standing.active /\ standing.renewals < MaxRenewals
  /\ standing' = [standing EXCEPT !.ends = @ + PeriodDays, !.renewals = @ + 1]
  /\ UNCHANGED <<today, fired, running, reminderKeys, due, told, mails, redelivered>>

StandingToggles ==
  /\ standing.active \/ standing.ends > today
  /\ standing' = [standing EXCEPT !.active = ~@]
  /\ UNCHANGED <<today, fired, running, reminderKeys, due, told, mails, redelivered>>

Tomorrow ==
  /\ today < FinalDay
  /\ \A f \in Replicas : running[f] = Idling
  /\ today' = today + 1 /\ fired' = {}
  /\ UNCHANGED <<standing, running, reminderKeys, due, told, mails, redelivered>>

-----------------------------------------------------------------------------
RemindersInit ==
  /\ today = 0
  /\ standing = [active |-> TRUE, ends |-> PeriodDays, renewals |-> 0]
  /\ fired = {} /\ running = [f \in Replicas |-> Idling]
  /\ reminderKeys = {} /\ due = {} /\ told = {} /\ redelivered = {}
  /\ mails = [e \in ReminderEvent |-> 0]

RemindersNext ==
  \/ \E f \in Replicas : CronFires(f) \/ ListEnding(f) \/ DispatchRenewalReminder(f)
  \/ \E e \in ReminderEvent : SendReminderAgain(e) \/ \E hasEmail \in BOOLEAN : SendReminder(e, hasEmail)
  \/ RenewStanding \/ StandingToggles
  \/ Tomorrow

RemindersSpec == RemindersInit /\ [][RemindersNext]_reminderVars

-----------------------------------------------------------------------------
(* Properties *)

RemindersTypeOK ==
  /\ today \in 0..FinalDay
  /\ standing \in [active : BOOLEAN, ends : 0..LastEnd, renewals : 0..MaxRenewals]
  /\ fired \subseteq Replicas
  /\ running \in [Replicas -> Run \cup {Idling}]
  /\ reminderKeys \subseteq Days \X (0..FinalDay)
  /\ due \subseteq told /\ told \subseteq ReminderEvent /\ redelivered \subseteq ReminderEvent
  /\ mails \in [ReminderEvent -> Nat]

(* "No se manda dos emails el mismo dia aunque el cron se redispare"            *)
(* (renewal-reminder-email.handler.ts:18): the customer is told of one end of      *)
(* period in so many days once, whatever replicas run the cron, but for what the      *)
(* outbox delivers again.                                                              *)
RemindedOnce ==
  \A e \in ReminderEvent : mails[e] <= 1 + Cardinality({e} \cap redelivered)

(* Deduplication never costs a reminder: when the key of a reminder to send is    *)
(* taken, it is by this very reminder, and not by one of an earlier period.          *)
NoReminderIsSwallowed ==
  \A f \in Replicas :
    running[f] # Idling /\ running[f].step = "dispatch" =>
      LET days == ReminderDays[running[f].k]
      IN  ReminderKey(days) \in reminderKeys => [days |-> days, ends |-> running[f].ends] \in told

(* Each reminder that is due is sent once: neither repeated nor swallowed.       *)
RemindersAreExact == RemindedOnce /\ NoReminderIsSwallowed
=============================================================================
