------------------------------ MODULE MCBilling ------------------------------
(* Small instances of the components around a payment: subscriptions, their     *)
(* calendar and reminders, invoices, the checkout and the outbox.  They share no  *)
(* state here: each runs while the others rest in their initial state.             *)
EXTENDS Subscriptions, BillingCalendar, Reminders, Invoices, Checkout, OutboxDelivery

MonthAndYear == [c \in {"monthly", "annual"} |-> IF c = "monthly" THEN 1 ELSE 2]

(* Two lines with a price finer than a cent, one that rounds to nothing, one that is due. *)
SmallCarts ==
  {<<[price |-> 1005, quantity |-> 3], [price |-> 4, quantity |-> 1]>>,
   <<[price |-> 4, quantity |-> 1]>>,
   <<[price |-> 2506, quantity |-> 1]>>}

BillingVars == <<subVars, calendarVars, reminderVars, invoiceVars, checkoutVars, outboxVars>>

BillingInit ==
  SubInit /\ CalendarInit /\ RemindersInit /\ InvoicesInit /\ CheckoutInit /\ OutboxInit

BillingNext ==
  \/ /\ CalendarInit /\ RemindersInit /\ InvoicesInit /\ CheckoutInit /\ OutboxInit
     /\ SubNext
     /\ UNCHANGED <<calendarVars, reminderVars, invoiceVars, checkoutVars, outboxVars>>
  \/ /\ SubInit /\ RemindersInit /\ InvoicesInit /\ CheckoutInit /\ OutboxInit
     /\ CalendarNext
     /\ UNCHANGED <<subVars, reminderVars, invoiceVars, checkoutVars, outboxVars>>
  \/ /\ SubInit /\ CalendarInit /\ InvoicesInit /\ CheckoutInit /\ OutboxInit
     /\ RemindersNext
     /\ UNCHANGED <<subVars, calendarVars, invoiceVars, checkoutVars, outboxVars>>
  \/ /\ SubInit /\ CalendarInit /\ RemindersInit /\ CheckoutInit /\ OutboxInit
     /\ InvoicesNext
     /\ UNCHANGED <<subVars, calendarVars, reminderVars, checkoutVars, outboxVars>>
  \/ /\ SubInit /\ CalendarInit /\ RemindersInit /\ InvoicesInit /\ OutboxInit
     /\ CheckoutNext
     /\ UNCHANGED <<subVars, calendarVars, reminderVars, invoiceVars, outboxVars>>
  \/ /\ SubInit /\ CalendarInit /\ RemindersInit /\ InvoicesInit /\ CheckoutInit
     /\ OutboxNext
     /\ UNCHANGED <<subVars, calendarVars, reminderVars, invoiceVars, checkoutVars>>

BillingSpec == BillingInit /\ [][BillingNext]_BillingVars

(* The state of each is typed. *)
BillingTypeOK == SubTypeOK /\ RemindersTypeOK /\ InvoicesTypeOK /\ CheckoutTypeOK /\ OutboxTypeOK
=============================================================================
