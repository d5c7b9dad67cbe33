------------------------------ MODULE Payments ------------------------------
(***************************************************************************)
(* PaymentsService: how payments of one application settle its invoices.   *)
(*                                                                         *)
(* Every handler (checkout request, OTP submission, admin grant, polling   *)
(* job) is a call run by a worker.  A call advances one database statement, *)
(* transaction or gateway round trip at a time, so that calls interleave    *)
(* exactly where the code awaits.  Reads of the code that are used later    *)
(* are kept in the call: `row` is the TypeORM entity held in memory, and    *)
(* saving it writes every column back, stale or not.                        *)
(*                                                                         *)
(* Invoices start issued (`open`); issuing them is the Invoices module's.   *)
(***************************************************************************)
EXTENDS Integers, FiniteSets, SitefAnswers

CONSTANTS
  Invoices,              \* invoices issued by the application
  SubscriptionInvoices,  \* those with an item that names a subscription
  Payments,              \* payment ids the database may hand out
  Keys,                  \* idempotency keys sent by checkout clients
  References,            \* bank references, normalised
  Methods,               \* payment methods offered
  Handlers,              \* HTTP requests being served, on all replicas
  Pollers,               \* slots of the polling queue's workers
  PollSlots,             \* length of pollingBackoffSeconds
  MaxFaults,             \* how many handlers die or jobs stall
  MaxCharges,            \* how many charges of one key a submission may add to
  None                   \* NULL

MethodKinds == {"transfer", "pago_movil", "c2p", "card", "card_ccr", "web_button", "zelle"}

ASSUME PaymentsAssumption ==
  /\ SubscriptionInvoices \subseteq Invoices
  /\ Methods \subseteq MethodKinds
  /\ PollSlots \in Nat \ {0}
  /\ MaxFaults \in Nat
  /\ MaxCharges \in Nat
  /\ Handlers \cap Pollers = {}
  /\ None \notin Invoices \cup Payments \cup Keys \cup References

VARIABLES
  invoice,       \* invoice[i]: status of the invoice row
  payment,       \* payment[p]: the payment row
  events,        \* delivery keys present in the outbox: <<kind, aggregate>>
  pollJobs,      \* delayed jobs of the polling queue
  call,          \* call[w]: the handler worker w is running
  faults,        \* faults injected so far
  credits,       \* history: payments that won markPaid for the invoice
  creditRef,     \* history: reference on the payment that won
  advances,      \* history: onRenewalPaid commits for the invoice
  charges,       \* history: createPayment and submitOtp requests sent for a client key
  reasons        \* history: reasons the gateway or a failure gave for one more of them

vars == <<invoice, payment, events, pollJobs, call, faults,
          credits, creditRef, advances, charges, reasons>>
history == <<credits, creditRef, advances, charges, reasons>>

-----------------------------------------------------------------------------
(* Data *)

Workers == Handlers \cup Pollers

InvoiceStatus == {"open", "paid"}
PaymentStatus == {"absent", "pending", "requires_otp", "requires_action", "succeeded", "failed"}
Terminal == {"succeeded", "failed"}
OtpMethods == {"c2p", "card", "card_ccr"}

(* `failure` tells what persistSettled refused from what the gateway declined, *)
(* whatever the gateway's own code for it.                                    *)
Row == [inv : Invoices \cup {None}, key : Keys \cup {None},
        method : MethodKinds \cup {"manual"}, status : PaymentStatus,
        ref : References \cup {None},
        failure : {"none", "declined", "REFERENCE_ALREADY_USED"}]

NoRow == [inv |-> None, key |-> None, method |-> "manual", status |-> "absent",
          ref |-> None, failure |-> "none"]

Result == [status : {"none", "pending"} \cup (PaymentStatus \ {"absent"}),
           ref : References \cup {None}]
NoResult == [status |-> "none", ref |-> None]

PollJob == [pay : Payments, next : 1..PollSlots]

Call == [kind : {"none", "create", "otp", "poll", "grant"},
         pc : {"idle", "lookup", "checkReference", "insert", "gateway", "reread",
               "save", "reject", "settle", "advance", "emitSucceeded", "emitFailed",
               "schedule", "reschedule", "grant"},
         pay : Payments \cup {None}, row : Row, result : Result, next : 0..PollSlots]

Idle == [kind |-> "none", pc |-> "idle", pay |-> None, row |-> NoRow,
         result |-> NoResult, next |-> 0]

Event == {"invoice.paid"} \X Invoices \cup {"payment.succeeded", "payment.failed"} \X Payments

Return(w) == call' = [call EXCEPT ![w] = Idle]
Goto(w, pc) == call' = [call EXCEPT ![w].pc = pc]
Finish(w, pc) == call' = [call EXCEPT ![w].pc = pc, ![w].row = NoRow]

(* Mutation: the partial unique index is missing. *)
NoReferenceIndex(p, r) == FALSE

(* UQ_payment_idempotency and UQ_payment_reference_settled. *)
KeyTaken(k) == k # None /\ \E p \in Payments : payment[p].key = k
ReferenceTaken(p, r) ==
  /\ r # None
  /\ \E q \in Payments \ {p} : payment[q].status = "succeeded" /\ payment[q].ref = r

Answers(c) ==
  CASE c.kind = "create" -> CreateAnswers(payment[c.pay].method)
    [] c.kind = "otp"    -> OtpAnswers(payment[c.pay].method)
    [] OTHER             -> StatusAnswers(payment[c.pay].method)

(* The entity in memory after the gateway's answer, status and reference set. *)
Applied(row, result) ==
  [row EXCEPT !.status  = result.status,
              !.ref     = IF result.status = "succeeded" /\ @ = None THEN result.ref ELSE @,
              !.failure = IF result.status = "failed" THEN "declined" ELSE @]

(* createPayment or submitOtp was called for the row, its answer not yet written to it. *)
Asks(c) == c.kind \in {"create", "otp"} /\ c.pc \in {"gateway", "reread", "save", "reject"}

OneMore(count, key) == [k \in Keys |-> count[k] + (IF k = key THEN 1 ELSE 0)]

(* What is lost with the call: nobody learns what became of its request. *)
LosesAnswer(w) ==
  reasons' = IF Asks(call[w]) THEN OneMore(reasons, payment[call[w].pay].key) ELSE reasons

-----------------------------------------------------------------------------
(* createForInvoice and verifyForInvoice *)

(* The invoice is read and must be open.  A key of None stands for the fresh *)
(* key verifyForInvoice draws on every attempt.                              *)
CreateForInvoice(w, i, m, k, r) ==
  /\ call[w] = Idle
  /\ invoice[i] = "open"
  /\ call' = [call EXCEPT ![w] = [Idle EXCEPT
                !.kind = "create", !.pc = "lookup",
                !.row = [inv |-> i, key |-> k, method |-> m, status |-> "pending",
                         ref |-> r, failure |-> "none"]]]
  /\ UNCHANGED <<invoice, payment, events, pollJobs, faults, history>>

VerifyForInvoice(w, i, m, r) ==
  /\ m \in {"transfer", "pago_movil"}
  /\ CreateForInvoice(w, i, m, None, r)

(* Mutation: a repeated key resumes the payment it finds instead of returning it. *)
LookupKeyResumes(w) ==
  /\ call[w].pc = "lookup"
  /\ \/ /\ ~KeyTaken(call[w].row.key)
        /\ Goto(w, "checkReference")
     \/ \E p \in Payments :
          /\ call[w].row.key # None /\ payment[p].key = call[w].row.key
          /\ call' = [call EXCEPT ![w].pc = "gateway", ![w].pay = p, ![w].row = NoRow]
  /\ UNCHANGED <<invoice, payment, events, pollJobs, faults, history>>

LookupKey(w) ==
  /\ call[w].pc = "lookup"
  /\ IF KeyTaken(call[w].row.key) THEN Return(w) ELSE Goto(w, "checkReference")
  /\ UNCHANGED <<invoice, payment, events, pollJobs, faults, history>>

AssertReferenceUnused(w) ==
  /\ call[w].pc = "checkReference"
  /\ LET mine == call[w].row
         clash == {p \in Payments : /\ payment[p].status = "succeeded"
                                    /\ payment[p].ref = mine.ref
                                    /\ payment[p].inv # mine.inv}
     IN  IF mine.ref # None /\ clash # {} THEN Return(w) ELSE Goto(w, "insert")
  /\ UNCHANGED <<invoice, payment, events, pollJobs, faults, history>>

(* Mutation: the insert relies on the lookup, the unique index is missing. *)
InsertWithoutIndex(w) ==
  /\ call[w].pc = "insert"
  /\ \E p \in Payments :
       /\ payment[p].status = "absent"
       /\ payment' = [payment EXCEPT ![p] = call[w].row]
       /\ call' = [call EXCEPT ![w].pc = "gateway", ![w].pay = p, ![w].row = NoRow]
       /\ charges' = OneMore(charges, call[w].row.key)
  /\ UNCHANGED <<invoice, events, pollJobs, faults, credits, creditRef, advances, reasons>>

(* The insert is refused when the key is taken; zelle waits for an admin. *)
InsertPayment(w) ==
  /\ call[w].pc = "insert"
  /\ \/ /\ KeyTaken(call[w].row.key)
        /\ Return(w)
        /\ UNCHANGED <<payment, charges>>
     \/ /\ ~KeyTaken(call[w].row.key)
        /\ \E p \in Payments :
             /\ payment[p].status = "absent"
             /\ payment' = [payment EXCEPT ![p] = call[w].row]
             /\ IF call[w].row.method = "zelle"
                THEN Return(w) /\ UNCHANGED charges
                ELSE /\ call' = [call EXCEPT ![w].pc = "gateway", ![w].pay = p,
                                             ![w].row = NoRow]
                     /\ charges' = OneMore(charges, call[w].row.key)
  /\ UNCHANGED <<invoice, events, pollJobs, faults, credits, creditRef, advances, reasons>>

-----------------------------------------------------------------------------
(* submitOtp *)

(* The status is read and the charge is sent; the row is not claimed, so another *)
(* submission may be under way and neither knows of the other.                    *)
Submit(w, p) ==
  LET key == payment[p].key
  IN  /\ key \in Keys => charges[key] < MaxCharges
      /\ charges' = OneMore(charges, key)
      /\ reasons' = IF \E v \in Workers : Asks(call[v]) /\ call[v].pay = p
                    THEN OneMore(reasons, key) ELSE reasons
      /\ call' = [call EXCEPT ![w] = [Idle EXCEPT !.kind = "otp", !.pc = "gateway", !.pay = p]]
      /\ UNCHANGED <<invoice, payment, events, pollJobs, faults, credits, creditRef, advances>>

SubmitOtp(w, p) ==
  /\ call[w] = Idle
  /\ payment[p].status = "requires_otp"
  /\ payment[p].method \in OtpMethods
  /\ Submit(w, p)

-----------------------------------------------------------------------------
(* The polling processor *)

(* A job leaves the queue; a payment already settled ends the chain. *)
PollOnce(w, job) ==
  /\ call[w] = Idle
  /\ job \in pollJobs
  /\ pollJobs' = pollJobs \ {job}
  /\ IF payment[job.pay].status \in Terminal
     THEN UNCHANGED call
     ELSE call' = [call EXCEPT ![w] = [Idle EXCEPT !.kind = "poll", !.pc = "gateway",
                      !.pay = job.pay, !.row = payment[job.pay], !.next = job.next]]
  /\ UNCHANGED <<invoice, payment, events, faults, history>>

(* Mutation: an off-by-one at the end of the schedule. *)
ReschedulePastEnd(w) ==
  /\ call[w].pc = "reschedule"
  /\ pollJobs' = pollJobs \cup {[pay |-> call[w].pay, next |-> call[w].next + 1]}
  /\ Return(w)
  /\ UNCHANGED <<invoice, payment, events, faults, history>>

(* Mutation: the attempt index is not advanced. *)
RescheduleSameSlot(w) ==
  /\ call[w].pc = "reschedule"
  /\ pollJobs' = pollJobs \cup {[pay |-> call[w].pay, next |-> call[w].next]}
  /\ Return(w)
  /\ UNCHANGED <<invoice, payment, events, faults, history>>

(* schedulePolling(id, nextAttemptIndex): a no-op once the schedule is used up. *)
Reschedule(w) ==
  /\ call[w].pc = "reschedule"
  /\ pollJobs' = IF call[w].next < PollSlots
                 THEN pollJobs \cup {[pay |-> call[w].pay, next |-> call[w].next + 1]}
                 ELSE pollJobs
  /\ Return(w)
  /\ UNCHANGED <<invoice, payment, events, faults, history>>

-----------------------------------------------------------------------------
(* The gateway's answer, and what is made of it *)

(* createPayment and submitOtp go through applyGatewayResult, which reads the *)
(* row again; pollOnce edits the row it read before asking.                   *)
GatewayAnswers(w, result) ==
  /\ call[w].pc = "gateway"
  /\ result.status \in Answers(call[w])
  /\ result.ref # None => result.status = "succeeded"
  /\ LET c == call[w]
     IN  /\ CASE c.kind # "poll" ->
                   call' = [call EXCEPT ![w].pc = "reread", ![w].result = result]
              [] c.kind = "poll" /\ result.status = "pending" ->
                   Finish(w, "reschedule")
              [] c.kind = "poll" /\ result.status # "pending" ->
                   call' = [call EXCEPT ![w].pc = "save", ![w].row = Applied(c.row, result)]
         /\ reasons' = IF result.status = "requires_otp"
                       THEN OneMore(reasons, payment[c.pay].key) ELSE reasons
  /\ UNCHANGED <<invoice, payment, events, pollJobs, faults, credits, creditRef, advances, charges>>

(* Timeout or transport error: the request ends in an error, the job retries. *)
GatewayFails(w) ==
  /\ call[w].pc = "gateway"
  /\ IF call[w].kind = "poll" THEN Finish(w, "reschedule") ELSE Return(w)
  /\ LosesAnswer(w)
  /\ UNCHANGED <<invoice, payment, events, pollJobs, faults, credits, creditRef, advances, charges>>

ApplyGatewayResult(w) ==
  /\ call[w].pc = "reread"
  /\ call' = [call EXCEPT ![w].pc = "save", ![w].result = NoResult,
                          ![w].row = Applied(payment[call[w].pay], call[w].result)]
  /\ UNCHANGED <<invoice, payment, events, pollJobs, faults, history>>

(* Mutation: the payment is saved and announced, onPaymentSucceeded is skipped. *)
SaveAndAnnounce(w) ==
  /\ call[w].pc = "save"
  /\ payment' = [payment EXCEPT ![call[w].pay] = call[w].row]
  /\ IF call[w].row.status = "succeeded" THEN Finish(w, "emitSucceeded") ELSE Return(w)
  /\ UNCHANGED <<invoice, events, pollJobs, faults, history>>

(* repository.save of the entity in memory; settling can lose the unique index. *)
SavePayment(w) ==
  /\ call[w].pc = "save"
  /\ LET c == call[w]
     IN  IF c.row.status = "succeeded" /\ ReferenceTaken(c.pay, c.row.ref)
         THEN Finish(w, "reject") /\ UNCHANGED payment
         ELSE /\ payment' = [payment EXCEPT ![c.pay] = c.row]
              /\ CASE c.row.status = "succeeded"       -> Goto(w, "settle")
                   [] c.row.status = "failed"          -> Finish(w, "emitFailed")
                   [] c.row.status = "requires_action" -> Finish(w, "schedule")
                   [] OTHER                            -> Return(w)
  /\ UNCHANGED <<invoice, events, pollJobs, faults, history>>

RejectDuplicate(w) ==
  /\ call[w].pc = "reject"
  /\ payment' = [payment EXCEPT ![call[w].pay].status = "failed",
                                ![call[w].pay].failure = "REFERENCE_ALREADY_USED"]
  /\ Goto(w, "emitFailed")
  /\ UNCHANGED <<invoice, events, pollJobs, faults, history>>

SchedulePolling(w) ==
  /\ call[w].pc = "schedule"
  /\ pollJobs' = pollJobs \cup {[pay |-> call[w].pay, next |-> 1]}
  /\ Return(w)
  /\ UNCHANGED <<invoice, payment, events, faults, history>>

-----------------------------------------------------------------------------
(* Settlement of the invoice *)

(* markPaid's compare-and-swap and outbox.append, in one transaction. *)
Credit(i, p) ==
  /\ invoice[i] # "paid"
  /\ invoice' = [invoice EXCEPT ![i] = "paid"]
  /\ events' = events \cup {<<"invoice.paid", i>>}
  /\ credits' = [credits EXCEPT ![i] = @ \cup {p}]

(* Mutation: the loser of markPaid returns without announcing its payment. *)
LoserReturns(w) ==
  /\ call[w].pc = "settle"
  /\ LET c == call[w]
     IN  \/ /\ Credit(c.row.inv, c.pay)
            /\ creditRef' = [creditRef EXCEPT ![c.row.inv] = c.row.ref]
            /\ Goto(w, "advance")
         \/ /\ invoice[c.row.inv] = "paid"
            /\ Return(w)
            /\ UNCHANGED <<invoice, events, credits, creditRef>>
  /\ UNCHANGED <<payment, pollJobs, faults, advances, charges, reasons>>

OnPaymentSucceeded(w) ==
  /\ call[w].pc = "settle"
  /\ LET c == call[w]
     IN  \/ /\ Credit(c.row.inv, c.pay)
            /\ creditRef' = [creditRef EXCEPT ![c.row.inv] = c.row.ref]
            /\ Goto(w, "advance")
         \/ /\ invoice[c.row.inv] = "paid"
            /\ Finish(w, "emitSucceeded")
            /\ UNCHANGED <<invoice, events, credits, creditRef>>
  /\ UNCHANGED <<payment, pollJobs, faults, advances, charges, reasons>>

(* Mutation: the advance is tried again after it has committed. *)
AdvanceRetried(w) ==
  /\ call[w].pc = "advance"
  /\ LET i == call[w].row.inv
     IN  \/ /\ i \in SubscriptionInvoices /\ advances[i] < 2
            /\ advances' = [advances EXCEPT ![i] = @ + 1]
            /\ UNCHANGED call
         \/ UNCHANGED advances /\ Finish(w, "emitSucceeded")
  /\ UNCHANGED <<invoice, payment, events, pollJobs, faults, credits, creditRef, charges, reasons>>

(* onRenewalPaid runs its own transaction; its errors are logged and dropped. *)
AdvanceSubscription(w) ==
  /\ call[w].pc = "advance"
  /\ LET i == call[w].row.inv
     IN  \/ /\ i \in SubscriptionInvoices
            /\ advances' = [advances EXCEPT ![i] = @ + 1]
         \/ UNCHANGED advances
  /\ Finish(w, "emitSucceeded")
  /\ UNCHANGED <<invoice, payment, events, pollJobs, faults, credits, creditRef, charges, reasons>>

Emit(w, pc, kind) ==
  /\ call[w].pc = pc
  /\ events' = events \cup {<<kind, call[w].pay>>}
  /\ Return(w)
  /\ UNCHANGED <<invoice, payment, pollJobs, faults, history>>

EmitPaymentSucceeded(w) == Emit(w, "emitSucceeded", "payment.succeeded")
EmitPaymentFailed(w) == Emit(w, "emitFailed", "payment.failed")

-----------------------------------------------------------------------------
(* grantManually *)

GrantManually(w, i) ==
  /\ call[w] = Idle
  /\ invoice[i] = "open"
  /\ call' = [call EXCEPT ![w] = [Idle EXCEPT !.kind = "grant", !.pc = "grant",
                !.row = [NoRow EXCEPT !.inv = i, !.status = "succeeded"]]]
  /\ UNCHANGED <<invoice, payment, events, pollJobs, faults, history>>

(* Winner of the compare-and-swap inserts the manual payment; loser conflicts. *)
GrantTransaction(w) ==
  /\ call[w].pc = "grant"
  /\ LET i == call[w].row.inv
     IN  \/ /\ invoice[i] = "paid"
            /\ Return(w)
            /\ UNCHANGED <<invoice, payment, events, credits, creditRef>>
         \/ \E p \in Payments :
              /\ payment[p].status = "absent"
              /\ Credit(i, p)
              /\ payment' = [payment EXCEPT ![p] = call[w].row]
              /\ creditRef' = [creditRef EXCEPT ![i] = None]
              /\ call' = [call EXCEPT ![w].pc = "advance", ![w].pay = p]
  /\ UNCHANGED <<pollJobs, faults, advances, charges, reasons>>

-----------------------------------------------------------------------------
(* Faults *)

(* The process dies or a statement throws.  A request is gone.  A job whose   *)
(* error is caught reschedules; one whose worker died is run again as stalled *)
(* or, past its stall limit, dropped.                                         *)
Abort(w) ==
  /\ faults < MaxFaults
  /\ call[w] # Idle
  /\ faults' = faults + 1
  /\ \/ Return(w) /\ UNCHANGED pollJobs
     \/ /\ call[w].kind = "poll"
        /\ \/ Finish(w, "reschedule") /\ UNCHANGED pollJobs
           \/ /\ pollJobs' = pollJobs \cup {[pay |-> call[w].pay, next |-> call[w].next]}
              /\ Return(w)
  /\ LosesAnswer(w)
  /\ UNCHANGED <<invoice, payment, events, credits, creditRef, advances, charges>>

(* The queue takes a slow worker for dead and hands its job out again. *)
StalledJob(w) ==
  /\ faults < MaxFaults
  /\ call[w].kind = "poll"
  /\ faults' = faults + 1
  /\ pollJobs' = pollJobs \cup {[pay |-> call[w].pay, next |-> call[w].next]}
  /\ UNCHANGED <<invoice, payment, events, call, history>>

-----------------------------------------------------------------------------
Init ==
  /\ invoice = [i \in Invoices |-> "open"]
  /\ payment = [p \in Payments |-> NoRow]
  /\ events = {}
  /\ pollJobs = {}
  /\ call = [w \in Workers |-> Idle]
  /\ faults = 0
  /\ credits = [i \in Invoices |-> {}]
  /\ creditRef = [i \in Invoices |-> None]
  /\ advances = [i \in Invoices |-> 0]
  /\ charges = [k \in Keys |-> 0]
  /\ reasons = [k \in Keys |-> 0]

(* A call starts when a client, an admin or the queue says so... *)
Start(w) ==
  \/ \E i \in Invoices, m \in Methods, k \in Keys, r \in References \cup {None} :
       CreateForInvoice(w, i, m, k, r)
  \/ \E i \in Invoices, m \in Methods, r \in References : VerifyForInvoice(w, i, m, r)
  \/ \E p \in Payments : SubmitOtp(w, p)
  \/ \E i \in Invoices : GrantManually(w, i)

(* ... and runs to its end one awaited step at a time. *)
Gateway(w) == (\E result \in Result : GatewayAnswers(w, result)) \/ GatewayFails(w)

Continue(w) ==
  \/ LookupKey(w)
  \/ AssertReferenceUnused(w)
  \/ InsertPayment(w)
  \/ ApplyGatewayResult(w)
  \/ SavePayment(w)
  \/ RejectDuplicate(w)
  \/ SchedulePolling(w)
  \/ Reschedule(w)
  \/ OnPaymentSucceeded(w)
  \/ AdvanceSubscription(w)
  \/ EmitPaymentSucceeded(w)
  \/ EmitPaymentFailed(w)
  \/ GrantTransaction(w)

Next ==
  \/ \E w \in Handlers : Start(w)
  \/ \E w \in Pollers, job \in PollJob : PollOnce(w, job)
  \/ \E w \in Workers : Gateway(w) \/ Continue(w) \/ Abort(w)
  \/ \E w \in Pollers : StalledJob(w)

Spec == Init /\ [][Next]_vars

(* Handlers run to their end, the gateway answers or times out, and the queue *)
(* hands out delayed jobs.  Nobody is obliged to start a call.                *)
Fairness ==
  /\ \A w \in Workers : WF_vars(Continue(w)) /\ WF_vars(Gateway(w))
  /\ WF_vars(\E w \in Pollers, job \in PollJob : PollOnce(w, job))

FairSpec == Spec /\ Fairness

-----------------------------------------------------------------------------
(* Properties *)

(* Rows, jobs and calls are typed: no poll is scheduled past the last slot. *)
TypeOK ==
  /\ invoice \in [Invoices -> InvoiceStatus]
  /\ payment \in [Payments -> Row]
  /\ events \subseteq Event
  /\ pollJobs \subseteq PollJob
  /\ call \in [Workers -> Call]
  /\ faults \in 0..MaxFaults
  /\ credits \in [Invoices -> SUBSET Payments]
  /\ creditRef \in [Invoices -> References \cup {None}]
  /\ advances \in [Invoices -> Nat]
  /\ charges \in [Keys -> Nat]
  /\ reasons \in [Keys -> Nat]

(* However many payments settle at once, an invoice is paid by one payment, a *)
(* payment of that invoice, and is paid exactly when invoice.paid is in the   *)
(* outbox (markPaid's compare-and-swap shares its transaction with append).   *)
PaidByOnePayment ==
  \A i \in Invoices :
    /\ \A p, q \in credits[i] : p = q
    /\ \A p \in credits[i] : payment[p].inv = i
    /\ invoice[i] = "paid" <=> credits[i] # {}
    /\ invoice[i] = "paid" <=> <<"invoice.paid", i>> \in events

(* The subscription advances at most once per invoice, and only once paid:    *)
(* the side effects of markPaid belong to the call that won it.               *)
AdvancedAtMostOnce ==
  \A i \in Invoices : advances[i] <= 1 /\ (advances[i] = 1 => invoice[i] = "paid")

(* payment.succeeded reaches the outbox only after the payment's invoice is   *)
(* paid, whichever payment paid it.                                           *)
AnnouncedAfterPaid ==
  \A p \in Payments :
    <<"payment.succeeded", p>> \in events => invoice[payment[p].inv] = "paid"

(* A request to charge for a client's key is repeated only for a reason: the gateway *)
(* asked for an OTP, an answer was lost with its request or its process, or two OTPs   *)
(* of one payment were submitted at once (submitOtp does not claim the row: each of     *)
(* them charges).  Retried and concurrent checkouts give none, and where no OTP is      *)
(* taken there is none: a key charges once (the row is inserted before the request).    *)
ChargesHaveReasons ==
  \A k \in Keys :
    /\ charges[k] <= 1 + reasons[k]
    /\ charges[k] > 1 =>
         \E p \in Payments : payment[p].key = k /\ payment[p].method \in OtpMethods

(* A bank reference credits one invoice, ever (UQ_payment_reference_settled). *)
ReferenceCreditsOneInvoice ==
  \A i, j \in Invoices :
    creditRef[i] # None /\ creditRef[i] = creditRef[j] => i = j

(* A settled or failed payment never changes again. *)
TerminalIsFinal ==
  [][\A p \in Payments :
       payment[p].status \in Terminal => payment'[p] = payment[p]]_payment

(* The abstract view of the settlement; the detailed steps implement it. *)
Announced == {<<p, payment[p].inv>> : p \in {q \in Payments : <<"payment.succeeded", q>> \in events}}

Settlement == INSTANCE InvoiceSettlement
                WITH paidBy <- credits, renewals <- advances, announced <- Announced

(* Whatever races, PaymentsService settles an invoice as InvoiceSettlement says: one     *)
(* payment pays it, its subscription advances at most once, and only a paid invoice is   *)
(* announced.                                                                             *)
ImplementsSettlement == Settlement!Spec

(* With no handler dying, a payment that settles gets its invoice paid and is *)
(* announced, also when another payment wins the invoice.                     *)
SettledIsCredited ==
  \A p \in Payments, i \in Invoices :
    payment[p].status = "succeeded" /\ payment[p].inv = i ~>
      /\ invoice[i] = "paid"
      /\ <<"invoice.paid", i>> \in events
      /\ <<"payment.succeeded", p>> \in events

(* Every poll chain ends: the payment settles, fails, or its schedule is used *)
(* up, and no job or call is left for it.                                     *)
PollingEnds ==
  \A p \in Payments :
    payment[p].status = "requires_action" ~>
      (\A job \in pollJobs : job.pay # p) /\ (\A w \in Workers : call[w].pay # p)
=============================================================================
