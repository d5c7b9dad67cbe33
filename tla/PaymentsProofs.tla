--------------------------- MODULE PaymentsProofs ---------------------------
(***************************************************************************)
(* Proofs about Payments, for any invoices, payments, handlers and pollers.  *)
(*                                                                         *)
(* The invariant says what each call may rely on at each of its steps: a    *)
(* row it saved exists, keeps its invoice and its key, and only the call that *)
(* won the invoice is about to advance its subscription.                     *)
(*                                                                           *)
(* Where no two calls hold one row, a settled payment is final and a bank     *)
(* reference credits one invoice, whatever the method (OwnedInv); the methods  *)
(* settled by a typed reference give every row one owner.                       *)
(***************************************************************************)
EXTENDS Payments, TLAPS

(* Rows are written whole, and belong to an invoice from then on. *)
RowsExist ==
  \A p \in Payments :
    /\ payment[p].status = "absent" => payment[p] = NoRow
    /\ payment[p].status # "absent" => payment[p].inv \in Invoices

(* A polling job names a row of the table. *)
SoundJob(job) == job \in PollJob /\ payment[job.pay].status # "absent"
JobsHoldRows == \A job \in pollJobs : SoundJob(job)

Holding == {"gateway", "reread", "save", "reject", "settle", "advance",
            "emitSucceeded", "emitFailed", "schedule", "reschedule"}

(* A call past its insert holds a row of the table... *)
HoldsRow(c) ==
  /\ c.pc \in Holding => c.pay \in Payments /\ payment[c.pay].status # "absent"
  /\ c.pc \in {"lookup", "checkReference", "insert", "grant"} =>
       c.row.inv \in Invoices /\ c.row.status # "absent"
  /\ c.pc = "reread" => c.result.status \in PaymentStatus \ {"absent"}
  /\ c.kind = "poll" => c.pc \in Holding /\ c.next \in 1..PollSlots

CallsHoldRows == \A w \in Workers : HoldsRow(call[w])

(* ... and what it will save has the invoice, the key and the method of that row. *)
KeepsIdentity(c) ==
  c.pc \in {"save", "settle", "advance"} \/ (c.pc = "gateway" /\ c.kind = "poll") =>
    /\ c.row.inv = payment[c.pay].inv
    /\ c.row.key = payment[c.pay].key
    /\ c.row.method = payment[c.pay].method
    /\ c.row.status # "absent"

CallsKeepIdentity == \A w \in Workers : KeepsIdentity(call[w])

(* Only the winner of an invoice advances, and it has not done so yet. *)
OneAdvancer ==
  /\ \A w \in Workers :
       call[w].pc = "advance" =>
         invoice[call[w].row.inv] = "paid" /\ advances[call[w].row.inv] = 0
  /\ \A v, w \in Workers :
       v # w /\ call[v].pc = "advance" /\ call[w].pc = "advance" =>
         call[v].row.inv # call[w].row.inv

(* Whoever announces a payment, or has announced it, finds its invoice paid. *)
AnnouncersPaid ==
  /\ \A w \in Workers :
       call[w].pc = "emitSucceeded" => invoice[payment[call[w].pay].inv] = "paid"
  /\ \A p \in Payments :
       <<"payment.succeeded", p>> \in events =>
         payment[p].status # "absent" /\ invoice[payment[p].inv] = "paid"

(* What was asked of the gateway is counted. *)
LedgerTyped == charges \in [Keys -> Nat] /\ reasons \in [Keys -> Nat]

IInv ==
  /\ TypeOK
  /\ PaidByOnePayment
  /\ AdvancedAtMostOnce
  /\ RowsExist
  /\ JobsHoldRows
  /\ CallsHoldRows
  /\ CallsKeepIdentity
  /\ OneAdvancer
  /\ AnnouncersPaid

-----------------------------------------------------------------------------
(* Values *)

(* The idle values are values of their types. *)
LEMMA ValuesTyped ==
  /\ NoRow \in Row
  /\ NoResult \in Result
  /\ Idle \in Call
BY PaymentsAssumption DEF NoRow, Row, NoResult, Result, Idle, Call, PaymentStatus, MethodKinds

(* What the gateway's answer makes of a row is a row of the same payment. *)
LEMMA AppliedTyped ==
  ASSUME NEW row \in Row, NEW result \in Result,
         result.status \in PaymentStatus \ {"absent"}
  PROVE  /\ Applied(row, result) \in Row
         /\ Applied(row, result).inv = row.inv
         /\ Applied(row, result).key = row.key
         /\ Applied(row, result).method = row.method
         /\ Applied(row, result).status = result.status
BY DEF Applied, Row, Result, PaymentStatus

(* Everything the gateway can answer is the status of a written row. *)
LEMMA AnswersAreStatuses ==
  ASSUME NEW c
  PROVE  Answers(c) \subseteq PaymentStatus \ {"absent"}
BY DEF Answers, CreateAnswers, OtpAnswers, StatusAnswers, VerificationAnswers, C2pAnswers,
       CardAnswers, CardPayAnswers, CcrAnswers, CcrFinalAnswers, WebButtonAnswers,
       PollAnswers, PaymentStatus

Steps == {"idle", "lookup", "checkReference", "insert", "gateway", "reread", "save",
          "reject", "settle", "advance", "emitSucceeded", "emitFailed", "schedule",
          "reschedule", "grant"}

(* Moving a call to another step changes nothing else of it. *)
LEMMA CallMoves ==
  ASSUME NEW c \in Call, NEW d, NEW pc \in Steps, d = [c EXCEPT !.pc = pc]
  PROVE  /\ d \in Call /\ d.pc = pc /\ d.row = c.row /\ d.kind = c.kind
         /\ d.pay = c.pay /\ d.next = c.next /\ d.result = c.result
BY DEF Call, Steps

(* Finishing a call's work on its row forgets the row and nothing else. *)
LEMMA CallFinishes ==
  ASSUME NEW c \in Call, NEW d, NEW pc \in Steps, d = [c EXCEPT !.pc = pc, !.row = NoRow]
  PROVE  /\ d \in Call /\ d.pc = pc /\ d.row = NoRow /\ d.kind = c.kind
         /\ d.pay = c.pay /\ d.next = c.next /\ d.result = c.result
BY ValuesTyped DEF Call, Steps

(* The invariant holds before any request is served. *)
THEOREM InitIInv == Init => IInv
<1> SUFFICES ASSUME Init PROVE IInv
  OBVIOUS
<1>1. TypeOK
  BY ValuesTyped, PaymentsAssumption DEF Init, TypeOK, InvoiceStatus
<1>2. PaidByOnePayment /\ AdvancedAtMostOnce /\ RowsExist /\ JobsHoldRows
  BY DEF Init, PaidByOnePayment, AdvancedAtMostOnce, RowsExist, NoRow, JobsHoldRows
<1>3. CallsHoldRows /\ CallsKeepIdentity /\ OneAdvancer /\ AnnouncersPaid
  BY DEF Init, CallsHoldRows, HoldsRow, CallsKeepIdentity, KeepsIdentity, OneAdvancer,
         AnnouncersPaid, Idle, Holding
<1> QED
  BY <1>1, <1>2, <1>3 DEF IInv

-----------------------------------------------------------------------------
(* Steps that only move one call *)

(* A step of w that writes no table keeps the invariant when the call it      *)
(* leaves behind holds what its own next steps rely on.                       *)
LEMMA AskingCallStep ==
  ASSUME IInv, NEW w \in Workers, NEW c \in Call,
         call' = [call EXCEPT ![w] = c], LedgerTyped',
         UNCHANGED <<invoice, payment, events, credits, creditRef, advances>>,
         \A job \in pollJobs' : SoundJob(job), faults' \in 0..MaxFaults,
         HoldsRow(c), KeepsIdentity(c), c.pc # "advance",
         c.pc = "emitSucceeded" => invoice[payment[c.pay].inv] = "paid"
  PROVE  IInv'
<1> USE DEF IInv
<1>1. /\ call \in [Workers -> Call] /\ call'[w] = c
      /\ \A v \in Workers : v # w => call'[v] = call[v]
  BY DEF TypeOK
<1>2. TypeOK' /\ JobsHoldRows'
  BY <1>1 DEF TypeOK, LedgerTyped, JobsHoldRows, SoundJob
<1>3. PaidByOnePayment' /\ AdvancedAtMostOnce' /\ RowsExist'
  BY DEF PaidByOnePayment, AdvancedAtMostOnce, RowsExist
<1>4. CallsHoldRows' /\ CallsKeepIdentity'
  BY <1>1 DEF CallsHoldRows, CallsKeepIdentity, HoldsRow, KeepsIdentity
<1>5. OneAdvancer' /\ AnnouncersPaid'
  BY <1>1 DEF OneAdvancer, AnnouncersPaid
<1> QED
  BY <1>2, <1>3, <1>4, <1>5

(* What leaves the histories alone leaves them typed. *)
LEMMA QuietLedger ==
  ASSUME IInv, UNCHANGED history
  PROVE  LedgerTyped' /\ UNCHANGED <<credits, creditRef, advances>>
BY DEF IInv, TypeOK, LedgerTyped, history

(* So does a step that counts one more request or one more reason. *)
LEMMA OneMoreTyped ==
  ASSUME NEW count \in [Keys -> Nat], NEW key
  PROVE  /\ OneMore(count, key) \in [Keys -> Nat]
         /\ \A k \in Keys : k = key => OneMore(count, key)[k] = count[k] + 1
         /\ \A k \in Keys : k # key => OneMore(count, key)[k] = count[k]
BY DEF OneMore

LEMMA CallStep ==
  ASSUME IInv, NEW w \in Workers, NEW c \in Call,
         call' = [call EXCEPT ![w] = c],
         UNCHANGED <<invoice, payment, events, history>>,
         \A job \in pollJobs' : SoundJob(job), faults' \in 0..MaxFaults,
         HoldsRow(c), KeepsIdentity(c), c.pc # "advance",
         c.pc = "emitSucceeded" => invoice[payment[c.pay].inv] = "paid"
  PROVE  IInv'
BY QuietLedger, AskingCallStep

(* A call that ended holds nothing. *)
LEMMA IdleHoldsNothing == HoldsRow(Idle) /\ KeepsIdentity(Idle) /\ Idle.pc = "idle"
BY DEF HoldsRow, KeepsIdentity, Idle, Holding

(* What the invariant says of one call, with its type. *)
LEMMA CallFacts ==
  ASSUME IInv, NEW w \in Workers
  PROVE  /\ call[w] \in Call /\ call[w].row \in Row /\ call[w].result \in Result
         /\ HoldsRow(call[w]) /\ KeepsIdentity(call[w])
         /\ \A job \in pollJobs : SoundJob(job)
         /\ faults \in 0..MaxFaults
         /\ \A p \in Payments : payment[p] \in Row
BY DEF IInv, TypeOK, JobsHoldRows, CallsHoldRows, CallsKeepIdentity, Call

(* A handler that ends without touching the tables keeps the invariant. *)
LEMMA AskingReturnStep ==
  ASSUME IInv, NEW w \in Workers, Return(w), LedgerTyped',
         UNCHANGED <<invoice, payment, events, credits, creditRef, advances>>,
         \A job \in pollJobs' : SoundJob(job), faults' \in 0..MaxFaults
  PROVE  IInv'
BY AskingCallStep, IdleHoldsNothing, ValuesTyped DEF Return

LEMMA ReturnStep ==
  ASSUME IInv, NEW w \in Workers, Return(w),
         UNCHANGED <<invoice, payment, events, history>>,
         \A job \in pollJobs' : SoundJob(job), faults' \in 0..MaxFaults
  PROVE  IInv'
BY QuietLedger, AskingReturnStep

(* A checkout request starts on an open invoice (createForInvoice). *)
LEMMA CreateForInvoiceStep ==
  ASSUME IInv, NEW w \in Workers, NEW i \in Invoices, NEW m \in Methods,
         NEW k \in Keys \cup {None}, NEW r \in References \cup {None},
         CreateForInvoice(w, i, m, k, r)
  PROVE  IInv'
<1> DEFINE row == [inv |-> i, key |-> k, method |-> m, status |-> "pending",
                   ref |-> r, failure |-> "none"]
           c == [Idle EXCEPT !.kind = "create", !.pc = "lookup", !.row = row]
<1>1. row \in Row /\ row.inv = i /\ row.status = "pending"
  BY PaymentsAssumption DEF Row, PaymentStatus
<1>2. c \in Call /\ c.pc = "lookup" /\ c.kind = "create" /\ c.row = row
  <2> HIDE DEF row
  <2> QED BY <1>1, ValuesTyped DEF Call, Idle
<1> HIDE DEF row, c
<1>3. HoldsRow(c) /\ KeepsIdentity(c)
  BY <1>1, <1>2 DEF HoldsRow, KeepsIdentity, Holding
<1>4. call' = [call EXCEPT ![w] = c]
  BY DEF CreateForInvoice, c, row
<1> QED
  BY <1>2, <1>3, <1>4, CallStep, CallFacts DEF CreateForInvoice

(* An OTP submission starts on a row that awaits it (submitOtp). *)
LEMMA SubmitOtpStep ==
  ASSUME IInv, NEW w \in Workers, NEW p \in Payments, SubmitOtp(w, p)
  PROVE  IInv'
<1> DEFINE c == [Idle EXCEPT !.kind = "otp", !.pc = "gateway", !.pay = p]
<1>1. c \in Call /\ HoldsRow(c) /\ KeepsIdentity(c) /\ c.pc = "gateway"
  BY ValuesTyped DEF SubmitOtp, Call, Idle, HoldsRow, KeepsIdentity, Holding
<1>2. LedgerTyped'
  BY OneMoreTyped DEF SubmitOtp, Submit, LedgerTyped, IInv, TypeOK
<1>3. /\ call' = [call EXCEPT ![w] = c]
      /\ UNCHANGED <<invoice, payment, events, pollJobs, faults, credits, creditRef, advances>>
  BY DEF SubmitOtp, Submit
<1> HIDE DEF c
<1> QED
  BY <1>1, <1>2, <1>3, AskingCallStep, CallFacts

(* An admin's grant starts on an open invoice (grantManually). *)
LEMMA GrantManuallyStep ==
  ASSUME IInv, NEW w \in Workers, NEW i \in Invoices, GrantManually(w, i)
  PROVE  IInv'
<1> DEFINE row == [NoRow EXCEPT !.inv = i, !.status = "succeeded"]
           c == [Idle EXCEPT !.kind = "grant", !.pc = "grant", !.row = row]
<1>1. row \in Row /\ row.inv = i /\ row.status = "succeeded"
  BY ValuesTyped DEF Row, NoRow, PaymentStatus
<1>2. c \in Call /\ c.pc = "grant" /\ c.kind = "grant" /\ c.row = row
  <2> HIDE DEF row
  <2> QED BY <1>1, ValuesTyped DEF Call, Idle
<1> HIDE DEF row, c
<1>3. HoldsRow(c) /\ KeepsIdentity(c)
  BY <1>1, <1>2 DEF HoldsRow, KeepsIdentity, Holding
<1>4. call' = [call EXCEPT ![w] = c]
  BY DEF GrantManually, c, row
<1> QED
  BY <1>2, <1>3, <1>4, CallStep, CallFacts DEF GrantManually

(* Moving on with the row kept, or dropped, before the row is saved. *)
LEMMA GotoStep ==
  ASSUME IInv, NEW w \in Workers, NEW pc \in {"checkReference", "insert"},
         call[w].pc \in {"lookup", "checkReference"}, Goto(w, pc),
         UNCHANGED <<invoice, payment, events, pollJobs, faults, history>>
  PROVE  IInv'
<1> DEFINE c == [call[w] EXCEPT !.pc = pc]
<1>1. c \in Call /\ c.pc = pc /\ c.row = call[w].row /\ c.kind = call[w].kind
      /\ c.pay = call[w].pay /\ c.next = call[w].next
  BY CallFacts, CallMoves DEF Steps
<1>2. HoldsRow(c) /\ KeepsIdentity(c)
  <2> HIDE DEF c
  <2> QED BY <1>1, CallFacts DEF HoldsRow, KeepsIdentity, Holding
<1>3. call' = [call EXCEPT ![w] = c]
  BY DEF Goto
<1> QED
  BY <1>1, <1>2, <1>3, CallStep, CallFacts

(* A call that holds a row goes on without the entity it had in memory. *)
LEMMA AskingFinishStep ==
  ASSUME IInv, NEW w \in Workers, NEW pc \in {"reject", "emitFailed", "schedule", "reschedule"},
         call[w].pc \in Holding, Finish(w, pc), LedgerTyped',
         UNCHANGED <<invoice, payment, events, credits, creditRef, advances>>,
         \A job \in pollJobs' : SoundJob(job), faults' \in 0..MaxFaults
  PROVE  IInv'
<1> DEFINE c == [call[w] EXCEPT !.pc = pc, !.row = NoRow]
<1>1. c \in Call /\ c.pc = pc /\ c.kind = call[w].kind
      /\ c.pay = call[w].pay /\ c.next = call[w].next
  <2>1. call[w] \in Call /\ pc \in Steps
    BY CallFacts DEF Steps
  <2> HIDE DEF c
  <2>2. c = [call[w] EXCEPT !.pc = pc, !.row = NoRow]
    BY DEF c
  <2> QED BY <2>1, <2>2, CallFinishes
<1>2. HoldsRow(c) /\ KeepsIdentity(c)
  <2> HIDE DEF c
  <2> QED BY <1>1, CallFacts DEF HoldsRow, KeepsIdentity, Holding
<1>3. call' = [call EXCEPT ![w] = c]
  BY DEF Finish
<1> QED
  BY <1>1, <1>2, <1>3, AskingCallStep, CallFacts

LEMMA FinishStep ==
  ASSUME IInv, NEW w \in Workers, NEW pc \in {"reject", "emitFailed", "schedule", "reschedule"},
         call[w].pc \in Holding, Finish(w, pc),
         UNCHANGED <<invoice, payment, events, history>>,
         \A job \in pollJobs' : SoundJob(job), faults' \in 0..MaxFaults
  PROVE  IInv'
BY QuietLedger, AskingFinishStep

(* The lookup of the idempotency key writes nothing. *)
LEMMA LookupKeyStep ==
  ASSUME IInv, NEW w \in Workers, LookupKey(w)
  PROVE  IInv'
<1>1. CASE KeyTaken(call[w].row.key)
  BY <1>1, ReturnStep, CallFacts DEF LookupKey
<1>2. CASE ~KeyTaken(call[w].row.key)
  BY <1>2, GotoStep DEF LookupKey
<1> QED
  BY <1>1, <1>2

(* The check of the reference writes nothing. *)
LEMMA AssertReferenceUnusedStep ==
  ASSUME IInv, NEW w \in Workers, AssertReferenceUnused(w)
  PROVE  IInv'
<1>1. Return(w) \/ Goto(w, "insert")
  BY DEF AssertReferenceUnused
<1>2. UNCHANGED <<invoice, payment, events, pollJobs, faults, history>>
      /\ call[w].pc = "checkReference"
  BY DEF AssertReferenceUnused
<1>3. CASE Return(w)
  BY <1>2, <1>3, ReturnStep, CallFacts
<1>4. CASE Goto(w, "insert")
  BY <1>2, <1>4, GotoStep
<1> QED
  BY <1>1, <1>3, <1>4

(* A job taken from the queue names a row, and so does the call it starts. *)
LEMMA PollOnceStep ==
  ASSUME IInv, NEW w \in Workers, NEW job \in PollJob, PollOnce(w, job)
  PROVE  IInv'
<1> DEFINE c == [Idle EXCEPT !.kind = "poll", !.pc = "gateway", !.pay = job.pay,
                             !.row = payment[job.pay], !.next = job.next]
<1>1. job.pay \in Payments /\ job.next \in 1..PollSlots 
      /\ payment[job.pay] \in Row /\ payment[job.pay].status # "absent"
      /\ \A j \in pollJobs' : SoundJob(j)
  BY CallFacts DEF PollOnce, PollJob, SoundJob
<1>2. CASE UNCHANGED call
  <2>1. call' = [call EXCEPT ![w] = Idle]
    BY <1>2 DEF PollOnce, IInv, TypeOK
  <2> QED
    BY <1>1, <2>1, CallStep, CallFacts, IdleHoldsNothing, ValuesTyped DEF PollOnce
<1>3. CASE call' = [call EXCEPT ![w] = c]
  <2>1. c \in Call /\ c.pc = "gateway" /\ c.kind = "poll" /\ c.pay = job.pay
        /\ c.row = payment[job.pay] /\ c.next = job.next
    <3> DEFINE row == payment[job.pay]  pay == job.pay  next == job.next
    <3>1. row \in Row /\ pay \in Payments /\ next \in 1..PollSlots
      BY <1>1
    <3>2. c = [Idle EXCEPT !.kind = "poll", !.pc = "gateway", !.pay = pay, !.row = row,
                           !.next = next]
      OBVIOUS
    <3> HIDE DEF row, pay, next, c
    <3>3. c \in Call /\ c.pc = "gateway" /\ c.kind = "poll" /\ c.pay = pay
          /\ c.row = row /\ c.next = next
      <4>1. next \in 0..PollSlots /\ pay \in Payments \cup {None}
        BY <3>1, PaymentsAssumption
      <4>2. c = [kind |-> "poll", pc |-> "gateway", pay |-> pay, row |-> row,
                 result |-> NoResult, next |-> next]
        BY <3>2 DEF Idle
      <4> QED
        BY <3>1, <4>1, <4>2, ValuesTyped DEF Call
    <3> QED
      BY <3>3 DEF row, pay, next
  <2> HIDE DEF c
  <2>2. HoldsRow(c) /\ KeepsIdentity(c)
    BY <1>1, <2>1 DEF HoldsRow, KeepsIdentity, Holding
  <2> QED
    BY <1>1, <1>3, <2>1, <2>2, CallStep, CallFacts DEF PollOnce
<1> QED
  BY <1>2, <1>3 DEF PollOnce

(* A chain goes on in the next slot of the schedule, or ends. *)
LEMMA RescheduleStep ==
  ASSUME IInv, NEW w \in Workers, Reschedule(w)
  PROVE  IInv'
<1>1. call[w].pay \in Payments /\ payment[call[w].pay].status # "absent"
      /\ call[w].next \in 0..PollSlots
  BY CallFacts DEF Reschedule, HoldsRow, Holding, Call
<1>2. \A job \in pollJobs' : SoundJob(job)
  BY <1>1, CallFacts, PaymentsAssumption DEF Reschedule, SoundJob, PollJob
<1> QED
  BY <1>2, ReturnStep, CallFacts DEF Reschedule

(* The first polling job of a payment names its row. *)
LEMMA SchedulePollingStep ==
  ASSUME IInv, NEW w \in Workers, SchedulePolling(w)
  PROVE  IInv'
<1>1. call[w].pay \in Payments /\ payment[call[w].pay].status # "absent"
  BY CallFacts DEF SchedulePolling, HoldsRow, Holding
<1>2. \A job \in pollJobs' : SoundJob(job)
  BY <1>1, CallFacts, PaymentsAssumption DEF SchedulePolling, SoundJob, PollJob
<1> QED
  BY <1>2, ReturnStep, CallFacts DEF SchedulePolling

(* createPayment and submitOtp keep the answer, pollOnce applies it to the row *)
(* it read, which is still a row of the same invoice and key.                 *)
LEMMA GatewayAnswersStep ==
  ASSUME IInv, NEW w \in Workers, NEW result \in Result, GatewayAnswers(w, result)
  PROVE  IInv'
<1> DEFINE d == call[w]
<1>1. /\ d \in Call /\ d.row \in Row /\ HoldsRow(d) /\ KeepsIdentity(d) /\ d.pc = "gateway"
      /\ d.pay \in Payments /\ payment[d.pay].status # "absent"
  BY CallFacts DEF GatewayAnswers, HoldsRow, Holding
<1>2. result.status \in PaymentStatus \ {"absent"}
  BY AnswersAreStatuses DEF GatewayAnswers
<1>3. LedgerTyped'
  BY OneMoreTyped DEF GatewayAnswers, LedgerTyped, IInv, TypeOK
<1>4. UNCHANGED <<invoice, payment, events, pollJobs, faults, credits, creditRef, advances>>
  BY DEF GatewayAnswers
<1> HIDE DEF d
<1>5. CASE d.kind # "poll"
  <2> DEFINE c == [d EXCEPT !.pc = "reread", !.result = result]
  <2>1. c \in Call /\ c.pc = "reread" /\ c.result = result /\ c.kind = d.kind
        /\ c.pay = d.pay /\ c.next = d.next
    BY <1>1 DEF Call
  <2>2. call' = [call EXCEPT ![w] = c]
    BY <1>5 DEF GatewayAnswers, d
  <2> HIDE DEF c
  <2>3. HoldsRow(c) /\ KeepsIdentity(c)
    BY <1>1, <1>2, <1>5, <2>1 DEF HoldsRow, KeepsIdentity, Holding
  <2> QED
    BY <1>3, <1>4, <2>1, <2>2, <2>3, AskingCallStep, CallFacts
<1>6. CASE d.kind = "poll" /\ result.status = "pending"
  <2>1. Finish(w, "reschedule")
    BY <1>6 DEF GatewayAnswers, Finish, d
  <2> QED
    BY <1>1, <1>3, <1>4, <2>1, AskingFinishStep, CallFacts DEF GatewayAnswers, Holding
<1>7. CASE d.kind = "poll" /\ result.status # "pending"
  <2> DEFINE row == Applied(d.row, result)
             c == [d EXCEPT !.pc = "save", !.row = row]
  <2>1. row \in Row /\ row.inv = d.row.inv /\ row.key = d.row.key
        /\ row.method = d.row.method /\ row.status = result.status
    BY <1>1, <1>2, AppliedTyped
  <2>2. call' = [call EXCEPT ![w] = c]
    BY <1>7 DEF GatewayAnswers, d
  <2> HIDE DEF row
  <2>3. c \in Call /\ c.pc = "save" /\ c.row = row /\ c.kind = d.kind
        /\ c.pay = d.pay /\ c.next = d.next
    BY <1>1, <2>1 DEF Call
  <2> HIDE DEF c
  <2>4. HoldsRow(c) /\ KeepsIdentity(c)
    BY <1>1, <1>2, <1>7, <2>1, <2>3 DEF HoldsRow, KeepsIdentity, Holding
  <2> QED
    BY <1>3, <1>4, <2>2, <2>3, <2>4, AskingCallStep, CallFacts
<1> QED
  BY <1>5, <1>6, <1>7

(* A gateway error ends the request or leads the job to reschedule. *)
LEMMA GatewayFailsStep ==
  ASSUME IInv, NEW w \in Workers, GatewayFails(w)
  PROVE  IInv'
<1>1. LedgerTyped'
  BY OneMoreTyped DEF GatewayFails, LosesAnswer, LedgerTyped, IInv, TypeOK
<1>2. CASE call[w].kind = "poll"
  BY <1>1, <1>2, AskingFinishStep, CallFacts DEF GatewayFails, Holding
<1>3. CASE call[w].kind # "poll"
  BY <1>1, <1>3, AskingReturnStep, CallFacts DEF GatewayFails
<1> QED
  BY <1>2, <1>3

(* The row is read again, so what is saved is of the row's invoice and key. *)
LEMMA ApplyGatewayResultStep ==
  ASSUME IInv, NEW w \in Workers, ApplyGatewayResult(w)
  PROVE  IInv'
<1> DEFINE d == call[w]
           row == Applied(payment[d.pay], d.result)
           c == [d EXCEPT !.pc = "save", !.result = NoResult, !.row = row]
<1>1. /\ d \in Call /\ HoldsRow(d) /\ d.pc = "reread" /\ d.result \in Result
      /\ d.pay \in Payments /\ payment[d.pay] \in Row /\ payment[d.pay].status # "absent"
      /\ d.result.status \in PaymentStatus \ {"absent"}
  BY CallFacts DEF ApplyGatewayResult, HoldsRow, Holding
<1>2. row \in Row /\ row.inv = payment[d.pay].inv /\ row.key = payment[d.pay].key
      /\ row.method = payment[d.pay].method /\ row.status # "absent"
  BY <1>1, AppliedTyped
<1>3. call' = [call EXCEPT ![w] = c]
  BY DEF ApplyGatewayResult
<1> HIDE DEF d, row
<1>4. c \in Call /\ c.pc = "save" /\ c.row = row /\ c.kind = d.kind
      /\ c.pay = d.pay /\ c.next = d.next
  BY <1>1, <1>2, ValuesTyped DEF Call
<1> HIDE DEF c
<1>5. HoldsRow(c) /\ KeepsIdentity(c)
  BY <1>1, <1>2, <1>4 DEF HoldsRow, KeepsIdentity, Holding
<1> QED
  BY <1>3, <1>4, <1>5, CallStep, CallFacts DEF ApplyGatewayResult

(* A handler that dies leaves the tables alone; its job, handed out again, names a row. *)
LEMMA AbortStep ==
  ASSUME IInv, NEW w \in Workers, Abort(w)
  PROVE  IInv'
<1>1. faults' \in 0..MaxFaults
  BY CallFacts, PaymentsAssumption DEF Abort
<1>2. call[w].kind = "poll" =>
        /\ call[w].pc \in Holding
        /\ SoundJob([pay |-> call[w].pay, next |-> call[w].next])
  BY CallFacts DEF HoldsRow, SoundJob, PollJob
<1>3. LedgerTyped'
  BY OneMoreTyped DEF Abort, LosesAnswer, LedgerTyped, IInv, TypeOK
<1>4. CASE Return(w) /\ UNCHANGED pollJobs
  BY <1>1, <1>3, <1>4, AskingReturnStep, CallFacts DEF Abort
<1>5. CASE call[w].kind = "poll" /\ Finish(w, "reschedule") /\ UNCHANGED pollJobs
  BY <1>1, <1>2, <1>3, <1>5, AskingFinishStep, CallFacts DEF Abort
<1>6. CASE /\ call[w].kind = "poll" /\ Return(w)
           /\ pollJobs' = pollJobs \cup {[pay |-> call[w].pay, next |-> call[w].next]}
  BY <1>1, <1>2, <1>3, <1>6, AskingReturnStep, CallFacts DEF Abort
<1> QED
  BY <1>4, <1>5, <1>6 DEF Abort

(* A job handed out twice names the same row. *)
LEMMA StalledJobStep ==
  ASSUME IInv, NEW w \in Workers, StalledJob(w)
  PROVE  IInv'
<1>1. faults' \in 0..MaxFaults
  BY CallFacts, PaymentsAssumption DEF StalledJob
<1>2. SoundJob([pay |-> call[w].pay, next |-> call[w].next])
  BY CallFacts DEF StalledJob, HoldsRow, SoundJob, PollJob
<1>3. UNCHANGED <<invoice, payment, events, call, history>>
  BY DEF StalledJob
<1>4. TypeOK' /\ JobsHoldRows'
  BY <1>1, <1>2, <1>3 DEF StalledJob, IInv, TypeOK, JobsHoldRows, SoundJob, history
<1>5. PaidByOnePayment' /\ AdvancedAtMostOnce' /\ RowsExist'
  BY <1>3 DEF IInv, PaidByOnePayment, AdvancedAtMostOnce, RowsExist, history
<1>6. CallsHoldRows' /\ CallsKeepIdentity'
  BY <1>3 DEF IInv, CallsHoldRows, CallsKeepIdentity, HoldsRow, KeepsIdentity
<1>7. OneAdvancer' /\ AnnouncersPaid'
  BY <1>3 DEF IInv, OneAdvancer, AnnouncersPaid, history
<1> QED
  BY <1>4, <1>5, <1>6, <1>7 DEF IInv

-----------------------------------------------------------------------------
(* Steps that write the payment table *)

(* No write takes a row away, or gives it to another invoice, key or method. *)
RowsKept ==
  \A p \in Payments :
    payment[p].status # "absent" =>
      payment'[p].status # "absent" /\ payment'[p].inv = payment[p].inv
                                    /\ payment'[p].key = payment[p].key
                                    /\ payment'[p].method = payment[p].method

(* What a call relies on survives such a write. *)
LEMMA OthersKeepRows ==
  ASSUME IInv, NEW v \in Workers, call'[v] = call[v], RowsKept
  PROVE  HoldsRow(call[v])' /\ KeepsIdentity(call[v])'
<1>1. HoldsRow(call[v]) /\ KeepsIdentity(call[v])
  BY CallFacts
<1> QED
  BY <1>1 DEF HoldsRow, KeepsIdentity, RowsKept, Holding

(* A payment that was credited is a row of the invoice it paid. *)
LEMMA CreditedExist ==
  ASSUME IInv, NEW i \in Invoices, NEW p \in credits[i]
  PROVE  p \in Payments /\ payment[p].status # "absent" /\ payment[p].inv = i
<1>1. p \in Payments /\ payment[p].inv = i
  BY DEF IInv, TypeOK, PaidByOnePayment
<1>2. payment[p] # NoRow
  BY <1>1, PaymentsAssumption DEF NoRow
<1> QED
  BY <1>1, <1>2 DEF IInv, RowsExist

(* A call that writes the payment table, keeping every row's invoice and key. *)
LEMMA PaymentStep ==
  ASSUME IInv, NEW w \in Workers, NEW c \in Call,
         call' = [call EXCEPT ![w] = c],
         payment' \in [Payments -> Row], RowsKept, RowsExist',
         LedgerTyped',
         UNCHANGED <<invoice, events, pollJobs, faults, credits, creditRef, advances>>,
         HoldsRow(call[w])', KeepsIdentity(call[w])', c.pc \notin {"advance", "emitSucceeded"}
  PROVE  IInv'
<1>1. /\ call \in [Workers -> Call] /\ call'[w] = c
      /\ \A v \in Workers : v # w => call'[v] = call[v]
  BY DEF IInv, TypeOK
<1>2. TypeOK'
  BY <1>1 DEF IInv, TypeOK, LedgerTyped
<1>3. JobsHoldRows'
  BY DEF IInv, JobsHoldRows, SoundJob, RowsKept, PollJob
<1>4. PaidByOnePayment'
  <2>1. \A i \in Invoices : \A p \in credits[i] : payment'[p].inv = i
    BY CreditedExist DEF RowsKept
  <2> QED
    BY <2>1 DEF IInv, PaidByOnePayment
<1>5. AdvancedAtMostOnce'
  BY DEF IInv, AdvancedAtMostOnce
<1>6. CallsHoldRows' /\ CallsKeepIdentity'
  BY <1>1, OthersKeepRows DEF CallsHoldRows, CallsKeepIdentity
<1>7. OneAdvancer'
  BY <1>1 DEF IInv, OneAdvancer
<1>8. AnnouncersPaid'
  <2>1. \A v \in Workers : call[v].pc = "emitSucceeded" =>
          call[v].pay \in Payments /\ payment[call[v].pay].status # "absent"
    BY CallFacts DEF HoldsRow, Holding
  <2> QED
    BY <1>1, <2>1 DEF IInv, AnnouncersPaid, RowsKept
<1> QED
  BY <1>2, <1>3, <1>4, <1>5, <1>6, <1>7, <1>8 DEF IInv

(* A free id gets the row, and its key the first charge. *)
LEMMA InsertPaymentStep ==
  ASSUME IInv, NEW w \in Workers, InsertPayment(w)
  PROVE  IInv'
<1> DEFINE d == call[w]
<1>1. /\ d \in Call /\ d.row \in Row /\ d.pc = "insert"
      /\ d.row.inv \in Invoices /\ d.row.status # "absent"
  BY CallFacts DEF InsertPayment, HoldsRow
<1>2. CASE Return(w) /\ UNCHANGED <<payment, charges>>
  BY <1>2, ReturnStep, CallFacts DEF InsertPayment, history
<1>3. ASSUME NEW p \in Payments, payment[p].status = "absent",
             payment' = [payment EXCEPT ![p] = d.row], ~KeyTaken(d.row.key),
             \/ Return(w) /\ UNCHANGED charges
             \/ /\ call' = [call EXCEPT ![w].pc = "gateway", ![w].pay = p, ![w].row = NoRow]
                /\ charges' = OneMore(charges, d.row.key)
      PROVE  IInv'
  <2>1. /\ payment' \in [Payments -> Row] /\ payment'[p] = d.row
        /\ \A q \in Payments : q # p => payment'[q] = payment[q]
    BY <1>1, <1>3 DEF IInv, TypeOK
  <2>2. RowsKept /\ RowsExist'
    BY <1>1, <1>3, <2>1 DEF RowsKept, RowsExist, IInv
  <2>4. LedgerTyped'
    <3>1. UNCHANGED reasons /\ (UNCHANGED charges \/ charges' = OneMore(charges, d.row.key))
      BY <1>3 DEF InsertPayment
    <3>2. charges \in [Keys -> Nat] /\ reasons \in [Keys -> Nat]
      BY DEF IInv, TypeOK
    <3>3. OneMore(charges, d.row.key) \in [Keys -> Nat]
      BY <3>2, OneMoreTyped
    <3> QED
      BY <3>1, <3>2, <3>3 DEF LedgerTyped
  <2>5. UNCHANGED <<invoice, events, pollJobs, faults, credits, creditRef, advances>>
    BY DEF InsertPayment
  <2>6. CASE Return(w)
    <3>1. HoldsRow(call[w])' /\ KeepsIdentity(call[w])'
      BY <2>6 DEF Return, IInv, TypeOK, HoldsRow, KeepsIdentity, Holding, Idle
    <3> QED
      BY <2>1, <2>2, <2>4, <2>5, <2>6, <3>1, PaymentStep, ValuesTyped, IdleHoldsNothing DEF Return
  <2>7. CASE call' = [call EXCEPT ![w].pc = "gateway", ![w].pay = p, ![w].row = NoRow]
    <3> DEFINE c == [d EXCEPT !.pc = "gateway", !.pay = p, !.row = NoRow]
    <3>1. c \in Call /\ c.pc = "gateway" /\ c.pay = p /\ c.kind = d.kind /\ c.next = d.next
      <4> HIDE DEF d
      <4> QED BY <1>1, ValuesTyped DEF Call
    <3>2. call' = [call EXCEPT ![w] = c]
      BY <2>7
    <3>3. d.kind # "poll"
      BY <1>1, CallFacts DEF HoldsRow, Holding
    <3>4. call'[w] = c
      BY <3>2 DEF IInv, TypeOK
    <3> HIDE DEF c, d
    <3>5. HoldsRow(call[w])' /\ KeepsIdentity(call[w])'
      BY <1>1, <2>1, <3>1, <3>3, <3>4 DEF HoldsRow, KeepsIdentity, Holding
    <3> QED
      BY <2>1, <2>2, <2>4, <2>5, <3>1, <3>2, <3>5, PaymentStep
  <2> QED
    BY <1>3, <2>6, <2>7
<1> QED
  BY <1>2, <1>3 DEF InsertPayment

(* A saved row keeps its invoice, its key and its method. *)
LEMMA SavedRowKept ==
  ASSUME IInv, NEW p \in Payments, NEW row \in Row, payment[p].status # "absent",
         row.status # "absent", row.inv = payment[p].inv, row.key = payment[p].key,
         row.method = payment[p].method,
         payment' = [payment EXCEPT ![p] = row], UNCHANGED <<charges, reasons>>
  PROVE  /\ payment' \in [Payments -> Row] /\ payment'[p] = row
         /\ RowsKept /\ RowsExist' /\ LedgerTyped'
<1>1. /\ payment' \in [Payments -> Row] /\ payment'[p] = row
      /\ \A q \in Payments : q # p => payment'[q] = payment[q]
  BY DEF IInv, TypeOK
<1>2. RowsKept /\ RowsExist'
  BY <1>1 DEF RowsKept, RowsExist, IInv
<1>3. LedgerTyped'
  BY DEF LedgerTyped, IInv, TypeOK
<1> QED
  BY <1>1, <1>2, <1>3

(* Saving the entity in memory keeps the row's invoice and key, stale or not. *)
LEMMA SavePaymentStep ==
  ASSUME IInv, NEW w \in Workers, SavePayment(w)
  PROVE  IInv'
<1> DEFINE d == call[w]
<1>1. /\ d \in Call /\ d.row \in Row /\ d.pc = "save" /\ HoldsRow(d)
      /\ d.pay \in Payments /\ payment[d.pay].status # "absent"
      /\ d.row.inv = payment[d.pay].inv /\ d.row.key = payment[d.pay].key
      /\ d.row.method = payment[d.pay].method /\ d.row.status # "absent"
  BY CallFacts DEF SavePayment, HoldsRow, KeepsIdentity, Holding
<1>2. UNCHANGED <<invoice, events, pollJobs, faults, history>>
  BY DEF SavePayment
<1>3. CASE Finish(w, "reject") /\ UNCHANGED payment
  BY <1>1, <1>2, <1>3, FinishStep, CallFacts DEF Holding
<1>4. ASSUME payment' = [payment EXCEPT ![d.pay] = d.row], NEW c \in Call,
             call' = [call EXCEPT ![w] = c],
             \/ c.pc = "settle" /\ c.row = d.row /\ c.kind = d.kind
             \/ c.pc \in {"emitFailed", "schedule"} /\ c.kind = d.kind
             \/ c = Idle,
             c.pc = "idle" \/ (c.pay = d.pay /\ c.next = d.next)
      PROVE  IInv'
  <2>1. /\ payment' \in [Payments -> Row] /\ payment'[d.pay] = d.row
        /\ RowsKept /\ RowsExist' /\ LedgerTyped'
    BY <1>1, <1>2, <1>4, SavedRowKept DEF history
  <2>2. call'[w] = c
    BY <1>4 DEF IInv, TypeOK
  <2>3. c.pc \notin {"advance", "emitSucceeded"}
    BY <1>4, IdleHoldsNothing
  <2>4. HoldsRow(call[w])' /\ KeepsIdentity(call[w])'
    <3> HIDE DEF d
    <3>1. CASE c = Idle
      BY <2>2, <3>1 DEF HoldsRow, KeepsIdentity, Holding, Idle
    <3>2. CASE c # Idle
      BY <1>1, <1>4, <2>1, <2>2, <3>2, IdleHoldsNothing DEF HoldsRow, KeepsIdentity, Holding
    <3> QED
      BY <3>1, <3>2
  <2> QED
    BY <1>2, <1>4, <2>1, <2>3, <2>4, PaymentStep DEF history
<1>5. ASSUME payment' = [payment EXCEPT ![d.pay] = d.row], Goto(w, "settle")
      PROVE  IInv'
  <2> DEFINE c == [d EXCEPT !.pc = "settle"]
  <2>1. c \in Call /\ c.pc = "settle" /\ c.row = d.row /\ c.kind = d.kind
        /\ c.pay = d.pay /\ c.next = d.next
    BY <1>1, CallMoves DEF Steps
  <2>2. call' = [call EXCEPT ![w] = c]
    BY <1>5 DEF Goto
  <2> HIDE DEF c
  <2> QED
    BY <1>4, <1>5, <2>1, <2>2
<1>6. ASSUME payment' = [payment EXCEPT ![d.pay] = d.row],
             NEW pc \in {"emitFailed", "schedule"}, Finish(w, pc)
      PROVE  IInv'
  <2> DEFINE c == [d EXCEPT !.pc = pc, !.row = NoRow]
  <2>1. c \in Call /\ c.pc = pc /\ c.kind = d.kind /\ c.pay = d.pay /\ c.next = d.next
    <3>1. pc \in Steps
      BY DEF Steps
    <3> HIDE DEF c
    <3>2. c = [d EXCEPT !.pc = pc, !.row = NoRow]
      BY DEF c
    <3> QED
      BY <1>1, <3>1, <3>2, CallFinishes
  <2>2. call' = [call EXCEPT ![w] = c]
    BY <1>6 DEF Finish
  <2> HIDE DEF c
  <2> QED
    BY <1>4, <1>6, <2>1, <2>2
<1>7. ASSUME payment' = [payment EXCEPT ![d.pay] = d.row], Return(w)
      PROVE  IInv'
  BY <1>4, <1>7, ValuesTyped, IdleHoldsNothing DEF Return
<1>8. CASE /\ payment' = [payment EXCEPT ![d.pay] = d.row]
           /\ \/ Goto(w, "settle") \/ Return(w)
              \/ \E pc \in {"emitFailed", "schedule"} : Finish(w, pc)
  BY <1>5, <1>6, <1>7, <1>8
<1> QED
  BY <1>3, <1>8 DEF SavePayment

(* Failing a payment whose reference is taken keeps its invoice and key. *)
LEMMA RejectDuplicateStep ==
  ASSUME IInv, NEW w \in Workers, RejectDuplicate(w)
  PROVE  IInv'
<1> DEFINE d == call[w]
           row == [payment[d.pay] EXCEPT !.status = "failed",
                                         !.failure = "REFERENCE_ALREADY_USED"]
           c == [d EXCEPT !.pc = "emitFailed"]
<1>1. /\ d \in Call /\ HoldsRow(d) /\ d.pc = "reject" /\ d.pay \in Payments
      /\ payment[d.pay] \in Row /\ payment[d.pay].status # "absent"
  BY CallFacts DEF RejectDuplicate, HoldsRow, Holding
<1>2. /\ row \in Row /\ row.inv = payment[d.pay].inv /\ row.key = payment[d.pay].key
      /\ row.method = payment[d.pay].method /\ row.status = "failed"
  BY <1>1 DEF Row, PaymentStatus
<1>3. c \in Call /\ c.pc = "emitFailed" /\ c.kind = d.kind /\ c.pay = d.pay /\ c.next = d.next
  BY <1>1, CallMoves DEF Steps
<1>4. payment' = [payment EXCEPT ![d.pay] = row] /\ call' = [call EXCEPT ![w] = c]
  BY DEF RejectDuplicate, Goto
<1>5. UNCHANGED <<invoice, events, pollJobs, faults, history>>
  BY DEF RejectDuplicate
<1> HIDE DEF row, c, d
<1>6. /\ payment' \in [Payments -> Row] /\ payment'[d.pay] = row
      /\ RowsKept /\ RowsExist' /\ LedgerTyped'
  BY <1>1, <1>2, <1>4, <1>5, SavedRowKept DEF history
<1>7. call'[w] = c
  BY <1>4 DEF IInv, TypeOK
<1>8. HoldsRow(call[w])' /\ KeepsIdentity(call[w])'
  BY <1>1, <1>2, <1>3, <1>6, <1>7 DEF HoldsRow, KeepsIdentity, Holding
<1> QED
  BY <1>3, <1>4, <1>5, <1>6, <1>8, PaymentStep DEF history

-----------------------------------------------------------------------------
(* Steps that settle an invoice *)

(* An event is added; no row changes and the call ends. *)
LEMMA EmitStep ==
  ASSUME IInv, NEW w \in Workers, EmitPaymentSucceeded(w) \/ EmitPaymentFailed(w)
  PROVE  IInv'
<1>1. /\ Return(w) /\ UNCHANGED <<invoice, payment, pollJobs, faults, history>>
      /\ call[w].pc \in {"emitSucceeded", "emitFailed"}
      /\ \/ call[w].pc = "emitSucceeded"
            /\ events' = events \cup {<<"payment.succeeded", call[w].pay>>}
         \/ events' = events \cup {<<"payment.failed", call[w].pay>>}
  BY DEF EmitPaymentSucceeded, EmitPaymentFailed, Emit
<1>2. call[w].pay \in Payments /\ payment[call[w].pay].status # "absent"
  BY <1>1, CallFacts DEF HoldsRow, Holding
<1>3. /\ call \in [Workers -> Call] /\ call'[w] = Idle
      /\ \A v \in Workers : v # w => call'[v] = call[v]
  BY <1>1 DEF IInv, TypeOK, Return
<1>4. events' \subseteq Event
  BY <1>1, <1>2 DEF IInv, TypeOK, Event
<1>5. TypeOK'
  BY <1>1, <1>3, <1>4, ValuesTyped DEF IInv, TypeOK, history, Return
<1>6. PaidByOnePayment'
  <2>1. \A i \in Invoices : <<"invoice.paid", i>> \in events' <=> <<"invoice.paid", i>> \in events
    BY <1>1
  <2> QED
    BY <1>1, <2>1 DEF IInv, PaidByOnePayment, history
<1>7. AdvancedAtMostOnce' /\ RowsExist' /\ JobsHoldRows'
  BY <1>1 DEF IInv, AdvancedAtMostOnce, RowsExist, JobsHoldRows, SoundJob, history
<1>8. CallsHoldRows' /\ CallsKeepIdentity'
  BY <1>1, <1>3, IdleHoldsNothing
     DEF IInv, CallsHoldRows, CallsKeepIdentity, HoldsRow, KeepsIdentity
<1>9. OneAdvancer'
  BY <1>1, <1>3, IdleHoldsNothing DEF IInv, OneAdvancer, history
<1>10. AnnouncersPaid'
  <2>1. \A v \in Workers : call'[v].pc = "emitSucceeded" =>
          invoice[payment[call'[v].pay].inv] = "paid"
    BY <1>3, IdleHoldsNothing DEF IInv, AnnouncersPaid
  <2>2. \A p \in Payments : <<"payment.succeeded", p>> \in events' =>
          payment[p].status # "absent" /\ invoice[payment[p].inv] = "paid"
    BY <1>1, <1>2 DEF IInv, AnnouncersPaid
  <2> QED
    BY <1>1, <2>1, <2>2 DEF AnnouncersPaid
<1> QED
  BY <1>5, <1>6, <1>7, <1>8, <1>9, <1>10 DEF IInv

(* The winner advances the subscription, or fails to, and goes on. *)
LEMMA AdvanceSubscriptionStep ==
  ASSUME IInv, NEW w \in Workers, AdvanceSubscription(w)
  PROVE  IInv'
<1> DEFINE i == call[w].row.inv
           c == [call[w] EXCEPT !.pc = "emitSucceeded", !.row = NoRow]
<1>1. /\ call[w].pay \in Payments /\ payment[call[w].pay].status # "absent"
      /\ i = payment[call[w].pay].inv /\ i \in Invoices
      /\ invoice[i] = "paid" /\ advances[i] = 0
  BY CallFacts DEF AdvanceSubscription, HoldsRow, KeepsIdentity, Holding, IInv, RowsExist, OneAdvancer
<1>2. c \in Call /\ c.pc = "emitSucceeded" /\ c.kind = call[w].kind
      /\ c.pay = call[w].pay /\ c.next = call[w].next
  <2>1. call[w] \in Call /\ "emitSucceeded" \in Steps
    BY CallFacts DEF Steps
  <2> HIDE DEF c
  <2>2. c = [call[w] EXCEPT !.pc = "emitSucceeded", !.row = NoRow]
    BY DEF c
  <2> QED
    BY <2>1, <2>2, CallFinishes
<1>3. /\ call \in [Workers -> Call] /\ call'[w] = c
      /\ \A v \in Workers : v # w => call'[v] = call[v]
  BY DEF IInv, TypeOK, AdvanceSubscription, Finish
<1>4. /\ UNCHANGED <<invoice, payment, events, pollJobs, faults, credits, creditRef,
                   charges, reasons>>
      /\ advances' = advances \/ advances' = [advances EXCEPT ![i] = @ + 1]
  BY DEF AdvanceSubscription
<1>5. /\ advances' \in [Invoices -> Nat] /\ advances'[i] \in {0, 1}
      /\ \A j \in Invoices : j # i => advances'[j] = advances[j]
  BY <1>1, <1>4 DEF IInv, TypeOK
<1>6. call' \in [Workers -> Call]
  BY <1>2, <1>3 DEF AdvanceSubscription, Finish
<1> HIDE DEF c
<1>7. TypeOK'
  BY <1>4, <1>5, <1>6 DEF IInv, TypeOK
<1>8. PaidByOnePayment' /\ RowsExist' /\ JobsHoldRows'
  BY <1>4 DEF IInv, PaidByOnePayment, RowsExist, JobsHoldRows, SoundJob
<1>9. AdvancedAtMostOnce'
  BY <1>1, <1>4, <1>5 DEF IInv, AdvancedAtMostOnce
<1>10. CallsHoldRows' /\ CallsKeepIdentity'
  <2>1. HoldsRow(call[w])' /\ KeepsIdentity(call[w])'
    BY <1>1, <1>2, <1>3, <1>4, CallFacts DEF HoldsRow, KeepsIdentity, Holding
  <2>2. RowsKept
    BY <1>4 DEF RowsKept
  <2> QED
    BY <1>3, <2>1, <2>2, OthersKeepRows DEF CallsHoldRows, CallsKeepIdentity
<1>11. OneAdvancer'
  <2>1. ASSUME NEW v \in Workers, call'[v].pc = "advance"
        PROVE  invoice'[call'[v].row.inv] = "paid" /\ advances'[call'[v].row.inv] = 0
    <3>1. v # w /\ call'[v] = call[v]
      BY <1>2, <1>3, <2>1
    <3>2. call[v].row.inv # i /\ call[v].row.inv \in Invoices
      BY <2>1, <3>1, CallFacts
         DEF IInv, OneAdvancer, AdvanceSubscription, RowsExist, KeepsIdentity, HoldsRow, Holding
    <3> QED
      BY <1>4, <1>5, <2>1, <3>1, <3>2 DEF IInv, OneAdvancer
  <2>2. \A u, v \in Workers :
          u # v /\ call'[u].pc = "advance" /\ call'[v].pc = "advance" =>
            call'[u].row.inv # call'[v].row.inv
    BY <1>2, <1>3 DEF IInv, OneAdvancer
  <2> QED
    BY <2>1, <2>2 DEF OneAdvancer
<1>12. AnnouncersPaid'
  BY <1>1, <1>2, <1>3, <1>4 DEF IInv, AnnouncersPaid
<1> QED
  BY <1>7, <1>8, <1>9, <1>10, <1>11, <1>12 DEF IInv

(* An invoice that was open gets its one payment, and the call that won it is *)
(* the only one to advance its subscription.                                  *)
LEMMA WinnerStep ==
  ASSUME IInv, NEW w \in Workers, NEW i \in Invoices, NEW p \in Payments, NEW c \in Call,
         Credit(i, p), call' = [call EXCEPT ![w] = c],
         creditRef' \in [Invoices -> References \cup {None}],
         payment' \in [Payments -> Row], RowsKept, RowsExist',
         payment'[p].status # "absent", payment'[p].inv = i, payment'[p].key = c.row.key,
         payment'[p].method = c.row.method,
         c.pc = "advance", c.pay = p, c.row.inv = i, c.row.status # "absent",
         c.kind = "poll" => c.next \in 1..PollSlots,
         UNCHANGED <<pollJobs, faults, advances, charges, reasons>>
  PROVE  IInv'
<1>1. /\ call \in [Workers -> Call] /\ call'[w] = c
      /\ \A v \in Workers : v # w => call'[v] = call[v]
  BY DEF IInv, TypeOK
<1>2. /\ invoice[i] # "paid" /\ invoice'[i] = "paid" /\ credits[i] = {} /\ credits'[i] = {p}
      /\ \A j \in Invoices : j # i => invoice'[j] = invoice[j] /\ credits'[j] = credits[j]
      /\ \A j \in Invoices : invoice[j] = "paid" => invoice'[j] = "paid"
  BY DEF Credit, IInv, TypeOK, PaidByOnePayment
<1>3. events' = events \cup {<<"invoice.paid", i>>}
  BY DEF Credit
<1>4. TypeOK'
  <2>1. invoice' \in [Invoices -> InvoiceStatus] /\ credits' \in [Invoices -> SUBSET Payments]
    BY DEF Credit, IInv, TypeOK, InvoiceStatus
  <2>2. events' \subseteq Event
    BY <1>3 DEF IInv, TypeOK, Event
  <2> QED
    BY <2>1, <2>2 DEF IInv, TypeOK
<1>5. JobsHoldRows'
  BY DEF IInv, JobsHoldRows, SoundJob, RowsKept, PollJob
<1>6. PaidByOnePayment'
  <2>1. \A j \in Invoices : \A q \in credits[j] : payment'[q].inv = j
    BY CreditedExist DEF RowsKept
  <2>2. \A j \in Invoices : <<"invoice.paid", j>> \in events' <=> (j = i \/ <<"invoice.paid", j>> \in events)
    BY <1>3
  <2>3. ASSUME NEW j \in Invoices
        PROVE  /\ \A q, r \in credits'[j] : q = r
               /\ \A q \in credits'[j] : payment'[q].inv = j
               /\ invoice'[j] = "paid" <=> credits'[j] # {}
               /\ invoice'[j] = "paid" <=> <<"invoice.paid", j>> \in events'
    <3>1. CASE j = i
      BY <1>2, <2>2, <3>1
    <3>2. CASE j # i
      <4>1. invoice'[j] = invoice[j] /\ credits'[j] = credits[j]
        BY <1>2, <3>2
      <4>2. /\ \A q, r \in credits[j] : q = r
            /\ invoice[j] = "paid" <=> credits[j] # {}
            /\ invoice[j] = "paid" <=> <<"invoice.paid", j>> \in events
        BY DEF IInv, PaidByOnePayment
      <4> QED
        BY <2>1, <2>2, <3>2, <4>1, <4>2
    <3> QED
      BY <3>1, <3>2
  <2> QED
    BY <2>3 DEF PaidByOnePayment
<1>7. AdvancedAtMostOnce'
  BY <1>2 DEF IInv, AdvancedAtMostOnce
<1>8. CallsHoldRows' /\ CallsKeepIdentity'
  <2>1. HoldsRow(call[w])' /\ KeepsIdentity(call[w])'
    BY <1>1 DEF HoldsRow, KeepsIdentity, Holding
  <2> QED
    BY <1>1, <2>1, OthersKeepRows DEF CallsHoldRows, CallsKeepIdentity
<1>9. OneAdvancer'
  <2>1. \A v \in Workers : call[v].pc = "advance" =>
          call[v].row.inv \in Invoices /\ call[v].row.inv # i
    BY <1>2, CallFacts DEF IInv, OneAdvancer, RowsExist, KeepsIdentity, HoldsRow, Holding
  <2>2. advances[i] = 0
    BY <1>2 DEF IInv, AdvancedAtMostOnce, TypeOK
  <2>3. \A v \in Workers : call'[v].pc = "advance" =>
          invoice'[call'[v].row.inv] = "paid" /\ advances[call'[v].row.inv] = 0
    BY <1>1, <1>2, <2>1, <2>2 DEF IInv, OneAdvancer
  <2>4. \A u, v \in Workers :
          u # v /\ call'[u].pc = "advance" /\ call'[v].pc = "advance" =>
            call'[u].row.inv # call'[v].row.inv
    BY <1>1, <2>1 DEF IInv, OneAdvancer
  <2> QED
    BY <2>3, <2>4 DEF OneAdvancer
<1>10. AnnouncersPaid'
  <2>1. \A v \in Workers : call[v].pc = "emitSucceeded" =>
          call[v].pay \in Payments /\ payment[call[v].pay].status # "absent"
    BY CallFacts DEF HoldsRow, Holding
  <2>2. \A q \in Payments : payment[q].status # "absent" /\ invoice[payment[q].inv] = "paid" =>
          invoice'[payment'[q].inv] = "paid" /\ payment'[q].status # "absent"
    BY <1>2 DEF RowsKept, IInv, RowsExist
  <2>3. \A q \in Payments : <<"payment.succeeded", q>> \in events' <=> <<"payment.succeeded", q>> \in events
    BY <1>3
  <2> QED
    BY <1>1, <2>1, <2>2, <2>3 DEF IInv, AnnouncersPaid
<1> QED
  BY <1>4, <1>5, <1>6, <1>7, <1>8, <1>9, <1>10 DEF IInv

(* The winner of the invoice is its only advancer; the loser finds it paid. *)
LEMMA OnPaymentSucceededStep ==
  ASSUME IInv, NEW w \in Workers, OnPaymentSucceeded(w)
  PROVE  IInv'
<1> DEFINE d == call[w]
           i == d.row.inv
<1>1. /\ d \in Call /\ d.row \in Row /\ HoldsRow(d) /\ KeepsIdentity(d) /\ d.pc = "settle"
      /\ d.pay \in Payments /\ payment[d.pay].status # "absent"
      /\ i = payment[d.pay].inv /\ i \in Invoices
      /\ d.row.key = payment[d.pay].key /\ d.row.method = payment[d.pay].method
      /\ d.row.status # "absent"
      /\ d.kind = "poll" => d.next \in 1..PollSlots
  BY CallFacts DEF OnPaymentSucceeded, HoldsRow, KeepsIdentity, Holding, IInv, RowsExist
<1>2. UNCHANGED <<payment, pollJobs, faults, advances, charges, reasons>>
  BY DEF OnPaymentSucceeded
<1>3. CASE /\ Credit(i, d.pay) /\ Goto(w, "advance")
           /\ creditRef' = [creditRef EXCEPT ![i] = d.row.ref]
  <2> DEFINE c == [d EXCEPT !.pc = "advance"]
  <2>1. c \in Call /\ c.pc = "advance" /\ c.row = d.row /\ c.kind = d.kind
        /\ c.pay = d.pay /\ c.next = d.next
    BY <1>1, CallMoves DEF Steps
  <2>2. call' = [call EXCEPT ![w] = c]
    BY <1>3 DEF Goto
  <2>3. creditRef' \in [Invoices -> References \cup {None}]
    BY <1>1, <1>3 DEF IInv, TypeOK, Row
  <2>4. payment' \in [Payments -> Row] /\ RowsKept /\ RowsExist'
    BY <1>2 DEF IInv, TypeOK, RowsKept, RowsExist
  <2> HIDE DEF c
  <2> QED
    BY <1>1, <1>2, <1>3, <2>1, <2>2, <2>3, <2>4, WinnerStep
<1>4. CASE /\ invoice[i] = "paid" /\ Finish(w, "emitSucceeded")
           /\ UNCHANGED <<invoice, events, credits, creditRef>>
  <2> DEFINE c == [d EXCEPT !.pc = "emitSucceeded", !.row = NoRow]
  <2>1. c = [d EXCEPT !.pc = "emitSucceeded", !.row = NoRow] /\ "emitSucceeded" \in Steps
    BY DEF Steps
  <2>2. call' = [call EXCEPT ![w] = c]
    BY <1>4 DEF Finish
  <2> HIDE DEF c
  <2>3. c \in Call /\ c.pc = "emitSucceeded" /\ c.kind = d.kind
        /\ c.pay = d.pay /\ c.next = d.next
    BY <1>1, <2>1, CallFinishes
  <2>4. HoldsRow(c) /\ KeepsIdentity(c)
    BY <1>1, <2>3 DEF HoldsRow, KeepsIdentity, Holding
  <2> QED
    BY <1>1, <1>2, <1>4, <2>2, <2>3, <2>4, CallStep, CallFacts DEF history
<1> QED
  BY <1>3, <1>4 DEF OnPaymentSucceeded

(* The manual payment is inserted in the transaction that pays the invoice. *)
LEMMA GrantTransactionStep ==
  ASSUME IInv, NEW w \in Workers, GrantTransaction(w)
  PROVE  IInv'
<1> DEFINE d == call[w]
           i == d.row.inv
<1>1. /\ d \in Call /\ d.row \in Row /\ d.pc = "grant" /\ i \in Invoices
      /\ d.row.status # "absent" /\ d.kind # "poll"
  BY CallFacts DEF GrantTransaction, HoldsRow, Holding
<1>2. UNCHANGED <<pollJobs, faults, advances, charges, reasons>>
  BY DEF GrantTransaction
<1>3. CASE Return(w) /\ UNCHANGED <<invoice, payment, events, credits, creditRef>>
  BY <1>2, <1>3, ReturnStep, CallFacts DEF history
<1>4. ASSUME NEW p \in Payments, payment[p].status = "absent", Credit(i, p),
             payment' = [payment EXCEPT ![p] = d.row],
             creditRef' = [creditRef EXCEPT ![i] = None],
             call' = [call EXCEPT ![w].pc = "advance", ![w].pay = p]
      PROVE  IInv'
  <2> DEFINE c == [d EXCEPT !.pc = "advance", !.pay = p]
  <2>1. call' = [call EXCEPT ![w] = c]
    BY <1>4
  <2>2. /\ payment' \in [Payments -> Row] /\ payment'[p] = d.row
        /\ \A q \in Payments : q # p => payment'[q] = payment[q]
    BY <1>1, <1>4 DEF IInv, TypeOK
  <2>3. RowsKept /\ RowsExist'
    BY <1>1, <1>4, <2>2 DEF RowsKept, RowsExist, IInv
  <2>4. creditRef' \in [Invoices -> References \cup {None}]
    BY <1>4 DEF IInv, TypeOK
  <2>5. c \in Call /\ c.pc = "advance" /\ c.pay = p /\ c.row = d.row /\ c.kind = d.kind
    <3> HIDE DEF d
    <3> QED BY <1>1 DEF Call
  <2>6. /\ payment'[p].status # "absent" /\ payment'[p].inv = i
        /\ payment'[p].key = c.row.key /\ payment'[p].method = c.row.method /\ c.row.inv = i /\ c.row.status # "absent"
        /\ c.kind # "poll"
    BY <1>1, <2>2, <2>5
  <2> HIDE DEF c, d, i
  <2> QED
    BY <1>1, <1>2, <1>4, <2>1, <2>2, <2>3, <2>4, <2>5, <2>6, WinnerStep
<1> QED
  BY <1>3, <1>4 DEF GrantTransaction

-----------------------------------------------------------------------------
(* Theorems *)

(* The invariant reads only the variables of the specification. *)
LEMMA StutterStep ==
  ASSUME IInv, UNCHANGED vars
  PROVE  IInv'
<1> USE DEF vars, history, IInv
<1>1. TypeOK' /\ PaidByOnePayment' /\ AdvancedAtMostOnce' /\ RowsExist'
  BY DEF TypeOK, PaidByOnePayment, AdvancedAtMostOnce, RowsExist
<1>2. JobsHoldRows' /\ CallsHoldRows' /\ CallsKeepIdentity'
  BY DEF JobsHoldRows, SoundJob, CallsHoldRows, HoldsRow, CallsKeepIdentity, KeepsIdentity
<1>3. OneAdvancer' /\ AnnouncersPaid'
  BY DEF OneAdvancer, AnnouncersPaid
<1> QED
  BY <1>1, <1>2, <1>3

(* Every step of every handler keeps the invariant. *)
THEOREM NextIInv ==
  ASSUME IInv, [Next]_vars
  PROVE  IInv'
<1>1. ASSUME NEW w \in Handlers, Start(w)
      PROVE  IInv'
  <2>1. w \in Workers
    BY DEF Workers
  <2> QED
    BY <1>1, <2>1, CreateForInvoiceStep, SubmitOtpStep, GrantManuallyStep
       DEF Start, VerifyForInvoice
<1>2. ASSUME NEW w \in Pollers, NEW job \in PollJob, PollOnce(w, job)
      PROVE  IInv'
  BY <1>2, PollOnceStep DEF Workers
<1>3. ASSUME NEW w \in Workers, Gateway(w)
      PROVE  IInv'
  BY <1>3, GatewayAnswersStep, GatewayFailsStep DEF Gateway
<1>4. ASSUME NEW w \in Workers, Continue(w)
      PROVE  IInv'
  BY <1>4, LookupKeyStep, AssertReferenceUnusedStep, InsertPaymentStep,
     ApplyGatewayResultStep, SavePaymentStep, RejectDuplicateStep, SchedulePollingStep,
     RescheduleStep, OnPaymentSucceededStep, AdvanceSubscriptionStep, EmitStep,
     GrantTransactionStep DEF Continue
<1>5. ASSUME NEW w \in Workers, Abort(w)
      PROVE  IInv'
  BY <1>5, AbortStep
<1>6. ASSUME NEW w \in Pollers, StalledJob(w)
      PROVE  IInv'
  BY <1>6, StalledJobStep DEF Workers
<1>7. CASE UNCHANGED vars
  BY <1>7, StutterStep
<1> QED
  BY <1>1, <1>2, <1>3, <1>4, <1>5, <1>6, <1>7 DEF Next

(* The invariant holds in every reachable state. *)
THEOREM Invariance == Spec => []IInv
BY InitIInv, NextIInv, PTL DEF Spec

(* Every reachable state is well typed. *)
THEOREM TypeCorrect == Spec => []TypeOK
<1>1. IInv => TypeOK
  BY DEF IInv
<1> QED
  BY <1>1, Invariance, PTL

(* For any number of racing payments and grants, one payment pays an invoice, *)
(* and invoice.paid is in the outbox exactly when it is paid.                 *)
THEOREM OnePaymentPays == Spec => []PaidByOnePayment
<1>1. IInv => PaidByOnePayment
  BY DEF IInv
<1> QED
  BY <1>1, Invariance, PTL

(* No invoice advances its subscription twice. *)
THEOREM OneAdvance == Spec => []AdvancedAtMostOnce
<1>1. IInv => AdvancedAtMostOnce
  BY DEF IInv
<1> QED
  BY <1>1, Invariance, PTL

(* payment.succeeded is never announced before its invoice is paid. *)
THEOREM AnnouncesPaidInvoices == Spec => []AnnouncedAfterPaid
<1>1. IInv => AnnouncedAfterPaid
  BY DEF IInv, AnnouncersPaid, AnnouncedAfterPaid
<1> QED
  BY <1>1, Invariance, PTL

-----------------------------------------------------------------------------
(* What is asked of the gateway *)

(* A request not yet sent holds a pending row; a grant has no client key; only an *)
(* answer to a request makes a row wait for an OTP.                                 *)
AskingKind(c) ==
  /\ c.pc \in {"lookup", "checkReference", "insert"} => c.kind = "create" /\ c.row.status = "pending"
  /\ c.pc = "grant" => c.row.key = None /\ c.row.status = "succeeded"
  /\ c.pc = "gateway" => c.kind \in {"create", "otp", "poll"}
  /\ c.pc = "reread" => c.kind \in {"create", "otp"}
  /\ c.pc = "save" => c.kind \in {"create", "otp"} \/ c.row.status # "requires_otp"

CallsAsk == \A w \in Workers : AskingKind(call[w])

OneRowPerKey ==
  \A p, q \in Payments : payment[p].key = payment[q].key /\ payment[p].key \in Keys => p = q

(* A key nobody has taken was never charged. *)
ChargedKeysTaken == \A k \in Keys : charges[k] = 0 \/ \E p \in Payments : payment[p].key = k

AnsweredOtp(c) ==
  \/ c.pc = "reread" /\ c.result.status = "requires_otp"
  \/ c.pc = "save" /\ c.row.status = "requires_otp"

AsksFor(c, p) == Asks(c) /\ c.pay = p

(* The gateway asked for an OTP that no submission has brought yet. *)
OtpDue(p) ==
  \/ \E w \in Workers : AsksFor(call[w], p) /\ AnsweredOtp(call[w])
  \/ payment[p].status = "requires_otp" /\ \A w \in Workers : ~AsksFor(call[w], p)

Accounted(p) ==
  payment[p].key \in Keys =>
    /\ charges[payment[p].key] <= 1 + reasons[payment[p].key]
    /\ OtpDue(p) => charges[payment[p].key] <= reasons[payment[p].key]
    /\ charges[payment[p].key] > 1 => payment[p].method \in OtpMethods

ChargesAccounted == \A p \in Payments : Accounted(p)

ChargeInv == CallsAsk /\ OneRowPerKey /\ ChargedKeysTaken /\ ChargesAccounted

(* Moving one call on keeps what the others hold. *)
LEMMA KindStep ==
  ASSUME IInv, CallsAsk, NEW w \in Workers, NEW c, call' = [call EXCEPT ![w] = c], AskingKind(c)
  PROVE  CallsAsk' /\ call'[w] = c /\ \A v \in Workers : v # w => call'[v] = call[v]
BY DEF CallsAsk, AskingKind, IInv, TypeOK

(* A call that ends, or goes on past its request, asks for nothing. *)
LEMMA KindEnds ==
  ASSUME IInv, CallsAsk, NEW w \in Workers,
         NEW pc \in {"checkReference", "insert", "reject", "settle", "advance", "emitSucceeded",
                     "emitFailed", "schedule", "reschedule"},
         \/ Return(w)
         \/ Finish(w, pc) /\ pc \notin {"checkReference", "insert"}
         \/ Goto(w, pc) /\ (pc \in {"checkReference", "insert"} =>
                              call[w].pc \in {"lookup", "checkReference"})
  PROVE  /\ CallsAsk' /\ \A v \in Workers : v # w => call'[v] = call[v]
         /\ \/ call'[w] = Idle
            \/ call'[w].pc = pc /\ call'[w].kind = call[w].kind /\ call'[w].pay = call[w].pay
<1>1. call[w] \in Call /\ AskingKind(call[w]) /\ pc \in Steps
  BY CallFacts DEF CallsAsk, Steps
<1>2. CASE Return(w)
  <2>1. AskingKind(Idle)
    BY DEF AskingKind, Idle
  <2> QED
    BY <1>2, <2>1, KindStep DEF Return
<1>3. CASE Finish(w, pc) /\ pc \notin {"checkReference", "insert"}
  <2> DEFINE c == [call[w] EXCEPT !.pc = pc, !.row = NoRow]
  <2>1. c.pc = pc /\ c.kind = call[w].kind /\ c.pay = call[w].pay
    <3> DEFINE d == c
    <3>1. d = [call[w] EXCEPT !.pc = pc, !.row = NoRow]
      OBVIOUS
    <3> HIDE DEF d
    <3> QED BY <1>1, <3>1, CallFinishes
  <2>2. call' = [call EXCEPT ![w] = c]
    BY <1>3 DEF Finish
  <2> HIDE DEF c
  <2>3. AskingKind(c)
    BY <1>3, <2>1 DEF AskingKind
  <2> QED
    BY <2>1, <2>2, <2>3, KindStep
<1>4. CASE Goto(w, pc) /\ (pc \in {"checkReference", "insert"} =>
                              call[w].pc \in {"lookup", "checkReference"})
  <2> DEFINE c == [call[w] EXCEPT !.pc = pc]
  <2>1. c.pc = pc /\ c.kind = call[w].kind /\ c.pay = call[w].pay /\ c.row = call[w].row
    BY <1>1, CallMoves
  <2>2. call' = [call EXCEPT ![w] = c]
    BY <1>4 DEF Goto
  <2> HIDE DEF c
  <2>3. AskingKind(c)
    BY <1>1, <1>4, <2>1 DEF AskingKind
  <2> QED
    BY <2>1, <2>2, <2>3, KindStep
<1> QED
  BY <1>2, <1>3, <1>4

(* No OTP becomes due where no call brings an answer that asks for one, none that *)
(* asks lets go of its row, and no row starts to wait for an OTP.                   *)
LEMMA NoOtpDue ==
  ASSUME NEW w \in Workers, \A v \in Workers : v # w => call'[v] = call[v],
         NEW p \in Payments,
         payment'[p].status = "requires_otp" =>
           payment[p].status = "requires_otp" /\ (AsksFor(call[w], p) => AsksFor(call'[w], p)),
         AsksFor(call'[w], p) /\ AnsweredOtp(call'[w]) =>
           AsksFor(call[w], p) /\ AnsweredOtp(call[w])
  PROVE  OtpDue(p)' => OtpDue(p)
<1> SUFFICES ASSUME OtpDue(p)' PROVE OtpDue(p)
  OBVIOUS
<1>1. CASE \E v \in Workers : AsksFor(call'[v], p) /\ AnsweredOtp(call'[v])
  BY <1>1 DEF OtpDue
<1>2. CASE payment'[p].status = "requires_otp" /\ \A v \in Workers : ~AsksFor(call'[v], p)
  <2>1. \A v \in Workers : ~AsksFor(call[v], p)
    BY <1>2
  <2> QED
    BY <1>2, <2>1 DEF OtpDue
<1> QED
  BY <1>1, <1>2 DEF OtpDue, AsksFor, AnsweredOtp, Asks

(* A step that asks for nothing and loses no answer leaves the accounts as they were. *)
LEMMA AccountsKept ==
  ASSUME IInv, ChargeInv, CallsAsk', UNCHANGED <<charges, reasons>>,
         \A p \in Payments :
           /\ payment'[p].key = payment[p].key
           /\ payment[p].key \in Keys => payment'[p].method = payment[p].method
           /\ OtpDue(p)' => OtpDue(p)
  PROVE  ChargeInv'
<1>1. OneRowPerKey'
  BY DEF ChargeInv, OneRowPerKey
<1>2. ChargedKeysTaken'
  BY DEF ChargeInv, ChargedKeysTaken
<1>3. ChargesAccounted'
  BY DEF ChargeInv, ChargesAccounted, Accounted
<1> QED
  BY <1>1, <1>2, <1>3 DEF ChargeInv

(* So does a step of a call that asks for nothing, before and after. *)
LEMMA PassiveStep ==
  ASSUME IInv, ChargeInv, NEW w \in Workers, CallsAsk', UNCHANGED <<charges, reasons>>,
         \A v \in Workers : v # w => call'[v] = call[v],
         ~Asks(call[w]), ~Asks(call'[w]),
         \A p \in Payments :
           /\ payment'[p].key = payment[p].key
           /\ payment[p].key \in Keys => payment'[p].method = payment[p].method
           /\ payment'[p].status = "requires_otp" => payment[p].status = "requires_otp"
  PROVE  ChargeInv'
<1>1. \A p \in Payments : OtpDue(p)' => OtpDue(p)
  BY NoOtpDue DEF AsksFor
<1> QED
  BY <1>1, AccountsKept

(* One more reason is given for the key of a row: whatever is due, it is accounted for. *)
LEMMA ReasonGiven ==
  ASSUME IInv, ChargeInv, NEW w \in Workers, CallsAsk',
         \A v \in Workers : v # w => call'[v] = call[v],
         NEW p \in Payments, AsksFor(call[w], p), ~Asks(call'[w]) \/ call'[w].pay = p,
         reasons' = OneMore(reasons, payment[p].key), UNCHANGED <<payment, charges>>
  PROVE  ChargeInv'
<1>1. reasons \in [Keys -> Nat] /\ charges \in [Keys -> Nat]
  BY DEF IInv, TypeOK
<1>2. OneRowPerKey' /\ ChargedKeysTaken'
  BY DEF ChargeInv, OneRowPerKey, ChargedKeysTaken
<1>3. ASSUME NEW q \in Payments, payment[q].key \in Keys
      PROVE  Accounted(q)'
  <2> DEFINE k == payment[q].key
  <2>1. k \in Keys /\ charges[k] \in Nat /\ reasons[k] \in Nat /\ Accounted(q)
    BY <1>1, <1>3 DEF ChargeInv, ChargesAccounted
  <2>2. CASE q = p
    <3>1. reasons'[k] = reasons[k] + 1
      BY <1>1, <2>1, <2>2, OneMoreTyped
    <3> QED
      BY <1>3, <2>1, <3>1 DEF Accounted
  <2>3. CASE q # p
    <3>1. reasons'[k] = reasons[k]
      BY <1>1, <1>3, <2>1, <2>3, OneMoreTyped DEF ChargeInv, OneRowPerKey
    <3>2. OtpDue(q)' => OtpDue(q)
      BY <2>3, NoOtpDue DEF AsksFor
    <3> QED
      BY <1>3, <2>1, <3>1, <3>2 DEF Accounted
  <2> QED
    BY <2>2, <2>3
<1>4. ChargesAccounted'
  BY <1>3 DEF ChargesAccounted, Accounted
<1> QED
  BY <1>2, <1>4 DEF ChargeInv

(* Calls start with nothing asked, but for an OTP. *)
LEMMA ChargeStart ==
  ASSUME IInv, ChargeInv, NEW w \in Workers,
         \/ \E i \in Invoices, m \in Methods, k \in Keys \cup {None}, r \in References \cup {None} :
              CreateForInvoice(w, i, m, k, r)
         \/ \E i \in Invoices : GrantManually(w, i)
         \/ \E job \in PollJob : PollOnce(w, job)
  PROVE  ChargeInv'
<1>1. UNCHANGED <<payment, charges, reasons>>
  BY DEF CreateForInvoice, GrantManually, PollOnce, history
<1>2. ~Asks(call[w])
  <2>1. call[w] = Idle
    BY DEF CreateForInvoice, GrantManually, PollOnce
  <2> QED
    BY <2>1 DEF Asks, Idle
<1>3. ASSUME NEW c, call' = [call EXCEPT ![w] = c], AskingKind(c), ~Asks(c)
      PROVE  ChargeInv'
  BY <1>1, <1>2, <1>3, KindStep, PassiveStep DEF ChargeInv
<1>4. ASSUME NEW i \in Invoices, NEW m \in Methods, NEW k \in Keys \cup {None},
             NEW r \in References \cup {None}, CreateForInvoice(w, i, m, k, r)
      PROVE  ChargeInv'
  <2> DEFINE row == [inv |-> i, key |-> k, method |-> m, status |-> "pending",
                     ref |-> r, failure |-> "none"]
             c == [Idle EXCEPT !.kind = "create", !.pc = "lookup", !.row = row]
  <2>1. c.kind = "create" /\ c.pc = "lookup" /\ c.row.status = "pending"
    BY DEF Idle
  <2>2. call' = [call EXCEPT ![w] = c]
    BY <1>4 DEF CreateForInvoice
  <2> HIDE DEF c
  <2> QED
    BY <1>3, <2>1, <2>2 DEF AskingKind, Asks
<1>5. ASSUME NEW i \in Invoices, GrantManually(w, i)
      PROVE  ChargeInv'
  <2> DEFINE row == [NoRow EXCEPT !.inv = i, !.status = "succeeded"]
             c == [Idle EXCEPT !.kind = "grant", !.pc = "grant", !.row = row]
  <2>1. c.kind = "grant" /\ c.pc = "grant" /\ c.row.key = None /\ c.row.status = "succeeded"
    BY DEF Idle, NoRow
  <2>2. call' = [call EXCEPT ![w] = c]
    BY <1>5 DEF GrantManually
  <2> HIDE DEF c
  <2> QED
    BY <1>3, <2>1, <2>2 DEF AskingKind, Asks
<1>6. ASSUME NEW job \in PollJob, PollOnce(w, job)
      PROVE  ChargeInv'
  <2> DEFINE row == payment[job.pay]  pay == job.pay  next == job.next
             c == [Idle EXCEPT !.kind = "poll", !.pc = "gateway", !.pay = pay, !.row = row,
                               !.next = next]
  <2>1. call' = [call EXCEPT ![w] = c] \/ UNCHANGED call
    BY <1>6 DEF PollOnce
  <2> HIDE DEF row, pay, next
  <2>2. c.kind = "poll" /\ c.pc = "gateway"
    BY DEF Idle
  <2> HIDE DEF c
  <2>3. CASE UNCHANGED call
    BY <1>1, <1>2, <2>3, PassiveStep DEF ChargeInv, CallsAsk, AskingKind
  <2> QED
    BY <1>3, <2>1, <2>2, <2>3 DEF AskingKind, Asks
<1> QED
  BY <1>4, <1>5, <1>6

(* Calls go on, or end, having asked for nothing, or with their answer written. *)
LEMMA ChargeQuiet ==
  ASSUME IInv, ChargeInv, NEW w \in Workers,
         \/ LookupKey(w) \/ AssertReferenceUnused(w) \/ SchedulePolling(w) \/ Reschedule(w)
         \/ OnPaymentSucceeded(w) \/ AdvanceSubscription(w)
         \/ EmitPaymentSucceeded(w) \/ EmitPaymentFailed(w)
  PROVE  ChargeInv'
<1>1. UNCHANGED <<payment, charges, reasons>>
  BY DEF LookupKey, AssertReferenceUnused, SchedulePolling, Reschedule, OnPaymentSucceeded,
         AdvanceSubscription, EmitPaymentSucceeded, EmitPaymentFailed, Emit, history
<1>2. ~Asks(call[w])
  BY DEF LookupKey, AssertReferenceUnused, SchedulePolling, Reschedule, OnPaymentSucceeded,
         AdvanceSubscription, EmitPaymentSucceeded, EmitPaymentFailed, Emit, Asks
<1>3. \/ Return(w)
      \/ /\ call[w].pc \in {"lookup", "checkReference"}
         /\ \E pc \in {"checkReference", "insert"} : Goto(w, pc)
      \/ Goto(w, "advance") \/ Finish(w, "emitSucceeded")
  BY DEF LookupKey, AssertReferenceUnused, SchedulePolling, Reschedule, OnPaymentSucceeded,
         AdvanceSubscription, EmitPaymentSucceeded, EmitPaymentFailed, Emit
<1>4. CallsAsk /\ \A v \in Workers : v # w => call'[v] = call[v] 
  BY <1>3 DEF ChargeInv, Return, Goto, Finish, IInv, TypeOK
<1>5. CallsAsk' /\ ~Asks(call'[w])
  <2>1. CASE Return(w)
    BY <1>4, <2>1, KindEnds DEF Asks, Idle
  <2>2. ASSUME NEW pc \in {"checkReference", "insert"}, Goto(w, pc),
               call[w].pc \in {"lookup", "checkReference"}
        PROVE  CallsAsk' /\ ~Asks(call'[w])
    BY <1>4, <2>2, KindEnds DEF Asks, Idle
  <2>3. CASE Goto(w, "advance") \/ Finish(w, "emitSucceeded")
    BY <1>4, <2>3, KindEnds DEF Asks, Idle
  <2> QED
    BY <1>3, <2>1, <2>2, <2>3
<1> QED
  BY <1>1, <1>2, <1>4, <1>5, PassiveStep

(* The first charge of a key is that of the row that takes it. *)
LEMMA ChargeInsert ==
  ASSUME IInv, ChargeInv, NEW w \in Workers, InsertPayment(w)
  PROVE  ChargeInv'
<1> DEFINE d == call[w]
<1>1. /\ d \in Call /\ d.pc = "insert" /\ d.kind = "create" /\ d.row.status = "pending"
      /\ ~Asks(d) /\ CallsAsk /\ UNCHANGED reasons
      /\ charges \in [Keys -> Nat] /\ reasons \in [Keys -> Nat]
  BY CallFacts DEF InsertPayment, ChargeInv, CallsAsk, AskingKind, Asks, IInv, TypeOK
<1>2. CASE Return(w) /\ UNCHANGED <<payment, charges>>
  <2>1. CallsAsk' /\ ~Asks(call'[w]) /\ \A v \in Workers : v # w => call'[v] = call[v]
    BY <1>1, <1>2, KindEnds DEF Asks, Idle, Return, IInv, TypeOK
  <2> QED
    BY <1>1, <1>2, <2>1, PassiveStep
<1>3. ASSUME NEW p \in Payments, payment[p].status = "absent", ~KeyTaken(d.row.key),
             payment' = [payment EXCEPT ![p] = d.row],
             \/ Return(w) /\ UNCHANGED charges
             \/ /\ call' = [call EXCEPT ![w].pc = "gateway", ![w].pay = p, ![w].row = NoRow]
                /\ charges' = OneMore(charges, d.row.key)
      PROVE  ChargeInv'
  <2>1. CallsAsk' /\ \A v \in Workers : v # w => call'[v] = call[v]
    <3>1. CASE Return(w)
      BY <1>1, <3>1, KindEnds
    <3>2. CASE call' = [call EXCEPT ![w].pc = "gateway", ![w].pay = p, ![w].row = NoRow]
      <4> DEFINE c == [d EXCEPT !.pc = "gateway", !.pay = p, !.row = NoRow]
      <4>1. c.pc = "gateway" /\ c.kind = "create"
        <5> HIDE DEF d
        <5> QED BY <1>1 DEF Call
      <4>2. call' = [call EXCEPT ![w] = c]
        BY <3>2
      <4> HIDE DEF c, d
      <4>3. AskingKind(c)
        BY <4>1 DEF AskingKind
      <4> QED
        BY <1>1, <4>2, <4>3, KindStep
    <3> QED
      BY <1>3, <3>1, <3>2
  <2>2. \/ call'[w] = Idle
        \/ call'[w].pc = "gateway" /\ call'[w].pay = p
    <3>1. CASE Return(w)
      <4>1. call \in [Workers -> Call]
        BY DEF IInv, TypeOK
      <4>2. call' = [call EXCEPT ![w] = Idle]
        BY <3>1 DEF Return
      <4> QED
        BY <4>1, <4>2
    <3>2. CASE call' = [call EXCEPT ![w].pc = "gateway", ![w].pay = p, ![w].row = NoRow]
      <4> DEFINE c == [d EXCEPT !.pc = "gateway", !.pay = p, !.row = NoRow]
      <4>1. c.pc = "gateway" /\ c.pay = p
        <5> HIDE DEF d
        <5> QED BY <1>1 DEF Call
      <4>2. call' = [call EXCEPT ![w] = c]
        BY <3>2
      <4> HIDE DEF c, d
      <4> QED
        BY <4>1, <4>2 DEF IInv, TypeOK
    <3> QED
      BY <1>3, <3>1, <3>2
  <2>3. /\ payment'[p] = d.row /\ \A q \in Payments : q # p => payment'[q] = payment[q]
        /\ payment[p].key = None /\ None \notin Keys
    BY <1>3, PaymentsAssumption DEF IInv, TypeOK, RowsExist, NoRow
  <2> HIDE DEF d
  <2>4. OneRowPerKey'
    BY <1>3, <2>3 DEF ChargeInv, OneRowPerKey, KeyTaken
  <2>5. d.row.key \in Keys => charges[d.row.key] = 0
    BY <1>3, <2>3 DEF ChargeInv, ChargedKeysTaken, KeyTaken
  <2>6. \A k \in Keys : k # d.row.key => charges'[k] = charges[k]
    BY <1>1, <1>3, OneMoreTyped
  <2>7. d.row.key \in Keys => charges'[d.row.key] \in {0, 1}
    <3>1. ASSUME d.row.key \in Keys
          PROVE  OneMore(charges, d.row.key)[d.row.key] = charges[d.row.key] + 1
      BY <1>1, <3>1, OneMoreTyped
    <3> QED
      BY <1>3, <2>5, <3>1
  <2>8. ChargedKeysTaken'
    BY <2>3, <2>6 DEF ChargeInv, ChargedKeysTaken
  <2>9. ASSUME NEW q \in Payments, q # p, payment'[q].key \in Keys
        PROVE  Accounted(q)'
    <3>1. payment[q].key # d.row.key /\ payment'[q] = payment[q]
      BY <1>3, <2>3, <2>9 DEF KeyTaken
    <3>2. OtpDue(q)' => OtpDue(q)
      <4>1. ~AsksFor(call[w], q)
        BY <1>1 DEF AsksFor, d
      <4>2. ~AsksFor(call'[w], q)
        BY <2>2, <2>9 DEF AsksFor, Asks, Idle
      <4> QED
        BY <2>1, <3>1, <4>1, <4>2, NoOtpDue
    <3>3. Accounted(q) /\ charges'[payment[q].key] = charges[payment[q].key]
      BY <2>6, <2>9, <3>1 DEF ChargeInv, ChargesAccounted
    <3> QED
      BY <1>1, <3>1, <3>2, <3>3 DEF Accounted
  <2>10. Accounted(p)'
    <3>1. \A v \in Workers : v # w => ~AsksFor(call[v], p)
      BY <1>3, CallFacts DEF AsksFor, Asks, HoldsRow, Holding
    <3>2. ~(AsksFor(call'[w], p) /\ AnsweredOtp(call'[w]))
      BY <2>2 DEF AsksFor, Asks, AnsweredOtp, Idle
    <3>3. ~OtpDue(p)'
      BY <1>1, <2>1, <2>3, <3>1, <3>2 DEF OtpDue
    <3>4. d.row.key \in Keys => reasons'[d.row.key] \in Nat
      BY <1>1
    <3> QED
      BY <2>3, <2>7, <3>3, <3>4 DEF Accounted
  <2>11. ChargesAccounted'
    BY <2>9, <2>10 DEF ChargesAccounted, Accounted
  <2> QED
    BY <2>1, <2>4, <2>8, <2>11 DEF ChargeInv
<1> QED
  BY <1>1, <1>2, <1>3 DEF InsertPayment

(* A submission is one more charge: the OTP it brings was due, or it comes while *)
(* another of the payment is under way.                                          *)
LEMMA ChargeSubmit ==
  ASSUME IInv, ChargeInv, NEW w \in Workers, NEW p \in Payments, SubmitOtp(w, p)
  PROVE  ChargeInv'
<1> DEFINE c == [Idle EXCEPT !.kind = "otp", !.pc = "gateway", !.pay = p]
           k == payment[p].key
           other == \E v \in Workers : AsksFor(call[v], p)
<1>1. /\ UNCHANGED payment /\ call[w] = Idle /\ payment[p].status = "requires_otp"
      /\ payment[p].method \in OtpMethods /\ charges' = OneMore(charges, k)
      /\ reasons' = IF other THEN OneMore(reasons, k) ELSE reasons
  BY DEF SubmitOtp, Submit, AsksFor
<1>2. charges \in [Keys -> Nat] /\ reasons \in [Keys -> Nat]
  BY DEF IInv, TypeOK
<1>3. c.pc = "gateway" /\ c.kind = "otp" /\ c.pay = p
  BY DEF Idle
<1>4. call' = [call EXCEPT ![w] = c]
  BY DEF SubmitOtp, Submit
<1> HIDE DEF c
<1>5. CallsAsk' /\ call'[w] = c /\ \A v \in Workers : v # w => call'[v] = call[v]
  BY <1>3, <1>4, KindStep DEF ChargeInv, AskingKind
<1>6. OneRowPerKey' /\ ChargedKeysTaken'
  <2>1. \A j \in Keys : j # k => charges'[j] = charges[j]
    BY <1>1, <1>2, OneMoreTyped
  <2> QED
    BY <1>1, <2>1 DEF ChargeInv, OneRowPerKey, ChargedKeysTaken
<1>7. ~AsksFor(call[w], p) /\ AsksFor(call'[w], p) /\ ~AnsweredOtp(call'[w])
  BY <1>1, <1>3, <1>5 DEF AsksFor, Asks, AnsweredOtp, Idle
<1>8. ASSUME NEW q \in Payments, payment[q].key \in Keys
      PROVE  Accounted(q)'
  <2>1. CASE q # p
    <3>1. payment[q].key # k
      BY <1>8, <2>1 DEF ChargeInv, OneRowPerKey
    <3>2. charges'[payment[q].key] = charges[payment[q].key]
          /\ reasons'[payment[q].key] = reasons[payment[q].key]
      BY <1>1, <1>2, <1>8, <3>1, OneMoreTyped
    <3>3. ~AsksFor(call'[w], q) /\ ~AsksFor(call[w], q)
      BY <1>1, <1>3, <1>5, <2>1 DEF AsksFor, Asks, Idle
    <3>4. OtpDue(q)' => OtpDue(q)
      BY <1>1, <1>5, <3>3, NoOtpDue
    <3> QED
      BY <1>1, <1>8, <3>2, <3>4 DEF Accounted, ChargeInv, ChargesAccounted
  <2>2. CASE q = p
    <3>1. charges'[k] = charges[k] + 1 /\ charges[k] \in Nat /\ reasons[k] \in Nat
      BY <1>1, <1>2, <1>8, <2>2, OneMoreTyped
    <3>2. Accounted(p)
      BY DEF ChargeInv, ChargesAccounted
    <3>3. CASE other
      <4>1. reasons'[k] = reasons[k] + 1
        BY <1>1, <1>2, <1>8, <2>2, <3>3, OneMoreTyped
      <4>2. OtpDue(p)' => OtpDue(p)
        BY <1>5, <1>7, <1>1, NoOtpDue
      <4> QED
        BY <1>1, <1>8, <2>2, <3>1, <3>2, <4>1, <4>2 DEF Accounted
    <3>4. CASE ~other
      <4>1. OtpDue(p)
        BY <1>1, <3>4 DEF OtpDue
      <4>2. ~OtpDue(p)'
        BY <1>5, <1>7, <3>4 DEF OtpDue
      <4> QED
        BY <1>1, <1>8, <2>2, <3>1, <3>2, <3>4, <4>1, <4>2 DEF Accounted
    <3> QED
      BY <3>3, <3>4
  <2> QED
    BY <2>1, <2>2
<1>9. ChargesAccounted'
  BY <1>1, <1>8 DEF ChargesAccounted, Accounted
<1> QED
  BY <1>5, <1>6, <1>9 DEF ChargeInv

(* The answer that asks for an OTP is the reason for the next request. *)
LEMMA ChargeAnswers ==
  ASSUME IInv, ChargeInv, NEW w \in Workers, NEW result \in Result, GatewayAnswers(w, result)
  PROVE  ChargeInv'
<1> DEFINE d == call[w]
<1>1. /\ d \in Call /\ d.pc = "gateway" /\ d.kind \in {"create", "otp", "poll"}
      /\ d.pay \in Payments /\ UNCHANGED <<payment, charges>> /\ CallsAsk
      /\ d.row \in Row /\ result.status \in Answers(d)
  BY CallFacts DEF GatewayAnswers, ChargeInv, CallsAsk, AskingKind, HoldsRow, Holding
<1>2. reasons' = IF result.status = "requires_otp" THEN OneMore(reasons, payment[d.pay].key)
                                                   ELSE reasons
  BY DEF GatewayAnswers
<1>3. CASE d.kind # "poll"
  <2> DEFINE c == [d EXCEPT !.pc = "reread", !.result = result]
  <2>1. call' = [call EXCEPT ![w] = c]
    BY <1>3 DEF GatewayAnswers
  <2> HIDE DEF d
  <2>2. c.pc = "reread" /\ c.result = result /\ c.kind = d.kind /\ c.pay = d.pay
    BY <1>1 DEF Call
  <2> HIDE DEF c
  <2>3. AskingKind(c)
    BY <1>1, <1>3, <2>2 DEF AskingKind
  <2>4. CallsAsk' /\ call'[w] = c /\ \A v \in Workers : v # w => call'[v] = call[v]
    BY <1>1, <2>1, <2>3, KindStep
  <2>5. AsksFor(call[w], d.pay) /\ Asks(c)
    BY <1>1, <1>3, <2>2 DEF AsksFor, Asks, d
  <2>6. CASE result.status = "requires_otp"
    BY <1>1, <1>2, <2>2, <2>4, <2>5, <2>6, ReasonGiven
  <2>7. CASE result.status # "requires_otp"
    <3>1. ~AnsweredOtp(c)
      BY <2>2, <2>7 DEF AnsweredOtp
    <3>2. \A p \in Payments : AsksFor(call[w], p) => AsksFor(c, p)
      BY <2>2, <2>5 DEF AsksFor, d
    <3>3. \A p \in Payments : OtpDue(p)' => OtpDue(p)
      BY <1>1, <2>4, <3>1, <3>2, NoOtpDue
    <3> QED
      BY <1>1, <1>2, <2>4, <2>7, <3>3, AccountsKept
  <2> QED
    BY <2>6, <2>7
<1>4. CASE d.kind = "poll"
  <2>1. result.status # "requires_otp"
    BY <1>1, <1>4 DEF Answers, StatusAnswers, PollAnswers
  <2>2. ~Asks(call[w])
    BY <1>4 DEF Asks
  <2>3. CASE result.status = "pending"
    <3>1. Finish(w, "reschedule")
      BY <1>4, <2>3 DEF GatewayAnswers, Finish
    <3>2. CallsAsk' /\ ~Asks(call'[w]) /\ \A v \in Workers : v # w => call'[v] = call[v]
      BY <1>1, <3>1, KindEnds DEF Asks, Idle
    <3> QED
      BY <1>1, <1>2, <2>1, <2>2, <3>2, PassiveStep
  <2>4. CASE result.status # "pending"
    <3> DEFINE row == Applied(d.row, result)
               c == [d EXCEPT !.pc = "save", !.row = row]
    <3>1. call' = [call EXCEPT ![w] = c]
      BY <1>4, <2>4 DEF GatewayAnswers
    <3>2. row.status = result.status
      BY <1>1, AppliedTyped, AnswersAreStatuses
    <3> HIDE DEF row, d
    <3>3. c.pc = "save" /\ c.row = row /\ c.kind = d.kind
      BY <1>1 DEF Call
    <3> HIDE DEF c
    <3>4. AskingKind(c) /\ ~Asks(c)
      BY <1>4, <2>1, <3>2, <3>3 DEF AskingKind, Asks
    <3>5. CallsAsk' /\ call'[w] = c /\ \A v \in Workers : v # w => call'[v] = call[v]
      BY <1>1, <3>1, <3>4, KindStep
    <3> QED
      BY <1>1, <1>2, <2>1, <2>2, <3>4, <3>5, PassiveStep
  <2> QED
    BY <2>3, <2>4
<1> QED
  BY <1>3, <1>4

(* A call that ends without its answer written gives the reason it takes with it. *)
LEMMA AnswerLost ==
  ASSUME IInv, ChargeInv, NEW w \in Workers, LosesAnswer(w), UNCHANGED <<payment, charges>>,
         Return(w) \/ (call[w].kind = "poll" /\ Finish(w, "reschedule"))
  PROVE  ChargeInv'
<1>1. CallsAsk' /\ ~Asks(call'[w]) /\ \A v \in Workers : v # w => call'[v] = call[v]
  BY KindEnds DEF ChargeInv, Asks, Idle
<1>2. CASE Asks(call[w])
  <2>1. call[w].pay \in Payments
    BY <1>2, CallFacts DEF Asks, HoldsRow, Holding
  <2>2. AsksFor(call[w], call[w].pay)
    BY <1>2 DEF AsksFor
  <2>3. reasons' = OneMore(reasons, payment[call[w].pay].key)
    BY <1>2 DEF LosesAnswer
  <2> QED
    BY <1>1, <2>1, <2>2, <2>3, ReasonGiven
<1>3. CASE ~Asks(call[w])
  <2>1. UNCHANGED reasons
    BY <1>3 DEF LosesAnswer
  <2> QED
    BY <1>1, <1>3, <2>1, PassiveStep
<1> QED
  BY <1>2, <1>3

(* What is saved carries the status of the answer. *)
LEMMA ChargeApply ==
  ASSUME IInv, ChargeInv, NEW w \in Workers, ApplyGatewayResult(w)
  PROVE  ChargeInv'
<1> DEFINE d == call[w]
           row == Applied(payment[d.pay], d.result)
           c == [d EXCEPT !.pc = "save", !.result = NoResult, !.row = row]
<1>1. /\ d \in Call /\ d.pc = "reread" /\ d.kind \in {"create", "otp"} /\ d.pay \in Payments
      /\ d.result \in Result /\ payment[d.pay] \in Row
      /\ d.result.status \in PaymentStatus \ {"absent"} /\ CallsAsk
  BY CallFacts DEF ApplyGatewayResult, ChargeInv, CallsAsk, AskingKind, HoldsRow, Holding
<1>2. row.status = d.result.status
  BY <1>1, AppliedTyped
<1>3. call' = [call EXCEPT ![w] = c] /\ UNCHANGED <<payment, charges, reasons>>
  BY DEF ApplyGatewayResult, history
<1> HIDE DEF d, row
<1>4. c.pc = "save" /\ c.row = row /\ c.kind = d.kind /\ c.pay = d.pay
  BY <1>1 DEF Call
<1> HIDE DEF c
<1>5. AskingKind(c)
  BY <1>1, <1>4 DEF AskingKind
<1>6. CallsAsk' /\ call'[w] = c /\ \A v \in Workers : v # w => call'[v] = call[v]
  BY <1>1, <1>3, <1>5, KindStep
<1>7. /\ \A p \in Payments : AsksFor(c, p) <=> AsksFor(call[w], p)
      /\ AnsweredOtp(c) <=> AnsweredOtp(call[w])
  BY <1>1, <1>2, <1>4 DEF AsksFor, Asks, AnsweredOtp, d
<1>8. \A p \in Payments : OtpDue(p)' => OtpDue(p)
  BY <1>3, <1>6, <1>7, NoOtpDue
<1> QED
  BY <1>3, <1>6, <1>8, AccountsKept

(* The row that waits for an OTP takes over from the answer that asked for it. *)
LEMMA ChargeSave ==
  ASSUME IInv, ChargeInv, NEW w \in Workers, SavePayment(w)
  PROVE  ChargeInv'
<1> DEFINE d == call[w]
<1>1. /\ d \in Call /\ d.row \in Row /\ d.pc = "save" /\ CallsAsk /\ d.pay \in Payments
      /\ d.row.key = payment[d.pay].key /\ d.row.method = payment[d.pay].method
      /\ d.kind \in {"create", "otp"} \/ d.row.status # "requires_otp"
  BY CallFacts DEF SavePayment, HoldsRow, KeepsIdentity, Holding, ChargeInv, CallsAsk, AskingKind
<1>2. UNCHANGED <<charges, reasons>>
  BY DEF SavePayment, history
<1>3. CASE d.row.status = "succeeded" /\ Finish(w, "reject") /\ UNCHANGED payment
  <2>1. /\ CallsAsk' /\ \A v \in Workers : v # w => call'[v] = call[v]
        /\ \/ call'[w] = Idle
           \/ call'[w].pc = "reject" /\ call'[w].kind = d.kind /\ call'[w].pay = d.pay
    BY <1>1, <1>3, KindEnds
  <2>2. call'[w].pc = "reject" /\ call'[w].kind = d.kind /\ call'[w].pay = d.pay
    <3> DEFINE c == [d EXCEPT !.pc = "reject", !.row = NoRow]
    <3>1. call' = [call EXCEPT ![w] = c]
      BY <1>3 DEF Finish
    <3>2. call'[w] = c
      BY <3>1 DEF IInv, TypeOK
    <3> HIDE DEF d
    <3>3. c.pc = "reject" /\ c.kind = d.kind /\ c.pay = d.pay
      BY <1>1 DEF Call
    <3> QED
      BY <3>2, <3>3
  <2>3. \A p \in Payments : AsksFor(call[w], p) => AsksFor(call'[w], p)
    BY <2>2 DEF AsksFor, Asks
  <2>4. ~AnsweredOtp(call'[w])
    BY <2>2 DEF AnsweredOtp
  <2>5. \A p \in Payments : OtpDue(p)' => OtpDue(p)
    BY <1>3, <2>1, <2>3, <2>4, NoOtpDue
  <2> QED
    BY <1>2, <1>3, <2>1, <2>5, AccountsKept
<1>4. CASE /\ payment' = [payment EXCEPT ![d.pay] = d.row]
           /\ Goto(w, "settle") \/ Finish(w, "emitFailed") \/ Finish(w, "schedule") \/ Return(w)
  <2>1. /\ CallsAsk' /\ \A v \in Workers : v # w => call'[v] = call[v]
        /\ ~Asks(call'[w])
    BY <1>1, <1>4, KindEnds DEF Asks, Idle
  <2>2. /\ payment'[d.pay] = d.row
        /\ \A p \in Payments : p # d.pay => payment'[p] = payment[p]
    BY <1>1, <1>4 DEF IInv, TypeOK
  <2>3. ASSUME NEW p \in Payments
        PROVE  OtpDue(p)' => OtpDue(p)
    <3>1. CASE p # d.pay
      BY <2>1, <2>2, <3>1, NoOtpDue DEF AsksFor
    <3>2. CASE p = d.pay /\ d.row.status # "requires_otp"
      BY <2>1, <2>2, <3>2, NoOtpDue DEF AsksFor
    <3>3. CASE p = d.pay /\ d.row.status = "requires_otp"
      BY <1>1, <3>3 DEF OtpDue, AsksFor, Asks, AnsweredOtp
    <3> QED
      BY <3>1, <3>2, <3>3
  <2>4. \A p \in Payments : payment'[p].key = payment[p].key /\ payment'[p].method = payment[p].method
    BY <1>1, <2>2
  <2> QED
    BY <1>2, <2>1, <2>3, <2>4, AccountsKept
<1> QED
  BY <1>3, <1>4 DEF SavePayment

(* A refused payment fails: it waits for no OTP. *)
LEMMA ChargeReject ==
  ASSUME IInv, ChargeInv, NEW w \in Workers, RejectDuplicate(w)
  PROVE  ChargeInv'
<1> DEFINE d == call[w]
           row == [payment[d.pay] EXCEPT !.status = "failed",
                                         !.failure = "REFERENCE_ALREADY_USED"]
<1>1. /\ d.pay \in Payments /\ payment[d.pay] \in Row /\ CallsAsk
      /\ UNCHANGED <<charges, reasons>> /\ Goto(w, "emitFailed")
  BY CallFacts DEF RejectDuplicate, HoldsRow, Holding, history, ChargeInv
<1>2. /\ row.key = payment[d.pay].key /\ row.method = payment[d.pay].method
      /\ row.status = "failed"
  BY <1>1 DEF Row
<1>3. payment' = [payment EXCEPT ![d.pay] = row]
  BY DEF RejectDuplicate
<1> HIDE DEF row
<1>4. payment'[d.pay] = row /\ \A p \in Payments : p # d.pay => payment'[p] = payment[p]
  BY <1>1, <1>3 DEF IInv, TypeOK
<1>5. CallsAsk' /\ ~Asks(call'[w]) /\ \A v \in Workers : v # w => call'[v] = call[v]
  BY <1>1, KindEnds DEF Asks, Idle
<1>6. ASSUME NEW p \in Payments
      PROVE  OtpDue(p)' => OtpDue(p)
  <2>1. payment'[p].status = "requires_otp" => p # d.pay /\ payment[p].status = "requires_otp"
    BY <1>2, <1>4
  <2> QED
    BY <1>5, <2>1, NoOtpDue DEF AsksFor
<1>7. \A p \in Payments : payment'[p].key = payment[p].key /\ payment'[p].method = payment[p].method
  BY <1>2, <1>4
<1> QED
  BY <1>1, <1>5, <1>6, <1>7, AccountsKept

(* The manual payment has no client key. *)
LEMMA ChargeGrant ==
  ASSUME IInv, ChargeInv, NEW w \in Workers, GrantTransaction(w)
  PROVE  ChargeInv'
<1> DEFINE d == call[w]
<1>1. /\ d \in Call /\ d.pc = "grant" /\ d.row.key = None /\ d.row.status = "succeeded"
      /\ ~Asks(d) /\ CallsAsk
      /\ UNCHANGED <<charges, reasons>>
  BY CallFacts DEF GrantTransaction, ChargeInv, CallsAsk, AskingKind, Asks
<1>2. CASE Return(w) /\ UNCHANGED payment
  <2>1. CallsAsk' /\ ~Asks(call'[w]) /\ \A v \in Workers : v # w => call'[v] = call[v]
    BY <1>1, <1>2, KindEnds DEF Asks, Idle, Return, IInv, TypeOK
  <2> QED
    BY <1>1, <1>2, <2>1, PassiveStep
<1>3. ASSUME NEW p \in Payments, payment[p].status = "absent",
             payment' = [payment EXCEPT ![p] = d.row],
             call' = [call EXCEPT ![w].pc = "advance", ![w].pay = p]
      PROVE  ChargeInv'
  <2> DEFINE c == [d EXCEPT !.pc = "advance", !.pay = p]
  <2>1. call' = [call EXCEPT ![w] = c]
    BY <1>3
  <2>2. /\ payment'[p] = d.row /\ \A q \in Payments : q # p => payment'[q] = payment[q]
        /\ payment[p].key = None /\ None \notin Keys
    BY <1>3, PaymentsAssumption DEF IInv, TypeOK, RowsExist, NoRow
  <2> HIDE DEF d
  <2>3. c.pc = "advance"
    BY <1>1 DEF Call
  <2> HIDE DEF c
  <2>4. AskingKind(c) /\ ~Asks(c)
    BY <2>3 DEF AskingKind, Asks
  <2>5. CallsAsk' /\ call'[w] = c /\ \A v \in Workers : v # w => call'[v] = call[v]
    BY <1>1, <2>1, <2>4, KindStep
  <2>6. \A q \in Payments :
          /\ payment'[q].key = payment[q].key
          /\ payment[q].key \in Keys => payment'[q].method = payment[q].method
          /\ payment'[q].status = "requires_otp" => payment[q].status = "requires_otp"
    BY <1>1, <2>2
  <2> QED
    BY <1>1, <2>4, <2>5, <2>6, PassiveStep DEF d
<1> QED
  BY <1>2, <1>3 DEF GrantTransaction

LEMMA ChargeNext ==
  ASSUME IInv, ChargeInv, [Next]_vars
  PROVE  ChargeInv'
<1>1. ASSUME NEW w \in Handlers, Start(w)
      PROVE  ChargeInv'
  <2>1. w \in Workers
    BY DEF Workers
  <2> QED
    BY <1>1, <2>1, ChargeStart, ChargeSubmit DEF Start, VerifyForInvoice
<1>2. ASSUME NEW w \in Pollers, NEW job \in PollJob, PollOnce(w, job)
      PROVE  ChargeInv'
  BY <1>2, ChargeStart DEF Workers
<1>3. ASSUME NEW w \in Workers, Gateway(w)
      PROVE  ChargeInv'
  <2>1. GatewayFails(w) => ChargeInv'
    BY AnswerLost DEF GatewayFails
  <2> QED
    BY <1>3, <2>1, ChargeAnswers DEF Gateway
<1>4. ASSUME NEW w \in Workers, Continue(w)
      PROVE  ChargeInv'
  BY <1>4, ChargeQuiet, ChargeInsert, ChargeApply, ChargeSave, ChargeReject, ChargeGrant
     DEF Continue
<1>5. ASSUME NEW w \in Workers, Abort(w)
      PROVE  ChargeInv'
  BY <1>5, AnswerLost DEF Abort
<1>6. CASE UNCHANGED <<payment, call, charges, reasons>>
  <2>1. \A p \in Payments : Accounted(p)' <=> Accounted(p)
    BY <1>6 DEF Accounted, OtpDue
  <2> QED
    BY <1>6, <2>1 DEF ChargeInv, CallsAsk, OneRowPerKey, ChargedKeysTaken, ChargesAccounted
<1>7. ASSUME NEW w \in Pollers, StalledJob(w)
      PROVE  ChargeInv'
  BY <1>6, <1>7 DEF StalledJob, history
<1>8. CASE UNCHANGED vars
  BY <1>6, <1>8 DEF vars
<1> QED
  BY <1>1, <1>2, <1>3, <1>4, <1>5, <1>7, <1>8 DEF Next

LEMMA ChargeInit == Init => ChargeInv
<1> SUFFICES ASSUME Init PROVE ChargeInv
  OBVIOUS
<1>1. \A p \in Payments : payment[p].key \notin Keys
  BY PaymentsAssumption DEF Init, NoRow
<1>2. CallsAsk
  BY DEF Init, CallsAsk, AskingKind, Idle
<1>3. OneRowPerKey /\ ChargedKeysTaken /\ ChargesAccounted
  BY <1>1 DEF Init, OneRowPerKey, ChargedKeysTaken, ChargesAccounted, Accounted
<1> QED
  BY <1>2, <1>3 DEF ChargeInv

(* However many checkouts, submissions and failures race, every request sent for a *)
(* client's key after the first has a reason of its own: the gateway asked for an    *)
(* OTP, an answer was lost, or two submissions overlapped.                           *)
THEOREM RepeatedChargesHaveReasons == Spec => []ChargesHaveReasons
<1>1. IInv /\ ChargeInv => ChargesHaveReasons
  <2> SUFFICES ASSUME IInv, ChargeInv, NEW k \in Keys
               PROVE  /\ charges[k] <= 1 + reasons[k]
                      /\ charges[k] > 1 =>
                           \E p \in Payments : payment[p].key = k /\ payment[p].method \in OtpMethods
    BY DEF ChargesHaveReasons
  <2>1. charges[k] \in Nat /\ reasons[k] \in Nat
    BY DEF IInv, TypeOK
  <2>2. CASE charges[k] = 0
    BY <2>1, <2>2
  <2>3. ASSUME NEW p \in Payments, payment[p].key = k
        PROVE  /\ charges[k] <= 1 + reasons[k]
               /\ charges[k] > 1 => payment[p].method \in OtpMethods
    BY <2>3 DEF ChargeInv, ChargesAccounted, Accounted
  <2> QED
    BY <2>2, <2>3 DEF ChargeInv, ChargedKeysTaken
<1>2. IInv /\ ChargeInv /\ [Next]_vars => ChargeInv'
  BY ChargeNext
<1> QED
  BY <1>1, <1>2, ChargeInit, Invariance, PTL DEF Spec

-----------------------------------------------------------------------------
(* The service implements the settlement *)

(* No step unwrites a row or moves it to another invoice. *)
LEMMA NextKeepsRows ==
  ASSUME IInv, [Next]_vars
  PROVE  RowsKept
<1>1. CASE UNCHANGED payment
  BY <1>1 DEF RowsKept
<1>2. ASSUME NEW p \in Payments, NEW row, payment[p].status = "absent",
             payment' = [payment EXCEPT ![p] = row]
      PROVE  RowsKept
  BY <1>2 DEF RowsKept, IInv, TypeOK
<1>3. ASSUME NEW w \in Workers, InsertPayment(w) \/ GrantTransaction(w)
      PROVE  RowsKept
  BY <1>1, <1>2, <1>3 DEF InsertPayment, GrantTransaction
<1>4. ASSUME NEW w \in Workers, SavePayment(w)
      PROVE  RowsKept
  <2>1. CASE UNCHANGED payment
    BY <1>1, <2>1
  <2>2. CASE payment' = [payment EXCEPT ![call[w].pay] = call[w].row]
    BY <1>4, <2>2, CallFacts, SavedRowKept
       DEF SavePayment, HoldsRow, KeepsIdentity, Holding, history
  <2> QED
    BY <1>4, <2>1, <2>2 DEF SavePayment
<1>5. ASSUME NEW w \in Workers, RejectDuplicate(w)
      PROVE  RowsKept
  <2> DEFINE p == call[w].pay
  <2>1. p \in Payments /\ payment[p] \in Row /\ payment[p].status # "absent"
    BY <1>5, CallFacts DEF RejectDuplicate, HoldsRow, Holding
  <2>2. payment' = [payment EXCEPT ![p] = [payment[p] EXCEPT !.status = "failed",
                                             !.failure = "REFERENCE_ALREADY_USED"]]
    BY <1>5 DEF RejectDuplicate
  <2> HIDE DEF p
  <2>3. /\ payment'[p].status = "failed" /\ payment'[p].inv = payment[p].inv
        /\ payment'[p].key = payment[p].key /\ payment'[p].method = payment[p].method
        /\ \A q \in Payments : q # p => payment'[q] = payment[q]
    BY <2>1, <2>2 DEF IInv, TypeOK, Row
  <2> QED
    BY <2>3 DEF RowsKept
<1>6. ASSUME NEW w \in Handlers, Start(w)
      PROVE  UNCHANGED payment
  BY <1>6 DEF Start, CreateForInvoice, VerifyForInvoice, SubmitOtp, Submit, GrantManually
<1>7. ASSUME NEW w \in Workers, Gateway(w) \/ Abort(w) \/ StalledJob(w)
      PROVE  UNCHANGED payment
  BY <1>7 DEF Gateway, GatewayAnswers, GatewayFails, Abort, StalledJob
<1>8. ASSUME NEW w \in Workers, Continue(w)
      PROVE  UNCHANGED payment \/ InsertPayment(w) \/ GrantTransaction(w) \/ SavePayment(w)
             \/ RejectDuplicate(w)
  BY <1>8 DEF Continue, LookupKey, AssertReferenceUnused, ApplyGatewayResult, SchedulePolling,
     Reschedule, OnPaymentSucceeded, AdvanceSubscription, EmitPaymentSucceeded,
     EmitPaymentFailed, Emit
<1>9. ASSUME NEW w \in Pollers, NEW job \in PollJob, PollOnce(w, job)
      PROVE  UNCHANGED payment
  BY <1>9 DEF PollOnce
<1> QED
  BY <1>1, <1>3, <1>4, <1>5, <1>6, <1>7, <1>8, <1>9 DEF Next, vars, Workers

(* Who was announced is for which invoice changes only by an announcement. *)
LEMMA AnnouncedKept ==
  ASSUME IInv, RowsKept,
         \A p \in Payments : <<"payment.succeeded", p>> \in events' <=> <<"payment.succeeded", p>> \in events
  PROVE  Announced' = Announced
<1>1. \A p \in Payments : <<"payment.succeeded", p>> \in events => payment'[p].inv = payment[p].inv
  BY DEF IInv, AnnouncersPaid, RowsKept
<1> QED
  BY <1>1 DEF Announced

(* markPaid's compare-and-swap is the abstract Pay. *)
LEMMA PayImplemented ==
  ASSUME IInv, RowsKept, NEW i \in Invoices, NEW p \in Payments, Credit(i, p), UNCHANGED advances
  PROVE  Settlement!Pay(i, p)
<1>1. Announced' = Announced
  BY AnnouncedKept DEF Credit
<1>2. credits[i] = {}
  BY DEF IInv, PaidByOnePayment, Credit
<1> QED
  BY <1>1, <1>2 DEF Settlement!Pay, Credit

(* Advancing the subscription is the abstract Renew, or a stutter when it fails. *)
LEMMA RenewImplemented ==
  ASSUME IInv, NEW w \in Workers, AdvanceSubscription(w)
  PROVE  [Settlement!Next]_(Settlement!svars)
<1> DEFINE i == call[w].row.inv
<1>1. /\ call[w].pay \in Payments /\ i \in Invoices /\ invoice[i] = "paid" /\ advances[i] = 0
  BY CallFacts DEF AdvanceSubscription, HoldsRow, KeepsIdentity, Holding, IInv, RowsExist, OneAdvancer
<1>2. UNCHANGED <<credits, Announced>>
  BY DEF AdvanceSubscription, Announced
<1>3. CASE advances' = [advances EXCEPT ![i] = @ + 1]
  <2>1. advances' = [advances EXCEPT ![i] = 1]
    BY <1>1, <1>3
  <2>2. credits[i] # {}
    BY <1>1 DEF IInv, PaidByOnePayment
  <2> QED
    BY <1>1, <1>2, <2>1, <2>2 DEF Settlement!Renew, Settlement!Next
<1>4. CASE UNCHANGED advances
  BY <1>2, <1>4 DEF Settlement!svars
<1> QED
  BY <1>3, <1>4 DEF AdvanceSubscription

(* Emitting payment.succeeded is the abstract Announce. *)
LEMMA AnnounceImplemented ==
  ASSUME IInv, NEW w \in Workers, EmitPaymentSucceeded(w)
  PROVE  [Settlement!Next]_(Settlement!svars)
<1> DEFINE p == call[w].pay
           i == payment[p].inv
<1>1. /\ p \in Payments /\ i \in Invoices /\ invoice[i] = "paid"
  BY CallFacts DEF EmitPaymentSucceeded, Emit, HoldsRow, Holding, IInv, RowsExist, AnnouncersPaid
<1>2. UNCHANGED <<credits, advances, payment>> /\ events' = events \cup {<<"payment.succeeded", p>>}
  BY DEF EmitPaymentSucceeded, Emit, history
<1>3. Announced' = Announced \cup {<<p, i>>}
  BY <1>1, <1>2 DEF Announced
<1>4. credits[i] # {}
  BY <1>1 DEF IInv, PaidByOnePayment
<1> QED
  BY <1>1, <1>2, <1>3, <1>4 DEF Settlement!Announce, Settlement!Next

(* Every step is a step of the abstract settlement, or a stutter. *)
LEMMA StepImplemented ==
  ASSUME IInv, [Next]_vars
  PROVE  [Settlement!Next]_(Settlement!svars)
<1>1. RowsKept
  BY NextKeepsRows
<1>2. ASSUME UNCHANGED <<credits, advances>>,
             \A p \in Payments :
               <<"payment.succeeded", p>> \in events' <=> <<"payment.succeeded", p>> \in events
      PROVE  UNCHANGED Settlement!svars
  BY <1>1, <1>2, AnnouncedKept DEF Settlement!svars
<1>3. ASSUME NEW i \in Invoices, NEW p \in Payments, Credit(i, p), UNCHANGED advances
      PROVE  Settlement!Next
  BY <1>1, <1>3, PayImplemented DEF Settlement!Next
<1>4. ASSUME NEW w \in Workers, OnPaymentSucceeded(w)
      PROVE  [Settlement!Next]_(Settlement!svars)
  <2>1. call[w].row.inv \in Invoices /\ call[w].pay \in Payments
    BY <1>4, CallFacts DEF OnPaymentSucceeded, HoldsRow, KeepsIdentity, Holding, IInv, RowsExist
  <2> QED
    BY <1>2, <1>3, <1>4, <2>1 DEF OnPaymentSucceeded
<1>5. ASSUME NEW w \in Workers, GrantTransaction(w)
      PROVE  [Settlement!Next]_(Settlement!svars)
  <2>1. call[w].row.inv \in Invoices
    BY <1>5, CallFacts DEF GrantTransaction, HoldsRow
  <2> QED
    BY <1>2, <1>3, <1>5, <2>1 DEF GrantTransaction
<1>6. ASSUME NEW w \in Workers, EmitPaymentFailed(w)
      PROVE  UNCHANGED Settlement!svars
  BY <1>2, <1>6 DEF EmitPaymentFailed, Emit, history
<1>7. ASSUME UNCHANGED <<credits, advances, events>>
      PROVE  UNCHANGED Settlement!svars
  BY <1>2, <1>7
<1>8. ASSUME NEW w \in Workers, Continue(w)
      PROVE  [Settlement!Next]_(Settlement!svars)
  <2>1. \/ UNCHANGED <<credits, advances, events>>
        \/ OnPaymentSucceeded(w) \/ AdvanceSubscription(w) \/ GrantTransaction(w)
        \/ EmitPaymentSucceeded(w) \/ EmitPaymentFailed(w)
    BY <1>8 DEF Continue, LookupKey, AssertReferenceUnused, InsertPayment, ApplyGatewayResult,
       SavePayment, RejectDuplicate, SchedulePolling, Reschedule, history
  <2> QED
    BY <1>4, <1>5, <1>6, <1>7, <2>1, RenewImplemented, AnnounceImplemented
<1>9. ASSUME NEW w, Start(w) \/ Gateway(w) \/ Abort(w) \/ StalledJob(w)
                    \/ \E job \in PollJob : PollOnce(w, job)
      PROVE  UNCHANGED <<credits, advances, events>>
  BY <1>9 DEF Start, CreateForInvoice, VerifyForInvoice, SubmitOtp, Submit, GrantManually,
     Gateway, GatewayAnswers, GatewayFails, Abort, StalledJob, PollOnce, history
<1> QED
  BY <1>7, <1>8, <1>9 DEF Next, vars, history

(* Whatever the interleaving and whoever dies, what the service does to paid  *)
(* invoices, renewals and announcements is a behaviour of InvoiceSettlement.  *)
THEOREM SettlementImplemented == Spec => ImplementsSettlement
<1>1. Init => Settlement!Init
  BY DEF Init, Settlement!Init, Announced
<1> QED
  BY <1>1, Invariance, StepImplemented, PTL DEF Spec, ImplementsSettlement, Settlement!Spec

-----------------------------------------------------------------------------
(***************************************************************************)
(* Who may write a row.  A call that has read a payment writes back what it   *)
(* read, so a settled payment is safe as long as no two calls are between      *)
(* reading and saving one row.  Nothing in the service sees to it: two OTP      *)
(* submissions, or a polling job handed out again, may hold one row at once.     *)
(* What follows says that nothing else can go wrong with a settled row.           *)
(***************************************************************************)

(* While one of these steps is pending, the call is about to write the row. *)
Owning == {"gateway", "reread", "save", "reject"}

OneOwner ==
  \A v, w \in Workers :
    v # w /\ call[v].pc \in Owning /\ call[w].pc \in Owning => call[v].pay # call[w].pay

Unsettled == {"pending", "requires_otp", "requires_action"}

OwnedCall(c) ==
  /\ c.pc \in {"lookup", "checkReference", "insert"} => c.row.status = "pending"
  /\ c.pc \in Owning => payment[c.pay].status \in Unsettled
  /\ c.pc = "settle" => payment[c.pay] = c.row /\ c.row.status = "succeeded"
  /\ c.pc = "grant" => c.row.status = "succeeded" /\ c.row.ref = None

CallsOwned == \A w \in Workers : OwnedCall(call[w])

(* The partial unique index: one settled row per reference. *)
ReferencesUnique ==
  \A p, q \in Payments :
    /\ payment[p].status = "succeeded" /\ payment[q].status = "succeeded"
    /\ payment[p].ref # None /\ payment[p].ref = payment[q].ref
    => p = q

(* The reference that paid an invoice is still on the settled row that paid it. *)
CreditsKeepReference ==
  \A i \in Invoices :
    creditRef[i] # None =>
      \E p \in credits[i] : payment[p].status = "succeeded" /\ payment[p].ref = creditRef[i]

OwnedInv == CallsOwned /\ ReferencesUnique /\ CreditsKeepReference

(* A settled or failed row is not written again. *)
SettledRowsKept ==
  \A p \in Payments : payment[p].status \in Terminal => payment'[p] = payment[p]

LEMMA OwnedFacts ==
  ASSUME IInv, OwnedInv, NEW w \in Workers
  PROVE  /\ call[w] \in Call /\ call[w].row \in Row /\ call[w].result \in Result
         /\ HoldsRow(call[w]) /\ OwnedCall(call[w])
         /\ \A p \in Payments : payment[p] \in Row
BY CallFacts DEF OwnedInv, CallsOwned

(* A step that writes no payment and no credit. *)
LEMMA OwnedQuiet ==
  ASSUME IInv, OwnedInv, NEW w \in Workers, NEW c,
         call' = [call EXCEPT ![w] = c],
         UNCHANGED <<payment, credits, creditRef>>, OwnedCall(c)
  PROVE  OwnedInv' /\ SettledRowsKept
<1>1. /\ call'[w] = c
      /\ \A v \in Workers : v # w => call'[v] = call[v]
  BY DEF IInv, TypeOK
<1>2. CallsOwned'
  BY <1>1 DEF OwnedInv, CallsOwned, OwnedCall
<1>3. ReferencesUnique' /\ CreditsKeepReference' /\ SettledRowsKept
  BY DEF OwnedInv, ReferencesUnique, CreditsKeepReference, SettledRowsKept
<1> QED
  BY <1>2, <1>3 DEF OwnedInv

(* A row written once keeps the invariant: it was absent, or unsettled and the    *)
(* writer's, and the unique index let its reference pass.                         *)
Fresh(w, p) ==
  \/ payment[p].status = "absent"
  \/ payment[p].status \in Unsettled /\ call[w].pc \in Owning /\ call[w].pay = p

RefFree(p, row) == row.status = "succeeded" => ~ReferenceTaken(p, row.ref)

LEMMA OwnedWrite ==
  ASSUME IInv, OwnedInv, OneOwner, NEW w \in Workers, NEW c, NEW p \in Payments, NEW row \in Row,
         Fresh(w, p), RefFree(p, row),
         payment' = [payment EXCEPT ![p] = row],
         call' = [call EXCEPT ![w] = c],
         \A i \in Invoices :
           /\ credits[i] \subseteq credits'[i]
           /\ creditRef'[i] # None => creditRef'[i] = creditRef[i],
         OwnedCall(call[w])'
  PROVE  OwnedInv' /\ SettledRowsKept
<1>1. /\ call'[w] = c
      /\ \A v \in Workers : v # w => call'[v] = call[v]
  BY DEF IInv, TypeOK
<1>2. /\ payment'[p] = row /\ payment[p].status \notin Terminal
      /\ \A q \in Payments : q # p => payment'[q] = payment[q]
  BY DEF IInv, TypeOK, Fresh, Terminal, Unsettled
<1>3. ASSUME NEW v \in Workers, v # w
      PROVE  OwnedCall(call[v])'
  <2>1. OwnedCall(call[v]) /\ HoldsRow(call[v])
    BY OwnedFacts
  <2>2. call[v].pc \in Owning => call[v].pay # p /\ call[v].pay \in Payments
    BY <1>3, <2>1 DEF OneOwner, Fresh, OwnedCall, HoldsRow, Owning, Holding
  <2>3. call[v].pc = "settle" => call[v].pay # p /\ call[v].pay \in Payments
    BY <1>2, <2>1 DEF OwnedCall, HoldsRow, Holding, Terminal
  <2>4. call'[v] = call[v]
    BY <1>1, <1>3
  <2> QED
    BY <1>2, <2>1, <2>2, <2>3, <2>4 DEF OwnedCall
<1>4. CallsOwned'
  BY <1>3 DEF CallsOwned
<1>5. ReferencesUnique'
  <2>1. ASSUME NEW q \in Payments, q # p, row.status = "succeeded", row.ref # None,
               payment[q].status = "succeeded"
        PROVE  payment[q].ref # row.ref
    BY <2>1 DEF RefFree, ReferenceTaken
  <2> QED
    BY <1>2, <2>1 DEF OwnedInv, ReferencesUnique
<1>6. CreditsKeepReference'
  <2>1. ASSUME NEW i \in Invoices, creditRef'[i] # None
        PROVE  \E q \in credits'[i] : payment'[q].status = "succeeded" /\ payment'[q].ref = creditRef'[i]
    <3>1. PICK q \in credits[i] : payment[q].status = "succeeded" /\ payment[q].ref = creditRef[i]
      BY <2>1 DEF OwnedInv, CreditsKeepReference
    <3>2. q \in Payments /\ q # p
      BY <1>2, <3>1 DEF IInv, TypeOK, Terminal
    <3> QED
      BY <1>2, <2>1, <3>1, <3>2
  <2> QED
    BY <2>1 DEF CreditsKeepReference
<1>7. SettledRowsKept
  BY <1>2 DEF SettledRowsKept
<1> QED
  BY <1>4, <1>5, <1>6, <1>7 DEF OwnedInv

(* Steps at which a call has no row to write. *)
Passive == {"idle", "schedule", "reschedule", "advance", "emitSucceeded", "emitFailed"}

LEMMA PassiveIsOwned ==
  ASSUME NEW c, c.pc \in Passive
  PROVE  OwnedCall(c)
BY DEF OwnedCall, Passive, Owning

(* A call ends, or has done with its row. *)
LEMMA OwnedEnds ==
  ASSUME IInv, OwnedInv, NEW w \in Workers,
         Return(w) \/ \E pc \in Passive : Finish(w, pc),
         UNCHANGED <<payment, credits, creditRef>>
  PROVE  OwnedInv' /\ SettledRowsKept
<1>1. CASE Return(w)
  <2>1. Idle.pc \in Passive
    BY DEF Idle, Passive
  <2> QED
    BY <1>1, <2>1, OwnedQuiet, PassiveIsOwned DEF Return
<1>2. ASSUME NEW pc \in Passive, Finish(w, pc)
      PROVE  OwnedInv' /\ SettledRowsKept
  <2> DEFINE c == [call[w] EXCEPT !.pc = pc, !.row = NoRow]
  <2>1. call' = [call EXCEPT ![w] = c]
    BY <1>2 DEF Finish
  <2>2. call[w] \in Call /\ pc \in Steps
    BY OwnedFacts DEF Steps, Passive
  <2>3. c.pc = pc
    BY <2>2, CallFinishes
  <2> HIDE DEF c
  <2> QED
    BY <2>1, <2>3, OwnedQuiet, PassiveIsOwned
<1> QED
  BY <1>1, <1>2

(* A request, a job or a grant starts: the row it reads is unsettled. *)
LEMMA OwnedStart ==
  ASSUME IInv, OwnedInv, NEW w \in Workers, Start(w)
  PROVE  OwnedInv' /\ SettledRowsKept
<1>1. ASSUME NEW i, NEW m, NEW k, NEW r, CreateForInvoice(w, i, m, k, r)
      PROVE  OwnedInv' /\ SettledRowsKept
  <2> DEFINE c == [Idle EXCEPT !.kind = "create", !.pc = "lookup",
                     !.row = [inv |-> i, key |-> k, method |-> m, status |-> "pending",
                              ref |-> r, failure |-> "none"]]
  <2>1. call' = [call EXCEPT ![w] = c] /\ UNCHANGED <<payment, credits, creditRef>>
    BY <1>1 DEF CreateForInvoice, history
  <2>2. c.pc = "lookup" /\ c.row.status = "pending"
    BY DEF Idle
  <2> HIDE DEF c
  <2>3. OwnedCall(c)
    BY <2>2 DEF OwnedCall, Owning
  <2> QED
    BY <2>1, <2>3, OwnedQuiet
<1>2. ASSUME NEW p \in Payments, SubmitOtp(w, p)
      PROVE  OwnedInv' /\ SettledRowsKept
  <2> DEFINE c == [Idle EXCEPT !.kind = "otp", !.pc = "gateway", !.pay = p]
  <2>1. call' = [call EXCEPT ![w] = c] /\ UNCHANGED <<payment, credits, creditRef>>
    BY <1>2 DEF SubmitOtp, Submit
  <2>2. c.pc = "gateway" /\ c.pay = p /\ payment[p].status = "requires_otp"
    BY <1>2 DEF Idle, SubmitOtp
  <2> HIDE DEF c
  <2>3. OwnedCall(c)
    BY <2>2 DEF OwnedCall, Owning, Unsettled
  <2> QED
    BY <2>1, <2>3, OwnedQuiet
<1>3. ASSUME NEW i \in Invoices, GrantManually(w, i)
      PROVE  OwnedInv' /\ SettledRowsKept
  <2> DEFINE c == [Idle EXCEPT !.kind = "grant", !.pc = "grant",
                     !.row = [NoRow EXCEPT !.inv = i, !.status = "succeeded"]]
  <2>1. call' = [call EXCEPT ![w] = c] /\ UNCHANGED <<payment, credits, creditRef>>
    BY <1>3 DEF GrantManually, history
  <2>2. c.pc = "grant" /\ c.row.status = "succeeded" /\ c.row.ref = None
    BY DEF Idle, NoRow
  <2> HIDE DEF c
  <2>3. OwnedCall(c)
    BY <2>2 DEF OwnedCall, Owning
  <2> QED
    BY <2>1, <2>3, OwnedQuiet
<1> QED
  BY <1>1, <1>2, <1>3 DEF Start, VerifyForInvoice

LEMMA OwnedPollOnce ==
  ASSUME IInv, OwnedInv, NEW w \in Workers, NEW job \in PollJob, PollOnce(w, job)
  PROVE  OwnedInv' /\ SettledRowsKept
<1> DEFINE c == [Idle EXCEPT !.kind = "poll", !.pc = "gateway", !.pay = job.pay, !.row = payment[job.pay], !.next = job.next]
<1>1. UNCHANGED <<payment, credits, creditRef>>
  BY DEF PollOnce, history
<1>2. CASE UNCHANGED call
  BY <1>1, <1>2 DEF OwnedInv, CallsOwned, OwnedCall, ReferencesUnique, CreditsKeepReference, SettledRowsKept
<1>3. CASE payment[job.pay].status \notin Terminal /\ call' = [call EXCEPT ![w] = c]
  <2>1. job.pay \in Payments /\ payment[job.pay].status \in PaymentStatus \ {"absent"}
    BY CallFacts DEF PollOnce, SoundJob, PollJob, Row
  <2>2. c.pc = "gateway" /\ c.pay = job.pay
    BY DEF Idle
  <2> HIDE DEF c
  <2>3. OwnedCall(c)
    BY <1>3, <2>1, <2>2 DEF OwnedCall, Owning, Unsettled, PaymentStatus, Terminal
  <2> QED
    BY <1>1, <1>3, <2>3, OwnedQuiet
<1> QED
  BY <1>2, <1>3 DEF PollOnce

(* The lookup and the check of the reference go on with the same row, or end. *)
LEMMA OwnedLookup ==
  ASSUME IInv, OwnedInv, NEW w \in Workers, LookupKey(w) \/ AssertReferenceUnused(w)
  PROVE  OwnedInv' /\ SettledRowsKept
<1>1. UNCHANGED <<payment, credits, creditRef>>
  BY DEF LookupKey, AssertReferenceUnused, history
<1>2. CASE Return(w)
  BY <1>1, <1>2, OwnedEnds
<1>3. ASSUME NEW pc \in {"checkReference", "insert"}, Goto(w, pc),
             call[w].pc \in {"lookup", "checkReference"}
      PROVE  OwnedInv' /\ SettledRowsKept
  <2> DEFINE c == [call[w] EXCEPT !.pc = pc]
  <2>1. c.pc = pc /\ c.row = call[w].row
    BY OwnedFacts, CallMoves DEF Steps
  <2>2. call' = [call EXCEPT ![w] = c]
    BY <1>3 DEF Goto
  <2> HIDE DEF c
  <2>3. OwnedCall(call[w])
    BY OwnedFacts
  <2>4. OwnedCall(c)
    BY <1>3, <2>1, <2>3 DEF OwnedCall, Owning
  <2> QED
    BY <1>1, <2>2, <2>4, OwnedQuiet
<1> QED
  BY <1>2, <1>3 DEF LookupKey, AssertReferenceUnused

(* The gateway answers, or does not: the row is still the caller's to write. *)
LEMMA OwnedGateway ==
  ASSUME IInv, OwnedInv, NEW w \in Workers, Gateway(w)
  PROVE  OwnedInv' /\ SettledRowsKept
<1> DEFINE d == call[w]
<1>1. UNCHANGED <<payment, credits, creditRef>> /\ d.pc = "gateway"
  BY DEF Gateway, GatewayAnswers, GatewayFails, history
<1>2. d \in Call /\ payment[d.pay].status \in Unsettled
  BY <1>1, OwnedFacts DEF OwnedCall, Owning
<1>3. ASSUME NEW pc \in {"reread", "save"}, NEW result, NEW row,
             \/ call' = [call EXCEPT ![w] = [d EXCEPT !.pc = pc, !.result = result]]
             \/ call' = [call EXCEPT ![w] = [d EXCEPT !.pc = pc, !.row = row]]
      PROVE  OwnedInv' /\ SettledRowsKept
  <2>1. PICK c \in {[d EXCEPT !.pc = pc, !.result = result], [d EXCEPT !.pc = pc, !.row = row]} :
          call' = [call EXCEPT ![w] = c]
    BY <1>3
  <2>2. c.pc = pc /\ c.pay = d.pay
    BY <1>2 DEF Call
  <2>3. OwnedCall(c)
    BY <1>2, <2>2 DEF OwnedCall, Owning
  <2> QED
    BY <1>1, <2>1, <2>3, OwnedQuiet
<1>4. ASSUME NEW result, GatewayAnswers(w, result)
      PROVE  OwnedInv' /\ SettledRowsKept
  <2>1. CASE d.kind # "poll"
    <3>1. call' = [call EXCEPT ![w] = [d EXCEPT !.pc = "reread", !.result = result]]
      BY <1>4, <2>1 DEF GatewayAnswers
    <3> QED
      BY <1>3, <3>1
  <2>2. CASE d.kind = "poll" /\ result.status # "pending"
    <3>1. call' = [call EXCEPT ![w] = [d EXCEPT !.pc = "save", !.row = Applied(d.row, result)]]
      BY <1>4, <2>2 DEF GatewayAnswers
    <3> QED
      BY <1>3, <3>1
  <2>3. CASE d.kind = "poll" /\ result.status = "pending"
    <3>1. Finish(w, "reschedule")
      BY <1>4, <2>3 DEF GatewayAnswers
    <3> QED
      BY <1>1, <3>1, OwnedEnds DEF Passive
  <2> QED
    BY <2>1, <2>2, <2>3
<1>5. GatewayFails(w) => OwnedInv' /\ SettledRowsKept
  BY <1>1, OwnedEnds DEF GatewayFails, Passive
<1> QED
  BY <1>4, <1>5 DEF Gateway

LEMMA OwnedApply ==
  ASSUME IInv, OwnedInv, NEW w \in Workers, ApplyGatewayResult(w)
  PROVE  OwnedInv' /\ SettledRowsKept
<1> DEFINE d == call[w]
           row == Applied(payment[d.pay], d.result)
           c == [d EXCEPT !.pc = "save", !.result = NoResult, !.row = row]
<1>1. d \in Call /\ payment[d.pay].status \in Unsettled
  BY OwnedFacts DEF ApplyGatewayResult, OwnedCall, Owning
<1>2. call' = [call EXCEPT ![w] = c] /\ UNCHANGED <<payment, credits, creditRef>>
  BY DEF ApplyGatewayResult, history
<1> HIDE DEF d, row
<1>3. c.pc = "save" /\ c.pay = d.pay
  BY <1>1 DEF Call
<1> HIDE DEF c
<1>4. OwnedCall(c)
  BY <1>1, <1>3 DEF OwnedCall, Owning
<1> QED
  BY <1>2, <1>4, OwnedQuiet

(* The row is inserted pending: zelle waits, the rest is now the caller's. *)
LEMMA OwnedInsert ==
  ASSUME IInv, OwnedInv, OneOwner, NEW w \in Workers, InsertPayment(w)
  PROVE  OwnedInv' /\ SettledRowsKept
<1> DEFINE d == call[w]
           c(p) == [d EXCEPT !.pc = "gateway", !.pay = p, !.row = NoRow]
<1>1. d \in Call /\ d.row \in Row /\ d.row.status = "pending"
  BY OwnedFacts DEF InsertPayment, OwnedCall
<1>2. UNCHANGED <<credits, creditRef>>
  BY DEF InsertPayment
<1>3. CASE Return(w) /\ UNCHANGED payment
  BY <1>2, <1>3, OwnedEnds
<1>4. ASSUME NEW p \in Payments, payment[p].status = "absent",
             payment' = [payment EXCEPT ![p] = d.row],
             Return(w) \/ call' = [call EXCEPT ![w] = c(p)]
      PROVE  OwnedInv' /\ SettledRowsKept
  <2>1. Fresh(w, p) /\ RefFree(p, d.row) /\ payment'[p].status = "pending"
    BY <1>1, <1>4 DEF Fresh, RefFree, IInv, TypeOK
  <2>2. PICK e \in {Idle, c(p)} : call' = [call EXCEPT ![w] = e]
    BY <1>4 DEF Return
  <2>3. e.pc = "idle" \/ (e.pc = "gateway" /\ e.pay = p)
    <3>1. c(p).pc = "gateway" /\ c(p).pay = p
      <4> HIDE DEF d
      <4> QED BY <1>1 DEF Call
    <3> HIDE DEF c
    <3> QED BY <2>2, <3>1 DEF Idle
  <2>4. call'[w] = e
    BY <2>2 DEF IInv, TypeOK
  <2> HIDE DEF c, d
  <2>5. OwnedCall(call[w])'
    BY <2>1, <2>3, <2>4 DEF OwnedCall, Owning, Unsettled
  <2> QED
    BY <1>1, <1>2, <1>4, <2>1, <2>2, <2>5, OwnedWrite
<1> QED
  BY <1>3, <1>4 DEF InsertPayment

(* The answer is saved over the unsettled row, or refused by the unique index. *)
LEMMA OwnedSave ==
  ASSUME IInv, OwnedInv, OneOwner, NEW w \in Workers, SavePayment(w)
  PROVE  OwnedInv' /\ SettledRowsKept
<1> DEFINE d == call[w]
<1>1. /\ d \in Call /\ d.row \in Row /\ d.pc = "save" /\ d.pay \in Payments
      /\ payment[d.pay].status \in Unsettled
  BY OwnedFacts DEF SavePayment, OwnedCall, HoldsRow, Holding, Owning
<1>2. UNCHANGED <<credits, creditRef>>
  BY DEF SavePayment, history
<1>3. CASE Finish(w, "reject") /\ UNCHANGED payment
  <2> DEFINE c == [d EXCEPT !.pc = "reject", !.row = NoRow]
  <2>1. call' = [call EXCEPT ![w] = c]
    BY <1>3 DEF Finish
  <2> HIDE DEF d
  <2>2. c.pc = "reject" /\ c.pay = d.pay
    BY <1>1, CallFinishes DEF Steps
  <2> HIDE DEF c
  <2>3. OwnedCall(c)
    BY <1>1, <2>2 DEF OwnedCall, Owning
  <2> QED
    BY <1>2, <1>3, <2>1, <2>3, OwnedQuiet
<1>4. ASSUME RefFree(d.pay, d.row), payment' = [payment EXCEPT ![d.pay] = d.row], NEW c,
             call' = [call EXCEPT ![w] = c],
             \/ c.pc \in Passive
             \/ c.pc = "settle" /\ c.pay = d.pay /\ c.row = d.row /\ d.row.status = "succeeded"
      PROVE  OwnedInv' /\ SettledRowsKept
  <2>1. Fresh(w, d.pay) /\ payment'[d.pay] = d.row /\ call'[w] = c
    BY <1>1, <1>4 DEF Fresh, Owning, IInv, TypeOK
  <2> HIDE DEF d
  <2>2. OwnedCall(call[w])'
    BY <1>4, <2>1 DEF OwnedCall, Owning, Passive
  <2> QED
    BY <1>1, <1>2, <1>4, <2>1, <2>2, OwnedWrite DEF d
<1>5. CASE Goto(w, "settle") /\ RefFree(d.pay, d.row) /\ d.row.status = "succeeded"
           /\ payment' = [payment EXCEPT ![d.pay] = d.row]
  <2> DEFINE c == [d EXCEPT !.pc = "settle"]
  <2>1. c.pc = "settle" /\ c.row = d.row /\ c.pay = d.pay
    BY <1>1, CallMoves DEF Steps
  <2>2. call' = [call EXCEPT ![w] = c]
    BY <1>5 DEF Goto
  <2> HIDE DEF c
  <2> QED
    BY <1>4, <1>5, <2>1, <2>2
<1>6. ASSUME NEW pc \in Passive, Finish(w, pc), d.row.status # "succeeded",
             payment' = [payment EXCEPT ![d.pay] = d.row]
      PROVE  OwnedInv' /\ SettledRowsKept
  <2> DEFINE c == [d EXCEPT !.pc = pc, !.row = NoRow]
  <2>1. call' = [call EXCEPT ![w] = c]
    BY <1>6 DEF Finish
  <2>2. c.pc = pc
    <3>1. pc \in Steps
      BY DEF Steps, Passive
    <3> HIDE DEF d
    <3> QED BY <1>1, <3>1, CallFinishes
  <2>3. RefFree(d.pay, d.row)
    BY <1>6 DEF RefFree
  <2> HIDE DEF c
  <2> QED
    BY <1>4, <1>6, <2>1, <2>2, <2>3
<1>7. CASE Return(w) /\ d.row.status # "succeeded" /\ payment' = [payment EXCEPT ![d.pay] = d.row]
  <2>1. Idle.pc \in Passive /\ RefFree(d.pay, d.row)
    BY <1>7 DEF Idle, Passive, RefFree
  <2> QED
    BY <1>4, <1>7, <2>1 DEF Return
<1>8. "emitFailed" \in Passive /\ "schedule" \in Passive
  BY DEF Passive
<1>9. \/ Finish(w, "reject") /\ UNCHANGED payment
      \/ /\ payment' = [payment EXCEPT ![d.pay] = d.row]
         /\ \/ Goto(w, "settle") /\ RefFree(d.pay, d.row) /\ d.row.status = "succeeded"
            \/ d.row.status # "succeeded" /\ (Finish(w, "emitFailed") \/ Finish(w, "schedule") \/ Return(w))
  BY DEF SavePayment, RefFree
<1> QED
  BY <1>3, <1>5, <1>6, <1>7, <1>8, <1>9

(* A reference already credited fails the payment, which was not settled. *)
LEMMA OwnedReject ==
  ASSUME IInv, OwnedInv, OneOwner, NEW w \in Workers, RejectDuplicate(w)
  PROVE  OwnedInv' /\ SettledRowsKept
<1> DEFINE d == call[w]
           row == [payment[d.pay] EXCEPT !.status = "failed",
                                         !.failure = "REFERENCE_ALREADY_USED"]
           c == [d EXCEPT !.pc = "emitFailed"]
<1>1. /\ d \in Call /\ d.pc = "reject" /\ d.pay \in Payments
      /\ payment[d.pay] \in Row /\ payment[d.pay].status \in Unsettled
  BY OwnedFacts DEF RejectDuplicate, OwnedCall, HoldsRow, Holding, Owning
<1>2. row \in Row /\ row.status = "failed"
  BY <1>1 DEF Row, PaymentStatus
<1>3. c.pc = "emitFailed"
  BY <1>1, CallMoves DEF Steps
<1>4. /\ payment' = [payment EXCEPT ![d.pay] = row] /\ call' = [call EXCEPT ![w] = c]
      /\ UNCHANGED <<credits, creditRef>>
  BY DEF RejectDuplicate, Goto, history
<1>5. Fresh(w, d.pay) /\ call'[w] = c
  BY <1>1, <1>4 DEF Fresh, Owning, IInv, TypeOK
<1> HIDE DEF row, c, d
<1>6. RefFree(d.pay, row) /\ OwnedCall(call[w])'
  BY <1>2, <1>3, <1>5 DEF RefFree, OwnedCall, Owning
<1> QED
  BY <1>1, <1>2, <1>4, <1>5, <1>6, OwnedWrite

(* The invoice is credited with the reference its settled row holds. *)
LEMMA OwnedSettle ==
  ASSUME IInv, OwnedInv, NEW w \in Workers, OnPaymentSucceeded(w)
  PROVE  OwnedInv' /\ SettledRowsKept
<1> DEFINE d == call[w]
           i == d.row.inv
           c == [d EXCEPT !.pc = "advance"]
<1>1. /\ d \in Call /\ d.pay \in Payments
      /\ payment[d.pay] = d.row /\ d.row.status = "succeeded" /\ i \in Invoices
  BY OwnedFacts DEF OnPaymentSucceeded, OwnedCall, HoldsRow, Holding, IInv, RowsExist
<1>2. UNCHANGED payment
  BY DEF OnPaymentSucceeded
<1>3. CASE Finish(w, "emitSucceeded") /\ UNCHANGED <<credits, creditRef>>
  BY <1>2, <1>3, OwnedEnds DEF Passive
<1>4. CASE /\ Credit(i, d.pay) /\ creditRef' = [creditRef EXCEPT ![i] = d.row.ref]
           /\ Goto(w, "advance")
  <2>1. c.pc = "advance"
    BY <1>1, CallMoves DEF Steps
  <2>2. call' = [call EXCEPT ![w] = c]
    BY <1>4 DEF Goto
  <2>3. /\ call'[w] = c
        /\ \A v \in Workers : v # w => call'[v] = call[v]
    BY <2>2 DEF IInv, TypeOK
  <2> HIDE DEF c
  <2>4. OwnedCall(call[w])'
    BY <2>1, <2>3 DEF OwnedCall, Owning
  <2>5. CallsOwned'
    BY <1>2, <2>3, <2>4 DEF OwnedInv, CallsOwned, OwnedCall
  <2>6. ReferencesUnique' /\ SettledRowsKept
    BY <1>2 DEF OwnedInv, ReferencesUnique, SettledRowsKept
  <2>7. CreditsKeepReference'
    <3>1. /\ credits'[i] = credits[i] \cup {d.pay} /\ creditRef'[i] = d.row.ref
          /\ \A j \in Invoices \ {i} : credits'[j] = credits[j] /\ creditRef'[j] = creditRef[j]
      BY <1>1, <1>4 DEF Credit, IInv, TypeOK
    <3>2. ASSUME NEW j \in Invoices, j # i, creditRef'[j] # None
          PROVE  \E q \in credits'[j] : payment'[q].status = "succeeded" /\ payment'[q].ref = creditRef'[j]
      BY <1>2, <3>1, <3>2 DEF OwnedInv, CreditsKeepReference
    <3>3. \E q \in credits'[i] : payment'[q].status = "succeeded" /\ payment'[q].ref = creditRef'[i]
      BY <1>1, <1>2, <3>1
    <3> QED
      BY <3>2, <3>3 DEF CreditsKeepReference
  <2> QED
    BY <2>5, <2>6, <2>7 DEF OwnedInv
<1> QED
  BY <1>3, <1>4 DEF OnPaymentSucceeded

(* The manual payment is inserted settled, without a reference. *)
LEMMA OwnedGrantTransaction ==
  ASSUME IInv, OwnedInv, OneOwner, NEW w \in Workers, GrantTransaction(w)
  PROVE  OwnedInv' /\ SettledRowsKept
<1> DEFINE d == call[w]
           i == d.row.inv
           c(p) == [d EXCEPT !.pc = "advance", !.pay = p]
<1>1. /\ d \in Call /\ d.row \in Row /\ d.pc = "grant" /\ i \in Invoices
      /\ d.row.status = "succeeded" /\ d.row.ref = None
  BY OwnedFacts DEF GrantTransaction, OwnedCall, HoldsRow
<1>2. CASE Return(w) /\ UNCHANGED <<payment, credits, creditRef>>
  BY <1>2, OwnedEnds
<1>3. ASSUME NEW p \in Payments, payment[p].status = "absent", Credit(i, p),
             payment' = [payment EXCEPT ![p] = d.row],
             creditRef' = [creditRef EXCEPT ![i] = None],
             call' = [call EXCEPT ![w] = c(p)]
      PROVE  OwnedInv' /\ SettledRowsKept
  <2> DEFINE e == c(p)
  <2>1. Fresh(w, p) /\ RefFree(p, d.row)
    BY <1>1, <1>3 DEF Fresh, RefFree, ReferenceTaken
  <2>2. \A j \in Invoices :
          credits[j] \subseteq credits'[j] /\ (creditRef'[j] # None => creditRef'[j] = creditRef[j])
    BY <1>1, <1>3 DEF Credit, IInv, TypeOK
  <2>3. e.pc = "advance"
    <3> HIDE DEF d
    <3> QED BY <1>1 DEF Call
  <2>4. call' = [call EXCEPT ![w] = e]
    BY <1>3
  <2>5. call'[w] = e
    BY <2>4 DEF IInv, TypeOK
  <2> HIDE DEF e, c, d, i
  <2>6. OwnedCall(call[w])'
    BY <2>3, <2>5 DEF OwnedCall, Owning
  <2> QED
    BY <1>1, <1>3, <2>1, <2>2, <2>4, <2>6, OwnedWrite
<1> QED
  BY <1>2, <1>3 DEF GrantTransaction

LEMMA OwnedNext ==
  ASSUME IInv, OwnedInv, OneOwner, [Next]_vars
  PROVE  OwnedInv' /\ SettledRowsKept
<1>1. Handlers \subseteq Workers /\ Pollers \subseteq Workers
  BY DEF Workers
<1>2. ASSUME NEW w \in Workers, SchedulePolling(w) \/ Reschedule(w)
      PROVE  OwnedInv' /\ SettledRowsKept
  BY <1>2, OwnedEnds DEF SchedulePolling, Reschedule, history
<1>3. ASSUME NEW w \in Workers, AdvanceSubscription(w)
      PROVE  OwnedInv' /\ SettledRowsKept
  BY <1>3, OwnedEnds DEF AdvanceSubscription, Passive
<1>4. ASSUME NEW w \in Workers, EmitPaymentSucceeded(w) \/ EmitPaymentFailed(w)
      PROVE  OwnedInv' /\ SettledRowsKept
  BY <1>4, OwnedEnds DEF EmitPaymentSucceeded, EmitPaymentFailed, Emit, history
<1>5. ASSUME NEW w \in Workers, Continue(w)
      PROVE  OwnedInv' /\ SettledRowsKept
  BY <1>2, <1>3, <1>4, <1>5, OwnedLookup, OwnedInsert, OwnedApply, OwnedSave, OwnedReject,
     OwnedSettle, OwnedGrantTransaction DEF Continue
<1>6. ASSUME NEW w \in Workers, Abort(w)
      PROVE  OwnedInv' /\ SettledRowsKept
  BY <1>6, OwnedEnds DEF Abort, Passive, history
<1>7. CASE UNCHANGED <<payment, call, credits, creditRef>>
  BY <1>7 DEF OwnedInv, CallsOwned, OwnedCall, ReferencesUnique, CreditsKeepReference, SettledRowsKept
<1>8. (\E w \in Pollers : StalledJob(w)) \/ UNCHANGED vars => UNCHANGED <<payment, call, credits, creditRef>>
  BY DEF StalledJob, vars, history
<1> QED
  BY <1>1, <1>5, <1>6, <1>7, <1>8, OwnedStart, OwnedPollOnce, OwnedGateway DEF Next

LEMMA OwnedInit == Init => OwnedInv
<1> SUFFICES ASSUME Init PROVE OwnedInv
  OBVIOUS
<1>1. Idle.pc \in Passive
  BY DEF Idle, Passive
<1>2. CallsOwned
  BY <1>1, PassiveIsOwned DEF Init, CallsOwned
<1> QED
  BY <1>2 DEF Init, OwnedInv, ReferencesUnique, CreditsKeepReference, NoRow

LEMMA OwnedInvariance == Spec /\ []OneOwner => [](IInv /\ OwnedInv)
<1>1. IInv /\ OwnedInv /\ OneOwner /\ [Next]_vars => OwnedInv'
  BY OwnedNext
<1> QED
  BY <1>1, OwnedInit, Invariance, PTL DEF Spec

(* By any method, a bank reference credits one invoice, ever, as long as no two calls *)
(* are between the read and the save of one payment.                                   *)
THEOREM OwnedReferencesCreditOnce == Spec /\ []OneOwner => []ReferenceCreditsOneInvoice
<1>1. ASSUME IInv, OwnedInv PROVE ReferenceCreditsOneInvoice
  <2> SUFFICES ASSUME NEW i \in Invoices, NEW j \in Invoices,
                      creditRef[i] # None, creditRef[i] = creditRef[j]
               PROVE  i = j
    BY DEF ReferenceCreditsOneInvoice
  <2>1. PICK p \in credits[i] : payment[p].status = "succeeded" /\ payment[p].ref = creditRef[i]
    BY <1>1 DEF OwnedInv, CreditsKeepReference
  <2>2. PICK q \in credits[j] : payment[q].status = "succeeded" /\ payment[q].ref = creditRef[j]
    BY <1>1 DEF OwnedInv, CreditsKeepReference
  <2>3. p \in Payments /\ q \in Payments /\ payment[p].inv = i /\ payment[q].inv = j
    BY <1>1, <2>1, <2>2, CreditedExist
  <2>4. p = q
    BY <1>1, <2>1, <2>2, <2>3 DEF OwnedInv, ReferencesUnique
  <2> QED
    BY <2>3, <2>4
<1> QED
  BY <1>1, OwnedInvariance, PTL

(* There, too, a settled or failed payment never changes again. *)
THEOREM OwnedTerminalIsFinal == Spec /\ []OneOwner => TerminalIsFinal
<1>1. IInv /\ OwnedInv /\ OneOwner /\ [Next]_vars =>
        [\A p \in Payments :
           payment[p].status \in Terminal => payment'[p] = payment[p]]_payment
  BY OwnedNext DEF SettledRowsKept
<1> QED
  BY <1>1, OwnedInvariance, PTL DEF Spec, TerminalIsFinal

-----------------------------------------------------------------------------
(* References typed by clients *)

(* The bank verifies a typed reference in one answer: no OTP, no polling.  An *)
(* application that offers only such methods (and zelle, which waits for an   *)
(* admin) leaves a payment to the one call that inserted it.                  *)
VerifiedMethods == {"transfer", "pago_movil"}
TypedMethods == VerifiedMethods \cup {"zelle"}
TypedMethodsOnly == Methods \subseteq TypedMethods

TypedCall(c) ==
  /\ c.kind \in {"none", "create", "grant"}
  /\ c.pc \notin {"schedule", "reschedule"}
  /\ c.pc \in {"lookup", "checkReference", "insert"} =>
       c.kind = "create" /\ c.row.status = "pending" /\ c.row.method \in TypedMethods
  /\ c.pc \in Owning => c.kind = "create" /\ payment[c.pay].method \in VerifiedMethods
  /\ c.pc = "reread" => c.result.status \in Terminal
  /\ c.pc = "save" => c.row.status \in Terminal
  /\ c.pc = "grant" => c.row.status = "succeeded"

CallsTyped == \A w \in Workers : TypedCall(call[w])

RowStatus == {"absent", "pending", "succeeded", "failed"}
RowsTyped == \A p \in Payments : payment[p].status \in RowStatus

TypedInv ==
  /\ pollJobs = {}
  /\ CallsTyped
  /\ OneOwner
  /\ RowsTyped

(* What the two invariants say of one call. *)
LEMMA TypedFacts ==
  ASSUME IInv, TypedInv, NEW w \in Workers
  PROVE  /\ call[w] \in Call /\ call[w].row \in Row /\ call[w].result \in Result
         /\ HoldsRow(call[w]) /\ TypedCall(call[w]) /\ pollJobs = {}
         /\ \A p \in Payments : payment[p] \in Row /\ payment[p].status \in RowStatus
BY CallFacts DEF TypedInv, CallsTyped, RowsTyped

LEMMA IdleIsTyped == TypedCall(Idle) /\ Idle.pc \notin Owning
BY DEF TypedCall, Idle, Owning

(* A step that writes no payment keeps the invariant when its call               *)
(* owns no row it did not own before.                                            *)
LEMMA TypedQuiet ==
  ASSUME IInv, TypedInv, NEW w \in Workers, NEW c,
         call' = [call EXCEPT ![w] = c],
         UNCHANGED <<payment, pollJobs>>,
         TypedCall(c), c.pc \in Owning => call[w].pc \in Owning /\ c.pay = call[w].pay
  PROVE  TypedInv'
<1>1. /\ call'[w] = c
      /\ \A v \in Workers : v # w => call'[v] = call[v]
  BY DEF IInv, TypeOK
<1>2. CallsTyped'
  BY <1>1 DEF TypedInv, CallsTyped, TypedCall
<1>3. OneOwner'
  BY <1>1 DEF TypedInv, OneOwner
<1>4. RowsTyped' /\ pollJobs' = {}
  BY DEF TypedInv, RowsTyped
<1> QED
  BY <1>2, <1>3, <1>4 DEF TypedInv

(* A row is written by the one call that may: it was absent, or is the writer's. *)
Mine(w, p) == payment[p].status = "absent" \/ (call[w].pc \in Owning /\ call[w].pay = p)

LEMMA TypedWrite ==
  ASSUME IInv, TypedInv, NEW w \in Workers, NEW c, NEW p \in Payments, NEW row \in Row,
         Mine(w, p), row.status \in RowStatus \ {"absent"},
         payment' = [payment EXCEPT ![p] = row],
         call' = [call EXCEPT ![w] = c],
         UNCHANGED pollJobs,
         TypedCall(call[w])', c.pc \in Owning => c.pay = p
  PROVE  TypedInv'
<1>1. /\ call'[w] = c
      /\ \A v \in Workers : v # w => call'[v] = call[v]
  BY DEF IInv, TypeOK
<1>2. /\ payment'[p] = row
      /\ \A q \in Payments : q # p => payment'[q] = payment[q]
  BY DEF IInv, TypeOK
<1>3. ASSUME NEW v \in Workers, v # w
      PROVE  /\ TypedCall(call[v])'
             /\ call[v].pc \in Owning => call[v].pay # p
  <2>1. TypedCall(call[v]) /\ HoldsRow(call[v])
    BY TypedFacts
  <2>2. call[v].pc \in Owning => call[v].pay # p /\ call[v].pay \in Payments
    BY <1>3, <2>1 DEF TypedInv, OneOwner, Mine, HoldsRow, Owning, Holding
  <2>3. call'[v] = call[v]
    BY <1>1, <1>3
  <2> QED
    BY <1>2, <2>1, <2>2, <2>3 DEF TypedCall
<1>4. CallsTyped'
  BY <1>1, <1>3 DEF CallsTyped
<1>5. OneOwner'
  BY <1>1, <1>3 DEF TypedInv, OneOwner
<1>6. RowsTyped'
  BY <1>2 DEF TypedInv, RowsTyped
<1> QED
  BY <1>4, <1>5, <1>6 DEF TypedInv

(* A handler that ends owns nothing. *)
LEMMA TypedReturn ==
  ASSUME IInv, TypedInv, NEW w \in Workers, Return(w),
         UNCHANGED <<payment, pollJobs>>
  PROVE  TypedInv'
BY TypedQuiet, IdleIsTyped DEF Return

(* A call that drops its row and will announce a failure owns at most what it did. *)
LEMMA TypedFinish ==
  ASSUME IInv, TypedInv, NEW w \in Workers, NEW pc \in {"reject", "emitFailed", "emitSucceeded"},
         Finish(w, pc), pc = "reject" => call[w].pc \in Owning,
         UNCHANGED <<payment, pollJobs>>
  PROVE  TypedInv'
<1> DEFINE d == call[w]
           c == [d EXCEPT !.pc = pc, !.row = NoRow]
<1>1. c.pc = pc /\ c.kind = d.kind /\ c.pay = d.pay
  <2>1. d \in Call /\ pc \in Steps
    BY TypedFacts DEF Steps
  <2> HIDE DEF c, d
  <2>2. c = [d EXCEPT !.pc = pc, !.row = NoRow]
    BY DEF c
  <2> QED BY <2>1, <2>2, CallFinishes
<1>2. call' = [call EXCEPT ![w] = c]
  BY DEF Finish
<1>3. TypedCall(d)
  BY TypedFacts
<1> HIDE DEF c, d
<1>4. TypedCall(c)
  BY <1>1, <1>3 DEF TypedCall, Owning, d
<1> QED
  BY <1>1, <1>2, <1>4, TypedQuiet DEF d, Owning

(* A checkout request starts with a typed reference, or with zelle. *)
LEMMA TypedCreate ==
  ASSUME IInv, TypedInv, TypedMethodsOnly, NEW w \in Workers, NEW i \in Invoices,
         NEW m \in Methods, NEW k, NEW r, CreateForInvoice(w, i, m, k, r)
  PROVE  TypedInv'
<1> DEFINE row == [inv |-> i, key |-> k, method |-> m, status |-> "pending",
                   ref |-> r, failure |-> "none"]
           c == [Idle EXCEPT !.kind = "create", !.pc = "lookup", !.row = row]
<1>1. c.pc = "lookup" /\ c.kind = "create" /\ c.row = row
      /\ row.status = "pending" /\ row.method = m
  BY DEF Idle
<1>2. call' = [call EXCEPT ![w] = c]
  BY DEF CreateForInvoice
<1>3. UNCHANGED <<payment, pollJobs>>
  BY DEF CreateForInvoice, history
<1> HIDE DEF row, c
<1>4. TypedCall(c) /\ c.pc \notin Owning
  BY <1>1 DEF TypedCall, Owning, TypedMethodsOnly
<1> QED
  BY <1>2, <1>3, <1>4, TypedQuiet

(* A grant carries no reference. *)
LEMMA TypedGrant ==
  ASSUME IInv, TypedInv, NEW w \in Workers, NEW i \in Invoices, GrantManually(w, i)
  PROVE  TypedInv'
<1> DEFINE row == [NoRow EXCEPT !.inv = i, !.status = "succeeded"]
           c == [Idle EXCEPT !.kind = "grant", !.pc = "grant", !.row = row]
<1>1. c.pc = "grant" /\ c.kind = "grant" /\ c.row = row
      /\ row.status = "succeeded" /\ row.ref = None
  BY DEF Idle, NoRow
<1>2. call' = [call EXCEPT ![w] = c]
  BY DEF GrantManually
<1>3. UNCHANGED <<payment, pollJobs>>
  BY DEF GrantManually, history
<1> HIDE DEF row, c
<1>4. TypedCall(c) /\ c.pc \notin Owning
  BY <1>1 DEF TypedCall, Owning
<1> QED
  BY <1>2, <1>3, <1>4, TypedQuiet

(* The lookup and the check of the reference go on with the same row, or end. *)
LEMMA TypedLookup ==
  ASSUME IInv, TypedInv, NEW w \in Workers, LookupKey(w) \/ AssertReferenceUnused(w)
  PROVE  TypedInv'
<1>1. UNCHANGED <<payment, pollJobs>>
  BY DEF LookupKey, AssertReferenceUnused, history
<1>2. CASE Return(w)
  BY <1>1, <1>2, TypedReturn
<1>3. ASSUME NEW pc \in {"checkReference", "insert"}, Goto(w, pc),
             call[w].pc \in {"lookup", "checkReference"}
      PROVE  TypedInv'
  <2> DEFINE d == call[w]
             c == [d EXCEPT !.pc = pc]
  <2>1. c.pc = pc /\ c.row = d.row /\ c.kind = d.kind
    BY TypedFacts, CallMoves DEF Steps
  <2>2. call' = [call EXCEPT ![w] = c]
    BY <1>3 DEF Goto
  <2>3. TypedCall(d)
    BY TypedFacts
  <2> HIDE DEF c, d
  <2>4. TypedCall(c) /\ c.pc \notin Owning
    BY <1>3, <2>1, <2>3 DEF TypedCall, Owning, d
  <2> QED
    BY <1>1, <2>2, <2>4, TypedQuiet
<1> QED
  BY <1>2, <1>3 DEF LookupKey, AssertReferenceUnused

(* The bank's verification settles: its answer is final. *)
LEMMA TypedAnswer ==
  ASSUME IInv, TypedInv, NEW w \in Workers, NEW result \in Result, GatewayAnswers(w, result)
  PROVE  TypedInv'
<1> DEFINE d == call[w]
           c == [d EXCEPT !.pc = "reread", !.result = result]
<1>1. /\ d \in Call /\ TypedCall(d) /\ d.pc = "gateway" /\ d.kind = "create"
      /\ payment[d.pay].method \in VerifiedMethods
  BY TypedFacts DEF GatewayAnswers, TypedCall, Owning
<1>2. result.status \in Terminal
  BY <1>1 DEF GatewayAnswers, Answers, CreateAnswers, VerificationAnswers, VerifiedMethods, Terminal
<1>3. call' = [call EXCEPT ![w] = c]
  BY <1>1 DEF GatewayAnswers
<1>4. UNCHANGED <<payment, pollJobs>>
  BY DEF GatewayAnswers, history
<1> HIDE DEF d
<1>5. c.pc = "reread" /\ c.result = result /\ c.kind = d.kind /\ c.pay = d.pay
  BY <1>1 DEF Call
<1> HIDE DEF c
<1>6. TypedCall(c)
  BY <1>1, <1>2, <1>5 DEF TypedCall, Owning
<1> QED
  BY <1>1, <1>3, <1>4, <1>5, <1>6, TypedQuiet DEF d, Owning

(* The answer makes the row final. *)
LEMMA TypedApply ==
  ASSUME IInv, TypedInv, NEW w \in Workers, ApplyGatewayResult(w)
  PROVE  TypedInv'
<1> DEFINE d == call[w]
           row == Applied(payment[d.pay], d.result)
           c == [d EXCEPT !.pc = "save", !.result = NoResult, !.row = row]
<1>1. /\ d \in Call /\ TypedCall(d) /\ d.pc = "reread" /\ d.result \in Result
      /\ d.pay \in Payments /\ payment[d.pay] \in Row /\ d.result.status \in Terminal
  BY TypedFacts DEF ApplyGatewayResult, TypedCall, HoldsRow, Holding
<1>2. row.status \in Terminal
  BY <1>1, AppliedTyped DEF Terminal, PaymentStatus
<1>3. call' = [call EXCEPT ![w] = c]
  BY DEF ApplyGatewayResult
<1>4. UNCHANGED <<payment, pollJobs>>
  BY DEF ApplyGatewayResult, history
<1> HIDE DEF d, row
<1>5. c.pc = "save" /\ c.row = row /\ c.kind = d.kind /\ c.pay = d.pay
  BY <1>1 DEF Call
<1> HIDE DEF c
<1>6. TypedCall(c)
  BY <1>1, <1>2, <1>5 DEF TypedCall, Owning
<1> QED
  BY <1>1, <1>3, <1>4, <1>5, <1>6, TypedQuiet DEF d, Owning

(* The row is inserted pending: zelle waits, the rest is now the caller's. *)
LEMMA TypedInsert ==
  ASSUME IInv, TypedInv, NEW w \in Workers, InsertPayment(w)
  PROVE  TypedInv'
<1> DEFINE d == call[w]
           c(p) == [d EXCEPT !.pc = "gateway", !.pay = p, !.row = NoRow]
<1>1. /\ d \in Call /\ TypedCall(d) /\ d.row \in Row /\ d.kind = "create"
      /\ d.row.status = "pending" /\ d.row.method \in TypedMethods
  BY TypedFacts DEF InsertPayment, TypedCall
<1>2. UNCHANGED pollJobs
  BY DEF InsertPayment
<1>3. CASE Return(w) /\ UNCHANGED payment
  BY <1>2, <1>3, TypedReturn
<1>4. ASSUME NEW p \in Payments, payment[p].status = "absent",
             payment' = [payment EXCEPT ![p] = d.row],
             IF d.row.method = "zelle" THEN Return(w) ELSE call' = [call EXCEPT ![w] = c(p)]
      PROVE  TypedInv'
  <2>1. Mine(w, p) /\ d.row.status \in RowStatus \ {"absent"}
    BY <1>1, <1>4 DEF Mine, RowStatus
  <2>2. payment'[p] = d.row
    BY <1>4 DEF IInv, TypeOK
  <2>3. CASE Return(w)
    <3>1. TypedCall(call[w])'
      BY <2>3 DEF Return, IInv, TypeOK, TypedCall, Idle, Owning
    <3> QED
      BY <1>1, <1>2, <1>4, <2>1, <2>3, <3>1, TypedWrite, IdleIsTyped DEF Return
  <2>4. CASE d.row.method # "zelle" /\ call' = [call EXCEPT ![w] = c(p)]
    <3> DEFINE e == c(p)
    <3>1. e.pc = "gateway" /\ e.kind = "create" /\ e.pay = p
      <4> HIDE DEF d
      <4> QED BY <1>1 DEF Call
    <3>2. call' = [call EXCEPT ![w] = e]
      BY <2>4
    <3>3. call'[w] = e
      BY <3>2 DEF IInv, TypeOK
    <3> HIDE DEF e, c, d
    <3>4. TypedCall(call[w])'
      BY <1>1, <2>2, <2>4, <3>1, <3>3 DEF TypedCall, Owning, TypedMethods
    <3> QED
      BY <1>1, <1>2, <1>4, <2>1, <3>1, <3>2, <3>4, TypedWrite
  <2> QED
    BY <1>4, <2>3, <2>4
<1> QED
  BY <1>3, <1>4 DEF InsertPayment

(* The answer is saved over the pending row, or refused by the unique index. *)
LEMMA TypedSave ==
  ASSUME IInv, TypedInv, NEW w \in Workers, SavePayment(w)
  PROVE  TypedInv'
<1> DEFINE d == call[w]
<1>1. /\ d \in Call /\ TypedCall(d) /\ d.row \in Row /\ d.pc = "save" /\ d.pay \in Payments
      /\ d.kind = "create" /\ d.row.status \in Terminal
  BY TypedFacts DEF SavePayment, TypedCall, HoldsRow, Holding, Owning
<1>2. UNCHANGED pollJobs
  BY DEF SavePayment, history
<1>3. CASE Finish(w, "reject") /\ UNCHANGED payment
  BY <1>1, <1>2, <1>3, TypedFinish DEF Owning
<1>4. ASSUME NEW c, call' = [call EXCEPT ![w] = c],
             payment' = [payment EXCEPT ![d.pay] = d.row], c.kind = "create", c.pay = d.pay,
             c.pc \in {"settle", "emitFailed"}
      PROVE  TypedInv'
  <2>1. Mine(w, d.pay) /\ d.row.status \in RowStatus \ {"absent"}
    BY <1>1 DEF Mine, RowStatus, Terminal, Owning
  <2>2. payment'[d.pay] = d.row
    BY <1>1, <1>4 DEF IInv, TypeOK
  <2> HIDE DEF d
  <2>3. TypedCall(call[w])'
    <3>1. call'[w] = c
      BY <1>4 DEF IInv, TypeOK
    <3> QED
      BY <1>4, <2>2, <3>1 DEF TypedCall, Owning
  <2> QED
    BY <1>1, <1>2, <1>4, <2>1, <2>3, TypedWrite
<1>5. ASSUME payment' = [payment EXCEPT ![d.pay] = d.row], Goto(w, "settle")
      PROVE  TypedInv'
  <2> DEFINE c == [d EXCEPT !.pc = "settle"]
  <2>1. c.pc = "settle" /\ c.row = d.row /\ c.kind = d.kind /\ c.pay = d.pay
    BY <1>1, CallMoves DEF Steps
  <2>2. call' = [call EXCEPT ![w] = c]
    BY <1>5 DEF Goto
  <2> HIDE DEF c
  <2> QED
    BY <1>1, <1>4, <1>5, <2>1, <2>2
<1>6. ASSUME payment' = [payment EXCEPT ![d.pay] = d.row], Finish(w, "emitFailed"),
             d.row.status = "failed"
      PROVE  TypedInv'
  <2> DEFINE c == [d EXCEPT !.pc = "emitFailed", !.row = NoRow]
  <2>1. c.pc = "emitFailed" /\ c.kind = d.kind /\ c.pay = d.pay
    <3> HIDE DEF d
    <3> QED BY <1>1, CallFinishes DEF Steps
  <2>2. call' = [call EXCEPT ![w] = c]
    BY <1>6 DEF Finish
  <2> HIDE DEF c
  <2> QED
    BY <1>1, <1>4, <1>6, <2>1, <2>2
<1> QED
  BY <1>1, <1>3, <1>5, <1>6 DEF SavePayment, Terminal

(* A reference already credited fails the payment. *)
LEMMA TypedReject ==
  ASSUME IInv, TypedInv, NEW w \in Workers, RejectDuplicate(w)
  PROVE  TypedInv'
<1> DEFINE d == call[w]
           row == [payment[d.pay] EXCEPT !.status = "failed",
                                         !.failure = "REFERENCE_ALREADY_USED"]
           c == [d EXCEPT !.pc = "emitFailed"]
<1>1. /\ d \in Call /\ TypedCall(d) /\ d.pc = "reject" /\ d.pay \in Payments
      /\ payment[d.pay] \in Row /\ d.kind = "create"
  BY TypedFacts DEF RejectDuplicate, TypedCall, HoldsRow, Holding, Owning
<1>2. row \in Row /\ row.status = "failed"
  BY <1>1 DEF Row, PaymentStatus
<1>3. c.pc = "emitFailed" /\ c.kind = d.kind /\ c.pay = d.pay
  BY <1>1, CallMoves DEF Steps
<1>4. payment' = [payment EXCEPT ![d.pay] = row] /\ call' = [call EXCEPT ![w] = c]
  BY DEF RejectDuplicate, Goto
<1>5. UNCHANGED pollJobs
  BY DEF RejectDuplicate, history
<1>6. Mine(w, d.pay)
  BY <1>1 DEF Mine, Owning
<1>7. call'[w] = c
  BY <1>4 DEF IInv, TypeOK
<1> HIDE DEF row, c, d
<1>8. row.status \in RowStatus \ {"absent"}
  BY <1>2 DEF RowStatus
<1>9. TypedCall(call[w])' /\ c.pc \notin Owning
  BY <1>1, <1>3, <1>7 DEF TypedCall, Owning
<1> QED
  BY <1>1, <1>2, <1>4, <1>5, <1>6, <1>8, <1>9, TypedWrite

(* Crediting the invoice writes no payment. *)
LEMMA TypedSettle ==
  ASSUME IInv, TypedInv, NEW w \in Workers, OnPaymentSucceeded(w)
  PROVE  TypedInv'
<1> DEFINE d == call[w]
           c == [d EXCEPT !.pc = "advance"]
<1>1. d \in Call /\ TypedCall(d) /\ UNCHANGED <<payment, pollJobs>>
  BY TypedFacts DEF OnPaymentSucceeded
<1>2. CASE Finish(w, "emitSucceeded")
  BY <1>1, <1>2, TypedFinish
<1>3. CASE Goto(w, "advance")
  <2>1. c.pc = "advance" /\ c.kind = d.kind
    BY <1>1, CallMoves DEF Steps
  <2>2. call' = [call EXCEPT ![w] = c]
    BY <1>3 DEF Goto
  <2> HIDE DEF c, d
  <2>3. TypedCall(c) /\ c.pc \notin Owning
    BY <1>1, <2>1 DEF TypedCall, Owning
  <2> QED
    BY <1>1, <2>2, <2>3, TypedQuiet
<1> QED
  BY <1>2, <1>3 DEF OnPaymentSucceeded

(* The manual payment is inserted settled, without a reference. *)
LEMMA TypedGrantTransaction ==
  ASSUME IInv, TypedInv, NEW w \in Workers, GrantTransaction(w)
  PROVE  TypedInv'
<1> DEFINE d == call[w]
           c(p) == [d EXCEPT !.pc = "advance", !.pay = p]
<1>1. d \in Call /\ TypedCall(d) /\ d.row \in Row /\ d.row.status = "succeeded"
  BY TypedFacts DEF GrantTransaction, TypedCall
<1>2. UNCHANGED pollJobs
  BY DEF GrantTransaction
<1>3. CASE Return(w) /\ UNCHANGED payment
  BY <1>2, <1>3, TypedReturn
<1>4. ASSUME NEW p \in Payments, payment[p].status = "absent",
             payment' = [payment EXCEPT ![p] = d.row],
             call' = [call EXCEPT ![w] = c(p)]
      PROVE  TypedInv'
  <2> DEFINE e == c(p)
  <2>1. Mine(w, p) /\ d.row.status \in RowStatus \ {"absent"}
    BY <1>1, <1>4 DEF Mine, RowStatus
  <2>3. e.pc = "advance" /\ e.kind = d.kind /\ e.pay = p
    <3> HIDE DEF d
    <3> QED BY <1>1 DEF Call
  <2>4. call' = [call EXCEPT ![w] = e]
    BY <1>4
  <2>5. call'[w] = e
    BY <2>4 DEF IInv, TypeOK
  <2> HIDE DEF e, c, d
  <2>6. TypedCall(call[w])' /\ e.pc \notin Owning
    BY <1>1, <2>3, <2>5 DEF TypedCall, Owning
  <2> QED
    BY <1>1, <1>2, <1>4, <2>1, <2>3, <2>4, <2>6, TypedWrite
<1> QED
  BY <1>3, <1>4 DEF GrantTransaction

(* Nothing is offered but typed references, so no step asks for an OTP or polls. *)
LEMMA TypedNext ==
  ASSUME IInv, TypedInv, TypedMethodsOnly, [Next]_vars
  PROVE  TypedInv'
<1>1. ASSUME NEW w \in Handlers, Start(w)
      PROVE  TypedInv'
  <2>1. w \in Workers
    BY DEF Workers
  <2>2. ASSUME NEW p \in Payments, SubmitOtp(w, p)
        PROVE  FALSE
    BY <2>1, <2>2, TypedFacts DEF SubmitOtp, RowStatus
  <2> QED
    BY <1>1, <2>1, <2>2, TypedCreate, TypedGrant DEF Start, VerifyForInvoice
<1>2. ASSUME NEW w \in Pollers, NEW job \in PollJob, PollOnce(w, job)
      PROVE  FALSE
  BY <1>2 DEF PollOnce, TypedInv
<1>3. ASSUME NEW w \in Workers, Gateway(w)
      PROVE  TypedInv'
  <2>1. call[w].kind # "poll"
    BY TypedFacts DEF TypedCall
  <2>2. GatewayFails(w) => TypedInv'
    BY <2>1, TypedReturn DEF GatewayFails, history
  <2> QED
    BY <1>3, <2>2, TypedAnswer DEF Gateway
<1>4. ASSUME NEW w \in Workers, SchedulePolling(w) \/ Reschedule(w)
      PROVE  FALSE
  BY <1>4, TypedFacts DEF SchedulePolling, Reschedule, TypedCall
<1>5. ASSUME NEW w \in Workers, AdvanceSubscription(w)
      PROVE  TypedInv'
  BY <1>5, TypedFinish DEF AdvanceSubscription
<1>6. ASSUME NEW w \in Workers, EmitPaymentSucceeded(w) \/ EmitPaymentFailed(w)
      PROVE  TypedInv'
  BY <1>6, TypedReturn DEF EmitPaymentSucceeded, EmitPaymentFailed, Emit, history
<1>7. ASSUME NEW w \in Workers, Continue(w)
      PROVE  TypedInv'
  BY <1>4, <1>5, <1>6, <1>7, TypedLookup, TypedInsert, TypedApply, TypedSave, TypedReject,
     TypedSettle, TypedGrantTransaction DEF Continue
<1>8. ASSUME NEW w \in Workers, Abort(w)
      PROVE  TypedInv'
  <2>1. Return(w) /\ UNCHANGED <<payment, pollJobs>>
    BY <1>8, TypedFacts DEF Abort, TypedCall, history
  <2> QED
    BY <2>1, TypedReturn
<1>9. ASSUME NEW w \in Pollers, StalledJob(w)
      PROVE  FALSE
  BY <1>9, TypedFacts DEF StalledJob, TypedCall, Workers
<1>10. CASE UNCHANGED vars
  BY <1>10 DEF TypedInv, CallsTyped, TypedCall, OneOwner, RowsTyped, vars
<1> QED
  BY <1>1, <1>2, <1>3, <1>7, <1>8, <1>9, <1>10 DEF Next

LEMMA TypedInit == Init => TypedInv
<1> SUFFICES ASSUME Init PROVE TypedInv
  OBVIOUS
<1>1. \A p \in Payments : payment[p] = NoRow
  BY DEF Init
<1>2. CallsTyped /\ OneOwner
  BY IdleIsTyped DEF Init, CallsTyped, OneOwner
<1> QED
  BY <1>1, <1>2 DEF Init, TypedInv, RowsTyped, RowStatus, NoRow

LEMMA TypedHasOneOwner ==
  ASSUME TypedMethodsOnly
  PROVE  Spec => []OneOwner
<1>1. IInv /\ TypedInv /\ [Next]_vars => TypedInv'
  BY TypedNext
<1>2. TypedInv => OneOwner
  BY DEF TypedInv
<1> QED
  BY <1>1, <1>2, TypedInit, Invariance, PTL DEF Spec

(* Where every reference is typed by the client and verified at once, a bank    *)
(* reference credits one invoice, however many requests race with it.           *)
THEOREM TypedReferencesCreditOnce ==
  TypedMethodsOnly => (Spec => []ReferenceCreditsOneInvoice)
<1> SUFFICES ASSUME TypedMethodsOnly PROVE Spec => []ReferenceCreditsOneInvoice
  OBVIOUS
<1> QED
  BY TypedHasOneOwner, OwnedReferencesCreditOnce, PTL

(* There, too, a settled or failed payment never changes again. *)
THEOREM TypedTerminalIsFinal ==
  TypedMethodsOnly => (Spec => TerminalIsFinal)
<1> SUFFICES ASSUME TypedMethodsOnly PROVE Spec => TerminalIsFinal
  OBVIOUS
<1> QED
  BY TypedHasOneOwner, OwnedTerminalIsFinal, PTL
=============================================================================
