--------------------------- MODULE InvoicesProofs ---------------------------
(***************************************************************************)
(* Numbers of invoices are never skipped by the counter nor shared, for any  *)
(* number of invoices, requests and faults.                                  *)
(*                                                                           *)
(* The locked read makes the number a request is about to write the one next *)
(* to the counter's value (InvoicesTypeOK); what a request that has left the  *)
(* transaction carries is below the counter and its own (Carried).  Where no   *)
(* two requests issue one invoice at once, a paid one stays paid (StillDraft). *)
(*                                                                             *)
(* And the amounts of an invoice are those of its lines, for a cart of any     *)
(* length, from the price to what the bank is asked for: what a request         *)
(* carries between its awaits was computed from the bill (CheckoutInv), whose    *)
(* total no step changes.                                                         *)
(***************************************************************************)
EXTENDS Invoices, Checkout, SumsProofs, TLAPS

(* What a request holds at each of its awaits: inside the transaction the row *)
(* lock, and after it a number no one else carries.                           *)
Carried ==
  /\ \A r \in Requests : request[r].pc = "increment" => locked = r /\ request[r].seen > 0
  /\ \A r \in Requests : request[r].number # 0 <=> request[r].pc = "open"
  /\ \A r \in Requests : request[r].pc # "idle" => request[r].inv \in InvoiceIds
  /\ \A r \in Requests : request[r].number <= counter
  /\ \A q, r \in Requests :
       q # r /\ request[q].number # 0 => request[q].number # request[r].number

(* Every number on an invoice came from the counter. *)
Issued == \A i \in InvoiceIds : invoiceRow[i].number <= counter

IInv == InvoicesTypeOK /\ EachNumberOnce /\ NumbersAreUnique /\ Carried /\ Issued

-----------------------------------------------------------------------------
(* No invoice has a number before the first request. *)
LEMMA InitIInv == InvoicesInit => IInv
BY InvoicesAssumption, SMTT(30)
   DEF InvoicesInit, IInv, InvoicesTypeOK, EachNumberOnce, NumbersAreUnique, Carried, Issued,
       Invoice, IssueRequest, IdleRequest

(* Steps on an invoice alone keep every number where it is. *)
LEMMA InvoiceStep ==
  ASSUME IInv, NEW i \in InvoiceIds, CreateDraft(i) \/ MarkPaid(i)
  PROVE  IInv'
<1>1. InvoicesTypeOK'
  BY SMTT(30) DEF IInv, InvoicesTypeOK, CreateDraft, MarkPaid, Invoice
<1>2. \A j \in InvoiceIds : invoiceRow'[j].number = invoiceRow[j].number
  BY SMTT(30) DEF IInv, InvoicesTypeOK, CreateDraft, MarkPaid, Invoice
<1>3. NumbersAreUnique'
  BY <1>2, SMTT(30) DEF IInv, InvoicesTypeOK, NumbersAreUnique, CreateDraft, MarkPaid, Invoice
<1>4. EachNumberOnce' /\ Carried' /\ Issued'
  BY <1>2, SMTT(30) DEF IInv, EachNumberOnce, Carried, Issued, CreateDraft, MarkPaid
<1>5. QED
  BY <1>1, <1>3, <1>4 DEF IInv


(* A request that goes on to another await, having read a draft. *)
LEMMA DraftRead ==
  ASSUME NEW q \in IssueRequest, NEW i \in InvoiceIds
  PROVE  [q EXCEPT !.pc = "count", !.inv = i] \in IssueRequest
<1>1. [q EXCEPT !.pc = "count"] \in IssueRequest
  BY SMT DEF IssueRequest
<1>2. \A p \in IssueRequest : [p EXCEPT !.inv = i] \in IssueRequest
  BY SMT DEF IssueRequest
<1>3. [q EXCEPT !.pc = "count", !.inv = i] = [[q EXCEPT !.pc = "count"] EXCEPT !.inv = i]
  BY SMT DEF IssueRequest
<1>4. QED
  BY <1>1, <1>2, <1>3

(* A request that goes on to another await, having read the counter. *)
LEMMA CounterRead ==
  ASSUME NEW q \in IssueRequest, NEW pc \in {"insert", "increment"}, NEW n \in Nat
  PROVE  [q EXCEPT !.pc = pc, !.seen = n] \in IssueRequest
<1>1. [q EXCEPT !.pc = pc] \in IssueRequest
  BY SMT DEF IssueRequest
<1>2. \A p \in IssueRequest : [p EXCEPT !.seen = n] \in IssueRequest
  BY SMT DEF IssueRequest
<1>3. [q EXCEPT !.pc = pc, !.seen = n] = [[q EXCEPT !.pc = pc] EXCEPT !.seen = n]
  BY SMT DEF IssueRequest
<1>4. QED
  BY <1>1, <1>2, <1>3

(* A step that moves no counter and no invoice, and gives no request a number. *)
LEMMA UnmovedNumbers ==
  ASSUME IInv, UNCHANGED <<invoiceRow, counter, handed>>,
         \A q \in Requests : request'[q].number \in {0, request[q].number}
  PROVE  EachNumberOnce' /\ NumbersAreUnique' /\ Issued'
<1>1. NumbersAreUnique'
  BY SMT DEF IInv, NumbersAreUnique
<1>2. QED
  BY <1>1 DEF IInv, EachNumberOnce, Issued

(* A request starts: it holds no row lock, having read no counter. *)
LEMMA StartStep ==
  ASSUME IInv, NEW r \in Requests, NEW i \in InvoiceIds, ReadDraft(r, i)
  PROVE  IInv'
<1>1. /\ request[r].pc = "idle" /\ request[r].number = 0
      /\ request' = [request EXCEPT ![r].pc = "count", ![r].inv = i]
      /\ UNCHANGED <<invoiceRow, counter, locked, deaths, handed>>
  BY SMT DEF ReadDraft, IdleRequest
<1>2. /\ request'[r].pc = "count" /\ request'[r].inv = i /\ request'[r].number = 0
      /\ \A q \in Requests : q # r => request'[q] = request[q]
  BY <1>1, SMT DEF IInv, InvoicesTypeOK, IssueRequest
<1>3. request' \in [Requests -> IssueRequest] /\ locked # r
  <2>1. locked # r
    BY <1>1, InvoicesAssumption DEF IInv, InvoicesTypeOK
  <2>2. request' \in [Requests -> IssueRequest]
    BY <1>1, DraftRead DEF IInv, InvoicesTypeOK
  <2>3. QED
    BY <2>1, <2>2
<1>4. EachNumberOnce' /\ NumbersAreUnique' /\ Issued'
  BY <1>1, <1>2, <1>3, UnmovedNumbers
<1>5. InvoicesTypeOK'
  BY <1>1, <1>2, <1>3, SMTT(30) DEF IInv, InvoicesTypeOK
<1>6. Carried'
  BY <1>1, <1>2, <1>3, InvoicesAssumption, SMTT(30) DEF IInv, InvoicesTypeOK, Carried
<1>7. QED
  BY <1>4, <1>5, <1>6 DEF IInv

(* A request dies: the row is freed and the number it carried is lost. *)
LEMMA DieStep ==
  ASSUME IInv, NEW r \in Requests, RequestDies(r)
  PROVE  IInv'
<1>1. /\ IdleRequest \in IssueRequest /\ IdleRequest.number = 0 /\ IdleRequest.pc = "idle"
  BY SMT DEF IssueRequest, IdleRequest
<1>2. /\ request' = [request EXCEPT ![r] = IdleRequest]
      /\ locked' = IF locked = r THEN Nobody ELSE locked
      /\ deaths' \in 0..MaxDeaths
      /\ UNCHANGED <<invoiceRow, counter, handed>>
  BY InvoicesAssumption, SMT DEF IInv, InvoicesTypeOK, RequestDies
<1>3. /\ request'[r] = IdleRequest /\ \A q \in Requests : q # r => request'[q] = request[q]
      /\ request' \in [Requests -> IssueRequest]
  BY <1>1, <1>2, SMT DEF IInv, InvoicesTypeOK
<1>4. EachNumberOnce' /\ NumbersAreUnique' /\ Issued'
  BY <1>1, <1>2, <1>3, UnmovedNumbers
<1>5. InvoicesTypeOK'
  BY <1>1, <1>2, <1>3, InvoicesAssumption, SMTT(30) DEF IInv, InvoicesTypeOK
<1>6. Carried'
  BY <1>1, <1>2, <1>3, InvoicesAssumption, SMTT(30) DEF IInv, InvoicesTypeOK, Carried
<1>7. QED
  BY <1>4, <1>5, <1>6 DEF IInv

(* The locked read moves one request and gives out nothing. *)
LEMMA ReadCounterStep ==
  ASSUME IInv, NEW r \in Requests, ReadCounter(r)
  PROVE  IInv'
<1>1. /\ request[r].pc = "count" /\ request[r] \in IssueRequest
      /\ locked = Nobody /\ locked' = IF counter = 0 THEN Nobody ELSE r
      /\ counter \in 0..MaxNumber
      /\ UNCHANGED <<invoiceRow, counter, deaths, handed>>
  BY InvoicesAssumption, SMTT(30) DEF IInv, InvoicesTypeOK, ReadCounter
<1>2. /\ request'[r].number = request[r].number /\ request'[r].inv = request[r].inv
      /\ request'[r].seen = counter
      /\ request'[r].pc = IF counter = 0 THEN "insert" ELSE "increment"
      /\ \A q \in Requests : q # r => request'[q] = request[q]
  BY SMTT(30) DEF IInv, InvoicesTypeOK, ReadCounter, IssueRequest
<1>3. request' \in [Requests -> IssueRequest]
  <2>0. counter \in Nat
    BY <1>1, SMT
  <2>1. CASE counter = 0
    <3>1. request' = [request EXCEPT ![r].pc = "insert", ![r].seen = counter]
      BY <2>1 DEF ReadCounter
    <3>2. QED
      BY <1>1, <2>0, <3>1, CounterRead DEF IInv, InvoicesTypeOK
  <2>2. CASE counter # 0
    <3>1. request' = [request EXCEPT ![r].pc = "increment", ![r].seen = counter]
      BY <2>2 DEF ReadCounter
    <3>2. QED
      BY <1>1, <2>0, <3>1, CounterRead DEF IInv, InvoicesTypeOK
  <2>3. QED
    BY <2>1, <2>2
<1>4. \A q \in Requests : request'[q].number \in {0, request[q].number}
  BY <1>2, <1>3
<1>5. EachNumberOnce' /\ NumbersAreUnique' /\ Issued'
  BY <1>1, <1>4, UnmovedNumbers
<1>6. InvoicesTypeOK'
  BY <1>1, <1>2, <1>3, InvoicesAssumption, SMTT(30) DEF IInv, InvoicesTypeOK
<1>7. Carried'
  <2>1. request[r].number = 0 /\ \A q \in Requests : request[q].pc # "increment"
    BY <1>1, InvoicesAssumption, SMTT(30) DEF IInv, Carried
  <2>2. QED
    BY <1>1, <1>2, <1>3, <2>1, SMTT(30) DEF IInv, Carried
<1>8. QED
  BY <1>5, <1>6, <1>7 DEF IInv

(* The two steps that give out a number, the one next to the counter's value: *)
(* nobody carries it yet.                                                     *)
LEMMA NumberStep ==
  ASSUME IInv, NEW r \in Requests, InsertCounter(r) \/ IncrementCounter(r), counter' # counter
  PROVE  IInv'
<1>1. /\ counter \in Nat /\ counter' = counter + 1 /\ counter' \in 1..MaxNumber
      /\ handed' = [handed EXCEPT ![counter'] = @ + 1]
      /\ request' = [request EXCEPT ![r].pc = "open", ![r].number = counter']
      /\ request[r].pc \in {"insert", "increment"}
      /\ locked' = IF locked = r THEN Nobody ELSE locked
      /\ UNCHANGED <<invoiceRow, deaths>>
  BY InvoicesAssumption, SMTT(30)
     DEF IInv, InvoicesTypeOK, Carried, InsertCounter, IncrementCounter, IssueRequest
<1>2. InvoicesTypeOK'
  BY <1>1, InvoicesAssumption, SMTT(30) DEF IInv, InvoicesTypeOK, Carried, IssueRequest
<1>3. EachNumberOnce'
  BY <1>1, SMTT(30) DEF IInv, InvoicesTypeOK, EachNumberOnce
<1>4. /\ request'[r].number = counter' /\ request'[r].pc = "open"
      /\ request'[r].inv = request[r].inv
      /\ \A q \in Requests : q # r => request'[q] = request[q]
      /\ \A q \in Requests : request[q].number \in Nat
      /\ \A i \in InvoiceIds : invoiceRow[i].number \in Nat
  BY <1>1, SMTT(30) DEF IInv, InvoicesTypeOK, IssueRequest, Invoice
<1>5. /\ counter \in Nat /\ counter' = counter + 1
      /\ UNCHANGED invoiceRow
      /\ request[r].pc \in {"insert", "increment"}
      /\ \A q \in Requests : q # r /\ locked = q => locked' = q
  BY <1>1
<1>6. NumbersAreUnique'
  <2>1. \A i \in InvoiceIds : invoiceRow'[i] = invoiceRow[i] /\ invoiceRow[i].number # counter'
    BY <1>4, <1>5, SMT DEF IInv, Issued
  <2>2. \A q \in Requests : request'[q].number \in {counter', request[q].number}
    BY <1>4
  <2>3. QED
    BY <2>1, <2>2, SMT DEF IInv, NumbersAreUnique
<1>7. Carried'
  <2>1. \A q \in Requests : request[q].number # counter'
    BY <1>4, <1>5, SMT DEF IInv, Carried
  <2>2. \A q \in Requests : request'[q].number <= counter'
    BY <1>4, <1>5, SMT DEF IInv, Carried
  <2>3. \A q \in Requests : request'[q].pc = "increment" => locked' = q /\ request'[q].seen > 0
    BY <1>4, <1>5, SMT DEF IInv, Carried
  <2>4. \A q \in Requests : /\ request'[q].number # 0 <=> request'[q].pc = "open"
                            /\ request'[q].pc # "idle" => request'[q].inv \in InvoiceIds
    BY <1>4, <1>5, SMT DEF IInv, Carried
  <2>5. \A p, q \in Requests :
          p # q /\ request'[p].number # 0 => request'[p].number # request'[q].number
    BY <1>4, <1>5, <2>1, SMT DEF IInv, Carried
  <2>6. QED
    BY <2>2, <2>3, <2>4, <2>5 DEF Carried
<1>8. Issued'
  BY <1>4, <1>5, SMT DEF IInv, Issued
<1>9. QED
  BY <1>2, <1>3, <1>6, <1>7, <1>8 DEF IInv

(* A second insert of the year breaks the primary key: its request ends. *)
LEMMA InsertRefusedStep ==
  ASSUME IInv, NEW r \in Requests, InsertCounter(r), counter # 0
  PROVE  IInv'
<1>1. /\ IdleRequest \in IssueRequest /\ IdleRequest.number = 0 /\ IdleRequest.pc = "idle"
  BY SMT DEF IssueRequest, IdleRequest
<1>2. /\ request[r].pc = "insert"
      /\ request' = [request EXCEPT ![r] = IdleRequest]
      /\ UNCHANGED <<invoiceRow, counter, locked, deaths, handed>>
  BY DEF InsertCounter
<1>3. /\ request'[r] = IdleRequest /\ \A q \in Requests : q # r => request'[q] = request[q]
      /\ request' \in [Requests -> IssueRequest]
  BY <1>1, <1>2, SMT DEF IInv, InvoicesTypeOK
<1>4. EachNumberOnce' /\ NumbersAreUnique' /\ Issued'
  BY <1>1, <1>2, <1>3, UnmovedNumbers
<1>5. InvoicesTypeOK'
  BY <1>1, <1>2, <1>3, InvoicesAssumption, SMTT(30) DEF IInv, InvoicesTypeOK
<1>6. Carried'
  BY <1>1, <1>2, <1>3, SMTT(30) DEF IInv, Carried
<1>7. QED
  BY <1>4, <1>5, <1>6 DEF IInv

(* The number a request carries goes to its invoice, which loses the one it had. *)
LEMMA OpenInvoiceStep ==
  ASSUME IInv, NEW r \in Requests, OpenInvoice(r)
  PROVE  IInv'
<1> DEFINE i == request[r].inv
           n == request[r].number
<1>1. /\ i \in InvoiceIds /\ n \in Nat \ {0} /\ n <= counter
      /\ request[r].pc = "open"
  BY SMT DEF IInv, InvoicesTypeOK, Carried, OpenInvoice, IssueRequest
<1>2. /\ invoiceRow' = [invoiceRow EXCEPT ![i] = [status |-> "open", number |-> n]]
      /\ request' = [request EXCEPT ![r] = IdleRequest]
      /\ UNCHANGED <<counter, locked, deaths, handed>>
  BY DEF OpenInvoice
<1> HIDE DEF i, n
<1>3. /\ IdleRequest \in IssueRequest /\ IdleRequest.number = 0 /\ IdleRequest.pc = "idle"
      /\ [status |-> "open", number |-> n] \in Invoice
  BY <1>1, SMT DEF IssueRequest, IdleRequest, Invoice
<1>4. /\ request'[r] = IdleRequest /\ \A q \in Requests : q # r => request'[q] = request[q]
      /\ request' \in [Requests -> IssueRequest]
  BY <1>2, <1>3, SMT DEF IInv, InvoicesTypeOK
<1>5. /\ invoiceRow'[i].number = n /\ invoiceRow'[i].status = "open"
      /\ \A j \in InvoiceIds : j # i => invoiceRow'[j] = invoiceRow[j]
      /\ invoiceRow' \in [InvoiceIds -> Invoice]
  BY <1>1, <1>2, <1>3, SMT DEF IInv, InvoicesTypeOK
<1>6. InvoicesTypeOK'
  BY <1>1, <1>2, <1>3, <1>4, <1>5, InvoicesAssumption, SMTT(30) DEF IInv, InvoicesTypeOK
<1>7. NumbersAreUnique'
  <2>1. \A j \in InvoiceIds : invoiceRow[j].number # n
    BY <1>1, SMT DEF IInv, NumbersAreUnique, i, n
  <2>2. \A q \in Requests : q # r => request[q].number # n
    BY <1>1, SMT DEF IInv, Carried, n
  <2>3. QED
    BY <1>1, <1>3, <1>4, <1>5, <2>1, <2>2, SMTT(30) DEF IInv, NumbersAreUnique
<1>8. Carried' /\ Issued' /\ EachNumberOnce'
  <2>1. counter \in Nat
    BY InvoicesAssumption, SMT DEF IInv, InvoicesTypeOK
  <2>2. Carried'
    BY <1>1, <1>2, <1>3, <1>4, <2>1, SMTT(30) DEF IInv, Carried
  <2>3. Issued' /\ EachNumberOnce'
    BY <1>1, <1>2, <1>5, SMT DEF IInv, Issued, EachNumberOnce
  <2>4. QED
    BY <2>2, <2>3
<1>9. QED
  BY <1>6, <1>7, <1>8 DEF IInv

-----------------------------------------------------------------------------
(* Every step keeps the invariant. *)
LEMMA StepIInv == IInv /\ [InvoicesNext]_invoiceVars => IInv'
<1> SUFFICES ASSUME IInv, [InvoicesNext]_invoiceVars PROVE IInv'
  OBVIOUS
<1>1. CASE UNCHANGED invoiceVars
  BY <1>1, SMT DEF invoiceVars, IInv, InvoicesTypeOK, EachNumberOnce, NumbersAreUnique, Carried, Issued
<1>2. ASSUME NEW i \in InvoiceIds, CreateDraft(i) \/ MarkPaid(i) PROVE IInv'
  BY <1>2, InvoiceStep
<1>3. ASSUME NEW r \in Requests, NEW i \in InvoiceIds, ReadDraft(r, i) PROVE IInv'
  BY <1>3, StartStep
<1>4. ASSUME NEW r \in Requests, Issue(r) \/ RequestDies(r) PROVE IInv'
  <2>1. CASE ReadCounter(r)
    BY <2>1, ReadCounterStep
  <2>2. CASE InsertCounter(r)
    <3>1. counter = 0 => counter' # counter
      BY <2>2 DEF InsertCounter
    <3>2. QED
      BY <2>2, <3>1, NumberStep, InsertRefusedStep
  <2>3. CASE IncrementCounter(r)
    <3>1. counter' # counter
      BY <2>3, InvoicesAssumption, SMT DEF IncrementCounter, IInv, InvoicesTypeOK, Carried
    <3>2. QED
      BY <2>3, <3>1, NumberStep
  <2>4. CASE OpenInvoice(r)
    BY <2>4, OpenInvoiceStep
  <2>5. CASE RequestDies(r)
    BY <2>5, DieStep
  <2>6. QED
    BY <1>4, <2>1, <2>2, <2>3, <2>4, <2>5 DEF Issue
<1>5. QED
  BY <1>1, <1>2, <1>3, <1>4 DEF InvoicesNext

(* The invariant holds in every reachable state. *)
LEMMA Invariance == InvoicesSpec => []IInv
BY InitIInv, StepIInv, PTL DEF InvoicesSpec

(* Every state is well typed, and the counter's row is locked only by the      *)
(* request inside the transaction of CountersService.next.                     *)
THEOREM TypeCorrect == InvoicesSpec => []InvoicesTypeOK
<1>1. IInv => InvoicesTypeOK
  BY DEF IInv
<1>2. QED
  BY <1>1, Invariance, PTL

(* CountersService gives out each number up to its value exactly once, however *)
(* requests race for the year's first row and die.                              *)
THEOREM NumbersGivenOnce == InvoicesSpec => []EachNumberOnce
<1>1. IInv => EachNumberOnce
  BY DEF IInv
<1>2. QED
  BY <1>1, Invariance, PTL

(* No two invoices share a number, though issue() overwrites by id: a request  *)
(* that issues a draft twice leaves a gap, never a duplicate.                   *)
THEOREM NumbersNeverShared == InvoicesSpec => []NumbersAreUnique
<1>1. IInv => NumbersAreUnique
  BY DEF IInv
<1>2. QED
  BY <1>1, Invariance, PTL

-----------------------------------------------------------------------------
(* A paid invoice stays paid, unless two requests issue it *)

(* No two requests to issue are between their read and their update of one     *)
(* invoice.  Nothing in issue() sees to it.                                     *)
OnePerInvoice ==
  \A q, r \in Requests :
    q # r /\ request[q].pc # "idle" /\ request[r].pc # "idle" => request[q].inv # request[r].inv

(* What a request to issue has read as a draft is one still. *)
StillDraft ==
  \A r \in Requests : request[r].pc # "idle" => invoiceRow[request[r].inv].status = "draft"

PaidKept ==
  \A i \in InvoiceIds : invoiceRow[i].status = "paid" => invoiceRow'[i].status = "paid"

(* The requests go on, end, or start from a draft. *)
LEMMA RequestsDraft ==
  ASSUME IInv, StillDraft, UNCHANGED invoiceRow,
         \A r \in Requests : request'[r].pc # "idle" =>
           \/ request[r].pc # "idle" /\ request'[r].inv = request[r].inv
           \/ invoiceRow[request'[r].inv].status = "draft"
  PROVE  StillDraft' /\ PaidKept
BY DEF StillDraft, PaidKept

(* A draft is created, an open invoice paid: neither was a request's. *)
LEMMA RowDraft ==
  ASSUME IInv, StillDraft, NEW i \in InvoiceIds, CreateDraft(i) \/ MarkPaid(i)
  PROVE  StillDraft' /\ PaidKept
<1>1. UNCHANGED request /\ invoiceRow[i].status \in {"none", "open"}
  BY DEF CreateDraft, MarkPaid
<1>2. \A j \in InvoiceIds : j # i => invoiceRow'[j] = invoiceRow[j]
  BY DEF IInv, InvoicesTypeOK, CreateDraft, MarkPaid
<1>3. \A r \in Requests : request[r].pc # "idle" => request[r].inv \in InvoiceIds /\ request[r].inv # i
  BY <1>1 DEF IInv, Carried, StillDraft
<1> QED
  BY <1>1, <1>2, <1>3 DEF StillDraft, PaidKept

(* The update by id reaches a draft, which nobody else is issuing. *)
LEMMA OpenDraft ==
  ASSUME IInv, StillDraft, OnePerInvoice, NEW r \in Requests, OpenInvoice(r)
  PROVE  StillDraft' /\ PaidKept
<1> DEFINE i == request[r].inv
<1>1. request[r].pc # "idle" /\ i \in InvoiceIds /\ invoiceRow[i].status = "draft"
  BY DEF OpenInvoice, IInv, Carried, StillDraft
<1>2. \A j \in InvoiceIds : j # i => invoiceRow'[j] = invoiceRow[j]
  BY DEF OpenInvoice
<1>3. request'[r].pc = "idle" /\ \A q \in Requests : q # r => request'[q] = request[q]
  BY DEF OpenInvoice, IInv, InvoicesTypeOK, IdleRequest
<1>4. \A q \in Requests : q # r /\ request[q].pc # "idle" => request[q].inv \in InvoiceIds /\ request[q].inv # i
  BY <1>1 DEF OnePerInvoice, IInv, Carried
<1> HIDE DEF i
<1> QED
  BY <1>1, <1>2, <1>3, <1>4 DEF StillDraft, PaidKept

LEMMA DraftNext ==
  ASSUME IInv, StillDraft, OnePerInvoice, [InvoicesNext]_invoiceVars
  PROVE  StillDraft' /\ PaidKept
<1>1. CASE UNCHANGED invoiceVars
  BY <1>1, RequestsDraft DEF invoiceVars
<1>2. ASSUME NEW r \in Requests, NEW i \in InvoiceIds, ReadDraft(r, i)
      PROVE  StillDraft' /\ PaidKept
  <2>1. request'[r].inv = i /\ \A q \in Requests : q # r => request'[q] = request[q]
    BY <1>2 DEF ReadDraft, IInv, InvoicesTypeOK, IdleRequest, IssueRequest
  <2> QED
    BY <1>2, <2>1, RequestsDraft DEF ReadDraft
<1>3. ASSUME NEW r \in Requests, ReadCounter(r) \/ InsertCounter(r) \/ IncrementCounter(r) \/ RequestDies(r)
      PROVE  StillDraft' /\ PaidKept
  <2>1. UNCHANGED invoiceRow
    BY <1>3 DEF ReadCounter, InsertCounter, IncrementCounter, RequestDies
  <2>2. \A q \in Requests : q # r => request'[q] = request[q]
    BY <1>3 DEF IInv, InvoicesTypeOK, ReadCounter, InsertCounter, IncrementCounter, RequestDies
  <2>3. request'[r].pc = "idle" \/ (request[r].pc # "idle" /\ request'[r].inv = request[r].inv)
    <3>1. request[r] \in IssueRequest /\ request \in [Requests -> IssueRequest]
      BY DEF IInv, InvoicesTypeOK
    <3> QED
      BY <1>3, <3>1 DEF ReadCounter, InsertCounter, IncrementCounter, RequestDies, IdleRequest, IssueRequest
  <2> QED
    BY <2>1, <2>2, <2>3, RequestsDraft
<1> QED
  BY <1>1, <1>2, <1>3, RowDraft, OpenDraft DEF InvoicesNext, Issue

(* As long as no two requests issue one invoice at once, a paid invoice stays paid, *)
(* whoever pays and dies in between: issue() is only wrong where it races itself.    *)
THEOREM PaidStaysPaidApart == InvoicesSpec /\ []OnePerInvoice => PaidStaysPaid
<1>1. InvoicesInit => StillDraft
  BY DEF InvoicesInit, StillDraft, IdleRequest
<1>2. IInv /\ StillDraft /\ OnePerInvoice /\ [InvoicesNext]_invoiceVars => StillDraft'
  BY DraftNext
<1>3. IInv /\ StillDraft /\ OnePerInvoice /\ [InvoicesNext]_invoiceVars =>
        [\A i \in InvoiceIds : invoiceRow[i].status = "paid" => invoiceRow'[i].status = "paid"]_invoiceRow
  BY DraftNext DEF PaidKept
<1> QED
  BY <1>1, <1>2, <1>3, Invariance, PTL DEF InvoicesSpec, PaidStaysPaid

-----------------------------------------------------------------------------
(* The amounts of the checkout *)

(***************************************************************************)
(* What a request carries is what the invoice says: issue() and a payment     *)
(* hold the total they read, which no later step changes, and an amount in    *)
(* bolivars worked out from it at the rate they hold beside it.               *)
(***************************************************************************)
CartFits == cart # <<>> => cart \in Seq(Item) /\ \A k \in 1..Len(cart) : cart[k].price > 0

BillFits ==
  /\ IF bill.status = "none" THEN bill.rate = NotSet ELSE bill.display = Total(cart)
  /\ bill.rate # NotSet => bill.charged = Charge(bill.display, bill.rate)

IssuerFits(c) ==
  /\ c.pc # "idle" => bill.status # "none" /\ c.display = bill.display
  /\ c.pc = "save" => c.charged = IF c.rate = NotSet THEN NotSet ELSE Charge(c.display, c.rate)

PayerFits(p) ==
  /\ p.pc \in {"idle", "opened"} => p.rate = NotSet
  /\ p.pc \in {"asking", "asked", "refused"} => bill.status # "none" /\ p.display = bill.display
  /\ p.rate # NotSet => p.charged = Charge(p.display, p.rate)
  /\ p.asked \in {NotSet, AmountForGateway(p)} /\ p.asked # 0
  /\ p.pc # "asked" => p.asked = NotSet

CheckoutInv ==
  /\ CheckoutTypeOK /\ CartFits /\ BillFits
  /\ \A r \in Issuers : IssuerFits(issuing[r])
  /\ \A q \in Payers : PayerFits(paying[q])

-----------------------------------------------------------------------------
(* What the operators return. *)

LEMMA NotSetIsNoNumber == \A n \in Nat : n # NotSet
BY CheckoutAssumption

LEMMA ProductIsNat == \A p, q \in Nat : p * q \in Nat
OBVIOUS

LEMMA ProductIsInt == \A p, q \in Int : p * q \in Int
OBVIOUS

(* Rounding to a tenth is off by five of it at most. *)
LEMMA HalfUpIsNear ==
  ASSUME NEW n \in Int
  PROVE  /\ HalfUp(n, 10) \in Int /\ 10 * HalfUp(n, 10) - n <= 5 /\ -(10 * HalfUp(n, 10) - n) <= 5
         /\ n \in Nat => HalfUp(n, 10) \in Nat
<1>1. 10 \div 2 = 5
  OBVIOUS
<1>2. HalfUp(n, 10) = (n + 5) \div 10
  BY <1>1 DEF HalfUp
<1> QED
  BY <1>2

LEMMA ChargeIsNat ==
  ASSUME NEW amount \in Nat, NEW rate \in Nat
  PROVE  Charge(amount, rate) \in Nat
<1>1. amount * rate \in Nat
  BY ProductIsNat
<1>2. Charge(amount, rate) = (amount * rate + 5000) \div 10000
  BY DEF Charge, HalfUp
<1> QED
  BY <1>1, <1>2

LEMMA CartsAreCarts ==
  ASSUME NEW lines \in Carts
  PROVE  lines \in Seq(Item) /\ lines # <<>> /\ Len(lines) \in Nat \ {0}
BY CheckoutAssumption DEF ValidCart

LEMMA LinesAreItems ==
  ASSUME NEW lines \in Seq(Item), NEW k \in 1..Len(lines)
  PROVE  /\ lines[k].price \in Int /\ lines[k].quantity \in Nat \ {0}
         /\ lines[k].price * lines[k].quantity \in Int
         /\ lines[k].price > 0 => lines[k].price * lines[k].quantity \in Nat
<1>1. lines[k] \in Item
  OBVIOUS
<1>2. lines[k].price \in Int /\ lines[k].quantity \in Nat \ {0}
  BY <1>1 DEF Item
<1>3. lines[k].price > 0 => lines[k].price \in Nat
  BY <1>2
<1> QED
  BY <1>2, <1>3, ProductIsNat, ProductIsInt

LEMMA TotalIsNat ==
  ASSUME NEW lines \in Seq(Item), \A k \in 1..Len(lines) : lines[k].price > 0
  PROVE  Total(lines) \in Nat
<1> DEFINE column == [k \in 1..Len(lines) |-> Line(lines[k]).total]
<1>1. ASSUME NEW k \in 1..Len(lines) PROVE column[k] \in Nat
  <2>1. column[k] = HalfUp(lines[k].price * lines[k].quantity, 10)
    BY DEF Line
  <2> QED
    BY <2>1, LinesAreItems, HalfUpIsNear
<1>2. Len(lines) \in Nat
  OBVIOUS
<1>3. Total(lines) = SumUpTo(column, Len(lines))
  BY DEF Total
<1> HIDE DEF column
<1> QED
  BY <1>1, <1>2, <1>3, SumIsNat

(* A total is off by half a cent at most for each line. *)
LEMMA TotalIsNear ==
  ASSUME NEW lines \in Seq(Item)
  PROVE  LET exact == SumUpTo([k \in 1..Len(lines) |-> lines[k].price * lines[k].quantity], Len(lines))
         IN  10 * Total(lines) - exact <= 5 * Len(lines) /\ -(10 * Total(lines) - exact) <= 5 * Len(lines)
<1> DEFINE near == [k \in 1..Len(lines) |-> Line(lines[k]).total]
           exact == [k \in 1..Len(lines) |-> lines[k].price * lines[k].quantity]
<1>1. ASSUME NEW k \in 1..Len(lines)
      PROVE  /\ near[k] \in Int /\ exact[k] \in Int
             /\ 10 * near[k] - exact[k] <= 5 /\ -(10 * near[k] - exact[k]) <= 5
  <2>1. near[k] = HalfUp(exact[k], 10)
    BY DEF Line
  <2>2. exact[k] \in Int
    BY LinesAreItems
  <2> HIDE DEF near, exact
  <2> QED
    BY <2>1, <2>2, HalfUpIsNear
<1>2. Len(lines) \in Nat
  OBVIOUS
<1>3. Total(lines) = SumUpTo(near, Len(lines))
  BY DEF Total
<1> HIDE DEF near, exact
<1>4. /\ 10 * SumUpTo(near, Len(lines)) - SumUpTo(exact, Len(lines)) <= 5 * Len(lines)
      /\ -(10 * SumUpTo(near, Len(lines)) - SumUpTo(exact, Len(lines))) <= 5 * Len(lines)
  BY <1>1, <1>2, SumIsNear
<1> QED
  BY <1>3, <1>4 DEF exact

-----------------------------------------------------------------------------
LEMMA CheckoutInitially == CheckoutInit => CheckoutInv
<1> SUFFICES ASSUME CheckoutInit PROVE CheckoutInv
  OBVIOUS
<1>1. CheckoutTypeOK
  BY CheckoutAssumption DEF CheckoutInit, CheckoutTypeOK, Bill, Amounts, Currencies, Issuing, NotIssuing,
     Paying, NotPaying
<1>2. CartFits /\ BillFits
  BY DEF CheckoutInit, CartFits, BillFits
<1>3. ASSUME NEW r \in Issuers PROVE IssuerFits(issuing[r])
  BY DEF CheckoutInit, IssuerFits, NotIssuing
<1>4. ASSUME NEW q \in Payers PROVE PayerFits(paying[q])
  BY NotSetIsNoNumber DEF CheckoutInit, PayerFits, NotPaying, AmountForGateway
<1> QED
  BY <1>1, <1>2, <1>3, <1>4 DEF CheckoutInv

(* A draft is written where there was no invoice: no request held anything. *)
LEMMA Drafted ==
  ASSUME CheckoutInv, bill.status = "none", NEW items \in Seq(Item), items # <<>>,
         \A k \in 1..Len(items) : items[k].price > 0, NEW currency \in Currencies,
         bill' = [bill EXCEPT !.status = "draft", !.currency = currency, !.display = Total(items)],
         cart' = items, UNCHANGED <<day, latest, published, paying>>
  PROVE  /\ bill' \in Bill /\ bill'.status = "draft" /\ bill'.display = Total(items) /\ Total(items) \in Nat
         /\ (CartFits /\ BillFits)'
         /\ \A r \in Issuers : issuing[r].pc = "idle"
         /\ \A q \in Payers : PayerFits(paying[q])'
<1>1. Total(items) \in Nat
  BY TotalIsNat
<1>2. bill \in Bill
  BY DEF CheckoutInv, CheckoutTypeOK
<1>3. /\ bill'.status = "draft" /\ bill'.display = Total(items) /\ bill'.currency = currency
      /\ bill'.rate = bill.rate /\ bill'.charged = bill.charged /\ bill'.token = bill.token
  BY <1>2 DEF Bill
<1>4. bill' \in Bill
  BY <1>1, <1>2 DEF Bill
<1>5. (CartFits /\ BillFits)'
  BY <1>3 DEF CheckoutInv, CartFits, BillFits
<1>6. \A r \in Issuers : issuing[r].pc = "idle"
  BY DEF CheckoutInv, IssuerFits
<1>7. \A q \in Payers : PayerFits(paying[q])'
  BY <1>3 DEF CheckoutInv, PayerFits, AmountForGateway
<1> QED
  BY <1>1, <1>3, <1>4, <1>5, <1>6, <1>7

LEMMA DraftKeeps ==
  ASSUME CheckoutInv, NEW items \in Carts, NEW currency \in Currencies, CreateDraftInvoice(items, currency)
  PROVE  CheckoutInv'
<1>1. items \in Seq(Item) /\ items # <<>>
  BY CartsAreCarts
<1>2. /\ bill.status = "none" /\ \A k \in 1..Len(items) : items[k].price > 0
      /\ bill' = [bill EXCEPT !.status = "draft", !.currency = currency, !.display = Total(items)]
      /\ cart' = items /\ UNCHANGED <<day, latest, published, issuing, paying>>
  BY DEF CreateDraftInvoice
<1>3. /\ bill' \in Bill /\ bill'.status = "draft" /\ (CartFits /\ BillFits)'
      /\ \A r \in Issuers : issuing[r].pc = "idle"
      /\ \A q \in Payers : PayerFits(paying[q])'
  BY <1>1, <1>2, Drafted
<1>4. CheckoutTypeOK'
  BY <1>1, <1>2, <1>3 DEF CheckoutInv, CheckoutTypeOK
<1>5. \A r \in Issuers : IssuerFits(issuing[r])'
  BY <1>2, <1>3 DEF IssuerFits
<1> QED
  BY <1>2, <1>3, <1>4, <1>5 DEF CheckoutInv

(* What a request to issue holds changes as it goes on. *)
LEMMA ToRate ==
  ASSUME NEW c \in Issuing, NEW amount \in Nat
  PROVE  /\ [c EXCEPT !.pc = "rate", !.display = amount] \in Issuing
         /\ [c EXCEPT !.pc = "rate", !.display = amount].pc = "rate"
         /\ [c EXCEPT !.pc = "rate", !.display = amount].display = amount
BY DEF Issuing

LEMMA IssuerMoves ==
  ASSUME CheckoutInv, NEW r \in Issuers, NEW c \in Issuing, issuing' = [issuing EXCEPT ![r] = c],
         UNCHANGED <<day, latest, published, cart, bill, paying>>, IssuerFits(c)
  PROVE  CheckoutInv'
<1>1. issuing \in [Issuers -> Issuing]
  BY DEF CheckoutInv, CheckoutTypeOK
<1>2. CheckoutTypeOK'
  BY <1>1 DEF CheckoutInv, CheckoutTypeOK
<1>3. (CartFits /\ BillFits)' /\ \A q \in Payers : PayerFits(paying[q])'
  BY DEF CheckoutInv, CartFits, BillFits, PayerFits, AmountForGateway
<1>4. ASSUME NEW q \in Issuers PROVE IssuerFits(issuing[q])'
  <2>1. issuing'[q] = IF q = r THEN c ELSE issuing[q]
    BY <1>1
  <2> QED
    BY <2>1 DEF CheckoutInv, IssuerFits
<1> QED
  BY <1>2, <1>3, <1>4 DEF CheckoutInv

LEMMA PaymentLinkKeeps ==
  ASSUME CheckoutInv, NEW r \in Issuers, NEW items \in Carts, PaymentLink(r, items[1])
  PROVE  CheckoutInv'
<1> DEFINE item == items[1]
           lines == <<item>>
           c == [issuing[r] EXCEPT !.pc = "rate", !.display = Total(lines)]
<1>1. item \in Item
  BY CartsAreCarts
<1>2. /\ issuing[r] = NotIssuing /\ bill.status = "none" /\ item.price > 0
      /\ bill' = [bill EXCEPT !.status = "draft", !.currency = "EUR", !.display = Total(lines)]
      /\ cart' = lines /\ issuing' = [issuing EXCEPT ![r].pc = "rate", ![r].display = Total(lines)]
      /\ UNCHANGED <<day, latest, published, paying>>
  BY DEF PaymentLink
<1>3. lines \in Seq(Item) /\ lines # <<>> /\ \A k \in 1..Len(lines) : lines[k].price > 0
  BY <1>1, <1>2
<1>4. issuing \in [Issuers -> Issuing]
  BY DEF CheckoutInv, CheckoutTypeOK
<1>5. issuing' = [issuing EXCEPT ![r] = c]
  BY <1>2, <1>4 DEF Issuing
<1> HIDE DEF item, lines, c
<1>6. /\ bill' \in Bill /\ bill'.status = "draft" /\ bill'.display = Total(lines) /\ Total(lines) \in Nat
      /\ (CartFits /\ BillFits)'
      /\ \A q \in Issuers : issuing[q].pc = "idle"
      /\ \A q \in Payers : PayerFits(paying[q])'
  BY <1>2, <1>3, Drafted DEF Currencies
<1>7. c \in Issuing /\ c.pc = "rate" /\ c.display = Total(lines)
  BY <1>4, <1>6, ToRate DEF c
<1>8. CheckoutTypeOK'
  BY <1>2, <1>3, <1>4, <1>5, <1>6, <1>7 DEF CheckoutInv, CheckoutTypeOK
<1>9. ASSUME NEW q \in Issuers PROVE IssuerFits(issuing[q])'
  <2>1. issuing'[q] = IF q = r THEN c ELSE issuing[q]
    BY <1>4, <1>5
  <2> QED
    BY <1>6, <1>7, <2>1 DEF IssuerFits
<1> QED
  BY <1>6, <1>8, <1>9 DEF CheckoutInv

LEMMA FindDraftKeeps ==
  ASSUME CheckoutInv, NEW r \in Issuers, FindDraft(r)
  PROVE  CheckoutInv'
<1> DEFINE c == [issuing[r] EXCEPT !.pc = "rate", !.display = bill.display]
<1>1. /\ bill.status = "draft" /\ UNCHANGED <<day, latest, published, cart, bill, paying>>
      /\ issuing' = [issuing EXCEPT ![r].pc = "rate", ![r].display = bill.display]
  BY DEF FindDraft
<1>2. issuing \in [Issuers -> Issuing] /\ bill.display \in Nat
  BY DEF CheckoutInv, CheckoutTypeOK, Bill
<1>3. issuing' = [issuing EXCEPT ![r] = c]
  BY <1>1, <1>2 DEF Issuing
<1>4. c \in Issuing /\ c.pc = "rate" /\ c.display = bill.display
  BY <1>2, ToRate
<1> HIDE DEF c
<1>5. IssuerFits(c)
  BY <1>1, <1>4 DEF IssuerFits
<1> QED
  BY <1>1, <1>3, <1>4, <1>5, IssuerMoves

LEMMA SnapshotRateKeeps ==
  ASSUME CheckoutInv, NEW r \in Issuers, SnapshotRate(r)
  PROVE  CheckoutInv'
<1> DEFINE rate == latest[bill.currency]
           charged == IF rate = NotSet THEN NotSet ELSE Charge(issuing[r].display, rate)
           c == [issuing[r] EXCEPT !.pc = "save", !.rate = rate, !.charged = charged]
<1>1. /\ issuing[r].pc = "rate" /\ UNCHANGED <<day, latest, published, cart, bill, paying>>
      /\ issuing' = [issuing EXCEPT ![r] = c]
  BY DEF SnapshotRate
<1>2. issuing[r] \in Issuing /\ rate \in Amounts
  BY DEF CheckoutInv, CheckoutTypeOK, Bill
<1>3. charged \in Amounts
  BY <1>2, ChargeIsNat DEF Amounts, Issuing
<1>4. charged = IF rate = NotSet THEN NotSet ELSE Charge(issuing[r].display, rate)
  OBVIOUS
<1> HIDE DEF rate, charged
<1>5. c \in Issuing /\ c.pc = "save" /\ c.rate = rate /\ c.charged = charged /\ c.display = issuing[r].display
  BY <1>2, <1>3 DEF Issuing
<1> HIDE DEF c
<1>6. IssuerFits(issuing[r])
  BY DEF CheckoutInv
<1>7. IssuerFits(c)
  BY <1>1, <1>4, <1>5, <1>6 DEF IssuerFits
<1> QED
  BY <1>1, <1>5, <1>7, IssuerMoves

(* The rate saved and the amount saved are of one request, or both as they were. *)
LEMMA SaveIssuedKeeps ==
  ASSUME CheckoutInv, NEW r \in Issuers, SaveIssued(r)
  PROVE  CheckoutInv'
<1> DEFINE mine == issuing[r]
           rate == IF mine.rate = NotSet THEN bill.rate ELSE mine.rate
           charged == IF mine.charged = NotSet THEN bill.charged ELSE mine.charged
           token == Sign
<1>1. /\ mine.pc = "save" /\ UNCHANGED <<day, latest, published, cart, paying>>
      /\ bill' = [bill EXCEPT !.status = "open", !.token = token, !.rate = rate, !.charged = charged]
      /\ issuing' = [issuing EXCEPT ![r] = NotIssuing]
  BY DEF SaveIssued
<1>2. /\ bill \in Bill /\ mine \in Issuing /\ issuing \in [Issuers -> Issuing] /\ day \in Nat
  BY DEF CheckoutInv, CheckoutTypeOK
<1>3. /\ bill.status # "none" /\ mine.display = bill.display
      /\ mine.charged = IF mine.rate = NotSet THEN NotSet ELSE Charge(mine.display, mine.rate)
  BY <1>1 DEF CheckoutInv, IssuerFits
<1>4. rate # NotSet => charged = Charge(bill.display, rate)
  <2>1. CASE mine.rate = NotSet
    BY <1>3, <2>1 DEF CheckoutInv, BillFits
  <2>2. CASE mine.rate # NotSet
    <3>1. mine.rate \in Nat /\ mine.display \in Nat
      BY <1>2, <2>2 DEF Issuing, Amounts
    <3>2. mine.charged # NotSet
      BY <1>3, <2>2, <3>1, ChargeIsNat, NotSetIsNoNumber
    <3> QED
      BY <1>3, <2>2, <3>2
  <2> QED
    BY <2>1, <2>2
<1>5. rate \in Amounts /\ charged \in Amounts /\ token \in Tokens
  <2>1. day + TokenLife \in Nat
    BY <1>2, CheckoutAssumption
  <2> QED
    BY <1>2, <2>1 DEF Bill, Issuing, Sign, Tokens
<1> HIDE DEF rate, charged, token, mine
<1>6. /\ bill' \in Bill /\ bill'.status = "open" /\ bill'.display = bill.display
      /\ bill'.rate = rate /\ bill'.charged = charged
  BY <1>1, <1>2, <1>5 DEF Bill
<1>7. (CartFits /\ BillFits)'
  BY <1>1, <1>3, <1>4, <1>6 DEF CheckoutInv, CartFits, BillFits
<1>8. NotIssuing \in Issuing /\ NotIssuing.pc = "idle"
  BY DEF NotIssuing, Issuing, Amounts
<1>9. CheckoutTypeOK'
  BY <1>1, <1>2, <1>3, <1>6, <1>8 DEF CheckoutInv, CheckoutTypeOK
<1>10. ASSUME NEW q \in Issuers PROVE IssuerFits(issuing[q])'
  <2>1. issuing'[q] = IF q = r THEN NotIssuing ELSE issuing[q]
    BY <1>1, <1>2
  <2> QED
    BY <1>6, <1>8, <2>1 DEF CheckoutInv, IssuerFits
<1>11. \A q \in Payers : PayerFits(paying[q])'
  BY <1>1, <1>6 DEF CheckoutInv, PayerFits, AmountForGateway
<1> QED
  BY <1>7, <1>9, <1>10, <1>11 DEF CheckoutInv

LEMMA PayerMoves ==
  ASSUME CheckoutInv, NEW q \in Payers, NEW p \in Paying, paying' = [paying EXCEPT ![q] = p],
         UNCHANGED <<day, latest, published, cart, bill, issuing>>, PayerFits(p)
  PROVE  CheckoutInv'
<1>1. paying \in [Payers -> Paying]
  BY DEF CheckoutInv, CheckoutTypeOK
<1>2. CheckoutTypeOK'
  BY <1>1 DEF CheckoutInv, CheckoutTypeOK
<1>3. (CartFits /\ BillFits)' /\ \A r \in Issuers : IssuerFits(issuing[r])'
  BY DEF CheckoutInv, CartFits, BillFits, IssuerFits
<1>4. ASSUME NEW s \in Payers PROVE PayerFits(paying[s])'
  <2>1. paying'[s] = IF s = q THEN p ELSE paying[s]
    BY <1>1
  <2> QED
    BY <2>1 DEF CheckoutInv, PayerFits, AmountForGateway
<1> QED
  BY <1>2, <1>3, <1>4 DEF CheckoutInv

LEMMA OpenCheckoutKeeps ==
  ASSUME CheckoutInv, NEW q \in Payers, NEW token, OpenCheckout(q, token)
  PROVE  CheckoutInv'
<1> DEFINE p == [paying[q] EXCEPT !.pc = "opened"]
<1>1. /\ paying[q] = NotPaying /\ UNCHANGED <<day, latest, published, cart, bill, issuing>>
      /\ paying' = [paying EXCEPT ![q].pc = "opened"]
  BY DEF OpenCheckout
<1>2. paying \in [Payers -> Paying]
  BY DEF CheckoutInv, CheckoutTypeOK
<1>3. paying' = [paying EXCEPT ![q] = p]
  BY <1>1, <1>2
<1>4. p = [pc |-> "opened", display |-> 0, rate |-> NotSet, charged |-> NotSet, asked |-> NotSet]
  BY <1>1 DEF NotPaying
<1> HIDE DEF p
<1>5. p \in Paying /\ PayerFits(p)
  BY <1>4, NotSetIsNoNumber DEF Paying, Amounts, PayerFits
<1> QED
  BY <1>1, <1>3, <1>5, PayerMoves

LEMMA CopyAmountsKeeps ==
  ASSUME CheckoutInv, NEW q \in Payers, CopyAmounts(q)
  PROVE  CheckoutInv'
<1> DEFINE copied == [paying[q] EXCEPT !.pc = "asking", !.display = bill.display, !.rate = bill.rate,
                                       !.charged = bill.charged]
<1>1. /\ paying[q].pc = "opened" /\ UNCHANGED <<day, latest, published, cart, bill, issuing>>
      /\ paying' = [paying EXCEPT ![q] = IF bill.status = "open" THEN copied ELSE NotPaying]
  BY DEF CopyAmounts
<1>2. paying[q] \in Paying /\ bill \in Bill /\ PayerFits(paying[q])
  BY DEF CheckoutInv, CheckoutTypeOK
<1>3. NotPaying \in Paying /\ PayerFits(NotPaying)
  BY NotSetIsNoNumber DEF NotPaying, Paying, Amounts, PayerFits
<1>4. /\ copied \in Paying /\ copied.pc = "asking" /\ copied.display = bill.display /\ copied.rate = bill.rate
      /\ copied.charged = bill.charged /\ copied.asked = paying[q].asked
  BY <1>2 DEF Paying, Bill
<1> HIDE DEF copied
<1>5. bill.status = "open" => PayerFits(copied)
  BY <1>1, <1>2, <1>4, NotSetIsNoNumber DEF PayerFits, CheckoutInv, BillFits
<1> QED
  BY <1>1, <1>3, <1>4, <1>5, PayerMoves

LEMMA AskGatewayKeeps ==
  ASSUME CheckoutInv, NEW q \in Payers, AskGateway(q)
  PROVE  CheckoutInv'
<1> DEFINE amount == AmountForGateway(paying[q])
           asked == [paying[q] EXCEPT !.pc = "asked", !.asked = amount]
           refused == [paying[q] EXCEPT !.pc = "refused"]
<1>1. /\ paying[q].pc = "asking" /\ UNCHANGED <<day, latest, published, cart, bill, issuing>>
      /\ paying' = [paying EXCEPT ![q] = IF amount > 0 THEN asked ELSE refused]
  BY DEF AskGateway
<1>2. paying[q] \in Paying /\ PayerFits(paying[q])
  BY DEF CheckoutInv, CheckoutTypeOK
<1>3. amount \in Nat
  BY <1>2 DEF AmountForGateway, Paying, Amounts
<1>4. /\ asked \in Paying /\ asked.pc = "asked" /\ asked.asked = amount /\ asked.display = paying[q].display
      /\ asked.rate = paying[q].rate /\ asked.charged = paying[q].charged
      /\ refused \in Paying /\ refused.pc = "refused" /\ refused.asked = paying[q].asked
      /\ refused.display = paying[q].display /\ refused.rate = paying[q].rate
      /\ refused.charged = paying[q].charged
  BY <1>2, <1>3 DEF Paying, Amounts
<1>5. AmountForGateway(asked) = amount
  BY <1>4 DEF AmountForGateway
<1> HIDE DEF asked, refused, amount
<1>6. amount > 0 => PayerFits(asked)
  BY <1>1, <1>2, <1>3, <1>4, <1>5 DEF PayerFits
<1>7. PayerFits(refused)
  BY <1>1, <1>2, <1>4 DEF PayerFits
<1> QED
  BY <1>1, <1>4, <1>6, <1>7, PayerMoves

LEMMA WorldKeeps ==
  ASSUME CheckoutInv,
         BillIsPaid \/ DayPasses \/ \E c \in Currencies, value \in RateValues : PublishRate(c, value)
  PROVE  CheckoutInv'
<1>1. CASE BillIsPaid
  <2>1. bill' = [bill EXCEPT !.status = "paid"] /\ bill.status = "open"
        /\ UNCHANGED <<day, latest, published, cart, issuing, paying>>
    BY <1>1 DEF BillIsPaid
  <2>2. bill \in Bill
    BY DEF CheckoutInv, CheckoutTypeOK
  <2>3. /\ bill' \in Bill /\ bill'.status = "paid" /\ bill'.display = bill.display /\ bill'.rate = bill.rate
        /\ bill'.charged = bill.charged
    BY <2>1, <2>2 DEF Bill
  <2>4. CheckoutTypeOK'
    BY <2>1, <2>3 DEF CheckoutInv, CheckoutTypeOK
  <2> QED
    BY <2>1, <2>3, <2>4 DEF CheckoutInv, CartFits, BillFits, IssuerFits, PayerFits, AmountForGateway
<1>2. ASSUME UNCHANGED <<cart, bill, issuing, paying>>, CheckoutTypeOK'
      PROVE  CheckoutInv'
  BY <1>2 DEF CheckoutInv, CartFits, BillFits, IssuerFits, PayerFits, AmountForGateway
<1>3. CASE DayPasses
  BY <1>2, <1>3, CheckoutAssumption DEF DayPasses, CheckoutInv, CheckoutTypeOK
<1>4. ASSUME NEW c \in Currencies, NEW value \in RateValues, PublishRate(c, value)
      PROVE  CheckoutInv'
  <2>1. value \in Amounts
    BY CheckoutAssumption DEF Amounts
  <2>2. published' \in 0..MaxRates
    BY <1>4, CheckoutAssumption DEF PublishRate, CheckoutInv, CheckoutTypeOK
  <2>3. CheckoutTypeOK'
    BY <1>4, <2>1, <2>2 DEF PublishRate, CheckoutInv, CheckoutTypeOK
  <2> QED
    BY <1>2, <1>4, <2>3 DEF PublishRate
<1> QED
  BY <1>1, <1>3, <1>4

LEMMA CheckoutStep == CheckoutInv /\ [CheckoutNext]_checkoutVars => CheckoutInv'
<1> SUFFICES ASSUME CheckoutInv, [CheckoutNext]_checkoutVars PROVE CheckoutInv'
  OBVIOUS
<1>1. CASE UNCHANGED checkoutVars
  BY <1>1 DEF checkoutVars, CheckoutInv, CheckoutTypeOK, CartFits, BillFits, IssuerFits, PayerFits,
     AmountForGateway
<1> QED
  BY <1>1, DraftKeeps, FindDraftKeeps, SnapshotRateKeeps, SaveIssuedKeeps, PaymentLinkKeeps,
     OpenCheckoutKeeps, CopyAmountsKeeps, AskGatewayKeeps, WorldKeeps DEF CheckoutNext

LEMMA CheckoutInvariance == CheckoutSpec => []CheckoutInv
BY CheckoutInitially, CheckoutStep, PTL DEF CheckoutSpec

(* An invoice, its issue() calls and its payments keep their types: the amounts   *)
(* in particular are never negative.                                                *)
THEOREM CheckoutTypes == CheckoutSpec => []CheckoutTypeOK
<1>1. CheckoutInv => CheckoutTypeOK
  BY DEF CheckoutInv
<1> QED
  BY <1>1, CheckoutInvariance, PTL

(* For carts of any length, quantities and prices: what the payer is shown is off   *)
(* by half a cent a line at most, and whatever issue() calls, rates and payers race,  *)
(* the amount in bolivars stored and asked for is the one displayed at the rate         *)
(* stored beside it.                                                                      *)
THEOREM BillsAreRightAlways == CheckoutSpec => []BillsAreRight
<1>1. CheckoutInv => TotalIsFair
  <2> SUFFICES ASSUME CheckoutInv, bill.status # "none"
               PROVE  LET exact == SumUpTo([k \in 1..Len(cart) |-> cart[k].price * cart[k].quantity], Len(cart))
                          error == 10 * bill.display - exact
                      IN  error <= 5 * Len(cart) /\ -error <= 5 * Len(cart)
    BY DEF TotalIsFair
  <2>1. cart \in Seq(Item) /\ bill.display = Total(cart)
    BY DEF CheckoutInv, CheckoutTypeOK, CartFits, BillFits
  <2> QED
    BY <2>1, TotalIsNear
<1>2. CheckoutInv => AmountsAgree
  <2> SUFFICES ASSUME CheckoutInv PROVE AmountsAgree
    OBVIOUS
  <2>1. bill.rate # NotSet => bill.charged = Charge(bill.display, bill.rate)
    BY DEF CheckoutInv, BillFits
  <2>2. ASSUME NEW q \in Payers
        PROVE  /\ paying[q].rate # NotSet =>
                    /\ paying[q].charged = Charge(paying[q].display, paying[q].rate)
                    /\ paying[q].asked \in {NotSet, paying[q].charged}
               /\ paying[q].asked # 0
               /\ paying[q].pc \in {"asking", "asked"} => paying[q].display = Total(cart)
    <3>1. PayerFits(paying[q]) /\ paying[q] \in Paying
      BY DEF CheckoutInv, CheckoutTypeOK
    <3>2. ASSUME paying[q].rate # NotSet
          PROVE  /\ paying[q].charged = Charge(paying[q].display, paying[q].rate)
                 /\ paying[q].asked \in {NotSet, paying[q].charged}
      <4>1. paying[q].charged = Charge(paying[q].display, paying[q].rate)
        BY <3>1, <3>2 DEF PayerFits
      <4>2. paying[q].rate \in Nat /\ paying[q].display \in Nat
        BY <3>1, <3>2 DEF Paying, Amounts
      <4>3. paying[q].charged # NotSet
        BY <4>1, <4>2, ChargeIsNat, NotSetIsNoNumber
      <4> QED
        BY <3>1, <4>1, <4>3 DEF PayerFits, AmountForGateway
    <3> QED
      BY <3>1, <3>2 DEF PayerFits, CheckoutInv, BillFits
  <2> QED
    BY <2>1, <2>2 DEF AmountsAgree
<1> QED
  BY <1>1, <1>2, CheckoutInvariance, PTL DEF BillsAreRight
=============================================================================
