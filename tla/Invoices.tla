------------------------------ MODULE Invoices ------------------------------
(***************************************************************************)
(* InvoicesService and CountersService: how invoices get their correlative   *)
(* number while requests to issue race, die, and payers pay.                  *)
(*                                                                           *)
(* issue() reads the draft, takes a number in a transaction of its own that   *)
(* locks the counter's row, and only then updates the invoice by id.           *)
(***************************************************************************)
EXTENDS Integers, FiniteSets

CONSTANTS
  InvoiceIds,    \* invoice ids
  Requests,    \* requests to issue being served, on all replicas
  MaxNumber,   \* bound: numbers the year's counter gives out
  MaxDeaths,   \* bound: requests that die
  Nobody

ASSUME InvoicesAssumption ==
  /\ MaxNumber \in Nat \ {0} /\ MaxDeaths \in Nat
  /\ Nobody \notin InvoiceIds \cup Requests

VARIABLES
  invoiceRow,     \* invoice[i]: [status, number]; number 0 is NULL
  counter,     \* value of the year's counter row; 0 while there is no row
  locked,      \* request that holds FOR UPDATE on the counter row, or Nobody
  request,     \* request[r]: the issue() call r runs
  deaths,
  handed       \* history: times each number was handed out

invoiceVars == <<invoiceRow, counter, locked, request, deaths, handed>>

-----------------------------------------------------------------------------
Invoice == [status : {"none", "draft", "open", "paid"}, number : Nat]
IssueRequest == [pc : {"idle", "count", "insert", "increment", "open"},
            inv : InvoiceIds \cup {Nobody}, seen : Nat, number : Nat]
IdleRequest == [pc |-> "idle", inv |-> Nobody, seen |-> 0, number |-> 0]

CreateDraft(i) ==
  /\ invoiceRow[i].status = "none"
  /\ invoiceRow' = [invoiceRow EXCEPT ![i].status = "draft"]
  /\ UNCHANGED <<counter, locked, request, deaths, handed>>

-----------------------------------------------------------------------------
(* issue *)

ReadDraft(r, i) ==
  /\ request[r] = IdleRequest
  /\ invoiceRow[i].status = "draft"
  /\ request' = [request EXCEPT ![r].pc = "count", ![r].inv = i]
  /\ UNCHANGED <<invoiceRow, counter, locked, deaths, handed>>

(* findOne with pessimistic_write: waits for the row, locks it if it exists. *)
ReadCounter(r) ==
  /\ request[r].pc = "count"
  /\ locked = Nobody
  /\ counter < MaxNumber
  /\ request' = [request EXCEPT ![r].pc = IF counter = 0 THEN "insert" ELSE "increment",
                                ![r].seen = counter]
  /\ locked' = IF counter = 0 THEN Nobody ELSE r
  /\ UNCHANGED <<invoiceRow, counter, deaths, handed>>

(* Mutation: the first row of a year is upserted. *)
UpsertCounter(r) ==
  /\ request[r].pc = "insert"
  /\ counter' = 1
  /\ request' = [request EXCEPT ![r].pc = "open", ![r].number = 1]
  /\ handed' = [handed EXCEPT ![1] = @ + 1]
  /\ UNCHANGED <<invoiceRow, locked, deaths>>

(* The first of the year inserts the row; another one breaks the primary key. *)
InsertCounter(r) ==
  /\ request[r].pc = "insert"
  /\ IF counter = 0
     THEN /\ counter' = 1
          /\ request' = [request EXCEPT ![r].pc = "open", ![r].number = 1]
          /\ handed' = [handed EXCEPT ![1] = @ + 1]
     ELSE /\ request' = [request EXCEPT ![r] = IdleRequest]
          /\ UNCHANGED <<counter, handed>>
  /\ UNCHANGED <<invoiceRow, locked, deaths>>

(* Mutation: the lock outlives the transaction. *)
IncrementKeepsLock(r) ==
  /\ request[r].pc = "increment"
  /\ counter' = request[r].seen + 1
  /\ request' = [request EXCEPT ![r].pc = "open", ![r].number = request[r].seen + 1]
  /\ handed' = [handed EXCEPT ![request[r].seen + 1] = @ + 1]
  /\ UNCHANGED <<invoiceRow, locked, deaths>>

(* update of the value read, and the commit that frees the row. *)
IncrementCounter(r) ==
  /\ request[r].pc = "increment"
  /\ counter' = request[r].seen + 1
  /\ locked' = IF locked = r THEN Nobody ELSE locked
  /\ request' = [request EXCEPT ![r].pc = "open", ![r].number = request[r].seen + 1]
  /\ handed' = [handed EXCEPT ![request[r].seen + 1] = @ + 1]
  /\ UNCHANGED <<invoiceRow, deaths>>

(* repository.update by id: whatever the invoice has become meanwhile. *)
OpenInvoice(r) ==
  /\ request[r].pc = "open"
  /\ LET i == request[r].inv
     IN  invoiceRow' = [invoiceRow EXCEPT ![i] = [status |-> "open", number |-> request[r].number]]
  /\ request' = [request EXCEPT ![r] = IdleRequest]
  /\ UNCHANGED <<counter, locked, deaths, handed>>

-----------------------------------------------------------------------------
(* markPaid, for a checkout that found the invoice open *)
MarkPaid(i) ==
  /\ invoiceRow[i].status = "open"
  /\ invoiceRow' = [invoiceRow EXCEPT ![i].status = "paid"]
  /\ UNCHANGED <<counter, locked, request, deaths, handed>>

(* A request dies; its transaction is rolled back and frees the row. *)
RequestDies(r) ==
  /\ deaths < MaxDeaths
  /\ request[r] # IdleRequest
  /\ deaths' = deaths + 1
  /\ request' = [request EXCEPT ![r] = IdleRequest]
  /\ locked' = IF locked = r THEN Nobody ELSE locked
  /\ UNCHANGED <<invoiceRow, counter, handed>>

-----------------------------------------------------------------------------
InvoicesInit ==
  /\ invoiceRow = [i \in InvoiceIds |-> [status |-> "none", number |-> 0]]
  /\ counter = 0 /\ locked = Nobody /\ deaths = 0
  /\ request = [r \in Requests |-> IdleRequest]
  /\ handed = [n \in 1..MaxNumber |-> 0]

Issue(r) == ReadCounter(r) \/ InsertCounter(r) \/ IncrementCounter(r) \/ OpenInvoice(r)

InvoicesNext ==
  \/ \E i \in InvoiceIds : CreateDraft(i) \/ MarkPaid(i)
  \/ \E r \in Requests : \/ \E i \in InvoiceIds : ReadDraft(r, i)
                         \/ Issue(r) \/ RequestDies(r)

InvoicesSpec == InvoicesInit /\ [][InvoicesNext]_invoiceVars

(* A request that started is carried on; Postgres hands out the row lock. *)
IssueFairness ==
  \A r \in Requests : /\ WF_invoiceVars(InsertCounter(r) \/ IncrementCounter(r) \/ OpenInvoice(r))
                      /\ SF_invoiceVars(ReadCounter(r))

FairInvoicesSpec == InvoicesSpec /\ IssueFairness

-----------------------------------------------------------------------------
(* Properties *)

(* Types, and the row lock is held only inside the transaction that took it. *)
InvoicesTypeOK ==
  /\ invoiceRow \in [InvoiceIds -> Invoice]
  /\ counter \in 0..MaxNumber
  /\ request \in [Requests -> IssueRequest]
  /\ locked \in Requests \cup {Nobody}
  /\ locked # Nobody => request[locked].pc = "increment" /\ request[locked].seen = counter
  /\ deaths \in 0..MaxDeaths
  /\ handed \in [1..MaxNumber -> Nat]

(* The counter neither skips nor repeats a number: each one up to its value    *)
(* was handed out exactly once, the race for the year's first row included.     *)
EachNumberOnce ==
  \A n \in 1..MaxNumber : handed[n] = IF n <= counter THEN 1 ELSE 0

(* No two invoices, issued or about to be, have the same number, and only an   *)
(* issued invoice has one.                                                      *)
NumbersAreUnique ==
  /\ \A i, j \in InvoiceIds : invoiceRow[i].number = invoiceRow[j].number /\ i # j => invoiceRow[i].number = 0
  /\ \A i \in InvoiceIds, r \in Requests :
       request[r].number # 0 => invoiceRow[i].number # request[r].number
  /\ \A i \in InvoiceIds : invoiceRow[i].number # 0 <=> invoiceRow[i].status \in {"open", "paid"}

(* Every request to issue ends: the counter's row is never left locked.        *)
IssueEnds == \A r \in Requests : request[r].pc # "idle" ~> request[r].pc = "idle"

-----------------------------------------------------------------------------
(* What the repository says and the code does not do *)

(* invoices.service.ts:54, "si la factura ya esta open o paid, no se reemite": *)
(* a paid invoice stays paid.                                                   *)
PaidStaysPaid ==
  [][\A i \in InvoiceIds : invoiceRow[i].status = "paid" => invoiceRow'[i].status = "paid"]_invoiceRow
=============================================================================
