------------------------------ MODULE Checkout ------------------------------
(***************************************************************************)
(* The money and the link of an invoice, from its lines to the amount the    *)
(* bank is asked for: the draft's total, the rate and the token issue() puts *)
(* on it, the columns a payment copies, the amount the gateway parses.       *)
(*                                                                           *)
(* One invoice, whose issue() calls may race.  Money is counted in the        *)
(* smallest unit of its column: prices as typed in thousandths, amounts in     *)
(* cents (numeric 12,2 and 14,2), rates in ten-thousandths (numeric 14,4).     *)
(***************************************************************************)
EXTENDS Sequences, Sums

CONSTANTS
  Carts,        \* what a draft may list: sequences of [price, quantity]
  RateValues,   \* rates the day's source may publish
  Issuers,      \* requests that issue the invoice
  Payers,       \* requests to pay it through its link
  TokenLife,    \* CHECKOUT_TOKEN_EXPIRES_IN, in days
  LastDay,      \* bound: last day
  MaxRates,     \* bound: rates published
  NotSet

(* What the body of a request may hold: a line at least, one unit at least of each, and a   *)
(* price that is any number written in digits.                                               *)
Item == [price : Int, quantity : Nat \ {0}]
ValidCart(lines) == lines # <<>> /\ lines \in Seq(Item)

ASSUME CheckoutAssumption ==
  /\ \A lines \in Carts : ValidCart(lines)
  /\ RateValues \subseteq Nat \ {0} /\ TokenLife \in Nat \ {0}
  /\ LastDay \in Nat /\ MaxRates \in Nat /\ NotSet \notin Nat

Currencies == {"EUR", "USD"}

VARIABLES
  day,        \* the clock
  latest,     \* latest[c]: the last rate stored for a currency, or NotSet
  published,  \* rates published so far
  cart,       \* the lines the invoice was drafted from
  bill,       \* the invoice row
  issuing,    \* issuing[r]: the issue() call r runs
  paying      \* paying[q]: the payment request q, and the row it inserted

checkoutVars == <<day, latest, published, cart, bill, issuing, paying>>

-----------------------------------------------------------------------------
(* decimal.js and Money *)

(* Rounds n / d half up, the default of decimal.js; every d here is even. *)
HalfUp(n, d) == (n + d \div 2) \div d

Line(item) == [unit |-> HalfUp(item.price, 10), quantity |-> item.quantity,
               total |-> HalfUp(item.price * item.quantity, 10)]

Total(items) == SumUpTo([k \in 1..Len(items) |-> Line(items[k]).total], Len(items))

Charge(amount, rate) == HalfUp(amount * rate, 10000)

Amounts == Nat \cup {NotSet}
Tokens == [expires : Nat]
Bill == [status : {"none", "draft", "open", "paid"}, currency : Currencies, display : Nat,
         rate : Amounts, charged : Amounts, token : Tokens \cup {NotSet}]

-----------------------------------------------------------------------------
(* createDraft *)

CreateDraftInvoice(items, currency) ==
  /\ bill.status = "none"
  /\ \A k \in 1..Len(items) : items[k].price > 0
  /\ bill' = [bill EXCEPT !.status = "draft", !.currency = currency, !.display = Total(items)]
  /\ cart' = items
  /\ UNCHANGED <<day, latest, published, issuing, paying>>

-----------------------------------------------------------------------------
(* CheckoutTokenService: the token carries its expiry, signed *)

Sign == [expires |-> day + TokenLife]

Verify(token) == token.expires >= day

FindByCheckoutToken(token) == Verify(token) /\ bill.token = token

-----------------------------------------------------------------------------
(* issue: reads the draft, reads the rate, takes a number, saves *)

NotIssuing == [pc |-> "idle", display |-> 0, rate |-> NotSet, charged |-> NotSet]
Issuing == [pc : {"idle", "rate", "save"}, display : Nat, rate : Amounts, charged : Amounts]

FindDraft(r) ==
  /\ issuing[r] = NotIssuing
  /\ bill.status = "draft"
  /\ issuing' = [issuing EXCEPT ![r].pc = "rate", ![r].display = bill.display]
  /\ UNCHANGED <<day, latest, published, cart, bill, paying>>

(* generatePaymentLink drafts one line in EUR and issues it in the same request. *)
PaymentLink(r, item) ==
  /\ issuing[r] = NotIssuing
  /\ bill.status = "none" /\ item.quantity = 1 /\ item.price > 0
  /\ bill' = [bill EXCEPT !.status = "draft", !.currency = "EUR", !.display = Total(<<item>>)]
  /\ cart' = <<item>>
  /\ issuing' = [issuing EXCEPT ![r].pc = "rate", ![r].display = Total(<<item>>)]
  /\ UNCHANGED <<day, latest, published, paying>>

(* getLatestSafe: no rate is no error. *)
SnapshotRate(r) ==
  /\ issuing[r].pc = "rate"
  /\ LET rate == latest[bill.currency]
     IN  issuing' = [issuing EXCEPT ![r] =
           [@ EXCEPT !.pc = "save", !.rate = rate,
                     !.charged = IF rate = NotSet THEN NotSet
                                 ELSE Charge(issuing[r].display, rate)]]
  /\ UNCHANGED <<day, latest, published, cart, bill, paying>>

(* Mutation: the rate stored is read again, after the amount was worked out. *)
SaveIssuedRereads(r) ==
  /\ issuing[r].pc = "save"
  /\ LET mine == issuing[r]
     IN  bill' = [bill EXCEPT !.status = "open", !.token = Sign,
                              !.rate = latest[bill.currency],
                              !.charged = IF mine.charged = NotSet THEN @ ELSE mine.charged]
  /\ issuing' = [issuing EXCEPT ![r] = NotIssuing]
  /\ UNCHANGED <<day, latest, published, cart, paying>>

(* Saves on whatever the row has become; what is undefined is left as it was. *)
SaveIssued(r) ==
  /\ issuing[r].pc = "save"
  /\ LET mine == issuing[r]
     IN  bill' = [bill EXCEPT !.status = "open", !.token = Sign,
                              !.rate = IF mine.rate = NotSet THEN @ ELSE mine.rate,
                              !.charged = IF mine.charged = NotSet THEN @ ELSE mine.charged]
  /\ issuing' = [issuing EXCEPT ![r] = NotIssuing]
  /\ UNCHANGED <<day, latest, published, cart, paying>>

-----------------------------------------------------------------------------
(* The public checkout: the link opens the invoice, a payment copies its amounts, *)
(* the gateway is asked for one of them in bolivars                                *)

NotPaying == [pc |-> "idle", display |-> 0, rate |-> NotSet, charged |-> NotSet, asked |-> NotSet]
Paying == [pc : {"idle", "opened", "asking", "asked", "refused"}, display : Nat,
           rate : Amounts, charged : Amounts, asked : Amounts]

OpenCheckout(q, token) ==
  /\ paying[q] = NotPaying
  /\ FindByCheckoutToken(token)
  /\ paying' = [paying EXCEPT ![q].pc = "opened"]
  /\ UNCHANGED <<day, latest, published, cart, bill, issuing>>

(* The invoice is read again, by id. *)
CopyAmounts(q) ==
  /\ paying[q].pc = "opened"
  /\ paying' = [paying EXCEPT ![q] =
       IF bill.status = "open"
       THEN [@ EXCEPT !.pc = "asking", !.display = bill.display, !.rate = bill.rate,
                      !.charged = bill.charged]
       ELSE NotPaying]
  /\ UNCHANGED <<day, latest, published, cart, bill, issuing>>

(* Without an amount in bolivars it is the amount displayed, whatever its currency. *)
AmountForGateway(row) == IF row.charged # NotSet THEN row.charged ELSE row.display

(* parseAmount refuses what is not positive; the row stays pending. *)
AskGateway(q) ==
  /\ paying[q].pc = "asking"
  /\ LET amount == AmountForGateway(paying[q])
     IN  paying' = [paying EXCEPT ![q] =
           IF amount > 0 THEN [@ EXCEPT !.pc = "asked", !.asked = amount]
           ELSE [@ EXCEPT !.pc = "refused"]]
  /\ UNCHANGED <<day, latest, published, cart, bill, issuing>>

(* A payment that was asked for settles (module Payments says how). *)
BillIsPaid ==
  /\ bill.status = "open" /\ \E q \in Payers : paying[q].pc = "asked"
  /\ bill' = [bill EXCEPT !.status = "paid"]
  /\ UNCHANGED <<day, latest, published, cart, issuing, paying>>

-----------------------------------------------------------------------------
(* The rates are another module's, FxRates: a later row takes over, none is deleted. *)
PublishRate(c, value) ==
  /\ published < MaxRates
  /\ latest[c] # value
  /\ latest' = [latest EXCEPT ![c] = value]
  /\ published' = published + 1
  /\ UNCHANGED <<day, cart, bill, issuing, paying>>

DayPasses ==
  /\ day < LastDay
  /\ day' = day + 1
  /\ UNCHANGED <<latest, published, cart, bill, issuing, paying>>

-----------------------------------------------------------------------------
CheckoutInit ==
  /\ day = 0 /\ published = 0
  /\ latest = [c \in Currencies |-> NotSet]
  /\ cart = <<>>
  /\ bill = [status |-> "none", currency |-> "EUR", display |-> 0,
             rate |-> NotSet, charged |-> NotSet, token |-> NotSet]
  /\ issuing = [r \in Issuers |-> NotIssuing]
  /\ paying = [q \in Payers |-> NotPaying]

CheckoutNext ==
  \/ \E items \in Carts, c \in Currencies : CreateDraftInvoice(items, c)
  \/ \E r \in Issuers : \/ FindDraft(r) \/ SnapshotRate(r) \/ SaveIssued(r)
                        \/ \E items \in Carts : PaymentLink(r, items[1])
  \/ \E q \in Payers : \/ \E d \in 0..LastDay : OpenCheckout(q, [expires |-> d + TokenLife])
                       \/ CopyAmounts(q) \/ AskGateway(q)
  \/ BillIsPaid
  \/ \E c \in Currencies, value \in RateValues : PublishRate(c, value)
  \/ DayPasses

CheckoutSpec == CheckoutInit /\ [][CheckoutNext]_checkoutVars

-----------------------------------------------------------------------------
(* Properties *)

CheckoutTypeOK ==
  /\ day \in 0..LastDay /\ published \in 0..MaxRates
  /\ latest \in [Currencies -> Amounts]
  /\ bill \in Bill /\ (bill.status = "none" <=> cart = <<>>)
  /\ issuing \in [Issuers -> Issuing]
  /\ paying \in [Payers -> Paying]

(* What the payer is shown is what the lines cost: the total is off by at most   *)
(* half a cent for each line, however many units it has and however fine the     *)
(* prices are typed.                                                              *)
TotalIsFair ==
  bill.status # "none" =>
    LET exact == SumUpTo([k \in 1..Len(cart) |-> cart[k].price * cart[k].quantity], Len(cart))
        error == 10 * bill.display - exact
    IN  error <= 5 * Len(cart) /\ -error <= 5 * Len(cart)

(* The amounts agree whatever races: the amount in bolivars is the displayed one *)
(* at the very rate stored beside it, on the invoice and on every payment, with    *)
(* issue() called twice while the rate changes and a payer comes in between; and   *)
(* the bank is asked for that amount, never for nothing.                            *)
AmountsAgree ==
  /\ bill.rate # NotSet => bill.charged = Charge(bill.display, bill.rate)
  /\ \A q \in Payers :
       /\ paying[q].rate # NotSet =>
            /\ paying[q].charged = Charge(paying[q].display, paying[q].rate)
            /\ paying[q].asked \in {NotSet, paying[q].charged}
       /\ paying[q].asked # 0
       /\ paying[q].pc \in {"asking", "asked"} => paying[q].display = Total(cart)

(* What the payer is shown, what the row stores and what the bank is asked for    *)
(* are the price of the lines.                                                     *)
BillsAreRight == TotalIsFair /\ AmountsAgree
=============================================================================
