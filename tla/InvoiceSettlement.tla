-------------------------- MODULE InvoiceSettlement --------------------------
(***************************************************************************)
(* What settling an invoice promises, with no handlers and no races: one    *)
(* payment pays an invoice, its subscription advances at most once for it,   *)
(* and no payment is announced as succeeded while its invoice is unpaid.     *)
(***************************************************************************)
EXTENDS Integers

CONSTANTS Invoices, Payments

VARIABLES
  paidBy,     \* paidBy[i]: the payments that paid i
  renewals,   \* renewals[i]: how often i advanced its subscription
  announced   \* <<p, i>>: p, a payment of i, was announced as succeeded

svars == <<paidBy, renewals, announced>>

Init ==
  /\ paidBy = [i \in Invoices |-> {}]
  /\ renewals = [i \in Invoices |-> 0]
  /\ announced = {}

Pay(i, p) ==
  /\ paidBy[i] = {}
  /\ paidBy' = [paidBy EXCEPT ![i] = {p}]
  /\ UNCHANGED <<renewals, announced>>

Renew(i) ==
  /\ paidBy[i] # {}
  /\ renewals[i] = 0
  /\ renewals' = [renewals EXCEPT ![i] = 1]
  /\ UNCHANGED <<paidBy, announced>>

Announce(i, p) ==
  /\ paidBy[i] # {}
  /\ announced' = announced \cup {<<p, i>>}
  /\ UNCHANGED <<paidBy, renewals>>

Next == \E i \in Invoices, p \in Payments : Pay(i, p) \/ Renew(i) \/ Announce(i, p)

Spec == Init /\ [][Next]_svars
=============================================================================
