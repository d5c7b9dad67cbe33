------------------------------ MODULE MCLedger ------------------------------
(* Billing, and the payments its invoices are paid with when the payer types a     *)
(* reference.  They share no state here: each runs while the other rests in its      *)
(* initial state.                                                                       *)
EXTENDS MCBilling, Payments, TLC

Symmetry == Permutations(Products) \cup Permutations(Payments)

LedgerInit == BillingInit /\ Init

LedgerNext ==
  \/ Init /\ BillingNext /\ UNCHANGED vars
  \/ BillingInit /\ Next /\ UNCHANGED BillingVars

LedgerSpec == LedgerInit /\ [][LedgerNext]_<<BillingVars, vars>>
=============================================================================
