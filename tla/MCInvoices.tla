----------------------------- MODULE MCInvoices -----------------------------
(* Small instances of Invoices. *)
EXTENDS Invoices, TLC

Symmetry == Permutations(InvoiceIds) \cup Permutations(Requests)
=============================================================================
