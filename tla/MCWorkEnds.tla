----------------------------- MODULE MCWorkEnds -----------------------------
(* Small instances of work that crosses a crash: the issuing of invoices, and     *)
(* deliveries from two replicas.  They share no state here: each runs while the    *)
(* other rests in its initial state, where no fair action of its is enabled.       *)
EXTENDS Invoices, OutboxDelivery

WorkVars == <<invoiceVars, outboxVars>>

WorkInit == InvoicesInit /\ OutboxInit

WorkNext ==
  \/ OutboxInit /\ InvoicesNext /\ UNCHANGED outboxVars
  \/ InvoicesInit /\ OutboxNext /\ UNCHANGED invoiceVars

WorkSpec == WorkInit /\ [][WorkNext]_WorkVars /\ IssueFairness /\ OutboxFairness
=============================================================================
