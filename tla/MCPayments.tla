----------------------------- MODULE MCPayments -----------------------------
(* Small instances of Payments: model values, and the symmetry between them. *)
EXTENDS Payments, TLC

Symmetry == Permutations(Payments) \cup Permutations(Handlers)
            \cup Permutations(Pollers) \cup Permutations(References) \cup Permutations(Keys)
=============================================================================
