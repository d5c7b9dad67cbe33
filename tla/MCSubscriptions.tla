--------------------------- MODULE MCSubscriptions ---------------------------
(* Small instances of Subscriptions: a month of one tick, a year of two. *)
EXTENDS Subscriptions

MonthAndYear == [c \in {"monthly", "annual"} |-> IF c = "monthly" THEN 1 ELSE 2]
=============================================================================
