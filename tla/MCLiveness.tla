----------------------------- MODULE MCLiveness -----------------------------
(* Small instances of payments and of a subscription, whose work must come to an  *)
(* end.  They share no state here: each runs while the other rests in its initial *)
(* state, where no fair action of its is enabled but the tick of the               *)
(* subscription's clock, which is fair while payments rest.                        *)
EXTENDS Payments, Subscriptions

MonthAndYear == [c \in {"monthly", "annual"} |-> IF c = "monthly" THEN 1 ELSE 2]

LiveVars == <<vars, subVars>>

LiveInit == Init /\ SubInit

SubAlone == Init /\ UNCHANGED vars

LiveNext ==
  \/ SubInit /\ Next /\ UNCHANGED subVars
  \/ SubAlone /\ SubNext

LiveSpec ==
  /\ LiveInit /\ [][LiveNext]_LiveVars
  /\ Fairness /\ CronFairness /\ WF_LiveVars(SubAlone /\ Tick)
=============================================================================
