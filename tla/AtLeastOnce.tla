---------------------------- MODULE AtLeastOnce ----------------------------
(***************************************************************************)
(* What the outbox promises for each delivery: once owed it is offered to    *)
(* its receiver until it is delivered or abandoned; delivered means that the *)
(* receiver took it at least once; only an administrator's replay leaves an  *)
(* end, and only for a delivery not delivered when it was asked for.          *)
(***************************************************************************)
EXTENDS Integers

CONSTANT Deliveries

VARIABLES
  state,   \* state[d]: "none", "owed", "delivered" or "abandoned"
  taken,   \* taken[d]: times the receiver took d
  asked    \* deliveries an administrator asked to replay

pvars == <<state, taken, asked>>

Init ==
  /\ state = [d \in Deliveries |-> "none"]
  /\ taken = [d \in Deliveries |-> 0]
  /\ asked = {}

(* An event and all its deliveries commit together. *)
Owe(ds) ==
  /\ \A d \in ds : state[d] = "none"
  /\ state' = [d \in Deliveries |-> IF d \in ds THEN "owed" ELSE state[d]]
  /\ UNCHANGED <<taken, asked>>

Accept(d) ==
  /\ state[d] = "owed"
  /\ taken' = [taken EXCEPT ![d] = @ + 1]
  /\ UNCHANGED <<state, asked>>

Deliver(d) ==
  /\ state[d] = "owed" /\ taken[d] > 0
  /\ state' = [state EXCEPT ![d] = "delivered"]
  /\ UNCHANGED <<taken, asked>>

Abandon(d) ==
  /\ state[d] = "owed"
  /\ state' = [state EXCEPT ![d] = "abandoned"]
  /\ UNCHANGED <<taken, asked>>

Ask(d) ==
  /\ state[d] \notin {"none", "delivered"}
  /\ asked' = asked \cup {d}
  /\ UNCHANGED <<state, taken>>

Reopen(d) ==
  /\ d \in asked
  /\ state' = [state EXCEPT ![d] = "owed"]
  /\ asked' = asked \ {d}
  /\ UNCHANGED taken

Forget(d) ==
  /\ asked' = asked \ {d}
  /\ UNCHANGED <<state, taken>>

Next ==
  \/ \E ds \in SUBSET Deliveries : Owe(ds)
  \/ \E d \in Deliveries : \/ Accept(d) \/ Deliver(d) \/ Abandon(d)
                            \/ Ask(d) \/ Reopen(d) \/ Forget(d)

Spec == Init /\ [][Next]_pvars
=============================================================================
