---------------------------- MODULE OutboxProofs ----------------------------
(***************************************************************************)
(* For any number of keys, receivers, workers, faults and replays: the       *)
(* outbox is well typed, and a delivery marked delivered was accepted.  As     *)
(* long as no two workers hold one row it implements AtLeastOnce, and every     *)
(* try is counted: so it is with one worker.                                 *)
(***************************************************************************)
EXTENDS OutboxDelivery, TLAPS

(* A worker that is not idle holds a delivery it has counted an attempt of; it *)
(* queues a retry only while the schedule lasts, and is about to mark delivered *)
(* only what its receiver took.  A replay in course is of a delivery.            *)
WorkersHold ==
  \A w \in Dispatchers :
    /\ worker[w].pc = "idle" => worker[w] = IdleWorker
    /\ worker[w].pc # "idle" => worker[w].d \in Deliveries /\ worker[w].attempts \in Nat \ {0}
    /\ worker[w].pc = "enqueue" => worker[w].attempts <= Retries
    /\ worker[w].pc = "delivered" => accepted[worker[w].d] > 0

ReplayHolds == replay.pc # "idle" => replay.d \in Deliveries

OutboxInv == OutboxTypeOK /\ WorkersHold /\ ReplayHolds /\ DeliveredWasAccepted

LEMMA NowhereIsNone == Nowhere \notin Deliveries
BY OutboxAssumption DEF Deliveries, Targets

LEMMA QueuedType ==
  ASSUME OutboxTypeOK, NEW ds
  PROVE  Queued(ds) \in [Deliveries -> 0..MaxJobs]
BY OutboxAssumption, SMT DEF OutboxTypeOK, Queued

LEMMA FanoutType ==
  ASSUME OutboxTypeOK, NEW key \in DeliveryKeys
  PROVE  Fanout(key) \subseteq Deliveries
BY SMT DEF OutboxTypeOK, Fanout, Deliveries, Targets

(* Nothing the invariant speaks of changed, but the queue and what is to be     *)
(* handed to it.                                                                  *)
LEMMA QueueInv ==
  ASSUME OutboxInv,
         UNCHANGED <<delivery, worker, accepted, posts>>,
         ready' \in [Deliveries -> 0..MaxJobs],
         appended' \subseteq DeliveryKeys, active' \subseteq Endpoints,
         unsent' \subseteq Deliveries, swept' \subseteq Deliveries, idled' \subseteq Deliveries,
         delayed' \subseteq delayed,
         replay' \in Replay, replay'.pc # "idle" => replay'.d \in Deliveries,
         outboxFaults' \in 0..MaxOutboxFaults, replays' \in 0..MaxReplays, toggles' \in 0..MaxToggles
  PROVE  OutboxInv'
BY SMT DEF OutboxInv, OutboxTypeOK, WorkersHold, ReplayHolds, DeliveredWasAccepted, IdleWorker

(* A worker moves on: its row, its place or what its receiver took may change.  *)
LEMMA WorkerInv ==
  ASSUME OutboxInv, NEW w \in Dispatchers, NEW new \in WorkerState,
         worker' = [worker EXCEPT ![w] = new],
         delivery' \in [Deliveries -> DeliveryRow],
         accepted' \in [Deliveries -> Nat], posts' \in [Deliveries -> Nat],
         \A d \in Deliveries : accepted'[d] >= accepted[d],
         \A d \in Deliveries : delivery'[d].status = "delivered" => accepted'[d] > 0,
         new.pc = "idle" => new = IdleWorker,
         new.pc # "idle" => new.d \in Deliveries /\ new.attempts \in Nat \ {0},
         new.pc = "enqueue" => new.attempts <= Retries,
         new.pc = "delivered" => accepted'[new.d] > 0,
         ready' \in [Deliveries -> 0..MaxJobs],
         outboxFaults' \in 0..MaxOutboxFaults,
         \A job \in delayed' : job \in delayed \/ (job[1] \in Deliveries /\ job[2] \in 1..Retries),
         UNCHANGED <<appended, active, unsent, swept, replay, replays, toggles, idled>>
  PROVE  OutboxInv'
<1>1. OutboxTypeOK'
  BY SMT DEF OutboxInv, OutboxTypeOK
<1>2. WorkersHold'
  BY NowhereIsNone, SMT DEF OutboxInv, OutboxTypeOK, WorkersHold, WorkerState, IdleWorker
<1>3. ReplayHolds' /\ DeliveredWasAccepted'
  BY SMT DEF OutboxInv, ReplayHolds, DeliveredWasAccepted
<1>4. QED
  BY <1>1, <1>2, <1>3 DEF OutboxInv

(* The rows of some deliveries change, to none that is newly delivered.         *)
LEMMA RowsInv ==
  ASSUME OutboxInv,
         delivery' \in [Deliveries -> DeliveryRow],
         \A d \in Deliveries : delivery'[d].status = "delivered" => delivery[d].status = "delivered",
         appended' \subseteq DeliveryKeys, unsent' \subseteq Deliveries, swept' \subseteq Deliveries,
         replay' \in Replay, replay'.pc # "idle" => replay'.d \in Deliveries,
         outboxFaults' \in 0..MaxOutboxFaults,
         UNCHANGED <<active, ready, delayed, worker, replays, toggles, outboxHistory>>
  PROVE  OutboxInv'
BY SMT DEF OutboxInv, OutboxTypeOK, WorkersHold, ReplayHolds, DeliveredWasAccepted, IdleWorker, outboxHistory

LEMMA OutboxInitInv == OutboxInit => OutboxInv
<1> SUFFICES ASSUME OutboxInit PROVE OutboxInv
  OBVIOUS
<1>1. OutboxTypeOK
  BY OutboxAssumption, SMT
     DEF OutboxInit, OutboxTypeOK, DeliveryRow, NoDelivery, WorkerState, IdleWorker, Replay, NoReplay
<1>2. WorkersHold /\ ReplayHolds /\ DeliveredWasAccepted
  BY SMT DEF OutboxInit, WorkersHold, ReplayHolds, DeliveredWasAccepted, NoDelivery, IdleWorker, NoReplay
<1>3. QED
  BY <1>1, <1>2 DEF OutboxInv

(* What the invariant says of a worker that is busy. *)
LEMMA BusyWorker ==
  ASSUME OutboxInv, NEW w \in Dispatchers, worker[w] # IdleWorker
  PROVE  /\ worker[w].pc # "idle"
         /\ worker[w].d \in Deliveries /\ worker[w].attempts \in Nat \ {0}
         /\ worker[w] \in WorkerState
         /\ worker[w] = [pc |-> worker[w].pc, d |-> worker[w].d, attempts |-> worker[w].attempts]
BY SMT DEF OutboxInv, OutboxTypeOK, WorkersHold, WorkerState

LEMMA SaveType ==
  ASSUME OutboxInv, NEW w \in Dispatchers, worker[w].pc # "idle",
         NEW status \in {"pending", "delivering", "delivered", "giving_up"}, Save(w, status)
  PROVE  /\ delivery' \in [Deliveries -> DeliveryRow]
         /\ worker[w].d \in Deliveries /\ worker[w].attempts \in Nat \ {0}
         /\ delivery'[worker[w].d].status = status
         /\ \A d \in Deliveries : d # worker[w].d => delivery'[d] = delivery[d]
<1>1. worker[w].d \in Deliveries /\ worker[w].attempts \in Nat \ {0}
  BY SMT DEF OutboxInv, WorkersHold
<1> DEFINE saved == [status |-> status, attempts |-> worker[w].attempts, due |-> FALSE]
<1>2. saved \in DeliveryRow
  BY <1>1, SMT DEF DeliveryRow
<1>3. saved.status = status
  OBVIOUS
<1>4. delivery \in [Deliveries -> DeliveryRow]
  BY DEF OutboxInv, OutboxTypeOK
<1>5. delivery' = [delivery EXCEPT ![worker[w].d] = saved]
  BY DEF Save
<1> HIDE DEF saved
<1>6. QED
  BY <1>1, <1>2, <1>3, <1>4, <1>5

-----------------------------------------------------------------------------
(* The caller, the queue, time and faults *)

LEMMA AppendInv ==
  ASSUME OutboxInv, NEW key \in DeliveryKeys, AppendEvent(key)
  PROVE  OutboxInv'
<1>1. Fanout(key) \subseteq Deliveries
  BY FanoutType DEF OutboxInv
<1>2. delivery' \in [Deliveries -> DeliveryRow]
  BY <1>1, SMT DEF OutboxInv, OutboxTypeOK, DeliveryRow, AppendEvent
<1>3. \A d \in Deliveries : delivery'[d].status = "delivered" => delivery[d].status = "delivered"
  BY SMT DEF AppendEvent
<1>4. QED
  BY <1>1, <1>2, <1>3, RowsInv, SMT DEF OutboxInv, OutboxTypeOK, ReplayHolds, AppendEvent, counters

LEMMA DispatchManyInv ==
  ASSUME OutboxInv, NEW key \in DeliveryKeys, DispatchMany(key)
  PROVE  OutboxInv'
<1>1. ready' \in [Deliveries -> 0..MaxJobs]
  BY QueuedType DEF OutboxInv, DispatchMany
<1>2. QED
  BY <1>1, QueueInv, SMT DEF OutboxInv, OutboxTypeOK, ReplayHolds, DispatchMany, counters, outboxHistory

LEMMA SweepDispatchInv ==
  ASSUME OutboxInv, SweepDispatch
  PROVE  OutboxInv'
<1>1. ready' \in [Deliveries -> 0..MaxJobs]
  BY QueuedType DEF OutboxInv, SweepDispatch
<1>2. QED
  BY <1>1, QueueInv, SMT DEF OutboxInv, OutboxTypeOK, ReplayHolds, SweepDispatch, counters, outboxHistory

LEMMA ReplaySaveInv ==
  ASSUME OutboxInv, ReplaySave
  PROVE  OutboxInv'
<1>1. replay.d \in Deliveries
  BY DEF OutboxInv, ReplayHolds, ReplaySave
<1>2. replay' \in Replay /\ replay'.d = replay.d
  BY SMT DEF OutboxInv, OutboxTypeOK, Replay, ReplaySave
<1> DEFINE saved == [status |-> "pending", attempts |-> 0, due |-> TRUE]
<1>3. saved \in DeliveryRow /\ saved.status = "pending"
  BY SMT DEF DeliveryRow
<1>4. delivery' = [delivery EXCEPT ![replay.d] = saved]
  BY DEF ReplaySave
<1> HIDE DEF saved
<1>5. delivery' \in [Deliveries -> DeliveryRow]
  BY <1>1, <1>3, <1>4 DEF OutboxInv, OutboxTypeOK
<1>6. \A d \in Deliveries : delivery'[d].status = "delivered" => delivery[d].status = "delivered"
  BY <1>3, <1>4, SMT DEF OutboxInv, OutboxTypeOK
<1>7. QED
  BY <1>1, <1>2, <1>5, <1>6, RowsInv, SMT DEF OutboxInv, OutboxTypeOK, ReplaySave, counters

LEMMA ReplayDispatchInv ==
  ASSUME OutboxInv, ReplayDispatch
  PROVE  OutboxInv'
<1>1. ready' \in [Deliveries -> 0..MaxJobs]
  BY QueuedType DEF OutboxInv, ReplayDispatch
<1>2. replay' \in Replay /\ replay'.pc = "idle"
  BY DEF Replay, NoReplay, ReplayDispatch
<1>3. QED
  BY <1>1, <1>2, QueueInv DEF OutboxInv, OutboxTypeOK, ReplayDispatch, counters, outboxHistory

LEMMA ReplayDeliveryInv ==
  ASSUME OutboxInv, NEW d \in Deliveries, ReplayDelivery(d)
  PROVE  OutboxInv'
BY QueueInv, OutboxAssumption, SMT
   DEF OutboxInv, OutboxTypeOK, Replay, ReplayDelivery, outboxHistory

LEMMA ToggleEndpointInv ==
  ASSUME OutboxInv, NEW e \in Endpoints, ToggleEndpoint(e)
  PROVE  OutboxInv'
<1>1. idled' \subseteq Deliveries
  BY SMT DEF OutboxInv, OutboxTypeOK, ToggleEndpoint, Deliveries, Targets
<1>2. QED
  BY <1>1, QueueInv, OutboxAssumption, SMT DEF OutboxInv, OutboxTypeOK, ReplayHolds, ToggleEndpoint

LEMMA HandOverLostInv ==
  ASSUME OutboxInv, HandOverLost
  PROVE  OutboxInv'
<1>1. /\ unsent' \subseteq Deliveries /\ swept' \subseteq Deliveries
      /\ replay' \in Replay /\ (replay'.pc # "idle" => replay'.d \in Deliveries)
  BY SMT DEF OutboxInv, OutboxTypeOK, ReplayHolds, Replay, NoReplay, HandOverLost
<1>2. QED
  BY <1>1, QueueInv, OutboxAssumption, SMT DEF OutboxInv, OutboxTypeOK, HandOverLost, outboxHistory

LEMMA RowFallsDueInv ==
  ASSUME OutboxInv, NEW d \in Deliveries, RowFallsDue(d)
  PROVE  OutboxInv'
<1>1. delivery' \in [Deliveries -> DeliveryRow]
  BY Zenon DEF OutboxInv, OutboxTypeOK, DeliveryRow, RowFallsDue
<1>2. \A e \in Deliveries : delivery'[e].status = delivery[e].status
  BY SMT DEF OutboxInv, OutboxTypeOK, DeliveryRow, RowFallsDue
<1>3. QED
  BY <1>1, <1>2, RowsInv, SMT DEF OutboxInv, OutboxTypeOK, ReplayHolds, RowFallsDue, counters

LEMMA SlowWorkerInv ==
  ASSUME OutboxInv, NEW w \in Dispatchers, SlowWorker(w)
  PROVE  OutboxInv'
<1>1. worker[w].d \in Deliveries
  BY BusyWorker DEF SlowWorker
<1>2. delivery' \in [Deliveries -> DeliveryRow]
  BY <1>1, Zenon DEF OutboxInv, OutboxTypeOK, DeliveryRow, SlowWorker
<1>3. \A e \in Deliveries : delivery'[e].status = delivery[e].status
  BY <1>1, SMT DEF OutboxInv, OutboxTypeOK, DeliveryRow, SlowWorker
<1>4. QED
  BY <1>2, <1>3, RowsInv, OutboxAssumption, SMT DEF OutboxInv, OutboxTypeOK, ReplayHolds, SlowWorker

LEMMA SweepInv ==
  ASSUME OutboxInv, Sweep
  PROVE  OutboxInv'
<1>1. delivery' \in [Deliveries -> DeliveryRow]
  BY SMT DEF OutboxInv, OutboxTypeOK, DeliveryRow, Sweep
<1>2. \A e \in Deliveries : delivery'[e].status = "delivered" => delivery[e].status = "delivered"
  BY SMT DEF OutboxInv, OutboxTypeOK, DeliveryRow, Sweep
<1>3. QED
  BY <1>1, <1>2, RowsInv, SMT DEF OutboxInv, OutboxTypeOK, ReplayHolds, Sweep, Stuck, counters

LEMMA JobFallsDueInv ==
  ASSUME OutboxInv, NEW job \in delayed, JobFallsDue(job)
  PROVE  OutboxInv'
<1>1. ready' \in [Deliveries -> 0..MaxJobs]
  BY QueuedType DEF OutboxInv, JobFallsDue
<1>2. delayed' \subseteq delayed
  BY DEF JobFallsDue
<1>3. QED
  BY <1>1, <1>2, QueueInv DEF OutboxInv, OutboxTypeOK, ReplayHolds, JobFallsDue, counters, outboxHistory

-----------------------------------------------------------------------------
(* The workers *)

LEMMA TakeInv ==
  ASSUME OutboxInv, NEW w \in Dispatchers, NEW d \in Deliveries, Take(w, d)
  PROVE  OutboxInv'
<1>1. ready' \in [Deliveries -> 0..MaxJobs]
  BY OutboxAssumption, SMT DEF OutboxInv, OutboxTypeOK, Take
<1>2. CASE delivery[d].status \in Ended
  BY <1>1, <1>2, QueueInv, SMT
     DEF OutboxInv, OutboxTypeOK, ReplayHolds, Take, counters, outboxHistory
<1>3. CASE delivery[d].status \notin Ended
  <2> DEFINE new == [pc |-> "mark", d |-> d, attempts |-> delivery[d].attempts + 1]
  <2>1. delivery[d].attempts \in Nat
    BY SMT DEF OutboxInv, OutboxTypeOK, DeliveryRow
  <2>2. /\ new \in WorkerState /\ new.pc = "mark" /\ new.d \in Deliveries
        /\ new.attempts \in Nat \ {0}
    BY <2>1, SMT DEF WorkerState
  <2>3. worker' = [worker EXCEPT ![w] = new]
    BY <1>3 DEF Take
  <2>4. \A e \in Deliveries : accepted'[e] >= accepted[e]
    BY SMT DEF OutboxInv, OutboxTypeOK, Take, outboxHistory
  <2> HIDE DEF new
  <2>5. UNCHANGED <<delivery, delayed, accepted, posts, appended, active, unsent, swept, replay, outboxFaults,
                    replays, toggles, idled>>
    BY DEF Take, counters, outboxHistory
  <2>6. QED
    BY <1>1, <2>2, <2>3, <2>4, <2>5, WorkerInv DEF OutboxInv, OutboxTypeOK, DeliveredWasAccepted
<1>4. QED
  BY <1>2, <1>3

(* A worker goes to its next step, holding what it held, or returns. *)
LEMMA StepInv ==
  ASSUME OutboxInv, NEW w \in Dispatchers, worker[w].pc # "idle",
         NEW pc \in {"check", "send", "delivered", "retry", "giveUp", "enqueue"},
         WorkerAt(w, pc) \/ WorkerReturns(w),
         WorkerReturns(w) \/ pc # "enqueue" \/ worker[w].attempts <= Retries,
         WorkerReturns(w) \/ pc # "delivered" \/ accepted'[worker[w].d] > 0,
         delivery' \in [Deliveries -> DeliveryRow],
         accepted' \in [Deliveries -> Nat], posts' \in [Deliveries -> Nat],
         \A d \in Deliveries : accepted'[d] >= accepted[d],
         \A d \in Deliveries : delivery'[d].status = "delivered" => accepted'[d] > 0,
         ready' \in [Deliveries -> 0..MaxJobs],
         outboxFaults' \in 0..MaxOutboxFaults,
         \A job \in delayed' : job \in delayed \/ (job[1] \in Deliveries /\ job[2] \in 1..Retries),
         UNCHANGED <<appended, active, unsent, swept, replay, replays, toggles, idled>>
  PROVE  OutboxInv'
<1>1. worker[w] # IdleWorker
  BY DEF IdleWorker
<1>2. /\ worker[w].d \in Deliveries /\ worker[w].attempts \in Nat \ {0} /\ worker[w] \in WorkerState
  BY <1>1, BusyWorker
<1>3. CASE WorkerReturns(w)
  <2>1. IdleWorker \in WorkerState /\ IdleWorker.pc = "idle"
    BY SMT DEF IdleWorker, WorkerState
  <2>2. worker' = [worker EXCEPT ![w] = IdleWorker]
    BY <1>3 DEF WorkerReturns
  <2>3. QED
    BY <2>1, <2>2, WorkerInv
<1>4. CASE WorkerAt(w, pc) /\ ~WorkerReturns(w)
  <2> DEFINE new == [worker[w] EXCEPT !.pc = pc]
  <2>1. /\ new \in WorkerState /\ new.pc = pc /\ new.d = worker[w].d
        /\ new.attempts = worker[w].attempts
    BY <1>2, SMT DEF WorkerState
  <2>2. worker' = [worker EXCEPT ![w] = new]
    BY <1>4 DEF WorkerAt
  <2>3. (pc = "enqueue" => worker[w].attempts <= Retries) /\ (pc = "delivered" => accepted'[worker[w].d] > 0)
    BY <1>4
  <2> HIDE DEF new
  <2>4. QED
    BY <1>2, <2>1, <2>2, <2>3, WorkerInv
<1>5. QED
  BY <1>3, <1>4

(* The parts no step of a worker but Send changes. *)
LEMMA SameCounts ==
  ASSUME OutboxInv, UNCHANGED <<accepted, posts>>
  PROVE  /\ accepted' \in [Deliveries -> Nat] /\ posts' \in [Deliveries -> Nat]
         /\ \A d \in Deliveries : accepted'[d] >= accepted[d]
         /\ \A d \in Deliveries : delivery[d].status = "delivered" => accepted'[d] > 0
BY SMT DEF OutboxInv, OutboxTypeOK, DeliveredWasAccepted

LEMMA MarkDeliveringInv ==
  ASSUME OutboxInv, NEW w \in Dispatchers, MarkDelivering(w)
  PROVE  OutboxInv'
<1>1. /\ delivery' \in [Deliveries -> DeliveryRow] /\ worker[w].pc # "idle"
      /\ delivery'[worker[w].d].status = "delivering" /\ worker[w].d \in Deliveries
      /\ \A d \in Deliveries : d # worker[w].d => delivery'[d] = delivery[d]
  BY SaveType DEF MarkDelivering
<1>2. UNCHANGED <<accepted, posts>>
  BY DEF MarkDelivering, outboxHistory
<1>3. \A d \in Deliveries : delivery'[d].status = "delivered" => accepted'[d] > 0
  BY <1>1, <1>2, SameCounts, SMT
<1>4. QED
  <2>1. PICK pc \in {"check", "send"} : WorkerAt(w, pc)
    BY DEF MarkDelivering
  <2>2. QED
    BY <1>1, <1>2, <1>3, <2>1, SameCounts, StepInv DEF OutboxInv, OutboxTypeOK, MarkDelivering, counters, outboxHistory

LEMMA CheckEndpointInv ==
  ASSUME OutboxInv, NEW w \in Dispatchers, CheckEndpoint(w)
  PROVE  OutboxInv'
<1>1. PICK pc \in {"send", "giveUp"} : WorkerAt(w, pc)
  BY DEF CheckEndpoint
<1>2. UNCHANGED <<delivery, accepted, posts>> /\ worker[w].pc # "idle"
  BY DEF CheckEndpoint, outboxHistory
<1>3. QED
  BY <1>1, <1>2, SameCounts, StepInv DEF OutboxInv, OutboxTypeOK, CheckEndpoint, counters, outboxHistory

LEMMA SendInv ==
  ASSUME OutboxInv, NEW w \in Dispatchers, Send(w)
  PROVE  OutboxInv'
<1>1. worker[w].pc # "idle" /\ worker[w].d \in Deliveries
  BY SMT DEF OutboxInv, WorkersHold, Send
<1>2. posts' \in [Deliveries -> Nat]
  BY <1>1, SMT DEF OutboxInv, OutboxTypeOK, Send
<1>3. /\ accepted' \in [Deliveries -> Nat]
      /\ \A d \in Deliveries : accepted'[d] >= accepted[d]
  BY <1>1, SMT DEF OutboxInv, OutboxTypeOK, Send
<1>4. PICK pc \in {"delivered", "retry"} :
        WorkerAt(w, pc) /\ (pc = "delivered" => accepted'[worker[w].d] = accepted[worker[w].d] + 1)
  BY <1>1, SMT DEF OutboxInv, OutboxTypeOK, Send
<1>5. pc = "delivered" => accepted'[worker[w].d] > 0
  BY <1>1, <1>4, SMT DEF OutboxInv, OutboxTypeOK
<1>6. \A d \in Deliveries : delivery'[d].status = "delivered" => accepted'[d] > 0
  <2>1. delivery' = delivery
    BY DEF Send
  <2>2. QED
    BY <1>3, <2>1, SMT DEF OutboxInv, OutboxTypeOK, DeliveredWasAccepted
<1>7. outboxFaults' \in 0..MaxOutboxFaults /\ delivery' = delivery
  BY OutboxAssumption, SMT DEF OutboxInv, OutboxTypeOK, Send
<1>8. QED
  BY <1>1, <1>2, <1>3, <1>4, <1>5, <1>6, <1>7, StepInv DEF OutboxInv, OutboxTypeOK, Send

LEMMA MarkDeliveredInv ==
  ASSUME OutboxInv, NEW w \in Dispatchers, MarkDelivered(w)
  PROVE  OutboxInv'
<1>1. /\ delivery' \in [Deliveries -> DeliveryRow] /\ worker[w].pc # "idle"
      /\ delivery'[worker[w].d].status = "delivered" /\ worker[w].d \in Deliveries
      /\ \A d \in Deliveries : d # worker[w].d => delivery'[d] = delivery[d]
  BY SaveType DEF MarkDelivered
<1>2. UNCHANGED <<accepted, posts>>
  BY DEF MarkDelivered, outboxHistory
<1>3. \A d \in Deliveries : delivery'[d].status = "delivered" => accepted'[d] > 0
  BY <1>1, <1>2, SameCounts, SMT DEF OutboxInv, WorkersHold, MarkDelivered
<1>4. QED
  BY <1>1, <1>2, <1>3, SameCounts, StepInv DEF OutboxInv, OutboxTypeOK, MarkDelivered, counters, outboxHistory

LEMMA MarkGivingUpInv ==
  ASSUME OutboxInv, NEW w \in Dispatchers, MarkGivingUp(w)
  PROVE  OutboxInv'
<1>1. /\ delivery' \in [Deliveries -> DeliveryRow] /\ worker[w].pc # "idle"
      /\ delivery'[worker[w].d].status = "giving_up" /\ worker[w].d \in Deliveries
      /\ \A d \in Deliveries : d # worker[w].d => delivery'[d] = delivery[d]
  BY SaveType DEF MarkGivingUp
<1>2. UNCHANGED <<accepted, posts>>
  BY DEF MarkGivingUp, outboxHistory
<1>3. \A d \in Deliveries : delivery'[d].status = "delivered" => accepted'[d] > 0
  BY <1>1, <1>2, SameCounts, SMT
<1>4. QED
  BY <1>1, <1>2, <1>3, SameCounts, StepInv DEF OutboxInv, OutboxTypeOK, MarkGivingUp, counters, outboxHistory

LEMMA ScheduleRetryInv ==
  ASSUME OutboxInv, NEW w \in Dispatchers, ScheduleRetry(w)
  PROVE  OutboxInv'
<1>1. worker[w].pc # "idle"
  BY DEF ScheduleRetry
<1>2. PICK status \in {"pending", "giving_up"} : Save(w, status)
  BY DEF ScheduleRetry
<1>3. /\ delivery' \in [Deliveries -> DeliveryRow]
      /\ worker[w].d \in Deliveries /\ worker[w].attempts \in Nat
      /\ delivery'[worker[w].d].status # "delivered"
      /\ \A d \in Deliveries : d # worker[w].d => delivery'[d] = delivery[d]
  BY <1>1, <1>2, SaveType, SMT
<1>4. UNCHANGED <<accepted, posts>>
  BY DEF ScheduleRetry, outboxHistory
<1>5. \A d \in Deliveries : delivery'[d].status = "delivered" => accepted'[d] > 0
  BY <1>3, <1>4, SameCounts, SMT
<1>6. WorkerReturns(w) \/ (WorkerAt(w, "enqueue") /\ worker[w].attempts <= Retries)
  BY <1>3, OutboxAssumption, SMT DEF ScheduleRetry
<1>7. QED
  BY <1>1, <1>3, <1>4, <1>5, <1>6, SameCounts, StepInv DEF OutboxInv, OutboxTypeOK, ScheduleRetry, counters, outboxHistory

LEMMA DispatchDelayedInv ==
  ASSUME OutboxInv, NEW w \in Dispatchers, DispatchDelayed(w)
  PROVE  OutboxInv'
<1>1. worker[w].pc # "idle" /\ worker[w].d \in Deliveries /\ worker[w].attempts \in 1..Retries
  BY OutboxAssumption, SMT DEF OutboxInv, WorkersHold, DispatchDelayed
<1>2. \A job \in delayed' : job \in delayed \/ (job[1] \in Deliveries /\ job[2] \in 1..Retries)
  BY <1>1, SMT DEF DispatchDelayed
<1>3. UNCHANGED <<delivery, accepted, posts>>
  BY DEF DispatchDelayed, outboxHistory
<1>4. QED
  BY <1>1, <1>2, <1>3, SameCounts, StepInv DEF OutboxInv, OutboxTypeOK, DispatchDelayed, counters, outboxHistory

LEMMA WorkerDiesInv ==
  ASSUME OutboxInv, NEW w \in Dispatchers, WorkerDies(w)
  PROVE  OutboxInv'
<1>1. worker[w].pc # "idle"
  BY BusyWorker DEF WorkerDies
<1>2. ready' \in [Deliveries -> 0..MaxJobs]
  BY QueuedType DEF OutboxInv, OutboxTypeOK, WorkerDies
<1>3. outboxFaults' \in 0..MaxOutboxFaults
  BY OutboxAssumption, SMT DEF OutboxInv, OutboxTypeOK, WorkerDies
<1>4. UNCHANGED <<delivery, accepted, posts>>
  BY DEF WorkerDies, outboxHistory
<1>5. QED
  BY <1>1, <1>2, <1>3, <1>4, SameCounts, StepInv DEF OutboxInv, OutboxTypeOK, WorkerDies, outboxHistory

LEMMA MarkDeliveredFailsInv ==
  ASSUME OutboxInv, NEW w \in Dispatchers, MarkDeliveredFails(w)
  PROVE  OutboxInv'
<1>1. outboxFaults' \in 0..MaxOutboxFaults
  BY OutboxAssumption, SMT DEF OutboxInv, OutboxTypeOK, MarkDeliveredFails
<1>2. UNCHANGED <<delivery, accepted, posts>> /\ worker[w].pc # "idle"
  BY DEF MarkDeliveredFails, outboxHistory
<1>3. QED
  BY <1>1, <1>2, SameCounts, StepInv DEF OutboxInv, OutboxTypeOK, MarkDeliveredFails, outboxHistory

-----------------------------------------------------------------------------
LEMMA ProcessInv ==
  ASSUME OutboxInv, NEW w \in Dispatchers, Process(w)
  PROVE  OutboxInv'
BY MarkDeliveringInv, CheckEndpointInv, SendInv, MarkDeliveredInv, MarkGivingUpInv, ScheduleRetryInv,
   DispatchDelayedInv DEF Process

LEMMA OutboxNextInv == OutboxInv /\ [OutboxNext]_outboxVars => OutboxInv'
<1> SUFFICES ASSUME OutboxInv, [OutboxNext]_outboxVars PROVE OutboxInv'
  OBVIOUS
<1>1. CASE OutboxNext
  <2>1. CASE HandOver
    BY <2>1, DispatchManyInv, SweepDispatchInv, ReplaySaveInv, ReplayDispatchInv DEF HandOver
  <2>2. QED
    BY <1>1, <2>1, AppendInv, TakeInv, ProcessInv, SlowWorkerInv, WorkerDiesInv, MarkDeliveredFailsInv,
       RowFallsDueInv, JobFallsDueInv, SweepInv, ReplayDeliveryInv, ToggleEndpointInv, HandOverLostInv
       DEF OutboxNext
<1>2. CASE UNCHANGED outboxVars
  BY <1>2, SMT
     DEF outboxVars, OutboxInv, OutboxTypeOK, WorkersHold, ReplayHolds, DeliveredWasAccepted, IdleWorker
<1>3. QED
  BY <1>1, <1>2

(* The invariant holds of every behaviour of the outbox, queue and workers. *)
THEOREM OutboxInvariance == OutboxSpec => []OutboxInv
<1>1. QED
  BY OutboxInitInv, OutboxNextInv, PTL DEF OutboxSpec

(* Every state of the outbox is well typed: no worker or replay holds a row that *)
(* is not there, and no retry is queued past the end of the schedule.             *)
THEOREM OutboxTypeCorrect == OutboxSpec => []OutboxTypeOK
<1>1. OutboxInv => OutboxTypeOK
  BY DEF OutboxInv
<1>2. QED
  BY <1>1, OutboxInvariance, PTL

(* A delivery marked delivered was accepted by its receiver, whatever workers,  *)
(* sweeps and replays wrote over its row.                                        *)
THEOREM DeliveredMeansAccepted == OutboxSpec => []DeliveredWasAccepted
<1>1. OutboxInv => DeliveredWasAccepted
  BY DEF OutboxInv
<1>2. QED
  BY <1>1, OutboxInvariance, PTL
-----------------------------------------------------------------------------
(***************************************************************************)
(* Workers that never hold one row together keep the promise.  The refinement *)
(* needs two facts more: what is queued or about to be handed over is of a row *)
(* that exists, and a busy worker holds a row that has not ended.  The second  *)
(* is where two workers on one row would break it: one can mark the row        *)
(* delivered under the other.                                                   *)
(***************************************************************************)
Busy(w) == worker[w].pc # "idle"

Apart == \A w, v \in Dispatchers : w # v /\ Busy(w) /\ Busy(v) => worker[w].d # worker[v].d

OneWorker == \A w, v \in Dispatchers : w = v

Known == {d \in Deliveries : delivery[d].status # "none"}
Open == {d \in Deliveries : delivery[d].status \in {"pending", "delivering"}}

RowsReach ==
  /\ \A d \in Known : d[1] \in appended
  /\ unsent \subseteq Known /\ swept \subseteq Known
  /\ \A d \in Deliveries : ready[d] > 0 => d \in Known
  /\ \A job \in delayed : job[1] \in Known
  /\ replay.pc # "idle" => replay.d \in Known
  /\ \A w \in Dispatchers : worker[w].pc # "idle" => worker[w].d \in Open

LEMMA ReachInit == OutboxInit => RowsReach
BY SMT DEF OutboxInit, RowsReach, Known, Open, NoDelivery, NoReplay, IdleWorker

(* Queueing what exists leaves only what exists in the queue. *)
LEMMA QueuedIsKnown ==
  ASSUME OutboxInv, RowsReach, NEW ds, ds \cap Deliveries \subseteq Known, NEW d \in Deliveries, Queued(ds)[d] > 0
  PROVE  d \in Known
BY OutboxAssumption, SMT DEF OutboxInv, OutboxTypeOK, RowsReach, Queued

(* The rows stay: the queue and what is to be handed to it change. *)
LEMMA QueueReach ==
  ASSUME OutboxInv, RowsReach, UNCHANGED <<delivery, appended, worker>>,
         unsent' \subseteq Known, swept' \subseteq Known,
         \A d \in Deliveries : ready'[d] > 0 => d \in Known,
         delayed' \subseteq delayed,
         replay'.pc # "idle" => replay'.d \in Known
  PROVE  RowsReach'
<1>1. Known' = Known /\ Open' = Open
  BY DEF Known, Open
<1>2. QED
  BY <1>1, SMT DEF RowsReach

(* The rows change while no worker moves: none disappears, none ends. *)
LEMMA RowsStay ==
  ASSUME OutboxInv, RowsReach, UNCHANGED <<ready, delayed, worker>>,
         Known \subseteq Known', Open \subseteq Open',
         \A d \in Known' : d[1] \in appended',
         unsent' \subseteq Known', swept' \subseteq Known',
         replay'.pc # "idle" => replay'.d \in Known'
  PROVE  RowsReach'
BY SMT DEF RowsReach

(* What another worker holds is not what this one holds. *)
LEMMA OthersHold ==
  ASSUME OutboxInv, RowsReach, Apart, NEW w \in Dispatchers, NEW v \in Dispatchers, v # w, Busy(v)
  PROVE  worker[v].d # worker[w].d
<1>1. CASE Busy(w)
  BY <1>1 DEF Apart
<1>2. CASE ~Busy(w)
  <2>1. worker[w].d = Nowhere /\ worker[v].d \in Deliveries
    BY <1>2 DEF OutboxInv, WorkersHold, Busy, IdleWorker
  <2> QED
    BY <2>1, NowhereIsNone
<1> QED
  BY <1>1, <1>2

(* A worker moves on, or returns; its row may be saved, and no other ends. *)
LEMMA WorkerReach ==
  ASSUME OutboxInv, RowsReach, Apart, NEW w \in Dispatchers,
         UNCHANGED <<appended, unsent, swept, replay>>,
         Known' = Known,
         \A d \in Deliveries : ready'[d] > 0 => d \in Known,
         \A job \in delayed' : job[1] \in Known,
         \A v \in Dispatchers : v # w => worker'[v] = worker[v],
         \A d \in Open : d # worker[w].d => d \in Open',
         worker'[w].pc # "idle" => worker'[w].d \in Open'
  PROVE  RowsReach'
<1>1. ASSUME NEW v \in Dispatchers, worker'[v].pc # "idle"
      PROVE  worker'[v].d \in Open'
  <2>1. CASE v # w
    <3>1. worker'[v] = worker[v] /\ Busy(v) /\ worker[v].d \in Open
      BY <1>1, <2>1 DEF Busy, RowsReach
    <3> QED
      BY <2>1, <3>1, OthersHold
  <2> QED
    BY <1>1, <2>1
<1> QED
  BY <1>1 DEF RowsReach

(* The state a receiver sees is a function of the status. *)
LEMMA StateIs ==
  ASSUME NEW d \in Deliveries, OutboxInv
  PROVE  /\ delivery[d].status = "none" => State[d] = "none"
         /\ delivery[d].status = "delivered" => State[d] = "delivered"
         /\ delivery[d].status = "giving_up" => State[d] = "abandoned"
         /\ d \in Open => State[d] = "owed"
         /\ State[d] = "none" => delivery[d].status = "none"
         /\ State[d] = "delivered" => delivery[d].status = "delivered"
<1>1. delivery[d].status \in {"none", "pending", "delivering", "delivered", "giving_up"}
  BY SMT DEF OutboxInv, OutboxTypeOK, DeliveryRow
<1>2. QED
  BY <1>1, SMT DEF State, Open

LEMMA StateNext ==
  ASSUME NEW d \in Deliveries, OutboxInv'
  PROVE  /\ delivery'[d].status = "none" => State'[d] = "none"
         /\ delivery'[d].status = "delivered" => State'[d] = "delivered"
         /\ delivery'[d].status = "giving_up" => State'[d] = "abandoned"
         /\ d \in Open' => State'[d] = "owed"
<1>1. delivery'[d].status \in {"none", "pending", "delivering", "delivered", "giving_up"}
  BY SMT DEF OutboxInv, OutboxTypeOK, DeliveryRow
<1>2. QED
  BY <1>1, SMT DEF State, Open

(* Two functions of the deliveries that agree are one. *)
LEMMA StateIsFunction ==
  ASSUME NEW f, f = [d \in Deliveries |-> f[d]], \A d \in Deliveries : State'[d] = f[d]
  PROVE  State' = f
<1>1. State' = [d \in Deliveries |-> State'[d]]
  BY DEF State
<1>2. [d \in Deliveries |-> State'[d]] = [d \in Deliveries |-> f[d]]
  OBVIOUS
<1>3. QED
  BY <1>1, <1>2

LEMMA StateStays ==
  ASSUME OutboxInv, OutboxInv',
         \A d \in Deliveries : delivery'[d].status = delivery[d].status \/ (d \in Open /\ d \in Open')
  PROVE  State' = State
<1>1. \A d \in Deliveries : State'[d] = State[d]
  <2> TAKE d \in Deliveries
  <2>1. CASE d \in Open /\ d \in Open'
    BY <2>1, StateIs, StateNext
  <2>2. CASE delivery'[d].status = delivery[d].status
    <3>1. delivery[d].status \in {"none", "delivered", "giving_up"} \/ (d \in Open /\ d \in Open')
      BY <2>2, SMT DEF OutboxInv, OutboxTypeOK, DeliveryRow, Open
    <3>2. QED
      BY <2>2, <3>1, StateIs, StateNext
  <2>3. QED
    BY <2>1, <2>2
<1>2. State = [d \in Deliveries |-> State[d]]
  BY DEF State
<1>3. QED
  BY <1>1, <1>2, StateIsFunction

(* One delivery's state changes. *)
LEMMA StateMoves ==
  ASSUME OutboxInv, OutboxInv', NEW d \in Deliveries, NEW s,
         State'[d] = s, \A e \in Deliveries : e # d => delivery'[e] = delivery[e]
  PROVE  State' = [State EXCEPT ![d] = s]
<1>1. \A e \in Deliveries : e # d => State'[e] = State[e]
  BY SMT DEF State
<1>2. State = [e \in Deliveries |-> State[e]]
  BY DEF State
<1> DEFINE f == [State EXCEPT ![d] = s]
<1>3. f = [e \in Deliveries |-> f[e]] /\ \A e \in Deliveries : State'[e] = f[e]
  BY <1>1, <1>2
<1> HIDE DEF f
<1>4. State' = f
  BY <1>3, StateIsFunction
<1>5. QED
  BY <1>4 DEF f

-----------------------------------------------------------------------------
(* The reach of every action *)

LEMMA AppendReach ==
  ASSUME OutboxInv, RowsReach, NEW key \in DeliveryKeys, AppendEvent(key)
  PROVE  RowsReach'
<1>1. Fanout(key) \subseteq Deliveries /\ \A d \in Fanout(key) : d[1] = key
  BY FanoutType, SMT DEF OutboxInv, Fanout
<1>2. \A d \in Known : d \notin Fanout(key)
  BY <1>1, SMT DEF RowsReach, AppendEvent
<1>3. \A d \in Deliveries : d \notin Fanout(key) => delivery'[d] = delivery[d]
  BY DEF AppendEvent
<1>4. \A d \in Fanout(key) : delivery'[d].status = "pending"
  BY <1>1 DEF AppendEvent
<1>5. Known' = Known \cup Fanout(key) /\ Open \subseteq Open'
  BY <1>1, <1>2, <1>3, <1>4, SMT DEF Known, Open
<1>6. \A d \in Known' : d[1] \in appended'
  BY <1>1, <1>5, SMT DEF RowsReach, AppendEvent
<1>7. unsent' \subseteq Known' /\ swept' \subseteq Known' /\ (replay'.pc # "idle" => replay'.d \in Known')
  BY <1>5, SMT DEF RowsReach, AppendEvent
<1>8. QED
  BY <1>5, <1>6, <1>7, RowsStay DEF AppendEvent

LEMMA DispatchManyReach ==
  ASSUME OutboxInv, RowsReach, NEW key \in DeliveryKeys, DispatchMany(key)
  PROVE  RowsReach'
<1> DEFINE ds == {d \in unsent : d[1] = key}
<1>1. ready' = Queued(ds) /\ unsent' = unsent \ ds
  BY DEF DispatchMany
<1>2. unsent \subseteq Known /\ ds \cap Deliveries \subseteq Known
  BY DEF RowsReach
<1> HIDE DEF ds
<1>3. \A d \in Deliveries : ready'[d] > 0 => d \in Known
  BY <1>1, <1>2, QueuedIsKnown
<1>4. unsent' \subseteq Known
  BY <1>1, <1>2
<1>5. QED
  BY <1>3, <1>4, QueueReach DEF RowsReach, DispatchMany

LEMMA SweepDispatchReach ==
  ASSUME OutboxInv, RowsReach, SweepDispatch
  PROVE  RowsReach'
<1>1. \A d \in Deliveries : ready'[d] > 0 => d \in Known
  BY QueuedIsKnown DEF RowsReach, SweepDispatch
<1>2. QED
  BY <1>1, QueueReach DEF RowsReach, SweepDispatch

LEMMA ReplayDispatchReach ==
  ASSUME OutboxInv, RowsReach, ReplayDispatch
  PROVE  RowsReach'
<1>1. {replay.d} \cap Deliveries \subseteq Known
  BY DEF RowsReach, ReplayDispatch
<1>2. \A d \in Deliveries : ready'[d] > 0 => d \in Known
  BY <1>1, QueuedIsKnown DEF ReplayDispatch
<1>3. replay'.pc = "idle"
  BY DEF ReplayDispatch, NoReplay
<1>4. QED
  BY <1>2, <1>3, QueueReach DEF RowsReach, ReplayDispatch

(* The row replayed is saved, and is pending again. *)
LEMMA ReplaySaved ==
  ASSUME OutboxInv, ReplaySave
  PROVE  /\ replay.d \in Deliveries /\ delivery'[replay.d].status = "pending"
         /\ \A d \in Deliveries : d # replay.d => delivery'[d] = delivery[d]
         /\ replay' = [replay EXCEPT !.pc = "dispatch"] /\ replay'.pc = "dispatch" /\ replay'.d = replay.d
<1>1. replay.d \in Deliveries /\ replay \in Replay /\ delivery \in [Deliveries -> DeliveryRow]
  BY DEF OutboxInv, OutboxTypeOK, ReplayHolds, ReplaySave
<1>2. QED
  BY <1>1, SMT DEF ReplaySave, Replay

LEMMA ReplaySaveReach ==
  ASSUME OutboxInv, RowsReach, ReplaySave
  PROVE  RowsReach'
<1>1. Known' = Known /\ Open \subseteq Open'
  BY ReplaySaved, SMT DEF RowsReach, Known, Open, ReplaySave
<1>2. QED
  BY <1>1, ReplaySaved, RowsStay, SMT DEF RowsReach, ReplaySave

LEMMA ReplayDeliveryReach ==
  ASSUME OutboxInv, RowsReach, NEW d \in Deliveries, ReplayDelivery(d)
  PROVE  RowsReach'
BY QueueReach, SMT DEF RowsReach, Known, ReplayDelivery

LEMMA ToggleEndpointReach ==
  ASSUME OutboxInv, RowsReach, NEW e \in Endpoints, ToggleEndpoint(e)
  PROVE  RowsReach'
BY QueueReach, SMT DEF RowsReach, ToggleEndpoint

LEMMA HandOverLostReach ==
  ASSUME OutboxInv, RowsReach, HandOverLost
  PROVE  RowsReach'
BY QueueReach, SMT DEF RowsReach, HandOverLost, NoReplay

(* Time passes over a row without changing what it says. *)
LEMMA DueRows ==
  ASSUME OutboxInv,
         (\E d \in Deliveries : RowFallsDue(d)) \/ (\E w \in Dispatchers : SlowWorker(w))
  PROVE  /\ \A d \in Deliveries : delivery'[d].status = delivery[d].status
         /\ UNCHANGED <<appended, unsent, ready, delayed, worker, swept, replay, accepted>>
<1>1. PICK d \in Deliveries : delivery' = [delivery EXCEPT ![d].due = TRUE]
  BY BusyWorker DEF RowFallsDue, SlowWorker
<1>2. \A e \in Deliveries : delivery'[e].status = delivery[e].status
  BY <1>1, SMT DEF OutboxInv, OutboxTypeOK, DeliveryRow
<1>3. QED
  BY <1>2 DEF RowFallsDue, SlowWorker, outboxHistory

LEMMA DueReach ==
  ASSUME OutboxInv, RowsReach,
         (\E d \in Deliveries : RowFallsDue(d)) \/ (\E w \in Dispatchers : SlowWorker(w))
  PROVE  RowsReach'
<1>1. Known' = Known /\ Open' = Open
  BY DueRows, SMT DEF Known, Open
<1>2. QED
  BY <1>1, DueRows, RowsStay, SMT DEF RowsReach

(* What the sweeper resets was open, and stays so. *)
LEMMA SweptRows ==
  ASSUME OutboxInv, Sweep
  PROVE  /\ Stuck \subseteq Open
         /\ \A d \in Deliveries :
              delivery'[d].status = delivery[d].status \/ (d \in Open /\ d \in Open')
<1>1. Stuck \subseteq Open
  BY DEF Stuck, Open
<1>2. \A d \in Deliveries : d \in Stuck => delivery'[d].status = "pending"
  BY SMT DEF OutboxInv, OutboxTypeOK, DeliveryRow, Sweep
<1>3. \A d \in Deliveries : d \notin Stuck => delivery'[d] = delivery[d]
  BY DEF Sweep
<1>4. QED
  BY <1>1, <1>2, <1>3 DEF Open

LEMMA SweepReach ==
  ASSUME OutboxInv, RowsReach, Sweep
  PROVE  RowsReach'
<1>1. Known' = Known /\ Open' = Open /\ Open \subseteq Known
  BY SweptRows, SMT DEF Known, Open
<1>2. swept' \subseteq Known
  BY <1>1, SweptRows DEF Sweep
<1>3. QED
  BY <1>1, <1>2, RowsStay, SMT DEF RowsReach, Sweep

LEMMA JobFallsDueReach ==
  ASSUME OutboxInv, RowsReach, NEW job \in delayed, JobFallsDue(job)
  PROVE  RowsReach'
<1>1. ready' = Queued({job[1]}) /\ {job[1]} \subseteq Known
  BY DEF RowsReach, JobFallsDue
<1>2. \A d \in Deliveries : ready'[d] > 0 => d \in Known
  BY <1>1, QueuedIsKnown
<1>3. delayed' \subseteq delayed
  BY DEF JobFallsDue
<1>4. QED
  BY <1>2, <1>3, QueueReach DEF RowsReach, JobFallsDue

(* A worker that keeps what it holds, or returns. *)
LEMMA HeldReach ==
  ASSUME OutboxInv, RowsReach, Apart, NEW w \in Dispatchers,
         UNCHANGED <<appended, unsent, swept, replay>>,
         Known' = Known,
         \A d \in Deliveries : ready'[d] > 0 => d \in Known,
         \A job \in delayed' : job[1] \in Known,
         \A d \in Open : d # worker[w].d => d \in Open',
         WorkerReturns(w) \/ ((\E pc : WorkerAt(w, pc)) /\ worker[w].d \in Open')
  PROVE  RowsReach'
<1>1. CASE WorkerReturns(w)
  <2>1. worker'[w].pc = "idle" /\ \A v \in Dispatchers : v # w => worker'[v] = worker[v]
    BY <1>1, SMT DEF WorkerReturns, IdleWorker, OutboxInv, OutboxTypeOK
  <2>2. QED
    BY <2>1, WorkerReach
<1>2. CASE (\E pc : WorkerAt(w, pc)) /\ worker[w].d \in Open'
  <2>1. PICK pc : WorkerAt(w, pc)
    BY <1>2
  <2>2. worker[w] \in WorkerState /\ worker \in [Dispatchers -> WorkerState]
    BY DEF OutboxInv, OutboxTypeOK
  <2>3. worker'[w].d = worker[w].d /\ \A v \in Dispatchers : v # w => worker'[v] = worker[v]
    BY <2>1, <2>2, SMT DEF WorkerAt, WorkerState
  <2>4. QED
    BY <1>2, <2>3, WorkerReach
<1>3. QED
  BY <1>1, <1>2

(* The row of a busy worker is open; once saved it has the status given. *)
LEMMA SavedRow ==
  ASSUME OutboxInv, RowsReach, NEW w \in Dispatchers, worker[w].pc # "idle",
         NEW status \in {"pending", "delivering", "delivered", "giving_up"}, Save(w, status)
  PROVE  /\ worker[w].d \in Open /\ Known' = Known
         /\ \A d \in Open : d # worker[w].d => d \in Open'
         /\ delivery'[worker[w].d].status = status
         /\ \A d \in Deliveries : d # worker[w].d => delivery'[d] = delivery[d]
<1>1. worker[w].d \in Open
  BY DEF RowsReach
<1>2. /\ delivery'[worker[w].d].status = status
      /\ \A d \in Deliveries : d # worker[w].d => delivery'[d] = delivery[d]
  BY SaveType
<1>3. Known' = Known
  BY <1>1, <1>2, SMT DEF Known, Open
<1>4. \A d \in Open : d # worker[w].d => d \in Open'
  BY <1>2 DEF Open
<1>5. QED
  BY <1>1, <1>2, <1>3, <1>4

LEMMA TakeReach ==
  ASSUME OutboxInv, RowsReach, Apart, NEW w \in Dispatchers, NEW d \in Deliveries, Take(w, d)
  PROVE  RowsReach'
<1>1. \A e \in Deliveries : ready'[e] > 0 => e \in Known
  BY OutboxAssumption, SMT DEF OutboxInv, OutboxTypeOK, RowsReach, Take
<1>2. Known' = Known /\ Open' = Open
  BY DEF Take, Known, Open
<1>3. CASE delivery[d].status \in Ended
  BY <1>1, <1>3, QueueReach DEF RowsReach, Take
<1>4. CASE delivery[d].status \notin Ended
  <2>1. d \in Open
    BY <1>4, SMT DEF OutboxInv, OutboxTypeOK, DeliveryRow, RowsReach, Known, Open, Ended, Take
  <2>2. worker'[w].d = d /\ \A v \in Dispatchers : v # w => worker'[v] = worker[v]
    BY <1>4, SMT DEF OutboxInv, OutboxTypeOK, Take
  <2>3. QED
    BY <1>1, <1>2, <2>1, <2>2, WorkerReach DEF RowsReach, Take
<1>5. QED
  BY <1>3, <1>4

(* The steps of a worker that save no row. *)
LEMMA QuietReach ==
  ASSUME OutboxInv, RowsReach, Apart, NEW w \in Dispatchers,
         CheckEndpoint(w) \/ Send(w) \/ MarkDeliveredFails(w)
  PROVE  RowsReach'
<1>1. worker[w].d \in Open /\ \E pc : WorkerAt(w, pc)
  BY DEF RowsReach, CheckEndpoint, Send, MarkDeliveredFails
<1>2. Known' = Known /\ Open' = Open
  BY DEF CheckEndpoint, Send, MarkDeliveredFails, Known, Open
<1>3. UNCHANGED <<appended, unsent, swept, replay, ready, delayed>>
  BY DEF CheckEndpoint, Send, MarkDeliveredFails
<1>4. QED
  BY <1>1, <1>2, <1>3, HeldReach DEF RowsReach

LEMMA MarkDeliveringReach ==
  ASSUME OutboxInv, RowsReach, Apart, NEW w \in Dispatchers, MarkDelivering(w)
  PROVE  RowsReach'
<1>1. /\ worker[w].d \in Open /\ Known' = Known /\ delivery'[worker[w].d].status = "delivering"
      /\ \A d \in Open : d # worker[w].d => d \in Open'
  BY SavedRow DEF MarkDelivering
<1>2. worker[w].d \in Open' /\ \E pc : WorkerAt(w, pc)
  BY <1>1 DEF Open, MarkDelivering
<1>3. QED
  BY <1>1, <1>2, HeldReach DEF RowsReach, MarkDelivering

LEMMA EndReach ==
  ASSUME OutboxInv, RowsReach, Apart, NEW w \in Dispatchers, MarkDelivered(w) \/ MarkGivingUp(w)
  PROVE  RowsReach'
<1>1. Known' = Known /\ \A d \in Open : d # worker[w].d => d \in Open'
  BY SavedRow DEF MarkDelivered, MarkGivingUp
<1>2. WorkerReturns(w) /\ UNCHANGED <<appended, unsent, swept, replay, ready, delayed>>
  BY DEF MarkDelivered, MarkGivingUp
<1>3. QED
  BY <1>1, <1>2, HeldReach DEF RowsReach

LEMMA ScheduleRetryReach ==
  ASSUME OutboxInv, RowsReach, Apart, NEW w \in Dispatchers, ScheduleRetry(w)
  PROVE  RowsReach'
<1>1. worker[w].pc # "idle" /\ UNCHANGED <<appended, unsent, swept, replay, ready, delayed>>
  BY DEF ScheduleRetry
<1>2. CASE Save(w, "giving_up") /\ WorkerReturns(w)
  BY <1>1, <1>2, SavedRow, HeldReach DEF RowsReach
<1>3. CASE Save(w, "pending") /\ WorkerAt(w, "enqueue")
  <2>1. /\ worker[w].d \in Open /\ Known' = Known /\ delivery'[worker[w].d].status = "pending"
        /\ \A d \in Open : d # worker[w].d => d \in Open'
    BY <1>1, <1>3, SavedRow
  <2>2. worker[w].d \in Open'
    BY <2>1 DEF Open
  <2>3. QED
    BY <1>1, <1>3, <2>1, <2>2, HeldReach DEF RowsReach
<1>4. QED
  BY <1>2, <1>3 DEF ScheduleRetry

LEMMA DispatchDelayedReach ==
  ASSUME OutboxInv, RowsReach, Apart, NEW w \in Dispatchers, DispatchDelayed(w)
  PROVE  RowsReach'
<1>1. worker[w].d \in Known
  BY DEF RowsReach, Known, Open, DispatchDelayed
<1>2. Known' = Known /\ Open' = Open /\ \A job \in delayed' : job[1] \in Known
  BY <1>1, SMT DEF RowsReach, Known, Open, DispatchDelayed
<1>3. QED
  BY <1>2, HeldReach DEF RowsReach, DispatchDelayed

LEMMA WorkerDiesReach ==
  ASSUME OutboxInv, RowsReach, Apart, NEW w \in Dispatchers, WorkerDies(w)
  PROVE  RowsReach'
<1>1. worker[w].d \in Known /\ Known' = Known /\ Open' = Open
  BY BusyWorker DEF RowsReach, Known, Open, WorkerDies
<1>2. \A d \in Deliveries : Queued({worker[w].d})[d] > 0 => d \in Known
  BY <1>1, QueuedIsKnown
<1>3. \A d \in Deliveries : ready'[d] > 0 => d \in Known
  BY <1>2 DEF RowsReach, WorkerDies
<1>4. QED
  BY <1>1, <1>3, HeldReach DEF RowsReach, WorkerDies

LEMMA ReachNext == OutboxInv /\ RowsReach /\ Apart /\ [OutboxNext]_outboxVars => RowsReach'
<1> SUFFICES ASSUME OutboxInv, RowsReach, Apart, [OutboxNext]_outboxVars PROVE RowsReach'
  OBVIOUS
<1>1. CASE UNCHANGED outboxVars
  BY <1>1 DEF outboxVars, RowsReach, Known, Open
<1>2. CASE HandOver
  BY <1>2, DispatchManyReach, SweepDispatchReach, ReplaySaveReach, ReplayDispatchReach DEF HandOver
<1>3. CASE \E w \in Dispatchers : Process(w)
  BY <1>3, QuietReach, MarkDeliveringReach, EndReach, ScheduleRetryReach, DispatchDelayedReach DEF Process
<1>4. QED
  BY <1>1, <1>2, <1>3, AppendReach, TakeReach, DueReach, WorkerDiesReach, QuietReach, JobFallsDueReach,
     SweepReach, ReplayDeliveryReach, ToggleEndpointReach, HandOverLostReach DEF OutboxNext

-----------------------------------------------------------------------------
(* Every action is a step of the promise, or none *)

LEMMA AppendOwes ==
  ASSUME OutboxInv, OutboxInv', RowsReach, NEW key \in DeliveryKeys, AppendEvent(key)
  PROVE  Fanout(key) \in SUBSET Deliveries /\ Promise!Owe(Fanout(key))
<1>1. Fanout(key) \subseteq Deliveries /\ \A d \in Fanout(key) : d[1] = key
  BY FanoutType, SMT DEF OutboxInv, Fanout
<1>2. \A d \in Fanout(key) : delivery[d].status = "none"
  BY <1>1, SMT DEF RowsReach, Known, AppendEvent
<1>3. \A d \in Fanout(key) : State[d] = "none"
  BY <1>1, <1>2, StateIs
<1>4. \A d \in Fanout(key) : delivery'[d].status = "pending"
  BY <1>1 DEF AppendEvent
<1>5. \A d \in Fanout(key) : State'[d] = "owed"
  BY <1>1, <1>4, StateNext DEF Open
<1>6. \A d \in Deliveries : d \notin Fanout(key) => State'[d] = State[d]
  BY SMT DEF State, AppendEvent
<1> DEFINE f == [d \in Deliveries |-> IF d \in Fanout(key) THEN "owed" ELSE State[d]]
<1>7. f = [d \in Deliveries |-> f[d]] /\ \A d \in Deliveries : State'[d] = f[d]
  BY <1>5, <1>6
<1> HIDE DEF f
<1>8. State' = f
  BY <1>7, StateIsFunction
<1>9. UNCHANGED <<accepted, Asked>>
  BY DEF AppendEvent, outboxHistory, Asked
<1>10. QED
  BY <1>1, <1>3, <1>8, <1>9 DEF Promise!Owe, f

(* Nothing the receiver sees. *)
LEMMA QuietImplements ==
  ASSUME OutboxInv, OutboxInv', RowsReach,
         \/ \E key \in DeliveryKeys : DispatchMany(key)
         \/ SweepDispatch \/ ReplayDispatch \/ Sweep
         \/ \E w \in Dispatchers, d \in Deliveries : Take(w, d)
         \/ \E w \in Dispatchers : \/ CheckEndpoint(w) \/ DispatchDelayed(w) \/ SlowWorker(w)
                                   \/ WorkerDies(w) \/ MarkDeliveredFails(w)
         \/ \E d \in Deliveries : RowFallsDue(d)
         \/ \E job \in delayed : JobFallsDue(job)
         \/ \E e \in Endpoints : ToggleEndpoint(e)
  PROVE  UNCHANGED <<State, accepted, Asked>>
<1>1. accepted' = accepted
  BY DEF DispatchMany, SweepDispatch, ReplayDispatch, Sweep, Take, CheckEndpoint, DispatchDelayed, SlowWorker,
         WorkerDies, MarkDeliveredFails, RowFallsDue, JobFallsDue, ToggleEndpoint, outboxHistory
<1>2. Asked' = Asked
  <2>1. CASE ReplayDispatch
    <3>1. replay.pc = "dispatch" /\ replay'.pc = "idle"
      BY <2>1 DEF ReplayDispatch, NoReplay
    <3>2. QED
      BY <3>1 DEF Asked
  <2>2. CASE replay' = replay
    BY <2>2 DEF Asked
  <2>3. QED
    BY <2>1, <2>2
       DEF DispatchMany, SweepDispatch, Sweep, Take, CheckEndpoint, DispatchDelayed, SlowWorker,
           WorkerDies, MarkDeliveredFails, RowFallsDue, JobFallsDue, ToggleEndpoint
<1>3. \A d \in Deliveries : delivery'[d].status = delivery[d].status \/ (d \in Open /\ d \in Open')
  <2>1. CASE Sweep
    BY <2>1, SweptRows
  <2>2. CASE (\E d \in Deliveries : RowFallsDue(d)) \/ (\E w \in Dispatchers : SlowWorker(w))
    BY <2>2, DueRows
  <2>3. QED
    BY <2>1, <2>2
       DEF DispatchMany, SweepDispatch, ReplayDispatch, Take, CheckEndpoint, DispatchDelayed, WorkerDies,
           MarkDeliveredFails, JobFallsDue, ToggleEndpoint
<1>4. QED
  BY <1>1, <1>2, <1>3, StateStays

LEMMA MarkDeliveringImplements ==
  ASSUME OutboxInv, OutboxInv', RowsReach, NEW w \in Dispatchers, MarkDelivering(w)
  PROVE  UNCHANGED <<State, accepted, Asked>>
<1>1. /\ worker[w].d \in Open /\ delivery'[worker[w].d].status = "delivering"
      /\ \A d \in Deliveries : d # worker[w].d => delivery'[d] = delivery[d]
  BY SavedRow DEF MarkDelivering
<1>2. \A d \in Deliveries : delivery'[d].status = delivery[d].status \/ (d \in Open /\ d \in Open')
  BY <1>1 DEF Open
<1>3. State' = State
  BY <1>2, StateStays
<1>4. QED
  BY <1>3 DEF MarkDelivering, outboxHistory, Asked

LEMMA SendImplements ==
  ASSUME OutboxInv, OutboxInv', RowsReach, NEW w \in Dispatchers, Send(w)
  PROVE  UNCHANGED <<State, accepted, Asked>> \/ (worker[w].d \in Deliveries /\ Promise!Accept(worker[w].d))
<1>1. worker[w].d \in Open /\ worker[w].d \in Deliveries
  BY DEF RowsReach, Open, Send
<1>2. State[worker[w].d] = "owed"
  BY <1>1, StateIs
<1>3. State' = State /\ Asked' = Asked
  BY StateStays DEF Send, Asked
<1>4. accepted' = accepted \/ accepted' = [accepted EXCEPT ![worker[w].d] = @ + 1]
  BY DEF Send
<1>5. QED
  BY <1>1, <1>2, <1>3, <1>4 DEF Promise!Accept

(* A worker ends the delivery it holds. *)
LEMMA EndImplements ==
  ASSUME OutboxInv, OutboxInv', RowsReach, NEW w \in Dispatchers,
         MarkDelivered(w) \/ MarkGivingUp(w) \/ (ScheduleRetry(w) /\ Save(w, "giving_up"))
  PROVE  worker[w].d \in Deliveries /\ (Promise!Deliver(worker[w].d) \/ Promise!Abandon(worker[w].d))
<1>1. worker[w].pc # "idle" /\ UNCHANGED <<accepted, Asked>>
  BY DEF MarkDelivered, MarkGivingUp, ScheduleRetry, outboxHistory, Asked
<1>2. worker[w].d \in Open /\ worker[w].d \in Deliveries
  BY <1>1 DEF RowsReach, Open
<1>3. State[worker[w].d] = "owed"
  BY <1>2, StateIs
<1>4. CASE MarkDelivered(w)
  <2>1. accepted[worker[w].d] > 0
    BY <1>4 DEF OutboxInv, WorkersHold, MarkDelivered
  <2>2. /\ delivery'[worker[w].d].status = "delivered"
        /\ \A d \in Deliveries : d # worker[w].d => delivery'[d] = delivery[d]
    BY <1>1, <1>4, SavedRow DEF MarkDelivered
  <2>3. State'[worker[w].d] = "delivered"
    BY <1>2, <2>2, StateNext
  <2>4. State' = [State EXCEPT ![worker[w].d] = "delivered"]
    BY <1>2, <2>2, <2>3, StateMoves
  <2>5. QED
    BY <1>1, <1>2, <1>3, <2>1, <2>4 DEF Promise!Deliver
<1>5. CASE Save(w, "giving_up")
  <2>1. /\ delivery'[worker[w].d].status = "giving_up"
        /\ \A d \in Deliveries : d # worker[w].d => delivery'[d] = delivery[d]
    BY <1>1, <1>5, SavedRow
  <2>2. State'[worker[w].d] = "abandoned"
    BY <1>2, <2>1, StateNext
  <2>3. State' = [State EXCEPT ![worker[w].d] = "abandoned"]
    BY <1>2, <2>1, <2>2, StateMoves
  <2>4. QED
    BY <1>1, <1>2, <1>3, <2>3 DEF Promise!Abandon
<1>6. QED
  BY <1>4, <1>5 DEF MarkGivingUp

LEMMA ScheduleRetryImplements ==
  ASSUME OutboxInv, OutboxInv', RowsReach, NEW w \in Dispatchers, ScheduleRetry(w)
  PROVE  \/ UNCHANGED <<State, accepted, Asked>>
         \/ worker[w].d \in Deliveries /\ (Promise!Deliver(worker[w].d) \/ Promise!Abandon(worker[w].d))
<1>1. CASE Save(w, "giving_up")
  BY <1>1, EndImplements
<1>2. CASE Save(w, "pending")
  <2>1. /\ worker[w].d \in Open /\ delivery'[worker[w].d].status = "pending"
        /\ \A d \in Deliveries : d # worker[w].d => delivery'[d] = delivery[d]
    BY <1>2, SavedRow DEF ScheduleRetry
  <2>2. \A d \in Deliveries : delivery'[d].status = delivery[d].status \/ (d \in Open /\ d \in Open')
    BY <2>1 DEF Open
  <2>3. QED
    BY <2>2, StateStays DEF ScheduleRetry, outboxHistory, Asked
<1>3. QED
  BY <1>1, <1>2 DEF ScheduleRetry

LEMMA ReplayDeliveryImplements ==
  ASSUME OutboxInv, OutboxInv', NEW d \in Deliveries, ReplayDelivery(d)
  PROVE  Promise!Ask(d)
<1>1. State' = State /\ accepted' = accepted
  BY StateStays DEF ReplayDelivery, outboxHistory
<1>2. State[d] \notin {"none", "delivered"}
  BY StateIs DEF ReplayDelivery
<1>3. Asked = {} /\ Asked' = {d}
  BY DEF ReplayDelivery, Asked
<1>4. QED
  BY <1>1, <1>2, <1>3 DEF Promise!Ask

LEMMA ReplaySaveImplements ==
  ASSUME OutboxInv, OutboxInv', ReplaySave
  PROVE  replay.d \in Deliveries /\ Promise!Reopen(replay.d)
<1>1. /\ replay.d \in Deliveries /\ delivery'[replay.d].status = "pending"
      /\ \A d \in Deliveries : d # replay.d => delivery'[d] = delivery[d]
      /\ replay'.pc = "dispatch"
  BY ReplaySaved
<1>2. State'[replay.d] = "owed"
  BY <1>1, StateNext DEF Open
<1>3. State' = [State EXCEPT ![replay.d] = "owed"]
  BY <1>1, <1>2, StateMoves
<1>4. Asked = {replay.d} /\ Asked' = {} /\ accepted' = accepted
  BY <1>1 DEF ReplaySave, Asked, outboxHistory
<1>5. QED
  BY <1>1, <1>3, <1>4 DEF Promise!Reopen

LEMMA HandOverLostImplements ==
  ASSUME OutboxInv, OutboxInv', HandOverLost
  PROVE  UNCHANGED <<State, accepted, Asked>> \/ (replay.d \in Deliveries /\ Promise!Forget(replay.d))
<1>1. State' = State /\ accepted' = accepted
  BY StateStays DEF HandOverLost, outboxHistory
<1>2. Asked' = Asked \/ (replay.pc = "save" /\ replay' = NoReplay)
  <2>1. CASE replay.pc = "dispatch" /\ replay' = NoReplay
    <3>1. replay'.pc # "save" /\ replay.pc # "save"
      BY <2>1 DEF NoReplay
    <3>2. QED
      BY <3>1 DEF Asked
  <2>2. CASE replay' = replay
    BY <2>2 DEF Asked
  <2>3. replay.pc \in {"idle", "save", "dispatch"}
    BY DEF OutboxInv, OutboxTypeOK, Replay
  <2>4. QED
    BY <2>1, <2>2, <2>3 DEF HandOverLost
<1>3. CASE replay.pc = "save" /\ replay' = NoReplay
  <2>1. Asked = {replay.d} /\ Asked' = {} /\ replay.d \in Deliveries
    BY <1>3 DEF OutboxInv, ReplayHolds, Asked, NoReplay
  <2>2. QED
    BY <1>1, <2>1 DEF Promise!Forget
<1>4. QED
  BY <1>1, <1>2, <1>3

LEMMA PromiseStep ==
  OutboxInv /\ OutboxInv' /\ RowsReach /\ [OutboxNext]_outboxVars => [Promise!Next]_(Promise!pvars)
<1> SUFFICES ASSUME OutboxInv, OutboxInv', RowsReach, [OutboxNext]_outboxVars
             PROVE  Promise!Next \/ UNCHANGED <<State, accepted, Asked>>
  BY DEF Promise!pvars
<1>1. CASE UNCHANGED outboxVars
  BY <1>1 DEF outboxVars, outboxHistory, State, Asked
<1>2. CASE \E key \in DeliveryKeys : AppendEvent(key)
  BY <1>2, AppendOwes DEF Promise!Next
<1>3. CASE HandOver
  BY <1>3, QuietImplements, ReplaySaveImplements DEF HandOver, Promise!Next
<1>4. CASE \E w \in Dispatchers : Process(w)
  BY <1>4, QuietImplements, MarkDeliveringImplements, SendImplements, EndImplements, ScheduleRetryImplements
     DEF Process, Promise!Next
<1>5. CASE (\E d \in Deliveries : ReplayDelivery(d)) \/ HandOverLost
  BY <1>5, ReplayDeliveryImplements, HandOverLostImplements DEF Promise!Next
<1>6. QED
  BY <1>1, <1>2, <1>3, <1>4, <1>5, QuietImplements DEF OutboxNext

LEMMA OneIsApart == OneWorker => Apart
BY DEF OneWorker, Apart

(* Any number of workers keep the promise, whatever dies, is lost, is swept or is        *)
(* replayed, as long as no two of them hold one row: what is delivered was taken, and     *)
(* only a replay asked for reopens what has ended.                                        *)
THEOREM ApartKeepsThePromise == OutboxSpec /\ []Apart => ImplementsAtLeastOnce
<1>1. OutboxInit => Promise!Init
  BY DEF OutboxInit, Promise!Init, State, Asked, NoDelivery, NoReplay
<1>2. OutboxInv /\ RowsReach /\ Apart /\ [OutboxNext]_outboxVars => RowsReach'
  BY ReachNext
<1>3. QED
  BY <1>1, <1>2, ReachInit, OutboxInvariance, PromiseStep, PTL DEF OutboxSpec, ImplementsAtLeastOnce, Promise!Spec

(* One worker keeps the promise: no second one is there to hold its row. *)
THEOREM OneWorkerKeepsThePromise == OneWorker => (OutboxSpec => ImplementsAtLeastOnce)
<1> SUFFICES ASSUME OneWorker PROVE OutboxSpec => ImplementsAtLeastOnce
  OBVIOUS
<1>1. Apart
  BY OneIsApart
<1>2. QED
  BY <1>1, ApartKeepsThePromise, PTL

-----------------------------------------------------------------------------
(***************************************************************************)
(* The tries of workers apart are counted.  What was taken twice had a fault or a     *)
(* replay for it, and what was given up was posted once per delay of the       *)
(* schedule; the counts hold between the steps of a worker because each place   *)
(* of the worker says which attempt is counted and not yet posted.              *)
(***************************************************************************)
HoldsAt(w, d, pcs) == worker[w].d = d /\ worker[w].pc \in pcs

Reopening(d) == replay.pc = "save" /\ replay.d = d

(* Taken d is credited to: its row, or the worker about to mark it. *)
Credited(d) == delivery[d].status = "delivered" \/ \E w \in Dispatchers : HoldsAt(w, d, {"delivered"})

(* Every time d was taken but the credited one has its fault or its replay; a replay  *)
(* asked for has yet to spend its own.                                                  *)
TakenCounted(d) ==
  /\ accepted[d] <= outboxFaults + replays + 1
  /\ Reopening(d) => accepted[d] <= outboxFaults + replays
  /\ ~Credited(d) => accepted[d] <= outboxFaults + replays
  /\ Reopening(d) /\ ~Credited(d) => accepted[d] < outboxFaults + replays

(* Without replays, no attempt is counted but it was posted, is about to be, or died. *)
PostsCounted(d) ==
  d \notin idled /\ replays = 0 =>
    /\ delivery[d].status = "giving_up" => posts[d] + outboxFaults > Retries
    /\ delivery[d].attempts <= posts[d] + outboxFaults + 1
    /\ (\A w \in Dispatchers : ~HoldsAt(w, d, {"check", "send"})) => delivery[d].attempts <= posts[d] + outboxFaults
    /\ \A w \in Dispatchers :
         /\ HoldsAt(w, d, {"mark", "check", "send"}) => worker[w].attempts <= posts[d] + outboxFaults + 1
         /\ HoldsAt(w, d, {"delivered", "retry", "enqueue"}) => worker[w].attempts <= posts[d] + outboxFaults
         /\ ~HoldsAt(w, d, {"giveUp"})

Counted ==
  /\ \A d \in Deliveries : TakenCounted(d) /\ PostsCounted(d)
  /\ replay.pc # "idle" => replays > 0
  /\ \A d \in Deliveries : d[2] \in Endpoints \ active => d \in idled
  /\ \A w \in Dispatchers : worker[w].pc \in {"check", "giveUp"} => worker[w].d[2] \in Endpoints

(* Nobody but w works on d. *)
Alone(w, d) == \A v \in Dispatchers : v # w => ~(Busy(v) /\ worker[v].d = d)

(* The counts of a delivery only one worker holds, if any does. *)
Taken(times, credited, reopening, explained) ==
  /\ times <= explained + 1
  /\ reopening => times <= explained
  /\ ~credited => times <= explained
  /\ reopening /\ ~credited => times < explained

Posted(givenUp, counted, attempts, tries, pc) ==
  /\ givenUp => tries > Retries
  /\ counted <= tries + 1
  /\ pc \notin {"check", "send"} => counted <= tries
  /\ pc \in {"mark", "check", "send"} => attempts <= tries + 1
  /\ pc \in {"delivered", "retry", "enqueue"} => attempts <= tries
  /\ pc # "giveUp"

LEMMA Naturals ==
  ASSUME OutboxInv
  PROVE  /\ outboxFaults \in Nat /\ replays \in Nat /\ Retries \in Nat
         /\ \A d \in Deliveries : /\ accepted[d] \in Nat /\ posts[d] \in Nat
                                  /\ delivery[d].attempts \in Nat
         /\ \A w \in Dispatchers : worker[w].attempts \in Nat /\ worker[w] \in WorkerState
BY OutboxAssumption, SMT DEF OutboxInv, OutboxTypeOK, DeliveryRow, WorkerState

LEMMA CountInit == OutboxInit => Counted
BY OutboxAssumption, SMT DEF OutboxInit, Counted, TakenCounted, PostsCounted, HoldsAt, Reopening, Credited,
   NoDelivery, NoReplay, IdleWorker

(* Rows that move without a worker, and the queue, spend no count. *)
LEMMA RowsCount ==
  ASSUME OutboxInv, OutboxInv', Counted,
         UNCHANGED <<worker, accepted, posts, replays>>, outboxFaults' >= outboxFaults,
         \A d \in Deliveries :
           /\ delivery[d].status = "delivered" => delivery'[d].status = "delivered"
           /\ delivery'[d].status = "giving_up" => delivery[d].status = "giving_up"
           /\ delivery'[d].attempts <= delivery[d].attempts,
         replay' = replay \/ (replay'.pc # "save" /\ replay.pc # "idle") \/ replay'.pc = "idle",
         idled \subseteq idled',
         \A d \in Deliveries : d[2] \in Endpoints \ active' => d \in idled'
  PROVE  Counted'
<1> DEFINE F == outboxFaults  R == replays
<1>1. /\ F \in Nat /\ F' \in Nat /\ R \in Nat /\ R' = R /\ F' >= F /\ Retries \in Nat
  BY Naturals, OutboxAssumption, SMT DEF OutboxInv, OutboxTypeOK
<1>2. ASSUME NEW d \in Deliveries
      PROVE  TakenCounted(d)'
  <2>1. accepted[d] \in Nat /\ accepted' = accepted /\ TakenCounted(d)
    BY Naturals DEF Counted
  <2>2. (Credited(d) => Credited(d)') /\ (Reopening(d)' => Reopening(d))
    BY DEF Credited, Reopening, HoldsAt
  <2> QED
    BY <1>1, <2>1, <2>2 DEF TakenCounted
<1>3. ASSUME NEW d \in Deliveries
      PROVE  PostsCounted(d)'
  <2>1. /\ posts[d] \in Nat /\ delivery[d].attempts \in Nat /\ delivery'[d].attempts \in Nat /\ posts' = posts
        /\ worker' = worker /\ PostsCounted(d)
        /\ \A w \in Dispatchers : worker[w].attempts \in Nat
    BY Naturals, SMT DEF Counted, OutboxInv, OutboxTypeOK, DeliveryRow
  <2> QED
    BY <1>1, <2>1 DEF PostsCounted, HoldsAt
<1>4. replay'.pc # "idle" => replays' > 0
  BY DEF Counted
<1> QED
  BY <1>2, <1>3, <1>4 DEF Counted

(* A worker and the delivery it alone holds, or takes. *)
LEMMA AloneCounts ==
  ASSUME OutboxInv, Counted, NEW w \in Dispatchers, NEW d \in Deliveries, Alone(w, d),
         worker[w].pc = "idle" \/ worker[w].d = d
  PROVE  /\ Taken(accepted[d], delivery[d].status = "delivered" \/ worker[w].pc = "delivered", Reopening(d),
                  outboxFaults + replays)
         /\ d \notin idled /\ replays = 0 =>
              Posted(delivery[d].status = "giving_up", delivery[d].attempts, worker[w].attempts,
                     posts[d] + outboxFaults, worker[w].pc)
<1>1. \A pcs : "idle" \notin pcs => (HoldsAt(w, d, pcs) <=> worker[w].pc \in pcs)
  BY DEF HoldsAt
<1>2. \A v \in Dispatchers : v # w => \A pcs : "idle" \notin pcs => ~HoldsAt(v, d, pcs)
  BY DEF Alone, Busy, HoldsAt
<1>3. Credited(d) <=> delivery[d].status = "delivered" \/ worker[w].pc = "delivered"
  BY <1>1, <1>2 DEF Credited
<1>4. TakenCounted(d) /\ PostsCounted(d)
  BY DEF Counted
<1> QED
  BY <1>1, <1>2, <1>3, <1>4 DEF TakenCounted, PostsCounted, Taken, Posted

LEMMA StepCounts ==
  ASSUME OutboxInv, OutboxInv', Counted, NEW w \in Dispatchers, NEW d \in Deliveries, Alone(w, d),
         \A v \in Dispatchers : v # w => worker'[v] = worker[v],
         worker[w].pc = "idle" \/ worker[w].d = d,
         worker'[w].pc = "idle" \/ worker'[w].d = d,
         \A e \in Deliveries : e # d => /\ delivery'[e] = delivery[e] /\ accepted'[e] = accepted[e]
                                        /\ posts'[e] = posts[e],
         UNCHANGED <<replay, replays, idled, active>>, outboxFaults' >= outboxFaults,
         Taken(accepted'[d], delivery'[d].status = "delivered" \/ worker'[w].pc = "delivered", Reopening(d),
               outboxFaults' + replays),
         d \notin idled /\ replays = 0 =>
           Posted(delivery'[d].status = "giving_up", delivery'[d].attempts, worker'[w].attempts,
                  posts'[d] + outboxFaults', worker'[w].pc),
         worker'[w].pc \in {"check", "giveUp"} => d[2] \in Endpoints
  PROVE  Counted'
<1> DEFINE F == outboxFaults
<1>1. /\ F \in Nat /\ F' \in Nat /\ replays \in Nat /\ F' >= F /\ Retries \in Nat
  BY Naturals, OutboxAssumption, SMT DEF OutboxInv, OutboxTypeOK
<1>2. \A v \in Dispatchers : v # w =>
        \A pcs : "idle" \notin pcs => ~HoldsAt(v, d, pcs)'
  BY DEF Alone, Busy, HoldsAt
<1>3. \A pcs : "idle" \notin pcs => (HoldsAt(w, d, pcs)' <=> worker'[w].pc \in pcs)
  BY DEF HoldsAt
<1>4. \A e : Reopening(e)' <=> Reopening(e)
  BY DEF Reopening
<1>5. TakenCounted(d)'
  <2>1. Credited(d)' <=> delivery'[d].status = "delivered" \/ worker'[w].pc = "delivered"
    BY <1>2, <1>3 DEF Credited
  <2> QED
    BY <1>4, <2>1 DEF TakenCounted, Taken
<1>6. PostsCounted(d)'
  BY <1>2, <1>3 DEF PostsCounted, Posted
<1>7. ASSUME NEW e \in Deliveries, e # d
      PROVE  TakenCounted(e)' /\ PostsCounted(e)'
  <2>1. /\ delivery'[e] = delivery[e] /\ accepted'[e] = accepted[e] /\ posts'[e] = posts[e]
        /\ accepted[e] \in Nat /\ posts[e] \in Nat /\ delivery[e].attempts \in Nat
        /\ TakenCounted(e) /\ PostsCounted(e)
    BY <1>7, Naturals DEF Counted
  <2>2. ASSUME NEW v \in Dispatchers, NEW pcs, "idle" \notin pcs
        PROVE  HoldsAt(v, e, pcs)' <=> (HoldsAt(v, e, pcs) /\ worker'[v] = worker[v])
    BY <1>7, <2>2 DEF HoldsAt
  <2>6. ASSUME NEW v \in Dispatchers, NEW pcs, "idle" \notin pcs
        PROVE  HoldsAt(v, e, pcs) => HoldsAt(v, e, pcs)'
    BY <1>7, <2>6 DEF HoldsAt
  <2>3. Credited(e)' <=> Credited(e)
    BY <2>1, <2>2, <2>6 DEF Credited
  <2>4. TakenCounted(e)'
    BY <1>1, <1>4, <2>1, <2>3 DEF TakenCounted
  <2>5. PostsCounted(e)'
    <3>1. posts[e] + outboxFaults' >= posts[e] + outboxFaults
      BY <1>1, <2>1
    <3> SUFFICES ASSUME e \notin idled, replays = 0
                 PROVE  /\ delivery[e].status = "giving_up" => posts[e] + outboxFaults' > Retries
                        /\ delivery[e].attempts <= posts[e] + outboxFaults' + 1
                        /\ (\A v \in Dispatchers : ~HoldsAt(v, e, {"check", "send"})')
                             => delivery[e].attempts <= posts[e] + outboxFaults'
                        /\ \A v \in Dispatchers :
                             /\ HoldsAt(v, e, {"mark", "check", "send"})'
                                  => worker'[v].attempts <= posts[e] + outboxFaults' + 1
                             /\ HoldsAt(v, e, {"delivered", "retry", "enqueue"})'
                                  => worker'[v].attempts <= posts[e] + outboxFaults'
                             /\ ~HoldsAt(v, e, {"giveUp"})'
      BY <2>1 DEF PostsCounted
    <3>2. /\ delivery[e].status = "giving_up" => posts[e] + outboxFaults > Retries
          /\ delivery[e].attempts <= posts[e] + outboxFaults + 1
          /\ (\A v \in Dispatchers : ~HoldsAt(v, e, {"check", "send"}))
               => delivery[e].attempts <= posts[e] + outboxFaults
      BY <2>1 DEF PostsCounted
    <3>3. (\A v \in Dispatchers : ~HoldsAt(v, e, {"check", "send"})')
            => \A v \in Dispatchers : ~HoldsAt(v, e, {"check", "send"})
      BY <2>6
    <3>4. ASSUME NEW v \in Dispatchers
          PROVE  /\ HoldsAt(v, e, {"mark", "check", "send"})'
                      => worker'[v].attempts <= posts[e] + outboxFaults' + 1
                 /\ HoldsAt(v, e, {"delivered", "retry", "enqueue"})'
                      => worker'[v].attempts <= posts[e] + outboxFaults'
                 /\ ~HoldsAt(v, e, {"giveUp"})'
      <4>1. /\ HoldsAt(v, e, {"mark", "check", "send"}) => worker[v].attempts <= posts[e] + outboxFaults + 1
            /\ HoldsAt(v, e, {"delivered", "retry", "enqueue"}) => worker[v].attempts <= posts[e] + outboxFaults
            /\ ~HoldsAt(v, e, {"giveUp"})
        BY <2>1 DEF PostsCounted
      <4>2. worker[v].attempts \in Nat
        BY Naturals
      <4>3. /\ HoldsAt(v, e, {"mark", "check", "send"})'
                 => HoldsAt(v, e, {"mark", "check", "send"}) /\ worker'[v] = worker[v]
            /\ HoldsAt(v, e, {"delivered", "retry", "enqueue"})'
                 => HoldsAt(v, e, {"delivered", "retry", "enqueue"}) /\ worker'[v] = worker[v]
            /\ HoldsAt(v, e, {"giveUp"})' => HoldsAt(v, e, {"giveUp"})
        BY <2>2
      <4> QED
        BY <1>1, <2>1, <3>1, <4>1, <4>2, <4>3
    <3> QED
      BY <1>1, <2>1, <3>1, <3>2, <3>3, <3>4
  <2> QED
    BY <2>4, <2>5
<1>8. \A v \in Dispatchers : worker'[v].pc \in {"check", "giveUp"} => worker'[v].d[2] \in Endpoints
  BY DEF Counted
<1> QED
  BY <1>5, <1>6, <1>7, <1>8 DEF Counted

(* The queue, time, the administrator *)

LEMMA AppendCounts ==
  ASSUME OutboxInv, OutboxInv', RowsReach, Counted, NEW key \in DeliveryKeys, AppendEvent(key)
  PROVE  Counted'
<1>1. \A d \in Fanout(key) : d[1] = key
  BY DEF Fanout
<1>2. ASSUME NEW d \in Deliveries
      PROVE  /\ delivery[d].status = "delivered" => delivery'[d].status = "delivered"
             /\ delivery'[d].status = "giving_up" => delivery[d].status = "giving_up"
             /\ delivery'[d].attempts <= delivery[d].attempts
  <2>1. delivery[d].attempts \in Nat
    BY Naturals
  <2>2. CASE d \in Fanout(key)
    <3>1. d \notin Known
      BY <1>1, <2>2 DEF AppendEvent, RowsReach
    <3>2. delivery[d].status = "none"
      BY <3>1 DEF Known
    <3>3. delivery'[d] = [status |-> "pending", attempts |-> 0, due |-> TRUE]
      BY <2>2 DEF AppendEvent
    <3> QED
      BY <2>1, <3>2, <3>3
  <2>3. CASE d \notin Fanout(key)
    <3>1. delivery'[d] = delivery[d]
      BY <2>3 DEF AppendEvent
    <3> QED
      BY <2>1, <3>1
  <2> QED
    BY <2>2, <2>3
<1>3. \A d \in Deliveries : d[2] \in Endpoints \ active' => d \in idled'
  BY DEF Counted, AppendEvent, outboxHistory
<1> QED
  BY <1>2, <1>3, Naturals, RowsCount DEF AppendEvent, counters, outboxHistory

(* A step after which every row is as it was, but for its being due. *)
LEMMA SameRowsCount ==
  ASSUME OutboxInv, OutboxInv', Counted,
         UNCHANGED <<worker, accepted, posts, replays, idled, active>>, outboxFaults' >= outboxFaults,
         \A d \in Deliveries : delivery'[d].attempts = delivery[d].attempts,
         \A d \in Deliveries : delivery'[d].status = delivery[d].status \/ (d \in Stuck /\ delivery'[d].status = "pending"),
         replay' = replay \/ (replay'.pc # "save" /\ replay.pc # "idle") \/ replay'.pc = "idle"
  PROVE  Counted'
<1>1. ASSUME NEW d \in Deliveries
      PROVE  /\ delivery[d].status = "delivered" => delivery'[d].status = "delivered"
             /\ delivery'[d].status = "giving_up" => delivery[d].status = "giving_up"
             /\ delivery'[d].attempts <= delivery[d].attempts
  BY Naturals DEF Stuck
<1> QED
  BY <1>1, RowsCount DEF Counted

LEMMA QueueCounts ==
  ASSUME OutboxInv, OutboxInv', Counted,
         \/ \E key \in DeliveryKeys : DispatchMany(key)
         \/ SweepDispatch \/ ReplayDispatch \/ HandOverLost
         \/ \E job \in delayed : JobFallsDue(job)
  PROVE  Counted'
<1>1. UNCHANGED <<worker, delivery, accepted, posts, replays, idled, active>>
  BY DEF DispatchMany, SweepDispatch, ReplayDispatch, HandOverLost, JobFallsDue, counters, outboxHistory
<1>2. outboxFaults' >= outboxFaults
  <2>1. outboxFaults' = outboxFaults \/ outboxFaults' = outboxFaults + 1
    BY DEF DispatchMany, SweepDispatch, ReplayDispatch, HandOverLost, JobFallsDue, counters
  <2> QED
    BY <2>1, Naturals
<1>3. replay' = replay \/ replay'.pc = "idle"
  <2>1. replay' = replay \/ replay' = NoReplay
    BY DEF DispatchMany, SweepDispatch, ReplayDispatch, HandOverLost, JobFallsDue
  <2> QED
    BY <2>1 DEF NoReplay
<1> QED
  BY <1>1, <1>2, <1>3, SameRowsCount

LEMMA TimeCounts ==
  ASSUME OutboxInv, OutboxInv', Counted,
         \/ \E d \in Deliveries : RowFallsDue(d)
         \/ \E w \in Dispatchers : SlowWorker(w)
         \/ Sweep
  PROVE  Counted'
<1>1. UNCHANGED <<worker, accepted, posts, replays, idled, active, replay>>
  BY DEF RowFallsDue, SlowWorker, Sweep, counters, outboxHistory
<1>2. outboxFaults' >= outboxFaults
  <2>1. outboxFaults' = outboxFaults \/ outboxFaults' = outboxFaults + 1
    BY DEF RowFallsDue, SlowWorker, Sweep, counters
  <2> QED
    BY <2>1, Naturals
<1>3. delivery \in [Deliveries -> DeliveryRow]
  BY DEF OutboxInv, OutboxTypeOK
<1>4. ASSUME NEW e \in Deliveries
      PROVE  /\ delivery'[e].attempts = delivery[e].attempts
             /\ delivery'[e].status = delivery[e].status \/ (e \in Stuck /\ delivery'[e].status = "pending")
  <2>1. delivery[e] \in DeliveryRow
    BY <1>3
  <2>2. CASE \E d \in Deliveries : delivery' = [delivery EXCEPT ![d].due = TRUE]
    BY <1>3, <2>1, <2>2 DEF DeliveryRow
  <2>3. CASE Sweep
    <3>1. delivery'[e] = IF e \in Stuck THEN [delivery[e] EXCEPT !.status = "pending"] ELSE delivery[e]
      BY <2>3 DEF Sweep
    <3> QED
      BY <2>1, <3>1 DEF DeliveryRow
  <2> QED
    BY <2>2, <2>3, BusyWorker DEF RowFallsDue, SlowWorker
<1> QED
  BY <1>1, <1>2, <1>4, SameRowsCount

LEMMA ToggleCounts ==
  ASSUME OutboxInv, OutboxInv', Counted, NEW e \in Endpoints, ToggleEndpoint(e)
  PROVE  Counted'
<1>1. ASSUME NEW d \in Deliveries, d[2] \in Endpoints \ active'
      PROVE  d \in idled'
  <2>1. CASE d[2] = e
    BY <2>1 DEF ToggleEndpoint, Deliveries
  <2>2. CASE d[2] # e
    BY <1>1, <2>2 DEF ToggleEndpoint, Counted
  <2> QED
    BY <2>1, <2>2
<1>2. UNCHANGED <<worker, delivery, accepted, posts, replays, outboxFaults, replay>> /\ idled \subseteq idled'
  BY DEF ToggleEndpoint
<1> QED
  BY <1>1, <1>2, Naturals, RowsCount

(* A replay is asked of what was not delivered: its count is there before it is spent. *)
LEMMA ReplayDeliveryCounts ==
  ASSUME OutboxInv, OutboxInv', Counted, NEW d \in Deliveries, ReplayDelivery(d)
  PROVE  Counted'
<1>1. /\ UNCHANGED <<worker, delivery, accepted, posts, idled, active, outboxFaults>>
      /\ replay.pc = "idle" /\ replays' = replays + 1 /\ delivery[d].status # "delivered"
      /\ replay' = [pc |-> "save", d |-> d]
  BY DEF ReplayDelivery, outboxHistory
<1>2. outboxFaults \in Nat /\ replays \in Nat
  BY Naturals
<1>3. ASSUME NEW e \in Deliveries
      PROVE  TakenCounted(e)' /\ PostsCounted(e)'
  <2>1. accepted[e] \in Nat /\ TakenCounted(e)
    BY Naturals DEF Counted
  <2>2. (Credited(e)' <=> Credited(e)) /\ ~Reopening(e)
    BY <1>1 DEF Credited, HoldsAt, Reopening
  <2>3. TakenCounted(e)'
    BY <1>1, <1>2, <2>1, <2>2 DEF TakenCounted
  <2>4. PostsCounted(e)'
    BY <1>1, <1>2 DEF PostsCounted
  <2> QED
    BY <2>3, <2>4
<1>4. replays' > 0
  BY <1>1, <1>2
<1> QED
  BY <1>1, <1>3, <1>4 DEF Counted

LEMMA ReplaySaveCounts ==
  ASSUME OutboxInv, OutboxInv', Counted, ReplaySave
  PROVE  Counted'
<1> DEFINE d == replay.d
           row == [status |-> "pending", attempts |-> 0, due |-> TRUE]
<1>1. /\ UNCHANGED <<worker, accepted, posts, idled, active, outboxFaults, replays>>
      /\ replay.pc = "save" /\ delivery' = [delivery EXCEPT ![d] = row] /\ replay'.pc = "dispatch"
  BY DEF ReplaySave, counters, outboxHistory, OutboxInv, OutboxTypeOK, Replay
<1>2. d \in Deliveries /\ replays > 0 /\ outboxFaults \in Nat /\ replays \in Nat
      /\ delivery \in [Deliveries -> DeliveryRow]
  BY <1>1, Naturals DEF Counted, OutboxInv, ReplayHolds, OutboxTypeOK
<1>3. ASSUME NEW e \in Deliveries
      PROVE  TakenCounted(e)' /\ PostsCounted(e)'
  <2>1. accepted[e] \in Nat /\ TakenCounted(e)
    BY Naturals DEF Counted
  <2>2. ~Reopening(e)'
    BY <1>1 DEF Reopening
  <2>3. Credited(e) /\ ~Credited(e)' => Reopening(e)
    BY <1>1, <1>2 DEF Credited, HoldsAt, Reopening
  <2>4. TakenCounted(e)'
    BY <1>1, <1>2, <2>1, <2>2, <2>3 DEF TakenCounted
  <2>5. PostsCounted(e)'
    BY <1>1, <1>2 DEF PostsCounted
  <2> QED
    BY <2>4, <2>5
<1> QED
  BY <1>1, <1>2, <1>3 DEF Counted

(* The worker *)

(* What a step of the worker starts from: a row that is open, its counts. *)
LEMMA HeldCounts ==
  ASSUME OutboxInv, OutboxInv', RowsReach, Counted, Apart, NEW w \in Dispatchers, worker[w].pc # "idle"
  PROVE  LET d == worker[w].d IN
         /\ d \in Deliveries /\ Alone(w, d) /\ delivery[d].status \in {"pending", "delivering"}
         /\ Taken(accepted[d], worker[w].pc = "delivered", Reopening(d), outboxFaults + replays)
         /\ d \notin idled /\ replays = 0 =>
              Posted(FALSE, delivery[d].attempts, worker[w].attempts, posts[d] + outboxFaults, worker[w].pc)
         /\ worker[w] \in WorkerState /\ worker[w].attempts \in Nat
         /\ accepted[d] \in Nat /\ posts[d] \in Nat /\ delivery[d].attempts \in Nat
         /\ outboxFaults \in Nat /\ replays \in Nat /\ Retries \in Nat
<1> DEFINE d == worker[w].d
<1>1. d \in Deliveries /\ Alone(w, d) /\ delivery[d].status \in {"pending", "delivering"}
  BY OthersHold DEF RowsReach, Open, Alone
<1>2. /\ Taken(accepted[d], delivery[d].status = "delivered" \/ worker[w].pc = "delivered", Reopening(d),
               outboxFaults + replays)
      /\ d \notin idled /\ replays = 0 =>
           Posted(delivery[d].status = "giving_up", delivery[d].attempts, worker[w].attempts,
                  posts[d] + outboxFaults, worker[w].pc)
  BY <1>1, AloneCounts
<1>3. Taken(accepted[d], worker[w].pc = "delivered", Reopening(d), outboxFaults + replays)
  BY <1>1, <1>2 DEF Taken
<1>4. d \notin idled /\ replays = 0 =>
        Posted(FALSE, delivery[d].attempts, worker[w].attempts, posts[d] + outboxFaults, worker[w].pc)
  BY <1>1, <1>2 DEF Posted
<1> QED
  BY <1>1, <1>3, <1>4, Naturals

(* Where the worker goes. *)
LEMMA WorkerGoes ==
  ASSUME OutboxInv, NEW w \in Dispatchers
  PROVE  /\ \A pc : WorkerAt(w, pc) =>
              worker'[w].pc = pc /\ worker'[w].d = worker[w].d /\ worker'[w].attempts = worker[w].attempts
         /\ WorkerReturns(w) => worker'[w].pc = "idle"
<1>1. worker \in [Dispatchers -> WorkerState] /\ worker[w] \in WorkerState
  BY DEF OutboxInv, OutboxTypeOK
<1> QED
  BY <1>1 DEF WorkerAt, WorkerReturns, IdleWorker, WorkerState

(* The other workers do not move. *)
LEMMA OthersStay ==
  ASSUME OutboxInv, NEW w \in Dispatchers, Process(w) \/ WorkerDies(w) \/ MarkDeliveredFails(w)
  PROVE  \A v \in Dispatchers : v # w => worker'[v] = worker[v]
<1>1. worker \in [Dispatchers -> WorkerState]
  BY DEF OutboxInv, OutboxTypeOK
<1>2. WorkerReturns(w) \/ \E pc : WorkerAt(w, pc)
  BY DEF Process, MarkDelivering, CheckEndpoint, Send, MarkDelivered, MarkGivingUp, ScheduleRetry, DispatchDelayed,
         WorkerDies, MarkDeliveredFails
<1> QED
  BY <1>1, <1>2 DEF WorkerReturns, WorkerAt

(* What a save writes. *)
LEMMA SavedCounts ==
  ASSUME OutboxInv, NEW w \in Dispatchers, worker[w].pc # "idle",
         NEW status \in {"pending", "delivering", "delivered", "giving_up"}, Save(w, status)
  PROVE  /\ delivery'[worker[w].d].status = status /\ delivery'[worker[w].d].attempts = worker[w].attempts
         /\ \A e \in Deliveries : e # worker[w].d => delivery'[e] = delivery[e]
<1>1. worker[w].d \in Deliveries /\ delivery \in [Deliveries -> DeliveryRow]
  BY DEF OutboxInv, WorkersHold, OutboxTypeOK
<1> QED
  BY <1>1 DEF Save

LEMMA TakeCounts ==
  ASSUME OutboxInv, OutboxInv', RowsReach, Counted, Apart', NEW w \in Dispatchers, NEW d \in Deliveries, Take(w, d)
  PROVE  Counted'
<1>1. /\ UNCHANGED <<delivery, accepted, posts, replays, idled, active, outboxFaults, replay>>
      /\ worker[w].pc = "idle"
  BY DEF Take, counters, outboxHistory, IdleWorker
<1>2. CASE UNCHANGED worker
  BY <1>1, <1>2, Naturals, SameRowsCount
<1>3. CASE worker' = [worker EXCEPT ![w] = [pc |-> "mark", d |-> d, attempts |-> delivery[d].attempts + 1]]
  <2>1. /\ worker'[w].pc = "mark" /\ worker'[w].d = d /\ worker'[w].attempts = delivery[d].attempts + 1
        /\ \A v \in Dispatchers : v # w => worker'[v] = worker[v]
    BY <1>3 DEF OutboxInv, OutboxTypeOK
  <2>5. Alone(w, d)
    BY <2>1 DEF Alone, Apart, Busy
  <2>2. /\ Taken(accepted[d], delivery[d].status = "delivered" \/ worker[w].pc = "delivered", Reopening(d),
                 outboxFaults + replays)
        /\ d \notin idled /\ replays = 0 =>
             Posted(delivery[d].status = "giving_up", delivery[d].attempts, worker[w].attempts,
                    posts[d] + outboxFaults, worker[w].pc)
    BY <1>1, <2>5, AloneCounts
  <2>3. Taken(accepted'[d], delivery'[d].status = "delivered" \/ worker'[w].pc = "delivered", Reopening(d),
              outboxFaults' + replays)
    BY <1>1, <2>1, <2>2 DEF Taken
  <2>4. d \notin idled /\ replays = 0 =>
          Posted(delivery'[d].status = "giving_up", delivery'[d].attempts, worker'[w].attempts,
                 posts'[d] + outboxFaults', worker'[w].pc)
    BY <1>1, <2>1, <2>2, Naturals DEF Posted
  <2> QED
    BY <1>1, <2>1, <2>3, <2>4, <2>5, Naturals, StepCounts
<1> QED
  BY <1>2, <1>3 DEF Take

LEMMA MarkDeliveringCounts ==
  ASSUME OutboxInv, OutboxInv', RowsReach, Counted, Apart, NEW w \in Dispatchers, MarkDelivering(w)
  PROVE  Counted'
<1> DEFINE d == worker[w].d
<1>1. /\ UNCHANGED <<accepted, posts, replays, idled, active, outboxFaults, replay>>
      /\ worker[w].pc = "mark" /\ Save(w, "delivering")
  BY DEF MarkDelivering, counters, outboxHistory
<1>2. /\ worker'[w].pc = (IF d[2] \in Endpoints THEN "check" ELSE "send")
      /\ worker'[w].d = d /\ worker'[w].attempts = worker[w].attempts
  BY WorkerGoes DEF MarkDelivering
<1>3. /\ delivery'[d].status = "delivering" /\ delivery'[d].attempts = worker[w].attempts
      /\ \A e \in Deliveries : e # d => delivery'[e] = delivery[e]
  BY <1>1, SavedCounts
<1>4. Taken(accepted'[d], delivery'[d].status = "delivered" \/ worker'[w].pc = "delivered", Reopening(d),
            outboxFaults' + replays)
  BY <1>1, <1>2, <1>3, HeldCounts DEF Taken
<1>5. d \notin idled /\ replays = 0 =>
        Posted(delivery'[d].status = "giving_up", delivery'[d].attempts, worker'[w].attempts,
               posts'[d] + outboxFaults', worker'[w].pc)
  BY <1>1, <1>2, <1>3, HeldCounts DEF Posted
<1>6. d \in Deliveries /\ Alone(w, d) /\ outboxFaults \in Nat /\ worker[w].d = d
  BY <1>1, HeldCounts
<1>7. \A v \in Dispatchers : v # w => worker'[v] = worker[v]
  BY OthersStay DEF Process
<1> QED
  BY <1>1, <1>2, <1>3, <1>4, <1>5, <1>6, <1>7, StepCounts

LEMMA CheckEndpointCounts ==
  ASSUME OutboxInv, OutboxInv', RowsReach, Counted, Apart, NEW w \in Dispatchers, CheckEndpoint(w)
  PROVE  Counted'
<1> DEFINE d == worker[w].d
<1>1. /\ UNCHANGED <<delivery, accepted, posts, replays, idled, active, outboxFaults, replay>>
      /\ worker[w].pc = "check" /\ d[2] \in Endpoints /\ d \in Deliveries
  BY HeldCounts DEF CheckEndpoint, counters, outboxHistory, Counted
<1>2. /\ worker'[w].pc = (IF d[2] \in active THEN "send" ELSE "giveUp")
      /\ worker'[w].d = d /\ worker'[w].attempts = worker[w].attempts
  BY WorkerGoes DEF CheckEndpoint
<1>3. worker'[w].pc = "giveUp" => d \in idled
  BY <1>1, <1>2 DEF Counted
<1>4. Taken(accepted'[d], delivery'[d].status = "delivered" \/ worker'[w].pc = "delivered", Reopening(d),
            outboxFaults' + replays)
  BY <1>1, <1>2, HeldCounts DEF Taken
<1>5. d \notin idled /\ replays = 0 =>
        Posted(delivery'[d].status = "giving_up", delivery'[d].attempts, worker'[w].attempts,
               posts'[d] + outboxFaults', worker'[w].pc)
  BY <1>1, <1>2, <1>3, HeldCounts DEF Posted
<1>6. d \in Deliveries /\ Alone(w, d) /\ outboxFaults \in Nat /\ worker[w].d = d
  BY <1>1, HeldCounts
<1>7. \A v \in Dispatchers : v # w => worker'[v] = worker[v]
  BY OthersStay DEF Process
<1> QED
  BY <1>1, <1>2, <1>4, <1>5, <1>6, <1>7, StepCounts

(* A post is counted with its attempt, and what the receiver takes without an answer *)
(* with its fault.                                                                     *)
LEMMA SendCounts ==
  ASSUME OutboxInv, OutboxInv', RowsReach, Counted, Apart, NEW w \in Dispatchers, Send(w)
  PROVE  Counted'
<1> DEFINE d == worker[w].d
<1>0. /\ d \in Deliveries /\ accepted \in [Deliveries -> Nat] /\ posts \in [Deliveries -> Nat]
      /\ outboxFaults \in Nat
  BY HeldCounts, Naturals DEF OutboxInv, OutboxTypeOK, Send
<1>1. Alone(w, d)
  BY HeldCounts DEF Send
<1>2. /\ UNCHANGED <<delivery, replays, idled, active, replay>> /\ worker[w].pc = "send"
      /\ posts' = [posts EXCEPT ![d] = @ + 1]
  BY DEF Send
<1>3. \/ accepted' = [accepted EXCEPT ![d] = @ + 1] /\ WorkerAt(w, "delivered") /\ outboxFaults' = outboxFaults
      \/ accepted' = accepted /\ WorkerAt(w, "retry") /\ outboxFaults' = outboxFaults
      \/ accepted' = [accepted EXCEPT ![d] = @ + 1] /\ WorkerAt(w, "retry") /\ outboxFaults' = outboxFaults + 1
  BY DEF Send
<1>4. /\ worker'[w].d = d /\ worker'[w].attempts = worker[w].attempts
      /\ \/ accepted'[d] = accepted[d] + 1 /\ worker'[w].pc = "delivered" /\ outboxFaults' = outboxFaults
         \/ accepted'[d] = accepted[d] /\ worker'[w].pc = "retry" /\ outboxFaults' = outboxFaults
         \/ accepted'[d] = accepted[d] + 1 /\ worker'[w].pc = "retry" /\ outboxFaults' = outboxFaults + 1
  BY <1>0, <1>3, WorkerGoes
<1>5. /\ posts'[d] = posts[d] + 1
      /\ \A e \in Deliveries : e # d => posts'[e] = posts[e] /\ accepted'[e] = accepted[e]
  BY <1>0, <1>2, <1>3
<1>6. Taken(accepted'[d], delivery'[d].status = "delivered" \/ worker'[w].pc = "delivered", Reopening(d),
            outboxFaults' + replays)
  <2>1. /\ Taken(accepted[d], worker[w].pc = "delivered", Reopening(d), outboxFaults + replays)
        /\ accepted[d] \in Nat /\ outboxFaults \in Nat /\ replays \in Nat
        /\ delivery[d].status \in {"pending", "delivering"}
    BY <1>2, HeldCounts
  <2> QED
    BY <1>2, <1>4, <2>1 DEF Taken
<1>7. d \notin idled /\ replays = 0 =>
        Posted(delivery'[d].status = "giving_up", delivery'[d].attempts, worker'[w].attempts,
               posts'[d] + outboxFaults', worker'[w].pc)
  BY <1>2, <1>4, <1>5, HeldCounts DEF Posted
<1>8. outboxFaults' >= outboxFaults
  BY <1>0, <1>4
<1>9. \A v \in Dispatchers : v # w => worker'[v] = worker[v]
  BY OthersStay DEF Process
<1> QED
  BY <1>0, <1>2, <1>4, <1>5, <1>6, <1>7, <1>8, <1>1, <1>9, StepCounts

LEMMA MarkDeliveredCounts ==
  ASSUME OutboxInv, OutboxInv', RowsReach, Counted, Apart, NEW w \in Dispatchers, MarkDelivered(w)
  PROVE  Counted'
<1> DEFINE d == worker[w].d
<1>1. /\ UNCHANGED <<accepted, posts, replays, idled, active, outboxFaults, replay>>
      /\ worker[w].pc = "delivered" /\ Save(w, "delivered") /\ worker'[w].pc = "idle"
  BY WorkerGoes DEF MarkDelivered, counters, outboxHistory
<1>2. /\ delivery'[d].status = "delivered" /\ delivery'[d].attempts = worker[w].attempts
      /\ \A e \in Deliveries : e # d => delivery'[e] = delivery[e]
  BY <1>1, SavedCounts
<1>3. Taken(accepted'[d], delivery'[d].status = "delivered" \/ worker'[w].pc = "delivered", Reopening(d),
            outboxFaults' + replays)
  BY <1>1, <1>2, HeldCounts DEF Taken
<1>4. d \notin idled /\ replays = 0 =>
        Posted(delivery'[d].status = "giving_up", delivery'[d].attempts, worker'[w].attempts,
               posts'[d] + outboxFaults', worker'[w].pc)
  BY <1>1, <1>2, HeldCounts DEF Posted
<1>5. d \in Deliveries /\ Alone(w, d) /\ outboxFaults \in Nat /\ worker[w].d = d
  BY <1>1, HeldCounts
<1>6. \A v \in Dispatchers : v # w => worker'[v] = worker[v]
  BY OthersStay DEF Process
<1> QED
  BY <1>1, <1>2, <1>3, <1>4, <1>5, <1>6, StepCounts

LEMMA MarkGivingUpCounts ==
  ASSUME OutboxInv, OutboxInv', RowsReach, Counted, Apart, NEW w \in Dispatchers, MarkGivingUp(w)
  PROVE  Counted'
<1> DEFINE d == worker[w].d
<1>1. /\ UNCHANGED <<accepted, posts, replays, idled, active, outboxFaults, replay>>
      /\ worker[w].pc = "giveUp" /\ Save(w, "giving_up") /\ worker'[w].pc = "idle"
  BY WorkerGoes DEF MarkGivingUp, counters, outboxHistory
<1>2. /\ delivery'[d].status = "giving_up"
      /\ \A e \in Deliveries : e # d => delivery'[e] = delivery[e]
  BY <1>1, SavedCounts
<1>3. Taken(accepted'[d], delivery'[d].status = "delivered" \/ worker'[w].pc = "delivered", Reopening(d),
            outboxFaults' + replays)
  BY <1>1, <1>2, HeldCounts DEF Taken
<1>4. ~(d \notin idled /\ replays = 0)
  BY <1>1, HeldCounts DEF Posted
<1>5. d \in Deliveries /\ Alone(w, d) /\ outboxFaults \in Nat /\ worker[w].d = d
  BY <1>1, HeldCounts
<1>6. \A v \in Dispatchers : v # w => worker'[v] = worker[v]
  BY OthersStay DEF Process
<1> QED
  BY <1>1, <1>2, <1>3, <1>4, <1>5, <1>6, StepCounts

(* The schedule has run out only when an attempt more than its length was posted. *)
LEMMA ScheduleRetryCounts ==
  ASSUME OutboxInv, OutboxInv', RowsReach, Counted, Apart, NEW w \in Dispatchers, ScheduleRetry(w)
  PROVE  Counted'
<1> DEFINE d == worker[w].d
<1>1. /\ UNCHANGED <<accepted, posts, replays, idled, active, outboxFaults, replay>>
      /\ worker[w].pc = "retry"
  BY DEF ScheduleRetry, counters, outboxHistory
<1>2. \/ worker[w].attempts > Retries /\ Save(w, "giving_up") /\ worker'[w].pc = "idle"
      \/ Save(w, "pending") /\ worker'[w].pc = "enqueue" /\ worker'[w].d = d /\ worker'[w].attempts = worker[w].attempts
  BY WorkerGoes DEF ScheduleRetry
<1>3. /\ \/ worker[w].attempts > Retries /\ delivery'[d].status = "giving_up" /\ worker'[w].pc = "idle"
         \/ /\ delivery'[d].status = "pending" /\ worker'[w].pc = "enqueue" /\ worker'[w].d = d
            /\ worker'[w].attempts = worker[w].attempts
      /\ delivery'[d].attempts = worker[w].attempts
      /\ \A e \in Deliveries : e # d => delivery'[e] = delivery[e]
  BY <1>1, <1>2, SavedCounts
<1>4. Taken(accepted'[d], delivery'[d].status = "delivered" \/ worker'[w].pc = "delivered", Reopening(d),
            outboxFaults' + replays)
  BY <1>1, <1>3, HeldCounts DEF Taken
<1>5. d \notin idled /\ replays = 0 =>
        Posted(delivery'[d].status = "giving_up", delivery'[d].attempts, worker'[w].attempts,
               posts'[d] + outboxFaults', worker'[w].pc)
  BY <1>1, <1>3, HeldCounts DEF Posted
<1>6. d \in Deliveries /\ Alone(w, d) /\ outboxFaults \in Nat /\ worker[w].d = d
  BY <1>1, HeldCounts
<1>7. \A v \in Dispatchers : v # w => worker'[v] = worker[v]
  BY OthersStay DEF Process
<1> QED
  BY <1>1, <1>3, <1>4, <1>5, <1>6, <1>7, StepCounts

(* A worker that stops, by itself or dying: an attempt that was not posted has its fault. *)
LEMMA StopCounts ==
  ASSUME OutboxInv, OutboxInv', RowsReach, Counted, Apart, NEW w \in Dispatchers,
         DispatchDelayed(w) \/ WorkerDies(w) \/ MarkDeliveredFails(w)
  PROVE  Counted'
<1> DEFINE d == worker[w].d
<1>1. /\ UNCHANGED <<delivery, accepted, posts, replays, idled, active, replay>> /\ worker[w].pc # "idle"
  BY BusyWorker DEF DispatchDelayed, WorkerDies, MarkDeliveredFails, counters, outboxHistory
<1>2. \/ worker[w].pc = "enqueue" /\ worker'[w].pc = "idle" /\ outboxFaults' = outboxFaults
      \/ worker'[w].pc = "idle" /\ outboxFaults' = outboxFaults + 1
      \/ /\ worker[w].pc = "delivered" /\ worker'[w].pc = "retry" /\ worker'[w].d = d
         /\ worker'[w].attempts = worker[w].attempts /\ outboxFaults' = outboxFaults + 1
  BY WorkerGoes DEF DispatchDelayed, WorkerDies, MarkDeliveredFails, counters
<1>3. Taken(accepted'[d], delivery'[d].status = "delivered" \/ worker'[w].pc = "delivered", Reopening(d),
            outboxFaults' + replays)
  <2>1. /\ Taken(accepted[d], worker[w].pc = "delivered", Reopening(d), outboxFaults + replays)
        /\ accepted[d] \in Nat /\ outboxFaults \in Nat /\ replays \in Nat
        /\ delivery[d].status \in {"pending", "delivering"}
    BY <1>1, HeldCounts
  <2> QED
    BY <1>1, <1>2, <2>1 DEF Taken
<1>4. d \notin idled /\ replays = 0 =>
        Posted(delivery'[d].status = "giving_up", delivery'[d].attempts, worker'[w].attempts,
               posts'[d] + outboxFaults', worker'[w].pc)
  BY <1>1, <1>2, HeldCounts DEF Posted
<1>5. outboxFaults' >= outboxFaults
  BY <1>2, Naturals
<1>6. d \in Deliveries /\ Alone(w, d) /\ outboxFaults \in Nat /\ worker[w].d = d
  BY <1>1, HeldCounts
<1>7. \A v \in Dispatchers : v # w => worker'[v] = worker[v]
  BY OthersStay DEF Process
<1> QED
  BY <1>1, <1>2, <1>3, <1>4, <1>5, <1>6, <1>7, StepCounts

LEMMA CountNext ==
  OutboxInv /\ OutboxInv' /\ RowsReach /\ Apart /\ Apart' /\ Counted /\ [OutboxNext]_outboxVars => Counted'
<1> SUFFICES ASSUME OutboxInv, OutboxInv', RowsReach, Apart, Apart', Counted, [OutboxNext]_outboxVars PROVE Counted'
  OBVIOUS
<1>1. CASE UNCHANGED outboxVars
  BY <1>1, Naturals, SameRowsCount DEF outboxVars, counters, outboxHistory
<1>2. CASE HandOver
  BY <1>2, QueueCounts, ReplaySaveCounts DEF HandOver
<1>3. CASE \E w \in Dispatchers : Process(w)
  BY <1>3, MarkDeliveringCounts, CheckEndpointCounts, SendCounts, MarkDeliveredCounts, MarkGivingUpCounts,
     ScheduleRetryCounts, StopCounts DEF Process
<1>4. QED
  BY <1>1, <1>2, <1>3, AppendCounts, TakeCounts, TimeCounts, StopCounts, QueueCounts, ReplayDeliveryCounts,
     ToggleCounts DEF OutboxNext

(* Of any number of workers no two of which hold one row, a receiver sees a delivery     *)
(* again only for a fault or a replay, and a delivery is given up only after its whole     *)
(* schedule, whatever is swept in between.                                                 *)
THEOREM ApartCountsEveryTry == OutboxSpec /\ []Apart => []TriesAreCounted
<1>1. OutboxInv /\ RowsReach /\ Apart /\ [OutboxNext]_outboxVars => RowsReach'
  BY ReachNext
<1>2. OutboxInv /\ OutboxInv' /\ RowsReach /\ Apart /\ Apart' /\ Counted /\ [OutboxNext]_outboxVars => Counted'
  BY CountNext
<1>3. OutboxInv /\ Counted => TriesAreCounted
  <2> SUFFICES ASSUME OutboxInv, Counted, NEW d \in Deliveries
               PROVE  /\ accepted[d] <= 1 + outboxFaults + replays
                      /\ delivery[d].status = "giving_up" /\ d \notin idled /\ replays = 0
                           => posts[d] + outboxFaults > Retries
    BY DEF TriesAreCounted, BoundedDuplicates, FullScheduleBeforeGivingUp
  <2>1. TakenCounted(d) /\ PostsCounted(d) /\ accepted[d] \in Nat /\ outboxFaults \in Nat /\ replays \in Nat
    BY Naturals DEF Counted
  <2> QED
    BY <2>1 DEF TakenCounted, PostsCounted
<1>4. QED
  BY <1>1, <1>2, <1>3, ReachInit, CountInit, OutboxInvariance, PTL DEF OutboxSpec

(* With one worker every try is counted. *)
THEOREM EveryTryIsCounted == OneWorker => (OutboxSpec => []TriesAreCounted)
<1> SUFFICES ASSUME OneWorker PROVE OutboxSpec => []TriesAreCounted
  OBVIOUS
<1>1. Apart
  BY OneIsApart
<1>2. QED
  BY <1>1, ApartCountsEveryTry, PTL
=============================================================================
