--------------------------- MODULE OutboxDelivery ---------------------------
(***************************************************************************)
(* The transactional outbox: events appended with their deliveries, the     *)
(* dispatch queue, its workers on every replica, the sweeper and the        *)
(* admin's replay.                                                          *)
(*                                                                          *)
(* Time is abstract: `due` says that a pending row's nextAttemptAt, or five *)
(* minutes since a delivering row's updatedAt, have passed.  The queue lives *)
(* in Redis, the rows in Postgres: a crash can separate any two steps.      *)
(***************************************************************************)
EXTENDS Integers, FiniteSets

CONSTANTS
  DeliveryKeys,     \* delivery keys of the events
  Endpoints,        \* webhook endpoints subscribed to every kind of event
  Internal,         \* registered internal handlers
  InternalKeys,     \* keys of the events appended with internalHandlers
  Dispatchers,      \* dispatch workers, one per replica (concurrency 1)
  Retries,          \* length of webhookRetryBackoffSeconds
  MaxJobs,          \* bound: ready jobs kept per delivery
  MaxOutboxFaults,  \* bound: crashes, lost answers, failed saves, slow workers
  MaxReplays,       \* bound: replays asked by the admin
  MaxToggles,       \* bound: changes of an endpoint's isActive
  Nowhere

ASSUME OutboxAssumption ==
  /\ Endpoints \cap Internal = {}
  /\ InternalKeys \subseteq DeliveryKeys
  /\ Retries \in Nat /\ MaxJobs \in Nat \ {0}
  /\ MaxOutboxFaults \in Nat /\ MaxReplays \in Nat /\ MaxToggles \in Nat
  /\ Nowhere \notin DeliveryKeys \X (Endpoints \cup Internal)

VARIABLES
  delivery,  \* delivery[d]: the outbox_delivery row
  appended,  \* delivery keys inserted in outbox_event
  active,    \* endpoints with isActive
  unsent,    \* deliveries a committed caller has yet to hand to the queue
  ready,     \* ready[d]: dispatch jobs waiting
  delayed,   \* retry jobs: <<d, attempts when queued>>
  worker,    \* worker[w]: the job w runs
  swept,     \* deliveries the sweeper has yet to hand to the queue
  replay,    \* the admin's request
  outboxFaults, replays, toggles,  \* counters of what is bounded
  accepted,  \* history: times the receiver took delivery d
  posts,     \* history: times d was sent
  idled      \* history: deliveries whose endpoint has been inactive

outboxVars == <<delivery, appended, active, unsent, ready, delayed, worker, swept, replay,
                outboxFaults, replays, toggles, accepted, posts, idled>>
counters == <<outboxFaults, replays, toggles>>
outboxHistory == <<accepted, posts, idled>>

-----------------------------------------------------------------------------
Targets == Endpoints \cup Internal
Deliveries == DeliveryKeys \X Targets
Ended == {"delivered", "giving_up"}

DeliveryRow == [status : {"none", "pending", "delivering", "delivered", "giving_up"},
        attempts : Nat, due : BOOLEAN]
NoDelivery == [status |-> "none", attempts |-> 0, due |-> FALSE]

WorkerState == [pc : {"idle", "mark", "check", "send", "delivered", "retry", "giveUp", "enqueue"},
                d : Deliveries \cup {Nowhere}, attempts : Nat]
IdleWorker == [pc |-> "idle", d |-> Nowhere, attempts |-> 0]

Replay == [pc : {"idle", "save", "dispatch"}, d : Deliveries \cup {Nowhere}]
NoReplay == [pc |-> "idle", d |-> Nowhere]

WorkerAt(w, pc) == worker' = [worker EXCEPT ![w].pc = pc]
WorkerReturns(w) == worker' = [worker EXCEPT ![w] = IdleWorker]

(* repository.save of the delivery w holds, with the attempts w counted. *)
Save(w, status) ==
  delivery' = [delivery EXCEPT ![worker[w].d] =
            [status |-> status, attempts |-> worker[w].attempts, due |-> FALSE]]

(* One more job for each of ds. *)
Queued(ds) == [d \in Deliveries |->
                 IF d \in ds /\ ready[d] < MaxJobs THEN ready[d] + 1 ELSE ready[d]]

-----------------------------------------------------------------------------
(* append, inside the caller's transaction *)

Fanout(key) == {key} \X (active \cup (IF key \in InternalKeys THEN Internal ELSE {}))

(* Mutation: no conflict on the delivery key, the deliveries are made again. *)
AppendAgain(key) ==
  /\ unsent = {}
  /\ appended' = appended \cup {key}
  /\ delivery' = [d \in Deliveries |-> IF d \in Fanout(key)
                                  THEN [status |-> "pending", attempts |-> 0, due |-> TRUE]
                                  ELSE delivery[d]]
  /\ unsent' = Fanout(key)
  /\ UNCHANGED <<active, ready, delayed, worker, swept, replay, counters, outboxHistory>>

(* A key already in outbox_event appends nothing. *)
AppendEvent(key) ==
  /\ key \notin appended
  /\ appended' = appended \cup {key}
  /\ delivery' = [d \in Deliveries |-> IF d \in Fanout(key)
                                  THEN [status |-> "pending", attempts |-> 0, due |-> TRUE]
                                  ELSE delivery[d]]
  /\ unsent' = unsent \cup Fanout(key)
  /\ UNCHANGED <<active, ready, delayed, worker, swept, replay, counters, outboxHistory>>

(* After the commit the caller enqueues what it appended. *)
DispatchMany(key) ==
  LET ds == {d \in unsent : d[1] = key}
  IN  /\ ds # {}
      /\ ready' = Queued(ds)
      /\ unsent' = unsent \ ds
      /\ UNCHANGED <<delivery, appended, active, delayed, worker, swept, replay, counters, outboxHistory>>

-----------------------------------------------------------------------------
(* The dispatch processor *)

(* A job leaves the queue and its row is read. *)
Take(w, d) ==
  /\ worker[w] = IdleWorker /\ ready[d] > 0
  /\ ready' = [ready EXCEPT ![d] = @ - 1]
  /\ IF delivery[d].status \in Ended
     THEN UNCHANGED worker
     ELSE worker' = [worker EXCEPT ![w] = [pc |-> "mark", d |-> d, attempts |-> delivery[d].attempts + 1]]
  /\ UNCHANGED <<delivery, appended, active, unsent, delayed, swept, replay, counters, outboxHistory>>

MarkDelivering(w) ==
  /\ worker[w].pc = "mark"
  /\ Save(w, "delivering")
  /\ WorkerAt(w, IF worker[w].d[2] \in Endpoints THEN "check" ELSE "send")
  /\ UNCHANGED <<appended, active, unsent, ready, delayed, swept, replay, counters, outboxHistory>>

CheckEndpoint(w) ==
  /\ worker[w].pc = "check"
  /\ WorkerAt(w, IF worker[w].d[2] \in active THEN "send" ELSE "giveUp")
  /\ UNCHANGED <<delivery, appended, active, unsent, ready, delayed, swept, replay, counters, outboxHistory>>

(* Mutation: any HTTP answer counts as a delivery. *)
SendTrustsAnswer(w) ==
  /\ worker[w].pc = "send"
  /\ LET d == worker[w].d
     IN  /\ posts' = [posts EXCEPT ![d] = @ + 1]
         /\ \/ accepted' = [accepted EXCEPT ![d] = @ + 1]
            \/ UNCHANGED accepted
  /\ WorkerAt(w, "delivered")
  /\ UNCHANGED <<delivery, appended, active, unsent, ready, delayed, swept, replay, counters, idled>>

(* The receiver accepts (2xx), refuses, or accepts and its answer is lost. *)
Send(w) ==
  /\ worker[w].pc = "send"
  /\ LET d == worker[w].d
     IN  /\ posts' = [posts EXCEPT ![d] = @ + 1]
         /\ \/ /\ accepted' = [accepted EXCEPT ![d] = @ + 1]
               /\ WorkerAt(w, "delivered")
               /\ UNCHANGED outboxFaults
            \/ /\ WorkerAt(w, "retry")
               /\ UNCHANGED <<accepted, outboxFaults>>
            \/ /\ outboxFaults < MaxOutboxFaults
               /\ outboxFaults' = outboxFaults + 1
               /\ accepted' = [accepted EXCEPT ![d] = @ + 1]
               /\ WorkerAt(w, "retry")
  /\ UNCHANGED <<delivery, appended, active, unsent, ready, delayed, swept, replay,
                 replays, toggles, idled>>

MarkDelivered(w) ==
  /\ worker[w].pc = "delivered"
  /\ Save(w, "delivered")
  /\ WorkerReturns(w)
  /\ UNCHANGED <<appended, active, unsent, ready, delayed, swept, replay, counters, outboxHistory>>

MarkGivingUp(w) ==
  /\ worker[w].pc = "giveUp"
  /\ Save(w, "giving_up")
  /\ WorkerReturns(w)
  /\ UNCHANGED <<appended, active, unsent, ready, delayed, swept, replay, counters, outboxHistory>>

(* Mutation: an off-by-one at the end of the schedule. *)
ScheduleRetryShort(w) ==
  /\ worker[w].pc = "retry"
  /\ IF worker[w].attempts >= Retries
     THEN Save(w, "giving_up") /\ WorkerReturns(w)
     ELSE Save(w, "pending") /\ WorkerAt(w, "enqueue")
  /\ UNCHANGED <<appended, active, unsent, ready, delayed, swept, replay, counters, outboxHistory>>

(* Mutation: an off-by-one the other way, past the end of the schedule. *)
ScheduleRetryLong(w) ==
  /\ worker[w].pc = "retry"
  /\ IF worker[w].attempts > Retries + 1
     THEN Save(w, "giving_up") /\ WorkerReturns(w)
     ELSE Save(w, "pending") /\ WorkerAt(w, "enqueue")
  /\ UNCHANGED <<appended, active, unsent, ready, delayed, swept, replay, counters, outboxHistory>>

(* schedule[attempts - 1] is the delay; none is left after Retries of them. *)
ScheduleRetry(w) ==
  /\ worker[w].pc = "retry"
  /\ IF worker[w].attempts > Retries
     THEN Save(w, "giving_up") /\ WorkerReturns(w)
     ELSE Save(w, "pending") /\ WorkerAt(w, "enqueue")
  /\ UNCHANGED <<appended, active, unsent, ready, delayed, swept, replay, counters, outboxHistory>>

DispatchDelayed(w) ==
  /\ worker[w].pc = "enqueue"
  /\ delayed' = delayed \cup {<<worker[w].d, worker[w].attempts>>}
  /\ WorkerReturns(w)
  /\ UNCHANGED <<delivery, appended, active, unsent, ready, swept, replay, counters, outboxHistory>>

-----------------------------------------------------------------------------
(* Time *)

(* nextAttemptAt passes, or updatedAt grows old under a worker that died. *)
RowFallsDue(d) ==
  /\ ~delivery[d].due
  /\ \/ delivery[d].status = "pending"
     \/ delivery[d].status = "delivering" /\ \A w \in Dispatchers : worker[w].d # d
  /\ delivery' = [delivery EXCEPT ![d].due = TRUE]
  /\ UNCHANGED <<appended, active, unsent, ready, delayed, worker, swept, replay, counters, outboxHistory>>

(* updatedAt grows old under a slow worker: nothing bounds an internal handler. *)
SlowWorker(w) ==
  /\ outboxFaults < MaxOutboxFaults
  /\ worker[w] # IdleWorker
  /\ delivery[worker[w].d].status = "delivering" /\ ~delivery[worker[w].d].due
  /\ outboxFaults' = outboxFaults + 1
  /\ delivery' = [delivery EXCEPT ![worker[w].d].due = TRUE]
  /\ UNCHANGED <<appended, active, unsent, ready, delayed, worker, swept, replay,
                 replays, toggles, outboxHistory>>

(* A delayed job is queued after its row was saved, so it is not early for it. *)
JobFallsDue(job) ==
  /\ LET d == job[1]
     IN  /\ ~(delivery[d].status = "pending" /\ delivery[d].attempts = job[2] /\ ~delivery[d].due)
         /\ ready' = Queued({d})
  /\ delayed' = delayed \ {job}
  /\ UNCHANGED <<delivery, appended, active, unsent, worker, swept, replay, counters, outboxHistory>>

-----------------------------------------------------------------------------
(* The sweeper, on the replica that holds the cron's advisory lock *)

Stuck == {d \in Deliveries : delivery[d].status \in {"pending", "delivering"} /\ delivery[d].due}

(* Mutation: deliveries of crashed workers are not reset. *)
SweepPendingOnly ==
  LET ds == {d \in Stuck : delivery[d].status = "pending"}
  IN  /\ swept = {} /\ ds # {}
      /\ swept' = ds
      /\ UNCHANGED <<delivery, appended, active, unsent, ready, delayed, worker, replay, counters, outboxHistory>>

Sweep ==
  /\ swept = {} /\ Stuck # {}
  /\ delivery' = [d \in Deliveries |-> IF d \in Stuck THEN [delivery[d] EXCEPT !.status = "pending"]
                                                 ELSE delivery[d]]
  /\ swept' = Stuck
  /\ UNCHANGED <<appended, active, unsent, ready, delayed, worker, replay, counters, outboxHistory>>

SweepDispatch ==
  /\ swept # {}
  /\ ready' = Queued(swept)
  /\ swept' = {}
  /\ UNCHANGED <<delivery, appended, active, unsent, delayed, worker, replay, counters, outboxHistory>>

-----------------------------------------------------------------------------
(* The administrator *)

ReplayDelivery(d) ==
  /\ replay.pc = "idle" /\ replays < MaxReplays
  /\ delivery[d].status \notin {"none", "delivered"}
  /\ replays' = replays + 1
  /\ replay' = [pc |-> "save", d |-> d]
  /\ UNCHANGED <<delivery, appended, active, unsent, ready, delayed, worker, swept,
                 outboxFaults, toggles, outboxHistory>>

ReplaySave ==
  /\ replay.pc = "save"
  /\ delivery' = [delivery EXCEPT ![replay.d] = [status |-> "pending", attempts |-> 0, due |-> TRUE]]
  /\ replay' = [replay EXCEPT !.pc = "dispatch"]
  /\ UNCHANGED <<appended, active, unsent, ready, delayed, worker, swept, counters, outboxHistory>>

ReplayDispatch ==
  /\ replay.pc = "dispatch"
  /\ ready' = Queued({replay.d})
  /\ replay' = NoReplay
  /\ UNCHANGED <<delivery, appended, active, unsent, delayed, worker, swept, counters, outboxHistory>>

ToggleEndpoint(e) ==
  /\ toggles < MaxToggles
  /\ toggles' = toggles + 1
  /\ active' = IF e \in active THEN active \ {e} ELSE active \cup {e}
  /\ idled' = idled \cup (DeliveryKeys \X {e})
  /\ UNCHANGED <<delivery, appended, unsent, ready, delayed, worker, swept, replay,
                 outboxFaults, replays, accepted, posts>>

-----------------------------------------------------------------------------
(* Faults *)

(* A worker dies: its job is found stalled and queued again, or is dropped. *)
WorkerDies(w) ==
  /\ outboxFaults < MaxOutboxFaults /\ worker[w] # IdleWorker
  /\ outboxFaults' = outboxFaults + 1
  /\ \/ ready' = Queued({worker[w].d})
     \/ UNCHANGED ready
  /\ WorkerReturns(w)
  /\ UNCHANGED <<delivery, appended, active, unsent, delayed, swept, replay, replays, toggles, outboxHistory>>

(* markDelivered throws inside the try that guards the post. *)
MarkDeliveredFails(w) ==
  /\ outboxFaults < MaxOutboxFaults /\ worker[w].pc = "delivered"
  /\ outboxFaults' = outboxFaults + 1
  /\ WorkerAt(w, "retry")
  /\ UNCHANGED <<delivery, appended, active, unsent, ready, delayed, swept, replay,
                 replays, toggles, outboxHistory>>

(* What was to be handed to the queue is forgotten: the process died, or Redis *)
(* refused the jobs.                                                           *)
HandOverLost ==
  /\ outboxFaults < MaxOutboxFaults
  /\ outboxFaults' = outboxFaults + 1
  /\ \/ \E key \in DeliveryKeys : /\ \E d \in unsent : d[1] = key
                          /\ unsent' = {d \in unsent : d[1] # key}
                          /\ UNCHANGED <<swept, replay>>
     \/ swept # {} /\ swept' = {} /\ UNCHANGED <<unsent, replay>>
     \/ replay.pc # "idle" /\ replay' = NoReplay /\ UNCHANGED <<unsent, swept>>
  /\ UNCHANGED <<delivery, appended, active, ready, delayed, worker, replays, toggles, outboxHistory>>

-----------------------------------------------------------------------------
OutboxInit ==
  /\ delivery = [d \in Deliveries |-> NoDelivery]
  /\ appended = {} /\ unsent = {} /\ delayed = {} /\ swept = {} /\ idled = {}
  /\ active = Endpoints
  /\ ready = [d \in Deliveries |-> 0]
  /\ worker = [w \in Dispatchers |-> IdleWorker]
  /\ replay = NoReplay
  /\ outboxFaults = 0 /\ replays = 0 /\ toggles = 0
  /\ accepted = [d \in Deliveries |-> 0]
  /\ posts = [d \in Deliveries |-> 0]

Process(w) ==
  \/ MarkDelivering(w) \/ CheckEndpoint(w) \/ Send(w) \/ MarkDelivered(w)
  \/ MarkGivingUp(w) \/ ScheduleRetry(w) \/ DispatchDelayed(w)

HandOver ==
  \/ \E key \in DeliveryKeys : DispatchMany(key)
  \/ SweepDispatch
  \/ ReplaySave \/ ReplayDispatch

OutboxNext ==
  \/ \E key \in DeliveryKeys : AppendEvent(key)
  \/ HandOver
  \/ \E w \in Dispatchers, d \in Deliveries : Take(w, d)
  \/ \E w \in Dispatchers : Process(w) \/ SlowWorker(w) \/ WorkerDies(w) \/ MarkDeliveredFails(w)
  \/ \E d \in Deliveries : RowFallsDue(d)
  \/ \E job \in delayed : JobFallsDue(job)
  \/ Sweep
  \/ \E d \in Deliveries : ReplayDelivery(d)
  \/ \E e \in Endpoints : ToggleEndpoint(e)
  \/ HandOverLost

OutboxSpec == OutboxInit /\ [][OutboxNext]_outboxVars

(* Requests and jobs run to their end, the queue hands out its jobs, time      *)
(* passes and the sweeper ticks.  Nobody is obliged to append or to replay.    *)
OutboxFairness ==
  /\ \A w \in Dispatchers : WF_outboxVars(Process(w))
  /\ \A d \in Deliveries : /\ WF_outboxVars(\E w \in Dispatchers : Take(w, d))
                           /\ WF_outboxVars(RowFallsDue(d))
  /\ WF_outboxVars(Sweep) /\ WF_outboxVars(SweepDispatch)

FairOutboxSpec == OutboxSpec /\ OutboxFairness

-----------------------------------------------------------------------------
(* Properties *)

OutboxTypeOK ==
  /\ delivery \in [Deliveries -> DeliveryRow]
  /\ appended \subseteq DeliveryKeys /\ active \subseteq Endpoints
  /\ unsent \subseteq Deliveries /\ swept \subseteq Deliveries /\ idled \subseteq Deliveries
  /\ ready \in [Deliveries -> 0..MaxJobs]
  /\ \A job \in delayed : job[1] \in Deliveries /\ job[2] \in 1..Retries
  /\ worker \in [Dispatchers -> WorkerState]
  /\ replay \in Replay
  /\ outboxFaults \in 0..MaxOutboxFaults /\ replays \in 0..MaxReplays /\ toggles \in 0..MaxToggles
  /\ accepted \in [Deliveries -> Nat] /\ posts \in [Deliveries -> Nat]

(* A delivery marked delivered was accepted by its receiver, whatever workers, *)
(* sweeps and replays overwrote its row in between (markDelivered is reached    *)
(* from a 2xx only).                                                            *)
DeliveredWasAccepted ==
  \A d \in Deliveries : delivery[d].status = "delivered" => accepted[d] > 0

(* With one worker a receiver sees a delivery again only for a lost answer, a  *)
(* crash, a failed save or a replay: the sweeper and the queue add no others.   *)
BoundedDuplicates ==
  \A d \in Deliveries : accepted[d] <= 1 + outboxFaults + replays

(* With one worker a delivery nobody replayed, whose endpoint stayed active,   *)
(* is given up only after the whole backoff schedule, faults aside.             *)
FullScheduleBeforeGivingUp ==
  \A d \in Deliveries :
    delivery[d].status = "giving_up" /\ d \notin idled /\ replays = 0
      => posts[d] + outboxFaults > Retries

(* Every attempt is accounted for: none more than the faults explain, none less  *)
(* than the schedule says.                                                        *)
TriesAreCounted == BoundedDuplicates /\ FullScheduleBeforeGivingUp

(* What the outbox promises its receivers, which one worker implements. *)
State == [d \in Deliveries |->
            CASE delivery[d].status = "none"      -> "none"
              [] delivery[d].status = "delivered" -> "delivered"
              [] delivery[d].status = "giving_up" -> "abandoned"
              [] OTHER                       -> "owed"]

Asked == IF replay.pc = "save" THEN {replay.d} ELSE {}

Promise == INSTANCE AtLeastOnce WITH state <- State, taken <- accepted, asked <- Asked

(* The outbox keeps its promise to a receiver: what is delivered was taken, what is     *)
(* owed stays owed until it is delivered or abandoned, and only a replay reopens it.     *)
ImplementsAtLeastOnce == Promise!Spec

(* No delivery is stranded: with any number of workers, a finite number of     *)
(* crashes, and any hand-over to the queue lost, a pending or delivering row    *)
(* is eventually delivered or given up (the sweeper's two cases).               *)
Settles ==
  \A d \in Deliveries :
    delivery[d].status \in {"pending", "delivering"} ~> delivery[d].status \in Ended
=============================================================================
