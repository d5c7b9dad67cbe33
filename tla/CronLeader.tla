----------------------------- MODULE CronLeader -----------------------------
(***************************************************************************)
(* CronLeader.run: a cron tick works only while its connection holds the     *)
(* advisory lock of the cron's name.  PostgreSQL keeps the lock for the       *)
(* session, grants it again to the session that has it, and drops it with     *)
(* the session; the task does not notice.                                      *)
(***************************************************************************)
EXTENDS Integers

CONSTANTS
  Ticks,        \* invocations of the cron, of any replica
  Connections,  \* connections of the pools
  MaxDrops,     \* bound: connections lost and replicas crashed
  Unset         \* null

ASSUME CronLeaderAssumption == MaxDrops \in Nat /\ Unset \notin Connections

VARIABLES
  tick,   \* tick[t]: the step of run and the connection of its query runner
  lock,   \* owner and depth of the advisory lock
  dead,   \* connections lost while a query runner has them
  drops

leaderVars == <<tick, lock, dead, drops>>

Tick == [pc : {"idle", "running", "unlocking"}, conn : Connections \cup {Unset}]
Asleep == [pc |-> "idle", conn |-> Unset]
Unlocked == [owner |-> Unset, depth |-> 0]

InUse == {tick[t].conn : t \in Ticks} \ {Unset}

-----------------------------------------------------------------------------
Try(t, c) ==
  /\ tick[t] = Asleep
  /\ IF lock.owner \in {Unset, c}
     THEN /\ lock' = [owner |-> c, depth |-> lock.depth + 1]
          /\ tick' = [tick EXCEPT ![t] = [pc |-> "running", conn |-> c]]
     ELSE UNCHANGED <<tick, lock>>
  /\ UNCHANGED <<dead, drops>>

(* A query runner has a connection to itself.  pg_try_advisory_lock does not    *)
(* wait: refused, the tick gives its connection back and is over.                *)
TryLock(t) == \E c \in Connections \ InUse : Try(t, c)

(* Mutation: a task that throws skips the unlock. *)
TaskThrows(t) ==
  /\ tick[t].pc = "running"
  /\ \/ tick' = [tick EXCEPT ![t].pc = "unlocking"] /\ UNCHANGED dead
     \/ tick' = [tick EXCEPT ![t] = Asleep] /\ dead' = dead \ {tick[t].conn}
  /\ UNCHANGED <<lock, drops>>

(* The task returned or threw. *)
TaskEnds(t) ==
  /\ tick[t].pc = "running"
  /\ tick' = [tick EXCEPT ![t].pc = "unlocking"]
  /\ UNCHANGED <<lock, dead, drops>>

Unlocks(t, mine) ==
  /\ tick[t].pc = "unlocking"
  /\ lock' = IF ~mine THEN lock ELSE IF lock.depth = 1 THEN Unlocked ELSE [lock EXCEPT !.depth = @ - 1]
  /\ tick' = [tick EXCEPT ![t] = Asleep]
  /\ dead' = dead \ {tick[t].conn}
  /\ UNCHANGED drops

(* The unlock throws on a lost connection, whose place another takes in the pool. *)
Unlock(t) == Unlocks(t, lock.owner = tick[t].conn)

Freed(c) == IF lock.owner = c THEN Unlocked ELSE lock

DropConnection(c) ==
  /\ drops < MaxDrops /\ c \in InUse \ dead
  /\ drops' = drops + 1
  /\ dead' = dead \cup {c}
  /\ lock' = Freed(c)
  /\ UNCHANGED tick

CrashReplica(t) ==
  /\ drops < MaxDrops /\ tick[t] # Asleep
  /\ drops' = drops + 1
  /\ tick' = [tick EXCEPT ![t] = Asleep]
  /\ dead' = dead \ {tick[t].conn}
  /\ lock' = Freed(tick[t].conn)

-----------------------------------------------------------------------------
LeaderInit ==
  /\ tick = [t \in Ticks |-> Asleep]
  /\ lock = Unlocked /\ dead = {} /\ drops = 0

(* The steps of run but for the task. *)
Lead(t) == TryLock(t) \/ Unlock(t)

LeaderNext ==
  \/ \E t \in Ticks : Lead(t) \/ TaskEnds(t) \/ CrashReplica(t)
  \/ \E c \in Connections : DropConnection(c)

LeaderSpec == LeaderInit /\ [][LeaderNext]_leaderVars

-----------------------------------------------------------------------------
(* Properties *)

LeaderTypeOK ==
  /\ tick \in [Ticks -> Tick]
  /\ lock \in [owner : Connections \cup {Unset}, depth : Nat]
  /\ dead \subseteq Connections
  /\ drops \in 0..MaxDrops

(* One replica at a time runs the task of a cron: of two ticks that do, one    *)
(* has lost its connection, and its lock with it, without noticing.              *)
LeaderIsAlone ==
  \A t, u \in Ticks :
    tick[t].pc = "running" /\ tick[u].pc = "running" /\ t # u => {tick[t].conn, tick[u].conn} \cap dead # {}

(* The lock never outlives the run that took it, whatever the task did and     *)
(* whatever crashed: the next tick finds it free.                               *)
LockIsNotLeaked ==
  lock.owner # Unset =>
    \E t \in Ticks : tick[t].conn = lock.owner /\ tick[t].pc \in {"running", "unlocking"}

(* Both: a cron runs on one replica, and on some replica when it is next due.    *)
OneLeaderAtATime == LeaderIsAlone /\ LockIsNotLeaked
=============================================================================
