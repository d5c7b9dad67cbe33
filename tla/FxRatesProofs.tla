---------------------------- MODULE FxRatesProofs ----------------------------
(***************************************************************************)
(* The crons have one leader and leave the lock as they found it, for any    *)
(* number of replicas, connections and losses; the refreshes of the rates     *)
(* are runs of such a cron; and a fallback's rate means that the sources      *)
(* before it did not answer, for any list of sources.                         *)
(***************************************************************************)
EXTENDS FxRates, TLAPS

(* The lock follows the connections: a tick that works has a connection of its *)
(* own, and as long as that is not lost it is the owner of the lock, which      *)
(* nobody else has and which is taken once.                                      *)
IdleHasNone == \A t \in Ticks : tick[t].pc = "idle" <=> tick[t].conn = Unset
OwnConnection == \A t, u \in Ticks : t # u /\ tick[t].conn # Unset => tick[t].conn # tick[u].conn
TakenOnce == IF lock.owner = Unset THEN lock.depth = 0 ELSE lock.depth = 1
HeldWhileAlive == \A t \in Ticks : tick[t].conn \notin dead \cup {Unset} => lock.owner = tick[t].conn
HeldByARun == lock.owner # Unset => \E t \in Ticks : tick[t].conn = lock.owner
DeadAreInUse == /\ \A c \in dead : \E t \in Ticks : tick[t].conn = c
                /\ lock.owner \notin dead

LeaderInv ==
  /\ LeaderTypeOK /\ IdleHasNone /\ OwnConnection /\ TakenOnce
  /\ HeldWhileAlive /\ HeldByARun /\ DeadAreInUse

LEMMA LeaderInitInv == LeaderInit => LeaderInv
BY CronLeaderAssumption, SMT
   DEF LeaderInit, LeaderInv, LeaderTypeOK, IdleHasNone, OwnConnection, TakenOnce, HeldWhileAlive,
       HeldByARun, DeadAreInUse, Asleep, Unlocked, Tick

(* A tick that is turned away changes nothing; one that takes the lock finds it *)
(* free, its connection being in nobody's use.                                   *)
LEMMA TryLockInv ==
  ASSUME LeaderInv, NEW t \in Ticks, TryLock(t)
  PROVE  LeaderInv'
<1>1. PICK c \in Connections \ InUse : Try(t, c)
  BY DEF TryLock
<1>2. c # Unset /\ c \notin dead /\ lock.owner # c /\ \A u \in Ticks : tick[u].conn # c
  BY <1>1, CronLeaderAssumption, SMT DEF LeaderInv, HeldByARun, DeadAreInUse, InUse
<1>3. CASE lock.owner # Unset
  <2>1. UNCHANGED leaderVars
    BY <1>1, <1>2, <1>3 DEF Try, leaderVars
  <2>2. QED
    BY <2>1, SMT DEF leaderVars, LeaderInv, LeaderTypeOK, IdleHasNone, OwnConnection, TakenOnce,
       HeldWhileAlive, HeldByARun, DeadAreInUse
<1>4. CASE lock.owner = Unset
  <2>1. /\ lock' = [owner |-> c, depth |-> 1]
        /\ tick' = [tick EXCEPT ![t] = [pc |-> "running", conn |-> c]]
        /\ dead' = dead /\ drops' = drops
        /\ tick[t].conn = Unset
    BY <1>1, <1>4, SMT DEF Try, LeaderInv, TakenOnce, Asleep
  <2>2. \A u \in Ticks : tick[u].conn \in dead \cup {Unset}
    BY <1>4, SMT DEF LeaderInv, HeldWhileAlive
  <2>3. LeaderTypeOK'
    BY <2>1, SMT DEF LeaderInv, LeaderTypeOK, Tick
  <2>4. IdleHasNone' /\ OwnConnection' /\ TakenOnce' /\ HeldByARun'
    BY <1>2, <2>1, CronLeaderAssumption, SMT
       DEF LeaderInv, LeaderTypeOK, Tick, IdleHasNone, OwnConnection, TakenOnce, HeldByARun
  <2>5. HeldWhileAlive' /\ DeadAreInUse'
    BY <1>2, <2>1, <2>2, CronLeaderAssumption, SMT
       DEF LeaderInv, LeaderTypeOK, Tick, HeldWhileAlive, DeadAreInUse
  <2>6. QED
    BY <2>3, <2>4, <2>5 DEF LeaderInv
<1>5. QED
  BY <1>3, <1>4

LEMMA TaskEndsInv ==
  ASSUME LeaderInv, NEW t \in Ticks, TaskEnds(t)
  PROVE  LeaderInv'
<1>1. /\ tick' \in [Ticks -> Tick]
      /\ tick'[t].pc = "unlocking" /\ \A u \in Ticks : u # t => tick'[u] = tick[u]
      /\ \A u \in Ticks : tick'[u].conn = tick[u].conn
      /\ lock' = lock /\ dead' = dead /\ drops' = drops
  BY SMT DEF LeaderInv, LeaderTypeOK, Tick, TaskEnds
<1>2. tick[t].conn # Unset
  BY SMT DEF LeaderInv, LeaderTypeOK, Tick, IdleHasNone, TaskEnds
<1>3. QED
  BY <1>1, <1>2, SMT DEF LeaderInv, LeaderTypeOK, IdleHasNone, OwnConnection, TakenOnce, HeldWhileAlive,
     HeldByARun, DeadAreInUse

(* What is left when a tick gives its connection back, or dies with it: the lock *)
(* if it was not its own, and the connections of the others.                       *)
LEMMA ReturnInv ==
  ASSUME LeaderInv, NEW t \in Ticks,
         tick' = [tick EXCEPT ![t] = Asleep],
         dead' = dead \ {tick[t].conn},
         lock' = IF lock.owner = tick[t].conn THEN Unlocked ELSE lock,
         drops' \in 0..MaxDrops
  PROVE  LeaderInv'
<1>1. /\ tick'[t] = Asleep /\ \A u \in Ticks : u # t => tick'[u] = tick[u]
      /\ tick' \in [Ticks -> Tick]
  BY SMT DEF LeaderInv, LeaderTypeOK, Tick, Asleep
<1>2. LeaderTypeOK'
  BY <1>1, SMT DEF LeaderInv, LeaderTypeOK, Unlocked
<1>3. IdleHasNone' /\ OwnConnection' /\ TakenOnce'
  BY <1>1, SMT DEF LeaderInv, IdleHasNone, OwnConnection, TakenOnce, Asleep, Unlocked
<1>4. HeldWhileAlive' /\ HeldByARun'
  BY <1>1, SMT DEF LeaderInv, OwnConnection, HeldWhileAlive, HeldByARun, Asleep, Unlocked
<1>5. DeadAreInUse'
  BY <1>1, CronLeaderAssumption, SMT DEF LeaderInv, LeaderTypeOK, DeadAreInUse, Asleep, Unlocked
<1>6. QED
  BY <1>2, <1>3, <1>4, <1>5 DEF LeaderInv

LEMMA UnlockInv ==
  ASSUME LeaderInv, NEW t \in Ticks, Unlock(t)
  PROVE  LeaderInv'
<1>1. tick[t].conn # Unset
  BY SMT DEF LeaderInv, IdleHasNone, Unlock, Unlocks
<1>2. /\ tick' = [tick EXCEPT ![t] = Asleep]
      /\ dead' = dead \ {tick[t].conn}
      /\ lock' = IF lock.owner = tick[t].conn THEN Unlocked ELSE lock
      /\ drops' \in 0..MaxDrops
  BY <1>1, SMT DEF LeaderInv, LeaderTypeOK, TakenOnce, Unlock, Unlocks
<1>3. QED
  BY <1>2, ReturnInv

LEMMA CrashReplicaInv ==
  ASSUME LeaderInv, NEW t \in Ticks, CrashReplica(t)
  PROVE  LeaderInv'
<1>1. /\ tick' = [tick EXCEPT ![t] = Asleep]
      /\ dead' = dead \ {tick[t].conn}
      /\ lock' = IF lock.owner = tick[t].conn THEN Unlocked ELSE lock
      /\ drops' \in 0..MaxDrops
  BY CronLeaderAssumption, SMT DEF LeaderInv, LeaderTypeOK, CrashReplica, Freed
<1>2. QED
  BY <1>1, ReturnInv

LEMMA DropConnectionInv ==
  ASSUME LeaderInv, NEW c \in Connections, DropConnection(c)
  PROVE  LeaderInv'
<1>1. /\ c \in InUse \ dead /\ drops' \in 0..MaxDrops
      /\ dead' = dead \cup {c} /\ tick' = tick
      /\ lock' = IF lock.owner = c THEN Unlocked ELSE lock
  BY CronLeaderAssumption, SMT DEF LeaderInv, LeaderTypeOK, DropConnection, Freed
<1>2. LeaderTypeOK' /\ IdleHasNone' /\ OwnConnection' /\ TakenOnce'
  BY <1>1, SMT DEF LeaderInv, LeaderTypeOK, IdleHasNone, OwnConnection, TakenOnce, Unlocked
<1>3. HeldWhileAlive' /\ HeldByARun' /\ DeadAreInUse'
  BY <1>1, CronLeaderAssumption, SMT
     DEF LeaderInv, LeaderTypeOK, HeldWhileAlive, HeldByARun, DeadAreInUse, Unlocked, InUse
<1>4. QED
  BY <1>2, <1>3 DEF LeaderInv

LEMMA LeaderStepInv == LeaderInv /\ [LeaderNext]_leaderVars => LeaderInv'
<1> SUFFICES ASSUME LeaderInv, [LeaderNext]_leaderVars PROVE LeaderInv'
  OBVIOUS
<1>1. CASE UNCHANGED leaderVars
  BY <1>1, SMT DEF leaderVars, LeaderInv, LeaderTypeOK, IdleHasNone, OwnConnection, TakenOnce,
     HeldWhileAlive, HeldByARun, DeadAreInUse
<1>2. CASE \E t \in Ticks : TryLock(t)
  BY <1>2, TryLockInv
<1>3. CASE \E t \in Ticks : Unlock(t)
  BY <1>3, UnlockInv
<1>4. CASE \E t \in Ticks : TaskEnds(t)
  BY <1>4, TaskEndsInv
<1>5. CASE \E t \in Ticks : CrashReplica(t)
  BY <1>5, CrashReplicaInv
<1>6. CASE \E c \in Connections : DropConnection(c)
  BY <1>6, DropConnectionInv
<1>7. QED
  BY <1>1, <1>2, <1>3, <1>4, <1>5, <1>6 DEF LeaderNext, Lead

LEMMA LeaderInvHolds == LeaderInv => OneLeaderAtATime
<1> SUFFICES ASSUME LeaderInv PROVE LeaderIsAlone /\ LockIsNotLeaked
  BY DEF OneLeaderAtATime
<1>1. LeaderIsAlone
  BY SMT DEF LeaderInv, LeaderIsAlone, IdleHasNone, OwnConnection, HeldWhileAlive
<1>2. LockIsNotLeaked
  BY SMT DEF LeaderInv, LeaderTypeOK, Tick, LockIsNotLeaked, IdleHasNone, HeldByARun
<1>3. QED
  BY <1>1, <1>2

(* For any number of replicas, connections and losses, two ticks of a cron run   *)
(* its task at once only if one has lost its connection, and the lock is held     *)
(* only by a tick that works.                                                      *)
THEOREM OneLeader == LeaderSpec => []OneLeaderAtATime
<1>1. LeaderInit => LeaderInv
  BY LeaderInitInv
<1>2. LeaderInv /\ [LeaderNext]_leaderVars => LeaderInv'
  BY LeaderStepInv
<1>3. QED
  BY <1>1, <1>2, LeaderInvHolds, PTL DEF LeaderSpec

-----------------------------------------------------------------------------
(* A refresh of the rates takes the steps of a tick, and no other on its state. *)
LEMMA FxStepIsLeaderStep == [FxNext]_fxVars => [LeaderNext]_leaderVars
<1> SUFFICES ASSUME [FxNext]_fxVars PROVE [LeaderNext]_leaderVars
  OBVIOUS
<1>1. CASE UNCHANGED fxVars
  BY <1>1 DEF fxVars, leaderVars
<1>2. CASE Leadership
  BY <1>2 DEF Leadership, LeaderNext
<1>3. CASE NewDay
  BY <1>3 DEF NewDay
<1>4. ASSUME NEW r \in Refreshes, EndRefresh(r) PROVE [LeaderNext]_leaderVars
  BY <1>4 DEF EndRefresh, LeaderNext
<1>5. ASSUME NEW r \in Refreshes,
             BeginRefresh(r) \/ Answer(r) \/ NoAnswer(r) \/ FindRow(r) \/ SaveRow(r) \/ DatabaseFails(r)
      PROVE  [LeaderNext]_leaderVars
  BY <1>5 DEF BeginRefresh, Answer, NoAnswer, FindRow, SaveRow, DatabaseFails
<1>6. QED
  BY <1>1, <1>2, <1>3, <1>4, <1>5 DEF FxNext

(* The cron of the rates implements CronLeader: whatever is proved of a tick      *)
(* holds of it.                                                                    *)
THEOREM CronImplementsLeader == FxSpec => LeaderSpec
<1>1. FxInit => LeaderInit
  BY DEF FxInit
<1>2. QED
  BY <1>1, FxStepIsLeaderStep, PTL DEF FxSpec, LeaderSpec

(* Hence the cron that refreshes the rates has one leader. *)
THEOREM OneRefreshingCron == FxSpec => []OneLeaderAtATime
BY CronImplementsLeader, OneLeader, PTL

-----------------------------------------------------------------------------
(* Where a refresh stands: two under way know of each other; one alone has no     *)
(* answer from the sources before the one it asks, and its find is still true.     *)
Apart == \A r, s \in Busy : r # s => r \in overlapped
Position == \A r \in Busy : refresh[r].next \in 1..Len(Sources)
AllMissed == \A r \in Busy \ overlapped : {Sources[j] : j \in 1..(refresh[r].next - 1)} \subseteq refresh[r].missed
Quoted == \A r \in Refreshes : refresh[r].pc \in {"find", "save"} =>
            refresh[r].quote \in Quote /\ refresh[r].quote.source = Sources[refresh[r].next]
FoundIsTrue == \A r \in Refreshes \ overlapped :
                 refresh[r].pc = "save" => refresh[r].found = fxRow[refresh[r].quote.date].stored

Fetching == Apart /\ Position /\ AllMissed /\ Quoted /\ FoundIsTrue

FxInv == LeaderInv /\ FxTypeOK /\ Fetching /\ FallbackMeansNoAnswer

(* Sources and days are there to be asked and found. *)
LEMMA SourcesAreThere ==
  /\ Len(Sources) \in Nat \ {0}
  /\ \A i \in 1..Len(Sources) : Sources[i] \in SourceSet
BY FxRatesAssumption, SMT DEF SourceSet

LEMMA RestingIsARefresh == Resting \in Refresh
BY SourcesAreThere, SMT DEF Resting, Refresh

LEMMA FxInitInv == FxInit => FxInv
<1> SUFFICES ASSUME FxInit PROVE FxInv
  OBVIOUS
<1>1. LeaderInv
  BY LeaderInitInv DEF FxInit
<1>2. \A r \in Refreshes : refresh[r] = Resting
  BY DEF FxInit
<1>3. FxTypeOK
  BY <1>1, FxRatesAssumption, RestingIsARefresh, SMT DEF FxInit, FxTypeOK, LeaderInv, Days
<1>4. Busy = {}
  BY <1>2, SMT DEF Busy, Resting
<1>5. Fetching
  BY <1>2, <1>4, SMT DEF Fetching, Apart, Position, AllMissed, Quoted, FoundIsTrue, Resting
<1>6. FallbackMeansNoAnswer
  BY SMT DEF FxInit, FallbackMeansNoAnswer, NoRow
<1>7. QED
  BY <1>1, <1>3, <1>5, <1>6 DEF FxInv

(* The refresh of one, the rows and the history of the others being what they     *)
(* were: what remains to show of a step is about that refresh.                     *)
LEMMA OneRefreshMoves ==
  ASSUME FxInv, LeaderInv', NEW r \in Refreshes, NEW next \in Refresh,
         refresh' = [refresh EXCEPT ![r] = next],
         r \in Busy \/ next.pc \notin {"fetch", "find", "save"},
         UNCHANGED fxRow,
         today' \in Days, fetched' \in 0..MaxFetch, fxFaults' \in 0..MaxFaults,
         overlapped' \subseteq Refreshes, overlapped \subseteq overlapped',
         next.pc \in {"fetch", "find", "save"} => next.next \in 1..Len(Sources),
         next.pc \in {"fetch", "find", "save"} /\ r \notin overlapped' =>
           {Sources[j] : j \in 1..(next.next - 1)} \subseteq next.missed,
         next.pc \in {"find", "save"} => next.quote \in Quote /\ next.quote.source = Sources[next.next],
         next.pc = "save" /\ r \notin overlapped' => next.found = fxRow[next.quote.date].stored
  PROVE  FxInv'
<1>1. refresh'[r] = next /\ \A s \in Refreshes : s # r => refresh'[s] = refresh[s]
  BY SMT DEF FxInv, FxTypeOK
<1>2. FxTypeOK'
  BY SMT DEF FxInv, FxTypeOK, LeaderInv
<1>3. Busy' \subseteq Busy /\ (r \in Busy' => next.pc \in {"fetch", "find", "save"})
  BY <1>1, SMT DEF Busy
<1>4. Apart'
  BY <1>3, SMT DEF FxInv, Fetching, Apart
<1>5. Position'
  BY <1>1, <1>3, SMT DEF FxInv, Fetching, Position
<1>6. AllMissed'
  <2> SUFFICES ASSUME NEW s \in Busy' \ overlapped'
               PROVE  {Sources[j] : j \in 1..(refresh'[s].next - 1)} \subseteq refresh'[s].missed
    BY DEF AllMissed
  <2>1. CASE s = r
    BY <1>1, <1>3, <2>1
  <2>2. CASE s # r
    <3>1. s \in Refreshes /\ s \in Busy \ overlapped
      BY <1>3, SMT DEF Busy
    <3>2. refresh'[s] = refresh[s]
      BY <1>1, <2>2, <3>1
    <3>3. QED
      BY <3>1, <3>2 DEF FxInv, Fetching, AllMissed
  <2>3. QED
    BY <2>1, <2>2
<1>7. Quoted'
  BY <1>1, SMT DEF FxInv, Fetching, Quoted
<1>8. FoundIsTrue'
  BY <1>1, SMT DEF FxInv, Fetching, FoundIsTrue
<1>9. FallbackMeansNoAnswer'
  BY DEF FxInv, FallbackMeansNoAnswer
<1>10. QED
  BY <1>2, <1>4, <1>5, <1>6, <1>7, <1>8, <1>9 DEF FxInv, Fetching

(* Asking the next source: none before it is left out, if the one asked last is    *)
(* among the missing or the refresh is known to have met another.                   *)
LEMMA AskNextInv ==
  ASSUME FxInv, LeaderInv', NEW r \in Busy, NEW missed \in SUBSET SourceSet, AskNext(r, missed),
         UNCHANGED <<today, fxRow, fetched>>, fxFaults' \in 0..MaxFaults,
         overlapped' \in {overlapped, overlapped \cup {r}},
         r \in overlapped' \/ missed = refresh[r].missed \cup {Sources[refresh[r].next]}
  PROVE  FxInv'
<1> DEFINE next == [pc |-> IF refresh[r].next < Len(Sources) THEN "fetch" ELSE "done",
                    next |-> refresh[r].next + 1, quote |-> Unset, found |-> FALSE, missed |-> missed]
<1>1. r \in Refreshes /\ refresh[r].next \in 1..Len(Sources)
  BY SMT DEF FxInv, Fetching, Position, Busy
<1>2. next \in Refresh
  BY <1>1, SourcesAreThere, SMT DEF Refresh
<1>3. refresh' = [refresh EXCEPT ![r] = next]
  BY DEF AskNext
<1>4. r \notin overlapped' => {Sources[j] : j \in 1..(next.next - 1)} \subseteq next.missed
  <2> SUFFICES ASSUME r \notin overlapped', NEW j \in 1..refresh[r].next PROVE Sources[j] \in missed
    BY <1>1, SMT
  <2>1. r \in Busy \ overlapped /\ missed = refresh[r].missed \cup {Sources[refresh[r].next]}
    OBVIOUS
  <2>2. CASE j = refresh[r].next
    BY <2>1, <2>2
  <2>3. CASE j # refresh[r].next
    <3>1. j \in 1..(refresh[r].next - 1)
      BY <1>1, <2>3, SMT
    <3>2. QED
      BY <2>1, <3>1 DEF FxInv, Fetching, AllMissed
  <2>4. QED
    BY <2>2, <2>3
<1>5. next.pc \in {"fetch", "done"} /\ (next.pc = "fetch" => next.next \in 1..Len(Sources))
  BY <1>1, SourcesAreThere, SMT
<1>6. today' \in Days /\ fetched' \in 0..MaxFetch /\ overlapped' \subseteq Refreshes /\ overlapped \subseteq overlapped'
  BY <1>1 DEF FxInv, FxTypeOK
<1>7. QED
  BY <1>1, <1>2, <1>3, <1>4, <1>5, <1>6, OneRefreshMoves

LEMMA LeaderStays ==
  ASSUME FxInv, [FxNext]_fxVars
  PROVE  LeaderInv'
BY LeaderStepInv, FxStepIsLeaderStep DEF FxInv

(* The source asked is one of the list. *)
LEMMA AskedSource ==
  ASSUME FxInv, NEW r \in Busy
  PROVE  r \in Refreshes /\ refresh[r] \in Refresh /\ Sources[refresh[r].next] \in SourceSet
BY SourcesAreThere, SMT DEF FxInv, FxTypeOK, Fetching, Position, Busy

LEMMA NoAnswerInv ==
  ASSUME FxInv, LeaderInv', NEW r \in Refreshes, NoAnswer(r)
  PROVE  FxInv'
<1>1. r \in Busy
  BY SMT DEF NoAnswer, Busy
<1>2. refresh[r].missed \cup {Sources[refresh[r].next]} \in SUBSET SourceSet
  BY <1>1, AskedSource, SMT DEF Refresh
<1>3. fxFaults' \in 0..MaxFaults
  BY DEF FxInv, FxTypeOK, NoAnswer
<1>4. QED
  BY <1>1, <1>2, <1>3, AskNextInv DEF NoAnswer

LEMMA DatabaseFailsInv ==
  ASSUME FxInv, LeaderInv', NEW r \in Refreshes, DatabaseFails(r)
  PROVE  FxInv'
<1>1. r \in Busy
  BY SMT DEF DatabaseFails, Busy
<1>2. refresh[r].missed \in SUBSET SourceSet
  BY <1>1, AskedSource, SMT DEF Refresh
<1>3. fxFaults' \in 0..MaxFaults
  BY FxRatesAssumption, SMT DEF FxInv, FxTypeOK, DatabaseFails
<1>4. QED
  BY <1>1, <1>2, <1>3, AskNextInv DEF DatabaseFails

LEMMA BeginRefreshInv ==
  ASSUME FxInv, LeaderInv', NEW r \in Refreshes, BeginRefresh(r)
  PROVE  FxInv'
<1>1. /\ refresh[r] = Resting /\ refresh'[r] = [Resting EXCEPT !.pc = "fetch"]
      /\ \A s \in Refreshes : s # r => refresh'[s] = refresh[s]
      /\ UNCHANGED <<today, fxRow, fetched, fxFaults>>
      /\ overlapped' = (overlapped \ {r}) \cup (IF Busy = {} THEN {} ELSE Busy \cup {r})
  BY SMT DEF BeginRefresh, FxInv, FxTypeOK
<1>2. refresh'[r].pc = "fetch" /\ refresh'[r].next = 1 /\ refresh'[r] \in Refresh
  <2>1. refresh'[r] = [pc |-> "fetch", next |-> 1, quote |-> Unset, found |-> FALSE, missed |-> {}]
    BY <1>1 DEF Resting
  <2>2. QED
    BY <2>1, SourcesAreThere, SMT DEF Refresh
<1>3. FxTypeOK'
  <2>1. refresh' \in [Refreshes -> Refresh]
    BY <1>1, <1>2, SMT DEF BeginRefresh, FxInv, FxTypeOK
  <2>2. overlapped' \subseteq Refreshes
    BY <1>1 DEF FxInv, FxTypeOK, Busy
  <2>3. QED
    BY <1>1, <2>1, <2>2 DEF FxInv, FxTypeOK, LeaderInv
<1>4. r \notin Busy /\ Busy' = Busy \cup {r}
  BY <1>1, <1>2, SMT DEF Busy, Resting
<1>5. \A s \in Refreshes : s # r /\ s \in overlapped => s \in overlapped'
  BY <1>1
<1>6. Apart'
  BY <1>1, <1>4, SMT DEF FxInv, Fetching, Apart
<1>7. Position'
  <2> SUFFICES ASSUME NEW s \in Busy' PROVE refresh'[s].next \in 1..Len(Sources)
    BY DEF Position
  <2>1. CASE s = r
    BY <1>2, <2>1, SourcesAreThere, SMT
  <2>2. CASE s # r
    BY <1>1, <1>4, <2>2 DEF FxInv, Fetching, Position, Busy
  <2>3. QED
    BY <2>1, <2>2
<1>8. AllMissed'
  <2> SUFFICES ASSUME NEW s \in Busy' \ overlapped'
               PROVE  {Sources[j] : j \in 1..(refresh'[s].next - 1)} \subseteq refresh'[s].missed
    BY DEF AllMissed
  <2>1. CASE s = r
    BY <1>2, <2>1, SMT
  <2>2. CASE s # r
    <3>1. s \in Busy \ overlapped /\ s \in Refreshes
      BY <1>4, <1>5, <2>2 DEF Busy
    <3>2. refresh'[s] = refresh[s]
      BY <1>1, <2>2, <3>1
    <3>3. QED
      BY <3>1, <3>2 DEF FxInv, Fetching, AllMissed
  <2>3. QED
    BY <2>1, <2>2
<1>9. Quoted' /\ FoundIsTrue'
  <2>1. Quoted'
    <3> SUFFICES ASSUME NEW s \in Refreshes, refresh'[s].pc \in {"find", "save"}
                 PROVE  /\ refresh'[s].quote \in Quote
                        /\ refresh'[s].quote.source = Sources[refresh'[s].next]
      BY DEF Quoted
    <3>1. refresh'[s] = refresh[s]
      BY <1>1, <1>2
    <3>2. QED
      BY <3>1 DEF FxInv, Fetching, Quoted
  <2> SUFFICES ASSUME NEW s \in Refreshes \ overlapped', refresh'[s].pc = "save"
               PROVE  refresh'[s].found = fxRow'[refresh'[s].quote.date].stored
    BY <2>1 DEF FoundIsTrue
  <2>2. s # r
    BY <1>2
  <2>3. refresh'[s] = refresh[s] /\ s \notin overlapped
    BY <1>1, <1>5, <2>2
  <2>4. QED
    BY <1>1, <2>3 DEF FxInv, Fetching, FoundIsTrue
<1>10. FallbackMeansNoAnswer'
  BY <1>1 DEF FxInv, FallbackMeansNoAnswer
<1>11. QED
  BY <1>3, <1>6, <1>7, <1>8, <1>9, <1>10 DEF FxInv, Fetching

(* A refresh that goes on to find the row of a quote, and then to save it. *)
LEMMA RefreshFinds ==
  ASSUME NEW q \in Refresh, NEW quote \in Quote
  PROVE  LET n == [q EXCEPT !.pc = "find", !.quote = quote]
         IN  /\ n \in Refresh /\ n.pc = "find" /\ n.quote = quote
             /\ n.next = q.next /\ n.missed = q.missed
<1>1. \A p \in Refresh :
        LET n == [p EXCEPT !.pc = "find"]
        IN  n \in Refresh /\ n.pc = "find" /\ n.next = p.next /\ n.missed = p.missed
  BY SMT DEF Refresh
<1>2. \A p \in Refresh :
        LET n == [p EXCEPT !.quote = quote]
        IN  n \in Refresh /\ n.quote = quote /\ n.pc = p.pc /\ n.next = p.next /\ n.missed = p.missed
  BY SMT DEF Refresh
<1>3. [q EXCEPT !.pc = "find", !.quote = quote] = [[q EXCEPT !.pc = "find"] EXCEPT !.quote = quote]
  BY SMT DEF Refresh
<1>4. QED
  BY <1>1, <1>2, <1>3, Zenon

LEMMA RefreshSaves ==
  ASSUME NEW q \in Refresh, NEW found \in BOOLEAN
  PROVE  LET n == [q EXCEPT !.pc = "save", !.found = found]
         IN  /\ n \in Refresh /\ n.pc = "save" /\ n.found = found
             /\ n.next = q.next /\ n.missed = q.missed /\ n.quote = q.quote
<1>1. \A p \in Refresh :
        LET n == [p EXCEPT !.pc = "save"]
        IN  n \in Refresh /\ n.pc = "save" /\ n.next = p.next /\ n.missed = p.missed /\ n.quote = p.quote
  BY SMT DEF Refresh
<1>2. \A p \in Refresh :
        LET n == [p EXCEPT !.found = found]
        IN  /\ n \in Refresh /\ n.found = found
            /\ n.pc = p.pc /\ n.next = p.next /\ n.missed = p.missed /\ n.quote = p.quote
  BY SMT DEF Refresh
<1>3. [q EXCEPT !.pc = "save", !.found = found] = [[q EXCEPT !.pc = "save"] EXCEPT !.found = found]
  BY SMT DEF Refresh
<1>4. QED
  BY <1>1, <1>2, <1>3, Zenon

(* The answer is the quote of the source asked. *)
LEMMA AnswerInv ==
  ASSUME FxInv, LeaderInv', NEW r \in Refreshes, Answer(r)
  PROVE  FxInv'
<1> DEFINE source == Sources[refresh[r].next]
<1>1. r \in Busy /\ refresh[r].pc = "fetch"
  BY SMT DEF Answer, Busy
<1>2. fetched' = fetched + 1 /\ fetched' \in 1..MaxFetch
  BY FxRatesAssumption, SMT DEF Answer, FxInv, FxTypeOK
<1>3. PICK day \in (IF source = Official THEN 1..today ELSE {today}) :
        refresh' = [refresh EXCEPT ![r] = [@ EXCEPT !.pc = "find",
                      !.quote = [source |-> source, date |-> day, fetchedAt |-> fetched']]]
  BY DEF Answer
<1> DEFINE quote == [source |-> source, date |-> day, fetchedAt |-> fetched']
           next == [refresh[r] EXCEPT !.pc = "find", !.quote = quote]
<1>4. day \in Days
  BY FxRatesAssumption, SMT DEF FxInv, FxTypeOK, Days
<1>5. refresh[r] \in Refresh /\ source \in SourceSet
  BY <1>1, AskedSource
<1>6. quote \in Quote /\ quote.source = source
  BY <1>2, <1>4, <1>5 DEF Quote
<1>7. /\ next \in Refresh /\ next.pc = "find" /\ next.quote = quote
      /\ next.next = refresh[r].next /\ next.missed = refresh[r].missed
  <2> HIDE DEF quote
  <2> QED
    BY <1>5, <1>6, RefreshFinds, Zenon
<1>8. refresh' = [refresh EXCEPT ![r] = next]
  BY <1>3
<1>9. UNCHANGED <<today, fxRow, fxFaults, overlapped>>
  BY DEF Answer
<1> HIDE DEF next, quote
<1>10. next.next \in 1..Len(Sources)
  BY <1>1, <1>7 DEF FxInv, Fetching, Position
<1>11. r \notin overlapped => {Sources[j] : j \in 1..(next.next - 1)} \subseteq next.missed
  BY <1>1, <1>7 DEF FxInv, Fetching, AllMissed
<1>12. today' \in Days /\ fetched' \in 0..MaxFetch /\ fxFaults' \in 0..MaxFaults /\ overlapped' \subseteq Refreshes
  BY <1>2, <1>9, SMT DEF FxInv, FxTypeOK
<1>13. next.quote \in Quote /\ next.quote.source = Sources[next.next]
  BY <1>6, <1>7
<1>14. QED
  BY <1>1, <1>7, <1>8, <1>9, <1>10, <1>11, <1>12, <1>13, OneRefreshMoves

LEMMA FindRowInv ==
  ASSUME FxInv, LeaderInv', NEW r \in Refreshes, FindRow(r)
  PROVE  FxInv'
<1> DEFINE found == fxRow[refresh[r].quote.date].stored
           next == [refresh[r] EXCEPT !.pc = "save", !.found = found]
<1>1. r \in Busy /\ refresh[r].pc = "find"
  BY SMT DEF FindRow, Busy
<1>2. refresh[r] \in Refresh /\ refresh[r].quote \in Quote /\ refresh[r].quote.source = Sources[refresh[r].next]
  BY <1>1, AskedSource DEF FxInv, Fetching, Quoted
<1>3. found \in BOOLEAN
  <2>1. fxRow[refresh[r].quote.date] \in RateRow \cup {NoRow}
    BY <1>2, SMT DEF FxInv, FxTypeOK, Quote
  <2>2. \A row \in RateRow : row.stored \in {TRUE}
    BY Zenon DEF RateRow
  <2>3. NoRow.stored = FALSE
    BY DEF NoRow
  <2>4. QED
    BY <2>1, <2>2, <2>3
<1>4. /\ next \in Refresh /\ next.pc = "save" /\ next.found = found
      /\ next.next = refresh[r].next /\ next.missed = refresh[r].missed /\ next.quote = refresh[r].quote
  <2> HIDE DEF found
  <2> QED
    BY <1>2, <1>3, RefreshSaves, Zenon
<1>5. refresh' = [refresh EXCEPT ![r] = next]
  BY DEF FindRow
<1>6. UNCHANGED <<today, fxRow, fetched, fxFaults, overlapped>>
  BY DEF FindRow
<1> HIDE DEF next
<1>7. next.next \in 1..Len(Sources)
  BY <1>1, <1>4 DEF FxInv, Fetching, Position
<1>8. r \notin overlapped => {Sources[j] : j \in 1..(next.next - 1)} \subseteq next.missed
  BY <1>1, <1>4 DEF FxInv, Fetching, AllMissed
<1>9. today' \in Days /\ fetched' \in 0..MaxFetch /\ fxFaults' \in 0..MaxFaults /\ overlapped' \subseteq Refreshes
  BY <1>6 DEF FxInv, FxTypeOK
<1>10. next.quote \in Quote /\ next.quote.source = Sources[next.next]
  BY <1>2, <1>4
<1>11. next.found = fxRow[next.quote.date].stored
  BY <1>4
<1>12. QED
  BY <1>1, <1>4, <1>5, <1>6, <1>7, <1>8, <1>9, <1>10, <1>11, OneRefreshMoves

(* A refresh ends, or dies with its replica. *)
LEMMA RestInv ==
  ASSUME FxInv, LeaderInv', NEW r \in Refreshes,
         refresh' = [refresh EXCEPT ![r] = Resting],
         UNCHANGED <<today, fxRow, fetched, fxFaults, overlapped>>
  PROVE  FxInv'
<1>1. Resting.pc = "idle" /\ Resting \in Refresh
  BY RestingIsARefresh DEF Resting
<1>2. today' \in Days /\ fetched' \in 0..MaxFetch /\ fxFaults' \in 0..MaxFaults /\ overlapped' \subseteq Refreshes
  BY DEF FxInv, FxTypeOK
<1>3. QED
  BY <1>1, <1>2, OneRefreshMoves

(* What leaves the refreshes and the rows alone. *)
LEMMA QuietInv ==
  ASSUME FxInv, LeaderInv', UNCHANGED <<refresh, fxRow, fetched, fxFaults, overlapped>>, today' \in Days
  PROVE  FxInv'
<1>1. FxTypeOK'
  BY DEF FxInv, FxTypeOK, LeaderInv
<1>2. Fetching' /\ FallbackMeansNoAnswer'
  BY DEF FxInv, Fetching, Apart, Position, AllMissed, Quoted, FoundIsTrue, Busy, FallbackMeansNoAnswer
<1>3. QED
  BY <1>1, <1>2 DEF FxInv

(* A rate is stored by the refresh it was fetched in; one that lost the race for   *)
(* the day goes on, and knows of the other.                                         *)
LEMMA SaveRowInv ==
  ASSUME FxInv, LeaderInv', NEW r \in Refreshes, SaveRow(r)
  PROVE  FxInv'
<1> DEFINE d == refresh[r].quote.date
<1>1. r \in Busy /\ refresh[r].pc = "save"
  BY SMT DEF SaveRow, Busy
<1>2. refresh[r] \in Refresh /\ refresh[r].quote \in Quote /\ refresh[r].quote.source = Sources[refresh[r].next]
  BY <1>1, AskedSource DEF FxInv, Fetching, Quoted
<1>3. refresh[r].missed \in SUBSET SourceSet /\ d \in Days
  BY <1>2 DEF Refresh, Quote
<1>4. UNCHANGED <<today, fetched, fxFaults, overlapped>>
  BY DEF SaveRow
<1>5. CASE fxRow[d].stored /\ ~refresh[r].found
  <2>1. AskNext(r, refresh[r].missed) /\ UNCHANGED fxRow
    BY <1>5 DEF SaveRow
  <2>2. r \in overlapped
    BY <1>1, <1>5 DEF FxInv, Fetching, FoundIsTrue
  <2>3. fxFaults' \in 0..MaxFaults
    BY <1>4 DEF FxInv, FxTypeOK
  <2>4. QED
    BY <1>1, <1>3, <1>4, <2>1, <2>2, <2>3, AskNextInv
<1>6. CASE ~(fxRow[d].stored /\ ~refresh[r].found)
  <2>1. fxRow' = [fxRow EXCEPT ![d] = RateOf(r)] /\ refresh' = [refresh EXCEPT ![r].pc = "done"]
    BY <1>6 DEF SaveRow
  <2>2. RateOf(r) \in RateRow
    BY <1>2, <1>3 DEF RateOf, RateRow, Quote
  <2>3. /\ refresh' \in [Refreshes -> Refresh] /\ refresh'[r].pc = "done"
        /\ \A s \in Refreshes : s # r => refresh'[s] = refresh[s]
    BY <1>2, <2>1, SMT DEF FxInv, FxTypeOK, Refresh
  <2>4. /\ fxRow' \in [Days -> RateRow \cup {NoRow}] /\ fxRow'[d] = RateOf(r)
        /\ \A e \in Days : e # d => fxRow'[e] = fxRow[e]
    BY <1>3, <2>1, <2>2 DEF FxInv, FxTypeOK
  <2>5. FxTypeOK'
    BY <1>4, <2>3, <2>4 DEF FxInv, FxTypeOK, LeaderInv
  <2>6. Busy' = Busy \ {r}
    BY <2>3, SMT DEF Busy
  <2>7. \A s \in Busy' : s \in Refreshes /\ s \in Busy /\ refresh'[s] = refresh[s] /\ s \in overlapped
    BY <1>1, <2>3, <2>6 DEF FxInv, Fetching, Apart, Busy
  <2>8. Apart' /\ Position' /\ AllMissed'
    BY <1>4, <2>7 DEF FxInv, Fetching, Apart, Position, AllMissed
  <2>9. Quoted'
    BY <2>3 DEF FxInv, Fetching, Quoted
  <2>10. FoundIsTrue'
    BY <1>4, <2>7 DEF FoundIsTrue, Busy
  <2>11. FallbackMeansNoAnswer'
    <3> SUFFICES ASSUME NEW e \in Days, fxRow'[e].stored, fxRow'[e].alone
                 PROVE  \E i \in 1..Len(Sources) :
                          /\ Sources[i] = fxRow'[e].source
                          /\ {Sources[j] : j \in 1..(i - 1)} \subseteq fxRow'[e].missed
      BY DEF FallbackMeansNoAnswer
    <3>1. CASE e # d
      BY <2>4, <3>1 DEF FxInv, FallbackMeansNoAnswer
    <3>2. CASE e = d
      <4>1. /\ fxRow'[e].source = Sources[refresh[r].next] /\ fxRow'[e].missed = refresh[r].missed
            /\ r \notin overlapped
        <5>1. /\ RateOf(r).source = refresh[r].quote.source /\ RateOf(r).missed = refresh[r].missed
              /\ RateOf(r).alone = (r \notin overlapped)
          BY DEF RateOf
        <5>2. QED
          BY <1>2, <2>4, <3>2, <5>1
      <4>2. refresh[r].next \in 1..Len(Sources)
        BY <1>1 DEF FxInv, Fetching, Position
      <4>3. {Sources[j] : j \in 1..(refresh[r].next - 1)} \subseteq refresh[r].missed
        BY <1>1, <4>1 DEF FxInv, Fetching, AllMissed
      <4>4. QED
        BY <4>1, <4>2, <4>3
    <3>3. QED
      BY <3>1, <3>2
  <2>12. QED
    BY <2>5, <2>8, <2>9, <2>10, <2>11 DEF FxInv, Fetching
<1>7. QED
  BY <1>5, <1>6

LEMMA FxStepInv == FxInv /\ [FxNext]_fxVars => FxInv'
<1> SUFFICES ASSUME FxInv, [FxNext]_fxVars PROVE FxInv'
  OBVIOUS
<1>1. LeaderInv'
  BY LeaderStays
<1>2. CASE UNCHANGED fxVars \/ NewDay
  <2>1. UNCHANGED <<refresh, fxRow, fetched, fxFaults, overlapped>> /\ today' \in Days
    BY <1>2, FxRatesAssumption, SMT DEF fxVars, NewDay, FxInv, FxTypeOK, Days
  <2>2. QED
    BY <1>1, <2>1, QuietInv
<1>3. CASE Leadership /\ UNCHANGED <<today, fxRow, fetched, fxFaults, overlapped>>
  <2>1. today' \in Days
    BY <1>3 DEF FxInv, FxTypeOK
  <2>2. CASE UNCHANGED refresh
    BY <1>1, <1>3, <2>1, <2>2, QuietInv
  <2>3. ASSUME NEW t \in Ticks, refresh' = [refresh EXCEPT ![t] = Resting] PROVE FxInv'
    BY <1>1, <1>3, <2>3, RestInv DEF Refreshes
  <2>4. QED
    BY <1>3, <2>2, <2>3 DEF Leadership
<1>4. ASSUME NEW r \in Refreshes, EndRefresh(r) PROVE FxInv'
  BY <1>1, <1>4, RestInv DEF EndRefresh
<1>5. ASSUME NEW r \in Refreshes,
             BeginRefresh(r) \/ Answer(r) \/ NoAnswer(r) \/ FindRow(r) \/ SaveRow(r) \/ DatabaseFails(r)
      PROVE  FxInv'
  BY <1>1, <1>5, BeginRefreshInv, AnswerInv, NoAnswerInv, FindRowInv, SaveRowInv, DatabaseFailsInv
<1>6. QED
  BY <1>2, <1>3, <1>4, <1>5 DEF FxNext

(* Whatever the list of sources and whoever refreshes at the same time, the rate   *)
(* a lone refresh stores is of the first source that answered it.                   *)
THEOREM FallbacksAreFallbacks == FxSpec => []FallbackMeansNoAnswer
<1>1. FxInit => FxInv
  BY FxInitInv
<1>2. FxInv /\ [FxNext]_fxVars => FxInv'
  BY FxStepInv
<1>3. FxInv => FallbackMeansNoAnswer
  BY DEF FxInv
<1>4. QED
  BY <1>1, <1>2, <1>3, PTL DEF FxSpec

(* Rows and refreshes are typed in every reachable state. *)
THEOREM FxTypeCorrect == FxSpec => []FxTypeOK
BY FxInitInv, FxStepInv, PTL DEF FxSpec, FxInv

-----------------------------------------------------------------------------
(* The quote of a refresh that runs alone is newer than every rate there is. *)
Newest ==
  /\ \A d \in Days : fxRow[d].stored => fxRow[d].fetchedAt <= fetched
  /\ \A r \in Refreshes : refresh[r].pc \in {"find", "save"} => refresh[r].quote.fetchedAt <= fetched
  /\ \A r \in Refreshes \ overlapped : refresh[r].pc \in {"find", "save"} =>
       \A d \in Days : fxRow[d].stored => fxRow[d].fetchedAt < refresh[r].quote.fetchedAt

(* A step that stores nothing and asks for no new quote keeps what is newest. *)
LEMMA NewestKept ==
  ASSUME Newest, UNCHANGED <<fxRow, fetched>>,
         \A r \in Refreshes : refresh'[r].pc \in {"find", "save"} =>
           /\ refresh[r].pc \in {"find", "save"} /\ refresh'[r].quote = refresh[r].quote
           /\ r \in overlapped => r \in overlapped'
  PROVE  Newest'
BY Zenon DEF Newest

LEMMA NewestAnswer ==
  ASSUME FxInv, Newest, NEW r \in Refreshes, Answer(r)
  PROVE  Newest'
<1>1. PICK q \in Quote : q.fetchedAt = fetched + 1 /\ refresh'[r].quote = q
  <2>1. r \in Busy
    BY SMT DEF Answer, Busy
  <2>2. Sources[refresh[r].next] \in SourceSet /\ refresh[r] \in Refresh
    BY <2>1, AskedSource
  <2>3. PICK day \in (IF Sources[refresh[r].next] = Official THEN 1..today ELSE {today}) :
          refresh' = [refresh EXCEPT ![r] = [@ EXCEPT !.pc = "find",
            !.quote = [source |-> Sources[refresh[r].next], date |-> day, fetchedAt |-> fetched']]]
    BY DEF Answer
  <2>4. day \in Days /\ fetched' = fetched + 1 /\ fetched' \in 1..MaxFetch
    BY FxRatesAssumption, SMT DEF FxInv, FxTypeOK, Days, Answer
  <2> DEFINE q == [source |-> Sources[refresh[r].next], date |-> day, fetchedAt |-> fetched']
  <2>5. q \in Quote /\ q.fetchedAt = fetched + 1
    BY <2>2, <2>4 DEF Quote
  <2> HIDE DEF q
  <2>6. refresh'[r] = [refresh[r] EXCEPT !.pc = "find", !.quote = q]
    BY <2>3 DEF q, FxInv, FxTypeOK
  <2>7. refresh'[r].quote = q
    <3>1. [refresh[r] EXCEPT !.pc = "find", !.quote = q].quote = q
      BY <2>2, <2>5, RefreshFinds, Zenon
    <3>2. QED
      BY <2>6, <3>1
  <2>8. QED
    BY <2>5, <2>7
<1>2. \A s \in Refreshes : s # r => refresh'[s] = refresh[s]
  BY DEF Answer, FxInv, FxTypeOK
<1>3. UNCHANGED <<fxRow, overlapped>> /\ fetched' = fetched + 1 /\ fetched \in Nat
  BY FxRatesAssumption, SMT DEF Answer, FxInv, FxTypeOK
<1>4. \A d \in Days : fxRow[d].stored => fxRow[d].fetchedAt \in Nat
  <2>1. \A row \in RateRow : row.fetchedAt \in 1..MaxFetch
    BY SMT DEF RateRow
  <2>2. NoRow.stored = FALSE
    BY DEF NoRow
  <2>3. QED
    BY <2>1, <2>2, FxRatesAssumption, SMT DEF FxInv, FxTypeOK
<1>5. \A s \in Refreshes : refresh[s].pc \in {"find", "save"} => refresh[s].quote.fetchedAt \in Nat
  BY FxRatesAssumption, SMT DEF FxInv, Fetching, Quoted, Quote
<1>6. QED
  BY <1>1, <1>2, <1>3, <1>4, <1>5, SMTT(30) DEF Newest

(* What SaveRow does: it goes on to the next source, or replaces one row, by the   *)
(* rate the refresh carries.                                                       *)
LEMMA SaveRowCases ==
  ASSUME FxInv, NEW r \in Refreshes, SaveRow(r)
  PROVE  /\ r \in Busy /\ refresh[r].pc = "save" /\ refresh[r].quote \in Quote
         /\ UNCHANGED <<fetched, overlapped>>
         /\ refresh'[r].pc \in {"fetch", "done"} /\ \A s \in Refreshes : s # r => refresh'[s] = refresh[s]
         /\ \/ UNCHANGED fxRow
            \/ /\ fxRow'[refresh[r].quote.date] = RateOf(r)
               /\ \A e \in Days : e # refresh[r].quote.date => fxRow'[e] = fxRow[e]
<1>1. r \in Busy /\ refresh[r].pc = "save" /\ refresh[r].quote \in Quote
  BY SMT DEF SaveRow, Busy, FxInv, Fetching, Quoted
<1>2. refresh[r].quote.date \in Days
  BY <1>1 DEF Quote
<1>3. CASE fxRow[refresh[r].quote.date].stored /\ ~refresh[r].found
  BY <1>1, <1>3, SMT DEF SaveRow, AskNext, FxInv, FxTypeOK
<1>4. CASE ~(fxRow[refresh[r].quote.date].stored /\ ~refresh[r].found)
  <2>1. fxRow' = [fxRow EXCEPT ![refresh[r].quote.date] = RateOf(r)] /\ refresh' = [refresh EXCEPT ![r].pc = "done"]
    BY <1>4 DEF SaveRow
  <2>2. /\ fxRow'[refresh[r].quote.date] = RateOf(r)
        /\ \A e \in Days : e # refresh[r].quote.date => fxRow'[e] = fxRow[e]
    BY <1>2, <2>1 DEF FxInv, FxTypeOK
  <2>3. refresh'[r].pc = "done" /\ \A s \in Refreshes : s # r => refresh'[s] = refresh[s]
    BY <2>1, SMT DEF FxInv, FxTypeOK, Refresh
  <2>4. QED
    BY <1>1, <2>2, <2>3 DEF SaveRow
<1>5. QED
  BY <1>3, <1>4

(* A rate of the day is replaced, by a refresh that ran alone, by a newer one. *)
LEMMA SaveRowForward ==
  ASSUME FxInv, Newest, NEW r \in Refreshes, SaveRow(r)
  PROVE  /\ Newest'
         /\ \A e \in Days : fxRow[e].stored => fxRow'[e].stored
         /\ \A e \in Days : fxRow[e].stored /\ fxRow'[e] # fxRow[e] /\ fxRow'[e].alone
              => fxRow'[e].fetchedAt > fxRow[e].fetchedAt
         /\ UNCHANGED fxRow \/ \E d \in Days : fxRow'[d].stored /\ \A e \in Days : e # d => fxRow'[e] = fxRow[e]
<1> DEFINE d == refresh[r].quote.date
<1>1. /\ r \in Busy /\ refresh[r].pc = "save" /\ refresh[r].quote \in Quote
      /\ UNCHANGED <<fetched, overlapped>>
      /\ refresh'[r].pc \in {"fetch", "done"} /\ \A s \in Refreshes : s # r => refresh'[s] = refresh[s]
      /\ \/ UNCHANGED fxRow
         \/ fxRow'[d] = RateOf(r) /\ \A e \in Days : e # d => fxRow'[e] = fxRow[e]
  BY SaveRowCases
<1>2. /\ RateOf(r).stored /\ RateOf(r).fetchedAt = refresh[r].quote.fetchedAt
      /\ RateOf(r).alone = (r \notin overlapped)
  BY DEF RateOf
<1>3. d \in Days
  BY <1>1 DEF Quote
<1>4. CASE UNCHANGED fxRow
  <2>1. \A s \in Refreshes : refresh'[s].pc \in {"find", "save"} =>
           /\ refresh[s].pc \in {"find", "save"} /\ refresh'[s].quote = refresh[s].quote
           /\ s \in overlapped => s \in overlapped'
    BY <1>1
  <2>2. QED
    BY <1>1, <1>4, <2>1, NewestKept
<1>5. CASE fxRow'[d] = RateOf(r) /\ \A e \in Days : e # d => fxRow'[e] = fxRow[e]
  <2>1. \A s \in Refreshes : s # r /\ refresh'[s].pc \in {"find", "save"} => s \in overlapped
    BY <1>1 DEF FxInv, Fetching, Apart, Busy
  <2>2. refresh[r].quote.fetchedAt <= fetched
    BY <1>1 DEF Newest
  <2>3. \A e \in Days : fxRow'[e].stored => fxRow'[e].fetchedAt <= fetched'
    BY <1>1, <1>2, <1>5, <2>2 DEF Newest
  <2>4. Newest'
    BY <1>1, <2>1, <2>3 DEF Newest
  <2>5. \A e \in Days : fxRow[e].stored /\ fxRow'[e] # fxRow[e] /\ fxRow'[e].alone
          => fxRow'[e].fetchedAt > fxRow[e].fetchedAt
    <3> SUFFICES ASSUME NEW e \in Days, fxRow[e].stored, fxRow'[e] # fxRow[e], fxRow'[e].alone
                 PROVE  fxRow[e].fetchedAt < fxRow'[e].fetchedAt
      OBVIOUS
    <3>1. e = d /\ r \notin overlapped
      BY <1>2, <1>5
    <3>2. fxRow[e].fetchedAt < refresh[r].quote.fetchedAt
      BY <1>1, <3>1 DEF Newest
    <3>3. QED
      BY <1>2, <1>5, <3>1, <3>2
  <2>6. QED
    BY <1>2, <1>3, <1>5, <2>4, <2>5
<1>6. QED
  BY <1>1, <1>4, <1>5

LEMMA NewestInv == FxInv /\ Newest /\ [FxNext]_fxVars => Newest'
<1> SUFFICES ASSUME FxInv, Newest, [FxNext]_fxVars PROVE Newest'
  OBVIOUS
<1>1. CASE UNCHANGED fxVars \/ NewDay
  BY <1>1, NewestKept DEF fxVars, NewDay
<1>2. CASE Leadership /\ UNCHANGED <<today, fxRow, fetched, fxFaults, overlapped>>
  <2>1. CASE UNCHANGED refresh
    BY <1>2, <2>1, NewestKept
  <2>2. ASSUME NEW t \in Ticks, refresh' = [refresh EXCEPT ![t] = Resting] PROVE Newest'
    <3>1. refresh'[t] = Resting /\ \A s \in Refreshes : s # t => refresh'[s] = refresh[s]
      BY <2>2 DEF Refreshes, FxInv, FxTypeOK
    <3>2. QED
      BY <1>2, <3>1, NewestKept DEF Resting
  <2>3. QED
    BY <1>2, <2>1, <2>2 DEF Leadership
<1>3. ASSUME NEW r \in Refreshes, EndRefresh(r) PROVE Newest'
  <2>1. refresh'[r] = Resting /\ \A s \in Refreshes : s # r => refresh'[s] = refresh[s]
    BY <1>3 DEF EndRefresh, FxInv, FxTypeOK
  <2>2. QED
    BY <1>3, <2>1, NewestKept DEF Resting, EndRefresh
<1>4. ASSUME NEW r \in Refreshes, NoAnswer(r) \/ DatabaseFails(r) PROVE Newest'
  <2>1. refresh'[r].pc \in {"fetch", "done"} /\ \A s \in Refreshes : s # r => refresh'[s] = refresh[s]
    BY <1>4, SMT DEF NoAnswer, DatabaseFails, AskNext, FxInv, FxTypeOK
  <2>2. QED
    BY <1>4, <2>1, NewestKept DEF NoAnswer, DatabaseFails
<1>5. ASSUME NEW r \in Refreshes, BeginRefresh(r) PROVE Newest'
  <2>1. refresh'[r].pc = "fetch" /\ \A s \in Refreshes : s # r => refresh'[s] = refresh[s]
    BY <1>5, SMT DEF BeginRefresh, FxInv, FxTypeOK, Refresh
  <2>2. \A s \in Refreshes : s # r /\ s \in overlapped => s \in overlapped'
    BY <1>5 DEF BeginRefresh
  <2>3. QED
    BY <1>5, <2>1, <2>2, NewestKept DEF BeginRefresh
<1>6. ASSUME NEW r \in Refreshes, FindRow(r) PROVE Newest'
  <2>1. r \in Busy /\ refresh[r].pc = "find" /\ refresh[r] \in Refresh
    BY <1>6, AskedSource, SMT DEF FindRow, Busy
  <2>2. refresh'[r] = [refresh[r] EXCEPT !.pc = "save", !.found = fxRow[refresh[r].quote.date].stored]
    BY <1>6 DEF FindRow, FxInv, FxTypeOK
  <2>3. refresh'[r].quote = refresh[r].quote
    BY <2>1, <2>2, SMT DEF Refresh
  <2>4. \A s \in Refreshes : s # r => refresh'[s] = refresh[s]
    BY <1>6 DEF FindRow, FxInv, FxTypeOK
  <2>5. QED
    BY <1>6, <2>1, <2>3, <2>4, NewestKept DEF FindRow
<1>7. ASSUME NEW r \in Refreshes, Answer(r) PROVE Newest'
  BY <1>7, NewestAnswer
<1>8. ASSUME NEW r \in Refreshes, SaveRow(r) PROVE Newest'
  BY <1>8, SaveRowForward
<1>9. QED
  BY <1>1, <1>2, <1>3, <1>4, <1>5, <1>6, <1>7, <1>8 DEF FxNext

(* Any other step keeps the rows. *)
LEMMA RowsStay ==
  ASSUME [FxNext]_fxVars, ~ \E r \in Refreshes : SaveRow(r)
  PROVE  UNCHANGED fxRow
BY DEF fxVars, FxNext, NewDay, BeginRefresh, Answer, NoAnswer, FindRow, DatabaseFails, EndRefresh

Forward ==
  /\ \A d \in Latest, e \in Latest' : d <= e
  /\ Latest # {} => Latest' # {}
  /\ \A d \in Days : fxRow[d].stored /\ fxRow'[d] # fxRow[d] /\ fxRow'[d].alone
       => fxRow'[d].fetchedAt > fxRow[d].fetchedAt

LEMMA StepForward == FxInv /\ Newest /\ [FxNext]_fxVars => Forward
<1> SUFFICES ASSUME FxInv, Newest, [FxNext]_fxVars PROVE Forward
  OBVIOUS
<1>1. CASE UNCHANGED fxRow
  <2>1. Latest' = Latest
    BY <1>1 DEF Latest
  <2>2. \A d, e \in Latest : d <= e
    BY SMT DEF Latest, Days
  <2>3. QED
    BY <1>1, <2>1, <2>2 DEF Forward
<1>2. ASSUME NEW r \in Refreshes, SaveRow(r) PROVE Forward
  <2>1. /\ \A e \in Days : fxRow[e].stored => fxRow'[e].stored
        /\ \A e \in Days : fxRow[e].stored /\ fxRow'[e] # fxRow[e] /\ fxRow'[e].alone
              => fxRow'[e].fetchedAt > fxRow[e].fetchedAt
        /\ UNCHANGED fxRow \/ \E d \in Days : fxRow'[d].stored /\ \A e \in Days : e # d => fxRow'[e] = fxRow[e]
    BY <1>2, SaveRowForward
  <2>2. CASE UNCHANGED fxRow
    BY <1>1, <2>2
  <2>3. ASSUME NEW d \in Days, fxRow'[d].stored, \A e \in Days : e # d => fxRow'[e] = fxRow[e] PROVE Forward
    <3>1. \A m \in Latest, n \in Latest' : m <= n
      BY <2>1 DEF Latest
    <3>2. ASSUME NEW m \in Latest PROVE Latest' # {}
      <4>1. m \in Days /\ fxRow'[m].stored /\ \A e \in Days : fxRow[e].stored => e <= m
        BY <2>1, <3>2 DEF Latest
      <4>2. CASE d <= m
        <5>1. \A e \in Days : fxRow'[e].stored => e <= m
          BY <2>3, <4>1, <4>2
        <5>2. m \in Latest'
          BY <4>1, <5>1 DEF Latest
        <5>3. QED
          BY <5>2
      <4>3. CASE ~(d <= m)
        <5>1. \A e \in Days : fxRow'[e].stored => e <= d
          BY <2>3, <4>1, <4>3, FxRatesAssumption, SMT DEF Days
        <5>2. d \in Latest'
          BY <2>3, <5>1 DEF Latest
        <5>3. QED
          BY <5>2
      <4>4. QED
        BY <4>2, <4>3
    <3>3. QED
      BY <2>1, <3>1, <3>2 DEF Forward
  <2>4. QED
    BY <2>1, <2>2, <2>3
<1>3. QED
  BY <1>1, <1>2, RowsStay

(* The day of the rate in use never goes back, nor does a lone refresh replace a   *)
(* rate by one fetched before it, whatever the others do.                          *)
THEOREM RatesGoForward == FxSpec => RatesMoveForward
<1>1. FxInit => FxInv /\ Newest
  BY FxInitInv DEF FxInit, Newest, NoRow, Resting
<1>2. FxInv /\ Newest /\ [FxNext]_fxVars => FxInv' /\ Newest'
  BY FxStepInv, NewestInv
<1>3. FxInv /\ Newest /\ [FxNext]_fxVars =>
        [ /\ \A d \in Latest, e \in Latest' : d <= e
          /\ Latest # {} => Latest' # {}
          /\ \A d \in Days : fxRow[d].stored /\ fxRow'[d] # fxRow[d] /\ fxRow'[d].alone
               => fxRow'[d].fetchedAt > fxRow[d].fetchedAt ]_fxVars
  BY StepForward DEF Forward
<1>4. QED
  BY <1>1, <1>2, <1>3, PTL DEF FxSpec, RatesMoveForward
=============================================================================
