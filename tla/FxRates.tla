------------------------------ MODULE FxRates ------------------------------
(***************************************************************************)
(* FxFetcherService, FxRatesCron and the repository of rates, for one of the *)
(* two currencies: they are refreshed side by side and share no row.          *)
(*                                                                           *)
(* A refresh asks the sources in turn until one answers and its rate is       *)
(* stored; the cron refreshes as the leader, an administrator at any time.     *)
(***************************************************************************)
EXTENDS CronLeader, Sequences

CONSTANTS
  Sources,    \* the primary source, then its fallbacks
  Adapters,   \* the sources there is an adapter for
  Official,   \* the source that dates a rate itself (DolarApi)
  Manual,     \* refreshes asked for by an administrator
  MaxDay, MaxFetch, MaxFaults  \* bounds: days, answers, failures of the database

ASSUME FxRatesAssumption ==
  /\ Sources \in Seq(STRING) \ {<<>>} /\ Adapters \subseteq STRING /\ Official \in STRING
  /\ Manual \cap Ticks = {} /\ MaxDay \in Nat \ {0} /\ MaxFetch \in Nat /\ MaxFaults \in Nat

VARIABLES
  today,            \* the day in Caracas
  fxRow,            \* fxRow[d]: the row of day d
  refresh,          \* refresh[r]: the fetch r is in
  fetched,          \* answers so far, the clock of fetchedAt
  fxFaults,
  overlapped        \* history: refreshes that ran while another did, or met a failure

fxVars == <<tick, lock, dead, drops, today, fxRow, refresh, fetched, fxFaults, overlapped>>

Days == 1..MaxDay
Refreshes == Ticks \cup Manual
SourceSet == {Sources[i] : i \in 1..Len(Sources)}

(* `missed`: the sources that gave no answer to the refresh that wrote the row. *)
Quote == [source : SourceSet, date : Days, fetchedAt : 1..MaxFetch]
NoRow == [stored |-> FALSE]
RateRow == [stored : {TRUE}, source : SourceSet, fetchedAt : 1..MaxFetch, missed : SUBSET SourceSet,
        alone : BOOLEAN]
Refresh == [pc : {"idle", "fetch", "find", "save", "done"}, next : 1..Len(Sources) + 1,
            quote : Quote \cup {Unset}, found : BOOLEAN, missed : SUBSET SourceSet]
Resting == [pc |-> "idle", next |-> 1, quote |-> Unset, found |-> FALSE, missed |-> {}]

Busy == {r \in Refreshes : refresh[r].pc \in {"fetch", "find", "save"}}

(* Mutation: the latest rate is the one fetched last. *)
LatestFetched == {d \in Days : fxRow[d].stored /\ \A e \in Days : fxRow[e].stored => fxRow[e].fetchedAt <= fxRow[d].fetchedAt}

(* findLatest: the day whose rate invoices are issued with. *)
Latest == {d \in Days : fxRow[d].stored /\ \A e \in Days : fxRow[e].stored => e <= d}

AskNext(r, missed) ==
  refresh' = [refresh EXCEPT ![r] =
    [pc |-> IF refresh[r].next < Len(Sources) THEN "fetch" ELSE "done", next |-> refresh[r].next + 1,
     quote |-> Unset, found |-> FALSE, missed |-> missed]]

-----------------------------------------------------------------------------
(* The cron's task, or POST /fx-rates/refresh, which no lock guards. *)
BeginRefresh(r) ==
  /\ refresh[r] = Resting
  /\ r \in Ticks => tick[r].pc = "running"
  /\ refresh' = [refresh EXCEPT ![r].pc = "fetch"]
  /\ overlapped' = (overlapped \ {r}) \cup (IF Busy = {} THEN {} ELSE Busy \cup {r})
  /\ UNCHANGED <<leaderVars, today, fxRow, fetched, fxFaults>>

(* DolarApi dates the rate, on a day up to now; the others give it for today. *)
Answer(r) ==
  /\ refresh[r].pc = "fetch" /\ fetched < MaxFetch
  /\ LET source == Sources[refresh[r].next]
     IN  /\ source \in Adapters
         /\ fetched' = fetched + 1
         /\ \E day \in IF source = Official THEN 1..today ELSE {today} :
              refresh' = [refresh EXCEPT ![r] = [@ EXCEPT !.pc = "find",
                !.quote = [source |-> source, date |-> day, fetchedAt |-> fetched']]]
  /\ UNCHANGED <<leaderVars, today, fxRow, fxFaults, overlapped>>

(* No answer, not a positive number, or no adapter. *)
NoAnswer(r) ==
  /\ refresh[r].pc = "fetch"
  /\ AskNext(r, refresh[r].missed \cup {Sources[refresh[r].next]})
  /\ UNCHANGED <<leaderVars, today, fxRow, fetched, fxFaults, overlapped>>

FindRow(r) ==
  /\ refresh[r].pc = "find"
  /\ refresh' = [refresh EXCEPT ![r] = [@ EXCEPT !.pc = "save",
                                              !.found = fxRow[refresh[r].quote.date].stored]]
  /\ UNCHANGED <<leaderVars, today, fxRow, fetched, fxFaults, overlapped>>

RateOf(r) == [stored |-> TRUE, source |-> refresh[r].quote.source, fetchedAt |-> refresh[r].quote.fetchedAt,
              missed |-> refresh[r].missed, alone |-> r \notin overlapped]

(* Mutation: the loop goes on after a rate is stored. *)
SaveAndGoOn(r) ==
  /\ refresh[r].pc = "save"
  /\ fxRow' = [fxRow EXCEPT ![refresh[r].quote.date] = RateOf(r)]
  /\ AskNext(r, refresh[r].missed)
  /\ UNCHANGED <<leaderVars, today, fetched, fxFaults, overlapped>>

(* A row found is updated; one not found is inserted, and the unique index on   *)
(* the day may refuse it: the next source is asked, as if this one had failed.  *)
SaveRow(r) ==
  /\ refresh[r].pc = "save"
  /\ LET d == refresh[r].quote.date
     IN  IF fxRow[d].stored /\ ~refresh[r].found
         THEN AskNext(r, refresh[r].missed) /\ UNCHANGED fxRow
         ELSE /\ fxRow' = [fxRow EXCEPT ![d] = RateOf(r)]
              /\ refresh' = [refresh EXCEPT ![r].pc = "done"]
  /\ UNCHANGED <<leaderVars, today, fetched, fxFaults, overlapped>>

DatabaseFails(r) ==
  /\ refresh[r].pc \in {"find", "save"} /\ fxFaults < MaxFaults
  /\ fxFaults' = fxFaults + 1
  /\ AskNext(r, refresh[r].missed)
  /\ overlapped' = overlapped \cup {r}
  /\ UNCHANGED <<leaderVars, today, fxRow, fetched>>

EndRefresh(r) ==
  /\ refresh[r].pc = "done"
  /\ refresh' = [refresh EXCEPT ![r] = Resting]
  /\ IF r \in Ticks THEN TaskEnds(r) ELSE UNCHANGED leaderVars
  /\ UNCHANGED <<today, fxRow, fetched, fxFaults, overlapped>>

NewDay ==
  /\ today < MaxDay /\ today' = today + 1
  /\ UNCHANGED <<leaderVars, fxRow, refresh, fetched, fxFaults, overlapped>>

-----------------------------------------------------------------------------
FxInit ==
  /\ LeaderInit
  /\ today = 1
  /\ fxRow = [d \in Days |-> NoRow]
  /\ refresh = [r \in Refreshes |-> Resting]
  /\ fetched = 0 /\ fxFaults = 0 /\ overlapped = {}

(* A crashed replica takes its refresh with it; a lost connection does not. *)
Leadership ==
  \/ /\ \E t \in Ticks : Lead(t)
     /\ UNCHANGED refresh
  \/ /\ \E c \in Connections : DropConnection(c)
     /\ UNCHANGED refresh
  \/ \E t \in Ticks : CrashReplica(t) /\ refresh' = [refresh EXCEPT ![t] = Resting]

FxNext ==
  \/ \E r \in Refreshes : \/ BeginRefresh(r) \/ Answer(r) \/ NoAnswer(r) \/ FindRow(r) \/ SaveRow(r)
                          \/ DatabaseFails(r) \/ EndRefresh(r)
  \/ NewDay
  \/ Leadership /\ UNCHANGED <<today, fxRow, fetched, fxFaults, overlapped>>

FxSpec == FxInit /\ [][FxNext]_fxVars

-----------------------------------------------------------------------------
(* Properties *)

FxTypeOK ==
  /\ LeaderTypeOK
  /\ today \in Days
  /\ fxRow \in [Days -> RateRow \cup {NoRow}]
  /\ refresh \in [Refreshes -> Refresh]
  /\ fetched \in 0..MaxFetch /\ fxFaults \in 0..MaxFaults /\ overlapped \subseteq Refreshes

(* A refresh that ran alone stores a fallback's rate only if every source       *)
(* before it gave no answer: overlapping refreshes may not tell a unique         *)
(* violation from a source that failed.                                           *)
FallbackMeansNoAnswer ==
  \A d \in Days : fxRow[d].stored /\ fxRow[d].alone =>
    \E i \in 1..Len(Sources) :
      Sources[i] = fxRow[d].source /\ {Sources[j] : j \in 1..(i - 1)} \subseteq fxRow[d].missed

(* The rate invoices are issued with is never from an earlier day than the one   *)
(* used before, and a refresh that ran alone never replaces a rate by one        *)
(* fetched earlier.                                                               *)
RatesMoveForward ==
  [][ /\ \A d \in Latest, e \in Latest' : d <= e
      /\ Latest # {} => Latest' # {}
      /\ \A d \in Days : fxRow[d].stored /\ fxRow'[d] # fxRow[d] /\ fxRow'[d].alone
           => fxRow'[d].fetchedAt > fxRow[d].fetchedAt
    ]_fxVars
=============================================================================
