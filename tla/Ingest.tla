-------------------------------- MODULE Ingest --------------------------------
(***************************************************************************)
(* handleIngest of src/worker/index.ts: one job after another for one      *)
(* symbol (concurrency 1), each for a window of days.  Two providers are   *)
(* asked in turn; what they return is validated and reconciled (Bars) and  *)
(* added to daily_bars.  A provider may fail, leave out a day or return a  *)
(* bad row, and the process may die between any two queries.               *)
(***************************************************************************)
EXTENDS Bars

CONSTANTS Days,         \* the sessions of the calendar, as day numbers
          Backfilled,   \* those that are stored from the start
          WindowPad,    \* WINDOW_PAD_DAYS
          TrueBar,      \* what trades on every day
          BadBars,      \* what a provider may return for a day instead
          MaxJobs,      \* bound: jobs taken
          MaxCrashes    \* bound: deaths of the worker

ASSUME IngestAssumption ==
    /\ Days \subseteq Nat \ {0} /\ Backfilled \subseteq Days
    /\ WindowPad \in Nat
    /\ {TrueBar} \cup BadBars \subseteq [close : Int, adj : Int, volume : Int]
    /\ Sound(TrueBar)
    /\ MaxJobs \in Nat /\ MaxCrashes \in Nat

VARIABLES
    stored,     \* daily_bars: day -> settled bar, only for the days that are stored
                \* (`disputed' is history: the fields its two sources differed on)
    conflicts,  \* bar_conflicts: day and field
    rejected,   \* dead_letters: the days of the bars
    runs,       \* ingest_runs: the status of each
    failing,    \* sources whose consecutiveFailures is not zero
    job,        \* the job in progress
    crashes     \* deaths of the worker so far

tables == <<stored, conflicts, rejected, runs, failing>>
vars == <<stored, conflicts, rejected, runs, failing, job, crashes>>

\* sources(): twelvedata with trust 1, then tiingo with trust 2.
Trust == <<"twelvedata", "tiingo">>
Sources == {"twelvedata", "tiingo"}

Bar == {TrueBar} \cup BadBars
\* repairWindow: from the first missing session to the last, padded on both sides.
Windows ==
    {{d \in Days : a - WindowPad <= d /\ d <= b + WindowPad} :
        a \in Days \ Backfilled, b \in Days \ Backfilled}

JobSteps == {"idle", "anchor", "twelvedata", "tiingo", "decide", "conflicts",
             "close", "freshness"}
\* gave: the sources in `series', all that is used of it once it is stored.
NoJob == [at |-> "idle", days |-> {}, anchor |-> NoClose,
          series |-> [s \in Sources |-> NoBars], gave |-> {}, conflicts |-> {}]

Prices == {b.close : b \in Bar} \cup {b.volume : b \in Bar}
StoredBars == [bar : [close : Prices, adj : {b.adj : b \in Bar}, volume : Prices],
               source : Sources, confirmed : BOOLEAN,
               disputed : SUBSET {"close", "volume"}]
ConflictRows == [day : Days, field : {"close", "volume"}]

TypeOK ==
    /\ DOMAIN stored \subseteq Days
    /\ \A d \in DOMAIN stored : stored[d] \in StoredBars
    /\ conflicts \subseteq ConflictRows
    /\ rejected \subseteq Days
    /\ \A i \in DOMAIN runs : runs[i] \in {"running", "ok", "partial", "failed"}
    /\ failing \subseteq Sources
    /\ job.at \in JobSteps /\ job.days \subseteq Days
    /\ \A s \in Sources : DOMAIN job.series[s] \subseteq job.days
    /\ job.gave \subseteq Sources /\ job.conflicts \subseteq ConflictRows
    /\ Len(runs) <= MaxJobs /\ crashes <= MaxCrashes

\* The backfill has stored its days from both sources.
Init ==
    /\ stored = [d \in Backfilled |-> Alone(TrueBar, "twelvedata")]
    /\ conflicts = {} /\ rejected = {} /\ runs = <<>> /\ failing = {}
    /\ job = NoJob /\ crashes = 0

-------------------------------------------------------------------------------
(* handleIngest, one action for each await that another process could see. *)

SetRun(status) == runs' = [runs EXCEPT ![Len(runs)] = status]
Reached(step) == job' = [job EXCEPT !.at = step]

\* ingestRun.create
TakeJob(days) ==
    /\ job.at = "idle" /\ Len(runs) < MaxJobs
    /\ runs' = Append(runs, "running")
    /\ job' = [NoJob EXCEPT !.at = "anchor", !.days = days]
    /\ UNCHANGED <<stored, conflicts, rejected, failing, crashes>>

\* The newest stored bar before the window.
AnchorOf(days) ==
    LET before == {d \in DOMAIN stored : \A e \in days : d < e}
    IN  IF before = {} THEN NoClose
        ELSE LET d == CHOOSE d \in before : \A e \in before : e <= d
             IN  [day |-> d, close |-> stored[d].bar.close]

\* Defect: the first row of a fetch has nothing to be compared with.
ReadNoAnchor ==
    /\ job.at = "anchor"
    /\ Reached("twelvedata")
    /\ UNCHANGED <<tables, crashes>>

ReadAnchor ==
    /\ job.at = "anchor"
    /\ job' = [job EXCEPT !.at = "twelvedata", !.anchor = AnchorOf(job.days)]
    /\ UNCHANGED <<tables, crashes>>

After(source) == IF source = "twelvedata" THEN "tiingo" ELSE "decide"

\* Defect: an adapter that does not pass the window on.
AnswersUncut(days) == {[d \in Days |-> TrueBar]}

\* The bars of some days, that of one day being whatever it may be.
AnswersFor(days) ==
    UNION {{[d \in days |-> IF d = wrong THEN bar ELSE TrueBar] : bar \in Bar} : wrong \in days}

\* What a provider may return: every bar of the window, or only the oldest, or
\* only the newest; one of them may be wrong.
Answers(days) ==
    AnswersFor(days) \cup AnswersFor({d \in days : \A e \in days : d <= e})
                     \cup AnswersFor({d \in days : \A e \in days : e <= d})

\* A provider answers: rejected rows become dead letters, the rest is kept.
Fetch(source, answer) ==
    /\ job.at = source
    /\ LET valid == Validated(answer, job.anchor)
       IN  /\ rejected' = rejected \cup (DOMAIN answer \ DOMAIN valid)
           /\ job' = [job EXCEPT !.at = After(source), !.series[source] = valid,
                                 !.gave = IF valid = NoBars THEN @ ELSE @ \cup {source}]
    /\ UNCHANGED <<stored, conflicts, runs, failing, crashes>>

NothingFetched == job.gave = {}

\* A provider fails; the last one's error ends the job when nothing was fetched.
FetchFails(source) ==
    /\ job.at = source
    /\ failing' = failing \cup {source}
    /\ job' = IF source = "tiingo" /\ NothingFetched THEN NoJob
              ELSE [job EXCEPT !.at = After(source)]
    /\ UNCHANGED <<stored, conflicts, rejected, runs, crashes>>

\* series.length === 0: the run is recorded as failed and the job throws.
NoUsableData ==
    /\ job.at = "decide" /\ NothingFetched
    /\ SetRun("failed")
    /\ job' = NoJob
    /\ UNCHANGED <<stored, conflicts, rejected, failing, crashes>>

Disputes(bars) ==
    UNION {[day : {d}, field : bars[d].disputed] : d \in DOMAIN bars}

\* Defect: the newest answer replaces what is stored.
Upserted(bars) == [d \in DOMAIN stored \cup DOMAIN bars |->
                      IF d \in DOMAIN bars THEN bars[d] ELSE stored[d]]

\* dailyBar.createMany with skipDuplicates.
Added(bars) == [d \in DOMAIN stored \cup DOMAIN bars |->
                   IF d \in DOMAIN stored THEN stored[d] ELSE bars[d]]

Store ==
    /\ job.at = "decide" /\ ~NothingFetched
    /\ LET bars == Reconciled(job.series, Trust)
       IN  /\ stored' = Added(bars)
           /\ job' = [NoJob EXCEPT !.gave = job.gave, !.conflicts = Disputes(bars),
                         !.at = IF Disputes(bars) = {} THEN "close" ELSE "conflicts"]
    /\ UNCHANGED <<conflicts, rejected, runs, failing, crashes>>

\* barConflict.createMany
StoreConflicts ==
    /\ job.at = "conflicts"
    /\ conflicts' = conflicts \cup job.conflicts
    /\ job' = [job EXCEPT !.at = "close", !.conflicts = {}]
    /\ UNCHANGED <<stored, rejected, runs, failing, crashes>>

CloseRun ==
    /\ job.at = "close"
    /\ SetRun(IF job.gave = Sources THEN "ok" ELSE "partial")
    /\ Reached("freshness")
    /\ UNCHANGED <<stored, conflicts, rejected, failing, crashes>>

\* dataFreshness.upsert for each source that gave something; the job completes.
Freshen ==
    /\ job.at = "freshness"
    /\ failing' = failing \ job.gave
    /\ job' = NoJob
    /\ UNCHANGED <<stored, conflicts, rejected, runs, crashes>>

\* The worker dies; the job is in the queue still and will be taken again.
Crash ==
    /\ job.at # "idle" /\ crashes < MaxCrashes
    /\ crashes' = crashes + 1
    /\ job' = NoJob
    /\ UNCHANGED tables

Next ==
    \/ \E days \in Windows : TakeJob(days)
    \/ ReadAnchor
    \/ \E s \in Sources : (\E a \in Answers(job.days) : Fetch(s, a)) \/ FetchFails(s)
    \/ NoUsableData \/ Store \/ StoreConflicts \/ CloseRun \/ Freshen
    \/ Crash

Spec == Init /\ [][Next]_vars

-------------------------------------------------------------------------------

(* "NEVER overwrite known-good data with a failed or partial response"     *)
(* (worker/index.ts:136): no step changes or removes a stored bar.         *)
BarsAreOnlyAdded ==
    [][/\ DOMAIN stored \subseteq DOMAIN stored'
       /\ \A d \in DOMAIN stored : stored'[d] = stored[d]]_vars

IsGlitch(bar) == Move(bar.close, TrueBar.close) > MaxDailyMove

(* The move check is "a backstop against gross data corruption"           *)
(* (validate.ts:26).  It compares consecutive sessions of one answer: a    *)
(* close that moved too far is stored only if the answer it came in has    *)
(* nothing in the four days before it.                                     *)
GlitchOnlyAcrossAGap ==
    [][\A d \in DOMAIN stored' \ DOMAIN stored :
          IsGlitch(stored'[d].bar) =>
             \A e \in DOMAIN job.series[stored'[d].source] :
                d - e \notin 1..MaxSessionGap]_vars

(* "The first row of an incremental fetch is checked against real history" *)
(* (worker/index.ts:74).  A window is padded, so that row is stored        *)
(* already; what the check saves are the rows after it, that a glitch      *)
(* would have rejected one by one: an answer with one bad row loses one    *)
(* row, unless the stored bar it is checked against is a glitch itself.    *)
OneBadRowCostsOneRow ==
    [][Cardinality(rejected' \ rejected) <= 1 \/ IsGlitch(AnchorOf(job.days))]_vars

(* "Silently picking one and showing it as fact is the failure this module *)
(* exists to prevent" (reconcile.ts:6): a wrong price that two sources     *)
(* were asked about and did not both return is stored as unconfirmed, and  *)
(* the disagreement is recorded, unless the worker died before it was.     *)
DisputeIsNotSettled ==
    \A d \in DOMAIN stored :
        /\ stored[d].confirmed => "close" \notin stored[d].disputed
        /\ ~stored[d].confirmed /\ crashes = 0 /\ job.at # "conflicts" =>
              \E c \in conflicts : c.day = d /\ c.field = "close"
===============================================================================
