---------------------------- MODULE IngestPipeline ----------------------------
(***************************************************************************)
(* The worker process of src/worker/index.ts: ingest jobs taken one at a   *)
(* time, the `completed` listener that counts them, the settle timer that  *)
(* debounces them, the check that reads the depth of the ingest queue, and *)
(* the compute job it enqueues.  The counter and the timer live in the     *)
(* memory of the process; the two queues live in Redis and the bars in     *)
(* Postgres.                                                               *)
(*                                                                         *)
(* A job stands for one repair window of one symbol.  Which windows are    *)
(* asked for is the subject of GapRepair; here any of them may be added at *)
(* any time, by the scheduler or by POST /api/cron/ingest.                 *)
(***************************************************************************)
EXTENDS JobQueue, FiniteSets

CONSTANTS Jobs,             \* custom ids of ingest jobs
          ComputeIds,       \* ids compute-<now>: every add uses a fresh one
          Checks,           \* settle checks that may be in flight together
          IngestAttempts,   \* attempts of an ingest job (3 in queue.ts)
          ComputeAttempts,  \* attempts of a compute job (2 in queue.ts)
          MaxFaults         \* bound: crashes and Redis errors in a behaviour

ASSUME PipelineAssumption ==
    /\ IngestAttempts \in Nat \ {0}
    /\ ComputeAttempts \in Nat \ {0}
    /\ MaxFaults \in Nat

VARIABLES
    ingest,     \* the ingest queue
    compute,    \* the compute queue
    landed,     \* jobs whose bars createMany has stored
    announced,  \* jobs completed in Redis whose `completed` event is not yet handled
    counter,    \* ingestedSinceCompute
    timer,      \* settleTimer is armed
    check,      \* settle checks in flight
    run,        \* the recompute in progress and the batches it has loaded
    covered,    \* batches that the events and themes in the tables reflect
    whole,      \* history: no recompute has begun to replace them since one finished
    published,  \* history: what they reflected when a recompute last finished
    faults      \* crashes and Redis errors so far

queues == <<ingest, compute>>
settle == <<counter, timer, check>>
tables == <<covered, whole, published>>
vars == <<ingest, compute, landed, announced, counter, timer, check, run, covered,
          whole, published, faults>>

CheckSteps == {"idle", "waiting", "active", "delayed", "decide", "adding"}

\* late is a history component: the jobs that entered the wait list since the
\* check began.  The code keeps no such set.
CheckRecords == [at : CheckSteps, busy : BOOLEAN, late : SUBSET Jobs]
IdleCheck == [at |-> "idle", busy |-> FALSE, late |-> {}]
NoRun == [phase |-> "none", bars |-> {}]

TypeOK ==
    /\ ingest \in [Jobs -> JobRecords]
    /\ compute \in [ComputeIds -> JobRecords]
    /\ landed \subseteq Jobs
    /\ announced \subseteq Jobs
    /\ counter \in Nat
    /\ timer \in BOOLEAN
    /\ check \in [Checks -> CheckRecords]
    /\ run \in [phase : {"none", "loading", "writing"}, bars : SUBSET Jobs]
    /\ covered \subseteq Jobs
    /\ whole \in BOOLEAN
    /\ published \subseteq Jobs
    /\ faults \in Nat

Init ==
    /\ ingest = [j \in Jobs |-> NoJob]
    /\ compute = [k \in ComputeIds |-> NoJob]
    /\ landed = {}
    /\ announced = {}
    /\ counter = 0
    /\ timer = FALSE
    /\ check = [c \in Checks |-> IdleCheck]
    /\ run = NoRun
    /\ covered = {}
    /\ whole = TRUE
    /\ published = {}
    /\ faults = 0

-------------------------------------------------------------------------------
\* Jobs enter the wait list: every check in flight is told, for the record.
Entering(S) == check' = [c \in Checks |->
                            IF check[c].at = "idle" THEN check[c]
                            ELSE [check[c] EXCEPT !.late = @ \cup S]]

\* scheduleTick -> enqueueGapRepairs, or the cron route: one addBulk.
Enqueue(S) ==
    /\ \E j \in S : ingest[j].state = "absent"
    /\ ingest' = AddAll(ingest, S)
    /\ Entering({j \in S : ingest[j].state = "absent"})
    /\ UNCHANGED <<compute, landed, announced, counter, timer, run, tables, faults>>

TakeIngest(j) ==
    /\ CanTake(ingest, j)
    /\ ingest' = Take(ingest, j)
    /\ UNCHANGED <<compute, landed, announced, settle, run, tables, faults>>

\* handleIngest reaches dailyBar.createMany: the bars are stored and stay
\* stored, whatever happens to the job afterwards.
LandBars(j) ==
    /\ ingest[j].state = "active"
    /\ j \notin landed
    /\ landed' = landed \cup {j}
    /\ UNCHANGED <<queues, announced, settle, run, tables, faults>>

\* handleIngest returned.  The job is completed in Redis first; the event that
\* the listener waits for is emitted afterwards.
CompleteIngest(j) ==
    /\ ingest[j].state = "active"
    /\ j \in landed
    /\ ingest' = Complete(ingest, j)
    /\ announced' = announced \cup {j}
    /\ UNCHANGED <<compute, landed, settle, run, tables, faults>>

\* handleIngest threw: no usable data, or a database error before or after the
\* bars were stored.  Nothing listens to `failed` but the log.
FailIngest(j) ==
    /\ ingest[j].state = "active"
    /\ ingest' = Fail(ingest, j, IngestAttempts)
    /\ UNCHANGED <<compute, landed, announced, settle, run, tables, faults>>

BackoffOver(j) ==
    /\ ingest[j].state = "delayed"
    /\ ingest' = Promote(ingest, j)
    /\ Entering({j})
    /\ UNCHANGED <<compute, landed, announced, counter, timer, run, tables, faults>>

-------------------------------------------------------------------------------
\* ingestWorker.on('completed'): count, and push the timer back.
OnCompleted(j) ==
    /\ j \in announced
    /\ announced' = announced \ {j}
    /\ counter' = counter + 1
    /\ timer' = TRUE
    /\ UNCHANGED <<queues, landed, check, run, tables, faults>>

\* SETTLE_MS have passed since the last completion: a check begins.
TimerFires(c) ==
    /\ timer
    /\ check[c].at = "idle"
    /\ timer' = FALSE
    /\ check' = [check EXCEPT ![c] = [IdleCheck EXCEPT !.at = "waiting"]]
    /\ UNCHANGED <<queues, landed, announced, counter, run, tables, faults>>

\* getWaitingCount, getActiveCount, getDelayedCount: three commands on one
\* connection, answered in that order but not in one instant.
ReadDepth(c, s, next) ==
    /\ check[c].at = s
    /\ check' = [check EXCEPT ![c].at = next,
                              ![c].busy = @ \/ InState(ingest, s) # {}]
    /\ UNCHANGED <<queues, landed, announced, counter, timer, run, tables, faults>>

\* Defect for the checks below: the depth of the active list is not counted
\* (what the `drained` event amounted to, worker/index.ts:313).
ReadActiveIgnored(c) ==
    /\ check[c].at = "active"
    /\ check' = [check EXCEPT ![c].at = "delayed"]
    /\ UNCHANGED <<queues, landed, announced, counter, timer, run, tables, faults>>

ReadWaiting(c) == ReadDepth(c, "waiting", "active")
ReadActive(c) == ReadDepth(c, "active", "delayed")
ReadDelayed(c) == ReadDepth(c, "delayed", "decide")

\* Defects: a busy queue ends the check without re-arming; the count survives
\* the recompute it paid for.
DecideWithoutRearm(c) ==
    /\ check[c].at = "decide"
    /\ check' = [check EXCEPT ![c] = IF check[c].busy \/ counter = 0 THEN IdleCheck
                                     ELSE [@ EXCEPT !.at = "adding"]]
    /\ counter' = IF check[c].busy THEN counter ELSE 0
    /\ UNCHANGED <<queues, landed, announced, timer, run, tables, faults>>

DecideKeepingCount(c) ==
    /\ check[c].at = "decide"
    /\ check' = [check EXCEPT ![c] = IF check[c].busy \/ counter = 0 THEN IdleCheck
                                     ELSE [@ EXCEPT !.at = "adding"]]
    /\ timer' = (timer \/ check[c].busy)
    /\ UNCHANGED <<queues, landed, announced, counter, run, tables, faults>>

\* The rest of the callback up to its next await: re-arm, give up, or take the
\* count and start adding the compute job.
Decide(c) ==
    /\ check[c].at = "decide"
    /\ IF check[c].busy
       THEN /\ timer' = TRUE
            /\ check' = [check EXCEPT ![c] = IdleCheck]
            /\ UNCHANGED counter
       ELSE IF counter = 0
       THEN /\ check' = [check EXCEPT ![c] = IdleCheck]
            /\ UNCHANGED <<counter, timer>>
       ELSE /\ counter' = 0
            /\ check' = [check EXCEPT ![c].at = "adding"]
            /\ UNCHANGED timer
    /\ UNCHANGED <<queues, landed, announced, run, tables, faults>>

\* Defect: the id is bucketed by the hour, so it may be one that is still kept
\* (the bug worker/index.ts:264 describes).
AddComputeBucketed(c) ==
    /\ check[c].at = "adding"
    /\ \E k \in ComputeIds : compute' = AddAll(compute, {k})
    /\ check' = [check EXCEPT ![c] = IdleCheck]
    /\ UNCHANGED <<ingest, landed, announced, counter, timer, run, tables, faults>>

\* getComputeQueue().add(...) with an id of its own.
AddCompute(c) ==
    /\ check[c].at = "adding"
    /\ \E k \in ComputeIds : /\ compute[k].state = "absent"
                             /\ compute' = AddAll(compute, {k})
    /\ check' = [check EXCEPT ![c] = IdleCheck]
    /\ UNCHANGED <<ingest, landed, announced, counter, timer, run, tables, faults>>

\* A count or the add is refused by Redis: the catch block logs it, and the
\* check is over, whatever it had already taken from the counter.
CheckError(c) ==
    /\ faults < MaxFaults
    /\ check[c].at # "idle"
    /\ check' = [check EXCEPT ![c] = IdleCheck]
    /\ faults' = faults + 1
    /\ UNCHANGED <<queues, landed, announced, counter, timer, run, tables>>

-------------------------------------------------------------------------------
\* Defect: only what no recompute has seen is loaded, while the write that
\* follows still replaces everything.
TakeComputeIncremental(k) ==
    /\ CanTake(compute, k)
    /\ compute' = Take(compute, k)
    /\ run' = [phase |-> "loading", bars |-> landed \ covered]
    /\ UNCHANGED <<ingest, landed, announced, settle, tables, faults>>

\* handleCompute -> computeAndPersist: loadAll reads the bars symbol by symbol,
\* so a batch that lands meanwhile is loaded or not.
TakeCompute(k) ==
    /\ CanTake(compute, k)
    /\ compute' = Take(compute, k)
    /\ run' = [phase |-> "loading", bars |-> landed]
    /\ UNCHANGED <<ingest, landed, announced, settle, tables, faults>>

\* The last bars are read, and the rows of the previous recompute are deleted
\* (`replace'), before there is anything to put in their place and outside any
\* transaction: from here the tables show less than was last published.
ClearTables ==
    /\ run.phase = "loading"
    /\ \E more \in SUBSET (landed \ run.bars) :
          run' = [phase |-> "writing", bars |-> run.bars \cup more]
    /\ covered' = {}
    /\ whole' = FALSE
    /\ UNCHANGED <<queues, landed, announced, settle, published, faults>>

\* The events of another symbol, computed from all its bars that were loaded.
WriteEvents(S) ==
    /\ run.phase = "writing"
    /\ S \subseteq run.bars \ covered
    /\ covered' = covered \cup S
    /\ UNCHANGED <<queues, landed, announced, settle, run, whole, published, faults>>

\* Every symbol, the themes and the scorecard are written.
FinishCompute(k) ==
    /\ compute[k].state = "active"
    /\ run.phase = "writing"
    /\ covered = run.bars
    /\ compute' = Complete(compute, k)
    /\ whole' = TRUE
    /\ published' = covered
    /\ run' = NoRun
    /\ UNCHANGED <<ingest, landed, announced, settle, covered, faults>>

\* It throws, while it reads or between two writes: what is deleted stays
\* deleted, and what is written stays.
FailCompute(k) ==
    /\ compute[k].state = "active"
    /\ compute' = Fail(compute, k, ComputeAttempts)
    /\ run' = NoRun
    /\ UNCHANGED <<ingest, landed, announced, settle, tables, faults>>

ComputeBackoffOver(k) ==
    /\ compute[k].state = "delayed"
    /\ compute' = Promote(compute, k)
    /\ UNCHANGED <<ingest, landed, announced, settle, run, tables, faults>>

\* The worker process dies and is started again: what was in its memory is
\* gone, what it held is found stalled, and the tables are left as they were.  A signal does the same to the timer
\* and the counter (shutdown clears the one and drops the other).
Crash ==
    /\ faults < MaxFaults
    /\ ingest' = StallActive(ingest)
    /\ compute' = StallActive(compute)
    /\ announced' = {}
    /\ counter' = 0
    /\ timer' = FALSE
    /\ check' = [c \in Checks |-> IdleCheck]
    /\ run' = NoRun
    /\ faults' = faults + 1
    /\ UNCHANGED <<landed, tables>>

-------------------------------------------------------------------------------
Handler(j) == LandBars(j) \/ CompleteIngest(j) \/ FailIngest(j)
CheckStep(c) == \/ ReadWaiting(c) \/ ReadActive(c) \/ ReadDelayed(c)
                \/ Decide(c) \/ AddCompute(c)
ComputeStep(k) == FinishCompute(k) \/ FailCompute(k)

Next ==
    \/ \E S \in SUBSET Jobs : Enqueue(S)
    \/ \E j \in Jobs : TakeIngest(j) \/ Handler(j) \/ BackoffOver(j) \/ OnCompleted(j)
    \/ \E c \in Checks : TimerFires(c) \/ CheckStep(c) \/ CheckError(c)
    \/ \E k \in ComputeIds : TakeCompute(k) \/ ComputeStep(k) \/ ComputeBackoffOver(k)
    \/ ClearTables
    \/ \E S \in SUBSET Jobs : WriteEvents(S)
    \/ Crash

Spec == Init /\ [][Next]_vars

\* The event loop and the worker keep running: every handler returns or throws,
\* every backoff ends, every armed timer fires, every await is answered.  No
\* fairness on Enqueue, CheckError or Crash: nothing makes those happen.
Fairness ==
    /\ \A j \in Jobs : /\ WF_vars(Handler(j)) /\ WF_vars(BackoffOver(j))
                       /\ WF_vars(OnCompleted(j)) /\ WF_vars(TakeIngest(j))
    /\ \A c \in Checks : WF_vars(CheckStep(c))
    /\ WF_vars(\E c \in Checks : TimerFires(c))
    /\ \A k \in ComputeIds : /\ WF_vars(ComputeStep(k)) /\ WF_vars(TakeCompute(k))
                             /\ WF_vars(ComputeBackoffOver(k))
    /\ WF_vars(ClearTables)
    /\ \A j \in Jobs : WF_vars(WriteEvents({j}))

FairSpec == Spec /\ Fairness

-------------------------------------------------------------------------------
\* A recompute that will still load, or has loaded, the bars of j.
Scheduled(j) ==
    \/ \E k \in ComputeIds : compute[k].state \in {"waiting", "delayed"}
    \/ run.phase # "none" /\ j \in run.bars

\* The settle machinery owes a recompute: a count not yet taken that a timer or
\* a check will come back to, or a check that took it and is adding the job.
Owed ==
    \/ counter > 0 /\ (timer \/ \E c \in Checks : check[c].at # "idle")
    \/ \E c \in Checks : check[c].at = "adding"

\* The job may still be retried, or its `completed` event is on its way.
Unfinished(j) == ingest[j].state \in {"waiting", "active", "delayed"} \/ j \in announced

\* Retries exhausted: of the ingest job after its bars were stored, or of a
\* recompute.  worker/index.ts listens to neither.
GaveUp(j) == \/ ingest[j].state = "failed"
             \/ \E k \in ComputeIds : compute[k].state = "failed"

\* As long as the process has not died and Redis has refused nothing, bars that
\* were stored and that the tables do not reflect - not yet, or no longer, since
\* a recompute emptied them and failed - are never forgotten: at every instant
\* some part of the worker is still bound to recompute them ("Recompute once,
\* after the whole batch has actually landed").
NoForgottenBatch ==
    faults = 0 =>
        \A j \in landed \ covered : Unfinished(j) \/ Owed \/ Scheduled(j) \/ GaveUp(j)

\* The three depths are read one after the other, and still a check that sees
\* an empty queue has missed only jobs that entered the wait list while it was
\* reading: no job can slip from one list to the next between two reads.
SettleMissesOnlyLateJobs ==
    \A c \in Checks :
        check[c].at = "decide" /\ ~check[c].busy => Live(ingest) \subseteq check[c].late

\* The debounce: no more recomputes are ever enqueued than ingest jobs were
\* completed, and the completions still counted have not been spent on one.
OneRecomputePerBatch ==
    Cardinality({k \in ComputeIds : compute[k].state # "absent"}) + counter
        <= Cardinality(InState(ingest, "completed"))

\* One recompute at a time, each starting from everything that had landed: while
\* one replaces the tables, or has failed at it, they show less than was
\* published, but one that finishes never leaves them with less than an earlier
\* one did, and between two replacements they show exactly what was published.
PublicationSpec == INSTANCE Publication
ImplementsPublication == PublicationSpec!Spec

\* Stored bars are eventually reflected by the tables, and again after every
\* recompute that emptied them, unless retries ran out or the process died or was
\* refused by Redis on the way.
EveryBatchIsRecomputed ==
    \A j \in Jobs : j \in landed ~> j \in covered \/ GaveUp(j) \/ faults > 0
===============================================================================
