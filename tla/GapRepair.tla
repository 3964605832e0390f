------------------------------- MODULE GapRepair -------------------------------
(***************************************************************************)
(* Which daily bars are asked for, and when: findGaps and repairWindow of  *)
(* src/src/lib/ingest/gaps.ts, the cycle that turns them into jobs (the    *)
(* worker's enqueueGapRepairs and POST /api/cron/ingest), and the ingest   *)
(* queue that keeps the id of every job it has finished.  Sessions are     *)
(* numbered by the market calendar; a job's id is its symbol and window.   *)
(***************************************************************************)
EXTENDS JobQueue, Integers, FiniteSets

CONSTANTS Symbols,
          LastSession,   \* bound: sessions in the calendar
          Pad,           \* sessions in WINDOW_PAD_DAYS
          MaxRepair,     \* MAX_REPAIR_SESSIONS
          HoleScan,      \* HOLE_SCAN_SESSIONS
          Attempts,      \* attempts of an ingest job (3 in queue.ts)
          MaxOutages     \* bound: fetches that fail although there is data

ASSUME RepairAssumption ==
    /\ LastSession \in Nat /\ Pad \in Nat \ {0} /\ MaxRepair \in Nat \ {0}
    /\ HoleScan \in Nat \ {0} /\ Attempts \in Nat \ {0} /\ MaxOutages \in Nat

VARIABLES
    expected,    \* lastExpectedSession: what the clock says should exist
    published,   \* sessions the provider serves, per symbol
    stored,      \* sessions in daily_bars, per symbol
    ingest,      \* the ingest queue
    plan,        \* the jobs of a cycle that has read the gaps and not yet added them
    outages      \* fetches failed so far

vars == <<expected, published, stored, ingest, plan, outages>>

Sessions == 1..LastSession
\* The window from session a to session b, padded because no provider serves a
\* single day.
Padded(s, a, b) == [of |-> s, from |-> a - Pad, to |-> b + Pad]

\* The windows a repair can ask for, which are also the ids of its jobs.
Windows == {w \in {Padded(s, a, b) : s \in Symbols, a \in Sessions, b \in Sessions} :
                w.from + Pad <= w.to - Pad}

TypeOK ==
    /\ expected \in Sessions
    /\ published \in [Symbols -> SUBSET Sessions]
    /\ \A s \in Symbols : stored[s] \subseteq published[s]
    /\ ingest \in [Windows -> JobRecords]
    /\ plan \subseteq Windows
    /\ outages \in 0..MaxOutages

\* A backfilled history of one session or more, nothing published after it.
Init ==
    /\ expected = 1
    /\ published = [s \in Symbols |-> {1}]
    /\ stored = [s \in Symbols |-> {1}]
    /\ ingest = [w \in Windows |-> NoJob]
    /\ plan = {}
    /\ outages = 0

-------------------------------------------------------------------------------
(* findGaps and repairWindow *)

Least(S) == CHOOSE x \in S : \A y \in S : x <= y
Greatest(S) == CHOOSE x \in S : \A y \in S : x >= y
Newest(S, n) == {x \in S : Cardinality({y \in S : y > x}) < n}

\* The rows the scan reads: the newest HOLE_SCAN_SESSIONS of the symbol.
Scanned(s) == Newest(stored[s], HoleScan)

\* Sessions after the newest stored bar, the last MAX_REPAIR_SESSIONS of them.
Tail(s) == Newest((Greatest(stored[s]) + 1)..expected, MaxRepair)

\* Defect: only the end of the series is compared with the calendar.
NoHoles(s) == {}

\* Sessions missing between the oldest scanned bar and the newest.
Holes(s) == (Least(Scanned(s))..Greatest(stored[s])) \ stored[s]

Missing(s) == IF stored[s] = {} THEN {} ELSE Holes(s) \cup Tail(s)

\* One window from the first missing session to the last.
RepairWindow(s) == Padded(s, Least(Missing(s)), Greatest(Missing(s)))

-------------------------------------------------------------------------------
(* The market and its provider *)

\* A session closes and its bar is expected.
NewSession ==
    /\ expected < LastSession
    /\ expected' = expected + 1
    /\ UNCHANGED <<published, stored, ingest, plan, outages>>

\* The provider starts to serve a session, late or out of order.
Publish(s, t) ==
    /\ t <= expected /\ t \notin published[s]
    /\ published' = [published EXCEPT ![s] = @ \cup {t}]
    /\ UNCHANGED <<expected, stored, ingest, plan, outages>>

-------------------------------------------------------------------------------
(* A cycle *)

\* The gaps are read and turned into one job for each symbol that has any.
ReadGaps ==
    /\ plan = {}
    /\ plan' = {RepairWindow(s) : s \in {x \in Symbols : Missing(x) # {}}}
    /\ plan' # {}
    /\ UNCHANGED <<expected, published, stored, ingest, outages>>

\* addBulk, after the awaits in between.
AddJobs ==
    /\ plan # {}
    /\ ingest' = AddAll(ingest, plan)
    /\ plan' = {}
    /\ UNCHANGED <<expected, published, stored, outages>>

-------------------------------------------------------------------------------
(* The ingest worker *)

Served(w) == {t \in published[w.of] : w.from <= t /\ t <= w.to}

TakeJob(w) ==
    /\ CanTake(ingest, w)
    /\ ingest' = Take(ingest, w)
    /\ UNCHANGED <<expected, published, stored, plan, outages>>

\* Defect: the window counts as stored, whatever was served of it.
FetchAssumed(w) ==
    /\ ingest[w].state = "active" /\ Served(w) # {}
    /\ stored' = [stored EXCEPT ![w.of] = @ \cup {t \in Sessions : w.from <= t /\ t <= w.to}]
    /\ ingest' = Complete(ingest, w)
    /\ UNCHANGED <<expected, published, plan, outages>>

\* The provider serves what it has of the window, stored neighbours included,
\* and the job is complete.
Fetch(w) ==
    /\ ingest[w].state = "active" /\ Served(w) # {}
    /\ stored' = [stored EXCEPT ![w.of] = @ \cup Served(w)]
    /\ ingest' = Complete(ingest, w)
    /\ UNCHANGED <<expected, published, plan, outages>>

\* Nothing in the window, or the provider is out: handleIngest throws.
FetchFails(w) ==
    /\ ingest[w].state = "active"
    /\ \/ Served(w) = {} /\ UNCHANGED outages
       \/ Served(w) # {} /\ outages < MaxOutages /\ outages' = outages + 1
    /\ ingest' = Fail(ingest, w, Attempts)
    /\ UNCHANGED <<expected, published, stored, plan>>

BackoffOver(w) ==
    /\ ingest[w].state = "delayed"
    /\ ingest' = Promote(ingest, w)
    /\ UNCHANGED <<expected, published, stored, plan, outages>>

-------------------------------------------------------------------------------
Work(w) == Fetch(w) \/ FetchFails(w)

Next == \/ NewSession \/ ReadGaps \/ AddJobs
        \/ \E s \in Symbols, t \in Sessions : Publish(s, t)
        \/ \E w \in Windows : TakeJob(w) \/ Work(w) \/ BackoffOver(w)

Spec == Init /\ [][Next]_vars

\* The schedule keeps ticking, the worker keeps taking jobs, a fetch ends one
\* way or the other.  No fairness on the calendar or the provider.
Fairness == /\ WF_vars(ReadGaps) /\ WF_vars(AddJobs)
            /\ WF_vars(\E w \in Windows : TakeJob(w))
            /\ WF_vars(\E w \in Windows : Work(w))
            /\ WF_vars(\E w \in Windows : BackoffOver(w))

FairSpec == Spec /\ Fairness

-------------------------------------------------------------------------------
\* The id that would ask for what is missing has been used up: the queue keeps
\* it, completed or failed, and every further add of it is dropped.
Spent(s) == /\ Missing(s) # {}
            /\ ingest[RepairWindow(s)].state \in {"completed", "failed"}

\* The repair heals every gap it can see: a published session newer than the
\* oldest scanned bar ends up stored, however long the outage was and wherever
\* in the series the hole is, unless the very same window was asked for before.
GapsHeal ==
    \A s \in Symbols, t \in Sessions :
        t \in published[s] ~> \/ t \in stored[s]
                              \/ t < Least(Scanned(s))
                              \/ Spent(s)
===============================================================================
