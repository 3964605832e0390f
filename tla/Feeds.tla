--------------------------------- MODULE Feeds ---------------------------------
(***************************************************************************)
(* The worker between its clock and the provider: scheduleTick, the        *)
(* auxiliary and the ingest queue, the two loops that work on them, and    *)
(* the token bucket both wait on (src/worker/index.ts, aux-jobs.ts and     *)
(* src/lib/sources/rate-limit.ts).                                         *)
(*                                                                         *)
(* Time passes in ticks; a timer that is due fires within LATE of them.    *)
(* One token is worth WINDOW units of the bucket's content, so that a tick *)
(* adds CAPACITY of them.                                                  *)
(***************************************************************************)
EXTENDS Schedule, JobQueue

CONSTANTS
    KINDS,          \* the kinds of work the schedule is watched for
    SYMBOLS,        \* the active instruments, numbered in the order they are asked for
    CAPACITY,       \* the bucket: requests permitted per window
    WINDOW,         \* the window
    ALLOW_BURST,    \* whether it starts full
    ATTEMPTS,       \* of a job
    BACKOFF,        \* ticks a failed job waits
    LATE,           \* bound: ticks a timer fires late
    MAX_FAULTS      \* bound: failed requests and process deaths

ASSUME FeedsAssumption ==
    /\ {CAPACITY, WINDOW, ATTEMPTS, BACKOFF} \subseteq Nat \ {0}
    /\ {LATE, MAX_FAULTS} \subseteq Nat
    /\ ALLOW_BURST \in BOOLEAN
    /\ KINDS \subseteq Kinds /\ SYMBOLS \subseteq Nat

AuxIds == (KINDS \ {"bars"}) \X {0, 1}   \* a kind and its slot, odd or even
BarIds == SYMBOLS \X DOMAIN CALENDAR      \* a symbol and the session its window ends with
Loops  == {"aux", "ingest"}
Awake  == [at |-> "rest", wait |-> 0]

VARIABLES
    clock,     \* the instant
    since,     \* ticks since lastRun of a kind, as far as its cadence tells apart
    aux,       \* the auxiliary queue
    ingest,    \* the ingest queue
    stored,    \* symbols whose last expected session is in the table
    left,      \* symbols the intraday run has still to ask for
    loop,      \* what each loop is waiting for
    delay,     \* ticks a failed job still waits
    tokens,    \* the bucket's content
    refilled,  \* ticks since lastRefill, as far as a window
    sent,      \* history: the requests that are at most so many ticks old
    faults

queues == <<aux, ingest>>
bucket == <<tokens, refilled>>
vars == <<clock, since, aux, ingest, stored, left, loop, delay, tokens, refilled, sent, faults>>

Slot(kind, t) == (t \div EVERY[kind]) % 2

Full == CAPACITY * WINDOW

\* Of the bucket and of a cadence: an elapsed time, as far as it matters.
Upto(most, n) == IF n > most THEN most ELSE n

Init ==
    /\ clock = 0
    /\ since = [kind \in KINDS |-> EVERY[kind]]
    /\ aux = [id \in AuxIds |-> NoJob]
    /\ ingest = [id \in BarIds |-> NoJob]
    /\ stored = SYMBOLS
    /\ left = {}
    /\ loop = [l \in Loops |-> Awake]
    /\ delay = [id \in BarIds |-> 0]
    /\ tokens = IF ALLOW_BURST THEN Full ELSE 0
    /\ refilled = 0
    /\ sent = [age \in 0..WINDOW |-> 0]
    /\ faults = 0

-------------------------------------------------------------------------------
(* scheduleTick: lastRun is set before the work is asked for. *)

Asked(kind) == /\ kind \in DueAt(clock) \cap KINDS
               /\ since[kind] = EVERY[kind]
               /\ since' = [since EXCEPT ![kind] = 0]

\* enqueueGapRepairs: one job for the missing window of each symbol; the id of
\* a window that was asked for before is a no-op.
EnqueueGapRepairs ==
    /\ Asked("bars")
    /\ ingest' = AddAll(ingest, (SYMBOLS \ stored) \X {LastExpectedSession(clock)})
    /\ UNCHANGED <<clock, aux, stored, left, loop, delay, bucket, sent, faults>>

\* The tick asks in vain and only the next one of its cadence asks again: the
\* database or Redis throws, which is caught, or the cycle before still holds
\* the lock, or left it behind when it died.
AsksInVain(kind) ==
    /\ faults < MAX_FAULTS
    /\ Asked(kind)
    /\ faults' = faults + 1
    /\ UNCHANGED <<clock, queues, stored, left, loop, delay, bucket, sent>>

\* The id of an auxiliary job is its kind and its slot.
EnqueueAux(kind) ==
    /\ kind # "bars"
    /\ Asked(kind)
    /\ aux' = AddAll(aux, {<<kind, Slot(kind, clock)>>})
    /\ UNCHANGED <<clock, ingest, stored, left, loop, delay, bucket, sent, faults>>

-------------------------------------------------------------------------------
(* The token bucket. *)

\* Defect: the content is not capped.
RefilledUncapped == tokens + refilled * CAPACITY

Refilled == Upto(Full, tokens + refilled * CAPACITY)

\* Until a token is there, rounded up; zero when one is ready.
WaitFor(content) == IF content >= WINDOW THEN 0
                    ELSE (WINDOW - content + CAPACITY - 1) \div CAPACITY

\* take(): consume a token, or sleep for the wait and look again.
TakeToken(l) ==
    /\ refilled' = 0
    /\ tokens' = Refilled - WINDOW
    /\ sent' = [age \in 0..WINDOW |-> sent[age] + 1]
    /\ loop' = [loop EXCEPT ![l] = [at |-> "fetching", wait |-> 0]]

Sleep(l) ==
    /\ refilled' = 0
    /\ tokens' = Refilled
    /\ loop' = [loop EXCEPT ![l] = [at |-> "sleeping", wait |-> WaitFor(Refilled)]]
    /\ UNCHANGED sent

\* A loop that wants a token: it has just come to take(), or its timer fired.
Wants(l) ==
    /\ \/ loop[l].at = "asking"
       \/ loop[l].at = "sleeping" /\ loop[l].wait <= 0
    /\ IF WaitFor(Refilled) = 0 THEN TakeToken(l) ELSE Sleep(l)
    /\ UNCHANGED <<clock, since, queues, stored, left, delay, faults>>

-------------------------------------------------------------------------------
(* The auxiliary loop: handleAux. *)

TakeAux(id) ==
    /\ CanTake(aux, id)
    /\ loop["aux"] = Awake
    /\ aux' = Take(aux, id)
    /\ IF id[1] = "intraday"
       THEN /\ left' = SYMBOLS
            /\ loop' = [loop EXCEPT !["aux"].at = "asking"]
       ELSE UNCHANGED <<left, loop>>
    /\ UNCHANGED <<clock, since, ingest, stored, delay, bucket, sent, faults>>

\* Headlines, the earnings calendar, housekeeping: no bucket, no shared state.
FinishAux(id) ==
    /\ aux[id].state = "active"
    /\ id[1] # "intraday"
    /\ aux' = Complete(aux, id)
    /\ UNCHANGED <<clock, since, ingest, stored, left, loop, delay, bucket, sent, faults>>

\* One symbol's intraday bars arrive or its request fails: either way the run
\* goes on to the next, and it ends as completed.
IntradayAnswer ==
    /\ loop["aux"].at = "fetching"
    /\ left' = left \ {Min(left)}
    /\ IF left' # {}
       THEN /\ loop' = [loop EXCEPT !["aux"].at = "asking"]
            /\ UNCHANGED aux
       ELSE /\ loop' = [loop EXCEPT !["aux"] = Awake]
            /\ \E id \in InState(aux, "active") : aux' = Complete(aux, id)
    /\ UNCHANGED <<clock, since, ingest, stored, delay, bucket, sent, faults>>

-------------------------------------------------------------------------------
(* The ingest loop: handleIngest, of which only the request counts here. *)

TakeIngest(id) ==
    /\ CanTake(ingest, id)
    /\ ingest' = Take(ingest, id)
    /\ loop' = [loop EXCEPT !["ingest"].at = "asking"]
    /\ UNCHANGED <<clock, since, aux, stored, left, delay, bucket, sent, faults>>

\* The bars of its window, and no later one.
BarsArrive(id) ==
    /\ loop["ingest"].at = "fetching"
    /\ ingest[id].state = "active"
    /\ ingest' = Complete(ingest, id)
    /\ stored' = stored \cup (IF id[2] = LastExpectedSession(clock) THEN {id[1]} ELSE {})
    /\ loop' = [loop EXCEPT !["ingest"] = Awake]
    /\ UNCHANGED <<clock, since, aux, left, delay, bucket, sent, faults>>

RequestFails(id) ==
    /\ faults < MAX_FAULTS
    /\ loop["ingest"].at = "fetching"
    /\ ingest[id].state = "active"
    /\ ingest' = Fail(ingest, id, ATTEMPTS)
    /\ delay' = [delay EXCEPT ![id] = BACKOFF]
    /\ loop' = [loop EXCEPT !["ingest"] = Awake]
    /\ faults' = faults + 1
    /\ UNCHANGED <<clock, since, aux, stored, left, bucket, sent>>

BackoffOver(id) ==
    /\ ingest[id].state = "delayed"
    /\ delay[id] = 0
    /\ ingest' = Promote(ingest, id)
    /\ UNCHANGED <<clock, since, aux, stored, left, loop, delay, bucket, sent, faults>>

-------------------------------------------------------------------------------
(* The process dies and is started again: a new bucket, no lastRun. *)
Crash ==
    /\ faults < MAX_FAULTS
    /\ faults' = faults + 1
    /\ since' = [kind \in KINDS |-> EVERY[kind]]
    /\ aux' = StallActive(aux)
    /\ ingest' = StallActive(ingest)
    /\ left' = {}
    /\ loop' = [l \in Loops |-> Awake]
    /\ tokens' = IF ALLOW_BURST THEN Full ELSE 0
    /\ refilled' = 0
    /\ UNCHANGED <<clock, stored, delay, sent>>

\* Nothing that is ready waits for more than LATE ticks.
Ready ==
    \/ \E l \in Loops : \/ loop[l].at \in {"asking", "fetching"}
                        \/ loop[l].at = "sleeping" /\ loop[l].wait <= -LATE
    \/ \E id \in AuxIds : CanTake(aux, id)
    \/ \E id \in AuxIds : aux[id].state = "active" /\ id[1] # "intraday"
    \/ \E id \in BarIds : CanTake(ingest, id) \/ (ingest[id].state = "delayed" /\ delay[id] = 0)
    \/ \E kind \in DueAt(clock) \cap KINDS : since[kind] = EVERY[kind]

Finished(job) == job.state \in {"completed", "failed"}

\* A new session is expected: no symbol has it, and its windows are new ids,
\* which those of a week ago stood for.
\* A new slot of a kind is a new id as well.
Tick ==
    LET t == (clock + 1) % (DAY * Len(CALENDAR))
        session == LastExpectedSession(t)
        newSession == session # LastExpectedSession(clock)
    IN  /\ ~Ready
        /\ clock' = t
        /\ since' = [kind \in KINDS |-> Upto(EVERY[kind], since[kind] + 1)]
        /\ aux' = [id \in AuxIds |->
                     IF /\ Slot(id[1], t) # Slot(id[1], clock) /\ id[2] = Slot(id[1], t)
                        /\ Finished(aux[id]) THEN NoJob ELSE aux[id]]
        /\ stored' = IF newSession THEN {} ELSE stored
        /\ ingest' = [id \in BarIds |-> IF newSession /\ id[2] = session /\ Finished(ingest[id])
                                        THEN NoJob ELSE ingest[id]]
        /\ loop' = [l \in Loops |-> IF loop[l].at = "sleeping"
                                    THEN [loop[l] EXCEPT !.wait = @ - 1] ELSE loop[l]]
        /\ delay' = [id \in BarIds |-> IF delay[id] > 0 THEN delay[id] - 1 ELSE 0]
        /\ refilled' = Upto(WINDOW, refilled + 1)
        /\ sent' = [age \in 0..WINDOW |-> IF age = 0 THEN 0 ELSE sent[age - 1]]
        /\ UNCHANGED <<left, tokens, faults>>

Work ==
    \/ EnqueueGapRepairs
    \/ \E kind \in KINDS : EnqueueAux(kind)
    \/ \E l \in Loops : Wants(l)
    \/ \E id \in AuxIds : TakeAux(id) \/ FinishAux(id)
    \/ IntradayAnswer
    \/ \E id \in BarIds : TakeIngest(id) \/ BarsArrive(id) \/ BackoffOver(id)

Next ==
    \/ Work
    \/ \E kind \in KINDS : AsksInVain(kind)
    \/ \E id \in BarIds : RequestFails(id)
    \/ Crash
    \/ Tick

\* The event loop runs and time passes; no fairness on what goes wrong.
Spec == Init /\ [][Next]_vars /\ WF_vars(Work) /\ WF_vars(Tick)

-------------------------------------------------------------------------------
Contract == INSTANCE Envelope
    WITH recent <- sent

\* However the two loops and their timers interleave and however often the
\* process starts over, what the provider sees of the bucket stays inside the
\* envelope of a full bucket and a steady trickle.
ImplementsEnvelope == Contract!Spec

\* Prices that the brief calls old are fetched in the end: on an early close
\* that the schedule only comes back to hours later, over a weekend, behind an
\* intraday run that holds the tokens, after failed requests, after a tick that
\* asked in vain and after a restart.
StaleHeals == \A s \in SYMBOLS : (s \notin stored) ~> (s \in stored)

\* rate-limit.ts:32 - of a rolling-window limit, "starting empty spaces every
\* request evenly.  It costs one interval at start-up and removes the entire
\* class of failure": no window sees more requests than are permitted.
RollingWindow == sent[WINDOW - 1] <= CAPACITY
===============================================================================
