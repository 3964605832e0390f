# A TLA+ model of SITREP

SITREP watches a list of market instruments for a user and answers one
question: what changed since you last looked. Daily bars are fetched from
providers by a worker process, a recompute turns them into events, and the web
application assembles a brief from the events that lie past the user's cursors.
This directory holds TLA+ modules for the parts of it where order matters, the
TLC configurations that check them, and TLAPS proofs of the properties that
matter most. Paths below are relative to the repository.

## The system

| Part | Keeps | Operations | Talks to |
|---|---|---|---|
| Ingest worker (`worker/index.ts`) | the ingest queue (Redis), `daily_bars` (Postgres) | take a job, fetch each source, validate, reconcile, store, complete or fail and back off | providers, Postgres, the settle check through the `completed` event |
| Settle check (`worker/index.ts:311-371`) | a counter and a timer, in memory | count, arm, read three queue depths, re-arm or take the count and add a compute job | both queues |
| Recompute (`src/lib/compute.ts`) | `events`, `themes`, scorecard | load every bar, delete every event, insert day by day, write themes and scorecard, bump the cache generation | Postgres, the cache, and by cascade the users' event rows |
| Gap repair (`src/lib/ingest/gaps.ts`, `enqueueGapRepairs`, `api/cron/ingest`) | nothing of its own; reads `daily_bars` and the calendar | find tail and holes, turn them into one padded window for each symbol, add a job named after it | calendar, ingest queue, `withLock` |
| Lock (`withLock` in `src/lib/queue.ts`) | one Redis key with an expiry | acquire, run unguarded when Redis does not answer, release | Redis |
| Schedule and auxiliary jobs (`src/lib/schedule.ts`, `worker/aux-jobs.ts`) | `lastRun`, the auxiliary queue | tick, add a job named after its time bucket, intraday, news, earnings, maintenance | calendar, providers, sessions |
| User state (`src/lib/sitrep.ts`, `api/watch-state/*`, `api/watchlist/items`) | a cursor for each name, a row for each event, the watchlist | mark seen, mark all, snooze, rewind, add, remove | events (foreign key), cache |
| Brief (`assembleSitrep`) | nothing | window from the oldest cursor, drop what is seen or snoozed, score, count | user state, events, cache |
| Cache (`src/lib/cache.ts`) | a generation counter and entries (Redis), a breaker (memory) | cache-aside read, write-behind, bump, drop a user's key | Redis |
| Authentication (`src/lib/auth.ts`) | sessions, sign-in attempts | register, sign in, throttle, renew, sweep, sign out everywhere | Postgres |
| Engine (`src/engine/*`, `src/lib/pipeline.ts`) | nothing | features, detectors, scores, themes, follow-through, context, narrative | called by the recompute, the brief and the replay |
| Replay (`src/lib/scenarios.ts`) | nothing | step a window of stored history through the engine, session by session | engine, `daily_bars` |
| Ingest algorithms (`reconcile.ts`, `validate.ts`, `market-calendar.ts`) | nothing | reconcile two sources, reject bad bars, sessions and expectations | ingest worker, schedule |
| Token bucket (`src/lib/sources/rate-limit.ts`) | tokens and the last refill, in memory, one for each provider | refill, wait, take | the intraday run and the ingest handler, which wait on the same one |
| Pages, components, scripts | | rendering, one-shot tools | |

What makes it hard: a web process and a worker share Postgres and Redis with no
transactions around their multi-query handlers; the settle check reads three
depths that move while it reads; a recompute deletes and re-creates the rows
that open pages and acknowledgements refer to; the cache is read, filled and
invalidated by handlers that interleave; finished jobs keep their ids; the
worker keeps the state of its debounce in memory; providers publish late, out
of order, or not at all.

What makes each part correct:

* settle check: bars that are stored are reflected by a recompute, the debounce
  never loses a batch or recomputes more often than jobs complete;
* recompute: one that finishes shows no less than any that finished before it; only
  a new one takes anything away;
* gap repair: every published session inside the scan is stored eventually;
* user state: an acknowledgement never undoes another, nothing unseen is
  hidden, nothing acknowledged returns without a reason, the counts of the
  brief are a partition of the watchlist;
* cache: no brief older than the recompute or change it claims to include;
* lock: one cycle at a time while Redis answers, never a stall when it does not;
* authentication: sessions end when they should, the throttle counts all
  attempts in its window but those a sign-in has forgiven;
* ingest: what is stored is never replaced, a disagreement is never passed off as
  fact, one bad row costs no more than itself;
* engine: no day is computed from later ones, series are paired by date, a
  market-wide day is no sector's story, more evidence never lowers a score, the
  replay and the live product tell the same story;
* brief: nothing appears because something else was acknowledged, and nothing is
  left once everything was;
* schedule and bucket: a session that is missing is asked for until it is
  there, and no provider is asked for more than the bucket promises.

## Modules

| Module | What it models |
|---|---|
| `JobQueue` | what `queue.ts` makes of BullMQ: job ids, attempts, backoff, kept results, stalled jobs. Operators on a queue's value; shared by the next two. |
| `IngestPipeline` | `worker/index.ts`: ingest jobs, the `completed` listener, timer, settle checks, compute jobs, crashes. |
| `Publication` | abstract specification: batches land; what the tables show is replaced by emptying and refilling them, which may be given up half-way; a replacement that finishes shows no less than those before. `IngestPipeline` implements it. |
| `GapRepair` | `findGaps`, `repairWindow`, a cycle, and the queue that remembers ids. |
| `WatchState` | cursors, event rows and the brief's filter, for several devices, under recomputes. |
| `WatchHistory` | `WatchState` and a memory of what was acknowledged, for the statement that a code comment makes about it. |
| `BriefCache` | `cached`, `invalidateUser`, `bumpGeneration` around the brief, with outages. |
| `SingleFlight` | `withLock` around the repair cycle, and the cadence that starts it: an expiring key, unanswered commands, processes that die. |
| `Bars` | `validateBars` and `reconcileSeries` as operators on small bars. |
| `Ingest` | `handleIngest` query by query, with two providers and `Bars`. |
| `Features`, `Detectors`, `Scoring` | `engine/math.ts`, `features.ts`, `detectors.ts`, `scorer.ts`: a history of bars to a feature vector, to candidate events, to a score with its explanation. |
| `Pipeline` | `lib/pipeline.ts`, `followthrough.ts`: the window that ends at each day, suppression, cooldown, the rows stored of a day, the scorecard. |
| `Themes` | `engine/theme.ts`: cohesion, timing, size, distinctness, and the market's veto. |
| `Story` | `narrative.ts`, `context.ts`, `position.ts`: which story is told of a day, what else was going on, how it bears on a position. |
| `Replay` | `lib/scenarios.ts`: one session of a stored window, over the modules above. |
| `Brief` | `sitrep.ts` from the visible events on, and `briefing.ts`: window statistics, items, ranking, budget, chronology, "came and went". |
| `Engine` | sessions close and `computeAndPersist` replaces events, themes and scorecards: the six modules above in use. |
| `Desk` | `Engine` and a user who opens the brief, acknowledges and defers. |
| `Accounts` | `lib/auth.ts`, the auth routes and the form: throttle, sign-in, registration, sessions, query by query. |
| `Schedule` | `market-calendar.ts` and `schedule.ts` over a repeating calendar. |
| `Feeds` | `scheduleTick`, the auxiliary and the ingest loop, and the token bucket they share. Extends `Schedule` and `JobQueue`. |
| `Envelope` | abstract specification: what a provider sees of a rate limit. `Feeds` implements it. |
| `IngestPipelineProofs`, `WatchStateProofs`, `BriefCacheProofs`, `SingleFlightProofs`, `IngestProofs`, `FeedsProofs`, `AccountsProofs`, `EngineProofs` | the theorems, each about the module it is named after. |
| `MC*` | instances for TLC. |

Operators whose comment begins with *Defect* are plausible bugs. No
specification uses them; each shows, put in the place of the definition below
it, that a property notices.

### IngestPipeline

`ingest` and `compute` are the queues; `landed` the batches whose `createMany`
has committed; `announced` the jobs that are completed in Redis and whose
`completed` event the listener has not handled; `counter` and `timer` are
`ingestedSinceCompute` and `settleTimer`; `check` is one record for each settle
check in flight (the timer's callback is asynchronous, and a second can begin
while the first awaits); `run` is the recompute in progress and the batches it
loaded; `covered` the batches that the rows in `events` reflect at this moment.
`CheckRecords.late` is a history component, and so are `whole` and `published`:
whether the tables are as the last finished recompute left them, and what that
one reflected. `handleIngest` is split where another process can see the
difference: bars stored (`LandBars`), returned (`CompleteIngest`), thrown before
or after storing (`FailIngest`). So is a recompute: it deletes every theme and event
(`ClearTables`, `compute.ts:86-89`), inserts them again (`WriteEvents`) and returns
(`FinishCompute`), outside any transaction. One that throws or dies in between
(`FailCompute`, `Crash`) leaves the tables empty or partly filled, until a retry or
a later recompute has come through. Each await of the settle check is a step. A
crash empties what is in memory and stalls what was active; BullMQ puts a
stalled job back once and fails it the second time.

Assumption about BullMQ: finished jobs are not aged out. `queue.ts` keeps 200
completed and 100 failed ones, more than the spans modelled here produce.

Fairness, in `FairSpec` only: every handler that runs returns or throws, a
waiting job is taken, a backoff ends, an armed timer fires, an awaited call is
answered, because the worker process runs them unconditionally. Nothing is
assumed of new jobs, errors and crashes. Weak fairness suffices: none of these
steps is disabled by another one for ever.

### GapRepair

Sessions are numbers; `expected` is `lastExpectedSession`; `published` and
`stored` are per symbol; `plan` holds the jobs of a cycle between `findGaps` and
`addBulk`, during which the queue and the bars move. The provider publishes
sessions late and in any order, and a fetch that finds something may still fail
(`MaxOutages`). `Pad`, `MaxRepair`, `HoleScan` and `Attempts` stand for the
constants of the code, scaled down so that a short calendar exceeds them. A
symbol with no bars at all is never repaired by this path (the backfill script
is for that), and the model starts from one bar. The lock is left to
`SingleFlight`: here cycles of the schedule and of the cron route may run back
to back, as they can when it fails open.

Fairness: a cycle comes round (`scheduleTick` runs every minute of the worker's
life), its jobs are added, taken and worked, and a backoff ends. None on the
calendar or the provider.

### WatchState and WatchHistory

One user. `planted` and `cursor` are `UserWatchState`, `rows` is
`UserEventState`, `page` the card a device has loaded, `req` the request that
each device has open. A request is a sequence of queries, one action each, so
the two reads and writes of `markSeen` interleave with those of another device
and with the delete and inserts of a recompute. `overtaken` is a history
component. A recompute gives its events new ids (`@default(uuid())`), and the
cascade deletes the rows that refer to the old ones. Inserting a day is atomic
(`createMany`), a recompute is not. The brief is read in one step, and every
name with a visible event is taken to surface: what the scorer does with it is
not modelled, so `WithinNormalRange` speaks of names whose events surface.

`WatchHistory` adds what the code does not keep, by market day rather than
event id: what a successful request has acknowledged. A rewind or a snooze asks
for it back in the query that takes effect, and so withdraws what an overlapping
acknowledgement was about to add; what the `acknowledged` run finds is therefore
no matter of how two requests overlap. Its instance has one device.

### BriefCache

A brief is abstracted to how many recomputes and how many of the user's changes
it includes, and whether it was read half-way through a recompute. `cached` is
four steps (generation, get, assemble, write-behind), a change three
(generation, del, answer) after its commit. An outage makes every command
resolve to its fallback: generation 0, a miss, no write. The circuit breaker
only prolongs that, so it is part of the outage. All commands go down one
connection, so the write-behind takes effect where it was issued.

`StaleOnlyIfOverlapped` is as much as the code gives of "Safe because both
directions are covered" (`src/lib/sitrep.ts:246`): a load that read before the
user's change can write its brief after the change's DEL, and later loads are
served it until it expires.

### SingleFlight

`lock` is the Redis key with the time it has left, `since` the time since a
worker's last cycle began (`lastRun`), `call` the calls of `withLock`, each with
a token of its own, `late` the SETs that `withLock` gave up on and that may take
effect all the same. `lost` is a history component: the calls that were granted
the key and do not hold it any more. Time is in units of five minutes, so that
`Lease = 2` and `Cadence = 3` are the 600 seconds and 15 minutes of the code to
scale; the two seconds of `LOCK_TIMEOUT_MS` fit within a unit, hence no unit
passes while a SET is awaited. Two workers stand for one being replaced by
another. A call's token is used again only when no trace of it is left.

Fairness: time passes; the schedule's interval fires; an awaited command is
answered or given up; a SET left behind takes effect or is lost; a cycle
returns. None on faults and restarts, which are bounded.

### Bars and Ingest

A bar keeps one price (open, high, low and close are compared alike and
rejected alike), the adjusted close, which no code compares, and the volume. The
ratios of the code are in thousandths, rounded down. The two loops that carry
something from day to day are recursive functions over the days: `LastClose` is
`previousClose` and `previousDate` of `validateBars` before each day, `History` is
`recentCloses` of `reconcileSeries`, and each day is judged by what they hold.

In `Ingest`, `stored`, `conflicts`, `rejected`, `runs` and `failing` are the
tables `daily_bars`, `bar_conflicts`, `dead_letters`, `ingest_runs` and
`data_freshness` as far as decisions or properties look at them; `job` is what
the handler holds between two awaits. A job's window is `repairWindow`'s, four
days wider than what was missing. A provider answers with all of the window, its
oldest or its newest bar only, and at most one bar of an answer is wrong; or it
fails. Two wrong bars in one answer are not modelled, and `OneBadRowCostsOneRow`
depends on that. The backfill has stored the first days from both sources.

The padding and the move check meet in a way that only shows when both are
modelled: the first row of an incremental fetch is always a stored one, so what
the anchor protects is the rows after it (`OneBadRowCostsOneRow`), while a row
that a provider returns alone lies more than four days after the anchor and is
checked against nothing (`GlitchOnlyAcrossAGap`). Such a glitch, once stored,
is the anchor of a later window and has its true rows rejected.

### The engine: Features to Engine

These modules are operators: the functions of `src/engine` and `lib/pipeline.ts`
keep no state. Prices are integers on a logarithmic grid, so that a log return is
a difference; quotients are fractions of integers, square roots are rounded to
tenths of a sigma, weights and confidences are percents, a score is in
thousandths of a point. What the code returns as `null` is the empty set. The
windows (60 bars of history, 20 of volatility, 90 of regression, ...) are the
record `W` and the thresholds the record `T`; the instance scales the windows to
a short history, the long ones longer than the short ones they are compared with,
and keeps all thresholds but one (the quietest share of the days).
Every comparison of the detectors, every gate, cap and suppression of the
scorer, every rule of the narrative and every factor of the context match is
there; headlines, labels and other wording are not.

`Engine` has one action for a session: it adds a bar to each series that was
printed and recomputes, as `computeAndPersist` does, `events`, `themes` and
scorecards together. That a recompute is not one step is what `IngestPipeline`,
`WatchState` and `BriefCache` are about; here it is what it computes that
matters. `ReplayOf` is the replay of a date of the same series.

`ReplayOf` loads the rows of the context table that are dated inside its window
(`ContextOf`, `scenarios.ts:181-188`), and each of its steps is matched against all
of them, a row of a later day included.

`PointInTime` compares two whole recomputes, so it sees a look-ahead wherever it is:
a proxy's bar, a benchmark's, a report, a theme. It compares the step of a replay
whose window ends on the day with the step for that day in one that goes on. They
are equal in all but the curated context, and that differs only where the longer one
tells a row of a later day. `ReplayTellsTheSameStory` is stated for days without a
report ahead: the replay is given no earnings calendar. Names on a replayed card are
a subset of the stored ones, because `computeAndPersist` stores every signal of a
day that matters and the replay shows a day only if it surfaces.
`ReplayScoresLikeTheDesk` sets the replay's card, scored by the pipeline from the
signals of the day, beside the card of that evening's brief, scored again from the
stored rows: the same score and the same first reason. Its conditions say when that
can be expected: every event of the day is of a severity that the brief loads, no
report is ahead, and the pipeline called the move the name's own exactly if the
sector detector fired, which is how the brief tells (`RowContext`). Without any one
of them the two cards can differ. `CorroborationNeverHurts` allows a hundredth of a
point for the rounding of this model.

### Brief and Desk

`AssembleSitrep` is the function from what the database holds for a user to the
brief. A day has a number; a bar is stamped at its midnight, an event at the close,
a cursor at an instant of the day before or after it, as in the code, where the
three meet in one comparison. `Desk` lets one user work: open, mark a card seen,
mark all, defer, between and after sessions. On the day of an early close
(`EarlyCloses`) the bars are computed while the 21:00Z that `compute.ts:253` stamps
on the events is still ahead; `StampPasses` is that moment, and a click comes before
the close, between the two, or after both. `QuietOnceAllSeen` says what each gives:
after the stamp the brief is quiet, before it the events of this one session come
back. A deferral does not lapse here (`WatchState` has that), and requests do not
overlap.

### Accounts

A request of a browser is a chain of queries, each an action: the throttle is
counted (`Submit`), the password checked and its outcome recorded (`Fails`,
`Succeeds`), the session opened (`OpensSession`). A registration looks for the
address (`FindsAddressFree`) and creates the account (`CreatesAccount`), which the
unique key refuses if another request came first. `currentUser` is `Accepted`
followed by the write of `lastUsedAt` (`Touch`), or `Refused`. The five durations
are constants. A row of `failures` carries a number that tells it from another of
the same address, place and time. Hashing is a yes or no. The clock may be set back
once: what ended must not return even then, while the two invariants about durations
are stated for a clock that goes forward. A tick is long beside the write of one
row, so none passes inside `Touch`; without that a request paused for days could
write an old `lastUsedAt`. There is no fairness: nothing here must happen.

`GuessesAreBounded` is about guesses rather than rows: `standing` holds the failed
attempts since which nobody signed in to the address they were made at. It is as
much as the code gives in two ways. Counting and recording are different queries,
so each browser that had passed the count before the others were recorded has one
more guess. And a sign-in forgives the guesses at its address to every place they
came from, so over all of them there is no bound. `MAX_GUESSES` bounds the rows of
`failures` that an instance keeps.

### Schedule, Feeds and Envelope

The calendar is a sequence of days, each a session, an early close or closed,
that repeats. `since` is `lastRun`; jobs are named after their kind and time
bucket, and only two buckets of a kind are told apart (older ids have aged out
by then). One symbol's missing window has one name until the next session is
expected, as `repairJobId` gives it; a job delivers the session its window was asked for and
none that closed since. A tick may ask in vain (`AsksInVain`): the schedule catches
what the enqueuing throws, and a cycle whose lock is held is skipped, in both cases
until the cadence comes round again. Both loops ask the bucket; a token is
`WINDOW` units of its content, so a tick adds `CAPACITY`. A caller that wakes
up to find the token gone sleeps again. Other content of the handlers is
`Ingest`'s and `GapRepair`'s.

`Envelope` knows no tokens: over any span up to a window the requests are at most
a full bucket and what trickles in. `sent` and the abstract `recent` count the
requests that are at most a given number of ticks old, and `ImplementsEnvelope` is
`INSTANCE Envelope WITH recent <- sent`; a request maps to `Request`, a tick to
`TimePasses`, all else stutters. A restart empties the bucket, so it stays inside
the envelope. `ALLOW_BURST` is the bucket's option of that name: the bucket the
worker's fetches share starts empty (`rate-limit.ts:92`), the one of the other
provider starts full (`rate-limit.ts:120`), and for it a restart would break the
envelope; the runs and the theorems are about the former.

Fairness: the worker's event loop runs (`WF(Work)`), and time passes
(`WF(Tick)`), which waits for work that has been ready for `LATE` ticks. Nothing
is assumed of failures and restarts; their number is bounded. `StaleHeals` needs
no more: on an early close the schedule comes back only after the regular hour,
behind an intraday run that holds the bucket.

## Runs

Passing runs, each with its bounds:

| Run | Instance | States | Shows |
|---|---|---|---|
| `pipeline` | 2 jobs, 2 compute ids, 2 overlapping checks, 2 attempts each, 1 fault | 134,820 | `NoForgottenBatch`, `SettleMissesOnlyLateJobs`, `OneRecomputePerBatch`; implements `Publication`; `EveryBatchIsRecomputed` |
| `gap_repair` | 1 symbol, 4 sessions, tail cap 2, scan 3, 2 attempts, 1 outage | 61,998 | `GapsHeal` |
| `watch_state` | 2 devices, 2 names (2 sessions of the one), 2 requests, 2 recomputes, clock 0..2 | 443,000 | `OwnCursorSuffices`, `EachNameCountedOnce`, `AcksGoBackOnlyAcrossTheGap`, `ReappearsOnlyForAReason` |
| `brief_cache` | 2 loads, 1 writer, 1 recompute, 2 changes, 1 outage | 1,950,000 | `CurrentEntryIsCurrent`, `StaleOnlyIfOverlapped` |
| `single_flight` | 2 workers, 3 calls, lease 2, cadence 3, 2 faults | 130,380 | `OneHolderOfTheKey`, `OnlyALoserRobs`, `RefusedOnlyFromOutside`, `CyclesGoOn` |
| `ingest` | 5 sessions, 2 of them backfilled; 2 wrong bars; 2 jobs, 1 crash | 595,143 | `DisputeIsNotSettled`, `GlitchOnlyAcrossAGap`, `OneBadRowCostsOneRow`, `BarsAreOnlyAdded` |
| `engine` | 7 series (4 names, 2 sectors), 12 sessions of history and 3 more, each of 5 kinds | 186 | `PointInTime`, `ReplayTellsTheSameStory`, `ReplayScoresLikeTheDesk`, `CrashIsNotATheme`, `ContextReachesAsFar`, `PairedByDate`, `CorroborationNeverHurts` |
| `desk` | the same market, 2 sessions, the first an early close, a watchlist of 3 names with priorities and intents | 8,522 | `AcknowledgingAddsNothing`, `QuietOnceAllSeen` |
| `account` | 2 browsers, 2 addresses (1 registered), 2 sessions, 3 failures kept, times 0..4, clock set back once; absolute 3, idle 2, window 3, backoff after 1, lockout after 2 | 2,902,972 | `ActiveStaysSignedIn`, `GuessesAreBounded`, `EndedStaysEnded` |
| `feeds` | 3 days of 12 ticks (session, early close, closed), 3 kinds of work, 2 symbols, capacity 2 in a window of 3, 1 fault | 110,472 | implements `Envelope`; `StaleHeals` |

Why these are enough: two jobs let one be stored while the other is in each
state, two checks overlap, one fault hits each point; two attempts distinguish
a retry from giving up. Four sessions exceed both the tail cap and the scan.
Two devices and two names give every pair of overlapping requests and a window
that another name holds open; two recomputes let an id be replaced. Two loads
and one change give every order of a miss, a change and a write-behind. Three
calls let a key pass from one to a second while a third waits, and two faults
give a late SET and a crash. Two jobs let what the first stored be the anchor
and the duplicates of the second; one wrong bar is off by a factor of ten, which
validation sees, the other by a sixth, which only three settled closes before it
tell. In `engine` the kinds of session are a
quiet one, a crash of everything, a fall of one sector, a rise of one name on
disputed prices and one with a name not printed: their sequences of three give
every neighbourhood of a theme, a hole and a dispute, and the run is slow not for
its states but because each state is several recomputes. In `account` the idle
limit ends before the absolute one and both within the time bound, and two
browsers are enough for one to sign the other out. In `feeds` the symbols need as
many tokens as the bucket holds, so that both loops wait for it. Larger
instances were run as well: three requests in `watch_state` (2.9 million
states), two recomputes in `brief_cache` (7.6 million), with the same result.
Devices, loads, writers
and browsers are symmetric. Deadlock is not checked where models may come to
rest: the bounds end their environment. In `single_flight` time goes on, so
there it is checked.

Where the code disagrees with what it says of itself, a run shows how. Each
checks one statement and finds it violated:

| Run | Statement | What happens |
|---|---|---|
| `acknowledged` | "acknowledging something and then seeing it again would break ..." (`src/lib/sitrep.ts:1054`) | of two watched names a card is marked seen; a recompute replaces its event, and the row that said so goes with the old id; the window is opened by the other name's older cursor, and the event is in it again under its new id |
| `burst` | "Starting empty spaces every request evenly ... removes the entire class of failure" (`src/lib/sources/rate-limit.ts:32`) | the bucket fills up again whenever it is idle for a window, as between two intraday runs; the next run sends a full bucket at once and, with what trickles in, more than the limit in one rolling window |

### Seen while modelling

Read in the code, most of them behaviours of the models, but with no run of
their own:

* The settle count lives in memory: a worker that dies between a completion and
  its check loses that recompute ("Recompute once, after the whole batch has
  actually landed", `worker/index.ts:311`).
* A recompute empties `themes` and `events` before it fills them, with no
  transaction around (`src/lib/compute.ts:86`): while it runs, and after it has failed
  for good, a brief that is not cached is assembled from what is there. `Publication`
  promises no more than that.
* A step of the replay is to see "exactly what it would have seen on T and nothing after"
  (`src/lib/scenarios.ts:22-28`), yet its curated context is matched over the whole
  window: a row of the next days can be told of a day before them, and is absent from
  a replay that ends on the day. `PointInTime` makes an exception for it.
* The replay and the brief can give a day different scores: the pipeline asks
  the regression whether a move was the name's own, the brief whether the
  sector detector fired; an event of severity `NOISE` counts for the one and is not
  loaded by the other.
* On an early close a recompute can run before 21:00Z and stamps its events 21:00Z
  all the same (`src/lib/compute.ts:253`): what is marked seen in that time comes back.
* A cycle that dies leaves the lock behind, and the first cycle after the restart
  can find it held; bars are then asked for one cadence later.
* A window whose job ran out of attempts is asked for under the id that is still
  kept (`removeOnFail: 100`), so it is not retried next cycle
  (`worker/index.ts:134`).
* Two overlapping acknowledgements can move a cursor back: `cursorVersion` is
  incremented and never compared (`src/lib/sitrep.ts:981`). What remains true is
  `AcksGoBackOnlyAcrossTheGap`.
* A rewind writes its target into cursors older than it, moving those forward
  (`api/watch-state/rewind/route.ts:22`).
* An overruled close is replaced in the stored bar, its adjusted close is not
  (`src/lib/ingest/reconcile.ts:254`).
* The baseline of the window statistics is the last bar dated at or before the
  cursor by midnight, so a cursor set before the close already has that day's
  close as its baseline (`src/lib/sitrep.ts:805`).
* The seconds a throttled sign-in is told to wait are not what it waits for: the
  failures stay in the window of fifteen minutes, and so does the refusal
  (`src/lib/auth.ts:224`).
* "The IP counter is deliberately NOT cleared" (`src/lib/auth.ts:258`) holds for the
  guesses made at other addresses. A sign-in deletes the rows of its own address, and
  the counters of the places they came from count the same rows: they lose them too.
* After an early close the calendar expects the bar 90 minutes after 13:00, and
  the schedule first asks for it at 17:30: for three hours the brief calls prices
  old that nothing has asked for.
* The narrative's breadth counts names that moved up only
  (`src/lib/sitrep.ts`, `breadth`).
* A round trip is counted where an excursion reaches 15%; that it is also "at least
  twice the net move" (`src/lib/sitrep.ts:659`) is not asked (`RoundTrips`).
* After its cool-off the cache's breaker lets every caller through, not one.

## Proofs

Checked by TLAPS for every value of the constants that satisfies the modules' named
assumptions, which TLC evaluates on each run: `PipelineAssumption`,
`CacheAssumption`, `WatchAssumption` (the names are finitely many),
`LockAssumption`, `IngestAssumption` (bars are records of integers and the right one
is sound), `FeedsAssumption` with `ScheduleAssumption`, `AccountsAssumption` (the
browsers are finitely many), `WindowsAssumption` (the windows are positive, and a
history has a bar before its last), `ThresholdsAssumption`, and `EngineAssumption`
with `DeskAssumption` (a watchlist is a sequence of its rows): a series has one bar
for a date and is loaded in their order, as `orderBy: barDate` and the unique key of
`daily_bars` make it; prices are numbers; the history is of the days before the
first; the benchmark is of no sector; a session moves only prices there are; the
rows of the context table are dated and their importance has a weight. Two theorems
have a hypothesis of their own: that the bucket starts empty, and that the lease is
no longer than the cadence. In the code the lease is 10 minutes (`withLock`'s
`ttlSeconds`) and the cadence 15.

| Module | Theorem | Property |
|---|---|---|
| `IngestPipelineProofs` | `TypeCorrect`, `NothingForgotten`, `SettleIsSound`, `NoRecomputeForNothing`, `PipelineImplementsPublication` | all of the safety properties of `IngestPipeline`, and its refinement |
| `BriefCacheProofs` | `TypeCorrect`, `CurrentEntryStaysCurrent`, `OnlyTheOverlapIsStale` | all of `BriefCache` |
| `WatchStateProofs` | `TypeCorrect`, `CursorsAreMonotonicButForTheGap`, `OldestCursorHidesNothing`, `NamesAddUp`, `NothingComesBack` | all of `WatchState` |
| `SingleFlightProofs` | `TypeCorrect`, `MutualExclusion`, `ReleaseSparesOthers`, `NeverRefusedByOneself` | the safety properties of `SingleFlight` |
| `IngestProofs` | `TypeCorrect`, `NeverOverwritten`, `DisputesAreKept`, `GlitchNeedsAGap` | all of `Ingest` but `OneBadRowCostsOneRow` |
| `FeedsProofs` | `BucketImplementsEnvelope`, `WindowSeesLessThanTwice` | the refinement; and what a rolling window does see |
| `AccountsProofs` | `EndedIsForGood`, `ActiveIsNotSignedOut`, `GuessesStayBounded` | all of `Accounts` |
| `EngineProofs` | `NothingLooksAhead`, `ReplayTellsWhatIsStored`, `OwnSeriesNeverDiverges`, `ContextIsNeverOutOfReach`; of `Desk`, `NothingAfterAllSeen` | `PointInTime`, `ReplayTellsTheSameStory`, `PairedByDate`, `ContextReachesAsFar`; `QuietOnceAllSeen` |

The arguments, and the invariants that were needed:

* **Pipeline.** `NoForgottenBatch` is inductive only together with what a
  recompute in progress has loaded (`RunInv`: its bars contain everything covered,
  a run is in progress only while a compute job is active). For
  `SettleMissesOnlyLateJobs` the strengthening says what each partial reading has
  established: when a check has read the first list and found it empty, every live
  job is in a list it has not read yet, or late. `OneRecomputePerBatch` counts: a
  completed job pays for one thing at a time, its event on the way to the listener,
  its share of the counter, a check about to add a recompute, or the recompute.
  Nothing is assumed of the number of ids; only finitely many were ever used. The
  refinement maps the four variables to themselves: `LandBars` is `Land`,
  `ClearTables` is `Withdraw`, `WriteEvents` is `Refill`, `FinishCompute` is `Finish`, all
  else stutters, a failure and a crash included. That a recompute which finishes shows
  no less takes that bars are never deleted and that it loads them all (`RunInv`).
* **Cache.** The current entry: nobody holds a key that is not handed out yet
  (`NothingAhead`), a recompute that has written everything is ahead of the
  generation (`RunBound`), and what a load is about to write under the current
  generation is as new as the entry must be. The user's changes: `CoveredFrom(g, c)`
  says that whatever is cached under key `g` or a later one, or is about to be, has
  the changes up to `c` or was overtaken by a DEL. What was answered is covered from
  the current key on, what a load waits for from its own key on, what a request has
  changed from the key it is about to drop on.
* **Watch state.** `GapInv` is what a request knows between its read and its write:
  the cursor is behind it unless another request has written it since. That the
  populations of the brief add up is a count of three disjoint sets;
  `ReappearsOnlyForAReason` follows from what each step can do to the row of an event
  that stays.
* **Lock.** `KeyInv`: a call that was granted the key has its token in it or is in
  `lost`. `RefusedOnlyFromOutside` is an argument about time. For a call that holds
  the key, the rest of the lease and the time since its process began a cycle are
  together at most the lease (`LeaseRuns`); a process begins a cycle only after a
  cadence, so by then the key has expired; and a SET that was given up and takes
  effect late belongs to a call that holds nothing (`GivenUp`).
* **Ingest.** `IngestInv` keeps, of the bars on their way through a job, what came
  with the answer they are from: a glitch in it has no neighbour in the days before
  it, and every disputed price has its row. The theorems are about `validateBars` and
  `reconcileSeries` on series of any length, which is an induction over the days.
  The library's induction rules take a predicate as a parameter, which the provers
  cannot instantiate; `SetInduction` states the rule for a set, from the fact that the
  naturals are well founded, and `LastCloseDef` derives from it that the recursive
  function has the value its equation gives.
* **Bucket.** `Balanced`: for each span, the requests sent within it and what is
  still in the bucket came out of a full bucket and what trickled in since. A request
  takes a token's worth from both sides, a tick adds the same to both, a restart only
  takes away. The comment's promise that no window sees more than the limit is refuted
  by the `burst` run; that it sees less than twice the limit is a theorem.
* **Accounts.** What has ended is out of the table, and whoever is about to revoke
  a user's sessions is that user (`EndedInv`); the rows tell, within the hour, when a
  session was used, and one that left the table without having ended is old
  (`ActiveInv`); the failures of a window and the attempts that were let in are counted
  together (`GuessInv`), and no row that stands is missing from the table the throttle
  counts (`Stands`).
* **Context.** Each factor of a match is a percentage, so a product is no larger
  than its least factor; 30% or 25% for the scope, or 10% for the sector, keep an event
  below the floor of 45% whatever the others are.

* **Point in time.** The state invariant is small: every series is chronological,
  holds nothing after today, and `computed` is what `ComputeAndPersist` makes of them.
  The work is in the operators: each reads a series through a window that ends at a
  session, or through `ProxyWindow`, and both are the same of a series and of what was
  there on that day (`Upto` is an initial part). From there equality passes upwards,
  one lemma for each operator of the pipeline, to the members, the themes, the rows
  and the step of a replay. Two replays load different rows of the context table; where
  what they match differs, the row is one of the longer window's last days.
* **Replay.** Two programs are shown equal piece by piece: without a report ahead
  `RunPipeline` gives both the same days; `ThemeMemberFor` and `ThemeMembers` give the
  same member where either gives one; both list them in the order of the names
  (`Known` over `Universe`), and `DetectThemes` is the same operator. That no
  report is near has to be read off what is stored: a report that is near fires
  `EarningsUpcoming`, whose event makes the day loud whatever else is in it
  (`ReportsAreLoud`), so it would be among the events kept; and without it the
  reports count for nothing (`ReportsCountOnce`).
* **Own series.** Paired by date, a series with a hole and its full series give one
  and the same sequence of returns. A regression on itself has slope one and leaves
  nothing (`RegressedOnItself`); a correlation with itself is the same for the short
  and for the long window (`CorrelatedWithItself`); neither detector can fire
  (`NothingDiverges`). That the numbers compared are not undefined takes
  Cauchy-Schwarz over sums of any length (`CrossIsPositive`), an induction of the kind
  described under Ingest. `PricesKept` is the invariant: prices are numbers.
* **Seen.** A cursor after the stamp lies past every event of the day; what is
  unseen is empty, so no item is made, and nothing is surfaced. One between an early
  close and the stamp lies past the events of every session but the latest, so an item
  is of a name that has one of those.

The invariants were checked by TLC on the runs' instances before they were proved.

Model-checked only:

* liveness (`EveryBatchIsRecomputed`, `GapsHeal`, `CyclesGoOn`, `StaleHeals`), which
  needs fairness;
* `OneBadRowCostsOneRow`, which is not true for every value of the constants: it
  depends on a calendar whose gaps are within what the move check spans and on how far
  off the wrong rows are;
* `CrashIsNotATheme`, which is a statement about a market like the run's: where every
  member's beta is well below one, a day on which they moved as far as the benchmark
  is left mostly unexplained by it, and the distinctness that vetoes a theme stays high;
* `ReplayScoresLikeTheDesk`, which compares two computations that the code
  writes out twice, on the events of the run's market;
* `CorroborationNeverHurts`: how far the rounding of this model can lower a score
  depends on the weights and the number of families in an instance;
* of `Desk`, `AcknowledgingAddsNothing`, a statement about a watchlist like the
  run's: a name whose weaker evidence is no longer counted may score higher;
* type correctness of `GapRepair`.

## Not modelled

HTTP and the mapping of providers' JSON, hashing and password rules, rendering,
wording, one-shot scripts, the settings route, the operations page. Real numbers:
the engine's models use ticks and rounded roots, so a statement about values that
lie within their rounding of a threshold is not made. What the cuts of the brief
leave out (4 chapters, a budget of 5, 8, 30 and 40 rows) is in `Brief`, but three names
do not reach them, so no property speaks of it. New York's offset and the
tables of holidays are data. What a news or an earnings job stores is read by the
brief as given. Two user-state hazards are known and covered by no property: a
mark-seen that fails on an id a recompute has replaced leaves the cached brief in
place, since `WatchState` and `BriefCache` are not composed; and a name that is
acknowledged before an older day's event arrives never shows that event.

## Plan

Built: `JobQueue`, `IngestPipeline`, `Publication`; `WatchState`, `WatchHistory`;
`BriefCache`; `GapRepair`; `SingleFlight`; `Bars`, `Ingest`; `Features` to
`Engine`; `Brief`, `Desk`; `Accounts`; `Schedule`, `Feeds`, `Envelope`. Left, in
order of importance:

1. Proofs: type correctness of `GapRepair`, with the lemma that the window of a
   repair spans everything that is missing.
2. Bounds under which `CorroborationNeverHurts` holds for every instance, as
   hypotheses of a theorem.
3. `WatchState` and `BriefCache` composed, for a mark-seen that fails half-way
   and the brief that stays in the cache.

A component added later shares a run with a related one where its question
allows, so that the suite stays as short as the questions are few.
