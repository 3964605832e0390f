------------------------------- MODULE JobQueue -------------------------------
(***************************************************************************)
(* The part of BullMQ that src/src/lib/queue.ts and src/worker/index.ts    *)
(* rely on, as operators on a queue's value: a function from custom job    *)
(* ids to job records.  BullMQ itself is a dependency; what is written     *)
(* here is the behaviour that the options in queue.ts select.              *)
(*                                                                         *)
(*   "absent"     no job with this id is kept in Redis                     *)
(*   "waiting"    in the wait list                                         *)
(*   "active"     held by the worker (concurrency is one per queue)        *)
(*   "delayed"    failed, waiting out its backoff before another attempt   *)
(*   "completed"  done; kept, with its id, by removeOnComplete             *)
(*   "failed"     out of attempts; kept, with its id, by removeOnFail      *)
(*                                                                         *)
(* A finished job is kept until 100 (or 200) later ones have finished, so  *)
(* over the spans modelled here its id is never released.                  *)
(***************************************************************************)
EXTENDS Naturals

JobStates == {"absent", "waiting", "active", "delayed", "completed", "failed"}

\* made: attempts that ended in an error.  stalled: BullMQ has already put the
\* job back once because the worker that held it disappeared.
JobRecords == [state : JobStates, made : Nat, stalled : BOOLEAN]

NoJob == [state |-> "absent", made |-> 0, stalled |-> FALSE]

InState(q, s) == {id \in DOMAIN q : q[id].state = s}

Live(q) == {id \in DOMAIN q : q[id].state \in {"waiting", "active", "delayed"}}

\* Queue.add / addBulk with a custom jobId: an id that is still kept, finished
\* or not, makes the call a no-op.
AddAll(q, ids) ==
    [id \in DOMAIN q |-> IF id \in ids /\ q[id].state = "absent"
                         THEN [NoJob EXCEPT !.state = "waiting"]
                         ELSE q[id]]

\* The worker takes a job: there is one slot per queue (CONCURRENCY).
CanTake(q, id) == q[id].state = "waiting" /\ InState(q, "active") = {}

Take(q, id) == [q EXCEPT ![id].state = "active"]

Complete(q, id) == [q EXCEPT ![id].state = "completed"]

\* Defect for the checks: a failed job is parked in a list nothing reads.
FailParked(q, id, attempts) ==
    [q EXCEPT ![id].made = @ + 1,
              ![id].state = IF q[id].made + 1 < attempts THEN "paused" ELSE "failed"]

\* The handler threw: back off and try again while attempts are left.
Fail(q, id, attempts) ==
    [q EXCEPT ![id].made = @ + 1,
              ![id].state = IF q[id].made + 1 < attempts THEN "delayed" ELSE "failed"]

\* The backoff of a delayed job has run out.
Promote(q, id) == [q EXCEPT ![id].state = "waiting"]

\* The worker process died: its job is found stalled and goes back to the wait
\* list, once; a job that stalls a second time is failed (maxStalledCount = 1).
StallActive(q) ==
    [id \in DOMAIN q |->
        IF q[id].state # "active" THEN q[id]
        ELSE [q[id] EXCEPT !.state = IF q[id].stalled THEN "failed" ELSE "waiting",
                           !.stalled = TRUE]]
===============================================================================
