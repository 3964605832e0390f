----------------------------- MODULE SingleFlight -----------------------------
(***************************************************************************)
(* withLock of src/src/lib/queue.ts around the gap-repair cycle, and the   *)
(* schedule of src/worker/index.ts that starts those cycles.  The lock is  *)
(* one Redis key with an expiry: SET NX EX, then GET and DEL to release.   *)
(* It fails open: when the SET is not answered in time the work runs       *)
(* unguarded, and the SET may still take effect afterwards.                *)
(*                                                                         *)
(* Time is counted down rather than up, in units in which the constants of *)
(* the code keep their proportions: LOCK_TIMEOUT_MS is far below one unit, *)
(* so no unit passes while a SET is awaited.                               *)
(***************************************************************************)
EXTENDS Naturals

CONSTANTS Workers,     \* worker processes: two while one is being replaced
          Calls,       \* calls of withLock in progress together, each a token
          Lease,       \* ttlSeconds: how long the key lives
          Cadence,     \* everyMs of the `bars' cadence
          MaxFaults,   \* bound: unanswered commands and crashes
          Nobody       \* no key

ASSUME LockAssumption ==
    /\ Lease \in Nat \ {0} /\ Cadence \in Nat \ {0} /\ MaxFaults \in Nat
    /\ Nobody \notin Calls \cup Workers

VARIABLES
    lock,      \* the key: whose token it holds, and how long it lives on
    since,     \* time since a worker's last cycle began, at most Cadence
    call,      \* the calls of withLock
    late,      \* calls whose SET has been given up and may still take effect
    faults,    \* unanswered commands and crashes so far
    lost       \* history: calls granted the lock whose key expired, or was
               \* deleted by another, before they gave it back

vars == <<lock, since, call, late, faults, lost>>

Steps == {"idle", "setting", "guarded", "unguarded", "checking", "deleting"}
Free == [token |-> Nobody, ttl |-> 0]
NoCall == [at |-> "idle", by |-> Nobody]

TypeOK ==
    /\ lock \in [token : Calls \cup {Nobody}, ttl : 0..Lease]
    /\ since \in [Workers -> 0..Cadence]
    /\ call \in [Calls -> [at : Steps, by : Workers \cup {Nobody}]]
    /\ late \subseteq Calls
    /\ faults \in Nat
    /\ lost \subseteq Calls

\* The calls that were granted the lock and have not given it back.
Holders == {c \in Calls : call[c].at \in {"guarded", "checking", "deleting"}}
\* The calls that are inside fn.
Running == {c \in Calls : call[c].at \in {"guarded", "unguarded"}}

Init ==
    /\ lock = Free
    /\ since = [w \in Workers |-> Cadence]
    /\ call = [c \in Calls |-> NoCall]
    /\ late = {} /\ faults = 0 /\ lost = {}

Goto(c, step) == call' = [call EXCEPT ![c].at = step]
Over(c) == call' = [call EXCEPT ![c] = NoCall]

-------------------------------------------------------------------------------
(* The schedule.  A call is used again once no trace of its token is left: *)
(* Math.random() does not repeat one.                                      *)

\* Defect: lastRun is written after the cycle, so every tick starts another.
BeginUnmarked(w, c) ==
    /\ call[c].at = "idle" /\ lock.token # c /\ c \notin late
    /\ call' = [call EXCEPT ![c] = [at |-> "setting", by |-> w]]
    /\ UNCHANGED <<lock, since, late, faults, lost>>

\* scheduleTick: the cadence is over, lastRun is set, then withLock is called.
Begin(w, c) ==
    /\ since[w] = Cadence
    /\ call[c].at = "idle" /\ lock.token # c /\ c \notin late
    /\ since' = [since EXCEPT ![w] = 0]
    /\ call' = [call EXCEPT ![c] = [at |-> "setting", by |-> w]]
    /\ UNCHANGED <<lock, late, faults, lost>>

-------------------------------------------------------------------------------
(* withLock.                                                               *)

\* Defects: SET without NX; SET without EX, whose key has no expiry; SET with
\* the expiry in another unit of time (PX's for EX's).
TakeAnyway(c) == lock' = [token |-> c, ttl |-> Lease]
TakeForEver(c) == lock = Free /\ lock' = [token |-> c, ttl |-> 0]
TakeTooLong(c) == lock = Free /\ lock' = [token |-> c, ttl |-> 1000 * Lease]

\* SET key token EX ttl NX, where it takes effect.
TakeKey(c) == lock = Free /\ lock' = [token |-> c, ttl |-> Lease]

Acquire(c) ==
    /\ call[c].at = "setting"
    /\ TakeKey(c)
    /\ Goto(c, "guarded")
    /\ UNCHANGED <<since, late, faults, lost>>

\* The key exists: withLock returns null and the cycle is skipped.
Refuse(c) ==
    /\ call[c].at = "setting"
    /\ lock # Free
    /\ Over(c)
    /\ UNCHANGED <<lock, since, late, faults, lost>>

\* No answer within LOCK_TIMEOUT_MS, or an error: fn runs unguarded.
ProceedUnguarded(c) ==
    /\ call[c].at = "setting"
    /\ faults < MaxFaults
    /\ faults' = faults + 1
    /\ Goto(c, "unguarded")
    /\ late' = late \cup {c}
    /\ UNCHANGED <<lock, since, lost>>

\* The SET that was given up takes effect after all (or finds the key there).
LateSet(c) ==
    /\ c \in late
    /\ late' = late \ {c}
    /\ IF lock = Free THEN TakeKey(c) ELSE lock' = lock
    /\ UNCHANGED <<since, call, faults, lost>>

\* Or it is lost with its connection.
LateSetLost(c) ==
    /\ c \in late
    /\ late' = late \ {c}
    /\ UNCHANGED <<lock, since, call, faults, lost>>

\* Defect: the run that was not granted the lock goes on to delete the key.
ReturnAndDelete(c) ==
    /\ c \in Running
    /\ Goto(c, IF call[c].at = "guarded" THEN "checking" ELSE "deleting")
    /\ UNCHANGED <<lock, since, late, faults, lost>>

\* fn returns or throws; only a guarded run has something to release.
Return(c) ==
    /\ c \in Running
    /\ IF call[c].at = "guarded" THEN Goto(c, "checking") ELSE Over(c)
    /\ UNCHANGED <<lock, since, late, faults, lost>>

\* GET finds the call's own token: `current === token'.
KeyIsOurs(c) ==
    /\ call[c].at = "checking" /\ lock.token = c
    /\ Goto(c, "deleting")
    /\ UNCHANGED <<lock, since, late, faults, lost>>

\* GET finds another token or none.
KeyIsNotOurs(c) ==
    /\ call[c].at = "checking" /\ lock.token # c
    /\ Over(c)
    /\ lost' = lost \ {c}
    /\ UNCHANGED <<lock, since, late, faults>>

\* DEL: whatever the key holds by now.
DeleteKey(c) ==
    /\ call[c].at = "deleting"
    /\ lock' = Free
    /\ Over(c)
    /\ lost' = (lost \cup ({lock.token} \cap Holders)) \ {c}
    /\ UNCHANGED <<since, late, faults>>

\* GET or DEL fails: "TTL will clear it".
ReleaseFails(c) ==
    /\ call[c].at \in {"checking", "deleting"}
    /\ faults < MaxFaults
    /\ faults' = faults + 1
    /\ Over(c)
    /\ lost' = lost \ {c}
    /\ UNCHANGED <<lock, since, late>>

-------------------------------------------------------------------------------
(* The environment.                                                        *)

\* A unit of time passes; Redis drops the key whose time is up.
Tick ==
    /\ \A c \in Calls : call[c].at # "setting"
    /\ since' = [w \in Workers |-> IF since[w] < Cadence THEN since[w] + 1 ELSE Cadence]
    /\ lock' = CASE lock.ttl > 1 -> [lock EXCEPT !.ttl = @ - 1]
                 [] lock.ttl = 1 -> Free
                 [] OTHER        -> lock
    /\ lost' = IF lock.ttl = 1 THEN lost \cup ({lock.token} \cap Holders) ELSE lost
    /\ UNCHANGED <<call, late, faults>>

\* A worker dies and is started again: its calls are gone, lastRun is empty.
Restart(w) ==
    /\ faults < MaxFaults
    /\ faults' = faults + 1
    /\ since' = [since EXCEPT ![w] = Cadence]
    /\ call' = [c \in Calls |-> IF call[c].by = w THEN NoCall ELSE call[c]]
    /\ lost' = {c \in lost : call[c].by # w}
    /\ UNCHANGED <<lock, late>>

Next ==
    \/ \E w \in Workers, c \in Calls : Begin(w, c)
    \/ \E c \in Calls :
          \/ Acquire(c) \/ Refuse(c) \/ ProceedUnguarded(c)
          \/ LateSet(c) \/ LateSetLost(c)
          \/ Return(c) \/ KeyIsOurs(c) \/ KeyIsNotOurs(c) \/ DeleteKey(c) \/ ReleaseFails(c)
    \/ Tick
    \/ \E w \in Workers : Restart(w)

Spec == Init /\ [][Next]_vars

(* What the process does unconditionally: the interval fires, an awaited   *)
(* command is answered or given up, a cycle returns; and time passes.      *)
FairSpec ==
    /\ Spec
    /\ WF_vars(Tick)
    /\ \A w \in Workers : WF_vars(\E c \in Calls : Begin(w, c))
    /\ \A c \in Calls :
          /\ WF_vars(Acquire(c) \/ Refuse(c))
          /\ WF_vars(LateSet(c) \/ LateSetLost(c))
          /\ WF_vars(Return(c))
          /\ WF_vars(KeyIsOurs(c) \/ KeyIsNotOurs(c) \/ DeleteKey(c))

-------------------------------------------------------------------------------

(* "Only one holder of a named lock at a time" (queue.ts:112), as far as   *)
(* an expiring key can promise it: of two calls inside a guarded fn, one   *)
(* has lost its key.                                                       *)
OneHolderOfTheKey ==
    \A c, d \in Calls :
        call[c].at = "guarded" /\ call[d].at = "guarded" /\ c # d
            => {c, d} \cap lost # {}

(* "A slow run whose TTL expired must not delete the lock a successor      *)
(* already holds" (queue.ts:183).  GET and DEL are two commands, so it     *)
(* can; but only a call that was granted the key and lost it between the   *)
(* two, never one that ran unguarded.                                      *)
OnlyALoserRobs ==
    [][\A c \in Calls :
          /\ call[c].at = "deleting" /\ call'[c] = NoCall
          /\ lock' # lock /\ lock.token # c
          => c \in lost]_vars

(* The lock was added because "a 15-minute schedule against a slow run     *)
(* will overlap" (queue.ts:116).  The key lives 10 minutes: what refuses a *)
(* cycle is never the cycle its own process is still running under the     *)
(* lock, only another process or a key that nobody is working under.       *)
RefusedOnlyFromOutside ==
    [][\A c \in Calls :
          call[c].at = "setting" /\ call'[c] = NoCall /\ faults' = faults
          => \A h \in Holders : lock.token = h => call[h].by # call[c].by]_vars

(* "A missing lock server must not silently halt ingestion"                *)
(* (queue.ts:122), nor a holder that died, nor a SET that came too late:   *)
(* cycles keep running.                                                    *)
CyclesGoOn == []<>(Running # {})
===============================================================================
