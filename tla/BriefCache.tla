------------------------------ MODULE BriefCache ------------------------------
(***************************************************************************)
(* The cached brief of one user: the cache-aside reads, the generation     *)
(* counter and the write-behind of src/src/lib/cache.ts, called by         *)
(* buildSitrep; the recompute that bumps the generation last; and the      *)
(* requests (mark-seen, snooze, rewind, watchlist edits, sign-in) that     *)
(* change the user's rows and then drop the user's key.                    *)
(*                                                                         *)
(* A brief is abstracted to what it was assembled from: how many           *)
(* recomputes, how many of the user's own changes, and whether it was read *)
(* in the middle of a recompute.  Redis answers, or is out of reach for a  *)
(* while: then every command resolves to its fallback and has no effect,   *)
(* which is what a timeout, an error and an open breaker have in common.   *)
(* The server sends all its commands down one connection, so the           *)
(* write-behind SET takes effect in the order it was issued.               *)
(***************************************************************************)
EXTENDS Naturals

CONSTANTS Readers,      \* page loads that may be in progress together
          Writers,      \* requests of the user that change something
          MaxRuns,      \* bound: recomputes
          MaxChanges,   \* bound: the user's changes
          MaxOutages,   \* bound: times that Redis goes out of reach
          None          \* no entry

VARIABLES
    data,      \* recomputes whose events are all in the database
    torn,      \* the events are deleted and not all inserted again
    phase,     \* of the worker: "idle", "writing", or "bumping" when all is written
    mine,      \* the user's changes that are in the database
    up,        \* Redis is in reach
    outages,   \* times it was not
    gen,       \* the generation counter
    entry,     \* the user's entry under the key of each generation
    reader,    \* page loads
    writer,    \* the user's requests
    promised,  \* history: what `data' was when the generation was bumped
    answered   \* history: the last of the user's changes that was answered

db == <<data, torn, phase, mine>>
redis == <<up, outages, gen, entry>>
history == <<promised, answered>>
vars == <<data, torn, phase, mine, up, outages, gen, entry, reader, writer, promised, answered>>

Generations == 0..MaxRuns

\* overlapped is a history component: a change was dropped from the cache while
\* the load that produced this brief was between its miss and its write.
Briefs == [data : Nat, mine : Nat, torn : BOOLEAN, overlapped : BOOLEAN]

ASSUME CacheAssumption ==
    /\ MaxRuns \in Nat /\ MaxChanges \in Nat /\ MaxOutages \in Nat
    /\ None \notin Briefs

ReaderSteps == {"idle", "generation", "get", "assemble", "set", "served"}

\* since is a history component: what had been answered when the load began.
Loads == [at : ReaderSteps, key : Generations, brief : Briefs, since : Nat]
Blank == [data |-> 0, mine |-> 0, torn |-> FALSE, overlapped |-> FALSE]
NoLoad == [at |-> "idle", key |-> 0, brief |-> Blank, since |-> 0]

WriterSteps == {"idle", "generation", "del", "answer"}
NoChange == [at |-> "idle", key |-> 0, change |-> 0]

TypeOK ==
    /\ data \in Nat /\ mine \in Nat /\ outages \in Nat
    /\ torn \in BOOLEAN /\ up \in BOOLEAN
    /\ phase \in {"idle", "writing", "bumping"}
    /\ gen \in Generations /\ gen <= data
    /\ entry \in [Generations -> Briefs \cup {None}]
    /\ reader \in [Readers -> Loads]
    /\ writer \in [Writers -> [at : WriterSteps, key : Generations, change : Nat]]
    /\ promised \in Nat /\ answered \in Nat

Init ==
    /\ data = 0 /\ mine = 0 /\ outages = 0
    /\ torn = FALSE /\ up = TRUE
    /\ phase = "idle"
    /\ gen = 0
    /\ entry = [g \in Generations |-> None]
    /\ reader = [r \in Readers |-> NoLoad]
    /\ writer = [w \in Writers |-> NoChange]
    /\ promised = 0 /\ answered = 0

-------------------------------------------------------------------------------
(* Redis *)

GoesDown ==
    /\ up /\ outages < MaxOutages
    /\ up' = FALSE
    /\ outages' = outages + 1
    /\ UNCHANGED <<db, gen, entry, reader, writer, history>>

ComesBack ==
    /\ ~up
    /\ up' = TRUE
    /\ UNCHANGED <<db, outages, gen, entry, reader, writer, history>>

\* EX: an entry's lifetime has passed.  Only entries that a load can still hit
\* are followed: those of the current generation and of the fallback one.
Expire(g) ==
    /\ g \in {0, gen} /\ entry[g] # None
    /\ entry' = [entry EXCEPT ![g] = None]
    /\ UNCHANGED <<db, up, outages, gen, reader, writer, history>>

-------------------------------------------------------------------------------
(* computeAndPersist: delete, insert, and bump the generation last *)

\* Defect: the generation is bumped before the events are written.
StartWritingBumped ==
    /\ phase = "idle" /\ data < MaxRuns
    /\ phase' = "writing"
    /\ torn' = TRUE
    /\ gen' = gen + 1
    /\ promised' = data + 1
    /\ UNCHANGED <<data, mine, up, outages, entry, reader, writer, answered>>

\* The delete, and whatever is read until everything is inserted again.
StartWriting ==
    /\ phase = "idle" /\ data < MaxRuns
    /\ phase' = "writing"
    /\ torn' = TRUE
    /\ UNCHANGED <<data, mine, redis, reader, writer, history>>

AllWritten ==
    /\ phase = "writing"
    /\ phase' = "bumping"
    /\ torn' = FALSE
    /\ data' = data + 1
    /\ UNCHANGED <<mine, redis, reader, writer, history>>

\* The recompute throws: the events stay half written until another one runs.
WritingFails ==
    /\ phase = "writing"
    /\ phase' = "idle"
    /\ UNCHANGED <<data, torn, mine, redis, reader, writer, history>>

\* Defect: an INCR whose reply was lost is sent again.
BumpTwice ==
    /\ phase = "bumping"
    /\ phase' = "idle"
    /\ gen' = IF up THEN gen + 2 ELSE gen
    /\ promised' = IF up THEN data ELSE promised
    /\ UNCHANGED <<data, torn, mine, up, outages, entry, reader, writer, answered>>

\* bumpGeneration; out of reach, it resolves to 0 and the run still succeeds.
Bump ==
    /\ phase = "bumping"
    /\ phase' = "idle"
    /\ gen' = IF up THEN gen + 1 ELSE gen
    /\ promised' = IF up THEN data ELSE promised
    /\ UNCHANGED <<data, torn, mine, up, outages, entry, reader, writer, answered>>

-------------------------------------------------------------------------------
(* cached(), as buildSitrep calls it *)

Move(r, step) == reader' = [reader EXCEPT ![r].at = step]

BeginLoad(r) ==
    /\ reader[r].at = "idle"
    /\ reader' = [reader EXCEPT ![r] = [NoLoad EXCEPT !.at = "generation", !.since = answered]]
    /\ UNCHANGED <<db, redis, writer, history>>

\* generation(): the fallback is generation 0.
ReadGeneration(r) ==
    /\ reader[r].at = "generation"
    /\ reader' = [reader EXCEPT ![r].at = "get", ![r].key = IF up THEN gen ELSE 0]
    /\ UNCHANGED <<db, redis, writer, history>>

Get(r) ==
    /\ reader[r].at = "get"
    /\ LET found == entry[reader[r].key]
       IN  IF up /\ found # None
           THEN reader' = [reader EXCEPT ![r].at = "served", ![r].brief = found]
           ELSE Move(r, "assemble")
    /\ UNCHANGED <<db, redis, writer, history>>

\* assembleSitrep.
Assemble(r) ==
    /\ reader[r].at = "assemble"
    /\ reader' = [reader EXCEPT ![r].at = "set",
                     ![r].brief = [data |-> data, mine |-> mine, torn |-> torn,
                                   overlapped |-> FALSE]]
    /\ UNCHANGED <<db, redis, writer, history>>

\* The write-behind, under the key that was read before assembling.
Set(r) ==
    /\ reader[r].at = "set"
    /\ entry' = IF up THEN [entry EXCEPT ![reader[r].key] = reader[r].brief] ELSE entry
    /\ Move(r, "served")
    /\ UNCHANGED <<db, up, outages, gen, writer, history>>

Served(r) ==
    /\ reader[r].at = "served"
    /\ reader' = [reader EXCEPT ![r] = NoLoad]
    /\ UNCHANGED <<db, redis, writer, history>>

-------------------------------------------------------------------------------
(* A request that changes the user's rows, then invalidateUser *)

Change(w) ==
    /\ writer[w].at = "idle" /\ mine < MaxChanges
    /\ mine' = mine + 1
    /\ writer' = [writer EXCEPT ![w] = [at |-> "generation", key |-> 0, change |-> mine + 1]]
    /\ UNCHANGED <<data, torn, phase, redis, reader, history>>

ChangeGeneration(w) ==
    /\ writer[w].at = "generation"
    /\ writer' = [writer EXCEPT ![w].at = "del", ![w].key = IF up THEN gen ELSE 0]
    /\ UNCHANGED <<db, redis, reader, history>>

\* Defect: the key is not dropped.
NoDel(w) ==
    /\ writer[w].at = "del"
    /\ writer' = [writer EXCEPT ![w].at = "answer"]
    /\ UNCHANGED <<db, redis, reader, history>>

Del(w) ==
    /\ writer[w].at = "del"
    /\ entry' = IF up THEN [entry EXCEPT ![writer[w].key] = None] ELSE entry
    /\ writer' = [writer EXCEPT ![w].at = "answer"]
    /\ reader' = [r \in Readers |-> IF reader[r].at = "set"
                                    THEN [reader[r] EXCEPT !.brief.overlapped = TRUE]
                                    ELSE reader[r]]
    /\ UNCHANGED <<db, up, outages, gen, history>>

Answer(w) ==
    /\ writer[w].at = "answer"
    /\ answered' = IF writer[w].change > answered THEN writer[w].change ELSE answered
    /\ writer' = [writer EXCEPT ![w] = NoChange]
    /\ UNCHANGED <<db, redis, reader, promised>>

-------------------------------------------------------------------------------
LoadStep(r) == ReadGeneration(r) \/ Get(r) \/ Assemble(r) \/ Set(r) \/ Served(r)
ChangeStep(w) == ChangeGeneration(w) \/ Del(w) \/ Answer(w)

Next == \/ GoesDown \/ ComesBack
        \/ \E g \in Generations : Expire(g)
        \/ StartWriting \/ AllWritten \/ WritingFails \/ Bump
        \/ \E r \in Readers : BeginLoad(r) \/ LoadStep(r)
        \/ \E w \in Writers : Change(w) \/ ChangeStep(w)

Spec == Init /\ [][Next]_vars

-------------------------------------------------------------------------------
\* "A recompute cannot leave a stale entry reachable": what is cached under the
\* current generation was assembled after everything that the recompute behind
\* that generation had written, outages or not; and unless an outage has
\* swallowed its bump, that recompute is the last one, and a brief assembled
\* over half-written events is out of reach once they are all written.
CurrentEntryIsCurrent ==
    /\ entry[gen] # None => entry[gen].data >= promised
    /\ outages = 0 /\ phase # "bumping" =>
          /\ promised = data
          /\ entry[gen] # None /\ entry[gen].torn => torn

\* The user's own changes: with Redis in reach, a load that began after a change
\* was answered is served without it only if the entry it hit was written by a
\* load that a DEL overtook between its assembly and its write-behind.
StaleOnlyIfOverlapped ==
    outages = 0 =>
        \A r \in Readers : reader[r].at = "served" /\ reader[r].brief.mine < reader[r].since
            => reader[r].brief.overlapped
===============================================================================
