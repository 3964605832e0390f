------------------------- MODULE IngestPipelineProofs -------------------------
(***************************************************************************)
(* Theorems about IngestPipeline for any sets of jobs, compute ids and     *)
(* checks, and any numbers of attempts and faults.                         *)
(***************************************************************************)
EXTENDS IngestPipeline, FiniteSetTheorems, TLAPS

USE DEF JobStates, JobRecords, NoJob

-------------------------------------------------------------------------------
(* The values everything starts from have the types of TypeOK. *)

LEMMA InitialTypes ==
    /\ NoJob \in JobRecords
    /\ IdleCheck \in CheckRecords
    /\ NoRun \in [phase : {"none", "loading", "writing"}, bars : SUBSET Jobs]
  <1>1. NoJob \in JobRecords
    BY Zenon
  <1>2. IdleCheck \in CheckRecords
    BY DEF IdleCheck, CheckRecords, CheckSteps
  <1>3. NoRun \in [phase : {"none", "loading", "writing"}, bars : SUBSET Jobs]
    BY DEF NoRun
  <1>. QED  BY <1>1, <1>2, <1>3

(* The queue operators keep a queue a queue. *)

LEMMA AddAllType ==
    ASSUME NEW I, NEW q \in [I -> JobRecords], NEW S
    PROVE  AddAll(q, S) \in [I -> JobRecords]
  BY DEF AddAll

LEMMA MoveType ==
    ASSUME NEW I, NEW q \in [I -> JobRecords], NEW id \in I
    PROVE  /\ Take(q, id) \in [I -> JobRecords]
           /\ Complete(q, id) \in [I -> JobRecords]
           /\ Promote(q, id) \in [I -> JobRecords]
  BY DEF Take, Complete, Promote

LEMMA FailType ==
    ASSUME NEW I, NEW q \in [I -> JobRecords], NEW id \in I, NEW n \in Nat
    PROVE  Fail(q, id, n) \in [I -> JobRecords]
  <1>1. q[id].made + 1 \in Nat
    OBVIOUS
  <1>. QED  BY <1>1 DEF Fail

LEMMA StallType ==
    ASSUME NEW I, NEW q \in [I -> JobRecords]
    PROVE  StallActive(q) \in [I -> JobRecords]
  BY DEF StallActive

-------------------------------------------------------------------------------
(* The variables keep their types. *)

LEMMA CheckType ==
    ASSUME check \in [Checks -> CheckRecords], NEW S \in SUBSET Jobs, Entering(S)
    PROVE  check' \in [Checks -> CheckRecords]
  <1>1. \A c \in Checks : [check[c] EXCEPT !.late = @ \cup S] \in CheckRecords
    BY DEF CheckRecords
  <1>. QED  BY <1>1 DEF Entering

LEMMA ReadRecordType ==
    ASSUME NEW r \in CheckRecords, NEW n \in CheckSteps, NEW b \in BOOLEAN
    PROVE  [r EXCEPT !.at = n, !.busy = r.busy \/ b] \in CheckRecords
  <1>1. ASSUME NEW d \in BOOLEAN
        PROVE  [r EXCEPT !.at = n, !.busy = d] \in CheckRecords
    BY DEF CheckRecords
  <1>. QED  BY <1>1, Zenon

LEMMA ReadType ==
    ASSUME check \in [Checks -> CheckRecords], NEW c \in Checks,
           NEW s, NEW n \in CheckSteps, ReadDepth(c, s, n)
    PROVE  check' \in [Checks -> CheckRecords]
  <1>1. (InState(ingest, s) # {}) \in BOOLEAN
    BY Zenon
  <1>2. check[c] \in CheckRecords
    OBVIOUS
  <1>3. [check[c] EXCEPT !.at = n, !.busy = check[c].busy \/ InState(ingest, s) # {}]
           \in CheckRecords
    BY <1>1, <1>2, ReadRecordType, Zenon
  <1>. QED  BY <1>3, Zenon DEF ReadDepth

LEMMA InitType == Init => TypeOK
  <1> USE DEF Init, TypeOK
  <1>1. Init => ingest \in [Jobs -> JobRecords] /\ compute \in [ComputeIds -> JobRecords]
    BY InitialTypes
  <1>2. Init => check \in [Checks -> CheckRecords]
    BY InitialTypes
  <1>. QED  BY <1>1, <1>2, InitialTypes

LEMMA TypeStep == TypeOK /\ [Next]_vars => TypeOK'
  <1> SUFFICES ASSUME TypeOK, [Next]_vars PROVE TypeOK'
    OBVIOUS
  <1> USE PipelineAssumption
  <1> USE DEF TypeOK, queues, settle, tables
  <1>1. ASSUME NEW S \in SUBSET Jobs, Enqueue(S) PROVE TypeOK'
    BY <1>1, AddAllType, CheckType DEF Enqueue
  <1>2. ASSUME NEW j \in Jobs, TakeIngest(j) PROVE TypeOK'
    BY <1>2, MoveType DEF TakeIngest
  <1>3. ASSUME NEW j \in Jobs, LandBars(j) PROVE TypeOK'
    BY <1>3 DEF LandBars
  <1>4. ASSUME NEW j \in Jobs, CompleteIngest(j) PROVE TypeOK'
    BY <1>4, MoveType DEF CompleteIngest
  <1>5. ASSUME NEW j \in Jobs, FailIngest(j) PROVE TypeOK'
    BY <1>5, FailType DEF FailIngest
  <1>6. ASSUME NEW j \in Jobs, BackoffOver(j) PROVE TypeOK'
    BY <1>6, MoveType, CheckType DEF BackoffOver
  <1>7. ASSUME NEW j \in Jobs, OnCompleted(j) PROVE TypeOK'
    BY <1>7 DEF OnCompleted
  <1>8. ASSUME NEW c \in Checks, TimerFires(c) PROVE TypeOK'
    BY <1>8 DEF TimerFires, CheckRecords, CheckSteps, IdleCheck
  <1>9. ASSUME NEW c \in Checks, NEW s, NEW n \in CheckSteps, ReadDepth(c, s, n)
        PROVE TypeOK'
    BY <1>9, ReadType DEF ReadDepth
  <1>10. ASSUME NEW c \in Checks, Decide(c) PROVE TypeOK'
    <2>1. [check[c] EXCEPT !.at = "adding"] \in CheckRecords
      BY DEF CheckRecords, CheckSteps
    <2>2. check' \in [Checks -> CheckRecords]
      BY <1>10, <2>1, InitialTypes DEF Decide
    <2>3. counter' \in Nat
      BY <1>10 DEF Decide
    <2>4. timer' \in BOOLEAN
      <3>1. timer' = TRUE \/ timer' = timer
        BY <1>10, Zenon DEF Decide
      <3>. QED  BY <3>1
    <2>. QED  BY <1>10, <2>2, <2>3, <2>4 DEF Decide
  <1>11. ASSUME NEW c \in Checks, AddCompute(c) PROVE TypeOK'
    BY <1>11, AddAllType DEF AddCompute, CheckRecords, CheckSteps, IdleCheck
  <1>12. ASSUME NEW c \in Checks, CheckError(c) PROVE TypeOK'
    BY <1>12 DEF CheckError, CheckRecords, CheckSteps, IdleCheck
  <1>13. ASSUME NEW k \in ComputeIds, TakeCompute(k) PROVE TypeOK'
    BY <1>13, MoveType DEF TakeCompute
  <1>14. CASE ClearTables
    <2>1. run' \in [phase : {"none", "loading", "writing"}, bars : SUBSET Jobs]
      BY <1>14 DEF ClearTables
    <2>2. covered' = {} /\ whole' \in BOOLEAN
      BY <1>14 DEF ClearTables
    <2>. QED  BY <1>14, <2>1, <2>2 DEF ClearTables
  <1>21. ASSUME NEW S \in SUBSET Jobs, WriteEvents(S) PROVE TypeOK'
    BY <1>21 DEF WriteEvents
  <1>15. ASSUME NEW k \in ComputeIds, FinishCompute(k) PROVE TypeOK'
    BY <1>15, MoveType DEF FinishCompute, NoRun
  <1>16. ASSUME NEW k \in ComputeIds, FailCompute(k) PROVE TypeOK'
    BY <1>16, FailType DEF FailCompute, NoRun
  <1>17. ASSUME NEW k \in ComputeIds, ComputeBackoffOver(k) PROVE TypeOK'
    BY <1>17, MoveType DEF ComputeBackoffOver
  <1>18. CASE Crash
    <2>1. check' \in [Checks -> CheckRecords]
      BY <1>18, InitialTypes DEF Crash
    <2>2. ingest' \in [Jobs -> JobRecords] /\ compute' \in [ComputeIds -> JobRecords]
      BY <1>18, StallType DEF Crash
    <2>3. timer' \in BOOLEAN
      BY <1>18 DEF Crash
    <2>4. run' \in [phase : {"none", "loading", "writing"}, bars : SUBSET Jobs]
      BY <1>18, InitialTypes DEF Crash
    <2>. QED  BY <1>18, <2>1, <2>2, <2>3, <2>4 DEF Crash
  <1>19. CASE UNCHANGED vars
    BY <1>19 DEF vars
  <1>20. {"active", "delayed", "decide"} \subseteq CheckSteps
    BY DEF CheckSteps
  <1>. QED
    BY <1>1, <1>2, <1>3, <1>4, <1>5, <1>6, <1>7, <1>8, <1>9, <1>10, <1>11, <1>12,
       <1>13, <1>14, <1>15, <1>16, <1>17, <1>18, <1>19, <1>20, <1>21
       DEF Next, Handler, CheckStep, ComputeStep, ReadWaiting, ReadActive, ReadDelayed

(* Every variable keeps its type (IngestPipeline!TypeOK), whatever the worker, *)
(* the queues and the crashes do.                                            *)
THEOREM TypeCorrect == Spec => []TypeOK
  BY InitType, TypeStep, PTL DEF Spec

-------------------------------------------------------------------------------
(***************************************************************************)
(* NoForgottenBatch is not inductive alone: a recompute empties the tables *)
(* and fills them again, and only RunInv says that what it took away is    *)
(* among what it is going to write.                                        *)
(***************************************************************************)

\* The tables show, and a recompute publishes, nothing that was not stored; a
\* recompute in progress started from everything they showed and everything any
\* earlier one published; and what was published is there until it is replaced.
RunInv == /\ covered \subseteq landed /\ published \subseteq landed
          /\ run.phase # "none" => /\ covered \subseteq run.bars /\ published \subseteq run.bars
                                  /\ run.bars \subseteq landed
          /\ run.phase = "writing" => ~whole
          /\ whole => covered = published

IInv == TypeOK /\ RunInv /\ NoForgottenBatch

\* Every step keeps what a recompute has loaded between covered and landed.
LEMMA RunStep == TypeOK /\ RunInv /\ [Next]_vars => RunInv'
  <1> SUFFICES ASSUME TypeOK, RunInv, [Next]_vars PROVE RunInv'
    OBVIOUS
  <1> USE DEF RunInv, TypeOK, queues, settle, tables
  <1>1. CASE UNCHANGED <<landed, run, tables>>
    BY <1>1
  <1>2. ASSUME NEW j \in Jobs, LandBars(j) PROVE RunInv'
    BY <1>2 DEF LandBars
  <1>3. ASSUME NEW k \in ComputeIds, TakeCompute(k) PROVE RunInv'
    BY <1>3 DEF TakeCompute
  <1>4. CASE ClearTables
    BY <1>4 DEF ClearTables
  <1>8. ASSUME NEW S \in SUBSET Jobs, WriteEvents(S) PROVE RunInv'
    BY <1>8 DEF WriteEvents
  <1>5. ASSUME NEW k \in ComputeIds, FinishCompute(k) PROVE RunInv'
    BY <1>5 DEF FinishCompute, NoRun
  <1>6. ASSUME NEW k \in ComputeIds, FailCompute(k) PROVE RunInv'
    BY <1>6 DEF FailCompute, NoRun
  <1>7. CASE Crash
    BY <1>7 DEF Crash, NoRun
  <1>. QED
    BY <1>1, <1>2, <1>3, <1>4, <1>5, <1>6, <1>7, <1>8
       DEF Next, vars, Enqueue, TakeIngest, Handler, CompleteIngest, FailIngest, BackoffOver,
           OnCompleted, TimerFires, CheckStep, ReadWaiting, ReadActive, ReadDelayed, ReadDepth,
           Decide, AddCompute, CheckError, ComputeStep, ComputeBackoffOver

\* Nothing but a finished recompute takes a batch out of the reach of the
\* machinery that is bound to recompute it.
LEMMA NotForgottenStep == IInv /\ [Next]_vars => NoForgottenBatch'
  <1> SUFFICES ASSUME TypeOK, RunInv, NoForgottenBatch, [Next]_vars, faults' = 0,
                      NEW i \in landed' \ covered'
               PROVE  (Unfinished(i) \/ Owed \/ Scheduled(i) \/ GaveUp(i))'
    BY DEF IInv, NoForgottenBatch
  <1> DEFINE Safe == Unfinished(i) \/ Owed \/ Scheduled(i) \/ GaveUp(i)
  <1>0. faults = 0 /\ i \in Jobs
    <2>1. faults' = faults \/ faults' = faults + 1
      BY DEF Next, vars, Enqueue, TakeIngest, Handler, LandBars, CompleteIngest, FailIngest,
             BackoffOver, OnCompleted, TimerFires, CheckStep, ReadWaiting, ReadActive,
             ReadDelayed, ReadDepth, Decide, AddCompute, CheckError, TakeCompute, ClearTables,
             WriteEvents, ComputeStep, FinishCompute, FailCompute, ComputeBackoffOver, Crash
    <2>2. i \in Jobs
      BY TypeStep DEF TypeOK
    <2>. QED  BY <2>1, <2>2 DEF TypeOK
  <1>1. i \in landed \ covered => Safe
    BY <1>0 DEF NoForgottenBatch
  <1> USE PipelineAssumption, <1>0
  <1> USE DEF TypeOK, queues, settle, tables, Unfinished, Owed, Scheduled, GaveUp
  <1>2. ASSUME NEW S \in SUBSET Jobs, Enqueue(S) PROVE Safe'
    <2>1. \A c \in Checks : check'[c].at = check[c].at
      BY <1>2 DEF Enqueue, Entering, CheckRecords
    <2>2. \A x \in Jobs : ingest'[x].state \in {ingest[x].state, "waiting"}
      BY <1>2 DEF Enqueue, AddAll
    <2>. QED  BY <1>1, <1>2, <2>1, <2>2 DEF Enqueue
  <1>3. ASSUME NEW j \in Jobs, TakeIngest(j) PROVE Safe'
    <2>1. \A x \in Jobs : ingest'[x].state \in {ingest[x].state, "active"}
      BY <1>3 DEF TakeIngest, Take
    <2>2. ingest[j].state = "waiting" /\ \A x \in Jobs \ {j} : ingest'[x] = ingest[x]
      BY <1>3 DEF TakeIngest, Take, CanTake
    <2>. QED  BY <1>1, <1>3, <2>1, <2>2 DEF TakeIngest
  <1>4. ASSUME NEW j \in Jobs, LandBars(j) PROVE Safe'
    BY <1>1, <1>4 DEF LandBars
  <1>5. ASSUME NEW j \in Jobs, CompleteIngest(j) PROVE Safe'
    <2>1. j \in announced' /\ \A x \in Jobs \ {j} : ingest'[x] = ingest[x]
      BY <1>5 DEF CompleteIngest, Complete
    <2>. QED  BY <1>1, <1>5, <2>1 DEF CompleteIngest
  <1>6. ASSUME NEW j \in Jobs, FailIngest(j) PROVE Safe'
    <2>1. ingest'[j].state \in {"delayed", "failed"}
      BY <1>6 DEF FailIngest, Fail
    <2>2. \A x \in Jobs \ {j} : ingest'[x] = ingest[x]
      BY <1>6 DEF FailIngest, Fail
    <2>. QED  BY <1>1, <1>6, <2>1, <2>2 DEF FailIngest
  <1>7. ASSUME NEW j \in Jobs, BackoffOver(j) PROVE Safe'
    <2>1. \A c \in Checks : check'[c].at = check[c].at
      BY <1>7 DEF BackoffOver, Entering, CheckRecords
    <2>2. ingest'[j].state = "waiting" /\ \A x \in Jobs \ {j} : ingest'[x] = ingest[x]
      BY <1>7 DEF BackoffOver, Promote
    <2>. QED  BY <1>1, <1>7, <2>1, <2>2 DEF BackoffOver
  <1>8. ASSUME NEW j \in Jobs, OnCompleted(j) PROVE Safe'
    BY <1>1, <1>8 DEF OnCompleted
  <1>9. ASSUME NEW c \in Checks, TimerFires(c) PROVE Safe'
    <2>1. check'[c].at = "waiting" /\ \A d \in Checks \ {c} : check'[d] = check[d]
      BY <1>9 DEF TimerFires, IdleCheck
    <2>. QED  BY <1>1, <1>9, <2>1 DEF TimerFires
  <1>10. ASSUME NEW c \in Checks, NEW s, NEW n \in {"active", "delayed", "decide"},
                s # "adding", ReadDepth(c, s, n)
         PROVE  Safe'
    <2>1. check[c].at = s /\ check'[c].at = n /\ \A d \in Checks \ {c} : check'[d] = check[d]
      BY <1>10 DEF ReadDepth, CheckRecords
    <2>. QED  BY <1>1, <1>10, <2>1 DEF ReadDepth
  <1>11. ASSUME NEW c \in Checks, Decide(c) PROVE Safe'
    <2>1. CASE check[c].busy \/ counter = 0
      <3>1. \A d \in Checks \ {c} : check'[d] = check[d]
        BY <1>11, <2>1 DEF Decide
      <3>. QED  BY <1>1, <1>11, <2>1, <3>1 DEF Decide
    <2>2. CASE ~check[c].busy /\ counter # 0
      <3>1. check'[c].at = "adding"
        BY <1>11, <2>2 DEF Decide, CheckRecords
      <3>. QED  BY <3>1
    <2>. QED  BY <2>1, <2>2
  <1>12. ASSUME NEW c \in Checks, AddCompute(c) PROVE Safe'
    <2>. PICK k \in ComputeIds : compute[k].state = "absent" /\ compute' = AddAll(compute, {k})
      BY <1>12 DEF AddCompute
    <2>1. compute'[k].state = "waiting"
      BY DEF AddAll
    <2>. QED  BY <2>1
  <1>13. ASSUME NEW k \in ComputeIds, TakeCompute(k) PROVE Safe'
    <2>1. i \in run'.bars /\ run'.phase # "none"
      BY <1>13 DEF TakeCompute
    <2>. QED  BY <2>1
  <1>14. CASE ClearTables
    \* What was shown until now is among what is going to be written.
    <2>1. CASE i \in covered
      BY <1>14, <2>1 DEF ClearTables, RunInv
    <2>2. CASE i \notin covered
      BY <1>1, <1>14, <2>2 DEF ClearTables
    <2>. QED  BY <2>1, <2>2
  <1>19. ASSUME NEW S \in SUBSET Jobs, WriteEvents(S) PROVE Safe'
    BY <1>1, <1>19 DEF WriteEvents
  <1>15. ASSUME NEW k \in ComputeIds, FinishCompute(k) PROVE Safe'
    <2>1. i \in landed \ covered /\ i \notin run.bars
      BY <1>15 DEF FinishCompute, RunInv
    <2>2. \A x \in ComputeIds \ {k} : compute'[x] = compute[x]
      BY <1>15 DEF FinishCompute, Complete
    <2>3. compute[k].state = "active"
      BY <1>15 DEF FinishCompute
    <2>. QED  BY <1>1, <1>15, <2>1, <2>2, <2>3 DEF FinishCompute
  <1>16. ASSUME NEW k \in ComputeIds, FailCompute(k) PROVE Safe'
    <2>1. compute'[k].state \in {"delayed", "failed"}
      BY <1>16 DEF FailCompute, Fail
    <2>. QED  BY <2>1
  <1>17. ASSUME NEW k \in ComputeIds, ComputeBackoffOver(k) PROVE Safe'
    <2>1. compute'[k].state = "waiting"
      BY <1>17 DEF ComputeBackoffOver, Promote
    <2>. QED  BY <2>1
  <1>18. CASE UNCHANGED vars
    BY <1>1, <1>18 DEF vars
  <1>. QED
    BY <1>2, <1>3, <1>4, <1>5, <1>6, <1>7, <1>8, <1>9, <1>10, <1>11, <1>12, <1>13, <1>14,
       <1>15, <1>16, <1>17, <1>18, <1>19
       DEF Next, Handler, CheckStep, ReadWaiting, ReadActive, ReadDelayed, CheckError,
           ComputeStep, Crash

(* As long as nothing has crashed or been refused, no stored bars are forgotten *)
(* (IngestPipeline!NoForgottenBatch; worker/index.ts scheduleCompute).          *)
THEOREM NothingForgotten == Spec => []NoForgottenBatch
  <1>1. Init => IInv
    BY InitType DEF Init, IInv, RunInv, NoForgottenBatch, NoRun
  <1>2. IInv /\ [Next]_vars => IInv'
    BY TypeStep, RunStep, NotForgottenStep DEF IInv
  <1>3. IInv => NoForgottenBatch
    BY DEF IInv
  <1>. QED  BY <1>1, <1>2, <1>3, PTL DEF Spec
-------------------------------------------------------------------------------
(***************************************************************************)
(* SettleMissesOnlyLateJobs speaks of the last moment of a check.  What    *)
(* carries it there is what each of the three reads has excluded so far: a *)
(* job only ever moves from a list that is read earlier to one that is     *)
(* read later, unless it enters the wait list, and then it is late.        *)
(***************************************************************************)

\* The lists that the reads before step s have seen empty.
Excluded(s) == IF s = "active" THEN {"waiting"}
               ELSE IF s = "delayed" THEN {"waiting", "active"}
               ELSE IF s = "decide" THEN {"waiting", "active", "delayed"}
               ELSE {}

SettleInv ==
    \A c \in Checks : ~check[c].busy =>
        \A j \in Jobs \ check[c].late : ingest[j].state \notin Excluded(check[c].at)

\* No step of the worker or of a producer breaks what a check has excluded.
LEMMA SettleStep == TypeOK /\ SettleInv /\ [Next]_vars => SettleInv'
  <1> SUFFICES ASSUME TypeOK, SettleInv, [Next]_vars PROVE SettleInv'
    OBVIOUS
  <1> USE DEF SettleInv, TypeOK, queues, settle, Excluded
  <1>1. ASSUME NEW S \in SUBSET Jobs, Enqueue(S) PROVE SettleInv'
    <2>1. \A j \in Jobs : \/ ingest'[j] = ingest[j]
                          \/ j \in S /\ ingest[j].state = "absent"
      BY <1>1 DEF Enqueue, AddAll
    <2>2. \A c \in Checks : /\ check'[c].at = check[c].at /\ check'[c].busy = check[c].busy
                            /\ check[c].late \subseteq check'[c].late
      BY <1>1 DEF Enqueue, Entering, CheckRecords
    <2>3. \A c \in Checks : check[c].at # "idle" =>
              {j \in S : ingest[j].state = "absent"} \subseteq check'[c].late
      BY <1>1 DEF Enqueue, Entering, CheckRecords
    <2>. QED  BY <2>1, <2>2, <2>3
  <1>2. ASSUME NEW j \in Jobs, BackoffOver(j) PROVE SettleInv'
    <2>1. \A x \in Jobs \ {j} : ingest'[x] = ingest[x]
      BY <1>2 DEF BackoffOver, Promote
    <2>2. \A c \in Checks : /\ check'[c].at = check[c].at /\ check'[c].busy = check[c].busy
                            /\ check[c].late \subseteq check'[c].late
      BY <1>2 DEF BackoffOver, Entering, CheckRecords
    <2>3. \A c \in Checks : check[c].at # "idle" => j \in check'[c].late
      BY <1>2 DEF BackoffOver, Entering, CheckRecords
    <2>. QED  BY <2>1, <2>2, <2>3
  <1>3. ASSUME NEW j \in Jobs, TakeIngest(j) PROVE SettleInv'
    <2>1. /\ ingest[j].state = "waiting" /\ ingest'[j].state = "active"
          /\ \A x \in Jobs \ {j} : ingest'[x] = ingest[x]
      BY <1>3 DEF TakeIngest, Take, CanTake
    <2>. QED  BY <1>3, <2>1 DEF TakeIngest
  <1>4. ASSUME NEW j \in Jobs, CompleteIngest(j) PROVE SettleInv'
    <2>1. /\ ingest'[j].state = "completed"
          /\ \A x \in Jobs \ {j} : ingest'[x] = ingest[x]
      BY <1>4 DEF CompleteIngest, Complete
    <2>. QED  BY <1>4, <2>1 DEF CompleteIngest
  <1>5. ASSUME NEW j \in Jobs, FailIngest(j) PROVE SettleInv'
    <2>1. /\ ingest[j].state = "active" /\ ingest'[j].state \in {"delayed", "failed"}
          /\ \A x \in Jobs \ {j} : ingest'[x] = ingest[x]
      BY <1>5 DEF FailIngest, Fail
    <2>. QED  BY <1>5, <2>1 DEF FailIngest
  <1>6. ASSUME NEW c \in Checks, \A d \in Checks \ {c} : check'[d] = check[d],
               ~check'[c].busy => Excluded(check'[c].at) = {}, ingest' = ingest
        PROVE  SettleInv'
    BY <1>6
  <1>7. ASSUME NEW c \in Checks, TimerFires(c) PROVE SettleInv'
    <2>1. check'[c].at = "waiting" /\ \A d \in Checks \ {c} : check'[d] = check[d]
      BY <1>7 DEF TimerFires, IdleCheck
    <2>. QED  BY <1>6, <1>7, <2>1 DEF TimerFires
  <1>8. ASSUME NEW c \in Checks, NEW s, NEW n, ReadDepth(c, s, n),
               Excluded(n) \subseteq Excluded(s) \cup {s}
        PROVE  SettleInv'
    <2>1. /\ check[c].at = s /\ check'[c].at = n /\ check'[c].late = check[c].late
          /\ \A d \in Checks \ {c} : check'[d] = check[d]
      BY <1>8 DEF ReadDepth, CheckRecords
    <2>2. check'[c].busy = (check[c].busy \/ InState(ingest, s) # {})
      BY <1>8 DEF ReadDepth, CheckRecords
    <2>3. ~check'[c].busy => ~check[c].busy /\ \A j \in Jobs : ingest[j].state # s
      BY <2>2 DEF InState
    <2>. QED  BY <1>8, <2>1, <2>3 DEF ReadDepth
  <1>9. ASSUME NEW c \in Checks, Decide(c) \/ AddCompute(c) \/ CheckError(c)
        PROVE  SettleInv'
    <2>1. check'[c].at \in {"idle", "adding"} /\ \A d \in Checks \ {c} : check'[d] = check[d]
      BY <1>9 DEF Decide, AddCompute, CheckError, IdleCheck, CheckRecords
    <2>. QED  BY <1>6, <1>9, <2>1 DEF Decide, AddCompute, CheckError
  <1>10. CASE Crash
    <2>1. \A c \in Checks : check'[c].at = "idle"
      BY <1>10 DEF Crash, IdleCheck
    <2>. QED  BY <2>1
  <1>11. CASE UNCHANGED <<ingest, check>>
    BY <1>11
  <1>. QED
    BY <1>1, <1>2, <1>3, <1>4, <1>5, <1>7, <1>8, <1>9, <1>10, <1>11
       DEF Next, vars, Handler, LandBars, OnCompleted, CheckStep, ReadWaiting, ReadActive,
           ReadDelayed, TakeCompute, ClearTables, WriteEvents, ComputeStep, FinishCompute, FailCompute,
           ComputeBackoffOver

(* A check that finds the queue empty has missed only jobs that entered it    *)
(* while it read (IngestPipeline!SettleMissesOnlyLateJobs; the three counts  *)
(* at the head of scheduleCompute's callback).                               *)
THEOREM SettleIsSound == Spec => []SettleMissesOnlyLateJobs
  <1>1. Init => SettleInv
    BY DEF Init, SettleInv, IdleCheck, Excluded
  <1>2. TypeOK /\ SettleInv => SettleMissesOnlyLateJobs
    BY DEF TypeOK, SettleInv, Excluded, SettleMissesOnlyLateJobs, Live
  <1>. QED  BY <1>1, <1>2, InitType, TypeStep, SettleStep, PTL DEF Spec

-------------------------------------------------------------------------------
(* Every step of the pipeline lands one batch, empties the tables, writes      *)
(* batches that have landed, declares them complete when they show everything  *)
(* an earlier recompute published, or is invisible to Publication - whatever   *)
(* recompute throws or dies half way (IngestPipeline!ImplementsPublication).   *)
THEOREM PipelineImplementsPublication == Spec => ImplementsPublication
  <1>1. Init => PublicationSpec!Init
    BY DEF Init, PublicationSpec!Init
  <1>2. TypeOK /\ RunInv /\ [Next]_vars
          => [PublicationSpec!Next]_<<landed, covered, whole, published>>
    <2> SUFFICES ASSUME TypeOK, RunInv, [Next]_vars
                 PROVE  PublicationSpec!Next \/ UNCHANGED <<landed, covered, whole, published>>
      OBVIOUS
    <2> USE DEF tables
    <2>1. ASSUME NEW j \in Jobs, LandBars(j) PROVE PublicationSpec!Land(j)
      BY <2>1, Zenon DEF LandBars, PublicationSpec!Land
    <2>2. ASSUME ClearTables PROVE PublicationSpec!Withdraw
      <3>1. covered' = {} /\ UNCHANGED <<landed, published>>
        BY <2>2 DEF ClearTables
      <3>2. whole' = FALSE
        BY <2>2, Zenon DEF ClearTables
      <3>. QED  BY <3>1, <3>2, Zenon DEF PublicationSpec!Withdraw
    <2>3. ASSUME NEW S \in SUBSET Jobs, WriteEvents(S)
          PROVE  \E U \in SUBSET Jobs : PublicationSpec!Refill(U)
      <3>1. /\ covered \cup S \in SUBSET Jobs
            /\ covered \cup S \subseteq landed
            /\ ~whole
        BY <2>3 DEF WriteEvents, RunInv, TypeOK
      <3>2. PublicationSpec!Refill(covered \cup S)
        BY <2>3, <3>1 DEF WriteEvents, PublicationSpec!Refill
      <3>. QED  BY <3>1, <3>2
    <2>4. ASSUME NEW k \in ComputeIds, FinishCompute(k) PROVE PublicationSpec!Finish
      BY <2>4 DEF FinishCompute, RunInv, PublicationSpec!Finish
    <2>5. CASE UNCHANGED <<landed, tables>>
      BY <2>5
    <2>. QED
      BY <2>1, <2>2, <2>3, <2>4, <2>5
         DEF PublicationSpec!Next, Next, vars, Enqueue, TakeIngest, Handler, CompleteIngest,
             FailIngest, BackoffOver, OnCompleted, TimerFires, CheckStep, ReadWaiting,
             ReadActive, ReadDelayed, ReadDepth, Decide, AddCompute, CheckError, TakeCompute,
             ComputeStep, FailCompute, ComputeBackoffOver, Crash
  <1>3. Init => RunInv
    BY DEF Init, RunInv, NoRun
  <1>. QED
    BY <1>1, <1>2, <1>3, InitType, TypeStep, RunStep, PTL
       DEF Spec, ImplementsPublication, PublicationSpec!Spec

-------------------------------------------------------------------------------
(***************************************************************************)
(* OneRecomputePerBatch counts jobs.  A completed job pays for one thing   *)
(* at a time: its event on the way to the listener, its share of the       *)
(* counter, a check that adds a recompute, or the recompute.  Nothing is   *)
(* assumed of how many ids there are: only finitely many were ever used.   *)
(***************************************************************************)

Enqueued == {k \in ComputeIds : compute[k].state # "absent"}
Done     == {j \in Jobs : ingest[j].state = "completed"}
Adding   == {c \in Checks : check[c].at = "adding"}

FinitelyMany ==
    IsFiniteSet(Enqueued) /\ IsFiniteSet(Done) /\ IsFiniteSet(announced) /\ IsFiniteSet(Adding)

BatchInv ==
    /\ FinitelyMany
    /\ Cardinality(Enqueued) + Cardinality(announced) + counter + Cardinality(Adding)
         <= Cardinality(Done)

LEMMA Counts ==
    ASSUME FinitelyMany
    PROVE  /\ Cardinality(Enqueued) \in Nat /\ Cardinality(Done) \in Nat
           /\ Cardinality(announced) \in Nat /\ Cardinality(Adding) \in Nat
  BY FS_CardinalityType DEF FinitelyMany

\* A step that neither completes an ingest job nor enqueues a recompute.
LEMMA BatchKept ==
    ASSUME TypeOK, BatchInv, Enqueued' = Enqueued, Done' = Done, announced' \subseteq announced,
           counter' \in Nat, counter' <= counter, Adding' \subseteq Adding
    PROVE  BatchInv'
  <1>1. /\ IsFiniteSet(announced') /\ Cardinality(announced') <= Cardinality(announced)
        /\ IsFiniteSet(Adding') /\ Cardinality(Adding') <= Cardinality(Adding)
    BY FS_Subset DEF BatchInv, FinitelyMany
  <1>2. FinitelyMany'
    BY <1>1 DEF BatchInv, FinitelyMany
  <1>3. /\ Cardinality(Enqueued') \in Nat /\ Cardinality(Done') \in Nat
        /\ Cardinality(announced') \in Nat /\ Cardinality(Adding') \in Nat
    BY <1>1, FS_CardinalityType DEF BatchInv, FinitelyMany
  <1>. QED  BY <1>1, <1>2, <1>3, Counts DEF BatchInv, TypeOK

\* Which jobs are completed, and which recomputes were asked for, only their own
\* actions change.
LEMMA IngestMoves ==
    ASSUME TypeOK,
           \/ \E S \in SUBSET Jobs : ingest' = AddAll(ingest, S)
           \/ \E j \in Jobs : \/ CanTake(ingest, j) /\ ingest' = Take(ingest, j)
                              \/ ingest[j].state = "active" /\ ingest' = Fail(ingest, j, IngestAttempts)
                              \/ ingest[j].state = "delayed" /\ ingest' = Promote(ingest, j)
           \/ ingest' = StallActive(ingest)
           \/ ingest' = ingest
    PROVE  Done' = Done
  <1>1. ASSUME NEW j \in Jobs
        PROVE  (ingest'[j].state = "completed") <=> (ingest[j].state = "completed")
    <2>1. CASE \E S \in SUBSET Jobs : ingest' = AddAll(ingest, S)
      BY <2>1 DEF AddAll, TypeOK
    <2>2. CASE \E i \in Jobs : CanTake(ingest, i) /\ ingest' = Take(ingest, i)
      BY <2>2 DEF Take, CanTake, TypeOK
    <2>3. CASE \E i \in Jobs : ingest[i].state = "active" /\ ingest' = Fail(ingest, i, IngestAttempts)
      BY <2>3 DEF Fail, TypeOK
    <2>4. CASE \E i \in Jobs : ingest[i].state = "delayed" /\ ingest' = Promote(ingest, i)
      BY <2>4 DEF Promote, TypeOK
    <2>5. CASE ingest' = StallActive(ingest)
      BY <2>5 DEF StallActive, TypeOK
    <2>. QED  BY <2>1, <2>2, <2>3, <2>4, <2>5
  <1>. QED  BY <1>1 DEF Done

LEMMA ComputeMoves ==
    ASSUME TypeOK,
           \/ \E k \in ComputeIds : \/ CanTake(compute, k) /\ compute' = Take(compute, k)
                                    \/ compute[k].state = "active" /\ compute' = Complete(compute, k)
                                    \/ compute[k].state = "active" /\ compute' = Fail(compute, k, ComputeAttempts)
                                    \/ compute[k].state = "delayed" /\ compute' = Promote(compute, k)
           \/ compute' = StallActive(compute)
           \/ compute' = compute
    PROVE  Enqueued' = Enqueued
  <1>1. ASSUME NEW j \in ComputeIds
        PROVE  (compute'[j].state = "absent") <=> (compute[j].state = "absent")
    <2>1. CASE \E k \in ComputeIds : compute[k].state = "active" /\ compute' = Complete(compute, k)
      BY <2>1 DEF Complete, TypeOK
    <2>2. CASE \E k \in ComputeIds : CanTake(compute, k) /\ compute' = Take(compute, k)
      BY <2>2 DEF Take, CanTake, TypeOK
    <2>3. CASE \E k \in ComputeIds : compute[k].state = "active" /\ compute' = Fail(compute, k, ComputeAttempts)
      BY <2>3 DEF Fail, TypeOK
    <2>4. CASE \E k \in ComputeIds : compute[k].state = "delayed" /\ compute' = Promote(compute, k)
      BY <2>4 DEF Promote, TypeOK
    <2>5. CASE compute' = StallActive(compute)
      BY <2>5 DEF StallActive, TypeOK
    <2>. QED  BY <2>1, <2>2, <2>3, <2>4, <2>5
  <1>. QED  BY <1>1 DEF Enqueued

\* A completed job gains an event that is on its way.
LEMMA CompleteBatch ==
    ASSUME TypeOK, BatchInv, NEW j \in Jobs, CompleteIngest(j)
    PROVE  BatchInv'
  <1>1. Done' = Done \union {j} /\ j \notin Done
    BY DEF CompleteIngest, Complete, Done, TypeOK
  <1>2. announced' = announced \union {j}
    BY DEF CompleteIngest
  <1>3. Enqueued' = Enqueued /\ Adding' = Adding /\ counter' = counter
    BY DEF CompleteIngest, settle, Enqueued, Adding
  <1>4. /\ IsFiniteSet(Done') /\ Cardinality(Done') = Cardinality(Done) + 1
        /\ IsFiniteSet(announced')
        /\ Cardinality(announced') \in {Cardinality(announced), Cardinality(announced) + 1}
    BY <1>1, <1>2, FS_AddElement DEF BatchInv, FinitelyMany
  <1>. QED  BY <1>3, <1>4, Counts DEF BatchInv, FinitelyMany, TypeOK

\* Its event becomes a count.
LEMMA CountBatch ==
    ASSUME TypeOK, BatchInv, NEW j \in Jobs, OnCompleted(j)
    PROVE  BatchInv'
  <1>1. announced' = announced \ {j} /\ j \in announced /\ counter' = counter + 1
    BY DEF OnCompleted
  <1>2. Enqueued' = Enqueued /\ Adding' = Adding /\ Done' = Done
    BY DEF OnCompleted, queues, Enqueued, Adding, Done
  <1>3. IsFiniteSet(announced') /\ Cardinality(announced') = Cardinality(announced) - 1
    BY <1>1, FS_RemoveElement DEF BatchInv, FinitelyMany
  <1>. QED  BY <1>1, <1>2, <1>3, Counts DEF BatchInv, FinitelyMany, TypeOK

\* A check that takes a count takes at least one.
LEMMA DecideBatch ==
    ASSUME TypeOK, BatchInv, NEW c \in Checks, Decide(c)
    PROVE  BatchInv'
  <1>1. Enqueued' = Enqueued /\ Done' = Done /\ announced' = announced
    BY DEF Decide, queues, Enqueued, Done
  <1>2. \A d \in Checks \ {c} : check'[d] = check[d]
    BY DEF Decide, TypeOK
  <1>3. CASE check[c].busy \/ counter = 0
    <2>1. check'[c].at = "idle" /\ counter' = counter
      BY <1>3 DEF Decide, IdleCheck, TypeOK
    <2>2. Adding' \subseteq Adding
      BY <1>2, <2>1 DEF Adding
    <2>. QED  BY <1>1, <2>1, <2>2, BatchKept DEF TypeOK
  <1>4. CASE ~check[c].busy /\ counter # 0
    <2>1. counter' = 0 /\ Adding' \subseteq Adding \union {c}
      BY <1>2, <1>4 DEF Decide, Adding
    <2>2. /\ IsFiniteSet(Adding \union {c})
          /\ Cardinality(Adding \union {c}) \in {Cardinality(Adding), Cardinality(Adding) + 1}
      BY FS_AddElement DEF BatchInv, FinitelyMany
    <2>3. /\ IsFiniteSet(Adding') /\ Cardinality(Adding') <= Cardinality(Adding) + 1
          /\ Cardinality(Adding') \in Nat
      BY <2>1, <2>2, FS_Subset, FS_CardinalityType, Counts DEF BatchInv
    <2>. QED  BY <1>1, <1>4, <2>1, <2>3, Counts DEF BatchInv, FinitelyMany, TypeOK
  <1>. QED  BY <1>3, <1>4

\* And what it took pays for the recompute.
LEMMA AddBatch ==
    ASSUME TypeOK, BatchInv, NEW c \in Checks, AddCompute(c)
    PROVE  BatchInv'
  <1>. PICK k \in ComputeIds : compute[k].state = "absent" /\ compute' = AddAll(compute, {k})
    BY DEF AddCompute
  <1>1. Enqueued' = Enqueued \union {k} /\ k \notin Enqueued
    BY DEF AddAll, Enqueued, TypeOK
  <1>2. Adding' = Adding \ {c} /\ c \in Adding
    BY DEF AddCompute, Adding, IdleCheck, TypeOK
  <1>3. Done' = Done /\ announced' = announced /\ counter' = counter
    BY DEF AddCompute, Done
  <1>4. /\ IsFiniteSet(Enqueued') /\ Cardinality(Enqueued') = Cardinality(Enqueued) + 1
        /\ IsFiniteSet(Adding') /\ Cardinality(Adding') = Cardinality(Adding) - 1
    BY <1>1, <1>2, FS_AddElement, FS_RemoveElement DEF BatchInv, FinitelyMany
  <1>. QED  BY <1>3, <1>4, Counts DEF BatchInv, FinitelyMany, TypeOK

LEMMA BatchStep == TypeOK /\ BatchInv /\ [Next]_vars => BatchInv'
  <1> SUFFICES ASSUME TypeOK, BatchInv, [Next]_vars PROVE BatchInv'
    OBVIOUS
  <1>0. counter \in Nat
    BY DEF TypeOK
  <1>1. ASSUME Done' = Done, Enqueued' = Enqueued, UNCHANGED <<announced, settle>> PROVE BatchInv'
    BY <1>0, <1>1, BatchKept DEF settle, Adding
  <1>2. ASSUME NEW S \in SUBSET Jobs, Enqueue(S) PROVE BatchInv'
    <2>1. Done' = Done /\ Enqueued' = Enqueued
      BY <1>2, IngestMoves DEF Enqueue, Enqueued
    <2>2. \A c \in Checks : check'[c].at = check[c].at
      BY <1>2 DEF Enqueue, Entering, CheckRecords, TypeOK
    <2>. QED  BY <1>0, <1>2, <2>1, <2>2, BatchKept DEF Enqueue, Adding
  <1>3. ASSUME NEW j \in Jobs, TakeIngest(j) \/ LandBars(j) \/ FailIngest(j) PROVE BatchInv'
    <2>1. Done' = Done
      BY <1>3, IngestMoves DEF TakeIngest, LandBars, FailIngest, queues
    <2>. QED  BY <1>1, <1>3, <2>1 DEF TakeIngest, LandBars, FailIngest, queues, Enqueued
  <1>4. ASSUME NEW j \in Jobs, BackoffOver(j) PROVE BatchInv'
    <2>1. Done' = Done /\ Enqueued' = Enqueued
      BY <1>4, IngestMoves DEF BackoffOver, Enqueued
    <2>2. \A c \in Checks : check'[c].at = check[c].at
      BY <1>4 DEF BackoffOver, Entering, CheckRecords, TypeOK
    <2>. QED  BY <1>0, <1>4, <2>1, <2>2, BatchKept DEF BackoffOver, Adding
  <1>5. ASSUME NEW c \in Checks, NEW s, NEW n \in CheckSteps \ {"adding"},
               TimerFires(c) \/ ReadDepth(c, s, n) \/ CheckError(c)
        PROVE  BatchInv'
    <2>1. Done' = Done /\ Enqueued' = Enqueued /\ UNCHANGED <<announced, counter>>
      BY <1>5 DEF TimerFires, ReadDepth, CheckError, queues, Done, Enqueued
    <2>2. check'[c].at # "adding" /\ \A d \in Checks \ {c} : check'[d] = check[d]
      BY <1>5 DEF TimerFires, ReadDepth, CheckError, IdleCheck, TypeOK, CheckRecords
    <2>3. Adding' \subseteq Adding
      BY <2>2 DEF Adding
    <2>. QED  BY <1>0, <2>1, <2>3, BatchKept
  <1>6. ASSUME NEW k \in ComputeIds,
               TakeCompute(k) \/ FinishCompute(k) \/ FailCompute(k) \/ ComputeBackoffOver(k)
        PROVE  BatchInv'
    <2>1. Enqueued' = Enqueued
      BY <1>6, ComputeMoves DEF TakeCompute, FinishCompute, FailCompute, ComputeBackoffOver
    <2>. QED  BY <1>1, <1>6, <2>1 DEF TakeCompute, FinishCompute, FailCompute, ComputeBackoffOver, Done
  <1>7. CASE ClearTables \/ (\E S \in SUBSET Jobs : WriteEvents(S)) \/ UNCHANGED vars
    BY <1>1, <1>7 DEF ClearTables, WriteEvents, vars, queues, settle, Done, Enqueued
  <1>8. CASE Crash
    <2>1. Done' = Done /\ Enqueued' = Enqueued
      BY <1>8, IngestMoves, ComputeMoves DEF Crash
    <2>2. announced' = {} /\ counter' = 0 /\ Adding' = {}
      BY <1>8 DEF Crash, Adding, IdleCheck
    <2>. QED  BY <1>0, <2>1, <2>2, BatchKept
  <1>9. {"active", "delayed", "decide"} \subseteq CheckSteps \ {"adding"}
    BY DEF CheckSteps
  <1>. QED
    BY <1>2, <1>3, <1>4, <1>5, <1>6, <1>7, <1>8, <1>9, CompleteBatch, CountBatch, DecideBatch, AddBatch
       DEF Next, Handler, CheckStep, ComputeStep, ReadWaiting, ReadActive, ReadDelayed

(* No more recomputes are ever asked for than ingest jobs were completed, for  *)
(* any sets of ids and any crashes (IngestPipeline!OneRecomputePerBatch; the   *)
(* debounce of scheduleCompute in worker/index.ts).                            *)
THEOREM NoRecomputeForNothing == Spec => []OneRecomputePerBatch
  <1>1. Init => BatchInv
    <2>. SUFFICES ASSUME Init PROVE BatchInv
      OBVIOUS
    <2>1. Enqueued = {} /\ Done = {} /\ announced = {} /\ Adding = {} /\ counter = 0
      BY DEF Init, Enqueued, Done, Adding, IdleCheck
    <2>. QED  BY <2>1, FS_EmptySet DEF BatchInv, FinitelyMany
  <1>2. TypeOK /\ BatchInv => OneRecomputePerBatch
    <2>. SUFFICES ASSUME TypeOK, BatchInv PROVE OneRecomputePerBatch
      OBVIOUS
    <2>1. InState(ingest, "completed") = Done
      BY DEF InState, Done, TypeOK
    <2>. QED
      BY <2>1, Counts DEF BatchInv, OneRecomputePerBatch, Enqueued, TypeOK
  <1>. QED  BY <1>1, <1>2, InitType, TypeStep, BatchStep, PTL DEF Spec
===============================================================================
