-------------------------- MODULE SingleFlightProofs --------------------------
(***************************************************************************)
(* Theorems about SingleFlight, for any workers, calls, lease and cadence. *)
(***************************************************************************)
EXTENDS SingleFlight, TLAPS

Locks == [token : Calls \cup {Nobody}, ttl : 0..Lease]
CallRecords == [at : Steps, by : Workers \cup {Nobody}]

-------------------------------------------------------------------------------
(* The records of the model have their types.                              *)

LEMMA ConstantTypes ==
    /\ Free \in Locks
    /\ NoCall \in CallRecords
    /\ \A c \in Calls : [token |-> c, ttl |-> Lease] \in Locks
  BY LockAssumption DEF Free, NoCall, Locks, CallRecords, Steps

\* Goto and Over keep the calls well typed.
LEMMA MoveTypes ==
    ASSUME call \in [Calls -> CallRecords], NEW c \in Calls
    PROVE  /\ Over(c) => call' \in [Calls -> CallRecords]
           /\ \A step \in Steps : Goto(c, step) => call' \in [Calls -> CallRecords]
  BY ConstantTypes DEF Over, Goto, CallRecords

\* A unit less of a lease is a lease.
LEMMA OneUnitLess ==
    ASSUME NEW l \in Locks, l.ttl > 1
    PROVE  [l EXCEPT !.ttl = @ - 1] \in Locks
  <1>1. l.ttl - 1 \in 0..Lease
    BY LockAssumption DEF Locks
  <1>. QED  BY <1>1 DEF Locks

LEMMA InitType == Init => TypeOK
  BY ConstantTypes, LockAssumption DEF Init, TypeOK, Locks, CallRecords

LEMMA TypeStep == TypeOK /\ [Next]_vars => TypeOK'
  <1> SUFFICES ASSUME TypeOK, [Next]_vars PROVE TypeOK'
    OBVIOUS
  <1> USE LockAssumption
  <1>1. /\ lock \in Locks /\ call \in [Calls -> CallRecords]
        /\ since \in [Workers -> 0..Cadence] /\ faults \in Nat
        /\ late \subseteq Calls /\ lost \subseteq Calls
    BY DEF TypeOK, Locks, CallRecords
  <1> DEFINE Kept == /\ lock' \in Locks /\ call' \in [Calls -> CallRecords]
                     /\ since' \in [Workers -> 0..Cadence] /\ faults' \in Nat
                     /\ late' \subseteq Calls /\ lost' \subseteq Calls
  <1>2. ASSUME NEW w \in Workers, NEW c \in Calls, Begin(w, c) PROVE Kept
    <2>1. [at |-> "setting", by |-> w] \in CallRecords
      BY DEF CallRecords, Steps
    <2>. QED  BY <1>1, <1>2, <2>1 DEF Begin
  <1>3. ASSUME NEW c \in Calls, Acquire(c) PROVE Kept
    BY <1>1, <1>3, MoveTypes, ConstantTypes DEF Acquire, TakeKey, Steps
  <1>4. ASSUME NEW c \in Calls, Refuse(c) PROVE Kept
    BY <1>1, <1>4, MoveTypes DEF Refuse
  <1>5. ASSUME NEW c \in Calls, ProceedUnguarded(c) PROVE Kept
    BY <1>1, <1>5, MoveTypes DEF ProceedUnguarded, Steps
  <1>6. ASSUME NEW c \in Calls, LateSet(c) \/ LateSetLost(c) PROVE Kept
    BY <1>1, <1>6, ConstantTypes DEF LateSet, LateSetLost, TakeKey
  <1>7. ASSUME NEW c \in Calls, Return(c) PROVE Kept
    BY <1>1, <1>7, MoveTypes DEF Return, Steps
  <1>8. ASSUME NEW c \in Calls, KeyIsOurs(c) \/ KeyIsNotOurs(c) PROVE Kept
    BY <1>1, <1>8, MoveTypes DEF KeyIsOurs, KeyIsNotOurs, Steps
  <1>9. ASSUME NEW c \in Calls, DeleteKey(c) PROVE Kept
    BY <1>1, <1>9, MoveTypes, ConstantTypes DEF DeleteKey, Holders
  <1>10. ASSUME NEW c \in Calls, ReleaseFails(c) PROVE Kept
    BY <1>1, <1>10, MoveTypes DEF ReleaseFails
  <1>11. ASSUME Tick PROVE Kept
    <2>1. since' \in [Workers -> 0..Cadence]
      BY <1>1, <1>11 DEF Tick
    <2>2. lock' \in Locks
      <3>1. \/ lock' = Free
            \/ lock' = lock
            \/ lock.ttl > 1 /\ lock' = [lock EXCEPT !.ttl = @ - 1]
        BY <1>11 DEF Tick
      <3>. QED  BY <1>1, <3>1, OneUnitLess, ConstantTypes
    <2>3. lost' \subseteq Calls
      BY <1>1, <1>11 DEF Tick, Holders
    <2>. QED  BY <1>1, <1>11, <2>1, <2>2, <2>3 DEF Tick
  <1>12. ASSUME NEW w \in Workers, Restart(w) PROVE Kept
    BY <1>1, <1>12, ConstantTypes DEF Restart
  <1>13. ASSUME UNCHANGED vars PROVE Kept
    BY <1>1, <1>13 DEF vars
  <1>14. Kept
    BY <1>2, <1>3, <1>4, <1>5, <1>6, <1>7, <1>8, <1>9, <1>10, <1>11, <1>12, <1>13
       DEF Next
  <1>. QED  BY <1>14 DEF TypeOK, Locks, CallRecords

(* Every variable of the lock, the calls and the schedule keeps its type.  *)
THEOREM TypeCorrect == Spec => []TypeOK
  BY InitType, TypeStep, PTL DEF Spec

-------------------------------------------------------------------------------
(* A call that was granted the key and has not given it back still owns    *)
(* it, or has lost it.  This is what makes the lock a lock: every step     *)
(* that takes the key away from a call records the loss.                   *)

Granted(c) == call[c].at \in {"guarded", "checking", "deleting"}
KeyInv == \A c \in Calls : Granted(c) => lock.token = c \/ c \in lost

\* A step that grants nothing and keeps the key and the losses keeps KeyInv.
LEMMA NothingLost ==
    ASSUME KeyInv, lock' = lock,
           \A c \in Calls : Granted(c)' => Granted(c) /\ (c \in lost => c \in lost')
    PROVE  KeyInv'
  BY DEF KeyInv

LEMMA KeyStep == TypeOK /\ KeyInv /\ [Next]_vars => KeyInv'
  <1> SUFFICES ASSUME TypeOK, KeyInv, [Next]_vars PROVE KeyInv'
    OBVIOUS
  <1> USE LockAssumption
  <1>0. /\ call \in [Calls -> CallRecords]
        /\ \A c \in Calls : Granted(c) <=> c \in Holders
        /\ Free.token = Nobody
        /\ NoCall.at = "idle"
    BY DEF TypeOK, CallRecords, Granted, Holders, Free, NoCall
  <1>1. ASSUME NEW w \in Workers, NEW c \in Calls, Begin(w, c) PROVE KeyInv'
    BY <1>0, <1>1, NothingLost DEF Begin, Granted
  <1>2. ASSUME NEW c \in Calls, Acquire(c) PROVE KeyInv'
    <2>1. \A d \in Calls : Granted(d) => d \in lost
      BY <1>0, <1>2 DEF KeyInv, Acquire, TakeKey
    <2>2. \A d \in Calls : Granted(d)' => Granted(d) \/ d = c
      BY <1>0, <1>2 DEF Acquire, Goto, Granted
    <2>. QED  BY <1>2, <2>1, <2>2 DEF KeyInv, Acquire, TakeKey
  <1>3. ASSUME NEW c \in Calls, Refuse(c) PROVE KeyInv'
    BY <1>0, <1>3, NothingLost DEF Refuse, Over, Granted
  <1>4. ASSUME NEW c \in Calls, ProceedUnguarded(c) PROVE KeyInv'
    BY <1>0, <1>4, NothingLost DEF ProceedUnguarded, Goto, Granted
  <1>5. ASSUME NEW c \in Calls, LateSet(c) PROVE KeyInv'
    <2>1. CASE lock = Free
      <3>1. \A d \in Calls : Granted(d) => d \in lost
        BY <1>0, <2>1 DEF KeyInv
      <3>. QED  BY <1>5, <3>1 DEF KeyInv, LateSet, Granted
    <2>2. CASE lock # Free
      BY <1>5, <2>2, NothingLost DEF LateSet, Granted
    <2>. QED  BY <2>1, <2>2
  <1>6. ASSUME NEW c \in Calls, LateSetLost(c) PROVE KeyInv'
    BY <1>6, NothingLost DEF LateSetLost, Granted
  <1>7. ASSUME NEW c \in Calls, Return(c) PROVE KeyInv'
    BY <1>0, <1>7, NothingLost DEF Return, Running, Goto, Over, Granted
  <1>8. ASSUME NEW c \in Calls, KeyIsOurs(c) PROVE KeyInv'
    BY <1>0, <1>8, NothingLost DEF KeyIsOurs, Goto, Granted
  <1>9. ASSUME NEW c \in Calls, KeyIsNotOurs(c) PROVE KeyInv'
    BY <1>0, <1>9, NothingLost DEF KeyIsNotOurs, Over, Granted
  <1>10. ASSUME NEW c \in Calls, DeleteKey(c) PROVE KeyInv'
    <2>1. \A d \in Calls : Granted(d)' => Granted(d) /\ d # c
      BY <1>0, <1>10 DEF DeleteKey, Over, Granted
    <2>2. \A d \in Calls : Granted(d)' => d \in lost'
      BY <1>0, <1>10, <2>1 DEF KeyInv, DeleteKey
    <2>. QED  BY <2>2 DEF KeyInv
  <1>11. ASSUME NEW c \in Calls, ReleaseFails(c) PROVE KeyInv'
    BY <1>0, <1>11, NothingLost DEF ReleaseFails, Over, Granted
  <1>12. ASSUME Tick PROVE KeyInv'
    <2>1. CASE lock.ttl = 1
      <3>1. \A d \in Calls : Granted(d)' => d \in lost'
        BY <1>0, <1>12, <2>1 DEF KeyInv, Tick, Granted
      <3>. QED  BY <3>1 DEF KeyInv
    <2>2. CASE lock.ttl # 1
      <3>1. lock'.token = lock.token
        BY <1>12, <2>2, LockAssumption DEF Tick, TypeOK
      <3>. QED  BY <1>12, <2>2, <3>1 DEF KeyInv, Tick, Granted
    <2>. QED  BY <2>1, <2>2
  <1>13. ASSUME NEW w \in Workers, Restart(w) PROVE KeyInv'
    BY <1>0, <1>13, NothingLost DEF Restart, Granted
  <1>14. CASE UNCHANGED vars
    BY <1>14, NothingLost DEF vars, Granted
  <1>. QED
    BY <1>1, <1>2, <1>3, <1>4, <1>5, <1>6, <1>7, <1>8, <1>9, <1>10, <1>11, <1>12,
       <1>13, <1>14 DEF Next

LEMMA KeyInvariant == Spec => [](TypeOK /\ KeyInv)
  <1>1. Init => KeyInv
    BY DEF Init, KeyInv, Granted, NoCall
  <1>. QED  BY <1>1, InitType, TypeStep, KeyStep, PTL DEF Spec

(* Of two calls inside a guarded fn one has lost its key: the key names    *)
(* one token only.                                                         *)
THEOREM MutualExclusion == Spec => []OneHolderOfTheKey
  <1>1. KeyInv => OneHolderOfTheKey
    BY DEF KeyInv, Granted, OneHolderOfTheKey
  <1>. QED  BY <1>1, KeyInvariant, PTL

(* A release deletes another call's key only after it lost its own.        *)
THEOREM ReleaseSparesOthers == Spec => OnlyALoserRobs
  <1>1. KeyInv /\ [Next]_vars =>
          [\A c \in Calls :
              /\ call[c].at = "deleting" /\ call'[c] = NoCall
              /\ lock' # lock /\ lock.token # c
              => c \in lost]_vars
    BY DEF KeyInv, Granted
  <1>. QED  BY <1>1, KeyInvariant, PTL DEF Spec, OnlyALoserRobs
-------------------------------------------------------------------------------
(* What refuses a cycle.  A key its own process holds is a cycle begun less *)
(* than a lease ago, and the next one begins no sooner than a cadence; a    *)
(* SET that came too late belongs to no call that holds the lock.           *)

\* Workers that began the calls, and the key's time.
Owned == \A c \in Calls : call[c].at # "idle" => call[c].by \in Workers
KeyHasTime == lock.token # Nobody => lock.ttl > 0
\* A SET that was given up is no longer awaited, nor was it granted.
GivenUp == \A c \in late : call[c].at # "setting" /\ ~Granted(c)
\* No time has passed for a process whose SET is awaited, and it awaits one.
JustBegun == \A c \in Calls : call[c].at = "setting" => since[call[c].by] = 0
OneAwaited ==
    \A c, d \in Calls :
        call[c].at = "setting" /\ call[d].at = "setting" /\ call[c].by = call[d].by => c = d
\* Of the lease of a held key there is left what its holder has not used.
LeaseRuns ==
    \A c \in Calls :
        Granted(c) /\ lock.token = c => lock.ttl + since[call[c].by] =< Lease
\* A process awaits no SET while it holds the key.
HeldOrAwaited ==
    \A c, d \in Calls :
        Granted(c) /\ lock.token = c /\ call[d].at = "setting" => call[c].by # call[d].by

ScheduleInv ==
    /\ Owned /\ KeyHasTime /\ GivenUp /\ JustBegun /\ OneAwaited
    /\ LeaseRuns /\ HeldOrAwaited

\* A step that begins no call, grants nothing and takes no key: every call
\* stays where it is, moves on to where it awaits and holds nothing, or is over.
LEMMA NothingBegun ==
    ASSUME ScheduleInv, since' = since, lock' = lock \/ lock' = Free,
           \A c \in late' : c \in late \/ (call[c].at = "setting" /\ call'[c].at = "unguarded"),
           \A c \in Calls :
              \/ call'[c].at = "idle"
              \/ /\ call[c].at # "idle" /\ call'[c].by = call[c].by
                 /\ call'[c].at = "setting" => call[c].at = "setting"
                 /\ Granted(c)' => Granted(c),
           late' \subseteq Calls
    PROVE  ScheduleInv'
  <1>1. Free.token = Nobody /\ \A c \in Calls : c # Nobody
    BY LockAssumption DEF Free
  <1>2. /\ \A c \in Calls : call'[c].at = "setting" => call[c].at = "setting"
        /\ \A c \in Calls : Granted(c)' => Granted(c)
        /\ \A c \in Calls : call'[c].at # "idle" =>
              call[c].at # "idle" /\ call'[c].by = call[c].by
    BY DEF Granted
  <1>3. Owned'
    BY <1>2 DEF ScheduleInv, Owned
  <1>4. KeyHasTime'
    BY <1>1 DEF ScheduleInv, KeyHasTime
  <1>5. GivenUp'
    BY <1>2 DEF ScheduleInv, GivenUp, Granted
  <1>6. JustBegun'
    BY <1>2 DEF ScheduleInv, JustBegun
  <1>7. OneAwaited'
    BY <1>2 DEF ScheduleInv, OneAwaited
  <1>8. LeaseRuns'
    BY <1>1, <1>2 DEF ScheduleInv, LeaseRuns, Granted
  <1>9. HeldOrAwaited'
    BY <1>1, <1>2 DEF ScheduleInv, HeldOrAwaited, Granted
  <1>. QED  BY <1>3, <1>4, <1>5, <1>6, <1>7, <1>8, <1>9 DEF ScheduleInv

LEMMA ScheduleStep ==
    ASSUME Lease =< Cadence
    PROVE  TypeOK /\ ScheduleInv /\ [Next]_vars => ScheduleInv'
  <1> SUFFICES ASSUME TypeOK, ScheduleInv, [Next]_vars PROVE ScheduleInv'
    OBVIOUS
  <1>0. /\ call \in [Calls -> CallRecords] /\ since \in [Workers -> 0..Cadence]
        /\ lock \in Locks /\ late \subseteq Calls
        /\ Free.token = Nobody /\ NoCall.at = "idle"
        /\ \A c \in Calls : c # Nobody
        /\ Lease \in Nat \ {0} /\ Cadence \in Nat \ {0} /\ lock.ttl \in 0..Lease
    BY LockAssumption DEF TypeOK, CallRecords, Locks, Free, NoCall
  <1>1. ASSUME NEW w \in Workers, NEW c \in Calls, Begin(w, c) PROVE ScheduleInv'
    <2>1. /\ call'[c] = [at |-> "setting", by |-> w]
          /\ \A d \in Calls : d # c => call'[d] = call[d]
          /\ since'[w] = 0 /\ \A v \in Workers : v # w => since'[v] = since[v]
          /\ since[w] = Cadence /\ lock' = lock /\ late' = late
          /\ lock.token # c /\ c \notin late
      BY <1>0, <1>1 DEF Begin
    <2>2. \A d \in Calls : call[d].at = "setting" => call[d].by # w
      BY <1>0, <2>1 DEF ScheduleInv, JustBegun
    <2>3. \A d \in Calls : Granted(d) /\ lock.token = d => call[d].by # w
      BY <1>0, <2>1 DEF ScheduleInv, LeaseRuns, KeyHasTime
    <2>4. \A d \in Calls : Granted(d)' => Granted(d) /\ d # c
      BY <2>1 DEF Granted
    <2>5. Owned' /\ KeyHasTime'
      BY <2>1 DEF ScheduleInv, Owned, KeyHasTime
    <2>6. GivenUp'
      BY <1>0, <2>1, <2>4 DEF ScheduleInv, GivenUp
    <2>7. JustBegun'
      BY <2>1, <2>2 DEF ScheduleInv, JustBegun, Owned
    <2>8. OneAwaited'
      BY <2>1, <2>2 DEF ScheduleInv, OneAwaited
    <2>9. LeaseRuns'
      BY <2>1, <2>3, <2>4 DEF ScheduleInv, LeaseRuns, Owned, Granted
    <2>10. HeldOrAwaited'
      BY <2>1, <2>3, <2>4 DEF ScheduleInv, HeldOrAwaited
    <2>. QED  BY <2>5, <2>6, <2>7, <2>8, <2>9, <2>10 DEF ScheduleInv
  <1>2. ASSUME NEW c \in Calls, Acquire(c) PROVE ScheduleInv'
    <2>1. /\ call[c].at = "setting"
          /\ call'[c].at = "guarded" /\ call'[c].by = call[c].by
          /\ \A d \in Calls : d # c => call'[d] = call[d]
          /\ lock'.token = c /\ lock'.ttl = Lease
          /\ since' = since /\ late' = late
      BY <1>0, <1>2 DEF Acquire, Goto, TakeKey, CallRecords
    <2>2. Owned' /\ KeyHasTime'
      BY <1>0, <2>1 DEF ScheduleInv, Owned, KeyHasTime
    <2>3. GivenUp'
      BY <1>0, <2>1 DEF ScheduleInv, GivenUp, Granted
    <2>4. JustBegun' /\ OneAwaited'
      BY <2>1 DEF ScheduleInv, JustBegun, OneAwaited
    <2>5. LeaseRuns'
      BY <1>0, <2>1 DEF ScheduleInv, JustBegun, LeaseRuns
    <2>6. HeldOrAwaited'
      BY <2>1 DEF ScheduleInv, OneAwaited, HeldOrAwaited
    <2>. QED  BY <2>2, <2>3, <2>4, <2>5, <2>6 DEF ScheduleInv
  <1>3. ASSUME NEW c \in Calls, Refuse(c) PROVE ScheduleInv'
    BY <1>0, <1>3, NothingBegun DEF Refuse, Over, ScheduleInv, Owned, Granted
  <1>4. ASSUME NEW c \in Calls, ProceedUnguarded(c) PROVE ScheduleInv'
    <2>1. /\ call'[c].at = "unguarded" /\ call'[c].by = call[c].by
          /\ \A d \in Calls : d # c => call'[d] = call[d]
          /\ call[c].at = "setting"
      BY <1>0, <1>4 DEF ProceedUnguarded, Goto, CallRecords
    <2>. QED  BY <1>0, <1>4, <2>1, NothingBegun DEF ProceedUnguarded, Granted
  <1>5. ASSUME NEW c \in Calls, LateSet(c) PROVE ScheduleInv'
    <2>1. CASE lock = Free
      <3>1. /\ c \in late /\ late' = late \ {c}
            /\ call' = call /\ since' = since
            /\ lock'.token = c /\ lock'.ttl = Lease
        BY <1>0, <1>5, <2>1 DEF LateSet, TakeKey
      <3>2. ~Granted(c)'
        BY <3>1 DEF ScheduleInv, GivenUp, Granted
      <3>3. LeaseRuns' /\ HeldOrAwaited'
        BY <3>1, <3>2 DEF LeaseRuns, HeldOrAwaited
      <3>. QED
        BY <1>0, <3>1, <3>3 DEF ScheduleInv, Owned, KeyHasTime, GivenUp, JustBegun,
                                OneAwaited, Granted
    <2>2. CASE lock # Free
      BY <1>0, <1>5, <2>2, NothingBegun DEF LateSet, Granted
    <2>. QED  BY <2>1, <2>2
  <1>6. ASSUME NEW c \in Calls, LateSetLost(c) PROVE ScheduleInv'
    BY <1>0, <1>6, NothingBegun DEF LateSetLost, Granted
  <1>7. ASSUME NEW c \in Calls, Return(c) PROVE ScheduleInv'
    BY <1>0, <1>7, NothingBegun DEF Return, Running, Goto, Over, Granted, CallRecords
  <1>8. ASSUME NEW c \in Calls, KeyIsOurs(c) PROVE ScheduleInv'
    BY <1>0, <1>8, NothingBegun DEF KeyIsOurs, Goto, Granted, CallRecords
  <1>9. ASSUME NEW c \in Calls, KeyIsNotOurs(c) PROVE ScheduleInv'
    BY <1>0, <1>9, NothingBegun DEF KeyIsNotOurs, Over, Granted
  <1>10. ASSUME NEW c \in Calls, DeleteKey(c) PROVE ScheduleInv'
    BY <1>0, <1>10, NothingBegun DEF DeleteKey, Over, Granted
  <1>11. ASSUME NEW c \in Calls, ReleaseFails(c) PROVE ScheduleInv'
    BY <1>0, <1>11, NothingBegun DEF ReleaseFails, Over, Granted
  <1>12. ASSUME Tick PROVE ScheduleInv'
    <2>1. /\ \A c \in Calls : call[c].at # "setting"
          /\ call' = call /\ late' = late
          /\ \A w \in Workers : since[w] \in 0..Cadence
          /\ \A w \in Workers : since'[w] = since[w] + 1 \/ since'[w] = Cadence
          /\ \A w \in Workers : since'[w] =< since[w] + 1
      BY <1>0, <1>12 DEF Tick
    <2>2. \/ lock'.token = Nobody
          \/ lock'.token = lock.token /\ lock'.ttl = lock.ttl - 1 /\ lock'.ttl > 0
      <3>1. \/ lock' = Free
            \/ lock.ttl > 1 /\ lock' = [lock EXCEPT !.ttl = @ - 1]
            \/ lock.ttl = 0 /\ lock' = lock
        BY <1>0, <1>12 DEF Tick
      <3>2. CASE lock' = Free
        BY <1>0, <3>2
      <3>3. CASE lock.ttl > 1 /\ lock' = [lock EXCEPT !.ttl = @ - 1]
        BY <1>0, <3>3 DEF Locks
      <3>4. CASE lock.ttl = 0 /\ lock' = lock
        BY <1>0, <3>4 DEF ScheduleInv, KeyHasTime
      <3>. QED  BY <3>1, <3>2, <3>3, <3>4
    <2>3. LeaseRuns'
      <3>. SUFFICES ASSUME NEW c \in Calls, Granted(c)', lock'.token = c
                    PROVE  lock'.ttl + since'[call'[c].by] =< Lease
        BY DEF LeaseRuns
      <3>1. Granted(c) /\ call[c].by \in Workers
        BY <2>1 DEF Granted, ScheduleInv, Owned
      <3>2. lock.token = c /\ lock'.ttl = lock.ttl - 1
        BY <1>0, <2>2
      <3>3. lock.ttl + since[call[c].by] =< Lease
        BY <3>1, <3>2 DEF ScheduleInv, LeaseRuns
      <3>4. since[call[c].by] \in Nat /\ since'[call[c].by] \in Nat
        BY <1>0, <2>1, <3>1
      <3>. QED  BY <1>0, <2>1, <3>1, <3>2, <3>3, <3>4
    <2>. QED
      BY <1>0, <2>1, <2>2, <2>3 DEF ScheduleInv, Owned, KeyHasTime, GivenUp, JustBegun,
                                    OneAwaited, HeldOrAwaited, Granted
  <1>13. ASSUME NEW w \in Workers, Restart(w) PROVE ScheduleInv'
    <2>1. /\ \A c \in Calls : call[c].by = w => call'[c].at = "idle"
          /\ \A c \in Calls : call[c].by # w => call'[c] = call[c]
          /\ \A v \in Workers : v # w => since'[v] = since[v]
          /\ lock' = lock /\ late' = late
      BY <1>0, <1>13 DEF Restart
    <2>2. /\ \A c \in Calls : call'[c].at # "idle" => call'[c] = call[c] /\ call[c].by # w
          /\ \A c \in Calls : Granted(c)' => Granted(c) /\ call'[c].at # "idle"
          /\ \A c \in Calls : ~Granted(c) => ~Granted(c)'
      BY <2>1 DEF Granted
    <2>3. Owned' /\ KeyHasTime'
      BY <2>1, <2>2 DEF ScheduleInv, Owned, KeyHasTime
    <2>4. GivenUp'
      BY <1>0, <2>1, <2>2 DEF ScheduleInv, GivenUp
    <2>5. JustBegun'
      BY <2>1, <2>2 DEF ScheduleInv, JustBegun, Owned
    <2>6. OneAwaited'
      BY <2>2 DEF ScheduleInv, OneAwaited
    <2>7. LeaseRuns'
      BY <2>1, <2>2 DEF ScheduleInv, LeaseRuns, Owned
    <2>8. HeldOrAwaited'
      BY <2>1, <2>2 DEF ScheduleInv, HeldOrAwaited
    <2>. QED  BY <2>3, <2>4, <2>5, <2>6, <2>7, <2>8 DEF ScheduleInv
  <1>14. CASE UNCHANGED vars
    BY <1>0, <1>14, NothingBegun DEF vars, Granted
  <1>. QED
    BY <1>1, <1>2, <1>3, <1>4, <1>5, <1>6, <1>7, <1>8, <1>9, <1>10, <1>11, <1>12,
       <1>13, <1>14 DEF Next

(* With a lease no longer than the cadence, a cycle is never refused by the *)
(* cycle its own process runs under the lock.                               *)
THEOREM NeverRefusedByOneself ==
    ASSUME Lease =< Cadence
    PROVE  Spec => RefusedOnlyFromOutside
  <1>1. Init => ScheduleInv
    BY LockAssumption
       DEF Init, NoCall, Free, ScheduleInv, Owned, KeyHasTime, GivenUp, JustBegun, OneAwaited,
           LeaseRuns, HeldOrAwaited, Granted
  <1>2. ScheduleInv =>
          [\A c \in Calls :
              call[c].at = "setting" /\ call'[c] = NoCall /\ faults' = faults
              => \A h \in Holders : lock.token = h => call[h].by # call[c].by]_vars
    BY DEF ScheduleInv, HeldOrAwaited, Holders, Granted
  <1>. QED
    BY <1>1, <1>2, ScheduleStep, InitType, TypeStep, PTL DEF Spec, RefusedOnlyFromOutside
===============================================================================
