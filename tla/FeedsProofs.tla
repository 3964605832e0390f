------------------------------ MODULE FeedsProofs ------------------------------
(***************************************************************************)
(* Theorems about the token bucket of Feeds for any capacity, window,      *)
(* schedule and number of symbols, of faults and of restarts.              *)
(***************************************************************************)
EXTENDS Feeds, TLAPS

(* Facts about products of natural numbers, which the provers do not find   *)
(* by themselves.                                                          *)

LEMMA OneMore ==
    ASSUME NEW m \in Nat, NEW n \in Int
    PROVE  /\ (n + 1) * m = n * m + m
           /\ (n - 1) * m = n * m - m
           /\ n * m \in Int
           /\ n \in Nat => n * m \in Nat
  OBVIOUS

LEMMA Distribute ==
    ASSUME NEW m \in Nat, NEW n \in Nat, NEW k \in Nat
    PROVE  (m + n) * k = k * m + n * k
  OBVIOUS

\* A wait is rounded up: there is none only when a token is there.
LEMMA ARemainderWaits ==
    ASSUME NEW c \in Nat \ {0}, NEW n \in Nat, n >= c
    PROVE  n \div c >= 1
  OBVIOUS

-------------------------------------------------------------------------------
(* The bucket and what the provider saw of it. *)

BucketTyped ==
    /\ tokens \in 0..Full
    /\ refilled \in 0..WINDOW
    /\ sent \in [0..WINDOW -> Nat]

\* What was sent in a span and what is still in the bucket came from a full
\* bucket and from what trickled in during the span.
Balanced == \A a \in 0..WINDOW : sent[a] * WINDOW + Refilled <= Full + a * CAPACITY

BucketInv == BucketTyped /\ Balanced

-------------------------------------------------------------------------------
(* What a step can do to the bucket. *)

Spends == /\ Refilled >= WINDOW
          /\ refilled' = 0
          /\ tokens' = Refilled - WINDOW
          /\ sent' = [age \in 0..WINDOW |-> sent[age] + 1]

\* Somebody looked at the bucket, or it is a new one.
Settles == /\ refilled' = 0
           /\ tokens' \in {0, Refilled}
           /\ sent' = sent

Trickles == /\ refilled' = Upto(WINDOW, refilled + 1)
            /\ tokens' = tokens
            /\ sent' = [age \in 0..WINDOW |-> IF age = 0 THEN 0 ELSE sent[age - 1]]

Leaves == UNCHANGED <<tokens, refilled, sent>>

LEMMA Contents ==
    ASSUME BucketTyped
    PROVE  /\ Full \in Nat
           /\ Refilled \in 0..Full
           /\ refilled * CAPACITY \in Nat
           /\ CAPACITY \in Nat \ {0} /\ WINDOW \in Nat \ {0}
  <1>1. CAPACITY \in Nat \ {0} /\ WINDOW \in Nat \ {0}
    BY FeedsAssumption
  <1>2. Full \in Nat
    BY <1>1, OneMore DEF Full
  <1>3. refilled * CAPACITY \in Nat
    BY <1>1, OneMore DEF BucketTyped
  <1>. QED  BY <1>1, <1>2, <1>3 DEF BucketTyped, Refilled, Upto

LEMMA Products ==
    ASSUME BucketTyped, NEW a \in 0..WINDOW
    PROVE  /\ sent[a] \in Nat
           /\ sent[a] * WINDOW \in Nat
           /\ (sent[a] + 1) * WINDOW = sent[a] * WINDOW + WINDOW
           /\ a * CAPACITY \in Nat
           /\ (a - 1) * CAPACITY = a * CAPACITY - CAPACITY
           /\ (WINDOW + a) * CAPACITY = Full + a * CAPACITY
  <1>1. sent[a] \in Nat /\ a \in Nat /\ CAPACITY \in Nat /\ WINDOW \in Nat
    BY Contents DEF BucketTyped
  <1>2. (WINDOW + a) * CAPACITY = CAPACITY * WINDOW + a * CAPACITY
    BY <1>1, Distribute
  <1>3. (sent[a] + 1) * WINDOW = sent[a] * WINDOW + WINDOW /\ sent[a] * WINDOW \in Nat
    BY <1>1, OneMore
  <1>4. (a - 1) * CAPACITY = a * CAPACITY - CAPACITY /\ a * CAPACITY \in Nat
    BY <1>1, OneMore
  <1>. QED  BY <1>1, <1>2, <1>3, <1>4 DEF Full

LEMMA NoWaitIsAToken ==
    ASSUME BucketTyped, WaitFor(Refilled) = 0
    PROVE  Refilled >= WINDOW
  <1>1. SUFFICES ASSUME Refilled < WINDOW PROVE FALSE
    BY Contents
  <1>2. WaitFor(Refilled) = (WINDOW - Refilled + CAPACITY - 1) \div CAPACITY
    BY <1>1, Contents DEF WaitFor
  <1>. DEFINE n == WINDOW - Refilled + CAPACITY - 1
  <1>3. n \in Nat /\ n >= CAPACITY
    BY <1>1, Contents
  <1>4. n \div CAPACITY >= 1
    BY <1>3, Contents, ARemainderWaits
  <1>. QED  BY <1>2, <1>4

LEMMA StepsOfTheBucket ==
    ASSUME ~ALLOW_BURST, BucketTyped, [Next]_vars
    PROVE  Spends \/ Settles \/ Trickles \/ Leaves
  <1>1. ASSUME NEW l \in Loops, Wants(l) PROVE Spends \/ Settles
    BY <1>1, NoWaitIsAToken DEF Wants, TakeToken, Sleep, Spends, Settles
  <1>2. ASSUME Work PROVE Spends \/ Settles \/ Leaves
    BY <1>1, <1>2 DEF Work, EnqueueGapRepairs, EnqueueAux, TakeAux, FinishAux, IntradayAnswer,
                      TakeIngest, BarsArrive, BackoffOver, bucket, Leaves
  <1>3. ASSUME NEW id \in BarIds, RequestFails(id) PROVE Leaves
    BY <1>3 DEF RequestFails, bucket, Leaves
  <1>7. ASSUME NEW kind \in KINDS, AsksInVain(kind) PROVE Leaves
    BY <1>7 DEF AsksInVain, bucket, Leaves
  <1>4. ASSUME Crash PROVE Settles
    BY <1>4 DEF Crash, Settles
  <1>5. ASSUME Tick PROVE Trickles
    BY <1>5 DEF Tick, Trickles
  <1>6. ASSUME UNCHANGED vars PROVE Leaves
    BY <1>6 DEF vars, Leaves
  <1>. QED  BY <1>2, <1>3, <1>4, <1>5, <1>6, <1>7 DEF Next

-------------------------------------------------------------------------------
(* The invariant. *)

LEMMA InitBucket == ASSUME ~ALLOW_BURST, Init PROVE BucketInv
  <1>1. BucketTyped
    <2>1. CAPACITY \in Nat \ {0} /\ WINDOW \in Nat \ {0}
      BY FeedsAssumption
    <2>2. Full \in Nat
      BY <2>1, OneMore DEF Full
    <2>. QED  BY <2>1, <2>2 DEF Init, BucketTyped
  <1>2. Refilled = 0
    BY <1>1, Contents DEF Init, Refilled, Upto
  <1>3. \A a \in 0..WINDOW : 0 * WINDOW = 0 /\ a * CAPACITY \in Nat
    BY <1>1, Contents, OneMore
  <1>. QED  BY <1>1, <1>2, <1>3, Contents DEF BucketInv, Balanced, Init

LEMMA SettledContent ==
    ASSUME BucketTyped, refilled' = 0, tokens' \in 0..Full
    PROVE  Refilled' = tokens'
  BY Contents DEF Refilled, Upto, Full

LEMMA BucketTypedStep ==
    ASSUME BucketTyped, Spends \/ Settles \/ Trickles \/ Leaves
    PROVE  BucketTyped'
  <1>1. CASE Spends
    BY <1>1, Contents DEF Spends, BucketTyped, Full
  <1>2. CASE Settles
    BY <1>2, Contents DEF Settles, BucketTyped, Full
  <1>3. CASE Trickles
    <2>1. refilled' \in 0..WINDOW /\ tokens' \in 0..Full
      BY <1>3, Contents DEF Trickles, BucketTyped, Upto
    <2>2. \A age \in 0..WINDOW : age # 0 => age - 1 \in 0..WINDOW
      BY Contents
    <2>3. sent' \in [0..WINDOW -> Nat]
      BY <1>3, <2>2 DEF Trickles, BucketTyped
    <2>. QED  BY <2>1, <2>3 DEF BucketTyped, Full
  <1>4. CASE Leaves
    BY <1>4 DEF Leaves, BucketTyped, Full
  <1>. QED  BY <1>1, <1>2, <1>3, <1>4

LEMMA SpendsBalanced ==
    ASSUME BucketInv, Spends
    PROVE  /\ Balanced'
           /\ \A a \in 0..WINDOW : (sent[a] + 1) * WINDOW <= (WINDOW + a) * CAPACITY
  <1> USE DEF BucketInv, Spends
  <1>1. Refilled' = Refilled - WINDOW
    BY Contents, SettledContent
  <1>2. Full' = Full
    BY DEF Full
  <1>3. ASSUME NEW a \in 0..WINDOW
        PROVE  /\ sent'[a] * WINDOW + Refilled' <= Full + a * CAPACITY
               /\ (sent[a] + 1) * WINDOW <= (WINDOW + a) * CAPACITY
    <2>1. sent'[a] * WINDOW = sent[a] * WINDOW + WINDOW
      BY Products DEF BucketTyped
    <2>2. sent[a] * WINDOW + Refilled <= Full + a * CAPACITY
      BY DEF Balanced
    <2>. HIDE DEF BucketInv, Spends
    <2>3. WINDOW \in Nat /\ Refilled \in Nat /\ Full \in Nat /\ Refilled >= WINDOW
      BY Contents DEF BucketInv, Spends
    <2>4. /\ sent[a] * WINDOW \in Nat /\ a * CAPACITY \in Nat
          /\ (sent[a] + 1) * WINDOW = sent[a] * WINDOW + WINDOW
          /\ (WINDOW + a) * CAPACITY = Full + a * CAPACITY
      BY Products DEF BucketInv
    <2>. QED  BY <1>1, <2>1, <2>2, <2>3, <2>4
  <1>. QED  BY <1>2, <1>3 DEF Balanced

LEMMA BalancedStep ==
    ASSUME BucketInv, Spends \/ Settles \/ Trickles \/ Leaves
    PROVE  Balanced'
  <1>1. CASE Spends
    BY <1>1, SpendsBalanced
  <1>2. CASE Settles
    <2>1. Refilled' \in {0, Refilled}
      BY <1>2, Contents, SettledContent DEF BucketInv, Settles
    <2>2. ASSUME NEW a \in 0..WINDOW
          PROVE  sent'[a] * WINDOW + Refilled' <= Full + a * CAPACITY
      <3>1. sent'[a] = sent[a] /\ sent[a] * WINDOW + Refilled <= Full + a * CAPACITY
        BY <1>2 DEF BucketInv, Balanced, Settles
      <3>2. /\ sent[a] * WINDOW \in Nat /\ a * CAPACITY \in Nat
            /\ Refilled \in Nat /\ Full \in Nat
        <4>1. sent[a] * WINDOW \in Nat /\ a * CAPACITY \in Nat
          BY Products DEF BucketInv
        <4>2. Refilled \in Nat /\ Full \in Nat
          BY Contents DEF BucketInv
        <4>. QED  BY <4>1, <4>2
      <3>. QED  BY <2>1, <3>1, <3>2
    <2>. QED  BY <2>2 DEF Balanced, Full
  <1>3. CASE Trickles
    <2>1. Refilled' \in Int /\ Refilled' <= Full /\ Refilled' <= Refilled + CAPACITY
      <3>1. /\ refilled \in Nat /\ tokens \in Nat
            /\ refilled' \in Nat /\ (refilled' = refilled \/ refilled' = refilled + 1)
            /\ tokens' = tokens
        BY <1>3, Contents DEF BucketInv, BucketTyped, Trickles, Upto
      <3>2. (refilled + 1) * CAPACITY = refilled * CAPACITY + CAPACITY
        BY <3>1, Contents, OneMore DEF BucketInv
      <3>3. refilled' * CAPACITY \in Nat /\ refilled' * CAPACITY <= refilled * CAPACITY + CAPACITY
        BY <3>1, <3>2, Contents DEF BucketInv
      <3>. QED  BY <3>1, <3>3, Contents DEF BucketInv, Refilled, Upto, Full
    <2>2. ASSUME NEW a \in 0..WINDOW
          PROVE  sent'[a] * WINDOW + Refilled' <= Full + a * CAPACITY
      <3>1. CASE a = 0
        <4>1. sent'[a] = 0 /\ Refilled' \in Int /\ 0 * WINDOW = 0 /\ a * CAPACITY \in Nat /\ Full \in Nat
          BY <1>3, <2>1, <3>1, Contents, Products DEF BucketInv, Trickles
        <4>. QED  BY <2>1, <4>1
      <3>2. CASE a # 0
        <4>1. a - 1 \in 0..WINDOW /\ sent'[a] = sent[a - 1]
          BY <1>3, <3>2, Contents DEF BucketInv, Trickles
        <4>2. /\ (a - 1) * CAPACITY = a * CAPACITY - CAPACITY
              /\ a * CAPACITY \in Nat /\ sent[a - 1] * WINDOW \in Nat
          BY <4>1, Products DEF BucketInv
        <4>3. sent[a - 1] * WINDOW + Refilled <= Full + (a - 1) * CAPACITY
          BY <4>1 DEF BucketInv, Balanced
        <4>4. Refilled \in Nat /\ Full \in Nat /\ CAPACITY \in Nat
          BY Contents DEF BucketInv
        <4>. QED  BY <2>1, <4>1, <4>2, <4>3, <4>4
      <3>. QED  BY <3>1, <3>2
    <2>. QED  BY <2>2 DEF Balanced, Full
  <1>4. CASE Leaves
    BY <1>4 DEF Leaves, BucketInv, Balanced, Refilled, Upto, Full
  <1>. QED  BY <1>1, <1>2, <1>3, <1>4

LEMMA BucketStep ==
    ASSUME ~ALLOW_BURST, BucketInv, [Next]_vars
    PROVE  BucketInv'
  BY StepsOfTheBucket, BucketTypedStep, BalancedStep DEF BucketInv

-------------------------------------------------------------------------------
(* The refinement. *)

LEMMA ContractInit == ASSUME Init PROVE Contract!Init
  BY DEF Init, Contract!Init, Contract!Ages

LEMMA ContractStep ==
    ASSUME ~ALLOW_BURST, BucketInv, [Next]_vars
    PROVE  [Contract!Next]_sent
  <1>1. CASE Spends
    BY <1>1, SpendsBalanced DEF Spends, Contract!Next, Contract!Request, Contract!Ages
  <1>2. CASE Settles
    BY <1>2 DEF Settles
  <1>3. CASE Trickles
    BY <1>3 DEF Trickles, Contract!Next, Contract!TimePasses, Contract!Ages
  <1>4. CASE Leaves
    BY <1>4 DEF Leaves
  <1>. QED  BY <1>1, <1>2, <1>3, <1>4, StepsOfTheBucket DEF BucketInv

\* TokenBucket.take in rate-limit.ts, for any capacity and window, any number of
\* waiters, crashes and restarts: a bucket that starts empty, as that of the
\* market feed does, never lets through more than a full bucket and what trickles in.
THEOREM BucketImplementsEnvelope == ASSUME ~ALLOW_BURST PROVE Spec => ImplementsEnvelope
  <1>1. Init => BucketInv
    BY InitBucket
  <1>2. BucketInv /\ [Next]_vars => BucketInv'
    BY BucketStep
  <1>3. Init => Contract!Init
    BY ContractInit
  <1>4. BucketInv /\ [Next]_vars => [Contract!Next]_sent
    BY ContractStep
  <1>. QED
    BY <1>1, <1>2, <1>3, <1>4, PTL DEF Spec, ImplementsEnvelope, Contract!Spec

\* What the comment at rate-limit.ts:32 may promise of a rolling window, whatever
\* the restarts: not the limit itself, but less than twice of it.
LessThanTwice == sent[WINDOW - 1] < 2 * CAPACITY

THEOREM WindowSeesLessThanTwice == ASSUME ~ALLOW_BURST PROVE Spec => []LessThanTwice
  <1>1. Init => BucketInv
    BY InitBucket
  <1>2. BucketInv /\ [Next]_vars => BucketInv'
    BY BucketStep
  <1>3. BucketInv => LessThanTwice
    <2>. SUFFICES ASSUME BucketInv, sent[WINDOW - 1] >= 2 * CAPACITY PROVE FALSE
      BY Contents DEF LessThanTwice, BucketInv, BucketTyped
    <2>. DEFINE n == sent[WINDOW - 1]
    <2>1. n \in Nat /\ CAPACITY \in Nat \ {0} /\ WINDOW \in Nat \ {0} /\ WINDOW - 1 \in 0..WINDOW
      BY Contents DEF BucketInv, BucketTyped
    <2>2. n * WINDOW + Refilled <= Full + (WINDOW - 1) * CAPACITY
      BY <2>1 DEF BucketInv, Balanced
    <2>3. (WINDOW - 1) * CAPACITY = Full - CAPACITY
      BY <2>1, OneMore DEF Full
    <2>4. n * WINDOW >= (2 * CAPACITY) * WINDOW
      BY <2>1
    <2>5. (2 * CAPACITY) * WINDOW = Full + Full
      BY <2>1, Distribute DEF Full
    <2>. QED  BY <2>1, <2>2, <2>3, <2>4, <2>5, Contents DEF BucketInv
  <1>. QED
    BY <1>1, <1>2, <1>3, PTL DEF Spec
===============================================================================
