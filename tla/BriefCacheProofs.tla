--------------------------- MODULE BriefCacheProofs ---------------------------
(***************************************************************************)
(* Theorems about BriefCache for any sets of page loads and requests and   *)
(* any numbers of recomputes, changes and outages.                         *)
(***************************************************************************)
EXTENDS BriefCache, TLAPS

-------------------------------------------------------------------------------
(* The inductive invariant *)

\* A recompute that has written everything is ahead of the generation.
RunBound ==
    /\ data <= MaxRuns
    /\ phase = "writing" => data < MaxRuns
    /\ phase = "bumping" => gen < data

Typed == TypeOK /\ RunBound

\* Nobody holds or has written a key that is not handed out yet.
NothingAhead ==
    /\ \A r \in Readers : reader[r].key <= gen
    /\ \A g \in Generations : g > gen => entry[g] = None

\* What is cached, or about to be, under the current generation was assembled
\* after the recompute that handed it out.
CurrentKept ==
    /\ promised <= data
    /\ entry[gen] # None => entry[gen].data >= promised
    /\ \A r \in Readers : reader[r].at = "set" /\ reader[r].key = gen
          => reader[r].brief.data >= promised

\* With Redis in reach, that recompute is the last one to have written everything.
CurrentWhole ==
    /\ outages = 0 => up
    /\ outages = 0 /\ phase # "bumping" =>
          /\ promised = data
          /\ entry[gen] # None /\ entry[gen].torn => torn
          /\ \A r \in Readers : reader[r].at = "set" /\ reader[r].key = gen
                /\ reader[r].brief.torn => torn

CInv == Typed /\ NothingAhead /\ CurrentKept /\ CurrentWhole

-------------------------------------------------------------------------------
(* Types *)

LEMMA BlankTypes == /\ Blank \in Briefs
                    /\ NoLoad \in Loads
                    /\ NoChange \in [at : WriterSteps, key : Generations, change : Nat]
  <1> USE CacheAssumption
  <1>1. Blank \in Briefs
    BY DEF Blank, Briefs
  <1>2. 0 \in Generations
    BY DEF Generations
  <1>3. NoLoad \in Loads
    BY <1>1, <1>2 DEF NoLoad, Loads, ReaderSteps
  <1>4. NoChange \in [at : WriterSteps, key : Generations, change : Nat]
    BY <1>2 DEF NoChange, WriterSteps
  <1>. QED  BY <1>1, <1>3, <1>4

LEMMA InitTyped == Init => Typed
  <1> SUFFICES ASSUME Init PROVE Typed
    OBVIOUS
  <1> USE CacheAssumption DEF Init
  <1>1. torn \in BOOLEAN /\ up \in BOOLEAN
    BY Zenon
  <1>2. 0 \in Generations
    BY DEF Generations
  <1>3. entry \in [Generations -> Briefs \cup {None}]
    OBVIOUS
  <1>4. /\ reader \in [Readers -> Loads]
        /\ writer \in [Writers -> [at : WriterSteps, key : Generations, change : Nat]]
    BY BlankTypes
  <1>. QED  BY <1>1, <1>2, <1>3, <1>4 DEF Typed, TypeOK, RunBound

LEMMA TypedStep == Typed /\ [Next]_vars => Typed'
  <1> SUFFICES ASSUME Typed, [Next]_vars PROVE Typed'
    OBVIOUS
  <1> USE CacheAssumption
  <1> USE DEF Typed, TypeOK, RunBound, db, redis, history
  <1>1. CASE GoesDown
    <2>1. up' \in BOOLEAN
      BY <1>1, Zenon DEF GoesDown
    <2>. QED  BY <1>1, <2>1 DEF GoesDown
  <1>2. CASE ComesBack
    BY <1>2 DEF ComesBack
  <1>3. ASSUME NEW g \in Generations, Expire(g) PROVE Typed'
    BY <1>3 DEF Expire
  <1>4. CASE StartWriting
    BY <1>4 DEF StartWriting
  <1>5. CASE AllWritten
    <2>1. torn' \in BOOLEAN
      BY <1>5, Zenon DEF AllWritten
    <2>. QED  BY <1>5, <2>1 DEF AllWritten, Generations
  <1>6. CASE WritingFails
    BY <1>6 DEF WritingFails
  <1>7. CASE Bump
    BY <1>7 DEF Bump, Generations
  <1>8. ASSUME NEW r \in Readers, BeginLoad(r) PROVE Typed'
    <2>1. [NoLoad EXCEPT !.at = "generation", !.since = answered] \in Loads
      BY BlankTypes DEF Loads, ReaderSteps
    <2>. QED  BY <1>8, <2>1 DEF BeginLoad
  <1>9. ASSUME NEW r \in Readers, ReadGeneration(r) PROVE Typed'
    <2>1. (IF up THEN gen ELSE 0) \in Generations
      BY DEF Generations
    <2>2. \A k \in Generations : [reader[r] EXCEPT !.at = "get", !.key = k] \in Loads
      BY DEF Loads, ReaderSteps
    <2>. QED  BY <1>9, <2>1, <2>2 DEF ReadGeneration
  <1>10. ASSUME NEW r \in Readers, Get(r) PROVE Typed'
    <2> DEFINE found == entry[reader[r].key]
    <2>1. reader[r].key \in Generations
      BY DEF Loads
    <2>2. ASSUME found # None
          PROVE [reader[r] EXCEPT !.at = "served", !.brief = found] \in Loads
      BY <2>1, <2>2 DEF Loads, ReaderSteps
    <2>3. [reader[r] EXCEPT !.at = "assemble"] \in Loads
      BY DEF Loads, ReaderSteps
    <2>4. reader' \in [Readers -> Loads]
      BY <1>10, <2>2, <2>3 DEF Get, Move
    <2>. QED  BY <1>10, <2>4 DEF Get
  <1>11. ASSUME NEW r \in Readers, Assemble(r) PROVE Typed'
    <2>1. [data |-> data, mine |-> mine, torn |-> torn, overlapped |-> FALSE] \in Briefs
      BY DEF Briefs
    <2>2. \A b \in Briefs : [reader[r] EXCEPT !.at = "set", !.brief = b] \in Loads
      BY DEF Loads, ReaderSteps
    <2>. QED  BY <1>11, <2>1, <2>2 DEF Assemble
  <1>12. ASSUME NEW r \in Readers, Set(r) PROVE Typed'
    <2>1. reader[r].key \in Generations /\ reader[r].brief \in Briefs
      BY DEF Loads
    <2>2. [reader[r] EXCEPT !.at = "served"] \in Loads
      BY DEF Loads, ReaderSteps
    <2>. QED  BY <1>12, <2>1, <2>2 DEF Set, Move
  <1>13. ASSUME NEW r \in Readers, Served(r) PROVE Typed'
    BY <1>13, BlankTypes DEF Served
  <1>14. ASSUME NEW w \in Writers, Change(w) PROVE Typed'
    <2>1. [at |-> "generation", key |-> 0, change |-> mine + 1]
             \in [at : WriterSteps, key : Generations, change : Nat]
      BY DEF WriterSteps, Generations
    <2>. QED  BY <1>14, <2>1 DEF Change
  <1>15. ASSUME NEW w \in Writers, ChangeGeneration(w) PROVE Typed'
    <2>1. (IF up THEN gen ELSE 0) \in Generations
      BY DEF Generations
    <2>2. \A k \in Generations : [writer[w] EXCEPT !.at = "del", !.key = k]
             \in [at : WriterSteps, key : Generations, change : Nat]
      BY DEF WriterSteps
    <2>. QED  BY <1>15, <2>1, <2>2 DEF ChangeGeneration
  <1>16. ASSUME NEW w \in Writers, Del(w) PROVE Typed'
    <2>1. [writer[w] EXCEPT !.at = "answer"]
             \in [at : WriterSteps, key : Generations, change : Nat]
      BY DEF WriterSteps
    <2>2. \A r \in Readers : [reader[r] EXCEPT !.brief.overlapped = TRUE] \in Loads
      BY DEF Loads, Briefs
    <2>. QED  BY <1>16, <2>1, <2>2 DEF Del
  <1>17. ASSUME NEW w \in Writers, Answer(w) PROVE Typed'
    <2>1. answered' \in Nat
      BY <1>17 DEF Answer
    <2>. QED  BY <1>17, <2>1, BlankTypes DEF Answer
  <1>18. CASE UNCHANGED vars
    BY <1>18 DEF vars
  <1>. QED
    BY <1>1, <1>2, <1>3, <1>4, <1>5, <1>6, <1>7, <1>8, <1>9, <1>10, <1>11, <1>12,
       <1>13, <1>14, <1>15, <1>16, <1>17, <1>18 DEF Next, LoadStep, ChangeStep

\* TypeOK of BriefCache for every instance.
THEOREM TypeCorrect == Spec => []TypeOK
  <1>1. Typed => TypeOK
    BY DEF Typed
  <1>. QED  BY InitTyped, TypedStep, <1>1, PTL DEF Spec
-------------------------------------------------------------------------------
(* The current entry *)

\* What neither the cache, a load nor a recompute's data is changed by.
LEMMA QuietStep ==
    ASSUME Typed,
           \/ GoesDown \/ ComesBack \/ StartWriting \/ WritingFails
           \/ \E w \in Writers : Change(w) \/ ChangeGeneration(w) \/ Answer(w)
           \/ UNCHANGED vars
    PROVE  UNCHANGED <<gen, entry, reader, promised, data>>
  BY DEF GoesDown, ComesBack, StartWriting, WritingFails, Change, ChangeGeneration,
         Answer, vars, db, redis, history

\* A read of the cache changes no load's key and nothing that is about to be
\* written.
LEMMA GetStep ==
    ASSUME Typed, NEW r \in Readers, Get(r)
    PROVE  /\ UNCHANGED <<data, torn, phase, up, outages, gen, entry, promised>>
           /\ \A x \in Readers : /\ reader'[x].key = reader[x].key
                                 /\ reader'[x].at = "set" => reader'[x] = reader[x]
  <1> USE DEF Typed, TypeOK
  <1> DEFINE A == [reader EXCEPT ![r].at = "assemble"]
             B == [reader EXCEPT ![r].at = "served", ![r].brief = entry[reader[r].key]]
  <1>1. UNCHANGED <<data, torn, phase, up, outages, gen, entry, promised>>
    BY DEF Get, db, redis, history
  <1>2. reader' = A \/ reader' = B
    BY DEF Get, Move
  <1>3. \A x \in Readers \ {r} : A[x] = reader[x] /\ B[x] = reader[x]
    OBVIOUS
  <1>4. A[r].key = reader[r].key /\ A[r].at = "assemble"
    BY DEF Loads
  <1>5. B[r].key = reader[r].key /\ B[r].at = "served"
    BY DEF Loads
  <1> HIDE DEF A, B
  <1>. QED  BY <1>1, <1>2, <1>3, <1>4, <1>5

LEMMA AheadStep == Typed /\ NothingAhead /\ [Next]_vars => NothingAhead'
  <1> SUFFICES ASSUME Typed, NothingAhead, [Next]_vars PROVE NothingAhead'
    OBVIOUS
  <1> USE CacheAssumption
  <1> USE DEF Typed, TypeOK, NothingAhead, Generations, db, redis, history
  <1>1. ASSUME UNCHANGED <<gen, entry, reader, promised, data>> PROVE NothingAhead'
    BY <1>1
  <1>2. ASSUME NEW g \in Generations, Expire(g) PROVE NothingAhead'
    BY <1>2 DEF Expire
  <1>3. CASE AllWritten
    BY <1>3 DEF AllWritten
  <1>4. CASE Bump
    <2>1. \A r \in Readers : reader[r].key \in 0..MaxRuns
      BY DEF Loads
    <2>. QED  BY <1>4, <2>1 DEF Bump
  <1>5. ASSUME NEW r \in Readers, BeginLoad(r) PROVE NothingAhead'
    BY <1>5 DEF BeginLoad, NoLoad
  <1>6. ASSUME NEW r \in Readers, ReadGeneration(r) PROVE NothingAhead'
    BY <1>6 DEF ReadGeneration, Loads
  <1>7. ASSUME NEW r \in Readers, Get(r) PROVE NothingAhead'
    BY <1>7, GetStep
  <1>8. ASSUME NEW r \in Readers, Assemble(r) PROVE NothingAhead'
    BY <1>8 DEF Assemble, Loads
  <1>9. ASSUME NEW r \in Readers, Set(r) PROVE NothingAhead'
    BY <1>9 DEF Set, Move, Loads
  <1>10. ASSUME NEW r \in Readers, Served(r) PROVE NothingAhead'
    BY <1>10 DEF Served, NoLoad
  <1>11. ASSUME NEW w \in Writers, Del(w) PROVE NothingAhead'
    BY <1>11 DEF Del, Loads
  <1>. QED
    BY <1>1, <1>2, <1>3, <1>4, <1>5, <1>6, <1>7, <1>8, <1>9, <1>10, <1>11, QuietStep
    DEF Next, LoadStep, ChangeStep

\* A recompute that hands out a generation hands out an empty one, so only the
\* loads that begin afterwards can fill it.
LEMMA KeptStep == Typed /\ NothingAhead /\ CurrentKept /\ [Next]_vars => CurrentKept'
  <1> SUFFICES ASSUME Typed, NothingAhead, CurrentKept, [Next]_vars PROVE CurrentKept'
    OBVIOUS
  <1> USE CacheAssumption
  <1> USE DEF Typed, TypeOK, CurrentKept, Generations, db, redis, history
  <1>1. ASSUME UNCHANGED <<gen, entry, reader, promised, data>> PROVE CurrentKept'
    BY <1>1
  <1>2. ASSUME NEW g \in Generations, Expire(g) PROVE CurrentKept'
    BY <1>2 DEF Expire
  <1>3. CASE AllWritten
    BY <1>3 DEF AllWritten
  <1>4. CASE Bump
    <2>1. CASE up
      <3>1. gen' = gen + 1 /\ gen' \in Generations /\ gen' > gen
        BY <1>4, <2>1 DEF Bump, RunBound
      <3>2. entry'[gen'] = None
        BY <1>4, <3>1 DEF Bump, NothingAhead
      <3>3. \A r \in Readers : reader'[r].key # gen'
        BY <1>4, <3>1 DEF Bump, NothingAhead, Loads
      <3>. QED  BY <1>4, <2>1, <3>2, <3>3 DEF Bump
    <2>2. CASE ~up
      BY <1>4, <2>2 DEF Bump
    <2>. QED  BY <2>1, <2>2
  <1>5. ASSUME NEW r \in Readers, BeginLoad(r) PROVE CurrentKept'
    BY <1>5 DEF BeginLoad, NoLoad
  <1>6. ASSUME NEW r \in Readers, ReadGeneration(r) PROVE CurrentKept'
    BY <1>6 DEF ReadGeneration, Loads
  <1>7. ASSUME NEW r \in Readers, Get(r) PROVE CurrentKept'
    BY <1>7, GetStep
  <1>8. ASSUME NEW r \in Readers, Assemble(r) PROVE CurrentKept'
    BY <1>8 DEF Assemble, Loads
  <1>9. ASSUME NEW r \in Readers, Set(r) PROVE CurrentKept'
    BY <1>9 DEF Set, Move, Loads
  <1>10. ASSUME NEW r \in Readers, Served(r) PROVE CurrentKept'
    BY <1>10 DEF Served, NoLoad
  <1>11. ASSUME NEW w \in Writers, Del(w) PROVE CurrentKept'
    <2>1. \A r \in Readers : /\ reader'[r].at = reader[r].at
                             /\ reader'[r].key = reader[r].key
                             /\ reader'[r].brief.data = reader[r].brief.data
      BY <1>11 DEF Del, Loads, Briefs
    <2>2. entry'[gen] \in {entry[gen], None}
      BY <1>11 DEF Del
    <2>. QED  BY <1>11, <2>1, <2>2 DEF Del
  <1>. QED
    BY <1>1, <1>2, <1>3, <1>4, <1>5, <1>6, <1>7, <1>8, <1>9, <1>10, <1>11, QuietStep
    DEF Next, LoadStep, ChangeStep

\* A brief assembled over half-written events goes out of reach with the bump.
LEMMA WholeStep ==
    Typed /\ NothingAhead /\ CurrentKept /\ CurrentWhole /\ [Next]_vars => CurrentWhole'
  <1> SUFFICES ASSUME Typed, NothingAhead, CurrentKept, CurrentWhole, [Next]_vars
               PROVE  CurrentWhole'
    OBVIOUS
  <1> USE CacheAssumption
  <1> USE DEF Typed, TypeOK, CurrentWhole, Generations, db, redis, history
  <1>1. CASE GoesDown
    BY <1>1 DEF GoesDown
  <1>2. CASE ComesBack
    BY <1>2 DEF ComesBack
  <1>3. ASSUME NEW g \in Generations, Expire(g) PROVE CurrentWhole'
    BY <1>3 DEF Expire
  <1>4. CASE StartWriting
    BY <1>4 DEF StartWriting
  <1>5. CASE AllWritten
    BY <1>5 DEF AllWritten
  <1>6. CASE WritingFails
    BY <1>6 DEF WritingFails
  <1>7. CASE Bump
    <2>1. CASE up
      <3>1. gen' = gen + 1 /\ gen' \in Generations /\ gen' > gen
        BY <1>7, <2>1 DEF Bump, RunBound
      <3>2. entry'[gen'] = None
        BY <1>7, <3>1 DEF Bump, NothingAhead
      <3>3. \A r \in Readers : reader'[r].key # gen'
        BY <1>7, <3>1 DEF Bump, NothingAhead, Loads
      <3>4. promised' = data' /\ outages' = outages /\ up'
        BY <1>7, <2>1 DEF Bump
      <3>. QED  BY <3>2, <3>3, <3>4, <2>1
    <2>2. CASE ~up
      BY <1>7, <2>2 DEF Bump
    <2>. QED  BY <2>1, <2>2
  <1>8. ASSUME NEW r \in Readers, BeginLoad(r) PROVE CurrentWhole'
    BY <1>8 DEF BeginLoad, NoLoad
  <1>9. ASSUME NEW r \in Readers, ReadGeneration(r) PROVE CurrentWhole'
    BY <1>9 DEF ReadGeneration, Loads
  <1>10. ASSUME NEW r \in Readers, Get(r) PROVE CurrentWhole'
    BY <1>10, GetStep
  <1>11. ASSUME NEW r \in Readers, Assemble(r) PROVE CurrentWhole'
    BY <1>11 DEF Assemble, Loads
  <1>12. ASSUME NEW r \in Readers, Set(r) PROVE CurrentWhole'
    BY <1>12 DEF Set, Move, Loads
  <1>13. ASSUME NEW r \in Readers, Served(r) PROVE CurrentWhole'
    BY <1>13 DEF Served, NoLoad
  <1>14. ASSUME NEW w \in Writers, Change(w) PROVE CurrentWhole'
    BY <1>14 DEF Change
  <1>15. ASSUME NEW w \in Writers, ChangeGeneration(w) PROVE CurrentWhole'
    BY <1>15 DEF ChangeGeneration
  <1>16. ASSUME NEW w \in Writers, Del(w) PROVE CurrentWhole'
    <2>1. \A r \in Readers : /\ reader'[r].at = reader[r].at
                             /\ reader'[r].key = reader[r].key
                             /\ reader'[r].brief.torn = reader[r].brief.torn
      BY <1>16 DEF Del, Loads, Briefs
    <2>2. entry'[gen] \in {entry[gen], None}
      BY <1>16 DEF Del
    <2>. QED  BY <1>16, <2>1, <2>2 DEF Del
  <1>17. ASSUME NEW w \in Writers, Answer(w) PROVE CurrentWhole'
    BY <1>17 DEF Answer
  <1>18. CASE UNCHANGED vars
    BY <1>18 DEF vars
  <1>. QED
    BY <1>1, <1>2, <1>3, <1>4, <1>5, <1>6, <1>7, <1>8, <1>9, <1>10, <1>11, <1>12,
       <1>13, <1>14, <1>15, <1>16, <1>17, <1>18 DEF Next, LoadStep, ChangeStep

LEMMA InitCInv == Init => CInv
  <1> SUFFICES ASSUME Init PROVE CInv
    OBVIOUS
  <1>1. Typed
    BY InitTyped
  <1>2. 0 \in Generations
    BY CacheAssumption DEF Generations
  <1>3. entry[gen] = None /\ \A r \in Readers : reader[r] = NoLoad
    BY <1>2 DEF Init
  <1>4. NothingAhead
    BY <1>3 DEF Init, NothingAhead, NoLoad
  <1>5. CurrentKept /\ CurrentWhole
    BY <1>3 DEF Init, CurrentKept, CurrentWhole, NoLoad
  <1>. QED  BY <1>1, <1>4, <1>5 DEF CInv

\* A recompute cannot leave a stale entry reachable, however page loads, changes,
\* outages and recomputes interleave: the cached brief of the current generation
\* is at least as new as the recompute that handed the generation out.
THEOREM CurrentEntryStaysCurrent == Spec => []CurrentEntryIsCurrent
  <1>1. CInv /\ [Next]_vars => CInv'
    BY TypedStep, AheadStep, KeptStep, WholeStep DEF CInv
  <1>2. CInv => CurrentEntryIsCurrent
    BY DEF CInv, CurrentKept, CurrentWhole, CurrentEntryIsCurrent
  <1>. QED  BY InitCInv, <1>1, <1>2, PTL DEF Spec

-------------------------------------------------------------------------------
(* The user's own changes *)

\* A brief has the user's changes up to c, or a DEL overtook the load behind it.
Covers(brief, c) == brief.mine >= c \/ brief.overlapped

\* Whatever is cached under g or a later key, or is about to be, covers c.
CoveredFrom(g, c, entries, loads) ==
    /\ \A h \in Generations : h >= g /\ entries[h] # None => Covers(entries[h], c)
    /\ \A r \in Readers : loads[r].at = "set" /\ loads[r].key >= g
          => Covers(loads[r].brief, c)

\* Nothing is answered, awaited or counted that has not been changed.
Counted ==
    /\ answered <= mine
    /\ \A w \in Writers : writer[w].change <= mine
    /\ \A r \in Readers : reader[r].since <= answered

\* While nothing has been lost: what was answered is covered from the current key
\* on, what a load waits for from its own key on, and what a request has changed
\* from the key it drops on, the key itself included once it is dropped.
CoversAnswered == CoveredFrom(gen, answered, entry, reader)

CoversLoads ==
    \A r \in Readers :
        /\ reader[r].at = "get" => CoveredFrom(reader[r].key, reader[r].since, entry, reader)
        /\ reader[r].at \in {"set", "served"} => Covers(reader[r].brief, reader[r].since)

CoversChanges ==
    \A w \in Writers :
        /\ writer[w].at = "del" => CoveredFrom(writer[w].key + 1, writer[w].change, entry, reader)
        /\ writer[w].at = "answer" => CoveredFrom(writer[w].key, writer[w].change, entry, reader)

\* Requests hold no key that is not handed out either.
NoKeyAhead == \A w \in Writers : writer[w].key <= gen

MineCovered ==
    /\ Counted
    /\ NoKeyAhead
    /\ outages = 0 => up /\ CoversAnswered /\ CoversLoads /\ CoversChanges

MInv == Typed /\ NothingAhead /\ MineCovered

LEMMA CoveredMore ==
    ASSUME NEW entries \in [Generations -> Briefs \cup {None}], NEW loads \in [Readers -> Loads]
    PROVE  \A g, h, c, d \in Nat : g <= h /\ d <= c /\ CoveredFrom(g, c, entries, loads)
                                      => CoveredFrom(h, d, entries, loads)
  <1> SUFFICES ASSUME NEW g \in Nat, NEW h \in Nat, NEW c \in Nat, NEW d \in Nat,
                      g <= h, d <= c, CoveredFrom(g, c, entries, loads)
               PROVE  CoveredFrom(h, d, entries, loads)
    OBVIOUS
  <1> USE CacheAssumption DEF CoveredFrom, Covers, Generations, Briefs
  <1>1. ASSUME NEW k \in Generations, k >= h, entries[k] # None
        PROVE  Covers(entries[k], d)
    <2>1. entries[k] \in Briefs /\ Covers(entries[k], c)
      BY <1>1
    <2>. QED  BY <2>1
  <1>2. ASSUME NEW r \in Readers, loads[r].at = "set", loads[r].key >= h
        PROVE  Covers(loads[r].brief, d)
    <2>1. loads[r].brief \in Briefs /\ loads[r].key \in Nat
      BY DEF Loads
    <2>2. Covers(loads[r].brief, c)
      BY <1>2, <2>1
    <2>. QED  BY <2>1, <2>2
  <1>. QED  BY <1>1, <1>2

\* What is neither filled nor about to be stays covered.
LEMMA CoveredByLess ==
    ASSUME Typed, Typed',
           \A h \in Generations : entry'[h] \in {entry[h], None},
           \A r \in Readers : reader'[r].at = "set"
              => \/ reader[r].at = "set" /\ reader'[r].key = reader[r].key
                    /\ reader'[r].brief.mine = reader[r].brief.mine
                    /\ (reader[r].brief.overlapped => reader'[r].brief.overlapped)
                 \/ reader'[r].brief.mine >= mine,
           NEW g \in Nat, NEW c \in Nat, c <= mine, CoveredFrom(g, c, entry, reader)
    PROVE  CoveredFrom(g, c, entry', reader')
  <1> USE DEF Typed, TypeOK
  <1>1. ASSUME NEW h \in Generations, h >= g, entry'[h] # None
        PROVE  Covers(entry'[h], c)
    BY <1>1 DEF CoveredFrom
  <1>2. ASSUME NEW r \in Readers, reader'[r].at = "set", reader'[r].key >= g
        PROVE  Covers(reader'[r].brief, c)
    <2>1. reader[r] \in Loads /\ reader'[r] \in Loads
      OBVIOUS
    <2>2. CASE reader'[r].brief.mine >= mine
      BY <2>1, <2>2 DEF Covers, Loads, Briefs
    <2>3. CASE /\ reader[r].at = "set" /\ reader'[r].key = reader[r].key
               /\ reader'[r].brief.mine = reader[r].brief.mine
               /\ (reader[r].brief.overlapped => reader'[r].brief.overlapped)
      <3>1. Covers(reader[r].brief, c)
        BY <1>2, <2>3 DEF CoveredFrom
      <3>. QED  BY <2>3, <3>1 DEF Covers
    <2>. QED  BY <1>2, <2>2, <2>3
  <1>. QED  BY <1>1, <1>2 DEF CoveredFrom

\* No step uncovers what was changed before it.
LEMMA CoveredStep ==
    ASSUME Typed, [Next]_vars
    PROVE  \A g, c \in Nat : c <= mine /\ CoveredFrom(g, c, entry, reader)
                                => CoveredFrom(g, c, entry', reader')
  <1> SUFFICES ASSUME NEW g \in Nat, NEW c \in Nat, c <= mine,
                      CoveredFrom(g, c, entry, reader)
               PROVE  CoveredFrom(g, c, entry', reader')
    OBVIOUS
  <1>0. Typed'
    BY TypedStep
  <1> USE CacheAssumption
  <1> USE DEF Typed, TypeOK, db, redis, history
  <1>1. ASSUME UNCHANGED <<entry, reader>> PROVE CoveredFrom(g, c, entry', reader')
    BY <1>1
  <1>2. ASSUME NEW h \in Generations, Expire(h) PROVE CoveredFrom(g, c, entry', reader')
    <2>1. \A k \in Generations : entry'[k] \in {entry[k], None}
      BY <1>2 DEF Expire
    <2>2. reader' = reader
      BY <1>2 DEF Expire
    <2>. QED  BY <1>0, <2>1, <2>2, CoveredByLess
  <1>3. CASE AllWritten \/ Bump
    BY <1>1, <1>3 DEF AllWritten, Bump
  <1>4. ASSUME NEW r \in Readers, BeginLoad(r) \/ ReadGeneration(r) \/ Served(r)
        PROVE  CoveredFrom(g, c, entry', reader')
    <2>1. entry' = entry
      BY <1>4 DEF BeginLoad, ReadGeneration, Served
    <2>2. \A x \in Readers : reader'[x].at = "set" => reader'[x] = reader[x]
      <3>1. \A x \in Readers \ {r} : reader'[x] = reader[x]
        BY <1>4 DEF BeginLoad, ReadGeneration, Served
      <3>2. CASE BeginLoad(r)
        BY <3>1, <3>2 DEF BeginLoad, NoLoad
      <3>3. CASE ReadGeneration(r)
        BY <3>1, <3>3 DEF ReadGeneration, Loads
      <3>4. CASE Served(r)
        BY <3>1, <3>4 DEF Served, NoLoad
      <3>. QED  BY <1>4, <3>2, <3>3, <3>4
    <2>. QED  BY <1>0, <2>1, <2>2, CoveredByLess
  <1>5. ASSUME NEW r \in Readers, Get(r) PROVE CoveredFrom(g, c, entry', reader')
    BY <1>0, <1>5, GetStep, CoveredByLess
  <1>6. ASSUME NEW r \in Readers, Assemble(r) PROVE CoveredFrom(g, c, entry', reader')
    <2>1. entry' = entry
      BY <1>6 DEF Assemble
    <2>2. reader'[r].brief.mine >= mine
      BY <1>6 DEF Assemble, Loads
    <2>3. \A x \in Readers \ {r} : reader'[x] = reader[x]
      BY <1>6 DEF Assemble
    <2>4. \A h \in Generations : entry'[h] \in {entry[h], None}
      BY <2>1
    <2> HIDE DEF Typed, TypeOK
    <2>. QED  BY <1>0, <2>2, <2>3, <2>4, CoveredByLess
  <1>7. ASSUME NEW r \in Readers, Set(r) PROVE CoveredFrom(g, c, entry', reader')
    <2>1. reader[r].key \in Generations /\ reader[r].at = "set"
      BY <1>7 DEF Set, Loads
    <2>2. reader'[r].at = "served" /\ \A x \in Readers \ {r} : reader'[x] = reader[x]
      BY <1>7 DEF Set, Move, Loads
    <2>3. \A h \in Generations \ {reader[r].key} : entry'[h] = entry[h]
      BY <1>7 DEF Set
    <2>4. entry'[reader[r].key] \in {entry[reader[r].key], reader[r].brief}
      BY <1>7, <2>1 DEF Set
    <2>. QED  BY <2>1, <2>2, <2>3, <2>4 DEF CoveredFrom
  <1>8. ASSUME NEW w \in Writers, Del(w) PROVE CoveredFrom(g, c, entry', reader')
    <2>1. \A k \in Generations : entry'[k] \in {entry[k], None}
      BY <1>8 DEF Del
    <2>2. \A x \in Readers : /\ reader'[x].at = reader[x].at
                             /\ reader'[x].key = reader[x].key
                             /\ reader'[x].brief.mine = reader[x].brief.mine
      BY <1>8 DEF Del, Loads, Briefs
    <2>3. \A x \in Readers : reader[x].at = "set" => reader'[x].brief.overlapped
      BY <1>8 DEF Del, Loads, Briefs
    <2>. QED  BY <1>0, <2>1, <2>2, <2>3, CoveredByLess
  <1>. QED
    BY <1>1, <1>2, <1>3, <1>4, <1>5, <1>6, <1>7, <1>8, QuietStep
    DEF Next, LoadStep, ChangeStep

\* What a page load leaves alone, and what no load's step touches.
LEMMA LoadFrame ==
    ASSUME NEW r \in Readers, BeginLoad(r) \/ LoadStep(r)
    PROVE  UNCHANGED <<mine, answered, writer, gen, outages, up>>
  BY DEF BeginLoad, LoadStep, ReadGeneration, Get, Move, Assemble, Set, Served, db, redis, history

\* What a recompute, an outage or an expiry leaves alone.
Background == \/ GoesDown \/ ComesBack \/ (\E g \in Generations : Expire(g))
              \/ StartWriting \/ AllWritten \/ WritingFails \/ Bump

LEMMA BackgroundFrame ==
    ASSUME Typed, Background
    PROVE  /\ UNCHANGED <<mine, answered, writer, reader>>
           /\ gen' \in Nat /\ gen <= gen'
           /\ outages' = 0 => outages = 0
  BY DEF Background, GoesDown, ComesBack, Expire, StartWriting, AllWritten, WritingFails,
         Bump, Typed, TypeOK, Generations, db, redis, history

LEMMA NextCases ==
    ASSUME [Next]_vars
    PROVE  \/ Background
           \/ \E r \in Readers : BeginLoad(r) \/ LoadStep(r)
           \/ \E w \in Writers : Change(w) \/ ChangeStep(w)
           \/ UNCHANGED vars
  BY DEF Next, Background

LEMMA CountedStep == Typed /\ Counted /\ [Next]_vars => Counted'
  <1> SUFFICES ASSUME Typed, Counted, [Next]_vars PROVE Counted'
    OBVIOUS
  <1> USE CacheAssumption DEF Typed, TypeOK, Counted
  <1>1. CASE Background
    BY <1>1, BackgroundFrame
  <1>2. ASSUME NEW r \in Readers, BeginLoad(r) \/ LoadStep(r) PROVE Counted'
    <2>1. UNCHANGED <<mine, answered, writer>>
      BY <1>2, LoadFrame
    <2>2. \A x \in Readers : reader'[x].since \in {reader[x].since, answered, 0}
      <3>1. CASE BeginLoad(r)
        BY <3>1 DEF BeginLoad, NoLoad
      <3>2. CASE ReadGeneration(r)
        BY <3>2 DEF ReadGeneration, Loads
      <3>3. CASE Get(r)
        BY <3>3 DEF Get, Move, Loads
      <3>4. CASE Assemble(r)
        BY <3>4 DEF Assemble, Loads
      <3>5. CASE Set(r)
        BY <3>5 DEF Set, Move, Loads
      <3>6. CASE Served(r)
        BY <3>6 DEF Served, NoLoad
      <3>. QED  BY <1>2, <3>1, <3>2, <3>3, <3>4, <3>5, <3>6 DEF LoadStep
    <2>. QED  BY <2>1, <2>2
  <1>3. ASSUME NEW w \in Writers, Change(w) PROVE Counted'
    <2>1. UNCHANGED <<reader, answered>> /\ mine' = mine + 1
      BY <1>3 DEF Change, history
    <2>2. \A x \in Writers : writer'[x].change \in {writer[x].change, mine + 1}
      BY <1>3 DEF Change
    <2>. QED  BY <2>1, <2>2
  <1>4. ASSUME NEW w \in Writers, ChangeGeneration(w) PROVE Counted'
    <2>1. UNCHANGED <<reader, answered, mine>>
      BY <1>4 DEF ChangeGeneration, db, history
    <2>2. \A x \in Writers : writer'[x].change = writer[x].change
      BY <1>4 DEF ChangeGeneration
    <2>. QED  BY <2>1, <2>2
  <1>5. ASSUME NEW w \in Writers, Del(w) PROVE Counted'
    <2>1. UNCHANGED <<answered, mine>>
      BY <1>5 DEF Del, db, history
    <2>2. \A x \in Writers : writer'[x].change = writer[x].change
      BY <1>5 DEF Del
    <2>3. \A x \in Readers : reader'[x].since = reader[x].since
      BY <1>5 DEF Del, Loads
    <2>. QED  BY <2>1, <2>2, <2>3
  <1>6. ASSUME NEW w \in Writers, Answer(w) PROVE Counted'
    <2>1. UNCHANGED <<reader, mine>> /\ answered' \in {answered, writer[w].change}
          /\ answered' >= answered
      BY <1>6 DEF Answer, db
    <2>2. \A x \in Writers : writer'[x].change \in {writer[x].change, 0}
      BY <1>6 DEF Answer, NoChange
    <2>3. answered' \in Nat /\ \A x \in Readers : reader[x].since \in Nat
      BY <1>6 DEF Answer, Loads
    <2>. QED  BY <2>1, <2>2, <2>3
  <1>7. CASE UNCHANGED vars
    BY <1>7 DEF vars
  <1>. QED  BY <1>1, <1>2, <1>3, <1>4, <1>5, <1>6, <1>7, NextCases DEF ChangeStep

LEMMA NoKeyAheadStep == Typed /\ NoKeyAhead /\ [Next]_vars => NoKeyAhead'
  <1> SUFFICES ASSUME Typed, NoKeyAhead, [Next]_vars PROVE NoKeyAhead'
    OBVIOUS
  <1> USE CacheAssumption DEF Typed, TypeOK, NoKeyAhead, Generations
  <1>1. CASE Background
    BY <1>1, BackgroundFrame
  <1>2. ASSUME NEW r \in Readers, BeginLoad(r) \/ LoadStep(r) PROVE NoKeyAhead'
    BY <1>2, LoadFrame
  <1>3. ASSUME NEW w \in Writers, Change(w) \/ ChangeStep(w) PROVE NoKeyAhead'
    <2>1. gen' = gen
      BY <1>3 DEF Change, ChangeStep, ChangeGeneration, Del, Answer, redis
    <2>2. \A x \in Writers : writer'[x].key \in {writer[x].key, 0, gen}
      <3>1. CASE Change(w)
        BY <3>1 DEF Change
      <3>2. CASE ChangeGeneration(w)
        BY <3>2 DEF ChangeGeneration
      <3>3. CASE Del(w)
        BY <3>3 DEF Del
      <3>4. CASE Answer(w)
        BY <3>4 DEF Answer, NoChange
      <3>. QED  BY <1>3, <3>1, <3>2, <3>3, <3>4 DEF ChangeStep
    <2>3. 0 <= gen /\ gen <= gen /\ \A x \in Writers : writer[x].key <= gen
      OBVIOUS
    <2> HIDE DEF Typed, TypeOK
    <2>. QED  BY <2>1, <2>2, <2>3
  <1>4. CASE UNCHANGED vars
    BY <1>4 DEF vars
  <1>. QED  BY <1>1, <1>2, <1>3, <1>4, NextCases

\* What was answered: a new answer covers its own change from the dropped key on,
\* and a new generation is past every key in use.
LEMMA AnsweredStep ==
    ASSUME MInv, [Next]_vars, outages' = 0
    PROVE  CoversAnswered'
  <1> USE CacheAssumption DEF MInv, MineCovered, Counted, NoKeyAhead
  <1> USE DEF Typed, TypeOK, Generations
  <1>1. \A g, c \in Nat : c <= mine /\ CoveredFrom(g, c, entry, reader)
                             => CoveredFrom(g, c, entry', reader')
    BY CoveredStep
  <1>2. entry' \in [Generations -> Briefs \cup {None}] /\ reader' \in [Readers -> Loads]
    BY TypedStep
  <1>3. ASSUME outages = 0, answered' = answered, gen' \in Nat, gen <= gen'
        PROVE  CoversAnswered'
    <2>1. CoveredFrom(gen, answered, entry', reader')
      BY <1>1, <1>3 DEF CoversAnswered
    <2>2. CoveredFrom(gen', answered, entry', reader')
      BY <2>1, <1>2, <1>3, CoveredMore
    <2>. QED  BY <2>2, <1>3 DEF CoversAnswered
  <1>4. CASE Background
    BY <1>3, <1>4, BackgroundFrame
  <1>5. ASSUME NEW r \in Readers, BeginLoad(r) \/ LoadStep(r) PROVE CoversAnswered'
    BY <1>3, <1>5, LoadFrame
  <1>6. ASSUME NEW w \in Writers, Change(w) \/ ChangeGeneration(w) \/ Del(w)
        PROVE  CoversAnswered'
    <2>1. UNCHANGED <<outages, answered, gen>>
      BY <1>6 DEF Change, ChangeGeneration, Del, redis, history
    <2>. QED  BY <1>3, <2>1
  <1>7. ASSUME NEW w \in Writers, Answer(w) PROVE CoversAnswered'
    <2>1. UNCHANGED <<outages, entry, reader, gen>> /\ writer[w].at = "answer"
      BY <1>7 DEF Answer, redis
    <2>2. CASE answered' = answered
      BY <1>3, <2>1, <2>2
    <2>3. CASE answered' = writer[w].change
      <3>1. CoveredFrom(writer[w].key, writer[w].change, entry, reader)
        BY <2>1 DEF CoversChanges
      <3>2. CoveredFrom(gen, writer[w].change, entry, reader)
        <4>1. /\ entry \in [Generations -> Briefs \cup {None}] /\ reader \in [Readers -> Loads]
              /\ gen \in Nat /\ writer[w].key \in Nat /\ writer[w].key <= gen
              /\ writer[w].change \in Nat /\ writer[w].change <= writer[w].change
          OBVIOUS
        <4> HIDE DEF Typed, TypeOK, NoKeyAhead, Generations, MInv
        <4>. QED  BY <3>1, <4>1, CoveredMore
      <3>. QED  BY <2>1, <2>3, <3>2 DEF CoversAnswered
    <2>. QED  BY <1>7, <2>2, <2>3 DEF Answer
  <1>8. CASE UNCHANGED vars
    BY <1>3, <1>8 DEF vars
  <1>. QED  BY <1>4, <1>5, <1>6, <1>7, <1>8, NextCases DEF ChangeStep

\* What is served: a hit is covered because its key was, an assembled brief
\* because everything answered before the load was in the database.
LEMMA LoadsStep ==
    ASSUME MInv, [Next]_vars, outages' = 0
    PROVE  CoversLoads'
  <1> USE CacheAssumption DEF MInv, MineCovered, Counted
  <1> USE DEF Typed, TypeOK, Generations
  <1> DEFINE Kept(x) ==
        /\ reader'[x].at = "get"
              => CoveredFrom(reader'[x].key, reader'[x].since, entry', reader')
        /\ reader'[x].at \in {"set", "served"} => Covers(reader'[x].brief, reader'[x].since)
  <1>1. \A g, c \in Nat : c <= mine /\ CoveredFrom(g, c, entry, reader)
                             => CoveredFrom(g, c, entry', reader')
    BY CoveredStep
  <1>2. \A x \in Readers : reader[x].key \in Nat /\ reader[x].since \in Nat
                           /\ reader[x].since <= mine /\ reader[x].brief \in Briefs
    BY DEF Loads
  <1>3. ASSUME outages = 0, NEW x \in Readers, reader'[x] = reader[x] PROVE Kept(x)
    BY <1>1, <1>2, <1>3 DEF CoversLoads
  <1>4. CASE Background \/ UNCHANGED vars
    <2>1. reader' = reader /\ outages = 0
      BY <1>4, BackgroundFrame DEF vars
    <2>. QED  BY <1>3, <2>1 DEF CoversLoads
  <1>5. ASSUME NEW r \in Readers, BeginLoad(r) \/ LoadStep(r) PROVE CoversLoads'
    <2>1. UNCHANGED <<mine, answered, gen, outages, up>> /\ outages = 0 /\ up
      BY <1>5, LoadFrame
    <2>2. \A x \in Readers \ {r} : reader'[x] = reader[x]
      BY <1>5 DEF BeginLoad, LoadStep, ReadGeneration, Get, Move, Assemble, Set, Served
    <2>3. Kept(r)
      <3>1. CASE BeginLoad(r)
        BY <3>1 DEF BeginLoad, NoLoad
      <3>2. CASE ReadGeneration(r)
        <4>1. reader'[r].key = gen /\ reader'[r].since = reader[r].since
              /\ reader'[r].at = "get" /\ reader[r].since <= answered
          BY <3>2, <2>1 DEF ReadGeneration, Loads
        <4>2. CoveredFrom(gen, reader[r].since, entry, reader)
          <5>1. /\ entry \in [Generations -> Briefs \cup {None}] /\ reader \in [Readers -> Loads]
                /\ gen \in Nat /\ answered \in Nat /\ gen <= gen
                /\ CoveredFrom(gen, answered, entry, reader)
            BY <2>1 DEF CoversAnswered
          <5> HIDE DEF Typed, TypeOK, Generations, MInv, MineCovered
          <5>. QED  BY <1>2, <4>1, <5>1, CoveredMore
        <4>. QED  BY <1>1, <1>2, <4>1, <4>2
      <3>3. CASE Get(r)
        <4>1. CASE reader'[r].at = "assemble"
          BY <4>1
        <4>2. CASE reader' = [reader EXCEPT ![r].at = "served",
                                            ![r].brief = entry[reader[r].key]]
                   /\ entry[reader[r].key] # None
          <5>1. reader[r].key \in Generations /\ reader[r].at = "get"
            BY <3>3 DEF Get, Loads
          <5>2. Covers(entry[reader[r].key], reader[r].since)
            BY <2>1, <4>2, <5>1 DEF CoversLoads, CoveredFrom
          <5>3. reader'[r].at = "served" /\ reader'[r].brief = entry[reader[r].key]
                /\ reader'[r].since = reader[r].since
            BY <4>2 DEF Loads
          <5>. QED  BY <5>2, <5>3
        <4>. QED  BY <3>3, <4>1, <4>2 DEF Get, Move, Loads
      <3>4. CASE Assemble(r)
        <4>1. reader'[r].at = "set" /\ reader'[r].brief.mine = mine
              /\ reader'[r].since = reader[r].since
          BY <3>4 DEF Assemble, Loads
        <4>. QED  BY <4>1, <1>2 DEF Covers
      <3>5. CASE Set(r)
        <4>1. reader'[r].at = "served" /\ reader[r].at = "set"
              /\ reader'[r].brief = reader[r].brief /\ reader'[r].since = reader[r].since
          BY <3>5 DEF Set, Move, Loads
        <4>. QED  BY <4>1, <2>1 DEF CoversLoads
      <3>6. CASE Served(r)
        BY <3>6 DEF Served, NoLoad
      <3>. QED  BY <1>5, <3>1, <3>2, <3>3, <3>4, <3>5, <3>6 DEF LoadStep
    <2>. QED  BY <1>3, <2>1, <2>2, <2>3 DEF CoversLoads
  <1>6. ASSUME NEW w \in Writers, Change(w) \/ ChangeGeneration(w) \/ Answer(w)
        PROVE  CoversLoads'
    <2>1. UNCHANGED <<reader, outages>>
      BY <1>6 DEF Change, ChangeGeneration, Answer, redis
    <2>. QED  BY <1>3, <2>1 DEF CoversLoads
  <1>7. ASSUME NEW w \in Writers, Del(w) PROVE CoversLoads'
    <2>1. outages = 0
      BY <1>7 DEF Del
    <2>2. \A x \in Readers : reader[x].at = "set"
             => reader'[x].at = "set" /\ reader'[x].brief.overlapped
      BY <1>7 DEF Del, Loads, Briefs
    <2>3. \A x \in Readers : reader[x].at # "set" => reader'[x] = reader[x]
      BY <1>7 DEF Del
    <2>. QED  BY <1>3, <2>1, <2>2, <2>3 DEF CoversLoads, Covers
  <1>. QED  BY <1>4, <1>5, <1>6, <1>7, NextCases DEF ChangeStep

\* What a request changed: past the key it holds everything was assembled after
\* its change, and its DEL leaves nothing under the key itself uncovered.
LEMMA ChangesStep ==
    ASSUME MInv, [Next]_vars, outages' = 0
    PROVE  CoversChanges'
  <1> USE CacheAssumption DEF MInv, MineCovered, Counted
  <1> USE DEF Typed, TypeOK, Generations
  <1> DEFINE Kept(x) ==
        /\ writer'[x].at = "del"
              => CoveredFrom(writer'[x].key + 1, writer'[x].change, entry', reader')
        /\ writer'[x].at = "answer"
              => CoveredFrom(writer'[x].key, writer'[x].change, entry', reader')
  <1>1. \A g, c \in Nat : c <= mine /\ CoveredFrom(g, c, entry, reader)
                             => CoveredFrom(g, c, entry', reader')
    BY CoveredStep
  <1>2. \A x \in Writers : writer[x].key \in Nat /\ writer[x].key + 1 \in Nat
                           /\ writer[x].change \in Nat /\ writer[x].change <= mine
    OBVIOUS
  <1>3. ASSUME outages = 0, NEW x \in Writers, writer'[x] = writer[x] PROVE Kept(x)
    BY <1>1, <1>2, <1>3 DEF CoversChanges
  <1>4. CASE Background \/ UNCHANGED vars
    <2>1. writer' = writer /\ outages = 0
      BY <1>4, BackgroundFrame DEF vars
    <2>. QED  BY <1>3, <2>1 DEF CoversChanges
  <1>5. ASSUME NEW r \in Readers, BeginLoad(r) \/ LoadStep(r) PROVE CoversChanges'
    BY <1>3, <1>5, LoadFrame DEF CoversChanges
  <1>6. ASSUME NEW w \in Writers, Change(w) \/ ChangeStep(w) PROVE CoversChanges'
    <2>1. outages = 0 /\ up
      BY <1>6 DEF Change, ChangeStep, ChangeGeneration, Del, Answer, redis
    <2>2. \A x \in Writers \ {w} : writer'[x] = writer[x]
      BY <1>6 DEF Change, ChangeStep, ChangeGeneration, Del, Answer
    <2>3. Kept(w)
      <3>1. CASE Change(w)
        BY <3>1 DEF Change
      <3>2. CASE ChangeGeneration(w)
        <4>1. writer'[w].key = gen /\ writer'[w].at = "del" /\ UNCHANGED <<entry, reader>>
          BY <2>1, <3>2 DEF ChangeGeneration, redis
        <4>2. \A c : CoveredFrom(gen + 1, c, entry, reader)
          BY DEF CoveredFrom, NothingAhead, Loads
        <4>. QED  BY <4>1, <4>2
      <3>3. CASE Del(w)
        <4> DEFINE k == writer[w].key
                   c == writer[w].change
        <4>1. writer'[w].at = "answer" /\ writer'[w].key = k /\ writer'[w].change = c
              /\ writer[w].at = "del" /\ k \in Generations
          BY <3>3 DEF Del
        <4>2. CoveredFrom(k + 1, c, entry', reader')
          BY <1>1, <1>2, <2>1, <4>1 DEF CoversChanges
        <4>3. entry'[k] = None
          BY <2>1, <3>3 DEF Del
        <4>4. \A x \in Readers : reader'[x].at = "set" => reader'[x].brief.overlapped
          BY <3>3 DEF Del, Loads, Briefs
        <4>5. \A h \in Generations : h >= k => h = k \/ h >= k + 1
          BY <4>1
        <4> HIDE DEF k, c
        <4>6. CoveredFrom(k, c, entry', reader')
          BY <4>2, <4>3, <4>4, <4>5 DEF CoveredFrom, Covers
        <4>. QED  BY <4>1, <4>6
      <3>4. CASE Answer(w)
        BY <3>4 DEF Answer, NoChange
      <3>. QED  BY <1>6, <3>1, <3>2, <3>3, <3>4 DEF ChangeStep
    <2>. QED  BY <1>3, <2>1, <2>2, <2>3 DEF CoversChanges
  <1>. QED  BY <1>4, <1>5, <1>6, NextCases

LEMMA MInvStep == MInv /\ [Next]_vars => MInv'
  <1> SUFFICES ASSUME MInv, [Next]_vars PROVE MInv'
    OBVIOUS
  <1>1. Typed' /\ NothingAhead' /\ Counted' /\ NoKeyAhead'
    BY TypedStep, AheadStep, CountedStep, NoKeyAheadStep DEF MInv, MineCovered
  <1>2. outages' = 0 => up'
    <2>1. outages = 0 => up
      BY DEF MInv, MineCovered
    <2>2. CASE Background
      BY <2>1, <2>2 DEF Background, GoesDown, ComesBack, Expire, StartWriting, AllWritten,
                        WritingFails, Bump, redis, MInv, Typed, TypeOK
    <2>3. ASSUME NEW r \in Readers, BeginLoad(r) \/ LoadStep(r) PROVE outages' = 0 => up'
      BY <2>1, <2>3, LoadFrame
    <2>4. ASSUME NEW w \in Writers, Change(w) \/ ChangeStep(w) PROVE outages' = 0 => up'
      BY <2>1, <2>4 DEF Change, ChangeStep, ChangeGeneration, Del, Answer, redis
    <2>5. CASE UNCHANGED vars
      BY <2>1, <2>5 DEF vars
    <2>. QED  BY <2>2, <2>3, <2>4, <2>5, NextCases
  <1>. QED  BY <1>1, <1>2, AnsweredStep, LoadsStep, ChangesStep DEF MInv, MineCovered

LEMMA InitMInv == Init => MInv
  <1> SUFFICES ASSUME Init PROVE MInv
    OBVIOUS
  <1>1. Typed /\ NothingAhead
    BY InitCInv DEF CInv
  <1>2. \A r \in Readers : reader[r].at = "idle" /\ reader[r].since = 0
    BY DEF Init, NoLoad
  <1>3. \A w \in Writers : writer[w].at = "idle" /\ writer[w].key = 0 /\ writer[w].change = 0
    BY DEF Init, NoChange
  <1>4. Counted /\ NoKeyAhead
    BY <1>2, <1>3 DEF Init, Counted, NoKeyAhead
  <1>5. CoversAnswered
    BY <1>2 DEF Init, CoversAnswered, CoveredFrom
  <1>6. CoversLoads /\ CoversChanges
    BY <1>2, <1>3 DEF CoversLoads, CoversChanges
  <1>. QED  BY <1>1, <1>4, <1>5, <1>6 DEF Init, MInv, MineCovered

\* With Redis in reach, whatever the interleaving of page loads, requests and
\* recomputes, a load that began after a change was answered shows the change,
\* unless a DEL overtook the load whose brief it is served between that load's
\* assembly and its write-behind: the one window that cache.ts leaves open.
THEOREM OnlyTheOverlapIsStale == Spec => []StaleOnlyIfOverlapped
  <1>1. MInv => StaleOnlyIfOverlapped
    <2> SUFFICES ASSUME MInv, outages = 0, NEW r \in Readers, reader[r].at = "served",
                        reader[r].brief.mine < reader[r].since
                 PROVE  reader[r].brief.overlapped
      BY DEF StaleOnlyIfOverlapped
    <2>1. Covers(reader[r].brief, reader[r].since)
      BY DEF MInv, MineCovered, CoversLoads
    <2>2. reader[r].brief.mine \in Nat /\ reader[r].since \in Nat
      BY DEF MInv, Typed, TypeOK, Loads, Briefs
    <2>. QED  BY <2>1, <2>2 DEF Covers
  <1>. QED  BY InitMInv, MInvStep, <1>1, PTL DEF Spec
===============================================================================
