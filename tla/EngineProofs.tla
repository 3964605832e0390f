---------------------------- MODULE EngineProofs -----------------------------
(***************************************************************************)
(* Theorems about Engine and Desk, for any market, windows, thresholds,    *)
(* reports and table of context events.                                    *)
(***************************************************************************)
EXTENDS Desk, FiniteSetTheorems, TLAPS

-----------------------------------------------------------------------------
(* Tables, records and orders                                              *)

LEMMA TableIs == ASSUME NEW f PROVE Table(f) = f
  BY DEF Table

\* The first record's fields are what With gives them.
LEMMA WithFirst ==
    ASSUME NEW r, NEW s, NEW k \in DOMAIN r
    PROVE  k \in DOMAIN With(r, s) /\ With(r, s)[k] = r[k]
  BY TableIs DEF With

LEMMA WithSecond ==
    ASSUME NEW r, NEW s, NEW k \in DOMAIN s, k \notin DOMAIN r
    PROVE  k \in DOMAIN With(r, s) /\ With(r, s)[k] = s[k]
  BY TableIs DEF With

\* A set of numbers that is bounded has a greatest.
LEMMA MaxExists ==
    ASSUME NEW N \in Nat, NEW S \in SUBSET (0..N), S # {}
    PROVE  Max(S) \in S /\ \A y \in S : y <= Max(S)
  <1> DEFINE U == {N - x : x \in S}
  <1>2. U \subseteq Nat /\ U # {}
    <2>1. \A x \in S : x \in 0..N /\ N - x \in Nat
      OBVIOUS
    <2>2. PICK x \in S : TRUE
      OBVIOUS
    <2>3. N - x \in U
      BY <2>2
    <2>4. \A t \in U : t \in Nat
      BY <2>1
    <2>. QED  BY <2>3, <2>4
  <1> DEFINE R == OpToRel(<, Nat)
  <1>1. IsWellFoundedOn(R, Nat)
    BY NatLessThanWellFounded
  <1> HIDE DEF R, U
  <1>3. PICK m \in U : \A n \in U : <<n, m>> \notin R
    BY <1>1, <1>2, WFMin
  <1> USE DEF R, U
  <1>4. \A n \in U : ~(n < m)
    BY <1>2, <1>3 DEF OpToRel
  <1>5. PICK x \in S : m = N - x
    OBVIOUS
  <1>6. \A y \in S : x >= y
    BY <1>4, <1>5
  <1>7. \E z \in S : \A y \in S : z >= y
    BY <1>6
  <1>8. Max(S) \in S /\ \A y \in S : Max(S) >= y
    BY <1>7 DEF Max
  <1>. QED  BY <1>8

\* In a finite set with a strict total order the number of elements below one is its
\* place: each place but the last is taken by exactly one.
Below(S, R, x) == {y \in S : <<y, x>> \in R}
StrictOrder(S, R) ==
    /\ \A x \in S : <<x, x>> \notin R
    /\ \A x, y, z \in S : <<x, y>> \in R /\ <<y, z>> \in R => <<x, z>> \in R
    /\ \A x, y \in S : x # y => <<x, y>> \in R \/ <<y, x>> \in R

LEMMA Places ==
    ASSUME NEW S, IsFiniteSet(S), NEW R, StrictOrder(S, R)
    PROVE  /\ Cardinality(S) \in Nat
           /\ \A x \in S : Cardinality(Below(S, R, x)) \in 0..(Cardinality(S) - 1)
           /\ \A x, y \in S : Cardinality(Below(S, R, x)) = Cardinality(Below(S, R, y)) => x = y
  <1> DEFINE n == Cardinality(S)
             c == [x \in S |-> Cardinality(Below(S, R, x))]
  <1>1. n \in Nat
    BY FS_CardinalityType
  <1>2. \A x \in S : IsFiniteSet(Below(S, R, x)) /\ Cardinality(Below(S, R, x)) \in Nat
    <2>. SUFFICES ASSUME NEW x \in S
                  PROVE  IsFiniteSet(Below(S, R, x)) /\ Cardinality(Below(S, R, x)) \in Nat
      OBVIOUS
    <2>1. Below(S, R, x) \subseteq S
      BY DEF Below
    <2>2. IsFiniteSet(Below(S, R, x))
      BY <2>1, FS_Subset
    <2>. QED  BY <2>2, FS_CardinalityType
  <1>3. ASSUME NEW x \in S, NEW U, IsFiniteSet(U), Below(S, R, x) \subseteq U, x \in U
        PROVE  Cardinality(Below(S, R, x)) < Cardinality(U)
    <2>1. x \notin Below(S, R, x)
      BY DEF Below, StrictOrder
    <2>2. Below(S, R, x) # U
      BY <2>1, <1>3
    <2>3. /\ Cardinality(Below(S, R, x)) <= Cardinality(U)
          /\ Cardinality(U) = Cardinality(Below(S, R, x)) => Below(S, R, x) = U
      BY <1>3, FS_Subset
    <2>. QED  BY <2>2, <2>3, <1>2, <1>3, FS_CardinalityType
  <1>4. \A x \in S : c[x] \in 0..(n - 1)
    <2>. SUFFICES ASSUME NEW x \in S PROVE c[x] \in 0..(n - 1)
      OBVIOUS
    <2>1. Below(S, R, x) \subseteq S
      BY DEF Below
    <2>2. Cardinality(Below(S, R, x)) < Cardinality(S)
      BY <1>3, <2>1
    <2>. QED  BY <1>1, <1>2, <2>2
  <1>5. \A x, y \in S : <<x, y>> \in R => c[x] < c[y]
    <2>. SUFFICES ASSUME NEW x \in S, NEW y \in S, <<x, y>> \in R PROVE c[x] < c[y]
      OBVIOUS
    <2>1. Below(S, R, x) \subseteq Below(S, R, y) /\ x \in Below(S, R, y)
      BY DEF Below, StrictOrder
    <2>2. IsFiniteSet(Below(S, R, y))
      BY <1>2
    <2>3. Cardinality(Below(S, R, x)) < Cardinality(Below(S, R, y))
      BY <1>3, <2>1, <2>2
    <2>. QED  BY <2>3
  <1>6. \A x, y \in S : c[x] = c[y] => x = y
    <2>. SUFFICES ASSUME NEW x \in S, NEW y \in S, c[x] = c[y], x # y PROVE FALSE
      OBVIOUS
    <2>1. c[x] < c[y] \/ c[y] < c[x]
      BY <1>5 DEF StrictOrder
    <2>2. c[x] \in Int /\ c[y] \in Int
      BY <1>2
    <2>. HIDE DEF c
    <2>. QED  BY <2>1, <2>2
  <1>. QED  BY <1>1, <1>4, <1>6

LEMMA PlaceIsTaken ==
    ASSUME NEW S, IsFiniteSet(S), NEW R, StrictOrder(S, R),
           NEW k \in 0..(Cardinality(S) - 1)
    PROVE  \E x \in S : Cardinality(Below(S, R, x)) = k
  <1> DEFINE n == Cardinality(S)
             c == [x \in S |-> Cardinality(Below(S, R, x))]
  <1>1. n \in Nat /\ c \in Injection(S, 0..(n - 1))
    BY Places DEF Injection, IsInjective
  <1>2. IsFiniteSet(0..(n - 1)) /\ Cardinality(0..(n - 1)) = n
    BY <1>1, FS_Interval
  <1>3. c \in Surjection(S, 0..(n - 1))
    BY <1>1, <1>2, FS_Injection
  <1>. QED  BY <1>3 DEF Surjection

LEMMA AscendingIs ==
    ASSUME NEW S \in SUBSET Int, IsFiniteSet(S)
    PROVE  /\ Cardinality(S) \in Nat
           /\ Ascending(S) \in [1..Cardinality(S) -> S]
           /\ \A x \in S : \E k \in 1..Cardinality(S) : Ascending(S)[k] = x
  <1> DEFINE R == {p \in S \X S : p[1] < p[2]}
             n == Cardinality(S)
             At(k) == CHOOSE x \in S : Cardinality({y \in S : y < x}) = k - 1
  <1>1. StrictOrder(S, R)
    BY DEF StrictOrder
  <1>2. \A x \in S : Below(S, R, x) = {y \in S : y < x}
    BY DEF Below
  <1>. HIDE DEF R
  <1>3. Cardinality(S) \in Nat
    BY FS_CardinalityType
  <1>13. \A x \in S : Cardinality(Below(S, R, x)) \in 0..(Cardinality(S) - 1)
    <2>. SUFFICES ASSUME NEW x \in S
                  PROVE  Cardinality(Below(S, R, x)) \in 0..(Cardinality(S) - 1)
      OBVIOUS
    <2>. QED  BY <1>1, Places
  <1>14. \A x, y \in S : Cardinality(Below(S, R, x)) = Cardinality(Below(S, R, y)) => x = y
    BY <1>1, Places, Zenon
  <1>15. \A k \in 0..(Cardinality(S) - 1) : \E x \in S : Cardinality(Below(S, R, x)) = k
    <2>. SUFFICES ASSUME NEW k \in 0..(Cardinality(S) - 1)
                  PROVE  \E x \in S : Cardinality(Below(S, R, x)) = k
      OBVIOUS
    <2>. QED  BY <1>1, PlaceIsTaken
  <1>12. \A x \in S : Cardinality(Below(S, R, x)) = Cardinality({y \in S : y < x})
    BY <1>2
  <1>4. \A x, y \in S : Cardinality({z \in S : z < x}) = Cardinality({z \in S : z < y}) => x = y
    BY <1>14, <1>12
  <1>5. \A x \in S : Cardinality({z \in S : z < x}) \in 0..(n - 1)
    BY <1>13, <1>12
  <1>6. \A k \in 0..(n - 1) : \E x \in S : Cardinality({z \in S : z < x}) = k
    BY <1>15, <1>12
  <1>7. \A k \in 1..n : At(k) \in S /\ Cardinality({y \in S : y < At(k)}) = k - 1
    <2>. SUFFICES ASSUME NEW k \in 1..n
                  PROVE  At(k) \in S /\ Cardinality({y \in S : y < At(k)}) = k - 1
      OBVIOUS
    <2>1. k - 1 \in 0..(n - 1)
      BY <1>3
    <2>2. \E x \in S : Cardinality({z \in S : z < x}) = k - 1
      BY <2>1, <1>6
    <2>. QED  BY <2>2
  <1>8. Ascending(S) = [k \in 1..n |-> At(k)]
    BY TableIs DEF Ascending
  <1>9. ASSUME NEW x \in S PROVE \E k \in 1..n : At(k) = x
    <2>. DEFINE k == Cardinality({z \in S : z < x}) + 1
    <2>1. k \in 1..n /\ k - 1 = Cardinality({z \in S : z < x})
      BY <1>3, <1>5
    <2>. HIDE DEF k
    <2>2. At(k) \in S /\ Cardinality({y \in S : y < At(k)}) = Cardinality({z \in S : z < x})
      BY <1>7, <2>1
    <2>3. At(k) = x
      BY <2>2, <1>4
    <2>. QED  BY <2>1, <2>3
  <1>. HIDE DEF At
  <1>10. Ascending(S) \in [1..n -> S]
    BY <1>7, <1>8
  <1>11. \A x \in S : \E k \in 1..n : Ascending(S)[k] = x
    BY <1>8, <1>9
  <1>. QED  BY <1>3, <1>10, <1>11

LEMMA PositionsAreFinite ==
    ASSUME NEW U, NEW s \in Seq(U), NEW P \in SUBSET DOMAIN s
    PROVE  IsFiniteSet(P) /\ P \in SUBSET Int
  <1>1. DOMAIN s = 1..Len(s) /\ Len(s) \in Nat
    OBVIOUS
  <1>2. IsFiniteSet(1..Len(s))
    BY <1>1, FS_Interval
  <1>. QED  BY <1>1, <1>2, FS_Subset

LEMMA KeptIs ==
    ASSUME NEW U, NEW s \in Seq(U), NEW S
    PROVE  /\ Kept(s, S) \in Seq(U \cap S)
           /\ Range(Kept(s, S)) = Range(s) \cap S
  <1> DEFINE P == {k \in DOMAIN s : s[k] \in S}
             A == Ascending(P)
  <1>1. IsFiniteSet(P) /\ P \in SUBSET Int
    BY PositionsAreFinite
  <1>2. PICK n \in Nat : A \in [1..n -> P] /\ \A k \in P : \E i \in 1..n : A[i] = k
    BY <1>1, AscendingIs
  <1>3. Kept(s, S) = [i \in DOMAIN A |-> s[A[i]]]
    BY TableIs DEF Kept, Field
  <1>4. \A k \in P : s[k] \in U \cap S
    OBVIOUS
  <1>. HIDE DEF A
  <1>5. Kept(s, S) \in [1..n -> U \cap S]
    BY <1>2, <1>3, <1>4
  <1>6. \A i \in 1..n : s[A[i]] \in Range(s) \cap S
    BY <1>2 DEF Range
  <1>7. \A x \in Range(s) \cap S : \E i \in 1..n : s[A[i]] = x
    BY <1>2 DEF Range
  <1>9. DOMAIN Kept(s, S) = 1..n /\ \A i \in 1..n : Kept(s, S)[i] = s[A[i]]
    BY <1>2, <1>3
  <1>8. Range(Kept(s, S)) = Range(s) \cap S
    <2>1. Range(Kept(s, S)) = {Kept(s, S)[i] : i \in 1..n}
      BY <1>9 DEF Range
    <2>2. \A x : x \in Range(Kept(s, S)) <=> \E i \in 1..n : s[A[i]] = x
      BY <1>9, <2>1
    <2>. QED  BY <2>2, <1>6, <1>7
  <1>. QED  BY <1>5, <1>8

LEMMA KnownIs ==
    ASSUME NEW U, NEW symbols \in Seq(U), NEW of
    PROVE  LET some == {s \in DOMAIN of : of[s] # {}}
           IN  /\ \E n \in Nat : DOMAIN Known(symbols, of) = 1..n
               /\ Range(Known(symbols, of)) =
                    {CHOOSE x \in of[s] : TRUE : s \in Range(symbols) \cap some}
  <1> DEFINE some == {s \in DOMAIN of : of[s] # {}}
             names == Kept(symbols, some)
  <1>1. names \in Seq(U \cap some) /\ Range(names) = Range(symbols) \cap some
    BY KeptIs
  <1>2. Known(symbols, of) = [i \in DOMAIN names |-> CHOOSE x \in of[names[i]] : TRUE]
    BY TableIs DEF Known, Field
  <1>. HIDE DEF names
  <1>3. DOMAIN Known(symbols, of) = 1..Len(names) /\ Len(names) \in Nat
    BY <1>1, <1>2
  <1>4. Range(Known(symbols, of)) = {CHOOSE x \in of[s] : TRUE : s \in Range(names)}
    BY <1>2 DEF Range
  <1>. QED  BY <1>1, <1>3, <1>4

LEMMA FiredIs ==
    ASSUME NEW U, NEW answers \in Seq(U)
    PROVE  /\ \E n \in Nat : DOMAIN Fired(answers) = 1..n
           /\ Fired(answers) = <<>> \/ Range(Fired(answers)) # {}
           /\ \A c \in Range(Fired(answers)) : \E k \in DOMAIN answers : c \in answers[k]
           /\ \A k \in DOMAIN answers : answers[k] # {} =>
                 \E c \in Range(Fired(answers)) : c \in answers[k]
  <1> DEFINE P == {k \in DOMAIN answers : answers[k] # {}}
             A == Ascending(P)
             Of(k) == CHOOSE c \in answers[k] : TRUE
  <1>1. IsFiniteSet(P) /\ P \in SUBSET Int
    BY PositionsAreFinite
  <1>2. PICK n \in Nat : A \in [1..n -> P] /\ \A k \in P : \E i \in 1..n : A[i] = k
    BY <1>1, AscendingIs
  <1>3. Fired(answers) = [i \in DOMAIN A |-> Of(A[i])]
    BY TableIs DEF Fired, Field
  <1>4. \A k \in P : Of(k) \in answers[k]
    OBVIOUS
  <1>. HIDE DEF A, Of
  <1>5. DOMAIN Fired(answers) = 1..n /\ \A i \in 1..n : Fired(answers)[i] = Of(A[i])
    BY <1>2, <1>3
  <1>6. \A i \in 1..n : A[i] \in P
    BY <1>2
  <1>7. \A c \in Range(Fired(answers)) : \E k \in DOMAIN answers : c \in answers[k]
    BY <1>4, <1>5, <1>6 DEF Range
  <1>8. ASSUME NEW k \in DOMAIN answers, answers[k] # {}
        PROVE  \E c \in Range(Fired(answers)) : c \in answers[k]
    <2>1. PICK i \in 1..n : A[i] = k
      BY <1>2, <1>8
    <2>. QED  BY <2>1, <1>4, <1>5, <1>8 DEF Range
  <1>9. Fired(answers) = <<>> \/ Range(Fired(answers)) # {}
    <2>1. CASE n = 0
      <3>1. DOMAIN Fired(answers) = 1..0
        BY <1>5, <2>1
      <3>2. Fired(answers) = [i \in 1..0 |-> Of(A[i])]
        BY <1>2, <1>3, <2>1
      <3>. QED  BY <3>2
    <2>2. CASE n # 0
      BY <2>2, <1>5 DEF Range
    <2>. QED  BY <2>1, <2>2
  <1>. QED  BY <1>5, <1>7, <1>8, <1>9

-----------------------------------------------------------------------------
(* Series and their beginnings                                             *)

LEMMA OwnRange == ASSUME NEW U, NEW s \in Seq(U) PROVE s \in Seq(Range(s))
  BY DEF Range

LEMMA MaxOfTwo ==
    ASSUME NEW a \in Int, NEW b \in Int
    PROVE  Max({a, b}) \in {a, b} /\ Max({a, b}) >= a /\ Max({a, b}) >= b
  BY DEF Max

LEMMA SameSequence ==
    ASSUME NEW U, NEW s \in Seq(U), NEW t \in Seq(U), NEW n \in Nat, Len(s) = n, Len(t) = n,
           \A k \in 1..n : s[k] = t[k]
    PROVE  s = t
  <1>1. s = [k \in 1..n |-> s[k]] /\ t = [k \in 1..n |-> t[k]]
    OBVIOUS
  <1>2. [k \in 1..n |-> s[k]] = [k \in 1..n |-> t[k]]
    OBVIOUS
  <1>. QED  BY <1>1, <1>2

\* A beginning of a series: its first n bars.
Begins(p, bars, n) ==
    /\ Chronological(bars) /\ n \in 0..Len(bars)
    /\ p \in Seq(Range(bars)) /\ Len(p) = n
    /\ \A i \in 1..n : p[i] = bars[i]

LEMMA UptoIs ==
    ASSUME NEW bars, Chronological(bars), NEW end \in Int
    PROVE  \E n \in 0..Len(bars) :
              /\ Begins(Upto(bars, end), bars, n)
              /\ \A i \in 1..Len(bars) : bars[i].date <= end <=> i <= n
  <1> DEFINE S == {0} \cup {i \in DOMAIN bars : bars[i].date <= end}
             n == Max(S)
  <1>1. bars \in Seq(Range(bars)) /\ DOMAIN bars = 1..Len(bars) /\ Len(bars) \in Nat
    BY DEF Chronological
  <1>2. S \in SUBSET (0..Len(bars)) /\ S # {}
    BY <1>1
  <1>3. n \in S /\ \A i \in S : i <= n
    BY <1>1, <1>2, MaxExists
  <1>4. n \in 0..Len(bars)
    BY <1>2, <1>3
  <1>5. \A i \in 1..Len(bars) : bars[i].date <= end <=> i <= n
    <2>. SUFFICES ASSUME NEW i \in 1..Len(bars) PROVE bars[i].date <= end <=> i <= n
      OBVIOUS
    <2>1. bars[i].date <= end => i <= n
      BY <1>1, <1>3
    <2>2. ASSUME i <= n PROVE bars[i].date <= end
      <3>1. n \in DOMAIN bars /\ bars[n].date <= end
        BY <1>1, <1>3, <2>2
      <3>2. bars[i].date \in Int /\ bars[n].date \in Int
        BY <1>1, <3>1 DEF Chronological
      <3>3. i = n \/ bars[i].date < bars[n].date
        BY <1>1, <1>4, <2>2, <3>1 DEF Chronological
      <3>. HIDE DEF n
      <3>. QED  BY <3>1, <3>2, <3>3
    <2>. QED  BY <2>1, <2>2
  <1>6. Upto(bars, end) = SubSeq(bars, 1, n)
    BY DEF Upto
  <1>. HIDE DEF n
  <1>7. /\ SubSeq(bars, 1, n) \in Seq(Range(bars)) /\ Len(SubSeq(bars, 1, n)) = n
        /\ \A i \in 1..n : SubSeq(bars, 1, n)[i] = bars[i]
    BY <1>1, <1>4
  <1>. QED  BY <1>4, <1>5, <1>6, <1>7 DEF Begins

\* The parts of a beginning are the parts of the series.
LEMMA SamePart ==
    ASSUME NEW p, NEW bars, NEW n, Begins(p, bars, n),
           NEW i \in 1..n, NEW m \in 1..i
    PROVE  /\ SubSeq(p, m, i) = SubSeq(bars, m, i)
           /\ SubSeq(bars, m, i) \in Seq(Range(bars))
           /\ Last(SubSeq(bars, m, i)) = bars[i]
  <1>1. /\ bars \in Seq(Range(bars)) /\ p \in Seq(Range(bars)) /\ Len(p) = n
        /\ n \in 0..Len(bars) /\ \A k \in 1..n : p[k] = bars[k]
        /\ Len(bars) \in Nat
    BY DEF Begins, Chronological
  <1>2. /\ SubSeq(bars, m, i) \in Seq(Range(bars)) /\ Len(SubSeq(bars, m, i)) = i - m + 1
        /\ \A k \in 1..(i - m + 1) : SubSeq(bars, m, i)[k] = bars[m + k - 1]
    BY <1>1
  <1>3. /\ SubSeq(p, m, i) \in Seq(Range(bars)) /\ Len(SubSeq(p, m, i)) = i - m + 1
        /\ \A k \in 1..(i - m + 1) : SubSeq(p, m, i)[k] = p[m + k - 1]
    BY <1>1
  <1>4. \A k \in 1..(i - m + 1) : p[m + k - 1] = bars[m + k - 1]
    BY <1>1
  <1>5. SubSeq(p, m, i) = SubSeq(bars, m, i)
    <2>1. i - m + 1 \in Nat
      BY <1>1
    <2>. QED  BY <1>2, <1>3, <1>4, <2>1, SameSequence
  <1>6. Last(SubSeq(bars, m, i)) = bars[i]
    BY <1>2 DEF Last
  <1>. QED  BY <1>2, <1>5, <1>6

\* So is the window before a session, whatever its length.
LEMMA SameWindow ==
    ASSUME NEW p, NEW bars, NEW n, Begins(p, bars, n), NEW i \in 1..n, NEW size \in Nat \ {0}
    PROVE  /\ WindowEndingAt(p, i, size) = WindowEndingAt(bars, i, size)
           /\ Last(WindowEndingAt(bars, i, size)) = bars[i]
  <1>1. i \in Nat
    BY DEF Begins
  <1> DEFINE k == i - size + 1
  <1>2. k \in Int /\ k <= i
    BY <1>1
  <1>. HIDE DEF k
  <1>3. Max({1, k}) \in {1, k} /\ Max({1, k}) >= 1
    BY <1>2, MaxOfTwo
  <1>4. Max({1, k}) \in 1..i
    BY <1>1, <1>2, <1>3
  <1>. USE DEF k
  <1>. QED  BY <1>4, SamePart DEF WindowEndingAt

\* A series has one bar for each of its dates.
LEMMA OneBarADay ==
    ASSUME NEW bars, Chronological(bars), NEW i \in DOMAIN bars, NEW j \in DOMAIN bars,
           bars[i].date = bars[j].date
    PROVE  i = j
  <1>1. i \in Int /\ j \in Int /\ bars[i].date \in Int
    BY DEF Chronological
  <1>2. ~(i < j) /\ ~(j < i)
    BY <1>1 DEF Chronological
  <1>. QED  BY <1>1, <1>2

LEMMA AsProxyIs ==
    ASSUME NEW bars, Chronological(bars)
    PROVE  /\ DOMAIN AsProxy(bars) = {bars[i].date : i \in DOMAIN bars}
           /\ \A i \in DOMAIN bars : AsProxy(bars)[bars[i].date] = bars[i].close
  <1> DEFINE dates == {b.date : b \in Range(bars)}
             At(d) == CHOOSE i \in DOMAIN bars : bars[i].date = d
  <1>1. AsProxy(bars) = [d \in dates |-> bars[At(d)].close]
    BY TableIs DEF AsProxy
  <1>2. \A x : x \in dates <=> x \in {bars[i].date : i \in DOMAIN bars}
    BY DEF Range
  <1>3. \A i \in DOMAIN bars : At(bars[i].date) = i
    BY OneBarADay
  <1>. HIDE DEF At, dates
  <1>4. dates = {bars[i].date : i \in DOMAIN bars}
    BY <1>2
  <1>. QED  BY <1>1, <1>3, <1>4

\* The proxy of a beginning has what the proxy of the series has until then.
AgreeUntil(f, g, end) ==
    /\ \A d \in Int : d <= end => (d \in DOMAIN f <=> d \in DOMAIN g)
    /\ \A d \in DOMAIN f : d <= end /\ d \in DOMAIN g => f[d] = g[d]
    /\ DOMAIN f \subseteq Int /\ DOMAIN g \subseteq Int

LEMMA SameProxy ==
    ASSUME NEW p, NEW bars, NEW n, Begins(p, bars, n), Chronological(p), NEW end \in Int,
           \A i \in 1..Len(bars) : bars[i].date <= end => i <= n
    PROVE  AgreeUntil(AsProxy(p), AsProxy(bars), end)
  <1>1. /\ DOMAIN bars = 1..Len(bars) /\ Len(bars) \in Nat
        /\ DOMAIN p = 1..n /\ n \in 0..Len(bars) /\ \A i \in 1..n : p[i] = bars[i]
    BY DEF Begins, Chronological
  <1>2. Chronological(bars)
    BY DEF Begins
  <1>3. /\ DOMAIN AsProxy(bars) = {bars[i].date : i \in 1..Len(bars)}
        /\ \A i \in 1..Len(bars) : AsProxy(bars)[bars[i].date] = bars[i].close
    BY <1>1, <1>2, AsProxyIs
  <1>4. /\ DOMAIN AsProxy(p) = {p[i].date : i \in 1..n}
        /\ \A i \in 1..n : AsProxy(p)[p[i].date] = p[i].close
    BY <1>1, AsProxyIs
  <1>5. 1..n \subseteq 1..Len(bars)
    BY <1>1
  <1>6. \A i \in 1..Len(bars) : bars[i].date \in Int
    BY <1>1, <1>2 DEF Chronological
  <1>7. \A i \in 1..n : p[i] = bars[i]
    BY <1>1
  <1>8. ASSUME NEW d \in Int, d <= end
        PROVE  d \in DOMAIN AsProxy(p) <=> d \in DOMAIN AsProxy(bars)
    BY <1>3, <1>4, <1>5, <1>7, <1>8
  <1>9. ASSUME NEW d \in DOMAIN AsProxy(p), d \in DOMAIN AsProxy(bars)
        PROVE  AsProxy(p)[d] = AsProxy(bars)[d]
    <2>1. PICK i \in 1..n : d = p[i].date
      BY <1>4, <1>9
    <2>2. AsProxy(p)[d] = p[i].close
      BY <1>4, <2>1
    <2>3. AsProxy(bars)[d] = bars[i].close
      BY <1>3, <1>5, <1>7, <2>1
    <2>. QED  BY <1>7, <2>2, <2>3
  <1>10. DOMAIN AsProxy(p) \subseteq Int /\ DOMAIN AsProxy(bars) \subseteq Int
    BY <1>3, <1>4, <1>5, <1>6, <1>7
  <1>. QED  BY <1>8, <1>9, <1>10 DEF AgreeUntil

LEMMA SameProxyWindow ==
    ASSUME NEW f, NEW g, NEW end \in Int, AgreeUntil(f, g, end),
           NEW date \in Int, date <= end, NEW size
    PROVE  ProxyWindow(f, date, size) = ProxyWindow(g, date, size)
  <1> DEFINE U(h) == {d \in DOMAIN h : d <= date}
             D(u) == {d \in u : Cardinality({e \in u : e > d}) < size}
  <1>1. U(f) = U(g)
    BY DEF AgreeUntil
  <1>2. D(U(f)) = D(U(g))
    BY <1>1
  <1>3. \A d \in D(U(f)) : f[d] = g[d]
    BY <1>1 DEF AgreeUntil
  <1>4. \A h : ProxyWindow(h, date, size) = [d \in D(U(h)) |-> h[d]]
    BY TableIs DEF ProxyWindow, Restrict
  <1>. HIDE DEF U, D
  <1>. QED  BY <1>2, <1>3, <1>4

\* Two inputs of the pipeline, of which one has only what there was until a day.
InputUntil(early, late, n, end) ==
    /\ Begins(early.bars, late.bars, n)
    /\ \A i \in 1..Len(late.bars) : late.bars[i].date <= end <=> i <= n
    /\ AgreeUntil(early.benchmark, late.benchmark, end)
    /\ AgreeUntil(early.sector, late.sector, end)
    /\ early.earnings = late.earnings

LEMMA SameRunDay ==
    ASSUME NEW early, NEW late, NEW n, NEW end \in Int, InputUntil(early, late, n, end),
           NEW i \in 1..n, NEW sessions
    PROVE  RunDay(early, i, sessions) = RunDay(late, i, sessions)
  <1>1. W["feature"] \in Nat \ {0}
    BY WindowsAssumption DEF WindowNames
  <1>2. WindowEndingAt(early.bars, i, W["feature"]) = WindowEndingAt(late.bars, i, W["feature"])
    BY <1>1, SameWindow DEF InputUntil
  <1>3. early.bars[i] = late.bars[i]
    BY DEF InputUntil, Begins
  <1>4. late.bars[i].date \in Int /\ late.bars[i].date <= end
    <2>1. i \in 1..Len(late.bars) /\ i <= n /\ i \in DOMAIN late.bars
      BY DEF InputUntil, Begins, Chronological
    <2>. QED  BY <2>1 DEF InputUntil, Begins, Chronological
  <1>5. /\ ProxyWindow(early.benchmark, late.bars[i].date, W["feature"])
             = ProxyWindow(late.benchmark, late.bars[i].date, W["feature"])
        /\ ProxyWindow(early.sector, late.bars[i].date, W["feature"])
             = ProxyWindow(late.sector, late.bars[i].date, W["feature"])
    BY <1>4, SameProxyWindow DEF InputUntil
  <1>6. early.earnings = late.earnings
    BY DEF InputUntil
  <1>. QED  BY <1>2, <1>3, <1>5, <1>6 DEF RunDay

\* What a session yields is dated with it.
LEMMA FeaturesDate ==
    ASSUME NEW bars, NEW benchmark, NEW sector, NEW f \in ComputeFeatures(bars, benchmark, sector)
    PROVE  f.date = Last(bars).date
  <1>1. PICK s, a : f = FeatureVector(bars, OwnCloses(bars), Window(bars, W["beta"]),
                                      benchmark, sector, s, a)
    BY DEF ComputeFeatures
  <1>. QED  BY <1>1 DEF FeatureVector

LEMMA AnalysedIs ==
    ASSUME NEW bars, NEW date, NEW benchmark, NEW sector, NEW next, NEW sessions,
           NEW day \in AnalysedDay(bars, date, benchmark, sector, next, sessions)
    PROVE  \E f \in ComputeFeatures(bars, benchmark, sector) :
              \E in \in {[features |-> f, bars |-> bars, sessions |-> sessions,
                          nextEarnings |-> next, asOf |-> date]} :
                  /\ RunDetectors(in) # <<>>
                  /\ day \in ScoredDay(f, RunDetectors(in), DayContext(f, RunDetectors(in)))
  BY DEF AnalysedDay

LEMMA ScoredDayIs ==
    ASSUME NEW f, NEW fired, NEW ctx, NEW day \in ScoredDay(f, fired, ctx)
    PROVE  day.date = f.date /\ day.events = ScoredEvents(fired, ctx)
  BY DEF ScoredDay

\* Each detector dates what it finds with the features it was given.
LEMMA DetectorsDate ==
    ASSUME NEW in, NEW c \in Range(RunDetectors(in))
    PROVE  c.date = in.features.date
  <1> DEFINE answers == <<MoveSinceLastSeen(in), VolumeSpike(in), SectorDivergence(in),
                          RangeBreak(in), VolRegimeShift(in), EarningsUpcoming(in),
                          CorrelationBreak(in), QuietRegime(in)>>
             Dated(S) == \A x \in S : x.date = in.features.date
  <1>1. ASSUME NEW detector, NEW direction, NEW magnitude, NEW family, NEW normalized
        PROVE  Candidate(detector, in.features, direction, magnitude, family, normalized).date
                 = in.features.date
    BY DEF Candidate
  <1>2. Dated(MoveSinceLastSeen(in))
    BY <1>1 DEF MoveSinceLastSeen
  <1>3. Dated(VolumeSpike(in))
    BY <1>1 DEF VolumeSpike
  <1>4. Dated(SectorDivergence(in))
    BY <1>1 DEF SectorDivergence
  <1>5. Dated(RangeBreak(in))
    BY <1>1 DEF RangeBreak
  <1>6. Dated(VolRegimeShift(in))
    BY <1>1 DEF VolRegimeShift
  <1>7. Dated(EarningsUpcoming(in))
    BY <1>1 DEF EarningsUpcoming
  <1>8. Dated(CorrelationBreak(in))
    BY <1>1 DEF CorrelationBreak
  <1>9. Dated(QuietRegime(in))
    BY <1>1 DEF QuietRegime
  <1>10. \A k \in DOMAIN answers : Dated(answers[k])
    BY <1>2, <1>3, <1>4, <1>5, <1>6, <1>7, <1>8, <1>9
  <1>11. answers \in Seq(Range(answers))
    BY DEF Range
  <1>12. RunDetectors(in) = Fired(answers)
    BY DEF RunDetectors
  <1>. HIDE DEF answers
  <1>13. PICK k \in DOMAIN answers : c \in answers[k]
    BY <1>11, <1>12, FiredIs
  <1>. QED  BY <1>10, <1>13

LEMMA ScoredEventsIs ==
    ASSUME NEW fired, NEW ctx, NEW e \in Range(ScoredEvents(fired, ctx))
    PROVE  \E c \in Range(fired) : e = ScoreEvent(c, ctx)
  <1>1. ScoredEvents(fired, ctx) = [i \in DOMAIN fired |-> ScoreEvent(fired[i], ctx)]
    BY TableIs DEF ScoredEvents, Field
  <1>. QED  BY <1>1 DEF Range

LEMMA ScoreEventIs ==
    ASSUME NEW c, NEW ctx
    PROVE  /\ DOMAIN ScoreEvent(c, ctx) =
                {"detector", "date", "direction", "magnitude", "signal", "confidence",
                 "confirmed", "score", "severity", "points", "multipliers"}
           /\ ScoreEvent(c, ctx).date = c.date
           /\ ScoreEvent(c, ctx).detector = c.detector
  BY DEF ScoreEvent

\* A day of the history and its events are dated with its bar.
Dated(day, date) ==
    /\ day.date = date
    /\ \A e \in Range(day.events) :
          /\ e.date = date
          /\ DOMAIN e = {"detector", "date", "direction", "magnitude", "signal", "confidence",
                         "confirmed", "score", "severity", "points", "multipliers"}

LEMMA RunDayIsDated ==
    ASSUME NEW input, Chronological(input.bars), NEW i \in 1..Len(input.bars), NEW sessions,
           NEW day \in RunDay(input, i, sessions)
    PROVE  Dated(day, input.bars[i].date)
  <1> DEFINE window == WindowEndingAt(input.bars, i, W["feature"])
             date == input.bars[i].date
             b == ProxyWindow(input.benchmark, date, W["feature"])
             s == ProxyWindow(input.sector, date, W["feature"])
             next == NextEarnings(input.earnings, date)
  <1>1. W["feature"] \in Nat \ {0}
    BY WindowsAssumption DEF WindowNames
  <1>2. input.bars \in Seq(Range(input.bars)) /\ Len(input.bars) \in Nat
    BY DEF Chronological
  <1>3. Begins(input.bars, input.bars, Len(input.bars))
    BY <1>2 DEF Begins
  <1>4. Last(window) = input.bars[i]
    BY <1>1, <1>3, SameWindow
  <1>5. day \in AnalysedDay(window, date, b, s, next, sessions)
    BY DEF RunDay
  <1>. HIDE DEF window, b, s, next
  <1>6. PICK f \in ComputeFeatures(window, b, s) :
           \E in \in {[features |-> f, bars |-> window, sessions |-> sessions,
                       nextEarnings |-> next, asOf |-> date]} :
               /\ RunDetectors(in) # <<>>
               /\ day \in ScoredDay(f, RunDetectors(in), DayContext(f, RunDetectors(in)))
    BY <1>5, AnalysedIs
  <1>7. f.date = date
    BY <1>4, FeaturesDate
  <1>8. PICK in : /\ in.features = f
                  /\ day \in ScoredDay(f, RunDetectors(in), DayContext(f, RunDetectors(in)))
    BY <1>6
  <1>9. /\ day.date = f.date
        /\ day.events = ScoredEvents(RunDetectors(in), DayContext(f, RunDetectors(in)))
    BY <1>8, ScoredDayIs
  <1>10. ASSUME NEW e \in Range(day.events)
         PROVE  \E c \in Range(RunDetectors(in)) : e = ScoreEvent(c, DayContext(f, RunDetectors(in)))
    BY <1>9, ScoredEventsIs
  <1>11. ASSUME NEW c \in Range(RunDetectors(in))
         PROVE  c.date = date
    BY <1>7, <1>8, DetectorsDate
  <1>. QED  BY <1>7, <1>9, <1>10, <1>11, ScoreEventIs DEF Dated

\* What the pipeline makes of a beginning is what it makes of the series until then.
LEMMA PipelineIs ==
    ASSUME NEW input, NEW from, NEW to, NEW sessions, NEW day
    PROVE  day \in RunPipeline(input, from, to, sessions) <=>
             \E i \in W["history"]..Len(input.bars) :
                input.bars[i].date \in from..to /\ day \in RunDay(input, i, sessions)
  BY DEF RunPipeline

LEMMA SamePipeline ==
    ASSUME NEW early, NEW late, NEW n, NEW end \in Int, InputUntil(early, late, n, end),
           NEW from, NEW to, NEW sessions
    PROVE  /\ RunPipeline(early, from, to, sessions)
                = {d \in RunPipeline(late, from, to, sessions) : d.date <= end}
           /\ \A d \in RunPipeline(late, from, to, sessions) :
                \E i \in DOMAIN late.bars : i > 1 /\ Dated(d, late.bars[i].date)
  <1> DEFINE h == W["history"]
  <1>1. /\ Chronological(late.bars) /\ Len(late.bars) \in Nat /\ DOMAIN late.bars = 1..Len(late.bars)
        /\ n \in 0..Len(late.bars) /\ Len(early.bars) = n
        /\ \A i \in 1..n : early.bars[i] = late.bars[i]
    BY DEF InputUntil, Begins, Chronological
  <1>2. h \in Nat /\ h > 1
    BY WindowsAssumption DEF WindowNames
  <1>. HIDE DEF h
  <1>3. ASSUME NEW i \in h..Len(late.bars), NEW d \in RunDay(late, i, sessions)
        PROVE  i \in DOMAIN late.bars /\ i > 1 /\ Dated(d, late.bars[i].date) /\ (d.date <= end <=> i <= n)
    <2>1. i \in 1..Len(late.bars) /\ i > 1
      BY <1>1, <1>2
    <2>2. Dated(d, late.bars[i].date)
      BY <1>1, <2>1, RunDayIsDated
    <2>3. late.bars[i].date <= end <=> i <= n
      BY <2>1 DEF InputUntil
    <2>. QED  BY <1>1, <2>1, <2>2, <2>3 DEF Dated
  <1>4. ASSUME NEW i \in h..n PROVE RunDay(early, i, sessions) = RunDay(late, i, sessions)
    BY <1>1, <1>2, SameRunDay
  <1>5. ASSUME NEW d
        PROVE  d \in RunPipeline(early, from, to, sessions) <=>
                  d \in RunPipeline(late, from, to, sessions) /\ d.date <= end
    <2>1. ASSUME NEW i \in h..n, early.bars[i].date \in from..to, d \in RunDay(early, i, sessions)
          PROVE  d \in RunPipeline(late, from, to, sessions) /\ d.date <= end
      <3>1. i \in h..Len(late.bars) /\ i <= n /\ i \in 1..n
        BY <1>1, <1>2
      <3>2. d \in RunDay(late, i, sessions) /\ late.bars[i].date \in from..to
        BY <1>1, <1>4, <2>1, <3>1
      <3>. QED  BY <1>3, <3>1, <3>2, PipelineIs DEF h
    <2>2. ASSUME NEW i \in h..Len(late.bars), late.bars[i].date \in from..to,
                 d \in RunDay(late, i, sessions), d.date <= end
          PROVE  d \in RunPipeline(early, from, to, sessions)
      <3>1. i \in h..n /\ i \in 1..n
        BY <1>1, <1>2, <1>3, <2>2
      <3>2. d \in RunDay(early, i, sessions) /\ early.bars[i].date \in from..to
        BY <1>1, <1>4, <2>2, <3>1
      <3>. QED  BY <1>1, <3>1, <3>2, PipelineIs DEF h
    <2>. QED  BY <1>1, <2>1, <2>2, PipelineIs DEF h
  <1>6. ASSUME NEW d \in RunPipeline(late, from, to, sessions)
        PROVE  \E i \in DOMAIN late.bars : i > 1 /\ Dated(d, late.bars[i].date)
    BY <1>3, PipelineIs DEF h
  <1>. QED  BY <1>5, <1>6

-----------------------------------------------------------------------------
(* A market of which only what there was until a day is loaded             *)

MarketUntil(early, late, end) ==
    /\ early.sector = late.sector /\ early.etf = late.etf
    /\ \A s : /\ Chronological(SeriesOf(late, s))
              /\ SeriesOf(early, s) = Upto(SeriesOf(late, s), end)

LEMMA BeginningIsChronological ==
    ASSUME NEW p, NEW bars, NEW n, Begins(p, bars, n)
    PROVE  Chronological(p)
  <1>1. /\ p \in Seq(Range(bars)) /\ DOMAIN p = 1..n /\ DOMAIN bars = 1..Len(bars)
        /\ Len(bars) \in Nat /\ n \in 0..Len(bars) /\ \A i \in 1..n : p[i] = bars[i]
    BY DEF Begins, Chronological
  <1>2. p \in Seq(Range(p))
    BY <1>1, OwnRange
  <1>3. 1..n \subseteq 1..Len(bars)
    BY <1>1
  <1>4. /\ \A i \in 1..n : bars[i].date \in Int
        /\ \A i, j \in 1..n : i < j => bars[i].date < bars[j].date
    BY <1>1, <1>3 DEF Begins, Chronological
  <1>. QED  BY <1>1, <1>2, <1>4 DEF Chronological

LEMMA SeriesUntil ==
    ASSUME NEW early, NEW late, NEW end \in Int, MarketUntil(early, late, end), NEW s
    PROVE  /\ Chronological(SeriesOf(early, s)) /\ Chronological(SeriesOf(late, s))
           /\ \E n \in 0..Len(SeriesOf(late, s)) :
                 /\ Begins(SeriesOf(early, s), SeriesOf(late, s), n)
                 /\ \A i \in 1..Len(SeriesOf(late, s)) :
                       SeriesOf(late, s)[i].date <= end <=> i <= n
  <1>1. Chronological(SeriesOf(late, s)) /\ SeriesOf(early, s) = Upto(SeriesOf(late, s), end)
    BY DEF MarketUntil
  <1>. QED  BY <1>1, UptoIs, BeginningIsChronological

LEMMA ProxiesUntil ==
    ASSUME NEW early, NEW late, NEW end \in Int, MarketUntil(early, late, end), NEW s
    PROVE  AgreeUntil(AsProxy(SeriesOf(early, s)), AsProxy(SeriesOf(late, s)), end)
  BY SeriesUntil, SameProxy

LEMMA InputsUntil ==
    ASSUME NEW early, NEW late, NEW end \in Int, MarketUntil(early, late, end), NEW s, NEW reports
    PROVE  \E n \in 0..Len(SeriesOf(late, s)) :
              InputUntil(InputOf(early, s, reports), InputOf(late, s, reports), n, end)
  <1>1. PICK n \in 0..Len(SeriesOf(late, s)) :
           /\ Begins(SeriesOf(early, s), SeriesOf(late, s), n)
           /\ \A i \in 1..Len(SeriesOf(late, s)) : SeriesOf(late, s)[i].date <= end <=> i <= n
    BY SeriesUntil
  <1>2. early.etf = late.etf
    BY DEF MarketUntil
  <1>3. AgreeUntil(AsProxy(SeriesOf(early, BENCHMARK)), AsProxy(SeriesOf(late, BENCHMARK)), end)
    BY ProxiesUntil
  <1>4. AgreeUntil(AsProxy(SeriesOf(early, early.etf[s])), AsProxy(SeriesOf(late, late.etf[s])), end)
    BY <1>2, ProxiesUntil
  <1>5. /\ InputOf(early, s, reports).bars = SeriesOf(early, s)
        /\ InputOf(late, s, reports).bars = SeriesOf(late, s)
        /\ InputOf(early, s, reports).benchmark = AsProxy(SeriesOf(early, BENCHMARK))
        /\ InputOf(late, s, reports).benchmark = AsProxy(SeriesOf(late, BENCHMARK))
        /\ InputOf(early, s, reports).sector = AsProxy(SeriesOf(early, early.etf[s]))
        /\ InputOf(late, s, reports).sector = AsProxy(SeriesOf(late, late.etf[s]))
        /\ InputOf(early, s, reports).earnings = InputOf(late, s, reports).earnings
    BY DEF InputOf
  <1>. QED  BY <1>1, <1>3, <1>4, <1>5 DEF InputUntil

\* The days of an instrument until then, and where their bars are.
LEMMA DaysUntil ==
    ASSUME NEW early, NEW late, NEW end \in Int, MarketUntil(early, late, end), NEW s,
           NEW reports, NEW from, NEW to
    PROVE  LET Of(market) == RunPipeline(InputOf(market, s, reports), from, to, {1})
               bars == SeriesOf(late, s)
           IN  /\ Of(early) = {d \in Of(late) : d.date <= end}
               /\ \A d \in Of(late) : \E i \in DOMAIN bars : i > 1 /\ Dated(d, bars[i].date)
  <1>1. PICK n : InputUntil(InputOf(early, s, reports), InputOf(late, s, reports), n, end)
    BY InputsUntil
  <1>2. InputOf(late, s, reports).bars = SeriesOf(late, s)
    BY DEF InputOf
  <1>. QED  BY <1>1, <1>2, SamePipeline

LEMMA DatesAreNumbers ==
    ASSUME NEW bars, Chronological(bars)
    PROVE  \A i \in DOMAIN bars : bars[i].date \in Int /\ i \in Int
  BY DEF Chronological

-----------------------------------------------------------------------------
(* The members of a day's themes                                           *)

\* What compute makes of one session of one instrument.
MemberAt(bars, benchmark, symbol, sector, day, x) ==
    \E i \in W["beta"] + 2..Len(bars) :
        /\ bars[i].date = day.date
        /\ \E reg \in RegressWindow(bars, benchmark, i) :
              x = Member([symbol |-> symbol, sector |-> sector, bars |-> bars, day |-> day], i, reg)

LEMMA MembersAre ==
    ASSUME NEW market, NEW days, NEW s, NEW date, NEW benchmark, NEW x
    PROVE  x \in ThemeMembers(EntriesOn(market, days, s, date), benchmark) <=>
             \E day \in days[s] :
                 /\ day.date = date /\ day.severity \in SURFACED
                 /\ MemberAt(SeriesOf(market, s), benchmark, s, market.sector[s], day, x)
  <1> DEFINE E(day) == [symbol |-> s, sector |-> market.sector[s],
                        bars |-> SeriesOf(market, s), day |-> day]
             In(e) == \E i \in {i \in W["beta"] + 2..Len(e.bars) : e.bars[i].date = e.day.date} :
                         \E reg \in RegressWindow(e.bars, benchmark, i) : x = Member(e, i, reg)
  <1>1. x \in ThemeMembers(EntriesOn(market, days, s, date), benchmark) <=>
           \E e \in EntriesOn(market, days, s, date) : e.day.severity \in SURFACED /\ In(e)
    BY DEF ThemeMembers
  <1>2. \A e : e \in EntriesOn(market, days, s, date) <=>
                  \E day \in days[s] : day.date = date /\ e = E(day)
    BY DEF EntriesOn
  <1>3. \A day : In(E(day)) <=>
                   MemberAt(SeriesOf(market, s), benchmark, s, market.sector[s], day, x)
    BY DEF MemberAt
  <1>4. \A day : E(day).day = day
    OBVIOUS
  <1>. HIDE DEF E, In
  <1>. QED  BY <1>1, <1>2, <1>3, <1>4

LEMMA SameRegression ==
    ASSUME NEW p, NEW bars, NEW n, Begins(p, bars, n), NEW end \in Int,
           \A i \in 1..Len(bars) : bars[i].date <= end <=> i <= n,
           NEW f, NEW g, AgreeUntil(f, g, end), NEW i \in 1..n
    PROVE  RegressWindow(p, f, i) = RegressWindow(bars, g, i)
  <1> DEFINE first == Max({2, i - W["beta"]})
             Both(b, h) == {k \in first..i : {b[k].date, b[k - 1].date} \subseteq DOMAIN h}
             Own(b, h) == [k \in Both(b, h) |-> b[k].close - b[k - 1].close]
             Its(b, h) == [k \in Both(b, h) |-> h[b[k].date] - h[b[k - 1].date]]
  <1>1. /\ W["beta"] \in Nat /\ n \in Nat /\ i \in Nat /\ n <= Len(bars) /\ Len(bars) \in Nat
        /\ \A k \in 1..n : p[k] = bars[k]
    <2>1. "beta" \in WindowNames
      BY DEF WindowNames
    <2>2. W["beta"] \in Nat
      BY <2>1, WindowsAssumption
    <2>3. bars \in Seq(Range(bars))
      BY DEF Begins, Chronological
    <2>4. Len(bars) \in Nat
      BY <2>3
    <2>5. n \in 0..Len(bars) /\ \A k \in 1..n : p[k] = bars[k]
      BY <2>3 DEF Begins
    <2>. QED  BY <2>2, <2>4, <2>5
  <1>2. first >= 2 /\ first \in Int
    <2> DEFINE k == i - W["beta"]
    <2>1. k \in Int
      BY <1>1
    <2>. HIDE DEF k
    <2>2. Max({2, k}) \in {2, k} /\ Max({2, k}) >= 2
      BY <2>1, 2 \in Int, MaxOfTwo
    <2>. QED  BY <2>1, <2>2 DEF k
  <1>. HIDE DEF first
  <1>3. ASSUME NEW k \in first..i
        PROVE  /\ p[k] = bars[k] /\ p[k - 1] = bars[k - 1]
               /\ bars[k].date \in Int /\ bars[k - 1].date \in Int
               /\ bars[k].date <= end /\ bars[k - 1].date <= end
    <2>1. k \in 1..n /\ k - 1 \in 1..n /\ k \in 1..Len(bars) /\ k - 1 \in 1..Len(bars)
      BY <1>1, <1>2
    <2>2. p[k] = bars[k] /\ p[k - 1] = bars[k - 1]
      BY <1>1, <2>1
    <2>3. bars[k].date \in Int /\ bars[k - 1].date \in Int
      BY <2>1 DEF Begins, Chronological
    <2>4. bars[k].date <= end /\ bars[k - 1].date <= end
      BY <1>1, <2>1
    <2>. QED  BY <2>2, <2>3, <2>4
  <1>4. Both(p, f) = Both(bars, g)
    BY <1>3 DEF AgreeUntil
  <1>5. Own(p, f) = Own(bars, g)
    BY <1>3, <1>4
  <1>6. Its(p, f) = Its(bars, g)
    <2>1. ASSUME NEW k \in Both(bars, g)
          PROVE  f[p[k].date] - f[p[k - 1].date] = g[bars[k].date] - g[bars[k - 1].date]
      <3>1. /\ p[k] = bars[k] /\ p[k - 1] = bars[k - 1]
            /\ bars[k].date <= end /\ bars[k - 1].date <= end
        BY <1>3
      <3>2. /\ bars[k].date \in DOMAIN g /\ bars[k - 1].date \in DOMAIN g
            /\ bars[k].date \in DOMAIN f /\ bars[k - 1].date \in DOMAIN f
        BY <1>4, <3>1
      <3>3. f[bars[k].date] = g[bars[k].date] /\ f[bars[k - 1].date] = g[bars[k - 1].date]
        BY <3>1, <3>2 DEF AgreeUntil
      <3>. QED  BY <3>1, <3>3
    <2>. HIDE DEF Both
    <2>. QED  BY <1>4, <2>1
  <1>7. \A b, h : RegressWindow(b, h, i) = RegressSessions(Own(b, h), Its(b, h))
    BY DEF RegressWindow, first
  <1>. HIDE DEF Own, Its
  <1>. QED  BY <1>5, <1>6, <1>7

LEMMA SameSigmas ==
    ASSUME NEW p, NEW bars, NEW n, Begins(p, bars, n), NEW i \in 1..n
    PROVE  SessionSigmas(p, i) = SessionSigmas(bars, i)
  <1>1. W["sigma"] \in Nat /\ i \in Nat
    BY WindowsAssumption DEF WindowNames, Begins
  <1> DEFINE k == i - W["sigma"]
             m == Max({1, k})
  <1>2. k \in Int /\ k <= i
    BY <1>1
  <1>. HIDE DEF k
  <1>5. m \in {1, k} /\ m >= 1
    BY <1>2, MaxOfTwo
  <1>3. m \in 1..i
    BY <1>1, <1>2, <1>5
  <1>4. SubSeq(p, m, i) = SubSeq(bars, m, i)
    BY <1>3, SamePart
  <1>. QED  BY <1>4 DEF SessionSigmas, k

LEMMA SameMembers ==
    ASSUME NEW p, NEW bars, NEW n, Begins(p, bars, n), NEW end \in Int,
           \A i \in 1..Len(bars) : bars[i].date <= end <=> i <= n,
           NEW f, NEW g, AgreeUntil(f, g, end),
           NEW symbol, NEW sector, NEW day, day.date <= end, NEW x
    PROVE  MemberAt(p, f, symbol, sector, day, x) <=> MemberAt(bars, g, symbol, sector, day, x)
  <1> DEFINE E(b) == [symbol |-> symbol, sector |-> sector, bars |-> b, day |-> day]
             from == W["beta"] + 2
  <1>1. /\ from \in Nat /\ from > 1 /\ Len(p) = n /\ n \in Nat /\ n <= Len(bars) /\ Len(bars) \in Nat
        /\ \A k \in 1..n : p[k] = bars[k]
    <2>3. W["beta"] \in Nat
      BY WindowsAssumption DEF WindowNames
    <2>1. from \in Nat /\ from > 1
      BY <2>3
    <2>2. Len(bars) \in Nat
      BY DEF Begins, Chronological
    <2>. HIDE DEF from
    <2>. QED  BY <2>1, <2>2 DEF Begins
  <1>. HIDE DEF from
  <1>2. ASSUME NEW i \in from..n, NEW reg PROVE Member(E(p), i, reg) = Member(E(bars), i, reg)
    <2>1. i \in 1..n /\ i - 1 \in 1..n
      BY <1>1
    <2>2. p[i] = bars[i] /\ p[i - 1] = bars[i - 1]
      BY <1>1, <2>1
    <2>3. SessionSigmas(p, i) = SessionSigmas(bars, i)
      BY <2>1, SameSigmas
    <2>. QED  BY <2>2, <2>3 DEF Member
  <1>3. ASSUME NEW i \in from..n PROVE RegressWindow(p, f, i) = RegressWindow(bars, g, i)
    <2>1. i \in 1..n
      BY <1>1
    <2>. QED  BY <2>1, SameRegression
  <1>4. ASSUME NEW i \in from..Len(bars), bars[i].date = day.date PROVE i \in from..n
    BY <1>1, <1>4
  <1>5. \A i \in from..n : i \in from..Len(bars) /\ p[i] = bars[i]
    BY <1>1
  <1>6. MemberAt(p, f, symbol, sector, day, x) <=>
           \E i \in from..n : p[i].date = day.date
                              /\ \E reg \in RegressWindow(p, f, i) : x = Member(E(p), i, reg)
    BY <1>1 DEF MemberAt, from
  <1>7. MemberAt(bars, g, symbol, sector, day, x) <=>
           \E i \in from..Len(bars) : bars[i].date = day.date
                              /\ \E reg \in RegressWindow(bars, g, i) : x = Member(E(bars), i, reg)
    BY DEF MemberAt, from
  <1>. HIDE DEF E
  <1>. QED  BY <1>2, <1>3, <1>4, <1>5, <1>6, <1>7

\* The days of every instrument, of which one has only those until a day.
DaysTable(market) == [s \in Instruments |-> DaysOf(market, s)]
TableUntil(early, late, end) ==
    \A s \in Instruments : early[s] = {d \in late[s] : d.date <= end}

LEMMA SameThemes ==
    ASSUME NEW early, NEW late, NEW end \in Int, MarketUntil(early, late, end),
           NEW eDays, NEW lDays, TableUntil(eDays, lDays, end),
           NEW date \in Int, date <= end
    PROVE  ThemesOn(early, eDays, date) = ThemesOn(late, lDays, date)
  <1> DEFINE f == AsProxy(SeriesOf(early, BENCHMARK))
             g == AsProxy(SeriesOf(late, BENCHMARK))
             M(m, days, b, s) == ThemeMembers(EntriesOn(m, days, s, date), b)
  <1>1. AgreeUntil(f, g, end)
    BY ProxiesUntil
  <1>2. early.sector = late.sector
    BY DEF MarketUntil
  <1>. HIDE DEF f, g
  <1>3. ASSUME NEW s \in Instruments PROVE M(early, eDays, f, s) = M(late, lDays, g, s)
    <2>1. PICK n \in 0..Len(SeriesOf(late, s)) :
             /\ Begins(SeriesOf(early, s), SeriesOf(late, s), n)
             /\ \A i \in 1..Len(SeriesOf(late, s)) : SeriesOf(late, s)[i].date <= end <=> i <= n
      BY SeriesUntil
    <2>2. \A day \in lDays[s] : day.date = date => day \in eDays[s]
      BY DEF TableUntil
    <2>3. \A day \in eDays[s] : day \in lDays[s]
      BY DEF TableUntil
    <2>4. ASSUME NEW day, day.date = date, NEW x
          PROVE  MemberAt(SeriesOf(early, s), f, s, early.sector[s], day, x)
                   <=> MemberAt(SeriesOf(late, s), g, s, late.sector[s], day, x)
      BY <1>1, <1>2, <2>1, <2>4, SameMembers
    <2>5. ASSUME NEW x PROVE x \in M(early, eDays, f, s) <=> x \in M(late, lDays, g, s)
      <3>1. x \in M(early, eDays, f, s) <=>
              \E day \in eDays[s] : /\ day.date = date /\ day.severity \in SURFACED
                                    /\ MemberAt(SeriesOf(early, s), f, s, early.sector[s], day, x)
        BY MembersAre
      <3>2. x \in M(late, lDays, g, s) <=>
              \E day \in lDays[s] : /\ day.date = date /\ day.severity \in SURFACED
                                    /\ MemberAt(SeriesOf(late, s), g, s, late.sector[s], day, x)
        BY MembersAre
      <3>. QED  BY <2>2, <2>3, <2>4, <3>1, <3>2
    <2>. HIDE DEF M
    <2>. QED  BY <2>5
  <1>4. MembersOn(early, eDays, date, f) = MembersOn(late, lDays, date, g)
    <2>1. [s \in Instruments |-> M(early, eDays, f, s)] = [s \in Instruments |-> M(late, lDays, g, s)]
      BY <1>3
    <2>. QED  BY <2>1 DEF MembersOn
  <1>. QED  BY <1>4 DEF ThemesOn, f, g

\* What a recompute stores, element by element.
LEMMA ThemesAreDated ==
    ASSUME NEW market, NEW days, NEW date, NEW t \in ThemesOn(market, days, date)
    PROVE  t.day = date
  <1>1. PICK x : t = With([day |-> date], x)
    BY DEF ThemesOn
  <1>. QED  BY <1>1, WithFirst

LEMMA StoredThemes ==
    ASSUME NEW market, NEW t
    PROVE  t \in ComputeAndPersist(market).themes <=>
             \E s \in Instruments : \E d \in DaysOf(market, s) :
                 t \in ThemesOn(market, DaysTable(market), d.date)
  <1>1. Table([s \in Instruments |-> DaysOf(market, s)]) = DaysTable(market)
    BY TableIs DEF DaysTable
  <1>2. \A s \in Instruments : DaysTable(market)[s] = DaysOf(market, s)
    BY DEF DaysTable
  <1>3. ComputeAndPersist(market).themes =
          UNION {ThemesOn(market, DaysTable(market), d) :
                    d \in UNION {{d.date : d \in DaysTable(market)[s]} : s \in Instruments}}
    BY <1>1 DEF ComputeAndPersist, Persisted
  <1>. QED  BY <1>2, <1>3

LEMMA StoredEvents ==
    ASSUME NEW market, NEW e
    PROVE  e \in ComputeAndPersist(market).events <=>
             \E s \in Instruments : \E d \in DaysOf(market, s) : \E x \in Range(d.events) :
                 /\ d.severity \in PERSISTED_DAYS
                 /\ e = Linked(EventRow(s, x), ComputeAndPersist(market).themes)
  <1>1. Table([s \in Instruments |-> DaysOf(market, s)]) = DaysTable(market)
    BY TableIs DEF DaysTable
  <1>2. \A s \in Instruments : DaysTable(market)[s] = DaysOf(market, s)
    BY DEF DaysTable
  <1>3. ComputeAndPersist(market).events =
          {Linked(r, ComputeAndPersist(market).themes) :
              r \in UNION {EventRows(s, DaysTable(market)[s]) : s \in Instruments}}
    BY <1>1 DEF ComputeAndPersist, Persisted
  <1>4. \A s \in Instruments : \A r : r \in EventRows(s, DaysTable(market)[s]) <=>
           \E d \in DaysOf(market, s) : d.severity \in PERSISTED_DAYS
                                        /\ \E x \in Range(d.events) : r = EventRow(s, x)
    BY <1>2 DEF EventRows
  <1>. QED  BY <1>3, <1>4

LEMMA RowsAreDated ==
    ASSUME NEW s, NEW day, NEW date, Dated(day, date), NEW x \in Range(day.events), NEW themes
    PROVE  /\ EventRow(s, x).date = date /\ EventRow(s, x).symbol = s
           /\ Linked(EventRow(s, x), themes).date = date
           /\ Linked(EventRow(s, x), themes).symbol = s
           /\ Linked(EventRow(s, x), themes).detector = x.detector
           /\ Linked(EventRow(s, x), themes).severity = x.severity
  <1> DEFINE own == [symbol |-> s, fingerprint |-> FingerprintOf(s, x, x.date), theme |-> ""]
             row == EventRow(s, x)
  <1>1. /\ x.date = date
        /\ {"date", "detector", "severity"} \subseteq DOMAIN x
    BY DEF Dated
  <1>2. row = With(own, x)
    BY DEF EventRow
  <1>3. /\ "symbol" \in DOMAIN row /\ row.symbol = s
        /\ "date" \in DOMAIN row /\ row.date = x.date
        /\ "detector" \in DOMAIN row /\ row.detector = x.detector
        /\ "severity" \in DOMAIN row /\ row.severity = x.severity
    <2>1. DOMAIN own = {"symbol", "fingerprint", "theme"} /\ own.symbol = s
      OBVIOUS
    <2>. HIDE DEF own, row
    <2>. QED  BY <1>1, <1>2, <2>1, WithFirst, WithSecond
  <1>. HIDE DEF row
  <1>. QED  BY <1>1, <1>3 DEF Linked, row

LEMMA DaysOfUntil ==
    ASSUME NEW early, NEW late, NEW end \in Int, MarketUntil(early, late, end), NEW s
    PROVE  /\ DaysOf(early, s) = {d \in DaysOf(late, s) : d.date <= end}
           /\ \A d \in DaysOf(late, s) :
                 d.date \in Int /\ \E i \in DOMAIN SeriesOf(late, s) :
                                      i > 1 /\ Dated(d, SeriesOf(late, s)[i].date)
  <1>1. /\ DaysOf(early, s) = {d \in DaysOf(late, s) : d.date <= end}
        /\ \A d \in DaysOf(late, s) :
              \E i \in DOMAIN SeriesOf(late, s) : i > 1 /\ Dated(d, SeriesOf(late, s)[i].date)
    BY DaysUntil DEF DaysOf
  <1>2. Chronological(SeriesOf(late, s))
    BY DEF MarketUntil
  <1>. QED  BY <1>1, <1>2, DatesAreNumbers DEF Dated

LEMMA StoredUntil ==
    ASSUME NEW early, NEW late, NEW end \in Int, MarketUntil(early, late, end)
    PROVE  /\ ComputeAndPersist(early).themes
                = {t \in ComputeAndPersist(late).themes : t.day <= end}
           /\ ComputeAndPersist(early).events
                = {e \in ComputeAndPersist(late).events : e.date <= end}
  <1> DEFINE eThemes == ComputeAndPersist(early).themes
             lThemes == ComputeAndPersist(late).themes
  <1>1. \A s : /\ DaysOf(early, s) = {d \in DaysOf(late, s) : d.date <= end}
               /\ \A d \in DaysOf(late, s) : d.date \in Int /\ Dated(d, d.date)
    BY DaysOfUntil DEF Dated
  <1>2. TableUntil(DaysTable(early), DaysTable(late), end)
    BY <1>1 DEF TableUntil, DaysTable
  <1>3. \A date \in Int : date <= end =>
            ThemesOn(early, DaysTable(early), date) = ThemesOn(late, DaysTable(late), date)
    BY <1>2, SameThemes
  <1>4. \A t : t \in eThemes <=> t \in lThemes /\ t.day <= end
    <2>. SUFFICES ASSUME NEW t PROVE t \in eThemes <=> t \in lThemes /\ t.day <= end
      OBVIOUS
    <2>1. t \in eThemes <=> \E s \in Instruments : \E d \in DaysOf(early, s) :
                               t \in ThemesOn(early, DaysTable(early), d.date)
      BY StoredThemes
    <2>2. t \in lThemes <=> \E s \in Instruments : \E d \in DaysOf(late, s) :
                               t \in ThemesOn(late, DaysTable(late), d.date)
      BY StoredThemes
    <2>3. \A date : t \in ThemesOn(late, DaysTable(late), date) => t.day = date
      BY ThemesAreDated
    <2>4. \A s : \A d \in DaysOf(early, s) : d \in DaysOf(late, s) /\ d.date \in Int /\ d.date <= end
      BY <1>1
    <2>5. \A s : \A d \in DaysOf(late, s) : d.date \in Int /\ (d.date <= end => d \in DaysOf(early, s))
      BY <1>1
    <2>. HIDE DEF eThemes, lThemes
    <2>. QED  BY <1>3, <2>1, <2>2, <2>3, <2>4, <2>5
  <1>5. eThemes = {t \in lThemes : t.day <= end}
    BY <1>4
  <1>6. ASSUME NEW s, NEW d \in DaysOf(late, s), d.date <= end, NEW x \in Range(d.events)
        PROVE  Linked(EventRow(s, x), eThemes) = Linked(EventRow(s, x), lThemes)
    <2>1. EventRow(s, x).date = d.date
      BY <1>1, RowsAreDated
    <2> DEFINE of(themes) == {t \in themes : /\ t.day = EventRow(s, x).date
                                             /\ EventRow(s, x).symbol \in t.members}
    <2>2. of(eThemes) = of(lThemes)
      BY <1>5, <1>6, <2>1
    <2>. HIDE DEF eThemes, lThemes
    <2>. QED  BY <2>2 DEF Linked
  <1>7. \A e : e \in ComputeAndPersist(early).events <=>
                  e \in ComputeAndPersist(late).events /\ e.date <= end
    <2>. SUFFICES ASSUME NEW e
                  PROVE  e \in ComputeAndPersist(early).events <=>
                           e \in ComputeAndPersist(late).events /\ e.date <= end
      OBVIOUS
    <2>1. e \in ComputeAndPersist(early).events <=>
            \E s \in Instruments : \E d \in DaysOf(early, s) : \E x \in Range(d.events) :
               d.severity \in PERSISTED_DAYS /\ e = Linked(EventRow(s, x), eThemes)
      BY StoredEvents
    <2>2. e \in ComputeAndPersist(late).events <=>
            \E s \in Instruments : \E d \in DaysOf(late, s) : \E x \in Range(d.events) :
               d.severity \in PERSISTED_DAYS /\ e = Linked(EventRow(s, x), lThemes)
      BY StoredEvents
    <2>3. \A s : \A d \in DaysOf(late, s) : \A x \in Range(d.events) :
             Linked(EventRow(s, x), lThemes).date = d.date
      BY <1>1, RowsAreDated
    <2>4. \A s : \A d : d \in DaysOf(early, s) <=> d \in DaysOf(late, s) /\ d.date <= end
      BY <1>1
    <2>. HIDE DEF eThemes, lThemes
    <2>5. \A s : \A d \in DaysOf(late, s) : d.date <= end =>
             \A x \in Range(d.events) :
                Linked(EventRow(s, x), eThemes) = Linked(EventRow(s, x), lThemes)
      BY <1>6
    <2>. QED  BY <2>1, <2>2, <2>3, <2>4, <2>5
  <1>. QED  BY <1>5, <1>7

-----------------------------------------------------------------------------
(* A step of a replay                                                      *)

LEMMA PipelineDates ==
    ASSUME NEW input, Chronological(input.bars), NEW from, NEW to, NEW sessions,
           NEW d \in RunPipeline(input, from, to, sessions)
    PROVE  d.date \in from..to
  <1>1. PICK i \in W["history"]..Len(input.bars) :
           input.bars[i].date \in from..to /\ d \in RunDay(input, i, sessions)
    BY PipelineIs
  <1>2. i \in 1..Len(input.bars)
    <2>1. W["history"] \in Nat /\ W["history"] > 1
      BY WindowsAssumption DEF WindowNames
    <2>2. Len(input.bars) \in Nat
      BY DEF Chronological
    <2>. QED  BY <2>1, <2>2
  <1>. QED  BY <1>1, <1>2, RunDayIsDated DEF Dated

LEMMA MinOfTwo ==
    ASSUME NEW a \in Int, NEW b \in Int PROVE Min({a, b}) \in {a, b}
  BY DEF Min

LEMMA MinOfOne == ASSUME NEW a \in Int PROVE Min({a}) = a
  BY DEF Min

\* The session of a date is one, and the same one of a beginning.
LEMMA SameSession ==
    ASSUME NEW p, NEW bars, NEW n, Begins(p, bars, n), NEW end \in Int,
           \A i \in 1..Len(bars) : bars[i].date <= end <=> i <= n,
           NEW date \in Int, date <= end
    PROVE  /\ IndexOf(p, date) = IndexOf(bars, date)
           /\ IndexOf(bars, date) \subseteq 1..n
           /\ \A i \in IndexOf(bars, date) : IndexOf(bars, date) = {i} /\ Min(IndexOf(bars, date)) = i
  <1>1. /\ n \in Nat /\ Len(bars) \in Nat /\ n <= Len(bars) /\ DOMAIN p = 1..n
        /\ DOMAIN bars = 1..Len(bars) /\ \A i \in 1..n : p[i] = bars[i]
    BY DEF Begins, Chronological
  <1>2. \A i : i \in IndexOf(bars, date) <=> i \in 1..Len(bars) /\ bars[i].date = date
    BY <1>1 DEF IndexOf
  <1>3. \A i : i \in IndexOf(p, date) <=> i \in 1..n /\ p[i].date = date
    BY <1>1 DEF IndexOf
  <1>4. \A i \in IndexOf(bars, date) : i \in 1..n
    BY <1>1, <1>2
  <1>5. IndexOf(p, date) = IndexOf(bars, date)
    <2>1. \A i : i \in IndexOf(p, date) <=> i \in IndexOf(bars, date)
      <3>. SUFFICES ASSUME NEW i PROVE i \in IndexOf(p, date) <=> i \in IndexOf(bars, date)
        OBVIOUS
      <3>1. ASSUME i \in IndexOf(p, date) PROVE i \in IndexOf(bars, date)
        BY <3>1, <1>1, <1>2, <1>3
      <3>2. ASSUME i \in IndexOf(bars, date) PROVE i \in IndexOf(p, date)
        BY <3>2, <1>1, <1>2, <1>3, <1>4
      <3>. QED  BY <3>1, <3>2
    <2>. QED  BY <2>1 DEF IndexOf
  <1>6. ASSUME NEW i \in IndexOf(bars, date)
        PROVE  IndexOf(bars, date) = {i} /\ Min(IndexOf(bars, date)) = i
    <2>1. \A j \in IndexOf(bars, date) : j = i
      BY <1>1, <1>2, OneBarADay DEF Begins
    <2>2. IndexOf(bars, date) = {i} /\ i \in Int
      BY <1>4, <2>1
    <2>. QED  BY <2>2, MinOfOne
  <1>. QED  BY <1>4, <1>5, <1>6

LEMMA SameDays ==
    ASSUME NEW early, NEW late, NEW end \in Int, MarketUntil(early, late, end),
           NEW date \in Int, date <= end, NEW s
    PROVE  /\ Days(early, s, date) = Days(late, s, date)
           /\ \A d \in Days(late, s, date) :
                 /\ d.date = date
                 /\ \E i \in IndexOf(SeriesOf(late, s), date) : i > 1
  <1>1. /\ Days(early, s, date) = {d \in Days(late, s, date) : d.date <= end}
        /\ \A d \in Days(late, s, date) :
              \E i \in DOMAIN SeriesOf(late, s) : i > 1 /\ Dated(d, SeriesOf(late, s)[i].date)
    BY DaysUntil DEF Days
  <1>2. InputOf(late, s, <<>>).bars = SeriesOf(late, s) /\ Chronological(SeriesOf(late, s))
    BY DEF InputOf, MarketUntil
  <1>3. ASSUME NEW d \in Days(late, s, date) PROVE d.date = date
    <2>1. d.date \in date..date
      BY <1>2, PipelineDates DEF Days
    <2>. QED  BY <2>1
  <1>. QED  BY <1>1, <1>3 DEF Dated, IndexOf

LEMMA SameItem ==
    ASSUME NEW early, NEW late, NEW end \in Int, MarketUntil(early, late, end),
           NEW date \in Int, date <= end, NEW s, NEW d \in Days(late, s, date)
    PROVE  ReplayItem(early, s, d) = ReplayItem(late, s, d)
  <1> DEFINE p == SeriesOf(early, s)
             bars == SeriesOf(late, s)
  <1>1. PICK n \in 0..Len(bars) :
           /\ Begins(p, bars, n)
           /\ \A i \in 1..Len(bars) : bars[i].date <= end <=> i <= n
    BY SeriesUntil
  <1>2. PICK i \in IndexOf(bars, date) : i > 1 /\ d.date = date
    BY SameDays
  <1>. HIDE DEF p, bars
  <1>3. /\ Min(IndexOf(p, d.date)) = i /\ Min(IndexOf(bars, d.date)) = i
        /\ i \in 1..n
    BY <1>1, <1>2, SameSession
  <1>4. p[i] = bars[i] /\ p[i - 1] = bars[i - 1]
    <2>1. i - 1 \in 1..n
      BY <1>2, <1>3
    <2>. QED  BY <1>1, <1>3, <2>1 DEF Begins
  <1>5. early.sector = late.sector
    BY DEF MarketUntil
  <1>. QED  BY <1>3, <1>4, <1>5 DEF ReplayItem, p, bars

LEMMA SameThemeMember ==
    ASSUME NEW early, NEW late, NEW end \in Int, MarketUntil(early, late, end),
           NEW date \in Int, date <= end, NEW s, NEW i \in IndexOf(SeriesOf(late, s), date), NEW d
    PROVE  ThemeMemberFor(early, s, i, d) = ThemeMemberFor(late, s, i, d)
  <1> DEFINE p == SeriesOf(early, s)
             bars == SeriesOf(late, s)
             f == AsProxy(SeriesOf(early, BENCHMARK))
             g == AsProxy(SeriesOf(late, BENCHMARK))
             short == i < W["beta"] + 2
             M(b, regs) == {[symbol |-> s, sector |-> late.sector[s], day |-> d.date,
               score |-> d.score,
               direction |-> IF b[i].close < b[i - 1].close THEN -1 ELSE 1,
               ret |-> 100 * (b[i].close - b[i - 1].close),
               residuals |-> reg.residuals, explained |-> reg.explained,
               moveSigmas |-> SessionSigmas(b, i)] : reg \in regs}
  <1>1. PICK n \in 0..Len(bars) :
           /\ Begins(p, bars, n)
           /\ \A k \in 1..Len(bars) : bars[k].date <= end <=> k <= n
    BY SeriesUntil
  <1>2. AgreeUntil(f, g, end)
    BY ProxiesUntil
  <1>3. early.sector = late.sector
    BY DEF MarketUntil
  <1>4. i \in 1..n
    BY <1>1, SameSession
  <1>. HIDE DEF f, g, p, bars
  <1>5. RegressWindow(p, f, i) = RegressWindow(bars, g, i)
    BY <1>1, <1>2, <1>4, SameRegression
  <1>6. SessionSigmas(p, i) = SessionSigmas(bars, i)
    BY <1>1, <1>4, SameSigmas
  <1>7. ASSUME ~short PROVE p[i] = bars[i] /\ p[i - 1] = bars[i - 1]
    <2>1. W["beta"] \in Nat
      BY WindowsAssumption DEF WindowNames
    <2>2. n \in Nat
      BY <1>1 DEF Begins, Chronological
    <2>3. i - 1 \in 1..n
      BY <1>4, <1>7, <2>1, <2>2
    <2>. QED  BY <1>1, <1>4, <2>3 DEF Begins
  <1>8. /\ ThemeMemberFor(early, s, i, d) =
             IF late.sector[s] = "" \/ short THEN {} ELSE M(p, RegressWindow(p, f, i))
        /\ ThemeMemberFor(late, s, i, d) =
             IF late.sector[s] = "" \/ short THEN {} ELSE M(bars, RegressWindow(bars, g, i))
    BY <1>3 DEF ThemeMemberFor, p, bars, f, g
  <1>. HIDE DEF short
  <1>9. ~short => M(p, RegressWindow(p, f, i)) = M(bars, RegressWindow(bars, g, i))
    BY <1>5, <1>6, <1>7
  <1>. HIDE DEF M
  <1>. QED  BY <1>8, <1>9

LEMMA SameReplayDays ==
    ASSUME NEW early, NEW late, NEW end \in Int, MarketUntil(early, late, end),
           NEW date \in Int, date <= end, NEW symbols
    PROVE  /\ ReplayDays(early, symbols, date) = ReplayDays(late, symbols, date)
           /\ \A s \in DOMAIN ReplayDays(late, symbols, date) :
                 ReplayDays(late, symbols, date)[s] \subseteq Days(late, s, date)
  <1> DEFINE names == Range(symbols) \ {BENCHMARK}
             Loud(m, s) == {d \in Days(m, s, date) : d.severity \in SURFACED}
  <1>1. \A m : ReplayDays(m, symbols, date) = [s \in names |-> Loud(m, s)]
    BY TableIs DEF ReplayDays
  <1>2. \A s : Loud(early, s) = Loud(late, s)
    BY SameDays
  <1>. HIDE DEF names
  <1>. QED  BY <1>1, <1>2

LEMMA SameItems ==
    ASSUME NEW early, NEW late, NEW end \in Int, MarketUntil(early, late, end),
           NEW date \in Int, date <= end, NEW symbols, NEW days,
           \A s \in DOMAIN days : days[s] \subseteq Days(late, s, date)
    PROVE  ReplayItems(early, symbols, days) = ReplayItems(late, symbols, days)
  <1>1. \A s \in DOMAIN days : \A d \in days[s] : ReplayItem(early, s, d) = ReplayItem(late, s, d)
    BY SameItem
  <1>2. [s \in DOMAIN days |-> {ReplayItem(early, s, d) : d \in days[s]}]
          = [s \in DOMAIN days |-> {ReplayItem(late, s, d) : d \in days[s]}]
    <2>1. \A s \in DOMAIN days : {ReplayItem(early, s, d) : d \in days[s]}
                                   = {ReplayItem(late, s, d) : d \in days[s]}
      BY <1>1
    <2>. QED  BY <2>1
  <1>. QED  BY <1>2 DEF ReplayItems

LEMMA SameReplayMembers ==
    ASSUME NEW early, NEW late, NEW end \in Int, MarketUntil(early, late, end),
           NEW date \in Int, date <= end, NEW symbols, NEW days
    PROVE  ReplayMembers(early, symbols, days, date) = ReplayMembers(late, symbols, days, date)
  <1> DEFINE Of(m, s) == UNION {ThemeMemberFor(m, s, i, d) :
                                i \in IndexOf(SeriesOf(m, s), date), d \in days[s]}
  <1>1. \A s : IndexOf(SeriesOf(early, s), date) = IndexOf(SeriesOf(late, s), date)
    BY SeriesUntil, SameSession
  <1>2. \A s : \A i \in IndexOf(SeriesOf(late, s), date), d \in days[s] :
            ThemeMemberFor(early, s, i, d) = ThemeMemberFor(late, s, i, d)
    BY SameThemeMember
  <1>3. \A s : Of(early, s) = Of(late, s)
    BY <1>1, <1>2
  <1>4. [s \in DOMAIN days |-> Of(early, s)] = [s \in DOMAIN days |-> Of(late, s)]
    BY <1>3
  <1>5. \A m : ReplayMembers(m, symbols, days, date)
                = Known(symbols, Table([s \in DOMAIN days |-> Of(m, s)]))
    BY DEF ReplayMembers
  <1>. HIDE DEF Of
  <1>. QED  BY <1>4, <1>5

LEMMA SameBenchmarkMove ==
    ASSUME NEW early, NEW late, NEW end \in Int, MarketUntil(early, late, end),
           NEW date \in Int, date <= end
    PROVE  BenchmarkMove(SeriesOf(early, BENCHMARK), date)
             = BenchmarkMove(SeriesOf(late, BENCHMARK), date)
  <1> DEFINE p == SeriesOf(early, BENCHMARK)
             bars == SeriesOf(late, BENCHMARK)
             at(b) == {i \in IndexOf(b, date) : i > 1}
  <1>1. PICK n \in 0..Len(bars) :
           /\ Begins(p, bars, n)
           /\ \A k \in 1..Len(bars) : bars[k].date <= end <=> k <= n
    BY SeriesUntil
  <1>. HIDE DEF p, bars
  <1>2. at(p) = at(bars)
    BY <1>1, SameSession
  <1>3. CASE at(bars) = {}
    BY <1>2, <1>3 DEF BenchmarkMove, p, bars
  <1>4. CASE at(bars) # {}
    <2>1. PICK i \in at(bars) : TRUE
      BY <1>4
    <2>2. i \in 1..n /\ at(bars) = {i}
      <3>1. /\ i \in IndexOf(bars, date) /\ i > 1
            /\ at(bars) \subseteq IndexOf(bars, date)
        BY <2>1
      <3>2. IndexOf(bars, date) \subseteq 1..n /\ IndexOf(bars, date) = {i}
        BY <1>1, <3>1, SameSession
      <3>. QED  BY <2>1, <3>1, <3>2
    <2>3. Min(at(bars)) = i
      BY <2>2, MinOfOne
    <2>4. i - 1 \in 1..n
      BY <1>1, <2>1, <2>2
    <2>5. p[i] = bars[i] /\ p[i - 1] = bars[i - 1]
      BY <1>1, <2>2, <2>4 DEF Begins
    <2>6. SessionSigmas(p, i) = SessionSigmas(bars, i)
      BY <1>1, <2>2, SameSigmas
    <2>7. \A b : at(b) # {} =>
             BenchmarkMove(b, date) = [ret |-> b[Min(at(b))].close - b[Min(at(b)) - 1].close,
                                       sigmas |-> SessionSigmas(b, Min(at(b)))]
      BY DEF BenchmarkMove
    <2>. HIDE DEF at
    <2>. QED  BY <1>2, <1>4, <2>3, <2>5, <2>6, <2>7 DEF p, bars
  <1>. QED  BY <1>3, <1>4

LEMMA SameStep ==
    ASSUME NEW early, NEW late, NEW end \in Int, MarketUntil(early, late, end),
           NEW date \in Int, date <= end, NEW symbols, NEW context
    PROVE  StepOn(early, symbols, ReplayDays(early, symbols, date), date, context)
             = StepOn(late, symbols, ReplayDays(late, symbols, date), date, context)
  <1> DEFINE days == ReplayDays(late, symbols, date)
  <1>1. /\ ReplayDays(early, symbols, date) = days
        /\ \A s \in DOMAIN days : days[s] \subseteq Days(late, s, date)
    BY SameReplayDays
  <1>. HIDE DEF days
  <1>2. ReplayItems(early, symbols, days) = ReplayItems(late, symbols, days)
    BY <1>1, SameItems
  <1>3. ReplayMembers(early, symbols, days, date) = ReplayMembers(late, symbols, days, date)
    BY SameReplayMembers
  <1>4. BenchmarkMove(SeriesOf(early, BENCHMARK), date)
          = BenchmarkMove(SeriesOf(late, BENCHMARK), date)
    BY SameBenchmarkMove
  <1>5. StepOn(early, symbols, days, date, context) = StepOn(late, symbols, days, date, context)
    BY <1>2, <1>3, <1>4 DEF StepOn
  <1>. QED  BY <1>1, <1>5 DEF days

-----------------------------------------------------------------------------
\* A series never runs ahead of the day, and what is stored is what it says.
SeriesKept ==
    /\ today \in Nat /\ closed \in BOOLEAN
    /\ \A s \in DOMAIN series : /\ Chronological(series[s])
                                /\ \A b \in Range(series[s]) :
                                      b.date <= today /\ (~closed => b.date < today)
    /\ computed = ComputeAndPersist(Market)

LEMMA BarAdded ==
    ASSUME NEW bars, Chronological(bars), NEW b, b.date \in Int,
           \A x \in Range(bars) : x.date < b.date
    PROVE  /\ Chronological(bars \o <<b>>)
           /\ Range(bars \o <<b>>) = Range(bars) \cup {b}
  <1> DEFINE n == Len(bars)
             all == bars \o <<b>>
             S == Range(bars) \cup {b}
  <1>1. bars \in Seq(Range(bars)) /\ n \in Nat /\ DOMAIN bars = 1..n
    BY DEF Chronological
  <1>2. bars \in Seq(S) /\ <<b>> \in Seq(S)
    BY <1>1
  <1>3. all \in Seq(S) /\ Len(all) = n + 1 /\ DOMAIN all = 1..(n + 1)
    BY <1>1, <1>2
  <1>4. (\A i \in 1..n : all[i] = bars[i]) /\ all[n + 1] = b
    BY <1>1, <1>2
  <1>. HIDE DEF all
  <1>5. Range(all) = S
    BY <1>1, <1>3, <1>4 DEF Range
  <1>6. \A i \in DOMAIN all : all[i].date \in Int
    BY <1>1, <1>3, <1>4 DEF Chronological
  <1>7. \A i \in 1..n : bars[i].date < b.date
    BY <1>1 DEF Range
  <1>8. \A i, j \in DOMAIN all : i < j => all[i].date < all[j].date
    <2>. SUFFICES ASSUME NEW i \in 1..(n + 1), NEW j \in 1..(n + 1), i < j
                  PROVE  all[i].date < all[j].date
      BY <1>3
    <2>1. CASE j = n + 1
      BY <1>1, <1>4, <1>7, <2>1
    <2>2. CASE j # n + 1
      BY <1>1, <1>4, <2>2 DEF Chronological
    <2>. QED  BY <2>1, <2>2
  <1>. QED  BY <1>3, <1>5, <1>6, <1>8 DEF Chronological, all

LEMMA SeriesAreKept == Spec => []SeriesKept
  <1>1. Init => SeriesKept
    <2>. SUFFICES ASSUME Init PROVE SeriesKept
      OBVIOUS
    <2>1. today = FirstDay /\ closed = FALSE /\ series = HISTORY /\ FirstDay \in Nat
      BY EngineAssumption DEF Init
    <2>2. computed = ComputeAndPersist(Market)
      BY DEF Init, Market
    <2>3. \A s \in DOMAIN HISTORY : /\ Chronological(HISTORY[s])
                                    /\ \A b \in Range(HISTORY[s]) : b.date < FirstDay
      BY EngineAssumption
    <2>4. \A s \in DOMAIN HISTORY : \A b \in Range(HISTORY[s]) : b.date \in Int
      BY <2>3 DEF Chronological, Range
    <2>5. \A s \in DOMAIN HISTORY : \A b \in Range(HISTORY[s]) :
             b.date <= FirstDay /\ b.date < FirstDay
      BY <2>1, <2>3, <2>4
    <2>. QED  BY <2>1, <2>2, <2>3, <2>5 DEF SeriesKept
  <1>2. SeriesKept /\ [Next]_vars => SeriesKept'
    <2>. SUFFICES ASSUME SeriesKept, [Next]_vars PROVE SeriesKept'
      OBVIOUS
    <2>0. \A s \in DOMAIN series : \A b \in Range(series[s]) : b.date \in Int
      BY DEF SeriesKept, Chronological, Range
    <2>1. CASE UNCHANGED vars
      BY <2>1 DEF SeriesKept, vars, Market
    <2>2. CASE NextMorning
      <3>1. /\ today \in Nat /\ today' = today + 1 /\ closed' = FALSE
            /\ series' = series /\ computed' = computed
        BY <2>2 DEF SeriesKept, NextMorning
      <3>2. \A s \in DOMAIN series : \A b \in Range(series[s]) :
               b.date <= today /\ b.date \in Int
        BY <2>0 DEF SeriesKept
      <3>3. \A s \in DOMAIN series : \A b \in Range(series[s]) :
               b.date <= today + 1 /\ b.date < today + 1
        BY <3>1, <3>2
      <3>4. computed' = ComputeAndPersist(Market)'
        BY <3>1 DEF SeriesKept, Market
      <3>5. \A s \in DOMAIN series' : /\ Chronological(series'[s])
                                       /\ \A b \in Range(series'[s]) :
                                             b.date <= today' /\ b.date < today'
        BY <3>1, <3>3 DEF SeriesKept
      <3>6. today' \in Nat
        BY <3>1
      <3>7. closed' \in BOOLEAN
        BY <3>1, Zenon
      <3>. QED  BY <3>4, <3>5, <3>6, <3>7 DEF SeriesKept
    <2>3. ASSUME NEW move \in Moves, SessionCloses(move) PROVE SeriesKept'
      <3>1. /\ ~closed /\ closed' = TRUE /\ today' = today /\ today \in Nat
            /\ series' = [s \in DOMAIN series |-> series[s] \o Bar(s, move)]
        BY <2>3 DEF SessionCloses, SeriesKept
      <3>2. computed' = ComputeAndPersist(Market)'
        BY <2>3 DEF SessionCloses, Market
      <3>3. ASSUME NEW s \in DOMAIN series
            PROVE  /\ Chronological(series'[s])
                   /\ \A b \in Range(series'[s]) : b.date <= today
        <4>1. /\ Chronological(series[s]) /\ series'[s] = series[s] \o Bar(s, move)
              /\ \A b \in Range(series[s]) : b.date < today
              /\ \A b \in Range(series[s]) : b.date \in Int
          BY <2>0, <3>1 DEF SeriesKept
        <4>4. \A b \in Range(series[s]) : b.date <= today
          BY <3>1, <4>1
        <4>2. CASE Bar(s, move) = <<>>
          <5>1. series'[s] = series[s]
            BY <4>1, <4>2 DEF Chronological
          <5>. QED  BY <4>1, <4>4, <5>1
        <4>3. CASE Bar(s, move) # <<>>
          <5>1. PICK b : Bar(s, move) = <<b>> /\ b.date = today
            BY <4>3 DEF Bar
          <5>2. b.date \in Int /\ b.date <= today /\ \A x \in Range(series[s]) : x.date < b.date
            BY <3>1, <4>1, <5>1
          <5>3. /\ Chronological(series[s] \o <<b>>)
                /\ Range(series[s] \o <<b>>) = Range(series[s]) \cup {b}
            BY <4>1, <5>2, BarAdded
          <5>. QED  BY <4>1, <4>4, <5>1, <5>2, <5>3
        <4>. QED  BY <4>2, <4>3
      <3>. QED  BY <3>1, <3>2, <3>3 DEF SeriesKept
    <2>. QED  BY <2>1, <2>2, <2>3 DEF Next
  <1>. QED  BY <1>1, <1>2, PTL DEF Spec

\* What is loaded of the stored market, up to a day.
LEMMA LoadedIs ==
    ASSUME SeriesKept, NEW end \in Int
    PROVE  /\ \A s : /\ SeriesOf(Loaded(Market, end), s) = Upto(SeriesOf(Market, s), end)
                     /\ Chronological(SeriesOf(Market, s))
           /\ Loaded(Market, end).sector = Market.sector /\ Loaded(Market, end).etf = Market.etf
  <1>1. /\ Market.series = series
        /\ Loaded(Market, end).series = [s \in DOMAIN series |-> Upto(series[s], end)]
        /\ Loaded(Market, end).sector = Market.sector /\ Loaded(Market, end).etf = Market.etf
    BY DEF Market, MarketOf, Loaded
  <1>2. Chronological(<<>>)
    BY DEF Chronological
  <1>3. Upto(<<>>, end) = <<>>
    <2>1. PICK n \in 0..Len(<<>>) : Begins(Upto(<<>>, end), <<>>, n)
      BY <1>2, UptoIs
    <2>2. n = 0 /\ Upto(<<>>, end) \in Seq(Range(<<>>)) /\ Len(Upto(<<>>, end)) = 0
      BY <2>1 DEF Begins
    <2>. QED  BY <2>2
  <1>4. ASSUME NEW s
        PROVE  /\ SeriesOf(Loaded(Market, end), s) = Upto(SeriesOf(Market, s), end)
               /\ Chronological(SeriesOf(Market, s))
    <2>1. CASE s \in DOMAIN series
      BY <1>1, <2>1 DEF SeriesOf, SeriesKept
    <2>2. CASE s \notin DOMAIN series
      BY <1>1, <1>2, <1>3, <2>2 DEF SeriesOf
    <2>. QED  BY <2>1, <2>2
  <1>. QED  BY <1>1, <1>4

LEMMA LoadedUntil ==
    ASSUME SeriesKept, NEW end \in Int
    PROVE  MarketUntil(Loaded(Market, end), Market, end)
  BY LoadedIs DEF MarketUntil

\* All there is, is what there is until today.
LEMMA AllIsUptoToday ==
    ASSUME SeriesKept, NEW s
    PROVE  SeriesOf(Loaded(Market, today), s) = SeriesOf(Market, s)
  <1> DEFINE bars == SeriesOf(Market, s)
  <1>1. today \in Int
    BY DEF SeriesKept
  <1>2. Chronological(bars) /\ SeriesOf(Loaded(Market, today), s) = Upto(bars, today)
    BY <1>1, LoadedIs
  <1>3. \A b \in Range(bars) : b.date <= today
    <2>1. CASE s \in DOMAIN series
      BY <2>1 DEF SeriesOf, SeriesKept, Market, MarketOf
    <2>2. CASE s \notin DOMAIN series
      BY <2>2 DEF SeriesOf, Market, MarketOf, Range
    <2>. QED  BY <2>1, <2>2
  <1>. HIDE DEF bars
  <1>4. PICK n \in 0..Len(bars) :
           /\ Begins(Upto(bars, today), bars, n)
           /\ \A i \in 1..Len(bars) : bars[i].date <= today <=> i <= n
    BY <1>1, <1>2, UptoIs
  <1>5. bars \in Seq(Range(bars)) /\ Len(bars) \in Nat
    BY <1>2 DEF Chronological
  <1>6. n = Len(bars)
    <2>1. ASSUME Len(bars) # 0 PROVE Len(bars) <= n
      <3>1. Len(bars) \in 1..Len(bars) /\ bars[Len(bars)] \in Range(bars)
        BY <1>5, <2>1 DEF Range
      <3>. QED  BY <1>3, <1>4, <3>1
    <2>. QED  BY <1>4, <1>5, <2>1
  <1>7. Upto(bars, today) = bars
    BY <1>4, <1>5, <1>6, SameSequence DEF Begins
  <1>. QED  BY <1>2, <1>7 DEF bars

-----------------------------------------------------------------------------
(* What nothing is made of                                                 *)

LEMMA NothingKept == ASSUME NEW s PROVE Kept(s, {}) = <<>>
  <1> DEFINE P == {k \in DOMAIN s : s[k] \in {}}
  <1>1. P = {}
    OBVIOUS
  <1>2. Cardinality({}) = 0
    BY FS_EmptySet
  <1>3. DOMAIN Ascending(P) = {}
    BY <1>1, <1>2, TableIs DEF Ascending
  <1>4. Kept(s, {}) = [i \in DOMAIN Ascending(P) |-> s[Ascending(P)[i]]]
    BY TableIs DEF Kept, Field
  <1>. HIDE DEF P
  <1>. QED  BY <1>3, <1>4

LEMMA NothingKnown ==
    ASSUME NEW symbols, NEW of, \A s \in DOMAIN of : of[s] = {}
    PROVE  Known(symbols, of) = <<>>
  <1>1. {s \in DOMAIN of : of[s] # {}} = {}
    OBVIOUS
  <1>2. Known(symbols, of) = Field(<<>>, LAMBDA s : CHOOSE x \in of[s] : TRUE)
    BY <1>1, NothingKept DEF Known
  <1>. QED  BY <1>2, TableIs DEF Field

LEMMA NothingSurfaced == Surfaced(<<>>) = <<>>
  <1> DEFINE kept == Kept(<<>>, {i \in Range(<<>>) : i.severity \in SURFACED})
  <1>1. {i \in Range(<<>>) : i.severity \in SURFACED} = {}
    BY DEF Range
  <1>2. kept = <<>>
    BY <1>1, NothingKept
  <1>. HIDE DEF kept
  <1>3. DOMAIN ByScore(kept) = {}
    BY <1>2, TableIs DEF ByScore
  <1> DEFINE ranked == ByScore(kept)
             Card(k) ==
                 With([rank |-> k,
                       framing |-> FrameForPosition(
                          [intent |-> ranked[k].intent, returnPct |-> ranked[k].stats.returnPct,
                           sigmas |-> OrZero(ranked[k].stats.sigmas),
                           peakFromNow |-> OrZero({p.fromNow : p \in ranked[k].stats.peak})])],
                      ranked[k])
  <1>4. Surfaced(<<>>) = [k \in DOMAIN ByScore(kept) |-> Card(k)]
    BY DEF Surfaced, kept
  <1>. HIDE DEF Card, ranked
  <1>. QED  BY <1>3, <1>4

-----------------------------------------------------------------------------
(* The desk                                                                *)

LEMMA DeskRunsTheEngine == DeskSpec => Spec
  <1>1. DeskInit => Init
    BY DEF DeskInit
  <1>2. [DeskNext]_deskVars => [Next]_vars
    <2>. SUFFICES ASSUME DeskNext \/ UNCHANGED deskVars PROVE Next \/ UNCHANGED vars
      OBVIOUS
    <2>1. CASE UNCHANGED deskVars
      BY <2>1 DEF deskVars
    <2>2. ASSUME NEW move \in Moves, Recomputed(move) PROVE Next
      BY <2>2 DEF Recomputed, Next
    <2>3. CASE Morning
      BY <2>3 DEF Morning, Next
    <2>4. CASE MarkAllSeen \/ StampPasses
      BY <2>4 DEF MarkAllSeen, StampPasses
    <2>5. ASSUME NEW i \in CardsShown, MarkCardSeen(i) \/ SnoozeCard(i) PROVE UNCHANGED vars
      BY <2>5 DEF MarkCardSeen, SnoozeCard
    <2>. QED  BY <2>1, <2>2, <2>3, <2>4, <2>5 DEF DeskNext
  <1>. QED  BY <1>1, <1>2, PTL DEF DeskSpec, Spec

LEMMA SeriesAreMarket ==
    ASSUME SeriesKept, NEW s
    PROVE  /\ Chronological(SeriesOf(Market, s))
           /\ \A i \in DOMAIN SeriesOf(Market, s) :
                 /\ SeriesOf(Market, s)[i].date \in Int
                 /\ SeriesOf(Market, s)[i].date <= today
                 /\ ~closed => SeriesOf(Market, s)[i].date < today
  <1>1. Chronological(SeriesOf(Market, s))
    BY LoadedIs
  <1>2. \A b \in Range(SeriesOf(Market, s)) : b.date <= today /\ (~closed => b.date < today)
    <2>1. CASE s \in DOMAIN series
      BY <2>1 DEF SeriesOf, SeriesKept, Market, MarketOf
    <2>2. CASE s \notin DOMAIN series
      BY <2>2 DEF SeriesOf, Market, MarketOf, Range
    <2>. QED  BY <2>1, <2>2
  <1>. QED  BY <1>1, <1>2 DEF Chronological, Range

\* Nothing stored is of a session to come.
LEMMA EventsArePast ==
    ASSUME SeriesKept, NEW e \in computed.events
    PROVE  e.date \in Int /\ e.date <= LatestSession
  <1>1. today \in Int
    BY DEF SeriesKept
  <1>2. MarketUntil(Loaded(Market, today), Market, today)
    BY <1>1, LoadedUntil
  <1>3. PICK s \in Instruments : \E d \in DaysOf(Market, s) : \E x \in Range(d.events) :
           e = Linked(EventRow(s, x), ComputeAndPersist(Market).themes)
    BY StoredEvents DEF SeriesKept
  <1>4. PICK d \in DaysOf(Market, s) : \E x \in Range(d.events) :
           e = Linked(EventRow(s, x), ComputeAndPersist(Market).themes)
    BY <1>3
  <1>5. PICK i \in DOMAIN SeriesOf(Market, s) : Dated(d, SeriesOf(Market, s)[i].date)
    BY <1>1, <1>2, DaysOfUntil
  <1>6. e.date = SeriesOf(Market, s)[i].date
    BY <1>4, <1>5, RowsAreDated
  <1>7. e.date \in Int /\ e.date <= today /\ (~closed => e.date < today)
    BY <1>6, SeriesAreMarket
  <1>8. CASE closed
    BY <1>7, <1>8 DEF LatestSession
  <1>9. CASE ~closed
    BY <1>1, <1>7, <1>9 DEF LatestSession
  <1>. QED  BY <1>8, <1>9

\* Without visible events there is nothing on the brief.
LEMMA NothingVisible ==
    ASSUME NEW desk, NEW symbols, NEW since
    PROVE  BriefFrom(desk, symbols, since, {}).quiet = TRUE
  <1> DEFINE visible == {e \in {} : e.fingerprint \notin desk.seen \cup desk.snoozed}
             items == Items(desk.rows, desk.market, visible, desk.cursor, desk.ranks, desk.sessions)
             snoozed == {e.symbol : e \in {e \in {} : e.fingerprint \in desk.snoozed}}
                        \ {e.symbol : e \in visible}
             shown == Shown(Surfaced(items), desk.attentionBudget)
             cards == Cards(desk.rows, items, Surfaced(items), shown, snoozed)
  <1>1. visible = {}
    OBVIOUS
  <1>2. items = <<>>
    <2>1. {row \in Range(desk.rows) : \E e \in visible : e.symbol = row.symbol} = {}
      BY <1>1
    <2>2. Kept(desk.rows, {row \in Range(desk.rows) : \E e \in visible : e.symbol = row.symbol}) = <<>>
      BY <2>1, NothingKept
    <2>. HIDE DEF visible
    <2> DEFINE worth == Kept(desk.rows, {row \in Range(desk.rows) :
                                           \E e \in visible : e.symbol = row.symbol})
               ItemOf(row) == Item(row, EventsOf(visible, row.symbol),
                                 StatsOf(desk.market, row.symbol, desk.cursor[row.symbol],
                                         desk.sessions),
                                 desk.market.sector[row.symbol], desk.ranks[row.symbol])
    <2>3. items = [k \in DOMAIN worth |-> ItemOf(worth[k])]
      BY TableIs DEF Items, Field
    <2>4. DOMAIN worth = {}
      BY <2>2
    <2>. HIDE DEF worth, ItemOf, items
    <2>. QED  BY <2>3, <2>4
  <1>3. Surfaced(items) = <<>>
    BY <1>2, NothingSurfaced
  <1>4. \E x : BriefFrom(desk, symbols, since, {}) = With(cards, x)
    BY DEF BriefFrom
  <1>5. "quiet" \in DOMAIN cards /\ cards.quiet = (Surfaced(items) = <<>>)
    BY DEF Cards
  <1>. HIDE DEF cards, items
  <1>. QED  BY <1>3, <1>4, <1>5, WithFirst

-----------------------------------------------------------------------------
(* Severities                                                              *)

AllSeverities == {"NOISE", "INFO", "WATCH", "IMPORTANT", "CRITICAL"}

LEMMA RankIs ==
    /\ \A i \in 1..5 : Severities[i] \in AllSeverities /\ Rank(Severities[i]) = i
    /\ \A s \in AllSeverities : Rank(s) \in 1..5 /\ Severities[Rank(s)] = s
    /\ Rank("WATCH") = 3 /\ Rank("IMPORTANT") = 4
    /\ \A i \in 3..5 : Severities[i] \in SURFACED
  <1>1. /\ Severities[1] = "NOISE" /\ Severities[2] = "INFO" /\ Severities[3] = "WATCH"
        /\ Severities[4] = "IMPORTANT" /\ Severities[5] = "CRITICAL"
    BY DEF Severities
  <1>2. \A i \in 1..5 : i = 1 \/ i = 2 \/ i = 3 \/ i = 4 \/ i = 5
    OBVIOUS
  <1>3. \A i, j \in 1..5 : Severities[i] = Severities[j] => i = j
    BY <1>1, <1>2
  <1>4. \A i \in 1..5 : Severities[i] \in AllSeverities
    BY <1>1, <1>2 DEF AllSeverities
  <1>5. \A i \in 1..5 : Rank(Severities[i]) = i
    <2>. SUFFICES ASSUME NEW i \in 1..5 PROVE Rank(Severities[i]) = i
      OBVIOUS
    <2>1. Rank(Severities[i]) \in 1..5 /\ Severities[Rank(Severities[i])] = Severities[i]
      BY DEF Rank
    <2>. QED  BY <1>3, <2>1
  <1>6. \A s \in AllSeverities : \E i \in 1..5 : Severities[i] = s
    BY <1>1 DEF AllSeverities
  <1>7. \A s \in AllSeverities : Rank(s) \in 1..5 /\ Severities[Rank(s)] = s
    BY <1>5, <1>6
  <1>8. Rank("WATCH") = 3 /\ Rank("IMPORTANT") = 4
    BY <1>1, <1>5
  <1>9. \A i \in 3..5 : Severities[i] \in SURFACED
    BY <1>1 DEF SURFACED
  <1>. QED  BY <1>4, <1>5, <1>7, <1>8, <1>9

LEMMA RankAtLeast ==
    ASSUME NEW s \in AllSeverities, NEW floor \in AllSeverities
    PROVE  /\ AtLeast(s, floor) \in AllSeverities
           /\ Rank(AtLeast(s, floor)) >= Rank(floor)
  <1> DEFINE a == Rank(s)
             b == Rank(floor)
  <1>1. a \in 1..5 /\ b \in 1..5
    BY RankIs
  <1>2. AtLeast(s, floor) = Severities[Max({a, b})]
    BY DEF AtLeast
  <1>. HIDE DEF a, b
  <1>5. a \in Int /\ b \in Int
    BY <1>1
  <1>3. Max({a, b}) \in {a, b} /\ Max({a, b}) >= b
    BY <1>5, MaxOfTwo
  <1>4. Max({a, b}) \in 1..5
    BY <1>1, <1>3
  <1>. QED  BY <1>2, <1>3, <1>4, RankIs DEF b

LEMMA RankAtMost ==
    ASSUME NEW s \in AllSeverities, NEW cap \in AllSeverities
    PROVE  /\ AtMost(s, cap) \in AllSeverities
           /\ Rank(AtMost(s, cap)) \in {Rank(s), Rank(cap)}
  <1> DEFINE a == Rank(s)
             b == Rank(cap)
  <1>1. a \in 1..5 /\ b \in 1..5
    BY RankIs
  <1>2. AtMost(s, cap) = Severities[Min({a, b})]
    BY DEF AtMost
  <1>. HIDE DEF a, b
  <1>3. Min({a, b}) \in {a, b}
    BY <1>1, MinOfTwo
  <1>4. Min({a, b}) \in 1..5
    BY <1>1, <1>3
  <1>. QED  BY <1>2, <1>3, <1>4, RankIs DEF a, b

LEMMA SeverityForIs == ASSUME NEW score PROVE SeverityFor(score) \in AllSeverities
  <1> DEFINE S == {i \in 1..4 : score >= SEVERITY_BANDS[i]}
  <1>1. IsFiniteSet(1..4) /\ Cardinality(1..4) = 4
    <2>1. 1 \in Int /\ 4 \in Int /\ ~(1 > 4) /\ 4 - 1 + 1 = 4
      OBVIOUS
    <2>. QED  BY <2>1, FS_Interval, Zenon
  <1>2. S \subseteq 1..4
    OBVIOUS
  <1>. HIDE DEF S
  <1>3. IsFiniteSet(S) /\ Cardinality(S) \in Nat /\ Cardinality(S) <= 4
    BY <1>1, <1>2, FS_Subset, FS_CardinalityType
  <1>4. 1 + Cardinality(S) \in 1..5
    BY <1>3
  <1>. QED  BY <1>4, RankIs DEF SeverityFor, S

LEMMA HardRulesAre ==
    ASSUME NEW s \in AllSeverities, NEW ctx, NEW detector
    PROVE  /\ HardRules(s, ctx, detector) \in AllSeverities
           /\ detector = "earnings_upcoming" /\ ctx.age = 0
                 => Rank(HardRules(s, ctx, detector)) >= 3
  <1> DEFINE floored == IF detector = "earnings_upcoming" /\ ctx.age <= 0
                        THEN AtLeast(s, "WATCH") ELSE s
             agreed == IF ctx.confirmed THEN floored ELSE AtMost(floored, "IMPORTANT")
             rule == IF ctx.confidence < 60 THEN AtMost(agreed, "WATCH") ELSE agreed
             loud == detector = "earnings_upcoming" /\ ctx.age = 0
  <1>1. "WATCH" \in AllSeverities /\ "IMPORTANT" \in AllSeverities
    BY DEF AllSeverities
  <1>2. floored \in AllSeverities /\ (loud => Rank(floored) >= 3)
    <2>1. AtLeast(s, "WATCH") \in AllSeverities /\ Rank(AtLeast(s, "WATCH")) >= 3
      BY <1>1, RankAtLeast, RankIs
    <2>. QED  BY <2>1
  <1>3. rule = HardRules(s, ctx, detector)
    BY DEF HardRules
  <1>. HIDE DEF floored
  <1>4. agreed \in AllSeverities /\ (loud => Rank(agreed) >= 3)
    <2>1. /\ AtMost(floored, "IMPORTANT") \in AllSeverities
          /\ Rank(AtMost(floored, "IMPORTANT")) \in {Rank(floored), 4}
      BY <1>1, <1>2, RankAtMost, RankIs
    <2>2. Rank(floored) \in 1..5
      BY <1>2, RankIs
    <2>. QED  BY <1>2, <2>1, <2>2
  <1>. HIDE DEF agreed
  <1>5. rule \in AllSeverities /\ (loud => Rank(rule) >= 3)
    <2>1. /\ AtMost(agreed, "WATCH") \in AllSeverities
          /\ Rank(AtMost(agreed, "WATCH")) \in {Rank(agreed), 3}
      BY <1>1, <1>4, RankAtMost, RankIs
    <2>2. Rank(agreed) \in 1..5
      BY <1>4, RankIs
    <2>. QED  BY <1>4, <2>1, <2>2
  <1>. QED  BY <1>3, <1>5

LEMMA ScoreSignalsSeverity ==
    ASSUME NEW signals, NEW ctx, NEW detector
    PROVE  /\ "severity" \in DOMAIN ScoreSignals(signals, ctx, detector)
           /\ ScoreSignals(signals, ctx, detector).severity \in AllSeverities
           /\ signals # <<>> => \E score : ScoreSignals(signals, ctx, detector).severity
                                             = HardRules(SeverityFor(score), ctx, detector)
  <1>1. CASE signals = <<>>
    BY <1>1 DEF ScoreSignals, AllSeverities
  <1>2. CASE signals # <<>>
    <2>1. \E score, points, factors :
             ScoreSignals(signals, ctx, detector) = Scored(score, points, factors, ctx, detector)
      BY <1>2 DEF ScoreSignals
    <2>2. PICK score :
             /\ "severity" \in DOMAIN ScoreSignals(signals, ctx, detector)
             /\ ScoreSignals(signals, ctx, detector).severity
                  = HardRules(SeverityFor(score), ctx, detector)
      BY <2>1 DEF Scored
    <2>. QED  BY <2>2, SeverityForIs, HardRulesAre
  <1>. QED  BY <1>1, <1>2

LEMMA ScoreEventSeverity ==
    ASSUME NEW c, NEW ctx
    PROVE  /\ ScoreEvent(c, ctx).severity \in AllSeverities
           /\ c.detector = "earnings_upcoming" /\ ctx.age = 0
                 => Rank(ScoreEvent(c, ctx).severity) >= 3
  <1>1. ScoreEvent(c, ctx).severity = ScoreSignals(<<c.signal>>, ctx, c.detector).severity
    BY DEF ScoreEvent
  <1>2. PICK score : ScoreSignals(<<c.signal>>, ctx, c.detector).severity
                       = HardRules(SeverityFor(score), ctx, c.detector)
    <2> DEFINE signals == <<c.signal>>
    <2>1. signals # <<>>
      OBVIOUS
    <2>. HIDE DEF signals
    <2>2. \E score : ScoreSignals(signals, ctx, c.detector).severity
                       = HardRules(SeverityFor(score), ctx, c.detector)
      BY <2>1, ScoreSignalsSeverity
    <2>. QED  BY <2>2 DEF signals
  <1>. QED  BY <1>1, <1>2, SeverityForIs, HardRulesAre

\* A day is at least as loud as any of its events.
LEMMA DaySeverity ==
    ASSUME NEW candidates, NEW ctx, NEW c \in Range(candidates)
    PROVE  /\ ScoreInstrumentDay(candidates, ctx).severity \in AllSeverities
           /\ Rank(ScoreInstrumentDay(candidates, ctx).severity) >= Rank(ScoreEvent(c, ctx).severity)
  <1> DEFINE day == ScoreSignals(SignalsOf(candidates), ctx, "none")
             R == {Rank(day.severity)}
                  \cup {Rank(ScoreEvent(x, ctx).severity) : x \in Range(candidates)}
  <1>1. "severity" \in DOMAIN day /\ day.severity \in AllSeverities
    BY ScoreSignalsSeverity
  <1>2. R \in SUBSET (0..5) /\ R # {} /\ \A r \in R : r \in 1..5
    <2>1. Rank(day.severity) \in 1..5
      BY <1>1, RankIs
    <2>2. \A x \in Range(candidates) : Rank(ScoreEvent(x, ctx).severity) \in 1..5
      BY ScoreEventSeverity, RankIs
    <2>. QED  BY <2>1, <2>2
  <1>3. Max(R) \in R /\ \A r \in R : r <= Max(R)
    BY <1>2, MaxExists
  <1>4. ScoreInstrumentDay(candidates, ctx).severity = Severities[Max(R)]
    BY <1>1 DEF ScoreInstrumentDay
  <1>5. Rank(ScoreEvent(c, ctx).severity) \in R
    OBVIOUS
  <1>. HIDE DEF R
  <1>. QED  BY <1>2, <1>3, <1>4, <1>5, RankIs

-----------------------------------------------------------------------------
(* A session without a report ahead                                        *)

Given(f, bars, sessions, next, date) ==
    [features |-> f, bars |-> bars, sessions |-> sessions, nextEarnings |-> next, asOf |-> date]

\* A report counts for one detector only.
LEMMA ReportsCountOnce ==
    ASSUME NEW f, NEW bars, NEW sessions, NEW next, NEW date,
           EarningsUpcoming(Given(f, bars, sessions, next, date)) = {}
    PROVE  RunDetectors(Given(f, bars, sessions, next, date))
             = RunDetectors(Given(f, bars, sessions, {}, date))
  <1> DEFINE in == Given(f, bars, sessions, next, date)
             out == Given(f, bars, sessions, {}, date)
  <1>1. /\ in.features = out.features /\ in.bars = out.bars /\ in.sessions = out.sessions
        /\ out.nextEarnings = {}
    BY DEF Given
  <1>2. EarningsUpcoming(out) = {}
    <2> DEFINE hours == {HalfHoursUntil(out.asOf, r) : r \in out.nextEarnings}
                        \cap 0..(2 * T.earningsHours)
               shares == {100 - (100 * h) \div (2 * T.earningsHours) : h \in hours}
    <2>1. hours = {}
      BY <1>1
    <2>. HIDE DEF hours
    <2>2. shares = {}
      BY <2>1
    <2>. HIDE DEF shares
    <2>3. EarningsUpcoming(out) = {Candidate("earnings_upcoming", out.features, 0, p, "event",
                                             Max({35, p})) : p \in shares}
      BY DEF EarningsUpcoming, shares, hours
    <2>. QED  BY <2>2, <2>3
  <1>. HIDE DEF in, out
  <1>3. MoveSinceLastSeen(in) = MoveSinceLastSeen(out)
    BY <1>1 DEF MoveSinceLastSeen
  <1>4. VolumeSpike(in) = VolumeSpike(out)
    BY <1>1 DEF VolumeSpike
  <1>5. SectorDivergence(in) = SectorDivergence(out)
    BY <1>1 DEF SectorDivergence
  <1>6. RangeBreak(in) = RangeBreak(out)
    BY <1>1 DEF RangeBreak
  <1>7. VolRegimeShift(in) = VolRegimeShift(out)
    BY <1>1 DEF VolRegimeShift
  <1>8. CorrelationBreak(in) = CorrelationBreak(out)
    BY <1>1 DEF CorrelationBreak
  <1>9. QuietRegime(in) = QuietRegime(out)
    BY <1>1 DEF QuietRegime
  <1>10. EarningsUpcoming(in) = EarningsUpcoming(out)
    BY <1>2 DEF in
  <1>11. RunDetectors(in) = RunDetectors(out)
    BY <1>3, <1>4, <1>5, <1>6, <1>7, <1>8, <1>9, <1>10 DEF RunDetectors
  <1>. QED  BY <1>11 DEF in, out

\* A report that is near makes an event, and the event makes the day loud.
LEMMA ReportsAreLoud ==
    ASSUME NEW in, EarningsUpcoming(in) # {}, NEW f,
           NEW day \in ScoredDay(f, RunDetectors(in), DayContext(f, RunDetectors(in)))
    PROVE  /\ day.severity \in SURFACED
           /\ \E x \in Range(day.events) : x.detector = "earnings_upcoming"
  <1> DEFINE answers == <<MoveSinceLastSeen(in), VolumeSpike(in), SectorDivergence(in),
                          RangeBreak(in), VolRegimeShift(in), EarningsUpcoming(in),
                          CorrelationBreak(in), QuietRegime(in)>>
             fired == RunDetectors(in)
             ctx == DayContext(f, fired)
  <1>1. answers \in Seq(Range(answers)) /\ 6 \in DOMAIN answers /\ answers[6] = EarningsUpcoming(in)
    BY DEF Range
  <1>2. fired = Fired(answers)
    BY DEF RunDetectors
  <1>. HIDE DEF answers, fired
  <1>3. PICK c \in Range(fired) : c \in EarningsUpcoming(in)
    BY <1>1, <1>2, FiredIs
  <1>4. c.detector = "earnings_upcoming"
    <2>1. PICK p : c = Candidate("earnings_upcoming", in.features, 0, p, "event", Max({35, p}))
      BY <1>3 DEF EarningsUpcoming
    <2>. QED  BY <2>1 DEF Candidate
  <1>5. ctx.age = 0
    BY DEF DayContext, DefaultScoringContext
  <1>. HIDE DEF ctx
  <1>6. day.severity = ScoreInstrumentDay(fired, ctx).severity /\ day.events = ScoredEvents(fired, ctx)
    BY DEF ScoredDay, fired, ctx
  <1>7. Rank(day.severity) >= 3 /\ day.severity \in AllSeverities
    <2>1. Rank(ScoreEvent(c, ctx).severity) >= 3 /\ ScoreEvent(c, ctx).severity \in AllSeverities
      BY <1>4, <1>5, ScoreEventSeverity
    <2>2. /\ day.severity \in AllSeverities
          /\ Rank(day.severity) >= Rank(ScoreEvent(c, ctx).severity)
      BY <1>3, <1>6, DaySeverity
    <2>3. Rank(day.severity) \in 1..5 /\ Rank(ScoreEvent(c, ctx).severity) \in 1..5
      BY <2>1, <2>2, RankIs
    <2>. QED  BY <2>1, <2>2, <2>3
  <1>8. day.severity \in SURFACED
    <2>1. Rank(day.severity) \in 3..5 /\ Severities[Rank(day.severity)] = day.severity
      BY <1>7, RankIs
    <2>. QED  BY <2>1, RankIs
  <1>9. ScoreEvent(c, ctx) \in Range(day.events)
    <2>1. ScoredEvents(fired, ctx) = [i \in DOMAIN fired |-> ScoreEvent(fired[i], ctx)]
      BY TableIs DEF ScoredEvents, Field
    <2>. QED  BY <1>3, <1>6, <2>1 DEF Range
  <1>. QED  BY <1>4, <1>8, <1>9, ScoreEventIs

LEMMA AnalysedAre ==
    ASSUME NEW bars, NEW date, NEW benchmark, NEW sector, NEW next, NEW sessions, NEW day
    PROVE  day \in AnalysedDay(bars, date, benchmark, sector, next, sessions) <=>
             \E f \in ComputeFeatures(bars, benchmark, sector) :
                LET in == Given(f, bars, sessions, next, date)
                IN  /\ RunDetectors(in) # <<>>
                    /\ day \in ScoredDay(f, RunDetectors(in), DayContext(f, RunDetectors(in)))
  <1> DEFINE in(f) == Given(f, bars, sessions, next, date)
             D(f, fired) == ScoredDay(f, fired, DayContext(f, fired))
             F == ComputeFeatures(bars, benchmark, sector)
  <1>1. AnalysedDay(bars, date, benchmark, sector, next, sessions)
          = UNION {UNION {D(f, fired) : fired \in {RunDetectors(in(f))} \ {<<>>}} : f \in F}
    BY DEF AnalysedDay, Given
  <1>. HIDE DEF in, D, F
  <1>2. day \in AnalysedDay(bars, date, benchmark, sector, next, sessions) <=>
          \E f \in F : RunDetectors(in(f)) # <<>> /\ day \in D(f, RunDetectors(in(f)))
    BY <1>1
  <1>. QED  BY <1>2 DEF in, D, F

\* Without an event that tells of a report the day is what it would be without reports.
LEMMA QuietReports ==
    ASSUME NEW bars, NEW date, NEW benchmark, NEW sector, NEW next, NEW sessions,
           \A day \in AnalysedDay(bars, date, benchmark, sector, next, sessions) :
              day.severity \in SURFACED =>
                 \A x \in Range(day.events) : x.detector # "earnings_upcoming"
    PROVE  AnalysedDay(bars, date, benchmark, sector, next, sessions)
             = AnalysedDay(bars, date, benchmark, sector, {}, sessions)
  <1> DEFINE in(f) == Given(f, bars, sessions, next, date)
             out(f) == Given(f, bars, sessions, {}, date)
             D(f, i) == ScoredDay(f, RunDetectors(i), DayContext(f, RunDetectors(i)))
             F == ComputeFeatures(bars, benchmark, sector)
  <1>1. ASSUME NEW f \in F PROVE EarningsUpcoming(in(f)) = {}
    <2>. SUFFICES ASSUME EarningsUpcoming(in(f)) # {} PROVE FALSE
      OBVIOUS
    <2>1. \E day : day \in D(f, in(f))
      BY DEF ScoredDay
    <2>2. PICK day \in D(f, in(f)) : TRUE
      BY <2>1
    <2>3. /\ day.severity \in SURFACED
          /\ \E x \in Range(day.events) : x.detector = "earnings_upcoming"
      BY ReportsAreLoud
    <2>4. RunDetectors(in(f)) # <<>>
      <3>1. PICK x \in Range(ScoredEvents(RunDetectors(in(f)), DayContext(f, RunDetectors(in(f))))) : TRUE
        BY <2>3, ScoredDayIs
      <3>2. PICK c \in Range(RunDetectors(in(f))) : TRUE
        BY <3>1, ScoredEventsIs
      <3>. QED  BY <3>2 DEF Range
    <2>5. day \in AnalysedDay(bars, date, benchmark, sector, next, sessions)
      BY <2>4, AnalysedAre
    <2>. QED  BY <2>3, <2>5
  <1>2. \A f \in F : RunDetectors(in(f)) = RunDetectors(out(f))
    BY <1>1, ReportsCountOnce
  <1>3. ASSUME NEW day
        PROVE  day \in AnalysedDay(bars, date, benchmark, sector, next, sessions) <=>
                 day \in AnalysedDay(bars, date, benchmark, sector, {}, sessions)
    <2>1. day \in AnalysedDay(bars, date, benchmark, sector, next, sessions) <=>
            \E f \in F : RunDetectors(in(f)) # <<>> /\ day \in D(f, in(f))
      BY AnalysedAre
    <2>2. day \in AnalysedDay(bars, date, benchmark, sector, {}, sessions) <=>
            \E f \in F : RunDetectors(out(f)) # <<>> /\ day \in D(f, out(f))
      BY AnalysedAre
    <2>. HIDE DEF in, out, F
    <2>. QED  BY <1>2, <2>1, <2>2
  <1>. QED  BY <1>3

LEMMA CountOf == ASSUME NEW n \in Nat PROVE IsFiniteSet(1..n) /\ Cardinality(1..n) = n
  <1>1. 1 \in Int /\ n \in Int
    OBVIOUS
  <1>2. IsFiniteSet(1..n)
    BY <1>1, FS_Interval, Zenon
  <1>3. CASE 1 > n
    <2>1. n = 0 /\ 1..n = {}
      BY <1>3
    <2>. QED  BY <1>2, <2>1, FS_EmptySet, Zenon
  <1>4. CASE ~(1 > n)
    <2>1. n - 1 + 1 = n
      OBVIOUS
    <2>. QED  BY <1>1, <1>2, <1>4, <2>1, FS_Interval, Zenon
  <1>. QED  BY <1>3, <1>4

-----------------------------------------------------------------------------
(* The replay beside the live product                                      *)

LEMMA WholePointsAreNumbers == ASSUME NEW score PROVE WholePoints(score) \in Int
  <1> DEFINE S == {p \in 0..100 : p = 0 \/ 1000 * p <= score + 500}
  <1>1. S \in SUBSET (0..100) /\ 0 \in S
    OBVIOUS
  <1>. HIDE DEF S
  <1>2. S # {} /\ 100 \in Nat
    BY <1>1
  <1>3. Max(S) \in 0..100
    BY <1>1, <1>2, MaxExists
  <1>. QED  BY <1>3 DEF WholePoints, S

\* Sorting by score keeps what there is.
LEMMA ByScoreKeeps ==
    ASSUME NEW S, NEW items \in Seq(S), \A i \in DOMAIN items : items[i].attentionScore \in Int
    PROVE  /\ ByScore(items) \in Seq(S) /\ Len(ByScore(items)) = Len(items)
           /\ Range(ByScore(items)) \subseteq Range(items)
  <1> DEFINE n == Len(items)
             D == DOMAIN items
             R == {p \in D \X D : p[1] \in Ahead(items, p[2])}
             At(k) == CHOOSE j \in D : Cardinality(Ahead(items, j)) = k - 1
  <1>1. n \in Nat /\ D = 1..n
    OBVIOUS
  <1>2. IsFiniteSet(D) /\ Cardinality(D) = n
    BY <1>1, CountOf
  <1>3. \A i, j \in D : i \in Ahead(items, j) <=>
           \/ items[i].attentionScore > items[j].attentionScore
           \/ items[i].attentionScore = items[j].attentionScore /\ i < j
    BY DEF Ahead
  <1>4. \A j \in D : Ahead(items, j) = Below(D, R, j)
    BY DEF Below, Ahead
  <1>5. \A i, j \in D : <<i, j>> \in R <=> i \in Ahead(items, j)
    OBVIOUS
  <1>6. \A i \in D : i \in Int
    BY <1>1
  <1>. HIDE DEF R, D
  <1>7. StrictOrder(D, R)
    <2>1. \A i \in D : <<i, i>> \notin R
      BY <1>3, <1>5, <1>6 DEF D
    <2>2. \A i, j \in D : i # j => <<i, j>> \in R \/ <<j, i>> \in R
      BY <1>3, <1>5, <1>6 DEF D
    <2>3. \A i, j, k \in D : <<i, j>> \in R /\ <<j, k>> \in R => <<i, k>> \in R
      BY <1>3, <1>5, <1>6 DEF D
    <2>. QED  BY <2>1, <2>2, <2>3 DEF StrictOrder
  <1>8. ASSUME NEW k \in 1..n PROVE At(k) \in D
    <2>1. k - 1 \in 0..(Cardinality(D) - 1)
      BY <1>1, <1>2
    <2>2. \E j \in D : Cardinality(Below(D, R, j)) = k - 1
      BY <1>2, <1>7, <2>1, PlaceIsTaken
    <2>3. \E j \in D : Cardinality(Ahead(items, j)) = k - 1
      BY <1>4, <2>2
    <2>. QED  BY <2>3
  <1>9. ByScore(items) = [k \in 1..n |-> items[At(k)]]
    BY <1>1, TableIs DEF ByScore, D
  <1>. HIDE DEF At
  <1>10. \A k \in 1..n : items[At(k)] \in S /\ items[At(k)] \in Range(items)
    BY <1>8 DEF D, Range
  <1>11. ByScore(items) \in Seq(S) /\ Len(ByScore(items)) = n
    BY <1>1, <1>9, <1>10
  <1>12. Range(ByScore(items)) \subseteq Range(items)
    BY <1>9, <1>10 DEF Range
  <1>. QED  BY <1>11, <1>12

LEMMA UniverseIs == Range(Universe) = Instruments /\ Universe \in Seq(Instruments)
  <1>1. SYMBOLS \in Seq(Range(SYMBOLS))
    BY EngineAssumption
  <1>2. /\ Universe \in Seq(Range(SYMBOLS) \cap Instruments)
        /\ Range(Universe) = Range(SYMBOLS) \cap Instruments
    BY <1>1, KeptIs DEF Universe
  <1>3. Range(SYMBOLS) \cap Instruments = Instruments
    BY DEF Instruments
  <1>. QED  BY <1>2, <1>3

LEMMA BenchmarkIsNoInstrument == BENCHMARK \notin Instruments
  <1>1. LISTING.sector[BENCHMARK] = ""
    BY EngineAssumption
  <1>. QED  BY <1>1 DEF Instruments

\* The last day is not passed.
InTime == today \in 0..LastDay

LEMMA DaysAreInTime == Spec => []InTime
  <1>1. Init => InTime
    <2>1. FirstDay \in Nat /\ LastDay \in Nat /\ FirstDay <= LastDay
      BY EngineAssumption
    <2>. QED  BY <2>1 DEF Init, InTime
  <1>2. InTime /\ [Next]_vars => InTime'
    <2>1. LastDay \in Nat
      BY EngineAssumption
    <2>. QED  BY <2>1 DEF InTime, Next, NextMorning, SessionCloses, vars
  <1>. QED  BY <1>1, <1>2, PTL DEF Spec

\* Of what is stored of today, nothing tells of a report.
NoReportAhead == \A e \in computed.events : e.date = today => e.detector # "earnings_upcoming"

LEMMA SameDayInReplay ==
    ASSUME SeriesKept, InTime, NoReportAhead, NEW s \in Instruments
    PROVE  Days(Market, s, today) = {d \in DaysOf(Market, s) : d.date = today}
  <1> DEFINE bars == SeriesOf(Market, s)
             live == InputOf(Market, s, ReportsOf(s))
             past == InputOf(Market, s, <<>>)
             h == W["history"]
             w(i) == WindowEndingAt(bars, i, W["feature"])
             b == ProxyWindow(live.benchmark, today, W["feature"])
             p == ProxyWindow(live.sector, today, W["feature"])
             next == NextEarnings(ReportsOf(s), today)
  <1>1. today \in Int /\ today \in 0..LastDay /\ LastDay \in Nat
    <2>1. LastDay \in Nat
      BY EngineAssumption
    <2>. QED  BY <2>1 DEF SeriesKept, InTime
  <1>2. Chronological(bars) /\ Len(bars) \in Nat
    BY LoadedIs, <1>1 DEF Chronological
  <1>3. h \in Nat /\ h > 1
    BY WindowsAssumption DEF WindowNames
  <1>4. /\ live.bars = bars /\ past.bars = bars /\ live.benchmark = past.benchmark
        /\ live.sector = past.sector /\ live.earnings = ReportsOf(s) /\ past.earnings = <<>>
    BY DEF InputOf
  <1>5. NextEarnings(<<>>, today) = {}
    <2>1. {k \in DOMAIN <<>> : <<>>[k].date >= today} = {}
      OBVIOUS
    <2>. QED  BY <2>1 DEF NextEarnings
  <1>6. \A d : d \in DaysOf(Market, s) <=>
           \E i \in h..Len(bars) : bars[i].date \in 0..LastDay /\ d \in RunDay(live, i, {1})
    BY <1>4, PipelineIs DEF DaysOf
  <1>7. \A d : d \in Days(Market, s, today) <=>
           \E i \in h..Len(bars) : bars[i].date \in today..today /\ d \in RunDay(past, i, {1})
    BY <1>4, PipelineIs DEF Days
  <1>8. ASSUME NEW i \in h..Len(bars), NEW d \in RunDay(live, i, {1})
        PROVE  Dated(d, bars[i].date)
    <2>1. i \in 1..Len(bars)
      BY <1>2, <1>3
    <2>. QED  BY <1>2, <1>4, <2>1, RunDayIsDated
  <1>9. ASSUME NEW i \in h..Len(bars), bars[i].date = today
        PROVE  RunDay(live, i, {1}) = RunDay(past, i, {1})
    <2>1. RunDay(live, i, {1}) = AnalysedDay(w(i), today, b, p, next, {1})
      BY <1>4, <1>9 DEF RunDay
    <2>2. RunDay(past, i, {1}) = AnalysedDay(w(i), today, b, p, {}, {1})
      BY <1>4, <1>5, <1>9 DEF RunDay
    <2>3. ASSUME NEW d \in RunDay(live, i, {1}), d.severity \in SURFACED, NEW x \in Range(d.events)
          PROVE  x.detector # "earnings_upcoming"
      <3>1. d \in DaysOf(Market, s)
        BY <1>1, <1>6, <1>9
      <3>2. Dated(d, today)
        BY <1>8, <1>9
      <3>3. d.severity \in PERSISTED_DAYS
        BY <2>3 DEF SURFACED, PERSISTED_DAYS
      <3> DEFINE e == Linked(EventRow(s, x), ComputeAndPersist(Market).themes)
      <3>4. e \in computed.events
        BY <3>1, <3>3, StoredEvents DEF SeriesKept
      <3>5. e.date = today /\ e.detector = x.detector
        BY <3>2, RowsAreDated
      <3>. QED  BY <3>4, <3>5 DEF NoReportAhead
    <2>. HIDE DEF live, past, b, p, next, w
    <2>. QED  BY <2>1, <2>2, <2>3, QuietReports
  <1>10. ASSUME NEW d
         PROVE  d \in Days(Market, s, today) <=> d \in DaysOf(Market, s) /\ d.date = today
    <2>1. \A i \in h..Len(bars) : bars[i].date \in Int
      BY <1>2, <1>3 DEF Chronological
    <2>. HIDE DEF live, past, bars, h
    <2>2. ASSUME d \in Days(Market, s, today) PROVE d \in DaysOf(Market, s) /\ d.date = today
      <3>1. PICK i \in h..Len(bars) : bars[i].date \in today..today /\ d \in RunDay(past, i, {1})
        BY <1>7, <2>2
      <3>2. bars[i].date = today
        BY <1>1, <2>1, <3>1
      <3>3. d \in RunDay(live, i, {1})
        BY <1>9, <3>1, <3>2
      <3>. QED  BY <1>1, <1>6, <1>8, <3>2, <3>3 DEF Dated
    <2>3. ASSUME d \in DaysOf(Market, s), d.date = today PROVE d \in Days(Market, s, today)
      <3>1. PICK i \in h..Len(bars) : d \in RunDay(live, i, {1})
        BY <1>6, <2>3
      <3>2. bars[i].date = today
        BY <1>8, <2>3, <3>1 DEF Dated
      <3>3. d \in RunDay(past, i, {1}) /\ bars[i].date \in today..today
        BY <1>1, <1>9, <3>1, <3>2
      <3>. QED  BY <1>7, <3>3
    <2>. QED  BY <2>2, <2>3
  <1>. QED  BY <1>10

\* Something fired on every day that is kept.
LEMMA AnalysedDaysHaveEvents ==
    ASSUME NEW bars, NEW date, NEW benchmark, NEW sector, NEW next, NEW sessions,
           NEW d \in AnalysedDay(bars, date, benchmark, sector, next, sessions)
    PROVE  Range(d.events) # {}
  <1>3. PICK f \in ComputeFeatures(bars, benchmark, sector) :
           LET in == Given(f, bars, sessions, next, date)
           IN  /\ RunDetectors(in) # <<>>
               /\ d \in ScoredDay(f, RunDetectors(in), DayContext(f, RunDetectors(in)))
    BY AnalysedAre
  <1>4. PICK in : /\ RunDetectors(in) # <<>>
                  /\ d.events = ScoredEvents(RunDetectors(in), DayContext(f, RunDetectors(in)))
    BY <1>3, ScoredDayIs
  <1> DEFINE answers == <<MoveSinceLastSeen(in), VolumeSpike(in), SectorDivergence(in),
                          RangeBreak(in), VolRegimeShift(in), EarningsUpcoming(in),
                          CorrelationBreak(in), QuietRegime(in)>>
             ctx == DayContext(f, RunDetectors(in))
  <1>5. answers \in Seq(Range(answers))
    BY DEF Range
  <1>6. RunDetectors(in) = Fired(answers)
    BY DEF RunDetectors
  <1>. HIDE DEF answers, ctx
  <1>7. PICK c \in Range(RunDetectors(in)) : TRUE
    BY <1>4, <1>5, <1>6, FiredIs
  <1>8. ScoredEvents(RunDetectors(in), ctx)
          = [k \in DOMAIN RunDetectors(in) |-> ScoreEvent(RunDetectors(in)[k], ctx)]
    BY TableIs DEF ScoredEvents, Field
  <1>9. ScoreEvent(c, ctx) \in Range(d.events)
    BY <1>4, <1>7, <1>8 DEF Range, ctx
  <1>. QED  BY <1>9

LEMMA DaysHaveEvents ==
    ASSUME NEW market, NEW s, NEW d \in DaysOf(market, s)
    PROVE  Range(d.events) # {}
  <1> DEFINE input == InputOf(market, s, ReportsOf(s))
  <1>1. PICK i : d \in RunDay(input, i, {1})
    BY PipelineIs DEF DaysOf
  <1>. QED  BY <1>1, AnalysedDaysHaveEvents DEF RunDay

LEMMA TodaysReplay ==
    ASSUME SeriesKept
    PROVE  ReplayOf(today, FirstDay - 2, today)
             = StepOn(Market, Universe, ReplayDays(Market, Universe, today), today,
                      ContextOf(CONTEXT, FirstDay - 2, today))
  <1>1. today \in Int
    BY DEF SeriesKept
  <1>2. MarketUntil(Loaded(Market, today), Market, today)
    BY <1>1, LoadedUntil
  <1>. QED  BY <1>1, <1>2, SameStep DEF ReplayOf, ReplayStep

\* The days of the names worth a card: the replay's are those of the live product.
LoudToday(s) == {d \in DaysOf(Market, s) : d.date = today /\ d.severity \in SURFACED}

LEMMA TodaysDays ==
    ASSUME SeriesKept, InTime, NoReportAhead
    PROVE  ReplayDays(Market, Universe, today) = [s \in Instruments |-> LoudToday(s)]
  <1>1. Range(Universe) \ {BENCHMARK} = Instruments
    BY UniverseIs, BenchmarkIsNoInstrument
  <1>2. \A s \in Instruments :
           {d \in Days(Market, s, today) : d.severity \in SURFACED} = LoudToday(s)
    BY SameDayInReplay DEF LoudToday
  <1>3. ReplayDays(Market, Universe, today)
          = [s \in Instruments |-> {d \in Days(Market, s, today) : d.severity \in SURFACED}]
    BY <1>1, TableIs DEF ReplayDays
  <1>. QED  BY <1>2, <1>3

\* The replay's own copy of the regression makes the members that compute makes.
LEMMA SameMembersInReplay ==
    ASSUME SeriesKept, NEW s \in Instruments
    PROVE  UNION {ThemeMemberFor(Market, s, i, d) :
                  i \in IndexOf(SeriesOf(Market, s), today), d \in LoudToday(s)}
             = ThemeMembers(EntriesOn(Market, DaysTable(Market), s, today),
                            AsProxy(SeriesOf(Market, BENCHMARK)))
  <1> DEFINE bars == SeriesOf(Market, s)
             b == AsProxy(SeriesOf(Market, BENCHMARK))
             from == W["beta"] + 2
             E(d) == [symbol |-> s, sector |-> Market.sector[s], bars |-> bars, day |-> d]
             replayed == UNION {ThemeMemberFor(Market, s, i, d) :
                                i \in IndexOf(bars, today), d \in LoudToday(s)}
             stored == ThemeMembers(EntriesOn(Market, DaysTable(Market), s, today), b)
  <1>1. Market.sector[s] # ""
    BY DEF Instruments, Market, MarketOf
  <1>2. /\ Len(bars) \in Nat /\ DOMAIN bars = 1..Len(bars)
    BY SeriesAreMarket DEF Chronological
  <1>3. from \in Nat /\ from > 1
    <2>1. W["beta"] \in Nat
      BY WindowsAssumption DEF WindowNames
    <2>. QED  BY <2>1
  <1>4. \A i : i \in IndexOf(bars, today) /\ ~(i < from)
                 <=> i \in from..Len(bars) /\ bars[i].date = today
    <2>1. \A i : i \in IndexOf(bars, today) <=> i \in 1..Len(bars) /\ bars[i].date = today
      BY <1>2 DEF IndexOf
    <2>. HIDE DEF from, bars
    <2>. QED  BY <1>2, <1>3, <2>1
  <1>5. \A i, d, x : x \in ThemeMemberFor(Market, s, i, d) <=>
           ~(i < from) /\ \E reg \in RegressWindow(bars, b, i) : x = Member(E(d), i, reg)
    <2> DEFINE Rec(i, d, reg) ==
                 [symbol |-> s, sector |-> Market.sector[s], day |-> d.date, score |-> d.score,
                  direction |-> IF bars[i].close < bars[i - 1].close THEN -1 ELSE 1,
                  ret |-> 100 * (bars[i].close - bars[i - 1].close),
                  residuals |-> reg.residuals, explained |-> reg.explained,
                  moveSigmas |-> SessionSigmas(bars, i)]
    <2>1. \A i, d, reg : Member(E(d), i, reg) = Rec(i, d, reg)
      BY DEF Member
    <2>2. \A i, d : ThemeMemberFor(Market, s, i, d)
             = IF Market.sector[s] = "" \/ i < from THEN {}
               ELSE {Rec(i, d, reg) : reg \in RegressWindow(bars, b, i)}
      BY DEF ThemeMemberFor
    <2>. HIDE DEF from, bars, b, E, Rec
    <2>3. ASSUME NEW i, NEW d, NEW x
          PROVE  x \in ThemeMemberFor(Market, s, i, d) <=>
                   ~(i < from) /\ \E reg \in RegressWindow(bars, b, i) : x = Member(E(d), i, reg)
      <3>1. CASE i < from
        <4>1. ThemeMemberFor(Market, s, i, d) = {}
          BY <2>2, <3>1
        <4>. QED  BY <3>1, <4>1
      <3>2. CASE ~(i < from)
        <4>1. ThemeMemberFor(Market, s, i, d) = {Rec(i, d, reg) : reg \in RegressWindow(bars, b, i)}
          BY <1>1, <2>2, <3>2
        <4>2. x \in ThemeMemberFor(Market, s, i, d) <=>
                \E reg \in RegressWindow(bars, b, i) : x = Rec(i, d, reg)
          BY <4>1
        <4>. QED  BY <2>1, <3>2, <4>2
      <3>. QED  BY <3>1, <3>2
    <2>. QED  BY <2>3
  <1>6. \A d : d \in LoudToday(s) <=>
           d \in DaysTable(Market)[s] /\ d.date = today /\ d.severity \in SURFACED
    BY DEF LoudToday, DaysTable
  <1>7. \A x : x \in stored <=>
           \E d \in DaysTable(Market)[s] :
              /\ d.date = today /\ d.severity \in SURFACED
              /\ \E i \in from..Len(bars) :
                    /\ bars[i].date = d.date
                    /\ \E reg \in RegressWindow(bars, b, i) : x = Member(E(d), i, reg)
    <2>1. \A x : x \in stored <=>
             \E d \in DaysTable(Market)[s] :
                /\ d.date = today /\ d.severity \in SURFACED
                /\ MemberAt(bars, b, s, Market.sector[s], d, x)
      BY MembersAre
    <2>2. \A d, x : MemberAt(bars, b, s, Market.sector[s], d, x) <=>
             \E i \in from..Len(bars) :
                /\ bars[i].date = d.date
                /\ \E reg \in RegressWindow(bars, b, i) : x = Member(E(d), i, reg)
      BY DEF MemberAt
    <2>. HIDE DEF from, bars, b, E, stored
    <2>. QED  BY <2>1, <2>2
  <1>8. \A x : x \in replayed <=>
           \E i \in IndexOf(bars, today) : \E d \in LoudToday(s) :
              x \in ThemeMemberFor(Market, s, i, d)
    OBVIOUS
  <1>. HIDE DEF from, bars, b, E, replayed, stored
  <1>9. \A x : x \in replayed <=> x \in stored
    BY <1>4, <1>5, <1>6, <1>7, <1>8
  <1>. QED  BY <1>9 DEF replayed, stored, bars, b

LEMMA TodaysMembers ==
    ASSUME SeriesKept, InTime, NoReportAhead
    PROVE  ReplayMembers(Market, Universe, ReplayDays(Market, Universe, today), today)
             = MembersOn(Market, DaysTable(Market), today, AsProxy(SeriesOf(Market, BENCHMARK)))
  <1> DEFINE days == ReplayDays(Market, Universe, today)
             R(s) == UNION {ThemeMemberFor(Market, s, i, d) :
                            i \in IndexOf(SeriesOf(Market, s), today), d \in days[s]}
             M(s) == ThemeMembers(EntriesOn(Market, DaysTable(Market), s, today),
                                  AsProxy(SeriesOf(Market, BENCHMARK)))
  <1>1. DOMAIN days = Instruments /\ \A s \in Instruments : days[s] = LoudToday(s)
    BY TodaysDays
  <1>. HIDE DEF days
  <1>2. \A s \in Instruments : R(s) = M(s)
    BY <1>1, SameMembersInReplay
  <1>3. [s \in DOMAIN days |-> R(s)] = [s \in Instruments |-> M(s)]
    <2>. HIDE DEF R, M
    <2>. QED  BY <1>1, <1>2
  <1>. QED  BY <1>3 DEF ReplayMembers, MembersOn, days

\* The themes that are stored of today.
LEMMA TodaysThemes ==
    ASSUME SeriesKept
    PROVE  {t \in computed.themes : t.day = today} = ThemesOn(Market, DaysTable(Market), today)
  <1> DEFINE themes(date) == ThemesOn(Market, DaysTable(Market), date)
             b == AsProxy(SeriesOf(Market, BENCHMARK))
             Of(s) == ThemeMembers(EntriesOn(Market, DaysTable(Market), s, today), b)
  <1>1. \A t : t \in computed.themes <=>
           \E s \in Instruments : \E d \in DaysOf(Market, s) : t \in themes(d.date)
    BY StoredThemes DEF SeriesKept
  <1>2. \A date : \A t \in themes(date) : t.day = date
    BY ThemesAreDated
  <1>3. ASSUME \A s \in Instruments : \A d \in DaysOf(Market, s) : d.date # today
        PROVE  themes(today) = {}
    <2>1. \A s \in Instruments : EntriesOn(Market, DaysTable(Market), s, today) = {}
      BY <1>3 DEF EntriesOn, DaysTable
    <2>2. \A s \in Instruments : Of(s) = {}
      BY <2>1 DEF ThemeMembers
    <2>3. MembersOn(Market, DaysTable(Market), today, b)
            = Known(Universe, [s \in Instruments |-> Of(s)])
      BY TableIs DEF MembersOn
    <2>. HIDE DEF Of
    <2>4. MembersOn(Market, DaysTable(Market), today, b) = <<>>
      BY <2>2, <2>3, NothingKnown
    <2>5. Len(<<>>) < MIN_THEME_MEMBERS
      BY DEF MIN_THEME_MEMBERS
    <2>6. ThemesAmong(<<>>, today) = <<>>
      BY <2>5 DEF ThemesAmong
    <2>7. Range(<<>>) = {}
      BY DEF Range
    <2>. QED  BY <2>4, <2>6, <2>7 DEF ThemesOn, b
  <1>. HIDE DEF themes
  <1>. QED  BY <1>1, <1>2, <1>3 DEF themes

\* Leaving out a theme's wording and dating it go together.
LEMMA PlainIsDated ==
    ASSUME NEW date, NEW x PROVE With([day |-> date], Plain(x)) = Plain(With([day |-> date], x))
  <1> DEFINE d == [day |-> date]
             P(y) == [k \in DOMAIN y |-> IF k = "characteristics" THEN {} ELSE y[k]]
             V(y) == [k \in DOMAIN d \cup DOMAIN y |-> IF k \in DOMAIN d THEN d[k] ELSE y[k]]
  <1>1. \A y : Plain(y) = P(y)
    BY DEF Plain
  <1>2. \A y : With(d, y) = V(y)
    BY TableIs DEF With
  <1>3. DOMAIN d = {"day"}
    OBVIOUS
  <1>4. \A y : DOMAIN P(y) = DOMAIN y /\ DOMAIN V(y) = {"day"} \cup DOMAIN y
    BY <1>3
  <1>5. \A k \in {"day"} \cup DOMAIN x : V(P(x))[k] = P(V(x))[k]
    BY <1>3
  <1>6. V(P(x)) = P(V(x))
    <2>. HIDE DEF d
    <2>. QED  BY <1>4, <1>5
  <1>7. With(d, P(x)) = V(P(x)) /\ Plain(V(x)) = P(V(x)) /\ Plain(x) = P(x) /\ With(d, x) = V(x)
    <2>. HIDE DEF d, P, V
    <2>. QED  BY <1>1, <1>2
  <1>. HIDE DEF P, V
  <1>. QED  BY <1>6, <1>7

LEMMA TodaysThemesAreReplayed ==
    ASSUME SeriesKept, InTime, NoReportAhead
    PROVE  {With([day |-> today], Plain(x)) : x \in Range(ReplayOf(today, FirstDay - 2, today).themes)}
             = {Plain(t) : t \in {t \in computed.themes : t.day = today}}
  <1> DEFINE themes == ThemesAmong(MembersOn(Market, DaysTable(Market), today,
                                             AsProxy(SeriesOf(Market, BENCHMARK))), today)
  <1>1. ReplayOf(today, FirstDay - 2, today).themes = themes
    <2>1. \A m, symbols, days, date, context :
             StepOn(m, symbols, days, date, context).themes
               = ThemesAmong(ReplayMembers(m, symbols, days, date), date)
      BY DEF StepOn, StepWith, Screen
    <2>. QED  BY <2>1, TodaysReplay, TodaysMembers
  <1>2. {t \in computed.themes : t.day = today} = {With([day |-> today], x) : x \in Range(themes)}
    BY TodaysThemes DEF ThemesOn
  <1>. HIDE DEF themes
  <1>. QED  BY <1>1, <1>2, PlainIsDated

\* What is on the screen is of the days worth a card.
LEMMA ItemsAreReplayed ==
    ASSUME NEW market, NEW symbols, NEW days, NEW date, NEW context,
           \E U : symbols \in Seq(U),
           NEW item \in Range(StepOn(market, symbols, days, date, context).items)
    PROVE  \E s \in DOMAIN days : \E d \in days[s] : item = ReplayItem(market, s, d)
  <1> DEFINE of == [s \in DOMAIN days |-> {ReplayItem(market, s, d) : d \in days[s]}]
             known == Known(symbols, of)
             all == ReplayItems(market, symbols, days)
             n == Min({5, Len(all)})
  <1>1. all = ByScore(known)
    BY TableIs DEF ReplayItems
  <1>0. PICK U : symbols \in Seq(U)
    OBVIOUS
  <1> DEFINE some == {s \in DOMAIN of : of[s] # {}}
             shown == {CHOOSE y \in of[s] : TRUE : s \in Range(symbols) \cap some}
  <1>10. (\E n_1 \in Nat : DOMAIN known = 1..n_1) /\ Range(known) = shown
    <2>. HIDE DEF of
    <2>. QED  BY <1>0, KnownIs
  <1>2. PICK k \in Nat : DOMAIN known = 1..k
    <2>. HIDE DEF known
    <2>. QED  BY <1>10
  <1>3. ASSUME NEW x \in Range(known)
        PROVE  \E s \in DOMAIN days : \E d \in days[s] : x = ReplayItem(market, s, d)
    <2>1. PICK s \in DOMAIN of : of[s] # {} /\ x = (CHOOSE y \in of[s] : TRUE)
      <3>. HIDE DEF of, known
      <3>1. x \in shown
        BY <1>10, <1>3
      <3>. HIDE DEF some
      <3>2. PICK s \in Range(symbols) \cap some : x = (CHOOSE y \in of[s] : TRUE)
        BY <3>1
      <3>. USE DEF some
      <3>. QED  BY <3>2
    <2>2. x \in of[s]
      <3>. HIDE DEF of
      <3>. QED  BY <2>1
    <2>. QED  BY <2>2
  <1>4. \A x \in Range(known) : x.attentionScore \in Int
    <2>1. \A s, d : ReplayItem(market, s, d).attentionScore \in Int
      BY WholePointsAreNumbers DEF ReplayItem
    <2>. QED  BY <1>3, <2>1
  <1>5. known \in Seq(Range(known))
    <2>1. \A t : known = [i \in 1..k |-> known[i]]
      BY <1>2, TableIs DEF Known, Field
    <2>2. \A i \in 1..k : known[i] \in Range(known)
      BY <1>2 DEF Range
    <2>. HIDE DEF known
    <2>. QED  BY <1>2, <2>1, <2>2
  <1>. HIDE DEF known, of
  <1>6. /\ all \in Seq(Range(known)) /\ Len(all) \in Nat
        /\ Range(all) \subseteq Range(known)
    <2>1. \A i \in DOMAIN known : known[i].attentionScore \in Int
      BY <1>4 DEF Range
    <2>. QED  BY <1>1, <1>5, <2>1, ByScoreKeeps
  <1>7. StepOn(market, symbols, days, date, context).items = SubSeq(all, 1, n)
    BY DEF StepOn, StepWith, Screen
  <1>. HIDE DEF all
  <1>8. n \in Int /\ n <= Len(all)
    <2>1. 5 \in Int /\ Len(all) \in Int
      BY <1>6
    <2>2. n \in {5, Len(all)} /\ n <= Len(all)
      BY <2>1 DEF Min
    <2>. QED  BY <2>1, <2>2
  <1>. HIDE DEF n
  <1>9. Range(SubSeq(all, 1, n)) \subseteq Range(all)
    BY <1>6, <1>8 DEF Range
  <1>. QED  BY <1>3, <1>6, <1>7, <1>9

(* For any market, windows and thresholds: on a session without a report    *)
(* ahead the replay of a window that ends today has the themes compute      *)
(* stored of today, and every name on its screen has an event there         *)
(* (themeMemberFor of scenarios.ts beside persistThemes of compute.ts).     *)
THEOREM ReplayTellsWhatIsStored == Spec => []ReplayTellsTheSameStory
  <1>1. ASSUME SeriesKept, InTime PROVE ReplayTellsTheSameStory
    <2>. SUFFICES ASSUME \A e \in {e \in computed.events : e.date = today} :
                            e.detector # "earnings_upcoming"
                  PROVE  \A step \in {ReplayOf(today, FirstDay - 2, today)} :
                            /\ {With([day |-> today], Plain(x)) : x \in Range(step.themes)}
                               = {Plain(t) : t \in {t \in computed.themes : t.day = today}}
                            /\ {i.symbol : i \in Range(step.items)} \subseteq
                                  {e.symbol : e \in {e \in computed.events : e.date = today}}
      BY DEF ReplayTellsTheSameStory, Latest
    <2>1. NoReportAhead
      BY DEF NoReportAhead
    <2>2. {With([day |-> today], Plain(x)) : x \in Range(ReplayOf(today, FirstDay - 2, today).themes)}
            = {Plain(t) : t \in {t \in computed.themes : t.day = today}}
      BY <1>1, <2>1, TodaysThemesAreReplayed
    <2>3. ASSUME NEW i \in Range(ReplayOf(today, FirstDay - 2, today).items)
          PROVE  \E e \in computed.events : e.date = today /\ e.symbol = i.symbol
      <3> DEFINE days == ReplayDays(Market, Universe, today)
      <3>1. DOMAIN days = Instruments /\ \A s \in Instruments : days[s] = LoudToday(s)
        BY <1>1, <2>1, TodaysDays
      <3>2. i \in Range(StepOn(Market, Universe, days, today,
                                ContextOf(CONTEXT, FirstDay - 2, today)).items)
        BY <1>1, <2>3, TodaysReplay
      <3>3. PICK s \in DOMAIN days : \E d \in days[s] : i = ReplayItem(Market, s, d)
        BY <3>2, UniverseIs, ItemsAreReplayed
      <3>4. PICK d \in LoudToday(s) : i = ReplayItem(Market, s, d)
        BY <3>1, <3>3
      <3>5. i.symbol = s
        BY <3>4 DEF ReplayItem
      <3>6. d \in DaysOf(Market, s) /\ d.date = today /\ d.severity \in PERSISTED_DAYS
        BY <3>4 DEF LoudToday, SURFACED, PERSISTED_DAYS
      <3>7. PICK x \in Range(d.events) : TRUE
        BY <3>6, DaysHaveEvents
      <3>8. Dated(d, today)
        <4>1. today \in Int
          BY <1>1 DEF SeriesKept
        <4>2. MarketUntil(Loaded(Market, today), Market, today)
          BY <1>1, <4>1, LoadedUntil
        <4>. QED  BY <3>6, <4>1, <4>2, DaysOfUntil DEF Dated
      <3> DEFINE e == Linked(EventRow(s, x), ComputeAndPersist(Market).themes)
      <3>9. e \in computed.events
        BY <1>1, <3>1, <3>3, <3>6, <3>7, StoredEvents DEF SeriesKept
      <3>10. e.date = today /\ e.symbol = s
        BY <3>7, <3>8, RowsAreDated
      <3>. QED  BY <3>5, <3>9, <3>10
    <2>. QED  BY <2>2, <2>3
  <1>. QED  BY <1>1, SeriesAreKept, DaysAreInTime, PTL

-----------------------------------------------------------------------------
(* Steps from a number, and sums                                           *)

\* Induction over the naturals, for a set: what is not in it would have a least.
LEMMA SetInduction ==
    ASSUME NEW S \in SUBSET Nat, 0 \in S, \A n \in S : n + 1 \in S
    PROVE  S = Nat
  <1>. SUFFICES ASSUME Nat \ S # {} PROVE FALSE
    OBVIOUS
  <1> DEFINE R == OpToRel(<, Nat)
             T1 == Nat \ S
  <1>1. IsWellFoundedOn(R, Nat)
    BY NatLessThanWellFounded
  <1>2. T1 \subseteq Nat /\ T1 # {}
    OBVIOUS
  <1>. HIDE DEF R, T1
  <1>3. PICK m \in T1 : \A n \in T1 : <<n, m>> \notin R
    BY <1>1, <1>2, WFMin
  <1>. USE DEF R, T1
  <1>4. \A n \in Nat \ S : ~(n < m)
    BY <1>3 DEF OpToRel
  <1>5. m # 0 /\ m - 1 \in Nat
    OBVIOUS
  <1>6. m - 1 \in S
    BY <1>4, <1>5
  <1>. QED  BY <1>5, <1>6

\* The recursion of Iterated defines what it says.
LEMMA IteratedIs ==
    ASSUME NEW step, NEW from
    PROVE  \A k \in Nat : Iterated(step, from, k)
                            = IF k = 0 THEN from ELSE step[k][Iterated(step, from, k - 1)]
  <1> DEFINE E(f, k) == IF k = 0 THEN from ELSE step[k][f[k - 1]]
             Reaches(f, n) == f = [k \in 0..n |-> E(f, k)]
             Reached == {n \in Nat : \E f : Reaches(f, n)}
             all == CHOOSE f : f = [k \in Nat |-> E(f, k)]
  <1>1. \A f, g : /\ E(f, 0) = E(g, 0)
                  /\ \A k \in Nat : f[k] = g[k] => E(f, k + 1) = E(g, k + 1)
    OBVIOUS
  <1>2. \A n : Iterated(step, from, n) = all[n]
    BY Zenon DEF Iterated
  <1>. HIDE DEF E
  <1>3. Reached = Nat
    <2>1. 0 \in Reached
      <3> DEFINE f == [k \in 0..0 |-> E(<<>>, 0)]
      <3>1. \A k \in 0..0 : E(f, k) = E(<<>>, 0)
        BY <1>1
      <3>2. Reaches(f, 0)
        BY <3>1
      <3>. QED  BY <3>2
    <2>2. ASSUME NEW n \in Reached PROVE n + 1 \in Reached
      <3>1. PICK f : Reaches(f, n)
        OBVIOUS
      <3> DEFINE g == [k \in 0..(n + 1) |-> IF k = n + 1 THEN E(f, k) ELSE f[k]]
      <3>2. \A k \in 0..n : f[k] = E(f, k) /\ g[k] = f[k]
        BY <3>1
      <3>3. \A k \in 0..(n + 1) : E(g, k) = E(f, k)
        <4>1. ASSUME NEW k \in 0..(n + 1), k # 0 PROVE E(g, k) = E(f, k)
          <5>1. k - 1 \in 0..n /\ k - 1 \in Nat /\ (k - 1) + 1 = k
            BY <4>1
          <5>2. g[k - 1] = f[k - 1]
            BY <5>1, <3>2
          <5>. HIDE DEF g
          <5>. QED  BY <5>1, <5>2, <1>1
        <4>. QED  BY <4>1, <1>1
      <3>4. \A k \in 0..(n + 1) : g[k] = E(g, k)
        BY <3>2, <3>3
      <3>5. Reaches(g, n + 1)
        BY <3>4
      <3>6. n \in Nat /\ n + 1 \in Nat
        OBVIOUS
      <3>. HIDE DEF g, Reaches
      <3>. QED  BY <3>5, <3>6
    <2>. QED  BY <2>1, <2>2, SetInduction
  <1>4. ASSUME NEW n \in Nat, NEW m \in Nat, n <= m, NEW f, NEW g, Reaches(f, n), Reaches(g, m)
        PROVE  \A k \in 0..n : f[k] = g[k]
    <2> DEFINE Same == {k \in Nat : k <= n => f[k] = g[k]}
    <2>0. \A k \in 0..n : f[k] = E(f, k) /\ g[k] = E(g, k)
      <3>1. \A k \in 0..n : f[k] = E(f, k)
        BY <1>4
      <3>2. \A k \in 0..m : g[k] = E(g, k)
        BY <1>4
      <3>. QED  BY <1>4, <3>1, <3>2
    <2>1. 0 \in Same
      BY <2>0, <1>1
    <2>2. ASSUME NEW k \in Same PROVE k + 1 \in Same
      BY <2>0, <1>1
    <2>3. Same = Nat
      <3>. HIDE DEF Same
      <3>1. Same \subseteq Nat
        BY DEF Same
      <3>. QED  BY <2>1, <2>2, <3>1, SetInduction
    <2>. QED  BY <2>3
  <1> DEFINE h == [n \in Nat |-> CHOOSE f : Reaches(f, n)]
             whole == [k \in Nat |-> h[k][k]]
  <1>5. \A n \in Nat : Reaches(h[n], n)
    <2>1. \A n \in Nat : \E f : Reaches(f, n)
      BY <1>3
    <2>. HIDE DEF Reaches
    <2>. QED  BY <2>1
  <1>6. \A k \in Nat : whole[k] = E(whole, k)
    <2>1. ASSUME NEW k \in Nat PROVE E(h[k], k) = E(whole, k)
      <3>1. CASE k = 0
        BY <3>1, <1>1
      <3>2. CASE k # 0
        <4>1. k - 1 \in Nat /\ k - 1 <= k /\ k - 1 \in 0..(k - 1) /\ (k - 1) + 1 = k
          BY <3>2
        <4>2. h[k - 1][k - 1] = h[k][k - 1]
          <5>. HIDE DEF Reaches, h
          <5>. QED  BY <4>1, <1>4, <1>5
        <4>3. whole[k - 1] = h[k][k - 1]
          BY <4>1, <4>2
        <4>. HIDE DEF whole, h
        <4>. QED  BY <4>1, <4>3, <1>1
      <3>. QED  BY <3>1, <3>2
    <2>2. ASSUME NEW k \in Nat PROVE h[k][k] = E(h[k], k)
      <3>1. k \in 0..k /\ Reaches(h[k], k)
        BY <1>5
      <3>. HIDE DEF h
      <3>. QED  BY <3>1
    <2>. QED  BY <2>1, <2>2
  <1>7. whole = [k \in Nat |-> E(whole, k)]
    <2> DEFINE w == [k \in Nat |-> E(whole, k)]
    <2>1. \A k \in Nat : whole[k] = w[k]
      BY <1>6
    <2>. QED  BY <2>1
  <1>8. all = [k \in Nat |-> E(all, k)]
    <2>. HIDE DEF whole
    <2>. QED  BY <1>7
  <1>9. \A k \in Nat : all[k] = E(all, k)
    <2>. HIDE DEF all
    <2>. QED  BY <1>8
  <1>. HIDE DEF all
  <1>10. \A k \in Nat : Iterated(step, from, k)
                          = IF k = 0 THEN from ELSE step[k][all[k - 1]]
    BY <1>2, <1>9 DEF E
  <1>. QED  BY <1>2, <1>10

LEMMA IteratedIsInt ==
    ASSUME NEW step, NEW from \in Int, NEW N \in Nat,
           \A k \in 1..N, r \in Int : step[k][r] \in Int
    PROVE  \A k \in 0..N : Iterated(step, from, k) \in Int
  <1> DEFINE S == {k \in Nat : k <= N => Iterated(step, from, k) \in Int}
  <1>1. 0 \in S
    BY IteratedIs
  <1>2. ASSUME NEW k \in S PROVE k + 1 \in S
    <2>0. k \in Nat /\ k + 1 \in Nat
      OBVIOUS
    <2>1. CASE k + 1 <= N
      <3>1. k + 1 \in 1..N /\ (k + 1) - 1 = k /\ k + 1 # 0
        <4>. HIDE DEF S
        <4>. QED  BY <2>0, <2>1
      <3>2. Iterated(step, from, k) \in Int
        BY <2>0, <2>1
      <3>3. Iterated(step, from, k + 1) = step[k + 1][Iterated(step, from, k)]
        BY <2>0, <3>1, IteratedIs
      <3>. QED  BY <3>1, <3>2, <3>3
    <2>2. CASE ~(k + 1 <= N)
      BY <2>0, <2>2
    <2>. QED  BY <2>1, <2>2
  <1>3. S = Nat
    <2>1. S \subseteq Nat
      OBVIOUS
    <2>. HIDE DEF S
    <2>. QED  BY <1>1, <1>2, <2>1, SetInduction
  <1>. QED  BY <1>3

LEMMA RootIsInt == ASSUME NEW n PROVE Root(n) \in Int
  <1> DEFINE step == [k \in DOMAIN BITS |-> [r \in Int |->
                 IF (r + BITS[k]) * (r + BITS[k]) <= n THEN r + BITS[k] ELSE r]]
  <1>1. DOMAIN BITS = 1..15 /\ Len(BITS) = 15 /\ \A k \in 1..15 : BITS[k] \in Int
    BY DEF BITS
  <1>2. \A k \in 1..15, r \in Int : step[k][r] \in Int
    <2>1. ASSUME NEW k \in 1..15, NEW r \in Int PROVE step[k][r] \in Int
      <3>1. BITS[k] \in Int /\ r + BITS[k] \in Int
        BY <1>1
      <3>2. step[k][r] \in {r + BITS[k], r}
        BY <1>1
      <3>. HIDE DEF step
      <3>. QED  BY <3>1, <3>2
    <2>. QED  BY <2>1
  <1>. HIDE DEF step
  <1>3. 15 \in Nat /\ 15 \in 0..15 /\ 0 \in Int
    OBVIOUS
  <1>4. Iterated(step, 0, 15) \in Int
    BY <1>2, <1>3, IteratedIsInt
  <1>. QED  BY <1>1, <1>4 DEF Root, step

\* The sum of the first k of a sequence.
Sum(xs, k) == Iterated([i \in DOMAIN xs |-> [sum \in Int |-> sum + xs[i]]], 0, k)

LEMMA SumIs ==
    ASSUME NEW xs \in Seq(Int)
    PROVE  /\ Total(xs) = Sum(xs, Len(xs))
           /\ Sum(xs, 0) = 0
           /\ \A k \in 0..Len(xs) : Sum(xs, k) \in Int
           /\ \A k \in 0..(Len(xs) - 1) : Sum(xs, k + 1) = Sum(xs, k) + xs[k + 1]
  <1> DEFINE n == Len(xs)
             step == [i \in DOMAIN xs |-> [sum \in Int |-> sum + xs[i]]]
  <1>1. n \in Nat /\ DOMAIN xs = 1..n /\ \A k \in 1..n : xs[k] \in Int
    OBVIOUS
  <1>2. \A k \in 1..n, r \in Int : step[k][r] = r + xs[k] /\ step[k][r] \in Int
    BY <1>1
  <1>3. \A k : Sum(xs, k) = Iterated(step, 0, k)
    BY DEF Sum
  <1>. HIDE DEF step, n
  <1>4. \A k \in 0..n : Sum(xs, k) \in Int
    <2>1. 0 \in Int /\ \A k \in 1..n, r \in Int : step[k][r] \in Int
      BY <1>2
    <2>. QED  BY <1>1, <1>3, <2>1, IteratedIsInt
  <1>5. Sum(xs, 0) = 0
    BY <1>3, IteratedIs
  <1>6. ASSUME NEW k \in 0..(n - 1) PROVE Sum(xs, k + 1) = Sum(xs, k) + xs[k + 1]
    <2>1. k + 1 \in Nat /\ k + 1 \in 1..n /\ k \in 0..n /\ (k + 1) - 1 = k /\ k + 1 # 0
      BY <1>1
    <2>2. Sum(xs, k + 1) = step[k + 1][Sum(xs, k)]
      BY <1>3, <2>1, IteratedIs
    <2>. QED  BY <1>2, <1>4, <2>1, <2>2
  <1>. QED  BY <1>4, <1>5, <1>6 DEF Total, Sum, n

Squares(xs) == [i \in DOMAIN xs |-> xs[i] * xs[i]]

LEMMA Regrouped ==
    ASSUME NEW q1 \in Int, NEW x2 \in Int, NEW m1 \in Int, NEW m2 \in Int, NEW k1 \in Int,
           NEW a2 \in Int
    PROVE  (q1 + x2) - 2 * (m1 + m2) + (k1 + a2) = (q1 - 2 * m1 + k1) + (x2 - 2 * m2 + a2)
  OBVIOUS

\* A series varies: n^2 times its variance is a square's, never below zero.
LEMMA CrossIsPositive ==
    ASSUME NEW xs \in Seq(Int)
    PROVE  Cross(xs, xs) \in Int /\ Cross(xs, xs) >= 0
  <1> DEFINE n == Len(xs)
             S(k) == Sum(xs, k)
             Q(k) == Sum(Squares(xs), k)
  <1>1. n \in Nat /\ DOMAIN xs = 1..n /\ \A k \in 1..n : xs[k] \in Int
    OBVIOUS
  <1>2. /\ Squares(xs) \in Seq(Int) /\ Len(Squares(xs)) = n
        /\ \A k \in 1..n : Squares(xs)[k] = xs[k] * xs[k]
    BY <1>1 DEF Squares
  <1>3. /\ S(0) = 0 /\ Q(0) = 0
        /\ \A k \in 0..n : S(k) \in Int /\ Q(k) \in Int
        /\ \A k \in 0..(n - 1) : /\ S(k + 1) = S(k) + xs[k + 1]
                                 /\ Q(k + 1) = Q(k) + xs[k + 1] * xs[k + 1]
    <2>1. \A k \in 0..(n - 1) : k + 1 \in 1..n
      BY <1>1
    <2>. QED  BY <1>2, <2>1, SumIs
  <1>4. Cross(xs, xs) = n * Q(n) - S(n) * S(n)
    BY <1>2, SumIs DEF Cross, Squares
  <1>. HIDE DEF S, Q, n
  <1>5. ASSUME NEW k \in 0..(n - 1) PROVE k \in 0..n /\ k + 1 \in 0..n /\ k + 1 \in 1..n
    BY <1>1, <1>5
  \* The squares of the distances from any number.
  <1>6. ASSUME NEW a \in Int, NEW m \in 0..n PROVE Q(m) - 2 * (a * S(m)) + m * (a * a) >= 0
    <2> DEFINE D == {k \in Nat : k <= n => Q(k) - 2 * (a * S(k)) + k * (a * a) >= 0}
    <2>1. 0 \in D
      <3>1. a * S(0) = 0 /\ 0 * (a * a) = 0
        BY <1>3
      <3>. QED  BY <1>3, <3>1
    <2>2. ASSUME NEW k \in D PROVE k + 1 \in D
      <3>0. k \in Nat /\ k + 1 \in Nat
        OBVIOUS
      <3>1. CASE ~(k + 1 <= n)
        BY <3>0, <3>1
      <3>2. CASE k + 1 <= n
        <4>1. k \in 0..(n - 1) /\ k <= n
          BY <1>1, <3>0, <3>2
        <4>2. Q(k) - 2 * (a * S(k)) + k * (a * a) >= 0
          BY <4>1
        <4> DEFINE s == S(k)
                   q == Q(k)
                   x == xs[k + 1]
        <4>3. /\ s \in Int /\ q \in Int /\ x \in Int /\ S(k + 1) = s + x /\ Q(k + 1) = q + x * x
          BY <1>1, <1>3, <1>5, <4>1
        <4>. HIDE DEF s, q, x
        <4>4. (q + x * x) - 2 * (a * (s + x)) + (k + 1) * (a * a)
                = (q - 2 * (a * s) + k * (a * a)) + (x - a) * (x - a)
          <5>1. a * (s + x) = a * s + a * x
            BY <4>3
          <5>2. (k + 1) * (a * a) = k * (a * a) + a * a
            BY <3>0
          <5>3. (x - a) * (x - a) = x * x - 2 * (a * x) + a * a
            BY <4>3
          <5> DEFINE ax == a * x
                     sa == a * s
                     aa == a * a
                     kaa == k * (a * a)
                     xx == x * x
          <5>4. ax \in Int /\ sa \in Int /\ aa \in Int /\ kaa \in Int /\ xx \in Int
            BY <3>0, <4>3
          <5>. HIDE DEF ax, sa, aa, kaa, xx
          <5>5. (q + xx) - 2 * (sa + ax) + (kaa + aa) = (q - 2 * sa + kaa) + (xx - 2 * ax + aa)
            <6>1. q \in Int
              BY <4>3
            <6>. QED  BY <5>4, <6>1, Regrouped
          <5>. QED  BY <5>1, <5>2, <5>3, <5>5 DEF ax, sa, aa, kaa, xx
        <4>5. (x - a) * (x - a) >= 0 /\ (x - a) * (x - a) \in Int
          BY <4>3
        <4>6. q - 2 * (a * s) + k * (a * a) \in Int
          BY <3>0, <4>3
        <4>7. q - 2 * (a * s) + k * (a * a) >= 0
          BY <4>2 DEF s, q
        <4>8. (q - 2 * (a * s) + k * (a * a)) + (x - a) * (x - a) >= 0
          BY <4>5, <4>6, <4>7
        <4>. QED  BY <3>0, <4>3, <4>4, <4>8
      <3>. QED  BY <3>1, <3>2
    <2>3. D = Nat
      <3>1. D \subseteq Nat
        OBVIOUS
      <3>. HIDE DEF D
      <3>. QED  BY <2>1, <2>2, <3>1, SetInduction
    <2>4. m \in Nat /\ m <= n
      BY <1>1
    <2>. QED  BY <2>3, <2>4
  <1>7. n * Q(n) - S(n) * S(n) >= 0
    <2> DEFINE D == {k \in Nat : k <= n => k * Q(k) - S(k) * S(k) >= 0}
    <2>1. 0 \in D
      <3>1. 0 * Q(0) = 0 /\ S(0) * S(0) = 0
        BY <1>3
      <3>. QED  BY <3>1
    <2>2. ASSUME NEW k \in D PROVE k + 1 \in D
      <3>0. k \in Nat /\ k + 1 \in Nat
        OBVIOUS
      <3>1. CASE ~(k + 1 <= n)
        BY <3>0, <3>1
      <3>2. CASE k + 1 <= n
        <4>1. k \in 0..(n - 1) /\ k <= n /\ k \in 0..n
          BY <1>1, <3>0, <3>2
        <4>2. k * Q(k) - S(k) * S(k) >= 0
          BY <4>1
        <4> DEFINE s == S(k)
                   q == Q(k)
                   x == xs[k + 1]
        <4>3. /\ s \in Int /\ q \in Int /\ x \in Int /\ S(k + 1) = s + x /\ Q(k + 1) = q + x * x
          BY <1>1, <1>3, <1>5, <4>1
        <4>4. q - 2 * (x * s) + k * (x * x) >= 0
          BY <1>6, <4>1, <4>3 DEF s, q
        <4>5. k * q - s * s >= 0
          BY <4>2 DEF s, q
        <4>. HIDE DEF s, q, x
        <4> DEFINE kq == k * q
                   ss == s * s
                   xx == x * x
                   kxx == k * (x * x)
                   xs1 == x * s
        <4>6. kq \in Int /\ ss \in Int /\ xx \in Int /\ kxx \in Int /\ xs1 \in Int
          BY <3>0, <4>3
        <4>7. (k + 1) * (q + x * x) = kq + kxx + q + xx
          <5>1. (k + 1) * (q + xx) = k * (q + xx) + (q + xx)
            BY <3>0, <4>3, <4>6
          <5>2. k * (q + xx) = kq + k * xx
            BY <3>0, <4>3, <4>6
          <5>3. (k + 1) * (q + xx) = kq + kxx + q + xx
            <6>1. k * xx = kxx
              OBVIOUS
            <6>. HIDE DEF kq, xx, kxx
            <6>. QED  BY <4>3, <4>6, <5>1, <5>2, <6>1
          <5>. QED  BY <5>3
        <4>8. (s + x) * (s + x) = ss + 2 * xs1 + xx
          BY <4>3
        <4>. HIDE DEF kq, ss, xx, kxx, xs1
        <4>9. (kq + kxx + q + xx) - (ss + 2 * xs1 + xx) >= 0
          <5>1. q - 2 * xs1 + kxx >= 0
            BY <4>4 DEF xs1, kxx
          <5>2. kq - ss >= 0
            BY <4>5 DEF kq, ss
          <5>. QED  BY <4>3, <4>6, <5>1, <5>2
        <4>10. (k + 1) * Q(k + 1) - S(k + 1) * S(k + 1) >= 0
          BY <4>3, <4>7, <4>8, <4>9
        <4>. QED  BY <3>0, <4>10
      <3>. QED  BY <3>1, <3>2
    <2>3. D = Nat
      <3>1. D \subseteq Nat
        OBVIOUS
      <3>. HIDE DEF D
      <3>. QED  BY <2>1, <2>2, <3>1, SetInduction
    <2>. QED  BY <1>1, <2>3
  <1>8. n * Q(n) - S(n) * S(n) \in Int
    <2>1. n \in 0..n
      BY <1>1
    <2>. QED  BY <1>1, <1>3, <2>1
  <1>. QED  BY <1>4, <1>7, <1>8

\* Nothing adds up to nothing.
LEMMA NoSquares ==
    ASSUME NEW xs \in Seq(Int), \A k \in DOMAIN xs : xs[k] = 0
    PROVE  Total(xs) = 0
  <1> DEFINE n == Len(xs)
             S == {k \in Nat : k <= n => Sum(xs, k) = 0}
  <1>1. n \in Nat /\ DOMAIN xs = 1..n
    OBVIOUS
  <1>2. 0 \in S
    BY SumIs
  <1>3. ASSUME NEW k \in S PROVE k + 1 \in S
    <2>0. k \in Nat /\ k + 1 \in Nat
      OBVIOUS
    <2>1. CASE ~(k + 1 <= n)
      BY <2>0, <2>1
    <2>2. CASE k + 1 <= n
      <3>1. k \in 0..(n - 1) /\ k + 1 \in 1..n /\ k <= n
        BY <1>1, <2>0, <2>2
      <3>2. Sum(xs, k + 1) = Sum(xs, k) + xs[k + 1]
        BY <3>1, SumIs
      <3>. QED  BY <1>1, <2>0, <3>1, <3>2
    <2>. QED  BY <2>1, <2>2
  <1>4. S = Nat
    <2>1. S \subseteq Nat
      OBVIOUS
    <2>. HIDE DEF S
    <2>. QED  BY <1>2, <1>3, <2>1, SetInduction
  <1>. QED  BY <1>1, <1>4, SumIs

-----------------------------------------------------------------------------
(* A series measured against itself                                        *)

LEMMA WindowKeeps ==
    ASSUME NEW S, NEW s \in Seq(S), NEW n \in Nat
    PROVE  /\ Window(s, n) \in Seq(S)
           /\ n <= Len(s) => Len(Window(s, n)) = n
  <1> DEFINE k == Len(s) - n + 1
             m == Max({1, k})
  <1>1. Len(s) \in Nat /\ k \in Int
    OBVIOUS
  <1>2. k <= Len(s) + 1
    BY <1>1
  <1>. HIDE DEF k
  <1>3. m \in {1, k} /\ m >= 1 /\ m >= k
    <2>1. 1 \in Int /\ k \in Int
      BY <1>1
    <2>. QED  BY <2>1, MaxOfTwo
  <1>4. m \in 1..(Len(s) + 1)
    BY <1>1, <1>2, <1>3
  <1>5. n <= Len(s) => m = k
    <2>1. n <= Len(s) => k >= 1
      BY <1>1 DEF k
    <2>. QED  BY <1>1, <1>3, <2>1
  <1>. HIDE DEF m
  <1>6. /\ SubSeq(s, m, Len(s)) \in Seq(S)
        /\ Len(SubSeq(s, m, Len(s))) = Len(s) - m + 1
    BY <1>1, <1>4
  <1>7. n <= Len(s) => Len(s) - m + 1 = n
    BY <1>1, <1>5 DEF k
  <1>. QED  BY <1>6, <1>7 DEF Window, m, k

LEMMA ReturnsAreNumbers ==
    ASSUME NEW p \in Seq(Int), Len(p) >= 1
    PROVE  LogReturns(p) \in Seq(Int)
  <1>1. LogReturns(p) = [i \in 1..(Len(p) - 1) |-> p[i + 1] - p[i]]
    BY TableIs DEF LogReturns
  <1>2. Len(p) - 1 \in Nat
    OBVIOUS
  <1>3. \A i \in 1..(Len(p) - 1) : p[i + 1] - p[i] \in Int
    OBVIOUS
  <1>. QED  BY <1>1, <1>2, <1>3

\* The proxy's closes on the days of bars that it agrees with.
LEMMA OwnProxy ==
    ASSUME NEW S, NEW take \in Seq(S), NEW proxy,
           \A b \in S : b.close \in Int /\ proxy[b.date] = b.close
    PROVE  /\ OwnCloses(take) \in Seq(Int) /\ Len(OwnCloses(take)) = Len(take)
           /\ ProxyCloses(take, proxy) = OwnCloses(take)
  <1>1. OwnCloses(take) = [i \in DOMAIN take |-> take[i].close]
    BY TableIs DEF OwnCloses, Field
  <1>2. ProxyCloses(take, proxy) = [i \in DOMAIN take |-> proxy[take[i].date]]
    BY TableIs DEF ProxyCloses, Field
  <1>3. \A i \in DOMAIN take : take[i].close \in Int /\ proxy[take[i].date] = take[i].close
    OBVIOUS
  <1>. QED  BY <1>1, <1>2, <1>3

\* What a regression leaves.
Residuals(y, x, sxx, sxy) ==
    Table([i \in DOMAIN y |->
               InTenths(sxx * (Len(y) * y[i] - Total(y)) - sxy * (Len(x) * x[i] - Total(x)),
                        Len(y) * sxx)])

LEMMA LinregIs ==
    ASSUME NEW y, NEW x, NEW reg \in Linreg(y, x)
    PROVE  \E sxx \in {Cross(x, x)} \ {0}, sxy \in {Cross(x, y)} :
              reg.resid = Residuals(y, x, sxx, sxy)
  <1> DEFINE Of(sxx, sxy) == [beta |-> [num |-> sxy, den |-> sxx],
                              resid |-> Residuals(y, x, sxx, sxy)]
  <1>1. Linreg(y, x) = IF Len(y) < W["pairs"] THEN {}
                       ELSE {Of(sxx, sxy) : sxx \in {Cross(x, x)} \ {0}, sxy \in {Cross(x, y)}}
    BY DEF Linreg, Residuals
  <1>2. \A sxx, sxy : Of(sxx, sxy).resid = Residuals(y, x, sxx, sxy)
    OBVIOUS
  <1>. HIDE DEF Of
  <1>. QED  BY <1>1, <1>2

\* On itself nothing is left unexplained.
LEMMA RegressedOnItself ==
    ASSUME NEW y \in Seq(Int), NEW reg \in Linreg(y, y)
    PROVE  ResidualSigmas(reg) = {}
  <1> DEFINE c == Cross(y, y)
             n == Len(y)
             t(i) == c * (n * y[i] - Total(y))
  <1>1. n \in Nat /\ n > 0
    <2>1. ~(n < W["pairs"])
      BY DEF Linreg
    <2>2. W["pairs"] \in Nat /\ W["pairs"] > 0
      BY WindowsAssumption DEF WindowNames
    <2>. QED  BY <2>1, <2>2
  <1>2. reg.resid = Table([i \in DOMAIN y |-> InTenths(t(i) - t(i), n * c)]) /\ c # 0
    <2>1. PICK sxx \in {c} \ {0}, sxy \in {c} : reg.resid = Residuals(y, y, sxx, sxy)
      BY LinregIs
    <2>2. sxx = c /\ sxy = c /\ c # 0
      BY <2>1
    <2>. QED  BY <2>1, <2>2 DEF Residuals
  <1>3. c \in Int /\ c >= 0
    BY CrossIsPositive
  <1>4. Total(y) \in Int
    <2>1. n \in 0..n
      BY <1>1
    <2>. QED  BY <2>1, SumIs
  <1>. HIDE DEF c
  <1>5. ASSUME NEW i \in DOMAIN y PROVE InTenths(t(i) - t(i), n * c) = 0
    <2>1. t(i) \in Int
      BY <1>1, <1>3, <1>4
    <2>. HIDE DEF t
    <2>2. t(i) - t(i) = 0
      BY <2>1
    <2>3. n * c \in Nat /\ n * c > 0
      BY <1>1, <1>2, <1>3
    <2> DEFINE nc == n * c
    <2>. HIDE DEF nc
    <2>4. InTenths(0, nc) = 0
      <3>1. nc \in Nat /\ nc > 0
        BY <2>3 DEF nc
      <3>2. Sign(0) = 0 /\ Abs(0) = 0
        BY DEF Sign, Abs
      <3>3. (10 * 0) \div nc \in Int
        BY <3>1
      <3>. QED  BY <3>2, <3>3 DEF InTenths
    <2>. QED  BY <2>2, <2>4 DEF nc
  <1>6. reg.resid = [i \in DOMAIN y |-> 0]
    <2>1. reg.resid = [i \in DOMAIN y |-> InTenths(t(i) - t(i), n * c)]
      BY <1>2, TableIs
    <2>. HIDE DEF t
    <2>. QED  BY <1>5, <2>1
  <1> DEFINE sq == [i \in DOMAIN reg.resid |-> reg.resid[i] * reg.resid[i]]
  <1>7. sq \in Seq(Int) /\ \A i \in DOMAIN sq : sq[i] = 0
    <2>1. DOMAIN y = 1..n
      OBVIOUS
    <2>2. sq = [i \in 1..n |-> 0]
      BY <1>6, <2>1
    <2>. HIDE DEF sq, n
    <2>. QED  BY <1>1, <2>2
  <1>8. Total(sq) = 0
    <2>. HIDE DEF sq
    <2>. QED  BY <1>7, NoSquares
  <1>. QED  BY <1>8 DEF ResidualSigmas

\* With itself a series always correlates alike.
Wholly == Root(1000 * 1000) \div 10

LEMMA PearsonWithItself ==
    ASSUME NEW w \in Seq(Int) PROVE Pearson(w, w) \subseteq {Wholly}
  <1> DEFINE c == Cross(w, w)
  <1>1. c \in Int /\ c >= 0
    BY CrossIsPositive
  <1>2. ASSUME NEW v \in Pearson(w, w)
        PROVE  c # 0 /\ v = Sign(c) * (Root(Slope(c, c) * Slope(c, c)) \div 10)
    BY DEF Pearson
  <1>. HIDE DEF c
  <1>3. ASSUME NEW v \in Pearson(w, w) PROVE v = Wholly
    <2>1. c > 0
      BY <1>1, <1>2
    <2>2. Sign(c) = 1 /\ Abs(c) = c
      BY <1>1, <2>1 DEF Sign, Abs
    <2>3. Slope(c, c) = 1000
      <3>1. (1000 * c) \div c = 1000
        BY <1>1, <2>1
      <3>. QED  BY <2>2, <3>1 DEF Slope
    <2>4. Wholly \in Int
      <3>1. Root(1000 * 1000) \in Int
        BY RootIsInt
      <3>. QED  BY <3>1 DEF Wholly
    <2>5. v = 1 * Wholly
      BY <1>2, <2>2, <2>3 DEF Wholly
    <2>. QED  BY <2>4, <2>5
  <1>. QED  BY <1>3

LEMMA CorrelatedWithItself ==
    ASSUME NEW a \in Seq(Int) PROVE Correlation(a, a) \subseteq {Wholly}
  <1>1. Len(a) \in Nat /\ Min({Len(a), Len(a)}) = Len(a)
    <2>1. Len(a) \in Nat /\ {Len(a), Len(a)} = {Len(a)}
      OBVIOUS
    <2>. QED  BY <2>1, MinOfOne
  <1>2. Window(a, Len(a)) \in Seq(Int)
    BY <1>1, WindowKeeps
  <1>3. Correlation(a, a) = {} \/ Correlation(a, a) = Pearson(Window(a, Len(a)), Window(a, Len(a)))
    BY <1>1 DEF Correlation
  <1>. QED  BY <1>2, <1>3, PearsonWithItself

\* What a proxy says of the days of the series it was made from, or is silent.
Agrees(proxy, bars) ==
    \A b \in Range(bars) : b.close \in Int /\ (b.date \in DOMAIN proxy => proxy[b.date] = b.close)

\* Of a series and a proxy, the days both have.
LEMMA PairedIs ==
    ASSUME NEW S, NEW bars \in Seq(S), NEW proxy, Agrees(proxy, bars)
    PROVE  LET both == {b \in Range(bars) : b.date \in DOMAIN proxy}
           IN  /\ Paired(bars, proxy) \in Seq(both)
               /\ \A b \in both : b.close \in Int /\ proxy[b.date] = b.close
  <1> DEFINE both == {b \in Range(bars) : b.date \in DOMAIN proxy}
  <1>1. Paired(bars, proxy) \in Seq(S \cap both)
    BY KeptIs DEF Paired
  <1>2. S \cap both = both
    BY DEF Range
  <1>3. \A b \in both : b.close \in Int /\ proxy[b.date] = b.close
    BY DEF Agrees
  <1>. HIDE DEF both
  <1>4. Paired(bars, proxy) \in Seq(both)
    BY <1>1, <1>2
  <1>. QED  BY <1>3, <1>4 DEF both

\* The returns of the last bars of both are the same.
LEMMA SameReturns ==
    ASSUME NEW S, NEW bars \in Seq(S), NEW proxy, Agrees(proxy, bars),
           NEW n \in Nat, n >= 1, n <= Len(Paired(bars, proxy))
    PROVE  LET take == Window(Paired(bars, proxy), n)
           IN  /\ LogReturns(OwnCloses(take)) \in Seq(Int)
               /\ LogReturns(ProxyCloses(take, proxy)) = LogReturns(OwnCloses(take))
  <1> DEFINE both == {b \in Range(bars) : b.date \in DOMAIN proxy}
             paired == Paired(bars, proxy)
             take == Window(paired, n)
  <1>1. paired \in Seq(both) /\ \A b \in both : b.close \in Int /\ proxy[b.date] = b.close
    BY PairedIs
  <1>. HIDE DEF both, paired
  <1>2. take \in Seq(both) /\ Len(take) = n
    BY <1>1, WindowKeeps DEF paired
  <1>. HIDE DEF take
  <1>3. /\ OwnCloses(take) \in Seq(Int) /\ Len(OwnCloses(take)) = n
        /\ ProxyCloses(take, proxy) = OwnCloses(take)
    BY <1>1, <1>2, OwnProxy
  <1>. QED  BY <1>3, ReturnsAreNumbers DEF take, paired

LEMMA RegressedAgainstItself ==
    ASSUME NEW S, NEW bars \in Seq(S), NEW proxy, Agrees(proxy, bars),
           NEW reg \in RegressAgainst(bars, proxy)
    PROVE  ResidualSigmas(reg) = {}
  <1> DEFINE paired == Paired(bars, proxy)
             n == Min({W["beta"] + 1, Len(paired)})
             take == Window(paired, n)
  <1>1. Len(paired) \in Nat
    BY PairedIs
  <1>2. W["pairs"] \in Nat /\ W["pairs"] > 0 /\ W["beta"] \in Nat
    BY WindowsAssumption DEF WindowNames
  <1>3. /\ ~(Len(paired) < W["pairs"] + 1)
        /\ reg \in Linreg(LogReturns(OwnCloses(take)), LogReturns(ProxyCloses(take, proxy)))
    BY DEF RegressAgainst
  <1>. HIDE DEF paired
  <1>4. W["beta"] + 1 \in Int /\ Len(paired) \in Int
    BY <1>1, <1>2
  <1>5. n \in {W["beta"] + 1, Len(paired)} /\ n <= Len(paired)
    BY <1>4 DEF Min
  <1>. HIDE DEF n
  <1>6. n \in Nat /\ n >= 1
    BY <1>1, <1>2, <1>3, <1>5
  <1>7. /\ LogReturns(OwnCloses(take)) \in Seq(Int)
        /\ LogReturns(ProxyCloses(take, proxy)) = LogReturns(OwnCloses(take))
    BY <1>5, <1>6, SameReturns DEF paired
  <1>. HIDE DEF take
  <1>. QED  BY <1>3, <1>7, RegressedOnItself

LEMMA CorrelatedAgainstItself ==
    ASSUME NEW S, NEW bars \in Seq(S), NEW proxy, Agrees(proxy, bars), NEW n \in Nat
    PROVE  CorrelationAgainst(bars, proxy, n) \subseteq {Wholly}
  <1>. SUFFICES ASSUME NEW c \in CorrelationAgainst(bars, proxy, n) PROVE c = Wholly
    OBVIOUS
  <1> DEFINE paired == Paired(bars, proxy)
             take == Window(paired, n + 1)
  <1>1. Len(paired) \in Nat
    BY PairedIs
  <1>2. /\ ~(Len(paired) < n + 1)
        /\ c \in Correlation(LogReturns(OwnCloses(take)), LogReturns(ProxyCloses(take, proxy)))
    BY DEF CorrelationAgainst
  <1>. HIDE DEF paired
  <1>3. n + 1 \in Nat /\ n + 1 >= 1 /\ n + 1 <= Len(paired)
    BY <1>1, <1>2
  <1>4. /\ LogReturns(OwnCloses(take)) \in Seq(Int)
        /\ LogReturns(ProxyCloses(take, proxy)) = LogReturns(OwnCloses(take))
    BY <1>3, SameReturns DEF paired
  <1>. HIDE DEF take
  <1>. QED  BY <1>2, <1>4, CorrelatedWithItself

\* What no detector finds in a series measured against itself.
Diverging == {"sector_divergence", "correlation_break"}

LEMMA NothingDiverges ==
    ASSUME NEW S, NEW bars \in Seq(S), NEW benchmark, NEW sector, Agrees(sector, bars),
           NEW f \in ComputeFeatures(bars, benchmark, sector),
           NEW in, in.features = f, NEW c \in Range(RunDetectors(in))
    PROVE  c.detector \notin Diverging
  <1>1. PICK s, a : f = FeatureVector(bars, OwnCloses(bars), Window(bars, W["beta"]),
                                      benchmark, sector, s, a)
    BY DEF ComputeFeatures
  <1>2. /\ f.sector = RegressAgainst(bars, sector)
        /\ f.corrSectorShort = CorrelationAgainst(bars, sector, W["corrShort"])
        /\ f.corrSectorLong = CorrelationAgainst(bars, sector, W["corrLong"])
    BY <1>1 DEF FeatureVector
  <1>3. \A reg \in f.sector : ResidualSigmas(reg) = {}
    BY <1>2, RegressedAgainstItself
  <1>4. SectorDivergence(in) = {}
    BY <1>3 DEF SectorDivergence
  <1>5. W["corrShort"] \in Nat /\ W["corrLong"] \in Nat
    BY WindowsAssumption DEF WindowNames
  <1>6. f.corrSectorShort \subseteq {Wholly} /\ f.corrSectorLong \subseteq {Wholly}
    BY <1>2, <1>5, CorrelatedAgainstItself
  <1>7. Wholly \in Int /\ T.corrDrop \in Nat /\ T.corrDrop > 0
    <2>1. Root(1000 * 1000) \in Int
      BY RootIsInt
    <2>2. "corrDrop" \in DOMAIN THRESHOLDS
      BY DEF THRESHOLDS
    <2>. QED  BY <2>1, <2>2, ThresholdsAssumption DEF Wholly
  <1>8. ~(Wholly - Wholly >= T.corrDrop)
    BY <1>7
  <1>9. CorrelationBreak(in) = {}
    <2>1. ASSUME NEW long \in f.corrSectorLong
          PROVE  {x \in f.corrSectorShort : long - x >= T.corrDrop} = {}
      BY <1>6, <1>8
    <2>. QED  BY <2>1 DEF CorrelationBreak
  <1> DEFINE answers == <<MoveSinceLastSeen(in), VolumeSpike(in), SectorDivergence(in),
                          RangeBreak(in), VolRegimeShift(in), EarningsUpcoming(in),
                          CorrelationBreak(in), QuietRegime(in)>>
             Others(A) == \A x \in A : x.detector \notin Diverging
  <1>10. ASSUME NEW detector, detector \notin Diverging, NEW direction, NEW magnitude,
                NEW family, NEW normalized
         PROVE  Candidate(detector, in.features, direction, magnitude, family, normalized).detector
                  \notin Diverging
    BY <1>10 DEF Candidate
  <1>11. Others(MoveSinceLastSeen(in))
    <2>1. "move_since_last_seen" \notin Diverging
      BY DEF Diverging
    <2>. QED  BY <1>10, <2>1 DEF MoveSinceLastSeen
  <1>12. Others(VolumeSpike(in))
    <2>1. "volume_spike" \notin Diverging
      BY DEF Diverging
    <2>. QED  BY <1>10, <2>1 DEF VolumeSpike
  <1>13. Others(RangeBreak(in))
    <2>1. "range_break" \notin Diverging
      BY DEF Diverging
    <2>. QED  BY <1>10, <2>1 DEF RangeBreak
  <1>14. Others(VolRegimeShift(in))
    <2>1. "vol_regime_shift" \notin Diverging
      BY DEF Diverging
    <2>. QED  BY <1>10, <2>1 DEF VolRegimeShift
  <1>15. Others(EarningsUpcoming(in))
    <2>1. "earnings_upcoming" \notin Diverging
      BY DEF Diverging
    <2>. QED  BY <1>10, <2>1 DEF EarningsUpcoming
  <1>16. Others(QuietRegime(in))
    <2>1. "quiet_regime" \notin Diverging
      BY DEF Diverging
    <2>. QED  BY <1>10, <2>1 DEF QuietRegime
  <1>17. \A k \in DOMAIN answers : Others(answers[k])
    BY <1>4, <1>9, <1>11, <1>12, <1>13, <1>14, <1>15, <1>16
  <1>18. answers \in Seq(Range(answers))
    BY DEF Range
  <1>19. RunDetectors(in) = Fired(answers)
    BY DEF RunDetectors
  <1>. HIDE DEF answers
  <1>20. PICK k \in DOMAIN answers : c \in answers[k]
    BY <1>18, <1>19, FiredIs
  <1>. QED  BY <1>17, <1>20

-----------------------------------------------------------------------------
(* Paired by date                                                          *)

\* A series is never lost, and its prices are numbers.
PricesKept ==
    /\ DOMAIN series = DOMAIN HISTORY
    /\ \A s \in DOMAIN series : /\ \A b \in Range(series[s]) : b.close \in Int
                                /\ HISTORY[s] # <<>> => series[s] # <<>>

LEMMA PricesAreKept == Spec => []PricesKept
  <1>1. Init => PricesKept
    <2>. SUFFICES ASSUME Init PROVE PricesKept
      OBVIOUS
    <2>1. series = HISTORY
      BY DEF Init
    <2>2. \A s \in DOMAIN HISTORY : \A b \in Range(HISTORY[s]) : b.close \in Int
      BY EngineAssumption
    <2>. QED  BY <2>1, <2>2 DEF PricesKept
  <1>2. PricesKept /\ SeriesKept /\ [Next]_vars => PricesKept'
    <2>. SUFFICES ASSUME PricesKept, SeriesKept, [Next]_vars PROVE PricesKept'
      OBVIOUS
    <2>1. CASE UNCHANGED vars
      BY <2>1 DEF PricesKept, vars
    <2>2. CASE NextMorning
      BY <2>2 DEF PricesKept, NextMorning
    <2>3. ASSUME NEW move \in Moves, SessionCloses(move) PROVE PricesKept'
      <3>1. series' = [s \in DOMAIN series |-> series[s] \o Bar(s, move)]
        BY <2>3 DEF SessionCloses
      <3>2. ASSUME NEW s \in DOMAIN series
            PROVE  /\ \A b \in Range(series'[s]) : b.close \in Int
                   /\ HISTORY[s] # <<>> => series'[s] # <<>>
        <4>1. /\ series[s] \in Seq(Range(series[s])) /\ series'[s] = series[s] \o Bar(s, move)
              /\ \A b \in Range(series[s]) : b.close \in Int
              /\ HISTORY[s] # <<>> => series[s] # <<>>
          BY <3>1 DEF PricesKept, SeriesKept, Chronological
        <4>2. CASE s \notin DOMAIN move.of
          <5>1. Bar(s, move) = <<>>
            BY <4>2 DEF Bar
          <5>2. series'[s] = series[s]
            BY <4>1, <5>1
          <5>. QED  BY <4>1, <5>2
        <4>3. CASE s \in DOMAIN move.of
          <5>1. move.of[s] \in Int /\ HISTORY[s] # <<>>
            BY <4>3, EngineAssumption
          <5>2. Last(series[s]) \in Range(series[s])
            <6>1. Len(series[s]) \in 1..Len(series[s])
              BY <4>1, <5>1
            <6>. QED  BY <4>1, <6>1 DEF Last, Range
          <5>3. PICK b : Bar(s, move) = <<b>> /\ b.close = Last(series[s]).close + move.of[s]
            BY <4>3 DEF Bar
          <5>4. Last(series[s]).close \in Int
            BY <4>1, <5>2
          <5>5. b.close \in Int
            BY <5>1, <5>3, <5>4
          <5> DEFINE bars == series[s]
                     all == bars \o <<b>>
                     S == Range(bars) \cup {b}
          <5>6. bars \in Seq(S) /\ <<b>> \in Seq(S)
            BY <4>1
          <5>7. all \in Seq(S) /\ all # <<>>
            BY <5>6
          <5>8. \A x \in S : x.close \in Int
            BY <4>1, <5>5
          <5>. HIDE DEF all, S
          <5>9. Range(all) \subseteq S
            BY <5>7 DEF Range
          <5>10. series'[s] = all
            BY <4>1, <5>3 DEF all
          <5>. QED  BY <5>7, <5>8, <5>9, <5>10
        <4>. QED  BY <4>2, <4>3
      <3>3. DOMAIN series' = DOMAIN series
        BY <3>1
      <3>. QED  BY <3>2, <3>3 DEF PricesKept
    <2>. QED  BY <2>1, <2>2, <2>3 DEF Next
  <1>. QED  BY <1>1, <1>2, SeriesAreKept, PTL DEF Spec

\* A window of the full series agrees with the series less any of its sessions.
LEMMA WindowAgrees ==
    ASSUME NEW full, Chronological(full), \A b \in Range(full) : b.close \in Int,
           NEW bars, Range(bars) \subseteq Range(full), NEW date, NEW size
    PROVE  Agrees(ProxyWindow(AsProxy(full), date, size), bars)
  <1> DEFINE until == {d \in DOMAIN AsProxy(full) : d <= date}
             kept == {d \in until : Cardinality({e \in until : e > d}) < size}
  <1>1. ProxyWindow(AsProxy(full), date, size) = [d \in kept |-> AsProxy(full)[d]]
    BY TableIs DEF ProxyWindow, Restrict
  <1>. HIDE DEF kept
  <1>2. \A b \in Range(full) : AsProxy(full)[b.date] = b.close
    <2>1. \A i \in DOMAIN full : AsProxy(full)[full[i].date] = full[i].close
      BY AsProxyIs
    <2>. QED  BY <2>1 DEF Range
  <1>. QED  BY <1>1, <1>2 DEF Agrees

\* Whatever a session yields of a series measured against itself, nothing diverges.
LEMMA SessionOfItself ==
    ASSUME NEW full, Chronological(full), \A b \in Range(full) : b.close \in Int,
           NEW own, own \in Seq(Range(full)), NEW input, input.bars = own,
           input.sector = AsProxy(full),
           NEW sessions, NEW day \in RunDay(input, Len(own), sessions),
           NEW e \in Range(day.events)
    PROVE  e.detector \notin Diverging
  <1> DEFINE date == own[Len(own)].date
             bars == WindowEndingAt(own, Len(own), W["feature"])
             benchmark == ProxyWindow(input.benchmark, date, W["feature"])
             sector == ProxyWindow(input.sector, date, W["feature"])
             next == NextEarnings(input.earnings, date)
  <1>1. day \in AnalysedDay(bars, date, benchmark, sector, next, sessions)
    BY DEF RunDay
  <1>2. bars \in Seq(Range(full))
    <2>1. Len(own) \in Nat /\ W["feature"] \in Nat
      BY WindowsAssumption DEF WindowNames
    <2> DEFINE k == Len(own) - W["feature"] + 1
               m == Max({1, k})
    <2>2. 1 \in Int /\ k \in Int
      BY <2>1
    <2>. HIDE DEF k
    <2>3. m \in Int /\ m >= 1
      BY <2>2, MaxOfTwo
    <2>. HIDE DEF m
    <2>4. SubSeq(own, m, Len(own)) \in Seq(Range(full))
      BY <2>1, <2>3
    <2>. QED  BY <2>4 DEF WindowEndingAt, m, k
  <1>3. Range(bars) \subseteq Range(full)
    <2>. HIDE DEF bars
    <2>. QED  BY <1>2 DEF Range
  <1>4. Agrees(sector, bars)
    <2>. HIDE DEF bars, date
    <2>. QED  BY <1>3, WindowAgrees
  <1>. HIDE DEF bars, date, benchmark, sector, next
  <1>5. PICK f \in ComputeFeatures(bars, benchmark, sector) :
            LET in == Given(f, bars, sessions, next, date)
            IN  /\ RunDetectors(in) # <<>>
                /\ day \in ScoredDay(f, RunDetectors(in), DayContext(f, RunDetectors(in)))
    BY <1>1, AnalysedAre
  <1>6. PICK in : /\ in.features = f
                  /\ day \in ScoredDay(f, RunDetectors(in), DayContext(f, RunDetectors(in)))
    BY <1>5 DEF Given
  <1>7. day.events = ScoredEvents(RunDetectors(in), DayContext(f, RunDetectors(in)))
    BY <1>6, ScoredDayIs
  <1>8. PICK c \in Range(RunDetectors(in)) : e = ScoreEvent(c, DayContext(f, RunDetectors(in)))
    BY <1>7, ScoredEventsIs
  <1>9. c.detector \notin Diverging
    BY <1>2, <1>4, <1>6, <1>8, NothingDiverges
  <1>. QED  BY <1>8, <1>9, ScoreEventIs

\* Series are paired by date (regressAgainst, correlationAgainst): a name
\* that missed any one session, measured against its own full series, is never said to
\* diverge from it, nor to have broken with it: the paired returns are the same, so what
\* the regression leaves is nothing and the correlations are equal.
THEOREM OwnSeriesNeverDiverges == Spec => []PairedByDate
  <1>1. SeriesKept /\ PricesKept => PairedByDate
    <2>. SUFFICES ASSUME SeriesKept, PricesKept, NEW s \in Instruments, NEW missed
                  PROVE  LET own  == Kept(series[s], {b \in Range(series[s]) : b.date # missed})
                             full == AsProxy(series[s])
                         IN  \A day \in RunDay([bars |-> own, benchmark |-> full, sector |-> full,
                                                earnings |-> <<>>], Len(own), {1}) :
                                \A e \in Range(day.events) : e.detector \notin Diverging
      BY DEF PairedByDate, Diverging
    <2> DEFINE bars == series[s]
               others == {b \in Range(bars) : b.date # missed}
               own == Kept(bars, others)
    <2>1. s \in DOMAIN series
      <3>1. s \in Range(SYMBOLS) /\ Range(SYMBOLS) \subseteq DOMAIN HISTORY
        BY EngineAssumption DEF Instruments
      <3>. QED  BY <3>1 DEF PricesKept
    <2>2. Chronological(bars) /\ \A b \in Range(bars) : b.close \in Int
      BY <2>1 DEF SeriesKept, PricesKept
    <2>3. own \in Seq(Range(bars))
      <3>1. bars \in Seq(Range(bars))
        BY <2>2 DEF Chronological
      <3>2. own \in Seq(Range(bars) \cap others)
        BY <3>1, KeptIs
      <3>. HIDE DEF own
      <3>. QED  BY <3>2
    <2>. HIDE DEF own, bars
    <2> DEFINE input == [bars |-> own, benchmark |-> AsProxy(bars), sector |-> AsProxy(bars),
                         earnings |-> <<>>]
    <2>4. input.bars = own /\ input.sector = AsProxy(bars)
      OBVIOUS
    <2>. HIDE DEF input
    <2>5. \A day \in RunDay(input, Len(own), {1}) : \A e \in Range(day.events) :
             e.detector \notin Diverging
      BY <2>2, <2>3, <2>4, SessionOfItself
    <2>. QED  BY <2>5 DEF input, own, bars
  <1>. QED  BY <1>1, SeriesAreKept, PricesAreKept, PTL

-----------------------------------------------------------------------------
(* matchContext: each factor is a percentage, so a product is no larger    *)
(* than its least factor, and one factor below the floor keeps an event    *)
(* out whatever the others are.                                            *)

\* What can be asked, and a row of the table.
Question(query) == query.date \in Int /\ query.marketWide \in BOOLEAN
TableRow(event) == /\ event.date \in Int /\ event.end \in Int
                   /\ event.importance \in DOMAIN IMPORTANCE_WEIGHT

LEMMA ProximityIsAPercentage ==
    ASSUME NEW query, NEW event, Question(query), TableRow(event)
    PROVE  ProximityScore(query, event) \in 0..100
  <1> DEFINE Far(d) == IF query.date - d < 0 THEN -(query.date - d) ELSE query.date - d
             ends == {event.date} \cup ({event.end} \ {0})
  <1>1. {Far(d) : d \in ends} = {Far(event.date), Far(event.end)}
        \/ {Far(d) : d \in ends} = {Far(event.date)}
    OBVIOUS
  <1>2. Far(event.date) \in Nat /\ Far(event.end) \in Nat
    BY DEF Question, TableRow
  <1>3. Min({Far(d) : d \in ends}) \in Nat
    BY <1>1, <1>2, MinOfOne, MinOfTwo
  <1>4. Distance(query, event) \in Nat
    BY <1>3 DEF Distance, Mag
  <1>. QED  BY <1>4 DEF ProximityScore, MAX_DISTANCE_DAYS

\* A product of two percentages is no larger than either.
LEMMA Products ==
    ASSUME NEW a \in 0..100, NEW b \in 0..100
    PROVE  (a * b) \div 100 \in 0..a /\ (a * b) \div 100 =< b
  <1>1. 0 =< a * b /\ a * b =< 100 * a /\ a * b =< 100 * b /\ a * b \in Int
    OBVIOUS
  <1>. QED  BY <1>1

LEMMA EveryFactorCounts ==
    ASSUME NEW query, NEW event, Question(query), TableRow(event),
           ContextConfidence(query, event) >= MIN_CONTEXT_CONFIDENCE
    PROVE  ScopeScore(query, event) >= 45 /\ SectorScore(query, event) >= 45
  <1> DEFINE p == ProximityScore(query, event)
             s == ScopeScore(query, event)
             t == SectorScore(query, event)
             w == IMPORTANCE_WEIGHT[event.importance]
             ps == (p * s) \div 100
             pst == (ps * t) \div 100
             all == (pst * w) \div 100
  <1>1. p \in 0..100
    BY ProximityIsAPercentage
  <1>2. s \in 0..100 /\ t \in 0..100
    BY DEF ScopeScore, SectorScore
  <1>3. w \in 0..100
    BY DEF TableRow, IMPORTANCE_WEIGHT
  <1>4. all >= 45
    BY DEF ContextConfidence, MIN_CONTEXT_CONFIDENCE
  <1>. HIDE DEF p, s, t, w
  <1>5. ps \in 0..100 /\ ps =< s
    BY <1>1, <1>2, Products
  <1>. HIDE DEF ps
  <1>6. pst \in 0..100 /\ pst =< t /\ pst =< ps
    BY <1>2, <1>5, Products
  <1>. HIDE DEF pst
  <1>7. all \in Int /\ all =< pst
    BY <1>3, <1>6, Products
  <1>. HIDE DEF all
  <1>8. s >= 45 /\ t >= 45
    BY <1>2, <1>4, <1>5, <1>6, <1>7
  <1>. QED  BY <1>8 DEF s, t

LEMMA MatchReaches ==
    ASSUME NEW query, NEW table, Question(query),
           \A k \in DOMAIN table : TableRow(table[k]),
           NEW m \in MatchContext(query, table)
    PROVE  /\ query.marketWide <=> m.event.scope \in {"GLOBAL", "US"}
           /\ m.event.sectors # {} /\ query.sector # "" => query.sector \in m.event.sectors
  <1>1. PICK k \in DOMAIN table :
           /\ m.event = table[k]
           /\ ContextConfidence(query, table[k]) >= MIN_CONTEXT_CONFIDENCE
    BY DEF MatchContext
  <1>2. ScopeScore(query, m.event) >= 45 /\ SectorScore(query, m.event) >= 45
    BY <1>1, EveryFactorCounts
  <1>3. query.marketWide <=> m.event.scope \in {"GLOBAL", "US"}
    <2>1. CASE query.marketWide
      BY <1>2, <2>1 DEF ScopeScore
    <2>2. CASE ~query.marketWide
      BY <1>2, <2>2 DEF ScopeScore
    <2>. QED  BY <2>1, <2>2
  <1>4. ASSUME m.event.sectors # {}, query.sector # "", query.sector \notin m.event.sectors
        PROVE  FALSE
    <2>1. SectorScore(query, m.event) = 10
      BY <1>4 DEF SectorScore
    <2>. QED  BY <1>2, <2>1
  <1>. QED  BY <1>3, <1>4

LEMMA RowsOfTheTable ==
    /\ \A k \in DOMAIN CONTEXT : TableRow(CONTEXT[k])
    /\ DOMAIN CONTEXT \in SUBSET Nat
  <1>1. \A k \in DOMAIN CONTEXT : /\ CONTEXT[k].date \in Int /\ CONTEXT[k].end \in Int
                                  /\ CONTEXT[k].importance \in DOMAIN IMPORTANCE_WEIGHT
    BY EngineAssumption, Zenon
  <1>2. CONTEXT \in Seq(Range(CONTEXT))
    BY EngineAssumption, Zenon
  <1>3. DOMAIN CONTEXT = 1..Len(CONTEXT)
    BY <1>2
  <1>. QED  BY <1>1, <1>3 DEF TableRow

LEMMA ContextOfIs ==
    ASSUME NEW table, NEW start, NEW end
    PROVE  /\ DOMAIN ContextOf(table, start, end) = {k \in DOMAIN table : table[k].date \in start..end}
           /\ \A k \in DOMAIN ContextOf(table, start, end) :
                 ContextOf(table, start, end)[k] = table[k]
  BY DEF ContextOf, Restrict

(* For any market and any table of context: what is told beside a session   *)
(* reaches as far as the session's own story does (matchContext of          *)
(* context.ts): a market-wide day is told with market-wide events only.     *)
THEOREM ContextIsNeverOutOfReach == Spec => []ContextReachesAsFar
  <1>1. ASSUME SeriesKept PROVE ContextReachesAsFar
    <2>. SUFFICES ASSUME NEW d \in Latest, NEW m \in ReplayOf(d, FirstDay - 2, today).context
                  PROVE  LET query == ReplayOf(d, FirstDay - 2, today).query IN
                         /\ query.marketWide <=> m.event.scope \in {"GLOBAL", "US"}
                         /\ m.event.sectors # {} /\ query.sector # ""
                            => query.sector \in m.event.sectors
      BY DEF ContextReachesAsFar
    <2>. DEFINE query == ReplayOf(d, FirstDay - 2, today).query
                table == ContextOf(CONTEXT, FirstDay - 2, today)
    <2>1. d \in Int
      BY <1>1 DEF SeriesKept, Latest
    <2>2. ReplayOf(d, FirstDay - 2, today).context = MatchContext(query, table)
      BY DEF ReplayOf, ReplayStep, StepOn, StepWith, Screen
    <2>3. Question(query)
      BY <2>1 DEF ReplayOf, ReplayStep, StepOn, StepWith, Screen, ContextQuery, Question
    <2>4. \A k \in DOMAIN table : TableRow(table[k])
      <3>1. \A k \in DOMAIN table : k \in DOMAIN CONTEXT /\ table[k] = CONTEXT[k]
        <4>1. \A start, end : \A k \in DOMAIN ContextOf(CONTEXT, start, end) :
                 k \in DOMAIN CONTEXT /\ ContextOf(CONTEXT, start, end)[k] = CONTEXT[k]
          BY DEF ContextOf, Restrict
        <4>. QED  BY <4>1, Zenon
      <3>. HIDE DEF table
      <3>. QED  BY <3>1, RowsOfTheTable
    <2>. HIDE DEF query, table
    <2>. QED  BY <2>2, <2>3, <2>4, MatchReaches DEF query
  <1>. QED  BY <1>1, SeriesAreKept, PTL

-----------------------------------------------------------------------------
(* Point in time: the sessions after a day change nothing that is said of  *)
(* it, and a longer window changes what was going on only by a later row.  *)

\* A step over a market, whatever the table: only what was going on depends on the table.
LEMMA OnlyContextIsMatched ==
    ASSUME NEW m, NEW symbols, NEW days, NEW date, NEW this, NEW that
    PROVE  /\ OfTheSession(StepOn(m, symbols, days, date, this))
                = OfTheSession(StepOn(m, symbols, days, date, that))
           /\ StepOn(m, symbols, days, date, this).query = StepOn(m, symbols, days, date, that).query
           /\ StepOn(m, symbols, days, date, this).context
                = MatchContext(StepOn(m, symbols, days, date, this).query, this)
  <1> DEFINE ScreenOf(items, top, themes, bench, query, count, context) ==
                 Screen(date, items, top, themes, bench, query, count, context)
             Plainly(a, b, c, q, n, x, r, k) ==
                 [date |-> a, items |-> b, themes |-> c, query |-> q, narrative |-> n,
                  context |-> x, marketReturn |-> r, quietCount |-> k]
             Narrated(items, top, themes, bench, count) ==
                 BuildNarrative(
                   [themes |-> themes, topEventSectors |-> Field(top, LAMBDA x : x.sector),
                    marketReturn |-> bench.ret, marketSigmas |-> bench.sigmas,
                    notableCount |-> Len(items),
                    breadth |-> IF count = 0 THEN 0 ELSE (100 * Len(items)) \div count])
  <1>1. ASSUME NEW items, NEW top, NEW themes, NEW bench, NEW query, NEW count, NEW x
        PROVE  ScreenOf(items, top, themes, bench, query, count, x)
                 = Plainly(date, top, themes, query, Narrated(items, top, themes, bench, count),
                           MatchContext(query, x), bench.ret, count - Len(items))
    BY DEF Screen
  <1>2. \A a, b, c, q, n, x, y, r, k :
           /\ OfTheSession(Plainly(a, b, c, q, n, x, r, k)) = OfTheSession(Plainly(a, b, c, q, n, y, r, k))
           /\ Plainly(a, b, c, q, n, x, r, k).query = q
           /\ Plainly(a, b, c, q, n, x, r, k).context = x
    BY DEF OfTheSession
  <1>. HIDE DEF ScreenOf, Plainly, Narrated
  <1>3. \E items, top, themes, bench, query, count :
           /\ StepOn(m, symbols, days, date, this) = ScreenOf(items, top, themes, bench, query, count, this)
           /\ StepOn(m, symbols, days, date, that) = ScreenOf(items, top, themes, bench, query, count, that)
    BY DEF StepOn, StepWith, ScreenOf
  <1>4. \E a, b, c, q, n, r, k :
           /\ StepOn(m, symbols, days, date, this) = Plainly(a, b, c, q, n, MatchContext(q, this), r, k)
           /\ StepOn(m, symbols, days, date, that) = Plainly(a, b, c, q, n, MatchContext(q, that), r, k)
    <2>1. PICK items, top, themes, bench, query, count :
             /\ StepOn(m, symbols, days, date, this) = ScreenOf(items, top, themes, bench, query, count, this)
             /\ StepOn(m, symbols, days, date, that) = ScreenOf(items, top, themes, bench, query, count, that)
      BY <1>3
    <2>. QED  BY <1>1, <2>1
  <1>. QED  BY <1>2, <1>4

LEMMA ReplaysAgree ==
    ASSUME SeriesKept, NEW d \in Int, d <= today, NEW start
    PROVE  \E query :
              /\ OfTheSession(ReplayOf(d, start, today)) = OfTheSession(ReplayOf(d, start, d))
              /\ ReplayOf(d, start, today).context
                   = MatchContext(query, ContextOf(CONTEXT, start, today))
              /\ ReplayOf(d, start, d).context = MatchContext(query, ContextOf(CONTEXT, start, d))
              /\ query = ReplayOf(d, start, d).query
  <1> DEFINE Over(m, context) == StepOn(m, Universe, ReplayDays(m, Universe, d), d, context)
             upto == ContextOf(CONTEXT, start, d)
             all  == ContextOf(CONTEXT, start, today)
  <1>1. today \in Int
    BY DEF SeriesKept
  <1>2. MarketUntil(Loaded(Market, d), Loaded(Market, today), d)
    <2>1. /\ Loaded(Market, d).sector = Loaded(Market, today).sector
          /\ Loaded(Market, d).etf = Loaded(Market, today).etf
      BY <1>1, LoadedIs
    <2>2. \A s : /\ SeriesOf(Loaded(Market, today), s) = SeriesOf(Market, s)
                 /\ Chronological(SeriesOf(Market, s))
                 /\ SeriesOf(Loaded(Market, d), s) = Upto(SeriesOf(Market, s), d)
      BY LoadedIs, AllIsUptoToday
    <2>. QED  BY <2>1, <2>2 DEF MarketUntil
  <1>3. Over(Loaded(Market, d), all) = Over(Loaded(Market, today), all)
    BY <1>2, SameStep
  <1>4. /\ ReplayOf(d, start, today) = Over(Loaded(Market, today), all)
        /\ ReplayOf(d, start, d) = Over(Loaded(Market, d), upto)
    BY DEF ReplayOf, ReplayStep
  <1>5. /\ OfTheSession(Over(Loaded(Market, d), all)) = OfTheSession(Over(Loaded(Market, d), upto))
        /\ Over(Loaded(Market, d), all).query = Over(Loaded(Market, d), upto).query
        /\ Over(Loaded(Market, d), all).context
             = MatchContext(Over(Loaded(Market, d), all).query, all)
        /\ Over(Loaded(Market, d), upto).context
             = MatchContext(Over(Loaded(Market, d), upto).query, upto)
    BY OnlyContextIsMatched
  <1>. HIDE DEF Over, upto, all
  <1>6. /\ OfTheSession(ReplayOf(d, start, today)) = OfTheSession(ReplayOf(d, start, d))
        /\ ReplayOf(d, start, today).context = MatchContext(ReplayOf(d, start, d).query, all)
        /\ ReplayOf(d, start, d).context = MatchContext(ReplayOf(d, start, d).query, upto)
    BY <1>3, <1>4, <1>5
  <1>. QED  BY <1>6 DEF all, upto

LEMMA ConfidenceIsAPercentage ==
    ASSUME NEW query, NEW event, Question(query), TableRow(event)
    PROVE  ContextConfidence(query, event) \in 0..100
  <1> DEFINE p == ProximityScore(query, event)
             s == ScopeScore(query, event)
             t == SectorScore(query, event)
             w == IMPORTANCE_WEIGHT[event.importance]
             ps == (p * s) \div 100
             pst == (ps * t) \div 100
             all == (pst * w) \div 100
  <1>1. p \in 0..100
    BY ProximityIsAPercentage
  <1>2. s \in 0..100 /\ t \in 0..100 /\ w \in 0..100
    BY DEF ScopeScore, SectorScore, TableRow, IMPORTANCE_WEIGHT
  <1>3. all = ContextConfidence(query, event)
    BY DEF ContextConfidence
  <1>. HIDE DEF p, s, t, w
  <1>4. ps \in 0..100
    BY <1>1, <1>2, Products
  <1>. HIDE DEF ps
  <1>5. pst \in 0..100
    BY <1>2, <1>4, Products
  <1>. HIDE DEF pst
  <1>6. all \in 0..100
    <2>1. (pst * w) \div 100 \in 0..pst
      BY <1>2, <1>5, Products
    <2>. QED  BY <1>5, <2>1
  <1>. QED  BY <1>3, <1>6

\* Positions that are not none have a first.
LEMMA FirstPosition ==
    ASSUME NEW P \in SUBSET Nat, P # {}
    PROVE  \E k \in P : \A j \in P : k <= j
  <1> DEFINE R == OpToRel(<, Nat)
  <1>1. IsWellFoundedOn(R, Nat)
    BY NatLessThanWellFounded
  <1>. HIDE DEF R
  <1>2. PICK k \in P : \A j \in P : <<j, k>> \notin R
    BY <1>1, WFMin
  <1>. USE DEF R
  <1>3. \A j \in P : ~(j < k)
    BY <1>2 DEF OpToRel
  <1>. QED  BY <1>3

\* The candidates with a claim to be made, the most confident, and the first of these.
Claims(query, table) ==
    {k \in DOMAIN table : /\ ProximityScore(query, table[k]) # 0
                          /\ ContextConfidence(query, table[k]) >= MIN_CONTEXT_CONFIDENCE}
Surest(query, table) ==
    {k \in Claims(query, table) : \A j \in Claims(query, table) :
        ContextConfidence(query, table[j]) <= ContextConfidence(query, table[k])}
FirstOf(P) == {k \in P : \A j \in P : k <= j}

LEMMA MatchIs ==
    ASSUME NEW query, NEW table
    PROVE  MatchContext(query, table)
             = {[event |-> table[k], confidence |-> ContextConfidence(query, table[k]),
                 band |-> Band(ContextConfidence(query, table[k]))] :
                k \in FirstOf(Surest(query, table))}
  BY DEF MatchContext, Claims, Surest, FirstOf

\* Where there is a claim to be made, one is made.
LEMMA SomeClaimIsFirst ==
    ASSUME NEW query, NEW table, Question(query), DOMAIN table \in SUBSET Nat,
           \A k \in DOMAIN table : TableRow(table[k]), Claims(query, table) # {}
    PROVE  FirstOf(Surest(query, table)) # {}
  <1> DEFINE Conf(k) == ContextConfidence(query, table[k])
             S == {Conf(k) : k \in Claims(query, table)}
  <1>1. Claims(query, table) \subseteq DOMAIN table
    BY DEF Claims
  <1>2. \A k \in Claims(query, table) : Conf(k) \in 0..100
    BY <1>1, ConfidenceIsAPercentage
  <1>. HIDE DEF Conf
  <1>3. S \in SUBSET (0..100) /\ S # {}
    BY <1>2
  <1>4. Max(S) \in S /\ \A y \in S : y <= Max(S)
    BY <1>3, MaxExists
  <1>5. PICK k \in Claims(query, table) : Conf(k) = Max(S)
    BY <1>4
  <1>6. \A j \in Claims(query, table) : Conf(j) <= Conf(k)
    BY <1>4, <1>5
  <1>7. k \in Surest(query, table)
    BY <1>6 DEF Surest, Conf
  <1>8. Surest(query, table) \in SUBSET Nat
    BY <1>1 DEF Surest
  <1>9. PICK f \in Surest(query, table) : \A j \in Surest(query, table) : f <= j
    BY <1>7, <1>8, FirstPosition
  <1>. QED  BY <1>9 DEF FirstOf

\* The rows a longer window adds take the place of what is told, or change nothing.
LEMMA OnlyALaterRowReplaces ==
    ASSUME NEW query, NEW table, Question(query), DOMAIN table \in SUBSET Nat,
           \A k \in DOMAIN table : TableRow(table[k]),
           NEW start \in Int, NEW d \in Int, NEW end \in Int, d <= end
    PROVE  \/ MatchContext(query, ContextOf(table, start, end))
                = MatchContext(query, ContextOf(table, start, d))
           \/ \E m \in MatchContext(query, ContextOf(table, start, end)) : m.event.date > d
  <1> DEFINE long  == ContextOf(table, start, end)
             short == ContextOf(table, start, d)
             told(t) == FirstOf(Surest(query, t))
  <1>1. /\ DOMAIN long = {k \in DOMAIN table : table[k].date \in start..end}
        /\ DOMAIN short = {k \in DOMAIN table : table[k].date \in start..d}
        /\ \A k \in DOMAIN long : long[k] = table[k]
        /\ \A k \in DOMAIN short : short[k] = table[k]
    <2>1. /\ DOMAIN long = {k \in DOMAIN table : table[k].date \in start..end}
          /\ \A k \in DOMAIN long : long[k] = table[k]
      BY DEF ContextOf, Restrict
    <2>2. /\ DOMAIN short = {k \in DOMAIN table : table[k].date \in start..d}
          /\ \A k \in DOMAIN short : short[k] = table[k]
      BY DEF ContextOf, Restrict
    <2>. QED  BY <2>1, <2>2
  <1>2. \A k \in DOMAIN table : table[k].date \in Int
    BY DEF TableRow
  <1>. HIDE DEF long, short
  <1>3. DOMAIN short = {k \in DOMAIN long : long[k].date <= d}
    BY <1>1, <1>2
  <1>4. \A k \in DOMAIN long : TableRow(long[k]) /\ long[k].date \in Int
    BY <1>1, <1>2
  <1>5. \A k \in DOMAIN long : ContextConfidence(query, long[k]) \in Int
    BY <1>4, ConfidenceIsAPercentage
  <1>6. Claims(query, short) = {k \in Claims(query, long) : long[k].date <= d}
    <2>1. \A k \in DOMAIN short : short[k] = long[k]
      BY <1>1, <1>3
    <2>. QED  BY <1>3, <2>1 DEF Claims
  <1>7. Claims(query, long) \subseteq DOMAIN long /\ Surest(query, long) \subseteq Claims(query, long)
    BY DEF Claims, Surest
  <1>8. CASE \E k \in told(long) : long[k].date > d
    <2>1. PICK k \in told(long) : long[k].date > d
      BY <1>8
    <2>. DEFINE m == [event |-> long[k], confidence |-> ContextConfidence(query, long[k]),
                      band |-> Band(ContextConfidence(query, long[k]))]
    <2>2. m \in MatchContext(query, long) /\ m.event.date > d
      BY <2>1, MatchIs
    <2>. QED  BY <2>2 DEF long
  <1>9. CASE told(long) = {}
    <2>1. Claims(query, long) = {}
      BY <1>1, <1>4, <1>9, SomeClaimIsFirst
    <2>2. Claims(query, short) = {}
      BY <1>6, <2>1
    <2>3. told(short) = {}
      BY <2>2 DEF Surest, FirstOf
    <2>4. MatchContext(query, long) = {} /\ MatchContext(query, short) = {}
      BY <1>9, <2>3, MatchIs
    <2>. QED  BY <2>4 DEF long, short
  <1>10. CASE told(long) # {} /\ \A k \in told(long) : ~(long[k].date > d)
    <2>1. PICK k \in told(long) : long[k].date <= d
      BY <1>4, <1>7, <1>10 DEF FirstOf
    <2>2. /\ k \in Surest(query, long) /\ k \in Claims(query, long) /\ k \in DOMAIN long
          /\ \A j \in Surest(query, long) : k <= j
      BY <1>7 DEF FirstOf
    <2>3. k \in Claims(query, short) /\ long[k] = short[k]
      BY <1>1, <1>3, <1>6, <2>1, <2>2
    <2>4. \A j \in Claims(query, short) :
             /\ j \in Claims(query, long) /\ short[j] = long[j] /\ j \in DOMAIN long
      BY <1>1, <1>3, <1>6, <1>7
    <2>5. k \in Surest(query, short)
      BY <2>2, <2>3, <2>4 DEF Surest
    <2>6. \A j \in Surest(query, short) : j \in Surest(query, long)
      <3>. SUFFICES ASSUME NEW j \in Surest(query, short) PROVE j \in Surest(query, long)
        OBVIOUS
      <3>1. /\ j \in Claims(query, short)
            /\ ContextConfidence(query, short[k]) <= ContextConfidence(query, short[j])
        BY <2>3 DEF Surest
      <3>2. ContextConfidence(query, long[k]) <= ContextConfidence(query, long[j])
        BY <2>3, <2>4, <3>1
      <3>3. \A i \in Claims(query, long) :
               ContextConfidence(query, long[i]) <= ContextConfidence(query, long[k])
        BY <2>2 DEF Surest
      <3>4. \A i \in Claims(query, long) :
               ContextConfidence(query, long[i]) <= ContextConfidence(query, long[j])
        BY <1>5, <1>7, <2>2, <2>4, <3>1, <3>2, <3>3
      <3>. QED  BY <2>4, <3>1, <3>4 DEF Surest
    <2>7. \A j \in DOMAIN long : j \in Nat
      BY <1>1
    <2>8. told(long) = {k}
      BY <1>7, <2>2, <2>7 DEF FirstOf
    <2>9. told(short) = {k}
      <3>1. \A j \in Surest(query, short) : k <= j /\ j \in Nat
        BY <1>7, <2>2, <2>6, <2>7
      <3>. QED  BY <2>2, <2>5, <2>7, <3>1 DEF FirstOf
    <2>10. MatchContext(query, long) = MatchContext(query, short)
      BY <2>3, <2>8, <2>9, MatchIs
    <2>. QED  BY <2>10 DEF long, short
  <1>. QED  BY <1>8, <1>9, <1>10

(* For any market, table, windows and thresholds: what the pipeline, the    *)
(* themes and the replay say of a session does not depend on the sessions   *)
(* after it, nor on where the replay's window ends; only the curated row    *)
(* told beside it does, and then it is a row of a later day (proxyWindow of *)
(* pipeline.ts, regressWindow of compute.ts, the loading of scenarios.ts;   *)
(* "assertNoLookahead").                                                    *)
THEOREM NothingLooksAhead == Spec => []PointInTime
  <1>1. ASSUME SeriesKept PROVE PointInTime
    <2>1. today \in Int /\ FirstDay \in Int
      <3>1. FirstDay \in Nat
        BY EngineAssumption
      <3>. QED  BY <1>1, <3>1 DEF SeriesKept
    <2>. SUFFICES ASSUME NEW d \in FirstDay - 2..today - 1
                  PROVE  /\ \A then \in {ComputeAndPersist(Loaded(Market, d))} :
                               /\ {e \in computed.events : e.date <= d} = then.events
                               /\ {t \in computed.themes : t.day <= d} = then.themes
                         /\ \A start \in {FirstDay - 2, d} :
                               /\ OfTheSession(ReplayOf(d, start, today))
                                    = OfTheSession(ReplayOf(d, start, d))
                               /\ \/ ReplayOf(d, start, today).context = ReplayOf(d, start, d).context
                                  \/ \E m \in ReplayOf(d, start, today).context : m.event.date > d
      BY DEF PointInTime
    <2>2. d \in Int /\ d <= today
      BY <2>1
    <2>3. MarketUntil(Loaded(Market, d), Market, d)
      BY <1>1, <2>2, LoadedUntil
    <2>4. computed = ComputeAndPersist(Market)
      BY <1>1 DEF SeriesKept
    <2>5. /\ {e \in computed.events : e.date <= d} = ComputeAndPersist(Loaded(Market, d)).events
          /\ {t \in computed.themes : t.day <= d} = ComputeAndPersist(Loaded(Market, d)).themes
      BY <2>2, <2>3, <2>4, StoredUntil
    <2>6. ASSUME NEW start \in {FirstDay - 2, d}
          PROVE  /\ OfTheSession(ReplayOf(d, start, today)) = OfTheSession(ReplayOf(d, start, d))
                 /\ \/ ReplayOf(d, start, today).context = ReplayOf(d, start, d).context
                    \/ \E m \in ReplayOf(d, start, today).context : m.event.date > d
      <3>1. PICK query :
               /\ OfTheSession(ReplayOf(d, start, today)) = OfTheSession(ReplayOf(d, start, d))
               /\ ReplayOf(d, start, today).context
                    = MatchContext(query, ContextOf(CONTEXT, start, today))
               /\ ReplayOf(d, start, d).context = MatchContext(query, ContextOf(CONTEXT, start, d))
               /\ query = ReplayOf(d, start, d).query
        BY <1>1, <2>2, ReplaysAgree
      <3>2. Question(query)
        BY <2>2, <3>1 DEF ReplayOf, ReplayStep, StepOn, StepWith, Screen, ContextQuery, Question
      <3>3. /\ \A k \in DOMAIN CONTEXT : TableRow(CONTEXT[k])
            /\ DOMAIN CONTEXT \in SUBSET Nat
        BY RowsOfTheTable
      <3>4. start \in Int
        BY <2>1, <2>2
      <3>5. \/ MatchContext(query, ContextOf(CONTEXT, start, today))
               = MatchContext(query, ContextOf(CONTEXT, start, d))
            \/ \E m \in MatchContext(query, ContextOf(CONTEXT, start, today)) : m.event.date > d
        BY <2>1, <2>2, <3>2, <3>3, <3>4, OnlyALaterRowReplaces
      <3>. QED  BY <3>1, <3>5
    <2>. QED  BY <2>5, <2>6
  <1>. QED  BY <1>1, SeriesAreKept, PTL

-----------------------------------------------------------------------------
(* The desk once everything is marked as seen                              *)

LEMMA RowsAreOfAWatchlist == DeskSpec => [](user.rows \in Seq(Range(user.rows)))
  <1> DEFINE OfAList(u) == u.rows \in WATCHLISTS /\ "rows" \in DOMAIN u
  <1>1. DeskInit => OfAList(user)
    BY DEF DeskInit
  <1>2. OfAList(user) /\ [DeskNext]_deskVars => OfAList(user)'
    <2>. SUFFICES ASSUME OfAList(user), DeskNext \/ UNCHANGED deskVars
                  PROVE  "rows" \in DOMAIN user' /\ user'.rows = user.rows
      OBVIOUS
    <2>1. CASE UNCHANGED deskVars
      BY <2>1 DEF deskVars
    <2>2. ASSUME NEW move \in Moves, Recomputed(move)
          PROVE  "rows" \in DOMAIN user' /\ user'.rows = user.rows
      BY <2>2 DEF Recomputed
    <2>3. CASE StampPasses \/ Morning
      BY <2>3 DEF StampPasses, Morning
    <2>4. CASE MarkAllSeen
      BY <2>4 DEF MarkAllSeen, Acknowledged
    <2>5. ASSUME NEW i, MarkCardSeen(i) \/ SnoozeCard(i)
          PROVE  "rows" \in DOMAIN user' /\ user'.rows = user.rows
      BY <2>5 DEF MarkCardSeen, SnoozeCard, Acknowledged, Deferred
    <2>. QED  BY <2>1, <2>2, <2>3, <2>4, <2>5 DEF DeskNext
  <1>3. OfAList(user) => user.rows \in Seq(Range(user.rows))
    BY DeskAssumption
  <1>. QED  BY <1>1, <1>2, <1>3, PTL DEF DeskSpec

\* A card keeps the name of its item.
LEMMA SurfacedIs ==
    ASSUME NEW S, NEW items \in Seq(S), \A i \in DOMAIN items : items[i].attentionScore \in Int,
           \A i \in Range(items) : "symbol" \in DOMAIN i,
           NEW x \in Range(Surfaced(items))
    PROVE  \E i \in Range(items) : x.symbol = i.symbol
  <1> DEFINE worth  == {i \in Range(items) : i.severity \in SURFACED}
             kept   == Kept(items, worth)
             ranked == ByScore(kept)
  <1>1. kept \in Seq(S \cap worth) /\ Range(kept) = Range(items) \cap worth
    BY KeptIs
  <1>2. \A i \in DOMAIN kept : kept[i].attentionScore \in Int
    <2>1. \A i \in DOMAIN kept : kept[i] \in Range(items)
      BY <1>1 DEF Range
    <2>. HIDE DEF kept
    <2>. QED  BY <2>1 DEF Range
  <1>. HIDE DEF worth
  <1>3. Range(ranked) \subseteq Range(items)
    <2>1. kept \in Seq(S \cap worth)
      BY <1>1
    <2>. HIDE DEF kept
    <2>. QED  BY <1>1, <1>2, <2>1, ByScoreKeeps
  <1>. HIDE DEF kept
  <1> DEFINE Framed(k) ==
                 [rank |-> k,
                  framing |-> FrameForPosition(
                     [intent |-> ranked[k].intent, returnPct |-> ranked[k].stats.returnPct,
                      sigmas |-> OrZero(ranked[k].stats.sigmas),
                      peakFromNow |-> OrZero({p.fromNow : p \in ranked[k].stats.peak})])]
  <1>4. Surfaced(items) = [k \in DOMAIN ranked |-> With(Framed(k), ranked[k])]
    BY DEF Surfaced, kept, worth
  <1>5. \A k : DOMAIN Framed(k) = {"rank", "framing"}
    OBVIOUS
  <1>. HIDE DEF Framed, ranked
  <1>6. PICK k \in DOMAIN ranked : x = With(Framed(k), ranked[k])
    BY <1>4 DEF Range
  <1>7. ranked[k] \in Range(items) /\ "symbol" \in DOMAIN ranked[k]
    BY <1>3, <1>6 DEF Range
  <1>8. x.symbol = ranked[k].symbol
    BY <1>5, <1>6, <1>7, WithSecond
  <1>. QED  BY <1>7, <1>8

\* Every card is of a name of which something is visible.
LEMMA CardsTellOfVisible ==
    ASSUME NEW desk, desk.rows \in Seq(Range(desk.rows)), NEW symbols, NEW since, NEW events,
           NEW x \in Range(BriefFrom(desk, symbols, since, events).all)
    PROVE  \E e \in events : e.symbol = x.symbol
  <1> DEFINE visible == {e \in events : e.fingerprint \notin desk.seen \cup desk.snoozed}
             telling == {row \in Range(desk.rows) : \E e \in visible : e.symbol = row.symbol}
             worth == Kept(desk.rows, telling)
             items == Items(desk.rows, desk.market, visible, desk.cursor, desk.ranks, desk.sessions)
             snoozed == {e.symbol : e \in {e \in events : e.fingerprint \in desk.snoozed}}
                        \ {e.symbol : e \in visible}
             shown == Shown(Surfaced(items), desk.attentionBudget)
             cards == Cards(desk.rows, items, Surfaced(items), shown, snoozed)
             ItemOf(row) == Item(row, EventsOf(visible, row.symbol),
                                 StatsOf(desk.market, row.symbol, desk.cursor[row.symbol],
                                         desk.sessions),
                                 desk.market.sector[row.symbol], desk.ranks[row.symbol])
  <1>1. items = [k \in DOMAIN worth |-> ItemOf(worth[k])]
    BY TableIs DEF Items, Field
  <1>2. \A row : /\ ItemOf(row).symbol = row.symbol /\ ItemOf(row).attentionScore \in Int
                 /\ "symbol" \in DOMAIN ItemOf(row)
    BY WholePointsAreNumbers DEF Item
  <1>3. worth \in Seq(Range(desk.rows) \cap telling)
    BY KeptIs
  <1>4. \E y : BriefFrom(desk, symbols, since, events) = With(cards, y)
    BY DEF BriefFrom
  <1>5. "all" \in DOMAIN cards /\ cards.all = Surfaced(items)
    BY DEF Cards
  <1>. HIDE DEF cards, items
  <1>6. x \in Range(Surfaced(items))
    BY <1>4, <1>5, WithFirst
  <1>. HIDE DEF ItemOf, worth
  <1>7. /\ items \in Seq(Range(items))
        /\ \A i \in DOMAIN items : items[i].attentionScore \in Int
        /\ \A i \in Range(items) : "symbol" \in DOMAIN i
    BY <1>1, <1>2, <1>3 DEF Range
  <1>8. PICK i \in Range(items) : x.symbol = i.symbol
    BY <1>6, <1>7, SurfacedIs
  <1>9. PICK k \in DOMAIN worth : i = ItemOf(worth[k])
    BY <1>1, <1>8 DEF Range
  <1>10. worth[k] \in telling
    BY <1>3, <1>9
  <1>. QED  BY <1>2, <1>8, <1>9, <1>10

\* What is unseen when all names have the same cursor.
LEMMA UnseenOfOneCursor ==
    ASSUME SeriesKept, NEW hour \in {6, 8}, AllSeenAt(hour), user.rows # <<>>
    PROVE  LET unseen == Unseen(computed.events, Watched, Since(Restrict(user.cursor, Watched)))
           IN  /\ hour = 8 => unseen = {}
               /\ hour = 6 => \A e \in unseen : e \in computed.events /\ e.date = LatestSession
  <1> DEFINE cursor == Restrict(user.cursor, Watched)
             unseen == Unseen(computed.events, Watched, Since(cursor))
             stamp == 10 * LatestSession + hour
  <1>1. LatestSession \in Int
    <2>1. today \in Int
      BY DEF SeriesKept
    <2>2. CASE closed
      BY <2>1, <2>2 DEF LatestSession
    <2>3. CASE ~closed
      BY <2>1, <2>3 DEF LatestSession
    <2>. QED  BY <2>2, <2>3
  <1>2. CASE Watched = {}
    BY <1>2 DEF Unseen
  <1>3. CASE Watched # {}
    <2>0. \A s \in Watched : user.cursor[s] = {stamp}
      BY DEF AllSeenAt
    <2>1. stamp \in Int
      BY <1>1
    <2>. HIDE DEF stamp
    <2>2. Range(cursor) = {{stamp}}
      BY <1>3, <2>0 DEF Restrict, Range
    <2>3. Since(cursor) = {stamp}
      <3>1. UNION Range(cursor) = {stamp} /\ Min({stamp}) = stamp
        BY <2>1, <2>2, MinOfOne
      <3>. HIDE DEF cursor
      <3>. QED  BY <3>1 DEF Since
    <2>4. Min(Since(cursor)) = stamp
      BY <2>1, <2>3, MinOfOne
    <2>. HIDE DEF cursor
    <2>5. \A e \in unseen : e \in computed.events /\ Close(e.date) > stamp
      BY <2>3, <2>4 DEF Unseen
    <2>. HIDE DEF unseen
    <2>6. \A e \in unseen : e.date \in Int /\ e.date <= LatestSession /\ 10 * e.date + 7 > stamp
      BY <2>5, EventsArePast DEF Close
    <2>. QED  BY <1>1, <2>5, <2>6 DEF stamp, unseen, cursor
  <1>. QED  BY <1>2, <1>3

(* For any market and any watchlist: when every name was marked as seen     *)
(* after a close, the brief has no card until the next one; when that was   *)
(* before the 21:00Z stamped on the session's events, the only cards are of *)
(* names of which that session says something (markSeen and the cursor of   *)
(* assembleSitrep, both in sitrep.ts; eventRow of compute.ts).              *)
THEOREM NothingAfterAllSeen == DeskSpec => []QuietOnceAllSeen
  <1>1. ASSUME SeriesKept, user.rows \in Seq(Range(user.rows)) PROVE QuietOnceAllSeen
    <2> DEFINE since == Since(Restrict(user.cursor, Watched))
               unseen == Unseen(computed.events, Watched, since)
    <2>1. CASE user.rows = <<>>
      BY <2>1 DEF QuietOnceAllSeen, Sitrep, SitrepOf, AssembleSitrep, EmptyResult, Names, Range
    <2>2. CASE user.rows # <<>>
      <3>1. PICK desk : desk.rows = user.rows /\ Sitrep = BriefFrom(desk, Watched, since, unseen)
        BY <2>2 DEF Sitrep, SitrepOf, AssembleSitrep, Watched
      <3>2. ASSUME AllSeenAt(8) PROVE Sitrep.quiet
        <4>1. unseen = {}
          BY <1>1, <2>2, <3>2, UnseenOfOneCursor
        <4>. HIDE DEF unseen, since
        <4>. QED  BY <3>1, <4>1, NothingVisible
      <3>3. ASSUME AllSeenAt(6), NEW x \in Range(Sitrep.all)
            PROVE  \E e \in computed.events : e.date = LatestSession /\ e.symbol = x.symbol
        <4>1. \A e \in unseen : e \in computed.events /\ e.date = LatestSession
          BY <1>1, <2>2, <3>3, UnseenOfOneCursor
        <4>. HIDE DEF unseen, since
        <4>2. PICK e \in unseen : e.symbol = x.symbol
          BY <1>1, <3>1, <3>3, CardsTellOfVisible
        <4>. QED  BY <4>1, <4>2
      <3>. QED  BY <3>2, <3>3 DEF QuietOnceAllSeen, Names
    <2>. QED  BY <2>1, <2>2
  <1>2. DeskSpec => []SeriesKept
    BY DeskRunsTheEngine, SeriesAreKept
  <1>. QED  BY <1>1, <1>2, RowsAreOfAWatchlist, PTL

=============================================================================
