--------------------------- MODULE SchedulerProofs ---------------------------
(***************************************************************************)
(* Proofs about Scheduler: that its binary search finds the slot it looks  *)
(* for, that the timeline stays in order whatever is put into it, taken    *)
(* out of it and swept from it, that the one timer covers the first slot,  *)
(* and that all this keeps the promise of TaskPool.                        *)
(***************************************************************************)
EXTENDS Scheduler, FiniteSetTheorems, SequenceTheorems, WellFoundedInduction, TLAPS

-----------------------------------------------------------------------------
(* Numbers.                                                                *)

\* There is a least number in every set of numbers.
LEMMA LeastNumber ==
    ASSUME NEW S \in SUBSET Nat, S # {}
    PROVE  \E n \in S : \A other \in S : n <= other
<1> DEFINE R == OpToRel(<, Nat)
<1>1. PICK n \in S : \A other \in S : ~ (<<other, n>> \in R)
  BY NatLessThanWellFounded, WFMin, Zenon
<1>2. \A other \in S : ~ (other < n)
  BY <1>1, Zenon DEF OpToRel
<1>3. QED
  BY <1>2

\* Induction: a set of numbers that has 0 and the successor of each of its
\* members has every number.
LEMMA AllNumbers ==
    ASSUME NEW S \in SUBSET Nat, 0 \in S, \A n \in S : n + 1 \in S
    PROVE  Nat \subseteq S
<1> DEFINE Missing == Nat \ S
<1>1. SUFFICES ASSUME Missing # {} PROVE FALSE
  OBVIOUS
<1>2. PICK n \in Missing : \A other \in Missing : n <= other
  <2> Missing \in SUBSET Nat
    OBVIOUS
  <2> HIDE DEF Missing
  <2> QED
    BY <1>1, LeastNumber
<1>3. n \in Nat /\ n \notin S /\ n # 0
  BY <1>2
<1>4. n - 1 \in Nat /\ ~ (n <= n - 1)
  BY <1>3
<1>5. n - 1 \in S
  BY <1>2, <1>4
<1>6. QED
  BY <1>3, <1>5

\* g starts with "base" and goes from n to n + 1 by "step".
Built(S, base, step, g) ==
    /\ g \in [Nat -> S]
    /\ g[0] = base
    /\ \A n \in Nat : g[n + 1] = step[<<n, g[n]>>]

\* A sequence of values may be built one at a time.
LEMMA StepByStep ==
    ASSUME NEW S, NEW base \in S, NEW step \in [Nat \X S -> S]
    PROVE  \E g : Built(S, base, step, g)
<1> DEFINE Upto(g, n) == /\ g \in [0..n -> S]
                         /\ g[0] = base
                         /\ \A m \in 0..n : m < n => g[m + 1] = step[<<m, g[m]>>]
           Good == {n \in Nat : \E g : Upto(g, n)}
<1>1. 0 \in Good
  <2>1. Upto([m \in 0..0 |-> base], 0)
    OBVIOUS
  <2>2. QED
    BY <2>1
<1>2. ASSUME NEW n \in Good PROVE n + 1 \in Good
  <2>1. PICK g : Upto(g, n)
    OBVIOUS
  <2> DEFINE h == [m \in 0..n + 1 |-> IF m <= n THEN g[m] ELSE step[<<n, g[n]>>]]
  <2>2. n \in Nat /\ g[n] \in S /\ step[<<n, g[n]>>] \in S
    BY <2>1
  <2>3. h \in [0..n + 1 -> S]
    BY <2>1, <2>2
  <2>4. h[0] = base /\ h[n + 1] = step[<<n, g[n]>>] /\ \A m \in 0..n : h[m] = g[m]
    BY <2>1, <2>2
  <2> HIDE DEF h
  <2>5. ASSUME NEW m \in 0..n + 1, m < n + 1 PROVE h[m + 1] = step[<<m, h[m]>>]
    <3>1. CASE m = n
      <4>1. n \in 0..n
        BY <2>2
      <4>2. h[n] = g[n]
        BY <2>4, <4>1
      <4>3. QED
        BY <2>4, <3>1, <4>2
    <3>2. CASE m < n
      <4>1. m \in 0..n /\ m + 1 \in 0..n
        BY <2>2, <3>2
      <4>2. g[m + 1] = step[<<m, g[m]>>]
        BY <2>1, <3>2, <4>1
      <4>3. QED
        BY <2>4, <4>1, <4>2
    <3>3. QED
      BY <2>2, <2>5, <3>1, <3>2
  <2>6. Upto(h, n + 1)
    BY <2>3, <2>4, <2>5, Zenon
  <2>7. n + 1 \in Nat
    BY <2>2
  <2> HIDE DEF Upto
  <2>8. \E other : Upto(other, n + 1)
    BY <2>6, Zenon
  <2>9. QED
    BY <2>7, <2>8
<1>3. Nat \subseteq Good
  <2> HIDE DEF Good
  <2> Good \in SUBSET Nat
    BY DEF Good
  <2> QED
    BY <1>1, <1>2, AllNumbers
<1> DEFINE pick == [n \in Nat |-> CHOOSE g : Upto(g, n)]
<1>4. \A n \in Nat : Upto(pick[n], n)
  <2> SUFFICES ASSUME NEW n \in Nat PROVE Upto(pick[n], n)
    OBVIOUS
  <2>1. \E g : Upto(g, n)
    BY <1>3
  <2> HIDE DEF Upto
  <2>2. QED
    BY <2>1, Zenon
<1> HIDE DEF pick
<1>5. \A n \in Nat : \A m \in 0..n : pick[n][m] = pick[m][m]
  <2> SUFFICES ASSUME NEW n \in Nat PROVE \A m \in 0..n : pick[n][m] = pick[m][m]
    OBVIOUS
  <2> DEFINE Same == {m \in Nat : \A k \in Nat : k >= m => pick[k][m] = pick[m][m]}
  <2>1. 0 \in Same
    BY <1>4
  <2>2. ASSUME NEW m \in Same PROVE m + 1 \in Same
    <3> SUFFICES ASSUME NEW k \in Nat, k >= m + 1 PROVE pick[k][m + 1] = pick[m + 1][m + 1]
      OBVIOUS
    <3>1. m \in Nat /\ m \in 0..k /\ m < k /\ m \in 0..m + 1 /\ m < m + 1 /\ m + 1 \in Nat
      OBVIOUS
    <3>2. pick[k][m] = pick[m][m] /\ pick[m + 1][m] = pick[m][m]
      BY <3>1
    <3>3. pick[k][m + 1] = step[<<m, pick[k][m]>>]
      BY <1>4, <3>1
    <3>4. pick[m + 1][m + 1] = step[<<m, pick[m + 1][m]>>]
      BY <1>4, <3>1
    <3>5. QED
      BY <3>2, <3>3, <3>4
  <2>3. Nat \subseteq Same
    <3> HIDE DEF Same
    <3> Same \in SUBSET Nat
      BY DEF Same
    <3> QED
      BY <2>1, <2>2, AllNumbers
  <2>4. QED
    BY <2>3
<1> DEFINE all == [n \in Nat |-> pick[n][n]]
<1>6. all \in [Nat -> S] /\ all[0] = base
  BY <1>4
<1>7. \A n \in Nat : all[n + 1] = step[<<n, all[n]>>]
  <2> SUFFICES ASSUME NEW n \in Nat PROVE all[n + 1] = step[<<n, all[n]>>]
    OBVIOUS
  <2>1. n \in 0..n + 1 /\ n < n + 1 /\ n + 1 \in Nat
    OBVIOUS
  <2>2. pick[n + 1][n + 1] = step[<<n, pick[n + 1][n]>>]
    BY <1>4, <2>1
  <2>3. pick[n + 1][n] = pick[n][n]
    BY <1>5, <2>1
  <2>4. QED
    BY <2>1, <2>2, <2>3
<1>8. QED
  BY <1>6, <1>7 DEF Built

\* Floor rounds down, by less than a millisecond, and keeps the order.
LEMMA FloorFacts ==
    ASSUME NEW a \in Nat
    PROVE  /\ Floor(a) \in Nat
           /\ Floor(a) <= a
           /\ \A b \in Nat : a <= b => Floor(a) <= Floor(b)
<1> DEFINE q == a \div Grain
<1>1. Grain \in Nat /\ Grain > 0
  BY GrainAssumption
<1>2. q \in Nat /\ q * Grain <= a
  BY <1>1
<1>3. q * Grain \in Nat
  BY <1>1, <1>2
<1>4. ASSUME NEW b \in Nat, a <= b PROVE q * Grain <= (b \div Grain) * Grain
  <2> DEFINE r == b \div Grain
  <2>1. r \in Nat /\ b < r * Grain + Grain
    BY <1>1
  <2>2. q <= r
    <3>1. SUFFICES ASSUME q >= r + 1 PROVE FALSE
      BY <1>2, <2>1
    <3> HIDE DEF q, r
    <3>2. q * Grain >= (r + 1) * Grain
      BY <1>1, <1>2, <2>1, <3>1
    <3>3. (r + 1) * Grain = r * Grain + Grain
      BY <1>1, <2>1
    <3>4. r * Grain \in Nat
      BY <1>1, <2>1
    <3>5. QED
      BY <1>1, <1>2, <1>3, <1>4, <2>1, <3>2, <3>3, <3>4
  <2> HIDE DEF q, r
  <2>3. q * Grain <= r * Grain
    BY <1>1, <1>2, <2>1, <2>2
  <2>4. QED
    BY <2>3 DEF r
<1>5. QED
  BY <1>2, <1>3, <1>4 DEF Floor
-----------------------------------------------------------------------------
(* Sequences.                                                              *)

\* A sequence with an element put in at i.
LEMMA InsertFacts ==
    ASSUME NEW S, NEW s \in Seq(S), NEW e \in S, NEW i \in 1..Len(s) + 1
    PROVE  /\ InsertAt(s, i, e) \in Seq(S)
           /\ Len(InsertAt(s, i, e)) = Len(s) + 1
           /\ \A k \in 1..Len(s) + 1 :
                InsertAt(s, i, e)[k] = IF k < i THEN s[k]
                                       ELSE IF k = i THEN e ELSE s[k - 1]
<1> DEFINE a == SubSeq(s, 1, i - 1)
           b == SubSeq(s, i, Len(s))
<1>0. Len(s) \in Nat /\ i \in Nat /\ i >= 1 /\ i <= Len(s) + 1
  BY LenProperties
<1>1. /\ a \in Seq(S) /\ Len(a) = i - 1
      /\ \A k \in 1..i - 1 : a[k] = s[k]
  <2>1. \A k \in 1..i - 1 : s[k] \in S
    BY <1>0, ElementOfSeq
  <2>2. 1 \in Int /\ i - 1 \in Int
    BY <1>0
  <2>3. /\ a \in Seq(S)
        /\ Len(a) = IF 1 <= i - 1 THEN (i - 1) - 1 + 1 ELSE 0
        /\ \A k \in 1..(i - 1) - 1 + 1 : a[k] = s[1 + k - 1]
    BY <2>1, <2>2, SubSeqProperties
  <2> HIDE DEF a
  <2>4. QED
    BY <1>0, <2>3
<1>2. /\ b \in Seq(S) /\ Len(b) = Len(s) - i + 1
      /\ \A k \in 1..Len(s) - i + 1 : b[k] = s[i + k - 1]
  <2>1. \A k \in i..Len(s) : s[k] \in S
    BY <1>0, ElementOfSeq
  <2>2. i \in Int /\ Len(s) \in Int
    BY <1>0
  <2>3. /\ b \in Seq(S)
        /\ Len(b) = IF i <= Len(s) THEN Len(s) - i + 1 ELSE 0
        /\ \A k \in 1..Len(s) - i + 1 : b[k] = s[i + k - 1]
    BY <2>1, <2>2, SubSeqProperties
  <2> HIDE DEF b
  <2>4. QED
    BY <1>0, <2>3
<1> HIDE DEF a, b
<1> DEFINE c == a \o <<e>>
<1>3. <<e>> \in Seq(S) /\ Len(<<e>>) = 1 /\ <<e>>[1] = e
  OBVIOUS
<1>4. /\ c \in Seq(S) /\ Len(c) = i
      /\ \A k \in 1..i : c[k] = IF k < i THEN s[k] ELSE e
  <2>1. /\ c \in Seq(S) /\ Len(c) = Len(a) + Len(<<e>>)
        /\ \A k \in 1..Len(a) + Len(<<e>>) :
             c[k] = IF k <= Len(a) THEN a[k] ELSE <<e>>[k - Len(a)]
    BY <1>1, <1>3, ConcatProperties
  <2> HIDE DEF c
  <2>2. QED
    BY <1>0, <1>1, <1>3, <2>1
<1> HIDE DEF c
<1>5. /\ c \o b \in Seq(S) /\ Len(c \o b) = Len(c) + Len(b)
      /\ \A k \in 1..Len(c) + Len(b) :
           (c \o b)[k] = IF k <= Len(c) THEN c[k] ELSE b[k - Len(c)]
  BY <1>2, <1>4, ConcatProperties
<1> DEFINE d == c \o b
<1>6. d = InsertAt(s, i, e)
  BY DEF InsertAt, a, b, c
<1>7. /\ d \in Seq(S) /\ Len(d) = Len(s) + 1
      /\ \A k \in 1..Len(s) + 1 : d[k] = IF k <= i THEN c[k] ELSE b[k - i]
  <2> HIDE DEF d
  <2> QED
    BY <1>0, <1>2, <1>4, <1>5 DEF d
<1> HIDE DEF d
<1>8. ASSUME NEW k \in 1..Len(s) + 1
      PROVE  d[k] = IF k < i THEN s[k] ELSE IF k = i THEN e ELSE s[k - 1]
  <2>1. CASE k <= i
    BY <1>0, <1>4, <1>7, <2>1
  <2>2. CASE k > i
    <3>1. d[k] = b[k - i]
      BY <1>0, <1>7, <2>2
    <3>2. k - i \in 1..Len(s) - i + 1 /\ i + (k - i) - 1 = k - 1
      BY <1>0, <2>2
    <3>3. b[k - i] = s[k - 1]
      BY <1>2, <3>2
    <3>4. QED
      BY <1>0, <2>2, <3>1, <3>3
  <2>3. QED
    BY <1>0, <2>1, <2>2
<1>9. QED
  BY <1>6, <1>7, <1>8

\* A sequence with the element at i taken out.
LEMMA RemoveFacts ==
    ASSUME NEW S, NEW s \in Seq(S), NEW i \in 1..Len(s)
    PROVE  /\ RemoveAt(s, i) \in Seq(S)
           /\ Len(RemoveAt(s, i)) = Len(s) - 1
           /\ \A k \in 1..Len(s) - 1 :
                RemoveAt(s, i)[k] = IF k < i THEN s[k] ELSE s[k + 1]
<1> DEFINE a == SubSeq(s, 1, i - 1)
           b == SubSeq(s, i + 1, Len(s))
<1>0. Len(s) \in Nat /\ i \in Nat /\ i >= 1 /\ i <= Len(s)
  BY LenProperties
<1>1. /\ a \in Seq(S) /\ Len(a) = i - 1
      /\ \A k \in 1..i - 1 : a[k] = s[k]
  <2>1. \A k \in 1..i - 1 : s[k] \in S
    BY <1>0, ElementOfSeq
  <2>2. 1 \in Int /\ i - 1 \in Int
    BY <1>0
  <2>3. /\ a \in Seq(S)
        /\ Len(a) = IF 1 <= i - 1 THEN (i - 1) - 1 + 1 ELSE 0
        /\ \A k \in 1..(i - 1) - 1 + 1 : a[k] = s[1 + k - 1]
    BY <2>1, <2>2, SubSeqProperties
  <2> HIDE DEF a
  <2>4. QED
    BY <1>0, <2>3
<1>2. /\ b \in Seq(S) /\ Len(b) = Len(s) - i
      /\ \A k \in 1..Len(s) - i : b[k] = s[i + k]
  <2>1. \A k \in i + 1..Len(s) : s[k] \in S
    BY <1>0, ElementOfSeq
  <2>2. i + 1 \in Int /\ Len(s) \in Int
    BY <1>0
  <2>3. /\ b \in Seq(S)
        /\ Len(b) = IF i + 1 <= Len(s) THEN Len(s) - (i + 1) + 1 ELSE 0
        /\ \A k \in 1..Len(s) - (i + 1) + 1 : b[k] = s[(i + 1) + k - 1]
    BY <2>1, <2>2, SubSeqProperties
  <2> HIDE DEF b
  <2>4. QED
    BY <1>0, <2>3
<1> HIDE DEF a, b
<1> DEFINE d == a \o b
<1>3. /\ d \in Seq(S) /\ Len(d) = Len(a) + Len(b)
      /\ \A k \in 1..Len(a) + Len(b) : d[k] = IF k <= Len(a) THEN a[k] ELSE b[k - Len(a)]
  BY <1>1, <1>2, ConcatProperties
<1>4. d = RemoveAt(s, i)
  BY DEF RemoveAt, a, b
<1> HIDE DEF d
<1>5. ASSUME NEW k \in 1..Len(s) - 1
      PROVE  d[k] = IF k < i THEN s[k] ELSE s[k + 1]
  <2>1. CASE k < i
    BY <1>0, <1>1, <1>2, <1>3, <2>1
  <2>2. CASE k >= i
    <3>1. d[k] = b[k - (i - 1)]
      <4>1. /\ k \in 1..Len(a) + Len(b) /\ ~ (k <= Len(a))
            /\ k - Len(a) = k - (i - 1)
        BY <1>0, <1>1, <1>2, <2>2
      <4>2. d[k] = b[k - Len(a)]
        BY <1>3, <4>1, Zenon
      <4>3. QED
        BY <4>1, <4>2, Zenon
    <3>2. k - (i - 1) \in 1..Len(s) - i /\ i + (k - (i - 1)) = k + 1
      BY <1>0, <2>2
    <3>3. b[k - (i - 1)] = s[k + 1]
      BY <1>2, <3>2
    <3>4. QED
      BY <1>0, <2>2, <3>1, <3>3
  <2>3. QED
    BY <1>0, <2>1, <2>2
<1>6. Len(d) = Len(s) - 1
  BY <1>0, <1>1, <1>2, <1>3
<1>7. QED
  BY <1>3, <1>4, <1>5, <1>6
-----------------------------------------------------------------------------
(* The binary search.                                                      *)

LEMMA SlotFacts ==
    ASSUME NEW slots \in Seq(Slots)
    PROVE  /\ Len(slots) \in Nat
           /\ DOMAIN slots = 1..Len(slots)
           /\ \A k \in 1..Len(slots) : /\ slots[k] \in Slots
                                        /\ slots[k].time \in Nat
                                        /\ slots[k].events \in Seq(Tasks)
<1>1. Len(slots) \in Nat /\ DOMAIN slots = 1..Len(slots)
  BY LenProperties
<1>2. \A k \in 1..Len(slots) : slots[k] \in Slots
  BY ElementOfSeq
<1>3. QED
  BY <1>1, <1>2 DEF Slots

\* The slots are strictly in order of time.
InOrder(slots) ==
    \A i, j \in 1..Len(slots) : i < j => slots[i].time < slots[j].time

\* i is where a slot of that time is, or belongs, from lo up to hi.
Belongs(at, slots, lo, hi, i) ==
    /\ i \in lo..hi
    /\ \A k \in lo..hi : k < i => slots[k].time < at
    /\ i < hi => at <= slots[i].time

\* Every stretch of the timeline has a place for every time ...
LEMMA PlaceExists ==
    ASSUME NEW slots \in Seq(Slots), NEW at \in Nat,
           NEW lo \in 1..Len(slots) + 1, NEW hi \in 1..Len(slots) + 1, lo <= hi
    PROVE  \E i \in 1..Len(slots) + 1 : Belongs(at, slots, lo, hi, i)
<1> DEFINE P == {i \in lo..hi : i < hi => at <= slots[i].time}
<1>0. /\ Len(slots) \in Nat /\ lo \in Nat /\ hi \in Nat /\ 1 <= lo
      /\ hi <= Len(slots) + 1
      /\ \A k \in 1..Len(slots) : slots[k].time \in Nat
  BY SlotFacts
<1>1. PICK i \in P : \A other \in P : i <= other
  <2>1. hi \in P /\ P \in SUBSET Nat
    BY <1>0
  <2> HIDE DEF P
  <2>2. QED
    BY <2>1, LeastNumber
<1>2. i \in lo..hi /\ (i < hi => at <= slots[i].time)
  BY <1>1
<1>3. ASSUME NEW k \in lo..hi, k < i PROVE slots[k].time < at
  <2>1. ~ (i <= k)
    BY <1>0, <1>2, <1>3
  <2>2. k \notin P
    BY <1>1, <2>1
  <2>3. k < hi /\ k \in 1..Len(slots)
    BY <1>0, <1>2, <1>3
  <2>4. ~ (at <= slots[k].time) /\ slots[k].time \in Nat
    BY <1>0, <2>2, <2>3
  <2>5. QED
    BY <2>4
<1>4. Belongs(at, slots, lo, hi, i)
  BY <1>2, <1>3, Zenon DEF Belongs
<1> HIDE DEF P
<1>5. i \in 1..Len(slots) + 1
  BY <1>0, <1>2
<1>6. QED
  BY <1>4, <1>5, Zenon

\* ... and one only.
LEMMA PlaceIsUnique ==
    ASSUME NEW slots \in Seq(Slots), NEW at \in Nat,
           NEW lo \in 1..Len(slots) + 1, NEW hi \in 1..Len(slots) + 1,
           NEW i, NEW j,
           Belongs(at, slots, lo, hi, i), Belongs(at, slots, lo, hi, j)
    PROVE  i = j
<1>0. /\ Len(slots) \in Nat /\ lo \in Nat /\ hi \in Nat /\ 1 <= lo
      /\ hi <= Len(slots) + 1
      /\ \A k \in 1..Len(slots) : slots[k].time \in Nat
  BY SlotFacts
<1>1. i \in Nat /\ j \in Nat /\ lo <= i /\ i <= hi /\ lo <= j /\ j <= hi
  BY <1>0 DEF Belongs
<1>2. ~ (i < j)
  <2> SUFFICES ASSUME i < j PROVE FALSE
    OBVIOUS
  <2>1. i \in 1..Len(slots) /\ i \in lo..hi /\ i < hi
    BY <1>0, <1>1
  <2>2. slots[i].time < at /\ at <= slots[i].time /\ slots[i].time \in Nat
    BY <1>0, <2>1 DEF Belongs
  <2>3. QED
    BY <2>2
<1>3. ~ (j < i)
  <2> SUFFICES ASSUME j < i PROVE FALSE
    OBVIOUS
  <2>1. j \in 1..Len(slots) /\ j \in lo..hi /\ j < hi
    BY <1>0, <1>1
  <2>2. slots[j].time < at /\ at <= slots[j].time /\ slots[j].time \in Nat
    BY <1>0, <2>1 DEF Belongs
  <2>3. QED
    BY <2>2
<1>4. QED
  BY <1>1, <1>2, <1>3

\* The middle of a stretch that is not empty is in it.
LEMMA MiddleFacts ==
    ASSUME NEW lo \in Nat, NEW hi \in Nat, lo < hi
    PROVE  /\ (lo + hi) \div 2 \in Nat
           /\ lo <= (lo + hi) \div 2
           /\ (lo + hi) \div 2 < hi
  OBVIOUS

\* One step of the search: whichever way it turns, the place it is after is in
\* the stretch it is left with.
LEMMA SearchStep ==
    ASSUME NEW slots \in Seq(Slots), InOrder(slots), NEW at \in Nat,
           NEW lo \in 1..Len(slots) + 1, NEW hi \in 1..Len(slots) + 1, lo < hi,
           NEW mid, mid = (lo + hi) \div 2, NEW i
    PROVE  /\ mid \in 1..Len(slots)
           /\ lo <= mid /\ mid < hi
           /\ at = slots[mid].time => Belongs(at, slots, lo, hi, mid)
           /\ at < slots[mid].time /\ Belongs(at, slots, lo, mid, i)
                => Belongs(at, slots, lo, hi, i)
           /\ slots[mid].time < at /\ Belongs(at, slots, mid + 1, hi, i)
                => Belongs(at, slots, lo, hi, i)
<1>0. /\ Len(slots) \in Nat /\ lo \in Nat /\ hi \in Nat /\ 1 <= lo
      /\ hi <= Len(slots) + 1
      /\ \A k \in 1..Len(slots) : slots[k].time \in Nat
  BY SlotFacts
<1>1. mid \in Nat /\ lo <= mid /\ mid < hi /\ mid \in 1..Len(slots)
  BY <1>0, MiddleFacts
<1>2. \A k \in 1..Len(slots) : /\ k < mid => slots[k].time < slots[mid].time
                               /\ mid < k => slots[mid].time < slots[k].time
  BY <1>1 DEF InOrder
<1>3. ASSUME at = slots[mid].time PROVE Belongs(at, slots, lo, hi, mid)
  <2>1. ASSUME NEW k \in lo..hi, k < mid PROVE slots[k].time < at
    BY <1>0, <1>1, <1>2, <1>3, <2>1
  <2>2. QED
    BY <1>0, <1>1, <1>3, <2>1 DEF Belongs
<1>4. ASSUME at < slots[mid].time, Belongs(at, slots, lo, mid, i)
      PROVE  Belongs(at, slots, lo, hi, i)
  <2>1. i \in Nat /\ lo <= i /\ i <= mid
    BY <1>0, <1>1, <1>4 DEF Belongs
  <2>2. ASSUME NEW k \in lo..hi, k < i PROVE slots[k].time < at
    <3>1. k \in lo..mid
      BY <1>0, <1>1, <2>1, <2>2
    <3>2. QED
      BY <1>4, <2>2, <3>1 DEF Belongs
  <2>3. at <= slots[i].time
    <3>1. CASE i = mid
      BY <1>0, <1>1, <1>4, <3>1
    <3>2. CASE i < mid
      BY <1>4, <3>2 DEF Belongs
    <3>3. QED
      BY <1>1, <2>1, <3>1, <3>2
  <2>4. QED
    BY <1>0, <1>1, <2>1, <2>2, <2>3 DEF Belongs
<1>5. ASSUME slots[mid].time < at, Belongs(at, slots, mid + 1, hi, i)
      PROVE  Belongs(at, slots, lo, hi, i)
  <2>1. i \in Nat /\ mid + 1 <= i /\ i <= hi /\ (i < hi => at <= slots[i].time)
    BY <1>0, <1>1, <1>5 DEF Belongs
  <2>2. ASSUME NEW k \in lo..hi, k < i PROVE slots[k].time < at
    <3>1. k \in Nat /\ k \in 1..Len(slots)
      BY <1>0, <2>1, <2>2
    <3>2. CASE k > mid
      <4>1. k \in mid + 1..hi
        BY <1>0, <1>1, <3>1, <3>2
      <4>2. QED
        BY <1>5, <2>2, <4>1 DEF Belongs
    <3>3. CASE k = mid
      BY <1>5, <3>3
    <3>4. CASE k < mid
      <4>1. /\ slots[k].time < slots[mid].time
            /\ slots[k].time \in Nat /\ slots[mid].time \in Nat
        BY <1>0, <1>1, <1>2, <3>1, <3>4
      <4>2. slots[mid].time < at
        BY <1>5, Zenon
      <4>3. QED
        BY <4>1, <4>2
    <3>5. QED
      BY <1>1, <3>1, <3>2, <3>3, <3>4
  <2>3. QED
    BY <1>0, <1>1, <2>1, <2>2 DEF Belongs
<1>6. QED
  BY <1>1, <1>3, <1>4, <1>5

\* What the search function of BinarySearch is, as an equation.
Searches(at, slots, search) ==
    search = [range \in (1..Len(slots) + 1) \X (1..Len(slots) + 1) |->
                IF range[1] >= range[2] THEN range[2]
                ELSE IF at = slots[(range[1] + range[2]) \div 2].time
                     THEN (range[1] + range[2]) \div 2
                ELSE IF at < slots[(range[1] + range[2]) \div 2].time
                     THEN search[<<range[1], (range[1] + range[2]) \div 2>>]
                ELSE search[<<(range[1] + range[2]) \div 2 + 1, range[2]>>]]

LEMMA SearchAt ==
    ASSUME NEW at, NEW slots, NEW search, Searches(at, slots, search),
           NEW lo \in 1..Len(slots) + 1, NEW hi \in 1..Len(slots) + 1
    PROVE  search[<<lo, hi>>] =
             IF lo >= hi THEN hi
             ELSE IF at = slots[(lo + hi) \div 2].time THEN (lo + hi) \div 2
             ELSE IF at < slots[(lo + hi) \div 2].time
                  THEN search[<<lo, (lo + hi) \div 2>>]
             ELSE search[<<(lo + hi) \div 2 + 1, hi>>]
  BY Zenon DEF Searches

\* There is such a function: the one that goes straight to the place.
LEMMA SearchExists ==
    ASSUME NEW slots \in Seq(Slots), InOrder(slots), NEW at \in Nat
    PROVE  \E search : Searches(at, slots, search)
<1> DEFINE ends == 1..Len(slots) + 1
           Place(lo, hi) == CHOOSE i \in ends : Belongs(at, slots, lo, hi, i)
           h == [range \in ends \X ends |->
                   IF range[1] >= range[2] THEN range[2] ELSE Place(range[1], range[2])]
<1>0. Len(slots) \in Nat
  BY SlotFacts
<1>1. ASSUME NEW lo \in ends, NEW hi \in ends, lo <= hi
      PROVE  Belongs(at, slots, lo, hi, Place(lo, hi))
  <2>1. \E i \in ends : Belongs(at, slots, lo, hi, i)
    BY <1>1, PlaceExists
  <2>2. QED
    BY <2>1, Zenon
<1> HIDE DEF Place
<1>2. ASSUME NEW lo \in ends, NEW hi \in ends
      PROVE  h[<<lo, hi>>] = IF lo >= hi THEN hi ELSE Place(lo, hi)
  BY Zenon
<1>3. ASSUME NEW lo \in ends PROVE Belongs(at, slots, lo, lo, lo)
  BY <1>0 DEF Belongs
<1> HIDE DEF h
<1>4. ASSUME NEW lo \in ends, NEW hi \in ends, lo <= hi
      PROVE  Belongs(at, slots, lo, hi, h[<<lo, hi>>])
  <2>1. CASE lo = hi
    <3>1. h[<<lo, hi>>] = hi
      BY <1>0, <1>2, <2>1
    <3>2. QED
      BY <1>3, <2>1, <3>1
  <2>2. CASE lo < hi
    <3>1. h[<<lo, hi>>] = Place(lo, hi)
      BY <1>0, <1>2, <2>2
    <3>2. QED
      BY <1>1, <1>4, <3>1
  <2>3. QED
    BY <1>0, <1>4, <2>1, <2>2
<1>5. ASSUME NEW lo \in ends, NEW hi \in ends, lo < hi,
             NEW mid, mid = (lo + hi) \div 2
      PROVE  h[<<lo, hi>>] = IF at = slots[mid].time THEN mid
                             ELSE IF at < slots[mid].time THEN h[<<lo, mid>>]
                             ELSE h[<<mid + 1, hi>>]
  <2>1. mid \in 1..Len(slots) /\ lo <= mid /\ mid < hi
    BY <1>5, SearchStep
  <2>2. mid \in ends /\ mid + 1 \in ends /\ mid + 1 <= hi /\ lo <= hi /\ lo <= mid
    BY <1>0, <2>1
  <2>3. Belongs(at, slots, lo, hi, h[<<lo, hi>>])
    BY <1>4, <2>2
  <2>4. CASE at = slots[mid].time
    <3>1. Belongs(at, slots, lo, hi, mid)
      BY <1>5, <2>4, SearchStep
    <3>2. QED
      BY <2>3, <2>4, <3>1, PlaceIsUnique
  <2>5. CASE at < slots[mid].time
    <3>1. Belongs(at, slots, lo, mid, h[<<lo, mid>>])
      BY <1>4, <2>2
    <3>2. Belongs(at, slots, lo, hi, h[<<lo, mid>>])
      BY <1>5, <2>5, <3>1, SearchStep
    <3>3. h[<<lo, hi>>] = h[<<lo, mid>>]
      BY <2>3, <3>2, PlaceIsUnique
    <3>4. at # slots[mid].time
      BY <2>1, <2>5, SlotFacts
    <3>5. QED
      BY <2>5, <3>3, <3>4, Zenon
  <2>6. CASE ~ (at <= slots[mid].time)
    <3>0. slots[mid].time \in Nat
      BY <2>1, SlotFacts
    <3>1. slots[mid].time < at /\ at # slots[mid].time /\ ~ (at < slots[mid].time)
      BY <2>6, <3>0
    <3>2. Belongs(at, slots, mid + 1, hi, h[<<mid + 1, hi>>])
      BY <1>4, <2>2
    <3>3. Belongs(at, slots, lo, hi, h[<<mid + 1, hi>>])
      BY <1>5, <3>1, <3>2, SearchStep
    <3>4. h[<<lo, hi>>] = h[<<mid + 1, hi>>]
      BY <2>3, <3>3, PlaceIsUnique
    <3>5. QED
      BY <3>1, <3>4, Zenon
  <2>7. at = slots[mid].time \/ at < slots[mid].time \/ ~ (at <= slots[mid].time)
    BY <2>1, SlotFacts
  <2>8. QED
    BY <2>4, <2>5, <2>6, <2>7
<1> DEFINE Body(range) ==
             IF range[1] >= range[2] THEN range[2]
             ELSE IF at = slots[(range[1] + range[2]) \div 2].time
                  THEN (range[1] + range[2]) \div 2
             ELSE IF at < slots[(range[1] + range[2]) \div 2].time
                  THEN h[<<range[1], (range[1] + range[2]) \div 2>>]
             ELSE h[<<(range[1] + range[2]) \div 2 + 1, range[2]>>]
<1>6. ASSUME NEW range \in ends \X ends PROVE h[range] = Body(range)
  <2>1. range[1] \in ends /\ range[2] \in ends /\ range = <<range[1], range[2]>>
    OBVIOUS
  <2>2. CASE range[1] >= range[2]
    <3>1. h[<<range[1], range[2]>>] = range[2]
      BY <1>2, <2>1, <2>2, Zenon
    <3>2. QED
      BY <2>1, <2>2, <3>1, Zenon
  <2>3. CASE ~ (range[1] >= range[2])
    <3>1. range[1] < range[2]
      BY <1>0, <2>1, <2>3
    <3>2. h[<<range[1], range[2]>>] = Body(range)
      BY <1>5, <2>1, <2>3, <3>1, Zenon
    <3>3. QED
      BY <2>1, <3>2, Zenon
  <2>4. QED
    BY <2>2, <2>3
<1>7. h = [range \in ends \X ends |-> Body(range)]
  <2>1. DOMAIN h = ends \X ends /\ h = [range \in ends \X ends |-> h[range]]
    BY Zenon DEF h
  <2>2. QED
    BY <1>6, <2>1, Zenon
<1>8. QED
  BY <1>7, Zenon DEF Searches

\* Whatever such a function is, it finds the place.
LEMMA SearchFinds ==
    ASSUME NEW slots \in Seq(Slots), InOrder(slots), NEW at \in Nat,
           NEW search, Searches(at, slots, search),
           NEW lo \in 1..Len(slots) + 1, NEW hi \in 1..Len(slots) + 1, lo <= hi
    PROVE  Belongs(at, slots, lo, hi, search[<<lo, hi>>])
<1> DEFINE ends == 1..Len(slots) + 1
           Wrong == {n \in Nat : \E l, r \in ends :
                       /\ l <= r /\ r - l = n
                       /\ ~ Belongs(at, slots, l, r, search[<<l, r>>])}
<1>0. Len(slots) \in Nat
  BY SlotFacts
<1>1. SUFFICES ASSUME Wrong # {} PROVE FALSE
  <2>1. hi - lo \in Nat
    BY <1>0
  <2>2. QED
    BY <2>1
<1>2. PICK n \in Wrong : \A other \in Wrong : n <= other
  <2>1. Wrong \in SUBSET Nat
    OBVIOUS
  <2> HIDE DEF Wrong
  <2>2. QED
    BY <1>1, <2>1, LeastNumber
<1>3. PICK l, r \in ends : /\ l <= r /\ r - l = n
                           /\ ~ Belongs(at, slots, l, r, search[<<l, r>>])
  BY <1>2
<1>4. ASSUME NEW a \in ends, NEW b \in ends, a <= b, b - a < r - l
      PROVE  Belongs(at, slots, a, b, search[<<a, b>>])
  <2>1. b - a \in Nat /\ ~ (n <= b - a)
    BY <1>0, <1>2, <1>3, <1>4
  <2>2. b - a \notin Wrong
    BY <1>2, <2>1
  <2>3. QED
    BY <1>4, <2>1, <2>2
<1> HIDE DEF Wrong
<1>8. search[<<l, r>>] =
        IF l >= r THEN r
        ELSE IF at = slots[(l + r) \div 2].time THEN (l + r) \div 2
        ELSE IF at < slots[(l + r) \div 2].time THEN search[<<l, (l + r) \div 2>>]
        ELSE search[<<(l + r) \div 2 + 1, r>>]
  BY SearchAt
<1>5. CASE l = r
  <2>1. l >= r
    BY <1>0, <1>5
  <2>3. search[<<l, r>>] = r
    BY <1>8, <2>1, Zenon
  <2>2. Belongs(at, slots, l, r, r)
    BY <1>0, <1>5 DEF Belongs
  <2>4. QED
    BY <1>3, <2>2, <2>3
<1>6. CASE l < r
  <2> DEFINE mid == (l + r) \div 2
  <2>1. mid \in 1..Len(slots) /\ l <= mid /\ mid < r
    BY <1>6, SearchStep
  <2>2. ~ (l >= r)
    BY <1>0, <1>6
  <2>3. search[<<l, r>>] = IF at = slots[mid].time THEN mid
                           ELSE IF at < slots[mid].time THEN search[<<l, mid>>]
                           ELSE search[<<mid + 1, r>>]
    BY <1>8, <2>2, Zenon
  <2>4. mid = (l + r) \div 2
    OBVIOUS
  <2> HIDE DEF mid
  <2>5. /\ mid \in ends /\ mid + 1 \in ends /\ mid + 1 <= r
        /\ mid - l < r - l /\ r - (mid + 1) < r - l
    BY <1>0, <2>1
  <2>6. slots[mid].time \in Nat
    BY <2>1, SlotFacts
  <2>7. CASE at = slots[mid].time
    <3>1. Belongs(at, slots, l, r, mid)
      BY <1>6, <2>4, <2>7, SearchStep
    <3>2. search[<<l, r>>] = mid
      BY <2>3, <2>7, Zenon
    <3>3. QED
      BY <1>3, <3>1, <3>2
  <2>8. CASE at < slots[mid].time
    <3>1. Belongs(at, slots, l, mid, search[<<l, mid>>])
      BY <1>4, <2>1, <2>5
    <3>2. Belongs(at, slots, l, r, search[<<l, mid>>])
      BY <1>6, <2>4, <2>8, <3>1, SearchStep
    <3>3. at # slots[mid].time
      BY <2>6, <2>8
    <3>4. search[<<l, r>>] = search[<<l, mid>>]
      BY <2>3, <2>8, <3>3, Zenon
    <3>5. QED
      BY <1>3, <3>2, <3>4
  <2>9. CASE slots[mid].time < at
    <3>1. Belongs(at, slots, mid + 1, r, search[<<mid + 1, r>>])
      BY <1>4, <2>5
    <3>2. Belongs(at, slots, l, r, search[<<mid + 1, r>>])
      BY <1>6, <2>4, <2>9, <3>1, SearchStep
    <3>3. at # slots[mid].time /\ ~ (at < slots[mid].time)
      BY <2>6, <2>9
    <3>4. search[<<l, r>>] = search[<<mid + 1, r>>]
      BY <2>3, <3>3, Zenon
    <3>5. QED
      BY <1>3, <3>2, <3>4
  <2>10. QED
    BY <2>6, <2>7, <2>8, <2>9
<1>7. QED
  BY <1>0, <1>3, <1>5, <1>6

\* binarySearch: in slots that are strictly in order, it returns the slot of
\* that time, or the first later one, or one past the end.
THEOREM BinarySearchFinds ==
    ASSUME NEW slots \in Seq(Slots), InOrder(slots), NEW at \in Nat
    PROVE  /\ BinarySearch(at, slots) \in 1..Len(slots) + 1
           /\ \A k \in 1..Len(slots) :
                k < BinarySearch(at, slots) <=> slots[k].time < at
<1>0. Len(slots) \in Nat
  BY SlotFacts
<1>1. PICK search : /\ Searches(at, slots, search)
                    /\ BinarySearch(at, slots) = search[<<1, Len(slots) + 1>>]
  <2>1. \E search : Searches(at, slots, search)
    BY SearchExists
  <2>2. QED
    BY <2>1, Zenon DEF BinarySearch, Searches
<1> DEFINE i == BinarySearch(at, slots)
<1>2. Belongs(at, slots, 1, Len(slots) + 1, i)
  <2>1. 1 \in 1..Len(slots) + 1 /\ Len(slots) + 1 \in 1..Len(slots) + 1 /\ 1 <= Len(slots) + 1
    BY <1>0
  <2>2. QED
    BY <1>1, <2>1, SearchFinds
<1> HIDE DEF i
<1>3. /\ i \in 1..Len(slots) + 1
      /\ \A k \in 1..Len(slots) + 1 : k < i => slots[k].time < at
      /\ i < Len(slots) + 1 => at <= slots[i].time
  BY <1>2 DEF Belongs
<1>4. ASSUME NEW k \in 1..Len(slots), slots[k].time < at PROVE k < i
  <2> SUFFICES ASSUME ~ (k < i) PROVE FALSE
    OBVIOUS
  <2>1. i \in 1..Len(slots) /\ i <= k /\ i < Len(slots) + 1
    BY <1>0, <1>3
  <2>2. slots[i].time \in Nat /\ slots[k].time \in Nat
    BY <2>1, SlotFacts
  <2>3. at <= slots[i].time
    BY <1>3, <2>1
  <2>4. slots[i].time <= slots[k].time
    BY <1>0, <2>1, <2>2 DEF InOrder
  <2>5. QED
    BY <1>4, <2>2, <2>3, <2>4
<1>5. QED
  BY <1>0, <1>3, <1>4 DEF i
-----------------------------------------------------------------------------
(* The events of a slot.                                                   *)

\* Tasks of one millisecond, each once, in order of the times in "all".
EventsOK(evs, ms, all) ==
    /\ evs \in Seq(Tasks)
    /\ \A j \in 1..Len(evs) : Floor(all[evs[j]].time) = ms
    /\ \A j, k \in 1..Len(evs) : j < k => /\ all[evs[j]].time <= all[evs[k]].time
                                          /\ evs[j] # evs[k]

\* The times in "all" are times.
Timed(all) == \A u \in Tasks : all[u].time \in Nat

\* "new" has task t at another time than "all".
Moved(t, at, all, new) ==
    /\ new[t].time = at
    /\ \A u \in Tasks : u # t => new[u].time = all[u].time

LEMMA EventFacts ==
    ASSUME NEW evs \in Seq(Tasks)
    PROVE  /\ Len(evs) \in Nat
           /\ \A j \in 1..Len(evs) : evs[j] \in Tasks
  BY LenProperties, ElementOfSeq

\* addEvent keeps the events of a slot in order, and adds the task.
LEMMA AddEventFacts ==
    ASSUME NEW t \in Tasks, NEW at \in Nat, NEW evs, NEW all, NEW new,
           EventsOK(evs, Floor(at), all), Timed(all), Moved(t, at, all, new),
           ~ Contains(evs, t)
    PROVE  /\ EventsOK(AddEvent(t, at, evs, all), Floor(at), new)
           /\ \A u : Contains(AddEvent(t, at, evs, all), u) <=> Contains(evs, u) \/ u = t
<1> DEFINE later == {j \in 1..Len(evs) : at < all[evs[j]].time}
           n == Len(evs)
<1>0. /\ evs \in Seq(Tasks) /\ n \in Nat
      /\ \A j \in 1..n : evs[j] \in Tasks /\ evs[j] # t
      /\ \A j \in 1..n : new[evs[j]].time = all[evs[j]].time
      /\ \A j \in 1..n : all[evs[j]].time \in Nat
      /\ \A j \in 1..n : Floor(all[evs[j]].time) = Floor(at)
      /\ \A j, k \in 1..n : j < k => /\ all[evs[j]].time <= all[evs[k]].time
                                     /\ evs[j] # evs[k]
  <2>1. evs \in Seq(Tasks)
    BY DEF EventsOK
  <2>2. n \in Nat /\ \A j \in 1..n : evs[j] \in Tasks
    BY <2>1, EventFacts
  <2>3. \A j \in 1..n : evs[j] # t
    BY DEF Contains
  <2>4. QED
    BY <2>1, <2>2, <2>3 DEF EventsOK, Timed, Moved
<1>t. new[t].time = at
  BY DEF Moved
<1> DEFINE e2 == AddEvent(t, at, evs, all)
<1>1. CASE later = {}
  <2>1. e2 = Append(evs, t)
    BY <1>1 DEF AddEvent
  <2>2. /\ e2 \in Seq(Tasks) /\ Len(e2) = n + 1
        /\ \A j \in 1..n : e2[j] = evs[j]
        /\ e2[n + 1] = t
    BY <1>0, <2>1, AppendProperties
  <2> HIDE DEF e2
  <2>3. \A j \in 1..n : all[evs[j]].time <= at
    BY <1>0, <1>1
  <2>4. \A j \in 1..n + 1 : j \in 1..n \/ j = n + 1
    BY <1>0
  <2>5. \A j \in 1..n + 1 : Floor(new[e2[j]].time) = Floor(at)
    BY <1>0, <1>t, <2>2, <2>4
  <2>6. ASSUME NEW j \in 1..n + 1, NEW k \in 1..n + 1, j < k
        PROVE  new[e2[j]].time <= new[e2[k]].time /\ e2[j] # e2[k]
    <3>1. j \in 1..n
      BY <1>0, <2>6
    <3>2. CASE k = n + 1
      BY <1>0, <1>t, <2>2, <2>3, <3>1, <3>2
    <3>3. CASE k \in 1..n
      BY <1>0, <2>2, <2>6, <3>1, <3>3
    <3>4. QED
      BY <2>4, <3>2, <3>3
  <2>7. EventsOK(e2, Floor(at), new)
    BY <2>2, <2>5, <2>6 DEF EventsOK
  <2>8. \A u : Contains(e2, u) <=> Contains(evs, u) \/ u = t
    <3>1. ASSUME NEW u, Contains(e2, u) PROVE Contains(evs, u) \/ u = t
      BY <2>2, <2>4, <3>1 DEF Contains
    <3>2. ASSUME NEW u, Contains(evs, u) PROVE Contains(e2, u)
      <4>1. PICK j \in 1..n : evs[j] = u
        BY <3>2 DEF Contains
      <4>2. j \in 1..Len(e2) /\ e2[j] = u
        BY <1>0, <2>2, <4>1
      <4>3. QED
        BY <4>2 DEF Contains
    <3>3. Contains(e2, t)
      <4>1. n + 1 \in 1..Len(e2)
        BY <1>0, <2>2
      <4>2. QED
        BY <2>2, <4>1 DEF Contains
    <3>4. QED
      BY <3>1, <3>2, <3>3
  <2>9. QED
    BY <2>7, <2>8 DEF e2
<1>2. CASE later # {}
  <2> DEFINE i == Min(later)
  <2>1. i \in later /\ \A j \in later : i <= j
    <3>1. \E x \in later : \A y \in later : x <= y
      <4>1. later \in SUBSET Nat
        BY <1>0
      <4> HIDE DEF later
      <4>2. QED
        BY <1>2, <4>1, LeastNumber
    <3> HIDE DEF later
    <3>2. QED
      BY <3>1, Zenon DEF Min
  <2>2. e2 = InsertAt(evs, i, t)
    BY <1>2, Zenon DEF AddEvent
  <2> HIDE DEF i, e2
  <2>3. i \in Nat /\ 1 <= i /\ i <= n /\ at < all[evs[i]].time
    BY <1>0, <2>1
  <2>4. i \in 1..n + 1
    BY <1>0, <2>3
  <2>5. /\ e2 \in Seq(Tasks) /\ Len(e2) = n + 1
        /\ \A j \in 1..n + 1 : e2[j] = IF j < i THEN evs[j]
                                       ELSE IF j = i THEN t ELSE evs[j - 1]
    <3>1. evs \in Seq(Tasks) /\ i \in 1..Len(evs) + 1
      BY <1>0, <2>4
    <3> HIDE DEF n
    <3>2. /\ InsertAt(evs, i, t) \in Seq(Tasks) /\ Len(InsertAt(evs, i, t)) = Len(evs) + 1
          /\ \A j \in 1..Len(evs) + 1 :
               InsertAt(evs, i, t)[j] = IF j < i THEN evs[j]
                                        ELSE IF j = i THEN t ELSE evs[j - 1]
      BY <3>1, InsertFacts
    <3>3. QED
      BY <2>2, <3>2, Zenon DEF n
  <2>6. \A j \in 1..n : j < i => all[evs[j]].time <= at
    <3> SUFFICES ASSUME NEW j \in 1..n, j < i PROVE all[evs[j]].time <= at
      OBVIOUS
    <3>1. ~ (i <= j)
      BY <1>0, <2>3
    <3>2. j \notin later
      BY <2>1, <3>1
    <3>3. ~ (at < all[evs[j]].time)
      BY <3>2
    <3>4. QED
      BY <1>0, <3>3
  <2>7. \A j \in 1..n : i <= j => at <= all[evs[j]].time
    <3> SUFFICES ASSUME NEW j \in 1..n, i <= j PROVE at <= all[evs[j]].time
      OBVIOUS
    <3>1. CASE i = j
      BY <1>0, <2>3, <3>1
    <3>2. CASE i < j
      <4>1. all[evs[i]].time <= all[evs[j]].time
        BY <1>0, <2>3, <3>2
      <4>2. QED
        BY <1>0, <2>3, <4>1
    <3>3. QED
      BY <1>0, <2>3, <3>1, <3>2
  <2> HIDE DEF later
  <2> DEFINE T(j) == new[e2[j]].time
  <2>8. ASSUME NEW j \in 1..n + 1
        PROVE  /\ j < i => j \in 1..n /\ e2[j] = evs[j] /\ T(j) = all[evs[j]].time
               /\ j = i => e2[j] = t /\ T(j) = at
               /\ i < j => /\ j - 1 \in 1..n /\ i <= j - 1 /\ e2[j] = evs[j - 1]
                           /\ T(j) = all[evs[j - 1]].time
    <3>1. ASSUME j < i PROVE j \in 1..n /\ e2[j] = evs[j]
      BY <1>0, <2>3, <2>5, <3>1
    <3>2. ASSUME j = i PROVE e2[j] = t
      BY <2>3, <2>5, <3>2
    <3>3. ASSUME i < j PROVE j - 1 \in 1..n /\ i <= j - 1 /\ e2[j] = evs[j - 1]
      <4>1. j - 1 \in 1..n /\ i <= j - 1 /\ ~ (j < i) /\ j # i
        BY <1>0, <2>3, <3>3
      <4>2. QED
        BY <2>5, <4>1
    <3>4. QED
      BY <1>0, <1>t, <3>1, <3>2, <3>3
  <2>9. \A j \in 1..n + 1 : j \in Nat /\ (j < i \/ j = i \/ i < j)
    BY <1>0, <2>3
  <2>10. \A j \in 1..n + 1 : Floor(T(j)) = Floor(at)
    <3> SUFFICES ASSUME NEW j \in 1..n + 1 PROVE Floor(T(j)) = Floor(at)
      OBVIOUS
    <3> HIDE DEF T
    <3>1. CASE j < i
      BY <1>0, <2>8, <3>1
    <3>2. CASE j = i
      BY <2>8, <3>2
    <3>3. CASE i < j
      <4>1. j - 1 \in 1..n /\ T(j) = all[evs[j - 1]].time
        BY <2>8, <3>3
      <4>2. QED
        BY <1>0, <4>1
    <3>4. QED
      BY <2>9, <3>1, <3>2, <3>3
  <2>11. ASSUME NEW j \in 1..n + 1, NEW k \in 1..n + 1, j < k
         PROVE  T(j) <= T(k) /\ e2[j] # e2[k]
    <3> HIDE DEF T
    <3>1. CASE k < i
      <4>1. j < i
        BY <2>3, <2>9, <2>11, <3>1
      <4>2. QED
        BY <1>0, <2>8, <2>11, <3>1, <4>1
    <3>2. CASE k = i
      <4>1. j < i
        BY <2>11, <3>2
      <4>2. QED
        BY <1>0, <2>6, <2>8, <3>2, <4>1
    <3>3. CASE i < k
      <4>1. CASE j < i
        <5>1. j < k - 1 /\ j \in 1..n /\ k - 1 \in 1..n
          BY <2>3, <2>8, <2>9, <3>3, <4>1
        <5>2. QED
          BY <1>0, <2>8, <3>3, <4>1, <5>1
      <4>2. CASE j = i
        BY <1>0, <2>7, <2>8, <3>3, <4>2
      <4>3. CASE i < j
        <5>1. j - 1 < k - 1 /\ j - 1 \in 1..n /\ k - 1 \in 1..n
          BY <2>8, <2>9, <2>11, <3>3, <4>3
        <5>2. QED
          BY <1>0, <2>8, <3>3, <4>3, <5>1
      <4>4. QED
        BY <2>9, <4>1, <4>2, <4>3
    <3>4. QED
      BY <2>9, <3>1, <3>2, <3>3
  <2>12. EventsOK(e2, Floor(at), new)
    BY <2>5, <2>10, <2>11 DEF EventsOK
  <2>13. \A u : Contains(e2, u) <=> Contains(evs, u) \/ u = t
    <3>1. ASSUME NEW u, Contains(e2, u) PROVE Contains(evs, u) \/ u = t
      <4>1. PICK j \in 1..n + 1 : e2[j] = u
        BY <2>5, <3>1 DEF Contains
      <4>2. QED
        BY <2>8, <2>9, <4>1 DEF Contains
    <3>2. ASSUME NEW u, Contains(evs, u) PROVE Contains(e2, u)
      <4>1. PICK j \in 1..n : evs[j] = u
        BY <3>2 DEF Contains
      <4>2. CASE j < i
        <5>1. j \in 1..Len(e2) /\ e2[j] = u
          BY <1>0, <2>5, <4>1, <4>2
        <5>2. QED
          BY <5>1 DEF Contains
      <4>3. CASE i <= j
        <5>1. j + 1 \in 1..n + 1 /\ i < j + 1 /\ (j + 1) - 1 = j
          BY <1>0, <2>3, <4>3
        <5>2. j + 1 \in 1..Len(e2) /\ e2[j + 1] = u
          BY <2>5, <2>8, <4>1, <5>1
        <5>3. QED
          BY <5>2 DEF Contains
      <4>4. QED
        BY <1>0, <2>3, <4>2, <4>3
    <3>3. Contains(e2, t)
      <4>1. i \in 1..Len(e2) /\ e2[i] = t
        BY <2>4, <2>5, <2>8
      <4>2. QED
        BY <4>1 DEF Contains
    <3>4. QED
      BY <3>1, <3>2, <3>3
  <2>14. QED
    BY <2>12, <2>13 DEF e2
<1>3. QED
  BY <1>1, <1>2

\* The order of a slot depends on the times of its own tasks only.
LEMMA EventsFrame ==
    ASSUME NEW evs, NEW ms, NEW all, NEW new, EventsOK(evs, ms, all),
           \A u : Contains(evs, u) => new[u].time = all[u].time
    PROVE  EventsOK(evs, ms, new)
<1>1. evs \in Seq(Tasks) /\ Len(evs) \in Nat
  BY EventFacts DEF EventsOK
<1>2. \A j \in 1..Len(evs) : new[evs[j]].time = all[evs[j]].time
  BY DEF Contains
<1>3. QED
  BY <1>1, <1>2 DEF EventsOK

\* findIndex finds a task that is there.
LEMMA IndexOfFinds ==
    ASSUME NEW evs \in Seq(Tasks), NEW t, Contains(evs, t)
    PROVE  IndexOf(t, evs) \in 1..Len(evs) /\ evs[IndexOf(t, evs)] = t
<1> DEFINE S == {j \in 1..Len(evs) : evs[j] = t}
<1>1. \E x \in S : \A y \in S : x <= y
  <2>1. S \in SUBSET Nat /\ S # {}
    BY EventFacts DEF Contains
  <2> HIDE DEF S
  <2>2. QED
    BY <2>1, LeastNumber
<1>2. IndexOf(t, evs) = Min(S)
  BY DEF IndexOf
<1> HIDE DEF S
<1>3. Min(S) \in S
  BY <1>1, Zenon DEF Min
<1>4. QED
  BY <1>2, <1>3 DEF S

\* splice(at, 1) takes that task out and leaves the order.
LEMMA TakeEventFacts ==
    ASSUME NEW evs, NEW ms, NEW all, EventsOK(evs, ms, all), NEW i \in 1..Len(evs)
    PROVE  /\ EventsOK(RemoveAt(evs, i), ms, all)
           /\ Len(RemoveAt(evs, i)) = Len(evs) - 1
           /\ \A u : Contains(RemoveAt(evs, i), u) <=> Contains(evs, u) /\ u # evs[i]
<1> DEFINE n == Len(evs)
           e2 == RemoveAt(evs, i)
<1>0. /\ evs \in Seq(Tasks) /\ n \in Nat /\ i \in Nat /\ 1 <= i /\ i <= n
      /\ \A j \in 1..n : Floor(all[evs[j]].time) = ms
      /\ \A j, k \in 1..n : j < k => /\ all[evs[j]].time <= all[evs[k]].time
                                     /\ evs[j] # evs[k]
  BY EventFacts DEF EventsOK
<1>1. /\ e2 \in Seq(Tasks) /\ Len(e2) = n - 1
      /\ \A j \in 1..n - 1 : e2[j] = IF j < i THEN evs[j] ELSE evs[j + 1]
  BY <1>0, RemoveFacts
<1> HIDE DEF e2
<1> DEFINE from == [j \in 1..n - 1 |-> IF j < i THEN j ELSE j + 1]
<1>2. \A j \in 1..n - 1 : from[j] \in 1..n /\ from[j] # i /\ e2[j] = evs[from[j]]
  BY <1>0, <1>1
<1>3. \A j, k \in 1..n - 1 : j < k => from[j] < from[k]
  BY <1>0
<1>4. \A j \in 1..n : j # i => \E k \in 1..n - 1 : from[k] = j
  <2> SUFFICES ASSUME NEW j \in 1..n, j # i PROVE \E k \in 1..n - 1 : from[k] = j
    OBVIOUS
  <2>1. CASE j < i
    <3>1. j \in 1..n - 1 /\ from[j] = j
      BY <1>0, <2>1
    <3>2. QED
      BY <3>1
  <2>2. CASE i < j
    <3>1. j - 1 \in 1..n - 1 /\ from[j - 1] = j
      BY <1>0, <2>2
    <3>2. QED
      BY <3>1
  <2>3. QED
    BY <1>0, <2>1, <2>2
<1> HIDE DEF from
<1>5. EventsOK(e2, ms, all)
  <2>1. \A j \in 1..n - 1 : Floor(all[e2[j]].time) = ms
    BY <1>0, <1>2
  <2>2. \A j, k \in 1..n - 1 : j < k => /\ all[e2[j]].time <= all[e2[k]].time
                                        /\ e2[j] # e2[k]
    <3> SUFFICES ASSUME NEW j \in 1..n - 1, NEW k \in 1..n - 1, j < k
                 PROVE  all[e2[j]].time <= all[e2[k]].time /\ e2[j] # e2[k]
      OBVIOUS
    <3>1. from[j] \in 1..n /\ from[k] \in 1..n /\ from[j] < from[k]
      BY <1>2, <1>3
    <3>2. /\ all[evs[from[j]]].time <= all[evs[from[k]]].time
          /\ evs[from[j]] # evs[from[k]]
      BY <1>0, <3>1
    <3>3. QED
      BY <1>2, <3>2
  <2>3. QED
    BY <1>1, <2>1, <2>2 DEF EventsOK
<1>6. ASSUME NEW u, Contains(e2, u) PROVE Contains(evs, u) /\ u # evs[i]
  <2>1. PICK j \in 1..n - 1 : e2[j] = u
    BY <1>1, <1>6 DEF Contains
  <2>2. from[j] \in 1..n /\ from[j] # i /\ evs[from[j]] = u
    BY <1>2, <2>1
  <2>3. from[j] < i \/ i < from[j]
    BY <1>0, <2>2
  <2>4. u # evs[i]
    BY <1>0, <2>2, <2>3
  <2>5. QED
    BY <2>2, <2>4 DEF Contains
<1>7. ASSUME NEW u, Contains(evs, u), u # evs[i] PROVE Contains(e2, u)
  <2>1. PICK j \in 1..n : evs[j] = u
    BY <1>7 DEF Contains
  <2>2. PICK k \in 1..n - 1 : from[k] = j
    BY <1>4, <1>7, <2>1
  <2>3. k \in 1..Len(e2) /\ e2[k] = u
    BY <1>1, <1>2, <2>1, <2>2
  <2>4. QED
    BY <2>3 DEF Contains
<1>8. QED
  BY <1>1, <1>5, <1>6, <1>7 DEF e2

\* What the function of Without is, as an equation.
Keeps(f, evs, kept) ==
    kept = [n \in 0..Len(evs) |->
              IF n = 0 THEN <<>>
              ELSE IF evs[n] \in f THEN kept[n - 1]
              ELSE Append(kept[n - 1], evs[n])]

LEMMA KeepsExists ==
    ASSUME NEW f, NEW evs \in Seq(Tasks)
    PROVE  \E kept : Keeps(f, evs, kept)
<1> DEFINE S == Seq(Tasks)
           step == [x \in Nat \X S |->
                      IF x[1] < Len(evs) /\ evs[x[1] + 1] \notin f
                      THEN Append(x[2], evs[x[1] + 1]) ELSE x[2]]
<1>0. Len(evs) \in Nat /\ \A j \in 1..Len(evs) : evs[j] \in Tasks
  BY EventFacts
<1>1. \A n \in Nat, s \in S :
        step[<<n, s>>] = IF n < Len(evs) /\ evs[n + 1] \notin f
                         THEN Append(s, evs[n + 1]) ELSE s
  BY Zenon
<1>2. step \in [Nat \X S -> S]
  <2> SUFFICES ASSUME NEW x \in Nat \X S
               PROVE  (IF x[1] < Len(evs) /\ evs[x[1] + 1] \notin f
                       THEN Append(x[2], evs[x[1] + 1]) ELSE x[2]) \in S
    BY Zenon
  <2>1. x[1] \in Nat /\ x[2] \in S
    BY Zenon
  <2>2. ASSUME x[1] < Len(evs) PROVE Append(x[2], evs[x[1] + 1]) \in S
    <3>1. evs[x[1] + 1] \in Tasks
      BY <1>0, <2>1, <2>2
    <3>2. QED
      BY <2>1, <3>1, AppendProperties
  <2>3. QED
    BY <2>1, <2>2, Zenon
<1> DEFINE nothing == <<>>
<1>3. nothing \in S
  BY EmptySeq
<1> HIDE DEF step, S, nothing
<1>4. PICK g : /\ g \in [Nat -> S]
               /\ g[0] = nothing
               /\ \A n \in Nat : g[n + 1] = step[<<n, g[n]>>]
  <2>1. \E g : Built(S, nothing, step, g)
    BY <1>2, <1>3, StepByStep, Zenon
  <2>2. QED
    BY <2>1 DEF Built
<1> DEFINE h == [n \in 0..Len(evs) |-> g[n]]
<1>5. ASSUME NEW n \in 0..Len(evs)
      PROVE  h[n] = IF n = 0 THEN <<>>
                    ELSE IF evs[n] \in f THEN h[n - 1]
                    ELSE Append(h[n - 1], evs[n])
  <2>1. CASE n = 0
    BY <1>0, <1>4, <2>1 DEF nothing
  <2>2. CASE n # 0
    <3>1. n - 1 \in Nat /\ n - 1 < Len(evs) /\ (n - 1) + 1 = n /\ n - 1 \in 0..Len(evs)
      BY <1>0, <2>2
    <3>2. h[n] = g[n] /\ h[n - 1] = g[n - 1]
      BY <3>1
    <3>3. g[n] = step[<<n - 1, g[n - 1]>>]
      BY <1>4, <3>1
    <3>4. g[n - 1] \in S
      BY <1>4, <3>1
    <3>5. step[<<n - 1, g[n - 1]>>] =
            IF n - 1 < Len(evs) /\ evs[(n - 1) + 1] \notin f
            THEN Append(g[n - 1], evs[(n - 1) + 1]) ELSE g[n - 1]
      BY <1>1, <3>1, <3>4
    <3> HIDE DEF h
    <3>6. g[n] = IF evs[n] \in f THEN g[n - 1] ELSE Append(g[n - 1], evs[n])
      BY <3>1, <3>3, <3>5
    <3>7. QED
      BY <2>2, <3>2, <3>6, Zenon
  <2>3. QED
    BY <2>1, <2>2
<1>6. h = [n \in 0..Len(evs) |-> IF n = 0 THEN <<>>
                                 ELSE IF evs[n] \in f THEN h[n - 1]
                                 ELSE Append(h[n - 1], evs[n])]
  <2>1. h = [n \in 0..Len(evs) |-> h[n]]
    OBVIOUS
  <2> HIDE DEF h
  <2>2. QED
    BY <1>5, <2>1, Zenon
<1>7. QED
  BY <1>6, Zenon DEF Keeps

\* removeAll leaves the events it does not take, in their order.
LEMMA WithoutFacts ==
    ASSUME NEW f, NEW evs, NEW ms, NEW all, EventsOK(evs, ms, all)
    PROVE  /\ EventsOK(Without(f, evs), ms, all)
           /\ \A u : Contains(Without(f, evs), u) <=> Contains(evs, u) /\ u \notin f
<1>0. /\ evs \in Seq(Tasks) /\ Len(evs) \in Nat
      /\ \A j \in 1..Len(evs) : evs[j] \in Tasks
      /\ \A j \in 1..Len(evs) : Floor(all[evs[j]].time) = ms
      /\ \A j, k \in 1..Len(evs) : j < k => /\ all[evs[j]].time <= all[evs[k]].time
                                            /\ evs[j] # evs[k]
  BY EventFacts DEF EventsOK
<1>1. PICK kept : Keeps(f, evs, kept) /\ Without(f, evs) = kept[Len(evs)]
  <2>1. \E kept : Keeps(f, evs, kept)
    BY <1>0, KeepsExists
  <2>2. QED
    BY <2>1, Zenon DEF Without, Keeps
<1>2. \A n \in 0..Len(evs) :
        kept[n] = IF n = 0 THEN <<>>
                  ELSE IF evs[n] \in f THEN kept[n - 1]
                  ELSE Append(kept[n - 1], evs[n])
  BY <1>1, Zenon DEF Keeps
<1> DEFINE Left(n) == /\ EventsOK(kept[n], ms, all)
                      /\ \A u : Contains(kept[n], u) <=>
                                  u \notin f /\ \E j \in 1..n : evs[j] = u
           Good == {n \in Nat : n <= Len(evs) => Left(n)}
<1>3. 0 \in Good
  <2>1. kept[0] = <<>>
    BY <1>0, <1>2
  <2>2. EventsOK(<<>>, ms, all)
    BY EmptySeq DEF EventsOK
  <2>3. \A u : ~ Contains(<<>>, u)
    BY DEF Contains
  <2>4. QED
    BY <2>1, <2>2, <2>3
<1>4. ASSUME NEW m \in Good PROVE m + 1 \in Good
  <2> SUFFICES ASSUME m + 1 <= Len(evs) PROVE Left(m + 1)
    OBVIOUS
  <2>1. /\ m \in Nat /\ m <= Len(evs) /\ m + 1 \in 0..Len(evs) /\ m + 1 # 0
        /\ (m + 1) - 1 = m /\ m + 1 \in 1..Len(evs)
    BY <1>0
  <2>2. Left(m)
    BY <2>1
  <2> DEFINE s == kept[m]
             e == evs[m + 1]
  <2>3. kept[m + 1] = IF e \in f THEN s ELSE Append(s, e)
    BY <1>2, <2>1
  <2>4. /\ EventsOK(s, ms, all)
        /\ \A u : Contains(s, u) <=> u \notin f /\ \E j \in 1..m : evs[j] = u
    BY <2>2
  <2>5. e \in Tasks /\ Floor(all[e].time) = ms
    BY <1>0, <2>1
  <2>6. \A j \in 1..m : all[evs[j]].time <= all[e].time /\ evs[j] # e
    <3> SUFFICES ASSUME NEW j \in 1..m PROVE all[evs[j]].time <= all[e].time /\ evs[j] # e
      OBVIOUS
    <3>1. j \in 1..Len(evs) /\ j < m + 1
      BY <1>0, <2>1
    <3>2. QED
      BY <1>0, <2>1, <3>1
  <2>7. \A u : (\E j \in 1..m + 1 : evs[j] = u) <=> (\E j \in 1..m : evs[j] = u) \/ u = e
    <3>1. \A j \in 1..m + 1 : j \in 1..m \/ j = m + 1
      BY <2>1
    <3>2. \A j \in 1..m : j \in 1..m + 1
      BY <2>1
    <3>3. m + 1 \in 1..m + 1
      BY <2>1
    <3>4. QED
      BY <3>1, <3>2, <3>3, Zenon
  <2> HIDE DEF Good, Left, s, e
  <2>8. CASE e \in f
    <3>1. kept[m + 1] = s
      BY <2>3, <2>8
    <3>2. QED
      BY <2>4, <2>7, <2>8, <3>1, Zenon DEF Left
  <2>9. CASE e \notin f
    <3>0. kept[m + 1] = Append(s, e)
      BY <2>3, <2>9
    <3>1. s \in Seq(Tasks) /\ Len(s) \in Nat
      BY <2>4, EventFacts DEF EventsOK
    <3> DEFINE a == Append(s, e)
    <3>2. /\ a \in Seq(Tasks) /\ Len(a) = Len(s) + 1
          /\ \A j \in 1..Len(s) : a[j] = s[j]
          /\ a[Len(s) + 1] = e
      BY <2>5, <3>1, AppendProperties
    <3> HIDE DEF a
    <3>3. \A j \in 1..Len(s) : all[s[j]].time <= all[e].time /\ s[j] # e
      <4> SUFFICES ASSUME NEW j \in 1..Len(s)
                   PROVE  all[s[j]].time <= all[e].time /\ s[j] # e
        OBVIOUS
      <4>1. Contains(s, s[j])
        BY DEF Contains
      <4>2. PICK k \in 1..m : evs[k] = s[j]
        BY <2>4, <4>1
      <4>3. QED
        BY <2>6, <4>2
    <3>4. \A j \in 1..Len(s) + 1 : j \in 1..Len(s) \/ j = Len(s) + 1
      BY <3>1
    <3>5. \A j \in 1..Len(s) + 1 : Floor(all[a[j]].time) = ms
      BY <2>4, <2>5, <3>2, <3>4 DEF EventsOK
    <3>6. ASSUME NEW j \in 1..Len(s) + 1, NEW k \in 1..Len(s) + 1, j < k
          PROVE  all[a[j]].time <= all[a[k]].time /\ a[j] # a[k]
      <4>1. j \in 1..Len(s)
        BY <3>1, <3>6
      <4>2. CASE k = Len(s) + 1
        BY <3>2, <3>3, <4>1, <4>2
      <4>3. CASE k \in 1..Len(s)
        BY <2>4, <3>2, <3>6, <4>1, <4>3 DEF EventsOK
      <4>4. QED
        BY <3>4, <4>2, <4>3
    <3>7. EventsOK(a, ms, all)
      BY <3>2, <3>5, <3>6 DEF EventsOK
    <3>8. \A u : Contains(a, u) <=> Contains(s, u) \/ u = e
      <4>1. ASSUME NEW u, Contains(a, u) PROVE Contains(s, u) \/ u = e
        BY <3>2, <3>4, <4>1 DEF Contains
      <4>2. ASSUME NEW u, Contains(s, u) PROVE Contains(a, u)
        <5>1. PICK j \in 1..Len(s) : s[j] = u
          BY <4>2 DEF Contains
        <5>2. j \in 1..Len(a) /\ a[j] = u
          BY <3>1, <3>2, <5>1
        <5>3. QED
          BY <5>2 DEF Contains
      <4>3. Contains(a, e)
        <5>1. Len(s) + 1 \in 1..Len(a)
          BY <3>1, <3>2
        <5>2. QED
          BY <3>2, <5>1 DEF Contains
      <4>4. QED
        BY <4>1, <4>2, <4>3
    <3>9. kept[m + 1] = a
      BY <3>0 DEF a
    <3>10. QED
      BY <2>4, <2>7, <2>9, <3>7, <3>8, <3>9, Zenon DEF Left
  <2>10. QED
    BY <2>8, <2>9
<1>5. Nat \subseteq Good
  <2> HIDE DEF Good
  <2> Good \in SUBSET Nat
    BY DEF Good
  <2> QED
    BY <1>3, <1>4, AllNumbers
<1>6. Left(Len(evs))
  <2> HIDE DEF Left
  <2> QED
    BY <1>0, <1>5
<1>7. QED
  BY <1>1, <1>6 DEF Contains
-----------------------------------------------------------------------------
(* The slots.                                                              *)

\* What the binary searches rely on: the slots are in order, and so are the
\* events of each.
Tidy(slots, all) ==
    /\ slots \in Seq(Slots)
    /\ InOrder(slots)
    /\ \A i \in 1..Len(slots) : EventsOK(slots[i].events, slots[i].time, all)

\* A task is in the slot of its millisecond, and so in one slot at most.
LEMMA HomeSlot ==
    ASSUME NEW slots, NEW all, Tidy(slots, all),
           NEW i \in 1..Len(slots), NEW u, Contains(slots[i].events, u)
    PROVE  /\ u \in Tasks /\ Floor(all[u].time) = slots[i].time
           /\ HoldsTask(slots, u)
           /\ \A k \in 1..Len(slots) : Contains(slots[k].events, u) => k = i
<1>0. slots \in Seq(Slots) /\ Len(slots) \in Nat
  BY SlotFacts DEF Tidy
<1>1. ASSUME NEW k \in 1..Len(slots), Contains(slots[k].events, u)
      PROVE  u \in Tasks /\ Floor(all[u].time) = slots[k].time
  <2>1. EventsOK(slots[k].events, slots[k].time, all)
    BY DEF Tidy
  <2>2. slots[k].events \in Seq(Tasks)
    BY <2>1 DEF EventsOK
  <2>3. PICK j \in 1..Len(slots[k].events) : slots[k].events[j] = u
    BY <1>1 DEF Contains
  <2>4. QED
    BY <2>1, <2>2, <2>3, EventFacts DEF EventsOK
<1>2. ASSUME NEW k \in 1..Len(slots), Contains(slots[k].events, u) PROVE k = i
  <2>1. slots[k].time = slots[i].time
    BY <1>1, <1>2
  <2>2. slots[k].time \in Nat /\ slots[i].time \in Nat
    BY <1>0, SlotFacts
  <2>3. ~ (k < i) /\ ~ (i < k)
    BY <2>1, <2>2 DEF Tidy, InOrder
  <2>4. QED
    BY <1>0, <2>3
<1>3. QED
  BY <1>1, <1>2 DEF HoldsTask

\* The order of the timeline depends on the times of the tasks in it only.
LEMMA TidyFrame ==
    ASSUME NEW slots, NEW all, NEW new, Tidy(slots, all),
           \A u : HoldsTask(slots, u) => new[u].time = all[u].time
    PROVE  Tidy(slots, new)
<1>1. ASSUME NEW i \in 1..Len(slots)
      PROVE  EventsOK(slots[i].events, slots[i].time, new)
  <2>1. EventsOK(slots[i].events, slots[i].time, all)
    BY DEF Tidy
  <2>2. \A u : Contains(slots[i].events, u) => new[u].time = all[u].time
    BY DEF HoldsTask
  <2>3. QED
    BY <2>1, <2>2, EventsFrame
<1>2. QED
  BY <1>1 DEF Tidy

\* The slots with other events in slot i.
WithEvents(slots, i, evs) == [slots EXCEPT ![i].events = evs]

\* A slot whose events change stays where it is.
LEMMA ChangeSlot ==
    ASSUME NEW slots, NEW all, NEW new, Tidy(slots, all), NEW i \in 1..Len(slots),
           NEW evs, EventsOK(evs, slots[i].time, new),
           \A u : HoldsTask(slots, u) /\ ~ Contains(slots[i].events, u)
                    => new[u].time = all[u].time,
           NEW result, result = WithEvents(slots, i, evs)
    PROVE  /\ Tidy(result, new)
           /\ \A u : HoldsTask(result, u) <=>
                       \/ Contains(evs, u)
                       \/ HoldsTask(slots, u) /\ ~ Contains(slots[i].events, u)
<1>0. /\ slots \in Seq(Slots) /\ Len(slots) \in Nat /\ DOMAIN slots = 1..Len(slots)
      /\ \A k \in 1..Len(slots) : slots[k] \in Slots
  BY SlotFacts DEF Tidy
<1>1. evs \in Seq(Tasks)
  BY DEF EventsOK
<1> DEFINE slot == [slots[i] EXCEPT !.events = evs]
<1>2. slot \in Slots /\ slot.time = slots[i].time /\ slot.events = evs
  BY <1>0, <1>1 DEF Slots
<1>3. result = [slots EXCEPT ![i] = slot]
  BY DEF WithEvents
<1> HIDE DEF slot
<1>4. /\ result \in Seq(Slots) /\ Len(result) = Len(slots)
      /\ \A k \in 1..Len(slots) : result[k] = IF k = i THEN slot ELSE slots[k]
  <2>1. /\ [slots EXCEPT ![i] = slot] \in Seq(Slots)
        /\ Len([slots EXCEPT ![i] = slot]) = Len(slots)
        /\ \A k \in 1..Len(slots) :
             [slots EXCEPT ![i] = slot][k] = IF k = i THEN slot ELSE slots[k]
    BY <1>0, <1>2, ExceptSeq
  <2>2. QED
    BY <1>3, <2>1, Zenon
<1>5. \A k \in 1..Len(slots) : result[k].time = slots[k].time
  BY <1>2, <1>4
<1>6. InOrder(result)
  BY <1>4, <1>5 DEF Tidy, InOrder
<1>7. ASSUME NEW k \in 1..Len(slots)
      PROVE  EventsOK(result[k].events, result[k].time, new)
  <2>1. CASE k = i
    BY <1>2, <1>4, <2>1
  <2>2. CASE k # i
    <3>1. EventsOK(slots[k].events, slots[k].time, all) /\ result[k] = slots[k]
      BY <1>4, <2>2 DEF Tidy
    <3>2. ASSUME NEW u, Contains(slots[k].events, u) PROVE new[u].time = all[u].time
      <4>1. HoldsTask(slots, u) /\ ~ Contains(slots[i].events, u)
        BY <2>2, <3>2, HomeSlot
      <4>2. QED
        BY <4>1
    <3>3. QED
      BY <3>1, <3>2, EventsFrame
  <2>3. QED
    BY <2>1, <2>2
<1>8. Tidy(result, new)
  BY <1>4, <1>6, <1>7 DEF Tidy
<1>9. ASSUME NEW u
      PROVE  HoldsTask(result, u) <=>
               \/ Contains(evs, u)
               \/ HoldsTask(slots, u) /\ ~ Contains(slots[i].events, u)
  <2>1. ASSUME HoldsTask(result, u), ~ Contains(evs, u)
        PROVE  HoldsTask(slots, u) /\ ~ Contains(slots[i].events, u)
    <3>1. PICK k \in 1..Len(slots) : Contains(result[k].events, u)
      BY <1>4, <2>1 DEF HoldsTask
    <3>2. k # i
      BY <1>2, <1>4, <2>1, <3>1
    <3>3. Contains(slots[k].events, u)
      BY <1>4, <3>1, <3>2
    <3>4. QED
      BY <3>2, <3>3, HomeSlot
  <2>2. ASSUME Contains(evs, u) PROVE HoldsTask(result, u)
    <3>1. Contains(result[i].events, u) /\ i \in 1..Len(result)
      BY <1>2, <1>4, <2>2
    <3>2. QED
      BY <3>1 DEF HoldsTask
  <2>3. ASSUME HoldsTask(slots, u), ~ Contains(slots[i].events, u) PROVE HoldsTask(result, u)
    <3>1. PICK k \in 1..Len(slots) : Contains(slots[k].events, u)
      BY <2>3 DEF HoldsTask
    <3>2. Contains(result[k].events, u) /\ k \in 1..Len(result)
      BY <1>4, <2>3, <3>1
    <3>3. QED
      BY <3>2 DEF HoldsTask
  <2>4. QED
    BY <2>1, <2>2, <2>3
<1>10. QED
  BY <1>8, <1>9

\* A new slot is put in where its time belongs.
LEMMA AddSlot ==
    ASSUME NEW slots, NEW all, Tidy(slots, all), NEW slot \in Slots,
           EventsOK(slot.events, slot.time, all),
           NEW i \in 1..Len(slots) + 1,
           \A k \in 1..Len(slots) : /\ k < i => slots[k].time < slot.time
                                    /\ i <= k => slot.time < slots[k].time
    PROVE  /\ Tidy(InsertAt(slots, i, slot), all)
           /\ \A u : HoldsTask(InsertAt(slots, i, slot), u) <=>
                       HoldsTask(slots, u) \/ Contains(slot.events, u)
<1> DEFINE n == Len(slots)
           result == InsertAt(slots, i, slot)
<1>0. /\ slots \in Seq(Slots) /\ n \in Nat /\ i \in Nat /\ 1 <= i /\ i <= n + 1
      /\ \A k \in 1..n : slots[k].time \in Nat
      /\ slot.time \in Nat
  <2>1. slots \in Seq(Slots)
    BY DEF Tidy
  <2>2. slot.time \in Nat
    BY DEF Slots
  <2>3. QED
    BY <2>1, <2>2, SlotFacts
<1>1. /\ result \in Seq(Slots) /\ Len(result) = n + 1
      /\ \A k \in 1..n + 1 : result[k] = IF k < i THEN slots[k]
                                         ELSE IF k = i THEN slot ELSE slots[k - 1]
  BY <1>0, InsertFacts
<1> HIDE DEF result
<1>2. \A k \in 1..n + 1 :
        \/ k < i /\ k \in 1..n /\ result[k] = slots[k]
        \/ k = i /\ result[k] = slot
        \/ i < k /\ k - 1 \in 1..n /\ i <= k - 1 /\ result[k] = slots[k - 1]
  <2> SUFFICES ASSUME NEW k \in 1..n + 1
               PROVE  \/ k < i /\ k \in 1..n /\ result[k] = slots[k]
                      \/ k = i /\ result[k] = slot
                      \/ i < k /\ k - 1 \in 1..n /\ i <= k - 1 /\ result[k] = slots[k - 1]
    OBVIOUS
  <2>1. CASE k < i
    BY <1>0, <1>1, <2>1
  <2>2. CASE k = i
    BY <1>0, <1>1, <2>2
  <2>3. CASE i < k
    <3>1. k - 1 \in 1..n /\ i <= k - 1 /\ ~ (k < i) /\ k # i
      BY <1>0, <2>3
    <3>2. QED
      BY <1>1, <2>3, <3>1
  <2>4. QED
    BY <1>0, <2>1, <2>2, <2>3
<1>3. InOrder(result)
  <2> SUFFICES ASSUME NEW j \in 1..n + 1, NEW k \in 1..n + 1, j < k
               PROVE  result[j].time < result[k].time
    BY <1>1 DEF InOrder
  <2>1. CASE k < i
    <3>1. j < i /\ j \in 1..n /\ k \in 1..n /\ result[j] = slots[j] /\ result[k] = slots[k]
      BY <1>0, <1>2, <2>1
    <3>2. QED
      BY <3>1 DEF Tidy, InOrder
  <2>2. CASE k = i
    <3>1. j < i /\ j \in 1..n /\ result[j] = slots[j] /\ result[k] = slot
      BY <1>0, <1>2, <2>2
    <3>2. QED
      BY <3>1
  <2>3. CASE i < k
    <3>1. k - 1 \in 1..n /\ i <= k - 1 /\ result[k] = slots[k - 1]
      BY <1>0, <1>2, <2>3
    <3>2. CASE j < i
      <4>1. j \in 1..n /\ j < k - 1 /\ result[j] = slots[j]
        BY <1>0, <1>2, <2>3, <3>1, <3>2
      <4>2. QED
        BY <3>1, <4>1 DEF Tidy, InOrder
    <3>3. CASE j = i
      BY <1>0, <1>2, <3>1, <3>3
    <3>4. CASE i < j
      <4>1. j - 1 \in 1..n /\ j - 1 < k - 1 /\ result[j] = slots[j - 1]
        BY <1>0, <1>2, <3>4
      <4>2. QED
        BY <3>1, <4>1 DEF Tidy, InOrder
    <3>5. QED
      BY <1>0, <3>2, <3>3, <3>4
  <2>4. QED
    BY <1>0, <2>1, <2>2, <2>3
<1>4. \A k \in 1..n + 1 : EventsOK(result[k].events, result[k].time, all)
  <2>1. \A k \in 1..n : EventsOK(slots[k].events, slots[k].time, all)
    BY DEF Tidy
  <2>2. QED
    BY <1>2, <2>1
<1>5. Tidy(result, all)
  BY <1>1, <1>3, <1>4 DEF Tidy
<1>6. ASSUME NEW u, HoldsTask(result, u)
      PROVE  HoldsTask(slots, u) \/ Contains(slot.events, u)
  <2>1. PICK k \in 1..n + 1 : Contains(result[k].events, u)
    BY <1>1, <1>6 DEF HoldsTask
  <2>2. QED
    BY <1>2, <2>1 DEF HoldsTask
<1>7. ASSUME NEW u, HoldsTask(slots, u) PROVE HoldsTask(result, u)
  <2>1. PICK k \in 1..n : Contains(slots[k].events, u)
    BY <1>7 DEF HoldsTask
  <2>2. CASE k < i
    <3>1. k \in 1..Len(result) /\ result[k] = slots[k]
      BY <1>0, <1>1, <2>2
    <3>2. QED
      BY <2>1, <3>1 DEF HoldsTask
  <2>3. CASE i <= k
    <3>1. k + 1 \in 1..n + 1 /\ i < k + 1 /\ (k + 1) - 1 = k
      BY <1>0, <2>3
    <3>2. k + 1 \in 1..Len(result) /\ result[k + 1] = slots[k]
      BY <1>0, <1>1, <1>2, <3>1
    <3>3. QED
      BY <2>1, <3>2 DEF HoldsTask
  <2>4. QED
    BY <1>0, <2>2, <2>3
<1>8. ASSUME NEW u, Contains(slot.events, u) PROVE HoldsTask(result, u)
  <2>1. i \in 1..Len(result) /\ result[i] = slot
    BY <1>0, <1>1
  <2>2. QED
    BY <1>8, <2>1 DEF HoldsTask
<1>9. QED
  BY <1>5, <1>6, <1>7, <1>8 DEF result

\* A slot is taken out with all it holds.
LEMMA DropSlot ==
    ASSUME NEW slots, NEW all, Tidy(slots, all), NEW i \in 1..Len(slots)
    PROVE  /\ Tidy(RemoveAt(slots, i), all)
           /\ \A u : HoldsTask(RemoveAt(slots, i), u) <=>
                       HoldsTask(slots, u) /\ ~ Contains(slots[i].events, u)
<1> DEFINE n == Len(slots)
           result == RemoveAt(slots, i)
<1>0. slots \in Seq(Slots) /\ n \in Nat /\ i \in Nat /\ 1 <= i /\ i <= n
  BY SlotFacts DEF Tidy
<1>1. /\ result \in Seq(Slots) /\ Len(result) = n - 1
      /\ \A k \in 1..n - 1 : result[k] = IF k < i THEN slots[k] ELSE slots[k + 1]
  BY <1>0, RemoveFacts
<1> HIDE DEF result
<1> DEFINE from == [j \in 1..n - 1 |-> IF j < i THEN j ELSE j + 1]
<1>2. \A j \in 1..n - 1 : from[j] \in 1..n /\ from[j] # i /\ result[j] = slots[from[j]]
  BY <1>0, <1>1
<1>3. \A j, k \in 1..n - 1 : j < k => from[j] < from[k]
  BY <1>0
<1>4. \A j \in 1..n : j # i => \E k \in 1..n - 1 : from[k] = j
  <2> SUFFICES ASSUME NEW j \in 1..n, j # i PROVE \E k \in 1..n - 1 : from[k] = j
    OBVIOUS
  <2>1. CASE j < i
    <3>1. j \in 1..n - 1 /\ from[j] = j
      BY <1>0, <2>1
    <3>2. QED
      BY <3>1
  <2>2. CASE i < j
    <3>1. j - 1 \in 1..n - 1 /\ from[j - 1] = j
      BY <1>0, <2>2
    <3>2. QED
      BY <3>1
  <2>3. QED
    BY <1>0, <2>1, <2>2
<1> HIDE DEF from
<1>5. InOrder(result)
  <2> SUFFICES ASSUME NEW j \in 1..n - 1, NEW k \in 1..n - 1, j < k
               PROVE  result[j].time < result[k].time
    BY <1>1 DEF InOrder
  <2>1. from[j] \in 1..n /\ from[k] \in 1..n /\ from[j] < from[k]
    BY <1>2, <1>3
  <2>2. slots[from[j]].time < slots[from[k]].time
    BY <2>1 DEF Tidy, InOrder
  <2>3. QED
    BY <1>2, <2>2
<1>6. \A k \in 1..n - 1 : EventsOK(result[k].events, result[k].time, all)
  BY <1>2 DEF Tidy
<1>7. Tidy(result, all)
  BY <1>1, <1>5, <1>6 DEF Tidy
<1>8. ASSUME NEW u, HoldsTask(result, u)
      PROVE  HoldsTask(slots, u) /\ ~ Contains(slots[i].events, u)
  <2>1. PICK k \in 1..n - 1 : Contains(result[k].events, u)
    BY <1>1, <1>8 DEF HoldsTask
  <2>2. from[k] \in 1..n /\ from[k] # i /\ Contains(slots[from[k]].events, u)
    BY <1>2, <2>1
  <2>3. QED
    BY <2>2, HomeSlot
<1>9. ASSUME NEW u, HoldsTask(slots, u), ~ Contains(slots[i].events, u)
      PROVE  HoldsTask(result, u)
  <2>1. PICK k \in 1..n : Contains(slots[k].events, u)
    BY <1>9 DEF HoldsTask
  <2>2. PICK j \in 1..n - 1 : from[j] = k
    BY <1>4, <1>9, <2>1
  <2>3. j \in 1..Len(result) /\ result[j] = slots[k]
    BY <1>1, <1>2, <2>2
  <2>4. QED
    BY <2>1, <2>3 DEF HoldsTask
<1>10. QED
  BY <1>7, <1>8, <1>9 DEF result

\* The binary search finds the slot of a time that has one.
LEMMA FindsHome ==
    ASSUME NEW slots, NEW all, Tidy(slots, all),
           NEW k \in 1..Len(slots), NEW ms \in Nat, slots[k].time = ms
    PROVE  BinarySearch(ms, slots) = k
<1> DEFINE i == BinarySearch(ms, slots)
<1>0. /\ slots \in Seq(Slots) /\ Len(slots) \in Nat
      /\ \A j \in 1..Len(slots) : slots[j].time \in Nat
  BY SlotFacts DEF Tidy
<1>1. /\ i \in 1..Len(slots) + 1
      /\ \A j \in 1..Len(slots) : j < i <=> slots[j].time < ms
  BY <1>0, BinarySearchFinds DEF Tidy
<1> HIDE DEF i
<1>2. ~ (k < i)
  BY <1>0, <1>1
<1>3. i \in 1..Len(slots) /\ i <= k
  BY <1>0, <1>1, <1>2
<1>4. ~ (i < i) /\ ~ (slots[i].time < ms)
  BY <1>0, <1>1, <1>3
<1>5. ~ (i < k)
  <2> SUFFICES ASSUME i < k PROVE FALSE
    OBVIOUS
  <2>1. slots[i].time < slots[k].time
    BY <1>3 DEF Tidy, InOrder
  <2>2. QED
    BY <1>4, <2>1
<1>6. i = k
  BY <1>0, <1>3, <1>5
<1>7. QED
  BY <1>6 DEF i

\* insertByTime keeps the timeline in order, and adds the task.
LEMMA InsertByTimeFacts ==
    ASSUME NEW slots, NEW all, Tidy(slots, all), Timed(all),
           NEW t \in Tasks, ~ HoldsTask(slots, t), NEW at \in Nat,
           NEW new, Moved(t, at, all, new)
    PROVE  /\ Tidy(InsertByTime(t, at, slots, all), new)
           /\ \A u : HoldsTask(InsertByTime(t, at, slots, all), u) <=>
                       HoldsTask(slots, u) \/ u = t
<1> DEFINE i == BinarySearch(Floor(at), slots)
           result == InsertByTime(t, at, slots, all)
<1>0. /\ slots \in Seq(Slots) /\ Len(slots) \in Nat /\ InOrder(slots)
      /\ \A j \in 1..Len(slots) : slots[j].time \in Nat
      /\ Floor(at) \in Nat
  BY SlotFacts, FloorFacts DEF Tidy
<1>1. /\ i \in 1..Len(slots) + 1
      /\ \A j \in 1..Len(slots) : j < i <=> slots[j].time < Floor(at)
  BY <1>0, BinarySearchFinds
<1>2. \A u : HoldsTask(slots, u) => u # t /\ new[u].time = all[u].time
  <2> SUFFICES ASSUME NEW u, HoldsTask(slots, u) PROVE u # t /\ new[u].time = all[u].time
    OBVIOUS
  <2>1. PICK k \in 1..Len(slots) : Contains(slots[k].events, u)
    BY DEF HoldsTask
  <2>2. u \in Tasks /\ u # t
    BY <2>1, HomeSlot
  <2>3. QED
    BY <2>2 DEF Moved
<1>3. result = IF HasSlot(Floor(at), slots, i)
               THEN [slots EXCEPT ![i].events = AddEvent(t, at, slots[i].events, all)]
               ELSE InsertAt(slots, i, [time |-> Floor(at), events |-> <<t>>])
  BY Zenon DEF InsertByTime
<1> HIDE DEF i, result
<1>4. CASE HasSlot(Floor(at), slots, i)
  <2>1. i \in 1..Len(slots) /\ slots[i].time = Floor(at)
    BY <1>0, <1>1, <1>4 DEF HasSlot
  <2> DEFINE evs == slots[i].events
             e2  == AddEvent(t, at, evs, all)
  <2>2. EventsOK(evs, Floor(at), all)
    BY <2>1 DEF Tidy
  <2>3. ~ Contains(evs, t)
    BY <2>1 DEF HoldsTask
  <2> HIDE DEF evs
  <2>4. /\ EventsOK(e2, Floor(at), new)
        /\ \A u : Contains(e2, u) <=> Contains(evs, u) \/ u = t
    BY <2>2, <2>3, AddEventFacts
  <2>5. result = WithEvents(slots, i, e2)
    BY <1>3, <1>4 DEF evs, WithEvents
  <2> HIDE DEF e2
  <2>6. EventsOK(e2, slots[i].time, new)
    BY <2>1, <2>4
  <2>7. /\ Tidy(result, new)
        /\ \A u : HoldsTask(result, u) <=>
                    \/ Contains(e2, u)
                    \/ HoldsTask(slots, u) /\ ~ Contains(slots[i].events, u)
    <3>1. \A u : HoldsTask(slots, u) /\ ~ Contains(slots[i].events, u)
                    => new[u].time = all[u].time
      BY <1>2
    <3>2. QED
      BY <2>1, <2>5, <2>6, <3>1, ChangeSlot
  <2>8. \A u : Contains(evs, u) => HoldsTask(slots, u)
    BY <2>1 DEF evs, HoldsTask
  <2>9. \A u : HoldsTask(result, u) <=> HoldsTask(slots, u) \/ u = t
    BY <2>4, <2>7, <2>8, Zenon DEF evs
  <2>10. QED
    BY <2>7, <2>9 DEF result
<1>5. CASE ~ HasSlot(Floor(at), slots, i)
  <2> DEFINE slot == [time |-> Floor(at), events |-> <<t>>]
  <2>1. slot \in Slots /\ slot.time = Floor(at) /\ slot.events = <<t>>
    BY <1>0 DEF Slots
  <2>2. result = InsertAt(slots, i, slot)
    BY <1>3, <1>5
  <2> HIDE DEF slot
  <2>3. Tidy(slots, new)
    BY <1>2, TidyFrame
  <2>4. EventsOK(slot.events, slot.time, new)
    <3>1. /\ <<t>> \in Seq(Tasks) /\ Len(<<t>>) = 1 /\ <<t>>[1] = t
      OBVIOUS
    <3>2. Floor(new[t].time) = Floor(at)
      BY DEF Moved
    <3>3. \A j \in 1..1 : j = 1
      OBVIOUS
    <3> DEFINE one == <<t>>
    <3> HIDE DEF one
    <3>4. /\ one \in Seq(Tasks)
          /\ \A j \in 1..Len(one) : j = 1 /\ one[j] = t
      BY <3>1, <3>3 DEF one
    <3>5. EventsOK(one, Floor(at), new)
      BY <3>2, <3>4 DEF EventsOK
    <3>6. QED
      BY <2>1, <3>5 DEF one
  <2>5. ASSUME NEW k \in 1..Len(slots)
        PROVE  /\ k < i => slots[k].time < slot.time
               /\ i <= k => slot.time < slots[k].time
    <3>1. k < i => slots[k].time < slot.time
      BY <1>1, <2>1
    <3>2. ASSUME i <= k PROVE slot.time < slots[k].time
      <4>1. i \in 1..Len(slots) /\ i <= Len(slots)
        BY <1>0, <1>1, <3>2
      <4>2. slots[i].time # Floor(at)
        BY <1>5, <4>1 DEF HasSlot
      <4>3. ~ (slots[i].time < Floor(at))
        BY <1>1, <4>1
      <4>4. Floor(at) < slots[i].time
        BY <1>0, <4>1, <4>2, <4>3
      <4>5. CASE i = k
        BY <2>1, <4>4, <4>5
      <4>6. CASE i < k
        <5>1. slots[i].time < slots[k].time
          BY <1>0, <4>1, <4>6 DEF InOrder
        <5>2. QED
          BY <1>0, <2>1, <4>1, <4>4, <5>1
      <4>7. QED
        BY <1>0, <3>2, <4>1, <4>5, <4>6
    <3>3. QED
      BY <3>1, <3>2
  <2>6. /\ Tidy(InsertAt(slots, i, slot), new)
        /\ \A u : HoldsTask(InsertAt(slots, i, slot), u) <=>
                    HoldsTask(slots, u) \/ Contains(slot.events, u)
    BY <1>1, <2>1, <2>3, <2>4, <2>5, AddSlot
  <2>7. \A u : Contains(slot.events, u) <=> u = t
    BY <2>1 DEF Contains
  <2>8. QED
    BY <2>2, <2>6, <2>7 DEF result
<1>6. QED
  BY <1>4, <1>5

\* timeline.remove keeps the timeline in order, and takes out that task and no
\* other.
LEMMA TakeFacts ==
    ASSUME NEW slots, Tidy(slots, tasks), Timed(tasks), NEW t \in Tasks
    PROVE  /\ Tidy(Take(t, slots), tasks)
           /\ \A u : HoldsTask(Take(t, slots), u) <=> HoldsTask(slots, u) /\ u # t
<1> DEFINE ms == Floor(tasks[t].time)
           i  == BinarySearch(ms, slots)
<1>0. /\ slots \in Seq(Slots) /\ Len(slots) \in Nat /\ InOrder(slots)
      /\ ms \in Nat
  BY SlotFacts, FloorFacts DEF Tidy, Timed
<1>1. i \in 1..Len(slots) + 1
  BY <1>0, BinarySearchFinds
<1>2. HoldsTask(slots, t) => HasSlot(ms, slots, i) /\ Contains(slots[i].events, t)
  <2> SUFFICES ASSUME HoldsTask(slots, t)
               PROVE  HasSlot(ms, slots, i) /\ Contains(slots[i].events, t)
    OBVIOUS
  <2>1. PICK k \in 1..Len(slots) : Contains(slots[k].events, t)
    BY DEF HoldsTask
  <2>2. slots[k].time = ms
    BY <2>1, HomeSlot
  <2>3. i = k
    BY <1>0, <2>2, FindsHome
  <2> HIDE DEF i, ms
  <2>4. QED
    BY <1>0, <2>1, <2>2, <2>3 DEF HasSlot
<1>3. Take(t, slots) =
        IF ~ HasSlot(ms, slots, i) \/ ~ Contains(slots[i].events, t) THEN slots
        ELSE IF Len(slots[i].events) = 1 THEN RemoveAt(slots, i)
        ELSE [slots EXCEPT ![i].events =
                RemoveAt(slots[i].events, IndexOf(t, slots[i].events))]
  BY Zenon DEF Take
<1> HIDE DEF ms, i
<1>4. CASE ~ HasSlot(ms, slots, i) \/ ~ Contains(slots[i].events, t)
  <2>1. Take(t, slots) = slots
    BY <1>3, <1>4
  <2>2. ~ HoldsTask(slots, t)
    BY <1>2, <1>4
  <2>3. QED
    BY <2>1, <2>2
<1>5. CASE HasSlot(ms, slots, i) /\ Contains(slots[i].events, t)
  <2>1. i \in 1..Len(slots) /\ slots[i].time = ms
    BY <1>0, <1>1, <1>5 DEF HasSlot
  <2> DEFINE evs == slots[i].events
             j   == IndexOf(t, evs)
  <2>2. EventsOK(evs, ms, tasks) /\ evs \in Seq(Tasks)
    BY <2>1 DEF Tidy, EventsOK
  <2>3. j \in 1..Len(evs) /\ evs[j] = t
    BY <1>5, <2>2, IndexOfFinds
  <2>4. \A u : Contains(evs, u) => HoldsTask(slots, u)
    BY <2>1 DEF HoldsTask
  <2>5. Take(t, slots) =
          IF Len(evs) = 1 THEN RemoveAt(slots, i)
          ELSE [slots EXCEPT ![i].events = RemoveAt(evs, j)]
    BY <1>3, <1>5
  <2>6. evs = slots[i].events
    OBVIOUS
  <2> HIDE DEF evs, j
  <2>7. CASE Len(evs) = 1
    <3>1. Take(t, slots) = RemoveAt(slots, i)
      BY <2>5, <2>7
    <3>2. \A u : Contains(evs, u) <=> u = t
      <4>1. \A k \in 1..Len(evs) : k = j
        BY <2>3, <2>7
      <4>2. QED
        BY <2>3, <4>1 DEF Contains
    <3>3. /\ Tidy(RemoveAt(slots, i), tasks)
          /\ \A u : HoldsTask(RemoveAt(slots, i), u) <=>
                      HoldsTask(slots, u) /\ ~ Contains(slots[i].events, u)
      BY <2>1, DropSlot
    <3>4. QED
      BY <2>6, <3>1, <3>2, <3>3
  <2>8. CASE Len(evs) # 1
    <3> DEFINE e2 == RemoveAt(evs, j)
               result == [slots EXCEPT ![i].events = e2]
    <3>1. Take(t, slots) = result
      BY <2>5, <2>8
    <3>2. /\ EventsOK(e2, ms, tasks)
          /\ \A u : Contains(e2, u) <=> Contains(evs, u) /\ u # t
      BY <2>2, <2>3, TakeEventFacts
    <3>3. result = WithEvents(slots, i, e2)
      BY DEF WithEvents
    <3> HIDE DEF e2, result
    <3>4. EventsOK(e2, slots[i].time, tasks)
      BY <2>1, <3>2
    <3>5. /\ Tidy(result, tasks)
          /\ \A u : HoldsTask(result, u) <=>
                      \/ Contains(e2, u)
                      \/ HoldsTask(slots, u) /\ ~ Contains(slots[i].events, u)
      BY <2>1, <3>3, <3>4, ChangeSlot
    <3>6. Contains(evs, t)
      BY <1>5, <2>6
    <3>7. \A u : HoldsTask(result, u) <=> HoldsTask(slots, u) /\ u # t
      BY <2>4, <2>6, <3>2, <3>5, <3>6, Zenon
    <3>8. QED
      BY <3>1, <3>5, <3>7
  <2>9. QED
    BY <2>7, <2>8
<1>6. QED
  BY <1>4, <1>5

\* removeAll keeps the timeline in order, and takes out the tasks it is asked to.
LEMMA SweepFacts ==
    ASSUME NEW slots, NEW all, Tidy(slots, all), NEW f
    PROVE  /\ Tidy(Sweep(f, slots), all)
           /\ \A u : HoldsTask(Sweep(f, slots), u) <=> HoldsTask(slots, u) /\ u \notin f
<1> DEFINE n == Len(slots)
           swept(i) == [slots[i] EXCEPT !.events = Without(f, slots[i].events)]
           result == [i \in 1..n |-> swept(i)]
<1>0. /\ slots \in Seq(Slots) /\ n \in Nat
      /\ \A i \in 1..n : slots[i] \in Slots
  BY SlotFacts DEF Tidy
<1>1. Sweep(f, slots) = result
  BY DEF Sweep
<1>2. ASSUME NEW i \in 1..n
      PROVE  /\ EventsOK(Without(f, slots[i].events), slots[i].time, all)
             /\ \A u : Contains(Without(f, slots[i].events), u) <=>
                         Contains(slots[i].events, u) /\ u \notin f
  <2>1. EventsOK(slots[i].events, slots[i].time, all)
    BY DEF Tidy
  <2>2. QED
    BY <2>1, WithoutFacts
<1>3. ASSUME NEW i \in 1..n
      PROVE  /\ swept(i) \in Slots /\ swept(i).time = slots[i].time
             /\ swept(i).events = Without(f, slots[i].events)
  <2>1. Without(f, slots[i].events) \in Seq(Tasks)
    BY <1>2 DEF EventsOK
  <2>2. QED
    BY <1>0, <2>1 DEF Slots
<1>4. result \in Seq(Slots) /\ Len(result) = n /\ \A i \in 1..n : result[i] = swept(i)
  <2> HIDE DEF swept
  <2>1. result \in [1..n -> Slots]
    BY <1>3
  <2>2. QED
    BY <1>0, <2>1
<1> HIDE DEF result, swept
<1>5. \A i \in 1..n : /\ result[i].time = slots[i].time
                      /\ result[i].events = Without(f, slots[i].events)
  BY <1>3, <1>4
<1>6. Tidy(result, all)
  BY <1>2, <1>4, <1>5 DEF Tidy, InOrder
<1>7. ASSUME NEW u PROVE HoldsTask(result, u) <=> HoldsTask(slots, u) /\ u \notin f
  BY <1>2, <1>4, <1>5 DEF HoldsTask
<1>8. QED
  BY <1>1, <1>6, <1>7
-----------------------------------------------------------------------------
(* The turn takes the head of the timeline.                                *)

\* As many slots are taken as are due, and no others.
LEMMA DueSlotsFacts ==
    ASSUME NEW slots \in Seq(Slots)
    PROVE  /\ DueSlots(slots) \in 0..Len(slots)
           /\ \A i \in 1..DueSlots(slots) : slots[i].time <= now
<1> DEFINE S == {n \in 0..Len(slots) : \A i \in 1..n : slots[i].time <= now}
           R == {Len(slots) - n : n \in S}
<1>0. Len(slots) \in Nat
  BY SlotFacts
<1>1. 0 \in S
  BY <1>0
<1>2. PICK r \in R : \A other \in R : r <= other
  <2>1. R \in SUBSET Nat /\ R # {}
    BY <1>0, <1>1
  <2> HIDE DEF R
  <2>2. QED
    BY <2>1, LeastNumber
<1>3. PICK n \in S : r = Len(slots) - n
  BY <1>2
<1>4. \A m \in S : n >= m
  <2> SUFFICES ASSUME NEW m \in S PROVE n >= m
    OBVIOUS
  <2>1. r <= Len(slots) - m
    BY <1>2
  <2>2. QED
    BY <1>0, <1>3, <2>1
<1>5. DueSlots(slots) = Max(S)
  BY DEF DueSlots
<1> HIDE DEF S
<1>6. Max(S) \in S
  BY <1>3, <1>4, Zenon DEF Max
<1>7. QED
  BY <1>5, <1>6 DEF S

\* A stretch of the timeline is in order like the whole.
LEMMA StretchFacts ==
    ASSUME NEW slots, NEW all, Tidy(slots, all),
           NEW m \in 1..Len(slots) + 1, NEW n \in 0..Len(slots), m <= n + 1
    PROVE  /\ Tidy(SubSeq(slots, m, n), all)
           /\ Len(SubSeq(slots, m, n)) = n - m + 1
           /\ \A i \in 1..n - m + 1 : SubSeq(slots, m, n)[i] = slots[m + i - 1]
           /\ \A u : HoldsTask(SubSeq(slots, m, n), u) <=>
                       \E i \in m..n : Contains(slots[i].events, u)
<1> DEFINE part == SubSeq(slots, m, n)
<1>0. /\ slots \in Seq(Slots) /\ Len(slots) \in Nat /\ m \in Nat /\ n \in Nat
      /\ 1 <= m /\ n <= Len(slots)
      /\ \A i \in 1..Len(slots) : slots[i] \in Slots
  BY SlotFacts DEF Tidy
<1>1. \A i \in m..n : slots[i] \in Slots
  BY <1>0
<1>2. /\ part \in Seq(Slots)
      /\ Len(part) = IF m <= n THEN n - m + 1 ELSE 0
      /\ \A i \in 1..n - m + 1 : part[i] = slots[m + i - 1]
  <2>1. m \in Int /\ n \in Int
    BY <1>0
  <2>2. QED
    BY <1>1, <2>1, SubSeqProperties
<1> HIDE DEF part
<1>3. Len(part) = n - m + 1
  BY <1>0, <1>2
<1>4. \A i \in 1..n - m + 1 : m + i - 1 \in m..n /\ m + i - 1 \in 1..Len(slots)
  BY <1>0
<1>5. InOrder(part)
  <2> SUFFICES ASSUME NEW i \in 1..n - m + 1, NEW j \in 1..n - m + 1, i < j
               PROVE  part[i].time < part[j].time
    BY <1>3 DEF InOrder
  <2>1. m + i - 1 < m + j - 1
    BY <1>0
  <2>2. slots[m + i - 1].time < slots[m + j - 1].time
    BY <1>4, <2>1 DEF Tidy, InOrder
  <2>3. QED
    BY <1>2, <2>2
<1>6. \A i \in 1..n - m + 1 : EventsOK(part[i].events, part[i].time, all)
  BY <1>2, <1>4 DEF Tidy
<1>7. Tidy(part, all)
  BY <1>2, <1>3, <1>5, <1>6 DEF Tidy
<1>8. ASSUME NEW u, HoldsTask(part, u) PROVE \E i \in m..n : Contains(slots[i].events, u)
  BY <1>2, <1>3, <1>4, <1>8 DEF HoldsTask
<1>9. ASSUME NEW u, NEW i \in m..n, Contains(slots[i].events, u) PROVE HoldsTask(part, u)
  <2>1. i - m + 1 \in 1..n - m + 1 /\ m + (i - m + 1) - 1 = i
    BY <1>0
  <2>2. i - m + 1 \in 1..Len(part) /\ part[i - m + 1] = slots[i]
    BY <1>2, <1>3, <2>1
  <2>3. QED
    BY <1>9, <2>2 DEF HoldsTask
<1>10. QED
  BY <1>2, <1>3, <1>7, <1>8, <1>9 DEF part

\* Nothing is twice in the sequence.
Single(s) == \A j, k \in 1..Len(s) : j < k => s[j] # s[k]

LEMMA JoinSingle ==
    ASSUME NEW a \in Seq(Tasks), NEW b \in Seq(Tasks), Single(a), Single(b),
           \A u : ~ (Contains(a, u) /\ Contains(b, u))
    PROVE  /\ a \o b \in Seq(Tasks)
           /\ Single(a \o b)
           /\ \A u : Contains(a \o b, u) <=> Contains(a, u) \/ Contains(b, u)
<1> DEFINE c == a \o b
           m == Len(a)
           n == Len(b)
<1>0. m \in Nat /\ n \in Nat
  BY EventFacts
<1>1. /\ c \in Seq(Tasks) /\ Len(c) = m + n
      /\ \A i \in 1..m + n : c[i] = IF i <= m THEN a[i] ELSE b[i - m]
  BY ConcatProperties
<1> HIDE DEF c
<1>2. \A i \in 1..m + n : \/ i \in 1..m /\ c[i] = a[i]
                          \/ m < i /\ i - m \in 1..n /\ c[i] = b[i - m]
  BY <1>0, <1>1
<1>3. Single(c)
  <2> SUFFICES ASSUME NEW i \in 1..m + n, NEW j \in 1..m + n, i < j
               PROVE  c[i] # c[j]
    BY <1>1 DEF Single
  <2>1. CASE j \in 1..m
    <3>1. i \in 1..m /\ c[i] = a[i] /\ c[j] = a[j]
      BY <1>0, <1>2, <2>1
    <3>2. QED
      BY <2>1, <3>1 DEF Single
  <2>2. CASE i \in 1..m /\ m < j
    <3>1. c[i] = a[i] /\ j - m \in 1..n /\ c[j] = b[j - m]
      BY <1>0, <1>2, <2>2
    <3>2. Contains(a, c[i]) /\ Contains(b, c[j])
      BY <2>2, <3>1 DEF Contains
    <3>3. QED
      BY <3>2
  <2>3. CASE m < i
    <3>1. /\ i - m \in 1..n /\ j - m \in 1..n /\ i - m < j - m
          /\ c[i] = b[i - m] /\ c[j] = b[j - m]
      BY <1>0, <1>2, <2>3
    <3>2. QED
      BY <3>1 DEF Single
  <2>4. QED
    BY <1>0, <2>1, <2>2, <2>3
<1>4. ASSUME NEW u, Contains(c, u) PROVE Contains(a, u) \/ Contains(b, u)
  BY <1>1, <1>2, <1>4 DEF Contains
<1>5. ASSUME NEW u, Contains(a, u) PROVE Contains(c, u)
  <2>1. PICK i \in 1..m : a[i] = u
    BY <1>5 DEF Contains
  <2>2. i \in 1..Len(c) /\ c[i] = u
    BY <1>0, <1>1, <2>1
  <2>3. QED
    BY <2>2 DEF Contains
<1>6. ASSUME NEW u, Contains(b, u) PROVE Contains(c, u)
  <2>1. PICK i \in 1..n : b[i] = u
    BY <1>6 DEF Contains
  <2>2. i + m \in 1..m + n /\ ~ (i + m <= m) /\ (i + m) - m = i
    BY <1>0
  <2>3. c[i + m] = b[(i + m) - m]
    BY <1>1, <2>2
  <2>4. i + m \in 1..Len(c) /\ c[i + m] = u
    BY <1>1, <2>1, <2>2, <2>3
  <2>5. QED
    BY <2>4 DEF Contains
<1>7. QED
  BY <1>1, <1>3, <1>4, <1>5, <1>6 DEF c

\* What the function of FlattenSeq is, as an equation.
Flattens(seqs, flat) ==
    flat = [i \in 1..Len(seqs) |-> IF i = 1 THEN seqs[i] ELSE flat[i - 1] \o seqs[i]]

LEMMA FlattensExists ==
    ASSUME NEW n \in Nat, NEW seqs \in [1..n -> Seq(Tasks)]
    PROVE  \E flat : Flattens(seqs, flat)
<1> DEFINE S == Seq(Tasks)
           step == [x \in Nat \X S |->
                      IF x[1] < n THEN x[2] \o seqs[x[1] + 1] ELSE x[2]]
           nothing == <<>>
<1>0. Len(seqs) = n /\ \A j \in 1..n : seqs[j] \in S
  OBVIOUS
<1>1. \A k \in Nat, s \in S : step[<<k, s>>] = IF k < n THEN s \o seqs[k + 1] ELSE s
  BY Zenon
<1>2. step \in [Nat \X S -> S]
  <2> SUFFICES ASSUME NEW x \in Nat \X S
               PROVE  (IF x[1] < n THEN x[2] \o seqs[x[1] + 1] ELSE x[2]) \in S
    BY Zenon
  <2>1. x[1] \in Nat /\ x[2] \in S
    BY Zenon
  <2>2. ASSUME x[1] < n PROVE x[2] \o seqs[x[1] + 1] \in S
    <3>1. seqs[x[1] + 1] \in S
      BY <1>0, <2>1, <2>2
    <3>2. QED
      BY <2>1, <3>1, ConcatProperties
  <2>3. QED
    BY <2>1, <2>2, Zenon
<1>3. nothing \in S
  BY EmptySeq
<1> HIDE DEF step, S, nothing
<1>4. PICK g : /\ g \in [Nat -> S]
               /\ g[0] = nothing
               /\ \A k \in Nat : g[k + 1] = step[<<k, g[k]>>]
  <2>1. \E g : Built(S, nothing, step, g)
    BY <1>2, <1>3, StepByStep, Zenon
  <2>2. QED
    BY <2>1 DEF Built
<1> DEFINE h == [i \in 1..n |-> g[i]]
<1>5. ASSUME NEW i \in 1..n
      PROVE  h[i] = IF i = 1 THEN seqs[i] ELSE h[i - 1] \o seqs[i]
  <2>1. i - 1 \in Nat /\ i - 1 < n /\ (i - 1) + 1 = i /\ i \in Nat
    OBVIOUS
  <2>2. g[i] = step[<<i - 1, g[i - 1]>>] /\ g[i - 1] \in S
    BY <1>4, <2>1
  <2>3. step[<<i - 1, g[i - 1]>>] =
          IF i - 1 < n THEN g[i - 1] \o seqs[(i - 1) + 1] ELSE g[i - 1]
    BY <1>1, <2>1, <2>2
  <2>4. g[i] = g[i - 1] \o seqs[i]
    BY <2>1, <2>2, <2>3
  <2>5. CASE i = 1
    <3>1. g[i - 1] = <<>>
      BY <1>4, <2>5 DEF nothing
    <3>2. <<>> \o seqs[i] = seqs[i]
      BY <1>0, ConcatEmptySeq DEF S
    <3>3. QED
      BY <2>4, <2>5, <3>1, <3>2
  <2>6. CASE i # 1
    <3>1. h[i] = g[i] /\ h[i - 1] = g[i - 1]
      BY <2>1, <2>6
    <3> HIDE DEF h
    <3>2. QED
      BY <2>4, <2>6, <3>1, Zenon
  <2>7. QED
    BY <2>5, <2>6
<1>6. h = [i \in 1..n |-> IF i = 1 THEN seqs[i] ELSE h[i - 1] \o seqs[i]]
  <2>1. h = [i \in 1..n |-> h[i]]
    OBVIOUS
  <2> HIDE DEF h
  <2>2. QED
    BY <1>5, <2>1, Zenon
<1>7. QED
  BY <1>0, <1>6, Zenon DEF Flattens

\* The events of slots in order: what the slots hold, and nothing twice.
LEMMA EventsOfSlots ==
    ASSUME NEW slots, NEW all, Tidy(slots, all)
    PROVE  /\ Events(slots) \in Seq(Tasks)
           /\ Single(Events(slots))
           /\ \A u : Contains(Events(slots), u) <=> HoldsTask(slots, u)
<1> DEFINE n == Len(slots)
           seqs == [i \in 1..n |-> slots[i].events]
<1>0. /\ slots \in Seq(Slots) /\ n \in Nat
      /\ \A i \in 1..n : slots[i].events \in Seq(Tasks)
  BY SlotFacts DEF Tidy
<1>1. seqs \in [1..n -> Seq(Tasks)] /\ Len(seqs) = n /\ \A i \in 1..n : seqs[i] = slots[i].events
  BY <1>0
<1>2. Events(slots) = FlattenSeq(seqs)
  BY DEF Events
<1> HIDE DEF seqs
<1>3. ASSUME NEW i \in 1..n PROVE Single(seqs[i])
  <2>1. EventsOK(slots[i].events, slots[i].time, all)
    BY DEF Tidy
  <2>2. QED
    BY <1>1, <2>1 DEF EventsOK, Single
<1>4. ASSUME NEW i \in 1..n, NEW j \in 1..n, NEW u,
             Contains(seqs[i], u), Contains(seqs[j], u)
      PROVE  i = j
  BY <1>1, <1>4, HomeSlot
<1>5. \A u : HoldsTask(slots, u) <=> \E i \in 1..n : Contains(seqs[i], u)
  BY <1>1 DEF HoldsTask
<1>6. CASE n = 0
  <2>1. FlattenSeq(seqs) = seqs
    BY <1>1, <1>6 DEF FlattenSeq
  <2>2. seqs = <<>>
    BY <1>1, <1>6
  <2>3. <<>> \in Seq(Tasks) /\ Single(<<>>) /\ \A u : ~ Contains(<<>>, u)
    BY DEF Single, Contains
  <2>4. QED
    BY <1>2, <1>5, <1>6, <2>1, <2>2, <2>3
<1>7. CASE n # 0
  <2>1. PICK flat : Flattens(seqs, flat) /\ FlattenSeq(seqs) = flat[Len(seqs)]
    <3>1. \E flat : Flattens(seqs, flat)
      BY <1>0, <1>1, FlattensExists
    <3>2. Len(seqs) # 0
      BY <1>1, <1>7
    <3>3. QED
      BY <3>1, <3>2, Zenon DEF FlattenSeq, Flattens
  <2>2. \A i \in 1..n : flat[i] = IF i = 1 THEN seqs[i] ELSE flat[i - 1] \o seqs[i]
    BY <1>1, <2>1, Zenon DEF Flattens
  <2> DEFINE Joined(k) == /\ flat[k] \in Seq(Tasks)
                          /\ Single(flat[k])
                          /\ \A u : Contains(flat[k], u) <=>
                                      \E i \in 1..k : Contains(seqs[i], u)
             Good == {k \in Nat : k + 1 <= n => Joined(k + 1)}
  <2>3. 0 \in Good
    <3>1. 1 \in 1..n
      BY <1>0, <1>7
    <3>2. flat[1] = seqs[1]
      BY <2>2, <3>1
    <3>3. \A i \in 1..1 : i = 1
      OBVIOUS
    <3>4. \A u : (\E i \in 1..1 : Contains(seqs[i], u)) <=> Contains(seqs[1], u)
      <4>1. 1 \in 1..1
        OBVIOUS
      <4>2. QED
        BY <3>3, <4>1, Zenon
    <3>5. Joined(1)
      BY <1>1, <1>3, <3>1, <3>2, <3>4
    <3> HIDE DEF Joined
    <3>6. QED
      BY <3>5
  <2>4. ASSUME NEW k \in Good PROVE k + 1 \in Good
    <3> SUFFICES ASSUME (k + 1) + 1 <= n PROVE Joined((k + 1) + 1)
      OBVIOUS
    <3> DEFINE m == k + 1
    <3>1. /\ k \in Nat /\ m \in 1..n /\ m + 1 \in 1..n /\ m + 1 # 1
          /\ (m + 1) - 1 = m
      BY <1>0
    <3>2. Joined(m)
      BY <3>1
    <3>3. flat[m + 1] = flat[m] \o seqs[m + 1]
      BY <2>2, <3>1
    <3> HIDE DEF Good, m
    <3>4. \A u : ~ (Contains(flat[m], u) /\ Contains(seqs[m + 1], u))
      <4> SUFFICES ASSUME NEW u, Contains(flat[m], u), Contains(seqs[m + 1], u) PROVE FALSE
        OBVIOUS
      <4>1. PICK i \in 1..m : Contains(seqs[i], u)
        BY <3>2
      <4>2. i \in 1..n /\ i # m + 1
        BY <1>0, <3>1
      <4>3. QED
        BY <1>4, <3>1, <4>1, <4>2
    <3>5. seqs[m + 1] \in Seq(Tasks) /\ Single(seqs[m + 1])
      BY <1>1, <1>3, <3>1
    <3>6. /\ flat[m] \o seqs[m + 1] \in Seq(Tasks)
          /\ Single(flat[m] \o seqs[m + 1])
          /\ \A u : Contains(flat[m] \o seqs[m + 1], u) <=>
                      Contains(flat[m], u) \/ Contains(seqs[m + 1], u)
      BY <3>2, <3>4, <3>5, JoinSingle
    <3>7. \A u : (\E i \in 1..m + 1 : Contains(seqs[i], u)) <=>
                   (\E i \in 1..m : Contains(seqs[i], u)) \/ Contains(seqs[m + 1], u)
      <4>1. \A i \in 1..m + 1 : i \in 1..m \/ i = m + 1
        BY <3>1
      <4>2. m + 1 \in 1..m + 1 /\ \A i \in 1..m : i \in 1..m + 1
        BY <3>1
      <4>3. QED
        BY <4>1, <4>2, Zenon
    <3>8. Joined(m + 1)
      BY <3>2, <3>3, <3>6, <3>7
    <3> HIDE DEF Joined
    <3>9. QED
      BY <3>8 DEF m
  <2>5. Nat \subseteq Good
    <3> HIDE DEF Good
    <3> Good \in SUBSET Nat
      BY DEF Good
    <3> QED
      BY <2>3, <2>4, AllNumbers
  <2>6. Joined(n)
    <3>1. n - 1 \in Nat /\ (n - 1) + 1 = n
      BY <1>0, <1>7
    <3> HIDE DEF Joined
    <3>2. (n - 1) + 1 <= n => Joined((n - 1) + 1)
      BY <2>5, <3>1
    <3>3. QED
      BY <1>0, <3>1, <3>2
  <2>7. QED
    BY <1>1, <1>2, <1>5, <2>1, <2>6
<1>8. QED
  BY <1>6, <1>7
-----------------------------------------------------------------------------
(* The timer.                                                              *)

\* The timer comes no later than its arrival, or at once.
TimerOK(tm, clock) ==
    /\ tm \in Timers
    /\ tm.set => tm.due <= clock \/ tm.due <= tm.arrival

\* A timer is set for the first slot or for an earlier time.
Covers(slots, tm) == slots # <<>> => tm.set /\ tm.arrival <= slots[1].time

\* setTimeout is given whole milliseconds, and they are rounded down.
LEMMA ArmedFacts ==
    ASSUME now \in Nat, NEW at \in Nat
    PROVE  TimerOK(Armed(at), now) /\ Armed(at).set /\ Armed(at).arrival = at
<1> DEFINE d == AtLeast0(at - now)
<1>1. d \in Nat /\ (d = 0 \/ now + d = at)
  BY DEF AtLeast0
<1>2. Floor(d) \in Nat /\ Floor(d) <= d
  BY <1>1, FloorFacts
<1>3. Armed(at) = [set |-> TRUE, arrival |-> at, due |-> now + Floor(d)]
  BY DEF Armed
<1> HIDE DEF d
<1>4. now + Floor(d) \in Nat /\ (now + Floor(d) <= now \/ now + Floor(d) <= at)
  BY <1>1, <1>2
<1>5. QED
  BY <1>3, <1>4 DEF TimerOK, Timers

\* _scheduleNextRun
LEMMA NextRunFacts ==
    ASSUME now \in Nat, NEW tm, TimerOK(tm, now), NEW slots \in Seq(Slots)
    PROVE  TimerOK(NextRun(slots, tm), now) /\ Covers(slots, NextRun(slots, tm))
<1>1. CASE slots = <<>>
  BY <1>1 DEF NextRun, Covers
<1>2. CASE slots # <<>>
  <2>1. 1 \in 1..Len(slots)
    BY <1>2, SlotFacts
  <2>2. slots[1].time \in Nat
    BY <2>1, SlotFacts
  <2>3. CASE ~tm.set \/ slots[1].time < tm.arrival
    <3>1. NextRun(slots, tm) = Armed(slots[1].time)
      BY <1>2, <2>3 DEF NextRun
    <3>2. TimerOK(Armed(slots[1].time), now) /\ Armed(slots[1].time).set
          /\ Armed(slots[1].time).arrival = slots[1].time
      BY <2>2, ArmedFacts
    <3>3. QED
      BY <2>2, <3>1, <3>2 DEF Covers
  <2>4. CASE tm.set /\ ~ (slots[1].time < tm.arrival)
    <3>1. NextRun(slots, tm) = tm
      BY <2>4 DEF NextRun
    <3>2. tm.arrival \in Nat
      BY DEF TimerOK, Timers
    <3>3. QED
      BY <2>2, <2>4, <3>1, <3>2 DEF Covers
  <2>5. QED
    BY <2>3, <2>4
<1>3. QED
  BY <1>1, <1>2

LEMMA UnsetFacts ==
    ASSUME NEW clock, NEW tm, TimerOK(tm, clock)
    PROVE  TimerOK(Unset(tm), clock)
  BY DEF TimerOK, Unset, Timers

\* _reschedule
LEMMA RescheduleFacts ==
    ASSUME now \in Nat, NEW tm, TimerOK(tm, now), NEW slots \in Seq(Slots)
    PROVE  TimerOK(Reschedule(slots, tm), now) /\ Covers(slots, Reschedule(slots, tm))
<1>1. CASE slots = <<>>
  BY <1>1, UnsetFacts DEF Reschedule, Covers
<1>2. CASE slots # <<>>
  BY <1>2, NextRunFacts DEF Reschedule
<1>3. QED
  BY <1>1, <1>2
-----------------------------------------------------------------------------
(* The inductive invariant.  That no task is twice with the scheduler needs  *)
(* the three places apart: in the timeline, among the tasks taken out of it, *)
(* on the stack.                                                             *)

\* A task that waits is active, and it is nowhere else.
WaitingApart ==
    \A t \in Tasks : HoldsTask(timeline, t) =>
       tasks[t].scheduled /\ tasks[t].active /\ ~Contains(ready, t) /\ running # t

\* A task that was taken out is due, and it is there once.
ReadyApart ==
    /\ Single(ready)
    /\ \A t \in Tasks : Contains(ready, t) =>
         tasks[t].scheduled /\ running # t /\ Floor(tasks[t].time) <= now

\* Only a turn takes tasks out and runs them.
TurnOK ==
    /\ running # NoTask => tasks[running].scheduled
    /\ pc = "idle" => ready = <<>> /\ running = NoTask

\* Between turns the timer covers the first slot.
Rested == pc = "idle" /\ ~stalled => Covers(timeline, timer)

IInv ==
    /\ TypeOK
    /\ Tidy(timeline, tasks)
    /\ WaitingApart
    /\ ReadyApart
    /\ TurnOK
    /\ TimerOK(timer, now)
    /\ Rested

\* What the steps need of the types.
LEMMA TypeFacts ==
    ASSUME TypeOK
    PROVE  /\ now \in Nat
           /\ Timed(tasks)
           /\ \A t \in Tasks : /\ tasks[t] \in ScheduledTasks
                               /\ tasks[t].time \in Nat /\ tasks[t].period \in Int
           /\ timeline \in Seq(Slots) /\ ready \in Seq(Tasks)
<1>1. now \in Nat
  BY MaxNowAssumption DEF TypeOK
<1>2. \A t \in Tasks : tasks[t] \in ScheduledTasks
  BY DEF TypeOK
<1>3. \A t \in Tasks : tasks[t].time \in Nat /\ tasks[t].period \in Int
  <2> SUFFICES ASSUME NEW t \in Tasks PROVE tasks[t].time \in Nat /\ tasks[t].period \in Int
    OBVIOUS
  <2>1. tasks[t].time \in Nat /\ tasks[t].period \in Periods \cup {-1}
    BY <1>2 DEF ScheduledTasks
  <2>2. Periods \cup {-1} \subseteq Int
    BY PeriodsAssumption
  <2> QED
    BY <2>1, <2>2
<1>4. QED
  BY <1>1, <1>2, <1>3 DEF Timed, TypeOK

LEMMA EmptySlots ==
    /\ \A all : Tidy(<<>>, all)
    /\ \A t : ~HoldsTask(<<>>, t) /\ ~Contains(<<>>, t)
    /\ Single(<<>>)
  BY DEF Tidy, InOrder, HoldsTask, Contains, Single

LEMMA InvInit == Init => IInv
<1> SUFFICES ASSUME Init PROVE IInv
  OBVIOUS
<1>1. TypeOK
  <2>1. now \in 0..MaxNow
    BY MaxNowAssumption DEF Init
  <2>2. tasks \in [Tasks -> ScheduledTasks] /\ timer \in Timers
    BY DEF Init, ScheduledTasks, Timers
  <2>3. <<>> \in Seq(Slots) /\ <<>> \in Seq(Tasks)
    OBVIOUS
  <2>4. QED
    BY <2>1, <2>2, <2>3, Zenon DEF Init, TypeOK
<1>2. TimerOK(timer, now)
  BY DEF Init, TimerOK, Timers
<1>3. QED
  BY <1>1, <1>2, EmptySlots
  DEF Init, IInv, WaitingApart, ReadyApart, TurnOK, Rested, Covers
-----------------------------------------------------------------------------
(* Every step keeps the invariant.                                         *)

\* What the steps need of the invariant.
LEMMA InvFacts ==
    ASSUME IInv
    PROVE  /\ TypeOK /\ now \in Nat /\ Timed(tasks)
           /\ Tidy(timeline, tasks) /\ timeline \in Seq(Slots) /\ ready \in Seq(Tasks)
           /\ TimerOK(timer, now)
           /\ \A u : HoldsTask(timeline, u) => u \in Tasks
<1>1. ASSUME NEW u, HoldsTask(timeline, u) PROVE u \in Tasks
  <2>1. PICK i \in 1..Len(timeline) : Contains(timeline[i].events, u)
    BY <1>1 DEF HoldsTask
  <2>2. Tidy(timeline, tasks)
    BY DEF IInv
  <2>3. QED
    BY <2>1, <2>2, HomeSlot
<1>2. TypeOK /\ Tidy(timeline, tasks) /\ TimerOK(timer, now)
  BY DEF IInv
<1>3. QED
  BY <1>1, <1>2, TypeFacts

LEMMA ScheduleTaskKeeps ==
    ASSUME IInv, NEW t \in Tasks, NEW delay \in Delays, NEW period \in Periods,
           ScheduleTask(t, delay, period)
    PROVE  IInv'
<1> DEFINE at == now + AtLeast0(delay)
           entry == [time |-> at, period |-> period, scheduled |-> TRUE, active |-> TRUE]
           slots == InsertByTime(t, at, timeline, tasks)
<1>0. /\ TypeOK /\ now \in Nat /\ Timed(tasks)
      /\ Tidy(timeline, tasks) /\ timeline \in Seq(Slots) /\ ready \in Seq(Tasks)
      /\ TimerOK(timer, now)
  BY InvFacts
<1>1. /\ ~tasks[t].scheduled
      /\ tasks' = [tasks EXCEPT ![t] = entry]
      /\ timeline' = slots /\ timer' = NextRun(slots, timer) /\ stalled' = FALSE
      /\ UNCHANGED <<now, ready, running, pc, lost>>
  BY DEF ScheduleTask
<1>2. at \in Nat /\ entry \in ScheduledTasks
  <2>1. delay \in Int
    BY DelaysAssumption
  <2>2. at \in Nat
    BY <1>0, <2>1 DEF AtLeast0
  <2>3. QED
    BY <2>2 DEF ScheduledTasks
<1> HIDE DEF at, slots
<1>3. /\ tasks' \in [Tasks -> ScheduledTasks]
      /\ tasks'[t] = entry
      /\ \A u \in Tasks : u # t => tasks'[u] = tasks[u]
  BY <1>0, <1>1, <1>2 DEF TypeOK
<1>4. ~HoldsTask(timeline, t) /\ ~Contains(ready, t) /\ running # t
  BY <1>1 DEF IInv, WaitingApart, ReadyApart, TurnOK, Tasks, NoTask
<1>5. Moved(t, at, tasks, tasks')
  BY <1>3 DEF Moved
<1>6. /\ Tidy(slots, tasks')
      /\ \A u : HoldsTask(slots, u) <=> HoldsTask(timeline, u) \/ u = t
  BY <1>0, <1>2, <1>4, <1>5, InsertByTimeFacts DEF slots
<1>7. slots \in Seq(Slots)
  BY <1>6 DEF Tidy
<1>8. TimerOK(NextRun(slots, timer), now) /\ Covers(slots, NextRun(slots, timer))
  BY <1>0, <1>7, NextRunFacts
<1> HIDE DEF entry
<1>9. TypeOK'
  BY <1>0, <1>1, <1>3, <1>7, <1>8 DEF TypeOK, TimerOK
<1>10. WaitingApart'
  <2> SUFFICES ASSUME NEW u \in Tasks, HoldsTask(slots, u)
               PROVE  tasks'[u].scheduled /\ tasks'[u].active /\ ~Contains(ready, u) /\ running # u
    BY <1>1 DEF WaitingApart
  <2>1. CASE u = t
    BY <1>3, <1>4, <2>1 DEF entry
  <2>2. CASE u # t
    BY <1>3, <1>6, <2>2 DEF IInv, WaitingApart
  <2>3. QED
    BY <2>1, <2>2
<1>11. ReadyApart'
  <2>1. \A u \in Tasks : Contains(ready, u) => u # t /\ tasks'[u] = tasks[u]
    BY <1>3, <1>4
  <2>2. QED
    BY <1>1, <2>1 DEF IInv, ReadyApart, Floor
<1>12. TurnOK'
  <2>1. running # NoTask => running \in Tasks
    BY <1>0 DEF TypeOK
  <2>2. QED
    BY <1>1, <1>3, <1>4, <2>1 DEF IInv, TurnOK
<1>13. TimerOK(timer, now)' /\ Rested'
  BY <1>1, <1>8 DEF Rested
<1>14. QED
  BY <1>1, <1>6, <1>9, <1>10, <1>11, <1>12, <1>13 DEF IInv

LEMMA DisposeKeeps ==
    ASSUME IInv, NEW t \in Tasks, Dispose(t)
    PROVE  IInv'
<1> DEFINE slots == Take(t, timeline)
<1>0. /\ TypeOK /\ now \in Nat /\ Timed(tasks)
      /\ Tidy(timeline, tasks) /\ timeline \in Seq(Slots) /\ ready \in Seq(Tasks)
      /\ TimerOK(timer, now)
      /\ \A u \in Tasks : tasks[u] \in ScheduledTasks
  BY InvFacts, TypeFacts
<1>1. /\ tasks' = [tasks EXCEPT ![t].active = FALSE]
      /\ timeline' = slots
      /\ \/ timer' = Reschedule(slots, timer) /\ stalled' = FALSE
         \/ slots = timeline /\ UNCHANGED <<timer, stalled>>
      /\ UNCHANGED <<now, ready, running, pc, lost>>
  BY DEF Dispose
<1> HIDE DEF slots
<1>2. /\ tasks' \in [Tasks -> ScheduledTasks]
      /\ \A u \in Tasks : /\ tasks'[u].time = tasks[u].time
                          /\ tasks'[u].scheduled = tasks[u].scheduled
                          /\ u # t => tasks'[u].active = tasks[u].active
  BY <1>0, <1>1 DEF TypeOK, ScheduledTasks
<1>3. /\ Tidy(slots, tasks)
      /\ \A u : HoldsTask(slots, u) <=> HoldsTask(timeline, u) /\ u # t
  BY <1>0, TakeFacts DEF slots
<1>4. Tidy(slots, tasks')
  <2>1. \A u : HoldsTask(slots, u) => tasks'[u].time = tasks[u].time
    BY <1>2, <1>3, InvFacts
  <2>2. QED
    BY <1>3, <2>1, TidyFrame
<1>5. slots \in Seq(Slots)
  BY <1>3 DEF Tidy
<1>6. TimerOK(Reschedule(slots, timer), now) /\ Covers(slots, Reschedule(slots, timer))
  BY <1>0, <1>5, RescheduleFacts
<1>7. TimerOK(timer, now)' /\ Rested'
  <2>1. CASE timer' = Reschedule(slots, timer) /\ stalled' = FALSE
    BY <1>1, <1>6, <2>1 DEF Rested
  <2>2. CASE slots = timeline /\ UNCHANGED <<timer, stalled>>
    BY <1>0, <1>1, <2>2 DEF IInv, Rested
  <2>3. QED
    BY <1>1, <2>1, <2>2
<1>8. TypeOK'
  <2>1. timer' \in Timers /\ stalled' \in BOOLEAN
    BY <1>0, <1>1, <1>7 DEF TimerOK, TypeOK
  <2>2. QED
    BY <1>0, <1>1, <1>2, <1>5, <2>1 DEF TypeOK
<1>9. WaitingApart'
  BY <1>1, <1>2, <1>3 DEF IInv, WaitingApart
<1>10. ReadyApart'
  BY <1>1, <1>2 DEF IInv, ReadyApart, Floor
<1>11. TurnOK'
  <2>1. running # NoTask => running \in Tasks
    BY <1>0 DEF TypeOK
  <2>2. QED
    BY <1>1, <1>2, <2>1 DEF IInv, TurnOK
<1>12. QED
  BY <1>1, <1>4, <1>7, <1>8, <1>9, <1>10, <1>11 DEF IInv

LEMMA CancelAllKeeps ==
    ASSUME IInv, NEW f \in SUBSET Tasks, CancelAll(f)
    PROVE  IInv'
<1> DEFINE slots == Sweep(f, timeline)
<1>0. /\ TypeOK /\ now \in Nat
      /\ Tidy(timeline, tasks) /\ TimerOK(timer, now)
  BY InvFacts
<1>1. /\ timeline' = slots
      /\ timer' = Reschedule(slots, timer) /\ stalled' = FALSE
      /\ lost' = lost \cup {t \in f : Waiting(t)}
      /\ UNCHANGED <<now, tasks, ready, running, pc>>
  BY DEF CancelAll
<1> HIDE DEF slots
<1>2. /\ Tidy(slots, tasks)
      /\ \A u : HoldsTask(slots, u) <=> HoldsTask(timeline, u) /\ u \notin f
  BY <1>0, SweepFacts DEF slots
<1>3. slots \in Seq(Slots)
  BY <1>2 DEF Tidy
<1>4. TimerOK(Reschedule(slots, timer), now) /\ Covers(slots, Reschedule(slots, timer))
  BY <1>0, <1>3, RescheduleFacts
<1>5. TypeOK'
  <2>1. lost' \subseteq Tasks
    BY <1>0, <1>1 DEF TypeOK
  <2>2. timer' \in Timers /\ stalled' \in BOOLEAN
    BY <1>1, <1>4 DEF TimerOK
  <2>3. QED
    BY <1>0, <1>1, <1>3, <2>1, <2>2 DEF TypeOK
<1>6. WaitingApart'
  BY <1>1, <1>2 DEF IInv, WaitingApart
<1>7. ReadyApart' /\ TurnOK'
  BY <1>1 DEF IInv, ReadyApart, TurnOK, Floor
<1>8. TimerOK(timer, now)' /\ Rested'
  BY <1>1, <1>4 DEF Rested
<1>9. QED
  BY <1>1, <1>2, <1>5, <1>6, <1>7, <1>8 DEF IInv

\* The turn takes out the slots that are due; what it takes and what it leaves
\* share no task.
LEMMA CutFacts ==
    ASSUME NEW slots, NEW all, Tidy(slots, all)
    PROVE  LET n    == DueSlots(slots)
               head == Events(SubSeq(slots, 1, n))
               tail == SubSeq(slots, n + 1, Len(slots))
           IN  /\ Tidy(tail, all) /\ head \in Seq(Tasks) /\ Single(head)
               /\ \A u : Contains(head, u) => Floor(all[u].time) <= now
               /\ \A u : ~ (Contains(head, u) /\ HoldsTask(tail, u))
               /\ \A u : HoldsTask(slots, u) <=> Contains(head, u) \/ HoldsTask(tail, u)
<1> DEFINE n    == DueSlots(slots)
           first == SubSeq(slots, 1, n)
           head == Events(first)
           tail == SubSeq(slots, n + 1, Len(slots))
<1>0. /\ Len(slots) \in Nat /\ n \in 0..Len(slots)
      /\ \A i \in 1..n : slots[i].time <= now
  BY SlotFacts, DueSlotsFacts DEF Tidy
<1> HIDE DEF n
<1>1. /\ 1 \in 1..Len(slots) + 1 /\ n + 1 \in 1..Len(slots) + 1
      /\ Len(slots) \in 0..Len(slots)
      /\ 1 <= n + 1 /\ n + 1 <= Len(slots) + 1
  BY <1>0
<1>2. /\ Tidy(first, all)
      /\ \A u : HoldsTask(first, u) <=> \E i \in 1..n : Contains(slots[i].events, u)
  BY <1>0, <1>1, StretchFacts
<1>3. /\ Tidy(tail, all)
      /\ \A u : HoldsTask(tail, u) <=> \E i \in n + 1..Len(slots) : Contains(slots[i].events, u)
  BY <1>0, <1>1, StretchFacts
<1> HIDE DEF first, tail
<1>4. /\ head \in Seq(Tasks) /\ Single(head)
      /\ \A u : Contains(head, u) <=> HoldsTask(first, u)
  BY <1>2, EventsOfSlots
<1> HIDE DEF head
<1>5. /\ \A i \in 1..n : i \in 1..Len(slots) /\ i \notin n + 1..Len(slots)
      /\ \A i \in n + 1..Len(slots) : i \in 1..Len(slots)
      /\ \A i \in 1..Len(slots) : i \in 1..n \/ i \in n + 1..Len(slots)
  BY <1>0
<1>6. ASSUME NEW u, Contains(head, u)
      PROVE  Floor(all[u].time) <= now /\ ~HoldsTask(tail, u)
  <2>1. PICK i \in 1..n : Contains(slots[i].events, u)
    BY <1>2, <1>4, <1>6
  <2>2. /\ Floor(all[u].time) = slots[i].time
        /\ \A k \in 1..Len(slots) : Contains(slots[k].events, u) => k = i
    BY <1>5, <2>1, HomeSlot
  <2>3. QED
    BY <1>0, <1>3, <1>5, <2>2
<1>7. ASSUME NEW u PROVE HoldsTask(slots, u) <=> Contains(head, u) \/ HoldsTask(tail, u)
  BY <1>2, <1>3, <1>4, <1>5 DEF HoldsTask
<1>8. QED
  BY <1>3, <1>4, <1>6, <1>7 DEF head, first, tail, n

LEMMA RunReadyTasksKeeps ==
    ASSUME IInv, RunReadyTasks
    PROVE  IInv'
<1>0. TypeOK /\ Tidy(timeline, tasks) /\ TimerOK(timer, now) /\ running = NoTask
  BY InvFacts DEF IInv, TurnOK, RunReadyTasks
<1>1. /\ timer' = Unset(timer) /\ pc' = "turn"
      /\ UNCHANGED <<now, tasks, running, lost, stalled>>
  BY DEF RunReadyTasks
<1>2. /\ Tidy(timeline', tasks) /\ ready' \in Seq(Tasks) /\ Single(ready')
      /\ \A u : Contains(ready', u) => Floor(tasks[u].time) <= now
      /\ \A u : ~ (Contains(ready', u) /\ HoldsTask(timeline', u))
      /\ \A u : HoldsTask(timeline, u) <=> Contains(ready', u) \/ HoldsTask(timeline', u)
  BY <1>0, CutFacts DEF RunReadyTasks
<1>3. TimerOK(timer', now)
  BY <1>0, <1>1, UnsetFacts
<1>4. TypeOK'
  BY <1>0, <1>1, <1>2, <1>3 DEF TypeOK, TimerOK, Tidy
<1>5. WaitingApart'
  BY <1>1, <1>2 DEF IInv, WaitingApart
<1>6. ReadyApart'
  <2>1. \A t \in Tasks : Contains(ready', t) => tasks[t].scheduled /\ running # t
    BY <1>2 DEF IInv, WaitingApart
  <2>2. QED
    BY <1>1, <1>2, <2>1 DEF ReadyApart, Floor
<1>7. TurnOK' /\ Rested'
  BY <1>0, <1>1 DEF TurnOK, Rested
<1>8. QED
  BY <1>1, <1>2, <1>3, <1>4, <1>5, <1>6, <1>7 DEF IInv

\* The head of a sequence without repetition is not in its tail.
LEMMA TailFacts ==
    ASSUME NEW s \in Seq(Tasks), s # <<>>, Single(s)
    PROVE  /\ Head(s) \in Tasks /\ Contains(s, Head(s))
           /\ Tail(s) \in Seq(Tasks) /\ Single(Tail(s))
           /\ \A u : Contains(Tail(s), u) <=> Contains(s, u) /\ u # Head(s)
<1> DEFINE n == Len(s)
           rest == Tail(s)
<1>0. n \in Nat \ {0} /\ \A j \in 1..n : s[j] \in Tasks
  BY EventFacts
<1>1. /\ rest \in Seq(Tasks) /\ Len(rest) = n - 1 /\ Head(s) = s[1]
      /\ \A j \in 1..n - 1 : rest[j] = s[j + 1]
  BY HeadTailProperties
<1> HIDE DEF rest
<1>2. 1 \in 1..n /\ \A j \in 1..n - 1 : j + 1 \in 1..n /\ 1 < j + 1
  BY <1>0
<1>3. Single(rest)
  <2> SUFFICES ASSUME NEW j \in 1..n - 1, NEW k \in 1..n - 1, j < k PROVE rest[j] # rest[k]
    BY <1>1 DEF Single
  <2>1. j + 1 < k + 1
    BY <1>0
  <2>2. QED
    BY <1>1, <1>2, <2>1 DEF Single
<1>4. ASSUME NEW u, Contains(rest, u) PROVE Contains(s, u) /\ u # Head(s)
  <2>1. PICK j \in 1..n - 1 : rest[j] = u
    BY <1>1, <1>4 DEF Contains
  <2>2. s[j + 1] = u /\ s[1] # s[j + 1]
    BY <1>1, <1>2, <2>1 DEF Single
  <2>3. QED
    BY <1>1, <1>2, <2>2 DEF Contains
<1>5. ASSUME NEW u, Contains(s, u), u # Head(s) PROVE Contains(rest, u)
  <2>1. PICK j \in 1..n : s[j] = u
    BY <1>5 DEF Contains
  <2>2. j # 1
    BY <1>1, <1>5, <2>1
  <2>3. j - 1 \in 1..n - 1 /\ (j - 1) + 1 = j
    BY <1>0, <2>2
  <2>4. rest[j - 1] = u
    BY <1>1, <2>1, <2>3
  <2>5. QED
    BY <1>1, <2>3, <2>4 DEF Contains
<1>6. Head(s) \in Tasks /\ Contains(s, Head(s))
  BY <1>0, <1>1, <1>2 DEF Contains
<1>7. QED
  BY <1>1, <1>3, <1>4, <1>5, <1>6 DEF rest

LEMMA StartTaskKeeps ==
    ASSUME IInv, StartTask
    PROVE  IInv'
<1>0. /\ TypeOK /\ Tidy(timeline, tasks) /\ TimerOK(timer, now)
      /\ ready \in Seq(Tasks) /\ Single(ready)
  BY InvFacts DEF IInv, ReadyApart
<1>1. /\ pc = "turn" /\ ready # <<>> /\ running' = Head(ready) /\ ready' = Tail(ready)
      /\ UNCHANGED <<now, tasks, timeline, timer, pc, lost, stalled>>
  BY DEF StartTask, InLoop
<1>2. /\ running' \in Tasks /\ Contains(ready, running')
      /\ ready' \in Seq(Tasks) /\ Single(ready')
      /\ \A u : Contains(ready', u) <=> Contains(ready, u) /\ u # running'
  BY <1>0, <1>1, TailFacts
<1>3. TypeOK'
  BY <1>0, <1>1, <1>2 DEF TypeOK
<1>4. WaitingApart'
  BY <1>1, <1>2 DEF IInv, WaitingApart
<1>5. ReadyApart'
  BY <1>1, <1>2 DEF IInv, ReadyApart, Floor
<1>6. TurnOK'
  BY <1>1, <1>2 DEF IInv, ReadyApart, TurnOK
<1>7. TimerOK(timer, now)' /\ Rested' /\ Tidy(timeline, tasks)'
  BY <1>0, <1>1 DEF IInv, Rested
<1>8. QED
  BY <1>3, <1>4, <1>5, <1>6, <1>7 DEF IInv

LEMMA SkipTaskKeeps ==
    ASSUME IInv, SkipTask
    PROVE  IInv'
<1>0. /\ TypeOK /\ Tidy(timeline, tasks) /\ TimerOK(timer, now)
      /\ ready \in Seq(Tasks) /\ Single(ready)
  BY InvFacts DEF IInv, ReadyApart
<1>1. /\ pc = "turn" /\ ready # <<>> /\ ready' = Tail(ready)
      /\ UNCHANGED <<now, tasks, timeline, timer, running, pc, lost, stalled>>
  BY DEF SkipTask, InLoop
<1>2. /\ ready' \in Seq(Tasks) /\ Single(ready')
      /\ \A u : Contains(ready', u) => Contains(ready, u)
  BY <1>0, <1>1, TailFacts
<1>3. TypeOK'
  BY <1>0, <1>1, <1>2 DEF TypeOK
<1>4. WaitingApart' /\ ReadyApart'
  BY <1>1, <1>2 DEF IInv, WaitingApart, ReadyApart, Floor
<1>5. TurnOK'
  BY <1>1 DEF IInv, TurnOK
<1>6. TimerOK(timer, now)' /\ Rested' /\ Tidy(timeline, tasks)'
  BY <1>0, <1>1 DEF IInv, Rested
<1>7. QED
  BY <1>3, <1>4, <1>5, <1>6 DEF IInv

LEMMA FinishTaskKeeps ==
    ASSUME IInv, FinishTask
    PROVE  IInv'
<1> DEFINE t == running
           at == tasks[t].time + tasks[t].period
           again == tasks[t].period >= 0 /\ tasks[t].active
<1>0. /\ TypeOK /\ now \in Nat /\ Timed(tasks)
      /\ Tidy(timeline, tasks) /\ timeline \in Seq(Slots)
      /\ TimerOK(timer, now)
      /\ \A u \in Tasks : /\ tasks[u] \in ScheduledTasks
                          /\ tasks[u].time \in Nat /\ tasks[u].period \in Int
  BY InvFacts, TypeFacts
<1>1. /\ t # NoTask /\ running' = NoTask
      /\ UNCHANGED <<now, timer, ready, pc, lost, stalled>>
      /\ \/ /\ again
            /\ tasks' = [tasks EXCEPT ![t].time = at]
            /\ timeline' = InsertByTime(t, at, timeline, tasks)
         \/ /\ ~again
            /\ UNCHANGED <<tasks, timeline>>
  BY DEF FinishTask
<1>2. /\ t \in Tasks /\ tasks[t].scheduled /\ pc = "turn"
      /\ ~HoldsTask(timeline, t) /\ ~Contains(ready, t)
  BY <1>0, <1>1 DEF IInv, TypeOK, WaitingApart, ReadyApart, TurnOK
<1> HIDE DEF t
<1>3. TimerOK(timer, now)' /\ Rested'
  BY <1>0, <1>1, <1>2 DEF Rested
<1>4. CASE again
  <2> DEFINE slots == InsertByTime(t, at, timeline, tasks)
  <2>1. /\ tasks' = [tasks EXCEPT ![t].time = at] /\ timeline' = slots
        /\ tasks[t].active
    BY <1>1, <1>4
  <2>2. at \in Nat
    BY <1>0, <1>2, <1>4
  <2> HIDE DEF at, again, slots
  <2>3. /\ tasks' \in [Tasks -> ScheduledTasks] /\ tasks'[t].time = at
        /\ \A u \in Tasks : /\ tasks'[u].scheduled = tasks[u].scheduled
                            /\ tasks'[u].active = tasks[u].active
                            /\ u # t => tasks'[u] = tasks[u]
    BY <1>0, <1>2, <2>1, <2>2 DEF TypeOK, ScheduledTasks
  <2>4. Moved(t, at, tasks, tasks')
    BY <2>3 DEF Moved
  <2>5. /\ Tidy(slots, tasks')
        /\ \A u : HoldsTask(slots, u) <=> HoldsTask(timeline, u) \/ u = t
    BY <1>0, <1>2, <2>2, <2>4, InsertByTimeFacts DEF slots
  <2>6. TypeOK'
    BY <1>0, <1>1, <2>1, <2>3, <2>5 DEF TypeOK, Tidy
  <2>7. WaitingApart'
    <3> SUFFICES ASSUME NEW u \in Tasks, HoldsTask(slots, u)
                 PROVE  tasks'[u].scheduled /\ tasks'[u].active /\ ~Contains(ready, u) /\ NoTask # u
      BY <1>1, <2>1 DEF WaitingApart
    <3>1. NoTask # u
      BY DEF NoTask, Tasks
    <3>2. CASE u = t
      BY <1>2, <2>1, <2>3, <3>1, <3>2
    <3>3. CASE u # t
      BY <2>3, <2>5, <3>1, <3>3 DEF IInv, WaitingApart
    <3>4. QED
      BY <3>2, <3>3
  <2>8. ReadyApart'
    <3>1. \A u \in Tasks : Contains(ready, u) => u # t /\ tasks'[u] = tasks[u] /\ NoTask # u
      BY <1>2, <2>3 DEF NoTask, Tasks
    <3>2. QED
      BY <1>1, <3>1 DEF IInv, ReadyApart, Floor
  <2>9. TurnOK'
    BY <1>1, <1>2 DEF TurnOK
  <2>10. QED
    BY <1>3, <2>1, <2>5, <2>6, <2>7, <2>8, <2>9 DEF IInv
<1>5. CASE ~again
  <2>1. UNCHANGED <<now, tasks, timeline, timer, ready, pc, lost, stalled>>
    BY <1>1, <1>5
  <2> HIDE DEF again, at
  <2>2. \A u \in Tasks : NoTask # u
    BY DEF NoTask, Tasks
  <2>3. TypeOK' /\ Tidy(timeline, tasks)'
    BY <1>0, <1>1, <2>1 DEF TypeOK
  <2>4. WaitingApart' /\ ReadyApart'
    BY <1>1, <2>1, <2>2 DEF IInv, WaitingApart, ReadyApart, Floor
  <2>5. TurnOK'
    BY <1>1, <1>2 DEF TurnOK
  <2>6. QED
    BY <1>3, <2>3, <2>4, <2>5 DEF IInv
<1>6. QED
  BY <1>4, <1>5

LEMMA FailKeeps ==
    ASSUME IInv, Fail
    PROVE  IInv'
<1>0. /\ TypeOK /\ Tidy(timeline, tasks) /\ TimerOK(timer, now)
      /\ ready \in Seq(Tasks)
  BY InvFacts
<1>1. /\ running # NoTask /\ running' = NoTask /\ ready' = <<>> /\ pc' = "idle"
      /\ lost' = lost \cup {running} \cup {t \in ToSet(ready) : tasks[t].active}
      /\ stalled' = TRUE
      /\ UNCHANGED <<now, tasks, timeline, timer>>
  BY DEF Fail
<1>2. \A u \in Tasks : NoTask # u
  BY DEF NoTask, Tasks
<1>3. lost' \subseteq Tasks
  <2>1. ToSet(ready) \subseteq Tasks
    BY <1>0, EventFacts, LenProperties DEF ToSet
  <2>2. QED
    BY <1>0, <1>1, <2>1 DEF TypeOK
<1>4. TypeOK'
  <2>1. ready' \in Seq(Tasks)
    BY <1>1
  <2>2. QED
    BY <1>0, <1>1, <1>3, <2>1 DEF TypeOK
<1>5. WaitingApart'
  BY <1>1, <1>2, EmptySlots DEF IInv, WaitingApart
<1>6. ReadyApart' /\ TurnOK' /\ Rested'
  BY <1>1, EmptySlots DEF ReadyApart, TurnOK, Rested
<1>7. TimerOK(timer, now)' /\ Tidy(timeline, tasks)'
  BY <1>0, <1>1
<1>8. QED
  BY <1>4, <1>5, <1>6, <1>7 DEF IInv

LEMMA FinishTurnKeeps ==
    ASSUME IInv, FinishTurn
    PROVE  IInv'
<1>0. /\ TypeOK /\ now \in Nat /\ Tidy(timeline, tasks) /\ timeline \in Seq(Slots)
      /\ TimerOK(timer, now)
  BY InvFacts
<1>1. /\ running = NoTask /\ ready = <<>>
      /\ timer' = NextRun(timeline, timer) /\ stalled' = FALSE /\ pc' = "idle"
      /\ UNCHANGED <<now, tasks, timeline, ready, running, lost>>
  BY DEF FinishTurn, InLoop
<1>2. TimerOK(timer', now) /\ Covers(timeline, timer')
  BY <1>0, <1>1, NextRunFacts
<1>3. TypeOK'
  BY <1>0, <1>1, <1>2 DEF TypeOK, TimerOK
<1>4. WaitingApart' /\ ReadyApart'
  BY <1>1 DEF IInv, WaitingApart, ReadyApart, Floor
<1>5. TurnOK' /\ Rested' /\ TimerOK(timer, now)' /\ Tidy(timeline, tasks)'
  BY <1>0, <1>1, <1>2 DEF TurnOK, Rested
<1>6. QED
  BY <1>3, <1>4, <1>5 DEF IInv

LEMMA TickKeeps ==
    ASSUME IInv, Tick
    PROVE  IInv'
<1>0. /\ TypeOK /\ now \in Nat /\ Tidy(timeline, tasks) /\ TimerOK(timer, now)
      /\ Timed(tasks)
  BY InvFacts
<1>1. /\ now < MaxNow /\ now' = now + 1
      /\ UNCHANGED <<tasks, timeline, timer, ready, running, pc, lost, stalled>>
  BY DEF Tick
<1>2. TypeOK'
  <2>1. now' \in 0..MaxNow
    BY <1>0, <1>1, MaxNowAssumption
  <2>2. QED
    BY <1>0, <1>1, <2>1 DEF TypeOK
<1>3. WaitingApart' /\ TurnOK' /\ Rested' /\ Tidy(timeline, tasks)'
  BY <1>0, <1>1 DEF IInv, WaitingApart, TurnOK, Rested
<1>4. ReadyApart'
  <2> SUFFICES ASSUME NEW t \in Tasks, Contains(ready, t)
               PROVE  tasks[t].scheduled /\ running # t /\ Floor(tasks[t].time) <= now + 1
    BY <1>1 DEF IInv, ReadyApart, Floor
  <2>1. tasks[t].scheduled /\ running # t /\ Floor(tasks[t].time) <= now
    BY DEF IInv, ReadyApart
  <2>2. Floor(tasks[t].time) \in Nat
    BY <1>0, FloorFacts DEF Timed
  <2>3. QED
    BY <1>0, <2>1, <2>2
<1>5. TimerOK(timer, now)'
  <2>1. timer.due \in Nat
    BY <1>0 DEF TimerOK, Timers
  <2>2. QED
    BY <1>0, <1>1, <2>1 DEF TimerOK
<1>6. QED
  BY <1>2, <1>3, <1>4, <1>5 DEF IInv

LEMMA StutterKeeps ==
    ASSUME IInv, UNCHANGED vars
    PROVE  IInv'
  BY DEF vars, IInv, TypeOK, WaitingApart, ReadyApart, TurnOK, Rested, Floor

LEMMA InvStep == IInv /\ [Next]_vars => IInv'
<1> SUFFICES ASSUME IInv, [Next]_vars PROVE IInv'
  OBVIOUS
<1>1. CASE User
  BY <1>1, ScheduleTaskKeeps, DisposeKeeps, CancelAllKeeps, Zenon DEF User
<1>2. CASE Turn
  BY <1>2, StartTaskKeeps, SkipTaskKeeps, FinishTaskKeeps, FinishTurnKeeps DEF Turn
<1>3. QED
  BY <1>1, <1>2, RunReadyTasksKeeps, FailKeeps, TickKeeps, StutterKeeps DEF Next

LEMMA InvHolds == Spec => []IInv
  BY InvInit, InvStep, PTL DEF Spec
-----------------------------------------------------------------------------
(* What follows from the invariant.                                        *)

\* Every variable keeps its type, whatever user code schedules and cancels.
THEOREM TypeCorrect == Spec => []TypeOK
<1>1. IInv => TypeOK
  BY DEF IInv
<1>2. QED
  BY <1>1, InvHolds, PTL

\* How often a task is in a sequence without repetition.
LEMMA TimesInSingle ==
    ASSUME NEW s \in Seq(Tasks), Single(s), NEW t
    PROVE  Cardinality({j \in DOMAIN s : s[j] = t}) = IF Contains(s, t) THEN 1 ELSE 0
<1> DEFINE places == {j \in DOMAIN s : s[j] = t}
<1>0. Len(s) \in Nat /\ DOMAIN s = 1..Len(s)
  BY LenProperties
<1>1. CASE Contains(s, t)
  <2>1. PICK j \in 1..Len(s) : s[j] = t
    BY <1>1 DEF Contains
  <2>2. \A k \in 1..Len(s) : s[k] = t => k = j
    <3> SUFFICES ASSUME NEW k \in 1..Len(s), s[k] = t PROVE k = j
      OBVIOUS
    <3>1. ~ (j < k) /\ ~ (k < j)
      BY <2>1 DEF Single
    <3>2. QED
      BY <1>0, <3>1
  <2>3. places = {j}
    BY <1>0, <2>1, <2>2
  <2>4. QED
    BY <1>1, <2>3, FS_Singleton
<1>2. CASE ~Contains(s, t)
  <2>1. places = {}
    BY <1>0, <1>2 DEF Contains
  <2>2. QED
    BY <1>2, <2>1, FS_EmptySet
<1>3. QED
  BY <1>1, <1>2

\* The slots stay strictly in order of time, each with tasks of its own
\* millisecond in order of time, and no task is twice with the scheduler: what
\* insertByTime, remove and removeAll rely on, and what they keep.
THEOREM SlotsInOrder == Spec => []TimelineInOrder
<1>1. ASSUME IInv PROVE TimelineInOrder
  <2>0. Tidy(timeline, tasks) /\ ready \in Seq(Tasks) /\ Single(ready)
    BY <1>1, InvFacts DEF IInv, ReadyApart
  <2>1. \A i, j \in 1..Len(timeline) : i < j => timeline[i].time < timeline[j].time
    BY <2>0 DEF Tidy, InOrder
  <2>2. ASSUME NEW i \in 1..Len(timeline)
        PROVE  \A j, k \in 1..Len(timeline[i].events) :
                 /\ Floor(tasks[timeline[i].events[j]].time) = timeline[i].time
                 /\ j < k => tasks[timeline[i].events[j]].time <= tasks[timeline[i].events[k]].time
    BY <2>0 DEF Tidy, EventsOK
  <2>3. ASSUME NEW t \in Tasks
        PROVE  Cardinality({j \in DOMAIN Events(timeline) : Events(timeline)[j] = t})
                 + Cardinality({j \in DOMAIN ready : ready[j] = t})
                 + (IF running = t THEN 1 ELSE 0) <= 1
    <3>1. Cardinality({j \in DOMAIN Events(timeline) : Events(timeline)[j] = t})
            = IF HoldsTask(timeline, t) THEN 1 ELSE 0
      BY <2>0, EventsOfSlots, TimesInSingle
    <3>2. Cardinality({j \in DOMAIN ready : ready[j] = t})
            = IF Contains(ready, t) THEN 1 ELSE 0
      BY <2>0, TimesInSingle
    <3>3. /\ HoldsTask(timeline, t) => ~Contains(ready, t) /\ running # t
          /\ Contains(ready, t) => running # t
      BY <1>1 DEF IInv, WaitingApart, ReadyApart
    <3>4. QED
      BY <3>1, <3>2, <3>3
  <2>4. QED
    BY <2>1, <2>2, <2>3 DEF TimelineInOrder
<1>2. QED
  BY <1>1, InvHolds, PTL

\* Between turns the one timer is set, and goes off no later than the first
\* slot is due, unless an exception ended the last turn.
THEOREM TimerIsAhead == Spec => []TimerCovers
<1>1. ASSUME IInv PROVE TimerCovers
  <2> SUFFICES ASSUME pc = "idle", timeline # <<>>, ~stalled
               PROVE  timer.set /\ (timer.due <= now \/ timer.due <= timeline[1].time)
    BY DEF TimerCovers
  <2>1. timer.set /\ timer.arrival <= timeline[1].time
    BY <1>1 DEF IInv, Rested, Covers
  <2>2. timer.due <= now \/ timer.due <= timer.arrival
    BY <1>1, <2>1 DEF IInv, TimerOK
  <2>3. timer.due \in Nat /\ timer.arrival \in Nat
    BY <1>1 DEF IInv, TimerOK, Timers
  <2>4. timeline[1].time \in Nat
    <3>1. timeline \in Seq(Slots)
      BY <1>1, InvFacts
    <3>2. 1 \in 1..Len(timeline)
      BY <3>1, SlotFacts
    <3>3. QED
      BY <3>1, <3>2, SlotFacts
  <2>5. QED
    BY <2>1, <2>2, <2>3, <2>4
<1>2. QED
  BY <1>1, InvHolds, PTL
-----------------------------------------------------------------------------
(* The scheduler keeps the promise of TaskPool.                            *)

\* What a task is in the pool.
LEMMA PooledFacts ==
    ASSUME IInv, NEW t \in Tasks
    PROVE  /\ Pooled(t) = [state |-> Pooled(t).state, due |-> Pooled(t).due]
           /\ Pooled(t).due \in Nat
           /\ Pooled(t).due = IF tasks[t].scheduled THEN Floor(tasks[t].time) ELSE 0
           /\ Pooled(t).state = "unborn" <=> ~tasks[t].scheduled
           /\ Pooled(t).state = "running" <=>
                tasks[t].scheduled /\ running = t /\ tasks[t].active
           /\ Pooled(t).state = "leaving" <=>
                tasks[t].scheduled /\ running = t /\ ~tasks[t].active
           /\ Pooled(t).state = "waiting" <=>
                /\ tasks[t].scheduled /\ running # t /\ tasks[t].active
                /\ HoldsTask(timeline, t) \/ Contains(ready, t)
<1>1. Floor(tasks[t].time) \in Nat
  BY InvFacts, FloorFacts DEF Timed
<1>2. QED
  BY <1>1 DEF Pooled, Waiting

\* The pool sees of a task its entry, whether it runs and whether it waits.
LEMMA SamePooled ==
    ASSUME NEW t \in Tasks, tasks'[t] = tasks[t],
           running' = t <=> running = t,
           HoldsTask(timeline', t) \/ Contains(ready', t) <=>
             HoldsTask(timeline, t) \/ Contains(ready, t)
    PROVE  Pooled(t)' = Pooled(t)
  BY DEF Pooled, Waiting, Floor

\* A step that changes nothing the pool sees.
LEMMA PoolStutters ==
    ASSUME \A t \in Tasks : Pooled(t)' = Pooled(t), UNCHANGED <<now, lost>>
    PROVE  UNCHANGED Pool!vars
  BY DEF Pool!vars

\* A step that changes the state of one task.
LEMMA PoolBecomes ==
    ASSUME NEW t \in Tasks, NEW new,
           \A u \in Tasks : u # t => Pooled(u)' = Pooled(u),
           Pooled(t)' = [Pooled(t) EXCEPT !.state = new]
    PROVE  Pool!Becomes(t, new)
<1> DEFINE before == [u \in Tasks |-> Pooled(u)]
           after == [before EXCEPT ![t] = [before[t] EXCEPT !.state = new]]
<1>1. \A u \in Tasks : after[u] = Pooled(u)'
  <2> SUFFICES ASSUME NEW u \in Tasks PROVE after[u] = Pooled(u)'
    OBVIOUS
  <2>1. CASE u = t
    BY <2>1, Zenon
  <2>2. CASE u # t
    BY <2>2
  <2>3. QED
    BY <2>1, <2>2
<1>2. DOMAIN after = Tasks /\ after = [u \in DOMAIN after |-> after[u]]
  BY Zenon
<1> HIDE DEF after
<1>3. after = [u \in Tasks |-> Pooled(u)']
  BY <1>1, <1>2
<1>4. QED
  BY <1>3 DEF Pool!Becomes, after

LEMMA PoolInit == Init => Pool!Init
<1> SUFFICES ASSUME Init PROVE Pool!Init
  OBVIOUS
<1>1. \A t \in Tasks : Pooled(t) = [state |-> "unborn", due |-> 0]
  BY DEF Init, Pooled
<1>2. QED
  BY <1>1 DEF Init, Pool!Init

LEMMA PoolScheduleTask ==
    ASSUME IInv, NEW t \in Tasks, NEW delay \in Delays, NEW period \in Periods,
           ScheduleTask(t, delay, period)
    PROVE  Pool!Add(t)
<1> DEFINE at == now + AtLeast0(delay)
           entry == [time |-> at, period |-> period, scheduled |-> TRUE, active |-> TRUE]
           slots == InsertByTime(t, at, timeline, tasks)
<1>0. TypeOK /\ now \in Nat /\ Timed(tasks) /\ Tidy(timeline, tasks)
  BY InvFacts
<1>1. /\ ~tasks[t].scheduled
      /\ tasks' = [tasks EXCEPT ![t] = entry] /\ timeline' = slots
      /\ UNCHANGED <<now, ready, running, lost>>
  BY DEF ScheduleTask
<1>2. at \in Nat
  BY <1>0, DelaysAssumption DEF AtLeast0
<1> HIDE DEF at, slots
<1>3. tasks'[t] = entry /\ \A u \in Tasks : u # t => tasks'[u] = tasks[u]
  BY <1>0, <1>1 DEF TypeOK
<1>4. ~HoldsTask(timeline, t) /\ running # t
  BY <1>1 DEF IInv, WaitingApart, TurnOK, Tasks, NoTask
<1>5. \A u : HoldsTask(slots, u) <=> HoldsTask(timeline, u) \/ u = t
  <2>1. Moved(t, at, tasks, tasks')
    BY <1>3 DEF Moved
  <2>2. QED
    BY <1>0, <1>2, <1>4, <2>1, InsertByTimeFacts DEF slots
<1>6. \A u \in Tasks : u # t => Pooled(u)' = Pooled(u)
  BY <1>1, <1>3, <1>5, SamePooled
<1>7. IInv'
  BY ScheduleTaskKeeps
<1>8. Pooled(t)' = [state |-> "waiting", due |-> Pooled(t)'.due] /\ Pooled(t)'.due \in Nat
  <2>1. HoldsTask(timeline', t) /\ running' # t
    BY <1>1, <1>4, <1>5
  <2>2. Floor(at) \in Nat
    BY <1>2, FloorFacts
  <2>3. Pooled(t)' = [state |-> "waiting", due |-> Floor(at)]
    BY <1>3, <2>1 DEF Pooled, Waiting, Floor
  <2>4. QED
    BY <2>2, <2>3
<1>9. Pooled(t).state = "unborn"
  BY <1>1, PooledFacts
<1> HIDE DEF entry
<1>10. [u \in Tasks |-> Pooled(u)]' =
         [[u \in Tasks |-> Pooled(u)] EXCEPT ![t] =
            [state |-> "waiting", due |-> Pooled(t)'.due]]
  BY <1>6, <1>8
<1>11. QED
  BY <1>1, <1>8, <1>9, <1>10 DEF Pool!Add, Pool!In

LEMMA PoolDispose ==
    ASSUME IInv, NEW t \in Tasks, Dispose(t)
    PROVE  Pool!Cancel(t)
<1> DEFINE slots == Take(t, timeline)
<1>0. TypeOK /\ now \in Nat /\ Timed(tasks) /\ Tidy(timeline, tasks) /\ IInv'
  BY InvFacts, DisposeKeeps
<1>1. /\ tasks' = [tasks EXCEPT ![t].active = FALSE] /\ timeline' = slots
      /\ tasks[t].active
      /\ HoldsTask(timeline, t) \/ Contains(ready, t) \/ running = t
      /\ UNCHANGED <<now, ready, running, lost>>
  BY DEF Dispose, Waiting
<1> HIDE DEF slots
<1>2. /\ tasks'[t] = [tasks[t] EXCEPT !.active = FALSE]
      /\ \A u \in Tasks : u # t => tasks'[u] = tasks[u]
      /\ tasks[t] \in ScheduledTasks
  BY <1>0, <1>1 DEF TypeOK
<1>3. \A u : HoldsTask(slots, u) <=> HoldsTask(timeline, u) /\ u # t
  BY <1>0, TakeFacts DEF slots
<1>4. \A u \in Tasks : u # t => Pooled(u)' = Pooled(u)
  BY <1>1, <1>2, <1>3, SamePooled
<1>5. tasks[t].scheduled
  BY <1>0, <1>1 DEF IInv, WaitingApart, ReadyApart, TurnOK, Tasks, NoTask
<1>6. /\ ~tasks'[t].active /\ tasks'[t].scheduled /\ tasks'[t].time = tasks[t].time
  BY <1>2, <1>5 DEF ScheduledTasks
<1>7. Pooled(t) = [state |-> IF running = t THEN "running" ELSE "waiting",
                   due |-> Floor(tasks[t].time)]
  BY <1>1, <1>5 DEF Pooled, Waiting
<1>8. Pooled(t)' = [state |-> IF running = t THEN "leaving" ELSE "over",
                    due |-> Floor(tasks[t].time)]
  BY <1>1, <1>6 DEF Pooled, Waiting, Floor
<1>9. CASE running = t
  <2>1. Pooled(t)' = [Pooled(t) EXCEPT !.state = "leaving"]
    BY <1>7, <1>8, <1>9
  <2>2. Pool!Becomes(t, "leaving")
    BY <1>4, <2>1, PoolBecomes
  <2>3. QED
    BY <1>1, <1>7, <1>9, <2>2 DEF Pool!Cancel, Pool!In
<1>10. CASE running # t
  <2>1. Pooled(t)' = [Pooled(t) EXCEPT !.state = "over"]
    BY <1>7, <1>8, <1>10
  <2>2. Pool!Becomes(t, "over")
    BY <1>4, <2>1, PoolBecomes
  <2>3. QED
    BY <1>1, <1>7, <1>10, <2>2 DEF Pool!Cancel, Pool!In
<1>11. QED
  BY <1>9, <1>10

LEMMA PoolCancelAll ==
    ASSUME IInv, NEW f \in SUBSET Tasks, CancelAll(f)
    PROVE  Pool!Sweep
<1> DEFINE slots == Sweep(f, timeline)
           gone == {t \in f : HoldsTask(timeline, t)}
<1>0. TypeOK /\ Tidy(timeline, tasks)
  BY InvFacts
<1>1. /\ timeline' = slots /\ lost' = lost \cup gone
      /\ UNCHANGED <<now, tasks, ready, running>>
  BY DEF CancelAll, Waiting
<1> HIDE DEF slots
<1>2. \A u : HoldsTask(slots, u) <=> HoldsTask(timeline, u) /\ u \notin f
  BY <1>0, SweepFacts DEF slots
<1>3. \A t \in Tasks : t \notin gone => Pooled(t)' = Pooled(t)
  BY <1>1, <1>2, SamePooled
<1>4. ASSUME NEW t \in gone
      PROVE  /\ Pooled(t).state = "waiting"
             /\ Pooled(t)' = [Pooled(t) EXCEPT !.state = "over"]
  <2>1. t \in Tasks /\ HoldsTask(timeline, t) /\ ~HoldsTask(timeline', t)
    BY <1>1, <1>2
  <2>2. tasks[t].scheduled /\ tasks[t].active /\ ~Contains(ready, t) /\ running # t
    BY <2>1 DEF IInv, WaitingApart
  <2>3. Pooled(t) = [state |-> "waiting", due |-> Floor(tasks[t].time)]
    BY <2>1, <2>2 DEF Pooled, Waiting
  <2>4. Pooled(t)' = [state |-> "over", due |-> Floor(tasks[t].time)]
    BY <1>1, <2>1, <2>2 DEF Pooled, Waiting, Floor
  <2>5. QED
    BY <2>3, <2>4
<1> HIDE DEF gone
<1>5. gone \subseteq Tasks
  BY DEF gone
<1>6. [u \in Tasks |-> Pooled(u)]' =
        [u \in Tasks |-> IF u \in gone
                         THEN [[v \in Tasks |-> Pooled(v)][u] EXCEPT !.state = "over"]
                         ELSE [v \in Tasks |-> Pooled(v)][u]]
  BY <1>3, <1>4
<1>7. Pool!Drop(gone)
  BY <1>1, <1>6 DEF Pool!Drop
<1>8. gone \in SUBSET {t \in Tasks : Pool!In(t, "waiting")}
  BY <1>4, <1>5 DEF Pool!In
<1>9. QED
  BY <1>7, <1>8 DEF Pool!Sweep

LEMMA PoolRunReadyTasks ==
    ASSUME IInv, RunReadyTasks
    PROVE  UNCHANGED Pool!vars
<1>0. TypeOK /\ Tidy(timeline, tasks) /\ ready = <<>>
  BY InvFacts DEF IInv, TurnOK, RunReadyTasks
<1>1. UNCHANGED <<now, tasks, running, lost>>
  BY DEF RunReadyTasks
<1>2. \A u : HoldsTask(timeline, u) <=> Contains(ready', u) \/ HoldsTask(timeline', u)
  BY <1>0, CutFacts DEF RunReadyTasks
<1>3. \A u : ~Contains(ready, u)
  BY <1>0, EmptySlots
<1>4. \A u \in Tasks : Pooled(u)' = Pooled(u)
  BY <1>1, <1>2, <1>3, SamePooled
<1>5. QED
  BY <1>1, <1>4, PoolStutters

LEMMA PoolStartTask ==
    ASSUME IInv, StartTask
    PROVE  \E t \in Tasks : Pool!Start(t)
<1>0. /\ TypeOK /\ ready \in Seq(Tasks) /\ Single(ready) /\ ready # <<>>
  BY InvFacts DEF IInv, ReadyApart, StartTask
<1> PICK t \in Tasks : t = Head(ready)
  BY <1>0, TailFacts
<1>1. /\ running = NoTask /\ ready # <<>> /\ tasks[t].active
      /\ running' = t /\ ready' = Tail(ready)
      /\ UNCHANGED <<now, tasks, timeline, lost>>
  BY DEF StartTask, InLoop, MayRun
<1>2. /\ Contains(ready, t)
      /\ \A u : Contains(ready', u) <=> Contains(ready, u) /\ u # t
  BY <1>0, <1>1, TailFacts
<1>3. tasks[t].scheduled /\ running # t /\ Floor(tasks[t].time) <= now
  BY <1>2 DEF IInv, ReadyApart
<1>4. \A u \in Tasks : running # u
  BY <1>1 DEF NoTask, Tasks
<1>5. \A u \in Tasks : u # t => Pooled(u)' = Pooled(u)
  BY <1>1, <1>2, <1>4, SamePooled
<1>6. Pooled(t) = [state |-> "waiting", due |-> Floor(tasks[t].time)]
  BY <1>1, <1>2, <1>3 DEF Pooled, Waiting
<1>7. Pooled(t)' = [state |-> "running", due |-> Floor(tasks[t].time)]
  BY <1>1, <1>3 DEF Pooled, Waiting, Floor
<1>8. Pool!Becomes(t, "running")
  <2>1. Pooled(t)' = [Pooled(t) EXCEPT !.state = "running"]
    BY <1>6, <1>7
  <2>2. QED
    BY <1>2, <1>5, <2>1, PoolBecomes
<1>9. \A u \in Tasks : Pooled(u).state # "running" /\ Pooled(u).state # "leaving"
  BY <1>4, PooledFacts
<1>10. Pool!Start(t)
  BY <1>1, <1>2, <1>3, <1>6, <1>8, <1>9 DEF Pool!Start, Pool!In
<1>11. QED
  BY <1>2, <1>10

\* What is skipped has left the pool when it was cancelled.
LEMMA PoolSkipTask ==
    ASSUME IInv, SkipTask
    PROVE  UNCHANGED Pool!vars
<1>0. /\ TypeOK /\ ready \in Seq(Tasks) /\ Single(ready) /\ ready # <<>>
  BY InvFacts DEF IInv, ReadyApart, SkipTask
<1> PICK t \in Tasks : t = Head(ready)
  BY <1>0, TailFacts
<1>1. /\ ready # <<>> /\ ~tasks[t].active /\ ready' = Tail(ready)
      /\ UNCHANGED <<now, tasks, timeline, running, lost>>
  BY DEF SkipTask, InLoop, MayRun
<1>2. \A u : Contains(ready', u) <=> Contains(ready, u) /\ u # t
  BY <1>0, <1>1, TailFacts
<1>3. \A u \in Tasks : u # t => Pooled(u)' = Pooled(u)
  BY <1>1, <1>2, SamePooled
<1>4. Pooled(t)' = Pooled(t)
  BY <1>1 DEF Pooled, Waiting, Floor
<1>5. QED
  BY <1>1, <1>3, <1>4, PoolStutters

LEMMA PoolFinishTask ==
    ASSUME IInv, FinishTask
    PROVE  \E t \in Tasks : Pool!Finish(t) \/ Pool!Repeat(t)
<1>t. running \in Tasks
  BY InvFacts DEF FinishTask, TypeOK
<1> PICK t \in Tasks : t = running
  BY <1>t
<1> DEFINE at == tasks[t].time + tasks[t].period
           again == tasks[t].period >= 0 /\ tasks[t].active
<1>0. /\ TypeOK /\ Timed(tasks) /\ Tidy(timeline, tasks)
      /\ \A u \in Tasks : /\ tasks[u] \in ScheduledTasks
                          /\ tasks[u].time \in Nat /\ tasks[u].period \in Int
  BY InvFacts, TypeFacts
<1>1. /\ running' = NoTask
      /\ UNCHANGED <<now, ready, lost>>
      /\ \/ /\ again
            /\ tasks' = [tasks EXCEPT ![t].time = at]
            /\ timeline' = InsertByTime(t, at, timeline, tasks)
         \/ /\ ~again
            /\ UNCHANGED <<tasks, timeline>>
  BY DEF FinishTask
<1>2. /\ tasks[t].scheduled
      /\ ~HoldsTask(timeline, t) /\ ~Contains(ready, t)
      /\ \A u \in Tasks : u # t => running' # u /\ running # u
  BY <1>0, <1>1 DEF IInv, TypeOK, WaitingApart, ReadyApart, TurnOK, Tasks, NoTask
<1>3. running = t /\ running' # t
  BY <1>1 DEF NoTask, Tasks
<1>4. CASE again
  <2> DEFINE slots == InsertByTime(t, at, timeline, tasks)
  <2>1. /\ tasks' = [tasks EXCEPT ![t].time = at] /\ timeline' = slots
        /\ tasks[t].active
    BY <1>1, <1>4
  <2>2. at \in Nat /\ tasks[t].time <= at
    BY <1>0, <1>2, <1>4
  <2> HIDE DEF at, again, slots
  <2>3. /\ tasks'[t].time = at /\ tasks'[t].scheduled /\ tasks'[t].active
        /\ \A u \in Tasks : u # t => tasks'[u] = tasks[u]
    BY <1>0, <1>2, <2>1 DEF TypeOK, ScheduledTasks
  <2>4. \A u : HoldsTask(slots, u) <=> HoldsTask(timeline, u) \/ u = t
    <3>1. Moved(t, at, tasks, tasks')
      BY <2>3 DEF Moved
    <3>2. QED
      BY <1>0, <1>2, <2>2, <3>1, InsertByTimeFacts DEF slots
  <2>5. \A u \in Tasks : u # t => Pooled(u)' = Pooled(u)
    BY <1>1, <1>2, <2>1, <2>3, <2>4, SamePooled
  <2>6. Pooled(t) = [state |-> "running", due |-> Floor(tasks[t].time)]
    BY <1>2, <1>3, <2>1 DEF Pooled, Waiting
  <2>7. Pooled(t)' = [state |-> "waiting", due |-> Floor(at)]
    BY <1>3, <2>1, <2>3, <2>4 DEF Pooled, Waiting, Floor
  <2>8. Floor(tasks[t].time) <= Floor(at)
    BY <1>0, <1>2, <2>2, FloorFacts
  <2>9. [u \in Tasks |-> Pooled(u)]' =
          [[u \in Tasks |-> Pooled(u)] EXCEPT ![t] =
             [state |-> "waiting", due |-> Pooled(t)'.due]]
    <3>1. Pooled(t)' = [state |-> "waiting", due |-> Pooled(t)'.due]
      BY <2>7
    <3>2. QED
      BY <2>5, <3>1
  <2>10. /\ Pooled(t).state = "running"
         /\ Pooled(t)'.due >= Pooled(t).due
    BY <2>6, <2>7, <2>8
  <2>11. Pool!Repeat(t)
    BY <1>1, <1>2, <2>9, <2>10 DEF Pool!Repeat, Pool!In
  <2>12. QED
    BY <1>2, <2>11
<1>5. CASE ~again
  <2>1. UNCHANGED <<now, tasks, timeline, ready, lost>>
    BY <1>1, <1>5
  <2> HIDE DEF again, at
  <2>2. \A u \in Tasks : u # t => Pooled(u)' = Pooled(u)
    BY <1>2, <2>1, SamePooled
  <2>3. Pooled(t) = [state |-> IF tasks[t].active THEN "running" ELSE "leaving",
                     due |-> Floor(tasks[t].time)]
    BY <1>2, <1>3 DEF Pooled
  <2>4. Pooled(t)' = [state |-> "over", due |-> Floor(tasks[t].time)]
    BY <1>2, <1>3, <2>1 DEF Pooled, Waiting, Floor
  <2>5. Pool!Becomes(t, "over")
    <3>1. Pooled(t)' = [Pooled(t) EXCEPT !.state = "over"]
      BY <2>3, <2>4
    <3>2. QED
      BY <1>2, <2>2, <3>1, PoolBecomes
  <2>6. Pooled(t).state = "running" \/ Pooled(t).state = "leaving"
    BY <2>3
  <2>7. Pool!Finish(t)
    BY <1>2, <2>1, <2>5, <2>6 DEF Pool!Finish, Pool!In
  <2>8. QED
    BY <1>2, <2>7
<1>6. QED
  BY <1>4, <1>5

\* What fails takes the tasks of its turn along; those that were cancelled
\* before their turn had left the pool already.
LEMMA PoolFail ==
    ASSUME IInv, Fail
    PROVE  Pool!Abandon
<1>0. /\ TypeOK /\ ready \in Seq(Tasks) /\ running \in Tasks
  BY InvFacts DEF Fail, TypeOK
<1> PICK t \in Tasks : t = running
  BY <1>0
<1> DEFINE gone == {d \in ToSet(ready) : tasks[d].active}
<1>1. /\ running' = NoTask /\ ready' = <<>>
      /\ lost' = lost \cup (gone \cup {t})
      /\ UNCHANGED <<now, tasks, timeline>>
  BY DEF Fail
<1>2. \A u \in Tasks : u # t => running # u
  OBVIOUS
<1>3. \A u \in Tasks : running' # u
  BY <1>1 DEF NoTask, Tasks
<1>4. \A d : d \in gone <=> Contains(ready, d) /\ tasks[d].active
  <2>1. DOMAIN ready = 1..Len(ready)
    BY <1>0, LenProperties
  <2>2. QED
    BY <2>1 DEF ToSet, Contains
<1>5. gone \subseteq Tasks
  <2>1. \A d : Contains(ready, d) => d \in Tasks
    BY <1>0, EventFacts DEF Contains
  <2>2. QED
    BY <1>4, <2>1
<1> HIDE DEF gone
<1>6. PICK leave \in SUBSET Tasks : leave = gone \cup {t}
  BY <1>5
<1>7. ASSUME NEW d \in Tasks, d \in gone
      PROVE  /\ Pooled(d).state = "waiting" /\ Pooled(d).due <= now
             /\ Pooled(d)' = [Pooled(d) EXCEPT !.state = "over"]
  <2>1. /\ Contains(ready, d) /\ tasks[d].active
        /\ tasks[d].scheduled /\ running # d /\ Floor(tasks[d].time) <= now
    BY <1>4, <1>7 DEF IInv, ReadyApart
  <2>2. ~HoldsTask(timeline, d)
    BY <2>1 DEF IInv, WaitingApart
  <2>3. Pooled(d) = [state |-> "waiting", due |-> Floor(tasks[d].time)]
    BY <2>1 DEF Pooled, Waiting
  <2>4. Pooled(d)' = [state |-> "over", due |-> Floor(tasks[d].time)]
    BY <1>1, <1>3, <2>1, <2>2, EmptySlots DEF Pooled, Waiting, Floor
  <2>5. QED
    BY <2>1, <2>3, <2>4
<1>8. /\ Pooled(t).state = "running" \/ Pooled(t).state = "leaving"
      /\ Pooled(t)' = [Pooled(t) EXCEPT !.state = "over"]
  <2>1. tasks[t].scheduled /\ ~HoldsTask(timeline, t) /\ ~Contains(ready, t)
    BY DEF IInv, WaitingApart, ReadyApart, TurnOK, Tasks, NoTask
  <2>2. Pooled(t) = [state |-> IF tasks[t].active THEN "running" ELSE "leaving",
                     due |-> Floor(tasks[t].time)]
    BY <2>1 DEF Pooled
  <2>3. Pooled(t)' = [state |-> "over", due |-> Floor(tasks[t].time)]
    BY <1>1, <1>3, <2>1, EmptySlots DEF Pooled, Waiting, Floor
  <2>4. QED
    BY <2>2, <2>3
<1>9. ASSUME NEW u \in Tasks, u \notin leave PROVE Pooled(u)' = Pooled(u)
  <2>1. /\ u # t /\ ~(Contains(ready, u) /\ tasks[u].active)
        /\ running # u /\ running' # u
    BY <1>3, <1>4, <1>6, <1>9
  <2>2. CASE tasks[u].active
    BY <1>1, <2>1, <2>2, EmptySlots, SamePooled
  <2>3. CASE ~tasks[u].active
    BY <1>1, <2>1, <2>3 DEF Pooled, Floor
  <2>4. QED
    BY <2>2, <2>3
<1>10. \A u \in Tasks : u \in leave => Pooled(u)' = [Pooled(u) EXCEPT !.state = "over"]
  BY <1>6, <1>7, <1>8
<1>11. [u \in Tasks |-> Pooled(u)]' =
         [u \in Tasks |-> IF u \in leave
                          THEN [[v \in Tasks |-> Pooled(v)][u] EXCEPT !.state = "over"]
                          ELSE [v \in Tasks |-> Pooled(v)][u]]
  BY <1>9, <1>10
<1>12. Pool!Drop(leave)
  BY <1>1, <1>6, <1>11 DEF Pool!Drop
<1>13. gone \in SUBSET {d \in Tasks :
                           Pool!In(d, "waiting") /\ [v \in Tasks |-> Pooled(v)][d].due <= now}
  BY <1>5, <1>7 DEF Pool!In
<1>14. Pool!In(t, "running") \/ Pool!In(t, "leaving")
  BY <1>8 DEF Pool!In
<1>15. Pool!Drop(gone \cup {t})
  BY <1>6, <1>12
<1>16. QED
  BY <1>13, <1>14, <1>15 DEF Pool!Abandon

LEMMA PoolFinishTurn ==
    ASSUME IInv, FinishTurn
    PROVE  UNCHANGED Pool!vars
<1>1. UNCHANGED <<now, tasks, timeline, ready, running, lost>>
  BY DEF FinishTurn
<1>2. \A u \in Tasks : Pooled(u)' = Pooled(u)
  BY <1>1, SamePooled
<1>3. QED
  BY <1>1, <1>2, PoolStutters

LEMMA PoolTick ==
    ASSUME IInv, Tick
    PROVE  Pool!Tick
<1>1. now' = now + 1 /\ UNCHANGED <<tasks, timeline, ready, running, lost>>
  BY DEF Tick
<1>2. \A u \in Tasks : Pooled(u)' = Pooled(u)
  BY <1>1, SamePooled
<1>3. QED
  BY <1>1, <1>2 DEF Pool!Tick

\* Every step is a step of the pool, or one it does not see.
LEMMA PoolStep == IInv /\ [Next]_vars => [Pool!Next]_(Pool!vars)
<1> SUFFICES ASSUME IInv, [Next]_vars PROVE Pool!Next \/ UNCHANGED Pool!vars
  OBVIOUS
<1>1. CASE User
  <2>1. ASSUME NEW t \in Tasks, NEW delay \in Delays, NEW period \in Periods,
               ScheduleTask(t, delay, period)
        PROVE  Pool!Next
    BY <2>1, PoolScheduleTask DEF Pool!Next
  <2>2. ASSUME NEW t \in Tasks, Dispose(t) PROVE Pool!Next
    BY <2>2, PoolDispose DEF Pool!Next
  <2>3. ASSUME NEW f \in SUBSET Tasks, CancelAll(f) PROVE Pool!Next
    BY <2>3, PoolCancelAll DEF Pool!Next
  <2>4. QED
    BY <1>1, <2>1, <2>2, <2>3, Zenon DEF User
<1>2. CASE StartTask
  BY <1>2, PoolStartTask DEF Pool!Next
<1>3. CASE FinishTask
  BY <1>3, PoolFinishTask DEF Pool!Next
<1>4. CASE Fail
  BY <1>4, PoolFail DEF Pool!Next
<1>5. CASE Tick
  BY <1>5, PoolTick DEF Pool!Next
<1>6. CASE RunReadyTasks \/ SkipTask \/ FinishTurn
  BY <1>6, PoolRunReadyTasks, PoolSkipTask, PoolFinishTurn
<1>7. CASE UNCHANGED vars
  <2>1. UNCHANGED <<now, tasks, timeline, ready, running, lost>>
    BY <1>7 DEF vars
  <2>2. \A u \in Tasks : Pooled(u)' = Pooled(u)
    BY <2>1, SamePooled
  <2>3. QED
    BY <2>1, <2>2, PoolStutters
<1>8. QED
  BY <1>1, <1>2, <1>3, <1>4, <1>5, <1>6, <1>7 DEF Next, Turn

\* The timeline and its timer keep what the pool promises: a task is started
\* once for each of its times, not before its millisecond and not after it was
\* cancelled, and none is lost but those that are swept or that an exception
\* drops.
THEOREM PoolIsKept == Spec => KeepsTaskPool
<1>1. Init => Pool!Init
  BY PoolInit
<1>2. IInv /\ [Next]_vars => [Pool!Next]_(Pool!vars)
  BY PoolStep
<1>3. QED
  BY <1>1, <1>2, InvHolds, PTL DEF Spec, KeepsTaskPool, Pool!Spec
=============================================================================
