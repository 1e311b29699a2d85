---------------------------- MODULE SensorProofs ----------------------------
(***************************************************************************)
(* For every size of the filter and every word the sensor may deliver, the *)
(* median of the last sound readings is published, the alarm flags follow  *)
(* it, and the bus is left free; and, for every set of sensor types and    *)
(* alarm levels, a package of sensor settings the next start would load is *)
(* never refused.                                                          *)
(*                                                                         *)
(* The sort and the ring are proved apart from the state machine: a pass   *)
(* of the insertion sort extends a sorted copy by one sample, so that the  *)
(* buffer is a sorted copy of the ring (SortBufferSorts); the ring is the  *)
(* window of the last readings turned around (RingTurns); and counting is  *)
(* blind to order (SameCount), so the middle of the one is the median of   *)
(* the other (MedianHolds).  The inductive invariant then only has to say  *)
(* that the ring holds the window.                                         *)
(*                                                                         *)
(* For the settings, the order in which codes overwrite each other does    *)
(* not matter: it is enough that a hard code can only come from an         *)
(* identity check that really failed (HardCodeIsEarned).                   *)
(***************************************************************************)
EXTENDS SensorReading, SensorSettings, FiniteSetTheorems, FunctionTheorems,
        SequenceTheorems, TLAPS

-----------------------------------------------------------------------------
(* Induction over numbers, from the well-foundedness of <.                 *)

(* Every set of naturals that is not empty has a least element.            *)
LEMMA Least ==
    ASSUME NEW T \in SUBSET Nat, T # {}
    PROVE  \E m \in T : \A k \in T : m <= k
<1>1. PICK m \in T : \A k \in T : ~ (<<k, m>> \in OpToRel(<, Nat))
  BY NatLessThanWellFounded, WFMin
<1>2. \A k \in T : ~ (k < m)
  BY <1>1 DEF OpToRel
<1>3. QED
  BY <1>2

(* Counting up from zero reaches every natural: induction, over a set of   *)
(* numbers instead of a predicate.                                         *)
LEMMA CountingUp ==
    ASSUME NEW S, 0 \in S, \A n \in Nat : n \in S => n + 1 \in S
    PROVE  Nat \subseteq S
<1> SUFFICES ASSUME Nat \ S # {} PROVE FALSE
  OBVIOUS
<1>1. PICK m \in Nat \ S : \A k \in Nat \ S : m <= k
  BY Least
<1>2. m # 0 /\ m - 1 \in Nat /\ m - 1 + 1 = m
  BY <1>1
<1>3. m - 1 \in S
  BY <1>1, <1>2
<1>4. QED
  BY <1>1, <1>2, <1>3

-----------------------------------------------------------------------------
(* The insertion sort.                                                     *)

(* The first n elements are in ascending order.                            *)
Ascending(s, n) == \A a, b \in 1 .. n : a <= b => s[a] <= s[b]

(* s is the sorted copy of samples 0 to n - 1: ascending, each sample      *)
(* exactly once.                                                           *)
SortedCopy(s, samples, n) ==
    /\ s \in [1 .. n -> Int]
    /\ Ascending(s, n)
    /\ \E p \in Bijection(1 .. n, 0 .. n - 1) : \A i \in 1 .. n : s[i] = samples[p[i]]

(* The place the pass of the sort looks for exists.                        *)
LEMMA InsertionPlace ==
    ASSUME NEW n \in Nat, NEW s \in [1 .. n -> Int], NEW key \in Int
    PROVE  \E j \in 0 .. n : /\ j = 0 \/ s[j] <= key
                             /\ \A k \in j + 1 .. n : s[k] > key
<1> DEFINE T == {j \in 0 .. n : \A k \in j + 1 .. n : s[k] > key}
<1>1. n \in T /\ T \in SUBSET Nat
  OBVIOUS
<1>2. PICK m \in T : \A k \in T : m <= k
  BY <1>1, Least
<1>3. ASSUME m # 0, ~(s[m] <= key)
      PROVE  FALSE
  <2>1. m \in 1 .. n /\ s[m] > key
    BY <1>2, <1>3
  <2>2. \A k \in m - 1 + 1 .. n : s[k] > key
    BY <1>2, <2>1
  <2>3. m - 1 \in T
    BY <2>1, <2>2
  <2>4. QED
    BY <1>2, <2>1, <2>3
<1>4. QED
  BY <1>2, <1>3

(* Where a pass of the sort puts each element.                             *)
LEMMA InsertedFacts ==
    ASSUME NEW n \in Nat, NEW s \in [1 .. n -> Int], NEW key \in Int
    PROVE  \E j \in 0 .. n :
              /\ j = 0 \/ s[j] <= key
              /\ \A k \in j + 1 .. n : s[k] > key
              /\ Inserted(s, key) =
                    [i \in 1 .. n + 1 |-> IF i <= j THEN s[i]
                                          ELSE IF i = j + 1 THEN key ELSE s[i - 1]]
<1> DEFINE Place(j) == /\ j = 0 \/ s[j] <= key
                       /\ \A k \in j + 1 .. n : s[k] > key
           c == CHOOSE j \in 0 .. n : Place(j)
<1>1. Len(s) = n
  OBVIOUS
<1>2. \E j \in 0 .. n : Place(j)
  BY InsertionPlace
<1>3. c \in 0 .. n /\ Place(c)
  BY <1>2
<1>4. Inserted(s, key) = InsertAt(s, c + 1, key)
  BY <1>1 DEF Inserted
<1> HIDE DEF c
<1>5. InsertAt(s, c + 1, key) =
        [i \in 1 .. n + 1 |-> IF i <= c THEN s[i]
                              ELSE IF i = c + 1 THEN key ELSE s[i - 1]]
  <2> DEFINE before == SubSeq(s, 1, c)
             after == SubSeq(s, c + 1, n)
             start == before \o <<key>>
             r == start \o after
  <2>1. /\ before \in Seq(Int) /\ Len(before) = c
        /\ \A i \in 1 .. c : before[i] = s[i]
    <3>1. c \in Int /\ 1 \in Int /\ \A i \in 1 .. c : s[i] \in Int
      BY <1>3
    <3>2. /\ before \in Seq(Int)
          /\ Len(before) = IF 1 <= c THEN c - 1 + 1 ELSE 0
          /\ \A i \in 1 .. c - 1 + 1 : before[i] = s[1 + i - 1]
      BY <3>1, SubSeqProperties
    <3>3. QED
      BY <1>3, <3>2
  <2>2. /\ after \in Seq(Int) /\ Len(after) = n - c
        /\ \A i \in 1 .. n - c : after[i] = s[c + i]
    <3>1. c + 1 \in Int /\ n \in Int /\ \A i \in c + 1 .. n : s[i] \in Int
      BY <1>3
    <3>2. /\ after \in Seq(Int)
          /\ Len(after) = IF c + 1 <= n THEN n - (c + 1) + 1 ELSE 0
          /\ \A i \in 1 .. n - (c + 1) + 1 : after[i] = s[(c + 1) + i - 1]
      BY <3>1, SubSeqProperties
    <3>3. QED
      BY <1>3, <3>2
  <2> HIDE DEF before, after
  <2>3. <<key>> \in Seq(Int) /\ Len(<<key>>) = 1 /\ <<key>>[1] = key
    OBVIOUS
  <2>4. /\ start \in Seq(Int) /\ Len(start) = c + 1
        /\ \A i \in 1 .. c + 1 : start[i] = IF i <= c THEN before[i] ELSE key
    <3>1. /\ start \in Seq(Int) /\ Len(start) = c + 1
          /\ \A i \in 1 .. c + 1 :
                start[i] = IF i <= c THEN before[i] ELSE <<key>>[i - c]
      BY <2>1, <2>3, ConcatProperties
    <3>2. \A i \in 1 .. c + 1 : ~(i <= c) => i - c = 1
      BY <1>3
    <3>3. QED
      BY <2>3, <3>1, <3>2
  <2> HIDE DEF start
  <2>5. /\ r \in Seq(Int) /\ Len(r) = n + 1
        /\ \A i \in 1 .. n + 1 :
              r[i] = IF i <= c + 1 THEN start[i] ELSE after[i - (c + 1)]
    <3>1. /\ r \in Seq(Int) /\ Len(r) = c + 1 + (n - c)
          /\ \A i \in 1 .. c + 1 + (n - c) :
                r[i] = IF i <= c + 1 THEN start[i] ELSE after[i - (c + 1)]
      <4>1. /\ r \in Seq(Int) /\ Len(r) = Len(start) + Len(after)
            /\ \A i \in 1 .. Len(start) + Len(after) :
                  r[i] = IF i <= Len(start) THEN start[i] ELSE after[i - Len(start)]
        BY <2>2, <2>4, ConcatProperties
      <4>2. QED
        BY <2>2, <2>4, <4>1
    <3>2. c + 1 + (n - c) = n + 1
      BY <1>3
    <3>3. QED
      BY <3>1, <3>2
  <2>6. InsertAt(s, c + 1, key) = r
    BY <1>1, <1>3 DEF InsertAt, before, after, start, r
  <2> HIDE DEF r
  <2>7. \A i \in 1 .. n + 1 :
           r[i] = IF i <= c THEN s[i] ELSE IF i = c + 1 THEN key ELSE s[i - 1]
    <3>1. ASSUME NEW i \in 1 .. n + 1
          PROVE  r[i] = IF i <= c THEN s[i] ELSE IF i = c + 1 THEN key ELSE s[i - 1]
      <4>1. CASE i <= c
        BY <1>3, <2>1, <2>4, <2>5, <4>1
      <4>2. CASE i = c + 1
        BY <1>3, <2>4, <2>5, <4>2
      <4>3. CASE i > c + 1
        <5>1. i - (c + 1) \in 1 .. n - c /\ c + (i - (c + 1)) = i - 1
          BY <1>3, <4>3
        <5>2. r[i] = after[i - (c + 1)]
          <6>1. ~(i <= c + 1)
            BY <1>3, <4>3
          <6>2. QED
            BY <2>5, <6>1
        <5>3. QED
          BY <1>3, <2>2, <4>3, <5>1, <5>2
      <4>4. QED
        BY <1>3, <4>1, <4>2, <4>3
    <3>2. QED
      BY <3>1
  <2>8. r = [i \in 1 .. n + 1 |-> r[i]]
    BY <2>5, LenProperties
  <2>9. QED
    BY <2>6, <2>7, <2>8
<1>6. QED
  BY <1>3, <1>4, <1>5

(* A pass of the sort extends a sorted copy of n samples to one of n + 1.  *)
LEMMA InsertedSorts ==
    ASSUME NEW n \in Nat, NEW s, NEW samples, samples[n] \in Int,
           SortedCopy(s, samples, n)
    PROVE  SortedCopy(Inserted(s, samples[n]), samples, n + 1)
<1> DEFINE key == samples[n]
           r == Inserted(s, key)
<1>1. /\ s \in [1 .. n -> Int] /\ Ascending(s, n) /\ key \in Int
  BY DEF SortedCopy
<1>2. PICK p \in Bijection(1 .. n, 0 .. n - 1) : \A i \in 1 .. n : s[i] = samples[p[i]]
  BY DEF SortedCopy
<1>3. /\ p \in [1 .. n -> 0 .. n - 1]
      /\ \A a, b \in 1 .. n : p[a] = p[b] => a = b
      /\ \A k \in 0 .. n - 1 : \E i \in 1 .. n : p[i] = k
  BY <1>2 DEF Bijection, Injection, Surjection, IsInjective
<1> HIDE DEF key
<1>4. PICK j \in 0 .. n :
              /\ j = 0 \/ s[j] <= key
              /\ \A k \in j + 1 .. n : s[k] > key
              /\ r = [i \in 1 .. n + 1 |-> IF i <= j THEN s[i]
                                           ELSE IF i = j + 1 THEN key ELSE s[i - 1]]
  BY <1>1, InsertedFacts
<1> HIDE DEF r
<1>5. r \in [1 .. n + 1 -> Int]
  <2>1. ASSUME NEW i \in 1 .. n + 1
        PROVE  r[i] \in Int
    <3>1. CASE i <= j
      BY <1>1, <1>4, <3>1
    <3>2. CASE i = j + 1
      BY <1>1, <1>4, <3>2
    <3>3. CASE i > j + 1
      <4>1. i - 1 \in 1 .. n
        BY <1>4, <3>3
      <4>2. QED
        BY <1>1, <1>4, <3>3, <4>1
    <3>4. QED
      BY <1>4, <3>1, <3>2, <3>3
  <2>2. QED
    BY <1>4, <2>1
<1>6. Ascending(r, n + 1)
  <2>1. ASSUME NEW i \in 1 .. n + 1
        PROVE  /\ i <= j => r[i] = s[i] /\ r[i] <= key
               /\ i = j + 1 => r[i] = key
               /\ i > j + 1 => i - 1 \in j + 1 .. n /\ r[i] = s[i - 1] /\ r[i] > key
    <3>1. CASE i <= j
      <4>1. i \in 1 .. n /\ j \in 1 .. n /\ j # 0
        BY <1>4, <3>1
      <4>2. s[i] <= s[j] /\ s[j] <= key /\ s[i] \in Int /\ s[j] \in Int
        BY <1>1, <1>4, <3>1, <4>1 DEF Ascending
      <4>3. s[i] <= key
        BY <1>1, <4>2
      <4>4. QED
        BY <1>4, <3>1, <4>3
    <3>2. CASE i = j + 1
      BY <1>4, <3>2
    <3>3. CASE i > j + 1
      <4>1. i - 1 \in j + 1 .. n
        BY <1>4, <3>3
      <4>2. QED
        BY <1>4, <3>3, <4>1
    <3>4. QED
      BY <1>4, <3>1, <3>2, <3>3
  <2>2. ASSUME NEW a \in 1 .. n + 1, NEW b \in 1 .. n + 1, a <= b
        PROVE  r[a] <= r[b]
    <3>1. r[a] \in Int /\ r[b] \in Int
      BY <1>5
    <3>2. CASE b <= j
      <4>1. a \in 1 .. n /\ b \in 1 .. n /\ a <= j
        BY <1>4, <2>2, <3>2
      <4>2. s[a] <= s[b]
        BY <1>1, <2>2, <4>1 DEF Ascending
      <4>3. QED
        BY <2>1, <3>2, <4>1, <4>2
    <3>3. CASE a > j + 1
      <4>1. b > j + 1 /\ a - 1 \in 1 .. n /\ b - 1 \in 1 .. n /\ a - 1 <= b - 1
        BY <1>4, <2>2, <3>3
      <4>2. s[a - 1] <= s[b - 1]
        BY <1>1, <4>1 DEF Ascending
      <4>3. QED
        BY <2>1, <3>3, <4>1, <4>2
    <3>4. CASE a <= j + 1 /\ b > j
      <4>1. r[a] <= key
        BY <1>1, <1>4, <2>1, <3>4
      <4>2. key <= r[b]
        BY <1>1, <1>4, <2>1, <3>1, <3>4
      <4>3. QED
        BY <1>1, <3>1, <4>1, <4>2
    <3>5. QED
      BY <1>4, <3>2, <3>3, <3>4
  <2>3. QED
    BY <2>2 DEF Ascending
<1>7. \E q \in Bijection(1 .. n + 1, 0 .. n) : \A i \in 1 .. n + 1 : r[i] = samples[q[i]]
  <2> DEFINE q == [i \in 1 .. n + 1 |-> IF i <= j THEN p[i]
                                        ELSE IF i = j + 1 THEN n ELSE p[i - 1]]
             old == {i \in 1 .. n + 1 : i # j + 1}
             From(i) == IF i <= j THEN i ELSE i - 1
  <2>1. \A i \in 1 .. n + 1 : i # j + 1 => From(i) \in 1 .. n
    BY <1>4
  <2>2. \A i \in 1 .. n + 1 : q[i] = IF i = j + 1 THEN n ELSE p[From(i)]
    BY <1>4
  <2>3. \A i \in 1 .. n + 1 : r[i] = IF i = j + 1 THEN key ELSE s[From(i)]
    BY <1>4
  <2>4. /\ \A a, b \in 1 .. n + 1 :
              a # j + 1 /\ b # j + 1 /\ From(a) = From(b) => a = b
        /\ \A k \in 1 .. n : \E i \in 1 .. n + 1 : i # j + 1 /\ From(i) = k
    <3>1. ASSUME NEW k \in 1 .. n
          PROVE  \E i \in 1 .. n + 1 : i # j + 1 /\ From(i) = k
      <4>1. CASE k <= j
        <5>1. k \in 1 .. n + 1 /\ k # j + 1 /\ From(k) = k
          BY <1>4, <4>1
        <5>2. QED
          BY <5>1
      <4>2. CASE k > j
        <5>1. k + 1 \in 1 .. n + 1 /\ k + 1 # j + 1 /\ From(k + 1) = k
          BY <1>4, <4>2
        <5>2. QED
          BY <5>1
      <4>3. QED
        BY <1>4, <4>1, <4>2
    <3>2. \A a, b \in 1 .. n + 1 :
              a # j + 1 /\ b # j + 1 /\ From(a) = From(b) => a = b
      BY <1>4
    <3>3. QED
      BY <3>1, <3>2
  <2> HIDE DEF From
  <2>5. q \in [1 .. n + 1 -> 0 .. n]
    <3>1. ASSUME NEW i \in 1 .. n + 1
          PROVE  q[i] \in 0 .. n
      <4>1. CASE i = j + 1
        BY <2>2, <4>1
      <4>2. CASE i # j + 1
        <5>1. p[From(i)] \in 0 .. n - 1
          BY <1>3, <2>1, <4>2
        <5>2. QED
          BY <2>2, <4>2, <5>1
      <4>3. QED
        BY <4>1, <4>2
    <3>2. QED
      BY <3>1
  <2> HIDE DEF q
  <2>6. ASSUME NEW a \in 1 .. n + 1, NEW b \in 1 .. n + 1, q[a] = q[b]
        PROVE  a = b
    <3>1. \A i \in 1 .. n + 1 : i # j + 1 => q[i] # n
      BY <1>3, <2>1, <2>2
    <3>2. CASE a = j + 1 \/ b = j + 1
      BY <2>2, <2>6, <3>1, <3>2
    <3>3. CASE a # j + 1 /\ b # j + 1
      BY <1>3, <2>1, <2>2, <2>4, <2>6, <3>3
    <3>4. QED
      BY <3>2, <3>3
  <2>7. ASSUME NEW k \in 0 .. n
        PROVE  \E i \in 1 .. n + 1 : q[i] = k
    <3>1. CASE k = n
      <4>1. j + 1 \in 1 .. n + 1 /\ q[j + 1] = n
        BY <1>4, <2>2
      <4>2. QED
        BY <3>1, <4>1
    <3>2. CASE k \in 0 .. n - 1
      <4>1. PICK i \in 1 .. n : p[i] = k
        BY <1>3, <3>2
      <4>2. PICK m \in 1 .. n + 1 : m # j + 1 /\ From(m) = i
        BY <2>4
      <4>3. QED
        BY <2>2, <4>1, <4>2
    <3>3. QED
      BY <3>1, <3>2
  <2>8. q \in Bijection(1 .. n + 1, 0 .. n)
    BY <2>5, <2>6, <2>7, Fun_IsBij
  <2>9. \A i \in 1 .. n + 1 : r[i] = samples[q[i]]
    BY <1>2, <2>1, <2>2, <2>3 DEF key
  <2>10. QED
    BY <2>8, <2>9
<1>8. n + 1 - 1 = n
  OBVIOUS
<1>9. QED
  BY <1>5, <1>6, <1>7, <1>8 DEF SortedCopy, r, key

(* The insertion sort sorts, whatever the number of samples.               *)
LEMMA SortBufferSorts ==
    ASSUME NEW f, f.count \in Nat, \A i \in 0 .. f.count - 1 : f.samples[i] \in Int
    PROVE  SortedCopy(SortBuffer(f), f.samples, f.count)
<1> DEFINE Sorting(g, m) ==
              g = [n \in 0 .. m |-> IF n = 0 THEN <<>>
                                    ELSE Inserted(g[n - 1], f.samples[n - 1])]
           Defined == {m \in Nat : \E g : Sorting(g, m)}
<1>1. 0 \in Defined
  <2>1. Sorting([n \in 0 .. 0 |-> <<>>], 0)
    OBVIOUS
  <2>2. QED
    BY <2>1
<1>2. ASSUME NEW m \in Nat, m \in Defined
      PROVE  m + 1 \in Defined
  <2>1. PICK g : Sorting(g, m)
    BY <1>2
  <2> DEFINE h == [n \in 0 .. m + 1 |-> IF n <= m THEN g[n]
                                        ELSE Inserted(g[m], f.samples[m])]
  <2>2. ASSUME NEW n \in 0 .. m + 1
        PROVE  h[n] = IF n = 0 THEN <<>> ELSE Inserted(h[n - 1], f.samples[n - 1])
    <3>1. CASE n = 0
      BY <2>1, <3>1
    <3>2. CASE n \in 1 .. m
      <4>1. n - 1 \in 0 .. m + 1 /\ n - 1 <= m /\ n \in 0 .. m
        BY <3>2
      <4>2. h[n] = g[n] /\ h[n - 1] = g[n - 1]
        BY <3>2, <4>1
      <4>3. g[n] = Inserted(g[n - 1], f.samples[n - 1])
        BY <2>1, <3>2, <4>1
      <4>4. QED
        BY <3>2, <4>2, <4>3
    <3>3. CASE n = m + 1
      <4>1. n - 1 = m /\ h[m] = g[m] /\ ~(n <= m) /\ n # 0
        BY <3>3
      <4>2. h[n] = Inserted(g[m], f.samples[m])
        BY <3>3, <4>1
      <4>3. QED
        BY <4>1, <4>2
    <3>4. QED
      BY <3>1, <3>2, <3>3
  <2>3. Sorting(h, m + 1)
    <3>1. h = [n \in 0 .. m + 1 |-> h[n]]
      OBVIOUS
    <3> HIDE DEF h
    <3>2. QED
      BY <2>2, <3>1
  <2> HIDE DEF h, Sorting
  <2>4. \E g0 : Sorting(g0, m + 1)
    BY <2>3
  <2>5. QED
    BY <2>4
<1>3. f.count \in Defined
  BY <1>1, <1>2, CountingUp
<1> DEFINE sorted == CHOOSE g : Sorting(g, f.count)
<1>4. Sorting(sorted, f.count)
  BY <1>3
<1>5. SortBuffer(f) = sorted[f.count]
  BY DEF SortBuffer
<1> HIDE DEF sorted
<1>6. /\ sorted[0] = <<>>
      /\ \A n \in 0 .. f.count : n # 0 =>
            sorted[n] = Inserted(sorted[n - 1], f.samples[n - 1])
  BY <1>4
<1> HIDE DEF Sorting
<1> DEFINE Done == {n \in Nat : n <= f.count => SortedCopy(sorted[n], f.samples, n)}
<1>7. 0 \in Done
  <2>1. /\ <<>> \in [1 .. 0 -> Int] /\ Ascending(<<>>, 0)
        /\ <<>> \in Bijection(1 .. 0, 0 .. 0 - 1)
    <3>1. /\ <<>> \in [1 .. 0 -> Int] /\ <<>> \in [1 .. 0 -> 0 .. 0 - 1]
      OBVIOUS
    <3>2. /\ \A a, b \in 1 .. 0 : <<>>[a] = <<>>[b] => a = b
          /\ \A k \in 0 .. 0 - 1 : \E i \in 1 .. 0 : <<>>[i] = k
      OBVIOUS
    <3>3. <<>> \in Bijection(1 .. 0, 0 .. 0 - 1)
      BY <3>1, <3>2 DEF Bijection, Injection, Surjection, IsInjective
    <3>4. Ascending(<<>>, 0)
      BY DEF Ascending
    <3>5. QED
      BY <3>1, <3>3, <3>4
  <2>2. \A i \in 1 .. 0 : <<>>[i] = f.samples[<<>>[i]]
    OBVIOUS
  <2>3. QED
    BY <1>6, <2>1, <2>2 DEF SortedCopy
<1>8. ASSUME NEW n \in Nat, n \in Done
      PROVE  n + 1 \in Done
  <2> SUFFICES ASSUME n + 1 <= f.count
               PROVE  SortedCopy(sorted[n + 1], f.samples, n + 1)
    OBVIOUS
  <2>1. /\ n + 1 \in 0 .. f.count /\ n + 1 # 0 /\ n + 1 - 1 = n
        /\ n \in 0 .. f.count - 1 /\ n <= f.count
    OBVIOUS
  <2>2. sorted[n + 1] = Inserted(sorted[n], f.samples[n])
    BY <1>6, <2>1
  <2>3. SortedCopy(sorted[n], f.samples, n) /\ f.samples[n] \in Int
    BY <1>8, <2>1
  <2>4. QED
    BY <2>2, <2>3, InsertedSorts
<1>9. f.count \in Done
  BY <1>7, <1>8, CountingUp
<1>10. QED
  BY <1>5, <1>9

-----------------------------------------------------------------------------
(* The median of what the ring holds.                                      *)

(* How many of the elements of g have a value in P.                        *)
Count(g, A, P) == Cardinality({i \in A : g[i] \in P})

(* Moving elements around does not change how many have a value in P.      *)
LEMMA SameCount ==
    ASSUME NEW A, NEW B, NEW b \in Bijection(A, B), IsFiniteSet(A),
           NEW g, NEW h, \A i \in A : g[i] = h[b[i]], NEW P
    PROVE  Count(g, A, P) = Count(h, B, P)
<1> DEFINE S == {i \in A : g[i] \in P}
           T == {k \in B : h[k] \in P}
           c == [i \in S |-> b[i]]
<1>1. /\ b \in [A -> B]
      /\ \A x, y \in A : b[x] = b[y] => x = y
      /\ \A k \in B : \E i \in A : b[i] = k
  BY DEF Bijection, Injection, Surjection, IsInjective
<1>2. c \in [S -> T]
  BY <1>1
<1>3. \A x, y \in S : c[x] = c[y] => x = y
  BY <1>1
<1>4. \A k \in T : \E i \in S : c[i] = k
  BY <1>1
<1>5. IsFiniteSet(S)
  BY FS_Subset
<1> HIDE DEF S, T, c
<1>6. c \in Bijection(S, T)
  BY <1>2, <1>3, <1>4 DEF Bijection, Injection, Surjection, IsInjective
<1>7. Cardinality(T) = Cardinality(S)
  BY <1>5, <1>6, FS_Bijection DEF ExistsBijection
<1>8. QED
  BY <1>7 DEF S, T, Count

Below(v) == {x \in Int : x < v}
UpTo(v) == {x \in Int : x <= v}

(* The element in the middle of an ascending sequence: at most half of the *)
(* elements are below it and more than half are not above it.              *)
LEMMA SortedMedian ==
    ASSUME NEW n \in Nat \ {0}, NEW s \in [1 .. n -> Int], Ascending(s, n),
           NEW v, v = s[(n \div 2) + 1]
    PROVE  /\ 2 * Count(s, 1 .. n, Below(v)) <= n
           /\ 2 * Count(s, 1 .. n, UpTo(v)) > n
<1> DEFINE m == (n \div 2) + 1
           S == {i \in 1 .. n : s[i] \in Below(v)}
           T == {i \in 1 .. n : s[i] \in UpTo(v)}
<1>1. m \in 1 .. n /\ 2 * (m - 1) <= n /\ n < 2 * m
  OBVIOUS
<1> HIDE DEF m
<1>2. v = s[m] /\ v \in Int
  BY <1>1 DEF m
<1>3. S \in SUBSET (1 .. m - 1)
  <2>1. ASSUME NEW i \in 1 .. n, s[i] < v
        PROVE  i \in 1 .. m - 1
    <3>1. CASE i >= m
      <4>1. s[m] <= s[i]
        BY <1>1, <3>1 DEF Ascending
      <4>2. QED
        BY <1>2, <2>1, <4>1
    <3>2. QED
      BY <1>1, <3>1
  <2>2. QED
    BY <2>1 DEF Below
<1>4. 1 .. m \in SUBSET T
  <2>1. ASSUME NEW i \in 1 .. m
        PROVE  i \in 1 .. n /\ s[i] <= v
    <3>1. i \in 1 .. n
      BY <1>1
    <3>2. s[i] <= s[m]
      BY <1>1, <3>1 DEF Ascending
    <3>3. QED
      BY <1>2, <3>1, <3>2
  <2>2. QED
    BY <2>1 DEF UpTo
<1>5. T \in SUBSET (1 .. n)
  OBVIOUS
<1> HIDE DEF S, T
<1>6. /\ IsFiniteSet(1 .. m - 1) /\ Cardinality(1 .. m - 1) = m - 1
      /\ IsFiniteSet(1 .. m) /\ Cardinality(1 .. m) = m
      /\ IsFiniteSet(1 .. n)
  <2>1. m - 1 \in Int /\ m \in Int /\ n \in Int /\ 1 \in Int
    BY <1>1
  <2>2. Cardinality(1 .. m - 1) = IF 1 > m - 1 THEN 0 ELSE m - 1 - 1 + 1
    BY <2>1, FS_Interval
  <2>3. Cardinality(1 .. m) = IF 1 > m THEN 0 ELSE m - 1 + 1
    BY <2>1, FS_Interval
  <2>4. IsFiniteSet(1 .. m - 1) /\ IsFiniteSet(1 .. m) /\ IsFiniteSet(1 .. n)
    BY <2>1, FS_Interval
  <2>5. QED
    BY <1>1, <2>2, <2>3, <2>4
<1>7. Cardinality(S) \in Nat /\ Cardinality(S) <= m - 1
  <2>1. IsFiniteSet(S) /\ Cardinality(S) <= Cardinality(1 .. m - 1)
    BY <1>3, <1>6, FS_Subset
  <2>2. Cardinality(S) \in Nat
    BY <2>1, FS_CardinalityType
  <2>3. QED
    BY <1>6, <2>1, <2>2
<1>8. Cardinality(T) \in Nat /\ m <= Cardinality(T)
  <2>1. IsFiniteSet(T)
    BY <1>5, <1>6, FS_Subset
  <2>2. Cardinality(1 .. m) <= Cardinality(T)
    BY <1>4, <2>1, FS_Subset
  <2>3. Cardinality(T) \in Nat
    BY <2>1, FS_CardinalityType
  <2>4. QED
    BY <1>6, <2>2, <2>3
<1>9. 2 * Cardinality(S) <= n /\ 2 * Cardinality(T) > n
  BY <1>1, <1>7, <1>8
<1>10. QED
  BY <1>9 DEF S, T, Count

(* Where the ring keeps the sample the window has at i: from index on,     *)
(* around the end.                                                         *)
Slot(index, i) == IF index + i - 1 < Size THEN index + i - 1 ELSE index + i - 1 - Size

(* Filter f holds the values of window w.                                  *)
Holds(f, w) == \A i \in 1 .. Size : w[i] = f.samples[Slot(f.index, i)]

(* The states of a filter whose samples are in values.                     *)
Ring(values) == [samples : [0 .. Size - 1 -> values], index : 0 .. Size - 1,
                 count : {0, Size}]

(* When the index moves on, every sample gets one older, and the new one   *)
(* is the youngest.                                                        *)
LEMMA SlotNext ==
    ASSUME NEW index \in 0 .. Size - 1, NEW next,
           next = IF index + 1 >= Size THEN 0 ELSE index + 1
    PROVE  /\ \A i \in 1 .. Size - 1 : /\ Slot(next, i) = Slot(index, i + 1)
                                      /\ Slot(next, i) \in 0 .. Size - 1
                                      /\ Slot(next, i) # index
           /\ Slot(next, Size) = index
<1>1. Size \in Nat \ {0}
  BY ReadingConstants
<1>2. CASE index + 1 >= Size
  BY <1>1, <1>2 DEF Slot
<1>3. CASE index + 1 < Size
  <2>1. next = index + 1
    BY <1>1, <1>3
  <2>2. ASSUME NEW i \in 1 .. Size - 1
        PROVE  index + 1 + i - 1 = index + (i + 1) - 1
    BY <1>1
  <2>3. QED
    BY <1>1, <1>3, <2>1, <2>2 DEF Slot
<1>4. QED
  BY <1>1, <1>2, <1>3

(* The ring keeps every sample of the window in a slot of its own.         *)
LEMMA RingTurns ==
    ASSUME NEW index \in 0 .. Size - 1
    PROVE  [i \in 1 .. Size |-> Slot(index, i)] \in Bijection(1 .. Size, 0 .. Size - 1)
<1> DEFINE e == [i \in 1 .. Size |-> Slot(index, i)]
<1>1. Size \in Nat \ {0}
  BY ReadingConstants
<1>2. e \in [1 .. Size -> 0 .. Size - 1]
  BY <1>1 DEF Slot
<1>3. \A x, y \in 1 .. Size : e[x] = e[y] => x = y
  BY <1>1 DEF Slot
<1>4. ASSUME NEW k \in 0 .. Size - 1
      PROVE  \E i \in 1 .. Size : e[i] = k
  <2>1. CASE k >= index
    <3>1. k - index + 1 \in 1 .. Size /\ e[k - index + 1] = k
      BY <1>1, <2>1 DEF Slot
    <3>2. QED
      BY <3>1
  <2>2. CASE k < index
    <3>1. k - index + 1 + Size \in 1 .. Size /\ e[k - index + 1 + Size] = k
      BY <1>1, <2>2 DEF Slot
    <3>2. QED
      BY <3>1
  <2>3. QED
    BY <2>1, <2>2
<1> HIDE DEF e
<1>5. e \in Bijection(1 .. Size, 0 .. Size - 1)
  BY <1>2, <1>3, <1>4 DEF Bijection, Injection, Surjection, IsInjective
<1>6. QED
  BY <1>5 DEF e

(* The median of a filter that holds window w is a sample, and the upper   *)
(* median of w.                                                            *)
LEMMA MedianHolds ==
    ASSUME NEW values \in SUBSET Int, NEW f \in Ring(values), f.count = Size,
           NEW w \in [1 .. Size -> Int], Holds(f, w)
    PROVE  Median(f) \in values /\ UpperMedian(Median(f), w)
<1> DEFINE s == SortBuffer(f)
           v == Median(f)
<1>1. /\ Size \in Nat \ {0}
      /\ f.samples \in [0 .. Size - 1 -> values] /\ f.index \in 0 .. Size - 1
  BY ReadingConstants DEF Ring
<1>2. SortedCopy(s, f.samples, Size)
  <2>1. f.count \in Nat /\ \A i \in 0 .. f.count - 1 : f.samples[i] \in Int
    BY <1>1
  <2>2. SortedCopy(s, f.samples, f.count)
    BY <2>1, SortBufferSorts
  <2>3. QED
    BY <2>2
<1>3. v = s[(Size \div 2) + 1]
  BY DEF Median
<1> HIDE DEF s, v
<1>4. PICK e \in Bijection(1 .. Size, 0 .. Size - 1) :
              \A i \in 1 .. Size : w[i] = f.samples[e[i]]
  <2> DEFINE e == [i \in 1 .. Size |-> Slot(f.index, i)]
  <2>1. \A i \in 1 .. Size : w[i] = f.samples[e[i]]
    BY DEF Holds
  <2>2. e \in Bijection(1 .. Size, 0 .. Size - 1)
    BY <1>1, RingTurns
  <2> HIDE DEF e
  <2>3. QED
    BY <2>1, <2>2
<1>5. \A i \in 1 .. Size : w[i] = f.samples[e[i]]
  BY <1>4
<1>6. s \in [1 .. Size -> Int] /\ Ascending(s, Size)
  BY <1>2 DEF SortedCopy
<1>7. PICK p \in Bijection(1 .. Size, 0 .. Size - 1) :
              \A i \in 1 .. Size : s[i] = f.samples[p[i]]
  BY <1>2 DEF SortedCopy
<1>8. v \in values
  <2>1. (Size \div 2) + 1 \in 1 .. Size
    BY <1>1
  <2>2. p \in [1 .. Size -> 0 .. Size - 1]
    BY DEF Bijection, Injection
  <2>3. QED
    BY <1>1, <1>3, <1>7, <2>1, <2>2
<1>9. IsFiniteSet(1 .. Size)
  BY <1>1, FS_Interval
<1>10. \A P : Count(s, 1 .. Size, P) = Count(w, 1 .. Size, P)
  <2>1. ASSUME NEW P
        PROVE  Count(s, 1 .. Size, P) = Count(w, 1 .. Size, P)
    <3> DEFINE A == 1 .. Size
               B == 0 .. Size - 1
               h == f.samples
               u == w
    <3>1. IsFiniteSet(A) /\ p \in Bijection(A, B) /\ \A i \in A : s[i] = h[p[i]]
      BY <1>7, <1>9
    <3>2. IsFiniteSet(A) /\ e \in Bijection(A, B) /\ \A i \in A : u[i] = h[e[i]]
      BY <1>4, <1>5, <1>9
    <3> HIDE DEF A, B, h, u
    <3>3. Count(s, A, P) = Count(h, B, P)
      BY <3>1, SameCount
    <3>4. Count(u, A, P) = Count(h, B, P)
      BY <3>2, SameCount
    <3>5. QED
      BY <3>3, <3>4 DEF A, u
  <2>2. QED
    BY <2>1
<1>11. /\ 2 * Count(w, 1 .. Size, Below(v)) <= Size
       /\ 2 * Count(w, 1 .. Size, UpTo(v)) > Size
  <2>1. /\ 2 * Count(s, 1 .. Size, Below(v)) <= Size
        /\ 2 * Count(s, 1 .. Size, UpTo(v)) > Size
    BY <1>1, <1>3, <1>6, SortedMedian
  <2>2. QED
    BY <1>10, <2>1
<1>12. /\ {i \in 1 .. Size : w[i] \in Below(v)} = {i \in 1 .. Len(w) : w[i] < v}
       /\ {i \in 1 .. Size : w[i] \in UpTo(v)} = {i \in 1 .. Len(w) : w[i] <= v}
       /\ Len(w) = Size
  <2>1. Len(w) = Size
    BY <1>1
  <2>2. QED
    BY <2>1 DEF Below, UpTo
<1>13. UpperMedian(v, w)
  BY <1>11, <1>12 DEF UpperMedian, Count
<1>14. QED
  BY <1>8, <1>13 DEF v

(* A seeded filter holds the window in which all values are the first.     *)
LEMMA SeededHolds ==
    ASSUME NEW values, NEW v \in values, NEW w, \A i \in 1 .. Size : w[i] = v
    PROVE  Seeded(v) \in Ring(values) /\ Seeded(v).count = Size /\ Holds(Seeded(v), w)
<1>1. Size \in Nat \ {0}
  BY ReadingConstants
<1>2. Seeded(v) \in Ring(values) /\ Seeded(v).count = Size
  BY <1>1 DEF Seeded, Ring
<1>3. \A i \in 1 .. Size : Slot(0, i) \in 0 .. Size - 1
  BY <1>1 DEF Slot
<1>4. Holds(Seeded(v), w)
  BY <1>3 DEF Holds, Seeded
<1>5. QED
  BY <1>2, <1>4

(* Storing a value moves the window on by one.                             *)
LEMMA StoredHolds ==
    ASSUME NEW values, NEW v \in values, NEW f \in Ring(values), f.count = Size,
           NEW w, Holds(f, w), NEW x,
           \A i \in 1 .. Size : x[i] = IF i < Size THEN w[i + 1] ELSE v
    PROVE  /\ Stored(f, v) \in Ring(values) /\ Stored(f, v).count = Size
           /\ Holds(Stored(f, v), x)
<1> DEFINE g == Stored(f, v)
<1>1. Size \in Nat \ {0}
  BY ReadingConstants
<1>2. f.samples \in [0 .. Size - 1 -> values] /\ f.index \in 0 .. Size - 1
  BY DEF Ring
<1>3. /\ g.samples = [f.samples EXCEPT ![f.index] = v]
      /\ g.index = IF f.index + 1 >= Size THEN 0 ELSE f.index + 1
      /\ g.count = Size
  BY <1>1 DEF Stored
<1>4. g \in Ring(values)
  BY <1>1, <1>2, <1>3 DEF Stored, Ring
<1> HIDE DEF g
<1>5. ASSUME NEW i \in 1 .. Size
      PROVE  x[i] = g.samples[Slot(g.index, i)]
  <2>1. CASE i < Size
    <3>1. /\ i + 1 \in 1 .. Size /\ Slot(g.index, i) = Slot(f.index, i + 1)
          /\ Slot(f.index, i + 1) \in 0 .. Size - 1 /\ Slot(f.index, i + 1) # f.index
      <4>1. i \in 1 .. Size - 1 /\ i + 1 \in 1 .. Size
        BY <1>1, <2>1
      <4> DEFINE at == f.index
                 next == g.index
      <4>2. at \in 0 .. Size - 1 /\ next = IF at + 1 >= Size THEN 0 ELSE at + 1
        BY <1>2, <1>3
      <4> HIDE DEF at, next
      <4>3. /\ Slot(next, i) = Slot(at, i + 1)
            /\ Slot(next, i) \in 0 .. Size - 1 /\ Slot(next, i) # at
        BY <4>1, <4>2, SlotNext
      <4>4. QED
        BY <4>1, <4>3 DEF at, next
    <3>2. w[i + 1] = f.samples[Slot(f.index, i + 1)]
      BY <3>1 DEF Holds
    <3>3. QED
      BY <1>2, <1>3, <2>1, <3>1, <3>2
  <2>2. CASE i = Size
    <3>1. Slot(g.index, i) = f.index
      BY <1>2, <1>3, <2>2, SlotNext
    <3>2. QED
      BY <1>1, <1>2, <1>3, <2>2, <3>1
  <2>3. QED
    BY <1>1, <2>1, <2>2
<1>6. QED
  BY <1>3, <1>4, <1>5 DEF Holds, g

-----------------------------------------------------------------------------
(* Ranges of the conversion and of the cast.                               *)

(* The ranges in numbers.                                                  *)
LEMMA Numbers ==
    /\ Temperatures \in SUBSET Int /\ Humidities \in SUBSET Int
    /\ \A x : x \in Temperatures <=> x \in Int /\ -4500 <= x /\ x <= 12999
    /\ \A x : x \in Humidities <=> x \in Int /\ 0 <= x /\ x <= 9999
<1> DEFINE a == TemperatureX100(1)
           b == TemperatureX100(RawMax - 1)
           c == HumidityX100(1)
           d == HumidityX100(RawMax - 1)
<1>1. a = -4500 /\ b = 12999
  BY DEF TemperatureX100, Quotient, RawMax
<1>2. c = 0 /\ d = 9999
  BY DEF HumidityX100, Quotient, RawMax
<1>3. Temperatures = a .. b /\ Humidities = c .. d
  BY DEF Temperatures, Humidities
<1>4. a \in Int /\ b \in Int /\ c \in Int /\ d \in Int
  BY <1>1, <1>2
<1> HIDE DEF a, b, c, d
<1>5. Temperatures \in SUBSET Int /\ Humidities \in SUBSET Int
  BY <1>3, <1>4
<1>6. \A x : x \in Temperatures <=> x \in Int /\ -4500 <= x /\ x <= 12999
  <2>1. \A x : x \in Temperatures <=> x \in Int /\ a <= x /\ x <= b
    BY <1>3, <1>4
  <2>2. QED
    BY <1>1, <2>1
<1>7. \A x : x \in Humidities <=> x \in Int /\ 0 <= x /\ x <= 9999
  <2>1. \A x : x \in Humidities <=> x \in Int /\ c <= x /\ x <= d
    BY <1>3, <1>4
  <2>2. QED
    BY <1>2, <2>1
<1>8. QED
  BY <1>5, <1>6, <1>7

(* The divisions of the conversion stay in range.                          *)
LEMMA ScaledRange ==
    ASSUME NEW raw \in Int, 1 <= raw, raw <= 65534
    PROVE  /\ (17500 * raw) \div 65535 \in Int /\ (10000 * raw) \div 65535 \in Int
           /\ 0 <= (17500 * raw) \div 65535 /\ (17500 * raw) \div 65535 <= 17499
           /\ 0 <= (10000 * raw) \div 65535 /\ (10000 * raw) \div 65535 <= 9999
OBVIOUS

(* Sound words convert to values in range, and the humidity is not         *)
(* clamped.                                                                *)
LEMMA ConvertedRange ==
    ASSUME NEW raw \in 1 .. RawMax - 1
    PROVE  /\ TemperatureX100(raw) \in Temperatures
           /\ HumidityX100(raw) \in Humidities
           /\ Clamped(HumidityX100(raw)) = HumidityX100(raw)
<1>1. raw \in Int /\ 1 <= raw /\ raw <= 65534
  BY DEF RawMax
<1>2. 17500 * raw >= 0 /\ 10000 * raw >= 0
  BY <1>1
<1> DEFINE t == (17500 * raw) \div 65535
           h == (10000 * raw) \div 65535
<1>3. TemperatureX100(raw) = t - 4500 /\ HumidityX100(raw) = h
  BY <1>2 DEF TemperatureX100, HumidityX100, Quotient, RawMax
<1>4. t \in Int /\ h \in Int /\ 0 <= t /\ t <= 17499 /\ 0 <= h /\ h <= 9999
  BY <1>1, ScaledRange
<1> HIDE DEF t, h
<1>5. t - 4500 \in Temperatures /\ h \in Humidities
  <2>1. t - 4500 \in Int /\ -4500 <= t - 4500 /\ t - 4500 <= 12999
    BY <1>4
  <2>2. QED
    BY <1>4, <2>1, Numbers
<1>6. Clamped(h) = h
  BY <1>4 DEF Clamped
<1>7. QED
  BY <1>3, <1>5, <1>6

(* What is published of a value, before and after the cast.                *)
Tenths(t) == Quotient(t, 10)
Register(t) == Tenths(t) % (RawMax + 1)

(* Tenths of a degree, rounded towards zero.                               *)
LEMMA TenthsRange ==
    ASSUME NEW t \in Int, -4500 <= t, t <= 12999
    PROVE  /\ Tenths(t) \in Int /\ -450 <= Tenths(t) /\ Tenths(t) <= 1299
           /\ t >= 0 => Tenths(t) = t \div 10
<1>1. CASE t >= 0
  <2>1. t \div 10 \in Int /\ 0 <= t \div 10 /\ t \div 10 <= 1299
    BY <1>1
  <2>2. Tenths(t) = t \div 10
    BY <1>1 DEF Tenths, Quotient
  <2>3. QED
    BY <2>1, <2>2
<1>2. CASE ~(t >= 0)
  <2>1. (-t) \div 10 \in Int /\ 0 <= (-t) \div 10 /\ (-t) \div 10 <= 450
    BY <1>2
  <2>2. Tenths(t) = -((-t) \div 10)
    BY <1>2 DEF Tenths, Quotient
  <2>3. QED
    BY <1>2, <2>1, <2>2
<1>3. QED
  BY <1>1, <1>2

(* The cast keeps what is not negative and adds 2^16 to the rest.          *)
LEMMA CastRange ==
    ASSUME NEW x \in Int, -450 <= x, x <= 1299
    PROVE  x % 65536 = IF x >= 0 THEN x ELSE x + 65536
OBVIOUS

(* What a value in range becomes in a register.                            *)
LEMMA RegisterRange ==
    ASSUME NEW t \in Int, -4500 <= t, t <= 12999
    PROVE  /\ Register(t) = IF Tenths(t) >= 0 THEN Tenths(t) ELSE Tenths(t) + 65536
           /\ Register(t) \in Raw
           /\ t >= 0 => Register(t) = t \div 10
<1> DEFINE x == Tenths(t)
<1>1. x \in Int /\ -450 <= x /\ x <= 1299 /\ (t >= 0 => x = t \div 10 /\ x >= 0)
  BY TenthsRange
<1>2. Register(t) = x % 65536
  BY DEF Register, RawMax
<1> HIDE DEF x
<1>3. Register(t) = IF x >= 0 THEN x ELSE x + 65536
  BY <1>1, <1>2, CastRange
<1>4. Register(t) \in Raw
  <2>1. RawMax \in Int /\ RawMax >= 65535
    BY DEF RawMax
  <2>2. CASE x >= 0
    <3>1. x \in 0 .. RawMax /\ Register(t) = x
      BY <1>1, <1>3, <2>1, <2>2
    <3>2. QED
      BY <3>1 DEF Raw
  <2>3. CASE ~(x >= 0)
    <3>1. x + 65536 \in 0 .. RawMax /\ Register(t) = x + 65536
      BY <1>1, <1>3, <2>1, <2>3
    <3>2. QED
      BY <3>1 DEF Raw
  <2>4. QED
    BY <2>2, <2>3
<1>5. t >= 0 => Register(t) = t \div 10
  BY <1>1, <1>3
<1>6. QED
  BY <1>3, <1>4, <1>5 DEF x

(* The fields of a publication.                                            *)
LEMMA PublishedFields ==
    ASSUME NEW t, NEW h
    PROVE  LET r == Published(t, h)
           IN  /\ r.temp = Register(t) /\ r.gas = Register(h)
               /\ r.alarms = AlarmFlags(Register(t))
               /\ r = [temp |-> r.temp, gas |-> r.gas,
                       status |-> r.status, alarms |-> r.alarms]
BY DEF Published, Register, Tenths

-----------------------------------------------------------------------------
(* The bus.                                                                *)

(* Types of the bus, the length of the scripts spelled out.                *)
BusTypes == /\ state \in {"Trigger", "Read"}
            /\ step \in 0 .. IF state = "Trigger" THEN 5 ELSE 7
            /\ polls \in 0 .. PollLimit
            /\ i2c \in [open : BOOLEAN, ack : BOOLEAN]

(* Why the bus is left free: ACK is only off from the third last byte of a *)
(* read on, and then STOP has been asked for.                              *)
BusInv ==
    /\ BusTypes
    /\ step = 0 => ~i2c.open /\ i2c.ack
    /\ state = "Trigger" => i2c.ack
    /\ step <= 6 => i2c.ack
    /\ state = "Read" /\ step = 7 => ~i2c.open

(* The flags that matter of the two scripts.                               *)
LEMMA Scripts ==
    /\ Len(Script["Trigger"]) = 5 /\ Len(Script["Read"]) = 7
    /\ \A k \in 1 .. 4 : Script["Trigger"][k] # "BTF"
    /\ \A k \in 1 .. 7 : Script["Read"][k] = "BTF" <=> k = 6
<1>1. Len(Script["Trigger"]) = 5
  BY DEF Script
<1>2. Len(Script["Read"]) = 7
  BY DEF Script
<1>3. \A k \in 1 .. 4 : Script["Trigger"][k] # "BTF"
  BY DEF Script
<1>4. \A k \in 1 .. 7 : Script["Read"][k] = "BTF" <=> k = 6
  BY DEF Script
<1>5. QED
  BY <1>1, <1>2, <1>3, <1>4

(* Every step keeps it.                                                    *)
LEMMA BusPreserved == BusInv /\ [Next]_vars => BusInv'
<1> SUFFICES ASSUME BusInv, [Next]_vars PROVE BusInv'
  OBVIOUS
<1> USE ReadingConstants
<1>0. BusTypes
  BY DEF BusInv
<1>1. CASE TransferBegins
  BY <1>1 DEF TransferBegins, BusInv, BusTypes
<1>2. CASE BusRecovered
  <2>1. CASE /\ step' = 1 /\ polls' = PollLimit /\ state' = state
             /\ i2c' = [open |-> TRUE, ack |-> TRUE]
    BY <2>1 DEF BusInv, BusTypes
  <2>2. CASE /\ step' = 0 /\ polls' = PollLimit /\ state' = "Trigger"
             /\ i2c' = [open |-> FALSE, ack |-> TRUE]
    BY <2>2 DEF BusInv, BusTypes
  <2>3. QED
    BY <1>2, <2>1, <2>2 DEF BusRecovered
<1>3. CASE KeepsWaiting
  BY <1>3 DEF KeepsWaiting, BusInv, BusTypes
<1>4. CASE GivesUp
  <2>1. i2c' \in [open : BOOLEAN, ack : BOOLEAN] /\ ~i2c'.open
    BY <1>0, <1>4 DEF GivesUp, BusTypes
  <2>2. i2c'.ack = (i2c.ack \/ (state = "Read" /\ step > 2))
    BY <1>0, <1>4 DEF GivesUp, BusTypes
  <2>3. i2c.ack \/ (state = "Read" /\ step > 2)
    <3>1. step <= 6 \/ step = 7
      BY <1>0 DEF BusTypes
    <3>2. CASE step <= 6
      BY <3>2 DEF BusInv
    <3>3. CASE step = 7 /\ state = "Read"
      BY <3>3
    <3>4. CASE state = "Trigger"
      BY <3>4 DEF BusInv
    <3>5. QED
      BY <1>0, <3>1, <3>2, <3>3, <3>4 DEF BusTypes
  <2>4. i2c'.ack
    BY <2>2, <2>3
  <2>5. state' = "Trigger" /\ step' = 0 /\ polls' = PollLimit
    BY <1>4 DEF GivesUp
  <2>6. BusTypes'
    BY <2>1, <2>5 DEF BusTypes
  <2>7. QED
    BY <2>1, <2>4, <2>5, <2>6 DEF BusInv
<1>5. CASE FlagRaised
  <2>1. CASE state = "Trigger"
    <3>1. step \in 1 .. 4
      BY <1>0, <1>5, <2>1, Scripts DEF FlagRaised, LastStep, BusTypes
    <3>2. Flag # "BTF"
      BY <2>1, <3>1, Scripts DEF Flag
    <3>3. i2c' = i2c /\ step' = step + 1 /\ state' = state /\ polls' = PollLimit
      BY <1>5, <3>2 DEF FlagRaised
    <3>4. QED
      BY <2>1, <3>1, <3>3 DEF BusInv, BusTypes
  <2>2. CASE state = "Read" /\ step # 6
    <3>1. step \in 1 .. 5
      BY <1>0, <1>5, <2>2, Scripts DEF FlagRaised, LastStep, BusTypes
    <3>2. Flag # "BTF"
      BY <2>2, <3>1, Scripts DEF Flag
    <3>3. i2c' = i2c /\ step' = step + 1 /\ state' = state /\ polls' = PollLimit
      BY <1>5, <3>2 DEF FlagRaised
    <3>4. QED
      BY <2>2, <3>1, <3>3 DEF BusInv, BusTypes
  <2>3. CASE state = "Read" /\ step = 6
    <3>1. Flag = "BTF"
      BY <2>3, Scripts DEF Flag
    <3>2. i2c' = [i2c EXCEPT !.open = FALSE, !.ack = FALSE]
      BY <1>5, <3>1 DEF FlagRaised
    <3>3. i2c' \in [open : BOOLEAN, ack : BOOLEAN] /\ ~i2c'.open
      BY <1>0, <3>2 DEF BusTypes
    <3>4. step' = 7 /\ state' = "Read" /\ polls' = PollLimit
      BY <1>5, <2>3 DEF FlagRaised
    <3>5. QED
      BY <3>3, <3>4 DEF BusInv, BusTypes
  <2>4. QED
    BY <1>0, <2>1, <2>2, <2>3 DEF BusTypes
<1>6. CASE Triggered
  <2>1. /\ i2c' = [i2c EXCEPT !.open = FALSE]
        /\ state' = "Read" /\ step' = 0 /\ polls' = PollLimit /\ i2c.ack
    BY <1>6 DEF Triggered, TransferEnds, BusInv
  <2>2. i2c' \in [open : BOOLEAN, ack : BOOLEAN] /\ ~i2c'.open /\ i2c'.ack
    BY <1>0, <2>1 DEF BusTypes
  <2>3. QED
    BY <2>1, <2>2 DEF BusInv, BusTypes
<1>7. CASE \E t \in RawTemperatures, h \in RawHumidities, tSound, hSound \in BOOLEAN :
              ReadEnds(t, h, tSound, hSound)
  <2>1. state = "Read" /\ TransferEnds("Trigger")
    BY <1>7 DEF ReadEnds
  <2>2. /\ i2c' = [i2c EXCEPT !.ack = TRUE] /\ step = 7
        /\ state' = "Trigger" /\ step' = 0 /\ polls' = PollLimit
    BY <2>1, Scripts DEF TransferEnds, LastStep
  <2>3. ~i2c.open
    BY <2>1, <2>2 DEF BusInv
  <2>4. i2c' \in [open : BOOLEAN, ack : BOOLEAN] /\ ~i2c'.open /\ i2c'.ack
    BY <1>0, <2>2, <2>3 DEF BusTypes
  <2>5. QED
    BY <2>2, <2>4 DEF BusInv, BusTypes
<1>8. CASE MasterReads
  BY <1>8 DEF MasterReads, bus, BusInv, BusTypes
<1>9. CASE UNCHANGED vars
  BY <1>9 DEF vars, bus, BusInv, BusTypes
<1>10. QED
  BY <1>1, <1>2, <1>3, <1>4, <1>5, <1>6, <1>7, <1>8, <1>9 DEF Next

-----------------------------------------------------------------------------
(* The readings.                                                           *)

(* One quantity of the window.                                             *)
Column(w, c) == [i \in 1 .. Size |-> w[i][c]]

(* Before the first sound reading.                                         *)
Empty == window = <<>> /\ filters.temp.count = 0 /\ filters.hum.count = 0

(* Afterwards: the filters hold the window, and what was computed from     *)
(* them is its median.                                                     *)
Filled ==
    /\ filters.temp.count = Size /\ filters.hum.count = Size
    /\ window \in [1 .. Size -> Int \X Int]
    /\ Holds(filters.temp, Column(window, 1))
    /\ Holds(filters.hum, Column(window, 2))
    /\ UpperMedian(temperatureX100, Column(window, 1))
    /\ UpperMedian(humidityX100, Column(window, 2))
    /\ inputRegs.gas = humidityX100 \div 10
    /\ inputRegs.alarms = AlarmFlags(Register(temperatureX100))

ReadingTypes ==
    /\ filters \in [temp : Ring(Temperatures), hum : Ring(Humidities)]
    /\ temperatureX100 \in Temperatures
    /\ humidityX100 \in Humidities
    /\ inputRegs = [temp |-> inputRegs.temp, gas |-> inputRegs.gas,
                    status |-> inputRegs.status, alarms |-> inputRegs.alarms]
    /\ inputRegs.temp \in Raw
    /\ inputRegs.gas \in Raw

ReadingsInv == ReadingTypes /\ (Empty \/ Filled)

(* What the code accepts is what enters the window.                        *)
LEMMA AcceptedIsSound ==
    ASSUME NEW t \in Raw, NEW h \in Raw, NEW a \in BOOLEAN, NEW b \in BOOLEAN
    PROVE  Accepted(t, h, a, b)
             <=> a /\ b /\ t \in 1 .. RawMax - 1 /\ h \in 1 .. RawMax - 1
<1>1. Implausible(t, h) <=> t = 0 \/ t = RawMax \/ h = 0 \/ h = RawMax
  BY DEF Implausible
<1>2. RawMax \in Int
  BY DEF RawMax
<1>3. \A x \in Raw : x \in 1 .. RawMax - 1 <=> ~(x = 0 \/ x = RawMax)
  BY <1>2 DEF Raw
<1>4. QED
  BY <1>1, <1>3 DEF Accepted

(* A window loses its oldest reading and gets the new one.                 *)
LEMMA WindowMoves ==
    ASSUME NEW w \in [1 .. Size -> Int \X Int], NEW r \in Int \X Int
    PROVE  LET x == Append(Tail(w), r)
           IN  /\ x \in [1 .. Size -> Int \X Int]
               /\ \A i \in 1 .. Size : x[i] = IF i < Size THEN w[i + 1] ELSE r
<1> DEFINE V == Int \X Int
           u == Tail(w)
           x == Append(u, r)
<1>1. Size \in Nat \ {0}
  BY ReadingConstants
<1> HIDE DEF V
<1>2. w \in Seq(V) /\ Len(w) = Size /\ w # <<>>
  <2>1. w \in [1 .. Size -> V]
    BY DEF V
  <2>2. w \in Seq(V) /\ Len(w) = Size
    BY <1>1, <2>1
  <2>3. QED
    BY <1>1, <2>2
<1>3. u \in Seq(V) /\ Len(u) = Size - 1 /\ \A i \in 1 .. Size - 1 : u[i] = w[i + 1]
  BY <1>1, <1>2, HeadTailProperties
<1> HIDE DEF u
<1>4. r \in V
  BY DEF V
<1>5. /\ x \in Seq(V) /\ Len(x) = Size
      /\ \A i \in 1 .. Size - 1 : x[i] = u[i]
      /\ x[Size] = r
  <2>1. /\ x \in Seq(V) /\ Len(x) = Len(u) + 1
        /\ \A i \in 1 .. Len(u) : x[i] = u[i]
        /\ x[Len(u) + 1] = r
    BY <1>3, <1>4, AppendProperties
  <2>2. Len(u) + 1 = Size /\ Len(u) = Size - 1
    BY <1>1, <1>3
  <2>3. QED
    BY <2>1, <2>2
<1> HIDE DEF x
<1>6. x \in [1 .. Size -> V]
  BY <1>5, LenProperties
<1>7. \A i \in 1 .. Size : x[i] = IF i < Size THEN w[i + 1] ELSE r
  <2>1. \A i \in 1 .. Size : i < Size => i \in 1 .. Size - 1
    BY <1>1
  <2>2. \A i \in 1 .. Size : ~(i < Size) => i = Size
    BY <1>1
  <2>3. QED
    BY <1>3, <1>5, <2>1, <2>2
<1>8. QED
  BY <1>6, <1>7 DEF V, x, u

(* Filter f holds w, and v is the median of w.                             *)
Good(f, w, values, v) == /\ f \in Ring(values)
                         /\ f.count = Size
                         /\ Holds(f, w)
                         /\ v \in values
                         /\ UpperMedian(v, w)

(* The first value is the median of the window it fills.                   *)
LEMMA SeededGood ==
    ASSUME NEW values \in SUBSET Int, NEW v \in values, NEW w \in [1 .. Size -> Int],
           \A i \in 1 .. Size : w[i] = v
    PROVE  Good(Seeded(v), w, values, v)
<1>1. /\ Seeded(v) \in Ring({v}) /\ Seeded(v).count = Size
      /\ Holds(Seeded(v), w) /\ Seeded(v) \in Ring(values)
  BY SeededHolds
<1>2. {v} \in SUBSET Int
  OBVIOUS
<1>3. Median(Seeded(v)) \in {v} /\ UpperMedian(Median(Seeded(v)), w)
  BY <1>1, <1>2, MedianHolds
<1>4. QED
  BY <1>1, <1>3 DEF Good

(* After a value is stored, the median of the filter is the median of the  *)
(* window that has moved on.                                               *)
LEMMA StoredGood ==
    ASSUME NEW values \in SUBSET Int, NEW v \in values, NEW f, NEW w,
           NEW x \in [1 .. Size -> Int],
           f \in Ring(values), f.count = Size, Holds(f, w),
           \A i \in 1 .. Size : x[i] = IF i < Size THEN w[i + 1] ELSE v
    PROVE  Good(Stored(f, v), x, values, Median(Stored(f, v)))
<1>1. /\ Stored(f, v) \in Ring(values) /\ Stored(f, v).count = Size
      /\ Holds(Stored(f, v), x)
  BY StoredHolds
<1>2. /\ Median(Stored(f, v)) \in values
      /\ UpperMedian(Median(Stored(f, v)), x)
  BY <1>1, MedianHolds
<1>3. QED
  BY <1>1, <1>2 DEF Good

(* A sound reading keeps the invariant, the first one and every later one. *)
LEMMA SoundReading ==
    ASSUME ReadingsInv,
           NEW t \in 1 .. RawMax - 1, NEW h \in 1 .. RawMax - 1,
           ReadGood(t, h), Seen(t, h)
    PROVE  ReadingsInv'
<1> DEFINE temp == TemperatureX100(t)
           hum == HumidityX100(h)
           fresh == ~Initialized(filters.temp) \/ ~Initialized(filters.hum)
<1>1. temp \in Temperatures /\ hum \in Humidities /\ Clamped(hum) = hum
  BY ConvertedRange
<1>3. /\ filters' = IF fresh THEN [temp |-> Seeded(temp), hum |-> Seeded(hum)]
                    ELSE [temp |-> Stored(filters.temp, temp),
                          hum  |-> Stored(filters.hum, hum)]
      /\ temperatureX100' = IF fresh THEN temp ELSE Median(filters'.temp)
      /\ humidityX100' = IF fresh THEN hum ELSE Median(filters'.hum)
      /\ inputRegs' = Published(temperatureX100', humidityX100')
  BY <1>1 DEF ReadGood
<1>4. window' = IF window = <<>> THEN [i \in 1 .. Size |-> <<temp, hum>>]
                ELSE Append(Tail(window), <<temp, hum>>)
  BY DEF Seen
<1> HIDE DEF temp, hum
<1>2. temp \in Int /\ hum \in Int /\ <<temp, hum>> \in Int \X Int
  <2>1. temp \in Int /\ hum \in Int
    BY <1>1, Numbers
  <2>2. QED
    BY <2>1
<1>5. Size \in Nat \ {0}
  BY ReadingConstants
<1>6. /\ window' \in [1 .. Size -> Int \X Int]
      /\ Good(filters'.temp, Column(window', 1), Temperatures, temperatureX100')
      /\ Good(filters'.hum, Column(window', 2), Humidities, humidityX100')
      /\ filters' = [temp |-> filters'.temp, hum |-> filters'.hum]
  <2>1. CASE Empty
    <3>1. fresh /\ window = <<>>
      BY <1>5, <2>1 DEF Empty, Initialized
    <3>2. window' = [i \in 1 .. Size |-> <<temp, hum>>]
      BY <1>4, <3>1
    <3>3. /\ filters' = [temp |-> Seeded(temp), hum |-> Seeded(hum)]
          /\ temperatureX100' = temp /\ humidityX100' = hum
      BY <1>3, <3>1
    <3>5. /\ Column(window', 1) \in [1 .. Size -> Int]
          /\ \A i \in 1 .. Size : Column(window', 1)[i] = temp
          /\ Column(window', 2) \in [1 .. Size -> Int]
          /\ \A i \in 1 .. Size : Column(window', 2)[i] = hum
      BY <1>2, <3>2 DEF Column
    <3>6. Good(Seeded(temp), Column(window', 1), Temperatures, temp)
      BY <1>1, <3>5, Numbers, SeededGood
    <3>7. Good(Seeded(hum), Column(window', 2), Humidities, hum)
      BY <1>1, <3>5, Numbers, SeededGood
    <3>8. window' \in [1 .. Size -> Int \X Int]
      BY <1>2, <3>2
    <3>9. QED
      BY <3>3, <3>6, <3>7, <3>8
  <2>2. CASE Filled
    <3>1. ~fresh /\ window # <<>> /\ window \in [1 .. Size -> Int \X Int]
      BY <1>5, <2>2 DEF Filled, Initialized
    <3>2. /\ window' \in [1 .. Size -> Int \X Int]
          /\ \A i \in 1 .. Size :
                window'[i] = IF i < Size THEN window[i + 1] ELSE <<temp, hum>>
      <4> DEFINE r == <<temp, hum>>
                 x == Append(Tail(window), r)
      <4>1. r \in Int \X Int /\ window' = x
        BY <1>2, <1>4, <3>1
      <4> HIDE DEF r
      <4>2. /\ x \in [1 .. Size -> Int \X Int]
            /\ \A i \in 1 .. Size : x[i] = IF i < Size THEN window[i + 1] ELSE r
        BY <3>1, <4>1, WindowMoves
      <4> HIDE DEF x
      <4>3. QED
        BY <4>1, <4>2 DEF r
    <3>3. /\ Column(window', 1) \in [1 .. Size -> Int]
          /\ Column(window', 2) \in [1 .. Size -> Int]
      BY <3>2 DEF Column
    <3>4. /\ \A i \in 1 .. Size :
                Column(window', 1)[i] = IF i < Size THEN Column(window, 1)[i + 1]
                                        ELSE temp
          /\ \A i \in 1 .. Size :
                Column(window', 2)[i] = IF i < Size THEN Column(window, 2)[i + 1]
                                        ELSE hum
      <4>1. ASSUME NEW i \in 1 .. Size
            PROVE  /\ window'[i][1] = IF i < Size THEN window[i + 1][1] ELSE temp
                   /\ window'[i][2] = IF i < Size THEN window[i + 1][2] ELSE hum
        BY <3>2
      <4>2. \A i \in 1 .. Size : i < Size => i + 1 \in 1 .. Size
        BY <1>5
      <4>3. \A c : /\ \A i \in 1 .. Size : Column(window', c)[i] = window'[i][c]
                   /\ \A i \in 1 .. Size : Column(window, c)[i] = window[i][c]
        BY DEF Column
      <4>4. QED
        BY <4>1, <4>2, <4>3
    <3>5. /\ filters' = [temp |-> Stored(filters.temp, temp),
                         hum  |-> Stored(filters.hum, hum)]
          /\ temperatureX100' = Median(filters'.temp)
          /\ humidityX100' = Median(filters'.hum)
      BY <1>3, <3>1
    <3>7. /\ filters.temp \in Ring(Temperatures) /\ filters.hum \in Ring(Humidities)
          /\ filters.temp.count = Size /\ filters.hum.count = Size
          /\ Holds(filters.temp, Column(window, 1))
          /\ Holds(filters.hum, Column(window, 2))
      BY <2>2 DEF Filled, ReadingsInv, ReadingTypes
    <3>8. Good(Stored(filters.temp, temp), Column(window', 1), Temperatures,
               Median(Stored(filters.temp, temp)))
      <4> DEFINE f == filters.temp
                 w == Column(window, 1)
                 x == Column(window', 1)
      <4>1. /\ f \in Ring(Temperatures) /\ f.count = Size /\ Holds(f, w)
            /\ x \in [1 .. Size -> Int]
            /\ Temperatures \in SUBSET Int /\ temp \in Temperatures
        BY <1>1, <3>3, <3>7, Numbers
      <4>2. \A i \in 1 .. Size : x[i] = IF i < Size THEN w[i + 1] ELSE temp
        BY <3>4
      <4> HIDE DEF f, w, x
      <4>3. Good(Stored(f, temp), x, Temperatures, Median(Stored(f, temp)))
        BY <4>1, <4>2, StoredGood
      <4>4. QED
        BY <4>3 DEF f, x
    <3>9. Good(Stored(filters.hum, hum), Column(window', 2), Humidities,
               Median(Stored(filters.hum, hum)))
      <4> DEFINE f == filters.hum
                 w == Column(window, 2)
                 x == Column(window', 2)
      <4>1. /\ f \in Ring(Humidities) /\ f.count = Size /\ Holds(f, w)
            /\ x \in [1 .. Size -> Int]
            /\ Humidities \in SUBSET Int /\ hum \in Humidities
        BY <1>1, <3>3, <3>7, Numbers
      <4>2. \A i \in 1 .. Size : x[i] = IF i < Size THEN w[i + 1] ELSE hum
        BY <3>4
      <4> HIDE DEF f, w, x
      <4>3. Good(Stored(f, hum), x, Humidities, Median(Stored(f, hum)))
        BY <4>1, <4>2, StoredGood
      <4>4. QED
        BY <4>3 DEF f, x
    <3>10. QED
      BY <3>2, <3>5, <3>8, <3>9
  <2>3. QED
    BY <2>1, <2>2 DEF ReadingsInv
<1>7. LET r == inputRegs'
      IN  /\ r = [temp |-> r.temp, gas |-> r.gas,
                  status |-> r.status, alarms |-> r.alarms]
          /\ r.temp \in Raw /\ r.gas \in Raw
          /\ r.gas = humidityX100' \div 10
          /\ r.alarms = AlarmFlags(Register(temperatureX100'))
  <2>1. temperatureX100' \in Temperatures /\ humidityX100' \in Humidities
    BY <1>6 DEF Good
  <2>2. /\ Register(temperatureX100') \in Raw
        /\ Register(humidityX100') \in Raw
        /\ Register(humidityX100') = humidityX100' \div 10
    <3>1. /\ temperatureX100' \in Int
          /\ -4500 <= temperatureX100' /\ temperatureX100' <= 12999
      BY <2>1, Numbers
    <3>2. /\ humidityX100' \in Int /\ 0 <= humidityX100' /\ humidityX100' <= 9999
          /\ -4500 <= humidityX100' /\ humidityX100' <= 12999
      BY <2>1, Numbers
    <3>3. QED
      BY <3>1, <3>2, RegisterRange
  <2>3. LET r == inputRegs'
        IN  /\ r.temp = Register(temperatureX100') /\ r.gas = Register(humidityX100')
            /\ r.alarms = AlarmFlags(Register(temperatureX100'))
            /\ r = [temp |-> r.temp, gas |-> r.gas,
                    status |-> r.status, alarms |-> r.alarms]
    BY <1>3, PublishedFields
  <2>4. QED
    BY <2>2, <2>3
<1>8. ReadingTypes'
  BY <1>6, <1>7 DEF ReadingTypes, Good
<1>9. Filled'
  BY <1>6, <1>7 DEF Filled, Good
<1>10. QED
  BY <1>8, <1>9 DEF ReadingsInv

(* A step that changes nothing but the status keeps it.                    *)
LEMMA ReadingsKept ==
    ASSUME ReadingsInv,
           UNCHANGED <<filters, temperatureX100, humidityX100, window>>,
           inputRegs'.temp = inputRegs.temp, inputRegs'.gas = inputRegs.gas,
           inputRegs'.alarms = inputRegs.alarms,
           LET r == inputRegs' IN r = [temp |-> r.temp, gas |-> r.gas,
                                       status |-> r.status, alarms |-> r.alarms]
    PROVE  ReadingsInv'
<1>1. ReadingTypes'
  BY DEF ReadingsInv, ReadingTypes
<1>2. Empty => Empty'
  BY DEF Empty
<1>3. Filled => Filled'
  BY DEF Filled
<1>4. QED
  BY <1>1, <1>2, <1>3 DEF ReadingsInv

(* Every step keeps it.                                                    *)
LEMMA ReadingsPreserved == ReadingsInv /\ [Next]_vars => ReadingsInv'
<1> SUFFICES ASSUME ReadingsInv, [Next]_vars PROVE ReadingsInv'
  OBVIOUS
<1>1. CASE UNCHANGED readings
  BY <1>1, ReadingsKept DEF readings, ReadingsInv, ReadingTypes
<1>2. CASE \E t \in RawTemperatures, h \in RawHumidities, tSound, hSound \in BOOLEAN :
              ReadEnds(t, h, tSound, hSound)
  <2>1. PICK t \in RawTemperatures, h \in RawHumidities,
             tSound \in BOOLEAN, hSound \in BOOLEAN : ReadEnds(t, h, tSound, hSound)
    BY <1>2
  <2>2. t \in Raw /\ h \in Raw
    BY ReadingConstants
  <2>3. CASE Accepted(t, h, tSound, hSound)
    <3>1. tSound /\ hSound /\ t \in 1 .. RawMax - 1 /\ h \in 1 .. RawMax - 1
      BY <2>2, <2>3, AcceptedIsSound
    <3>2. ReadGood(t, h) /\ Seen(t, h)
      BY <2>1, <2>3, <3>1 DEF ReadEnds
    <3>3. QED
      BY <3>1, <3>2, SoundReading
  <2>4. CASE ~Accepted(t, h, tSound, hSound)
    <3>1. ~(tSound /\ hSound /\ t \in 1 .. RawMax - 1 /\ h \in 1 .. RawMax - 1)
      BY <2>2, <2>4, AcceptedIsSound
    <3>2. UNCHANGED readings
      BY <2>1, <2>4, <3>1 DEF ReadEnds, readings
    <3>3. QED
      BY <1>1, <3>2
  <2>5. QED
    BY <2>3, <2>4
<1>3. CASE MasterReads
  <2>1. UNCHANGED <<filters, temperatureX100, humidityX100, window>>
    BY <1>3 DEF MasterReads
  <2>2. \E v : inputRegs' = [inputRegs EXCEPT !.status = v]
    BY <1>3 DEF MasterReads
  <2>3. inputRegs = [temp |-> inputRegs.temp, gas |-> inputRegs.gas,
                     status |-> inputRegs.status, alarms |-> inputRegs.alarms]
    BY DEF ReadingsInv, ReadingTypes
  <2>4. LET r == inputRegs'
        IN  /\ r.temp = inputRegs.temp /\ r.gas = inputRegs.gas
            /\ r.alarms = inputRegs.alarms
            /\ r = [temp |-> r.temp, gas |-> r.gas,
                    status |-> r.status, alarms |-> r.alarms]
    BY <2>2, <2>3
  <2>5. QED
    BY <2>1, <2>4, ReadingsKept
<1>4. [Next]_vars => \/ UNCHANGED readings
                     \/ \E t \in RawTemperatures, h \in RawHumidities,
                           tSound, hSound \in BOOLEAN : ReadEnds(t, h, tSound, hSound)
                     \/ MasterReads
  BY DEF Next, vars, TransferBegins, BusRecovered, KeepsWaiting, GivesUp, FlagRaised,
         Triggered
<1>5. QED
  BY <1>1, <1>2, <1>3, <1>4

(* The inductive invariant.                                                *)
ReadingInv == BusInv /\ ReadingsInv

(* It holds at the start.                                                  *)
LEMMA ReadingInitially == Init => ReadingInv
<1> SUFFICES ASSUME Init PROVE ReadingInv
  OBVIOUS
<1>1. Size \in Nat \ {0} /\ PollLimit \in Nat /\ RawMax \in Int /\ RawMax >= 65535
  BY ReadingConstants DEF RawMax
<1>2. BusInv
  BY <1>1 DEF Init, BusInv, BusTypes
<1>3. 0 \in Temperatures /\ 0 \in Humidities /\ 0 \in Raw
  BY <1>1, Numbers DEF Raw
<1>4. EmptyFilter \in Ring(Temperatures) /\ EmptyFilter \in Ring(Humidities)
  BY <1>1, <1>3 DEF EmptyFilter, Ring
<1>5. ReadingTypes
  BY <1>3, <1>4 DEF Init, ReadingTypes
<1>6. Empty
  BY DEF Init, Empty, EmptyFilter
<1>7. QED
  BY <1>2, <1>5, <1>6 DEF ReadingInv, ReadingsInv

(* It holds always.                                                        *)
THEOREM ReadingInductive == Spec => []ReadingInv
<1>1. Init => ReadingInv
  BY ReadingInitially
<1>2. ReadingInv /\ [Next]_vars => ReadingInv'
  BY BusPreserved, ReadingsPreserved DEF ReadingInv
<1>3. QED
  BY <1>1, <1>2, PTL DEF Spec

-----------------------------------------------------------------------------
(* The theorems.                                                           *)

(* Every index stays within the script and the ring, and every value       *)
(* within the range of the sensor and the width of the registers, the      *)
(* medians included.                                                       *)
THEOREM ReadingTypeCorrect == Spec => []TypeOK
<1>1. ReadingInv => TypeOK
  <2> SUFFICES ASSUME ReadingInv PROVE TypeOK
    OBVIOUS
  <2>1. BusTypes /\ ReadingTypes
    BY DEF ReadingInv, BusInv, ReadingsInv
  <2>2. step \in 0 .. Len(Script[state])
    BY <2>1, Scripts DEF BusTypes
  <2>3. /\ filters.temp.index \in 0 .. Size - 1 /\ filters.temp.count \in {0, Size}
        /\ filters.hum.index \in 0 .. Size - 1 /\ filters.hum.count \in {0, Size}
    BY <2>1 DEF ReadingTypes, Ring
  <2>4. \A f \in {filters.temp, filters.hum} :
           f.index \in 0 .. Size - 1 /\ f.count \in {0, Size}
    BY <2>3
  <2>5. temperatureX100 \in Temperatures /\ humidityX100 \in Humidities
    BY <2>1 DEF ReadingTypes
  <2>6. {inputRegs.temp, inputRegs.gas} \subseteq Raw
    BY <2>1 DEF ReadingTypes
  <2>7. /\ state \in {"Trigger", "Read"} /\ polls \in 0 .. PollLimit
        /\ i2c \in [open : BOOLEAN, ack : BOOLEAN]
    BY <2>1 DEF BusTypes
  <2>8. QED
    BY <2>2, <2>4, <2>5, <2>6, <2>7 DEF TypeOK
<1>2. QED
  BY <1>1, ReadingInductive, PTL

(* A transfer that ends, at whatever step and for whatever reason, has     *)
(* asked for STOP and left ACK on (Legacy/Src/i2c.cpp, every return).      *)
THEOREM BusIsLeftFree == Spec => []BusLeftFree
<1>1. ReadingInv => BusLeftFree
  BY DEF ReadingInv, BusInv, BusLeftFree
<1>2. QED
  BY <1>1, ReadingInductive, PTL

(* A window that is not empty is filled.                                   *)
LEMMA WindowFilled == ReadingInv /\ window # <<>> => Filled /\ ReadingTypes
BY DEF ReadingInv, ReadingsInv, Empty

(* For every size of the filter: what is displayed and published is the    *)
(* median of the last Size sound readings. Failed transfers and refused    *)
(* words leave no trace in it (Legacy/Src/filter.cpp,                      *)
(* SensorService::handleRead).                                             *)
THEOREM MedianIsPublished == Spec => []PublishesMedian
<1>1. ReadingInv => PublishesMedian
  BY WindowFilled DEF PublishesMedian, Filled, Column
<1>2. QED
  BY <1>1, ReadingInductive, PTL

(* Neither threshold is among the numbers the cast makes of temperatures   *)
(* below zero. The code reads thresholds from the configuration and does   *)
(* not check this; the theorem needs it, the others do not.                *)
ThresholdsNotBelowZero == TempHigh < RawMax + 1 - 450 /\ TempLow <= RawMax + 1 - 450

(* The alarm flags are those of the published temperature from zero        *)
(* upwards, and below zero always a high alarm and never a low one.        *)
THEOREM AlarmsMatch == ThresholdsNotBelowZero => (Spec => []AlarmsMatchReading)
<1> SUFFICES ASSUME ThresholdsNotBelowZero PROVE Spec => []AlarmsMatchReading
  OBVIOUS
<1>1. ReadingInv => AlarmsMatchReading
  <2> SUFFICES ASSUME ReadingInv, window # <<>>
               PROVE  LET tenths == Quotient(temperatureX100, 10)
                      IN  inputRegs.alarms = IF tenths >= 0 THEN AlarmFlags(tenths)
                                             ELSE {"high"}
    BY DEF AlarmsMatchReading
  <2> DEFINE x == Tenths(temperatureX100)
             r == Register(temperatureX100)
  <2>1. inputRegs.alarms = AlarmFlags(r) /\ temperatureX100 \in Temperatures
    BY WindowFilled DEF Filled, ReadingTypes
  <2>2. temperatureX100 \in Int /\ -4500 <= temperatureX100 /\ temperatureX100 <= 12999
    BY <2>1, Numbers
  <2>3. x \in Int /\ -450 <= x /\ r = IF x >= 0 THEN x ELSE x + 65536
    BY <2>2, TenthsRange, RegisterRange
  <2>4. x = Quotient(temperatureX100, 10)
    BY DEF Tenths
  <2> HIDE DEF x, r
  <2>5. ~(x >= 0) => AlarmFlags(r) = {"high"}
    <3> SUFFICES ASSUME ~(x >= 0) PROVE AlarmFlags(r) = {"high"}
      OBVIOUS
    <3>1. r \in Int /\ r >= 65536 - 450
      BY <2>3
    <3>2. TempHigh \in Int /\ TempLow \in Int
      <4>1. RawMax \in Int
        BY DEF RawMax
      <4>2. QED
        BY <4>1, ReadingConstants DEF Raw
    <3>3. TempHigh < 65536 - 450 /\ TempLow <= 65536 - 450
      BY <3>2 DEF ThresholdsNotBelowZero, RawMax
    <3>4. r > TempHigh /\ ~(r < TempLow)
      BY <3>1, <3>2, <3>3
    <3>5. QED
      BY <3>4 DEF AlarmFlags
  <2>6. inputRegs.alarms = IF x >= 0 THEN AlarmFlags(x) ELSE {"high"}
    <3>1. x >= 0 => r = x
      BY <2>3
    <3>2. QED
      BY <2>1, <2>5, <3>1
  <2>7. QED
    BY <2>4, <2>6
<1>2. QED
  BY <1>1, ReadingInductive, PTL

-----------------------------------------------------------------------------
(* The settings.                                                           *)

(* The codes ok can hold.                                                  *)
Codes == {0, 2, 3, 4, 5, 19} \union 24 .. 28 \union 31 .. 46

(* The strengthening: a hard code in ok is explained by the package.       *)
HardCodeIsEarned == ok \in HardCodes => ~Loadable

SettingsInv == SettingsTypeOK /\ HardCodeIsEarned /\ LoadableIsAccepted

(* A check that is followed by another one is never followed by refusal.   *)
LEMMA FollowingChecks ==
    \A c \in DOMAIN Following :
       Following[c] \in DOMAIN Following \union {"verdict"}
  BY DEF Following

(* One check keeps the invariant if its code is one of the codes, and hard *)
(* only when the package fails an identity check.                          *)
LEMMA CheckKeepsInv ==
    ASSUME NEW c \in DOMAIN Following,
           NEW failed \in BOOLEAN, NEW code \in Codes,
           SettingsInv, Check(c, failed, code),
           failed /\ code \in HardCodes => ~Loadable
    PROVE  SettingsInv'
  <1>1. check' \in DOMAIN Following \union {"verdict"}
    BY FollowingChecks DEF Check
  <1>2. package' = package /\ ok' \in {ok, code}
    BY DEF Check
  <1>3. check' # "refused"
    BY <1>1 DEF Following
  <1>4. SettingsTypeOK'
    BY <1>1, <1>2 DEF SettingsInv, SettingsTypeOK, Codes
  <1>5. HardCodeIsEarned'
    <2>1. Loadable' <=> Loadable
      BY <1>2 DEF Loadable
    <2>2. CASE failed
      BY <2>1, <2>2 DEF Check, HardCodeIsEarned
    <2>3. CASE ~failed
      BY <2>1, <2>3 DEF Check, SettingsInv, HardCodeIsEarned
    <2>4. QED BY <2>2, <2>3
  <1>6. QED BY <1>3, <1>4, <1>5 DEF SettingsInv, LoadableIsAccepted

(* The groups of optional fields leave codes that are forgiven.            *)
LEMMA OptionalCodes ==
    \A c \in DOMAIN Optional :
       /\ c \in DOMAIN Following
       /\ Optional[c] \subseteq Codes \ HardCodes
  <1>1. DOMAIN Optional = {"appliedGas", "infrared", "service", "voc",
                            "hysteresis", "ranges", "alarmHysteresis"}
    BY DEF Optional
  <1>2. \A c \in DOMAIN Optional : c \in DOMAIN Following
    BY <1>1 DEF Following
  <1>3. \A c \in DOMAIN Optional : /\ Optional[c] \subseteq 19 .. 46
                                   /\ Optional[c] \subseteq Codes
    BY <1>1 DEF Optional, Codes
  <1>4. QED BY <1>2, <1>3 DEF HardCodes

(* A call starts with no code.                                             *)
LEMMA SettingsInvInit == SettingsInit => SettingsInv
  BY
  DEF SettingsInit, SettingsInv, SettingsTypeOK, Following,
      HardCodeIsEarned, HardCodes, LoadableIsAccepted

(* Every check keeps the invariant.                                        *)
LEMMA SettingsInvNext == SettingsInv /\ [SettingsNext]_settingsVars => SettingsInv'
  <1> SUFFICES ASSUME SettingsInv, [SettingsNext]_settingsVars PROVE SettingsInv'
    OBVIOUS
  <1>1. CASE TooShort
    BY <1>1
    DEF TooShort, SettingsInv, SettingsTypeOK, HardCodeIsEarned,
        LoadableIsAccepted, Loadable, Outcomes
  <1>2. CASE LongEnough
    <2>1. check' = "model" /\ UNCHANGED <<package, ok>>
      BY <1>2 DEF LongEnough, Following
    <2>2. QED
      BY <2>1
      DEF SettingsInv, SettingsTypeOK, HardCodeIsEarned,
          LoadableIsAccepted, Loadable, Following
  <1>3. CASE CheckModel
    BY <1>3, CheckKeepsInv
    DEF CheckModel, Codes, Loadable, Following,
        SettingsInv, SettingsTypeOK, Packages
  <1>4. CASE CheckType
    BY <1>4, CheckKeepsInv
    DEF CheckType, Codes, Loadable, Following
  <1>5. CASE CheckGas
    BY <1>5, CheckKeepsInv
    DEF CheckGas, Codes, Loadable, Following
  <1>6. CASE CheckUnit
    BY <1>6, CheckKeepsInv
    DEF CheckUnit, Codes, Loadable, Following,
        SettingsInv, SettingsTypeOK, Packages
  <1>7. CASE \E c \in DOMAIN Optional : CheckOptional(c)
    <2>0. PICK c \in DOMAIN Optional : CheckOptional(c)
      BY <1>7
    <2>1. PICK code \in Optional[c], failed \in {FALSE, Applies(c)} :
               Check(c, failed, code)
      BY <2>0 DEF CheckOptional
    <2>2. /\ c \in DOMAIN Following
          /\ code \in Codes /\ code \notin HardCodes
      BY OptionalCodes
    <2>3. Applies(c) \in BOOLEAN
      BY DEF Applies, IsPidVoc
    <2>4. QED BY <2>1, <2>2, <2>3, CheckKeepsInv
  <1>8. CASE CheckAlarm1
    <2>1. PICK failed \in BOOLEAN, code \in {31, 37} :
               Check("alarm1", failed, code)
      BY <1>8
      DEF CheckAlarm1, FallsWithoutO2,
          SameDirection, InOrder
    <2>2. QED BY <2>1, CheckKeepsInv DEF Codes, HardCodes, Following
  <1>9. CASE CheckAlarm2
    <2>1. PICK failed \in BOOLEAN, code \in {32, 33, 36} :
               Check("alarm2", failed, code)
      BY <1>9
      DEF CheckAlarm2, FallsWithoutO2,
          SameDirection, InOrder
    <2>2. QED BY <2>1, CheckKeepsInv DEF Codes, HardCodes, Following
  <1>10. CASE CheckAlarm3
    <2>1. PICK failed \in BOOLEAN : Check("alarm3", failed, 35)
      BY <1>10 DEF CheckAlarm3, FallsWithoutO2
    <2>2. QED BY <2>1, CheckKeepsInv DEF Codes, HardCodes, Following
  <1>11. CASE CheckTypeAgain
    <2>1. PICK failed \in BOOLEAN : Check("typeAgain", failed, 34)
      BY <1>11 DEF CheckTypeAgain
    <2>2. QED BY <2>1, CheckKeepsInv DEF Codes, HardCodes, Following
  <1>12. CASE Verdict
    BY <1>12
    DEF Verdict, SettingsInv, SettingsTypeOK, HardCodeIsEarned,
        LoadableIsAccepted, Loadable, Outcomes
  <1>13. CASE UNCHANGED settingsVars
    BY <1>13
    DEF settingsVars, SettingsInv, SettingsTypeOK, HardCodeIsEarned,
        LoadableIsAccepted, Loadable
  <1>14. QED
    BY <1>1, <1>2, <1>3, <1>4, <1>5, <1>6, <1>7, <1>8, <1>9, <1>10, <1>11, <1>12, <1>13
    DEF SettingsNext

(* So it holds throughout the call.                                        *)
LEMMA SettingsInvHolds == SettingsSpec => []SettingsInv
  BY SettingsInvInit, SettingsInvNext, PTL DEF SettingsSpec

(* ok holds a code of the checks, whatever sensor types exist.             *)
THEOREM SettingsTypeCorrect == SettingsSpec => []SettingsTypeOK
  BY SettingsInvHolds, PTL DEF SettingsInv

(* The forgiving treatment of optional fields works for every package:     *)
(* whatever codes they leave, in whatever order they overwrite each other, *)
(* a complete package that the next start would load is accepted.          *)
THEOREM LoadableAccepted == SettingsSpec => []LoadableIsAccepted
  BY SettingsInvHolds, PTL DEF SettingsInv
=============================================================================
