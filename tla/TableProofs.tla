---------------------------- MODULE TableProofs ----------------------------
(***************************************************************************)
(* What insert, get, remove and evict_if_needed do to a table, for every   *)
(* value of the constants: first to its parts (the chains, LRU's list,     *)
(* LFU's counters and heap, current_memory_), in terms of the map that the *)
(* table represents, then to the whole: each of them keeps TInv. Then what *)
(* a log and a snapshot say of a key, and that the calls made of them at a *)
(* restart leave it so.                                                    *)
(***************************************************************************)
EXTENDS Recovery, FiniteSetTheorems, NaturalsInduction, WellFoundedInduction, TLAPS

-----------------------------------------------------------------------------
(* Recursion and minima over the natural numbers.                          *)

\* A set of natural numbers has a least element.
LEMMA LeastNat ==
  ASSUME NEW S \in SUBSET Nat, S # {}
  PROVE  \E x \in S : \A y \in S : x <= y
<1>1. PICK x \in S : \A y \in S : ~(<<y, x>> \in OpToRel(<, Nat))
  BY NatLessThanWellFounded, WFMin, Zenon
<1>2. \A y \in S : ~(y < x)
  BY <1>1, Zenon DEF OpToRel
<1> QED
  BY <1>2

\* A set that holds 0 and the successors of its elements is all of Nat.
LEMMA Induction ==
  ASSUME NEW S, 0 \in S, \A n \in Nat : n \in S => n + 1 \in S
  PROVE  Nat \subseteq S
<1> DEFINE bad == Nat \ S
<1> SUFFICES ASSUME bad # {} PROVE FALSE
  OBVIOUS
<1>1. PICK x \in bad : \A y \in bad : x <= y
  BY LeastNat, Zenon
<1>2. x - 1 \in Nat /\ x - 1 \notin bad
  BY <1>1
<1> QED
  BY <1>2

\* A first value and a step determine a function on Nat.
Iterates(f, S, base, step) ==
  f \in [Nat -> S] /\ f[0] = base /\ \A n \in Nat : f[n + 1] = step[<<n, f[n]>>]

\* A base and a step define a sequence of iterates.
LEMMA Recursion ==
  ASSUME NEW S, NEW base \in S, NEW step \in [Nat \X S -> S]
  PROVE  \E f : Iterates(f, S, base, step)
<1> DEFINE Part(n) == {g \in [0 .. n -> S] :
                         g[0] = base /\ \A i \in 0 .. n - 1 : g[i + 1] = step[<<i, g[i]>>]}
<1>1. \A n \in Nat : Part(n) # {}
  <2> DEFINE good == {n \in Nat : Part(n) # {}}
  <2>1. 0 \in good
    <3>1. [i \in 0 .. 0 |-> base] \in Part(0)
      OBVIOUS
    <3> QED
      BY <3>1
  <2>2. ASSUME NEW n \in Nat, n \in good PROVE n + 1 \in good
    <3>1. PICK g \in Part(n) : TRUE
      BY <2>2
    <3> DEFINE h == [i \in 0 .. n + 1 |-> IF i = n + 1 THEN step[<<n, g[n]>>] ELSE g[i]]
    <3>2. /\ \A i \in 0 .. n : g[i] \in S
          /\ g[0] = base /\ \A i \in 0 .. n - 1 : g[i + 1] = step[<<i, g[i]>>]
      OBVIOUS
    <3> HIDE DEF Part
    <3>3. step[<<n, g[n]>>] \in S
      BY <3>2
    <3>4. \A i \in 0 .. n + 1 : h[i] \in S
      BY <3>2, <3>3
    <3>5. h[0] = base
      BY <3>2
    <3>6. ASSUME NEW i \in 0 .. (n + 1) - 1 PROVE h[i + 1] = step[<<i, h[i]>>]
      <4>1. CASE i = n
        <5>1. h[n + 1] = step[<<n, g[n]>>] /\ h[n] = g[n]
          BY n + 1 \in 0 .. n + 1 /\ n \in 0 .. n + 1 /\ n # n + 1
        <5> HIDE DEF h
        <5> QED
          BY <4>1, <5>1
      <4>2. CASE i # n
        <5>1. i \in 0 .. n - 1 /\ h[i + 1] = g[i + 1] /\ h[i] = g[i]
          BY <4>2
        <5> QED
          BY <3>2, <5>1
      <4> QED
        BY <4>1, <4>2
    <3>7. h = [i \in 0 .. n + 1 |-> h[i]]
      OBVIOUS
    <3> HIDE DEF h
    <3>8. h \in [0 .. n + 1 -> S]
      BY <3>4, <3>7
    <3>9. \A i \in 0 .. (n + 1) - 1 : h[i + 1] = step[<<i, h[i]>>]
      BY <3>6, Zenon
    <3>10. h \in Part(n + 1)
      BY <3>5, <3>8, <3>9, Zenon DEF Part
    <3> QED
      BY <3>10
  <2> HIDE DEF Part
  <2> QED
    BY <2>1, <2>2, Induction, Zenon
<1>2. ASSUME NEW m \in Nat, NEW n \in Nat, NEW g \in Part(m), NEW h \in Part(n)
      PROVE  \A i \in Nat : i <= m /\ i <= n => g[i] = h[i]
  <2> DEFINE good == {i \in Nat : i <= m /\ i <= n => g[i] = h[i]}
  <2>1. 0 \in good
    OBVIOUS
  <2>2. ASSUME NEW i \in Nat, i \in good PROVE i + 1 \in good
    <3> SUFFICES ASSUME i + 1 <= m, i + 1 <= n PROVE g[i + 1] = h[i + 1]
      OBVIOUS
    <3>1. g[i] = h[i] /\ i \in 0 .. m - 1 /\ i \in 0 .. n - 1
      BY <2>2
    <3> QED
      BY <3>1, Zenon
  <2>3. Nat \subseteq good
    BY <2>1, <2>2, Induction, Zenon
  <2> QED
    BY <2>3
<1> DEFINE f == [n \in Nat |-> (CHOOSE g \in Part(n) : TRUE)[n]]
<1>3. ASSUME NEW n \in Nat PROVE (CHOOSE g \in Part(n) : TRUE) \in Part(n)
  <2> HIDE DEF Part
  <2> QED
    BY <1>1
<1>4. ASSUME NEW n \in Nat PROVE f[n + 1] = step[<<n, f[n]>>]
  <2>1. PICK g \in Part(n) : f[n] = g[n]
    <3> HIDE DEF Part
    <3> QED
      BY <1>3, Zenon
  <2>2. PICK h \in Part(n + 1) : f[n + 1] = h[n + 1]
    <3> HIDE DEF Part
    <3>1. n + 1 \in Nat
      OBVIOUS
    <3> QED
      BY <1>3, <3>1, Zenon
  <2>3. g[n] = h[n]
    <3> HIDE DEF Part
    <3>1. n + 1 \in Nat /\ n <= n + 1 /\ n <= n
      OBVIOUS
    <3> QED
      BY <1>2, <3>1
  <2>4. h[n + 1] = step[<<n, h[n]>>]
    OBVIOUS
  <2> QED
    BY <2>1, <2>2, <2>3, <2>4
<1>5. f \in [Nat -> S]
  <2>1. ASSUME NEW n \in Nat PROVE (CHOOSE g \in Part(n) : TRUE)[n] \in S
    <3>1. \A g \in Part(n) : g[n] \in S
      OBVIOUS
    <3> HIDE DEF Part
    <3> QED
      BY <1>3, <3>1
  <2> QED
    BY <2>1
<1>6. f[0] = base
  BY <1>3, Zenon
<1> HIDE DEF f
<1> QED
  BY <1>4, <1>5, <1>6, Zenon DEF Iterates

\* The same for finitely many steps.
IteratesTo(g, L, S, base, step) ==
  g \in [0 .. L -> S] /\ g[0] = base /\ \A n \in 1 .. L : g[n] = step[<<n, g[n - 1]>>]

\* The same where the step is only defined up to L.
LEMMA FiniteRecursion ==
  ASSUME NEW S, NEW base \in S, NEW L \in Nat, NEW step \in [(1 .. L) \X S -> S]
  PROVE  \E g : IteratesTo(g, L, S, base, step)
<1> DEFINE next == [x \in Nat \X S |-> IF x[1] + 1 \in 1 .. L THEN step[<<x[1] + 1, x[2]>>] ELSE x[2]]
<1>1. next \in [Nat \X S -> S]
  OBVIOUS
<1>2. \A n \in Nat, x \in S : n + 1 \in 1 .. L => next[<<n, x>>] = step[<<n + 1, x>>]
  OBVIOUS
<1> HIDE DEF next
<1>3. PICK f : Iterates(f, S, base, next)
  BY <1>1, Recursion, Zenon
<1>4. f \in [Nat -> S] /\ f[0] = base /\ \A n \in Nat : f[n + 1] = next[<<n, f[n]>>]
  BY <1>3, Zenon DEF Iterates
<1> DEFINE g == [n \in 0 .. L |-> f[n]]
<1>5. g \in [0 .. L -> S] /\ g[0] = base
  BY <1>4
<1>6. ASSUME NEW n \in 1 .. L PROVE g[n] = step[<<n, g[n - 1]>>]
  <2>1. n - 1 \in Nat /\ (n - 1) + 1 = n /\ n - 1 \in 0 .. L /\ n \in 0 .. L
    OBVIOUS
  <2>2. f[n - 1] \in S /\ f[(n - 1) + 1] = next[<<n - 1, f[n - 1]>>]
    BY <1>4, <2>1, Zenon
  <2>3. next[<<n - 1, f[n - 1]>>] = step[<<(n - 1) + 1, f[n - 1]>>]
    BY <1>2, <2>1, <2>2, Zenon
  <2> QED
    BY <2>1, <2>2, <2>3, Zenon
<1> HIDE DEF g
<1> QED
  BY <1>5, <1>6, Zenon DEF IteratesTo

-----------------------------------------------------------------------------
(* The capacity a table is constructed with.                               *)

\* The capacities that the constructor doubles are defined by their recursion.
LEMMA DoubledDef ==
  Doubled = [n \in Nat |-> IF n = 0 THEN 1 ELSE 2 * Doubled[n - 1]]
<1> DEFINE step == [x \in Nat \X Nat |-> 2 * x[2]]
<1>1. step \in [Nat \X Nat -> Nat]
  OBVIOUS
<1>2. PICK f \in [Nat -> Nat] : f[0] = 1 /\ \A n \in Nat : f[n + 1] = step[<<n, f[n]>>]
  <2> HIDE DEF step
  <2>1. 1 \in Nat
    OBVIOUS
  <2>2. \E f : Iterates(f, Nat, 1, step)
    BY <1>1, <2>1, Recursion, Zenon
  <2> QED
    BY <2>2, Zenon DEF Iterates
<1>3. ASSUME NEW n \in Nat PROVE f[n + 1] = 2 * f[n]
  <2>1. <<n, f[n]>> \in Nat \X Nat
    BY <1>2
  <2>2. step[<<n, f[n]>>] = 2 * f[n]
    BY <2>1
  <2> QED
    BY <1>2, <2>2, Zenon
<1>4. ASSUME NEW n \in Nat PROVE f[n] = IF n = 0 THEN 1 ELSE 2 * f[n - 1]
  <2>1. CASE n = 0
    BY <1>2, <2>1
  <2>2. CASE n # 0
    <3>1. n - 1 \in Nat /\ n = (n - 1) + 1
      BY <2>2
    <3> QED
      BY <1>3, <3>1, <2>2
  <2> QED
    BY <2>1, <2>2
<1>5. f = [n \in Nat |-> IF n = 0 THEN 1 ELSE 2 * f[n - 1]]
  BY <1>4, <1>2
<1> QED
  BY <1>5, Zenon DEF Doubled

\* A table has at least one bucket.
LEMMA CapacityIs ==
  ASSUME NEW n \in Nat
  PROVE  Capacity(n) \in Nat \ {0}
<1> DEFINE good == {i \in Nat : Doubled[i] \in Nat /\ Doubled[i] > i}
<1>1. 0 \in good
  <2>1. Doubled[0] = 1
    BY DoubledDef
  <2> QED
    BY <2>1
<1>2. ASSUME NEW i \in Nat, i \in good PROVE i + 1 \in good
  <2>1. Doubled[i + 1] = 2 * Doubled[(i + 1) - 1]
    BY DoubledDef
  <2> HIDE DEF Doubled
  <2>2. (i + 1) - 1 = i
    OBVIOUS
  <2> QED
    BY <1>2, <2>1, <2>2
<1>3. \A i \in Nat : Doubled[i] \in Nat /\ Doubled[i] > i
  BY <1>1, <1>2, Induction, Zenon
<1> DEFINE S == {i \in 0 .. n : Doubled[i] >= n}
<1>4. PICK i \in S : \A j \in S : i <= j
  <2>1. n \in S /\ S \subseteq Nat
    BY <1>3
  <2> QED
    BY <2>1, LeastNat, Zenon
<1>5. \A j \in 0 .. i - 1 : Doubled[j] < n
  BY <1>3, <1>4
<1>6. \E c \in 0 .. n : Doubled[c] >= n /\ \A j \in 0 .. c - 1 : Doubled[j] < n
  BY <1>4, <1>5
<1>7. (CHOOSE c \in 0 .. n : Doubled[c] >= n /\ \A j \in 0 .. c - 1 : Doubled[j] < n) \in 0 .. n
  BY <1>6, Zenon
<1>8. \A c \in 0 .. n : Doubled[c] \in Nat \ {0}
  BY <1>3
<1> QED
  BY <1>7, <1>8, Zenon DEF Capacity

-----------------------------------------------------------------------------
(* Sequences.                                                              *)

\* The elements of a concatenation.
LEMMA ConcatIs ==
  ASSUME NEW T, NEW a \in Seq(T), NEW b \in Seq(T)
  PROVE  /\ a \o b \in Seq(T)
         /\ Len(a \o b) = Len(a) + Len(b)
         /\ \A j \in 1 .. Len(a) : (a \o b)[j] = a[j]
         /\ \A j \in 1 .. Len(b) : (a \o b)[Len(a) + j] = b[j]
  OBVIOUS

\* erase closes the gap: what was behind position i moves up by one.
LEMMA EraseIs ==
  ASSUME NEW T, NEW s \in Seq(T), NEW i \in 1 .. Len(s)
  PROVE  /\ Erase(s, i) \in Seq(T)
         /\ Len(Erase(s, i)) = Len(s) - 1
         /\ \A j \in 1 .. Len(s) - 1 :
               Erase(s, i)[j] = IF j < i THEN s[j] ELSE s[j + 1]
<1>1. SubSeq(s, 1, i - 1) \in Seq(T) /\ Len(SubSeq(s, 1, i - 1)) = i - 1
  OBVIOUS
<1>2. SubSeq(s, i + 1, Len(s)) \in Seq(T) /\ Len(SubSeq(s, i + 1, Len(s))) = Len(s) - i
  OBVIOUS
<1>3. \A j \in 1 .. i - 1 : SubSeq(s, 1, i - 1)[j] = s[j]
  OBVIOUS
<1>4. \A j \in 1 .. Len(s) - i : SubSeq(s, i + 1, Len(s))[j] = s[i + j]
  OBVIOUS
<1> DEFINE a == SubSeq(s, 1, i - 1)
           b == SubSeq(s, i + 1, Len(s))
<1>5. Erase(s, i) = a \o b
  BY DEF Erase
<1> HIDE DEF a, b
<1>6. /\ a \o b \in Seq(T) /\ Len(a \o b) = (i - 1) + (Len(s) - i)
      /\ \A j \in 1 .. i - 1 : (a \o b)[j] = a[j]
      /\ \A j \in 1 .. Len(s) - i : (a \o b)[(i - 1) + j] = b[j]
  <2>1. a \in Seq(T) /\ b \in Seq(T) /\ Len(a) = i - 1 /\ Len(b) = Len(s) - i
    BY <1>1, <1>2 DEF a, b
  <2>2. /\ a \o b \in Seq(T)
        /\ Len(a \o b) = Len(a) + Len(b)
        /\ \A j \in 1 .. Len(a) : (a \o b)[j] = a[j]
        /\ \A j \in 1 .. Len(b) : (a \o b)[Len(a) + j] = b[j]
    <3>1. a \in Seq(T) /\ b \in Seq(T)
      BY <2>1
    <3> QED
      BY <3>1, ConcatIs
  <2> QED
    BY <2>1, <2>2, Zenon
<1>7. ASSUME NEW j \in 1 .. Len(s) - 1
      PROVE  (a \o b)[j] = IF j < i THEN s[j] ELSE s[j + 1]
  <2>1. CASE j < i
    <3>1. j \in 1 .. i - 1
      BY <2>1
    <3> QED
      BY <1>3, <1>6, <2>1, <3>1 DEF a
  <2>2. CASE j >= i
    <3>1. PICK m \in 1 .. Len(s) - i : m = j - (i - 1)
      BY <2>2
    <3>2. (i - 1) + m = j /\ i + m = j + 1
      BY <3>1
    <3>3. (a \o b)[(i - 1) + m] = b[m] /\ b[m] = s[i + m]
      BY <1>4, <1>6, Zenon DEF b
    <3>4. (a \o b)[j] = s[j + 1]
      BY <3>2, <3>3, Zenon
    <3> QED
      BY <2>2, <3>4
  <2>3. j < i \/ j >= i
    OBVIOUS
  <2> QED
    BY <2>1, <2>2, <2>3, Zenon
<1> QED
  BY <1>5, <1>6, <1>7

\* c is what is left of s without its element n, in the same order.
Rest(c, s, n) ==
  /\ Len(c) = Len(s) - 1
  /\ \A j \in 1 .. Len(c) : \E i \in 1 .. Len(s) : i # n /\ c[j] = s[i]
  /\ \A i \in 1 .. Len(s) : i # n => \E j \in 1 .. Len(c) : c[j] = s[i]
  /\ \A j, l \in 1 .. Len(c) : j < l =>
        \E i, m \in 1 .. Len(s) : i < m /\ i # n /\ m # n /\ c[j] = s[i] /\ c[l] = s[m]
  /\ \A i, m \in 1 .. Len(s) : i < m /\ i # n /\ m # n =>
        \E j, l \in 1 .. Len(c) : j < l /\ c[j] = s[i] /\ c[l] = s[m]

\* The same, as a relation between the sequence and what is left of it.
LEMMA Erased ==
  ASSUME NEW T, NEW s \in Seq(T), NEW n \in 1 .. Len(s), NEW c, c = Erase(s, n)
  PROVE  c \in Seq(T) /\ Rest(c, s, n)
<1>1. /\ c \in Seq(T) /\ Len(c) = Len(s) - 1
      /\ \A j \in 1 .. Len(s) - 1 : c[j] = IF j < n THEN s[j] ELSE s[j + 1]
  BY EraseIs, Zenon
<1>2. ASSUME NEW j \in 1 .. Len(c), NEW l \in 1 .. Len(c)
      PROVE  \E i, m \in 1 .. Len(s) :
               i # n /\ m # n /\ c[j] = s[i] /\ c[l] = s[m] /\ (j < l <=> i < m)
  <2> DEFINE at(x) == IF x < n THEN x ELSE x + 1
  <2>1. /\ at(j) \in 1 .. Len(s) /\ at(l) \in 1 .. Len(s) /\ at(j) # n /\ at(l) # n
        /\ (j < l <=> at(j) < at(l))
    BY <1>1
  <2>2. c[j] = s[at(j)] /\ c[l] = s[at(l)]
    BY <1>1
  <2> HIDE DEF at
  <2> QED
    BY <2>1, <2>2, Zenon
<1>3. ASSUME NEW i \in 1 .. Len(s), NEW m \in 1 .. Len(s), i # n, m # n
      PROVE  \E j, l \in 1 .. Len(c) : c[j] = s[i] /\ c[l] = s[m] /\ (j < l <=> i < m)
  <2> DEFINE at(x) == IF x < n THEN x ELSE x - 1
  <2>1. /\ at(i) \in 1 .. Len(c) /\ at(m) \in 1 .. Len(c)
        /\ (at(i) < at(m) <=> i < m)
    BY <1>1, <1>3
  <2>2. c[at(i)] = s[i] /\ c[at(m)] = s[m]
    BY <1>1, <1>3
  <2> HIDE DEF at
  <2> QED
    BY <2>1, <2>2, Zenon
<1>4. ASSUME NEW j \in 1 .. Len(c) PROVE \E i \in 1 .. Len(s) : i # n /\ c[j] = s[i]
  BY <1>2, Zenon
<1>5. ASSUME NEW i \in 1 .. Len(s), i # n PROVE \E j \in 1 .. Len(c) : c[j] = s[i]
  BY <1>3, <1>5, Zenon
<1>6. ASSUME NEW j \in 1 .. Len(c), NEW l \in 1 .. Len(c), j < l
      PROVE  \E i, m \in 1 .. Len(s) : i < m /\ i # n /\ m # n /\ c[j] = s[i] /\ c[l] = s[m]
  BY <1>2, <1>6, SMTT(20)
<1>7. ASSUME NEW i \in 1 .. Len(s), NEW m \in 1 .. Len(s), i < m, i # n, m # n
      PROVE  \E j, l \in 1 .. Len(c) : j < l /\ c[j] = s[i] /\ c[l] = s[m]
  BY <1>3, <1>7, SMTT(20)
<1> QED
  BY <1>1, <1>4, <1>5, <1>6, <1>7, Zenon DEF Rest

\* A sequence has finitely many elements.
LEMMA FiniteRange ==
  ASSUME NEW T, NEW s \in Seq(T)
  PROVE  IsFiniteSet(Range(s))
<1>1. s \in Surjection(1 .. Len(s), Range(s))
  BY DEF Surjection, Range
<1>2. IsFiniteSet(1 .. Len(s))
  BY FS_Interval
<1> QED
  BY <1>1, <1>2, FS_Surjection, Zenon

\* A listing of a finite set has each of its elements once.
LEMMA ListingIs ==
  ASSUME NEW S, IsFiniteSet(S)
  PROVE  /\ Listing(S) \in Seq(S)
         /\ Len(Listing(S)) = Cardinality(S)
         /\ \A i, j \in 1 .. Len(Listing(S)) : Listing(S)[i] = Listing(S)[j] => i = j
         /\ \A x \in S : \E i \in 1 .. Len(Listing(S)) : Listing(S)[i] = x
<1> USE Zenon
<1> DEFINE n == Cardinality(S)
<1>1. n \in Nat /\ ExistsBijection(1 .. n, S)
  BY FS_CardinalityType, SMT
<1>2. \E f \in [1 .. n -> S] : IsInjective(f)
  BY <1>1 DEF ExistsBijection, Bijection, Injection
<1>3. Listing(S) \in [1 .. n -> S] /\ IsInjective(Listing(S))
  BY <1>2 DEF Listing
<1>4. Listing(S) \in Injection(1 .. n, S)
  BY <1>3 DEF Injection
<1>5. Cardinality(1 .. n) = n
  BY <1>1, FS_Interval, SMT
<1>6. Listing(S) \in Surjection(1 .. n, S)
  BY <1>4, <1>5, FS_Injection
<1>7. \A x \in S : \E i \in 1 .. n : Listing(S)[i] = x
  BY <1>6 DEF Surjection
<1>8. Listing(S) \in Seq(S) /\ Len(Listing(S)) = n
  BY <1>1, <1>3, SMT
<1>9. \A i, j \in 1 .. n : Listing(S)[i] = Listing(S)[j] => i = j
  BY <1>3 DEF IsInjective
<1> QED
  BY <1>7, <1>8, <1>9

-----------------------------------------------------------------------------
(* A table as a map. *)

Entries == [value : Value, count : Nat, expiry : Nat]

KeyEntry == [key : Key, entry : Entries]

\* Each key is in the chain that a lookup searches, and once only.
Chained(t) ==
  /\ t.buckets \in Seq(Seq(KeyEntry))
  /\ Len(t.buckets) > 0
  /\ \A b \in 1 .. Len(t.buckets) : \A i \in 1 .. Len(t.buckets[b]) :
        BucketOf(t, t.buckets[b][i].key) = b
  /\ \A b \in 1 .. Len(t.buckets) : \A i, j \in 1 .. Len(t.buckets[b]) :
        t.buckets[b][i].key = t.buckets[b][j].key => i = j

InChain(chain, k, e) == \E i \in 1 .. Len(chain) : chain[i].key = k /\ chain[i].entry = e

\* Some chain holds e for k.
Has(t, k, e) == \E b \in 1 .. Len(t.buckets) : InChain(t.buckets[b], k, e)

Held(t) == {k \in Key : Found(t, k)}

View(t) == [k \in Held(t) |-> EntryOf(t, k)]

Maps == UNION {[K -> Entries] : K \in SUBSET Key}

\* The hash of a key selects a bucket that exists.
LEMMA BucketOfIs ==
  ASSUME NEW t, t.buckets \in Seq(Seq(KeyEntry)), Len(t.buckets) > 0, NEW k \in Key
  PROVE  BucketOf(t, k) \in 1 .. Len(t.buckets)
<1>1. Hash[k] \in Nat /\ Len(t.buckets) \in Nat \ {0}
  BY TableConstants
<1>2. Hash[k] % Len(t.buckets) \in 0 .. Len(t.buckets) - 1
  BY <1>1
<1> QED
  BY <1>1, <1>2 DEF BucketOf

\* Where a lookup of k finds it.
LEMMA Lookup ==
  ASSUME NEW t, Chained(t), NEW k \in Key
  PROVE  LET chain == t.buckets[BucketOf(t, k)]
         IN  /\ chain \in Seq(KeyEntry)
             /\ Found(t, k) => /\ First(chain, k) \in 1 .. Len(chain)
                               /\ chain[First(chain, k)].key = k
                               /\ chain[First(chain, k)].entry = EntryOf(t, k)
                               /\ EntryOf(t, k) \in Entries
                               /\ Has(t, k, EntryOf(t, k))
             /\ \A e : Has(t, k, e) => Found(t, k) /\ EntryOf(t, k) = e
<1> DEFINE chain == t.buckets[BucketOf(t, k)]
<1>1. BucketOf(t, k) \in 1 .. Len(t.buckets)
  BY BucketOfIs DEF Chained
<1>2. chain \in Seq(KeyEntry)
  BY <1>1 DEF Chained
<1>3. \A i, j \in 1 .. Len(chain) : chain[i].key = chain[j].key => i = j
  BY <1>1, Zenon DEF Chained
<1>4. ASSUME NEW i \in 1 .. Len(chain), chain[i].key = k
      PROVE  First(chain, k) = i
  <2>1. \A j \in 1 .. i - 1 : chain[j].key # k
    <3> HIDE DEF chain
    <3> QED
      BY <1>2, <1>3, <1>4
  <2>2. DOMAIN chain = 1 .. Len(chain)
    <3> HIDE DEF chain
    <3> QED
      BY <1>2
  <2>3. \A j \in DOMAIN chain : chain[j].key = k => j = i
    BY <1>3, <1>4, <2>2, Zenon
  <2> HIDE DEF chain
  <2> QED
    BY <1>4, <2>1, <2>2, <2>3 DEF First
<1>5. ASSUME Found(t, k)
      PROVE  /\ First(chain, k) \in 1 .. Len(chain)
             /\ chain[First(chain, k)].key = k
             /\ chain[First(chain, k)].entry = EntryOf(t, k)
  <2>1. PICK i \in DOMAIN chain : chain[i].key = k
    BY <1>5, Zenon DEF Found
  <2>2. i \in 1 .. Len(chain)
    <3> HIDE DEF chain
    <3> QED
      BY <1>2
  <2> QED
    BY <1>4, <2>1, <2>2, Zenon DEF EntryOf
<1>6. ASSUME Found(t, k) PROVE EntryOf(t, k) \in Entries
  <2> HIDE DEF chain
  <2>1. \A i \in 1 .. Len(chain) : chain[i] \in KeyEntry
    BY <1>2
  <2>2. \A kv \in KeyEntry : kv.entry \in Entries
    BY DEF KeyEntry
  <2> QED
    BY <1>5, <1>6, <2>1, <2>2, Zenon
<1>7. ASSUME Found(t, k) PROVE Has(t, k, EntryOf(t, k))
  BY <1>1, <1>5, <1>7, Zenon DEF Has, InChain
<1>8. ASSUME NEW e, Has(t, k, e) PROVE Found(t, k) /\ EntryOf(t, k) = e
  <2>1. PICK b \in 1 .. Len(t.buckets) : \E i \in 1 .. Len(t.buckets[b]) :
               t.buckets[b][i].key = k /\ t.buckets[b][i].entry = e
    BY <1>8, Zenon DEF Has, InChain
  <2>2. PICK i \in 1 .. Len(t.buckets[b]) :
               t.buckets[b][i].key = k /\ t.buckets[b][i].entry = e
    BY <2>1
  <2>3. b = BucketOf(t, k)
    BY <2>2, Zenon DEF Chained
  <2>4. First(chain, k) = i
    BY <1>4, <2>2, <2>3, Zenon
  <2>5. i \in DOMAIN chain
    <3>1. i \in 1 .. Len(chain)
      BY <2>2, <2>3
    <3> HIDE DEF chain
    <3> QED
      BY <1>2, <3>1
  <2> QED
    BY <2>2, <2>3, <2>4, <2>5, Zenon DEF Found, EntryOf
<1> QED
  BY <1>2, <1>5, <1>6, <1>7, <1>8, Zenon

\* View(t) is the map whose pairs are in the chains.
LEMMA ViewIs ==
  ASSUME NEW t, Chained(t)
  PROVE  /\ View(t) \in [Held(t) -> Entries] /\ Held(t) \subseteq Key
         /\ View(t) \in Maps /\ DOMAIN View(t) = Held(t)
         /\ \A k \in Key : \A e : Has(t, k, e) <=> k \in Held(t) /\ View(t)[k] = e
         /\ \A k \in Held(t) : View(t)[k] = EntryOf(t, k)
<1> USE Zenon
<1>1. \A k \in Held(t) : EntryOf(t, k) \in Entries
  BY Lookup DEF Held
<1>2. View(t) \in [Held(t) -> Entries]
  BY <1>1 DEF View
<1>3. Held(t) \subseteq Key /\ View(t) \in Maps
  BY <1>2 DEF Held, Maps
<1>4. \A k \in Held(t) : View(t)[k] = EntryOf(t, k)
  BY DEF View
<1>5. ASSUME NEW k \in Key, NEW e
      PROVE  Has(t, k, e) <=> k \in Held(t) /\ View(t)[k] = e
  <2>1. /\ Found(t, k) => Has(t, k, EntryOf(t, k))
        /\ Has(t, k, e) => Found(t, k) /\ EntryOf(t, k) = e
    BY Lookup
  <2>2. k \in Held(t) <=> Found(t, k)
    BY DEF Held
  <2> QED
    BY <1>4, <2>1, <2>2
<1>6. DOMAIN View(t) = Held(t)
  BY SMT DEF View
<1> QED
  BY <1>2, <1>3, <1>4, <1>5, <1>6

\* A table that finds e under k, and else what t finds, represents t's map with k stored.
LEMMA ViewStore ==
  ASSUME NEW t, NEW u, Chained(t), Chained(u), NEW k \in Key, NEW e,
         \A j \in Key : \A f : Has(u, j, f) <=> (j = k /\ f = e) \/ (j # k /\ Has(t, j, f))
  PROVE  View(u) = Store(View(t), k, e) /\ Held(u) = Held(t) \union {k}
<1> USE Zenon
<1> DEFINE m == View(t)
           w == View(u)
<1>1. /\ DOMAIN m = Held(t) /\ Held(t) \subseteq Key
      /\ \A j \in Key : \A f : Has(t, j, f) <=> j \in Held(t) /\ m[j] = f
  BY ViewIs
<1>2. /\ w \in [Held(u) -> Entries] /\ Held(u) \subseteq Key
      /\ \A j \in Key : \A f : Has(u, j, f) <=> j \in Held(u) /\ w[j] = f
  BY ViewIs
<1> HIDE DEF m, w
<1>3. \A j \in Key : j \in Held(u) <=> j = k \/ j \in Held(t)
  BY <1>1, <1>2
<1>4. Held(u) = Held(t) \union {k}
  BY <1>1, <1>2, <1>3
<1>5. \A j \in Held(u) : w[j] = IF j = k THEN e ELSE m[j]
  BY <1>1, <1>2, <1>3
<1>6. w = [j \in DOMAIN m \union {k} |-> IF j = k THEN e ELSE m[j]]
  BY <1>1, <1>2, <1>4, <1>5, SMT
<1> QED
  BY <1>4, <1>6 DEF Store, m, w

\* A table that finds nothing under k, and else what t finds, represents t's map without k.
LEMMA ViewDrop ==
  ASSUME NEW t, NEW u, Chained(t), Chained(u), NEW k \in Key,
         \A j \in Key : \A f : Has(u, j, f) <=> j # k /\ Has(t, j, f)
  PROVE  View(u) = Drop(View(t), k) /\ Held(u) = Held(t) \ {k}
<1> USE Zenon
<1> DEFINE m == View(t)
           w == View(u)
<1>1. /\ DOMAIN m = Held(t) /\ Held(t) \subseteq Key
      /\ \A j \in Key : \A f : Has(t, j, f) <=> j \in Held(t) /\ m[j] = f
  BY ViewIs
<1>2. /\ w \in [Held(u) -> Entries] /\ Held(u) \subseteq Key
      /\ \A j \in Key : \A f : Has(u, j, f) <=> j \in Held(u) /\ w[j] = f
  BY ViewIs
<1> HIDE DEF m, w
<1>3. \A j \in Key : j \in Held(u) <=> j # k /\ j \in Held(t)
  BY <1>1, <1>2
<1>4. Held(u) = Held(t) \ {k}
  BY <1>1, <1>2, <1>3
<1>5. \A j \in Held(u) : w[j] = m[j]
  BY <1>1, <1>2, <1>3
<1>6. w = [j \in DOMAIN m \ {k} |-> m[j]]
  BY <1>1, <1>2, <1>4, <1>5, SMT
<1> QED
  BY <1>4, <1>6 DEF Drop, m, w

\* Tables in which every lookup finds the same represent the same map.
LEMMA ViewSame ==
  ASSUME NEW t, NEW u, Chained(t), Chained(u),
         \A j \in Key : \A f : Has(u, j, f) <=> Has(t, j, f)
  PROVE  View(u) = View(t) /\ Held(u) = Held(t)
<1> USE Zenon
<1> DEFINE m == View(t)
           w == View(u)
<1>1. /\ m \in [Held(t) -> Entries] /\ Held(t) \subseteq Key
      /\ \A j \in Key : \A f : Has(t, j, f) <=> j \in Held(t) /\ m[j] = f
  BY ViewIs
<1>2. /\ w \in [Held(u) -> Entries] /\ Held(u) \subseteq Key
      /\ \A j \in Key : \A f : Has(u, j, f) <=> j \in Held(u) /\ w[j] = f
  BY ViewIs
<1> HIDE DEF m, w
<1>3. \A j \in Key : j \in Held(u) <=> j \in Held(t)
  BY <1>1, <1>2
<1>4. Held(u) = Held(t)
  BY <1>1, <1>2, <1>3
<1>5. \A j \in Held(u) : w[j] = m[j]
  BY <1>1, <1>2, <1>3
<1>6. w = m
  BY <1>1, <1>2, <1>4, <1>5, SMT
<1> QED
  BY <1>4, <1>6 DEF m, w

\* A table with one chain replaced.
LEMMA ChangeChain ==
  ASSUME NEW t, NEW u, Chained(t), NEW b \in 1 .. Len(t.buckets), NEW c \in Seq(KeyEntry),
         u.buckets = [t.buckets EXCEPT ![b] = c],
         \A i \in 1 .. Len(c) : BucketOf(t, c[i].key) = b,
         \A i, j \in 1 .. Len(c) : c[i].key = c[j].key => i = j
  PROVE  /\ Chained(u)
         /\ \A k \in Key : \A e : Has(u, k, e) <=> IF BucketOf(t, k) = b THEN InChain(c, k, e)
                                               ELSE Has(t, k, e)
<1> USE Zenon
<1>1. /\ t.buckets \in Seq(Seq(KeyEntry)) /\ Len(t.buckets) > 0
      /\ \A a \in 1 .. Len(t.buckets) : \A i \in 1 .. Len(t.buckets[a]) :
            BucketOf(t, t.buckets[a][i].key) = a
      /\ \A a \in 1 .. Len(t.buckets) : \A i, j \in 1 .. Len(t.buckets[a]) :
            t.buckets[a][i].key = t.buckets[a][j].key => i = j
  BY DEF Chained
<1>2. /\ u.buckets \in Seq(Seq(KeyEntry)) /\ Len(u.buckets) = Len(t.buckets)
      /\ u.buckets[b] = c
      /\ \A a \in 1 .. Len(t.buckets) : a # b => u.buckets[a] = t.buckets[a]
  BY <1>1, SMT
<1>3. \A k : BucketOf(u, k) = BucketOf(t, k)
  BY <1>2 DEF BucketOf
<1>4. ASSUME NEW a \in 1 .. Len(u.buckets), NEW i \in 1 .. Len(u.buckets[a])
      PROVE  BucketOf(u, u.buckets[a][i].key) = a
  <2>1. CASE a = b
    BY <1>2, <1>3, <1>4, <2>1
  <2>2. CASE a # b
    <3>1. a \in 1 .. Len(t.buckets) /\ u.buckets[a] = t.buckets[a]
      BY <1>2, <2>2
    <3>2. BucketOf(t, t.buckets[a][i].key) = a
      BY <1>1, <3>1
    <3> QED
      BY <1>3, <3>1, <3>2
  <2> QED
    BY <2>1, <2>2
<1>5. ASSUME NEW a \in 1 .. Len(u.buckets), NEW i \in 1 .. Len(u.buckets[a]),
             NEW j \in 1 .. Len(u.buckets[a]), u.buckets[a][i].key = u.buckets[a][j].key
      PROVE  i = j
  <2>1. CASE a = b
    BY <1>2, <1>5, <2>1
  <2>2. CASE a # b
    <3>1. a \in 1 .. Len(t.buckets) /\ u.buckets[a] = t.buckets[a]
      BY <1>2, <2>2
    <3> QED
      BY <1>1, <1>5, <3>1
  <2> QED
    BY <2>1, <2>2
<1>6. Len(u.buckets) > 0
  BY <1>1, <1>2
<1>7. Chained(u)
  BY <1>2, <1>4, <1>5, <1>6 DEF Chained
<1>8. ASSUME NEW k \in Key, NEW e, BucketOf(t, k) = b
      PROVE  Has(u, k, e) <=> InChain(c, k, e)
  <2>1. ASSUME NEW a \in 1 .. Len(u.buckets), InChain(u.buckets[a], k, e) PROVE a = b
    <3>1. PICK i \in 1 .. Len(u.buckets[a]) : u.buckets[a][i].key = k
      BY <2>1 DEF InChain
    <3>2. BucketOf(u, k) = a
      BY <1>4, <3>1
    <3> QED
      BY <1>3, <1>8, <3>2
  <2>2. b \in 1 .. Len(u.buckets)
    BY <1>2, SMT
  <2> QED
    BY <1>2, <2>1, <2>2 DEF Has
<1>9. ASSUME NEW k \in Key, NEW e, BucketOf(t, k) # b
      PROVE  Has(u, k, e) <=> Has(t, k, e)
  <2>1. \A a \in 1 .. Len(u.buckets) : InChain(u.buckets[a], k, e) => a # b
    BY <1>3, <1>4, <1>9 DEF InChain
  <2>2. \A a \in 1 .. Len(t.buckets) : InChain(t.buckets[a], k, e) => a # b
    BY <1>1, <1>9 DEF InChain
  <2> QED
    BY <1>2, <2>1, <2>2 DEF Has
<1> QED
  BY <1>7, <1>8, <1>9

\* A lookup inspects the chain of the key's bucket and no other.
LEMMA HasInChain ==
  ASSUME NEW t, Chained(t), NEW k \in Key, NEW e
  PROVE  Has(t, k, e) <=> InChain(t.buckets[BucketOf(t, k)], k, e)
<1> USE Zenon
<1>1. BucketOf(t, k) \in 1 .. Len(t.buckets)
  BY BucketOfIs DEF Chained
<1>2. ASSUME NEW b \in 1 .. Len(t.buckets), InChain(t.buckets[b], k, e) PROVE b = BucketOf(t, k)
  BY <1>2 DEF InChain, Chained
<1> QED
  BY <1>1, <1>2 DEF Has

\* What update in place, append and erase do to the buckets.
LEMMA SetInChain ==
  ASSUME NEW t, NEW u, Chained(t), NEW k \in Key, Found(t, k), NEW e \in Entries,
         u.buckets = [t.buckets EXCEPT ![BucketOf(t, k)] =
                        [@ EXCEPT ![First(@, k)] = [key |-> k, entry |-> e]]]
  PROVE  Chained(u) /\ View(u) = Store(View(t), k, e) /\ Held(u) = Held(t)
<1> USE Zenon
<1> DEFINE b == BucketOf(t, k)
           chain == t.buckets[b]
           n == First(chain, k)
           c == [chain EXCEPT ![n] = [key |-> k, entry |-> e]]
<1>1. b \in 1 .. Len(t.buckets)
  BY BucketOfIs DEF Chained
<1>2. chain \in Seq(KeyEntry) /\ n \in 1 .. Len(chain) /\ chain[n].key = k
  BY Lookup
<1>3. u.buckets = [t.buckets EXCEPT ![b] = c]
  BY SMT
<1>4. /\ \A i \in 1 .. Len(chain) : BucketOf(t, chain[i].key) = b
      /\ \A i, j \in 1 .. Len(chain) : chain[i].key = chain[j].key => i = j
  BY <1>1 DEF Chained
<1>5. \A j \in Key : BucketOf(t, j) = b => \A f : Has(t, j, f) <=> InChain(chain, j, f)
  BY HasInChain
<1>6. k \in Held(t)
  BY DEF Held
<1>7. BucketOf(t, k) = b
  BY SMT
<1> HIDE DEF b, chain, n
<1>8. [key |-> k, entry |-> e] \in KeyEntry
  BY DEF KeyEntry
<1>9. /\ c \in Seq(KeyEntry) /\ Len(c) = Len(chain)
      /\ \A i \in 1 .. Len(chain) : c[i] = IF i = n THEN [key |-> k, entry |-> e] ELSE chain[i]
  BY <1>2, <1>8, SMT
<1> HIDE DEF c
<1>10. \A i \in 1 .. Len(c) : c[i].key = chain[i].key
  BY <1>2, <1>9, SMT
<1>11. /\ \A i \in 1 .. Len(c) : BucketOf(t, c[i].key) = b
       /\ \A i, j \in 1 .. Len(c) : c[i].key = c[j].key => i = j
  BY <1>4, <1>9, <1>10
<1>12. /\ Chained(u)
       /\ \A j \in Key : \A f : Has(u, j, f) <=> IF BucketOf(t, j) = b THEN InChain(c, j, f)
                                                 ELSE Has(t, j, f)
  BY <1>1, <1>3, <1>9, <1>11, ChangeChain
<1>13. ASSUME NEW f PROVE InChain(c, k, f) <=> f = e
  <2>1. c[n].key = k /\ c[n].entry = e /\ n \in 1 .. Len(c)
    BY <1>2, <1>9, SMT
  <2>2. \A i \in 1 .. Len(c) : c[i].key = k => i = n
    BY <1>11, <2>1
  <2> QED
    BY <2>1, <2>2 DEF InChain
<1>14. ASSUME NEW j, j # k, NEW f PROVE InChain(c, j, f) <=> InChain(chain, j, f)
  <2>1. \A i \in 1 .. Len(c) : i # n => c[i] = chain[i]
    BY <1>9, SMT
  <2>2. c[n].key # j /\ chain[n].key # j
    BY <1>2, <1>9, <1>10, <1>14
  <2> QED
    BY <1>9, <2>1, <2>2 DEF InChain
<1>15. ASSUME NEW j \in Key, NEW f
       PROVE  Has(u, j, f) <=> (j = k /\ f = e) \/ (j # k /\ Has(t, j, f))
  <2>1. Has(u, j, f) <=> IF BucketOf(t, j) = b THEN InChain(c, j, f) ELSE Has(t, j, f)
    BY <1>12
  <2>2. CASE j = k
    BY <1>7, <1>13, <2>1, <2>2
  <2>3. CASE j # k
    <3>1. InChain(c, j, f) <=> InChain(chain, j, f)
      BY <1>14, <2>3
    <3>2. BucketOf(t, j) = b => (Has(t, j, f) <=> InChain(chain, j, f))
      BY <1>5
    <3> QED
      BY <2>1, <2>3, <3>1, <3>2
  <2> QED
    BY <2>2, <2>3
<1>16. View(u) = Store(View(t), k, e) /\ Held(u) = Held(t) \union {k}
  BY <1>12, <1>15, ViewStore, SMT
<1> QED
  BY <1>6, <1>12, <1>16

Appended(u, t, k, e) ==
  u.buckets = [t.buckets EXCEPT ![BucketOf(t, k)] = Append(@, [key |-> k, entry |-> e])]

\* emplace_back of a key that was not found stores it.
LEMMA AppendToChain ==
  ASSUME NEW t, NEW u, Chained(t), NEW k \in Key, ~Found(t, k), NEW e \in Entries,
         Appended(u, t, k, e)
  PROVE  Chained(u) /\ View(u) = Store(View(t), k, e) /\ Held(u) = Held(t) \union {k}
<1> USE Zenon
<1> DEFINE b == BucketOf(t, k)
           chain == t.buckets[b]
           n == Len(chain) + 1
           c == Append(chain, [key |-> k, entry |-> e])
<1>1. b \in 1 .. Len(t.buckets)
  BY BucketOfIs DEF Chained
<1>2. chain \in Seq(KeyEntry)
  BY Lookup
<1>3. u.buckets = [t.buckets EXCEPT ![b] = c]
  BY SMT DEF Appended
<1>4. /\ \A i \in 1 .. Len(chain) : BucketOf(t, chain[i].key) = b
      /\ \A i, j \in 1 .. Len(chain) : chain[i].key = chain[j].key => i = j
  BY <1>1 DEF Chained
<1>5. \A j \in Key : BucketOf(t, j) = b => \A f : Has(t, j, f) <=> InChain(chain, j, f)
  BY HasInChain
<1>6. \A i \in DOMAIN chain : chain[i].key # k
  BY DEF Found
<1>7. BucketOf(t, k) = b
  BY SMT
<1> HIDE DEF b, chain
<1>8. [key |-> k, entry |-> e] \in KeyEntry
  BY DEF KeyEntry
<1>9. /\ c \in Seq(KeyEntry) /\ Len(c) = n /\ c[n] = [key |-> k, entry |-> e]
      /\ \A i \in 1 .. Len(chain) : c[i] = chain[i]
  BY <1>2, <1>8, SMT
<1>10. \A i \in 1 .. Len(chain) : chain[i].key # k
  BY <1>2, <1>6, SMT
<1>11. \A i \in 1 .. n : i = n \/ i \in 1 .. Len(chain)
  BY <1>2, SMT
<1>12. n \in 1 .. n /\ c[n].key = k /\ c[n].entry = e /\ \A i \in 1 .. Len(chain) : i \in 1 .. n
  BY <1>2, <1>9, SMT
<1> HIDE DEF c, n
<1>13. ASSUME NEW i \in 1 .. Len(c) PROVE BucketOf(t, c[i].key) = b
  BY <1>4, <1>7, <1>9, <1>11, <1>12
<1>14. ASSUME NEW i \in 1 .. Len(c), NEW j \in 1 .. Len(c), c[i].key = c[j].key PROVE i = j
  <2>1. CASE i = n
    BY <1>9, <1>10, <1>11, <1>12, <1>14, <2>1
  <2>2. CASE j = n
    BY <1>9, <1>10, <1>11, <1>12, <1>14, <2>2
  <2>3. CASE i # n /\ j # n
    <3>1. i \in 1 .. Len(chain) /\ j \in 1 .. Len(chain)
      BY <1>9, <1>11, <2>3
    <3>2. chain[i].key = chain[j].key
      BY <1>9, <1>14, <3>1
    <3> QED
      BY <1>4, <3>1, <3>2
  <2> QED
    BY <2>1, <2>2, <2>3
<1>15. /\ Chained(u)
       /\ \A j \in Key : \A f : Has(u, j, f) <=> IF BucketOf(t, j) = b THEN InChain(c, j, f)
                                                 ELSE Has(t, j, f)
  BY <1>1, <1>3, <1>9, <1>13, <1>14, ChangeChain
<1>16. ASSUME NEW f PROVE InChain(c, k, f) <=> f = e
  <2>1. \A i \in 1 .. Len(c) : c[i].key = k => i = n
    BY <1>9, <1>12, <1>14
  <2> QED
    BY <1>9, <1>12, <2>1 DEF InChain
<1>17. ASSUME NEW j, j # k, NEW f PROVE InChain(c, j, f) <=> InChain(chain, j, f)
  <2>1. ASSUME NEW i \in 1 .. Len(c), c[i].key = j PROVE i \in 1 .. Len(chain) /\ c[i] = chain[i]
    BY <1>9, <1>11, <1>12, <1>17, <2>1
  <2>2. ASSUME NEW i \in 1 .. Len(chain) PROVE i \in 1 .. Len(c) /\ c[i] = chain[i]
    BY <1>9, <1>12
  <2> QED
    BY <2>1, <2>2 DEF InChain
<1>18. ASSUME NEW j \in Key, NEW f
       PROVE  Has(u, j, f) <=> (j = k /\ f = e) \/ (j # k /\ Has(t, j, f))
  <2>1. Has(u, j, f) <=> IF BucketOf(t, j) = b THEN InChain(c, j, f) ELSE Has(t, j, f)
    BY <1>15
  <2>2. CASE j = k
    BY <1>7, <1>16, <2>1, <2>2
  <2>3. CASE j # k
    <3>1. InChain(c, j, f) <=> InChain(chain, j, f)
      BY <1>17, <2>3
    <3>2. BucketOf(t, j) = b => (Has(t, j, f) <=> InChain(chain, j, f))
      BY <1>5
    <3> QED
      BY <2>1, <2>3, <3>1, <3>2
  <2> QED
    BY <2>2, <2>3
<1> QED
  BY <1>15, <1>18, ViewStore, SMT

\* Erasing the entry that was found drops its key.
LEMMA EraseFromChain ==
  ASSUME NEW t, NEW u, Chained(t), NEW k \in Key, Found(t, k),
         u.buckets = [t.buckets EXCEPT ![BucketOf(t, k)] = Erase(@, First(@, k))]
  PROVE  Chained(u) /\ View(u) = Drop(View(t), k) /\ Held(u) = Held(t) \ {k}
<1> USE Zenon
<1> DEFINE b == BucketOf(t, k)
           chain == t.buckets[b]
           n == First(chain, k)
           c == Erase(chain, n)
<1>1. b \in 1 .. Len(t.buckets)
  BY BucketOfIs DEF Chained
<1>2. chain \in Seq(KeyEntry) /\ n \in 1 .. Len(chain) /\ chain[n].key = k
  BY Lookup
<1>3. u.buckets = [t.buckets EXCEPT ![b] = c]
  BY SMT
<1>4. /\ \A i \in 1 .. Len(chain) : BucketOf(t, chain[i].key) = b
      /\ \A i, j \in 1 .. Len(chain) : chain[i].key = chain[j].key => i = j
  BY <1>1 DEF Chained
<1>5. \A j \in Key : BucketOf(t, j) = b => \A f : Has(t, j, f) <=> InChain(chain, j, f)
  BY HasInChain
<1>6. BucketOf(t, k) = b
  BY SMT
<1> HIDE DEF b, chain, n
<1>7. c \in Seq(KeyEntry) /\ Rest(c, chain, n)
  BY <1>2, Erased
<1> HIDE DEF c
<1>8. ASSUME NEW j \in 1 .. Len(c) PROVE \E i \in 1 .. Len(chain) : i # n /\ c[j] = chain[i]
  BY <1>7 DEF Rest
<1>9. ASSUME NEW i \in 1 .. Len(chain), i # n PROVE \E j \in 1 .. Len(c) : c[j] = chain[i]
  BY <1>7, <1>9, SMTT(20) DEF Rest
<1>10. ASSUME NEW j \in 1 .. Len(c) PROVE BucketOf(t, c[j].key) = b
  BY <1>4, <1>8, SMTT(20)
<1>11. ASSUME NEW j \in 1 .. Len(c), NEW l \in 1 .. Len(c), c[j].key = c[l].key PROVE j = l
  <2>1. ASSUME NEW x \in 1 .. Len(c), NEW y \in 1 .. Len(c), x < y, c[x].key = c[y].key
        PROVE  FALSE
    <3>1. PICK i, m \in 1 .. Len(chain) : i < m /\ c[x] = chain[i] /\ c[y] = chain[m]
      <4>1. \A j1, l1 \in 1 .. Len(c) : j1 < l1 =>
              \E i, m \in 1 .. Len(chain) : i < m /\ i # n /\ m # n /\ c[j1] = chain[i] /\ c[l1] = chain[m]
        BY <1>7 DEF Rest
      <4> QED
        BY <2>1, <4>1, SMTT(20)
    <3>2. i = m
      BY <1>4, <2>1, <3>1
    <3> QED
      BY <3>1, <3>2, SMT
  <2>2. ~(j < l) /\ ~(l < j)
    BY <1>11, <2>1
  <2> QED
    BY <1>7, <2>2, SMT
<1>12. /\ Chained(u)
       /\ \A j \in Key : \A f : Has(u, j, f) <=> IF BucketOf(t, j) = b THEN InChain(c, j, f)
                                                 ELSE Has(t, j, f)
  BY <1>1, <1>3, <1>7, <1>10, <1>11, ChangeChain
<1>13. ASSUME NEW f PROVE ~InChain(c, k, f)
  <2>1. \A i \in 1 .. Len(chain) : i # n => chain[i].key # k
    BY <1>2, <1>4
  <2> QED
    BY <1>8, <2>1 DEF InChain
<1>14. ASSUME NEW j, j # k, NEW f PROVE InChain(c, j, f) <=> InChain(chain, j, f)
  <2>1. ASSUME InChain(c, j, f) PROVE InChain(chain, j, f)
    BY <1>8, <2>1 DEF InChain
  <2>2. ASSUME InChain(chain, j, f) PROVE InChain(c, j, f)
    BY <1>2, <1>9, <1>14, <2>2, SMTT(20) DEF InChain
  <2> QED
    BY <2>1, <2>2
<1>15. ASSUME NEW j \in Key, NEW f PROVE Has(u, j, f) <=> j # k /\ Has(t, j, f)
  <2>1. Has(u, j, f) <=> IF BucketOf(t, j) = b THEN InChain(c, j, f) ELSE Has(t, j, f)
    BY <1>12
  <2>2. CASE j = k
    BY <1>6, <1>13, <2>1, <2>2
  <2>3. CASE j # k
    <3>1. InChain(c, j, f) <=> InChain(chain, j, f)
      BY <1>14, <2>3
    <3>2. BucketOf(t, j) = b => (Has(t, j, f) <=> InChain(chain, j, f))
      BY <1>5
    <3> QED
      BY <2>1, <2>3, <3>1, <3>2
  <2> QED
    BY <2>2, <2>3
<1> QED
  BY <1>12, <1>15, ViewDrop, SMT

\* The pairs of a table, as a finite set.
LEMMA PairsAre ==
  ASSUME NEW t, Chained(t)
  PROVE  /\ IsFiniteSet(Pairs(t))
         /\ Pairs(t) \subseteq KeyEntry
         /\ \A kv \in KeyEntry : kv \in Pairs(t) <=> Has(t, kv.key, kv.entry)
<1> USE Zenon
<1> DEFINE N == 1 .. Len(t.buckets)
           sets == {Range(t.buckets[b]) : b \in N}
<1>1. t.buckets \in Seq(Seq(KeyEntry)) /\ DOMAIN t.buckets = N
  BY SMT DEF Chained
<1>2. Pairs(t) = UNION sets
  BY <1>1 DEF Pairs
<1>3. ASSUME NEW b \in N
      PROVE  /\ t.buckets[b] \in Seq(KeyEntry)
             /\ DOMAIN t.buckets[b] = 1 .. Len(t.buckets[b])
             /\ \A i \in 1 .. Len(t.buckets[b]) : t.buckets[b][i] \in KeyEntry
  <2>1. t.buckets[b] \in Seq(KeyEntry)
    BY <1>1, SMT
  <2> QED
    BY <2>1, SMT
<1>4. \A S \in sets : IsFiniteSet(S)
  BY <1>3, FiniteRange
<1>5. IsFiniteSet(sets)
  <2> DEFINE f == [b \in N |-> Range(t.buckets[b])]
  <2>1. f \in [N -> sets] /\ \A S \in sets : \E b \in N : f[b] = S
    OBVIOUS
  <2>2. IsFiniteSet(N)
    <3>1. Len(t.buckets) \in Int /\ 1 \in Int
      BY <1>1, SMT
    <3> QED
      BY <3>1, FS_Interval
  <2> HIDE DEF f, sets
  <2>3. f \in Surjection(N, sets)
    BY <2>1 DEF Surjection
  <2> QED
    BY <2>2, <2>3, FS_Surjection
<1>6. IsFiniteSet(Pairs(t))
  BY <1>2, <1>4, <1>5, FS_UNION
<1>7. ASSUME NEW kv
      PROVE  kv \in Pairs(t) <=> \E b \in N : \E i \in 1 .. Len(t.buckets[b]) : kv = t.buckets[b][i]
  <2>1. kv \in Pairs(t) <=> \E b \in N : kv \in Range(t.buckets[b])
    BY <1>2
  <2>2. \A b \in N :
          kv \in Range(t.buckets[b]) <=> \E i \in 1 .. Len(t.buckets[b]) : kv = t.buckets[b][i]
    BY <1>3 DEF Range
  <2> QED
    BY <2>1, <2>2
<1>8. Pairs(t) \subseteq KeyEntry
  BY <1>3, <1>7, SMTT(20)
<1>9. \A x, y \in KeyEntry : x.key = y.key /\ x.entry = y.entry => x = y
  BY SMT DEF KeyEntry
<1>10. ASSUME NEW kv \in KeyEntry PROVE kv \in Pairs(t) <=> Has(t, kv.key, kv.entry)
  <2>1. ASSUME kv \in Pairs(t) PROVE Has(t, kv.key, kv.entry)
    BY <1>7, <2>1 DEF Has, InChain
  <2>2. ASSUME Has(t, kv.key, kv.entry) PROVE kv \in Pairs(t)
    <3>1. PICK b \in N : \E i \in 1 .. Len(t.buckets[b]) :
             t.buckets[b][i].key = kv.key /\ t.buckets[b][i].entry = kv.entry
      BY <2>2 DEF Has, InChain
    <3>2. PICK i \in 1 .. Len(t.buckets[b]) :
             t.buckets[b][i].key = kv.key /\ t.buckets[b][i].entry = kv.entry
      BY <3>1, SMT
    <3>3. t.buckets[b][i] = kv
      BY <1>3, <1>9, <3>2
    <3> QED
      BY <1>7, <3>3
  <2> QED
    BY <2>1, <2>2
<1> QED
  BY <1>6, <1>8, <1>10

\* n chains that hold the pairs of t, each where its hash puts it.
Rehashed(t, w, n) ==
  /\ w \in Seq(Seq(KeyEntry)) /\ Len(w) = n
  /\ \A b \in 1 .. n : \A i \in 1 .. Len(w[b]) :
        w[b][i] \in Pairs(t) /\ (Hash[w[b][i].key] % n) + 1 = b
  /\ \A b \in 1 .. n : \A i, j \in 1 .. Len(w[b]) : w[b][i] = w[b][j] => i = j
  /\ \A kv \in Pairs(t) : \A b \in 1 .. n :
        (Hash[kv.key] % n) + 1 = b => \E i \in 1 .. Len(w[b]) : w[b][i] = kv

\* Moving every entry to the bucket of its hash modulo n leaves the map as it was.
LEMMA Spread ==
  ASSUME NEW t, NEW u, Chained(t), NEW n \in Nat \ {0}, Rehashed(t, u.buckets, n)
  PROVE  Chained(u) /\ View(u) = View(t) /\ Held(u) = Held(t)
<1> USE Zenon
<1> USE DEF Rehashed
<1>1. /\ Pairs(t) \subseteq KeyEntry
      /\ \A kv \in KeyEntry : kv \in Pairs(t) <=> Has(t, kv.key, kv.entry)
  BY PairsAre
<1>2. ASSUME NEW b \in 1 .. n, NEW i \in 1 .. Len(u.buckets[b])
      PROVE  BucketOf(u, u.buckets[b][i].key) = b
  BY DEF BucketOf
<1>3. ASSUME NEW b \in 1 .. n, NEW i \in 1 .. Len(u.buckets[b]),
             NEW j \in 1 .. Len(u.buckets[b]), u.buckets[b][i].key = u.buckets[b][j].key
      PROVE  i = j
  <2>1. PICK x \in Pairs(t) : x = u.buckets[b][i]
    OBVIOUS
  <2>2. PICK y \in Pairs(t) : y = u.buckets[b][j]
    OBVIOUS
  <2>3. x \in KeyEntry /\ y \in KeyEntry
    BY <1>1
  <2>4. x.key = y.key
    BY <1>3, <2>1, <2>2
  <2>5. x.key \in Key
    BY <2>3, SMT DEF KeyEntry
  <2>6. Has(t, x.key, x.entry) /\ Has(t, x.key, y.entry)
    BY <1>1, <2>3, <2>4
  <2>7. x.entry = y.entry
    BY <2>5, <2>6, Lookup, SMTT(20)
  <2>8. x = y
    BY <2>3, <2>4, <2>7, SMT DEF KeyEntry
  <2> QED
    BY <2>1, <2>2, <2>8
<1>4. Chained(u)
  BY <1>2, <1>3, SMTT(20) DEF Chained
<1>5. ASSUME NEW k \in Key, NEW e, Has(u, k, e) PROVE Has(t, k, e)
  <2>1. PICK b \in 1 .. n : InChain(u.buckets[b], k, e)
    BY <1>5 DEF Has
  <2>2. PICK i \in 1 .. Len(u.buckets[b]) : u.buckets[b][i].key = k /\ u.buckets[b][i].entry = e
    BY <2>1 DEF InChain
  <2> QED
    BY <1>1, <2>2
<1>6. ASSUME NEW k \in Key, NEW e, Has(t, k, e) PROVE Has(u, k, e)
  <2>1. e \in Entries
    BY <1>6, Lookup, SMTT(20)
  <2>2. PICK kv \in KeyEntry : kv.key = k /\ kv.entry = e
    <3>1. [key |-> k, entry |-> e] \in KeyEntry
      BY <2>1, SMT DEF KeyEntry
    <3> QED
      BY <3>1, SMT
  <2>3. kv \in Pairs(t)
    BY <1>1, <1>6, <2>2
  <2>4. PICK b \in 1 .. n : (Hash[k] % n) + 1 = b
    <3>1. Hash[k] \in Nat
      BY TableConstants, SMT
    <3> QED
      BY <3>1, SMT
  <2>5. PICK i \in 1 .. Len(u.buckets[b]) : u.buckets[b][i] = kv
    <3>1. (Hash[kv.key] % n) + 1 = b
      BY <2>2, <2>4
    <3> QED
      BY <2>3, <3>1, SMTT(20)
  <2> QED
    BY <2>2, <2>5 DEF Has, InChain
<1> QED
  BY <1>4, <1>5, <1>6, ViewSame, SMT

\* A function on 1 .. n is a sequence.
LEMMA FunctionSeq ==
  ASSUME NEW T, NEW n \in Nat, NEW f \in [1 .. n -> T]
  PROVE  f \in Seq(T) /\ Len(f) = n
  OBVIOUS

\* Rehashing keeps the map.
LEMMA RehashChains ==
  ASSUME NEW t, NEW u, Chained(t), NEW n \in Nat \ {0},
         u.buckets = [b \in 1 .. n |->
                         Listing({kv \in Pairs(t) : (Hash[kv.key] % n) + 1 = b})]
  PROVE  Chained(u) /\ View(u) = View(t) /\ Held(u) = Held(t)
<1> USE Zenon
<1> DEFINE S(b) == {kv \in Pairs(t) : (Hash[kv.key] % n) + 1 = b}
           w == u.buckets
<1>1. IsFiniteSet(Pairs(t)) /\ Pairs(t) \subseteq KeyEntry
  BY PairsAre
<1>2. \A b \in 1 .. n : w[b] = Listing(S(b))
  OBVIOUS
<1>3. ASSUME NEW b \in 1 .. n PROVE S(b) \subseteq KeyEntry /\ IsFiniteSet(S(b))
  <2>1. S(b) \in SUBSET Pairs(t)
    BY SMT
  <2> HIDE DEF S
  <2> QED
    BY <1>1, <2>1, FS_Subset
<1>4. \A b \in 1 .. n : \A x : x \in S(b) <=> x \in Pairs(t) /\ (Hash[x.key] % n) + 1 = b
  OBVIOUS
<1>5. w = [b \in 1 .. n |-> w[b]]
  OBVIOUS
<1> HIDE DEF S, w
<1>6. ASSUME NEW b \in 1 .. n
      PROVE  /\ w[b] \in Seq(S(b))
             /\ \A i, j \in 1 .. Len(w[b]) : w[b][i] = w[b][j] => i = j
             /\ \A x \in S(b) : \E i \in 1 .. Len(w[b]) : w[b][i] = x
  <2>1. IsFiniteSet(S(b)) /\ w[b] = Listing(S(b))
    BY <1>2, <1>3
  <2>2. /\ Listing(S(b)) \in Seq(S(b))
        /\ \A i, j \in 1 .. Len(Listing(S(b))) : Listing(S(b))[i] = Listing(S(b))[j] => i = j
        /\ \A x \in S(b) : \E i \in 1 .. Len(Listing(S(b))) : Listing(S(b))[i] = x
    BY <2>1, ListingIs
  <2> QED
    BY <2>1, <2>2
<1>7. ASSUME NEW b \in 1 .. n
      PROVE  w[b] \in Seq(KeyEntry) /\ \A i \in 1 .. Len(w[b]) : w[b][i] \in S(b)
  <2>1. w[b] \in Seq(S(b)) /\ S(b) \subseteq KeyEntry
    BY <1>3, <1>6
  <2> QED
    BY <2>1, SMT
<1>8. w \in [1 .. n -> Seq(KeyEntry)]
  BY <1>5, <1>7, SMT
<1>9. n \in Nat
  BY SMT
<1>10. w \in Seq(Seq(KeyEntry)) /\ Len(w) = n
  BY <1>8, <1>9, FunctionSeq
<1>11. \A b \in 1 .. n : \A i \in 1 .. Len(w[b]) :
          w[b][i] \in Pairs(t) /\ (Hash[w[b][i].key] % n) + 1 = b
  BY <1>4, <1>7
<1>12. \A b \in 1 .. n : \A i, j \in 1 .. Len(w[b]) : w[b][i] = w[b][j] => i = j
  BY <1>6
<1>13. \A kv \in Pairs(t) : \A b \in 1 .. n : (Hash[kv.key] % n) + 1 = b =>
          \E i \in 1 .. Len(w[b]) : w[b][i] = kv
  BY <1>4, <1>6
<1>14. Rehashed(t, w, n)
  BY <1>10, <1>11, <1>12, <1>13 DEF Rehashed
<1>15. u.buckets = w
  BY SMT DEF w
<1> QED
  BY <1>14, <1>15, Spread

-----------------------------------------------------------------------------
(* The access list of LRU. *)

NoDup(list) == \A i, j \in 1 .. Len(list) : list[i] = list[j] => i = j

In(list, k) == \E i \in 1 .. Len(list) : list[i] = k

\* Key i is further back in the list than key j.
Behind(list, i, j) ==
  \E x, y \in 1 .. Len(list) : y < x /\ list[x] = i /\ list[y] = j

\* The elements of a sequence are what is at its positions.
LEMMA RangeIs ==
  ASSUME NEW T, NEW s \in Seq(T)
  PROVE  \A x : x \in Range(s) <=> In(s, x)
<1>1. DOMAIN s = 1 .. Len(s)
  OBVIOUS
<1> QED
  BY <1>1, Zenon DEF Range, In

\* Without the position of k, a list of distinct keys has the others in their order.
LEMMA RestOfKeys ==
  ASSUME NEW list \in Seq(Key), NoDup(list), NEW n \in 1 .. Len(list), NEW k, list[n] = k,
         NEW c \in Seq(Key), Rest(c, list, n)
  PROVE  /\ NoDup(c)
         /\ \A j : In(c, j) <=> j # k /\ In(list, j)
         /\ \A i, j : i # k /\ j # k => (Behind(c, i, j) <=> Behind(list, i, j))
<1> USE Zenon
<1>1. \A j \in 1 .. Len(c) : \E i \in 1 .. Len(list) : i # n /\ c[j] = list[i]
  BY DEF Rest
<1>2. \A i \in 1 .. Len(list) : i # n => \E j \in 1 .. Len(c) : c[j] = list[i]
  BY DEF Rest
<1>3. \A x, y \in 1 .. Len(c) : x < y =>
        \E i, m \in 1 .. Len(list) : i < m /\ i # n /\ m # n /\ c[x] = list[i] /\ c[y] = list[m]
  BY DEF Rest
<1>4. \A i, m \in 1 .. Len(list) : i < m /\ i # n /\ m # n =>
        \E x, y \in 1 .. Len(c) : x < y /\ c[x] = list[i] /\ c[y] = list[m]
  BY DEF Rest
<1>5. \A i \in 1 .. Len(list) : list[i] = k => i = n
  BY DEF NoDup
<1>6. ASSUME NEW x \in 1 .. Len(c), NEW y \in 1 .. Len(c), x < y PROVE c[x] # c[y]
  <2>1. PICK i, m \in 1 .. Len(list) : i < m /\ c[x] = list[i] /\ c[y] = list[m]
    BY <1>3, <1>6, SMT
  <2>2. i # m
    BY <2>1, SMT
  <2> QED
    BY <2>1, <2>2 DEF NoDup
<1>7. NoDup(c)
  BY <1>6, SMT DEF NoDup
<1>8. ASSUME NEW j, In(c, j) PROVE j # k /\ In(list, j)
  <2>1. PICK x \in 1 .. Len(c) : c[x] = j
    BY <1>8 DEF In
  <2>2. PICK i \in 1 .. Len(list) : i # n /\ c[x] = list[i]
    BY <1>1, SMT
  <2> QED
    BY <1>5, <2>1, <2>2 DEF In
<1>9. ASSUME NEW j, j # k, In(list, j) PROVE In(c, j)
  <2>1. PICK i \in 1 .. Len(list) : list[i] = j
    BY <1>9 DEF In
  <2>2. i # n
    BY <1>9, <2>1, SMT
  <2>3. PICK x \in 1 .. Len(c) : c[x] = list[i]
    BY <1>2, <2>2, SMT
  <2> QED
    BY <2>1, <2>3 DEF In
<1>10. ASSUME NEW i, NEW j, Behind(c, i, j) PROVE Behind(list, i, j)
  <2>1. PICK x, y \in 1 .. Len(c) : y < x /\ c[x] = i /\ c[y] = j
    BY <1>10 DEF Behind
  <2>2. PICK v, w \in 1 .. Len(list) : v < w /\ c[y] = list[v] /\ c[x] = list[w]
    BY <1>3, <2>1
  <2> QED
    BY <2>1, <2>2 DEF Behind
<1>11. ASSUME NEW i, NEW j, i # k, j # k, Behind(list, i, j) PROVE Behind(c, i, j)
  <2>1. PICK x, y \in 1 .. Len(list) : y < x /\ list[x] = i /\ list[y] = j
    BY <1>11 DEF Behind
  <2>2. x # n /\ y # n
    BY <1>11, <2>1, SMT
  <2>3. PICK v, w \in 1 .. Len(c) : v < w /\ c[v] = list[y] /\ c[w] = list[x]
    BY <1>4, <2>1, <2>2
  <2> QED
    BY <2>1, <2>3 DEF Behind
<1> QED
  BY <1>7, <1>8, <1>9, <1>10, <1>11

\* c is list without k; c is list with k in front.
Erasing(c, list, k) ==
  /\ c \in Seq(Key) /\ NoDup(c)
  /\ \A j : In(c, j) <=> j # k /\ In(list, j)
  /\ \A i, j : i # k /\ j # k => (Behind(c, i, j) <=> Behind(list, i, j))

Pushing(c, list, k) ==
  /\ c \in Seq(Key) /\ NoDup(c)
  /\ \A j : In(c, j) <=> j = k \/ In(list, j)
  /\ \A i, j : Behind(c, i, j) <=> (j = k /\ In(list, i)) \/ Behind(list, i, j)

\* list_.erase at the key's iterator does that.
LEMMA EraseKey ==
  ASSUME NEW list \in Seq(Key), NoDup(list), NEW k, In(list, k)
  PROVE  Erasing(Erase(list, Iter(list, k)), list, k)
<1> USE Zenon
<1> DEFINE n == Iter(list, k)
           c == Erase(list, n)
<1>1. n \in 1 .. Len(list) /\ list[n] = k
  <2>1. DOMAIN list = 1 .. Len(list)
    BY SMT
  <2>2. \E i \in DOMAIN list : list[i] = k
    BY <2>1 DEF In
  <2>3. n \in DOMAIN list /\ list[n] = k
    BY <2>2 DEF Iter
  <2> QED
    BY <2>1, <2>3
<1> HIDE DEF n
<1>2. c \in Seq(Key) /\ Rest(c, list, n)
  BY <1>1, Erased
<1> HIDE DEF c
<1>3. /\ NoDup(c)
      /\ \A j : In(c, j) <=> j # k /\ In(list, j)
      /\ \A i, j : i # k /\ j # k => (Behind(c, i, j) <=> Behind(list, i, j))
  BY <1>1, <1>2, RestOfKeys
<1> QED
  BY <1>2, <1>3 DEF c, n, Erasing

\* The elements of a list with a new front.
LEMMA ConsIs ==
  ASSUME NEW k \in Key, NEW list \in Seq(Key)
  PROVE  LET c == <<k>> \o list
         IN  /\ c \in Seq(Key) /\ Len(c) = 1 + Len(list)
             /\ c[1] = k /\ \A j \in 1 .. Len(list) : c[1 + j] = list[j]
<1>1. <<k>> \o list \in Seq(Key)
  OBVIOUS
<1>2. Len(<<k>> \o list) = 1 + Len(list)
  OBVIOUS
<1>3. (<<k>> \o list)[1] = k
  OBVIOUS
<1>4. ASSUME NEW j \in 1 .. Len(list) PROVE (<<k>> \o list)[1 + j] = list[j]
  OBVIOUS
<1> QED
  BY <1>1, <1>2, <1>3, <1>4, Zenon

\* push_front puts a new key in front of all others and leaves their order.
LEMMA PushKey ==
  ASSUME NEW list \in Seq(Key), NoDup(list), NEW k \in Key, ~In(list, k)
  PROVE  Pushing(<<k>> \o list, list, k)
<1> USE Zenon
<1> DEFINE c == <<k>> \o list
<1>2. /\ c \in Seq(Key) /\ Len(c) = 1 + Len(list)
      /\ c[1] = k /\ \A j \in 1 .. Len(list) : c[1 + j] = list[j]
  BY ConsIs
<1> HIDE DEF c
<1>3. ASSUME NEW x \in 1 .. Len(c)
      PROVE  x # 1 => x - 1 \in 1 .. Len(list) /\ c[x] = list[x - 1]
  <2>1. CASE x # 1
    <3>1. Len(list) \in Nat /\ x \in Nat /\ x >= 1 /\ x <= 1 + Len(list)
      BY <1>2, SMT
    <3>2. x - 1 \in 1 .. Len(list) /\ 1 + (x - 1) = x
      BY <2>1, <3>1, SMT
    <3> QED
      BY <1>2, <3>2
  <2> QED
    BY <2>1, SMT
<1>4. ASSUME NEW x \in 1 .. Len(list) PROVE 1 + x \in 1 .. Len(c)
  BY <1>2, SMT
<1>5. ASSUME NEW x \in 1 .. Len(c), NEW y \in 1 .. Len(c), y < x PROVE c[x] # c[y]
  <2>1. x # 1 /\ x - 1 \in 1 .. Len(list) /\ c[x] = list[x - 1]
    BY <1>2, <1>3, <1>5, SMT
  <2>2. CASE y = 1
    BY <1>2, <2>1, <2>2 DEF In
  <2>3. CASE y # 1
    <3>1. y - 1 \in 1 .. Len(list) /\ c[y] = list[y - 1]
      BY <1>3, <2>3
    <3>2. x - 1 # y - 1
      BY <1>2, <1>5, SMT
    <3> QED
      BY <2>1, <3>1, <3>2 DEF NoDup
  <2> QED
    BY <2>2, <2>3
<1>6. NoDup(c)
  <2>1. Len(c) \in Nat
    BY <1>2, SMT
  <2> QED
    BY <1>5, <2>1, SMT DEF NoDup
<1>7. 1 \in 1 .. Len(c)
  BY <1>2, SMT
<1>8. ASSUME NEW j PROVE In(c, j) <=> j = k \/ In(list, j)
  <2>1. ASSUME In(c, j) PROVE j = k \/ In(list, j)
    BY <1>2, <1>3, <2>1 DEF In
  <2>2. ASSUME In(list, j) PROVE In(c, j)
    BY <1>2, <1>4, <2>2 DEF In
  <2>3. In(c, k)
    BY <1>2, <1>7 DEF In
  <2> QED
    BY <2>1, <2>2, <2>3
<1>9. ASSUME NEW i, NEW j, Behind(c, i, j)
      PROVE  (j = k /\ In(list, i)) \/ Behind(list, i, j)
  <2>1. PICK x, y \in 1 .. Len(c) : y < x /\ c[x] = i /\ c[y] = j
    BY <1>9 DEF Behind
  <2>2. x # 1 /\ x - 1 \in 1 .. Len(list) /\ c[x] = list[x - 1]
    BY <1>2, <1>3, <2>1, SMT
  <2>3. CASE y = 1
    BY <1>2, <2>1, <2>2, <2>3 DEF In
  <2>4. CASE y # 1
    <3>1. y - 1 \in 1 .. Len(list) /\ c[y] = list[y - 1]
      BY <1>3, <2>4
    <3>2. y - 1 < x - 1
      BY <1>2, <2>1, SMT
    <3> QED
      BY <2>1, <2>2, <3>1, <3>2 DEF Behind
  <2> QED
    BY <2>3, <2>4
<1>10. ASSUME NEW i, NEW j, Behind(list, i, j) PROVE Behind(c, i, j)
  <2>1. PICK x, y \in 1 .. Len(list) : y < x /\ list[x] = i /\ list[y] = j
    BY <1>10 DEF Behind
  <2>2. 1 + y < 1 + x
    BY <2>1, SMT
  <2> QED
    BY <1>2, <1>4, <2>1, <2>2 DEF Behind
<1>11. ASSUME NEW i, In(list, i) PROVE Behind(c, i, k)
  <2>1. PICK x \in 1 .. Len(list) : list[x] = i
    BY <1>11 DEF In
  <2>2. 1 < 1 + x
    BY <2>1, SMT
  <2> QED
    BY <1>2, <1>4, <1>7, <2>1, <2>2 DEF Behind
<1> QED
  BY <1>2, <1>6, <1>8, <1>9, <1>10, <1>11 DEF c, Pushing

\* The victim of LRU is behind every other key.
LEMMA LastKey ==
  ASSUME NEW list \in Seq(Key), NoDup(list), list # << >>
  PROVE  /\ In(list, Back(list)) /\ Back(list) \in Key
         /\ \A j : In(list, j) /\ j # Back(list) => Behind(list, Back(list), j)
<1>1. Len(list) \in 1 .. Len(list)
  OBVIOUS
<1>2. ASSUME NEW y \in 1 .. Len(list), list[y] # list[Len(list)] PROVE y < Len(list)
  BY <1>2
<1>3. list[Len(list)] \in Key
  BY <1>1
<1> QED
  BY <1>1, <1>2, <1>3, Zenon DEF In, Behind, Back

\* Only different keys of the list are behind each other.
LEMMA BehindFacts ==
  ASSUME NEW list \in Seq(Key), NoDup(list)
  PROVE  \A i, j : Behind(list, i, j) => In(list, i) /\ In(list, j) /\ i # j
<1>1. ASSUME NEW x \in 1 .. Len(list), NEW y \in 1 .. Len(list), y < x PROVE list[x] # list[y]
  BY <1>1 DEF NoDup
<1> QED
  BY <1>1, Zenon DEF Behind, In

-----------------------------------------------------------------------------
(* Memory: the bytes of the values that map m gives to the keys of K. *)

Cells(m, K) == UNION {{k} \X (1 .. Size[m[k].value]) : k \in K}

Bytes(m, K) == Cardinality(Cells(m, K))

\* The size of m's value for k is known.
Sized(m, k) == Size[m[k].value] \in Nat

\* The size of finitely many values is a natural number.
LEMMA CellsAre ==
  ASSUME NEW m, NEW K, IsFiniteSet(K), \A k \in K : Sized(m, k)
  PROVE  IsFiniteSet(Cells(m, K)) /\ Bytes(m, K) \in Nat
<1> USE Zenon
<1> DEFINE cell(k) == {k} \X (1 .. Size[m[k].value])
           sets == {cell(k) : k \in K}
           f == [k \in K |-> cell(k)]
<1>1. ASSUME NEW k \in K PROVE IsFiniteSet(cell(k))
  <2>1. 1 \in Int /\ Size[m[k].value] \in Int
    BY SMT DEF Sized
  <2>2. IsFiniteSet(1 .. Size[m[k].value])
    BY <2>1, FS_Interval
  <2>3. IsFiniteSet({k})
    BY FS_Singleton
  <2> QED
    BY <2>2, <2>3, FS_Product
<1>2. \A S \in sets : IsFiniteSet(S)
  BY <1>1
<1>3. f \in [K -> sets] /\ \A S \in sets : \E k \in K : f[k] = S
  OBVIOUS
<1> HIDE DEF f, sets
<1>4. f \in Surjection(K, sets)
  BY <1>3 DEF Surjection
<1>5. IsFiniteSet(sets)
  BY <1>4, FS_Surjection
<1>6. IsFiniteSet(UNION sets)
  BY <1>2, <1>5, FS_UNION
<1>7. Cells(m, K) = UNION sets
  BY DEF Cells, sets
<1> QED
  BY <1>6, <1>7, FS_CardinalityType DEF Bytes

\* No values have no size.
LEMMA BytesEmpty ==
  ASSUME NEW m
  PROVE  Bytes(m, {}) = 0
<1>1. Cells(m, {}) = {}
  BY DEF Cells
<1> QED
  BY <1>1, FS_EmptySet, Zenon DEF Bytes

\* One more value adds its size.
LEMMA BytesAdd ==
  ASSUME NEW m, NEW K, IsFiniteSet(K), \A k \in K : Sized(m, k),
         NEW j, j \notin K, Sized(m, j)
  PROVE  Bytes(m, K \union {j}) = Bytes(m, K) + Size[m[j].value]
<1> USE Zenon
<1> DEFINE new == {j} \X (1 .. Size[m[j].value])
<1>1. Size[m[j].value] \in Nat
  BY SMT DEF Sized
<1>2. IsFiniteSet(new) /\ Cardinality(new) = Size[m[j].value]
  <2>1. 1 \in Int /\ Size[m[j].value] \in Int
    BY <1>1, SMT
  <2>2. IsFiniteSet({j}) /\ Cardinality({j}) = 1
    BY FS_Singleton
  <2>3. /\ IsFiniteSet(1 .. Size[m[j].value])
        /\ Cardinality(1 .. Size[m[j].value]) =
             IF 1 > Size[m[j].value] THEN 0 ELSE Size[m[j].value] - 1 + 1
    BY <2>1, FS_Interval
  <2>4. Cardinality(1 .. Size[m[j].value]) = Size[m[j].value]
    BY <1>1, <2>3, SMT
  <2>5. IsFiniteSet(new) /\ Cardinality(new) = Cardinality({j}) * Cardinality(1 .. Size[m[j].value])
    BY <2>2, <2>3, FS_Product
  <2>6. Cardinality(new) = 1 * Size[m[j].value]
    BY <2>2, <2>4, <2>5
  <2> QED
    BY <1>1, <2>5, <2>6, SMT
<1>3. Cells(m, K \union {j}) = Cells(m, K) \union new
  BY DEF Cells
<1>4. \A c \in Cells(m, K) : c[1] \in K
  BY SMT DEF Cells
<1>5. \A c \in new : c[1] = j
  BY SMT
<1>6. Cells(m, K) \intersect new = {}
  BY <1>4, <1>5
<1>7. IsFiniteSet(Cells(m, K)) /\ Bytes(m, K) \in Nat
  BY CellsAre
<1> HIDE DEF new
<1>8. Cardinality(Cells(m, K) \union new) =
        Cardinality(Cells(m, K)) + Cardinality(new) - Cardinality(Cells(m, K) \intersect new)
  BY <1>2, <1>7, FS_Union
<1>9. Cardinality(Cells(m, K) \intersect new) = 0
  BY <1>6, FS_EmptySet
<1>10. Bytes(m, K \union {j}) = Bytes(m, K) + Size[m[j].value] - 0
  BY <1>2, <1>3, <1>8, <1>9 DEF Bytes
<1> QED
  BY <1>1, <1>7, <1>10, SMT

\* Equal values have equal sizes.
LEMMA BytesSame ==
  ASSUME NEW m, NEW w, NEW K, \A k \in K : m[k].value = w[k].value
  PROVE  Bytes(m, K) = Bytes(w, K)
<1>1. {{k} \X (1 .. Size[m[k].value]) : k \in K} = {{k} \X (1 .. Size[w[k].value]) : k \in K}
  BY Zenon
<1> QED
  BY <1>1, Zenon DEF Bytes, Cells

\* Fewer values are not larger.
LEMMA BytesMonotone ==
  ASSUME NEW m, NEW K, IsFiniteSet(K), \A k \in K : Sized(m, k), NEW L \in SUBSET K
  PROVE  Bytes(m, L) <= Bytes(m, K)
<1> USE Zenon
<1>1. Cells(m, L) \in SUBSET Cells(m, K)
  BY DEF Cells
<1>2. IsFiniteSet(Cells(m, K))
  BY CellsAre
<1> QED
  BY <1>1, <1>2, FS_Subset DEF Bytes

\* The maps that tables represent have finitely many keys, and values with a size.
LEMMA MapFacts ==
  ASSUME NEW m \in Maps
  PROVE  /\ DOMAIN m \subseteq Key /\ IsFiniteSet(DOMAIN m) /\ m \in [DOMAIN m -> Entries]
         /\ \A k \in DOMAIN m : m[k] \in Entries /\ m[k].value \in Value /\ Sized(m, k)
         /\ \A K : K \subseteq DOMAIN m => IsFiniteSet(K)
<1>1. PICK K \in SUBSET Key : m \in [K -> Entries]
  BY Zenon DEF Maps
<1>2. DOMAIN m = K
  BY <1>1
<1>3. IsFiniteSet(K)
  BY <1>1, PolicyConstants, FS_Subset, Zenon
<1>4. \A L : L \subseteq K => IsFiniteSet(L)
  BY <1>3, FS_Subset, Zenon
<1>5. ASSUME NEW k \in K PROVE m[k] \in Entries /\ m[k].value \in Value /\ Size[m[k].value] \in Nat
  <2>1. m[k] \in Entries
    BY <1>1
  <2>2. m[k].value \in Value
    BY <2>1 DEF Entries
  <2> QED
    BY <2>1, <2>2, TableConstants
<1> QED
  BY <1>1, <1>2, <1>3, <1>4, <1>5, Zenon DEF Sized

\* What storing and dropping a key do to the size of a map.
LEMMA StoreBytes ==
  ASSUME NEW m \in Maps, NEW k \in Key, k \notin DOMAIN m, NEW e \in Entries
  PROVE  /\ DOMAIN Store(m, k, e) = DOMAIN m \union {k}
         /\ Bytes(Store(m, k, e), DOMAIN m \union {k}) = Bytes(m, DOMAIN m) + Size[e.value]
<1> USE Zenon
<1> DEFINE w == Store(m, k, e)
<1>1. w = [j \in DOMAIN m \union {k} |-> IF j = k THEN e ELSE m[j]]
  BY DEF Store
<1>2. DOMAIN w = DOMAIN m \union {k} /\ w[k] = e /\ \A j \in DOMAIN m : w[j] = m[j]
  BY <1>1
<1> HIDE DEF w
<1>3. IsFiniteSet(DOMAIN m) /\ \A j \in DOMAIN m : Sized(m, j)
  BY MapFacts
<1>4. \A j \in DOMAIN m : Sized(w, j)
  BY <1>2, <1>3 DEF Sized
<1>5. Sized(w, k)
  <2>1. e.value \in Value
    BY SMT DEF Entries
  <2>2. Size[e.value] \in Nat
    BY <2>1, TableConstants, SMT
  <2> QED
    BY <1>2, <2>2 DEF Sized
<1>6. Bytes(w, DOMAIN m \union {k}) = Bytes(w, DOMAIN m) + Size[w[k].value]
  BY <1>3, <1>4, <1>5, BytesAdd
<1>7. \A j \in DOMAIN m : m[j].value = w[j].value
  BY <1>2
<1>8. Bytes(m, DOMAIN m) = Bytes(w, DOMAIN m)
  BY <1>7, BytesSame
<1>9. Bytes(w, DOMAIN m \union {k}) = Bytes(m, DOMAIN m) + Size[e.value]
  BY <1>2, <1>6, <1>8
<1> QED
  BY <1>2, <1>9 DEF w

\* Dropping a key takes the size of its value off the total.
LEMMA DropBytes ==
  ASSUME NEW m \in Maps, NEW k \in DOMAIN m
  PROVE  /\ DOMAIN Drop(m, k) = DOMAIN m \ {k}
         /\ Bytes(m, DOMAIN m) = Bytes(Drop(m, k), DOMAIN m \ {k}) + Size[m[k].value]
         /\ Bytes(Drop(m, k), DOMAIN m \ {k}) \in Nat
<1> USE Zenon
<1> DEFINE w == Drop(m, k)
           K == DOMAIN m \ {k}
<1>1. w = [j \in K |-> m[j]]
  BY DEF Drop
<1>2. DOMAIN w = K /\ \A j \in K : w[j] = m[j]
  BY <1>1
<1> HIDE DEF w
<1>3. /\ IsFiniteSet(K) /\ K \subseteq DOMAIN m
      /\ \A j \in DOMAIN m : Sized(m, j)
  <2>1. K \subseteq DOMAIN m
    BY SMT
  <2> QED
    BY <2>1, MapFacts
<1>4. k \notin K /\ K \union {k} = DOMAIN m
  BY SMT
<1> HIDE DEF K
<1>5. \A j \in K : Sized(m, j)
  BY <1>3
<1>6. Sized(m, k)
  BY <1>3
<1>7. Bytes(m, K \union {k}) = Bytes(m, K) + Size[m[k].value]
  BY <1>3, <1>4, <1>5, <1>6, BytesAdd
<1>8. Bytes(m, K) = Bytes(w, K)
  <2>1. \A j \in K : m[j].value = w[j].value
    BY <1>2
  <2> QED
    BY <2>1, BytesSame
<1>9. Bytes(m, K) \in Nat
  BY <1>3, <1>5, CellsAre
<1> QED
  BY <1>2, <1>4, <1>7, <1>8, <1>9 DEF w, K

-----------------------------------------------------------------------------
(* The policy's bookkeeping of map m. *)

Counts == UNION {[K -> Nat] : K \in SUBSET Key}

Pols == [policy : {"LRU", "LFU"}, list : Seq(Key), count : Counts,
         heap : SUBSET (Key \X Nat), mem : Nat]

Listed(list, K) == list \in Seq(Key) /\ NoDup(list) /\ \A k : In(list, k) <=> k \in K

Counted(count, m) == DOMAIN count = DOMAIN m /\ \A k \in DOMAIN m : count[k] = m[k].count

\* The policy tracks the keys of m, with their counters and their size.
Books(p, m) ==
  /\ p \in Pols
  /\ p.mem = Bytes(m, DOMAIN m)
  /\ p.policy = "LRU" => Listed(p.list, DOMAIN m)
  /\ p.policy = "LFU" => Counted(p.count, m)

\* LFU: the keys of K have a valid entry in the heap.
Covered(p, K) == p.policy = "LFU" => \A k \in K : <<k, p.count[k]>> \in p.heap

\* The policy would rather evict i than j.
Before(p, i, j) == IF p.policy = "LFU" THEN p.count[i] <= p.count[j] ELSE Behind(p.list, i, j)

\* The types of a policy's fields.
LEMMA PolicyFields ==
  ASSUME NEW p \in Pols
  PROVE  /\ p.policy \in {"LRU", "LFU"} /\ p.list \in Seq(Key) /\ p.count \in Counts
         /\ p.heap \in SUBSET (Key \X Nat) /\ p.mem \in Nat
  BY DEF Pols

\* The types of LFU's counters.
LEMMA CountsAre ==
  ASSUME NEW c \in Counts
  PROVE  DOMAIN c \subseteq Key /\ \A k \in DOMAIN c : c[k] \in Nat
<1>1. PICK K \in SUBSET Key : c \in [K -> Nat]
  BY Zenon DEF Counts
<1> QED
  BY <1>1

\* d is c with n for k; d is c without k.
Storing(d, c, k, n) ==
  /\ d \in Counts /\ DOMAIN d = DOMAIN c \union {k} /\ d[k] = n
  /\ \A j \in DOMAIN c : j # k => d[j] = c[j]

Dropping(d, c, k) ==
  /\ d \in Counts /\ DOMAIN d = DOMAIN c \ {k}
  /\ \A j \in DOMAIN c : j # k => d[j] = c[j]

\* Storing and dropping a counter leaves the others.
LEMMA CountsChange ==
  ASSUME NEW c \in Counts, NEW k \in Key, NEW n \in Nat
  PROVE  Storing(Store(c, k, n), c, k, n) /\ Dropping(Drop(c, k), c, k)
<1> USE Zenon
<1>1. DOMAIN c \subseteq Key /\ \A j \in DOMAIN c : c[j] \in Nat
  BY CountsAre
<1>2. /\ DOMAIN Store(c, k, n) = DOMAIN c \union {k} /\ Store(c, k, n)[k] = n
      /\ \A j \in DOMAIN c : j # k => Store(c, k, n)[j] = c[j]
  BY DEF Store
<1>3. Store(c, k, n) \in [DOMAIN c \union {k} -> Nat]
  <2>1. \A j \in DOMAIN c \union {k} : (IF j = k THEN n ELSE c[j]) \in Nat
    BY <1>1, SMT
  <2> QED
    BY <2>1 DEF Store
<1>4. DOMAIN Drop(c, k) = DOMAIN c \ {k} /\ \A j \in DOMAIN c : j # k => Drop(c, k)[j] = c[j]
  BY DEF Drop
<1>5. Drop(c, k) \in [DOMAIN c \ {k} -> Nat]
  BY <1>1 DEF Drop
<1>6. DOMAIN c \union {k} \in SUBSET Key /\ DOMAIN c \ {k} \in SUBSET Key
  BY <1>1, SMT
<1> QED
  BY <1>2, <1>3, <1>4, <1>5, <1>6 DEF Counts, Storing, Dropping

\* The fields of the policy after each operation.
LEMMA DeleteFields ==
  ASSUME NEW p \in Pols, NEW k \in Key, NEW size \in Nat, p.mem >= size,
         k \in IF p.policy = "LRU" THEN Range(p.list) ELSE DOMAIN p.count
  PROVE  LET q == OnDelete(p, k, size)
         IN  /\ q = [p EXCEPT !.list = q.list, !.count = q.count, !.mem = q.mem]
             /\ q.policy = p.policy /\ q.heap = p.heap /\ q.mem = p.mem - size
             /\ q.list = IF p.policy = "LRU" THEN Erase(p.list, Iter(p.list, k)) ELSE p.list
             /\ q.count = IF p.policy = "LRU" THEN p.count ELSE Drop(p.count, k)
<1> USE Zenon
<1>1. MemoryWithout(p, size) = p.mem - size
  BY SMT DEF MemoryWithout
<1>2. CASE p.policy = "LRU"
  <2> DEFINE l == Erase(p.list, Iter(p.list, k))
  <2>1. OnDelete(p, k, size) = [p EXCEPT !.list = l, !.mem = p.mem - size]
    BY <1>1, <1>2 DEF OnDelete, LruDelete
  <2> HIDE DEF l
  <2>2. OnDelete(p, k, size).list = l
    BY <2>1, SMT DEF Pols
  <2>3. LET q == OnDelete(p, k, size)
        IN  /\ q.policy = p.policy /\ q.heap = p.heap /\ q.mem = p.mem - size
            /\ q.count = p.count /\ q = [p EXCEPT !.list = q.list, !.count = q.count, !.mem = q.mem]
    BY <2>1 DEF Pols
  <2> QED
    BY <1>2, <2>2, <2>3 DEF l
<1>3. CASE p.policy # "LRU"
  <2> DEFINE l == Drop(p.count, k)
  <2>1. OnDelete(p, k, size) = [p EXCEPT !.count = l, !.mem = p.mem - size]
    BY <1>1, <1>3 DEF OnDelete, LfuDelete
  <2> HIDE DEF l
  <2>2. OnDelete(p, k, size).count = l
    BY <2>1, SMT DEF Pols
  <2>3. LET q == OnDelete(p, k, size)
        IN  /\ q.policy = p.policy /\ q.heap = p.heap /\ q.mem = p.mem - size
            /\ q.list = p.list /\ q = [p EXCEPT !.list = q.list, !.count = q.count, !.mem = q.mem]
    BY <2>1 DEF Pols
  <2> QED
    BY <1>3, <2>2, <2>3 DEF l
<1> QED
  BY <1>2, <1>3

Inserting(q, p, k, size, n) ==
  /\ q = [p EXCEPT !.list = q.list, !.count = q.count, !.heap = q.heap, !.mem = q.mem]
  /\ q.policy = p.policy /\ q.mem = p.mem + size
  /\ q.list = IF p.policy = "LRU" THEN <<k>> \o p.list ELSE p.list
  /\ q.count = IF p.policy = "LRU" THEN p.count ELSE Store(p.count, k, n)
  /\ q.heap = IF p.policy = "LRU" THEN p.heap ELSE p.heap \union {<<k, n>>}

\* on_insert: what becomes of each field.
LEMMA InsertFields ==
  ASSUME NEW p \in Pols, NEW k \in Key, NEW size \in Nat, NEW n \in Nat
  PROVE  Inserting(OnInsert(p, k, size, n), p, k, size, n)
<1> USE Zenon
<1>1. CASE p.policy = "LRU"
  <2> DEFINE l == <<k>> \o p.list
  <2>1. OnInsert(p, k, size, n) = [p EXCEPT !.list = l, !.mem = p.mem + size]
    BY <1>1 DEF OnInsert, LruInsert
  <2> HIDE DEF l
  <2>2. OnInsert(p, k, size, n).list = l
    BY <2>1, SMT DEF Pols
  <2>3. LET q == OnInsert(p, k, size, n)
        IN  /\ q.policy = p.policy /\ q.heap = p.heap /\ q.mem = p.mem + size /\ q.count = p.count
            /\ q = [p EXCEPT !.list = q.list, !.count = q.count, !.heap = q.heap, !.mem = q.mem]
    BY <2>1 DEF Pols
  <2> QED
    BY <1>1, <2>2, <2>3 DEF l, Inserting
<1>2. CASE p.policy # "LRU"
  <2> DEFINE l == Store(p.count, k, n)
             h == p.heap \union {<<k, n>>}
  <2>1. OnInsert(p, k, size, n) = [p EXCEPT !.count = l, !.heap = h, !.mem = p.mem + size]
    BY <1>2 DEF OnInsert, LfuInsert
  <2> HIDE DEF l, h
  <2>2. OnInsert(p, k, size, n).count = l /\ OnInsert(p, k, size, n).heap = h
    BY <2>1, SMT DEF Pols
  <2>3. LET q == OnInsert(p, k, size, n)
        IN  /\ q.policy = p.policy /\ q.mem = p.mem + size /\ q.list = p.list
            /\ q = [p EXCEPT !.list = q.list, !.count = q.count, !.heap = q.heap, !.mem = q.mem]
    BY <2>1 DEF Pols
  <2> QED
    BY <1>2, <2>2, <2>3 DEF l, h, Inserting
<1> QED
  BY <1>1, <1>2

Accessing(q, p, k, n) ==
  /\ q = [p EXCEPT !.list = q.list, !.count = q.count, !.heap = q.heap, !.mem = q.mem]
  /\ q.policy = p.policy /\ q.mem = p.mem
  /\ q.list = IF p.policy = "LRU" THEN <<k>> \o Erase(p.list, Iter(p.list, k)) ELSE p.list
  /\ q.count = IF p.policy = "LRU" THEN p.count ELSE Store(p.count, k, n)
  /\ q.heap = IF p.policy = "LRU" THEN p.heap ELSE p.heap \union {<<k, n>>}

\* on_access of a tracked key: what becomes of each field.
LEMMA AccessFields ==
  ASSUME NEW p \in Pols, NEW k \in Key, NEW n \in Nat,
         k \in IF p.policy = "LRU" THEN Range(p.list) ELSE DOMAIN p.count
  PROVE  Accessing(OnAccess(p, k, n), p, k, n)
<1> USE Zenon
<1>1. CASE p.policy = "LRU"
  <2> DEFINE l == <<k>> \o Erase(p.list, Iter(p.list, k))
  <2>1. OnAccess(p, k, n) = [p EXCEPT !.list = l]
    BY <1>1 DEF OnAccess, LruAccess
  <2> HIDE DEF l
  <2>2. OnAccess(p, k, n).list = l
    BY <2>1, SMT DEF Pols
  <2>3. LET q == OnAccess(p, k, n)
        IN  /\ q.policy = p.policy /\ q.heap = p.heap /\ q.mem = p.mem /\ q.count = p.count
            /\ q = [p EXCEPT !.list = q.list, !.count = q.count, !.heap = q.heap, !.mem = q.mem]
    BY <2>1 DEF Pols
  <2> QED
    BY <1>1, <2>2, <2>3 DEF l, Accessing
<1>2. CASE p.policy # "LRU"
  <2> DEFINE l == Store(p.count, k, n)
             h == p.heap \union {<<k, n>>}
  <2>1. OnAccess(p, k, n) = [p EXCEPT !.count = l, !.heap = h]
    BY <1>2 DEF OnAccess, LfuAccess
  <2> HIDE DEF l, h
  <2>2. OnAccess(p, k, n).count = l /\ OnAccess(p, k, n).heap = h
    BY <2>1, SMT DEF Pols
  <2>3. LET q == OnAccess(p, k, n)
        IN  /\ q.policy = p.policy /\ q.mem = p.mem /\ q.list = p.list
            /\ q = [p EXCEPT !.list = q.list, !.count = q.count, !.heap = q.heap, !.mem = q.mem]
    BY <2>1 DEF Pols
  <2> QED
    BY <1>2, <2>2, <2>3 DEF l, h, Accessing
<1> QED
  BY <1>1, <1>2

\* A policy whose fields have their types is one.
LEMMA PolicyBuilt ==
  ASSUME NEW p \in Pols, NEW q,
         q = [p EXCEPT !.list = q.list, !.count = q.count, !.heap = q.heap, !.mem = q.mem],
         q.list \in Seq(Key), q.count \in Counts, q.heap \in SUBSET (Key \X Nat), q.mem \in Nat
  PROVE  q \in Pols
  BY Zenon DEF Pols

\* Deleting a key, whose entry may already have been popped from the heap.
LEMMA DeleteBooks ==
  ASSUME NEW m \in Maps, NEW p, Books(p, m), NEW k \in DOMAIN m, Covered(p, DOMAIN m \ {k})
  PROVE  LET q == OnDelete(p, k, Size[m[k].value])
         IN  /\ Books(q, Drop(m, k)) /\ Covered(q, DOMAIN m \ {k}) /\ q.policy = p.policy
             /\ \A i, j \in DOMAIN m \ {k} : Before(q, i, j) <=> Before(p, i, j)
<1> USE Zenon
<1> DEFINE size == Size[m[k].value]
           q == OnDelete(p, k, size)
           w == Drop(m, k)
           K == DOMAIN m \ {k}
<1>1. p \in Pols /\ p.mem = Bytes(m, DOMAIN m) /\ p.mem \in Nat /\ p.policy \in {"LRU", "LFU"}
  BY PolicyFields DEF Books
<1>2. k \in Key /\ size \in Nat
  BY MapFacts DEF Sized
<1>3. /\ DOMAIN w = K
      /\ Bytes(m, DOMAIN m) = Bytes(w, K) + size /\ Bytes(w, K) \in Nat
  BY DropBytes
<1>4. \A j \in K : w[j] = m[j]
  BY DEF Drop
<1>5. p.mem >= size /\ p.mem - size = Bytes(w, K)
  BY <1>1, <1>2, <1>3, SMT
<1>6. k \in IF p.policy = "LRU" THEN Range(p.list) ELSE DOMAIN p.count
  <2>1. CASE p.policy = "LRU"
    BY <2>1, RangeIs DEF Books, Listed
  <2>2. CASE p.policy = "LFU"
    BY <2>2 DEF Books, Counted
  <2> QED
    BY <1>1, <2>1, <2>2
<1> HIDE DEF w, size
<1>7. /\ q = [p EXCEPT !.list = q.list, !.count = q.count, !.mem = q.mem]
      /\ q.policy = p.policy /\ q.heap = p.heap /\ q.mem = p.mem - size
      /\ q.list = IF p.policy = "LRU" THEN Erase(p.list, Iter(p.list, k)) ELSE p.list
      /\ q.count = IF p.policy = "LRU" THEN p.count ELSE Drop(p.count, k)
  BY <1>1, <1>2, <1>5, <1>6, DeleteFields
<1> HIDE DEF q
<1>8. p.list \in Seq(Key) /\ p.count \in Counts /\ p.heap \in SUBSET (Key \X Nat)
  BY <1>1, PolicyFields
<1>9. q.mem = Bytes(w, DOMAIN w)
  BY <1>3, <1>5, <1>7
<1>10. CASE p.policy = "LRU"
  <2>1. NoDup(p.list) /\ \A j : In(p.list, j) <=> j \in DOMAIN m
    BY <1>10 DEF Books, Listed
  <2>2. In(p.list, k)
    BY <2>1
  <2>3. /\ q.list \in Seq(Key) /\ NoDup(q.list)
        /\ \A j : In(q.list, j) <=> j # k /\ In(p.list, j)
        /\ \A i, j : i # k /\ j # k => (Behind(q.list, i, j) <=> Behind(p.list, i, j))
    <3>1. q.list = Erase(p.list, Iter(p.list, k))
      BY <1>7, <1>10
    <3>2. Erasing(Erase(p.list, Iter(p.list, k)), p.list, k)
      BY <1>8, <2>1, <2>2, EraseKey
    <3> QED
      BY <3>1, <3>2 DEF Erasing
  <2>4. Listed(q.list, DOMAIN w)
    BY <1>3, <2>1, <2>3 DEF Listed
  <2>5. q.count \in Counts
    BY <1>7, <1>8, <1>10
  <2>6. q \in Pols
    <3>1. q.heap \in SUBSET (Key \X Nat) /\ q.mem \in Nat
      BY <1>3, <1>5, <1>7, <1>8
    <3>2. q = [p EXCEPT !.list = q.list, !.count = q.count, !.heap = q.heap, !.mem = q.mem]
      BY <1>1, <1>7 DEF Pols
    <3> QED
      BY <1>1, <2>3, <2>5, <3>1, <3>2, PolicyBuilt
  <2>7. q.policy = "LRU" /\ q.policy # "LFU"
    BY <1>7, <1>10, SMT
  <2>8. Books(q, w)
    BY <1>9, <2>4, <2>6, <2>7 DEF Books
  <2>9. \A i, j \in K : Before(q, i, j) <=> Before(p, i, j)
    BY <1>7, <2>3, <2>7 DEF Before
  <2> QED
    BY <1>7, <2>7, <2>8, <2>9 DEF q, w, size, Covered
<1>11. CASE p.policy = "LFU"
  <2>1. p.policy # "LRU"
    BY <1>11, SMT
  <2>2. DOMAIN p.count = DOMAIN m /\ \A j \in DOMAIN m : p.count[j] = m[j].count
    BY <1>11 DEF Books, Counted
  <2>3. 0 \in Nat
    BY SMT
  <2>4. /\ q.count \in Counts /\ DOMAIN q.count = DOMAIN p.count \ {k}
        /\ \A j \in DOMAIN p.count : j # k => q.count[j] = p.count[j]
    <3>1. q.count = Drop(p.count, k)
      BY <1>7, <2>1
    <3>2. Dropping(Drop(p.count, k), p.count, k)
      BY <1>2, <1>8, <2>3, CountsChange
    <3> QED
      BY <3>1, <3>2 DEF Dropping
  <2>5. \A j \in K : q.count[j] = p.count[j] /\ q.count[j] = w[j].count
    BY <1>4, <2>2, <2>4
  <2>6. Counted(q.count, w)
    BY <1>3, <2>2, <2>4, <2>5 DEF Counted
  <2>7. q \in Pols
    <3>1. q.heap \in SUBSET (Key \X Nat) /\ q.mem \in Nat /\ q.list \in Seq(Key)
      BY <1>3, <1>5, <1>7, <1>8, <2>1
    <3>2. q = [p EXCEPT !.list = q.list, !.count = q.count, !.heap = q.heap, !.mem = q.mem]
      BY <1>1, <1>7 DEF Pols
    <3> QED
      BY <1>1, <2>4, <3>1, <3>2, PolicyBuilt
  <2>8. Books(q, w)
    BY <1>7, <1>9, <2>1, <2>6, <2>7 DEF Books
  <2>9. \A i, j \in K : Before(q, i, j) <=> Before(p, i, j)
    BY <1>7, <1>11, <2>5 DEF Before
  <2>10. Covered(q, K)
    BY <1>7, <1>11, <2>5 DEF Covered
  <2> QED
    BY <1>7, <2>8, <2>9, <2>10 DEF q, w, size
<1> QED
  BY <1>1, <1>10, <1>11

\* q is p after k was inserted into m with entry e.
Booked(q, p, m, k, e) ==
  /\ Books(q, Store(m, k, e)) /\ Covered(q, DOMAIN m \union {k})
  /\ q.policy = p.policy
  /\ p.policy = "LRU" =>
       \A i, j : Behind(q.list, i, j) <=> (j = k /\ i \in DOMAIN m) \/ Behind(p.list, i, j)

\* on_insert of a new key keeps the books in step with the map.
LEMMA InsertBooks ==
  ASSUME NEW m \in Maps, NEW p, Books(p, m), NEW k \in Key, k \notin DOMAIN m,
         NEW e \in Entries, Covered(p, DOMAIN m)
  PROVE  Booked(OnInsert(p, k, Size[e.value], e.count), p, m, k, e)
<1> USE Zenon
<1> DEFINE size == Size[e.value]
           n == e.count
           q == OnInsert(p, k, size, n)
           w == Store(m, k, e)
           K == DOMAIN m \union {k}
<1>1. p \in Pols /\ p.mem = Bytes(m, DOMAIN m) /\ p.mem \in Nat /\ p.policy \in {"LRU", "LFU"}
  BY PolicyFields DEF Books
<1>2. size \in Nat /\ n \in Nat
  <2>1. e.value \in Value /\ e.count \in Nat
    BY SMT DEF Entries
  <2> QED
    BY <2>1, TableConstants, SMT
<1>3. DOMAIN w = K /\ Bytes(w, K) = Bytes(m, DOMAIN m) + size
  BY StoreBytes
<1>4. w[k] = e /\ \A j \in DOMAIN m : w[j] = m[j]
  BY DEF Store
<1>5. p.mem + size = Bytes(w, K) /\ p.mem + size \in Nat
  BY <1>1, <1>2, <1>3, SMT
<1> HIDE DEF w, size, n
<1>7. /\ q = [p EXCEPT !.list = q.list, !.count = q.count, !.heap = q.heap, !.mem = q.mem]
      /\ q.policy = p.policy /\ q.mem = p.mem + size
      /\ q.list = IF p.policy = "LRU" THEN <<k>> \o p.list ELSE p.list
      /\ q.count = IF p.policy = "LRU" THEN p.count ELSE Store(p.count, k, n)
      /\ q.heap = IF p.policy = "LRU" THEN p.heap ELSE p.heap \union {<<k, n>>}
  <2>1. Inserting(q, p, k, size, n)
    BY <1>1, <1>2, InsertFields
  <2> QED
    BY <2>1 DEF Inserting
<1> HIDE DEF q
<1>8. p.list \in Seq(Key) /\ p.count \in Counts /\ p.heap \in SUBSET (Key \X Nat)
  BY <1>1, PolicyFields
<1>9. q.mem = Bytes(w, DOMAIN w) /\ q.mem \in Nat
  BY <1>3, <1>5, <1>7
<1>10. CASE p.policy = "LRU"
  <2>1. NoDup(p.list) /\ \A j : In(p.list, j) <=> j \in DOMAIN m
    BY <1>10 DEF Books, Listed
  <2>2. ~In(p.list, k)
    BY <2>1
  <2>3. /\ q.list \in Seq(Key) /\ NoDup(q.list)
        /\ \A j : In(q.list, j) <=> j = k \/ In(p.list, j)
        /\ \A i, j : Behind(q.list, i, j) <=> (j = k /\ In(p.list, i)) \/ Behind(p.list, i, j)
    <3>1. q.list = <<k>> \o p.list
      BY <1>7, <1>10
    <3>2. Pushing(<<k>> \o p.list, p.list, k)
      BY <1>8, <2>1, <2>2, PushKey
    <3> QED
      BY <3>1, <3>2 DEF Pushing
  <2>4. Listed(q.list, DOMAIN w)
    BY <1>3, <2>1, <2>3 DEF Listed
  <2>5. q.count \in Counts /\ q.heap \in SUBSET (Key \X Nat)
    BY <1>7, <1>8, <1>10
  <2>6. q \in Pols
    BY <1>1, <1>7, <1>9, <2>3, <2>5, PolicyBuilt
  <2>7. q.policy = "LRU" /\ q.policy # "LFU"
    BY <1>7, <1>10, SMT
  <2>8. Books(q, w)
    BY <1>9, <2>4, <2>6, <2>7 DEF Books
  <2>9. \A i, j : Behind(q.list, i, j) <=> (j = k /\ i \in DOMAIN m) \/ Behind(p.list, i, j)
    BY <2>1, <2>3
  <2> QED
    BY <1>7, <2>7, <2>8, <2>9 DEF q, w, size, n, Covered, Booked
<1>11. CASE p.policy = "LFU"
  <2>1. p.policy # "LRU"
    BY <1>11, SMT
  <2>2. DOMAIN p.count = DOMAIN m /\ \A j \in DOMAIN m : p.count[j] = m[j].count
    BY <1>11 DEF Books, Counted
  <2>4. /\ q.count \in Counts /\ DOMAIN q.count = DOMAIN p.count \union {k} /\ q.count[k] = n
        /\ \A j \in DOMAIN p.count : j # k => q.count[j] = p.count[j]
    <3>1. q.count = Store(p.count, k, n)
      BY <1>7, <2>1
    <3>2. Storing(Store(p.count, k, n), p.count, k, n)
      BY <1>2, <1>8, CountsChange
    <3> QED
      BY <3>1, <3>2 DEF Storing
  <2>5. \A j \in DOMAIN m : q.count[j] = p.count[j] /\ q.count[j] = w[j].count
    BY <1>4, <2>2, <2>4
  <2>6. Counted(q.count, w)
    <3>1. DOMAIN q.count = DOMAIN w
      BY <1>3, <2>2, <2>4
    <3>2. n = e.count
      BY SMT DEF n
    <3>3. q.count[k] = w[k].count
      BY <1>4, <2>4, <3>2
    <3>4. \A j \in DOMAIN w : q.count[j] = w[j].count
      BY <1>3, <2>5, <3>3
    <3> QED
      BY <3>1, <3>4 DEF Counted
  <2>7. q.heap = p.heap \union {<<k, n>>} /\ q.heap \in SUBSET (Key \X Nat)
    <3>1. q.heap = p.heap \union {<<k, n>>}
      BY <1>7, <2>1
    <3>2. p.heap \union {<<k, n>>} \in SUBSET (Key \X Nat)
      BY <1>2, <1>8, SMT
    <3> QED
      BY <3>1, <3>2
  <2>8. q \in Pols
    <3>1. q.list \in Seq(Key)
      BY <1>7, <1>8, <2>1
    <3> QED
      BY <1>1, <1>7, <1>9, <2>4, <2>7, <3>1, PolicyBuilt
  <2>9. Books(q, w)
    BY <1>7, <1>9, <2>1, <2>6, <2>8 DEF Books
  <2>11. Covered(q, K)
    <3>1. \A j \in DOMAIN m : <<j, q.count[j]>> \in q.heap
      BY <1>11, <2>5, <2>7 DEF Covered
    <3>2. <<k, q.count[k]>> \in q.heap
      BY <2>4, <2>7
    <3> QED
      BY <3>1, <3>2 DEF Covered
  <2> QED
    BY <1>7, <2>1, <2>9, <2>11 DEF q, w, size, n, Booked
<1> QED
  BY <1>1, <1>10, <1>11

\* q is p after k was accessed in m and its entry became e.
Touched(q, p, m, k, e) ==
  /\ Books(q, Store(m, k, e)) /\ Covered(q, DOMAIN m) /\ q.policy = p.policy
  /\ p.policy = "LRU" =>
       \A i, j : Behind(q.list, i, j) <=>
                   /\ i # k
                   /\ (j = k /\ i \in DOMAIN m) \/ (j # k /\ Behind(p.list, i, j))

\* An access: the entry changes, its value does not.
LEMMA AccessBooks ==
  ASSUME NEW m \in Maps, NEW p, Books(p, m), NEW k \in DOMAIN m, Covered(p, DOMAIN m),
         NEW e \in Entries, e.value = m[k].value
  PROVE  Touched(OnAccess(p, k, e.count), p, m, k, e)
<1> USE Zenon
<1> DEFINE n == e.count
           q == OnAccess(p, k, n)
           w == Store(m, k, e)
<1>1. /\ p \in Pols /\ p.mem = Bytes(m, DOMAIN m) /\ p.mem \in Nat /\ p.policy \in {"LRU", "LFU"}
      /\ p.list \in Seq(Key) /\ p.count \in Counts /\ p.heap \in SUBSET (Key \X Nat)
  BY PolicyFields DEF Books
<1>2. n \in Nat
  BY SMT DEF Entries
<1>3. k \in Key
  BY MapFacts
<1>4. w = [j \in DOMAIN m \union {k} |-> IF j = k THEN e ELSE m[j]] /\ DOMAIN m \union {k} = DOMAIN m
  BY SMT DEF Store
<1>5. DOMAIN w = DOMAIN m /\ w[k] = e /\ \A j \in DOMAIN m : j # k => w[j] = m[j]
  BY <1>4
<1> HIDE DEF w
<1>6. Bytes(m, DOMAIN m) = Bytes(w, DOMAIN w)
  <2>1. \A j \in DOMAIN m : m[j].value = w[j].value
    BY <1>5
  <2>2. Bytes(m, DOMAIN m) = Bytes(w, DOMAIN m)
    BY <2>1, BytesSame
  <2> QED
    BY <1>5, <2>2
<1>7. k \in IF p.policy = "LRU" THEN Range(p.list) ELSE DOMAIN p.count
  <2>1. CASE p.policy = "LRU"
    BY <2>1, RangeIs DEF Books, Listed
  <2>2. CASE p.policy = "LFU"
    BY <2>2 DEF Books, Counted
  <2> QED
    BY <1>1, <2>1, <2>2
<1> HIDE DEF n
<1>8. Accessing(q, p, k, n)
  BY <1>1, <1>2, <1>3, <1>7, AccessFields
<1> HIDE DEF q
<1>9. /\ q = [p EXCEPT !.list = q.list, !.count = q.count, !.heap = q.heap, !.mem = q.mem]
      /\ q.policy = p.policy /\ q.mem = Bytes(w, DOMAIN w) /\ q.mem \in Nat
  BY <1>1, <1>6, <1>8 DEF Accessing
<1>10. CASE p.policy = "LRU"
  <2> DEFINE l == Erase(p.list, Iter(p.list, k))
  <2>1. NoDup(p.list) /\ \A j : In(p.list, j) <=> j \in DOMAIN m
    BY <1>10 DEF Books, Listed
  <2>2. In(p.list, k)
    BY <2>1
  <2>3. Erasing(l, p.list, k)
    BY <1>1, <2>1, <2>2, EraseKey
  <2>4. q.list = <<k>> \o l /\ q.count = p.count /\ q.heap = p.heap
    BY <1>8, <1>10 DEF Accessing
  <2> HIDE DEF l
  <2>5. l \in Seq(Key) /\ NoDup(l) /\ ~In(l, k)
    BY <2>3 DEF Erasing
  <2>6. Pushing(<<k>> \o l, l, k)
    BY <1>3, <2>5, PushKey
  <2>7. Pushing(q.list, l, k)
    BY <2>4, <2>6
  <2>8. \A j : In(q.list, j) <=> j \in DOMAIN m
    BY <2>1, <2>2, <2>3, <2>7 DEF Erasing, Pushing
  <2>9. q.list \in Seq(Key) /\ NoDup(q.list)
    BY <2>7 DEF Pushing
  <2>10. Listed(q.list, DOMAIN w)
    BY <1>5, <2>8, <2>9 DEF Listed
  <2>11. q \in Pols
    <3>1. q.count \in Counts /\ q.heap \in SUBSET (Key \X Nat)
      BY <1>1, <2>4
    <3> QED
      BY <1>1, <1>9, <2>9, <3>1, PolicyBuilt
  <2>12. q.policy = "LRU" /\ q.policy # "LFU"
    BY <1>9, <1>10, SMT
  <2>13. Books(q, w)
    BY <1>9, <2>10, <2>11, <2>12 DEF Books
  <2>14. ASSUME NEW i, NEW j
         PROVE  Behind(q.list, i, j) <=>
                  /\ i # k
                  /\ (j = k /\ i \in DOMAIN m) \/ (j # k /\ Behind(p.list, i, j))
    <3>1. Behind(q.list, i, j) <=> (j = k /\ In(l, i)) \/ Behind(l, i, j)
      BY <2>7 DEF Pushing
    <3>2. In(l, i) <=> i # k /\ i \in DOMAIN m
      BY <2>1, <2>3 DEF Erasing
    <3>3. Behind(l, i, j) => In(l, i) /\ In(l, j)
      BY <2>5, BehindFacts
    <3>4. i # k /\ j # k => (Behind(l, i, j) <=> Behind(p.list, i, j))
      BY <2>3 DEF Erasing
    <3> QED
      BY <2>5, <3>1, <3>2, <3>3, <3>4
  <2> QED
    BY <1>9, <2>12, <2>13, <2>14 DEF q, w, n, Covered, Touched
<1>11. CASE p.policy = "LFU"
  <2>1. p.policy # "LRU"
    BY <1>11, SMT
  <2>2. DOMAIN p.count = DOMAIN m /\ \A j \in DOMAIN m : p.count[j] = m[j].count
    BY <1>11 DEF Books, Counted
  <2>3. /\ q.list = p.list /\ q.count = Store(p.count, k, n)
        /\ q.heap = p.heap \union {<<k, n>>}
    BY <1>8, <2>1 DEF Accessing
  <2>4. Storing(q.count, p.count, k, n)
    <3>1. Storing(Store(p.count, k, n), p.count, k, n)
      BY <1>1, <1>2, <1>3, CountsChange
    <3> QED
      BY <2>3, <3>1
  <2>5. q.count \in Counts /\ DOMAIN q.count = DOMAIN m /\ q.count[k] = n
    <3>1. DOMAIN q.count = DOMAIN m \union {k}
      BY <2>2, <2>4 DEF Storing
    <3>2. DOMAIN m \union {k} = DOMAIN m
      BY SMT
    <3> QED
      BY <2>4, <3>1, <3>2 DEF Storing
  <2>6. \A j \in DOMAIN m : j # k => q.count[j] = p.count[j]
    BY <2>2, <2>4 DEF Storing
  <2>7. Counted(q.count, w)
    <3>1. n = e.count
      BY SMT DEF n
    <3>2. q.count[k] = w[k].count
      BY <1>5, <2>5, <3>1
    <3>3. \A j \in DOMAIN m : j # k => q.count[j] = w[j].count
      BY <1>5, <2>2, <2>6
    <3> QED
      BY <1>5, <2>5, <3>2, <3>3 DEF Counted
  <2>8. q.heap \in SUBSET (Key \X Nat)
    <3>1. p.heap \union {<<k, n>>} \in SUBSET (Key \X Nat)
      BY <1>1, <1>2, <1>3, SMT
    <3> QED
      BY <2>3, <3>1
  <2>9. q \in Pols
    <3>1. q.list \in Seq(Key)
      BY <1>1, <2>3
    <3> QED
      BY <1>1, <1>9, <2>5, <2>8, <3>1, PolicyBuilt
  <2>10. Books(q, w)
    BY <1>9, <2>1, <2>7, <2>9 DEF Books
  <2>11. Covered(q, DOMAIN m)
    <3>1. \A j \in DOMAIN m : j # k => <<j, q.count[j]>> \in q.heap
      BY <1>11, <2>3, <2>6 DEF Covered
    <3>2. <<k, q.count[k]>> \in q.heap
      BY <2>3, <2>5
    <3> QED
      BY <3>1, <3>2 DEF Covered
  <2> QED
    BY <1>9, <2>1, <2>10, <2>11 DEF q, w, n, Touched
<1> QED
  BY <1>1, <1>10, <1>11

\* k may be evicted from m, and then q is what is left of p.
Candidate(k, q, p, m) ==
  /\ k \in DOMAIN m
  /\ Books(q, m) /\ Covered(q, DOMAIN m \ {k})
  /\ q.policy = p.policy
  /\ \A i, j : Before(q, i, j) <=> Before(p, i, j)
  /\ \A j \in DOMAIN m \ {k} : Before(p, k, j)

\* What get_eviction_candidate returns.
LEMMA CandidateBooks ==
  ASSUME NEW m \in Maps, NEW p, Books(p, m), Covered(p, DOMAIN m), NEW c \in Candidates(p)
  PROVE  Candidate(c.victim, c.left, p, m)
<1> USE Zenon
<1>1. /\ p \in Pols /\ p.policy \in {"LRU", "LFU"} /\ p.count \in Counts
      /\ p.list \in Seq(Key) /\ p.heap \in SUBSET (Key \X Nat)
  BY PolicyFields DEF Books
<1>2. CASE p.policy = "LRU"
  <2>1. p.policy # "LFU"
    BY <1>2, SMT
  <2>2. p.list # << >> /\ c = [victim |-> Back(p.list), left |-> p]
    BY <1>2 DEF Candidates, LruCandidates
  <2>3. c.victim = Back(p.list) /\ c.left = p
    BY <2>2
  <2>4. NoDup(p.list) /\ \A j : In(p.list, j) <=> j \in DOMAIN m
    BY <1>2 DEF Books, Listed
  <2>5. /\ In(p.list, Back(p.list))
        /\ \A j : In(p.list, j) /\ j # Back(p.list) => Behind(p.list, Back(p.list), j)
    BY <1>1, <2>2, <2>4, LastKey
  <2>6. \A j \in DOMAIN m \ {c.victim} : Before(p, c.victim, j)
    BY <2>1, <2>3, <2>4, <2>5 DEF Before
  <2> QED
    BY <2>1, <2>3, <2>4, <2>5, <2>6 DEF Covered, Candidate
<1>3. CASE p.policy = "LFU"
  <2>1. p.policy # "LRU"
    BY <1>3, SMT
  <2>2. DOMAIN p.count = DOMAIN m
    BY <1>3 DEF Books, Counted
  <2>3. PICK e \in Valid(p) : /\ \A f \in Valid(p) : e[2] <= f[2]
                              /\ c = [victim |-> e[1],
                                      left |-> [p EXCEPT !.heap = {f \in @ : f[2] >= e[2]} \ {e}]]
    BY <2>1 DEF Candidates, LfuCandidates
  <2> DEFINE h == {f \in p.heap : f[2] >= e[2]} \ {e}
             q == [p EXCEPT !.heap = h]
             k == e[1]
  <2>4. c.victim = k /\ c.left = q
    BY <2>3
  <2>5. k \in DOMAIN m /\ p.count[k] = e[2] /\ e \in p.heap
    BY <2>2, <2>3 DEF Valid
  <2>6. h \in SUBSET (Key \X Nat)
    BY <1>1
  <2>7. ASSUME NEW j \in DOMAIN m PROVE <<j, p.count[j]>> \in Valid(p) /\ p.count[k] <= p.count[j]
    <3>1. <<j, p.count[j]>> \in p.heap
      BY <1>3 DEF Covered
    <3>2. <<j, p.count[j]>>[1] = j /\ <<j, p.count[j]>>[2] = p.count[j]
      BY SMT
    <3>3. <<j, p.count[j]>> \in Valid(p)
      BY <2>2, <3>1, <3>2 DEF Valid
    <3>4. e[2] <= <<j, p.count[j]>>[2]
      BY <2>3, <3>3
    <3> QED
      BY <2>5, <3>2, <3>3, <3>4
  <2>8. ASSUME NEW j \in DOMAIN m, j # k PROVE <<j, p.count[j]>> \in h
    <3>1. <<j, p.count[j]>> \in p.heap
      BY <1>3 DEF Covered
    <3>2. <<j, p.count[j]>>[1] = j /\ <<j, p.count[j]>>[2] = p.count[j]
      BY SMT
    <3>3. p.count[j] \in Nat /\ p.count[k] \in Nat
      BY <1>1, <2>2, <2>5, CountsAre
    <3>4. p.count[j] >= e[2]
      BY <2>5, <2>7
    <3>5. <<j, p.count[j]>> # e
      BY <2>8, <3>2
    <3> QED
      BY <3>1, <3>2, <3>4, <3>5
  <2> HIDE DEF h
  <2>9. /\ q \in Pols /\ q.policy = p.policy /\ q.count = p.count /\ q.list = p.list
        /\ q.mem = p.mem /\ q.heap = h
    BY <1>1, <2>6, SMT DEF Pols
  <2> HIDE DEF q
  <2>10. Books(q, m)
    BY <2>9 DEF Books
  <2>11. Covered(q, DOMAIN m \ {k})
    BY <2>8, <2>9 DEF Covered
  <2>12. \A i, j : Before(q, i, j) <=> Before(p, i, j)
    BY <2>9 DEF Before
  <2>13. \A j \in DOMAIN m \ {k} : Before(p, k, j)
    BY <1>3, <2>7 DEF Before
  <2> QED
    BY <2>4, <2>5, <2>9, <2>10, <2>11, <2>12, <2>13 DEF Candidate
<1> QED
  BY <1>1, <1>2, <1>3

\* A policy that should evict has a candidate.
LEMMA CandidateExists ==
  ASSUME NEW m \in Maps, NEW p, Books(p, m), Covered(p, DOMAIN m), ShouldEvict(p)
  PROVE  Candidates(p) # {}
<1> USE Zenon
<1>1. /\ p \in Pols /\ p.policy \in {"LRU", "LFU"} /\ p.count \in Counts
      /\ p.list \in Seq(Key) /\ p.mem \in Nat /\ p.mem = Bytes(m, DOMAIN m)
  BY PolicyFields DEF Books
<1>2. PICK k : k \in DOMAIN m
  <2>1. DOMAIN m = {} => p.mem = 0
    BY <1>1, BytesEmpty
  <2>2. p.mem # 0
    BY <1>1, PolicyConstants, SMT DEF ShouldEvict
  <2> QED
    BY <2>1, <2>2
<1>3. CASE p.policy = "LRU"
  <2>1. In(p.list, k)
    BY <1>2, <1>3 DEF Books, Listed
  <2>2. p.list # << >>
    BY <2>1, SMT DEF In
  <2> QED
    BY <1>3, <2>2 DEF Candidates, LruCandidates
<1>4. CASE p.policy = "LFU"
  <2>1. p.policy # "LRU"
    BY <1>4, SMT
  <2>2. DOMAIN p.count = DOMAIN m
    BY <1>4 DEF Books, Counted
  <2> DEFINE S == {p.count[j] : j \in DOMAIN m}
  <2>3. S \in SUBSET Nat /\ S # {}
    BY <1>1, <1>2, <2>2, CountsAre
  <2>4. PICK x \in S : \A y \in S : x <= y
    BY <2>3, LeastNat
  <2>5. PICK j \in DOMAIN m : x = p.count[j]
    BY <2>4
  <2> DEFINE e == <<j, p.count[j]>>
  <2>6. e[1] = j /\ e[2] = p.count[j]
    BY SMT
  <2>7. e \in p.heap
    BY <1>4 DEF Covered
  <2> HIDE DEF e
  <2>8. e \in Valid(p)
    BY <2>2, <2>6, <2>7 DEF Valid
  <2>9. \A f \in Valid(p) : f[2] \in S
    BY <2>2 DEF Valid
  <2>10. \A f \in Valid(p) : e[2] <= f[2]
    BY <2>4, <2>5, <2>6, <2>9
  <2> QED
    BY <2>1, <2>8, <2>10 DEF Candidates, LfuCandidates
<1> QED
  BY <1>1, <1>3, <1>4


-----------------------------------------------------------------------------
(* The operations of the table. *)

Tables == [buckets : Seq(Seq(KeyEntry)), entries : Nat, pol : Pols]

\* What holds of a table while key k is being evicted.
NearlyInv(t, k) ==
  /\ t \in Tables /\ Chained(t) /\ t.entries = Cardinality(Held(t))
  /\ Books(t.pol, View(t)) /\ Covered(t.pol, Held(t) \ {k})

\* The invariant of a table.
TInv(t) ==
  /\ t \in Tables /\ Chained(t) /\ t.entries = Cardinality(Held(t))
  /\ Books(t.pol, View(t)) /\ Covered(t.pol, Held(t))

\* The types of a table's fields.
LEMMA TableFields ==
  ASSUME NEW t \in Tables
  PROVE  t.buckets \in Seq(Seq(KeyEntry)) /\ t.entries \in Nat /\ t.pol \in Pols
  BY DEF Tables

\* A table holds finitely many keys.
LEMMA HeldFinite ==
  ASSUME NEW t
  PROVE  IsFiniteSet(Held(t)) /\ Cardinality(Held(t)) \in Nat
<1>1. Held(t) \in SUBSET Key
  BY Zenon DEF Held
<1> QED
  BY <1>1, PolicyConstants, FS_Subset, FS_CardinalityType, Zenon

\* Lookups depend on the buckets alone.
LEMMA SameBuckets ==
  ASSUME NEW t, NEW u, t.buckets = u.buckets
  PROVE  (Chained(t) <=> Chained(u)) /\ Held(t) = Held(u) /\ View(t) = View(u)
<1> USE Zenon
<1>1. \A k : BucketOf(t, k) = BucketOf(u, k)
  BY DEF BucketOf
<1>2. \A k : t.buckets[BucketOf(t, k)] = u.buckets[BucketOf(u, k)]
  BY <1>1
<1>3. ASSUME NEW k PROVE (Found(t, k) <=> Found(u, k)) /\ EntryOf(t, k) = EntryOf(u, k)
  <2> DEFINE c == t.buckets[BucketOf(t, k)]
             d == u.buckets[BucketOf(u, k)]
  <2>1. c = d
    BY <1>2
  <2>2. /\ Found(t, k) <=> \E i \in DOMAIN c : c[i].key = k
        /\ Found(u, k) <=> \E i \in DOMAIN d : d[i].key = k
        /\ EntryOf(t, k) = c[First(c, k)].entry /\ EntryOf(u, k) = d[First(d, k)].entry
    BY DEF Found, EntryOf
  <2> HIDE DEF c, d
  <2> QED
    BY <2>1, <2>2, SMT
<1>4. Held(t) = Held(u)
  BY <1>3 DEF Held
<1> QED
  BY <1>1, <1>3, <1>4 DEF Chained, View

\* The constructor establishes the invariant, with an empty table.
LEMMA NewTableInv ==
  ASSUME NEW policy \in {"LRU", "LFU"}
  PROVE  /\ TInv(NewTable(policy)) /\ Held(NewTable(policy)) = {}
         /\ NewTable(policy).pol.policy = policy /\ NewTable(policy).pol.mem = 0
         /\ NewTable(policy).pol.list = << >>
<1> USE Zenon
<1> DEFINE t == NewTable(policy)
           n == Capacity(InitialCapacity)
           p == NewPolicy(policy)
<1>1. n \in Nat \ {0}
  BY CapacityIs, TableConstants
<1> HIDE DEF n
<1>2. t.buckets = [i \in 1 .. n |-> << >>] /\ t.entries = 0 /\ t.pol = p
      /\ t = [buckets |-> t.buckets, entries |-> t.entries, pol |-> t.pol]
  BY DEF NewTable, n
<1>3. /\ p.policy = policy /\ p.list = << >> /\ p.count = << >> /\ p.heap = {} /\ p.mem = 0
      /\ p = [policy |-> p.policy, list |-> p.list, count |-> p.count, heap |-> p.heap, mem |-> p.mem]
  BY DEF NewPolicy
<1> HIDE DEF t, p
<1>4. t.buckets \in Seq(Seq(KeyEntry)) /\ Len(t.buckets) = n /\ \A b \in 1 .. n : t.buckets[b] = << >>
  <2>1. << >> \in Seq(KeyEntry)
    BY SMT
  <2>2. t.buckets \in [1 .. n -> Seq(KeyEntry)] /\ \A b \in 1 .. n : t.buckets[b] = << >>
    BY <1>2, <2>1
  <2>3. n \in Nat
    BY <1>1, SMT
  <2> QED
    BY <2>2, <2>3, FunctionSeq, SMT
<1>5. \A i : i \notin 1 .. Len(<< >>)
  BY SMT
<1>6. Chained(t)
  <2>1. Len(t.buckets) > 0
    BY <1>1, <1>4, SMT
  <2> QED
    BY <1>4, <1>5, <2>1 DEF Chained
<1>7. Held(t) = {}
  <2>1. \A k \in Key : \A e : ~Has(t, k, e)
    BY <1>4, <1>5 DEF Has, InChain
  <2> QED
    BY <1>6, <2>1, Lookup DEF Held
<1>8. DOMAIN View(t) = {}
  BY <1>6, <1>7, ViewIs
<1>9. Bytes(View(t), DOMAIN View(t)) = 0
  BY <1>8, BytesEmpty
<1>10. p.list \in Seq(Key) /\ Listed(p.list, {})
  <2>1. p.list \in Seq(Key)
    BY <1>3, SMT
  <2> QED
    BY <1>3, <1>5, <2>1 DEF Listed, NoDup, In
<1>11. DOMAIN p.count = {} /\ p.count \in Counts
  <2>1. DOMAIN p.count = {}
    BY <1>3, SMT
  <2>2. p.count \in [{} -> Nat]
    BY <1>3, SMT
  <2> QED
    BY <2>1, <2>2 DEF Counts
<1>12. p \in Pols
  <2>1. p.mem \in Nat /\ p.heap \in SUBSET (Key \X Nat) /\ p.policy \in {"LRU", "LFU"}
    BY <1>3, SMT
  <2> QED
    BY <1>3, <1>10, <1>11, <2>1 DEF Pols
<1>13. Books(p, View(t))
  BY <1>3, <1>8, <1>9, <1>10, <1>11, <1>12 DEF Books, Counted
<1>14. t \in Tables
  <2>1. t.entries \in Nat
    BY <1>2, SMT
  <2> QED
    BY <1>2, <1>4, <1>12, <2>1 DEF Tables
<1>15. t.entries = Cardinality(Held(t))
  BY <1>2, <1>7, FS_EmptySet
<1> QED
  BY <1>2, <1>3, <1>6, <1>7, <1>13, <1>14, <1>15 DEF TInv, Covered, t

\* remove of a key that is there.
LEMMA RemoveTable ==
  ASSUME NEW r, NEW k \in Key, Found(r.table, k), NearlyInv(r.table, k)
  PROVE  LET u == Removed(r, k).table
         IN  /\ TInv(u) /\ View(u) = Drop(View(r.table), k) /\ Held(u) = Held(r.table) \ {k}
             /\ u.pol.policy = r.table.pol.policy
             /\ \A i, j \in Held(u) : Before(u.pol, i, j) <=> Before(r.table.pol, i, j)
<1> USE Zenon
<1> DEFINE t == r.table
           u == Removed(r, k).table
           m == View(t)
           p == t.pol
           size == Size[m[k].value]
           w == [t.buckets EXCEPT ![BucketOf(t, k)] = Erase(@, First(@, k))]
<1>1. t \in Tables /\ Chained(t) /\ t.entries = Cardinality(Held(t))
      /\ Books(p, m) /\ Covered(p, Held(t) \ {k})
  BY DEF NearlyInv
<1>2. m \in Maps /\ DOMAIN m = Held(t) /\ k \in Held(t) /\ m[k] = EntryOf(t, k)
  <2>1. k \in Held(t)
    BY DEF Held
  <2> QED
    BY <1>1, <2>1, ViewIs
<1>3. u = [t EXCEPT !.buckets[BucketOf(t, k)] = Erase(@, First(@, k)),
                    !.entries = @ - 1,
                    !.pol = OnDelete(@, k, Size[EntryOf(t, k).value])]
  BY DEF Removed
<1>4. u.buckets = w /\ u.entries = t.entries - 1 /\ u.pol = OnDelete(p, k, size)
      /\ u = [buckets |-> u.buckets, entries |-> u.entries, pol |-> u.pol]
  <2> HIDE DEF u, w, size
  <2>1. u = [t EXCEPT !.buckets = w, !.entries = @ - 1, !.pol = OnDelete(@, k, size)]
    BY <1>1, <1>2, <1>3, SMT DEF Tables, w, size
  <2> QED
    BY <1>1, <2>1 DEF Tables
<1> HIDE DEF u, m, size
<1>5. Chained(u) /\ View(u) = Drop(m, k) /\ Held(u) = Held(t) \ {k}
  BY <1>1, <1>4, EraseFromChain DEF m
<1>6. /\ Books(u.pol, Drop(m, k)) /\ Covered(u.pol, Held(t) \ {k}) /\ u.pol.policy = p.policy
      /\ \A i, j \in Held(t) \ {k} : Before(u.pol, i, j) <=> Before(p, i, j)
  <2> DEFINE q == OnDelete(p, k, size)
  <2>1. /\ Books(q, Drop(m, k)) /\ Covered(q, DOMAIN m \ {k}) /\ q.policy = p.policy
        /\ \A i, j \in DOMAIN m \ {k} : Before(q, i, j) <=> Before(p, i, j)
    BY <1>1, <1>2, DeleteBooks DEF size
  <2> HIDE DEF q
  <2>2. u.pol = q
    BY <1>4 DEF q
  <2> QED
    BY <1>2, <2>1, <2>2
<1>7. u.entries = Cardinality(Held(u)) /\ u.entries \in Nat
  <2>1. IsFiniteSet(Held(t)) /\ Cardinality(Held(u)) \in Nat
    BY HeldFinite
  <2>2. Cardinality(Held(t) \ {k}) = Cardinality(Held(t)) - 1
    BY <1>2, <2>1, FS_RemoveElement
  <2> QED
    BY <1>1, <1>4, <1>5, <2>1, <2>2
<1>8. u \in Tables
  <2>1. u.pol \in Pols
    BY <1>6 DEF Books
  <2>2. u.buckets \in Seq(Seq(KeyEntry))
    BY <1>5 DEF Chained
  <2> QED
    BY <1>4, <1>7, <2>1, <2>2 DEF Tables
<1> QED
  BY <1>5, <1>6, <1>7, <1>8 DEF TInv, u, m

\* The invariant implies what is left of it in the middle of an update.
LEMMA NearlyHolds ==
  ASSUME NEW t, TInv(t), NEW k
  PROVE  NearlyInv(t, k)
  BY Zenon DEF TInv, NearlyInv, Covered

\* resize_if_needed keeps the invariant, the map and the policy.
LEMMA ResizeTable ==
  ASSUME NEW t, TInv(t)
  PROVE  LET u == ResizeIfNeeded(t)
         IN  TInv(u) /\ View(u) = View(t) /\ Held(u) = Held(t) /\ u.pol = t.pol
<1> USE Zenon
<1> DEFINE n == 2 * Len(t.buckets)
           u == Rehash(t, n)
           w == [b \in 1 .. n |-> Listing({kv \in Pairs(t) : (Hash[kv.key] % n) + 1 = b})]
<1>1. t \in Tables /\ Chained(t) /\ t.entries \in Nat /\ t.pol \in Pols
  BY TableFields DEF TInv
<1>2. n \in Nat \ {0}
  BY <1>1, SMT DEF Chained
<1> HIDE DEF n
<1>3. u = [t EXCEPT !.buckets = w]
  BY DEF Rehash
<1> HIDE DEF w
<1>4. u.buckets = w /\ u.entries = t.entries /\ u.pol = t.pol
      /\ u = [buckets |-> u.buckets, entries |-> u.entries, pol |-> u.pol]
  BY <1>1, <1>3 DEF Tables
<1> HIDE DEF u
<1>5. Chained(u) /\ View(u) = View(t) /\ Held(u) = Held(t)
  BY <1>1, <1>2, <1>4, RehashChains DEF w
<1>6. u \in Tables
  <2>1. u.buckets \in Seq(Seq(KeyEntry))
    BY <1>5 DEF Chained
  <2> QED
    BY <1>1, <1>4, <2>1 DEF Tables
<1>7. TInv(u)
  BY <1>4, <1>5, <1>6 DEF TInv
<1> QED
  BY <1>4, <1>5, <1>7 DEF ResizeIfNeeded, u, n

\* Dropping a key before it is stored makes no difference.
LEMMA MapsChange ==
  ASSUME NEW m \in Maps, NEW k \in DOMAIN m
  PROVE  /\ Drop(m, k) \in Maps
         /\ \A e : Store(Drop(m, k), k, e) = Store(m, k, e)
<1> USE Zenon
<1>1. DOMAIN m \subseteq Key /\ m \in [DOMAIN m -> Entries]
  BY MapFacts
<1>2. Drop(m, k) \in [DOMAIN m \ {k} -> Entries]
  BY <1>1 DEF Drop
<1>3. DOMAIN m \ {k} \in SUBSET Key
  BY <1>1, SMT
<1>4. DOMAIN Drop(m, k) = DOMAIN m \ {k} /\ \A j \in DOMAIN m \ {k} : Drop(m, k)[j] = m[j]
  BY DEF Drop
<1>5. (DOMAIN m \ {k}) \union {k} = DOMAIN m \union {k}
  BY SMT
<1>6. ASSUME NEW e PROVE Store(Drop(m, k), k, e) = Store(m, k, e)
  <2> DEFINE d == Drop(m, k)
  <2> HIDE DEF d
  <2>1. \A j \in DOMAIN m \union {k} : (IF j = k THEN e ELSE d[j]) = (IF j = k THEN e ELSE m[j])
    BY <1>4 DEF d
  <2>2. DOMAIN d \union {k} = DOMAIN m \union {k}
    BY <1>4, <1>5 DEF d
  <2> QED
    BY <2>1, <2>2 DEF Store, d
<1> QED
  BY <1>2, <1>3, <1>6 DEF Maps

\* What u is after e was stored for k in t; the order is for LRU.
PutIn(u, t, k, e) ==
  /\ TInv(u) /\ View(u) = Store(View(t), k, e) /\ Held(u) = Held(t) \union {k}
  /\ u.pol.policy = t.pol.policy
  /\ u.pol.mem <= t.pol.mem + Size[e.value]
  /\ t.pol.policy = "LRU" =>
       \A i, j : Behind(u.pol.list, i, j) <=>
                   /\ i # k
                   /\ (j = k /\ i \in Held(t)) \/ (j # k /\ Behind(t.pol.list, i, j))

\* Storing under k, new or not, keeps the invariant and stores e.
LEMMA PutTable ==
  ASSUME NEW t, TInv(t), NEW k \in Key, NEW e \in Entries
  PROVE  PutIn(Put(t, k, e), t, k, e)
<1> USE Zenon
<1> DEFINE u == Put(t, k, e)
           m == View(t)
           p == t.pol
           b == BucketOf(t, k)
           kv == [key |-> k, entry |-> e]
<1>1. /\ t \in Tables /\ Chained(t) /\ t.entries = Cardinality(Held(t)) /\ t.entries \in Nat
      /\ Books(p, m) /\ Covered(p, Held(t)) /\ p \in Pols
  BY TableFields DEF TInv
<1>2. m \in Maps /\ DOMAIN m = Held(t) /\ \A j \in Held(t) : m[j] = EntryOf(t, j)
  BY <1>1, ViewIs
<1>3. p.mem \in Nat /\ p.policy \in {"LRU", "LFU"} /\ p.list \in Seq(Key)
  BY <1>1, PolicyFields
<1>4. Size[e.value] \in Nat
  <2>1. e.value \in Value
    BY SMT DEF Entries
  <2> QED
    BY <2>1, TableConstants, SMT
<1>5. IsFiniteSet(Held(t)) /\ Cardinality(Held(t)) \in Nat
  BY HeldFinite
<1>6. p.policy = "LRU" => \A i, j : Behind(p.list, i, j) => i \in Held(t) /\ j \in Held(t) /\ i # j
  <2>1. ASSUME p.policy = "LRU"
        PROVE  NoDup(p.list) /\ \A j : In(p.list, j) <=> j \in Held(t)
    BY <1>1, <1>2, <2>1 DEF Books, Listed
  <2> QED
    BY <1>3, <2>1, BehindFacts
<1>7. CASE Found(t, k)
  <2> DEFINE old == Size[EntryOf(t, k).value]
             p1 == OnDelete(p, k, old)
             q == OnInsert(p1, k, Size[e.value], e.count)
             m1 == Drop(m, k)
             w == [t.buckets EXCEPT ![b] = [@ EXCEPT ![First(@, k)] = kv]]
  <2>1. u = [[t EXCEPT !.buckets[b] = [@ EXCEPT ![First(@, k)] = kv]] EXCEPT !.pol = OnInsert(OnDelete(@, k, old), k, Size[e.value], e.count)]
    BY <1>7 DEF Put, SetEntry
  <2>2. u.buckets = w /\ u.entries = t.entries /\ u.pol = q
        /\ u = [buckets |-> u.buckets, entries |-> u.entries, pol |-> u.pol]
    <3> HIDE DEF u, w, q, kv, b, old
    <3>1. u = [t EXCEPT !.buckets = w, !.pol = q]
      BY <1>1, <2>1, SMT DEF Tables, w, q
    <3> QED
      BY <1>1, <3>1 DEF Tables
  <2>3. k \in Held(t) /\ k \in DOMAIN m /\ old = Size[m[k].value]
    BY <1>2, <1>7 DEF Held
  <2> HIDE DEF u, m, old
  <2>4. Chained(u) /\ View(u) = Store(m, k, e) /\ Held(u) = Held(t)
    BY <1>1, <1>7, <2>2, SetInChain DEF m
  <2>5. /\ Books(p1, m1) /\ Covered(p1, DOMAIN m \ {k}) /\ p1.policy = p.policy
        /\ \A i, j \in DOMAIN m \ {k} : Before(p1, i, j) <=> Before(p, i, j)
    <3>1. Covered(p, DOMAIN m \ {k})
      BY <1>1, <1>2 DEF Covered
    <3> QED
      BY <1>1, <1>2, <2>3, <3>1, DeleteBooks
  <2>6. /\ m1 \in Maps /\ DOMAIN m1 = DOMAIN m \ {k} /\ k \notin DOMAIN m1
        /\ Store(m1, k, e) = Store(m, k, e)
    BY <1>2, <2>3, MapsChange, DropBytes
  <2> HIDE DEF p1, m1
  <2>7. /\ Books(q, Store(m1, k, e)) /\ Covered(q, DOMAIN m1 \union {k}) /\ q.policy = p1.policy
        /\ p1.policy = "LRU" =>
             \A i, j : Behind(q.list, i, j) <=>
                         (j = k /\ i \in DOMAIN m1) \/ Behind(p1.list, i, j)
    <3>1. Booked(q, p1, m1, k, e)
      BY <2>5, <2>6, InsertBooks
    <3> QED
      BY <3>1 DEF Booked
  <2> HIDE DEF q
  <2>8. Books(u.pol, View(u)) /\ Covered(u.pol, Held(u)) /\ u.pol.policy = p.policy
    <3>1. DOMAIN m1 \union {k} = Held(t)
      BY <1>2, <2>3, <2>6
    <3> QED
      BY <2>2, <2>4, <2>5, <2>6, <2>7, <3>1
  <2>9. u \in Tables
    <3>1. u.pol \in Pols
      BY <2>8 DEF Books
    <3>2. u.buckets \in Seq(Seq(KeyEntry))
      BY <2>4 DEF Chained
    <3> QED
      BY <1>1, <2>2, <3>1, <3>2 DEF Tables
  <2>10. TInv(u)
    BY <1>1, <2>2, <2>4, <2>8, <2>9 DEF TInv
  <2>11. u.pol.mem <= p.mem + Size[e.value]
    <3>1. p.mem = Bytes(m1, DOMAIN m1) + old /\ Bytes(m1, DOMAIN m1) \in Nat /\ old \in Nat
      <4>1. /\ Bytes(m, DOMAIN m) = Bytes(Drop(m, k), DOMAIN m \ {k}) + Size[m[k].value]
            /\ Bytes(Drop(m, k), DOMAIN m \ {k}) \in Nat
        BY <1>2, <2>3, DropBytes
      <4>2. p.mem = Bytes(m, DOMAIN m)
        BY <1>1 DEF Books
      <4>3. Size[m[k].value] \in Nat
        BY <1>2, <2>3, MapFacts DEF Sized
      <4> QED
        BY <2>3, <2>6, <4>1, <4>2, <4>3 DEF m1
    <3>2. u.pol.mem = Bytes(Store(m1, k, e), DOMAIN m1 \union {k})
      <4>1. DOMAIN Store(m1, k, e) = DOMAIN m1 \union {k}
        BY <2>6, StoreBytes
      <4> QED
        BY <2>2, <2>7, <4>1 DEF Books
    <3>3. Bytes(Store(m1, k, e), DOMAIN m1 \union {k}) = Bytes(m1, DOMAIN m1) + Size[e.value]
      BY <2>6, StoreBytes
    <3> QED
      BY <1>4, <3>1, <3>2, <3>3, SMT
  <2>12. ASSUME p.policy = "LRU", NEW i, NEW j
         PROVE  Behind(u.pol.list, i, j) <=>
                   /\ i # k
                   /\ (j = k /\ i \in Held(t)) \/ (j # k /\ Behind(p.list, i, j))
    <3>1. /\ p1.policy = "LRU" /\ p1.policy # "LFU" /\ p.policy # "LFU"
      BY <2>5, <2>12, SMT
    <3>2. Behind(u.pol.list, i, j) <=> (j = k /\ i \in DOMAIN m1) \/ Behind(p1.list, i, j)
      BY <2>2, <2>7, <3>1
    <3>3. Behind(p1.list, i, j) => i \in DOMAIN m1 /\ j \in DOMAIN m1
      <4>1. p1.list \in Seq(Key) /\ NoDup(p1.list) /\ \A x : In(p1.list, x) <=> x \in DOMAIN m1
        BY <2>5, <3>1 DEF Books, Listed
      <4> QED
        BY <4>1, BehindFacts
    <3>4. i \in DOMAIN m1 /\ j \in DOMAIN m1 => (Behind(p1.list, i, j) <=> Behind(p.list, i, j))
      BY <2>5, <2>6, <3>1 DEF Before
    <3> QED
      BY <1>2, <1>6, <2>6, <2>12, <3>2, <3>3, <3>4
  <2>13. Held(u) = Held(t) \union {k}
    BY <2>3, <2>4
  <2> QED
    BY <2>4, <2>8, <2>10, <2>11, <2>12, <2>13 DEF PutIn, u, m
<1>8. CASE ~Found(t, k)
  <2> DEFINE q == OnInsert(p, k, Size[e.value], e.count)
             w == [t.buckets EXCEPT ![b] = Append(@, kv)]
  <2>1. u = [t EXCEPT !.buckets[b] = Append(@, kv), !.entries = @ + 1, !.pol = OnInsert(@, k, Size[e.value], e.count)]
    BY <1>8 DEF Put
  <2>2. u.buckets = w /\ u.entries = t.entries + 1 /\ u.pol = q
        /\ u = [buckets |-> u.buckets, entries |-> u.entries, pol |-> u.pol]
    <3> HIDE DEF u, w, q, kv, b
    <3>1. u = [t EXCEPT !.buckets = w, !.entries = @ + 1, !.pol = q]
      BY <1>1, <2>1, SMT DEF Tables, w, q
    <3> QED
      BY <1>1, <3>1 DEF Tables
  <2>3. k \notin Held(t) /\ k \notin DOMAIN m
    BY <1>2, <1>8 DEF Held
  <2> HIDE DEF u, m
  <2>4. Chained(u) /\ View(u) = Store(m, k, e) /\ Held(u) = Held(t) \union {k}
    <3>1. Appended(u, t, k, e)
      BY <2>2 DEF Appended
    <3> QED
      BY <1>1, <1>8, <3>1, AppendToChain DEF m
  <2>5. /\ Books(q, Store(m, k, e)) /\ Covered(q, DOMAIN m \union {k}) /\ q.policy = p.policy
        /\ p.policy = "LRU" =>
             \A i, j : Behind(q.list, i, j) <=>
                         (j = k /\ i \in DOMAIN m) \/ Behind(p.list, i, j)
    <3>1. Booked(q, p, m, k, e)
      BY <1>1, <1>2, <2>3, InsertBooks
    <3> QED
      BY <3>1 DEF Booked
  <2> HIDE DEF q
  <2>6. Books(u.pol, View(u)) /\ Covered(u.pol, Held(u)) /\ u.pol.policy = p.policy
    BY <1>2, <2>2, <2>4, <2>5
  <2>7. u.entries = Cardinality(Held(u)) /\ u.entries \in Nat
    <3>1. Cardinality(Held(t) \union {k}) = Cardinality(Held(t)) + 1
      BY <1>5, <2>3, FS_AddElement
    <3> QED
      BY <1>1, <2>2, <2>4, <3>1, SMT
  <2>8. u \in Tables
    <3>1. u.pol \in Pols
      BY <2>6 DEF Books
    <3>2. u.buckets \in Seq(Seq(KeyEntry))
      BY <2>4 DEF Chained
    <3> QED
      BY <2>2, <2>7, <3>1, <3>2 DEF Tables
  <2>9. TInv(u)
    BY <2>4, <2>6, <2>7, <2>8 DEF TInv
  <2>10. u.pol.mem <= p.mem + Size[e.value]
    <3>1. DOMAIN Store(m, k, e) = DOMAIN m \union {k}
          /\ Bytes(Store(m, k, e), DOMAIN m \union {k}) = Bytes(m, DOMAIN m) + Size[e.value]
      BY <1>2, <2>3, StoreBytes
    <3>2. u.pol.mem = p.mem + Size[e.value]
      BY <1>1, <2>2, <2>5, <3>1 DEF Books
    <3> QED
      BY <1>3, <1>4, <3>2, SMT
  <2>11. ASSUME p.policy = "LRU", NEW i, NEW j
         PROVE  Behind(u.pol.list, i, j) <=>
                   /\ i # k
                   /\ (j = k /\ i \in Held(t)) \/ (j # k /\ Behind(p.list, i, j))
    BY <1>2, <1>6, <2>2, <2>3, <2>5, <2>11
  <2> QED
    BY <2>4, <2>6, <2>9, <2>10, <2>11 DEF PutIn, u, m
<1> QED
  BY <1>7, <1>8

\* get of a key that is there.
LEMMA AccessTable ==
  ASSUME NEW t, TInv(t), NEW k \in Key, Found(t, k)
  PROVE  LET u == Accessed(t, k)
             e == [EntryOf(t, k) EXCEPT !.count = IF t.pol.policy = "LFU" THEN @ + 1 ELSE @]
         IN  /\ PutIn(u, t, k, e) /\ e \in Entries
             /\ e.value = EntryOf(t, k).value /\ e.expiry = EntryOf(t, k).expiry
             /\ e.count = IF t.pol.policy = "LFU" THEN EntryOf(t, k).count + 1
                          ELSE EntryOf(t, k).count
             /\ u.pol.mem = t.pol.mem
<1> USE Zenon
<1> DEFINE e == [EntryOf(t, k) EXCEPT !.count = IF t.pol.policy = "LFU" THEN @ + 1 ELSE @]
           u == Accessed(t, k)
           m == View(t)
           p == t.pol
           b == BucketOf(t, k)
           kv == [key |-> k, entry |-> e]
           q == OnAccess(p, k, e.count)
           w == [t.buckets EXCEPT ![b] = [@ EXCEPT ![First(@, k)] = kv]]
<1>1. /\ t \in Tables /\ Chained(t) /\ t.entries = Cardinality(Held(t)) /\ t.entries \in Nat
      /\ Books(p, m) /\ Covered(p, Held(t)) /\ p \in Pols
  BY TableFields DEF TInv
<1>2. /\ m \in Maps /\ DOMAIN m = Held(t) /\ k \in Held(t) /\ m[k] = EntryOf(t, k)
      /\ EntryOf(t, k) \in Entries
  <2>1. k \in Held(t)
    BY DEF Held
  <2> QED
    BY <1>1, <2>1, ViewIs, Lookup
<1>3. /\ e \in Entries /\ e.value = EntryOf(t, k).value /\ e.expiry = EntryOf(t, k).expiry
      /\ e.count = IF t.pol.policy = "LFU" THEN EntryOf(t, k).count + 1 ELSE EntryOf(t, k).count
  BY <1>2, SMT DEF Entries
<1> HIDE DEF e
<1>4. u = [[t EXCEPT !.buckets[b] = [@ EXCEPT ![First(@, k)] = kv]] EXCEPT !.pol = OnAccess(@, k, e.count)]
  BY DEF Accessed, SetEntry, e
<1>5. u.buckets = w /\ u.entries = t.entries /\ u.pol = q
      /\ u = [buckets |-> u.buckets, entries |-> u.entries, pol |-> u.pol]
  <2> HIDE DEF u, w, q, kv, b
  <2>1. u = [t EXCEPT !.buckets = w, !.pol = q]
    BY <1>1, <1>4, SMT DEF Tables, w, q
  <2> QED
    BY <1>1, <2>1 DEF Tables
<1> HIDE DEF u, m
<1>6. Chained(u) /\ View(u) = Store(m, k, e) /\ Held(u) = Held(t)
  BY <1>1, <1>3, <1>5, SetInChain DEF m
<1>7. /\ Books(q, Store(m, k, e)) /\ Covered(q, DOMAIN m) /\ q.policy = p.policy
      /\ p.policy = "LRU" =>
           \A i, j : Behind(q.list, i, j) <=>
                       /\ i # k
                       /\ (j = k /\ i \in DOMAIN m) \/ (j # k /\ Behind(p.list, i, j))
  <2>1. e.value = m[k].value /\ k \in DOMAIN m /\ Covered(p, DOMAIN m)
    BY <1>1, <1>2, <1>3
  <2>2. Touched(q, p, m, k, e)
    BY <1>1, <1>2, <1>3, <2>1, AccessBooks
  <2> QED
    BY <2>2 DEF Touched
<1> HIDE DEF q
<1>8. Books(u.pol, View(u)) /\ Covered(u.pol, Held(u)) /\ u.pol.policy = p.policy
  BY <1>2, <1>5, <1>6, <1>7
<1>9. u \in Tables
  <2>1. u.pol \in Pols
    BY <1>8 DEF Books
  <2>2. u.buckets \in Seq(Seq(KeyEntry))
    BY <1>6 DEF Chained
  <2> QED
    BY <1>1, <1>5, <2>1, <2>2 DEF Tables
<1>10. TInv(u)
  BY <1>1, <1>5, <1>6, <1>8, <1>9 DEF TInv
<1>11. u.pol.mem = p.mem
  <2> DEFINE s == Store(m, k, e)
  <2>1. s = [j \in DOMAIN m \union {k} |-> IF j = k THEN e ELSE m[j]] /\ DOMAIN m \union {k} = DOMAIN m
    BY <1>2, SMT DEF Store
  <2>2. DOMAIN s = DOMAIN m /\ \A j \in DOMAIN m : m[j].value = s[j].value
    BY <1>2, <1>3, <2>1
  <2> HIDE DEF s
  <2>3. Bytes(m, DOMAIN m) = Bytes(s, DOMAIN m)
    BY <2>2, BytesSame
  <2>4. u.pol.mem = Bytes(s, DOMAIN s) /\ p.mem = Bytes(m, DOMAIN m)
    BY <1>1, <1>5, <1>7 DEF Books, s
  <2> QED
    BY <2>2, <2>3, <2>4
<1>12. u.pol.mem <= p.mem + Size[e.value]
  <2>1. p.mem \in Nat
    BY <1>1, PolicyFields
  <2>2. e.value \in Value
    BY <1>3, SMT DEF Entries
  <2>3. Size[e.value] \in Nat
    BY <2>2, TableConstants, SMT
  <2> QED
    BY <1>11, <2>1, <2>3, SMT
<1>13. Held(u) = Held(t) \union {k}
  BY <1>2, <1>6
<1>14. PutIn(u, t, k, e)
  BY <1>2, <1>5, <1>6, <1>7, <1>8, <1>10, <1>12, <1>13 DEF PutIn, m
<1> QED
  BY <1>3, <1>11, <1>14 DEF u, e

-----------------------------------------------------------------------------
(* evict_if_needed *)

Records == [op : {"DELETE"}, key : Key]
             \union [op : {"SET"}, key : Key, value : Value, expiry : Nat]

Runs == [table : {t \in Tables : TInv(t)}, log : Seq(Records)]

\* The types of a call's table and log.
LEMMA RunFields ==
  ASSUME NEW r \in Runs
  PROVE  TInv(r.table) /\ r.table \in Tables /\ r.log \in Seq(Records)
  BY DEF Runs

\* u is what is left of t after some turns: the entries that were kept are as they
\* were, the policy would rather have evicted what was lost, and the last of it was
\* evicted because the memory was above the limit.
Evicting(u, t) ==
  LET lost == Held(t) \ Held(u)
  IN  /\ Held(u) \subseteq Held(t) /\ \A k \in Held(u) : View(u)[k] = View(t)[k]
      /\ u.pol.policy = t.pol.policy
      /\ \A i \in lost, j \in Held(u) : Before(t.pol, i, j)
      /\ \A i, j \in Held(u) : Before(u.pol, i, j) <=> Before(t.pol, i, j)
      /\ lost # {} => \E k \in lost : Bytes(View(t), Held(u) \union {k}) > MemoryLimit

\* After n turns the loop is over or n entries are gone.
Turn(u, t, n) ==
  Evicting(u, t) /\ (ShouldEvict(u.pol) => Cardinality(Held(u)) + n = t.entries)

\* A turn removes a candidate, unless the loop is over.
LEMMA TurnIs ==
  ASSUME NEW r \in Runs, NEW s \in EvictOnce(r)
  PROVE  \/ ~ShouldEvict(r.table.pol) /\ s = r
         \/ /\ ShouldEvict(r.table.pol)
            /\ s \in Runs
            /\ \E k \in Held(r.table) :
                 /\ s.log = Append(r.log, [op |-> "DELETE", key |-> k])
                 /\ Held(s.table) = Held(r.table) \ {k}
                 /\ View(s.table) = Drop(View(r.table), k)
                 /\ s.table.pol.policy = r.table.pol.policy
                 /\ \A j \in Held(s.table) : Before(r.table.pol, k, j)
                 /\ \A i, j \in Held(s.table) :
                       Before(s.table.pol, i, j) <=> Before(r.table.pol, i, j)
<1> USE Zenon
<1> DEFINE t == r.table
           p == t.pol
           m == View(t)
<1>1. /\ TInv(t) /\ t \in Tables /\ r.log \in Seq(Records) /\ Chained(t)
      /\ t.entries = Cardinality(Held(t)) /\ Books(p, m) /\ Covered(p, Held(t))
  BY RunFields DEF TInv
<1>2. m \in Maps /\ DOMAIN m = Held(t) /\ Held(t) \subseteq Key
  BY <1>1, ViewIs
<1>3. CASE ~ShouldEvict(p)
  BY <1>3 DEF EvictOnce
<1>4. CASE ShouldEvict(p)
  <2>1. Candidates(p) # {}
    BY <1>1, <1>2, <1>4, CandidateExists
  <2>2. PICK c \in Candidates(p) : s = Removed([r EXCEPT !.table.pol = c.left], c.victim)
    BY <1>4, <2>1 DEF EvictOnce
  <2> DEFINE x == [r EXCEPT !.table.pol = c.left]
             k == c.victim
             q == c.left
  <2>3. /\ k \in Held(t) /\ Books(q, m) /\ Covered(q, Held(t) \ {k}) /\ q.policy = p.policy
        /\ \A i, j : Before(q, i, j) <=> Before(p, i, j)
        /\ \A j \in Held(t) \ {k} : Before(p, k, j)
    <3> HIDE DEF m, k, q
    <3>1. Covered(p, DOMAIN m)
      BY <1>1, <1>2
    <3>2. Candidate(k, q, p, m)
      BY <1>1, <1>2, <3>1, CandidateBooks DEF k, q
    <3> QED
      BY <1>2, <3>2 DEF Candidate
  <2>4. /\ x.table.buckets = t.buckets /\ x.table.entries = t.entries /\ x.table.pol = q
        /\ x.table = [buckets |-> x.table.buckets, entries |-> x.table.entries, pol |-> x.table.pol]
        /\ x.log = r.log
    <3> HIDE DEF q
    <3>1. t = [buckets |-> t.buckets, entries |-> t.entries, pol |-> t.pol]
          /\ r = [table |-> r.table, log |-> r.log]
      BY <1>1, SMT DEF Tables, Runs
    <3>2. x = [r EXCEPT !.table = [r.table EXCEPT !.pol = q]]
      BY <3>1, SMT DEF q
    <3> HIDE DEF x
    <3>3. x.table = [t EXCEPT !.pol = q] /\ x.log = r.log
      BY <3>1, <3>2, SMT
    <3> HIDE DEF t
    <3> QED
      BY <1>1, <3>3 DEF Tables
  <2> HIDE DEF x, k, q
  <2>5. Chained(x.table) /\ Held(x.table) = Held(t) /\ View(x.table) = m
    BY <1>1, <2>4, SameBuckets
  <2>6. NearlyInv(x.table, k)
    <3>1. q \in Pols
      BY <2>3 DEF Books
    <3>2. x.table \in Tables
      BY <1>1, <2>4, <3>1, TableFields DEF Tables
    <3> QED
      BY <1>1, <2>3, <2>4, <2>5, <3>2 DEF NearlyInv
  <2>7. k \in Key /\ Found(x.table, k)
    BY <1>2, <2>3, <2>5 DEF Held
  <2>8. s = Removed(x, k)
    BY <2>2 DEF x, k
  <2>9. /\ TInv(s.table) /\ View(s.table) = Drop(View(x.table), k)
        /\ Held(s.table) = Held(x.table) \ {k}
        /\ s.table.pol.policy = x.table.pol.policy
        /\ \A i, j \in Held(s.table) : Before(s.table.pol, i, j) <=> Before(x.table.pol, i, j)
    BY <2>6, <2>7, <2>8, RemoveTable
  <2>10. s \in Runs /\ s.log = Append(r.log, [op |-> "DELETE", key |-> k])
    <3> DEFINE g == Append(r.log, [op |-> "DELETE", key |-> k])
    <3>1. s = [log |-> g, table |-> s.table]
      BY <2>4, <2>8 DEF Removed
    <3>2. g \in Seq(Records)
      <4>1. [op |-> "DELETE", key |-> k] \in Records
        BY <2>7, SMT DEF Records
      <4> QED
        BY <1>1, <4>1, SMT
    <3>3. s.table \in {y \in Tables : TInv(y)}
      BY <2>9 DEF TInv
    <3> HIDE DEF g
    <3>4. s \in Runs /\ s.log = g
      BY <3>1, <3>2, <3>3, SMT DEF Runs
    <3> QED
      BY <3>4 DEF g
  <2>11. \A j \in Held(s.table) : Before(p, k, j)
    BY <2>3, <2>5, <2>9
  <2>12. \A i, j \in Held(s.table) : Before(s.table.pol, i, j) <=> Before(p, i, j)
    BY <2>3, <2>4, <2>9
  <2>13. /\ Held(s.table) = Held(t) \ {k} /\ View(s.table) = Drop(m, k)
         /\ s.table.pol.policy = p.policy
    BY <2>3, <2>4, <2>5, <2>9
  <2> QED
    BY <1>4, <2>3, <2>10, <2>11, <2>12, <2>13
<1> QED
  BY <1>3, <1>4

\* A turn of the eviction loop keeps what is known after n turns, for n + 1.
LEMMA TurnStep ==
  ASSUME NEW t, TInv(t), NEW r \in Runs, NEW n \in Nat, Turn(r.table, t, n), NEW s \in EvictOnce(r)
  PROVE  s \in Runs /\ Turn(s.table, t, n + 1)
<1> USE Zenon
<1> DEFINE u == r.table
           v == s.table
<1>1. CASE ~ShouldEvict(u.pol) /\ s = r
  BY <1>1 DEF Turn
<1>2. CASE /\ ShouldEvict(u.pol)
           /\ s \in Runs
           /\ \E k \in Held(u) :
                 /\ Held(v) = Held(u) \ {k}
                 /\ View(v) = Drop(View(u), k)
                 /\ v.pol.policy = u.pol.policy
                 /\ \A j \in Held(v) : Before(u.pol, k, j)
                 /\ \A i, j \in Held(v) : Before(v.pol, i, j) <=> Before(u.pol, i, j)
  <2> PICK k \in Held(u) :
                 /\ Held(v) = Held(u) \ {k}
                 /\ View(v) = Drop(View(u), k)
                 /\ v.pol.policy = u.pol.policy
                 /\ \A j \in Held(v) : Before(u.pol, k, j)
                 /\ \A i, j \in Held(v) : Before(v.pol, i, j) <=> Before(u.pol, i, j)
    BY <1>2
  <2> DEFINE m == View(t)
             lost == Held(t) \ Held(u)
             gone == Held(t) \ Held(v)
  <2>1. /\ Held(u) \subseteq Held(t) /\ \A j \in Held(u) : View(u)[j] = m[j]
        /\ u.pol.policy = t.pol.policy
        /\ \A i \in lost, j \in Held(u) : Before(t.pol, i, j)
        /\ \A i, j \in Held(u) : Before(u.pol, i, j) <=> Before(t.pol, i, j)
        /\ lost # {} => \E i \in lost : Bytes(m, Held(u) \union {i}) > MemoryLimit
        /\ Cardinality(Held(u)) + n = t.entries
    BY <1>2 DEF Turn, Evicting
  <2>2. TInv(u) /\ Chained(u) /\ Books(u.pol, View(u))
    BY RunFields DEF TInv
  <2>3. DOMAIN View(u) = Held(u)
    BY <2>2, ViewIs
  <2>4. \A j \in Held(v) : j \in Held(u) /\ j # k /\ View(v)[j] = View(u)[j]
    BY <2>3 DEF Drop
  <2>5. gone = lost \union {k} /\ Held(v) \union {k} = Held(u) /\ k \in gone
    BY <2>1, SMT
  <2>6. Bytes(m, Held(v) \union {k}) > MemoryLimit
    <3>1. Bytes(View(u), Held(u)) = Bytes(m, Held(u))
      <4> DEFINE a == View(u)
                 K == Held(u)
      <4>1. \A j \in K : a[j].value = m[j].value
        BY <2>1
      <4> HIDE DEF a, K, m
      <4>2. Bytes(a, K) = Bytes(m, K)
        BY <4>1, BytesSame
      <4> QED
        BY <4>2 DEF a, K
    <3>2. u.pol.mem = Bytes(View(u), Held(u))
      BY <2>2, <2>3 DEF Books
    <3>3. u.pol.mem > MemoryLimit
      BY <1>2 DEF ShouldEvict
    <3> QED
      BY <2>5, <3>1, <3>2, <3>3
  <2>7. ASSUME NEW i \in gone, NEW j \in Held(v) PROVE Before(t.pol, i, j)
    <3>1. CASE i = k
      BY <2>1, <2>4, <3>1
    <3>2. CASE i \in lost
      BY <2>1, <2>4, <3>2
    <3> QED
      BY <2>5, <3>1, <3>2
  <2>8. \A i, j \in Held(v) : Before(v.pol, i, j) <=> Before(t.pol, i, j)
    BY <2>1, <2>4
  <2>9. Held(v) \subseteq Held(t) /\ \A j \in Held(v) : View(v)[j] = m[j]
    BY <2>1, <2>4
  <2>10. Cardinality(Held(v)) + (n + 1) = t.entries
    <3>1. IsFiniteSet(Held(u)) /\ Cardinality(Held(u)) \in Nat
      BY HeldFinite
    <3>2. Cardinality(Held(u) \ {k}) = Cardinality(Held(u)) - 1
      BY <3>1, FS_RemoveElement
    <3>3. Cardinality(Held(v)) = Cardinality(Held(u)) - 1
      BY <3>2
    <3> QED
      BY <2>1, <3>1, <3>3, SMT
  <2>11. v.pol.policy = t.pol.policy
    BY <2>1
  <2>12. Evicting(v, t)
    <3> HIDE DEF m, gone, v
    <3>1. gone # {} => \E i \in gone : Bytes(m, Held(v) \union {i}) > MemoryLimit
      BY <2>5, <2>6
    <3> QED
      BY <2>7, <2>8, <2>9, <2>11, <3>1 DEF Evicting, m, gone
  <2> QED
    BY <1>2, <2>10, <2>12 DEF Turn
<1> QED
  BY <1>1, <1>2, TurnIs

\* A turn of the eviction loop keeps the invariant.
LEMMA TurnsClosed ==
  ASSUME NEW r \in Runs, NEW s \in EvictOnce(r)
  PROVE  s \in Runs
  BY TurnIs, Zenon

\* The turns of the loop, one after another.
LEMMA Turns ==
  ASSUME NEW r \in Runs
  PROVE  \E f \in [Nat -> SUBSET Runs] :
            /\ f[0] = {r} /\ \A n \in Nat : f[n + 1] = UNION {EvictOnce(s) : s \in f[n]}
            /\ Evicted(r) = f[r.table.entries]
<1> USE Zenon
<1> DEFINE next(R) == UNION {EvictOnce(s) : s \in R}
           S == SUBSET Runs
           step == [x \in Nat \X S |-> next(x[2])]
<1>1. ASSUME NEW R \in S PROVE next(R) \in S
  BY TurnsClosed
<1>2. {r} \in S
  OBVIOUS
<1>3. \A x \in Nat \X S : x[2] \in S
  BY SMT
<1>4. step \in [Nat \X S -> S]
  BY <1>1, <1>3
<1>5. \A n \in Nat : \A R \in S : step[<<n, R>>] = next(R)
  <2> SUFFICES ASSUME NEW n \in Nat, NEW R \in S PROVE step[<<n, R>>] = next(R)
    BY SMT
  <2>1. <<n, R>> \in Nat \X S /\ <<n, R>>[2] = R
    OBVIOUS
  <2> QED
    BY <2>1
<1> HIDE DEF step, S, next
<1>6. PICK f \in [Nat -> S] : f[0] = {r} /\ \A n \in Nat : f[n + 1] = step[<<n, f[n]>>]
  <2> DEFINE base == {r}
  <2>1. base \in S
    BY <1>2
  <2> HIDE DEF base
  <2>2. \E f \in [Nat -> S] : f[0] = base /\ \A n \in Nat : f[n + 1] = step[<<n, f[n]>>]
    <3>1. \E f : Iterates(f, S, base, step)
      BY <1>4, <2>1, Recursion
    <3> QED
      BY <3>1 DEF Iterates
  <2> QED
    BY <2>2 DEF base
<1>7. \A n \in Nat : f[n + 1] = next(f[n])
  BY <1>5, <1>6
<1>8. \A n \in Nat : f[n] = IF n = 0 THEN {r} ELSE next(f[n - 1])
  <2> SUFFICES ASSUME NEW n \in Nat PROVE f[n] = IF n = 0 THEN {r} ELSE next(f[n - 1])
    BY SMT
  <2>1. CASE n = 0
    BY <1>6, <2>1
  <2>2. CASE n # 0
    <3>1. n - 1 \in Nat /\ (n - 1) + 1 = n
      BY <2>2, SMT
    <3>2. f[(n - 1) + 1] = next(f[n - 1])
      BY <1>7, <3>1
    <3> QED
      BY <2>2, <3>1, <3>2
  <2> QED
    BY <2>1, <2>2
<1>9. f = [n \in Nat |-> IF n = 0 THEN {r} ELSE next(f[n - 1])]
  BY <1>6, <1>8
<1> DEFINE g == CHOOSE g : g = [n \in Nat |-> IF n = 0 THEN {r} ELSE next(g[n - 1])]
<1>10. g = [n \in Nat |-> IF n = 0 THEN {r} ELSE next(g[n - 1])]
  BY <1>9
<1>11. Evicted(r) = g[r.table.entries]
  BY DEF Evicted, next
<1> HIDE DEF g
<1>12. \A n \in Nat : g[n] = IF n = 0 THEN {r} ELSE next(g[n - 1])
  BY <1>10
<1>13. g[0] = {r} /\ \A n \in Nat : g[n + 1] = next(g[n])
  <2>1. g[0] = {r}
    BY <1>12, SMT
  <2>2. ASSUME NEW n \in Nat PROVE g[n + 1] = next(g[n])
    <3>1. n + 1 \in Nat /\ n + 1 # 0 /\ (n + 1) - 1 = n
      BY SMT
    <3> QED
      BY <1>12, <3>1
  <2> QED
    BY <2>1, <2>2
<1>14. \A n \in Nat : g[n] \in S
  <2> DEFINE Z == {n \in Nat : g[n] \in S}
  <2>1. 0 \in Z
    BY <1>2, <1>13
  <2>2. ASSUME NEW n \in Nat, n \in Z PROVE n + 1 \in Z
    <3>1. n + 1 \in Nat
      BY SMT
    <3> QED
      BY <1>1, <1>13, <2>2, <3>1
  <2> HIDE DEF Z
  <2>3. Nat \subseteq Z
    BY <2>1, <2>2, Induction
  <2> QED
    BY <2>3 DEF Z
<1>15. g \in [Nat -> S]
  BY <1>10, <1>14
<1> QED
  BY <1>11, <1>13, <1>15 DEF S, next

\* evict_if_needed: it ends with the memory within the limit.
LEMMA EvictedIs ==
  ASSUME NEW r \in Runs, NEW s \in Evicted(r)
  PROVE  s \in Runs /\ Evicting(s.table, r.table) /\ ~ShouldEvict(s.table.pol)
<1> USE Zenon
<1> DEFINE t == r.table
<1>1. PICK f \in [Nat -> SUBSET Runs] :
        /\ f[0] = {r} /\ \A n \in Nat : f[n + 1] = UNION {EvictOnce(x) : x \in f[n]}
        /\ Evicted(r) = f[t.entries]
  BY Turns
<1>2. TInv(t) /\ t \in Tables /\ t.entries \in Nat /\ t.entries = Cardinality(Held(t))
  BY RunFields, TableFields DEF TInv
<1> DEFINE Z == {n \in Nat : \A x \in f[n] : Turn(x.table, t, n)}
<1>3. 0 \in Z
  <2>1. Cardinality(Held(t)) + 0 = t.entries
    BY <1>2, SMT
  <2>2. Held(t) \ Held(t) = {}
    BY SMT
  <2>3. Turn(t, t, 0)
    BY <2>1, <2>2 DEF Turn, Evicting
  <2>4. 0 \in Nat /\ \A x \in f[0] : x = r
    BY <1>1, SMT
  <2> QED
    BY <2>3, <2>4
<1>4. ASSUME NEW n \in Nat, n \in Z PROVE n + 1 \in Z
  <2>1. ASSUME NEW x \in f[n + 1] PROVE Turn(x.table, t, n + 1)
    <3>1. PICK y \in f[n] : x \in EvictOnce(y)
      <4>1. f[n + 1] = UNION {EvictOnce(z) : z \in f[n]}
        BY <1>1
      <4>2. x \in UNION {EvictOnce(z) : z \in f[n]}
        BY <2>1, <4>1
      <4> QED
        BY <4>2
    <3>2. y \in Runs
      BY <1>1, <3>1
    <3>3. Turn(y.table, t, n)
      BY <1>4, <3>1
    <3> QED
      BY <1>2, <3>1, <3>2, <3>3, TurnStep
  <2>2. n + 1 \in Nat
    BY SMT
  <2> QED
    BY <2>1, <2>2
<1>5. t.entries \in Z
  <2> HIDE DEF Z
  <2>1. Nat \subseteq Z
    BY <1>3, <1>4, Induction
  <2> QED
    BY <1>2, <2>1
<1>6. s \in Runs /\ Turn(s.table, t, t.entries)
  BY <1>1, <1>2, <1>5
<1>7. ASSUME ShouldEvict(s.table.pol) PROVE FALSE
  <2> DEFINE u == s.table
  <2>1. Cardinality(Held(u)) + t.entries = t.entries
    BY <1>6, <1>7 DEF Turn
  <2>2. IsFiniteSet(Held(u)) /\ Cardinality(Held(u)) \in Nat
    BY HeldFinite
  <2>3. Cardinality(Held(u)) = 0
    BY <1>2, <2>1, <2>2, SMT
  <2>4. Held(u) = {}
    BY <2>2, <2>3, FS_EmptySet
  <2>5. TInv(u) /\ Chained(u) /\ Books(u.pol, View(u))
    BY <1>6, RunFields DEF TInv
  <2>6. DOMAIN View(u) = {}
    BY <2>4, <2>5, ViewIs
  <2>7. u.pol.mem = 0
    BY <2>5, <2>6, BytesEmpty DEF Books
  <2> QED
    BY <1>7, <2>7, PolicyConstants, SMT DEF ShouldEvict
<1> QED
  BY <1>6, <1>7 DEF Turn

\* Appending to the log leaves the table.
LEMMA LoggedRun ==
  ASSUME NEW r \in Runs, NEW x \in Records
  PROVE  LET s == [r EXCEPT !.log = Append(@, x)]
         IN  s \in Runs /\ s.table = r.table /\ s.log = Append(r.log, x)
  BY DEF Runs

\* insert: some table v, left by the evictions, in which k is then stored.
LEMMA InsertedIs ==
  ASSUME NEW r \in Runs, NEW k \in Key, NEW e \in Entries, NEW s \in Inserted(r, k, e)
  PROVE  \E v : /\ TInv(v) /\ Evicting(v, r.table) /\ v.pol.mem <= MemoryLimit
                /\ PutIn(s.table, v, k, e)
<1> USE Zenon
<1> DEFINE x == [op |-> "SET", key |-> k, value |-> e.value, expiry |-> e.expiry]
           logged == [r EXCEPT !.log = Append(@, x)]
<1>1. x \in Records
  <2>1. e.value \in Value /\ e.expiry \in Nat
    BY SMT DEF Entries
  <2> QED
    BY <2>1, SMT DEF Records
<1>2. PICK y \in Evicted(logged) : s = [y EXCEPT !.table = Put(ResizeIfNeeded(@), k, e)]
  BY DEF Inserted
<1> HIDE DEF x
<1>3. logged \in Runs /\ logged.table = r.table
  BY <1>1, LoggedRun
<1> HIDE DEF logged
<1>4. y \in Runs /\ Evicting(y.table, r.table) /\ ~ShouldEvict(y.table.pol)
  BY <1>2, <1>3, EvictedIs
<1> DEFINE v == y.table
           u == ResizeIfNeeded(v)
<1>5. TInv(v) /\ v.pol.mem <= MemoryLimit
  <2>1. TInv(v)
    BY <1>4, RunFields
  <2>2. v.pol.mem \in Nat
    BY <2>1, TableFields, PolicyFields DEF TInv
  <2>3. ~(v.pol.mem > MemoryLimit)
    BY <1>4 DEF ShouldEvict
  <2> QED
    BY <2>1, <2>2, <2>3, PolicyConstants, SMT
<1>6. TInv(u) /\ View(u) = View(v) /\ Held(u) = Held(v) /\ u.pol = v.pol
  BY <1>5, ResizeTable
<1>7. s.table = Put(u, k, e)
  <2> DEFINE z == Put(u, k, e)
  <2>1. s = [y EXCEPT !.table = z]
    BY <1>2
  <2> HIDE DEF z
  <2>2. s.table = z
    BY <1>4, <2>1, SMT DEF Runs
  <2> QED
    BY <2>2 DEF z
<1> HIDE DEF u, v
<1>8. PutIn(Put(u, k, e), u, k, e)
  BY <1>6, PutTable
<1>9. PutIn(s.table, u, k, e)
  BY <1>7, <1>8
<1>10. PutIn(s.table, v, k, e)
  BY <1>6, <1>9 DEF PutIn
<1> QED
  BY <1>4, <1>5, <1>10 DEF v

\* A call starts with an empty log.
LEMMA NewRun ==
  ASSUME NEW t, TInv(t)
  PROVE  Run(t) \in Runs /\ Run(t).table = t
<1>1. t \in Tables
  BY Zenon DEF TInv
<1>2. << >> \in Seq(Records)
  OBVIOUS
<1> QED
  BY <1>1, <1>2, Zenon DEF Run, Runs

\* remove, whether or not the key is there.
LEMMA RemovedIs ==
  ASSUME NEW t, TInv(t), NEW k \in Key
  PROVE  LET u == Removed(Run(t), k).table
         IN  /\ TInv(u) /\ Held(u) = Held(t) \ {k} /\ \A j \in Held(u) : View(u)[j] = View(t)[j]
             /\ u.pol.policy = t.pol.policy
             /\ u.pol.mem <= t.pol.mem
             /\ \A i, j \in Held(u) : Before(u.pol, i, j) <=> Before(t.pol, i, j)
<1> USE Zenon
<1> DEFINE r == Run(t)
           u == Removed(r, k).table
<1>1. r.table = t
  BY DEF Run
<1>2. /\ Chained(t) /\ Books(t.pol, View(t)) /\ t.pol \in Pols
  BY DEF TInv, Books
<1>3. View(t) \in Maps /\ DOMAIN View(t) = Held(t) /\ Held(t) \subseteq Key
  BY <1>2, ViewIs
<1>4. t.pol.mem \in Nat
  BY <1>2, PolicyFields
<1>5. CASE Found(t, k)
  <2>1. NearlyInv(t, k)
    BY NearlyHolds
  <2> HIDE DEF r
  <2>2. /\ TInv(u) /\ View(u) = Drop(View(t), k) /\ Held(u) = Held(t) \ {k}
        /\ u.pol.policy = t.pol.policy
        /\ \A i, j \in Held(u) : Before(u.pol, i, j) <=> Before(t.pol, i, j)
    <3>1. NearlyInv(r.table, k) /\ Found(r.table, k)
      BY <1>1, <1>5, <2>1
    <3>2. /\ TInv(u) /\ View(u) = Drop(View(r.table), k) /\ Held(u) = Held(r.table) \ {k}
          /\ u.pol.policy = r.table.pol.policy
          /\ \A i, j \in Held(u) : Before(u.pol, i, j) <=> Before(r.table.pol, i, j)
      BY <3>1, RemoveTable
    <3> HIDE DEF u
    <3> QED
      BY <1>1, <3>2
  <2> HIDE DEF u
  <2>3. \A j \in Held(u) : View(u)[j] = View(t)[j]
    BY <1>3, <2>2 DEF Drop
  <2>4. u.pol.mem <= t.pol.mem
    <3>1. k \in DOMAIN View(t)
      BY <1>3, <1>5 DEF Held
    <3>2. /\ DOMAIN Drop(View(t), k) = DOMAIN View(t) \ {k}
          /\ Bytes(View(t), DOMAIN View(t)) =
               Bytes(Drop(View(t), k), DOMAIN View(t) \ {k}) + Size[View(t)[k].value]
          /\ Bytes(Drop(View(t), k), DOMAIN View(t) \ {k}) \in Nat
      BY <1>3, <3>1, DropBytes
    <3>3. u.pol.mem = Bytes(Drop(View(t), k), DOMAIN View(t) \ {k})
      BY <2>2, <3>2 DEF TInv, Books
    <3>4. t.pol.mem = Bytes(View(t), DOMAIN View(t))
      BY <1>2 DEF Books
    <3>5. Size[View(t)[k].value] \in Nat
      BY <1>3, <3>1, MapFacts DEF Sized
    <3>6. t.pol.mem = u.pol.mem + Size[View(t)[k].value] /\ u.pol.mem \in Nat
      BY <3>2, <3>3, <3>4
    <3> QED
      BY <3>5, <3>6, SMT
  <2> QED
    BY <2>2, <2>3, <2>4 DEF u, r
<1>6. CASE ~Found(t, k)
  <2>1. u = t
    BY <1>1, <1>6 DEF Removed
  <2>2. Held(t) = Held(t) \ {k}
    BY <1>6 DEF Held
  <2>3. t.pol.mem <= t.pol.mem
    BY <1>4, SMT
  <2> HIDE DEF u
  <2> QED
    BY <2>1, <2>2, <2>3 DEF u, r
<1> QED
  BY <1>5, <1>6

\* What lookups show, in terms of the map.
LEMMA SeenIs ==
  ASSUME NEW t, Chained(t), NEW k \in Key
  PROVE  /\ k \in Held(t) =>
              Seen(t, k) = [value |-> View(t)[k].value, expiry |-> View(t)[k].expiry]
         /\ k \notin Held(t) => Seen(t, k) = None
<1> USE Zenon
<1> DEFINE chain == t.buckets[BucketOf(t, k)]
           hits == {kv \in Range(chain) : kv.key = k}
<1>1. /\ chain \in Seq(KeyEntry)
      /\ Found(t, k) => /\ First(chain, k) \in 1 .. Len(chain)
                        /\ chain[First(chain, k)].key = k
                        /\ chain[First(chain, k)].entry = EntryOf(t, k)
      /\ \A e : Has(t, k, e) => Found(t, k) /\ EntryOf(t, k) = e
      /\ BucketOf(t, k) \in 1 .. Len(t.buckets)
  <2>1. BucketOf(t, k) \in 1 .. Len(t.buckets)
    BY BucketOfIs DEF Chained
  <2> QED
    BY <2>1, Lookup
<1>2. \A x : x \in Range(chain) <=> In(chain, x)
  BY <1>1, RangeIs
<1>3. ASSUME NEW kv \in hits PROVE Found(t, k) /\ EntryOf(t, k) = kv.entry
  <2>1. kv.key = k /\ In(chain, kv)
    BY <1>2
  <2>2. InChain(chain, k, kv.entry)
    BY <2>1 DEF InChain, In
  <2>3. Has(t, k, kv.entry)
    BY <1>1, <2>2 DEF Has
  <2> QED
    BY <1>1, <2>3
<1>4. Found(t, k) => hits # {}
  <2>1. SUFFICES ASSUME Found(t, k) PROVE chain[First(chain, k)] \in hits
    OBVIOUS
  <2>2. In(chain, chain[First(chain, k)])
    BY <1>1, <2>1 DEF In
  <2> QED
    BY <1>1, <1>2, <2>1, <2>2
<1> DEFINE e == (CHOOSE kv \in hits : TRUE).entry
<1>5. Seen(t, k) = IF hits = {} THEN None ELSE [value |-> e.value, expiry |-> e.expiry]
  BY DEF Seen
<1>6. hits # {} => e = EntryOf(t, k)
  <2>1. hits # {} => (CHOOSE kv \in hits : TRUE) \in hits
    OBVIOUS
  <2> QED
    BY <1>3, <2>1
<1>7. k \in Held(t) => View(t)[k] = EntryOf(t, k)
  BY ViewIs
<1>8. k \in Held(t) <=> Found(t, k)
  BY DEF Held
<1> HIDE DEF hits, e
<1>9. ASSUME k \in Held(t)
      PROVE  Seen(t, k) = [value |-> View(t)[k].value, expiry |-> View(t)[k].expiry]
  <2>1. hits # {} /\ e = View(t)[k]
    BY <1>4, <1>6, <1>7, <1>8, <1>9
  <2> QED
    BY <1>5, <2>1
<1>10. ASSUME k \notin Held(t) PROVE Seen(t, k) = None
  <2>1. hits = {}
    BY <1>3, <1>8, <1>10 DEF hits
  <2> QED
    BY <1>5, <2>1
<1> QED
  BY <1>9, <1>10

-----------------------------------------------------------------------------
(* What a file says of a key, without replaying it.                        *)

Items == [value : Value, expiry : Nat] \union {None}

Item(e) == [value |-> e.value, expiry |-> e.expiry]

\* What a lookup finds after record r.
Effect(r) == IF r.op = "SET" THEN [value |-> r.value, expiry |-> r.expiry] ELSE None

\* No record of the log is about k.
Silent(file, k) == \A i \in 1 .. Len(file) : file[i] \in Whole => file[i].key # k

\* The last record about k leaves it with x.
Tells(file, k, x) ==
  \E i \in 1 .. Len(file) :
     /\ file[i] \in Whole /\ file[i].key = k /\ x = Effect(file[i])
     /\ \A j \in 1 .. Len(file) : j > i /\ file[j] \in Whole => file[j].key # k

\* A snapshot with these entries has x for k.
Keeps(entries, k, x) ==
  \/ \E i \in 1 .. Len(entries) :
        /\ entries[i].key = k /\ x = Item(entries[i].entry)
        /\ \A j \in 1 .. Len(entries) : j > i => entries[j].key # k
  \/ x = None /\ \A i \in 1 .. Len(entries) : entries[i].key # k

\* Replaying the log over the snapshot gives m.
Restores(entries, file, m) ==
  \A k \in Key : Tells(file, k, m[k]) \/ (Silent(file, k) /\ Keeps(entries, k, m[k]))

\* The log is right about every key it mentions.
Agrees(file, m) == \A k \in Key : Tells(file, k, m[k]) \/ Silent(file, k)

\* Whichever of the buffered records reach the file, what would be restored is the
\* contents after the last of them; m is the contents after them all.
Backed(entries, file, buf, contents, m) ==
  /\ Len(contents) = Len(buf) + 1 /\ contents[Len(contents)] = m
  /\ \A n \in 0 .. Len(buf) :
        LET saved == file \o SubSeq(buf, 1, n)
        IN  Sound(saved) => Restores(entries, saved, contents[n + 1])

-----------------------------------------------------------------------------
(* Calls on a table that everything fits into.                             *)

\* Every choice of values fits: evict_if_needed never has to evict.
Roomy ==
  \A values \in [Key -> Value] :
     Cardinality(UNION {{k} \X (1 .. Size[values[k]]) : k \in Key}) <= MemoryLimit

\* The contents of a table are its map, without the counters.
LEMMA ContentsIs ==
  ASSUME NEW t, TInv(t)
  PROVE  /\ Contents(t) \in [Key -> Items]
         /\ \A k \in Key : Contents(t)[k] = Seen(t, k)
         /\ \A k \in Held(t) : k \in Key /\ Seen(t, k) = Item(View(t)[k]) /\ Seen(t, k) # None
         /\ \A k \in Key : k \notin Held(t) => Seen(t, k) = None
<1> USE Zenon
<1>1. Chained(t)
  BY DEF TInv
<1>2. View(t) \in [Held(t) -> Entries] /\ Held(t) \subseteq Key
  BY <1>1, ViewIs
<1>3. \A k \in Key : k \notin Held(t) => Seen(t, k) = None
  BY <1>1, SeenIs
<1>4. ASSUME NEW k \in Held(t)
      PROVE  k \in Key /\ Seen(t, k) = Item(View(t)[k]) /\ Seen(t, k) # None /\ Seen(t, k) \in Items
  <2>1. k \in Key /\ View(t)[k] \in Entries
    BY <1>2
  <2>2. Seen(t, k) = Item(View(t)[k])
    BY <1>1, <2>1, SeenIs DEF Item
  <2>3. Item(View(t)[k]) \in [value : Value, expiry : Nat]
    BY <2>1, SMT DEF Item, Entries
  <2> QED
    BY <2>1, <2>2, <2>3, TableConstants DEF Items
<1>5. \A k \in Key : Seen(t, k) \in Items
  BY <1>3, <1>4 DEF Items
<1> QED
  BY <1>3, <1>4, <1>5 DEF Contents

\* Where everything fits, nothing has to be evicted.
LEMMA Fits ==
  ASSUME Roomy, NEW t, TInv(t)
  PROVE  /\ \A K : K \subseteq Held(t) => ~(Bytes(View(t), K) > MemoryLimit)
         /\ ~ShouldEvict(t.pol)
<1> USE Zenon
<1> DEFINE m == View(t)
           some == CHOOSE v \in Value : TRUE
           f == [k \in Key |-> IF k \in Held(t) THEN m[k].value ELSE some]
           w == [k \in Key |-> [value |-> f[k]]]
<1>1. Chained(t) /\ Books(t.pol, m) /\ t.pol.mem = Bytes(m, DOMAIN m)
  BY DEF TInv, Books
<1>2. m \in Maps /\ DOMAIN m = Held(t) /\ Held(t) \subseteq Key
  BY <1>1, ViewIs
<1>3. \A k \in Held(t) : m[k].value \in Value
  BY <1>2, MapFacts
<1>4. some \in Value
  BY TableConstants
<1> HIDE DEF m, some
<1>5. f \in [Key -> Value] /\ \A k \in Held(t) : f[k] = m[k].value
  BY <1>2, <1>3, <1>4
<1> HIDE DEF f
<1>6. /\ \A k \in Key : w[k].value = f[k] /\ Sized(w, k)
      /\ \A k \in Held(t) : w[k].value = m[k].value
  <2>1. ASSUME NEW k \in Key PROVE w[k].value = f[k]
    OBVIOUS
  <2> QED
    BY <1>2, <1>5, <2>1, TableConstants DEF Sized
<1>7. Cells(w, Key) = UNION {{k} \X (1 .. Size[f[k]]) : k \in Key}
  <2> HIDE DEF w
  <2>1. {{k} \X (1 .. Size[w[k].value]) : k \in Key} = {{k} \X (1 .. Size[f[k]]) : k \in Key}
    BY <1>6
  <2> QED
    BY <2>1 DEF Cells
<1>8. Bytes(w, Key) <= MemoryLimit
  BY <1>5, <1>7 DEF Roomy, Bytes
<1> HIDE DEF w
<1>9. ASSUME NEW K, K \subseteq Held(t) PROVE ~(Bytes(m, K) > MemoryLimit)
  <2>1. K \in SUBSET Key /\ IsFiniteSet(Key) /\ IsFiniteSet(K)
    BY <1>2, <1>9, PolicyConstants, FS_Subset
  <2>2. Bytes(m, K) = Bytes(w, K)
    BY <1>6, <1>9, BytesSame
  <2>3. Bytes(w, K) <= Bytes(w, Key)
    BY <1>6, <2>1, BytesMonotone
  <2>4. Bytes(w, K) \in Nat /\ Bytes(w, Key) \in Nat
    BY <1>6, <2>1, CellsAre
  <2> QED
    BY <1>8, <2>2, <2>3, <2>4, PolicyConstants, SMT
<1>10. ~ShouldEvict(t.pol)
  BY <1>1, <1>2, <1>9 DEF ShouldEvict
<1> QED
  BY <1>9, <1>10 DEF m

\* Table u is what a call leaves of t: key k has x, and the others what they had.
Leaving(u, t, k, x) ==
  TInv(u) /\ (Roomy => \A j \in Key : Seen(u, j) = IF j = k THEN x ELSE Seen(t, j))

\* insert, seen by lookups.
LEMMA InsertSeen ==
  ASSUME NEW t, TInv(t), NEW k \in Key, NEW e \in Entries, NEW s \in Inserted(Run(t), k, e)
  PROVE  Leaving(s.table, t, k, Item(e))
<1> USE Zenon
<1>1. Run(t) \in Runs /\ Run(t).table = t
  BY NewRun
<1>2. PICK v : TInv(v) /\ Evicting(v, t) /\ PutIn(s.table, v, k, e)
  BY <1>1, InsertedIs
<1> DEFINE u == s.table
<1>3. /\ TInv(u) /\ View(u) = Store(View(v), k, e) /\ Held(u) = Held(v) \union {k}
  BY <1>2 DEF PutIn
<1> HIDE DEF u
<1>4. ASSUME Roomy, NEW j \in Key PROVE Seen(u, j) = IF j = k THEN Item(e) ELSE Seen(t, j)
  <2>1. Held(v) = Held(t) /\ \A i \in Held(v) : View(v)[i] = View(t)[i]
    <3>1. /\ Held(v) \subseteq Held(t) /\ \A i \in Held(v) : View(v)[i] = View(t)[i]
          /\ Held(t) \ Held(v) # {} =>
               \E i \in Held(t) \ Held(v) : Bytes(View(t), Held(v) \union {i}) > MemoryLimit
      BY <1>2 DEF Evicting
    <3>2. \A i \in Held(t) : Held(v) \union {i} \subseteq Held(t)
      BY <3>1
    <3>3. Held(t) \ Held(v) = {}
      BY <1>4, <3>1, <3>2, Fits
    <3> QED
      BY <3>1, <3>3
  <2>2. DOMAIN View(v) = Held(v)
    BY <1>2, ViewIs DEF TInv
  <2>3. j = k => View(u)[j] = e
    BY <1>3 DEF Store
  <2>4. j # k /\ j \in Held(v) => View(u)[j] = View(v)[j]
    BY <1>3, <2>2 DEF Store
  <2>5. CASE j = k
    <3>1. Seen(u, j) = Item(View(u)[j])
      BY <1>3, <2>5, ContentsIs
    <3> QED
      BY <2>3, <2>5, <3>1
  <2>6. CASE j # k /\ j \in Held(t)
    <3>1. j \in Held(u) /\ View(u)[j] = View(t)[j]
      BY <1>3, <2>1, <2>4, <2>6
    <3>2. Seen(u, j) = Item(View(u)[j]) /\ Seen(t, j) = Item(View(t)[j])
      BY <1>3, <2>6, <3>1, ContentsIs
    <3> QED
      BY <2>6, <3>1, <3>2
  <2>7. CASE j # k /\ j \notin Held(t)
    <3>1. j \notin Held(u)
      BY <1>3, <2>1, <2>7
    <3>2. Seen(u, j) = None /\ Seen(t, j) = None
      BY <1>3, <2>7, <3>1, ContentsIs
    <3> QED
      BY <2>7, <3>2
  <2> QED
    BY <2>5, <2>6, <2>7
<1> QED
  BY <1>3, <1>4 DEF u, Leaving

\* remove leaves every other key as it was.
LEMMA RemoveSeen ==
  ASSUME NEW t, TInv(t), NEW k \in Key
  PROVE  Leaving(Removed(Run(t), k).table, t, k, None)
<1> USE Zenon
<1> DEFINE u == Removed(Run(t), k).table
<1>1. TInv(u) /\ Held(u) = Held(t) \ {k} /\ \A j \in Held(u) : View(u)[j] = View(t)[j]
  BY RemovedIs
<1> HIDE DEF u
<1>2. ASSUME NEW j \in Key PROVE Seen(u, j) = IF j = k THEN None ELSE Seen(t, j)
  <2>1. CASE j \in Held(u)
    <3>1. j # k /\ j \in Held(t) /\ View(u)[j] = View(t)[j]
      BY <1>1, <2>1
    <3>2. Seen(u, j) = Item(View(u)[j]) /\ Seen(t, j) = Item(View(t)[j])
      BY <1>1, <2>1, <3>1, ContentsIs
    <3> QED
      BY <3>1, <3>2
  <2>2. CASE j \notin Held(u)
    <3>1. j = k \/ j \notin Held(t)
      BY <1>1, <2>2
    <3>2. Seen(u, j) = None /\ (j \notin Held(t) => Seen(t, j) = None)
      BY <1>1, <2>2, ContentsIs
    <3> QED
      BY <3>1, <3>2
  <2> QED
    BY <2>1, <2>2
<1> QED
  BY <1>1, <1>2 DEF u, Leaving

\* A lookup changes nothing that lookups show.
LEMMA AccessSeen ==
  ASSUME NEW t, TInv(t), NEW k \in Key, Found(t, k)
  PROVE  TInv(Accessed(t, k)) /\ Contents(Accessed(t, k)) = Contents(t)
<1> USE Zenon
<1> DEFINE u == Accessed(t, k)
           e == [EntryOf(t, k) EXCEPT !.count = IF t.pol.policy = "LFU" THEN @ + 1 ELSE @]
<1>1. PutIn(u, t, k, e) /\ e.value = EntryOf(t, k).value /\ e.expiry = EntryOf(t, k).expiry
  BY AccessTable
<1> HIDE DEF e, u
<1>2. TInv(u) /\ View(u) = Store(View(t), k, e) /\ Held(u) = Held(t) \union {k}
  BY <1>1 DEF PutIn
<1>3. Chained(t) /\ k \in Held(t) /\ DOMAIN View(t) = Held(t) /\ View(t)[k] = EntryOf(t, k)
  <2>1. Chained(t) /\ k \in Held(t)
    BY DEF TInv, Held
  <2> QED
    BY <2>1, ViewIs
<1>4. Held(u) = Held(t)
  BY <1>2, <1>3
<1>5. \A j \in Held(t) : View(u)[j] = IF j = k THEN e ELSE View(t)[j]
  BY <1>2, <1>3 DEF Store
<1>6. \A j \in Held(t) : Item(View(u)[j]) = Item(View(t)[j])
  BY <1>1, <1>3, <1>5 DEF Item
<1>7. \A j \in Key : Seen(u, j) = Seen(t, j)
  <2> SUFFICES ASSUME NEW j \in Key PROVE Seen(u, j) = Seen(t, j)
    OBVIOUS
  <2>1. CASE j \in Held(t)
    <3>1. Seen(u, j) = Item(View(u)[j]) /\ Seen(t, j) = Item(View(t)[j])
      BY <1>2, <1>4, <2>1, ContentsIs
    <3> QED
      BY <1>6, <2>1, <3>1
  <2>2. CASE j \notin Held(t)
    BY <1>2, <1>4, <2>2, ContentsIs
  <2> QED
    BY <2>1, <2>2
<1> QED
  BY <1>2, <1>7 DEF Contents, u

Calls == [op : {"insert"}, key : Key, entry : Entries] \union [op : {"remove"}, key : Key]

CallEffect(c) == IF c.op = "insert" THEN Item(c.entry) ELSE None

\* The first n calls leave key k with x.
Leaves(calls, n, k, x) ==
  \/ \E i \in 1 .. n : /\ calls[i].key = k /\ x = CallEffect(calls[i])
                       /\ \A j \in 1 .. n : j > i => calls[j].key # k
  \/ x = None /\ \A i \in 1 .. n : calls[i].key # k

\* The types of a call of insert or remove.
LEMMA CallFields ==
  ASSUME NEW c \in Calls
  PROVE  /\ c.key \in Key
         /\ (c.op = "insert" /\ c.entry \in Entries) \/ c.op = "remove"
  BY DEF Calls

\* insert and remove leave their key with their effect and all others as they were.
LEMMA CalledIs ==
  ASSUME NEW t, TInv(t), NEW c \in Calls, NEW u \in Called(t, c)
  PROVE  Leaving(u, t, c.key, CallEffect(c))
<1> USE Zenon
<1>1. CASE c.op = "insert"
  <2> DEFINE j == c.key
             e == c.entry
  <2>1. PICK s \in Inserted(Run(t), j, e) : u = s.table
    BY <1>1 DEF Called
  <2>2. j \in Key /\ e \in Entries
    BY <1>1, CallFields, SMT
  <2>3. CallEffect(c) = Item(e)
    BY <1>1 DEF CallEffect
  <2> HIDE DEF e
  <2>4. Leaving(s.table, t, j, Item(e))
    BY <2>1, <2>2, InsertSeen
  <2> QED
    BY <2>1, <2>3, <2>4
<1>2. CASE c.op # "insert"
  <2>1. u = Removed(Run(t), c.key).table
    BY <1>2 DEF Called
  <2>2. c.key \in Key
    BY CallFields
  <2> QED
    BY <1>2, <2>1, <2>2, RemoveSeen DEF CallEffect
<1> QED
  BY <1>1, <1>2

\* One call more.
LEMMA LeavesNext ==
  ASSUME NEW calls \in Seq(Calls), NEW n \in 1 .. Len(calls), NEW k \in Key, NEW x, NEW y,
         Leaves(calls, n - 1, k, x),
         y = IF k = calls[n].key THEN CallEffect(calls[n]) ELSE x
  PROVE  Leaves(calls, n, k, y)
<1>1. n \in Nat /\ n - 1 \in Nat /\ \A i \in 1 .. n : i = n \/ i \in 1 .. n - 1
  OBVIOUS
<1>2. n \in 1 .. n /\ \A i \in 1 .. n - 1 : i \in 1 .. n /\ n > i /\ ~(i > n)
  OBVIOUS
<1>3. CASE k = calls[n].key
  <2>1. \A j \in 1 .. n : ~(j > n)
    OBVIOUS
  <2> QED
    BY <1>2, <1>3, <2>1, Zenon DEF Leaves
<1>4. CASE k # calls[n].key
  <2>1. y = x
    BY <1>4
  <2> QED
    BY <1>1, <1>2, <1>4, <2>1, Zenon DEF Leaves
<1> QED
  BY <1>3, <1>4

-----------------------------------------------------------------------------
(* Files.                                                                  *)

Files == Seq(Whole \union {Torn})

\* The types of a record.
LEMMA WholeFields ==
  ASSUME NEW r \in Whole
  PROVE  /\ r # Torn /\ r.key \in Key /\ r.op \in {"SET", "DELETE"}
         /\ r.op = "SET" => r.value \in Value /\ r.expiry = 0
  BY DEF Whole, Torn

\* Reading delivers whole records.
LEMMA ReadingsAre ==
  ASSUME NEW file \in Files, NEW records \in Readings(file)
  PROVE  /\ records \in Seq(Whole)
         /\ Sound(file) =>
              \/ records = file
              \/ /\ Len(file) > 0 /\ file[Len(file)] = Torn /\ Len(records) = Len(file) - 1
                 /\ \A i \in 1 .. Len(records) : records[i] = file[i]
<1> DEFINE torn == {i \in DOMAIN file : file[i] = Torn}
           n == Min(torn)
           prefix == SubSeq(file, 1, n - 1)
<1>1. DOMAIN file = 1 .. Len(file) /\ Len(file) \in Nat
      /\ \A i \in 1 .. Len(file) : file[i] \in Whole \union {Torn}
  BY DEF Files
<1>2. Readings(file) = IF torn = {} THEN {file}
                       ELSE {prefix} \union IF Sound(file) THEN {}
                                            ELSE {Append(prefix, r) : r \in Whole}
  BY Zenon DEF Readings
<1>3. CASE torn = {}
  <2>1. records = file
    BY <1>2, <1>3, Zenon
  <2>2. \A i \in 1 .. Len(file) : file[i] \in Whole
    BY <1>1, <1>3, Zenon
  <2>3. file \in Seq(Whole)
    BY <1>1, <2>2 DEF Files
  <2> QED
    BY <2>1, <2>3, Zenon
<1>4. CASE torn # {}
  <2>1. n \in torn /\ \A j \in torn : n <= j
    <3>1. torn \in SUBSET Nat
      BY <1>1
    <3>2. \E x \in torn : \A y \in torn : x <= y
      BY <1>4, <3>1, LeastNat, Zenon
    <3> HIDE DEF torn
    <3> QED
      BY <3>2, Zenon DEF Min
  <2>2. n \in 1 .. Len(file) /\ file[n] = Torn
    BY <1>1, <2>1, Zenon
  <2>3. \A i \in 1 .. n - 1 : i \in 1 .. Len(file) /\ ~(n <= i)
    BY <1>1, <2>2
  <2>4. \A i \in 1 .. n - 1 : file[i] \in Whole
    BY <1>1, <2>1, <2>3, Zenon
  <2> HIDE DEF torn, n
  <2>5. /\ prefix \in Seq(Whole) /\ Len(prefix) = n - 1
        /\ \A i \in 1 .. n - 1 : prefix[i] = file[i]
    BY <1>1, <2>2, <2>4 DEF Files
  <2> HIDE DEF prefix
  <2>6. CASE records = prefix
    <3>1. Sound(file) => n = Len(file)
      <4>1. ~Sound(file) \/ ~(n \in 1 .. Len(file) - 1)
        BY <2>2, Zenon DEF Sound
      <4>2. \A a \in Nat : \A b \in 1 .. a : b \in 1 .. a - 1 \/ b = a
        OBVIOUS
      <4>3. n \in 1 .. Len(file) - 1 \/ n = Len(file)
        BY <1>1, <2>2, <4>2, Zenon
      <4> QED
        BY <4>1, <4>3, Zenon
    <3>2. Len(file) > 0 /\ 1 .. Len(prefix) = 1 .. n - 1
      BY <1>1, <2>2, <2>5
    <3> QED
      BY <2>2, <2>5, <2>6, <3>1, <3>2, Zenon
  <2>7. CASE records # prefix
    <3>1. PICK r \in Whole : records = Append(prefix, r)
      BY <1>2, <1>4, <2>7, Zenon
    <3>2. ~Sound(file)
      BY <1>2, <1>4, <2>7, Zenon
    <3>3. records \in Seq(Whole)
      BY <2>5, <3>1
    <3> QED
      BY <3>2, <3>3, Zenon
  <2> QED
    BY <2>6, <2>7, Zenon
<1> QED
  BY <1>3, <1>4, Zenon

\* What is read of a sound file tells what the file tells.
LEMMA ReadingTells ==
  ASSUME NEW file \in Files, Sound(file), NEW records \in Readings(file), NEW k
  PROVE  /\ \A x : Tells(records, k, x) => Tells(file, k, x)
         /\ Silent(records, k) => Silent(file, k)
<1>1. /\ records \in Seq(Whole) /\ Len(records) \in Nat /\ Len(file) \in Nat
      /\ \A i \in 1 .. Len(records) : records[i] = file[i] /\ i \in 1 .. Len(file)
      /\ \A i \in 1 .. Len(file) : i \in 1 .. Len(records) \/ file[i] = Torn
  <2>1. records \in Seq(Whole) /\ Len(records) \in Nat /\ Len(file) \in Nat
    BY ReadingsAre DEF Files
  <2>2. \/ records = file
        \/ /\ Len(file) > 0 /\ file[Len(file)] = Torn /\ Len(records) = Len(file) - 1
           /\ \A i \in 1 .. Len(records) : records[i] = file[i]
    BY ReadingsAre, Zenon
  <2>3. CASE records = file
    BY <2>1, <2>3
  <2>4. CASE /\ Len(file) > 0 /\ file[Len(file)] = Torn /\ Len(records) = Len(file) - 1
             /\ \A i \in 1 .. Len(records) : records[i] = file[i]
    <3>1. \A i \in 1 .. Len(records) : i \in 1 .. Len(file)
      BY <2>1, <2>4
    <3>2. \A i \in 1 .. Len(file) : i \in 1 .. Len(records) \/ i = Len(file)
      BY <2>1, <2>4
    <3> QED
      BY <2>1, <2>4, <3>1, <3>2, Zenon
  <2> QED
    BY <2>2, <2>3, <2>4, Zenon
<1>2. Torn \notin Whole
  BY WholeFields, Zenon
<1> QED
  BY <1>1, <1>2, Zenon DEF Tells, Silent

\* The calls that a restart makes: what the log tells, and else what the snapshot keeps.
LEMMA CallsLeave ==
  ASSUME NEW entries \in Seq(KeyEntry), NEW records \in Seq(Whole), NEW calls,
         calls = [i \in DOMAIN entries |-> LoadCall(entries[i])]
                   \o [i \in DOMAIN records |-> ReplayCall(records[i])]
  PROVE  /\ calls \in Seq(Calls)
         /\ \A k \in Key : \A x : Leaves(calls, Len(calls), k, x) =>
              Tells(records, k, x) \/ (Silent(records, k) /\ Keeps(entries, k, x))
<1> DEFINE a == [i \in DOMAIN entries |-> LoadCall(entries[i])]
           b == [i \in DOMAIN records |-> ReplayCall(records[i])]
           A == Len(entries)
           B == Len(records)
<1>1. /\ DOMAIN entries = 1 .. A /\ A \in Nat /\ DOMAIN records = 1 .. B /\ B \in Nat
      /\ \A i \in 1 .. A : entries[i] \in KeyEntry
      /\ \A i \in 1 .. B : records[i] \in Whole
  OBVIOUS
<1>2. ASSUME NEW kv \in KeyEntry
      PROVE  /\ LoadCall(kv) \in Calls /\ LoadCall(kv).key = kv.key
             /\ CallEffect(LoadCall(kv)) = Item(kv.entry)
  BY DEF KeyEntry, LoadCall, Calls, CallEffect
<1>3. ASSUME NEW r \in Whole
      PROVE  /\ ReplayCall(r) \in Calls /\ ReplayCall(r).key = r.key
             /\ CallEffect(ReplayCall(r)) = Effect(r)
  <2>1. r.key \in Key /\ r.op \in {"SET", "DELETE"}
        /\ (r.op = "SET" => r.value \in Value /\ r.expiry = 0)
    BY WholeFields, Zenon
  <2>2. CASE r.op = "SET"
    BY <2>1, <2>2 DEF ReplayCall, Calls, CallEffect, Effect, Item, Entry, Entries
  <2>3. CASE r.op = "DELETE"
    BY <2>1, <2>3 DEF ReplayCall, Calls, CallEffect, Effect
  <2> QED
    BY <2>1, <2>2, <2>3, Zenon
<1> HIDE DEF A, B
<1>4. /\ a \in Seq(Calls) /\ Len(a) = A
      /\ \A i \in 1 .. A : a[i].key = entries[i].key /\ CallEffect(a[i]) = Item(entries[i].entry)
  <2>1. a \in [1 .. A -> Calls] /\ \A i \in 1 .. A : a[i] = LoadCall(entries[i])
    BY <1>1, <1>2, Zenon
  <2> HIDE DEF a
  <2> QED
    BY <1>1, <1>2, <2>1, FunctionSeq, Zenon
<1>5. /\ b \in Seq(Calls) /\ Len(b) = B
      /\ \A i \in 1 .. B : b[i].key = records[i].key /\ CallEffect(b[i]) = Effect(records[i])
  <2>1. b \in [1 .. B -> Calls] /\ \A i \in 1 .. B : b[i] = ReplayCall(records[i])
    BY <1>1, <1>3, Zenon
  <2> HIDE DEF b
  <2> QED
    BY <1>1, <1>3, <2>1, FunctionSeq, Zenon
<1>6. calls = a \o b
  BY Zenon
<1> HIDE DEF a, b
<1>7. /\ calls \in Seq(Calls) /\ Len(calls) = A + B
      /\ \A i \in 1 .. A : calls[i].key = entries[i].key
                           /\ CallEffect(calls[i]) = Item(entries[i].entry)
      /\ \A i \in 1 .. B : calls[A + i].key = records[i].key
                           /\ CallEffect(calls[A + i]) = Effect(records[i])
  <2>1. /\ a \o b \in Seq(Calls) /\ Len(a \o b) = Len(a) + Len(b)
        /\ \A i \in 1 .. Len(a) : (a \o b)[i] = a[i]
        /\ \A i \in 1 .. Len(b) : (a \o b)[Len(a) + i] = b[i]
    <3>1. a \in Seq(Calls) /\ b \in Seq(Calls)
      BY <1>4, <1>5, Zenon
    <3> QED
      BY <3>1
  <2> QED
    BY <1>4, <1>5, <1>6, <2>1, Zenon
<1>8. /\ \A i \in 1 .. A : i \in 1 .. A + B
      /\ \A i \in 1 .. B : A + i \in 1 .. A + B
      /\ \A i \in 1 .. A + B : i \in 1 .. A \/ \E j \in 1 .. B : i = A + j
      /\ \A i \in 1 .. A, j \in 1 .. B : A + j > i
      /\ \A i, j \in 1 .. B : j > i => A + j > A + i
  <2>1. \A i \in 1 .. A + B : i \notin 1 .. A => i - A \in 1 .. B /\ i = A + (i - A)
    BY <1>1
  <2>2. \A i \in 1 .. A + B : i \in 1 .. A \/ \E j \in 1 .. B : i = A + j
    BY <2>1, Zenon
  <2> QED
    BY <1>1, <2>2
<1>9. ASSUME NEW k \in Key, NEW x, Leaves(calls, A + B, k, x)
      PROVE  Tells(records, k, x) \/ (Silent(records, k) /\ Keeps(entries, k, x))
  <2>1. CASE x = None /\ \A i \in 1 .. A + B : calls[i].key # k
    <3>1. ASSUME NEW i \in 1 .. B PROVE records[i].key # k
      <4>1. calls[A + i].key # k
        BY <1>8, <2>1, Zenon
      <4> QED
        BY <1>7, <4>1, Zenon
    <3>2. \A i \in 1 .. A : entries[i].key # k
      BY <1>7, <1>8, <2>1, Zenon
    <3> QED
      BY <2>1, <3>1, <3>2, Zenon DEF Silent, Keeps, A, B
  <2>2. CASE \E i \in 1 .. A + B : /\ calls[i].key = k /\ x = CallEffect(calls[i])
                                   /\ \A j \in 1 .. A + B : j > i => calls[j].key # k
    <3>1. PICK i \in 1 .. A + B : /\ calls[i].key = k /\ x = CallEffect(calls[i])
                                  /\ \A j \in 1 .. A + B : j > i => calls[j].key # k
      BY <2>2, Zenon
    <3>2. CASE i \in 1 .. A
      <4>1. entries[i].key = k /\ x = Item(entries[i].entry)
        BY <1>7, <3>1, <3>2, Zenon
      <4>2. ASSUME NEW j \in 1 .. B PROVE records[j].key # k
        <5>1. calls[A + j].key # k
          BY <1>8, <3>1, <3>2, Zenon
        <5> QED
          BY <1>7, <5>1, Zenon
      <4>3. \A j \in 1 .. A : j > i => entries[j].key # k
        BY <1>7, <1>8, <3>1, Zenon
      <4> QED
        BY <3>2, <4>1, <4>2, <4>3, Zenon DEF Silent, Keeps, A, B
    <3>3. CASE \E j \in 1 .. B : i = A + j
      <4>1. PICK n \in 1 .. B : i = A + n
        BY <3>3, Zenon
      <4>2. records[n].key = k /\ x = Effect(records[n]) /\ records[n] \in Whole
        BY <1>1, <1>7, <3>1, <4>1, Zenon
      <4>3. ASSUME NEW j \in 1 .. B, j > n PROVE records[j].key # k
        <5>1. A + j \in 1 .. A + B /\ A + j > i
          BY <1>8, <4>1, <4>3, Zenon
        <5>2. calls[A + j].key # k
          BY <3>1, <5>1, Zenon
        <5> QED
          BY <1>7, <5>2, Zenon
      <4> QED
        BY <4>2, <4>3, Zenon DEF Tells, B
    <3> QED
      BY <1>8, <3>1, <3>2, <3>3, Zenon
  <2> QED
    BY <1>9, <2>1, <2>2, Zenon DEF Leaves
<1> QED
  BY <1>7, <1>9, Zenon

\* What a file tells is one value.
LEMMA TellsOnce ==
  ASSUME NEW file \in Files, NEW k, NEW x, NEW y, Tells(file, k, x)
  PROVE  ~Silent(file, k) /\ (Tells(file, k, y) => x = y)
<1> DEFINE N == 1 .. Len(file)
<1>1. PICK i \in N : /\ file[i] \in Whole /\ file[i].key = k /\ x = Effect(file[i])
                     /\ \A j \in N : j > i /\ file[j] \in Whole => file[j].key # k
  BY Zenon DEF Tells
<1>2. ASSUME Tells(file, k, y) PROVE x = y
  <2>1. PICK n \in N : /\ file[n] \in Whole /\ file[n].key = k /\ y = Effect(file[n])
                       /\ \A j \in N : j > n /\ file[j] \in Whole => file[j].key # k
    BY <1>2, Zenon DEF Tells
  <2>2. ~(n > i) /\ ~(i > n)
    BY <1>1, <2>1, Zenon
  <2>3. n = i
    BY <2>2 DEF Files
  <2> QED
    BY <1>1, <2>1, <2>3, Zenon
<1> QED
  BY <1>1, <1>2, Zenon DEF Silent

\* A snapshot has one entry of a key at most.
LEMMA KeepsOnce ==
  ASSUME NEW entries \in Seq(KeyEntry), NEW k, NEW x, NEW y, Keeps(entries, k, x), Keeps(entries, k, y)
  PROVE  x = y
<1> DEFINE N == 1 .. Len(entries)
           At(i, z) == /\ entries[i].key = k /\ z = Item(entries[i].entry)
                       /\ \A j \in N : j > i => entries[j].key # k
<1>1. CASE \E i \in N : entries[i].key = k
  <2>1. PICK i \in N : At(i, x)
    BY <1>1, Zenon DEF Keeps
  <2>2. PICK n \in N : At(n, y)
    BY <1>1, Zenon DEF Keeps
  <2>3. ~(n > i) /\ ~(i > n)
    BY <2>1, <2>2, Zenon
  <2>4. n = i
    BY <2>3
  <2> QED
    BY <2>1, <2>2, <2>4, Zenon
<1>2. CASE \A i \in N : entries[i].key # k
  BY <1>2, Zenon DEF Keeps
<1> QED
  BY <1>1, <1>2, Zenon

\* What a snapshot and a log restore is determined.
LEMMA RestoresSame ==
  ASSUME NEW entries \in Seq(KeyEntry), NEW file \in Files, NEW m \in [Key -> Items], NEW w \in [Key -> Items],
         Restores(entries, file, m), Restores(entries, file, w)
  PROVE  m = w
<1>1. ASSUME NEW k \in Key PROVE m[k] = w[k]
  <2>1. /\ Tells(file, k, m[k]) \/ (Silent(file, k) /\ Keeps(entries, k, m[k]))
        /\ Tells(file, k, w[k]) \/ (Silent(file, k) /\ Keeps(entries, k, w[k]))
    BY Zenon DEF Restores
  <2> QED
    BY <2>1, TellsOnce, KeepsOnce, Zenon
<1>2. m = [k \in Key |-> m[k]] /\ w = [k \in Key |-> w[k]]
  OBVIOUS
<1>3. [k \in Key |-> m[k]] = [k \in Key |-> w[k]]
  BY <1>1, Zenon
<1> QED
  BY <1>2, <1>3, Zenon

\* A file with one record more.
LEMMA TellsNext ==
  ASSUME NEW file \in Files, NEW r \in Whole \union {Torn}, NEW k
  PROVE  LET more == Append(file, r)
         IN  /\ more \in Files
             /\ (r \in Whole /\ r.key = k) => Tells(more, k, Effect(r))
             /\ ~(r \in Whole /\ r.key = k) =>
                   /\ \A x : Tells(file, k, x) => Tells(more, k, x)
                   /\ Silent(file, k) => Silent(more, k)
             /\ Silent(more, k) => Silent(file, k)
<1> DEFINE more == Append(file, r)
           n == Len(file)
<1>1. /\ more \in Files /\ Len(more) = n + 1 /\ n \in Nat /\ more[n + 1] = r
      /\ \A i \in 1 .. n : more[i] = file[i]
  BY DEF Files
<1> HIDE DEF more, n
<1>2. /\ n + 1 \in 1 .. n + 1 /\ \A i \in 1 .. n : i \in 1 .. n + 1
      /\ \A i \in 1 .. n + 1 : i \in 1 .. n \/ i = n + 1
      /\ \A i \in 1 .. n + 1 : ~(i > n + 1)
  BY <1>1
<1>3. (r \in Whole /\ r.key = k) => Tells(more, k, Effect(r))
  BY <1>1, <1>2, Zenon DEF Tells
<1>4. ASSUME ~(r \in Whole /\ r.key = k)
      PROVE  (\A x : Tells(file, k, x) => Tells(more, k, x)) /\ (Silent(file, k) => Silent(more, k))
  BY <1>1, <1>2, <1>4, Zenon DEF Tells, Silent, n
<1>5. Silent(more, k) => Silent(file, k)
  BY <1>1, <1>2, Zenon DEF Silent, n
<1> QED
  BY <1>1, <1>3, <1>4, <1>5, Zenon DEF more

\* One more record has its effect on what is restored.
LEMMA RestoresNext ==
  ASSUME NEW entries, NEW file \in Files, NEW m, NEW w, Restores(entries, file, m),
         NEW r \in Whole, \A k \in Key : w[k] = IF k = r.key THEN Effect(r) ELSE m[k]
  PROVE  Restores(entries, Append(file, r), w)
<1> USE Zenon
<1> SUFFICES ASSUME NEW k \in Key
             PROVE  \/ Tells(Append(file, r), k, w[k])
                    \/ Silent(Append(file, r), k) /\ Keeps(entries, k, w[k])
  BY DEF Restores
<1>1. CASE k = r.key
  BY <1>1, TellsNext
<1>2. CASE k # r.key
  <2>1. /\ \A x : Tells(file, k, x) => Tells(Append(file, r), k, x)
        /\ Silent(file, k) => Silent(Append(file, r), k)
    BY <1>2, TellsNext
  <2>2. w[k] = m[k]
    BY <1>2
  <2> QED
    BY <2>1, <2>2 DEF Restores
<1> QED
  BY <1>1, <1>2

\* A torn record at the end has none.
LEMMA RestoresTorn ==
  ASSUME NEW entries, NEW file \in Files, NEW m, Restores(entries, file, m)
  PROVE  Restores(entries, Append(file, Torn), m)
<1> USE Zenon
<1>1. Torn \notin Whole
  BY WholeFields
<1>2. \A k : /\ \A x : Tells(file, k, x) => Tells(Append(file, Torn), k, x)
             /\ Silent(file, k) => Silent(Append(file, Torn), k)
  BY <1>1, TellsNext
<1> QED
  BY <1>2 DEF Restores

\* A snapshot that has everything, under a log that agrees.
LEMMA RestoresAgrees ==
  ASSUME NEW entries, NEW file, NEW m
  PROVE  /\ Restores(entries, file, m) => Agrees(file, m)
         /\ Agrees(file, m) /\ (\A k \in Key : Keeps(entries, k, m[k])) => Restores(entries, file, m)
         /\ Restores(entries, << >>, m) <=> \A k \in Key : Keeps(entries, k, m[k])
<1> USE Zenon
<1>1. 1 .. Len(<< >>) = {}
  BY SMT
<1>2. \A k : Silent(<< >>, k) /\ \A x : ~Tells(<< >>, k, x)
  BY <1>1 DEF Silent, Tells
<1> QED
  BY <1>2 DEF Restores, Agrees

\* Sequences.
LEMMA SameSeq ==
  ASSUME NEW T, NEW a \in Seq(T), NEW b \in Seq(T), Len(a) = Len(b),
         \A i \in 1 .. Len(a) : a[i] = b[i]
  PROVE  a = b
<1>1. a = [i \in 1 .. Len(a) |-> a[i]] /\ b = [i \in 1 .. Len(b) |-> b[i]]
  OBVIOUS
<1>2. [i \in 1 .. Len(a) |-> a[i]] = [i \in 1 .. Len(b) |-> b[i]]
  BY Zenon
<1> QED
  BY <1>1, <1>2, Zenon

\* A log with the first n records of the buffer behind it.
LEMMA SavedIs ==
  ASSUME NEW file \in Files, NEW b \in Seq(Whole), NEW n \in 0 .. Len(b)
  PROVE  /\ SubSeq(b, 1, n) \in Seq(Whole) /\ Len(SubSeq(b, 1, n)) = n
         /\ file \o SubSeq(b, 1, n) \in Files
         /\ file \o SubSeq(b, 1, 0) = file
         /\ file \o SubSeq(b, 1, Len(b)) = file \o b
         /\ file \o b \in Files
<1>1. /\ SubSeq(b, 1, n) \in Seq(Whole) /\ Len(SubSeq(b, 1, n)) = n
      /\ Len(b) \in Nat /\ 0 \in 0 .. Len(b)
  OBVIOUS
<1>2. ASSUME NEW c \in Seq(Whole)
      PROVE  /\ file \o c \in Files /\ Len(file \o c) = Len(file) + Len(c)
             /\ \A i \in 1 .. Len(file) : (file \o c)[i] = file[i]
  <2>1. c \in Files
    BY DEF Files
  <2> QED
    BY <2>1, ConcatIs DEF Files
<1>3. SubSeq(b, 1, Len(b)) = b
  <2>1. /\ SubSeq(b, 1, Len(b)) \in Seq(Whole) /\ Len(SubSeq(b, 1, Len(b))) = Len(b)
        /\ \A i \in 1 .. Len(b) : SubSeq(b, 1, Len(b))[i] = b[i]
    OBVIOUS
  <2> QED
    BY <2>1, SameSeq, Zenon
<1>4. file \o SubSeq(b, 1, 0) = file
  <2> DEFINE c == SubSeq(b, 1, 0)
  <2>1. c \in Seq(Whole) /\ Len(c) = 0
    OBVIOUS
  <2> HIDE DEF c
  <2>2. /\ file \o c \in Files /\ Len(file \o c) = Len(file) + 0
        /\ \A i \in 1 .. Len(file) : (file \o c)[i] = file[i]
    BY <1>2, <2>1, Zenon
  <2>3. Len(file \o c) = Len(file)
    BY <2>2 DEF Files
  <2>4. file \o c = file
    BY <2>2, <2>3, SameSeq, Zenon DEF Files
  <2> QED
    BY <2>4, Zenon DEF c
<1> QED
  BY <1>1, <1>2, <1>3, <1>4, Zenon

\* A log without its last record is as sound.
LEMMA SoundPrefix ==
  ASSUME NEW file \in Files, NEW r \in Whole \union {Torn}, Sound(Append(file, r))
  PROVE  Sound(file)
<1>1. \A i \in 1 .. Len(file) - 1 : /\ i \in 1 .. Len(Append(file, r)) - 1
                                    /\ Append(file, r)[i] = file[i]
  BY DEF Files
<1> QED
  BY <1>1, Zenon DEF Sound

\* g is file with something behind it.
Extending(g, file) ==
  /\ g \in Files /\ Len(file) <= Len(g) /\ \A i \in 1 .. Len(file) : g[i] = file[i]

\* A longer log mentions as many keys, and is sound only if the shorter one was.
LEMMA ExtendingIs ==
  ASSUME NEW file \in Files, NEW g, Extending(g, file)
  PROVE  /\ Sound(g) => Sound(file)
         /\ \A k : Silent(g, k) => Silent(file, k)
<1>1. Len(file) \in Nat /\ Len(g) \in Nat /\ Len(file) <= Len(g)
  BY DEF Files, Extending
<1>2. /\ \A i \in 1 .. Len(file) : i \in 1 .. Len(g)
      /\ \A i \in 1 .. Len(file) - 1 : i \in 1 .. Len(g) - 1 /\ i \in 1 .. Len(file)
  BY <1>1
<1>3. \A i \in 1 .. Len(file) : g[i] = file[i]
  BY Zenon DEF Extending
<1> QED
  BY <1>2, <1>3, Zenon DEF Sound, Silent

\* Writing a batch extends the log.
LEMMA ConcatExtends ==
  ASSUME NEW file \in Files, NEW c \in Files
  PROVE  Extending(file \o c, file)
<1>1. /\ file \o c \in Files /\ Len(file \o c) = Len(file) + Len(c)
      /\ \A i \in 1 .. Len(file) : (file \o c)[i] = file[i]
  BY ConcatIs DEF Files
<1>2. Len(file) \in Nat /\ Len(c) \in Nat
  BY DEF Files
<1> QED
  BY <1>1, <1>2 DEF Extending

-----------------------------------------------------------------------------
(* Snapshots.                                                              *)

\* entries are some of the entries of t, none of them twice.
Part(entries, t) ==
  /\ entries \in Seq(KeyEntry)
  /\ \A i \in 1 .. Len(entries) :
        entries[i].key \in Held(t) /\ entries[i].entry = View(t)[entries[i].key]
  /\ \A i, j \in 1 .. Len(entries) : entries[i].key = entries[j].key => i = j

\* A snapshot that was cut has an entry of the table for a key, or none.
LEMMA PartKeeps ==
  ASSUME NEW t, TInv(t), NEW entries, Part(entries, t), NEW k \in Key
  PROVE  /\ (\E i \in 1 .. Len(entries) : entries[i].key = k) \/ k \notin Held(t) =>
               Keeps(entries, k, Contents(t)[k])
         /\ Keeps(entries, k, Contents(t)[k]) \/ Keeps(entries, k, None)
<1> USE Zenon
<1>1. /\ Contents(t)[k] = Seen(t, k)
      /\ k \in Held(t) => Seen(t, k) = Item(View(t)[k])
      /\ k \notin Held(t) => Seen(t, k) = None
  BY ContentsIs
<1>2. \A i \in 1 .. Len(entries) : \A j \in 1 .. Len(entries) : j > i => j # i
  BY SMT
<1>3. ASSUME NEW i \in 1 .. Len(entries), entries[i].key = k
      PROVE  Keeps(entries, k, Contents(t)[k])
  <2>1. k \in Held(t) /\ entries[i].entry = View(t)[k]
    BY <1>3 DEF Part
  <2>2. Contents(t)[k] = Item(entries[i].entry)
    BY <1>1, <2>1
  <2>3. \A j \in 1 .. Len(entries) : j > i => entries[j].key # k
    BY <1>2, <1>3 DEF Part
  <2> QED
    BY <1>3, <2>2, <2>3 DEF Keeps
<1>4. ASSUME \A i \in 1 .. Len(entries) : entries[i].key # k
      PROVE  Keeps(entries, k, None)
  BY <1>4 DEF Keeps
<1>5. ASSUME k \notin Held(t) PROVE Keeps(entries, k, Contents(t)[k])
  <2>1. \A i \in 1 .. Len(entries) : entries[i].key # k
    BY <1>5 DEF Part
  <2> QED
    BY <1>1, <1>4, <1>5, <2>1
<1> QED
  BY <1>3, <1>4, <1>5

\* The entries a snapshot is written from.
LEMMA SnapshotIs ==
  ASSUME NEW t, TInv(t)
  PROVE  LET all == Listing(Pairs(t))
         IN  /\ Part(all, t) /\ Len(all) = t.entries
             /\ \A k \in Held(t) : \E i \in 1 .. Len(all) : all[i].key = k
<1> USE Zenon
<1> DEFINE all == Listing(Pairs(t))
<1>1. Chained(t) /\ t.entries = Cardinality(Held(t))
  BY DEF TInv
<1>2. /\ IsFiniteSet(Pairs(t)) /\ Pairs(t) \subseteq KeyEntry
      /\ \A kv \in KeyEntry : kv \in Pairs(t) <=> Has(t, kv.key, kv.entry)
  BY <1>1, PairsAre
<1>3. /\ all \in Seq(Pairs(t)) /\ Len(all) = Cardinality(Pairs(t))
      /\ \A i, j \in 1 .. Len(all) : all[i] = all[j] => i = j
      /\ \A x \in Pairs(t) : \E i \in 1 .. Len(all) : all[i] = x
  BY <1>2, ListingIs
<1> HIDE DEF all
<1>4. \A x \in KeyEntry : x.key \in Key /\ x.entry \in Entries /\ x = [key |-> x.key, entry |-> x.entry]
  BY SMT DEF KeyEntry
<1>5. /\ View(t) \in [Held(t) -> Entries] /\ Held(t) \subseteq Key
      /\ \A k \in Key : \A e : Has(t, k, e) <=> k \in Held(t) /\ View(t)[k] = e
  BY <1>1, ViewIs
<1>6. \A x \in Pairs(t) : x.key \in Held(t) /\ x.entry = View(t)[x.key]
  BY <1>2, <1>4, <1>5
<1>7. ASSUME NEW k \in Held(t) PROVE [key |-> k, entry |-> View(t)[k]] \in Pairs(t)
  <2> DEFINE x == [key |-> k, entry |-> View(t)[k]]
  <2>1. View(t)[k] \in Entries /\ k \in Key
    BY <1>5
  <2>2. x \in KeyEntry /\ x.key = k /\ x.entry = View(t)[k]
    BY <2>1, SMT DEF KeyEntry
  <2> HIDE DEF x
  <2>3. Has(t, x.key, x.entry)
    BY <1>5, <2>1, <2>2
  <2>4. x \in Pairs(t)
    BY <1>2, <2>2, <2>3
  <2> QED
    BY <2>4 DEF x
<1>8. \A i \in 1 .. Len(all) : all[i] \in Pairs(t)
  BY <1>3, SMT
<1>9. all \in Seq(KeyEntry)
  BY <1>2, <1>3, SMT
<1>10. \A x, y \in Pairs(t) : x.key = y.key => x = y
  <2>1. \A x, y \in KeyEntry : x.key = y.key /\ x.entry = y.entry => x = y
    BY SMT DEF KeyEntry
  <2> QED
    BY <1>2, <1>6, <2>1
<1>11. Part(all, t)
  BY <1>3, <1>6, <1>8, <1>9, <1>10 DEF Part
<1>12. Cardinality(Pairs(t)) = Cardinality(Held(t))
  <2> DEFINE f == [x \in Pairs(t) |-> x.key]
  <2>1. f \in [Pairs(t) -> Held(t)] /\ \A x \in Pairs(t) : f[x] = x.key
    BY <1>6
  <2> HIDE DEF f
  <2>2. f \in Injection(Pairs(t), Held(t))
    BY <1>10, <2>1 DEF Injection, IsInjective
  <2>3. \A k \in Held(t) : [key |-> k, entry |-> View(t)[k]].key = k
    OBVIOUS
  <2>4. f \in Surjection(Pairs(t), Held(t))
    BY <1>7, <2>1, <2>3 DEF Surjection
  <2> QED
    BY <1>2, <2>2, <2>4, FS_Surjection
<1>13. \A k \in Held(t) : \E i \in 1 .. Len(all) : all[i].key = k
  <2> SUFFICES ASSUME NEW k \in Held(t) PROVE \E i \in 1 .. Len(all) : all[i].key = k
    OBVIOUS
  <2>1. PICK i \in 1 .. Len(all) : all[i] = [key |-> k, entry |-> View(t)[k]]
    BY <1>3, <1>7
  <2>2. [key |-> k, entry |-> View(t)[k]].key = k
    OBVIOUS
  <2> QED
    BY <2>1, <2>2
<1> QED
  BY <1>1, <1>3, <1>11, <1>12, <1>13 DEF all

\* The beginning of a snapshot.
LEMMA PartPrefix ==
  ASSUME NEW t, NEW all, Part(all, t), NEW m \in 0 .. Len(all)
  PROVE  Part(SubSeq(all, 1, m), t)
<1> DEFINE s == SubSeq(all, 1, m)
<1>1. all \in Seq(KeyEntry)
  BY Zenon DEF Part
<1>2. /\ s \in Seq(KeyEntry) /\ Len(s) = m
      /\ \A i \in 1 .. m : s[i] = all[i] /\ i \in 1 .. Len(all)
  BY <1>1
<1> HIDE DEF s
<1>3. Part(s, t)
  BY <1>2, Zenon DEF Part
<1> QED
  BY <1>3, Zenon DEF s

-----------------------------------------------------------------------------
(* What an insert and a removal log.                                       *)

\* What an insert and the evictions before it append; where everything fits, one record.
LEMMA InsertLogged ==
  ASSUME NEW t, TInv(t), NEW k \in Key, NEW v \in Value, NEW s \in Inserted(Run(t), k, Entry(v, 0))
  PROVE  /\ s.log \in Seq(Whole)
         /\ Roomy => s.log = <<[op |-> "SET", key |-> k, value |-> v, expiry |-> 0]>>
<1> USE Zenon
<1> DEFINE e == Entry(v, 0)
           x == [op |-> "SET", key |-> k, value |-> e.value, expiry |-> e.expiry]
           logged == [Run(t) EXCEPT !.log = Append(@, x)]
<1>1. PICK y \in Evicted(logged) : s = [y EXCEPT !.table = Put(ResizeIfNeeded(@), k, e)]
  BY DEF Inserted
<1>2. e.value = v /\ e.expiry = 0
  BY DEF Entry
<1>3. x \in Records /\ x \in Whole /\ x = [op |-> "SET", key |-> k, value |-> v, expiry |-> 0]
  <2>1. x = [op |-> "SET", key |-> k, value |-> v, expiry |-> 0]
    BY <1>2
  <2> HIDE DEF x
  <2> QED
    BY <2>1, SMT DEF Records, Whole
<1>4. Run(t) \in Runs /\ Run(t).log = << >>
  BY NewRun DEF Run
<1> HIDE DEF x, e
<1>5. logged \in Runs /\ logged.log = Append(<< >>, x)
  BY <1>3, <1>4, LoggedRun
<1> HIDE DEF logged
<1>6. logged.log = <<x>> /\ <<x>> \in Seq(Whole)
  BY <1>3, <1>5, SMT
<1> DEFINE Good(z) == z.log \in Seq(Whole) /\ (Roomy => z.log = <<x>>)
<1>7. PICK f \in [Nat -> SUBSET Runs] :
        /\ f[0] = {logged} /\ \A n \in Nat : f[n + 1] = UNION {EvictOnce(z) : z \in f[n]}
        /\ Evicted(logged) = f[logged.table.entries]
  BY <1>5, Turns
<1>8. ASSUME NEW q \in Runs, Good(q), NEW z \in EvictOnce(q) PROVE Good(z)
  <2>1. TInv(q.table)
    BY RunFields
  <2>2. CASE z = q
    BY <1>8, <2>2
  <2>3. CASE z # q
    <3>1. ShouldEvict(q.table.pol)
          /\ \E j \in Held(q.table) : z.log = Append(q.log, [op |-> "DELETE", key |-> j])
      BY <2>3, TurnIs
    <3>2. PICK j \in Held(q.table) : z.log = Append(q.log, [op |-> "DELETE", key |-> j])
      BY <3>1
    <3>3. ~Roomy
      BY <2>1, <3>1, Fits
    <3>4. j \in Key
      BY <3>2 DEF Held
    <3>5. [op |-> "DELETE", key |-> j] \in Whole
      BY <3>4, SMT DEF Whole
    <3>6. z.log \in Seq(Whole)
      BY <1>8, <3>2, <3>5, SMT
    <3> QED
      BY <3>3, <3>6
  <2> QED
    BY <2>2, <2>3
<1> DEFINE Z == {n \in Nat : \A z \in f[n] : Good(z)}
<1>9. 0 \in Z
  <2>1. 0 \in Nat /\ \A z \in f[0] : z = logged
    BY <1>7, SMT
  <2> QED
    BY <1>6, <2>1
<1> HIDE DEF Good
<1>10. ASSUME NEW n \in Nat, n \in Z PROVE n + 1 \in Z
  <2>1. ASSUME NEW z \in f[n + 1] PROVE Good(z)
    <3>1. f[n + 1] = UNION {EvictOnce(q) : q \in f[n]}
      BY <1>7
    <3>2. PICK q \in f[n] : z \in EvictOnce(q)
      BY <2>1, <3>1
    <3>3. q \in Runs /\ Good(q)
      BY <1>7, <1>10, <3>2
    <3> QED
      BY <1>8, <3>2, <3>3
  <2>2. n + 1 \in Nat
    BY SMT
  <2> QED
    BY <2>1, <2>2
<1>11. logged.table.entries \in Nat
  BY <1>5, RunFields, TableFields
<1>12. Good(y) /\ y \in Runs
  <2> HIDE DEF Z
  <2>1. Nat \subseteq Z
    BY <1>9, <1>10, Induction
  <2>2. logged.table.entries \in Z
    BY <1>11, <2>1
  <2> QED
    BY <1>1, <1>7, <1>11, <2>2 DEF Z
<1>13. s.log = y.log
  <2> DEFINE u == Put(ResizeIfNeeded(y.table), k, e)
  <2>1. s = [y EXCEPT !.table = u]
    BY <1>1
  <2> HIDE DEF u
  <2> QED
    BY <1>12, <2>1, SMT DEF Runs
<1> QED
  BY <1>3, <1>12, <1>13 DEF Good

\* remove logs one record.
LEMMA RemoveLogged ==
  ASSUME NEW t, NEW k \in Key
  PROVE  Removed(Run(t), k).log = <<[op |-> "DELETE", key |-> k]>>
<1>1. Removed(Run(t), k).log = Append(<< >>, [op |-> "DELETE", key |-> k])
  BY Zenon DEF Removed, Run
<1> QED
  BY <1>1

-----------------------------------------------------------------------------
(* What is served, and the records behind it.                              *)

\* After a flush: the file alone restores the contents.
LEMMA BackedEmpty ==
  ASSUME NEW entries, NEW file \in Files, NEW m, Sound(file) => Restores(entries, file, m)
  PROVE  Backed(entries, file, << >>, <<m>>, m)
<1>1. /\ Len(<< >>) = 0 /\ Len(<<m>>) = 0 + 1 /\ <<m>>[Len(<<m>>)] = m
      /\ \A n \in 0 .. 0 : n = 0 /\ <<m>>[n + 1] = m
  OBVIOUS
<1>2. << >> \in Seq(Whole) /\ 0 \in 0 .. Len(<< >>)
  OBVIOUS
<1>3. file \o SubSeq(<< >>, 1, 0) = file
  BY <1>2, SavedIs, Zenon
<1> QED
  BY <1>1, <1>3, Zenon DEF Backed

\* After all that is buffered, the contents are restored.
LEMMA BackedLast ==
  ASSUME NEW entries, NEW file \in Files, NEW buf \in Seq(Whole), NEW contents, NEW m,
         Backed(entries, file, buf, contents, m), Sound(file \o buf)
  PROVE  Restores(entries, file \o buf, m)
<1>1. Len(buf) \in Nat /\ Len(buf) \in 0 .. Len(buf)
  OBVIOUS
<1>2. file \o SubSeq(buf, 1, Len(buf)) = file \o buf
  BY <1>1, SavedIs, Zenon
<1>3. contents[Len(buf) + 1] = m
  BY Zenon DEF Backed
<1> QED
  BY <1>1, <1>2, <1>3, Zenon DEF Backed

\* One operation more.
LEMMA BackedNext ==
  ASSUME NEW entries, NEW file \in Files, NEW buf \in Seq(Whole), NEW M, NEW contents \in Seq(M), NEW m,
         Backed(entries, file, buf, contents, m), NEW r \in Whole, NEW w \in M,
         \A k \in Key : w[k] = IF k = r.key THEN Effect(r) ELSE m[k]
  PROVE  LET more == Append(buf, r)
         IN  /\ Sound(file \o more) => Restores(entries, file \o more, w)
             /\ Backed(entries, file, more, Append(contents, w), w)
<1> DEFINE more == Append(buf, r)
           after == Append(contents, w)
           N == Len(buf)
<1>1. /\ N \in Nat /\ more \in Seq(Whole) /\ Len(more) = N + 1 /\ more[N + 1] = r
      /\ \A i \in 1 .. N : more[i] = buf[i]
  OBVIOUS
<1>2. Len(contents) = N + 1
  BY Zenon DEF Backed
<1>3. /\ Len(after) = (N + 1) + 1 /\ after[(N + 1) + 1] = w
      /\ \A i \in 1 .. N + 1 : after[i] = contents[i]
  BY <1>1, <1>2
<1> HIDE DEF more, after
<1>4. ASSUME NEW n \in 0 .. N PROVE SubSeq(more, 1, n) = SubSeq(buf, 1, n)
  <2> DEFINE a == SubSeq(more, 1, n)
             b == SubSeq(buf, 1, n)
  <2>1. /\ a \in Seq(Whole) /\ b \in Seq(Whole) /\ Len(a) = n /\ Len(b) = n
        /\ \A i \in 1 .. n : a[i] = more[i] /\ b[i] = buf[i] /\ i \in 1 .. N
    BY <1>1
  <2> HIDE DEF a, b
  <2>2. Len(a) = Len(b) /\ \A i \in 1 .. Len(a) : a[i] = b[i]
    BY <1>1, <2>1, Zenon
  <2>3. a = b
    BY <2>1, <2>2, SameSeq, Zenon
  <2> QED
    BY <2>3, Zenon DEF a, b
<1>5. file \o more = Append(file \o buf, r) /\ file \o buf \in Files
  <2> DEFINE a == file \o more
             c == file \o buf
             F == Len(file)
             T == Whole \union {Torn}
  <2>1. file \in Seq(T) /\ buf \in Seq(T) /\ more \in Seq(T) /\ F \in Nat /\ r \in T
    BY <1>1 DEF Files
  <2> HIDE DEF T
  <2>2. /\ a \in Seq(T) /\ Len(a) = F + Len(more)
        /\ \A i \in 1 .. F : a[i] = file[i]
        /\ \A i \in 1 .. Len(more) : a[F + i] = more[i]
    BY <2>1, ConcatIs
  <2>3. /\ c \in Seq(T) /\ Len(c) = F + N
        /\ \A i \in 1 .. F : c[i] = file[i]
        /\ \A i \in 1 .. N : c[F + i] = buf[i]
    BY <2>1, ConcatIs
  <2> DEFINE d == Append(c, r)
  <2> HIDE DEF a, c
  <2>4. d \in Seq(T) /\ Len(d) = (F + N) + 1 /\ d[(F + N) + 1] = r /\ \A i \in 1 .. F + N : d[i] = c[i]
    BY <1>1, <2>1, <2>3
  <2> HIDE DEF d
  <2>5. Len(a) = Len(d) /\ Len(a) = (F + N) + 1
    BY <1>1, <2>1, <2>2, <2>4
  <2>6. ASSUME NEW i \in 1 .. Len(a) PROVE a[i] = d[i]
    <3>1. CASE i \in 1 .. F
      <4>1. i \in 1 .. F + N
        BY <1>1, <2>1, <3>1
      <4> QED
        BY <2>2, <2>3, <2>4, <3>1, <4>1, Zenon
    <3>2. CASE i \notin 1 .. F /\ i # (F + N) + 1
      <4>1. PICK j \in 1 .. N : i = F + j
        <5> HIDE DEF F, N
        <5>1. i \in 1 .. (F + N) + 1 /\ F \in Nat /\ N \in Nat
          BY <1>1, <2>1, <2>5, Zenon
        <5>2. i - F \in 1 .. N /\ i = F + (i - F)
          BY <3>2, <5>1
        <5> QED
          BY <5>2, Zenon
      <4>2. i \in 1 .. F + N /\ j \in 1 .. Len(more)
        BY <1>1, <2>1, <4>1
      <4>3. a[F + j] = more[j] /\ c[F + j] = buf[j] /\ more[j] = buf[j]
        BY <1>1, <2>2, <2>3, <4>1, <4>2, Zenon
      <4> QED
        BY <2>4, <4>1, <4>2, <4>3, Zenon
    <3>3. CASE i = (F + N) + 1
      <4>1. i = F + (N + 1) /\ N + 1 \in 1 .. Len(more)
        BY <1>1, <2>1, <3>3
      <4>2. a[F + (N + 1)] = more[N + 1]
        BY <2>2, <4>1, Zenon
      <4> QED
        BY <1>1, <2>4, <3>3, <4>1, <4>2, Zenon
    <3> QED
      BY <3>1, <3>2, <3>3, Zenon
  <2>7. a = d
    BY <2>2, <2>4, <2>5, <2>6, SameSeq, Zenon
  <2> QED
    BY <2>3, <2>7, Zenon DEF a, c, d, T, Files
<1>6. ASSUME Sound(file \o more) PROVE Restores(entries, file \o more, w)
  <2>1. Sound(Append(file \o buf, r))
    BY <1>5, <1>6, Zenon
  <2>2. Sound(file \o buf)
    BY <1>5, <2>1, SoundPrefix, Zenon
  <2>3. Restores(entries, file \o buf, m)
    BY <2>2, BackedLast, Zenon
  <2>4. Restores(entries, Append(file \o buf, r), w)
    BY <1>5, <2>3, RestoresNext, Zenon
  <2> QED
    BY <1>5, <2>4, Zenon
<1>7. ASSUME NEW n \in 0 .. Len(more), Sound(file \o SubSeq(more, 1, n))
      PROVE  Restores(entries, file \o SubSeq(more, 1, n), after[n + 1])
  <2>1. CASE n \in 0 .. N
    <3>1. n + 1 \in 1 .. N + 1
      BY <1>1, <2>1
    <3>2. Sound(file \o SubSeq(buf, 1, n)) => Restores(entries, file \o SubSeq(buf, 1, n), contents[n + 1])
      BY <2>1, Zenon DEF Backed
    <3> QED
      BY <1>3, <1>4, <1>7, <2>1, <3>1, <3>2, Zenon
  <2>2. CASE n \notin 0 .. N
    <3>1. n = Len(more) /\ n + 1 = (N + 1) + 1
      BY <1>1, <2>2
    <3>2. file \o SubSeq(more, 1, Len(more)) = file \o more
      BY <1>1, <1>7, SavedIs, Zenon
    <3> QED
      BY <1>3, <1>6, <1>7, <3>1, <3>2, Zenon
  <2> QED
    BY <2>1, <2>2, Zenon
<1>8. Backed(entries, file, more, after, w)
  BY <1>1, <1>3, <1>7, Zenon DEF Backed
<1> QED
  BY <1>6, <1>8, Zenon DEF more, after

=============================================================================
