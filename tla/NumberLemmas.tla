------------------------------ MODULE NumberLemmas -----------------------------
(***************************************************************************)
(* Facts about numbers that proofs of several components rest on: the      *)
(* remainder, on which wrapping cursors and words depend; least and        *)
(* greatest elements; what a function defined by repetition is; what the   *)
(* folds of the community modules give, sums among them; how many members  *)
(* a set has after some were exchanged; and sequences put together.        *)
(***************************************************************************)
EXTENDS Integers, Functions, FiniteSetTheorems, SequenceTheorems, WellFoundedInduction, TLAPS

(* Remainders *)

\* Division with remainder.
LEMMA DivMod ==
  ASSUME NEW m \in Nat \ {0}, NEW a \in Int
  PROVE  a \div m \in Int /\ a % m \in 0 .. m - 1 /\ a = m * (a \div m) + (a % m)
  OBVIOUS

\* The remainder is the only number of 0 .. m-1 that differs from a by a multiple of m.
LEMMA ModUnique ==
  ASSUME NEW m \in Nat \ {0}, NEW a \in Int, NEW q \in Int, NEW r \in 0 .. m - 1,
         a = m * q + r
  PROVE  a % m = r
  OBVIOUS

\* Numbers that differ by a multiple of m leave the same remainder.
LEMMA SameResidue ==
  ASSUME NEW m \in Nat \ {0}, NEW a \in Int, NEW b \in Int, NEW k \in Int, a = m * k + b
  PROVE  a % m = b % m
<1> DEFINE q == b \div m
           r == b % m
<1>1. q \in Int /\ r \in 0 .. m - 1 /\ b = m * q + r  BY DivMod
<1> HIDE DEF q, r
<1>2. a = m * (k + q) + r  BY <1>1
<1>3. k + q \in Int  BY <1>1
<1>4. a % m = r  BY <1>1, <1>2, <1>3, ModUnique
<1> QED BY <1>4 DEF r

\* A factor may be reduced before it is multiplied.
LEMMA ReducedFactor ==
  ASSUME NEW m \in Nat \ {0}, NEW a \in Int, NEW b \in Int
  PROVE  ((a % m) * b) % m = (a * b) % m
<1> DEFINE q == a \div m
           r == a % m
<1>1. q \in Int /\ r \in 0 .. m - 1 /\ a = m * q + r  BY DivMod
<1> HIDE DEF q, r
<1>2. a * b = m * (q * b) + r * b  BY <1>1
<1>3. q * b \in Int /\ r * b \in Int /\ a * b \in Int  BY <1>1
<1>4. (a * b) % m = (r * b) % m  BY <1>2, <1>3, SameResidue
<1> QED BY <1>4 DEF r

\* Products of sums.
LEMMA Distributes ==
  ASSUME NEW k \in Nat, NEW a \in Nat, NEW b \in Nat
  PROVE  /\ (k - 2) * (a + b) = (k - 2) * a + (k - 2) * b
         /\ b * k = 2 * b + (k - 2) * b
         /\ (k - 2) * a \in Int
OBVIOUS

\* A slot's words are among those of all slots.
LEMMA SlotFits ==
  ASSUME NEW slot \in Nat, NEW conc \in Nat, slot < conc, NEW length \in Nat
  PROVE  slot * length \in Nat /\ slot * length + length <= length * conc
<1>1. PICK d \in Nat : conc = slot + 1 + d
  <2>1. conc - slot - 1 \in Nat  OBVIOUS
  <2> QED BY <2>1
<1>2. length * conc = slot * length + length + d * length  BY <1>1
<1>3. \A a, b \in Nat : a * b \in Nat  OBVIOUS
<1>4. slot * length \in Nat /\ d * length \in Nat  BY <1>3
<1> QED BY <1>2, <1>4

\* How often one goes into the other.
LEMMA GoesInto ==
  ASSUME NEW m \in Nat \ {0}, NEW a \in Nat, NEW j \in Int
  PROVE  a \div m \in Nat /\ (j * m > a <=> j > a \div m)
<1> DEFINE q == a \div m
           r == a % m
<1>1. q \in Int /\ r \in 0 .. m - 1 /\ a = m * q + r  BY DivMod
<1>2. q \in Nat  OBVIOUS
<1> HIDE DEF q, r
<1>3. CASE j <= q
  <2>1. PICK d \in Nat : q = j + d
    <3>1. q - j \in Nat /\ q = j + (q - j)  BY <1>1, <1>3
    <3> QED BY <3>1
  <2>2. m * q = j * m + d * m  BY <2>1
  <2>3. d * m \in Nat /\ j * m \in Int  BY <2>1
  <2> QED BY <1>1, <1>2, <1>3, <2>2, <2>3 DEF q
<1>4. CASE j > q
  <2>1. PICK d \in Nat : j = q + 1 + d
    <3>1. j - q - 1 \in Nat /\ j = q + 1 + (j - q - 1)  BY <1>1, <1>4
    <3> QED BY <3>1
  <2>2. j * m = m * q + m + d * m  BY <1>1, <2>1
  <2>3. d * m \in Nat /\ m * q \in Int  BY <1>1, <2>1
  <2> QED BY <1>1, <1>2, <1>4, <2>2, <2>3 DEF q
<1> QED BY <1>1, <1>3, <1>4

\* The wrapped difference of two wrapped cursors is their true difference
\* (queue.cc:52, 94: `producer - consumer` on size_t).
LEMMA WrappedDifference ==
  ASSUME NEW m \in Nat \ {0}, NEW a \in Int, NEW b \in Int, b <= a, a - b < m
  PROVE  ((a % m) - (b % m)) % m = a - b
<1> DEFINE qa == a \div m
           qb == b \div m
           ra == a % m
           rb == b % m
<1>1. qa \in Int /\ ra \in 0 .. m - 1 /\ a = m * qa + ra  BY DivMod
<1>2. qb \in Int /\ rb \in 0 .. m - 1 /\ b = m * qb + rb  BY DivMod
<1> HIDE DEF qa, qb, ra, rb
<1>3. ra - rb = m * (qb - qa) + (a - b)  BY <1>1, <1>2
<1>4. a - b \in 0 .. m - 1 /\ qb - qa \in Int /\ ra - rb \in Int  BY <1>1, <1>2
<1>5. (ra - rb) % m = a - b  BY <1>3, <1>4, ModUnique
<1> QED BY <1>5 DEF ra, rb

\* Moving a wrapped cursor on by k is wrapping the moved cursor (queue.cc:78, 89).
LEMMA WrappedAdvance ==
  ASSUME NEW m \in Nat \ {0}, NEW a \in Int, NEW k \in Int
  PROVE  ((a % m) + k) % m = (a + k) % m
<1> DEFINE qa == a \div m
           ra == a % m
           qs == (a + k) \div m
           rs == (a + k) % m
<1>1. qa \in Int /\ ra \in 0 .. m - 1 /\ a = m * qa + ra  BY DivMod
<1>0. a + k \in Int  OBVIOUS
<1>2. qs \in Int /\ rs \in 0 .. m - 1 /\ a + k = m * qs + rs  BY <1>0, DivMod
<1> HIDE DEF qa, ra, qs, rs
<1>3. ra + k = m * (qs - qa) + rs  BY <1>1, <1>2
<1>4. qs - qa \in Int /\ ra + k \in Int  BY <1>1, <1>2
<1>5. (ra + k) % m = rs  BY <1>2, <1>3, <1>4, ModUnique
<1> QED BY <1>5 DEF ra, rs

\* Two positions less than m apart fall into different slots of a ring of m.
LEMMA DistinctSlots ==
  ASSUME NEW m \in Nat \ {0}, NEW a \in Int, NEW b \in Int, b < a, a - b < m
  PROVE  a % m # b % m
<1>0. b <= a  OBVIOUS
<1>1. ((a % m) - (b % m)) % m = a - b  BY <1>0, WrappedDifference
<1>2. 0 % m = 0  OBVIOUS
<1>3. a % m \in Int /\ b % m \in Int  BY DivMod
<1> QED BY <1>1, <1>2, <1>3

\* Wrapping a cursor at a multiple of the ring's capacity keeps its slot (queue.cc:97-99).
LEMMA SlotOfWrapped ==
  ASSUME NEW m \in Nat \ {0}, NEW c \in Nat \ {0}, m % c = 0, NEW a \in Int
  PROVE  (a % m) % c = a % c
<1> DEFINE k  == m \div c
           qa == a \div m
           ra == a % m
           qc == a \div c
           rc == a % c
<1>1. k \in Int /\ m = c * k  BY DivMod
<1>2. qa \in Int /\ ra \in 0 .. m - 1 /\ a = m * qa + ra  BY DivMod
<1>3. qc \in Int /\ rc \in 0 .. c - 1 /\ a = c * qc + rc  BY DivMod
<1> HIDE DEF k, qa, ra, qc, rc
<1>4. m * qa = c * (k * qa)  BY <1>1, <1>2
<1>5. k * qa \in Int  BY <1>1, <1>2
<1>6. ra = c * (qc - k * qa) + rc  BY <1>2, <1>3, <1>4, <1>5
<1>7. qc - k * qa \in Int /\ ra \in Int  BY <1>2, <1>3, <1>5
<1>8. ra % c = rc  BY <1>3, <1>6, <1>7, ModUnique
<1> QED BY <1>8 DEF ra, rc

--------------------------------------------------------------------------------
(* Least and greatest elements *)

\* A set of numbers has a least one.
LEMMA LeastNumber ==
  ASSUME NEW S, S \subseteq Nat, S # {}
  PROVE  \E n \in S : \A m \in S : n <= m
<1>1. IsWellFoundedOn(OpToRel(<, Nat), Nat)  BY NatLessThanWellFounded
<1>2. PICK n \in S : \A m \in S : <<m, n>> \notin OpToRel(<, Nat)  BY <1>1, WFMin
<1>3. \A m, k \in Nat : m < k => <<m, k>> \in OpToRel(<, Nat)  BY Zenon DEF OpToRel
<1>4. \A m \in S : ~(m < n)  BY <1>2, <1>3, Zenon
<1> QED BY <1>4

\* A bounded one has a greatest.
LEMMA GreatestNumber ==
  ASSUME NEW S, S \subseteq Nat, S # {}, NEW bound \in Nat, \A n \in S : n <= bound
  PROVE  \E n \in S : \A m \in S : m <= n
<1> DEFINE distances == {bound - n : n \in S}
<1>1. distances \subseteq Nat /\ distances # {}
  <2>1. \A n \in S : bound - n \in Nat  OBVIOUS
  <2>2. PICK n \in S : TRUE  OBVIOUS
  <2> QED BY <2>1, <2>2
<1>2. PICK d \in distances : \A e \in distances : d <= e  BY <1>1, LeastNumber
<1>3. PICK n \in S : d = bound - n  OBVIOUS
<1>4. \A m \in S : m <= n
  <2> SUFFICES ASSUME NEW m \in S PROVE m <= n  OBVIOUS
  <2>1. bound - m \in distances  OBVIOUS
  <2> QED BY <2>1, <1>2, <1>3
<1> QED BY <1>4

\* Induction over the numbers, for a set that is given.
LEMMA Induction ==
  ASSUME NEW P, 0 \in P, \A n \in Nat : n \in P => n + 1 \in P
  PROVE  Nat \subseteq P
<1> DEFINE outside == {n \in Nat : n \notin P}
<1> SUFFICES ASSUME outside # {} PROVE FALSE  OBVIOUS
<1>1. PICK n \in outside : \A m \in outside : n <= m  BY LeastNumber
<1>2. n # 0 /\ n - 1 \in Nat /\ n - 1 \notin outside  BY <1>1
<1>3. (n - 1) + 1 \in P  BY <1>2
<1> QED BY <1>2, <1>3

\* Induction over the subsets of a finite set.
LEMMA SubsetInduction ==
  ASSUME NEW D, IsFiniteSet(D), NEW P, {} \in P,
         \A s \in SUBSET D : s # {} /\ (\A x \in s : s \ {x} \in P) => s \in P
  PROVE  SUBSET D \subseteq P
<1> DEFINE sized(n) == {s \in SUBSET D : Cardinality(s) = n}
           all == {n \in Nat : sized(n) \subseteq P}
<1>1. \A s \in SUBSET D : IsFiniteSet(s) /\ Cardinality(s) \in Nat  BY FS_Subset, FS_CardinalityType
<1>2. 0 \in all
  <2>1. \A s \in sized(0) : s = {}  BY <1>1, FS_EmptySet
  <2> QED BY <2>1
<1>3. \A n \in Nat : n \in all => n + 1 \in all
  <2> SUFFICES ASSUME NEW n \in all, NEW s \in sized(n + 1) PROVE s \in P  OBVIOUS
  <2>1. s # {}  BY <1>1, FS_EmptySet
  <2>2. \A x \in s : Cardinality(s \ {x}) = n  BY <1>1, FS_RemoveElement
  <2>3. \A x \in s : s \ {x} \in sized(n)  BY <2>2
  <2> QED BY <2>1, <2>3
<1> HIDE DEF all
<1>4. Nat \subseteq all  BY <1>2, <1>3, Induction
<1> QED BY <1>1, <1>4 DEF all

\* Repeating a step from a first value: a recursion over the numbers.
LEMMA Iteration ==
  ASSUME NEW S, NEW first \in S, NEW step \in [S -> S]
  PROVE  \E f \in [Nat -> S] : f[0] = first /\ \A n \in Nat : f[n + 1] = step[f[n]]
<1> DEFINE Until(n, f) == f \in [0 .. n -> S] /\ f[0] = first /\ \A m \in 0 .. n - 1 : f[m + 1] = step[f[m]]
           some == {n \in Nat : \E f : Until(n, f)}
           beginning(n) == CHOOSE f : Until(n, f)
<1>1. 0 \in some
  <2> DEFINE f == [m \in 0 .. 0 |-> first]
  <2>1. f \in [0 .. 0 -> S] /\ f[0] = first  OBVIOUS
  <2>2. Until(0, f)  BY <2>1
  <2> QED BY <2>2
<1>2. \A n \in Nat : n \in some => n + 1 \in some
  <2> SUFFICES ASSUME NEW n \in Nat, n \in some PROVE \E f : Until(n + 1, f)  OBVIOUS
  <2>1. PICK f : Until(n, f)  OBVIOUS
  <2> DEFINE g == [m \in 0 .. n + 1 |-> IF m = n + 1 THEN step[f[n]] ELSE f[m]]
  <2>2. f[n] \in S /\ step[f[n]] \in S  BY <2>1
  <2>3. g \in [0 .. n + 1 -> S] /\ g[0] = first /\ \A m \in 0 .. n : g[m + 1] = step[g[m]]
    BY <2>1, <2>2
  <2>4. (n + 1) - 1 = n  OBVIOUS
  <2> HIDE DEF g
  <2>5. Until(n + 1, g)  BY <2>3, <2>4
  <2> QED BY <2>5
<1>3. \A n \in Nat : Until(n, beginning(n))
  <2> HIDE DEF some, Until
  <2>1. Nat \subseteq some  BY <1>1, <1>2, Induction
  <2> QED BY <2>1 DEF some
<1> HIDE DEF beginning, some
\* Two beginnings agree as far as both go.
<1>4. \A k, n \in Nat : k <= n => beginning(n)[k] = beginning(k)[k]
  <2> DEFINE agree == {k \in Nat : \A n, m \in Nat : k <= n /\ k <= m => beginning(n)[k] = beginning(m)[k]}
  <2>1. 0 \in agree  BY <1>3
  <2>2. \A k \in Nat : k \in agree => k + 1 \in agree
    <3> SUFFICES ASSUME NEW k \in Nat, k \in agree, NEW n \in Nat, NEW m \in Nat, k + 1 <= n, k + 1 <= m
        PROVE  beginning(n)[k + 1] = beginning(m)[k + 1]
      OBVIOUS
    <3>1. k \in 0 .. n - 1 /\ k \in 0 .. m - 1 /\ beginning(n)[k] = beginning(m)[k]  OBVIOUS
    <3>2. beginning(n)[k + 1] = step[beginning(n)[k]]  BY <1>3, <3>1
    <3>3. beginning(m)[k + 1] = step[beginning(m)[k]]  BY <1>3, <3>1
    <3> QED BY <3>1, <3>2, <3>3
  <2> HIDE DEF agree
  <2>3. Nat \subseteq agree  BY <2>1, <2>2, Induction
  <2> QED BY <2>3 DEF agree
<1> DEFINE f == [n \in Nat |-> beginning(n)[n]]
<1>5. f \in [Nat -> S] /\ f[0] = first
  <2>1. \A n \in Nat : beginning(n)[n] \in S  BY <1>3
  <2> HIDE DEF Until
  <2>2. beginning(0)[0] = first  BY <1>3 DEF Until
  <2> QED BY <2>1, <2>2
<1>6. \A n \in Nat : f[n + 1] = step[f[n]]
  <2> SUFFICES ASSUME NEW n \in Nat PROVE f[n + 1] = step[f[n]]  OBVIOUS
  <2>1. beginning(n + 1)[n + 1] = step[beginning(n + 1)[n]]  BY <1>3
  <2>2. beginning(n + 1)[n] = beginning(n)[n]  BY <1>4
  <2> QED BY <2>1, <2>2
<1> HIDE DEF f
<1> QED BY <1>5, <1>6

\* Repeating a step that knows how often it has been made: a recursion from 0 to n.
StaysIn(S, step) == \A k \in Nat, v \in S : step[<<k, v>>] \in S
Repeats(f, first, step, n) == f[0] = first /\ \A k \in 1 .. n : f[k] = step[<<k, f[k - 1]>>]

LEMMA NumberedIteration ==
  ASSUME NEW S, NEW first \in S, NEW step, StaysIn(S, step), NEW n \in Nat
  PROVE  \E f \in [0 .. n -> S] : Repeats(f, first, step, n)
<1> DEFINE pairs == Nat \X S
           start == <<0, first>>
           advance == [p \in pairs |-> <<p[1] + 1, step[<<p[1] + 1, p[2]>>]>>]
<1>0. \A k \in Nat, v \in S : step[<<k, v>>] \in S  BY DEF StaysIn
<1>1. advance \in [pairs -> pairs] /\ start \in pairs  BY <1>0
<1>2. PICK h \in [Nat -> pairs] : h[0] = start /\ \A k \in Nat : h[k + 1] = advance[h[k]]
  <2> HIDE DEF advance, pairs, start
  <2> QED BY <1>1, Iteration
<1>7. ASSUME NEW k \in Nat
      PROVE  /\ h[k][1] \in Nat /\ h[k][2] \in S
             /\ h[k + 1][1] = h[k][1] + 1
             /\ h[k + 1][2] = step[<<h[k][1] + 1, h[k][2]>>]
  <2>1. h[k] \in Nat \X S  BY <1>2
  <2>2. PICK i \in Nat, v \in S : h[k] = <<i, v>>  BY <2>1
  <2>3. advance[<<i, v>>] = <<i + 1, step[<<i + 1, v>>]>>  OBVIOUS
  <2>4. h[k + 1] = advance[<<i, v>>]
    <3> HIDE DEF advance
    <3> QED BY <1>2, <2>2
  <2>5. h[k + 1] = <<i + 1, step[<<i + 1, v>>]>>  BY <2>3, <2>4
  <2> QED BY <2>2, <2>5
<1>3. \A k \in Nat : h[k][1] = k
  <2> DEFINE P == {k \in Nat : h[k][1] = k}
  <2>1. 0 \in P  BY <1>2
  <2>2. ASSUME NEW k \in Nat, k \in P PROVE k + 1 \in P
    <3>1. h[k + 1][1] = k + 1  BY <1>7, <2>2
    <3> QED BY <3>1
  <2> HIDE DEF P
  <2>3. Nat \subseteq P  BY <2>1, <2>2, Induction
  <2> QED BY <2>3 DEF P
<1>4. \A k \in Nat : h[k][2] \in S /\ h[k + 1][2] = step[<<k + 1, h[k][2]>>]  BY <1>3, <1>7
<1> DEFINE f == [k \in 0 .. n |-> h[k][2]]
<1>5. f \in [0 .. n -> S] /\ f[0] = first  BY <1>2, <1>4
<1>6. ASSUME NEW k \in 1 .. n PROVE f[k] = step[<<k, f[k - 1]>>]
  <2>1. k - 1 \in Nat /\ (k - 1) + 1 = k /\ k - 1 \in 0 .. n /\ k \in 0 .. n  OBVIOUS
  <2>2. h[k][2] = step[<<k, h[k - 1][2]>>]  BY <1>4, <2>1
  <2> QED BY <2>1, <2>2
<1> QED BY <1>5, <1>6 DEF Repeats

--------------------------------------------------------------------------------
(* Folds and sums *)

\* The folds of the subsets of D, each made from that of the subset without the one that is picked.
PicksFrom(one, D) == \A s \in SUBSET D : s # {} => one[s] \in s
IsFolds(folds, D, base, step, one) ==
  \A s \in SUBSET D : folds[s] = IF s = {} THEN base ELSE step[<<one[s], folds[s \ {one[s]}]>>]

\* A finite set has them.
LEMMA FoldsExist ==
  ASSUME NEW D, IsFiniteSet(D), NEW V, NEW base \in V, NEW step \in [D \X V -> V],
         NEW one, PicksFrom(one, D)
  PROVE  \E folds \in [SUBSET D -> V] : IsFolds(folds, D, base, step, one)
<1> USE DEF PicksFrom
<1> DEFINE upTo(n) == {s \in SUBSET D : Cardinality(s) <= n}
           value(folds, s) == IF s = {} THEN base ELSE step[<<one[s], folds[s \ {one[s]}]>>]
           Some(n) == \E folds \in [upTo(n) -> V] : \A s \in upTo(n) : folds[s] = value(folds, s)
           all == {n \in Nat : Some(n)}
<1>1. \A s \in SUBSET D : /\ IsFiniteSet(s) /\ Cardinality(s) \in Nat
                          /\ s # {} => one[s] \in s /\ Cardinality(s \ {one[s]}) = Cardinality(s) - 1
                                       /\ s \ {one[s]} \in SUBSET D
  <2> SUFFICES ASSUME NEW s \in SUBSET D
      PROVE  /\ IsFiniteSet(s) /\ Cardinality(s) \in Nat
             /\ s # {} => one[s] \in s /\ Cardinality(s \ {one[s]}) = Cardinality(s) - 1
                          /\ s \ {one[s]} \in SUBSET D
    OBVIOUS
  <2>1. IsFiniteSet(s) /\ Cardinality(s) \in Nat  BY FS_Subset, FS_CardinalityType
  <2> QED BY <2>1, FS_RemoveElement
<1>2. 0 \in all
  <2>0. \A s \in upTo(0) : s = {}
    <3> SUFFICES ASSUME NEW s \in upTo(0) PROVE s = {}  OBVIOUS
    <3>1. IsFiniteSet(s) /\ Cardinality(s) \in Nat  BY <1>1
    <3>2. Cardinality(s) = 0  BY <3>1
    <3> QED BY <3>1, <3>2, FS_EmptySet
  <2> DEFINE nothing == [s \in upTo(0) |-> base]
  <2>1. nothing \in [upTo(0) -> V]  OBVIOUS
  <2>2. \A s \in upTo(0) : nothing[s] = value(nothing, s)  BY <2>0
  <2> HIDE DEF nothing
  <2> QED BY <2>1, <2>2
<1>3. \A n \in Nat : n \in all => n + 1 \in all
  <2> SUFFICES ASSUME NEW n \in Nat, n \in all PROVE Some(n + 1)
    <3> HIDE DEF Some
    <3> QED OBVIOUS
  <2>1. PICK folds \in [upTo(n) -> V] : \A s \in upTo(n) : folds[s] = value(folds, s)  OBVIOUS
  <2>2. \A s \in upTo(n + 1) : s # {} => s \ {one[s]} \in upTo(n) /\ one[s] \in D
    <3> SUFFICES ASSUME NEW s \in upTo(n + 1), s # {} PROVE s \ {one[s]} \in upTo(n) /\ one[s] \in D
      <4> HIDE DEF upTo
      <4> QED OBVIOUS
    <3>1. one[s] \in s /\ Cardinality(s \ {one[s]}) = Cardinality(s) - 1 /\ Cardinality(s) \in Nat  BY <1>1
    <3>2. Cardinality(s \ {one[s]}) <= n  BY <3>1
    <3> QED BY <3>1, <3>2
  <2> DEFINE more == [s \in upTo(n + 1) |-> value(folds, s)]
  <2>3. more \in [upTo(n + 1) -> V]
    <3> SUFFICES ASSUME NEW s \in upTo(n + 1) PROVE value(folds, s) \in V
      <4> HIDE DEF value, upTo
      <4> QED OBVIOUS
    <3> CASE s = {}  OBVIOUS
    <3> CASE s # {}
      <4>1. folds[s \ {one[s]}] \in V  BY <2>1, <2>2
      <4> QED BY <4>1, <2>2
    <3> QED OBVIOUS
  <2>4. \A s \in upTo(n) : s \in upTo(n + 1) /\ more[s] = folds[s]
    <3>1. \A s \in upTo(n) : s \in SUBSET D /\ Cardinality(s) \in Nat /\ Cardinality(s) <= n  BY <1>1
    <3>2. upTo(n) \subseteq upTo(n + 1)  BY <3>1
    <3> HIDE DEF value, upTo
    <3> QED BY <2>1, <3>2
  <2>5. \A s \in upTo(n + 1) : more[s] = value(more, s)
    <3> SUFFICES ASSUME NEW s \in upTo(n + 1) PROVE more[s] = value(more, s)  OBVIOUS
    <3>1. more[s] = value(folds, s)  OBVIOUS
    <3> HIDE DEF more, upTo
    <3> QED BY <2>2, <2>4, <3>1
  <2> HIDE DEF more, value, upTo
  <2> QED BY <2>3, <2>5
<1> HIDE DEF all
<1>4. Nat \subseteq all  BY <1>2, <1>3, Induction
<1>5. Cardinality(D) \in Nat  BY FS_CardinalityType
<1>6. PICK folds \in [upTo(Cardinality(D)) -> V] : \A s \in upTo(Cardinality(D)) : folds[s] = value(folds, s)
  BY <1>4, <1>5 DEF all
<1>7. upTo(Cardinality(D)) = SUBSET D  BY FS_Subset
<1> HIDE DEF upTo
<1> QED BY <1>6, <1>7 DEF IsFolds

\* The running sums of f over subsets of its domain.
IsSums(sums, f) ==
  sums = [s \in SUBSET DOMAIN f |-> IF s = {} THEN 0
            ELSE f[CHOOSE x \in s : TRUE] + sums[s \ {CHOOSE x \in s : TRUE}]]

\* They exist,
LEMMA SumsExist ==
  ASSUME NEW D, IsFiniteSet(D), NEW f \in [D -> Int]
  PROVE  \E sums : IsSums(sums, f)
<1> DEFINE step == [p \in D \X Int |-> f[p[1]] + p[2]]
           one == [s \in SUBSET D |-> CHOOSE x \in s : TRUE]
<1>1. 0 \in Int /\ step \in [D \X Int -> Int]  OBVIOUS
<1>2. PicksFrom(one, D)  BY DEF PicksFrom
<1>3. PICK sums \in [SUBSET D -> Int] : IsFolds(sums, D, 0, step, one)
  <2> HIDE DEF step, one
  <2> QED BY <1>1, <1>2, FoldsExist
<1>4. \A s \in SUBSET D : sums[s] = IF s = {} THEN 0 ELSE f[one[s]] + sums[s \ {one[s]}]
  <2>1. \A s \in SUBSET D : s # {} => one[s] \in D /\ s \ {one[s]} \in SUBSET D  BY <1>2 DEF PicksFrom
  <2> HIDE DEF one
  <2> QED BY <1>3, <2>1 DEF IsFolds
<1>5. sums = [s \in SUBSET D |-> IF s = {} THEN 0
                ELSE f[CHOOSE x \in s : TRUE] + sums[s \ {CHOOSE x \in s : TRUE}]]
  BY <1>4
<1>6. DOMAIN f = D  OBVIOUS
<1> QED BY <1>5, <1>6, Zenon DEF IsSums

\* and SumFunction is the last of them.
LEMMA FoldIsSum ==
  ASSUME NEW D, IsFiniteSet(D), NEW f \in [D -> Int]
  PROVE  \E sums : IsSums(sums, f) /\ SumFunction(f) = sums[D]
<1> DEFINE iter == CHOOSE sums : IsSums(sums, f)
<1>1. IsSums(iter, f)  BY SumsExist
<1>2. DOMAIN f = D  OBVIOUS
<1>3. SumFunction(f) = iter[D]
  BY <1>2, Zenon DEF SumFunction, SumFunctionOnSet, FoldFunctionOnSet, MapThenFoldSet, IsSums
<1> QED BY <1>1, <1>3

\* Running sums are numbers, and do not change with what lies outside.
LEMMA SumsCompare ==
  ASSUME NEW D, IsFiniteSet(D), NEW f \in [D -> Int], NEW g \in [D -> Int],
         NEW x \in D, NEW k \in Int, g[x] = f[x] + k, \A y \in D \ {x} : g[y] = f[y],
         NEW fs, IsSums(fs, f), NEW gs, IsSums(gs, g)
  PROVE  \A s \in SUBSET D : fs[s] \in Int /\ gs[s] = fs[s] + (IF x \in s THEN k ELSE 0)
<1> DEFINE P == {s \in SUBSET D : fs[s] \in Int /\ gs[s] = fs[s] + (IF x \in s THEN k ELSE 0)}
           one(s) == CHOOSE y \in s : TRUE
<1>1. \A s \in SUBSET D : /\ fs[s] = IF s = {} THEN 0 ELSE f[one(s)] + fs[s \ {one(s)}]
                          /\ gs[s] = IF s = {} THEN 0 ELSE g[one(s)] + gs[s \ {one(s)}]
  BY DEF IsSums
<1>2. \A s \in SUBSET D : s # {} => one(s) \in s  OBVIOUS
<1> HIDE DEF one
<1>3. {} \in P
  <2>1. {} \in SUBSET D /\ fs[{}] = 0 /\ gs[{}] = 0  BY <1>1
  <2> QED BY <2>1
<1>4. \A s \in SUBSET D : \A y \in s : s \ {y} \in P /\ y = one(s) => s \in P
  <2> SUFFICES ASSUME NEW s \in SUBSET D, NEW y \in s, s \ {y} \in P, y = one(s) PROVE s \in P
    OBVIOUS
  <2>1. s # {} /\ y \in D /\ f[y] \in Int  OBVIOUS
  <2>2. fs[s] = f[y] + fs[s \ {y}] /\ gs[s] = g[y] + gs[s \ {y}]  BY <1>1, <2>1
  <2>3. CASE y = x
    <3>1. g[y] = f[y] + k /\ gs[s \ {y}] = fs[s \ {y}] /\ fs[s \ {y}] \in Int  BY <2>3
    <3>2. fs[s] \in Int /\ gs[s] = fs[s] + k  BY <2>1, <2>2, <3>1
    <3> QED BY <2>3, <3>2
  <2>4. CASE y # x
    <3>1. g[y] = f[y] /\ fs[s \ {y}] \in Int
          /\ gs[s \ {y}] = fs[s \ {y}] + (IF x \in s THEN k ELSE 0)
      BY <2>4
    <3> QED BY <2>1, <2>2, <3>1
  <2> QED BY <2>3, <2>4
<1>5. SUBSET D \subseteq P
  <2> HIDE DEF P
  <2>1. \A s \in SUBSET D : s # {} /\ (\A y \in s : s \ {y} \in P) => s \in P  BY <1>2, <1>4
  <2> QED BY <1>3, <2>1, SubsetInduction
<1> QED BY <1>5

\* A sum changes as one of its terms does.
LEMMA SumChange ==
  ASSUME NEW D, IsFiniteSet(D), NEW f \in [D -> Int], NEW g \in [D -> Int],
         NEW x \in D, NEW k \in Int, g[x] = f[x] + k, \A y \in D \ {x} : g[y] = f[y]
  PROVE  SumFunction(f) \in Int /\ SumFunction(g) = SumFunction(f) + k
<1>1. PICK fs : IsSums(fs, f) /\ SumFunction(f) = fs[D]  BY FoldIsSum
<1>2. PICK gs : IsSums(gs, g) /\ SumFunction(g) = gs[D]  BY FoldIsSum
<1>3. \A s \in SUBSET D : fs[s] \in Int /\ gs[s] = fs[s] + (IF x \in s THEN k ELSE 0)
  BY <1>1, <1>2, SumsCompare
<1>4. fs[D] \in Int /\ gs[D] = fs[D] + k  BY <1>3
<1> QED BY <1>1, <1>2, <1>4

\* Nothing adds up to nothing.
LEMMA SumZero ==
  ASSUME NEW D, IsFiniteSet(D)
  PROVE  SumFunction([x \in D |-> 0]) = 0
<1> DEFINE f == [x \in D |-> 0]
<1>1. f \in [D -> Nat] /\ DOMAIN f = D /\ \A x \in D : f[x] = 0  OBVIOUS
<1> HIDE DEF f
<1>2. PICK fs : IsSums(fs, f) /\ SumFunction(f) = fs[D]  BY <1>1, FoldIsSum
<1> DEFINE P == {s \in SUBSET D : fs[s] = 0}
           one(s) == CHOOSE y \in s : TRUE
<1>3. \A s \in SUBSET D : fs[s] = IF s = {} THEN 0 ELSE f[one(s)] + fs[s \ {one(s)}]
  BY <1>1, <1>2 DEF IsSums
<1>4. {} \in P  BY <1>3
<1>5. \A s \in SUBSET D : s # {} /\ (\A x \in s : s \ {x} \in P) => s \in P
  <2> SUFFICES ASSUME NEW s \in SUBSET D, s # {}, \A x \in s : s \ {x} \in P PROVE s \in P
    OBVIOUS
  <2>1. one(s) \in s  OBVIOUS
  <2> HIDE DEF one
  <2>2. fs[s \ {one(s)}] = 0 /\ f[one(s)] = 0  BY <1>1, <2>1
  <2> QED BY <1>3, <2>2
<1>6. SUBSET D \subseteq P
  <2> HIDE DEF P
  <2> QED BY <1>4, <1>5, SubsetInduction
<1>7. fs[D] = 0  BY <1>6
<1>8. SumFunction(f) = 0  BY <1>2, <1>7
<1> QED BY <1>8 DEF f

\* A term may be taken out of a sum, whichever it is.
LEMMA SumsRemove ==
  ASSUME NEW D, IsFiniteSet(D), NEW f \in [D -> Int], NEW fs, IsSums(fs, f)
  PROVE  \A s \in SUBSET D : fs[s] \in Int /\ \A y \in s : fs[s] = f[y] + fs[s \ {y}]
<1> DEFINE Z == {s \in SUBSET D : fs[s] \in Int}
           P == {s \in SUBSET D : \A y \in s : fs[s] = f[y] + fs[s \ {y}]}
           one(s) == CHOOSE y \in s : TRUE
<1>1. \A s \in SUBSET D : fs[s] = IF s = {} THEN 0 ELSE f[one(s)] + fs[s \ {one(s)}]
  BY DEF IsSums
<1>2. \A s \in SUBSET D : s # {} => one(s) \in s  OBVIOUS
<1> HIDE DEF one
<1>3. {} \in P  OBVIOUS
<1>6. \A s \in SUBSET D : fs[s] \in Int
  <2>1. {} \in SUBSET D /\ fs[{}] = 0  BY <1>1
  <2>2. ASSUME NEW s \in SUBSET D, s # {}, \A x \in s : s \ {x} \in Z PROVE s \in Z
    <3>1. one(s) \in s /\ f[one(s)] \in Int /\ fs[s \ {one(s)}] \in Int  BY <1>2, <2>2
    <3>2. fs[s] = f[one(s)] + fs[s \ {one(s)}]  BY <1>1, <2>2
    <3>3. fs[s] \in Int  BY <3>1, <3>2
    <3> QED BY <3>3
  <2>3. SUBSET D \subseteq Z
    <3>1. {} \in Z  BY <2>1
    <3> HIDE DEF Z
    <3> QED BY <2>2, <3>1, SubsetInduction
  <2> QED BY <2>3
<1>4. ASSUME NEW s \in SUBSET D, s # {}, \A x \in s : s \ {x} \in P PROVE s \in P
  <2> DEFINE x == one(s)
  <2>1. x \in s /\ x \in D /\ f[x] \in Int  BY <1>2, <1>4
  <2>2. fs[s] = f[x] + fs[s \ {x}] /\ fs[s \ {x}] \in Int  BY <1>1, <1>4, <1>6
  <2> HIDE DEF x
  <2>3. ASSUME NEW y \in s, y # x PROVE fs[s] = f[y] + fs[s \ {y}]
    <3> DEFINE t == (s \ {x}) \ {y}
    <3>1. y \in s \ {x} /\ x \in s \ {y} /\ f[y] \in Int  BY <2>1, <2>3
    <3>2. t = (s \ {y}) \ {x} /\ t \in SUBSET D  OBVIOUS
    <3>3. fs[s \ {x}] = f[y] + fs[t]  BY <1>4, <2>1, <3>1
    <3>4. fs[s \ {y}] = f[x] + fs[t]  BY <1>4, <3>1, <3>2
    <3>5. fs[t] \in Int  BY <1>6, <3>2
    <3> HIDE DEF t
    <3> QED BY <2>1, <2>2, <3>1, <3>3, <3>4, <3>5
  <2>4. \A y \in s : fs[s] = f[y] + fs[s \ {y}]  BY <2>2, <2>3
  <2> QED BY <2>4
<1>5. SUBSET D \subseteq P
  <2> HIDE DEF P
  <2> QED BY <1>3, <1>4, SubsetInduction
<1> QED BY <1>5, <1>6

\* A sum grows by the term that is added to it.
LEMMA SumExtends ==
  ASSUME NEW D, IsFiniteSet(D), NEW f \in [D -> Int], NEW x, x \notin D,
         NEW E, E = D \cup {x}, NEW g \in [E -> Int], \A y \in D : g[y] = f[y]
  PROVE  SumFunction(f) \in Int /\ SumFunction(g) = SumFunction(f) + g[x]
<1>0. IsFiniteSet(E)  BY FS_AddElement
<1>1. PICK fs : IsSums(fs, f) /\ SumFunction(f) = fs[D]  BY FoldIsSum
<1>2. PICK gs : IsSums(gs, g) /\ SumFunction(g) = gs[E]  BY <1>0, FoldIsSum
<1>3. \A s \in SUBSET D : fs[s] \in Int /\ \A y \in s : fs[s] = f[y] + fs[s \ {y}]
  <2>1. IsSums(fs, f) /\ IsFiniteSet(D) /\ f \in [D -> Int]  BY <1>1
  <2> QED BY <2>1, SumsRemove
<1>4. \A s \in SUBSET E : gs[s] \in Int /\ \A y \in s : gs[s] = g[y] + gs[s \ {y}]
  BY <1>0, <1>2, SumsRemove
<1> DEFINE P == {s \in SUBSET D : gs[s] = fs[s]}
<1>5. {} \in P
  <2>1. fs[{}] = 0 /\ gs[{}] = 0
    <3>1. {} \in SUBSET D /\ {} \in SUBSET E /\ DOMAIN f = D /\ DOMAIN g = E  OBVIOUS
    <3> QED BY <1>1, <1>2, <3>1 DEF IsSums
  <2> QED BY <2>1
<1>6. ASSUME NEW s \in SUBSET D, s # {}, \A y \in s : s \ {y} \in P PROVE s \in P
  <2>1. PICK y \in s : TRUE  BY <1>6
  <2>2. s \in SUBSET E /\ gs[s \ {y}] = fs[s \ {y}] /\ g[y] = f[y]  BY <1>6, <2>1
  <2>3. gs[s] = g[y] + gs[s \ {y}] /\ fs[s] = f[y] + fs[s \ {y}]  BY <1>3, <1>4, <2>1, <2>2
  <2> QED BY <2>2, <2>3
<1>7. SUBSET D \subseteq P
  <2> HIDE DEF P
  <2> QED BY <1>5, <1>6, SubsetInduction
<1>8. gs[D] = fs[D] /\ fs[D] \in Int  BY <1>3, <1>7
<1>9. gs[E] = g[x] + gs[E \ {x}] /\ E \ {x} = D /\ g[x] \in Int
  <2>1. E \in SUBSET E /\ x \in E  OBVIOUS
  <2> QED BY <1>4, <2>1
<1>10. gs[E] = g[x] + fs[D]  BY <1>8, <1>9
<1> QED BY <1>1, <1>2, <1>8, <1>9, <1>10

\* A sum of naturals is a natural.
LEMMA SumType ==
  ASSUME NEW D, IsFiniteSet(D), NEW f \in [D -> Nat]
  PROVE  SumFunction(f) \in Nat
<1>0. f \in [D -> Int]  OBVIOUS
<1>1. PICK fs : IsSums(fs, f) /\ SumFunction(f) = fs[D]  BY <1>0, FoldIsSum
<1> DEFINE P == {s \in SUBSET D : fs[s] \in Nat}
           one(s) == CHOOSE y \in s : TRUE
<1>2. \A s \in SUBSET D : fs[s] = IF s = {} THEN 0 ELSE f[one(s)] + fs[s \ {one(s)}]
  BY <1>1 DEF IsSums
<1>3. {} \in P  BY <1>2
<1>4. \A s \in SUBSET D : s # {} /\ (\A x \in s : s \ {x} \in P) => s \in P
  <2> SUFFICES ASSUME NEW s \in SUBSET D, s # {}, \A x \in s : s \ {x} \in P PROVE s \in P
    OBVIOUS
  <2>1. one(s) \in s  OBVIOUS
  <2> HIDE DEF one
  <2>2. fs[s \ {one(s)}] \in Nat /\ f[one(s)] \in Nat  BY <2>1
  <2> QED BY <1>2, <2>2
<1>5. SUBSET D \subseteq P
  <2> HIDE DEF P
  <2> QED BY <1>3, <1>4, SubsetInduction
<1> QED BY <1>1, <1>5

\* A term is no greater than the sum.
LEMMA SumBound ==
  ASSUME NEW D, IsFiniteSet(D), NEW f \in [D -> Nat], NEW x \in D
  PROVE  f[x] <= SumFunction(f)
<1> DEFINE g == [f EXCEPT ![x] = 0]
<1>1. PICK k \in Nat : k = f[x]  OBVIOUS
<1>3. g \in [D -> Nat] /\ f[x] = g[x] + k /\ \A y \in D \ {x} : f[y] = g[y]  BY <1>1
<1> HIDE DEF g
<1>2. SumFunction(g) \in Nat /\ SumFunction(f) = SumFunction(g) + k
  BY <1>1, <1>3, SumChange, SumType
<1> QED BY <1>1, <1>2

\* Adding to each value how many are mapped to it adds how many there are.
LEMMA SumOfCounts ==
  ASSUME NEW D, IsFiniteSet(D), NEW f \in [D -> Nat],
         NEW S, IsFiniteSet(S), NEW h \in [S -> D],
         NEW those \in [D -> SUBSET S], \A x \in D : \A i \in S : i \in those[x] <=> h[i] = x,
         NEW counts \in [D -> Nat], \A x \in D : counts[x] = f[x] + Cardinality(those[x])
  PROVE  SumFunction(counts) = SumFunction(f) + Cardinality(S)
<1> DEFINE of(s, x) == {i \in s : h[i] = x}
           g(s) == [x \in D |-> f[x] + Cardinality(of(s, x))]
           P == {s \in SUBSET S : SumFunction(g(s)) = SumFunction(f) + Cardinality(s)}
<1>1. \A s \in SUBSET S : /\ IsFiniteSet(s) /\ Cardinality(s) \in Nat
                          /\ \A x \in D : IsFiniteSet(of(s, x)) /\ Cardinality(of(s, x)) \in Nat
  <2>1. \A s \in SUBSET S : IsFiniteSet(s) /\ Cardinality(s) \in Nat  BY FS_Subset, FS_CardinalityType
  <2>2. \A s \in SUBSET S : \A x \in D : of(s, x) \in SUBSET S  OBVIOUS
  <2> QED BY <2>1, <2>2
<1>2. \A s \in SUBSET S : g(s) \in [D -> Nat]  BY <1>1
<1>3. {} \in P
  <2>1. \A x \in D : of({}, x) = {}  OBVIOUS
  <2>2. Cardinality({}) = 0  BY FS_EmptySet
  <2>3. \A x \in D : f[x] + Cardinality(of({}, x)) = f[x]  BY <2>1, <2>2
  <2>4. g({}) = f  BY <2>3
  <2>5. SumFunction(g({})) = SumFunction(f)  BY <2>4, Zenon
  <2>6. SumFunction(f) \in Nat  BY SumType
  <2>7. SumFunction(g({})) = SumFunction(f) + Cardinality({})
    <3> HIDE DEF g
    <3> QED BY <2>2, <2>5, <2>6
  <2> QED BY <2>7
<1>4. \A s \in SUBSET S : s # {} /\ (\A i \in s : s \ {i} \in P) => s \in P
  <2> SUFFICES ASSUME NEW s \in SUBSET S, s # {}, \A i \in s : s \ {i} \in P PROVE s \in P
    <3> HIDE DEF P
    <3> QED OBVIOUS
  <2>1. PICK i \in s : TRUE  OBVIOUS
  <2> DEFINE t == s \ {i}
  <2>2. t \in P /\ t \in SUBSET S /\ i \notin t /\ s = t \cup {i} /\ h[i] \in D  BY <2>1
  <2>3. Cardinality(s) = Cardinality(t) + 1 /\ Cardinality(t) \in Nat
    <3>1. Cardinality(t) = Cardinality(s) - 1  BY <1>1, <2>1, FS_RemoveElement
    <3>2. Cardinality(t) \in Nat /\ Cardinality(s) \in Nat  BY <1>1, <2>2
    <3> QED BY <3>1, <3>2
  <2>4. \A x \in D : Cardinality(of(s, x)) = Cardinality(of(t, x)) + (IF x = h[i] THEN 1 ELSE 0)
    <3> SUFFICES ASSUME NEW x \in D
        PROVE Cardinality(of(s, x)) = Cardinality(of(t, x)) + (IF x = h[i] THEN 1 ELSE 0)
      OBVIOUS
    <3>1. CASE x = h[i]
      <4>1. of(s, x) = of(t, x) \cup {i} /\ i \notin of(t, x)  BY <2>2, <3>1
      <4>2. Cardinality(of(t, x) \cup {i}) = Cardinality(of(t, x)) + 1
        BY <1>1, <2>2, <4>1, FS_AddElement
      <4> HIDE DEF of, t
      <4> QED BY <3>1, <4>1, <4>2
    <3>2. CASE x # h[i]
      <4>1. of(s, x) = of(t, x)  BY <2>2, <3>2
      <4>2. Cardinality(of(t, x)) \in Nat  BY <1>1, <2>2
      <4> HIDE DEF of, t
      <4> QED BY <3>2, <4>1, <4>2
    <3> QED BY <3>1, <3>2
  <2>5. \A x \in D : g(s)[x] = g(t)[x] + (IF x = h[i] THEN 1 ELSE 0)
    <3>1. \A x \in D : Cardinality(of(t, x)) \in Nat  BY <1>1, <2>2
    <3> HIDE DEF of, t
    <3> QED BY <2>4, <3>1
  <2>6. g(s) \in [D -> Nat] /\ g(t) \in [D -> Nat]  BY <1>2, <2>2
  <2> HIDE DEF g, t
  <2>9. SumFunction(g(s)) = SumFunction(g(t)) + 1 /\ SumFunction(g(t)) \in Nat
    <3>1. PICK u, v : u = g(s) /\ v = g(t)  OBVIOUS
    <3>2. u \in [D -> Nat] /\ v \in [D -> Nat]  BY <2>6, <3>1
    <3>3. \A x \in D : u[x] = v[x] + (IF x = h[i] THEN 1 ELSE 0)  BY <2>5, <3>1
    <3>4. u[h[i]] = v[h[i]] + 1 /\ \A x \in D \ {h[i]} : u[x] = v[x]  BY <2>2, <3>2, <3>3
    <3>5. SumFunction(v) \in Nat /\ SumFunction(u) = SumFunction(v) + 1
      BY <2>2, <3>2, <3>4, SumChange, SumType
    <3> QED BY <3>1, <3>5
  <2>10. SumFunction(g(t)) = SumFunction(f) + Cardinality(t)  BY <2>2
  <2>11. SumFunction(f) \in Nat  BY SumType
  <2> QED BY <2>2, <2>3, <2>9, <2>10, <2>11
<1>5. SUBSET S \subseteq P
  <2> HIDE DEF P
  <2> QED BY <1>3, <1>4, SubsetInduction
<1>6. S \in SUBSET S  OBVIOUS
<1>7. SumFunction(g(S)) = SumFunction(f) + Cardinality(S)  BY <1>5, <1>6
<1>8. counts = g(S)
  <2>1. \A x \in D : those[x] = of(S, x)  OBVIOUS
  <2> HIDE DEF of
  <2> QED BY <2>1
<1> HIDE DEF g
<1> QED BY <1>2, <1>6, <1>7, <1>8

--------------------------------------------------------------------------------
(* Counting *)

\* cut has, for each member of W and each of I, one member of N, and N is apart from P.
Cuts(cut, P, W, I, N) ==
  /\ W \subseteq P /\ N \cap P = {}
  /\ \A x \in W, i \in I : cut[<<x, i>>] \in N
  /\ \A x, y \in W, i, j \in I : cut[<<x, i>>] = cut[<<y, j>>] => x = y /\ i = j
  /\ \A y \in N : \E x \in W, i \in I : y = cut[<<x, i>>]

LEMMA CutCount ==
  ASSUME NEW P, IsFiniteSet(P), NEW I, IsFiniteSet(I), NEW W, NEW N, NEW cut, Cuts(cut, P, W, I, N)
  PROVE  /\ IsFiniteSet((P \ W) \cup N)
         /\ Cardinality(P) \in Nat /\ Cardinality(W) \in Nat
         /\ Cardinality((P \ W) \cup N) = Cardinality(P) + (Cardinality(I) - 1) * Cardinality(W)
<1> DEFINE D == W \X I
<1>1. IsFiniteSet(W) /\ Cardinality(W) \in Nat /\ Cardinality(P) \in Nat
  BY FS_Subset, FS_CardinalityType DEF Cuts
<1>2. PICK k \in Nat : k = Cardinality(I)  BY FS_CardinalityType
<1>3. IsFiniteSet(D) /\ Cardinality(D) = Cardinality(W) * k
  <2>1. /\ IsFiniteSet(W \X I)
        /\ Cardinality(W \X I) = Cardinality(W) * Cardinality(I)
    BY <1>1, <1>2, FS_Product
  <2> QED BY <1>2, <2>1, Zenon
<1> DEFINE h == [p \in D |-> cut[p]]
<1>4. h \in Bijection(D, N)
  <2>0. \A p \in D : p = <<p[1], p[2]>> /\ p[1] \in W /\ p[2] \in I  OBVIOUS
  <2>1. h \in [D -> N]  BY <2>0 DEF Cuts
  <2>2. \A p, q \in D : h[p] = h[q] => p = q  BY <2>0 DEF Cuts
  <2>3. \A y \in N : \E p \in D : h[p] = y
    <3> SUFFICES ASSUME NEW y \in N PROVE \E p \in D : h[p] = y  OBVIOUS
    <3>1. PICK x \in W, i \in I : y = cut[<<x, i>>]  BY DEF Cuts
    <3>2. <<x, i>> \in D /\ h[<<x, i>>] = y  BY <3>1
    <3> QED BY <3>2
  <2> HIDE DEF h, D
  <2> QED BY <2>1, <2>2, <2>3 DEF Bijection, Injection, Surjection, IsInjective
<1>5. IsFiniteSet(N) /\ Cardinality(N) = Cardinality(W) * k
  BY <1>3, <1>4, FS_Bijection DEF ExistsBijection
<1>6. IsFiniteSet(P \ W) /\ Cardinality(P \ W) = Cardinality(P) - Cardinality(W)
  <2>1. IsFiniteSet(P \ W) /\ Cardinality(P \ W) = Cardinality(P) - Cardinality(P \cap W)
    BY FS_Difference, Zenon
  <2>2. P \cap W = W  BY DEF Cuts
  <2> QED BY <2>1, <2>2
<1>7. (P \ W) \cap N = {}  BY DEF Cuts
<1>8. /\ IsFiniteSet((P \ W) \cup N)
      /\ Cardinality((P \ W) \cup N) = Cardinality(P \ W) + Cardinality(N) - Cardinality((P \ W) \cap N)
  BY <1>5, <1>6, FS_Union
<1>9. Cardinality((P \ W) \cap N) = 0  BY <1>7, FS_EmptySet
<1>10. Cardinality(W) * k = Cardinality(W) + (Cardinality(I) - 1) * Cardinality(W)  BY <1>1, <1>2
<1> QED BY <1>1, <1>2, <1>5, <1>6, <1>8, <1>9, <1>10

\* Replacing each of some members by another one.
Replaces(new, P, R, N) ==
  /\ R \subseteq P /\ N \cap P = {}
  /\ \A x \in R : new[x] \in N
  /\ \A x, y \in R : new[x] = new[y] => x = y
  /\ \A y \in N : \E x \in R : y = new[x]

LEMMA ReplaceCount ==
  ASSUME NEW P, IsFiniteSet(P), NEW R, NEW N, NEW new, Replaces(new, P, R, N)
  PROVE  /\ IsFiniteSet((P \ R) \cup N)
         /\ Cardinality((P \ R) \cup N) = Cardinality(P)
<1> DEFINE cut == [p \in R \X {0} |-> new[p[1]]]
<1>1. IsFiniteSet({0}) /\ Cardinality({0}) = 1  BY FS_Singleton
<1>2. \A x \in R, i \in {0} : cut[<<x, i>>] = new[x] /\ i = 0  OBVIOUS
<1> HIDE DEF cut
<1>3. Cuts(cut, P, R, {0}, N)
  <2>1. \A x, y \in R, i, j \in {0} : cut[<<x, i>>] = cut[<<y, j>>] => x = y /\ i = j
    BY <1>2 DEF Replaces
  <2>2. \A y \in N : \E x \in R, i \in {0} : y = cut[<<x, i>>]  BY <1>2 DEF Replaces
  <2>3. \A x \in R, i \in {0} : cut[<<x, i>>] \in N  BY <1>2 DEF Replaces
  <2> QED BY <2>1, <2>2, <2>3 DEF Cuts, Replaces
<1>4. /\ IsFiniteSet((P \ R) \cup N) /\ Cardinality(P) \in Nat /\ Cardinality(R) \in Nat
      /\ Cardinality((P \ R) \cup N) = Cardinality(P) + (Cardinality({0}) - 1) * Cardinality(R)
  BY <1>1, <1>3, CutCount
<1> QED BY <1>1, <1>4

--------------------------------------------------------------------------------
(* Sequences *)

\* A function on 1 .. n is a sequence.
LEMMA SequenceOver ==
  ASSUME NEW S, NEW n \in Nat, NEW f \in [1 .. n -> S]
  PROVE  f \in Seq(S) /\ Len(f) = n /\ DOMAIN f = 1 .. n
OBVIOUS

\* A sequence of one.
LEMMA SequenceOfOne ==
  ASSUME NEW S, NEW x \in S PROVE << x >> \in Seq(S)
OBVIOUS

\* Two sequences of two.
LEMMA PairsJoin ==
  ASSUME NEW S, NEW a \in S, NEW b \in S, NEW c \in S, NEW d \in S
  PROVE  LET s == << a, b >> \o << c, d >>
         IN  /\ DOMAIN s = 1 .. 4
             /\ s[1] = a /\ s[2] = b /\ s[3] = c /\ s[4] = d
<1> DEFINE s == << a, b >>
           t == << c, d >>
<1>1. s \in Seq(S) /\ t \in Seq(S) /\ Len(s) = 2 /\ Len(t) = 2 /\ s[1] = a /\ s[2] = b /\ t[1] = c /\ t[2] = d
  OBVIOUS
<1> HIDE DEF s, t
<1>2. /\ s \o t \in Seq(S) /\ Len(s \o t) = Len(s) + Len(t)
      /\ \A i \in 1 .. Len(s) + Len(t) : (s \o t)[i] = IF i <= Len(s) THEN s[i] ELSE t[i - Len(s)]
  BY <1>1, ConcatProperties
<1>3. Len(s \o t) = 4 /\ \A i \in 1 .. 4 : (s \o t)[i] = IF i <= 2 THEN s[i] ELSE t[i - 2]
  <2>1. Len(s) + Len(t) = 4  BY <1>1
  <2> QED BY <1>1, <1>2, <2>1
<1>4. DOMAIN (s \o t) = 1 .. 4  BY <1>2, <1>3, LenProperties
<1> DEFINE u == s \o t
<1> HIDE DEF u
<1>5. u[1] = a /\ u[2] = b /\ u[3] = c /\ u[4] = d
  <2>1. \A i \in 1 .. 4 : u[i] = IF i <= 2 THEN s[i] ELSE t[i - 2]  BY <1>3 DEF u
  <2>2. 1 \in 1 .. 4 /\ 2 \in 1 .. 4 /\ 3 \in 1 .. 4 /\ 4 \in 1 .. 4 /\ 3 - 2 = 1 /\ 4 - 2 = 2  OBVIOUS
  <2>3. u[1] = s[1] /\ u[2] = s[2]  BY <2>1
  <2>4. u[3] = t[1] /\ u[4] = t[2]
    <3>1. u[3] = t[3 - 2] /\ u[4] = t[4 - 2]  BY <2>1
    <3> QED BY <2>2, <3>1
  <2> QED BY <1>1, <2>3, <2>4
<1> QED BY <1>4, <1>5 DEF s, t, u

\* A sequence over a set is one over every larger set.
LEMMA WiderSeq ==
  ASSUME NEW N, NEW M, N \subseteq M, NEW s \in Seq(N)
  PROVE  s \in Seq(M)
OBVIOUS

\* The elements of two sequences, one after the other.
LEMMA ElementsJoined ==
  ASSUME NEW M, NEW s \in Seq(M), NEW t \in Seq(M)
  PROVE  /\ s \o t \in Seq(M) /\ Len(s) \in Nat /\ Len(t) \in Nat
         /\ DOMAIN s = 1 .. Len(s) /\ DOMAIN t = 1 .. Len(t) /\ DOMAIN (s \o t) = 1 .. Len(s) + Len(t)
         /\ \A i \in 1 .. Len(s) : (s \o t)[i] = s[i]
         /\ \A i \in Len(s) + 1 .. Len(s) + Len(t) : (s \o t)[i] = t[i - Len(s)]
OBVIOUS

\* A sequence and what is appended to it.
AreSequences(s, t, S) == s \in Seq(S) /\ t \in Seq(S)

LEMMA AppendedFacts ==
  ASSUME NEW S, NEW s, NEW t, AreSequences(s, t, S)
  PROVE  /\ s \o t \in Seq(S) /\ DOMAIN (s \o t) = 1 .. Len(s) + Len(t)
         /\ \A j \in 1 .. Len(s) : (s \o t)[j] = s[j]
         /\ \A k \in 1 .. Len(t) : (s \o t)[Len(s) + k] = t[k]
<1>0. s \in Seq(S) /\ t \in Seq(S)  BY DEF AreSequences
<1>1. Len(s) \in Nat /\ Len(t) \in Nat  BY <1>0
<1>2. s \o t \in Seq(S) /\ DOMAIN (s \o t) = 1 .. Len(s) + Len(t)  BY <1>0
<1>3. \A j \in 1 .. Len(s) + Len(t) : (s \o t)[j] = IF j <= Len(s) THEN s[j] ELSE t[j - Len(s)]
  BY <1>0
<1>4. ASSUME NEW j \in 1 .. Len(s) PROVE (s \o t)[j] = s[j]
  <2>1. j \in 1 .. Len(s) + Len(t) /\ j <= Len(s)  BY <1>1
  <2> QED BY <1>3, <2>1
<1>5. ASSUME NEW k \in 1 .. Len(t) PROVE (s \o t)[Len(s) + k] = t[k]
  <2>1. Len(s) + k \in 1 .. Len(s) + Len(t) /\ ~(Len(s) + k <= Len(s)) /\ (Len(s) + k) - Len(s) = k
    BY <1>1
  <2> QED BY <1>3, <2>1
<1> QED BY <1>2, <1>4, <1>5

\* One more in front.
LEMMA InFront ==
  ASSUME NEW N, NEW x \in N, NEW s \in Seq(N)
  PROVE  << x >> \o s \in Seq(N) /\ \A k \in DOMAIN (<< x >> \o s) : (<< x >> \o s)[k] \in N
<1> DEFINE t == << x >> \o s
<1>1. << x >> \in Seq(N)  OBVIOUS
<1>2. t \in Seq(N)  BY <1>1, ConcatProperties
<1> HIDE DEF t
<1>3. \A k \in DOMAIN t : t[k] \in N  BY <1>2
<1> QED BY <1>2, <1>3 DEF t

\* What two sequences make is empty only if both are.
LEMMA JoinsNothing ==
  ASSUME NEW S, NEW s \in Seq(S), NEW t \in Seq(S), s # << >> \/ t # << >>
  PROVE  s \o t # << >>
<1>1. Len(s) \in Nat /\ Len(t) \in Nat /\ (Len(s) # 0 \/ Len(t) # 0)  OBVIOUS
<1>2. Len(s \o t) = Len(s) + Len(t)  OBVIOUS
<1>3. Len(s \o t) # 0  BY <1>1, <1>2
<1> QED BY <1>3

================================================================================
