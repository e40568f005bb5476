--------------------------- MODULE VTestRunner_proofs ---------------------------
(***************************************************************************)
(* Whatever class, its parameters and methods, the number of threads and   *)
(* the methods ignored: every test that runs gets the candidates its       *)
(* description names, the presets of the counters are the numbers of the   *)
(* tests named after each shared rule, and the class runs the protocol of  *)
(* SharedRule for all of its rules at once.                                *)
(*                                                                         *)
(* The argument about names: a combination's number is read as digits, one *)
(* for each field, by the runner when it names a test and by select when   *)
(* it divides the test's own number; the tests are numbered combination by *)
(* combination, before a filter and, if the filter keeps whole methods,    *)
(* after it.  The argument about rules: a test's chain lists the shared    *)
(* rules of its name, and its depth says where it stands with respect to   *)
(* each of them, so that a step of the test is a step of one rule.         *)
(***************************************************************************)
EXTENDS VTestRunner, NumberLemmas, SequenceTheorems

--------------------------------------------------------------------------------
(* Numbers *)

\* The quotient is the only number that leaves a remainder of 0 .. m-1.
LEMMA DivUnique ==
  ASSUME NEW m \in Nat \ {0}, NEW a \in Int, NEW q \in Int, NEW r \in 0 .. m - 1,
         a = m * q + r
  PROVE  a \div m = q
  OBVIOUS

\* A product of numbers other than 0 is one.
LEMMA ProductPositive ==
  ASSUME NEW a \in Nat \ {0}, NEW b \in Nat \ {0}
  PROVE  a * b \in Nat \ {0}
  OBVIOUS

\* A digit of one number in front of another.
LEMMA TwoDigits ==
  ASSUME NEW n \in Nat, NEW d \in Nat \ {0}, NEW c \in 0 .. n - 1, NEW e \in 0 .. d - 1
  PROVE  d * c + e \in 0 .. n * d - 1
<1>1. d * c + e \in Nat  OBVIOUS
<1>2. d * (c + 1) <= d * n  OBVIOUS
<1> QED BY <1>1, <1>2

\* A digit of idx \div k is a digit of idx.
LEMMA DigitOfQuotient ==
  ASSUME NEW n \in Nat \ {0}, NEW rest \in Nat \ {0}, NEW k \in Nat \ {0}, NEW idx \in Nat
  PROVE  /\ rest * k \in Nat \ {0} /\ n * (rest * k) \in Nat \ {0}
         /\ (idx % (n * (rest * k))) \div (rest * k) = ((idx \div k) \div rest) % n
<1> DEFINE later == rest * k
           left  == n * later
           combo == idx \div k
           r     == idx % k
           q     == combo \div rest
           s     == combo % rest
           q2    == q \div n
           c     == q % n
           low   == k * s + r
<1>1. later \in Nat \ {0}  BY ProductPositive
<1>2. left \in Nat \ {0}  BY <1>1, ProductPositive
<1>5. combo \in Int /\ r \in 0 .. k - 1 /\ idx = k * combo + r  BY DivMod
<1>6. q \in Int /\ s \in 0 .. rest - 1 /\ combo = rest * q + s  BY <1>5, DivMod
<1>7. q2 \in Int /\ c \in 0 .. n - 1 /\ q = n * q2 + c  BY <1>6, DivMod
<1> HIDE DEF combo, r, q, s, q2, c
<1>8. low \in 0 .. later - 1  BY <1>5, <1>6, TwoDigits
<1>9. later * c + low \in 0 .. left - 1  BY <1>1, <1>7, <1>8, TwoDigits
<1>10. idx = left * q2 + (later * c + low)
  <2>1. combo = rest * (n * q2 + c) + s  BY <1>6, <1>7
  <2>2. rest * (n * q2 + c) = rest * (n * q2) + rest * c  BY <1>7
  <2>3. k * (rest * (n * q2) + rest * c + s) = k * (rest * (n * q2)) + k * (rest * c) + k * s  BY <1>6, <1>7
  <2>4. k * (rest * (n * q2)) = left * q2  BY <1>7
  <2>5. k * (rest * c) = later * c  BY <1>7
  <2>6. k * combo = left * q2 + later * c + k * s  BY <2>1, <2>2, <2>3, <2>4, <2>5
  <2>7. left * q2 \in Int /\ later * c \in Int /\ k * s \in Int  BY <1>6, <1>7
  <2>8. idx = left * q2 + later * c + k * s + r  BY <1>5, <2>6
  <2>9. r \in Int  BY <1>5
  <2> HIDE DEF left, later
  <2> QED BY <2>7, <2>8, <2>9
<1> HIDE DEF low, left, later
<1>11. idx % left = later * c + low
  <2>1. PICK x \in 0 .. left - 1 : x = later * c + low  BY <1>9
  <2>2. idx = left * q2 + x  BY <1>10, <2>1
  <2>3. idx % left = x  BY <1>2, <1>7, <2>2, ModUnique
  <2> QED BY <2>1, <2>3
<1>12. (later * c + low) \div later = c
  <2>1. later * c + low \in Int /\ c \in Int  BY <1>1, <1>7, <1>8
  <2> QED BY <1>1, <1>8, <2>1, DivUnique
<1> QED BY <1>1, <1>2, <1>11, <1>12 DEF c, q, combo, later, left

\* The digit that select finds in a test's number is the one that addNames finds in its combination.
LEMMA DigitOfIndex ==
  ASSUME NEW seen \in Nat \ {0}, NEW n \in Nat \ {0}, NEW rest \in Nat \ {0}, NEW k \in Nat \ {0},
         NEW idx \in Nat, NEW total, total = (seen * n * rest) * k,
         NEW left, left = total \div seen, NEW later, later = left \div n
  PROVE  /\ later \in Nat \ {0}
         /\ (idx % left) \div later = ((idx \div k) \div rest) % n
<1> DEFINE d == rest * k
<1>1. d \in Nat \ {0} /\ n * d \in Nat \ {0}  BY DigitOfQuotient
<1>2. left = n * d
  <2>1. seen * n * rest = seen * (n * rest) /\ n * rest \in Nat \ {0}  OBVIOUS
  <2>2. (seen * (n * rest)) * k = seen * ((n * rest) * k)  OBVIOUS
  <2>3. (n * rest) * k = n * d  OBVIOUS
  <2>4. total = seen * (n * d) + 0 /\ total \in Int  BY <1>1, <2>1, <2>2, <2>3
  <2> QED BY <1>1, <2>4, DivUnique
<1>3. later = d
  <2>1. left = n * d + 0 /\ 0 \in 0 .. n - 1  BY <1>1, <1>2
  <2>2. left \in Int  BY <1>1, <1>2
  <2> HIDE DEF d
  <2>3. left \div n = d  BY ONLY <1>1, <2>1, <2>2, n \in Nat \ {0}, DivUnique
  <2> QED BY <2>3
<1>4. (idx % (n * d)) \div d = ((idx \div k) \div rest) % n  BY DigitOfQuotient
<1> HIDE DEF d
<1> QED BY <1>1, <1>2, <1>3, <1>4

--------------------------------------------------------------------------------
(* Products of sizes *)

\* The products of the beginnings of a sequence.
IsProducts(upTo, s) ==
  /\ upTo \in [0 .. Len(s) -> Nat \ {0}]
  /\ upTo[0] = 1
  /\ \A k \in 1 .. Len(s) : upTo[k] = upTo[k - 1] * s[k]

\* What Product multiplies up.
LEMMA ProductIsLast ==
  ASSUME NEW s \in Seq(Nat \ {0})
  PROVE  \E upTo : IsProducts(upTo, s) /\ Product(s) = upTo[Len(s)]
<1> DEFINE After(f) == [k \in 0 .. Len(s) |-> IF k = 0 THEN 1 ELSE f[k - 1] * s[k]]
           step == [p \in Nat \X (Nat \ {0}) |-> IF p[1] \in 1 .. Len(s) THEN p[2] * s[p[1]] ELSE p[2]]
           upTo == CHOOSE f : f = After(f)
<1>1. Len(s) \in Nat /\ \A k \in 1 .. Len(s) : s[k] \in Nat \ {0}  OBVIOUS
<1>2. step \in [Nat \X (Nat \ {0}) -> Nat \ {0}]
  <2>1. \A p \in Nat \X (Nat \ {0}) : p[1] \in 1 .. Len(s) => p[2] * s[p[1]] \in Nat \ {0}
    BY <1>1, ProductPositive
  <2> QED BY <2>1
<1>3. PICK f \in [0 .. Len(s) -> Nat \ {0}] : Repeats(f, 1, step, Len(s))
  <2>1. 1 \in Nat \ {0} /\ StaysIn(Nat \ {0}, step)  BY <1>2 DEF StaysIn
  <2> HIDE DEF step
  <2> QED BY <1>1, <2>1, NumberedIteration
<1>4. \A k \in 1 .. Len(s) : f[k] = f[k - 1] * s[k]
  <2> SUFFICES ASSUME NEW k \in 1 .. Len(s) PROVE f[k] = f[k - 1] * s[k]  OBVIOUS
  <2>0. k - 1 \in 0 .. Len(s) /\ k \in Nat  BY <1>1
  <2>1. f[k - 1] \in Nat \ {0}  BY <2>0, <1>3
  <2>2. step[<<k, f[k - 1]>>] = f[k - 1] * s[k]  BY <2>0, <2>1
  <2> QED BY <1>3, <2>2 DEF Repeats
<1>5. f = After(f)
  <2>1. \A k \in 0 .. Len(s) : f[k] = (IF k = 0 THEN 1 ELSE f[k - 1] * s[k])  BY <1>1, <1>3, <1>4 DEF Repeats
  <2> QED BY <2>1
<1>6. upTo = After(upTo)  BY <1>5
<1>7. Product(s) = upTo[Len(s)]  BY DEF Product
<1> HIDE DEF upTo
<1>8. upTo[0] = 1 /\ \A k \in 1 .. Len(s) : upTo[k] = upTo[k - 1] * s[k]  BY <1>1, <1>6
<1>9. upTo \in [0 .. Len(s) -> Nat \ {0}]
  <2> DEFINE P == {k \in Nat : k <= Len(s) => upTo[k] \in Nat \ {0}}
  <2>1. 0 \in P  BY <1>8
  <2>2. ASSUME NEW k \in Nat, k \in P PROVE k + 1 \in P
    <3> SUFFICES ASSUME k + 1 <= Len(s) PROVE upTo[k + 1] \in Nat \ {0}  OBVIOUS
    <3>1. upTo[k] \in Nat \ {0} /\ k + 1 \in 1 .. Len(s)  BY <1>1, <2>2
    <3>2. upTo[k + 1] = upTo[k] * s[k + 1] /\ s[k + 1] \in Nat \ {0}  BY <1>1, <1>8, <3>1
    <3> QED BY <3>1, <3>2, ProductPositive
  <2> HIDE DEF P
  <2>3. Nat \subseteq P  BY <2>1, <2>2, Induction
  <2>4. \A k \in 0 .. Len(s) : upTo[k] \in Nat \ {0}  BY <1>1, <2>3 DEF P
  <2> QED BY <1>6, <2>4
<1> QED BY <1>7, <1>8, <1>9 DEF IsProducts

\* The first n members of s are members of t, after the first a.
Copies(s, t, a, n) == \A k \in 1 .. n : s[k] = t[a + k]

\* Sequences with the same numbers, up to a place, multiply up to the same.
LEMMA ProductsUnique ==
  ASSUME NEW s \in Seq(Nat \ {0}), NEW t \in Seq(Nat \ {0}), NEW n \in Nat, n <= Len(s), n <= Len(t),
         NEW a \in Nat, a + n <= Len(t), Copies(s, t, a, n),
         NEW fs, IsProducts(fs, s), NEW ft, IsProducts(ft, t)
  PROVE  ft[a + n] = ft[a] * fs[n]
<1> DEFINE P == {k \in Nat : k <= n => ft[a + k] = ft[a] * fs[k]}
<1>1. Len(s) \in Nat /\ Len(t) \in Nat  OBVIOUS
<1>2. \A k \in 0 .. n : ft[a + k] \in Nat /\ fs[k] \in Nat
  <2> SUFFICES ASSUME NEW k \in 0 .. n PROVE ft[a + k] \in Nat /\ fs[k] \in Nat  OBVIOUS
  <2>1. a + k \in 0 .. Len(t) /\ k \in 0 .. Len(s)  BY <1>1
  <2> QED BY <2>1 DEF IsProducts
<1>3. 0 \in P  BY <1>2 DEF IsProducts
<1>4. ASSUME NEW k \in Nat, k \in P PROVE k + 1 \in P
  <2> SUFFICES ASSUME k + 1 <= n PROVE ft[a + (k + 1)] = ft[a] * fs[k + 1]  OBVIOUS
  <2>1. ft[a + k] = ft[a] * fs[k]  BY <1>4
  <2>2. k + 1 \in 1 .. Len(s) /\ a + (k + 1) \in 1 .. Len(t) /\ k + 1 \in 1 .. n  BY <1>1
  <2>3. fs[k + 1] = fs[(k + 1) - 1] * s[k + 1]  BY <2>2 DEF IsProducts
  <2>4. ft[a + (k + 1)] = ft[(a + (k + 1)) - 1] * t[a + (k + 1)]  BY <2>2 DEF IsProducts
  <2>5. (k + 1) - 1 = k /\ (a + (k + 1)) - 1 = a + k  OBVIOUS
  <2>6. s[k + 1] = t[a + (k + 1)] /\ s[k + 1] \in Nat  BY <2>2 DEF Copies
  <2>7. ft[a] \in Nat /\ fs[k] \in Nat
    <3>1. 0 \in 0 .. n /\ k \in 0 .. n /\ a + 0 = a  OBVIOUS
    <3> QED BY <3>1, <1>2
  <2>8. (ft[a] * fs[k]) * s[k + 1] = ft[a] * (fs[k] * s[k + 1])
    <3>1. \A x, y, z \in Nat : (x * y) * z = x * (y * z)  OBVIOUS
    <3>2. PICK x \in Nat, y \in Nat, z \in Nat : x = ft[a] /\ y = fs[k] /\ z = s[k + 1]  BY <2>6, <2>7
    <3>3. (x * y) * z = x * (y * z)  BY <3>1
    <3> QED BY <3>2, <3>3
  <2> QED BY <2>1, <2>3, <2>4, <2>5, <2>6, <2>8
<1> HIDE DEF P
<1>5. Nat \subseteq P  BY <1>3, <1>4, Induction
<1> QED BY <1>5 DEF P

\* The candidates before, at and after a field make up the combinations.
LEMMA SizesSplit ==
  ASSUME NEW l \in Levels
  PROVE  LET seen == Product(SubSeq(Sizes, 1, l - 1))
             rest == Product(SubSeq(Sizes, l + 1, Len(Sizes)))
         IN  /\ seen \in Nat \ {0} /\ Sizes[l] \in Nat \ {0} /\ rest \in Nat \ {0}
             /\ NumCombos = seen * Sizes[l] * rest
<1> DEFINE before == SubSeq(Sizes, 1, l - 1)
           after == SubSeq(Sizes, l + 1, Len(Sizes))
<1>1. Sizes \in Seq(Nat \ {0}) /\ Len(Sizes) \in Nat /\ l \in 1 .. Len(Sizes)
  BY VTestRunnerAssumption DEF Levels
<1>2. Sizes[l] \in Nat \ {0}  BY <1>1
<1>3. /\ before \in Seq(Nat \ {0}) /\ Len(before) = l - 1
      /\ Copies(before, Sizes, 0, l - 1)
  BY <1>1 DEF Copies
<1>4. /\ after \in Seq(Nat \ {0}) /\ Len(after) = Len(Sizes) - l
      /\ Copies(after, Sizes, l, Len(Sizes) - l)
  BY <1>1 DEF Copies
<1> HIDE DEF before, after
<1>5. PICK all : IsProducts(all, Sizes) /\ NumCombos = all[Len(Sizes)]
  BY <1>1, ProductIsLast DEF NumCombos
<1>6. PICK fb : IsProducts(fb, before) /\ Product(before) = fb[l - 1]  BY <1>3, ProductIsLast
<1>7. PICK fa : IsProducts(fa, after) /\ Product(after) = fa[Len(Sizes) - l]  BY <1>4, ProductIsLast
<1>8. all[0 + (l - 1)] = all[0] * fb[l - 1]
  <2>1. PICK n \in Nat : n = l - 1  BY <1>1
  <2>2. n <= Len(before) /\ n <= Len(Sizes) /\ 0 + n <= Len(Sizes) /\ Copies(before, Sizes, 0, n)
    BY <1>1, <1>3, <2>1
  <2>3. all[0 + n] = all[0] * fb[n]  BY <1>1, <1>3, <1>5, <1>6, <2>2, ProductsUnique
  <2> QED BY <2>1, <2>3
<1>9. all[l + (Len(Sizes) - l)] = all[l] * fa[Len(Sizes) - l]
  <2>1. PICK n \in Nat : n = Len(Sizes) - l  BY <1>1
  <2>2. l \in Nat /\ n <= Len(after) /\ n <= Len(Sizes) /\ l + n <= Len(Sizes) /\ Copies(after, Sizes, l, n)
    BY <1>1, <1>4, <2>1
  <2>3. Sizes \in Seq(Nat \ {0}) /\ after \in Seq(Nat \ {0}) /\ IsProducts(all, Sizes) /\ IsProducts(fa, after)
    BY <1>1, <1>4, <1>5, <1>7
  <2>4. all[l + n] = all[l] * fa[n]  BY ONLY <2>2, <2>3, n \in Nat, ProductsUnique
  <2> QED BY <2>1, <2>4
<1>10. fb[l - 1] \in Nat \ {0} /\ fa[Len(Sizes) - l] \in Nat \ {0}
  <2>1. l - 1 \in 0 .. Len(before) /\ Len(Sizes) - l \in 0 .. Len(after)  BY <1>1, <1>3, <1>4
  <2> QED BY <1>6, <1>7, <2>1 DEF IsProducts
<1>11. all[0] = 1 /\ all[l] = all[l - 1] * Sizes[l]  BY <1>1, <1>5 DEF IsProducts
<1>12. 0 + (l - 1) = l - 1 /\ l + (Len(Sizes) - l) = Len(Sizes)  BY <1>1
<1>13. all[l - 1] = fb[l - 1]  BY <1>8, <1>10, <1>11, <1>12
<1>14. NumCombos = (fb[l - 1] * Sizes[l]) * fa[Len(Sizes) - l]  BY <1>5, <1>9, <1>11, <1>12, <1>13
<1> QED BY <1>2, <1>6, <1>7, <1>10, <1>14 DEF before, after

\* The class has combinations.
LEMMA Combos == NumCombos \in Nat \ {0} /\ MethodCount \in Nat \ {0}
<1>1. Sizes \in Seq(Nat \ {0}) /\ Len(Sizes) \in Nat  BY VTestRunnerAssumption
<1>2. PICK all : IsProducts(all, Sizes) /\ NumCombos = all[Len(Sizes)]
  BY <1>1, ProductIsLast DEF NumCombos
<1> QED BY <1>1, <1>2, VTestRunnerAssumption DEF IsProducts

\* A test is a method in a combination.
LEMMA TestNumbers ==
  /\ \A t \in Tests : /\ t \in Nat /\ ComboOf(t) \in 0 .. NumCombos - 1
                      /\ MethodOf(t) \in 0 .. MethodCount - 1
                      /\ t = MethodCount * ComboOf(t) + MethodOf(t)
  /\ \A c \in 0 .. NumCombos - 1, j \in 0 .. MethodCount - 1 :
       /\ MethodCount * c + j \in Tests
       /\ ComboOf(MethodCount * c + j) = c /\ MethodOf(MethodCount * c + j) = j
<1>0. NumCombos \in Nat \ {0} /\ MethodCount \in Nat \ {0}  BY Combos
<1>1. ASSUME NEW t \in Tests
      PROVE  /\ t \in Nat /\ ComboOf(t) \in 0 .. NumCombos - 1
             /\ MethodOf(t) \in 0 .. MethodCount - 1
             /\ t = MethodCount * ComboOf(t) + MethodOf(t)
  <2>1. t \in Nat /\ t < NumCombos * MethodCount  BY <1>0 DEF Tests
  <2>2. /\ ComboOf(t) \in Int /\ MethodOf(t) \in 0 .. MethodCount - 1
        /\ t = MethodCount * ComboOf(t) + MethodOf(t)
    BY <1>0, <2>1, DivMod DEF ComboOf, MethodOf
  <2>3. ComboOf(t) >= 0
    <3> SUFFICES ASSUME ComboOf(t) <= -1 PROVE FALSE  BY <2>2
    <3>1. MethodCount * ComboOf(t) <= MethodCount * (-1)  BY <1>0, <2>2
    <3> QED BY <1>0, <2>1, <2>2, <3>1
  <2>4. ComboOf(t) < NumCombos
    <3> SUFFICES ASSUME ComboOf(t) >= NumCombos PROVE FALSE  BY <1>0, <2>2
    <3>1. MethodCount * ComboOf(t) >= MethodCount * NumCombos  BY <1>0, <2>2
    <3>2. MethodCount * NumCombos = NumCombos * MethodCount /\ MethodCount * ComboOf(t) \in Int  BY <1>0, <2>2
    <3> QED BY <1>0, <2>1, <2>2, <3>1, <3>2
  <2> QED BY <1>0, <2>1, <2>2, <2>3, <2>4
<1>2. ASSUME NEW c \in 0 .. NumCombos - 1, NEW j \in 0 .. MethodCount - 1
      PROVE  /\ MethodCount * c + j \in Tests
             /\ ComboOf(MethodCount * c + j) = c /\ MethodOf(MethodCount * c + j) = j
  <2>1. MethodCount * c + j \in 0 .. NumCombos * MethodCount - 1  BY <1>0, TwoDigits
  <2>2. PICK t \in Int : t = MethodCount * c + j  BY <1>0
  <2>3. t \div MethodCount = c /\ t % MethodCount = j  BY <1>0, <2>2, DivUnique, ModUnique
  <2> QED BY <2>1, <2>2, <2>3 DEF Tests, ComboOf, MethodOf
<1> QED BY <1>1, <1>2

\* select chooses the candidate that the test's name lists.
LEMMA SelectsName ==
  ASSUME NEW t \in Tests, NEW l \in Levels, NEW k \in Nat \ {0}, NEW idx \in Nat,
         idx \div k = ComboOf(t), Cardinality(active) = NumCombos * k
  PROVE  /\ Select(idx, Product(SubSeq(Sizes, 1, l - 1)), Sizes[l]) = NameOf(t)[l]
         /\ NameOf(t)[l] \in Candidates(l)
<1> DEFINE seen == Product(SubSeq(Sizes, 1, l - 1))
           rest == Product(SubSeq(Sizes, l + 1, Len(Sizes)))
           n == Sizes[l]
           total == Cardinality(active)
           left == total \div seen
           later == left \div n
<1>1. /\ seen \in Nat \ {0} /\ n \in Nat \ {0} /\ rest \in Nat \ {0}
      /\ total = (seen * n * rest) * k
  BY SizesSplit
<1>2. NameOf(t)[l] = (ComboOf(t) \div rest) % n
  BY TestNumbers DEF NameOf, Names
<1> HIDE DEF seen, rest, n, total
<1>3. later \in Nat \ {0} /\ (idx % left) \div later = ((idx \div k) \div rest) % n
  <2>1. left = total \div seen /\ later = left \div n  OBVIOUS
  <2> HIDE DEF left, later
  <2> QED BY <1>1, <2>1, DigitOfIndex
<1>4. ComboOf(t) \in Int /\ ComboOf(t) \div rest \in Int  BY <1>1, TestNumbers, DivMod
<1>5. NameOf(t)[l] \in 0 .. n - 1  BY <1>1, <1>2, <1>4, DivMod
<1>6. (idx % left) \div later = NameOf(t)[l]  BY <1>2, <1>3
<1>7. Select(idx, seen, n) = IF later = 0 \/ (idx % left) \div later >= n THEN -1 ELSE (idx % left) \div later
  BY DEF Select, total
<1> HIDE DEF left, later
<1>8. Select(idx, seen, n) = NameOf(t)[l]  BY <1>1, <1>3, <1>5, <1>6, <1>7
<1> QED BY <1>5, <1>8 DEF seen, n, Candidates

--------------------------------------------------------------------------------
(* How many tests *)

\* The tests of some methods in some combinations.
TestsOf(C, M) == {t \in Tests : ComboOf(t) \in C /\ MethodOf(t) \in M}

\* There is one for each pair.
LEMMA CountPairs ==
  ASSUME NEW C \in SUBSET (0 .. NumCombos - 1), NEW M \in SUBSET (0 .. MethodCount - 1)
  PROVE  /\ IsFiniteSet(C) /\ IsFiniteSet(M) /\ IsFiniteSet(TestsOf(C, M))
         /\ Cardinality(C) \in Nat /\ Cardinality(M) \in Nat
         /\ Cardinality(TestsOf(C, M)) = Cardinality(C) * Cardinality(M)
<1> DEFINE pairs == C \X M
           number == [p \in pairs |-> MethodCount * p[1] + p[2]]
           S == TestsOf(C, M)
<1>1. IsFiniteSet(C) /\ IsFiniteSet(M)
  <2>1. 0 \in Int /\ NumCombos - 1 \in Int /\ MethodCount - 1 \in Int  BY Combos
  <2>2. IsFiniteSet(0 .. NumCombos - 1) /\ IsFiniteSet(0 .. MethodCount - 1)  BY <2>1, FS_Interval
  <2> QED BY <2>2, FS_Subset
<1>2. ASSUME NEW p \in pairs
      PROVE  number[p] \in S /\ ComboOf(number[p]) = p[1] /\ MethodOf(number[p]) = p[2]
  <2>1. p[1] \in 0 .. NumCombos - 1 /\ p[2] \in 0 .. MethodCount - 1 /\ p[1] \in C /\ p[2] \in M
    OBVIOUS
  <2>2. number[p] = MethodCount * p[1] + p[2]  OBVIOUS
  <2> HIDE DEF number
  <2> QED BY <2>1, <2>2, TestNumbers DEF TestsOf
<1>3. number \in [pairs -> S]
  <2>1. number = [p \in pairs |-> number[p]]  OBVIOUS
  <2> HIDE DEF number, pairs, S
  <2> QED BY <1>2, <2>1
<1>4. \A p, q \in pairs : number[p] = number[q] => p = q
  <2> SUFFICES ASSUME NEW p \in pairs, NEW q \in pairs, number[p] = number[q] PROVE p = q  OBVIOUS
  <2>1. p[1] = q[1] /\ p[2] = q[2]  BY <1>2
  <2> QED BY <2>1
<1>5. \A t \in S : \E p \in pairs : number[p] = t
  <2> SUFFICES ASSUME NEW t \in S PROVE \E p \in pairs : number[p] = t  OBVIOUS
  <2>1. <<ComboOf(t), MethodOf(t)>> \in pairs  BY DEF TestsOf
  <2>2. t = MethodCount * ComboOf(t) + MethodOf(t)  BY TestNumbers DEF TestsOf
  <2> QED BY <2>1, <2>2
<1> HIDE DEF number, S
<1>6. number \in Bijection(pairs, S)
  BY <1>3, <1>4, <1>5 DEF Bijection, Injection, Surjection, IsInjective
<1>7. IsFiniteSet(pairs) /\ Cardinality(pairs) = Cardinality(C) * Cardinality(M)  BY <1>1, FS_Product
<1>8. ExistsBijection(pairs, S)  BY <1>6 DEF ExistsBijection
<1>9. IsFiniteSet(S) /\ Cardinality(S) = Cardinality(pairs)
  <2> HIDE DEF pairs
  <2> QED BY <1>7, <1>8, FS_Bijection
<1> QED BY <1>1, <1>7, <1>9, FS_CardinalityType DEF S

\* The numbers below seen * n * rest whose middle digit is x.
LEMMA CountDigit ==
  ASSUME NEW seen \in Nat \ {0}, NEW n \in Nat \ {0}, NEW rest \in Nat \ {0}, NEW x \in 0 .. n - 1
  PROVE  Cardinality({c \in 0 .. seen * n * rest - 1 : (c \div rest) % n = x}) = seen * rest
<1> DEFINE high == 0 .. seen - 1
           low == 0 .. rest - 1
           pairs == high \X low
           number == [p \in pairs |-> rest * (n * p[1] + x) + p[2]]
           S == {c \in 0 .. seen * n * rest - 1 : (c \div rest) % n = x}
<1>1. IsFiniteSet(high) /\ Cardinality(high) = seen /\ IsFiniteSet(low) /\ Cardinality(low) = rest
  BY FS_Interval
<1>2. ASSUME NEW p \in pairs
      PROVE  number[p] \in S /\ (number[p] \div rest) \div n = p[1] /\ number[p] % rest = p[2]
  <2>1. PICK a \in high, b \in low : p = <<a, b>>  OBVIOUS
  <2>2. n * a + x \in 0 .. seen * n - 1  BY TwoDigits
  <2>3. seen * n \in Nat  OBVIOUS
  <2>4. PICK m \in 0 .. seen * n - 1 : m = n * a + x  BY <2>2
  <2>5. rest * m + b \in 0 .. (seen * n) * rest - 1  BY <2>3, TwoDigits
  <2>6. PICK v \in Nat : v = rest * m + b  BY <2>5
  <2>7. number[p] = v  BY <2>1, <2>4, <2>6
  <2>8. m \in Int /\ m \div n = a /\ m % n = x  BY <2>3, <2>4, DivUnique, ModUnique
  <2>9. v \div rest = m /\ v % rest = b  BY <2>6, <2>8, DivUnique, ModUnique
  <2>10. v \in S  BY <2>5, <2>6, <2>8, <2>9
  <2> HIDE DEF number, S
  <2> QED BY <2>1, <2>7, <2>8, <2>9, <2>10
<1>3. number \in [pairs -> S]
  <2>1. number = [p \in pairs |-> number[p]]  OBVIOUS
  <2> HIDE DEF number, pairs, S
  <2> QED BY <1>2, <2>1
<1>4. \A p, q \in pairs : number[p] = number[q] => p = q
  <2> SUFFICES ASSUME NEW p \in pairs, NEW q \in pairs, number[p] = number[q] PROVE p = q  OBVIOUS
  <2>1. p[1] = q[1] /\ p[2] = q[2]
    <3> HIDE DEF number, S, pairs
    <3> QED BY <1>2
  <2> QED BY <2>1
<1>5. \A c \in S : \E p \in pairs : number[p] = c
  <2> SUFFICES ASSUME NEW c \in S PROVE \E p \in pairs : number[p] = c  OBVIOUS
  <2> DEFINE q == c \div rest
             a == q \div n
             b == c % rest
  <2>1. c \in Nat /\ c < (seen * n) * rest /\ q % n = x  BY TwoDigits
  <2>2. q \in Int /\ b \in 0 .. rest - 1 /\ c = rest * q + b  BY <2>1, DivMod
  <2>3. a \in Int /\ q = n * a + x
    <3>1. q \in Int /\ q % n = x  BY <2>1, <2>2
    <3> HIDE DEF q
    <3> QED BY <3>1, DivMod
  <2> HIDE DEF q, a, b
  <2>4. q >= 0
    <3> SUFFICES ASSUME q <= -1 PROVE FALSE  BY <2>2
    <3>1. rest * q <= rest * (-1)  BY <2>2
    <3> QED BY <2>1, <2>2, <3>1
  <2>5. q < seen * n
    <3> SUFFICES ASSUME q >= seen * n PROVE FALSE  BY <2>2
    <3>1. rest * q >= rest * (seen * n)  BY <2>2
    <3>2. rest * (seen * n) = (seen * n) * rest /\ rest * q \in Int  BY <2>2
    <3> QED BY <2>1, <2>2, <3>1, <3>2
  <2>6. a >= 0
    <3> SUFFICES ASSUME a <= -1 PROVE FALSE  BY <2>3
    <3>1. n * a <= n * (-1)  BY <2>3
    <3> QED BY <2>3, <2>4, <3>1
  <2>7. a < seen
    <3> SUFFICES ASSUME a >= seen PROVE FALSE  BY <2>3
    <3>1. n * a >= n * seen  BY <2>3
    <3>2. n * seen = seen * n /\ n * a \in Int  BY <2>3
    <3> QED BY <2>3, <2>5, <3>1, <3>2
  <2>8. <<a, b>> \in pairs  BY <2>2, <2>3, <2>6, <2>7
  <2>9. number[<<a, b>>] = rest * (n * a + x) + b  BY <2>8
  <2> QED BY <2>2, <2>3, <2>8, <2>9
<1> HIDE DEF number, S, high, low
<1>6. number \in Bijection(pairs, S)
  BY <1>3, <1>4, <1>5 DEF Bijection, Injection, Surjection, IsInjective
<1>7. IsFiniteSet(pairs) /\ Cardinality(pairs) = seen * rest  BY <1>1, FS_Product
<1>8. ExistsBijection(pairs, S)  BY <1>6 DEF ExistsBijection
<1>9. Cardinality(S) = Cardinality(pairs)
  <2> HIDE DEF pairs
  <2> QED BY <1>7, <1>8, FS_Bijection
<1> QED BY <1>7, <1>9 DEF S

\* The tests whose method a filter keeps, and the presets that go with them: as many tests for
\* each candidate of a field as setCounterValues divides out.
LEMMA CountMembers ==
  ASSUME NEW M \in SUBSET (0 .. MethodCount - 1), NEW l \in Levels, NEW x \in Candidates(l)
  PROVE  Cardinality({t \in TestsOf(0 .. NumCombos - 1, M) : NameOf(t)[l] = x})
           = (NumCombos * Cardinality(M)) \div Sizes[l]
<1> DEFINE seen == Product(SubSeq(Sizes, 1, l - 1))
           rest == Product(SubSeq(Sizes, l + 1, Len(Sizes)))
           n == Sizes[l]
           k == Cardinality(M)
           C == {c \in 0 .. NumCombos - 1 : (c \div rest) % n = x}
           S == {t \in TestsOf(0 .. NumCombos - 1, M) : NameOf(t)[l] = x}
<1>1. /\ seen \in Nat \ {0} /\ n \in Nat \ {0} /\ rest \in Nat \ {0}
      /\ NumCombos = seen * n * rest
  BY SizesSplit
<1>2. \A t \in Tests : NameOf(t)[l] = (ComboOf(t) \div rest) % n  BY TestNumbers DEF NameOf, Names
<1>3. x \in 0 .. n - 1  BY DEF Candidates
<1> HIDE DEF seen, rest, n
<1>4. S = TestsOf(C, M)  BY <1>2 DEF TestsOf
<1>5. Cardinality(C) = seen * rest
  <2>1. C = {c \in 0 .. seen * n * rest - 1 : (c \div rest) % n = x}  BY <1>1
  <2> HIDE DEF C
  <2> QED BY <1>1, <1>3, <2>1, CountDigit
<1>6. C \in SUBSET (0 .. NumCombos - 1)  OBVIOUS
<1> HIDE DEF C, S
<1>7. k \in Nat /\ Cardinality(S) = (seen * rest) * k  BY <1>4, <1>5, <1>6, CountPairs
<1> HIDE DEF k
<1>8. NumCombos * k = n * ((seen * rest) * k) + 0
  <2>1. seen * n * rest = n * (seen * rest)  BY <1>1
  <2>2. \A a, b, c \in Nat : (a * b) * c = a * (b * c)  OBVIOUS
  <2>3. seen * rest \in Nat /\ n \in Nat  BY <1>1
  <2>4. (n * (seen * rest)) * k = n * ((seen * rest) * k)  BY <1>7, <2>2, <2>3
  <2>5. (n * (seen * rest)) * k \in Nat  BY <1>7, <2>3
  <2> QED BY <1>1, <2>1, <2>4, <2>5
<1>9. (NumCombos * k) \div n = (seen * rest) * k
  <2>1. PICK q \in Nat : q = (seen * rest) * k  BY <1>1, <1>7
  <2>2. PICK a \in Nat : a = NumCombos * k  BY <1>1, <1>7, Combos
  <2>3. a = n * q + 0  BY <1>8, <2>1, <2>2
  <2>4. a \div n = q  BY <1>1, <2>3, DivUnique
  <2> QED BY <2>1, <2>2, <2>4
<1> QED BY <1>7, <1>9 DEF k, n, S

--------------------------------------------------------------------------------
(* The numbers of the tests after filtering *)

AllCombos == 0 .. NumCombos - 1
AllMethods == 0 .. MethodCount - 1

\* Numbers that go up with the combination, each used once.
Numbered(M, numbers) ==
  /\ \A t \in TestsOf(AllCombos, M) :
       /\ numbers[t] \in Tests
       /\ numbers[t] \div Cardinality(M) = ComboOf(t)
  /\ \A s, t \in TestsOf(AllCombos, M) : numbers[s] = numbers[t] => s = t

\* All tests are all methods in all combinations.
LEMMA AllTests ==
  /\ TestsOf(AllCombos, AllMethods) = Tests
  /\ Cardinality(AllMethods) = MethodCount
  /\ IsFiniteSet(Tests)
<1>1. TestsOf(AllCombos, AllMethods) = Tests  BY TestNumbers DEF TestsOf, AllCombos, AllMethods
<1>2. Cardinality(AllMethods) = MethodCount
  <2>1. 0 \in Int /\ MethodCount - 1 \in Int /\ MethodCount > 0  BY Combos
  <2> QED BY <2>1, FS_Interval, Combos DEF AllMethods
<1>3. IsFiniteSet(TestsOf(AllCombos, AllMethods))  BY CountPairs DEF AllCombos, AllMethods
<1> QED BY <1>1, <1>2, <1>3

\* The tests of a later combination come later.
LEMMA CombosInOrder ==
  ASSUME NEW s \in Tests, NEW t \in Tests, ComboOf(s) < ComboOf(t)
  PROVE  s < t
<1>0. /\ ComboOf(s) \in 0 .. NumCombos - 1 /\ ComboOf(t) \in 0 .. NumCombos - 1
      /\ MethodOf(s) \in 0 .. MethodCount - 1 /\ MethodOf(t) \in 0 .. MethodCount - 1
      /\ s = MethodCount * ComboOf(s) + MethodOf(s)
      /\ t = MethodCount * ComboOf(t) + MethodOf(t)
  BY TestNumbers
<1>1. /\ ComboOf(s) \in Int /\ ComboOf(t) \in Int /\ ComboOf(s) + 1 <= ComboOf(t)
      /\ MethodOf(s) \in Int /\ MethodOf(s) < MethodCount /\ MethodOf(t) \in Nat
      /\ s = MethodCount * ComboOf(s) + MethodOf(s)
      /\ t = MethodCount * ComboOf(t) + MethodOf(t)
  BY <1>0, Combos
<1>2. MethodCount * (ComboOf(s) + 1) <= MethodCount * ComboOf(t)  BY <1>1, Combos
<1>3. MethodCount * (ComboOf(s) + 1) = MethodCount * ComboOf(s) + MethodCount  BY <1>1, Combos
<1>4. MethodCount * ComboOf(s) \in Int /\ MethodCount * ComboOf(t) \in Int  BY <1>1, Combos
<1> QED BY <1>1, <1>2, <1>3, <1>4, Combos

\* computeTestMethods numbers them so.
LEMMA FirstNumbers ==
  ASSUME NEW numbers, numbers = [t \in Tests |-> t]
  PROVE  Numbered(AllMethods, numbers)
<1>1. \A t \in Tests : numbers[t] = t /\ numbers[t] \div MethodCount = ComboOf(t)  BY DEF ComboOf
<1> QED BY <1>1, AllTests DEF Numbered

\* So does filter, when it keeps whole methods.
LEMMA FilteredNumbers ==
  ASSUME NEW M \in SUBSET AllMethods, index = [t \in Tests |-> t]
  PROVE  Numbered(M, Reindex(TestsOf(AllCombos, M)))
<1> DEFINE kept == TestsOf(AllCombos, M)
           k == Cardinality(M)
           UpTo(t) == {s \in kept : s <= t}
<1>1. k \in Nat /\ IsFiniteSet(kept) /\ kept \subseteq Tests
  BY CountPairs DEF TestsOf, AllCombos, AllMethods
<1>2. ASSUME NEW t \in kept
      PROVE  /\ Reindex(kept)[t] = Cardinality(UpTo(t)) - 1
             /\ IsFiniteSet(UpTo(t)) /\ Cardinality(UpTo(t)) \in Nat
  <2>1. t \in Tests /\ \A s \in kept : s \in Tests  BY <1>1
  <2>2. {s \in kept : index[s] <= index[t]} = UpTo(t)  BY <2>1
  <2>3. Reindex(kept)[t] = Cardinality({s \in kept : index[s] <= index[t]}) - 1
    <3> HIDE DEF kept
    <3> QED BY <2>1 DEF Reindex
  <2>4. UpTo(t) \in SUBSET kept  OBVIOUS
  <2>5. IsFiniteSet(UpTo(t)) /\ Cardinality(UpTo(t)) \in Nat  BY <1>1, <2>4, FS_Subset, FS_CardinalityType
  <2> QED BY <2>2, <2>3, <2>5
<1>3. ASSUME NEW t \in kept
      PROVE  /\ k * ComboOf(t) <= Reindex(kept)[t]
             /\ Reindex(kept)[t] < k * (ComboOf(t) + 1)
             /\ k # 0
  <2> DEFINE c == ComboOf(t)
             lower == TestsOf(0 .. c - 1, M)
             upper == TestsOf(0 .. c, M)
  <2>1. c \in 0 .. NumCombos - 1 /\ t \in Tests /\ MethodOf(t) \in M  BY TestNumbers DEF TestsOf
  <2>2. 0 .. c - 1 \in SUBSET (0 .. NumCombos - 1) /\ 0 .. c \in SUBSET (0 .. NumCombos - 1)
    BY <2>1, Combos
  <2>3. Cardinality(0 .. c - 1) = c /\ Cardinality(0 .. c) = c + 1
    <3>1. 0 \in Int /\ c - 1 \in Int /\ c \in Nat  BY <2>1
    <3> HIDE DEF c
    <3>2. Cardinality(0 .. c - 1) = IF 0 > c - 1 THEN 0 ELSE (c - 1) - 0 + 1  BY <3>1, FS_Interval
    <3>3. Cardinality(0 .. c) = IF 0 > c THEN 0 ELSE c - 0 + 1  BY <3>1, FS_Interval
    <3> QED BY <3>1, <3>2, <3>3
  <2>4. IsFiniteSet(lower) /\ Cardinality(lower) = c * k /\ IsFiniteSet(upper) /\ Cardinality(upper) = (c + 1) * k
    <3> HIDE DEF c
    <3> QED BY <2>2, <2>3, CountPairs DEF AllMethods
  <2>5. ASSUME NEW s \in lower PROVE s \in UpTo(t) /\ s # t
    <3>1. s \in Tests /\ ComboOf(s) < ComboOf(t) /\ s \in kept
      BY <2>1, TestNumbers DEF TestsOf, AllCombos
    <3>2. s < t /\ s \in Nat /\ t \in Nat  BY <2>1, <3>1, CombosInOrder, TestNumbers
    <3> QED BY <3>1, <3>2
  <2>6. t \in UpTo(t)  BY <2>1, TestNumbers
  <2>7. lower \cup {t} \in SUBSET UpTo(t) /\ t \notin lower  BY <2>5, <2>6
  <2>8. ASSUME NEW s \in UpTo(t) PROVE s \in upper
    <3>1. s \in Tests /\ s <= t /\ ComboOf(s) \in Nat /\ c \in Nat /\ s \in Nat /\ t \in Nat /\ MethodOf(s) \in M
      BY <2>1, TestNumbers DEF TestsOf
    <3>2. ~(c < ComboOf(s))  BY <2>1, <3>1, CombosInOrder
    <3>3. ComboOf(s) \in 0 .. c  BY <3>1, <3>2
    <3> QED BY <3>1, <3>3 DEF TestsOf
  <2>9. UpTo(t) \in SUBSET upper  BY <2>8
  <2>10. c \in Nat  BY <2>1
  <2> HIDE DEF lower, upper, UpTo, c
  <2>11. Cardinality(lower \cup {t}) = c * k + 1  BY <2>4, <2>7, FS_AddElement
  <2>12. Cardinality(lower \cup {t}) <= Cardinality(UpTo(t))  BY <1>2, <2>7, FS_Subset
  <2>13. Cardinality(UpTo(t)) <= (c + 1) * k  BY <2>4, <2>9, FS_Subset
  <2>14. c * k = k * c /\ (c + 1) * k = k * (c + 1) /\ k * c \in Int /\ k * (c + 1) = k * c + k  BY <1>1, <2>10
  <2>15. k * c <= Cardinality(UpTo(t)) - 1 /\ Cardinality(UpTo(t)) - 1 < k * (c + 1) /\ k # 0
    BY <1>1, <1>2, <2>10, <2>11, <2>12, <2>13, <2>14
  <2> QED BY <1>2, <2>15 DEF c
<1>4. ASSUME NEW t \in kept
      PROVE  Reindex(kept)[t] \in Tests /\ Reindex(kept)[t] \div k = ComboOf(t)
  <2>1. PICK v \in Int : v = Reindex(kept)[t]
    <3>1. Cardinality(UpTo(t)) - 1 \in Int /\ Reindex(kept)[t] = Cardinality(UpTo(t)) - 1  BY <1>2
    <3> QED BY <3>1
  <2>2. PICK c \in AllCombos : c = ComboOf(t)  BY DEF TestsOf
  <2>3. k * c <= v /\ v < k * (c + 1) /\ k # 0 /\ c \in Int /\ k * c \in Int
    BY <1>1, <1>3, <2>1, <2>2, Combos DEF AllCombos
  <2>4. PICK r \in 0 .. k - 1 : v = k * c + r
    <3>1. v - k * c \in 0 .. k - 1  BY <1>1, <2>3
    <3> QED BY <2>3, <3>1
  <2>5. k \in Nat \ {0}  BY <1>1, <2>3
  <2>6. v \div k = c  BY <2>3, <2>4, <2>5, DivUnique
  <2>7. k <= MethodCount
    <3>1. IsFiniteSet(AllMethods)  BY CountPairs DEF AllMethods
    <3> QED BY <3>1, FS_Subset, AllTests
  <2>8. v \in Tests
    <3>1. c + 1 <= NumCombos /\ c >= 0 /\ NumCombos \in Nat  BY Combos DEF AllCombos
    <3>2. k * (c + 1) <= k * NumCombos  BY <2>3, <2>5, <3>1
    <3>3. NumCombos * k <= NumCombos * MethodCount  BY <2>5, <2>7, Combos
    <3>4. k * NumCombos = NumCombos * k /\ k * c >= 0 /\ NumCombos * k \in Int /\ NumCombos * MethodCount \in Int
      BY <2>3, <2>5, <3>1, Combos
    <3>5. v < NumCombos * MethodCount /\ v >= 0  BY <2>3, <2>5, <3>2, <3>3, <3>4
    <3> QED BY <3>4, <3>5 DEF Tests
  <2> QED BY <2>1, <2>2, <2>6, <2>8
<1>5. ASSUME NEW s \in kept, NEW t \in kept, Reindex(kept)[s] = Reindex(kept)[t]
      PROVE  s = t
  <2>1. \A a, b \in kept : a < b /\ Reindex(kept)[a] = Reindex(kept)[b] => FALSE
    <3> SUFFICES ASSUME NEW a \in kept, NEW b \in kept, a < b, Reindex(kept)[a] = Reindex(kept)[b]
                 PROVE  FALSE
      OBVIOUS
    <3>1. a \in Nat /\ b \in Nat /\ \A u \in kept : u \in Nat  BY <1>1, TestNumbers
    <3>2. UpTo(a) \in SUBSET UpTo(b) /\ b \in UpTo(b) /\ b \notin UpTo(a)
      <4> HIDE DEF kept
      <4>1. ASSUME NEW u \in UpTo(a) PROVE u \in UpTo(b)  BY <3>1, <4>1
      <4>2. b \in UpTo(b) /\ b \notin UpTo(a)  BY <3>1
      <4> HIDE DEF UpTo
      <4> QED BY <4>1, <4>2
    <3>3. Cardinality(UpTo(a)) = Cardinality(UpTo(b))  BY <1>2
    <3> HIDE DEF UpTo, kept
    <3> QED BY <1>2, <3>2, <3>3, FS_Subset
  <2>2. s \in Nat /\ t \in Nat  BY <1>1, TestNumbers
  <2> QED BY <1>5, <2>1, <2>2
<1> HIDE DEF kept
<1> QED BY <1>4, <1>5 DEF Numbered, kept

--------------------------------------------------------------------------------
(* The chain of a test *)

\* What a constructor has chosen of its test's name.
Chosen(t, got) == got \in Seq(Nat) /\ Len(got) <= Len(Sizes) /\ \A l \in 1 .. Len(got) : got[l] = NameOf(t)[l]

\* The rules of the first n fields that a test's name lists, in the order of the fields.
IsChain(c, t, n) ==
  /\ c \in Seq(Rules)
  /\ \A i \in 1 .. Len(c) : c[i][1] \in SharedLevels /\ c[i][1] <= n /\ c[i][2] = NameOf(t)[c[i][1]]
  /\ \A i, j \in 1 .. Len(c) : i < j => c[i][1] < c[j][1]
  /\ \A l \in SharedLevels : l <= n => \E i \in 1 .. Len(c) : c[i] = <<l, NameOf(t)[l]>>

\* A name lists candidates.
LEMMA NamesAreCandidates ==
  ASSUME NEW t \in Tests, NEW l \in Levels
  PROVE  NameOf(t)[l] \in Candidates(l) /\ NameOf(t)[l] \in Nat
<1> DEFINE rest == Product(SubSeq(Sizes, l + 1, Len(Sizes)))
<1>1. Sizes[l] \in Nat \ {0} /\ rest \in Nat \ {0}  BY SizesSplit
<1>2. NameOf(t)[l] = (ComboOf(t) \div rest) % Sizes[l]  BY TestNumbers DEF NameOf, Names
<1>3. ComboOf(t) \in Int  BY TestNumbers
<1> HIDE DEF rest
<1>4. ComboOf(t) \div rest \in Int  BY <1>1, <1>3, DivMod
<1>5. NameOf(t)[l] \in 0 .. Sizes[l] - 1  BY <1>1, <1>2, <1>4, DivMod
<1> QED BY <1>1, <1>5 DEF Candidates

\* The levels of shared rules are numbers from 1, and the rules their candidates.
LEMMA RulesAre ==
  /\ Len(Sizes) \in Nat /\ SharedLevels \subseteq 1 .. Len(Sizes)
  /\ \A l \in SharedLevels : \A x \in Candidates(l) : <<l, x>> \in Rules
  /\ \A r \in Rules : r[1] \in SharedLevels /\ r[2] \in Candidates(r[1]) /\ r = <<r[1], r[2]>>
<1>1. Len(Sizes) \in Nat /\ SharedLevels \subseteq 1 .. Len(Sizes)  BY VTestRunnerAssumption DEF Levels
<1>2. \A l \in SharedLevels : \A x \in Candidates(l) : <<l, x>> \in Rules  BY DEF Rules
<1>3. ASSUME NEW r \in Rules
      PROVE  r[1] \in SharedLevels /\ r[2] \in Candidates(r[1]) /\ r = <<r[1], r[2]>>
  <2>1. PICK l \in SharedLevels : r \in {l} \X Candidates(l)  BY DEF Rules
  <2> QED BY <2>1
<1> QED BY <1>1, <1>2, <1>3

\* A call adds the rule of its field, if it is shared.
LEMMA ChainGrows ==
  ASSUME NEW t \in Tests, NEW n \in 1 .. Len(Sizes), NEW c, IsChain(c, t, n - 1)
  PROVE  IsChain(IF n \in SharedLevels THEN Append(c, <<n, NameOf(t)[n]>>) ELSE c, t, n)
<1>0. n \in Levels /\ n \in Nat /\ SharedLevels \subseteq Nat  BY RulesAre DEF Levels
<1>1. CASE n \notin SharedLevels
  <2>1. \A l \in SharedLevels : l <= n <=> l <= n - 1  BY <1>0, <1>1
  <2>2. \A i \in 1 .. Len(c) : c[i][1] <= n  BY <1>0, <2>1 DEF IsChain
  <2> QED BY <1>1, <2>1, <2>2 DEF IsChain
<1>2. CASE n \in SharedLevels
  <2> DEFINE r == <<n, NameOf(t)[n]>>
             d == Append(c, r)
  <2>1. r \in Rules  BY <1>0, <1>2, NamesAreCandidates, RulesAre
  <2>2. /\ c \in Seq(Rules) /\ Len(c) \in Nat /\ d \in Seq(Rules) /\ Len(d) = Len(c) + 1
        /\ d[Len(c) + 1] = r /\ \A i \in 1 .. Len(c) : d[i] = c[i]
    BY <2>1 DEF IsChain
  <2>3. r[1] = n /\ r[2] = NameOf(t)[n]  OBVIOUS
  <2> HIDE DEF r, d
  <2>4. ASSUME NEW i \in 1 .. Len(d)
        PROVE  d[i][1] \in SharedLevels /\ d[i][1] <= n /\ d[i][2] = NameOf(t)[d[i][1]]
    <3>1. CASE i \in 1 .. Len(c)
      <4>1. d[i] = c[i] /\ c[i][1] \in SharedLevels /\ c[i][1] <= n - 1 /\ c[i][2] = NameOf(t)[c[i][1]]
        BY <2>2, <3>1 DEF IsChain
      <4>2. c[i][1] \in Nat  BY <1>0, <4>1
      <4>3. c[i][1] <= n  BY <1>0, <4>1, <4>2
      <4> QED BY <4>1, <4>3
    <3>2. CASE i = Len(c) + 1
      <4>1. d[i] = r  BY <2>2, <3>2
      <4> QED BY <1>0, <1>2, <2>3, <4>1
    <3> QED BY <2>2, <3>1, <3>2
  <2>5. ASSUME NEW i \in 1 .. Len(d), NEW j \in 1 .. Len(d), i < j PROVE d[i][1] < d[j][1]
    <3>1. i \in 1 .. Len(c)  BY <2>2, <2>5
    <3>2. d[i] = c[i] /\ c[i][1] \in SharedLevels /\ c[i][1] <= n - 1  BY <2>2, <3>1 DEF IsChain
    <3>3. CASE j \in 1 .. Len(c)  BY <2>2, <2>5, <3>1, <3>3 DEF IsChain
    <3>4. CASE j = Len(c) + 1
      <4>1. d[j][1] = n  BY <2>2, <2>3, <3>4
      <4>2. c[i][1] \in Nat  BY <1>0, <3>2
      <4> QED BY <1>0, <3>2, <4>1, <4>2
    <3> QED BY <2>2, <3>3, <3>4
  <2>6. ASSUME NEW l \in SharedLevels, l <= n PROVE \E i \in 1 .. Len(d) : d[i] = <<l, NameOf(t)[l]>>
    <3>1. CASE l = n  BY <2>2, <3>1 DEF r
    <3>2. CASE l # n
      <4>1. l <= n - 1  BY <1>0, <2>6, <3>2
      <4>2. PICK i \in 1 .. Len(c) : c[i] = <<l, NameOf(t)[l]>>  BY <4>1 DEF IsChain
      <4> QED BY <2>2, <4>2
    <3> QED BY <3>1, <3>2
  <2>7. IsChain(d, t, n)  BY <2>2, <2>4, <2>5, <2>6 DEF IsChain
  <2> QED BY <1>2, <2>7 DEF r, d
<1> QED BY <1>1, <1>2

\* A fresh builder, after the calls of a constructor.
LEMMA ChainOfCalls ==
  ASSUME NEW t \in Tests, NEW got, Chosen(t, got)
  PROVE  IsChain(AddRules(<<>>, 0, got), t, Len(got))
<1> DEFINE After(f) == [k \in 0 .. Len(got) |->
                         IF k = 0 THEN <<>>
                         ELSE IF 0 + k \in SharedLevels THEN Append(f[k - 1], <<0 + k, got[k]>>)
                         ELSE f[k - 1]]
           step == [p \in Nat \X Seq(Rules) |->
                      IF p[1] \in 1 .. Len(got) /\ p[1] \in SharedLevels
                        THEN Append(p[2], <<p[1], got[p[1]]>>) ELSE p[2]]
           held == CHOOSE f : f = After(f)
<1>1. Len(got) \in Nat /\ Len(got) <= Len(Sizes) /\ Len(Sizes) \in Nat /\ \A l \in 1 .. Len(got) : got[l] = NameOf(t)[l]
  BY RulesAre DEF Chosen
<1>2. \A l \in 1 .. Len(got) : l \in SharedLevels => <<l, got[l]>> \in Rules
  BY <1>1, NamesAreCandidates, RulesAre DEF Levels
<1>3. StaysIn(Seq(Rules), step)
  <2> SUFFICES ASSUME NEW k \in Nat, NEW v \in Seq(Rules) PROVE step[<<k, v>>] \in Seq(Rules)  BY DEF StaysIn
  <2>1. step[<<k, v>>] = IF k \in 1 .. Len(got) /\ k \in SharedLevels THEN Append(v, <<k, got[k]>>) ELSE v
    OBVIOUS
  <2> QED BY <1>2, <2>1
<1>4. PICK f \in [0 .. Len(got) -> Seq(Rules)] : Repeats(f, <<>>, step, Len(got))
  <2>1. <<>> \in Seq(Rules)  OBVIOUS
  <2> HIDE DEF step
  <2> QED BY <1>1, <1>3, <2>1, NumberedIteration
<1>5. \A k \in 1 .. Len(got) : f[k] = IF k \in SharedLevels THEN Append(f[k - 1], <<k, got[k]>>) ELSE f[k - 1]
  <2> SUFFICES ASSUME NEW k \in 1 .. Len(got)
               PROVE  f[k] = IF k \in SharedLevels THEN Append(f[k - 1], <<k, got[k]>>) ELSE f[k - 1]
    OBVIOUS
  <2>1. k - 1 \in 0 .. Len(got) /\ k \in Nat  BY <1>1
  <2>2. f[k - 1] \in Seq(Rules)  BY <2>1
  <2>3. step[<<k, f[k - 1]>>] = IF k \in SharedLevels THEN Append(f[k - 1], <<k, got[k]>>) ELSE f[k - 1]
    BY <2>1, <2>2
  <2> QED BY <1>4, <2>3 DEF Repeats
<1>6. f = After(f)
  <2>1. \A k \in 0 .. Len(got) : k # 0 => k \in 1 .. Len(got) /\ 0 + k = k  BY <1>1
  <2>2. f[0] = <<>>  BY <1>4 DEF Repeats
  <2>3. \A k \in 0 .. Len(got) : f[k] = After(f)[k]  BY <1>5, <2>1, <2>2
  <2> QED BY <2>3
<1>7. held = After(held)  BY <1>6
<1>8. AddRules(<<>>, 0, got) = held[Len(got)]  BY DEF AddRules
<1> HIDE DEF held
<1>9. held[0] = <<>>  BY <1>1, <1>7
<1>10. \A k \in 1 .. Len(got) :
         held[k] = IF k \in SharedLevels THEN Append(held[k - 1], <<k, NameOf(t)[k]>>) ELSE held[k - 1]
  <2> SUFFICES ASSUME NEW k \in 1 .. Len(got)
               PROVE  held[k] = IF k \in SharedLevels THEN Append(held[k - 1], <<k, got[k]>>) ELSE held[k - 1]
    BY <1>1
  <2>1. k \in 0 .. Len(got) /\ k # 0 /\ 0 + k = k  BY <1>1
  <2> QED BY <1>7, <2>1
<1> DEFINE P == {k \in Nat : k <= Len(got) => IsChain(held[k], t, k)}
<1>11. 0 \in P
  <2>1. \A l \in SharedLevels : ~(l <= 0)  BY RulesAre
  <2> QED BY <1>9, <2>1 DEF IsChain
<1>12. ASSUME NEW k \in Nat, k \in P PROVE k + 1 \in P
  <2> SUFFICES ASSUME k + 1 <= Len(got) PROVE IsChain(held[k + 1], t, k + 1)  OBVIOUS
  <2>1. PICK n \in 1 .. Len(got) : n = k + 1  BY <1>1
  <2>2. n - 1 = k /\ n \in 1 .. Len(Sizes)  BY <1>1, <2>1
  <2>3. IsChain(held[n - 1], t, n - 1)  BY <1>1, <1>12, <2>2
  <2>4. IsChain(held[n], t, n)  BY <1>10, <2>2, <2>3, ChainGrows
  <2> QED BY <2>1, <2>4
<1> HIDE DEF P
<1>13. Nat \subseteq P  BY <1>11, <1>12, Induction
<1>14. IsChain(held[Len(got)], t, Len(got))  BY <1>1, <1>13 DEF P
<1> QED BY <1>8, <1>14

\* The calls of a constructor choose what its test's name lists.
LEMMA ChoosesName ==
  ASSUME NEW t \in Tests, NEW k \in Nat \ {0}, NEW idx \in Nat, NEW calls \in 0 .. Len(Sizes),
         idx \div k = ComboOf(t), Cardinality(active) = NumCombos * k
  PROVE  Chosen(t, ChooseFrom(idx, 0, calls)) /\ Len(ChooseFrom(idx, 0, calls)) = calls
<1> DEFINE left == Len(Sizes) - 0
           upto == IF calls < left THEN calls ELSE left
           got == [j \in 1 .. upto |-> Select(idx, Product(SubSeq(Sizes, 1, j - 1)), Sizes[0 + j])]
           fine == {j \in DOMAIN got : \A i \in 1 .. j : got[i] # -1}
<1>1. Len(Sizes) \in Nat /\ calls \in Nat /\ calls <= Len(Sizes) /\ upto = calls  BY RulesAre
<1>2. DOMAIN got = 1 .. calls  BY <1>1
<1>3. ASSUME NEW j \in 1 .. calls PROVE got[j] = NameOf(t)[j] /\ got[j] \in Nat
  <2>1. j \in Levels /\ 0 + j = j  BY <1>1 DEF Levels
  <2>2. got[j] = Select(idx, Product(SubSeq(Sizes, 1, j - 1)), Sizes[j])  BY <1>1, <2>1
  <2>3. NameOf(t)[j] \in Nat  BY <2>1, NamesAreCandidates
  <2> HIDE DEF got
  <2> QED BY <2>1, <2>2, <2>3, SelectsName
<1>4. ChooseFrom(idx, 0, calls) = SubSeq(got, 1, Cardinality(fine))  BY DEF ChooseFrom
<1>5. got = [j \in 1 .. calls |-> got[j]]  BY <1>1
<1> HIDE DEF got, upto
<1>6. got \in Seq(Nat) /\ Len(got) = calls  BY <1>1, <1>3, <1>5
<1>7. fine = 1 .. calls
  <2>1. \A j \in 1 .. calls : \A i \in 1 .. j : i \in 1 .. calls  BY <1>1
  <2>2. \A j \in 1 .. calls : got[j] # -1  BY <1>3
  <2> QED BY <1>2, <2>1, <2>2
<1>8. Cardinality(fine) = calls
  <2>1. 1 \in Int /\ calls \in Int  BY <1>1
  <2>2. Cardinality(1 .. calls) = IF 1 > calls THEN 0 ELSE calls - 1 + 1  BY <2>1, FS_Interval
  <2>3. Cardinality(1 .. calls) = calls  BY <1>1, <2>2
  <2> QED BY <1>7, <2>3
<1>9. SubSeq(got, 1, calls) = got  BY <1>1, <1>6
<1> QED BY <1>1, <1>3, <1>4, <1>6, <1>8, <1>9 DEF Chosen

--------------------------------------------------------------------------------
(* One shared rule: its members m, its counters s and d, the places p of the tests with respect *)
(* to it, and how often it was set up and torn down.                                           *)

Place == {"out", "settingUp", "in", "tearingDown", "gone"}

\* The tests that have entered, and the members that have not left.
Started(p) == {t \in Tests : p[t] # "out"}
Pending(m, p) == {t \in m : p[t] \notin {"tearingDown", "gone"}}

\* The counters count what they are meant to count; from the first entry on, one test sets up or
\* the resource has been set up; from the last exit on, and not before, one test tears it down or
\* it has been torn down.
OneSetsUp(p, setUpsOf) ==
  /\ \A s, t \in Tests : p[s] = "settingUp" /\ p[t] = "settingUp" => s = t
  /\ Started(p) = {} => setUpsOf = 0
  /\ Started(p) # {} => (setUpsOf = 0 <=> \E t \in Tests : p[t] = "settingUp")
OneTearsDown(m, p, tearDownsOf) ==
  /\ \A s, t \in Tests : p[s] = "tearingDown" /\ p[t] = "tearingDown" => s = t
  /\ Pending(m, p) # {} \/ m = {} => tearDownsOf = 0 /\ \A t \in Tests : p[t] # "tearingDown"
  /\ Pending(m, p) = {} /\ m # {} => (tearDownsOf = 0 <=> \E t \in Tests : p[t] = "tearingDown")
RuleOK(m, in, out, p, setUpsOf, tearDownsOf) ==
  /\ m \in SUBSET Tests /\ p \in [Tests -> Place] /\ setUpsOf \in {0, 1} /\ tearDownsOf \in {0, 1}
  /\ Started(p) \subseteq m /\ in = Cardinality(Started(p)) /\ out = Cardinality(Pending(m, p))
  /\ OneSetsUp(p, setUpsOf)
  /\ OneTearsDown(m, p, tearDownsOf)

\* Some of the tests are finitely many, and none exactly if their number is 0.
LEMMA SomeTests ==
  ASSUME NEW S \in SUBSET Tests
  PROVE  IsFiniteSet(S) /\ Cardinality(S) \in Nat /\ (Cardinality(S) = 0 <=> S = {})
  BY AllTests, FS_Subset, FS_CardinalityType, FS_EmptySet

\* Before any test runs, a rule may be given its members.
LEMMA RuleAssigned ==
  ASSUME NEW m \in SUBSET Tests, NEW p, p = [t \in Tests |-> "out"]
  PROVE  RuleOK(m, 0, Cardinality(m), p, 0, 0)
<1>1. Started(p) = {} /\ Pending(m, p) = m  BY DEF Started, Pending
<1>2. Cardinality({}) = 0  BY FS_EmptySet
<1>3. OneSetsUp(p, 0) /\ OneTearsDown(m, p, 0)  BY <1>1 DEF OneSetsUp, OneTearsDown
<1> QED BY <1>1, <1>2, <1>3 DEF RuleOK, Place

\* A rule nobody has entered has its counters at their first values.
LEMMA RuleUntouched ==
  ASSUME NEW m, NEW in, NEW out, NEW p, NEW u, NEW w, RuleOK(m, in, out, p, u, w), \A t \in Tests : p[t] = "out"
  PROVE  in = 0 /\ u = 0 /\ w = 0
<1>1. Started(p) = {} /\ Pending(m, p) = m  BY DEF Started, Pending, RuleOK
<1> QED BY <1>1, FS_EmptySet DEF RuleOK, OneSetsUp, OneTearsDown

\* The first one in alone goes on to set up.
LEMMA RuleEntered ==
  ASSUME NEW m, NEW in, NEW out, NEW p, NEW u, NEW w, RuleOK(m, in, out, p, u, w),
         NEW t \in m, p[t] = "out", NEW q, q = [p EXCEPT ![t] = IF in = 0 THEN "settingUp" ELSE "in"]
  PROVE  RuleOK(m, in + 1, out, q, u, w)
<1>0. t \in Tests /\ p \in [Tests -> Place] /\ q \in [Tests -> Place]  BY DEF RuleOK, Place
<1>1. Started(q) = Started(p) \cup {t} /\ t \notin Started(p)  BY <1>0 DEF Started
<1>2. Pending(m, q) = Pending(m, p)  BY <1>0 DEF Pending, RuleOK
<1>3. Started(p) \in SUBSET Tests  BY DEF Started
<1>4. in = 0 <=> Started(p) = {}  BY <1>3, SomeTests DEF RuleOK
<1>5. Cardinality(Started(q)) = in + 1
  <2>1. IsFiniteSet(Started(p)) /\ Cardinality(Started(p)) = in  BY <1>3, SomeTests DEF RuleOK
  <2> QED BY <1>1, <2>1, FS_AddElement
<1>6. OneSetsUp(q, u)
  <2>0. OneSetsUp(p, u)  BY DEF RuleOK
  <2>1. CASE Started(p) = {}
    <3>1. q = [p EXCEPT ![t] = "settingUp"] /\ \A s \in Tests : p[s] = "out"
      BY <1>4, <2>1 DEF Started
    <3> QED BY <1>0, <1>1, <2>0, <2>1, <3>1 DEF OneSetsUp
  <2>2. CASE Started(p) # {}
    <3>1. q = [p EXCEPT ![t] = "in"]  BY <1>4, <2>2
    <3> QED BY <1>0, <1>1, <2>0, <2>2, <3>1 DEF OneSetsUp
  <2> QED BY <2>1, <2>2
<1>7. OneTearsDown(m, q, w)
  <2>1. \A s \in Tests : q[s] = "tearingDown" <=> p[s] = "tearingDown"  BY <1>0
  <2> QED BY <1>2, <2>1 DEF RuleOK, OneTearsDown
<1> QED BY <1>0, <1>1, <1>2, <1>5, <1>6, <1>7 DEF RuleOK

\* It sets up once.
LEMMA RuleSetUp ==
  ASSUME NEW m, NEW in, NEW out, NEW p, NEW u, NEW w, RuleOK(m, in, out, p, u, w),
         NEW t \in Tests, p[t] = "settingUp", NEW q, q = [p EXCEPT ![t] = "in"]
  PROVE  RuleOK(m, in, out, q, u + 1, w)
<1>0. p \in [Tests -> Place] /\ q \in [Tests -> Place]  BY DEF RuleOK, Place
<1>1. Started(q) = Started(p) /\ Started(p) # {}  BY <1>0 DEF Started
<1>2. Pending(m, q) = Pending(m, p)  BY <1>0 DEF Pending, RuleOK
<1>3. u = 0 /\ OneSetsUp(p, u)  BY <1>1 DEF RuleOK, OneSetsUp
<1>4. OneSetsUp(q, u + 1)  BY <1>0, <1>1, <1>3 DEF OneSetsUp
<1>5. OneTearsDown(m, q, w)
  <2>1. \A s \in Tests : q[s] = "tearingDown" <=> p[s] = "tearingDown"  BY <1>0
  <2> QED BY <1>2, <2>1 DEF RuleOK, OneTearsDown
<1> QED BY <1>0, <1>1, <1>2, <1>3, <1>4, <1>5 DEF RuleOK

\* The last one out alone goes on to tear down.
LEMMA RuleLeft ==
  ASSUME NEW m, NEW in, NEW out, NEW p, NEW u, NEW w, RuleOK(m, in, out, p, u, w),
         NEW t \in Tests, p[t] = "in",
         NEW q, q = [p EXCEPT ![t] = IF out - 1 = 0 THEN "tearingDown" ELSE "gone"]
  PROVE  RuleOK(m, in, out - 1, q, u, w)
<1>0. p \in [Tests -> Place] /\ q \in [Tests -> Place] /\ m \in SUBSET Tests  BY DEF RuleOK, Place
<1>1. Started(q) = Started(p) /\ t \in m /\ Started(p) # {}  BY <1>0 DEF Started, RuleOK
<1>2. t \in Pending(m, p) /\ Pending(m, q) = Pending(m, p) \ {t}
  <2>1. t \in Pending(m, p)  BY <1>1 DEF Pending
  <2>2. q[t] \in {"tearingDown", "gone"} /\ \A s \in Tests : s # t => q[s] = p[s]  BY <1>0
  <2> QED BY <1>0, <2>1, <2>2 DEF Pending
<1>3. w = 0 /\ \A s \in Tests : p[s] # "tearingDown"  BY <1>2 DEF RuleOK, OneTearsDown
<1>4. out - 1 = Cardinality(Pending(m, q)) /\ (out - 1 = 0 <=> Pending(m, q) = {})
  <2>1. Pending(m, p) \in SUBSET Tests /\ Pending(m, p) \ {t} \in SUBSET Tests  BY <1>0 DEF Pending
  <2>2. IsFiniteSet(Pending(m, p)) /\ Cardinality(Pending(m, p)) = out  BY <2>1, SomeTests DEF RuleOK
  <2>3. Cardinality(Pending(m, p) \ {t}) = out - 1  BY <1>2, <2>2, FS_RemoveElement
  <2> QED BY <1>2, <2>1, <2>3, SomeTests
<1>5. OneSetsUp(q, u)
  <2>1. \A s \in Tests : q[s] = "settingUp" <=> p[s] = "settingUp"  BY <1>0
  <2> QED BY <1>1, <2>1 DEF RuleOK, OneSetsUp
<1>6. OneTearsDown(m, q, w)
  <2>1. CASE Pending(m, q) = {}
    <3>1. q = [p EXCEPT ![t] = "tearingDown"]  BY <1>4, <2>1
    <3> QED BY <1>0, <1>1, <1>3, <2>1, <3>1 DEF OneTearsDown
  <2>2. CASE Pending(m, q) # {}
    <3>1. q = [p EXCEPT ![t] = "gone"]  BY <1>4, <2>2
    <3> QED BY <1>0, <1>1, <1>3, <2>2, <3>1 DEF OneTearsDown
  <2> QED BY <2>1, <2>2
<1> QED BY <1>0, <1>1, <1>4, <1>5, <1>6 DEF RuleOK

\* It tears down once.
LEMMA RuleTornDown ==
  ASSUME NEW m, NEW in, NEW out, NEW p, NEW u, NEW w, RuleOK(m, in, out, p, u, w),
         NEW t \in Tests, p[t] = "tearingDown", NEW q, q = [p EXCEPT ![t] = "gone"]
  PROVE  RuleOK(m, in, out, q, u, w + 1)
<1>0. p \in [Tests -> Place] /\ q \in [Tests -> Place]  BY DEF RuleOK, Place
<1>1. Started(q) = Started(p)  BY <1>0 DEF Started
<1>2. Pending(m, q) = Pending(m, p)  BY <1>0 DEF Pending, RuleOK
<1>3. Pending(m, p) = {} /\ m # {} /\ w = 0  BY DEF RuleOK, OneTearsDown
<1>4. OneSetsUp(q, u)
  <2>1. \A s \in Tests : q[s] = "settingUp" <=> p[s] = "settingUp"  BY <1>0
  <2> QED BY <1>1, <2>1 DEF RuleOK, OneSetsUp
<1>5. OneTearsDown(m, q, 1)
  <2>1. \A s \in Tests : q[s] # "tearingDown"  BY <1>0 DEF RuleOK, OneTearsDown
  <2>2. 1 # 0  OBVIOUS
  <2> QED BY <1>2, <1>3, <2>1, <2>2, Zenon DEF OneTearsDown
<1>6. w + 1 = 1  BY <1>3
<1>7. RuleOK(m, in, out, q, u, 1)  BY <1>0, <1>1, <1>2, <1>4, <1>5 DEF RuleOK
<1> QED BY <1>6, <1>7

--------------------------------------------------------------------------------
(* The invariant *)

\* The harness filters by method, as --test_filter does, and at most once.  (Filters on the
\* described names are another matter: the combinations they keep are not all of a size.)
ByMethod ==
  /\ MaxFilters <= 1
  /\ \A kept \in Filters : \E M \in SUBSET AllMethods : kept = TestsOf(AllCombos, M)

NotConstructed == {"idle", "queued", "construct"}
Positions == NotConstructed \cup {"enter", "setUp", "body", "leave", "tearDown", "done"}
Fresh == [curIdx |-> -1, inners |-> <<>>]

TypesInv ==
  /\ phase \in {"evaluated", "running", "finished"} /\ filterCalls \in Nat
  /\ setupCounter \in [Rules -> Int] /\ teardownCounter \in [Rules -> Int]
  /\ setUps \in [Rules -> Int] /\ tearDowns \in [Rules -> Int]
  /\ builders \in [Tests -> [curIdx : Int, inners : Seq(Rules)]]
  /\ pc \in [Tests -> Positions] /\ depth \in [Tests -> Nat]
  /\ chain \in [Tests -> Seq(Rules)] /\ chosen \in [Tests -> Seq(Nat)]

\* The tests that run are those of some methods, numbered by combination.
Selected(M) ==
  M # {} /\ active = TestsOf(AllCombos, M) /\ children = active /\ Numbered(M, index)
SelectionInv ==
  /\ \E M \in SUBSET AllMethods : Selected(M)
  /\ filterCalls = 0 => active = Tests /\ index = [t \in Tests |-> t]
  /\ phase = "evaluated" => \A t \in Tests : pc[t] = "idle" /\ builders[t] = Fresh
  /\ phase = "finished" => \A t \in active : pc[t] = "done"

\* A test has chosen from its name, is about to run in those rules, and is as deep in them as its
\* position says; the builder of its number is for it alone.
TestOK(t) ==
  /\ Chosen(t, chosen[t]) /\ IsChain(chain[t], t, Len(chosen[t])) /\ depth[t] <= Len(chain[t])
  /\ pc[t] # "idle" => t \in active
  /\ pc[t] \in NotConstructed =>
       /\ chosen[t] = <<>> /\ chain[t] = <<>>
       /\ t \in active => builders[index[t]] = Fresh
  /\ pc[t] \notin NotConstructed =>
       t \in threw \/ MethodOf(t) \in ignored \/ Len(chosen[t]) = Len(Sizes)
  /\ pc[t] \in {"enter", "setUp"} => depth[t] < Len(chain[t])
  /\ pc[t] = "body" => depth[t] = Len(chain[t])
  /\ pc[t] \in {"body", "leave", "tearDown"} => depth[t] > 0
  /\ pc[t] \in NotConstructed \cup {"done"} => depth[t] = 0
TestsInv == \A t \in Tests : TestOK(t)

\* Every shared rule is as its protocol leaves it.
Places(r) == [t \in Tests |-> Within(t, r)]
RuleInv(r) ==
  RuleOK(MembersOf(r), setupCounter[r], teardownCounter[r], Places(r), setUps[r], tearDowns[r])
RulesInv == \A r \in Rules : RuleInv(r)

Inv == ByMethod /\ TypesInv /\ SelectionInv /\ TestsInv /\ RulesInv

--------------------------------------------------------------------------------
(* Places *)

\* Within, for a test in position p of chain c with d rules entered.
At(c, p, d, r) ==
  LET e == CHOOSE k \in DOMAIN c : c[k] = r
  IN  IF r \notin Range(c) THEN "out"
      ELSE IF e <= d THEN IF p = "tearDown" /\ e = d THEN "tearingDown" ELSE "in"
      ELSE IF p \in {"enter", "setUp"} THEN IF p = "setUp" /\ e = d + 1 THEN "settingUp" ELSE "out"
      ELSE "gone"

\* It is that.
LEMMA WithinIsAt ==
  ASSUME NEW t \in Tests, NEW r
  PROVE  /\ Within(t, r) = At(chain[t], pc[t], depth[t], r)
         /\ Within(t, r)' = At(chain'[t], pc'[t], depth'[t], r)
  BY DEF Within, At

\* A rule is in one place of a chain.
LEMMA RuleOnceInChain ==
  ASSUME NEW t, NEW n, NEW c, IsChain(c, t, n), NEW i \in 1 .. Len(c), NEW j \in 1 .. Len(c), c[i] = c[j]
  PROVE  i = j
<1>1. Len(c) \in Nat /\ SharedLevels \subseteq Nat  BY RulesAre DEF IsChain
<1>2. c[i][1] \in Nat /\ c[j][1] \in Nat  BY <1>1 DEF IsChain
<1>3. ~(i < j)  BY <1>2 DEF IsChain
<1>4. ~(j < i)  BY <1>2 DEF IsChain
<1> QED BY <1>1, <1>3, <1>4

\* Where a test is with respect to the i-th rule of its chain ...
PlaceAt(i, p, d) ==
  IF i <= d THEN IF p = "tearDown" /\ i = d THEN "tearingDown" ELSE "in"
  ELSE IF p \in {"enter", "setUp"} THEN IF p = "setUp" /\ i = d + 1 THEN "settingUp" ELSE "out"
  ELSE "gone"

LEMMA AtRule ==
  ASSUME NEW t, NEW n, NEW c, IsChain(c, t, n), NEW i \in 1 .. Len(c), NEW p, NEW d \in Nat
  PROVE  At(c, p, d, c[i]) = PlaceAt(i, p, d)
<1>1. Len(c) \in Nat /\ DOMAIN c = 1 .. Len(c)  BY DEF IsChain
<1> DEFINE e == CHOOSE k \in DOMAIN c : c[k] = c[i]
<1>2. e \in DOMAIN c /\ c[e] = c[i]  BY <1>1
<1>3. e = i  BY <1>1, <1>2, RuleOnceInChain
<1>4. c[i] \in Range(c)  BY <1>1 DEF Range
<1> HIDE DEF e
<1> QED BY <1>1, <1>3, <1>4 DEF At, e, PlaceAt

\* ... and to any other rule.
LEMMA AtOther ==
  ASSUME NEW t, NEW n, NEW c, IsChain(c, t, n), NEW p, NEW d, NEW r, \A i \in 1 .. Len(c) : c[i] # r
  PROVE  At(c, p, d, r) = "out"
<1>1. DOMAIN c = 1 .. Len(c)  BY DEF IsChain
<1>2. r \notin Range(c)  BY <1>1 DEF Range
<1> QED BY <1>2 DEF At

\* A step of one test moves no other.
LEMMA PlacesStep ==
  ASSUME TypesInv, NEW t \in Tests, NEW x, NEW y,
         pc' = [pc EXCEPT ![t] = x], depth' = [depth EXCEPT ![t] = y], chain' = chain, NEW r
  PROVE  Places(r)' = [Places(r) EXCEPT ![t] = At(chain[t], x, y, r)]
<1>1. pc'[t] = x /\ depth'[t] = y  BY DEF TypesInv
<1>2. \A s \in Tests : s # t => pc'[s] = pc[s] /\ depth'[s] = depth[s]  BY DEF TypesInv
<1>3. Within(t, r)' = At(chain[t], x, y, r)  BY <1>1, WithinIsAt
<1>4. \A s \in Tests : s # t => Within(s, r)' = Within(s, r)  BY <1>2, WithinIsAt
<1>5. \A s \in Tests : Within(s, r)' = [Places(r) EXCEPT ![t] = At(chain[t], x, y, r)][s]
  BY <1>3, <1>4 DEF Places
<1>6. Places(r)' = [s \in Tests |-> Within(s, r)']  BY DEF Places
<1> QED BY <1>5, <1>6 DEF Places

\* A step that leaves a test where it was with respect to a rule leaves the rule.
LEMMA PlacesSame ==
  ASSUME TypesInv, NEW t \in Tests, NEW x, NEW y,
         pc' = [pc EXCEPT ![t] = x], depth' = [depth EXCEPT ![t] = y], chain' = chain, NEW r,
         At(chain[t], x, y, r) = At(chain[t], pc[t], depth[t], r)
  PROVE  Places(r)' = Places(r)
<1>1. Places(r)' = [Places(r) EXCEPT ![t] = At(chain[t], x, y, r)]
  BY ONLY TypesInv, t \in Tests, pc' = [pc EXCEPT ![t] = x], depth' = [depth EXCEPT ![t] = y],
          chain' = chain, PlacesStep
<1>2. Places(r)[t] = At(chain[t], x, y, r)  BY WithinIsAt DEF Places
<1> QED BY <1>1, <1>2 DEF Places

\* The rules of a test's chain have it as a member.
LEMMA ChainMembers ==
  ASSUME TypesInv, NEW t \in Tests, TestOK(t), t \in active, NEW i \in 1 .. Len(chain[t])
  PROVE  chain[t][i] \in Rules /\ t \in MembersOf(chain[t][i])
<1>1. IsChain(chain[t], t, Len(chosen[t]))  BY DEF TestOK
<1>2. chain[t][i] \in Rules /\ chain[t][i][2] = NameOf(t)[chain[t][i][1]]  BY <1>1 DEF IsChain
<1> QED BY <1>2 DEF MembersOf

RuleStutters(r) == UNCHANGED Rule(r)!ruleVars

\* What leaves a rule's state alone.
LEMMA StuttersIf ==
  ASSUME NEW r, active' = active, setupCounter'[r] = setupCounter[r], teardownCounter'[r] = teardownCounter[r],
         setUps'[r] = setUps[r], tearDowns'[r] = tearDowns[r], Places(r)' = Places(r)
  PROVE  RuleStutters(r)
  BY DEF RuleStutters, Rule!ruleVars, Places, MembersOf

\* A step to position x and depth y that concerns only the n-th rule of a test's chain,
OnlyAt(n, t, x, y) == \A i \in 1 .. Len(chain[t]) : i # n => PlaceAt(i, x, y) = PlaceAt(i, pc[t], depth[t])

\* and what it does to rule r.
Moved(n, t, x, y, r) ==
  IF r = chain[t][n]
    THEN /\ Places(r)[t] = PlaceAt(n, pc[t], depth[t])
         /\ Places(r)' = [Places(r) EXCEPT ![t] = PlaceAt(n, x, y)]
    ELSE Places(r)' = Places(r)
StepsTo(t, x, y) == pc' = [pc EXCEPT ![t] = x] /\ depth' = [depth EXCEPT ![t] = y] /\ chain' = chain

LEMMA Moves ==
  ASSUME TypesInv, NEW t \in Tests, TestOK(t), NEW x, NEW y \in Nat, StepsTo(t, x, y),
         NEW n \in 1 .. Len(chain[t]), OnlyAt(n, t, x, y), NEW r
  PROVE  Moved(n, t, x, y, r)
<1> DEFINE c == chain[t]
           d == depth[t]
           p == pc[t]
<1>1. IsChain(c, t, Len(chosen[t])) /\ d \in Nat  BY DEF TestOK, TypesInv
<1>2. \A i \in 1 .. Len(c) : At(c, p, d, c[i]) = PlaceAt(i, p, d) /\ At(c, x, y, c[i]) = PlaceAt(i, x, y)
  <2> HIDE DEF c, d, p
  <2> QED BY <1>1, AtRule
<1>3. CASE r = c[n]
  <2>1. Places(r)[t] = PlaceAt(n, p, d)  BY <1>2, <1>3, WithinIsAt DEF Places
  <2>2. Places(r)' = [Places(r) EXCEPT ![t] = At(c, x, y, r)]  BY PlacesStep DEF StepsTo
  <2> QED BY <1>2, <1>3, <2>1, <2>2 DEF Moved
<1>4. CASE r # c[n]
  <2>1. At(c, x, y, r) = At(c, p, d, r)
    <3>1. CASE \A i \in 1 .. Len(c) : c[i] # r
      <4> HIDE DEF c, d, p
      <4> QED BY <1>1, <3>1, AtOther
    <3>2. ASSUME NEW i \in 1 .. Len(c), c[i] = r PROVE At(c, x, y, r) = At(c, p, d, r)
      BY <1>2, <1>4, <3>2 DEF OnlyAt
    <3> QED BY <3>1, <3>2
  <2>2. Places(r)' = Places(r)  BY <2>1, PlacesSame DEF StepsTo
  <2> QED BY <1>4, <2>2 DEF Moved
<1> QED BY <1>3, <1>4

\* A test that changes its position with respect to none.
LEMMA Stays ==
  ASSUME TypesInv, NEW t \in Tests, TestOK(t), NEW x,
         pc' = [pc EXCEPT ![t] = x], depth' = depth, chain' = chain,
         \A i \in 1 .. Len(chain[t]) : PlaceAt(i, x, depth[t]) = PlaceAt(i, pc[t], depth[t]),
         NEW r
  PROVE  Places(r)' = Places(r)
<1> DEFINE c == chain[t]
           d == depth[t]
           p == pc[t]
<1>1. IsChain(c, t, Len(chosen[t])) /\ d \in Nat  BY DEF TestOK, TypesInv
<1>2. \A i \in 1 .. Len(c) : At(c, p, d, c[i]) = PlaceAt(i, p, d) /\ At(c, x, d, c[i]) = PlaceAt(i, x, d)
  <2> HIDE DEF c, d, p
  <2> QED BY <1>1, AtRule
<1>3. depth' = [depth EXCEPT ![t] = d]  BY DEF TypesInv
<1>4. At(c, x, d, r) = At(c, p, d, r)
  <2>1. CASE \A i \in 1 .. Len(c) : c[i] # r
    <3> HIDE DEF c, d, p
    <3> QED BY <1>1, <2>1, AtOther
  <2>2. ASSUME NEW i \in 1 .. Len(c), c[i] = r PROVE At(c, x, d, r) = At(c, p, d, r)
    BY <1>2, <2>2
  <2> QED BY <2>1, <2>2
<1> QED BY <1>3, <1>4, PlacesSame

\* A test enters the next rule of its chain, and no other.
LEMMA EnterRule ==
  ASSUME Inv, NEW t \in Tests, Enter(t), NEW r \in Rules
  PROVE  IF r = NextRule(t) THEN Rule(r)!Enter(t) ELSE RuleStutters(r)
<1> DEFINE c == chain[t]
           d == depth[t]
           x == pc'[t]
           y == depth'[t]
<1>1. TypesInv /\ TestOK(t) /\ pc[t] = "enter" /\ t \in active  BY DEF Inv, TestsInv, TestOK, Enter
<1>2. d \in Nat /\ d < Len(c) /\ Len(c) \in Nat  BY <1>1 DEF TestOK, TypesInv
<1>3. StepsTo(t, x, y)  BY <1>1 DEF Enter, TypesInv, StepsTo
<1>4. IF setupCounter[NextRule(t)] = 0 THEN x = "setUp" /\ y = d
      ELSE y = d + 1 /\ x = IF y = Len(c) THEN "body" ELSE "enter"
  BY <1>1 DEF Enter, TypesInv
<1>5. PICK n \in 1 .. Len(c) : n = d + 1 /\ NextRule(t) = c[n]  BY <1>2 DEF NextRule
<1>6. active' = active /\ teardownCounter' = teardownCounter /\ setUps' = setUps /\ tearDowns' = tearDowns
  BY DEF Enter, classVars
<1>7. setupCounter' = [setupCounter EXCEPT ![NextRule(t)] = setupCounter[NextRule(t)] + 1]  BY DEF Enter
<1>8. setupCounter \in [Rules -> Int]  BY <1>1 DEF TypesInv
<1>9. y \in Nat  BY <1>2, <1>4
<1> HIDE DEF x, y, d
<1>10. \A i \in 1 .. Len(c) : i # n => PlaceAt(i, x, y) = PlaceAt(i, "enter", d)
  BY <1>2, <1>4, <1>5 DEF PlaceAt
<1>11. PlaceAt(n, "enter", d) = "out" /\ PlaceAt(n, x, y) = IF setupCounter[NextRule(t)] = 0 THEN "settingUp" ELSE "in"
  BY <1>2, <1>4, <1>5 DEF PlaceAt
<1>12. IF r = c[n]
         THEN /\ Places(r)[t] = PlaceAt(n, "enter", d)
              /\ Places(r)' = [Places(r) EXCEPT ![t] = PlaceAt(n, x, y)]
         ELSE Places(r)' = Places(r)
  <2>1. OnlyAt(n, t, x, y)  BY <1>1, <1>10 DEF OnlyAt, d
  <2>2. Moved(n, t, x, y, r)  BY ONLY <1>1, <1>3, <1>5, <1>9, <2>1, t \in Tests, Moves
  <2> QED BY <1>1, <2>2 DEF Moved, d
<1>13. CASE r = NextRule(t)
  <2>1. t \in MembersOf(r)  BY <1>1, <1>5, <1>13, ChainMembers
  <2>2. setupCounter'[r] = setupCounter[r] + 1  BY <1>7, <1>8, <1>13
  <2> QED BY <1>5, <1>6, <1>11, <1>12, <1>13, <2>1, <2>2 DEF Rule!Enter, Places, MembersOf
<1>14. CASE r # NextRule(t)
  <2>1. setupCounter'[r] = setupCounter[r]  BY <1>7, <1>8, <1>14
  <2> QED BY <1>5, <1>6, <1>12, <1>14, <2>1, StuttersIf
<1> QED BY <1>13, <1>14

\* It sets up the rule it has entered first.
LEMMA SetUpRule ==
  ASSUME Inv, NEW t \in Tests, SetUp(t), NEW r \in Rules
  PROVE  IF r = NextRule(t) THEN Rule(r)!SetUp(t) ELSE RuleStutters(r)
<1> DEFINE c == chain[t]
           d == depth[t]
           x == pc'[t]
           y == depth'[t]
<1>1. TypesInv /\ TestOK(t) /\ pc[t] = "setUp"  BY DEF Inv, TestsInv, SetUp
<1>2. d \in Nat /\ d < Len(c) /\ Len(c) \in Nat  BY <1>1 DEF TestOK, TypesInv
<1>3. StepsTo(t, x, y)  BY <1>1 DEF SetUp, TypesInv, StepsTo
<1>4. y = d + 1 /\ x = IF y = Len(c) THEN "body" ELSE "enter"  BY <1>1 DEF SetUp, TypesInv
<1>5. PICK n \in 1 .. Len(c) : n = d + 1 /\ NextRule(t) = c[n]  BY <1>2 DEF NextRule
<1>6. active' = active /\ setupCounter' = setupCounter /\ teardownCounter' = teardownCounter /\ tearDowns' = tearDowns
  BY DEF SetUp, classVars
<1>7. setUps' = [setUps EXCEPT ![NextRule(t)] = setUps[NextRule(t)] + 1] /\ setUps \in [Rules -> Int]
  BY <1>1 DEF SetUp, TypesInv
<1>9. y \in Nat  BY <1>2, <1>4
<1> HIDE DEF x, y, d
<1>10. \A i \in 1 .. Len(c) : i # n => PlaceAt(i, x, y) = PlaceAt(i, "setUp", d)
  BY <1>2, <1>4, <1>5 DEF PlaceAt
<1>11. PlaceAt(n, "setUp", d) = "settingUp" /\ PlaceAt(n, x, y) = "in"  BY <1>2, <1>4, <1>5 DEF PlaceAt
<1>12. IF r = c[n]
         THEN /\ Places(r)[t] = PlaceAt(n, "setUp", d)
              /\ Places(r)' = [Places(r) EXCEPT ![t] = PlaceAt(n, x, y)]
         ELSE Places(r)' = Places(r)
  <2>1. OnlyAt(n, t, x, y)  BY <1>1, <1>10 DEF OnlyAt, d
  <2>2. Moved(n, t, x, y, r)  BY ONLY <1>1, <1>3, <1>5, <1>9, <2>1, t \in Tests, Moves
  <2> QED BY <1>1, <2>2 DEF Moved, d
<1>13. CASE r = NextRule(t)
  <2>1. setUps'[r] = setUps[r] + 1  BY <1>7, <1>13
  <2> QED BY <1>5, <1>6, <1>11, <1>12, <1>13, <2>1 DEF Rule!SetUp, Places, MembersOf
<1>14. CASE r # NextRule(t)
  <2>1. setUps'[r] = setUps[r]  BY <1>7, <1>14
  <2> QED BY <1>5, <1>6, <1>12, <1>14, <2>1, StuttersIf
<1> QED BY <1>13, <1>14

\* It leaves the innermost rule it is in.
LEMMA LeaveRule ==
  ASSUME Inv, NEW t \in Tests, Leave(t), NEW r \in Rules
  PROVE  IF r = Innermost(t) THEN Rule(r)!Leave(t) ELSE RuleStutters(r)
<1> DEFINE c == chain[t]
           d == depth[t]
           x == pc'[t]
           y == depth'[t]
           last == teardownCounter[Innermost(t)] - 1 = 0
<1>1. TypesInv /\ TestOK(t) /\ pc[t] = "leave"  BY DEF Inv, TestsInv, Leave
<1>2. d \in 1 .. Len(c) /\ d \in Nat /\ Len(c) \in Nat /\ Innermost(t) = c[d]
  <2>1. d \in Nat /\ Len(c) \in Nat  BY <1>1 DEF TypesInv
  <2>2. d > 0 /\ d <= Len(c)  BY <1>1 DEF TestOK
  <2> QED BY <2>1, <2>2 DEF Innermost
<1>3. StepsTo(t, x, y)  BY <1>1 DEF Leave, TypesInv, StepsTo
<1>4. Innermost(t) \in Rules  BY <1>1, <1>2 DEF TestOK, IsChain
<1>5. teardownCounter' = [teardownCounter EXCEPT ![Innermost(t)] = teardownCounter[Innermost(t)] - 1]
      /\ teardownCounter \in [Rules -> Int]
  BY <1>1 DEF Leave, TypesInv
<1>6. active' = active /\ setupCounter' = setupCounter /\ setUps' = setUps /\ tearDowns' = tearDowns
  BY DEF Leave, classVars
<1>7. teardownCounter'[Innermost(t)] = teardownCounter[Innermost(t)] - 1  BY <1>4, <1>5
<1>8. IF last THEN x = "tearDown" /\ y = d ELSE y = d - 1 /\ x = IF y = 0 THEN "done" ELSE "leave"
  BY <1>1, <1>7 DEF Leave, Left, TypesInv
<1>9. y \in Nat  BY <1>2, <1>8
<1> HIDE DEF x, y, d, last
<1>10. \A i \in 1 .. Len(c) : i # d => PlaceAt(i, x, y) = PlaceAt(i, "leave", d)
  BY <1>2, <1>8 DEF PlaceAt
<1>11. PlaceAt(d, "leave", d) = "in" /\ PlaceAt(d, x, y) = IF last THEN "tearingDown" ELSE "gone"
  BY <1>2, <1>8 DEF PlaceAt
<1>12. IF r = c[d]
         THEN /\ Places(r)[t] = PlaceAt(d, "leave", d)
              /\ Places(r)' = [Places(r) EXCEPT ![t] = PlaceAt(d, x, y)]
         ELSE Places(r)' = Places(r)
  <2>1. PICK n \in 1 .. Len(c) : n = d  BY <1>2
  <2>2. OnlyAt(n, t, x, y)  BY <1>1, <1>10, <2>1 DEF OnlyAt, d
  <2>3. Moved(n, t, x, y, r)  BY ONLY <1>1, <1>3, <1>9, <2>1, <2>2, t \in Tests, Moves
  <2> QED BY <1>1, <2>1, <2>3 DEF Moved, d
<1>13. CASE r = Innermost(t)
  <2>1. teardownCounter'[r] = teardownCounter[r] - 1 /\ (last <=> teardownCounter'[r] = 0)
    BY <1>7, <1>13 DEF last
  <2> QED BY <1>2, <1>6, <1>11, <1>12, <1>13, <2>1 DEF Rule!Leave, Places, MembersOf
<1>14. CASE r # Innermost(t)
  <2>1. teardownCounter'[r] = teardownCounter[r]  BY <1>5, <1>14
  <2> QED BY <1>2, <1>6, <1>12, <1>14, <2>1, StuttersIf
<1> QED BY <1>13, <1>14

\* It tears down the rule it has left last.
LEMMA TearDownRule ==
  ASSUME Inv, NEW t \in Tests, TearDown(t), NEW r \in Rules
  PROVE  IF r = Innermost(t) THEN Rule(r)!TearDown(t) ELSE RuleStutters(r)
<1> DEFINE c == chain[t]
           d == depth[t]
           x == pc'[t]
           y == depth'[t]
<1>1. TypesInv /\ TestOK(t) /\ pc[t] = "tearDown"  BY DEF Inv, TestsInv, TearDown
<1>2. d \in 1 .. Len(c) /\ d \in Nat /\ Len(c) \in Nat /\ Innermost(t) = c[d]
  <2>1. d \in Nat /\ Len(c) \in Nat  BY <1>1 DEF TypesInv
  <2>2. d > 0 /\ d <= Len(c)  BY <1>1 DEF TestOK
  <2> QED BY <2>1, <2>2 DEF Innermost
<1>3. StepsTo(t, x, y)  BY <1>1 DEF TearDown, TypesInv, StepsTo
<1>5. tearDowns' = [tearDowns EXCEPT ![Innermost(t)] = tearDowns[Innermost(t)] + 1] /\ tearDowns \in [Rules -> Int]
  BY <1>1 DEF TearDown, TypesInv
<1>6. active' = active /\ setupCounter' = setupCounter /\ teardownCounter' = teardownCounter /\ setUps' = setUps
  BY DEF TearDown, classVars
<1>8. y = d - 1 /\ x = IF y = 0 THEN "done" ELSE "leave"  BY <1>1 DEF TearDown, Left, TypesInv
<1>9. y \in Nat  BY <1>2, <1>8
<1> HIDE DEF x, y, d
<1>10. \A i \in 1 .. Len(c) : i # d => PlaceAt(i, x, y) = PlaceAt(i, "tearDown", d)
  BY <1>2, <1>8 DEF PlaceAt
<1>11. PlaceAt(d, "tearDown", d) = "tearingDown" /\ PlaceAt(d, x, y) = "gone"  BY <1>2, <1>8 DEF PlaceAt
<1>12. IF r = c[d]
         THEN /\ Places(r)[t] = PlaceAt(d, "tearDown", d)
              /\ Places(r)' = [Places(r) EXCEPT ![t] = PlaceAt(d, x, y)]
         ELSE Places(r)' = Places(r)
  <2>1. PICK n \in 1 .. Len(c) : n = d  BY <1>2
  <2>2. OnlyAt(n, t, x, y)  BY <1>1, <1>10, <2>1 DEF OnlyAt, d
  <2>3. Moved(n, t, x, y, r)  BY ONLY <1>1, <1>3, <1>9, <2>1, <2>2, t \in Tests, Moves
  <2> QED BY <1>1, <2>1, <2>3 DEF Moved, d
<1>13. CASE r = Innermost(t)
  <2>1. tearDowns'[r] = tearDowns[r] + 1  BY <1>5, <1>13
  <2> QED BY <1>2, <1>6, <1>11, <1>12, <1>13, <2>1 DEF Rule!TearDown, Places, MembersOf
<1>14. CASE r # Innermost(t)
  <2>1. tearDowns'[r] = tearDowns[r]  BY <1>5, <1>14
  <2> QED BY <1>2, <1>6, <1>12, <1>14, <2>1, StuttersIf
<1> QED BY <1>13, <1>14


--------------------------------------------------------------------------------
(* Steps of one test *)

\* A rule that is left alone stays as it is.
LEMMA RuleKept ==
  ASSUME NEW r, RuleInv(r), RuleStutters(r)
  PROVE  RuleInv(r)'
<1>1. /\ MembersOf(r)' = MembersOf(r) /\ setupCounter'[r] = setupCounter[r]
      /\ teardownCounter'[r] = teardownCounter[r] /\ Places(r)' = Places(r)
      /\ setUps'[r] = setUps[r] /\ tearDowns'[r] = tearDowns[r]
  BY DEF RuleStutters, Rule!ruleVars, Places
<1> QED BY <1>1 DEF RuleInv

\* Every step of the protocol leaves it so.
LEMMA RuleStepped ==
  ASSUME NEW r, RuleInv(r), NEW t \in Tests,
         Rule(r)!Enter(t) \/ Rule(r)!SetUp(t) \/ Rule(r)!Leave(t) \/ Rule(r)!TearDown(t)
  PROVE  RuleInv(r)'
<1>0. RuleOK(MembersOf(r), setupCounter[r], teardownCounter[r], Places(r), setUps[r], tearDowns[r])
  BY DEF RuleInv
<1>1. CASE Rule(r)!Enter(t)
  <2>1. /\ t \in MembersOf(r) /\ Places(r)[t] = "out"
        /\ Places(r)' = [Places(r) EXCEPT ![t] = IF setupCounter[r] = 0 THEN "settingUp" ELSE "in"]
    BY <1>1 DEF Rule!Enter, Places
  <2>2. /\ MembersOf(r)' = MembersOf(r) /\ setupCounter'[r] = setupCounter[r] + 1
        /\ teardownCounter'[r] = teardownCounter[r] /\ setUps'[r] = setUps[r] /\ tearDowns'[r] = tearDowns[r]
    BY <1>1 DEF Rule!Enter
  <2>3. RuleOK(MembersOf(r), setupCounter[r] + 1, teardownCounter[r], Places(r)', setUps[r], tearDowns[r])
    BY <1>0, <2>1, RuleEntered
  <2> QED BY <2>2, <2>3 DEF RuleInv
<1>2. CASE Rule(r)!SetUp(t)
  <2>1. Places(r)[t] = "settingUp" /\ Places(r)' = [Places(r) EXCEPT ![t] = "in"]
    BY <1>2 DEF Rule!SetUp, Places
  <2>2. /\ MembersOf(r)' = MembersOf(r) /\ setupCounter'[r] = setupCounter[r] /\ setUps'[r] = setUps[r] + 1
        /\ teardownCounter'[r] = teardownCounter[r] /\ tearDowns'[r] = tearDowns[r]
    BY <1>2 DEF Rule!SetUp
  <2>3. RuleOK(MembersOf(r), setupCounter[r], teardownCounter[r], Places(r)', setUps[r] + 1, tearDowns[r])
    BY <1>0, <2>1, RuleSetUp
  <2> QED BY <2>2, <2>3 DEF RuleInv
<1>3. CASE Rule(r)!Leave(t)
  <2>1. /\ MembersOf(r)' = MembersOf(r) /\ setupCounter'[r] = setupCounter[r] /\ setUps'[r] = setUps[r]
        /\ teardownCounter'[r] = teardownCounter[r] - 1 /\ tearDowns'[r] = tearDowns[r]
    BY <1>3 DEF Rule!Leave
  <2>2. /\ Places(r)[t] = "in"
        /\ Places(r)' = [Places(r) EXCEPT ![t] = IF teardownCounter[r] - 1 = 0 THEN "tearingDown" ELSE "gone"]
    BY <1>3 DEF Rule!Leave, Places
  <2>3. RuleOK(MembersOf(r), setupCounter[r], teardownCounter[r] - 1, Places(r)', setUps[r], tearDowns[r])
    BY <1>0, <2>2, RuleLeft
  <2> QED BY <2>1, <2>3 DEF RuleInv
<1>4. CASE Rule(r)!TearDown(t)
  <2>1. Places(r)[t] = "tearingDown" /\ Places(r)' = [Places(r) EXCEPT ![t] = "gone"]
    BY <1>4 DEF Rule!TearDown, Places
  <2>2. /\ MembersOf(r)' = MembersOf(r) /\ setupCounter'[r] = setupCounter[r] /\ setUps'[r] = setUps[r]
        /\ teardownCounter'[r] = teardownCounter[r] /\ tearDowns'[r] = tearDowns[r] + 1
    BY <1>4 DEF Rule!TearDown
  <2>3. RuleOK(MembersOf(r), setupCounter[r], teardownCounter[r], Places(r)', setUps[r], tearDowns[r] + 1)
    BY <1>0, <2>1, RuleTornDown
  <2> QED BY <2>2, <2>3 DEF RuleInv
<1> QED BY <1>1, <1>2, <1>3, <1>4

\* The counters are numbers.
CountersAreNumbers ==
  /\ setupCounter \in [Rules -> Int] /\ teardownCounter \in [Rules -> Int]
  /\ setUps \in [Rules -> Int] /\ tearDowns \in [Rules -> Int]

\* A step of one test that changes nothing but its position and depth leaves the others alone.
LEMMA OneTestSteps ==
  ASSUME Inv, NEW t \in Tests, pc[t] \notin {"idle", "done"}, NEW x \in Positions, NEW y \in Nat, StepsTo(t, x, y),
         UNCHANGED <<classVars, builders, chosen, threw>>, CountersAreNumbers', TestOK(t)'
  PROVE  TypesInv' /\ SelectionInv' /\ TestsInv'
<1>1. TypesInv /\ SelectionInv /\ TestsInv  BY DEF Inv
<1>2. t \in active /\ phase = "running"
  <2>1. t \in active  BY <1>1 DEF TestsInv, TestOK
  <2> QED BY <1>1, <2>1 DEF SelectionInv, TypesInv
<1>3. UNCHANGED <<ignored, phase, filterCalls, children, active, index, builders, chosen, threw>>  BY DEF classVars
<1>4. TypesInv'  BY <1>1, <1>3 DEF TypesInv, CountersAreNumbers, StepsTo
<1>5. SelectionInv'  BY <1>1, <1>2, <1>3 DEF SelectionInv, Selected
<1>6. ASSUME NEW s \in Tests, s # t PROVE TestOK(s)'
  <2>1. pc'[s] = pc[s] /\ depth'[s] = depth[s] /\ chain' = chain  BY <1>1, <1>6 DEF StepsTo, TypesInv
  <2>2. TestOK(s)  BY <1>1 DEF TestsInv
  <2> QED BY <1>3, <2>1, <2>2 DEF TestOK
<1> QED BY <1>4, <1>5, <1>6 DEF TestsInv


\* One disjunct of RunTest at a time: what it does to the test, and to the rules.
LEMMA StartKeeps ==
  ASSUME Inv, NEW t \in Tests, Start(t)
  PROVE  Inv' /\ \A r \in Rules : RuleStutters(r)
<1> DEFINE x == IF MethodOf(t) \in ignored THEN "done" ELSE "construct"
<1>1. TypesInv /\ TestOK(t) /\ pc[t] = "queued"  BY DEF Inv, TestsInv, Start
<1>2. chosen[t] = <<>> /\ chain[t] = <<>> /\ depth[t] = 0  BY <1>1 DEF TestOK, NotConstructed
<1>3. /\ pc' = [pc EXCEPT ![t] = x] /\ depth' = depth /\ chain' = chain
      /\ UNCHANGED <<classVars, ruleState, builders, chosen, threw>>
  BY DEF Start
<1>4. StepsTo(t, x, 0) /\ x \in Positions /\ CountersAreNumbers'
  BY <1>1, <1>2, <1>3 DEF StepsTo, TypesInv, Positions, NotConstructed, CountersAreNumbers, ruleState
<1>5. TestOK(t)'
  <2>1. pc'[t] = x  BY <1>1, <1>3 DEF TypesInv
  <2> QED BY <1>1, <1>2, <1>3, <2>1 DEF TestOK, NotConstructed, classVars
<1>6. \A i \in 1 .. Len(chain[t]) : PlaceAt(i, x, depth[t]) = PlaceAt(i, pc[t], depth[t])  BY <1>2
<1>7. ASSUME NEW r \in Rules PROVE RuleStutters(r)
  <2>1. Places(r)' = Places(r)
    <3> HIDE DEF x
    <3> QED BY <1>1, <1>3, <1>6, Stays
  <2> QED BY <1>3, <2>1, StuttersIf DEF classVars, ruleState
<1>8. RulesInv'  BY <1>7, RuleKept DEF Inv, RulesInv
<1>9. TypesInv' /\ SelectionInv' /\ TestsInv'
  <2> HIDE DEF x
  <2> QED BY <1>1, <1>3, <1>4, <1>5, OneTestSteps
<1> QED BY <1>7, <1>8, <1>9 DEF Inv, ByMethod

LEMMA BodyKeeps ==
  ASSUME Inv, NEW t \in Tests, Body(t)
  PROVE  Inv' /\ \A r \in Rules : RuleStutters(r)
<1>1. TypesInv /\ TestOK(t) /\ pc[t] = "body"  BY DEF Inv, TestsInv, Body
<1>2. depth[t] \in Nat /\ Len(chain[t]) \in Nat  BY <1>1 DEF TypesInv
<1>3. /\ pc' = [pc EXCEPT ![t] = "leave"] /\ depth' = depth /\ chain' = chain
      /\ UNCHANGED <<classVars, ruleState, builders, chosen, threw>>
  BY DEF Body
<1>4. StepsTo(t, "leave", depth[t]) /\ "leave" \in Positions /\ CountersAreNumbers'
  BY <1>1, <1>2, <1>3 DEF StepsTo, TypesInv, Positions, CountersAreNumbers, ruleState
<1>5. TestOK(t)'
  <2>1. pc'[t] = "leave"  BY <1>1, <1>3 DEF TypesInv
  <2> QED BY <1>1, <1>2, <1>3, <2>1 DEF TestOK, NotConstructed, classVars
<1>6. \A i \in 1 .. Len(chain[t]) : PlaceAt(i, "leave", depth[t]) = PlaceAt(i, pc[t], depth[t])
  BY <1>1, <1>2 DEF PlaceAt
<1>7. ASSUME NEW r \in Rules PROVE RuleStutters(r)
  <2>1. Places(r)' = Places(r)  BY <1>1, <1>3, <1>6, Stays
  <2> QED BY <1>3, <2>1, StuttersIf DEF classVars, ruleState
<1>8. RulesInv'  BY <1>7, RuleKept DEF Inv, RulesInv
<1>9. TypesInv' /\ SelectionInv' /\ TestsInv'  BY <1>1, <1>2, <1>3, <1>4, <1>5, OneTestSteps
<1> QED BY <1>7, <1>8, <1>9 DEF Inv, ByMethod

LEMMA EnterKeeps ==
  ASSUME Inv, NEW t \in Tests, Enter(t)
  PROVE  Inv'
<1> DEFINE x == pc'[t]
           y == depth'[t]
<1>1. TypesInv /\ TestOK(t) /\ pc[t] = "enter"  BY DEF Inv, TestsInv, Enter
<1>2. depth[t] \in Nat /\ Len(chain[t]) \in Nat /\ depth[t] < Len(chain[t])  BY <1>1 DEF TypesInv, TestOK
<1>3. chain' = chain /\ UNCHANGED <<classVars, builders, chosen, threw>>  BY DEF Enter
<1>4. \/ x = "setUp" /\ y = depth[t]
      \/ y = depth[t] + 1 /\ x = IF y = Len(chain[t]) THEN "body" ELSE "enter"
  BY <1>1 DEF Enter, TypesInv
<1>5. StepsTo(t, x, y)  BY <1>1 DEF Enter, TypesInv, StepsTo
<1>6. CountersAreNumbers'
  <2>1. NextRule(t) \in Rules  BY <1>1, <1>2 DEF TestOK, IsChain, NextRule
  <2>2. setupCounter' = [setupCounter EXCEPT ![NextRule(t)] = setupCounter[NextRule(t)] + 1]  BY DEF Enter
  <2>3. teardownCounter' = teardownCounter /\ setUps' = setUps /\ tearDowns' = tearDowns  BY DEF Enter
  <2>4. CountersAreNumbers  BY <1>1 DEF TypesInv, CountersAreNumbers
  <2>5. setupCounter[NextRule(t)] + 1 \in Int  BY <2>1, <2>4 DEF CountersAreNumbers
  <2> QED BY <2>2, <2>3, <2>4, <2>5 DEF CountersAreNumbers
<1>7. x \in Positions /\ y \in Nat  BY <1>2, <1>4 DEF Positions
<1>8. TestOK(t)'  BY <1>1, <1>2, <1>3, <1>4 DEF TestOK, NotConstructed, classVars
<1> HIDE DEF x, y
<1>9. TypesInv' /\ SelectionInv' /\ TestsInv'  BY <1>1, <1>3, <1>5, <1>6, <1>7, <1>8, OneTestSteps
<1>10. ASSUME NEW r \in Rules PROVE RuleInv(r)'
  <2>1. RuleInv(r)  BY DEF Inv, RulesInv
  <2>2. IF r = NextRule(t) THEN Rule(r)!Enter(t) ELSE RuleStutters(r)  BY EnterRule
  <2> QED BY <2>1, <2>2, RuleKept, RuleStepped
<1> QED BY <1>9, <1>10 DEF Inv, ByMethod, RulesInv

LEMMA SetUpKeeps ==
  ASSUME Inv, NEW t \in Tests, SetUp(t)
  PROVE  Inv'
<1> DEFINE x == pc'[t]
           y == depth'[t]
<1>1. TypesInv /\ TestOK(t) /\ pc[t] = "setUp"  BY DEF Inv, TestsInv, SetUp
<1>2. depth[t] \in Nat /\ Len(chain[t]) \in Nat /\ depth[t] < Len(chain[t])  BY <1>1 DEF TypesInv, TestOK
<1>3. chain' = chain /\ UNCHANGED <<classVars, builders, chosen, threw>>  BY DEF SetUp
<1>4. y = depth[t] + 1 /\ x = IF y = Len(chain[t]) THEN "body" ELSE "enter"  BY <1>1 DEF SetUp, TypesInv
<1>5. StepsTo(t, x, y)  BY <1>1 DEF SetUp, TypesInv, StepsTo
<1>6. CountersAreNumbers'
  <2>1. NextRule(t) \in Rules  BY <1>1, <1>2 DEF TestOK, IsChain, NextRule
  <2>2. setUps' = [setUps EXCEPT ![NextRule(t)] = setUps[NextRule(t)] + 1]  BY DEF SetUp
  <2>3. setupCounter' = setupCounter /\ teardownCounter' = teardownCounter /\ tearDowns' = tearDowns  BY DEF SetUp
  <2>4. CountersAreNumbers  BY <1>1 DEF TypesInv, CountersAreNumbers
  <2>5. setUps[NextRule(t)] + 1 \in Int  BY <2>1, <2>4 DEF CountersAreNumbers
  <2> QED BY <2>2, <2>3, <2>4, <2>5 DEF CountersAreNumbers
<1>7. x \in Positions /\ y \in Nat  BY <1>2, <1>4 DEF Positions
<1>8. TestOK(t)'  BY <1>1, <1>2, <1>3, <1>4 DEF TestOK, NotConstructed, classVars
<1> HIDE DEF x, y
<1>9. TypesInv' /\ SelectionInv' /\ TestsInv'  BY <1>1, <1>3, <1>5, <1>6, <1>7, <1>8, OneTestSteps
<1>10. ASSUME NEW r \in Rules PROVE RuleInv(r)'
  <2>1. RuleInv(r)  BY DEF Inv, RulesInv
  <2>2. IF r = NextRule(t) THEN Rule(r)!SetUp(t) ELSE RuleStutters(r)  BY SetUpRule
  <2> QED BY <2>1, <2>2, RuleKept, RuleStepped
<1> QED BY <1>9, <1>10 DEF Inv, ByMethod, RulesInv

LEMMA LeaveKeeps ==
  ASSUME Inv, NEW t \in Tests, Leave(t)
  PROVE  Inv'
<1> DEFINE x == pc'[t]
           y == depth'[t]
<1>1. TypesInv /\ TestOK(t) /\ pc[t] = "leave"  BY DEF Inv, TestsInv, Leave
<1>2. depth[t] \in Nat /\ Len(chain[t]) \in Nat /\ depth[t] > 0 /\ depth[t] <= Len(chain[t])
  BY <1>1 DEF TypesInv, TestOK
<1>3. chain' = chain /\ UNCHANGED <<classVars, builders, chosen, threw>>  BY DEF Leave
<1>4. \/ x = "tearDown" /\ y = depth[t]
      \/ y = depth[t] - 1 /\ x = IF y = 0 THEN "done" ELSE "leave"
  BY <1>1 DEF Leave, Left, TypesInv
<1>5. StepsTo(t, x, y)  BY <1>1 DEF Leave, TypesInv, StepsTo
<1>6. CountersAreNumbers'
  <2>1. Innermost(t) \in Rules  BY <1>1, <1>2 DEF TestOK, IsChain, Innermost
  <2>2. teardownCounter' = [teardownCounter EXCEPT ![Innermost(t)] = teardownCounter[Innermost(t)] - 1]  BY DEF Leave
  <2>3. setupCounter' = setupCounter /\ setUps' = setUps /\ tearDowns' = tearDowns  BY DEF Leave
  <2>4. CountersAreNumbers  BY <1>1 DEF TypesInv, CountersAreNumbers
  <2>5. teardownCounter[Innermost(t)] - 1 \in Int  BY <2>1, <2>4 DEF CountersAreNumbers
  <2> QED BY <2>2, <2>3, <2>4, <2>5 DEF CountersAreNumbers
<1>7. x \in Positions /\ y \in Nat  BY <1>2, <1>4 DEF Positions
<1>8. TestOK(t)'  BY <1>1, <1>2, <1>3, <1>4 DEF TestOK, NotConstructed, classVars
<1> HIDE DEF x, y
<1>9. TypesInv' /\ SelectionInv' /\ TestsInv'  BY <1>1, <1>3, <1>5, <1>6, <1>7, <1>8, OneTestSteps
<1>10. ASSUME NEW r \in Rules PROVE RuleInv(r)'
  <2>1. RuleInv(r)  BY DEF Inv, RulesInv
  <2>2. IF r = Innermost(t) THEN Rule(r)!Leave(t) ELSE RuleStutters(r)  BY LeaveRule
  <2> QED BY <2>1, <2>2, RuleKept, RuleStepped
<1> QED BY <1>9, <1>10 DEF Inv, ByMethod, RulesInv

LEMMA TearDownKeeps ==
  ASSUME Inv, NEW t \in Tests, TearDown(t)
  PROVE  Inv'
<1> DEFINE x == pc'[t]
           y == depth'[t]
<1>1. TypesInv /\ TestOK(t) /\ pc[t] = "tearDown"  BY DEF Inv, TestsInv, TearDown
<1>2. depth[t] \in Nat /\ Len(chain[t]) \in Nat /\ depth[t] > 0 /\ depth[t] <= Len(chain[t])
  BY <1>1 DEF TypesInv, TestOK
<1>3. chain' = chain /\ UNCHANGED <<classVars, builders, chosen, threw>>  BY DEF TearDown
<1>4. y = depth[t] - 1 /\ x = IF y = 0 THEN "done" ELSE "leave"  BY <1>1 DEF TearDown, Left, TypesInv
<1>5. StepsTo(t, x, y)  BY <1>1 DEF TearDown, TypesInv, StepsTo
<1>6. CountersAreNumbers'
  <2>1. Innermost(t) \in Rules  BY <1>1, <1>2 DEF TestOK, IsChain, Innermost
  <2>2. tearDowns' = [tearDowns EXCEPT ![Innermost(t)] = tearDowns[Innermost(t)] + 1]  BY DEF TearDown
  <2>3. setupCounter' = setupCounter /\ teardownCounter' = teardownCounter /\ setUps' = setUps  BY DEF TearDown
  <2>4. CountersAreNumbers  BY <1>1 DEF TypesInv, CountersAreNumbers
  <2>5. tearDowns[Innermost(t)] + 1 \in Int  BY <2>1, <2>4 DEF CountersAreNumbers
  <2> QED BY <2>2, <2>3, <2>4, <2>5 DEF CountersAreNumbers
<1>7. x \in Positions /\ y \in Nat  BY <1>2, <1>4 DEF Positions
<1>8. TestOK(t)'  BY <1>1, <1>2, <1>3, <1>4 DEF TestOK, NotConstructed, classVars
<1> HIDE DEF x, y
<1>9. TypesInv' /\ SelectionInv' /\ TestsInv'  BY <1>1, <1>3, <1>5, <1>6, <1>7, <1>8, OneTestSteps
<1>10. ASSUME NEW r \in Rules PROVE RuleInv(r)'
  <2>1. RuleInv(r)  BY DEF Inv, RulesInv
  <2>2. IF r = Innermost(t) THEN Rule(r)!TearDown(t) ELSE RuleStutters(r)  BY TearDownRule
  <2> QED BY <2>1, <2>2, RuleKept, RuleStepped
<1> QED BY <1>9, <1>10 DEF Inv, ByMethod, RulesInv


\* The tests that run are as many as their methods, combination by combination.
LEMMA ActiveTests ==
  ASSUME NEW M \in SUBSET AllMethods, M # {}
  PROVE  /\ Cardinality(M) \in Nat \ {0}
         /\ Cardinality(TestsOf(AllCombos, M)) = NumCombos * Cardinality(M)
         /\ TestsOf(AllCombos, M) \in SUBSET Tests
<1>1. AllCombos \in SUBSET (0 .. NumCombos - 1) /\ M \in SUBSET (0 .. MethodCount - 1)  BY DEF AllCombos, AllMethods
<1>2. /\ Cardinality(M) \in Nat /\ IsFiniteSet(M)
      /\ Cardinality(TestsOf(AllCombos, M)) = Cardinality(AllCombos) * Cardinality(M)
  BY <1>1, CountPairs
<1>3. Cardinality(AllCombos) = NumCombos
  <2>1. 0 \in Int /\ NumCombos - 1 \in Int /\ NumCombos \in Nat \ {0}  BY Combos
  <2>2. Cardinality(AllCombos) = IF 0 > NumCombos - 1 THEN 0 ELSE (NumCombos - 1) - 0 + 1
    BY <2>1, FS_Interval DEF AllCombos
  <2> QED BY <2>1, <2>2
<1>4. Cardinality(M) # 0  BY <1>2, FS_EmptySet
<1> QED BY <1>2, <1>3, <1>4 DEF TestsOf

\* A test without a chain is in no rule, and neither is one about to enter its first.
LEMMA OutOfAll ==
  ASSUME NEW t, NEW n, NEW c, IsChain(c, t, n), NEW p, c = <<>> \/ p = "enter", NEW r
  PROVE  At(c, p, 0, r) = "out"
<1>1. CASE \A i \in 1 .. Len(c) : c[i] # r  BY <1>1, AtOther
<1>2. ASSUME NEW i \in 1 .. Len(c), c[i] = r PROVE At(c, p, 0, r) = "out"
  <2>1. p = "enter" /\ i \in Nat /\ i > 0  BY <1>2 DEF IsChain
  <2>2. At(c, p, 0, r) = PlaceAt(i, p, 0)
    <3>1. 0 \in Nat  OBVIOUS
    <3> QED BY <1>2, <3>1, AtRule
  <2> QED BY <2>1, <2>2 DEF PlaceAt
<1> QED BY <1>1, <1>2

\* The constructor chooses what the test's name lists, from a builder nobody else uses.
LEMMA ConstructKeeps ==
  ASSUME Inv, NEW t \in Tests, NEW calls \in 0 .. Len(Sizes), Construct(t, calls)
  PROVE  Inv' /\ \A r \in Rules : RuleStutters(r)
<1> DEFINE idx == index[t]
           got == ChooseFrom(idx, 0, calls)
           inners == AddRules(<<>>, 0, got)
<1>1. TypesInv /\ SelectionInv /\ TestsInv /\ TestOK(t) /\ pc[t] = "construct"  BY DEF Inv, TestsInv, Construct
<1>2. /\ chosen[t] = <<>> /\ chain[t] = <<>> /\ depth[t] = 0 /\ t \in active /\ builders[idx] = Fresh
      /\ phase = "running"
  <2>1. chosen[t] = <<>> /\ chain[t] = <<>> /\ depth[t] = 0 /\ t \in active /\ builders[idx] = Fresh
    BY <1>1 DEF TestOK, NotConstructed
  <2> QED BY <1>1, <2>1 DEF SelectionInv, TypesInv
<1>3. PICK M \in SUBSET AllMethods : Selected(M)  BY <1>1 DEF SelectionInv
<1>4. PICK k \in Nat \ {0} : k = Cardinality(M) /\ Cardinality(active) = NumCombos * k /\ idx \div k = ComboOf(t) /\ idx \in Tests
  BY <1>2, <1>3, ActiveTests DEF Selected, Numbered
<1>5. idx \in Nat /\ Len(Sizes) \in Nat /\ calls \in Nat  BY <1>4, TestNumbers, RulesAre
<1>6. Chosen(t, got) /\ Len(got) = calls
  <2> HIDE DEF idx
  <2> QED BY <1>4, <1>5, ChoosesName
<1>7. IsChain(inners, t, calls)
  <2> HIDE DEF got
  <2> QED BY <1>6, ChainOfCalls
<1>8. builders[idx].curIdx = -1 /\ builders[idx].inners = <<>> /\ builders[idx].curIdx + 1 = 0  BY <1>2 DEF Fresh
<1>9. /\ threw' = threw \cup (IF calls < Len(Sizes) THEN {t} ELSE {})
      /\ chosen' = [chosen EXCEPT ![t] = got]
      /\ builders' = [builders EXCEPT ![idx] = [curIdx |-> builders[idx].curIdx + calls, inners |-> inners]]
      /\ chain' = [chain EXCEPT ![t] = inners]
      /\ pc' = [pc EXCEPT ![t] = IF inners = <<>> THEN "done" ELSE "enter"]
      /\ UNCHANGED <<classVars, ruleState, depth>>
  <2> HIDE DEF got, inners
  <2>1. threw' = threw \cup (IF calls < Len(Sizes) THEN {t} ELSE {}) /\ UNCHANGED <<classVars, ruleState, depth>>
    BY DEF Construct
  <2>2. \E g \in {ChooseFrom(idx, builders[idx].curIdx + 1, calls)} :
           /\ chosen' = [chosen EXCEPT ![t] = g]
           /\ builders' = [builders EXCEPT ![idx] =
                [curIdx |-> builders[idx].curIdx + (IF Len(g) = calls THEN calls ELSE Len(g) + 1),
                 inners |-> AddRules(builders[idx].inners, builders[idx].curIdx + 1, g)]]
           /\ chain' = [chain EXCEPT ![t] = AddRules(builders[idx].inners, builders[idx].curIdx + 1, g)]
           /\ pc' = [pc EXCEPT ![t] =
                IF AddRules(builders[idx].inners, builders[idx].curIdx + 1, g) = <<>> THEN "done" ELSE "enter"]
    BY DEF Construct
  <2>3. ChooseFrom(idx, builders[idx].curIdx + 1, calls) = got  BY <1>8 DEF got
  <2>4. AddRules(builders[idx].inners, builders[idx].curIdx + 1, got) = inners  BY <1>8 DEF inners
  <2>5. (IF Len(got) = calls THEN calls ELSE Len(got) + 1) = calls  BY <1>6
  <2> QED BY <2>1, <2>2, <2>3, <2>4, <2>5
<1> HIDE DEF got, inners, idx
<1>10. UNCHANGED <<ignored, phase, filterCalls, children, active, index, setupCounter, teardownCounter, setUps, tearDowns, depth>>
  BY <1>9 DEF classVars, ruleState
<1>11. inners \in Seq(Rules) /\ got \in Seq(Nat)  BY <1>6, <1>7 DEF IsChain, Chosen
<1>12. TypesInv'
  <2>1. [curIdx |-> builders[idx].curIdx + calls, inners |-> inners] \in [curIdx : Int, inners : Seq(Rules)]
    BY <1>5, <1>8, <1>11
  <2>2. builders' \in [Tests -> [curIdx : Int, inners : Seq(Rules)]]  BY <1>1, <1>9, <2>1 DEF TypesInv
  <2>3. chain' \in [Tests -> Seq(Rules)] /\ chosen' \in [Tests -> Seq(Nat)]  BY <1>1, <1>9, <1>11 DEF TypesInv
  <2>4. pc' \in [Tests -> Positions]
    <3>1. (IF inners = <<>> THEN "done" ELSE "enter") \in Positions  BY DEF Positions
    <3> QED BY <1>1, <1>9, <3>1 DEF TypesInv
  <2> QED BY <1>1, <1>10, <2>2, <2>3, <2>4 DEF TypesInv
<1>13. SelectionInv'  BY <1>1, <1>2, <1>10 DEF SelectionInv, Selected
<1>14. /\ chosen'[t] = got /\ chain'[t] = inners /\ pc'[t] = (IF inners = <<>> THEN "done" ELSE "enter")
       /\ \A s \in Tests : s # t => chosen'[s] = chosen[s] /\ chain'[s] = chain[s] /\ pc'[s] = pc[s]
  BY <1>1, <1>9 DEF TypesInv
<1>15. TestOK(t)'
  <2>1. Chosen(t, chosen'[t]) /\ IsChain(chain'[t], t, Len(chosen'[t])) /\ depth'[t] = 0
    BY <1>2, <1>6, <1>7, <1>10, <1>14
  <2>2. Len(chain'[t]) \in Nat /\ (chain'[t] # <<>> => Len(chain'[t]) > 0)  BY <1>11, <1>14
  <2>3. t \in threw' \/ Len(chosen'[t]) = Len(Sizes)  BY <1>5, <1>6, <1>9, <1>14
  <2> QED BY <1>2, <1>10, <1>14, <2>1, <2>2, <2>3 DEF TestOK, NotConstructed
<1>16. ASSUME NEW s \in Tests, s # t PROVE TestOK(s)'
  <2>1. TestOK(s)  BY <1>1 DEF TestsInv
  <2>2. s \in active => builders'[index[s]] = builders[index[s]]
    <3> SUFFICES ASSUME s \in active PROVE builders'[index[s]] = builders[index[s]]  OBVIOUS
    <3>1. index[s] \in Tests /\ index[s] # idx  BY <1>2, <1>3, <1>16 DEF Selected, Numbered, idx
    <3> QED BY <1>1, <1>9, <3>1 DEF TypesInv
  <2>3. s \in threw => s \in threw'  BY <1>9
  <2> QED BY <1>10, <1>14, <1>16, <2>1, <2>2, <2>3 DEF TestOK
<1>17. TestsInv'  BY <1>15, <1>16 DEF TestsInv
<1>18. ASSUME NEW r \in Rules PROVE RuleStutters(r)
  <2>1. At(chain[t], pc[t], 0, r) = "out"
    <3>1. IsChain(chain[t], t, Len(chosen[t]))  BY <1>1 DEF TestOK
    <3> QED BY <1>2, <3>1, OutOfAll
  <2>2. At(inners, pc'[t], 0, r) = "out"  BY <1>7, <1>14, OutOfAll
  <2>3. Within(t, r)' = Within(t, r)  BY <1>2, <1>10, <1>14, <2>1, <2>2, WithinIsAt
  <2>4. \A s \in Tests : s # t => Within(s, r)' = Within(s, r)  BY <1>10, <1>14, WithinIsAt
  <2>5. Places(r)' = Places(r)  BY <2>3, <2>4 DEF Places
  <2> QED BY <1>10, <2>5, StuttersIf
<1>19. RulesInv'  BY <1>18, RuleKept DEF Inv, RulesInv
<1> QED BY <1>12, <1>13, <1>17, <1>18, <1>19 DEF Inv, ByMethod


--------------------------------------------------------------------------------
(* Steps of the class *)

\* Before the tests are submitted, none is in a rule.
LEMMA NobodyIn ==
  ASSUME Inv, phase = "evaluated"
  PROVE  \A t \in Tests : /\ pc[t] = "idle" /\ chosen[t] = <<>> /\ chain[t] = <<>> /\ depth[t] = 0
                          /\ builders[t] = Fresh /\ \A p, r : At(chain[t], p, depth[t], r) = "out"
<1> SUFFICES ASSUME NEW t \in Tests
             PROVE  /\ pc[t] = "idle" /\ chosen[t] = <<>> /\ chain[t] = <<>> /\ depth[t] = 0
                    /\ builders[t] = Fresh /\ \A p, r : At(chain[t], p, depth[t], r) = "out"
  OBVIOUS
<1>1. pc[t] = "idle" /\ builders[t] = Fresh  BY DEF Inv, SelectionInv
<1>2. TestOK(t)  BY DEF Inv, TestsInv
<1>3. chosen[t] = <<>> /\ chain[t] = <<>> /\ depth[t] = 0  BY <1>1, <1>2 DEF TestOK, NotConstructed
<1>4. ASSUME NEW p, NEW r PROVE At(chain[t], p, depth[t], r) = "out"
  <2>1. IsChain(chain[t], t, Len(chosen[t]))  BY <1>2 DEF TestOK
  <2> QED BY <1>3, <2>1, OutOfAll
<1> QED BY <1>1, <1>3, <1>4

LEMMA RunChildrenKeeps ==
  ASSUME Inv, RunChildren
  PROVE  Inv' /\ \A r \in Rules : RuleStutters(r)
<1>1. TypesInv /\ SelectionInv /\ phase = "evaluated"  BY DEF Inv, RunChildren
<1>2. /\ UNCHANGED <<ignored, filterCalls, children, active, index, builders, depth, chain, chosen, threw>>
      /\ UNCHANGED <<setupCounter, teardownCounter, setUps, tearDowns>>
      /\ phase' = "running" /\ pc' = [t \in Tests |-> IF t \in children THEN "queued" ELSE "idle"]
  BY DEF RunChildren, ruleState
<1>3. TypesInv'
  <2>1. pc' \in [Tests -> Positions]  BY <1>2 DEF Positions, NotConstructed
  <2> QED BY <1>1, <1>2, <2>1 DEF TypesInv
<1>4. SelectionInv'  BY <1>1, <1>2 DEF SelectionInv, Selected
<1>5. PICK M \in SUBSET AllMethods : Selected(M)  BY <1>1 DEF SelectionInv
<1>6. ASSUME NEW t \in Tests PROVE TestOK(t)'
  <2>1. pc'[t] = (IF t \in active THEN "queued" ELSE "idle")  BY <1>2, <1>5 DEF Selected
  <2>2. chosen[t] = <<>> /\ chain[t] = <<>> /\ depth[t] = 0 /\ pc[t] = "idle"  BY <1>1, NobodyIn
  <2>3. t \in active => builders[index[t]] = Fresh  BY <1>1, <1>5, NobodyIn DEF Selected, Numbered
  <2>4. TestOK(t)  BY DEF Inv, TestsInv
  <2> QED BY <1>2, <2>1, <2>2, <2>3, <2>4 DEF TestOK, NotConstructed
<1>7. ASSUME NEW r \in Rules PROVE RuleStutters(r)
  <2>1. \A t \in Tests : Within(t, r)' = Within(t, r)  BY <1>1, <1>2, NobodyIn, WithinIsAt
  <2>2. Places(r)' = Places(r)  BY <2>1 DEF Places
  <2> QED BY <1>2, <2>2, StuttersIf
<1>8. RulesInv'  BY <1>7, RuleKept DEF Inv, RulesInv
<1> QED BY <1>3, <1>4, <1>6, <1>7, <1>8 DEF Inv, ByMethod, TestsInv

LEMMA FinishedKeeps ==
  ASSUME Inv, Finished
  PROVE  Inv' /\ \A r \in Rules : RuleStutters(r)
<1>1. /\ UNCHANGED <<ignored, filterCalls, children, active, index, builders, pc, depth, chain, chosen, threw>>
      /\ UNCHANGED <<setupCounter, teardownCounter, setUps, tearDowns>>
      /\ phase' = "finished" /\ \A t \in children : pc[t] = "done"
  BY DEF Finished, ruleState, testVars
<1>2. TypesInv' /\ SelectionInv'
  <2>1. active = children  BY DEF Inv, SelectionInv, Selected
  <2> QED BY <1>1, <2>1 DEF Inv, TypesInv, SelectionInv, Selected
<1>3. TestsInv'  BY <1>1 DEF Inv, TestsInv, TestOK
<1>4. ASSUME NEW r \in Rules PROVE RuleStutters(r)
  <2>1. \A t \in Tests : Within(t, r)' = Within(t, r)  BY <1>1, WithinIsAt
  <2>2. Places(r)' = Places(r)  BY <2>1 DEF Places
  <2> QED BY <1>1, <2>2, StuttersIf
<1>5. RulesInv'  BY <1>4, RuleKept DEF Inv, RulesInv
<1> QED BY <1>2, <1>3, <1>4, <1>5 DEF Inv, ByMethod

\* The presets are the numbers of the tests that will run in each rule.
LEMMA PresetsCount ==
  ASSUME NEW M \in SUBSET AllMethods, NEW k, k = Cardinality(M), NEW r \in Rules
  PROVE  /\ TeardownPreset(k) \in [Rules -> Int]
         /\ TeardownPreset(k)[r] = Cardinality({t \in TestsOf(AllCombos, M) : NameOf(t)[r[1]] = r[2]})
<1>1. M \in SUBSET (0 .. MethodCount - 1)  BY DEF AllMethods
<1>2. k \in Nat /\ NumCombos \in Nat  BY <1>1, CountPairs, Combos DEF AllCombos
<1>3. r[1] \in Levels /\ r[2] \in Candidates(r[1])  BY RulesAre DEF Levels
<1>4. TeardownPreset(k)[r] = (NumCombos * k) \div Sizes[r[1]]  BY DEF TeardownPreset
<1>5. Cardinality({t \in TestsOf(AllCombos, M) : NameOf(t)[r[1]] = r[2]}) = (NumCombos * k) \div Sizes[r[1]]
  BY <1>1, <1>3, CountMembers DEF AllCombos
<1>6. TeardownPreset(k) \in [Rules -> Int]
  <2> SUFFICES ASSUME NEW q \in Rules PROVE (NumCombos * k) \div Sizes[q[1]] \in Int  BY DEF TeardownPreset
  <2>1. q[1] \in Levels  BY RulesAre DEF Levels
  <2>2. Sizes[q[1]] \in Nat \ {0}  BY <2>1, SizesSplit
  <2>3. NumCombos * k \in Int  BY <1>2
  <2> QED BY <2>2, <2>3, DivMod
<1> QED BY <1>4, <1>5, <1>6

\* The sets a rule's protocol counts are finite, and of the same size, in the protocol's module too.
LEMMA SameCount ==
  ASSUME NEW r, NEW S
  PROVE  (Rule(r)!IsFiniteSet(S) <=> IsFiniteSet(S)) /\ Rule(r)!Cardinality(S) = Cardinality(S)
<1>1. Rule(r)!IsFiniteSet(S) <=> IsFiniteSet(S)  BY DEF Rule!IsFiniteSet, IsFiniteSet
<1>2. Rule(r)!Cardinality(S) = Cardinality(S)  BY <1>1 DEF Rule!Cardinality, Cardinality
<1> QED BY <1>1, <1>2

\* Before any test runs, a filter gives every rule its members.
LEMMA FilterKeeps ==
  ASSUME Inv, NEW kept \in Filters, Filter(kept)
  PROVE  Inv' /\ \A r \in Rules : Rule(r)!Assign
<1>1. ByMethod /\ TypesInv /\ SelectionInv /\ phase = "evaluated"  BY DEF Inv, Filter
<1>2. /\ UNCHANGED <<ignored, phase, setupCounter, setUps, tearDowns, builders, pc, depth, chain, chosen, threw>>
      /\ filterCalls < MaxFilters /\ filterCalls' = filterCalls + 1 /\ children \cap kept # {}
      /\ children' = children \cap kept /\ active' = kept /\ index' = Reindex(kept)
      /\ teardownCounter' = TeardownPreset(Cardinality(kept) \div NumCombos)
  BY DEF Filter, testVars
<1>3. filterCalls = 0 /\ active = Tests /\ index = [t \in Tests |-> t] /\ children = Tests
  <2>1. filterCalls = 0  BY <1>1, <1>2, VTestRunnerAssumption DEF ByMethod, TypesInv
  <2> QED BY <1>1, <2>1 DEF SelectionInv, Selected
<1>4. PICK M \in SUBSET AllMethods : kept = TestsOf(AllCombos, M)  BY <1>1 DEF ByMethod
<1>5. M # {}  BY <1>2, <1>4 DEF TestsOf
<1> DEFINE k == Cardinality(M)
<1>6. k \in Nat \ {0} /\ Cardinality(kept) = NumCombos * k /\ kept \in SUBSET Tests  BY <1>4, <1>5, ActiveTests
<1>7. Cardinality(kept) \div NumCombos = k
  <2> HIDE DEF k
  <2>1. PICK a \in Int : a = NumCombos * k  BY <1>6, Combos
  <2>2. a = NumCombos * k + 0 /\ 0 \in 0 .. NumCombos - 1  BY <1>6, <2>1, Combos
  <2>3. a \div NumCombos = k  BY <1>6, <2>2, Combos, DivUnique
  <2> QED BY <1>6, <2>1, <2>3
<1>8. Numbered(M, index')
  <2>1. Numbered(M, Reindex(TestsOf(AllCombos, M)))  BY <1>3, FilteredNumbers
  <2> QED BY <1>2, <1>4, <2>1
<1>9. children' = kept  BY <1>2, <1>3, <1>6
<1>10. SelectionInv'
  <2>1. Selected(M)'  BY <1>2, <1>4, <1>5, <1>8, <1>9 DEF Selected
  <2>2. filterCalls' # 0  BY <1>2, <1>3
  <2> QED BY <1>1, <1>2, <2>1, <2>2 DEF SelectionInv
<1>11. TypesInv'
  <2>1. teardownCounter' \in [Rules -> Int]
    <3>1. CASE Rules = {}  BY <1>2, <3>1 DEF TeardownPreset
    <3>2. CASE Rules # {}  BY <1>2, <1>7, <3>2, PresetsCount
    <3> QED BY <3>1, <3>2
  <2>2. filterCalls' \in Nat  BY <1>2, <1>3
  <2> QED BY <1>1, <1>2, <2>1, <2>2 DEF TypesInv
<1>12. ASSUME NEW t \in Tests PROVE TestOK(t)'
  <2>1. pc[t] = "idle" /\ chosen[t] = <<>> /\ chain[t] = <<>> /\ depth[t] = 0  BY <1>1, NobodyIn
  <2>2. t \in active' => builders[index'[t]] = Fresh
    <3> SUFFICES ASSUME t \in active' PROVE builders[index'[t]] = Fresh  OBVIOUS
    <3>1. index'[t] \in Tests  BY <1>2, <1>4, <1>8 DEF Numbered
    <3> QED BY <1>1, <3>1, NobodyIn
  <2>3. TestOK(t)  BY DEF Inv, TestsInv
  <2> QED BY <1>2, <2>1, <2>2, <2>3 DEF TestOK, NotConstructed
<1>13. ASSUME NEW r \in Rules
       PROVE  RuleInv(r)' /\ Rule(r)!Assign
  <2>1. \A t \in Tests : Within(t, r) = "out" /\ Within(t, r)' = "out"  BY <1>1, <1>2, NobodyIn, WithinIsAt
  <2>2. Places(r) = [t \in Tests |-> "out"] /\ Places(r)' = [t \in Tests |-> "out"]  BY <2>1 DEF Places
  <2>3. MembersOf(r)' = {t \in kept : NameOf(t)[r[1]] = r[2]}  BY <1>2 DEF MembersOf
  <2>4. MembersOf(r)' \in SUBSET Tests  BY <1>6, <2>3
  <2>5. teardownCounter'[r] = Cardinality(MembersOf(r)')  BY <1>2, <1>4, <1>7, <2>3, PresetsCount
  <2>6. setupCounter[r] = 0 /\ setUps[r] = 0 /\ tearDowns[r] = 0
    <3>1. RuleInv(r)  BY DEF Inv, RulesInv
    <3> QED BY <2>2, <3>1, RuleUntouched DEF RuleInv
  <2>7. RuleInv(r)'
    <3>1. RuleOK(MembersOf(r)', 0, Cardinality(MembersOf(r)'), Places(r)', 0, 0)  BY <2>2, <2>4, RuleAssigned
    <3> QED BY <1>2, <2>5, <2>6, <3>1 DEF RuleInv
  <2>8. Rule(r)!Assign
    <3>1. IsFiniteSet(MembersOf(r)')  BY <2>4, SomeTests
    <3>2. Rule(r)!IsFiniteSet(MembersOf(r)') /\ Rule(r)!Cardinality(MembersOf(r)') = Cardinality(MembersOf(r)')
      BY <3>1, SameCount
    <3> QED BY <1>2, <2>1, <2>2, <2>4, <2>5, <3>2 DEF Rule!Assign, Rule!TestLists, Places
  <2> QED BY <2>7, <2>8
<1> QED BY <1>1, <1>10, <1>11, <1>12, <1>13 DEF Inv, ByMethod, TestsInv, RulesInv

\* At the start.
LEMMA InitHolds ==
  ASSUME ByMethod, Init
  PROVE  Inv /\ \A r \in Rules : Rule(r)!Init
<1>1. TypesInv
  <2>1. TeardownPreset(MethodCount) \in [Rules -> Int]
    <3>1. CASE Rules = {}  BY <3>1 DEF TeardownPreset
    <3>2. CASE Rules # {}  BY <3>2, AllTests, PresetsCount
    <3> QED BY <3>1, <3>2
  <2>2. [curIdx |-> -1, inners |-> <<>>] \in [curIdx : Int, inners : Seq(Rules)]  OBVIOUS
  <2> QED BY <2>1, <2>2 DEF Init, TypesInv, Positions, NotConstructed
<1>2. SelectionInv
  <2>1. AllMethods # {}  BY Combos DEF AllMethods
  <2>2. Selected(AllMethods)  BY <2>1, AllTests, FirstNumbers DEF Init, Selected
  <2> QED BY <2>2 DEF Init, SelectionInv, Fresh
<1>3. ASSUME NEW t \in Tests PROVE TestOK(t) /\ \A r : Within(t, r) = "out"
  <2>1. pc[t] = "idle" /\ chosen[t] = <<>> /\ chain[t] = <<>> /\ depth[t] = 0 /\ builders[index[t]] = Fresh
    BY DEF Init, Fresh
  <2>2. Len(Sizes) \in Nat /\ SharedLevels \subseteq 1 .. Len(Sizes)  BY RulesAre
  <2>3. Chosen(t, <<>>) /\ IsChain(<<>>, t, 0)
    <3>1. \A l \in SharedLevels : ~(l <= 0)  BY <2>2
    <3>0. <<>> \in Seq(Rules) /\ <<>> \in Seq(Nat) /\ Len(<<>>) = 0  OBVIOUS
    <3>2. PICK e \in Seq(Rules) : e = <<>> /\ Len(e) = 0  BY <3>0, Zenon
    <3>3. PICK f \in Seq(Nat) : f = <<>> /\ Len(f) = 0  BY <3>0, Zenon
    <3>4. IsChain(e, t, 0)  BY <3>1, <3>2 DEF IsChain
    <3>5. Chosen(t, f)  BY <2>2, <3>3 DEF Chosen
    <3> QED BY <3>2, <3>3, <3>4, <3>5
  <2>4. TestOK(t)  BY <2>1, <2>3 DEF TestOK, NotConstructed
  <2>5. \A r : Within(t, r) = "out"  BY <2>1, <2>3, OutOfAll, WithinIsAt
  <2> QED BY <2>4, <2>5
<1>4. ASSUME NEW r \in Rules PROVE RuleInv(r) /\ Rule(r)!Init
  <2>1. Places(r) = [t \in Tests |-> "out"]  BY <1>3 DEF Places
  <2>2. MembersOf(r) = {t \in Tests : NameOf(t)[r[1]] = r[2]}  BY DEF MembersOf, Init
  <2>3. MembersOf(r) \in SUBSET Tests  BY <2>2
  <2>4. teardownCounter[r] = Cardinality(MembersOf(r))  BY <2>2, AllTests, PresetsCount DEF Init
  <2>5. RuleOK(MembersOf(r), 0, Cardinality(MembersOf(r)), Places(r), 0, 0)  BY <2>1, <2>3, RuleAssigned
  <2>6. setupCounter[r] = 0 /\ setUps[r] = 0 /\ tearDowns[r] = 0  BY DEF Init
  <2>7. Rule(r)!IsFiniteSet(MembersOf(r)) /\ Rule(r)!Cardinality(MembersOf(r)) = Cardinality(MembersOf(r))
    BY <2>3, SomeTests, SameCount
  <2>8. RuleInv(r)  BY <2>4, <2>5, <2>6 DEF RuleInv
  <2>9. Rule(r)!Init  BY <2>1, <2>3, <2>4, <2>6, <2>7 DEF Rule!Init, Rule!TestLists, Places
  <2> QED BY <2>8, <2>9
<1> QED BY <1>1, <1>2, <1>3, <1>4 DEF Inv, TestsInv, RulesInv


--------------------------------------------------------------------------------
(* The theorems *)

\* Every step keeps the invariant and is, for every rule, a step of its protocol or none.
LEMMA StepHolds ==
  ASSUME Inv, [Next]_vars
  PROVE  Inv' /\ [\A r \in Rules : UNCHANGED Rule(r)!ruleVars \/ Rule(r)!Next]_vars
<1> DEFINE ByRule == \A r \in Rules : RuleStutters(r) \/ Rule(r)!Next
<1>1. CASE UNCHANGED vars
  <2>1. Inv'
    <3>1. UNCHANGED <<ignored, phase, filterCalls, children, active, index>>  BY <1>1 DEF vars, classVars
    <3>2. UNCHANGED <<setupCounter, teardownCounter, setUps, tearDowns>>  BY <1>1 DEF vars, ruleState
    <3>3. UNCHANGED <<builders, pc, depth, chain, chosen, threw>>  BY <1>1 DEF vars, testVars
    <3>4. TypesInv' /\ SelectionInv'  BY <3>1, <3>2, <3>3 DEF Inv, TypesInv, SelectionInv, Selected
    <3>5. TestsInv'  BY <3>1, <3>3 DEF Inv, TestsInv, TestOK
    <3>6. ASSUME NEW r \in Rules PROVE RuleInv(r)'
      <4>1. \A t \in Tests : Within(t, r)' = Within(t, r)  BY <3>3, WithinIsAt
      <4>2. Places(r)' = Places(r)  BY <4>1 DEF Places
      <4>3. RuleStutters(r)  BY <3>1, <3>2, <4>2, StuttersIf
      <4> QED BY <4>3, RuleKept DEF Inv, RulesInv
    <3> QED BY <3>4, <3>5, <3>6 DEF Inv, ByMethod, RulesInv
  <2> QED BY <1>1, <2>1
<1>2. CASE \E kept \in Filters : Filter(kept)
  <2>1. Inv' /\ \A r \in Rules : Rule(r)!Assign  BY <1>2, FilterKeeps
  <2> QED BY <2>1 DEF Rule!Next
<1>3. CASE RunChildren
  <2>1. Inv' /\ \A r \in Rules : RuleStutters(r)  BY <1>3, RunChildrenKeeps
  <2> QED BY <2>1 DEF RuleStutters
<1>4. CASE Finished
  <2>1. Inv' /\ \A r \in Rules : RuleStutters(r)  BY <1>4, FinishedKeeps
  <2> QED BY <2>1 DEF RuleStutters
<1>5. ASSUME NEW t \in Tests, RunTest(t)
      PROVE  Inv' /\ ByRule
  <2>1. CASE Start(t)  BY <2>1, StartKeeps
  <2>2. ASSUME NEW calls \in 0 .. Len(Sizes), Construct(t, calls) PROVE Inv' /\ ByRule
    <3>1. Inv' /\ \A r \in Rules : RuleStutters(r)  BY <2>2, ConstructKeeps
    <3> QED BY <3>1
  <2>3. CASE Enter(t)
    <3>1. Inv'  BY <2>3, EnterKeeps
    <3>2. \A r \in Rules : RuleStutters(r) \/ Rule(r)!Enter(t)  BY <2>3, EnterRule
    <3> QED BY <3>1, <3>2 DEF Rule!Next, Rule!TestStep
  <2>4. CASE SetUp(t)
    <3>1. Inv'  BY <2>4, SetUpKeeps
    <3>2. \A r \in Rules : RuleStutters(r) \/ Rule(r)!SetUp(t)  BY <2>4, SetUpRule
    <3> QED BY <3>1, <3>2 DEF Rule!Next, Rule!TestStep
  <2>5. CASE Body(t)  BY <2>5, BodyKeeps
  <2>6. CASE Leave(t)
    <3>1. Inv'  BY <2>6, LeaveKeeps
    <3>2. \A r \in Rules : RuleStutters(r) \/ Rule(r)!Leave(t)  BY <2>6, LeaveRule
    <3> QED BY <3>1, <3>2 DEF Rule!Next, Rule!TestStep
  <2>7. CASE TearDown(t)
    <3>1. Inv'  BY <2>7, TearDownKeeps
    <3>2. \A r \in Rules : RuleStutters(r) \/ Rule(r)!TearDown(t)  BY <2>7, TearDownRule
    <3> QED BY <3>1, <3>2 DEF Rule!Next, Rule!TestStep
  <2> HIDE DEF ByRule
  <2> QED BY <1>5, <2>1, <2>2, <2>3, <2>4, <2>5, <2>6, <2>7 DEF RunTest
<1>6. CASE \E t \in Tests : RunTest(t)
  <2>1. Inv' /\ ByRule  BY <1>5, <1>6
  <2> QED BY <2>1 DEF RuleStutters
<1> QED BY <1>1, <1>2, <1>3, <1>4, <1>6 DEF Next

\* The invariant: tests get what their names list, and every rule's counters count its members,
\* for every class, number of threads, set of ignored methods and filter by method.
THEOREM Invariance == ByMethod /\ Spec => []Inv
<1>1. ByMethod /\ Init => Inv  BY InitHolds
<1>2. Inv /\ [Next]_vars => Inv'  BY StepHolds
<1> QED BY <1>1, <1>2, PTL DEF Spec

\* A test that ran has the values its description names (ClassParam.java:80-85).
THEOREM AsNamed == ByMethod /\ Spec => []RunsAsNamed
<1>1. ASSUME Inv PROVE RunsAsNamed
  <2> SUFFICES ASSUME NEW t \in children, pc[t] = "done", MethodOf(t) \notin ignored, t \notin threw
               PROVE  chosen[t] = NameOf(t)
    BY DEF RunsAsNamed
  <2>1. t \in Tests  BY <1>1 DEF Inv, SelectionInv, Selected, TestsOf
  <2>2. TestOK(t)  BY <1>1, <2>1 DEF Inv, TestsInv
  <2>3. Chosen(t, chosen[t]) /\ Len(chosen[t]) = Len(Sizes)  BY <2>2 DEF TestOK, NotConstructed
  <2>4. chosen[t] = [l \in 1 .. Len(Sizes) |-> chosen[t][l]]  BY <2>3 DEF Chosen
  <2>5. ComboOf(t) \in 0 .. NumCombos - 1  BY <2>1, TestNumbers
  <2>6. NameOf(t) = [l \in 1 .. Len(Sizes) |-> NameOf(t)[l]]  BY <2>5 DEF NameOf, Names, Levels
  <2>7. \A l \in 1 .. Len(Sizes) : chosen[t][l] = NameOf(t)[l]  BY <2>3 DEF Chosen
  <2> QED BY <2>4, <2>6, <2>7
<1> QED BY <1>1, Invariance, PTL

\* A shared rule all of whose members ran was set up and torn down exactly once
\* (SharedTestRule.java:18) when the class is finished, whatever happened to the other tests.
THEOREM OnceIfAllRan == ByMethod /\ Spec => []SharedRulesOnceIfAllRan
<1>1. ASSUME Inv PROVE SharedRulesOnceIfAllRan
  <2> SUFFICES ASSUME phase = "finished", NEW r \in Rules, MembersOf(r) # {},
                      \A t \in MembersOf(r) : MethodOf(t) \notin ignored /\ t \notin threw
               PROVE  setUps[r] = 1 /\ tearDowns[r] = 1
    BY DEF SharedRulesOnceIfAllRan
  <2>1. RuleInv(r)  BY <1>1 DEF Inv, RulesInv
  <2>2. RuleOK(MembersOf(r), setupCounter[r], teardownCounter[r], Places(r), setUps[r], tearDowns[r])
    BY <2>1 DEF RuleInv
  <2>3. MembersOf(r) \in SUBSET Tests  BY <2>2 DEF RuleOK
  <2>4. ASSUME NEW t \in MembersOf(r) PROVE Places(r)[t] = "gone"
    <3>1. t \in Tests /\ t \in active /\ NameOf(t)[r[1]] = r[2]  BY <2>3 DEF MembersOf
    <3>2. TestOK(t) /\ pc[t] = "done"  BY <1>1, <3>1 DEF Inv, TestsInv, SelectionInv
    <3>3. Len(chosen[t]) = Len(Sizes) /\ depth[t] = 0 /\ IsChain(chain[t], t, Len(chosen[t]))
      BY <2>4, <3>2 DEF TestOK, NotConstructed
    <3>4. r[1] \in SharedLevels /\ r[1] <= Len(Sizes) /\ r = <<r[1], NameOf(t)[r[1]]>>  BY <3>1, RulesAre
    <3>5. PICK i \in 1 .. Len(chain[t]) : chain[t][i] = r
      <4>1. \E i \in 1 .. Len(chain[t]) : chain[t][i] = <<r[1], NameOf(t)[r[1]]>>  BY <3>3, <3>4 DEF IsChain
      <4> QED BY <3>4, <4>1
    <3>6. i \in Nat /\ i > 0  BY <3>3 DEF IsChain
    <3>7. At(chain[t], "done", 0, r) = PlaceAt(i, "done", 0)
      <4>1. 0 \in Nat  OBVIOUS
      <4> QED BY <3>3, <3>5, <4>1, AtRule
    <3>8. PlaceAt(i, "done", 0) = "gone"  BY <3>6 DEF PlaceAt
    <3>9. Within(t, r) = "gone"  BY <3>1, <3>2, <3>3, <3>7, <3>8, WithinIsAt
    <3> QED BY <3>1, <3>9 DEF Places
  <2>5. Pending(MembersOf(r), Places(r)) = {}  BY <2>4 DEF Pending
  <2>6. Started(Places(r)) \subseteq MembersOf(r) /\ Started(Places(r)) # {}
    <3>1. Started(Places(r)) \subseteq MembersOf(r)  BY <2>2 DEF RuleOK
    <3> QED BY <2>3, <2>4, <3>1 DEF Started
  <2>7. \A t \in Tests : Places(r)[t] \notin {"settingUp", "tearingDown"}  BY <2>4, <2>6 DEF Started
  <2>8. setUps[r] # 0  BY <2>2, <2>6, <2>7 DEF RuleOK, OneSetsUp
  <2>9. tearDowns[r] # 0  BY <2>2, <2>5, <2>7 DEF RuleOK, OneTearsDown
  <2> QED BY <2>2, <2>8, <2>9 DEF RuleOK
<1> QED BY <1>1, Invariance, PTL

\* No rule is torn down around a test that is in it: of all tests of a rule the last to leave it
\* tears it down, however the threads of the pool interleave.
THEOREM NestedRules == ByMethod /\ Spec => []NothingTornDownAround
<1>1. ASSUME Inv PROVE NothingTornDownAround
  <2> SUFFICES ASSUME NEW t \in Tests, pc[t] \in {"enter", "setUp", "body", "leave"}, NEW d \in 1 .. depth[t]
               PROVE  tearDowns[chain[t][d]] = 0
    BY DEF NothingTornDownAround
  <2>1. TestOK(t) /\ TypesInv  BY <1>1 DEF Inv, TestsInv
  <2>2. /\ IsChain(chain[t], t, Len(chosen[t])) /\ depth[t] \in Nat /\ Len(chain[t]) \in Nat
        /\ depth[t] <= Len(chain[t]) /\ t \in active
    <3>1. depth[t] \in Nat /\ Len(chain[t]) \in Nat  BY <2>1 DEF TypesInv
    <3>2. pc[t] # "idle"  OBVIOUS
    <3>3. IsChain(chain[t], t, Len(chosen[t])) /\ depth[t] <= Len(chain[t]) /\ t \in active
      BY <2>1, <3>2 DEF TestOK
    <3> QED BY <3>1, <3>3
  <2>3. d \in 1 .. Len(chain[t]) /\ d <= depth[t]  BY <2>2
  <2>4. PICK r : r = chain[t][d]  OBVIOUS
  <2>5. r \in Rules /\ t \in MembersOf(r)  BY <2>1, <2>2, <2>3, <2>4, ChainMembers
  <2>6. Places(r)[t] = "in"
    <3>1. At(chain[t], pc[t], depth[t], r) = PlaceAt(d, pc[t], depth[t])  BY <2>2, <2>3, <2>4, AtRule
    <3>2. PlaceAt(d, pc[t], depth[t]) = "in"  BY <2>3 DEF PlaceAt
    <3> QED BY <3>1, <3>2, WithinIsAt DEF Places
  <2>7. Pending(MembersOf(r), Places(r)) # {}  BY <2>5, <2>6 DEF Pending
  <2>8. OneTearsDown(MembersOf(r), Places(r), tearDowns[r])  BY <1>1, <2>5 DEF Inv, RulesInv, RuleInv, RuleOK
  <2> QED BY <2>4, <2>7, <2>8 DEF OneTearsDown
<1> QED BY <1>1, Invariance, PTL

\* The runner with all its rules implements the protocol of each of them: what SharedRule_proofs
\* proves of one rule holds of every candidate of every shared level.
THEOREM RunsTheProtocol == ByMethod /\ Spec => ImplementsSharedRules
<1>1. ByMethod /\ Init => \A r \in Rules : Rule(r)!Init  BY InitHolds
<1>2. Inv /\ [Next]_vars => [\A r \in Rules : UNCHANGED Rule(r)!ruleVars \/ Rule(r)!Next]_vars  BY StepHolds
<1> QED BY <1>1, <1>2, Invariance, PTL DEF Spec, ImplementsSharedRules

=============================================================================
