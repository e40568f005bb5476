-------------------------- MODULE KernelCompiler_proofs --------------------------
(***************************************************************************)
(* Proofs about the kernel compiler: its hash, its list scheduler and its  *)
(* front end.                                                              *)
(*                                                                         *)
(* The compiled kernel hashes every word as the reference kernel does:     *)
(* multiplying by 2^k + 1 is a shift and an addition, and the stages 3 and *)
(* 4 may be computed from the value before both of them.                   *)
(*                                                                         *)
(* Of the list scheduler: the counters which splitting adjusts stay exact, *)
(* no bundle has two writers of a word, and what is issued reads, and the  *)
(* end of the packing leaves, what the program in order would.  The        *)
(* invariant is about the pieces into which splitting may have cut the     *)
(* program's instructions.  The pieces of one instruction that are not yet *)
(* retired write different words, but for a product and its sum, and the   *)
(* sum waits.  An instruction that has begun conflicts with no earlier one *)
(* that is not finished: when its last predecessor goes, the latest writer *)
(* before it has gone, and what conflicts with both went before that one   *)
(* began.  So a word of scratch holds what the last writer to finish, in   *)
(* program order, has left there, unless a product awaits its sum.         *)
(*                                                                         *)
(* Of the front end: whatever statements a program is made of, the work    *)
(* that its pipeline makes of them is one that the scheduler's theorems    *)
(* are about, if it fits into the scratch; and for how many threads at a   *)
(* time it fits is what was estimated.  The invariant is that variables do *)
(* not overlap and that every instruction reads and writes variables as    *)
(* wide as they were declared.  Statements are handled one by one here:    *)
(* that the handlers recur over blocks of them is not part of the proofs.  *)
(***************************************************************************)
EXTENDS GreedyWorkPacker, Statements, KernelHash, NumberLemmas

\* The words, among which XOR stays.
WordValues == 0 .. WORD - 1
XorOfWords == \A x, y \in WordValues : XOR(x, y) \in WordValues

-----------------------------------------------------------------------------
(* Words *)

\* WORD and HALF are numbers other than 0.
LEMMA WordSize == WORD \in Nat \ {0} /\ HALF \in Nat \ {0} /\ WORD = HALF * HALF
BY Halves

\* What is reduced is a word, and a number.
LEMMA Reduced ==
  ASSUME NEW a \in Int
  PROVE  a % WORD \in WordValues /\ a % WORD \in Int
<1>1. a % WORD \in 0 .. WORD - 1  BY DivMod, WordSize
<1> QED BY <1>1, WordSize DEF WordValues

\* 2^k, for the shifts of the hash.
LEMMA Powers == 2 ^ 3 = 8 /\ 2 ^ 5 = 32 /\ 2 ^ 9 = 512 /\ 2 ^ 12 = 4096 /\ 2 ^ 16 = 65536 /\ 2 ^ 19 = 524288
OBVIOUS

\* Putting a product together from halves of its factors is multiplying words (problem.py:229, alu "*").
LEMMA TimesIsProduct ==
  ASSUME NEW x \in Int, NEW y \in Int
  PROVE  Times(x, y) = (x * y) % WORD
<1> DEFINE xq == x \div HALF
           xr == x % HALF
           yq == y \div HALF
           yr == y % HALF
           mixed == xq * yr + xr * yq
           mq == mixed \div HALF
           mr == mixed % HALF
<1>1. xq \in Int /\ xr \in Int /\ x = HALF * xq + xr  BY DivMod, WordSize
<1>2. yq \in Int /\ yr \in Int /\ y = HALF * yq + yr  BY DivMod, WordSize
<1>3. Times(x, y) = (xr * yr + mr * HALF) % WORD  BY DEF Times
<1> HIDE DEF xq, xr, yq, yr
<1>4. mixed \in Int  BY <1>1, <1>2
<1>5. mq \in Int /\ mr \in Int /\ mixed = HALF * mq + mr
  <2> HIDE DEF mixed
  <2> QED BY <1>4, DivMod, WordSize
<1>6. HALF * mixed = WORD * mq + mr * HALF
  <2> HIDE DEF mixed, mq, mr
  <2>1. HALF * mixed = HALF * (HALF * mq + mr)  BY <1>5
  <2> QED BY <2>1, <1>5, WordSize
<1>7. x * y = HALF * HALF * (xq * yq) + HALF * mixed + xr * yr
  <2>1. x * y = (HALF * xq + xr) * (HALF * yq + yr)  BY <1>1, <1>2
  <2>2. xq * yq \in Int /\ xq * yr \in Int /\ xr * yq \in Int /\ xr * yr \in Int  BY <1>1, <1>2
  <2>3. HALF * mixed = HALF * (xq * yr) + HALF * (xr * yq)  BY <2>2, WordSize
  <2>4. (HALF * xq + xr) * (HALF * yq + yr)
          = HALF * HALF * (xq * yq) + HALF * (xq * yr) + HALF * (xr * yq) + xr * yr  BY <1>1, <1>2, WordSize
  <2> QED BY <2>1, <2>2, <2>3, <2>4, <1>4, WordSize
<1> HIDE DEF mixed, mq, mr
<1>8. /\ xq * yq \in Int /\ xr * yr \in Int /\ mr * HALF \in Int /\ WORD * mq \in Int
      /\ x * y \in Int
  BY <1>1, <1>2, <1>5, WordSize
<1>9. x * y = WORD * (xq * yq + mq) + (xr * yr + mr * HALF)
  BY <1>5, <1>6, <1>7, <1>8, WordSize
<1> DEFINE multiple == xq * yq + mq
           small == xr * yr + mr * HALF
           product == x * y
<1>10. multiple \in Int /\ small \in Int /\ product \in Int  BY <1>5, <1>8
<1>11. product = WORD * multiple + small  BY <1>9
<1> HIDE DEF multiple, small, product
<1>12. product % WORD = small % WORD  BY <1>10, <1>11, SameResidue, WordSize
<1> QED BY <1>3, <1>12 DEF product, small

\* A multiply_add is the sum of the product, reduced once.
LEMMA MultiplyAddIsSum ==
  ASSUME NEW x \in Int, NEW factor \in Int, NEW add \in Int
  PROVE  MultiplyAdd(x, factor, add) = (x * factor + add) % WORD
<1>1. Times(x, factor) = (x * factor) % WORD  BY TimesIsProduct
<1>2. x * factor \in Int  OBVIOUS
<1>3. (((x * factor) % WORD) + add) % WORD = (x * factor + add) % WORD  BY <1>2, WrappedAdvance, WordSize
<1> QED BY <1>1, <1>3 DEF MultiplyAdd, Add

\* Shifting left by k and adding to x + c is multiplying by 2^k + 1 and adding c (stages 1, 3 and 5).
LEMMA ShiftAddIsMultiplyAdd ==
  ASSUME NEW x \in Int, NEW c \in Int, NEW k \in Int, NEW power \in Nat, power = 2 ^ k
  PROVE  Stage("+", c, "+", "<<", k, x) = MultiplyAdd(x, power + 1, c)
<1> DEFINE sum == x + c
           shifted == x * power
<1>1. Stage("+", c, "+", "<<", k, x) = Add(Add(x, c), Times(x, power))  BY DEF Stage, Fn, ShiftLeft
<1>2. Times(x, power) = shifted % WORD  BY TimesIsProduct
<1>3. sum \in Int /\ shifted \in Int /\ shifted % WORD \in Int  BY DivMod, WordSize
<1>4. Add(Add(x, c), Times(x, power)) = ((sum % WORD) + (shifted % WORD)) % WORD  BY <1>2 DEF Add
<1> HIDE DEF shifted
<1>5. ((sum % WORD) + (shifted % WORD)) % WORD = (sum + (shifted % WORD)) % WORD
  BY <1>3, WrappedAdvance, WordSize
<1>6. ((shifted % WORD) + sum) % WORD = (shifted + sum) % WORD  BY <1>3, WrappedAdvance, WordSize
<1>7. sum + (shifted % WORD) = (shifted % WORD) + sum  BY <1>3
<1>8. shifted + sum = x * (power + 1) + c  BY DEF shifted
<1> QED BY <1>1, <1>4, <1>5, <1>6, <1>7, <1>8, MultiplyAddIsSum

-----------------------------------------------------------------------------
(* The hash *)

\* The numbers of the stages, and those of the two fused ones, are numbers.
LEMMA HashNumbers ==
  /\ \A i \in 1 .. 6 : HashVal[i] \in Int
  /\ FusedAdd = (HashVal[3] + HashVal[4]) % WORD /\ FusedAdd \in Int
  /\ FusedAdd512 = (HashVal[3] * 512) % WORD /\ FusedAdd512 \in Int
<1>1. \A i \in 1 .. 6 : HashVal[i] \in Int  BY Fusion, WordSize
<1>2. HashVal[3] \in Int /\ HashVal[4] \in Int  BY <1>1
<1>3. FusedAdd = (HashVal[3] + HashVal[4]) % WORD  BY Fusion DEF Add
<1>4. FusedAdd512 = (HashVal[3] * 512) % WORD  BY <1>2, Fusion, TimesIsProduct
<1>5. HashVal[3] + HashVal[4] \in Int /\ HashVal[3] * 512 \in Int  BY <1>2
<1>6. FusedAdd \in Int /\ FusedAdd512 \in Int
  <2>1. (HashVal[3] + HashVal[4]) % WORD \in Int  BY <1>5, Reduced, Zenon
  <2> DEFINE product == HashVal[3] * 512
  <2>2. product \in Int  BY <1>5
  <2> HIDE DEF product
  <2>3. product % WORD \in Int  BY <2>2, Reduced, Zenon
  <2>4. FusedAdd512 = product % WORD  BY <1>4 DEF product
  <2> QED BY <1>3, <2>1, <2>3, <2>4
<1> QED BY <1>1, <1>3, <1>4, <1>6

\* Stage 4 of what stage 3 makes of x, computed from x: p1 and p2 of the program.
LEMMA FusedStages ==
  ASSUME NEW x \in Int
  PROVE  Stage4(Stage3(x)) = Fused34(x)
<1> DEFINE c3 == HashVal[3]
           c4 == HashVal[4]
           third == x * 33 + c3
           b == third % WORD
<1>1. c3 \in Int /\ c4 \in Int  BY HashNumbers
<1>2. Stage3(x) = b
  <2>1. 5 \in Int /\ 32 \in Nat /\ 32 = 2 ^ 5 /\ 33 \in Int /\ 32 + 1 = 33  BY Powers
  <2>2. Stage3(x) = MultiplyAdd(x, 32 + 1, c3)  BY <1>1, <2>1, ShiftAddIsMultiplyAdd, ZenonT(60) DEF Stage3
  <2>3. MultiplyAdd(x, 33, c3) = (x * 33 + c3) % WORD  BY <1>1, <2>1, MultiplyAddIsSum, Zenon
  <2> QED BY <2>1, <2>2, <2>3
<1> HIDE DEF c3, c4
<1>3. third \in Int  BY <1>1
<1>4. b \in Int  BY <1>3, DivMod, WordSize
<1>5. Stage4(b) = XOR(Add(b, c4), Times(b, 512))
  BY Powers DEF Stage4, Stage, Fn, ShiftLeft, c4
<1>6. Add(b, c4) = MultiplyAdd(x, 33, FusedAdd)
  <2>1. Add(b, c4) = (third + c4) % WORD  BY <1>1, <1>3, WrappedAdvance, WordSize DEF Add
  <2>2. MultiplyAdd(x, 33, FusedAdd) = (x * 33 + FusedAdd) % WORD  BY HashNumbers, MultiplyAddIsSum
  <2>3. FusedAdd = (c3 + c4) % WORD  BY HashNumbers DEF c3, c4
  <2>4. c3 + c4 \in Int /\ x * 33 \in Int  BY <1>1
  <2>5. (((c3 + c4) % WORD) + x * 33) % WORD = ((c3 + c4) + x * 33) % WORD
    BY <2>4, WrappedAdvance, WordSize
  <2>6. (c3 + c4) % WORD \in Int  BY <2>4, DivMod, WordSize
  <2>7. ((c3 + c4) % WORD) + x * 33 = x * 33 + FusedAdd  BY <2>3, <2>4, <2>6
  <2>8. (c3 + c4) + x * 33 = third + c4  BY <1>1
  <2> QED BY <2>1, <2>2, <2>5, <2>7, <2>8
<1>7. Times(b, 512) = MultiplyAdd(x, 16896, FusedAdd512)
  <2>1. Times(b, 512) = (third * 512) % WORD  
    <3> DEFINE factor == 512
    <3>1. factor \in Int  OBVIOUS
    <3> HIDE DEF factor, third
    <3>2. Times(b, factor) = (b * factor) % WORD  BY <1>4, <3>1, TimesIsProduct, Zenon
    <3>3. (b * factor) % WORD = (third * factor) % WORD  BY <1>3, <3>1, ReducedFactor, WordSize, Zenon
    <3> QED BY <3>2, <3>3 DEF factor
  <2>2. MultiplyAdd(x, 16896, FusedAdd512) = (x * 16896 + FusedAdd512) % WORD  BY HashNumbers, MultiplyAddIsSum
  <2>3. FusedAdd512 = (c3 * 512) % WORD  BY HashNumbers DEF c3
  <2>4. c3 * 512 \in Int /\ x * 16896 \in Int  BY <1>1
  <2>5. (((c3 * 512) % WORD) + x * 16896) % WORD = (c3 * 512 + x * 16896) % WORD
    BY <2>4, WrappedAdvance, WordSize
  <2>6. (c3 * 512) % WORD \in Int  BY <2>4, DivMod, WordSize
  <2>7. ((c3 * 512) % WORD) + x * 16896 = x * 16896 + FusedAdd512  BY <2>3, <2>4, <2>6
  <2>8. c3 * 512 + x * 16896 = third * 512  BY <1>1
  <2> QED BY <2>1, <2>2, <2>5, <2>7, <2>8
<1> QED BY <1>2, <1>5, <1>6, <1>7 DEF Fused34

\* A multiply_add of numbers is a word.
LEMMA MultiplyAddIsWord ==
  ASSUME NEW x \in Int, NEW factor \in Int, NEW add \in Int
  PROVE  MultiplyAdd(x, factor, add) \in WordValues
<1> DEFINE sum == x * factor + add
<1>1. sum \in Int  OBVIOUS
<1>2. MultiplyAdd(x, factor, add) = sum % WORD  BY MultiplyAddIsSum
<1> HIDE DEF sum
<1>3. sum % WORD \in WordValues  BY <1>1, Reduced
<1> QED BY <1>2, <1>3

\* Stage 1 is one multiply_add.
LEMMA FirstStage ==
  ASSUME NEW x \in Int
  PROVE  Stage1(x) = MultiplyAdd(x, 4097, HashVal[1]) /\ Stage1(x) \in WordValues
<1> DEFINE power == 4096
<1>1. power \in Nat /\ power = 2 ^ 12 /\ power + 1 \in Int /\ power + 1 = 4097  BY Powers
<1>2. 12 \in Int /\ HashVal[1] \in Int  BY HashNumbers
<1> HIDE DEF power
<1>3. power \in Nat /\ power = 2 ^ 12 /\ power + 1 \in Int  BY <1>1
<1>4. Stage1(x) = MultiplyAdd(x, power + 1, HashVal[1])  BY <1>3, <1>2, ShiftAddIsMultiplyAdd, ZenonT(60) DEF Stage1
<1>5. MultiplyAdd(x, power + 1, HashVal[1]) \in WordValues  BY <1>3, <1>2, MultiplyAddIsWord, Zenon
<1> QED BY <1>1, <1>4, <1>5

\* The two fused stages give a word, too.
LEMMA FusedIsWord ==
  ASSUME XorOfWords, NEW x \in Int
  PROVE  Fused34(x) \in WordValues
<1> DEFINE factor == 16896
<1>1. factor \in Int /\ 33 \in Int  OBVIOUS
<1> HIDE DEF factor
<1>2. MultiplyAdd(x, 33, FusedAdd) \in WordValues  BY <1>1, HashNumbers, MultiplyAddIsWord, ZenonT(60)
<1>3. MultiplyAdd(x, factor, FusedAdd512) \in WordValues
  BY <1>1, HashNumbers, MultiplyAddIsWord, ZenonT(60)
<1> QED BY <1>2, <1>3 DEF XorOfWords, Fused34, factor

\* The kernel that input_to_program.py writes hashes every value like myhash of the reference kernel.
THEOREM HashesAgree ==
  ASSUME XorOfWords, NEW a \in WordValues
  PROVE  computed_hash(a) = myhash(a)
<1> DEFINE s1 == Stage1(a)
           s2 == Stage2(s1)
           s4 == Stage4(Stage3(s2))
           s5 == Stage5(s4)
<1>1. HashVal[1] \in WordValues /\ HashVal[2] \in WordValues /\ HashVal[5] \in WordValues
  BY Fusion DEF WordValues
<1>2. s1 = MultiplyAdd(a, 4097, HashVal[1]) /\ s1 \in WordValues
  <2>1. a \in Int  BY WordSize DEF WordValues
  <2> QED BY <2>1, FirstStage
<1> HIDE DEF s1
<1>3. s2 = XorShifted(s1, HashVal[2], 19)  BY DEF Stage2, Stage, Fn, XorShifted
<1>4. s2 \in Int
  <2>1. ShiftRight(s1, 19) \in WordValues
    <3>1. ShiftRight(s1, 19) = s1 \div 524288  BY Powers DEF ShiftRight
    <3>2. s1 \div 524288 \in 0 .. s1  BY <1>2, WordSize DEF WordValues
    <3> QED BY <1>2, <3>1, <3>2, WordSize DEF WordValues
  <2>2. s2 \in WordValues  BY <1>1, <1>2, <1>3, <2>1 DEF XorOfWords, XorShifted
  <2> QED BY <2>2, WordSize DEF WordValues
<1> HIDE DEF s2
<1>5. s4 = Fused34(s2)  BY <1>4, FusedStages
<1>6. s4 \in Int
  <2>1. s4 \in WordValues  BY <1>4, <1>5, FusedIsWord
  <2> QED BY <2>1, WordSize DEF WordValues
<1> HIDE DEF s4
<1>7. s5 = MultiplyAdd(s4, 9, HashVal[5])
  <2>1. 3 \in Int /\ 8 \in Nat /\ 8 = 2 ^ 3 /\ 8 + 1 = 9 /\ HashVal[5] \in Int  BY Powers, HashNumbers
  <2>2. s5 = MultiplyAdd(s4, 8 + 1, HashVal[5])  BY <1>6, <2>1, ShiftAddIsMultiplyAdd, ZenonT(60) DEF Stage5
  <2> QED BY <2>1, <2>2
<1> HIDE DEF s5
<1>8. Stage6(s5) = XorShifted(s5, HashVal[6], 16)  BY DEF Stage6, Stage, Fn, XorShifted
<1>9. myhash(a) = Stage6(s5)  BY DEF myhash, s1, s2, s4, s5
<1>10. computed_hash(a) = XorShifted(s5, HashVal[6], 16)  BY <1>2, <1>3, <1>5, <1>7 DEF computed_hash
<1> QED BY <1>8, <1>9, <1>10

\* The two numbers that the program text has for the fused stages are those of 32-bit words:
\* 0x165667B1 + 0xD3A2646C and 0x165667B1 << 9 (input_to_program.py:213-235, problem.py:455-462).
THEOREM FusedLiterals ==
  ASSUME WORD = 4294967296, HashVal[3] = 374761393, HashVal[4] = 3550635116
  PROVE  FusedAdd = 3925396509 /\ FusedAdd512 = 2899272192
BY HashNumbers

-----------------------------------------------------------------------------
(* The list scheduler: the invariant *)

\* What has not been retired, and what of it waits for nothing.
Pending == free \cup frontier \cup Waiting
Issuable == free \cup frontier
Unexecuted == IF pc = "retire" THEN Pending \ to_retire ELSE Pending

Dest(x) == x.lin.args[1].addr
Touched(x) == RangesOf(Registers(x))
Marked(x) == RangesOf({r \in Registers(x) : ~r.read})

TypesInv ==
  /\ imetas \in Seq(InstrMeta)
  /\ incount \in [DOMAIN imetas -> Nat]
  /\ IsFiniteSet(free) /\ IsFiniteSet(frontier)
  /\ next_batch_tid \in Conc .. NumThreads
  /\ schedulable_count_by_tid \in [-1 .. NumThreads - 1 -> Nat]
  /\ pc \in {"have_more", "valu", "alu", "load", "store", "flow", "execute", "retire", "done"}
  /\ to_retire \subseteq free
  /\ pc \in {"have_more", "valu", "done"} => to_retire = {}
  /\ DOMAIN scratch = 0 .. ScratchSize - 1

\* The program, followed by the sums of what has been split.
ProgramInv ==
  \E w \in Works :
    /\ Len(w) <= Len(imetas)
    /\ \A n \in 1 .. Len(w) : imetas[n] = w[n]
    /\ \A n \in Len(w) + 1 .. Len(imetas) : imetas[n].part = "sum" /\ imetas[n].inst \in 1 .. Len(w)

SumsInv ==
  /\ \A i, j \in DOMAIN imetas :
       i # j /\ imetas[i].part = "sum" /\ imetas[j].part = "sum" /\ imetas[i].inst = imetas[j].inst
         => Dest(imetas[i]) # Dest(imetas[j])
  /\ \A j \in DOMAIN imetas : \A x \in Pending :
       imetas[j].part = "sum" /\ x.inst = imetas[j].inst => x.part # "whole"

ProductOf(x, j) ==
  /\ x.after = {j}
  /\ imetas[j].part = "sum" /\ imetas[j].inst = x.inst /\ Dest(imetas[j]) = Dest(x)

\* A piece does its part of an instruction: it reads no word of the result that it does not write.
PieceOK(x) ==
  /\ x \in InstrMeta
  /\ x.inst \in Original
  /\ x.tid = imetas[x.inst].tid
  /\ IF x.part = "product" THEN \E j \in DOMAIN imetas : ProductOf(x, j)
     ELSE x.after = imetas[x.inst].after
  /\ x.lin.engine = "valu" => x = imetas[x.inst]
  /\ x.lin.engine = "alu" => Ternary(x.lin)
  /\ ReadsOf(x) \subseteq Touched(imetas[x.inst])
  /\ ReadsOf(x) \cap WritesOf(imetas[x.inst]) \subseteq WritesOf(x)
  /\ WritesOf(x) \subseteq WritesOf(imetas[x.inst])
  /\ IF x.part = "whole" THEN WritesOf(x) = WritesOf(imetas[x.inst]) ELSE WritesOf(x) = {Dest(x)}
  /\ x.part = "sum" => Addend(x.inst) \cap WritesOf(imetas[x.inst]) = {}

PieceInv == \A x \in Pending : PieceOK(x)

\* The pieces of one instruction are apart.
SplitInv ==
  \A x, y \in Pending :
    x # y /\ x.inst = y.inst =>
      /\ x.part # "whole"
      /\ x.part = "lane" => y.part = "lane"
      /\ x.part = y.part => Dest(x) # Dest(y)

SidesInv ==
  /\ \A x \in free : x.tid < next_batch_tid
  /\ \A x \in frontier : x.tid >= next_batch_tid
  /\ Issuable \cap Waiting = {}

\* What the counters count.
Unlockers(i) == {x \in Pending : i \in x.after}
IssuableOf(t) == {x \in Issuable : x.tid = t}
CountsInv ==
  /\ \A i \in DOMAIN imetas : incount[i] = Cardinality(Unlockers(i))
  /\ \A t \in -1 .. NumThreads - 1 : schedulable_count_by_tid[t] = Cardinality(IssuableOf(t))

BegunInv == \A x \in Pending : x \in Issuable \/ x.part # "whole" => incount[x.inst] = 0

Conflict(m, n) ==
  \E loc \in Touched(imetas[m]) \cap Touched(imetas[n]) : loc \in Marked(imetas[m]) \cup Marked(imetas[n])

\* No instruction begins before the earlier ones that it conflicts with have finished.
OrderInv ==
  \A m, n \in Original : m < n /\ incount[n] = 0 /\ Conflict(m, n) => \A x \in Pending : x.inst # m

\* What instruction m has still to do to the word loc, and that only the addition is missing.
Owes(m, loc) == \E x \in Unexecuted : x.inst = m /\ loc \in WritesOf(x)
HalfDone(m, loc) ==
  Owes(m, loc) /\ \A x \in Unexecuted : x.inst = m /\ loc \in WritesOf(x) => x.part = "sum"
LastWriter(loc) == Max({0} \cup {m \in Original : loc \in WritesOf(imetas[m]) /\ ~Owes(m, loc)})

ScratchInv ==
  \A loc \in DOMAIN scratch :
    /\ \A m \in Original : HalfDone(m, loc) => scratch[loc] = [by |-> m, partial |-> TRUE]
    /\ (\A m \in Original : ~HalfDone(m, loc)) => scratch[loc] = Done(LastWriter(loc))

\* For every thread that has begun and has nothing to issue another has been let in.
Idle ==
  {t \in 0 .. NumThreads - 1 :
     schedulable_count_by_tid[t] = 0 /\ \E n \in Original : imetas[n].tid = t /\ incount[n] = 0}
ThreadsLetIn == next_batch_tid = NumThreads \/ next_batch_tid >= Conc + Cardinality(Idle)
IdleInv == ThreadsLetIn /\ (pc = "done" => Pending = {})

HeapInv == SumsInv /\ PieceInv /\ SplitInv /\ SidesInv /\ CountsInv /\ BegunInv /\ OrderInv
Inv == TypesInv /\ ProgramInv /\ HeapInv /\ ScratchInv /\ IdleInv

-----------------------------------------------------------------------------
(* The program *)

\* The program's part of imetas is what get_work handed over.
LEMMA ProgramFacts ==
  ASSUME TypesInv, ProgramInv
  PROVE  \E w \in Works :
           /\ FromGraph(w) /\ Original = DOMAIN w /\ DOMAIN w = 1 .. Len(w) /\ Len(w) \in Nat
           /\ Len(w) <= Len(imetas)
           /\ \A n \in Original : imetas[n] = w[n]
<1>1. PICK w \in Works :
        /\ Len(w) <= Len(imetas)
        /\ \A n \in 1 .. Len(w) : imetas[n] = w[n]
        /\ \A n \in Len(w) + 1 .. Len(imetas) : imetas[n].part = "sum" /\ imetas[n].inst \in 1 .. Len(w)
  BY DEF ProgramInv
<1>2. FromGraph(w)  BY WorksAreGraphs
<1>3. w \in Seq(InstrMeta) /\ imetas \in Seq(InstrMeta)  BY <1>2 DEF FromGraph, TypesInv
<1>4. Len(w) \in Nat /\ DOMAIN w = 1 .. Len(w) /\ Len(imetas) \in Nat /\ DOMAIN imetas = 1 .. Len(imetas)
  BY <1>3
<1>5. \A n \in DOMAIN w : w[n].inst = n  BY <1>2 DEF FromGraph
<1>6. Original \subseteq DOMAIN w
  <2> SUFFICES ASSUME NEW n \in Original PROVE n \in DOMAIN w  OBVIOUS
  <2>1. n \in 1 .. Len(imetas) /\ imetas[n].inst = n  BY <1>4 DEF Original
  <2>2. n \notin Len(w) + 1 .. Len(imetas)  BY <1>1, <1>4, <2>1
  <2> QED BY <1>4, <2>1, <2>2
<1>7. DOMAIN w \subseteq Original  BY <1>1, <1>4, <1>5 DEF Original
<1> QED BY <1>1, <1>2, <1>4, <1>6, <1>7

\* An instruction writes words that its registers are not marked as read for.
LEMMA WritesMarked ==
  ASSUME NEW x
  PROVE  /\ WritesOf(x) \subseteq Marked(x)
         /\ Marked(x) \subseteq Touched(x)
         /\ ReadsOf(x) \subseteq Touched(x)
BY DEF WritesOf, ReadsOf, Marked, Touched, RangesOf

\* The instructions of the program and the sums behind them.
LEMMA ImetasFacts ==
  ASSUME TypesInv, ProgramInv
  PROVE  /\ Len(imetas) \in Nat /\ DOMAIN imetas = 1 .. Len(imetas) /\ IsFiniteSet(DOMAIN imetas)
         /\ Original \subseteq DOMAIN imetas
         /\ \A n \in DOMAIN imetas : imetas[n] \in InstrMeta /\ imetas[n].inst \in Original
         /\ \A n \in Original : imetas[n].inst = n /\ imetas[n].part = "whole"
         /\ \A n \in DOMAIN imetas \ Original : imetas[n].part = "sum"
<1>1. PICK w \in Works :
        /\ Len(w) <= Len(imetas)
        /\ \A n \in 1 .. Len(w) : imetas[n] = w[n]
        /\ \A n \in Len(w) + 1 .. Len(imetas) : imetas[n].part = "sum" /\ imetas[n].inst \in 1 .. Len(w)
  BY DEF ProgramInv
<1>2. FromGraph(w)  BY WorksAreGraphs
<1>3. w \in Seq(InstrMeta) /\ imetas \in Seq(InstrMeta)  BY <1>2 DEF FromGraph, TypesInv
<1>4. Len(w) \in Nat /\ DOMAIN w = 1 .. Len(w) /\ Len(imetas) \in Nat /\ DOMAIN imetas = 1 .. Len(imetas)
  BY <1>3
<1>5. \A n \in DOMAIN w : w[n].inst = n /\ w[n].part = "whole"  BY <1>2 DEF FromGraph
<1>6. DOMAIN w \subseteq Original  BY <1>1, <1>4, <1>5 DEF Original
<1>7. \A n \in DOMAIN imetas : n \in DOMAIN w \/ n \in Len(w) + 1 .. Len(imetas)  BY <1>4
<1>8. \A n \in DOMAIN imetas : imetas[n].inst \in DOMAIN w  BY <1>1, <1>4, <1>5, <1>7
<1>9. \A n \in Original : n \in DOMAIN imetas /\ imetas[n].inst = n  BY DEF Original
<1>10. IsFiniteSet(DOMAIN imetas)  BY <1>4, FS_Interval
<1>11. \A n \in DOMAIN imetas : imetas[n] \in InstrMeta  BY <1>3, <1>4
<1>12. \A n \in Original : n \in DOMAIN w  BY <1>8, <1>9
<1>13. \A n \in Original : imetas[n].part = "whole"  BY <1>1, <1>4, <1>5, <1>12
<1>14. \A n \in DOMAIN imetas \ Original : imetas[n].part = "sum"  BY <1>1, <1>6, <1>7
<1> QED BY <1>4, <1>6, <1>8, <1>9, <1>10, <1>11, <1>13, <1>14

\* What get_work promises of the instructions of the program.
LEMMA GraphFacts ==
  ASSUME TypesInv, ProgramInv
  PROVE  /\ \A n \in Original :
              /\ imetas[n].lin.engine = "valu" => VectorOperands(imetas[n].lin.op, imetas[n].lin.args)
              /\ imetas[n].lin.engine = "alu" => Ternary(imetas[n].lin)
              /\ Touched(imetas[n]) \subseteq 0 .. ScratchSize - 1
              /\ imetas[n].after \subseteq {m \in Original : m > n}
         /\ \A m, n \in Original : m < n => imetas[m].tid <= imetas[n].tid
         /\ \A t \in 0 .. NumThreads - 1 : \E n \in Original : imetas[n].tid = t
<1>1. PICK w \in Works :
        /\ FromGraph(w) /\ Original = DOMAIN w /\ DOMAIN w = 1 .. Len(w) /\ Len(w) \in Nat
        /\ \A n \in Original : imetas[n] = w[n]
  BY ProgramFacts
<1>2. \A n \in Original : imetas[n].after \subseteq {m \in Original : m > n}
  <2>1. \A n \in DOMAIN w : UnlockedBy(w)[n] \subseteq {m \in DOMAIN w : m > n}  BY DEF UnlockedBy
  <2>2. \A n \in DOMAIN w : w[n].after = UnlockedBy(w)[n]  BY <1>1 DEF FromGraph
  <2> QED BY <1>1, <2>1, <2>2
<1>3. \A n \in Original :
        /\ imetas[n].lin.engine = "valu" => VectorOperands(imetas[n].lin.op, imetas[n].lin.args)
        /\ imetas[n].lin.engine = "alu" => Ternary(imetas[n].lin)
        /\ Touched(imetas[n]) \subseteq 0 .. ScratchSize - 1
  BY <1>1 DEF FromGraph, Touched
<1>4. \A m, n \in Original : m < n => imetas[m].tid <= imetas[n].tid  BY <1>1 DEF FromGraph
<1>5. \A t \in 0 .. NumThreads - 1 : \E n \in Original : imetas[n].tid = t  BY <1>1 DEF FromGraph
<1> QED BY <1>2, <1>3, <1>4, <1>5

\* When two instructions conflict, the later one is unlocked by the earlier or by a writer between
\* them that conflicts with the earlier as well.
LEMMA LastPredecessor ==
  ASSUME TypesInv, ProgramInv, NEW m \in Original, NEW n \in Original, m < n, Conflict(m, n)
  PROVE  \E k \in Original : m <= k /\ k < n /\ n \in imetas[k].after /\ (k = m \/ Conflict(m, k))
<1>1. PICK w \in Works :
        /\ FromGraph(w) /\ Original = DOMAIN w /\ DOMAIN w = 1 .. Len(w) /\ Len(w) \in Nat
        /\ \A k \in Original : imetas[k] = w[k]
  BY ProgramFacts
<1> DEFINE touched == [k \in DOMAIN w |-> RangesOf(Registers(w[k]))]
           written == [k \in DOMAIN w |-> RangesOf({r \in Registers(w[k]) : ~r.read})]
<1>2. PICK loc \in Touched(imetas[m]) \cap Touched(imetas[n]) :
        loc \in Marked(imetas[m]) \cup Marked(imetas[n])
  BY DEF Conflict
<1>3. \A k \in Original : touched[k] = Touched(imetas[k]) /\ written[k] = Marked(imetas[k])
  BY <1>1 DEF Touched, Marked
<1>4. \A k \in Original :
        imetas[k].after = {j \in Original : j > k /\ \E l \in touched[k] \cap touched[j] : Orders(written, k, j, l)}
  <2>1. \A k \in DOMAIN w : w[k].after = UnlockedBy(w)[k]  BY <1>1 DEF FromGraph
  <2> QED BY <1>1, <2>1 DEF UnlockedBy
<1> HIDE DEF touched, written
<1> DEFINE between == {k \in m + 1 .. n - 1 : loc \in written[k]}
<1>5. m \in 1 .. Len(w) /\ n \in 1 .. Len(w)  BY <1>1
<1>6. between \subseteq Original  BY <1>1, <1>5
<1>7. CASE between = {}
  <2>1. Orders(written, m, n, loc)  BY <1>2, <1>3, <1>5, <1>7 DEF Orders
  <2>2. n \in imetas[m].after  BY <1>2, <1>3, <1>4, <1>5, <2>1
  <2> QED BY <1>5, <2>2
<1>8. CASE between # {}
  <2>1. between \in SUBSET Nat /\ \A k \in between : k <= Len(w)  BY <1>1, <1>5
  <2>2. PICK k \in between : \A j \in between : j <= k  BY <1>1, <1>8, <2>1, GreatestNumber
  <2>3. k \in Original /\ m < k /\ k < n  BY <1>5, <1>6
  <2>4. \A j \in k + 1 .. n - 1 : loc \notin written[j]  BY <1>5, <2>2, <2>3
  <2>5. Orders(written, k, n, loc)  BY <2>2, <2>4 DEF Orders
  <2>6. loc \in Touched(imetas[k]) /\ loc \in Marked(imetas[k])  BY <1>3, <2>3, WritesMarked
  <2>7. n \in imetas[k].after  BY <1>2, <1>3, <1>4, <2>3, <2>5, <2>6
  <2>8. Conflict(m, k)  BY <1>2, <2>6 DEF Conflict
  <2> QED BY <1>5, <2>3, <2>7, <2>8
<1> QED BY <1>7, <1>8

-----------------------------------------------------------------------------
(* Pieces *)

\* y does what x does to one word of the result.
IsPiece(y, x, i) ==
  /\ y \in InstrMeta
  /\ y.inst = x.inst /\ y.tid = x.tid
  /\ y.lin.engine \in {"alu", "flow"} /\ (y.lin.engine = "alu" => Ternary(y.lin))
  /\ Dest(y) = Dest(x) + i
  /\ WritesOf(y) = {Dest(y)}
  /\ ReadsOf(y) \subseteq Touched(x)
  /\ ReadsOf(y) \cap WritesOf(x) \subseteq WritesOf(y)

\* A register is a range of words.
LEMMA RegRangeFacts ==
  ASSUME NEW r \in Register
  PROVE  RegRange(r) = IF r.vec THEN r.addr .. r.addr + VLEN - 1 ELSE {r.addr}
<1>1. r.addr \in Nat /\ VLEN \in Nat \ {0}  BY VectorLength DEF Register
<1>2. CASE r.vec
  <2>1. RegRange(r) = r.addr .. (r.addr + (VLEN - 1))  BY <1>2 DEF RegRange
  <2>2. r.addr + (VLEN - 1) = r.addr + VLEN - 1  BY <1>1
  <2> QED BY <1>2, <2>1, <2>2
<1>3. CASE ~r.vec
  <2>1. RegRange(r) = r.addr .. (r.addr + 0)  BY <1>3 DEF RegRange
  <2>2. r.addr .. (r.addr + 0) = {r.addr}  BY <1>1
  <2> QED BY <1>3, <2>1, <2>2
<1> QED BY <1>2, <1>3

\* An instruction that is not a store writes its first register and reads the others.
LEMMA OperandFacts ==
  ASSUME NEW x, x.lin.engine # "store", x.lin.args \in Seq(Register), WritesFirst(x.lin.args)
  PROVE  /\ WritesOf(x) = RegRange(x.lin.args[1])
         /\ \A loc : loc \in ReadsOf(x) <=> \E k \in 2 .. Len(x.lin.args) : loc \in RegRange(x.lin.args[k])
         /\ \A k \in DOMAIN x.lin.args : RegRange(x.lin.args[k]) \subseteq Touched(x)
<1> DEFINE args == x.lin.args
<1>1. DOMAIN args = 1 .. Len(args) /\ Len(args) \in Nat /\ Len(args) > 0  BY DEF WritesFirst
<1>2. Registers(x) = {args[k] : k \in DOMAIN args}  BY DEF Registers, ToSet
<1>3. \A k \in DOMAIN args : args[k].read <=> k # 1  BY DEF WritesFirst
<1>4. ~Stores(x)  BY DEF Stores
<1> HIDE DEF args
<1>5. {q \in Registers(x) : ~q.read /\ ~Stores(x)} = {args[1]}  BY <1>1, <1>2, <1>3, <1>4
<1>6. {q \in Registers(x) : q.read \/ Stores(x)} = {args[k] : k \in 2 .. Len(args)}
  BY <1>1, <1>2, <1>3, <1>4
<1>7. WritesOf(x) = RegRange(args[1])  BY <1>5 DEF WritesOf
<1>8. ReadsOf(x) = UNION {RegRange(args[k]) : k \in 2 .. Len(args)}  BY <1>6 DEF ReadsOf
<1>9. \A k \in DOMAIN args : RegRange(args[k]) \subseteq Touched(x)  BY <1>2 DEF Touched, RangesOf
<1> QED BY <1>7, <1>8, <1>9 DEF args

\* A vector instruction writes a vector, and what else it reads is that one or is apart from it.
LEMMA VectorFacts ==
  ASSUME NEW x \in InstrMeta, x.lin.engine = "valu", VectorOperands(x.lin.op, x.lin.args)
  PROVE  /\ x.lin.args \in Seq(Register) /\ Dest(x) \in Nat
         /\ DOMAIN x.lin.args = 1 .. Len(x.lin.args) /\ Len(x.lin.args) \in Nat
         /\ x.lin.args[1] \in Register
         /\ WritesOf(x) = Dest(x) .. Dest(x) + VLEN - 1
         /\ x.lin.op # "vbroadcast" =>
              \A k \in DOMAIN x.lin.args :
                 /\ x.lin.args[k] \in Register
                 /\ x.lin.args[k].addr .. x.lin.args[k].addr + VLEN - 1 \subseteq Touched(x)
                 /\ \/ x.lin.args[k].addr = Dest(x)
                    \/ (x.lin.args[k].addr .. x.lin.args[k].addr + VLEN - 1) \cap WritesOf(x) = {}
<1>1. x.lin.args \in Seq(Register) /\ WritesFirst(x.lin.args) /\ x.lin.engine # "store"
  BY DEF VectorOperands, InstrMeta, LogicalInstruction
<1>2. DOMAIN x.lin.args = 1 .. Len(x.lin.args) /\ Len(x.lin.args) \in Nat /\ 1 \in DOMAIN x.lin.args
  BY <1>1 DEF WritesFirst
<1>3. \A k \in DOMAIN x.lin.args : x.lin.args[k] \in Register  BY <1>1, <1>2
<1>4. x.lin.args[1].addr \in Nat  BY <1>2, <1>3 DEF Register
<1>5. /\ WritesOf(x) = RegRange(x.lin.args[1])
      /\ \A k \in DOMAIN x.lin.args : RegRange(x.lin.args[k]) \subseteq Touched(x)
  BY <1>1, OperandFacts
<1>6. WritesOf(x) = Dest(x) .. Dest(x) + VLEN - 1
  BY <1>2, <1>3, <1>5, RegRangeFacts DEF VectorOperands, Dest
<1>7. ASSUME x.lin.op # "vbroadcast", NEW k \in DOMAIN x.lin.args
      PROVE  /\ x.lin.args[k].addr .. x.lin.args[k].addr + VLEN - 1 \subseteq Touched(x)
             /\ \/ x.lin.args[k].addr = Dest(x)
                \/ (x.lin.args[k].addr .. x.lin.args[k].addr + VLEN - 1) \cap WritesOf(x) = {}
  <2>1. /\ x.lin.args[k].vec
        /\ x.lin.args[k].addr = x.lin.args[1].addr \/ ~Overlaps(x.lin.args[k], x.lin.args[1])
    BY <1>7 DEF VectorOperands
  <2>2. RegRange(x.lin.args[k]) = x.lin.args[k].addr .. x.lin.args[k].addr + VLEN - 1
    BY <1>3, <2>1, RegRangeFacts
  <2> QED BY <1>5, <2>1, <2>2 DEF Overlaps, Dest
<1> QED BY <1>1, <1>2, <1>3, <1>4, <1>6, <1>7 DEF Dest

\* What it takes to be a piece of a vector instruction.
LEMMA PieceFacts ==
  ASSUME NEW x \in InstrMeta, x.lin.engine = "valu", VectorOperands(x.lin.op, x.lin.args),
         NEW i \in 0 .. VLEN - 1,
         NEW y \in InstrMeta, y.inst = x.inst, y.tid = x.tid,
         y.lin.engine \in {"alu", "flow"}, y.lin.engine = "alu" => Len(y.lin.args) = 3,
         WritesFirst(y.lin.args), Dest(y) = Dest(x) + i, ~y.lin.args[1].vec,
         \A k \in 2 .. Len(y.lin.args) :
            /\ RegRange(y.lin.args[k]) \subseteq Touched(x)
            /\ RegRange(y.lin.args[k]) \cap WritesOf(x) \subseteq {Dest(y)}
  PROVE  IsPiece(y, x, i)
<1>1. y.lin.args \in Seq(Register) /\ y.lin.engine # "store"  BY DEF InstrMeta, LogicalInstruction
<1>2. 1 \in DOMAIN y.lin.args /\ y.lin.args[1] \in Register  BY <1>1 DEF WritesFirst
<1>3. /\ WritesOf(y) = RegRange(y.lin.args[1])
      /\ \A loc : loc \in ReadsOf(y) <=> \E k \in 2 .. Len(y.lin.args) : loc \in RegRange(y.lin.args[k])
  BY <1>1, OperandFacts
<1>4. WritesOf(y) = {Dest(y)}  BY <1>2, <1>3, RegRangeFacts DEF Dest
<1>5. ReadsOf(y) \subseteq Touched(x) /\ ReadsOf(y) \cap WritesOf(x) \subseteq WritesOf(y)
  BY <1>3, <1>4
<1> QED BY <1>4, <1>5 DEF IsPiece, Ternary

AreLanes(lanes, args, i) ==
  /\ lanes \in Seq(Register) /\ Len(lanes) = Len(args)
  /\ \A k \in DOMAIN args :
       /\ lanes[k] \in Register
       /\ lanes[k].addr = args[k].addr + i /\ ~lanes[k].vec
       /\ lanes[k].read = args[k].read
       /\ RegRange(lanes[k]) = {args[k].addr + i}

\* The registers of a lane.
LEMMA LaneFacts ==
  ASSUME NEW args \in Seq(Register), NEW i \in 0 .. VLEN - 1
  PROVE  AreLanes(Lane(args, i), args, i)
<1>1. DOMAIN args = 1 .. Len(args) /\ Len(args) \in Nat  OBVIOUS
<1>2. \A k \in DOMAIN args : args[k] \in Register  OBVIOUS
<1>3. i \in Nat  BY VectorLength
<1>4. ASSUME NEW k \in DOMAIN args
      PROVE  /\ ScalarAtOffset(args[k], i) \in Register
             /\ ScalarAtOffset(args[k], i).addr = args[k].addr + i /\ ~ScalarAtOffset(args[k], i).vec
             /\ ScalarAtOffset(args[k], i).read = args[k].read
             /\ RegRange(ScalarAtOffset(args[k], i)) = {args[k].addr + i}
  <2>1. args[k].addr \in Nat /\ args[k].addr + i \in Nat  BY <1>2, <1>3 DEF Register
  <2>2. /\ ScalarAtOffset(args[k], i) \in Register
        /\ ScalarAtOffset(args[k], i).addr = args[k].addr + i /\ ~ScalarAtOffset(args[k], i).vec
        /\ ScalarAtOffset(args[k], i).read = args[k].read
    BY <1>2, <2>1 DEF Register, ScalarAtOffset
  <2> QED BY <2>2, RegRangeFacts
<1>5. Lane(args, i) = [k \in 1 .. Len(args) |-> ScalarAtOffset(args[k], i)]  BY <1>1 DEF Lane
<1>6. Lane(args, i) \in Seq(Register) /\ Len(Lane(args, i)) = Len(args)  BY <1>1, <1>4, <1>5
<1>7. \A k \in DOMAIN args : Lane(args, i)[k] = ScalarAtOffset(args[k], i)  BY <1>1, <1>5
<1> QED BY <1>4, <1>6, <1>7 DEF AreLanes

\* A piece has the fields that Part gives it.
LEMMA PartFacts ==
  ASSUME NEW x \in InstrMeta, NEW part \in {"whole", "lane", "product", "sum"},
         NEW engine \in {"valu", "alu", "load", "store", "flow"}, NEW op \in Opcodes,
         NEW args \in Seq(Register), NEW after \in SUBSET Nat
  PROVE  LET y == Part(x, part, engine, op, args, after)
         IN  /\ y \in InstrMeta
             /\ y.inst = x.inst /\ y.tid = x.tid /\ y.part = part /\ y.after = after
             /\ y.lin.engine = engine /\ y.lin.args = args /\ y.lin.op = op
<1>1. LI(engine, op, args) \in LogicalInstruction  BY DEF LI, LogicalInstruction
<1>2. /\ LI(engine, op, args).engine = engine /\ LI(engine, op, args).args = args
      /\ LI(engine, op, args).op = op
  BY DEF LI
<1> QED BY <1>1, <1>2 DEF Part, InstrMeta

\* A lane of an operand of a vector instruction.
LEMMA OperandLane ==
  ASSUME NEW x \in InstrMeta, x.lin.engine = "valu", VectorOperands(x.lin.op, x.lin.args),
         x.lin.op # "vbroadcast", NEW i \in 0 .. VLEN - 1, NEW k \in DOMAIN x.lin.args
  PROVE  /\ {x.lin.args[k].addr + i} \subseteq Touched(x)
         /\ {x.lin.args[k].addr + i} \cap WritesOf(x) \subseteq {Dest(x) + i}
<1>1. /\ x.lin.args[k] \in Register
      /\ x.lin.args[k].addr .. x.lin.args[k].addr + VLEN - 1 \subseteq Touched(x)
      /\ \/ x.lin.args[k].addr = Dest(x)
         \/ (x.lin.args[k].addr .. x.lin.args[k].addr + VLEN - 1) \cap WritesOf(x) = {}
  BY VectorFacts
<1>2. x.lin.args[k].addr \in Nat /\ VLEN \in Nat \ {0}  BY <1>1, VectorLength DEF Register
<1>3. x.lin.args[k].addr + i \in x.lin.args[k].addr .. x.lin.args[k].addr + VLEN - 1  BY <1>2
<1> QED BY <1>1, <1>3

\* dest = a op b, one lane of it.
LEMMA LanePiece ==
  ASSUME NEW x \in InstrMeta, x.lin.engine = "valu", VectorOperands(x.lin.op, x.lin.args),
         x.lin.op \notin {"vbroadcast", "multiply_add"}, NEW i \in 0 .. VLEN - 1
  PROVE  LET y == Part(x, "lane", "alu", x.lin.op, Lane(x.lin.args, i), x.after)
         IN  IsPiece(y, x, i) /\ y.part = "lane" /\ y.after = x.after
<1>1. /\ x.lin.args \in Seq(Register) /\ x.lin.op \in Opcodes /\ x.after \in SUBSET Nat
      /\ WritesFirst(x.lin.args) /\ Len(x.lin.args) = 3
  BY DEF InstrMeta, LogicalInstruction, VectorOperands
<1>0. PICK args : args = Lane(x.lin.args, i)  OBVIOUS
<1>2. /\ args \in Seq(Register) /\ Len(args) = 3
      /\ \A k \in DOMAIN x.lin.args :
           /\ args[k].addr = x.lin.args[k].addr + i /\ ~args[k].vec
           /\ args[k].read = x.lin.args[k].read
           /\ RegRange(args[k]) = {x.lin.args[k].addr + i}
  BY <1>0, <1>1, LaneFacts DEF AreLanes
<1>3. PICK y : y = Part(x, "lane", "alu", x.lin.op, args, x.after)  OBVIOUS
<1>4. /\ y \in InstrMeta
      /\ y.inst = x.inst /\ y.tid = x.tid /\ y.part = "lane" /\ y.after = x.after
      /\ y.lin.engine = "alu" /\ y.lin.args = args
  BY <1>1, <1>2, <1>3, PartFacts
<1>5. DOMAIN x.lin.args = 1 .. 3 /\ DOMAIN args = 1 .. 3  BY <1>1, <1>2
<1>6. WritesFirst(args)  BY <1>1, <1>2, <1>5 DEF WritesFirst
<1>7. Dest(y) = Dest(x) + i /\ ~y.lin.args[1].vec  BY <1>2, <1>4, <1>5 DEF Dest
<1>8. \A k \in 2 .. 3 : /\ RegRange(args[k]) \subseteq Touched(x)
                        /\ RegRange(args[k]) \cap WritesOf(x) \subseteq {Dest(y)}
  BY <1>2, <1>5, <1>7, OperandLane
<1>9. IsPiece(y, x, i)  BY <1>2, <1>4, <1>6, <1>7, <1>8, PieceFacts
<1> QED BY <1>0, <1>3, <1>4, <1>9

\* dest = src, one lane of it.
LEMMA BroadcastPiece ==
  ASSUME NEW x \in InstrMeta, x.lin.engine = "valu", VectorOperands(x.lin.op, x.lin.args),
         x.lin.op = "vbroadcast", ~Overlaps(x.lin.args[1], x.lin.args[2]), NEW i \in 0 .. VLEN - 1
  PROVE  LET y == Part(x, "lane", "alu", "|",
                       <<ScalarAtOffset(x.lin.args[1], i), x.lin.args[2], x.lin.args[2]>>, x.after)
         IN  IsPiece(y, x, i) /\ y.part = "lane" /\ y.after = x.after
<1>1. /\ x.lin.args \in Seq(Register) /\ x.lin.op \in Opcodes /\ x.after \in SUBSET Nat
      /\ WritesFirst(x.lin.args) /\ Len(x.lin.args) = 2 /\ x.lin.engine # "store"
  BY DEF InstrMeta, LogicalInstruction, VectorOperands
<1>2. DOMAIN x.lin.args = 1 .. 2 /\ x.lin.args[1] \in Register /\ x.lin.args[2] \in Register
  BY <1>1
<1>3. PICK lane \in Seq(Register) :
        /\ lane = Lane(x.lin.args, i) /\ Len(lane) = 2
        /\ \A k \in DOMAIN x.lin.args :
             /\ lane[k].addr = x.lin.args[k].addr + i /\ ~lane[k].vec
             /\ lane[k].read = x.lin.args[k].read
  BY <1>1, LaneFacts DEF AreLanes
<1>4. lane[1] = ScalarAtOffset(x.lin.args[1], i) /\ lane[1] \in Register  BY <1>2, <1>3 DEF Lane
<1>5. PICK args \in Seq(Register) : args = <<lane[1], x.lin.args[2], x.lin.args[2]>>
  <2>1. PICK src \in Register : src = x.lin.args[2]  BY <1>2
  <2>2. PICK dest \in Register : dest = lane[1]  BY <1>4
  <2>3. <<dest, src, src>> \in Seq(Register)  OBVIOUS
  <2> QED BY <2>1, <2>2, <2>3
<1>6. PICK y : y = Part(x, "lane", "alu", "|", args, x.after)  OBVIOUS
<1>0. "|" \in Opcodes  BY DEF Opcodes
<1>7. /\ y \in InstrMeta
      /\ y.inst = x.inst /\ y.tid = x.tid /\ y.part = "lane" /\ y.after = x.after
      /\ y.lin.engine = "alu" /\ y.lin.args = args
  BY <1>0, <1>1, <1>6, PartFacts
<1>8. Len(args) = 3 /\ DOMAIN args = 1 .. 3 /\ args[1] = lane[1] /\ args[2] = x.lin.args[2] /\ args[3] = x.lin.args[2]
  BY <1>5
<1>9. WritesFirst(args)
  <2>1. x.lin.args[2].read /\ ~x.lin.args[1].read  BY <1>1, <1>2 DEF WritesFirst
  <2> QED BY <1>2, <1>3, <1>8, <2>1 DEF WritesFirst
<1>10. Dest(y) = Dest(x) + i /\ ~y.lin.args[1].vec  BY <1>2, <1>3, <1>7, <1>8 DEF Dest
<1>11. /\ WritesOf(x) = RegRange(x.lin.args[1])
       /\ RegRange(x.lin.args[2]) \subseteq Touched(x)
  BY <1>1, <1>2, OperandFacts
<1>12. \A k \in 2 .. 3 : /\ RegRange(args[k]) \subseteq Touched(x)
                         /\ RegRange(args[k]) \cap WritesOf(x) \subseteq {Dest(y)}
  BY <1>8, <1>11 DEF Overlaps
<1>13. IsPiece(y, x, i)  BY <1>7, <1>8, <1>9, <1>10, <1>12, PieceFacts
<1> QED BY <1>4, <1>5, <1>6, <1>7, <1>13

\* dest = a * b + c, one lane of it: the product ...
LEMMA ProductPiece ==
  ASSUME NEW x \in InstrMeta, x.lin.engine = "valu", VectorOperands(x.lin.op, x.lin.args),
         x.lin.op = "multiply_add", NEW i \in 0 .. VLEN - 1, NEW j \in Nat
  PROVE  LET y == Product(x, i, j)
         IN  IsPiece(y, x, i) /\ y.part = "product" /\ y.after = {j}
<1>1. /\ x.lin.args \in Seq(Register) /\ {j} \in SUBSET Nat
      /\ WritesFirst(x.lin.args) /\ Len(x.lin.args) = 4
  BY DEF InstrMeta, LogicalInstruction, VectorOperands
<1>2. PICK three : three = SubSeq(x.lin.args, 1, 3)  OBVIOUS
<1>3. three \in Seq(Register) /\ Len(three) = 3 /\ \A k \in 1 .. 3 : three[k] = x.lin.args[k]
  BY <1>1, <1>2
<1>4. PICK args : args = Lane(three, i)  OBVIOUS
<1>5. DOMAIN x.lin.args = 1 .. 4 /\ DOMAIN three = 1 .. 3  BY <1>1, <1>3
<1>6. /\ args \in Seq(Register) /\ Len(args) = 3
      /\ \A k \in 1 .. 3 :
           /\ args[k].addr = x.lin.args[k].addr + i /\ ~args[k].vec
           /\ args[k].read = x.lin.args[k].read
           /\ RegRange(args[k]) = {x.lin.args[k].addr + i}
  <2>1. /\ args \in Seq(Register) /\ Len(args) = 3
        /\ \A k \in 1 .. 3 :
             /\ args[k].addr = three[k].addr + i /\ ~args[k].vec
             /\ args[k].read = three[k].read
             /\ RegRange(args[k]) = {three[k].addr + i}
    <3>1. AreLanes(args, three, i)  BY <1>3, <1>4, LaneFacts
    <3> QED BY <1>3, <1>5, <3>1 DEF AreLanes
  <2> QED BY <1>3, <2>1
<1>7. PICK y : y = Part(x, "product", "alu", "*", args, {j})  OBVIOUS
<1>8. "*" \in Opcodes  BY DEF Opcodes
<1>9. /\ y \in InstrMeta
      /\ y.inst = x.inst /\ y.tid = x.tid /\ y.part = "product" /\ y.after = {j}
      /\ y.lin.engine = "alu" /\ y.lin.args = args
  BY <1>1, <1>6, <1>7, <1>8, PartFacts
<1>10. WritesFirst(args)  BY <1>1, <1>5, <1>6 DEF WritesFirst
<1>11. Dest(y) = Dest(x) + i /\ ~y.lin.args[1].vec  BY <1>6, <1>9 DEF Dest
<1>12. \A k \in 2 .. 3 : /\ RegRange(args[k]) \subseteq Touched(x)
                         /\ RegRange(args[k]) \cap WritesOf(x) \subseteq {Dest(y)}
  BY <1>5, <1>6, <1>11, OperandLane
<1>13. IsPiece(y, x, i)  BY <1>6, <1>9, <1>10, <1>11, <1>12, PieceFacts
<1>14. y = Product(x, i, j)  BY <1>2, <1>4, <1>7 DEF Product
<1> QED BY <1>9, <1>13, <1>14

\* ... and the sum.
LEMMA SumPiece ==
  ASSUME NEW x \in InstrMeta, x.lin.engine = "valu", VectorOperands(x.lin.op, x.lin.args),
         x.lin.op = "multiply_add", NEW i \in 0 .. VLEN - 1
  PROVE  LET y == Sum(x, i)
         IN  IsPiece(y, x, i) /\ y.part = "sum" /\ y.after = x.after
<1>1. /\ x.lin.args \in Seq(Register) /\ x.after \in SUBSET Nat
      /\ WritesFirst(x.lin.args) /\ Len(x.lin.args) = 4
  BY DEF InstrMeta, LogicalInstruction, VectorOperands
<1>2. DOMAIN x.lin.args = 1 .. 4 /\ \A k \in 1 .. 4 : x.lin.args[k] \in Register  BY <1>1
<1>3. PICK dest \in Register : dest = x.lin.args[1]  BY <1>2
<1>4. PICK c \in Register : c = x.lin.args[4]  BY <1>2
<1>5. PICK read : read = [dest EXCEPT !.read = TRUE]  OBVIOUS
<1>6. read \in Register /\ read.addr = dest.addr /\ read.read  BY <1>5 DEF Register
<1>7. PICK three : three = <<dest, read, c>>  OBVIOUS
<1>8. /\ three \in Seq(Register) /\ Len(three) = 3 /\ DOMAIN three = 1 .. 3
      /\ three[1] = dest /\ three[2] = read /\ three[3] = c
  BY <1>6, <1>7
<1>9. PICK args : args = Lane(three, i)  OBVIOUS
<1>10. /\ args \in Seq(Register) /\ Len(args) = 3
       /\ \A k \in 1 .. 3 :
            /\ args[k].addr = three[k].addr + i /\ ~args[k].vec
            /\ args[k].read = three[k].read
            /\ RegRange(args[k]) = {three[k].addr + i}
  BY <1>8, <1>9, LaneFacts DEF AreLanes
<1>11. PICK y : y = Part(x, "sum", "alu", "+", args, x.after)  OBVIOUS
<1>12. "+" \in Opcodes  BY DEF Opcodes
<1>13. /\ y \in InstrMeta
       /\ y.inst = x.inst /\ y.tid = x.tid /\ y.part = "sum" /\ y.after = x.after
       /\ y.lin.engine = "alu" /\ y.lin.args = args
  BY <1>1, <1>10, <1>11, <1>12, PartFacts
<1>14. WritesFirst(args)
  <2>1. ~dest.read /\ c.read  BY <1>1, <1>2, <1>3, <1>4 DEF WritesFirst
  <2>2. DOMAIN args = 1 .. 3  BY <1>10
  <2> QED BY <1>6, <1>8, <1>10, <2>1, <2>2 DEF WritesFirst
<1>15. Dest(y) = Dest(x) + i /\ ~y.lin.args[1].vec  BY <1>3, <1>8, <1>10, <1>13 DEF Dest
<1>16. /\ {x.lin.args[1].addr + i} \subseteq Touched(x)
       /\ {x.lin.args[4].addr + i} \subseteq Touched(x)
       /\ {x.lin.args[4].addr + i} \cap WritesOf(x) \subseteq {Dest(x) + i}
  BY <1>2, OperandLane
<1>17. \A k \in 2 .. 3 : /\ RegRange(args[k]) \subseteq Touched(x)
                         /\ RegRange(args[k]) \cap WritesOf(x) \subseteq {Dest(y)}
  <2>1. /\ RegRange(args[2]) = {x.lin.args[1].addr + i}
        /\ RegRange(args[3]) = {x.lin.args[4].addr + i}
    BY <1>3, <1>4, <1>6, <1>8, <1>10
  <2>2. x.lin.args[1].addr + i = Dest(y)  BY <1>15 DEF Dest
  <2> QED BY <1>15, <1>16, <2>1, <2>2
<1>18. IsPiece(y, x, i)  BY <1>10, <1>13, <1>14, <1>15, <1>17, PieceFacts
<1>19. y = Sum(x, i)  BY <1>3, <1>4, <1>5, <1>7, <1>9, <1>11 DEF Sum
<1> QED BY <1>13, <1>18, <1>19

\* An add_imm has the fields of a part, and a number.
LEMMA AddImmFacts ==
  ASSUME NEW x \in InstrMeta, NEW part \in {"whole", "lane", "product", "sum"},
         NEW args \in Seq(Register), Len(args) = 3
  PROVE  LET y == AddImm(x, part, args)
         IN  /\ y \in InstrMeta
             /\ y.inst = x.inst /\ y.tid = x.tid /\ y.part = part /\ y.after = x.after
             /\ y.lin.engine = "flow"
             /\ y.lin.args \in Seq(Register) /\ Len(y.lin.args) = 2
             /\ y.lin.args[1] = args[1] /\ y.lin.args[2] = args[2]
<1>1. PICK two \in Seq(Register) :
        two = SubSeq(args, 1, 2) /\ Len(two) = 2 /\ two[1] = args[1] /\ two[2] = args[2]
  <2>1. SubSeq(args, 1, 2) \in Seq(Register) /\ Len(SubSeq(args, 1, 2)) = 2  OBVIOUS
  <2>2. SubSeq(args, 1, 2)[1] = args[1] /\ SubSeq(args, 1, 2)[2] = args[2]  OBVIOUS
  <2> QED BY <2>1, <2>2
<1>2. x.after \in SUBSET Nat /\ "add_imm" \in Opcodes  BY DEF InstrMeta, Opcodes
<1>3. PICK z : z = Part(x, part, "flow", "add_imm", two, x.after)  OBVIOUS
<1>4. /\ z \in InstrMeta
      /\ z.inst = x.inst /\ z.tid = x.tid /\ z.part = part /\ z.after = x.after
      /\ z.lin.engine = "flow" /\ z.lin.args = two
  BY <1>2, <1>3, PartFacts
<1>5. args[3] \in Register  OBVIOUS
<1>6. args[3].const \in Int  BY <1>5 DEF Register
<1>7. PICK y : y = [z EXCEPT !.lin.val = args[3].const]  OBVIOUS
<1>8. /\ y \in InstrMeta
      /\ y.inst = z.inst /\ y.tid = z.tid /\ y.part = z.part /\ y.after = z.after
      /\ y.lin.engine = z.lin.engine /\ y.lin.args = z.lin.args
  BY <1>4, <1>6, <1>7 DEF InstrMeta, LogicalInstruction
<1>9. y = AddImm(x, part, args)  BY <1>1, <1>3, <1>7 DEF AddImm
<1> QED BY <1>1, <1>4, <1>8, <1>9

\* A vector addition of a constant, one lane of it.
LEMMA ImmediatePiece ==
  ASSUME NEW x \in InstrMeta, x.lin.engine = "valu", VectorOperands(x.lin.op, x.lin.args),
         x.lin.op \notin {"vbroadcast", "multiply_add"}, NEW i \in 0 .. VLEN - 1
  PROVE  LET y == AddImm(x, "lane", Lane(x.lin.args, i))
         IN  IsPiece(y, x, i) /\ y.part = "lane" /\ y.after = x.after
<1>1. /\ x.lin.args \in Seq(Register)
      /\ WritesFirst(x.lin.args) /\ Len(x.lin.args) = 3
  BY DEF InstrMeta, LogicalInstruction, VectorOperands
<1>2. PICK args : args = Lane(x.lin.args, i)  OBVIOUS
<1>3. /\ args \in Seq(Register) /\ Len(args) = 3
      /\ \A k \in DOMAIN x.lin.args :
           /\ args[k].addr = x.lin.args[k].addr + i /\ ~args[k].vec
           /\ args[k].read = x.lin.args[k].read
           /\ RegRange(args[k]) = {x.lin.args[k].addr + i}
  BY <1>1, <1>2, LaneFacts DEF AreLanes
<1>4. DOMAIN x.lin.args = 1 .. 3  BY <1>1
<1>5. PICK y : y = AddImm(x, "lane", args)  OBVIOUS
<1>6. /\ y \in InstrMeta
      /\ y.inst = x.inst /\ y.tid = x.tid /\ y.part = "lane" /\ y.after = x.after
      /\ y.lin.engine = "flow"
      /\ y.lin.args \in Seq(Register) /\ Len(y.lin.args) = 2
      /\ y.lin.args[1] = args[1] /\ y.lin.args[2] = args[2]
  BY <1>3, <1>5, AddImmFacts
<1>7. WritesFirst(y.lin.args)
  <2>1. ~args[1].read /\ args[2].read  BY <1>1, <1>3, <1>4 DEF WritesFirst
  <2>2. DOMAIN y.lin.args = 1 .. 2  BY <1>6
  <2> QED BY <1>6, <2>1, <2>2 DEF WritesFirst
<1>8. Dest(y) = Dest(x) + i /\ ~y.lin.args[1].vec  BY <1>3, <1>4, <1>6 DEF Dest
<1>9. /\ {x.lin.args[2].addr + i} \subseteq Touched(x)
      /\ {x.lin.args[2].addr + i} \cap WritesOf(x) \subseteq {Dest(x) + i}
  BY <1>4, OperandLane
<1>10. \A k \in 2 .. 2 : /\ RegRange(y.lin.args[k]) \subseteq Touched(x)
                         /\ RegRange(y.lin.args[k]) \cap WritesOf(x) \subseteq {Dest(y)}
  BY <1>3, <1>4, <1>6, <1>8, <1>9
<1>11. IsPiece(y, x, i)  BY <1>6, <1>7, <1>8, <1>10, PieceFacts
<1> QED BY <1>2, <1>5, <1>6, <1>11

\* y does what x does, on another engine.
IsConverted(y, x) ==
  /\ y \in InstrMeta
  /\ y.inst = x.inst /\ y.tid = x.tid /\ y.part = x.part /\ y.after = x.after
  /\ y.lin.engine = "flow" /\ x.lin.engine = "alu"
  /\ Dest(y) = Dest(x) /\ WritesOf(y) = WritesOf(x) /\ ReadsOf(y) \subseteq ReadsOf(x)

\* A scalar addition of a constant.
LEMMA ConvertedPiece ==
  ASSUME NEW x \in InstrMeta, x.lin.engine = "alu", Ternary(x.lin)
  PROVE  IsConverted(AddImm(x, x.part, x.lin.args), x)
<1>1. /\ x.lin.args \in Seq(Register) /\ x.part \in {"whole", "lane", "product", "sum"}
      /\ WritesFirst(x.lin.args) /\ Len(x.lin.args) = 3
  BY DEF InstrMeta, LogicalInstruction, Ternary
<1>2. PICK y : y = AddImm(x, x.part, x.lin.args)  OBVIOUS
<1>3. /\ y \in InstrMeta
      /\ y.inst = x.inst /\ y.tid = x.tid /\ y.part = x.part /\ y.after = x.after
      /\ y.lin.engine = "flow"
      /\ y.lin.args \in Seq(Register) /\ Len(y.lin.args) = 2
      /\ y.lin.args[1] = x.lin.args[1] /\ y.lin.args[2] = x.lin.args[2]
  BY <1>1, <1>2, AddImmFacts
<1>4. DOMAIN x.lin.args = 1 .. 3 /\ DOMAIN y.lin.args = 1 .. 2  BY <1>1, <1>3
<1>5. WritesFirst(y.lin.args)  BY <1>1, <1>3, <1>4 DEF WritesFirst
<1>6. /\ WritesOf(y) = RegRange(y.lin.args[1])
      /\ \A loc : loc \in ReadsOf(y) <=> \E k \in 2 .. 2 : loc \in RegRange(y.lin.args[k])
  BY <1>3, <1>5, OperandFacts
<1>7. /\ WritesOf(x) = RegRange(x.lin.args[1])
      /\ \A loc : loc \in ReadsOf(x) <=> \E k \in 2 .. 3 : loc \in RegRange(x.lin.args[k])
  BY <1>1, OperandFacts
<1>8. ReadsOf(y) \subseteq ReadsOf(x)  BY <1>3, <1>6, <1>7
<1> QED BY <1>2, <1>3, <1>6, <1>7, <1>8 DEF IsConverted, Dest

-----------------------------------------------------------------------------
(* Consequences of the invariant *)

LEMMA PendingFinite ==
  ASSUME TypesInv, ProgramInv
  PROVE  IsFiniteSet(Pending) /\ IsFiniteSet(Issuable) /\ IsFiniteSet(Waiting)
<1> DEFINE S == {j \in DOMAIN imetas : incount[j] > 0}
           f == [j \in S |-> imetas[j]]
<1>1. IsFiniteSet(DOMAIN imetas)  BY ImetasFacts
<1>2. S \in SUBSET DOMAIN imetas  OBVIOUS
<1>3. IsFiniteSet(S)  BY <1>1, <1>2, FS_Subset
<1>4. Waiting = {imetas[i] : i \in S}  BY DEF Waiting
<1> HIDE DEF S
<1>5. f \in Surjection(S, Waiting)  BY <1>4 DEF Surjection
<1> HIDE DEF f
<1>6. IsFiniteSet(Waiting)  BY <1>3, <1>5, FS_Surjection
<1>7. IsFiniteSet(Issuable)  BY FS_Union DEF TypesInv, Issuable
<1>8. Pending = Issuable \cup Waiting  BY DEF Pending, Issuable
<1> QED BY <1>6, <1>7, <1>8, FS_Union

\* No two ids stand for the same instruction.
LEMMA ImetasApart ==
  ASSUME TypesInv, ProgramInv, SumsInv, NEW i \in DOMAIN imetas, NEW j \in DOMAIN imetas,
         imetas[i] = imetas[j]
  PROVE  i = j
<1>1. CASE i \in Original \/ j \in Original
  <2>1. i \in Original /\ j \in Original  BY <1>1, ImetasFacts
  <2> QED BY <2>1, ImetasFacts
<1>2. CASE i \notin Original /\ j \notin Original
  BY <1>2, ImetasFacts DEF SumsInv
<1> QED BY <1>1, <1>2

\* What waits, by its id.
LEMMA WaitingFacts ==
  ASSUME TypesInv, ProgramInv, SumsInv
  PROVE  /\ \A i \in DOMAIN imetas : imetas[i] \in Waiting <=> incount[i] > 0
         /\ \A x \in Waiting : \E i \in DOMAIN imetas : x = imetas[i] /\ incount[i] > 0
         /\ \A i \in Original : incount[i] > 0 => imetas[i] \in Pending /\ imetas[i].inst = i
<1>1. \A x \in Waiting : \E i \in DOMAIN imetas : x = imetas[i] /\ incount[i] > 0  BY DEF Waiting
<1>2. \A i \in DOMAIN imetas : incount[i] > 0 => imetas[i] \in Waiting  BY DEF Waiting
<1>3. ASSUME NEW i \in DOMAIN imetas, imetas[i] \in Waiting PROVE incount[i] > 0
  <2>1. PICK j \in DOMAIN imetas : imetas[i] = imetas[j] /\ incount[j] > 0  BY <1>1, <1>3
  <2>2. i = j  BY <2>1, ImetasApart
  <2> QED BY <2>1, <2>2
<1>4. \A i \in Original : incount[i] > 0 => imetas[i] \in Pending /\ imetas[i].inst = i
  BY <1>2, ImetasFacts DEF Pending
<1> QED BY <1>1, <1>2, <1>3, <1>4

\* What a piece unlocks, and that it is counted for it.
LEMMA AfterFacts ==
  ASSUME TypesInv, ProgramInv, HeapInv, NEW x \in Pending
  PROVE  /\ x.after \subseteq DOMAIN imetas
         /\ \A i \in x.after : incount[i] \in Nat /\ incount[i] > 0
<1>1. PieceOK(x)  BY DEF HeapInv, PieceInv
<1>2. x.inst \in Original /\ Original \subseteq DOMAIN imetas  BY <1>1, ImetasFacts DEF PieceOK
<1>3. imetas[x.inst].after \subseteq Original  BY <1>2, GraphFacts
<1>4. x.after \subseteq DOMAIN imetas  BY <1>1, <1>2, <1>3 DEF PieceOK, ProductOf
<1>5. ASSUME NEW i \in x.after PROVE incount[i] \in Nat /\ incount[i] > 0
  <2>1. incount[i] = Cardinality(Unlockers(i))  BY <1>4 DEF HeapInv, CountsInv
  <2>2. x \in Unlockers(i) /\ Unlockers(i) \in SUBSET Pending  BY DEF Unlockers
  <2>3. IsFiniteSet(Unlockers(i))  BY <2>2, PendingFinite, FS_Subset
  <2>4. Cardinality(Unlockers(i)) \in Nat /\ Cardinality(Unlockers(i)) # 0
    BY <2>2, <2>3, FS_CardinalityType, FS_EmptySet
  <2> QED BY <2>1, <2>4
<1> QED BY <1>4, <1>5

\* The sum of a pending product waits.
LEMMA SumWaits ==
  ASSUME TypesInv, ProgramInv, HeapInv, NEW x \in Pending, x.part = "product"
  PROVE  \E s \in Waiting : /\ s.part = "sum" /\ s.inst = x.inst /\ Dest(s) = Dest(x)
                            /\ s.after = imetas[x.inst].after /\ \E j \in DOMAIN imetas : s = imetas[j] /\ x.after = {j}
<1>1. PieceOK(x)  BY DEF HeapInv, PieceInv
<1>2. PICK j \in DOMAIN imetas : ProductOf(x, j)  BY <1>1 DEF PieceOK
<1>3. incount[j] > 0  BY <1>2, AfterFacts DEF ProductOf
<1>4. imetas[j] \in Waiting  BY <1>3, WaitingFacts DEF HeapInv
<1>5. PieceOK(imetas[j])  BY <1>4 DEF HeapInv, PieceInv, Pending
<1>6. imetas[j].after = imetas[x.inst].after  BY <1>2, <1>5 DEF PieceOK, ProductOf
<1> QED BY <1>2, <1>4, <1>6 DEF ProductOf

\* Whatever its pieces, an instruction that is pending is counted for those it unlocks.
LEMMA StillCounted ==
  ASSUME TypesInv, ProgramInv, HeapInv, NEW x \in Pending, NEW i \in imetas[x.inst].after
  PROVE  \E y \in Unlockers(i) : y.inst = x.inst /\ (y = x \/ y \in Waiting)
<1>1. PieceOK(x)  BY DEF HeapInv, PieceInv
<1>2. CASE x.part # "product"  BY <1>1, <1>2 DEF PieceOK, Unlockers
<1>3. CASE x.part = "product"
  <2>1. PICK s \in Waiting : s.inst = x.inst /\ s.after = imetas[x.inst].after  BY <1>3, SumWaits
  <2> QED BY <2>1 DEF Unlockers, Pending
<1> QED BY <1>2, <1>3

-----------------------------------------------------------------------------
(* Retiring *)

\* What one retirement does to the heap, without its intermediate sets.
Retired(x) ==
  /\ x \in free
  /\ imetas' = imetas
  /\ next_batch_tid' \in next_batch_tid .. NumThreads
  /\ incount' = [i \in DOMAIN incount |-> incount[i] - IF i \in x.after THEN 1 ELSE 0]
  /\ Issuable' = (Issuable \ {x}) \cup (Waiting \ Waiting')
  /\ Waiting' \subseteq Waiting
  /\ Pending' = Pending \ {x}
  /\ \A t \in -1 .. NumThreads - 1 :
       schedulable_count_by_tid'[t] =
         (IF t = x.tid THEN schedulable_count_by_tid[t] - 1 ELSE schedulable_count_by_tid[t])
           + Cardinality({y \in Waiting \ Waiting' : y.tid = t})

LEMMA RetireFacts ==
  ASSUME TypesInv, ProgramInv, HeapInv, NEW x \in to_retire, RetireOne(x)
  PROVE  Retired(x) /\ SidesInv'
<1> DEFINE t == x.tid
           dropped == [schedulable_count_by_tid EXCEPT ![t] = @ - 1]
           more == StartsAnother(dropped[t])
           batch == next_batch_tid + IF more THEN 1 ELSE 0
           ready == {imetas[i] : i \in {j \in x.after : incount[j] = 1}}
           waiting == frontier \cup {y \in ready : y.tid >= batch}
           fallen == IF more THEN FallDown(batch, waiting) ELSE {}
<1>1. /\ next_batch_tid' = batch
      /\ incount' = [i \in DOMAIN incount |-> incount[i] - IF i \in x.after THEN 1 ELSE 0]
      /\ free' = (free \ {x}) \cup {y \in ready : y.tid < batch} \cup fallen
      /\ frontier' = waiting \ fallen
      /\ schedulable_count_by_tid' = [u \in DOMAIN dropped |-> dropped[u] + SchedulableCount(u, ready)]
      /\ imetas' = imetas
  BY DEF RetireOne
<1>2. x \in free /\ x \in Pending /\ x \in Issuable /\ x \notin Waiting /\ x \notin frontier
  <2>1. x \in free  BY DEF TypesInv
  <2>2. x \in Pending /\ x \in Issuable  BY <2>1 DEF Pending, Issuable
  <2>3. x \notin Waiting  BY <2>2 DEF HeapInv, SidesInv
  <2>4. x.tid \in Int /\ next_batch_tid \in Int
    BY <2>2, Threads DEF HeapInv, PieceInv, PieceOK, InstrMeta, TypesInv
  <2>5. x \notin frontier  BY <2>1, <2>4 DEF HeapInv, SidesInv
  <2> QED BY <2>1, <2>2, <2>3, <2>5
<1>3. x.after \subseteq DOMAIN imetas /\ \A i \in x.after : incount[i] \in Nat /\ incount[i] > 0
  BY <1>2, AfterFacts
<1>4. \A y \in Pending : y.tid \in -1 .. NumThreads - 1
  BY DEF HeapInv, PieceInv, PieceOK, InstrMeta
<1>5. \A i \in DOMAIN imetas : incount[i] \in Nat /\ i \in DOMAIN incount  BY DEF TypesInv
<1>6. next_batch_tid \in Nat /\ next_batch_tid <= NumThreads /\ NumThreads \in Nat
  BY Threads DEF TypesInv
<1>7. batch \in next_batch_tid .. NumThreads  BY <1>6 DEF StartsAnother
<1>8. \A y : y \in ready <=> \E i \in x.after : incount[i] = 1 /\ y = imetas[i]  OBVIOUS
<1> HIDE DEF ready
<1>9. ready \subseteq Waiting
  BY <1>3, <1>8, WaitingFacts DEF HeapInv
<1>10. Waiting' = {imetas[i] : i \in {j \in DOMAIN imetas : incount'[j] > 0}}
  BY <1>1 DEF Waiting
<1>11. Waiting' = Waiting \ ready
  <2>1. ASSUME NEW y \in Waiting' PROVE y \in Waiting /\ y \notin ready
    <3>1. PICK i \in DOMAIN imetas : y = imetas[i] /\ incount'[i] > 0  BY <1>10
    <3>2. incount[i] > 0 /\ ~(i \in x.after /\ incount[i] = 1)  BY <1>1, <1>5, <3>1
    <3>3. y \in Waiting  BY <3>1, <3>2, WaitingFacts DEF HeapInv
    <3>4. ASSUME y \in ready PROVE FALSE
      <4>1. PICK j \in x.after : incount[j] = 1 /\ y = imetas[j]  BY <1>8, <3>4
      <4>2. i = j  BY <1>3, <3>1, <4>1, ImetasApart DEF HeapInv
      <4> QED BY <3>2, <4>1, <4>2
    <3> QED BY <3>3, <3>4
  <2>2. ASSUME NEW y \in Waiting, y \notin ready PROVE y \in Waiting'
    <3>1. PICK i \in DOMAIN imetas : y = imetas[i] /\ incount[i] > 0  BY WaitingFacts DEF HeapInv
    <3>2. incount'[i] > 0  BY <1>1, <1>5, <1>8, <2>2, <3>1
    <3> QED BY <1>10, <3>1, <3>2
  <2> QED BY <2>1, <2>2
<1>12. Waiting \ Waiting' = ready  BY <1>9, <1>11
<1> DEFINE keeps == {y \in ready : y.tid >= batch}
           enters == {y \in ready : y.tid < batch}
<1>13. \A y \in ready : y \in keeps \/ y \in enters
  BY <1>4, <1>6, <1>7, <1>9 DEF Pending
<1>14. fallen \subseteq waiting /\ \A y \in fallen : y.tid < batch  BY DEF FallDown
<1>15. Issuable' = (Issuable \ {x}) \cup ready
  <2>1. Issuable' = free' \cup frontier'  BY DEF Issuable
  <2>2. free' \cup frontier' = (free \ {x}) \cup enters \cup frontier \cup keeps
    BY <1>1, <1>14
  <2> HIDE DEF keeps, enters
  <2> QED BY <1>2, <1>13, <2>1, <2>2 DEF Issuable, keeps, enters
<1>16. Pending' = Pending \ {x}
  <2>1. Pending' = Issuable' \cup Waiting'  BY DEF Pending, Issuable
  <2>2. Pending = Issuable \cup Waiting  BY DEF Pending, Issuable
  <2> QED BY <1>2, <1>9, <1>11, <1>15, <2>1, <2>2
<1>17. ASSUME NEW u \in -1 .. NumThreads - 1
       PROVE  schedulable_count_by_tid'[u] =
                (IF u = x.tid THEN schedulable_count_by_tid[u] - 1 ELSE schedulable_count_by_tid[u])
                  + Cardinality({y \in Waiting \ Waiting' : y.tid = u})
  <2>1. u \in DOMAIN schedulable_count_by_tid  BY DEF TypesInv
  <2>2. SchedulableCount(u, ready) = Cardinality({y \in Waiting \ Waiting' : y.tid = u})
    BY <1>12 DEF SchedulableCount
  <2>3. dropped[u] = IF u = x.tid THEN schedulable_count_by_tid[u] - 1 ELSE schedulable_count_by_tid[u]
    BY <2>1
  <2>4. schedulable_count_by_tid'[u] = dropped[u] + SchedulableCount(u, ready)  BY <1>1, <2>1
  <2> HIDE DEF dropped
  <2> QED BY <2>2, <2>3, <2>4
<1>18. SidesInv'
  <2>1. ASSUME NEW y \in free' PROVE y.tid < next_batch_tid'
    <3>1. CASE y \in free \ {x}
      <4>1. y.tid < next_batch_tid /\ y.tid \in -1 .. NumThreads - 1
        BY <1>4, <3>1 DEF HeapInv, SidesInv, Pending
      <4> QED BY <1>1, <1>6, <1>7, <4>1
    <3>2. CASE y \in enters  BY <1>1, <3>2
    <3>3. CASE y \in fallen  BY <1>1, <1>14, <3>3
    <3> QED BY <1>1, <2>1, <3>1, <3>2, <3>3
  <2>2. ASSUME NEW y \in frontier' PROVE y.tid >= next_batch_tid'
    <3>1. y \in waiting /\ y \notin fallen  BY <1>1, <2>2
    <3>2. CASE y \in keeps  BY <1>1, <3>2
    <3>3. CASE y \in frontier
      <4>1. y.tid >= next_batch_tid /\ y.tid \in -1 .. NumThreads - 1
        BY <1>4, <3>3 DEF HeapInv, SidesInv, Pending
      <4>2. CASE more  BY <1>1, <1>6, <1>7, <3>1, <4>1, <4>2 DEF FallDown
      <4>3. CASE ~more  BY <1>1, <1>6, <4>1, <4>3
      <4> QED BY <4>2, <4>3
    <3> QED BY <3>1, <3>2, <3>3
  <2>3. Issuable' \cap Waiting' = {}
    BY <1>11, <1>15 DEF HeapInv, SidesInv
  <2> QED BY <2>1, <2>2, <2>3 DEF SidesInv
<1> QED BY <1>1, <1>2, <1>7, <1>11, <1>12, <1>15, <1>16, <1>17, <1>18 DEF Retired

LEMMA RetiredCounts ==
  ASSUME TypesInv, ProgramInv, HeapInv, NEW x, Retired(x)
  PROVE  CountsInv'
<1>1. /\ x \in Pending /\ x \in Issuable /\ imetas' = imetas /\ Pending' = Pending \ {x}
      /\ incount' = [i \in DOMAIN incount |-> incount[i] - IF i \in x.after THEN 1 ELSE 0]
      /\ Issuable' = (Issuable \ {x}) \cup (Waiting \ Waiting')
  BY DEF Retired, Pending, Issuable
<1>2. IsFiniteSet(Pending) /\ IsFiniteSet(Issuable) /\ IsFiniteSet(Waiting)  BY PendingFinite
<1>3. ASSUME NEW i \in DOMAIN imetas'
      PROVE  incount'[i] = Cardinality(Unlockers(i)')
  <2>1. i \in DOMAIN imetas /\ i \in DOMAIN incount /\ incount[i] = Cardinality(Unlockers(i))
    BY <1>1, <1>3 DEF TypesInv, HeapInv, CountsInv
  <2>2. incount'[i] = incount[i] - IF i \in x.after THEN 1 ELSE 0  BY <1>1, <2>1
  <2>3. Unlockers(i)' = Unlockers(i) \ {x}  BY <1>1 DEF Unlockers
  <2>4. Unlockers(i) \in SUBSET Pending  BY DEF Unlockers
  <2>5. IsFiniteSet(Unlockers(i))  BY <1>2, <2>4, FS_Subset
  <2>6. CASE i \in x.after
    <3>1. x \in Unlockers(i)  BY <1>1, <2>6 DEF Unlockers
    <3>2. Cardinality(Unlockers(i) \ {x}) = Cardinality(Unlockers(i)) - 1  BY <2>5, <3>1, FS_RemoveElement
    <3>3. incount'[i] = incount[i] - 1  BY <2>2, <2>6
    <3> QED BY <2>1, <2>3, <3>2, <3>3
  <2>7. CASE i \notin x.after
    <3>1. Unlockers(i) \ {x} = Unlockers(i)  BY <2>7 DEF Unlockers
    <3>2. Cardinality(Unlockers(i)) \in Nat  BY <2>5, FS_CardinalityType
    <3>3. incount'[i] = incount[i]  BY <2>1, <2>2, <2>7, <3>2
    <3> QED BY <2>1, <2>3, <3>1, <3>3
  <2> QED BY <2>6, <2>7
<1>4. ASSUME NEW t \in -1 .. NumThreads - 1
      PROVE  schedulable_count_by_tid'[t] = Cardinality(IssuableOf(t)')
  <2> DEFINE enters == {y \in Waiting \ Waiting' : y.tid = t}
             stays == IssuableOf(t) \ {x}
  <2>1. schedulable_count_by_tid[t] = Cardinality(IssuableOf(t))  BY DEF HeapInv, CountsInv
  <2>2. schedulable_count_by_tid'[t] =
          (IF t = x.tid THEN schedulable_count_by_tid[t] - 1 ELSE schedulable_count_by_tid[t]) + Cardinality(enters)
    BY DEF Retired
  <2>3. IssuableOf(t) \in SUBSET Issuable /\ enters \in SUBSET Waiting  BY DEF IssuableOf
  <2>4. IsFiniteSet(IssuableOf(t)) /\ IsFiniteSet(enters)  BY <1>2, <2>3, FS_Subset
  <2>5. IsFiniteSet(stays) /\ Cardinality(stays) = Cardinality(IssuableOf(t)) - (IF t = x.tid THEN 1 ELSE 0)
    <3>1. CASE t = x.tid
      <4>1. x \in IssuableOf(t)  BY <1>1, <3>1 DEF IssuableOf
      <4> QED BY <2>4, <3>1, <4>1, FS_RemoveElement
    <3>2. CASE t # x.tid
      <4>1. stays = IssuableOf(t)  BY <3>2 DEF IssuableOf
      <4>2. Cardinality(IssuableOf(t)) \in Nat  BY <2>4, FS_CardinalityType
      <4> QED BY <2>4, <3>2, <4>1, <4>2
    <3> QED BY <3>1, <3>2
  <2>6. IssuableOf(t)' = stays \cup enters  BY <1>1 DEF IssuableOf
  <2>7. stays \cap enters = {}  BY DEF HeapInv, SidesInv, IssuableOf
  <2> HIDE DEF stays, enters
  <2>8. Cardinality(stays \cup enters) = Cardinality(stays) + Cardinality(enters)
    <3>1. Cardinality(stays \cap enters) = 0  BY <2>7, FS_EmptySet
    <3>2. Cardinality(stays) \in Nat /\ Cardinality(enters) \in Nat  BY <2>4, <2>5, FS_CardinalityType
    <3>3. Cardinality(stays \cup enters) = Cardinality(stays) + Cardinality(enters) - Cardinality(stays \cap enters)
      BY <2>4, <2>5, FS_Union
    <3> QED BY <3>1, <3>2, <3>3
  <2>9. Cardinality(IssuableOf(t)) \in Nat /\ Cardinality(enters) \in Nat  BY <2>4, FS_CardinalityType
  <2> QED BY <2>1, <2>2, <2>5, <2>6, <2>8, <2>9
<1> QED BY <1>3, <1>4 DEF CountsInv

\* What retirement leaves of an instruction's last predecessor: the one that goes was the last to be
\* counted for n, so that a conflicting instruction which is still pending would be counted as well.
LEMMA RetiredOrder ==
  ASSUME TypesInv, ProgramInv, HeapInv, NEW x, Retired(x)
  PROVE  OrderInv'
<1>1. /\ x \in Pending /\ imetas' = imetas /\ Pending' = Pending \ {x}
      /\ incount' = [i \in DOMAIN incount |-> incount[i] - IF i \in x.after THEN 1 ELSE 0]
      /\ x \in Issuable
  BY DEF Retired, Pending, Issuable
<1>2. x \notin Waiting  BY <1>1 DEF HeapInv, SidesInv
<1> SUFFICES ASSUME NEW m \in Original, NEW n \in Original, m < n, incount'[n] = 0, Conflict(m, n),
                    NEW y \in Pending \ {x}, y.inst = m
             PROVE  FALSE
  BY <1>1 DEF OrderInv, Original, Conflict
<1>3. incount[n] # 0  BY DEF HeapInv, OrderInv
<1>4. n \in DOMAIN incount /\ m \in DOMAIN incount /\ \A i \in DOMAIN incount : incount[i] \in Nat
  BY ImetasFacts DEF TypesInv
<1>5. n \in x.after /\ incount[n] = 1  BY <1>1, <1>3, <1>4
<1>6. Unlockers(n) = {x}
  <2>1. incount[n] = Cardinality(Unlockers(n))  BY ImetasFacts DEF HeapInv, CountsInv
  <2>2. x \in Unlockers(n) /\ Unlockers(n) \in SUBSET Pending  BY <1>1, <1>5 DEF Unlockers
  <2>3. IsFiniteSet(Unlockers(n))  BY <2>2, PendingFinite, FS_Subset
  <2>4. IsFiniteSet(Unlockers(n) \ {x}) /\ Cardinality(Unlockers(n) \ {x}) = Cardinality(Unlockers(n)) - 1
    BY <2>2, <2>3, FS_RemoveElement
  <2>5. Unlockers(n) \ {x} = {}  BY <1>5, <2>1, <2>4, FS_EmptySet
  <2> QED BY <2>2, <2>5
<1>7. PICK k \in Original : m <= k /\ k < n /\ n \in imetas[k].after /\ (k = m \/ Conflict(m, k))
  BY LastPredecessor
<1>8. CASE k = m
  <2>1. PICK z \in Unlockers(n) : z.inst = y.inst /\ (z = y \/ z \in Waiting)  BY <1>7, <1>8, StillCounted
  <2> QED BY <1>2, <1>6, <2>1
<1>9. CASE k # m
  <2>1. m < k /\ Conflict(m, k)
    <3>1. m \in Nat /\ k \in Nat  BY ImetasFacts
    <3> QED BY <1>7, <1>9, <3>1
  <2>2. incount[k] # 0  BY <2>1 DEF HeapInv, OrderInv
  <2>3. incount[k] > 0  BY <1>4, <2>2, ImetasFacts DEF TypesInv
  <2>4. imetas[k] \in Waiting  BY <2>3, WaitingFacts, ImetasFacts DEF HeapInv
  <2>5. imetas[k] \in Unlockers(n)  BY <1>7, <2>4 DEF Unlockers, Pending
  <2> QED BY <1>2, <1>6, <2>4, <2>5
<1> QED BY <1>8, <1>9

LEMMA RetiredHeap ==
  ASSUME TypesInv, ProgramInv, HeapInv, NEW x, Retired(x), SidesInv'
  PROVE  HeapInv'
<1>1. /\ imetas' = imetas /\ Pending' = Pending \ {x}
      /\ incount' = [i \in DOMAIN incount |-> incount[i] - IF i \in x.after THEN 1 ELSE 0]
      /\ Issuable' = (Issuable \ {x}) \cup (Waiting \ Waiting')
      /\ x \in Pending
  BY DEF Retired, Pending
<1>2. SumsInv'  BY <1>1 DEF HeapInv, SumsInv
<1>3. PieceInv'
  <2>1. \A y : PieceOK(y)' <=> PieceOK(y)  BY <1>1 DEF PieceOK, ProductOf, Original, Addend
  <2> QED BY <1>1, <2>1 DEF HeapInv, PieceInv
<1>4. SplitInv'  BY <1>1 DEF HeapInv, SplitInv
<1>5. BegunInv'
  <2> SUFFICES ASSUME NEW y \in Pending', y \in Issuable' \/ y.part # "whole"
               PROVE  incount'[y.inst] = 0
    BY DEF BegunInv
  <2>1. y \in Pending /\ y.inst \in DOMAIN imetas
    BY <1>1, ImetasFacts DEF HeapInv, PieceInv, PieceOK
  <2>2. y.inst \in DOMAIN incount /\ incount[y.inst] \in Nat  BY <2>1 DEF TypesInv
  <2>3. CASE incount[y.inst] = 0
    <3>1. y.inst \notin x.after  BY <1>1, <2>3, AfterFacts
    <3> QED BY <1>1, <2>2, <2>3, <3>1
  <2>4. CASE incount[y.inst] # 0
    <3>1. y \notin Issuable /\ y.part = "whole"  BY <2>1, <2>4 DEF HeapInv, BegunInv
    <3>2. y \in Waiting /\ y \notin Waiting'  BY <1>1, <3>1
    <3>3. PICK i \in DOMAIN imetas : y = imetas[i] /\ incount[i] > 0  BY <3>2, WaitingFacts DEF HeapInv
    <3>4. i = y.inst  BY <3>1, <3>3, ImetasFacts
    <3>5. ~(incount'[i] > 0)  BY <1>1, <3>2, <3>3 DEF Waiting
    <3> QED BY <1>1, <2>2, <3>3, <3>4, <3>5
  <2> QED BY <2>3, <2>4
<1> QED BY <1>2, <1>3, <1>4, <1>5, RetiredCounts, RetiredOrder DEF HeapInv

LEMMA RetiredTypes ==
  ASSUME TypesInv, ProgramInv, HeapInv, NEW x \in to_retire, RetireOne(x), pc = "retire",
         pc' = IF Cardinality(to_retire) = 1 THEN "have_more" ELSE "retire"
  PROVE  TypesInv' /\ ProgramInv'
<1>1. Retired(x) /\ CountsInv'  BY RetireFacts, RetiredCounts
<1>2. /\ x \in Pending /\ imetas' = imetas
      /\ incount' = [i \in DOMAIN incount |-> incount[i] - IF i \in x.after THEN 1 ELSE 0]
      /\ Issuable' = (Issuable \ {x}) \cup (Waiting \ Waiting')
      /\ next_batch_tid' \in next_batch_tid .. NumThreads
  BY <1>1 DEF Retired, Pending
<1>3. IsFiniteSet(Issuable')
  <2>1. IsFiniteSet(Issuable \cup Waiting)  BY PendingFinite, FS_Union
  <2>2. Issuable' \in SUBSET (Issuable \cup Waiting)  BY <1>2
  <2> QED BY <2>1, <2>2, FS_Subset
<1>4. IsFiniteSet(free') /\ IsFiniteSet(frontier')
  <2>1. free' \in SUBSET Issuable' /\ frontier' \in SUBSET Issuable'  BY DEF Issuable
  <2> QED BY <1>3, <2>1, FS_Subset
<1>5. incount' \in [DOMAIN imetas' -> Nat]
  <2>1. \A i \in DOMAIN incount : i \in x.after => incount[i] > 0  BY <1>2, AfterFacts
  <2>2. \A i \in DOMAIN incount : incount[i] \in Nat  BY DEF TypesInv
  <2>3. DOMAIN incount = DOMAIN imetas  BY DEF TypesInv
  <2> QED BY <1>2, <2>1, <2>2, <2>3
<1>6. schedulable_count_by_tid' \in [-1 .. NumThreads - 1 -> Nat]
  <2>1. /\ DOMAIN schedulable_count_by_tid' = -1 .. NumThreads - 1
        /\ schedulable_count_by_tid' = [t \in DOMAIN schedulable_count_by_tid' |-> schedulable_count_by_tid'[t]]
    BY DEF RetireOne, TypesInv
  <2>2. ASSUME NEW t \in -1 .. NumThreads - 1 PROVE schedulable_count_by_tid'[t] \in Nat
    <3>1. schedulable_count_by_tid'[t] = Cardinality(IssuableOf(t)')  BY <1>1 DEF CountsInv
    <3>2. IssuableOf(t)' \in SUBSET Issuable'  BY DEF IssuableOf
    <3> QED BY <1>3, <3>1, <3>2, FS_Subset, FS_CardinalityType
  <2> QED BY <2>1, <2>2
<1>7. next_batch_tid' \in Conc .. NumThreads  BY <1>2, Threads DEF TypesInv
<1>8. to_retire' = to_retire \ {x} /\ to_retire' \subseteq free'  BY DEF RetireOne, TypesInv
<1>9. pc' \in {"have_more", "retire"}  OBVIOUS
<1>10. ASSUME pc' \in {"have_more", "valu", "done"} PROVE to_retire' = {}
  <2>1. IsFiniteSet(to_retire)  BY FS_Subset DEF TypesInv
  <2>2. Cardinality(to_retire) = 1  BY <1>10
  <2>3. IsFiniteSet(to_retire \ {x}) /\ Cardinality(to_retire \ {x}) = 0  BY <2>1, <2>2, FS_RemoveElement
  <2> QED BY <1>8, <2>3, FS_EmptySet
<1>11. DOMAIN scratch' = 0 .. ScratchSize - 1  BY DEF RetireOne, TypesInv
<1>12. TypesInv'
  <2>1. imetas' \in Seq(InstrMeta)  BY <1>2 DEF TypesInv
  <2> QED BY <1>4, <1>5, <1>6, <1>7, <1>8, <1>9, <1>10, <1>11, <2>1 DEF TypesInv
<1>13. ProgramInv'  BY <1>2 DEF ProgramInv
<1> QED BY <1>12, <1>13

-----------------------------------------------------------------------------
(* Recutting: what the splits of the alu and of the flow engine have in common *)

LaneNumbers == 0 .. VLEN - 1

\* Of the free instructions, those of c.wide are cut into lanes, and those of c.single are done on
\* another engine.  A lane has a front, which is free at once, and a back, which has the result;
\* they are two pieces for the multiply_adds, c.fused, and one piece for the others.
Recut(c) ==
  /\ c.wide \subseteq free /\ c.fused \subseteq c.wide /\ c.single \subseteq free
  /\ c.wide \cap c.single = {}
  /\ \A x \in c.wide : x.lin.engine = "valu"
  /\ \A x \in c.fused : Addend(x.inst) \cap WritesOf(x) = {}
  /\ \A x \in c.wide, i \in LaneNumbers :
       /\ IsPiece(c.front[<<x, i>>], x, i) /\ IsPiece(c.back[<<x, i>>], x, i)
       /\ c.back[<<x, i>>].after = x.after
       /\ x \notin c.fused => c.front[<<x, i>>] = c.back[<<x, i>>] /\ c.back[<<x, i>>].part = "lane"
       /\ x \in c.fused =>
            /\ c.front[<<x, i>>].part = "product" /\ c.back[<<x, i>>].part = "sum"
            /\ \E j \in DOMAIN imetas' \ DOMAIN imetas :
                 c.front[<<x, i>>].after = {j} /\ imetas'[j] = c.back[<<x, i>>]
  /\ \A x \in c.single : IsConverted(c.narrow[x], x)
  /\ imetas' \in Seq(InstrMeta)
  /\ DOMAIN imetas \subseteq DOMAIN imetas' /\ \A j \in DOMAIN imetas : imetas'[j] = imetas[j]
  /\ \A j \in DOMAIN imetas' \ DOMAIN imetas :
       \E x \in c.fused, i \in LaneNumbers : c.front[<<x, i>>].after = {j} /\ imetas'[j] = c.back[<<x, i>>]
  /\ free' = (free \ (c.wide \cup c.single))
               \cup {c.front[p] : p \in c.wide \X LaneNumbers} \cup {c.narrow[x] : x \in c.single}
  /\ incount' \in [DOMAIN imetas' -> Nat]
  /\ \A j \in DOMAIN imetas : incount'[j] = Widened(incount[j], {x \in c.wide : j \in x.after})
  /\ \A j \in DOMAIN imetas' \ DOMAIN imetas : incount'[j] = 1
  /\ schedulable_count_by_tid' = WidenedSchedulable(c.wide)
  /\ UNCHANGED <<frontier, next_batch_tid>>

\* y does all or part of what x was to do.
Descends(c, y, x) ==
  \/ x \notin c.wide \cup c.single /\ y = x
  \/ x \in c.single /\ y = c.narrow[x]
  \/ x \in c.wide /\ \E i \in LaneNumbers : y = c.front[<<x, i>>] \/ y = c.back[<<x, i>>]

\* What is cut is whole, and nothing else is pending of its instruction.
LEMMA WideFacts ==
  ASSUME TypesInv, ProgramInv, HeapInv, NEW c, Recut(c), NEW x \in c.wide
  PROVE  /\ x \in Pending /\ x \in Issuable /\ x \in InstrMeta /\ x.part = "whole"
         /\ x.inst \in Original /\ x = imetas[x.inst] /\ x.lin.engine = "valu"
         /\ VectorOperands(x.lin.op, x.lin.args)
         /\ Dest(x) \in Nat /\ WritesOf(x) = Dest(x) .. Dest(x) + VLEN - 1
         /\ incount[x.inst] = 0
         /\ \A y \in Pending : y.inst = x.inst => y = x
<1>1. x \in free /\ x.lin.engine = "valu"  BY DEF Recut
<1>2. x \in Pending /\ x \in Issuable  BY <1>1 DEF Pending, Issuable
<1>3. PieceOK(x)  BY <1>2 DEF HeapInv, PieceInv
<1>4. x \in InstrMeta /\ x.inst \in Original /\ x = imetas[x.inst]  BY <1>1, <1>3 DEF PieceOK
<1>5. imetas[x.inst].part = "whole"  BY <1>4, ImetasFacts
<1>6. imetas[x.inst].lin.engine = "valu"
         => VectorOperands(imetas[x.inst].lin.op, imetas[x.inst].lin.args)
  BY <1>4, GraphFacts
<1>7. x.part = "whole" /\ VectorOperands(x.lin.op, x.lin.args)  BY <1>1, <1>4, <1>5, <1>6
<1>8. Dest(x) \in Nat /\ WritesOf(x) = Dest(x) .. Dest(x) + VLEN - 1  BY <1>1, <1>4, <1>7, VectorFacts
<1>9. incount[x.inst] = 0  BY <1>2 DEF HeapInv, BegunInv
<1>10. \A y \in Pending : y.inst = x.inst => y = x  BY <1>2, <1>7 DEF HeapInv, SplitInv
<1> QED BY <1>1, <1>2, <1>4, <1>7, <1>8, <1>9, <1>10

\* The pieces are new.
LEMMA FreshFacts ==
  ASSUME TypesInv, ProgramInv, HeapInv, NEW c, Recut(c)
  PROVE  /\ \A x \in c.wide, i \in LaneNumbers : c.front[<<x, i>>] \notin Pending /\ c.back[<<x, i>>] \notin Pending
         /\ \A x \in c.single : c.narrow[x] \notin Pending
         /\ \A x \in c.single, y \in c.wide, i \in LaneNumbers :
              c.narrow[x] # c.front[<<y, i>>] /\ c.narrow[x] # c.back[<<y, i>>]
         /\ \A x, y \in c.single : c.narrow[x] = c.narrow[y] => x = y
<1>1. ASSUME NEW x \in c.wide, NEW i \in LaneNumbers, NEW y, IsPiece(y, x, i)
      PROVE  y \notin Pending
  <2>1. y.inst = x.inst /\ y.lin.engine # "valu"  BY <1>1 DEF IsPiece
  <2> QED BY <2>1, WideFacts
<1>2. \A x \in c.single : x \in Pending /\ IsConverted(c.narrow[x], x)  BY DEF Recut, Pending
<1>3. ASSUME NEW x \in c.single, c.narrow[x] \in Pending PROVE FALSE
  <2>1. x \in Pending /\ IsConverted(c.narrow[x], x)  BY <1>2
  <2> QED BY <1>3, <2>1 DEF HeapInv, SplitInv, IsConverted
<1>4. ASSUME NEW x \in c.single, NEW y \in c.wide, NEW i \in LaneNumbers, NEW z, IsPiece(z, y, i),
             c.narrow[x] = z
      PROVE  FALSE
  <2>1. x.inst = y.inst /\ x \in Pending  BY <1>2, <1>4 DEF IsPiece, IsConverted
  <2>2. x = y  BY <2>1, WideFacts
  <2> QED BY <2>2 DEF Recut
<1>5. ASSUME NEW x \in c.single, NEW y \in c.single, c.narrow[x] = c.narrow[y] PROVE x = y
  <2>1. x.inst = y.inst /\ x.part = y.part /\ Dest(x) = Dest(y)  BY <1>2, <1>5 DEF IsConverted
  <2> QED BY <1>2, <2>1 DEF HeapInv, SplitInv
<1>6. \A x \in c.wide, i \in LaneNumbers : IsPiece(c.front[<<x, i>>], x, i) /\ IsPiece(c.back[<<x, i>>], x, i)
  BY DEF Recut
<1>7. \A x \in c.wide, i \in LaneNumbers : c.front[<<x, i>>] \notin Pending /\ c.back[<<x, i>>] \notin Pending
  BY <1>1, <1>6
<1>8. \A x \in c.single, y \in c.wide, i \in LaneNumbers :
              c.narrow[x] # c.front[<<y, i>>] /\ c.narrow[x] # c.back[<<y, i>>]
  BY <1>4, <1>6
<1>9. \A x \in c.single : c.narrow[x] \notin Pending  BY <1>3
<1>10. \A x, y \in c.single : c.narrow[x] = c.narrow[y] => x = y  BY <1>5
<1> QED BY <1>7, <1>8, <1>9, <1>10

\* Different lanes have different destinations.
LEMMA LanesApart ==
  ASSUME TypesInv, ProgramInv, HeapInv, NEW c, Recut(c), NEW x \in c.wide, NEW y \in c.wide,
         NEW i \in LaneNumbers, NEW j \in LaneNumbers, NEW u, IsPiece(u, x, i), NEW v, IsPiece(v, y, j),
         u.inst = v.inst
  PROVE  x = y /\ (Dest(u) = Dest(v) => i = j)
<1>1. x.inst = y.inst  BY DEF IsPiece
<1>2. x = y  BY <1>1, WideFacts
<1>3. Dest(u) = Dest(x) + i /\ Dest(v) = Dest(x) + j  BY <1>2 DEF IsPiece
<1>4. Dest(x) \in Nat /\ i \in Nat /\ j \in Nat  BY WideFacts, VectorLength DEF LaneNumbers
<1> QED BY <1>2, <1>3, <1>4

\* What waited for nothing still does, and what waited still waits.
LEMMA RecutWaits ==
  ASSUME TypesInv, ProgramInv, HeapInv, NEW c, Recut(c), NEW j \in DOMAIN imetas
  PROVE  /\ incount'[j] \in Nat /\ (incount'[j] = 0 <=> incount[j] = 0)
         /\ IsFiniteSet({x \in c.wide : j \in x.after})
<1> DEFINE W == {x \in c.wide : j \in x.after}
<1>1. incount[j] \in Nat /\ incount'[j] = incount[j] + (VLEN - 1) * Cardinality(W)
  BY DEF TypesInv, Recut, Widened
<1>2. W \in SUBSET free  BY DEF Recut
<1>3. IsFiniteSet(W) /\ Cardinality(W) \in Nat  BY <1>2, FS_Subset, FS_CardinalityType DEF TypesInv
<1>4. CASE incount[j] = 0
  <2>1. W = {}  BY <1>4, WideFacts, AfterFacts
  <2>2. Cardinality(W) = 0  BY <2>1, FS_EmptySet
  <2>3. (VLEN - 1) * 0 = 0  BY VectorLength
  <2> QED BY <1>1, <1>3, <1>4, <2>2, <2>3
<1>5. CASE incount[j] # 0
  <2> HIDE DEF W
  <2>1. VLEN - 1 \in Nat  BY VectorLength
  <2>2. \A a, b \in Nat : a * b \in Nat  OBVIOUS
  <2>3. (VLEN - 1) * Cardinality(W) \in Nat  BY <1>3, <2>1, <2>2
  <2> QED BY <1>1, <1>3, <1>5, <2>3 DEF W
<1> QED BY <1>4, <1>5

LEMMA RecutSets ==
  ASSUME TypesInv, ProgramInv, HeapInv, NEW c, Recut(c)
  PROVE  /\ \A y : y \in Waiting' <=> \/ y \in Waiting
                                      \/ \E x \in c.fused, i \in LaneNumbers : y = c.back[<<x, i>>]
         /\ \A y : y \in Issuable' <=> \/ y \in Issuable \ (c.wide \cup c.single)
                                       \/ \E x \in c.wide, i \in LaneNumbers : y = c.front[<<x, i>>]
                                       \/ \E x \in c.single : y = c.narrow[x]
         /\ \A y : y \in Pending' <=> \E x \in Pending : Descends(c, y, x)
         /\ Original' = Original
<1>1. ASSUME NEW y
      PROVE  y \in Waiting' <=> \/ y \in Waiting
                                \/ \E x \in c.fused, i \in LaneNumbers : y = c.back[<<x, i>>]
  <2>1. y \in Waiting' <=> \E j \in DOMAIN imetas' : incount'[j] > 0 /\ y = imetas'[j]  BY DEF Waiting
  <2>2. \A j \in DOMAIN imetas : /\ j \in DOMAIN imetas' /\ imetas'[j] = imetas[j]
                                 /\ incount[j] \in Nat /\ incount'[j] \in Nat
                                 /\ incount'[j] = 0 <=> incount[j] = 0
    <3>1. \A j \in DOMAIN imetas : j \in DOMAIN imetas' /\ imetas'[j] = imetas[j]  BY DEF Recut
    <3>2. \A j \in DOMAIN imetas : incount[j] \in Nat  BY DEF TypesInv
    <3>3. \A j \in DOMAIN imetas : incount'[j] \in Nat /\ (incount'[j] = 0 <=> incount[j] = 0)
      BY RecutWaits
    <3> QED BY <3>1, <3>2, <3>3
  <2>3. \A j \in DOMAIN imetas : incount'[j] > 0 <=> incount[j] > 0  BY <2>2
  <2>4. \A j \in DOMAIN imetas' \ DOMAIN imetas :
          incount'[j] > 0 /\ \E x \in c.fused, i \in LaneNumbers : imetas'[j] = c.back[<<x, i>>]
    <3>1. \A j \in DOMAIN imetas' \ DOMAIN imetas : incount'[j] = 1  BY DEF Recut
    <3>2. \A j \in DOMAIN imetas' \ DOMAIN imetas :
            \E x \in c.fused, i \in LaneNumbers :
              c.front[<<x, i>>].after = {j} /\ imetas'[j] = c.back[<<x, i>>]
      BY Zenon DEF Recut
    <3> QED BY <3>1, <3>2
  <2>5. \A x \in c.fused, i \in LaneNumbers :
          \E j \in DOMAIN imetas' \ DOMAIN imetas : imetas'[j] = c.back[<<x, i>>]
    BY DEF Recut
  <2>6. y \in Waiting <=> \E j \in DOMAIN imetas : incount[j] > 0 /\ y = imetas[j]  BY DEF Waiting
  <2>7. ASSUME y \in Waiting'
        PROVE  y \in Waiting \/ \E x \in c.fused, i \in LaneNumbers : y = c.back[<<x, i>>]
    <3>1. PICK j \in DOMAIN imetas' : incount'[j] > 0 /\ y = imetas'[j]  BY <2>1, <2>7
    <3>2. CASE j \in DOMAIN imetas  BY <2>2, <2>3, <2>6, <3>1, <3>2
    <3>3. CASE j \notin DOMAIN imetas  BY <2>4, <3>1, <3>3
    <3> QED BY <3>2, <3>3
  <2>8. ASSUME y \in Waiting PROVE y \in Waiting'  BY <2>1, <2>2, <2>3, <2>6, <2>8
  <2>9. ASSUME NEW x \in c.fused, NEW i \in LaneNumbers, y = c.back[<<x, i>>] PROVE y \in Waiting'
    <3>1. PICK j \in DOMAIN imetas' \ DOMAIN imetas : imetas'[j] = y  BY <2>5, <2>9
    <3> QED BY <2>1, <2>4, <3>1
  <2> QED BY <2>7, <2>8, <2>9
<1>2. c.wide \cup c.single \subseteq free  BY DEF Recut
<1>3. ASSUME NEW y
      PROVE  y \in Issuable' <=> \/ y \in Issuable \ (c.wide \cup c.single)
                                 \/ \E x \in c.wide, i \in LaneNumbers : y = c.front[<<x, i>>]
                                 \/ \E x \in c.single : y = c.narrow[x]
  <2>1. \A x \in c.wide \cup c.single : x \in free /\ x \notin frontier
    <3> SUFFICES ASSUME NEW x \in c.wide \cup c.single PROVE x \in free /\ x \notin frontier  OBVIOUS
    <3>1. x \in free /\ x \in Pending  BY <1>2 DEF Pending
    <3>2. x.tid \in Int /\ next_batch_tid \in Int
      BY <3>1, Threads DEF HeapInv, PieceInv, PieceOK, InstrMeta, TypesInv
    <3> QED BY <3>1, <3>2 DEF HeapInv, SidesInv
  <2>2. frontier' = frontier  BY DEF Recut
  <2>3. y \in free' <=> \/ y \in free \ (c.wide \cup c.single)
                        \/ \E p \in c.wide \X LaneNumbers : y = c.front[p]
                        \/ \E x \in c.single : y = c.narrow[x]
    BY DEF Recut
  <2>4. (\E p \in c.wide \X LaneNumbers : y = c.front[p])
          <=> \E x \in c.wide, i \in LaneNumbers : y = c.front[<<x, i>>]
    <3>1. \A p \in c.wide \X LaneNumbers : p = <<p[1], p[2]>> /\ p[1] \in c.wide /\ p[2] \in LaneNumbers
      OBVIOUS
    <3>2. \A x \in c.wide, i \in LaneNumbers : <<x, i>> \in c.wide \X LaneNumbers  OBVIOUS
    <3> QED BY <3>1, <3>2
  <2> QED BY <2>1, <2>2, <2>3, <2>4 DEF Issuable
<1>4. ASSUME NEW y
      PROVE  y \in Pending' <=> \E x \in Pending : Descends(c, y, x)
  <2>1. y \in Pending' <=> y \in Issuable' \/ y \in Waiting'  BY DEF Pending, Issuable
  <2>2. \A x : x \in Pending <=> x \in Issuable \/ x \in Waiting  BY DEF Pending, Issuable
  <2>3. c.wide \cup c.single \subseteq Issuable /\ Issuable \cap Waiting = {}
    BY <1>2 DEF Issuable, HeapInv, SidesInv
  <2>4. /\ c.fused \subseteq c.wide
        /\ \A x \in c.wide, i \in LaneNumbers : x \notin c.fused => c.front[<<x, i>>] = c.back[<<x, i>>]
    BY DEF Recut
  <2>5. ASSUME y \in Issuable' PROVE \E x \in Pending : Descends(c, y, x)
    BY <1>3, <2>2, <2>3, <2>5 DEF Descends
  <2>6. ASSUME y \in Waiting' PROVE \E x \in Pending : Descends(c, y, x)
    <3>1. CASE y \in Waiting
      <4>1. y \in Pending /\ y \notin c.wide \cup c.single  BY <2>2, <2>3, <3>1
      <4> QED BY <4>1 DEF Descends
    <3>2. CASE \E x \in c.fused, i \in LaneNumbers : y = c.back[<<x, i>>]
      <4>1. PICK x \in c.fused, i \in LaneNumbers : y = c.back[<<x, i>>]  BY <3>2
      <4>2. x \in c.wide /\ x \in Pending  BY <2>2, <2>3, <2>4
      <4> QED BY <4>1, <4>2 DEF Descends
    <3> QED BY <1>1, <2>6, <3>1, <3>2
  <2>7. ASSUME NEW x \in Pending, Descends(c, y, x) PROVE y \in Issuable' \/ y \in Waiting'
    <3>1. CASE x \notin c.wide \cup c.single /\ y = x  BY <1>1, <1>3, <2>2, <3>1
    <3>2. CASE x \in c.single /\ y = c.narrow[x]  BY <1>3, <3>2
    <3>3. CASE x \in c.wide /\ \E i \in LaneNumbers : y = c.front[<<x, i>>] \/ y = c.back[<<x, i>>]
      <4>1. PICK i \in LaneNumbers : y = c.front[<<x, i>>] \/ y = c.back[<<x, i>>]  BY <3>3
      <4>2. CASE y = c.front[<<x, i>>]  BY <1>3, <3>3, <4>2
      <4>3. CASE y = c.back[<<x, i>>] /\ x \in c.fused  BY <1>1, <4>3
      <4>4. CASE y = c.back[<<x, i>>] /\ x \notin c.fused  BY <1>3, <2>4, <3>3, <4>4
      <4> QED BY <4>1, <4>2, <4>3, <4>4
    <3> QED BY <2>7, <3>1, <3>2, <3>3 DEF Descends
  <2> QED BY <2>1, <2>5, <2>6, <2>7
<1>5. Original' = Original
  <2>1. \A j \in DOMAIN imetas : j \in DOMAIN imetas' /\ imetas'[j] = imetas[j]  BY DEF Recut
  <2>2. ASSUME NEW j \in DOMAIN imetas' \ DOMAIN imetas PROVE imetas'[j].inst # j
    <3>1. PICK x \in c.wide, i \in LaneNumbers : imetas'[j] = c.back[<<x, i>>] /\ IsPiece(c.back[<<x, i>>], x, i)
      BY DEF Recut
    <3>2. imetas'[j].inst \in Original  BY <3>1, WideFacts DEF IsPiece
    <3>3. imetas'[j].inst \in DOMAIN imetas  BY <3>2, ImetasFacts
    <3> QED BY <3>3
  <2> QED BY <2>1, <2>2 DEF Original
<1> QED BY <1>1, <1>3, <1>4, <1>5

\* What a descendant shares with its origin.
LEMMA DescendsFacts ==
  ASSUME TypesInv, ProgramInv, HeapInv, NEW c, Recut(c), NEW x \in Pending, NEW y, Descends(c, y, x)
  PROVE  /\ y \in InstrMeta /\ y.inst = x.inst /\ y.tid = x.tid
         /\ x \notin c.wide => /\ y.part = x.part /\ Dest(y) = Dest(x) /\ y.after = x.after
                               /\ WritesOf(y) = WritesOf(x) /\ ReadsOf(y) \subseteq ReadsOf(x)
                               /\ y.lin.engine \in {"valu", "alu"} => y = x
         /\ x \in c.wide => \E i \in LaneNumbers :
              /\ IsPiece(y, x, i)
              /\ \/ x \notin c.fused /\ y = c.back[<<x, i>>] /\ y.part = "lane" /\ y.after = x.after
                 \/ x \in c.fused /\ y = c.front[<<x, i>>] /\ y.part = "product"
                 \/ x \in c.fused /\ y = c.back[<<x, i>>] /\ y.part = "sum" /\ y.after = x.after
<1>1. x \in InstrMeta  BY DEF HeapInv, PieceInv, PieceOK
<1>2. CASE x \notin c.wide \cup c.single /\ y = x  BY <1>1, <1>2
<1>3. CASE x \in c.single /\ y = c.narrow[x]
  <2>1. IsConverted(y, x) /\ x \notin c.wide  BY <1>3 DEF Recut
  <2> QED BY <2>1 DEF IsConverted
<1>4. CASE x \in c.wide /\ \E i \in LaneNumbers : y = c.front[<<x, i>>] \/ y = c.back[<<x, i>>]
  <2>1. PICK i \in LaneNumbers : y = c.front[<<x, i>>] \/ y = c.back[<<x, i>>]  BY <1>4
  <2>2. IsPiece(y, x, i)  BY <1>4, <2>1 DEF Recut
  <2>3. /\ c.back[<<x, i>>].after = x.after
        /\ x \notin c.fused => c.front[<<x, i>>] = c.back[<<x, i>>] /\ c.back[<<x, i>>].part = "lane"
        /\ x \in c.fused => c.front[<<x, i>>].part = "product" /\ c.back[<<x, i>>].part = "sum"
    BY <1>4 DEF Recut
  <2>4. y \in InstrMeta /\ y.inst = x.inst /\ y.tid = x.tid  BY <2>2 DEF IsPiece
  <2> QED BY <1>4, <2>1, <2>2, <2>3, <2>4
<1> QED BY <1>2, <1>3, <1>4 DEF Descends

LEMMA RecutSplitInv ==
  ASSUME TypesInv, ProgramInv, HeapInv, NEW c, Recut(c)
  PROVE  SplitInv'
<1> SUFFICES ASSUME NEW u \in Pending', NEW v \in Pending', u # v, u.inst = v.inst
             PROVE  /\ u.part # "whole"
                    /\ u.part = "lane" => v.part = "lane"
                    /\ u.part = v.part => Dest(u) # Dest(v)
  BY DEF SplitInv
<1>1. PICK x \in Pending : Descends(c, u, x)  BY RecutSets
<1>2. PICK y \in Pending : Descends(c, v, y)  BY RecutSets
<1>3. x.inst = y.inst  BY <1>1, <1>2, DescendsFacts
<1>4. CASE x \in c.wide \/ y \in c.wide
  <2>1. x = y /\ x \in c.wide  BY <1>3, <1>4, WideFacts
  <2>2. PICK i \in LaneNumbers :
          /\ IsPiece(u, x, i)
          /\ \/ x \notin c.fused /\ u = c.back[<<x, i>>] /\ u.part = "lane"
             \/ x \in c.fused /\ u = c.front[<<x, i>>] /\ u.part = "product"
             \/ x \in c.fused /\ u = c.back[<<x, i>>] /\ u.part = "sum"
    BY <1>1, <2>1, DescendsFacts
  <2>3. PICK j \in LaneNumbers :
          /\ IsPiece(v, x, j)
          /\ \/ x \notin c.fused /\ v = c.back[<<x, j>>] /\ v.part = "lane"
             \/ x \in c.fused /\ v = c.front[<<x, j>>] /\ v.part = "product"
             \/ x \in c.fused /\ v = c.back[<<x, j>>] /\ v.part = "sum"
    BY <1>2, <2>1, DescendsFacts
  <2>4. Dest(u) = Dest(v) => i = j  BY <2>1, <2>2, <2>3, LanesApart
  <2> QED BY <2>2, <2>3, <2>4
<1>5. CASE x \notin c.wide /\ y \notin c.wide
  <2>1. u.part = x.part /\ Dest(u) = Dest(x) /\ v.part = y.part /\ Dest(v) = Dest(y)
    BY <1>1, <1>2, <1>5, DescendsFacts
  <2>2. x # y  BY <1>1, <1>2, <1>5 DEF Descends
  <2> QED BY <1>3, <2>1, <2>2 DEF HeapInv, SplitInv
<1> QED BY <1>4, <1>5

LEMMA RecutSumsInv ==
  ASSUME TypesInv, ProgramInv, HeapInv, NEW c, Recut(c)
  PROVE  SumsInv'
<1>1. \A j \in DOMAIN imetas : imetas'[j] = imetas[j]  BY DEF Recut
<1>2. \A j \in DOMAIN imetas' \ DOMAIN imetas :
        \E x \in c.fused, i \in LaneNumbers :
          /\ x \in c.wide /\ IsPiece(c.back[<<x, i>>], x, i)
          /\ c.front[<<x, i>>].after = {j} /\ imetas'[j] = c.back[<<x, i>>]
  <2>1. \A j \in DOMAIN imetas' \ DOMAIN imetas :
          \E x \in c.fused, i \in LaneNumbers :
            c.front[<<x, i>>].after = {j} /\ imetas'[j] = c.back[<<x, i>>]
    BY DEF Recut
  <2>2. \A x \in c.wide, i \in LaneNumbers : IsPiece(c.back[<<x, i>>], x, i)  BY DEF Recut
  <2>3. c.fused \subseteq c.wide  BY DEF Recut
  <2> QED BY <2>1, <2>2, <2>3
<1>3. ASSUME NEW i \in DOMAIN imetas', NEW j \in DOMAIN imetas', i # j,
             imetas'[i].part = "sum", imetas'[j].part = "sum", imetas'[i].inst = imetas'[j].inst
      PROVE  Dest(imetas'[i]) # Dest(imetas'[j])
  <2>1. ASSUME NEW k \in DOMAIN imetas, imetas'[k].part = "sum",
               NEW l \in DOMAIN imetas' \ DOMAIN imetas, imetas'[k].inst = imetas'[l].inst
        PROVE  FALSE
    <3>1. PICK x \in c.wide, a \in LaneNumbers : imetas'[l] = c.back[<<x, a>>] /\ IsPiece(c.back[<<x, a>>], x, a)
      BY <1>2
    <3>2. imetas[k].part = "sum" /\ x.inst = imetas[k].inst  BY <1>1, <2>1, <3>1 DEF IsPiece
    <3>3. x \in Pending /\ x.part = "whole"  BY WideFacts
    <3> QED BY <3>2, <3>3 DEF HeapInv, SumsInv
  <2>2. CASE i \in DOMAIN imetas /\ j \in DOMAIN imetas  BY <1>1, <1>3, <2>2 DEF HeapInv, SumsInv
  <2>3. CASE i \notin DOMAIN imetas /\ j \notin DOMAIN imetas
    <3>1. PICK x \in c.fused, a \in LaneNumbers :
            /\ x \in c.wide /\ IsPiece(c.back[<<x, a>>], x, a)
            /\ c.front[<<x, a>>].after = {i} /\ imetas'[i] = c.back[<<x, a>>]
      BY <1>2, <2>3
    <3>2. PICK y \in c.fused, b \in LaneNumbers :
            /\ y \in c.wide /\ IsPiece(c.back[<<y, b>>], y, b)
            /\ c.front[<<y, b>>].after = {j} /\ imetas'[j] = c.back[<<y, b>>]
      BY <1>2, <2>3
    <3>3. x = y /\ (Dest(imetas'[i]) = Dest(imetas'[j]) => a = b)
      BY <1>3, <3>1, <3>2, LanesApart
    <3>4. x # y \/ a # b  BY <1>3, <3>1, <3>2
    <3> QED BY <3>3, <3>4
  <2> QED BY <1>3, <2>1, <2>2, <2>3
<1>4. ASSUME NEW j \in DOMAIN imetas', NEW u \in Pending', imetas'[j].part = "sum", u.inst = imetas'[j].inst
      PROVE  u.part # "whole"
  <2>1. PICK x \in Pending : Descends(c, u, x)  BY RecutSets
  <2>2. u.inst = x.inst  BY <2>1, DescendsFacts
  <2>3. CASE j \in DOMAIN imetas
    <3>1. x.part # "whole"  BY <1>1, <1>4, <2>2, <2>3 DEF HeapInv, SumsInv
    <3>2. x \notin c.wide  BY <3>1, WideFacts
    <3> QED BY <2>1, <3>1, <3>2, DescendsFacts
  <2>4. CASE j \notin DOMAIN imetas
    <3>1. PICK y \in c.wide, a \in LaneNumbers : imetas'[j] = c.back[<<y, a>>] /\ IsPiece(c.back[<<y, a>>], y, a)
      BY <1>2, <2>4
    <3>2. x.inst = y.inst  BY <1>4, <2>2, <3>1 DEF IsPiece
    <3>3. x \in c.wide  BY <3>2, WideFacts
    <3>4. u.part \in {"lane", "product", "sum"}  BY <2>1, <3>3, DescendsFacts
    <3> QED BY <3>4
  <2> QED BY <2>3, <2>4
<1> QED BY <1>3, <1>4 DEF SumsInv

LEMMA RecutPieceInv ==
  ASSUME TypesInv, ProgramInv, HeapInv, NEW c, Recut(c)
  PROVE  PieceInv'
<1>1. /\ Original' = Original
      /\ \A j \in DOMAIN imetas : j \in DOMAIN imetas' /\ imetas'[j] = imetas[j]
  <2>1. Original' = Original  BY RecutSets
  <2>2. \A j \in DOMAIN imetas : j \in DOMAIN imetas' /\ imetas'[j] = imetas[j]  BY DEF Recut
  <2> QED BY <2>1, <2>2
<1> SUFFICES ASSUME NEW y \in Pending' PROVE PieceOK(y)'
  BY DEF PieceInv
<1>2. PICK x \in Pending : Descends(c, y, x)  BY RecutSets
<1>3. PieceOK(x)  BY DEF HeapInv, PieceInv
<1>4. /\ y \in InstrMeta /\ y.inst = x.inst /\ y.tid = x.tid
      /\ x.inst \in Original /\ imetas'[x.inst] = imetas[x.inst]
  BY <1>1, <1>2, <1>3, DescendsFacts, ImetasFacts DEF PieceOK
<1>5. CASE x \notin c.wide
  <2>1. /\ y.part = x.part /\ Dest(y) = Dest(x) /\ y.after = x.after
        /\ WritesOf(y) = WritesOf(x) /\ ReadsOf(y) \subseteq ReadsOf(x)
        /\ y.lin.engine \in {"valu", "alu"} => y = x
    BY <1>2, <1>5, DescendsFacts
  <2>2. /\ x.tid = imetas[x.inst].tid
        /\ IF x.part = "product" THEN \E j \in DOMAIN imetas : ProductOf(x, j)
           ELSE x.after = imetas[x.inst].after
        /\ x.lin.engine = "valu" => x = imetas[x.inst]
        /\ x.lin.engine = "alu" => Ternary(x.lin)
        /\ ReadsOf(x) \subseteq Touched(imetas[x.inst])
        /\ ReadsOf(x) \cap WritesOf(imetas[x.inst]) \subseteq WritesOf(x)
        /\ WritesOf(x) \subseteq WritesOf(imetas[x.inst])
        /\ IF x.part = "whole" THEN WritesOf(x) = WritesOf(imetas[x.inst]) ELSE WritesOf(x) = {Dest(x)}
        /\ x.part = "sum" => Addend(x.inst) \cap WritesOf(imetas[x.inst]) = {}
    BY <1>3 DEF PieceOK
  <2>3. y.lin.engine = "valu" => y = imetas'[y.inst]  BY <1>4, <2>1, <2>2
  <2>4. y.lin.engine = "alu" => Ternary(y.lin)  BY <2>1, <2>2
  <2>5. /\ ReadsOf(y) \subseteq Touched(imetas'[y.inst])
        /\ ReadsOf(y) \cap WritesOf(imetas'[y.inst]) \subseteq WritesOf(y)
        /\ WritesOf(y) \subseteq WritesOf(imetas'[y.inst])
        /\ IF y.part = "whole" THEN WritesOf(y) = WritesOf(imetas'[y.inst]) ELSE WritesOf(y) = {Dest(y)}
    BY <1>4, <2>1, <2>2
  <2>6. IF y.part = "product" THEN \E j \in DOMAIN imetas' : ProductOf(y, j)' ELSE y.after = imetas'[y.inst].after
    BY <1>1, <1>4, <2>1, <2>2 DEF ProductOf
  <2>7. y.part = "sum" => Addend(y.inst)' \cap WritesOf(imetas'[y.inst]) = {}
    BY <1>4, <2>1, <2>2 DEF Addend
  <2> QED BY <1>1, <1>4, <2>2, <2>3, <2>4, <2>5, <2>6, <2>7 DEF PieceOK
<1>6. CASE x \in c.wide
  <2>1. PICK i \in LaneNumbers :
          /\ IsPiece(y, x, i)
          /\ \/ x \notin c.fused /\ y = c.back[<<x, i>>] /\ y.part = "lane" /\ y.after = x.after
             \/ x \in c.fused /\ y = c.front[<<x, i>>] /\ y.part = "product"
             \/ x \in c.fused /\ y = c.back[<<x, i>>] /\ y.part = "sum" /\ y.after = x.after
    <3>1. Descends(c, y, x)  BY <1>2
    <3> QED BY <1>6, <3>1, DescendsFacts, SMTT(60)
  <2>2. x = imetas'[y.inst] /\ Dest(x) \in Nat /\ WritesOf(x) = Dest(x) .. Dest(x) + VLEN - 1
    BY <1>4, <1>6, WideFacts
  <2>3. y.lin.engine # "valu" /\ (y.lin.engine = "alu" => Ternary(y.lin))  BY <2>1 DEF IsPiece
  <2>4. /\ ReadsOf(y) \subseteq Touched(x) /\ ReadsOf(y) \cap WritesOf(x) \subseteq WritesOf(y)
        /\ WritesOf(y) = {Dest(y)} /\ Dest(y) = Dest(x) + i
    BY <2>1 DEF IsPiece
  <2>5. Dest(y) \in WritesOf(x)  BY <2>2, <2>4, VectorLength DEF LaneNumbers
  <2>6. y.part = "product" => \E j \in DOMAIN imetas' : ProductOf(y, j)'
    <3> SUFFICES ASSUME y.part = "product" PROVE \E j \in DOMAIN imetas' : ProductOf(y, j)'  OBVIOUS
    <3>1. x \in c.fused /\ y = c.front[<<x, i>>]  BY <2>1
    <3>2. PICK j \in DOMAIN imetas' : y.after = {j} /\ imetas'[j] = c.back[<<x, i>>]
      BY <1>6, <3>1 DEF Recut
    <3>3. IsPiece(c.back[<<x, i>>], x, i) /\ c.back[<<x, i>>].part = "sum"  BY <1>6, <3>1 DEF Recut
    <3>4. imetas'[j].part = "sum" /\ imetas'[j].inst = y.inst /\ Dest(imetas'[j]) = Dest(y)
      BY <1>4, <2>4, <3>2, <3>3 DEF IsPiece
    <3> QED BY <3>2, <3>4 DEF ProductOf
  <2>7. y.part # "product" => y.after = imetas'[y.inst].after  BY <2>1, <2>2
  <2>8. y.part = "sum" => Addend(y.inst)' \cap WritesOf(x) = {}
    <3>1. \A z \in c.fused : Addend(z.inst) \cap WritesOf(z) = {}  BY DEF Recut
    <3>2. Addend(y.inst)' = Addend(x.inst)  BY <1>4 DEF Addend
    <3> QED BY <2>1, <3>1, <3>2
  <2>9. y.part # "whole"  BY <2>1
  <2>10. y.tid = imetas'[y.inst].tid  BY <1>4, <2>2
  <2> QED BY <1>1, <1>4, <2>2, <2>3, <2>4, <2>5, <2>6, <2>7, <2>8, <2>9, <2>10 DEF PieceOK
<1> QED BY <1>5, <1>6

LEMMA RecutSidesInv ==
  ASSUME TypesInv, ProgramInv, HeapInv, NEW c, Recut(c)
  PROVE  SidesInv'
<1>1. ASSUME NEW y \in free' PROVE y.tid < next_batch_tid'
  <2>1. \E x \in free : Descends(c, y, x)
    <3>1. \/ y \in free \ (c.wide \cup c.single)
          \/ \E p \in c.wide \X LaneNumbers : y = c.front[p]
          \/ \E x \in c.single : y = c.narrow[x]
      BY <1>1 DEF Recut
    <3>2. c.wide \subseteq free /\ c.single \subseteq free  BY DEF Recut
    <3>3. \A p \in c.wide \X LaneNumbers : p = <<p[1], p[2]>> /\ p[1] \in c.wide /\ p[2] \in LaneNumbers
      OBVIOUS
    <3>4. ASSUME NEW p \in c.wide \X LaneNumbers, y = c.front[p] PROVE Descends(c, y, p[1]) /\ p[1] \in free
      BY <3>2, <3>3, <3>4 DEF Descends
    <3> QED BY <3>1, <3>2, <3>4 DEF Descends
  <2>2. PICK x \in free : Descends(c, y, x)  BY <2>1
  <2>3. x \in Pending  BY DEF Pending
  <2>4. y.tid = x.tid  BY <2>2, <2>3, DescendsFacts
  <2>5. x.tid < next_batch_tid  BY DEF HeapInv, SidesInv
  <2>6. next_batch_tid' = next_batch_tid  BY DEF Recut
  <2> QED BY <2>4, <2>5, <2>6
<1>2. \A x \in frontier' : x.tid >= next_batch_tid'
  <2>1. frontier' = frontier /\ next_batch_tid' = next_batch_tid  BY DEF Recut
  <2> QED BY <2>1 DEF HeapInv, SidesInv
<1>3. ASSUME NEW y \in Issuable', y \in Waiting' PROVE FALSE
  <2>1. \/ y \in Issuable
        \/ \E x \in c.wide, i \in LaneNumbers : y = c.front[<<x, i>>]
        \/ \E x \in c.single : y = c.narrow[x]
    BY RecutSets
  <2>2. y \in Waiting \/ \E x \in c.fused, i \in LaneNumbers : y = c.back[<<x, i>>]
    <3>1. \A z : z \in Waiting' <=> \/ z \in Waiting
                                    \/ \E x \in c.fused, i \in LaneNumbers : z = c.back[<<x, i>>]
      BY RecutSets
    <3> QED BY <1>3, <3>1
  <2>3. CASE y \in Waiting
    <3>1. y \in Pending  BY <2>3 DEF Pending
    <3>2. y \in Issuable
      <4>1. /\ \A x \in c.wide, i \in LaneNumbers : c.front[<<x, i>>] \notin Pending
            /\ \A x \in c.single : c.narrow[x] \notin Pending
        BY FreshFacts
      <4> QED BY <2>1, <3>1, <4>1
    <3> QED BY <2>3, <3>2 DEF HeapInv, SidesInv
  <2>4. CASE \E x \in c.fused, i \in LaneNumbers : y = c.back[<<x, i>>]
    <3>1. PICK x \in c.fused, i \in LaneNumbers : y = c.back[<<x, i>>]  BY <2>4
    <3>2. x \in c.wide /\ IsPiece(y, x, i) /\ y.part = "sum"  BY <3>1 DEF Recut
    <3>3. y \notin Issuable /\ \A z \in c.single : y # c.narrow[z]
      <4>1. y \notin Pending  BY <3>1, <3>2, FreshFacts
      <4>2. \A z \in c.single : y # c.narrow[z]  BY <3>1, <3>2, FreshFacts
      <4> QED BY <4>1, <4>2 DEF Pending, Issuable
    <3>4. PICK z \in c.wide, j \in LaneNumbers : y = c.front[<<z, j>>]  BY <2>1, <3>3
    <3>5. IsPiece(y, z, j) /\ y.part \in {"product", "lane"} /\ (z \in c.fused => y.part = "product")
      <4>1. /\ IsPiece(c.front[<<z, j>>], z, j)
            /\ z \notin c.fused => c.front[<<z, j>>] = c.back[<<z, j>>] /\ c.back[<<z, j>>].part = "lane"
            /\ z \in c.fused => c.front[<<z, j>>].part = "product"
        BY DEF Recut
      <4> QED BY <3>4, <4>1
    <3> QED BY <3>2, <3>5
  <2> QED BY <2>2, <2>3, <2>4
<1> QED BY <1>1, <1>2, <1>3 DEF SidesInv

LEMMA RecutBegunInv ==
  ASSUME TypesInv, ProgramInv, HeapInv, NEW c, Recut(c)
  PROVE  BegunInv'
<1> SUFFICES ASSUME NEW y \in Pending', y \in Issuable' \/ y.part # "whole"
             PROVE  incount'[y.inst] = 0
  BY DEF BegunInv
<1>1. PICK x \in Pending : Descends(c, y, x)  BY RecutSets
<1>2. y.inst = x.inst /\ x.inst \in Original /\ x.inst \in DOMAIN imetas
  BY <1>1, DescendsFacts, ImetasFacts DEF HeapInv, PieceInv, PieceOK
<1>3. incount[x.inst] = 0
  <2>1. CASE x \in c.wide \cup c.single
    <3>1. x \in Issuable  BY <2>1 DEF Recut, Issuable
    <3> QED BY <3>1 DEF HeapInv, BegunInv
  <2>2. CASE x \notin c.wide \cup c.single
    <3>1. y = x  BY <1>1, <2>2 DEF Descends
    <3>2. y \in Issuable' => y \in Issuable
      <4>1. y \in Issuable' => \/ y \in Issuable
                               \/ \E z \in c.wide, i \in LaneNumbers : y = c.front[<<z, i>>]
                               \/ \E z \in c.single : y = c.narrow[z]
        BY RecutSets
      <4>2. /\ \A z \in c.wide, i \in LaneNumbers : c.front[<<z, i>>] \notin Pending
            /\ \A z \in c.single : c.narrow[z] \notin Pending
        BY FreshFacts
      <4> QED BY <3>1, <4>1, <4>2
    <3> QED BY <3>1, <3>2 DEF HeapInv, BegunInv
  <2> QED BY <2>1, <2>2
<1> QED BY <1>2, <1>3, RecutWaits

LEMMA RecutOrderInv ==
  ASSUME TypesInv, ProgramInv, HeapInv, NEW c, Recut(c)
  PROVE  OrderInv'
<1>1. Original' = Original  BY RecutSets
<1>2. \A n \in Original : n \in DOMAIN imetas /\ imetas'[n] = imetas[n]  BY ImetasFacts DEF Recut
<1> SUFFICES ASSUME NEW m \in Original, NEW n \in Original, m < n, incount'[n] = 0, Conflict(m, n),
                    NEW y \in Pending', y.inst = m
             PROVE  FALSE
  BY <1>1, <1>2 DEF OrderInv, Conflict
<1>3. PICK x \in Pending : Descends(c, y, x)  BY RecutSets
<1>4. x.inst = m  BY <1>3, DescendsFacts
<1>5. incount[n] = 0  BY <1>2, RecutWaits
<1> QED BY <1>4, <1>5 DEF HeapInv, OrderInv

LEMMA RecutProgramInv ==
  ASSUME TypesInv, ProgramInv, HeapInv, NEW c, Recut(c)
  PROVE  ProgramInv'
<1>1. PICK w \in Works :
        /\ Len(w) <= Len(imetas)
        /\ \A n \in 1 .. Len(w) : imetas[n] = w[n]
        /\ \A n \in Len(w) + 1 .. Len(imetas) : imetas[n].part = "sum" /\ imetas[n].inst \in 1 .. Len(w)
  BY DEF ProgramInv
<1>2. w \in Seq(InstrMeta)  BY WorksAreGraphs DEF FromGraph
<1>3. /\ Len(w) \in Nat /\ Len(imetas) \in Nat /\ DOMAIN imetas = 1 .. Len(imetas)
  BY <1>2, ImetasFacts
<1>4. imetas' \in Seq(InstrMeta) /\ DOMAIN imetas \subseteq DOMAIN imetas'  BY DEF Recut
<1>5. Len(imetas') \in Nat /\ DOMAIN imetas' = 1 .. Len(imetas')  BY <1>4
<1>6. Len(imetas) <= Len(imetas')  BY <1>3, <1>4, <1>5
<1>7. \A j \in DOMAIN imetas : imetas'[j] = imetas[j]  BY DEF Recut
<1>8. \A n \in Original : n \in 1 .. Len(w)
  <2> SUFFICES ASSUME NEW n \in Original PROVE n \in 1 .. Len(w)  OBVIOUS
  <2>1. n \in 1 .. Len(imetas) /\ imetas[n].part = "whole"  BY <1>3, ImetasFacts
  <2>2. n \notin Len(w) + 1 .. Len(imetas)  BY <1>1, <2>1
  <2> QED BY <1>3, <2>1, <2>2
<1>9. ASSUME NEW j \in DOMAIN imetas' \ DOMAIN imetas
      PROVE  imetas'[j].part = "sum" /\ imetas'[j].inst \in 1 .. Len(w)
  <2>0. \A k \in DOMAIN imetas' \ DOMAIN imetas :
          \E x \in c.fused, i \in LaneNumbers :
            c.front[<<x, i>>].after = {k} /\ imetas'[k] = c.back[<<x, i>>]
    BY DEF Recut
  <2>1. PICK x \in c.fused, i \in LaneNumbers : imetas'[j] = c.back[<<x, i>>]  BY <2>0
  <2>2. x \in c.wide /\ IsPiece(c.back[<<x, i>>], x, i) /\ c.back[<<x, i>>].part = "sum"  BY DEF Recut
  <2>3. imetas'[j].inst = x.inst /\ x.inst \in Original  BY <2>1, <2>2, WideFacts DEF IsPiece
  <2> QED BY <1>8, <2>1, <2>2, <2>3
<1>10. \A n \in 1 .. Len(w) : imetas'[n] = w[n]
  <2>1. \A n \in 1 .. Len(w) : n \in DOMAIN imetas  BY <1>1, <1>3
  <2> QED BY <1>1, <1>7, <2>1
<1>11. \A n \in Len(w) + 1 .. Len(imetas') : imetas'[n].part = "sum" /\ imetas'[n].inst \in 1 .. Len(w)
  <2> SUFFICES ASSUME NEW n \in Len(w) + 1 .. Len(imetas')
               PROVE  imetas'[n].part = "sum" /\ imetas'[n].inst \in 1 .. Len(w)
    OBVIOUS
  <2>1. n \in DOMAIN imetas'  BY <1>3, <1>5
  <2>2. CASE n \in DOMAIN imetas
    <3>1. n \in Len(w) + 1 .. Len(imetas)  BY <1>3, <1>5, <2>2
    <3> QED BY <1>1, <1>7, <2>2, <3>1
  <2> QED BY <1>9, <2>1, <2>2
<1>12. Len(w) <= Len(imetas')  BY <1>1, <1>3, <1>5, <1>6
<1> QED BY <1>10, <1>11, <1>12 DEF ProgramInv

\* N is P with the lanes of W and the conversions of Q in their place.
SameMembers(N, P, W, Q, c, cut) ==
  \A y : y \in N <=> \/ y \in P \ (W \cup Q)
                     \/ \E x \in W, i \in LaneNumbers : y = cut[<<x, i>>]
                     \/ \E x \in Q : y = c.narrow[x]

\* The same for a set of pending instructions.
Becomes(N, P, W, Q, c, cut) ==
  /\ P \subseteq Pending /\ W \subseteq P \cap c.wide /\ Q \subseteq P \cap c.single
  /\ cut = c.front \/ cut = c.back
  /\ SameMembers(N, P, W, Q, c, cut)

LEMMA RecutCount ==
  ASSUME TypesInv, ProgramInv, HeapInv, NEW c, Recut(c), NEW cut,
         NEW P, NEW W, NEW Q, NEW N, Becomes(N, P, W, Q, c, cut)
  PROVE  Cardinality(N) = Cardinality(P) + (VLEN - 1) * Cardinality(W)
<1> DEFINE lanes == {y \in N : \E x \in W, i \in LaneNumbers : y = cut[<<x, i>>]}
           narrows == {y \in N : \E x \in Q : y = c.narrow[x]}
<1>0. /\ P \subseteq Pending /\ W \subseteq P \cap c.wide /\ Q \subseteq P \cap c.single
      /\ cut = c.front \/ cut = c.back
      /\ \A y : y \in N <=> \/ y \in P \ (W \cup Q)
                            \/ \E x \in W, i \in LaneNumbers : y = cut[<<x, i>>]
                            \/ \E x \in Q : y = c.narrow[x]
  BY Zenon DEF Becomes, SameMembers
<1> USE <1>0
<1>1. IsFiniteSet(P)
  <2>1. P \in SUBSET Pending  OBVIOUS
  <2> QED BY <2>1, PendingFinite, FS_Subset
<1>2. /\ \A x \in c.wide, i \in LaneNumbers : cut[<<x, i>>] \notin Pending
      /\ \A x \in c.single : c.narrow[x] \notin Pending
      /\ \A x \in c.single, y \in c.wide, i \in LaneNumbers : c.narrow[x] # cut[<<y, i>>]
      /\ \A x, y \in c.single : c.narrow[x] = c.narrow[y] => x = y
  BY FreshFacts
<1>3. ASSUME NEW x \in W, NEW y \in W, NEW i \in LaneNumbers, NEW j \in LaneNumbers,
             cut[<<x, i>>] = cut[<<y, j>>]
      PROVE  x = y /\ i = j
  <2>1. IsPiece(cut[<<x, i>>], x, i) /\ IsPiece(cut[<<y, j>>], y, j)  BY DEF Recut
  <2> QED BY <1>3, <2>1, LanesApart
<1>4. \A x \in W, i \in LaneNumbers : cut[<<x, i>>] \in lanes  OBVIOUS
<1>5. \A x \in Q : c.narrow[x] \in narrows
  <2> SUFFICES ASSUME NEW x \in Q PROVE c.narrow[x] \in narrows  OBVIOUS
  <2>1. PICK y : y = c.narrow[x]  OBVIOUS
  <2>2. \E z \in Q : y = c.narrow[z]  BY <2>1
  <2>3. y \in N  BY <1>0, <2>2, Zenon
  <2> QED BY <2>1, <2>2, <2>3
<1>6. Cuts(cut, P, W, LaneNumbers, lanes)
  <2>1. lanes \cap P = {}
    <3> SUFFICES ASSUME NEW y \in lanes PROVE y \notin P  OBVIOUS
    <3>1. PICK x \in W, i \in LaneNumbers : y = cut[<<x, i>>]  OBVIOUS
    <3> QED BY <1>2, <3>1
  <2>2. W \subseteq P /\ \A y \in lanes : \E x \in W, i \in LaneNumbers : y = cut[<<x, i>>]  OBVIOUS
  <2>3. \A x, y \in W, i, j \in LaneNumbers : cut[<<x, i>>] = cut[<<y, j>>] => x = y /\ i = j  BY <1>3
  <2> HIDE DEF lanes
  <2> QED BY <1>4, <2>1, <2>2, <2>3 DEF Cuts
<1>7. IsFiniteSet(LaneNumbers) /\ Cardinality(LaneNumbers) = VLEN
  <2>1. VLEN - 1 \in Int /\ 0 <= VLEN - 1 /\ (VLEN - 1) - 0 + 1 = VLEN  BY VectorLength
  <2>2. IsFiniteSet(0 .. (VLEN - 1)) /\ Cardinality(0 .. (VLEN - 1)) = (VLEN - 1) - 0 + 1
    BY <2>1, FS_Interval
  <2> QED BY <2>1, <2>2 DEF LaneNumbers
<1> DEFINE between == (P \ W) \cup lanes
<1>8. N = (between \ Q) \cup narrows
  <2>1. W \cap Q = {}  BY DEF Recut
  <2>2. lanes \cap Q = {}  BY <1>6 DEF Cuts
  <2>3. \A y \in N : y \in P \ (W \cup Q) \/ y \in lanes \/ y \in narrows  OBVIOUS
  <2>4. P \ (W \cup Q) \subseteq N /\ lanes \subseteq N /\ narrows \subseteq N  OBVIOUS
  <2> HIDE DEF lanes, narrows
  <2> QED BY <2>1, <2>2, <2>3, <2>4
<1>9. Replaces(c.narrow, between, Q, narrows)
  <2>1. Q \subseteq between  BY DEF Recut
  <2>2. narrows \cap between = {}
    <3> SUFFICES ASSUME NEW y \in narrows, y \in between PROVE FALSE  OBVIOUS
    <3>1. PICK x \in Q : y = c.narrow[x]  OBVIOUS
    <3>2. y \notin P  BY <1>2, <3>1
    <3>3. y \in lanes  BY <3>2
    <3>4. PICK z \in W, i \in LaneNumbers : y = cut[<<z, i>>]  BY <3>3
    <3> QED BY <1>2, <3>1, <3>4
  <2>3. \A x, y \in Q : c.narrow[x] = c.narrow[y] => x = y  BY <1>2
  <2>4. \A y \in narrows : \E x \in Q : y = c.narrow[x]  OBVIOUS
  <2> HIDE DEF between, narrows
  <2> QED BY <1>5, <2>1, <2>2, <2>3, <2>4 DEF Replaces
<1> HIDE DEF lanes, narrows
<1>10. /\ IsFiniteSet(between) /\ Cardinality(P) \in Nat /\ Cardinality(W) \in Nat
       /\ Cardinality(between) = Cardinality(P) + (Cardinality(LaneNumbers) - 1) * Cardinality(W)
  BY <1>1, <1>6, <1>7, CutCount
<1> HIDE DEF between
<1>11. Cardinality((between \ Q) \cup narrows) = Cardinality(between)  BY <1>9, <1>10, ReplaceCount
<1> QED BY <1>7, <1>8, <1>10, <1>11

LEMMA RecutCountsInv ==
  ASSUME TypesInv, ProgramInv, HeapInv, NEW c, Recut(c)
  PROVE  CountsInv'
<1>1. /\ c.wide \subseteq Issuable /\ c.single \subseteq Issuable /\ Issuable \subseteq Pending
      /\ c.wide \cap c.single = {}
  BY DEF Recut, Issuable, Pending
<1>2. ASSUME NEW j \in DOMAIN imetas
      PROVE  incount'[j] = Cardinality(Unlockers(j)')
  <2> DEFINE W == {x \in c.wide : j \in x.after}
             Q == {x \in c.single : j \in x.after}
  <2>1. incount[j] = Cardinality(Unlockers(j))  BY DEF HeapInv, CountsInv
  <2>2. incount'[j] = incount[j] + (VLEN - 1) * Cardinality(W)  BY DEF Recut, Widened
  <2>3. \A y : y \in Unlockers(j)' <=> y \in Pending' /\ j \in y.after  BY DEF Unlockers
  <2>4. \A y : y \in Unlockers(j) <=> y \in Pending /\ j \in y.after  BY DEF Unlockers
  <2>5. ASSUME NEW y \in Unlockers(j)'
        PROVE  \/ y \in Unlockers(j) \ (W \cup Q)
               \/ \E x \in W, i \in LaneNumbers : y = c.back[<<x, i>>]
               \/ \E x \in Q : y = c.narrow[x]
    <3>1. y \in Pending' /\ j \in y.after  BY <2>3
    <3>2. PICK x \in Pending : Descends(c, y, x)  BY <3>1, RecutSets
    <3>3. CASE x \in c.wide
      <4>1. PICK i \in LaneNumbers :
              \/ x \notin c.fused /\ y = c.back[<<x, i>>] /\ y.after = x.after
              \/ x \in c.fused /\ y = c.front[<<x, i>>]
              \/ x \in c.fused /\ y = c.back[<<x, i>>] /\ y.after = x.after
        BY <3>2, <3>3, DescendsFacts
      <4>2. CASE y = c.back[<<x, i>>] /\ y.after = x.after  BY <3>1, <3>3, <4>2
      <4>3. CASE x \in c.fused /\ y = c.front[<<x, i>>]
        <5>1. \E k \in DOMAIN imetas' \ DOMAIN imetas :
                c.front[<<x, i>>].after = {k} /\ imetas'[k] = c.back[<<x, i>>]
          BY <3>3, <4>3, Zenon DEF Recut
        <5> QED BY <3>1, <4>3, <5>1
      <4> QED BY <4>1, <4>2, <4>3
    <3>4. CASE x \notin c.wide
      <4>1. y.after = x.after  BY <3>2, <3>4, DescendsFacts
      <4>2. x \in Unlockers(j)  BY <2>4, <3>1, <4>1
      <4> QED BY <3>1, <3>2, <3>4, <4>1, <4>2 DEF Descends
    <3> QED BY <3>3, <3>4
  <2>6. ASSUME NEW y \in Unlockers(j), y \notin W \cup Q PROVE y \in Unlockers(j)'
    <3>1. y \in Pending /\ j \in y.after /\ y \notin c.wide \cup c.single  BY <2>4, <2>6
    <3>2. Descends(c, y, y)  BY <3>1 DEF Descends
    <3>3. y \in Pending'  BY <3>1, <3>2, RecutSets
    <3> QED BY <2>3, <3>1, <3>3
  <2>7. ASSUME NEW x \in W, NEW i \in LaneNumbers PROVE c.back[<<x, i>>] \in Unlockers(j)'
    <3>1. PICK y : y = c.back[<<x, i>>]  OBVIOUS
    <3>2. y.after = x.after /\ x \in Pending /\ Descends(c, y, x)
      BY <1>1, <3>1 DEF Recut, Descends
    <3>3. y \in Pending'  BY <3>2, RecutSets
    <3> QED BY <2>3, <3>1, <3>2, <3>3
  <2>8. ASSUME NEW x \in Q PROVE c.narrow[x] \in Unlockers(j)'
    <3>1. PICK y : y = c.narrow[x]  OBVIOUS
    <3>2. x \in Pending /\ x \notin c.wide /\ Descends(c, y, x)  BY <1>1, <3>1 DEF Descends
    <3>3. y \in Pending' /\ y.after = x.after  BY <3>2, RecutSets, DescendsFacts
    <3> QED BY <2>3, <3>1, <3>3
  <2>9. Unlockers(j) \subseteq Pending /\ W \subseteq Unlockers(j) \cap c.wide /\ Q \subseteq Unlockers(j) \cap c.single
    BY <1>1, <2>4
  <2> HIDE DEF W, Q
  <2>10. \A y : y \in Unlockers(j)' <=> \/ y \in Unlockers(j) \ (W \cup Q)
                                        \/ \E x \in W, i \in LaneNumbers : y = c.back[<<x, i>>]
                                        \/ \E x \in Q : y = c.narrow[x]
    BY <2>5, <2>6, <2>7, <2>8
  <2>11. PICK N : N = Unlockers(j)'  OBVIOUS
  <2>12. PICK cut : cut = c.back  OBVIOUS
  <2>13. Becomes(N, Unlockers(j), W, Q, c, cut)
    <3>1. SameMembers(N, Unlockers(j), W, Q, c, cut)  BY <2>10, <2>11, <2>12, Zenon DEF SameMembers
    <3>2. cut = c.front \/ cut = c.back  BY <2>12
    <3> QED BY <2>9, <3>1, <3>2 DEF Becomes
  <2>14. Cardinality(N) = Cardinality(Unlockers(j)) + (VLEN - 1) * Cardinality(W)  BY <2>13, RecutCount
  <2> QED BY <2>1, <2>2, <2>11, <2>14
<1>3. ASSUME NEW j \in DOMAIN imetas' \ DOMAIN imetas
      PROVE  incount'[j] = Cardinality(Unlockers(j)')
  <2>0. \A k \in DOMAIN imetas' \ DOMAIN imetas :
          \E x \in c.fused, i \in LaneNumbers :
            c.front[<<x, i>>].after = {k} /\ imetas'[k] = c.back[<<x, i>>]
    BY DEF Recut
  <2>1. PICK x \in c.fused, i \in LaneNumbers : c.front[<<x, i>>].after = {j} /\ imetas'[j] = c.back[<<x, i>>]
    BY <2>0
  <2>2. x \in c.wide /\ x \in Pending  BY <1>1 DEF Recut
  <2>3. PICK f : f = c.front[<<x, i>>]  OBVIOUS
  <2>4. f \in Unlockers(j)'
    <3>1. Descends(c, f, x)  BY <2>2, <2>3 DEF Descends
    <3>2. f \in Pending'  BY <2>2, <3>1, RecutSets
    <3> QED BY <2>1, <2>3, <3>2 DEF Unlockers
  <2>5. ASSUME NEW y \in Unlockers(j)' PROVE y = f
    <3>1. y \in Pending' /\ j \in y.after  BY DEF Unlockers
    <3>2. PICK z \in Pending : Descends(c, y, z)  BY <3>1, RecutSets
    <3>3. j \notin z.after  BY AfterFacts
    <3>4. z \in c.wide  BY <3>1, <3>2, <3>3, DescendsFacts
    <3>5. PICK l \in LaneNumbers :
            \/ y.after = z.after
            \/ z \in c.fused /\ y = c.front[<<z, l>>]
      BY <3>2, <3>4, DescendsFacts
    <3>6. z \in c.fused /\ y = c.front[<<z, l>>]  BY <3>1, <3>3, <3>5
    <3>7. \A a \in c.wide, b \in LaneNumbers : a \in c.fused =>
            \E k \in DOMAIN imetas' \ DOMAIN imetas :
              c.front[<<a, b>>].after = {k} /\ imetas'[k] = c.back[<<a, b>>]
      BY DEF Recut
    <3>8. imetas'[j] = c.back[<<z, l>>]
      <4>1. PICK k \in DOMAIN imetas' \ DOMAIN imetas : y.after = {k} /\ imetas'[k] = c.back[<<z, l>>]
        BY <3>4, <3>6, <3>7
      <4> QED BY <3>1, <4>1
    <3>9. IsPiece(c.back[<<z, l>>], z, l) /\ IsPiece(c.back[<<x, i>>], x, i)  BY <2>2, <3>4 DEF Recut
    <3>10. z = x /\ l = i  BY <2>1, <2>2, <3>4, <3>8, <3>9, LanesApart
    <3> QED BY <2>3, <3>6, <3>10
  <2>6. Unlockers(j)' = {f}  BY <2>4, <2>5
  <2>7. Cardinality({f}) = 1  BY FS_Singleton
  <2>8. incount'[j] = 1  BY DEF Recut
  <2> QED BY <2>6, <2>7, <2>8
<1>4. ASSUME NEW t \in -1 .. NumThreads - 1
      PROVE  schedulable_count_by_tid'[t] = Cardinality(IssuableOf(t)')
  <2> DEFINE W == {x \in c.wide : x.tid = t}
             Q == {x \in c.single : x.tid = t}
  <2>1. schedulable_count_by_tid[t] = Cardinality(IssuableOf(t))  BY DEF HeapInv, CountsInv
  <2>2. schedulable_count_by_tid'[t] = schedulable_count_by_tid[t] + (VLEN - 1) * Cardinality(W)
    <3>1. t \in DOMAIN schedulable_count_by_tid  BY DEF TypesInv
    <3>2. schedulable_count_by_tid' = WidenedSchedulable(c.wide)  BY DEF Recut
    <3> QED BY <3>1, <3>2 DEF WidenedSchedulable, Widened
  <2>3. \A y : y \in IssuableOf(t)' <=> y \in Issuable' /\ y.tid = t  BY DEF IssuableOf
  <2>4. \A y : y \in IssuableOf(t) <=> y \in Issuable /\ y.tid = t  BY DEF IssuableOf
  <2>5. /\ \A x \in c.wide, i \in LaneNumbers : c.front[<<x, i>>].tid = x.tid
        /\ \A x \in c.single : c.narrow[x].tid = x.tid
    BY DEF Recut, IsPiece, IsConverted
  <2>6. IssuableOf(t) \subseteq Pending /\ W \subseteq IssuableOf(t) \cap c.wide /\ Q \subseteq IssuableOf(t) \cap c.single
    BY <1>1, <2>4
  <2>7. ASSUME NEW y
        PROVE  y \in IssuableOf(t)' <=> \/ y \in IssuableOf(t) \ (W \cup Q)
                                        \/ \E x \in W, i \in LaneNumbers : y = c.front[<<x, i>>]
                                        \/ \E x \in Q : y = c.narrow[x]
    <3>1. y \in Issuable' <=> \/ y \in Issuable \ (c.wide \cup c.single)
                              \/ \E x \in c.wide, i \in LaneNumbers : y = c.front[<<x, i>>]
                              \/ \E x \in c.single : y = c.narrow[x]
      BY RecutSets
    <3>2. ASSUME y \in IssuableOf(t)'
          PROVE  \/ y \in IssuableOf(t) \ (W \cup Q)
                 \/ \E x \in W, i \in LaneNumbers : y = c.front[<<x, i>>]
                 \/ \E x \in Q : y = c.narrow[x]
      <4>1. y \in Issuable' /\ y.tid = t  BY <2>3, <3>2
      <4>2. CASE y \in Issuable \ (c.wide \cup c.single)  BY <2>4, <4>1, <4>2
      <4>3. CASE \E x \in c.wide, i \in LaneNumbers : y = c.front[<<x, i>>]  BY <2>5, <4>1, <4>3
      <4>4. CASE \E x \in c.single : y = c.narrow[x]  BY <2>5, <4>1, <4>4
      <4> QED BY <3>1, <4>1, <4>2, <4>3, <4>4
    <3>3. ASSUME y \in IssuableOf(t) \ (W \cup Q) PROVE y \in IssuableOf(t)'
      BY <2>3, <2>4, <3>1, <3>3
    <3>4. ASSUME NEW x \in W, NEW i \in LaneNumbers, y = c.front[<<x, i>>] PROVE y \in IssuableOf(t)'
      BY <2>3, <2>5, <3>1, <3>4
    <3>5. ASSUME NEW x \in Q, y = c.narrow[x] PROVE y \in IssuableOf(t)'
      BY <2>3, <2>5, <3>1, <3>5
    <3> QED BY <3>2, <3>3, <3>4, <3>5
  <2> HIDE DEF W, Q
  <2>8. PICK N : N = IssuableOf(t)'  OBVIOUS
  <2>9. PICK cut : cut = c.front  OBVIOUS
  <2>10. Becomes(N, IssuableOf(t), W, Q, c, cut)
    <3>1. SameMembers(N, IssuableOf(t), W, Q, c, cut)  BY <2>7, <2>8, <2>9, Zenon DEF SameMembers
    <3>2. cut = c.front \/ cut = c.back  BY <2>9
    <3> QED BY <2>6, <3>1, <3>2 DEF Becomes
  <2>11. Cardinality(N) = Cardinality(IssuableOf(t)) + (VLEN - 1) * Cardinality(W)  BY <2>10, RecutCount
  <2> QED BY <2>1, <2>2, <2>8, <2>11
<1>5. \A j \in DOMAIN imetas' : incount'[j] = Cardinality(Unlockers(j)')  BY <1>2, <1>3
<1> QED BY <1>4, <1>5 DEF CountsInv

LEMMA RecutHeap ==
  ASSUME TypesInv, ProgramInv, HeapInv, NEW c, Recut(c)
  PROVE  ProgramInv' /\ HeapInv'
BY RecutProgramInv, RecutSumsInv, RecutPieceInv, RecutSplitInv, RecutSidesInv, RecutCountsInv,
   RecutBegunInv, RecutOrderInv DEF HeapInv

-----------------------------------------------------------------------------
(* The splits are recuts *)

\* SetToSeq lists each member once.
LEMMA SetToSeqFacts ==
  ASSUME NEW S, IsFiniteSet(S)
  PROVE  /\ Cardinality(S) \in Nat
         /\ SetToSeq(S) \in [1 .. Cardinality(S) -> S]
         /\ \A i, j \in 1 .. Cardinality(S) : SetToSeq(S)[i] = SetToSeq(S)[j] => i = j
         /\ \A x \in S : \E i \in 1 .. Cardinality(S) : SetToSeq(S)[i] = x
<1>1. PICK n \in Nat : n = Cardinality(S)  BY FS_CardinalityType
<1>2. PICK g : g \in Bijection(1 .. n, S)  BY <1>1, FS_CardinalityType DEF ExistsBijection
<1>3. g \in [1 .. n -> S] /\ IsInjective(g)  BY <1>2 DEF Bijection, Injection
<1>4. PICK f : f = SetToSeq(S)  OBVIOUS
<1>5. f = CHOOSE h \in [1 .. n -> S] : IsInjective(h)  BY <1>1, <1>4 DEF SetToSeq
<1>6. f \in [1 .. n -> S] /\ IsInjective(f)  BY <1>3, <1>5
<1>7. f \in Injection(1 .. n, S)  BY <1>6 DEF Injection
<1>8. Cardinality(1 .. n) = n
  <2>1. Cardinality(1 .. n) = IF 1 > n THEN 0 ELSE n - 1 + 1  BY FS_Interval
  <2> QED BY <2>1
<1>9. f \in Surjection(1 .. n, S)  BY <1>1, <1>7, <1>8, FS_Injection
<1>10. \A x \in S : \E i \in 1 .. n : f[i] = x  BY <1>9 DEF Surjection
<1>11. \A i, j \in 1 .. n : f[i] = f[j] => i = j  BY <1>6 DEF IsInjective
<1> QED BY <1>1, <1>4, <1>6, <1>10, <1>11

\* A free vector instruction is one of the program's own.
LEMMA ValuFacts ==
  ASSUME TypesInv, ProgramInv, HeapInv, NEW x \in free, x.lin.engine = "valu"
  PROVE  /\ x \in InstrMeta /\ x.inst \in Original /\ x = imetas[x.inst]
         /\ VectorOperands(x.lin.op, x.lin.args)
<1>1. x \in Pending  BY DEF Pending
<1>2. PieceOK(x)  BY <1>1 DEF HeapInv, PieceInv
<1>3. x \in InstrMeta /\ x.inst \in Original /\ x = imetas[x.inst]  BY <1>2 DEF PieceOK
<1>4. imetas[x.inst].lin.engine = "valu"
         => VectorOperands(imetas[x.inst].lin.op, imetas[x.inst].lin.args)
  BY <1>3, GraphFacts
<1> QED BY <1>3, <1>4

\* One of LanesOf(x).
LaneOf(x, i) ==
  IF x.lin.op = "vbroadcast"
  THEN Part(x, "lane", "alu", "|", <<ScalarAtOffset(x.lin.args[1], i), x.lin.args[2], x.lin.args[2]>>, x.after)
  ELSE Part(x, "lane", "alu", x.lin.op, Lane(x.lin.args, i), x.after)

LEMMA LanesOfFacts ==
  ASSUME NEW x
  PROVE  LanesOf(x) = {LaneOf(x, i) : i \in LaneNumbers}
<1>1. CASE x.lin.op = "vbroadcast"  BY <1>1, Zenon DEF LanesOf, LaneOf, LaneNumbers
<1>2. CASE x.lin.op # "vbroadcast"  BY <1>2, Zenon DEF LanesOf, LaneOf, LaneNumbers
<1> QED BY <1>1, <1>2

\* The counters after a split.
LEMMA WidenedFacts ==
  ASSUME TypesInv, NEW split, split \subseteq free
  PROVE  /\ WidenedIncount(split) \in [DOMAIN imetas -> Nat]
         /\ \A j \in DOMAIN imetas :
              WidenedIncount(split)[j] = Widened(incount[j], {x \in split : j \in x.after})
<1>1. \A P \in SUBSET split : Cardinality(P) \in Nat
  <2> SUFFICES ASSUME NEW P \in SUBSET split PROVE Cardinality(P) \in Nat  OBVIOUS
  <2>1. P \in SUBSET free  OBVIOUS
  <2> QED BY <2>1, FS_Subset, FS_CardinalityType DEF TypesInv
<1>2. DOMAIN incount = DOMAIN imetas /\ \A j \in DOMAIN imetas : incount[j] \in Nat  BY DEF TypesInv
<1>3. ASSUME NEW j \in DOMAIN imetas PROVE Widened(incount[j], {x \in split : j \in x.after}) \in Nat
  <2> DEFINE W == {x \in split : j \in x.after}
  <2>1. Cardinality(W) \in Nat  BY <1>1
  <2>2. VLEN - 1 \in Nat  BY VectorLength
  <2>3. \A a, b \in Nat : a * b \in Nat  OBVIOUS
  <2> HIDE DEF W
  <2>4. (VLEN - 1) * Cardinality(W) \in Nat  BY <2>1, <2>2, <2>3
  <2>5. Widened(incount[j], W) \in Nat  BY <1>2, <2>4 DEF Widened
  <2> QED BY <2>5 DEF W
<1> QED BY <1>2, <1>3 DEF WidenedIncount

\* The pieces of the split.
LEMMA AluPieces ==
  ASSUME TypesInv, ProgramInv, HeapInv, NEW split, split \subseteq Plain \cup Broadcasts \cup MulAdds,
         NEW x \in split, NEW i \in LaneNumbers
  PROVE  /\ x \notin MulAdds =>
              IsPiece(LaneOf(x, i), x, i) /\ LaneOf(x, i).part = "lane" /\ LaneOf(x, i).after = x.after
         /\ x \in MulAdds =>
              /\ \A j \in Nat : /\ IsPiece(Product(x, i, j), x, i)
                                /\ Product(x, i, j).part = "product" /\ Product(x, i, j).after = {j}
              /\ IsPiece(Sum(x, i), x, i) /\ Sum(x, i).part = "sum" /\ Sum(x, i).after = x.after
              /\ Addend(x.inst) \cap WritesOf(x) = {}
<1>1. x \in free /\ x.lin.engine = "valu"  BY DEF Plain, Broadcasts, MulAdds, ValuOf
<1>2. x \in InstrMeta /\ x = imetas[x.inst] /\ VectorOperands(x.lin.op, x.lin.args)  BY <1>1, ValuFacts
<1>3. i \in 0 .. VLEN - 1  BY DEF LaneNumbers
<1>4. CASE x \in Plain
  <2>1. x.lin.op \notin {"vbroadcast", "multiply_add"} /\ x \notin MulAdds
    BY <1>4 DEF Plain, MulAdds, ValuOf
  <2>2. PICK y : y = Part(x, "lane", "alu", x.lin.op, Lane(x.lin.args, i), x.after)  OBVIOUS
  <2>3. IsPiece(y, x, i) /\ y.part = "lane" /\ y.after = x.after  BY <1>1, <1>2, <1>3, <2>1, <2>2, LanePiece
  <2>4. LaneOf(x, i) = y  BY <2>1, <2>2 DEF LaneOf
  <2> QED BY <2>1, <2>3, <2>4
<1>5. CASE x \in Broadcasts
  <2>1. x.lin.op = "vbroadcast" /\ x \notin MulAdds /\ ~Overlaps(x.lin.args[1], x.lin.args[2])
    BY <1>5 DEF Broadcasts, MulAdds, ValuOf
  <2>2. PICK y : y = Part(x, "lane", "alu", "|",
                          <<ScalarAtOffset(x.lin.args[1], i), x.lin.args[2], x.lin.args[2]>>, x.after)
    OBVIOUS
  <2>3. IsPiece(y, x, i) /\ y.part = "lane" /\ y.after = x.after
    BY <1>1, <1>2, <1>3, <2>1, <2>2, BroadcastPiece
  <2>4. LaneOf(x, i) = y  BY <2>1, <2>2 DEF LaneOf
  <2> QED BY <2>1, <2>3, <2>4
<1>6. CASE x \in MulAdds
  <2>1. x.lin.op = "multiply_add" /\ ~Overlaps(x.lin.args[1], x.lin.args[4])
    BY <1>6 DEF MulAdds, ValuOf
  <2>2. ASSUME NEW j \in Nat
        PROVE  /\ IsPiece(Product(x, i, j), x, i)
               /\ Product(x, i, j).part = "product" /\ Product(x, i, j).after = {j}
    <3>1. PICK y : y = Product(x, i, j)  OBVIOUS
    <3>2. IsPiece(y, x, i) /\ y.part = "product" /\ y.after = {j}
      BY <1>1, <1>2, <1>3, <2>1, <3>1, ProductPiece
    <3> QED BY <3>1, <3>2
  <2>3. PICK y : y = Sum(x, i)  OBVIOUS
  <2>4. IsPiece(y, x, i) /\ y.part = "sum" /\ y.after = x.after  BY <1>1, <1>2, <1>3, <2>1, <2>3, SumPiece
  <2>5. Addend(x.inst) \cap WritesOf(x) = {}
    <3>1. x.lin.args \in Seq(Register) /\ WritesFirst(x.lin.args) /\ x.lin.engine # "store" /\ Len(x.lin.args) = 4
      BY <1>1, <1>2, <2>1 DEF InstrMeta, LogicalInstruction, VectorOperands
    <3>2. WritesOf(x) = RegRange(x.lin.args[1])  BY <3>1, OperandFacts
    <3>3. Addend(x.inst) = RegRange(x.lin.args[4])  BY <1>2, <3>1 DEF Addend, Last
    <3> QED BY <2>1, <3>2, <3>3 DEF Overlaps
  <2> QED BY <1>6, <2>2, <2>3, <2>4, <2>5
<1> QED BY <1>4, <1>5, <1>6

LEMMA SplitValuRecut ==
  ASSUME TypesInv, ProgramInv, HeapInv, NEW split, split \subseteq Plain \cup Broadcasts \cup MulAdds,
         SplitValu(split), UNCHANGED <<frontier, next_batch_tid>>
  PROVE  \E c : Recut(c) /\ c.wide \cup c.single \subseteq free \ to_retire
<1> DEFINE fused == split \cap MulAdds
           D == fused \X LaneNumbers
           n == Cardinality(D)
<1>1. split \subseteq free \ to_retire /\ \A x \in split : x.lin.engine = "valu"
  BY DEF Plain, Broadcasts, MulAdds, ValuOf
<1>2. IsFiniteSet(D)
  <2>1. fused \in SUBSET free  BY <1>1
  <2>2. IsFiniteSet(fused)  BY <2>1, FS_Subset DEF TypesInv
  <2>3. IsFiniteSet(0 .. (VLEN - 1))  BY VectorLength, FS_Interval
  <2>4. IsFiniteSet(LaneNumbers)  BY <2>3 DEF LaneNumbers
  <2> QED BY <2>2, <2>4, FS_Product
<1>3. \A p \in D : p = <<p[1], p[2]>> /\ p[1] \in fused /\ p[2] \in LaneNumbers  OBVIOUS
<1>4. \A x \in fused, i \in LaneNumbers : <<x, i>> \in D  OBVIOUS
<1> HIDE DEF D
<1>5. PICK lanes : lanes = SetToSeq(D)  OBVIOUS
<1>6. /\ n \in Nat /\ lanes \in [1 .. n -> D]
      /\ \A k, l \in 1 .. n : lanes[k] = lanes[l] => k = l
      /\ \A p \in D : \E k \in 1 .. n : lanes[k] = p
  BY <1>2, <1>5, SetToSeqFacts
<1> HIDE DEF n
<1> DEFINE place == [p \in D |-> CHOOSE k \in 1 .. n : lanes[k] = p]
           idOf == [p \in D |-> Len(imetas) + place[p]]
           sums == [k \in 1 .. n |-> Sum(lanes[k][1], lanes[k][2])]
<1>7. \A p \in D : place[p] \in 1 .. n /\ lanes[place[p]] = p  BY <1>6
<1>8. \A k \in 1 .. n : lanes[k] \in D /\ place[lanes[k]] = k  BY <1>6, <1>7
<1> HIDE DEF place
<1>9. /\ imetas' = imetas \o sums
      /\ incount' = WidenedIncount(split) \o [i \in DOMAIN sums |-> 1]
      /\ free' = (free \ split) \cup {Product(lanes[k][1], lanes[k][2], Len(imetas) + k) : k \in 1 .. n}
                   \cup UNION {LanesOf(x) : x \in split \ MulAdds}
      /\ schedulable_count_by_tid' = WidenedSchedulable(split)
  <2>1. DOMAIN lanes = 1 .. n  BY <1>6
  <2>2. fused \X (0 .. VLEN - 1) = D  BY DEF D, LaneNumbers
  <2> QED BY <1>5, <2>1, <2>2 DEF SplitValu
<1>10. Len(imetas) \in Nat /\ DOMAIN imetas = 1 .. Len(imetas) /\ imetas \in Seq(InstrMeta)
  BY ImetasFacts DEF TypesInv
<1>11. \A p \in D : idOf[p] = Len(imetas) + place[p] /\ idOf[p] \in Nat  BY <1>7, <1>10
<1> DEFINE all == split \X LaneNumbers
<1>12. PICK c : c = [wide |-> split, fused |-> fused, single |-> {},
                     front |-> [p \in all |-> IF p[1] \in MulAdds THEN Product(p[1], p[2], idOf[p])
                                              ELSE LaneOf(p[1], p[2])],
                     back |-> [p \in all |-> IF p[1] \in MulAdds THEN Sum(p[1], p[2]) ELSE LaneOf(p[1], p[2])],
                     narrow |-> <<>>]
  OBVIOUS
<1> HIDE DEF idOf, sums
<1>13. /\ c.wide = split /\ c.fused = fused /\ c.single = {}
       /\ \A x \in split, i \in LaneNumbers :
            /\ c.front[<<x, i>>] = IF x \in MulAdds THEN Product(x, i, idOf[<<x, i>>]) ELSE LaneOf(x, i)
            /\ c.back[<<x, i>>] = IF x \in MulAdds THEN Sum(x, i) ELSE LaneOf(x, i)
  BY <1>12
<1>15. /\ sums \in Seq(InstrMeta) /\ Len(sums) = n /\ DOMAIN sums = 1 .. n
       /\ \A k \in 1 .. n : sums[k] = Sum(lanes[k][1], lanes[k][2])
  <2>1. ASSUME NEW k \in 1 .. n PROVE Sum(lanes[k][1], lanes[k][2]) \in InstrMeta
    <3>1. PICK x \in fused, i \in LaneNumbers : x = lanes[k][1] /\ i = lanes[k][2]  BY <1>3, <1>8
    <3>2. IsPiece(Sum(x, i), x, i)  BY AluPieces
    <3> QED BY <3>1, <3>2 DEF IsPiece
  <2> QED BY <1>6, <2>1 DEF sums
<1>16. /\ imetas' \in Seq(InstrMeta) /\ DOMAIN imetas' = 1 .. Len(imetas) + n
       /\ \A j \in DOMAIN imetas : imetas'[j] = imetas[j]
       /\ \A k \in 1 .. n : imetas'[Len(imetas) + k] = sums[k]
  <2>1. /\ imetas \o sums \in Seq(InstrMeta) /\ DOMAIN (imetas \o sums) = 1 .. Len(imetas) + Len(sums)
        /\ \A j \in 1 .. Len(imetas) : (imetas \o sums)[j] = imetas[j]
        /\ \A k \in 1 .. Len(sums) : (imetas \o sums)[Len(imetas) + k] = sums[k]
    <3>1. imetas \in Seq(InstrMeta) /\ sums \in Seq(InstrMeta)  BY <1>10, <1>15
    <3>2. AreSequences(imetas, sums, InstrMeta)  BY <3>1 DEF AreSequences
    <3> QED BY <3>2, AppendedFacts
  <2> QED BY <1>9, <1>10, <1>15, <2>1
<1>17. /\ incount' \in [DOMAIN imetas' -> Nat]
       /\ \A j \in DOMAIN imetas : incount'[j] = Widened(incount[j], {x \in split : j \in x.after})
       /\ \A j \in DOMAIN imetas' \ DOMAIN imetas : incount'[j] = 1
  <2>1. PICK old : old = WidenedIncount(split)  OBVIOUS
  <2>2. PICK ones : ones = [i \in DOMAIN sums |-> 1]  OBVIOUS
  <2>3. /\ old \in [1 .. Len(imetas) -> Nat]
        /\ \A j \in DOMAIN imetas : old[j] = Widened(incount[j], {x \in split : j \in x.after})
    <3>1. split \subseteq free  BY <1>1
    <3> QED BY <1>10, <2>1, <3>1, WidenedFacts
  <2>4. old \in Seq(Nat) /\ Len(old) = Len(imetas)  BY <1>10, <2>3
  <2>5. ones \in Seq(Nat) /\ Len(ones) = n /\ \A k \in 1 .. n : ones[k] = 1  BY <1>6, <1>15, <2>2
  <2>6. incount' = old \o ones  BY <1>9, <2>1, <2>2
  <2>7. /\ DOMAIN incount' = 1 .. Len(imetas) + n
        /\ \A j \in 1 .. Len(imetas) : incount'[j] = old[j]
        /\ \A k \in 1 .. n : incount'[Len(imetas) + k] = ones[k]
    <3>1. /\ DOMAIN (old \o ones) = 1 .. Len(old) + Len(ones)
          /\ \A j \in 1 .. Len(old) : (old \o ones)[j] = old[j]
          /\ \A k \in 1 .. Len(ones) : (old \o ones)[Len(old) + k] = ones[k]
      <4>1. old \in Seq(Nat) /\ ones \in Seq(Nat)  BY <2>4, <2>5
      <4>2. AreSequences(old, ones, Nat)  BY <4>1 DEF AreSequences
      <4> QED BY <4>2, AppendedFacts
    <3> QED BY <2>4, <2>5, <2>6, <3>1
  <2>8. ASSUME NEW j \in DOMAIN imetas' \ DOMAIN imetas PROVE incount'[j] = 1
    <3>1. j - Len(imetas) \in 1 .. n /\ j = Len(imetas) + (j - Len(imetas))  BY <1>6, <1>10, <1>16
    <3> QED BY <2>5, <2>7, <3>1
  <2>9. incount' \in [DOMAIN imetas' -> Nat]
    <3>1. old \o ones \in Seq(Nat)  BY <2>4, <2>5
    <3>2. incount' \in Seq(Nat)  BY <2>6, <3>1
    <3>3. incount' \in [DOMAIN incount' -> Nat]  BY <3>2
    <3> QED BY <1>16, <2>7, <3>3
  <2> QED BY <1>10, <2>3, <2>7, <2>8, <2>9
<1>18. \A x \in fused, i \in LaneNumbers :
         \E j \in DOMAIN imetas' \ DOMAIN imetas : c.front[<<x, i>>].after = {j} /\ imetas'[j] = c.back[<<x, i>>]
  <2> SUFFICES ASSUME NEW x \in fused, NEW i \in LaneNumbers
               PROVE  \E j \in DOMAIN imetas' \ DOMAIN imetas :
                        c.front[<<x, i>>].after = {j} /\ imetas'[j] = c.back[<<x, i>>]
    OBVIOUS
  <2>1. PICK p \in D : p = <<x, i>>  BY <1>4
  <2>2. PICK k \in 1 .. n : k = place[p] /\ lanes[k] = p  BY <1>7
  <2>3. PICK j \in Nat : j = idOf[p] /\ j = Len(imetas) + k  BY <1>11, <2>2
  <2>4. j \in DOMAIN imetas' \ DOMAIN imetas  BY <1>6, <1>10, <1>16, <2>3
  <2>5. c.front[<<x, i>>] = Product(x, i, j) /\ c.back[<<x, i>>] = Sum(x, i)  BY <1>13, <2>1, <2>3
  <2>6. Product(x, i, j).after = {j}
    <3>1. x \in split /\ x \in MulAdds  OBVIOUS
    <3>2. \A id \in Nat : Product(x, i, id).after = {id}  BY <3>1, AluPieces
    <3> QED BY <3>2
  <2>7. imetas'[j] = Sum(x, i)
    <3>1. imetas'[j] = sums[k]  BY <1>16, <2>3
    <3>2. sums[k] = Sum(lanes[k][1], lanes[k][2])  BY <1>15
    <3>3. lanes[k][1] = x /\ lanes[k][2] = i  BY <2>1, <2>2
    <3> QED BY <3>1, <3>2, <3>3
  <2> QED BY <2>4, <2>5, <2>6, <2>7
<1>19. \A j \in DOMAIN imetas' \ DOMAIN imetas :
         \E x \in fused, i \in LaneNumbers : c.front[<<x, i>>].after = {j} /\ imetas'[j] = c.back[<<x, i>>]
  <2> SUFFICES ASSUME NEW j \in DOMAIN imetas' \ DOMAIN imetas
               PROVE  \E x \in fused, i \in LaneNumbers :
                        c.front[<<x, i>>].after = {j} /\ imetas'[j] = c.back[<<x, i>>]
    OBVIOUS
  <2>1. PICK k \in 1 .. n : j = Len(imetas) + k
    <3>1. j - Len(imetas) \in 1 .. n /\ j = Len(imetas) + (j - Len(imetas))  BY <1>6, <1>10, <1>16
    <3> QED BY <3>1
  <2>2. lanes[k] \in D /\ place[lanes[k]] = k  BY <1>8
  <2>3. PICK x \in fused, i \in LaneNumbers : lanes[k] = <<x, i>>  BY <1>3, <2>2
  <2>4. idOf[<<x, i>>] = j /\ j \in Nat  BY <1>11, <2>1, <2>2, <2>3
  <2>5. c.front[<<x, i>>] = Product(x, i, j) /\ c.back[<<x, i>>] = Sum(x, i)  BY <1>13, <2>4
  <2>6. Product(x, i, j).after = {j}
    <3>1. x \in split /\ x \in MulAdds  OBVIOUS
    <3>2. \A l \in Nat : Product(x, i, l).after = {l}  BY <3>1, AluPieces
    <3> QED BY <2>4, <3>2
  <2>7. imetas'[j] = Sum(x, i)
    <3>1. imetas'[j] = sums[k]  BY <1>16, <2>1
    <3>2. sums[k] = Sum(lanes[k][1], lanes[k][2])  BY <1>15
    <3>3. lanes[k][1] = x /\ lanes[k][2] = i  BY <2>3
    <3> QED BY <3>1, <3>2, <3>3
  <2> QED BY <2>5, <2>6, <2>7
<1>20. free' = (free \ (c.wide \cup c.single))
                 \cup {c.front[p] : p \in c.wide \X LaneNumbers} \cup {c.narrow[x] : x \in c.single}
  <2> DEFINE products == {Product(lanes[k][1], lanes[k][2], Len(imetas) + k) : k \in 1 .. n}
             rest == UNION {LanesOf(x) : x \in split \ MulAdds}
             fronts == {c.front[p] : p \in split \X LaneNumbers}
  <2>1. ASSUME NEW y PROVE y \in fronts <=> \E x \in split, i \in LaneNumbers : y = c.front[<<x, i>>]
    <3>0. y \in fronts <=> \E p \in split \X LaneNumbers : y = c.front[p]  OBVIOUS
    <3> HIDE DEF fronts
    <3>1. \A p \in split \X LaneNumbers : p = <<p[1], p[2]>> /\ p[1] \in split /\ p[2] \in LaneNumbers
      OBVIOUS
    <3>2. \A x \in split, i \in LaneNumbers : <<x, i>> \in split \X LaneNumbers  OBVIOUS
    <3> HIDE DEF fused
    <3> QED BY <3>0, <3>1, <3>2, ZenonT(60)
  <2>2. \A y : y \in rest <=> \E x \in split \ MulAdds, i \in LaneNumbers : y = LaneOf(x, i)
    BY LanesOfFacts
  <2>3. ASSUME NEW y PROVE y \in products <=> \E x \in fused, i \in LaneNumbers : y = c.front[<<x, i>>]
    <3>0. y \in products <=> \E k \in 1 .. n : y = Product(lanes[k][1], lanes[k][2], Len(imetas) + k)  OBVIOUS
    <3>1. ASSUME NEW k \in 1 .. n
          PROVE  \E x \in fused, i \in LaneNumbers :
                   Product(lanes[k][1], lanes[k][2], Len(imetas) + k) = c.front[<<x, i>>]
      <4>1. lanes[k] \in D /\ place[lanes[k]] = k  BY <1>8
      <4>2. PICK x \in fused, i \in LaneNumbers : lanes[k] = <<x, i>>  BY <1>3, <4>1
      <4>3. idOf[<<x, i>>] = Len(imetas) + k  BY <1>11, <4>1, <4>2
      <4>4. lanes[k][1] = x /\ lanes[k][2] = i  BY <4>2
      <4> QED BY <1>13, <4>3, <4>4
    <3>2. ASSUME NEW x \in fused, NEW i \in LaneNumbers
          PROVE  \E k \in 1 .. n : c.front[<<x, i>>] = Product(lanes[k][1], lanes[k][2], Len(imetas) + k)
      <4>1. PICK p \in D : p = <<x, i>>  BY <1>4
      <4>2. PICK k \in 1 .. n : k = place[p] /\ lanes[k] = p  BY <1>7
      <4>3. idOf[<<x, i>>] = Len(imetas) + k  BY <1>11, <4>1, <4>2
      <4>4. lanes[k][1] = x /\ lanes[k][2] = i  BY <4>1, <4>2
      <4> QED BY <1>13, <4>3, <4>4
    <3> HIDE DEF products, fused
    <3> QED BY <3>0, <3>1, <3>2
  <2>4. free' = (free \ split) \cup products \cup rest  BY <1>9
  <2> HIDE DEF products, rest
  <2>5. fronts = products \cup rest
    <3>1. \A x \in split \ MulAdds, i \in LaneNumbers : c.front[<<x, i>>] = LaneOf(x, i)  BY <1>13
    <3>2. \A x \in split : x \in fused \/ x \in split \ MulAdds  OBVIOUS
    <3>3. fused \subseteq split  OBVIOUS
    <3> HIDE DEF fronts, fused
    <3>4. ASSUME NEW y \in fronts PROVE y \in products \cup rest
      <4>1. PICK x \in split, i \in LaneNumbers : y = c.front[<<x, i>>]  BY <2>1
      <4>2. CASE x \in fused  BY <2>3, <4>1, <4>2
      <4>3. CASE x \notin fused
        <5>1. x \in split \ MulAdds  BY <3>2, <4>3
        <5>2. y \in rest  BY <2>2, <3>1, <4>1, <5>1
        <5> QED BY <5>2
      <4> QED BY <4>2, <4>3
    <3>5. ASSUME NEW y \in products PROVE y \in fronts  BY <2>1, <2>3, <3>3
    <3>6. ASSUME NEW y \in rest PROVE y \in fronts
      <4>1. PICK x \in split \ MulAdds, i \in LaneNumbers : y = LaneOf(x, i)  BY <2>2
      <4>2. y = c.front[<<x, i>>]  BY <3>1, <4>1
      <4> QED BY <2>1, <4>2
    <3> QED BY <3>4, <3>5, <3>6
  <2> HIDE DEF fronts
  <2>6. {c.narrow[x] : x \in c.single} = {} /\ {c.front[p] : p \in c.wide \X LaneNumbers} = fronts
    BY <1>13 DEF fronts
  <2>7. free \ (c.wide \cup c.single) = free \ split  BY <1>13
  <2> QED BY <2>4, <2>5, <2>6, <2>7
<1>21. ASSUME NEW x \in c.wide, NEW i \in LaneNumbers
       PROVE  /\ IsPiece(c.front[<<x, i>>], x, i) /\ IsPiece(c.back[<<x, i>>], x, i)
              /\ c.back[<<x, i>>].after = x.after
              /\ x \notin c.fused => c.front[<<x, i>>] = c.back[<<x, i>>] /\ c.back[<<x, i>>].part = "lane"
              /\ x \in c.fused => c.front[<<x, i>>].part = "product" /\ c.back[<<x, i>>].part = "sum"
  <2>1. x \in split  BY <1>13
  <2>2. CASE x \in MulAdds
    <3>1. x \in fused /\ x \in c.fused  BY <1>13, <2>1, <2>2
    <3>2. <<x, i>> \in D  BY <1>4, <3>1
    <3>3. PICK j \in Nat : j = idOf[<<x, i>>]  BY <1>11, <3>2
    <3>4. c.front[<<x, i>>] = Product(x, i, j) /\ c.back[<<x, i>>] = Sum(x, i)  BY <1>13, <2>1, <2>2, <3>3
    <3>5. \A k \in Nat : IsPiece(Product(x, i, k), x, i) /\ Product(x, i, k).part = "product"
      <4>1. x \in split /\ x \in MulAdds  BY <2>1, <2>2
      <4>2. \A k \in Nat : /\ IsPiece(Product(x, i, k), x, i)
                           /\ Product(x, i, k).part = "product" /\ Product(x, i, k).after = {k}
        BY <4>1, AluPieces
      <4> QED BY <4>2
    <3>6. IsPiece(Sum(x, i), x, i) /\ Sum(x, i).part = "sum" /\ Sum(x, i).after = x.after
      BY <2>1, <2>2, AluPieces
    <3> QED BY <3>1, <3>4, <3>5, <3>6
  <2>3. CASE x \notin MulAdds
    <3>1. x \notin c.fused  BY <1>13, <2>3
    <3>2. c.front[<<x, i>>] = LaneOf(x, i) /\ c.back[<<x, i>>] = LaneOf(x, i)  BY <1>13, <2>1, <2>3
    <3>3. IsPiece(LaneOf(x, i), x, i) /\ LaneOf(x, i).part = "lane" /\ LaneOf(x, i).after = x.after
      BY <2>1, <2>3, AluPieces
    <3> QED BY <3>1, <3>2, <3>3
  <2> QED BY <2>2, <2>3
<1>22. ASSUME NEW x \in c.fused PROVE Addend(x.inst) \cap WritesOf(x) = {}
  <2>1. x \in split /\ x \in MulAdds  BY <1>13
  <2>2. 0 \in LaneNumbers  BY VectorLength DEF LaneNumbers
  <2> QED BY <2>1, <2>2, AluPieces
<1>23. /\ c.wide \subseteq free /\ c.fused \subseteq c.wide /\ c.single \subseteq free
       /\ c.wide \cap c.single = {} /\ \A x \in c.wide : x.lin.engine = "valu"
  BY <1>1, <1>13
<1>24. DOMAIN imetas \subseteq DOMAIN imetas'  BY <1>6, <1>10, <1>16
<1>25. \A x \in c.single : IsConverted(c.narrow[x], x)  BY <1>13
<1>26. schedulable_count_by_tid' = WidenedSchedulable(c.wide)  BY <1>9, <1>13
<1>27. \A j \in DOMAIN imetas : incount'[j] = Widened(incount[j], {x \in c.wide : j \in x.after})
  BY <1>13, <1>17
<1>28. /\ \A x \in c.wide, i \in LaneNumbers : x \in c.fused =>
            \E j \in DOMAIN imetas' \ DOMAIN imetas : c.front[<<x, i>>].after = {j} /\ imetas'[j] = c.back[<<x, i>>]
       /\ \A j \in DOMAIN imetas' \ DOMAIN imetas :
            \E x \in c.fused, i \in LaneNumbers : c.front[<<x, i>>].after = {j} /\ imetas'[j] = c.back[<<x, i>>]
  <2>1. c.wide = split /\ c.fused = fused  BY <1>13
  <2> HIDE DEF fused
  <2>2. ASSUME NEW x \in c.wide, NEW i \in LaneNumbers, x \in c.fused
        PROVE  \E j \in DOMAIN imetas' \ DOMAIN imetas :
                 c.front[<<x, i>>].after = {j} /\ imetas'[j] = c.back[<<x, i>>]
    BY <1>18, <2>1, <2>2, Zenon
  <2>3. \A j \in DOMAIN imetas' \ DOMAIN imetas :
          \E x \in c.fused, i \in LaneNumbers : c.front[<<x, i>>].after = {j} /\ imetas'[j] = c.back[<<x, i>>]
    BY <1>19, <2>1, Zenon
  <2> QED BY <2>2, <2>3, Zenon
<1>29. Recut(c)
  <2>1. \A x \in c.wide, i \in LaneNumbers :
       /\ IsPiece(c.front[<<x, i>>], x, i) /\ IsPiece(c.back[<<x, i>>], x, i)
       /\ c.back[<<x, i>>].after = x.after
       /\ x \notin c.fused => c.front[<<x, i>>] = c.back[<<x, i>>] /\ c.back[<<x, i>>].part = "lane"
       /\ x \in c.fused =>
            /\ c.front[<<x, i>>].part = "product" /\ c.back[<<x, i>>].part = "sum"
            /\ \E j \in DOMAIN imetas' \ DOMAIN imetas :
                 c.front[<<x, i>>].after = {j} /\ imetas'[j] = c.back[<<x, i>>]
    <3> SUFFICES ASSUME NEW x \in c.wide, NEW i \in LaneNumbers
                 PROVE  /\ IsPiece(c.front[<<x, i>>], x, i) /\ IsPiece(c.back[<<x, i>>], x, i)
                        /\ c.back[<<x, i>>].after = x.after
                        /\ x \notin c.fused =>
                             c.front[<<x, i>>] = c.back[<<x, i>>] /\ c.back[<<x, i>>].part = "lane"
                        /\ x \in c.fused =>
                             /\ c.front[<<x, i>>].part = "product" /\ c.back[<<x, i>>].part = "sum"
                             /\ \E j \in DOMAIN imetas' \ DOMAIN imetas :
                                  c.front[<<x, i>>].after = {j} /\ imetas'[j] = c.back[<<x, i>>]
      OBVIOUS
    <3>1. x \in c.fused =>
            \E j \in DOMAIN imetas' \ DOMAIN imetas :
              c.front[<<x, i>>].after = {j} /\ imetas'[j] = c.back[<<x, i>>]
      BY <1>28, Zenon
    <3> QED BY <1>21, <3>1, Zenon
  <2>2. \A x \in c.fused : Addend(x.inst) \cap WritesOf(x) = {}  BY <1>22
  <2>3. UNCHANGED <<frontier, next_batch_tid>>  OBVIOUS
  <2>4. /\ \A j \in DOMAIN imetas' \ DOMAIN imetas : incount'[j] = 1
        /\ incount' \in [DOMAIN imetas' -> Nat] /\ imetas' \in Seq(InstrMeta)
        /\ \A j \in DOMAIN imetas : imetas'[j] = imetas[j]
    BY <1>16, <1>17
  <2> QED BY <1>20, <1>23, <1>24, <1>25, <1>26, <1>27, <1>28, <2>1, <2>2, <2>3, <2>4, Zenon DEF Recut
<1> QED BY <1>1, <1>13, <1>29

LEMMA SplitAddIntoImmRecut ==
  ASSUME TypesInv, ProgramInv, HeapInv, NEW split, split \subseteq ImmAdds,
         SplitAddIntoImm(split), UNCHANGED <<frontier, next_batch_tid>>
  PROVE  \E c : Recut(c) /\ c.wide \cup c.single \subseteq free \ to_retire
<1> DEFINE wide == {x \in split : Splittable(x)}
           single == {x \in split : IsScalarImmAdd(x)}
           all == wide \X LaneNumbers
           lane(x, i) == AddImm(x, "lane", Lane(x.lin.args, i))
           same(x) == AddImm(x, x.part, x.lin.args)
<1>1. split \subseteq free \ to_retire  BY DEF ImmAdds
<1>2. ASSUME NEW x \in wide
      PROVE  /\ x.lin.engine = "valu" /\ x.lin.op \notin {"vbroadcast", "multiply_add"} /\ x \notin single
             /\ x \in InstrMeta /\ VectorOperands(x.lin.op, x.lin.args)
  <2>1. x \in free /\ x.lin.engine = "valu" /\ x.lin.op = "+"
    BY <1>1 DEF Splittable, IsVectorImmAdd, AddsConstant
  <2>2. x \notin single  BY <2>1 DEF IsScalarImmAdd, AddsConstant
  <2> QED BY <2>1, <2>2, ValuFacts
<1>3. ASSUME NEW x \in single
      PROVE  x.lin.engine = "alu" /\ x \in InstrMeta /\ Ternary(x.lin)
  <2>1. x \in free /\ x.lin.engine = "alu"  BY <1>1 DEF IsScalarImmAdd, AddsConstant
  <2>2. PieceOK(x)  BY <2>1 DEF HeapInv, PieceInv, Pending
  <2> QED BY <2>1, <2>2 DEF PieceOK
<1>4. /\ free' = (free \ split) \cup UNION {Immediates(x) : x \in split}
      /\ incount' = WidenedIncount(wide)
      /\ schedulable_count_by_tid' = WidenedSchedulable(wide)
      /\ imetas' = imetas
  BY DEF SplitAddIntoImm
<1>5. PICK c : c = [wide |-> wide, fused |-> {}, single |-> single,
                    front |-> [p \in all |-> lane(p[1], p[2])], back |-> [p \in all |-> lane(p[1], p[2])],
                    narrow |-> [x \in single |-> same(x)]]
  OBVIOUS
<1> HIDE DEF lane, same
<1>6. /\ c.wide = wide /\ c.fused = {} /\ c.single = single
      /\ \A x \in wide, i \in LaneNumbers : c.front[<<x, i>>] = lane(x, i) /\ c.back[<<x, i>>] = lane(x, i)
      /\ \A x \in single : c.narrow[x] = same(x)
  BY <1>5
<1>7. ASSUME NEW x \in wide, NEW i \in LaneNumbers
      PROVE  IsPiece(lane(x, i), x, i) /\ lane(x, i).part = "lane" /\ lane(x, i).after = x.after
  <2>1. PICK y : y = AddImm(x, "lane", Lane(x.lin.args, i))  OBVIOUS
  <2>2. i \in 0 .. VLEN - 1  BY DEF LaneNumbers
  <2>3. IsPiece(y, x, i) /\ y.part = "lane" /\ y.after = x.after  BY <1>2, <2>1, <2>2, ImmediatePiece
  <2> QED BY <2>1, <2>3 DEF lane
<1>8. ASSUME NEW x \in single PROVE IsConverted(same(x), x)
  <2>1. PICK y : y = AddImm(x, x.part, x.lin.args)  OBVIOUS
  <2>2. IsConverted(y, x)  BY <1>3, <2>1, ConvertedPiece
  <2> QED BY <2>1, <2>2 DEF same
<1>9. ASSUME NEW x \in split
      PROVE  /\ x \in wide => Immediates(x) = {lane(x, i) : i \in LaneNumbers}
             /\ x \in single => Immediates(x) = {same(x)}
             /\ x \notin wide \cup single => Immediates(x) = {x}
  <2>1. x \in wide <=> Splittable(x)  OBVIOUS
  <2>2. x \in single <=> IsScalarImmAdd(x)  OBVIOUS
  <2>3. ASSUME x \in wide PROVE Immediates(x) = {lane(x, i) : i \in LaneNumbers}
    BY <2>1, <2>3, Zenon DEF Immediates, lane, LaneNumbers
  <2>4. ASSUME x \in single PROVE Immediates(x) = {same(x)}
    <3>1. ~Splittable(x) /\ IsScalarImmAdd(x)  BY <1>2, <2>4
    <3> QED BY <3>1, Zenon DEF Immediates, same
  <2>5. ASSUME x \notin wide \cup single PROVE Immediates(x) = {x}
    <3>1. ~Splittable(x) /\ ~IsScalarImmAdd(x)  BY <2>5
    <3> QED BY <3>1, Zenon DEF Immediates
  <2> QED BY <2>3, <2>4, <2>5
<1> HIDE DEF wide, single
<1>10. wide \subseteq split /\ single \subseteq split  BY DEF wide, single
<1>11. free' = (free \ (c.wide \cup c.single))
                 \cup {c.front[p] : p \in c.wide \X LaneNumbers} \cup {c.narrow[x] : x \in c.single}
  <2> DEFINE immediates == UNION {Immediates(x) : x \in split}
             fronts == {c.front[p] : p \in wide \X LaneNumbers}
             narrows == {c.narrow[x] : x \in single}
  <2>1. ASSUME NEW y PROVE y \in fronts <=> \E x \in wide, i \in LaneNumbers : y = lane(x, i)
    <3>1. y \in fronts <=> \E p \in wide \X LaneNumbers : y = c.front[p]  OBVIOUS
    <3> HIDE DEF fronts
    <3>2. \A p \in wide \X LaneNumbers : p = <<p[1], p[2]>> /\ p[1] \in wide /\ p[2] \in LaneNumbers
      OBVIOUS
    <3>3. \A x \in wide, i \in LaneNumbers : <<x, i>> \in wide \X LaneNumbers  OBVIOUS
    <3>4. ASSUME y \in fronts PROVE \E x \in wide, i \in LaneNumbers : y = lane(x, i)
      <4>1. PICK p \in wide \X LaneNumbers : y = c.front[p]  BY <3>1, <3>4
      <4>2. PICK x \in wide, i \in LaneNumbers : p = <<x, i>>  BY <3>2
      <4> QED BY <1>6, <4>1, <4>2
    <3>5. ASSUME NEW x \in wide, NEW i \in LaneNumbers, y = lane(x, i) PROVE y \in fronts
      <4>1. y = c.front[<<x, i>>]  BY <1>6, <3>5
      <4> QED BY <3>1, <3>3, <4>1
    <3> QED BY <3>4, <3>5
  <2>2. ASSUME NEW y PROVE y \in narrows <=> \E x \in single : y = same(x)  BY <1>6
  <2>3. ASSUME NEW y PROVE y \in immediates <=> \E x \in split : y \in Immediates(x)  OBVIOUS
  <2>4. free' = (free \ split) \cup immediates  BY <1>4
  <2> HIDE DEF fronts, narrows, immediates
  <2>5. ASSUME NEW y \in free' PROVE y \in (free \ (wide \cup single)) \cup fronts \cup narrows
    <3>1. CASE y \in free \ split  BY <1>10, <3>1
    <3>2. CASE y \in immediates
      <4>1. PICK x \in split : y \in Immediates(x)  BY <2>3, <3>2
      <4>2. CASE x \in wide
        <5>1. \E i \in LaneNumbers : y = lane(x, i)  BY <1>9, <4>1, <4>2
        <5> QED BY <2>1, <4>2, <5>1
      <4>3. CASE x \in single  BY <1>9, <2>2, <4>1, <4>3
      <4>4. CASE x \notin wide \cup single
        <5>1. y = x  BY <1>9, <4>1, <4>4
        <5> QED BY <1>1, <4>4, <5>1
      <4> QED BY <4>2, <4>3, <4>4
    <3> QED BY <2>4, <3>1, <3>2
  <2>6. ASSUME NEW y \in free \ (wide \cup single) PROVE y \in free'
    <3>1. CASE y \in split
      <4>1. y \in Immediates(y)  BY <1>9, <3>1
      <4> QED BY <2>3, <2>4, <3>1, <4>1
    <3>2. CASE y \notin split  BY <2>4, <3>2
    <3> QED BY <3>1, <3>2
  <2>7. ASSUME NEW y \in fronts PROVE y \in free'
    <3>1. PICK x \in wide, i \in LaneNumbers : y = lane(x, i)  BY <2>1
    <3>2. x \in split /\ y \in Immediates(x)  BY <1>9, <1>10, <3>1
    <3> QED BY <2>3, <2>4, <3>2
  <2>8. ASSUME NEW y \in narrows PROVE y \in free'
    <3>1. PICK x \in single : y = same(x)  BY <2>2
    <3>2. x \in split /\ y \in Immediates(x)  BY <1>9, <1>10, <3>1
    <3> QED BY <2>3, <2>4, <3>2
  <2>9. free' = (free \ (wide \cup single)) \cup fronts \cup narrows  BY <2>5, <2>6, <2>7, <2>8
  <2> QED BY <1>6, <2>9 DEF fronts, narrows
<1>12. /\ c.wide \subseteq free /\ c.fused \subseteq c.wide /\ c.single \subseteq free
       /\ c.wide \cap c.single = {} /\ \A x \in c.wide : x.lin.engine = "valu"
  BY <1>1, <1>2, <1>6, <1>10
<1>13. \A x \in c.wide, i \in LaneNumbers :
         /\ IsPiece(c.front[<<x, i>>], x, i) /\ IsPiece(c.back[<<x, i>>], x, i)
         /\ c.back[<<x, i>>].after = x.after
         /\ x \notin c.fused => c.front[<<x, i>>] = c.back[<<x, i>>] /\ c.back[<<x, i>>].part = "lane"
         /\ x \in c.fused =>
              /\ c.front[<<x, i>>].part = "product" /\ c.back[<<x, i>>].part = "sum"
              /\ \E j \in DOMAIN imetas' \ DOMAIN imetas :
                   c.front[<<x, i>>].after = {j} /\ imetas'[j] = c.back[<<x, i>>]
  <2> TAKE x \in c.wide, i \in LaneNumbers
  <2>1. x \in wide /\ x \notin c.fused  BY <1>6
  <2>2. c.front[<<x, i>>] = lane(x, i) /\ c.back[<<x, i>>] = lane(x, i)  BY <1>6, <2>1
  <2>3. IsPiece(lane(x, i), x, i) /\ lane(x, i).part = "lane" /\ lane(x, i).after = x.after  BY <1>7, <2>1
  <2> QED BY <2>1, <2>2, <2>3
<1>14. \A x \in c.single : IsConverted(c.narrow[x], x)  BY <1>6, <1>8
<1>15. \A x \in c.fused : Addend(x.inst) \cap WritesOf(x) = {}  BY <1>6
<1>16. /\ imetas' \in Seq(InstrMeta) /\ DOMAIN imetas \subseteq DOMAIN imetas'
       /\ \A j \in DOMAIN imetas : imetas'[j] = imetas[j]
       /\ DOMAIN imetas' \ DOMAIN imetas = {}
  BY <1>4 DEF TypesInv
<1>17. /\ incount' \in [DOMAIN imetas' -> Nat]
       /\ \A j \in DOMAIN imetas : incount'[j] = Widened(incount[j], {x \in c.wide : j \in x.after})
  <2>1. wide \subseteq free  BY <1>1, <1>10
  <2>2. /\ WidenedIncount(wide) \in [DOMAIN imetas -> Nat]
        /\ \A j \in DOMAIN imetas : WidenedIncount(wide)[j] = Widened(incount[j], {x \in wide : j \in x.after})
    BY <2>1, WidenedFacts
  <2> QED BY <1>4, <1>6, <2>2
<1>18. schedulable_count_by_tid' = WidenedSchedulable(c.wide)  BY <1>4, <1>6
<1>19. /\ \A j \in DOMAIN imetas' \ DOMAIN imetas : incount'[j] = 1
       /\ \A j \in DOMAIN imetas' \ DOMAIN imetas :
            \E x \in c.fused, i \in LaneNumbers : c.front[<<x, i>>].after = {j} /\ imetas'[j] = c.back[<<x, i>>]
  BY <1>16
<1>20. UNCHANGED <<frontier, next_batch_tid>>  OBVIOUS
<1>21. Recut(c)
  BY <1>11, <1>12, <1>13, <1>14, <1>15, <1>16, <1>17, <1>18, <1>19, <1>20, Zenon DEF Recut
<1> QED BY <1>1, <1>6, <1>10, <1>21

\* What is taken from the heap for an engine is in it.
LEMMA ObtainFacts ==
  ASSUME NEW engine, NEW s, NEW S \in Obtain(engine, s)
  PROVE  S \subseteq s
BY DEF Obtain, kSubset

LEMMA RecutTypes ==
  ASSUME TypesInv, ProgramInv, HeapInv, NEW c, Recut(c), c.wide \cup c.single \subseteq free \ to_retire,
         NEW S, S \subseteq free', to_retire' = to_retire \cup S,
         pc' \in {"load", "execute"}, UNCHANGED scratch
  PROVE  TypesInv'
<1>1. ProgramInv' /\ HeapInv'  BY RecutHeap
<1>2. /\ c.wide \in SUBSET free /\ c.single \in SUBSET free
      /\ imetas' \in Seq(InstrMeta)
      /\ free' = (free \ (c.wide \cup c.single))
                   \cup {c.front[p] : p \in c.wide \X LaneNumbers} \cup {c.narrow[x] : x \in c.single}
      /\ schedulable_count_by_tid' = WidenedSchedulable(c.wide)
      /\ UNCHANGED <<frontier, next_batch_tid>>
  BY DEF Recut
<1>3. IsFiniteSet(c.wide) /\ IsFiniteSet(c.single)  BY <1>2, FS_Subset DEF TypesInv
<1>4. IsFiniteSet(c.wide \X LaneNumbers)
  <2>1. IsFiniteSet(0 .. (VLEN - 1))  BY VectorLength, FS_Interval
  <2>2. IsFiniteSet(LaneNumbers)  BY <2>1 DEF LaneNumbers
  <2> QED BY <1>3, <2>2, FS_Product
<1>5. IsFiniteSet({c.front[p] : p \in c.wide \X LaneNumbers})
  <2> DEFINE D == c.wide \X LaneNumbers
             f == [p \in D |-> c.front[p]]
             R == {c.front[p] : p \in D}
  <2>1. f \in Surjection(D, R)  BY DEF Surjection
  <2> HIDE DEF f, R
  <2>2. IsFiniteSet(D)  BY <1>4
  <2> HIDE DEF D
  <2>3. IsFiniteSet(R)  BY <2>1, <2>2, FS_Surjection
  <2> QED BY <2>3 DEF R, D
<1>6. IsFiniteSet({c.narrow[x] : x \in c.single})
  <2> DEFINE f == [x \in c.single |-> c.narrow[x]]
             R == {c.narrow[x] : x \in c.single}
  <2>1. f \in Surjection(c.single, R)  BY DEF Surjection
  <2> HIDE DEF f, R
  <2>2. IsFiniteSet(R)  BY <1>3, <2>1, FS_Surjection
  <2> QED BY <2>2 DEF R
<1>7. IsFiniteSet(free') /\ IsFiniteSet(frontier')
  <2> DEFINE kept == free \ (c.wide \cup c.single)
             fronts == {c.front[p] : p \in c.wide \X LaneNumbers}
             narrows == {c.narrow[x] : x \in c.single}
  <2>1. kept \in SUBSET free  OBVIOUS
  <2>2. IsFiniteSet(kept)  BY <2>1, FS_Subset DEF TypesInv
  <2>3. IsFiniteSet(fronts) /\ IsFiniteSet(narrows)  BY <1>5, <1>6
  <2>4. free' = (kept \cup fronts) \cup narrows  BY <1>2
  <2> HIDE DEF kept, fronts, narrows
  <2>5. IsFiniteSet(kept \cup fronts)  BY <2>2, <2>3, FS_Union
  <2>6. IsFiniteSet(free')  BY <2>3, <2>4, <2>5, FS_Union
  <2> QED BY <1>2, <2>6 DEF TypesInv
<1>8. incount' \in [DOMAIN imetas' -> Nat]  BY DEF Recut
<1>9. schedulable_count_by_tid' \in [-1 .. NumThreads - 1 -> Nat]
  <2>1. /\ DOMAIN schedulable_count_by_tid' = -1 .. NumThreads - 1
        /\ schedulable_count_by_tid' = [t \in DOMAIN schedulable_count_by_tid' |-> schedulable_count_by_tid'[t]]
    BY <1>2 DEF WidenedSchedulable, TypesInv
  <2>2. ASSUME NEW t \in -1 .. NumThreads - 1 PROVE schedulable_count_by_tid'[t] \in Nat
    <3>1. schedulable_count_by_tid'[t] = Cardinality(IssuableOf(t)')  BY <1>1 DEF HeapInv, CountsInv
    <3>2. IsFiniteSet(Issuable')  BY <1>7, FS_Union DEF Issuable
    <3>3. IssuableOf(t)' \in SUBSET Issuable'  BY DEF IssuableOf
    <3> QED BY <3>1, <3>2, <3>3, FS_Subset, FS_CardinalityType
  <2> QED BY <2>1, <2>2
<1>10. to_retire' \subseteq free'  BY <1>2 DEF TypesInv
<1>11. /\ next_batch_tid' \in Conc .. NumThreads /\ DOMAIN scratch' = 0 .. ScratchSize - 1
       /\ pc' \in {"have_more", "valu", "alu", "load", "store", "flow", "execute", "retire", "done"}
       /\ pc' \notin {"have_more", "valu", "done"}
  BY <1>2 DEF TypesInv
<1> QED BY <1>2, <1>7, <1>8, <1>9, <1>10, <1>11 DEF TypesInv

-----------------------------------------------------------------------------
(* The actions keep the heap consistent *)

\* What an action does that leaves the same instructions issuable.
LEMMA SameHeap ==
  ASSUME TypesInv, ProgramInv, HeapInv, UNCHANGED <<imetas, incount, schedulable_count_by_tid>>,
         Issuable' = Issuable, SidesInv'
  PROVE  ProgramInv' /\ HeapInv'
<1>1. Waiting' = Waiting  BY DEF Waiting
<1>2. Pending' = Pending
  <2>1. Pending = Issuable \cup Waiting /\ Pending' = Issuable' \cup Waiting'  BY DEF Pending, Issuable
  <2> QED BY <1>1, <2>1
<1>3. ProgramInv'  BY DEF ProgramInv
<1>4. SumsInv' /\ SplitInv' /\ BegunInv'  BY <1>2 DEF HeapInv, SumsInv, SplitInv, BegunInv
<1>5. PieceInv'
  <2>1. \A y : PieceOK(y)' <=> PieceOK(y)  BY DEF PieceOK, ProductOf, Original, Addend
  <2> QED BY <1>2, <2>1 DEF HeapInv, PieceInv
<1>6. CountsInv'
  <2>1. \A i : Unlockers(i)' = Unlockers(i)  BY <1>2 DEF Unlockers
  <2>2. \A t : IssuableOf(t)' = IssuableOf(t)  BY DEF IssuableOf
  <2> QED BY <2>1, <2>2 DEF HeapInv, CountsInv
<1>7. OrderInv'
  <2>1. \A m, n : Conflict(m, n)' <=> Conflict(m, n)  BY DEF Conflict
  <2>2. Original' = Original  BY DEF Original
  <2> QED BY <1>2, <2>1, <2>2 DEF HeapInv, OrderInv
<1> QED BY <1>3, <1>4, <1>5, <1>6, <1>7 DEF HeapInv

LEMMA HaveMoreKeeps ==
  ASSUME TypesInv, ProgramInv, HeapInv, HaveMore
  PROVE  TypesInv' /\ ProgramInv' /\ HeapInv'
<1>1. /\ UNCHANGED <<imetas, incount, next_batch_tid, schedulable_count_by_tid, to_retire, scratch>>
      /\ to_retire = {} /\ pc' \in {"valu", "done"}
  BY DEF HaveMore, TypesInv
<1>2. \A x \in frontier : x.tid \in Int
  BY DEF HeapInv, PieceInv, PieceOK, InstrMeta, Pending
<1>3. next_batch_tid \in Int  BY Threads DEF TypesInv
<1>4. CASE free = {}
  <2>1. PICK fallen : fallen = FallDown(next_batch_tid, frontier)  OBVIOUS
  <2>2. free' = fallen /\ frontier' = frontier \ fallen  BY <1>4, <2>1 DEF HaveMore
  <2>3. \A x : x \in fallen <=> x \in frontier /\ x.tid < next_batch_tid  BY <2>1 DEF FallDown
  <2>4. fallen \in SUBSET frontier /\ frontier \ fallen \in SUBSET frontier  BY <2>3
  <2>5. Issuable' = Issuable  BY <1>4, <2>2, <2>4 DEF Issuable
  <2>6. SidesInv'
    <3>1. Waiting' = Waiting  BY <1>1 DEF Waiting
    <3> QED BY <1>1, <1>2, <1>3, <2>2, <2>3, <2>5, <3>1 DEF HeapInv, SidesInv
  <2>7. IsFiniteSet(free') /\ IsFiniteSet(frontier')  BY <2>2, <2>4, FS_Subset DEF TypesInv
  <2> QED BY <1>1, <2>5, <2>6, <2>7, SameHeap DEF TypesInv
<1>5. CASE free # {}
  <2>1. UNCHANGED <<free, frontier>>  BY <1>5 DEF HaveMore
  <2>2. Issuable' = Issuable /\ Waiting' = Waiting  BY <1>1, <2>1 DEF Issuable, Waiting
  <2>3. SidesInv'  BY <1>1, <2>1, <2>2 DEF HeapInv, SidesInv
  <2> QED BY <1>1, <2>1, <2>2, <2>3, SameHeap DEF TypesInv
<1> QED BY <1>4, <1>5

\* Issuing without splitting leaves the heap alone.
LEMMA PlainKeeps ==
  ASSUME TypesInv, ProgramInv, HeapInv, NEW engine \in {"valu", "alu", "load", "store", "flow"},
         NEW next \in {"alu", "load", "store", "flow", "execute"}, TakePlain(engine, next)
  PROVE  TypesInv' /\ ProgramInv' /\ HeapInv'
<1>1. PICK S \in Obtain(engine, free) : Issue(S, next)  BY DEF TakePlain
<1>2. /\ UNCHANGED <<imetas, incount, free, schedulable_count_by_tid, frontier, next_batch_tid, scratch>>
      /\ to_retire' = to_retire \cup S /\ pc' = next
  BY <1>1 DEF TakePlain, Issue, heap
<1>3. S \subseteq free  BY ObtainFacts
<1>4. Issuable' = Issuable /\ Waiting' = Waiting  BY <1>2 DEF Issuable, Waiting
<1>5. SidesInv'  BY <1>2, <1>4 DEF HeapInv, SidesInv
<1> QED BY <1>2, <1>3, <1>4, <1>5, SameHeap DEF TypesInv

LEMMA StepKeeps ==
  ASSUME TypesInv, ProgramInv, HeapInv, Step
  PROVE  TypesInv' /\ ProgramInv' /\ HeapInv'
<1>1. /\ UNCHANGED <<imetas, incount, free, schedulable_count_by_tid, frontier, next_batch_tid, to_retire>>
      /\ pc' = "retire" /\ DOMAIN scratch' = DOMAIN scratch
  BY DEF Step, heap, Execute
<1>2. Issuable' = Issuable /\ Waiting' = Waiting  BY <1>1 DEF Issuable, Waiting
<1>3. SidesInv'  BY <1>1, <1>2 DEF HeapInv, SidesInv
<1> QED BY <1>1, <1>2, <1>3, SameHeap DEF TypesInv

\* The actions that split, and then issue, are recuts of what is not in the bundle.
LEMMA SplittingRecuts ==
  ASSUME TypesInv, ProgramInv, HeapInv, TakeAluSplitting \/ TakeFlowConverting
  PROVE  \E c, S : /\ Recut(c) /\ c.wide \cup c.single \subseteq free \ to_retire
                   /\ S \subseteq free' /\ to_retire' = to_retire \cup S
                   /\ pc # "retire" /\ pc' \in {"load", "execute"} /\ UNCHANGED scratch
<1>1. CASE TakeAluSplitting
  <2>1. PICK split \in SplitChoices : SplitValu(split)  BY <1>1 DEF TakeAluSplitting
  <2>2. PICK S \in Obtain("alu", free') : Issue(S, "load")  BY <1>1 DEF TakeAluSplitting
  <2>3. split \subseteq Plain \cup Broadcasts \cup MulAdds  BY DEF SplitChoices
  <2>4. UNCHANGED <<frontier, next_batch_tid>> /\ pc = "alu"  BY <1>1, <2>2 DEF Issue, TakeAluSplitting
  <2>5. PICK c : Recut(c) /\ c.wide \cup c.single \subseteq free \ to_retire
    BY <2>1, <2>3, <2>4, SplitValuRecut
  <2>6. S \subseteq free'  BY ObtainFacts
  <2> QED BY <2>2, <2>4, <2>5, <2>6 DEF Issue
<1>2. CASE TakeFlowConverting
  <2>1. PICK split \in SUBSET ImmAdds : SplitAddIntoImm(split)  BY <1>2 DEF TakeFlowConverting
  <2>2. PICK S \in Obtain("flow", free') : Issue(S, "execute")  BY <1>2 DEF TakeFlowConverting
  <2>3. UNCHANGED <<frontier, next_batch_tid>> /\ pc = "flow"  BY <1>2, <2>2 DEF Issue, TakeFlowConverting
  <2>4. PICK c : Recut(c) /\ c.wide \cup c.single \subseteq free \ to_retire
    BY <2>1, <2>3, SplitAddIntoImmRecut
  <2>5. S \subseteq free'  BY ObtainFacts
  <2> QED BY <2>2, <2>3, <2>4, <2>5 DEF Issue
<1> QED BY <1>1, <1>2

LEMMA SplittingKeeps ==
  ASSUME TypesInv, ProgramInv, HeapInv, TakeAluSplitting \/ TakeFlowConverting
  PROVE  TypesInv' /\ ProgramInv' /\ HeapInv'
<1>1. PICK c, S : /\ Recut(c) /\ c.wide \cup c.single \subseteq free \ to_retire
                  /\ S \subseteq free' /\ to_retire' = to_retire \cup S
                  /\ pc' \in {"load", "execute"} /\ UNCHANGED scratch
  BY SplittingRecuts
<1> QED BY <1>1, RecutHeap, RecutTypes

LEMMA RetireKeeps ==
  ASSUME TypesInv, ProgramInv, HeapInv, Retire
  PROVE  TypesInv' /\ ProgramInv' /\ HeapInv'
<1>1. PICK x \in to_retire : RetireOne(x)  BY DEF Retire
<1>2. pc = "retire" /\ pc' = IF Cardinality(to_retire) = 1 THEN "have_more" ELSE "retire"  BY DEF Retire
<1>3. Retired(x) /\ SidesInv'  BY <1>1, RetireFacts
<1> QED BY <1>1, <1>2, <1>3, RetiredHeap, RetiredTypes

\* At first everything is pending, and whole.
LEMMA InitKeeps ==
  ASSUME Init
  PROVE  TypesInv /\ ProgramInv /\ HeapInv
<1> DEFINE all == ToSet(imetas)
           ready == {imetas[n] : n \in {m \in DOMAIN imetas : incount[m] = 0}}
<1>1. FromGraph(imetas) /\ imetas \in Works  BY WorksAreGraphs DEF Init
<1>2. imetas \in Seq(InstrMeta)  BY <1>1 DEF FromGraph
<1>3. Len(imetas) \in Nat /\ DOMAIN imetas = 1 .. Len(imetas)  BY <1>2
<1>4. /\ incount = [n \in DOMAIN imetas |-> Cardinality({x \in all : n \in x.after})]
      /\ next_batch_tid = Conc
      /\ free = {x \in ready : x.tid < next_batch_tid} /\ frontier = ready \ free
      /\ schedulable_count_by_tid = [t \in -1 .. NumThreads - 1 |-> SchedulableCount(t, ready)]
      /\ pc = "have_more" /\ to_retire = {} /\ DOMAIN scratch = 0 .. ScratchSize - 1
  BY DEF Init
<1>5. \A n \in DOMAIN imetas : imetas[n].inst = n /\ imetas[n].part = "whole" /\ imetas[n] \in InstrMeta
  BY <1>1, <1>2 DEF FromGraph
<1>6. IsFiniteSet(all)
  <2>1. all = {imetas[n] : n \in DOMAIN imetas}  BY DEF ToSet
  <2>2. imetas \in Surjection(DOMAIN imetas, all)  BY <1>2, <1>3, <2>1 DEF Surjection
  <2>3. IsFiniteSet(DOMAIN imetas)  BY <1>3, FS_Interval
  <2> QED BY <2>2, <2>3, FS_Surjection
<1>7. \A x : x \in all <=> \E n \in DOMAIN imetas : x = imetas[n]  BY DEF ToSet
<1>8. \A x : x \in ready <=> \E n \in DOMAIN imetas : x = imetas[n] /\ incount[n] = 0  OBVIOUS
<1> HIDE DEF all, ready
<1>9. ready \in SUBSET all  BY <1>7, <1>8
<1>10. free \in SUBSET all /\ frontier \in SUBSET all /\ IsFiniteSet(free) /\ IsFiniteSet(frontier)
  <2>1. free \in SUBSET all /\ frontier \in SUBSET all  BY <1>4, <1>9
  <2> QED BY <1>6, <2>1, FS_Subset
<1>11. \A P \in SUBSET all : Cardinality(P) \in Nat  BY <1>6, FS_Subset, FS_CardinalityType
<1>12. \A n \in DOMAIN imetas : incount[n] \in Nat  BY <1>4, <1>11
<1>13. incount \in [DOMAIN imetas -> Nat]  BY <1>4, <1>12
<1>14. \A t \in -1 .. NumThreads - 1 :
         schedulable_count_by_tid[t] = Cardinality({x \in ready : x.tid = t})
           /\ schedulable_count_by_tid[t] \in Nat
  BY <1>4, <1>9, <1>11 DEF SchedulableCount
<1>15. TypesInv
  <2>1. schedulable_count_by_tid \in [-1 .. NumThreads - 1 -> Nat]  BY <1>4, <1>14
  <2>2. Conc \in Conc .. NumThreads  BY Threads
  <2> QED BY <1>2, <1>4, <1>10, <1>13, <2>1, <2>2 DEF TypesInv
<1>16. ProgramInv
  <2>1. imetas \in Works /\ Len(imetas) <= Len(imetas) /\ Len(imetas) + 1 .. Len(imetas) = {}
    BY <1>1, <1>3
  <2> QED BY <2>1 DEF ProgramInv
<1>17. Issuable = ready  BY <1>4 DEF Issuable
<1>18. \A x : x \in Waiting <=> \E n \in DOMAIN imetas : x = imetas[n] /\ incount[n] > 0  BY DEF Waiting
<1>19. Pending = all
  <2>1. \A x : x \in Pending <=> x \in ready \/ x \in Waiting  BY <1>17 DEF Pending, Issuable
  <2> QED BY <1>7, <1>8, <1>12, <1>18, <2>1
<1>20. Original = DOMAIN imetas  BY <1>5 DEF Original
<1>21. \A x \in all : x.inst \in DOMAIN imetas /\ x = imetas[x.inst] /\ x.part = "whole" /\ x \in InstrMeta
  BY <1>5, <1>7
<1>22. SumsInv  BY <1>5 DEF SumsInv
<1>23. PieceInv
  <2> SUFFICES ASSUME NEW x \in all PROVE PieceOK(x)  BY <1>19 DEF PieceInv
  <2>1. /\ x \in InstrMeta /\ x.inst \in Original /\ x = imetas[x.inst] /\ x.part = "whole"
        /\ imetas[x.inst].lin.engine = "alu" => Ternary(imetas[x.inst].lin)
    BY <1>20, <1>21, <1>15, <1>16, GraphFacts
  <2>2. ReadsOf(x) \subseteq Touched(x)  BY WritesMarked
  <2> QED BY <2>1, <2>2 DEF PieceOK
<1>24. SplitInv  BY <1>19, <1>21 DEF SplitInv
<1>25. SidesInv
  <2>1. \A x \in free : x.tid < next_batch_tid  BY <1>4
  <2>2. \A x \in all : x.tid \in Int  BY <1>21 DEF InstrMeta
  <2>3. \A x \in frontier : x.tid >= next_batch_tid  BY <1>4, <1>9, <2>2, Threads
  <2>4. Issuable \cap Waiting = {}  BY <1>5, <1>8, <1>17, <1>18
  <2> QED BY <2>1, <2>3, <2>4 DEF SidesInv
<1>26. CountsInv
  <2>1. \A i : Unlockers(i) = {x \in all : i \in x.after}  BY <1>19 DEF Unlockers
  <2>2. \A t : IssuableOf(t) = {x \in ready : x.tid = t}  BY <1>17 DEF IssuableOf
  <2> QED BY <1>4, <1>14, <2>1, <2>2 DEF CountsInv
<1>27. BegunInv
  <2> SUFFICES ASSUME NEW x \in all, x \in ready PROVE incount[x.inst] = 0
    BY <1>17, <1>19, <1>21 DEF BegunInv
  <2> QED BY <1>5, <1>8
<1>28. OrderInv
  <2> SUFFICES ASSUME NEW m \in Original, NEW n \in Original, m < n, incount[n] = 0, Conflict(m, n)
               PROVE  FALSE
    BY DEF OrderInv
  <2>1. PICK k \in Original : n \in imetas[k].after  BY <1>15, <1>16, LastPredecessor
  <2>2. PICK U : U = {x \in all : n \in x.after}  OBVIOUS
  <2>3. imetas[k] \in U  BY <1>7, <1>20, <2>1, <2>2
  <2>4. U \in SUBSET all  BY <2>2
  <2>5. IsFiniteSet(U) /\ Cardinality(U) # 0  BY <1>6, <2>3, <2>4, FS_Subset, FS_EmptySet
  <2> QED BY <1>4, <1>20, <2>2, <2>5
<1> QED BY <1>15, <1>16, <1>22, <1>23, <1>24, <1>25, <1>26, <1>27, <1>28 DEF HeapInv

LEMMA NextKeeps ==
  ASSUME TypesInv, ProgramInv, HeapInv, [Next]_vars
  PROVE  TypesInv' /\ ProgramInv' /\ HeapInv'
<1>1. CASE TakeValu \/ TakeAlu \/ TakeLoad \/ TakeStore \/ TakeFlow
  <2>1. \E engine \in {"valu", "alu", "load", "store", "flow"},
           next \in {"alu", "load", "store", "flow", "execute"} : TakePlain(engine, next)
    BY <1>1 DEF TakeValu, TakeAlu, TakeLoad, TakeStore, TakeFlow
  <2> QED BY <2>1, PlainKeeps
<1>2. CASE UNCHANGED vars
  <2>1. UNCHANGED <<imetas, incount, free, frontier, next_batch_tid, schedulable_count_by_tid,
                    pc, to_retire, scratch>>
    BY <1>2 DEF vars
  <2>2. Issuable' = Issuable /\ Waiting' = Waiting  BY <2>1 DEF Issuable, Waiting
  <2>3. SidesInv'  BY <2>1, <2>2 DEF HeapInv, SidesInv
  <2> QED BY <2>1, <2>2, <2>3, SameHeap DEF TypesInv
<1> QED BY <1>1, <1>2, HaveMoreKeeps, SplittingKeeps, StepKeeps, RetireKeeps DEF Next

\* What can be issued writes words of its own.
LEMMA IssuableApart ==
  ASSUME TypesInv, ProgramInv, HeapInv, NEW x \in Issuable, NEW y \in Issuable, x # y
  PROVE  WritesOf(x) \cap WritesOf(y) = {}
<1>1. x \in Pending /\ y \in Pending /\ x \notin Waiting /\ y \notin Waiting
  BY DEF Issuable, Pending, HeapInv, SidesInv
<1>2. \A z \in Pending :
        /\ z.inst \in Original /\ WritesOf(z) \subseteq WritesOf(imetas[z.inst])
        /\ z.part # "whole" => WritesOf(z) = {Dest(z)}
        /\ z.part \in {"whole", "lane", "product", "sum"}
  BY DEF HeapInv, PieceInv, PieceOK, InstrMeta
<1>3. \A u, v \in Pending : u # v /\ u.inst = v.inst =>
        u.part # "whole" /\ (u.part = "lane" => v.part = "lane") /\ (u.part = v.part => Dest(u) # Dest(v))
  BY DEF HeapInv, SplitInv
<1>4. ASSUME NEW u \in Pending, NEW v \in Pending, v \notin Waiting, u.inst = v.inst,
             u.part = "product", v.part = "sum"
      PROVE  Dest(u) # Dest(v)
  <2>1. PICK s \in Waiting : s.part = "sum" /\ s.inst = u.inst /\ Dest(s) = Dest(u)  BY <1>4, SumWaits
  <2>2. s \in Pending /\ s # v  BY <1>4, <2>1 DEF Pending
  <2> QED BY <1>3, <1>4, <2>1, <2>2
<1>5. CASE x.inst = y.inst
  <2>1. x.part # "whole" /\ y.part # "whole"  BY <1>1, <1>3, <1>5
  <2>2. WritesOf(x) = {Dest(x)} /\ WritesOf(y) = {Dest(y)}  BY <1>1, <1>2, <2>1
  <2>3. Dest(x) # Dest(y)
    <3>1. x.part = y.part \/ {x.part, y.part} = {"product", "sum"}  BY <1>1, <1>2, <1>3, <1>5, <2>1
    <3>2. CASE x.part = y.part  BY <1>1, <1>3, <1>5, <3>2
    <3>3. CASE x.part = "product" /\ y.part = "sum"  BY <1>1, <1>4, <1>5, <3>3
    <3>4. CASE y.part = "product" /\ x.part = "sum"  BY <1>1, <1>4, <1>5, <3>4
    <3> QED BY <3>1, <3>2, <3>3, <3>4
  <2> QED BY <2>2, <2>3
<1>6. ASSUME NEW u \in Issuable, NEW v \in Issuable, u.inst < v.inst
      PROVE  WritesOf(u) \cap WritesOf(v) = {}
  <2> SUFFICES ASSUME NEW loc \in WritesOf(u) \cap WritesOf(v) PROVE FALSE  OBVIOUS
  <2>1. u \in Pending /\ v \in Pending  BY DEF Issuable, Pending
  <2>2. \A z \in {u, v} : loc \in Marked(imetas[z.inst]) /\ loc \in Touched(imetas[z.inst])
    BY <1>2, <2>1, WritesMarked
  <2>3. Conflict(u.inst, v.inst)  BY <2>2 DEF Conflict
  <2>4. incount[v.inst] = 0  BY <2>1 DEF HeapInv, BegunInv
  <2> QED BY <1>2, <1>6, <2>1, <2>3, <2>4 DEF HeapInv, OrderInv
<1>7. x.inst \in Nat /\ y.inst \in Nat  BY <1>1 DEF HeapInv, PieceInv, PieceOK, InstrMeta
<1> QED BY <1>5, <1>6, <1>7

-----------------------------------------------------------------------------
(* What the scratch holds *)

\* The greatest member of a set.
LEMMA MaxIs ==
  ASSUME NEW S, NEW m \in S, S \subseteq Int, \A k \in S : k <= m
  PROVE  Max(S) = m
<1>1. m \in S /\ \A y \in S : m >= y  OBVIOUS
<1>2. \A x \in S : (\A y \in S : x >= y) => x = m  OBVIOUS
<1> QED BY <1>1, <1>2, Zenon DEF Max

\* An instruction comes before an earlier one that it conflicts with only when that one has gone.
LEMMA BegunOrder ==
  ASSUME TypesInv, ProgramInv, HeapInv, NEW x \in Pending, NEW m \in Original,
         x \in Issuable \/ x.part # "whole", NEW loc,
         loc \in Touched(imetas[m]), loc \in Touched(imetas[x.inst]),
         loc \in Marked(imetas[m]) \/ loc \in Marked(imetas[x.inst])
  PROVE  /\ m < x.inst => \A y \in Pending : y.inst # m
         /\ m > x.inst => imetas[m] \in Waiting /\ incount[m] # 0
         /\ x.inst \in Original /\ x.inst \in Nat /\ m \in Nat
<1>1. x.inst \in Original /\ incount[x.inst] = 0  BY DEF HeapInv, PieceInv, PieceOK, BegunInv
<1>2. Conflict(m, x.inst) /\ Conflict(x.inst, m)  BY DEF Conflict
<1>3. m \in DOMAIN imetas /\ x.inst \in Nat /\ m \in Nat  BY <1>1, ImetasFacts
<1>4. ASSUME m > x.inst PROVE imetas[m] \in Waiting /\ incount[m] # 0
  <2>1. incount[m] # 0
    <3>1. incount[m] = 0 => \A y \in Pending : y.inst # x.inst
      BY <1>1, <1>2, <1>3, <1>4 DEF HeapInv, OrderInv
    <3> QED BY <3>1
  <2>2. incount[m] > 0  BY <1>3, <2>1 DEF TypesInv
  <2> QED BY <1>3, <2>1, <2>2, WaitingFacts DEF HeapInv
<1>5. m < x.inst => \A y \in Pending : y.inst # m  BY <1>1, <1>2 DEF HeapInv, OrderInv
<1> QED BY <1>1, <1>3, <1>4, <1>5

\* An issuable piece that is not a product is the last of its instruction for the words it writes.
LEMMA LastPiece ==
  ASSUME TypesInv, ProgramInv, HeapInv, NEW x \in Issuable, x.part # "product",
         NEW u \in Pending, u # x, u.inst = x.inst
  PROVE  WritesOf(u) \cap WritesOf(x) = {}
<1>1. x \in Pending /\ x \notin Waiting  BY DEF Issuable, Pending, HeapInv, SidesInv
<1>2. \A z \in Pending :
        /\ z.part # "whole" => WritesOf(z) = {Dest(z)}
        /\ z.part \in {"whole", "lane", "product", "sum"}
  BY DEF HeapInv, PieceInv, PieceOK, InstrMeta
<1>3. \A y, z \in Pending : y # z /\ y.inst = z.inst =>
        y.part # "whole" /\ (y.part = "lane" => z.part = "lane") /\ (y.part = z.part => Dest(y) # Dest(z))
  BY DEF HeapInv, SplitInv
<1>4. x.part # "whole" /\ u.part # "whole"  BY <1>1, <1>3
<1>5. Dest(u) # Dest(x)
  <2>1. CASE u.part = x.part  BY <1>1, <1>3, <2>1
  <2>2. CASE u.part # x.part
    <3>1. u.part = "product" /\ x.part = "sum"  BY <1>1, <1>2, <1>3, <1>4, <2>2
    <3>2. PICK s \in Waiting : s.part = "sum" /\ s.inst = u.inst /\ Dest(s) = Dest(u)  BY <3>1, SumWaits
    <3>3. s \in Pending /\ s # x  BY <1>1 DEF Pending
    <3> QED BY <1>1, <1>3, <3>1, <3>2, <3>3
  <2> QED BY <2>1, <2>2
<1> QED BY <1>1, <1>2, <1>4, <1>5

\* What an action does that executes nothing.
LEMMA SameScratch ==
  ASSUME ScratchInv, UNCHANGED scratch, Original' = Original,
         \A n \in Original : imetas'[n] = imetas[n],
         \A m \in Original, loc \in DOMAIN scratch :
            (Owes(m, loc)' <=> Owes(m, loc)) /\ (HalfDone(m, loc)' <=> HalfDone(m, loc))
  PROVE  ScratchInv'
<1> SUFFICES ASSUME NEW loc \in DOMAIN scratch
             PROVE  /\ \A m \in Original : HalfDone(m, loc)' => scratch[loc] = [by |-> m, partial |-> TRUE]
                    /\ (\A m \in Original : ~HalfDone(m, loc)') => scratch[loc] = Done(LastWriter(loc)')
  BY DEF ScratchInv
<1>1. {m \in Original : loc \in WritesOf(imetas[m]) /\ ~Owes(m, loc)}
        = {m \in Original' : loc \in WritesOf(imetas'[m]) /\ ~Owes(m, loc)'}
  OBVIOUS
<1>2. LastWriter(loc)' = LastWriter(loc)  BY <1>1 DEF LastWriter
<1> QED BY <1>2 DEF ScratchInv

LEMMA SameUnexecuted ==
  ASSUME ScratchInv, UNCHANGED <<imetas, scratch>>, Unexecuted' = Unexecuted
  PROVE  ScratchInv'
<1>1. Original' = Original  BY DEF Original
<1>2. \A m, loc : Owes(m, loc)' <=> Owes(m, loc)  BY DEF Owes
<1>3. \A m, loc : HalfDone(m, loc)' <=> HalfDone(m, loc)  BY <1>2 DEF HalfDone
<1> QED BY <1>1, <1>2, <1>3, SameScratch

LEMMA RecutScratch ==
  ASSUME TypesInv, ProgramInv, HeapInv, ScratchInv, NEW c, Recut(c), UNCHANGED scratch,
         pc # "retire", pc' # "retire"
  PROVE  ScratchInv'
<1>1. Unexecuted = Pending /\ Unexecuted' = Pending'  BY DEF Unexecuted
<1>2. /\ \A y : y \in Pending' <=> \E x \in Pending : Descends(c, y, x)
      /\ Original' = Original
  BY RecutSets
<1>3. \A n \in Original : imetas'[n] = imetas[n]
  <2>1. \A n \in DOMAIN imetas : imetas'[n] = imetas[n]  BY DEF Recut
  <2> QED BY <2>1, ImetasFacts
<1>4. c.wide \subseteq free /\ c.single \subseteq free /\ c.wide \cap c.single = {}  BY DEF Recut
\* Every word that x writes is written by a descendant, of the same part unless x is cut ...
<1>5. ASSUME NEW x \in Pending, NEW loc \in WritesOf(x)
      PROVE  \E y \in Pending' : /\ y.inst = x.inst /\ loc \in WritesOf(y)
                                 /\ x \notin c.wide => y.part = x.part
  <2>1. CASE x \in c.wide
    <3>1. Dest(x) \in Nat /\ WritesOf(x) = Dest(x) .. Dest(x) + VLEN - 1  BY <2>1, WideFacts
    <3>2. PICK i \in LaneNumbers : loc = Dest(x) + i
      <4>1. loc - Dest(x) \in LaneNumbers /\ loc = Dest(x) + (loc - Dest(x))
        BY <3>1, VectorLength DEF LaneNumbers
      <4> QED BY <4>1
    <3>3. PICK y : y = c.back[<<x, i>>]  OBVIOUS
    <3>4. IsPiece(y, x, i)  BY <2>1, <3>3 DEF Recut
    <3>5. Descends(c, y, x)  BY <2>1, <3>3 DEF Descends
    <3>6. y.inst = x.inst /\ loc \in WritesOf(y)  BY <3>2, <3>4 DEF IsPiece
    <3> QED BY <1>2, <2>1, <3>5, <3>6
  <2>2. CASE x \notin c.wide
    <3>1. PICK y : y = IF x \in c.single THEN c.narrow[x] ELSE x  OBVIOUS
    <3>2. Descends(c, y, x)  BY <2>2, <3>1 DEF Descends
    <3>3. y.inst = x.inst /\ y.part = x.part /\ WritesOf(y) = WritesOf(x)  BY <2>2, <3>2, DescendsFacts
    <3> QED BY <1>2, <3>2, <3>3
  <2> QED BY <2>1, <2>2
\* ... and a descendant writes nothing else.
<1>6. ASSUME NEW y \in Pending', NEW loc \in WritesOf(y)
      PROVE  \E x \in Pending : /\ y.inst = x.inst /\ loc \in WritesOf(x)
                                /\ x \notin c.wide => y.part = x.part
  <2>1. PICK x \in Pending : Descends(c, y, x)  BY <1>2
  <2>2. CASE x \in c.wide
    <3>1. PICK i \in LaneNumbers : IsPiece(y, x, i)  BY <2>1, <2>2, DescendsFacts
    <3>2. Dest(x) \in Nat /\ WritesOf(x) = Dest(x) .. Dest(x) + VLEN - 1  BY <2>2, WideFacts
    <3>3. loc = Dest(x) + i /\ y.inst = x.inst  BY <3>1 DEF IsPiece
    <3>4. Dest(x) + i \in Dest(x) .. Dest(x) + VLEN - 1  BY <3>2, VectorLength DEF LaneNumbers
    <3> QED BY <2>2, <3>2, <3>3, <3>4
  <2>3. CASE x \notin c.wide
    <3>1. y.inst = x.inst /\ y.part = x.part /\ WritesOf(y) = WritesOf(x)  BY <2>1, <2>3, DescendsFacts
    <3> QED BY <3>1
  <2> QED BY <2>2, <2>3
<1>7. ASSUME NEW m \in Original, NEW loc \in DOMAIN scratch
      PROVE  Owes(m, loc)' <=> Owes(m, loc)
  BY <1>1, <1>5, <1>6 DEF Owes
<1>8. ASSUME NEW m \in Original, NEW loc \in DOMAIN scratch
      PROVE  HalfDone(m, loc)' <=> HalfDone(m, loc)
  <2>1. CASE \E x \in c.wide : x.inst = m /\ loc \in WritesOf(x)
    <3>1. PICK x \in c.wide : x.inst = m /\ loc \in WritesOf(x)  BY <2>1
    <3>2. x \in Pending /\ x.part = "whole"  BY <3>1, WideFacts
    <3>3. ~HalfDone(m, loc)  BY <1>1, <3>1, <3>2 DEF HalfDone
    <3>4. Dest(x) \in Nat /\ WritesOf(x) = Dest(x) .. Dest(x) + VLEN - 1  BY <3>1, WideFacts
    <3>5. PICK i \in LaneNumbers : loc = Dest(x) + i
      <4>1. loc - Dest(x) \in LaneNumbers /\ loc = Dest(x) + (loc - Dest(x))
        BY <3>1, <3>4, VectorLength DEF LaneNumbers
      <4> QED BY <4>1
    <3>6. PICK y : y = c.front[<<x, i>>]  OBVIOUS
    <3>7. IsPiece(y, x, i) /\ y.part # "sum"
      <4>1. /\ IsPiece(c.front[<<x, i>>], x, i)
            /\ x \notin c.fused => c.front[<<x, i>>] = c.back[<<x, i>>] /\ c.back[<<x, i>>].part = "lane"
            /\ x \in c.fused => c.front[<<x, i>>].part = "product"
        BY <3>1 DEF Recut
      <4> QED BY <3>6, <4>1
    <3>8. y \in Pending'
      <4>1. Descends(c, y, x)  BY <3>1, <3>6 DEF Descends
      <4> QED BY <1>2, <3>2, <4>1
    <3>9. y.inst = m /\ loc \in WritesOf(y)  BY <3>1, <3>5, <3>7 DEF IsPiece
    <3>10. ~HalfDone(m, loc)'  BY <1>1, <3>7, <3>8, <3>9 DEF HalfDone
    <3> QED BY <3>3, <3>10
  <2>2. CASE ~\E x \in c.wide : x.inst = m /\ loc \in WritesOf(x)
    <3>1. Owes(m, loc)' <=> Owes(m, loc)  BY <1>7
    <3>2. ASSUME HalfDone(m, loc) PROVE HalfDone(m, loc)'
      <4> SUFFICES ASSUME NEW y \in Pending', y.inst = m, loc \in WritesOf(y) PROVE y.part = "sum"
        BY <1>1, <3>1, <3>2 DEF HalfDone
      <4>1. PICK x \in Pending : /\ y.inst = x.inst /\ loc \in WritesOf(x)
                                 /\ x \notin c.wide => y.part = x.part
        BY <1>6
      <4> QED BY <1>1, <2>2, <3>2, <4>1 DEF HalfDone
    <3>3. ASSUME HalfDone(m, loc)' PROVE HalfDone(m, loc)
      <4> SUFFICES ASSUME NEW x \in Pending, x.inst = m, loc \in WritesOf(x) PROVE x.part = "sum"
        BY <1>1, <3>1, <3>3 DEF HalfDone
      <4>1. PICK y \in Pending' : /\ y.inst = x.inst /\ loc \in WritesOf(y)
                                  /\ x \notin c.wide => y.part = x.part
        BY <1>5
      <4> QED BY <1>1, <2>2, <3>3, <4>1 DEF HalfDone
    <3> QED BY <3>2, <3>3
  <2> QED BY <2>1, <2>2
<1> QED BY <1>2, <1>3, <1>7, <1>8, SameScratch

\* The bundle leaves in a word what its one writer of that word leaves there.
LEMMA ExecuteFacts ==
  ASSUME TypesInv, ProgramInv, HeapInv, Execute(to_retire), NEW loc \in DOMAIN scratch
  PROVE  /\ (\A x \in to_retire : loc \notin WritesOf(x)) => scratch'[loc] = scratch[loc]
         /\ \A x \in to_retire : loc \in WritesOf(x) => scratch'[loc] = Token(x)
<1> DEFINE W == {x \in to_retire : loc \in WritesOf(x)}
<1>1. scratch'[loc] = IF W = {} THEN scratch[loc] ELSE Token(CHOOSE x \in W : TRUE)  BY DEF Execute
<1>2. ASSUME NEW x \in to_retire, loc \in WritesOf(x) PROVE scratch'[loc] = Token(x)
  <2>1. x \in W  BY <1>2
  <2>2. \A y \in W : y = x
    <3> SUFFICES ASSUME NEW y \in W, y # x PROVE FALSE  OBVIOUS
    <3>1. x \in Issuable /\ y \in Issuable  BY DEF TypesInv, Issuable
    <3> QED BY <1>2, <3>1, IssuableApart
  <2> HIDE DEF W
  <2>3. W # {} /\ (CHOOSE z \in W : TRUE) = x
    <3>1. (CHOOSE z \in W : TRUE) \in W  BY <2>1
    <3> QED BY <2>1, <2>2, <3>1
  <2> QED BY <1>1, <2>3
<1>3. ASSUME \A x \in to_retire : loc \notin WritesOf(x) PROVE scratch'[loc] = scratch[loc]
  <2>1. W = {}  BY <1>3
  <2> HIDE DEF W
  <2> QED BY <1>1, <2>1
<1> QED BY <1>2, <1>3

LEMMA StepScratch ==
  ASSUME TypesInv, ProgramInv, HeapInv, ScratchInv, Step
  PROVE  ScratchInv'
<1>1. /\ UNCHANGED <<imetas, incount, free, frontier, to_retire>> /\ Execute(to_retire)
      /\ DOMAIN scratch' = DOMAIN scratch /\ pc = "execute" /\ pc' = "retire"
  BY DEF Step, heap, Execute
<1>2. Waiting' = Waiting /\ Original' = Original /\ Pending' = Pending
  BY <1>1 DEF Waiting, Original, Pending
<1>3. Unexecuted = Pending /\ Unexecuted' = Pending \ to_retire  BY <1>1, <1>2 DEF Unexecuted
<1>4. \A x \in to_retire : x \in Issuable /\ x \in Pending /\ x \notin Waiting
  BY DEF TypesInv, Issuable, Pending, HeapInv, SidesInv
<1>5. \A z \in Pending :
        /\ z.inst \in Original /\ WritesOf(z) \subseteq WritesOf(imetas[z.inst])
        /\ z.part # "whole" => WritesOf(z) = {Dest(z)}
        /\ z.part \in {"whole", "lane", "product", "sum"}
  BY DEF HeapInv, PieceInv, PieceOK, InstrMeta
<1>6. \A z, loc : loc \in WritesOf(z) => loc \in Marked(z) /\ loc \in Touched(z)  BY WritesMarked
<1> SUFFICES ASSUME NEW loc \in DOMAIN scratch
             PROVE  /\ \A m \in Original : HalfDone(m, loc)' => scratch'[loc] = [by |-> m, partial |-> TRUE]
                    /\ (\A m \in Original : ~HalfDone(m, loc)') => scratch'[loc] = Done(LastWriter(loc)')
  BY <1>1, <1>2 DEF ScratchInv
<1> DEFINE finished == {m \in Original : loc \in WritesOf(imetas[m]) /\ ~Owes(m, loc)'}
<1>7. LastWriter(loc)' = Max({0} \cup finished)  BY <1>1, <1>2 DEF LastWriter
<1>8. CASE \A x \in to_retire : loc \notin WritesOf(x)
  <2>1. scratch'[loc] = scratch[loc]  BY <1>1, <1>8, ExecuteFacts
  <2>2. \A m : Owes(m, loc)' <=> Owes(m, loc)  BY <1>3, <1>8 DEF Owes
  <2>3. \A m : HalfDone(m, loc)' <=> HalfDone(m, loc)  BY <1>3, <1>8, <2>2 DEF HalfDone
  <2>4. finished = {m \in Original : loc \in WritesOf(imetas[m]) /\ ~Owes(m, loc)}  BY <2>2
  <2>5. LastWriter(loc)' = LastWriter(loc)  BY <1>7, <2>4 DEF LastWriter
  <2> QED BY <2>1, <2>3, <2>5 DEF ScratchInv
<1>9. ASSUME NEW x \in to_retire, loc \in WritesOf(x)
      PROVE  /\ \A m \in Original : HalfDone(m, loc)' => scratch'[loc] = [by |-> m, partial |-> TRUE]
             /\ (\A m \in Original : ~HalfDone(m, loc)') => scratch'[loc] = Done(LastWriter(loc)')
  <2>1. scratch'[loc] = Token(x)  BY <1>1, <1>9, ExecuteFacts
  <2>2. /\ x.inst \in Original /\ x.inst \in Nat
        /\ loc \in WritesOf(imetas[x.inst]) /\ loc \in Touched(imetas[x.inst])
        /\ loc \in Marked(imetas[x.inst])
    BY <1>4, <1>5, <1>6, <1>9, ImetasFacts
  <2>3. ASSUME NEW m \in Original, HalfDone(m, loc)' PROVE m = x.inst
    <3>1. PICK s \in Pending : s.inst = m /\ loc \in WritesOf(s) /\ s.part = "sum"
      BY <1>3, <2>3 DEF HalfDone, Owes
    <3>2. loc \in Touched(imetas[m]) /\ loc \in Marked(imetas[m])  BY <1>5, <1>6, <3>1
    <3>3. ~(m < x.inst)  BY <1>4, <2>2, <3>1, <3>2, BegunOrder
    <3>4. ~(x.inst < m)  BY <1>4, <2>2, <3>1, <3>2, BegunOrder
    <3> QED BY <2>2, <2>3, <3>3, <3>4, ImetasFacts
  <2>4. CASE x.part = "product"
    <3>1. PICK s \in Waiting : s.part = "sum" /\ s.inst = x.inst /\ Dest(s) = Dest(x)
      BY <1>4, <2>4, SumWaits
    <3>2. s \in Pending \ to_retire  BY <1>4, <3>1 DEF Pending
    <3>3. WritesOf(x) = {Dest(x)} /\ WritesOf(s) = {Dest(s)}  BY <1>4, <1>5, <2>4, <3>1, <3>2
    <3>4. Owes(x.inst, loc)'  BY <1>3, <1>9, <3>1, <3>2, <3>3 DEF Owes
    <3>5. ASSUME NEW u \in Pending \ to_retire, u.inst = x.inst, loc \in WritesOf(u) PROVE u.part = "sum"
      <4>1. u # x /\ u \in Pending /\ x \in Pending  BY <1>4
      <4>2. u.part # "whole" /\ u.part # "lane" /\ (u.part = "product" => Dest(u) # Dest(x))
        BY <2>4, <3>5, <4>1 DEF HeapInv, SplitInv
      <4>3. WritesOf(u) = {Dest(u)}  BY <1>5, <4>1, <4>2
      <4> QED BY <1>5, <1>9, <3>3, <3>5, <4>1, <4>2, <4>3
    <3>6. HalfDone(x.inst, loc)'  BY <1>3, <3>4, <3>5 DEF HalfDone
    <3>7. Token(x) = [by |-> x.inst, partial |-> TRUE]  BY <2>4 DEF Token
    <3> QED BY <2>1, <2>2, <2>3, <3>6, <3>7
  <2>5. CASE x.part # "product"
    <3>1. ~Owes(x.inst, loc)'
      <4> SUFFICES ASSUME NEW u \in Pending \ to_retire, u.inst = x.inst, loc \in WritesOf(u) PROVE FALSE
        BY <1>3 DEF Owes
      <4>1. u # x  OBVIOUS
      <4> QED BY <1>4, <1>9, <2>5, <4>1, LastPiece
    <3>2. \A m \in Original : ~HalfDone(m, loc)'  BY <2>3, <3>1 DEF HalfDone
    <3>3. x.inst \in {0} \cup finished  BY <2>2, <3>1
    <3>4. {0} \cup finished \subseteq Int  BY ImetasFacts
    <3>5. ASSUME NEW m \in finished PROVE m <= x.inst
      <4>1. m \in Original /\ loc \in WritesOf(imetas[m]) /\ ~Owes(m, loc)'  OBVIOUS
      <4>2. loc \in Touched(imetas[m]) /\ loc \in Marked(imetas[m])  BY <1>6, <4>1
      <4>3. imetas[m] \in Waiting => imetas[m] \in Pending \ to_retire /\ imetas[m].inst = m
        BY <1>4, <4>1, ImetasFacts DEF Pending
      <4>4. imetas[m] \notin Waiting  BY <1>3, <4>1, <4>3 DEF Owes
      <4>5. ~(m > x.inst)  BY <1>4, <2>2, <4>1, <4>2, <4>4, BegunOrder
      <4>6. m \in Nat  BY <4>1, ImetasFacts
      <4> QED BY <2>2, <4>5, <4>6
    <3> HIDE DEF finished
    <3>6. \A m \in {0} \cup finished : m <= x.inst  BY <2>2, <3>5
    <3>7. PICK S : S = {0} \cup finished  OBVIOUS
    <3>8. Max(S) = x.inst  BY <3>3, <3>4, <3>6, <3>7, MaxIs
    <3>9. Token(x) = Done(x.inst)  BY <2>5 DEF Token, Done
    <3> QED BY <1>7, <2>1, <3>2, <3>7, <3>8, <3>9
  <2> QED BY <2>4, <2>5
<1> QED BY <1>8, <1>9

LEMMA RetireScratch ==
  ASSUME TypesInv, ProgramInv, HeapInv, ScratchInv, Retire
  PROVE  ScratchInv'
<1>1. PICK x \in to_retire : RetireOne(x)  BY DEF Retire
<1>2. pc = "retire" /\ pc' = IF Cardinality(to_retire) = 1 THEN "have_more" ELSE "retire"  BY DEF Retire
<1>3. Retired(x)  BY <1>1, RetireFacts
<1>4. UNCHANGED <<imetas, scratch>> /\ to_retire' = to_retire \ {x} /\ Pending' = Pending \ {x}
  BY <1>1, <1>3 DEF RetireOne, Retired
<1>5. TypesInv'  BY RetireKeeps
<1>6. pc' = "have_more" => to_retire' = {}  BY <1>5 DEF TypesInv
<1>7. Unexecuted' = Pending' \ to_retire'  BY <1>2, <1>6 DEF Unexecuted
<1>8. Unexecuted = Pending \ to_retire  BY <1>2 DEF Unexecuted
<1>9. Unexecuted' = Unexecuted  BY <1>1, <1>4, <1>7, <1>8
<1> QED BY <1>4, <1>9, SameUnexecuted

LEMMA InitScratch ==
  ASSUME Init, TypesInv, ProgramInv, HeapInv
  PROVE  ScratchInv
<1>1. scratch = [loc \in 0 .. ScratchSize - 1 |-> Done(0)] /\ pc = "have_more"  BY DEF Init
<1>2. imetas \in Works /\ incount = [n \in DOMAIN imetas |-> Cardinality({x \in ToSet(imetas) : n \in x.after})]
  BY DEF Init
<1>3. \A n \in Original : imetas[n] \in Pending /\ imetas[n].inst = n /\ imetas[n].part = "whole"
  <2> SUFFICES ASSUME NEW n \in Original PROVE imetas[n] \in Pending  BY ImetasFacts
  <2>1. n \in DOMAIN imetas  BY ImetasFacts
  <2>2. CASE incount[n] = 0
    <3>1. \E m \in DOMAIN imetas : imetas[n] = imetas[m] /\ incount[m] = 0  BY <2>1, <2>2
    <3>2. \A x : (\E m \in DOMAIN imetas : x = imetas[m] /\ incount[m] = 0) => x \in free \/ x \in frontier
      BY DEF Init
    <3> QED BY <3>1, <3>2 DEF Pending
  <2>3. CASE incount[n] # 0
    <3>1. incount[n] > 0  BY <2>1, <2>3 DEF TypesInv
    <3> QED BY <2>1, <3>1, WaitingFacts DEF Pending, HeapInv
  <2> QED BY <2>2, <2>3
<1>4. Unexecuted = Pending  BY <1>1 DEF Unexecuted
<1> SUFFICES ASSUME NEW loc \in DOMAIN scratch
             PROVE  /\ \A m \in Original : ~HalfDone(m, loc)
                    /\ scratch[loc] = Done(LastWriter(loc))
  BY DEF ScratchInv
<1>5. ASSUME NEW m \in Original, loc \in WritesOf(imetas[m]) PROVE Owes(m, loc) /\ ~HalfDone(m, loc)
  <2>1. Owes(m, loc)  BY <1>3, <1>4, <1>5 DEF Owes
  <2>2. ~HalfDone(m, loc)  BY <1>3, <1>4, <1>5 DEF HalfDone
  <2> QED BY <2>1, <2>2
<1>6. ASSUME NEW m \in Original, loc \notin WritesOf(imetas[m]) PROVE ~HalfDone(m, loc)
  <2>1. \A x \in Pending : WritesOf(x) \subseteq WritesOf(imetas[x.inst])
    BY DEF HeapInv, PieceInv, PieceOK
  <2> QED BY <1>4, <1>6, <2>1 DEF HalfDone, Owes
<1>7. {m \in Original : loc \in WritesOf(imetas[m]) /\ ~Owes(m, loc)} = {}  BY <1>5
<1>8. LastWriter(loc) = 0
  <2>1. LastWriter(loc) = Max({0})  BY <1>7 DEF LastWriter
  <2>2. PICK S : S = {0}  OBVIOUS
  <2>3. Max(S) = 0  BY <2>2, MaxIs
  <2> QED BY <2>1, <2>2, <2>3
<1> QED BY <1>1, <1>5, <1>6, <1>8

LEMMA NextScratch ==
  ASSUME TypesInv, ProgramInv, HeapInv, ScratchInv, [Next]_vars
  PROVE  ScratchInv'
<1>1. CASE TakeAluSplitting \/ TakeFlowConverting
  <2>1. PICK c, S : Recut(c) /\ pc # "retire" /\ pc' \in {"load", "execute"} /\ UNCHANGED scratch
    BY <1>1, SplittingRecuts
  <2> QED BY <2>1, RecutScratch
<1>2. ASSUME UNCHANGED <<imetas, incount, scratch>>, Issuable' = Issuable, pc # "retire", pc' # "retire"
      PROVE  ScratchInv'
  <2>1. Waiting' = Waiting  BY <1>2 DEF Waiting
  <2>2. Pending = Issuable \cup Waiting /\ Pending' = Issuable' \cup Waiting'  BY DEF Pending, Issuable
  <2>3. Unexecuted' = Unexecuted  BY <1>2, <2>1, <2>2 DEF Unexecuted
  <2> QED BY <1>2, <2>3, SameUnexecuted
<1>3. CASE TakeValu \/ TakeAlu \/ TakeLoad \/ TakeStore \/ TakeFlow
  <2>1. PICK engine \in {"valu", "alu", "load", "store", "flow"},
             next \in {"alu", "load", "store", "flow", "execute"} : TakePlain(engine, next)
    BY <1>3 DEF TakeValu, TakeAlu, TakeLoad, TakeStore, TakeFlow
  <2>2. /\ UNCHANGED <<imetas, incount, free, frontier, scratch>>
        /\ pc = engine /\ pc' = next
    BY <2>1 DEF TakePlain, Issue, heap
  <2>3. Issuable' = Issuable /\ pc # "retire" /\ pc' # "retire"  BY <2>2 DEF Issuable
  <2> QED BY <1>2, <2>2, <2>3
<1>4. CASE HaveMore
  <2>1. UNCHANGED <<imetas, incount, scratch>> /\ pc # "retire" /\ pc' # "retire"  BY <1>4 DEF HaveMore
  <2>2. Issuable' = Issuable  BY <1>4 DEF HaveMore, FallDown, Issuable
  <2> QED BY <1>2, <2>1, <2>2
<1>5. CASE UNCHANGED vars
  <2>1. UNCHANGED <<imetas, incount, free, frontier, pc, to_retire, scratch>>  BY <1>5 DEF vars
  <2>2. Unexecuted' = Unexecuted  BY <2>1 DEF Unexecuted, Pending, Waiting
  <2> QED BY <2>1, <2>2, SameUnexecuted
<1> QED BY <1>1, <1>3, <1>4, <1>5, StepScratch, RetireScratch DEF Next

\* What an issued instruction finds.
LEMMA ReadsFacts ==
  ASSUME TypesInv, ProgramInv, HeapInv, ScratchInv, pc = "execute",
         NEW x \in to_retire, NEW loc \in ReadsOf(x)
  PROVE  scratch[loc] = IF x.part = "sum" /\ loc \in WritesOf(x) \ Addend(x.inst)
                        THEN [by |-> x.inst, partial |-> TRUE]
                        ELSE Done(InOrderWriter(x.inst, loc))
<1>1. x \in Issuable /\ x \in Pending /\ Unexecuted = Pending
  BY DEF TypesInv, Issuable, Pending, Unexecuted
<1>2. \A z \in Pending :
        /\ z.inst \in Original /\ WritesOf(z) \subseteq WritesOf(imetas[z.inst])
        /\ z.part # "whole" => WritesOf(z) = {Dest(z)}
  BY DEF HeapInv, PieceInv, PieceOK
<1>3. /\ loc \in Touched(imetas[x.inst])
      /\ loc \in WritesOf(imetas[x.inst]) => loc \in WritesOf(x)
      /\ x.part = "sum" => Addend(x.inst) \cap WritesOf(imetas[x.inst]) = {}
  BY <1>1 DEF HeapInv, PieceInv, PieceOK
<1>4. \A z, l : l \in WritesOf(z) => l \in Marked(z) /\ l \in Touched(z)  BY WritesMarked
<1>5. x.inst \in Original /\ x.inst \in Nat  BY <1>1, <1>2, ImetasFacts
<1>6. loc \in DOMAIN scratch  BY <1>3, <1>5, GraphFacts DEF TypesInv
<1>7. CASE x.part = "sum" /\ loc \in WritesOf(x) \ Addend(x.inst)
  <2>1. Owes(x.inst, loc)  BY <1>1, <1>7 DEF Owes
  <2>2. ASSUME NEW u \in Pending, u.inst = x.inst, loc \in WritesOf(u) PROVE u.part = "sum"
    <3>1. u = x  BY <1>1, <1>7, <2>2, LastPiece
    <3> QED BY <1>7, <3>1
  <2>3. HalfDone(x.inst, loc)  BY <1>1, <2>1, <2>2 DEF HalfDone
  <2> QED BY <1>5, <1>6, <1>7, <2>3 DEF ScratchInv
<1>8. CASE ~(x.part = "sum" /\ loc \in WritesOf(x) \ Addend(x.inst))
  <2>1. ASSUME NEW m \in Original, HalfDone(m, loc) PROVE FALSE
    <3>1. PICK s \in Pending : s.inst = m /\ loc \in WritesOf(s) /\ s.part = "sum"
      BY <1>1, <2>1 DEF HalfDone, Owes
    <3>2. loc \in Touched(imetas[m]) /\ loc \in Marked(imetas[m])  BY <1>2, <1>4, <3>1
    <3>3. CASE m < x.inst  BY <1>1, <1>3, <3>1, <3>2, <3>3, BegunOrder
    <3>4. CASE m > x.inst  BY <1>1, <1>3, <1>5, <3>1, <3>2, <3>4, BegunOrder
    <3>5. CASE m = x.inst
      <4>1. loc \in WritesOf(x)  BY <1>2, <1>3, <3>1, <3>5
      <4>2. x.part = "sum"  BY <1>1, <2>1, <3>5, <4>1 DEF HalfDone
      <4>3. loc \in Addend(x.inst)  BY <1>8, <4>1, <4>2
      <4> QED BY <1>2, <1>3, <3>1, <3>5, <4>2, <4>3
    <3>6. m \in Nat  BY ImetasFacts
    <3> QED BY <1>5, <3>3, <3>4, <3>5, <3>6
  <2>2. ASSUME NEW m \in Original, loc \in WritesOf(imetas[m])
        PROVE  ~Owes(m, loc) <=> m < x.inst
    <3>1. loc \in Touched(imetas[m]) /\ loc \in Marked(imetas[m]) /\ m \in Nat
      BY <1>4, <2>2, ImetasFacts
    <3>2. CASE m < x.inst
      <4>1. \A y \in Pending : y.inst # m  BY <1>1, <1>3, <3>1, <3>2, BegunOrder
      <4> QED BY <1>1, <3>2, <4>1 DEF Owes
    <3>3. CASE m > x.inst
      <4>1. imetas[m] \in Waiting  BY <1>1, <1>3, <3>1, <3>3, BegunOrder
      <4>2. imetas[m] \in Pending /\ imetas[m].inst = m  BY <4>1, ImetasFacts DEF Pending
      <4>3. Owes(m, loc)  BY <1>1, <2>2, <4>2 DEF Owes
      <4> QED BY <1>5, <3>1, <3>3, <4>3
    <3>4. CASE m = x.inst
      <4>1. Owes(m, loc)  BY <1>1, <1>3, <2>2, <3>4 DEF Owes
      <4> QED BY <1>5, <3>4, <4>1
    <3> QED BY <1>5, <3>1, <3>2, <3>3, <3>4
  <2>3. {m \in Original : loc \in WritesOf(imetas[m]) /\ ~Owes(m, loc)}
          = {m \in Original : m < x.inst /\ loc \in WritesOf(imetas[m])}
    BY <2>2
  <2>4. LastWriter(loc) = InOrderWriter(x.inst, loc)  BY <2>3 DEF LastWriter, InOrderWriter
  <2>5. scratch[loc] = Done(LastWriter(loc))  BY <1>6, <2>1 DEF ScratchInv
  <2> QED BY <1>8, <2>4, <2>5
<1> QED BY <1>7, <1>8

-----------------------------------------------------------------------------
(* Nothing is dropped *)

\* A thread without a count has nothing to issue.
LEMMA NoneIssuable ==
  ASSUME TypesInv, ProgramInv, HeapInv, NEW t \in -1 .. NumThreads - 1
  PROVE  schedulable_count_by_tid[t] = 0 <=> \A x \in Issuable : x.tid # t
<1>1. schedulable_count_by_tid[t] = Cardinality(IssuableOf(t))  BY DEF HeapInv, CountsInv
<1>2. IssuableOf(t) \in SUBSET Issuable  BY DEF IssuableOf
<1>3. IsFiniteSet(IssuableOf(t))  BY <1>2, PendingFinite, FS_Subset
<1>4. Cardinality(IssuableOf(t)) = 0 <=> IssuableOf(t) = {}  BY <1>3, FS_EmptySet
<1> QED BY <1>1, <1>4 DEF IssuableOf

\* How many threads are idle.
LEMMA IdleFacts ==
  ASSUME TypesInv, NEW S, S \subseteq Idle
  PROVE  /\ IsFiniteSet(Idle) /\ Cardinality(Idle) \in Nat
         /\ IsFiniteSet(S) /\ Cardinality(S) \in Nat /\ Cardinality(S) <= Cardinality(Idle)
<1>1. IsFiniteSet(0 .. (NumThreads - 1))  BY Threads, FS_Interval
<1>2. Idle \in SUBSET (0 .. (NumThreads - 1))  BY DEF Idle
<1>3. IsFiniteSet(Idle)  BY <1>1, <1>2, FS_Subset
<1>4. IsFiniteSet(S) /\ Cardinality(S) <= Cardinality(Idle)  BY <1>3, FS_Subset
<1> QED BY <1>3, <1>4, FS_CardinalityType

LEMMA RecutIdle ==
  ASSUME TypesInv, ProgramInv, HeapInv, ThreadsLetIn, NEW c, Recut(c)
  PROVE  ThreadsLetIn'
<1>1. /\ schedulable_count_by_tid' = WidenedSchedulable(c.wide) /\ next_batch_tid' = next_batch_tid
      /\ \A n \in DOMAIN imetas : imetas'[n] = imetas[n]
  BY DEF Recut
<1>2. Original' = Original /\ Original \subseteq DOMAIN imetas  BY RecutSets, ImetasFacts
<1>3. \A n \in Original : imetas'[n] = imetas[n] /\ (incount'[n] = 0 <=> incount[n] = 0)
  BY <1>1, <1>2, RecutWaits
<1>4. ASSUME NEW t \in 0 .. NumThreads - 1
      PROVE  schedulable_count_by_tid'[t] = 0 <=> schedulable_count_by_tid[t] = 0
  <2> DEFINE W == {x \in c.wide : x.tid = t}
  <2>1. t \in -1 .. NumThreads - 1 /\ t \in DOMAIN schedulable_count_by_tid
    BY Threads DEF TypesInv
  <2>2. /\ schedulable_count_by_tid[t] \in Nat
        /\ schedulable_count_by_tid'[t] = schedulable_count_by_tid[t] + (VLEN - 1) * Cardinality(W)
    BY <1>1, <2>1 DEF TypesInv, WidenedSchedulable, Widened
  <2>3. W \in SUBSET free  BY DEF Recut
  <2>4. IsFiniteSet(W) /\ Cardinality(W) \in Nat  BY <2>3, FS_Subset, FS_CardinalityType DEF TypesInv
  <2>5. VLEN - 1 \in Nat  BY VectorLength
  <2>6. schedulable_count_by_tid[t] = 0 => W = {}
    <3>1. schedulable_count_by_tid[t] = 0 => \A x \in Issuable : x.tid # t  BY <2>1, NoneIssuable
    <3> QED BY <2>3, <3>1 DEF Issuable
  <2> HIDE DEF W
  <2>7. W = {} => Cardinality(W) = 0  BY FS_EmptySet
  <2>8. \A a, b \in Nat : a * b \in Nat /\ a * 0 = 0  OBVIOUS
  <2>9. (VLEN - 1) * Cardinality(W) \in Nat  BY <2>4, <2>5, <2>8
  <2>10. schedulable_count_by_tid[t] = 0 => (VLEN - 1) * Cardinality(W) = 0
    BY <2>5, <2>6, <2>7, <2>8
  <2> QED BY <2>2, <2>9, <2>10
<1>5. Idle' = Idle  BY <1>2, <1>3, <1>4 DEF Idle
<1> QED BY <1>1, <1>5 DEF ThreadsLetIn

LEMMA RetireIdle ==
  ASSUME TypesInv, ProgramInv, HeapInv, ThreadsLetIn, TypesInv', ProgramInv', HeapInv',
         NEW x \in to_retire, RetireOne(x)
  PROVE  ThreadsLetIn'
<1> DEFINE t == x.tid
           new(u) == {y \in Waiting \ Waiting' : y.tid = u}
<1>1. Retired(x)  BY RetireFacts
<1>2. /\ imetas' = imetas /\ next_batch_tid' \in next_batch_tid .. NumThreads
      /\ incount' = [i \in DOMAIN incount |-> incount[i] - IF i \in x.after THEN 1 ELSE 0]
      /\ \A u \in -1 .. NumThreads - 1 :
           schedulable_count_by_tid'[u] =
             (IF u = t THEN schedulable_count_by_tid[u] - 1 ELSE schedulable_count_by_tid[u])
               + Cardinality(new(u))
  BY <1>1 DEF Retired
<1>3. x \in Issuable  BY DEF TypesInv, Issuable
<1>4. \A u : IsFiniteSet(new(u)) /\ Cardinality(new(u)) \in Nat
  <2> SUFFICES ASSUME NEW u PROVE IsFiniteSet(new(u)) /\ Cardinality(new(u)) \in Nat  OBVIOUS
  <2>1. new(u) \in SUBSET Waiting  OBVIOUS
  <2> QED BY <2>1, PendingFinite, FS_Subset, FS_CardinalityType
<1>5. Original' = Original /\ \A n \in Original : n \in DOMAIN imetas /\ imetas[n].inst = n
  BY <1>2, ImetasFacts DEF Original
<1>6. next_batch_tid \in Nat /\ next_batch_tid <= NumThreads /\ NumThreads \in Nat /\ Conc \in Nat
  BY Threads DEF TypesInv
<1>7. ASSUME NEW u \in Idle', u # t PROVE u \in Idle
  <2>1. PICK n \in Original : imetas[n].tid = u /\ incount'[n] = 0  BY <1>2, <1>5 DEF Idle
  <2>2. u \in 0 .. NumThreads - 1 /\ schedulable_count_by_tid'[u] = 0  BY DEF Idle
  <2>3. u \in -1 .. NumThreads - 1  BY <1>6, <2>2
  <2>4. schedulable_count_by_tid[u] \in Nat  BY <2>3 DEF TypesInv
  <2>5. schedulable_count_by_tid[u] = 0 /\ Cardinality(new(u)) = 0
    <3>1. PICK k \in Nat : k = Cardinality(new(u))  BY <1>4
    <3>2. schedulable_count_by_tid'[u] = schedulable_count_by_tid[u] + k  BY <1>2, <1>7, <2>3, <3>1
    <3> QED BY <2>2, <2>4, <3>1, <3>2
  <2>6. new(u) = {}  BY <1>4, <2>5, FS_EmptySet
  <2>7. incount[n] = 0
    <3> SUFFICES ASSUME incount[n] # 0 PROVE FALSE  OBVIOUS
    <3>1. incount[n] > 0  BY <1>5, <2>1 DEF TypesInv
    <3>2. imetas[n] \in Waiting  BY <1>5, <3>1, WaitingFacts DEF HeapInv
    <3>3. imetas'[n] \notin Waiting'
      <4> SUFFICES ASSUME NEW i \in DOMAIN imetas, incount'[i] > 0, imetas[i] = imetas[n] PROVE FALSE
        BY <1>2 DEF Waiting
      <4>1. i = n  BY <1>5, ImetasApart DEF HeapInv
      <4> QED BY <2>1, <4>1
    <3>4. imetas[n] \in new(u)  BY <1>2, <2>1, <3>2, <3>3
    <3> QED BY <2>6, <3>4
  <2> QED BY <2>1, <2>2, <2>5, <2>7 DEF Idle
<1>8. CASE t \notin Idle'
  <2>1. Idle' \subseteq Idle  BY <1>7, <1>8
  <2>2. PICK S : S = Idle'  OBVIOUS
  <2>3. Cardinality(S) \in Nat /\ Cardinality(S) <= Cardinality(Idle) /\ Cardinality(Idle) \in Nat
    BY <2>1, <2>2, IdleFacts
  <2>4. next_batch_tid' \in Nat /\ next_batch_tid' >= next_batch_tid /\ next_batch_tid' <= NumThreads
    BY <1>2, <1>6
  <2> QED BY <1>6, <2>2, <2>3, <2>4 DEF ThreadsLetIn
<1>9. CASE t \in Idle'
  <2>1. t \in -1 .. NumThreads - 1 /\ schedulable_count_by_tid'[t] = 0  BY <1>6, <1>9 DEF Idle
  <2>2. schedulable_count_by_tid[t] \in Nat /\ schedulable_count_by_tid[t] # 0
    BY <1>3, <2>1, NoneIssuable DEF TypesInv
  <2>3. schedulable_count_by_tid[t] - 1 = 0
    <3>1. PICK k \in Nat : k = Cardinality(new(t))  BY <1>4
    <3>2. schedulable_count_by_tid'[t] = schedulable_count_by_tid[t] - 1 + k  BY <1>2, <2>1, <3>1
    <3> QED BY <2>1, <2>2, <3>1, <3>2
  <2>4. next_batch_tid' = next_batch_tid + IF StartsAnother(schedulable_count_by_tid[t] - 1) THEN 1 ELSE 0
    BY <2>1 DEF RetireOne, TypesInv
  <2>5. next_batch_tid' = IF next_batch_tid < NumThreads THEN next_batch_tid + 1 ELSE next_batch_tid
    BY <1>6, <2>3, <2>4 DEF StartsAnother
  <2>6. next_batch_tid = NumThreads => next_batch_tid' = NumThreads  BY <1>6, <2>5
  <2>7. ASSUME next_batch_tid # NumThreads PROVE next_batch_tid' >= Conc + Cardinality(Idle')
    <3>1. next_batch_tid' = next_batch_tid + 1  BY <1>6, <2>5, <2>7
    <3>2. next_batch_tid >= Conc + Cardinality(Idle)  BY <2>7 DEF ThreadsLetIn
    <3>3. PICK S : S = Idle' \ {t}  OBVIOUS
    <3>4. S \subseteq Idle  BY <1>7, <3>3
    <3>5. /\ IsFiniteSet(S) /\ Cardinality(S) \in Nat /\ Cardinality(S) <= Cardinality(Idle)
          /\ Cardinality(Idle) \in Nat
      BY <3>4, IdleFacts
    <3>6. t \notin S /\ Idle' = S \cup {t}  BY <1>9, <3>3
    <3>7. Cardinality(S \cup {t}) = Cardinality(S) + 1  BY <3>5, <3>6, FS_AddElement
    <3>8. Cardinality(Idle') = Cardinality(S) + 1  BY <3>6, <3>7
    <3> QED BY <1>6, <3>1, <3>2, <3>5, <3>8
  <2> QED BY <2>6, <2>7 DEF ThreadsLetIn
<1> QED BY <1>8, <1>9

\* While anything is pending, the pieces of the earliest instruction can be issued, some at once.
LEMMA EarliestBegins ==
  ASSUME TypesInv, ProgramInv, HeapInv, Pending # {}
  PROVE  \E x \in Issuable : \A m \in Original : m < x.inst => incount[m] = 0
<1> DEFINE insts == {x.inst : x \in Pending}
<1>1. \A x \in Pending : PieceOK(x) /\ x.inst \in Original  BY DEF HeapInv, PieceInv, PieceOK
<1>2. insts \subseteq Nat /\ insts # {}  BY <1>1, ImetasFacts
<1>3. PICK n \in insts : \A m \in insts : n <= m  BY <1>2, LeastNumber
<1>4. \A x \in Pending : n <= x.inst  BY <1>3
<1>5. PICK x \in Pending : x.inst = n  OBVIOUS
<1>6. n \in Original /\ n \in Nat  BY <1>1, <1>5, ImetasFacts
<1> HIDE DEF insts
<1>7. \A m \in Original : m < n => incount[m] = 0
  <2> SUFFICES ASSUME NEW m \in Original, m < n, incount[m] # 0 PROVE FALSE  OBVIOUS
  <2>1. m \in DOMAIN imetas /\ m \in Nat  BY ImetasFacts
  <2>2. incount[m] > 0  BY <2>1 DEF TypesInv
  <2>3. imetas[m] \in Pending /\ imetas[m].inst = m  BY <2>2, WaitingFacts DEF HeapInv
  <2> QED BY <1>4, <1>6, <2>1, <2>3
\* Who unlocks a waiting piece of n is a product of n, for nothing earlier is left to unlock it.
<1>8. ASSUME NEW i \in DOMAIN imetas, imetas[i].inst = n, incount[i] > 0
      PROVE  \E y \in Pending : y.part = "product" /\ y.inst = n
  <2>1. Unlockers(i) # {}
    <3>1. incount[i] = Cardinality(Unlockers(i))  BY DEF HeapInv, CountsInv
    <3>2. Cardinality({}) = 0  BY FS_EmptySet
    <3> QED BY <1>8, <3>1, <3>2
  <2>2. PICK y \in Pending : i \in y.after  BY <2>1 DEF Unlockers
  <2>3. y.inst \in Original /\ y.inst \in Nat /\ n <= y.inst  BY <1>1, <1>4, <2>2, ImetasFacts
  <2>4. CASE y.part = "product"
    <3>1. PICK j \in DOMAIN imetas : ProductOf(y, j)  BY <1>1, <2>4 DEF PieceOK
    <3>2. i = j /\ imetas[j].inst = y.inst  BY <2>2, <3>1 DEF ProductOf
    <3> QED BY <1>8, <2>4, <3>2
  <2>5. CASE y.part # "product"
    <3>1. i \in imetas[y.inst].after  BY <1>1, <2>2, <2>5 DEF PieceOK
    <3>2. i \in Original /\ i > y.inst  BY <2>3, <3>1, GraphFacts
    <3>3. i = n  BY <1>8, <3>2, ImetasFacts
    <3> QED BY <1>6, <2>3, <3>2, <3>3
  <2> QED BY <2>4, <2>5
<1>9. \E y \in Issuable : y.inst = n
  <2>1. CASE x \in Issuable  BY <1>5, <2>1
  <2>2. CASE x \notin Issuable
    <3>1. x \in Waiting  BY <2>2 DEF Pending, Issuable
    <3>2. PICK i \in DOMAIN imetas : x = imetas[i] /\ incount[i] > 0  BY <3>1, WaitingFacts DEF HeapInv
    <3>3. PICK y \in Pending : y.part = "product" /\ y.inst = n  BY <1>5, <1>8, <3>2
    <3>4. y \notin Waiting
      <4>1. \A j \in DOMAIN imetas : imetas[j].part \in {"whole", "sum"}  BY ImetasFacts
      <4> QED BY <3>3, <4>1 DEF Waiting
    <3> QED BY <3>3, <3>4 DEF Pending, Issuable
  <2> QED BY <2>1, <2>2
<1> QED BY <1>7, <1>9

\* When the packer finds neither anything free nor anything that may fall down, nothing is pending.
LEMMA DoneIsAll ==
  ASSUME TypesInv, ProgramInv, HeapInv, ThreadsLetIn, free = {}, FallDown(next_batch_tid, frontier) = {}
  PROVE  Pending = {}
<1> SUFFICES ASSUME Pending # {} PROVE FALSE  OBVIOUS
<1>1. PICK x \in Issuable : \A m \in Original : m < x.inst => incount[m] = 0  BY EarliestBegins
<1>2. /\ next_batch_tid \in Nat /\ next_batch_tid <= NumThreads
      /\ NumThreads \in Nat /\ Conc \in Nat /\ Conc >= 1
  BY Threads DEF TypesInv
<1>3. \A y \in Issuable : y.tid \in -1 .. NumThreads - 1 /\ y.inst \in Original /\ y.tid = imetas[y.inst].tid
  BY DEF HeapInv, PieceInv, PieceOK, InstrMeta, Issuable, Pending
<1>4. \A y \in Issuable : y.tid >= next_batch_tid
  <2>1. \A y \in Issuable : y \in frontier  BY DEF Issuable
  <2>2. \A y \in frontier : ~(y.tid < next_batch_tid)  BY DEF FallDown
  <2> QED BY <1>2, <1>3, <2>1, <2>2
<1>5. next_batch_tid < NumThreads  BY <1>1, <1>2, <1>3, <1>4
<1>6. next_batch_tid >= Conc + Cardinality(Idle)  BY <1>5, <1>2 DEF ThreadsLetIn
<1>7. ASSUME NEW t \in 0 .. next_batch_tid - 1 PROVE t \in Idle
  <2>1. t \in 0 .. NumThreads - 1 /\ t \in -1 .. NumThreads - 1 /\ t < next_batch_tid  BY <1>2
  <2>2. schedulable_count_by_tid[t] = 0
    <3>1. \A y \in Issuable : y.tid # t  BY <1>2, <1>3, <1>4, <2>1
    <3> QED BY <2>1, <3>1, NoneIssuable
  <2>3. PICK n \in Original : imetas[n].tid = t  BY <2>1, GraphFacts
  <2>4. n < x.inst
    <3>1. x.inst \in Original /\ x.tid = imetas[x.inst].tid /\ x.tid >= next_batch_tid  BY <1>1, <1>3, <1>4
    <3>2. x.inst \in Nat /\ n \in Nat  BY <2>3, <3>1, ImetasFacts
    <3>3. CASE x.inst = n  BY <1>2, <2>1, <2>3, <3>1, <3>3
    <3>4. CASE x.inst < n
      <4>1. imetas[x.inst].tid <= imetas[n].tid  BY <2>3, <3>1, <3>4, GraphFacts
      <4>2. x.tid \in Int  BY <1>1, <1>3
      <4> QED BY <1>2, <2>1, <2>3, <3>1, <4>1, <4>2
    <3> QED BY <3>2, <3>3, <3>4
  <2>5. incount[n] = 0  BY <1>1, <2>3, <2>4
  <2> QED BY <2>1, <2>2, <2>3, <2>5 DEF Idle
<1>8. PICK S : S = 0 .. (next_batch_tid - 1)  OBVIOUS
<1>9. Cardinality(S) = next_batch_tid
  <2>1. Cardinality(0 .. (next_batch_tid - 1))
          = IF 0 > next_batch_tid - 1 THEN 0 ELSE next_batch_tid - 1 - 0 + 1
    BY <1>2, FS_Interval
  <2> QED BY <1>2, <1>8, <2>1
<1>10. S \subseteq Idle  BY <1>7, <1>8
<1>11. Cardinality(S) <= Cardinality(Idle) /\ Cardinality(Idle) \in Nat  BY <1>10, IdleFacts
<1> QED BY <1>2, <1>6, <1>9, <1>11

LEMMA InitIdle ==
  ASSUME Init, TypesInv, ProgramInv, HeapInv
  PROVE  IdleInv
<1>1. next_batch_tid = Conc /\ pc = "have_more"  BY DEF Init
<1>2. ASSUME NEW t \in Idle PROVE FALSE
  <2>1. t \in 0 .. NumThreads - 1 /\ schedulable_count_by_tid[t] = 0  BY DEF Idle
  <2>2. PICK n \in Original : imetas[n].tid = t /\ incount[n] = 0  BY DEF Idle
  <2>3. n \in DOMAIN imetas  BY <2>2, ImetasFacts
  <2>4. imetas[n] \in Issuable
    <3>1. PICK ready : /\ ready = {imetas[k] : k \in {m \in DOMAIN imetas : incount[m] = 0}}
                       /\ frontier = ready \ free
      BY DEF Init
    <3>2. imetas[n] \in ready  BY <2>2, <2>3, <3>1
    <3> QED BY <3>1, <3>2 DEF Issuable
  <2>5. t \in -1 .. NumThreads - 1  BY <2>1, Threads
  <2> QED BY <2>1, <2>2, <2>4, <2>5, NoneIssuable
<1>3. Idle = {}  BY <1>2
<1>4. Cardinality(Idle) = 0  BY <1>3, FS_EmptySet
<1> QED BY <1>1, <1>4, Threads DEF IdleInv, ThreadsLetIn

LEMMA NextIdle ==
  ASSUME TypesInv, ProgramInv, HeapInv, IdleInv, [Next]_vars
  PROVE  IdleInv'
<1>1. ThreadsLetIn /\ TypesInv' /\ ProgramInv' /\ HeapInv'  BY NextKeeps DEF IdleInv
<1>2. ASSUME UNCHANGED <<imetas, incount, schedulable_count_by_tid, next_batch_tid>> PROVE ThreadsLetIn'
  <2>1. Idle' = Idle  BY <1>2 DEF Idle, Original
  <2> QED BY <1>1, <1>2, <2>1 DEF ThreadsLetIn
<1>3. CASE TakeValu \/ TakeAlu \/ TakeLoad \/ TakeStore \/ TakeFlow
  <2>1. PICK engine \in {"valu", "alu", "load", "store", "flow"},
             next \in {"alu", "load", "store", "flow", "execute"} : TakePlain(engine, next)
    BY <1>3 DEF TakeValu, TakeAlu, TakeLoad, TakeStore, TakeFlow
  <2>2. UNCHANGED <<imetas, incount, schedulable_count_by_tid, next_batch_tid>> /\ pc' = next
    BY <2>1 DEF TakePlain, Issue, heap
  <2> QED BY <1>2, <2>2 DEF IdleInv
<1>4. CASE Step
  <2>1. UNCHANGED <<imetas, incount, schedulable_count_by_tid, next_batch_tid>> /\ pc' = "retire"
    BY <1>4 DEF Step, heap
  <2> QED BY <1>2, <2>1 DEF IdleInv
<1>5. CASE TakeAluSplitting \/ TakeFlowConverting
  <2>1. PICK c, S : Recut(c) /\ pc' \in {"load", "execute"}  BY <1>5, SplittingRecuts
  <2> QED BY <1>1, <2>1, RecutIdle DEF IdleInv
<1>6. CASE Retire
  <2>1. PICK x \in to_retire : RetireOne(x)  BY <1>6 DEF Retire
  <2>2. pc' # "done"  BY <1>6 DEF Retire
  <2> QED BY <1>1, <2>1, <2>2, RetireIdle DEF IdleInv
<1>7. CASE HaveMore
  <2>1. UNCHANGED <<imetas, incount, schedulable_count_by_tid, next_batch_tid>>  BY <1>7 DEF HaveMore
  <2>2. ASSUME pc' = "done" PROVE Pending' = {}
    <3>1. /\ free = {} /\ FallDown(next_batch_tid, frontier) = {}
          /\ free' = {} /\ frontier' = frontier \ {}
      BY <1>7, <2>2 DEF HaveMore
    <3>2. Pending = {}  BY <1>1, <3>1, DoneIsAll
    <3> QED BY <2>1, <3>1, <3>2 DEF Pending, Waiting
  <2> QED BY <1>2, <2>1, <2>2 DEF IdleInv
<1>8. CASE UNCHANGED vars
  <2>1. /\ UNCHANGED <<imetas, incount, schedulable_count_by_tid, next_batch_tid, pc>>
        /\ UNCHANGED <<free, frontier>>
    BY <1>8 DEF vars
  <2> QED BY <1>2, <2>1 DEF IdleInv, Pending, Waiting
<1> QED BY <1>3, <1>4, <1>5, <1>6, <1>7, <1>8 DEF Next

-----------------------------------------------------------------------------
(* Theorems *)

\* The counters count, the pieces are apart and ordered, and the scratch holds what they have left,
\* for every program that get_work can hand over, every SLOT_LIMITS and every order of the heap.
THEOREM Invariance == Spec => []Inv
<1>1. Init => Inv  BY InitKeeps, InitScratch, InitIdle DEF Inv
<1>2. Inv /\ [Next]_vars => Inv'  BY NextKeeps, NextScratch, NextIdle DEF Inv
<1> QED BY <1>1, <1>2, PTL DEF Spec

\* incount[i] is the number of instructions not yet retired that unlock i, and the count of a thread
\* the number of its issuable ones, whatever the packer has split on the way: __retire can take an
\* instruction for ready when its count is 1, and a thread for out of work when its count is 0.
THEOREM Bookkeeping == Spec => []BookkeepingExact
<1>1. Inv => BookkeepingExact
  <2> SUFFICES ASSUME Inv PROVE BookkeepingExact  OBVIOUS
  <2>1. TypesInv /\ CountsInv  BY DEF Inv, HeapInv
  <2>2. DOMAIN incount = DOMAIN imetas /\ DOMAIN schedulable_count_by_tid = -1 .. NumThreads - 1
    BY <2>1 DEF TypesInv
  <2> QED BY <2>1, <2>2
        DEF CountsInv, BookkeepingExact, Unlockers, IssuableOf, Pending, Issuable, SchedulableCount
<1> QED BY <1>1, Invariance, PTL

\* No bundle has two instructions that write the same word of the scratch: what the machine leaves
\* there does not depend on the order in which it applies a bundle's writes.
THEOREM OneWriter == Spec => []OneWriterPerBundle
<1>1. Inv => OneWriterPerBundle
  <2> SUFFICES ASSUME Inv, NEW x \in to_retire, NEW y \in to_retire, x # y
               PROVE  WritesOf(x) \cap WritesOf(y) = {}
    BY DEF OneWriterPerBundle
  <2>1. TypesInv /\ ProgramInv /\ HeapInv  BY DEF Inv
  <2>2. x \in Issuable /\ y \in Issuable  BY <2>1 DEF TypesInv, Issuable
  <2> QED BY <2>1, <2>2, IssuableApart
<1> QED BY <1>1, Invariance, PTL

\* Whatever the bundles, the order of the heap, the splits and the conversions, every instruction
\* reads in each register what the program, run one instruction after the other, would have left there.
THEOREM ProgramOrderReads == Spec => []ReadsInProgramOrder
<1>1. Inv => ReadsInProgramOrder  BY ReadsFacts DEF Inv, ReadsInProgramOrder
<1> QED BY <1>1, Invariance, PTL

\* When the packer returns, nothing is left in the frontier or waiting, and the scratch is what the
\* program in order leaves: no thread that next_batch_tid holds back is forgotten.
THEOREM NothingLeftBehind == Spec => []NothingDropped
<1>1. Inv => NothingDropped
  <2> SUFFICES ASSUME Inv, pc = "done"
               PROVE  /\ frontier = {} /\ Waiting = {}
                      /\ \A loc \in DOMAIN scratch : scratch[loc] = Done(InOrderWriter(Len(imetas) + 1, loc))
    BY DEF NothingDropped
  <2>1. TypesInv /\ ProgramInv /\ ScratchInv /\ Pending = {}  BY DEF Inv, IdleInv
  <2>2. frontier = {} /\ Waiting = {}  BY <2>1 DEF Pending
  <2>3. Unexecuted = {}  BY <2>1 DEF Unexecuted
  <2>4. \A m, loc : ~Owes(m, loc) /\ ~HalfDone(m, loc)  BY <2>3 DEF Owes, HalfDone
  <2>5. \A m \in Original : m < Len(imetas) + 1  BY <2>1, ImetasFacts
  <2>6. \A loc : LastWriter(loc) = InOrderWriter(Len(imetas) + 1, loc)
    <3> SUFFICES ASSUME NEW loc PROVE LastWriter(loc) = InOrderWriter(Len(imetas) + 1, loc)  OBVIOUS
    <3>1. {m \in Original : loc \in WritesOf(imetas[m]) /\ ~Owes(m, loc)}
            = {m \in Original : m < Len(imetas) + 1 /\ loc \in WritesOf(imetas[m])}
      BY <2>4, <2>5
    <3> QED BY <3>1 DEF LastWriter, InOrderWriter
  <2> QED BY <2>1, <2>2, <2>4, <2>6 DEF ScratchInv
<1> QED BY <1>1, Invariance, PTL

-----------------------------------------------------------------------------
(* The front end: layouts *)

\* Names that a program declares: no number's variable has one of them, nor one a name for both widths.
NamesApart(names) ==
  /\ names \subseteq STRING
  /\ \A v \in Int, wide \in BOOLEAN : ConstantName(v, wide) \in STRING \ names
  /\ \A v, w \in Int : ConstantName(v, TRUE) # ConstantName(w, FALSE)

Width(is_vector) == IF is_vector THEN VLEN ELSE 1
VariableMeta == [addr : Nat, length : {1, VLEN}, slots : Nat \ {0}, const : Int]
ScratchSpaces ==
  [scratch_ptr : Nat, var_meta : UNION {[names -> VariableMeta] : names \in SUBSET STRING}, duplicate : BOOLEAN]

SizeOf(vm) == vm.length * vm.slots
Apart(vm, other) == vm.addr + SizeOf(vm) <= other.addr \/ other.addr + SizeOf(other) <= vm.addr

\* A scratch for conc threads at a time: variables do not overlap, those of numbers are as wide as their
\* names say, and tidxlen is a word of each thread.
LaidOut(ss, conc) ==
  /\ ss \in ScratchSpaces /\ IsFiniteSet(DOMAIN ss.var_meta)
  /\ \A n \in DOMAIN ss.var_meta :
       /\ ss.var_meta[n].slots \in {1, conc}
       /\ ss.var_meta[n].addr + SizeOf(ss.var_meta[n]) <= ss.scratch_ptr
       /\ \A m \in DOMAIN ss.var_meta \ {n} : Apart(ss.var_meta[m], ss.var_meta[n])
  /\ \A v \in Int, wide \in BOOLEAN :
       HasVariable(ss, ConstantName(v, wide)) => ss.var_meta[ConstantName(v, wide)].length = Width(wide)
  /\ HasVariable(ss, "tidxlen") => ss.var_meta["tidxlen"].length = 1 /\ ss.var_meta["tidxlen"].slots = conc

\* Variables are only added, unless a name is used twice.
Keeps(ss, tt) ==
  /\ DOMAIN ss.var_meta \subseteq DOMAIN tt.var_meta
  /\ \A n \in DOMAIN ss.var_meta : tt.var_meta[n] = ss.var_meta[n]
Grows(ss, tt) == (ss.duplicate => tt.duplicate) /\ (~tt.duplicate => Keeps(ss, tt))

\* What may be asked for.
MayHold(name, length, slots, conc) ==
  /\ name \in STRING /\ length \in {1, VLEN} /\ slots \in {1, conc}
  /\ \A v \in Int, wide \in BOOLEAN : name = ConstantName(v, wide) => length = Width(wide)
  /\ name = "tidxlen" => length = 1 /\ slots = conc

\* A variable takes a number of words.
LEMMA SizeType ==
  ASSUME NEW vm \in VariableMeta PROVE SizeOf(vm) \in Nat
<1>1. vm.length \in Nat /\ vm.slots \in Nat  BY VectorLength DEF VariableMeta
<1>2. \A a, b \in Nat : a * b \in Nat  OBVIOUS
<1> QED BY <1>1, <1>2 DEF SizeOf

\* A new variable goes behind all others.
LEMMA Allocates ==
  ASSUME NEW conc \in Nat \ {0}, NEW ss, LaidOut(ss, conc),
         NEW name, NEW length, NEW slots, MayHold(name, length, slots, conc), NEW const \in Int
  PROVE  LET tt == AllocScratch(ss, name, length, slots, const)
         IN  /\ LaidOut(tt, conc) /\ Grows(ss, tt)
             /\ HasVariable(tt, name)
             /\ tt.var_meta[name] = [addr |-> ss.scratch_ptr, length |-> length, slots |-> slots, const |-> const]
<1> DEFINE tt == AllocScratch(ss, name, length, slots, const)
           vm == [addr |-> ss.scratch_ptr, length |-> length, slots |-> slots, const |-> const]
           size == length * slots
           D == DOMAIN ss.var_meta
<1>1. /\ tt.scratch_ptr = ss.scratch_ptr + size
      /\ tt.var_meta = [n \in D \cup {name} |-> IF n = name THEN vm ELSE ss.var_meta[n]]
      /\ tt.duplicate = (ss.duplicate \/ name \in D)
      /\ tt = [scratch_ptr |-> tt.scratch_ptr, var_meta |-> tt.var_meta, duplicate |-> tt.duplicate]
  BY DEF AllocScratch, HasVariable
<1> HIDE DEF tt
<1>2. /\ ss.scratch_ptr \in Nat /\ ss.duplicate \in BOOLEAN
      /\ D \subseteq STRING /\ ss.var_meta \in [D -> VariableMeta] /\ IsFiniteSet(D)
  BY DEF LaidOut, ScratchSpaces
<1>3. vm \in VariableMeta /\ SizeOf(vm) = size /\ vm.addr = ss.scratch_ptr
  BY <1>2 DEF MayHold, VariableMeta, SizeOf
<1>4. size \in Nat  BY <1>3, SizeType
<1> HIDE DEF vm, size
<1>5. DOMAIN tt.var_meta = D \cup {name} /\ tt.var_meta \in [D \cup {name} -> VariableMeta]
  BY <1>1, <1>2, <1>3
<1>6. tt \in ScratchSpaces
  <2>1. D \cup {name} \in SUBSET STRING  BY <1>2 DEF MayHold
  <2>2. tt.var_meta \in UNION {[names -> VariableMeta] : names \in SUBSET STRING}  BY <1>5, <2>1
  <2>3. tt.scratch_ptr \in Nat /\ tt.duplicate \in BOOLEAN  BY <1>1, <1>2, <1>4
  <2> QED BY <1>1, <2>2, <2>3 DEF ScratchSpaces
<1>7. IsFiniteSet(DOMAIN tt.var_meta)  BY <1>2, <1>5, FS_AddElement
<1>8. tt.var_meta[name] = vm /\ \A n \in D \ {name} : tt.var_meta[n] = ss.var_meta[n]  BY <1>1
<1>9. \A n \in D : /\ ss.var_meta[n].slots \in {1, conc} /\ ss.var_meta[n].addr \in Nat
                   /\ SizeOf(ss.var_meta[n]) \in Nat
                   /\ ss.var_meta[n].addr + SizeOf(ss.var_meta[n]) <= ss.scratch_ptr
                   /\ \A m \in D \ {n} : Apart(ss.var_meta[m], ss.var_meta[n])
  BY <1>2, SizeType DEF LaidOut, VariableMeta
<1>10. ASSUME NEW n \in D \cup {name}
       PROVE  /\ tt.var_meta[n].slots \in {1, conc}
              /\ tt.var_meta[n].addr + SizeOf(tt.var_meta[n]) <= tt.scratch_ptr
              /\ \A m \in (D \cup {name}) \ {n} : Apart(tt.var_meta[m], tt.var_meta[n])
  <2>1. CASE n = name
    <3>1. vm.slots \in {1, conc}  BY DEF vm, MayHold
    <3>2. vm.addr + SizeOf(vm) <= tt.scratch_ptr  BY <1>1, <1>2, <1>3, <1>4
    <3>3. \A m \in D \ {name} : Apart(tt.var_meta[m], vm)  BY <1>3, <1>8, <1>9 DEF Apart
    <3> QED BY <1>8, <2>1, <3>1, <3>2, <3>3
  <2>2. CASE n # name
    <3>1. n \in D /\ tt.var_meta[n] = ss.var_meta[n]  BY <1>8, <2>2
    <3>2. ss.var_meta[n].addr + SizeOf(ss.var_meta[n]) <= tt.scratch_ptr  BY <1>1, <1>2, <1>4, <1>9, <3>1
    <3>3. Apart(vm, ss.var_meta[n])  BY <1>3, <1>9, <3>1 DEF Apart
    <3>4. \A m \in D \ {n, name} : Apart(tt.var_meta[m], ss.var_meta[n])  BY <1>8, <1>9, <3>1
    <3> QED BY <1>8, <1>9, <3>1, <3>2, <3>3, <3>4
  <2> QED BY <2>1, <2>2
<1>11. vm.length = length /\ vm.slots = slots  BY DEF vm
<1>12. \A v \in Int, wide \in BOOLEAN :
         HasVariable(tt, ConstantName(v, wide)) => tt.var_meta[ConstantName(v, wide)].length = Width(wide)
  BY <1>5, <1>8, <1>11 DEF LaidOut, HasVariable, MayHold
<1>13. HasVariable(tt, "tidxlen") => tt.var_meta["tidxlen"].length = 1 /\ tt.var_meta["tidxlen"].slots = conc
  BY <1>5, <1>8, <1>11 DEF LaidOut, HasVariable, MayHold
<1>14. LaidOut(tt, conc)  BY <1>5, <1>6, <1>7, <1>10, <1>12, <1>13 DEF LaidOut
<1>15. Grows(ss, tt)  BY <1>1, <1>5, <1>8 DEF Grows, Keeps
<1>16. HasVariable(tt, name) /\ tt.var_meta[name] = vm  BY <1>5, <1>8 DEF HasVariable
<1> QED BY <1>14, <1>15, <1>16 DEF tt, vm

\* Growing twice is growing.
LEMMA GrowsOn ==
  ASSUME NEW ss, NEW tt, NEW uu, Grows(ss, tt), Grows(tt, uu)
  PROVE  Grows(ss, uu)
BY DEF Grows, Keeps

\* A number's variable is there, new or old.
LEMMA ConstantHeld ==
  ASSUME NEW names, NamesApart(names), "tidxlen" \in names,
         NEW conc \in Nat \ {0}, NEW ss, LaidOut(ss, conc), NEW v \in Int, NEW wide \in BOOLEAN
  PROVE  LET tt == AllocConst(ss, v, wide)
         IN  /\ LaidOut(tt, conc) /\ Grows(ss, tt) /\ HasVariable(tt, ConstantName(v, wide))
             /\ Keeps(ss, tt) /\ tt.duplicate = ss.duplicate
<1> DEFINE name == ConstantName(v, wide)
           length == IF wide THEN VLEN ELSE 1
<1>1. CASE HasVariable(ss, name)
  <2>1. AllocConst(ss, v, wide) = ss  BY <1>1 DEF AllocConst, FirstTime
  <2> QED BY <1>1, <2>1 DEF Grows, Keeps
<1>2. CASE ~HasVariable(ss, name)
  <2>1. AllocConst(ss, v, wide) = AllocScratch(ss, name, length, 1, v)  BY <1>2 DEF AllocConst, FirstTime
  <2>2. MayHold(name, length, 1, conc)
    <3>1. name \in STRING /\ name # "tidxlen"  BY DEF NamesApart
    <3>2. ASSUME NEW w \in Int, NEW other \in BOOLEAN, name = ConstantName(w, other) PROVE other = wide
      <4>1. CASE wide /\ ~other
        <5>1. wide = TRUE /\ other = FALSE  BY <4>1
        <5> QED BY <3>2, <5>1 DEF NamesApart
      <4>2. CASE ~wide /\ other
        <5>1. wide = FALSE /\ other = TRUE  BY <4>2
        <5> QED BY <3>2, <5>1 DEF NamesApart
      <4> QED BY <4>1, <4>2
    <3> HIDE DEF name
    <3> QED BY <3>1, <3>2 DEF MayHold, Width
  <2>3. /\ AllocScratch(ss, name, length, 1, v).duplicate = ss.duplicate
        /\ Keeps(ss, AllocScratch(ss, name, length, 1, v))
    <3>1. ss.duplicate \in BOOLEAN  BY DEF LaidOut, ScratchSpaces
    <3>2. AllocScratch(ss, name, length, 1, v).duplicate = ss.duplicate  BY <1>2, <3>1 DEF AllocScratch
    <3> HIDE DEF name, length
    <3>3. Keeps(ss, AllocScratch(ss, name, length, 1, v))  BY <1>2 DEF AllocScratch, Keeps, HasVariable
    <3> QED BY <3>2, <3>3
  <2> HIDE DEF name, length
  <2>4. /\ LaidOut(AllocScratch(ss, name, length, 1, v), conc)
        /\ Grows(ss, AllocScratch(ss, name, length, 1, v))
        /\ HasVariable(AllocScratch(ss, name, length, 1, v), name)
    BY <2>2, Allocates
  <2> QED BY <2>1, <2>3, <2>4 DEF name
<1> QED BY <1>1, <1>2

-----------------------------------------------------------------------------
(* Logical instructions *)

LogicalRegister == [name : STRING, offset : Nat, is_vector : BOOLEAN, is_read : BOOLEAN, array : BOOLEAN]
Instruction ==
  [engine : {"valu", "alu", "load", "store", "flow"}, op : Opcodes, args : Seq(LogicalRegister), val : Int]

\* A whole vector, or a word of a variable.
RegisterOver(r, ss) ==
  /\ HasVariable(ss, r.name) /\ ~r.array
  /\ IF r.is_vector THEN r.offset = 0 /\ ss.var_meta[r.name].length = VLEN
     ELSE r.offset < ss.var_meta[r.name].length

DestinationFirst(args) == \A k \in DOMAIN args : args[k].is_read <=> k # 1
ShapedAs(lin, args) ==
  /\ lin.engine = "valu" =>
       /\ DestinationFirst(args)
       /\ Len(args) = IF lin.op = "vbroadcast" THEN 2 ELSE IF lin.op = "multiply_add" THEN 4 ELSE 3
       /\ args[1].is_vector
       /\ lin.op # "vbroadcast" => \A k \in DOMAIN args : args[k].is_vector
  /\ lin.engine = "alu" => Len(args) = 3 /\ DestinationFirst(args)
InstrsOver(ss) ==
  {lin \in Instruction : (\A k \in DOMAIN lin.args : RegisterOver(lin.args[k], ss)) /\ ShapedAs(lin, lin.args)}

\* Instructions over a layout are instructions over every one that keeps it.
LEMMA InstrsStay ==
  ASSUME NEW ss, NEW tt, Keeps(ss, tt)
  PROVE  InstrsOver(ss) \subseteq InstrsOver(tt)
<1>1. \A r : RegisterOver(r, ss) => RegisterOver(r, tt)  BY DEF Keeps, RegisterOver, HasVariable
<1> QED BY <1>1 DEF InstrsOver

-----------------------------------------------------------------------------
(* Resolved registers *)

InBlock(q, vm) == \A loc \in RegRange(q) : vm.addr <= loc /\ loc < vm.addr + SizeOf(vm)

\* A register resolves to words of its variable.
LEMMA ResolvedRegister ==
  ASSUME NEW conc \in Nat \ {0}, NEW ss, LaidOut(ss, conc),
         NEW r \in LogicalRegister, RegisterOver(r, ss), NEW slot \in 0 .. conc - 1
  PROVE  LET q == Resolved(r, ss, slot)
         IN  /\ q \in Register /\ q.vec = r.is_vector /\ q.read = r.is_read
             /\ q.addr = AddrOf(ss.var_meta[r.name], slot) + r.offset
             /\ InBlock(q, ss.var_meta[r.name])
<1> DEFINE vm == ss.var_meta[r.name]
           q == Resolved(r, ss, slot)
<1>1. vm \in VariableMeta /\ vm.slots \in {1, conc}
  BY DEF LaidOut, ScratchSpaces, RegisterOver, HasVariable
<1>2. q = [addr |-> AddrOf(vm, slot) + r.offset, vec |-> r.is_vector, read |-> r.is_read,
           array |-> r.array, const |-> vm.const]
  BY DEF Resolved, VarMetaOf, RegisterOver
<1>3. vm.addr \in Nat /\ vm.const \in Int /\ vm.length \in Nat \ {0} /\ vm.slots \in Nat \ {0}
  BY <1>1, VectorLength DEF VariableMeta
<1>4. /\ r.offset \in Nat
      /\ r.is_vector \in BOOLEAN /\ r.is_read \in BOOLEAN /\ r.array \in BOOLEAN
      /\ IF r.is_vector THEN r.offset = 0 /\ vm.length = VLEN ELSE r.offset < vm.length
  BY DEF LogicalRegister, RegisterOver
<1> HIDE DEF vm, q
<1>5. /\ AddrOf(vm, slot) \in Nat /\ vm.addr <= AddrOf(vm, slot)
      /\ AddrOf(vm, slot) + vm.length <= vm.addr + SizeOf(vm) /\ SizeOf(vm) \in Nat
  <2>0. slot * vm.length \in Nat /\ slot * vm.length + vm.length <= vm.length * conc  BY <1>3, SlotFits
  <2>1. CASE vm.slots = 1
    <3>1. AddrOf(vm, slot) = vm.addr /\ SizeOf(vm) = vm.length  BY <1>3, <2>1 DEF AddrOf, SizeOf
    <3> QED BY <1>3, <3>1
  <2>2. CASE vm.slots # 1
    <3>1. AddrOf(vm, slot) = vm.addr + slot * vm.length /\ SizeOf(vm) = vm.length * conc
      BY <1>1, <2>2 DEF AddrOf, SizeOf
    <3>2. SizeOf(vm) \in Nat  BY <1>1, SizeType
    <3> QED BY <1>3, <2>0, <3>1, <3>2
  <2> QED BY <2>1, <2>2
<1>6. q \in Register  BY <1>2, <1>3, <1>4, <1>5 DEF Register
<1>7. InBlock(q, vm)
  <2>1. RegRange(q) = q.addr .. (q.addr + IF r.is_vector THEN VLEN - 1 ELSE 0)  BY <1>2 DEF RegRange
  <2>2. q.addr = AddrOf(vm, slot) + r.offset  BY <1>2
  <2>3. CASE r.is_vector
    <3>1. RegRange(q) = AddrOf(vm, slot) .. AddrOf(vm, slot) + vm.length - 1
      BY <1>4, <1>5, <2>1, <2>2, <2>3, VectorLength
    <3> QED BY <1>3, <1>5, <3>1 DEF InBlock
  <2>4. CASE ~r.is_vector
    <3>1. RegRange(q) = {AddrOf(vm, slot) + r.offset} /\ r.offset < vm.length
      BY <1>4, <1>5, <2>1, <2>2, <2>4
    <3> QED BY <1>3, <1>4, <1>5, <3>1 DEF InBlock
  <2> QED BY <2>3, <2>4
<1> QED BY <1>2, <1>6, <1>7 DEF q, vm

\* Whole vectors are the same one or apart.
LEMMA VectorsApart ==
  ASSUME NEW conc \in Nat \ {0}, NEW ss, LaidOut(ss, conc), NEW slot \in 0 .. conc - 1,
         NEW r \in LogicalRegister, RegisterOver(r, ss), r.is_vector,
         NEW other \in LogicalRegister, RegisterOver(other, ss), other.is_vector
  PROVE  LET q == Resolved(r, ss, slot)
             p == Resolved(other, ss, slot)
         IN  q.addr = p.addr \/ ~Overlaps(q, p)
<1> DEFINE q == Resolved(r, ss, slot)
           p == Resolved(other, ss, slot)
<1>1. /\ q.addr = AddrOf(ss.var_meta[r.name], slot) + r.offset /\ InBlock(q, ss.var_meta[r.name])
      /\ q \in Register
  BY ResolvedRegister
<1>2. /\ p.addr = AddrOf(ss.var_meta[other.name], slot) + other.offset /\ InBlock(p, ss.var_meta[other.name])
      /\ p \in Register
  BY ResolvedRegister
<1>3. r.offset = 0 /\ other.offset = 0  BY DEF RegisterOver
<1> HIDE DEF q, p
<1>4. ASSUME r.name = other.name PROVE q.addr = p.addr  BY <1>1, <1>2, <1>3, <1>4
<1>5. ASSUME r.name # other.name PROVE ~Overlaps(q, p)
  <2>1. Apart(ss.var_meta[r.name], ss.var_meta[other.name])  BY <1>5 DEF LaidOut, RegisterOver, HasVariable
  <2>2. /\ ss.var_meta[r.name] \in VariableMeta /\ ss.var_meta[other.name] \in VariableMeta
    BY DEF LaidOut, ScratchSpaces, RegisterOver, HasVariable
  <2>3. /\ ss.var_meta[r.name].addr \in Nat /\ SizeOf(ss.var_meta[r.name]) \in Nat
        /\ ss.var_meta[other.name].addr \in Nat /\ SizeOf(ss.var_meta[other.name]) \in Nat
    BY <2>2, SizeType DEF VariableMeta
  <2>4. RegRange(q) \subseteq Int /\ RegRange(p) \subseteq Int  BY <1>1, <1>2 DEF RegRange, Register
  <2>5. RegRange(q) \cap RegRange(p) = {}  BY <1>1, <1>2, <2>1, <2>3, <2>4 DEF InBlock, Apart
  <2> QED BY <2>5 DEF Overlaps
<1> QED BY <1>4, <1>5 DEF q, p

ResolvedIn(lin, ss, slot) == [lin EXCEPT !.args = [k \in DOMAIN @ |-> Resolved(@[k], ss, slot)]]

\* What the packer takes.
SoundInstrs ==
  {lin \in LogicalInstruction :
     /\ \A k \in DOMAIN lin.args : RegRange(lin.args[k]) \subseteq 0 .. ScratchSize - 1
     /\ lin.engine = "valu" => VectorOperands(lin.op, lin.args)
     /\ lin.engine = "alu" => Ternary(lin)}
Resolvable(ss, slot) == {lin \in Instruction : ResolvedIn(lin, ss, slot) \in SoundInstrs}

\* The registers of an instruction, one for each of its arguments.
LEMMA ResolvedInstruction ==
  ASSUME NEW lin \in Instruction, NEW ss, NEW slot,
         \A k \in DOMAIN lin.args : Resolved(lin.args[k], ss, slot) \in Register
  PROVE  LET res == ResolvedIn(lin, ss, slot)
         IN  /\ res \in LogicalInstruction /\ res.engine = lin.engine /\ res.op = lin.op
             /\ Len(res.args) = Len(lin.args) /\ DOMAIN res.args = DOMAIN lin.args
             /\ \A k \in DOMAIN lin.args : res.args[k] = Resolved(lin.args[k], ss, slot)
<1> DEFINE args == [k \in DOMAIN lin.args |-> Resolved(lin.args[k], ss, slot)]
<1>1. ResolvedIn(lin, ss, slot) = [lin EXCEPT !.args = args]  BY DEF ResolvedIn
<1>2. lin.args \in Seq(LogicalRegister) /\ lin.engine \in {"valu", "alu", "load", "store", "flow"}
      /\ lin.op \in Opcodes /\ lin.val \in Int
      /\ lin = [engine |-> lin.engine, op |-> lin.op, args |-> lin.args, val |-> lin.val]
  BY DEF Instruction
<1>3. PICK n \in Nat : DOMAIN lin.args = 1 .. n /\ Len(lin.args) = n  BY <1>2
<1>4. args \in Seq(Register) /\ Len(args) = n /\ DOMAIN args = 1 .. n
  <2>1. args \in [1 .. n -> Register]  BY <1>3
  <2> HIDE DEF args
  <2> QED BY <2>1
<1>5. \A k \in DOMAIN lin.args : args[k] = Resolved(lin.args[k], ss, slot)  OBVIOUS
<1> HIDE DEF args
<1>6. ResolvedIn(lin, ss, slot) = [engine |-> lin.engine, op |-> lin.op, args |-> args, val |-> lin.val]
  BY <1>1, <1>2
<1>7. ResolvedIn(lin, ss, slot) \in LogicalInstruction  BY <1>2, <1>4, <1>6 DEF LogicalInstruction
<1> QED BY <1>3, <1>4, <1>5, <1>6, <1>7

\* Every word of a variable is one of the scratch.
LEMMA WithinScratch ==
  ASSUME NEW conc \in Nat \ {0}, NEW ss, LaidOut(ss, conc), ss.scratch_ptr <= ScratchSize,
         NEW n \in DOMAIN ss.var_meta, NEW q \in Register, InBlock(q, ss.var_meta[n])
  PROVE  RegRange(q) \subseteq 0 .. ScratchSize - 1
<1>1. ss.var_meta[n] \in VariableMeta /\ ss.scratch_ptr \in Nat  BY DEF LaidOut, ScratchSpaces
<1>2. ss.var_meta[n].addr \in Nat /\ SizeOf(ss.var_meta[n]) \in Nat  BY <1>1, SizeType DEF VariableMeta
<1>3. ss.var_meta[n].addr + SizeOf(ss.var_meta[n]) <= ss.scratch_ptr  BY DEF LaidOut
<1>4. RegRange(q) \subseteq Int  BY DEF RegRange, Register
<1>5. ScratchSize \in Nat  BY ScratchWords
<1> QED BY <1>1, <1>2, <1>3, <1>4, <1>5 DEF InBlock

\* What is over variables of the layout resolves soundly, in any slot.
LEMMA ResolvesSoundly ==
  ASSUME NEW conc \in Nat \ {0}, NEW ss, LaidOut(ss, conc), ss.scratch_ptr <= ScratchSize,
         NEW slot \in 0 .. conc - 1
  PROVE  InstrsOver(ss) \subseteq Resolvable(ss, slot)
<1> SUFFICES ASSUME NEW lin \in InstrsOver(ss) PROVE ResolvedIn(lin, ss, slot) \in SoundInstrs
  BY DEF Resolvable, InstrsOver
<1>1. /\ lin \in Instruction /\ ShapedAs(lin, lin.args)
      /\ \A k \in DOMAIN lin.args : RegisterOver(lin.args[k], ss) /\ lin.args[k] \in LogicalRegister
  <2>1. lin.args \in Seq(LogicalRegister)  BY DEF InstrsOver, Instruction
  <2>2. \A k \in DOMAIN lin.args : lin.args[k] \in LogicalRegister  BY <2>1
  <2> QED BY <2>2 DEF InstrsOver
<1>2. \A k \in DOMAIN lin.args :
        LET q == Resolved(lin.args[k], ss, slot)
        IN  /\ q \in Register /\ q.vec = lin.args[k].is_vector /\ q.read = lin.args[k].is_read
            /\ RegRange(q) \subseteq 0 .. ScratchSize - 1
  <2> SUFFICES ASSUME NEW k \in DOMAIN lin.args
      PROVE  LET q == Resolved(lin.args[k], ss, slot)
             IN  /\ q \in Register /\ q.vec = lin.args[k].is_vector /\ q.read = lin.args[k].is_read
                 /\ RegRange(q) \subseteq 0 .. ScratchSize - 1
    OBVIOUS
  <2> DEFINE q == Resolved(lin.args[k], ss, slot)
  <2>1. /\ q \in Register /\ q.vec = lin.args[k].is_vector /\ q.read = lin.args[k].is_read
        /\ InBlock(q, ss.var_meta[lin.args[k].name])
    <3>1. PICK r : r = lin.args[k]  OBVIOUS
    <3>2. r \in LogicalRegister /\ RegisterOver(r, ss)  BY <1>1, <3>1
    <3>3. LET p == Resolved(r, ss, slot)
          IN  /\ p \in Register /\ p.vec = r.is_vector /\ p.read = r.is_read
              /\ InBlock(p, ss.var_meta[r.name])
      BY <3>2, ResolvedRegister
    <3> QED BY <3>1, <3>3
  <2>2. lin.args[k].name \in DOMAIN ss.var_meta  BY <1>1 DEF RegisterOver, HasVariable
  <2> HIDE DEF q
  <2>3. RegRange(q) \subseteq 0 .. ScratchSize - 1  BY <2>1, <2>2, WithinScratch
  <2> QED BY <2>1, <2>3 DEF q
<1> DEFINE res == ResolvedIn(lin, ss, slot)
<1>3. /\ res \in LogicalInstruction /\ res.engine = lin.engine /\ res.op = lin.op
      /\ Len(res.args) = Len(lin.args) /\ DOMAIN res.args = DOMAIN lin.args
      /\ \A k \in DOMAIN lin.args : res.args[k] = Resolved(lin.args[k], ss, slot)
  BY <1>1, <1>2, ResolvedInstruction
<1> HIDE DEF res
<1>4. \A k \in DOMAIN res.args :
        /\ res.args[k].vec = lin.args[k].is_vector /\ res.args[k].read = lin.args[k].is_read
        /\ RegRange(res.args[k]) \subseteq 0 .. ScratchSize - 1
  BY <1>2, <1>3
<1>5. \A k \in DOMAIN lin.args : k \in 1 .. Len(lin.args)  BY <1>1 DEF Instruction
<1>6. ASSUME lin.engine = "valu" PROVE VectorOperands(res.op, res.args)
  <2>1. Len(lin.args) > 0 /\ 1 \in DOMAIN lin.args  BY <1>1, <1>6 DEF ShapedAs, Instruction
  <2>2. WritesFirst(res.args)  BY <1>1, <1>3, <1>4, <1>6, <2>1 DEF ShapedAs, DestinationFirst, WritesFirst
  <2>3. ASSUME lin.op # "vbroadcast", NEW k \in DOMAIN lin.args
        PROVE  res.args[k].vec /\ (res.args[k].addr = res.args[1].addr \/ ~Overlaps(res.args[k], res.args[1]))
    <3>1. lin.args[k].is_vector /\ lin.args[1].is_vector  BY <1>1, <1>6, <2>3 DEF ShapedAs
    <3>2. LET q == Resolved(lin.args[k], ss, slot)
              p == Resolved(lin.args[1], ss, slot)
          IN  q.addr = p.addr \/ ~Overlaps(q, p)
      BY <1>1, <2>1, <3>1, VectorsApart
    <3> QED BY <1>3, <1>4, <2>1, <3>1, <3>2
  <2> QED BY <1>1, <1>3, <1>4, <1>6, <2>1, <2>2, <2>3 DEF ShapedAs, VectorOperands
<1>7. ASSUME lin.engine = "alu" PROVE Ternary(res)
  <2>1. Len(res.args) = 3 /\ \A k \in DOMAIN lin.args : lin.args[k].is_read <=> k # 1
    BY <1>1, <1>3, <1>7 DEF ShapedAs, DestinationFirst
  <2>2. WritesFirst(res.args)  BY <1>3, <1>4, <2>1 DEF WritesFirst
  <2> QED BY <2>1, <2>2 DEF Ternary
<1> QED BY <1>3, <1>4, <1>6, <1>7 DEF SoundInstrs, res

\* The fields of an array's register,
LEMMA ArrayOpIs ==
  ASSUME NEW name \in STRING, NEW offset \in Nat, NEW vec \in BOOLEAN, NEW read \in BOOLEAN
  PROVE  LET r == ArrayOp(name, offset, vec, read)
         IN  /\ r \in LogicalRegister /\ r.name = name /\ r.offset = offset
             /\ (r.is_vector <=> vec) /\ (r.is_read <=> read) /\ r.array
<1> DEFINE r == ArrayOp(name, offset, vec, read)
<1>1. r \in LogicalRegister  BY DEF ArrayOp, LogicalRegister
<1>2. r.name = name /\ r.offset = offset  BY DEF ArrayOp
<1>3. r.is_vector <=> vec  BY DEF ArrayOp
<1>4. r.is_read <=> read  BY DEF ArrayOp
<1>5. r.array  BY DEF ArrayOp
<1> QED BY <1>1, <1>2, <1>3, <1>4, <1>5

\* of a variable's,
LEMMA LRIs ==
  ASSUME NEW name, NEW offset, NEW vec \in BOOLEAN, NEW read \in BOOLEAN
  PROVE  LET r == LR(name, offset, vec, read)
         IN  r.name = name /\ r.offset = offset /\ (r.is_vector <=> vec) /\ (r.is_read <=> read) /\ ~r.array
<1> DEFINE r == LR(name, offset, vec, read)
<1>2. r.name = name /\ r.offset = offset  BY DEF LR
<1>3. r.is_vector <=> vec  BY DEF LR
<1>4. r.is_read <=> read  BY DEF LR
<1>5. ~r.array  BY DEF LR
<1> QED BY <1>2, <1>3, <1>4, <1>5

\* and of a load of a number.
LEMMA ConstIs ==
  ASSUME NEW reg, NEW val
  PROVE  Const(reg, val) = [engine |-> "load", op |-> "const", args |-> << reg >>, val |-> val]
BY DEF Const, LI

\* Words of a variable are its first word at least.
LEMMA LengthsOf ==
  ASSUME NEW conc \in Nat \ {0}, NEW ss, LaidOut(ss, conc), NEW name, HasVariable(ss, name)
  PROVE  /\ ss.var_meta[name].length \in {1, VLEN} /\ ss.var_meta[name].length \in Nat \ {0}
         /\ name \in STRING
<1>1. ss.var_meta[name] \in VariableMeta /\ name \in STRING  BY DEF LaidOut, ScratchSpaces, HasVariable
<1> QED BY <1>1, VectorLength DEF VariableMeta

\* The first word of a variable, and
LEMMA WordOver ==
  ASSUME NEW conc \in Nat \ {0}, NEW ss, LaidOut(ss, conc), NEW name, HasVariable(ss, name),
         NEW read \in BOOLEAN
  PROVE  LR(name, 0, FALSE, read) \in LogicalRegister /\ RegisterOver(LR(name, 0, FALSE, read), ss)
<1>1. name \in STRING /\ 0 < ss.var_meta[name].length  BY LengthsOf
<1> QED BY <1>1 DEF LR, LogicalRegister, RegisterOver

\* the whole of a vector, are registers over the layout.
LEMMA VectorOver ==
  ASSUME NEW ss, NEW name \in STRING, HasVariable(ss, name), ss.var_meta[name].length = VLEN,
         NEW read \in BOOLEAN
  PROVE  LR(name, 0, TRUE, read) \in LogicalRegister /\ RegisterOver(LR(name, 0, TRUE, read), ss)
BY DEF LR, LogicalRegister, RegisterOver

\* An instruction that is neither valu nor alu may have any registers.
LEMMA InstrOver ==
  ASSUME NEW ss, NEW engine \in {"load", "store", "flow"}, NEW op \in Opcodes, NEW val \in Int,
         NEW args \in Seq(LogicalRegister), \A k \in DOMAIN args : RegisterOver(args[k], ss)
  PROVE  [engine |-> engine, op |-> op, args |-> args, val |-> val] \in InstrsOver(ss)
<1>1. engine # "valu" /\ engine # "alu"  OBVIOUS
<1> QED BY <1>1 DEF InstrsOver, Instruction, ShapedAs

\* Numbers are loaded into the first word of any variable,
LEMMA ConstOver ==
  ASSUME NEW conc \in Nat \ {0}, NEW ss, LaidOut(ss, conc), NEW name, HasVariable(ss, name), NEW val \in Int
  PROVE  Const(Write(name), val) \in InstrsOver(ss)
<1>1. Write(name) \in LogicalRegister /\ RegisterOver(Write(name), ss)  BY WordOver DEF Write
<1>2. << Write(name) >> \in Seq(LogicalRegister)  BY <1>1
<1>3. Const(Write(name), val) = [engine |-> "load", op |-> "const", args |-> << Write(name) >>, val |-> val]
  BY DEF Const, LI
<1>4. "const" \in Opcodes  BY DEF Opcodes
<1>5. DOMAIN << Write(name) >> = {1} /\ << Write(name) >>[1] = Write(name)  OBVIOUS
<1>6. \A k \in DOMAIN << Write(name) >> : RegisterOver(<< Write(name) >>[k], ss)  BY <1>1, <1>5
<1> HIDE DEF Write
<1> QED BY <1>2, <1>3, <1>4, <1>6, InstrOver

\* and words are broadcast into vectors.
LEMMA BroadcastOver ==
  ASSUME NEW ss, NEW name \in STRING, HasVariable(ss, name), ss.var_meta[name].length = VLEN,
         NEW src \in LogicalRegister, RegisterOver(src, ss), src.is_read
  PROVE  Broadcast(WriteVec(name), src) \in InstrsOver(ss)
<1> DEFINE dest == WriteVec(name)
           args == << dest, src >>
<1>1. dest \in LogicalRegister /\ RegisterOver(dest, ss) /\ dest.is_vector /\ ~dest.is_read
  <2>1. dest.is_vector /\ ~dest.is_read  BY DEF WriteVec, LR
  <2> QED BY <2>1, VectorOver DEF WriteVec
<1> HIDE DEF dest
<1>2. /\ args \in Seq(LogicalRegister) /\ Len(args) = 2 /\ DOMAIN args = {1, 2}
      /\ args[1] = dest /\ args[2] = src
  BY <1>1
<1>3. Broadcast(dest, src) = [engine |-> "valu", op |-> "vbroadcast", args |-> args, val |-> 0]
  BY DEF Broadcast, LI
<1> HIDE DEF args
<1>4. "vbroadcast" \in Opcodes /\ 0 \in Int  BY DEF Opcodes
<1> DEFINE lin == Broadcast(dest, src)
<1>5. lin \in Instruction /\ lin.args = args /\ lin.engine = "valu" /\ lin.op = "vbroadcast"
  BY <1>2, <1>3, <1>4 DEF Instruction
<1> HIDE DEF lin
<1>6. DestinationFirst(args)  BY <1>1, <1>2 DEF DestinationFirst
<1>7. ShapedAs(lin, args)  BY <1>1, <1>2, <1>5, <1>6 DEF ShapedAs
<1> QED BY <1>1, <1>2, <1>5, <1>7 DEF InstrsOver, lin, dest

\* set_constant
LEMMA SetConstantOver ==
  ASSUME NEW conc \in Nat \ {0}, NEW ss, LaidOut(ss, conc),
         NEW src \in Int, HasVariable(ss, ConstantName(src, TRUE)), NEW val \in Int
  PROVE  SetConstant(src, val) \in Seq(InstrsOver(ss))
<1> DEFINE name == ConstantName(src, TRUE)
<1>1. name \in STRING /\ ss.var_meta[name].length = VLEN
  <2>1. TRUE \in BOOLEAN /\ Width(TRUE) = VLEN  BY DEF Width
  <2>2. ss.var_meta[name].length = VLEN  BY <2>1 DEF LaidOut
  <2> QED BY <2>2, LengthsOf
<1>2. HasVariable(ss, name)  OBVIOUS
<1>3. SetConstant(src, val) = << Const(Write(name), val), Broadcast(WriteVec(name), Read(name)) >>
  BY DEF SetConstant
<1> HIDE DEF name
<1>4. Const(Write(name), val) \in InstrsOver(ss)  BY <1>2, ConstOver
<1>5. Read(name) \in LogicalRegister /\ RegisterOver(Read(name), ss) /\ Read(name).is_read
  <2>1. Read(name) = LR(name, 0, FALSE, TRUE) /\ LR(name, 0, FALSE, TRUE).is_read  BY DEF Read, LR
  <2>2. TRUE \in BOOLEAN  OBVIOUS
  <2> QED BY <1>2, <2>1, <2>2, WordOver
<1>6. Broadcast(WriteVec(name), Read(name)) \in InstrsOver(ss)  BY <1>1, <1>2, <1>5, BroadcastOver
<1> QED BY <1>3, <1>4, <1>6

-----------------------------------------------------------------------------
(* tidxlen, all of its slots as one array *)

\* A word of the array, or VLEN of them, are registers of tidxlen.
LEMMA ArrayRegister ==
  ASSUME NEW conc \in Nat \ {0}, NEW ss, LaidOut(ss, conc), HasVariable(ss, "tidxlen"),
         NEW start \in Nat, NEW vec \in BOOLEAN, NEW read \in BOOLEAN,
         start + (IF vec THEN VLEN ELSE 1) <= conc, NEW slot
  PROVE  LET r == ArrayOp("tidxlen", start, vec, read)
             q == Resolved(ArrayOp("tidxlen", start, vec, read), ss, slot)
         IN  /\ r \in LogicalRegister /\ (r.is_vector <=> vec) /\ (r.is_read <=> read)
             /\ q \in Register /\ (q.vec <=> vec) /\ (q.read <=> read)
             /\ q.addr = ss.var_meta["tidxlen"].addr + start
             /\ InBlock(q, ss.var_meta["tidxlen"])
<1> DEFINE r == ArrayOp("tidxlen", start, vec, read)
           vm == ss.var_meta["tidxlen"]
           q == Resolved(r, ss, slot)
<1>2. vm \in VariableMeta /\ vm.length = 1 /\ vm.slots = conc
  BY DEF LaidOut, ScratchSpaces, HasVariable
<1>3. vm.addr \in Nat /\ vm.const \in Int /\ SizeOf(vm) = conc  BY <1>2 DEF VariableMeta, SizeOf
<1>4. AddrOf(vm, 0) = vm.addr
  BY <1>2, <1>3 DEF AddrOf
<1>8. /\ r \in LogicalRegister /\ (r.is_vector <=> vec) /\ (r.is_read <=> read)
      /\ r.name = "tidxlen" /\ r.offset = start /\ r.array
  <2>1. "tidxlen" \in STRING  BY LengthsOf
  <2> QED BY <2>1, ArrayOpIs
<1> HIDE DEF r
<1>5. q = [addr |-> AddrOf(vm, IF r.array THEN 0 ELSE slot) + r.offset,
           vec |-> r.is_vector, read |-> r.is_read, array |-> r.array, const |-> vm.const]
  BY <1>8 DEF Resolved, VarMetaOf
<1>9. r.is_vector \in BOOLEAN /\ r.is_read \in BOOLEAN /\ r.array \in BOOLEAN  BY <1>8 DEF LogicalRegister
<1> HIDE DEF vm, q
<1>6. q.addr = vm.addr + start /\ (q.vec <=> vec) /\ (q.read <=> read) /\ q \in Register
  BY <1>3, <1>4, <1>5, <1>8, <1>9 DEF Register
<1>7. InBlock(q, vm)
  <2>1. CASE vec
    <3>1. RegRange(q) = vm.addr + start .. vm.addr + start + VLEN - 1
      BY <1>3, <1>6, <2>1, VectorLength DEF RegRange
    <3> QED BY <1>3, <2>1, <3>1, VectorLength DEF InBlock
  <2>2. CASE ~vec
    <3>1. RegRange(q) = {vm.addr + start}  BY <1>3, <1>6, <2>2 DEF RegRange
    <3> QED BY <1>3, <2>2, <3>1 DEF InBlock
  <2> QED BY <2>1, <2>2
<1> QED BY <1>6, <1>7, <1>8 DEF r, q, vm

\* Its first words are loaded,
LEMMA ArrayConst ==
  ASSUME NEW conc \in Nat \ {0}, NEW ss, LaidOut(ss, conc), ss.scratch_ptr <= ScratchSize,
         HasVariable(ss, "tidxlen"), NEW start \in 0 .. conc - 1, NEW val \in Int, NEW slot
  PROVE  Const(ArrayOp("tidxlen", start, FALSE, FALSE), val) \in Resolvable(ss, slot)
<1> DEFINE r == ArrayOp("tidxlen", start, FALSE, FALSE)
           q == Resolved(r, ss, slot)
           lin == Const(r, val)
<1>1. r \in LogicalRegister /\ q \in Register /\ InBlock(q, ss.var_meta["tidxlen"])
  <2>1. start \in Nat /\ start + (IF FALSE THEN VLEN ELSE 1) <= conc /\ FALSE \in BOOLEAN  OBVIOUS
  <2> QED BY <2>1, ArrayRegister
<1>2. RegRange(q) \subseteq 0 .. ScratchSize - 1
  <2>1. "tidxlen" \in DOMAIN ss.var_meta  BY DEF HasVariable
  <2> HIDE DEF q
  <2> QED BY <1>1, <2>1, WithinScratch
<1>3. lin = [engine |-> "load", op |-> "const", args |-> << r >>, val |-> val]  BY ConstIs
<1> HIDE DEF r
<1>4. << r >> \in Seq(LogicalRegister) /\ DOMAIN << r >> = {1} /\ << r >>[1] = r  BY <1>1
<1>5. lin \in Instruction /\ lin.args = << r >> /\ lin.engine = "load"
  BY <1>3, <1>4 DEF Instruction, Opcodes
<1> HIDE DEF lin
<1>6. \A k \in DOMAIN lin.args : Resolved(lin.args[k], ss, slot) = q  BY <1>4, <1>5
<1> DEFINE res == ResolvedIn(lin, ss, slot)
<1>7. /\ res \in LogicalInstruction /\ res.engine = "load" /\ DOMAIN res.args = {1} /\ res.args[1] = q
  <2>1. \A k \in DOMAIN lin.args : Resolved(lin.args[k], ss, slot) \in Register  BY <1>1, <1>6
  <2> HIDE DEF q
  <2> QED BY <1>4, <1>5, <1>6, <2>1, ResolvedInstruction
<1> HIDE DEF res, q
<1>8. res \in SoundInstrs  BY <1>2, <1>7 DEF SoundInstrs
<1> QED BY <1>5, <1>8 DEF Resolvable, lin, r, res

\* and each further vector is that of VLEN words before and the borrowed constant.
LEMMA ArrayAdd ==
  ASSUME NEW names, NamesApart(names), "tidxlen" \in names,
         NEW conc \in Nat \ {0}, NEW ss, LaidOut(ss, conc), ss.scratch_ptr <= ScratchSize,
         HasVariable(ss, "tidxlen"), HasVariable(ss, ConstantName(2, TRUE)),
         NEW start \in Nat, VLEN <= start, start + VLEN <= conc, NEW slot \in 0 .. conc - 1
  PROVE  LI("valu", "+", << ArrayOp("tidxlen", start, TRUE, FALSE), ArrayOp("tidxlen", start - VLEN, TRUE, TRUE),
                            ReadVec(ConstantName(2, TRUE)) >>) \in Resolvable(ss, slot)
<1> DEFINE dest == ArrayOp("tidxlen", start, TRUE, FALSE)
           left == ArrayOp("tidxlen", start - VLEN, TRUE, TRUE)
           two == ReadVec(ConstantName(2, TRUE))
           d == Resolved(dest, ss, slot)
           l == Resolved(left, ss, slot)
           t == Resolved(two, ss, slot)
           args == << dest, left, two >>
           lin == LI("valu", "+", args)
           base == ss.var_meta["tidxlen"].addr
<1>0. TRUE \in BOOLEAN /\ FALSE \in BOOLEAN /\ VLEN \in Nat \ {0}  BY VectorLength
<1>1. dest \in LogicalRegister /\ d \in Register /\ d.vec /\ ~d.read
      /\ d.addr = base + start /\ InBlock(d, ss.var_meta["tidxlen"])
  <2>1. start + (IF TRUE THEN VLEN ELSE 1) <= conc  OBVIOUS
  <2> HIDE DEF dest, d
  <2>2. \A vec, read \in BOOLEAN :
          start + (IF vec THEN VLEN ELSE 1) <= conc =>
            LET r == ArrayOp("tidxlen", start, vec, read)
                q == Resolved(ArrayOp("tidxlen", start, vec, read), ss, slot)
            IN  /\ r \in LogicalRegister /\ q \in Register /\ (q.vec <=> vec) /\ (q.read <=> read)
                /\ q.addr = base + start /\ InBlock(q, ss.var_meta["tidxlen"])
    BY ArrayRegister
  <2> QED BY <1>0, <2>1, <2>2 DEF dest, d
<1>2. left \in LogicalRegister /\ l \in Register /\ l.vec /\ l.read
      /\ l.addr = base + (start - VLEN) /\ InBlock(l, ss.var_meta["tidxlen"])
  <2>1. PICK first : first = start - VLEN  OBVIOUS
  <2>2. first \in Nat /\ first + (IF TRUE THEN VLEN ELSE 1) <= conc  BY <1>0, <2>1
  <2>3. \A vec, read \in BOOLEAN :
          first + (IF vec THEN VLEN ELSE 1) <= conc =>
            LET r == ArrayOp("tidxlen", first, vec, read)
                q == Resolved(ArrayOp("tidxlen", first, vec, read), ss, slot)
            IN  /\ r \in LogicalRegister /\ q \in Register /\ (q.vec <=> vec) /\ (q.read <=> read)
                /\ q.addr = base + first /\ InBlock(q, ss.var_meta["tidxlen"])
    BY <2>2, ArrayRegister
  <2> QED BY <1>0, <2>1, <2>2, <2>3
<1>3. two \in LogicalRegister /\ t \in Register /\ t.vec /\ t.read
      /\ InBlock(t, ss.var_meta[ConstantName(2, TRUE)])
  <2>1. two = LR(ConstantName(2, TRUE), 0, TRUE, TRUE)  BY DEF ReadVec
  <2>2. ss.var_meta[ConstantName(2, TRUE)].length = VLEN
    <3>1. 2 \in Int /\ Width(TRUE) = VLEN  BY DEF Width
    <3> QED BY <1>0, <3>1 DEF LaidOut
  <2>3. ConstantName(2, TRUE) \in STRING  BY LengthsOf
  <2>4. two \in LogicalRegister /\ RegisterOver(two, ss)  BY <1>0, <2>1, <2>2, <2>3, VectorOver
  <2>5. two.name = ConstantName(2, TRUE) /\ two.is_vector /\ two.is_read
    <3>1. LET r == LR(ConstantName(2, TRUE), 0, TRUE, TRUE)
          IN  r.name = ConstantName(2, TRUE) /\ (r.is_vector <=> TRUE) /\ (r.is_read <=> TRUE)
      BY LRIs
    <3> HIDE DEF two
    <3> QED BY <2>1, <3>1
  <2> HIDE DEF two
  <2> QED BY <2>4, <2>5, ResolvedRegister
<1>4. "tidxlen" \in DOMAIN ss.var_meta /\ ConstantName(2, TRUE) \in DOMAIN ss.var_meta
      /\ ConstantName(2, TRUE) # "tidxlen"
  <2>1. 2 \in Int  OBVIOUS
  <2> QED BY <1>0, <2>1 DEF HasVariable, NamesApart
<1>5. lin = [engine |-> "valu", op |-> "+", args |-> args, val |-> 0]  BY DEF LI
<1>6. args \in Seq(LogicalRegister) /\ DOMAIN args = 1 .. 3 /\ Len(args) = 3
      /\ args[1] = dest /\ args[2] = left /\ args[3] = two
  <2> HIDE DEF dest, left, two
  <2> QED BY <1>1, <1>2, <1>3
<1> HIDE DEF args
<1>7. lin \in Instruction /\ lin.args = args /\ lin.engine = "valu" /\ lin.op = "+"
  <2>1. "+" \in Opcodes /\ 0 \in Int  BY DEF Opcodes
  <2> QED BY <1>5, <1>6, <2>1 DEF Instruction
<1> HIDE DEF lin
<1> DEFINE res == ResolvedIn(lin, ss, slot)
<1>8. /\ res \in LogicalInstruction /\ res.engine = "valu" /\ res.op = "+" /\ DOMAIN res.args = 1 .. 3
      /\ Len(res.args) = 3 /\ res.args[1] = d /\ res.args[2] = l /\ res.args[3] = t
  <2>1. \A k \in DOMAIN lin.args : k = 1 \/ k = 2 \/ k = 3  BY <1>6, <1>7
  <2>2. /\ Resolved(lin.args[1], ss, slot) = d /\ Resolved(lin.args[2], ss, slot) = l
        /\ Resolved(lin.args[3], ss, slot) = t
    BY <1>6, <1>7
  <2> HIDE DEF d, l, t
  <2>3. \A k \in DOMAIN lin.args : Resolved(lin.args[k], ss, slot) \in Register
    BY <1>1, <1>2, <1>3, <2>1, <2>2
  <2> QED BY <1>6, <1>7, <2>2, <2>3, ResolvedInstruction
<1> HIDE DEF res, d, l, t, base
<1>9. /\ RegRange(d) \subseteq 0 .. ScratchSize - 1 /\ RegRange(l) \subseteq 0 .. ScratchSize - 1
      /\ RegRange(t) \subseteq 0 .. ScratchSize - 1
  BY <1>1, <1>2, <1>3, <1>4, WithinScratch
<1>10. ~Overlaps(l, d)
  <2>1. d.addr \in Nat /\ l.addr \in Nat /\ d.addr = l.addr + VLEN
    <3>1. base \in Nat
      BY <1>4 DEF LaidOut, ScratchSpaces, VariableMeta, base
    <3> QED BY <1>0, <1>1, <1>2, <3>1
  <2>2. RegRange(l) = l.addr .. l.addr + VLEN - 1 /\ RegRange(d) = d.addr .. d.addr + VLEN - 1
    BY <1>0, <1>1, <1>2, <2>1 DEF RegRange
  <2> QED BY <1>0, <2>1, <2>2 DEF Overlaps
<1>11. ~Overlaps(t, d)
  <2>1. Apart(ss.var_meta["tidxlen"], ss.var_meta[ConstantName(2, TRUE)])  BY <1>4 DEF LaidOut
  <2>0. \A n \in DOMAIN ss.var_meta : ss.var_meta[n] \in VariableMeta  BY DEF LaidOut, ScratchSpaces
  <2>2. /\ ss.var_meta["tidxlen"] \in VariableMeta /\ ss.var_meta[ConstantName(2, TRUE)] \in VariableMeta
    BY <1>4, <2>0
  <2>3. /\ ss.var_meta["tidxlen"].addr \in Nat /\ SizeOf(ss.var_meta["tidxlen"]) \in Nat
        /\ ss.var_meta[ConstantName(2, TRUE)].addr \in Nat /\ SizeOf(ss.var_meta[ConstantName(2, TRUE)]) \in Nat
    BY <2>2, SizeType DEF VariableMeta
  <2>4. RegRange(t) \subseteq Int /\ RegRange(d) \subseteq Int  BY <1>1, <1>3 DEF RegRange, Register
  <2>5. ASSUME NEW loc \in RegRange(t), loc \in RegRange(d) PROVE FALSE
    <3>1. loc \in Int  BY <2>4, <2>5
    <3>2. /\ ss.var_meta["tidxlen"].addr <= loc
          /\ loc < ss.var_meta["tidxlen"].addr + SizeOf(ss.var_meta["tidxlen"])
      BY <1>1, <2>5 DEF InBlock
    <3>3. /\ ss.var_meta[ConstantName(2, TRUE)].addr <= loc
          /\ loc < ss.var_meta[ConstantName(2, TRUE)].addr + SizeOf(ss.var_meta[ConstantName(2, TRUE)])
      BY <1>3, <2>5 DEF InBlock
    <3>4. PICK a \in Nat : a = ss.var_meta["tidxlen"].addr  BY <2>3
    <3>5. PICK b \in Nat : b = ss.var_meta[ConstantName(2, TRUE)].addr  BY <2>3
    <3>6. PICK m \in Nat : m = SizeOf(ss.var_meta["tidxlen"])  BY <2>3
    <3>7. PICK n \in Nat : n = SizeOf(ss.var_meta[ConstantName(2, TRUE)])  BY <2>3
    <3>8. a + m <= b \/ b + n <= a  BY <2>1, <3>4, <3>5, <3>6, <3>7 DEF Apart
    <3>9. a <= loc /\ loc < a + m /\ b <= loc /\ loc < b + n  BY <3>2, <3>3, <3>4, <3>5, <3>6, <3>7
    <3> QED BY <3>1, <3>8, <3>9
  <2> QED BY <2>5 DEF Overlaps
<1>12. WritesFirst(res.args)  BY <1>1, <1>2, <1>3, <1>8 DEF WritesFirst
<1>13. VectorOperands("+", res.args)
  <2>1. \A k \in DOMAIN res.args :
          res.args[k].vec /\ (res.args[k].addr = res.args[1].addr \/ ~Overlaps(res.args[k], res.args[1]))
    BY <1>1, <1>2, <1>3, <1>8, <1>10, <1>11
  <2> QED BY <1>1, <1>8, <1>12, <2>1 DEF VectorOperands
<1>14. \A k \in DOMAIN res.args : RegRange(res.args[k]) \subseteq 0 .. ScratchSize - 1  BY <1>8, <1>9
<1>15. res \in SoundInstrs  BY <1>8, <1>13, <1>14 DEF SoundInstrs
<1> QED BY <1>7, <1>15 DEF Resolvable, lin, args, res

\* Every vector of tidxlen but the first lies within it, VLEN words behind its start at least.
LEMMA ChainWithin ==
  ASSUME NEW conc \in Nat, conc > 2 * VLEN
  PROVE  /\ ChainStarts(conc) = [k \in DOMAIN ChainStarts(conc) |-> ChainStarts(conc)[k]]
         /\ \E n \in Nat : DOMAIN ChainStarts(conc) = 1 .. n
         /\ \A k \in DOMAIN ChainStarts(conc) :
              LET start == ChainStarts(conc)[k] IN start \in Nat /\ VLEN <= start /\ start + VLEN <= conc
<1>0. VLEN \in Nat \ {0}  BY VectorLength
<1>1. (conc - 1) \div VLEN \in Nat
  <2>1. conc - 1 \in Nat  BY <1>0
  <2> QED BY <1>0, <2>1, DivMod
<1>2. ASSUME NEW k \in 1 .. (conc - 1) \div VLEN
      PROVE  LET start == IF k * VLEN + VLEN - 1 < conc THEN k * VLEN ELSE conc - VLEN
             IN  start \in Nat /\ VLEN <= start /\ start + VLEN <= conc
  <2>1. k * VLEN \in Nat /\ VLEN <= k * VLEN
    <3>1. PICK j \in Nat : k = j + 1
      <4>1. k - 1 \in Nat  BY <1>1
      <4> QED BY <1>1, <4>1
    <3>2. k * VLEN = j * VLEN + VLEN  BY <1>0, <3>1
    <3>3. \A a, b \in Nat : a * b \in Nat  OBVIOUS
    <3>4. j * VLEN \in Nat  BY <1>0, <3>3
    <3> QED BY <1>0, <3>2, <3>4
  <2>2. CASE k * VLEN + VLEN - 1 < conc  BY <1>0, <2>1, <2>2
  <2>3. CASE ~(k * VLEN + VLEN - 1 < conc)  BY <1>0, <2>3
  <2> QED BY <2>2, <2>3
<1>3. DOMAIN ChainStarts(conc) = 1 .. (conc - 1) \div VLEN  BY DEF ChainStarts
<1>4. \A k \in DOMAIN ChainStarts(conc) :
        ChainStarts(conc)[k] = IF k * VLEN + VLEN - 1 < conc THEN k * VLEN ELSE conc - VLEN
  BY DEF ChainStarts
<1>5. ChainStarts(conc) = [k \in DOMAIN ChainStarts(conc) |-> ChainStarts(conc)[k]]  BY DEF ChainStarts
<1> QED BY <1>1, <1>2, <1>3, <1>4, <1>5

\* What get_tidmetas has the global program do,
LEMMA TidGlobalsSound ==
  ASSUME NEW names, NamesApart(names), "tidxlen" \in names,
         NEW conc \in Nat \ {0}, NEW ss, LaidOut(ss, conc), ss.scratch_ptr <= ScratchSize,
         Chained(ss, conc) => HasVariable(ss, ConstantName(2, TRUE)), NEW slot \in 0 .. conc - 1
  PROVE  TidGlobals(ss, conc) \in Seq(Resolvable(ss, slot))
<1> DEFINE S == Resolvable(ss, slot)
<1>1. CASE ~Chained(ss, conc)
  <2>1. TidGlobals(ss, conc) = << >>  BY <1>1 DEF TidGlobals
  <2> QED BY <2>1
<1>2. CASE Chained(ss, conc)
  <2> DEFINE starts == ChainStarts(conc)
             add(start) == LI("valu", "+", << ArrayOp("tidxlen", start, TRUE, FALSE),
                                              ArrayOp("tidxlen", start - VLEN, TRUE, TRUE),
                                              ReadVec(ConstantName(2, TRUE)) >>)
             first(i) == Const(ArrayOp("tidxlen", i - 1, FALSE, FALSE), (i - 1) * VLEN)
             before == SetConstant(2, VLEN * VLEN)
             words == [i \in 1 .. VLEN |-> first(i)]
             vectors == [i \in DOMAIN starts |-> add(starts[i])]
             after == SetConstant(2, 2)
  <2>1. TidGlobals(ss, conc) = before \o words \o vectors \o after  BY <1>2 DEF TidGlobals
  <2>2. HasVariable(ss, "tidxlen") /\ conc > 2 * VLEN /\ HasVariable(ss, ConstantName(2, TRUE))
    BY <1>2 DEF Chained
  <2>3. VLEN \in Nat \ {0} /\ InstrsOver(ss) \subseteq S  BY VectorLength, ResolvesSoundly
  <2>4. before \in Seq(S) /\ after \in Seq(S)
    <3>1. VLEN * VLEN \in Int /\ 2 \in Int  BY <2>3
    <3>2. before \in Seq(InstrsOver(ss)) /\ after \in Seq(InstrsOver(ss))  BY <2>2, <3>1, SetConstantOver
    <3> HIDE DEF before, after, S
    <3> QED BY <2>3, <3>2
  <2>5. \A i \in 1 .. VLEN : first(i) \in S
    <3>1. TAKE i \in 1 .. VLEN
    <3>2. i - 1 \in 0 .. conc - 1 /\ (i - 1) * VLEN \in Int  BY <2>2, <2>3
    <3> QED BY <2>2, <3>2, ArrayConst
  <2>6. \A i \in DOMAIN starts : add(starts[i]) \in S
    <3>1. TAKE i \in DOMAIN starts
    <3>2. PICK start : start = starts[i]  OBVIOUS
    <3>3. start \in Nat /\ VLEN <= start /\ start + VLEN <= conc  BY <2>2, <3>2, ChainWithin
    <3>4. add(start) \in S  BY <2>2, <3>3, ArrayAdd
    <3> QED BY <3>2, <3>4
  <2>7. PICK n \in Nat : DOMAIN starts = 1 .. n  BY <2>2, ChainWithin
  <2> HIDE DEF first, add, starts, S, before, after
  <2>8. words \in Seq(S)
    <3>1. words \in [1 .. VLEN -> S]  BY <2>5
    <3> HIDE DEF words
    <3> QED BY <2>3, <3>1
  <2>9. vectors \in Seq(S)
    <3>1. vectors \in [1 .. n -> S]  BY <2>6, <2>7
    <3> HIDE DEF vectors
    <3> QED BY <3>1
  <2> HIDE DEF words, vectors
  <2> QED BY <2>1, <2>4, <2>8, <2>9 DEF S
<1> QED BY <1>1, <1>2

\* and what it has each thread do.
LEMMA TidLocalsSound ==
  ASSUME NEW conc \in Nat \ {0}, NEW ss, LaidOut(ss, conc), NEW tid \in Int
  PROVE  TidLocals(ss, conc, tid) \in Seq(InstrsOver(ss))
<1>1. CASE HasVariable(ss, "tidxlen") /\ (~Chained(ss, conc) \/ tid >= conc)
  <2>1. TidLocals(ss, conc, tid) = << Const(Write("tidxlen"), tid * VLEN) >>  BY <1>1 DEF TidLocals
  <2>2. tid * VLEN \in Int  BY VectorLength
  <2>3. Const(Write("tidxlen"), tid * VLEN) \in InstrsOver(ss)  BY <1>1, <2>2, ConstOver
  <2> QED BY <2>1, <2>3
<1>2. CASE ~(HasVariable(ss, "tidxlen") /\ (~Chained(ss, conc) \/ tid >= conc))
  <2>1. TidLocals(ss, conc, tid) = << >>  BY <1>2 DEF TidLocals
  <2> QED BY <2>1
<1> QED BY <1>1, <1>2

-----------------------------------------------------------------------------
(* Program order *)

\* Sequences one after the other, so far.
Joins(f, seqs) == f[0] = << >> /\ \A k \in DOMAIN seqs : f[k] = f[k - 1] \o seqs[k]

\* FlattenSeq is what they are in the end.
LEMMA FlattenJoins ==
  ASSUME NEW S, NEW seqs \in Seq(Seq(S))
  PROVE  \E f \in [0 .. Len(seqs) -> Seq(S)] : Joins(f, seqs) /\ FlattenSeq(seqs) = f[Len(seqs)]
<1> DEFINE n == Len(seqs)
           step == [p \in Nat \X Seq(S) |-> IF p[1] \in 1 .. n THEN p[2] \o seqs[p[1]] ELSE p[2]]
<1>1. n \in Nat /\ DOMAIN seqs = 1 .. n /\ \A k \in 1 .. n : seqs[k] \in Seq(S)  OBVIOUS
<1> HIDE DEF n
<1>2. \A k \in Nat, v \in Seq(S) : step[<<k, v>>] = IF k \in 1 .. n THEN v \o seqs[k] ELSE v  OBVIOUS
<1>3. StaysIn(Seq(S), step)
  <2>1. \A k \in Nat, v \in Seq(S) : (IF k \in 1 .. n THEN v \o seqs[k] ELSE v) \in Seq(S)  BY <1>1
  <2> QED BY <1>2, <2>1 DEF StaysIn
<1>4. << >> \in Seq(S)  OBVIOUS
<1> HIDE DEF step
<1>5. PICK f \in [0 .. n -> Seq(S)] : Repeats(f, << >>, step, n)  BY <1>1, <1>3, <1>4, NumberedIteration
<1>6. f[0] = << >> /\ \A k \in 1 .. n : f[k] = f[k - 1] \o seqs[k]
  <2>1. \A k \in 1 .. n : k - 1 \in 0 .. n /\ k \in Nat  BY <1>1
  <2>2. \A k \in 1 .. n : f[k - 1] \in Seq(S)  BY <2>1
  <2> QED BY <1>2, <1>5, <2>1, <2>2 DEF Repeats
<1>7. CASE n = 0
  <2>1. FlattenSeq(seqs) = seqs /\ seqs = << >>  BY <1>7 DEF FlattenSeq, n
  <2> QED BY <1>1, <1>6, <1>7, <2>1 DEF n, Joins
<1>8. CASE n # 0
  <2> DEFINE is(g) == g = [i \in 1 .. n |-> IF i = 1 THEN seqs[i] ELSE g[i - 1] \o seqs[i]]
             joined == [i \in 1 .. n |-> f[i]]
             flatten == CHOOSE g : is(g)
  <2>1. is(joined)
    <3>1. ASSUME NEW i \in 1 .. n PROVE f[i] = IF i = 1 THEN seqs[i] ELSE joined[i - 1] \o seqs[i]
      <4>1. CASE i = 1
        <5>0. 1 \in 1 .. n /\ 1 - 1 = 0  BY <4>1
        <5>1. f[1] = f[0] \o seqs[1] /\ seqs[1] \in Seq(S)  BY <1>1, <1>6, <5>0
        <5>2. f[1] = seqs[1]  BY <1>6, <5>1
        <5> QED BY <4>1, <5>2
      <4>2. CASE i # 1
        <5>1. i - 1 \in 1 .. n  BY <1>1, <4>2
        <5> QED BY <1>6, <4>2, <5>1
      <4> QED BY <4>1, <4>2
    <3> QED BY <3>1
  <2>2. is(flatten)
    <3> HIDE DEF is, joined
    <3> QED BY <2>1
  <2>3. FlattenSeq(seqs) = flatten[n]  BY <1>8 DEF FlattenSeq, n
  <2> HIDE DEF flatten
  <2> DEFINE P == {k \in Nat : k \in 1 .. n => flatten[k] = f[k]}
  <2>4. 0 \in P  OBVIOUS
  <2>5. ASSUME NEW k \in Nat, k \in P PROVE k + 1 \in P
    <3> SUFFICES ASSUME k + 1 \in 1 .. n PROVE flatten[k + 1] = f[k + 1]  OBVIOUS
    <3>1. flatten[k + 1] = IF k + 1 = 1 THEN seqs[k + 1] ELSE flatten[k] \o seqs[k + 1]
      <4>1. (k + 1) - 1 = k  OBVIOUS
      <4> QED BY <2>2, <4>1
    <3>2. f[k + 1] = IF k + 1 = 1 THEN seqs[k + 1] ELSE f[k] \o seqs[k + 1]
      <4>1. joined[k + 1] = IF k + 1 = 1 THEN seqs[k + 1] ELSE joined[(k + 1) - 1] \o seqs[k + 1]  BY <2>1
      <4>2. (k + 1) - 1 = k /\ (k + 1 # 1 => k \in 1 .. n)  BY <1>1
      <4> QED BY <4>1, <4>2
    <3>3. CASE k = 0  BY <3>1, <3>2, <3>3
    <3>4. CASE k # 0
      <4>1. flatten[k] = f[k]  BY <1>1, <2>5, <3>4
      <4> QED BY <3>1, <3>2, <4>1
    <3> QED BY <3>3, <3>4
  <2> HIDE DEF P
  <2>6. Nat \subseteq P  BY <2>4, <2>5, Induction
  <2>7. flatten[n] = f[n]  BY <1>1, <1>8, <2>6 DEF P
  <2> QED BY <1>1, <1>6, <2>3, <2>7 DEF n, Joins
<1> QED BY <1>7, <1>8

\* What is in one of the sequences is in all of them together.
LEMMA FlattenHolds ==
  ASSUME NEW S, NEW seqs \in Seq(Seq(S))
  PROVE  /\ FlattenSeq(seqs) \in Seq(S)
         /\ (\E k \in DOMAIN seqs : seqs[k] # << >>) => FlattenSeq(seqs) # << >>
<1>1. PICK f \in [0 .. Len(seqs) -> Seq(S)] : Joins(f, seqs) /\ FlattenSeq(seqs) = f[Len(seqs)]
  BY FlattenJoins
<1> DEFINE n == Len(seqs)
<1>2. n \in Nat /\ DOMAIN seqs = 1 .. n /\ \A k \in 1 .. n : seqs[k] \in Seq(S)  OBVIOUS
<1>3. \A k \in 1 .. n : f[k] = f[k - 1] \o seqs[k]  BY <1>1, <1>2 DEF Joins
<1> HIDE DEF n
<1>4. FlattenSeq(seqs) \in Seq(S)  BY <1>1, <1>2 DEF n
<1>5. ASSUME NEW i \in DOMAIN seqs, seqs[i] # << >> PROVE FlattenSeq(seqs) # << >>
  <2> DEFINE P == {k \in Nat : i <= k /\ k <= n => f[k] # << >>}
  <2>1. 0 \in P  BY <1>2
  <2>2. ASSUME NEW k \in Nat, k \in P PROVE k + 1 \in P
    <3> SUFFICES ASSUME i <= k + 1, k + 1 <= n PROVE f[k + 1] # << >>  OBVIOUS
    <3>1. k + 1 \in 1 .. n /\ k \in 0 .. n /\ (k + 1) - 1 = k  BY <1>2
    <3>2. f[k] \in Seq(S) /\ seqs[k + 1] \in Seq(S)  BY <1>1, <1>2, <3>1 DEF n
    <3>3. f[k + 1] = f[k] \o seqs[k + 1]  BY <1>3, <3>1
    <3>5. CASE i <= k
      <4>1. f[k] # << >>  BY <2>2, <3>1, <3>5
      <4> QED BY <3>2, <3>3, <4>1, JoinsNothing
    <3>6. CASE ~(i <= k)
      <4>1. i = k + 1  BY <1>2, <3>6
      <4>2. seqs[k + 1] # << >>  BY <1>5, <4>1
      <4> QED BY <3>2, <3>3, <4>2, JoinsNothing
    <3> QED BY <3>5, <3>6
  <2> HIDE DEF P
  <2>3. Nat \subseteq P  BY <2>1, <2>2, Induction
  <2>4. f[n] # << >>  BY <1>2, <2>3 DEF P
  <2> QED BY <1>1, <2>4 DEF n
<1> QED BY <1>4, <1>5

\* What the statements of a program have been compiled to.
ThreadInstrs(ss) == [lin : InstrsOver(ss), tids : SUBSET Int]
Compiled(ir, conc) ==
  /\ LaidOut(ir.ss, conc) /\ ~ir.ss.duplicate
  /\ ir.globals \in Seq(InstrsOver(ir.ss)) /\ ir.locals \in Seq(ThreadInstrs(ir.ss))

\* It fits into the scratch, and every thread has something to do.
Assembles(ir, num_threads, conc) ==
  /\ FinalScratch(ir, conc).scratch_ptr <= ScratchSize
  /\ \A tid \in 0 .. num_threads - 1 : \E i \in DOMAIN ir.locals : tid \in ir.locals[i].tids

Sound(tids) == [tid : tids, lin : SoundInstrs]
Ordered(s) == \A m, n \in DOMAIN s : m < n => s[m].tid <= s[n].tid

\* A thread resolves its instructions into its slot.
LEMMA OwnedSound ==
  ASSUME NEW tid \in Int, NEW conc \in Nat \ {0}, NEW ss,
         NEW lins \in Seq(Resolvable(ss, WorkSlotOf(tid, conc)))
  PROVE  /\ Owned(tid, lins, ss, conc) \in Seq(Sound({tid}))
         /\ lins # << >> => Owned(tid, lins, ss, conc) # << >>
<1> DEFINE slot == WorkSlotOf(tid, conc)
           meta(i) == [tid |-> tid, lin |-> ResolvedIn(lins[i], ss, slot)]
           owned == [i \in DOMAIN lins |-> meta(i)]
<1>1. Owned(tid, lins, ss, conc) = owned  BY DEF Owned, ResolvedIn
<1>2. PICK n \in Nat : DOMAIN lins = 1 .. n /\ Len(lins) = n  OBVIOUS
<1>3. \A i \in 1 .. n : lins[i] \in Resolvable(ss, slot)  BY <1>2
<1>4. \A i \in 1 .. n : meta(i) \in Sound({tid})  BY <1>3 DEF Resolvable, Sound
<1> HIDE DEF meta, slot
<1>5. owned \in [1 .. n -> Sound({tid})]  BY <1>2, <1>4
<1> HIDE DEF owned
<1>6. owned \in Seq(Sound({tid})) /\ Len(owned) = n  BY <1>2, <1>5, SequenceOver
<1>7. lins # << >> => n # 0  BY <1>2
<1>8. owned # << >> \/ n = 0
  <2>1. Len(owned) = n  BY <1>6
  <2> QED BY <2>1
<1> QED BY <1>1, <1>6, <1>7, <1>8

\* The instructions of one thread.
LEMMA LocalsSound ==
  ASSUME NEW ir, NEW conc, Compiled(ir, conc), NEW tid
  PROVE  /\ LocalsOf(ir, tid) \in Seq(InstrsOver(ir.ss))
         /\ (\E i \in DOMAIN ir.locals : tid \in ir.locals[i].tids) => LocalsOf(ir, tid) # << >>
<1> DEFINE S == InstrsOver(ir.ss)
           own(i) == IF tid \in ir.locals[i].tids THEN << ir.locals[i].lin >> ELSE << >>
           seqs == [i \in DOMAIN ir.locals |-> own(i)]
<1>1. LocalsOf(ir, tid) = FlattenSeq(seqs)  BY DEF LocalsOf
<1>2. ir.locals \in Seq(ThreadInstrs(ir.ss))  BY DEF Compiled
<1>3. PICK n \in Nat : DOMAIN ir.locals = 1 .. n  BY <1>2
<1>4. \A i \in 1 .. n : ir.locals[i].lin \in S
  <2>1. \A i \in 1 .. n : ir.locals[i] \in ThreadInstrs(ir.ss)  BY <1>2, <1>3
  <2> QED BY <2>1 DEF ThreadInstrs
<1>5. \A i \in 1 .. n : own(i) \in Seq(S)
  <2> HIDE DEF S
  <2> QED BY <1>4
<1>6. \A i \in 1 .. n : tid \in ir.locals[i].tids => own(i) # << >>  OBVIOUS
<1> HIDE DEF S, own
<1>7. seqs \in Seq(Seq(S)) /\ DOMAIN seqs = 1 .. n /\ \A i \in 1 .. n : seqs[i] = own(i)
  <2>1. seqs \in [1 .. n -> Seq(S)] /\ \A i \in 1 .. n : seqs[i] = own(i)  BY <1>3, <1>5
  <2> HIDE DEF seqs
  <2> QED BY <2>1
<1> HIDE DEF seqs
<1> QED BY <1>1, <1>3, <1>6, <1>7, FlattenHolds DEF S

\* Threads in order, and then later ones, are in order.
LEMMA OrderedJoin ==
  ASSUME NEW M, NEW s \in Seq(M), NEW t \in Seq(M), \A x \in M : x.tid \in Int, Ordered(s), Ordered(t),
         \A m \in DOMAIN s, n \in DOMAIN t : s[m].tid <= t[n].tid
  PROVE  Ordered(s \o t)
<1>1. PICK k \in Nat, l \in Nat : /\ DOMAIN s = 1 .. k /\ DOMAIN t = 1 .. l /\ DOMAIN (s \o t) = 1 .. k + l
                                  /\ \A i \in 1 .. k : (s \o t)[i] = s[i]
                                  /\ \A i \in k + 1 .. k + l : (s \o t)[i] = t[i - k]
  OBVIOUS
<1>2. \A m, n \in 1 .. k : m < n => s[m].tid <= s[n].tid  BY <1>1 DEF Ordered
<1>3. \A m, n \in 1 .. l : m < n => t[m].tid <= t[n].tid  BY <1>1 DEF Ordered
<1>4. \A m \in 1 .. k, n \in 1 .. l : s[m].tid <= t[n].tid  BY <1>1
<1> DEFINE u == s \o t
<1> HIDE DEF u
<1>5. SUFFICES ASSUME NEW m \in 1 .. k + l, NEW n \in 1 .. k + l, m < n PROVE u[m].tid <= u[n].tid
  BY <1>1 DEF Ordered, u
<1>6. (\A i \in 1 .. k : u[i] = s[i]) /\ \A i \in k + 1 .. k + l : u[i] = t[i - k]  BY <1>1 DEF u
<1>7. CASE n <= k
  <2>1. m \in 1 .. k /\ n \in 1 .. k  BY <1>5, <1>7
  <2> QED BY <1>2, <1>5, <1>6, <2>1
<1>8. CASE m <= k /\ k < n
  <2>1. m \in 1 .. k /\ n \in k + 1 .. k + l /\ n - k \in 1 .. l  BY <1>5, <1>8
  <2> QED BY <1>4, <1>6, <2>1
<1>9. CASE k < m
  <2>1. m \in k + 1 .. k + l /\ n \in k + 1 .. k + l /\ m - k \in 1 .. l /\ n - k \in 1 .. l /\ m - k < n - k
    BY <1>5, <1>9
  <2> QED BY <1>3, <1>6, <2>1
<1> QED BY <1>5, <1>7, <1>8, <1>9

\* The instructions of some threads, in the order of their numbers, for each of them.
InThreadOrder(s, first, last) ==
  /\ s \in Seq(Sound(first .. last)) /\ Ordered(s)
  /\ \A t \in first .. last : t >= 0 => \E m \in DOMAIN s : s[m].tid = t

\* One more thread goes behind them.
LEMMA OneMoreThread ==
  ASSUME NEW first \in Int, NEW last \in Int, first <= last + 1, NEW s, InThreadOrder(s, first, last),
         NEW t \in Seq(Sound({last + 1})), t # << >>
  PROVE  InThreadOrder(s \o t, first, last + 1)
<1> DEFINE M == Sound(first .. last + 1)
           N == Sound(first .. last)
           O == Sound({last + 1})
           u == s \o t
<1>1. N \subseteq M /\ O \subseteq M  BY DEF Sound
<1>2. (\A x \in N : x.tid \in first .. last) /\ (\A x \in O : x.tid = last + 1) /\ \A x \in M : x.tid \in Int
  BY DEF Sound
<1>3. s \in Seq(N) /\ t \in Seq(O)  BY DEF InThreadOrder
<1> HIDE DEF M, N, O
<1>4. s \in Seq(M) /\ t \in Seq(M)  BY <1>1, <1>3
<1>5. PICK k \in Nat, l \in Nat :
        /\ DOMAIN s = 1 .. k /\ DOMAIN t = 1 .. l /\ DOMAIN u = 1 .. k + l
        /\ u \in Seq(M)
        /\ \A i \in 1 .. k : u[i] = s[i]
        /\ \A i \in k + 1 .. k + l : u[i] = t[i - k]
  <2>1. u \in Seq(M)  BY <1>4, ElementsJoined
  <2> QED BY <1>4, <2>1, ElementsJoined
<1>6. \A i \in 1 .. k : s[i].tid \in first .. last  BY <1>2, <1>3, <1>5
<1>7. \A i \in 1 .. l : t[i].tid = last + 1  BY <1>2, <1>3, <1>5
<1>8. l # 0  BY <1>3, <1>5
<1>9. Ordered(u)
  <2>1. Ordered(t)  BY <1>5, <1>7 DEF Ordered
  <2>2. \A m \in DOMAIN s, n \in DOMAIN t : s[m].tid <= t[n].tid  BY <1>5, <1>6, <1>7
  <2>3. Ordered(s)  BY DEF InThreadOrder
  <2> QED BY <1>2, <1>4, <2>1, <2>2, <2>3, OrderedJoin
<1> HIDE DEF u
<1>10. ASSUME NEW i \in first .. last + 1, i >= 0 PROVE \E m \in DOMAIN u : u[m].tid = i
  <2>1. CASE i = last + 1
    <3>1. k + 1 \in k + 1 .. k + l /\ k + 1 \in 1 .. k + l /\ (k + 1) - k = 1 /\ 1 \in 1 .. l  BY <1>8
    <3>2. u[k + 1] = t[1]  BY <1>5, <3>1
    <3> QED BY <1>5, <1>7, <2>1, <3>1, <3>2
  <2>2. CASE i # last + 1
    <3>1. i \in first .. last  BY <2>2
    <3>2. PICK m \in 1 .. k : s[m].tid = i  BY <1>5, <1>10, <3>1 DEF InThreadOrder
    <3>3. m \in 1 .. k + l /\ u[m] = s[m]  BY <1>5
    <3> QED BY <1>5, <3>2, <3>3
  <2> QED BY <2>1, <2>2
<1> QED BY <1>5, <1>9, <1>10 DEF InThreadOrder, M, u

\* Thread by thread they are in order.
LEMMA ThreadByThread ==
  ASSUME NEW n \in Nat, NEW seqs, seqs = [t \in 1 .. n |-> seqs[t]],
         \A t \in 1 .. n : seqs[t] \in Seq(Sound({t - 1})) /\ seqs[t] # << >>
  PROVE  InThreadOrder(FlattenSeq(seqs), 0, n - 1)
<1> DEFINE M == Sound(0 .. n - 1)
<1>1. seqs \in Seq(Seq(M)) /\ Len(seqs) = n /\ DOMAIN seqs = 1 .. n
  <2>1. ASSUME NEW t \in 1 .. n PROVE seqs[t] \in Seq(M)
    <3>1. Sound({t - 1}) \subseteq M  BY DEF Sound
    <3>2. seqs[t] \in Seq(Sound({t - 1}))  OBVIOUS
    <3> HIDE DEF M
    <3> QED BY <3>1, <3>2
  <2>2. seqs \in [1 .. n -> Seq(M)]  BY <2>1
  <2> HIDE DEF M
  <2> QED BY <2>2, SequenceOver
<1> HIDE DEF M
<1>2. PICK f \in [0 .. n -> Seq(M)] : Joins(f, seqs) /\ FlattenSeq(seqs) = f[n]  BY <1>1, FlattenJoins
<1> DEFINE P == {k \in Nat : k <= n => InThreadOrder(f[k], 0, k - 1)}
<1>3. 0 \in P
  <2>1. f[0] = << >>  BY <1>2 DEF Joins
  <2>2. InThreadOrder(<< >>, 0, 0 - 1)  BY DEF InThreadOrder, Ordered
  <2> QED BY <2>1, <2>2
<1>4. ASSUME NEW k \in Nat, k \in P PROVE k + 1 \in P
  <2> SUFFICES ASSUME k + 1 <= n PROVE InThreadOrder(f[k + 1], 0, (k + 1) - 1)  OBVIOUS
  <2>1. k + 1 \in 1 .. n /\ (k + 1) - 1 = k /\ (k - 1) + 1 = k /\ k - 1 \in Int /\ k <= n /\ 0 <= (k - 1) + 1  OBVIOUS
  <2>2. f[k + 1] = f[k] \o seqs[k + 1]  BY <1>1, <1>2, <2>1 DEF Joins
  <2>3. InThreadOrder(f[k], 0, k - 1)  BY <1>4, <2>1
  <2>4. seqs[k + 1] \in Seq(Sound({(k - 1) + 1})) /\ seqs[k + 1] # << >>  BY <2>1
  <2>5. InThreadOrder(f[k] \o seqs[k + 1], 0, (k - 1) + 1)
    <3>1. PICK last \in Int : last = k - 1  BY <2>1
    <3>2. PICK t : t = seqs[k + 1]  OBVIOUS
    <3>3. /\ 0 \in Int /\ 0 <= last + 1 /\ InThreadOrder(f[k], 0, last)
          /\ t \in Seq(Sound({last + 1})) /\ t # << >>
      BY <2>1, <2>3, <2>4, <3>1, <3>2
    <3>4. InThreadOrder(f[k] \o t, 0, last + 1)  BY <3>3, OneMoreThread
    <3> QED BY <3>1, <3>2, <3>4
  <2> QED BY <2>1, <2>2, <2>5
<1> HIDE DEF P
<1>5. Nat \subseteq P  BY <1>3, <1>4, Induction
<1> QED BY <1>2, <1>5 DEF P

\* The global program comes before.
LEMMA GlobalFirst ==
  ASSUME NEW n \in Nat, NEW g \in Seq(Sound({-1})), NEW s, InThreadOrder(s, 0, n - 1)
  PROVE  InThreadOrder(g \o s, -1, n - 1)
<1> DEFINE M == Sound(-1 .. n - 1)
           N == Sound(0 .. n - 1)
           O == Sound({-1})
           u == g \o s
<1>1. N \subseteq M /\ O \subseteq M  BY DEF Sound
<1>2. (\A x \in N : x.tid \in 0 .. n - 1) /\ (\A x \in O : x.tid = -1) /\ \A x \in M : x.tid \in Int  BY DEF Sound
<1>3. s \in Seq(N) /\ g \in Seq(O)  BY DEF InThreadOrder
<1> HIDE DEF M, N, O
<1>4. s \in Seq(M) /\ g \in Seq(M)  BY <1>1, <1>3
<1> DEFINE k == Len(g)
           l == Len(s)
<1>5. /\ k \in Nat /\ l \in Nat /\ DOMAIN g = 1 .. k /\ DOMAIN s = 1 .. l /\ DOMAIN u = 1 .. k + l
      /\ u \in Seq(M)
      /\ \A i \in 1 .. k : u[i] = g[i]
      /\ \A i \in k + 1 .. k + l : u[i] = s[i - k]
  BY <1>4, ElementsJoined
<1> HIDE DEF k, l
<1>6. \A i \in 1 .. l : s[i].tid \in 0 .. n - 1  BY <1>2, <1>3, <1>5
<1>7. \A i \in 1 .. k : g[i].tid = -1  BY <1>2, <1>3, <1>5
<1>9. Ordered(u)
  <2>1. Ordered(g)  BY <1>5, <1>7 DEF Ordered
  <2>2. \A i \in DOMAIN g, m \in DOMAIN s : g[i].tid <= s[m].tid  BY <1>5, <1>6, <1>7
  <2>3. Ordered(s)  BY DEF InThreadOrder
  <2> QED BY <1>2, <1>4, <2>1, <2>2, <2>3, OrderedJoin
<1> HIDE DEF u
<1>10. ASSUME NEW i \in -1 .. n - 1, i >= 0 PROVE \E m \in DOMAIN u : u[m].tid = i
  <2>1. i \in 0 .. n - 1  BY <1>10
  <2>2. PICK m \in 1 .. l : s[m].tid = i  BY <1>5, <1>10, <2>1 DEF InThreadOrder
  <2>3. m + k \in k + 1 .. k + l /\ m + k \in 1 .. k + l /\ (m + k) - k = m  BY <1>5
  <2> QED BY <1>5, <2>2, <2>3
<1> QED BY <1>5, <1>9, <1>10 DEF InThreadOrder, M, u

\* What a thread starts with and what it does are its own.
LEMMA ThreadSound ==
  ASSUME NEW tid \in Int, NEW conc \in Nat \ {0}, NEW ss, NEW O, O \subseteq Resolvable(ss, WorkSlotOf(tid, conc)),
         NEW N, N \subseteq O, NEW s \in Seq(O), NEW t \in Seq(N), t # << >>
  PROVE  /\ Owned(tid, s \o t, ss, conc) \in Seq(Sound({tid}))
         /\ Owned(tid, s \o t, ss, conc) # << >>
<1> DEFINE R == Resolvable(ss, WorkSlotOf(tid, conc))
<1> HIDE DEF R
<1>1. s \in Seq(R) /\ t \in Seq(R)  BY DEF R
<1>2. PICK lins : lins = s \o t  OBVIOUS
<1>6. lins \in Seq(R)  BY <1>1, <1>2, ConcatProperties
<1>3. lins # << >>  BY <1>1, <1>2, JoinsNothing
<1>4. Owned(tid, lins, ss, conc) \in Seq(Sound({tid}))  BY <1>6, OwnedSound DEF R
<1>5. lins # << >> => Owned(tid, lins, ss, conc) # << >>  BY <1>6, OwnedSound DEF R
<1> QED BY <1>2, <1>3, <1>4, <1>5

\* Program order of what a program has been compiled to.
LEMMA ProgramOrderSound ==
  ASSUME NEW names, NamesApart(names), "tidxlen" \in names, NEW n \in Nat, NEW conc \in Nat \ {0},
         NEW ir, Compiled(ir, conc), Assembles(ir, n, conc)
  PROVE  InThreadOrder(ProgramOrder(ir, n, conc), -1, n - 1)
<1> DEFINE ss == FinalScratch(ir, conc)
           own(tid) == TidLocals(ss, conc, tid) \o LocalsOf(ir, tid)
           thread(tid) == Owned(tid, own(tid), ss, conc)
           all == TidGlobals(ss, conc) \o ir.globals
           global == Owned(-1, all, ss, conc)
           threads == [t \in 1 .. n |-> thread(t - 1)]
<1>1. ProgramOrder(ir, n, conc) = global \o FlattenSeq(threads)  BY DEF ProgramOrder
<1>2. /\ LaidOut(ss, conc) /\ Keeps(ir.ss, ss) /\ ~ss.duplicate
      /\ Chained(ss, conc) => HasVariable(ss, ConstantName(2, TRUE))
  <2>1. CASE Chained(ir.ss, conc)
    <3>1. ss = AllocConst(ir.ss, 2, TRUE)  BY <2>1 DEF FinalScratch
    <3>2. 2 \in Int /\ TRUE \in BOOLEAN /\ LaidOut(ir.ss, conc) /\ ~ir.ss.duplicate  BY DEF Compiled
    <3> HIDE DEF ss
    <3> QED BY <3>1, <3>2, ConstantHeld
  <2>2. CASE ~Chained(ir.ss, conc)
    <3>1. ss = ir.ss  BY <2>2 DEF FinalScratch
    <3> HIDE DEF ss
    <3> QED BY <2>2, <3>1 DEF Compiled, Keeps
  <2> QED BY <2>1, <2>2
<1>3. ss.scratch_ptr <= ScratchSize /\ \A t \in 0 .. n - 1 : \E i \in DOMAIN ir.locals : t \in ir.locals[i].tids
  BY DEF Assembles
<1> HIDE DEF ss
<1>4. InstrsOver(ir.ss) \subseteq InstrsOver(ss)  BY <1>2, InstrsStay
<1>5. \A tid \in Int : WorkSlotOf(tid, conc) \in 0 .. conc - 1  BY DivMod DEF WorkSlotOf
<1>6. global \in Seq(Sound({-1}))
  <2> DEFINE slot == WorkSlotOf(-1, conc)
             S == Resolvable(ss, slot)
  <2>1. slot \in 0 .. conc - 1 /\ -1 \in Int  BY <1>5
  <2> HIDE DEF slot
  <2>2. InstrsOver(ss) \subseteq S  BY <1>2, <1>3, <2>1, ResolvesSoundly
  <2>3. TidGlobals(ss, conc) \in Seq(S)  BY <1>2, <1>3, <2>1, TidGlobalsSound
  <2>4. ir.globals \in Seq(InstrsOver(ir.ss))  BY DEF Compiled
  <2> HIDE DEF S
  <2>5. all \in Seq(S)  BY <1>4, <2>2, <2>3, <2>4
  <2> HIDE DEF all
  <2> QED BY <2>1, <2>5, OwnedSound DEF S, slot
<1>7. ASSUME NEW tid \in 0 .. n - 1 PROVE thread(tid) \in Seq(Sound({tid})) /\ thread(tid) # << >>
  <2>1. WorkSlotOf(tid, conc) \in 0 .. conc - 1 /\ tid \in Int  BY <1>5
  <2>2. InstrsOver(ss) \subseteq Resolvable(ss, WorkSlotOf(tid, conc))  BY <1>2, <1>3, <2>1, ResolvesSoundly
  <2>3. TidLocals(ss, conc, tid) \in Seq(InstrsOver(ss))  BY <1>2, <2>1, TidLocalsSound
  <2>4. LocalsOf(ir, tid) \in Seq(InstrsOver(ir.ss)) /\ LocalsOf(ir, tid) # << >>  BY <1>3, LocalsSound
  <2> QED BY <1>4, <2>1, <2>2, <2>3, <2>4, ThreadSound
<1> HIDE DEF thread, global
<1>8. InThreadOrder(FlattenSeq(threads), 0, n - 1)
  <2>1. threads = [t \in 1 .. n |-> threads[t]]  OBVIOUS
  <2>2. ASSUME NEW t \in 1 .. n PROVE threads[t] \in Seq(Sound({t - 1})) /\ threads[t] # << >>
    <3>1. t - 1 \in 0 .. n - 1 /\ threads[t] = thread(t - 1)  OBVIOUS
    <3> QED BY <1>7, <3>1
  <2> HIDE DEF threads
  <2> QED BY <2>1, <2>2, ThreadByThread
<1> QED BY <1>1, <1>6, <1>8, GlobalFirst

\* Numbering the instructions changes nothing about the order that must be kept.
LEMMA SameOrder ==
  ASSUME NEW p, NEW w, DOMAIN w = DOMAIN p, \A n \in DOMAIN p : w[n].lin = p[n].lin
  PROVE  UnlockedBy(w) = UnlockedBy(p)
<1> DEFINE ids == DOMAIN p
           touched(s) == [n \in ids |-> RangesOf(Registers(s[n]))]
           written(s) == [n \in ids |-> RangesOf({r \in Registers(s[n]) : ~r.read})]
<1>1. \A n \in ids : Registers(w[n]) = Registers(p[n])  BY DEF Registers
<1>2. touched(w) = touched(p) /\ written(w) = written(p)  BY <1>1
<1>3. \A s : DOMAIN s = ids =>
        UnlockedBy(s) = [n \in ids |-> {m \in ids : m > n /\ \E loc \in touched(s)[n] \cap touched(s)[m] :
                                                      Orders(written(s), n, m, loc)}]
  BY DEF UnlockedBy
<1> HIDE DEF touched, written
<1> QED BY <1>2, <1>3

\* Every program that compiles and fits is one that the packer's theorems are about: what get_work makes
\* of it is a graph as FromGraph describes it.
THEOREM CompiledWork ==
  ASSUME NEW names, NamesApart(names), "tidxlen" \in names,
         NEW ir, Compiled(ir, Conc), Assembles(ir, NumThreads, Conc)
  PROVE  FromGraph(GetWork(ir, NumThreads, Conc))
<1> DEFINE p == ProgramOrder(ir, NumThreads, Conc)
           w == GetWork(ir, NumThreads, Conc)
           M == Sound(-1 .. NumThreads - 1)
<1>0. NumThreads \in Nat /\ Conc \in Nat \ {0} /\ ScratchSize \in Nat  BY Threads, ScratchWords
<1>1. InThreadOrder(p, -1, NumThreads - 1)  BY <1>0, ProgramOrderSound
<1> HIDE DEF p
<1>2. p \in Seq(M) /\ Ordered(p) /\ \A t \in -1 .. NumThreads - 1 : t >= 0 => \E m \in DOMAIN p : p[m].tid = t
  BY <1>1 DEF InThreadOrder
<1>3. PICK l \in Nat : DOMAIN p = 1 .. l  BY <1>2
<1>4. \A n \in 1 .. l : p[n].tid \in -1 .. NumThreads - 1 /\ p[n].lin \in SoundInstrs
  <2>1. \A n \in 1 .. l : p[n] \in M  BY <1>2, <1>3
  <2> QED BY <2>1 DEF Sound
<1> DEFINE unlocked == UnlockedBy(p)
           meta(n) == [inst |-> n, tid |-> p[n].tid, lin |-> p[n].lin, part |-> "whole", after |-> unlocked[n]]
<1>5. w = [n \in 1 .. l |-> meta(n)]  BY <1>3 DEF GetWork, p
<1>6. \A n \in 1 .. l : unlocked[n] \subseteq 1 .. l  BY <1>3 DEF UnlockedBy
<1> HIDE DEF w, unlocked, M
<1>7. \A n \in 1 .. l : p[n].lin \in LogicalInstruction  BY <1>4 DEF SoundInstrs
<1>8. \A n \in 1 .. l : meta(n) \in InstrMeta
  <2>1. \A n \in 1 .. l : unlocked[n] \in SUBSET Nat /\ n \in Nat  BY <1>6
  <2> QED BY <1>4, <1>7, <2>1 DEF InstrMeta
<1>9. \A n \in 1 .. l : /\ w[n].inst = n /\ w[n].tid = p[n].tid /\ w[n].lin = p[n].lin
                        /\ w[n].part = "whole" /\ w[n].after = unlocked[n]
  BY <1>5
<1>10. w \in Seq(InstrMeta) /\ DOMAIN w = 1 .. l
  <2> HIDE DEF meta
  <2>1. w \in [1 .. l -> InstrMeta]  BY <1>5, <1>8
  <2> QED BY <2>1, SequenceOver
<1>11. UnlockedBy(w) = unlocked  BY <1>3, <1>9, <1>10, SameOrder DEF unlocked
<1>12. ASSUME NEW n \in DOMAIN w
       PROVE  /\ w[n].inst = n /\ w[n].part = "whole" /\ w[n].after = UnlockedBy(w)[n]
              /\ RangesOf(Registers(w[n])) \subseteq 0 .. ScratchSize - 1
              /\ w[n].lin.engine = "valu" => VectorOperands(w[n].lin.op, w[n].lin.args)
              /\ w[n].lin.engine = "alu" => Ternary(w[n].lin)
  <2>1. n \in 1 .. l /\ w[n].lin \in SoundInstrs  BY <1>4, <1>9, <1>10
  <2>2. \A r \in Registers(w[n]) : RegRange(r) \subseteq 0 .. ScratchSize - 1
    <3>1. \A k \in DOMAIN w[n].lin.args : RegRange(w[n].lin.args[k]) \subseteq 0 .. ScratchSize - 1
      BY <2>1 DEF SoundInstrs
    <3> QED BY <3>1 DEF Registers, ToSet
  <2>3. RangesOf(Registers(w[n])) \subseteq 0 .. ScratchSize - 1  BY <2>2 DEF RangesOf
  <2> QED BY <1>9, <1>11, <2>1, <2>3 DEF SoundInstrs
<1>13. \A m, n \in DOMAIN w : m < n => w[m].tid <= w[n].tid  BY <1>2, <1>3, <1>9, <1>10 DEF Ordered
<1>14. \A t \in 0 .. NumThreads - 1 : \E n \in DOMAIN w : w[n].tid = t
  <2>1. \A t \in 0 .. NumThreads - 1 : t \in -1 .. NumThreads - 1 /\ t >= 0  BY <1>0
  <2> QED BY <1>2, <1>3, <1>9, <1>10, <2>1
<1> QED BY <1>10, <1>12, <1>13, <1>14 DEF FromGraph, w

-----------------------------------------------------------------------------
(* The pipeline *)

Pipelines(conc) ==
  [num_threads : Nat, conc_threads : {conc}, ss : ScratchSpaces, globals : Seq(Instruction),
   locals : Seq([lin : Instruction, tids : SUBSET Int]), tids : SUBSET Int, ok : BOOLEAN]

\* While the statements are handled; a name that is used twice stops the compiler in the end.
Builds(ir, conc) ==
  /\ ir \in Pipelines(conc) /\ LaidOut(ir.ss, conc)
  /\ ~ir.ss.duplicate => Compiled(ir, conc)

\* Only the scratch and the global program differ.
SetsUp(ir, jr) ==
  /\ Keeps(ir.ss, jr.ss) /\ jr.ss.duplicate = ir.ss.duplicate
  /\ jr.num_threads = ir.num_threads /\ jr.locals = ir.locals /\ jr.tids = ir.tids /\ jr.ok = ir.ok

\* The threads' instructions, too, are over every layout that keeps theirs.
LEMMA ThreadInstrsStay ==
  ASSUME NEW ss, NEW tt, Keeps(ss, tt)
  PROVE  ThreadInstrs(ss) \subseteq ThreadInstrs(tt)
BY InstrsStay DEF ThreadInstrs

\* Changing the scratch and leaving everything allocated as it is.
LEMMA BuildsOn ==
  ASSUME NEW conc, NEW ir, Builds(ir, conc), NEW ss, LaidOut(ss, conc), Grows(ir.ss, ss)
  PROVE  LET jr == [ir EXCEPT !.ss = ss]
         IN  /\ Builds(jr, conc) /\ jr.ss = ss
             /\ jr.num_threads = ir.num_threads /\ jr.conc_threads = conc
             /\ jr.globals = ir.globals /\ jr.locals = ir.locals /\ jr.tids = ir.tids /\ jr.ok = ir.ok
<1> DEFINE jr == [ir EXCEPT !.ss = ss]
<1>1. ir \in Pipelines(conc) /\ ss \in ScratchSpaces  BY DEF Builds, LaidOut
<1>2. /\ jr \in Pipelines(conc) /\ jr.ss = ss
      /\ jr.num_threads = ir.num_threads /\ jr.conc_threads = conc
      /\ jr.globals = ir.globals /\ jr.locals = ir.locals /\ jr.tids = ir.tids /\ jr.ok = ir.ok
  BY <1>1 DEF Pipelines
<1> HIDE DEF jr
<1>3. ASSUME ~ss.duplicate PROVE Compiled(jr, conc)
  <2>1. ~ir.ss.duplicate /\ Keeps(ir.ss, ss)  BY <1>3 DEF Grows
  <2>2. ir.globals \in Seq(InstrsOver(ir.ss)) /\ ir.locals \in Seq(ThreadInstrs(ir.ss))
    BY <2>1 DEF Builds, Compiled
  <2>3. InstrsOver(ir.ss) \subseteq InstrsOver(ss) /\ ThreadInstrs(ir.ss) \subseteq ThreadInstrs(ss)
    BY <2>1, InstrsStay, ThreadInstrsStay
  <2>4. ir.globals \in Seq(InstrsOver(ss)) /\ ir.locals \in Seq(ThreadInstrs(ss))  BY <2>2, <2>3
  <2> QED BY <1>2, <1>3, <2>4 DEF Compiled
<1> QED BY <1>2, <1>3 DEF Builds, jr

\* Adding instructions over the layout.
LEMMA AddsInstrs ==
  ASSUME NEW conc, NEW ir, Builds(ir, conc), NEW lins \in Seq(InstrsOver(ir.ss)), NEW is_global \in BOOLEAN
  PROVE  LET jr == AddInstrs(ir, is_global, lins)
         IN  /\ Builds(jr, conc) /\ jr.ss = ir.ss
             /\ jr.num_threads = ir.num_threads /\ jr.tids = ir.tids /\ jr.ok = ir.ok
             /\ is_global => jr.locals = ir.locals
<1> DEFINE jr == AddInstrs(ir, is_global, lins)
           own == [i \in DOMAIN lins |-> [lin |-> lins[i], tids |-> ir.tids]]
           O == InstrsOver(ir.ss)
           T == ThreadInstrs(ir.ss)
           U == [lin : Instruction, tids : SUBSET Int]
<1>1. ir \in Pipelines(conc) /\ LaidOut(ir.ss, conc)  BY DEF Builds
<1>2. /\ ir.globals \in Seq(Instruction) /\ ir.locals \in Seq(U) /\ ir.tids \in SUBSET Int
  BY <1>1 DEF Pipelines
<1>3. O \subseteq Instruction /\ T \subseteq U  BY DEF InstrsOver, ThreadInstrs
<1>4. PICK n \in Nat : DOMAIN lins = 1 .. n  OBVIOUS
<1>5. \A i \in 1 .. n : [lin |-> lins[i], tids |-> ir.tids] \in T
  <2>1. \A i \in 1 .. n : lins[i] \in O  BY <1>4
  <2> QED BY <1>2, <2>1 DEF ThreadInstrs
<1> HIDE DEF O, T, U
<1>6. own \in Seq(T)
  <2>1. own \in [1 .. n -> T]  BY <1>4, <1>5
  <2> HIDE DEF own
  <2> QED BY <2>1, SequenceOver
<1>7. lins \in Seq(Instruction) /\ own \in Seq(U)
  <2>1. lins \in Seq(O)  BY DEF O
  <2> HIDE DEF own
  <2> QED BY <1>3, <1>6, <2>1
<1> HIDE DEF own
<1>8. ir.globals \o lins \in Seq(Instruction) /\ ir.locals \o own \in Seq(U)  BY <1>2, <1>7, ConcatProperties
<1>9. ~ir.ss.duplicate => /\ ir.globals \in Seq(O) /\ ir.locals \in Seq(T)
                          /\ ir.globals \o lins \in Seq(O) /\ ir.locals \o own \in Seq(T)
  <2> SUFFICES ASSUME ~ir.ss.duplicate
               PROVE  /\ ir.globals \in Seq(O) /\ ir.locals \in Seq(T)
                      /\ ir.globals \o lins \in Seq(O) /\ ir.locals \o own \in Seq(T)
    OBVIOUS
  <2>1. ir.globals \in Seq(O) /\ ir.locals \in Seq(T)  BY DEF Builds, Compiled, O, T
  <2>2. lins \in Seq(O)  BY DEF O
  <2> QED BY <1>6, <2>1, <2>2, ConcatProperties
<1>10. CASE is_global
  <2>1. jr = [ir EXCEPT !.globals = ir.globals \o lins]  BY <1>10 DEF AddInstrs
  <2>2. /\ jr \in Pipelines(conc) /\ jr.globals = ir.globals \o lins /\ jr.ss = ir.ss /\ jr.locals = ir.locals
        /\ jr.num_threads = ir.num_threads /\ jr.tids = ir.tids /\ jr.ok = ir.ok
    BY <1>1, <1>8, <2>1 DEF Pipelines, U
  <2> HIDE DEF jr
  <2>3. ~jr.ss.duplicate => Compiled(jr, conc)  BY <1>1, <1>9, <2>2 DEF Compiled, O, T
  <2> QED BY <1>1, <2>2, <2>3 DEF Builds, jr
<1>11. CASE ~is_global
  <2>1. jr = [ir EXCEPT !.locals = ir.locals \o own]  BY <1>11 DEF AddInstrs, own
  <2>2. /\ jr \in Pipelines(conc) /\ jr.globals = ir.globals /\ jr.ss = ir.ss /\ jr.locals = ir.locals \o own
        /\ jr.num_threads = ir.num_threads /\ jr.tids = ir.tids /\ jr.ok = ir.ok
    BY <1>1, <1>8, <2>1 DEF Pipelines, U
  <2> HIDE DEF jr
  <2>3. ~jr.ss.duplicate => Compiled(jr, conc)  BY <1>1, <1>9, <2>2 DEF Compiled, O, T
  <2> QED BY <1>1, <1>11, <2>2, <2>3 DEF Builds, jr
<1> QED BY <1>10, <1>11

\* The first use of a number sets its variable up.
LEMMA ConstSetUp ==
  ASSUME NEW names, NamesApart(names), "tidxlen" \in names,
         NEW conc \in Nat \ {0}, NEW ir, Builds(ir, conc), NEW v \in Int, NEW wide \in BOOLEAN
  PROVE  LET jr == HandleConst(ir, v, wide)
         IN  Builds(jr, conc) /\ SetsUp(ir, jr) /\ HasVariable(jr.ss, ConstantName(v, wide))
<1> DEFINE name == ConstantName(v, wide)
           jr == HandleConst(ir, v, wide)
<1>1. CASE ~FirstTime(ir.ss, v, wide)
  <2>1. jr = ir /\ HasVariable(ir.ss, name)  BY <1>1 DEF HandleConst, FirstTime
  <2> HIDE DEF jr, name
  <2> QED BY <2>1 DEF SetsUp, Keeps, jr, name
<1>2. CASE FirstTime(ir.ss, v, wide)
  <2> DEFINE ss == AllocConst(ir.ss, v, wide)
             mid == [ir EXCEPT !.ss = ss]
             set == Const(Write(name), v)
             spread == Broadcast(WriteVec(name), Read(name))
             setUp == << set >> \o IF wide THEN << spread >> ELSE << >>
  <2>1. jr = AddInstrs(mid, TRUE, setUp)  BY <1>2 DEF HandleConst
  <2>2. LaidOut(ir.ss, conc)  BY DEF Builds
  <2>3. /\ LaidOut(ss, conc) /\ Grows(ir.ss, ss) /\ HasVariable(ss, name)
        /\ Keeps(ir.ss, ss) /\ ss.duplicate = ir.ss.duplicate
    BY <2>2, ConstantHeld
  <2> HIDE DEF ss
  <2>4. /\ Builds(mid, conc) /\ mid.ss = ss
        /\ mid.num_threads = ir.num_threads /\ mid.locals = ir.locals /\ mid.tids = ir.tids /\ mid.ok = ir.ok
    BY <2>3, BuildsOn
  <2>5. name \in STRING /\ ss.var_meta[name].length = Width(wide)
    <3>1. ss.var_meta[name].length = Width(wide)  BY <2>3 DEF LaidOut
    <3>2. name \in STRING  BY <2>3, LengthsOf
    <3> QED BY <3>1, <3>2
  <2> HIDE DEF mid, name
  <2>6. set \in InstrsOver(ss)  BY <2>3, ConstOver
  <2>7. ASSUME wide PROVE spread \in InstrsOver(ss)
    <3>1. ss.var_meta[name].length = VLEN  BY <2>5, <2>7 DEF Width
    <3>2. Read(name) \in LogicalRegister /\ RegisterOver(Read(name), ss) /\ Read(name).is_read
      <4>1. Read(name) = LR(name, 0, FALSE, TRUE) /\ LR(name, 0, FALSE, TRUE).is_read  BY DEF Read, LR
      <4>2. TRUE \in BOOLEAN  OBVIOUS
      <4> QED BY <2>3, <4>1, <4>2, WordOver
    <3> QED BY <2>3, <2>5, <3>1, <3>2, BroadcastOver
  <2> HIDE DEF set, spread
  <2>8. setUp \in Seq(InstrsOver(mid.ss))
    <3>1. CASE wide
      <4>1. setUp = << set >> \o << spread >>  BY <3>1
      <4>2. << set >> \in Seq(InstrsOver(ss)) /\ << spread >> \in Seq(InstrsOver(ss))  BY <2>6, <2>7, <3>1
      <4> HIDE DEF setUp
      <4> QED BY <2>4, <4>1, <4>2, ConcatProperties
    <3>2. CASE ~wide
      <4>1. setUp = << set >>  BY <3>2
      <4> HIDE DEF setUp
      <4> QED BY <2>4, <2>6, <4>1
    <3> QED BY <3>1, <3>2
  <2> HIDE DEF setUp, jr
  <2>9. TRUE \in BOOLEAN  OBVIOUS
  <2>10. /\ Builds(jr, conc) /\ jr.ss = ss
         /\ jr.num_threads = ir.num_threads /\ jr.tids = ir.tids /\ jr.ok = ir.ok /\ jr.locals = ir.locals
    BY <2>1, <2>4, <2>8, <2>9, AddsInstrs
  <2> QED BY <2>3, <2>10 DEF SetsUp, jr, name
<1> QED BY <1>1, <1>2

\* Setting up twice is setting up.
LEMMA SetsUpOn ==
  ASSUME NEW ir, NEW jr, NEW kr, SetsUp(ir, jr), SetsUp(jr, kr)
  PROVE  SetsUp(ir, kr)
BY DEF SetsUp, Keeps

-----------------------------------------------------------------------------
(* Nodes of the parsed program *)

NameNodes(names) == {[kind |-> "name", args |-> << n >>] : n \in names}
IntNodes == {[kind |-> "int", args |-> << v >>] : v \in Int}
Atoms(names) == NameNodes(names) \cup IntNodes

\* An operand is a number or a name.
LEMMA AtomIs ==
  ASSUME NEW names, NEW x \in Atoms(names)
  PROVE  /\ IsInt(x) => Value(x) \in Int /\ x.kind = "int" /\ ~IsName(x)
         /\ ~IsInt(x) => IsName(x) /\ Name(x) \in names
<1>1. CASE x \in IntNodes
  <2>1. PICK v \in Int : x = [kind |-> "int", args |-> << v >>]  BY <1>1 DEF IntNodes
  <2>2. x.kind = "int" /\ x.args[1] = v  BY <2>1
  <2> QED BY <2>2 DEF IsInt, IsName, Value
<1>2. CASE x \in NameNodes(names)
  <2>1. PICK n \in names : x = [kind |-> "name", args |-> << n >>]  BY <1>2 DEF NameNodes
  <2>2. x.kind = "name" /\ x.args[1] = n  BY <2>1
  <2> QED BY <2>2 DEF IsInt, IsName, Name
<1> QED BY <1>1, <1>2 DEF Atoms

\* The numbers of an expression, one after the other.
NumbersIn(e, is_vector) == IF e.kind = "int" /\ ~is_vector THEN << >> ELSE Operands(e)
NumbersWide(e, is_vector) == is_vector /\ e.kind \notin {"deref_const", "int"}
InTurn(f, ir, operands, wide) ==
  /\ f[0] = ir
  /\ \A k \in 1 .. Len(operands) :
       f[k] = IF IsInt(operands[k]) THEN HandleConst(f[k - 1], Value(operands[k]), wide) ELSE f[k - 1]

\* SetUpNumbers handles them in turn,
LEMMA NumbersInTurn ==
  ASSUME NEW names, NamesApart(names), "tidxlen" \in names,
         NEW conc \in Nat \ {0}, NEW ir, Builds(ir, conc), NEW e, NEW is_vector \in BOOLEAN,
         Operands(e) \in Seq(Atoms(names))
  PROVE  LET operands == NumbersIn(e, is_vector)
             wide == NumbersWide(e, is_vector)
         IN  \E f : /\ InTurn(f, ir, operands, wide)
                    /\ SetUpNumbers(ir, e, is_vector) = f[Len(operands)]
                    /\ \A k \in 0 .. Len(operands) : Builds(f[k], conc) /\ SetsUp(ir, f[k])
<1> DEFINE operands == NumbersIn(e, is_vector)
           wide == NumbersWide(e, is_vector)
           n == Len(operands)
           is(g) == g = [k \in 0 .. n |->
                           IF k = 0 THEN ir
                           ELSE IF IsInt(operands[k]) THEN HandleConst(g[k - 1], Value(operands[k]), wide) ELSE g[k - 1]]
           setUp == CHOOSE g : is(g)
           S == {jr \in Pipelines(conc) : Builds(jr, conc) /\ SetsUp(ir, jr)}
           step == [p \in Nat \X S |->
                      IF p[1] \in 1 .. n /\ IsInt(operands[p[1]])
                      THEN HandleConst(p[2], Value(operands[p[1]]), wide) ELSE p[2]]
<1>1. SetUpNumbers(ir, e, is_vector) = setUp[n]  BY DEF SetUpNumbers, NumbersIn, NumbersWide
<1>2. operands \in Seq(Atoms(names)) /\ wide \in BOOLEAN  BY DEF NumbersIn, NumbersWide
<1> HIDE DEF operands, wide
<1>4. n \in Nat /\ DOMAIN operands = 1 .. n  BY <1>2
<1>5. \A k \in 1 .. n : IsInt(operands[k]) => Value(operands[k]) \in Int  BY <1>2, <1>4, AtomIs
<1> HIDE DEF n
<1>6. ir \in S  BY DEF Builds, SetsUp, Keeps
<1>7. ASSUME NEW jr \in S, NEW k \in 1 .. n, IsInt(operands[k])
      PROVE  LET kr == HandleConst(jr, Value(operands[k]), wide)
             IN  kr \in S /\ Keeps(jr.ss, kr.ss) /\ HasVariable(kr.ss, ConstantName(Value(operands[k]), wide))
  <2> DEFINE v == Value(operands[k])
             kr == HandleConst(jr, v, wide)
  <2>1. v \in Int  BY <1>5, <1>7
  <2> HIDE DEF v
  <2>2. Builds(jr, conc) /\ SetsUp(ir, jr)  BY <1>7
  <2>3. Builds(kr, conc) /\ SetsUp(jr, kr) /\ HasVariable(kr.ss, ConstantName(v, wide))
    BY <1>2, <2>1, <2>2, ConstSetUp
  <2> HIDE DEF kr
  <2>4. SetsUp(ir, kr)  BY <2>2, <2>3, SetsUpOn
  <2>5. kr \in S  BY <2>3, <2>4 DEF Builds
  <2> QED BY <2>3, <2>5 DEF SetsUp, kr, v
<1> HIDE DEF S
<1>8. \A k \in Nat, jr \in S :
        step[<<k, jr>>] = IF k \in 1 .. n /\ IsInt(operands[k]) THEN HandleConst(jr, Value(operands[k]), wide) ELSE jr
  OBVIOUS
<1> HIDE DEF step
<1>9. StaysIn(S, step)  BY <1>7, <1>8 DEF StaysIn
<1>10. PICK f \in [0 .. n -> S] : Repeats(f, ir, step, n)  BY <1>4, <1>6, <1>9, NumberedIteration
<1>11. /\ f[0] = ir
       /\ \A k \in 1 .. n : f[k - 1] \in S /\ f[k] \in S
       /\ \A k \in 1 .. n : f[k] = IF IsInt(operands[k]) THEN HandleConst(f[k - 1], Value(operands[k]), wide) ELSE f[k - 1]
  <2>1. \A k \in 1 .. n : k - 1 \in 0 .. n /\ k \in 0 .. n /\ k \in Nat  BY <1>4
  <2>2. \A k \in 1 .. n : f[k - 1] \in S /\ f[k] \in S  BY <1>10, <2>1
  <2> QED BY <1>8, <1>10, <2>1, <2>2 DEF Repeats
<1>12. is(f)
  <2>1. \A k \in 0 .. n : f[k] = IF k = 0 THEN ir
                                 ELSE IF IsInt(operands[k]) THEN HandleConst(f[k - 1], Value(operands[k]), wide)
                                 ELSE f[k - 1]
    <3>1. \A k \in 0 .. n : k = 0 \/ k \in 1 .. n  BY <1>4
    <3> QED BY <1>11, <3>1
  <2>2. f = [k \in 0 .. n |-> f[k]]  BY <1>10
  <2> QED BY <2>1, <2>2
<1>13. is(setUp)
  <2> HIDE DEF is
  <2> QED BY <1>12
<1> HIDE DEF setUp
<1>14. setUp[n] = f[n]
  <2>1. setUp[0] = f[0]  BY <1>4, <1>11, <1>13
  <2>2. \A k \in 1 .. n : setUp[k - 1] = f[k - 1] => setUp[k] = f[k]
    <3>1. \A k \in 1 .. n : k \in 0 .. n /\ k # 0  BY <1>4
    <3>2. \A k \in 1 .. n : setUp[k] = IF IsInt(operands[k]) THEN HandleConst(setUp[k - 1], Value(operands[k]), wide)
                                       ELSE setUp[k - 1]
      BY <1>13, <3>1
    <3> QED BY <1>11, <3>2
  <2> HIDE DEF is
  <2> DEFINE Q == {k \in Nat : k <= n => setUp[k] = f[k]}
  <2>3. 0 \in Q  BY <2>1
  <2>4. ASSUME NEW k \in Nat, k \in Q PROVE k + 1 \in Q
    <3> SUFFICES ASSUME k + 1 <= n PROVE setUp[k + 1] = f[k + 1]  OBVIOUS
    <3>1. k + 1 \in 1 .. n /\ (k + 1) - 1 = k /\ k <= n  BY <1>4
    <3>2. setUp[k] = f[k]  BY <2>4, <3>1
    <3> QED BY <2>2, <3>1, <3>2
  <2> HIDE DEF Q
  <2>5. Nat \subseteq Q  BY <2>3, <2>4, Induction
  <2> QED BY <1>4, <2>5 DEF Q
<1>15. \A k \in 0 .. n : Builds(f[k], conc) /\ SetsUp(ir, f[k])
  <2>1. \A k \in 0 .. n : f[k] \in S  BY <1>10
  <2> QED BY <2>1 DEF S
<1>16. InTurn(f, ir, operands, wide)  BY <1>11 DEF InTurn, n
<1> QED BY <1>1, <1>14, <1>15, <1>16 DEF n

\* and after it each of them is held.
LEMMA NumbersSetUp ==
  ASSUME NEW names, NamesApart(names), "tidxlen" \in names,
         NEW conc \in Nat \ {0}, NEW ir, Builds(ir, conc), NEW e, NEW is_vector \in BOOLEAN,
         Operands(e) \in Seq(Atoms(names))
  PROVE  LET jr == SetUpNumbers(ir, e, is_vector)
             wide == is_vector /\ e.kind \notin {"deref_const", "int"}
         IN  /\ Builds(jr, conc) /\ SetsUp(ir, jr)
             /\ e.kind # "int" \/ is_vector =>
                  \A i \in DOMAIN Operands(e) :
                    IsInt(Operands(e)[i]) => HasVariable(jr.ss, ConstantName(Value(Operands(e)[i]), wide))
<1> DEFINE operands == NumbersIn(e, is_vector)
           wide == NumbersWide(e, is_vector)
           n == Len(operands)
           jr == SetUpNumbers(ir, e, is_vector)
<1>1. PICK f : /\ InTurn(f, ir, operands, wide)
               /\ jr = f[n]
               /\ \A k \in 0 .. n : Builds(f[k], conc) /\ SetsUp(ir, f[k])
  BY NumbersInTurn
<1>2. operands \in Seq(Atoms(names)) /\ wide \in BOOLEAN  BY DEF NumbersIn, NumbersWide
<1>3. e.kind # "int" \/ is_vector => operands = Operands(e)  BY DEF NumbersIn
<1> HIDE DEF operands, wide, jr
<1>4. n \in Nat /\ DOMAIN operands = 1 .. n  BY <1>2
<1>5. \A k \in 1 .. n : IsInt(operands[k]) => Value(operands[k]) \in Int  BY <1>2, <1>4, AtomIs
<1>6. \A k \in 1 .. n : f[k] = IF IsInt(operands[k]) THEN HandleConst(f[k - 1], Value(operands[k]), wide) ELSE f[k - 1]
  BY <1>1 DEF InTurn
<1> HIDE DEF n
<1> DEFINE P == {k \in Nat : k <= n => \A i \in 1 .. k :
                   IsInt(operands[i]) => HasVariable(f[k].ss, ConstantName(Value(operands[i]), wide))}
<1>7. 0 \in P  OBVIOUS
<1>8. ASSUME NEW k \in Nat, k \in P PROVE k + 1 \in P
  <2> SUFFICES ASSUME k + 1 <= n, NEW i \in 1 .. k + 1, IsInt(operands[i])
               PROVE  HasVariable(f[k + 1].ss, ConstantName(Value(operands[i]), wide))
    OBVIOUS
  <2>1. k + 1 \in 1 .. n /\ (k + 1) - 1 = k /\ k <= n /\ k \in 0 .. n  BY <1>4
  <2>2. /\ Builds(f[k], conc)
        /\ f[k + 1] = IF IsInt(operands[k + 1]) THEN HandleConst(f[k], Value(operands[k + 1]), wide) ELSE f[k]
    BY <1>1, <1>6, <2>1
  <2>3. IsInt(operands[k + 1]) =>
          SetsUp(f[k], f[k + 1]) /\ HasVariable(f[k + 1].ss, ConstantName(Value(operands[k + 1]), wide))
    BY <1>2, <1>5, <2>1, <2>2, ConstSetUp
  <2>4. Keeps(f[k].ss, f[k + 1].ss)  BY <2>2, <2>3 DEF Keeps, SetsUp
  <2>5. CASE i = k + 1  BY <2>3, <2>5
  <2>6. CASE i # k + 1
    <3>1. i \in 1 .. k  BY <2>6
    <3>2. HasVariable(f[k].ss, ConstantName(Value(operands[i]), wide))  BY <1>8, <2>1, <3>1
    <3> QED BY <2>4, <3>2 DEF Keeps, HasVariable
  <2> QED BY <2>5, <2>6
<1> HIDE DEF P
<1>9. Nat \subseteq P  BY <1>7, <1>8, Induction
<1>10. \A i \in 1 .. n : IsInt(operands[i]) => HasVariable(f[n].ss, ConstantName(Value(operands[i]), wide))
  BY <1>4, <1>9 DEF P
<1>11. Builds(jr, conc) /\ SetsUp(ir, jr)  BY <1>1, <1>4
<1> QED BY <1>1, <1>3, <1>4, <1>10, <1>11 DEF wide, NumbersWide, jr

-----------------------------------------------------------------------------
(* The instructions of an assignment *)

RegistersOver(ss, vec, read) ==
  {r \in LogicalRegister : RegisterOver(r, ss) /\ (r.is_vector <=> vec) /\ (r.is_read <=> read)}

\* An operand that is checked, if it is a name, and set up, if it is a number.
Usable(ss, x, vec) ==
  IF IsInt(x) THEN HasVariable(ss, ConstantName(Value(x), vec)) ELSE Checked(ss, x, vec)

\* A variable that is as wide as it is used, and
LEMMA VariableOver ==
  ASSUME NEW conc \in Nat \ {0}, NEW ss, LaidOut(ss, conc), NEW name, HasVariable(ss, name),
         NEW vec \in BOOLEAN, vec => ss.var_meta[name].length = VLEN, NEW read \in BOOLEAN
  PROVE  LR(name, 0, vec, read) \in RegistersOver(ss, vec, read)
<1> DEFINE r == LR(name, 0, vec, read)
<1>1. name \in STRING  BY LengthsOf
<1>2. (r.is_vector <=> vec) /\ (r.is_read <=> read)  BY LRIs
<1>3. CASE vec
  <2>1. vec = TRUE  BY <1>3
  <2>2. LR(name, 0, TRUE, read) \in LogicalRegister /\ RegisterOver(LR(name, 0, TRUE, read), ss)
    BY <1>1, <1>3, VectorOver
  <2>3. r \in LogicalRegister /\ RegisterOver(r, ss)  BY <2>1, <2>2
  <2> HIDE DEF r
  <2> QED BY <1>2, <2>3 DEF RegistersOver, r
<1>4. CASE ~vec
  <2>1. vec = FALSE  BY <1>4
  <2>2. LR(name, 0, FALSE, read) \in LogicalRegister /\ RegisterOver(LR(name, 0, FALSE, read), ss)  BY WordOver
  <2>3. r \in LogicalRegister /\ RegisterOver(r, ss)  BY <2>1, <2>2
  <2> HIDE DEF r
  <2> QED BY <1>2, <2>3 DEF RegistersOver, r
<1> QED BY <1>3, <1>4

\* Whole vectors are those variables that have more than a word.
LEMMA VectorLengths ==
  ASSUME NEW conc \in Nat \ {0}, NEW ss, LaidOut(ss, conc), NEW name, HasVariable(ss, name)
  PROVE  IsVector(VarMetaOf(ss, name)) \in BOOLEAN /\ (IsVector(VarMetaOf(ss, name)) => ss.var_meta[name].length = VLEN)
<1>1. ss.var_meta[name].length \in {1, VLEN}  BY LengthsOf
<1> QED BY <1>1 DEF IsVector, VarMetaOf

\* an operand that is usable, are registers over the layout.
LEMMA OperandOver ==
  ASSUME NEW names, NEW conc \in Nat \ {0}, NEW ss, LaidOut(ss, conc),
         NEW x \in Atoms(names), NEW vec \in BOOLEAN, Usable(ss, x, vec)
  PROVE  ReadOperand(x, vec) \in RegistersOver(ss, vec, TRUE)
<1>1. /\ IsInt(x) => Value(x) \in Int /\ x.kind = "int" /\ ~IsName(x)
      /\ ~IsInt(x) => IsName(x) /\ Name(x) \in names
  BY AtomIs
<1>2. TRUE \in BOOLEAN  OBVIOUS
<1>3. CASE IsInt(x)
  <2> DEFINE name == ConstantName(Value(x), vec)
  <2>1. HasVariable(ss, name)  BY <1>3 DEF Usable
  <2>2. ss.var_meta[name].length = Width(vec)  BY <1>1, <1>3, <2>1 DEF LaidOut
  <2>3. vec => ss.var_meta[name].length = VLEN  BY <2>2 DEF Width
  <2>4. ReadOperand(x, vec) = LR(name, 0, vec, TRUE)  BY <1>3 DEF ReadOperand
  <2> HIDE DEF name
  <2> QED BY <1>2, <2>1, <2>3, <2>4, VariableOver
<1>4. CASE ~IsInt(x)
  <2> DEFINE name == Name(x)
  <2>1. HasVariable(ss, name) /\ IsVector(VarMetaOf(ss, name)) = vec  BY <1>1, <1>4 DEF Usable, Checked
  <2> HIDE DEF name
  <2>2. vec => ss.var_meta[name].length = VLEN  BY <2>1, VectorLengths
  <2>3. ReadOperand(x, vec) = LR(name, 0, vec, TRUE)  BY <1>4 DEF ReadOperand, name
  <2> QED BY <1>2, <2>1, <2>2, <2>3, VariableOver
<1> QED BY <1>3, <1>4

\* What is checked or set up stays so.
LEMMA UsableOn ==
  ASSUME NEW ss, NEW tt, Keeps(ss, tt), NEW names, NEW x \in Atoms(names), NEW vec, ~IsInt(x), Checked(ss, x, vec)
  PROVE  Usable(tt, x, vec)
BY AtomIs DEF Usable, Checked, Keeps, HasVariable, VarMetaOf

Operations == {"*", "+", "^", ">>", "-", "<<", "%", "==", "<"}

\* An operation on words,
LEMMA AluOver ==
  ASSUME NEW ss, NEW op \in Operations \cup {"|"}, NEW dest \in RegistersOver(ss, FALSE, FALSE),
         NEW a \in RegistersOver(ss, FALSE, TRUE), NEW b \in RegistersOver(ss, FALSE, TRUE)
  PROVE  LI("alu", op, << dest, a, b >>) \in InstrsOver(ss)
<1> DEFINE args == << dest, a, b >>
           lin == LI("alu", op, args)
<1>1. op \in Opcodes /\ 0 \in Int  BY DEF Operations, Opcodes
<1>2. /\ dest \in LogicalRegister /\ RegisterOver(dest, ss) /\ ~dest.is_read
      /\ a \in LogicalRegister /\ RegisterOver(a, ss) /\ a.is_read
      /\ b \in LogicalRegister /\ RegisterOver(b, ss) /\ b.is_read
  BY DEF RegistersOver
<1>3. /\ args \in Seq(LogicalRegister) /\ Len(args) = 3 /\ DOMAIN args = {1, 2, 3}
      /\ args[1] = dest /\ args[2] = a /\ args[3] = b
  BY <1>2
<1>4. lin = [engine |-> "alu", op |-> op, args |-> args, val |-> 0]  BY DEF LI
<1> HIDE DEF args, lin
<1>5. lin \in Instruction /\ lin.args = args /\ lin.engine = "alu"  BY <1>1, <1>3, <1>4 DEF Instruction
<1>6. DestinationFirst(args)  BY <1>2, <1>3 DEF DestinationFirst
<1>7. ShapedAs(lin, args)  BY <1>3, <1>5, <1>6 DEF ShapedAs
<1> QED BY <1>2, <1>3, <1>5, <1>7 DEF InstrsOver, lin, args

\* on vectors,
LEMMA ValuOver ==
  ASSUME NEW ss, NEW op \in Operations, NEW dest \in RegistersOver(ss, TRUE, FALSE),
         NEW a \in RegistersOver(ss, TRUE, TRUE), NEW b \in RegistersOver(ss, TRUE, TRUE)
  PROVE  LI("valu", op, << dest, a, b >>) \in InstrsOver(ss)
<1> DEFINE args == << dest, a, b >>
           lin == LI("valu", op, args)
<1>1. op \in Opcodes /\ 0 \in Int /\ op # "vbroadcast" /\ op # "multiply_add"  BY DEF Operations, Opcodes
<1>2. /\ dest \in LogicalRegister /\ RegisterOver(dest, ss) /\ ~dest.is_read /\ dest.is_vector
      /\ a \in LogicalRegister /\ RegisterOver(a, ss) /\ a.is_read /\ a.is_vector
      /\ b \in LogicalRegister /\ RegisterOver(b, ss) /\ b.is_read /\ b.is_vector
  BY DEF RegistersOver
<1>3. /\ args \in Seq(LogicalRegister) /\ Len(args) = 3 /\ DOMAIN args = {1, 2, 3}
      /\ args[1] = dest /\ args[2] = a /\ args[3] = b
  BY <1>2
<1>4. lin = [engine |-> "valu", op |-> op, args |-> args, val |-> 0]  BY DEF LI
<1> HIDE DEF args, lin
<1>5. lin \in Instruction /\ lin.args = args /\ lin.engine = "valu" /\ lin.op = op
  BY <1>1, <1>3, <1>4 DEF Instruction
<1>6. DestinationFirst(args) /\ \A k \in DOMAIN args : args[k].is_vector  BY <1>2, <1>3 DEF DestinationFirst
<1>7. ShapedAs(lin, args)  BY <1>1, <1>2, <1>3, <1>5, <1>6 DEF ShapedAs
<1> QED BY <1>2, <1>3, <1>5, <1>7 DEF InstrsOver, lin, args

\* a product and a sum,
LEMMA MultiplyAddOver ==
  ASSUME NEW ss, NEW dest \in RegistersOver(ss, TRUE, FALSE), NEW a \in RegistersOver(ss, TRUE, TRUE),
         NEW b \in RegistersOver(ss, TRUE, TRUE), NEW c \in RegistersOver(ss, TRUE, TRUE)
  PROVE  LI("valu", "multiply_add", << dest, a, b, c >>) \in InstrsOver(ss)
<1> DEFINE args == << dest, a, b, c >>
           lin == LI("valu", "multiply_add", args)
<1>1. "multiply_add" \in Opcodes /\ 0 \in Int  BY DEF Opcodes
<1>2. /\ dest \in LogicalRegister /\ RegisterOver(dest, ss) /\ ~dest.is_read /\ dest.is_vector
      /\ a \in LogicalRegister /\ RegisterOver(a, ss) /\ a.is_read /\ a.is_vector
      /\ b \in LogicalRegister /\ RegisterOver(b, ss) /\ b.is_read /\ b.is_vector
      /\ c \in LogicalRegister /\ RegisterOver(c, ss) /\ c.is_read /\ c.is_vector
  BY DEF RegistersOver
<1>3. /\ args \in Seq(LogicalRegister) /\ Len(args) = 4 /\ DOMAIN args = {1, 2, 3, 4}
      /\ args[1] = dest /\ args[2] = a /\ args[3] = b /\ args[4] = c
  BY <1>2
<1>4. lin = [engine |-> "valu", op |-> "multiply_add", args |-> args, val |-> 0]  BY DEF LI
<1> HIDE DEF args, lin
<1>5. lin \in Instruction /\ lin.args = args /\ lin.engine = "valu" /\ lin.op = "multiply_add"
  BY <1>1, <1>3, <1>4 DEF Instruction
<1>6. DestinationFirst(args) /\ \A k \in DOMAIN args : args[k].is_vector  BY <1>2, <1>3 DEF DestinationFirst
<1>7. ShapedAs(lin, args)  BY <1>2, <1>3, <1>5, <1>6 DEF ShapedAs
<1> QED BY <1>2, <1>3, <1>5, <1>7 DEF InstrsOver, lin, args

\* A load or a store of two registers,
LEMMA MoveOver ==
  ASSUME NEW ss, NEW engine \in {"load", "store"}, NEW op \in {"load", "vload", "store", "vstore"},
         NEW a \in LogicalRegister, RegisterOver(a, ss), NEW b \in LogicalRegister, RegisterOver(b, ss)
  PROVE  LI(engine, op, << a, b >>) \in InstrsOver(ss)
<1>1. << a, b >> \in Seq(LogicalRegister) /\ \A k \in DOMAIN << a, b >> : RegisterOver(<< a, b >>[k], ss)
  OBVIOUS
<1>2. op \in Opcodes /\ 0 \in Int /\ engine \in {"load", "store", "flow"}  BY DEF Opcodes
<1> QED BY <1>1, <1>2, InstrOver DEF LI

\* and a choice between two vectors.
LEMMA SelectOver ==
  ASSUME NEW ss, NEW dest \in RegistersOver(ss, TRUE, FALSE), NEW flag \in RegistersOver(ss, TRUE, TRUE),
         NEW a \in RegistersOver(ss, TRUE, TRUE), NEW b \in RegistersOver(ss, TRUE, TRUE)
  PROVE  LI("flow", "vselect", << dest, flag, a, b >>) \in InstrsOver(ss)
<1> DEFINE args == << dest, flag, a, b >>
<1>1. \A r \in {dest, flag, a, b} : r \in LogicalRegister /\ RegisterOver(r, ss)  BY DEF RegistersOver
<1>2. args \in Seq(LogicalRegister) /\ \A k \in DOMAIN args : args[k] \in {dest, flag, a, b}  BY <1>1
<1> HIDE DEF args
<1>3. \A k \in DOMAIN args : RegisterOver(args[k], ss)  BY <1>1, <1>2
<1>4. "vselect" \in Opcodes /\ 0 \in Int  BY DEF Opcodes
<1>5. [engine |-> "flow", op |-> "vselect", args |-> args, val |-> 0] \in InstrsOver(ss)
  BY <1>2, <1>3, <1>4, InstrOver
<1> QED BY <1>5 DEF LI, args

-----------------------------------------------------------------------------
(* Expressions, as the grammar has them *)

BinOps(names) ==
  {[kind |-> "bin_op", args |-> << a, op, b >>] : a \in Atoms(names), op \in Operations, b \in Atoms(names)}
MultAdds(names) ==
  {[kind |-> "mult_add", args |-> << a, b, c >>] : a \in NameNodes(names), b \in Atoms(names), c \in Atoms(names)}
Conditions(names) ==
  {[kind |-> "cond", args |-> << a, op, b >>] : a \in Atoms(names), op \in {"<", "=="}, b \in Atoms(names)}
Selects(names) ==
  {[kind |-> "select", args |-> << flag, a, b >>] :
     flag \in NameNodes(names) \cup Conditions(names), a \in Atoms(names), b \in Atoms(names)}
DerefWords(names) == {[kind |-> "deref_words", args |-> << n >>] : n \in NameNodes(names)}
Derefs(names) == {[kind |-> "deref", args |-> << n >>] : n \in NameNodes(names)}
DerefConsts == {[kind |-> "deref_const", args |-> << i >>] : i \in IntNodes}
Indices == {<< >>} \cup {<< "[", i, close >> : i \in IntNodes, close \in {"]", << >>}}
Variables(names) == {[kind |-> "variable", args |-> << n, index >>] : n \in NameNodes(names), index \in Indices}
Expressions(names) ==
  BinOps(names) \cup MultAdds(names) \cup Selects(names) \cup DerefWords(names) \cup Derefs(names)
    \cup DerefConsts \cup Variables(names) \cup IntNodes

\* The variable assigned to is a vector if it was declared as one; numbers are as wide, or words.
IntoVector(ss, lname) == IsVector(VarMetaOf(ss, lname))
NumbersHeld(tt, e, vec) ==
  \A i \in DOMAIN Operands(e) :
    IsInt(Operands(e)[i]) => HasVariable(tt, ConstantName(Value(Operands(e)[i]), vec))

\* The variable itself, to write or to read.
LEMMA AssignedOver ==
  ASSUME NEW conc \in Nat \ {0}, NEW ss, LaidOut(ss, conc), NEW tt, LaidOut(tt, conc), Keeps(ss, tt),
         NEW lname, HasVariable(ss, lname), NEW read \in BOOLEAN
  PROVE  /\ IntoVector(ss, lname) \in BOOLEAN /\ HasVariable(tt, lname) /\ lname \in STRING
         /\ tt.var_meta[lname] = ss.var_meta[lname]
         /\ IntoVector(ss, lname) => tt.var_meta[lname].length = VLEN
         /\ LR(lname, 0, IntoVector(ss, lname), read) \in RegistersOver(tt, IntoVector(ss, lname), read)
<1>1. /\ IntoVector(ss, lname) \in BOOLEAN
      /\ IntoVector(ss, lname) => ss.var_meta[lname].length = VLEN
  BY VectorLengths DEF IntoVector
<1>2. HasVariable(tt, lname) /\ tt.var_meta[lname] = ss.var_meta[lname]  BY DEF Keeps, HasVariable
<1>3. lname \in STRING  BY LengthsOf
<1>4. LR(lname, 0, IntoVector(ss, lname), read) \in RegistersOver(tt, IntoVector(ss, lname), read)
  BY <1>1, <1>2, VariableOver
<1> QED BY <1>1, <1>2, <1>3, <1>4

\* An operation on two operands
LEMMA BinOpOver ==
  ASSUME NEW names, NEW conc \in Nat \ {0},
         NEW ss, LaidOut(ss, conc), NEW tt, LaidOut(tt, conc), Keeps(ss, tt), NEW lname,
         NEW e \in BinOps(names), WellTyped(ss, lname, e), NumbersHeld(tt, e, IntoVector(ss, lname))
  PROVE  AssignmentInstrs(ss, lname, e) \in Seq(InstrsOver(tt))
<1>1. PICK a \in Atoms(names), op \in Operations, b \in Atoms(names) :
        e = [kind |-> "bin_op", args |-> << a, op, b >>]
  BY DEF BinOps
<1>2. e.kind = "bin_op" /\ e.args[1] = a /\ e.args[2] = op /\ e.args[3] = b  BY <1>1
<1>3. Operands(e) = << a, b >>  BY <1>2 DEF Operands
<1> DEFINE vec == IntoVector(ss, lname)
           dest == WriteVariable(lname, vec)
           x == ReadOperand(a, vec)
           y == ReadOperand(b, vec)
           lin == LI(IF vec THEN "valu" ELSE "alu", op, << dest, x, y >>)
<1>4. HasVariable(ss, lname) /\ Checked(ss, a, vec) /\ Checked(ss, b, vec)
  <2>1. HasVariable(ss, lname) /\ \A i \in DOMAIN Operands(e) : Checked(ss, Operands(e)[i], vec)
    BY <1>2 DEF WellTyped, IntoVector
  <2>2. DOMAIN << a, b >> = {1, 2} /\ << a, b >>[1] = a /\ << a, b >>[2] = b  OBVIOUS
  <2> HIDE DEF vec
  <2> QED BY <1>3, <2>1, <2>2
<1>5. /\ IsInt(a) => HasVariable(tt, ConstantName(Value(a), vec))
      /\ IsInt(b) => HasVariable(tt, ConstantName(Value(b), vec))
  <2>1. DOMAIN << a, b >> = {1, 2} /\ << a, b >>[1] = a /\ << a, b >>[2] = b  OBVIOUS
  <2> HIDE DEF vec
  <2> QED BY <1>3, <2>1 DEF NumbersHeld, vec
<1>6. vec \in BOOLEAN /\ dest \in RegistersOver(tt, vec, FALSE)
  <2>1. FALSE \in BOOLEAN  OBVIOUS
  <2> QED BY <1>4, <2>1, AssignedOver DEF WriteVariable
<1>7. AssignmentInstrs(ss, lname, e) = << lin >>
  <2>1. e.kind \notin {"deref_words", "deref", "deref_const"}  BY <1>2
  <2> QED BY <1>2, <2>1 DEF AssignmentInstrs, IntoVector
<1> HIDE DEF vec
<1>8. Usable(tt, a, vec) /\ Usable(tt, b, vec)  BY <1>4, <1>5, UsableOn DEF Usable
<1>9. x \in RegistersOver(tt, vec, TRUE) /\ y \in RegistersOver(tt, vec, TRUE)  BY <1>6, <1>8, OperandOver
<1> HIDE DEF dest, x, y
<1>10. lin \in InstrsOver(tt)
  <2>1. CASE vec
    <3>1. vec = TRUE  BY <1>6, <2>1
    <3> QED BY <1>6, <1>9, <3>1, ValuOver
  <2>2. CASE ~vec
    <3>1. vec = FALSE  BY <1>6, <2>2
    <3> QED BY <1>6, <1>9, <3>1, AluOver
  <2> QED BY <2>1, <2>2
<1> HIDE DEF lin
<1> QED BY <1>7, <1>10, SequenceOfOne

\* or on three.
LEMMA MultAddOver ==
  ASSUME NEW names, NEW conc \in Nat \ {0},
         NEW ss, LaidOut(ss, conc), NEW tt, LaidOut(tt, conc), Keeps(ss, tt), NEW lname,
         NEW e \in MultAdds(names), WellTyped(ss, lname, e), NumbersHeld(tt, e, IntoVector(ss, lname))
  PROVE  AssignmentInstrs(ss, lname, e) \in Seq(InstrsOver(tt))
<1>1. PICK a \in NameNodes(names), b \in Atoms(names), c \in Atoms(names) :
        e = [kind |-> "mult_add", args |-> << a, b, c >>]
  BY DEF MultAdds
<1>2. e.kind = "mult_add" /\ e.args[1] = a /\ e.args[2] = b /\ e.args[3] = c  BY <1>1
<1>3. Operands(e) = << b, c >>  BY <1>2 DEF Operands
<1> DEFINE vec == IntoVector(ss, lname)
           dest == WriteVariable(lname, vec)
           lin == LI("valu", "multiply_add",
                     << dest, ReadOperand(a, TRUE), ReadOperand(b, TRUE), ReadOperand(c, TRUE) >>)
<1>4. HasVariable(ss, lname) /\ vec = TRUE /\ Checked(ss, a, TRUE) /\ Checked(ss, b, vec) /\ Checked(ss, c, vec)
  <2>1. /\ HasVariable(ss, lname) /\ vec /\ Checked(ss, a, TRUE)
        /\ \A i \in DOMAIN Operands(e) : Checked(ss, Operands(e)[i], vec)
    BY <1>2 DEF WellTyped, IntoVector
  <2>2. DOMAIN << b, c >> = {1, 2} /\ << b, c >>[1] = b /\ << b, c >>[2] = c  BY <1>1
  <2>3. vec \in BOOLEAN  BY DEF IntoVector, IsVector
  <2> HIDE DEF vec
  <2> QED BY <1>3, <2>1, <2>2, <2>3
<1>5. /\ IsInt(b) => HasVariable(tt, ConstantName(Value(b), vec))
      /\ IsInt(c) => HasVariable(tt, ConstantName(Value(c), vec))
  <2>1. DOMAIN << b, c >> = {1, 2} /\ << b, c >>[1] = b /\ << b, c >>[2] = c  BY <1>1
  <2> HIDE DEF vec
  <2> QED BY <1>3, <2>1 DEF NumbersHeld, vec
<1>6. dest \in RegistersOver(tt, vec, FALSE)
  <2>1. FALSE \in BOOLEAN  OBVIOUS
  <2> QED BY <1>4, <2>1, AssignedOver DEF WriteVariable
<1>7. AssignmentInstrs(ss, lname, e) = << lin >>
  <2>1. e.kind \notin {"deref_words", "deref", "deref_const", "bin_op"}  BY <1>2
  <2> QED BY <1>2, <2>1 DEF AssignmentInstrs, IntoVector
<1> HIDE DEF vec
<1>8. a \in Atoms(names) /\ ~IsInt(a)
  <2>1. PICK n \in names : a = [kind |-> "name", args |-> << n >>]  BY DEF NameNodes
  <2>2. a.kind = "name"  BY <2>1
  <2> QED BY <2>2 DEF Atoms, IsInt
<1>9. Usable(tt, a, TRUE) /\ Usable(tt, b, TRUE) /\ Usable(tt, c, TRUE)
  <2>1. Usable(tt, a, TRUE)  BY <1>4, <1>8, UsableOn
  <2>2. Usable(tt, b, vec) /\ Usable(tt, c, vec)  BY <1>4, <1>5, UsableOn DEF Usable
  <2> QED BY <1>4, <2>1, <2>2
<1>10. TRUE \in BOOLEAN  OBVIOUS
<1>11. /\ ReadOperand(a, TRUE) \in RegistersOver(tt, TRUE, TRUE)
       /\ ReadOperand(b, TRUE) \in RegistersOver(tt, TRUE, TRUE)
       /\ ReadOperand(c, TRUE) \in RegistersOver(tt, TRUE, TRUE)
  BY <1>8, <1>9, <1>10, OperandOver
<1> HIDE DEF dest
<1>12. lin \in InstrsOver(tt)  BY <1>4, <1>6, <1>11, MultiplyAddOver
<1> HIDE DEF lin
<1> QED BY <1>7, <1>12, SequenceOfOne

\* A comparison goes into the variable itself, which then chooses what it becomes.
LEMMA SelectedOver ==
  ASSUME NEW names, NEW conc \in Nat \ {0},
         NEW ss, LaidOut(ss, conc), NEW tt, LaidOut(tt, conc), Keeps(ss, tt), NEW lname,
         NEW e \in Selects(names), WellTyped(ss, lname, e), NumbersHeld(tt, e, IntoVector(ss, lname))
  PROVE  AssignmentInstrs(ss, lname, e) \in Seq(InstrsOver(tt))
<1>1. PICK flag \in NameNodes(names) \cup Conditions(names), a \in Atoms(names), b \in Atoms(names) :
        e = [kind |-> "select", args |-> << flag, a, b >>]
  BY DEF Selects
<1>2. e.kind = "select" /\ e.args[1] = flag /\ e.args[2] = a /\ e.args[3] = b  BY <1>1
<1> DEFINE vec == IntoVector(ss, lname)
           dest == WriteVariable(lname, TRUE)
           x == ReadOperand(a, TRUE)
           y == ReadOperand(b, TRUE)
           choose(r) == LI("flow", "vselect", << dest, r, x, y >>)
<1>3. HasVariable(ss, lname) /\ vec = TRUE /\ \A i \in DOMAIN Operands(e) : Checked(ss, Operands(e)[i], TRUE)
  <2>1. HasVariable(ss, lname) /\ vec /\ \A i \in DOMAIN Operands(e) : Checked(ss, Operands(e)[i], vec)
    BY <1>2 DEF WellTyped, IntoVector
  <2>2. vec \in BOOLEAN  BY DEF IntoVector, IsVector
  <2> HIDE DEF vec
  <2>3. vec = TRUE  BY <2>1, <2>2
  <2> QED BY <2>1, <2>3
<1>4. NumbersHeld(tt, e, TRUE)  BY <1>3
<1>5. dest \in RegistersOver(tt, TRUE, FALSE) /\ ReadVec(lname) \in RegistersOver(tt, TRUE, TRUE)
  <2>1. TRUE \in BOOLEAN /\ FALSE \in BOOLEAN  OBVIOUS
  <2>2. \A read \in BOOLEAN : LR(lname, 0, vec, read) \in RegistersOver(tt, vec, read)  BY <1>3, AssignedOver
  <2>3. LR(lname, 0, TRUE, FALSE) \in RegistersOver(tt, TRUE, FALSE) /\ LR(lname, 0, TRUE, TRUE) \in RegistersOver(tt, TRUE, TRUE)
    BY <1>3, <2>1, <2>2
  <2> QED BY <2>3 DEF WriteVariable, ReadVec
<1>6. AssignmentInstrs(ss, lname, e) = SelectInstrs(lname, e)
  <2>1. e.kind \notin {"deref_words", "deref", "deref_const", "bin_op", "mult_add"}  BY <1>2
  <2> QED BY <1>2, <2>1 DEF AssignmentInstrs
<1>7. ASSUME NEW z \in Atoms(names), NEW i \in DOMAIN Operands(e), Operands(e)[i] = z
      PROVE  ReadOperand(z, TRUE) \in RegistersOver(tt, TRUE, TRUE)
  <2>1. Checked(ss, z, TRUE) /\ (IsInt(z) => HasVariable(tt, ConstantName(Value(z), TRUE)))
    BY <1>3, <1>4, <1>7 DEF NumbersHeld
  <2>2. Usable(tt, z, TRUE)  BY <2>1, UsableOn DEF Usable
  <2>3. TRUE \in BOOLEAN  OBVIOUS
  <2> QED BY <2>2, <2>3, OperandOver
<1>8. CASE flag \in NameNodes(names)
  <2>1. PICK n \in names : flag = [kind |-> "name", args |-> << n >>]  BY <1>8 DEF NameNodes
  <2>2. flag.kind = "name" /\ flag.kind # "cond"  BY <2>1
  <2>3. Operands(e) = << >> \o << a, b >>  BY <1>2, <2>2 DEF Operands
  <2>4. << >> \o << a, b >> = << a, b >>
    <3>1. << a, b >> \in Seq(Atoms(names))  OBVIOUS
    <3> QED BY <3>1, ConcatEmptySeq
  <2>5. DOMAIN << a, b >> = {1, 2} /\ << a, b >>[1] = a /\ << a, b >>[2] = b  BY <1>1
  <2>6. x \in RegistersOver(tt, TRUE, TRUE) /\ y \in RegistersOver(tt, TRUE, TRUE)
    <3>1. 1 \in DOMAIN Operands(e) /\ 2 \in DOMAIN Operands(e) /\ Operands(e)[1] = a /\ Operands(e)[2] = b
      BY <2>3, <2>4, <2>5
    <3> QED BY <1>7, <3>1
  <2>7. Checked(ss, flag, TRUE)  BY <1>2, <1>3, <2>2 DEF WellTyped
  <2>8. flag \in Atoms(names) /\ ~IsInt(flag)  BY <1>8, <2>2 DEF Atoms, IsInt
  <2>9. ReadOperand(flag, TRUE) \in RegistersOver(tt, TRUE, TRUE)
    <3>1. Usable(tt, flag, TRUE)  BY <2>7, <2>8, UsableOn
    <3>2. TRUE \in BOOLEAN  OBVIOUS
    <3> QED BY <2>8, <3>1, <3>2, OperandOver
  <2>10. SelectInstrs(lname, e) = << choose(ReadOperand(flag, TRUE)) >>  BY <1>2, <2>2 DEF SelectInstrs
  <2> HIDE DEF dest, x, y
  <2>11. choose(ReadOperand(flag, TRUE)) \in InstrsOver(tt)  BY <1>5, <2>6, <2>9, SelectOver
  <2> HIDE DEF choose
  <2> QED BY <1>6, <2>10, <2>11, SequenceOfOne
<1>9. CASE flag \in Conditions(names)
  <2>1. PICK c \in Atoms(names), op \in {"<", "=="}, d \in Atoms(names) :
          flag = [kind |-> "cond", args |-> << c, op, d >>]
    BY <1>9 DEF Conditions
  <2>2. flag.kind = "cond" /\ flag.args[1] = c /\ flag.args[2] = op /\ flag.args[3] = d  BY <2>1
  <2>3. Operands(e) = << c, d >> \o << a, b >>  BY <1>2, <2>2 DEF Operands
  <2>4. LET s == << c, d >> \o << a, b >>
        IN  DOMAIN s = 1 .. 4 /\ s[1] = c /\ s[2] = d /\ s[3] = a /\ s[4] = b
    BY <1>1, <2>1, PairsJoin
  <2>5. /\ DOMAIN Operands(e) = 1 .. 4
        /\ Operands(e)[1] = c /\ Operands(e)[2] = d /\ Operands(e)[3] = a /\ Operands(e)[4] = b
    BY <2>3, <2>4
  <2>6. /\ x \in RegistersOver(tt, TRUE, TRUE) /\ y \in RegistersOver(tt, TRUE, TRUE)
        /\ ReadOperand(c, TRUE) \in RegistersOver(tt, TRUE, TRUE) /\ ReadOperand(d, TRUE) \in RegistersOver(tt, TRUE, TRUE)
    <3>1. /\ 1 \in DOMAIN Operands(e) /\ 2 \in DOMAIN Operands(e) /\ 3 \in DOMAIN Operands(e) /\ 4 \in DOMAIN Operands(e)
          /\ Operands(e)[1] = c /\ Operands(e)[2] = d /\ Operands(e)[3] = a /\ Operands(e)[4] = b
      BY <2>5
    <3> QED BY <1>7, <3>1
  <2> DEFINE compare == LI("valu", op, << dest, ReadOperand(c, TRUE), ReadOperand(d, TRUE) >>)
  <2>7. SelectInstrs(lname, e) = << compare, choose(ReadVec(lname)) >>  BY <1>2, <2>2 DEF SelectInstrs
  <2> HIDE DEF dest, x, y
  <2>8. op \in Operations  BY DEF Operations
  <2>9. compare \in InstrsOver(tt)  BY <1>5, <2>6, <2>8, ValuOver
  <2>10. choose(ReadVec(lname)) \in InstrsOver(tt)  BY <1>5, <2>6, SelectOver
  <2> HIDE DEF choose, compare
  <2>11. << compare, choose(ReadVec(lname)) >> \in Seq(InstrsOver(tt))  BY <2>9, <2>10
  <2> QED BY <1>6, <2>7, <2>11
<1> QED BY <1>1, <1>8, <1>9

\* A word of a variable is a register over the layout.
LEMMA OffsetOver ==
  ASSUME NEW conc \in Nat \ {0}, NEW ss, LaidOut(ss, conc), NEW name, HasVariable(ss, name),
         NEW offset \in Nat, offset < ss.var_meta[name].length, NEW read \in BOOLEAN
  PROVE  LR(name, offset, FALSE, read) \in RegistersOver(ss, FALSE, read)
<1>1. name \in STRING  BY LengthsOf
<1>2. LR(name, offset, FALSE, read) \in LogicalRegister  BY <1>1 DEF LR, LogicalRegister
<1>3. RegisterOver(LR(name, offset, FALSE, read), ss)  BY DEF LR, RegisterOver
<1>4. LET r == LR(name, offset, FALSE, read) IN (r.is_vector <=> FALSE) /\ (r.is_read <=> read)  BY LRIs
<1> DEFINE r == LR(name, offset, FALSE, read)
<1>5. r \in LogicalRegister /\ RegisterOver(r, ss) /\ (r.is_vector <=> FALSE) /\ (r.is_read <=> read)
  BY <1>2, <1>3, <1>4
<1> HIDE DEF r
<1>6. r \in RegistersOver(ss, FALSE, read)  BY <1>5 DEF RegistersOver
<1> QED BY <1>6 DEF r

\* Word by word from the addresses in a vector
LEMMA DerefWordsOver ==
  ASSUME NEW names, NEW conc \in Nat \ {0},
         NEW ss, LaidOut(ss, conc), NEW tt, LaidOut(tt, conc), Keeps(ss, tt), NEW lname,
         NEW e \in DerefWords(names), WellTyped(ss, lname, e)
  PROVE  AssignmentInstrs(ss, lname, e) \in Seq(InstrsOver(tt))
<1>1. PICK x \in NameNodes(names) : e = [kind |-> "deref_words", args |-> << x >>]  BY DEF DerefWords
<1>2. e.kind = "deref_words" /\ e.args[1] = x  BY <1>1
<1>3. IsName(x) /\ ~IsInt(x)
  <2>1. PICK n \in names : x = [kind |-> "name", args |-> << n >>]  BY DEF NameNodes
  <2>2. x.kind = "name"  BY <2>1
  <2> QED BY <2>2 DEF IsName, IsInt
<1> DEFINE name == Name(x)
<1>4. HasVariable(ss, lname) /\ IntoVector(ss, lname) /\ HasVariable(ss, name) /\ IntoVector(ss, name)
  <2>1. HasVariable(ss, lname) /\ IsVector(VarMetaOf(ss, lname)) /\ Checked(ss, x, TRUE)  BY <1>2 DEF WellTyped
  <2> QED BY <1>3, <2>1 DEF Checked, IntoVector
<1> HIDE DEF name
<1>5. /\ HasVariable(tt, lname) /\ tt.var_meta[lname].length = VLEN
      /\ HasVariable(tt, name) /\ tt.var_meta[name].length = VLEN
  <2>1. TRUE \in BOOLEAN  OBVIOUS
  <2> QED BY <1>4, <2>1, AssignedOver
<1> DEFINE move(i) == LI("load", "load", << LR(lname, i - 1, FALSE, FALSE), LR(name, i - 1, FALSE, TRUE) >>)
           moves == [i \in 1 .. VLEN |-> move(i)]
<1>6. AssignmentInstrs(ss, lname, e) = moves  BY <1>2 DEF AssignmentInstrs, name
<1>7. VLEN \in Nat  BY VectorLength
<1>8. \A i \in 1 .. VLEN : move(i) \in InstrsOver(tt)
  <2> TAKE i \in 1 .. VLEN
  <2>1. i - 1 \in Nat /\ i - 1 < VLEN /\ TRUE \in BOOLEAN /\ FALSE \in BOOLEAN  BY <1>7
  <2>2. LR(lname, i - 1, FALSE, FALSE) \in RegistersOver(tt, FALSE, FALSE)
    BY <1>5, <2>1, OffsetOver
  <2>3. LR(name, i - 1, FALSE, TRUE) \in RegistersOver(tt, FALSE, TRUE)
    BY <1>5, <2>1, OffsetOver
  <2> DEFINE a == LR(lname, i - 1, FALSE, FALSE)
             b == LR(name, i - 1, FALSE, TRUE)
  <2>4. a \in LogicalRegister /\ RegisterOver(a, tt) /\ b \in LogicalRegister /\ RegisterOver(b, tt)
    BY <2>2, <2>3 DEF RegistersOver
  <2> HIDE DEF a, b
  <2>5. LI("load", "load", << a, b >>) \in InstrsOver(tt)  BY <2>4, MoveOver
  <2> QED BY <2>5 DEF a, b
<1> HIDE DEF move
<1>9. moves \in [1 .. VLEN -> InstrsOver(tt)]  BY <1>8
<1> HIDE DEF moves
<1> QED BY <1>6, <1>7, <1>9, SequenceOver

\* or from one address.
LEMMA DerefOver ==
  ASSUME NEW names, NEW conc \in Nat \ {0},
         NEW ss, LaidOut(ss, conc), NEW tt, LaidOut(tt, conc), Keeps(ss, tt), NEW lname,
         NEW e \in Derefs(names) \cup DerefConsts, WellTyped(ss, lname, e), NumbersHeld(tt, e, FALSE)
  PROVE  HasVariable(ss, lname) => AssignmentInstrs(ss, lname, e) \in Seq(InstrsOver(tt))
<1> SUFFICES ASSUME HasVariable(ss, lname) PROVE AssignmentInstrs(ss, lname, e) \in Seq(InstrsOver(tt))
  OBVIOUS
<1> DEFINE vec == IntoVector(ss, lname)
           dest == WriteVariable(lname, vec)
           x == e.args[1]
           addr == ReadOperand(x, FALSE)
           lin == LI("load", IF vec THEN "vload" ELSE "load", << dest, addr >>)
<1>1. e.kind \in {"deref", "deref_const"} /\ x \in Atoms(names)
  <2>1. CASE e \in Derefs(names)
    <3>1. PICK n \in NameNodes(names) : e = [kind |-> "deref", args |-> << n >>]  BY <2>1 DEF Derefs
    <3>2. e.kind = "deref" /\ e.args[1] = n  BY <3>1
    <3> QED BY <3>2 DEF Atoms
  <2>2. CASE e \in DerefConsts
    <3>1. PICK n \in IntNodes : e = [kind |-> "deref_const", args |-> << n >>]  BY <2>2 DEF DerefConsts
    <3>2. e.kind = "deref_const" /\ e.args[1] = n  BY <3>1
    <3> QED BY <3>2 DEF Atoms
  <2> QED BY <2>1, <2>2
<1>2. Usable(tt, x, FALSE)
  <2>1. CASE e \in Derefs(names)
    <3>1. PICK n \in NameNodes(names) : e = [kind |-> "deref", args |-> << n >>]  BY <2>1 DEF Derefs
    <3>2. e.kind = "deref" /\ x = n  BY <3>1
    <3>3. PICK m \in names : n = [kind |-> "name", args |-> << m >>]  BY DEF NameNodes
    <3>4. n.kind = "name"  BY <3>3
    <3>5. ~IsInt(x)  BY <3>2, <3>4 DEF IsInt
    <3>6. Checked(ss, x, FALSE)  BY <3>2 DEF WellTyped
    <3> HIDE DEF x
    <3> QED BY <1>1, <3>5, <3>6, UsableOn
  <2>2. CASE e \in DerefConsts
    <3>1. PICK n \in IntNodes : e = [kind |-> "deref_const", args |-> << n >>]  BY <2>2 DEF DerefConsts
    <3>2. e.kind = "deref_const" /\ x = n  BY <3>1
    <3>3. PICK v \in Int : n = [kind |-> "int", args |-> << v >>]  BY DEF IntNodes
    <3>4. n.kind = "int"  BY <3>3
    <3>5. IsInt(x)  BY <3>2, <3>4 DEF IsInt
    <3>6. Operands(e) = << x >>  BY <3>2 DEF Operands
    <3>7. 1 \in DOMAIN << x >> /\ << x >>[1] = x  OBVIOUS
    <3> HIDE DEF x
    <3> QED BY <3>5, <3>6, <3>7 DEF NumbersHeld, Usable
  <2> QED BY <2>1, <2>2
<1>3. vec \in BOOLEAN /\ dest \in RegistersOver(tt, vec, FALSE)
  <2>1. FALSE \in BOOLEAN  OBVIOUS
  <2> QED BY <2>1, AssignedOver DEF WriteVariable
<1>4. addr \in RegistersOver(tt, FALSE, TRUE)
  <2> HIDE DEF x
  <2>1. FALSE \in BOOLEAN  OBVIOUS
  <2> QED BY <1>1, <1>2, <2>1, OperandOver
<1>5. AssignmentInstrs(ss, lname, e) = << lin >>
  <2>1. e.kind # "deref_words"  BY <1>1
  <2> QED BY <1>1, <2>1 DEF AssignmentInstrs, IntoVector
<1>6. dest \in LogicalRegister /\ RegisterOver(dest, tt) /\ addr \in LogicalRegister /\ RegisterOver(addr, tt)
  BY <1>3, <1>4 DEF RegistersOver
<1> HIDE DEF dest, addr, x, vec
<1>7. lin \in InstrsOver(tt)
  <2>1. (IF vec THEN "vload" ELSE "load") \in {"load", "vload", "store", "vstore"}  OBVIOUS
  <2> QED BY <1>6, <2>1, MoveOver
<1> HIDE DEF lin
<1> QED BY <1>5, <1>7, SequenceOfOne

\* A number is loaded, or broadcast from the word that holds it,
LEMMA IntOver ==
  ASSUME NEW names, NEW conc \in Nat \ {0},
         NEW ss, LaidOut(ss, conc), NEW tt, LaidOut(tt, conc), Keeps(ss, tt), NEW lname,
         NEW e \in IntNodes, WellTyped(ss, lname, e), IntoVector(ss, lname) => NumbersHeld(tt, e, FALSE)
  PROVE  AssignmentInstrs(ss, lname, e) \in Seq(InstrsOver(tt))
<1> DEFINE vec == IntoVector(ss, lname)
           dest == WriteVariable(lname, vec)
           lin == IF vec THEN Broadcast(dest, ReadOperand(e, FALSE)) ELSE Const(dest, Value(e))
<1>1. e.kind = "int" /\ e \in Atoms(names)
  <2>1. PICK v \in Int : e = [kind |-> "int", args |-> << v >>]  BY DEF IntNodes
  <2> QED BY <2>1 DEF Atoms
<1>2. IsInt(e) /\ Value(e) \in Int
  <2>1. IsInt(e)  BY <1>1 DEF IsInt
  <2> QED BY <1>1, <2>1, AtomIs
<1>3. HasVariable(ss, lname)  BY DEF WellTyped
<1>4. AssignmentInstrs(ss, lname, e) = << lin >>
  <2>1. e.kind \notin {"deref_words", "deref", "deref_const", "bin_op", "mult_add", "select"}  BY <1>1
  <2> QED BY <1>1, <2>1 DEF AssignmentInstrs, IntoVector
<1>5. /\ vec \in BOOLEAN /\ HasVariable(tt, lname) /\ lname \in STRING
      /\ vec => tt.var_meta[lname].length = VLEN
  <2>1. TRUE \in BOOLEAN  OBVIOUS
  <2> QED BY <1>3, <2>1, AssignedOver
<1>6. CASE vec
  <2>1. vec = TRUE  BY <1>5, <1>6
  <2>2. Operands(e) = << e >>  BY <1>1 DEF Operands
  <2>3. 1 \in DOMAIN << e >> /\ << e >>[1] = e  OBVIOUS
  <2>4. Usable(tt, e, FALSE)  BY <1>2, <1>6, <2>2, <2>3 DEF NumbersHeld, Usable
  <2>5. FALSE \in BOOLEAN  OBVIOUS
  <2> DEFINE src == ReadOperand(e, FALSE)
  <2>6. src \in RegistersOver(tt, FALSE, TRUE)  BY <1>1, <2>4, <2>5, OperandOver
  <2> HIDE DEF src
  <2>7. src \in LogicalRegister /\ RegisterOver(src, tt) /\ src.is_read  BY <2>6 DEF RegistersOver
  <2>8. Broadcast(WriteVec(lname), src) \in InstrsOver(tt)  BY <1>5, <1>6, <2>7, BroadcastOver
  <2>9. lin = Broadcast(WriteVec(lname), src)  BY <2>1 DEF WriteVariable, WriteVec, src
  <2> HIDE DEF lin
  <2> QED BY <1>4, <2>8, <2>9, SequenceOfOne
<1>7. CASE ~vec
  <2>1. vec = FALSE  BY <1>5, <1>7
  <2>2. lin = Const(Write(lname), Value(e))  BY <2>1 DEF WriteVariable, Write
  <2>3. Const(Write(lname), Value(e)) \in InstrsOver(tt)  BY <1>2, <1>5, ConstOver
  <2> HIDE DEF lin
  <2> QED BY <1>4, <2>2, <2>3, SequenceOfOne
<1> QED BY <1>6, <1>7

\* and a variable copied.
LEMMA CopyOver ==
  ASSUME NEW names, NEW conc \in Nat \ {0},
         NEW ss, LaidOut(ss, conc), NEW tt, LaidOut(tt, conc), Keeps(ss, tt), NEW lname,
         NEW e \in Variables(names), WellTyped(ss, lname, e)
  PROVE  AssignmentInstrs(ss, lname, e) \in Seq(InstrsOver(tt))
<1>1. PICK n \in NameNodes(names), index \in Indices : e = [kind |-> "variable", args |-> << n, index >>]
  BY DEF Variables
<1>2. e.kind = "variable" /\ e.args[1] = n  BY <1>1
<1> DEFINE vec == IntoVector(ss, lname)
           name == Name(n)
           offset == IndexOf(e)
           rhs == LR(name, offset, FALSE, TRUE)
<1>3. HasVariable(ss, lname) /\ HasVariable(ss, name) /\ offset \in 0 .. ss.var_meta[name].length - 1
  BY <1>2 DEF WellTyped, VarMetaOf
<1>4. AssignmentInstrs(ss, lname, e) = << CopyInstr(lname, vec, e) >>
  <2>1. e.kind \notin {"deref_words", "deref", "deref_const", "bin_op", "mult_add", "select", "int"}  BY <1>2
  <2> QED BY <1>2, <2>1 DEF AssignmentInstrs, IntoVector
<1>5. /\ vec \in BOOLEAN /\ HasVariable(tt, lname) /\ lname \in STRING
      /\ vec => tt.var_meta[lname].length = VLEN
      /\ LR(lname, 0, vec, FALSE) \in RegistersOver(tt, vec, FALSE)
  <2>1. FALSE \in BOOLEAN  OBVIOUS
  <2> QED BY <1>3, <2>1, AssignedOver
<1> HIDE DEF vec, name, offset
<1>6. HasVariable(tt, name) /\ tt.var_meta[name].length = ss.var_meta[name].length
  BY <1>3 DEF Keeps, HasVariable
<1>7. ss.var_meta[name].length \in Nat  BY <1>3, LengthsOf
<1>8. offset \in Nat /\ offset < tt.var_meta[name].length /\ TRUE \in BOOLEAN  BY <1>3, <1>6, <1>7
<1>9. rhs \in RegistersOver(tt, FALSE, TRUE)  BY <1>6, <1>8, OffsetOver
<1>10. CopyInstr(lname, vec, e) =
         IF vec THEN Broadcast(WriteVec(lname), rhs) ELSE LI("alu", "|", << Write(lname), rhs, rhs >>)
  BY <1>2 DEF CopyInstr, name, offset
<1> HIDE DEF rhs
<1>11. CASE vec
  <2>1. rhs \in LogicalRegister /\ RegisterOver(rhs, tt) /\ rhs.is_read  BY <1>9 DEF RegistersOver
  <2>2. Broadcast(WriteVec(lname), rhs) \in InstrsOver(tt)  BY <1>5, <1>11, <2>1, BroadcastOver
  <2>3. CopyInstr(lname, vec, e) \in InstrsOver(tt)  BY <1>10, <1>11, <2>2
  <2> QED BY <1>4, <2>3, SequenceOfOne
<1>12. CASE ~vec
  <2>1. vec = FALSE  BY <1>5, <1>12
  <2>2. Write(lname) \in RegistersOver(tt, FALSE, FALSE)  BY <1>5, <2>1 DEF Write
  <2>3. LI("alu", "|", << Write(lname), rhs, rhs >>) \in InstrsOver(tt)
    <3>1. "|" \in Operations \cup {"|"}  OBVIOUS
    <3> QED BY <1>9, <2>2, <3>1, AluOver
  <2>4. CopyInstr(lname, vec, e) \in InstrsOver(tt)  BY <1>10, <1>12, <2>3
  <2> QED BY <1>4, <2>4, SequenceOfOne
<1> QED BY <1>11, <1>12

\* What may be a number is a number or a name.
LEMMA OperandsAre ==
  ASSUME NEW names, NEW e \in Expressions(names)
  PROVE  Operands(e) \in Seq(Atoms(names))
<1>1. CASE e \in BinOps(names)
  <2>1. PICK a \in Atoms(names), op \in Operations, b \in Atoms(names) :
          e = [kind |-> "bin_op", args |-> << a, op, b >>]
    BY <1>1 DEF BinOps
  <2>2. e.kind = "bin_op" /\ e.args[1] = a /\ e.args[3] = b  BY <2>1
  <2>3. Operands(e) = << a, b >>  BY <2>2 DEF Operands
  <2> QED BY <2>3
<1>2. CASE e \in MultAdds(names)
  <2>1. PICK a \in NameNodes(names), b \in Atoms(names), c \in Atoms(names) :
          e = [kind |-> "mult_add", args |-> << a, b, c >>]
    BY <1>2 DEF MultAdds
  <2>2. e.kind = "mult_add" /\ e.args[2] = b /\ e.args[3] = c  BY <2>1
  <2>3. Operands(e) = << b, c >>  BY <2>2 DEF Operands
  <2> QED BY <2>3
<1>3. CASE e \in Selects(names)
  <2>1. PICK flag \in NameNodes(names) \cup Conditions(names), a \in Atoms(names), b \in Atoms(names) :
          e = [kind |-> "select", args |-> << flag, a, b >>]
    BY <1>3 DEF Selects
  <2>2. e.kind = "select" /\ e.args[1] = flag /\ e.args[2] = a /\ e.args[3] = b  BY <2>1
  <2>3. << a, b >> \in Seq(Atoms(names))  OBVIOUS
  <2>4. CASE flag.kind # "cond"
    <3>1. Operands(e) = << >> \o << a, b >>  BY <2>2, <2>4 DEF Operands
    <3> QED BY <2>3, <3>1, ConcatEmptySeq
  <2>5. CASE flag.kind = "cond"
    <3>1. flag \in Conditions(names)
      <4>1. ASSUME flag \in NameNodes(names) PROVE FALSE
        <5>1. PICK n \in names : flag = [kind |-> "name", args |-> << n >>]  BY <4>1 DEF NameNodes
        <5>2. flag.kind = "name"  BY <5>1
        <5> QED BY <2>5, <5>2
      <4> QED BY <2>1, <4>1
    <3>2. PICK c \in Atoms(names), op \in {"<", "=="}, d \in Atoms(names) :
            flag = [kind |-> "cond", args |-> << c, op, d >>]
      BY <3>1 DEF Conditions
    <3>3. flag.args[1] = c /\ flag.args[3] = d  BY <3>2
    <3>4. Operands(e) = << c, d >> \o << a, b >>  BY <2>2, <2>5, <3>3 DEF Operands
    <3>5. << c, d >> \in Seq(Atoms(names))  BY <3>2
    <3> QED BY <2>3, <3>4, <3>5, ConcatProperties
  <2> QED BY <2>4, <2>5
<1>4. CASE e \in DerefWords(names) \cup Derefs(names) \cup Variables(names)
  <2>1. e.kind \in {"deref_words", "deref", "variable"}
    BY <1>4 DEF DerefWords, Derefs, Variables
  <2>2. Operands(e) = << >>  BY <2>1 DEF Operands
  <2> QED BY <2>2
<1>5. CASE e \in DerefConsts
  <2>1. PICK n \in IntNodes : e = [kind |-> "deref_const", args |-> << n >>]  BY <1>5 DEF DerefConsts
  <2>2. e.kind = "deref_const" /\ e.args[1] = n  BY <2>1
  <2>3. Operands(e) = << n >>  BY <2>2 DEF Operands
  <2> QED BY <2>3 DEF Atoms
<1>6. CASE e \in IntNodes
  <2>1. e.kind = "int"  BY <1>6 DEF IntNodes
  <2>2. Operands(e) = << e >>  BY <2>1 DEF Operands
  <2> QED BY <1>6, <2>2 DEF Atoms
<1> QED BY <1>1, <1>2, <1>3, <1>4, <1>5, <1>6 DEF Expressions

\* Whatever is assigned, its instructions are over variables of the layout, once its numbers are set up.
LEMMA AssignmentOver ==
  ASSUME NEW names, NamesApart(names), "tidxlen" \in names,
         NEW conc \in Nat \ {0}, NEW ir, Builds(ir, conc), NEW lname,
         NEW e \in Expressions(names), WellTyped(ir.ss, lname, e)
  PROVE  LET jr == SetUpNumbers(ir, e, IsVector(VarMetaOf(ir.ss, lname)))
         IN  /\ Builds(jr, conc) /\ SetsUp(ir, jr)
             /\ AssignmentInstrs(ir.ss, lname, e) \in Seq(InstrsOver(jr.ss))
<1> DEFINE vec == IntoVector(ir.ss, lname)
           wide == vec /\ e.kind \notin {"deref_const", "int"}
           jr == SetUpNumbers(ir, e, vec)
<1>1. Operands(e) \in Seq(Atoms(names)) /\ vec \in BOOLEAN  BY OperandsAre DEF IntoVector, IsVector
<1> HIDE DEF vec
<1>2. /\ Builds(jr, conc) /\ SetsUp(ir, jr)
      /\ e.kind # "int" \/ vec => NumbersHeld(jr.ss, e, wide)
  BY <1>1, NumbersSetUp DEF NumbersHeld
<1> HIDE DEF jr
<1>3. LaidOut(ir.ss, conc) /\ LaidOut(jr.ss, conc) /\ Keeps(ir.ss, jr.ss)  BY <1>2 DEF Builds, SetsUp
<1>4. AssignmentInstrs(ir.ss, lname, e) \in Seq(InstrsOver(jr.ss))
  <2>1. CASE e \in BinOps(names)
    <3>1. e.kind = "bin_op"  BY <2>1 DEF BinOps
    <3>2. NumbersHeld(jr.ss, e, vec)
      <4>1. wide = vec  BY <1>1, <3>1
      <4> QED BY <1>2, <3>1, <4>1
    <3> QED BY <1>3, <2>1, <3>2, BinOpOver DEF vec
  <2>2. CASE e \in MultAdds(names)
    <3>1. e.kind = "mult_add"  BY <2>2 DEF MultAdds
    <3>2. NumbersHeld(jr.ss, e, vec)
      <4>1. wide = vec  BY <1>1, <3>1
      <4> QED BY <1>2, <3>1, <4>1
    <3> QED BY <1>3, <2>2, <3>2, MultAddOver DEF vec
  <2>3. CASE e \in Selects(names)
    <3>1. e.kind = "select"  BY <2>3 DEF Selects
    <3>2. NumbersHeld(jr.ss, e, vec)
      <4>1. wide = vec  BY <1>1, <3>1
      <4> QED BY <1>2, <3>1, <4>1
    <3> QED BY <1>3, <2>3, <3>2, SelectedOver DEF vec
  <2>4. CASE e \in DerefWords(names)  BY <1>3, <2>4, DerefWordsOver
  <2>5. CASE e \in Derefs(names) \cup DerefConsts
    <3>1. NumbersHeld(jr.ss, e, FALSE)
      <4>1. CASE e \in Derefs(names)
        <5>1. e.kind = "deref"  BY <4>1 DEF Derefs
        <5>2. Operands(e) = << >>  BY <5>1 DEF Operands
        <5> QED BY <5>2 DEF NumbersHeld
      <4>2. CASE e \in DerefConsts
        <5>1. e.kind = "deref_const"  BY <4>2 DEF DerefConsts
        <5>2. wide = FALSE  BY <5>1
        <5> QED BY <1>2, <5>1, <5>2
      <4> QED BY <2>5, <4>1, <4>2
    <3>2. HasVariable(ir.ss, lname)  BY DEF WellTyped
    <3> QED BY <1>3, <2>5, <3>1, <3>2, DerefOver
  <2>6. CASE e \in IntNodes
    <3>1. e.kind = "int"  BY <2>6 DEF IntNodes
    <3>2. wide = FALSE  BY <3>1
    <3>3. vec => NumbersHeld(jr.ss, e, FALSE)  BY <1>2, <3>2
    <3> QED BY <1>3, <2>6, <3>3, IntOver DEF vec
  <2>7. CASE e \in Variables(names)  BY <1>3, <2>7, CopyOver
  <2> QED BY <2>1, <2>2, <2>3, <2>4, <2>5, <2>6, <2>7 DEF Expressions
<1> QED BY <1>2, <1>4 DEF jr, vec, IntoVector

-----------------------------------------------------------------------------
(* Handlers *)

\* A failed assertion leaves what has been built.
LEMMA StopsBuilding ==
  ASSUME NEW conc, NEW ir, Builds(ir, conc)
  PROVE  LET jr == [ir EXCEPT !.ok = FALSE]
         IN  Builds(jr, conc) /\ ~jr.ok /\ jr.num_threads = ir.num_threads /\ jr.ss = ir.ss
<1> DEFINE jr == [ir EXCEPT !.ok = FALSE]
<1>1. ir \in Pipelines(conc)  BY DEF Builds
<1>2. /\ jr \in Pipelines(conc) /\ jr.ok = FALSE /\ jr.num_threads = ir.num_threads /\ jr.ss = ir.ss
      /\ jr.globals = ir.globals /\ jr.locals = ir.locals
  BY <1>1 DEF Pipelines
<1> HIDE DEF jr
<1>3. ~jr.ok  BY <1>2
<1> QED BY <1>2, <1>3 DEF Builds, Compiled, jr

\* Statements of other threads follow.
LEMMA BuildsFor ==
  ASSUME NEW conc, NEW ir, Builds(ir, conc), NEW tids \in SUBSET Int
  PROVE  LET jr == [ir EXCEPT !.tids = tids]
         IN  Builds(jr, conc) /\ jr.num_threads = ir.num_threads /\ jr.ss = ir.ss
<1> DEFINE jr == [ir EXCEPT !.tids = tids]
<1>1. ir \in Pipelines(conc)  BY DEF Builds
<1>2. /\ jr \in Pipelines(conc) /\ jr.num_threads = ir.num_threads /\ jr.ss = ir.ss
      /\ jr.globals = ir.globals /\ jr.locals = ir.locals
  BY <1>1 DEF Pipelines
<1> HIDE DEF jr
<1> QED BY <1>2 DEF Builds, Compiled, jr

\* Handling an assignment
LEMMA HandlesAssignment ==
  ASSUME NEW names, NamesApart(names), "tidxlen" \in names,
         NEW conc \in Nat \ {0}, NEW ir, Builds(ir, conc), NEW lname,
         NEW e \in Expressions(names), NEW is_global \in BOOLEAN
  PROVE  LET jr == HandleAssignment(ir, lname, e, is_global)
         IN  Builds(jr, conc) /\ jr.num_threads = ir.num_threads
<1> DEFINE jr == HandleAssignment(ir, lname, e, is_global)
<1>1. CASE ~WellTyped(ir.ss, lname, e)
  <2>1. jr = [ir EXCEPT !.ok = FALSE]  BY <1>1 DEF HandleAssignment
  <2> QED BY <2>1, StopsBuilding
<1>2. CASE WellTyped(ir.ss, lname, e)
  <2> DEFINE mid == SetUpNumbers(ir, e, IsVector(VarMetaOf(ir.ss, lname)))
             lins == AssignmentInstrs(ir.ss, lname, e)
  <2>1. jr = AddInstrs(mid, is_global, lins)  BY <1>2 DEF HandleAssignment
  <2>2. Builds(mid, conc) /\ SetsUp(ir, mid) /\ lins \in Seq(InstrsOver(mid.ss))  BY <1>2, AssignmentOver
  <2> HIDE DEF mid, lins, jr
  <2>3. Builds(jr, conc) /\ jr.num_threads = mid.num_threads  BY <2>1, <2>2, AddsInstrs
  <2> QED BY <2>2, <2>3 DEF SetsUp, jr
<1> QED BY <1>1, <1>2

\* or a store leaves what is built well formed.
LEMMA HandlesStore ==
  ASSUME NEW names, NEW conc \in Nat \ {0}, NEW ir, Builds(ir, conc),
         NEW addr \in NameNodes(names), NEW e, NEW is_global \in BOOLEAN
  PROVE  LET jr == HandleStore(ir, addr, e, is_global)
         IN  Builds(jr, conc) /\ jr.num_threads = ir.num_threads
<1> DEFINE jr == HandleStore(ir, addr, e, is_global)
           src == Name(e.args[1])
           vec == IntoVector(ir.ss, src)
           lin == LI("store", IF vec THEN "vstore" ELSE "store", << Read(Name(addr)), WriteVariable(src, vec) >>)
<1>1. LaidOut(ir.ss, conc)  BY DEF Builds
<1>2. IsName(addr)
  <2>1. PICK n \in names : addr = [kind |-> "name", args |-> << n >>]  BY DEF NameNodes
  <2>2. addr.kind = "name"  BY <2>1
  <2> QED BY <2>2 DEF IsName
<1>3. CASE e.kind = "variable" /\ HasVariable(ir.ss, src) /\ Checked(ir.ss, addr, FALSE)
  <2>1. jr = AddInstrs(ir, is_global, << lin >>)  BY <1>3 DEF HandleStore, IntoVector
  <2>2. HasVariable(ir.ss, Name(addr))  BY <1>2, <1>3 DEF Checked
  <2>3. Keeps(ir.ss, ir.ss) /\ TRUE \in BOOLEAN /\ FALSE \in BOOLEAN  BY DEF Keeps
  <2>4. WriteVariable(src, vec) \in RegistersOver(ir.ss, vec, FALSE)
    <3>1. LR(src, 0, vec, FALSE) \in RegistersOver(ir.ss, vec, FALSE)
      BY <1>1, <1>3, <2>3, AssignedOver
    <3> QED BY <3>1 DEF WriteVariable
  <2>5. Read(Name(addr)) \in RegistersOver(ir.ss, FALSE, TRUE)
    <3>1. LR(Name(addr), 0, FALSE, TRUE) \in RegistersOver(ir.ss, FALSE, TRUE)
      BY <1>1, <2>2, <2>3, VariableOver
    <3> QED BY <3>1 DEF Read
  <2> DEFINE a == Read(Name(addr))
             b == WriteVariable(src, vec)
  <2>6. a \in LogicalRegister /\ RegisterOver(a, ir.ss) /\ b \in LogicalRegister /\ RegisterOver(b, ir.ss)
    BY <2>4, <2>5 DEF RegistersOver
  <2> HIDE DEF a, b, vec
  <2>7. LI("store", IF vec THEN "vstore" ELSE "store", << a, b >>) \in InstrsOver(ir.ss)
    <3>1. (IF vec THEN "vstore" ELSE "store") \in {"load", "vload", "store", "vstore"}  OBVIOUS
    <3> QED BY <2>6, <3>1, MoveOver
  <2>8. lin \in InstrsOver(ir.ss)  BY <2>7 DEF a, b
  <2> HIDE DEF lin, jr
  <2>9. << lin >> \in Seq(InstrsOver(ir.ss))  BY <2>8, SequenceOfOne
  <2>10. Builds(jr, conc) /\ jr.num_threads = ir.num_threads  BY <2>1, <2>9, AddsInstrs
  <2> QED BY <2>10 DEF jr
<1>4. CASE ~(e.kind = "variable" /\ HasVariable(ir.ss, src) /\ Checked(ir.ss, addr, FALSE))
  <2>1. jr = [ir EXCEPT !.ok = FALSE]  BY <1>4 DEF HandleStore
  <2> QED BY <2>1, StopsBuilding
<1> QED BY <1>3, <1>4

\* A thread's own word, tidxlen, is declared for threads and not as a vector.
MayDeclare(name, is_vector, is_global) == name = "tidxlen" => ~is_vector /\ ~is_global

\* One declaration allocates one variable,
LEMMA DeclaresOne ==
  ASSUME NEW names, NamesApart(names),
         NEW conc \in Nat \ {0}, NEW ss, LaidOut(ss, conc), NEW name \in names,
         NEW is_vector \in BOOLEAN, NEW is_global \in BOOLEAN, MayDeclare(name, is_vector, is_global)
  PROVE  LET tt == AllocVariable(ss, name, is_vector, IF is_global THEN 1 ELSE conc)
         IN  LaidOut(tt, conc) /\ Grows(ss, tt)
<1> DEFINE length == IF is_vector THEN VLEN ELSE 1
           slots == IF is_global THEN 1 ELSE conc
<1>1. MayHold(name, length, slots, conc)
  <2>1. name \in STRING /\ length \in {1, VLEN} /\ slots \in {1, conc}  BY DEF NamesApart
  <2>2. \A v \in Int, wide \in BOOLEAN : name # ConstantName(v, wide)  BY DEF NamesApart
  <2>3. name = "tidxlen" => length = 1 /\ slots = conc  BY DEF MayDeclare
  <2> HIDE DEF length, slots
  <2> QED BY <2>1, <2>2, <2>3 DEF MayHold
<1>2. NoConstant \in Int  BY DEF NoConstant
<1> HIDE DEF length, slots
<1>3. LET tt == AllocScratch(ss, name, length, slots, NoConstant) IN LaidOut(tt, conc) /\ Grows(ss, tt)
  BY <1>1, <1>2, Allocates
<1> QED BY <1>3 DEF AllocVariable, length, slots

\* A sequence of declarations.
DeclaredInTurn(f, ir, nodes, is_vector, is_global) ==
  /\ f[0] = ir.ss
  /\ \A k \in 1 .. Len(nodes) :
       f[k] = AllocVariable(f[k - 1], Name(nodes[k]), is_vector, IF is_global THEN 1 ELSE ir.conc_threads)

DeclaredBy(f, ir, var_type, nodes, is_global, conc) ==
  /\ DeclaredInTurn(f, ir, nodes, var_type = "register[]", is_global)
  /\ RegisterVariables(ir, var_type, nodes, is_global) = [ir EXCEPT !.ss = f[Len(nodes)]]
  /\ \A k \in 0 .. Len(nodes) : LaidOut(f[k], conc) /\ Grows(ir.ss, f[k])

\* and RegisterVariables makes all of them in turn,
LEMMA DeclaresInTurn ==
  ASSUME NEW names, NamesApart(names),
         NEW conc \in Nat \ {0}, NEW ir, Builds(ir, conc), NEW var_type,
         NEW nodes \in Seq(NameNodes(names)), NEW is_global \in BOOLEAN,
         \A k \in DOMAIN nodes : MayDeclare(Name(nodes[k]), var_type = "register[]", is_global)
  PROVE  \E f : DeclaredBy(f, ir, var_type, nodes, is_global, conc)
<1> DEFINE n == Len(nodes)
           slots == IF is_global THEN 1 ELSE ir.conc_threads
           vec == (var_type = "register[]")
           is(g) == g = [k \in 0 .. n |-> IF k = 0 THEN ir.ss ELSE AllocVariable(g[k - 1], Name(nodes[k]), vec, slots)]
           registered == CHOOSE g : is(g)
           S == {ss \in ScratchSpaces : LaidOut(ss, conc) /\ Grows(ir.ss, ss)}
           step == [p \in Nat \X S |-> IF p[1] \in 1 .. n THEN AllocVariable(p[2], Name(nodes[p[1]]), vec, slots) ELSE p[2]]
<1>1. RegisterVariables(ir, var_type, nodes, is_global) = [ir EXCEPT !.ss = registered[n]]
  BY DEF RegisterVariables
<1>2. n \in Nat /\ DOMAIN nodes = 1 .. n  OBVIOUS
<1>3. \A k \in 1 .. n : Name(nodes[k]) \in names
  <2>1. \A k \in 1 .. n : nodes[k] \in NameNodes(names)  BY <1>2
  <2> HIDE DEF n
  <2> TAKE k \in 1 .. n
  <2>2. PICK m \in names : nodes[k] = [kind |-> "name", args |-> << m >>]  BY <2>1 DEF NameNodes
  <2> QED BY <2>2 DEF Name
<1>4. \A k \in 1 .. n : MayDeclare(Name(nodes[k]), vec, is_global)  BY <1>2
<1>5. vec \in BOOLEAN  OBVIOUS
<1>6. slots = IF is_global THEN 1 ELSE conc  BY DEF Builds, Pipelines
<1> HIDE DEF n, slots, vec
<1>7. ir.ss \in S  BY DEF Builds, LaidOut, Grows, Keeps
<1>8. ASSUME NEW ss \in S, NEW k \in 1 .. n PROVE AllocVariable(ss, Name(nodes[k]), vec, slots) \in S
  <2> DEFINE name == Name(nodes[k])
             tt == AllocVariable(ss, name, vec, slots)
  <2>1. name \in names /\ MayDeclare(name, vec, is_global)  BY <1>3, <1>4
  <2> HIDE DEF name
  <2>2. LaidOut(ss, conc) /\ Grows(ir.ss, ss)  OBVIOUS
  <2>3. LET uu == AllocVariable(ss, name, vec, IF is_global THEN 1 ELSE conc) IN LaidOut(uu, conc) /\ Grows(ss, uu)
    BY <1>5, <2>1, <2>2, DeclaresOne
  <2>4. LaidOut(tt, conc) /\ Grows(ss, tt)  BY <1>6, <2>3
  <2> HIDE DEF tt
  <2>5. Grows(ir.ss, tt)  BY <2>2, <2>4, GrowsOn
  <2>6. tt \in ScratchSpaces  BY <2>4 DEF LaidOut
  <2>7. tt \in S  BY <2>4, <2>5, <2>6
  <2> QED BY <2>7 DEF tt, name
<1> HIDE DEF S
<1>9. \A k \in Nat, ss \in S :
        step[<<k, ss>>] = IF k \in 1 .. n THEN AllocVariable(ss, Name(nodes[k]), vec, slots) ELSE ss
  OBVIOUS
<1> HIDE DEF step
<1>10. StaysIn(S, step)  BY <1>8, <1>9 DEF StaysIn
<1>11. PICK f \in [0 .. n -> S] : Repeats(f, ir.ss, step, n)  BY <1>2, <1>7, <1>10, NumberedIteration
<1>12. /\ f[0] = ir.ss
       /\ \A k \in 1 .. n : f[k] = AllocVariable(f[k - 1], Name(nodes[k]), vec, slots)
  <2>1. \A k \in 1 .. n : k - 1 \in 0 .. n /\ k \in 0 .. n /\ k \in Nat  BY <1>2
  <2>2. \A k \in 1 .. n : f[k - 1] \in S /\ f[k] \in S  BY <1>11, <2>1
  <2> QED BY <1>9, <1>11, <2>1, <2>2 DEF Repeats
<1>13. is(f)
  <2>1. \A k \in 0 .. n : f[k] = IF k = 0 THEN ir.ss ELSE AllocVariable(f[k - 1], Name(nodes[k]), vec, slots)
    <3>1. \A k \in 0 .. n : k = 0 \/ k \in 1 .. n  BY <1>2
    <3>2. \A k \in 1 .. n : k # 0  BY <1>2
    <3> QED BY <1>12, <3>1, <3>2
  <2>2. f = [k \in 0 .. n |-> f[k]]  BY <1>11
  <2> QED BY <2>1, <2>2
<1>14. is(registered)
  <2> HIDE DEF is
  <2> QED BY <1>13
<1> HIDE DEF registered
<1>15. registered[n] = f[n]
  <2>1. registered[0] = f[0]  BY <1>2, <1>12, <1>14
  <2>2. \A k \in 1 .. n : registered[k] = AllocVariable(registered[k - 1], Name(nodes[k]), vec, slots)
    <3>1. \A k \in 1 .. n : k \in 0 .. n /\ k # 0  BY <1>2
    <3> QED BY <1>14, <3>1
  <2> DEFINE Q == {k \in Nat : k <= n => registered[k] = f[k]}
  <2>3. 0 \in Q  BY <2>1
  <2>4. ASSUME NEW k \in Nat, k \in Q PROVE k + 1 \in Q
    <3> SUFFICES ASSUME k + 1 <= n PROVE registered[k + 1] = f[k + 1]  OBVIOUS
    <3>1. k + 1 \in 1 .. n /\ (k + 1) - 1 = k /\ k <= n  BY <1>2
    <3>2. registered[k] = f[k]  BY <2>4, <3>1
    <3>3. f[k + 1] = AllocVariable(f[(k + 1) - 1], Name(nodes[k + 1]), vec, slots)  BY <1>12, <3>1
    <3>4. registered[k + 1] = AllocVariable(registered[(k + 1) - 1], Name(nodes[k + 1]), vec, slots)  BY <2>2, <3>1
    <3> QED BY <3>1, <3>2, <3>3, <3>4
  <2> HIDE DEF Q
  <2>5. Nat \subseteq Q  BY <2>3, <2>4, Induction
  <2> QED BY <1>2, <2>5 DEF Q
<1>16. \A k \in 0 .. n : LaidOut(f[k], conc) /\ Grows(ir.ss, f[k])
  <2>1. \A k \in 0 .. n : f[k] \in S  BY <1>11
  <2> QED BY <2>1 DEF S
<1>17. DeclaredInTurn(f, ir, nodes, vec, is_global)  BY <1>12 DEF DeclaredInTurn, n, slots
<1>18. DeclaredBy(f, ir, var_type, nodes, is_global, conc)
  BY <1>1, <1>15, <1>16, <1>17 DEF DeclaredBy, n, vec
<1> QED BY <1>18

\* so that what is built stays well formed.
LEMMA DeclaresAll ==
  ASSUME NEW names, NamesApart(names),
         NEW conc \in Nat \ {0}, NEW ir, Builds(ir, conc), NEW var_type,
         NEW nodes \in Seq(NameNodes(names)), NEW is_global \in BOOLEAN,
         \A k \in DOMAIN nodes : MayDeclare(Name(nodes[k]), var_type = "register[]", is_global)
  PROVE  LET jr == RegisterVariables(ir, var_type, nodes, is_global)
         IN  Builds(jr, conc) /\ jr.num_threads = ir.num_threads
<1>1. PICK f : DeclaredBy(f, ir, var_type, nodes, is_global, conc)  BY DeclaresInTurn
<1> DEFINE ss == f[Len(nodes)]
<1>2. LaidOut(ss, conc) /\ Grows(ir.ss, ss)
  <2>1. Len(nodes) \in 0 .. Len(nodes)  OBVIOUS
  <2> QED BY <1>1, <2>1 DEF DeclaredBy
<1> HIDE DEF ss
<1>3. LET jr == [ir EXCEPT !.ss = ss] IN Builds(jr, conc) /\ jr.num_threads = ir.num_threads
  BY <1>2, BuildsOn
<1> QED BY <1>1, <1>3 DEF DeclaredBy, ss

-----------------------------------------------------------------------------
(* Statements *)

WordNodes(names, is_global) == {node \in NameNodes(names) : is_global => Name(node) # "tidxlen"}
VectorNodes(names) == {node \in NameNodes(names) : Name(node) # "tidxlen"}
Others(nodes) == Seq({","} \X nodes)
DeclarationsOf(type, nodes) ==
  {[kind |-> "declare", args |-> << type, node, others >>] : node \in nodes, others \in Others(nodes)}
DefinitionsOf(type, nodes, es) ==
  {[kind |-> "define", args |-> << type, node, e >>] : node \in nodes, e \in es}
Declarations(names, is_global) ==
  DeclarationsOf("register", WordNodes(names, is_global)) \cup DeclarationsOf("register[]", VectorNodes(names))
Definitions(names, is_global) ==
  DefinitionsOf("register", WordNodes(names, is_global), Expressions(names))
    \cup DefinitionsOf("register[]", VectorNodes(names), Expressions(names))
LoadStmts(names) == {[kind |-> "load", args |-> << node, e >>] : node \in NameNodes(names), e \in Expressions(names)}
StoreStmts(names) == {[kind |-> "store", args |-> << node, e >>] : node \in NameNodes(names), e \in Expressions(names)}
Pauses == {[kind |-> "pause", args |-> << >>]}
SimpleStmts(names, is_global) ==
  Declarations(names, is_global) \cup Definitions(names, is_global)
    \cup LoadStmts(names) \cup StoreStmts(names) \cup Pauses

\* The names behind the commas.
LEMMA SecondOfEach ==
  ASSUME NEW N, NEW others \in Others(N)
  PROVE  [i \in DOMAIN others |-> others[i][2]] \in Seq(N)
<1> DEFINE more == [i \in DOMAIN others |-> others[i][2]]
           P == {","} \X N
<1>1. others \in Seq(P)  BY DEF Others
<1>2. \A p \in P : p[2] \in N  OBVIOUS
<1> HIDE DEF P
<1>3. PICK l \in Nat : DOMAIN others = 1 .. l /\ \A i \in 1 .. l : others[i] \in P  BY <1>1
<1>4. more \in [1 .. l -> N]  BY <1>2, <1>3
<1> HIDE DEF more
<1>5. more \in Seq(N)  BY <1>4, SequenceOver
<1> QED BY <1>5 DEF more

\* Handling a declaration
LEMMA HandlesDeclaration ==
  ASSUME NEW names, NamesApart(names),
         NEW conc \in Nat \ {0}, NEW ir, Builds(ir, conc), NEW is_global \in BOOLEAN,
         NEW type, NEW nodes \in SUBSET NameNodes(names),
         \A x \in nodes : MayDeclare(Name(x), type = "register[]", is_global),
         NEW stmt \in DeclarationsOf(type, nodes)
  PROVE  LET jr == HandleSimpleStmt(ir, stmt, is_global)
         IN  Builds(jr, conc) /\ jr.num_threads = ir.num_threads
<1>1. PICK node \in nodes, others \in Others(nodes) :
        stmt = [kind |-> "declare", args |-> << type, node, others >>]
  BY DEF DeclarationsOf
<1>2. stmt.kind = "declare" /\ stmt.args[1] = type /\ stmt.args[2] = node /\ stmt.args[3] = others  BY <1>1
<1> DEFINE jr == HandleSimpleStmt(ir, stmt, is_global)
           more == [i \in DOMAIN others |-> others[i][2]]
           all == << node >> \o more
<1>3. jr = RegisterVariables(ir, type, all, is_global)  BY <1>2 DEF HandleSimpleStmt
<1>4. more \in Seq(nodes)  BY SecondOfEach
<1> HIDE DEF more
<1>5. all \in Seq(nodes) /\ \A k \in DOMAIN all : all[k] \in nodes  BY <1>4, InFront
<1> HIDE DEF all, jr
<1>6. all \in Seq(NameNodes(names))  BY <1>5, WiderSeq
<1>7. \A k \in DOMAIN all : MayDeclare(Name(all[k]), type = "register[]", is_global)  BY <1>5
<1>8. Builds(jr, conc) /\ jr.num_threads = ir.num_threads  BY <1>3, <1>6, <1>7, DeclaresAll
<1> QED BY <1>8 DEF jr

\* or a definition leaves what is built well formed.
LEMMA HandlesDefinition ==
  ASSUME NEW names, NamesApart(names), "tidxlen" \in names,
         NEW conc \in Nat \ {0}, NEW ir, Builds(ir, conc), NEW is_global \in BOOLEAN,
         NEW type, NEW nodes \in SUBSET NameNodes(names),
         \A x \in nodes : MayDeclare(Name(x), type = "register[]", is_global),
         NEW stmt \in DefinitionsOf(type, nodes, Expressions(names))
  PROVE  LET jr == HandleSimpleStmt(ir, stmt, is_global)
         IN  Builds(jr, conc) /\ jr.num_threads = ir.num_threads
<1>1. PICK node \in nodes, e \in Expressions(names) : stmt = [kind |-> "define", args |-> << type, node, e >>]
  BY DEF DefinitionsOf
<1>2. stmt.kind = "define" /\ stmt.args[1] = type /\ stmt.args[2] = node /\ stmt.args[3] = e  BY <1>1
<1> DEFINE jr == HandleSimpleStmt(ir, stmt, is_global)
           one == << node >>
           mid == RegisterVariables(ir, type, one, is_global)
<1>3. jr = HandleAssignment(mid, Name(node), e, is_global)  BY <1>2 DEF HandleSimpleStmt
<1>4. /\ one \in Seq(NameNodes(names))
      /\ \A k \in DOMAIN one : MayDeclare(Name(one[k]), type = "register[]", is_global)
  <2>1. node \in NameNodes(names) /\ MayDeclare(Name(node), type = "register[]", is_global)  OBVIOUS
  <2>2. << node >> \in Seq(NameNodes(names))  BY <2>1, SequenceOfOne
  <2>3. \A k \in DOMAIN << node >> : << node >>[k] = node  OBVIOUS
  <2> QED BY <2>1, <2>2, <2>3
<1> HIDE DEF jr, one
<1>5. Builds(mid, conc) /\ mid.num_threads = ir.num_threads  BY <1>4, DeclaresAll
<1> HIDE DEF mid
<1>6. Builds(jr, conc) /\ jr.num_threads = mid.num_threads  BY <1>3, <1>5, HandlesAssignment
<1> QED BY <1>5, <1>6 DEF jr

\* Whatever statement the grammar allows is handled so that what is built stays well formed.
LEMMA HandlesSimpleStmt ==
  ASSUME NEW names, NamesApart(names), "tidxlen" \in names,
         NEW conc \in Nat \ {0}, NEW ir, Builds(ir, conc),
         NEW is_global \in BOOLEAN, NEW stmt \in SimpleStmts(names, is_global)
  PROVE  LET jr == HandleSimpleStmt(ir, stmt, is_global)
         IN  Builds(jr, conc) /\ jr.num_threads = ir.num_threads
<1> DEFINE jr == HandleSimpleStmt(ir, stmt, is_global)
           words == WordNodes(names, is_global)
           vectors == VectorNodes(names)
<1>1. /\ words \in SUBSET NameNodes(names)
      /\ \A x \in words : MayDeclare(Name(x), "register" = "register[]", is_global)
  BY DEF WordNodes, MayDeclare
<1>2. /\ vectors \in SUBSET NameNodes(names)
      /\ \A x \in vectors : MayDeclare(Name(x), "register[]" = "register[]", is_global)
  BY DEF VectorNodes, MayDeclare
<1> HIDE DEF words, vectors
<1>3. CASE stmt \in DeclarationsOf("register", words)  BY <1>1, <1>3, HandlesDeclaration
<1>4. CASE stmt \in DeclarationsOf("register[]", vectors)  BY <1>2, <1>4, HandlesDeclaration
<1>5. CASE stmt \in DefinitionsOf("register", words, Expressions(names))  BY <1>1, <1>5, HandlesDefinition
<1>6. CASE stmt \in DefinitionsOf("register[]", vectors, Expressions(names))  BY <1>2, <1>6, HandlesDefinition
<1>7. CASE stmt \in LoadStmts(names)
  <2>1. PICK node \in NameNodes(names), e \in Expressions(names) : stmt = [kind |-> "load", args |-> << node, e >>]
    BY <1>7 DEF LoadStmts
  <2>2. stmt.kind = "load" /\ stmt.args[1] = node /\ stmt.args[2] = e  BY <2>1
  <2>3. jr = HandleAssignment(ir, Name(node), e, is_global)  BY <2>2 DEF HandleSimpleStmt
  <2> QED BY <2>3, HandlesAssignment
<1>8. CASE stmt \in StoreStmts(names)
  <2>1. PICK node \in NameNodes(names), e \in Expressions(names) : stmt = [kind |-> "store", args |-> << node, e >>]
    BY <1>8 DEF StoreStmts
  <2>2. stmt.kind = "store" /\ stmt.args[1] = node /\ stmt.args[2] = e  BY <2>1
  <2>3. jr = HandleStore(ir, node, e, is_global)  BY <2>2 DEF HandleSimpleStmt
  <2> QED BY <2>3, HandlesStore
<1>9. CASE stmt \in Pauses
  <2>1. stmt.kind = "pause"  BY <1>9 DEF Pauses
  <2>2. jr = ir  BY <2>1 DEF HandleSimpleStmt
  <2> QED BY <2>2
<1> QED BY <1>3, <1>4, <1>5, <1>6, <1>7, <1>8, <1>9 DEF SimpleStmts, Declarations, Definitions, words, vectors

\* A program, statement by statement: each is handled for a range of threads. The pipeline goes through
\* irs.
ProgramSteps(names) ==
  UNION {[tids : SUBSET Int, stmt : SimpleStmts(names, is_global), is_global : {is_global}] : is_global \in BOOLEAN}
Handled(ir, s) == HandleSimpleStmt([ir EXCEPT !.tids = s.tids], s.stmt, s.is_global)
Handles(irs, prog, num_threads, conc) ==
  /\ irs[0] = IRPipeline(num_threads, conc)
  /\ \A k \in 1 .. Len(prog) : irs[k] = Handled(irs[k - 1], prog[k])

\* Nothing has been built in the beginning.
LEMMA StartsBuilding ==
  ASSUME NEW num_threads \in Nat, NEW conc \in Nat \ {0}
  PROVE  Builds(IRPipeline(num_threads, conc), conc) /\ IRPipeline(num_threads, conc).num_threads = num_threads
<1> DEFINE ir == IRPipeline(num_threads, conc)
<1>1. /\ ir.num_threads = num_threads /\ ir.conc_threads = conc /\ ir.ss = ScratchSpace
      /\ ir.globals = << >> /\ ir.locals = << >> /\ ir.tids = INFINITE_SET /\ ir.ok = TRUE
      /\ ir = [num_threads |-> ir.num_threads, conc_threads |-> ir.conc_threads, ss |-> ir.ss,
               globals |-> ir.globals, locals |-> ir.locals, tids |-> ir.tids, ok |-> ir.ok]
  BY DEF IRPipeline
<1> HIDE DEF ir
<1> DEFINE ss == ScratchSpace
<1>2. ss.scratch_ptr = 0 /\ ss.var_meta = << >> /\ ss.duplicate = FALSE
      /\ ss = [scratch_ptr |-> ss.scratch_ptr, var_meta |-> ss.var_meta, duplicate |-> ss.duplicate]
  BY DEF ScratchSpace
<1> HIDE DEF ss
<1>3. DOMAIN ss.var_meta = {}  BY <1>2
<1>4. ss \in ScratchSpaces
  <2>1. << >> \in [{} -> VariableMeta]  OBVIOUS
  <2>2. {} \in SUBSET STRING  OBVIOUS
  <2>4. << >> \in UNION {[names -> VariableMeta] : names \in SUBSET STRING}  BY <2>1, <2>2
  <2>5. ss = [scratch_ptr |-> 0, var_meta |-> << >>, duplicate |-> FALSE]  BY DEF ss, ScratchSpace
  <2> HIDE DEF VariableMeta
  <2> QED BY <2>4, <2>5 DEF ScratchSpaces
<1>5. LaidOut(ss, conc)
  <2>1. IsFiniteSet({})  BY FS_EmptySet
  <2> QED BY <1>3, <1>4, <2>1 DEF LaidOut, HasVariable
<1>6. ir \in Pipelines(conc)
  <2>1. INFINITE_SET \in SUBSET Int  BY DEF INFINITE_SET
  <2>2. << >> \in Seq(Instruction) /\ << >> \in Seq([lin : Instruction, tids : SUBSET Int])  OBVIOUS
  <2> QED BY <1>1, <1>4, <2>1, <2>2 DEF Pipelines, ss
<1>7. Compiled(ir, conc)
  <2>1. << >> \in Seq(InstrsOver(ir.ss)) /\ << >> \in Seq(ThreadInstrs(ir.ss))  OBVIOUS
  <2> QED BY <1>1, <1>2, <1>5, <2>1 DEF Compiled, ss
<1> QED BY <1>1, <1>5, <1>6, <1>7 DEF Builds, ir, ss

\* The parts of a step.
LEMMA StepIs ==
  ASSUME NEW names, NEW s \in ProgramSteps(names)
  PROVE  s.tids \in SUBSET Int /\ s.is_global \in BOOLEAN /\ s.stmt \in SimpleStmts(names, s.is_global)
<1>1. PICK is_global \in BOOLEAN : s \in [tids : SUBSET Int, stmt : SimpleStmts(names, is_global), is_global : {is_global}]
  BY DEF ProgramSteps
<1>2. s.tids \in SUBSET Int /\ s.stmt \in SimpleStmts(names, is_global) /\ s.is_global \in {is_global}  BY <1>1
<1>3. s.is_global = is_global  BY <1>2
<1> QED BY <1>2, <1>3

\* One step.
LEMMA HandledBuilds ==
  ASSUME NEW names, NamesApart(names), "tidxlen" \in names,
         NEW conc \in Nat \ {0}, NEW ir, Builds(ir, conc), NEW s \in ProgramSteps(names)
  PROVE  Builds(Handled(ir, s), conc) /\ Handled(ir, s).num_threads = ir.num_threads
<1> DEFINE mid == [ir EXCEPT !.tids = s.tids]
<1>1. s.tids \in SUBSET Int /\ s.is_global \in BOOLEAN /\ s.stmt \in SimpleStmts(names, s.is_global)  BY StepIs
<1>2. Builds(mid, conc) /\ mid.num_threads = ir.num_threads  BY <1>1, BuildsFor
<1>3. Handled(ir, s) = HandleSimpleStmt(mid, s.stmt, s.is_global)  BY DEF Handled
<1> HIDE DEF mid
<1> DEFINE is_global == s.is_global
           stmt == s.stmt
<1>4. is_global \in BOOLEAN /\ stmt \in SimpleStmts(names, is_global)  BY <1>1
<1>5. Handled(ir, s) = HandleSimpleStmt(mid, stmt, is_global)  BY <1>3
<1> HIDE DEF is_global, stmt
<1> QED BY <1>2, <1>4, <1>5, HandlesSimpleStmt

\* However long the program, what is built is well formed.
LEMMA AllHandled ==
  ASSUME NEW names, NamesApart(names), "tidxlen" \in names,
         NEW num_threads \in Nat, NEW conc \in Nat \ {0}, NEW prog \in Seq(ProgramSteps(names)), NEW irs,
         Handles(irs, prog, num_threads, conc)
  PROVE  \A k \in 0 .. Len(prog) : Builds(irs[k], conc) /\ irs[k].num_threads = num_threads
<1> DEFINE n == Len(prog)
           Good(ir) == Builds(ir, conc) /\ ir.num_threads = num_threads
           P == {k \in Nat : k <= n => Good(irs[k])}
<1>1. 0 \in P  BY StartsBuilding DEF Handles
<1>2. n \in Nat /\ \A k \in 1 .. n : prog[k] \in ProgramSteps(names)  OBVIOUS
<1>3. \A k \in 1 .. n : irs[k] = Handled(irs[k - 1], prog[k])  BY DEF Handles
<1> HIDE DEF n
<1>4. ASSUME NEW k \in Nat, k \in P PROVE k + 1 \in P
  <2> SUFFICES ASSUME k + 1 <= n PROVE Good(irs[k + 1])  OBVIOUS
  <2>1. k + 1 \in 1 .. n /\ (k + 1) - 1 = k /\ k <= n  BY <1>2
  <2>2. Good(irs[k])  BY <1>4, <2>1
  <2>3. irs[k + 1] = Handled(irs[k], prog[k + 1]) /\ prog[k + 1] \in ProgramSteps(names)  BY <1>2, <1>3, <2>1
  <2> QED BY <2>2, <2>3, HandledBuilds
<1> HIDE DEF P
<1>5. Nat \subseteq P  BY <1>1, <1>4, Induction
<1> QED BY <1>5 DEF P, n

\* The scheduler gets what it needs from every program that fits: if no name is used twice, the scratch
\* is large enough and every thread has an instruction, the work is that of an instruction graph.
THEOREM ProgramWork ==
  ASSUME NEW names, NamesApart(names), "tidxlen" \in names,
         NEW prog \in Seq(ProgramSteps(names)), NEW irs, Handles(irs, prog, NumThreads, Conc)
  PROVE  LET ir == irs[Len(prog)]
         IN  ~ir.ss.duplicate /\ Assembles(ir, NumThreads, Conc) => FromGraph(GetWork(ir, NumThreads, Conc))
<1> DEFINE ir == irs[Len(prog)]
<1>1. NumThreads \in Nat /\ Conc \in Nat \ {0}  BY Threads
<1>2. Len(prog) \in 0 .. Len(prog)  OBVIOUS
<1>3. Builds(ir, Conc)  BY <1>1, <1>2, AllHandled
<1> HIDE DEF ir
<1>4. ~ir.ss.duplicate => Compiled(ir, Conc)  BY <1>3 DEF Builds
<1>5. ~ir.ss.duplicate /\ Assembles(ir, NumThreads, Conc) => FromGraph(GetWork(ir, NumThreads, Conc))
  BY <1>4, CompiledWork
<1> QED BY <1>5 DEF ir

-----------------------------------------------------------------------------
(* The estimate: compiled for two threads at a time and for k *)

\* The same variables, which take more room only where each thread has its own.
SameLayout(ss, tt, k) ==
  /\ DOMAIN tt.var_meta = DOMAIN ss.var_meta /\ (tt.duplicate <=> ss.duplicate)
  /\ \A n \in DOMAIN ss.var_meta : tt.var_meta[n].length = ss.var_meta[n].length
  /\ ~ss.duplicate => /\ PerThreadSpace(ss) \in Nat
                      /\ tt.scratch_ptr = ss.scratch_ptr + (k - 2) * PerThreadSpace(ss)

\* Allocating the same variable in both keeps the layouts the same.
LEMMA AllocatesAlike ==
  ASSUME NEW k \in Nat \ {0},
         NEW ss, LaidOut(ss, 2), NEW tt, LaidOut(tt, k), SameLayout(ss, tt, k),
         NEW name, NEW length \in {1, VLEN}, NEW shared \in BOOLEAN, NEW const
  PROVE  SameLayout(AllocScratch(ss, name, length, IF shared THEN 1 ELSE 2, const),
                    AllocScratch(tt, name, length, IF shared THEN 1 ELSE k, const), k)
<1> DEFINE few == IF shared THEN 1 ELSE 2
           many == IF shared THEN 1 ELSE k
           su == AllocScratch(ss, name, length, few, const)
           tu == AllocScratch(tt, name, length, many, const)
           vm == [addr |-> ss.scratch_ptr, length |-> length, slots |-> few, const |-> const]
           wm == [addr |-> tt.scratch_ptr, length |-> length, slots |-> many, const |-> const]
           D == DOMAIN ss.var_meta
           E == D \cup {name}
<1>1. /\ su.scratch_ptr = ss.scratch_ptr + length * few
      /\ su.var_meta = [n \in E |-> IF n = name THEN vm ELSE ss.var_meta[n]]
      /\ (su.duplicate <=> (ss.duplicate \/ name \in D))
  BY DEF AllocScratch, HasVariable
<1>2. DOMAIN tt.var_meta = D /\ (tt.duplicate <=> ss.duplicate)  BY DEF SameLayout
<1>3. /\ tu.scratch_ptr = tt.scratch_ptr + length * many
      /\ tu.var_meta = [n \in E |-> IF n = name THEN wm ELSE tt.var_meta[n]]
      /\ (tu.duplicate <=> (tt.duplicate \/ name \in D))
  BY <1>2 DEF AllocScratch, HasVariable
<1> HIDE DEF su, tu
<1>4. vm.length = length /\ wm.length = length /\ vm.slots = few  OBVIOUS
<1> HIDE DEF vm, wm
<1>5. DOMAIN su.var_meta = E /\ DOMAIN tu.var_meta = E /\ (tu.duplicate <=> su.duplicate)
  BY <1>1, <1>2, <1>3
<1>6. \A n \in E : tu.var_meta[n].length = su.var_meta[n].length
  <2>1. \A n \in D : tt.var_meta[n].length = ss.var_meta[n].length  BY DEF SameLayout
  <2> QED BY <1>1, <1>3, <1>4, <2>1
<1>7. ASSUME ~su.duplicate
      PROVE  PerThreadSpace(su) \in Nat /\ tu.scratch_ptr = su.scratch_ptr + (k - 2) * PerThreadSpace(su)
  <2> DEFINE f == [n \in D |-> IF ss.var_meta[n].slots > 1 THEN ss.var_meta[n].length ELSE 0]
             g == [n \in E |-> IF su.var_meta[n].slots > 1 THEN su.var_meta[n].length ELSE 0]
  <2>1. name \notin D /\ ~ss.duplicate  BY <1>1, <1>7
  <2>2. IsFiniteSet(D) /\ \A n \in D : ss.var_meta[n].length \in Nat
    <3>1. IsFiniteSet(D)  BY DEF LaidOut
    <3>2. \A n \in D : ss.var_meta[n].length \in Nat
      BY LengthsOf DEF HasVariable
    <3> QED BY <3>1, <3>2
  <2>3. length \in Nat /\ few \in Nat /\ many \in Nat  BY VectorLength
  <2>4. su.var_meta[name] = vm /\ \A n \in D : su.var_meta[n] = ss.var_meta[n]  BY <1>1, <2>1
  <2>5. f \in [D -> Int] /\ \A n \in D : g[n] = f[n]  BY <2>2, <2>4
  <2>6. g[name] = (IF shared THEN 0 ELSE length) /\ g[name] \in Nat
    <3>1. g[name] = IF few > 1 THEN length ELSE 0  BY <1>4, <2>4
    <3>2. few > 1 <=> ~shared  OBVIOUS
    <3> QED BY <2>3, <3>1, <3>2
  <2>7. g \in [E -> Int]
    <3>0. \A n \in D : f[n] \in Int  BY <2>5
    <3>1. g[name] \in Int /\ \A n \in D : g[n] \in Int
      <4> HIDE DEF g, f
      <4> QED BY <2>5, <2>6, <3>0
    <3>2. g = [n \in E |-> g[n]]  OBVIOUS
    <3> HIDE DEF g
    <3>3. \A n \in E : g[n] \in Int  BY <3>1
    <3> QED BY <3>2, <3>3
  <2>8. SumFunction(f) = PerThreadSpace(ss) /\ SumFunction(g) = PerThreadSpace(su)
    BY <1>5 DEF PerThreadSpace
  <2> HIDE DEF f, g
  <2>9. SumFunction(g) = SumFunction(f) + g[name]
    <3>1. E = D \cup {name}  OBVIOUS
    <3> HIDE DEF E, D
    <3> QED BY <2>1, <2>2, <2>5, <2>7, <3>1, SumExtends
  <2> DEFINE a == PerThreadSpace(ss)
             b == IF shared THEN 0 ELSE length
  <2>10. a \in Nat /\ tt.scratch_ptr = ss.scratch_ptr + (k - 2) * a  BY <2>1 DEF SameLayout
  <2>11. PerThreadSpace(su) = a + b /\ b \in Nat  BY <2>3, <2>6, <2>8, <2>9
  <2>12. ss.scratch_ptr \in Nat  BY DEF LaidOut, ScratchSpaces
  <2> HIDE DEF a
  <2>13. (k - 2) * (a + b) = (k - 2) * a + (k - 2) * b /\ b * k = 2 * b + (k - 2) * b /\ (k - 2) * a \in Int
    BY <2>10, <2>11, Distributes
  <2>14. length * many + (IF shared THEN 0 ELSE length * 2) = length * few + (IF shared THEN 0 ELSE length * k)
    BY <2>3
  <2>15. CASE shared
    <3>1. b = 0 /\ length * many = length * few /\ (k - 2) * b = 0  BY <2>3, <2>15
    <3>2. length * few \in Nat  BY <2>3
    <3> QED BY <1>1, <1>3, <2>10, <2>11, <2>12, <2>13, <3>1, <3>2
  <2>16. CASE ~shared
    <3>1. b = length /\ length * many = b * k /\ length * few = 2 * b  BY <2>3, <2>16
    <3>2. (k - 2) * b \in Int /\ 2 * b \in Nat
      BY <2>11, Distributes
    <3> DEFINE p == ss.scratch_ptr
               x == (k - 2) * a
               y == (k - 2) * b
    <3>3. tu.scratch_ptr = (p + x) + (2 * b + y)  BY <1>3, <2>10, <2>13, <3>1
    <3>4. su.scratch_ptr + (k - 2) * PerThreadSpace(su) = (p + 2 * b) + (x + y)  BY <1>1, <2>11, <2>13, <3>1
    <3>5. p \in Nat /\ x \in Int /\ y \in Int /\ 2 * b \in Nat  BY <2>12, <2>13, <3>2
    <3> HIDE DEF b, p, x, y
    <3>6. a + b \in Nat  BY <2>10, <2>11
    <3>7. (p + x) + (2 * b + y) = (p + 2 * b) + (x + y)  BY <3>5
    <3> QED BY <2>11, <3>3, <3>4, <3>6, <3>7
  <2> QED BY <2>15, <2>16
<1> QED BY <1>5, <1>6, <1>7 DEF SameLayout, su, tu, few, many

Alike(ir, jr, k) ==
  /\ SameLayout(ir.ss, jr.ss, k)
  /\ jr.globals = ir.globals /\ jr.locals = ir.locals /\ jr.tids = ir.tids /\ (jr.ok <=> ir.ok)

\* Adding the same instructions keeps them alike.
LEMMA AddsAlike ==
  ASSUME NEW c, NEW k, NEW ir \in Pipelines(c), NEW jr \in Pipelines(k), Alike(ir, jr, k),
         NEW is_global \in BOOLEAN, NEW lins
  PROVE  Alike(AddInstrs(ir, is_global, lins), AddInstrs(jr, is_global, lins), k)
<1> DEFINE iu == AddInstrs(ir, is_global, lins)
           ju == AddInstrs(jr, is_global, lins)
<1>1. SameLayout(ir.ss, jr.ss, k) /\ jr.globals = ir.globals /\ jr.locals = ir.locals /\ jr.tids = ir.tids /\ (jr.ok <=> ir.ok)
  BY DEF Alike
<1>2. CASE is_global
  <2>1. iu = [ir EXCEPT !.globals = ir.globals \o lins] /\ ju = [jr EXCEPT !.globals = jr.globals \o lins]
    BY <1>2 DEF AddInstrs
  <2>2. /\ iu.globals = ir.globals \o lins /\ iu.ss = ir.ss /\ iu.locals = ir.locals /\ iu.tids = ir.tids /\ iu.ok = ir.ok
        /\ ju.globals = jr.globals \o lins /\ ju.ss = jr.ss /\ ju.locals = jr.locals /\ ju.tids = jr.tids /\ ju.ok = jr.ok
    BY <2>1 DEF Pipelines
  <2> HIDE DEF iu, ju
  <2> QED BY <1>1, <2>2 DEF Alike, iu, ju
<1>3. CASE ~is_global
  <2> DEFINE own(xr) == [i \in DOMAIN lins |-> [lin |-> lins[i], tids |-> xr.tids]]
  <2>1. iu = [ir EXCEPT !.locals = ir.locals \o own(ir)] /\ ju = [jr EXCEPT !.locals = jr.locals \o own(jr)]
    BY <1>3 DEF AddInstrs
  <2>2. own(ir) = own(jr)  BY <1>1
  <2> HIDE DEF own
  <2>3. /\ iu.globals = ir.globals /\ iu.ss = ir.ss /\ iu.locals = ir.locals \o own(ir) /\ iu.tids = ir.tids /\ iu.ok = ir.ok
        /\ ju.globals = jr.globals /\ ju.ss = jr.ss /\ ju.locals = jr.locals \o own(jr) /\ ju.tids = jr.tids /\ ju.ok = jr.ok
    BY <2>1 DEF Pipelines
  <2> HIDE DEF iu, ju
  <2> QED BY <1>1, <2>2, <2>3 DEF Alike, iu, ju
<1> QED BY <1>2, <1>3

\* Other scratches that are laid out alike.
LEMMA LaysOutAlike ==
  ASSUME NEW c, NEW k, NEW ir \in Pipelines(c), NEW jr \in Pipelines(k), Alike(ir, jr, k),
         NEW ss, NEW tt, SameLayout(ss, tt, k)
  PROVE  Alike([ir EXCEPT !.ss = ss], [jr EXCEPT !.ss = tt], k)
<1> DEFINE iu == [ir EXCEPT !.ss = ss]
           ju == [jr EXCEPT !.ss = tt]
<1>1. /\ iu.globals = ir.globals /\ iu.ss = ss /\ iu.locals = ir.locals /\ iu.tids = ir.tids /\ iu.ok = ir.ok
      /\ ju.globals = jr.globals /\ ju.ss = tt /\ ju.locals = jr.locals /\ ju.tids = jr.tids /\ ju.ok = jr.ok
  BY DEF Pipelines
<1> HIDE DEF iu, ju
<1> QED BY <1>1 DEF Alike, iu, ju

\* So does a failed assertion in both,
LEMMA StopsAlike ==
  ASSUME NEW c, NEW k, NEW ir \in Pipelines(c), NEW jr \in Pipelines(k), Alike(ir, jr, k)
  PROVE  Alike([ir EXCEPT !.ok = FALSE], [jr EXCEPT !.ok = FALSE], k)
<1> DEFINE iu == [ir EXCEPT !.ok = FALSE]
           ju == [jr EXCEPT !.ok = FALSE]
<1>1. /\ iu.globals = ir.globals /\ iu.ss = ir.ss /\ iu.locals = ir.locals /\ iu.tids = ir.tids /\ iu.ok = FALSE
      /\ ju.globals = jr.globals /\ ju.ss = jr.ss /\ ju.locals = jr.locals /\ ju.tids = jr.tids /\ ju.ok = FALSE
  BY DEF Pipelines
<1> HIDE DEF iu, ju
<1> QED BY <1>1 DEF Alike, iu, ju

\* and turning to other threads.
LEMMA TurnsAlike ==
  ASSUME NEW c, NEW k, NEW ir \in Pipelines(c), NEW jr \in Pipelines(k), Alike(ir, jr, k), NEW tids
  PROVE  Alike([ir EXCEPT !.tids = tids], [jr EXCEPT !.tids = tids], k)
<1> DEFINE iu == [ir EXCEPT !.tids = tids]
           ju == [jr EXCEPT !.tids = tids]
<1>1. /\ iu.globals = ir.globals /\ iu.ss = ir.ss /\ iu.locals = ir.locals /\ iu.tids = tids /\ iu.ok = ir.ok
      /\ ju.globals = jr.globals /\ ju.ss = jr.ss /\ ju.locals = jr.locals /\ ju.tids = tids /\ ju.ok = jr.ok
  BY DEF Pipelines
<1> HIDE DEF iu, ju
<1> QED BY <1>1 DEF Alike, iu, ju

\* A number takes as much room whatever the threads.
LEMMA ConstAlike ==
  ASSUME NEW names, NamesApart(names), "tidxlen" \in names,
         NEW k \in Nat \ {0}, NEW ir, Builds(ir, 2), NEW jr, Builds(jr, k), Alike(ir, jr, k),
         NEW v \in Int, NEW wide \in BOOLEAN
  PROVE  Alike(HandleConst(ir, v, wide), HandleConst(jr, v, wide), k)
<1> DEFINE name == ConstantName(v, wide)
           length == IF wide THEN VLEN ELSE 1
           setUp == << Const(Write(name), v) >>
                    \o IF wide THEN << Broadcast(WriteVec(name), Read(name)) >> ELSE << >>
<1>1. /\ ir \in Pipelines(2) /\ jr \in Pipelines(k) /\ LaidOut(ir.ss, 2) /\ LaidOut(jr.ss, k)
      /\ SameLayout(ir.ss, jr.ss, k)
  BY DEF Builds, Alike
<1>2. FirstTime(ir.ss, v, wide) <=> FirstTime(jr.ss, v, wide)  BY <1>1 DEF SameLayout, FirstTime, HasVariable
<1>3. CASE ~FirstTime(ir.ss, v, wide)
  <2>1. HandleConst(ir, v, wide) = ir /\ HandleConst(jr, v, wide) = jr  BY <1>2, <1>3 DEF HandleConst
  <2> QED BY <2>1
<1>4. CASE FirstTime(ir.ss, v, wide)
  <2> DEFINE ss == AllocScratch(ir.ss, name, length, 1, v)
             tt == AllocScratch(jr.ss, name, length, 1, v)
             iu == [ir EXCEPT !.ss = ss]
             ju == [jr EXCEPT !.ss = tt]
  <2>1. HandleConst(ir, v, wide) = AddInstrs(iu, TRUE, setUp) /\ HandleConst(jr, v, wide) = AddInstrs(ju, TRUE, setUp)
    BY <1>2, <1>4 DEF HandleConst, AllocConst
  <2>2. SameLayout(ss, tt, k)
    <3>1. length \in {1, VLEN} /\ TRUE \in BOOLEAN  OBVIOUS
    <3> HIDE DEF length, name
    <3>2. SameLayout(AllocScratch(ir.ss, name, length, IF TRUE THEN 1 ELSE 2, v),
                     AllocScratch(jr.ss, name, length, IF TRUE THEN 1 ELSE k, v), k)
      BY <1>1, <3>1, AllocatesAlike
    <3> QED BY <3>2
  <2>3. ss \in ScratchSpaces /\ tt \in ScratchSpaces
    <3>1. ss = AllocConst(ir.ss, v, wide) /\ tt = AllocConst(jr.ss, v, wide)  BY <1>2, <1>4 DEF AllocConst
    <3> HIDE DEF ss, tt
    <3>2. 2 \in Nat \ {0}  OBVIOUS
    <3>3. LaidOut(ss, 2)  BY <1>1, <3>1, <3>2, ConstantHeld
    <3>4. LaidOut(tt, k)  BY <1>1, <3>1, ConstantHeld
    <3> QED BY <3>3, <3>4 DEF LaidOut
  <2> HIDE DEF ss, tt, setUp
  <2>4. Alike(iu, ju, k)  BY <1>1, <2>2, LaysOutAlike
  <2>5. iu \in Pipelines(2) /\ ju \in Pipelines(k)  BY <1>1, <2>3 DEF Pipelines
  <2> HIDE DEF iu, ju
  <2>6. TRUE \in BOOLEAN  OBVIOUS
  <2> QED BY <2>1, <2>4, <2>5, <2>6, AddsAlike
<1> QED BY <1>3, <1>4

\* So do all numbers of an expression.
LEMMA NumbersAlike ==
  ASSUME NEW names, NamesApart(names), "tidxlen" \in names,
         NEW k \in Nat \ {0}, NEW ir, Builds(ir, 2), NEW jr, Builds(jr, k), Alike(ir, jr, k),
         NEW e, NEW is_vector \in BOOLEAN, Operands(e) \in Seq(Atoms(names))
  PROVE  Alike(SetUpNumbers(ir, e, is_vector), SetUpNumbers(jr, e, is_vector), k)
<1> DEFINE operands == NumbersIn(e, is_vector)
           wide == NumbersWide(e, is_vector)
           n == Len(operands)
<1>0. 2 \in Nat \ {0}  OBVIOUS
<1>1. PICK f : /\ InTurn(f, ir, operands, wide)
               /\ SetUpNumbers(ir, e, is_vector) = f[n]
               /\ \A i \in 0 .. n : Builds(f[i], 2) /\ SetsUp(ir, f[i])
  BY <1>0, NumbersInTurn
<1>2. PICK g : /\ InTurn(g, jr, operands, wide)
               /\ SetUpNumbers(jr, e, is_vector) = g[n]
               /\ \A i \in 0 .. n : Builds(g[i], k) /\ SetsUp(jr, g[i])
  BY NumbersInTurn
<1>3. operands \in Seq(Atoms(names)) /\ wide \in BOOLEAN  BY DEF NumbersIn, NumbersWide
<1> HIDE DEF operands, wide
<1>4. n \in Nat /\ DOMAIN operands = 1 .. n  BY <1>3
<1>5. \A i \in 1 .. n : IsInt(operands[i]) => Value(operands[i]) \in Int  BY <1>3, <1>4, AtomIs
<1>6. f[0] = ir /\ g[0] = jr  BY <1>1, <1>2 DEF InTurn
<1>7. \A i \in 1 .. n : /\ f[i] = IF IsInt(operands[i]) THEN HandleConst(f[i - 1], Value(operands[i]), wide) ELSE f[i - 1]
                        /\ g[i] = IF IsInt(operands[i]) THEN HandleConst(g[i - 1], Value(operands[i]), wide) ELSE g[i - 1]
  BY <1>1, <1>2 DEF InTurn
<1> HIDE DEF n
<1> DEFINE P == {i \in Nat : i <= n => Alike(f[i], g[i], k)}
<1>8. 0 \in P  BY <1>6
<1>9. ASSUME NEW i \in Nat, i \in P PROVE i + 1 \in P
  <2> SUFFICES ASSUME i + 1 <= n PROVE Alike(f[i + 1], g[i + 1], k)  OBVIOUS
  <2>1. i + 1 \in 1 .. n /\ (i + 1) - 1 = i /\ i <= n /\ i \in 0 .. n  BY <1>4
  <2>2. Builds(f[i], 2) /\ Builds(g[i], k) /\ Alike(f[i], g[i], k)  BY <1>1, <1>2, <1>9, <2>1
  <2>3. /\ f[i + 1] = IF IsInt(operands[i + 1]) THEN HandleConst(f[i], Value(operands[i + 1]), wide) ELSE f[i]
        /\ g[i + 1] = IF IsInt(operands[i + 1]) THEN HandleConst(g[i], Value(operands[i + 1]), wide) ELSE g[i]
    BY <1>7, <2>1
  <2>4. IsInt(operands[i + 1]) =>
          Alike(HandleConst(f[i], Value(operands[i + 1]), wide), HandleConst(g[i], Value(operands[i + 1]), wide), k)
    BY <1>3, <1>5, <2>1, <2>2, ConstAlike
  <2> QED BY <2>2, <2>3, <2>4
<1> HIDE DEF P
<1>10. Nat \subseteq P  BY <1>8, <1>9, Induction
<1>11. Alike(f[n], g[n], k)  BY <1>4, <1>10 DEF P
<1> QED BY <1>1, <1>2, <1>11 DEF n

\* The assertions and the instructions do not depend on where variables are,
LEMMA TypedAlike ==
  ASSUME NEW ss, NEW tt, NEW k, SameLayout(ss, tt, k), NEW lname, NEW e
  PROVE  /\ WellTyped(ss, lname, e) <=> WellTyped(tt, lname, e)
         /\ HasVariable(ss, lname) => AssignmentInstrs(ss, lname, e) = AssignmentInstrs(tt, lname, e)
<1>1. \A name : HasVariable(ss, name) <=> HasVariable(tt, name)  BY DEF SameLayout, HasVariable
<1>2. \A name : HasVariable(ss, name) => VarMetaOf(ss, name).length = VarMetaOf(tt, name).length
  BY DEF SameLayout, HasVariable, VarMetaOf
<1>3. \A name : HasVariable(ss, name) => IsVector(VarMetaOf(ss, name)) = IsVector(VarMetaOf(tt, name))
  BY <1>2 DEF IsVector
<1>4. \A x, vec : Checked(ss, x, vec) <=> Checked(tt, x, vec)  BY <1>1, <1>3 DEF Checked
<1>5. HasVariable(ss, lname) => AssignmentInstrs(ss, lname, e) = AssignmentInstrs(tt, lname, e)
  BY <1>3 DEF AssignmentInstrs
<1>6. WellTyped(ss, lname, e) <=> WellTyped(tt, lname, e)
  <2>1. CASE ~HasVariable(ss, lname)  BY <1>1, <2>1 DEF WellTyped
  <2>2. CASE HasVariable(ss, lname)
    <3> DEFINE vec == IsVector(VarMetaOf(ss, lname))
    <3>1. HasVariable(tt, lname) /\ vec = IsVector(VarMetaOf(tt, lname))  BY <1>1, <1>3, <2>2
    <3> HIDE DEF vec
    <3>2. HasVariable(ss, Name(e.args[1])) /\ IndexOf(e) \in 0 .. VarMetaOf(ss, Name(e.args[1])).length - 1
          <=> HasVariable(tt, Name(e.args[1])) /\ IndexOf(e) \in 0 .. VarMetaOf(tt, Name(e.args[1])).length - 1
      BY <1>1, <1>2
    <3>3. (\A i \in DOMAIN Operands(e) : Checked(ss, Operands(e)[i], vec))
          <=> (\A i \in DOMAIN Operands(e) : Checked(tt, Operands(e)[i], vec))
      BY <1>4
    <3>4. /\ Checked(ss, e.args[1], TRUE) <=> Checked(tt, e.args[1], TRUE)
          /\ Checked(ss, e.args[1], FALSE) <=> Checked(tt, e.args[1], FALSE)
      BY <1>4
    <3> QED BY <2>2, <3>1, <3>2, <3>3, <3>4 DEF WellTyped, vec
  <2> QED BY <2>1, <2>2
<1> QED BY <1>5, <1>6

\* Hence assignments
LEMMA AssignsAlike ==
  ASSUME NEW names, NamesApart(names), "tidxlen" \in names,
         NEW k \in Nat \ {0}, NEW ir, Builds(ir, 2), NEW jr, Builds(jr, k), Alike(ir, jr, k),
         NEW lname, NEW e \in Expressions(names), NEW is_global \in BOOLEAN
  PROVE  Alike(HandleAssignment(ir, lname, e, is_global), HandleAssignment(jr, lname, e, is_global), k)
<1>1. ir \in Pipelines(2) /\ jr \in Pipelines(k) /\ SameLayout(ir.ss, jr.ss, k)  BY DEF Builds, Alike
<1>2. WellTyped(ir.ss, lname, e) <=> WellTyped(jr.ss, lname, e)  BY <1>1, TypedAlike
<1>3. CASE ~WellTyped(ir.ss, lname, e)
  <2>1. /\ HandleAssignment(ir, lname, e, is_global) = [ir EXCEPT !.ok = FALSE]
        /\ HandleAssignment(jr, lname, e, is_global) = [jr EXCEPT !.ok = FALSE]
    BY <1>2, <1>3 DEF HandleAssignment
  <2> QED BY <1>1, <2>1, StopsAlike
<1>4. CASE WellTyped(ir.ss, lname, e)
  <2> DEFINE vec == IntoVector(ir.ss, lname)
             lins == AssignmentInstrs(ir.ss, lname, e)
             iu == SetUpNumbers(ir, e, vec)
             ju == SetUpNumbers(jr, e, vec)
  <2>1. HasVariable(ir.ss, lname)  BY <1>4 DEF WellTyped
  <2>2. AssignmentInstrs(jr.ss, lname, e) = lins  BY <1>1, <2>1, TypedAlike
  <2>3. IsVector(VarMetaOf(jr.ss, lname)) = vec
    BY <1>1, <2>1 DEF SameLayout, HasVariable, IsVector, VarMetaOf, IntoVector
  <2>4. vec \in BOOLEAN  BY DEF IntoVector, IsVector
  <2>5. /\ HandleAssignment(ir, lname, e, is_global) = AddInstrs(iu, is_global, lins)
        /\ HandleAssignment(jr, lname, e, is_global) = AddInstrs(ju, is_global, lins)
    BY <1>2, <1>4, <2>2, <2>3 DEF HandleAssignment, IntoVector
  <2> HIDE DEF vec, lins
  <2>6. Operands(e) \in Seq(Atoms(names))  BY OperandsAre
  <2>7. Alike(iu, ju, k)  BY <2>4, <2>6, NumbersAlike
  <2>8. iu \in Pipelines(2) /\ ju \in Pipelines(k)
    <3>1. 2 \in Nat \ {0}  OBVIOUS
    <3>2. Builds(iu, 2)  BY <2>4, <2>6, <3>1, NumbersSetUp
    <3>3. Builds(ju, k)  BY <2>4, <2>6, NumbersSetUp
    <3> QED BY <3>2, <3>3 DEF Builds
  <2> HIDE DEF iu, ju
  <2> QED BY <2>5, <2>7, <2>8, AddsAlike
<1> QED BY <1>3, <1>4

\* and stores keep two pipelines alike,
LEMMA StoresAlike ==
  ASSUME NEW k \in Nat \ {0}, NEW ir, Builds(ir, 2), NEW jr, Builds(jr, k), Alike(ir, jr, k),
         NEW addr, NEW e, NEW is_global \in BOOLEAN
  PROVE  Alike(HandleStore(ir, addr, e, is_global), HandleStore(jr, addr, e, is_global), k)
<1> DEFINE src == Name(e.args[1])
           may(ss) == e.kind = "variable" /\ HasVariable(ss, src) /\ Checked(ss, addr, FALSE)
           vec == IsVector(VarMetaOf(ir.ss, src))
           lins == << LI("store", IF vec THEN "vstore" ELSE "store", << Read(Name(addr)), WriteVariable(src, vec) >>) >>
<1>1. ir \in Pipelines(2) /\ jr \in Pipelines(k) /\ SameLayout(ir.ss, jr.ss, k)  BY DEF Builds, Alike
<1>2. \A name : HasVariable(ir.ss, name) =>
        HasVariable(jr.ss, name) /\ IsVector(VarMetaOf(ir.ss, name)) = IsVector(VarMetaOf(jr.ss, name))
  BY <1>1 DEF SameLayout, HasVariable, IsVector, VarMetaOf
<1>3. \A name : HasVariable(jr.ss, name) => HasVariable(ir.ss, name)  BY <1>1 DEF SameLayout, HasVariable
<1>4. may(ir.ss) <=> may(jr.ss)
  <2>1. Checked(ir.ss, addr, FALSE) <=> Checked(jr.ss, addr, FALSE)  BY <1>2, <1>3 DEF Checked
  <2>2. HasVariable(ir.ss, src) <=> HasVariable(jr.ss, src)  BY <1>2, <1>3
  <2> QED BY <2>1, <2>2
<1>5. CASE may(ir.ss)
  <2>1. IsVector(VarMetaOf(jr.ss, src)) = vec  BY <1>2, <1>5
  <2>2. /\ HandleStore(ir, addr, e, is_global) = AddInstrs(ir, is_global, lins)
        /\ HandleStore(jr, addr, e, is_global) = AddInstrs(jr, is_global, lins)
    BY <1>4, <1>5, <2>1 DEF HandleStore
  <2> HIDE DEF lins, may
  <2> QED BY <1>1, <2>2, AddsAlike
<1>6. CASE ~may(ir.ss)
  <2>1. /\ HandleStore(ir, addr, e, is_global) = [ir EXCEPT !.ok = FALSE]
        /\ HandleStore(jr, addr, e, is_global) = [jr EXCEPT !.ok = FALSE]
    BY <1>4, <1>6 DEF HandleStore
  <2> QED BY <1>1, <2>1, StopsAlike
<1> QED BY <1>5, <1>6

\* and so does allocating several variables.
LEMMA DeclaresAlike ==
  ASSUME NEW names, NamesApart(names),
         NEW k \in Nat \ {0}, NEW ir, Builds(ir, 2), NEW jr, Builds(jr, k), Alike(ir, jr, k),
         NEW var_type, NEW nodes \in Seq(NameNodes(names)), NEW is_global \in BOOLEAN,
         \A i \in DOMAIN nodes : MayDeclare(Name(nodes[i]), var_type = "register[]", is_global)
  PROVE  Alike(RegisterVariables(ir, var_type, nodes, is_global),
               RegisterVariables(jr, var_type, nodes, is_global), k)
<1> DEFINE n == Len(nodes)
           vec == (var_type = "register[]")
           length == IF vec THEN VLEN ELSE 1
<1>0. 2 \in Nat \ {0}  OBVIOUS
<1>1. PICK f : DeclaredBy(f, ir, var_type, nodes, is_global, 2)  BY <1>0, DeclaresInTurn
<1>2. PICK g : DeclaredBy(g, jr, var_type, nodes, is_global, k)  BY DeclaresInTurn
<1>3. ir \in Pipelines(2) /\ jr \in Pipelines(k) /\ SameLayout(ir.ss, jr.ss, k)  BY DEF Builds, Alike
<1>4. ir.conc_threads = 2 /\ jr.conc_threads = k  BY <1>3 DEF Pipelines
<1>5. n \in Nat  OBVIOUS
<1>6. /\ f[0] = ir.ss /\ g[0] = jr.ss
      /\ \A i \in 1 .. n :
           /\ f[i] = AllocScratch(f[i - 1], Name(nodes[i]), length, IF is_global THEN 1 ELSE 2, NoConstant)
           /\ g[i] = AllocScratch(g[i - 1], Name(nodes[i]), length, IF is_global THEN 1 ELSE k, NoConstant)
  BY <1>1, <1>2, <1>4 DEF DeclaredBy, DeclaredInTurn, AllocVariable
<1>7. \A i \in 0 .. n : LaidOut(f[i], 2) /\ LaidOut(g[i], k)  BY <1>1, <1>2 DEF DeclaredBy
<1>8. /\ RegisterVariables(ir, var_type, nodes, is_global) = [ir EXCEPT !.ss = f[n]]
      /\ RegisterVariables(jr, var_type, nodes, is_global) = [jr EXCEPT !.ss = g[n]]
  BY <1>1, <1>2 DEF DeclaredBy
<1>9. length \in {1, VLEN}  OBVIOUS
<1> HIDE DEF n, length
<1> DEFINE P == {i \in Nat : i <= n => SameLayout(f[i], g[i], k)}
<1>10. 0 \in P  BY <1>3, <1>6
<1>11. ASSUME NEW i \in Nat, i \in P PROVE i + 1 \in P
  <2> SUFFICES ASSUME i + 1 <= n PROVE SameLayout(f[i + 1], g[i + 1], k)  OBVIOUS
  <2>1. i + 1 \in 1 .. n /\ (i + 1) - 1 = i /\ i <= n /\ i \in 0 .. n  BY <1>5
  <2>2. SameLayout(f[i], g[i], k) /\ LaidOut(f[i], 2) /\ LaidOut(g[i], k)  BY <1>7, <1>11, <2>1
  <2> DEFINE name == Name(nodes[i + 1])
  <2>3. /\ f[i + 1] = AllocScratch(f[i], name, length, IF is_global THEN 1 ELSE 2, NoConstant)
        /\ g[i + 1] = AllocScratch(g[i], name, length, IF is_global THEN 1 ELSE k, NoConstant)
    BY <1>6, <2>1
  <2> HIDE DEF name
  <2> QED BY <1>9, <2>2, <2>3, AllocatesAlike
<1> HIDE DEF P
<1>12. Nat \subseteq P  BY <1>10, <1>11, Induction
<1> DEFINE ss == f[n]
           tt == g[n]
<1>13. SameLayout(ss, tt, k)  BY <1>5, <1>12 DEF P
<1>14. /\ RegisterVariables(ir, var_type, nodes, is_global) = [ir EXCEPT !.ss = ss]
       /\ RegisterVariables(jr, var_type, nodes, is_global) = [jr EXCEPT !.ss = tt]
  BY <1>8
<1> HIDE DEF ss, tt
<1> QED BY <1>3, <1>13, <1>14, LaysOutAlike

\* Declarations
LEMMA DeclarationAlike ==
  ASSUME NEW names, NamesApart(names),
         NEW k \in Nat \ {0}, NEW ir, Builds(ir, 2), NEW jr, Builds(jr, k), Alike(ir, jr, k),
         NEW is_global \in BOOLEAN, NEW type, NEW nodes \in SUBSET NameNodes(names),
         \A x \in nodes : MayDeclare(Name(x), type = "register[]", is_global),
         NEW stmt \in DeclarationsOf(type, nodes)
  PROVE  Alike(HandleSimpleStmt(ir, stmt, is_global), HandleSimpleStmt(jr, stmt, is_global), k)
<1>1. PICK node \in nodes, others \in Others(nodes) :
        stmt = [kind |-> "declare", args |-> << type, node, others >>]
  BY DEF DeclarationsOf
<1>2. stmt.kind = "declare" /\ stmt.args[1] = type /\ stmt.args[2] = node /\ stmt.args[3] = others  BY <1>1
<1> DEFINE iu == HandleSimpleStmt(ir, stmt, is_global)
           ju == HandleSimpleStmt(jr, stmt, is_global)
           more == [i \in DOMAIN others |-> others[i][2]]
           all == << node >> \o more
<1>3. iu = RegisterVariables(ir, type, all, is_global) /\ ju = RegisterVariables(jr, type, all, is_global)
  BY <1>2 DEF HandleSimpleStmt
<1>4. more \in Seq(nodes)  BY SecondOfEach
<1> HIDE DEF more
<1>5. all \in Seq(nodes) /\ \A i \in DOMAIN all : all[i] \in nodes  BY <1>4, InFront
<1> HIDE DEF all, iu, ju
<1>6. all \in Seq(NameNodes(names))  BY <1>5, WiderSeq
<1>7. \A i \in DOMAIN all : MayDeclare(Name(all[i]), type = "register[]", is_global)  BY <1>5
<1>8. Alike(iu, ju, k)  BY <1>3, <1>6, <1>7, DeclaresAlike
<1> QED BY <1>8 DEF iu, ju

\* and definitions keep them alike.
LEMMA DefinitionAlike ==
  ASSUME NEW names, NamesApart(names), "tidxlen" \in names,
         NEW k \in Nat \ {0}, NEW ir, Builds(ir, 2), NEW jr, Builds(jr, k), Alike(ir, jr, k),
         NEW is_global \in BOOLEAN, NEW type, NEW nodes \in SUBSET NameNodes(names),
         \A x \in nodes : MayDeclare(Name(x), type = "register[]", is_global),
         NEW stmt \in DefinitionsOf(type, nodes, Expressions(names))
  PROVE  Alike(HandleSimpleStmt(ir, stmt, is_global), HandleSimpleStmt(jr, stmt, is_global), k)
<1>0. 2 \in Nat \ {0}  OBVIOUS
<1>1. PICK node \in nodes, e \in Expressions(names) : stmt = [kind |-> "define", args |-> << type, node, e >>]
  BY DEF DefinitionsOf
<1>2. stmt.kind = "define" /\ stmt.args[1] = type /\ stmt.args[2] = node /\ stmt.args[3] = e  BY <1>1
<1> DEFINE iu == HandleSimpleStmt(ir, stmt, is_global)
           ju == HandleSimpleStmt(jr, stmt, is_global)
           one == << node >>
           im == RegisterVariables(ir, type, one, is_global)
           jm == RegisterVariables(jr, type, one, is_global)
<1>3. /\ iu = HandleAssignment(im, Name(node), e, is_global)
      /\ ju = HandleAssignment(jm, Name(node), e, is_global)
  BY <1>2 DEF HandleSimpleStmt
<1>4. /\ one \in Seq(NameNodes(names))
      /\ \A i \in DOMAIN one : MayDeclare(Name(one[i]), type = "register[]", is_global)
  <2>1. node \in NameNodes(names) /\ MayDeclare(Name(node), type = "register[]", is_global)  OBVIOUS
  <2>2. << node >> \in Seq(NameNodes(names))  BY <2>1, SequenceOfOne
  <2>3. \A i \in DOMAIN << node >> : << node >>[i] = node  OBVIOUS
  <2> QED BY <2>1, <2>2, <2>3
<1> HIDE DEF iu, ju, one
<1>5. Builds(im, 2) /\ Builds(jm, k)
  <2>1. Builds(im, 2)  BY <1>0, <1>4, DeclaresAll
  <2>2. Builds(jm, k)  BY <1>4, DeclaresAll
  <2> QED BY <2>1, <2>2
<1>6. Alike(im, jm, k)  BY <1>4, DeclaresAlike
<1> HIDE DEF im, jm
<1>7. Alike(iu, ju, k)  BY <1>3, <1>5, <1>6, AssignsAlike
<1> QED BY <1>7 DEF iu, ju

\* Every statement keeps the two pipelines alike.
LEMMA SimpleStmtAlike ==
  ASSUME NEW names, NamesApart(names), "tidxlen" \in names,
         NEW k \in Nat \ {0}, NEW ir, Builds(ir, 2), NEW jr, Builds(jr, k), Alike(ir, jr, k),
         NEW is_global \in BOOLEAN, NEW stmt \in SimpleStmts(names, is_global)
  PROVE  Alike(HandleSimpleStmt(ir, stmt, is_global), HandleSimpleStmt(jr, stmt, is_global), k)
<1> DEFINE iu == HandleSimpleStmt(ir, stmt, is_global)
           ju == HandleSimpleStmt(jr, stmt, is_global)
           words == WordNodes(names, is_global)
           vectors == VectorNodes(names)
<1>1. /\ words \in SUBSET NameNodes(names)
      /\ \A x \in words : MayDeclare(Name(x), "register" = "register[]", is_global)
  BY DEF WordNodes, MayDeclare
<1>2. /\ vectors \in SUBSET NameNodes(names)
      /\ \A x \in vectors : MayDeclare(Name(x), "register[]" = "register[]", is_global)
  BY DEF VectorNodes, MayDeclare
<1> HIDE DEF words, vectors
<1>3. CASE stmt \in DeclarationsOf("register", words)  BY <1>1, <1>3, DeclarationAlike
<1>4. CASE stmt \in DeclarationsOf("register[]", vectors)  BY <1>2, <1>4, DeclarationAlike
<1>5. CASE stmt \in DefinitionsOf("register", words, Expressions(names))  BY <1>1, <1>5, DefinitionAlike
<1>6. CASE stmt \in DefinitionsOf("register[]", vectors, Expressions(names))  BY <1>2, <1>6, DefinitionAlike
<1>7. CASE stmt \in LoadStmts(names)
  <2>1. PICK node \in NameNodes(names), e \in Expressions(names) : stmt = [kind |-> "load", args |-> << node, e >>]
    BY <1>7 DEF LoadStmts
  <2>2. stmt.kind = "load" /\ stmt.args[1] = node /\ stmt.args[2] = e  BY <2>1
  <2>3. iu = HandleAssignment(ir, Name(node), e, is_global) /\ ju = HandleAssignment(jr, Name(node), e, is_global)
    BY <2>2 DEF HandleSimpleStmt
  <2> QED BY <2>3, AssignsAlike
<1>8. CASE stmt \in StoreStmts(names)
  <2>1. PICK node \in NameNodes(names), e \in Expressions(names) : stmt = [kind |-> "store", args |-> << node, e >>]
    BY <1>8 DEF StoreStmts
  <2>2. stmt.kind = "store" /\ stmt.args[1] = node /\ stmt.args[2] = e  BY <2>1
  <2>3. iu = HandleStore(ir, node, e, is_global) /\ ju = HandleStore(jr, node, e, is_global)
    BY <2>2 DEF HandleSimpleStmt
  <2> QED BY <2>3, StoresAlike
<1>9. CASE stmt \in Pauses
  <2>1. stmt.kind = "pause"  BY <1>9 DEF Pauses
  <2>2. iu = ir /\ ju = jr  BY <2>1 DEF HandleSimpleStmt
  <2> QED BY <2>2
<1> QED BY <1>3, <1>4, <1>5, <1>6, <1>7, <1>8, <1>9 DEF SimpleStmts, Declarations, Definitions, words, vectors

\* One step.
LEMMA HandledAlike ==
  ASSUME NEW names, NamesApart(names), "tidxlen" \in names,
         NEW k \in Nat \ {0}, NEW ir, Builds(ir, 2), NEW jr, Builds(jr, k), Alike(ir, jr, k),
         NEW s \in ProgramSteps(names)
  PROVE  Alike(Handled(ir, s), Handled(jr, s), k)
<1> DEFINE im == [ir EXCEPT !.tids = s.tids]
           jm == [jr EXCEPT !.tids = s.tids]
<1>1. s.tids \in SUBSET Int /\ s.is_global \in BOOLEAN /\ s.stmt \in SimpleStmts(names, s.is_global)  BY StepIs
<1>2. Builds(im, 2)  BY <1>1, BuildsFor
<1>3. Builds(jm, k)  BY <1>1, BuildsFor
<1>4. Alike(im, jm, k)
  <2>1. ir \in Pipelines(2) /\ jr \in Pipelines(k)  BY DEF Builds
  <2> QED BY <2>1, TurnsAlike
<1>5. Handled(ir, s) = HandleSimpleStmt(im, s.stmt, s.is_global) /\ Handled(jr, s) = HandleSimpleStmt(jm, s.stmt, s.is_global)
  BY DEF Handled
<1> HIDE DEF im, jm
<1> DEFINE is_global == s.is_global
           stmt == s.stmt
<1>6. is_global \in BOOLEAN /\ stmt \in SimpleStmts(names, is_global)  BY <1>1
<1>7. Handled(ir, s) = HandleSimpleStmt(im, stmt, is_global) /\ Handled(jr, s) = HandleSimpleStmt(jm, stmt, is_global)
  BY <1>5
<1> HIDE DEF is_global, stmt
<1>8. Alike(HandleSimpleStmt(im, stmt, is_global), HandleSimpleStmt(jm, stmt, is_global), k)
  BY <1>2, <1>3, <1>4, <1>6, SimpleStmtAlike
<1> QED BY <1>7, <1>8

\* They are alike in the beginning.
LEMMA StartsAlike ==
  ASSUME NEW num_threads, NEW k \in Nat
  PROVE  Alike(IRPipeline(num_threads, 2), IRPipeline(num_threads, k), k)
<1> DEFINE ss == ScratchSpace
<1>1. ss.scratch_ptr = 0 /\ ss.duplicate = FALSE /\ DOMAIN ss.var_meta = {}  BY DEF ScratchSpace
<1>2. PerThreadSpace(ss) = 0
  <2> DEFINE f == [n \in DOMAIN ss.var_meta |-> IF ss.var_meta[n].slots > 1 THEN ss.var_meta[n].length ELSE 0]
             g == [n \in {} |-> 0]
  <2>1. f = g  BY <1>1
  <2>2. PerThreadSpace(ss) = SumFunction(f)  BY DEF PerThreadSpace
  <2> HIDE DEF f
  <2>3. IsFiniteSet({})  BY FS_EmptySet
  <2>4. SumFunction([n \in {} |-> 0]) = 0  BY <2>3, SumZero
  <2> QED BY <2>1, <2>2, <2>4
<1> HIDE DEF ss
<1>3. SameLayout(ss, ss, k)
  <2>1. (k - 2) * 0 = 0  OBVIOUS
  <2> QED BY <1>1, <1>2, <2>1 DEF SameLayout
<1>4. /\ IRPipeline(num_threads, 2).ss = ss /\ IRPipeline(num_threads, k).ss = ss
      /\ IRPipeline(num_threads, k).globals = IRPipeline(num_threads, 2).globals
      /\ IRPipeline(num_threads, k).locals = IRPipeline(num_threads, 2).locals
      /\ IRPipeline(num_threads, k).tids = IRPipeline(num_threads, 2).tids
      /\ (IRPipeline(num_threads, k).ok <=> IRPipeline(num_threads, 2).ok)
  BY DEF IRPipeline, ss
<1> QED BY <1>3, <1>4 DEF Alike

\* However many threads run at a time, the program and its variables are the same, and the scratch differs
\* by the threads' own variables only.
THEOREM SameProgram ==
  ASSUME NEW names, NamesApart(names), "tidxlen" \in names, NEW prog \in Seq(ProgramSteps(names)),
         NEW num_threads \in Nat, NEW two, Handles(two, prog, num_threads, 2),
         NEW k \in Nat \ {0}, NEW many, Handles(many, prog, num_threads, k)
  PROVE  Alike(two[Len(prog)], many[Len(prog)], k)
<1> DEFINE n == Len(prog)
           P == {i \in Nat : i <= n => Alike(two[i], many[i], k)}
<1>0. 2 \in Nat \ {0}  OBVIOUS
<1>1. \A i \in 0 .. n : Builds(two[i], 2)
  <2>1. \A i \in 0 .. Len(prog) : Builds(two[i], 2) /\ two[i].num_threads = num_threads
    BY <1>0, AllHandled
  <2> QED BY <2>1
<1>2. \A i \in 0 .. n : Builds(many[i], k)
  <2>1. \A i \in 0 .. Len(prog) : Builds(many[i], k) /\ many[i].num_threads = num_threads
    BY AllHandled
  <2> QED BY <2>1
<1>3. n \in Nat /\ \A i \in 1 .. n : prog[i] \in ProgramSteps(names)  OBVIOUS
<1>4. two[0] = IRPipeline(num_threads, 2) /\ many[0] = IRPipeline(num_threads, k)  BY DEF Handles
<1>5. \A i \in 1 .. n : two[i] = Handled(two[i - 1], prog[i]) /\ many[i] = Handled(many[i - 1], prog[i])  BY DEF Handles
<1> HIDE DEF n
<1>6. 0 \in P  BY <1>4, StartsAlike
<1>7. ASSUME NEW i \in Nat, i \in P PROVE i + 1 \in P
  <2> SUFFICES ASSUME i + 1 <= n PROVE Alike(two[i + 1], many[i + 1], k)  OBVIOUS
  <2>1. i + 1 \in 1 .. n /\ (i + 1) - 1 = i /\ i <= n /\ i \in 0 .. n  BY <1>3
  <2>2. Builds(two[i], 2) /\ Builds(many[i], k) /\ Alike(two[i], many[i], k)  BY <1>1, <1>2, <1>7, <2>1
  <2>3. two[i + 1] = Handled(two[i], prog[i + 1]) /\ many[i + 1] = Handled(many[i], prog[i + 1])  BY <1>5, <2>1
  <2>4. prog[i + 1] \in ProgramSteps(names)  BY <1>3, <2>1
  <2> QED BY <2>2, <2>3, <2>4, HandledAlike
<1> HIDE DEF P
<1>8. Nat \subseteq P  BY <1>6, <1>7, Induction
<1> QED BY <1>3, <1>8 DEF P, n

\* The estimate of the threads that fit is exact: compiled for k at a time, the program runs out of scratch
\* if and only if k is beyond it.
THEOREM EstimateIsExact ==
  ASSUME NEW names, NamesApart(names), "tidxlen" \in names, NEW prog \in Seq(ProgramSteps(names)),
         NEW num_threads \in Nat, NEW two, Handles(two, prog, num_threads, 2),
         NEW k \in Nat \ {0}, NEW many, Handles(many, prog, num_threads, k)
  PROVE  LET ss == two[Len(prog)].ss
         IN  ~ss.duplicate /\ ~Overflows(ss) /\ PerThreadSpace(ss) # 0 =>
               (Overflows(many[Len(prog)].ss) <=> k > 2 + FurtherThreads(ss))
<1> DEFINE ss == two[Len(prog)].ss
           tt == many[Len(prog)].ss
           p == ss.scratch_ptr
           m == PerThreadSpace(ss)
           j == k - 2
<1>1. SameLayout(ss, tt, k)  BY SameProgram DEF Alike
<1>2. p \in Nat
  <2>1. \A i \in 0 .. Len(prog) : Builds(two[i], 2) /\ two[i].num_threads = num_threads
    BY AllHandled
  <2>2. Len(prog) \in 0 .. Len(prog)  OBVIOUS
  <2>3. LaidOut(ss, 2)  BY <2>1, <2>2 DEF Builds
  <2> HIDE DEF ss
  <2> QED BY <2>3 DEF LaidOut, ScratchSpaces
<1> SUFFICES ASSUME ~ss.duplicate, ~Overflows(ss), m # 0
             PROVE  Overflows(tt) <=> k > 2 + FurtherThreads(ss)
  OBVIOUS
<1> HIDE DEF ss, tt
<1>3. m \in Nat \ {0} /\ tt.scratch_ptr = p + j * m  BY <1>1 DEF SameLayout
<1> HIDE DEF m
<1>4. SCRATCH_SIZE \in Nat /\ p <= SCRATCH_SIZE  BY <1>2, ScratchLimit DEF Overflows
<1> DEFINE a == SCRATCH_SIZE - p
<1>5. a \in Nat /\ SCRATCH_SIZE = p + a  BY <1>2, <1>4
<1>6. FurtherThreads(ss) = a \div m  BY DEF FurtherThreads, FreeSpace, m
<1> HIDE DEF a
<1>7. j \in Int /\ k = j + 2  OBVIOUS
<1> HIDE DEF j
<1>8. a \div m \in Nat /\ (j * m > a <=> j > a \div m)  BY <1>3, <1>5, <1>7, GoesInto
<1> DEFINE x == j * m
           q == a \div m
<1>9. x \in Int  BY <1>3, <1>7
<1>10. Overflows(tt) <=> p + x > SCRATCH_SIZE  BY <1>3 DEF Overflows
<1>11. q \in Nat /\ (x > a <=> j > q) /\ FurtherThreads(ss) = q  BY <1>6, <1>8
<1> HIDE DEF p, x, q
<1>12. p + x > SCRATCH_SIZE <=> x > a  BY <1>2, <1>5, <1>9
<1>13. j > q <=> k > 2 + q  BY <1>7, <1>11
<1> QED BY <1>10, <1>11, <1>12, <1>13

================================================================================
