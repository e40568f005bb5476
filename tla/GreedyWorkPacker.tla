---------------------------- MODULE GreedyWorkPacker ----------------------------
(***************************************************************************)
(* The list scheduler of the kernel compiler and the machine that runs     *)
(* what it emits.  Each take() fills one bundle, engine by engine; vector  *)
(* instructions that no longer fit are split into scalar lanes, additions  *)
(* of constants are turned into immediates, and what was issued is retired *)
(* one instruction at a time.  The scheduler never reads the machine, so   *)
(* each bundle is executed as soon as it is complete.                      *)
(*                                                                         *)
(* The heap's priority is left open: any order of the free instructions is *)
(* allowed.  A word of scratch holds which instruction wrote it last.      *)
(***************************************************************************)
EXTENDS InstrGraph

CONSTANTS
  NumThreads,
  Conc,        \* conc_threads: this many threads can run at a time
  Works,       \* the programs to choose from, each as get_work hands it over
  ScratchSize, \* words of scratch in use
  SlotLimits   \* SLOT_LIMITS

ASSUME Threads == NumThreads \in Nat /\ Conc \in 1 .. NumThreads
ASSUME ScratchWords == ScratchSize \in Nat

-----------------------------------------------------------------------------
(* What the packer is given *)

Register == [addr : Nat, vec : BOOLEAN, read : BOOLEAN, array : BOOLEAN, const : Int]
Opcodes ==
  {"*", "+", "^", ">>", "-", "<<", "%", "==", "<", "|", "vbroadcast", "multiply_add", "load", "vload", "const",
   "store", "vstore", "vselect", "add_imm"}
LogicalInstruction ==
  [engine : {"valu", "alu", "load", "store", "flow"}, op : Opcodes, args : Seq(Register), val : Int]
InstrMeta ==
  [inst : Nat, tid : -1 .. NumThreads - 1, lin : LogicalInstruction,
   part : {"whole", "lane", "product", "sum"}, after : SUBSET Nat]

\* dest = a op b
WritesFirst(args) == Len(args) > 0 /\ \A k \in DOMAIN args : args[k].read <=> k # 1
Ternary(lin) == Len(lin.args) = 3 /\ WritesFirst(lin.args)

\* A vector instruction has as many registers as the splits assert, and the vectors among them are
\* whole variables: what it reads is its destination or does not overlap with it.
VectorOperands(op, args) ==
  /\ WritesFirst(args)
  /\ Len(args) = IF op = "vbroadcast" THEN 2 ELSE IF op = "multiply_add" THEN 4 ELSE 3
  /\ args[1].vec
  /\ op # "vbroadcast" =>
       \A k \in DOMAIN args : args[k].vec /\ (args[k].addr = args[1].addr \/ ~Overlaps(args[k], args[1]))

\* Global instructions and then thread by thread, none of them without work; the order that get_work
\* has found; registers within the scratch.
FromGraph(w) ==
  /\ w \in Seq(InstrMeta)
  /\ \A n \in DOMAIN w :
       /\ w[n].inst = n /\ w[n].part = "whole" /\ w[n].after = UnlockedBy(w)[n]
       /\ RangesOf(Registers(w[n])) \subseteq 0 .. ScratchSize - 1
       /\ w[n].lin.engine = "valu" => VectorOperands(w[n].lin.op, w[n].lin.args)
       /\ w[n].lin.engine = "alu" => Ternary(w[n].lin)
  /\ \A m, n \in DOMAIN w : m < n => w[m].tid <= w[n].tid
  /\ \A t \in 0 .. NumThreads - 1 : \E n \in DOMAIN w : w[n].tid = t

ASSUME WorksAreGraphs == \A w \in Works : FromGraph(w)

-----------------------------------------------------------------------------

VARIABLES
  imetas,      \* all InstrMetas, by id: the program's and the sums of split multiply_adds
  incount, free, frontier,
  next_batch_tid,
  schedulable_count_by_tid,
  pc,          \* where work_to_instrs and take() stand
  to_retire,   \* issued in this bundle
  scratch      \* core.scratch: the writer of each word

vars == <<imetas, incount, free, frontier, next_batch_tid, schedulable_count_by_tid,
          pc, to_retire, scratch>>
heap == <<imetas, incount, free, schedulable_count_by_tid>>

\* x as part of its instruction on engine, with the given opcode, registers and ids to unlock.
Part(x, part, engine, op, args, after) ==
  [x EXCEPT !.lin = LI(engine, op, args), !.part = part, !.after = after]
Lane(args, i) == [k \in DOMAIN args |-> ScalarAtOffset(args[k], i)]
AddImm(x, part, args) ==
  [Part(x, part, "flow", "add_imm", SubSeq(args, 1, 2), x.after) EXCEPT !.lin.val = args[3].const]

SchedulableCount(t, s) == Cardinality({x \in s : x.tid = t})

-----------------------------------------------------------------------------
(* Machine.step: all reads see the scratch from before the bundle. *)

Stores(x) == x.lin.engine = "store"
ReadsOf(x) == UNION {RegRange(r) : r \in {q \in Registers(x) : q.read \/ Stores(x)}}
WritesOf(x) == UNION {RegRange(r) : r \in {q \in Registers(x) : ~q.read /\ ~Stores(x)}}

\* What x leaves in the words it writes: the product of a multiply_add is not yet its result.
Token(x) == [by |-> x.inst, partial |-> x.part = "product"]
Done(n) == [by |-> n, partial |-> FALSE]

Execute(bundle) ==
  scratch' = [loc \in DOMAIN scratch |->
                LET W == {x \in bundle : loc \in WritesOf(x)}
                IN  IF W = {} THEN scratch[loc] ELSE Token(CHOOSE x \in W : TRUE)]

-----------------------------------------------------------------------------
Init ==
  /\ imetas \in Works
  /\ incount = [n \in DOMAIN imetas |-> Cardinality({x \in ToSet(imetas) : n \in x.after})]
  /\ next_batch_tid = Conc
  /\ LET ready == {imetas[n] : n \in {m \in DOMAIN imetas : incount[m] = 0}}
     IN  /\ free = {x \in ready : x.tid < next_batch_tid}
         /\ frontier = ready \ free
         /\ schedulable_count_by_tid = [t \in -1 .. NumThreads - 1 |-> SchedulableCount(t, ready)]
  /\ pc = "have_more"
  /\ to_retire = {}
  /\ scratch = [loc \in 0 .. ScratchSize - 1 |-> Done(0)]

\* The frontier members that next_batch_tid = batch lets through.
FallDown(batch, f) == {x \in f : x.tid < batch}

HaveMore ==
  /\ pc = "have_more"
  /\ IF free = {}
     THEN LET fallen == FallDown(next_batch_tid, frontier)
          IN  /\ free' = fallen
              /\ frontier' = frontier \ fallen
              /\ pc' = IF fallen = {} THEN "done" ELSE "valu"
     ELSE pc' = "valu" /\ UNCHANGED <<free, frontier>>
  /\ UNCHANGED <<imetas, incount, next_batch_tid, schedulable_count_by_tid, to_retire, scratch>>

ObtainOneLess(engine, s) ==  \* mutant: the last slot is never used
  LET able == {x \in s : x.lin.engine = engine}
  IN  kSubset(Min({SlotLimits[engine] - 1, Cardinality(able)}), able)

\* As many instructions of s as the engine has slots for, in an order left open.
Obtain(engine, s) ==
  LET able == {x \in s : x.lin.engine = engine}
  IN  kSubset(Min({SlotLimits[engine], Cardinality(able)}), able)

OfEngine(engine) == {x \in free : x.lin.engine = engine}
RemSlots(engine) == SlotLimits[engine] - Min({SlotLimits[engine], Cardinality(OfEngine(engine))})

Issue(S, next) ==
  /\ to_retire' = to_retire \cup S
  /\ pc' = next
  /\ UNCHANGED <<frontier, next_batch_tid, scratch>>

-----------------------------------------------------------------------------
(* Splitting *)

ValuOf(op) == {x \in free \ to_retire : x.lin.engine = "valu" /\ x.lin.op = op}
Broadcasts == {x \in ValuOf("vbroadcast") : ~Overlaps(x.lin.args[1], x.lin.args[2])}
MulAdds == {x \in ValuOf("multiply_add") : ~Overlaps(x.lin.args[1], x.lin.args[4])}
Plain == {x \in free \ to_retire : x.lin.engine = "valu" /\ x.lin.op \notin {"multiply_add", "vbroadcast"}}

\* Plain instructions are split as the loop meets them, so that those behind the first may be
\* skipped: the set it iterates over has changed.  Then come broadcasts, then multiply_adds.
SplitChoices ==
  LET toSplit == (RemSlots("alu") + VLEN - 1) \div VLEN
      number(chosen, s) == Cardinality(chosen \cap s)
      most(room, s) == Min({room, Cardinality(s)})
  IN  {chosen \in SUBSET (Plain \cup Broadcasts \cup MulAdds) :
         /\ Cardinality(chosen) <= toSplit
         /\ IF Plain # {} THEN number(chosen, Plain) > 0
            ELSE /\ number(chosen, Broadcasts) = most(toSplit, Broadcasts)
                 /\ number(chosen, MulAdds) = most(toSplit - number(chosen, Broadcasts), MulAdds)}

\* What the VLEN - 1 further predecessors in place of each split instruction add to a count.
Widened(count, split) == count + (VLEN - 1) * Cardinality(split)
IncountKept(split) == incount  \* mutant: the successors wait for one lane
WidenedIncount(split) == [i \in DOMAIN incount |-> Widened(incount[i], {x \in split : i \in x.after})]
WidenedSchedulable(split) ==
  [t \in DOMAIN schedulable_count_by_tid |->
     Widened(schedulable_count_by_tid[t], {x \in split : x.tid = t})]

\* dest = a op b, or dest = src | src, lane by lane
LanesOf(x) ==
  {LET args == x.lin.args
       scalar == IF x.lin.op = "vbroadcast" THEN <<ScalarAtOffset(args[1], i), args[2], args[2]>>
                 ELSE Lane(args, i)
   IN  Part(x, "lane", "alu", IF x.lin.op = "vbroadcast" THEN "|" ELSE x.lin.op, scalar, x.after) : i \in 0 .. VLEN - 1}

\* dest = a * b, then dest = dest + c
Product(x, i, sumId) ==
  Part(x, "product", "alu", "*", Lane(SubSeq(x.lin.args, 1, 3), i), {sumId})
Sum(x, i) ==
  LET dest == x.lin.args[1]
  IN  Part(x, "sum", "alu", "+", Lane(<<dest, [dest EXCEPT !.read = TRUE], x.lin.args[4]>>, i), x.after)

SplitValu(split) ==
  LET lanes == SetToSeq((split \cap MulAdds) \X (0 .. VLEN - 1))
      sums == [k \in DOMAIN lanes |-> Sum(lanes[k][1], lanes[k][2])]
      products == {Product(lanes[k][1], lanes[k][2], Len(imetas) + k) : k \in DOMAIN lanes}
  IN  /\ imetas' = imetas \o sums
      /\ incount' = WidenedIncount(split) \o [i \in DOMAIN sums |-> 1]
      /\ free' = (free \ split) \cup products \cup UNION {LanesOf(x) : x \in split \ MulAdds}
      /\ schedulable_count_by_tid' = WidenedSchedulable(split)

\* is_vector_imm_add and is_scalar_imm_add
AddsConstant(x, engine, vec) ==
  /\ x.lin.engine = engine /\ x.lin.op = "+"
  /\ \A r \in Registers(x) : r.vec = vec
  /\ x.lin.args[3].const # NoConstant
IsVectorImmAdd(x) == AddsConstant(x, "valu", TRUE)
IsScalarImmAdd(x) == AddsConstant(x, "alu", FALSE)
ImmAdds == {x \in free \ to_retire : IsVectorImmAdd(x) \/ IsScalarImmAdd(x)}

\* A vector addition becomes VLEN immediates, unless it has an ArrayOp; a scalar one becomes one.
Splittable(x) == IsVectorImmAdd(x) /\ \A r \in Registers(x) : ~r.array
Immediates(x) ==
  IF Splittable(x) THEN {AddImm(x, "lane", Lane(x.lin.args, i)) : i \in 0 .. VLEN - 1}
  ELSE IF IsScalarImmAdd(x) THEN {AddImm(x, x.part, x.lin.args)}
  ELSE {x}

SplitAddIntoImm(split) ==
  LET wide == {x \in split : Splittable(x)}
  IN  /\ free' = (free \ split) \cup UNION {Immediates(x) : x \in split}
      /\ incount' = WidenedIncount(wide)
      /\ schedulable_count_by_tid' = WidenedSchedulable(wide)
      /\ UNCHANGED imetas

-----------------------------------------------------------------------------
(* take(), one action per engine *)

TakePlain(engine, next) ==
  /\ pc = engine
  /\ \E S \in Obtain(engine, free) : Issue(S, next)
  /\ UNCHANGED heap

TakeValu == TakePlain("valu", "alu")
TakeAlu == RemSlots("alu") = 0 /\ TakePlain("alu", "load")
TakeLoad == TakePlain("load", "store")
TakeStore == TakePlain("store", "flow")
TakeFlow == RemSlots("flow") = 0 /\ TakePlain("flow", "execute")

TakeAluSplitting ==
  /\ pc = "alu" /\ RemSlots("alu") > 0
  /\ \E split \in SplitChoices : SplitValu(split)
  /\ \E S \in Obtain("alu", free') : Issue(S, "load")

TakeFlowConverting ==
  /\ pc = "flow" /\ RemSlots("flow") > 0
  /\ LET toSplit == (RemSlots("flow") + VLEN - 1) \div VLEN
     IN  \E split \in SUBSET ImmAdds :
           /\ Cardinality(split) <= toSplit /\ (ImmAdds # {} => split # {})
           /\ SplitAddIntoImm(split)
  /\ \E S \in Obtain("flow", free') : Issue(S, "execute")

\* Machine.step on the bundle that take() returns.
Step ==
  /\ pc = "execute"
  /\ Execute(to_retire)
  /\ pc' = "retire"
  /\ UNCHANGED <<heap, frontier, next_batch_tid, to_retire>>

\* The thread has nothing left to issue for now: let one more thread start.  (The instructions that
\* this retirement makes ready are only counted afterwards.)
StartsAnotherTooFew(count) == count = 0 /\ next_batch_tid < NumThreads - 1  \* mutant: off by one
StartsAnother(count) == count = 0 /\ next_batch_tid < NumThreads

\* __retire of one issued instruction.
RetireOne(x) ==
  LET t == x.tid
      dropped == [schedulable_count_by_tid EXCEPT ![t] = @ - 1]
      more == StartsAnother(dropped[t])
      batch == next_batch_tid + IF more THEN 1 ELSE 0
      ready == {imetas[i] : i \in {j \in x.after : incount[j] = 1}}
      waiting == frontier \cup {y \in ready : y.tid >= batch}
      fallen == IF more THEN FallDown(batch, waiting) ELSE {}
  IN  /\ next_batch_tid' = batch
      /\ incount' = [i \in DOMAIN incount |-> incount[i] - IF i \in x.after THEN 1 ELSE 0]
      /\ free' = (free \ {x}) \cup {y \in ready : y.tid < batch} \cup fallen
      /\ frontier' = waiting \ fallen
      /\ schedulable_count_by_tid' = [u \in DOMAIN dropped |-> dropped[u] + SchedulableCount(u, ready)]
      /\ to_retire' = to_retire \ {x}
      /\ UNCHANGED <<imetas, scratch>>

Retire ==
  /\ pc = "retire"
  /\ \E x \in to_retire : RetireOne(x)
  /\ pc' = IF Cardinality(to_retire) = 1 THEN "have_more" ELSE "retire"

Next ==
  \/ HaveMore \/ TakeValu \/ TakeAlu \/ TakeAluSplitting \/ TakeLoad \/ TakeStore
  \/ TakeFlow \/ TakeFlowConverting \/ Step \/ Retire

Spec == Init /\ [][Next]_vars
FairSpec == Spec /\ WF_vars(Next)

-----------------------------------------------------------------------------
(* Properties *)

\* The instructions of the program and those not yet issuable.
Original == {n \in DOMAIN imetas : imetas[n].inst = n}
Waiting == {imetas[i] : i \in {j \in DOMAIN imetas : incount[j] > 0}}

\* The counters that splitting adjusts stay what __retire takes them for: incount[i] is the number of
\* instructions not yet retired that unlock i, a thread's count the number of its issuable ones.
BookkeepingExact ==
  /\ \A i \in DOMAIN incount :
       incount[i] = Cardinality({x \in free \cup frontier \cup Waiting : i \in x.after})
  /\ \A t \in DOMAIN schedulable_count_by_tid :
       schedulable_count_by_tid[t] = SchedulableCount(t, free \cup frontier)

\* The instruction whose value the program, run in order, has at loc when it comes to n.
InOrderWriter(n, loc) == Max({0} \cup {m \in Original : m < n /\ loc \in WritesOf(imetas[m])})

\* The words of the last register that the program's instruction n reads, what a multiply_add adds.
Addend(n) == RegRange(Last(imetas[n].lin.args))

\* Whatever the bundles and the splits, every issued instruction finds in each register it reads what
\* the program in order would have left there; the sum of a multiply_add finds its product where it
\* puts its result, and not where it finds what it adds.
ReadsInProgramOrder ==
  pc = "execute" =>
    \A x \in to_retire : \A loc \in ReadsOf(x) :
      scratch[loc] = IF x.part = "sum" /\ loc \in WritesOf(x) \ Addend(x.inst)
                     THEN [by |-> x.inst, partial |-> TRUE]
                     ELSE Done(InOrderWriter(x.inst, loc))

\* No two instructions of a bundle write the same word: the machine applies one of them last.
OneWriterPerBundle ==
  pc = "execute" =>
    \A x, y \in to_retire : x # y => WritesOf(x) \cap WritesOf(y) = {}

\* When the packer says that there is no more, every instruction has been issued and the scratch is
\* what the program in order leaves: nothing is left behind in the frontier or waiting.
NothingDropped ==
  pc = "done" =>
    /\ frontier = {} /\ Waiting = {}
    /\ \A loc \in DOMAIN scratch : scratch[loc] = Done(InOrderWriter(Len(imetas) + 1, loc))

\* work_to_instrs returns: every bundle makes progress and the splits come to an end.
PackingEnds == <>(pc = "done")

\* The number that an add_imm carries, the constant_value of its variable, is what the register holds at
\* that point of the program: "Constant registers are readonly after setting up".
HeldConstant(n, loc) ==
  LET w == imetas[InOrderWriter(n, loc)]
      origin == IF w.lin.op = "vbroadcast" THEN imetas[InOrderWriter(w.inst, w.lin.args[2].addr)] ELSE w
  IN  origin.lin.val
ImmediatesMatchRegisters ==
  \A x \in to_retire :
    x.lin.op = "add_imm" => x.lin.val = HeldConstant(x.inst, Last(imetas[x.inst].lin.args).addr)
================================================================================
