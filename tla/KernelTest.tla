------------------------------- MODULE KernelTest -------------------------------
(***************************************************************************)
(* do_kernel_test of perf_takehome.py, from the program text to the final  *)
(* memory: build_kernel compiles the kernel of a tree, a batch and a       *)
(* number of rounds, the machine runs it on the memory image, and the      *)
(* values are compared with those of the reference kernel.                 *)
(*                                                                         *)
(* The instructions run one by one in program order: that the packed       *)
(* bundles compute the same is what GreedyWorkPacker is about.             *)
(***************************************************************************)
EXTENDS KernelText, ProgramToGraph, Machine, KernelHash

CONSTANTS
  Cases,           \* the tests: [height, threads, rounds, seed]
  Random(_, _)     \* the random numbers of a seed

VARIABLES
  test,            \* the test that runs
  state,           \* where it stands; the core's state while it runs
  pc, scratch,     \* of the core
  mem,
  stores           \* [at, by, from] for every word that has been stored

vars == << test, state, pc, scratch, mem, stores >>

-----------------------------------------------------------------------------
(* Tree.generate, Input.generate, build_mem_image *)

NumNodes(c) == 2 ^ (c.height + 1) - 1
BatchSize(c) == c.threads * VLEN
ForestValuesP == 7
InpIndicesP(c) == ForestValuesP + NumNodes(c)
InpValuesP(c) == InpIndicesP(c) + BatchSize(c)

\* The last assignment to the image cuts off the room that was to follow the values.
MemImage(c) ==
  LET header == << c.rounds, NumNodes(c), BatchSize(c), c.height, ForestValuesP, InpIndicesP(c), InpValuesP(c) >>
  IN  [a \in 0 .. InpValuesP(c) + BatchSize(c) - 1 |->
         IF a < ForestValuesP THEN header[a + 1]
         ELSE IF a \in InpIndicesP(c) .. InpValuesP(c) - 1 THEN 0
         ELSE Random(c.seed, a)]

\* reference_kernel2: each value walks down the tree, and from its leaves back to the root.
RefRound(c, image, item) ==
  LET val == myhash(XOR(item.val, image[ForestValuesP + item.idx]))
      idx == 2 * item.idx + IF val % 2 = 0 THEN 1 ELSE 2
  IN  [val |-> val, idx |-> IF idx >= NumNodes(c) THEN 0 ELSE idx]

Reference(c) ==
  LET image == MemImage(c)
      start(i) == [val |-> image[InpValuesP(c) + i], idx |-> 0]
      rounds == [r \in 1 .. c.rounds |-> r]
  IN  [i \in 0 .. BatchSize(c) - 1 |->
         FoldLeft(LAMBDA item, r : RefRound(c, image, item), start(i), rounds).val]

-----------------------------------------------------------------------------
(* build_kernel *)

\* The parsed program, or no program if an assertion on the way or the parser fails.
ParsedText(text) ==
  LET res == Parse(program, text, 1) IN IF res.ok /\ res.next = Len(text) + 1 THEN res ELSE None
InputToProgram(c) ==
  IF ValidTemplates(c.height, c.threads, c.rounds)
  THEN ParsedText(InputToProgramText(c.height, c.threads, c.rounds))
  ELSE None

NoKernel == [ok |-> FALSE]

Assembled(ir, ss, oneMoreFits) ==
  IF ir.ok /\ ~ss.duplicate /\ ~Overflows(ss)
  THEN [ok |-> TRUE, conc |-> ir.conc_threads, size |-> ss.scratch_ptr, oneMoreFits |-> oneMoreFits,
        instrs |-> ProgramOrder(ir, ir.num_threads, ir.conc_threads)]
  ELSE NoKernel
AssembledFor(prog, threads, conc) ==
  LET ir == ProgramToIrp(prog, threads, conc)
  IN  Assembled(ir, FinalScratch(ir, conc), ~Overflows(ProgramToIrp(prog, threads, conc + 1).ss))
Compiled(parsed, threads) ==
  IF ~parsed.ok \/ NoEstimate(parsed.value, threads) THEN NoKernel
  ELSE AssembledFor(parsed.value, threads, EstimateMaxConcThreads(parsed.value, threads))
BuildKernel(c) == Compiled(InputToProgram(c), c.threads)

Kernel == [c \in Cases |-> BuildKernel(c)]
Instrs == Kernel[test].instrs

-----------------------------------------------------------------------------
Init ==
  /\ test \in Cases
  /\ state = "building"
  /\ pc = 1
  /\ scratch = << >>
  /\ mem = MemImage(test)
  /\ stores = {}

Build ==
  /\ state = "building"
  /\ IF Kernel[test].ok
     THEN state' = "running" /\ scratch' = Zeroes(Kernel[test].size)
     ELSE state' = "failed" /\ UNCHANGED scratch
  /\ UNCHANGED << test, pc, mem, stores >>

\* Machine.step; an access beyond the memory is an IndexError.
Step ==
  /\ state = "running" /\ pc <= Len(Instrs)
  /\ LET x == Instrs[pc]
         written == Stored(x, scratch)
     IN  IF InBounds(x, scratch, mem)
         THEN /\ scratch' = ScratchAfter(x, scratch, mem)
              /\ mem' = MemAfter(x, scratch, mem)
              /\ stores' = stores \cup {[at |-> a, by |-> x.tid, from |-> written[a].from] : a \in DOMAIN written}
              /\ UNCHANGED state
         ELSE state' = "failed" /\ UNCHANGED << scratch, mem, stores >>
  /\ pc' = pc + 1
  /\ UNCHANGED test

Stop ==
  /\ state = "running" /\ pc > Len(Instrs)
  /\ state' = "stopped"
  /\ UNCHANGED << test, pc, scratch, mem, stores >>

Next == Build \/ Step \/ Stop

Spec == Init /\ [][Next]_vars

-----------------------------------------------------------------------------
(* Properties *)

\* The assertion of do_kernel_test, for the whole batch: the compiled kernel leaves the values that the
\* reference kernel computes.  Only the kernels are refused for which make_template has no threads, and
\* only the threads beyond the default tidrange, which ends at 99, do nothing.
KernelMatchesReference ==
  /\ state = "failed" => test.rounds > 1 /\ test.threads < 32
  /\ state = "stopped" =>
       LET expected == Reference(test)
           computed == {i \in DOMAIN expected : i \div VLEN \in INFINITE_SET}
       IN  \A i \in computed : mem[InpValuesP(test) + i] = expected[i]

\* No instruction reads a register before it is written, nor what another thread has left in the slot
\* that it has taken over: all that a thread reads it has written itself, or the global program has.
OwnRegisters ==
  state = "running" /\ pc <= Len(Instrs) =>
    \A loc \in Sources(Instrs[pc]) : scratch[loc].by \in {-1, Instrs[pc].tid}

\* The graph has no edges for what is stored in and loaded from memory, because threads that access
\* the same word are taken to be the program's fault: this program stores no word twice, and nothing
\* that it stores comes from a word that is stored elsewhere, so that no such edge is missing.
MemoryOrderIsFree ==
  state = "stopped" =>
    /\ \A x, y \in stores : x.at = y.at => x = y
    /\ \A x \in stores : x.from \cap {y.at : y \in stores} \subseteq {x.at}

\* estimate_max_conc_threads compiles for two threads and divides what scratch they leave among the
\* further ones: one thread more than it says would not fit.  (That as many do fit as it says is part
\* of KernelMatchesReference: the kernel would not be built.)
EstimateIsLargest ==
  state = "running" /\ Kernel[test].conc < test.threads => ~Kernel[test].oneMoreFits
================================================================================
