------------------------------ MODULE InstrGraph ------------------------------
(***************************************************************************)
(* What the kernel compiler hands to its scheduler: the instructions of    *)
(* all threads in program order, and for every instruction the later ones  *)
(* it unlocks.  The input, ir, is what ProgramToGraph makes of a program:  *)
(* its scratch layout, its global instructions, and its thread program, a  *)
(* sequence of [lin |-> instruction, tids |-> its tidrange].               *)
(***************************************************************************)
EXTENDS Scratch

\* Threads tid and tid + conc share a slot; the global program, tid -1, has the last one.
WorkSlotOf(tid, conc) == tid % conc

\* A register of the given slot; an ArrayOp ignores the slot.
Resolved(r, ss, slot) ==
  LET vm == VarMetaOf(ss, r.name)
  IN  [addr |-> AddrOf(vm, IF r.array THEN 0 ELSE slot) + r.offset,
       vec |-> r.is_vector, read |-> r.is_read, array |-> r.array, const |-> vm.const]

-----------------------------------------------------------------------------
(* get_tidmetas *)

Chained(ss, conc) == HasVariable(ss, "tidxlen") /\ conc > 2 * VLEN

\* set_constant: give the vector constant whose value is src the value val.
SetConstant(src, val) ==
  LET name == ConstantName(src, TRUE)
  IN  << Const(Write(name), val), Broadcast(WriteVec(name), Read(name)) >>

\* The loop that fills tidxlen a vector at a time; the last one may overlap with the one before.
ChainStarts(conc) ==
  [k \in 1 .. (conc - 1) \div VLEN |-> IF k * VLEN + VLEN - 1 < conc THEN k * VLEN ELSE conc - VLEN]

\* The global instructions that set tidxlen, borrowing the vector constant 2 ...
TidGlobalsOverlap(ss, conc) ==  \* mutant: a vector after the one before, but not VLEN vectors
  LET add(start) == LI("valu", "+", << ArrayOp("tidxlen", start, TRUE, FALSE),
                                       ArrayOp("tidxlen", start - VLEN, TRUE, TRUE),
                                       ReadVec(ConstantName(2, TRUE)) >>)
      first(i) == Const(ArrayOp("tidxlen", i - 1, FALSE, FALSE), (i - 1) * VLEN)
  IN  IF ~Chained(ss, conc) THEN <<>>
      ELSE SetConstant(2, VLEN) \o [i \in 1 .. VLEN |-> first(i)]
           \o [i \in DOMAIN ChainStarts(conc) |-> add(ChainStarts(conc)[i])] \o SetConstant(2, 2)
TidGlobals(ss, conc) ==
  IF ~Chained(ss, conc) THEN <<>>
  ELSE LET add(start) == LI("valu", "+", << ArrayOp("tidxlen", start, TRUE, FALSE),
                                             ArrayOp("tidxlen", start - VLEN, TRUE, TRUE),
                                             ReadVec(ConstantName(2, TRUE)) >>)
           starts == ChainStarts(conc)
       IN  SetConstant(2, VLEN * VLEN)
           \o [i \in 1 .. VLEN |-> Const(ArrayOp("tidxlen", i - 1, FALSE, FALSE), (i - 1) * VLEN)]
           \o [i \in DOMAIN starts |-> add(starts[i])]
           \o SetConstant(2, 2)

\* ... and those of thread tid
TidLocalsLater(ss, conc, tid) ==  \* mutant: the first thread to take over a slot is forgotten
  IF HasVariable(ss, "tidxlen") /\ (~Chained(ss, conc) \/ tid > conc)
  THEN << Const(Write("tidxlen"), tid * VLEN) >> ELSE <<>>
TidLocals(ss, conc, tid) ==
  IF HasVariable(ss, "tidxlen") /\ (~Chained(ss, conc) \/ tid >= conc)
  THEN << Const(Write("tidxlen"), tid * VLEN) >> ELSE <<>>

\* The scratch as get_tidmetas leaves it: the borrowed constant may be allocated only now.
FinalScratch(ir, conc) == IF Chained(ir.ss, conc) THEN AllocConst(ir.ss, 2, TRUE) ELSE ir.ss

-----------------------------------------------------------------------------
(* The program *)

LocalsOf(ir, tid) ==
  FlattenSeq([i \in DOMAIN ir.locals |-> IF tid \in ir.locals[i].tids THEN << ir.locals[i].lin >> ELSE << >>])

Owned(tid, lins, ss, conc) ==
  LET slot == WorkSlotOf(tid, conc)
  IN  [i \in DOMAIN lins |->
         [tid |-> tid, lin |-> [lins[i] EXCEPT !.args = [k \in DOMAIN @ |-> Resolved(@[k], ss, slot)]]]]

\* Program order: the global program, and then thread by thread.
ProgramOrder(ir, num_threads, conc) ==
  LET ss == FinalScratch(ir, conc)
      thread(tid) == Owned(tid, TidLocals(ss, conc, tid) \o LocalsOf(ir, tid), ss, conc)
  IN  Owned(-1, TidGlobals(ss, conc) \o ir.globals, ss, conc)
      \o FlattenSeq([t \in 1 .. num_threads |-> thread(t - 1)])

-----------------------------------------------------------------------------
(* The order that must be kept *)

RangesOf(regs) == UNION {RegRange(r) : r \in regs}

\* One of handle_conflict's edges is due to loc: n is its last writer before m, or m its next after n.
OrdersFirstPass(written, n, m, loc) ==  \* mutant: no pass over the reversed program
  loc \in written[n] /\ \A k \in n + 1 .. m - 1 : loc \notin written[k]
OrdersReaders(written, n, m, loc) ==  \* mutant: two writers are not a conflict
  /\ (loc \in written[n]) # (loc \in written[m])
  /\ \A k \in n + 1 .. m - 1 : loc \notin written[k]
Orders(written, n, m, loc) ==
  /\ loc \in written[n] \cup written[m]
  /\ \A k \in n + 1 .. m - 1 : loc \notin written[k]

UnlockedBy(program) ==
  LET ids == DOMAIN program
      touched == [n \in ids |-> RangesOf(Registers(program[n]))]
      written == [n \in ids |-> RangesOf({r \in Registers(program[n]) : ~r.read})]
      later(n) == {m \in ids : m > n /\ \E loc \in touched[n] \cap touched[m] : Orders(written, n, m, loc)}
  IN  [n \in ids |-> later(n)]

GetWork(ir, num_threads, conc) ==
  LET program == ProgramOrder(ir, num_threads, conc)
      unlocked == UnlockedBy(program)
  IN  [n \in DOMAIN program |->
         [inst |-> n, tid |-> program[n].tid, lin |-> program[n].lin, part |-> "whole", after |-> unlocked[n]]]
================================================================================
