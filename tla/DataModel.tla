------------------------------- MODULE DataModel -------------------------------
(***************************************************************************)
(* Registers, instructions and InstrMetas of the kernel compiler.          *)
(*                                                                         *)
(* A LogicalRegister is [name, offset, is_vector, is_read, array]; array   *)
(* tells an ArrayOp, which indexes the slots of its variable one after the *)
(* other.  Resolved, a register is [addr, vec, read, array, const]: the    *)
(* scratch address of its first word in the slot of its thread, whether it *)
(* is a whole vector, whether it is read, whether it is an ArrayOp, and    *)
(* the constant_value of its variable.  A store marks its source as        *)
(* written, as the code does, though the machine only reads it.            *)
(*                                                                         *)
(* An instruction is [engine, op, args, val]; val is the number in a       *)
(* "const" load or an "add_imm".                                           *)
(*                                                                         *)
(* An InstrMeta is [inst, tid, lin, part, after]: its place in the program,*)
(* its thread (-1 for the global program), and the ids that it unlocks;    *)
(* part tells what it does of instruction inst: all of it, one lane, or    *)
(* the product or the sum of one lane of a multiply_add.                   *)
(***************************************************************************)
EXTENDS Integers, FiniteSets, SequencesExt

CONSTANT VLEN       \* words in a vector

ASSUME VectorLength == VLEN \in Nat \ {0}

NoConstant == -123  \* constant_value of what is no constant

\* The default tidrange.
INFINITE_SET == -1 .. 99

-----------------------------------------------------------------------------
LR(name, offset, is_vector, is_read) ==
  [name |-> name, offset |-> offset, is_vector |-> is_vector, is_read |-> is_read, array |-> FALSE]
ArrayOp(name, offset, is_vector, is_read) ==
  [name |-> name, offset |-> offset, is_vector |-> is_vector, is_read |-> is_read, array |-> TRUE]

Read(name) == LR(name, 0, FALSE, TRUE)
Write(name) == LR(name, 0, FALSE, FALSE)
ReadVec(name) == LR(name, 0, TRUE, TRUE)
WriteVec(name) == LR(name, 0, TRUE, FALSE)

LI(engine, op, args) == [engine |-> engine, op |-> op, args |-> args, val |-> 0]
Const(reg, val) == [LI("load", "const", <<reg>>) EXCEPT !.val = val]
Broadcast(dest, src) == LI("valu", "vbroadcast", <<dest, src>>)

-----------------------------------------------------------------------------
(* Resolved registers *)

RegRange(r) == r.addr .. (r.addr + IF r.vec THEN VLEN - 1 ELSE 0)
ScalarAtOffset(r, i) == [r EXCEPT !.addr = @ + i, !.vec = FALSE]
Overlaps(r, q) == RegRange(r) \cap RegRange(q) # {}

Registers(x) == ToSet(x.lin.args)
================================================================================
