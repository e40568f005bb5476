-------------------------------- MODULE Scratch --------------------------------
(***************************************************************************)
(* Allocation of scratch words to variables (scratch.py).  A ScratchSpace  *)
(* is [scratch_ptr, var_meta, duplicate]; var_meta is a function of the    *)
(* names allocated so far, and duplicate tells that a name was asked for   *)
(* twice, which an assertion of the code stops.  The pointer only grows,   *)
(* so that the exception for running out of scratch has been raised if and *)
(* only if the pointer is beyond the limit in the end.                     *)
(***************************************************************************)
EXTENDS DataModel, TLC

CONSTANT SCRATCH_SIZE

ASSUME ScratchLimit == SCRATCH_SIZE \in Nat

ScratchSpace == [scratch_ptr |-> 0, var_meta |-> << >>, duplicate |-> FALSE]

HasVariable(ss, name) == name \in DOMAIN ss.var_meta
VarMetaOf(ss, name) == ss.var_meta[name]
IsVector(vm) == vm.length > 1

AllocScratch(ss, name, length, slots, const) ==
  LET vm == [addr |-> ss.scratch_ptr, length |-> length, slots |-> slots, const |-> const]
  IN  [scratch_ptr |-> ss.scratch_ptr + length * slots,
       var_meta |-> [n \in DOMAIN ss.var_meta \cup {name} |-> IF n = name THEN vm ELSE ss.var_meta[n]],
       duplicate |-> ss.duplicate \/ HasVariable(ss, name)]

\* alloc_word and alloc_wide_word
AllocVariable(ss, name, is_vector, slots) ==
  AllocScratch(ss, name, IF is_vector THEN VLEN ELSE 1, slots, NoConstant)

\* A number has one variable as a word and one as a vector.
ConstantName(val, is_vector) == (IF is_vector THEN "_KV_" ELSE "_K_") \o ToString(val)
FirstTime(ss, val, is_vector) == ~HasVariable(ss, ConstantName(val, is_vector))
AllocConst(ss, val, is_vector) ==
  IF FirstTime(ss, val, is_vector)
  THEN AllocScratch(ss, ConstantName(val, is_vector), IF is_vector THEN VLEN ELSE 1, 1, val)
  ELSE ss

AddrOf(vm, slot) == vm.addr + IF vm.slots = 1 THEN 0 ELSE slot * vm.length

Overflows(ss) == ss.scratch_ptr > SCRATCH_SIZE
FreeSpace(ss) == SCRATCH_SIZE - ss.scratch_ptr
PerThreadSpace(ss) ==
  SumFunction([name \in DOMAIN ss.var_meta |->
                 IF ss.var_meta[name].slots > 1 THEN ss.var_meta[name].length ELSE 0])

\* How many more threads than it was laid out for have room.
FurtherThreads(ss) == FreeSpace(ss) \div PerThreadSpace(ss)
================================================================================
