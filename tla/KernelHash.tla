------------------------------ MODULE KernelHash ------------------------------
(***************************************************************************)
(* The hash that the reference kernel applies to every value, and the      *)
(* arithmetic with which the compiled kernel computes it: multiplications  *)
(* instead of shifts, and two stages in one.                               *)
(***************************************************************************)
EXTENDS Words

CONSTANTS
  HashVal,     \* the second entry of each of the six HASH_STAGES
  FusedAdd,    \* 3925396509
  FusedAdd512  \* 2899272192

ASSUME Fusion ==
  /\ HashVal \in [1 .. 6 -> 0 .. WORD - 1]
  /\ FusedAdd = Add(HashVal[3], HashVal[4])
  /\ FusedAdd512 = Times(HashVal[3], 512)

-----------------------------------------------------------------------------
(* problem.py *)

Fn(op, x, y) ==
  CASE op = "+" -> Add(x, y)
    [] op = "^" -> XOR(x, y)
    [] op = "<<" -> ShiftLeft(x, y)
    [] op = ">>" -> ShiftRight(x, y)

Stage(op1, val1, op2, op3, val3, a) == Fn(op2, Fn(op1, a, val1), Fn(op3, a, val3))

Stage1(a) == Stage("+", HashVal[1], "+", "<<", 12, a)
Stage2(a) == Stage("^", HashVal[2], "^", ">>", 19, a)
Stage3(a) == Stage("+", HashVal[3], "+", "<<", 5, a)
Stage4(a) == Stage("+", HashVal[4], "^", "<<", 9, a)
Stage5(a) == Stage("+", HashVal[5], "+", "<<", 3, a)
Stage6(a) == Stage("^", HashVal[6], "^", ">>", 16, a)

myhash(a) == Stage6(Stage5(Stage4(Stage3(Stage2(Stage1(a))))))

-----------------------------------------------------------------------------
(* input_to_program.py, the computation *)

MultiplyAdd(x, factor, add) == Add(Times(x, factor), add)
XorShifted(x, number, k) == XOR(XOR(x, number), ShiftRight(x, k))
Fused34(x) == XOR(MultiplyAdd(x, 33, FusedAdd), MultiplyAdd(x, 16896, FusedAdd512))

computed_hash(a) ==
  XorShifted(MultiplyAdd(
    Fused34(XorShifted(MultiplyAdd(a, 4097, HashVal[1]), HashVal[2], 19)),
    9, HashVal[5]), HashVal[6], 16)
================================================================================
