--------------------------------- MODULE Words ---------------------------------
(***************************************************************************)
(* Arithmetic on machine words, 0 .. WORD - 1.  The code's words have 32   *)
(* bits.  Products are put together from halves of their factors, so that  *)
(* they can be computed with numbers of twice the size of a half.          *)
(***************************************************************************)
EXTENDS Integers

CONSTANTS
  WORD,        \* 2**32 in the code
  HALF,        \* its square root
  XOR(_, _)    \* bitwise, on words

ASSUME Halves == HALF \in Nat \ {0} /\ WORD = HALF * HALF

Add(x, y) == (x + y) % WORD

Times(x, y) ==
  LET mixed == (x \div HALF) * (y % HALF) + (x % HALF) * (y \div HALF)
  IN  ((x % HALF) * (y % HALF) + (mixed % HALF) * HALF) % WORD

ShiftLeft(x, k) == Times(x, 2 ^ k)
ShiftRight(x, k) == x \div 2 ^ k

\* x & y: the bits in both words are what makes their sum differ from their exclusive or.
BitwiseAnd(x, y) == (x + y - XOR(x, y)) \div 2
================================================================================
