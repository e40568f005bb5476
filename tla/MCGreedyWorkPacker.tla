--------------------------- MODULE MCGreedyWorkPacker ---------------------------
(***************************************************************************)
(* Instances of GreedyWorkPacker for TLC: small programs, compiled from    *)
(* their text, for a machine with vectors of two words.                    *)
(***************************************************************************)
EXTENDS GreedyWorkPacker, ProgramToGraph, Language

Slots == [valu |-> 1, alu |-> 3, load |-> 1, store |-> 1, flow |-> 1]
Numerals == ("0" :> 0) @@ ("1" :> 1) @@ ("2" :> 2) @@ ("3" :> 3)

Lines(lines) == FlattenSeq([i \in DOMAIN lines |-> lines[i] \o << NL >>])
IrpOf(text) == ProgramToIrp(Parsed(text), NumThreads, Conc)

\* Vector and scalar statements: an addition of a constant, arithmetic, multiply_adds that may and may
\* not be split, broadcasts between registers and within one, a select, and a scalar addition.
Pool ==
  { << "v", "=", "w", "+", "1" >>, << "w", "=", "v", "*", "w" >>,
    << "w", "=", "v", "*", "w", "+", "1" >>, << "v", "=", "w", "*", "w", "+", "v" >>,
    << "w", "=", "v", "[", "1", "]" >>, << "v", "=", "v" >>,
    << "v", "=", "w", "?", "v", ":", "1" >>, << "tidxlen", "=", "tidxlen", "+", "1" >> }
Tails == { << "v", "=", "w", "+", "1" >>, << "w", "=", "v", "[", "1", "]" >>, << "v", "=", "v" >> }

\* Load, three statements, the last of them only in threads 0 and 2, and store.
Bodies ==
  { Lines(<< << "end global" >>,
             << "thread", "register", "tidxlen" >>, << "thread", "register[]", "v", ",", "w" >>,
             << "v", "=", "@", "tidxlen" >>, a, b,
             << "iftid", "range(", "0", ",", "1", ")" >>, c,
             << "eliftid", "range(", "2", ",", "3", ")" >>, c,
             << "elsetid" >>, << "endiftid" >>,
             << "@", "tidxlen", "=", "w" >> >>) : a, b \in Pool, c \in Tails }
Pipelines == {IrpOf(text) : text \in Bodies}
Programs == {GetWork(ir, NumThreads, Conc) : ir \in Pipelines}
Size == Max({FinalScratch(ir, Conc).scratch_ptr : ir \in Pipelines})

\* A program whose threads are more than 2 * VLEN, so that tidxlen is set by vector additions of the
\* borrowed constant 2, beside other vector work.
LargeText ==
  Lines(<< << "register", "p" >>, << "register[]", "x", ",", "y", ",", "z" >>,
           << "x", "=", "@", "p" >>, << "y", "=", "x", "*", "x" >>, << "z", "=", "x", "*", "x" >>,
           << "end global" >>,
           << "thread", "register", "tidxlen" >>, << "x", "=", "@", "tidxlen" >> >>)
LargeProgram == {GetWork(IrpOf(LargeText), NumThreads, Conc)}
LargeSize == FinalScratch(IrpOf(LargeText), Conc).scratch_ptr
================================================================================
