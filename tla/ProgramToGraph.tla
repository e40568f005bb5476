----------------------------- MODULE ProgramToGraph -----------------------------
(***************************************************************************)
(* From a parsed program to scratch variables and logical instructions     *)
(* (program_to_graph.py): its statements one after the other, the blocks   *)
(* of a tid_if_else each for the threads of its range.                     *)
(***************************************************************************)
EXTENDS Statements

TidSet(range) == Value(range.args[1]) .. Value(range.args[2][1][2]) - 1

RECURSIVE HandleStmt(_, _, _), HandleStmts(_, _, _)

\* One after the other until an assertion fails; by halves, so that the recursion is not deep.
HandleStmts(ir, stmts, is_global) ==
  LET half == Len(stmts) \div 2
      first == HandleStmts(ir, SubSeq(stmts, 1, half), is_global)
  IN  CASE Len(stmts) = 0 -> ir
        [] Len(stmts) = 1 -> HandleStmt(ir, stmts[1], is_global)
        [] OTHER -> IF first.ok THEN HandleStmts(first, SubSeq(stmts, half + 1, Len(stmts)), is_global) ELSE first

\* Each block for the threads of its range, the last one for those in no range.
HandleTidIfElse(ir, ranges, blocks, is_global) ==
  LET rest == (0 .. ir.num_threads - 1) \ UNION {TidSet(ranges[k]) : k \in DOMAIN ranges}
      tids(k) == IF k \in DOMAIN ranges THEN TidSet(ranges[k]) ELSE rest
  IN  HandleStmts(ir, [k \in DOMAIN blocks |-> [kind |-> "block", args |-> << tids(k), blocks[k] >>]], is_global)

\* After a block the tidrange is the default again, whatever it was before.
HandleBlock(ir, tids, stmts, is_global) ==
  [HandleStmts([ir EXCEPT !.tids = tids], stmts, is_global) EXCEPT !.tids = INFINITE_SET]

HandleStmt(ir, stmt, is_global) ==
  CASE stmt.kind = "thread" -> HandleStmt(ir, stmt.args[1], is_global)
    [] stmt.kind = "block" -> HandleBlock(ir, stmt.args[1], stmt.args[2], is_global)
    [] stmt.kind = "iftid" ->
         LET more == stmt.args[3]
         IN  HandleTidIfElse(ir, << stmt.args[1] >> \o [i \in DOMAIN more |-> more[i][2]],
                             << stmt.args[2] >> \o [i \in DOMAIN more |-> more[i][4]] \o << stmt.args[4] >>, is_global)
    [] OTHER -> HandleSimpleStmt(ir, stmt, is_global)

ProgramToIrp(prog, num_threads, conc_threads) ==
  HandleStmts(HandleStmts(IRPipeline(num_threads, conc_threads), prog.args[1].args[1], TRUE), prog.args[2], FALSE)

-----------------------------------------------------------------------------
(* estimate_max_conc_threads *)

\* Not even two threads fit: the code then calls a function that does not exist.
NoEstimate(prog, num_threads) == Overflows(ProgramToIrp(prog, num_threads, 2).ss)

EstimateOneLess(prog, num_threads) ==  \* mutant: one of the two threads compiled for is forgotten
  Min({1 + FurtherThreads(ProgramToIrp(prog, num_threads, 2).ss), num_threads})
EstimateMaxConcThreads(prog, num_threads) ==
  Min({2 + FurtherThreads(ProgramToIrp(prog, num_threads, 2).ss), num_threads})
================================================================================
