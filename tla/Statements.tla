------------------------------- MODULE Statements -------------------------------
(***************************************************************************)
(* What the kernel compiler makes of single statements: scratch variables  *)
(* and logical instructions (IRPipeline of program_to_graph.py).  The      *)
(* statements are nodes [kind, args], as Language parses them.  An         *)
(* IRPipeline is [num_threads, conc_threads, ss, globals, locals, tids,    *)
(* ok]: tids is the tidrange_context, and ok tells that no assertion on a  *)
(* statement has failed.                                                   *)
(***************************************************************************)
EXTENDS InstrGraph

IRPipeline(num_threads, conc_threads) ==
  [num_threads |-> num_threads, conc_threads |-> conc_threads, ss |-> ScratchSpace,
   globals |-> << >>, locals |-> << >>, tids |-> INFINITE_SET, ok |-> TRUE]

AddInstrs(ir, is_global, lins) ==
  IF is_global THEN [ir EXCEPT !.globals = @ \o lins]
  ELSE [ir EXCEPT !.locals = @ \o [i \in DOMAIN lins |-> [lin |-> lins[i], tids |-> ir.tids]]]

\* The first use of a number allocates its variable and sets it up in the global program.
HandleConst(ir, val, is_vector) ==
  LET name == ConstantName(val, is_vector)
      setUp == << Const(Write(name), val) >>
               \o IF is_vector THEN << Broadcast(WriteVec(name), Read(name)) >> ELSE << >>
  IN  IF ~FirstTime(ir.ss, val, is_vector) THEN ir
      ELSE AddInstrs([ir EXCEPT !.ss = AllocConst(@, val, is_vector)], TRUE, setUp)

-----------------------------------------------------------------------------
(* Operands *)

IsInt(x) == x.kind = "int"
IsName(x) == x.kind = "name"
Value(x) == x.args[1]
Name(x) == x.args[1]

\* __check_is_vector, for a name; a name not declared is a KeyError.
Checked(ss, x, expect_vector) ==
  IsName(x) => HasVariable(ss, Name(x)) /\ IsVector(VarMetaOf(ss, Name(x))) = expect_vector

ReadOperand(x, is_vector) ==
  LR(IF IsInt(x) THEN ConstantName(Value(x), is_vector) ELSE Name(x), 0, is_vector, TRUE)
WriteVariable(name, is_vector) == LR(name, 0, is_vector, FALSE)

\* The index of a variable, 0 if it has none.
IndexOf(v) == IF v.args[2] = << >> THEN 0 ELSE Value(v.args[2][2])

-----------------------------------------------------------------------------
(* __handle_variable_assignment: lname = e *)

\* What may be a number, in the order in which numbers are set up.
Operands(e) ==
  CASE e.kind = "bin_op" -> << e.args[1], e.args[3] >>
    [] e.kind = "mult_add" -> << e.args[2], e.args[3] >>
    [] e.kind = "select" -> (IF e.args[1].kind = "cond" THEN << e.args[1].args[1], e.args[1].args[3] >> ELSE << >>)
                            \o << e.args[2], e.args[3] >>
    [] e.kind = "deref_const" -> << e.args[1] >>
    [] e.kind = "int" -> << e >>
    [] OTHER -> << >>

\* Numbers are used as wide as the variable, but an address and the source of a broadcast are words; a
\* word is loaded with a number directly.
SetUpNumbers(ir, e, is_vector) ==
  LET operands == IF e.kind = "int" /\ ~is_vector THEN << >> ELSE Operands(e)
      wide == is_vector /\ e.kind \notin {"deref_const", "int"}
      setUp[k \in 0 .. Len(operands)] ==
        IF k = 0 THEN ir
        ELSE IF IsInt(operands[k]) THEN HandleConst(setUp[k - 1], Value(operands[k]), wide) ELSE setUp[k - 1]
  IN  setUp[Len(operands)]

\* The assertions on e; in a comparison the variable itself holds the condition for a while.
WellTyped(ss, lname, e) ==
  LET is_vector == IsVector(VarMetaOf(ss, lname))
      all == \A i \in DOMAIN Operands(e) : Checked(ss, Operands(e)[i], is_vector)
  IN  HasVariable(ss, lname) /\
      CASE e.kind = "bin_op" -> all
        [] e.kind = "mult_add" -> is_vector /\ all /\ Checked(ss, e.args[1], TRUE)
        [] e.kind = "select" ->
             /\ is_vector /\ all
             /\ IF e.args[1].kind = "cond"
                THEN \A i \in {2, 3} : IsName(e.args[i]) => Name(e.args[i]) # lname
                ELSE Checked(ss, e.args[1], TRUE)
        [] e.kind = "deref_words" -> is_vector /\ Checked(ss, e.args[1], TRUE)
        [] e.kind = "deref" -> Checked(ss, e.args[1], FALSE)
        [] e.kind = "variable" ->
             /\ HasVariable(ss, Name(e.args[1]))
             /\ IndexOf(e) \in 0 .. VarMetaOf(ss, Name(e.args[1])).length - 1
        [] OTHER -> TRUE

SelectInstrs(lname, e) ==
  LET cond == e.args[1]
      dest == WriteVariable(lname, TRUE)
      choose(flag) == LI("flow", "vselect", << dest, flag, ReadOperand(e.args[2], TRUE), ReadOperand(e.args[3], TRUE) >>)
  IN  IF cond.kind # "cond" THEN << choose(ReadOperand(cond, TRUE)) >>
      ELSE << LI("valu", cond.args[2], << dest, ReadOperand(cond.args[1], TRUE), ReadOperand(cond.args[3], TRUE) >>),
              choose(ReadVec(lname)) >>

\* A variable is copied by or-ing it with itself, and into a vector only one word of it, everywhere.
CopyInstr(lname, is_vector, v) ==
  LET rhs == LR(Name(v.args[1]), IndexOf(v), FALSE, TRUE)
  IN  IF is_vector THEN Broadcast(WriteVec(lname), rhs) ELSE LI("alu", "|", << Write(lname), rhs, rhs >>)

AssignmentInstrs(ss, lname, e) ==
  LET is_vector == IsVector(VarMetaOf(ss, lname))
      dest == WriteVariable(lname, is_vector)
      operand(k, vec) == ReadOperand(e.args[k], vec)
      load(addr) == LI("load", IF is_vector THEN "vload" ELSE "load", << dest, addr >>)
  IN  CASE e.kind = "deref_words" ->
             [i \in 1 .. VLEN |-> LI("load", "load", << LR(lname, i - 1, FALSE, FALSE),
                                                        LR(Name(e.args[1]), i - 1, FALSE, TRUE) >>)]
        [] e.kind \in {"deref", "deref_const"} -> << load(operand(1, FALSE)) >>
        [] e.kind = "bin_op" ->
             << LI(IF is_vector THEN "valu" ELSE "alu", e.args[2],
                   << dest, operand(1, is_vector), operand(3, is_vector) >>) >>
        [] e.kind = "mult_add" ->
             << LI("valu", "multiply_add", << dest, operand(1, TRUE), operand(2, TRUE), operand(3, TRUE) >>) >>
        [] e.kind = "select" -> SelectInstrs(lname, e)
        [] e.kind = "int" ->
             << IF is_vector THEN Broadcast(dest, ReadOperand(e, FALSE)) ELSE Const(dest, Value(e)) >>
        [] e.kind = "variable" -> << CopyInstr(lname, is_vector, e) >>

HandleAssignment(ir, lname, e, is_global) ==
  IF ~WellTyped(ir.ss, lname, e) THEN [ir EXCEPT !.ok = FALSE]
  ELSE AddInstrs(SetUpNumbers(ir, e, IsVector(VarMetaOf(ir.ss, lname))), is_global, AssignmentInstrs(ir.ss, lname, e))

-----------------------------------------------------------------------------
(* Statements *)

\* The variable stored, and not the address, says whether it is a vector.
HandleStore(ir, lname, e, is_global) ==
  LET is_vector == IsVector(VarMetaOf(ir.ss, Name(e.args[1])))
  IN  IF ~(e.kind = "variable" /\ HasVariable(ir.ss, Name(e.args[1])) /\ Checked(ir.ss, lname, FALSE))
      THEN [ir EXCEPT !.ok = FALSE]
      ELSE AddInstrs(ir, is_global, << LI("store", IF is_vector THEN "vstore" ELSE "store",
                                          << Read(Name(lname)), WriteVariable(Name(e.args[1]), is_vector) >>) >>)

\* Each thread that can run at a time has its own slot of a thread variable.
RegisterVariables(ir, var_type, names, is_global) ==
  LET slots == IF is_global THEN 1 ELSE ir.conc_threads
      registered[k \in 0 .. Len(names)] ==
        IF k = 0 THEN ir.ss
        ELSE AllocVariable(registered[k - 1], Name(names[k]), var_type = "register[]", slots)
  IN  [ir EXCEPT !.ss = registered[Len(names)]]

\* A pause is dropped: it would need threads to wait for each other.
HandleSimpleStmt(ir, stmt, is_global) ==
  CASE stmt.kind = "declare" ->
         LET others == stmt.args[3]
         IN  RegisterVariables(ir, stmt.args[1], << stmt.args[2] >> \o [i \in DOMAIN others |-> others[i][2]], is_global)
    [] stmt.kind = "define" ->
         HandleAssignment(RegisterVariables(ir, stmt.args[1], << stmt.args[2] >>, is_global),
                          Name(stmt.args[2]), stmt.args[3], is_global)
    [] stmt.kind = "load" -> HandleAssignment(ir, Name(stmt.args[1]), stmt.args[2], is_global)
    [] stmt.kind = "store" -> HandleStore(ir, stmt.args[1], stmt.args[2], is_global)
    [] stmt.kind = "pause" -> ir
================================================================================
