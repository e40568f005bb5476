-------------------------------- MODULE Language --------------------------------
(***************************************************************************)
(* The language of kernel programs and its parser (parser.py).  A text is  *)
(* a sequence of tokens: names, numerals, operators, brackets, keywords    *)
(* with what belongs to them ("register[]", "range(", "end global") and    *)
(* ends of lines; spaces and comments are left out.                        *)
(*                                                                         *)
(* A parser is a value: it says which tokens it accepts, and Parse is how  *)
(* the combinators run it.  The choice is ordered and nothing that matched *)
(* is tried another way, so that the order of the alternatives matters.    *)
(* Instead of a dataclass a parser returns a node [kind, args].            *)
(***************************************************************************)
EXTENDS Integers, FiniteSets, SequencesExt

CONSTANT Number  \* the value of each numeral that texts use

NL == "nl"
Operators == << "*", "+", "^", ">>", "-", "<<", "%", "==" >>
Comparisons == << "<", "==" >>
Symbols == {Operators[i] : i \in DOMAIN Operators}
           \cup {NL, "<", "=", "?", ":", ",", "@", "[", "]", "range(", ")"}
NotNames == Symbols \cup DOMAIN Number

-----------------------------------------------------------------------------
(* Parsers *)

Lit(token) == [op |-> "lit", arg |-> token]
VariableName == [op |-> "name"]
IntConstant == [op |-> "int"]
InOrder(parsers) == [op |-> "seq", arg |-> parsers]
Either(parsers) == [op |-> "or", arg |-> parsers]
Star(p) == [op |-> "star", arg |-> p]
Plus(p) == InOrder(<< p, Star(p) >>)
Opt(p) == Either(<< p, InOrder(<< >>) >>)
Lazy(rule) == [op |-> rule]

\* map: a node of the results at the given places of a sequence.
Map(kind, places, parsers) ==
  [op |-> "map", kind |-> kind, places |-> places, arg |-> InOrder(parsers)]

-----------------------------------------------------------------------------
(* The grammar *)

nl == Plus(Lit(NL))
operator == Either([i \in DOMAIN Operators |-> Lit(Operators[i])])
cmp_operator == Either([i \in DOMAIN Comparisons |-> Lit(Comparisons[i])])
var_or_const == Either(<< VariableName, IntConstant >>)

cond_expr == Either(<< Map("cond", <<1, 2, 3>>, << var_or_const, cmp_operator, var_or_const >>), VariableName >>)
select_expr == Map("select", <<1, 3, 5>>, << cond_expr, Lit("?"), var_or_const, Lit(":"), var_or_const >>)
bin_op_expr == Map("bin_op", <<1, 2, 3>>, << var_or_const, operator, var_or_const >>)
mult_add_expr == Map("mult_add", <<1, 3, 5>>, << VariableName, Lit("*"), var_or_const, Lit("+"), var_or_const >>)
index == Opt(InOrder(<< Lit("["), IntConstant, Opt(Lit("]")) >>))

value_expr == Either(<<
  select_expr, mult_add_expr,
  Map("deref_words", <<2>>, << Lit("@"), VariableName, Lit("["), Lit("]") >>),
  Map("deref", <<2>>, << Lit("@"), VariableName >>),
  Map("deref_const", <<2>>, << Lit("@"), IntConstant >>),
  bin_op_expr,
  Map("variable", <<1, 2>>, << VariableName, index >>),
  IntConstant >>)

variable_type == Either(<< Lit("register[]"), Lit("register") >>)
variable_declaration_stmt == Either(<<
  Map("declare", <<1, 2, 3>>,
      << variable_type, VariableName, Star(InOrder(<< Lit(","), VariableName >>)), nl >>),
  Map("define", <<1, 2, 4>>, << variable_type, VariableName, Lit("="), value_expr, nl >>) >>)
assignment_stmt == Either(<<
  Map("load", <<1, 3>>, << VariableName, Lit("="), value_expr, nl >>),
  Map("store", <<2, 4>>, << Lit("@"), VariableName, Lit("="), value_expr, nl >>) >>)
pause_stmt == Map("pause", << >>, << Lit("pause"), nl >>)

global_stmt == Either(<< variable_declaration_stmt, assignment_stmt, pause_stmt >>)
global_program == Map("global", <<1>>, << Star(global_stmt), Lit("end global"), nl >>)

tid_range == Map("range", <<2, 3>>,
                 << Lit("range("), IntConstant, Plus(InOrder(<< Lit(","), IntConstant >>)), Lit(")") >>)
block == Star(Lazy("thread_local_stmt"))
tid_if_else_stmt == Map("iftid", <<2, 4, 5, 8>>,
  << Lit("iftid"), tid_range, nl, block,
     Star(InOrder(<< Lit("eliftid"), tid_range, nl, block >>)),
     Lit("elsetid"), nl, block, Lit("endiftid"), nl >>)
thread_local_stmt == Either(<<
  Map("thread", <<2>>, << Lit("thread"), variable_declaration_stmt >>),
  assignment_stmt, pause_stmt, tid_if_else_stmt >>)

program == Map("program", <<2, 3>>, << Star(nl), global_program, Star(thread_local_stmt) >>)

-----------------------------------------------------------------------------
(* The combinators *)

None == [ok |-> FALSE]
ParseResult(value, next) == [ok |-> TRUE, value |-> value, next |-> next]
Node(kind, args) == [kind |-> kind, args |-> args]

RECURSIVE Parse(_, _, _), ParseSeq(_, _, _), ParseEither(_, _, _), ParseStar(_, _, _, _)

Parse(p, text, i) ==
  CASE p.op = "lit" -> IF i <= Len(text) /\ text[i] = p.arg THEN ParseResult(p.arg, i + 1) ELSE None
    [] p.op = "name" -> IF i <= Len(text) /\ text[i] \notin NotNames
                        THEN ParseResult(Node("name", << text[i] >>), i + 1) ELSE None
    [] p.op = "int" -> IF i <= Len(text) /\ text[i] \in DOMAIN Number
                       THEN ParseResult(Node("int", << Number[text[i]] >>), i + 1) ELSE None
    [] p.op = "seq" -> ParseSeq(p.arg, text, i)
    [] p.op = "or" -> ParseEither(p.arg, text, i)
    [] p.op = "star" -> ParseStar(p.arg, text, i, Len(text))
    [] p.op = "thread_local_stmt" -> Parse(thread_local_stmt, text, i)
    [] p.op = "map" ->
         LET res == Parse(p.arg, text, i)
         IN  IF res.ok
             THEN ParseResult(Node(p.kind, FoldLeft(LAMBDA args, k : Append(args, res.value[k]), << >>, p.places)),
                                res.next)
             ELSE None

ParseSeq(parsers, text, i) ==
  IF Len(parsers) = 0 THEN ParseResult(<< >>, i)
  ELSE LET first == Parse(Head(parsers), text, i)
           rest == ParseSeq(Tail(parsers), text, first.next)
       IN  IF first.ok /\ rest.ok THEN ParseResult(<< first.value >> \o rest.value, rest.next) ELSE None

ParseEither(parsers, text, i) ==
  IF Len(parsers) = 0 THEN None
  ELSE LET first == Parse(Head(parsers), text, i)
       IN  IF first.ok THEN first ELSE ParseEither(Tail(parsers), text, i)

\* As often as p matches and gets on, at most as often as given; by halves, so that no recursion is deep.
ParseStar(p, text, i, most) ==
  LET first == Parse(p, text, i)
      half == ParseStar(p, text, i, most \div 2)
      rest == ParseStar(p, text, half.next, most - most \div 2)
  IN  CASE most = 1 -> IF first.ok /\ first.next > i THEN ParseResult(<< first.value >>, first.next)
                       ELSE ParseResult(<< >>, i)
        [] most > 1 -> IF Len(half.value) < most \div 2 THEN half
                       ELSE ParseResult(half.value \o rest.value, rest.next)

-----------------------------------------------------------------------------
FullyParsed(text) == LET res == Parse(program, text, 1) IN res.ok /\ res.next = Len(text) + 1
Parsed(text) == Parse(program, text, 1).value
================================================================================
