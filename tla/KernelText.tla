------------------------------- MODULE KernelText -------------------------------
(***************************************************************************)
(* The program that the kernel is compiled from, as text of Language: what *)
(* input_to_program.py puts together for a tree of the given height, a     *)
(* number of threads and a number of rounds.                               *)
(***************************************************************************)
EXTENDS Language, SequencesExt, TLC

\* The lines one after the other.
Text(lines) == FlattenSeq([i \in DOMAIN lines |-> lines[i] \o << NL >>])
Blank == << NL >>

-----------------------------------------------------------------------------
(* make_template *)

\* The maximal runs of members of S within 0 .. size - 1, as [start, end).
RunsOf(S, size) ==
  LET starts == SelectSeq([i \in 1 .. size |-> i - 1], LAMBDA x : x \in S /\ x - 1 \notin S)
      end(start) == CHOOSE e \in start + 1 .. size : (e = size \/ e \notin S) /\ start .. e - 1 \subseteq S
  IN  [k \in DOMAIN starts |-> << starts[k], end(starts[k]) >>]

TidRange(run) == << "range(", ToString(run[1]), ",", ToString(run[2]), ")" >>

\* The special text for the threads in special_nodes and the standard one for the others.
MakeTemplate(size, special_nodes, special, standard) ==
  LET specials == RunsOf(special_nodes \cap (0 .. size - 1), size)
      standards == RunsOf((0 .. size - 1) \ special_nodes, size)
      first(k) == << IF k > 1 THEN "eliftid" ELSE "iftid" >> \o TidRange(specials[k])
      other(k) == IF k < Len(standards) THEN << "eliftid" >> \o TidRange(standards[k]) ELSE << "elsetid" >>
  IN  IF specials = << >> THEN Blank \o standard \o Blank
      ELSE IF standards = << >> THEN Blank \o special \o Blank
      ELSE Blank \o Blank
           \o FlattenSeq([k \in DOMAIN specials |-> Text(<< first(k) >>) \o special \o Blank])
           \o FlattenSeq([k \in DOMAIN standards |-> Text(<< other(k) >>) \o standard \o Blank])
           \o Text(<< << "endiftid" >> >>) \o Blank

\* Its assertion: the special threads are threads.
ValidTemplate(size, special_nodes) == size > 0 /\ special_nodes \subseteq 0 .. size - 1

-----------------------------------------------------------------------------
(* The pieces *)

Broadcasts(names, numbers) ==
  [i \in DOMAIN names |-> << "register[]", names[i], "=", "treevals", "[", numbers[i], "]" >>]

global_preamble ==
  Text(<< << "register[]", "temp1", ",", "temp2", ",", "temp3", ",", "temp4" >>,
          << "register[]", "treevals" >>,
          << "treevals", "=", "@", "14" >> >>
       \o Broadcasts(<< "b0", "b1", "b2", "b3", "b4", "b5", "b6", "b7" >>,
                     << "0", "1", "2", "3", "4", "5", "6", "7" >>)
       \o << << "treevals", "=", "@", "7" >> >>
       \o Broadcasts(<< "t0", "t1", "t2", "t4", "t5", "t6" >>, << "0", "1", "2", "4", "5", "6" >>)
       \o << << "treevals", "=", "treevals", "[", "3", "]" >>,
             << "register", "inp_values_ptr", "=", "@", "6" >>,
             << "end global" >> >>)

thread_preamble ==
  Text(<< << "thread", "register", "tidxlen" >>,
          << "thread", "register[]", "v", ",", "idx", ",", "p1", ",", "p2" >>,
          << "tidxlen", "=", "tidxlen", "+", "inp_values_ptr" >>,
          << "v", "=", "@", "tidxlen" >> >>)

level0_header == Text(<< << "v", "=", "v", "^", "t0" >> >>)
level0_footer == Text(<< << "idx", "=", "v", "%", "2" >> >>)

level1_header == Text(<< << "p1", "=", "idx", "?", "t2", ":", "t1" >>, << "v", "=", "v", "^", "p1" >> >>)
level1_valu_headerSwapped ==  \* mutant: as if idx were 1 for the left child
  Text(<< << "p2", "=", "t1", "-", "t2" >>,
          << "p1", "=", "idx", "*", "p2", "+", "t2" >>,
          << "v", "=", "v", "^", "p1" >> >>)
level1_valu_header ==
  Text(<< << "p2", "=", "t2", "-", "t1" >>,
          << "p1", "=", "idx", "*", "p2", "+", "t1" >>,
          << "v", "=", "v", "^", "p1" >> >>)
level1_footer == Text(<< << "p1", "=", "v", "%", "2" >> >>)

\* Both headers of level 2: the one is written with temp1, the other with temp2.
level2_header(temp) ==
  Text(<< << "p2", "=", "p1", "?", "t6", ":", "t5" >>,
          << temp, "=", "p1", "?", "t4", ":", "treevals" >>,
          << "p2", "=", "idx", "?", "p2", ":", temp >>,
          << "idx", "=", "idx", "-", "-5" >>,
          << "idx", "=", "idx", "*", "2", "+", "p1" >>,
          << "v", "=", "v", "^", "p2" >> >>)

\* The footer of levels 2 and 3 and that of all further levels are the same.
level_footer ==
  Text(<< << "p1", "=", "v", "%", "2" >>,
          << "p2", "=", "p1", "?", "-5", ":", "-6" >>,
          << "idx", "=", "idx", "*", "2", "+", "p2" >> >>)

level3_header == Text(<< << "p1", "=", "@", "idx", "[", "]" >>, << "v", "=", "v", "^", "p1" >> >>)

\* One of eight nodes without a load: p2 is 0 for the one that p1 must not keep.
Keep(op, number, node) == << << "p2", "=", "p2", op, number >>, << "p1", "=", "p2", "?", "p1", ":", node >> >>
level3_flow_based_header ==
  Text(<< << "p2", "=", "idx", "-", "19" >>, << "p1", "=", "p2", "?", "b0", ":", "b5" >> >>
       \o Keep("+", "2", "b3") \o Keep("+", "2", "b1") \o Keep("+", "-6", "b7")
       \o Keep("-", "-5", "b2") \o Keep("-", "2", "b4") \o Keep("-", "2", "b6")
       \o << << "v", "=", "v", "^", "p1" >> >>)

XorShift(number, shift) ==
  << << "p1", "=", "v", "^", number >>, << "p2", "=", "v", ">>", shift >>, << "v", "=", "p1", "^", "p2" >> >>
computation ==
  Text(<< << "v", "=", "v", "*", "4097", "+", "0x7ED55D16" >> >>
       \o XorShift("0xC761C23C", "19")
       \o << << "p1", "=", "v", "*", "33", "+", "3925396509" >>,
             << "p2", "=", "v", "*", "16896", "+", "2899272192" >>,
             << "v", "=", "p1", "^", "p2" >>,
             << "v", "=", "v", "*", "9", "+", "0xFD7046C5" >> >>
       \o XorShift("0xB55A4F09", "16"))

footer == Text(<< << "@", "tidxlen", "=", "v" >> >>)

-----------------------------------------------------------------------------
(* input_to_program_text *)

\* The threads that take the special way in round r of this level; the others take the standard one.
SpecialNodes(level, r, nthreads) ==
  CASE level = 1 -> IF r = 1 THEN 0 .. 31 ELSE {}
    [] level = 2 -> {t \in 0 .. 31 : t % 2 = 0}
    [] level = 3 -> IF r = 3 THEN 2 .. nthreads - 1 ELSE 0 .. nthreads - 1
    [] OTHER -> {}

Header(level, r, nthreads) ==
  LET specials == SpecialNodes(level, r, nthreads)
  IN  CASE level = 0 -> level0_header
        [] level = 1 -> MakeTemplate(nthreads, specials, level1_valu_header, level1_header)
        [] level = 2 /\ r = 2 -> MakeTemplate(nthreads, specials, level2_header("temp1"), level2_header("temp2"))
        [] level = 2 /\ r > 2 -> MakeTemplate(nthreads, specials, level2_header("temp3"), level2_header("temp4"))
        [] level = 3 -> MakeTemplate(nthreads, specials, level3_flow_based_header, level3_header)
        [] level > 3 -> level3_header

Footer(level, r, nthreads) ==
  CASE level = 0 -> level0_footer
    [] level = 1 -> level1_footer
    [] level = 2 -> level_footer
    [] level = 3 -> MakeTemplate(nthreads, SpecialNodes(level, r, nthreads), level_footer, level_footer)
    [] level > 3 -> level_footer

Round(height, nthreads, rounds, r) ==
  LET level == r % (height + 1)
  IN  Blank \o Header(level, r, nthreads) \o computation
      \o IF level = height \/ r = rounds - 1 THEN << >> ELSE Footer(level, r, nthreads)

InputToProgramText(height, nthreads, rounds) ==
  global_preamble \o thread_preamble
  \o FlattenSeq([i \in 1 .. rounds |-> Round(height, nthreads, rounds, i - 1)])
  \o MakeTemplate(nthreads, {}, footer, footer)

ValidTemplates(height, nthreads, rounds) ==
  \A r \in 0 .. rounds - 1 : ValidTemplate(nthreads, SpecialNodes(r % (height + 1), r, nthreads))
================================================================================
