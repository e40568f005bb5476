------------------------------ MODULE EachLineOnce -----------------------------
(***************************************************************************)
(* What CalculateAverage_vemana promises of the way it splits its input:   *)
(* each line of the file is counted by one thread, once, and a result is   *)
(* given only when all are and accounts for each of them once; otherwise   *)
(* the program fails without a result.                                     *)
(***************************************************************************)
EXTENDS Naturals

VARIABLES
  lines,    \* the lines of the file
  taken,    \* how often each has been counted
  answer,   \* how often the result accounts for each, once there is a result
  outcome   \* "none", "result" or "failure"

vars == <<lines, taken, answer, outcome>>

Init ==
  /\ taken = [p \in lines |-> 0]
  /\ answer = [p \in lines |-> 0]
  /\ outcome = "none"

Count(p) ==
  /\ outcome # "result" /\ taken[p] = 0
  /\ taken' = [taken EXCEPT ![p] = 1]
  /\ UNCHANGED <<lines, answer, outcome>>

GiveResult ==
  /\ outcome = "none"
  /\ \A p \in lines : taken[p] = 1
  /\ answer' = taken
  /\ outcome' = "result"
  /\ UNCHANGED <<lines, taken>>

Fail ==
  /\ outcome = "none"
  /\ outcome' = "failure"
  /\ UNCHANGED <<lines, taken, answer>>

Next == (\E p \in lines : Count(p)) \/ GiveResult \/ Fail

Spec == Init /\ [][Next]_vars
================================================================================
