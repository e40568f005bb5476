-------------------------------- MODULE MCOneBrc -------------------------------
(***************************************************************************)
(* Instances of OneBrc for TLC: files and what they say.                   *)
(***************************************************************************)
EXTENDS OneBrc

\* Files of four to six lines: two or three in the chunks of either shard, and one or two in the tail.
SomeFiles == {{1, 4, 6, 9, 11, 13}, {3, 6, 10, 13}, {2, 4, 8, 10}}

\* Two names, of one byte and of five, whose hash is the last slot: one of them wraps around.
Plain == <<65>>
Paris == <<80, 97, 114, 105, 115>>
TwoCities == {Plain, Paris}
TwoTemps == {-5, 12}

\* The lines alternate between the cities or the temperatures, or most are alike.
SomeTexts(file) ==
  LET nth(p) == Cardinality({q \in Lines(file) : q < p})
  IN  {[p \in Lines(file) |-> IF nth(p) % 2 = 0 THEN <<Plain, 12>> ELSE <<Paris, -5>>],
       [p \in Lines(file) |-> <<IF nth(p) % 3 = 1 THEN Paris ELSE Plain, IF nth(p) % 2 = 0 THEN -5 ELSE 12>>]}
================================================================================
