----------------------------- MODULE MCOneBrcRunner ----------------------------
(***************************************************************************)
(* Instances of OneBrcRunner for TLC: the files.                           *)
(***************************************************************************)
EXTENDS OneBrcRunner

\* Files of at most fourteen bytes in lines of two to four: line starts on every side of chunk
\* boundaries, lines as long as a chunk, and a file that is all tail.
FewFiles ==
  {{1, 4, 6, 9, 11, 13}, {3, 6, 10, 13}, {2, 4, 8, 10}, {2, 5, 7, 9, 12}, {1, 3, 5, 7, 9, 11}, {1}}
================================================================================
