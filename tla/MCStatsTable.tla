------------------------------ MODULE MCStatsTable -----------------------------
(***************************************************************************)
(* Instances of StatsTable for TLC: cities.                                *)
(***************************************************************************)
EXTENDS StatsTable

\* Male with an acute accent, in UTF-8: the last byte of its name begins a word of its own.
Male == {<<77, 97, 108, 195, 169>>}

\* Two temperatures, in tenths, on both sides of zero.
TwoTemps == {-5, 12}
================================================================================
