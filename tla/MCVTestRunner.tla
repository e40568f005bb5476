----------------------------- MODULE MCVTestRunner -----------------------------
(***************************************************************************)
(* Instances of VTestRunner for TLC: class parameters and test filters.    *)
(***************************************************************************)
EXTENDS VTestRunner

\* Two shared rules, of two candidates each.
TwoByTwo == <<2, 2>>

\* One shared rule, of two candidates.
OneOfTwo == <<2>>

\* A plain value of two between two shared rules of two candidates.
TwoByTwoByTwo == <<2, 2, 2>>

\* Nothing is ignored, or the second method is.
NoneOrSecond == {{}, {1}}

\* --test_filter on a method name: all combinations of the second method.
MethodFilters == {{t \in Tests : MethodOf(t) = 1}}

\* A filter on the described names, such as running one combination from an IDE.
ComboFilters == {{t \in Tests : ComboOf(t) = c} : c \in 0 .. NumCombos - 1}
================================================================================
