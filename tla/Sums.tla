-------------------------------- MODULE Sums --------------------------------
(* The SQL aggregate COALESCE(SUM(...), 0) and Python's running totals: the    *)
(* values summed are given as a function.                                     *)
EXTENDS FiniteSetsExt

\* The sum of f[x] over the x in S
SumOver(f, S) == MapThenSumSet(LAMBDA x : f[x], S)
=============================================================================
