-------------------------------- MODULE Sums --------------------------------
(***************************************************************************)
(* Sums over sets of rows: what SELECT COALESCE(SUM(...), 0) returns.      *)
(***************************************************************************)
EXTENDS FiniteSetsExt

\* The sum of f[x] over the elements x of the set S.
SumOver(f, S) == MapThenSumSet(LAMBDA x : f[x], S)

=============================================================================
