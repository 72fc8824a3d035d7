--------------------------- MODULE MCUsageMetering ---------------------------
(* Small instances of UsageMetering. *)
EXTENDS UsageMetering, TLC

\* Attempts are interchangeable.
AttemptSymmetry == Permutations(Attempts)

=============================================================================
