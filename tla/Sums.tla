-------------------------------- MODULE Sums --------------------------------
(***************************************************************************)
(* Sums of what the members of a finite set account for.                   *)
(***************************************************************************)
EXTENDS Integers, FiniteSetsExt

\* The sum of f over S.
Total(S, f) == MapThenSumSet(LAMBDA x : f[x], S)
=============================================================================
