------------------------------ MODULE MCLockup ------------------------------
(***************************************************************************)
(* Small instances of the lockup program: two accounts that may share a    *)
(* mint, and every schedule beside a second safe.                          *)
(***************************************************************************)
EXTENDS Lockup, TLC

\* Every mint belongs to one safe.
MintsOfOne == [m \in Mints |-> CHOOSE s \in Safes : TRUE]

Symmetry == Permutations(Vestings) \union Permutations(Users)
=============================================================================
