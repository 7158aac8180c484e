------------------------------ MODULE MC_Spool ------------------------------
(* A small instance of DatalogSpool for model checking. *)
EXTENDS DatalogSpool, TLC

CONSTANTS r1, r2, r3

MCRows == {r1, r2, r3}
RowSymmetry == Permutations(MCRows)
AllFaults == FaultKinds
=============================================================================
