------------------------------ MODULE MCClose ------------------------------
(* Two interchangeable runs. *)
EXTENDS Close, TLC

CONSTANTS p1, p2

MCProcs == {p1, p2}

MCSymmetry == Permutations(MCProcs)

=============================================================================
