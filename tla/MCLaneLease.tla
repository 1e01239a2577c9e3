---------------------------- MODULE MCLaneLease ----------------------------
(* Three interchangeable processes. *)
EXTENDS LaneLease, TLC

CONSTANTS p1, p2, p3

MCProcs == {p1, p2, p3}

MCSymmetry == Permutations(MCProcs)

=============================================================================
