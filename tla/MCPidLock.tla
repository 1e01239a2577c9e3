----------------------------- MODULE MCPidLock -----------------------------
(* Three processes that want the same lock, interchangeable. *)
EXTENDS PidLock, TLC

CONSTANTS p1, p2, p3

MCProcs == {p1, p2, p3}

MCSymmetry == Permutations(MCProcs)

=============================================================================
