-------------------------- MODULE MCMutationProbe --------------------------
(* Two mutants and two commands, one of which may have none. *)
EXTENDS MutationProbe, TLC

CONSTANTS c1, c2

MCCmds == {c1, c2}

MCSymmetry == Permutations(MCCmds)

=============================================================================
