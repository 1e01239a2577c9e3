------------------------------ MODULE MCBatch ------------------------------
(* Interchangeable runs, and a manifest of two tasks.  What is on disk may *)
(* be edited, or not be committed, and the base branch not be known.       *)
EXTENDS Batch, TLC

CONSTANTS p1, p2, t1, t2

MCProcs == {p1, p2}

MCTasks == {t1, t2}

MCOrder == <<t1, t2>>

MCArtifacts == {<<1, 1>>, <<2, 1>>, <<1, 0>>, <<1, None>>}

MCSymmetry == Permutations(MCProcs)

=============================================================================
