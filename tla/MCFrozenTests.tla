--------------------------- MODULE MCFrozenTests ---------------------------
(* A small instance of FrozenTests: two tests in one file, taken from two  *)
(* specifications, the first of them frozen on main or not there at all.   *)
EXTENDS FrozenTests

CONSTANTS t1, t2, f1, s1, s2

MCFileOf == [t \in Targets |-> f1]
MCSpecOf == [t \in Targets |-> IF t = t1 THEN s1 ELSE s2]

Bare == [spec |-> [s \in Specs |-> 0], test |-> [f \in Files |-> None], fix |-> [t \in Targets |-> 0],
         manifest |-> [t \in Targets |-> None], other |-> {}, moved |-> {}]

Frozen == Test(t1) \cup {Dashes}

WithFirst == [Bare EXCEPT !.test[f1] = Frozen, !.manifest[t1] = [spec |-> 0, test |-> Frozen]]

MCFirst == {Bare, WithFirst}

Budget(session, red, runs, tasks, others) ==
    [who \in Who |-> CASE who = "session" -> session [] who = "red" -> red [] who = "runs" -> runs
                       [] who = "tasks" -> tasks [] who = "others" -> others]

(* A busy run of the author alone; one that is handed over to a feature    *)
(* that goes on; and a feature and main without one.                       *)
MCBudgets == {Budget(2, 1, 1, 0, 0), Budget(1, 0, 1, 1, 0), Budget(0, 0, 0, 2, 1), Budget(0, 0, 0, 3, 0)}

=============================================================================
