----------------------------- MODULE MCPlanning -----------------------------
(* All of three tasks with any dependencies, cycles and unknown tasks      *)
(* included; all of four tasks in order with any overlaps; one of five in  *)
(* which a task is first put behind another and ends up before it; and all *)
(* of two tasks with any plan in the file already.                         *)
EXTENDS Planning

AnyDependencies ==
    {[size |-> 3, dependsOn |-> d, overlap |-> {}, plan |-> None] : d \in [1..3 -> SUBSET (0..3)]}

Ordered ==
    {m \in [size : {4}, dependsOn : [1..4 -> SUBSET (1..3)],
            overlap : SUBSET {<<a, b>> \in (1..4) \X (1..4) : a < b}, plan : {None}] : DependencyOrder(m)}

Overtaken ==
    [size |-> 5, dependsOn |-> <<{}, {}, {}, {1}, {2}>>,
     overlap |-> {<<1, 2>>, <<1, 3>>, <<2, 3>>, <<2, 4>>, <<2, 5>>, <<3, 4>>, <<4, 5>>},
     plan |-> None]

PlannedBefore ==
    [size : {2}, dependsOn : {<<{}, {}>>, <<{}, {1}>>}, overlap : {{}, {<<1, 2>>}},
     plan : UNION {[tasks -> 1..3] : tasks \in SUBSET (0..2)}]

MCManifests == AnyDependencies \cup Ordered \cup {Overtaken} \cup PlannedBefore

=============================================================================
