--------------------------- MODULE MCCoordinator ---------------------------
(* A small instance of Coordinator: two tasks that run side by side and a  *)
(* third that depends on them.                                             *)
EXTENDS Coordinator

CONSTANTS a, b, c

MCTasks == {a, b, c}

MCPlan == <<<<a, b>>, <<c>>>>

MCRetryAllOrNone == {{}, MCTasks}

MCNoRetry == {{}}

=============================================================================
