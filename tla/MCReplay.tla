------------------------------ MODULE MCReplay ------------------------------
(* Small instances of Replay: a task worker and an operator's process. *)
EXTENDS Replay

CONSTANTS task, host

Both == {task, host}
TaskOnly == {task}

AllLanes == [w \in Workers |-> IF w = task THEN {"sweep", "trial"} ELSE Lane]
=============================================================================
