-------------------------- MODULE MCWorkflowControl --------------------------
(* Small instances of WorkflowControl for TLC. *)
EXTENDS WorkflowControl, TLC

CONSTANTS w1, w2, s1, s2

\* One workflow whose cancellations and timeouts are compensated, and one with a
\* step that only its failures compensate.
MCTimeout  == [w \in Workflows |-> 1]
MCTriggers == [w \in Workflows |-> IF w = w1 THEN {"cancelled", "timed_out"} ELSE {"failed"}]
MCDeclared == [w \in Workflows |-> IF w = w1 THEN {s1, s2} ELSE {s1}]
MCTargets  == MCDeclared
MCEvents   == [w \in Workflows |-> IF w = w1 THEN 2 ELSE 1]
=============================================================================
