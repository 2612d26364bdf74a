-------------------------- MODULE MCWorkflowRelease --------------------------
(* Small instances of WorkflowRelease: v1 has one workflow, v2 two, v3 two *)
(* of which one is refused.                                                *)
EXTENDS WorkflowRelease

CONSTANTS v1, v2, v3, w1, w2, t1, t2

MCPackages == [r \in Refs |-> IF r = v1 THEN {w1} ELSE {w1, w2}]
MCRefused == {<<v3, w2>>}
MCWorkflowOf == [t \in Tasks |-> IF t = t1 THEN w1 ELSE w2]
=============================================================================
