---------------------------- MODULE MCTaskQueue ----------------------------
(* Small instances of TaskQueue: up to three tasks of two workflows.       *)
EXTENDS TaskQueue, TLC

CONSTANTS t1, t2, t3, w1, w2

MCWorkflowOf == [t \in Tasks |-> IF t = t3 THEN w2 ELSE w1]
MCLimit      == (w1 :> 1) @@ (w2 :> 2)
MCPriority   == (w1 :> 1) @@ (w2 :> 2)

(* Replicas are interchangeable, and so are the two tasks of workflow w1.  *)
MCSymmetry == Permutations(Managers) \cup Permutations({t1, t2})

(* The caps are checked beside reports, or beside a fault or an operator.  *)
CapsNext == Next /\ 0 \in {events', ops'}
CapsSpec == Init /\ [][CapsNext]_vars
=============================================================================
