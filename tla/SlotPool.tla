------------------------------ MODULE SlotPool ------------------------------
(***************************************************************************)
(* What admission control promises, without replicas, locks, statements or *)
(* runtimes: a pool of execution slots, PlatformMax of them, at most       *)
(* Limit[w] for workflow w.  A task gets a slot in one step, from the      *)
(* queue, when both limits leave one free.  It may lose the slot, enter or *)
(* leave the queue at any time, but takes a slot in no other way.          *)
(***************************************************************************)
EXTENDS Naturals, FiniteSets

CONSTANTS Tasks, WorkflowOf, PlatformMax, Limit

VARIABLES
    queue,     \* the tasks that may be given a slot
    holders    \* the tasks that have one

SameWorkflow(t) == {u \in holders : WorkflowOf[u] = WorkflowOf[t]}

Init == queue = {} /\ holders = {}

Admit(t) ==
    /\ t \in queue
    /\ Cardinality(holders) < PlatformMax
    /\ Cardinality(SameWorkflow(t)) < Limit[WorkflowOf[t]]
    /\ holders' = holders \cup {t}
    /\ queue' = queue \ {t}

(* A report, a sweep, an operator or a failure decides otherwise about t.  *)
Revise(t) ==
    /\ holders' \in {holders, holders \ {t}}
    /\ queue' \in {queue \cup {t}, queue \ {t}}
    /\ queue' \cap holders' = {}

Next == \E t \in Tasks : Admit(t) \/ Revise(t)

Spec == Init /\ [][Next]_<<queue, holders>>
=============================================================================
