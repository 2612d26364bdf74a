-------------------------- MODULE MCTaskQueueLive --------------------------
(* Progress is checked either with two replicas and no fault, or with one  *)
(* replica, a fault or operator and a single report.                       *)
EXTENDS MCTaskQueue

CONSTANTS m1, m2

VARIABLE part

Focus ==
    /\ UNCHANGED part
    /\ part = "replicas" => ops' = 0
    /\ part = "faults"   => pc'[m2] = "poll" /\ events' <= 1

MCInit == Init /\ part \in {"replicas", "faults"}
MCNext == Next /\ Focus

(* Fairness of TaskQueue, within what is looked at. *)
MCSpec ==
    /\ MCInit /\ [][MCNext]_<<vars, part>>
    /\ \A m \in Managers : WF_<<vars, part>>(Dequeue(m) /\ Focus)
    /\ \A t \in Tasks :
          /\ WF_<<vars, part>>(EventCommit(t) /\ Focus)
          /\ WF_<<vars, part>>(ResumeAdmitted(t) /\ Focus)
          /\ WF_<<vars, part>>((MonitorSees(t) \/ MonitorCompletes(t)) /\ Focus)
          /\ WF_<<vars, part>>((SweepReads(t) \/ SweepWrites(t) \/ SweepCancels(t)) /\ Focus)
          /\ WF_<<vars, part>>((RerunWrites(t) \/ DeleteTask(t)) /\ Focus)
=============================================================================
