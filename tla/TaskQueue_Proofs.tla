-------------------------- MODULE TaskQueue_Proofs --------------------------
(***************************************************************************)
(* Proofs about TaskQueue for every set of tasks, workflows and replicas:  *)
(* type correctness, the two concurrency caps, that a claim never          *)
(* overwrites a status committed after the selection, and that the queue   *)
(* implements the slot pool of SlotPool.                                   *)
(***************************************************************************)
EXTENDS TaskQueue, FiniteSetTheorems, TLAPS

USE DEF RUNNABLE_STATUSES, WAITING_STATUSES, TERMINAL_STATUSES, RERUNNABLE,
        Status, Reported, InTransaction, Admitting, HasRow, LiveRuntime,
        Exited, Replaced, Decision

(* Every initial state is type correct. *)
LEMMA InitType == Init => TypeOK
  BY QueueAssumptions DEF Init, TypeOK

(* A dequeue that gives up (releases its locks and starts polling again)   *)
(* keeps the state type correct.                                           *)
LEMMA GiveUpType ==
    ASSUME TypeOK, NEW m \in Managers, GiveUp(m)
    PROVE  TypeOK'
<1> USE QueueAssumptions
<1>1. /\ rowlock' \in [Tasks -> Managers \cup {NoOne, Gateway}]
      /\ lock' \in Managers \cup {NoOne}
      /\ enabled' \in [Managers -> SUBSET Workflows]
      /\ blocked' \in [Managers -> SUBSET Workflows]
  BY DEF GiveUp, EndTransaction, TypeOK
<1>2. /\ pc' \in [Managers -> {"poll", "lock", "admit", "spawn", "record"} \cup InTransaction]
      /\ picked' \in [Managers -> Tasks \cup {NoOne}]
      /\ \A n \in Managers : pc'[n] \in HasRow => picked'[n] \in Tasks
  BY DEF GiveUp, TypeOK
<1> QED
  BY <1>1, <1>2 DEF GiveUp, TypeOK, table, counters

(* Every step of a session manager keeps the state type correct. *)
LEMMA DequeueType ==
    ASSUME TypeOK, NEW m \in Managers, Dequeue(m) \/ Abort(m)
    PROVE  TypeOK'
<1> USE QueueAssumptions
<1>1. CASE ReadAgents(m)
  BY <1>1 DEF ReadAgents, TypeOK, table, locks, counters
<1>2. CASE AcquireAdmissionLock(m)
  BY <1>2 DEF AcquireAdmissionLock, TypeOK, table, counters
<1>3. CASE CountRunning(m)
  <2>1. CASE GiveUp(m)
    BY <2>1, GiveUpType
  <2>2. CASE ~GiveUp(m)
    BY <1>3, <2>2 DEF CountRunning, TypeOK, table, locks, counters
  <2> QED
    BY <2>1, <2>2
<1>4. CASE SelectCandidate(m)
  <2>1. CASE GiveUp(m)
    BY <2>1, GiveUpType
  <2>2. CASE ~GiveUp(m)
    BY <1>4, <2>2, SMTT(40) DEF SelectCandidate, Eligible, TypeOK, table, counters
  <2> QED
    BY <2>1, <2>2
<1>5. CASE CheckWorkflow(m)
  BY <1>5 DEF CheckWorkflow, TypeOK, table, locks, counters
<1>6. CASE ClaimTask(m)
  BY <1>6 DEF ClaimTask, EndTransaction, TypeOK, counters
<1>7. CASE AdmitExisting(m)
  BY <1>7 DEF AdmitExisting, TypeOK, locks, counters
<1>8. CASE Launch(m)
  <2>1. picked[m] \in Tasks
    BY <1>8 DEF Launch, TypeOK
  <2>2. pending' \in [Tasks -> SUBSET Decision]
    BY <1>8, <2>1 DEF Launch, Gone, TypeOK
  <2> QED
    BY <1>8, <2>1, <2>2, SMTT(40) DEF Launch, TypeOK, locks
<1>9. CASE RecordRuntime(m)
  <2>1. picked[m] \in Tasks
    BY <1>9 DEF RecordRuntime, TypeOK
  <2>2. /\ attached' = attached \/ attached' = [attached EXCEPT ![picked[m]] = TRUE]
        /\ status' = status \/ status' = [status EXCEPT ![picked[m]] = "failed"]
        /\ ops' = ops \/ ops' = ops + 1
    BY <1>9 DEF RecordRuntime
  <2>3. attached' \in [Tasks -> BOOLEAN]
    BY <2>1, <2>2, Zenon DEF TypeOK
  <2>4. status' \in [Tasks -> Status] /\ ops' \in Nat
    BY <2>1, <2>2 DEF TypeOK
  <2>5. /\ pc' \in [Managers -> {"poll", "lock", "admit", "spawn", "record"} \cup InTransaction]
        /\ picked' \in [Managers -> Tasks \cup {NoOne}]
        /\ \A n \in Managers : pc'[n] \in HasRow => picked'[n] \in Tasks
    BY <1>9 DEF RecordRuntime, TypeOK
  <2>6. UNCHANGED <<created, archived, erred, rt, pending, locks, agents, enabled,
                    blocked, events>>
    BY <1>9 DEF RecordRuntime
  <2> QED
    BY <2>3, <2>4, <2>5, <2>6 DEF TypeOK, locks
<1>10. CASE Abort(m)
  BY <1>10 DEF Abort, EndTransaction, TypeOK, table
<1> QED
  BY <1>1, <1>2, <1>3, <1>4, <1>5, <1>6, <1>7, <1>8, <1>9, <1>10 DEF Dequeue

(* Every step of the gateway, a runtime, a sweep, the container monitor or *)
(* an operator on a task keeps the state type correct.                     *)
LEMMA OtherType ==
    ASSUME TypeOK, NEW t \in Tasks, Other(t)
    PROVE  TypeOK'
<1> USE QueueAssumptions DEF manager, TypeOK
<1>1. CASE CreateTask(t)
  <2>1. Cardinality(Created) \in Nat
    BY FS_Subset, FS_CardinalityType DEF Created
  <2> QED  BY <1>1, <2>1 DEF CreateTask, locks, counters
<1>2. CASE EventBegin(t)
  BY <1>2 DEF EventBegin, Reports, table
<1>3. CASE EventLost(t)
  BY <1>3 DEF EventLost, Reports, AfterReport, table, locks
<1>4. CASE EventCommit(t)
  <2>1. erred' \in [Tasks -> BOOLEAN]
    BY <1>4, Zenon DEF EventCommit
  <2> QED  BY <1>4, <2>1 DEF EventCommit, EventStatus, AfterReport, counters
<1>5. CASE ResumeAdmitted(t) \/ HumanWaitTimeout(t)
  BY <1>5 DEF ResumeAdmitted, HumanWaitTimeout, table, locks, counters
<1>6. CASE RuntimeDies(t)
  BY <1>6 DEF RuntimeDies, table, locks
<1>7. CASE MonitorSees(t)
  BY <1>7 DEF MonitorSees, table, locks, counters
<1>8. CASE MonitorCompletes(t)
  BY <1>8 DEF MonitorCompletes, FinalStatus, locks
<1>9. CASE SweepReads(t)
  BY <1>9 DEF SweepReads, table, locks, counters
<1>10. CASE SweepWrites(t)
  BY <1>10 DEF SweepWrites, locks, counters
<1>11. CASE SweepCancels(t)
  BY <1>11 DEF SweepCancels, table, locks
<1>12. CASE RerunReads(t)
  BY <1>12 DEF RerunReads, table, locks
<1>13. CASE RerunWrites(t)
  BY <1>13 DEF RerunWrites, locks, counters
<1>14. CASE ArchiveTask(t)
  <2>1. archived' \in [Tasks -> BOOLEAN]
    BY <1>14, Zenon DEF ArchiveTask
  <2> QED  BY <1>14, <2>1 DEF ArchiveTask, locks
<1>15. CASE DeleteStops(t)
  BY <1>15 DEF DeleteStops, table, locks
<1>16. CASE DeleteTask(t)
  BY <1>16 DEF DeleteTask, locks, counters
<1> QED
  BY <1>1, <1>2, <1>3, <1>4, <1>5, <1>6, <1>7, <1>8, <1>9, <1>10, <1>11, <1>12,
     <1>13, <1>14, <1>15, <1>16 DEF Other

(* Type correctness is preserved by every step. *)
LEMMA NextType == TypeOK /\ [Next]_vars => TypeOK'
<1> SUFFICES ASSUME TypeOK, [Next]_vars PROVE TypeOK'
  OBVIOUS
<1>1. ASSUME NEW m \in Managers, Dequeue(m) \/ Abort(m) PROVE TypeOK'
  BY <1>1, DequeueType
<1>2. ASSUME NEW t \in Tasks, Other(t) PROVE TypeOK'
  BY <1>2, OtherType
<1>3. ASSUME NEW w \in Workflows, SwitchAgent(w) PROVE TypeOK'
  BY <1>3, QueueAssumptions DEF SwitchAgent, TypeOK, table, locks, manager
<1>4. CASE UNCHANGED vars
  BY <1>4 DEF vars, table, locks, manager, counters, TypeOK
<1> QED
  BY <1>1, <1>2, <1>3, <1>4 DEF Next

(* Type correctness of the queue: every column of the task table, every    *)
(* lock and every local variable of the consumer loop keeps its domain.    *)
THEOREM TypeCorrect == Spec => []TypeOK
  BY InitType, NextType, PTL DEF Spec

-----------------------------------------------------------------------------
(* The replica in the counting transaction is the holder of the advisory   *)
(* lock: no step breaks the correspondence.                                *)
LEMMA LockStep == TypeOK /\ LockInv /\ [Next]_vars => LockInv'
<1> SUFFICES ASSUME TypeOK, LockInv, [Next]_vars PROVE LockInv'
  OBVIOUS
<1> USE QueueAssumptions DEF TypeOK, LockInv
<1>1. ASSUME NEW m \in Managers, Dequeue(m) \/ Abort(m) PROVE LockInv'
  <2>1. CASE ReadAgents(m)
    BY <2>1 DEF ReadAgents, locks
  <2>2. CASE AcquireAdmissionLock(m)
    BY <2>2 DEF AcquireAdmissionLock
  <2>3. CASE CountRunning(m)
    BY <2>3 DEF CountRunning, GiveUp, EndTransaction, locks
  <2>4. CASE SelectCandidate(m)
    BY <2>4 DEF SelectCandidate, GiveUp, EndTransaction
  <2>5. CASE CheckWorkflow(m)
    BY <2>5 DEF CheckWorkflow, locks
  <2>6. CASE ClaimTask(m)
    BY <2>6 DEF ClaimTask, EndTransaction
  <2>7. CASE AdmitExisting(m)
    BY <2>7 DEF AdmitExisting, locks
  <2>8. CASE Launch(m) \/ RecordRuntime(m)
    BY <2>8 DEF Launch, RecordRuntime, locks
  <2>9. CASE Abort(m)
    BY <2>9 DEF Abort, EndTransaction
  <2> QED
    BY <1>1, <2>1, <2>2, <2>3, <2>4, <2>5, <2>6, <2>7, <2>8, <2>9 DEF Dequeue
<1>2. ASSUME NEW t \in Tasks, Other(t) PROVE UNCHANGED <<pc, lock>>
  BY <1>2 DEF Other, CreateTask, EventBegin, EventLost, EventCommit,
     ResumeAdmitted, HumanWaitTimeout, RuntimeDies, MonitorSees,
     MonitorCompletes, SweepReads, SweepWrites, SweepCancels, RerunReads,
     RerunWrites, ArchiveTask, DeleteStops, DeleteTask, locks, manager
<1>3. ASSUME NEW w \in Workflows, SwitchAgent(w) PROVE UNCHANGED <<pc, lock>>
  BY <1>3 DEF SwitchAgent, locks, manager
<1>4. CASE UNCHANGED vars
  BY <1>4 DEF vars, locks, manager
<1> QED
  BY <1>1, <1>2, <1>3, <1>4 DEF Next

(* The candidate of a replica stays locked by it and runnable until the    *)
(* replica claims it or its transaction ends: every other writer of the    *)
(* row needs the row lock.                                                 *)
LEMMA RowStep == TypeOK /\ LockInv /\ RowInv /\ [Next]_vars => RowInv'
<1> SUFFICES ASSUME TypeOK, LockInv, RowInv, [Next]_vars,
                    NEW n \in Managers, pc'[n] \in {"check", "claim"}
             PROVE  (rowlock[picked[n]] = n /\ Runnable(picked[n]))'
  BY DEF RowInv
<1> USE QueueAssumptions DEF TypeOK, RowInv, Runnable
<1>1. ASSUME NEW m \in Managers, Dequeue(m) \/ Abort(m)
      PROVE  (rowlock[picked[n]] = n /\ Runnable(picked[n]))'
  <2>1. CASE ReadAgents(m)
    BY <2>1 DEF ReadAgents, locks, table
  <2>2. CASE AcquireAdmissionLock(m)
    BY <2>2 DEF AcquireAdmissionLock, table
  <2>3. CASE CountRunning(m)
    BY <2>3 DEF CountRunning, GiveUp, EndTransaction, locks, table
  <2>4. CASE SelectCandidate(m)
    <3>1. CASE GiveUp(m)
      BY <2>4, <3>1 DEF SelectCandidate, GiveUp, EndTransaction, table
    <3>2. CASE n = m /\ ~GiveUp(m)
      BY <2>4, <3>2 DEF SelectCandidate, Eligible, table
    <3>3. CASE n # m /\ ~GiveUp(m)
      BY <2>4, <3>3 DEF SelectCandidate, Eligible, table
    <3> QED  BY <3>1, <3>2, <3>3
  <2>5. CASE CheckWorkflow(m)
    BY <2>5 DEF CheckWorkflow, locks, table
  <2>6. CASE ClaimTask(m)
    BY <2>6 DEF ClaimTask, EndTransaction
  <2>7. CASE AdmitExisting(m)
    BY <2>7 DEF AdmitExisting, Writable, locks
  <2>8. CASE Launch(m) \/ RecordRuntime(m)
    BY <2>8 DEF Launch, RecordRuntime, Writable, Row, locks
  <2>9. CASE Abort(m)
    BY <2>9 DEF Abort, EndTransaction, table
  <2> QED
    BY <1>1, <2>1, <2>2, <2>3, <2>4, <2>5, <2>6, <2>7, <2>8, <2>9 DEF Dequeue
<1>2. ASSUME NEW t \in Tasks, Other(t)
      PROVE  (rowlock[picked[n]] = n /\ Runnable(picked[n]))'
  <2> USE <1>2 DEF Writable, Row, manager, table, locks
  <2>1. CASE CreateTask(t)
    BY <2>1 DEF CreateTask
  <2>2. CASE EventBegin(t)
    BY <2>2 DEF EventBegin
  <2>3. CASE EventCommit(t)
    BY <2>3 DEF EventCommit
  <2>4. CASE \/ EventLost(t) \/ ResumeAdmitted(t) \/ HumanWaitTimeout(t)
             \/ RuntimeDies(t) \/ MonitorSees(t) \/ SweepReads(t)
             \/ SweepCancels(t) \/ RerunReads(t) \/ DeleteStops(t)
    BY <2>4 DEF EventLost, ResumeAdmitted, HumanWaitTimeout, RuntimeDies,
       MonitorSees, SweepReads, SweepCancels, RerunReads, DeleteStops
  <2>5. CASE MonitorCompletes(t)
    BY <2>5 DEF MonitorCompletes
  <2>6. CASE SweepWrites(t)
    BY <2>6 DEF SweepWrites
  <2>7. CASE RerunWrites(t)
    BY <2>7 DEF RerunWrites
  <2>8. CASE ArchiveTask(t)
    BY <2>8 DEF ArchiveTask
  <2>9. CASE DeleteTask(t)
    BY <2>9 DEF DeleteTask
  <2> QED
    BY <2>1, <2>2, <2>3, <2>4, <2>5, <2>6, <2>7, <2>8, <2>9 DEF Other
<1>3. ASSUME NEW w \in Workflows, SwitchAgent(w)
      PROVE  (rowlock[picked[n]] = n /\ Runnable(picked[n]))'
  BY <1>3 DEF SwitchAgent, table, locks, manager
<1>4. CASE UNCHANGED vars
  BY <1>4 DEF vars, table, locks, manager
<1> QED
  BY <1>1, <1>2, <1>3, <1>4 DEF Next

-----------------------------------------------------------------------------
(* The sets counted by dequeue_task are finite, so their sizes are numbers *)
(* and shrink with the sets.                                               *)
LEMMA Counts ==
    /\ IsFiniteSet(RunningTasks) /\ Cardinality(RunningTasks) \in Nat
    /\ \A w \in Workflows : /\ IsFiniteSet(RunningOf(w))
                            /\ Cardinality(RunningOf(w)) \in Nat
<1>1. RunningTasks \subseteq Tasks /\ \A w \in Workflows : RunningOf(w) \subseteq Tasks
  BY DEF RunningTasks, RunningOf
<1> QED
  BY <1>1, QueueAssumptions, FS_Subset, FS_CardinalityType

(* The only step that makes a task running is the claim of a replica.      *)
LEMMA OnlyClaimsRun ==
    ASSUME TypeOK, [Next]_vars, \A m \in Managers : ~ClaimTask(m)
    PROVE  \A t \in Tasks : status'[t] = "running" => status[t] = "running"
<1> USE QueueAssumptions DEF TypeOK
<1>1. ASSUME NEW m \in Managers, Dequeue(m) \/ Abort(m)
      PROVE  \A t \in Tasks : status'[t] = "running" => status[t] = "running"
  BY <1>1 DEF Dequeue, ReadAgents, AcquireAdmissionLock, CountRunning,
     SelectCandidate, CheckWorkflow, AdmitExisting, Launch, RecordRuntime, Abort,
     GiveUp, table
<1>2. ASSUME NEW t \in Tasks, Other(t)
      PROVE  \A u \in Tasks : status'[u] = "running" => status[u] = "running"
  <2>1. CASE EventCommit(t)
    BY <2>1 DEF EventCommit, EventStatus
  <2>2. CASE ~EventCommit(t)
    BY <1>2, <2>2 DEF Other, CreateTask, EventBegin, EventLost, ResumeAdmitted,
       HumanWaitTimeout, RuntimeDies, MonitorSees, MonitorCompletes, FinalStatus,
       SweepReads, SweepWrites, SweepCancels, RerunReads, RerunWrites,
       ArchiveTask, DeleteStops, DeleteTask, table
  <2> QED  BY <2>1, <2>2
<1>3. ASSUME NEW w \in Workflows, SwitchAgent(w) PROVE UNCHANGED status
  BY <1>3 DEF SwitchAgent, table
<1>4. CASE UNCHANGED vars
  BY <1>4 DEF vars, table
<1> QED
  BY <1>1, <1>2, <1>3, <1>4 DEF Next

(* A step that makes no task running does not raise any of the counts.     *)
LEMMA CountsShrink ==
    ASSUME \A t \in Tasks : status'[t] = "running" => status[t] = "running"
    PROVE  /\ Cardinality(RunningTasks') <= Cardinality(RunningTasks)
           /\ \A w \in Workflows :
                 Cardinality(RunningOf(w)') <= Cardinality(RunningOf(w))
<1>1. RunningTasks' \subseteq RunningTasks
  BY DEF RunningTasks
<1>2. \A w \in Workflows : RunningOf(w)' \subseteq RunningOf(w)
  BY <1>1 DEF RunningOf
<1> QED
  BY <1>1, <1>2, Counts, FS_Subset

(* Adding an element raises the size of a finite set by at most one.       *)
LEMMA AddOne ==
    ASSUME NEW S, IsFiniteSet(S), NEW x
    PROVE  /\ IsFiniteSet(S \cup {x}) /\ Cardinality(S \cup {x}) \in Nat
           /\ Cardinality(S \cup {x}) <= Cardinality(S) + 1
<1>1. Cardinality(S) \in Nat
  BY FS_CardinalityType
<1>2. /\ IsFiniteSet(S \cup {x})
      /\ Cardinality(S \cup {x}) = IF x \in S THEN Cardinality(S) ELSE Cardinality(S) + 1
  BY FS_AddElement
<1> QED
  BY <1>1, <1>2

(* A claim adds one task to the running ones and one to its workflow's.    *)
LEMMA ClaimCounts ==
    ASSUME TypeOK, NEW m \in Managers, ClaimTask(m)
    PROVE  /\ Cardinality(RunningTasks') <= Cardinality(RunningTasks) + 1
           /\ \A w \in Workflows :
                 Cardinality(RunningOf(w)') <=
                    Cardinality(RunningOf(w)) + (IF w = WorkflowOf[picked[m]] THEN 1 ELSE 0)
<1> DEFINE t == picked[m]
<1>1. t \in Tasks /\ status' = [status EXCEPT ![t] = "running"]
  BY DEF ClaimTask, TypeOK
<1>2. RunningTasks' \subseteq RunningTasks \cup {t}
  BY <1>1 DEF RunningTasks, TypeOK
<1>3. Cardinality(RunningTasks \cup {t}) <= Cardinality(RunningTasks) + 1
  BY Counts, AddOne
<1>4. ASSUME NEW w \in Workflows
      PROVE  Cardinality(RunningOf(w)') <=
                Cardinality(RunningOf(w)) + (IF w = WorkflowOf[t] THEN 1 ELSE 0)
  <2>1. CASE w = WorkflowOf[t]
    <3>1. RunningOf(w)' \subseteq RunningOf(w) \cup {t}
      BY <1>2 DEF RunningOf
    <3>2. /\ IsFiniteSet(RunningOf(w) \cup {t})
          /\ Cardinality(RunningOf(w) \cup {t}) \in Nat
          /\ Cardinality(RunningOf(w) \cup {t}) <= Cardinality(RunningOf(w)) + 1
      BY Counts, AddOne
    <3>3. Cardinality(RunningOf(w)') <= Cardinality(RunningOf(w) \cup {t})
      BY <3>1, <3>2, FS_Subset
    <3>4. IsFiniteSet(RunningOf(w)') /\ Cardinality(RunningOf(w)') \in Nat
      BY <3>1, <3>2, FS_Subset, FS_CardinalityType
    <3> QED  BY <2>1, <3>2, <3>3, <3>4, Counts
  <2>2. CASE w # WorkflowOf[t]
    <3>1. RunningOf(w)' \subseteq RunningOf(w)
      BY <1>2, <2>2 DEF RunningOf
    <3> QED  BY <2>2, <3>1, Counts, FS_Subset, FS_CardinalityType
  <2> QED  BY <2>1, <2>2
<1>5. /\ Cardinality(RunningTasks') <= Cardinality(RunningTasks \cup {t})
      /\ Cardinality(RunningTasks') \in Nat
      /\ Cardinality(RunningTasks \cup {t}) \in Nat
  BY <1>2, Counts, AddOne, FS_Subset, FS_CardinalityType
<1> QED
  BY <1>3, <1>4, <1>5, Counts

(* A replica is past the platform count, or about to claim, only because   *)
(* it was so before or because the count it made in this step allows it.   *)
LEMMA AdmittingComesFrom ==
    ASSUME TypeOK, [Next]_vars, \A m \in Managers : ~ClaimTask(m), NEW n \in Managers
    PROVE  /\ pc'[n] \in Admitting => pc[n] \in Admitting \/ ~PlatformFull
           /\ pc'[n] = "claim" =>
                 /\ picked'[n] = picked[n] /\ picked[n] \in Tasks
                 /\ pc[n] = "claim" \/ ~WorkflowFull(WorkflowOf[picked[n]])
<1> DEFINE Goal == /\ pc'[n] \in Admitting => pc[n] \in Admitting \/ ~PlatformFull
                   /\ pc'[n] = "claim" =>
                         /\ picked'[n] = picked[n] /\ picked[n] \in Tasks
                         /\ pc[n] = "claim" \/ ~WorkflowFull(WorkflowOf[picked[n]])
<1> USE QueueAssumptions DEF TypeOK
<1>1. ASSUME NEW m \in Managers, Dequeue(m) \/ Abort(m) PROVE Goal
  <2>1. CASE ReadAgents(m) \/ AcquireAdmissionLock(m)
    BY <2>1 DEF ReadAgents, AcquireAdmissionLock
  <2>2. CASE CountRunning(m)
    BY <2>2 DEF CountRunning, GiveUp
  <2>3. CASE SelectCandidate(m)
    BY <2>3 DEF SelectCandidate, GiveUp
  <2>4. CASE CheckWorkflow(m)
    BY <2>4 DEF CheckWorkflow
  <2>5. CASE AdmitExisting(m) \/ Launch(m) \/ RecordRuntime(m) \/ Abort(m)
    BY <2>5 DEF AdmitExisting, Launch, RecordRuntime, Abort
  <2> QED
    BY <1>1, <2>1, <2>2, <2>3, <2>4, <2>5 DEF Dequeue
<1>2. ASSUME NEW t \in Tasks, Other(t) PROVE UNCHANGED <<pc, picked>>
  BY <1>2 DEF Other, CreateTask, EventBegin, EventLost, EventCommit,
     ResumeAdmitted, HumanWaitTimeout, RuntimeDies, MonitorSees,
     MonitorCompletes, SweepReads, SweepWrites, SweepCancels, RerunReads,
     RerunWrites, ArchiveTask, DeleteStops, DeleteTask, manager
<1>3. ASSUME NEW w \in Workflows, SwitchAgent(w) PROVE UNCHANGED <<pc, picked>>
  BY <1>3 DEF SwitchAgent, manager
<1>4. CASE UNCHANGED vars
  BY <1>4 DEF vars, manager
<1> QED
  BY <1>1, <1>2, <1>3, <1>4 DEF Next

(* Both caps, and the head room of the replica that is admitting, survive  *)
(* every step.                                                             *)
LEMMA SlotStep == AdmissionInv /\ [Next]_vars => (SlotInv /\ PlatformCap /\ WorkflowCap)'
<1> SUFFICES ASSUME AdmissionInv, [Next]_vars
             PROVE  (SlotInv /\ PlatformCap /\ WorkflowCap)'
  OBVIOUS
<1> USE QueueAssumptions
<1>0. TypeOK' /\ LockInv'
  BY NextType, LockStep DEF AdmissionInv
<1>C. /\ Cardinality(RunningTasks) \in Nat
      /\ \A w \in Workflows : Cardinality(RunningOf(w)) \in Nat
      /\ PlatformMax \in Nat /\ \A w \in Workflows : Limit[w] \in Nat
  BY Counts
<1>D. /\ Cardinality(RunningTasks') \in Nat
      /\ \A w \in Workflows : Cardinality(RunningOf(w)') \in Nat
  <2>1. RunningTasks' \subseteq Tasks /\ \A w \in Workflows : RunningOf(w)' \subseteq Tasks
    BY DEF RunningTasks, RunningOf
  <2> QED  BY <2>1, FS_Subset, FS_CardinalityType
<1>1. CASE \E m \in Managers : ClaimTask(m)
  <2> PICK m \in Managers : ClaimTask(m)
    BY <1>1
  <2>1. picked[m] \in Tasks /\ WorkflowOf[picked[m]] \in Workflows
    BY DEF AdmissionInv, TypeOK, ClaimTask
  <2>2. Cardinality(RunningTasks) < PlatformMax
    BY DEF AdmissionInv, SlotInv, ClaimTask
  <2>3. Cardinality(RunningOf(WorkflowOf[picked[m]])) < Limit[WorkflowOf[picked[m]]]
    BY DEF AdmissionInv, SlotInv, ClaimTask
  <2>4. PlatformCap'
    BY <1>C, <1>D, <2>2, ClaimCounts DEF AdmissionInv, PlatformCap
  <2>5. WorkflowCap'
    BY <1>C, <1>D, <2>1, <2>3, ClaimCounts DEF AdmissionInv, WorkflowCap
  <2>6. lock' = NoOne
    BY DEF AdmissionInv, LockInv, ClaimTask, EndTransaction
  <2>7. \A n \in Managers : pc'[n] \notin InTransaction
    BY <1>0, <2>6 DEF LockInv
  <2> QED
    BY <2>4, <2>5, <2>7 DEF SlotInv
<1>2. CASE \A m \in Managers : ~ClaimTask(m)
  <2>1. /\ Cardinality(RunningTasks') <= Cardinality(RunningTasks)
        /\ \A w \in Workflows : Cardinality(RunningOf(w)') <= Cardinality(RunningOf(w))
    BY <1>2, OnlyClaimsRun, CountsShrink DEF AdmissionInv
  <2>2. PlatformCap' /\ WorkflowCap'
    BY <1>C, <1>D, <2>1 DEF AdmissionInv, PlatformCap, WorkflowCap
  <2>3. ASSUME NEW n \in Managers, pc'[n] \in Admitting
        PROVE  Cardinality(RunningTasks') < PlatformMax
    <3>1. pc[n] \in Admitting \/ ~PlatformFull
      BY <1>2, <2>3, AdmittingComesFrom DEF AdmissionInv
    <3> QED  BY <3>1, <1>C, <1>D, <2>1 DEF AdmissionInv, SlotInv, PlatformFull
  <2>4. ASSUME NEW n \in Managers, pc'[n] = "claim"
        PROVE  Cardinality(RunningOf(WorkflowOf[picked[n]])') < Limit[WorkflowOf[picked'[n]]]
    <3>1. /\ picked'[n] = picked[n] /\ picked[n] \in Tasks
          /\ pc[n] = "claim" \/ ~WorkflowFull(WorkflowOf[picked[n]])
      BY <1>2, <2>4, AdmittingComesFrom DEF AdmissionInv
    <3>2. WorkflowOf[picked[n]] \in Workflows
      BY <3>1
    <3>3. Cardinality(RunningOf(WorkflowOf[picked[n]])) < Limit[WorkflowOf[picked[n]]]
      BY <3>1, <3>2, <1>C DEF AdmissionInv, SlotInv, WorkflowFull
    <3> DEFINE w == WorkflowOf[picked[n]]
               R == {t \in RunningTasks' : WorkflowOf[t] = w}
    <3>4. RunningOf(WorkflowOf[picked[n]])' = R
      BY <3>1 DEF RunningOf
    <3>5. Cardinality(R) <= Cardinality(RunningOf(w)) /\ Cardinality(R) \in Nat
      BY <3>2, <2>1, <1>D DEF RunningOf
    <3>6. Cardinality(R) < Limit[w]
      BY <3>2, <3>3, <3>5, <1>C
    <3> QED  BY <3>1, <3>4, <3>6
  <2> QED
    BY <2>2, <2>3, <2>4 DEF SlotInv
<1> QED
  BY <1>1, <1>2

-----------------------------------------------------------------------------
(* AdmissionInv is inductive and holds in every reachable state. *)
THEOREM Admission == Spec => []AdmissionInv
<1>1. Init => AdmissionInv
  <2> SUFFICES ASSUME Init PROVE AdmissionInv
    OBVIOUS
  <2>1. RunningTasks = {} /\ \A w \in Workflows : RunningOf(w) = {}
    BY DEF Init, RunningTasks, RunningOf
  <2>2. PlatformCap /\ WorkflowCap
    BY <2>1, QueueAssumptions, FS_EmptySet DEF PlatformCap, WorkflowCap
  <2>3. LockInv /\ RowInv /\ SlotInv
    BY QueueAssumptions DEF Init, LockInv, RowInv, SlotInv
  <2> QED
    BY <2>2, <2>3, InitType DEF AdmissionInv
<1>2. AdmissionInv /\ [Next]_vars => AdmissionInv'
  BY NextType, LockStep, RowStep, SlotStep DEF AdmissionInv
<1> QED
  BY <1>1, <1>2, PTL DEF Spec

(* PLATFORM_MAX_RUNNING_TASKS is never exceeded, for any number of         *)
(* replicas, tasks and workflows.                                          *)
THEOREM PlatformCapHolds == Spec => []PlatformCap
<1>1. AdmissionInv => PlatformCap
  BY DEF AdmissionInv
<1> QED
  BY <1>1, Admission, PTL

(* parallel_workers of a workflow is never exceeded either. *)
THEOREM WorkflowCapHolds == Spec => []WorkflowCap
<1>1. AdmissionInv => WorkflowCap
  BY DEF AdmissionInv
<1> QED
  BY <1>1, Admission, PTL

(* A claim never overwrites a status or an archive flag that was committed *)
(* after the candidate was selected.                                       *)
THEOREM ClaimsRunnableHolds == Spec => ClaimsRunnable
<1>1. ASSUME AdmissionInv, [Next]_vars, NEW m \in Managers,
             pc[m] = "claim" /\ pc'[m] \in {"admit", "spawn"}
      PROVE  Runnable(picked[m])
  BY <1>1 DEF AdmissionInv, RowInv
<1>2. AdmissionInv /\ [Next]_vars =>
        [\A m \in Managers :
            pc[m] = "claim" /\ pc'[m] \in {"admit", "spawn"} => Runnable(picked[m])]_vars
  BY <1>1
<1> QED
  BY <1>2, Admission, PTL DEF Spec, ClaimsRunnable

-----------------------------------------------------------------------------
(* The refinement of SlotPool. *)

(* At most one task changes its status or archive flag in a step.          *)
LEMMA OneTaskMoves ==
    ASSUME TypeOK, [Next]_vars
    PROVE  \/ UNCHANGED <<status, archived>>
           \/ \E t \in Tasks : \A u \in Tasks \ {t} :
                 status'[u] = status[u] /\ archived'[u] = archived[u]
<1> USE QueueAssumptions DEF TypeOK
<1>1. ASSUME NEW m \in Managers, Dequeue(m) \/ Abort(m)
      PROVE  \/ UNCHANGED <<status, archived>>
             \/ /\ picked[m] \in Tasks
                /\ \A u \in Tasks \ {picked[m]} :
                      status'[u] = status[u] /\ archived'[u] = archived[u]
  BY <1>1 DEF Dequeue, ReadAgents, AcquireAdmissionLock, CountRunning,
     SelectCandidate, CheckWorkflow, ClaimTask, AdmitExisting, Launch, RecordRuntime, Abort,
     GiveUp, table
<1>2. ASSUME NEW t \in Tasks, Other(t)
      PROVE  \A u \in Tasks \ {t} : status'[u] = status[u] /\ archived'[u] = archived[u]
  BY <1>2 DEF Other, CreateTask, EventBegin, EventLost, EventCommit, ResumeAdmitted,
     HumanWaitTimeout, RuntimeDies, MonitorSees, MonitorCompletes, FinalStatus,
     SweepReads, SweepWrites, SweepCancels, RerunReads, RerunWrites,
     ArchiveTask, DeleteStops, DeleteTask, table
<1>3. ASSUME NEW w \in Workflows, SwitchAgent(w) PROVE UNCHANGED <<status, archived>>
  BY <1>3 DEF SwitchAgent, table
<1>4. CASE UNCHANGED vars
  BY <1>4 DEF vars, table
<1> QED
  BY <1>1, <1>2, <1>3, <1>4 DEF Next

Queue == {t \in Tasks : Runnable(t)}

(* The pool counts with the same Cardinality.                              *)
LEMMA SameCardinality ==
    ASSUME NEW S PROVE Pool!Cardinality(S) = Cardinality(S)
  BY Zenon DEF Pool!Cardinality, Cardinality

(* A claim is the pool's Admit: by RowInv the row is still in the queue,   *)
(* by SlotInv both counts are still below their limits.                    *)
LEMMA ClaimAdmits ==
    ASSUME AdmissionInv, NEW m \in Managers, ClaimTask(m)
    PROVE  Pool!Next
<1> DEFINE t == picked[m]
<1>1. t \in Tasks /\ Runnable(t)
  BY DEF AdmissionInv, TypeOK, RowInv, ClaimTask
<1>2. Cardinality(RunningTasks) < PlatformMax
  BY DEF AdmissionInv, SlotInv, ClaimTask
<1>3. Cardinality(Pool!SameWorkflow(t)) < Limit[WorkflowOf[t]]
  BY Zenon DEF AdmissionInv, SlotInv, ClaimTask, RunningOf, Pool!SameWorkflow
<1>4. status' = [status EXCEPT ![t] = "running"] /\ archived' = archived
  BY DEF ClaimTask
<1>5. RunningTasks' = RunningTasks \cup {t}
  BY <1>1, <1>4 DEF RunningTasks, AdmissionInv, TypeOK
<1>6. Queue' = Queue \ {t}
  BY <1>1, <1>4 DEF Queue, Runnable, AdmissionInv, TypeOK
<1>7. Pool!Admit(t)
  BY <1>1, <1>2, <1>3, <1>5, <1>6, SameCardinality DEF Pool!Admit, Queue
<1> QED
  BY <1>1, <1>7 DEF Pool!Next

(* Every other step is a Revise of the task it is about, or a stutter.     *)
LEMMA OthersRevise ==
    ASSUME AdmissionInv, [Next]_vars, \A m \in Managers : ~ClaimTask(m)
    PROVE  [Pool!Next]_<<Queue, RunningTasks>>
<1>1. \A t \in Tasks : status'[t] = "running" => status[t] = "running"
  BY OnlyClaimsRun DEF AdmissionInv
<1>2. CASE UNCHANGED <<status, archived>>
  BY <1>2 DEF Queue, Runnable, RunningTasks
<1>3. ASSUME NEW t \in Tasks,
             \A u \in Tasks \ {t} : status'[u] = status[u] /\ archived'[u] = archived[u]
      PROVE  Pool!Revise(t)
  <2>1. RunningTasks' \in {RunningTasks, RunningTasks \ {t}}
    BY <1>1, <1>3 DEF RunningTasks
  <2>2. Queue' \in {Queue \cup {t}, Queue \ {t}}
    BY <1>3 DEF Queue, Runnable
  <2>3. Queue' \cap RunningTasks' = {}
    BY DEF Queue, Runnable, RunningTasks
  <2> QED
    BY <2>1, <2>2, <2>3 DEF Pool!Revise, Queue
<1> QED
  BY <1>2, <1>3, OneTaskMoves DEF AdmissionInv, Pool!Next

(* The queue of any number of replicas implements the slot pool: the       *)
(* several statements of a claim look like one atomic admission.           *)
THEOREM QueueImplementsPool == Spec => ImplementsPool
<1>1. Init => Pool!Init
  BY DEF Init, Pool!Init, Runnable, RunningTasks
<1>2. AdmissionInv /\ [Next]_vars => [Pool!Next]_<<Queue, RunningTasks>>
  BY ClaimAdmits, OthersRevise
<1> QED
  BY <1>1, <1>2, Admission, PTL DEF Spec, ImplementsPool, Pool!Spec, Queue
=============================================================================
