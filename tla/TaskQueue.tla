----------------------------- MODULE TaskQueue -----------------------------
(***************************************************************************)
(* The Postgres-backed task queue and its admission controller:            *)
(* shared/lib/task_queue.py and the consumer loop of                       *)
(* session-manager/main.py, with every other writer of tasks.status        *)
(* (gateway/event_collector.py, the sweeps of session-manager/heartbeat.py,*)
(* container_lifecycle.py, the rerun, delete and archive handlers of       *)
(* gateway/api.py) as an action of its own.                                *)
(*                                                                         *)
(* Several session-manager replicas poll the queue.  Each statement of     *)
(* dequeue_task is one step, because under READ COMMITTED every statement  *)
(* sees what the others have committed so far; what serialises the         *)
(* replicas is the transaction-level advisory lock 8142301 and what keeps  *)
(* the gateway away from a candidate row is SELECT ... FOR UPDATE.         *)
(* The sweeps, the container monitor and the operators' handlers take no   *)
(* such lock: each decides on what it read and writes in a later step,     *)
(* whatever the row holds by then (variable pending).                      *)
(***************************************************************************)
EXTENDS Naturals, FiniteSets

CONSTANTS
    Tasks,          \* task ids; an id is created at most once (uuid4)
    Workflows,      \* workflow names
    Managers,       \* session-manager replicas
    WorkflowOf,     \* the workflow column of each task, fixed at creation
    PlatformMax,    \* settings.platform_max_running_tasks
    Limit,          \* runtime.parallel_workers of each workflow
    Priority,       \* runtime.priority of each workflow, 1 is served first
    MaxEvents,      \* bound: wait / resume events a task's runtimes send
    MaxOps,         \* bound: operator and fault actions
    NoOne,          \* no holder of a lock, no task picked
    Gateway         \* the gateway's transaction as a holder of a row lock

ASSUME QueueAssumptions ==
    /\ IsFiniteSet(Tasks)
    /\ WorkflowOf \in [Tasks -> Workflows]
    /\ PlatformMax \in Nat \ {0}            \* dequeue_task rejects < 1
    /\ Limit \in [Workflows -> Nat \ {0}]   \* max(1, int(max_workers))
    /\ Priority \in [Workflows -> Nat]
    /\ MaxEvents \in Nat /\ MaxOps \in Nat
    /\ NoOne \notin Managers /\ Gateway \notin Managers /\ NoOne # Gateway
    /\ NoOne \notin Tasks

RUNNABLE_STATUSES == {"queued", "resume_pending"}
WAITING_STATUSES  == {"waiting"}   \* waiting_approval, waiting_user_input
RERUNNABLE        == {"failed"}    \* failed, lost, timed_out
TERMINAL_STATUSES == {"succeeded"} \cup RERUNNABLE
Status == {"absent", "deleted", "running"}
             \cup RUNNABLE_STATUSES \cup WAITING_STATUSES \cup TERMINAL_STATUSES

VARIABLES
    status,     \* tasks.status
    created,    \* tasks.created, as a rank
    archived,   \* tasks.archived_at is not null
    attached,   \* tasks.container_id is not null
    erred,      \* session_events holds a session_error or session_timeout
    rt,         \* the runtime labelled with the task, and what it is doing
    event,      \* the runtime's report the gateway is handling
    pending,    \* decisions taken on an unlocked read and not yet written
    rowlock,    \* who holds the row lock of each task
    lock,       \* who holds pg_advisory_xact_lock(8142301)
    agents,     \* control_plane.agents: provisioned and not paused
    pc,         \* where each session manager is in its loop
    enabled,    \* workflow_limits of the replica's current dequeue
    blocked,    \* blocked_workflows of the replica's current dequeue
    picked,     \* the candidate row of the replica's current dequeue
    events,     \* wait / resume events sent so far (bound)
    ops         \* operator and fault actions so far (bound)

table    == <<status, created, archived, attached, erred>>
manager  == <<pc, enabled, blocked, picked>>
locks    == <<rowlock, lock, event>>
counters == <<events, ops>>
vars     == <<table, rt, pending, locks, agents, manager, counters>>

-----------------------------------------------------------------------------
(* State functions *)

Row(t)      == status[t] \notin {"absent", "deleted"}
Runnable(t) == status[t] \in RUNNABLE_STATUSES /\ ~archived[t]
RunningTasks      == {t \in Tasks : status[t] = "running"}
RunningOf(w)      == {t \in RunningTasks : WorkflowOf[t] = w}
Created           == {t \in Tasks : status[t] # "absent"}
Reported          == {"wait_requested", "wait_resolved", "complete", "error"}
Exited            == {"exit0", "exit1"}    \* by the container's exit code
Replaced          == {"gone0", "gone1"}    \* and removed by a newer launch
Decision          == {"sweep", "cancel", "rerun", "delete"} \cup Exited \cup Replaced
InTransaction     == {"count", "select", "check", "claim"}
Admitting         == {"select", "check", "claim"}   \* past the platform count
HasRow            == {"check", "claim", "admit", "spawn", "record"}
LiveRuntime       == {"work", "report", "wait", "admit"}

(* ORDER BY resume_pending first, then workflow priority, then created. *)
ResumeRank(t) == IF status[t] = "resume_pending" THEN 0 ELSE 1
Before(t, u) ==
    \/ ResumeRank(t) < ResumeRank(u)
    \/ /\ ResumeRank(t) = ResumeRank(u)
       /\ \/ Priority[WorkflowOf[t]] < Priority[WorkflowOf[u]]
          \/ /\ Priority[WorkflowOf[t]] = Priority[WorkflowOf[u]]
             /\ created[t] < created[u]

(* Mutant: the query asks for queued tasks only and forgets the resumed.   *)
Eligible_QueuedOnly(m) ==
    {t \in Tasks : /\ Runnable(t) /\ status[t] = "queued"
                   /\ WorkflowOf[t] \in enabled[m] \ blocked[m]
                   /\ rowlock[t] \in {NoOne, m}}

(* The rows the candidate query of dequeue_task may return to replica m:   *)
(* FOR UPDATE SKIP LOCKED leaves out the rows locked by someone else.      *)
Eligible(m) ==
    {t \in Tasks : /\ Runnable(t)
                   /\ WorkflowOf[t] \in enabled[m] \ blocked[m]
                   /\ rowlock[t] \in {NoOne, m}}

(* The rows an UPDATE of another transaction can write now. *)
Writable(t) == Row(t) /\ rowlock[t] = NoOne

-----------------------------------------------------------------------------
Init ==
    /\ status   = [t \in Tasks |-> "absent"]
    /\ created  = [t \in Tasks |-> 0]
    /\ archived = [t \in Tasks |-> FALSE]
    /\ attached = [t \in Tasks |-> FALSE]
    /\ erred    = [t \in Tasks |-> FALSE]
    /\ rt       = [t \in Tasks |-> "none"]
    /\ event    = [t \in Tasks |-> "none"]
    /\ pending  = [t \in Tasks |-> {}]
    /\ rowlock  = [t \in Tasks |-> NoOne]
    /\ lock     = NoOne
    /\ agents   = Workflows
    /\ pc       = [m \in Managers |-> "poll"]
    /\ enabled  = [m \in Managers |-> {}]
    /\ blocked  = [m \in Managers |-> {}]
    /\ picked   = [m \in Managers |-> NoOne]
    /\ events   = 0
    /\ ops      = 0

-----------------------------------------------------------------------------
(* create_task without a coalesce key: the row and its event, committed.   *)
CreateTask(t) ==
    /\ status[t] = "absent"
    /\ status'  = [status EXCEPT ![t] = "queued"]
    /\ created' = [created EXCEPT ![t] = Cardinality(Created)]
    /\ UNCHANGED <<archived, attached, erred, rt, pending, locks, agents,
                   manager,
                   counters>>

-----------------------------------------------------------------------------
(* queue_consumer_loop and dequeue_task, one action per SQL statement.     *)

(* The transaction of m ends: its advisory lock and row locks are freed,   *)
(* and the local variables of dequeue_task are gone.                       *)
EndTransaction(m) ==
    /\ enabled' = [enabled EXCEPT ![m] = {}]
    /\ blocked' = [blocked EXCEPT ![m] = {}]
    /\ lock'    = IF lock = m THEN NoOne ELSE lock
    /\ rowlock' = [t \in Tasks |-> IF rowlock[t] = m THEN NoOne ELSE rowlock[t]]

(* SELECT name, provisioned, paused FROM agents: the enabled workflows are *)
(* fixed here and only used several statements later.                      *)
ReadAgents(m) ==
    /\ pc[m] = "poll"
    /\ pc' = [pc EXCEPT ![m] = "lock"]
    /\ enabled' = [enabled EXCEPT ![m] = agents]
    /\ UNCHANGED <<table, rt, pending, locks, agents, blocked, picked,
                   counters>>

(* Mutant: the count is not serialised across replicas.                    *)
AcquireAdmissionLock_None(m) ==
    /\ pc[m] = "lock"
    /\ pc' = [pc EXCEPT ![m] = "count"]
    /\ UNCHANGED <<table, rt, pending, locks, agents, enabled, blocked,
                   picked, counters>>

AcquireAdmissionLock(m) ==
    /\ pc[m] = "lock"
    /\ lock = NoOne
    /\ lock' = m
    /\ pc' = [pc EXCEPT ![m] = "count"]
    /\ UNCHANGED <<table, rt, pending, rowlock, event, agents, enabled,
                   blocked, picked, counters>>

(* Return None: leaving the "async with" rolls the transaction back.       *)
GiveUp(m) ==
    /\ EndTransaction(m)
    /\ pc' = [pc EXCEPT ![m] = "poll"]
    /\ picked' = [picked EXCEPT ![m] = NoOne]
    /\ UNCHANGED <<table, rt, pending, event, agents, counters>>

PlatformFull == Cardinality(RunningTasks) >= PlatformMax

CountRunning(m) ==
    /\ pc[m] = "count"
    /\ \/ /\ PlatformFull \/ enabled[m] = {}
          /\ GiveUp(m)
       \/ /\ ~PlatformFull /\ enabled[m] # {}
          /\ pc' = [pc EXCEPT ![m] = "select"]
          /\ UNCHANGED <<table, rt, pending, locks, agents, enabled, blocked,
                         picked, counters>>

(* Mutant: the candidate is read without FOR UPDATE.                       *)
SelectCandidate_Unlocked(m) ==
    /\ pc[m] = "select"
    /\ \/ /\ Eligible(m) = {}
          /\ GiveUp(m)
       \/ \E t \in Eligible(m) :
             /\ \A u \in Eligible(m) \ {t} : ~Before(u, t)
             /\ picked' = [picked EXCEPT ![m] = t]
             /\ pc' = [pc EXCEPT ![m] = "check"]
             /\ UNCHANGED <<table, rt, pending, locks, agents, enabled,
                            blocked, counters>>

SelectCandidate(m) ==
    /\ pc[m] = "select"
    /\ \/ /\ Eligible(m) = {}
          /\ GiveUp(m)
       \/ \E t \in Eligible(m) :
             /\ \A u \in Eligible(m) \ {t} : ~Before(u, t)
             /\ rowlock' = [rowlock EXCEPT ![t] = m]
             /\ picked' = [picked EXCEPT ![m] = t]
             /\ pc' = [pc EXCEPT ![m] = "check"]
             /\ UNCHANGED <<table, rt, pending, lock, event, agents, enabled,
                            blocked, counters>>

(* Mutant: off by one in the comparison with parallel_workers.             *)
WorkflowFull_OffByOne(w) == Cardinality(RunningOf(w)) > Limit[w]

WorkflowFull(w) == Cardinality(RunningOf(w)) >= Limit[w]

(* A workflow at its cap is remembered and the loop selects again; the row *)
(* lock of the skipped candidate stays with the transaction.               *)
CheckWorkflow(m) ==
    /\ pc[m] = "check"
    /\ LET w == WorkflowOf[picked[m]] IN
          \/ /\ WorkflowFull(w)
             /\ blocked' = [blocked EXCEPT ![m] = @ \cup {w}]
             /\ pc' = [pc EXCEPT ![m] = "select"]
          \/ /\ ~WorkflowFull(w)
             /\ pc' = [pc EXCEPT ![m] = "claim"]
             /\ UNCHANGED blocked
    /\ UNCHANGED <<table, rt, pending, locks, agents, enabled, picked,
                   counters>>

(* The claim commits; the row object the replica keeps remembers whether   *)
(* a container was attached when it was selected.                          *)
ClaimTask(m) ==
    /\ pc[m] = "claim"
    /\ status' = [status EXCEPT ![picked[m]] = "running"]
    /\ EndTransaction(m)
    /\ pc' = [pc EXCEPT ![m] = IF attached[picked[m]] THEN "admit" ELSE "spawn"]
    /\ UNCHANGED <<created, archived, attached, erred, rt, pending, event,
                   agents,
                   picked, counters>>

(* A task with a container_id is only re-admitted: its runtime is polling  *)
(* for the status.  Without a live runtime it is failed, whatever status   *)
(* the row has by then.                                                    *)
AdmitExisting(m) ==
    /\ pc[m] = "admit"
    /\ LET t == picked[m] IN
          \/ /\ rt[t] \in LiveRuntime \/ ~Row(t)
             /\ UNCHANGED status
          \/ /\ rt[t] \notin LiveRuntime
             /\ Writable(t)
             /\ status' = [status EXCEPT ![t] = "failed"]
    /\ pc' = [pc EXCEPT ![m] = "poll"]
    /\ picked' = [picked EXCEPT ![m] = NoOne]
    /\ UNCHANGED <<created, archived, attached, erred, rt, pending, locks,
                   agents, enabled,
                   blocked, counters>>

(* A runtime the monitor has listed and a newer launch has removed.        *)
Gone(x) == IF x = "exit0" THEN "gone0" ELSE "gone1"

(* restore_memory and the launch in spawn_agent_session.  An exited        *)
(* runtime of the same name is removed; the launch fails when one is still *)
(* running, or for any other reason (then it counts as a fault).  Nothing  *)
(* looks at the status: a launch goes ahead on a task closed since its     *)
(* claim, and a failure is written over whatever status the row has.       *)
Launch(m) ==
    /\ pc[m] = "spawn"
    /\ LET t == picked[m] IN
          \/ /\ rt[t] \notin LiveRuntime
             /\ rt' = [rt EXCEPT ![t] = "work"]
             /\ pending' = [pending EXCEPT ![t] =
                   (@ \ Exited) \cup {Gone(x) : x \in @ \cap Exited}]
             /\ pc' = [pc EXCEPT ![m] = "record"]
             /\ UNCHANGED <<status, picked, ops>>
          \/ /\ \/ rt[t] \in LiveRuntime /\ UNCHANGED ops
                \/ rt[t] \notin LiveRuntime /\ ops < MaxOps /\ ops' = ops + 1
             /\ Writable(t) \/ ~Row(t)
             /\ status' = [status EXCEPT ![t] = IF Row(t) THEN "failed" ELSE @]
             /\ pc' = [pc EXCEPT ![m] = "poll"]
             /\ picked' = [picked EXCEPT ![m] = NoOne]
             /\ UNCHANGED <<rt, pending>>
    /\ UNCHANGED <<created, archived, attached, erred, locks, agents, enabled,
                   blocked, events>>

(* The second half of spawn_agent_session: container_id and the Session    *)
(* row.  When that transaction fails the task is failed and the runtime    *)
(* goes on; when the task has been deleted nothing is written at all.      *)
RecordRuntime(m) ==
    /\ pc[m] = "record"
    /\ LET t == picked[m] IN
          \/ /\ Writable(t)
             /\ attached' = [attached EXCEPT ![t] = TRUE]
             /\ UNCHANGED <<status, ops>>
          \/ /\ Writable(t) /\ ops < MaxOps /\ ops' = ops + 1
             /\ status' = [status EXCEPT ![t] = "failed"]
             /\ UNCHANGED attached
          \/ ~Row(t) /\ UNCHANGED <<status, attached, ops>>
    /\ pc' = [pc EXCEPT ![m] = "poll"]
    /\ picked' = [picked EXCEPT ![m] = NoOne]
    /\ UNCHANGED <<created, archived, erred, rt, pending, locks, agents,
                   enabled, blocked,
                   events>>

(* A replica crashes or an exception aborts its iteration: Postgres rolls  *)
(* the transaction back; a claim already committed stays.                  *)
Abort(m) ==
    /\ pc[m] # "poll"
    /\ ops < MaxOps
    /\ EndTransaction(m)
    /\ pc' = [pc EXCEPT ![m] = "poll"]
    /\ picked' = [picked EXCEPT ![m] = NoOne]
    /\ ops' = ops + 1
    /\ UNCHANGED <<table, rt, pending, event, agents, events>>

-----------------------------------------------------------------------------
(* receive_event: the task row is locked first, the handler may then wait  *)
(* for the message bus, and the status is written and committed last.      *)

(* What the runtime of a task may report, by what it is doing: at work it  *)
(* asks for an approval or an answer or ends the session; a waiting one    *)
(* reports the resolution; one that waits for admission can only fail.     *)
(* "error" stands for session_error and session_timeout.                   *)
Reports(t) ==
    CASE rt[t] = "work"  -> {"wait_requested", "complete", "error"}
      [] rt[t] = "wait"  -> {"wait_resolved"}
      [] rt[t] = "admit" -> {"error"}
      [] OTHER           -> {}

(* What the runtime does once its report is answered, or has failed.       *)
AfterReport(e) ==
    CASE e = "wait_requested" -> "wait"
      [] e = "wait_resolved"  -> "admit"
      [] e = "complete"       -> "exit0"
      [] OTHER                -> "exit1"

EventBegin(t) ==
    /\ Writable(t)
    /\ events < MaxEvents
    /\ events' = events + 1
    /\ \E e \in Reports(t) : event' = [event EXCEPT ![t] = e]
    /\ rt' = [rt EXCEPT ![t] = "report"]
    /\ rowlock' = [rowlock EXCEPT ![t] = Gateway]
    /\ UNCHANGED <<table, pending, lock, agents, manager, ops>>

(* report_event logs a failed request and goes on: the gateway is away, or *)
(* the task is gone and the event's foreign key is refused.                *)
EventLost(t) ==
    /\ events < MaxEvents
    /\ events' = events + 1
    /\ IF Row(t) THEN ops < MaxOps /\ ops' = ops + 1 ELSE UNCHANGED ops
    /\ \E e \in Reports(t) : rt' = [rt EXCEPT ![t] = AfterReport(e)]
    /\ UNCHANGED <<table, pending, locks, agents, manager>>

(* Mutant: a resolved wait goes straight back to running, past the queue.  *)
EventStatus_Direct(e, old) ==
    CASE e = "wait_requested" -> "waiting"
      [] e = "wait_resolved"  -> "running"
      [] e = "complete" -> IF old \in WAITING_STATUSES THEN old ELSE "succeeded"
      [] e = "error"    -> "failed"
      [] OTHER          -> old

(* The status written does not depend on the current one, except that      *)
(* session_complete leaves a waiting task alone.                           *)
EventStatus(e, old) ==
    CASE e = "wait_requested" -> "waiting"
      [] e = "wait_resolved"  -> "resume_pending"
      [] e = "complete" -> IF old \in WAITING_STATUSES THEN old ELSE "succeeded"
      [] e = "error"    -> "failed"
      [] OTHER          -> old        \* heartbeat, conversation_batch, ...

EventCommit(t) ==
    /\ rowlock[t] = Gateway
    /\ rowlock' = [rowlock EXCEPT ![t] = NoOne]
    /\ status' = [status EXCEPT ![t] = EventStatus(event[t], @)]
    /\ erred' = [erred EXCEPT ![t] = @ \/ event[t] = "error"]
    /\ rt' = [rt EXCEPT ![t] = IF @ = "report" THEN AfterReport(event[t]) ELSE @]
    /\ event' = [event EXCEPT ![t] = "none"]
    /\ UNCHANGED <<created, archived, attached, pending, lock, agents,
                   manager, counters>>

(* _wait_for_resume_admission returns when it sees the task running again. *)
ResumeAdmitted(t) ==
    /\ rt[t] = "admit" /\ status[t] = "running"
    /\ rt' = [rt EXCEPT ![t] = "work"]
    /\ UNCHANGED <<table, pending, locks, agents, manager, counters>>

(* The runtime's own wait for the operator times out: the call is denied   *)
(* and the agent goes on, and no event tells the gateway.                  *)
HumanWaitTimeout(t) ==
    /\ rt[t] = "wait"
    /\ rt' = [rt EXCEPT ![t] = "work"]
    /\ UNCHANGED <<table, pending, locks, agents, manager, counters>>

(* The container stops without a word: a crash or OOM, or a SIGTERM, which *)
(* handle_signal turns into exit code 0.                                   *)
RuntimeDies(t) ==
    /\ rt[t] \in LiveRuntime
    /\ ops < MaxOps
    /\ ops' = ops + 1
    /\ \E x \in Exited : rt' = [rt EXCEPT ![t] = x]
    /\ UNCHANGED <<table, pending, locks, agents, manager, events>>

(* monitor_containers lists the exited runtimes ...                        *)
MonitorSees(t) ==
    /\ rt[t] \in Exited
    /\ pending[t] \cap (Exited \cup Replaced) = {}
    /\ pending' = [pending EXCEPT ![t] = @ \cup {rt[t]}]
    /\ UNCHANGED <<table, rt, locks, agents, manager, counters>>

(* The status the monitor derives from a recorded error or the exit code.  *)
FinalStatus(t) ==
    IF ~erred[t] /\ pending[t] \cap {"exit0", "gone0"} # {}
      THEN "succeeded" ELSE "failed"

(* ... and, when their turn comes, calls complete_task whatever the status *)
(* is and removes the runtime it saw.  When the removal fails the next     *)
(* round sees the same runtime again.                                      *)
MonitorCompletes(t) ==
    /\ pending[t] \cap (Exited \cup Replaced) # {}
    /\ Writable(t) \/ ~Row(t)
    /\ status' = [status EXCEPT ![t] = IF Row(t) THEN FinalStatus(t) ELSE @]
    /\ \/ /\ rt' = [rt EXCEPT ![t] = IF pending[t] \cap Exited # {} THEN "none" ELSE @]
          /\ UNCHANGED ops
       \/ ops < MaxOps /\ ops' = ops + 1 /\ UNCHANGED rt
    /\ pending' = [pending EXCEPT ![t] = @ \ (Exited \cup Replaced)]
    /\ UNCHANGED <<created, archived, attached, erred, locks, agents, manager,
                   events>>

(* Clocks are left out: any running task may have lost its heartbeat or    *)
(* exceeded its run time, any waiting one its deadline.                    *)
RunExpired(t)  == status[t] = "running"
WaitExpired(t) == status[t] \in WAITING_STATUSES

(* heartbeat_monitor selects the expired tasks without a lock ...          *)
SweepReads(t) ==
    /\ RunExpired(t) \/ WaitExpired(t)
    /\ "sweep" \notin pending[t]
    /\ pending' = [pending EXCEPT ![t] = @ \cup {"sweep"}]
    /\ UNCHANGED <<table, rt, locks, agents, manager, counters>>

(* ... writes lost or timed_out over whatever the row holds by then (a     *)
(* deleted row makes the flush fail and rolls the sweep back) ...          *)
SweepWrites(t) ==
    /\ "sweep" \in pending[t]
    /\ \/ /\ Writable(t)
          /\ status' = [status EXCEPT ![t] = "failed"]
          /\ pending' = [pending EXCEPT ![t] = (@ \ {"sweep"}) \cup {"cancel"}]
       \/ /\ ~Row(t)
          /\ pending' = [pending EXCEPT ![t] = @ \ {"sweep"}]
          /\ UNCHANGED status
    /\ UNCHANGED <<created, archived, attached, erred, rt, locks, agents,
                   manager,
                   counters>>

(* ... and then, the notification posted, stops every runtime labelled     *)
(* with the task, whichever launch it comes from.                          *)
SweepCancels(t) ==
    /\ "cancel" \in pending[t]
    /\ pending' = [pending EXCEPT ![t] = @ \ {"cancel"}]
    /\ \/ rt' = [rt EXCEPT ![t] = "none"] /\ UNCHANGED ops
       \/ ops < MaxOps /\ ops' = ops + 1 /\ UNCHANGED rt
    /\ UNCHANGED <<table, locks, agents, manager, events>>

-----------------------------------------------------------------------------
(* Operators, through gateway/api.py *)

(* rerun_task_api reads the status ...                                     *)
RerunReads(t) ==
    /\ status[t] \in RERUNNABLE
    /\ "rerun" \notin pending[t]
    /\ ops < MaxOps
    /\ ops' = ops + 1
    /\ pending' = [pending EXCEPT ![t] = @ \cup {"rerun"}]
    /\ UNCHANGED <<table, rt, locks, agents, manager, events>>

(* ... and puts the task back in the queue with an UPDATE by id.           *)
RerunWrites(t) ==
    /\ "rerun" \in pending[t]
    /\ Writable(t) \/ ~Row(t)
    /\ pending' = [pending EXCEPT ![t] = @ \ {"rerun"}]
    /\ status' = [status EXCEPT ![t] = IF Row(t) THEN "queued" ELSE @]
    /\ erred' = [erred EXCEPT ![t] = FALSE]
    /\ attached' = [attached EXCEPT ![t] = FALSE]
    /\ UNCHANGED <<created, archived, rt, locks, agents, manager, counters>>

ArchiveTask(t) ==
    /\ Writable(t)
    /\ ops < MaxOps
    /\ ops' = ops + 1
    /\ archived' = [archived EXCEPT ![t] = ~@]
    /\ UNCHANGED <<status, created, attached, erred, rt, pending, locks,
                   agents,
                   manager, events>>

(* delete_task_api reads container_id and stops that runtime ...           *)
DeleteStops(t) ==
    /\ Row(t)
    /\ "delete" \notin pending[t]
    /\ ops < MaxOps
    /\ ops' = ops + 1
    /\ pending' = [pending EXCEPT ![t] = @ \cup {"delete"}]
    /\ rt' = [rt EXCEPT ![t] = IF attached[t] THEN "none" ELSE @]
    /\ UNCHANGED <<table, locks, agents, manager, events>>

(* ... and deletes the row in a second transaction.                        *)
DeleteTask(t) ==
    /\ "delete" \in pending[t]
    /\ Writable(t) \/ ~Row(t)
    /\ pending' = [pending EXCEPT ![t] = @ \ {"delete"}]
    /\ status' = [status EXCEPT ![t] = "deleted"]
    /\ attached' = [attached EXCEPT ![t] = FALSE]
    /\ UNCHANGED <<created, archived, erred, rt, locks, agents, manager,
                   counters>>

(* pause_agent, resume_agent, provision_agent *)
SwitchAgent(w) ==
    /\ ops < MaxOps
    /\ ops' = ops + 1
    /\ agents' = IF w \in agents THEN agents \ {w} ELSE agents \cup {w}
    /\ UNCHANGED <<table, rt, pending, locks, manager, events>>

-----------------------------------------------------------------------------
Dequeue(m) ==
    \/ ReadAgents(m)
    \/ AcquireAdmissionLock(m)
    \/ CountRunning(m)
    \/ SelectCandidate(m)
    \/ CheckWorkflow(m)
    \/ ClaimTask(m)
    \/ AdmitExisting(m)
    \/ Launch(m)
    \/ RecordRuntime(m)

Other(t) ==
    \/ CreateTask(t)
    \/ EventBegin(t)
    \/ EventLost(t)
    \/ EventCommit(t)
    \/ ResumeAdmitted(t)
    \/ HumanWaitTimeout(t)
    \/ RuntimeDies(t)
    \/ MonitorSees(t)
    \/ MonitorCompletes(t)
    \/ SweepReads(t)
    \/ SweepWrites(t)
    \/ SweepCancels(t)
    \/ RerunReads(t)
    \/ RerunWrites(t)
    \/ ArchiveTask(t)
    \/ DeleteStops(t)
    \/ DeleteTask(t)

Next ==
    \/ \E m \in Managers : Dequeue(m) \/ Abort(m)
    \/ \E t \in Tasks : Other(t)
    \/ \E w \in Workflows : SwitchAgent(w)

Spec == Init /\ [][Next]_vars

(* Scheduling the code guarantees: the loops of a session manager run for  *)
(* ever (every iteration catches its exceptions), the gateway finishes a   *)
(* transaction it began, the sweeps and the container monitor come round,  *)
(* and a runtime that waits for admission polls.  Operators, task creation *)
(* and runtimes themselves are free to do nothing.                         *)
Fairness ==
    /\ \A m \in Managers : WF_vars(Dequeue(m))
    /\ \A t \in Tasks : /\ WF_vars(EventCommit(t))
                        /\ WF_vars(ResumeAdmitted(t))
                        /\ WF_vars(MonitorSees(t) \/ MonitorCompletes(t))
                        /\ WF_vars(SweepReads(t) \/ SweepWrites(t) \/ SweepCancels(t))
                        /\ WF_vars(RerunWrites(t) \/ DeleteTask(t))

FairSpec == Spec /\ Fairness
-----------------------------------------------------------------------------
(* Properties *)

(* Every column, lock and loop variable keeps its domain.                  *)
TypeOK ==
    /\ status   \in [Tasks -> Status]
    /\ created  \in [Tasks -> Nat]
    /\ archived \in [Tasks -> BOOLEAN]
    /\ attached \in [Tasks -> BOOLEAN]
    /\ erred    \in [Tasks -> BOOLEAN]
    /\ rt       \in [Tasks -> {"none"} \cup Exited \cup LiveRuntime]
    /\ event    \in [Tasks -> Reported \cup {"none"}]
    /\ pending  \in [Tasks -> SUBSET Decision]
    /\ rowlock  \in [Tasks -> Managers \cup {NoOne, Gateway}]
    /\ lock     \in Managers \cup {NoOne}
    /\ agents   \subseteq Workflows
    /\ pc       \in [Managers -> {"poll", "lock", "admit", "spawn", "record"} \cup InTransaction]
    /\ enabled  \in [Managers -> SUBSET Workflows]
    /\ blocked  \in [Managers -> SUBSET Workflows]
    /\ picked   \in [Managers -> Tasks \cup {NoOne}]
    /\ events   \in Nat
    /\ ops      \in Nat
    /\ \A m \in Managers : pc[m] \in HasRow => picked[m] \in Tasks

(* However many replicas poll, and whatever the gateway, the sweeps and    *)
(* the operators write meanwhile, no more tasks are running than           *)
(* PLATFORM_MAX_RUNNING_TASKS allows: the count made by dequeue_task is    *)
(* still an upper bound when the claim commits.                            *)
PlatformCap == Cardinality(RunningTasks) <= PlatformMax

(* The same for parallel_workers of each workflow.                         *)
WorkflowCap == \A w \in Workflows : Cardinality(RunningOf(w)) <= Limit[w]

(* Why the caps hold, as an inductive invariant.  The replica inside the   *)
(* counting transaction is the holder of the advisory lock; the row it     *)
(* picked is locked by it and still runnable; and since only that replica  *)
(* can add a running task, the counts it made remain below the limits.     *)
LockInv == \A m \in Managers : pc[m] \in InTransaction <=> lock = m

RowInv ==
    \A m \in Managers :
        pc[m] \in {"check", "claim"} => /\ rowlock[picked[m]] = m
                                       /\ Runnable(picked[m])

SlotInv ==
    \A m \in Managers :
        /\ pc[m] \in Admitting => Cardinality(RunningTasks) < PlatformMax
        /\ pc[m] = "claim" =>
              Cardinality(RunningOf(WorkflowOf[picked[m]])) < Limit[WorkflowOf[picked[m]]]

AdmissionInv ==
    TypeOK /\ LockInv /\ RowInv /\ SlotInv /\ PlatformCap /\ WorkflowCap

(* Replicas that claim in several statements behave like one pool of slots *)
(* that is given out in single steps: a task becomes running only out of   *)
(* the queue and only when the platform and its workflow have a slot free  *)
(* at that very step; nothing else makes a task running.                   *)
Pool == INSTANCE SlotPool WITH
            queue <- {t \in Tasks : Runnable(t)}, holders <- RunningTasks

ImplementsPool == Pool!Spec

(* A claim never overwrites a status somebody else committed after the     *)
(* candidate was selected: the row claimed is still runnable and not       *)
(* archived when the claim commits (FOR UPDATE holds it).                  *)
ClaimsRunnable ==
    [][\A m \in Managers :
          pc[m] = "claim" /\ pc'[m] \in {"admit", "spawn"} => Runnable(picked[m])]_vars

(* A runnable task of an enabled workflow is not left in the queue: it is  *)
(* claimed, or an operator, a sweep or an event takes it out of the queue. *)
(* A workflow at its cap, a replica that dies holding the lock or a row    *)
(* the gateway keeps locked only delays it.                                *)
EventuallyTaken ==
    \A t \in Tasks :
        Runnable(t) ~> (~Runnable(t) \/ WorkflowOf[t] \notin agents)
=============================================================================
