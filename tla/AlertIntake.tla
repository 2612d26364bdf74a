---------------------------- MODULE AlertIntake ----------------------------
(***************************************************************************)
(* From an external event to a task: the Pub/Sub connector                 *)
(* (connectors/gcp-pubsub-connector/main.py) and the coalescing half of    *)
(* create_task (shared/lib/task_queue.py).                                 *)
(*                                                                         *)
(* Pub/Sub delivers at least once: a message that is not acknowledged is   *)
(* delivered again, possibly while its first delivery is still being       *)
(* handled.  The subscriber runs callbacks concurrently and every callback *)
(* runs create_task in a transaction of its own.  Alerts with the same     *)
(* coalesce key are merged into a recent active task by a read-modify-     *)
(* write of tasks.metadata, serialised by an advisory lock on the key.     *)
(***************************************************************************)
EXTENDS Naturals, FiniteSets, Functions

CONSTANTS
    Msgs,         \* Pub/Sub messages
    Ignored,      \* messages the GCS payload filter rejects
    Keys,         \* coalesce keys
    KeyOf,        \* coalesce key of each message
    Tasks,        \* task ids
    Handlers,     \* concurrent subscriber callbacks
    Window,       \* coalesce_window_sec
    MaxClock,     \* bound: the clock
    MaxFaults,    \* bound: failures, lease expiries and pauses
    None          \* no message, no task, no holder

ASSUME IntakeAssumptions ==
    /\ IsFiniteSet(Msgs) /\ IsFiniteSet(Tasks)
    /\ Ignored \subseteq Msgs
    /\ KeyOf \in [Msgs -> Keys]
    /\ Window \in Nat /\ MaxClock \in Nat /\ MaxFaults \in Nat
    /\ None \notin Msgs /\ None \notin Tasks /\ None \notin Handlers

(* The statuses create_task merges into: queued, running, resume_pending   *)
(* and the waiting ones are one class here, the terminal ones another.     *)
TaskStatus == {"absent", "active", "terminal", "deleted"}

VARIABLES
    clock,      \* the database's time
    paused,     \* connector_states.paused of this connector
    msg,        \* what Pub/Sub knows of each message
    status,     \* tasks.status
    key,        \* tasks.coalesce_key
    created,    \* tasks.created: now() of the inserting transaction
    alerts,     \* the alerts recorded in tasks.metadata, with multiplicity
    count,      \* metadata.alert_occurrence_count
    rerun,      \* the task was put back in the queue by an operator
    keylock,    \* pg_advisory_xact_lock(sha256(coalesce_key))
    pc,         \* where each callback is
    cur,        \* the message it handles
    start,      \* when its transaction started; the cutoff is start - Window
    found,      \* the task its lookup returned
    snap,       \* tasks.metadata as the lookup read it
    merged,     \* history: create_task calls committed for each message
    faults      \* faults so far (bound)

table   == <<status, key, created, alerts, count, rerun>>
handler == <<pc, cur, start, found, snap>>
vars    == <<clock, paused, msg, table, keylock, handler, merged, faults>>

-----------------------------------------------------------------------------
NoAlerts == [m \in Msgs |-> 0]
NoMetadata == [alerts |-> NoAlerts, count |-> 1]

(* Mutant: the comparison with the cutoff is the wrong way round.          *)
Candidates_OldOnly(h) ==
    {t \in Tasks : /\ status[t] = "active"
                   /\ key[t] = KeyOf[cur[h]]
                   /\ created[t] + Window < start[h]}

(* SELECT ... WHERE coalesce_key, status, created >= cutoff                *)
(* ORDER BY created DESC LIMIT 1                                           *)
Candidates(h) ==
    {t \in Tasks : /\ status[t] = "active"
                   /\ key[t] = KeyOf[cur[h]]
                   /\ created[t] + Window >= start[h]}
Latest(S) == {t \in S : \A u \in S : created[u] <= created[t]}

Init ==
    /\ clock   = 0
    /\ paused  = FALSE
    /\ msg     = [m \in Msgs |-> "outstanding"]
    /\ status  = [t \in Tasks |-> "absent"]
    /\ key     = [t \in Tasks |-> None]
    /\ created = [t \in Tasks |-> 0]
    /\ alerts  = [t \in Tasks |-> NoAlerts]
    /\ count   = [t \in Tasks |-> 1]
    /\ rerun   = [t \in Tasks |-> FALSE]
    /\ keylock = [k \in Keys |-> None]
    /\ pc      = [h \in Handlers |-> "idle"]
    /\ cur     = [h \in Handlers |-> None]
    /\ start   = [h \in Handlers |-> 0]
    /\ found   = [h \in Handlers |-> None]
    /\ snap    = [h \in Handlers |-> NoMetadata]
    /\ merged  = [m \in Msgs |-> 0]
    /\ faults  = 0

Fault == faults < MaxFaults /\ faults' = faults + 1

-----------------------------------------------------------------------------
(* The callback of the subscriber *)

(* Pub/Sub leases a message to a callback; _gcs_payload_allowed acks what  *)
(* the filter rejects without creating anything.                           *)
Receive(h, m) ==
    /\ pc[h] = "idle"
    /\ msg[m] = "outstanding"
    /\ \/ /\ m \in Ignored
          /\ msg' = [msg EXCEPT ![m] = "acked"]
          /\ UNCHANGED handler
       \/ /\ m \notin Ignored
          /\ msg' = [msg EXCEPT ![m] = "leased"]
          /\ pc' = [pc EXCEPT ![h] = "admit"]
          /\ cur' = [cur EXCEPT ![h] = m]
          /\ UNCHANGED <<start, found, snap>>
    /\ UNCHANGED <<clock, paused, table, keylock, merged, faults>>

(* Mutant: the session-level lock outlives the transaction.                *)
Leave_KeepsLock(h) ==
    /\ pc' = [pc EXCEPT ![h] = "idle"]
    /\ cur' = [cur EXCEPT ![h] = None]
    /\ start' = [start EXCEPT ![h] = 0]
    /\ found' = [found EXCEPT ![h] = None]
    /\ snap' = [snap EXCEPT ![h] = NoMetadata]
    /\ UNCHANGED keylock

(* The callback is over: its transaction, if any, gives the lock back.     *)
Leave(h) ==
    /\ pc' = [pc EXCEPT ![h] = "idle"]
    /\ cur' = [cur EXCEPT ![h] = None]
    /\ start' = [start EXCEPT ![h] = 0]
    /\ found' = [found EXCEPT ![h] = None]
    /\ snap' = [snap EXCEPT ![h] = NoMetadata]
    /\ keylock' = [k \in Keys |-> IF keylock[k] = h THEN None ELSE keylock[k]]

(* Mutant: the message is acknowledged although no task was written.       *)
Nack_Acks(h) == msg' = [msg EXCEPT ![cur[h]] = "acked"]

(* nack: an acknowledged message is not brought back.                      *)
Nack(h) == msg' = [msg EXCEPT ![cur[h]] = IF @ = "leased" THEN "outstanding" ELSE @]

(* _create_task_if_active: a paused connector nacks; otherwise create_task *)
(* opens its transaction and takes the cutoff before it waits for the lock.*)
AdmitMessage(h) ==
    /\ pc[h] = "admit"
    /\ \/ /\ paused
          /\ Nack(h)
          /\ Leave(h)
       \/ /\ ~paused
          /\ pc' = [pc EXCEPT ![h] = "lock"]
          /\ start' = [start EXCEPT ![h] = clock]
          /\ UNCHANGED <<msg, cur, found, snap, keylock>>
    /\ UNCHANGED <<clock, paused, table, merged, faults>>

(* Mutant: coalescing without the advisory lock of the key.                *)
LockKey_None(h) ==
    /\ pc[h] = "lock"
    /\ pc' = [pc EXCEPT ![h] = "lookup"]
    /\ UNCHANGED <<clock, paused, msg, table, keylock, cur, start, found, snap,
                   merged, faults>>

LockKey(h) ==
    /\ pc[h] = "lock"
    /\ keylock[KeyOf[cur[h]]] = None
    /\ keylock' = [keylock EXCEPT ![KeyOf[cur[h]]] = h]
    /\ pc' = [pc EXCEPT ![h] = "lookup"]
    /\ UNCHANGED <<clock, paused, msg, table, cur, start, found, snap, merged, faults>>

Lookup(h) ==
    /\ pc[h] = "lookup"
    /\ \/ /\ Candidates(h) = {}
          /\ found' = [found EXCEPT ![h] = None]
          /\ UNCHANGED snap
       \/ \E t \in Latest(Candidates(h)) :
             /\ found' = [found EXCEPT ![h] = t]
             /\ snap' = [snap EXCEPT ![h] = [alerts |-> alerts[t], count |-> count[t]]]
    /\ pc' = [pc EXCEPT ![h] = "write"]
    /\ UNCHANGED <<clock, paused, msg, table, keylock, cur, start, merged, faults>>

Committed(h) ==
    /\ merged' = [merged EXCEPT ![cur[h]] = @ + 1]
    /\ pc' = [pc EXCEPT ![h] = "ack"]
    /\ keylock' = [k \in Keys |-> IF keylock[k] = h THEN None ELSE keylock[k]]
    /\ UNCHANGED <<msg, cur, start, found, snap, faults>>

(* The metadata read by the lookup is written back with this alert added.  *)
(* The status is not written, so a task that ended since the lookup takes  *)
(* the alert with it.                                                      *)
MergeIntoExisting(h) ==
    /\ pc[h] = "write"
    /\ found[h] # None
    /\ status[found[h]] # "deleted"
    /\ alerts' = [alerts EXCEPT ![found[h]] = [snap[h].alerts EXCEPT ![cur[h]] = @ + 1]]
    /\ count' = [count EXCEPT ![found[h]] = snap[h].count + 1]
    /\ Committed(h)
    /\ UNCHANGED <<clock, paused, status, key, created, rerun>>

(* The UPDATE of a deleted row matches nothing: StaleDataError, and nack.  *)
MergeIntoDeleted(h) ==
    /\ pc[h] = "write"
    /\ found[h] # None
    /\ status[found[h]] = "deleted"
    /\ Nack(h)
    /\ Leave(h)
    /\ UNCHANGED <<clock, paused, table, merged, faults>>

(* Which unused id the row gets makes no difference, so it is one of them. *)
InsertTask(h) ==
    /\ pc[h] = "write"
    /\ found[h] = None
    /\ \E t \in {u \in Tasks : status[u] = "absent"} :
          /\ t = CHOOSE u \in Tasks : status[u] = "absent"
          /\ status' = [status EXCEPT ![t] = "active"]
          /\ key' = [key EXCEPT ![t] = KeyOf[cur[h]]]
          /\ created' = [created EXCEPT ![t] = start[h]]
          /\ alerts' = [alerts EXCEPT ![t][cur[h]] = 1]
    /\ Committed(h)
    /\ UNCHANGED <<clock, paused, count, rerun>>

Ack(h) ==
    /\ pc[h] = "ack"
    /\ msg' = [msg EXCEPT ![cur[h]] = "acked"]
    /\ Leave(h)
    /\ UNCHANGED <<clock, paused, table, merged, faults>>

(* An exception in the callback (database, GCS fetch) rolls back and nacks;*)
(* the connector's death does the same through the lease, also after the   *)
(* commit and before the ack.                                              *)
Fail(h) ==
    /\ pc[h] # "idle"
    /\ Fault
    /\ Nack(h)
    /\ Leave(h)
    /\ UNCHANGED <<clock, paused, table, merged>>

(* The lease runs out while the callback is still working: Pub/Sub will    *)
(* deliver the message a second time.                                      *)
LeaseExpires(m) ==
    /\ msg[m] = "leased"
    /\ Fault
    /\ msg' = [msg EXCEPT ![m] = "outstanding"]
    /\ UNCHANGED <<clock, paused, table, keylock, handler, merged>>

-----------------------------------------------------------------------------
(* The rest of the platform *)

Tick ==
    /\ clock < MaxClock
    /\ clock' = clock + 1
    /\ UNCHANGED <<paused, msg, table, keylock, handler, merged, faults>>

(* set_connector_paused: an operator pauses the connector, and resumes it. *)
SetPaused ==
    /\ IF paused THEN UNCHANGED faults ELSE Fault
    /\ paused' = ~paused
    /\ UNCHANGED <<clock, msg, table, keylock, handler, merged>>

(* The session ends: session_complete, complete_task or a sweep.           *)
TaskEnds(t) ==
    /\ status[t] = "active"
    /\ status' = [status EXCEPT ![t] = "terminal"]
    /\ UNCHANGED <<clock, paused, msg, key, created, alerts, count, rerun,
                   keylock, handler, merged, faults>>

(* rerun_task_api keeps the metadata, the key and the creation time.       *)
RerunTask(t) ==
    /\ status[t] = "terminal"
    /\ Fault
    /\ status' = [status EXCEPT ![t] = "active"]
    /\ rerun' = [rerun EXCEPT ![t] = TRUE]
    /\ UNCHANGED <<clock, paused, msg, key, created, alerts, count, keylock,
                   handler, merged>>

DeleteTask(t) ==
    /\ status[t] \in {"active", "terminal"}
    /\ Fault
    /\ status' = [status EXCEPT ![t] = "deleted"]
    /\ UNCHANGED <<clock, paused, msg, key, created, alerts, count, rerun,
                   keylock, handler, merged>>

-----------------------------------------------------------------------------
Work(h) ==
    \/ AdmitMessage(h)
    \/ LockKey(h)
    \/ Lookup(h)
    \/ MergeIntoExisting(h)
    \/ MergeIntoDeleted(h)
    \/ InsertTask(h)
    \/ Ack(h)

Next ==
    \/ \E h \in Handlers : \/ \E m \in Msgs : Receive(h, m)
                           \/ Work(h)
                           \/ Fail(h)
    \/ \E m \in Msgs : LeaseExpires(m)
    \/ \E t \in Tasks : TaskEnds(t) \/ RerunTask(t) \/ DeleteTask(t)
    \/ Tick
    \/ SetPaused

Spec == Init /\ [][Next]_vars

(* Pub/Sub keeps delivering what is not acknowledged, callbacks run on,    *)
(* Postgres grants a free lock to a waiter, a paused connector is resumed. *)
Fairness ==
    /\ \A h \in Handlers : WF_vars(Work(h)) /\ SF_vars(LockKey(h))
    /\ \A m \in Msgs : SF_vars(\E h \in Handlers : Receive(h, m))
    /\ WF_vars(paused /\ SetPaused)

FairSpec == Spec /\ Fairness

-----------------------------------------------------------------------------
(* Properties *)

(* Every variable keeps its domain.                                        *)
TableType ==
    /\ status  \in [Tasks -> TaskStatus]
    /\ key     \in [Tasks -> Keys \cup {None}]
    /\ created \in [Tasks -> 0..MaxClock]
    /\ alerts  \in [Tasks -> [Msgs -> Nat]]
    /\ count   \in [Tasks -> Nat]
    /\ rerun   \in [Tasks -> BOOLEAN]

HandlerType ==
    /\ keylock \in [Keys -> Handlers \cup {None}]
    /\ pc      \in [Handlers -> {"idle", "admit", "lock", "lookup", "write", "ack"}]
    /\ cur     \in [Handlers -> Msgs \cup {None}]
    /\ start   \in [Handlers -> 0..MaxClock]
    /\ found   \in [Handlers -> Tasks \cup {None}]
    /\ snap    \in [Handlers -> [alerts : [Msgs -> Nat], count : Nat]]
    /\ \A h \in Handlers : pc[h] # "idle" => cur[h] \in Msgs

WorldType ==
    /\ clock  \in 0..MaxClock
    /\ faults \in 0..MaxFaults
    /\ paused \in BOOLEAN
    /\ msg    \in [Msgs -> {"outstanding", "leased", "acked"}]
    /\ merged \in [Msgs -> Nat]

TypeOK == TableType /\ HandlerType /\ WorldType

(* A callback between its lookup and its write holds the lock of its key,  *)
(* so the metadata it read is still what the row holds.                    *)
KeyLockInv ==
    \A h \in Handlers :
        pc[h] \in {"lookup", "write"} => keylock[KeyOf[cur[h]]] = h

SnapshotFresh ==
    \A h \in Handlers :
        pc[h] = "write" /\ found[h] # None =>
            /\ status[found[h]] # "absent"
            /\ key[found[h]] = KeyOf[cur[h]]
            /\ snap[h] = [alerts |-> alerts[found[h]], count |-> count[found[h]]]

(* Merging loses nothing: every committed create_task call has left its    *)
(* alert in the metadata of exactly one task, and alert_occurrence_count   *)
(* of a task is the number of alerts it has taken, whatever callbacks run  *)
(* at the same time.                                                       *)
NoAlertOverwritten ==
    /\ \A m \in Msgs : SumFunction([t \in Tasks |-> alerts[t][m]]) = merged[m]
    /\ \A t \in Tasks : status[t] # "absent" => count[t] = SumFunction(alerts[t])

(* A message is acknowledged only once a task holds it: no interleaving of *)
(* failures, pauses, lease expiries, deletions and redeliveries drops one. *)
AckedIsRecorded ==
    \A m \in Msgs \ Ignored :
        msg[m] = "acked" => \E t \in Tasks : alerts[t][m] > 0

(* Why nothing is dropped, as an inductive invariant.                      *)
IntakeInv ==
    /\ TypeOK
    /\ KeyLockInv
    /\ SnapshotFresh
    /\ \A h \in Handlers : pc[h] = "ack" => \E t \in Tasks : alerts[t][cur[h]] > 0
    /\ AckedIsRecorded

(* docs/connectors.md: repeated alerts for a key merge into one task within*)
(* a window.  Two active tasks of one key are created within a window only *)
(* when the older had ended and was put back by an operator.               *)
OneTaskPerWindow ==
    \A t, u \in Tasks :
        /\ t # u /\ key[t] = key[u]
        /\ status[t] = "active" /\ status[u] = "active"
        /\ created[t] <= created[u] /\ created[u] <= created[t] + Window
        => rerun[t] \/ rerun[u]

(* Why, as an inductive invariant: a callback that found nothing holds the *)
(* lock of its key until it inserts, so no task its lookup would have      *)
(* returned can appear meanwhile, except one that an operator reruns.      *)
NothingToMerge ==
    \A h \in Handlers :
        pc[h] = "write" /\ found[h] = None =>
            \A t \in Candidates(h) : rerun[t]

(* Every message is acknowledged in the end: failures and pauses only      *)
(* delay it.                                                               *)
EventuallyAcked == \A m \in Msgs : <>(msg[m] = "acked")
=============================================================================
