---------------------------- MODULE Housekeeping ----------------------------
(***************************************************************************)
(* The retention pass every session-manager replica runs once an interval: *)
(* shared/lib/housekeeping.py and session-manager/housekeeping.py, against *)
(* what moves under it: operators who archive, unarchive and rerun tasks,  *)
(* and the indexer, which promotes versions of a Knowledge Source.         *)
(*                                                                         *)
(* Every stage selects rows first and deletes or updates them by id later; *)
(* nothing locks the rows in between, so selection and commit are separate *)
(* steps here.  prune_agent_memory_versions is in AgentMemory.             *)
(***************************************************************************)
EXTENDS Naturals, FiniteSets, Sequences

CONSTANTS
    Replicas,       \* session-manager processes
    TaskIds,
    NumCommits,     \* commits a source's ref points to, numbered as they are first indexed
    Units,          \* memory units of a learning bank
    DocumentOf,     \* the document of each unit, or NoDocument
    Observations,   \* units of fact_type observation
    NoDocument,
    Keep,           \* versions of a source kept beside the current one (5 in the code)
    HistoryLimit,   \* BACKGROUND_JOB_RUN_HISTORY_LIMIT
    MaxPasses,      \* bound: passes over all replicas
    MaxSyncs        \* bound: syncs of the source

ASSUME HousekeepingAssumptions ==
    /\ Keep \in Nat \ {0} /\ HistoryLimit \in Nat \ {0}
    /\ MaxPasses \in Nat /\ MaxSyncs \in Nat /\ NumCommits \in Nat

VARIABLES
    task,      \* status, old (created before the cutoff), archived: "no", "new", "due"
    units,     \* the bank: "new", "old" or "gone"
    currentId, \* current_successful_version_id
    version,   \* the version rows in the order of created_at: commit and status
    objects,   \* the artifacts under a commit's keys: "none", "whole" or "torn"
    pass,      \* a replica: the stage, and what it has selected
    history,   \* ids of the housekeeping rows of background_job_runs
    nextRun,   \* the next such id
    synced,    \* syncs so far
    touched,   \* tasks an operator archived unfinished, or reran while archived or selected
    lostTasks, \* tasks deleted by a pass while unfinished
    indexed,   \* a version of the source has been promoted
    excused,   \* the pointer has moved back to a version that newer rows had left behind
    crowded    \* Keep versions were begun between the two reads of a pass

tasksState   == <<task, touched, lostTasks>>
ghosts       == <<excused, crowded, indexed>>
sourceState  == <<currentId, version, objects, synced, ghosts>>
historyState == <<history, nextRun>>
hkVars       == <<tasksState, units, sourceState, pass, historyState>>

NoVersionRow == 0
Commits      == 1..NumCommits

TERMINAL_STATUSES == {"succeeded", "failed"}   \* failed stands for lost and timed_out too
Rerunnable        == {"failed"}

Idle == [at |-> "idle", tasks |-> {}, cur |-> NoVersionRow, begun |-> 0, doomed |-> {},
         keyed |-> {}, rows |-> {}, runs |-> {}]

HkInit ==
    /\ task = [t \in TaskIds |-> [status |-> "running", old |-> FALSE, archived |-> "no"]]
    /\ units = [u \in Units |-> "new"]
    /\ currentId = NoVersionRow /\ version = <<>>
    /\ objects = [c \in Commits |-> "none"]
    /\ pass = [h \in Replicas |-> Idle]
    /\ history = {} /\ nextRun = 1
    /\ synced = 0 /\ touched = {} /\ lostTasks = {}
    /\ excused = FALSE /\ crowded = FALSE /\ indexed = FALSE

(* run_housekeeping_once: on to the next stage of the pass.                *)
Goes(h, stage) == pass' = [pass EXCEPT ![h].at = stage]
There(t) == task[t].status # "deleted"
Selected(t) == \E h \in Replicas : t \in pass[h].tasks

-----------------------------------------------------------------------------
(* Tasks, operators and the clock.                                         *)

TaskEnds(t, status) ==
    /\ task[t].status = "running"
    /\ task' = [task EXCEPT ![t].status = status]
    /\ UNCHANGED <<units, sourceState, pass, historyState, touched, lostTasks>>

(* Time passes: a task or an archive stamp crosses its cutoff.             *)
Ages(t) ==
    /\ There(t)
    /\ \/ ~task[t].old /\ task' = [task EXCEPT ![t].old = TRUE]
       \/ task[t].archived = "new" /\ task' = [task EXCEPT ![t].archived = "due"]
    /\ UNCHANGED <<units, sourceState, pass, historyState, touched, lostTasks>>

UnitAges(u) ==
    /\ units[u] = "new"
    /\ units' = [units EXCEPT ![u] = "old"]
    /\ UNCHANGED <<tasksState, sourceState, pass, historyState>>

(* archive_task_api takes a task in any status; unarchive_task_api.        *)
Archive(t) ==
    /\ There(t)
    /\ task' = [task EXCEPT ![t].archived = "new"]
    /\ touched' = IF task[t].status \in TERMINAL_STATUSES THEN touched ELSE touched \cup {t}
    /\ UNCHANGED <<units, sourceState, pass, historyState, lostTasks>>

Unarchive(t) ==
    /\ There(t)
    /\ task' = [task EXCEPT ![t].archived = "no"]
    /\ UNCHANGED <<units, sourceState, pass, historyState, touched, lostTasks>>

(* rerun_task_api leaves archived_at as it is, and dequeue_task claims no  *)
(* archived task.                                                          *)
Rerun(t) ==
    /\ task[t].status \in Rerunnable
    /\ task' = [task EXCEPT ![t].status = "queued"]
    /\ touched' = IF task[t].archived # "no" \/ Selected(t) THEN touched \cup {t} ELSE touched
    /\ UNCHANGED <<units, sourceState, pass, historyState, lostTasks>>

Claimed(t) ==
    /\ task[t].status = "queued" /\ task[t].archived = "no"
    /\ task' = [task EXCEPT ![t].status = "running"]
    /\ UNCHANGED <<units, sourceState, pass, historyState, touched, lostTasks>>

-----------------------------------------------------------------------------
(* The indexer (KnowledgeSync has it in detail).                           *)

Row(i)        == i \in 1..Len(version) /\ version[i].status # "deleted"
VersionRows   == {i \in 1..Len(version) : Row(i)}
RowOf(c)      == {i \in VersionRows : version[i].commit = c}
NewestRows(n) == {i \in VersionRows : Cardinality({j \in VersionRows : j > i}) < n}
Seen(c)       == \E i \in 1..Len(version) : version[i].commit = c
Quiet         == \A i \in VersionRows : version[i].status # "running"

(* Ghost: the ref has come back to a commit that newer version rows, or    *)
(* the deletion of its own, have left behind.                              *)
ComesBack(c) == Seen(c) /\ RowOf(c) \cap NewestRows(1) = {}

(* A commit without a finished version is indexed: a new row, or the row   *)
(* of an attempt that failed.                                              *)
SyncBegins(c) ==
    /\ synced < MaxSyncs /\ Quiet
    /\ \A i \in RowOf(c) : version[i].status = "failed"
    /\ \A d \in 1..(c - 1) : Seen(d)
    /\ version' = IF RowOf(c) = {} THEN Append(version, [commit |-> c, status |-> "running"])
                  ELSE [i \in 1..Len(version) |->
                           IF i \in RowOf(c) THEN [version[i] EXCEPT !.status = "running"]
                           ELSE version[i]]
    /\ pass' = [h \in Replicas |-> [pass[h] EXCEPT !.begun =
                   IF pass[h].at = "versions" /\ @ < Keep THEN @ + 1 ELSE @]]
    /\ synced' = synced + 1
    /\ excused' = (excused \/ ComesBack(c))
    /\ UNCHANGED <<tasksState, units, currentId, objects, historyState, crowded, indexed>>

SyncFails(i) ==
    /\ Row(i) /\ version[i].status = "running"
    /\ version' = [version EXCEPT ![i].status = "failed"]
    /\ UNCHANGED <<tasksState, units, currentId, objects, pass, historyState, synced, ghosts>>

SyncPromotes(i) ==
    /\ Row(i) /\ version[i].status = "running"
    /\ version' = [version EXCEPT ![i].status = "succeeded"]
    /\ objects' = [objects EXCEPT ![version[i].commit] = "whole"]
    /\ currentId' = i /\ indexed' = TRUE
    /\ UNCHANGED <<tasksState, units, pass, historyState, synced, excused, crowded>>

(* The ref points to a commit that has been indexed: the pointer is set to *)
(* the version whose row says succeeded, and nothing is built.             *)
SyncSkips(i) ==
    /\ synced < MaxSyncs /\ Quiet
    /\ Row(i) /\ version[i].status = "succeeded" /\ currentId # i
    /\ currentId' = i
    /\ synced' = synced + 1
    /\ excused' = (excused \/ ComesBack(version[i].commit))
    /\ UNCHANGED <<tasksState, units, version, objects, pass, historyState, crowded, indexed>>

-----------------------------------------------------------------------------
(* The pass.                                                               *)

(* Mutant: archiving goes by age alone.                                    *)
Archivable_ByAge(t) == task[t].archived = "no" /\ task[t].old /\ There(t)

Archivable(t) ==
    /\ task[t].status \in TERMINAL_STATUSES
    /\ task[t].archived = "no" /\ task[t].old

ArchiveSelect(h) ==
    /\ pass[h].at = "idle" /\ nextRun <= MaxPasses
    /\ pass' = [pass EXCEPT ![h] = [Idle EXCEPT !.at = "archive",
                                                !.tasks = {t \in TaskIds : Archivable(t)}]]
    /\ UNCHANGED <<tasksState, units, sourceState, historyState>>

(* The rows are written by id, whatever has happened to them; an update of *)
(* a row that is gone fails the pass.                                      *)
ArchiveCommit(h) ==
    /\ pass[h].at = "archive" /\ \A t \in pass[h].tasks : There(t)
    /\ task' = [t \in TaskIds |-> IF t \in pass[h].tasks
                                  THEN [task[t] EXCEPT !.archived = "new"] ELSE task[t]]
    /\ pass' = [pass EXCEPT ![h].at = "select", ![h].tasks = {}]
    /\ UNCHANGED <<units, sourceState, historyState, touched, lostTasks>>

DeleteSelect(h) ==
    /\ pass[h].at = "select"
    /\ pass' = [pass EXCEPT ![h].at = "delete",
                            ![h].tasks = {t \in TaskIds : There(t) /\ task[t].archived = "due"}]
    /\ UNCHANGED <<tasksState, units, sourceState, historyState>>

DeleteCommit(h) ==
    /\ pass[h].at = "delete"
    /\ task' = [t \in TaskIds |-> IF t \in pass[h].tasks
                                  THEN [task[t] EXCEPT !.status = "deleted"] ELSE task[t]]
    /\ lostTasks' = lostTasks \cup {t \in pass[h].tasks : task[t].status \in {"queued", "running"}}
    /\ pass' = [pass EXCEPT ![h].at = "learning", ![h].tasks = {}]
    /\ UNCHANGED <<units, sourceState, historyState, touched>>

(* prune_learning_bank_memories: the document of an expired unit goes with *)
(* all its units; a unit without one is invalidated, except observations.  *)
(* A call that fails is a warning, a list that fails skips the bank.       *)
PruneLearning(h) ==
    /\ pass[h].at = "learning"
    /\ LET expired == {u \in Units : units[u] = "old"}
           deletes == {u \in Units : DocumentOf[u] # NoDocument
                                     /\ \E x \in expired : DocumentOf[x] = DocumentOf[u]}
           retires == {u \in expired \ Observations : DocumentOf[u] = NoDocument}
       IN \E done \in {deletes \cup retires, {}} :
             units' = [u \in Units |-> IF u \in done THEN "gone" ELSE units[u]]
    /\ Goes(h, "sources")
    /\ UNCHANGED <<tasksState, sourceState, historyState>>

(* prune_knowledge_source_history: all sources are read at once, then the  *)
(* versions of each.                                                       *)
ReadSources(h) ==
    /\ pass[h].at = "sources"
    /\ pass' = [pass EXCEPT ![h].at = "versions", ![h].cur = currentId, ![h].begun = 0]
    /\ UNCHANGED <<tasksState, units, sourceState, historyState>>

(* Mutant: only the newest rows are kept.                                  *)
Retained_Newest(h) == NewestRows(Keep)

Retained(h) == NewestRows(Keep) \cup {pass[h].cur}

ReadVersions(h) ==
    /\ pass[h].at = "versions"
    /\ LET doomed == {i \in VersionRows \ Retained(h) : version[i].status # "running"} IN
       pass' = [pass EXCEPT ![h].at = "objects", ![h].doomed = doomed,
                            ![h].keyed = {i \in doomed : version[i].status = "succeeded"}]
    /\ crowded' = (crowded \/ pass[h].begun >= Keep)
    /\ UNCHANGED <<tasksState, units, currentId, version, objects, synced, historyState, excused,
                   indexed>>

(* The objects of a version go one by one, before its row; an error keeps  *)
(* the row and what was deleted stays deleted.  A version that had failed  *)
(* when it was read has no keys.                                           *)
DeleteObjects(h, i) ==
    /\ pass[h].at = "objects" /\ i \in pass[h].doomed
    /\ LET c == version[i].commit IN
       \/ /\ objects' = IF i \in pass[h].keyed THEN [objects EXCEPT ![c] = "none"] ELSE objects
          /\ pass' = [pass EXCEPT ![h].doomed = @ \ {i}, ![h].rows = @ \cup {i}]
       \/ /\ i \in pass[h].keyed
          /\ objects' = [objects EXCEPT ![c] = IF @ = "whole" THEN "torn" ELSE @]
          /\ pass' = [pass EXCEPT ![h].doomed = @ \ {i}]
    /\ UNCHANGED <<tasksState, units, currentId, version, synced, historyState, ghosts>>

(* The rows go by id; the foreign key empties a pointer to one of them.    *)
(* (Finished sync runs beyond Keep go with them and decide nothing.)       *)
DeleteRows(h) ==
    /\ pass[h].at = "objects" /\ pass[h].doomed = {}
    /\ version' = [i \in 1..Len(version) |-> IF i \in pass[h].rows
                                             THEN [version[i] EXCEPT !.status = "deleted"]
                                             ELSE version[i]]
    /\ currentId' = IF currentId \in pass[h].rows THEN NoVersionRow ELSE currentId
    /\ Goes(h, "history")
    /\ UNCHANGED <<tasksState, units, objects, synced, historyState, ghosts>>

Newest(n) == {i \in history : Cardinality({j \in history : j > i}) < n}

Room == HistoryLimit - 1

SelectHistory(h) ==
    /\ pass[h].at = "history"
    /\ pass' = [pass EXCEPT ![h].at = "prune", ![h].runs = history \ Newest(Room)]
    /\ UNCHANGED <<tasksState, units, sourceState, historyState>>

PruneHistory(h) ==
    /\ pass[h].at = "prune"
    /\ history' = history \ pass[h].runs
    /\ Goes(h, "record")
    /\ UNCHANGED <<tasksState, units, sourceState, nextRun>>

(* record_background_job_run, for a pass that ran and for one that failed. *)
RecordPass(h) ==
    /\ history' = history \cup {nextRun}
    /\ nextRun' = nextRun + 1
    /\ pass' = [pass EXCEPT ![h] = Idle]

RecordSuccess(h) ==
    /\ pass[h].at = "record"
    /\ RecordPass(h)
    /\ UNCHANGED <<tasksState, units, sourceState>>

PassFails(h) ==
    /\ pass[h].at \notin {"idle", "record"}
    /\ RecordPass(h)
    /\ UNCHANGED <<tasksState, units, sourceState>>

HkNext ==
    \/ \E t \in TaskIds : \/ Ages(t) \/ Archive(t) \/ Unarchive(t) \/ Rerun(t) \/ Claimed(t)
                          \/ \E s \in TERMINAL_STATUSES : TaskEnds(t, s)
    \/ \E u \in Units : UnitAges(u)
    \/ \E c \in Commits : SyncBegins(c)
    \/ \E i \in 1..MaxSyncs : SyncFails(i) \/ SyncPromotes(i) \/ SyncSkips(i)
    \/ \E h \in Replicas :
          \/ ArchiveSelect(h) \/ ArchiveCommit(h) \/ DeleteSelect(h) \/ DeleteCommit(h)
          \/ PruneLearning(h) \/ ReadSources(h) \/ ReadVersions(h)
          \/ \E i \in 1..MaxSyncs : DeleteObjects(h, i)
          \/ DeleteRows(h) \/ SelectHistory(h) \/ PruneHistory(h) \/ RecordSuccess(h)
          \/ PassFails(h)

-----------------------------------------------------------------------------
(* A pass deletes an unfinished task only when an operator archived it     *)
(* unfinished, or reran it while it was archived or while a pass had       *)
(* selected it (rerun_task_api leaves archived_at, delete_archived_tasks   *)
(* does not look at the status).                                           *)
LiveTasksSurvive == lostTasks \subseteq touched

(* A source that was ever indexed has a current version with its objects.  *)
Servable ==
    IF currentId = NoVersionRow THEN ~indexed ELSE objects[version[currentId].commit] = "whole"

(* prune_knowledge_source_history never takes the promoted version away,   *)
(* its row or an object, as long as the pointer only moves to the newest   *)
(* version row and fewer than Keep versions are begun between the two      *)
(* reads of a pass.                                                        *)
PromotedKept == excused \/ crowded \/ Servable

(* Its docstring: recent history is kept "while preserving active and      *)
(* promoted indexes".  (Not claimed for a pass during which Keep versions  *)
(* are begun, which takes longer than a pass when Keep is 5.)              *)
PromotedPreserved == crowded \/ Servable

-----------------------------------------------------------------------------
HkSpec == HkInit /\ [][HkNext]_hkVars

(* The inductive invariants behind them. *)

TaskRow    == [status : {"queued", "running", "succeeded", "failed", "deleted"},
               old : BOOLEAN, archived : {"no", "new", "due"}]
VersionRow == [commit : Commits, status : {"running", "failed", "succeeded", "deleted"}]
PassState  ==
    [at : {"idle", "archive", "select", "delete", "learning", "sources", "versions", "objects",
           "history", "prune", "record"},
     tasks : SUBSET TaskIds, cur : Nat, begun : Nat, doomed : SUBSET Nat, keyed : SUBSET Nat,
     rows : SUBSET Nat, runs : SUBSET Nat]

PassType   == pass \in [Replicas -> PassState] /\ history \subseteq Nat /\ nextRun \in Nat
SourceType ==
    /\ version \in Seq(VersionRow) /\ objects \in [Commits -> {"none", "whole", "torn"}]
    /\ currentId \in 0..Len(version)
HkTypeOK   == task \in [TaskIds -> TaskRow] /\ PassType /\ SourceType

(* An unfinished task that is archived, or that a pass has selected, was   *)
(* touched by an operator.                                                 *)
Unfinished(t) == task[t].status \in {"queued", "running"}
LiveInv ==
    /\ \A t \in TaskIds : Unfinished(t) /\ (task[t].archived # "no" \/ Selected(t)) => t \in touched
    /\ LiveTasksSurvive

(* A version that a pass is about to delete, or whose objects are no       *)
(* longer whole, has a newer row that no pass is about to delete.          *)
Doomed(i)  == \E h \in Replicas : i \in pass[h].doomed \cup pass[h].rows
Damaged(i) == version[i].status = "succeeded" /\ objects[version[i].commit] # "whole"
Newer(i)   == {j \in VersionRows : j > i}
Outdated(i) == \E j \in Newer(i) : ~Doomed(j)

(* The pointer is at the version a pass has read, or at one with no more   *)
(* newer rows than syncs have begun since.                                 *)
Watched(h) ==
    pass[h].at = "versions" =>
        \/ currentId \in {NoVersionRow, pass[h].cur}
        \/ pass[h].begun >= Keep \/ Cardinality(Newer(currentId)) <= pass[h].begun

KeptInv ==
    /\ \A h \in Replicas : pass[h].doomed \cup pass[h].rows \subseteq 1..Len(version)
    /\ \A i, j \in 1..Len(version) : version[i].commit = version[j].commit => i = j
    /\ \A i \in VersionRows : Doomed(i) \/ Damaged(i) => Outdated(i)
    /\ \A i \in VersionRows : version[i].status = "running" => Newer(i) = {}
    /\ IF currentId = NoVersionRow THEN ~indexed
       ELSE /\ Row(currentId) /\ version[currentId].status = "succeeded"
            /\ ~Doomed(currentId) /\ ~Damaged(currentId)
    /\ \A h \in Replicas : Watched(h)

PassInv == excused \/ crowded \/ KeptInv
=============================================================================
