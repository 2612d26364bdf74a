---------------------------- MODULE KnowledgeSync ----------------------------
(***************************************************************************)
(* Synchronisation of one Knowledge Source: sync requests are rows of      *)
(* background_job_runs, any number of knowledge-indexer workers list them, *)
(* and the worker that holds the source's session-level advisory lock      *)
(* fetches the ref, extracts, publishes the bundle object by object and    *)
(* promotes the version.  Lock, versions and object keys are all keyed by  *)
(* the source, so one source is modelled.                                  *)
(*                                                                         *)
(* The ORM session of a sync keeps what it has loaded (expire_on_commit is *)
(* off and SELECT ... FOR UPDATE does not refresh a loaded object): the    *)
(* record ses[w] is that memory, and the guards of promote and fail read   *)
(* it, not the row.                                                        *)
(***************************************************************************)
EXTENDS Integers, Sequences

CONSTANTS
    Workers,      \* knowledge-indexer processes
    MaxRuns,      \* rows of background_job_runs for the source
    Commits,      \* commits the configured ref may point to
    Scopes,       \* include/exclude path lists, as extraction_config_hash sees them
    Idents,       \* canonical_alias and repository_url of the source
    Salts,        \* byte-level outcomes of extracting one commit and scope
    Artifacts,    \* the artifact names, in a sequence whose last is the manifest
    None,
    MaxEdits,     \* bound: registry edits and moves of the ref
    MaxCrashes,   \* bound: crashes and failed steps
    MaxLost       \* bound: database connections lost

ASSUME SyncAssumptions ==
    /\ MaxRuns \in Nat /\ MaxEdits \in Nat /\ MaxCrashes \in Nat /\ MaxLost \in Nat
    /\ Artifacts \in Seq(STRING) /\ Artifacts # <<>>
    /\ \A i, j \in 1..Len(Artifacts) : Artifacts[i] = Artifacts[j] => i = j
    /\ None \notin Workers /\ None \notin Commits /\ None \notin Scopes
    /\ None \notin Idents /\ None \notin Salts /\ None \notin 1..MaxRuns
    /\ None \notin Commits \X Scopes /\ None \notin (Idents \cup {None}) \X Salts

VARIABLES
    source,    \* the registry row: enabled, scope, ident
    pointer,   \* current_successful_version_id
    head,      \* the commit the ref points to at the Git host
    rstatus, rstale,   \* status of a run; TRUE once its heartbeat is too old
    vstatus, sums,     \* status and artifact_checksums of a version
    object,            \* the bucket: bytes stored under a version's key
    lock,              \* pg advisory lock of the source
    pc, batch, conn,   \* a worker: step, listed requests, its connection
    ses,               \* what the worker's ORM session remembers
    manual,            \* queue_knowledge_source_sync between check and insert
    edits, crashes, lost

runs     == <<rstatus, rstale>>
versions == <<vstatus, sums>>
worker   == <<pc, batch, conn, ses, lock>>
bounds   == <<edits, crashes, lost>>
vars     == <<source, pointer, head, runs, versions, object, worker, manual, bounds>>

Runs     == 1..MaxRuns
Versions == Commits \X Scopes
Names    == {Artifacts[i] : i \in 1..Len(Artifacts)}
Manifest == Artifacts[Len(Artifacts)]
Bytes    == (Idents \cup {None}) \X Salts
Source   == [enabled : BOOLEAN, scope : Scopes, ident : Idents]

RunStatus     == {"none", "queued", "running", "succeeded", "failed", "skipped"}
Terminal      == {"succeeded", "failed", "skipped"}
VersionStatus == {"none", "running", "succeeded", "failed"}

NoSource  == [enabled |-> FALSE, scope |-> None, ident |-> None]
NewSession(r, src, cur) ==
    [run |-> r, src |-> src, pointer |-> cur, status |-> "none", commit |-> None,
     built |-> None, art |-> 1, overtaken |-> FALSE]
NoSession == NewSession(None, NoSource, None)

(* extraction_config_hash: the identity of a version is the commit and the *)
(* hash of the path scope.                                                 *)
Version(w) == <<ses[w].commit, ses[w].src.scope>>

(* build_knowledge_source_bundle: the manifest names alias and repository  *)
(* besides the digests of the other artifacts.                             *)
BytesOf(w, a) == <<IF a = Manifest THEN ses[w].src.ident ELSE None, ses[w].built>>

-----------------------------------------------------------------------------
Init ==
    /\ source \in {s \in Source : s.enabled}
    /\ pointer = None
    /\ head \in Commits
    /\ rstatus = [r \in Runs |-> "none"] /\ rstale = [r \in Runs |-> FALSE]
    /\ vstatus = [v \in Versions |-> "none"]
    /\ sums = [v \in Versions |-> [a \in Names |-> None]]
    /\ object = [v \in Versions |-> [a \in Names |-> None]]
    /\ lock = None
    /\ pc = [w \in Workers |-> "down"] /\ batch = [w \in Workers |-> {}]
    /\ conn = [w \in Workers |-> TRUE] /\ ses = [w \in Workers |-> NoSession]
    /\ manual = FALSE
    /\ edits = 0 /\ crashes = 0 /\ lost = 0

Goto(w, step) == pc' = [pc EXCEPT ![w] = step]

(* Mutant: the finally clause does not unlock, and the pooled connection   *)
(* keeps the lock.                                                         *)
Unlock_Forgotten(w) == UNCHANGED lock

Unlock(w) == lock' = IF lock = w THEN None ELSE lock

(* The sync returned, or raised an error worker_loop catches: the next     *)
(* request of the batch is tried.                                          *)
Return(w) ==
    /\ Goto(w, "work")
    /\ batch' = [batch EXCEPT ![w] = @ \ {ses[w].run}]
    /\ ses' = [ses EXCEPT ![w] = NoSession]
    /\ conn' = [conn EXCEPT ![w] = TRUE]
    /\ Unlock(w)

(* The process is gone: its connection, and the lock with it.              *)
Exit(w) ==
    /\ Goto(w, "down")
    /\ batch' = [batch EXCEPT ![w] = {}]
    /\ ses' = [ses EXCEPT ![w] = NoSession]
    /\ conn' = [conn EXCEPT ![w] = TRUE]
    /\ Unlock(w)

-----------------------------------------------------------------------------
(* Requests.                                                               *)

(* queue_background_job: rows are numbered in insertion order.             *)
Insert ==
    \E r \in Runs :
       /\ rstatus[r] = "none" /\ \A q \in Runs : q < r => rstatus[q] # "none"
       /\ rstatus' = [rstatus EXCEPT ![r] = "queued"]
       /\ UNCHANGED rstale

(* queue_knowledge_source_sync answers 409 when a run is active; the check *)
(* and the insert are two statements without a lock between them.          *)
ManualCheck ==
    /\ ~manual
    /\ source.enabled
    /\ \A r \in Runs : rstatus[r] \notin {"queued", "running"}
    /\ manual' = TRUE
    /\ UNCHANGED <<source, pointer, head, runs, versions, object, worker, bounds>>

ManualInsert ==
    /\ manual
    /\ Insert
    /\ manual' = FALSE
    /\ UNCHANGED <<source, pointer, head, versions, object, worker, bounds>>

(* update_knowledge_source, and the Git host moving the ref.               *)
EditSource ==
    /\ edits < MaxEdits
    /\ \E s \in Source \ {source} : source' = s
    /\ edits' = edits + 1
    /\ UNCHANGED <<pointer, head, runs, versions, object, worker, manual, crashes, lost>>

MoveRef ==
    /\ edits < MaxEdits
    /\ \E c \in Commits \ {head} : head' = c
    /\ edits' = edits + 1
    /\ UNCHANGED <<source, pointer, runs, versions, object, worker, manual, crashes, lost>>

-----------------------------------------------------------------------------
(* The worker loop.                                                        *)

(* reconcile_worker_startup: every stale running run is failed, whoever    *)
(* runs it.                                                                *)
Start(w) ==
    /\ pc[w] = "down"
    /\ Goto(w, "poll")
    /\ rstatus' = [r \in Runs |-> IF rstatus[r] = "running" /\ rstale[r]
                                  THEN "failed" ELSE rstatus[r]]
    /\ UNCHANGED <<source, pointer, head, rstale, versions, object, batch, conn, ses,
                   lock, manual, bounds>>

(* queue_due_sources: an interval may have elapsed, whatever runs are      *)
(* active.                                                                 *)
QueueDue(w) ==
    /\ pc[w] = "poll"
    /\ \/ source.enabled /\ Insert
       \/ UNCHANGED runs
    /\ Goto(w, "list")
    /\ UNCHANGED <<source, pointer, head, versions, object, batch, conn, ses, lock,
                   manual, bounds>>

(* queued_sync_requests.                                                   *)
ListQueued(w) ==
    /\ pc[w] = "list"
    /\ batch' = [batch EXCEPT ![w] = {r \in Runs : rstatus[r] = "queued"}]
    /\ Goto(w, "work")
    /\ UNCHANGED <<source, pointer, head, runs, versions, object, conn, ses, lock,
                   manual, bounds>>

(* The batch is done; the loop sleeps and polls again.                     *)
Sleep(w) ==
    /\ pc[w] = "work" /\ batch[w] = {}
    /\ Goto(w, "poll")
    /\ UNCHANGED <<source, pointer, head, runs, versions, object, batch, conn, ses,
                   lock, manual, bounds>>

(* Mutant: the result of pg_try_advisory_lock is ignored.                  *)
Acquire_Anyway(w) ==
    /\ pc[w] = "work"
    /\ \E r \in batch[w] :
          /\ \A q \in batch[w] : r <= q
          /\ lock' = w
          /\ ses' = [ses EXCEPT ![w] = NewSession(r, source, pointer)]
          /\ Goto(w, "claim")
    /\ UNCHANGED <<source, pointer, head, runs, versions, object, batch, conn, manual,
                   bounds>>

(* run_knowledge_source_sync: try the lock for the oldest request of the   *)
(* batch; a busy source leaves the run queued.  The source row is loaded   *)
(* before the run is claimed.                                              *)
Acquire(w) ==
    /\ pc[w] = "work"
    /\ \E r \in batch[w] :
          /\ \A q \in batch[w] : r <= q
          /\ \/ /\ lock = None
                /\ lock' = w
                /\ ses' = [ses EXCEPT ![w] = NewSession(r, source, pointer)]
                /\ Goto(w, "claim")
                /\ UNCHANGED batch
             \/ /\ lock # None
                /\ batch' = [batch EXCEPT ![w] = @ \ {r}]
                /\ UNCHANGED <<lock, ses, pc>>
    /\ UNCHANGED <<source, pointer, head, runs, versions, object, conn, manual, bounds>>

(* claim_background_job.                                                   *)
Claim(w) ==
    /\ pc[w] = "claim" /\ conn[w]
    /\ LET r == ses[w].run IN
          \/ /\ rstatus[r] # "queued"
             /\ Return(w)
             /\ UNCHANGED runs
          \/ /\ rstatus[r] = "queued"
             /\ rstatus' = [rstatus EXCEPT ![r] = "running"]
             /\ rstale' = [rstale EXCEPT ![r] = FALSE]
             /\ ses' = [ses EXCEPT ![w].status = "running"]
             /\ Goto(w, IF ses[w].src.enabled THEN "fetch" ELSE "fail_run")
             /\ UNCHANGED <<batch, conn, lock>>
    /\ UNCHANGED <<source, pointer, head, versions, object, manual, bounds>>

(* One step of the sync raised an exception: the handler is next.          *)
Raise(w) ==
    /\ crashes < MaxCrashes /\ crashes' = crashes + 1
    /\ pc' = [pc EXCEPT ![w] = IF pc[w] \in {"fetch", "resolve"} THEN "fail_run" ELSE "fail"]

(* prepare_repository_snapshot.                                            *)
Fetch(w) ==
    /\ pc[w] = "fetch"
    /\ \/ /\ ses' = [ses EXCEPT ![w].commit = head]
          /\ Goto(w, "resolve")
          /\ UNCHANGED crashes
       \/ /\ Raise(w)
          /\ UNCHANGED ses
    /\ UNCHANGED <<source, pointer, head, runs, versions, object, batch, conn, lock,
                   manual, edits, lost>>

(* An ORM assignment that does not change the loaded value writes nothing. *)
MovePointer(w) ==
    /\ pointer' = IF ses[w].pointer = Version(w) THEN pointer ELSE Version(w)

(* Ghost: the syncs that fetched before this promotion and are not done.   *)
Overtake(w, s) ==
    [u \in Workers |-> IF u # w /\ s[u].commit # None
                       THEN [s[u] EXCEPT !.overtaken = TRUE] ELSE s[u]]

(* An unchanged commit and scope: the pointer is set and the run skipped.  *)
Skip(w) ==
    /\ pc[w] = "resolve" /\ conn[w]
    /\ vstatus[Version(w)] = "succeeded"
    /\ MovePointer(w)
    /\ rstatus' = [rstatus EXCEPT ![ses[w].run] = "skipped"]
    /\ Goto(w, "work")
    /\ batch' = [batch EXCEPT ![w] = @ \ {ses[w].run}]
    /\ ses' = Overtake(w, [ses EXCEPT ![w] = NoSession])
    /\ Unlock(w)
    /\ UNCHANGED <<source, head, rstale, versions, object, conn, manual, bounds>>

(* Mutant: a version that already succeeded is indexed again.              *)
Attempt_Again(w) ==
    /\ pc[w] = "resolve" /\ conn[w]
    /\ vstatus' = [vstatus EXCEPT ![Version(w)] = "running"]
    /\ Goto(w, "beat_extract")
    /\ UNCHANGED <<source, pointer, head, runs, sums, object, batch, conn, ses, lock,
                   manual, bounds>>

(* A new version, or one an earlier attempt left unfinished.               *)
Attempt(w) ==
    /\ pc[w] = "resolve" /\ conn[w]
    /\ vstatus[Version(w)] # "succeeded"
    /\ vstatus' = [vstatus EXCEPT ![Version(w)] = "running"]
    /\ Goto(w, "beat_extract")
    /\ UNCHANGED <<source, pointer, head, runs, sums, object, batch, conn, ses, lock,
                   manual, bounds>>

AfterBeat == [beat_extract |-> "extract", beat_bundle |-> "bundle", beat_publish |-> "check"]

(* heartbeat_background_job: refused when the row is no longer running;    *)
(* the rollback expires the session's objects, the handler fails on them   *)
(* and the exception leaves worker_loop.                                   *)
Heartbeat(w) ==
    /\ pc[w] \in DOMAIN AfterBeat /\ conn[w]
    /\ LET r == ses[w].run IN
          \/ /\ rstatus[r] = "running"
             /\ rstale' = [rstale EXCEPT ![r] = FALSE]
             /\ Goto(w, AfterBeat[pc[w]])
             /\ UNCHANGED <<batch, ses, conn, lock>>
          \/ /\ rstatus[r] # "running"
             /\ Exit(w)
             /\ UNCHANGED rstale
    /\ UNCHANGED <<source, pointer, head, rstatus, versions, object, manual, bounds>>

(* run_graphify_code_extraction, then build_knowledge_source_bundle.       *)
Extract(w) ==
    /\ pc[w] = "extract"
    /\ \/ /\ \E x \in Salts : ses' = [ses EXCEPT ![w].built = x]
          /\ Goto(w, "beat_bundle")
          /\ UNCHANGED crashes
       \/ Raise(w) /\ UNCHANGED ses
    /\ UNCHANGED <<source, pointer, head, runs, versions, object, batch, conn, lock,
                   manual, edits, lost>>

Bundle(w) ==
    /\ pc[w] = "bundle"
    /\ \/ Goto(w, "beat_publish") /\ UNCHANGED crashes
       \/ Raise(w)
    /\ UNCHANGED <<source, pointer, head, runs, versions, object, batch, conn, ses, lock,
                   manual, edits, lost>>

(* publish_knowledge_source_bundle runs in a thread and needs no database: *)
(* for each artifact in order, an existing object must be the same, an     *)
(* absent one is uploaded, and what is stored is read back.                *)
Stored(w) == object[Version(w)][Artifacts[ses[w].art]]
Mine(w)   == BytesOf(w, Artifacts[ses[w].art])

(* The artifact is published: the next one, or the promotion.              *)
Advance(w) ==
    IF ses[w].art = Len(Artifacts)
    THEN Goto(w, "promote") /\ UNCHANGED ses
    ELSE Goto(w, "check") /\ ses' = [ses EXCEPT ![w].art = @ + 1]

(* Mutant: an object that is already there is taken as published.          *)
PublishCheck_Trusts(w) ==
    /\ pc[w] = "check"
    /\ \/ Stored(w) = None /\ Goto(w, "upload") /\ UNCHANGED ses
       \/ Stored(w) # None /\ Advance(w)
    /\ UNCHANGED <<source, pointer, head, runs, versions, object, batch, conn, lock,
                   manual, bounds>>

(* Mutant: an object that differs is replaced.                             *)
PublishCheck_Replaces(w) ==
    /\ pc[w] = "check"
    /\ Goto(w, IF Stored(w) = Mine(w) THEN "verify" ELSE "upload")
    /\ UNCHANGED <<source, pointer, head, runs, versions, object, batch, conn, ses, lock,
                   manual, bounds>>

PublishCheck(w) ==
    /\ pc[w] = "check"
    /\ \/ /\ Stored(w) \in {None, Mine(w)}
          /\ Goto(w, IF Stored(w) = None THEN "upload" ELSE "verify")
          /\ UNCHANGED crashes
       \/ /\ Stored(w) \notin {None, Mine(w)}
          /\ Goto(w, "fail")
          /\ UNCHANGED crashes
       \/ Raise(w)
    /\ UNCHANGED <<source, pointer, head, runs, versions, object, batch, conn, ses, lock,
                   manual, edits, lost>>

PublishUpload(w) ==
    /\ pc[w] = "upload"
    /\ object' = [object EXCEPT ![Version(w)][Artifacts[ses[w].art]] = Mine(w)]
    /\ Goto(w, "verify")
    /\ UNCHANGED <<source, pointer, head, runs, versions, batch, conn, ses, lock, manual,
                   bounds>>

PublishVerify(w) ==
    /\ pc[w] = "verify"
    /\ \/ /\ Stored(w) = Mine(w)
          /\ Advance(w)
          /\ UNCHANGED crashes
       \/ /\ Stored(w) # Mine(w)
          /\ Goto(w, "fail")
          /\ UNCHANGED <<ses, crashes>>
       \/ Raise(w) /\ UNCHANGED ses
    /\ UNCHANGED <<source, pointer, head, runs, versions, object, batch, conn, lock,
                   manual, edits, lost>>

(* promote_knowledge_source_version: both status checks read the objects   *)
(* the session has loaded.                                                 *)
Promote(w) ==
    /\ pc[w] = "promote" /\ conn[w]
    /\ ses[w].status = "running"
    /\ vstatus' = [vstatus EXCEPT ![Version(w)] = "succeeded"]
    /\ sums' = [sums EXCEPT ![Version(w)] = [a \in Names |-> BytesOf(w, a)]]
    /\ MovePointer(w)
    /\ rstatus' = [rstatus EXCEPT ![ses[w].run] = "succeeded"]
    /\ ses' = Overtake(w, [ses EXCEPT ![w].status = "succeeded"])
    /\ Goto(w, "close")
    /\ UNCHANGED <<source, head, rstale, object, batch, conn, lock, manual, bounds>>

(* The version is refreshed and the bundle directory removed; both may     *)
(* still raise.                                                            *)
Close(w) ==
    /\ pc[w] = "close"
    /\ \/ /\ conn[w]
          /\ Return(w)
          /\ UNCHANGED crashes
       \/ /\ Raise(w)
          /\ UNCHANGED <<batch, ses, conn, lock>>
    /\ UNCHANGED <<source, pointer, head, runs, versions, object, manual, edits, lost>>

(* finish_background_job: no version was attempted.                        *)
FailRun(w) ==
    /\ pc[w] = "fail_run" /\ conn[w]
    /\ rstatus' = [rstatus EXCEPT ![ses[w].run] = "failed"]
    /\ Return(w)
    /\ UNCHANGED <<source, pointer, head, rstale, versions, object, manual, bounds>>

(* Mutant: no check of the run's status before the version is failed.      *)
FailVersion_Unchecked(w) ==
    /\ pc[w] = "fail" /\ conn[w]
    /\ vstatus' = [vstatus EXCEPT ![Version(w)] = "failed"]
    /\ rstatus' = [rstatus EXCEPT ![ses[w].run] = "failed"]
    /\ Return(w)
    /\ UNCHANGED <<source, pointer, head, rstale, sums, object, manual, bounds>>

(* fail_knowledge_source_version: a run the session has already finished   *)
(* raises an error that leaves worker_loop.                                *)
FailVersion(w) ==
    /\ pc[w] = "fail" /\ conn[w]
    /\ \/ /\ ses[w].status = "running"
          /\ vstatus' = [vstatus EXCEPT ![Version(w)] = "failed"]
          /\ rstatus' = [rstatus EXCEPT ![ses[w].run] = "failed"]
          /\ Return(w)
       \/ /\ ses[w].status # "running"
          /\ Exit(w)
          /\ UNCHANGED <<vstatus, rstatus>>
    /\ UNCHANGED <<source, pointer, head, rstale, sums, object, manual, bounds>>

-----------------------------------------------------------------------------
(* Faults.                                                                 *)

Syncing  == {"claim", "fetch", "resolve", "beat_extract", "extract", "beat_bundle", "bundle",
             "beat_publish", "check", "upload", "verify", "promote", "close", "fail",
             "fail_run"}
Database == {"claim", "resolve", "beat_extract", "beat_bundle", "beat_publish", "promote",
             "close", "fail", "fail_run"}

(* Nothing has refreshed the heartbeat for KNOWLEDGE_SOURCE_STALE_RUN_SEC: *)
(* two Graphify commands of 1800 s each reach the default of 3600 s.       *)
HeartbeatExpires(r) ==
    /\ rstatus[r] = "running" /\ ~rstale[r]
    /\ rstale' = [rstale EXCEPT ![r] = TRUE]
    /\ UNCHANGED <<source, pointer, head, rstatus, versions, object, worker, manual,
                   bounds>>

(* The worker process dies at any point.                                   *)
Crash(w) ==
    /\ pc[w] # "down"
    /\ crashes < MaxCrashes /\ crashes' = crashes + 1
    /\ Exit(w)
    /\ UNCHANGED <<source, pointer, head, runs, versions, object, manual, edits, lost>>

(* PostgreSQL drops the connection of a sync: the lock is free, the thread *)
(* that fetches, extracts or publishes does not notice.                    *)
LoseConnection(w) ==
    /\ pc[w] \in Syncing /\ conn[w]
    /\ lost < MaxLost /\ lost' = lost + 1
    /\ conn' = [conn EXCEPT ![w] = FALSE]
    /\ Unlock(w)
    /\ UNCHANGED <<source, pointer, head, runs, versions, object, pc, batch, ses, manual,
                   edits, crashes>>

(* The next statement on the lost connection raises, the handler's too:    *)
(* the exception leaves worker_loop.                                       *)
Disconnected(w) ==
    /\ pc[w] \in Database /\ ~conn[w]
    /\ Exit(w)
    /\ UNCHANGED <<source, pointer, head, runs, versions, object, manual, bounds>>

-----------------------------------------------------------------------------
Work(w) ==
    \/ Start(w) \/ QueueDue(w) \/ ListQueued(w) \/ Sleep(w) \/ Acquire(w) \/ Claim(w)
    \/ Fetch(w) \/ Skip(w) \/ Attempt(w) \/ Heartbeat(w) \/ Extract(w) \/ Bundle(w)
    \/ PublishCheck(w) \/ PublishUpload(w) \/ PublishVerify(w) \/ Promote(w) \/ Close(w)
    \/ FailRun(w) \/ FailVersion(w) \/ Disconnected(w)

Requests == ManualCheck \/ ManualInsert \/ EditSource \/ MoveRef

Next ==
    \/ \E w \in Workers : Work(w) \/ Crash(w) \/ LoseConnection(w)
    \/ \E r \in Runs : HeartbeatExpires(r)
    \/ Requests

Spec == Init /\ [][Next]_vars

(* A worker that is not blocked takes its next step, and a stopped one is  *)
(* restarted by the container platform.                                    *)
Fairness == \A w \in Workers : WF_vars(Work(w))

LiveSpec == Spec /\ Fairness

-----------------------------------------------------------------------------
SessionType ==
    [run : Runs \cup {None}, src : Source \cup {NoSource}, pointer : Versions \cup {None},
     status : RunStatus, commit : Commits \cup {None}, built : Salts \cup {None},
     art : 1..Len(Artifacts), overtaken : BOOLEAN]

TableType ==
    /\ source \in Source /\ pointer \in Versions \cup {None} /\ head \in Commits
    /\ rstatus \in [Runs -> RunStatus] /\ rstale \in [Runs -> BOOLEAN]
    /\ vstatus \in [Versions -> VersionStatus]
    /\ sums \in [Versions -> [Names -> Bytes \cup {None}]]
    /\ object \in [Versions -> [Names -> Bytes \cup {None}]]
    /\ manual \in BOOLEAN
    /\ edits \in Nat /\ crashes \in Nat /\ lost \in Nat

WorkerType ==
    /\ lock \in Workers \cup {None}
    /\ pc \in [Workers -> Syncing \cup {"down", "poll", "list", "work"}]
    /\ batch \in [Workers -> SUBSET Runs]
    /\ conn \in [Workers -> BOOLEAN]
    /\ ses \in [Workers -> SessionType]

(* Type correctness.                                                       *)
TypeOK == TableType /\ WorkerType

(* The serving pointer only ever names a version that is recorded as       *)
(* succeeded, through crashes, failures after the promotion commit and     *)
(* syncs that run concurrently.                                            *)
CurrentSucceeded == pointer # None => vstatus[pointer] = "succeeded"

(* Workers that sync in many steps, crash, retry and lose connections      *)
(* behave like a registry whose versions are promoted in single steps: a   *)
(* succeeded version keeps its status and its checksums, and the pointer   *)
(* ends up at the version a sync promoted or came back to, although an     *)
(* assignment that equals what the session loaded is not written.          *)
Succeeded == {v \in Versions : vstatus[v] = "succeeded"}

Registry == INSTANCE VersionRegistry WITH
                Checksums <- [Names -> Bytes], current <- pointer,
                promoted <- [v \in Succeeded |-> sums[v]]

ImplementsRegistry == Registry!Spec

(* No sync that can still write was overtaken: between its fetch and its   *)
(* promotion no other worker moved the pointer, so an older fetch never    *)
(* replaces a newer one.                                                   *)
NotOvertaken == \A w \in Workers : ses[w].overtaken => ~conn[w]

(* The inductive invariant behind these: only the holder of the lock can   *)
(* still write to the database, its session knows what the phase it is in  *)
(* needs, and the version it attempts is nobody else's to finish.          *)
LockInv ==
    \A w \in Workers : lock = w <=> pc[w] \in Syncing /\ conn[w]

Fetched    == Syncing \ {"claim", "fetch", "fail_run"}
Built      == {"beat_bundle", "bundle", "beat_publish", "check", "upload", "verify", "promote"}
Attempting == Fetched \ {"resolve", "close", "fail"}

SessionInv ==
    \A w \in Workers :
       /\ pc[w] \notin Syncing => ses[w] = NoSession /\ conn[w]
       /\ pc[w] \in Syncing => ses[w].run \in Runs /\ ses[w].src \in Source
       /\ pc[w] \in Fetched => ses[w].commit \in Commits
       /\ pc[w] \in {"claim", "fetch"} => ses[w].commit = None
       /\ pc[w] \in Built => ses[w].built \in Salts

AttemptInv ==
    \A w \in Workers :
       /\ pc[w] \in Attempting \cup {"fetch", "resolve"} => ses[w].status = "running"
       /\ pc[w] = "close" => ses[w].status = "succeeded"
       /\ pc[w] \in Attempting \cup {"fail"} /\ conn[w] /\ ses[w].status = "running" =>
             vstatus[Version(w)] = "running"

(* Until it writes the pointer, the holder's session knows where it is.    *)
BeforePointer == Syncing \ {"close", "fail", "fail_run"}

PointerInv ==
    \A w \in Workers : pc[w] \in BeforePointer /\ conn[w] => ses[w].pointer = pointer

SyncInv ==
    TypeOK /\ LockInv /\ SessionInv /\ AttemptInv /\ CurrentSucceeded /\ NotOvertaken

(* While connections hold, the objects of a promoted version are the ones  *)
(* its checksums record, although bundles are not reproducible and every   *)
(* attempt at a commit writes to the same keys.                            *)
PromotedIntact == \A v \in Versions : vstatus[v] = "succeeded" => object[v] = sums[v]

(* A manifest in the bucket describes what lies beside it: every artifact  *)
(* is there, from the same extraction, whatever partial attempts preceded. *)
ManifestComplete ==
    \A v \in Versions : object[v][Manifest] # None =>
       \A a \in Names \ {Manifest} : object[v][a] = <<None, object[v][Manifest][2]>>

(* Why, as an inductive invariant for connections that hold: whoever       *)
(* publishes is alone, so every artifact before the one it is at is stored *)
(* as this extraction built it, and what it uploads was not there.         *)
BeforePublish == {"claim", "fetch", "resolve", "beat_extract", "extract", "beat_bundle",
                  "bundle", "beat_publish"}

PublishInv ==
    \A w \in Workers :
       /\ conn[w]
       /\ pc[w] \in BeforePublish => ses[w].art = 1
       /\ pc[w] \in {"check", "upload", "verify"} =>
             \A i \in 1..Len(Artifacts) : i < ses[w].art =>
                object[Version(w)][Artifacts[i]] = BytesOf(w, Artifacts[i])
       /\ pc[w] = "upload" => Stored(w) = None
       /\ pc[w] = "promote" => \A a \in Names : object[Version(w)][a] = BytesOf(w, a)

(* Every queued sync request is eventually taken up.                       *)
QueuedTaken == \A r \in Runs : rstatus[r] = "queued" ~> rstatus[r] # "queued"
=============================================================================
