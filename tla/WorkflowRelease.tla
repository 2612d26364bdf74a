--------------------------- MODULE WorkflowRelease ---------------------------
(***************************************************************************)
(* Workflow Repo Sync and what a launch makes of it:                       *)
(* shared/lib/workflow_repo_sync.py, workflow_paths.py,                    *)
(* workflow_bundles.py, the bundle and config half of                      *)
(* session-manager/container_lifecycle.py and the staging of               *)
(* runtime/session_entrypoint.py.                                          *)
(*                                                                         *)
(* A sync checks out a ref, builds one bundle per workflow and publishes   *)
(* them: to a bucket (a release directory, then the pointer active.json),  *)
(* or in place under runtime_bundle_root.  All syncs and every discovery   *)
(* of workflows in the gateway share one checkout.  A bundle is reduced to *)
(* the ref its files were copied from; in a directory also to the build    *)
(* that made it, since its manifest holds the time.                        *)
(***************************************************************************)
EXTENDS Naturals, FiniteSets

CONSTANTS
    Refs,           \* tags and commits of the workflow repository
    Workflows,
    Packages,       \* the workflow packages at each ref
    Refused,        \* <<ref, workflow>> whose bundle validation or version fails
    DefaultRef,     \* settings.workflow_repo_ref, NoRef when empty
    HeadRef,        \* what a clone has checked out
    NoRef,
    Syncs,          \* sync requests, by slot
    Tasks,          \* tasks to launch
    WorkflowOf,
    MaxSyncing,     \* bound: syncs at the same time
    MaxReleases,    \* bound: syncs ever started
    MaxRelFaults    \* bound: failed uploads, fetches, crashes

ASSUME ReleaseAssumptions ==
    /\ NoRef \notin Refs /\ DefaultRef \in Refs \cup {NoRef} /\ HeadRef \in Refs
    /\ Packages \in [Refs -> SUBSET Workflows]
    /\ Refused \subseteq Refs \X Workflows
    /\ WorkflowOf \in [Tasks -> Workflows]
    /\ MaxSyncing \in Nat /\ MaxReleases \in Nat /\ MaxRelFaults \in Nat
    /\ IsFiniteSet(Syncs)
    /\ \A r \in Refs, b \in (1..MaxReleases) \cup Tasks : <<r, b>> # NoRef

Rids    == 1..MaxReleases
Nothing == [w \in Workflows |-> NoRef]

VARIABLES
    target,     \* where bundles go: "bucket" or "root"
    checkout,   \* the gateway's workflow_repo_local_path
    pinned,     \* workflow_repo_state.pinned_ref
    sync,       \* each sync: where it is, its ref, commit, what is left to build
    started,    \* releases numbered so far; _release_id never repeats
    bucket,     \* per release: the config, the manifest, the bundle archives
    active,     \* releases/active.json, 0 when there is none
    dirs,       \* runtime_bundle_root: the ref and the builder of each directory
    snapshot,   \* runtime_bundle_root/platform-config.yaml
    state,      \* last_synced_ref, _commit, _status, discovered_workflows
    torn,       \* a sync died since the last one that was recorded
    launch,     \* each launch of a task
    relFaults

syncs   == <<sync, started>>
stores  == <<bucket, active, dirs, snapshot>>
relVars == <<target, checkout, pinned, syncs, stores, state, torn, launch, relFaults>>

RelFault == relFaults < MaxRelFaults /\ relFaults' = relFaults + 1
NoSync   == [at |-> "idle", ref |-> NoRef, commit |-> NoRef, rid |-> 0, todo |-> {},
             cur |-> NoRef, found |-> {}, built |-> Nothing, errors |-> FALSE]
SyncsUnderWay == {s \in Syncs : sync[s].at # "idle"}
Empty    == [config |-> NoRef, manifest |-> FALSE, ref |-> NoRef, bundles |-> Nothing,
             archives |-> Nothing, found |-> {}]
Partial  == <<NoRef, 0>>    \* a directory without its manifest, which is written last

RelInit ==
    /\ target \in {"bucket", "root"}
    /\ checkout = HeadRef /\ pinned = NoRef
    /\ sync = [s \in Syncs |-> NoSync] /\ started = 0
    /\ bucket = [r \in Rids |-> Empty] /\ active = 0
    /\ dirs = Nothing /\ snapshot = NoRef
    /\ state = [ref |-> NoRef, commit |-> NoRef, status |-> "none", found |-> {}]
    /\ torn = FALSE
    /\ launch = [t \in Tasks |-> [at |-> "new", rid |-> 0, config |-> NoRef,
                                  bundle |-> NoRef, sum |-> NoRef]]
    /\ relFaults = 0

-----------------------------------------------------------------------------
(* The sync pipeline. *)

effective_ref == IF pinned # NoRef THEN pinned ELSE DefaultRef

(* configured_workflow_roots: a remote repository is fetched and the ref   *)
(* of the settings checked out; without one the checkout stays.            *)
DefaultCheckout == IF DefaultRef # NoRef THEN DefaultRef ELSE checkout

Pin(ref) ==
    /\ ref # pinned /\ started < MaxReleases
    /\ pinned' = ref
    /\ UNCHANGED <<target, checkout, syncs, stores, state, torn, launch, relFaults>>

Trigger(s) ==
    /\ sync[s].at = "idle" /\ started < MaxReleases
    /\ Cardinality(SyncsUnderWay) < MaxSyncing
    /\ started' = started + 1
    /\ sync' = [sync EXCEPT ![s] = [NoSync EXCEPT !.at = "fetch", !.ref = effective_ref,
                                                !.rid = started + 1]]
    /\ UNCHANGED <<target, checkout, pinned, stores, state, torn, launch, relFaults>>

(* sync_workflow_repo_to_ref(effective_ref).                               *)
Fetch(s) ==
    /\ sync[s].at = "fetch"
    /\ checkout' = IF sync[s].ref # NoRef THEN sync[s].ref ELSE checkout
    /\ sync' = [sync EXCEPT ![s].at = "discover"]
    /\ UNCHANGED <<target, pinned, started, stores, state, torn, launch, relFaults>>

(* discover_workflow_packages and git_commit_for_path.                     *)
Discover(s) ==
    /\ sync[s].at = "discover"
    /\ checkout' = DefaultCheckout
    /\ sync' = [sync EXCEPT ![s].at = "build", ![s].commit = checkout',
                            ![s].todo = Packages[checkout'],
                            ![s].found = Packages[checkout']]
    /\ UNCHANGED <<target, pinned, started, stores, state, torn, launch, relFaults>>

(* build_workflow_bundle: the roots are resolved again, the directory is   *)
(* removed and filled from the layers core, team and workflow.             *)
BuildBegin(s, w) ==
    /\ sync[s].at = "build" /\ w \in sync[s].todo
    /\ checkout' = DefaultCheckout
    /\ dirs' = IF target = "root" THEN [dirs EXCEPT ![w] = Partial] ELSE dirs
    /\ sync' = [sync EXCEPT ![s].at = "fill", ![s].cur = w, ![s].todo = @ \ {w}]
    /\ UNCHANGED <<target, pinned, started, bucket, active, snapshot, state, torn,
                   launch, relFaults>>

(* The directory is removed for good when the package is gone or holds a   *)
(* plaintext secret; check_bundle_compatibility refuses one that is too    *)
(* new.                                                                    *)
Builds(w) == w \in Packages[checkout] /\ <<checkout, w>> \notin Refused

BuildEnd(s) ==
    LET w == sync[s].cur IN
    /\ sync[s].at = "fill"
    /\ dirs' = IF target # "root" THEN dirs
               ELSE [dirs EXCEPT ![w] = IF Builds(w) THEN <<checkout, sync[s].rid>> ELSE NoRef]
    /\ sync' = IF Builds(w)
               THEN [sync EXCEPT ![s].at = IF target = "bucket" THEN "upload" ELSE "build",
                                 ![s].built[w] = checkout]
               ELSE [sync EXCEPT ![s].at = "build", ![s].errors = TRUE]
    /\ UNCHANGED <<target, checkout, pinned, started, bucket, active, snapshot, state,
                   torn, launch, relFaults>>

(* upload_bundle_archive, into the release's own directory.                *)
Upload(s) ==
    LET w == sync[s].cur r == sync[s].rid IN
    /\ sync[s].at = "upload"
    /\ \/ /\ bucket' = [bucket EXCEPT ![r].archives[w] = sync[s].built[w]]
          /\ sync' = [sync EXCEPT ![s].at = "build"]
          /\ UNCHANGED relFaults
       \/ /\ RelFault
          /\ sync' = [sync EXCEPT ![s].at = "build", ![s].errors = TRUE]
          /\ UNCHANGED bucket
    /\ UNCHANGED <<target, checkout, pinned, started, active, dirs, snapshot, state, torn,
                   launch>>

Built(s) == sync[s].at = "build" /\ sync[s].todo = {}

(* A bundle that failed keeps the whole release back.                      *)
Withhold(s) ==
    /\ Built(s) /\ sync[s].errors
    /\ sync' = [sync EXCEPT ![s].at = "record"]
    /\ UNCHANGED <<target, checkout, pinned, started, stores, state, torn, launch, relFaults>>

(* Mutant: the pointer is advanced with the configuration still to come.   *)
PublishConfig_PointsFirst(s) ==
    /\ Built(s) /\ ~sync[s].errors
    /\ IF target = "root"
       THEN snapshot' = checkout /\ sync' = [sync EXCEPT ![s].at = "record"]
            /\ UNCHANGED <<bucket, active>>
       ELSE /\ bucket' = [bucket EXCEPT ![sync[s].rid].config = checkout]
            /\ active' = sync[s].rid
            /\ sync' = [sync EXCEPT ![s].at = "manifest"]
            /\ UNCHANGED snapshot
    /\ UNCHANGED <<target, checkout, pinned, started, dirs, state, torn, launch, relFaults>>

(* _publish_platform_config_snapshot: replaced in one step under the root; *)
(* in the bucket it is the first of three objects.                         *)
PublishConfig(s) ==
    /\ Built(s) /\ ~sync[s].errors
    /\ IF target = "root"
       THEN /\ snapshot' = checkout
            /\ sync' = [sync EXCEPT ![s].at = "record"]
            /\ UNCHANGED bucket
       ELSE /\ bucket' = [bucket EXCEPT ![sync[s].rid].config = checkout]
            /\ sync' = [sync EXCEPT ![s].at = "manifest"]
            /\ UNCHANGED snapshot
    /\ UNCHANGED <<target, checkout, pinned, started, active, dirs, state, torn, launch,
                   relFaults>>

PublishManifest(s) ==
    /\ sync[s].at = "manifest"
    /\ bucket' = [bucket EXCEPT ![sync[s].rid] =
                    [@ EXCEPT !.manifest = TRUE, !.ref = sync[s].ref,
                              !.bundles = sync[s].built, !.found = sync[s].found]]
    /\ sync' = [sync EXCEPT ![s].at = "pointer"]
    /\ UNCHANGED <<target, checkout, pinned, started, active, dirs, snapshot, state, torn,
                   launch, relFaults>>

PublishPointer(s) ==
    /\ sync[s].at = "pointer"
    /\ active' = sync[s].rid
    /\ sync' = [sync EXCEPT ![s].at = "record"]
    /\ UNCHANGED <<target, checkout, pinned, started, bucket, dirs, snapshot, state, torn,
                   launch, relFaults>>

(* Mutant: the errors are counted before the release is published.         *)
StepFails_Unnoticed(s) ==
    /\ sync[s].at \in {"fetch", "manifest", "pointer"} \/ Built(s)
    /\ RelFault
    /\ sync' = [sync EXCEPT ![s].at = "record"]
    /\ UNCHANGED <<target, checkout, pinned, started, stores, state, torn, launch>>

(* The fetch or an upload of the publication raises: the result is an      *)
(* error, and what was published so far stays.                             *)
StepFails(s) ==
    /\ sync[s].at \in {"fetch", "manifest", "pointer"} \/ Built(s)
    /\ RelFault
    /\ sync' = [sync EXCEPT ![s].at = "record", ![s].errors = TRUE]
    /\ UNCHANGED <<target, checkout, pinned, started, stores, state, torn, launch>>

Record(s) ==
    /\ sync[s].at = "record"
    /\ state' = [ref |-> sync[s].ref, commit |-> sync[s].commit, found |-> sync[s].found,
                 status |-> IF sync[s].errors THEN "error" ELSE "ok"]
    /\ torn' = FALSE
    /\ sync' = [sync EXCEPT ![s] = NoSync]
    /\ UNCHANGED <<target, checkout, pinned, started, stores, launch, relFaults>>

(* The gateway restarts: its syncs are gone, the row keeps what it said.   *)
SyncCrash ==
    /\ SyncsUnderWay # {} /\ RelFault
    /\ sync' = [s \in Syncs |-> NoSync]
    /\ torn' = TRUE
    /\ UNCHANGED <<target, checkout, pinned, started, stores, state, launch>>

-----------------------------------------------------------------------------
(* A launch: spawn_agent_session, then the runtime's staging. *)

LaunchAt(t, r) == launch' = [launch EXCEPT ![t] = r]
OfLaunch == <<target, checkout, pinned, syncs, bucket, active, snapshot, state, torn, relFaults>>

(* _load_active_release: pointer and manifest, once.                       *)
LoadRelease(t) ==
    /\ launch[t].at = "new"
    /\ LaunchAt(t, [launch[t] EXCEPT !.at = "config",
                      !.rid = IF active # 0 /\ bucket[active].manifest THEN active ELSE 0])
    /\ UNCHANGED <<OfLaunch, dirs>>

(* _active_platform_config_file: the release's, else the snapshot, else    *)
(* the file the session manager was deployed with.                         *)
ReadConfig(t) ==
    LET r == launch[t].rid IN
    /\ launch[t].at = "config"
    /\ LaunchAt(t, [launch[t] EXCEPT !.at = "bundle",
                      !.config = IF r # 0 THEN bucket[r].config ELSE snapshot])
    /\ UNCHANGED <<OfLaunch, dirs>>

(* Mutant: the pointer is read a second time.                              *)
ReleaseOf_Again(t) == active

ReleaseOf(t) == launch[t].rid

Offers(r, w) == r # 0 /\ bucket[r].bundles[w] # NoRef

(* _resolve_workflow_bundle: the archive of the release with the checksum  *)
(* of its manifest; else the directory under the root, built on the spot   *)
(* when it is missing, with the checksum of the manifest it has now; else  *)
(* the runtime's mounted workflow.                                         *)
ResolveBundle(t) ==
    LET r == ReleaseOf(t) w == WorkflowOf[t]
        Resolved(where, sum) ==
            LaunchAt(t, [launch[t] EXCEPT !.at = where, !.sum = sum,
                                          !.rid = IF where = "release" THEN r ELSE 0]) IN
    /\ launch[t].at = "bundle"
    /\ \/ Offers(r, w) /\ Resolved("release", bucket[r].bundles[w]) /\ UNCHANGED dirs
       \/ ~Offers(r, w) /\ target # "root" /\ Resolved("mounted", NoRef) /\ UNCHANGED dirs
       \/ /\ ~Offers(r, w) /\ target = "root" /\ dirs[w] # NoRef
          /\ Resolved("dir", IF dirs[w] = Partial THEN NoRef ELSE dirs[w])
          /\ UNCHANGED dirs
       \/ /\ ~Offers(r, w) /\ target = "root" /\ dirs[w] = NoRef
          /\ IF w \in Packages[HeadRef]
             THEN Resolved("dir", <<HeadRef, t>>) /\ dirs' = [dirs EXCEPT ![w] = <<HeadRef, t>>]
             ELSE Resolved("failed", NoRef) /\ UNCHANGED dirs
    /\ UNCHANGED OfLaunch

(* _workflow_bundle_source, in the container: the archive is downloaded, a *)
(* directory is bound as it is, and none of them leaves what is mounted.   *)
Source(t) ==
    CASE launch[t].at = "release" -> bucket[launch[t].rid].archives[WorkflowOf[t]]
      [] launch[t].at = "dir"     -> dirs[WorkflowOf[t]]
      [] OTHER                    -> NoRef

(* _verify_workflow_bundle_checksum: only of a bundle, and only when the   *)
(* launch gave a checksum.                                                 *)
Verified(t) ==
    (launch[t].sum # NoRef /\ (launch[t].at = "dir" => Source(t) # NoRef)) =>
        Source(t) = launch[t].sum

(* _prepare_workspace: the workspace is filled from the verified source.   *)
Stage(t) ==
    /\ launch[t].at \in {"release", "dir", "mounted"}
    /\ LaunchAt(t, [launch[t] EXCEPT !.at = IF Verified(t) THEN "running" ELSE "refused",
                                     !.bundle = Source(t)])
    /\ UNCHANGED <<OfLaunch, dirs>>

-----------------------------------------------------------------------------
SyncStep(s) ==
    \/ Trigger(s) \/ Fetch(s) \/ Discover(s)
    \/ \E w \in Workflows : BuildBegin(s, w)
    \/ BuildEnd(s) \/ Upload(s) \/ Withhold(s)
    \/ PublishConfig(s) \/ PublishManifest(s) \/ PublishPointer(s)
    \/ StepFails(s) \/ Record(s)

RelNext ==
    \/ \E ref \in Refs : Pin(ref)
    \/ \E s \in Syncs : SyncStep(s)
    \/ SyncCrash
    \/ \E t \in Tasks : LoadRelease(t) \/ ReadConfig(t) \/ ResolveBundle(t) \/ Stage(t)

RelSpec == RelInit /\ [][RelNext]_relVars

-----------------------------------------------------------------------------
(* "Publish a complete release before advancing the active release         *)
(* pointer": what active.json names has its manifest, its configuration,   *)
(* and the very archive of every workflow that was discovered.             *)
ActiveComplete ==
    active # 0 =>
        LET r == bucket[active] IN
        /\ r.manifest /\ r.config # NoRef
        /\ \A w \in r.found : r.bundles[w] # NoRef /\ r.archives[w] = r.bundles[w]

(* A task that was launched from a release runs the bundle and the         *)
(* configuration of one release, also when a sync activates another one    *)
(* between the two reads; and none runs another build than the one its     *)
(* launch resolved to, although directories are rebuilt in place (a        *)
(* directory that was removed meanwhile leaves the workspace without one). *)
RunsUniform(t) ==
    launch[t].at = "running" =>
        /\ launch[t].rid # 0 =>
             /\ launch[t].config = bucket[launch[t].rid].config
             /\ launch[t].bundle = bucket[launch[t].rid].bundles[WorkflowOf[t]]
        /\ launch[t].sum # NoRef => launch[t].bundle \in {launch[t].sum, NoRef}

LaunchUniform == \A t \in Tasks : RunsUniform(t)

(* "Fetch the source at the effective ref (pinned ref if set, else the     *)
(* bootstrap WORKFLOW_REPO_REF)": the bundles and the configuration of the *)
(* active release are those of the ref it was synced to.                   *)
RefHonoured ==
    active # 0 /\ bucket[active].ref # NoRef =>
        /\ bucket[active].config \in {NoRef, bucket[active].ref}
        /\ \A w \in bucket[active].found : bucket[active].bundles[w] = bucket[active].ref

(* When no sync is at work and none was cut off since, a recorded success  *)
(* means that a launch finds every discovered workflow, and the            *)
(* configuration, at the recorded commit.                                  *)
OkIsPublished ==
    SyncsUnderWay = {} /\ ~torn /\ state.status = "ok" =>
        IF target = "bucket"
        THEN /\ active # 0 /\ bucket[active].config = state.commit
             /\ \A w \in state.found : bucket[active].archives[w] = state.commit
        ELSE /\ snapshot = state.commit
             /\ \A w \in state.found : dirs[w] # NoRef /\ dirs[w][1] = state.commit

-----------------------------------------------------------------------------
(* The inductive invariant behind them. *)

RefOrNone   == Refs \cup {NoRef}
Directories == {NoRef, Partial} \cup (Refs \X (Rids \cup Tasks))
SyncRecord  == [at : {"idle", "fetch", "discover", "build", "fill", "upload", "manifest",
                      "pointer", "record"},
                ref : RefOrNone, commit : RefOrNone, rid : 0..MaxReleases,
                todo : SUBSET Workflows, cur : Workflows \cup {NoRef},
                found : SUBSET Workflows, built : [Workflows -> RefOrNone],
                errors : BOOLEAN]
Release     == [config : RefOrNone, manifest : BOOLEAN, ref : RefOrNone,
                bundles : [Workflows -> RefOrNone], archives : [Workflows -> RefOrNone],
                found : SUBSET Workflows]
LaunchRecord == [at : {"new", "config", "bundle", "release", "dir", "mounted", "failed",
                       "running", "refused"},
                 rid : 0..MaxReleases, config : RefOrNone,
                 bundle : RefOrNone \cup Directories, sum : RefOrNone \cup Directories]

RelTypeOK ==
    /\ target \in {"bucket", "root"} /\ checkout \in Refs /\ pinned \in RefOrNone
    /\ sync \in [Syncs -> SyncRecord] /\ started \in 0..MaxReleases
    /\ bucket \in [Rids -> Release] /\ active \in 0..MaxReleases
    /\ dirs \in [Workflows -> Directories] /\ snapshot \in RefOrNone
    /\ state \in [ref : RefOrNone, commit : RefOrNone, status : {"none", "ok", "error"},
                  found : SUBSET Workflows]
    /\ torn \in BOOLEAN
    /\ launch \in [Tasks -> LaunchRecord]
    /\ relFaults \in Nat

(* A release directory belongs to one sync.                                *)
RidInv ==
    /\ \A s \in Syncs : IF sync[s].at = "idle" THEN sync[s].rid = 0
                         ELSE sync[s].rid \in 1..started
    /\ \A s, z \in Syncs : sync[s].rid = sync[z].rid /\ sync[s].rid # 0 => s = z

(* What a sync still has to build, or has in its hands.                    *)
StillOut(s) == sync[s].todo \cup (IF sync[s].at \in {"fill", "upload"} THEN {sync[s].cur} ELSE {})

(* The archive of a workflow is in the release, and is what was built.     *)
Shipped(s, w) ==
    sync[s].built[w] # NoRef /\ bucket[sync[s].rid].archives[w] = sync[s].built[w]

Pipeline(s) ==
    /\ sync[s].at = "fill" => sync[s].cur \in Workflows
    /\ sync[s].at = "upload" =>
          target = "bucket" /\ sync[s].cur \in Workflows /\ sync[s].built[sync[s].cur] # NoRef
    /\ sync[s].at \in {"build", "fill", "upload"} /\ target = "bucket" /\ ~sync[s].errors =>
          \A w \in sync[s].found \ StillOut(s) : Shipped(s, w)
    /\ sync[s].at \in {"manifest", "pointer"} =>
          /\ bucket[sync[s].rid].config # NoRef
          /\ \A w \in sync[s].found : Shipped(s, w)
    /\ sync[s].at = "pointer" =>
          /\ bucket[sync[s].rid].manifest
          /\ bucket[sync[s].rid].bundles = sync[s].built
          /\ bucket[sync[s].rid].found = sync[s].found

PipelineInv == \A s \in Syncs : Pipeline(s)

(* Nobody writes into a release that is, or was, named by the pointer.     *)
Frozen(r) == r \in 1..started /\ \A s \in Syncs : sync[s].rid = r => sync[s].at = "record"

FrozenInv ==
    /\ active # 0 => Frozen(active)
    /\ \A t \in Tasks : launch[t].rid # 0 => Frozen(launch[t].rid)

OneRelease(t) ==
    /\ launch[t].rid # 0 /\ launch[t].at \notin {"new", "config"} =>
          launch[t].config = bucket[launch[t].rid].config
    /\ launch[t].at = "release" =>
          /\ launch[t].rid # 0 /\ launch[t].sum # NoRef
          /\ launch[t].sum = bucket[launch[t].rid].bundles[WorkflowOf[t]]
    /\ launch[t].at \in {"dir", "mounted"} => launch[t].rid = 0

LaunchInv == \A t \in Tasks : OneRelease(t)

ReleaseInv ==
    RelTypeOK /\ RidInv /\ PipelineInv /\ FrozenInv /\ LaunchInv /\ ActiveComplete /\ LaunchUniform

(* With one sync at a time nobody moves the checkout under it.             *)
AloneInv ==
    /\ \A s, z \in SyncsUnderWay : s = z
    /\ \A s \in Syncs :
          sync[s].at \in {"build", "fill", "upload", "manifest", "pointer"} =>
              sync[s].commit = checkout /\ DefaultCheckout = checkout

(* Every workflow of the set, and the configuration, as a launch finds     *)
(* them at the commit.                                                     *)
HasBuilt(s, w) ==
    IF target = "bucket" THEN sync[s].built[w] = sync[s].commit
    ELSE dirs[w] # NoRef /\ dirs[w][1] = sync[s].commit

Offered(commit, found) ==
    IF target = "bucket"
    THEN /\ active # 0 /\ bucket[active].config = commit
         /\ \A w \in found : bucket[active].archives[w] = commit
    ELSE /\ snapshot = commit
         /\ \A w \in found : dirs[w] # NoRef /\ dirs[w][1] = commit

Progress(s) ==
    /\ sync[s].at = "upload" => sync[s].built[sync[s].cur] = sync[s].commit
    /\ sync[s].at \in {"build", "fill", "upload"} /\ ~sync[s].errors =>
          \A w \in sync[s].found \ StillOut(s) : HasBuilt(s, w)
    /\ sync[s].at \in {"manifest", "pointer"} =>
          /\ target = "bucket" /\ bucket[sync[s].rid].config = sync[s].commit
          /\ \A w \in sync[s].found : HasBuilt(s, w)
    /\ sync[s].at = "record" /\ ~sync[s].errors => Offered(sync[s].commit, sync[s].found)

ProgressInv == \A s \in Syncs : Progress(s)

SingleInv == ReleaseInv /\ AloneInv /\ ProgressInv /\ OkIsPublished
=============================================================================
