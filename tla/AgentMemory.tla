----------------------------- MODULE AgentMemory -----------------------------
(***************************************************************************)
(* The memory of one workflow's agent: session-manager/memory_sync.py, its *)
(* callers, and prune_agent_memory_versions of shared/lib/housekeeping.py. *)
(*                                                                         *)
(* layout "volume" (Docker, or a shared directory): the sessions of a      *)
(* workflow share one volume; it is restored only when empty, and backed   *)
(* up by the monitor once a session has ended.  layout "pod" (Kubernetes): *)
(* every session has a volume of its own, restored by an init container    *)
(* and uploaded by a sidecar that waits for the runtime's marker.  Memory  *)
(* is the set of sessions whose notes it holds.                            *)
(***************************************************************************)
EXTENDS Naturals, FiniteSets, Sequences

CONSTANTS
    Visits,       \* sessions of the workflow
    KeepCopies,   \* AGENT_MEMORY_VERSIONS_TO_KEEP
    MaxLosses     \* bound: volumes lost, calls that failed and sessions killed

ASSUME MemoryAssumptions == KeepCopies \in Nat \ {0} /\ MaxLosses \in Nat

VARIABLES
    layout,
    volume,     \* the shared volume (layout "volume")
    pod,        \* the volume of each session (layout "pod")
    latest,     \* latest.tar.gz
    copies,     \* the timestamped copies, oldest first
    stage,      \* a session: "new", "running", "ended", "packed", "stored", "done", "stuck"
    archive,    \* the archive a backup has read and not yet uploaded
    blanks,     \* copies stored since a restore first failed on an empty volume; 0: none did
    forgiven,   \* sessions whose notes may be missing, see MemoryKept
    losses

memVars == <<layout, volume, pod, latest, copies, stage, archive, blanks, forgiven, losses>>

MemInit ==
    /\ layout \in {"volume", "pod"}
    /\ volume = {} /\ pod = [v \in Visits |-> {}]
    /\ latest = {} /\ copies = <<>>
    /\ stage = [v \in Visits |-> "new"]
    /\ archive = [v \in Visits |-> {}]
    /\ blanks = 0 /\ forgiven = {} /\ losses = 0

Moves(v, s)   == stage' = [stage EXCEPT ![v] = s]
Loses         == losses < MaxLosses /\ losses' = losses + 1
Finished      == {v \in Visits : stage[v] = "done"}
OpenBeside(v) == {u \in Visits \ {v} : stage[u] \in {"running", "ended", "packed", "stored"}}
Packed(v)     == {u \in Visits \ {v} : stage[u] \in {"packed", "stored"}}

-----------------------------------------------------------------------------
(* restore_memory, then the spawn: a failed restore is logged and the      *)
(* session starts on what the volume holds.                                *)
Restore(v) ==
    /\ layout = "volume" /\ stage[v] = "new"
    /\ volume' = IF volume = {} THEN latest ELSE volume
    /\ Moves(v, "running")
    /\ UNCHANGED <<layout, pod, latest, copies, archive, blanks, forgiven, losses>>

RestoreFails(v) ==
    /\ layout = "volume" /\ stage[v] = "new" /\ volume = {}
    /\ Loses
    /\ Moves(v, "running")
    /\ blanks' = IF blanks = 0 /\ latest # {} THEN 1 ELSE blanks
    /\ UNCHANGED <<layout, volume, pod, latest, copies, archive, forgiven>>

(* restore_memory_to_path in the init container; when it fails the pod     *)
(* never starts.                                                           *)
RestoreToPath(v) ==
    /\ layout = "pod" /\ stage[v] = "new"
    /\ pod' = [pod EXCEPT ![v] = latest]
    /\ Moves(v, "running")
    /\ forgiven' = IF OpenBeside(v) = {} THEN forgiven ELSE forgiven \cup OpenBeside(v) \cup {v}
    /\ UNCHANGED <<layout, volume, latest, copies, archive, blanks, losses>>

InitContainerFails(v) ==
    /\ layout = "pod" /\ stage[v] = "new"
    /\ Loses
    /\ Moves(v, "stuck")
    /\ UNCHANGED <<layout, volume, pod, latest, copies, archive, blanks, forgiven>>

(* The session writes its notes and ends; in a pod it leaves the marker.   *)
Ends(v) ==
    /\ stage[v] = "running"
    /\ IF layout = "volume" THEN volume' = volume \cup {v} /\ UNCHANGED pod
       ELSE pod' = [pod EXCEPT ![v] = @ \cup {v}] /\ UNCHANGED volume
    /\ Moves(v, "ended")
    /\ UNCHANGED <<layout, latest, copies, archive, blanks, forgiven, losses>>

(* A runtime that is killed leaves no marker: its sidecar waits for ever.  *)
(* On a shared volume the monitor backs up all the same.                   *)
Killed(v) ==
    /\ layout = "pod" /\ stage[v] = "running"
    /\ Loses
    /\ Moves(v, "stuck")
    /\ UNCHANGED <<layout, volume, pod, latest, copies, archive, blanks, forgiven>>

(* Mutant: the sidecar does not wait for the marker.                       *)
Readable_Early(v) == stage[v] \in {"running", "ended"}

Readable(v) == stage[v] = "ended"

(* The volume is read into an archive.                                     *)
Pack(v) ==
    /\ Readable(v)
    /\ archive' = [archive EXCEPT ![v] = IF layout = "volume" THEN volume ELSE pod[v]]
    /\ forgiven' = IF layout = "volume" /\ Packed(v) # {} THEN forgiven \cup {v} ELSE forgiven
    /\ Moves(v, "packed")
    /\ UNCHANGED <<layout, volume, pod, latest, copies, blanks, losses>>

StoreLatest(v) ==
    /\ stage[v] = "packed"
    /\ latest' = archive[v]
    /\ Moves(v, "stored")
    /\ UNCHANGED <<layout, volume, pod, copies, archive, blanks, forgiven, losses>>

StoreCopy(v) ==
    /\ stage[v] = "stored"
    /\ copies' = Append(copies, archive[v])
    /\ blanks' = IF blanks > 0 THEN blanks + 1 ELSE 0
    /\ Moves(v, "done")
    /\ UNCHANGED <<layout, volume, pod, latest, archive, forgiven, losses>>

(* An upload fails; the exception is logged and the session counts as      *)
(* backed up.                                                              *)
StoreFails(v) ==
    /\ stage[v] \in {"packed", "stored"}
    /\ Loses
    /\ Moves(v, "done")
    /\ forgiven' = forgiven \cup {v}
    /\ UNCHANGED <<layout, volume, pod, latest, copies, archive, blanks>>

(* The host is replaced between sessions: the volume is empty again.       *)
VolumeLost ==
    /\ layout = "volume" /\ volume # {}
    /\ \A v \in Visits : stage[v] \in {"new", "done"}
    /\ Loses
    /\ volume' = {}
    /\ UNCHANGED <<layout, pod, latest, copies, stage, archive, blanks, forgiven>>

Kept == SubSeq(copies, IF Len(copies) > KeepCopies THEN Len(copies) - KeepCopies + 1 ELSE 1,
               Len(copies))

(* prune_agent_memory_versions never lists latest.tar.gz.                  *)
PruneCopies ==
    /\ Kept # copies
    /\ copies' = Kept
    /\ UNCHANGED <<layout, volume, pod, latest, stage, archive, blanks, forgiven, losses>>

MemNext ==
    \/ VolumeLost \/ PruneCopies
    \/ \E v \in Visits :
          \/ Restore(v) \/ RestoreFails(v) \/ RestoreToPath(v) \/ InitContainerFails(v)
          \/ Ends(v) \/ Killed(v) \/ Pack(v) \/ StoreLatest(v) \/ StoreCopy(v) \/ StoreFails(v)

-----------------------------------------------------------------------------
(* What a finished session noted is in latest.tar.gz, unless an upload of  *)
(* its backup failed, its pod overlapped another (the later upload wins),  *)
(* its archive was read while another waited to be uploaded, or a restore  *)
(* failed on an empty volume: the next backup then replaces latest.tar.gz, *)
(* and the notes are in a timestamped copy until KeepCopies newer ones are *)
(* stored.                                                                 *)
MemoryKept ==
    \A v \in Finished \ forgiven :
        \/ v \in latest
        \/ blanks > KeepCopies
        \/ blanks > 0 /\ \E i \in 1..Len(copies) : v \in copies[i]

-----------------------------------------------------------------------------
MemSpec == MemInit /\ [][MemNext]_memVars

(* The inductive invariants behind it. *)

MemTypeOK ==
    /\ layout \in {"volume", "pod"}
    /\ volume \in SUBSET Visits /\ pod \in [Visits -> SUBSET Visits]
    /\ latest \in SUBSET Visits /\ copies \in Seq(SUBSET Visits)
    /\ stage \in [Visits -> {"new", "running", "ended", "packed", "stored", "done", "stuck"}]
    /\ archive \in [Visits -> SUBSET Visits]
    /\ blanks \in Nat /\ forgiven \in SUBSET Visits /\ losses \in Nat

(* The sessions in one of the stages whose notes may not be missing.       *)
InStage(stages)    == {v \in Visits : stage[v] \in stages}
Notes(stages) == InStage(stages) \ forgiven
Waiting       == {"packed", "stored"}

(* A copy that KeepCopies still protects has the notes of v.               *)
Copied(v) == \E i \in 1..Len(copies) :
                v \in copies[i] /\ (i = Len(copies) \/ Len(copies) - i < blanks)

VolumeInv ==
    /\ InStage({"ended", "packed", "stored"}) \subseteq volume
    /\ \A u \in InStage(Waiting) : u \in archive[u]
    /\ blanks = 0 =>
          /\ volume # {} \/ InStage({"running"}) # {}
                => Notes({"ended", "packed", "stored", "done"}) \subseteq volume
          /\ \A u \in InStage(Waiting) : Notes({"packed", "stored", "done"}) \subseteq archive[u]
          /\ Notes({"stored", "done"}) \subseteq latest
    /\ blanks <= KeepCopies => \A v \in Notes({"done"}) : Copied(v)

PodInv ==
    /\ blanks = 0
    /\ \A v \in Notes({"running", "ended", "packed", "stored"}) : OpenBeside(v) = {}
    /\ \A u \in InStage({"running", "ended"}) :
          Notes({"done"}) \subseteq pod[u] /\ (stage[u] = "ended" => u \in pod[u])
    /\ \A u \in InStage(Waiting) : Notes({"done"}) \cup {u} \subseteq archive[u]
    /\ Notes({"stored", "done"}) \subseteq latest

MemoryInv == IF layout = "volume" THEN VolumeInv ELSE PodInv
=============================================================================
