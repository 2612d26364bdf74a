--------------------------- MODULE VersionRegistry ---------------------------
(***************************************************************************)
(* What the syncs of one Knowledge Source promise to those who read its    *)
(* registry row (the serving cache, retention, the API), without workers,  *)
(* runs, locks or objects: versions are promoted once, each together with  *)
(* its checksums and the pointer, and the pointer moves to nothing else.   *)
(***************************************************************************)
CONSTANTS Versions, Checksums, None

VARIABLES
    current,    \* current_successful_version_id
    promoted    \* artifact_checksums of every succeeded version

Init == current = None /\ promoted = [v \in {} |-> None]

(* The version, its checksums and the pointer are written in one step.     *)
Promote(v, digests) ==
    /\ v \notin DOMAIN promoted
    /\ promoted' = [u \in DOMAIN promoted \cup {v} |-> IF u = v THEN digests ELSE promoted[u]]
    /\ current' = v

(* The ref came back to a commit that is already indexed.                  *)
PointBack(v) ==
    /\ v \in DOMAIN promoted
    /\ current' = v
    /\ UNCHANGED promoted

Next == \E v \in Versions : PointBack(v) \/ \E digests \in Checksums : Promote(v, digests)

Spec == Init /\ [][Next]_<<current, promoted>>
=============================================================================
