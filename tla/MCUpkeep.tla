------------------------------ MODULE MCUpkeep ------------------------------
(* Instances of Housekeeping and AgentMemory: two of the units of the bank *)
(* share a document.  A pass is looked at beside one thing that moves.     *)
EXTENDS Housekeeping, AgentMemory

CONSTANTS u1, u2, u3, u4, d1

MCDocumentOf == [u \in Units |-> IF u \in {u1, u2} THEN d1 ELSE NoDocument]

PassParts == {"tasks", "source", "bank"}

Pass(p) ==
    /\ HkNext
    /\ p # "tasks"  => UNCHANGED tasksState
    /\ p # "source" => UNCHANGED sourceState
    /\ p # "bank"   => UNCHANGED units /\ \A h \in Replicas : ~PassFails(h)

(* The pass beside the indexer. *)
SourceSpec ==
    HkInit /\ MemInit /\ layout = "volume"
       /\ [][Pass("source") /\ UNCHANGED memVars]_<<hkVars, memVars>>
=============================================================================
