--------------------------- MODULE MCKnowledgeSync ---------------------------
(* Small instances of KnowledgeSync: one data artifact and the manifest.   *)
EXTENDS KnowledgeSync, TLC

MCArtifacts == <<"graph", "manifest">>

(* Workers are interchangeable, and so are the bytes two extractions give. *)
WorkerSymmetry == Permutations(Workers) \cup Permutations(Salts)
=============================================================================
