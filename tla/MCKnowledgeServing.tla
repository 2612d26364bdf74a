-------------------------- MODULE MCKnowledgeServing --------------------------
(* Two sources, each with an alias of its own; a3 is free.                 *)
EXTENDS KnowledgeServing, TLC

CONSTANTS s1, s2, a1, a2, a3

MCFirstAlias == [s \in Sources |-> IF s = s1 THEN a1 ELSE a2]
=============================================================================
