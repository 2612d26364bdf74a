--------------------------- MODULE MCAlertIntake ---------------------------
(* Instances of AlertIntake: messages a and b share a coalesce key.        *)
EXTENDS AlertIntake

CONSTANTS a, b, c, x, k1, k2

MCKeyOf == [m \in Msgs |-> IF m = c THEN k2 ELSE k1]
=============================================================================
