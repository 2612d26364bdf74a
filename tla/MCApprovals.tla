---------------------------- MODULE MCApprovals ----------------------------
(* Instances of Approvals: rows and clicks are interchangeable.            *)
EXTENDS Approvals, TLC

MCSymmetry == Permutations(Rows) \cup Permutations(Clicks) \cup Permutations(Requests)
=============================================================================
