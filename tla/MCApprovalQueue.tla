-------------------------- MODULE MCApprovalQueue --------------------------
(* The approval queue with two overlapping callers and one orphaned tool.   *)
EXTENDS ApprovalQueue, TLC

\* Callers are interchangeable: they differ only in the item they await.
CallerSymmetry == Permutations(Callers)
=============================================================================
