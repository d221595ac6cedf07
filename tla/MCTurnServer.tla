---------------------------- MODULE MCTurnServer ----------------------------
(* The brain's turns with two devices and blocking requests.                *)
EXTENDS TurnServer, TLC

\* Nothing tells two devices apart.
SessionSymmetry == Permutations(Sessions)
=============================================================================
