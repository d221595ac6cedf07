--------------------------- MODULE MCConfirmGate ---------------------------
(* The confirmation gate with three gated calls.                            *)
EXTENDS ConfirmGate, TLC

\* Nothing tells one gated call from another.
ActionSymmetry == Permutations(Actions)
=============================================================================
