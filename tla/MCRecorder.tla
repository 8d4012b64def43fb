----------------------------- MODULE MCRecorder -----------------------------
(* Instances of Recorder for TLC. *)
EXTENDS Recorder, TLC

CONSTANTS r1, r2, r3, l1, l2

Symmetry == Permutations(Recorders) \cup Permutations(Loops)
=============================================================================
