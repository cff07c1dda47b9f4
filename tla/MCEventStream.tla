---------------------------- MODULE MCEventStream ----------------------------
(* Small instances of EventStream.                                         *)
EXTENDS EventStream, TLC

Symmetry == Permutations(Emitters)
=============================================================================
