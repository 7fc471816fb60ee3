--------------------------- MODULE MCEcmClassify ---------------------------
(* EcmClassify for TLC: CPUs and MARK instances are interchangeable.       *)
EXTENDS EcmClassify, TLC

Symmetry == Permutations(Cpu) \cup Permutations(Inst)
=============================================================================
