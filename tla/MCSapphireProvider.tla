------------------------- MODULE MCSapphireProvider -------------------------
(* Instances of SapphireProvider for TLC.  Callers are interchangeable.     *)
EXTENDS SapphireProvider, TLC

CallerSymmetry == Permutations(Callers)
=============================================================================
