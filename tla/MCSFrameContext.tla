--------------------------- MODULE MCSFrameContext ---------------------------
(***************************************************************************)
(* Instances of SFrameContext for TLC.  Nothing needs a bound: with finite *)
(* constants the module has finitely many states.                          *)
(***************************************************************************)
EXTENDS SFrameContext, TLC

SFrameSymmetry ==
    Permutations(Contexts) \cup Permutations(Epochs) \cup Permutations(Secrets)
=============================================================================
