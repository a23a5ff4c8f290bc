----------------------------- MODULE MCPlcClient -----------------------------
(* PlcClient on small instances: the axes are interchangeable. *)
EXTENDS PlcClient, TLC

CONSTANTS slide, gimbal
MCAxes == {slide, gimbal}
MCNone == {}
MCSymmetry == Permutations(MCAxes)
=============================================================================
