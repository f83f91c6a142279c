----------------------------- MODULE MCMediaPath -----------------------------
(***************************************************************************)
(* MediaPath for TLC: three objects to a group, so that an object gap fits *)
(* inside a group and behind a group gap, and numbers that wrap; a clock   *)
(* that leaves room above it for a wrapped and an outpaced group number.   *)
(***************************************************************************)
EXTENDS MediaPath
=============================================================================
