---------------------------- MODULE MCDetonation ----------------------------
(* An instance of Detonation for TLC: two requests. *)
EXTENDS Detonation
=============================================================================
