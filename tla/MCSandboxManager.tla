-------------------------- MODULE MCSandboxManager --------------------------
(* Small instances of SandboxManager for TLC. *)
EXTENDS SandboxManager, TLC

CONSTANTS r1, r2

(* The mode whose rules depend on their order, and the closed one.          *)
TwoModes == (r1 :> "monitored") @@ (r2 :> "disabled")

ManagerSymmetry == Permutations(Instances) \cup Permutations(Destroys)
=============================================================================
