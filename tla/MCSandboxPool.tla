--------------------------- MODULE MCSandboxPool ---------------------------
(* Small instances of SandboxPool for TLC. *)
EXTENDS SandboxPool, TLC

CONSTANTS r1, r2, r3, linux, linuxBig, windows

(* Two configurations of one os and one of another; the third request      *)
(* differs from the first two in its os, or in its image only.             *)
MCOs == (linux :> "linux") @@ (linuxBig :> "linux") @@ (windows :> "windows")
TwoOs == [r \in Requests |-> IF r = r3 THEN windows ELSE linux]
TwoImages == [r \in Requests |-> IF r = r2 THEN linuxBig ELSE linux]

InstanceSymmetry == Permutations(Instances)
=============================================================================
