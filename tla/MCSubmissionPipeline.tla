----------------------- MODULE MCSubmissionPipeline -----------------------
(* Instances of SubmissionPipeline for TLC. *)
EXTENDS SubmissionPipeline, TLC

CONSTANTS s1, s2, w1, w2, k1

OneSub == {s1}
TwoSubs == {s1, s2}
NoSubs == {}
OneSlot == {w1}
TwoSlots == {w1, w2}
OneSweeper == {k1}

AllFaults == Faults
NoLockLoss == Faults \ {"lockLoss"}
CrashOnly == {"crash"}

(* The slots are interchangeable. *)
SlotSymmetry == Permutations(Slots)
============================================================================
