------------------------ MODULE SubmissionLifecycle ------------------------
(***************************************************************************)
(* What a reader of the API may rely on: the statuses a submission goes    *)
(* through and how they follow the one piece of work that analyses it,     *)
(* without the notification, the sweep, BullMQ or the worker's steps.      *)
(* SubmissionPipeline is shown to implement this module as long as no live *)
(* call loses its BullMQ lock.                                             *)
(***************************************************************************)
CONSTANT Submissions

VARIABLES
  status,  \* submissions.status; "none" before INSERT, "deleted" after DELETE
  work     \* the work on a submission

lifecycleVars == <<status, work>>

Statuses == {"none", "submitted", "queued", "analyzing", "review", "closed", "deleted"}
(* "pending" also between two attempts, and after a crash.                  *)
Works == {"none", "pending", "running", "done", "failed"}

Init ==
  /\ status = [s \in Submissions |-> "none"]
  /\ work = [s \in Submissions |-> "none"]

SetStatus(s, v) == status' = [status EXCEPT ![s] = v]
SetWork(s, v) == work' = [work EXCEPT ![s] = v]

Create(s) ==
  /\ status[s] = "none" /\ SetStatus(s, "submitted")
  /\ UNCHANGED work

(* The notification may be late, and then puts back a submission that was   *)
(* closed, or that is analysed already.                                     *)
Accept(s) ==
  /\ status[s] \notin {"none", "deleted"} /\ SetStatus(s, "queued")
  /\ UNCHANGED work

Close(s) ==
  /\ status[s] = "submitted" /\ SetStatus(s, "closed")
  /\ UNCHANGED work

Delete(s) ==
  /\ status[s] \notin {"none", "deleted"} /\ SetStatus(s, "deleted")
  /\ UNCHANGED work

(* Work is enlisted once in the life of a submission that was accepted.     *)
Enlist(s) ==
  /\ status[s] \notin {"none", "submitted"}
  /\ work[s] = "none" /\ SetWork(s, "pending")
  /\ UNCHANGED status

Take(s) ==
  /\ work[s] = "pending" /\ SetWork(s, "running")
  /\ UNCHANGED status

(* Only the running work analyses and concludes.                            *)
Analyze(s) ==
  /\ work[s] = "running" /\ status[s] \in {"queued", "analyzing", "review"}
  /\ SetStatus(s, "analyzing")
  /\ UNCHANGED work

Conclude(s) ==
  /\ work[s] = "running" /\ status[s] \in {"queued", "analyzing", "review"}
  /\ SetStatus(s, "review")
  /\ UNCHANGED work

(* Work that is done has left a verdict, which a late notification may      *)
(* have hidden behind 'queued'.                                             *)
Finish(s) ==
  /\ work[s] = "running" /\ status[s] \in {"review", "queued", "deleted"}
  /\ SetWork(s, "done")
  /\ UNCHANGED status

GiveUp(s) ==
  /\ work[s] \in {"pending", "running"} /\ SetWork(s, "failed")
  /\ UNCHANGED status

(* An attempt that failed, or all the work of a process that died.          *)
Release(S) ==
  /\ S # {} /\ \A s \in S : work[s] = "running"
  /\ work' = [s \in Submissions |-> IF s \in S THEN "pending" ELSE work[s]]
  /\ UNCHANGED status

Next ==
  \/ \E s \in Submissions :
       \/ Create(s) \/ Accept(s) \/ Close(s) \/ Delete(s)
       \/ Enlist(s) \/ Take(s) \/ Analyze(s) \/ Conclude(s) \/ Finish(s) \/ GiveUp(s)
  \/ \E S \in SUBSET Submissions : Release(S)

Spec == Init /\ [][Next]_lifecycleVars
============================================================================
