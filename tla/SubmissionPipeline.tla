------------------------ MODULE SubmissionPipeline ------------------------
(***************************************************************************)
(* The life of a submission, from the API gateway's INSERT to the          *)
(* orchestrator's verdict: the create and delete handlers of               *)
(* submissionService.ts, the pub/sub notification, the orchestrator's      *)
(* message handler and recovery sweep (orchestrator/src/index.ts), the     *)
(* BullMQ intake job (queue.ts), the worker (workers/analysisWorker.ts)    *)
(* and the analysis workflow (workflows/submissionWorkflow.ts).            *)
(*                                                                         *)
(* Every await on PostgreSQL, Redis or an analysis service separates two   *)
(* actions.  What the services compute is abstracted: a step of the        *)
(* workflow either ends or throws, and the score is only "hot" (an alert   *)
(* is due) or not.  BullMQ, PostgreSQL and Redis are external: they are    *)
(* modelled by what src/ relies on.                                        *)
(***************************************************************************)
EXTENDS Integers, Sequences, FiniteSets

CONSTANTS
  Submissions,   \* rows of the submissions table that may be created
  Containers,    \* the submissions created with analysisWorkflow = "container"
  Slots,         \* concurrent processJob calls of the worker (WORKER_CONCURRENCY)
  Sweepers,      \* overlapping calls of recoverStuckSubmissions
  MaxAttempts,   \* WORKER_MAX_RETRIES, the "attempts" of a BullMQ job
  FaultKinds,    \* which faults may happen
  MaxFaults,     \* bound on how many of them happen
  None           \* no submission, no slot

Faults == {"crash", "lockLoss", "error", "apiError", "expiry", "delete"}

ASSUME PipelineAssumption ==
  /\ None \notin Submissions \cup Slots
  /\ IsFiniteSet(Slots)
  /\ Containers \subseteq Submissions
  /\ MaxAttempts \in Nat \ {0}
  /\ FaultKinds \subseteq Faults
  /\ MaxFaults \in Nat

VARIABLES
  status,    \* submissions.status in PostgreSQL; "none" before INSERT, "deleted" after DELETE
  file,      \* the Redis key scanboy:file:<id> exists
  aged,      \* the row is older than the sweep's 15 seconds
  api,       \* where the API's create handler is, per submission
  mode,      \* the orchestrator process: "up", "draining" (SIGTERM) or "down"
  handler,   \* where handleNewSubmission is, per submission
  sweep,     \* where each recoverStuckSubmissions call is
  job,       \* the BullMQ job intake-<id>
  run,       \* what each slot of the worker executes
  orphan,    \* a row of analysis_jobs is 'running' and the call that inserted it is gone
  alerts,    \* how often dispatchAlerts went out for a submission
  faults     \* how many faults have happened

vars == <<status, file, aged, api, mode, handler, sweep, job, run, orphan, alerts, faults>>
front == <<status, file, aged, api>>
back == <<sweep, job, run, orphan, alerts>>

Statuses == {"none", "submitted", "queued", "analyzing", "review", "closed", "deleted"}
Workflows == {"default", "container"}
IdleSweep == [pc |-> "idle", rows |-> {}, cur |-> None]
NoJob == [state |-> "none", attempts |-> 0, stalls |-> 0, wf |-> "default", lock |-> None]
IdleRun == [sub |-> None, pc |-> "idle", step |-> 1, wf |-> "default", row |-> "none"]

(* The steps of a workflow in the order the code takes them, and those     *)
(* that insert a row of analysis_jobs (executeStep); the detection call of *)
(* the default workflow is inline and has no row.                          *)
StepsOf(wf) ==
  IF wf = "container" THEN <<"dynamic">>
  ELSE <<"hash", "threatIntel", "static", "yara", "dynamic", "detection", "scoring", "report">>

(* The steps before which the workflow sets the status to 'analyzing' again. *)
Reannounced == {"static", "dynamic", "detection", "scoring"}

StepAt(r) == StepsOf(r.wf)[r.step]

Init ==
  /\ status = [s \in Submissions |-> "none"]
  /\ file = [s \in Submissions |-> FALSE]
  /\ aged = [s \in Submissions |-> FALSE]
  /\ api = [s \in Submissions |-> "idle"]
  /\ mode = "up"
  /\ handler = [s \in Submissions |-> "idle"]
  /\ sweep = [k \in Sweepers |-> IdleSweep]
  /\ job = [s \in Submissions |-> NoJob]
  /\ run = [w \in Slots |-> IdleRun]
  /\ orphan = [s \in Submissions |-> FALSE]
  /\ alerts = [s \in Submissions |-> 0]
  /\ faults = 0

Fault(kind) == kind \in FaultKinds /\ faults < MaxFaults /\ faults' = faults + 1

(* UPDATE submissions SET status = v WHERE id = s: no effect once the row is gone. *)
SetStatus(s, v) ==
  status' = IF status[s] = "deleted" THEN status ELSE [status EXCEPT ![s] = v]

(* UPDATE submissions SET status = v WHERE id = s AND status = 'submitted'. *)
SetStatusIfSubmitted(s, v) ==
  status' = IF status[s] = "submitted" THEN [status EXCEPT ![s] = v] ELSE status

----------------------------------------------------------------------------
(* The API gateway: SubmissionService.create and SubmissionService.delete. *)

ApiInsert(s) ==
  /\ api[s] = "idle"
  /\ api' = [api EXCEPT ![s] = "store"]
  /\ status' = [status EXCEPT ![s] = "submitted"]
  /\ UNCHANGED <<file, aged, mode, handler, back, faults>>

ApiStoreFile(s) ==
  /\ api[s] = "store"
  /\ api' = [api EXCEPT ![s] = "publish"]
  /\ file' = [file EXCEPT ![s] = TRUE]
  /\ UNCHANGED <<status, aged, mode, handler, back, faults>>

(* Redis pub/sub keeps nothing: a message nobody subscribes to is lost. *)
ApiPublish(s) ==
  /\ api[s] = "publish"
  /\ api' = [api EXCEPT ![s] = "done"]
  /\ handler' = IF mode = "up" THEN [handler EXCEPT ![s] = "update"] ELSE handler
  /\ UNCHANGED <<status, file, aged, mode, back, faults>>

(* setex or publish throws, or the gateway dies: the row stays behind. *)
ApiFail(s) ==
  /\ api[s] \in {"store", "publish"}
  /\ Fault("apiError")
  /\ api' = [api EXCEPT ![s] = "done"]
  /\ UNCHANGED <<status, file, aged, mode, handler, back>>

(* DELETE cascades to the rows of analysis_jobs; the key and the job stay. *)
ApiDelete(s) ==
  /\ status[s] \notin {"none", "deleted"}
  /\ Fault("delete")
  /\ status' = [status EXCEPT ![s] = "deleted"]
  /\ orphan' = [orphan EXCEPT ![s] = FALSE]
  /\ run' = [w \in Slots |-> IF run[w].sub = s THEN [run[w] EXCEPT !.row = "none"] ELSE run[w]]
  /\ UNCHANGED <<file, aged, api, mode, handler, sweep, job, alerts>>

(* Time: the row passes the sweep's age limit; the key passes its hour. *)
Age(s) ==
  /\ status[s] = "submitted" /\ ~aged[s]
  /\ aged' = [aged EXCEPT ![s] = TRUE]
  /\ UNCHANGED <<status, file, api, mode, handler, back, faults>>

ExpireFile(s) ==
  /\ file[s]
  /\ Fault("expiry")
  /\ file' = [file EXCEPT ![s] = FALSE]
  /\ UNCHANGED <<status, aged, api, mode, handler, back>>

----------------------------------------------------------------------------
(* The orchestrator's two ways to a job: the message handler and the sweep. *)

Requested(s) == IF s \in Containers THEN "container" ELSE "default"

(* A plausible error: every call adds a job of its own. *)
EnqueueNoJobId(s, wf) ==
  job' = [job EXCEPT ![s] = [NoJob EXCEPT !.state = "wait", !.wf = wf]]

(* queue.add with jobId intake-<id>: an id BullMQ already holds is a no-op. *)
EnqueueSubmissionIntake(s, wf) ==
  job' = IF job[s].state # "none" THEN job
         ELSE [job EXCEPT ![s] = [NoJob EXCEPT !.state = "wait", !.wf = wf]]

(* A plausible error: the job is added before the row is marked. *)
HandlerUpdateSkipped(s) ==
  /\ handler[s] = "update"
  /\ handler' = [handler EXCEPT ![s] = "enqueue"]
  /\ UNCHANGED <<front, mode, back, faults>>

HandlerUpdate(s) ==
  /\ handler[s] = "update"
  /\ handler' = [handler EXCEPT ![s] = "enqueue"]
  /\ SetStatus(s, "queued")
  /\ UNCHANGED <<file, aged, api, mode, back, faults>>

HandlerEnqueue(s) ==
  /\ handler[s] = "enqueue"
  /\ handler' = [handler EXCEPT ![s] = "idle"]
  /\ EnqueueSubmissionIntake(s, Requested(s))
  /\ UNCHANGED <<front, mode, sweep, run, orphan, alerts, faults>>

(* The catch of the handler only logs. *)
HandlerFail(s) ==
  /\ handler[s] # "idle"
  /\ Fault("error")
  /\ handler' = [handler EXCEPT ![s] = "idle"]
  /\ UNCHANGED <<front, mode, back>>

Stuck == {s \in Submissions : status[s] = "submitted" /\ aged[s]}

SweepGoto(k, pc, rows, cur) ==
  sweep' = [sweep EXCEPT ![k] = IF pc = "next" /\ rows = {} THEN IdleSweep
                                ELSE [pc |-> pc, rows |-> rows, cur |-> cur]]

(* The SELECT at startup and every 5 minutes; the timer is cleared on SIGTERM. *)
SweepSelect(k) ==
  /\ mode = "up" /\ sweep[k].pc = "idle" /\ Stuck # {}
  /\ SweepGoto(k, "next", Stuck, None)
  /\ UNCHANGED <<front, mode, handler, job, run, orphan, alerts, faults>>

(* A plausible error: a row without a file is only skipped. *)
SweepExistsSkips(k) ==
  /\ sweep[k].pc = "next"
  /\ \E s \in sweep[k].rows :
       SweepGoto(k, IF file[s] THEN "mark" ELSE "next", sweep[k].rows \ {s}, s)
  /\ UNCHANGED <<front, mode, handler, job, run, orphan, alerts, faults>>

SweepExists(k) ==
  /\ sweep[k].pc = "next"
  /\ \E s \in sweep[k].rows :
       SweepGoto(k, IF file[s] THEN "mark" ELSE "close", sweep[k].rows \ {s}, s)
  /\ UNCHANGED <<front, mode, handler, job, run, orphan, alerts, faults>>

(* A plausible error: the UPDATE loses its AND status = 'submitted'. *)
SweepCloseAnyStatus(k) ==
  /\ sweep[k].pc = "close"
  /\ SetStatus(sweep[k].cur, "closed")
  /\ SweepGoto(k, "next", sweep[k].rows, None)
  /\ UNCHANGED <<file, aged, api, mode, handler, job, run, orphan, alerts, faults>>

SweepClose(k) ==
  /\ sweep[k].pc = "close"
  /\ SetStatusIfSubmitted(sweep[k].cur, "closed")
  /\ SweepGoto(k, "next", sweep[k].rows, None)
  /\ UNCHANGED <<file, aged, api, mode, handler, job, run, orphan, alerts, faults>>

SweepMark(k) ==
  /\ sweep[k].pc = "mark"
  /\ SetStatusIfSubmitted(sweep[k].cur, "queued")
  /\ SweepGoto(k, "enqueue", sweep[k].rows, sweep[k].cur)
  /\ UNCHANGED <<file, aged, api, mode, handler, job, run, orphan, alerts, faults>>

(* The job data of a recovered submission carry no options. *)
SweepEnqueue(k) ==
  /\ sweep[k].pc = "enqueue"
  /\ EnqueueSubmissionIntake(sweep[k].cur, "default")
  /\ SweepGoto(k, "next", sweep[k].rows, None)
  /\ UNCHANGED <<front, mode, handler, run, orphan, alerts, faults>>

(* An error while marking or enqueuing skips the row; any other ends the sweep. *)
SweepFail(k) ==
  /\ sweep[k].pc # "idle"
  /\ Fault("error")
  /\ IF sweep[k].pc \in {"mark", "enqueue"}
     THEN SweepGoto(k, "next", sweep[k].rows, None)
     ELSE sweep' = [sweep EXCEPT ![k] = IdleSweep]
  /\ UNCHANGED <<front, mode, handler, job, run, orphan, alerts>>

----------------------------------------------------------------------------
(* BullMQ: delivery, backoff, stalls.  A job whose lock nobody renews is    *)
(* found by the stall check of a live worker, put back once (its default    *)
(* maxStalledCount) and failed the second time, without any processor       *)
(* being called.                                                            *)

Holder(w) == LET s == run[w].sub IN s # None /\ job[s].lock = w

TakeJob(w) ==
  /\ mode = "up" /\ run[w].pc = "idle"
  /\ \E s \in Submissions :
       /\ job[s].state = "wait"
       /\ job' = [job EXCEPT ![s].state = "active", ![s].lock = w]
       /\ run' = [run EXCEPT ![w] = [IdleRun EXCEPT !.sub = s, !.pc = "begin", !.wf = job[s].wf]]
  /\ UNCHANGED <<front, mode, handler, sweep, orphan, alerts, faults>>

BackoffOver(s) ==
  /\ job[s].state = "delayed"
  /\ job' = [job EXCEPT ![s].state = "wait"]
  /\ UNCHANGED <<front, mode, handler, sweep, run, orphan, alerts, faults>>

Stalled(s) ==
  /\ mode = "up"
  /\ job[s].state = "active" /\ job[s].lock = None
  /\ job' = [job EXCEPT ![s].state = IF job[s].stalls = 0 THEN "wait" ELSE "failed",
                        ![s].stalls = @ + 1]
  /\ UNCHANGED <<front, mode, handler, sweep, run, orphan, alerts, faults>>

(* The lock of a live call expires: a blocked event loop, Redis out of reach. *)
LoseLock(w) ==
  /\ Holder(w)
  /\ Fault("lockLoss")
  /\ job' = [job EXCEPT ![run[w].sub].lock = None]
  /\ UNCHANGED <<front, mode, handler, sweep, run, orphan, alerts>>

----------------------------------------------------------------------------
(* processJob and runSubmissionWorkflow, in one slot of the worker.         *)

GotoPc(w, pc) == run' = [run EXCEPT ![w].pc = pc]

(* markJobRunning finds no row (nothing inserts a 'pending' one); then the  *)
(* workflow's first UPDATE.                                                 *)
RunBegin(w) ==
  /\ run[w].pc = "begin"
  /\ SetStatus(run[w].sub, "analyzing")
  /\ GotoPc(w, "step")
  /\ UNCHANGED <<file, aged, api, mode, handler, sweep, job, orphan, alerts, faults>>

(* The status written before the step, and executeStep's INSERT: the        *)
(* foreign key makes it throw when the submission has been deleted.         *)
StepStart(w) ==
  LET r == run[w] IN
  /\ r.pc = "step"
  /\ IF r.wf = "default" /\ StepAt(r) \in Reannounced
     THEN SetStatus(r.sub, "analyzing") ELSE UNCHANGED status
  /\ run' = [run EXCEPT ![w] =
       IF StepAt(r) = "detection" THEN [r EXCEPT !.pc = "call"]
       ELSE IF status[r.sub] = "deleted" THEN [r EXCEPT !.pc = "fail"]
       ELSE [r EXCEPT !.pc = "call", !.row = "running"]]
  /\ UNCHANGED <<file, aged, api, mode, handler, sweep, job, orphan, alerts, faults>>

(* Plausible errors: no timeout on the call of a service that finds no     *)
(* file, and one step too many.                                            *)
StepEndNoTimeout(w) ==
  LET r == run[w] IN
  /\ r.pc = "call" /\ file[r.sub]
  /\ run' = [run EXCEPT ![w] =
       IF r.step < Len(StepsOf(r.wf))
       THEN [r EXCEPT !.pc = "step", !.row = "none", !.step = @ + 1]
       ELSE [r EXCEPT !.pc = "review", !.row = "none"]]
  /\ UNCHANGED <<front, mode, handler, sweep, job, orphan, alerts, faults>>

StepEndOverrun(w) ==
  LET r == run[w] IN
  /\ r.pc = "call"
  /\ run' = [run EXCEPT ![w] = [r EXCEPT !.pc = "step", !.row = "none", !.step = @ + 1]]
  /\ UNCHANGED <<front, mode, handler, sweep, job, orphan, alerts, faults>>

(* The step ends: its row becomes 'completed', or 'failed' by the step's    *)
(* own catch, whatever it was; a service that is down, answers an error or  *)
(* finds no file ends the step the same way.                                *)
StepEnd(w) ==
  LET r == run[w] IN
  /\ r.pc = "call"
  /\ run' = [run EXCEPT ![w] =
       IF r.step < Len(StepsOf(r.wf))
       THEN [r EXCEPT !.pc = "step", !.row = "none", !.step = @ + 1]
       ELSE [r EXCEPT !.pc = "review", !.row = "none"]]
  /\ UNCHANGED <<front, mode, handler, sweep, job, orphan, alerts, faults>>

(* The last write: status = 'review' with the score.  The container         *)
(* workflow ends there; the default one alerts on a hot score.              *)
RunReview(w) ==
  /\ run[w].pc \in {"review", "rescue"}
  /\ SetStatus(run[w].sub, "review")
  /\ \E hot \in BOOLEAN : GotoPc(w, IF hot /\ run[w].wf = "default" THEN "alert" ELSE "finish")
  /\ UNCHANGED <<file, aged, api, mode, handler, sweep, job, orphan, alerts, faults>>

(* A plausible error: after the alert the call goes back and scores again. *)
RunAlertAgain(w) ==
  LET s == run[w].sub IN
  /\ run[w].pc = "alert"
  /\ alerts' = IF status[s] = "deleted" THEN alerts ELSE [alerts EXCEPT ![s] = @ + 1]
  /\ GotoPc(w, "review")
  /\ UNCHANGED <<front, mode, handler, sweep, job, orphan, faults>>

(* dispatchAlerts: nothing for a deleted row; its errors are swallowed. *)
RunAlert(w) ==
  LET s == run[w].sub IN
  /\ run[w].pc = "alert"
  /\ alerts' = IF status[s] = "deleted" THEN alerts ELSE [alerts EXCEPT ![s] = @ + 1]
  /\ GotoPc(w, "finish")
  /\ UNCHANGED <<front, mode, handler, sweep, job, orphan, faults>>

RunAlertFail(w) ==
  /\ run[w].pc = "alert"
  /\ Fault("error")
  /\ GotoPc(w, "finish")
  /\ UNCHANGED <<front, mode, handler, sweep, job, orphan, alerts>>

(* PostgreSQL or Redis fails under an await: the exception reaches the     *)
(* workflow's catch, whose UPDATE to 'failed' is not in the enum           *)
(* submission_status and throws in its turn, so status stays as it is.     *)
(* The container workflow catches once and writes 'review' again; the      *)
(* detection call swallows its errors; the first report of progress is     *)
(* outside the try of processJob.                                          *)
RunError(w) ==
  LET r == run[w] IN
  /\ r.pc \in {"begin", "step", "call", "review", "rescue", "finish"}
  /\ ~(r.pc = "call" /\ StepAt(r) = "detection")
  /\ Fault("error")
  /\ \/ r.pc = "begin" /\ GotoPc(w, "rethrow")
     \/ r.pc = "review" /\ r.wf = "container" /\ GotoPc(w, "rescue")
     \/ ~(r.pc = "review" /\ r.wf = "container") /\ GotoPc(w, "fail")
  /\ UNCHANGED <<front, mode, handler, sweep, job, orphan, alerts>>

(* markJobFailed: every 'running' row of the submission, whoever inserted it. *)
RunMarkFailed(w) ==
  LET s == run[w].sub IN
  /\ run[w].pc = "fail"
  /\ run' = [v \in Slots |->
       IF v = w THEN [run[v] EXCEPT !.pc = "rethrow", !.row = "none"]
       ELSE IF run[v].sub = s /\ run[v].row = "running" THEN [run[v] EXCEPT !.row = "failed"]
       ELSE run[v]]
  /\ orphan' = [orphan EXCEPT ![s] = FALSE]
  /\ UNCHANGED <<front, mode, handler, sweep, job, alerts, faults>>

(* markJobFailed fails too, and its catch logs: the rows keep 'running'. *)
RunMarkFailedFails(w) ==
  /\ run[w].pc = "fail"
  /\ Fault("error")
  /\ run' = [run EXCEPT ![w].pc = "rethrow", ![w].row = "none"]
  /\ orphan' = [orphan EXCEPT ![run[w].sub] = @ \/ run[w].row = "running"]
  /\ UNCHANGED <<front, mode, handler, sweep, job, alerts>>

(* BullMQ takes the result only from the holder of the lock. *)
RunComplete(w) ==
  LET s == run[w].sub IN
  /\ run[w].pc = "finish"
  /\ job' = IF job[s].lock # w THEN job
            ELSE [job EXCEPT ![s].state = "completed", ![s].lock = None]
  /\ run' = [run EXCEPT ![w] = IdleRun]
  /\ UNCHANGED <<front, mode, handler, sweep, orphan, alerts, faults>>

RunRethrow(w) ==
  LET s == run[w].sub IN
  /\ run[w].pc = "rethrow"
  /\ job' = IF job[s].lock # w THEN job
            ELSE [job EXCEPT ![s].lock = None, ![s].attempts = @ + 1,
                             ![s].state = IF job[s].attempts + 1 < MaxAttempts
                                          THEN "delayed" ELSE "failed"]
  /\ run' = [run EXCEPT ![w] = IdleRun]
  /\ UNCHANGED <<front, mode, handler, sweep, orphan, alerts, faults>>

----------------------------------------------------------------------------
(* The orchestrator process. *)

(* SIGTERM: unsubscribe, stop the sweep's timer, let running jobs finish. *)
Drain ==
  /\ mode = "up"
  /\ Fault("crash")
  /\ mode' = "draining"
  /\ UNCHANGED <<front, handler, back>>

(* Exit after draining or its 30 s timeout, or a crash: every call in      *)
(* flight is gone, and so are the locks once they expire.                  *)
Exit ==
  /\ mode' = "down"
  /\ handler' = [s \in Submissions |-> "idle"]
  /\ sweep' = [k \in Sweepers |-> IdleSweep]
  /\ run' = [w \in Slots |-> IdleRun]
  /\ orphan' = [s \in Submissions |-> orphan[s] \/ \E w \in Slots :
                                        run[w].sub = s /\ run[w].row = "running"]
  /\ job' = [s \in Submissions |-> [job[s] EXCEPT !.lock = None]]
  /\ UNCHANGED <<front, alerts>>

Crash == mode = "up" /\ Fault("crash") /\ Exit

Exited == mode = "draining" /\ Exit /\ UNCHANGED faults

(* restart: unless-stopped. *)
Restart ==
  /\ mode = "down"
  /\ mode' = "up"
  /\ UNCHANGED <<front, handler, back, faults>>

----------------------------------------------------------------------------
Api(s) == ApiInsert(s) \/ ApiStoreFile(s) \/ ApiPublish(s)
HandlerStep(s) == HandlerUpdate(s) \/ HandlerEnqueue(s)
SweepStep(k) == SweepSelect(k) \/ SweepExists(k) \/ SweepClose(k) \/ SweepMark(k) \/ SweepEnqueue(k)
RunStep(w) ==
  \/ RunBegin(w) \/ StepStart(w) \/ StepEnd(w) \/ RunReview(w) \/ RunAlert(w)
  \/ RunMarkFailed(w) \/ RunComplete(w) \/ RunRethrow(w)
RunFault(w) == RunError(w) \/ RunAlertFail(w) \/ RunMarkFailedFails(w)

Next ==
  \/ \E s \in Submissions :
       \/ Api(s) \/ ApiFail(s) \/ ApiDelete(s) \/ Age(s) \/ ExpireFile(s)
       \/ HandlerStep(s) \/ HandlerFail(s) \/ BackoffOver(s) \/ Stalled(s)
  \/ \E k \in Sweepers : SweepStep(k) \/ SweepFail(k)
  \/ \E w \in Slots : TakeJob(w) \/ LoseLock(w) \/ RunStep(w) \/ RunFault(w)
  \/ Drain \/ Crash \/ Exited \/ Restart

Spec == Init /\ [][Next]_vars

(* Awaits are answered, timers fire, and the container is restarted; no     *)
(* fairness for the API's users (ApiInsert, ApiDelete) or for any fault.    *)
Fairness ==
  /\ \A s \in Submissions :
       /\ WF_vars(ApiStoreFile(s) \/ ApiPublish(s)) /\ WF_vars(Age(s))
       /\ WF_vars(HandlerStep(s)) /\ WF_vars(BackoffOver(s)) /\ WF_vars(Stalled(s))
  /\ \A k \in Sweepers : WF_vars(SweepStep(k))
  /\ \A w \in Slots : WF_vars(TakeJob(w)) /\ WF_vars(RunStep(w))
  /\ WF_vars(Exited) /\ WF_vars(Restart)

FairSpec == Spec /\ Fairness

----------------------------------------------------------------------------
(* Properties. *)

ApiPcs == {"idle", "store", "publish", "done"}
Modes == {"up", "draining", "down"}
HandlerPcs == {"idle", "update", "enqueue"}
SweepPcs == {"idle", "next", "close", "mark", "enqueue"}
JobStates == {"none", "wait", "active", "delayed", "completed", "failed"}
RunPcs == {"idle", "begin", "step", "call", "review", "rescue", "alert", "finish", "fail", "rethrow"}

SweepType == [pc : SweepPcs, rows : SUBSET Submissions, cur : Submissions \cup {None}]
JobType == [state : JobStates, attempts : Nat, stalls : Nat, wf : Workflows,
            lock : Slots \cup {None}]
RunType == [sub : Submissions \cup {None}, pc : RunPcs, step : 1..8, wf : Workflows,
            row : {"none", "running", "failed"}]

BusySweeps == \A k \in Sweepers : sweep[k].pc \notin {"idle", "next"} => sweep[k].cur # None
BusySlots ==
  \A w \in Slots : /\ run[w].pc = "idle" <=> run[w].sub = None
                   /\ run[w].step \in 1..Len(StepsOf(run[w].wf))

(* The types of all state, and who is busy with what: a slot or a sweep at  *)
(* work has a submission, a step that is being executed exists in its       *)
(* workflow.                                                                *)
TypeOK ==
  /\ status \in [Submissions -> Statuses]
  /\ file \in [Submissions -> BOOLEAN]
  /\ aged \in [Submissions -> BOOLEAN]
  /\ api \in [Submissions -> ApiPcs]
  /\ mode \in Modes
  /\ handler \in [Submissions -> HandlerPcs]
  /\ sweep \in [Sweepers -> SweepType]
  /\ BusySweeps
  /\ job \in [Submissions -> JobType]
  /\ run \in [Slots -> RunType]
  /\ BusySlots
  /\ orphan \in [Submissions -> BOOLEAN]
  /\ alerts \in [Submissions -> Nat]
  /\ faults \in 0..MaxFaults

(* Unless a live call loses its BullMQ lock, two slots of the worker never  *)
(* work on the same submission: the notification, the sweep after a missed  *)
(* one, a retry and the redelivery after a crash all share one job.         *)
SingleRun ==
  \A v, w \in Slots : v # w /\ run[v].sub # None => run[v].sub # run[w].sub

(* While one sweep runs at a time, a submission shown as 'closed' (its file *)
(* was gone when the sweep looked) has no job and is not about to get one   *)
(* without being marked 'queued' again, although the sweep's EXISTS and its *)
(* UPDATE are apart and the notification may arrive between them.           *)
ClosedHasNoWork ==
  \A s \in Submissions :
    status[s] = "closed" => /\ job[s].state = "none"
                            /\ handler[s] # "enqueue"
                            /\ \A k \in Sweepers : sweep[k].cur = s => sweep[k].pc = "close"

(* A job BullMQ has taken as completed left a verdict: the submission is in *)
(* 'review', or a late notification has put it back to 'queued', or it was  *)
(* deleted; no slower writer leaves it 'submitted', 'closed' or 'analyzing'.*)
CompletedIsSettled ==
  \A s \in Submissions :
    job[s].state = "completed" => status[s] \in {"review", "queued", "deleted"}

(* dispatchAlerts goes out at most once per delivery of the job: the alerts *)
(* never outnumber the attempts that failed, the stalls, and the delivery   *)
(* that is active or has completed.                                         *)
AlertsPerDelivery ==
  \A s \in Submissions :
    alerts[s] <= job[s].attempts + job[s].stalls
                 + IF job[s].state \in {"active", "completed"} THEN 1 ELSE 0

(* The work of SubmissionLifecycle is the BullMQ job: running while a slot  *)
(* holds its lock, pending while it waits, backs off or has stalled.        *)
WorkOn(s) ==
  CASE job[s].state = "none" -> "none"
    [] job[s].state = "completed" -> "done"
    [] job[s].state = "failed" -> "failed"
    [] job[s].state = "active" /\ job[s].lock # None -> "running"
    [] OTHER -> "pending"

Lifecycle == INSTANCE SubmissionLifecycle WITH work <- [s \in Submissions |-> WorkOn(s)]

(* The moves of submissions.status a reader of the API can see: nothing     *)
(* returns to 'submitted', only 'submitted' becomes 'closed', nothing is    *)
(* analysed or concluded except by the one call that holds the job, and a   *)
(* job is added once, for a submission that has left 'submitted'.           *)
FollowsLifecycle == Lifecycle!Spec

(* A row the API has inserted does not stay 'submitted', whatever the API,  *)
(* the notification and the orchestrator's crashes do: the sweep finds it.  *)
SubmittedIsPickedUp ==
  \A s \in Submissions : status[s] = "submitted" ~> status[s] # "submitted"

(* Every job ends: retries, backoff, stalls and restarts come to an end in  *)
(* 'completed' or 'failed', and no lock keeps a job 'active' for ever.      *)
JobSettles ==
  \A s \in Submissions :
    job[s].state # "none" ~> job[s].state \in {"completed", "failed"}

(* index.ts calls the sweep a "Periodic sweep: catch orphaned submissions": *)
(* a submission marked 'queued' without a job gets one.                     *)
OrphanIsCaught ==
  \A s \in Submissions :
    (status[s] = "queued" /\ job[s].state = "none")
      ~> (status[s] # "queued" \/ job[s].state # "none")

(* analysisWorker.ts says the failure is persisted "so the API can surface  *)
(* it": a submission whose job has failed for good is not 'analyzing'.      *)
FailureSurfaces ==
  \A s \in Submissions : job[s].state = "failed" => status[s] # "analyzing"

(* processJob "Marks the DB job as failed on unrecoverable errors": once    *)
(* the job has failed for good, no row of analysis_jobs stays 'running'     *)
(* behind a call that is gone.                                              *)
FailedLeavesNoRunningRow ==
  \A s \in Submissions : job[s].state = "failed" => ~orphan[s]

(* FEATURES.md: container images are "routed to dedicated container         *)
(* analysis workflow": the job of a container submission carries it.        *)
ContainerIsRouted ==
  \A s \in Containers : job[s].state # "none" => job[s].wf = "container"
============================================================================
