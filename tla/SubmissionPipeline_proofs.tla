--------------------- MODULE SubmissionPipeline_proofs ---------------------
(* Theorems about SubmissionPipeline for any number of submissions, slots,  *)
(* sweeps, attempts and faults.                                             *)
EXTENDS SubmissionPipeline, FiniteSetTheorems, TLAPS

(* How many steps a workflow has. *)
LEMMA StepCount == /\ Len(StepsOf("default")) = 8 /\ Len(StepsOf("container")) = 1
                   /\ \A wf \in Workflows : Len(StepsOf(wf)) \in 1..8
  BY DEF StepsOf, Workflows

LEMMA StepUp ==
  ASSUME NEW n \in 1..8, NEW m \in 1..8, n < m
  PROVE  n + 1 \in 1..8 /\ n + 1 \in 1..m
  OBVIOUS

(* The part of TypeOK about the slots of the worker. *)
RunsOK == run \in [Slots -> RunType] /\ BusySlots

Rows == {"none", "running", "failed"}

(* A later state x of the call that r is. *)
Later(r, x) ==
  /\ x \in RunType /\ x.pc # "idle" /\ x.sub = r.sub /\ x.wf = r.wf
  /\ x.step \in 1..Len(StepsOf(r.wf))

LEMMA RunFields ==
  ASSUME TypeOK, NEW w \in Slots
  PROVE  /\ run[w] \in RunType /\ run[w].pc \in RunPcs /\ run[w].row \in Rows
         /\ run[w].wf \in Workflows /\ run[w].step \in 1..8
         /\ run[w].step \in 1..Len(StepsOf(run[w].wf)) /\ Len(StepsOf(run[w].wf)) \in 1..8
         /\ run[w].pc = "idle" <=> run[w].sub = None
         /\ run[w].pc # "idle" => run[w].sub \in Submissions /\ run[w].sub # None
<1>1. run[w] \in RunType
  BY DEF TypeOK
<1>2. /\ run[w].sub \in Submissions \cup {None} /\ run[w].pc \in RunPcs
      /\ run[w].step \in 1..8 /\ run[w].wf \in Workflows /\ run[w].row \in Rows
  BY <1>1 DEF RunType, Rows
<1>3. /\ run[w].step \in 1..Len(StepsOf(run[w].wf))
      /\ run[w].pc = "idle" <=> run[w].sub = None
  BY DEF TypeOK, BusySlots
<1>4. Len(StepsOf(run[w].wf)) \in 1..8
  BY <1>2, StepCount
<1> QED
  BY <1>1, <1>2, <1>3, <1>4

LEMMA RunUpdates ==
  ASSUME NEW r \in RunType, NEW pc \in RunPcs \ {"idle"}, NEW row \in Rows,
         NEW n \in 1..8, n \in 1..Len(StepsOf(r.wf)), r.step \in 1..Len(StepsOf(r.wf))
  PROVE  /\ Later(r, [r EXCEPT !.pc = pc])
         /\ Later(r, [r EXCEPT !.pc = pc, !.row = row])
         /\ Later(r, [r EXCEPT !.pc = pc, !.row = row, !.step = n])
  BY DEF Later, RunType, Rows

LEMMA SlotReplaced ==
  ASSUME TypeOK, NEW w \in Slots, NEW x \in RunType, run' = [run EXCEPT ![w] = x],
         x.pc = "idle" <=> x.sub = None, x.step \in 1..Len(StepsOf(x.wf))
  PROVE  RunsOK'
<1>1. run' \in [Slots -> RunType]
  BY DEF TypeOK
<1>2. ASSUME NEW v \in Slots PROVE /\ run'[v].pc = "idle" <=> run'[v].sub = None
                                   /\ run'[v].step \in 1..Len(StepsOf(run'[v].wf))
  <2>1. CASE v = w
    BY <2>1 DEF TypeOK
  <2>2. CASE v # w
    <3>1. run'[v] = run[v]
      BY <2>2 DEF TypeOK
    <3> QED
      BY <3>1 DEF TypeOK, BusySlots
  <2> QED
    BY <2>1, <2>2
<1> QED
  BY <1>1, <1>2 DEF RunsOK, BusySlots

(* What a slot holds after one of its calls has gone on. *)
LEMMA RunChange ==
  ASSUME TypeOK, NEW w \in Slots, run[w].pc # "idle", NEW x, Later(run[w], x),
         run' = [run EXCEPT ![w] = x]
  PROVE  RunsOK'
<1>1. x \in RunType /\ x.pc # "idle" /\ x.sub # None /\ x.step \in 1..Len(StepsOf(x.wf))
  BY RunFields DEF Later
<1> QED
  BY <1>1, SlotReplaced

(* Three steps change more of a call than where it is. *)
LEMMA CallGoesOn ==
  ASSUME TypeOK, NEW w \in Slots, StepStart(w) \/ StepEnd(w) \/ RunMarkFailedFails(w)
  PROVE  /\ run[w].pc # "idle"
         /\ \E x : run' = [run EXCEPT ![w] = x] /\ Later(run[w], x)
<1> DEFINE r == run[w]
<1>0. r.pc # "idle"
  BY DEF StepStart, StepEnd, RunMarkFailedFails
<1>1. /\ r \in RunType /\ r.step \in 1..8 /\ r.step \in 1..Len(StepsOf(r.wf))
      /\ Len(StepsOf(r.wf)) \in 1..8
  BY RunFields
<1>2. CASE StepStart(w)
  <2>1. /\ Later(r, [r EXCEPT !.pc = "call"]) /\ Later(r, [r EXCEPT !.pc = "fail"])
        /\ Later(r, [r EXCEPT !.pc = "call", !.row = "running"])
    BY <1>1, RunUpdates DEF RunPcs, Rows
  <2> QED
    BY <1>0, <1>2, <2>1 DEF StepStart
<1>3. CASE StepEnd(w)
  <2>1. CASE r.step < Len(StepsOf(r.wf))
    <3>1. r.step + 1 \in 1..8 /\ r.step + 1 \in 1..Len(StepsOf(r.wf))
      BY <1>1, <2>1, StepUp
    <3>2. Later(r, [r EXCEPT !.pc = "step", !.row = "none", !.step = r.step + 1])
      BY <1>1, <3>1, RunUpdates DEF RunPcs, Rows
    <3> QED
      BY <1>0, <1>3, <2>1, <3>2 DEF StepEnd
  <2>2. CASE ~(r.step < Len(StepsOf(r.wf)))
    <3>1. Later(r, [r EXCEPT !.pc = "review", !.row = "none"])
      BY <1>1, RunUpdates DEF RunPcs, Rows
    <3> QED
      BY <1>0, <1>3, <2>2, <3>1 DEF StepEnd
  <2> QED
    BY <2>1, <2>2
<1>4. CASE RunMarkFailedFails(w)
  <2>1. run' = [run EXCEPT ![w] = [r EXCEPT !.pc = "rethrow", !.row = "none"]]
    BY <1>4 DEF RunMarkFailedFails, TypeOK
  <2>2. Later(r, [r EXCEPT !.pc = "rethrow", !.row = "none"])
    BY <1>1, RunUpdates DEF RunPcs, Rows
  <2> QED
    BY <1>0, <2>1, <2>2
<1> QED
  BY <1>2, <1>3, <1>4

LEMMA GotoRuns ==
  ASSUME TypeOK, NEW w \in Slots, run[w].pc # "idle", NEW pc \in RunPcs \ {"idle"}, GotoPc(w, pc)
  PROVE  RunsOK'
<1>1. run' = [run EXCEPT ![w] = [run[w] EXCEPT !.pc = pc]]
  BY DEF GotoPc, TypeOK
<1>2. Later(run[w], [run[w] EXCEPT !.pc = pc])
  BY RunFields, RunUpdates DEF Rows
<1> QED
  BY <1>1, <1>2, RunChange

(* What BullMQ or a call of the worker may write into a job. *)
LEMMA JobUpdates ==
  ASSUME NEW j \in JobType, NEW x \in JobStates, NEW l \in Slots \cup {None}, NEW n \in Nat
  PROVE  /\ [j EXCEPT !.lock = l] \in JobType
         /\ [j EXCEPT !.state = x] \in JobType
         /\ [j EXCEPT !.state = x, !.lock = l] \in JobType
         /\ [j EXCEPT !.state = x, !.stalls = n] \in JobType
         /\ [j EXCEPT !.lock = l, !.attempts = n, !.state = x] \in JobType
         /\ j.stalls + 1 \in Nat /\ j.attempts + 1 \in Nat
<1>1. j.stalls \in Nat /\ j.attempts \in Nat
  BY DEF JobType
<1>2. j.stalls + 1 \in Nat /\ j.attempts + 1 \in Nat
  BY <1>1
<1> QED
  BY <1>2 DEF JobType

LEMMA IdleRunType == /\ IdleRun \in RunType /\ IdleRun.pc = "idle" /\ IdleRun.sub = None
                     /\ IdleRun.step \in 1..Len(StepsOf(IdleRun.wf))
  BY StepCount DEF IdleRun, RunType, RunPcs, Workflows

LEMMA InitType == Init => TypeOK
<1> SUFFICES ASSUME Init PROVE TypeOK
  OBVIOUS
<1>1. /\ status \in [Submissions -> Statuses] /\ api \in [Submissions -> ApiPcs]
      /\ handler \in [Submissions -> HandlerPcs] /\ mode \in Modes
  BY DEF Init, Statuses, ApiPcs, HandlerPcs, Modes
<1>2. /\ sweep \in [Sweepers -> SweepType]
      /\ \A k \in Sweepers : sweep[k].pc = "idle"
  BY DEF Init, IdleSweep, SweepType, SweepPcs
<1>3. job \in [Submissions -> JobType]
  BY DEF Init, NoJob, JobType, JobStates, Workflows
<1>4. /\ run \in [Slots -> RunType]
      /\ \A w \in Slots : run[w].pc = "idle" /\ run[w].sub = None
                          /\ run[w].step \in 1..Len(StepsOf(run[w].wf))
  BY IdleRunType DEF Init
<1> QED
  BY <1>1, <1>2, <1>3, <1>4, PipelineAssumption DEF Init, TypeOK, BusySweeps, BusySlots

LEMMA SetStatusType ==
  ASSUME TypeOK, NEW s \in Submissions, NEW v \in Statuses,
         SetStatus(s, v) \/ SetStatusIfSubmitted(s, v)
  PROVE  status' \in [Submissions -> Statuses]
  BY DEF TypeOK, SetStatus, SetStatusIfSubmitted

LEMMA FaultType == ASSUME TypeOK, NEW kind, Fault(kind) PROVE faults' \in 0..MaxFaults
  BY PipelineAssumption DEF TypeOK, Fault

LEMMA EnqueueType ==
  ASSUME TypeOK, NEW s \in Submissions, NEW wf \in Workflows, EnqueueSubmissionIntake(s, wf)
  PROVE  job' \in [Submissions -> JobType]
  BY DEF TypeOK, EnqueueSubmissionIntake, NoJob, JobType, JobStates

LEMMA GotoType ==
  ASSUME TypeOK, NEW k \in Sweepers, NEW pc \in SweepPcs, NEW rows \in SUBSET Submissions,
         NEW cur \in Submissions \cup {None}, SweepGoto(k, pc, rows, cur),
         pc \notin {"idle", "next"} => cur # None
  PROVE  sweep' \in [Sweepers -> SweepType] /\ BusySweeps'
<1>1. PICK e \in SweepType : /\ sweep' = [sweep EXCEPT ![k] = e]
                             /\ e.pc \notin {"idle", "next"} => e.cur # None
  <2>1. IdleSweep \in SweepType /\ IdleSweep.pc = "idle"
    BY DEF SweepType, IdleSweep, SweepPcs
  <2>2. [pc |-> pc, rows |-> rows, cur |-> cur] \in SweepType
    BY DEF SweepType
  <2>3. CASE pc = "next" /\ rows = {}
    BY <2>1, <2>3 DEF SweepGoto
  <2>4. CASE ~(pc = "next" /\ rows = {})
    BY <2>2, <2>4 DEF SweepGoto
  <2> QED
    BY <2>3, <2>4
<1> QED
  BY <1>1 DEF TypeOK, BusySweeps

(* The steps of the API and of the message handler. *)
LEMMA SubmissionStepType ==
  ASSUME TypeOK, NEW s \in Submissions,
         \/ Api(s) \/ ApiFail(s) \/ ApiDelete(s) \/ Age(s) \/ ExpireFile(s)
         \/ HandlerStep(s) \/ HandlerFail(s) \/ BackoffOver(s) \/ Stalled(s)
  PROVE  TypeOK'
<1> USE DEF front, back
<1>1. CASE Api(s)
  BY <1>1 DEF TypeOK, Api, ApiInsert, ApiStoreFile, ApiPublish, ApiPcs, Statuses, HandlerPcs, BusySlots, BusySweeps
<1>2. CASE ApiFail(s) \/ ExpireFile(s) \/ HandlerFail(s)
  BY <1>2, FaultType DEF TypeOK, ApiFail, ExpireFile, HandlerFail, ApiPcs, HandlerPcs, BusySlots, BusySweeps
<1>3. CASE ApiDelete(s)
  <2>1. run' \in [Slots -> RunType]
    <3>1. \A w \in Slots : run[w] \in RunType /\ [run[w] EXCEPT !.row = "none"] \in RunType
      BY DEF TypeOK, RunType
    <3> QED
      BY <1>3, <3>1 DEF ApiDelete
  <2>2. \A w \in Slots : /\ run'[w].pc = run[w].pc /\ run'[w].sub = run[w].sub
                         /\ run'[w].step = run[w].step /\ run'[w].wf = run[w].wf
    BY <1>3 DEF ApiDelete, TypeOK, RunType
  <2> QED
    BY <1>3, <2>1, <2>2, FaultType DEF ApiDelete, TypeOK, Statuses, BusySlots, BusySweeps
<1>4. CASE Age(s)
  BY <1>4 DEF TypeOK, Age, BusySlots, BusySweeps
<1>5. CASE HandlerUpdate(s)
  BY <1>5, SetStatusType DEF TypeOK, HandlerUpdate, HandlerPcs, Statuses, BusySlots, BusySweeps
<1>6. CASE HandlerEnqueue(s)
  BY <1>6, EnqueueType DEF TypeOK, HandlerEnqueue, HandlerPcs, Requested, Workflows, BusySlots, BusySweeps
<1>7. CASE BackoffOver(s) \/ Stalled(s)
  <2>1. job' \in [Submissions -> JobType]
    <3>1. CASE BackoffOver(s)
      <4>1. job' = [job EXCEPT ![s] = [job[s] EXCEPT !.state = "wait"]]
        BY <3>1 DEF BackoffOver, TypeOK
      <4> QED
        BY <4>1, JobUpdates DEF TypeOK, JobStates
    <3>2. CASE Stalled(s)
      <4>1. PICK x \in {"wait", "failed"} :
              job' = [job EXCEPT ![s] = [job[s] EXCEPT !.state = x, !.stalls = job[s].stalls + 1]]
        BY <3>2 DEF Stalled, TypeOK
      <4>2. [job[s] EXCEPT !.state = x, !.stalls = job[s].stalls + 1] \in JobType
        BY JobUpdates DEF TypeOK, JobStates
      <4> QED
        BY <4>1, <4>2 DEF TypeOK
    <3> QED
      BY <1>7, <3>1, <3>2
  <2> QED
    BY <1>7, <2>1 DEF BackoffOver, Stalled, TypeOK, BusySlots, BusySweeps
<1> QED
  BY <1>1, <1>2, <1>3, <1>4, <1>5, <1>6, <1>7 DEF HandlerStep

(* The steps of a sweep. *)
LEMMA SweepStepType ==
  ASSUME TypeOK, NEW k \in Sweepers, SweepStep(k) \/ SweepFail(k)
  PROVE  TypeOK'
<1> USE PipelineAssumption DEF front, back
<1>0. /\ sweep[k] \in SweepType
      /\ sweep[k].pc \in {"close", "mark", "enqueue"} => sweep[k].cur \in Submissions
  BY DEF TypeOK, SweepType, BusySlots, BusySweeps
<1>1. CASE SweepSelect(k)
  BY <1>1, GotoType DEF TypeOK, SweepSelect, Stuck, SweepPcs, BusySlots, BusySweeps
<1>2. CASE SweepExists(k)
  <2>1. PICK s \in sweep[k].rows :
          SweepGoto(k, IF file[s] THEN "mark" ELSE "close", sweep[k].rows \ {s}, s)
    BY <1>2 DEF SweepExists
  <2>2. s \in Submissions /\ s # None
    BY <1>0 DEF SweepType
  <2> QED
    BY <1>0, <1>2, <2>1, <2>2, GotoType DEF TypeOK, SweepExists, SweepPcs, SweepType, BusySlots, BusySweeps
<1>3. CASE SweepClose(k)
  BY <1>0, <1>3, GotoType, SetStatusType DEF TypeOK, SweepClose, SweepPcs, SweepType, Statuses, BusySlots, BusySweeps
<1>4. CASE SweepMark(k)
  BY <1>0, <1>4, GotoType, SetStatusType DEF TypeOK, SweepMark, SweepPcs, SweepType, Statuses, BusySlots, BusySweeps
<1>5. CASE SweepEnqueue(k)
  BY <1>0, <1>5, GotoType, EnqueueType DEF TypeOK, SweepEnqueue, SweepPcs, SweepType, Workflows, BusySlots, BusySweeps
<1>6. CASE SweepFail(k)
  <2>1. CASE sweep[k].pc \in {"mark", "enqueue"}
    BY <1>0, <1>6, <2>1, GotoType, FaultType DEF TypeOK, SweepFail, SweepPcs, SweepType, BusySlots, BusySweeps
  <2>2. CASE sweep' = [sweep EXCEPT ![k] = IdleSweep]
    BY <1>6, <2>2, FaultType DEF TypeOK, SweepFail, SweepType, SweepPcs, IdleSweep, BusySlots, BusySweeps
  <2> QED
    BY <1>6, <2>1, <2>2 DEF SweepFail
<1> QED
  BY <1>1, <1>2, <1>3, <1>4, <1>5, <1>6 DEF SweepStep
(* The steps of a slot of the worker. *)
LEMMA SlotStepType ==
  ASSUME TypeOK, NEW w \in Slots, TakeJob(w) \/ LoseLock(w) \/ RunStep(w) \/ RunFault(w)
  PROVE  TypeOK'
<1> USE DEF front, back
<1> DEFINE r == run[w]
<1>1. CASE TakeJob(w)
  <2>1. PICK s \in Submissions :
          /\ job' = [job EXCEPT ![s] = [job[s] EXCEPT !.state = "active", !.lock = w]]
          /\ run' = [run EXCEPT ![w] = [IdleRun EXCEPT !.sub = s, !.pc = "begin", !.wf = job[s].wf]]
    <3>1. PICK s \in Submissions :
            /\ job' = [job EXCEPT ![s].state = "active", ![s].lock = w]
            /\ run' = [run EXCEPT ![w] = [IdleRun EXCEPT !.sub = s, !.pc = "begin", !.wf = job[s].wf]]
      BY <1>1 DEF TakeJob
    <3>2. job' = [job EXCEPT ![s] = [job[s] EXCEPT !.state = "active", !.lock = w]]
      BY <3>1 DEF TypeOK
    <3> QED
      BY <3>1, <3>2
  <2>2. job' \in [Submissions -> JobType]
    BY <2>1, JobUpdates DEF TypeOK, JobStates
  <2>3. job[s].wf \in Workflows
    BY DEF TypeOK, JobType
  <2> DEFINE x == [IdleRun EXCEPT !.sub = s, !.pc = "begin", !.wf = job[s].wf]
  <2>4. x \in RunType /\ x.pc = "begin" /\ x.sub = s /\ x.step = 1 /\ x.wf \in Workflows
    <3>1. IdleRun \in RunType /\ IdleRun.step = 1
      BY IdleRunType DEF IdleRun
    <3> QED
      BY <2>3, <3>1 DEF RunType, RunPcs
  <2>5. x.step \in 1..Len(StepsOf(x.wf)) /\ x.sub # None
    <3>1. Len(StepsOf(x.wf)) \in 1..8
      BY <2>4, StepCount
    <3>2. \A n \in 1..8 : 1 \in 1..n
      OBVIOUS
    <3>3. s # None
      BY PipelineAssumption
    <3> HIDE DEF x
    <3> QED
      BY <2>4, <3>1, <3>2, <3>3
  <2> HIDE DEF x
  <2>6. run' = [run EXCEPT ![w] = x]
    BY <2>1 DEF x
  <2>7. RunsOK'
    BY <2>4, <2>5, <2>6, SlotReplaced
  <2> QED
    BY <1>1, <2>2, <2>7 DEF TakeJob, TypeOK, RunsOK, BusySlots, BusySweeps
<1>2. CASE LoseLock(w)
  <2>1. job' = [job EXCEPT ![r.sub] = [job[r.sub] EXCEPT !.lock = None]] /\ r.sub \in Submissions
    BY <1>2, RunFields DEF LoseLock, Holder, TypeOK
  <2>2. job' \in [Submissions -> JobType]
    BY <2>1, JobUpdates DEF TypeOK, JobStates
  <2> QED
    BY <1>2, <2>2, FaultType DEF LoseLock, TypeOK, BusySlots, BusySweeps
<1>3. CASE RunBegin(w)
  <2>1. RunsOK'
    BY <1>3, GotoRuns DEF RunBegin, RunPcs
  <2>2. status' \in [Submissions -> Statuses]
    BY <1>3, RunFields, SetStatusType DEF RunBegin, Statuses
  <2> QED
    BY <1>3, <2>1, <2>2 DEF RunBegin, TypeOK, RunsOK, BusySlots, BusySweeps
<1>4. CASE StepStart(w)
  <2>1. RunsOK'
    BY <1>4, CallGoesOn, RunChange
  <2>2. status' \in [Submissions -> Statuses]
    BY <1>4, CallGoesOn, RunFields, SetStatusType DEF StepStart, TypeOK, Statuses
  <2> QED
    BY <1>4, <2>1, <2>2 DEF StepStart, TypeOK, RunsOK, BusySlots, BusySweeps
<1>5. CASE StepEnd(w)
  <2>1. RunsOK'
    BY <1>5, CallGoesOn, RunChange
  <2> QED
    BY <1>5, <2>1 DEF StepEnd, TypeOK, RunsOK, BusySlots, BusySweeps
<1>6. CASE RunReview(w)
  <2>1. RunsOK'
    BY <1>6, GotoRuns DEF RunReview, RunPcs
  <2>2. status' \in [Submissions -> Statuses]
    BY <1>6, RunFields, SetStatusType DEF RunReview, Statuses
  <2> QED
    BY <1>6, <2>1, <2>2 DEF RunReview, TypeOK, RunsOK, BusySlots, BusySweeps
<1>7. CASE RunAlert(w)
  <2>1. RunsOK'
    BY <1>7, GotoRuns DEF RunAlert, RunPcs
  <2>2. alerts' \in [Submissions -> Nat]
    <3>1. \A t \in Submissions : alerts[t] + 1 \in Nat
      BY DEF TypeOK
    <3> QED
      BY <1>7, <3>1 DEF RunAlert, TypeOK
  <2> QED
    BY <1>7, <2>1, <2>2 DEF RunAlert, TypeOK, RunsOK, BusySlots, BusySweeps
<1>8. CASE RunAlertFail(w) \/ RunError(w)
  <2>1. RunsOK'
    BY <1>8, GotoRuns DEF RunAlertFail, RunError, RunPcs
  <2> QED
    BY <1>8, <2>1, FaultType DEF RunAlertFail, RunError, TypeOK, RunsOK, BusySlots, BusySweeps
<1>9. CASE RunMarkFailed(w)
  <2>1. ASSUME NEW v \in Slots
        PROVE  /\ run'[v] \in RunType /\ run'[v].sub = run[v].sub
               /\ run'[v].step = run[v].step /\ run'[v].wf = run[v].wf
               /\ run'[v].pc = IF v = w THEN "rethrow" ELSE run[v].pc
    BY <1>9 DEF RunMarkFailed, TypeOK, RunType, RunPcs
  <2>2. run' \in [Slots -> RunType]
    BY <1>9, <2>1 DEF RunMarkFailed
  <2>3. ASSUME NEW v \in Slots PROVE /\ run'[v].pc = "idle" <=> run'[v].sub = None
                                     /\ run'[v].step \in 1..Len(StepsOf(run'[v].wf))
    <3>1. run[w].pc # "idle"
      BY <1>9 DEF RunMarkFailed
    <3> QED
      BY <2>1, <3>1 DEF TypeOK, BusySlots
  <2>4. RunsOK'
    BY <2>2, <2>3 DEF RunsOK, BusySlots
  <2>5. orphan' \in [Submissions -> BOOLEAN]
    BY <1>9 DEF RunMarkFailed, TypeOK
  <2> QED
    BY <1>9, <2>4, <2>5 DEF RunMarkFailed, TypeOK, RunsOK, BusySlots, BusySweeps
<1>10. CASE RunMarkFailedFails(w)
  <2>1. RunsOK'
    BY <1>10, CallGoesOn, RunChange
  <2>2. orphan' \in [Submissions -> BOOLEAN]
    BY <1>10 DEF RunMarkFailedFails, TypeOK
  <2> QED
    BY <1>10, <2>1, <2>2, FaultType DEF RunMarkFailedFails, TypeOK, RunsOK, BusySlots, BusySweeps
<1>11. CASE RunComplete(w) \/ RunRethrow(w)
  <2>1. r.sub \in Submissions /\ job[r.sub] \in JobType
    BY <1>11, RunFields DEF RunComplete, RunRethrow, TypeOK
  <2>2. PICK j \in JobType : job' = [job EXCEPT ![r.sub] = j]
    <3>1. CASE UNCHANGED job
      BY <2>1, <3>1 DEF TypeOK
    <3>2. CASE job' = [job EXCEPT ![r.sub].state = "completed", ![r.sub].lock = None]
      <4>1. job' = [job EXCEPT ![r.sub] = [job[r.sub] EXCEPT !.state = "completed", !.lock = None]]
        BY <2>1, <3>2 DEF TypeOK
      <4> QED
        BY <2>1, <4>1, JobUpdates DEF JobStates
    <3>3. ASSUME NEW x \in {"delayed", "failed"},
                 job' = [job EXCEPT ![r.sub].lock = None, ![r.sub].attempts = @ + 1, ![r.sub].state = x]
          PROVE  \E j \in JobType : job' = [job EXCEPT ![r.sub] = j]
      <4>1. job' = [job EXCEPT ![r.sub] =
                      [job[r.sub] EXCEPT !.lock = None, !.attempts = job[r.sub].attempts + 1, !.state = x]]
        BY <2>1, <3>3 DEF TypeOK
      <4>2. [job[r.sub] EXCEPT !.lock = None, !.attempts = job[r.sub].attempts + 1, !.state = x] \in JobType
        BY <2>1, JobUpdates DEF JobStates
      <4> QED
        BY <4>1, <4>2
    <3> QED
      BY <1>11, <3>1, <3>2, <3>3 DEF RunComplete, RunRethrow
  <2>3. run' = [run EXCEPT ![w] = IdleRun]
    BY <1>11 DEF RunComplete, RunRethrow
  <2>4. RunsOK'
    BY <2>3, IdleRunType, SlotReplaced
  <2>5. job' \in [Submissions -> JobType]
    BY <2>1, <2>2 DEF TypeOK
  <2> QED
    BY <1>11, <2>4, <2>5 DEF RunComplete, RunRethrow, TypeOK, RunsOK, BusySlots, BusySweeps
<1> QED
  BY <1>1, <1>2, <1>3, <1>4, <1>5, <1>6, <1>7, <1>8, <1>9, <1>10, <1>11 DEF RunStep, RunFault

(* The steps of the process. *)
LEMMA ProcessStepType ==
  ASSUME TypeOK, Drain \/ Crash \/ Exited \/ Restart
  PROVE  TypeOK'
<1> USE DEF front, back, Modes
<1>1. CASE Drain \/ Restart
  BY <1>1, FaultType DEF Drain, Restart, TypeOK, BusySlots, BusySweeps
<1>2. CASE Exit /\ faults' \in 0..MaxFaults
  <2>1. sweep' \in [Sweepers -> SweepType] /\ \A k \in Sweepers : sweep'[k].pc = "idle"
    BY <1>2 DEF Exit, IdleSweep, SweepType, SweepPcs
  <2>2. run' \in [Slots -> RunType] /\ \A w \in Slots : run'[w] = IdleRun
    BY <1>2, IdleRunType DEF Exit
  <2>3. job' \in [Submissions -> JobType]
    <3>1. \A s \in Submissions : [job[s] EXCEPT !.lock = None] \in JobType
      BY DEF TypeOK, JobType
    <3> QED
      BY <1>2, <3>1 DEF Exit
  <2>4. handler' \in [Submissions -> HandlerPcs] /\ orphan' \in [Submissions -> BOOLEAN]
    BY <1>2 DEF Exit, HandlerPcs, TypeOK
  <2> QED
    BY <1>2, <2>1, <2>2, <2>3, <2>4, IdleRunType DEF Exit, TypeOK, BusySlots, BusySweeps
<1> QED
  BY <1>1, <1>2, FaultType DEF Crash, Exited, TypeOK

LEMMA NextType == TypeOK /\ [Next]_vars => TypeOK'
<1> SUFFICES ASSUME TypeOK, [Next]_vars PROVE TypeOK'
  OBVIOUS
<1>1. CASE UNCHANGED vars
  BY <1>1 DEF vars, TypeOK, BusySlots, BusySweeps
<1>2. CASE Next
  BY <1>2, SubmissionStepType, SweepStepType, SlotStepType, ProcessStepType DEF Next
<1> QED
  BY <1>1, <1>2

(* All state keeps its type; a slot or a sweep at work has a submission,    *)
(* and a workflow never runs past its last step (runSubmissionWorkflow).    *)
THEOREM TypeCorrect == Spec => []TypeOK
  BY InitType, NextType, PTL DEF Spec
----------------------------------------------------------------------------
(* A call of the worker holds the lock of its job, which is 'active'; only  *)
(* an 'active' job is locked.                                               *)
LockHeld ==
  /\ \A w \in Slots : run[w].sub # None =>
       job[run[w].sub].lock = w /\ job[run[w].sub].state = "active"
  /\ \A s \in Submissions : job[s].lock # None => job[s].state = "active"

(* Calls keep their submission, and their jobs keep lock and state. *)
LEMMA LockKept ==
  ASSUME TypeOK, LockHeld,
         \A w \in Slots : run'[w].sub = run[w].sub,
         \A s \in Submissions : job'[s] = job[s]
  PROVE  LockHeld'
<1>1. \A w \in Slots : run[w].sub \in Submissions \cup {None}
  BY DEF TypeOK, RunType
<1> QED
  BY <1>1 DEF LockHeld

(* The end of a call: the job of the slot is unlocked. *)
LEMMA CallEnds ==
  ASSUME TypeOK, LockHeld, NEW w \in Slots, run[w].sub # None,
         run' = [run EXCEPT ![w] = IdleRun],
         job'[run[w].sub].lock = None,
         \A s \in Submissions : s # run[w].sub => job'[s] = job[s]
  PROVE  LockHeld'
<1>1. \A v \in Slots : run[v].sub \in Submissions \cup {None}
  BY DEF TypeOK, RunType
<1>2. run'[w].sub = None /\ \A v \in Slots : v # w => run'[v] = run[v]
  BY DEF TypeOK, IdleRun
<1>3. \A v \in Slots : v # w => run[v].sub # run[w].sub
  BY DEF LockHeld
<1>4. ASSUME NEW v \in Slots, run'[v].sub # None
      PROVE  job'[run'[v].sub].lock = v /\ job'[run'[v].sub].state = "active"
  BY <1>1, <1>2, <1>3, <1>4 DEF LockHeld
<1>5. \A s \in Submissions : job'[s].lock # None => job'[s].state = "active"
  BY DEF LockHeld
<1> QED
  BY <1>4, <1>5 DEF LockHeld

LEMMA LockStep ==
  ASSUME "lockLoss" \notin FaultKinds, TypeOK, LockHeld, [Next]_vars
  PROVE  LockHeld'
<1> USE DEF front, back
<1>0. \A w \in Slots : run[w].sub \in Submissions \cup {None}
  BY DEF TypeOK, RunType
<1>1. ASSUME NEW s \in Submissions, EnqueueSubmissionIntake(s, "default") \/ EnqueueSubmissionIntake(s, "container"),
             UNCHANGED run
      PROVE  LockHeld'
  <2>1. CASE job' = job
    BY <1>1, <2>1, LockKept
  <2>2. CASE job[s].state = "none" /\ \E wf \in Workflows : job' = [job EXCEPT ![s] = [NoJob EXCEPT !.state = "wait", !.wf = wf]]
    <3>1. job'[s].lock = None /\ \A t \in Submissions : t # s => job'[t] = job[t]
      BY <2>2 DEF TypeOK, NoJob
    <3>2. \A w \in Slots : run[w].sub # s
      BY <2>2, PipelineAssumption DEF LockHeld
    <3> QED
      BY <1>0, <1>1, <3>1, <3>2 DEF LockHeld
  <2> QED
    BY <1>1, <2>1, <2>2 DEF EnqueueSubmissionIntake, Workflows
<1>2. ASSUME NEW s \in Submissions, BackoffOver(s) \/ Stalled(s) PROVE LockHeld'
  <2>1. job[s].lock = None
    BY <1>2 DEF BackoffOver, Stalled, LockHeld
  <2>2. job'[s].lock = None /\ \A t \in Submissions : t # s => job'[t] = job[t]
    BY <1>2, <2>1 DEF BackoffOver, Stalled, TypeOK, JobType
  <2>3. \A w \in Slots : run[w].sub # s
    BY <2>1, PipelineAssumption DEF LockHeld
  <2> QED
    BY <1>0, <1>2, <2>2, <2>3 DEF BackoffOver, Stalled, LockHeld
<1>3. ASSUME NEW s \in Submissions, ApiDelete(s) PROVE LockHeld'
  <2>1. \A w \in Slots : run'[w].sub = run[w].sub
    BY <1>3 DEF ApiDelete, TypeOK, RunType
  <2> QED
    BY <1>3, <2>1, LockKept DEF ApiDelete
<1>4. ASSUME NEW w \in Slots, TakeJob(w) PROVE LockHeld'
  <2>1. PICK s \in Submissions :
          /\ job[s].state = "wait"
          /\ job' = [job EXCEPT ![s].state = "active", ![s].lock = w]
          /\ run' = [run EXCEPT ![w] = [IdleRun EXCEPT !.sub = s, !.pc = "begin", !.wf = job[s].wf]]
    BY <1>4 DEF TakeJob
  <2>2. /\ job'[s].state = "active" /\ job'[s].lock = w
        /\ \A t \in Submissions : t # s => job'[t] = job[t]
    BY <2>1 DEF TypeOK, JobType
  <2>3. run'[w].sub = s /\ \A v \in Slots : v # w => run'[v] = run[v]
    BY <2>1 DEF TypeOK, IdleRun
  <2>4. \A v \in Slots : run[v].sub # s
    BY <2>1, PipelineAssumption DEF LockHeld
  <2>5. ASSUME NEW v \in Slots, run'[v].sub # None
        PROVE  job'[run'[v].sub].lock = v /\ job'[run'[v].sub].state = "active"
    BY <1>0, <2>2, <2>3, <2>4, <2>5 DEF LockHeld
  <2> QED
    BY <2>2, <2>5 DEF LockHeld
<1>5. ASSUME NEW w \in Slots, RunComplete(w) \/ RunRethrow(w) PROVE LockHeld'
  <2>1. run[w].sub \in Submissions /\ run[w].sub # None /\ job[run[w].sub].lock = w
    BY <1>5, RunFields DEF RunComplete, RunRethrow, LockHeld
  <2>2. run' = [run EXCEPT ![w] = IdleRun]
    BY <1>5 DEF RunComplete, RunRethrow
  <2>3. job'[run[w].sub].lock = None /\ \A s \in Submissions : s # run[w].sub => job'[s] = job[s]
    BY <1>5, <2>1 DEF RunComplete, RunRethrow, TypeOK, JobType
  <2> QED
    BY <2>1, <2>2, <2>3, CallEnds
<1>6. ASSUME NEW w \in Slots,
             \/ RunBegin(w) \/ StepStart(w) \/ StepEnd(w) \/ RunReview(w) \/ RunAlert(w)
             \/ RunMarkFailed(w) \/ RunFault(w)
      PROVE  LockHeld'
  <2>1. UNCHANGED job
    BY <1>6 DEF RunBegin, StepStart, StepEnd, RunReview, RunAlert, RunMarkFailed, RunFault, RunError,
       RunAlertFail, RunMarkFailedFails
  <2>2. ASSUME NEW v \in Slots PROVE run'[v].sub = run[v].sub
    <3>1. CASE RunMarkFailed(w)
      BY <3>1 DEF RunMarkFailed, TypeOK, RunType
    <3>2. CASE StepStart(w) \/ StepEnd(w) \/ RunMarkFailedFails(w)
      BY <3>2, CallGoesOn DEF Later, TypeOK
    <3>3. CASE \E pc \in RunPcs : GotoPc(w, pc)
      BY <3>3 DEF GotoPc, TypeOK, RunType
    <3>4. RunBegin(w) \/ RunReview(w) \/ RunAlert(w) \/ RunError(w) \/ RunAlertFail(w)
            => \E pc \in RunPcs : GotoPc(w, pc)
      BY DEF RunBegin, RunReview, RunAlert, RunError, RunAlertFail, RunPcs
    <3> QED
      BY <1>6, <3>1, <3>2, <3>3, <3>4 DEF RunFault
  <2> QED
    BY <2>1, <2>2, LockKept
<1>7. CASE Exit
  <2>1. \A w \in Slots : run'[w].sub = None
    BY <1>7 DEF Exit, IdleRun
  <2>2. \A s \in Submissions : job'[s].lock = None
    BY <1>7 DEF Exit, TypeOK, JobType
  <2> QED
    BY <2>1, <2>2 DEF LockHeld
<1>8. CASE UNCHANGED <<job, run>>
  BY <1>8 DEF LockHeld
<1>9. ASSUME NEW s \in Submissions,
             \/ Api(s) \/ ApiFail(s) \/ Age(s) \/ ExpireFile(s) \/ HandlerUpdate(s) \/ HandlerFail(s)
      PROVE  UNCHANGED <<job, run>>
  BY <1>9 DEF Api, ApiInsert, ApiStoreFile, ApiPublish, ApiFail, Age, ExpireFile, HandlerUpdate, HandlerFail
<1>10. ASSUME NEW s \in Submissions, HandlerEnqueue(s) PROVE LockHeld'
  BY <1>1, <1>10 DEF HandlerEnqueue, Requested
<1>11. ASSUME NEW k \in Sweepers, SweepStep(k) \/ SweepFail(k) PROVE LockHeld'
  <2>1. CASE SweepEnqueue(k)
    <3>1. sweep[k].cur \in Submissions
      BY <2>1 DEF SweepEnqueue, TypeOK, BusySweeps, SweepType
    <3> QED
      BY <1>1, <2>1, <3>1 DEF SweepEnqueue
  <2>2. CASE ~SweepEnqueue(k)
    BY <1>8, <1>11, <2>2 DEF SweepStep, SweepSelect, SweepExists, SweepClose, SweepMark, SweepFail
  <2> QED
    BY <2>1, <2>2
<1>12. \A w \in Slots : ~LoseLock(w)
  BY DEF LoseLock, Fault
<1>13. CASE Drain \/ Restart \/ UNCHANGED vars
  BY <1>8, <1>13 DEF Drain, Restart, vars
<1>14. CASE Crash \/ Exited
  BY <1>7, <1>14 DEF Crash, Exited
<1>15. CASE \E s \in Submissions :
              \/ Api(s) \/ ApiFail(s) \/ ApiDelete(s) \/ Age(s) \/ ExpireFile(s)
              \/ HandlerStep(s) \/ HandlerFail(s) \/ BackoffOver(s) \/ Stalled(s)
  BY <1>2, <1>3, <1>8, <1>9, <1>10, <1>15 DEF HandlerStep
<1>16. CASE \E w \in Slots : TakeJob(w) \/ LoseLock(w) \/ RunStep(w) \/ RunFault(w)
  BY <1>4, <1>5, <1>6, <1>12, <1>16 DEF RunStep
<1> QED
  BY <1>11, <1>13, <1>14, <1>15, <1>16 DEF Next

(* As long as no live call loses its lock, two slots of the worker never    *)
(* analyse the same submission: the notification, the sweep, retries and    *)
(* redeliveries after crashes all work on the job intake-<id>.              *)
THEOREM OneRun == ASSUME "lockLoss" \notin FaultKinds PROVE Spec => []SingleRun
<1>1. Init => LockHeld
  BY PipelineAssumption DEF Init, LockHeld, IdleRun, NoJob
<1>2. TypeOK /\ LockHeld /\ [Next]_vars => LockHeld'
  BY LockStep
<1>3. LockHeld => SingleRun
  BY DEF LockHeld, SingleRun
<1> QED
  BY <1>1, <1>2, <1>3, TypeCorrect, PTL DEF Spec

----------------------------------------------------------------------------
(* What is enqueued is not closed, whoever loses a lock: with one sweep at  *)
(* a time.                                                                  *)

Worked == {"queued", "analyzing", "review", "deleted"}
Settled == {"review", "queued", "deleted"}

(* Whoever is about to enqueue, and every job, is of a submission that has  *)
(* left 'submitted' and is not 'closed'.                                    *)
FrontOK ==
  \A s \in Submissions :
    /\ api[s] = "idle" <=> status[s] = "none"
    /\ handler[s] # "idle" => status[s] # "none"
    /\ handler[s] = "enqueue" => status[s] \in Worked
    /\ job[s].state # "none" => status[s] \in Worked

(* What a sweep has selected is not closed behind its back: the only sweep  *)
(* that closes is itself, and it closes each row once.                      *)
SweepsOK ==
  \A k \in Sweepers :
    /\ sweep[k].pc \in {"idle", "next"} => sweep[k].cur = None
    /\ \A s \in sweep[k].rows : status[s] \in Worked \cup {"submitted"} /\ s # sweep[k].cur
    /\ sweep[k].pc \in {"close", "mark"} => status[sweep[k].cur] \in Worked \cup {"submitted"}
    /\ sweep[k].pc = "enqueue" => status[sweep[k].cur] \in Worked

(* A call is of a job, also one that has lost the lock or whose job another *)
(* delivery has ended.                                                      *)
HasJob == \A w \in Slots : run[w].sub # None => job[run[w].sub].state # "none"

WorkInv == TypeOK /\ FrontOK /\ SweepsOK /\ HasJob
WorkStep == FrontOK' /\ SweepsOK' /\ HasJob'

(* What almost every step leaves true of the statuses.                      *)
Stable ==
  \A s \in Submissions :
    /\ status[s] \in Worked => status'[s] \in Worked
    /\ status[s] = "submitted" => status'[s] \in Worked \cup {"submitted"}
    /\ status[s] # "none" => status'[s] # "none"

LEMMA SetStable ==
  ASSUME TypeOK, NEW s \in Submissions, NEW v \in Worked, status[s] # "none",
         SetStatus(s, v) \/ SetStatusIfSubmitted(s, v)
  PROVE  /\ Stable /\ \A t \in Submissions : t # s => status'[t] = status[t]
         /\ status'[s] \in {v, status[s]} /\ status'[s] # "none"
         /\ status[s] \in Worked => status'[s] \in {v, status[s]} \cap Worked
<1>1. status \in [Submissions -> Statuses]
  BY DEF TypeOK
<1>2. status' = status \/ status' = [status EXCEPT ![s] = v]
  BY DEF SetStatus, SetStatusIfSubmitted
<1> QED
  BY <1>1, <1>2 DEF Stable, Worked, SetStatus

LEMMA SweepKeep ==
  ASSUME TypeOK, SweepsOK, Stable,
         \A k \in Sweepers : sweep'[k] = sweep[k] \/ sweep'[k] = IdleSweep
  PROVE  SweepsOK'
<1>1. ASSUME NEW k \in Sweepers, sweep'[k] = sweep[k]
      PROVE  /\ sweep'[k].pc \in {"idle", "next"} => sweep'[k].cur = None
             /\ \A s \in sweep'[k].rows : status'[s] \in Worked \cup {"submitted"} /\ s # sweep'[k].cur
             /\ sweep'[k].pc \in {"close", "mark"} => status'[sweep'[k].cur] \in Worked \cup {"submitted"}
             /\ sweep'[k].pc = "enqueue" => status'[sweep'[k].cur] \in Worked
  <2>1. sweep[k] \in SweepType /\ (sweep[k].pc \in {"close", "mark", "enqueue"} => sweep[k].cur \in Submissions)
    BY DEF TypeOK, BusySweeps, SweepType
  <2>2. sweep[k].rows \subseteq Submissions
    BY <2>1 DEF SweepType
  <2> QED
    BY <1>1, <2>1, <2>2 DEF SweepsOK, Stable
<1>2. ASSUME NEW k \in Sweepers, sweep'[k] = IdleSweep
      PROVE  sweep'[k].pc = "idle" /\ sweep'[k].cur = None /\ sweep'[k].rows = {}
  BY <1>2 DEF IdleSweep
<1> QED
  BY <1>1, <1>2 DEF SweepsOK

LEMMA JobKeep ==
  ASSUME TypeOK, HasJob, \A w \in Slots : run'[w].sub \in {run[w].sub, None},
         \A s \in Submissions : job[s].state # "none" => job'[s].state # "none"
  PROVE  HasJob'
<1>1. ASSUME NEW w \in Slots, run'[w].sub # None PROVE job'[run'[w].sub].state # "none"
  <2>1. run'[w].sub = run[w].sub /\ run[w].sub \in Submissions
    BY <1>1, RunFields
  <2> QED
    BY <1>1, <2>1 DEF HasJob
<1> QED
  BY <1>1 DEF HasJob

(* Steps that enqueue nothing and after which no new call runs.             *)
LEMMA WorkKeeps ==
  ASSUME WorkInv, Stable,
         \A s \in Submissions : api'[s] = "idle" <=> status'[s] = "none",
         \A s \in Submissions : handler'[s] \in {handler[s], "idle"},
         \A s \in Submissions : job'[s].state = "none" <=> job[s].state = "none",
         \A k \in Sweepers : sweep'[k] = sweep[k] \/ sweep'[k] = IdleSweep,
         \A w \in Slots : run'[w].sub \in {run[w].sub, None}
  PROVE  WorkStep
<1>1. TypeOK /\ FrontOK /\ SweepsOK /\ HasJob
  BY DEF WorkInv
<1>2. FrontOK'
  BY <1>1 DEF FrontOK, Stable
<1> QED
  BY <1>1, <1>2, SweepKeep, JobKeep DEF WorkStep

(* Steps that besides write no status.                                      *)
LEMMA QuietWork ==
  ASSUME WorkInv, status' = status,
         \A s \in Submissions : api'[s] = "idle" <=> api[s] = "idle",
         \A s \in Submissions : handler'[s] \in {handler[s], "idle"},
         \A s \in Submissions : job'[s].state = "none" <=> job[s].state = "none",
         \A k \in Sweepers : sweep'[k] = sweep[k] \/ sweep'[k] = IdleSweep,
         \A w \in Slots : run'[w].sub \in {run[w].sub, None}
  PROVE  WorkStep
<1>1. Stable
  BY DEF Stable
<1>2. \A s \in Submissions : api'[s] = "idle" <=> status'[s] = "none"
  BY DEF WorkInv, FrontOK
<1> QED
  BY <1>1, <1>2, WorkKeeps

(* The steps of the API.                                                    *)
LEMMA ApiWork ==
  ASSUME WorkInv, NEW s \in Submissions, Api(s) \/ ApiFail(s) \/ ApiDelete(s) \/ Age(s) \/ ExpireFile(s)
  PROVE  WorkStep
<1> USE DEF front, back
<1>0. TypeOK /\ FrontOK
  BY DEF WorkInv
<1>1. CASE ApiInsert(s)
  <2>1. /\ api[s] = "idle" /\ api' = [api EXCEPT ![s] = "store"]
        /\ status' = [status EXCEPT ![s] = "submitted"]
        /\ UNCHANGED <<handler, sweep, job, run>>
    BY <1>1 DEF ApiInsert
  <2>2. status[s] = "none" /\ status'[s] = "submitted" /\ \A t \in Submissions : t # s => status'[t] = status[t]
    BY <1>0, <2>1 DEF FrontOK, TypeOK
  <2>3. \A t \in Submissions : api'[t] = "idle" <=> status'[t] = "none"
    BY <1>0, <2>1, <2>2 DEF FrontOK, TypeOK
  <2>4. Stable
    BY <2>2 DEF Stable, Worked
  <2> QED
    BY <2>1, <2>3, <2>4, WorkKeeps
<1>2. CASE ApiPublish(s)
  <2>1. /\ api[s] = "publish" /\ api' = [api EXCEPT ![s] = "done"]
        /\ handler' = [handler EXCEPT ![s] = "update"] \/ handler' = handler
        /\ UNCHANGED <<status, sweep, job, run>>
    BY <1>2 DEF ApiPublish
  <2>2. Stable
    BY <2>1 DEF Stable
  <2>3. FrontOK'
    BY <1>0, <2>1 DEF FrontOK, TypeOK
  <2>4. SweepsOK' /\ HasJob'
    BY <2>1, <2>2, SweepKeep, JobKeep DEF WorkInv
  <2> QED
    BY <2>3, <2>4 DEF WorkStep
<1>3. CASE ApiStoreFile(s) \/ ApiFail(s) \/ Age(s) \/ ExpireFile(s)
  <2>1. UNCHANGED <<status, handler, sweep, job, run>>
    BY <1>3 DEF ApiStoreFile, ApiFail, Age, ExpireFile
  <2>2. \A t \in Submissions : api'[t] = "idle" <=> api[t] = "idle"
    BY <1>0, <1>3 DEF ApiStoreFile, ApiFail, Age, ExpireFile, TypeOK
  <2> QED
    BY <2>1, <2>2, QuietWork
<1>4. CASE ApiDelete(s)
  <2>1. /\ status[s] # "none" /\ status' = [status EXCEPT ![s] = "deleted"]
        /\ UNCHANGED <<api, handler, sweep, job>>
    BY <1>4 DEF ApiDelete
  <2>2. \A w \in Slots : run'[w].sub = run[w].sub
    BY <1>0, <1>4 DEF ApiDelete, TypeOK, RunType
  <2>3. status'[s] = "deleted" /\ \A t \in Submissions : t # s => status'[t] = status[t]
    BY <1>0, <2>1 DEF TypeOK
  <2>4. Stable
    BY <2>1, <2>3 DEF Stable, Worked
  <2>5. \A t \in Submissions : api'[t] = "idle" <=> status'[t] = "none"
    BY <1>0, <2>1, <2>3 DEF FrontOK
  <2> QED
    BY <2>1, <2>2, <2>4, <2>5, WorkKeeps
<1> QED
  BY <1>1, <1>2, <1>3, <1>4 DEF Api

(* A job is added once.                                                     *)
LEMMA EnqueueAdds ==
  ASSUME TypeOK, NEW s \in Submissions, NEW wf, EnqueueSubmissionIntake(s, wf)
  PROVE  \A t \in Submissions :
           \/ job'[t] = job[t]
           \/ t = s /\ job[t].state = "none" /\ job'[t].state = "wait" /\ job'[t].lock = None
  BY DEF EnqueueSubmissionIntake, TypeOK, NoJob

(* The steps of the message handler and of the queue.                       *)
LEMMA HandlerWork ==
  ASSUME WorkInv, NEW s \in Submissions,
         HandlerStep(s) \/ HandlerFail(s) \/ BackoffOver(s) \/ Stalled(s)
  PROVE  WorkStep
<1> USE DEF front, back
<1>0. TypeOK /\ FrontOK /\ SweepsOK /\ HasJob
  BY DEF WorkInv
<1>1. CASE HandlerUpdate(s)
  <2>1. /\ handler[s] = "update" /\ handler' = [handler EXCEPT ![s] = "enqueue"]
        /\ SetStatus(s, "queued") /\ UNCHANGED <<api, sweep, job, run>>
    BY <1>1 DEF HandlerUpdate
  <2>2. status[s] # "none" /\ "queued" \in Worked
    BY <1>0, <2>1 DEF FrontOK, Worked
  <2>3. Stable /\ (\A t \in Submissions : t # s => status'[t] = status[t]) /\ status'[s] # "none"
    BY <1>0, <2>1, <2>2, SetStable
  <2>4. status'[s] \in {"queued", "deleted"}
    BY <1>0, <2>1 DEF SetStatus, TypeOK
  <2>5. FrontOK'
    <3>1. \A t \in Submissions : handler'[t] = IF t = s THEN "enqueue" ELSE handler[t]
      BY <1>0, <2>1 DEF TypeOK
    <3> QED
      BY <1>0, <2>1, <2>2, <2>3, <2>4, <3>1 DEF FrontOK, Worked, Stable
  <2>6. SweepsOK' /\ HasJob'
    BY <1>0, <2>1, <2>3, SweepKeep, JobKeep
  <2> QED
    BY <2>5, <2>6 DEF WorkStep
<1>2. CASE HandlerEnqueue(s)
  <2>1. /\ handler[s] = "enqueue" /\ handler' = [handler EXCEPT ![s] = "idle"]
        /\ UNCHANGED <<status, api, sweep, run>> /\ EnqueueSubmissionIntake(s, Requested(s))
    BY <1>2 DEF HandlerEnqueue
  <2>2. \A t \in Submissions : handler'[t] \in {handler[t], "idle"}
    BY <1>0, <2>1 DEF TypeOK
  <2>3. \A t \in Submissions : job'[t] = job[t] \/ (t = s /\ job'[t].state = "wait")
    BY <1>0, <2>1, EnqueueAdds
  <2>4. FrontOK'
    BY <1>0, <2>1, <2>2, <2>3 DEF FrontOK
  <2>5. Stable
    BY <2>1 DEF Stable
  <2>6. SweepsOK' /\ HasJob'
    BY <1>0, <2>1, <2>3, <2>5, SweepKeep, JobKeep
  <2> QED
    BY <2>4, <2>6 DEF WorkStep
<1>3. CASE HandlerFail(s)
  <2>1. UNCHANGED <<status, api, sweep, job, run>> /\ \A t \in Submissions : handler'[t] \in {handler[t], "idle"}
    BY <1>0, <1>3 DEF HandlerFail, TypeOK
  <2> QED
    BY <2>1, QuietWork
<1>4. CASE BackoffOver(s) \/ Stalled(s)
  <2>1. UNCHANGED <<status, api, handler, sweep, run>> /\ job[s].state # "none"
    BY <1>4 DEF BackoffOver, Stalled
  <2>2. \A t \in Submissions : job'[t] = job[t] \/ (t = s /\ job'[t].state # "none")
    BY <1>0, <1>4 DEF BackoffOver, Stalled, TypeOK, JobType
  <2>3. \A t \in Submissions : job'[t].state = "none" <=> job[t].state = "none"
    BY <2>1, <2>2
  <2> QED
    BY <2>1, <2>3, QuietWork
<1> QED
  BY <1>1, <1>2, <1>3, <1>4 DEF HandlerStep

(* The steps of the sweep, of which one runs at a time.                     *)
LEMMA SweepMoves ==
  ASSUME TypeOK, NEW k \in Sweepers, NEW pc \in SweepPcs, NEW rows, NEW cur, SweepGoto(k, pc, rows, cur)
  PROVE  /\ \A l \in Sweepers : l # k => sweep'[l] = sweep[l]
         /\ sweep'[k] = IdleSweep \/ sweep'[k] = [pc |-> pc, rows |-> rows, cur |-> cur]
  BY DEF SweepGoto, TypeOK

LEMMA SweepWork ==
  ASSUME \A k, l \in Sweepers : k = l,
         WorkInv, NEW k \in Sweepers, SweepStep(k) \/ SweepFail(k)
  PROVE  WorkStep
<1> USE DEF front, back
<1> DEFINE c == sweep[k].cur
<1>0. TypeOK /\ FrontOK /\ SweepsOK /\ HasJob /\ None \notin Submissions
  BY PipelineAssumption DEF WorkInv
<1>1. /\ sweep[k].rows \subseteq Submissions
      /\ sweep[k].pc \in {"close", "mark", "enqueue"} => c \in Submissions
  BY <1>0 DEF TypeOK, BusySweeps, SweepType
<1>2. UNCHANGED <<api, handler, run>>
  BY DEF SweepStep, SweepFail, SweepSelect, SweepExists, SweepClose, SweepMark, SweepEnqueue
<1>3. HasJob'
  <2>1. job' = job \/ (c \in Submissions /\ EnqueueSubmissionIntake(c, "default"))
    BY <1>1 DEF SweepStep, SweepFail, SweepSelect, SweepExists, SweepClose, SweepMark, SweepEnqueue
  <2>2. \A t \in Submissions : job'[t] = job[t] \/ job'[t].state = "wait"
    BY <1>0, <2>1, EnqueueAdds
  <2> QED
    BY <1>0, <1>2, <2>2, JobKeep
<1>4. CASE SweepSelect(k)
  <2>1. UNCHANGED <<status, job>> /\ SweepGoto(k, "next", Stuck, None)
    BY <1>4 DEF SweepSelect
  <2>2. sweep'[k] = IdleSweep \/ sweep'[k] = [pc |-> "next", rows |-> Stuck, cur |-> None]
    BY <1>0, <2>1, SweepMoves DEF SweepPcs
  <2>3. \A s \in Stuck : s \in Submissions /\ status[s] = "submitted" /\ s # None
    BY <1>0 DEF Stuck
  <2>4. SweepsOK'
    BY <2>1, <2>2, <2>3 DEF SweepsOK, IdleSweep
  <2>5. FrontOK'
    BY <1>0, <1>2, <2>1 DEF FrontOK
  <2> QED
    BY <1>3, <2>4, <2>5 DEF WorkStep
<1>5. CASE SweepExists(k)
  <2>1. PICK s \in sweep[k].rows :
          SweepGoto(k, IF file[s] THEN "mark" ELSE "close", sweep[k].rows \ {s}, s)
    BY <1>5 DEF SweepExists
  <2>2. UNCHANGED <<status, job>>
    BY <1>5 DEF SweepExists
  <2>3. \/ sweep'[k] = IdleSweep
        \/ \E pc \in {"mark", "close"} : sweep'[k] = [pc |-> pc, rows |-> sweep[k].rows \ {s}, cur |-> s]
    <3>1. CASE file[s]
      <4>1. SweepGoto(k, "mark", sweep[k].rows \ {s}, s) /\ "mark" \in SweepPcs
        BY <2>1, <3>1 DEF SweepPcs
      <4>2. sweep'[k] = IdleSweep \/ sweep'[k] = [pc |-> "mark", rows |-> sweep[k].rows \ {s}, cur |-> s]
        BY <1>0, <4>1, SweepMoves
      <4> QED
        BY <4>2
    <3>2. CASE ~file[s]
      <4>1. SweepGoto(k, "close", sweep[k].rows \ {s}, s) /\ "close" \in SweepPcs
        BY <2>1, <3>2 DEF SweepPcs
      <4>2. sweep'[k] = IdleSweep \/ sweep'[k] = [pc |-> "close", rows |-> sweep[k].rows \ {s}, cur |-> s]
        BY <1>0, <4>1, SweepMoves
      <4> QED
        BY <4>2
    <3> QED
      BY <3>1, <3>2
  <2>4. \A x \in sweep[k].rows : status[x] \in Worked \cup {"submitted"}
    BY <1>0 DEF SweepsOK
  <2>5. SweepsOK'
    <3>1. CASE sweep'[k] = IdleSweep
      BY <3>1 DEF SweepsOK, IdleSweep
    <3>2. ASSUME NEW pc \in {"mark", "close"},
                 sweep'[k] = [pc |-> pc, rows |-> sweep[k].rows \ {s}, cur |-> s]
          PROVE  SweepsOK'
      <4>1. /\ sweep'[k].pc \notin {"idle", "next", "enqueue"} /\ sweep'[k].cur = s
            /\ sweep'[k].rows = sweep[k].rows \ {s}
        BY <3>2
      <4> QED
        BY <2>2, <2>4, <4>1 DEF SweepsOK
    <3> QED
      BY <2>3, <3>1, <3>2
  <2>6. FrontOK'
    BY <1>0, <1>2, <2>2 DEF FrontOK
  <2> QED
    BY <1>3, <2>5, <2>6 DEF WorkStep
<1>6. CASE SweepClose(k)
  <2>1. /\ sweep[k].pc = "close" /\ c \in Submissions /\ UNCHANGED job
        /\ SetStatusIfSubmitted(c, "closed") /\ SweepGoto(k, "next", sweep[k].rows, None)
    BY <1>1, <1>6 DEF SweepClose
  <2>2. /\ \A t \in Submissions : t # c => status'[t] = status[t]
        /\ status'[c] = status[c] \/ (status[c] = "submitted" /\ status'[c] = "closed")
    BY <1>0, <2>1 DEF SetStatusIfSubmitted, TypeOK
  <2>3. FrontOK'
    BY <1>0, <1>2, <2>1, <2>2 DEF FrontOK, Worked
  <2>4. sweep'[k] = IdleSweep \/ sweep'[k] = [pc |-> "next", rows |-> sweep[k].rows, cur |-> None]
    BY <1>0, <2>1, SweepMoves DEF SweepPcs
  <2>5. \A x \in sweep[k].rows : x \in Submissions /\ x # c /\ status[x] \in Worked \cup {"submitted"}
    BY <1>0, <1>1 DEF SweepsOK
  <2>6. SweepsOK'
    BY <1>0, <2>2, <2>4, <2>5 DEF SweepsOK, IdleSweep
  <2> QED
    BY <1>3, <2>3, <2>6 DEF WorkStep
<1>7. CASE SweepMark(k)
  <2>1. /\ sweep[k].pc = "mark" /\ c \in Submissions /\ UNCHANGED job
        /\ SetStatusIfSubmitted(c, "queued") /\ SweepGoto(k, "enqueue", sweep[k].rows, c)
    BY <1>1, <1>7 DEF SweepMark
  <2>2. /\ \A t \in Submissions : t # c => status'[t] = status[t]
        /\ status'[c] = status[c] \/ (status[c] = "submitted" /\ status'[c] = "queued")
        /\ status[c] = "submitted" => status'[c] = "queued"
    BY <1>0, <2>1 DEF SetStatusIfSubmitted, TypeOK
  <2>3. status'[c] \in Worked
    BY <1>0, <2>1, <2>2 DEF SweepsOK, Worked
  <2>4. FrontOK'
    BY <1>0, <1>2, <2>1, <2>2 DEF FrontOK, Worked
  <2>5. sweep'[k] = IdleSweep \/ sweep'[k] = [pc |-> "enqueue", rows |-> sweep[k].rows, cur |-> c]
    BY <1>0, <2>1, SweepMoves DEF SweepPcs
  <2>6. \A x \in sweep[k].rows : x \in Submissions /\ x # c /\ status[x] \in Worked \cup {"submitted"}
    BY <1>0, <1>1 DEF SweepsOK
  <2>7. SweepsOK'
    BY <1>0, <2>2, <2>3, <2>5, <2>6 DEF SweepsOK, IdleSweep
  <2> QED
    BY <1>3, <2>4, <2>7 DEF WorkStep
<1>8. CASE SweepEnqueue(k)
  <2>1. /\ sweep[k].pc = "enqueue" /\ c \in Submissions /\ UNCHANGED status
        /\ SweepGoto(k, "next", sweep[k].rows, None)
        /\ EnqueueSubmissionIntake(c, "default")
    BY <1>1, <1>8 DEF SweepEnqueue
  <2>2. \A t \in Submissions : job'[t] = job[t] \/ (t = c /\ job'[t].state = "wait")
    BY <1>0, <2>1, EnqueueAdds
  <2>3. status[c] \in Worked
    BY <1>0, <2>1 DEF SweepsOK
  <2>4. FrontOK'
    BY <1>0, <1>2, <2>1, <2>2, <2>3 DEF FrontOK
  <2>5. sweep'[k] = IdleSweep \/ sweep'[k] = [pc |-> "next", rows |-> sweep[k].rows, cur |-> None]
    BY <1>0, <2>1, SweepMoves DEF SweepPcs
  <2>6. \A x \in sweep[k].rows : x # None /\ status[x] \in Worked \cup {"submitted"}
    BY <1>0, <1>1 DEF SweepsOK
  <2>7. SweepsOK'
    BY <2>1, <2>5, <2>6 DEF SweepsOK, IdleSweep
  <2> QED
    BY <1>3, <2>4, <2>7 DEF WorkStep
<1>9. CASE SweepFail(k)
  <2>1. UNCHANGED <<status, job>>
    BY <1>9 DEF SweepFail
  <2>2. sweep'[k] = IdleSweep \/ sweep'[k] = [pc |-> "next", rows |-> sweep[k].rows, cur |-> None]
    BY <1>0, <1>9, SweepMoves DEF SweepFail, SweepPcs, TypeOK
  <2>3. \A x \in sweep[k].rows : x # None /\ status[x] \in Worked \cup {"submitted"}
    BY <1>0, <1>1 DEF SweepsOK
  <2>4. SweepsOK'
    BY <2>1, <2>2, <2>3 DEF SweepsOK, IdleSweep
  <2>5. FrontOK'
    BY <1>0, <1>2, <2>1 DEF FrontOK
  <2> QED
    BY <1>3, <2>4, <2>5 DEF WorkStep
<1> QED
  BY <1>4, <1>5, <1>6, <1>7, <1>8, <1>9 DEF SweepStep

(* A step inside a call moves that call alone and writes only its status.   *)
LEMMA CallMoves ==
  ASSUME TypeOK, NEW w \in Slots,
         \/ RunBegin(w) \/ StepStart(w) \/ StepEnd(w) \/ RunReview(w) \/ RunAlert(w)
         \/ RunMarkFailed(w) \/ RunFault(w)
  PROVE  /\ UNCHANGED <<api, handler, sweep, job>> /\ run[w].pc # "idle"
         /\ \A v \in Slots : run'[v].sub = run[v].sub /\ (v # w => run'[v].pc = run[v].pc)
         /\ status' = status \/ \E x \in {"analyzing", "review"} : SetStatus(run[w].sub, x)
<1> USE DEF front, back
<1>1. /\ UNCHANGED <<api, handler, sweep, job>> /\ run[w].pc # "idle"
      /\ status' = status \/ \E x \in {"analyzing", "review"} : SetStatus(run[w].sub, x)
  BY DEF RunBegin, StepStart, StepEnd, RunReview, RunAlert, RunMarkFailed, RunFault,
     RunError, RunAlertFail, RunMarkFailedFails
<1>2. \A v \in Slots : run'[v].sub = run[v].sub /\ (v # w => run'[v].pc = run[v].pc)
  <2>1. CASE RunMarkFailed(w)
    BY <2>1 DEF RunMarkFailed, TypeOK, RunType
  <2>2. CASE StepStart(w) \/ StepEnd(w) \/ RunMarkFailedFails(w)
    BY <2>2, CallGoesOn DEF Later, TypeOK
  <2>3. CASE \E pc \in RunPcs : GotoPc(w, pc)
    BY <2>3 DEF GotoPc, TypeOK, RunType
  <2>4. RunBegin(w) \/ RunReview(w) \/ RunAlert(w) \/ RunError(w) \/ RunAlertFail(w)
          => \E pc \in RunPcs : GotoPc(w, pc)
    BY DEF RunBegin, RunReview, RunAlert, RunError, RunAlertFail, RunPcs
  <2> QED
    BY <2>1, <2>2, <2>3, <2>4 DEF RunFault
<1> QED
  BY <1>1, <1>2

(* The steps of the worker: a call of a submission finds it in Worked.      *)
LEMMA SlotWork ==
  ASSUME WorkInv, NEW w \in Slots, TakeJob(w) \/ LoseLock(w) \/ RunStep(w) \/ RunFault(w)
  PROVE  WorkStep
<1> USE DEF front, back
<1> DEFINE q == run[w].sub
<1>0. TypeOK /\ FrontOK /\ SweepsOK /\ HasJob
  BY DEF WorkInv
<1>1. run[w].pc # "idle" => /\ q \in Submissions /\ q # None
                            /\ job[q].state # "none" /\ status[q] \in Worked
  BY <1>0, RunFields DEF HasJob, FrontOK
<1>2. CASE TakeJob(w)
  <2>1. PICK s \in Submissions :
          /\ job[s].state = "wait"
          /\ job' = [job EXCEPT ![s].state = "active", ![s].lock = w]
          /\ run' = [run EXCEPT ![w] = [IdleRun EXCEPT !.sub = s, !.pc = "begin", !.wf = job[s].wf]]
    BY <1>2 DEF TakeJob
  <2>2. UNCHANGED <<status, api, handler, sweep>>
    BY <1>2 DEF TakeJob
  <2>3. \A t \in Submissions : job'[t] = job[t] \/ (t = s /\ job'[t].state = "active")
    BY <1>0, <2>1 DEF TypeOK, JobType
  <2>4. \A v \in Slots : run'[v] = run[v] \/ run'[v].sub = s
    BY <1>0, <2>1 DEF TypeOK, IdleRun
  <2>5. FrontOK'
    BY <1>0, <2>1, <2>2, <2>3 DEF FrontOK
  <2>6. Stable
    BY <2>2 DEF Stable
  <2>7. SweepsOK'
    BY <1>0, <2>2, <2>6, SweepKeep
  <2>8. job'[s].state # "none"
    BY <2>1, <2>3
  <2>9. ASSUME NEW v \in Slots, run'[v].sub # None PROVE job'[run'[v].sub].state # "none"
    <3>1. CASE run'[v].sub = s
      BY <2>8, <3>1
    <3>2. CASE run'[v] = run[v]
      <4>1. run[v].sub \in Submissions /\ job[run[v].sub].state # "none"
        BY <1>0, <2>9, <3>2, RunFields DEF HasJob
      <4> QED
        BY <2>3, <3>2, <4>1
    <3> QED
      BY <2>4, <3>1, <3>2
  <2> QED
    BY <2>5, <2>7, <2>9 DEF WorkStep, HasJob
<1>3. CASE LoseLock(w)
  <2>1. UNCHANGED <<status, api, handler, sweep, run>> /\ job' = [job EXCEPT ![q].lock = None]
    BY <1>3 DEF LoseLock
  <2>2. \A t \in Submissions : job'[t].state = job[t].state
    BY <1>0, <2>1 DEF TypeOK, JobType
  <2> QED
    BY <2>1, <2>2, QuietWork
<1>4. CASE RunComplete(w) \/ RunRethrow(w)
  <2>1. q \in Submissions /\ job[q].state # "none"
    BY <1>1, <1>4 DEF RunComplete, RunRethrow
  <2>2. UNCHANGED <<status, api, handler, sweep>> /\ run' = [run EXCEPT ![w] = IdleRun]
    BY <1>4 DEF RunComplete, RunRethrow
  <2>3. \A v \in Slots : run'[v].sub \in {run[v].sub, None}
    BY <1>0, <2>2 DEF TypeOK, IdleRun
  <2>4. \A t \in Submissions : job'[t] = job[t] \/ (t = q /\ job'[t].state # "none")
    <3>1. CASE RunRethrow(w)
      BY <1>0, <2>1, <3>1 DEF RunRethrow, TypeOK, JobType
    <3>2. CASE RunComplete(w)
      BY <1>0, <2>1, <3>2 DEF RunComplete, TypeOK, JobType
    <3> QED
      BY <1>4, <3>1, <3>2
  <2>5. \A t \in Submissions : job'[t].state = "none" <=> job[t].state = "none"
    BY <2>1, <2>4
  <2> QED
    BY <2>2, <2>3, <2>5, QuietWork
<1>5. CASE \/ RunBegin(w) \/ StepStart(w) \/ StepEnd(w) \/ RunReview(w) \/ RunAlert(w)
           \/ RunMarkFailed(w) \/ RunFault(w)
  <2>1. UNCHANGED <<api, handler, sweep, job>> /\ run[w].pc # "idle"
    BY <1>0, <1>5, CallMoves
  <2>2. \A v \in Slots : run'[v].sub = run[v].sub
    BY <1>0, <1>5, CallMoves
  <2>3. status' = status \/ \E x \in {"analyzing", "review"} : SetStatus(q, x)
    BY <1>0, <1>5, CallMoves
  <2>4. Stable /\ \A t \in Submissions : status'[t] = "none" <=> status[t] = "none"
    <3>1. CASE status' = status
      BY <3>1 DEF Stable
    <3>2. ASSUME NEW x \in {"analyzing", "review"}, SetStatus(q, x)
          PROVE  Stable /\ \A t \in Submissions : status'[t] = "none" <=> status[t] = "none"
      <4>1. x \in Worked /\ status[q] # "none" /\ q \in Submissions
        BY <1>1, <2>1, <3>2 DEF Worked
      <4> QED
        BY <1>0, <3>2, <4>1, SetStable
    <3> QED
      BY <2>3, <3>1, <3>2
  <2>5. \A t \in Submissions : api'[t] = "idle" <=> status'[t] = "none"
    BY <1>0, <2>1, <2>4 DEF FrontOK
  <2> QED
    BY <2>1, <2>2, <2>4, <2>5, WorkKeeps
<1> QED
  BY <1>2, <1>3, <1>4, <1>5 DEF RunStep

LEMMA ProcessWork ==
  ASSUME WorkInv, Drain \/ Crash \/ Exited \/ Restart \/ UNCHANGED vars
  PROVE  WorkStep
<1> USE DEF front, back
<1>0. TypeOK
  BY DEF WorkInv
<1>1. CASE Drain \/ Restart \/ UNCHANGED vars
  <2>1. UNCHANGED <<status, api, handler, sweep, job, run>>
    BY <1>1 DEF Drain, Restart, vars
  <2> QED
    BY <2>1, QuietWork
<1>2. CASE Exit
  <2>1. /\ UNCHANGED <<status, api>> /\ \A s \in Submissions : handler'[s] = "idle"
        /\ \A k \in Sweepers : sweep'[k] = IdleSweep
        /\ \A w \in Slots : run'[w].sub = None
    BY <1>2 DEF Exit, IdleRun
  <2>2. \A s \in Submissions : job'[s].state = job[s].state
    BY <1>0, <1>2 DEF Exit, TypeOK, JobType
  <2> QED
    BY <2>1, <2>2, QuietWork
<1> QED
  BY <1>1, <1>2 DEF Crash, Exited

LEMMA InitWork == Init => WorkInv
<1> SUFFICES ASSUME Init PROVE WorkInv
  OBVIOUS
<1>1. TypeOK
  BY InitType
<1>2. FrontOK /\ SweepsOK /\ HasJob
  BY DEF Init, FrontOK, NoJob, SweepsOK, IdleSweep, HasJob, IdleRun
<1> QED
  BY <1>1, <1>2 DEF WorkInv

LEMMA NextWork == ASSUME \A k, l \in Sweepers : k = l, WorkInv, [Next]_vars PROVE WorkInv'
<1>1. TypeOK'
  BY NextType DEF WorkInv
<1>2. WorkStep
  BY ApiWork, HandlerWork, SweepWork, SlotWork, ProcessWork DEF Next
<1> QED
  BY <1>1, <1>2 DEF WorkInv, WorkStep

THEOREM WorkInvariant == ASSUME \A k, l \in Sweepers : k = l PROVE Spec => []WorkInv
<1>1. WorkInv /\ [Next]_vars => WorkInv'
  BY NextWork
<1> QED
  BY <1>1, InitWork, PTL DEF Spec

(* A submission closed by the sweep has no job and gets none, although the  *)
(* sweep's EXISTS and its UPDATE are apart (recoverStuckSubmissions).       *)
THEOREM ClosedIsIdle ==
  ASSUME \A k, l \in Sweepers : k = l PROVE Spec => []ClosedHasNoWork
<1>1. ASSUME WorkInv PROVE ClosedHasNoWork
  <2>1. "closed" \notin Worked \cup {"submitted"}
    BY DEF Worked
  <2>2. TypeOK /\ FrontOK /\ SweepsOK /\ None \notin Submissions
    BY <1>1, PipelineAssumption DEF WorkInv
  <2>3. \A k \in Sweepers : sweep[k].pc \in SweepPcs
    BY <2>2 DEF TypeOK, SweepType
  <2> QED
    BY <2>1, <2>2, <2>3 DEF FrontOK, SweepsOK, ClosedHasNoWork, SweepPcs
<1> QED
  BY <1>1, WorkInvariant, PTL

----------------------------------------------------------------------------
(* What a call leaves behind, as long as no other call of the submission    *)
(* writes over it: without lost locks, and for any number of sweeps.        *)

(* Nothing knows of a submission before its row is inserted.                *)
Unknown(s) ==
  /\ status[s] = "none" /\ handler[s] = "idle" /\ job[s].state = "none"
  /\ \A k \in Sweepers : s \notin sweep[k].rows /\ s # sweep[k].cur
Untouched == \A s \in Submissions : api[s] = "idle" => Unknown(s)

(* A completed job left a verdict.                                          *)
DoneOK == \A s \in Submissions : job[s].state = "completed" => status[s] \in Settled

(* A call past its last write has left a verdict.                           *)
RunsLate ==
  \A w \in Slots : run[w].pc \in {"alert", "finish"} => status[run[w].sub] \in Settled

VerdictInv == TypeOK /\ LockHeld /\ Untouched /\ DoneOK /\ RunsLate
VerdictStep == DoneOK' /\ RunsLate'

(* Steps for other submissions, and those that only end sweeps.             *)
LEMMA UnknownKept ==
  ASSUME NEW s \in Submissions, Unknown(s), status'[s] = status[s], handler'[s] \in {handler[s], "idle"},
         job'[s].state = job[s].state, \A k \in Sweepers : sweep'[k] \in {sweep[k], IdleSweep}
  PROVE  Unknown(s)'
<1>1. s # None
  BY PipelineAssumption
<1> QED
  BY <1>1 DEF Unknown, IdleSweep

LEMMA SweepAvoids ==
  ASSUME TypeOK, NEW s \in Submissions, NEW k \in Sweepers, NEW pc \in SweepPcs,
         NEW rows, NEW cur, s \notin rows, s # cur, SweepGoto(k, pc, rows, cur)
  PROVE  /\ \A l \in Sweepers : l # k => sweep'[l] = sweep[l]
         /\ s \notin sweep'[k].rows /\ s # sweep'[k].cur
<1>1. /\ \A l \in Sweepers : l # k => sweep'[l] = sweep[l]
      /\ sweep'[k] = IdleSweep \/ sweep'[k] = [pc |-> pc, rows |-> rows, cur |-> cur]
  BY SweepMoves
<1>2. s # None
  BY PipelineAssumption
<1> QED
  BY <1>1, <1>2 DEF IdleSweep

LEMMA UnknownStays ==
  ASSUME TypeOK, LockHeld, Untouched, [Next]_vars, NEW s \in Submissions, api'[s] = "idle"
  PROVE  Unknown(s)'
<1> USE DEF front, back
<1>0. s # None /\ (api[s] = "idle" => Unknown(s))
  BY PipelineAssumption DEF Untouched
<1>1. ASSUME NEW t \in Submissions,
             \/ Api(t) \/ ApiFail(t) \/ ApiDelete(t) \/ Age(t) \/ ExpireFile(t)
             \/ HandlerStep(t) \/ HandlerFail(t) \/ BackoffOver(t) \/ Stalled(t)
      PROVE  Unknown(s)'
  <2>1. api[s] = "idle"
    BY <1>1 DEF Api, ApiInsert, ApiStoreFile, ApiPublish, ApiFail, ApiDelete, Age, ExpireFile,
       HandlerStep, HandlerUpdate, HandlerEnqueue, HandlerFail, BackoffOver, Stalled, TypeOK
  <2>2. UNCHANGED sweep
    BY <1>1 DEF Api, ApiInsert, ApiStoreFile, ApiPublish, ApiFail, ApiDelete, Age, ExpireFile,
       HandlerStep, HandlerUpdate, HandlerEnqueue, HandlerFail, BackoffOver, Stalled
  <2>3. CASE t # s
    <3>1. status'[s] = status[s] /\ handler'[s] = handler[s]
      BY <1>1, <2>3 DEF Api, ApiInsert, ApiStoreFile, ApiPublish, ApiFail, ApiDelete, Age, ExpireFile,
         HandlerStep, HandlerUpdate, HandlerEnqueue, HandlerFail, BackoffOver, Stalled, SetStatus, TypeOK
    <3>2. job'[s] = job[s]
      <4>1. CASE HandlerEnqueue(t)
        BY <2>3, <4>1, EnqueueAdds DEF HandlerEnqueue
      <4>2. CASE BackoffOver(t) \/ Stalled(t)
        BY <2>3, <4>2 DEF BackoffOver, Stalled, TypeOK
      <4>3. job' = job \/ HandlerEnqueue(t) \/ BackoffOver(t) \/ Stalled(t)
        BY <1>1 DEF Api, ApiInsert, ApiStoreFile, ApiPublish, ApiFail, ApiDelete, Age, ExpireFile,
           HandlerStep, HandlerUpdate, HandlerFail
      <4> QED
        BY <4>1, <4>2, <4>3
    <3> QED
      BY <1>0, <2>1, <2>2, <3>1, <3>2, UnknownKept
  <2>4. CASE t = s
    <3>1. ~ApiInsert(s)
      BY DEF ApiInsert, TypeOK
    <3>2. ExpireFile(s)
      BY <1>0, <1>1, <2>1, <2>4, <3>1 DEF Api, ApiStoreFile, ApiPublish, ApiFail, ApiDelete, Age,
         HandlerStep, HandlerUpdate, HandlerEnqueue, HandlerFail, BackoffOver, Stalled, Unknown
    <3> QED
      BY <1>0, <2>1, <2>2, <3>2, UnknownKept DEF ExpireFile
  <2> QED
    BY <2>3, <2>4
<1>2. ASSUME NEW k \in Sweepers, SweepStep(k) \/ SweepFail(k) PROVE Unknown(s)'
  <2> DEFINE c == sweep[k].cur
  <2>1. UNCHANGED <<api, handler>> /\ Unknown(s) /\ c # s /\ s \notin sweep[k].rows
    BY <1>0, <1>2 DEF SweepStep, SweepFail, SweepSelect, SweepExists, SweepClose, SweepMark, SweepEnqueue,
       Unknown
  <2>2. sweep[k].pc \in {"close", "mark", "enqueue"} => c \in Submissions
    BY DEF TypeOK, BusySweeps, SweepType
  <2>3. status'[s] = status[s]
    <3>1. status' = status \/ \E v : SetStatusIfSubmitted(c, v)
      BY <1>2 DEF SweepStep, SweepFail, SweepSelect, SweepExists, SweepClose, SweepMark, SweepEnqueue
    <3> QED
      BY <2>1, <3>1 DEF SetStatusIfSubmitted, TypeOK
  <2>4. job'[s] = job[s]
    <3>1. job' = job \/ (c \in Submissions /\ EnqueueSubmissionIntake(c, "default"))
      BY <1>2, <2>2 DEF SweepStep, SweepFail, SweepSelect, SweepExists, SweepClose, SweepMark, SweepEnqueue
    <3> QED
      BY <2>1, <3>1, EnqueueAdds
  <2>5. /\ \A l \in Sweepers : l # k => sweep'[l] = sweep[l]
        /\ s \notin sweep'[k].rows /\ s # sweep'[k].cur
    <3>1. CASE \E pc \in SweepPcs : SweepGoto(k, pc, sweep[k].rows, None) \/ SweepGoto(k, pc, sweep[k].rows, c)
      <4>1. PICK pc \in SweepPcs, cur \in {None, c} : SweepGoto(k, pc, sweep[k].rows, cur)
        BY <3>1
      <4> QED
        BY <1>0, <2>1, <4>1, SweepAvoids
    <3>2. CASE SweepSelect(k)
      <4>1. SweepGoto(k, "next", Stuck, None) /\ s \notin Stuck
        BY <2>1, <3>2 DEF SweepSelect, Unknown, Stuck
      <4> QED
        BY <1>0, <4>1, SweepAvoids DEF SweepPcs
    <3>3. CASE SweepExists(k)
      <4>1. PICK x \in sweep[k].rows, pc \in {"mark", "close"} : SweepGoto(k, pc, sweep[k].rows \ {x}, x)
        BY <3>3 DEF SweepExists
      <4>2. pc \in SweepPcs /\ x # s
        BY <2>1, <4>1 DEF SweepPcs
      <4> QED
        BY <2>1, <4>1, <4>2, SweepAvoids
    <3>4. CASE SweepFail(k)
      <4>1. \/ SweepGoto(k, "next", sweep[k].rows, None)
            \/ sweep' = [sweep EXCEPT ![k] = IdleSweep]
        BY <3>4 DEF SweepFail
      <4> QED
        BY <1>0, <3>1, <4>1 DEF IdleSweep, SweepPcs, TypeOK
    <3>5. SweepClose(k) \/ SweepMark(k) \/ SweepEnqueue(k) =>
            \E pc \in SweepPcs : SweepGoto(k, pc, sweep[k].rows, None) \/ SweepGoto(k, pc, sweep[k].rows, c)
      BY DEF SweepClose, SweepMark, SweepEnqueue, SweepPcs
    <3> QED
      BY <1>2, <3>1, <3>2, <3>3, <3>4, <3>5 DEF SweepStep
  <2> QED
    BY <1>0, <2>1, <2>3, <2>4, <2>5 DEF Unknown
<1>3. ASSUME NEW w \in Slots, TakeJob(w) \/ LoseLock(w) \/ RunStep(w) \/ RunFault(w) PROVE Unknown(s)'
  <2> DEFINE q == run[w].sub
  <2>1. UNCHANGED <<api, handler, sweep>> /\ Unknown(s)
    BY <1>0, <1>3 DEF TakeJob, LoseLock, RunStep, RunFault, RunBegin, StepStart, StepEnd, RunReview, RunAlert,
       RunMarkFailed, RunComplete, RunRethrow, RunError, RunAlertFail, RunMarkFailedFails
  <2>2. run[w].pc # "idle" => q \in Submissions /\ q # s
    <3>1. run[w].pc # "idle" => q \in Submissions /\ job[q].state = "active"
      BY RunFields DEF LockHeld
    <3> QED
      BY <2>1, <3>1 DEF Unknown
  <2>3. job'[s].state = job[s].state /\ status'[s] = status[s]
    <3>1. CASE TakeJob(w)
      <4>1. PICK t \in Submissions : job[t].state = "wait" /\ job' = [job EXCEPT ![t].state = "active", ![t].lock = w]
        BY <3>1 DEF TakeJob
      <4>2. t # s
        BY <2>1, <4>1 DEF Unknown
      <4> QED
        BY <3>1, <4>1, <4>2 DEF TakeJob, TypeOK
    <3>2. CASE LoseLock(w)
      <4>1. job' = [job EXCEPT ![q].lock = None] /\ UNCHANGED status
        BY <3>2 DEF LoseLock
      <4> QED
        BY <4>1 DEF TypeOK, JobType
    <3>3. CASE RunComplete(w) \/ RunRethrow(w)
      BY <2>2, <3>3 DEF RunComplete, RunRethrow, TypeOK
    <3>4. CASE \/ RunBegin(w) \/ StepStart(w) \/ StepEnd(w) \/ RunReview(w) \/ RunAlert(w)
               \/ RunMarkFailed(w) \/ RunFault(w)
      <4>1. /\ UNCHANGED job /\ q # s
            /\ status' = status \/ \E x \in {"analyzing", "review"} : SetStatus(q, x)
        BY <2>2, <3>4, CallMoves
      <4> QED
        BY <4>1 DEF SetStatus, TypeOK
    <3> QED
      BY <1>3, <3>1, <3>2, <3>3, <3>4 DEF RunStep
  <2> QED
    BY <2>1, <2>3, UnknownKept
<1>4. ASSUME Drain \/ Crash \/ Exited \/ Restart \/ UNCHANGED vars PROVE Unknown(s)'
  <2>1. /\ api' = api /\ status' = status /\ handler'[s] \in {handler[s], "idle"}
        /\ \A k \in Sweepers : sweep'[k] \in {sweep[k], IdleSweep}
    BY <1>4 DEF Drain, Crash, Exited, Exit, Restart, vars
  <2>2. job'[s].state = job[s].state
    BY <1>4 DEF Drain, Crash, Exited, Exit, Restart, vars, TypeOK, JobType
  <2> QED
    BY <1>0, <2>1, <2>2, UnknownKept
<1> QED
  BY <1>1, <1>2, <1>3, <1>4 DEF Next

LEMMA UntouchedStep == ASSUME TypeOK, LockHeld, Untouched, [Next]_vars PROVE Untouched'
  BY UnknownStays DEF Untouched

LEMMA LateKeeps ==
  ASSUME TypeOK, DoneOK, RunsLate,
         \A s \in Submissions : status[s] \in Settled => status'[s] \in Settled,
         \A s \in Submissions : job'[s].state = "completed" => job[s].state = "completed",
         \A w \in Slots : run'[w].pc \in {"alert", "finish"} =>
           run[w].pc \in {"alert", "finish"} /\ run'[w].sub = run[w].sub
  PROVE  VerdictStep
<1>1. \A w \in Slots : run[w].pc \in {"alert", "finish"} => run[w].sub \in Submissions
  BY RunFields
<1>2. DoneOK'
  BY DEF DoneOK
<1>3. RunsLate'
  BY <1>1 DEF RunsLate
<1> QED
  BY <1>2, <1>3 DEF VerdictStep

(* Nobody but a call takes a verdict away: the notification puts 'queued'   *)
(* over it, the sweep writes only over 'submitted'.                         *)
LEMMA VerdictStays ==
  ASSUME TypeOK, NEW s \in Submissions,
         \/ \E v \in {"queued", "deleted"} : SetStatus(s, v)
         \/ \E v \in Statuses : SetStatusIfSubmitted(s, v)
  PROVE  \A t \in Submissions : status[t] \in Settled => status'[t] \in Settled
  BY DEF SetStatus, SetStatusIfSubmitted, Settled, TypeOK

LEMMA OutsideLate ==
  ASSUME VerdictInv, NEW s \in Submissions,
         \/ Api(s) \/ ApiFail(s) \/ ApiDelete(s) \/ Age(s) \/ ExpireFile(s)
         \/ HandlerStep(s) \/ HandlerFail(s) \/ BackoffOver(s) \/ Stalled(s)
  PROVE  VerdictStep
<1> USE DEF front, back
<1>0. TypeOK /\ Untouched /\ DoneOK /\ RunsLate
  BY DEF VerdictInv
<1>1. \A t \in Submissions : status[t] \in Settled => status'[t] \in Settled
  <2>1. CASE ApiInsert(s)
    <3>1. status[s] = "none" /\ status' = [status EXCEPT ![s] = "submitted"]
      BY <1>0, <2>1 DEF ApiInsert, Untouched, Unknown
    <3> QED
      BY <1>0, <3>1 DEF TypeOK, Settled
  <2>2. CASE ApiDelete(s)
    <3>1. status' = [status EXCEPT ![s] = "deleted"]
      BY <2>2 DEF ApiDelete
    <3> QED
      BY <1>0, <3>1 DEF TypeOK, Settled
  <2>3. CASE HandlerUpdate(s)
    <3>1. SetStatus(s, "queued")
      BY <2>3 DEF HandlerUpdate
    <3> QED
      BY <1>0, <3>1, VerdictStays
  <2>4. \/ status' = status \/ ApiInsert(s) \/ ApiDelete(s) \/ HandlerUpdate(s)
    BY DEF Api, ApiStoreFile, ApiPublish, ApiFail, Age, ExpireFile, HandlerStep, HandlerEnqueue,
       HandlerFail, BackoffOver, Stalled
  <2> QED
    BY <2>1, <2>2, <2>3, <2>4
<1>2. \A t \in Submissions : job'[t].state = "completed" => job[t].state = "completed"
  <2>1. CASE HandlerEnqueue(s)
    <3>1. EnqueueSubmissionIntake(s, Requested(s))
      BY <2>1 DEF HandlerEnqueue
    <3> QED
      BY <1>0, <3>1, EnqueueAdds
  <2>2. CASE BackoffOver(s) \/ Stalled(s)
    <3>1. job \in [Submissions -> JobType]
      BY <1>0 DEF TypeOK
    <3>2. CASE BackoffOver(s)
      BY <3>1, <3>2 DEF BackoffOver, JobType
    <3>3. CASE Stalled(s)
      BY <3>1, <3>3 DEF Stalled, JobType
    <3> QED
      BY <2>2, <3>2, <3>3
  <2>3. job' = job \/ HandlerEnqueue(s) \/ BackoffOver(s) \/ Stalled(s)
    <3>1. CASE Api(s) \/ ApiFail(s) \/ ApiDelete(s)
      BY <3>1 DEF Api, ApiInsert, ApiStoreFile, ApiPublish, ApiFail, ApiDelete
    <3>2. CASE Age(s) \/ ExpireFile(s)
      BY <3>2 DEF Age, ExpireFile
    <3>3. CASE HandlerStep(s) \/ HandlerFail(s)
      BY <3>3 DEF HandlerStep, HandlerUpdate, HandlerFail
    <3> QED
      BY <3>1, <3>2, <3>3
  <2> QED
    BY <2>1, <2>2, <2>3
<1>3. \A w \in Slots : run'[w].pc = run[w].pc /\ run'[w].sub = run[w].sub
  <2>1. CASE ApiDelete(s)
    BY <1>0, <2>1 DEF ApiDelete, TypeOK, RunType
  <2>2. run' = run \/ ApiDelete(s)
    BY DEF Api, ApiInsert, ApiStoreFile, ApiPublish, ApiFail, Age, ExpireFile,
       HandlerStep, HandlerUpdate, HandlerEnqueue, HandlerFail, BackoffOver, Stalled
  <2> QED
    BY <2>1, <2>2
<1> QED
  BY <1>0, <1>1, <1>2, <1>3, LateKeeps

LEMMA SweepLate ==
  ASSUME VerdictInv, NEW k \in Sweepers, SweepStep(k) \/ SweepFail(k)
  PROVE  VerdictStep
<1> USE DEF front, back
<1> DEFINE c == sweep[k].cur
<1>0. TypeOK /\ DoneOK /\ RunsLate
  BY DEF VerdictInv
<1>1. UNCHANGED run
  BY DEF SweepStep, SweepFail, SweepSelect, SweepExists, SweepClose, SweepMark, SweepEnqueue
<1>2. sweep[k].pc \in {"close", "mark", "enqueue"} => c \in Submissions
  BY <1>0 DEF TypeOK, BusySweeps, SweepType
<1>3. status' = status \/ \E v \in Statuses : c \in Submissions /\ SetStatusIfSubmitted(c, v)
  BY <1>2 DEF SweepStep, SweepFail, SweepSelect, SweepExists, SweepClose, SweepMark, SweepEnqueue, Statuses
<1>4. \A t \in Submissions : status[t] \in Settled => status'[t] \in Settled
  BY <1>0, <1>3, VerdictStays
<1>5. \A t \in Submissions : job'[t].state = "completed" => job[t].state = "completed"
  <2>1. job' = job \/ (c \in Submissions /\ EnqueueSubmissionIntake(c, "default"))
    BY <1>2 DEF SweepStep, SweepFail, SweepSelect, SweepExists, SweepClose, SweepMark, SweepEnqueue
  <2> QED
    BY <1>0, <2>1, EnqueueAdds
<1> QED
  BY <1>0, <1>1, <1>4, <1>5, LateKeeps

(* A step inside a call: its writes are seen by no other call.              *)
LEMMA CallLate ==
  ASSUME VerdictInv, NEW w \in Slots,
         \/ RunBegin(w) \/ StepStart(w) \/ StepEnd(w) \/ RunReview(w) \/ RunAlert(w)
         \/ RunMarkFailed(w) \/ RunFault(w)
  PROVE  VerdictStep
<1> USE DEF front, back
<1> DEFINE q == run[w].sub
<1>0. TypeOK /\ LockHeld /\ DoneOK /\ RunsLate
  BY DEF VerdictInv
<1>1. /\ UNCHANGED job /\ run[w].pc # "idle"
      /\ \A v \in Slots : run'[v].sub = run[v].sub /\ (v # w => run'[v].pc = run[v].pc)
      /\ status' = status \/ \E x \in {"analyzing", "review"} : SetStatus(q, x)
  BY <1>0, CallMoves
<1>2. q \in Submissions /\ job[q].state = "active" /\ job[q].lock = w
  BY <1>0, <1>1, RunFields DEF LockHeld
<1>3. \A t \in Submissions : t # q => status'[t] = status[t]
  BY <1>0, <1>1 DEF SetStatus, TypeOK
<1>4. run'[w].pc \in {"alert", "finish"} => status'[q] \in Settled
  <2>1. run \in [Slots -> RunType] /\ run[w] \in RunType
    BY <1>0 DEF TypeOK
  <2>2. CASE RunReview(w)
    <3>1. SetStatus(q, "review")
      BY <2>2 DEF RunReview
    <3> QED
      BY <1>0, <1>2, <3>1 DEF SetStatus, TypeOK, Settled
  <2>3. CASE RunAlert(w) \/ RunAlertFail(w)
    BY <1>0, <2>3 DEF RunAlert, RunAlertFail, RunsLate
  <2>4. CASE RunBegin(w) \/ RunError(w)
    BY <2>1, <2>4 DEF RunBegin, RunError, GotoPc, RunType
  <2>5. CASE StepStart(w)
    BY <2>1, <2>5 DEF StepStart, RunType
  <2>6. CASE StepEnd(w)
    BY <2>1, <2>6 DEF StepEnd, RunType
  <2>7. CASE RunMarkFailed(w)
    <3>1. run'[w] = [run[w] EXCEPT !.pc = "rethrow", !.row = "none"]
      BY <2>7 DEF RunMarkFailed
    <3> QED
      BY <2>1, <3>1 DEF RunType
  <2>8. CASE RunMarkFailedFails(w)
    <3>1. run'[w] = [run[w] EXCEPT !.pc = "rethrow", !.row = "none"]
      BY <2>1, <2>8 DEF RunMarkFailedFails
    <3> QED
      BY <2>1, <3>1 DEF RunType
  <2> QED
    BY <2>2, <2>3, <2>4, <2>5, <2>6, <2>7, <2>8 DEF RunFault
<1>5. ASSUME NEW v \in Slots, run'[v].pc \in {"alert", "finish"} PROVE status'[run'[v].sub] \in Settled
  <2>1. CASE v = w
    BY <1>1, <1>4, <1>5, <2>1
  <2>2. CASE v # w
    <3>1. run'[v].sub = run[v].sub /\ run[v].pc \in {"alert", "finish"}
      BY <1>1, <1>5, <2>2
    <3>2. run[v].sub \in Submissions /\ run[v].sub # None
      BY <1>0, <3>1, RunFields
    <3>3. run[v].sub # q
      BY <1>0, <1>2, <2>2, <3>2 DEF LockHeld
    <3> QED
      BY <1>0, <1>3, <3>1, <3>2, <3>3 DEF RunsLate
  <2> QED
    BY <2>1, <2>2
<1>6. \A t \in Submissions : job[t].state = "completed" => t # q
  BY <1>2
<1>7. DoneOK'
  BY <1>0, <1>1, <1>3, <1>6 DEF DoneOK
<1> QED
  BY <1>5, <1>7 DEF VerdictStep, RunsLate

LEMMA SlotLate ==
  ASSUME VerdictInv, NEW w \in Slots, TakeJob(w) \/ LoseLock(w) \/ RunStep(w) \/ RunFault(w)
  PROVE  VerdictStep
<1> USE DEF front, back
<1> DEFINE q == run[w].sub
<1>0. TypeOK /\ LockHeld /\ DoneOK /\ RunsLate
  BY DEF VerdictInv
<1>1. CASE TakeJob(w)
  <2>1. PICK s \in Submissions :
          /\ job' = [job EXCEPT ![s].state = "active", ![s].lock = w]
          /\ run' = [run EXCEPT ![w] = [IdleRun EXCEPT !.sub = s, !.pc = "begin", !.wf = job[s].wf]]
    BY <1>1 DEF TakeJob
  <2>2. UNCHANGED status
    BY <1>1 DEF TakeJob
  <2>3. \A t \in Submissions : job'[t] = job[t] \/ job'[t].state = "active"
    BY <1>0, <2>1 DEF TypeOK, JobType
  <2>4. \A v \in Slots : run'[v] = run[v] \/ run'[v].pc = "begin"
    BY <1>0, <2>1 DEF TypeOK, IdleRun
  <2> QED
    BY <1>0, <2>2, <2>3, <2>4, LateKeeps
<1>2. CASE LoseLock(w)
  <2>1. UNCHANGED <<status, run>> /\ job' = [job EXCEPT ![q].lock = None]
    BY <1>2 DEF LoseLock
  <2>2. \A t \in Submissions : job'[t].state = job[t].state
    BY <1>0, <2>1 DEF TypeOK, JobType
  <2> QED
    BY <1>0, <2>1, <2>2, LateKeeps
<1>3. ASSUME RunComplete(w) \/ RunRethrow(w)
      PROVE  /\ q \in Submissions /\ UNCHANGED status
             /\ \A v \in Slots : run'[v] = run[v] \/ run'[v].pc = "idle"
  <2>1. q \in Submissions
    BY <1>0, <1>3, RunFields DEF RunComplete, RunRethrow
  <2>2. UNCHANGED status /\ run' = [run EXCEPT ![w] = IdleRun]
    BY <1>3 DEF RunComplete, RunRethrow
  <2> QED
    BY <1>0, <2>1, <2>2 DEF TypeOK, IdleRun
<1>4. CASE RunRethrow(w)
  <2>1. \A t \in Submissions : job'[t] = job[t] \/ job'[t].state \in {"delayed", "failed"}
    BY <1>0, <1>3, <1>4 DEF RunRethrow, TypeOK, JobType
  <2> QED
    BY <1>0, <1>3, <1>4, <2>1, LateKeeps
<1>5. CASE RunComplete(w)
  <2>1. \A t \in Submissions : job'[t] = job[t] \/ t = q
    BY <1>0, <1>3, <1>5 DEF RunComplete, TypeOK, JobType
  <2>2. status[q] \in Settled
    BY <1>0, <1>5 DEF RunComplete, RunsLate
  <2>3. DoneOK'
    BY <1>0, <1>3, <1>5, <2>1, <2>2 DEF DoneOK
  <2>4. RunsLate'
    BY <1>0, <1>3, <1>5 DEF RunsLate
  <2> QED
    BY <2>3, <2>4 DEF VerdictStep
<1> QED
  BY <1>1, <1>2, <1>4, <1>5, CallLate DEF RunStep

LEMMA ProcessLate ==
  ASSUME VerdictInv, Drain \/ Crash \/ Exited \/ Restart \/ UNCHANGED vars
  PROVE  VerdictStep
<1> USE DEF front, back
<1>0. TypeOK /\ DoneOK /\ RunsLate
  BY DEF VerdictInv
<1>1. CASE Drain \/ Restart \/ UNCHANGED vars
  BY <1>0, <1>1, LateKeeps DEF Drain, Restart, vars
<1>2. CASE Exit
  <2>1. UNCHANGED status /\ \A w \in Slots : run'[w].pc = "idle"
    BY <1>2 DEF Exit, IdleRun
  <2>2. \A s \in Submissions : job'[s].state = job[s].state
    BY <1>0, <1>2 DEF Exit, TypeOK, JobType
  <2> QED
    BY <1>0, <2>1, <2>2, LateKeeps
<1> QED
  BY <1>1, <1>2 DEF Crash, Exited

LEMMA InitVerdict == Init => VerdictInv
<1> SUFFICES ASSUME Init PROVE VerdictInv
  OBVIOUS
<1>1. TypeOK
  BY InitType
<1>2. LockHeld
  BY PipelineAssumption DEF Init, LockHeld, IdleRun, NoJob
<1>3. Untouched
  BY PipelineAssumption DEF Init, Untouched, Unknown, NoJob, IdleSweep
<1>4. DoneOK /\ RunsLate
  BY DEF Init, DoneOK, NoJob, RunsLate, IdleRun
<1> QED
  BY <1>1, <1>2, <1>3, <1>4 DEF VerdictInv

LEMMA NextVerdict == ASSUME "lockLoss" \notin FaultKinds, VerdictInv, [Next]_vars PROVE VerdictInv'
<1>1. TypeOK' /\ LockHeld' /\ Untouched'
  BY NextType, LockStep, UntouchedStep DEF VerdictInv
<1>2. VerdictStep
  BY OutsideLate, SweepLate, SlotLate, ProcessLate DEF Next
<1> QED
  BY <1>1, <1>2 DEF VerdictInv, VerdictStep

THEOREM VerdictInvariant == ASSUME "lockLoss" \notin FaultKinds PROVE Spec => []VerdictInv
<1>1. VerdictInv /\ [Next]_vars => VerdictInv'
  BY NextVerdict
<1> QED
  BY <1>1, InitVerdict, PTL DEF Spec

(* A completed job has left a verdict in submissions.status, or the late    *)
(* notification has put 'queued' over it, or the row is gone                *)
(* (runSubmissionWorkflow, handleNewSubmission).                            *)
THEOREM CompletedHasVerdict ==
  ASSUME "lockLoss" \notin FaultKinds PROVE Spec => []CompletedIsSettled
<1>1. VerdictInv => CompletedIsSettled
  BY DEF VerdictInv, DoneOK, Settled, CompletedIsSettled
<1> QED
  BY <1>1, VerdictInvariant, PTL

----------------------------------------------------------------------------
(* The pipeline implements SubmissionLifecycle, with one sweep at a time and *)
(* no lost lock.                                                            *)

LifeInv == WorkInv /\ VerdictInv

Work == [s \in Submissions |-> WorkOn(s)]

(* A step of the lifecycle or none.                                         *)
Mapped == [Lifecycle!Next]_(Lifecycle!lifecycleVars)

LEMMA WorkStays ==
  ASSUME \A s \in Submissions : job'[s].state = job[s].state /\ (job'[s].lock = None <=> job[s].lock = None)
  PROVE  Work' = Work
<1>1. \A s \in Submissions : WorkOn(s)' = WorkOn(s)
  BY DEF WorkOn
<1> QED
  BY <1>1 DEF Work

LEMMA WorkMoves ==
  ASSUME NEW s \in Submissions, \A t \in Submissions : t # s => job'[t] = job[t]
  PROVE  Work' = [Work EXCEPT ![s] = WorkOn(s)']
<1>1. \A t \in Submissions : t # s => WorkOn(t)' = WorkOn(t)
  BY DEF WorkOn
<1> QED
  BY <1>1 DEF Work

LEMMA Stutters == ASSUME status' = status, Work' = Work PROVE Mapped
  BY DEF Mapped, Work, Lifecycle!lifecycleVars

LEMMA StatusMoves ==
  ASSUME NEW s \in Submissions, NEW v, Work' = Work, status' = [status EXCEPT ![s] = v],
         \/ v = "submitted" /\ status[s] = "none"
         \/ v \in {"queued", "deleted"} /\ status[s] \notin {"none", "deleted"}
         \/ v = "closed" /\ status[s] = "submitted"
         \/ v \in {"analyzing", "review"} /\ status[s] \in {"queued", "analyzing", "review"}
              /\ Work[s] = "running"
  PROVE  Mapped
<1> USE DEF Lifecycle!SetStatus, Work
<1>1. CASE v = "submitted" /\ status[s] = "none"
  <2>1. Lifecycle!Create(s)
    BY <1>1 DEF Lifecycle!Create
  <2> QED
    BY <2>1 DEF Mapped, Lifecycle!Next
<1>2. CASE v = "queued" /\ status[s] \notin {"none", "deleted"}
  <2>1. Lifecycle!Accept(s)
    BY <1>2 DEF Lifecycle!Accept
  <2> QED
    BY <2>1 DEF Mapped, Lifecycle!Next
<1>3. CASE v = "deleted" /\ status[s] \notin {"none", "deleted"}
  <2>1. Lifecycle!Delete(s)
    BY <1>3 DEF Lifecycle!Delete
  <2> QED
    BY <2>1 DEF Mapped, Lifecycle!Next
<1>4. CASE v = "closed" /\ status[s] = "submitted"
  <2>1. Lifecycle!Close(s)
    BY <1>4 DEF Lifecycle!Close
  <2> QED
    BY <2>1 DEF Mapped, Lifecycle!Next
<1>5. CASE v = "analyzing" /\ status[s] \in {"queued", "analyzing", "review"} /\ Work[s] = "running"
  <2>1. Lifecycle!Analyze(s)
    BY <1>5 DEF Lifecycle!Analyze
  <2> QED
    BY <2>1 DEF Mapped, Lifecycle!Next
<1>6. CASE v = "review" /\ status[s] \in {"queued", "analyzing", "review"} /\ Work[s] = "running"
  <2>1. Lifecycle!Conclude(s)
    BY <1>6 DEF Lifecycle!Conclude
  <2> QED
    BY <2>1 DEF Mapped, Lifecycle!Next
<1> QED
  BY <1>1, <1>2, <1>3, <1>4, <1>5, <1>6

LEMMA JobMoves ==
  ASSUME NEW s \in Submissions, NEW v, status' = status, Work' = [Work EXCEPT ![s] = v],
         \/ v = Work[s]
         \/ v = "pending" /\ Work[s] = "none" /\ status[s] \notin {"none", "submitted"}
         \/ v = "running" /\ Work[s] = "pending"
         \/ v = "done" /\ Work[s] = "running" /\ status[s] \in Settled
         \/ v = "failed" /\ Work[s] \in {"pending", "running"}
         \/ v = "pending" /\ Work[s] = "running"
  PROVE  Mapped
<1> USE DEF Lifecycle!SetWork, Work
<1>1. CASE v = Work[s]
  <2>1. Work' = Work
    BY <1>1
  <2> QED
    BY <2>1, Stutters
<1>2. CASE v = "pending" /\ Work[s] = "none" /\ status[s] \notin {"none", "submitted"}
  <2>1. Lifecycle!Enlist(s)
    BY <1>2 DEF Lifecycle!Enlist
  <2> QED
    BY <2>1 DEF Mapped, Lifecycle!Next
<1>3. CASE v = "running" /\ Work[s] = "pending"
  <2>1. Lifecycle!Take(s)
    BY <1>3 DEF Lifecycle!Take
  <2> QED
    BY <2>1 DEF Mapped, Lifecycle!Next
<1>4. CASE v = "done" /\ Work[s] = "running" /\ status[s] \in Settled
  <2>1. Lifecycle!Finish(s)
    BY <1>4 DEF Lifecycle!Finish, Settled
  <2> QED
    BY <2>1 DEF Mapped, Lifecycle!Next
<1>5. CASE v = "failed" /\ Work[s] \in {"pending", "running"}
  <2>1. Lifecycle!GiveUp(s)
    BY <1>5 DEF Lifecycle!GiveUp
  <2> QED
    BY <2>1 DEF Mapped, Lifecycle!Next
<1>6. CASE v = "pending" /\ Work[s] = "running"
  <2>1. Work' = [t \in Submissions |-> IF t \in {s} THEN "pending" ELSE Work[t]]
    BY <1>6
  <2>2. Lifecycle!Release({s})
    BY <1>6, <2>1 DEF Lifecycle!Release
  <2> QED
    BY <2>2 DEF Mapped, Lifecycle!Next
<1> QED
  BY <1>1, <1>2, <1>3, <1>4, <1>5, <1>6

LEMMA EnqueueMaps ==
  ASSUME LifeInv, NEW s \in Submissions, NEW wf, status' = status, status[s] \in Worked,
         EnqueueSubmissionIntake(s, wf)
  PROVE  Mapped
<1>1. CASE job' = job
  BY <1>1, WorkStays, Stutters
<1>2. CASE job' # job
  <2>0. TypeOK
    BY DEF LifeInv, WorkInv, VerdictInv
  <2>1. job[s].state = "none" /\ job' = [job EXCEPT ![s] = [NoJob EXCEPT !.state = "wait", !.wf = wf]]
    BY <1>2 DEF EnqueueSubmissionIntake
  <2>2. job'[s].state = "wait" /\ \A t \in Submissions : t # s => job'[t] = job[t]
    BY <2>0, <2>1 DEF TypeOK, NoJob
  <2>3. WorkOn(s)' = "pending" /\ Work[s] = "none"
    BY <2>1, <2>2 DEF WorkOn, Work
  <2>4. Work' = [Work EXCEPT ![s] = "pending"]
    BY <2>2, <2>3, WorkMoves
  <2>5. status[s] \notin {"none", "submitted"}
    BY DEF Worked
  <2> QED
    BY <2>3, <2>4, <2>5, JobMoves
<1> QED
  BY <1>1, <1>2

LEMMA SetStatusMaps ==
  ASSUME LifeInv, NEW s \in Submissions, UNCHANGED job, NEW v, SetStatus(s, v),
         \/ v = "queued" /\ status[s] # "none"
         \/ v \in {"analyzing", "review"} /\ status[s] \in Worked /\ Work[s] = "running"
  PROVE  Mapped
<1>1. Work' = Work
  BY WorkStays
<1>2. CASE status[s] = "deleted"
  BY <1>1, <1>2, Stutters DEF SetStatus
<1>3. CASE status[s] # "deleted"
  <2>1. status' = [status EXCEPT ![s] = v]
    BY <1>3 DEF SetStatus
  <2> QED
    BY <1>1, <1>3, <2>1, StatusMoves DEF Worked
<1> QED
  BY <1>2, <1>3

LEMMA SetIfSubmittedMaps ==
  ASSUME NEW s \in Submissions, UNCHANGED job, NEW v \in {"closed", "queued"}, SetStatusIfSubmitted(s, v)
  PROVE  Mapped
<1>1. Work' = Work
  BY WorkStays
<1>2. CASE status[s] # "submitted"
  BY <1>1, <1>2, Stutters DEF SetStatusIfSubmitted
<1>3. CASE status[s] = "submitted"
  <2>1. status' = [status EXCEPT ![s] = v]
    BY <1>3 DEF SetStatusIfSubmitted
  <2> QED
    BY <1>1, <1>3, <2>1, StatusMoves
<1> QED
  BY <1>2, <1>3

LEMMA SubmissionMaps ==
  ASSUME LifeInv, NEW s \in Submissions,
         \/ Api(s) \/ ApiFail(s) \/ ApiDelete(s) \/ Age(s) \/ ExpireFile(s)
         \/ HandlerStep(s) \/ HandlerFail(s) \/ BackoffOver(s) \/ Stalled(s)
  PROVE  Mapped
<1> USE DEF front, back
<1>0. TypeOK /\ FrontOK
  BY DEF LifeInv, WorkInv, VerdictInv
<1>1. CASE ApiInsert(s)
  <2>1. status[s] = "none" /\ status' = [status EXCEPT ![s] = "submitted"] /\ UNCHANGED job
    BY <1>0, <1>1 DEF ApiInsert, FrontOK
  <2> QED
    BY <2>1, WorkStays, StatusMoves
<1>2. CASE ApiDelete(s)
  <2>1. /\ status[s] \notin {"none", "deleted"} /\ status' = [status EXCEPT ![s] = "deleted"]
        /\ UNCHANGED job
    BY <1>2 DEF ApiDelete
  <2> QED
    BY <2>1, WorkStays, StatusMoves
<1>3. CASE \/ ApiStoreFile(s) \/ ApiPublish(s) \/ ApiFail(s) \/ Age(s) \/ ExpireFile(s) \/ HandlerFail(s)
  <2>1. UNCHANGED <<status, job>>
    BY <1>3 DEF ApiStoreFile, ApiPublish, ApiFail, Age, ExpireFile, HandlerFail
  <2> QED
    BY <2>1, WorkStays, Stutters
<1>4. CASE HandlerUpdate(s)
  <2>1. SetStatus(s, "queued") /\ UNCHANGED job /\ status[s] # "none"
    BY <1>0, <1>4 DEF HandlerUpdate, FrontOK
  <2> QED
    BY <2>1, SetStatusMaps
<1>5. CASE HandlerEnqueue(s)
  <2>1. status' = status /\ status[s] \in Worked /\ EnqueueSubmissionIntake(s, Requested(s))
    BY <1>0, <1>5 DEF HandlerEnqueue, FrontOK
  <2> QED
    BY <2>1, EnqueueMaps
<1>6. CASE BackoffOver(s) \/ Stalled(s)
  <2>1. /\ UNCHANGED status /\ \A t \in Submissions : t # s => job'[t] = job[t]
        /\ job'[s].state \in {"wait", "failed"}
    BY <1>0, <1>6 DEF BackoffOver, Stalled, TypeOK, JobType
  <2>2. Work[s] = "pending"
    BY <1>6 DEF BackoffOver, Stalled, WorkOn, Work
  <2>3. WorkOn(s)' \in {"pending", "failed"}
    BY <2>1 DEF WorkOn
  <2>4. Work' = [Work EXCEPT ![s] = WorkOn(s)']
    BY <2>1, WorkMoves
  <2> QED
    BY <2>1, <2>2, <2>3, <2>4, JobMoves
<1> QED
  BY <1>1, <1>2, <1>3, <1>4, <1>5, <1>6 DEF Api, HandlerStep

LEMMA SweepMaps ==
  ASSUME LifeInv, NEW k \in Sweepers, SweepStep(k) \/ SweepFail(k)
  PROVE  Mapped
<1> USE DEF front, back
<1>0. TypeOK /\ SweepsOK
  BY DEF LifeInv, WorkInv, VerdictInv
<1>1. sweep[k].pc \in {"close", "mark", "enqueue"} => sweep[k].cur \in Submissions
  BY <1>0 DEF TypeOK, BusySweeps, SweepType
<1>2. CASE SweepSelect(k) \/ SweepExists(k) \/ SweepFail(k)
  <2>1. UNCHANGED <<status, job>>
    BY <1>2 DEF SweepSelect, SweepExists, SweepFail
  <2> QED
    BY <2>1, WorkStays, Stutters
<1>3. CASE SweepClose(k) \/ SweepMark(k)
  <2>1. /\ UNCHANGED job /\ sweep[k].cur \in Submissions
        /\ SetStatusIfSubmitted(sweep[k].cur, "closed") \/ SetStatusIfSubmitted(sweep[k].cur, "queued")
    BY <1>1, <1>3 DEF SweepClose, SweepMark
  <2> QED
    BY <2>1, SetIfSubmittedMaps
<1>4. CASE SweepEnqueue(k)
  <2>1. /\ UNCHANGED status /\ sweep[k].cur \in Submissions /\ status[sweep[k].cur] \in Worked
        /\ EnqueueSubmissionIntake(sweep[k].cur, "default")
    BY <1>0, <1>1, <1>4 DEF SweepEnqueue, SweepsOK
  <2> QED
    BY <2>1, EnqueueMaps
<1> QED
  BY <1>2, <1>3, <1>4 DEF SweepStep

LEMMA SlotMaps ==
  ASSUME LifeInv, NEW w \in Slots, TakeJob(w) \/ RunStep(w) \/ RunFault(w)
  PROVE  Mapped
<1> USE DEF front, back
<1> DEFINE q == run[w].sub
<1>0. TypeOK /\ LockHeld /\ FrontOK /\ RunsLate /\ None \notin Slots
  BY PipelineAssumption DEF LifeInv, WorkInv, VerdictInv
<1>1. ASSUME run[w].pc # "idle"
      PROVE  /\ q \in Submissions /\ q # None /\ job[q].state = "active" /\ job[q].lock = w
             /\ status[q] \in Worked /\ Work[q] = "running"
  <2>1. q \in Submissions /\ q # None
    BY <1>0, <1>1, RunFields
  <2>2. job[q].state = "active" /\ job[q].lock = w
    BY <1>0, <2>1 DEF LockHeld
  <2>3. status[q] \in Worked
    BY <1>0, <2>1, <2>2 DEF FrontOK
  <2>4. Work[q] = "running"
    BY <1>0, <2>1, <2>2 DEF Work, WorkOn
  <2> QED
    BY <2>1, <2>2, <2>3, <2>4
<1>2. CASE TakeJob(w)
  <2>1. PICK s \in Submissions :
          job[s].state = "wait" /\ job' = [job EXCEPT ![s].state = "active", ![s].lock = w]
    BY <1>2 DEF TakeJob
  <2>2. /\ job'[s].state = "active" /\ job'[s].lock = w
        /\ \A t \in Submissions : t # s => job'[t] = job[t]
    BY <1>0, <2>1 DEF TypeOK, JobType
  <2>3. WorkOn(s)' = "running" /\ Work[s] = "pending"
    BY <1>0, <2>1, <2>2 DEF Work, WorkOn
  <2>4. Work' = [Work EXCEPT ![s] = "running"]
    BY <2>2, <2>3, WorkMoves
  <2>5. UNCHANGED status
    BY <1>2 DEF TakeJob
  <2> QED
    BY <2>3, <2>4, <2>5, JobMoves
<1>3. CASE RunBegin(w) \/ StepStart(w) \/ RunReview(w)
  <2>1. run[w].pc # "idle" /\ UNCHANGED job
    BY <1>3 DEF RunBegin, StepStart, RunReview
  <2>2. SetStatus(q, "analyzing") \/ SetStatus(q, "review") \/ UNCHANGED status
    BY <1>3 DEF RunBegin, StepStart, RunReview
  <2>3. CASE UNCHANGED status
    BY <2>1, <2>3, WorkStays, Stutters
  <2>4. CASE SetStatus(q, "analyzing") \/ SetStatus(q, "review")
    BY <1>1, <2>1, <2>4, SetStatusMaps
  <2> QED
    BY <2>2, <2>3, <2>4
<1>4. CASE StepEnd(w) \/ RunAlert(w) \/ RunMarkFailed(w) \/ RunFault(w)
  <2>1. UNCHANGED <<status, job>>
    BY <1>4 DEF StepEnd, RunAlert, RunMarkFailed, RunFault, RunError, RunAlertFail, RunMarkFailedFails
  <2> QED
    BY <2>1, WorkStays, Stutters
<1>5. CASE RunComplete(w)
  <2>1. PICK s \in Submissions : s = q
    BY <1>1, <1>5 DEF RunComplete
  <2>2. job[s].lock = w /\ Work[s] = "running" /\ UNCHANGED status /\ status[s] \in Settled
    BY <1>0, <1>1, <1>5, <2>1 DEF RunComplete, RunsLate
  <2>3. job'[s].state = "completed" /\ \A t \in Submissions : t # s => job'[t] = job[t]
    BY <1>0, <1>5, <2>1, <2>2 DEF RunComplete, TypeOK, JobType
  <2>4. WorkOn(s)' = "done"
    BY <2>3 DEF WorkOn
  <2>5. Work' = [Work EXCEPT ![s] = "done"]
    BY <2>3, <2>4, WorkMoves
  <2> QED
    BY <2>2, <2>5, JobMoves
<1>6. CASE RunRethrow(w)
  <2>1. PICK s \in Submissions : s = q
    BY <1>1, <1>6 DEF RunRethrow
  <2>2. job[s].lock = w /\ Work[s] = "running" /\ UNCHANGED status
    BY <1>1, <1>6, <2>1 DEF RunRethrow
  <2>3. job'[s].state \in {"delayed", "failed"} /\ \A t \in Submissions : t # s => job'[t] = job[t]
    BY <1>0, <1>6, <2>1, <2>2 DEF RunRethrow, TypeOK, JobType
  <2>4. WorkOn(s)' \in {"pending", "failed"}
    BY <2>3 DEF WorkOn
  <2>5. Work' = [Work EXCEPT ![s] = WorkOn(s)']
    BY <2>3, WorkMoves
  <2> QED
    BY <2>2, <2>4, <2>5, JobMoves
<1> QED
  BY <1>2, <1>3, <1>4, <1>5, <1>6 DEF RunStep

(* A process that dies releases all the work it was at.                     *)
LEMMA ProcessMaps ==
  ASSUME LifeInv, Drain \/ Crash \/ Exited \/ Restart \/ UNCHANGED vars
  PROVE  Mapped
<1> USE DEF front, back
<1>1. CASE Drain \/ Restart \/ UNCHANGED vars
  <2>1. UNCHANGED <<status, job>>
    BY <1>1 DEF Drain, Restart, vars
  <2> QED
    BY <2>1, WorkStays, Stutters
<1>2. CASE Exit
  <2> DEFINE S == {s \in Submissions : Work[s] = "running"}
  <2>1. UNCHANGED status /\ \A s \in Submissions : job'[s].state = job[s].state /\ job'[s].lock = None
    <3>1. job \in [Submissions -> JobType]
      BY DEF LifeInv, WorkInv, VerdictInv, TypeOK
    <3> QED
      BY <1>2, <3>1 DEF Exit, JobType
  <2>2. \A s \in Submissions : WorkOn(s)' = IF s \in S THEN "pending" ELSE Work[s]
    BY <2>1 DEF WorkOn, Work
  <2>3. Work' = [s \in Submissions |-> IF s \in S THEN "pending" ELSE Work[s]]
    BY <2>2 DEF Work
  <2>4. CASE S = {}
    <3>1. Work' = Work
      BY <2>3, <2>4 DEF Work
    <3> QED
      BY <2>1, <3>1, Stutters
  <2>5. CASE S # {}
    <3> HIDE DEF S
    <3>1. \A s \in S : Work[s] = "running"
      BY DEF S
    <3>2. Lifecycle!Release(S)
      BY <2>1, <2>3, <2>5, <3>1 DEF Lifecycle!Release, Work
    <3>3. S \in SUBSET Submissions
      BY DEF S
    <3> QED
      BY <3>2, <3>3 DEF Mapped, Lifecycle!Next
  <2> QED
    BY <2>4, <2>5
<1> QED
  BY <1>1, <1>2 DEF Crash, Exited

LEMMA NextMaps == "lockLoss" \notin FaultKinds /\ LifeInv /\ [Next]_vars => Mapped
<1> SUFFICES ASSUME "lockLoss" \notin FaultKinds, LifeInv, [Next]_vars PROVE Mapped
  OBVIOUS
<1>1. \A w \in Slots : ~LoseLock(w)
  BY DEF LoseLock, Fault
<1> QED
  BY <1>1, SubmissionMaps, SweepMaps, SlotMaps, ProcessMaps DEF Next

(* What a reader of the API may rely on: nothing returns to 'submitted',    *)
(* only 'submitted' becomes 'closed', only the one running job analyses and *)
(* concludes, and a job is added once, for a submission that was accepted   *)
(* (the writes of submissions.status in submissionService.ts, index.ts and  *)
(* submissionWorkflow.ts).                                                  *)
THEOREM ImplementsLifecycle ==
  ASSUME "lockLoss" \notin FaultKinds, \A k, l \in Sweepers : k = l
  PROVE  Spec => FollowsLifecycle
<1>1. Init => Lifecycle!Init
  <2>1. ASSUME Init PROVE \A s \in Submissions : WorkOn(s) = "none"
    BY <2>1 DEF Init, NoJob, WorkOn
  <2> QED
    BY <2>1 DEF Init, Lifecycle!Init
<1>2. LifeInv /\ [Next]_vars => [Lifecycle!Next]_(Lifecycle!lifecycleVars)
  BY NextMaps DEF Mapped
<1> QED
  BY <1>1, <1>2, WorkInvariant, VerdictInvariant, PTL DEF LifeInv, Spec, FollowsLifecycle, Lifecycle!Spec

----------------------------------------------------------------------------
(* The counts that hold with every fault: deliveries, alerts, calls.        *)

(* What a step may do to a job, and which counts that leaves: without any   *)
(* fault excluded.                                                          *)
DeliveryStep(j, k) ==
  \/ /\ k.state = j.state /\ k.lock \in {j.lock, None}
     /\ k.attempts = j.attempts /\ k.stalls = j.stalls
  \/ /\ j.state = "none" /\ k.state = "wait" /\ k.lock = None /\ k.attempts = 0 /\ k.stalls = 0
  \/ /\ j.state = "wait" /\ k.state = "active"
     /\ k.attempts = j.attempts /\ k.stalls = j.stalls
  \/ /\ j.state = "delayed" /\ k.state = "wait" /\ k.lock = j.lock
     /\ k.attempts = j.attempts /\ k.stalls = j.stalls
  \/ /\ j.state = "active" /\ j.lock = None /\ k.lock = None
     /\ k.attempts = j.attempts /\ k.stalls = j.stalls + 1
     /\ k.state = IF j.stalls = 0 THEN "wait" ELSE "failed"
  \/ /\ j.lock # None /\ k.lock = None /\ k.state = "completed"
     /\ k.attempts = j.attempts /\ k.stalls = j.stalls
  \/ /\ j.lock # None /\ k.lock = None
     /\ k.attempts = j.attempts + 1 /\ k.stalls = j.stalls
     /\ k.state = IF j.attempts + 1 < MaxAttempts THEN "delayed" ELSE "failed"

LEMMA JobGoesOn ==
  ASSUME TypeOK, [Next]_vars, NEW s \in Submissions
  PROVE  DeliveryStep(job[s], job'[s])
<1> USE DEF front, back
<1>0. job \in [Submissions -> JobType] /\ job[s] \in JobType
  BY DEF TypeOK
<1>1. CASE job'[s] = job[s]
  BY <1>1 DEF DeliveryStep
<1>2. ASSUME NEW t \in Submissions, NEW wf, EnqueueSubmissionIntake(t, wf), job'[s] # job[s]
      PROVE  DeliveryStep(job[s], job'[s])
  <2>1. s = t /\ job[s].state = "none" /\ job'[s] = [NoJob EXCEPT !.state = "wait", !.wf = wf]
    BY <1>0, <1>2 DEF EnqueueSubmissionIntake
  <2>2. job'[s].state = "wait" /\ job'[s].lock = None /\ job'[s].attempts = 0 /\ job'[s].stalls = 0
    BY <2>1 DEF NoJob
  <2> QED
    BY <2>1, <2>2 DEF DeliveryStep
<1>3. ASSUME NEW t \in Submissions, BackoffOver(t) \/ Stalled(t), job'[s] # job[s]
      PROVE  DeliveryStep(job[s], job'[s])
  <2>1. t = s
    BY <1>0, <1>3 DEF BackoffOver, Stalled
  <2>2. CASE BackoffOver(s)
    BY <1>0, <2>2 DEF BackoffOver, DeliveryStep, JobType
  <2>3. CASE Stalled(s)
    BY <1>0, <2>3 DEF Stalled, DeliveryStep, JobType
  <2> QED
    BY <1>3, <2>1, <2>2, <2>3
<1>4. ASSUME NEW w \in Slots, TakeJob(w), job'[s] # job[s] PROVE DeliveryStep(job[s], job'[s])
  BY <1>0, <1>4 DEF TakeJob, DeliveryStep, JobType
<1>5. ASSUME NEW w \in Slots, LoseLock(w) PROVE DeliveryStep(job[s], job'[s])
  BY <1>0, <1>5 DEF LoseLock, DeliveryStep, JobType
<1>6. ASSUME NEW w \in Slots, RunComplete(w) \/ RunRethrow(w), job'[s] # job[s]
      PROVE  DeliveryStep(job[s], job'[s])
  <2>1. run[w].sub = s /\ job[s].lock = w /\ w # None
    BY <1>0, <1>6, PipelineAssumption DEF RunComplete, RunRethrow
  <2>2. CASE RunComplete(w)
    BY <1>0, <2>1, <2>2 DEF RunComplete, DeliveryStep, JobType
  <2>3. CASE RunRethrow(w)
    BY <1>0, <2>1, <2>3 DEF RunRethrow, DeliveryStep, JobType
  <2> QED
    BY <1>6, <2>2, <2>3
<1>7. CASE Exit
  BY <1>0, <1>7 DEF Exit, DeliveryStep, JobType
<1>8. ASSUME NEW t \in Submissions, HandlerEnqueue(t), job'[s] # job[s] PROVE DeliveryStep(job[s], job'[s])
  BY <1>2, <1>8 DEF HandlerEnqueue
<1>9. ASSUME NEW k \in Sweepers, SweepStep(k) \/ SweepFail(k) PROVE DeliveryStep(job[s], job'[s])
  <2>1. CASE SweepEnqueue(k)
    <3>1. sweep[k].cur \in Submissions
      BY <2>1 DEF SweepEnqueue, TypeOK, BusySweeps, SweepType
    <3> QED
      BY <1>1, <1>2, <2>1, <3>1 DEF SweepEnqueue
  <2>2. CASE ~SweepEnqueue(k)
    BY <1>1, <1>9, <2>2 DEF SweepStep, SweepSelect, SweepExists, SweepClose, SweepMark, SweepFail
  <2> QED
    BY <2>1, <2>2
<1>10. ASSUME NEW t \in Submissions,
              \/ Api(t) \/ ApiFail(t) \/ ApiDelete(t) \/ Age(t) \/ ExpireFile(t)
              \/ HandlerUpdate(t) \/ HandlerFail(t)
       PROVE  UNCHANGED job
  BY <1>10 DEF Api, ApiInsert, ApiStoreFile, ApiPublish, ApiFail, ApiDelete, Age, ExpireFile,
     HandlerUpdate, HandlerFail
<1>11. ASSUME NEW w \in Slots,
              \/ RunBegin(w) \/ StepStart(w) \/ StepEnd(w) \/ RunReview(w) \/ RunAlert(w)
              \/ RunMarkFailed(w) \/ RunFault(w)
       PROVE  UNCHANGED job
  BY <1>11 DEF RunBegin, StepStart, StepEnd, RunReview, RunAlert, RunMarkFailed, RunFault, RunError,
     RunAlertFail, RunMarkFailedFails
<1>12. CASE \E t \in Submissions :
              \/ Api(t) \/ ApiFail(t) \/ ApiDelete(t) \/ Age(t) \/ ExpireFile(t)
              \/ HandlerStep(t) \/ HandlerFail(t) \/ BackoffOver(t) \/ Stalled(t)
  BY <1>1, <1>3, <1>8, <1>10, <1>12 DEF HandlerStep
<1>13. CASE \E w \in Slots : TakeJob(w) \/ LoseLock(w) \/ RunStep(w) \/ RunFault(w)
  BY <1>1, <1>4, <1>5, <1>6, <1>11, <1>13 DEF RunStep
<1>14. CASE Drain \/ Restart \/ UNCHANGED vars
  BY <1>1, <1>14 DEF Drain, Restart, vars
<1> QED
  BY <1>7, <1>9, <1>12, <1>13, <1>14 DEF Next, Crash, Exited

(* What BullMQ and the worker's retries can add to a job: less than        *)
(* MaxAttempts failed attempts and one stall, but for the failure that ends *)
(* it.                                                                      *)
JobBudget ==
  \A s \in Submissions :
    /\ job[s].lock # None => job[s].state = "active"
    /\ job[s].state = "none" => job[s].attempts = 0 /\ job[s].stalls = 0
    /\ job[s].state # "failed" => job[s].attempts < MaxAttempts /\ job[s].stalls <= 1
    /\ job[s].attempts + job[s].stalls <= MaxAttempts + 1

LEMMA BudgetInit == Init => JobBudget
  BY PipelineAssumption DEF Init, JobBudget, NoJob

LEMMA BudgetStep == ASSUME TypeOK, TypeOK', JobBudget, [Next]_vars PROVE JobBudget'
<1> SUFFICES ASSUME NEW s \in Submissions
             PROVE  /\ job'[s].lock # None => job'[s].state = "active"
                    /\ job'[s].state = "none" => job'[s].attempts = 0 /\ job'[s].stalls = 0
                    /\ job'[s].state # "failed" => job'[s].attempts < MaxAttempts /\ job'[s].stalls <= 1
                    /\ job'[s].attempts + job'[s].stalls <= MaxAttempts + 1
  BY DEF JobBudget
<1>1. DeliveryStep(job[s], job'[s])
  BY JobGoesOn
<1>2. PICK a \in Nat, b \in Nat : a = job[s].attempts /\ b = job[s].stalls
  BY DEF TypeOK, JobType
<1>3. MaxAttempts \in Nat /\ MaxAttempts >= 1
  BY PipelineAssumption
<1>4. PICK j, k : j = job[s] /\ k = job'[s]
  OBVIOUS
<1>5. /\ j.lock # None => j.state = "active"
      /\ j.state = "none" => a = 0 /\ b = 0
      /\ j.state # "failed" => a < MaxAttempts /\ b <= 1
      /\ a + b <= MaxAttempts + 1
      /\ a = j.attempts /\ b = j.stalls
  BY <1>2, <1>4 DEF JobBudget
<1>6. DeliveryStep(j, k)
  BY <1>1, <1>4
<1>7. /\ k.lock # None => k.state = "active"
      /\ k.state = "none" => k.attempts = 0 /\ k.stalls = 0
      /\ k.state # "failed" => k.attempts < MaxAttempts /\ k.stalls <= 1
      /\ k.attempts + k.stalls <= MaxAttempts + 1
  <2> DEFINE Kept == k.attempts = j.attempts /\ k.stalls = j.stalls
  <2>1. CASE k.state = j.state /\ k.lock \in {j.lock, None} /\ Kept
    BY <1>5, <2>1
  <2>2. CASE /\ j.state \in {"none", "wait", "delayed"} /\ k.state \in {"wait", "active"}
             /\ k.lock # None => k.state = "active"
             /\ Kept \/ (k.attempts = 0 /\ k.stalls = 0)
    BY <1>2, <1>3, <1>5, <2>2
  <2>3. CASE /\ j.state = "active" /\ k.lock = None /\ k.attempts = a /\ k.stalls = b + 1
             /\ k.state = IF b = 0 THEN "wait" ELSE "failed"
    BY <1>2, <1>3, <1>5, <2>3
  <2>4. CASE j.lock # None /\ k.lock = None /\ k.state = "completed" /\ Kept
    BY <1>2, <1>3, <1>5, <2>4
  <2>5. CASE /\ j.lock # None /\ k.lock = None /\ k.attempts = a + 1 /\ k.stalls = b
             /\ k.state = IF a + 1 < MaxAttempts THEN "delayed" ELSE "failed"
    BY <1>2, <1>3, <1>5, <2>5
  <2> QED
    BY <1>5, <1>6, <2>1, <2>2, <2>3, <2>4, <2>5 DEF DeliveryStep
<1> QED
  BY <1>4, <1>7

(* What a step may do to a slot: only a new delivery puts it before the     *)
(* alert.                                                                   *)
Early == {"begin", "step", "call", "review", "rescue", "alert"}

LEMMA RunGoesOn ==
  ASSUME TypeOK, [Next]_vars, NEW v \in Slots
  PROVE  \/ run'[v].sub = run[v].sub /\ (run'[v].pc \in Early => run[v].pc \in Early)
         \/ run'[v].sub = None /\ run'[v].pc = "idle"
         \/ TakeJob(v)
<1> USE DEF front, back
<1> DEFINE Goes == run'[v].sub = run[v].sub /\ (run'[v].pc \in Early => run[v].pc \in Early)
           Ends == run'[v].sub = None /\ run'[v].pc = "idle"
<1>0. run \in [Slots -> RunType]
  BY DEF TypeOK
<1>1. run'[v] = run[v] => Goes
  OBVIOUS
<1>2. ASSUME NEW s \in Submissions, ApiDelete(s) PROVE Goes
  BY <1>0, <1>2 DEF ApiDelete, RunType
<1>3. ASSUME NEW w \in Slots, RunComplete(w) \/ RunRethrow(w) PROVE Goes \/ Ends
  BY <1>0, <1>3 DEF RunComplete, RunRethrow, IdleRun
<1>4. ASSUME NEW w \in Slots,
             \/ RunBegin(w) \/ StepStart(w) \/ StepEnd(w) \/ RunReview(w) \/ RunAlert(w)
             \/ RunMarkFailed(w) \/ RunFault(w)
      PROVE  Goes
  <2>0. run[w] \in RunType
    BY <1>0
  <2>1. CASE RunMarkFailed(w)
    BY <1>0, <2>1 DEF RunMarkFailed, RunType, Early
  <2>2. CASE StepStart(w)
    BY <1>0, <2>0, <2>2 DEF StepStart, RunType, Early
  <2>3. CASE StepEnd(w)
    BY <1>0, <2>0, <2>3 DEF StepEnd, RunType, Early
  <2>4. CASE RunMarkFailedFails(w)
    <3>1. run' = [run EXCEPT ![w] = [run[w] EXCEPT !.pc = "rethrow", !.row = "none"]]
      BY <1>0, <2>4 DEF RunMarkFailedFails
    <3> QED
      BY <1>0, <2>0, <3>1 DEF RunType, Early
  <2>5. CASE RunBegin(w) \/ RunReview(w) \/ RunAlert(w) \/ RunError(w) \/ RunAlertFail(w)
    <3>1. run[w].pc \in Early \cup {"finish"}
      BY <2>5 DEF RunBegin, RunReview, RunAlert, RunError, RunAlertFail, Early
    <3>2. run[w].pc = "finish" => GotoPc(w, "fail")
      BY <2>5 DEF RunBegin, RunReview, RunAlert, RunError, RunAlertFail
    <3>3. \E pc \in RunPcs : GotoPc(w, pc)
      BY <2>5 DEF RunBegin, RunReview, RunAlert, RunError, RunAlertFail, RunPcs
    <3> QED
      BY <1>0, <2>0, <3>1, <3>2, <3>3 DEF GotoPc, RunType, Early
  <2> QED
    BY <1>4, <2>1, <2>2, <2>3, <2>4, <2>5 DEF RunFault
<1>5. ASSUME NEW w \in Slots, TakeJob(w), w # v PROVE run'[v] = run[v]
  BY <1>0, <1>5 DEF TakeJob
<1>6. Exit => Ends
  BY DEF Exit, IdleRun
<1>7. ASSUME NEW s \in Submissions,
             \/ Api(s) \/ ApiFail(s) \/ Age(s) \/ ExpireFile(s) \/ HandlerStep(s) \/ HandlerFail(s)
             \/ BackoffOver(s) \/ Stalled(s)
      PROVE  run' = run
  BY <1>7 DEF Api, ApiInsert, ApiStoreFile, ApiPublish, ApiFail, Age, ExpireFile, HandlerStep,
     HandlerUpdate, HandlerEnqueue, HandlerFail, BackoffOver, Stalled
<1>8. ASSUME NEW k \in Sweepers, SweepStep(k) \/ SweepFail(k) PROVE run' = run
  BY <1>8 DEF SweepStep, SweepSelect, SweepExists, SweepClose, SweepMark, SweepEnqueue, SweepFail
<1> HIDE DEF Goes, Ends
<1>9. ASSUME NEW w \in Slots, TakeJob(w) \/ LoseLock(w) \/ RunStep(w) \/ RunFault(w)
      PROVE  Goes \/ Ends \/ TakeJob(v)
  BY <1>1, <1>3, <1>4, <1>5, <1>9 DEF RunStep, LoseLock
<1>10. Drain \/ Restart \/ UNCHANGED vars => Goes
  BY <1>1 DEF Drain, Restart, vars
<1>11. Goes \/ Ends \/ TakeJob(v)
  BY <1>1, <1>2, <1>6, <1>7, <1>8, <1>9, <1>10 DEF Next, Crash, Exited
<1> QED
  BY <1>11 DEF Goes, Ends

(* The calls that may still alert about a submission, and the deliveries    *)
(* that pay for them and for the alerts that went out.                      *)
Due(s) == {w \in Slots : run[w].sub = s /\ run[w].pc \in Early}
Deliveries(s) ==
  job[s].attempts + job[s].stalls + IF job[s].state \in {"active", "completed"} THEN 1 ELSE 0
PaidFor == \A s \in Submissions : alerts[s] + Cardinality(Due(s)) <= Deliveries(s)

LEMMA DueCount ==
  /\ \A s \in Submissions : IsFiniteSet(Due(s)) /\ Cardinality(Due(s)) \in Nat
  /\ \A s \in Submissions : IsFiniteSet(Due(s)') /\ Cardinality(Due(s)') \in Nat
<1>1. \A S \in SUBSET Slots : IsFiniteSet(S) /\ Cardinality(S) \in Nat
  BY PipelineAssumption, FS_Subset, FS_CardinalityType
<1>2. \A s \in Submissions : Due(s) \in SUBSET Slots /\ Due(s)' \in SUBSET Slots
  BY DEF Due
<1> QED
  BY <1>1, <1>2

LEMMA DeliveryCount ==
  ASSUME TypeOK
  PROVE  \A s \in Submissions : Deliveries(s) \in Nat /\ alerts[s] \in Nat
<1>1. \A s \in Submissions : job[s].attempts \in Nat /\ job[s].stalls \in Nat /\ alerts[s] \in Nat
  BY DEF TypeOK, JobType
<1> QED
  BY <1>1 DEF Deliveries

(* No step takes a delivery back, and the start of a call is one more.      *)
LEMMA DeliveriesGrow ==
  ASSUME TypeOK, TypeOK', JobBudget, [Next]_vars, NEW s \in Submissions
  PROVE  /\ Deliveries(s) <= Deliveries(s)'
         /\ job[s].state = "wait" /\ job'[s].state = "active" => Deliveries(s)' = Deliveries(s) + 1
<1>1. PICK j, k : j = job[s] /\ k = job'[s]
  OBVIOUS
<1>2. PICK a \in Nat, b \in Nat, c \in Nat, d \in Nat :
        a = j.attempts /\ b = j.stalls /\ c = k.attempts /\ d = k.stalls
  BY <1>1 DEF TypeOK, JobType
<1>3. DeliveryStep(j, k)
  BY <1>1, JobGoesOn
<1>4. /\ j.lock # None => j.state = "active"
      /\ j.state = "none" => a = 0 /\ b = 0
  BY <1>1, <1>2 DEF JobBudget
<1> DEFINE D == a + b + IF j.state \in {"active", "completed"} THEN 1 ELSE 0
           E == c + d + IF k.state \in {"active", "completed"} THEN 1 ELSE 0
<1>5. D <= E /\ (j.state = "wait" /\ k.state = "active" => E = D + 1)
  <2>1. CASE k.state = j.state /\ c = a /\ d = b
    BY <1>2, <2>1
  <2>2. CASE j.state = "none" /\ k.state = "wait" /\ c = 0 /\ d = 0
    BY <1>2, <1>4, <2>2
  <2>3. CASE j.state = "wait" /\ k.state = "active" /\ c = a /\ d = b
    BY <1>2, <2>3
  <2>4. CASE j.state = "delayed" /\ k.state = "wait" /\ c = a /\ d = b
    BY <1>2, <2>4
  <2>5. CASE j.state = "active" /\ c = a /\ d = b + 1 /\ k.state \in {"wait", "failed"}
    BY <1>2, <2>5
  <2>6. CASE j.state = "active" /\ c = a /\ d = b /\ k.state = "completed"
    BY <1>2, <2>6
  <2>7. CASE j.state = "active" /\ c = a + 1 /\ d = b /\ k.state \in {"delayed", "failed"}
    BY <1>2, <2>7
  <2> QED
    BY <1>2, <1>3, <1>4, <2>1, <2>2, <2>3, <2>4, <2>5, <2>6, <2>7 DEF DeliveryStep
<1>6. D = Deliveries(s) /\ E = Deliveries(s)'
  BY <1>1, <1>2 DEF Deliveries
<1> HIDE DEF D, E
<1> QED
  BY <1>1, <1>5, <1>6

(* Only the step of the alert counts one. *)
LEMMA AlertsStay ==
  ASSUME [Next]_vars, \A w \in Slots : ~RunAlert(w)
  PROVE  alerts' = alerts
<1> USE DEF front, back
<1>1. ASSUME NEW s \in Submissions,
             \/ Api(s) \/ ApiFail(s) \/ ApiDelete(s) \/ Age(s) \/ ExpireFile(s) \/ HandlerStep(s)
             \/ HandlerFail(s) \/ BackoffOver(s) \/ Stalled(s)
      PROVE  alerts' = alerts
  BY <1>1 DEF Api, ApiInsert, ApiStoreFile, ApiPublish, ApiFail, ApiDelete, Age, ExpireFile, HandlerStep,
     HandlerUpdate, HandlerEnqueue, HandlerFail, BackoffOver, Stalled
<1>2. ASSUME NEW k \in Sweepers, SweepStep(k) \/ SweepFail(k) PROVE alerts' = alerts
  BY <1>2 DEF SweepStep, SweepSelect, SweepExists, SweepClose, SweepMark, SweepEnqueue, SweepFail
<1>3. ASSUME NEW w \in Slots, TakeJob(w) \/ LoseLock(w) \/ RunStep(w) \/ RunFault(w)
      PROVE  alerts' = alerts
  BY <1>3 DEF TakeJob, LoseLock, RunStep, RunBegin, StepStart, StepEnd, RunReview, RunMarkFailed,
     RunComplete, RunRethrow, RunFault, RunError, RunAlertFail, RunMarkFailedFails
<1>4. CASE Drain \/ Crash \/ Exited \/ Restart \/ UNCHANGED vars
  BY <1>4 DEF Drain, Crash, Exited, Exit, Restart, vars
<1> QED
  BY <1>1, <1>2, <1>3, <1>4 DEF Next

LEMMA PaidStep ==
  ASSUME TypeOK, TypeOK', JobBudget, PaidFor, [Next]_vars
  PROVE  PaidFor'
<1> SUFFICES ASSUME NEW s \in Submissions
             PROVE  alerts'[s] + Cardinality(Due(s)') <= Deliveries(s)'
  BY DEF PaidFor
<1>0. /\ alerts[s] + Cardinality(Due(s)) <= Deliveries(s)
      /\ Deliveries(s) \in Nat /\ alerts[s] \in Nat /\ alerts'[s] \in Nat
      /\ IsFiniteSet(Due(s)) /\ Cardinality(Due(s)) \in Nat
      /\ IsFiniteSet(Due(s)') /\ Cardinality(Due(s)') \in Nat
      /\ Deliveries(s)' \in Nat
  <2>1. Deliveries(s)' \in Nat /\ alerts'[s] \in Nat
    <3>1. job'[s].attempts \in Nat /\ job'[s].stalls \in Nat /\ alerts'[s] \in Nat
      BY DEF TypeOK, JobType
    <3> QED
      BY <3>1 DEF Deliveries
  <2> QED
    BY <2>1, DueCount, DeliveryCount DEF PaidFor
<1>1. Deliveries(s) <= Deliveries(s)'
  BY DeliveriesGrow
<1>2. CASE \E w \in Slots : TakeJob(w)
  <2>1. PICK w \in Slots : TakeJob(w)
    BY <1>2
  <2>2. PICK t \in Submissions :
          /\ job[t].state = "wait"
          /\ job' = [job EXCEPT ![t].state = "active", ![t].lock = w]
          /\ run' = [run EXCEPT ![w] = [IdleRun EXCEPT !.sub = t, !.pc = "begin", !.wf = job[t].wf]]
    BY <2>1 DEF TakeJob
  <2>3. /\ job'[t].state = "active" /\ alerts' = alerts
        /\ run'[w].sub = t /\ \A v \in Slots : v # w => run'[v] = run[v]
    BY <2>1, <2>2 DEF TakeJob, TypeOK, JobType, IdleRun
  <2>4. CASE s = t
    <3>1. Due(s)' \subseteq Due(s) \cup {w}
      BY <2>3 DEF Due
    <3>2. w \notin Due(s)
      BY <2>1 DEF TakeJob, Due, Early
    <3>3. IsFiniteSet(Due(s) \cup {w}) /\ Cardinality(Due(s) \cup {w}) = Cardinality(Due(s)) + 1
      BY <1>0, <3>2, FS_AddElement
    <3>4. Cardinality(Due(s)') <= Cardinality(Due(s)) + 1
      BY <3>1, <3>3, FS_Subset
    <3>5. Deliveries(s)' = Deliveries(s) + 1
      BY <2>2, <2>3, <2>4, DeliveriesGrow
    <3> QED
      BY <1>0, <2>3, <3>4, <3>5
  <2>5. CASE s # t
    <3>1. Due(s)' \subseteq Due(s)
      BY <2>3, <2>5 DEF Due
    <3>2. Cardinality(Due(s)') <= Cardinality(Due(s))
      BY <1>0, <3>1, FS_Subset
    <3> QED
      BY <1>0, <1>1, <2>3, <3>2
  <2> QED
    BY <2>4, <2>5
<1>3. CASE \A w \in Slots : ~TakeJob(w)
  <2>1. Due(s)' \subseteq Due(s)
    BY <1>3, RunGoesOn, PipelineAssumption DEF Due, Early
  <2>2. CASE \A w \in Slots : ~RunAlert(w)
    <3>1. alerts' = alerts
      BY <2>2, AlertsStay
    <3>2. Cardinality(Due(s)') <= Cardinality(Due(s))
      BY <1>0, <2>1, FS_Subset
    <3> QED
      BY <1>0, <1>1, <3>1, <3>2
  <2>3. CASE \E w \in Slots : RunAlert(w)
    <3>1. PICK w \in Slots : RunAlert(w)
      BY <2>3
    <3>2. CASE run[w].sub = s
      <4>1. w \in Due(s) /\ alerts'[s] <= alerts[s] + 1
        BY <1>0, <3>1, <3>2 DEF RunAlert, Due, Early, TypeOK
      <4>2. w \notin Due(s)'
        BY <3>1 DEF RunAlert, GotoPc, TypeOK, RunType, Due, Early
      <4>3. Due(s)' \subseteq Due(s) \ {w}
        BY <2>1, <4>2
      <4>4. /\ IsFiniteSet(Due(s) \ {w})
            /\ Cardinality(Due(s) \ {w}) = Cardinality(Due(s)) - 1
        BY <1>0, <4>1, FS_RemoveElement
      <4>5. Cardinality(Due(s)') <= Cardinality(Due(s)) - 1
        BY <4>3, <4>4, FS_Subset
      <4> QED
        BY <1>0, <1>1, <4>1, <4>5
    <3>3. CASE run[w].sub # s
      <4>1. alerts'[s] = alerts[s]
        BY <3>1, <3>3 DEF RunAlert, TypeOK
      <4>2. Cardinality(Due(s)') <= Cardinality(Due(s))
        BY <1>0, <2>1, FS_Subset
      <4> QED
        BY <1>0, <1>1, <4>1, <4>2
    <3> QED
      BY <3>2, <3>3
  <2> QED
    BY <2>2, <2>3
<1> QED
  BY <1>2, <1>3

(* What holds with every fault: counts of deliveries and of alerts. *)
CountInv == TypeOK /\ JobBudget /\ PaidFor

LEMMA CountsHold == Spec => []CountInv
<1>1. Init => CountInv
  <2> SUFFICES ASSUME Init PROVE PaidFor
    BY BudgetInit, InitType DEF CountInv
  <2>1. \A s \in Submissions : Due(s) = {} /\ alerts[s] = 0 /\ Deliveries(s) = 0
    BY DEF Init, Due, Deliveries, NoJob, IdleRun, Early
  <2>2. Cardinality({}) = 0
    BY FS_EmptySet
  <2> QED
    BY <2>1, <2>2 DEF PaidFor
<1>2. CountInv /\ [Next]_vars => CountInv'
  BY NextType, BudgetStep, PaidStep DEF CountInv
<1> QED
  BY <1>1, <1>2, PTL DEF Spec

(* dispatchAlerts goes out at most once per delivery of the job, whatever   *)
(* fails and also when live calls lose their locks: retries and stalls pay  *)
(* for every repeated alert (runSubmissionWorkflow, alerts.ts).             *)
THEOREM AlertsArePaidFor == Spec => []AlertsPerDelivery
<1>1. CountInv => AlertsPerDelivery
  <2> SUFFICES ASSUME CountInv, NEW s \in Submissions
               PROVE  alerts[s] <= Deliveries(s)
    BY DEF AlertsPerDelivery, Deliveries
  <2>1. alerts[s] \in Nat /\ Cardinality(Due(s)) \in Nat /\ Deliveries(s) \in Nat
    BY DueCount, DeliveryCount DEF CountInv
  <2> QED
    BY <2>1 DEF CountInv, PaidFor
<1> QED
  BY <1>1, CountsHold, PTL

(* So nobody is alerted about one submission more than once per attempt and *)
(* once for a stalled delivery (WORKER_MAX_RETRIES, maxStalledCount of      *)
(* BullMQ), however many crashes and lost locks there are.                  *)
THEOREM AlertsAreFew == Spec => [](\A s \in Submissions : alerts[s] <= MaxAttempts + 1)
<1>1. CountInv => \A s \in Submissions : alerts[s] <= MaxAttempts + 1
  <2> SUFFICES ASSUME CountInv, NEW s \in Submissions PROVE alerts[s] <= MaxAttempts + 1
    OBVIOUS
  <2>1. PICK a \in Nat, b \in Nat, x \in Nat, n \in Nat :
          a = job[s].attempts /\ b = job[s].stalls /\ x = alerts[s] /\ n = Cardinality(Due(s))
    BY DueCount DEF CountInv, TypeOK, JobType
  <2>2. /\ x + n <= a + b + IF job[s].state \in {"active", "completed"} THEN 1 ELSE 0
        /\ job[s].state # "failed" => a < MaxAttempts /\ b <= 1
        /\ a + b <= MaxAttempts + 1
    BY <2>1 DEF CountInv, PaidFor, JobBudget, Deliveries
  <2> QED
    BY <2>1, <2>2, PipelineAssumption
<1> QED
  BY <1>1, CountsHold, PTL

----------------------------------------------------------------------------
(* Calls that go on without the lock of their job. *)
Strays == {w \in Slots : run[w].sub # None /\ job[run[w].sub].lock # w}
StrayPerFault == Cardinality(Strays) <= faults

(* Only the loss of a lock makes a stray of a call. *)
LEMMA StraysCome ==
  ASSUME TypeOK, JobBudget, [Next]_vars, NEW v \in Slots, v \in Strays', v \notin Strays
  PROVE  LoseLock(v)
<1> USE DEF front, back
<1>1. ~TakeJob(v)
  <2> SUFFICES ASSUME TakeJob(v) PROVE FALSE
    OBVIOUS
  <2>1. PICK t \in Submissions :
          /\ job' = [job EXCEPT ![t].state = "active", ![t].lock = v]
          /\ run' = [run EXCEPT ![v] = [IdleRun EXCEPT !.sub = t, !.pc = "begin", !.wf = job[t].wf]]
    BY DEF TakeJob
  <2>2. run'[v].sub = t /\ job'[t].lock = v
    BY <2>1 DEF TypeOK, JobType, IdleRun
  <2> QED
    BY <2>2 DEF Strays
<1>2. run'[v].sub = run[v].sub /\ run[v].sub # None
  BY <1>1, RunGoesOn DEF Strays
<1>3. PICK s \in Submissions : s = run[v].sub
  BY <1>2 DEF TypeOK, RunType
<1>4. job[s].lock = v /\ job'[s].lock # v /\ v # None
  BY <1>2, <1>3, PipelineAssumption DEF Strays
<1>5. job[s].state = "active"
  BY <1>4 DEF JobBudget
<1>6. job \in [Submissions -> JobType] /\ run \in [Slots -> RunType]
  BY DEF TypeOK
<1>7. ASSUME NEW t \in Submissions, NEW wf, EnqueueSubmissionIntake(t, wf) PROVE FALSE
  BY <1>4, <1>5, <1>6, <1>7 DEF EnqueueSubmissionIntake
<1>8. ~\E k \in Sweepers : SweepStep(k) \/ SweepFail(k)
  <2> SUFFICES ASSUME NEW k \in Sweepers, SweepStep(k) \/ SweepFail(k) PROVE FALSE
    OBVIOUS
  <2>1. CASE SweepEnqueue(k)
    <3>1. sweep[k].cur \in Submissions
      BY <2>1 DEF SweepEnqueue, TypeOK, BusySweeps, SweepType
    <3> QED
      BY <1>7, <2>1, <3>1 DEF SweepEnqueue
  <2>2. CASE ~SweepEnqueue(k)
    BY <1>4, <2>2 DEF SweepStep, SweepSelect, SweepExists, SweepClose, SweepMark, SweepFail
  <2> QED
    BY <2>1, <2>2
<1>9. ASSUME NEW t \in Submissions,
             \/ Api(t) \/ ApiFail(t) \/ ApiDelete(t) \/ Age(t) \/ ExpireFile(t)
             \/ HandlerStep(t) \/ HandlerFail(t) \/ BackoffOver(t) \/ Stalled(t)
      PROVE  FALSE
  <2>1. CASE HandlerEnqueue(t)
    BY <1>7, <2>1 DEF HandlerEnqueue
  <2>2. CASE BackoffOver(t) \/ Stalled(t)
    BY <1>4, <1>6, <2>2 DEF BackoffOver, Stalled, JobType
  <2>3. CASE \/ Api(t) \/ ApiFail(t) \/ ApiDelete(t) \/ Age(t) \/ ExpireFile(t)
             \/ HandlerUpdate(t) \/ HandlerFail(t)
    BY <1>4, <2>3 DEF Api, ApiInsert, ApiStoreFile, ApiPublish, ApiFail, ApiDelete, Age, ExpireFile,
       HandlerUpdate, HandlerFail
  <2> QED
    BY <1>9, <2>1, <2>2, <2>3 DEF HandlerStep
<1>10. ASSUME NEW w \in Slots, TakeJob(w) \/ LoseLock(w) \/ RunStep(w) \/ RunFault(w)
       PROVE  LoseLock(v)
  <2>1. CASE TakeJob(w)
    BY <1>4, <1>5, <1>6, <2>1 DEF TakeJob, JobType
  <2>2. CASE LoseLock(w)
    <3>1. run[w].sub = s
      BY <1>4, <1>6, <2>2 DEF LoseLock, Holder
    <3>2. w = v
      BY <1>4, <2>2, <3>1 DEF LoseLock, Holder
    <3> QED
      BY <2>2, <3>2
  <2>3. CASE RunComplete(w) \/ RunRethrow(w)
    <3>1. run[w].sub = s /\ job[s].lock = w
      BY <1>4, <1>6, <2>3 DEF RunComplete, RunRethrow
    <3>2. run'[v].sub = None
      BY <1>4, <1>6, <2>3, <3>1 DEF RunComplete, RunRethrow, IdleRun
    <3> QED
      BY <1>2, <3>2
  <2>4. CASE \/ RunBegin(w) \/ StepStart(w) \/ StepEnd(w) \/ RunReview(w) \/ RunAlert(w)
             \/ RunMarkFailed(w) \/ RunFault(w)
    BY <1>4, <2>4 DEF RunBegin, StepStart, StepEnd, RunReview, RunAlert, RunMarkFailed, RunFault,
       RunError, RunAlertFail, RunMarkFailedFails
  <2> QED
    BY <1>10, <2>1, <2>2, <2>3, <2>4 DEF RunStep
<1>11. ~Exit
  BY <1>2 DEF Exit, IdleRun
<1>12. ~(Drain \/ Restart \/ UNCHANGED vars)
  BY <1>4 DEF Drain, Restart, vars
<1> QED
  BY <1>8, <1>9, <1>10, <1>11, <1>12 DEF Next, Crash, Exited

LEMMA FaultsGrow == ASSUME TypeOK, TypeOK', [Next]_vars PROVE faults <= faults'
<1>1. faults \in Nat /\ faults' \in Nat
  BY DEF TypeOK
<1>2. faults' = faults \/ faults' = faults + 1
  <2> USE DEF front, back
  <2>1. ASSUME NEW s \in Submissions,
               \/ Api(s) \/ ApiFail(s) \/ ApiDelete(s) \/ Age(s) \/ ExpireFile(s) \/ HandlerStep(s)
               \/ HandlerFail(s) \/ BackoffOver(s) \/ Stalled(s)
        PROVE  faults' = faults \/ faults' = faults + 1
    BY <2>1 DEF Api, ApiInsert, ApiStoreFile, ApiPublish, ApiFail, ApiDelete, Age, ExpireFile,
       HandlerStep, HandlerUpdate, HandlerEnqueue, HandlerFail, BackoffOver, Stalled, Fault
  <2>2. ASSUME NEW k \in Sweepers, SweepStep(k) \/ SweepFail(k)
        PROVE  faults' = faults \/ faults' = faults + 1
    BY <2>2 DEF SweepStep, SweepSelect, SweepExists, SweepClose, SweepMark, SweepEnqueue, SweepFail, Fault
  <2>3. ASSUME NEW w \in Slots, TakeJob(w) \/ LoseLock(w) \/ RunStep(w) \/ RunFault(w)
        PROVE  faults' = faults \/ faults' = faults + 1
    BY <2>3 DEF TakeJob, LoseLock, RunStep, RunBegin, StepStart, StepEnd, RunReview, RunAlert,
       RunMarkFailed, RunComplete, RunRethrow, RunFault, RunError, RunAlertFail, RunMarkFailedFails, Fault
  <2>4. CASE Drain \/ Crash \/ Exited \/ Restart \/ UNCHANGED vars
    BY <2>4 DEF Drain, Crash, Exited, Restart, Fault, vars
  <2> QED
    BY <2>1, <2>2, <2>3, <2>4 DEF Next
<1> QED
  BY <1>1, <1>2

LEMMA StrayStep ==
  ASSUME TypeOK, TypeOK', JobBudget, StrayPerFault, [Next]_vars
  PROVE  StrayPerFault'
<1>1. /\ IsFiniteSet(Strays) /\ Cardinality(Strays) \in Nat
      /\ IsFiniteSet(Strays') /\ Cardinality(Strays') \in Nat
  <2>1. \A S \in SUBSET Slots : IsFiniteSet(S) /\ Cardinality(S) \in Nat
    BY PipelineAssumption, FS_Subset, FS_CardinalityType
  <2>2. Strays \in SUBSET Slots /\ Strays' \in SUBSET Slots
    BY DEF Strays
  <2> QED
    BY <2>1, <2>2
<1>2. faults \in Nat /\ faults' \in Nat /\ Cardinality(Strays) <= faults
  BY DEF TypeOK, StrayPerFault
<1>3. CASE Strays' \subseteq Strays
  <2>1. Cardinality(Strays') <= Cardinality(Strays)
    BY <1>1, <1>3, FS_Subset
  <2> QED
    BY <1>1, <1>2, <2>1, FaultsGrow DEF StrayPerFault
<1>4. CASE ~(Strays' \subseteq Strays)
  <2>1. PICK v \in Strays' : v \notin Strays
    BY <1>4
  <2>2. v \in Slots /\ LoseLock(v)
    BY <2>1, StraysCome DEF Strays
  <2>3. run' = run /\ faults' = faults + 1
    BY <2>2 DEF LoseLock, Fault, back
  <2>4. \A u \in Slots : LoseLock(u) => u = v
    <3>1. job[run[v].sub].lock = v /\ job'[run[v].sub].lock = None
      <4>1. run[v].sub \in Submissions
        BY <2>2 DEF LoseLock, Holder, TypeOK, RunType
      <4> QED
        BY <2>2, <4>1 DEF LoseLock, Holder, TypeOK, JobType
    <3> SUFFICES ASSUME NEW u \in Slots, LoseLock(u), u # v PROVE FALSE
      OBVIOUS
    <3>2. run[u].sub \in Submissions /\ run[v].sub \in Submissions
      BY <2>2 DEF LoseLock, Holder, TypeOK, RunType
    <3>3. run[u].sub # run[v].sub
      BY <3>1 DEF LoseLock, Holder
    <3>4. job'[run[v].sub] = job[run[v].sub]
      BY <3>2, <3>3 DEF LoseLock, TypeOK
    <3> QED
      BY <2>2, <3>1, <3>4, PipelineAssumption
  <2>5. Strays' \subseteq Strays \cup {v}
    BY <2>4, StraysCome DEF Strays
  <2>6. IsFiniteSet(Strays \cup {v}) /\ Cardinality(Strays \cup {v}) = Cardinality(Strays) + 1
    BY <1>1, <2>1, FS_AddElement
  <2>7. Cardinality(Strays') <= Cardinality(Strays) + 1
    BY <2>5, <2>6, FS_Subset
  <2> QED
    BY <1>1, <1>2, <2>3, <2>7 DEF StrayPerFault
<1> QED
  BY <1>3, <1>4

(* OneRun without its hypothesis: whatever fails, a submission is worked on *)
(* by one call and, beside it, by calls that have lost the lock of their    *)
(* job, each of them the trace of one fault.                                *)
THEOREM RunsPerFault ==
  Spec => [](\A s \in Submissions : Cardinality({w \in Slots : run[w].sub = s}) <= 1 + faults)
<1>1. Init => StrayPerFault
  <2> SUFFICES ASSUME Init PROVE Cardinality(Strays) <= faults
    BY DEF StrayPerFault
  <2>1. Strays = {} /\ faults = 0
    BY DEF Init, Strays, IdleRun
  <2> QED
    BY <2>1, FS_EmptySet
<1>2. CountInv /\ CountInv' /\ StrayPerFault /\ [Next]_vars => StrayPerFault'
  BY StrayStep DEF CountInv
<1>3. CountInv /\ StrayPerFault
        => \A s \in Submissions : Cardinality({w \in Slots : run[w].sub = s}) <= 1 + faults
  <2> SUFFICES ASSUME CountInv, StrayPerFault, NEW s \in Submissions
               PROVE  Cardinality({w \in Slots : run[w].sub = s}) <= 1 + faults
    OBVIOUS
  <2> DEFINE On == {w \in Slots : run[w].sub = s}
             h == job[s].lock
  <2>1. On \subseteq Strays \cup {h}
    BY PipelineAssumption DEF Strays
  <2>2. IsFiniteSet(Strays) /\ Cardinality(Strays) \in Nat
    <3>1. Strays \subseteq Slots
      BY DEF Strays
    <3>2. IsFiniteSet(Strays)
      BY <3>1, PipelineAssumption, FS_Subset
    <3> QED
      BY <3>2, FS_CardinalityType
  <2> HIDE DEF h
  <2>3. /\ IsFiniteSet(Strays \cup {h})
        /\ Cardinality(Strays \cup {h}) \in {Cardinality(Strays), Cardinality(Strays) + 1}
    BY <2>2, FS_AddElement
  <2> HIDE DEF On
  <2>4. Cardinality(On) <= Cardinality(Strays \cup {h}) /\ Cardinality(On) \in Nat
    <3>1. IsFiniteSet(On) /\ Cardinality(On) <= Cardinality(Strays \cup {h})
      BY <2>1, <2>3, FS_Subset
    <3> QED
      BY <3>1, FS_CardinalityType
  <2>5. Cardinality(On) <= 1 + faults
    BY <2>2, <2>3, <2>4 DEF StrayPerFault, CountInv, TypeOK
  <2> QED
    BY <2>5 DEF On
<1> QED
  BY <1>1, <1>2, <1>3, CountsHold, PTL DEF Spec
==============================================================================
