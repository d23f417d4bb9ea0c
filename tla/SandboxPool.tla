---------------------------- MODULE SandboxPool ----------------------------
(***************************************************************************)
(* The sandbox manager's PoolManager (services/poolManager.ts) with the    *)
(* callers it has in sandbox-manager/src/index.ts: checkout by the         *)
(* provision route, destroyPoolInstance by the destroy route, the two      *)
(* maintenance timers, and stop on shutdown.  Node runs one callback at a  *)
(* time, so an action is the code between two awaits; an await on the      *)
(* provider (Docker or QEMU, external) lets everything else happen.        *)
(*                                                                         *)
(* The pool is a Map; where the code takes the first or last entry in      *)
(* insertion order, the model takes any.  Time is abstracted: a session or *)
(* a queued request may pass its limit at any moment.                      *)
(***************************************************************************)
EXTENDS Integers, Sequences, SequencesExt, FiniteSets

CONSTANTS
  Requests,    \* calls of checkout, each by one client session
  Instances,   \* instance ids a provider may hand out (a bound on provisionings)
  Timers,      \* overlapping replenishPool or warmPool calls (setInterval does not wait)
  Configs,     \* sandbox configurations
  Os,          \* the os and architecture of a configuration
  ConfigOf,    \* the configuration each request asks for
  MinReady,    \* POOL_MIN_READY
  MaxTotal,    \* POOL_MAX_TOTAL
  Callers,     \* operations called besides those of index.ts: see CallerKinds
  FaultKinds,  \* which provider calls may fail
  MaxFaults,   \* bound on how many of them fail
  None         \* no request, no instance

(* returnToPool and warmPool, which have no caller in the repository.       *)
CallerKinds == {"return", "warm"}
Faults == {"provision", "provisionLate", "destroy", "restore", "vm", "exit"}

ASSUME PoolAssumption ==
  /\ None \notin Requests \cup Instances
  /\ Configs # {} /\ ConfigOf \in [Requests -> Configs]
  /\ IsFiniteSet(Instances)
  /\ MinReady \in Nat /\ MaxTotal \in Nat \ {0} /\ MaxFaults \in Nat
  /\ Callers \subseteq CallerKinds /\ FaultKinds \subseteq Faults

VARIABLES
  pool,       \* the ids in the Map
  holder,     \* checkedOutBy of an entry; None is checkedOutAt = null
  conf,       \* the configuration an instance was provisioned with
  vm,         \* what the instance really is, in the provider
  destroyers, \* the destroyPoolInstance or stop calls awaiting provider.destroy
  req,        \* where a client's session is, and its instance
  queue,      \* waitQueue
  timer,      \* a replenishPool or warmPool call: what it still has to provision
  mode,       \* of the process: see Modes
  faults      \* how many faults have happened

vars == <<pool, holder, conf, vm, destroyers, req, queue, timer, mode, faults>>

VmStates == {"none", "starting", "running", "broken", "gone"}
ReqStates == {"idle", "provisioning", "queued", "got", "returning", "restoring", "done", "failed"}
(* "closing" after SIGTERM, "stopping" while stop() awaits, "flushing" when *)
(* it has returned and the firewall is flushed, "exited" after that,        *)
(* "killed" by the 15-second timer.                                         *)
Modes == {"up", "closing", "stopping", "flushing", "exited", "killed"}
DestroyCallers == {"route", "cleanup", "return", "stop"}
AnyConfig == CHOOSE c \in Configs : TRUE
IdleTimer == [left |-> 0, pending |-> {}, cfg |-> AnyConfig]

Init ==
  /\ pool = {}
  /\ holder = [i \in Instances |-> None]
  /\ conf = [i \in Instances |-> AnyConfig]
  /\ vm = [i \in Instances |-> "none"]
  /\ destroyers = [i \in Instances |-> {}]
  /\ req = [r \in Requests |-> [pc |-> "idle", inst |-> None]]
  /\ queue = <<>>
  /\ timer = [t \in Timers |-> IdleTimer]
  /\ mode = "up"
  /\ faults = 0

Fault(kind) == kind \in FaultKinds /\ faults < MaxFaults /\ faults' = faults + 1

SetReq(r, pc, i) == req' = [req EXCEPT ![r] = [pc |-> pc, inst |-> i]]

Alive == mode \notin {"exited", "killed"}

----------------------------------------------------------------------------
(* provisionToPool: provider.provision creates the instance under a fresh   *)
(* id, and the entry enters the Map when it resolves.                       *)

StartVm(i, c) ==
  /\ vm[i] = "none"
  /\ vm' = [vm EXCEPT ![i] = "starting"]
  /\ conf' = [conf EXCEPT ![i] = c]

VmStarted(i) ==
  /\ vm' = [vm EXCEPT ![i] = "running"]
  /\ pool' = pool \cup {i}

(* provision throws before anything runs, or after the container has been   *)
(* created and started (docker.ts inspects it last and cleans up nothing).  *)
VmFailed(i) ==
  \/ Fault("provision") /\ vm' = [vm EXCEPT ![i] = "gone"]
  \/ Fault("provisionLate") /\ vm' = [vm EXCEPT ![i] = "running"]

(* An instance stops running by itself. *)
VmBreaks(i) ==
  /\ vm[i] = "running" /\ Fault("vm")
  /\ vm' = [vm EXCEPT ![i] = "broken"]
  /\ UNCHANGED <<pool, holder, conf, destroyers, req, queue, timer, mode>>

----------------------------------------------------------------------------
(* checkout *)

(* findAvailableInstance: not checked out and of the same os and            *)
(* architecture; instance.status is the snapshot taken at provisioning, so  *)
(* its test for Running never fails.                                        *)
Available(i, c) == i \in pool /\ holder[i] = None /\ Os[conf[i]] = Os[c]

(* A plausible error: the instance is marked only after an await.           *)
CheckoutAvailableUnmarked(r) ==
  /\ mode = "up" /\ req[r].pc = "idle"
  /\ \E i \in Instances :
       /\ Available(i, ConfigOf[r])
       /\ SetReq(r, "got", i)
  /\ UNCHANGED <<pool, holder, conf, vm, destroyers, queue, timer, mode, faults>>

CheckoutAvailable(r) ==
  /\ mode = "up" /\ req[r].pc = "idle"
  /\ \E i \in Instances :
       /\ Available(i, ConfigOf[r])
       /\ holder' = [holder EXCEPT ![i] = r]
       /\ SetReq(r, "got", i)
  /\ UNCHANGED <<pool, conf, vm, destroyers, queue, timer, mode, faults>>

NoneAvailable(r) == ~\E i \in Instances : Available(i, ConfigOf[r])

CheckoutProvision(r) ==
  /\ mode = "up" /\ req[r].pc = "idle" /\ NoneAvailable(r)
  /\ Cardinality(pool) < MaxTotal
  /\ \E i \in Instances : StartVm(i, ConfigOf[r]) /\ SetReq(r, "provisioning", i)
  /\ UNCHANGED <<pool, holder, destroyers, queue, timer, mode, faults>>

(* provisionToPool returns and the entry is marked in the same turn. *)
CheckoutProvisioned(r) ==
  /\ Alive /\ req[r].pc = "provisioning"
  /\ VmStarted(req[r].inst)
  /\ holder' = [holder EXCEPT ![req[r].inst] = r]
  /\ SetReq(r, "got", req[r].inst)
  /\ UNCHANGED <<conf, destroyers, queue, timer, mode, faults>>

CheckoutProvisionFails(r) ==
  /\ Alive /\ req[r].pc = "provisioning"
  /\ VmFailed(req[r].inst)
  /\ SetReq(r, "failed", None)
  /\ UNCHANGED <<pool, holder, conf, destroyers, queue, timer, mode>>

CheckoutQueue(r) ==
  /\ mode = "up" /\ req[r].pc = "idle" /\ NoneAvailable(r)
  /\ Cardinality(pool) >= MaxTotal
  /\ queue' = Append(queue, r)
  /\ SetReq(r, "queued", None)
  /\ UNCHANGED <<pool, holder, conf, vm, destroyers, timer, mode, faults>>

(* A plausible error: a timed-out request is spliced out and never rejected. *)
QueueTimeoutSilent(r) ==
  /\ Alive /\ req[r].pc = "queued"
  /\ \E k \in 1..Len(queue) : queue[k] = r /\ queue' = RemoveAt(queue, k)
  /\ UNCHANGED <<pool, holder, conf, vm, destroyers, req, timer, mode, faults>>

(* The timer of a queued request: splice it out and reject. *)
QueueTimeout(r) ==
  /\ Alive /\ req[r].pc = "queued"
  /\ \E k \in 1..Len(queue) : queue[k] = r /\ queue' = RemoveAt(queue, k)
  /\ SetReq(r, "failed", None)
  /\ UNCHANGED <<pool, holder, conf, vm, destroyers, timer, mode, faults>>

(* stop() rejects the whole queue in one turn; the handler of each request  *)
(* goes on in a turn of its own.                                            *)
QueueRejected(r) ==
  /\ mode \in {"stopping", "flushing"} /\ req[r].pc = "queued"
  /\ \A k \in 1..Len(queue) : queue[k] # r
  /\ SetReq(r, "failed", None)
  /\ UNCHANGED <<pool, holder, conf, vm, destroyers, queue, timer, mode, faults>>

----------------------------------------------------------------------------
(* destroyPoolInstance, and who calls it.                                   *)

StartDestroy(i, caller) ==
  /\ i \in pool
  /\ destroyers' = [destroyers EXCEPT ![i] = @ \cup {caller}]

(* The client that holds the instance asks for its destruction. *)
RouteDestroy(r) ==
  LET i == req[r].inst IN
  /\ Alive /\ req[r].pc = "got"
  /\ SetReq(r, "done", None)
  /\ IF i \in pool THEN StartDestroy(i, "route") ELSE UNCHANGED destroyers
  /\ UNCHANGED <<pool, holder, conf, vm, queue, timer, mode, faults>>

(* The route takes any id that the list route has shown, also one that is   *)
(* idle or that another client holds.                                       *)
RouteDestroyAny(i) ==
  /\ Alive
  /\ "route" \notin destroyers[i]
  /\ StartDestroy(i, "route")
  /\ UNCHANGED <<pool, holder, conf, vm, req, queue, timer, mode, faults>>

(* A plausible error: cleanup also takes instances nobody has checked out. *)
CleanupExpiredAny(i) ==
  /\ Alive
  /\ "cleanup" \notin destroyers[i]
  /\ StartDestroy(i, "cleanup")
  /\ UNCHANGED <<pool, holder, conf, vm, req, queue, timer, mode, faults>>

(* A plausible error: the test of checkedOutAt inverted. *)
CleanupExpiredIdle(i) ==
  /\ Alive
  /\ holder[i] = None /\ "cleanup" \notin destroyers[i]
  /\ StartDestroy(i, "cleanup")
  /\ UNCHANGED <<pool, holder, conf, vm, req, queue, timer, mode, faults>>

(* cleanupExpiredSessions: a session past its limit.  A loop over the Map   *)
(* that stop() finds under way goes on.                                     *)
CleanupExpired(i) ==
  /\ Alive
  /\ holder[i] # None /\ "cleanup" \notin destroyers[i]
  /\ StartDestroy(i, "cleanup")
  /\ UNCHANGED <<pool, holder, conf, vm, req, queue, timer, mode, faults>>

(* provider.destroy resolves, or throws and is logged: the entry goes       *)
(* either way.  A second call finds no instance at the provider.            *)
Forget(i, c) ==
  /\ c \in destroyers[i]
  /\ destroyers' = [destroyers EXCEPT ![i] = @ \ {c}]
  /\ pool' = IF c = "stop" THEN pool ELSE pool \ {i}
  /\ UNCHANGED <<holder, conf, req, queue, timer, mode>>

(* A plausible error: the entry is dropped and the provider never asked.    *)
DestroyDoneLeaks(i, c) ==
  Alive /\ Forget(i, c) /\ UNCHANGED <<vm, faults>>

DestroyDone(i, c) ==
  Alive /\ Forget(i, c) /\ vm' = [vm EXCEPT ![i] = "gone"] /\ UNCHANGED faults

DestroyFails(i, c) ==
  Alive /\ Forget(i, c) /\ Fault("destroy") /\ UNCHANGED vm

----------------------------------------------------------------------------
(* returnToPool, called at most once per session by its client. *)

(* The Map is read, then the provider asked for the status. *)
ReturnStart(r) ==
  /\ Alive /\ "return" \in Callers /\ req[r].pc = "got"
  /\ IF req[r].inst \in pool THEN SetReq(r, "returning", req[r].inst) ELSE SetReq(r, "done", None)
  /\ UNCHANGED <<pool, holder, conf, vm, destroyers, queue, timer, mode, faults>>

(* A plausible error: the entry is freed before its instance is restored.   *)
ReturnHealthyFreed(r) ==
  /\ Alive /\ req[r].pc = "returning" /\ vm[req[r].inst] = "running"
  /\ SetReq(r, "restoring", req[r].inst)
  /\ holder' = [holder EXCEPT ![req[r].inst] = None]
  /\ UNCHANGED <<pool, conf, vm, destroyers, queue, timer, mode, faults>>

ReturnHealthy(r) ==
  /\ Alive /\ req[r].pc = "returning" /\ vm[req[r].inst] = "running"
  /\ SetReq(r, "restoring", req[r].inst)
  /\ UNCHANGED <<pool, holder, conf, vm, destroyers, queue, timer, mode, faults>>

(* destroyPoolInstance, which does nothing if the entry has gone meanwhile. *)
ReturnDestroy(r) ==
  LET i == req[r].inst IN
  /\ SetReq(r, "done", None)
  /\ IF i \in pool THEN StartDestroy(i, "return") ELSE UNCHANGED destroyers
  /\ UNCHANGED <<pool, holder, conf, vm, queue, timer, mode>>

ReturnUnhealthy(r) ==
  /\ Alive /\ req[r].pc = "returning" /\ vm[req[r].inst] # "running"
  /\ ReturnDestroy(r) /\ UNCHANGED faults

(* restore throws: always with Docker, when QEMU fails otherwise. *)
ReturnRestoreFails(r) ==
  /\ Alive /\ req[r].pc = "restoring"
  /\ \/ vm[req[r].inst] # "running" /\ UNCHANGED faults
     \/ vm[req[r].inst] = "running" /\ Fault("restore")
  /\ ReturnDestroy(r)

Fits(r, i) == Os[ConfigOf[r]] = Os[conf[i]]
Waiting(i) == {k \in 1..Len(queue) : Fits(queue[k], i)}

(* The entry is freed and offered to the first queued request it fits, in   *)
(* one turn; whether it is still in the Map is not looked at.               *)
ReturnRestored(r) ==
  LET i == req[r].inst IN
  /\ Alive /\ req[r].pc = "restoring" /\ vm[i] = "running"
  /\ \/ /\ Waiting(i) = {}
        /\ holder' = [holder EXCEPT ![i] = None]
        /\ SetReq(r, "done", None)
        /\ UNCHANGED queue
     \/ \E k \in Waiting(i) :
          /\ \A l \in Waiting(i) : k <= l
          /\ holder' = [holder EXCEPT ![i] = queue[k]]
          /\ req' = [req EXCEPT ![r] = [pc |-> "done", inst |-> None],
                                ![queue[k]] = [pc |-> "got", inst |-> i]]
          /\ queue' = RemoveAt(queue, k)
  /\ UNCHANGED <<pool, conf, vm, destroyers, timer, mode, faults>>

----------------------------------------------------------------------------
(* replenishPool, and warmPool with its parallel provisionings. *)

Idle == {i \in pool : holder[i] = None}
Smaller(m, n) == IF m < n THEN m ELSE n

(* A plausible error: the size of the pool is not tested first.             *)
ReplenishUnguarded(t) ==
  /\ mode \in {"up", "closing"} /\ timer[t].left = 0 /\ timer[t].pending = {}
  /\ Cardinality(Idle) < MinReady
  /\ \E last \in pool :
       timer' = [timer EXCEPT ![t].left = Smaller(MinReady - Cardinality(Idle),
                                                  MaxTotal - Cardinality(pool)),
                              ![t].cfg = conf[last]]
  /\ UNCHANGED <<pool, holder, conf, vm, destroyers, req, queue, mode, faults>>

(* The interval fires until stop() clears it.  How many to provision and    *)
(* with which configuration is settled here, before the first await.        *)
ReplenishStart(t) ==
  /\ mode \in {"up", "closing"} /\ timer[t].left = 0 /\ timer[t].pending = {}
  /\ Cardinality(Idle) < MinReady /\ Cardinality(pool) < MaxTotal
  /\ \E last \in pool :
       timer' = [timer EXCEPT ![t].left = Smaller(MinReady - Cardinality(Idle),
                                                  MaxTotal - Cardinality(pool)),
                              ![t].cfg = conf[last]]
  /\ UNCHANGED <<pool, holder, conf, vm, destroyers, req, queue, mode, faults>>

(* The loop provisions one after the other and looks at nothing again; an   *)
(* iteration is begun in the turn that ends the one before, and nothing     *)
(* reads what it begins.                                                    *)
ReplenishProvision(t) ==
  /\ Alive /\ timer[t].left > 0 /\ timer[t].pending = {}
  /\ \E i \in Instances :
       /\ StartVm(i, timer[t].cfg)
       /\ timer' = [timer EXCEPT ![t].left = @ - 1, ![t].pending = {i}]
  /\ UNCHANGED <<pool, holder, destroyers, req, queue, mode, faults>>

WarmPool(t, c) ==
  /\ "warm" \in Callers /\ mode = "up" /\ timer[t].left = 0 /\ timer[t].pending = {}
  /\ \E S \in SUBSET {i \in Instances : vm[i] = "none"} :
       /\ S # {} /\ Cardinality(S) <= MaxTotal - Cardinality(pool)
       /\ vm' = [i \in Instances |-> IF i \in S THEN "starting" ELSE vm[i]]
       /\ conf' = [i \in Instances |-> IF i \in S THEN c ELSE conf[i]]
       /\ timer' = [timer EXCEPT ![t].pending = S]
  /\ UNCHANGED <<pool, holder, destroyers, req, queue, mode, faults>>

(* The new entry is left to whoever checks out next: no queued request is   *)
(* offered it.                                                              *)
TimerProvisioned(t, i) ==
  /\ Alive /\ i \in timer[t].pending
  /\ VmStarted(i)
  /\ timer' = [timer EXCEPT ![t].pending = @ \ {i}]
  /\ UNCHANGED <<holder, conf, destroyers, req, queue, mode, faults>>

TimerProvisionFails(t, i) ==
  /\ Alive /\ i \in timer[t].pending
  /\ VmFailed(i)
  /\ timer' = [timer EXCEPT ![t].pending = @ \ {i}]
  /\ UNCHANGED <<pool, holder, conf, destroyers, req, queue, mode>>

----------------------------------------------------------------------------
(* shutdown of index.ts *)

Signal ==
  /\ mode = "up" /\ mode' = "closing"
  /\ UNCHANGED <<pool, holder, conf, vm, destroyers, req, queue, timer, faults>>

(* server.close calls back when every connection has ended, answered or     *)
(* hung up by its client; a handler whose client hung up goes on, so a      *)
(* checkout or a destroy may still be in progress.  stop() rejects the      *)
(* queue and takes the entries the Map holds now.                           *)
Stop ==
  /\ mode = "closing" /\ mode' = "stopping"
  /\ queue' = <<>>
  /\ destroyers' = [i \in Instances |->
                      IF i \in pool THEN destroyers[i] \cup {"stop"} ELSE destroyers[i]]
  /\ UNCHANGED <<pool, holder, conf, vm, req, timer, faults>>

(* All those destroys have settled: pool.clear(), which also forgets what   *)
(* has entered the Map meanwhile.                                           *)
StopEnd ==
  /\ mode = "stopping" /\ mode' = "flushing"
  /\ \A i \in Instances : "stop" \notin destroyers[i]
  /\ pool' = {}
  /\ UNCHANGED <<holder, conf, vm, destroyers, req, queue, timer, faults>>

(* networkIsolation.flushAll has resolved: process.exit. *)
Exit ==
  /\ mode = "flushing" /\ mode' = "exited"
  /\ UNCHANGED <<pool, holder, conf, vm, destroyers, req, queue, timer, faults>>

ForcedExit ==
  /\ mode \in {"closing", "stopping", "flushing"} /\ Fault("exit")
  /\ mode' = "killed"
  /\ UNCHANGED <<pool, holder, conf, vm, destroyers, req, queue, timer>>

----------------------------------------------------------------------------
RequestStep(r) ==
  \/ CheckoutAvailable(r) \/ CheckoutProvision(r) \/ CheckoutQueue(r)
  \/ CheckoutProvisioned(r) \/ CheckoutProvisionFails(r)
  \/ QueueTimeout(r) \/ QueueRejected(r)
  \/ RouteDestroy(r)
  \/ ReturnStart(r) \/ ReturnHealthy(r) \/ ReturnUnhealthy(r)
  \/ ReturnRestoreFails(r) \/ ReturnRestored(r)

DestroyStep(i, c) == DestroyDone(i, c) \/ DestroyFails(i, c)

InstanceStep(i) ==
  \/ VmBreaks(i) \/ RouteDestroyAny(i) \/ CleanupExpired(i)
  \/ \E c \in DestroyCallers : DestroyStep(i, c)

TimerStep(t) ==
  \/ ReplenishStart(t) \/ ReplenishProvision(t)
  \/ \E c \in Configs : WarmPool(t, c)
  \/ \E i \in Instances : TimerProvisioned(t, i) \/ TimerProvisionFails(t, i)

Next ==
  \/ \E r \in Requests : RequestStep(r)
  \/ \E i \in Instances : InstanceStep(i)
  \/ \E t \in Timers : TimerStep(t)
  \/ Signal \/ Stop \/ StopEnd \/ Exit \/ ForcedExit

Spec == Init /\ [][Next]_vars

(* The provider answers every call, the timers fire, and shutdown goes on.  *)
(* Nothing is assumed of the clients.                                       *)
Fairness ==
  /\ \A r \in Requests : /\ WF_vars(CheckoutProvisioned(r) \/ CheckoutProvisionFails(r))
                         /\ WF_vars(QueueTimeout(r) \/ QueueRejected(r))
  /\ \A i \in Instances : /\ WF_vars(CleanupExpired(i))
                          /\ \A c \in DestroyCallers : WF_vars(DestroyStep(i, c))

FairSpec == Spec /\ Fairness

----------------------------------------------------------------------------
TypeOK ==
  /\ pool \subseteq Instances
  /\ holder \in [Instances -> Requests \cup {None}]
  /\ conf \in [Instances -> Configs]
  /\ vm \in [Instances -> VmStates]
  /\ destroyers \in [Instances -> SUBSET DestroyCallers]
  /\ req \in [Requests -> [pc : ReqStates, inst : Instances \cup {None}]]
  /\ queue \in Seq(Requests)
  /\ timer \in [Timers -> [left : Nat, pending : SUBSET Instances, cfg : Configs]]
  /\ mode \in Modes
  /\ faults \in Nat

(* Two sessions never use the same sandbox: an instance belongs to one      *)
(* requester until it has been returned and restored.  (The mark in         *)
(* checkout, and restore before the entry is offered again.)                *)
Using == {"got", "returning", "restoring"}
ExclusiveCheckout ==
  \A r, s \in Requests :
    (r # s /\ req[r].pc \in Using /\ req[s].pc \in Using) => req[r].inst # req[s].inst

(* A sandbox handed out is one that the pool still tracks, and that the     *)
(* cleanup loop, a return or stop() is not about to destroy: checkout takes *)
(* the entry from the Map while they await the provider.  A destroy that    *)
(* some client asked for may be under way: nothing marks an idle entry      *)
(* whose destruction the route awaits, and checkout does hand it out.       *)
HandoutIsLive ==
  [][\A r \in Requests :
       (req[r].pc # "got" /\ req'[r].pc = "got") =>
         LET i == req'[r].inst IN i \in pool' /\ destroyers[i] \subseteq {"route"}]_vars

(* An instance that runs and that the pool has forgotten is the trace of a  *)
(* provider call that failed: whatever the order of checkouts, returns,     *)
(* cleanups and destroys, nothing else leaks one, until stop() clears the   *)
(* Map.                                                                     *)
Lost == {i \in Instances : vm[i] \in {"running", "broken"} /\ i \notin pool}
LeakPerFault == mode \in {"up", "closing", "stopping"} => Cardinality(Lost) <= faults

(* What the pool promises: see SandboxAllocator.  An id is spent once       *)
(* nothing tracks it and its provisioning is over.                          *)
ClientState ==
  [pc \in ReqStates |->
     CASE pc = "idle" -> "idle"
       [] pc \in {"provisioning", "queued"} -> "waiting"
       [] pc \in {"got", "returning", "restoring"} -> "holding"
       [] pc \in {"done", "failed"} -> "ended"]

Allocator == INSTANCE SandboxAllocator WITH
  pooled <- pool,
  retired <- {i \in Instances : i \notin pool /\ vm[i] \notin {"none", "starting"}},
  owner <- holder,
  client <- [r \in Requests |-> ClientState[req[r].pc]]

(* As index.ts calls it, the pool hands every instance out once, to one     *)
(* request, and never takes a forgotten one back, whatever the order of its *)
(* checkouts, timers, destroys and shutdown.                                *)
AllocatesOnce == Allocator!Spec

(* Every checkout is answered, with a sandbox or an error, unless the       *)
(* process ends first.                                                      *)
CheckoutAnswered ==
  \A r \in Requests :
    req[r].pc \in {"provisioning", "queued"} ~>
      (req[r].pc \notin {"provisioning", "queued"} \/ ~Alive)

(* An abandoned session does not keep its sandbox: cleanupExpiredSessions   *)
(* takes the entry out even when the provider fails to destroy it.          *)
SessionEnds ==
  \A i \in Instances, r \in Requests :
    (i \in pool /\ holder[i] = r) ~> (i \notin pool \/ holder[i] # r \/ ~Alive)

(* "If none available and pool is full, the request is queued until an      *)
(* instance becomes available" (checkout): no request waits while an        *)
(* instance it could have is idle.                                          *)
QueuedUntilAvailable ==
  mode = "up" => \A r \in Requests : req[r].pc = "queued" => NoneAvailable(r)

(* "Try to find an available instance matching the config" (checkout): the  *)
(* sandbox has the image and the resources the request named.               *)
MatchesConfig ==
  \A r \in Requests : req[r].pc = "got" => conf[req[r].inst] = ConfigOf[r]

(* "Stop pool maintenance and destroy all instances" (stop). *)
StopLeavesNothing == mode = "exited" => \A i \in Instances : vm[i] # "running"

=============================================================================
