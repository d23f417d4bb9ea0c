------------------------ MODULE SandboxPool_proofs ------------------------
(* Theorems about SandboxPool for any requests, instances, bounds, callers  *)
(* and faults, the refinement of SandboxAllocator, and, in the last section, *)
(* theorems about the other sandbox, Detonation.                            *)
EXTENDS SandboxPool, FiniteSetTheorems, SequenceTheorems, TLAPS

(* A session that uses an instance is the one its entry is marked with. *)
UsersHold ==
  \A r \in Requests :
    req[r].pc \in Using => req[r].inst \in Instances /\ holder[req[r].inst] = r

(* What is being provisioned has one owner: a request or a timer. *)
RequestsProvision ==
  \A r \in Requests :
    req[r].pc = "provisioning" =>
      /\ req[r].inst \in Instances /\ vm[req[r].inst] = "starting"
      /\ \A s \in Requests \ {r} : req[s].pc = "provisioning" => req[s].inst # req[r].inst
      /\ \A t \in Timers : req[r].inst \notin timer[t].pending

TimersProvision ==
  \A t \in Timers : \A i \in timer[t].pending :
    vm[i] = "starting" /\ \A u \in Timers \ {t} : i \notin timer[u].pending

(* Nobody has, finds or destroys what is not provisioned yet. *)
NewIsUntouched ==
  \A i \in Instances :
    vm[i] \in {"none", "starting"} => holder[i] = None /\ i \notin pool /\ destroyers[i] = {}

QueueIsWaiting ==
  \A k \in 1..Len(queue) :
    /\ req[queue[k]].pc = "queued"
    /\ \A l \in 1..Len(queue) : l # k => queue[l] # queue[k]

Inv == TypeOK /\ UsersHold /\ RequestsProvision /\ TimersProvision /\ NewIsUntouched /\ QueueIsWaiting

----------------------------------------------------------------------------
(* Taking an element out keeps the others in their order. *)
LEMMA RemoveAtElements ==
  ASSUME NEW S, NEW s \in Seq(S), NEW k \in 1..Len(s)
  PROVE  /\ RemoveAt(s, k) \in Seq(S)
         /\ Len(RemoveAt(s, k)) = Len(s) - 1
         /\ \A j \in 1..(Len(s) - 1) : RemoveAt(s, k)[j] = IF j < k THEN s[j] ELSE s[j + 1]
<1> DEFINE front == SubSeq(s, 1, k - 1)
           back == SubSeq(s, k + 1, Len(s))
<1>0. k \in Int /\ Len(s) \in Nat /\ \A i \in 1..Len(s) : s[i] \in S
  OBVIOUS
<1>1. /\ front \in Seq(S) /\ Len(front) = k - 1
      /\ \A j \in 1..(k - 1) : front[j] = s[j]
  <2>1. \A i \in 1..(k - 1) : s[i] \in S
    BY <1>0
  <2> QED
    BY <1>0, <2>1, SubSeqProperties
<1>2. /\ back \in Seq(S) /\ Len(back) = Len(s) - k
      /\ \A j \in 1..(Len(s) - k) : back[j] = s[k + j]
  <2>1. \A i \in (k + 1)..Len(s) : s[i] \in S
    BY <1>0
  <2> QED
    BY <1>0, <2>1, SubSeqProperties
<1>3. /\ front \o back \in Seq(S)
      /\ Len(front \o back) = Len(front) + Len(back)
      /\ \A j \in 1..(Len(front) + Len(back)) :
           (front \o back)[j] = IF j <= Len(front) THEN front[j] ELSE back[j - Len(front)]
  BY <1>1, <1>2, ConcatProperties
<1> HIDE DEF front, back
<1>4. Len(front \o back) = Len(s) - 1
  BY <1>0, <1>1, <1>2, <1>3
<1>5. ASSUME NEW j \in 1..(Len(s) - 1)
      PROVE  (front \o back)[j] = IF j < k THEN s[j] ELSE s[j + 1]
  <2>1. CASE j < k
    BY <2>1, <1>0, <1>1, <1>2, <1>3
  <2>2. CASE ~(j < k)
    <3>1. j - Len(front) \in 1..(Len(s) - k) /\ k + (j - Len(front)) = j + 1
      BY <2>2, <1>0, <1>1
    <3>2. (front \o back)[j] = back[j - Len(front)]
      BY <2>2, <1>0, <1>1, <1>2, <1>3
    <3> QED
      BY <2>2, <3>1, <3>2, <1>2
  <2> QED
    BY <2>1, <2>2
<1>6. RemoveAt(s, k) = front \o back
  BY DEF RemoveAt, front, back
<1> QED
  BY <1>3, <1>4, <1>5, <1>6

(* How many there are to provision is a natural number. *)
LEMMA ReplenishCount ==
  ASSUME TypeOK, Cardinality(Idle) < MinReady, Cardinality(pool) < MaxTotal
  PROVE  Smaller(MinReady - Cardinality(Idle), MaxTotal - Cardinality(pool)) \in Nat
<1>1. IsFiniteSet(pool) /\ IsFiniteSet(Idle)
  BY PoolAssumption, FS_Subset DEF TypeOK, Idle
<1>2. Cardinality(pool) \in Nat /\ Cardinality(Idle) \in Nat
  BY <1>1, FS_CardinalityType
<1> QED
  BY <1>2, PoolAssumption DEF Smaller

LEMMA InitInv == Init => Inv
  BY PoolAssumption DEF Init, Inv, TypeOK, UsersHold, RequestsProvision, TimersProvision,
     NewIsUntouched, QueueIsWaiting, IdleTimer, AnyConfig, Using, VmStates, ReqStates, Modes

(* What a session does with an instance it uses, short of giving it to      *)
(* another: it goes on using it, or ends and may ask for its destruction.   *)
LEMMA SessionStep ==
  ASSUME Inv, NEW r \in Requests, req[r].pc \in Using,
         NEW p \in Using \cup {"done"}, NEW j \in Instances \cup {None},
         p \in Using => j = req[r].inst,
         SetReq(r, p, j),
         destroyers' \in [Instances -> SUBSET DestroyCallers],
         \A i \in Instances : destroyers'[i] # destroyers[i] => i \in pool,
         faults' \in Nat,
         UNCHANGED <<pool, holder, conf, vm, queue, timer, mode>>
  PROVE  Inv'
<1> USE DEF Inv, Using, SetReq
<1>1. TypeOK'
  BY DEF TypeOK, ReqStates
<1>2. UsersHold'
  BY DEF TypeOK, UsersHold
<1>3. RequestsProvision' /\ TimersProvision'
  BY DEF TypeOK, RequestsProvision, TimersProvision
<1>4. NewIsUntouched'
  BY DEF TypeOK, NewIsUntouched
<1>5. QueueIsWaiting'
  BY DEF TypeOK, QueueIsWaiting
<1> QED
  BY <1>1, <1>2, <1>3, <1>4, <1>5

(* destroyPoolInstance touches only what is in the Map. *)
LEMMA DestroyTouches ==
  ASSUME TypeOK, NEW i, NEW c \in DestroyCallers,
         IF i \in pool THEN StartDestroy(i, c) ELSE UNCHANGED destroyers
  PROVE  /\ destroyers' \in [Instances -> SUBSET DestroyCallers]
         /\ \A l \in Instances : destroyers'[l] # destroyers[l] => l \in pool
<1>1. CASE i \in pool
  BY <1>1 DEF TypeOK, StartDestroy
<1>2. CASE i \notin pool
  BY <1>2 DEF TypeOK
<1> QED
  BY <1>1, <1>2

(* Those who still wait when an element has been taken out of the queue. *)
LEMMA StillWaiting ==
  ASSUME Inv, NEW k \in 1..Len(queue), Len(queue') = Len(queue) - 1,
         \A j \in 1..(Len(queue) - 1) : queue'[j] = IF j < k THEN queue[j] ELSE queue[j + 1],
         \A j \in 1..Len(queue) : j # k => req'[queue[j]].pc = "queued"
  PROVE  QueueIsWaiting'
<1>0. Len(queue) \in Nat
  BY DEF Inv, TypeOK
<1> DEFINE from(j) == IF j < k THEN j ELSE j + 1
<1>1. \A j \in 1..(Len(queue) - 1) : from(j) \in 1..Len(queue) \ {k} /\ queue'[j] = queue[from(j)]
  BY <1>0
<1>2. \A j, l \in 1..(Len(queue) - 1) : l # j => from(l) # from(j)
  BY <1>0
<1> HIDE DEF from
<1>3. \A j, l \in 1..Len(queue) : l # j => queue[l] # queue[j]
  BY DEF Inv, QueueIsWaiting
<1>4. ASSUME NEW j \in 1..Len(queue')
      PROVE  /\ req'[queue'[j]].pc = "queued"
             /\ \A l \in 1..Len(queue') : l # j => queue'[l] # queue'[j]
  <2>1. j \in 1..(Len(queue) - 1) /\ from(j) \in 1..Len(queue) /\ from(j) # k
    BY <1>0, <1>1
  <2>2. req'[queue'[j]].pc = "queued"
    BY <1>1, <2>1
  <2>3. ASSUME NEW l \in 1..Len(queue'), l # j PROVE queue'[l] # queue'[j]
    <3>1. l \in 1..(Len(queue) - 1) /\ from(l) \in 1..Len(queue) /\ from(l) # from(j)
      BY <1>0, <1>1, <1>2, <2>1, <2>3
    <3> QED
      BY <1>1, <1>3, <2>1, <3>1
  <2> QED
    BY <2>2, <2>3
<1> QED
  BY <1>4 DEF QueueIsWaiting

(* A fault counts one more. *)
LEMMA FaultCounts == ASSUME TypeOK, NEW kind, Fault(kind) PROVE faults' \in Nat
  BY DEF TypeOK, Fault

(* The queue when a request leaves it. *)
LEMMA QueueShrinks ==
  ASSUME queue \in Seq(Requests), NEW k \in 1..Len(queue), queue' = RemoveAt(queue, k)
  PROVE  /\ queue' \in Seq(Requests) /\ Len(queue') = Len(queue) - 1
         /\ \A j \in 1..(Len(queue) - 1) : queue'[j] = IF j < k THEN queue[j] ELSE queue[j + 1]
  BY RemoveAtElements

(* Each step of a request. *)
LEMMA RequestStepInv ==
  ASSUME Inv, NEW r \in Requests, RequestStep(r)
  PROVE  Inv'
<1> USE PoolAssumption DEF Inv, Using
<1>1. CASE CheckoutAvailable(r)
  BY <1>1 DEF CheckoutAvailable, Available, SetReq, VmStates, ReqStates,
     TypeOK, UsersHold, RequestsProvision, TimersProvision, NewIsUntouched, QueueIsWaiting
<1>2. CASE CheckoutProvision(r)
  BY <1>2 DEF CheckoutProvision, StartVm, SetReq, VmStates, ReqStates,
     TypeOK, UsersHold, RequestsProvision, TimersProvision, NewIsUntouched, QueueIsWaiting
<1>3. CASE CheckoutProvisioned(r)
  <2>1. TypeOK'
    BY <1>3 DEF CheckoutProvisioned, VmStarted, SetReq, VmStates, ReqStates, TypeOK, RequestsProvision
  <2>2. UsersHold' /\ NewIsUntouched'
    BY <1>3 DEF CheckoutProvisioned, VmStarted, SetReq, TypeOK, UsersHold, NewIsUntouched, RequestsProvision
  <2>3. RequestsProvision' /\ TimersProvision'
    BY <1>3 DEF CheckoutProvisioned, VmStarted, SetReq, TypeOK, RequestsProvision, TimersProvision
  <2>4. QueueIsWaiting'
    <3>1. \A k \in 1..Len(queue) : queue[k] \in Requests \ {r}
      BY <1>3 DEF CheckoutProvisioned, TypeOK, QueueIsWaiting
    <3>2. \A s \in Requests \ {r} : req'[s] = req[s]
      BY <1>3 DEF CheckoutProvisioned, SetReq, TypeOK
    <3> QED
      BY <1>3, <3>1, <3>2 DEF CheckoutProvisioned, QueueIsWaiting
  <2> QED
    BY <2>1, <2>2, <2>3, <2>4
<1>4. CASE CheckoutProvisionFails(r)
  <2>1. /\ vm' = [vm EXCEPT ![req[r].inst] = "gone"] \/ vm' = [vm EXCEPT ![req[r].inst] = "running"]
        /\ faults' \in Nat
    BY <1>4, FaultCounts DEF CheckoutProvisionFails, VmFailed, Fault
  <2>2. TypeOK'
    BY <1>4, <2>1 DEF CheckoutProvisionFails, SetReq, TypeOK, VmStates, ReqStates
  <2>3. UsersHold' /\ NewIsUntouched' /\ QueueIsWaiting'
    BY <1>4, <2>1 DEF CheckoutProvisionFails, SetReq, TypeOK, VmStates, UsersHold, NewIsUntouched, QueueIsWaiting
  <2>4. RequestsProvision' /\ TimersProvision'
    BY <1>4, <2>1 DEF CheckoutProvisionFails, SetReq, TypeOK, RequestsProvision, TimersProvision
  <2> QED
    BY <2>2, <2>3, <2>4
<1>5. CASE CheckoutQueue(r)
  <2>1. TypeOK' /\ UsersHold' /\ NewIsUntouched'
    BY <1>5 DEF CheckoutQueue, SetReq, TypeOK, ReqStates, UsersHold, NewIsUntouched
  <2>2. RequestsProvision' /\ TimersProvision'
    BY <1>5 DEF CheckoutQueue, SetReq, TypeOK, RequestsProvision, TimersProvision
  <2>3. QueueIsWaiting'
    <3>1. \A k \in 1..Len(queue) : queue[k] \in Requests \ {r}
      BY <1>5 DEF CheckoutQueue, TypeOK, QueueIsWaiting
    <3>2. /\ Len(queue') = Len(queue) + 1 /\ queue'[Len(queue) + 1] = r
          /\ \A k \in 1..Len(queue) : queue'[k] = queue[k]
      BY <1>5, AppendProperties DEF CheckoutQueue, TypeOK
    <3>3. req'[r].pc = "queued" /\ \A s \in Requests \ {r} : req'[s] = req[s]
      BY <1>5 DEF CheckoutQueue, SetReq, TypeOK
    <3> QED
      <4>1. Len(queue) \in Nat /\ \A k \in 1..Len(queue') : k \in 1..Len(queue) \/ k = Len(queue) + 1
        BY <3>2 DEF TypeOK
      <4>2. ASSUME NEW k \in 1..Len(queue') PROVE req'[queue'[k]].pc = "queued"
        BY <3>1, <3>2, <3>3, <4>1 DEF QueueIsWaiting
      <4>3. ASSUME NEW k \in 1..Len(queue'), NEW l \in 1..Len(queue'), l # k
            PROVE  queue'[l] # queue'[k]
        <5>1. CASE k = Len(queue) + 1
          BY <3>1, <3>2, <4>1, <4>3, <5>1
        <5>2. CASE l = Len(queue) + 1
          BY <3>1, <3>2, <4>1, <4>3, <5>2
        <5>3. CASE k \in 1..Len(queue) /\ l \in 1..Len(queue)
          BY <3>2, <4>3, <5>3 DEF QueueIsWaiting
        <5> QED
          BY <4>1, <5>1, <5>2, <5>3
      <4> QED
        BY <4>2, <4>3 DEF QueueIsWaiting
  <2> QED
    BY <2>1, <2>2, <2>3
<1>6. CASE QueueTimeout(r)
  <2>1. PICK k \in 1..Len(queue) : queue[k] = r /\ queue' = RemoveAt(queue, k)
    BY <1>6 DEF QueueTimeout
  <2>2. /\ queue' \in Seq(Requests) /\ Len(queue') = Len(queue) - 1
        /\ \A j \in 1..(Len(queue) - 1) : queue'[j] = IF j < k THEN queue[j] ELSE queue[j + 1]
    <3>1. queue \in Seq(Requests)
      BY DEF TypeOK
    <3> QED
      BY <2>1, <3>1, QueueShrinks
  <2>3. TypeOK' /\ UsersHold' /\ NewIsUntouched'
    BY <1>6, <2>2 DEF QueueTimeout, SetReq, TypeOK, ReqStates, UsersHold, NewIsUntouched
  <2>4. RequestsProvision' /\ TimersProvision'
    BY <1>6 DEF QueueTimeout, SetReq, TypeOK, RequestsProvision, TimersProvision
  <2>5. QueueIsWaiting'
    <3>1. \A j \in 1..Len(queue) : j # k => queue[j] \in Requests \ {r} /\ req[queue[j]].pc = "queued"
      BY <2>1 DEF TypeOK, QueueIsWaiting
    <3>2. \A s \in Requests \ {r} : req'[s] = req[s]
      BY <1>6 DEF QueueTimeout, SetReq, TypeOK
    <3>3. \A j \in 1..Len(queue) : j # k => req'[queue[j]].pc = "queued"
      BY <3>1, <3>2
    <3> QED
      BY <2>2, <3>3, StillWaiting
  <2> QED
    BY <2>3, <2>4, <2>5
<1>13. CASE QueueRejected(r)
  <2>1. TypeOK' /\ UsersHold' /\ NewIsUntouched'
    BY <1>13 DEF QueueRejected, SetReq, TypeOK, ReqStates, UsersHold, NewIsUntouched
  <2>2. RequestsProvision' /\ TimersProvision'
    BY <1>13 DEF QueueRejected, SetReq, TypeOK, RequestsProvision, TimersProvision
  <2>3. QueueIsWaiting'
    <3>0. queue \in Seq(Requests)
      BY DEF TypeOK
    <3>1. \A k \in 1..Len(queue) : queue[k] \in Requests \ {r}
      <4>1. \A k \in 1..Len(queue) : queue[k] \in Requests
        BY <3>0
      <4> QED BY <4>1, <1>13 DEF QueueRejected
    <3>2. \A s \in Requests \ {r} : req'[s] = req[s]
      BY <1>13 DEF QueueRejected, SetReq, TypeOK
    <3> QED
      BY <1>13, <3>1, <3>2 DEF QueueRejected, QueueIsWaiting
  <2> QED
    BY <2>1, <2>2, <2>3
<1>7. CASE RouteDestroy(r)
  BY <1>7, DestroyTouches, SessionStep DEF RouteDestroy, TypeOK, DestroyCallers
<1>8. CASE ReturnStart(r)
  BY <1>8, SessionStep DEF ReturnStart, TypeOK
<1>9. CASE ReturnHealthy(r)
  BY <1>9, SessionStep DEF ReturnHealthy, TypeOK
<1>10. CASE ReturnUnhealthy(r)
  BY <1>10, DestroyTouches, SessionStep DEF ReturnUnhealthy, ReturnDestroy, TypeOK, DestroyCallers
<1>11. CASE ReturnRestoreFails(r)
  BY <1>11, FaultCounts, DestroyTouches, SessionStep
     DEF ReturnRestoreFails, ReturnDestroy, TypeOK, DestroyCallers
<1>12. CASE ReturnRestored(r)
  <2> DEFINE i == req[r].inst
  <2>0. i \in Instances /\ holder[i] = r /\ vm[i] = "running"
    BY <1>12 DEF ReturnRestored, UsersHold
  <2>1. CASE holder' = [holder EXCEPT ![i] = None] /\ SetReq(r, "done", None) /\ UNCHANGED queue
    BY <1>12, <2>0, <2>1 DEF ReturnRestored, SetReq, VmStates, ReqStates,
       TypeOK, UsersHold, RequestsProvision, TimersProvision, NewIsUntouched, QueueIsWaiting
  <2>2. ASSUME NEW k \in Waiting(i),
               holder' = [holder EXCEPT ![i] = queue[k]],
               req' = [req EXCEPT ![r] = [pc |-> "done", inst |-> None],
                                  ![queue[k]] = [pc |-> "got", inst |-> i]],
               queue' = RemoveAt(queue, k)
        PROVE  Inv'
    <3> DEFINE q == queue[k]
    <3>1. k \in 1..Len(queue) /\ q \in Requests /\ req[q].pc = "queued" /\ q # r
      BY <1>12 DEF Waiting, ReturnRestored, TypeOK, QueueIsWaiting
    <3>2. /\ queue' \in Seq(Requests) /\ Len(queue') = Len(queue) - 1
          /\ \A j \in 1..(Len(queue) - 1) : queue'[j] = IF j < k THEN queue[j] ELSE queue[j + 1]
      <4>1. queue \in Seq(Requests)
        BY DEF TypeOK
      <4> QED
        BY <2>2, <3>1, <4>1, QueueShrinks
    <3>3. /\ req' \in [Requests -> [pc : ReqStates, inst : Instances \cup {None}]]
          /\ req'[r] = [pc |-> "done", inst |-> None]
          /\ req'[q] = [pc |-> "got", inst |-> i]
          /\ \A s \in Requests \ {r, q} : req'[s] = req[s]
      BY <2>0, <2>2, <3>1 DEF TypeOK, ReqStates
    <3>4. holder' \in [Instances -> Requests \cup {None}] /\ holder'[i] = q
          /\ \A l \in Instances \ {i} : holder'[l] = holder[l]
      BY <2>0, <2>2, <3>1 DEF TypeOK
    <3> HIDE DEF i, q
    <3>5. TypeOK'
      BY <1>12, <3>2, <3>3, <3>4 DEF ReturnRestored, TypeOK
    <3>6. UsersHold'
      BY <2>0, <3>1, <3>3, <3>4 DEF UsersHold
    <3>7. RequestsProvision' /\ TimersProvision'
      BY <1>12, <3>1, <3>3, SMTT(30) DEF ReturnRestored, RequestsProvision, TimersProvision
    <3>8. NewIsUntouched'
      BY <1>12, <2>0, <3>4 DEF ReturnRestored, NewIsUntouched
    <3>9. QueueIsWaiting'
      <4>1. \A j \in 1..Len(queue) :
              j # k => queue[j] \in Requests \ {q} /\ req[queue[j]].pc = "queued"
        BY <3>1 DEF QueueIsWaiting, TypeOK, q
      <4>2. \A s \in Requests \ {q} : req[s].pc = "queued" => req'[s] = req[s]
        BY <1>12, <3>3 DEF ReturnRestored
      <4> QED
        BY <3>1, <3>2, <4>1, <4>2, StillWaiting, SMTT(30)
    <3> QED
      BY <3>5, <3>6, <3>7, <3>8, <3>9
  <2> QED
    BY <1>12, <2>1, <2>2 DEF ReturnRestored
<1> QED
  BY <1>1, <1>2, <1>3, <1>4, <1>5, <1>6, <1>7, <1>8, <1>9, <1>10, <1>11, <1>12, <1>13 DEF RequestStep

(* Each step that begins or ends a destruction. *)
LEMMA InstanceStepInv ==
  ASSUME Inv, NEW i \in Instances, InstanceStep(i)
  PROVE  Inv'
<1> USE PoolAssumption DEF Inv, Using, VmStates, DestroyCallers
<1>1. CASE VmBreaks(i)
  BY <1>1 DEF VmBreaks, Fault,
     TypeOK, UsersHold, RequestsProvision, TimersProvision, NewIsUntouched, QueueIsWaiting
<1>2. CASE RouteDestroyAny(i)
  BY <1>2 DEF RouteDestroyAny, StartDestroy,
     TypeOK, UsersHold, RequestsProvision, TimersProvision, NewIsUntouched, QueueIsWaiting
<1>3. CASE CleanupExpired(i)
  BY <1>3 DEF CleanupExpired, StartDestroy,
     TypeOK, UsersHold, RequestsProvision, TimersProvision, NewIsUntouched, QueueIsWaiting
<1>4. ASSUME NEW c \in DestroyCallers, DestroyDone(i, c) PROVE Inv'
  BY <1>4 DEF DestroyDone, Forget,
     TypeOK, UsersHold, RequestsProvision, TimersProvision, NewIsUntouched, QueueIsWaiting
<1>5. ASSUME NEW c \in DestroyCallers, DestroyFails(i, c) PROVE Inv'
  BY <1>5 DEF DestroyFails, Forget, Fault,
     TypeOK, UsersHold, RequestsProvision, TimersProvision, NewIsUntouched, QueueIsWaiting
<1> QED
  BY <1>1, <1>2, <1>3, <1>4, <1>5 DEF InstanceStep, DestroyStep

(* Each step of a timer. *)
LEMMA TimerStepInv ==
  ASSUME Inv, NEW t \in Timers, TimerStep(t)
  PROVE  Inv'
<1> USE PoolAssumption DEF Inv, Using, VmStates
<1>1. CASE ReplenishStart(t)
  <2>1. PICK n \in Nat, c \in Configs : timer' = [timer EXCEPT ![t].left = n, ![t].cfg = c]
    BY <1>1, ReplenishCount DEF ReplenishStart, TypeOK
  <2>2. \A u \in Timers : timer'[u].pending = timer[u].pending
    BY <2>1 DEF TypeOK
  <2>3. timer' \in [Timers -> [left : Nat, pending : SUBSET Instances, cfg : Configs]]
    <3> DEFINE T == [left : Nat, pending : SUBSET Instances, cfg : Configs]
               x == [timer[t] EXCEPT !.left = n, !.cfg = c]
    <3>1. timer \in [Timers -> T]
      BY DEF TypeOK
    <3>2. x \in T
      BY <3>1
    <3>3. timer' = [timer EXCEPT ![t] = x]
      BY <2>1, <3>1
    <3> HIDE DEF T, x
    <3>4. timer' \in [Timers -> T]
      BY <3>1, <3>2, <3>3
    <3> QED
      BY <3>4 DEF T
  <2>4. TypeOK' /\ UsersHold' /\ NewIsUntouched' /\ QueueIsWaiting'
    BY <1>1, <2>3 DEF ReplenishStart, TypeOK, UsersHold, NewIsUntouched, QueueIsWaiting
  <2>5. RequestsProvision' /\ TimersProvision'
    BY <1>1, <2>2 DEF ReplenishStart, RequestsProvision, TimersProvision
  <2> QED
    BY <2>4, <2>5
<1>2. CASE ReplenishProvision(t)
  BY <1>2 DEF ReplenishProvision, StartVm,
     TypeOK, UsersHold, RequestsProvision, TimersProvision, NewIsUntouched, QueueIsWaiting
<1>3. ASSUME NEW c \in Configs, WarmPool(t, c) PROVE Inv'
  BY <1>3, SMTT(30) DEF WarmPool,
     TypeOK, UsersHold, RequestsProvision, TimersProvision, NewIsUntouched, QueueIsWaiting
<1>4. ASSUME NEW i \in Instances, TimerProvisioned(t, i) PROVE Inv'
  <2>1. TypeOK'
    BY <1>4 DEF TimerProvisioned, VmStarted, TypeOK
  <2>2. UsersHold' /\ NewIsUntouched' /\ QueueIsWaiting'
    BY <1>4 DEF TimerProvisioned, VmStarted, TypeOK, UsersHold, NewIsUntouched, TimersProvision, QueueIsWaiting
  <2>3. RequestsProvision' /\ TimersProvision'
    BY <1>4 DEF TimerProvisioned, VmStarted, TypeOK, RequestsProvision, TimersProvision
  <2> QED
    BY <2>1, <2>2, <2>3
<1>5. ASSUME NEW i \in Instances, TimerProvisionFails(t, i) PROVE Inv'
  <2>0. /\ vm' = [vm EXCEPT ![i] = "gone"] \/ vm' = [vm EXCEPT ![i] = "running"]
        /\ faults' \in Nat
    BY <1>5, FaultCounts DEF TimerProvisionFails, VmFailed, Fault
  <2>1. TypeOK'
    <3>1. timer' \in [Timers -> [left : Nat, pending : SUBSET Instances, cfg : Configs]]
      BY <1>5 DEF TimerProvisionFails, TypeOK
    <3>2. vm' \in [Instances -> VmStates]
      BY <2>0 DEF TypeOK
    <3> QED
      BY <1>5, <2>0, <3>1, <3>2 DEF TimerProvisionFails, TypeOK
  <2>2. UsersHold' /\ NewIsUntouched' /\ QueueIsWaiting'
    BY <1>5, <2>0 DEF TimerProvisionFails, TypeOK, UsersHold, NewIsUntouched, QueueIsWaiting
  <2>3. RequestsProvision' /\ TimersProvision'
    BY <1>5, <2>0 DEF TimerProvisionFails, TypeOK, RequestsProvision, TimersProvision
  <2> QED
    BY <2>1, <2>2, <2>3
<1> QED
  BY <1>1, <1>2, <1>3, <1>4, <1>5 DEF TimerStep

LEMMA NextInv == Inv /\ [Next]_vars => Inv'
<1> SUFFICES ASSUME Inv, [Next]_vars PROVE Inv'
  OBVIOUS
<1>1. CASE \E r \in Requests : RequestStep(r)
  BY <1>1, RequestStepInv
<1>2. CASE \E i \in Instances : InstanceStep(i)
  BY <1>2, InstanceStepInv
<1>3. CASE \E t \in Timers : TimerStep(t)
  BY <1>3, TimerStepInv
<1>4. CASE Signal \/ Stop \/ StopEnd \/ Exit \/ ForcedExit \/ UNCHANGED vars
  <2>1. queue' \in Seq(Requests) /\ QueueIsWaiting'
    <3>1. req' = req /\ (queue' = queue \/ queue' = <<>>)
      BY <1>4 DEF Signal, Stop, StopEnd, Exit, ForcedExit, vars
    <3>2. CASE queue' = queue
      BY <3>1, <3>2 DEF Inv, TypeOK, QueueIsWaiting
    <3>3. CASE queue' = <<>>
      BY <3>3 DEF QueueIsWaiting
    <3> QED BY <3>1, <3>2, <3>3
  <2>2. /\ UNCHANGED <<holder, conf, vm, req, timer>>
        /\ pool' = pool \/ pool' = {}
        /\ destroyers' \in [Instances -> SUBSET DestroyCallers]
        /\ \A i \in Instances : destroyers'[i] # destroyers[i] => i \in pool
        /\ mode' \in Modes /\ faults' \in Nat
    BY <1>4 DEF Inv, TypeOK, DestroyCallers, Modes, Signal, Stop, StopEnd, Exit, ForcedExit, Fault, vars
  <2>3. TypeOK'
    BY <2>1, <2>2 DEF Inv, TypeOK
  <2>4. UsersHold' /\ RequestsProvision' /\ TimersProvision'
    BY <2>2 DEF Inv, UsersHold, RequestsProvision, TimersProvision
  <2>5. NewIsUntouched'
    BY <2>2 DEF Inv, TypeOK, NewIsUntouched
  <2> QED
    BY <2>1, <2>3, <2>4, <2>5 DEF Inv
<1> QED
  BY <1>1, <1>2, <1>3, <1>4 DEF Next

THEOREM SpecInv == Spec => []Inv
  BY InitInv, NextInv, PTL DEF Spec

----------------------------------------------------------------------------
(* Every variable keeps its type, in particular the count of instances a    *)
(* replenishPool call still has to provision is never negative.             *)
THEOREM TypeCorrect == Spec => []TypeOK
  BY SpecInv, PTL DEF Inv

(* Two sessions never use the same sandbox, whatever is called in whatever  *)
(* order and whatever the provider fails to do (checkout, returnToPool,     *)
(* destroyPoolInstance, cleanupExpiredSessions, replenishPool, stop).       *)
THEOREM Exclusive == Spec => []ExclusiveCheckout
<1>1. Inv => ExclusiveCheckout
  BY DEF Inv, UsersHold, ExclusiveCheckout
<1> QED
  BY <1>1, SpecInv, PTL

----------------------------------------------------------------------------
(* What is lost does not grow, or by one with a fault, until the Map is     *)
(* cleared.                                                                 *)
Tracking == mode \in {"up", "closing", "stopping"}
Contained ==
  Tracking' =>
    /\ Tracking
    /\ \/ Lost' \subseteq Lost /\ faults' \in Nat /\ faults' >= faults
       \/ \E i \in Instances : Lost' \subseteq Lost \cup {i} /\ faults' = faults + 1

LEMMA ContainedKeeps == ASSUME Inv, LeakPerFault, Contained PROVE LeakPerFault'
<1> SUFFICES ASSUME Tracking' PROVE LeakPerFault'
  BY DEF LeakPerFault, Tracking
<1>1. faults \in Nat /\ IsFiniteSet(Lost)
  BY PoolAssumption, FS_Subset DEF Inv, TypeOK, Lost
<1>2. Cardinality(Lost) \in Nat
  BY <1>1, FS_CardinalityType
<1>3. CASE Lost' \subseteq Lost /\ faults' \in Nat /\ faults' >= faults
  <2>1. Cardinality(Lost') <= Cardinality(Lost) /\ Cardinality(Lost') \in Nat
    BY <1>1, <1>3, FS_Subset, FS_CardinalityType
  <2> QED
    BY <1>1, <1>2, <1>3, <2>1 DEF Contained, LeakPerFault, Tracking
<1>4. ASSUME NEW i \in Instances, Lost' \subseteq Lost \cup {i}, faults' = faults + 1
      PROVE  LeakPerFault'
  <2>1. /\ IsFiniteSet(Lost \cup {i})
        /\ Cardinality(Lost \cup {i}) <= Cardinality(Lost) + 1 /\ Cardinality(Lost \cup {i}) \in Nat
    <3>1. /\ IsFiniteSet(Lost \cup {i})
          /\ Cardinality(Lost \cup {i}) = IF i \in Lost THEN Cardinality(Lost) ELSE Cardinality(Lost) + 1
      BY <1>1, FS_AddElement
    <3> QED
      BY <1>2, <3>1
  <2>2. Cardinality(Lost') <= Cardinality(Lost \cup {i}) /\ Cardinality(Lost') \in Nat
    BY <1>4, <2>1, FS_Subset, FS_CardinalityType
  <2> QED
    BY <1>1, <1>2, <1>4, <2>1, <2>2 DEF Contained, LeakPerFault, Tracking
<1> QED
  BY <1>3, <1>4 DEF Contained

LEMMA NextContained == ASSUME Inv, [Next]_vars PROVE Contained
<1> USE DEF Lost, Tracking, Inv, TypeOK
<1>1. ASSUME NEW r \in Requests, RequestStep(r) PROVE Contained
  <2>1. CASE CheckoutProvisionFails(r)
    <3>1. req[r].inst \in Instances /\ Lost' \subseteq Lost \cup {req[r].inst} /\ faults' = faults + 1
      BY <1>1, <2>1 DEF CheckoutProvisionFails, VmFailed, Fault, RequestsProvision
    <3> QED
      BY <2>1, <3>1 DEF Contained, CheckoutProvisionFails
  <2>2. CASE CheckoutProvision(r)
    BY <1>1, <2>2 DEF Contained, CheckoutProvision, StartVm
  <2>3. CASE CheckoutProvisioned(r)
    BY <1>1, <2>3 DEF Contained, CheckoutProvisioned, VmStarted
  <2>4. CASE ReturnRestoreFails(r)
    BY <2>4 DEF Contained, ReturnRestoreFails, ReturnDestroy, Fault
  <2>5. CASE UNCHANGED <<pool, vm, mode, faults>>
    BY <2>5 DEF Contained
  <2>6. \/ CheckoutProvisionFails(r) \/ CheckoutProvision(r) \/ CheckoutProvisioned(r)
        \/ ReturnRestoreFails(r) \/ UNCHANGED <<pool, vm, mode, faults>>
    BY <1>1 DEF RequestStep, CheckoutAvailable, CheckoutQueue, QueueTimeout,
       QueueRejected, RouteDestroy, ReturnStart, ReturnHealthy, ReturnUnhealthy, ReturnDestroy, ReturnRestored
  <2> QED
    BY <2>1, <2>2, <2>3, <2>4, <2>5, <2>6
<1>2. ASSUME NEW i \in Instances, InstanceStep(i) PROVE Contained
  <2>1. CASE VmBreaks(i)
    BY <1>2, <2>1 DEF Contained, VmBreaks, Fault
  <2>2. CASE RouteDestroyAny(i) \/ CleanupExpired(i)
    BY <2>2 DEF Contained, RouteDestroyAny, CleanupExpired
  <2>3. ASSUME NEW c \in DestroyCallers, DestroyDone(i, c) PROVE Contained
    <3>1. Lost' \subseteq Lost
      BY <1>2, <2>3 DEF DestroyDone, Forget
    <3> QED
      BY <2>3, <3>1 DEF Contained, DestroyDone, Forget
  <2>4. ASSUME NEW c \in DestroyCallers, DestroyFails(i, c) PROVE Contained
    <3>1. Lost' \subseteq Lost \cup {i} /\ faults' = faults + 1
      BY <1>2, <2>4 DEF DestroyFails, Forget, Fault
    <3> QED
      BY <2>4, <3>1 DEF Contained, DestroyFails, Forget
  <2> QED
    BY <1>2, <2>1, <2>2, <2>3, <2>4 DEF InstanceStep, DestroyStep
<1>3. ASSUME NEW t \in Timers, TimerStep(t) PROVE Contained
  <2>1. CASE ReplenishStart(t)
    BY <2>1 DEF Contained, ReplenishStart
  <2>2. CASE ReplenishProvision(t)
    BY <1>3, <2>2 DEF Contained, ReplenishProvision, StartVm
  <2>3. ASSUME NEW c \in Configs, WarmPool(t, c) PROVE Contained
    BY <1>3, <2>3 DEF Contained, WarmPool
  <2>4. ASSUME NEW i \in Instances, TimerProvisioned(t, i) PROVE Contained
    BY <1>3, <2>4 DEF Contained, TimerProvisioned, VmStarted
  <2>5. ASSUME NEW i \in Instances, TimerProvisionFails(t, i) PROVE Contained
    <3>1. Lost' \subseteq Lost \cup {i} /\ faults' = faults + 1
      BY <1>3, <2>5 DEF TimerProvisionFails, VmFailed, Fault
    <3> QED
      BY <2>5, <3>1 DEF Contained, TimerProvisionFails
  <2> QED
    BY <1>3, <2>1, <2>2, <2>3, <2>4, <2>5 DEF TimerStep
<1>4. CASE Signal \/ Stop \/ UNCHANGED vars
  BY <1>4 DEF Contained, Signal, Stop, vars
<1>5. CASE StopEnd \/ Exit \/ ForcedExit
  BY <1>5 DEF Contained, StopEnd, Exit, ForcedExit, Fault
<1> QED
  BY <1>1, <1>2, <1>3, <1>4, <1>5 DEF Next

(* Until stop() clears the Map, no more instances run untracked than calls  *)
(* to the provider have failed: no order of checkout, return, cleanup and   *)
(* destroy loses one by itself.                                             *)
THEOREM LeaksAreFaults == Spec => []LeakPerFault
<1>1. Init => LeakPerFault
  <2> SUFFICES ASSUME Init PROVE Cardinality(Lost) <= faults
    BY DEF LeakPerFault
  <2>1. Lost = {} /\ faults = 0
    BY DEF Init, Lost
  <2> QED
    BY <2>1, FS_EmptySet
<1>2. Inv /\ LeakPerFault /\ [Next]_vars => LeakPerFault'
  BY NextContained, ContainedKeeps
<1> QED
  BY <1>1, <1>2, SpecInv, PTL DEF Spec
----------------------------------------------------------------------------
(* Where nothing is handed back, an entry nobody has checked out is being   *)
(* destroyed by the route only, or by stop() once nothing is handed out.    *)
Spared == {"cleanup", "return"}
IdleIsSpared ==
  /\ \A r \in Requests : req[r].pc \notin {"returning", "restoring"}
  /\ \A i \in pool : holder[i] = None => destroyers[i] \cap Spared = {}
  /\ mode \in {"up", "closing"} => \A i \in Instances : "stop" \notin destroyers[i]

LEMMA SparedStep ==
  ASSUME "return" \notin Callers, Inv, IdleIsSpared, [Next]_vars
  PROVE  IdleIsSpared'
<1> USE PoolAssumption DEF Inv, IdleIsSpared, Spared, TypeOK
<1>1. ASSUME NEW r \in Requests, RequestStep(r) PROVE IdleIsSpared'
  <2>1. CASE CheckoutAvailable(r)
    BY <2>1 DEF CheckoutAvailable, SetReq
  <2>2. CASE CheckoutProvision(r)
    BY <2>2 DEF CheckoutProvision, SetReq
  <2>3. CASE CheckoutProvisioned(r)
    BY <2>3 DEF CheckoutProvisioned, VmStarted, SetReq, RequestsProvision
  <2>4. CASE CheckoutProvisionFails(r)
    BY <2>4 DEF CheckoutProvisionFails, SetReq
  <2>5. CASE CheckoutQueue(r) \/ QueueTimeout(r) \/ QueueRejected(r)
    <3>1. /\ UNCHANGED <<pool, holder, destroyers, mode>>
          /\ SetReq(r, "queued", None) \/ SetReq(r, "failed", None)
      BY <2>5 DEF CheckoutQueue, QueueTimeout, QueueRejected
    <3>2. \A q \in Requests : req'[q].pc \in {req[q].pc, "queued", "failed"}
      BY <3>1, SMTT(30) DEF SetReq
    <3> QED
      BY <3>1, <3>2
  <2>6. CASE RouteDestroy(r)
    <3>1. \A i \in Instances : destroyers'[i] \subseteq destroyers[i] \cup {"route"}
      BY <2>6 DEF RouteDestroy, StartDestroy
    <3>2. \A q \in Requests : req'[q].pc \in {req[q].pc, "done"}
      BY <2>6 DEF RouteDestroy, SetReq
    <3> QED
      BY <2>6, <3>1, <3>2 DEF RouteDestroy
  <2>7. ~(\/ ReturnStart(r) \/ ReturnHealthy(r) \/ ReturnUnhealthy(r)
          \/ ReturnRestoreFails(r) \/ ReturnRestored(r))
    BY DEF ReturnStart, ReturnHealthy, ReturnUnhealthy, ReturnRestoreFails, ReturnRestored
  <2> QED
    BY <1>1, <2>1, <2>2, <2>3, <2>4, <2>5, <2>6, <2>7 DEF RequestStep
<1>2. ASSUME NEW i \in Instances, InstanceStep(i) PROVE IdleIsSpared'
  <2>1. CASE VmBreaks(i)
    BY <2>1 DEF VmBreaks
  <2>2. CASE RouteDestroyAny(i)
    BY <2>2 DEF RouteDestroyAny, StartDestroy
  <2>3. CASE CleanupExpired(i)
    BY <2>3 DEF CleanupExpired, StartDestroy
  <2>4. ASSUME NEW c \in DestroyCallers, Forget(i, c) PROVE IdleIsSpared'
    BY <2>4 DEF Forget
  <2> QED
    BY <1>2, <2>1, <2>2, <2>3, <2>4 DEF InstanceStep, DestroyStep, DestroyDone, DestroyFails
<1>3. ASSUME NEW t \in Timers, TimerStep(t) PROVE IdleIsSpared'
  <2>1. CASE ReplenishStart(t)
    BY <2>1 DEF ReplenishStart
  <2>2. CASE ReplenishProvision(t)
    BY <2>2 DEF ReplenishProvision
  <2>3. ASSUME NEW c \in Configs, WarmPool(t, c) PROVE IdleIsSpared'
    BY <2>3 DEF WarmPool
  <2>4. ASSUME NEW i \in Instances, TimerProvisioned(t, i) PROVE IdleIsSpared'
    BY <1>3, <2>4 DEF TimerProvisioned, VmStarted, TimersProvision, NewIsUntouched
  <2>5. ASSUME NEW i \in Instances, TimerProvisionFails(t, i) PROVE IdleIsSpared'
    BY <2>5 DEF TimerProvisionFails
  <2> QED
    BY <1>3, <2>1, <2>2, <2>3, <2>4, <2>5 DEF TimerStep
<1>4. CASE Signal \/ StopEnd \/ Exit \/ ForcedExit \/ UNCHANGED vars
  BY <1>4 DEF Signal, StopEnd, Exit, ForcedExit, vars
<1>5. CASE Stop
  BY <1>5 DEF Stop
<1> QED
  BY <1>1, <1>2, <1>3, <1>4, <1>5 DEF Next

LEMMA SparedHandout ==
  ASSUME "return" \notin Callers, Inv, IdleIsSpared, [Next]_vars,
         NEW r \in Requests, req[r].pc # "got", req'[r].pc = "got"
  PROVE  req'[r].inst \in pool' /\ destroyers[req'[r].inst] \subseteq {"route"}
<1> USE DEF Inv, TypeOK, IdleIsSpared, Spared
<1>1. \E s \in Requests : RequestStep(s)
  BY DEF Next, vars, InstanceStep, DestroyStep, TimerStep, VmBreaks, RouteDestroyAny, CleanupExpired,
     DestroyDone, DestroyFails, Forget, ReplenishStart, ReplenishProvision, WarmPool,
     TimerProvisioned, TimerProvisionFails, Signal, Stop, StopEnd, Exit, ForcedExit
<1>2. PICK s \in Requests : RequestStep(s)
  BY <1>1
<1>3. CheckoutAvailable(s) \/ CheckoutProvisioned(s)
  <2>1. ~(\/ ReturnStart(s) \/ ReturnHealthy(s) \/ ReturnUnhealthy(s)
          \/ ReturnRestoreFails(s) \/ ReturnRestored(s))
    BY DEF ReturnStart, ReturnHealthy, ReturnUnhealthy, ReturnRestoreFails, ReturnRestored
  <2>2. ASSUME NEW p \in ReqStates \ {"got"}, NEW i \in Instances \cup {None}, SetReq(s, p, i)
        PROVE  FALSE
    <3>1. req'[r] = [pc |-> p, inst |-> i] \/ req'[r] = req[r]
      BY <2>2 DEF SetReq
    <3>2. [pc |-> p, inst |-> i].pc = p
      OBVIOUS
    <3> QED BY <3>1, <3>2
  <2>3. ~CheckoutProvision(s)
    BY <2>2 DEF CheckoutProvision, ReqStates
  <2>4. ~(CheckoutProvisionFails(s) \/ CheckoutQueue(s) \/ QueueTimeout(s) \/ QueueRejected(s)
          \/ RouteDestroy(s))
    BY <2>2 DEF CheckoutProvisionFails, CheckoutQueue, QueueTimeout, QueueRejected, RouteDestroy, ReqStates
  <2> QED
    BY <1>2, <2>1, <2>3, <2>4 DEF RequestStep
<1>4. CASE CheckoutAvailable(s)
  BY <1>4 DEF CheckoutAvailable, Available, SetReq, DestroyCallers
<1>5. CASE CheckoutProvisioned(s)
  BY <1>5 DEF CheckoutProvisioned, VmStarted, SetReq, RequestsProvision, NewIsUntouched
<1> QED
  BY <1>3, <1>4, <1>5

(* As long as nobody calls returnToPool, and nobody in the repository does, *)
(* a checkout never hands out a sandbox that the pool has dropped or that   *)
(* the cleanup loop or stop() waits to destroy, whatever clients destroy    *)
(* meanwhile; an idle one whose destruction a client asked for may be       *)
(* handed out (checkout, cleanupExpiredSessions, destroyPoolInstance, stop).*)
THEOREM HandoutsAreLive == ASSUME "return" \notin Callers PROVE Spec => HandoutIsLive
<1> DEFINE Live == \A r \in Requests :
                     (req[r].pc # "got" /\ req'[r].pc = "got") =>
                       LET i == req'[r].inst IN i \in pool' /\ destroyers[i] \subseteq {"route"}
<1>1. Init => IdleIsSpared
  BY DEF Init, IdleIsSpared
<1>2. Inv /\ IdleIsSpared /\ [Next]_vars => IdleIsSpared'
  BY SparedStep
<1>3. Inv /\ IdleIsSpared /\ [Next]_vars => [Live]_vars
  BY SparedHandout
<1>4. HandoutIsLive <=> [][Live]_vars
  BY PTL DEF HandoutIsLive
<1> HIDE DEF Live
<1> QED
  BY <1>1, <1>2, <1>3, <1>4, SpecInv, PTL DEF Spec

----------------------------------------------------------------------------
(* The refinement: what the allocator sees of the pool, and the step of it *)
(* that every step of the pool is.                                         *)
Retired == {i \in Instances : i \notin pool /\ vm[i] \notin {"none", "starting"}}
Client == [r \in Requests |-> ClientState[req[r].pc]]

NoneReturns == \A r \in Requests : req[r].pc \notin {"returning", "restoring"}

LEMMA ClientStates ==
  /\ ClientState["idle"] = "idle"
  /\ ClientState["provisioning"] = "waiting" /\ ClientState["queued"] = "waiting"
  /\ ClientState["got"] = "holding"
  /\ ClientState["done"] = "ended" /\ ClientState["failed"] = "ended"
BY DEF ClientState, ReqStates

(* What the allocator sees of a request that moves, and of one that stays. *)
LEMMA ClientMoves ==
  ASSUME Inv, NEW r \in Requests, NEW p, NEW i, SetReq(r, p, i)
  PROVE  /\ Client' = [Client EXCEPT ![r] = ClientState[p]]
         /\ Client[r] = ClientState[req[r].pc]
<1>1. req' = [req EXCEPT ![r] = [pc |-> p, inst |-> i]]
      /\ req \in [Requests -> [pc : ReqStates, inst : Instances \cup {None}]]
  BY DEF SetReq, Inv, TypeOK
<1>2. \A s \in Requests : req'[s] = IF s = r THEN [pc |-> p, inst |-> i] ELSE req[s]
  BY <1>1
<1>3. \A s \in Requests : ClientState[req'[s].pc] = IF s = r THEN ClientState[p] ELSE Client[s]
  BY <1>2 DEF Client
<1>4. Client' = [s \in Requests |-> ClientState[req'[s].pc]] /\ DOMAIN Client = Requests
  BY DEF Client
<1>5. [Client EXCEPT ![r] = ClientState[p]]
      = [s \in Requests |-> IF s = r THEN ClientState[p] ELSE Client[s]]
  BY <1>4
<1> QED BY <1>3, <1>4, <1>5 DEF Client

LEMMA ReturnStays ==
  ASSUME "return" \notin Callers, Inv, NoneReturns, [Next]_vars
  PROVE  NoneReturns'
<1> USE PoolAssumption DEF Inv, NoneReturns, TypeOK
<1>1. ASSUME NEW r \in Requests, RequestStep(r) PROVE NoneReturns'
  <2>1. ~(\/ ReturnStart(r) \/ ReturnHealthy(r) \/ ReturnUnhealthy(r)
          \/ ReturnRestoreFails(r) \/ ReturnRestored(r))
    BY DEF ReturnStart, ReturnHealthy, ReturnUnhealthy, ReturnRestoreFails, ReturnRestored
  <2>2. \E p \in {"got", "provisioning", "queued", "failed", "done"} : \E i : SetReq(r, p, i)
    BY <1>1, <2>1 DEF RequestStep, CheckoutAvailable, CheckoutProvision, CheckoutQueue,
       CheckoutProvisioned, CheckoutProvisionFails, QueueTimeout, QueueRejected, RouteDestroy
  <2> QED BY <2>2 DEF SetReq
<1>2. CASE UNCHANGED req
  BY <1>2
<1>3. (\E r \in Requests : RequestStep(r)) \/ UNCHANGED req
  BY DEF Next, vars, InstanceStep, DestroyStep, TimerStep, VmBreaks, RouteDestroyAny, CleanupExpired,
     DestroyDone, DestroyFails, Forget, ReplenishStart, ReplenishProvision, WarmPool,
     TimerProvisioned, TimerProvisionFails, Signal, Stop, StopEnd, Exit, ForcedExit
<1> QED BY <1>1, <1>2, <1>3

LEMMA RequestAllocates ==
  ASSUME "return" \notin Callers, Inv, NoneReturns, NEW r \in Requests, RequestStep(r)
  PROVE  Allocator!Next
<1>1. /\ req \in [Requests -> [pc : ReqStates, inst : Instances \cup {None}]]
      /\ vm \in [Instances -> VmStates] /\ pool \subseteq Instances
      /\ NewIsUntouched /\ RequestsProvision
      /\ holder \in [Instances -> Requests \cup {None}]
  BY DEF Inv, TypeOK
<1>2. CASE CheckoutAvailable(r)
  <2>1. PICK i \in Instances :
          /\ i \in pool /\ holder[i] = None /\ holder' = [holder EXCEPT ![i] = r]
          /\ SetReq(r, "got", i)
    BY <1>2 DEF CheckoutAvailable, Available
  <2>2. req[r].pc = "idle" /\ pool' = pool /\ vm' = vm
    BY <1>2 DEF CheckoutAvailable
  <2>3. Client[r] = "idle" /\ Client' = [Client EXCEPT ![r] = "holding"]
    BY <2>1, <2>2, ClientMoves, ClientStates
  <2>4. Retired' = Retired /\ i \notin Retired /\ pool' = pool \cup {i}
    BY <2>1, <2>2 DEF Retired
  <2>5. Allocator!Grant(r, i)
    BY <2>1, <2>3, <2>4 DEF Allocator!Grant, Retired, Client
  <2> QED BY <2>5 DEF Allocator!Next
<1>3. CASE CheckoutProvision(r)
  <2>1. PICK i \in Instances :
          vm[i] = "none" /\ vm' = [vm EXCEPT ![i] = "starting"] /\ SetReq(r, "provisioning", i)
    BY <1>3 DEF CheckoutProvision, StartVm
  <2>2. req[r].pc = "idle" /\ pool' = pool /\ holder' = holder
    BY <1>3 DEF CheckoutProvision
  <2>3. Client[r] = "idle" /\ Client' = [Client EXCEPT ![r] = "waiting"]
    BY <2>1, <2>2, ClientMoves, ClientStates
  <2>4. Retired' = Retired
    BY <1>1, <2>1, <2>2 DEF Retired
  <2>5. Allocator!Ask(r)
    BY <2>2, <2>3, <2>4 DEF Allocator!Ask, Retired, Client
  <2> QED BY <2>5 DEF Allocator!Next
<1>4. CASE CheckoutProvisioned(r)
  <2>1. PICK i \in Instances :
          /\ req[r].pc = "provisioning" /\ vm[i] = "starting"
          /\ vm' = [vm EXCEPT ![i] = "running"] /\ pool' = pool \cup {i}
          /\ holder' = [holder EXCEPT ![i] = r] /\ SetReq(r, "got", i)
    BY <1>1, <1>4 DEF CheckoutProvisioned, VmStarted, RequestsProvision
  <2>2. holder[i] = None /\ i \notin pool
    BY <1>1, <2>1 DEF NewIsUntouched
  <2>3. Client[r] = "waiting" /\ Client' = [Client EXCEPT ![r] = "holding"]
    BY <2>1, ClientMoves, ClientStates
  <2>4. Retired' = Retired /\ i \notin Retired
    BY <1>1, <2>1, <2>2 DEF Retired
  <2>5. Allocator!Grant(r, i)
    BY <2>1, <2>2, <2>3, <2>4 DEF Allocator!Grant, Retired, Client
  <2> QED BY <2>5 DEF Allocator!Next
<1>5. CASE CheckoutProvisionFails(r)
  <2> DEFINE i == req[r].inst
  <2>1. /\ req[r].pc = "provisioning" /\ i \in Instances /\ vm[i] = "starting"
        /\ vm' = [vm EXCEPT ![i] = "gone"] \/ vm' = [vm EXCEPT ![i] = "running"]
        /\ pool' = pool /\ holder' = holder /\ SetReq(r, "failed", None)
    BY <1>1, <1>5 DEF CheckoutProvisionFails, VmFailed, RequestsProvision
  <2>2. i \notin pool
    BY <1>1, <2>1 DEF NewIsUntouched
  <2>3. Client[r] = "waiting" /\ Client' = [Client EXCEPT ![r] = "ended"]
    BY <2>1, ClientMoves, ClientStates
  <2>4. Retired' = Retired \cup {i} /\ i \in Instances \ (pool \cup Retired)
    BY <1>1, <2>1, <2>2 DEF Retired
  <2>5. Allocator!Refuse(r)
    BY <2>1, <2>3, <2>4 DEF Allocator!Refuse, Allocator!Fresh, Retired, Client
  <2> QED BY <2>5 DEF Allocator!Next
<1>6. CASE CheckoutQueue(r)
  <2>1. req[r].pc = "idle" /\ UNCHANGED <<pool, holder, vm>> /\ SetReq(r, "queued", None)
    BY <1>6 DEF CheckoutQueue
  <2>2. Client[r] = "idle" /\ Client' = [Client EXCEPT ![r] = "waiting"] /\ Retired' = Retired
    BY <2>1, ClientMoves, ClientStates DEF Retired
  <2>3. Allocator!Ask(r)
    BY <2>1, <2>2 DEF Allocator!Ask, Retired, Client
  <2> QED BY <2>3 DEF Allocator!Next
<1>7. CASE QueueTimeout(r)
  <2>1. req[r].pc = "queued" /\ UNCHANGED <<pool, holder, vm>> /\ SetReq(r, "failed", None)
    BY <1>7 DEF QueueTimeout
  <2>2. Client[r] = "waiting" /\ Client' = [Client EXCEPT ![r] = "ended"] /\ Retired' = Retired
    BY <2>1, ClientMoves, ClientStates DEF Retired
  <2>3. Allocator!Refuse(r)
    BY <2>1, <2>2 DEF Allocator!Refuse, Retired, Client
  <2> QED BY <2>3 DEF Allocator!Next
<1>10. CASE QueueRejected(r)
  <2>1. req[r].pc = "queued" /\ UNCHANGED <<pool, holder, vm>> /\ SetReq(r, "failed", None)
    BY <1>10 DEF QueueRejected
  <2>2. Client[r] = "waiting" /\ Client' = [Client EXCEPT ![r] = "ended"] /\ Retired' = Retired
    BY <2>1, ClientMoves, ClientStates DEF Retired
  <2>3. Allocator!Refuse(r)
    BY <2>1, <2>2 DEF Allocator!Refuse, Retired, Client
  <2> QED BY <2>3 DEF Allocator!Next
<1>8. CASE RouteDestroy(r)
  <2>1. req[r].pc = "got" /\ UNCHANGED <<pool, holder, vm>> /\ SetReq(r, "done", None)
    BY <1>8 DEF RouteDestroy
  <2>2. Client[r] = "holding" /\ Client' = [Client EXCEPT ![r] = "ended"] /\ Retired' = Retired
    BY <2>1, ClientMoves, ClientStates DEF Retired
  <2>3. Allocator!End(r)
    BY <2>1, <2>2 DEF Allocator!End, Retired, Client
  <2> QED BY <2>3 DEF Allocator!Next
<1>9. \/ CheckoutAvailable(r) \/ CheckoutProvision(r) \/ CheckoutProvisioned(r)
      \/ CheckoutProvisionFails(r) \/ CheckoutQueue(r) \/ QueueTimeout(r) \/ QueueRejected(r)
      \/ RouteDestroy(r)
  BY DEF RequestStep, NoneReturns, ReturnStart, ReturnHealthy, ReturnUnhealthy, ReturnRestoreFails,
     ReturnRestored
<1> QED BY <1>2, <1>3, <1>4, <1>5, <1>6, <1>7, <1>8, <1>9, <1>10

Unseen == UNCHANGED Allocator!allocatorVars

LEMMA UnseenSteps ==
  ASSUME UNCHANGED <<pool, holder, req>>, Retired' = Retired
  PROVE  Unseen
BY DEF Unseen, Allocator!allocatorVars, Retired

(* An entry that leaves the pool is not one that is being provisioned.     *)
LEMMA InstanceAllocates ==
  ASSUME Inv, NEW i \in Instances, InstanceStep(i)
  PROVE  Allocator!Next \/ Unseen
<1>1. /\ vm \in [Instances -> VmStates] /\ pool \subseteq Instances /\ NewIsUntouched
  BY DEF Inv, TypeOK
<1>2. CASE VmBreaks(i)
  <2>1. vm[i] = "running" /\ vm' = [vm EXCEPT ![i] = "broken"] /\ UNCHANGED <<pool, holder, req>>
    BY <1>2 DEF VmBreaks
  <2>2. Retired' = Retired
    BY <1>1, <2>1 DEF Retired
  <2> QED BY <2>1, <2>2, UnseenSteps
<1>3. CASE RouteDestroyAny(i) \/ CleanupExpired(i)
  <2>1. UNCHANGED <<pool, holder, req, vm>>
    BY <1>3 DEF RouteDestroyAny, CleanupExpired
  <2>2. Retired' = Retired
    BY <2>1 DEF Retired
  <2> QED BY <2>1, <2>2, UnseenSteps
<1>4. ASSUME NEW c \in DestroyCallers, DestroyStep(i, c)
      PROVE  Allocator!Next \/ Unseen
  <2>1. /\ c \in destroyers[i] /\ pool' = (IF c = "stop" THEN pool ELSE pool \ {i})
        /\ UNCHANGED <<holder, req>>
        /\ vm' = vm \/ vm' = [vm EXCEPT ![i] = "gone"]
    BY <1>4 DEF DestroyStep, DestroyDone, DestroyFails, Forget
  <2>2. vm[i] \notin {"none", "starting"}
    BY <1>1, <2>1 DEF NewIsUntouched
  <2>3. vm'[i] \notin {"none", "starting"} /\ \A j \in Instances \ {i} : vm'[j] = vm[j]
    BY <1>1, <2>1, <2>2
  <2>4. CASE i \in pool /\ c # "stop"
    <3>1. pool' = pool \ {i} /\ Retired' = Retired \cup {i}
      BY <1>1, <2>1, <2>3, <2>4 DEF Retired
    <3>2. Allocator!Drop({i})
      BY <2>1, <2>4, <3>1 DEF Allocator!Drop, Retired
    <3>3. {i} \in SUBSET Instances
      OBVIOUS
    <3> QED BY <3>2, <3>3 DEF Allocator!Next
  <2>5. CASE i \notin pool \/ c = "stop"
    <3>1. pool' = pool /\ Retired' = Retired
      BY <1>1, <2>1, <2>2, <2>3, <2>5 DEF Retired
    <3> QED BY <2>1, <3>1, UnseenSteps
  <2> QED BY <2>4, <2>5
<1> QED BY <1>2, <1>3, <1>4 DEF InstanceStep

LEMMA TimerAllocates ==
  ASSUME Inv, NEW t \in Timers, TimerStep(t)
  PROVE  Allocator!Next \/ Unseen
<1>1. /\ vm \in [Instances -> VmStates] /\ pool \subseteq Instances
      /\ NewIsUntouched /\ TimersProvision
  BY DEF Inv, TypeOK
<1>2. CASE ReplenishStart(t)
  <2>1. UNCHANGED <<pool, holder, req, vm>>
    BY <1>2 DEF ReplenishStart
  <2> QED BY <2>1, UnseenSteps DEF Retired
<1>3. CASE ReplenishProvision(t) \/ \E c \in Configs : WarmPool(t, c)
  <2>1. UNCHANGED <<pool, holder, req>>
    BY <1>3 DEF ReplenishProvision, WarmPool
  <2>2. \A i \in Instances : vm'[i] = vm[i] \/ (vm[i] = "none" /\ vm'[i] = "starting")
    BY <1>1, <1>3 DEF ReplenishProvision, WarmPool, StartVm
  <2>3. Retired' = Retired
    BY <2>1, <2>2 DEF Retired
  <2> QED BY <2>1, <2>3, UnseenSteps
<1>4. ASSUME NEW i \in Instances, TimerProvisioned(t, i)
      PROVE  Allocator!Next
  <2>1. /\ vm[i] = "starting" /\ i \notin pool /\ vm' = [vm EXCEPT ![i] = "running"]
        /\ pool' = pool \cup {i} /\ UNCHANGED <<holder, req>>
    BY <1>1, <1>4 DEF TimerProvisioned, VmStarted, TimersProvision, NewIsUntouched
  <2>2. Retired' = Retired /\ i \in Instances \ (pool \cup Retired)
    BY <1>1, <2>1 DEF Retired
  <2>3. Allocator!Stock(i)
    BY <2>1, <2>2 DEF Allocator!Stock, Allocator!Fresh, Retired
  <2> QED BY <2>3 DEF Allocator!Next
<1>5. ASSUME NEW i \in Instances, TimerProvisionFails(t, i)
      PROVE  Allocator!Next
  <2>1. /\ vm[i] = "starting" /\ i \notin pool
        /\ vm' = [vm EXCEPT ![i] = "gone"] \/ vm' = [vm EXCEPT ![i] = "running"]
        /\ UNCHANGED <<pool, holder, req>>
    BY <1>1, <1>5 DEF TimerProvisionFails, VmFailed, TimersProvision, NewIsUntouched
  <2>2. Retired' = Retired \cup {i} /\ i \in Instances \ (pool \cup Retired)
    BY <1>1, <2>1 DEF Retired
  <2>3. Allocator!Spoil(i)
    BY <2>1, <2>2 DEF Allocator!Spoil, Allocator!Fresh, Retired
  <2> QED BY <2>3 DEF Allocator!Next
<1> QED BY <1>2, <1>3, <1>4, <1>5 DEF TimerStep

(* When stop() has cleared the Map, all that was in it is spent at once.   *)
LEMMA ProcessAllocates ==
  ASSUME Inv, Signal \/ Stop \/ StopEnd \/ Exit \/ ForcedExit \/ UNCHANGED vars
  PROVE  Allocator!Next \/ Unseen
<1>1. CASE StopEnd /\ pool # {}
  <2>1. pool' = {} /\ UNCHANGED <<holder, vm, req>> /\ pool \subseteq Instances
    BY <1>1 DEF StopEnd, Inv, TypeOK
  <2>2. \A i \in pool : vm[i] \notin {"none", "starting"}
    BY <2>1 DEF Inv, NewIsUntouched
  <2>3. Retired' = Retired \cup pool
    BY <2>1, <2>2 DEF Retired
  <2>4. PICK S \in SUBSET Instances : S = pool
    BY <2>1
  <2>5. Allocator!Drop(S)
    BY <1>1, <2>1, <2>3, <2>4 DEF Allocator!Drop, Retired
  <2> QED BY <2>5 DEF Allocator!Next
<1>2. CASE UNCHANGED <<pool, holder, req, vm>>
  BY <1>2, UnseenSteps DEF Retired
<1>3. UNCHANGED <<pool, holder, req, vm>> \/ (StopEnd /\ pool # {})
  BY DEF Signal, Stop, StopEnd, Exit, ForcedExit, vars
<1> QED BY <1>1, <1>2, <1>3

(* Unless returnToPool is called, which index.ts never does, the pool      *)
(* implements the allocator: every instance goes to one request in its     *)
(* life, an id that was dropped or whose provisioning failed never comes   *)
(* back, and every request is answered at most once.                       *)
THEOREM ImplementsAllocator == ASSUME "return" \notin Callers PROVE Spec => AllocatesOnce
<1>1. Init => Allocator!Init
  <2> SUFFICES ASSUME Init PROVE Allocator!Init
    OBVIOUS
  <2>1. /\ pool = {} /\ holder = [i \in Instances |-> None]
        /\ vm = [i \in Instances |-> "none"]
        /\ req = [r \in Requests |-> [pc |-> "idle", inst |-> None]]
    BY DEF Init
  <2>2. Retired = {}
    BY <2>1 DEF Retired
  <2>3. Client = [r \in Requests |-> "idle"]
    BY <2>1, ClientStates DEF Client
  <2> QED BY <2>1, <2>2, <2>3 DEF Allocator!Init, Retired, Client
<1>2. Init => NoneReturns
  BY DEF Init, NoneReturns
<1>3. Inv /\ NoneReturns /\ [Next]_vars => NoneReturns'
  BY ReturnStays
<1>4. Inv /\ NoneReturns /\ [Next]_vars => [Allocator!Next]_(Allocator!allocatorVars)
  BY RequestAllocates, InstanceAllocates, TimerAllocates, ProcessAllocates DEF Next, Unseen
<1> QED
  BY <1>1, <1>2, <1>3, <1>4, SpecInv, PTL DEF Spec, AllocatesOnce, Allocator!Spec

----------------------------------------------------------------------------
(* The throwaway containers of the other sandbox, the dynamic analysis.     *)
(* Detonation is a component of its own, with constants and variables of    *)
(* its own; its definitions are referred to as D!...                        *)
CONSTANTS Detonations, MaxFailures, MaxFlips
VARIABLES service, image, imageReady, redis, connection, pc, report, box, dir, stored, client,
          failures, flips

D == INSTANCE Detonation WITH Requests <- Detonations, MaxFaults <- MaxFailures,
                              mode <- service, faults <- failures

(* The finite sets of the instance are those of this module.                *)
LEMMA SameSets ==
  ASSUME NEW S
  PROVE  (D!IsFiniteSet(S) <=> IsFiniteSet(S)) /\ D!Cardinality(S) = Cardinality(S)
<1>1. D!IsFiniteSet(S) <=> IsFiniteSet(S)
  BY DEF IsFiniteSet, D!IsFiniteSet
<1>2. D!Cardinality(S) = Cardinality(S)
  BY DEF Cardinality, D!Cardinality
<1> QED
  BY <1>1, <1>2

LEMMA DetonationInit == ASSUME D!BoundsAssumption, D!Init PROVE D!TypeOK
  BY DEF D!BoundsAssumption, D!Init, D!TypeOK, D!Modes, D!Promises, D!Places, D!Busy, D!Ended,
     D!BoxStates, D!Clients

(* Where a request's call goes and who hears of it keeps their types.       *)
LEMMA GotoType ==
  ASSUME D!TypeOK, NEW r \in Detonations, NEW p \in D!Places, D!Goto(r, p)
  PROVE  /\ pc' \in [Detonations -> D!Places] /\ pc'[r] = p
         /\ \A q \in Detonations : q # r => pc'[q] = pc[q]
  BY DEF D!TypeOK, D!Goto

LEMMA HearType ==
  ASSUME D!TypeOK, NEW r \in Detonations, NEW a \in D!Clients, D!Hear(r, a)
  PROVE  client' \in [Detonations -> D!Clients]
  BY DEF D!TypeOK, D!Hear

LEMMA FaultType ==
  ASSUME D!BoundsAssumption, D!TypeOK, D!Fault
  PROVE  failures' \in 0 .. MaxFailures /\ failures' = failures + 1
  BY DEF D!BoundsAssumption, D!TypeOK, D!Fault

(* The promises, which only go from "unset" by "pending" to an end.         *)
LEMMA DemandType ==
  ASSUME NEW p \in D!Promises
  PROVE  D!Demand(p) \in D!Promises /\ (p = "fulfilled" => D!Demand(p) = "fulfilled")
  BY DEF D!Demand, D!Promises

LEMMA HandlerType ==
  ASSUME D!BoundsAssumption, D!TypeOK, NEW r \in Detonations, D!Handler(r)
  PROVE  D!TypeOK'
<1> USE DEF D!world, D!promises, D!traces, D!bounds, D!At, D!Places, D!Busy, D!Ended
<1>1. CASE D!Fetch(r)
  BY <1>1, GotoType DEF D!Fetch, D!TypeOK
<1>2. CASE D!FetchFails(r)
  BY <1>2, GotoType, HearType DEF D!FetchFails, D!TypeOK, D!Clients
<1>3. CASE D!MakeDir(r)
  BY <1>3, GotoType, DemandType DEF D!MakeDir, D!TypeOK
<1>4. CASE D!MakeDirFails(r)
  BY <1>4, GotoType, HearType, FaultType DEF D!MakeDirFails, D!TypeOK, D!Clients
<1>5. CASE D!HaveImage(r)
  BY <1>5, GotoType DEF D!HaveImage, D!TypeOK
<1>6. CASE D!NoImage(r)
  BY <1>6, GotoType, HearType DEF D!NoImage, D!TypeOK, D!Clients
<1>7. CASE D!StartContainer(r)
  BY <1>7, GotoType DEF D!StartContainer, D!TypeOK, D!BoxStates
<1>8. CASE D!StartFails(r)
  BY <1>8, GotoType, FaultType DEF D!StartFails, D!TypeOK, D!BoxStates
<1>9. CASE D!Execute(r)
  <2>1. report' \in [Detonations -> BOOLEAN]
    BY <1>9 DEF D!Execute, D!TypeOK
  <2> QED
    BY <1>9, <2>1, GotoType DEF D!Execute, D!TypeOK
<1>10. CASE D!KillBox(r)
  BY <1>10, GotoType, FaultType DEF D!KillBox, D!TypeOK, D!BoxStates
<1>11. CASE D!RemoveBox(r)
  BY <1>11, GotoType, FaultType DEF D!RemoveBox, D!TypeOK, D!BoxStates
<1>12. CASE D!RemoveDir(r)
  <2>1. dir' \in [Detonations -> BOOLEAN] /\ failures' \in 0 .. MaxFailures
    BY <1>12, FaultType DEF D!RemoveDir, D!TypeOK
  <2>2. /\ (D!Goto(r, "store") /\ client' = client) \/ (D!Goto(r, "done") /\ D!Hear(r, "error"))
        /\ UNCHANGED <<service, D!world, D!promises, report, box, stored, flips>>
    BY <1>12 DEF D!RemoveDir
  <2>3. client' \in [Detonations -> D!Clients]
    BY <2>2, HearType DEF D!TypeOK, D!Clients
  <2> QED
    BY <2>1, <2>2, <2>3, GotoType DEF D!TypeOK
<1>13. CASE D!StoreRow(r)
  BY <1>13, GotoType, FaultType DEF D!StoreRow, D!TypeOK
<1>14. CASE D!StorePcap(r)
  <2>1. stored' \in [Detonations -> SUBSET {"row", "pcap"}]
    BY <1>14 DEF D!StorePcap, D!TypeOK
  <2> QED
    BY <1>14, <2>1, GotoType DEF D!StorePcap, D!TypeOK
<1>15. CASE D!Answer(r)
  BY <1>15, GotoType, HearType DEF D!Answer, D!TypeOK, D!Clients
<1> QED
  BY <1>1, <1>2, <1>3, <1>4, <1>5, <1>6, <1>7, <1>8, <1>9, <1>10, <1>11, <1>12, <1>13, <1>14, <1>15
  DEF D!Handler

LEMMA DieType ==
  ASSUME D!TypeOK, D!Die, failures' \in 0 .. MaxFailures
  PROVE  D!TypeOK'
<1>1. \A r \in Detonations : pc'[r] \notin {"run", "execute"}
  BY DEF D!Die, D!TypeOK, D!Busy
<1>2. pc' \in [Detonations -> D!Places] /\ client' \in [Detonations -> D!Clients]
  BY DEF D!Die, D!TypeOK, D!Places, D!Ended, D!Clients
<1> QED
  BY <1>1, <1>2 DEF D!Die, D!TypeOK, D!Modes, D!Promises, D!world, D!traces

LEMMA NextType == ASSUME D!BoundsAssumption, D!TypeOK, [D!Next]_(D!vars) PROVE D!TypeOK'
<1> USE DEF D!world, D!promises, D!traces, D!bounds
<1>1. ASSUME NEW r \in Detonations, D!Analyze(r) PROVE D!TypeOK'
  <2>1. client' \in [Detonations -> D!Clients]
    BY <1>1 DEF D!Analyze, D!TypeOK, D!Clients
  <2>2. D!Goto(r, "fetch") /\ "fetch" \in D!Places
    BY <1>1 DEF D!Analyze, D!Places, D!Busy
  <2> QED
    BY <1>1, <2>1, <2>2, GotoType, DemandType DEF D!Analyze, D!TypeOK
<1>2. ASSUME NEW r \in Detonations, D!ClientTimeout(r) PROVE D!TypeOK'
  BY <1>2 DEF D!ClientTimeout, D!TypeOK, D!Clients
<1>3. ASSUME NEW r \in Detonations, D!ExpirePcap(r) PROVE D!TypeOK'
  <2>1. stored' \in [Detonations -> SUBSET {"row", "pcap"}]
    BY <1>3 DEF D!ExpirePcap, D!TypeOK
  <2> QED
    BY <1>3, <2>1 DEF D!ExpirePcap, D!TypeOK
<1>4. CASE D!Connect
  BY <1>4 DEF D!Connect, D!TypeOK, D!Promises
<1>5. CASE D!CheckImage
  <2>1. failures' \in 0 .. MaxFailures /\ imageReady' \in {"fulfilled", "rejected"}
    BY <1>5, FaultType DEF D!CheckImage, D!TypeOK
  <2>2. imageReady # "fulfilled"
    BY <1>5 DEF D!CheckImage
  <2> QED
    BY <1>5, <2>1, <2>2 DEF D!CheckImage, D!TypeOK, D!Promises
<1>6. CASE D!Flip
  <2>1. flips' \in 0 .. MaxFlips
    BY <1>6 DEF D!Flip, D!TypeOK, D!BoundsAssumption
  <2>2. image' \in BOOLEAN /\ redis' \in BOOLEAN
    BY <1>6 DEF D!Flip, D!TypeOK
  <2> QED
    BY <1>6, <2>1, <2>2 DEF D!Flip, D!TypeOK
<1>7. CASE D!Signal \/ D!Restart \/ UNCHANGED D!vars
  BY <1>7 DEF D!Signal, D!Restart, D!vars, D!TypeOK, D!Modes
<1>8. CASE D!Close \/ D!ForcedExit \/ D!Killed
  <2>1. D!Die /\ failures' \in 0 .. MaxFailures
    BY <1>8, FaultType DEF D!Close, D!ForcedExit, D!Killed, D!TypeOK
  <2> QED
    BY <2>1, DieType
<1> QED
  BY <1>1, <1>2, <1>3, <1>4, <1>5, <1>6, <1>7, <1>8, HandlerType DEF D!Next

(* Where a request is while it has something to clean up: a container is    *)
(* started after the directory is made, and a report comes of it.           *)
TracesPlaced ==
  \A r \in Detonations :
    /\ box[r] # "none" => pc[r] \in {"execute", "kill", "remove", "rmdir", "store", "pcap",
                                     "answer", "done", "lost"}
    /\ dir[r] => pc[r] \notin {"idle", "fetch", "mkdir"}
    /\ report[r] => pc[r] \in {"kill", "remove", "rmdir", "store", "pcap", "answer", "done", "lost"}

(* What has not been done for a request and will not be: its container is  *)
(* past its removal, its directory, its row.                                *)
Boxed == {r \in Detonations : pc[r] \in {"rmdir", "store", "pcap", "answer", "done"} /\ box[r] # "none"}
Strewn == {r \in Detonations : pc[r] \in {"store", "pcap", "answer", "done"} /\ dir[r]}
Unrecorded ==
  {r \in Detonations : pc[r] \in {"pcap", "answer", "done"} /\ report[r] /\ "row" \notin stored[r]}

Keeps == Boxed' \subseteq Boxed /\ Strewn' \subseteq Strewn /\ Unrecorded' \subseteq Unrecorded
Leaves(r) ==
  \/ Boxed' \subseteq Boxed \cup {r} /\ Strewn' \subseteq Strewn /\ Unrecorded' \subseteq Unrecorded
  \/ Boxed' \subseteq Boxed /\ Strewn' \subseteq Strewn \cup {r} /\ Unrecorded' \subseteq Unrecorded
  \/ Boxed' \subseteq Boxed /\ Strewn' \subseteq Strewn /\ Unrecorded' \subseteq Unrecorded \cup {r}

(* A step leaves something undone only as it fails.                         *)
Accounted ==
  \/ Keeps /\ failures' \in {failures, failures + 1}
  \/ failures' = failures + 1 /\ \E r \in Detonations : Leaves(r)

(* What a step does to the request it is of.                                *)
Others(r) ==
  \A q \in Detonations \ {r} : /\ pc'[q] = pc[q] /\ box'[q] = box[q] /\ dir'[q] = dir[q]
                            /\ report'[q] = report[q] /\ stored'[q] = stored[q]

LEMMA HandlerOthers ==
  ASSUME D!TypeOK, NEW r \in Detonations, D!Handler(r)
  PROVE  Others(r)
<1> USE DEF D!traces, Others, D!TypeOK, D!Goto
<1>1. CASE D!Fetch(r) \/ D!FetchFails(r) \/ D!HaveImage(r) \/ D!NoImage(r) \/ D!Answer(r)
  BY <1>1 DEF D!Fetch, D!FetchFails, D!HaveImage, D!NoImage, D!Answer
<1>2. CASE D!MakeDir(r) \/ D!MakeDirFails(r)
  BY <1>2 DEF D!MakeDir, D!MakeDirFails
<1>3. CASE D!StartContainer(r)
  BY <1>3 DEF D!StartContainer
<1>4. CASE D!StartFails(r)
  BY <1>4 DEF D!StartFails
<1>5. CASE D!Execute(r)
  BY <1>5 DEF D!Execute
<1>6. CASE D!KillBox(r) \/ D!RemoveBox(r)
  BY <1>6 DEF D!KillBox, D!RemoveBox
<1>7. CASE D!RemoveDir(r)
  BY <1>7 DEF D!RemoveDir
<1>8. CASE D!StoreRow(r) \/ D!StorePcap(r)
  BY <1>8 DEF D!StoreRow, D!StorePcap
<1> QED
  BY <1>1, <1>2, <1>3, <1>4, <1>5, <1>6, <1>7, <1>8 DEF D!Handler

(* A step of one request is settled by what it does to that one.            *)
LEMMA OneRequest ==
  ASSUME NEW r \in Detonations, Others(r)
  PROVE  /\ (r \in Boxed' => r \in Boxed) => Boxed' \subseteq Boxed
         /\ (r \in Strewn' => r \in Strewn) => Strewn' \subseteq Strewn
         /\ (r \in Unrecorded' => r \in Unrecorded) => Unrecorded' \subseteq Unrecorded
         /\ /\ Boxed' \subseteq Boxed \cup {r}
            /\ Strewn' \subseteq Strewn \cup {r}
            /\ Unrecorded' \subseteq Unrecorded \cup {r}
  BY DEF Others, Boxed, Strewn, Unrecorded

LEMMA HandlerAccounted ==
  ASSUME D!TypeOK, TracesPlaced, NEW r \in Detonations, D!Handler(r)
  PROVE  Accounted /\ TracesPlaced'
<1> USE DEF D!traces, D!bounds, D!At
<1>0. /\ pc \in [Detonations -> D!Places] /\ box \in [Detonations -> D!BoxStates]
      /\ dir \in [Detonations -> BOOLEAN]
      /\ report \in [Detonations -> BOOLEAN] /\ stored \in [Detonations -> SUBSET {"row", "pcap"}]
  BY DEF D!TypeOK
<1>1. Others(r)
  BY HandlerOthers
<1> DEFINE Here(p, b, d, o, s) ==
             pc'[r] = p /\ box'[r] = b /\ dir'[r] = d /\ report'[r] = o /\ stored'[r] = s
           Placed(p, b, d, o) ==
             /\ b # "none" => p \in {"execute", "kill", "remove", "rmdir", "store", "pcap",
                                     "answer", "done", "lost"}
             /\ d => p \notin {"idle", "fetch", "mkdir"}
             /\ o => p \in {"kill", "remove", "rmdir", "store", "pcap", "answer", "done", "lost"}
<1>2. Placed(pc[r], box[r], dir[r], report[r])
  BY DEF TracesPlaced
<1>3. ASSUME Placed(pc'[r], box'[r], dir'[r], report'[r]) PROVE TracesPlaced'
  BY <1>1, <1>3 DEF TracesPlaced, Others
<1>4. CASE D!Fetch(r) \/ D!HaveImage(r) \/ D!NoImage(r) \/ D!Answer(r) \/ D!FetchFails(r)
  <2>1. /\ Here(pc'[r], box[r], dir[r], report[r], stored[r]) /\ failures' = failures
        /\ <<pc[r], pc'[r]>> \in {<<"fetch", "mkdir">>, <<"image", "run">>, <<"image", "noImage">>,
                                  <<"answer", "done">>, <<"fetch", "done">>}
    BY <1>0, <1>4 DEF D!Fetch, D!HaveImage, D!NoImage, D!Answer, D!FetchFails, D!Goto
  <2>2. Keeps
    BY <1>1, <1>2, <2>1, OneRequest DEF Keeps, Boxed, Strewn, Unrecorded
  <2>3. Placed(pc'[r], box'[r], dir'[r], report'[r])
    BY <1>2, <2>1
  <2> QED
    BY <1>3, <2>1, <2>2, <2>3 DEF Accounted
<1>5. CASE D!MakeDir(r)
  <2>1. Here("image", box[r], TRUE, report[r], stored[r]) /\ failures' = failures /\ pc[r] = "mkdir"
    BY <1>0, <1>5 DEF D!MakeDir, D!Goto
  <2>2. Keeps
    BY <1>1, <1>2, <2>1, OneRequest DEF Keeps, Boxed, Strewn, Unrecorded
  <2>3. Placed(pc'[r], box'[r], dir'[r], report'[r])
    BY <1>2, <2>1
  <2> QED
    BY <1>3, <2>1, <2>2, <2>3 DEF Accounted
<1>6. CASE D!MakeDirFails(r)
  <2>1. Here("done", box[r], TRUE, report[r], stored[r]) /\ failures' = failures + 1 /\ pc[r] = "mkdir"
    BY <1>0, <1>6 DEF D!MakeDirFails, D!Goto, D!Fault
  <2>2. Leaves(r)
    BY <1>1, <1>2, <2>1, OneRequest DEF Leaves, Boxed, Unrecorded
  <2>3. Placed(pc'[r], box'[r], dir'[r], report'[r])
    BY <1>2, <2>1
  <2> QED
    BY <1>3, <2>1, <2>2, <2>3 DEF Accounted
<1>7. CASE D!StartContainer(r) \/ D!Execute(r)
  <2>1. /\ dir'[r] = dir[r] /\ stored'[r] = stored[r] /\ failures' = failures
        /\ pc[r] \in {"run", "execute"}
        /\ \/ pc'[r] = "execute" /\ report'[r] = report[r]
           \/ pc'[r] = "kill" /\ box'[r] = box[r]
    BY <1>0, <1>7 DEF D!StartContainer, D!Execute, D!Goto
  <2>2. Keeps
    BY <1>1, <1>2, <2>1, OneRequest DEF Keeps, Boxed, Strewn, Unrecorded
  <2>3. Placed(pc'[r], box'[r], dir'[r], report'[r])
    BY <1>2, <2>1
  <2> QED
    BY <1>3, <2>1, <2>2, <2>3 DEF Accounted
<1>8. CASE D!StartFails(r)
  <2>1. /\ Here("rmdir", box'[r], dir[r], report[r], stored[r]) /\ pc[r] = "run"
        /\ \/ box'[r] = box[r] /\ failures' = failures
           \/ failures' = failures + 1
    BY <1>0, <1>8 DEF D!StartFails, D!Goto, D!Fault
  <2>2. Leaves(r) /\ (box'[r] = box[r] => Keeps)
    BY <1>1, <1>2, <2>1, OneRequest DEF Leaves, Keeps, Boxed, Strewn, Unrecorded
  <2>3. Placed(pc'[r], box'[r], dir'[r], report'[r])
    BY <1>2, <2>1
  <2> QED
    BY <1>3, <2>1, <2>2, <2>3 DEF Accounted
<1>9. CASE D!KillBox(r)
  <2>1. /\ Here("remove", box'[r], dir[r], report[r], stored[r]) /\ pc[r] = "kill"
        /\ failures' \in {failures, failures + 1}
    BY <1>0, <1>9 DEF D!KillBox, D!Goto, D!Fault
  <2>2. Keeps
    BY <1>1, <1>2, <2>1, OneRequest DEF Keeps, Boxed, Strewn, Unrecorded
  <2>3. Placed(pc'[r], box'[r], dir'[r], report'[r])
    BY <1>2, <2>1
  <2> QED
    BY <1>3, <2>1, <2>2, <2>3 DEF Accounted
<1>10. CASE D!RemoveBox(r)
  <2>1. /\ Here("rmdir", box'[r], dir[r], report[r], stored[r]) /\ pc[r] = "remove"
        /\ (box'[r] = "none" /\ failures' = failures) \/ failures' = failures + 1
    BY <1>0, <1>10 DEF D!RemoveBox, D!Goto, D!Fault
  <2>2. Leaves(r) /\ (box'[r] = "none" => Keeps)
    BY <1>1, <1>2, <2>1, OneRequest DEF Leaves, Keeps, Boxed, Strewn, Unrecorded
  <2>3. Placed(pc'[r], box'[r], dir'[r], report'[r])
    BY <1>2, <2>1
  <2> QED
    BY <1>3, <2>1, <2>2, <2>3 DEF Accounted
<1>11. CASE D!RemoveDir(r)
  <2>1. /\ Here(IF report[r] THEN "store" ELSE "done", box[r], dir'[r], report[r], stored[r])
        /\ pc[r] = "rmdir"
        /\ (dir'[r] = FALSE /\ failures' = failures) \/ failures' = failures + 1
    BY <1>0, <1>11 DEF D!RemoveDir, D!Goto, D!Fault
  <2>2. Leaves(r) /\ (dir'[r] = FALSE => Keeps)
    BY <1>1, <1>2, <2>1, OneRequest DEF Leaves, Keeps, Boxed, Strewn, Unrecorded
  <2>3. Placed(pc'[r], box'[r], dir'[r], report'[r])
    BY <1>2, <2>1
  <2> QED
    BY <1>3, <2>1, <2>2, <2>3 DEF Accounted
<1>12. CASE D!StoreRow(r)
  <2>1. /\ Here("pcap", box[r], dir[r], report[r], stored'[r]) /\ pc[r] = "store"
        /\ (stored'[r] = {"row"} /\ failures' = failures) \/ failures' = failures + 1
    BY <1>0, <1>12 DEF D!StoreRow, D!Goto, D!Fault
  <2>2. Leaves(r) /\ (stored'[r] = {"row"} => Keeps)
    BY <1>1, <1>2, <2>1, OneRequest DEF Leaves, Keeps, Boxed, Strewn, Unrecorded
  <2>3. Placed(pc'[r], box'[r], dir'[r], report'[r])
    BY <1>2, <2>1
  <2> QED
    BY <1>3, <2>1, <2>2, <2>3 DEF Accounted
<1>13. CASE D!StorePcap(r)
  <2>1. /\ Here("answer", box[r], dir[r], report[r], stored'[r]) /\ pc[r] = "pcap"
        /\ failures' = failures /\ stored[r] \subseteq stored'[r]
    BY <1>0, <1>13 DEF D!StorePcap, D!Goto
  <2>2. Keeps
    BY <1>1, <1>2, <2>1, OneRequest DEF Keeps, Boxed, Strewn, Unrecorded
  <2>3. Placed(pc'[r], box'[r], dir'[r], report'[r])
    BY <1>2, <2>1
  <2> QED
    BY <1>3, <2>1, <2>2, <2>3 DEF Accounted
<1> QED
  BY <1>4, <1>5, <1>6, <1>7, <1>8, <1>9, <1>10, <1>11, <1>12, <1>13 DEF D!Handler

LEMMA NextAccounted ==
  ASSUME D!TypeOK, TracesPlaced, [D!Next]_(D!vars)
  PROVE  Accounted /\ TracesPlaced'
<1> USE DEF D!traces, D!bounds, Accounted
<1>1. ASSUME NEW r \in Detonations, D!Analyze(r) PROVE Accounted /\ TracesPlaced'
  <2>1. /\ pc[r] = "idle" /\ pc'[r] = "fetch" /\ \A q \in Detonations : q # r => pc'[q] = pc[q]
        /\ UNCHANGED <<report, box, dir, stored, failures>>
    BY <1>1 DEF D!Analyze, D!Goto, D!TypeOK
  <2>2. Keeps
    BY <2>1 DEF Keeps, Boxed, Strewn, Unrecorded
  <2>3. TracesPlaced'
    BY <2>1 DEF TracesPlaced
  <2> QED
    BY <2>1, <2>2, <2>3
<1>2. ASSUME NEW r \in Detonations, D!ExpirePcap(r) PROVE Accounted /\ TracesPlaced'
  <2>1. /\ UNCHANGED <<pc, report, box, dir, failures>>
        /\ \A q \in Detonations : "row" \in stored'[q] <=> "row" \in stored[q]
    BY <1>2 DEF D!ExpirePcap, D!TypeOK
  <2>2. Keeps /\ TracesPlaced'
    BY <2>1 DEF Keeps, Boxed, Strewn, Unrecorded, TracesPlaced
  <2> QED
    BY <2>1, <2>2
<1>3. CASE \/ \E r \in Detonations : D!ClientTimeout(r)
           \/ D!Connect \/ D!CheckImage \/ D!Flip \/ D!Signal \/ D!Restart \/ UNCHANGED D!vars
  <2>1. UNCHANGED <<pc, report, box, dir, stored>> /\ failures' \in {failures, failures + 1}
    BY <1>3 DEF D!ClientTimeout, D!Connect, D!CheckImage, D!Flip, D!Signal, D!Restart, D!vars,
       D!Fault
  <2>2. Keeps /\ TracesPlaced'
    BY <2>1 DEF Keeps, Boxed, Strewn, Unrecorded, TracesPlaced
  <2> QED
    BY <2>1, <2>2
<1>4. CASE D!Close \/ D!ForcedExit \/ D!Killed
  <2>1. D!Die /\ failures' \in {failures, failures + 1}
    BY <1>4 DEF D!Close, D!ForcedExit, D!Killed, D!Fault
  <2>2. /\ UNCHANGED <<report, box, dir, stored>>
        /\ \A r \in Detonations : pc'[r] = "lost" \/ (pc'[r] = pc[r] /\ pc[r] \notin D!Busy)
    BY <2>1 DEF D!Die
  <2>3. Keeps
    BY <2>2 DEF Keeps, Boxed, Strewn, Unrecorded
  <2>4. TracesPlaced'
    BY <2>2 DEF TracesPlaced
  <2> QED
    BY <2>1, <2>3, <2>4
<1> QED
  BY <1>1, <1>2, <1>3, <1>4, HandlerAccounted DEF D!Next

Undone == Cardinality(Boxed) + Cardinality(Strewn) + Cardinality(Unrecorded)
UndonePerFault == Undone <= failures

(* One set more than another by at most one element.                        *)
LEMMA OneMore ==
  ASSUME D!BoundsAssumption, NEW S \in SUBSET Detonations, NEW T \in SUBSET Detonations, NEW r
  PROVE  /\ Cardinality(S) \in Nat /\ Cardinality(T) \in Nat
         /\ T \subseteq S => Cardinality(T) <= Cardinality(S)
         /\ T \subseteq S \cup {r} => Cardinality(T) <= Cardinality(S) + 1
<1>0. IsFiniteSet(Detonations)
  BY SameSets DEF D!BoundsAssumption
<1>1. \A U \in SUBSET Detonations : IsFiniteSet(U) /\ Cardinality(U) \in Nat
  BY <1>0, FS_Subset, FS_CardinalityType
<1>2. /\ IsFiniteSet(S \cup {r})
      /\ Cardinality(S \cup {r}) \in {Cardinality(S), Cardinality(S) + 1}
  BY <1>1, FS_AddElement
<1>3. T \subseteq S \cup {r} => Cardinality(T) <= Cardinality(S \cup {r})
  BY <1>2, FS_Subset
<1>4. T \subseteq S => Cardinality(T) <= Cardinality(S)
  BY <1>1, FS_Subset
<1> QED
  BY <1>1, <1>2, <1>3, <1>4

LEMMA UndoneStep ==
  ASSUME D!BoundsAssumption, D!TypeOK, D!TypeOK', UndonePerFault, Accounted
  PROVE  UndonePerFault'
<1>1. /\ Boxed \in SUBSET Detonations /\ Boxed' \in SUBSET Detonations
      /\ Strewn \in SUBSET Detonations /\ Strewn' \in SUBSET Detonations
      /\ Unrecorded \in SUBSET Detonations /\ Unrecorded' \in SUBSET Detonations
  BY DEF Boxed, Strewn, Unrecorded
<1>2. PICK a \in Nat, b \in Nat, c \in Nat, d \in Nat, e \in Nat, f \in Nat :
        /\ a = Cardinality(Boxed) /\ b = Cardinality(Strewn) /\ c = Cardinality(Unrecorded)
        /\ d = Cardinality(Boxed') /\ e = Cardinality(Strewn') /\ f = Cardinality(Unrecorded')
  BY <1>1, OneMore
<1>3. failures \in Nat /\ failures' \in Nat /\ a + b + c <= failures
  BY <1>2 DEF D!TypeOK, UndonePerFault, Undone
<1>4. /\ Boxed' \subseteq Boxed => d <= a
      /\ Strewn' \subseteq Strewn => e <= b
      /\ Unrecorded' \subseteq Unrecorded => f <= c
      /\ \A r \in Detonations :
           /\ Boxed' \subseteq Boxed \cup {r} => d <= a + 1
           /\ Strewn' \subseteq Strewn \cup {r} => e <= b + 1
           /\ Unrecorded' \subseteq Unrecorded \cup {r} => f <= c + 1
  BY <1>1, <1>2, OneMore
<1>5. CASE Keeps /\ failures' \in {failures, failures + 1}
  <2>1. d + e + f <= failures'
    BY <1>3, <1>4, <1>5 DEF Keeps
  <2> QED
    BY <1>2, <2>1 DEF UndonePerFault, Undone
<1>6. CASE failures' = failures + 1 /\ \E r \in Detonations : Leaves(r)
  <2>1. d + e + f <= a + b + c + 1
    BY <1>4, <1>6 DEF Leaves
  <2>2. d + e + f <= failures'
    BY <1>3, <1>6, <2>1
  <2> QED
    BY <1>2, <2>2 DEF UndonePerFault, Undone
<1> QED
  BY <1>5, <1>6 DEF Accounted

DetonationInv == D!TypeOK /\ TracesPlaced /\ UndonePerFault

(* The types of the detonation service, and that docker run follows a check *)
(* that found an image, for any finite set of requests.                     *)
THEOREM DetonationTypes == ASSUME D!BoundsAssumption PROVE D!Spec => []D!TypeOK
<1>1. D!Init => D!TypeOK
  BY DetonationInit
<1>2. D!TypeOK /\ [D!Next]_(D!vars) => D!TypeOK'
  BY NextType
<1> QED
  BY <1>1, <1>2, PTL DEF D!Spec

(* A detonation that is over has removed its container and its directory    *)
(* and stored the row of its report, but for one of these per call of       *)
(* docker, of the file system or of the database that failed, however many  *)
(* requests there are and whatever exceptions end them.                     *)
THEOREM LeftoversAreFaults == ASSUME D!BoundsAssumption PROVE D!Spec => []D!LeftPerFault
<1>1. D!Init => DetonationInv
  <2> SUFFICES ASSUME D!Init PROVE TracesPlaced /\ UndonePerFault
    BY DetonationInit DEF DetonationInv
  <2>1. TracesPlaced
    BY DEF D!Init, TracesPlaced
  <2>2. Boxed = {} /\ Strewn = {} /\ Unrecorded = {} /\ failures = 0
    BY DEF D!Init, Boxed, Strewn, Unrecorded
  <2>3. Cardinality({}) = 0
    BY FS_EmptySet
  <2>4. Undone = 0
    BY <2>2, <2>3 DEF Undone
  <2> QED
    BY <2>1, <2>2, <2>4 DEF UndonePerFault
<1>2. DetonationInv /\ [D!Next]_(D!vars) => DetonationInv'
  BY NextType, NextAccounted, UndoneStep DEF DetonationInv
<1>3. DetonationInv => D!LeftPerFault
  <2> SUFFICES ASSUME DetonationInv PROVE D!LeftPerFault
    OBVIOUS
  <2> DEFINE B == {r \in Detonations : pc[r] \in {"done", "noImage"} /\ box[r] # "none"}
             S == {r \in Detonations : pc[r] = "done" /\ dir[r]}
             U == {r \in Detonations : pc[r] = "done" /\ report[r] /\ "row" \notin stored[r]}
  <2>1. /\ B \subseteq Boxed /\ S \subseteq Strewn /\ U \subseteq Unrecorded
        /\ B \in SUBSET Detonations /\ S \in SUBSET Detonations /\ U \in SUBSET Detonations
        /\ Boxed \in SUBSET Detonations /\ Strewn \in SUBSET Detonations
        /\ Unrecorded \in SUBSET Detonations
    BY DEF DetonationInv, TracesPlaced, Boxed, Strewn, Unrecorded
  <2> HIDE DEF B, S, U
  <2>2. /\ Cardinality(B) <= Cardinality(Boxed) /\ Cardinality(S) <= Cardinality(Strewn)
        /\ Cardinality(U) <= Cardinality(Unrecorded)
        /\ Cardinality(B) \in Nat /\ Cardinality(S) \in Nat /\ Cardinality(U) \in Nat
        /\ Cardinality(Boxed) \in Nat /\ Cardinality(Strewn) \in Nat /\ Cardinality(Unrecorded) \in Nat
    BY <2>1, OneMore
  <2>3. Cardinality(B) + Cardinality(S) + Cardinality(U) <= failures
    BY <2>2 DEF DetonationInv, UndonePerFault, Undone, D!TypeOK
  <2>4. D!Cardinality(B) + D!Cardinality(S) + D!Cardinality(U) <= failures
    <3>1. /\ D!Cardinality(B) = Cardinality(B) /\ D!Cardinality(S) = Cardinality(S)
          /\ D!Cardinality(U) = Cardinality(U)
      BY SameSets
    <3> QED
      BY <2>3, <3>1
  <2> QED
    BY <2>4 DEF D!LeftPerFault, B, S, U
<1> QED
  BY <1>1, <1>2, <1>3, PTL DEF D!Spec
==============================================================================
