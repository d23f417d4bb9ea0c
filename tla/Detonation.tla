----------------------------- MODULE Detonation -----------------------------
(***************************************************************************)
(* The detonation of a sample (packages/dynamic-analysis): the handler of  *)
(* POST /analyze/docker, DockerSandboxExecutor.execute with its throwaway  *)
(* container and its temporary directory, the two promises the service     *)
(* keeps (the image, the Redis connection), the orchestrator that stops    *)
(* waiting after 120 s, and shutdown, kill and restart of the service.     *)
(*                                                                         *)
(* What runs inside the container and how its output is parsed is one step *)
(* that ends with a report or an exception; no await of it can last for    *)
(* ever, since every docker call has a timeout.                            *)
(***************************************************************************)
EXTENDS Naturals, FiniteSets

CONSTANTS
  Requests,   \* calls of POST /analyze/docker
  MaxFaults,  \* bound on failing docker, file and database calls, and on kills
  MaxFlips    \* bound on changes of the image and of Redis

ASSUME BoundsAssumption == IsFiniteSet(Requests) /\ MaxFaults \in Nat /\ MaxFlips \in Nat

VARIABLES
  mode,       \* the service
  image,      \* a sandbox image is installed
  imageReady, \* imageReadyPromise
  redis,      \* Redis can be reached
  connection, \* redisConnectPromise
  pc,         \* where each handler is
  report,     \* execute has a report
  box,        \* the container of the request
  dir,        \* the temporary directory with the sample
  stored,     \* what is stored: the row of dynamic_analysis_results, the PCAP
  client,     \* the step of the orchestrator that made the call
  faults, flips

promises == <<imageReady, connection>>
world == <<image, redis>>
traces == <<box, dir, stored>>
bounds == <<faults, flips>>
vars == <<mode, image, imageReady, redis, connection, pc, report, box, dir, stored,
          client, faults, flips>>

Modes == {"up", "closing", "down"}
Promises == {"unset", "pending", "fulfilled", "rejected"}
Busy == {"fetch", "mkdir", "image", "run", "execute", "kill", "remove", "rmdir", "store", "pcap", "answer"}
Ended == {"done", "noImage", "lost"}
Places == {"idle"} \cup Busy \cup Ended
BoxStates == {"none", "running", "stopped"}
Clients == {"idle", "waiting", "report", "error", "gone"}

Init ==
  /\ mode = "up" /\ image \in BOOLEAN /\ redis = TRUE
  /\ imageReady = "unset" /\ connection = "unset"
  /\ pc = [r \in Requests |-> "idle"] /\ report = [r \in Requests |-> FALSE]
  /\ box = [r \in Requests |-> "none"]
  /\ dir = [r \in Requests |-> FALSE] /\ stored = [r \in Requests |-> {}]
  /\ client = [r \in Requests |-> "idle"]
  /\ faults = 0 /\ flips = 0

Alive == mode # "down"
At(r, place) == Alive /\ pc[r] = place
Goto(r, place) == pc' = [pc EXCEPT ![r] = place]
Hear(r, answer) == client' = [client EXCEPT ![r] = IF @ = "waiting" THEN answer ELSE @]
Fault == faults < MaxFaults /\ faults' = faults + 1
Demand(promise) == IF promise = "unset" THEN "pending" ELSE promise
InProgress == {r \in Requests : pc[r] \in Busy}

----------------------------------------------------------------------------
(* The handler, up to execute                                               *)

Analyze(r) ==
  /\ mode = "up" /\ pc[r] = "idle"
  /\ Goto(r, "fetch") /\ connection' = Demand(connection)
  /\ client' = [client EXCEPT ![r] = "waiting"]
  /\ UNCHANGED <<mode, world, imageReady, report, traces, bounds>>

(* connect() settles once; ioredis reconnects, the promise stays rejected.  *)
Connect ==
  /\ Alive /\ connection = "pending"
  /\ connection' = IF redis THEN "fulfilled" ELSE "rejected"
  /\ UNCHANGED <<mode, world, imageReady, pc, report, traces, client, bounds>>

Fetch(r) ==
  /\ At(r, "fetch") /\ connection = "fulfilled" /\ redis
  /\ Goto(r, "mkdir")
  /\ UNCHANGED <<mode, world, promises, report, traces, client, bounds>>

(* A plausible error: a rejected connection is awaited again.               *)
FetchFailsOnGet(r) ==
  /\ At(r, "fetch") /\ connection = "fulfilled"
  /\ Goto(r, "done") /\ Hear(r, "error")
  /\ UNCHANGED <<mode, world, promises, report, traces, bounds>>

(* No connection, no answer of Redis, or the sample has expired.            *)
FetchFails(r) ==
  /\ At(r, "fetch") /\ connection \in {"fulfilled", "rejected"}
  /\ Goto(r, "done") /\ Hear(r, "error")
  /\ UNCHANGED <<mode, world, promises, report, traces, bounds>>

MakeDir(r) ==
  /\ At(r, "mkdir")
  /\ dir' = [dir EXCEPT ![r] = TRUE]
  /\ Goto(r, "image") /\ imageReady' = Demand(imageReady)
  /\ UNCHANGED <<mode, world, connection, report, box, stored, client, bounds>>

(* writeFile or mkdir throws: before the try, so nothing removes the        *)
(* directory.                                                               *)
MakeDirFails(r) ==
  /\ At(r, "mkdir") /\ Fault
  /\ dir' = [dir EXCEPT ![r] = TRUE]
  /\ Goto(r, "done") /\ Hear(r, "error")
  /\ UNCHANGED <<mode, world, promises, report, box, stored, flips>>

(* ensureSandboxImage, whose inspection of the images may also fail.        *)
CheckImage ==
  /\ Alive /\ imageReady = "pending"
  /\ \/ imageReady' = (IF image THEN "fulfilled" ELSE "rejected") /\ UNCHANGED faults
     \/ imageReady' = "rejected" /\ Fault
  /\ UNCHANGED <<mode, world, connection, pc, report, traces, client, flips>>

HaveImage(r) ==
  /\ At(r, "image") /\ imageReady = "fulfilled"
  /\ Goto(r, "run")
  /\ UNCHANGED <<mode, world, promises, report, traces, client, bounds>>

(* Also before the try.                                                     *)
NoImage(r) ==
  /\ At(r, "image") /\ imageReady = "rejected"
  /\ Goto(r, "noImage") /\ Hear(r, "error")
  /\ UNCHANGED <<mode, world, promises, report, traces, bounds>>

----------------------------------------------------------------------------
(* execute, from docker run to the end of its finally                       *)

StartContainer(r) ==
  /\ At(r, "run") /\ image
  /\ box' = [box EXCEPT ![r] = "running"]
  /\ Goto(r, "execute")
  /\ UNCHANGED <<mode, world, promises, report, dir, stored, client, bounds>>

(* docker run fails, or its 30 s are over while the daemon goes on.         *)
StartFails(r) ==
  /\ At(r, "run")
  /\ \/ ~image /\ UNCHANGED <<box, faults>>
     \/ Fault /\ box' \in {box, [box EXCEPT ![r] = "running"]}
  /\ Goto(r, "rmdir")
  /\ UNCHANGED <<mode, world, promises, report, dir, stored, client, flips>>

(* A plausible error: the clean-up is at the end of the try, not in its     *)
(* finally.                                                                 *)
ExecuteNoFinally(r) ==
  /\ At(r, "execute")
  /\ \E ok \in BOOLEAN :
       /\ report' = [report EXCEPT ![r] = ok]
       /\ Goto(r, IF ok THEN "kill" ELSE "done")
       /\ IF ok THEN UNCHANGED client ELSE Hear(r, "error")
  /\ UNCHANGED <<mode, world, promises, traces, bounds>>

Execute(r) ==
  /\ At(r, "execute")
  /\ \E ok \in BOOLEAN : report' = [report EXCEPT ![r] = ok]
  /\ Goto(r, "kill")
  /\ UNCHANGED <<mode, world, promises, traces, client, bounds>>

(* dockerSafe: a call that fails is one that did nothing.                   *)
KillBox(r) ==
  /\ At(r, "kill")
  /\ \/ box' = [box EXCEPT ![r] = "stopped"] /\ UNCHANGED faults
     \/ Fault /\ UNCHANGED box
  /\ Goto(r, "remove")
  /\ UNCHANGED <<mode, world, promises, report, dir, stored, client, flips>>

RemoveBox(r) ==
  /\ At(r, "remove")
  /\ \/ box' = [box EXCEPT ![r] = "none"] /\ UNCHANGED faults
     \/ Fault /\ UNCHANGED box
  /\ Goto(r, "rmdir")
  /\ UNCHANGED <<mode, world, promises, report, dir, stored, client, flips>>

RemoveDir(r) ==
  /\ At(r, "rmdir")
  /\ \/ dir' = [dir EXCEPT ![r] = FALSE] /\ UNCHANGED faults
     \/ Fault /\ UNCHANGED dir
  /\ IF report[r] THEN Goto(r, "store") /\ UNCHANGED client
                  ELSE Goto(r, "done") /\ Hear(r, "error")
  /\ UNCHANGED <<mode, world, promises, report, box, stored, flips>>

----------------------------------------------------------------------------
(* The handler, after execute: nothing here fails the request               *)

StoreRow(r) ==
  /\ At(r, "store")
  /\ \/ stored' = [stored EXCEPT ![r] = {"row"}] /\ UNCHANGED faults
     \/ Fault /\ UNCHANGED stored
  /\ Goto(r, "pcap")
  /\ UNCHANGED <<mode, world, promises, report, box, dir, client, flips>>

StorePcap(r) ==
  /\ At(r, "pcap")
  /\ \/ connection = "fulfilled" /\ redis /\ stored' = [stored EXCEPT ![r] = @ \cup {"pcap"}]
     \/ UNCHANGED stored             \* no PCAP, or an error that is dropped
  /\ Goto(r, "answer")
  /\ UNCHANGED <<mode, world, promises, report, box, dir, client, bounds>>

Answer(r) ==
  /\ At(r, "answer")
  /\ Goto(r, "done") /\ Hear(r, "report")
  /\ UNCHANGED <<mode, world, promises, report, traces, bounds>>

(* AbortSignal.timeout(120_000) of executeStep: the service does not notice.*)
ClientTimeout(r) ==
  /\ client[r] = "waiting"
  /\ client' = [client EXCEPT ![r] = "gone"]
  /\ UNCHANGED <<mode, world, promises, pc, report, traces, bounds>>

(* EX 3600                                                                  *)
ExpirePcap(r) ==
  /\ "pcap" \in stored[r]
  /\ stored' = [stored EXCEPT ![r] = @ \ {"pcap"}]
  /\ UNCHANGED <<mode, world, promises, pc, report, box, dir, client, bounds>>

----------------------------------------------------------------------------
(* The image is built or pruned, Redis goes and comes back                  *)

Flip ==
  /\ flips < MaxFlips /\ flips' = flips + 1
  /\ \/ image' = ~image /\ UNCHANGED redis
     \/ redis' = ~redis /\ UNCHANGED image
  /\ UNCHANGED <<mode, promises, pc, report, traces, client, faults>>

Signal ==
  /\ mode = "up" /\ mode' = "closing"
  /\ UNCHANGED <<world, promises, pc, report, traces, client, bounds>>

(* The end of the process takes its handlers with it.                       *)
Die ==
  /\ mode' = "down"
  /\ pc' = [r \in Requests |-> IF pc[r] \in Busy THEN "lost" ELSE pc[r]]
  /\ client' = [r \in Requests |-> IF client[r] = "waiting" THEN "error" ELSE client[r]]
  /\ imageReady' = "unset" /\ connection' = "unset"
  /\ UNCHANGED <<world, report, traces, flips>>

(* server.close calls back once no request is in progress; the 15 s timer   *)
(* of shutdown is shorter than a detonation.                                *)
Close == mode = "closing" /\ InProgress = {} /\ Die /\ UNCHANGED faults
ForcedExit == mode = "closing" /\ InProgress # {} /\ Die /\ UNCHANGED faults

Killed == Alive /\ Fault /\ Die

Restart ==
  /\ mode = "down" /\ mode' = "up"
  /\ UNCHANGED <<world, promises, pc, report, traces, client, bounds>>

----------------------------------------------------------------------------
Handler(r) ==
  \/ Fetch(r) \/ FetchFails(r) \/ MakeDir(r) \/ MakeDirFails(r) \/ HaveImage(r) \/ NoImage(r)
  \/ StartContainer(r) \/ StartFails(r) \/ Execute(r)
  \/ KillBox(r) \/ RemoveBox(r) \/ RemoveDir(r)
  \/ StoreRow(r) \/ StorePcap(r) \/ Answer(r)

Next ==
  \/ \E r \in Requests : Analyze(r) \/ Handler(r) \/ ClientTimeout(r) \/ ExpirePcap(r)
  \/ Connect \/ CheckImage \/ Flip \/ Signal \/ Close \/ ForcedExit \/ Killed \/ Restart

(* Every await of the handler has a timeout, and the promises settle.       *)
Fairness ==
  /\ \A r \in Requests : WF_vars(Handler(r))
  /\ WF_vars(Connect) /\ WF_vars(CheckImage)

Spec == Init /\ [][Next]_vars /\ Fairness

----------------------------------------------------------------------------
(* Besides the types: docker run comes after a check that found an image.   *)
TypeOK ==
  /\ mode \in Modes /\ image \in BOOLEAN /\ redis \in BOOLEAN
  /\ imageReady \in Promises /\ connection \in Promises
  /\ pc \in [Requests -> Places] /\ report \in [Requests -> BOOLEAN]
  /\ box \in [Requests -> BoxStates]
  /\ dir \in [Requests -> BOOLEAN] /\ stored \in [Requests -> SUBSET {"row", "pcap"}]
  /\ client \in [Requests -> Clients]
  /\ \A r \in Requests : pc[r] \in {"run", "execute"} => imageReady = "fulfilled"
  /\ faults \in 0..MaxFaults /\ flips \in 0..MaxFlips

(* "Throwaway containers [...] destroyed after": a container that outlives  *)
(* its request is the trace of a docker call that failed, a sample left in  *)
(* a temporary directory that of a file call, and a report without its row  *)
(* that of an INSERT; each failure leaves one of them at most, whatever     *)
(* exception ended the analysis.  A request that found no image leaves its  *)
(* directory without any failure ("noImage"), and a process that ends takes *)
(* the clean-up of its requests with it ("lost").                           *)
LeftPerFault ==
  Cardinality({r \in Requests : pc[r] \in {"done", "noImage"} /\ box[r] # "none"})
    + Cardinality({r \in Requests : pc[r] = "done" /\ dir[r]})
    + Cardinality({r \in Requests : pc[r] = "done" /\ report[r] /\ "row" \notin stored[r]})
  <= faults

(* Every request ends, also one whose client has gone, whose image is       *)
(* missing or whose Redis connection was refused.                           *)
RequestEnds == \A r \in Requests : (pc[r] \in Busy) ~> (pc[r] \in Ended)

(* The same without the allowance: no container is left of a request that   *)
(* is over ("destroyed after", FEATURES.md).                                *)
Throwaway == faults = 0 => \A r \in Requests : pc[r] \in Ended => box[r] = "none"

(* "Build it first" (ensureSandboxImage): unless its inspection failed, a   *)
(* request does not fail for a missing image while there is one.            *)
BuiltImageIsUsed ==
  [][\A r \in Requests : (pc[r] # "noImage" /\ pc'[r] = "noImage") => ~image \/ faults # 0]_vars

=============================================================================
