--------------------------- MODULE SandboxManager ---------------------------
(***************************************************************************)
(* The sandbox manager's process (sandbox-manager/src/index.ts): its       *)
(* provision and destroy routes over the pool and the network isolation    *)
(* service, shutdown, and a new start after it was killed.  The pool is    *)
(* taken at its word (SandboxAllocator, which SandboxPool implements); the *)
(* iptables commands of NetworkIsolation are the awaits between which      *)
(* other requests run.                                                     *)
(***************************************************************************)
EXTENDS Integers, Sequences, FiniteSets

CONSTANTS
  Requests,     \* calls of the provision route
  Destroys,     \* calls of the destroy route
  Instances,    \* instance ids
  ModeOf,       \* the internetMode each provision call names
  MaxFaults,    \* bound on failures of each kind
  None, NoMode

FaultKinds == {"apply", "remove", "flush", "exit"}

VARIABLES
  pooled, retired, owner, client,   \* see SandboxAllocator
  chain, hooked, activePolicies,    \* see NetworkIsolation
  call,      \* a provision call: where it is, its instance, the next rule to apply
  destroy,   \* a destroy call: where it is, its instance, the policy it read, the next rule
  process,   \* see Processes
  hungUp,    \* the provision calls whose clients had hung up when the server closed
  faults     \* how many faults of each kind have happened

poolVars == <<pooled, retired, owner, client>>
networkVars == <<chain, hooked, activePolicies>>
vars == <<pooled, retired, owner, client, chain, hooked, activePolicies,
          call, destroy, process, hungUp, faults>>

Pool == INSTANCE SandboxAllocator
Network == INSTANCE NetworkIsolation

ASSUME ManagerAssumption ==
  /\ ModeOf \in [Requests -> Network!InternetModes]
  /\ MaxFaults \in Nat
  /\ None \notin Instances \cup Requests
  /\ NoMode \notin Network!InternetModes

(* "starting" until initialize has resolved; "closing" after SIGTERM;       *)
(* "stopping" while poolManager.stop awaits; in flushAll, "flushing" until  *)
(* the chain's -F has ended, then "clearing" until the nat table's has.     *)
Processes == {"starting", "up", "closing", "stopping", "flushing", "clearing", "exited", "killed"}
CallStates == {"idle", "checkout", "applying", "answered", "failed"}
DestroyStates == {"idle", "removing", "destroying", "answered", "failed"}

NewCall == [pc |-> "idle", inst |-> None, k |-> 0]
NewDestroy == [pc |-> "idle", inst |-> None, mode |-> NoMode, k |-> 0]

Init ==
  /\ Pool!Init /\ Network!Init
  /\ call = [r \in Requests |-> NewCall]
  /\ destroy = [d \in Destroys |-> NewDestroy]
  /\ process = "starting"
  /\ hungUp = {}
  /\ faults = [f \in FaultKinds |-> 0]

Alive == process \notin {"exited", "killed"}
Fault(f) == faults[f] < MaxFaults /\ faults' = [faults EXCEPT ![f] = @ + 1]

Start ==
  /\ process = "starting" /\ process' = "up"
  /\ Network!Initialize
  /\ UNCHANGED <<poolVars, call, destroy, hungUp, faults>>

----------------------------------------------------------------------------
(* POST /sandboxes/provision *)

Checkout(r) ==
  /\ process = "up" /\ call[r].pc = "idle"
  /\ Pool!Ask(r)
  /\ call' = [call EXCEPT ![r].pc = "checkout"]
  /\ UNCHANGED <<networkVars, destroy, process, hungUp, faults>>

CheckoutRefused(r) ==
  /\ Alive /\ call[r].pc = "checkout"
  /\ Pool!Refuse(r)
  /\ call' = [call EXCEPT ![r].pc = "failed"]
  /\ UNCHANGED <<networkVars, destroy, process, hungUp, faults>>

(* An instance without an address gets no policy and is answered at once:   *)
(* all of QEMU's, and Docker's that have no network.                        *)
CheckedOut(r, i) ==
  /\ Alive /\ call[r].pc = "checkout"
  /\ Pool!Grant(r, i)
  /\ \/ call' = [call EXCEPT ![r] = [pc |-> "applying", inst |-> i, k |-> 1]]
     \/ call' = [call EXCEPT ![r] = [pc |-> "answered", inst |-> i, k |-> 0]]
  /\ UNCHANGED <<networkVars, destroy, process, hungUp, faults>>

Rules(r) == Network!RulesFor[ModeOf[r]]

(* A plausible error: 201 is sent without awaiting the last rule.           *)
ApplyAnswersEarly(r) ==
  LET k == call[r].k IN
  /\ Alive /\ call[r].pc = "applying"
  /\ ~Network!Refused(Rules(r)[k])
  /\ Network!ApplyRule(call[r].inst, ModeOf[r], k)
  /\ call' = IF k + 1 >= Len(Rules(r)) THEN [call EXCEPT ![r].pc = "answered"]
             ELSE [call EXCEPT ![r].k = k + 1]
  /\ UNCHANGED <<poolVars, destroy, process, hungUp, faults>>

Apply(r) ==
  LET k == call[r].k IN
  /\ Alive /\ call[r].pc = "applying"
  /\ ~Network!Refused(Rules(r)[k])
  /\ Network!ApplyRule(call[r].inst, ModeOf[r], k)
  /\ call' = IF k = Len(Rules(r)) THEN [call EXCEPT ![r].pc = "answered"]
             ELSE [call EXCEPT ![r].k = k + 1]
  /\ UNCHANGED <<poolVars, destroy, process, hungUp, faults>>

(* A plausible error: applyPolicy uses safeIptables, and goes on.           *)
ApplyFailsGoesOn(r) ==
  LET k == call[r].k IN
  /\ Alive /\ call[r].pc = "applying"
  /\ IF Network!Refused(Rules(r)[k]) THEN UNCHANGED faults ELSE Fault("apply")
  /\ call' = IF k = Len(Rules(r)) THEN [call EXCEPT ![r].pc = "answered"]
             ELSE [call EXCEPT ![r].k = k + 1]
  /\ activePolicies' = IF k = Len(Rules(r))
                       THEN [activePolicies EXCEPT ![call[r].inst] = ModeOf[r]] ELSE activePolicies
  /\ UNCHANGED <<poolVars, chain, hooked, destroy, process, hungUp>>

(* iptables refuses the rule, or fails: the route answers 500.  The rules   *)
(* applied so far stay, no policy is recorded, and the instance stays       *)
(* checked out.                                                             *)
ApplyFails(r) ==
  /\ Alive /\ call[r].pc = "applying"
  /\ IF Network!Refused(Rules(r)[call[r].k]) THEN UNCHANGED faults ELSE Fault("apply")
  /\ call' = [call EXCEPT ![r].pc = "failed"]
  /\ UNCHANGED <<poolVars, networkVars, destroy, process, hungUp>>

----------------------------------------------------------------------------
(* POST /sandboxes/:id/destroy, for an id the list route has shown.         *)

Holder(i) == owner[i] # None /\ client[owner[i]] = "holding"

Destroy(d, i) ==
  LET mode == activePolicies[i] IN
  /\ process \in {"up", "closing"} /\ destroy[d].pc = "idle"
  /\ i \in pooled \cup retired
  /\ destroy' = [destroy EXCEPT ![d] =
                   IF mode = NoMode THEN [pc |-> "destroying", inst |-> i, mode |-> NoMode, k |-> 0]
                   ELSE [pc |-> "removing", inst |-> i, mode |-> mode,
                         k |-> Len(Network!RulesFor[mode])]]
  /\ IF Holder(i) THEN Pool!End(owner[i]) ELSE UNCHANGED poolVars
  /\ UNCHANGED <<networkVars, call, process, hungUp, faults>>

Removed(d) ==
  destroy' = [destroy EXCEPT ![d].pc = IF destroy[d].k = 1 THEN "destroying" ELSE "removing",
                             ![d].k = @ - 1]

Remove(d) ==
  /\ Alive /\ destroy[d].pc = "removing"
  /\ Network!RemoveRule(destroy[d].inst, destroy[d].mode, destroy[d].k)
  /\ Removed(d)
  /\ UNCHANGED <<poolVars, call, process, hungUp, faults>>

RemoveFails(d) ==
  /\ Alive /\ destroy[d].pc = "removing"
  /\ Fault("remove")
  /\ Network!RemoveRuleFails(destroy[d].inst, destroy[d].k)
  /\ Removed(d)
  /\ UNCHANGED <<poolVars, call, process, hungUp>>

(* destroyPoolInstance has dropped the entry, or found none.                *)
Destroyed(d) ==
  LET i == destroy[d].inst IN
  /\ Alive /\ destroy[d].pc = "destroying"
  /\ IF i \in pooled THEN Pool!Drop({i}) ELSE UNCHANGED poolVars
  /\ destroy' = [destroy EXCEPT ![d].pc = "answered"]
  /\ UNCHANGED <<networkVars, call, process, hungUp, faults>>

(* The pool's own timers: a reserve, and cleanupExpiredSessions, which      *)
(* destroys the instance and leaves its policy.                             *)
PoolTimer ==
  /\ Alive
  /\ \E i \in Instances : \/ Pool!Stock(i)
                          \/ owner[i] # None /\ Pool!Drop({i})
  /\ UNCHANGED <<networkVars, call, destroy, process, hungUp, faults>>

----------------------------------------------------------------------------
(* shutdown *)

Signal ==
  /\ process = "up" /\ process' = "closing"
  /\ UNCHANGED <<poolVars, networkVars, call, destroy, hungUp, faults>>

(* server.close calls back when every connection has ended: its request was *)
(* answered, or its client has hung up.  The handlers of the latter go on.  *)
Stop ==
  /\ process = "closing" /\ process' = "stopping"
  /\ hungUp' = {r \in Requests : call[r].pc \in {"checkout", "applying"}}
  /\ UNCHANGED <<poolVars, networkVars, call, destroy, faults>>

Stopped ==
  /\ process = "stopping" /\ process' = "flushing"
  /\ IF pooled = {} THEN UNCHANGED poolVars ELSE Pool!Drop(pooled)
  /\ UNCHANGED <<networkVars, call, destroy, hungUp, faults>>

Flush ==
  /\ process = "flushing" /\ process' = "clearing"
  /\ \/ Network!FlushChain /\ UNCHANGED faults
     \/ UNCHANGED networkVars /\ Fault("flush")
  /\ UNCHANGED <<poolVars, call, destroy, hungUp>>

Exit ==
  /\ process = "clearing" /\ process' = "exited"
  /\ Network!ClearPolicies
  /\ UNCHANGED <<poolVars, call, destroy, hungUp, faults>>

(* The 15-second timer, or a crash: the requests in progress end, and what  *)
(* the process held in memory is gone.  After the flush it is an exit like  *)
(* any other.                                                               *)
Killed ==
  /\ Alive /\ Fault("exit")
  /\ process' = IF process = "clearing" THEN "exited" ELSE "killed"
  /\ call' = [r \in Requests |-> IF call[r].pc \in {"checkout", "applying"}
                                 THEN [call[r] EXCEPT !.pc = "failed"] ELSE call[r]]
  /\ destroy' = [d \in Destroys |-> IF destroy[d].pc \in {"removing", "destroying"}
                                    THEN [destroy[d] EXCEPT !.pc = "failed"] ELSE destroy[d]]
  /\ client' = [r \in Requests |-> IF client[r] = "idle" THEN "idle" ELSE "ended"]
  /\ pooled' = {} /\ retired' = retired \cup pooled
  /\ Network!ClearPolicies
  /\ UNCHANGED <<owner, hungUp>>

Restart ==
  /\ process = "killed" /\ process' = "starting"
  /\ UNCHANGED <<poolVars, networkVars, call, destroy, hungUp, faults>>

Next ==
  \/ \E r \in Requests :
       \/ Checkout(r) \/ CheckoutRefused(r) \/ Apply(r) \/ ApplyFails(r)
       \/ \E i \in Instances : CheckedOut(r, i)
  \/ \E d \in Destroys :
       \/ Remove(d) \/ RemoveFails(d) \/ Destroyed(d)
       \/ \E i \in Instances : Destroy(d, i)
  \/ Start \/ PoolTimer
  \/ Signal \/ Stop \/ Stopped \/ Flush \/ Exit \/ Killed \/ Restart

Spec == Init /\ [][Next]_vars

----------------------------------------------------------------------------
(* Besides the types: the loops over the rules stay within them.            *)
TypeOK ==
  /\ Pool!TypeOK /\ Network!TypeOK
  /\ call \in [Requests -> [pc : CallStates, inst : Instances \cup {None}, k : Nat]]
  /\ destroy \in [Destroys -> [pc : DestroyStates, inst : Instances \cup {None},
                               mode : Network!InternetModes \cup {NoMode}, k : Nat]]
  /\ process \in Processes
  /\ hungUp \subseteq Requests
  /\ faults \in [FaultKinds -> Nat]
  /\ \A r \in Requests : call[r].pc = "applying" => call[r].k \in 1..Len(Rules(r))
  /\ \A d \in Destroys :
       destroy[d].pc = "removing" => destroy[d].k \in 1..Len(Network!RulesFor[destroy[d].mode])

Working(i) ==
  \/ \E r \in Requests : call[r].pc = "applying" /\ call[r].inst = i
  \/ \E d \in Destroys : destroy[d].pc = "removing" /\ destroy[d].inst = i

(* The mode a sandbox was asked for. *)
Asked(i) == IF owner[i] = None THEN NoMode ELSE ModeOf[owner[i]]

(* At no point do the rules present accept traffic that the whole policy of *)
(* the sandbox drops, in any interleaving of requests, failures and         *)
(* shutdown: applyPolicy stops at the first command that fails, and the     *)
(* rules that block come before the one that accepts what is left.          *)
Wider(i) ==
  \E t \in Network!Traffic :
    /\ Network!VerdictOn(i, t) = "ACCEPT"
    /\ Asked(i) = NoMode \/ Network!Intended(Asked(i), t) # "ACCEPT"
NeverWider == \A i \in Instances : ~Wider(i)

(* A 201 sent after a policy was applied is for the closed mode, the only   *)
(* one whose rules iptables takes, and all its rules are in the chain until *)
(* a destroy of the sandbox begins or shutdown flushes, whatever other      *)
(* sessions, the cleanup loop or a killed process do meanwhile.  This is    *)
(* about the rules, not the traffic: see ClosedIsClosed.                    *)
Undisturbed(r) ==
  /\ call[r].pc = "answered" /\ call[r].k > 0
  /\ \A d \in Destroys : destroy[d].inst # call[r].inst
AnsweredHasItsRules ==
  process \notin {"clearing", "exited"} =>
    \A r \in Requests : Undisturbed(r) =>
      /\ ModeOf[r] = "disabled"
      /\ \A t \in Network!Traffic :
           Network!VerdictOn(call[r].inst, t) = Network!Intended(ModeOf[r], t)

(* Rules nobody will remove (no policy recorded, no call at work) are the   *)
(* trace of an iptables command that failed, or of a policy with a rule     *)
(* that iptables refuses, as long as the process lives.                     *)
Orphaned == {i \in Instances : /\ \E k \in 1..Len(chain) : chain[k].inst = i
                               /\ activePolicies[i] = NoMode /\ ~Working(i)}
RefusedTo(r) == call[r].pc = "failed" /\ call[r].k > 0 /\ Network!Refused(Rules(r)[call[r].k])
RulesPerFault ==
  process # "exited" /\ faults["exit"] = 0 =>
    Cardinality({i \in Orphaned : ~RefusedTo(owner[i])}) <= faults["apply"] + faults["remove"]

(* A clean shutdown leaves no rule, not even those of sessions the cleanup  *)
(* loop ended or of a process that was killed, except what the handler of a *)
(* client that had hung up appends while the process ends.                  *)
StopFlushes ==
  process = "exited" /\ faults["flush"] = 0 =>
    \A k \in 1..Len(chain) : \E r \in hungUp : call[r].inst = chain[k].inst

(* "Fully isolated: no outbound traffic at all" (buildIsolatedRules): what a *)
(* sandbox of the closed mode sends is dropped.                             *)
ClosedIsClosed ==
  process = "up" =>
    \A r \in Requests : Undisturbed(r) /\ ModeOf[r] = "disabled" =>
      \A t \in Network!Outbound : Network!Fate(call[r].inst, t) = "DROP"

(* "Remove all network isolation rules for a sandbox instance"              *)
(* (removePolicy): when the provision of a sandbox has failed and a destroy *)
(* of it is answered, none of its rules is left, even if no process was     *)
(* killed and no command failed but those iptables refuses.                 *)
DestroyRemovesRules ==
  (\A f \in FaultKinds : faults[f] = 0) =>
    \A d \in Destroys, r \in Requests :
      /\ destroy[d].pc = "answered" /\ call[r].pc = "failed"
      /\ destroy[d].inst = call[r].inst
      => \A k \in 1..Len(chain) : chain[k].inst # destroy[d].inst

OneSandbox == Pool!OneSandbox
=============================================================================
