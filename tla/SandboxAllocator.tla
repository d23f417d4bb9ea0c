-------------------------- MODULE SandboxAllocator --------------------------
(***************************************************************************)
(* What the sandbox manager's pool promises its callers, without how: a    *)
(* request waits until it is granted one instance or refused, an instance  *)
(* is granted to one request in its life, and an instance that has left    *)
(* the pool never comes back.  SandboxPool, as index.ts calls it, is shown *)
(* to implement this module; SandboxManager is built on it.                *)
(***************************************************************************)
EXTENDS FiniteSets

CONSTANTS
  Requests,   \* calls of checkout, each by one client session
  Instances,  \* instance ids a provider may hand out
  None        \* no request

VARIABLES
  pooled,   \* the instances the pool tracks
  retired,  \* the ids that are spent: they have left the pool or never reached it
  owner,    \* the request an instance was granted to
  client    \* where a request is

allocatorVars == <<pooled, retired, owner, client>>

ClientStates == {"idle", "waiting", "holding", "ended"}

Init ==
  /\ pooled = {}
  /\ retired = {}
  /\ owner = [i \in Instances |-> None]
  /\ client = [r \in Requests |-> "idle"]

Fresh == Instances \ (pooled \cup retired)

Ask(r) ==
  /\ client[r] = "idle"
  /\ client' = [client EXCEPT ![r] = "waiting"]
  /\ UNCHANGED <<pooled, retired, owner>>

(* An instance of the pool that nobody has had, or a new one.               *)
Grant(r, i) ==
  /\ client[r] \in {"idle", "waiting"}
  /\ i \notin retired /\ owner[i] = None
  /\ pooled' = pooled \cup {i}
  /\ owner' = [owner EXCEPT ![i] = r]
  /\ client' = [client EXCEPT ![r] = "holding"]
  /\ UNCHANGED retired

(* A timeout, or a provisioning that failed and spent its id.               *)
Refuse(r) ==
  /\ client[r] = "waiting"
  /\ client' = [client EXCEPT ![r] = "ended"]
  /\ \/ UNCHANGED retired
     \/ \E i \in Fresh : retired' = retired \cup {i}
  /\ UNCHANGED <<pooled, owner>>

End(r) ==
  /\ client[r] = "holding"
  /\ client' = [client EXCEPT ![r] = "ended"]
  /\ UNCHANGED <<pooled, retired, owner>>

(* The pool keeps a reserve of its own. *)
Stock(i) ==
  /\ i \in Fresh
  /\ pooled' = pooled \cup {i}
  /\ UNCHANGED <<retired, owner, client>>

Spoil(i) ==
  /\ i \in Fresh
  /\ retired' = retired \cup {i}
  /\ UNCHANGED <<pooled, owner, client>>

(* The entries of S leave the pool: destroyed one by one, or all at a stop. *)
Drop(S) ==
  /\ S # {} /\ S \subseteq pooled
  /\ pooled' = pooled \ S
  /\ retired' = retired \cup S
  /\ UNCHANGED <<owner, client>>

Next ==
  \/ \E r \in Requests :
       \/ Ask(r) \/ Refuse(r) \/ End(r)
       \/ \E i \in Instances : Grant(r, i)
  \/ \E i \in Instances : Stock(i) \/ Spoil(i)
  \/ \E S \in SUBSET Instances : Drop(S)

Spec == Init /\ [][Next]_allocatorVars

----------------------------------------------------------------------------
TypeOK ==
  /\ pooled \subseteq Instances
  /\ retired \subseteq Instances
  /\ owner \in [Instances -> Requests \cup {None}]
  /\ client \in [Requests -> ClientStates]

(* A session has one sandbox, it is in no other session's hands, and the    *)
(* pool never takes a spent id back.                                        *)
OneSandbox ==
  /\ pooled \cap retired = {}
  /\ \A i, j \in Instances : owner[i] = owner[j] /\ owner[i] # None => i = j
  /\ \A r \in Requests : client[r] = "holding" => \E i \in Instances : owner[i] = r

=============================================================================
