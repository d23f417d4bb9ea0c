------------------------ MODULE SandboxManager_proofs ------------------------
(***************************************************************************)
(* Proofs about SandboxManager: what the rules in the chain accept, which   *)
(* of them stay, and which are left behind; for any number of sessions,    *)
(* destroy calls, sandboxes and faults.                                    *)
(*                                                                         *)
(* The argument: every rule of the chain was added by the call that owns   *)
(* its instance, in the order of its policy and up to the first rule that  *)
(* iptables refuses (AddedParses), so no rule that accepts all the rest    *)
(* is ever added; each stands there once, until a destroy call has dealt   *)
(* with it or the chain is flushed (RulesStay), and after the flush only   *)
(* the calls of clients that have hung up append (OnlyHungUp).             *)
(***************************************************************************)
EXTENDS SandboxManager, FiniteSetTheorems, SequenceTheorems, WellFoundedInduction,
        TLAPS

----------------------------------------------------------------------------
(* Induction                                                                *)

Below == {p \in Nat \X Nat : p[1] < p[2]}

(* A set of natural numbers has a least member.                             *)
LEMMA Least ==
  ASSUME NEW T \in SUBSET Nat, T # {}
  PROVE  \E x \in T : \A y \in T : x <= y
<1>1. IsWellFoundedOn(Below, Nat)
  BY NatLessThanWellFounded DEF OpToRel, Below
<1>2. PICK x \in T : \A y \in T : <<y, x>> \notin Below
  BY <1>1, WFMin
<1>3. \A y \in T : y < x => <<y, x>> \in Below
  BY DEF Below
<1>4. x \in Nat /\ \A y \in T : y \in Nat
  OBVIOUS
<1>5. ASSUME NEW y \in T PROVE x <= y
  <2>1. ~(y < x)
    BY <1>2, <1>3
  <2> QED BY <1>4, <2>1
<1> QED BY <1>5

----------------------------------------------------------------------------
(* The policies                                                             *)

(* An element of a sequence is one of the set it is a sequence of.         *)
LEMMA ElementType ==
  ASSUME NEW T, NEW s \in Seq(T), NEW i \in 1 .. Len(s) PROVE s[i] \in T
OBVIOUS

(* The rules of the three modes are different from each other.              *)
LEMMA ModesHaveRules ==
  ASSUME NEW m \in Network!InternetModes
  PROVE  /\ Network!RulesFor[m] \in Seq([match : SUBSET Network!Classes, target : Network!Targets])
         /\ Len(Network!RulesFor[m]) \in 1 .. 6
         /\ \A a, b \in 1 .. Len(Network!RulesFor[m]) :
              Network!RulesFor[m][a] = Network!RulesFor[m][b] => a = b
<1> USE DEF Network!RulesFor, Network!Rule, Network!BlockPrivateRanges, Network!Outbound,
            Network!Traffic, Network!Classes, Network!Targets, Network!InternetModes
<1>1. CASE m = "disabled"
  BY <1>1
<1>2. CASE m = "simulated"
  BY <1>2
<1>3. CASE m = "monitored"
  BY <1>3
<1> QED BY <1>1, <1>2, <1>3
(* The policy an instance is meant to have, its rules, and the k-th of them *)
(* as it stands in the chain.                                               *)
ModeFor(i) == ModeOf[owner[i]]
Policy(i) == Network!RulesFor[ModeFor(i)]
RuleIs(i, a) == Network!RuleAt(i, ModeFor(i), a)

(* How many rules a provision call has added.                               *)
Added(r) == IF call[r].k = 0 THEN 0
            ELSE IF call[r].pc = "answered" THEN call[r].k ELSE call[r].k - 1

Has(i, a) == \E p \in 1 .. Len(chain) : chain[p] = RuleIs(i, a)

(* A destroy call that removes the policy of i; it has dealt with the rules *)
(* above its k.                                                             *)
Removing(d, i) == destroy[d].inst = i /\ destroy[d].mode # NoMode
Dealt(i, a) == \E d \in Destroys : Removing(d, i) /\ destroy[d].k < a

----------------------------------------------------------------------------
(* The invariant: the calls                                                 *)

(* An instance is owned by the one call that was answered with it.          *)
OwnedByCall ==
  \A r \in Requests :
    /\ \A i \in Instances : owner[i] = r <=> call[r].inst = i
    /\ call[r].pc \in {"idle", "checkout"} => call[r].inst = None /\ call[r].k = 0
    /\ call[r].pc = "applying" => call[r].k > 0
    /\ call[r].k > 0 => call[r].inst \in Instances
    /\ call[r].k <= Len(Rules(r))
    /\ call[r].pc = "answered" /\ call[r].k > 0 => call[r].k = Len(Rules(r))

Answered(i) ==
  owner[i] # None /\ call[owner[i]].pc = "answered" /\ call[owner[i]].k > 0

(* A policy is removed, and recorded, only once all of it was applied.      *)
RemovesWhole ==
  \A d \in Destroys :
    /\ destroy[d].pc = "idle" => destroy[d].mode = NoMode
    /\ destroy[d].pc = "removing" => destroy[d].mode # NoMode
    /\ destroy[d].mode # NoMode =>
         LET i == destroy[d].inst IN
         /\ i \in Instances /\ Answered(i) /\ destroy[d].mode = ModeFor(i)
         /\ destroy[d].k <= Len(Policy(i))
         /\ destroy[d].pc \in {"destroying", "answered"} => destroy[d].k = 0
RecordsWhole ==
  \A i \in Instances :
    activePolicies[i] # NoMode => Answered(i) /\ activePolicies[i] = ModeFor(i)

CallInv == TypeOK /\ OwnedByCall /\ RemovesWhole /\ RecordsWhole

----------------------------------------------------------------------------
(* The invariant: the chain                                                 *)

(* Each rule of the chain was added by the call that owns its instance.     *)
RulesAreAdded ==
  \A p \in 1 .. Len(chain) :
    LET i == chain[p].inst IN
    owner[i] # None /\ \E a \in 1 .. Added(owner[i]) : chain[p] = RuleIs(i, a)

(* The rules of an instance stand in the order of its policy, each once.    *)
RulesInOrder ==
  \A p, q \in 1 .. Len(chain) : p < q =>
    \A i \in Instances : owner[i] # None =>
      \A a, b \in 1 .. Len(Policy(i)) :
        chain[p] = RuleIs(i, a) /\ chain[q] = RuleIs(i, b) => a < b

(* A rule that was added is there until a destroy call has dealt with it,   *)
(* or shutdown has flushed the chain.                                       *)
RulesStay ==
  process \in {"clearing", "exited"} \/
  \A i \in Instances : owner[i] # None =>
    \A a \in 1 .. Added(owner[i]) : Has(i, a) \/ Dealt(i, a)

(* The instances of which a rule is left that a destroy call has dealt with *)
(* are no more than the removals that failed.                               *)
Tainted ==
  {i \in Instances :
     owner[i] # None /\ \E a \in 1 .. Len(Policy(i)) : Dealt(i, a) /\ Has(i, a)}
TaintedPerFault == IsFiniteSet(Tainted) /\ Cardinality(Tainted) <= faults["remove"]

(* No rule was added that iptables refuses.                                 *)
AddedParses ==
  \A i \in Instances : owner[i] # None =>
    \A a \in 1 .. Added(owner[i]) : ~Network!Refused(Policy(i)[a])

ChainInv == RulesAreAdded /\ RulesInOrder /\ RulesStay /\ AddedParses /\ TaintedPerFault

----------------------------------------------------------------------------
(* The invariant: what nobody will remove, as long as no process was killed *)

(* The instances whose policy was not applied to the end, though iptables   *)
(* takes the rule at which it stopped.                                      *)
Stuck == {i \in Instances : owner[i] # None /\ call[owner[i]].pc = "failed"
                            /\ call[owner[i]].k > 0 /\ ~RefusedTo(owner[i])}
StuckPerFault ==
  faults["exit"] = 0 => IsFiniteSet(Stuck) /\ Cardinality(Stuck) <= faults["apply"]

(* An applied policy is forgotten only by a destroy call that has dealt     *)
(* with every rule.                                                         *)
ForgottenWhenDone ==
  process # "exited" /\ faults["exit"] = 0 =>
    \A i \in Instances : Answered(i) /\ activePolicies[i] = NoMode =>
      \E d \in Destroys : Removing(d, i) /\ destroy[d].k = 0

(* Once the server has closed, the calls that go on are those of clients    *)
(* that had hung up, and what is in the chain after its flush is theirs.    *)
OnlyHungUp ==
  /\ process \in {"stopping", "flushing", "clearing", "exited"} =>
       \A r \in Requests : call[r].pc \in {"checkout", "applying"} => r \in hungUp
  /\ process \in {"clearing", "exited"} /\ faults["flush"] = 0 =>
       \A p \in 1 .. Len(chain) : \E r \in hungUp : call[r].inst = chain[p].inst

LossInv == StuckPerFault /\ ForgottenWhenDone /\ OnlyHungUp

LEMMA PolicyLength ==
  ASSUME NEW m \in Network!InternetModes
  PROVE  /\ Len(Network!RulesFor[m]) \in 1 .. 6 /\ Len(Network!RulesFor[m]) \in Nat
         /\ 1 \in 1 .. Len(Network!RulesFor[m])
         /\ Len(Network!RulesFor[m]) \in 1 .. Len(Network!RulesFor[m])
<1>1. Len(Network!RulesFor[m]) \in 1 .. 6
  BY ModesHaveRules
<1>2. \A n \in 1 .. 6 : n \in Nat /\ 1 \in 1 .. n /\ n \in 1 .. n
  OBVIOUS
<1> QED BY <1>1, <1>2

(* The same of the rules a provision call applies.                          *)
LEMMA RulesLength ==
  ASSUME NEW r \in Requests
  PROVE  /\ ModeOf[r] \in Network!InternetModes
         /\ Len(Rules(r)) \in 1 .. 6 /\ Len(Rules(r)) \in Nat
         /\ 1 \in 1 .. Len(Rules(r)) /\ Len(Rules(r)) \in 1 .. Len(Rules(r))
<1>1. ModeOf[r] \in Network!InternetModes
  BY ManagerAssumption
<1> QED BY <1>1, PolicyLength DEF Rules

----------------------------------------------------------------------------
(* The chain after a command                                                *)

Chained == [inst : Instances, rule : [match : SUBSET Network!Classes, target : Network!Targets]]

(* -D takes one element out, and leaves the others in their order.          *)
LEMMA DeletedElements ==
  ASSUME NEW S, chain \in Seq(S), NEW rule
  PROVE  /\ Network!Deleted(rule) \in Seq(S)
         /\ \/ Network!Deleted(rule) = chain /\ \A p \in 1 .. Len(chain) : chain[p] # rule
            \/ \E k \in 1 .. Len(chain) :
                 /\ chain[k] = rule
                 /\ Len(Network!Deleted(rule)) = Len(chain) - 1
                 /\ \A j \in 1 .. Len(chain) - 1 :
                      Network!Deleted(rule)[j] = IF j < k THEN chain[j] ELSE chain[j + 1]
<1>1. CASE \A p \in 1 .. Len(chain) : chain[p] # rule
  BY <1>1 DEF Network!Deleted
<1>2. CASE \E p \in 1 .. Len(chain) : chain[p] = rule
  <2> DEFINE T == {p \in 1 .. Len(chain) : chain[p] = rule}
             isFirst(k) == chain[k] = rule /\ \A l \in 1 .. k - 1 : chain[l] # rule
             k == CHOOSE k \in 1 .. Len(chain) : isFirst(k)
  <2>1. Len(chain) \in Nat /\ T \in SUBSET Nat /\ T # {}
    BY <1>2
  <2>2. PICK x \in T : \A y \in T : x <= y
    BY <2>1, Least
  <2>3. x \in 1 .. Len(chain) /\ isFirst(x)
    <3>1. \A l \in 1 .. x - 1 : l \in 1 .. Len(chain) /\ l < x
      BY <2>1
    <3>2. \A l \in 1 .. x - 1 : l \notin T
      BY <3>1, <2>2
    <3> QED BY <3>1, <3>2
  <2>4. k \in 1 .. Len(chain) /\ isFirst(k)
    BY <2>3
  <2>5. Network!Deleted(rule) = Network!RemoveAt(chain, k)
    BY <1>2 DEF Network!Deleted
  <2> HIDE DEF k
  <2> DEFINE front == SubSeq(chain, 1, k - 1)
             back == SubSeq(chain, k + 1, Len(chain))
  <2>6. Network!RemoveAt(chain, k) = front \o back
    BY DEF Network!RemoveAt
  <2>7. /\ front \in Seq(S) /\ Len(front) = k - 1
        /\ \A j \in 1 .. k - 1 : front[j] = chain[j]
    <3>1. \A i \in 1 .. k - 1 : chain[i] \in S
      BY <2>4, <2>1
    <3> QED BY <2>4, <2>1, <3>1, SubSeqProperties
  <2>8. /\ back \in Seq(S) /\ Len(back) = Len(chain) - k
        /\ \A j \in 1 .. Len(chain) - k : back[j] = chain[k + j]
    <3>1. \A i \in k + 1 .. Len(chain) : chain[i] \in S
      BY <2>4, <2>1
    <3> QED BY <2>4, <2>1, <3>1, SubSeqProperties
  <2>9. /\ front \o back \in Seq(S) /\ Len(front \o back) = Len(front) + Len(back)
        /\ \A j \in 1 .. Len(front) + Len(back) :
             (front \o back)[j] = IF j <= Len(front) THEN front[j] ELSE back[j - Len(front)]
    BY <2>7, <2>8, ConcatProperties
  <2> HIDE DEF front, back
  <2>10. ASSUME NEW j \in 1 .. Len(chain) - 1
         PROVE  (front \o back)[j] = IF j < k THEN chain[j] ELSE chain[j + 1]
    <3>1. CASE j < k
      <4>1. j \in 1 .. k - 1 /\ j \in 1 .. Len(front) + Len(back) /\ j <= Len(front)
        BY <3>1, <2>1, <2>4, <2>7, <2>8
      <4> QED BY <4>1, <3>1, <2>7, <2>9
    <3>2. CASE ~(j < k)
      <4>1. /\ j - Len(front) \in 1 .. Len(chain) - k /\ j \in 1 .. Len(front) + Len(back)
            /\ ~(j <= Len(front)) /\ k + (j - Len(front)) = j + 1
        BY <3>2, <2>1, <2>4, <2>7, <2>8
      <4> QED BY <4>1, <3>2, <2>8, <2>9
    <3> QED BY <3>1, <3>2
  <2>11. Len(front \o back) = Len(chain) - 1
    BY <2>1, <2>4, <2>7, <2>8, <2>9
  <2> QED BY <2>4, <2>5, <2>6, <2>9, <2>10, <2>11
<1> QED BY <1>1, <1>2

----------------------------------------------------------------------------
(* The calls                                                                *)

(* The types of the calls, the destroy calls and the rest.                  *)
CallType ==
  /\ call \in [Requests -> [pc : CallStates, inst : Instances \cup {None}, k : Nat]]
  /\ \A r \in Requests : call[r].pc = "applying" => call[r].k \in 1 .. Len(Rules(r))
DestroyType ==
  /\ destroy \in [Destroys -> [pc : DestroyStates, inst : Instances \cup {None},
                               mode : Network!InternetModes \cup {NoMode}, k : Nat]]
  /\ \A d \in Destroys :
       destroy[d].pc = "removing" => destroy[d].k \in 1 .. Len(Network!RulesFor[destroy[d].mode])
ProcessType ==
  process \in Processes /\ hungUp \subseteq Requests /\ faults \in [FaultKinds -> Nat]

LEMMA TypeParts ==
  TypeOK <=> Pool!TypeOK /\ Network!TypeOK /\ CallType /\ DestroyType /\ ProcessType
BY DEF TypeOK, CallType, DestroyType, ProcessType

(* A fault of one kind is counted, and the others are as they were.         *)
LEMMA FaultCounts ==
  ASSUME ProcessType, NEW f \in FaultKinds, Fault(f)
  PROVE  /\ faults' \in [FaultKinds -> Nat] /\ faults'[f] = faults[f] + 1
         /\ \A g \in FaultKinds \ {f} : faults'[g] = faults[g]
BY DEF ProcessType, Fault

(* The steps by what they do to the pool.                                   *)
LEMMA PoolTypeKeeps ==
  ASSUME Pool!TypeOK, [Next]_vars
  PROVE  Pool!TypeOK'
<1> USE DEF Pool!TypeOK, Pool!ClientStates
<1>1. CASE UNCHANGED poolVars
  BY <1>1 DEF poolVars
<1>2. ASSUME NEW r \in Requests, Pool!Ask(r) \/ Pool!Refuse(r) \/ Pool!End(r)
      PROVE  Pool!TypeOK'
  BY <1>2 DEF Pool!Ask, Pool!Refuse, Pool!End, Pool!Fresh
<1>3. ASSUME NEW r \in Requests, NEW i \in Instances, Pool!Grant(r, i)
      PROVE  Pool!TypeOK'
  BY <1>3 DEF Pool!Grant
<1>4. ASSUME NEW i \in Instances, Pool!Stock(i)
      PROVE  Pool!TypeOK'
  BY <1>4 DEF Pool!Stock, Pool!Fresh
<1>5. ASSUME NEW T, Pool!Drop(T)
      PROVE  Pool!TypeOK'
  BY <1>5 DEF Pool!Drop
<1>6. CASE Killed
  BY <1>6 DEF Killed
<1>7. ASSUME NEW d \in Destroys, NEW i \in Instances, Destroy(d, i)
      PROVE  UNCHANGED poolVars \/ \E r \in Requests : Pool!End(r)
  <2>1. CASE Holder(i)
    <3>1. owner[i] \in Requests
      BY <2>1 DEF Holder
    <3> QED BY <1>7, <2>1, <3>1 DEF Destroy
  <2> QED BY <1>7, <2>1 DEF Destroy
<1>8. ASSUME NEW r \in Requests, Checkout(r) \/ CheckoutRefused(r) \/ Apply(r) \/ ApplyFails(r)
      PROVE  UNCHANGED poolVars \/ Pool!Ask(r) \/ Pool!Refuse(r)
  BY <1>8 DEF Checkout, CheckoutRefused, Apply, ApplyFails
<1>9. ASSUME NEW r \in Requests, NEW i \in Instances, CheckedOut(r, i)
      PROVE  Pool!Grant(r, i)
  BY <1>9 DEF CheckedOut
<1>10. ASSUME NEW d \in Destroys, Remove(d) \/ RemoveFails(d) \/ Destroyed(d)
       PROVE  UNCHANGED poolVars \/ \E T : Pool!Drop(T)
  BY <1>10 DEF Remove, RemoveFails, Destroyed
<1>11. CASE PoolTimer
  BY <1>11, <1>4, <1>5 DEF PoolTimer
<1>12. CASE Start \/ Signal \/ Stop \/ Flush \/ Exit \/ Restart \/ UNCHANGED vars
  BY <1>12, <1>1 DEF Start, Signal, Stop, Flush, Exit, Restart, vars, poolVars
<1>13. CASE Stopped
  BY <1>13, <1>1, <1>5 DEF Stopped
<1> QED BY <1>1, <1>2, <1>3, <1>4, <1>5, <1>6, <1>7, <1>8, <1>9, <1>10, <1>11, <1>12, <1>13 DEF Next

(* The chain keeps rules of instances, and the Map policies.                *)
LEMMA NetworkTypeKeeps ==
  ASSUME TypeOK, OwnedByCall, [Next]_vars
  PROVE  Network!TypeOK'
<1> USE DEF Network!TypeOK
<1>1. Pool!TypeOK /\ Network!TypeOK /\ CallType /\ DestroyType /\ ProcessType
  BY TypeParts
<1>2. CASE UNCHANGED networkVars
  BY <1>1, <1>2 DEF networkVars
<1>3. ASSUME NEW r \in Requests, Apply(r)
      PROVE  Network!TypeOK'
  <2> DEFINE m == ModeOf[r]
             k == call[r].k
             rules == Network!RulesFor[m]
  <2>1. /\ call[r].pc = "applying" /\ chain' = Append(chain, Network!RuleAt(call[r].inst, m, k))
        /\ activePolicies' = IF k = Len(rules)
                             THEN [activePolicies EXCEPT ![call[r].inst] = m] ELSE activePolicies
        /\ hooked' = hooked
    BY <1>3 DEF Apply, Network!ApplyRule
  <2>2. m \in Network!InternetModes
    BY ManagerAssumption
  <2>3. /\ rules \in Seq([match : SUBSET Network!Classes, target : Network!Targets])
        /\ k \in 1 .. Len(rules)
    BY <1>1, <2>1, <2>2, ModesHaveRules DEF CallType, Rules
  <2>4. call[r].inst \in Instances
    BY <2>1 DEF OwnedByCall
  <2>5. rules[k] \in [match : SUBSET Network!Classes, target : Network!Targets]
    BY <2>3, ElementType
  <2>6. Network!RuleAt(call[r].inst, m, k) \in Chained
    BY <2>4, <2>5 DEF Network!RuleAt, Chained
  <2>7. chain' \in Seq(Chained)
    BY <2>1, <2>6, <1>1, AppendProperties DEF Chained
  <2>8. activePolicies' \in [Instances -> Network!InternetModes \cup {NoMode}]
    BY <2>1, <2>2, <2>4, <1>1
  <2> QED BY <2>1, <2>7, <2>8, <1>1 DEF Chained
<1>4. ASSUME NEW d \in Destroys, Remove(d) \/ RemoveFails(d)
      PROVE  Network!TypeOK'
  <2>1. chain' \in Seq(Chained)
    BY <1>1, <1>4, DeletedElements DEF Remove, RemoveFails, Network!RemoveRule,
       Network!RemoveRuleFails, Chained
  <2> QED BY <2>1, <1>1, <1>4 DEF Remove, RemoveFails, Network!RemoveRule,
             Network!RemoveRuleFails, Chained
<1>5. CASE Flush \/ Exit \/ Killed
  <2>1. <<>> \in Seq(Chained)
    OBVIOUS
  <2>2. /\ chain' = <<>> \/ chain' = chain
        /\ activePolicies' \in {activePolicies, [i \in Instances |-> NoMode]} /\ hooked' = hooked
    BY <1>5 DEF Flush, Exit, Killed, Network!FlushChain, Network!ClearPolicies, networkVars
  <2>3. chain' \in Seq(Chained)
    BY <2>1, <2>2, <1>1 DEF Chained
  <2> QED BY <2>2, <2>3, <1>1 DEF Chained
<1>6. ASSUME NEW r \in Requests, Checkout(r) \/ CheckoutRefused(r) \/ ApplyFails(r)
      PROVE  UNCHANGED networkVars
  BY <1>6 DEF Checkout, CheckoutRefused, ApplyFails
<1>7. ASSUME NEW r \in Requests, NEW i \in Instances, CheckedOut(r, i)
      PROVE  UNCHANGED networkVars
  BY <1>7 DEF CheckedOut
<1>8. ASSUME NEW d \in Destroys, NEW i \in Instances, Destroy(d, i)
      PROVE  UNCHANGED networkVars
  BY <1>8 DEF Destroy
<1>10. ASSUME NEW d \in Destroys, Destroyed(d)
       PROVE  UNCHANGED networkVars
  BY <1>10 DEF Destroyed
<1>9. CASE Start \/ PoolTimer \/ Signal \/ Stop \/ Stopped \/ Restart \/ UNCHANGED vars
  BY <1>9, <1>2 DEF Start, PoolTimer, Signal, Stop, Stopped, Restart, vars, networkVars,
     Network!Initialize, Network!networkVars
<1> HIDE DEF Network!TypeOK
<1> QED BY <1>2, <1>3, <1>4, <1>5, <1>6, <1>7, <1>8, <1>9, <1>10 DEF Next

(* A provision call stays within the rules of its mode.                     *)
LEMMA CallTypeKeeps ==
  ASSUME TypeOK, [Next]_vars
  PROVE  CallType'
<1>1. Pool!TypeOK /\ CallType
  BY TypeParts
<1> USE DEF CallType, CallStates
<1>2. CASE UNCHANGED call
  BY <1>1, <1>2
<1>3. ASSUME NEW r \in Requests, Checkout(r) \/ CheckoutRefused(r) \/ ApplyFails(r)
      PROVE  CallType'
  BY <1>1, <1>3 DEF Checkout, CheckoutRefused, ApplyFails
<1>4. ASSUME NEW r \in Requests, NEW i \in Instances, CheckedOut(r, i)
      PROVE  CallType'
  <2>1. 1 \in 1 .. Len(Rules(r))
    BY RulesLength
  <2>2. \/ call' = [call EXCEPT ![r] = [pc |-> "applying", inst |-> i, k |-> 1]]
        \/ call' = [call EXCEPT ![r] = [pc |-> "answered", inst |-> i, k |-> 0]]
    BY <1>4 DEF CheckedOut
  <2> QED BY <2>1, <2>2, <1>1
<1>5. ASSUME NEW r \in Requests, Apply(r)
      PROVE  CallType'
  <2>1. /\ Len(Rules(r)) \in Nat /\ call[r].k \in 1 .. Len(Rules(r))
        /\ call' = IF call[r].k = Len(Rules(r)) THEN [call EXCEPT ![r].pc = "answered"]
                   ELSE [call EXCEPT ![r].k = call[r].k + 1]
    BY <1>1, <1>5, RulesLength DEF Apply
  <2> QED BY <2>1, <1>1
<1>6. CASE Killed
  <2>1. call' = [r \in Requests |-> IF call[r].pc \in {"checkout", "applying"}
                                   THEN [call[r] EXCEPT !.pc = "failed"] ELSE call[r]]
    BY <1>6 DEF Killed
  <2>2. ASSUME NEW r \in Requests
        PROVE  /\ call'[r] \in [pc : CallStates, inst : Instances \cup {None}, k : Nat]
               /\ call'[r].pc # "applying"
    <3>1. call[r] \in [pc : CallStates, inst : Instances \cup {None}, k : Nat]
      BY <1>1
    <3>2. CASE call[r].pc \in {"checkout", "applying"}
      <4>1. call'[r] = [call[r] EXCEPT !.pc = "failed"]
        BY <2>1, <3>2
      <4> QED BY <3>1, <4>1
    <3>3. CASE call[r].pc \notin {"checkout", "applying"}
      <4>1. call'[r] = call[r]
        BY <2>1, <3>3
      <4> QED BY <3>1, <3>3, <4>1
    <3> QED BY <3>2, <3>3
  <2>3. call' \in [Requests -> [pc : CallStates, inst : Instances \cup {None}, k : Nat]]
    BY <2>1, <2>2
  <2> QED BY <2>2, <2>3
<1>7. ASSUME NEW d \in Destroys, NEW i \in Instances, Destroy(d, i)
      PROVE  UNCHANGED call
  BY <1>7 DEF Destroy
<1>8. CASE Start \/ PoolTimer \/ Signal \/ Stop \/ Stopped \/ Flush \/ Exit \/ Restart \/ UNCHANGED vars
  BY <1>8, <1>2 DEF Start, PoolTimer, Signal, Stop, Stopped, Flush, Exit, Restart, vars
<1>9. ASSUME NEW d \in Destroys, Remove(d) \/ RemoveFails(d) \/ Destroyed(d)
      PROVE  UNCHANGED call
  BY <1>9 DEF Remove, RemoveFails, Destroyed
<1> HIDE DEF CallType, CallStates
<1> QED BY <1>2, <1>3, <1>4, <1>5, <1>6, <1>7, <1>8, <1>9 DEF Next

(* A destroy call stays within the rules of the policy it read.             *)
LEMMA DestroyTypeKeeps ==
  ASSUME TypeOK, [Next]_vars
  PROVE  DestroyType'
<1>1. DestroyType /\ Network!TypeOK
  BY TypeParts
<1> USE DEF DestroyType, DestroyStates
<1>2. CASE UNCHANGED destroy
  BY <1>1, <1>2
<1>3. ASSUME NEW d \in Destroys, Remove(d) \/ RemoveFails(d)
      PROVE  DestroyType'
  <2>1. /\ destroy[d].pc = "removing"
        /\ destroy' = [destroy EXCEPT
             ![d].pc = IF destroy[d].k = 1 THEN "destroying" ELSE "removing", ![d].k = @ - 1]
    BY <1>3 DEF Remove, RemoveFails, Removed
  <2>2. destroy[d].k \in 1 .. Len(Network!RulesFor[destroy[d].mode]) /\ destroy[d].k - 1 \in Nat
    BY <2>1, <1>1
  <2> QED BY <2>1, <2>2, <1>1
<1>4. ASSUME NEW d \in Destroys, Destroyed(d)
      PROVE  DestroyType'
  BY <1>1, <1>4 DEF Destroyed
<1>5. ASSUME NEW d \in Destroys, NEW i \in Instances, Destroy(d, i)
      PROVE  DestroyType'
  <2> DEFINE m == activePolicies[i]
  <2>1. destroy' = [destroy EXCEPT ![d] =
                      IF m = NoMode THEN [pc |-> "destroying", inst |-> i, mode |-> NoMode, k |-> 0]
                      ELSE [pc |-> "removing", inst |-> i, mode |-> m,
                            k |-> Len(Network!RulesFor[m])]]
    BY <1>5 DEF Destroy
  <2>2. m \in Network!InternetModes \cup {NoMode}
    BY <1>1 DEF Network!TypeOK
  <2>3. m # NoMode => Len(Network!RulesFor[m]) \in Nat
                      /\ Len(Network!RulesFor[m]) \in 1 .. Len(Network!RulesFor[m])
    BY <2>2, PolicyLength
  <2> HIDE DEF m
  <2>4. CASE m = NoMode
    <3>1. destroy' = [destroy EXCEPT ![d] =
                        [pc |-> "destroying", inst |-> i, mode |-> NoMode, k |-> 0]]
      BY <2>1, <2>4
    <3> QED BY <3>1, <1>1
  <2>5. CASE m # NoMode
    <3>1. destroy' = [destroy EXCEPT ![d] =
                        [pc |-> "removing", inst |-> i, mode |-> m, k |-> Len(Network!RulesFor[m])]]
      BY <2>1, <2>5
    <3> QED BY <3>1, <2>2, <2>3, <2>5, <1>1
  <2> QED BY <2>4, <2>5
<1>6. CASE Killed
  BY <1>1, <1>6 DEF Killed
<1>7. ASSUME NEW r \in Requests, Checkout(r) \/ CheckoutRefused(r) \/ Apply(r) \/ ApplyFails(r)
      PROVE  UNCHANGED destroy
  BY <1>7 DEF Checkout, CheckoutRefused, Apply, ApplyFails
<1>8. ASSUME NEW r \in Requests, NEW i \in Instances, CheckedOut(r, i)
      PROVE  UNCHANGED destroy
  BY <1>8 DEF CheckedOut
<1>9. CASE Start \/ PoolTimer \/ Signal \/ Stop \/ Stopped \/ Flush \/ Exit \/ Restart \/ UNCHANGED vars
  BY <1>9, <1>2 DEF Start, PoolTimer, Signal, Stop, Stopped, Flush, Exit, Restart, vars
<1> HIDE DEF DestroyType, DestroyStates
<1> QED BY <1>2, <1>3, <1>4, <1>5, <1>6, <1>7, <1>8, <1>9 DEF Next

(* Faults are counted, and only counted.                                    *)
LEMMA ProcessTypeKeeps ==
  ASSUME ProcessType, [Next]_vars
  PROVE  ProcessType' /\ \A f \in FaultKinds : faults'[f] >= faults[f]
<1> USE DEF ProcessType, Processes
<1>1. faults' = faults \/ \E f \in FaultKinds : Fault(f)
  <2> USE DEF FaultKinds
  <2>1. ASSUME NEW r \in Requests, Checkout(r) \/ CheckoutRefused(r) \/ Apply(r) \/ ApplyFails(r)
        PROVE  faults' = faults \/ Fault("apply")
    BY <2>1 DEF Checkout, CheckoutRefused, Apply, ApplyFails
  <2>2. ASSUME NEW r \in Requests, NEW i \in Instances, CheckedOut(r, i)
        PROVE  faults' = faults
    BY <2>2 DEF CheckedOut
  <2>3. ASSUME NEW d \in Destroys, Remove(d) \/ RemoveFails(d) \/ Destroyed(d)
        PROVE  faults' = faults \/ Fault("remove")
    BY <2>3 DEF Remove, RemoveFails, Destroyed
  <2>4. ASSUME NEW d \in Destroys, NEW i \in Instances, Destroy(d, i)
        PROVE  faults' = faults
    BY <2>4 DEF Destroy
  <2>5. CASE Start \/ PoolTimer \/ Signal \/ Stop \/ Stopped \/ Restart \/ UNCHANGED vars
    BY <2>5 DEF Start, PoolTimer, Signal, Stop, Stopped, Restart, vars
  <2>6. CASE Flush \/ Exit \/ Killed
    BY <2>6 DEF Flush, Exit, Killed
  <2> QED BY <2>1, <2>2, <2>3, <2>4, <2>5, <2>6 DEF Next
<1>2. process' \in Processes
  <2>1. \/ process' = process
        \/ process' \in {"starting", "up", "closing", "stopping", "flushing", "clearing", "exited",
                         "killed"}
    <3>1. ASSUME NEW r \in Requests, Checkout(r) \/ CheckoutRefused(r) \/ Apply(r) \/ ApplyFails(r)
          PROVE  process' = process
      BY <3>1 DEF Checkout, CheckoutRefused, Apply, ApplyFails
    <3>2. ASSUME NEW r \in Requests, NEW i \in Instances, CheckedOut(r, i)
          PROVE  process' = process
      BY <3>2 DEF CheckedOut
    <3>3. ASSUME NEW d \in Destroys, Remove(d) \/ RemoveFails(d) \/ Destroyed(d)
          PROVE  process' = process
      BY <3>3 DEF Remove, RemoveFails, Destroyed
    <3>4. ASSUME NEW d \in Destroys, NEW i \in Instances, Destroy(d, i)
          PROVE  process' = process
      BY <3>4 DEF Destroy
    <3> QED BY <3>1, <3>2, <3>3, <3>4 DEF Next, Start, PoolTimer, Signal, Stop, Stopped, Flush,
               Exit, Killed, Restart, vars
  <2> QED BY <2>1
<1>4. hungUp' \subseteq Requests
  <2>1. hungUp' = hungUp \/ Stop
    <3>1. ASSUME NEW r \in Requests, Checkout(r) \/ CheckoutRefused(r) \/ Apply(r) \/ ApplyFails(r)
          PROVE  hungUp' = hungUp
      BY <3>1 DEF Checkout, CheckoutRefused, Apply, ApplyFails
    <3>2. ASSUME NEW r \in Requests, NEW i \in Instances, CheckedOut(r, i)
          PROVE  hungUp' = hungUp
      BY <3>2 DEF CheckedOut
    <3>3. ASSUME NEW d \in Destroys, Remove(d) \/ RemoveFails(d) \/ Destroyed(d)
          PROVE  hungUp' = hungUp
      BY <3>3 DEF Remove, RemoveFails, Destroyed
    <3>4. ASSUME NEW d \in Destroys, NEW i \in Instances, Destroy(d, i)
          PROVE  hungUp' = hungUp
      BY <3>4 DEF Destroy
    <3> QED BY <3>1, <3>2, <3>3, <3>4 DEF Next, Start, PoolTimer, Signal, Stopped, Flush,
               Exit, Killed, Restart, vars
  <2> QED BY <2>1 DEF Stop
<1>3. faults' = faults \/ \E f \in FaultKinds : /\ faults' \in [FaultKinds -> Nat]
                                               /\ faults'[f] = faults[f] + 1
                                               /\ \A g \in FaultKinds \ {f} : faults'[g] = faults[g]
  BY <1>1, FaultCounts
<1> QED BY <1>2, <1>3, <1>4

LEMMA TypeKeeps ==
  ASSUME TypeOK, OwnedByCall, [Next]_vars
  PROVE  TypeOK'
<1>1. (Pool!TypeOK /\ Network!TypeOK /\ CallType /\ DestroyType /\ ProcessType)'
  BY TypeParts, PoolTypeKeeps, NetworkTypeKeeps, CallTypeKeeps, DestroyTypeKeeps, ProcessTypeKeeps
<1> QED BY <1>1 DEF TypeOK, CallType, DestroyType, ProcessType

(* The steps the invariants do not notice.                                  *)
Quiet ==
  /\ UNCHANGED <<owner, chain, activePolicies, call, destroy, faults>>
  /\ \/ process \notin {"clearing", "exited"} /\ process' \notin {"clearing", "exited"}
     \/ process' = process

LEMMA Cases ==
  ASSUME [Next]_vars
  PROVE  \/ Quiet
         \/ \E r \in Requests : \/ Checkout(r) \/ CheckoutRefused(r) \/ Apply(r) \/ ApplyFails(r)
                                \/ \E i \in Instances : CheckedOut(r, i)
         \/ \E d \in Destroys : \/ Remove(d) \/ RemoveFails(d) \/ Destroyed(d)
                                \/ \E i \in Instances : Destroy(d, i)
         \/ Flush \/ Exit \/ Killed
<1>1. CASE Start \/ Signal \/ Stop \/ Restart \/ UNCHANGED vars
  BY <1>1 DEF Start, Signal, Stop, Restart, vars, poolVars, networkVars, Network!Initialize,
     Network!networkVars, Quiet
<1>2. CASE Stopped
  BY <1>2 DEF Stopped, Pool!Drop, poolVars, networkVars, Quiet
<1>3. CASE PoolTimer
  BY <1>3 DEF PoolTimer, Pool!Drop, Pool!Stock, poolVars, networkVars, Quiet
<1> QED BY <1>1, <1>2, <1>3 DEF Next

(* What the steps of a provision call do to its record; of the other calls  *)
(* they change nothing.                                                     *)
LEMMA CallSteps ==
  ASSUME TypeOK, NEW r \in Requests
  PROVE  /\ Checkout(r) => /\ call[r].pc = "idle" /\ call' = [call EXCEPT ![r].pc = "checkout"]
                           /\ UNCHANGED <<owner, chain, activePolicies, destroy, process, faults>>
         /\ CheckoutRefused(r) =>
              /\ call[r].pc = "checkout" /\ call' = [call EXCEPT ![r].pc = "failed"]
              /\ UNCHANGED <<owner, chain, activePolicies, destroy, process, faults>>
         /\ ApplyFails(r) =>
              /\ call[r].pc = "applying" /\ call' = [call EXCEPT ![r].pc = "failed"]
              /\ IF Network!Refused(Rules(r)[call[r].k]) THEN faults' = faults ELSE Fault("apply")
              /\ UNCHANGED <<owner, chain, activePolicies, destroy, process>>
         /\ \A i \in Instances : CheckedOut(r, i) =>
              /\ call[r].pc = "checkout" /\ owner[i] = None /\ owner' = [owner EXCEPT ![i] = r]
              /\ \/ call' = [call EXCEPT ![r] = [pc |-> "applying", inst |-> i, k |-> 1]]
                 \/ call' = [call EXCEPT ![r] = [pc |-> "answered", inst |-> i, k |-> 0]]
              /\ UNCHANGED <<chain, activePolicies, destroy, process, faults>>
         /\ Apply(r) =>
              /\ Alive /\ call[r].pc = "applying"
              /\ call' = IF call[r].k = Len(Rules(r)) THEN [call EXCEPT ![r].pc = "answered"]
                         ELSE [call EXCEPT ![r].k = call[r].k + 1]
              /\ ~Network!Refused(Rules(r)[call[r].k])
              /\ Network!ApplyRule(call[r].inst, ModeOf[r], call[r].k)
              /\ UNCHANGED <<owner, destroy, process, faults>>
<1> USE DEF poolVars, networkVars
<1>1. Checkout(r) => /\ call[r].pc = "idle" /\ call' = [call EXCEPT ![r].pc = "checkout"]
                     /\ UNCHANGED <<owner, chain, activePolicies, destroy, process, faults>>
  BY DEF Checkout, Pool!Ask
<1>2. CheckoutRefused(r) =>
        /\ call[r].pc = "checkout" /\ call' = [call EXCEPT ![r].pc = "failed"]
        /\ UNCHANGED <<owner, chain, activePolicies, destroy, process, faults>>
  BY DEF CheckoutRefused, Pool!Refuse
<1>3. ApplyFails(r) =>
        /\ call[r].pc = "applying" /\ call' = [call EXCEPT ![r].pc = "failed"]
        /\ IF Network!Refused(Rules(r)[call[r].k]) THEN faults' = faults ELSE Fault("apply")
        /\ UNCHANGED <<owner, chain, activePolicies, destroy, process>>
  BY DEF ApplyFails
<1>4. \A i \in Instances : CheckedOut(r, i) =>
        /\ call[r].pc = "checkout" /\ owner[i] = None /\ owner' = [owner EXCEPT ![i] = r]
        /\ \/ call' = [call EXCEPT ![r] = [pc |-> "applying", inst |-> i, k |-> 1]]
           \/ call' = [call EXCEPT ![r] = [pc |-> "answered", inst |-> i, k |-> 0]]
        /\ UNCHANGED <<chain, activePolicies, destroy, process, faults>>
  BY DEF CheckedOut, Pool!Grant
<1>5. Apply(r) =>
        /\ Alive /\ call[r].pc = "applying"
        /\ call' = IF call[r].k = Len(Rules(r)) THEN [call EXCEPT ![r].pc = "answered"]
                   ELSE [call EXCEPT ![r].k = call[r].k + 1]
        /\ ~Network!Refused(Rules(r)[call[r].k])
        /\ Network!ApplyRule(call[r].inst, ModeOf[r], call[r].k)
        /\ UNCHANGED <<owner, destroy, process, faults>>
  BY DEF Apply
<1> QED BY <1>1, <1>2, <1>3, <1>4, <1>5

(* The same of a destroy call.                                              *)
LEMMA DestroySteps ==
  ASSUME TypeOK, NEW d \in Destroys
  PROVE  /\ Remove(d) \/ RemoveFails(d) =>
              /\ Alive /\ destroy[d].pc = "removing"
              /\ destroy' = [destroy EXCEPT
                   ![d].pc = IF destroy[d].k = 1 THEN "destroying" ELSE "removing",
                   ![d].k = destroy[d].k - 1]
              /\ activePolicies' = IF destroy[d].k = 1
                                   THEN [activePolicies EXCEPT ![destroy[d].inst] = NoMode]
                                   ELSE activePolicies
              /\ UNCHANGED <<owner, call, process>>
         /\ Remove(d) => /\ chain' = Network!Deleted(
                                       Network!RuleAt(destroy[d].inst, destroy[d].mode, destroy[d].k))
                         /\ faults' = faults
         /\ RemoveFails(d) => chain' = chain /\ Fault("remove")
         /\ Destroyed(d) =>
              /\ destroy[d].pc = "destroying" /\ destroy' = [destroy EXCEPT ![d].pc = "answered"]
              /\ UNCHANGED <<owner, chain, activePolicies, call, process, faults>>
         /\ \A i \in Instances : Destroy(d, i) =>
              /\ process \in {"up", "closing"} /\ destroy[d].pc = "idle"
              /\ destroy' = [destroy EXCEPT ![d] =
                   IF activePolicies[i] = NoMode
                   THEN [pc |-> "destroying", inst |-> i, mode |-> NoMode, k |-> 0]
                   ELSE [pc |-> "removing", inst |-> i, mode |-> activePolicies[i],
                         k |-> Len(Network!RulesFor[activePolicies[i]])]]
              /\ UNCHANGED <<owner, chain, activePolicies, call, process, faults>>
<1> USE DEF poolVars, networkVars
<1>1. Remove(d) \/ RemoveFails(d) =>
        /\ Alive /\ destroy[d].pc = "removing"
        /\ destroy' = [destroy EXCEPT
             ![d].pc = IF destroy[d].k = 1 THEN "destroying" ELSE "removing",
             ![d].k = destroy[d].k - 1]
        /\ activePolicies' = IF destroy[d].k = 1
                             THEN [activePolicies EXCEPT ![destroy[d].inst] = NoMode]
                             ELSE activePolicies
        /\ UNCHANGED <<owner, call, process>>
  BY DEF Remove, RemoveFails, Removed, Network!RemoveRule, Network!RemoveRuleFails
<1>2. Remove(d) => /\ chain' = Network!Deleted(
                                 Network!RuleAt(destroy[d].inst, destroy[d].mode, destroy[d].k))
                   /\ faults' = faults
  BY DEF Remove, Network!RemoveRule
<1>3. RemoveFails(d) => chain' = chain /\ Fault("remove")
  BY DEF RemoveFails, Network!RemoveRuleFails
<1>4. Destroyed(d) =>
        /\ destroy[d].pc = "destroying" /\ destroy' = [destroy EXCEPT ![d].pc = "answered"]
        /\ UNCHANGED <<owner, chain, activePolicies, call, process, faults>>
  BY DEF Destroyed, Pool!Drop
<1>5. \A i \in Instances : Destroy(d, i) =>
        /\ process \in {"up", "closing"} /\ destroy[d].pc = "idle"
        /\ destroy' = [destroy EXCEPT ![d] =
             IF activePolicies[i] = NoMode
             THEN [pc |-> "destroying", inst |-> i, mode |-> NoMode, k |-> 0]
             ELSE [pc |-> "removing", inst |-> i, mode |-> activePolicies[i],
                   k |-> Len(Network!RulesFor[activePolicies[i]])]]
        /\ UNCHANGED <<owner, chain, activePolicies, call, process, faults>>
  BY DEF Destroy, Pool!End
<1> QED BY <1>1, <1>2, <1>3, <1>4, <1>5

(* Shutdown's flush, and the end of the process.                            *)
LEMMA EndSteps ==
  /\ Flush => /\ process = "flushing" /\ process' = "clearing"
              /\ UNCHANGED <<owner, call, destroy, activePolicies>>
              /\ \/ chain' = <<>> /\ faults' = faults
                 \/ chain' = chain /\ Fault("flush")
  /\ Exit => /\ process = "clearing" /\ process' = "exited"
             /\ activePolicies' = [i \in Instances |-> NoMode]
             /\ UNCHANGED <<owner, chain, call, destroy, faults>>
  /\ Killed => /\ Alive /\ Fault("exit") /\ UNCHANGED <<owner, chain>>
               /\ process' = IF process = "clearing" THEN "exited" ELSE "killed"
               /\ activePolicies' = [i \in Instances |-> NoMode]
               /\ call' = [r \in Requests |-> IF call[r].pc \in {"checkout", "applying"}
                                              THEN [call[r] EXCEPT !.pc = "failed"] ELSE call[r]]
               /\ destroy' = [d \in Destroys |->
                                IF destroy[d].pc \in {"removing", "destroying"}
                                THEN [destroy[d] EXCEPT !.pc = "failed"] ELSE destroy[d]]
<1> USE DEF Network!FlushChain, Network!ClearPolicies, poolVars, networkVars
<1>1. Flush => /\ process = "flushing" /\ process' = "clearing"
               /\ UNCHANGED <<owner, call, destroy, activePolicies>>
               /\ \/ chain' = <<>> /\ faults' = faults
                  \/ chain' = chain /\ Fault("flush")
  BY DEF Flush
<1>2. Exit => /\ process = "clearing" /\ process' = "exited"
              /\ activePolicies' = [i \in Instances |-> NoMode]
              /\ UNCHANGED <<owner, chain, call, destroy, faults>>
  BY DEF Exit
<1> QED BY <1>1, <1>2 DEF Killed

(* After a kill, a call has the place it had, or has failed.                *)
LEMMA AfterKill ==
  ASSUME TypeOK, Killed
  PROVE  /\ \A r \in Requests :
              /\ call'[r].inst = call[r].inst /\ call'[r].k = call[r].k
              /\ call'[r].pc = IF call[r].pc \in {"checkout", "applying"} THEN "failed"
                               ELSE call[r].pc
         /\ \A d \in Destroys :
              /\ destroy'[d].inst = destroy[d].inst /\ destroy'[d].mode = destroy[d].mode
              /\ destroy'[d].k = destroy[d].k
              /\ destroy'[d].pc = IF destroy[d].pc \in {"removing", "destroying"} THEN "failed"
                                  ELSE destroy[d].pc
<1>1. CallType /\ DestroyType
  BY TypeParts
<1>2. ASSUME NEW r \in Requests
      PROVE  /\ call'[r].inst = call[r].inst /\ call'[r].k = call[r].k
             /\ call'[r].pc = IF call[r].pc \in {"checkout", "applying"} THEN "failed"
                              ELSE call[r].pc
  <2>1. call[r] \in [pc : CallStates, inst : Instances \cup {None}, k : Nat]
    BY <1>1 DEF CallType
  <2>2. call'[r] = IF call[r].pc \in {"checkout", "applying"}
                   THEN [call[r] EXCEPT !.pc = "failed"] ELSE call[r]
    BY EndSteps
  <2> QED BY <2>1, <2>2
<1>3. ASSUME NEW d \in Destroys
      PROVE  /\ destroy'[d].inst = destroy[d].inst /\ destroy'[d].mode = destroy[d].mode
             /\ destroy'[d].k = destroy[d].k
             /\ destroy'[d].pc = IF destroy[d].pc \in {"removing", "destroying"} THEN "failed"
                                 ELSE destroy[d].pc
  <2>1. destroy[d] \in [pc : DestroyStates, inst : Instances \cup {None},
                        mode : Network!InternetModes \cup {NoMode}, k : Nat]
    BY <1>1 DEF DestroyType
  <2>2. destroy'[d] = IF destroy[d].pc \in {"removing", "destroying"}
                      THEN [destroy[d] EXCEPT !.pc = "failed"] ELSE destroy[d]
    BY EndSteps
  <2> QED BY <2>1, <2>2
<1> QED BY <1>2, <1>3

(* An instance stays with the call it was granted to, and an answered call  *)
(* does not change.                                                         *)
LEMMA AnsweredStays ==
  ASSUME TypeOK, [Next]_vars
  PROVE  /\ owner' \in [Instances -> Requests \cup {None}]
         /\ \A i \in Instances : owner[i] # None => owner'[i] = owner[i]
         /\ \A r \in Requests : call[r].pc = "answered" => call'[r] = call[r]
<1>1. owner \in [Instances -> Requests \cup {None}] /\ CallType
  BY TypeParts DEF Pool!TypeOK
<1>2. owner' \in [Instances -> Requests \cup {None}]
  BY PoolTypeKeeps, TypeParts DEF Pool!TypeOK
<1>3. CASE UNCHANGED <<owner, call>>
  BY <1>1, <1>2, <1>3
<1>4. ASSUME NEW q \in Requests, Checkout(q) \/ CheckoutRefused(q) \/ Apply(q) \/ ApplyFails(q)
      PROVE  /\ owner' = owner
             /\ \A r \in Requests : call[r].pc = "answered" => call'[r] = call[r]
  BY <1>1, <1>4, CallSteps DEF CallType
<1>5. ASSUME NEW q \in Requests, NEW i \in Instances, CheckedOut(q, i)
      PROVE  /\ owner[i] = None /\ owner' = [owner EXCEPT ![i] = q]
             /\ \A r \in Requests : call[r].pc = "answered" => call'[r] = call[r]
  BY <1>1, <1>5, CallSteps DEF CallType
<1>6. CASE Killed
  BY <1>1, <1>2, <1>6, EndSteps
<1>7. UNCHANGED <<owner, call>> \/ Killed
      \/ \E q \in Requests : \/ Checkout(q) \/ CheckoutRefused(q) \/ Apply(q) \/ ApplyFails(q)
                             \/ \E i \in Instances : CheckedOut(q, i)
  <2>1. ASSUME NEW d \in Destroys, Remove(d) \/ RemoveFails(d) \/ Destroyed(d)
        PROVE  UNCHANGED <<owner, call>>
    BY <2>1, DestroySteps
  <2>2. ASSUME NEW d \in Destroys, NEW i \in Instances, Destroy(d, i)
        PROVE  UNCHANGED <<owner, call>>
    BY <2>2, DestroySteps
  <2>3. Flush \/ Exit \/ Quiet => UNCHANGED <<owner, call>>
    BY EndSteps DEF Quiet
  <2> QED BY <2>1, <2>2, <2>3, Cases
<1>8. CASE \E q \in Requests : \E i \in Instances : CheckedOut(q, i)
  BY <1>1, <1>2, <1>5, <1>8
<1>9. CASE \E q \in Requests : Checkout(q) \/ CheckoutRefused(q) \/ Apply(q) \/ ApplyFails(q)
  BY <1>1, <1>2, <1>4, <1>9
<1> QED BY <1>3, <1>6, <1>7, <1>8, <1>9

(* What OwnedByCall says of one call.                                       *)
Owns(r) ==
  /\ \A i \in Instances : owner[i] = r <=> call[r].inst = i
  /\ call[r].pc \in {"idle", "checkout"} => call[r].inst = None /\ call[r].k = 0
  /\ call[r].pc = "applying" => call[r].k > 0
  /\ call[r].k > 0 => call[r].inst \in Instances
  /\ call[r].k <= Len(Rules(r))
  /\ call[r].pc = "answered" /\ call[r].k > 0 => call[r].k = Len(Rules(r))

LEMMA OwnedByCallKeeps ==
  ASSUME TypeOK, OwnedByCall, [Next]_vars
  PROVE  OwnedByCall'
<1>1. owner \in [Instances -> Requests \cup {None}] /\ CallType /\ None \notin Requests \cup Instances
  BY TypeParts, ManagerAssumption DEF Pool!TypeOK
<1>2. \A r \in Requests : Owns(r) /\ Len(Rules(r)) \in 1 .. 6
  BY RulesLength DEF OwnedByCall, Owns
<1> SUFFICES ASSUME NEW r \in Requests PROVE Owns(r)'
  BY DEF OwnedByCall, Owns
<1>3. call[r] \in [pc : CallStates, inst : Instances \cup {None}, k : Nat]
  BY <1>1 DEF CallType
<1>4. CASE owner' = owner /\ call'[r] = call[r]
  BY <1>2, <1>4 DEF Owns, Rules
<1>5. ASSUME NEW q \in Requests, Checkout(q) \/ CheckoutRefused(q) \/ ApplyFails(q)
      PROVE  Owns(r)'
  <2>1. CASE q # r
    <3>1. owner' = owner /\ call'[r] = call[r]
      BY <1>1, <1>5, <2>1, CallSteps DEF CallType
    <3> QED BY <1>4, <3>1
  <2>2. CASE q = r
    <3>1. /\ owner' = owner /\ call'[r].inst = call[r].inst /\ call'[r].k = call[r].k
          /\ \/ call[r].pc = "idle" /\ call'[r].pc = "checkout"
             \/ call'[r].pc = "failed"
      BY <1>1, <1>3, <1>5, <2>2, CallSteps DEF CallType
    <3> QED BY <1>2, <3>1 DEF Owns, Rules
  <2> QED BY <2>1, <2>2
<1>6. ASSUME NEW q \in Requests, NEW i \in Instances, CheckedOut(q, i)
      PROVE  Owns(r)'
  <2>1. /\ call[q].pc = "checkout" /\ owner[i] = None /\ owner' = [owner EXCEPT ![i] = q]
        /\ \/ call' = [call EXCEPT ![q] = [pc |-> "applying", inst |-> i, k |-> 1]]
           \/ call' = [call EXCEPT ![q] = [pc |-> "answered", inst |-> i, k |-> 0]]
    BY <1>6, CallSteps
  <2>2. CASE q # r
    <3>1. call'[r] = call[r] /\ call[r].inst # i
      BY <1>1, <1>2, <2>1, <2>2 DEF CallType, Owns
    <3>2. \A j \in Instances : owner'[j] = r <=> owner[j] = r
      BY <1>1, <2>1, <2>2
    <3> QED BY <1>2, <3>1, <3>2 DEF Owns, Rules
  <2>3. CASE q = r
    <3>1. \A j \in Instances : owner[j] # r
      BY <1>1, <1>2, <2>1, <2>3 DEF Owns
    <3>2. \A j \in Instances : owner'[j] = r <=> j = i
      BY <1>1, <2>1, <2>3, <3>1
    <3>3. /\ call'[r].inst = i
          /\ \/ call'[r].pc = "applying" /\ call'[r].k = 1
             \/ call'[r].pc = "answered" /\ call'[r].k = 0
      BY <1>1, <2>1, <2>3 DEF CallType
    <3>4. \A n \in 1 .. 6 : 0 <= n /\ 1 <= n
      OBVIOUS
    <3>5. 0 <= Len(Rules(r)) /\ 1 <= Len(Rules(r))
      BY <1>2, <3>4
    <3>6. Rules(r)' = Rules(r)
      BY DEF Rules
    <3> QED BY <1>1, <1>2, <3>2, <3>3, <3>5, <3>6 DEF Owns
  <2> QED BY <2>2, <2>3
<1>7. ASSUME NEW q \in Requests, Apply(q)
      PROVE  Owns(r)'
  <2>1. CASE q # r
    <3>1. owner' = owner /\ call'[r] = call[r]
      BY <1>1, <1>7, <2>1, CallSteps DEF CallType
    <3> QED BY <1>4, <3>1
  <2>2. CASE q = r
    <3>1. /\ owner' = owner /\ call[r].pc = "applying" /\ call[r].k \in 1 .. Len(Rules(r))
          /\ call' = IF call[r].k = Len(Rules(r)) THEN [call EXCEPT ![r].pc = "answered"]
                     ELSE [call EXCEPT ![r].k = call[r].k + 1]
      BY <1>1, <1>7, <2>2, CallSteps DEF CallType
    <3>2. Rules(r)' = Rules(r) /\ Len(Rules(r)) \in Nat
      BY <1>2 DEF Rules
    <3>3. CASE call[r].k = Len(Rules(r))
      <4>1. call'[r].pc = "answered" /\ call'[r].k = call[r].k /\ call'[r].inst = call[r].inst
        BY <1>1, <1>3, <3>1, <3>3 DEF CallType
      <4> QED BY <1>2, <3>1, <3>2, <3>3, <4>1 DEF Owns
    <3>4. CASE call[r].k # Len(Rules(r))
      <4>1. call'[r].pc = "applying" /\ call'[r].k = call[r].k + 1 /\ call'[r].inst = call[r].inst
        BY <1>1, <1>3, <3>1, <3>4 DEF CallType
      <4> QED BY <1>2, <3>1, <3>2, <3>4, <4>1 DEF Owns
    <3> QED BY <3>3, <3>4
  <2> QED BY <2>1, <2>2
<1>8. CASE Killed
  <2>1. /\ owner' = owner /\ call'[r].inst = call[r].inst /\ call'[r].k = call[r].k
        /\ call'[r].pc = IF call[r].pc \in {"checkout", "applying"} THEN "failed" ELSE call[r].pc
    BY <1>8, AfterKill, EndSteps
  <2>2. Rules(r)' = Rules(r)
    BY DEF Rules
  <2> QED BY <1>2, <2>1, <2>2 DEF Owns
<1>9. ASSUME NEW d \in Destroys, Remove(d) \/ RemoveFails(d) \/ Destroyed(d)
      PROVE  owner' = owner /\ call' = call
  BY <1>9, DestroySteps
<1>10. ASSUME NEW d \in Destroys, NEW i \in Instances, Destroy(d, i)
       PROVE  owner' = owner /\ call' = call
  BY <1>10, DestroySteps
<1>11. CASE Flush \/ Exit \/ Quiet
  BY <1>4, <1>11, EndSteps DEF Quiet
<1> HIDE DEF Owns
<1> QED BY <1>4, <1>5, <1>6, <1>7, <1>8, <1>9, <1>10, <1>11, Cases

(* What RemovesWhole says of one destroy call.                              *)
Removes(d) ==
  /\ destroy[d].pc = "idle" => destroy[d].mode = NoMode
  /\ destroy[d].pc = "removing" => destroy[d].mode # NoMode
  /\ destroy[d].mode # NoMode =>
       /\ destroy[d].inst \in Instances /\ Answered(destroy[d].inst)
       /\ destroy[d].mode = ModeFor(destroy[d].inst)
       /\ destroy[d].k <= Len(Policy(destroy[d].inst))
       /\ destroy[d].pc \in {"destroying", "answered"} => destroy[d].k = 0

LEMMA RemovesWholeKeeps ==
  ASSUME CallInv, [Next]_vars
  PROVE  RemovesWhole'
<1>1. /\ CallType /\ DestroyType /\ TypeOK
      /\ owner \in [Instances -> Requests \cup {None}]
      /\ activePolicies \in [Instances -> Network!InternetModes \cup {NoMode}]
  BY TypeParts DEF CallInv, Pool!TypeOK, Network!TypeOK
<1>2. \A d \in Destroys : Removes(d)
  BY DEF CallInv, RemovesWhole, Removes
<1>3. ASSUME NEW i \in Instances, Answered(i)
      PROVE  Answered(i)' /\ ModeFor(i)' = ModeFor(i) /\ Policy(i)' = Policy(i)
  <2>1. owner[i] \in Requests /\ owner'[i] = owner[i] /\ call'[owner[i]] = call[owner[i]]
    BY <1>1, <1>3, AnsweredStays DEF Answered
  <2> QED BY <2>1, <1>3 DEF Answered, ModeFor, Policy
<1>4. ASSUME NEW i \in Instances, Answered(i)
      PROVE  ModeFor(i) \in Network!InternetModes /\ Len(Policy(i)) \in 1 .. 6
  <2>1. ModeFor(i) \in Network!InternetModes
    BY <1>1, <1>4, ManagerAssumption DEF Answered, ModeFor
  <2> QED BY <2>1, PolicyLength DEF Policy
<1> SUFFICES ASSUME NEW d \in Destroys PROVE Removes(d)'
  BY DEF RemovesWhole, Removes
<1>5. destroy[d] \in [pc : DestroyStates, inst : Instances \cup {None},
                      mode : Network!InternetModes \cup {NoMode}, k : Nat]
  BY <1>1 DEF DestroyType
<1>6. ASSUME destroy'[d].inst = destroy[d].inst, destroy'[d].mode = destroy[d].mode,
             destroy'[d].k <= destroy[d].k, destroy'[d].k \in Nat,
             destroy'[d].pc = "idle" => destroy[d].pc = "idle",
             destroy'[d].pc = "removing" => destroy[d].pc = "removing",
             destroy'[d].pc \in {"destroying", "answered"} =>
               destroy'[d].k = 0 \/ (destroy[d].pc \in {"destroying", "answered"}
                                       /\ destroy'[d].k = destroy[d].k)
      PROVE  Removes(d)'
  <2>1. /\ destroy'[d].pc = "idle" => destroy'[d].mode = NoMode
        /\ destroy'[d].pc = "removing" => destroy'[d].mode # NoMode
    BY <1>2, <1>6 DEF Removes
  <2>2. ASSUME destroy'[d].mode # NoMode
        PROVE  /\ destroy'[d].inst \in Instances /\ Answered(destroy[d].inst)'
               /\ destroy'[d].mode = ModeFor(destroy[d].inst)'
               /\ destroy'[d].k <= Len(Policy(destroy[d].inst)')
               /\ destroy'[d].pc \in {"destroying", "answered"} => destroy'[d].k = 0
    <3>1. /\ destroy[d].inst \in Instances /\ Answered(destroy[d].inst)
          /\ destroy[d].mode = ModeFor(destroy[d].inst)
          /\ destroy[d].k <= Len(Policy(destroy[d].inst))
          /\ destroy[d].pc \in {"destroying", "answered"} => destroy[d].k = 0
      BY <1>2, <1>6, <2>2 DEF Removes
    <3> DEFINE i == destroy[d].inst
    <3>2. PICK j \in Instances : j = i
      BY <3>1
    <3>3. /\ Answered(j)' /\ ModeFor(j)' = ModeFor(j) /\ Policy(j)' = Policy(j)
          /\ Len(Policy(j)) \in 1 .. 6 /\ destroy[d].k \in Nat
      BY <3>1, <3>2, <1>3, <1>4, <1>5
    <3>4. destroy'[d].inst = j
      BY <3>2, <1>6
    <3>5. destroy[d].k <= Len(Policy(j)) /\ destroy[d].mode = ModeFor(j)
      BY <3>1, <3>2
    <3>6. destroy'[d].k <= Len(Policy(j))
      BY <3>3, <3>5, <1>6
    <3> QED BY <3>1, <3>3, <3>4, <3>5, <3>6, <1>6
  <2> QED BY <2>1, <2>2, <1>6 DEF Removes
<1>7. CASE destroy'[d] = destroy[d]
  BY <1>5, <1>6, <1>7
<1>8. ASSUME NEW q \in Destroys, Remove(q) \/ RemoveFails(q) \/ Destroyed(q)
      PROVE  Removes(d)'
  <2>1. CASE q # d
    BY <1>1, <1>7, <1>8, <2>1, DestroySteps DEF DestroyType
  <2>2. CASE q = d /\ Destroyed(d)
    <3>1. destroy[d].pc = "destroying" /\ destroy' = [destroy EXCEPT ![d].pc = "answered"]
      BY <1>1, <2>2, DestroySteps
    <3>2. destroy'[d] = [destroy[d] EXCEPT !.pc = "answered"]
      BY <1>1, <3>1 DEF DestroyType
    <3>3. /\ destroy'[d].pc = "answered"
          /\ destroy'[d].inst = destroy[d].inst /\ destroy'[d].mode = destroy[d].mode
          /\ destroy'[d].k = destroy[d].k
      BY <1>5, <3>2
    <3> QED BY <1>5, <1>6, <3>1, <3>3
  <2>3. CASE q = d /\ (Remove(d) \/ RemoveFails(d))
    <3>1. /\ destroy[d].pc = "removing" /\ destroy[d].k \in Nat \ {0}
          /\ destroy' = [destroy EXCEPT
               ![d].pc = IF destroy[d].k = 1 THEN "destroying" ELSE "removing",
               ![d].k = destroy[d].k - 1]
      <4>1. /\ destroy[d].pc = "removing"
            /\ destroy' = [destroy EXCEPT
                 ![d].pc = IF destroy[d].k = 1 THEN "destroying" ELSE "removing",
                 ![d].k = destroy[d].k - 1]
        BY <1>1, <2>3, DestroySteps
      <4>2. destroy[d].k \in 1 .. Len(Network!RulesFor[destroy[d].mode])
        BY <1>1, <4>1 DEF DestroyType
      <4> QED BY <1>5, <4>1, <4>2
    <3>2. /\ destroy'[d].pc = IF destroy[d].k = 1 THEN "destroying" ELSE "removing"
          /\ destroy'[d].inst = destroy[d].inst /\ destroy'[d].mode = destroy[d].mode
          /\ destroy'[d].k = destroy[d].k - 1
      BY <1>1, <1>5, <3>1 DEF DestroyType
    <3> QED BY <1>6, <3>1, <3>2
  <2> QED BY <1>8, <2>1, <2>2, <2>3
<1>9. ASSUME NEW q \in Destroys, NEW i \in Instances, Destroy(q, i)
      PROVE  Removes(d)'
  <2>1. CASE q # d
    BY <1>1, <1>7, <1>9, <2>1, DestroySteps DEF DestroyType
  <2>2. CASE q = d /\ activePolicies[i] = NoMode
    <3>1. destroy' = [destroy EXCEPT ![d] =
                        [pc |-> "destroying", inst |-> i, mode |-> NoMode, k |-> 0]]
      BY <1>1, <1>9, <2>2, DestroySteps
    <3>2. destroy'[d] = [pc |-> "destroying", inst |-> i, mode |-> NoMode, k |-> 0]
      BY <1>1, <3>1 DEF DestroyType
    <3> QED BY <3>2 DEF Removes
  <2>3. CASE q = d /\ activePolicies[i] # NoMode
    <3>1. Answered(i) /\ activePolicies[i] = ModeFor(i)
      BY <2>3 DEF CallInv, RecordsWhole
    <3>2. destroy' = [destroy EXCEPT ![d] =
                        [pc |-> "removing", inst |-> i, mode |-> activePolicies[i],
                         k |-> Len(Network!RulesFor[activePolicies[i]])]]
      BY <1>1, <1>9, <2>3, DestroySteps
    <3>3. destroy'[d] = [pc |-> "removing", inst |-> i, mode |-> ModeFor(i), k |-> Len(Policy(i))]
      BY <1>1, <3>1, <3>2 DEF DestroyType, Policy
    <3>4. /\ Answered(i)' /\ ModeFor(i)' = ModeFor(i) /\ Policy(i)' = Policy(i)
          /\ ModeFor(i) # NoMode
      BY <1>3, <2>3, <3>1
    <3>5. Len(Policy(i)) <= Len(Policy(i))
      <4>1. \A n \in 1 .. 6 : n <= n
        OBVIOUS
      <4> QED BY <1>4, <3>1, <4>1
    <3>6. /\ destroy'[d].pc = "removing" /\ destroy'[d].inst = i
          /\ destroy'[d].mode = ModeFor(i) /\ destroy'[d].k = Len(Policy(i))
      BY <3>3
    <3> QED BY <3>4, <3>5, <3>6 DEF Removes
  <2> QED BY <2>1, <2>2, <2>3
<1>10. CASE Killed
  <2>1. /\ destroy'[d].inst = destroy[d].inst /\ destroy'[d].mode = destroy[d].mode
        /\ destroy'[d].k = destroy[d].k
        /\ destroy'[d].pc = IF destroy[d].pc \in {"removing", "destroying"} THEN "failed"
                            ELSE destroy[d].pc
    BY <1>1, <1>10, AfterKill
  <2> QED BY <1>5, <1>6, <2>1
<1>11. ASSUME NEW r \in Requests, Checkout(r) \/ CheckoutRefused(r) \/ Apply(r) \/ ApplyFails(r)
       PROVE  destroy' = destroy
  BY <1>1, <1>11, CallSteps
<1>12. ASSUME NEW r \in Requests, NEW i \in Instances, CheckedOut(r, i)
       PROVE  destroy' = destroy
  BY <1>1, <1>12, CallSteps
<1>13. CASE Flush \/ Exit \/ Quiet
  BY <1>7, <1>13, EndSteps DEF Quiet
<1> HIDE DEF Removes
<1> QED BY <1>7, <1>8, <1>9, <1>10, <1>11, <1>12, <1>13, Cases

LEMMA RecordsWholeKeeps ==
  ASSUME CallInv, [Next]_vars
  PROVE  RecordsWhole'
<1>1. /\ CallType /\ DestroyType /\ TypeOK /\ OwnedByCall
      /\ owner \in [Instances -> Requests \cup {None}] /\ None \notin Requests
      /\ activePolicies \in [Instances -> Network!InternetModes \cup {NoMode}]
  BY TypeParts, ManagerAssumption DEF CallInv, Pool!TypeOK, Network!TypeOK
<1> SUFFICES ASSUME NEW i \in Instances, activePolicies'[i] # NoMode
             PROVE  Answered(i)' /\ activePolicies'[i] = ModeFor(i)'
  BY DEF RecordsWhole
<1>2. CASE activePolicies[i] = activePolicies'[i]
  <2>1. Answered(i) /\ activePolicies[i] = ModeFor(i)
    BY <1>2 DEF CallInv, RecordsWhole
  <2>2. owner[i] \in Requests /\ owner'[i] = owner[i] /\ call'[owner[i]] = call[owner[i]]
    BY <1>1, <2>1, AnsweredStays DEF Answered
  <2> QED BY <2>1, <2>2, <1>2 DEF Answered, ModeFor
<1>3. ASSUME NEW r \in Requests, Apply(r)
      PROVE  Answered(i)' /\ activePolicies'[i] = ModeFor(i)'
  <2>1. /\ owner' = owner /\ call[r].pc = "applying" /\ call[r].inst \in Instances
        /\ owner[call[r].inst] = r /\ call[r].k > 0
    BY <1>1, <1>3, CallSteps DEF OwnedByCall
  <2>2. activePolicies' = IF call[r].k = Len(Rules(r))
                          THEN [activePolicies EXCEPT ![call[r].inst] = ModeOf[r]]
                          ELSE activePolicies
    BY <1>1, <1>3, CallSteps DEF Network!ApplyRule, Rules
  <2>3. CASE call[r].k = Len(Rules(r)) /\ i = call[r].inst
    <3>1. call' = [call EXCEPT ![r].pc = "answered"]
      BY <1>1, <1>3, <2>3, CallSteps
    <3>2. call'[r].pc = "answered" /\ call'[r].k = call[r].k
      BY <1>1, <3>1 DEF CallType
    <3>3. activePolicies'[i] = ModeOf[r] /\ owner'[i] = r
      BY <1>1, <2>1, <2>2, <2>3
    <3> QED BY <1>1, <2>1, <3>2, <3>3 DEF Answered, ModeFor
  <2>4. CASE ~(call[r].k = Len(Rules(r)) /\ i = call[r].inst)
    BY <1>1, <1>2, <2>2, <2>4
  <2> QED BY <2>3, <2>4
<1>4. ASSUME NEW d \in Destroys, Remove(d) \/ RemoveFails(d)
      PROVE  activePolicies[i] = activePolicies'[i]
  <2>1. activePolicies' = IF destroy[d].k = 1
                          THEN [activePolicies EXCEPT ![destroy[d].inst] = NoMode]
                          ELSE activePolicies
    BY <1>1, <1>4, DestroySteps
  <2> QED BY <1>1, <2>1
<1>5. ASSUME NEW d \in Destroys, Destroyed(d)
      PROVE  activePolicies' = activePolicies
  BY <1>1, <1>5, DestroySteps
<1>6. ASSUME NEW d \in Destroys, NEW j \in Instances, Destroy(d, j)
      PROVE  activePolicies' = activePolicies
  BY <1>1, <1>6, DestroySteps
<1>7. ASSUME NEW r \in Requests, Checkout(r) \/ CheckoutRefused(r) \/ ApplyFails(r)
      PROVE  activePolicies' = activePolicies
  BY <1>1, <1>7, CallSteps
<1>8. ASSUME NEW r \in Requests, NEW j \in Instances, CheckedOut(r, j)
      PROVE  activePolicies' = activePolicies
  BY <1>1, <1>8, CallSteps
<1>9. ~Exit /\ ~Killed
  BY EndSteps
<1>10. CASE Flush \/ Quiet
  BY <1>2, <1>10, EndSteps DEF Quiet
<1> QED BY <1>2, <1>3, <1>4, <1>5, <1>6, <1>7, <1>8, <1>9, <1>10, Cases

LEMMA CallsKeep ==
  ASSUME CallInv, [Next]_vars
  PROVE  CallInv'
BY TypeKeeps, OwnedByCallKeeps, RemovesWholeKeeps, RecordsWholeKeeps DEF CallInv

----------------------------------------------------------------------------
(* The chain                                                                *)

(* The rules of a policy stand apart, and so do those of two instances.     *)
LEMMA RulesApart ==
  ASSUME TypeOK, NEW i \in Instances, owner[i] # None
  PROVE  /\ owner[i] \in Requests /\ ModeFor(i) \in Network!InternetModes
         /\ Policy(i) = Rules(owner[i]) /\ Len(Policy(i)) \in 1 .. 6
         /\ \A a : RuleIs(i, a).inst = i /\ RuleIs(i, a).rule = Policy(i)[a]
         /\ \A a, b \in 1 .. Len(Policy(i)) : RuleIs(i, a) = RuleIs(i, b) => a = b
<1>1. owner[i] \in Requests /\ ModeFor(i) \in Network!InternetModes
  BY TypeParts, ManagerAssumption DEF Pool!TypeOK, ModeFor
<1>2. \A a : RuleIs(i, a).inst = i /\ RuleIs(i, a).rule = Policy(i)[a]
  BY DEF RuleIs, Network!RuleAt, Policy
<1>3. \A a, b \in 1 .. Len(Policy(i)) : Policy(i)[a] = Policy(i)[b] => a = b
  BY <1>1, ModesHaveRules DEF Policy
<1>4. Policy(i) = Rules(owner[i])
  BY DEF Policy, ModeFor, Rules
<1> QED BY <1>1, <1>2, <1>3, <1>4, RulesLength

(* A call has added rules of its policy only.                               *)
LEMMA AddedBound ==
  ASSUME TypeOK, OwnedByCall, NEW r \in Requests
  PROVE  Added(r) \in Nat /\ Added(r) <= Len(Rules(r))
<1>1. call[r].k \in Nat /\ Len(Rules(r)) \in Nat /\ call[r].k <= Len(Rules(r))
  BY TypeParts, RulesLength DEF CallType, OwnedByCall
<1> QED BY <1>1 DEF Added

(* The chain is a sequence of rules of instances.                           *)
LEMMA ChainElements ==
  ASSUME TypeOK
  PROVE  /\ chain \in Seq(Chained) /\ Len(chain) \in Nat
         /\ \A p \in 1 .. Len(chain) : chain[p] \in Chained /\ chain[p].inst \in Instances
<1>1. chain \in Seq(Chained)
  BY TypeParts DEF Network!TypeOK, Chained
<1>2. \A p \in 1 .. Len(chain) : chain[p] \in Chained
  BY <1>1, ElementType
<1> QED BY <1>1, <1>2 DEF Chained

(* The steps that leave the chain as it is.                                 *)
LEMMA ChainUntouched ==
  ASSUME TypeOK, TypeOK', RulesAreAdded, RulesInOrder, [Next]_vars, chain' = chain,
         \A i \in Instances : owner[i] # None => Added(owner[i])' = Added(owner[i])
  PROVE  RulesAreAdded' /\ RulesInOrder'
<1>1. \A i \in Instances : owner[i] # None => owner'[i] = owner[i]
  BY AnsweredStays
<1>2. ASSUME NEW i \in Instances, owner[i] # None
      PROVE  /\ Policy(i)' = Policy(i) /\ owner'[i] = owner[i]
             /\ \A a : RuleIs(i, a)' = RuleIs(i, a)
  BY <1>1, <1>2 DEF Policy, RuleIs, ModeFor
<1>3. \A p \in 1 .. Len(chain) : chain[p].inst \in Instances
  BY ChainElements
<1>4. RulesAreAdded'
  <2> SUFFICES ASSUME NEW p \in 1 .. Len(chain)
               PROVE  /\ owner'[chain[p].inst] # None
                      /\ \E a \in 1 .. Added(owner[chain[p].inst])' :
                           chain[p] = RuleIs(chain[p].inst, a)'
    BY <1>2, <1>3 DEF RulesAreAdded
  <2>1. PICK i \in Instances : i = chain[p].inst
    BY <1>3
  <2>2. owner[i] # None /\ \E a \in 1 .. Added(owner[i]) : chain[p] = RuleIs(i, a)
    BY <2>1 DEF RulesAreAdded
  <2> QED BY <2>1, <2>2, <1>2
<1>5. RulesInOrder'
  <2> SUFFICES ASSUME NEW p \in 1 .. Len(chain), NEW q \in 1 .. Len(chain), p < q,
                      NEW i \in Instances, owner'[i] # None,
                      NEW a \in 1 .. Len(Policy(i)'), NEW b \in 1 .. Len(Policy(i)'),
                      chain[p] = RuleIs(i, a)', chain[q] = RuleIs(i, b)'
               PROVE  a < b
    BY DEF RulesInOrder
  <2>1. owner[i] # None
    <3>1. chain[p].inst = i
      BY DEF RuleIs, Network!RuleAt
    <3> QED BY <3>1 DEF RulesAreAdded
  <2> QED BY <2>1, <1>2 DEF RulesInOrder
<1> QED BY <1>4, <1>5

(* -A puts the next rule of a policy at the end.                            *)
LEMMA ApplyExtends ==
  ASSUME TypeOK, OwnedByCall, NEW r \in Requests, Apply(r)
  PROVE  LET i == call[r].inst
             k == call[r].k
         IN  /\ i \in Instances /\ owner[i] = r /\ k \in 1 .. Len(Policy(i)) /\ k \in Nat
             /\ Added(r) = k - 1 /\ Added(r)' = k
             /\ Len(chain') = Len(chain) + 1 /\ chain'[Len(chain) + 1] = RuleIs(i, k)
             /\ \A p \in 1 .. Len(chain) : chain'[p] = chain[p]
             /\ \A q \in Requests \ {r} : Added(q)' = Added(q)
<1> DEFINE i == call[r].inst
           k == call[r].k
<1>1. /\ call[r].pc = "applying" /\ Alive
      /\ call' = IF k = Len(Rules(r)) THEN [call EXCEPT ![r].pc = "answered"]
                 ELSE [call EXCEPT ![r].k = k + 1]
      /\ chain' = Append(chain, Network!RuleAt(i, ModeOf[r], k)) /\ owner' = owner
  BY CallSteps DEF Network!ApplyRule
<1>2. i \in Instances /\ owner[i] = r /\ k > 0
  BY <1>1 DEF OwnedByCall
<1>3. /\ call \in [Requests -> [pc : CallStates, inst : Instances \cup {None}, k : Nat]]
      /\ k \in 1 .. Len(Rules(r))
  BY <1>1, TypeParts DEF CallType
<1>4. Policy(i) = Rules(r) /\ RuleIs(i, k) = Network!RuleAt(i, ModeOf[r], k)
  BY <1>2 DEF Policy, ModeFor, Rules, RuleIs
<1>5. k \in Nat /\ Len(Rules(r)) \in Nat
  BY <1>3, RulesLength
<1>6. Added(r) = k - 1
  BY <1>1, <1>2 DEF Added
<1>7. Added(r)' = k
  <2>1. CASE k = Len(Rules(r))
    <3>1. call'[r].pc = "answered" /\ call'[r].k = k
      BY <1>1, <1>3, <2>1
    <3> QED BY <3>1, <1>2 DEF Added
  <2>2. CASE k # Len(Rules(r))
    <3>1. call'[r].pc = "applying" /\ call'[r].k = k + 1
      BY <1>1, <1>3, <2>2
    <3> QED BY <3>1, <1>2, <1>5 DEF Added
  <2> QED BY <2>1, <2>2
<1>8. \A q \in Requests \ {r} : Added(q)' = Added(q)
  <2>1. \A q \in Requests \ {r} : call'[q] = call[q]
    BY <1>1, <1>3
  <2> QED BY <2>1 DEF Added
<1>9. /\ Len(chain') = Len(chain) + 1 /\ chain'[Len(chain) + 1] = RuleIs(i, k)
      /\ \A p \in 1 .. Len(chain) : chain'[p] = chain[p]
  <2>1. \E S : chain \in Seq(S) /\ Network!RuleAt(i, ModeOf[r], k) \in S
    <3>1. chain \in Seq(Chained)
      BY ChainElements
    <3>2. /\ Rules(r) \in Seq([match : SUBSET Network!Classes, target : Network!Targets])
          /\ ModeOf[r] \in Network!InternetModes
      BY RulesLength, ModesHaveRules DEF Rules
    <3>3. Rules(r)[k] \in [match : SUBSET Network!Classes, target : Network!Targets]
      BY <1>3, <3>2, ElementType
    <3>4. Network!RuleAt(i, ModeOf[r], k) \in Chained
      BY <1>2, <3>3 DEF Network!RuleAt, Chained, Rules
    <3> QED BY <3>1, <3>4
  <2> QED BY <1>1, <1>4, <2>1, AppendProperties
<1> QED BY <1>2, <1>3, <1>4, <1>5, <1>6, <1>7, <1>8, <1>9

LEMMA ApplyKeepsOrder ==
  ASSUME TypeOK, OwnedByCall, RulesAreAdded, RulesInOrder, NEW r \in Requests, Apply(r)
  PROVE  RulesAreAdded' /\ RulesInOrder'
<1>1. PICK i \in Instances, k \in Nat :
        /\ i = call[r].inst /\ owner[i] = r /\ k \in 1 .. Len(Policy(i))
        /\ Added(r) = k - 1 /\ Added(r)' = k
        /\ Len(chain') = Len(chain) + 1 /\ chain'[Len(chain) + 1] = RuleIs(i, k)
        /\ \A p \in 1 .. Len(chain) : chain'[p] = chain[p]
        /\ \A q \in Requests \ {r} : Added(q)' = Added(q)
  BY ApplyExtends
<1>2. owner' = owner /\ owner \in [Instances -> Requests \cup {None}] /\ None \notin Requests
  BY CallSteps, TypeParts, ManagerAssumption DEF Pool!TypeOK
<1>3. \A j \in Instances :
        /\ Policy(j)' = Policy(j)
        /\ \A a : RuleIs(j, a)' = RuleIs(j, a) /\ RuleIs(j, a).inst = j
  BY <1>2 DEF RuleIs, ModeFor, Policy, Network!RuleAt
<1>4. /\ Len(chain) \in Nat
      /\ \A p \in 1 .. Len(chain) : chain[p].inst \in Instances
  BY ChainElements
<1>5. \A p \in 1 .. Len(chain') : p \in 1 .. Len(chain) \/ p = Len(chain) + 1
  BY <1>1, <1>4
<1>6. ASSUME NEW p \in 1 .. Len(chain')
      PROVE  \E j \in Instances, o \in Requests :
               /\ chain'[p].inst = j /\ owner[j] = o
               /\ \E a \in 1 .. Added(o)' : chain'[p] = RuleIs(j, a)
  <2>1. CASE p = Len(chain) + 1
    <3>1. chain'[p] = RuleIs(i, k) /\ chain'[p].inst = i
      BY <1>1, <1>3, <2>1
    <3>2. k \in 1 .. Added(r)'
      BY <1>1
    <3> QED BY <3>1, <3>2, <1>1
  <2>2. CASE p \in 1 .. Len(chain)
    <3>1. PICK j \in Instances : chain'[p] = chain[p] /\ chain[p].inst = j
      BY <2>2, <1>1, <1>4
    <3>2. PICK o \in Requests : owner[j] = o
      BY <3>1, <2>2, <1>2 DEF RulesAreAdded
    <3>3. PICK a \in 1 .. Added(o) : chain[p] = RuleIs(j, a)
      BY <3>1, <3>2, <2>2 DEF RulesAreAdded
    <3>4. CASE o = r
      <4>1. Added(o) = k - 1 /\ Added(o)' = k
        BY <1>1, <3>4
      <4>2. a \in 1 .. k
        BY <3>3, <4>1
      <4> QED BY <3>1, <3>2, <3>3, <4>1, <4>2
    <3>5. CASE o # r
      <4>1. Added(o)' = Added(o)
        BY <1>1, <3>5
      <4> QED BY <3>1, <3>2, <3>3, <4>1
    <3> QED BY <3>4, <3>5
  <2> QED BY <1>5, <2>1, <2>2
<1>7. RulesAreAdded'
  <2> SUFFICES ASSUME NEW p \in 1 .. Len(chain')
               PROVE  /\ owner'[chain'[p].inst] # None
                      /\ \E a \in 1 .. Added(owner[chain[p].inst])' :
                           chain'[p] = RuleIs(chain[p].inst, a)'
    BY DEF RulesAreAdded
  <2>1. PICK j \in Instances, o \in Requests :
          /\ chain'[p].inst = j /\ owner[j] = o
          /\ \E a \in 1 .. Added(o)' : chain'[p] = RuleIs(j, a)
    BY <1>6
  <2>2. PICK a \in 1 .. Added(o)' : chain'[p] = RuleIs(j, a)
    BY <2>1
  <2>3. owner'[chain'[p].inst] = o /\ o # None
    BY <1>2, <2>1
  <2>4. Added(owner[chain[p].inst])' = Added(o)'
    BY <2>3 DEF Added
  <2>5. RuleIs(chain[p].inst, a)' = RuleIs(j, a)
    BY <1>2, <2>1 DEF RuleIs, ModeFor
  <2> QED BY <2>2, <2>3, <2>4, <2>5
<1>8. RulesInOrder'
  <2> SUFFICES ASSUME NEW p \in 1 .. Len(chain'), NEW q \in 1 .. Len(chain'), p < q,
                      NEW j \in Instances, owner[j] # None,
                      NEW a \in 1 .. Len(Policy(j)), NEW b \in 1 .. Len(Policy(j)),
                      chain'[p] = RuleIs(j, a), chain'[q] = RuleIs(j, b)
               PROVE  a < b
    BY <1>2, <1>3 DEF RulesInOrder
  <2>1. p \in 1 .. Len(chain) /\ chain'[p] = chain[p]
    BY <1>1, <1>4, <1>5
  <2>2. CASE q \in 1 .. Len(chain)
    <3>1. chain'[q] = chain[q]
      BY <1>1, <2>2
    <3> QED BY <2>1, <2>2, <3>1 DEF RulesInOrder
  <2>3. CASE q = Len(chain) + 1
    <3>1. RuleIs(i, k) = RuleIs(j, b)
      BY <2>3, <1>1
    <3>2. j = i
      BY <3>1, <1>3
    <3>3. b = k /\ Len(Policy(i)) \in 1 .. 6
      BY <1>1, <1>2, <3>1, <3>2, RulesApart
    <3>4. chain[p].inst = i /\ chain[p] = RuleIs(i, a)
      BY <2>1, <3>2, <1>3
    <3>5. PICK c \in 1 .. Added(owner[i]) : chain[p] = RuleIs(i, c)
      BY <2>1, <3>4 DEF RulesAreAdded
    <3>6. c \in 1 .. k - 1 /\ c \in 1 .. Len(Policy(i))
      BY <3>5, <1>1, <3>3
    <3>7. a \in 1 .. Len(Policy(i)) /\ RuleIs(i, a) = RuleIs(i, c) /\ owner[i] # None
      BY <3>2, <3>4, <3>5, <1>1, <1>2
    <3>8. a = c
      BY <3>6, <3>7, RulesApart
    <3> QED BY <3>3, <3>6, <3>8
  <2> QED BY <1>5, <2>2, <2>3
<1> QED BY <1>7, <1>8

(* A destroy call at work removes, or fails to remove, the k-th rule of the *)
(* policy of its instance, which it has then dealt with.                    *)
LEMMA RemovalStep ==
  ASSUME CallInv, NEW d \in Destroys, Remove(d) \/ RemoveFails(d)
  PROVE  \E i \in Instances, k \in Nat :
           /\ i = destroy[d].inst /\ owner[i] # None /\ k \in 1 .. Len(Policy(i))
           /\ Network!RuleAt(destroy[d].inst, destroy[d].mode, destroy[d].k) = RuleIs(i, k)
           /\ destroy[d].k = k /\ Removing(d, i) /\ Alive /\ UNCHANGED <<owner, call, process>>
           /\ \A j \in Instances, a \in Nat : Dealt(j, a)' <=> Dealt(j, a) \/ (j = i /\ a = k)
<1>1. /\ destroy[d].pc = "removing" /\ Alive /\ UNCHANGED <<owner, call, process>>
      /\ destroy' = [destroy EXCEPT
           ![d].pc = IF destroy[d].k = 1 THEN "destroying" ELSE "removing",
           ![d].k = destroy[d].k - 1]
  BY DestroySteps DEF CallInv
<1>2. /\ destroy[d].mode # NoMode /\ destroy[d].inst \in Instances /\ Answered(destroy[d].inst)
      /\ destroy[d].mode = ModeFor(destroy[d].inst)
  BY <1>1 DEF CallInv, RemovesWhole
<1>3. PICK i \in Instances : i = destroy[d].inst
  BY <1>2
<1>4. DestroyType /\ destroy[d].k \in 1 .. Len(Network!RulesFor[destroy[d].mode])
  BY <1>1, TypeParts DEF DestroyType, CallInv
<1>5. /\ \A e \in Destroys : destroy[e] \in [pc : DestroyStates, inst : Instances \cup {None},
                               mode : Network!InternetModes \cup {NoMode}, k : Nat]
      /\ \A e \in Destroys \ {d} : destroy'[e] = destroy[e]
      /\ destroy'[d].inst = destroy[d].inst /\ destroy'[d].mode = destroy[d].mode
      /\ destroy'[d].k = destroy[d].k - 1
  BY <1>1, <1>4 DEF DestroyType
<1>6. PICK k \in Nat : k = destroy[d].k /\ k \in 1 .. Len(Policy(i))
  <2>1. destroy[d].k \in Nat
    BY <1>5
  <2> QED BY <2>1, <1>2, <1>3, <1>4 DEF Policy
<1>7. Removing(d, i) /\ Removing(d, i)'
  BY <1>2, <1>3, <1>5 DEF Removing
<1>8. ASSUME NEW j \in Instances, NEW a \in Nat
      PROVE  Dealt(j, a)' <=> Dealt(j, a) \/ (j = i /\ a = k)
  <2>1. ASSUME NEW e \in Destroys
        PROVE  (Removing(e, j) /\ destroy[e].k < a)'
                 <=> (Removing(e, j) /\ destroy[e].k < a) \/ (e = d /\ j = i /\ a = k)
    <3>1. CASE e # d
      BY <3>1, <1>5 DEF Removing
    <3>2. CASE e = d
      <4>1. Removing(e, j) <=> j = i
        BY <3>2, <1>2, <1>3 DEF Removing
      <4>2. Removing(e, j)' <=> j = i
        BY <3>2, <1>2, <1>3, <1>5 DEF Removing
      <4>3. destroy[e].k = k /\ destroy'[e].k = k - 1
        BY <3>2, <1>5, <1>6
      <4>4. k - 1 < a <=> (k < a \/ a = k)
        OBVIOUS
      <4> QED BY <3>2, <4>1, <4>2, <4>3, <4>4
    <3> QED BY <3>1, <3>2
  <2> QED BY <2>1 DEF Dealt
<1> QED BY <1>1, <1>2, <1>3, <1>6, <1>7, <1>8 DEF Answered, RuleIs

(* What -D leaves: the rule, which stands once, is gone, and the others are *)
(* where they were.                                                         *)
LEMMA RemovedOnce ==
  ASSUME TypeOK, RulesInOrder, NEW i \in Instances, owner[i] # None,
         NEW k \in 1 .. Len(Policy(i)), chain' = Network!Deleted(RuleIs(i, k))
  PROVE  /\ \A p \in 1 .. Len(chain') : chain'[p] # RuleIs(i, k)
         /\ \A p \in 1 .. Len(chain') : \E q \in 1 .. Len(chain) : chain'[p] = chain[q]
         /\ \A p \in 1 .. Len(chain) : chain[p] # RuleIs(i, k) =>
              \E q \in 1 .. Len(chain') : chain'[q] = chain[p]
         /\ \A p, q \in 1 .. Len(chain') : p < q =>
              \E u, v \in 1 .. Len(chain) : /\ u < v
                                            /\ chain'[p] = chain[u] /\ chain'[q] = chain[v]
<1>1. chain \in Seq(Chained) /\ Len(chain) \in Nat
  BY ChainElements
<1>2. \/ chain' = chain /\ \A p \in 1 .. Len(chain) : chain[p] # RuleIs(i, k)
      \/ \E n \in 1 .. Len(chain) :
           /\ chain[n] = RuleIs(i, k) /\ Len(chain') = Len(chain) - 1
           /\ \A j \in 1 .. Len(chain) - 1 : chain'[j] = IF j < n THEN chain[j] ELSE chain[j + 1]
  BY <1>1, DeletedElements
<1>3. CASE chain' = chain /\ \A p \in 1 .. Len(chain) : chain[p] # RuleIs(i, k)
  BY <1>3
<1>4. ASSUME NEW n \in 1 .. Len(chain),
             chain[n] = RuleIs(i, k), Len(chain') = Len(chain) - 1,
             \A j \in 1 .. Len(chain) - 1 : chain'[j] = IF j < n THEN chain[j] ELSE chain[j + 1]
      PROVE  /\ \A p \in 1 .. Len(chain') : chain'[p] # RuleIs(i, k)
             /\ \A p \in 1 .. Len(chain') : \E q \in 1 .. Len(chain) : chain'[p] = chain[q]
             /\ \A p \in 1 .. Len(chain) : chain[p] # RuleIs(i, k) =>
                  \E q \in 1 .. Len(chain') : chain'[q] = chain[p]
             /\ \A p, q \in 1 .. Len(chain') : p < q =>
                  \E u, v \in 1 .. Len(chain) : /\ u < v
                                                /\ chain'[p] = chain[u] /\ chain'[q] = chain[v]
  <2> DEFINE From(p) == IF p < n THEN p ELSE p + 1
  <2>1. \A p \in 1 .. Len(chain') : /\ From(p) \in 1 .. Len(chain) /\ From(p) # n
                                    /\ chain'[p] = chain[From(p)]
    BY <1>1, <1>4
  <2>2. \A p, q \in 1 .. Len(chain') : p < q => From(p) < From(q)
    BY <1>1, <1>4
  <2>3. ASSUME NEW p \in 1 .. Len(chain), p # n
        PROVE  chain[p] # RuleIs(i, k)
    <3>1. p < n \/ n < p
      BY <1>1, <2>3
    <3>2. ~(k < k)
      <4>1. Len(Policy(i)) \in Nat
        BY RulesApart
      <4> QED BY <4>1
    <3> QED BY <3>1, <3>2, <1>4 DEF RulesInOrder
  <2>4. ASSUME NEW p \in 1 .. Len(chain), p # n
        PROVE  \E q \in 1 .. Len(chain') : chain'[q] = chain[p]
    <3>1. CASE p < n
      <4>1. p \in 1 .. Len(chain') /\ chain'[p] = chain[p]
        BY <1>1, <1>4, <3>1
      <4> QED BY <4>1
    <3>2. CASE n < p
      <4>1. /\ p - 1 \in 1 .. Len(chain') /\ ~(p - 1 < n) /\ p - 1 + 1 = p
            /\ Len(chain') = Len(chain) - 1
        BY <1>1, <1>4, <3>2
      <4>2. chain'[p - 1] = chain[p]
        BY <1>4, <4>1
      <4> QED BY <4>1, <4>2
    <3> QED BY <1>1, <2>4, <3>1, <3>2
  <2> HIDE DEF From
  <2>5. \A p \in 1 .. Len(chain') : chain'[p] # RuleIs(i, k)
    BY <2>1, <2>3
  <2>6. \A p \in 1 .. Len(chain) : chain[p] # RuleIs(i, k) =>
          \E q \in 1 .. Len(chain') : chain'[q] = chain[p]
    BY <1>4, <2>4
  <2>7. \A p \in 1 .. Len(chain') : \E q \in 1 .. Len(chain) : chain'[p] = chain[q]
    BY <2>1
  <2>8. ASSUME NEW p \in 1 .. Len(chain'), NEW q \in 1 .. Len(chain'), p < q
        PROVE  \E u, v \in 1 .. Len(chain) : /\ u < v
                                              /\ chain'[p] = chain[u] /\ chain'[q] = chain[v]
    <3>1. /\ From(p) \in 1 .. Len(chain) /\ From(q) \in 1 .. Len(chain)
          /\ chain'[p] = chain[From(p)] /\ chain'[q] = chain[From(q)]
      BY <2>1
    <3>2. From(p) < From(q)
      BY <2>2, <2>8
    <3> QED BY <3>1, <3>2
  <2> QED BY <2>5, <2>6, <2>7, <2>8
<1> QED BY <1>2, <1>3, <1>4

LEMMA RemoveKeepsOrder ==
  ASSUME CallInv, RulesAreAdded, RulesInOrder, NEW d \in Destroys, Remove(d)
  PROVE  RulesAreAdded' /\ RulesInOrder'
<1>1. PICK i \in Instances, k \in Nat :
        /\ i = destroy[d].inst /\ owner[i] # None /\ k \in 1 .. Len(Policy(i))
        /\ Network!RuleAt(destroy[d].inst, destroy[d].mode, destroy[d].k) = RuleIs(i, k)
        /\ UNCHANGED <<owner, call, process>>
  BY RemovalStep
<1>2. TypeOK /\ chain' = Network!Deleted(RuleIs(i, k))
  BY <1>1, DestroySteps DEF CallInv
<1>3. /\ \A p \in 1 .. Len(chain') : \E q \in 1 .. Len(chain) : chain'[p] = chain[q]
      /\ \A p, q \in 1 .. Len(chain') : p < q =>
           \E u, v \in 1 .. Len(chain) : /\ u < v
                                         /\ chain'[p] = chain[u] /\ chain'[q] = chain[v]
  BY <1>1, <1>2, RemovedOnce
<1>4. RulesAreAdded'
  <2> SUFFICES ASSUME NEW p \in 1 .. Len(chain')
               PROVE  /\ owner'[chain'[p].inst] # None
                      /\ \E a \in 1 .. Added(owner[chain[p].inst])' :
                           chain'[p] = RuleIs(chain[p].inst, a)'
    BY DEF RulesAreAdded
  <2>1. PICK q \in 1 .. Len(chain) : chain'[p] = chain[q]
    BY <1>3
  <2>2. owner[chain[q].inst] # None
    BY DEF RulesAreAdded
  <2>3. PICK a \in 1 .. Added(owner[chain[q].inst]) : chain[q] = RuleIs(chain[q].inst, a)
    BY DEF RulesAreAdded
  <2>4. Added(owner[chain[p].inst])' = Added(owner[chain[q].inst])
    BY <1>1, <2>1 DEF Added
  <2>5. RuleIs(chain[p].inst, a)' = RuleIs(chain[q].inst, a)
    BY <1>1, <2>1 DEF RuleIs, ModeFor
  <2> QED BY <1>1, <2>1, <2>2, <2>3, <2>4, <2>5
<1>5. RulesInOrder'
  <2>1. \A j \in Instances : /\ Policy(j)' = Policy(j)
                             /\ \A a : RuleIs(j, a)' = RuleIs(j, a)
    BY <1>1 DEF Policy, RuleIs, ModeFor
  <2> SUFFICES ASSUME NEW p \in 1 .. Len(chain'), NEW q \in 1 .. Len(chain'), p < q,
                      NEW j \in Instances, owner[j] # None,
                      NEW a \in 1 .. Len(Policy(j)), NEW b \in 1 .. Len(Policy(j)),
                      chain'[p] = RuleIs(j, a), chain'[q] = RuleIs(j, b)
               PROVE  a < b
    BY <1>1, <2>1 DEF RulesInOrder
  <2>2. PICK u \in 1 .. Len(chain), v \in 1 .. Len(chain) :
          u < v /\ chain'[p] = chain[u] /\ chain'[q] = chain[v]
    BY <1>3
  <2> QED BY <2>2 DEF RulesInOrder
<1> QED BY <1>4, <1>5

(* The rules a call has added change with a step of its loop only.          *)
LEMMA AddedStays ==
  ASSUME CallInv, [Next]_vars, NEW r \in Requests, ~Apply(r)
  PROVE  call[r].inst # None => Added(r)' = Added(r)
<1>1. /\ call \in [Requests -> [pc : CallStates, inst : Instances \cup {None}, k : Nat]]
      /\ TypeOK
      /\ call[r].pc \in {"idle", "checkout"} => call[r].inst = None /\ call[r].k = 0
  BY TypeParts DEF CallInv, CallType, OwnedByCall
<1> SUFFICES ASSUME call[r].inst # None PROVE Added(r)' = Added(r)
  OBVIOUS
<1>2. CASE call'[r] = call[r]
  BY <1>2 DEF Added
<1>3. ASSUME call'[r].k = call[r].k, call[r].pc # "answered", call'[r].pc # "answered"
      PROVE  Added(r)' = Added(r)
  BY <1>3 DEF Added
<1>4. ASSUME NEW q \in Requests, Checkout(q) \/ CheckoutRefused(q) \/ ApplyFails(q)
      PROVE  Added(r)' = Added(r)
  <2>1. CASE q # r
    BY <1>1, <1>2, <1>4, <2>1, CallSteps
  <2>2. CASE q = r
    <3>1. call' = [call EXCEPT ![r].pc = "failed"] /\ call[r].pc = "applying"
      BY <1>1, <1>4, <2>2, CallSteps
    <3>2. call'[r].k = call[r].k /\ call'[r].pc = "failed"
      BY <1>1, <3>1
    <3> QED BY <1>3, <3>1, <3>2
  <2> QED BY <2>1, <2>2
<1>5. ASSUME NEW q \in Requests, NEW i \in Instances, CheckedOut(q, i)
      PROVE  call'[r] = call[r]
  BY <1>1, <1>5, CallSteps
<1>6. ASSUME NEW q \in Requests, Apply(q)
      PROVE  call'[r] = call[r]
  BY <1>1, <1>6, CallSteps
<1>7. CASE Killed
  BY <1>1, <1>2, <1>3, <1>7, AfterKill, EndSteps
<1>8. ASSUME NEW d \in Destroys, Remove(d) \/ RemoveFails(d) \/ Destroyed(d)
      PROVE  call' = call
  BY <1>1, <1>8, DestroySteps
<1>9. ASSUME NEW d \in Destroys, NEW i \in Instances, Destroy(d, i)
      PROVE  call' = call
  BY <1>1, <1>9, DestroySteps
<1>10. CASE Flush \/ Exit \/ Quiet
  BY <1>2, <1>10, EndSteps DEF Quiet
<1> QED BY <1>2, <1>4, <1>5, <1>6, <1>7, <1>8, <1>9, <1>10, Cases

(* What a destroy call has dealt with, but for a removal.                   *)
LEMMA DealtStays ==
  ASSUME CallInv, [Next]_vars, \A d \in Destroys : ~Remove(d) /\ ~RemoveFails(d)
  PROVE  \A i \in Instances : owner[i] # None =>
           \A a \in 1 .. Len(Policy(i)) : Dealt(i, a)' <=> Dealt(i, a)
<1>1. /\ TypeOK
      /\ destroy \in [Destroys -> [pc : DestroyStates, inst : Instances \cup {None},
                                   mode : Network!InternetModes \cup {NoMode}, k : Nat]]
  BY TypeParts DEF CallInv, DestroyType
<1> SUFFICES ASSUME NEW i \in Instances, owner[i] # None, NEW a \in 1 .. Len(Policy(i))
             PROVE  Dealt(i, a)' <=> Dealt(i, a)
  OBVIOUS
<1>2. a \in Nat /\ Len(Policy(i)) \in Nat /\ a <= Len(Policy(i))
  <2>1. Len(Policy(i)) \in 1 .. 6
    BY <1>1, RulesApart
  <2> QED BY <2>1
<1>3. ASSUME \A e \in Destroys : /\ destroy'[e].inst = destroy[e].inst
                                 /\ destroy'[e].mode = destroy[e].mode
                                 /\ destroy'[e].k = destroy[e].k
      PROVE  Dealt(i, a)' <=> Dealt(i, a)
  BY <1>3 DEF Dealt, Removing
<1>4. ASSUME NEW d \in Destroys, Destroyed(d)
      PROVE  Dealt(i, a)' <=> Dealt(i, a)
  <2>1. destroy' = [destroy EXCEPT ![d].pc = "answered"]
    BY <1>1, <1>4, DestroySteps
  <2>2. \A e \in Destroys : /\ destroy'[e].inst = destroy[e].inst
                            /\ destroy'[e].mode = destroy[e].mode
                            /\ destroy'[e].k = destroy[e].k
    BY <1>1, <2>1
  <2> QED BY <1>3, <2>2
<1>5. ASSUME NEW d \in Destroys, NEW j \in Instances, Destroy(d, j)
      PROVE  Dealt(i, a)' <=> Dealt(i, a)
  <2>1. /\ destroy[d].pc = "idle" /\ owner' = owner
        /\ \A e \in Destroys \ {d} : destroy'[e] = destroy[e]
        /\ destroy'[d].inst = j /\ destroy'[d].mode = activePolicies[j]
        /\ activePolicies[j] # NoMode => destroy'[d].k = Len(Network!RulesFor[activePolicies[j]])
    <3>1. /\ destroy[d].pc = "idle" /\ owner' = owner
          /\ destroy' = [destroy EXCEPT ![d] =
               IF activePolicies[j] = NoMode
               THEN [pc |-> "destroying", inst |-> j, mode |-> NoMode, k |-> 0]
               ELSE [pc |-> "removing", inst |-> j, mode |-> activePolicies[j],
                     k |-> Len(Network!RulesFor[activePolicies[j]])]]
      BY <1>1, <1>5, DestroySteps
    <3>2. CASE activePolicies[j] = NoMode
      BY <1>1, <3>1, <3>2
    <3>3. CASE activePolicies[j] # NoMode
      BY <1>1, <3>1, <3>3
    <3> QED BY <3>1, <3>2, <3>3
  <2>2. destroy[d].mode = NoMode
    BY <2>1 DEF CallInv, RemovesWhole
  <2>3. activePolicies[j] # NoMode /\ j = i => destroy'[d].k = Len(Policy(i))
    <3>1. activePolicies[j] # NoMode => activePolicies[j] = ModeFor(j)
      BY DEF CallInv, RecordsWhole
    <3> QED BY <2>1, <3>1 DEF Policy
  <2>4. ~(Len(Policy(i)) < a)
    BY <1>2
  <2>5. ~Removing(d, i)
    BY <2>2 DEF Removing
  <2>6. Removing(d, i)' => destroy'[d].k = Len(Policy(i))
    BY <2>1, <2>3 DEF Removing
  <2>7. \A e \in Destroys \ {d} : (Removing(e, i)' <=> Removing(e, i)) /\ destroy'[e] = destroy[e]
    BY <2>1 DEF Removing
  <2> QED BY <2>4, <2>5, <2>6, <2>7 DEF Dealt
<1>6. CASE Killed
  BY <1>1, <1>3, <1>6, AfterKill
<1>7. ASSUME NEW r \in Requests, Checkout(r) \/ CheckoutRefused(r) \/ Apply(r) \/ ApplyFails(r)
      PROVE  destroy' = destroy
  BY <1>1, <1>7, CallSteps
<1>8. ASSUME NEW r \in Requests, NEW j \in Instances, CheckedOut(r, j)
      PROVE  destroy' = destroy
  BY <1>1, <1>8, CallSteps
<1>9. CASE Flush \/ Exit \/ Quiet
  BY <1>3, <1>9, EndSteps DEF Quiet
<1>10. CASE UNCHANGED destroy
  BY <1>3, <1>10
<1> QED BY <1>4, <1>5, <1>6, <1>7, <1>8, <1>9, <1>10, Cases

(* Nobody has dealt with a rule of a policy that was not applied whole.     *)
LEMMA DealtIsWhole ==
  ASSUME CallInv, NEW i \in Instances, NEW a, Dealt(i, a)
  PROVE  Answered(i)
BY DEF CallInv, RemovesWhole, Dealt, Removing

(* Which rules are there, and dealt with, after a step.                     *)
LEMMA HasAndDealt ==
  ASSUME CallInv, CallInv', RulesAreAdded, RulesInOrder, [Next]_vars, ~Flush,
         NEW i \in Instances, owner[i] # None, NEW a \in 1 .. Len(Policy(i))
  PROVE  /\ \/ Has(i, a)' <=> Has(i, a)
            \/ \E r \in Requests : Apply(r) /\ i = call[r].inst /\ Has(i, a)'
            \/ \E d \in Destroys : Remove(d) /\ Dealt(i, a)' /\ ~Has(i, a)'
         /\ \/ Dealt(i, a)' <=> Dealt(i, a)
            \/ \E d \in Destroys : Remove(d) /\ Dealt(i, a)' /\ ~Has(i, a)'
            \/ /\ Dealt(i, a)' /\ \E d \in Destroys : RemoveFails(d)
               /\ \A d \in Destroys : RemoveFails(d) => destroy[d].inst = i
<1>1. TypeOK /\ OwnedByCall /\ a \in Nat
  <2>1. Len(Policy(i)) \in 1 .. 6
    BY RulesApart DEF CallInv
  <2> QED BY <2>1 DEF CallInv
<1>2. owner'[i] = owner[i] /\ \A b : RuleIs(i, b)' = RuleIs(i, b)
  BY <1>1, AnsweredStays DEF RuleIs, ModeFor
<1>3. CASE chain' = chain
  <2>1. Has(i, a)' <=> Has(i, a)
    BY <1>2, <1>3 DEF Has
  <2>2. ASSUME NEW d \in Destroys, RemoveFails(d)
        PROVE  (Dealt(i, a)' <=> Dealt(i, a)) \/ (destroy[d].inst = i /\ Dealt(i, a)')
    BY <1>1, <2>2, RemovalStep
  <2>3. ASSUME NEW d \in Destroys, Remove(d)
        PROVE  (Dealt(i, a)' <=> Dealt(i, a)) \/ (Dealt(i, a)' /\ ~Has(i, a)')
    <3>1. PICK j \in Instances, k \in Nat :
            /\ owner[j] # None /\ k \in 1 .. Len(Policy(j))
            /\ Network!RuleAt(destroy[d].inst, destroy[d].mode, destroy[d].k) = RuleIs(j, k)
            /\ Dealt(i, a)' <=> Dealt(i, a) \/ (i = j /\ a = k)
      BY <1>1, <2>3, RemovalStep
    <3>2. chain' = Network!Deleted(RuleIs(j, k))
      BY <1>1, <2>3, <3>1, DestroySteps
    <3>3. \A p \in 1 .. Len(chain') : chain'[p] # RuleIs(j, k)
      BY <1>1, <3>1, <3>2, RemovedOnce
    <3>4. CASE i = j /\ a = k
      BY <1>2, <3>1, <3>3, <3>4 DEF Has
    <3> QED BY <3>1, <3>4
  <2>4. CASE \A d \in Destroys : ~Remove(d) /\ ~RemoveFails(d)
    BY <2>4, <2>1, DealtStays
  <2> QED BY <2>1, <2>2, <2>3, <2>4
<1>4. ASSUME NEW r \in Requests, Apply(r)
      PROVE  /\ (Has(i, a)' <=> Has(i, a)) \/ (i = call[r].inst /\ Has(i, a)')
             /\ Dealt(i, a)' <=> Dealt(i, a)
  <2>1. PICK j \in Instances, k \in Nat :
          /\ j = call[r].inst /\ owner[j] = r
          /\ Len(chain') = Len(chain) + 1 /\ chain'[Len(chain) + 1] = RuleIs(j, k)
          /\ \A p \in 1 .. Len(chain) : chain'[p] = chain[p]
    BY <1>1, <1>4, ApplyExtends
  <2>2. Len(chain) \in Nat
    BY <1>1, ChainElements
  <2>3. Has(i, a) => Has(i, a)'
    BY <1>2, <2>1, <2>2 DEF Has
  <2>4. Has(i, a)' /\ i # j => Has(i, a)
    <3> SUFFICES ASSUME NEW p \in 1 .. Len(chain'), chain'[p] = RuleIs(i, a), i # j
                 PROVE  Has(i, a)
      BY <1>2 DEF Has
    <3>1. RuleIs(i, a) # RuleIs(j, k)
      BY DEF RuleIs, Network!RuleAt
    <3>2. p \in 1 .. Len(chain)
      BY <2>1, <2>2, <3>1
    <3> QED BY <2>1, <3>2 DEF Has
  <2>5. destroy' = destroy
    BY <1>1, <1>4, CallSteps
  <2>6. Dealt(i, a)' <=> Dealt(i, a)
    BY <2>5 DEF Dealt, Removing
  <2> QED BY <2>1, <2>3, <2>4, <2>6
<1>5. ASSUME NEW d \in Destroys, Remove(d)
      PROVE  \/ (Has(i, a)' <=> Has(i, a)) /\ (Dealt(i, a)' <=> Dealt(i, a))
             \/ Dealt(i, a)' /\ ~Has(i, a)'
  <2>1. PICK j \in Instances, k \in Nat :
          /\ owner[j] # None /\ k \in 1 .. Len(Policy(j))
          /\ Network!RuleAt(destroy[d].inst, destroy[d].mode, destroy[d].k) = RuleIs(j, k)
          /\ Dealt(i, a)' <=> Dealt(i, a) \/ (i = j /\ a = k)
    BY <1>1, <1>5, RemovalStep
  <2>2. chain' = Network!Deleted(RuleIs(j, k))
    BY <1>1, <1>5, <2>1, DestroySteps
  <2>3. /\ \A p \in 1 .. Len(chain') : chain'[p] # RuleIs(j, k)
        /\ \A p \in 1 .. Len(chain') : \E q \in 1 .. Len(chain) : chain'[p] = chain[q]
        /\ \A p \in 1 .. Len(chain) : chain[p] # RuleIs(j, k) =>
             \E q \in 1 .. Len(chain') : chain'[q] = chain[p]
    BY <1>1, <2>1, <2>2, RemovedOnce
  <2>4. CASE i = j /\ a = k
    BY <1>2, <2>1, <2>3, <2>4 DEF Has
  <2>5. CASE ~(i = j /\ a = k)
    <3>1. RuleIs(i, a) # RuleIs(j, k)
      <4>1. CASE i # j
        BY <4>1 DEF RuleIs, Network!RuleAt
      <4>2. CASE i = j /\ a # k
        BY <1>1, <2>1, <4>2, RulesApart
      <4> QED BY <2>5, <4>1, <4>2
    <3>2. Has(i, a)' => Has(i, a)
      BY <1>2, <2>3 DEF Has
    <3>3. Has(i, a) => Has(i, a)'
      BY <1>2, <2>3, <3>1 DEF Has
    <3> QED BY <2>1, <2>5, <3>2, <3>3
  <2> QED BY <2>4, <2>5
<1>6. chain' = chain \/ (\E r \in Requests : Apply(r)) \/ (\E d \in Destroys : Remove(d))
  <2>1. ASSUME NEW r \in Requests, Checkout(r) \/ CheckoutRefused(r) \/ ApplyFails(r)
        PROVE  chain' = chain
    BY <1>1, <2>1, CallSteps
  <2>2. ASSUME NEW r \in Requests, NEW j \in Instances, CheckedOut(r, j)
        PROVE  chain' = chain
    BY <1>1, <2>2, CallSteps
  <2>3. ASSUME NEW d \in Destroys, RemoveFails(d) \/ Destroyed(d)
        PROVE  chain' = chain
    BY <1>1, <2>3, DestroySteps
  <2>4. ASSUME NEW d \in Destroys, NEW j \in Instances, Destroy(d, j)
        PROVE  chain' = chain
    BY <1>1, <2>4, DestroySteps
  <2>5. CASE Exit \/ Killed \/ Quiet
    BY <2>5, EndSteps DEF Quiet
  <2> QED BY <2>1, <2>2, <2>3, <2>4, <2>5, Cases
<1> QED BY <1>3, <1>4, <1>5, <1>6

(* Nothing happens after the end.                                           *)
LEMMA NothingAfterExit ==
  ASSUME TypeOK, [Next]_vars, process = "exited"
  PROVE  UNCHANGED vars
<1>1. ~Alive /\ process # "up"
  BY DEF Alive
<1>2. ASSUME NEW r \in Requests
      PROVE  /\ ~Checkout(r) /\ ~CheckoutRefused(r) /\ ~Apply(r) /\ ~ApplyFails(r)
             /\ \A i \in Instances : ~CheckedOut(r, i)
  BY <1>1 DEF Checkout, CheckoutRefused, Apply, ApplyFails, CheckedOut
<1>3. ASSUME NEW d \in Destroys
      PROVE  /\ ~Remove(d) /\ ~RemoveFails(d) /\ ~Destroyed(d)
             /\ \A i \in Instances : ~Destroy(d, i)
  BY <1>1 DEF Remove, RemoveFails, Destroyed, Destroy
<1>4. ~Start /\ ~PoolTimer /\ ~Signal /\ ~Stop /\ ~Stopped /\ ~Flush /\ ~Exit
      /\ ~Killed /\ ~Restart
  BY <1>1 DEF Start, PoolTimer, Signal, Stop, Stopped, Flush, Exit, Killed, Restart
<1> QED BY <1>2, <1>3, <1>4 DEF Next

(* A call that has just been granted its instance has added no rule.        *)
LEMMA NewOwner ==
  ASSUME CallInv, [Next]_vars, NEW i \in Instances, owner[i] = None, owner'[i] # None
  PROVE  ~Answered(i)' /\ Added(owner[i])' = 0
<1>1. /\ TypeOK
      /\ call \in [Requests -> [pc : CallStates, inst : Instances \cup {None}, k : Nat]]
      /\ owner \in [Instances -> Requests \cup {None}]
  BY TypeParts DEF CallInv, CallType, Pool!TypeOK
<1>2. ASSUME NEW q \in Requests, NEW j \in Instances, CheckedOut(q, j)
      PROVE  ~Answered(i)' /\ Added(owner[i])' = 0
  <2>1. /\ owner' = [owner EXCEPT ![j] = q]
        /\ \/ call' = [call EXCEPT ![q] = [pc |-> "applying", inst |-> j, k |-> 1]]
           \/ call' = [call EXCEPT ![q] = [pc |-> "answered", inst |-> j, k |-> 0]]
    BY <1>1, <1>2, CallSteps
  <2>2. owner'[i] = q
    BY <1>1, <2>1
  <2>3. \/ call'[q].pc = "applying" /\ call'[q].k = 1
        \/ call'[q].pc = "answered" /\ call'[q].k = 0
    BY <1>1, <2>1
  <2> QED BY <2>2, <2>3 DEF Answered, Added
<1>3. ASSUME NEW q \in Requests, Checkout(q) \/ CheckoutRefused(q) \/ Apply(q) \/ ApplyFails(q)
      PROVE  owner' = owner
  BY <1>1, <1>3, CallSteps
<1>4. ASSUME NEW d \in Destroys, Remove(d) \/ RemoveFails(d) \/ Destroyed(d)
      PROVE  owner' = owner
  BY <1>1, <1>4, DestroySteps
<1>5. ASSUME NEW d \in Destroys, NEW j \in Instances, Destroy(d, j)
      PROVE  owner' = owner
  BY <1>1, <1>5, DestroySteps
<1>6. CASE Killed \/ Flush \/ Exit \/ Quiet
  BY <1>6, EndSteps DEF Quiet
<1> QED BY <1>2, <1>3, <1>4, <1>5, <1>6, Cases

(* A chain that was flushed has been flushed.                               *)
LEMMA FlushedStays ==
  ASSUME TypeOK, [Next]_vars, process \in {"clearing", "exited"} \/ Flush
  PROVE  process' \in {"clearing", "exited"}
<1>1. ASSUME NEW r \in Requests, Checkout(r) \/ CheckoutRefused(r) \/ Apply(r) \/ ApplyFails(r)
      PROVE  process' = process
  BY <1>1, CallSteps
<1>2. ASSUME NEW r \in Requests, NEW j \in Instances, CheckedOut(r, j)
      PROVE  process' = process
  BY <1>2, CallSteps
<1>3. ASSUME NEW d \in Destroys, Remove(d) \/ RemoveFails(d) \/ Destroyed(d)
      PROVE  process' = process
  BY <1>3, DestroySteps
<1>4. ASSUME NEW d \in Destroys, NEW j \in Instances, Destroy(d, j)
      PROVE  process' = process
  BY <1>4, DestroySteps
<1>5. CASE Exit \/ Killed \/ Quiet
  BY <1>5, EndSteps DEF Quiet, Alive
<1>6. CASE Flush
  BY <1>6, EndSteps
<1> QED BY <1>1, <1>2, <1>3, <1>4, <1>5, <1>6, Cases

LEMMA RulesStayKeeps ==
  ASSUME CallInv, CallInv', RulesAreAdded, RulesInOrder, RulesStay, [Next]_vars
  PROVE  RulesStay'
<1>1. /\ TypeOK /\ OwnedByCall
      /\ owner \in [Instances -> Requests \cup {None}] /\ None \notin Requests \cup Instances
      /\ owner' \in [Instances -> Requests \cup {None}]
  BY TypeParts, AnsweredStays, ManagerAssumption DEF CallInv, Pool!TypeOK
<1>2. process' \in {"clearing", "exited"} \/ ~(process \in {"clearing", "exited"} \/ Flush)
  BY <1>1, FlushedStays
<1>3. CASE process' \in {"clearing", "exited"}
  BY <1>3 DEF RulesStay
<1>4. CASE process \notin {"clearing", "exited"} /\ ~Flush
  <2> SUFFICES ASSUME NEW i \in Instances, owner'[i] # None,
                      NEW a \in 1 .. Added(owner[i])'
               PROVE  Has(i, a)' \/ Dealt(i, a)'
    BY DEF RulesStay
  <2>1. owner[i] # None
    <3> SUFFICES ASSUME owner[i] = None PROVE FALSE
      OBVIOUS
    <3>1. Added(owner[i])' = 0
      BY NewOwner
    <3> QED BY <3>1
  <2>2. PICK o \in Requests : owner[i] = o /\ call[o].inst = i
    BY <1>1, <2>1 DEF OwnedByCall
  <2>3. owner'[i] = o /\ Added(owner[i])' = Added(o)'
    BY <1>1, <2>1, <2>2, AnsweredStays DEF Added
  <2>4. Added(o) \in Nat /\ Added(o) <= Len(Policy(i)) /\ Len(Policy(i)) \in Nat
    <3>1. Len(Policy(i)) \in 1 .. 6 /\ Policy(i) = Rules(o)
      BY <1>1, <2>1, <2>2, RulesApart
    <3> QED BY <1>1, <3>1, AddedBound
  <2>5. CASE a \in 1 .. Added(o)
    <3>1. Has(i, a) \/ Dealt(i, a)
      BY <1>4, <2>1, <2>2, <2>5 DEF RulesStay
    <3>2. a \in 1 .. Len(Policy(i))
      BY <2>4, <2>5
    <3> QED BY <1>4, <2>1, <3>1, <3>2, HasAndDealt
  <2>6. CASE a \notin 1 .. Added(o)
    <3>1. Apply(o)
      BY <1>1, <2>2, <2>3, <2>6, AddedStays
    <3>2. PICK k \in Nat : /\ k = call[o].k /\ Added(o) = k - 1 /\ Added(o)' = k
                           /\ Len(chain') = Len(chain) + 1
                           /\ chain'[Len(chain) + 1] = RuleIs(i, k)
      BY <1>1, <2>2, <3>1, ApplyExtends
    <3>3. a = k
      <4>1. a \in 1 .. k /\ a \notin 1 .. k - 1
        BY <2>3, <2>6, <3>2
      <4> QED BY <4>1
    <3>4. Len(chain) + 1 \in 1 .. Len(chain')
      BY <1>1, <3>2, ChainElements
    <3>5. RuleIs(i, k)' = RuleIs(i, k)
      BY <2>2, <2>3 DEF RuleIs, ModeFor
    <3> QED BY <3>2, <3>3, <3>4, <3>5 DEF Has
  <2> QED BY <2>5, <2>6
<1> QED BY <1>2, <1>3, <1>4

LEMMA AddedParsesKeeps ==
  ASSUME CallInv, CallInv', AddedParses, [Next]_vars
  PROVE  AddedParses'
<1>1. /\ TypeOK /\ OwnedByCall
      /\ owner \in [Instances -> Requests \cup {None}] /\ None \notin Requests \cup Instances
      /\ owner' \in [Instances -> Requests \cup {None}]
  BY TypeParts, AnsweredStays, ManagerAssumption DEF CallInv, Pool!TypeOK
<1> SUFFICES ASSUME NEW i \in Instances, owner'[i] # None, NEW a \in 1 .. Added(owner[i])'
             PROVE  ~Network!Refused(Policy(i)[a])'
  BY DEF AddedParses
<1>2. owner[i] # None
  <2> SUFFICES ASSUME owner[i] = None PROVE FALSE
    OBVIOUS
  <2>1. Added(owner[i])' = 0
    BY NewOwner
  <2> QED BY <2>1
<1>3. PICK o \in Requests : owner[i] = o /\ call[o].inst = i
  BY <1>1, <1>2 DEF OwnedByCall
<1>4. owner'[i] = o /\ Added(owner[i])' = Added(o)' /\ Policy(i)' = Policy(i) /\ Policy(i) = Rules(o)
  BY <1>1, <1>2, <1>3, AnsweredStays DEF Added, Policy, ModeFor, Rules
<1>5. CASE a \in 1 .. Added(o)
  <2>1. ~Network!Refused(Policy(i)[a])
    BY <1>2, <1>3, <1>5 DEF AddedParses
  <2> QED BY <1>4, <2>1 DEF Network!Refused
<1>6. CASE a \notin 1 .. Added(o)
  <2>1. Apply(o)
    BY <1>1, <1>3, <1>4, <1>6, AddedStays
  <2>2. /\ ~Network!Refused(Rules(o)[call[o].k])
        /\ call[o].k \in Nat /\ Added(o) = call[o].k - 1 /\ Added(o)' = call[o].k
    BY <1>1, <2>1, CallSteps, ApplyExtends
  <2>3. a = call[o].k
    <3>1. a \in 1 .. call[o].k /\ a \notin 1 .. call[o].k - 1
      BY <1>4, <1>6, <2>2
    <3> QED BY <2>2, <3>1
  <2> QED BY <1>4, <2>2, <2>3 DEF Network!Refused
<1> QED BY <1>5, <1>6

(* A set with one more member.                                              *)
LEMMA OneMore ==
  ASSUME NEW S, IsFiniteSet(S), NEW x
  PROVE  /\ IsFiniteSet(S \cup {x}) /\ Cardinality(S \cup {x}) <= Cardinality(S) + 1
         /\ Cardinality(S) \in Nat /\ Cardinality(S \cup {x}) \in Nat
<1>1. /\ IsFiniteSet(S \cup {x})
      /\ Cardinality(S \cup {x}) = IF x \in S THEN Cardinality(S) ELSE Cardinality(S) + 1
  BY FS_AddElement
<1>2. Cardinality(S) \in Nat
  BY FS_CardinalityType
<1> QED BY <1>1, <1>2

(* A step taints no other instance than that of a removal that fails.       *)
LEMMA TaintedSteps ==
  ASSUME CallInv, CallInv', RulesAreAdded, RulesInOrder, [Next]_vars,
         NEW i \in Tainted', i \notin Tainted
  PROVE  /\ \E d \in Destroys : RemoveFails(d)
         /\ \A d \in Destroys : RemoveFails(d) => destroy[d].inst = i
<1>1. /\ TypeOK /\ OwnedByCall
      /\ owner \in [Instances -> Requests \cup {None}] /\ None \notin Requests
  BY TypeParts, ManagerAssumption DEF CallInv, Pool!TypeOK
<1>2. i \in Instances /\ owner'[i] # None
  BY DEF Tainted
<1>3. PICK a \in 1 .. Len(Policy(i))' : Dealt(i, a)' /\ Has(i, a)'
  BY DEF Tainted
<1>4. owner[i] # None
  <2> SUFFICES ASSUME owner[i] = None PROVE FALSE
    OBVIOUS
  <2>1. ~Answered(i)'
    BY <1>2, NewOwner
  <2>2. \A b : Dealt(i, b)' => Answered(i)'
    BY <1>2 DEF CallInv, RemovesWhole, Dealt, Removing
  <2> QED BY <1>3, <2>1, <2>2
<1>5. Policy(i)' = Policy(i)
  BY <1>1, <1>2, <1>4, AnsweredStays DEF Policy, ModeFor
<1>6. a \in 1 .. Len(Policy(i)) /\ ~(Dealt(i, a) /\ Has(i, a))
  BY <1>2, <1>3, <1>4, <1>5 DEF Tainted
<1>7. CASE Flush
  <2>1. UNCHANGED <<owner, destroy>> /\ (chain' = <<>> \/ chain' = chain)
    BY <1>7, EndSteps
  <2>2. Has(i, a)' => Has(i, a)
    BY <2>1 DEF Has, RuleIs, ModeFor
  <2>3. Dealt(i, a)' => Dealt(i, a)
    BY <2>1 DEF Dealt, Removing
  <2> QED BY <1>3, <1>6, <2>2, <2>3
<1>8. CASE ~Flush
  <2>1. ASSUME NEW r \in Requests, Apply(r), i = call[r].inst
        PROVE  ~Dealt(i, a)
    <3>1. call[r].pc = "applying" /\ owner[i] = r
      BY <1>1, <1>2, <2>1, CallSteps DEF OwnedByCall
    <3>2. ~Answered(i)
      BY <3>1 DEF Answered
    <3> QED BY <1>2, <3>2, DealtIsWhole
  <2>2. \/ Has(i, a)' <=> Has(i, a)
        \/ \E r \in Requests : Apply(r) /\ i = call[r].inst /\ Has(i, a)'
        \/ \E d \in Destroys : Remove(d) /\ Dealt(i, a)' /\ ~Has(i, a)'
    BY <1>2, <1>4, <1>6, <1>8, HasAndDealt
  <2>3. \/ Dealt(i, a)' <=> Dealt(i, a)
        \/ \E d \in Destroys : Remove(d) /\ Dealt(i, a)' /\ ~Has(i, a)'
        \/ /\ Dealt(i, a)' /\ \E d \in Destroys : RemoveFails(d)
           /\ \A d \in Destroys : RemoveFails(d) => destroy[d].inst = i
    BY <1>2, <1>4, <1>6, <1>8, HasAndDealt
  <2> QED BY <1>3, <1>6, <2>1, <2>2, <2>3
<1> QED BY <1>7, <1>8

LEMMA TaintedKeeps ==
  ASSUME CallInv, CallInv', RulesAreAdded, RulesInOrder, TaintedPerFault, [Next]_vars
  PROVE  TaintedPerFault'
<1>1. /\ ProcessType /\ TypeOK
      /\ IsFiniteSet(Tainted) /\ Cardinality(Tainted) <= faults["remove"]
  BY TypeParts DEF CallInv, TaintedPerFault
<1>2. faults["remove"] \in Nat /\ faults'["remove"] \in Nat /\ faults'["remove"] >= faults["remove"]
  BY <1>1, ProcessTypeKeeps DEF ProcessType, FaultKinds
<1>3. CASE \A d \in Destroys : ~RemoveFails(d)
  <2>1. Tainted' \subseteq Tainted
    BY <1>3, TaintedSteps
  <2>2. /\ IsFiniteSet(Tainted') /\ Cardinality(Tainted') <= Cardinality(Tainted)
        /\ Cardinality(Tainted) \in Nat /\ Cardinality(Tainted') \in Nat
    BY <1>1, <2>1, FS_Subset, FS_CardinalityType
  <2> QED BY <1>1, <1>2, <2>2 DEF TaintedPerFault
<1>4. ASSUME NEW d \in Destroys, RemoveFails(d)
      PROVE  TaintedPerFault'
  <2>1. Tainted' \subseteq Tainted \cup {destroy[d].inst}
    BY <1>4, TaintedSteps
  <2>2. faults'["remove"] = faults["remove"] + 1
    BY <1>1, <1>4, DestroySteps, FaultCounts DEF FaultKinds
  <2>3. PICK T : T = Tainted \cup {destroy[d].inst}
    OBVIOUS
  <2>4. /\ IsFiniteSet(T) /\ Cardinality(T) <= Cardinality(Tainted) + 1
        /\ Cardinality(Tainted) \in Nat /\ Cardinality(T) \in Nat
    BY <1>1, <2>3, OneMore
  <2>5. /\ IsFiniteSet(Tainted') /\ Cardinality(Tainted') <= Cardinality(T)
        /\ Cardinality(Tainted') \in Nat
    BY <2>1, <2>3, <2>4, FS_Subset, FS_CardinalityType
  <2> QED BY <1>1, <1>2, <2>2, <2>4, <2>5 DEF TaintedPerFault
<1> QED BY <1>3, <1>4

(* The steps by what they do to the chain.                                  *)
LEMMA ChainSteps ==
  ASSUME TypeOK, [Next]_vars
  PROVE  \/ chain' = chain \/ (Flush /\ chain' = <<>>) \/ (\E r \in Requests : Apply(r))
         \/ \E d \in Destroys : Remove(d)
<1>1. ASSUME NEW r \in Requests, Checkout(r) \/ CheckoutRefused(r) \/ ApplyFails(r)
      PROVE  chain' = chain
  BY <1>1, CallSteps
<1>2. ASSUME NEW r \in Requests, NEW j \in Instances, CheckedOut(r, j)
      PROVE  chain' = chain
  BY <1>2, CallSteps
<1>3. ASSUME NEW d \in Destroys, RemoveFails(d) \/ Destroyed(d)
      PROVE  chain' = chain
  BY <1>3, DestroySteps
<1>4. ASSUME NEW d \in Destroys, NEW j \in Instances, Destroy(d, j)
      PROVE  chain' = chain
  BY <1>4, DestroySteps
<1>5. CASE Killed \/ Quiet \/ Flush \/ Exit
  BY <1>5, EndSteps DEF Quiet
<1> QED BY <1>1, <1>2, <1>3, <1>4, <1>5, Cases

LEMMA OrderKeeps ==
  ASSUME CallInv, CallInv', RulesAreAdded, RulesInOrder, [Next]_vars
  PROVE  RulesAreAdded' /\ RulesInOrder'
<1>1. /\ TypeOK /\ TypeOK' /\ OwnedByCall
      /\ owner \in [Instances -> Requests \cup {None}]
  BY TypeParts DEF CallInv, Pool!TypeOK
<1>2. ASSUME NEW r \in Requests, Apply(r)
      PROVE  RulesAreAdded' /\ RulesInOrder'
  BY <1>1, <1>2, ApplyKeepsOrder
<1>3. ASSUME NEW d \in Destroys, Remove(d)
      PROVE  RulesAreAdded' /\ RulesInOrder'
  BY <1>3, RemoveKeepsOrder
<1>4. CASE Flush /\ chain' = <<>>
  BY <1>4 DEF RulesAreAdded, RulesInOrder
<1>5. CASE chain' = chain /\ \A r \in Requests : ~Apply(r)
  <2>1. ASSUME NEW i \in Instances, owner[i] # None
        PROVE  Added(owner[i])' = Added(owner[i])
    <3>1. PICK o \in Requests : owner[i] = o /\ call[o].inst = i /\ i # None
      BY <1>1, <2>1, ManagerAssumption DEF OwnedByCall
    <3>2. owner'[i] = o
      BY <1>1, <2>1, <3>1, AnsweredStays
    <3>3. Added(o)' = Added(o)
      BY <1>5, <3>1, AddedStays
    <3> QED BY <3>1, <3>2, <3>3 DEF Added
  <2> QED BY <1>1, <1>5, <2>1, ChainUntouched
<1> QED BY <1>1, <1>2, <1>3, <1>4, <1>5, ChainSteps

LEMMA ChainKeeps ==
  ASSUME CallInv, CallInv', ChainInv, [Next]_vars
  PROVE  ChainInv'
BY OrderKeeps, RulesStayKeeps, AddedParsesKeeps, TaintedKeeps DEF ChainInv

----------------------------------------------------------------------------
(* What is left behind                                                      *)

(* A step sticks no other instance than that of an apply that fails with a  *)
(* rule iptables takes.                                                     *)
LEMMA StuckSteps ==
  ASSUME CallInv, [Next]_vars, ~Killed, NEW i \in Stuck', i \notin Stuck
  PROVE  \E r \in Requests : /\ ApplyFails(r) /\ ~Network!Refused(Rules(r)[call[r].k])
                             /\ call[r].inst = i
<1>1. /\ TypeOK /\ OwnedByCall
      /\ owner \in [Instances -> Requests \cup {None}] /\ None \notin Requests
      /\ owner' \in [Instances -> Requests \cup {None}]
      /\ call \in [Requests -> [pc : CallStates, inst : Instances \cup {None}, k : Nat]]
  BY TypeParts, AnsweredStays, ManagerAssumption DEF CallInv, Pool!TypeOK, CallType
<1>2. PICK o \in Requests : /\ i \in Instances /\ owner'[i] = o
                            /\ call'[o].pc = "failed" /\ call'[o].k > 0
                            /\ ~Network!Refused(Rules(o)[call'[o].k])
  BY <1>1 DEF Stuck, RefusedTo, Rules, Network!Refused
<1>3. ASSUME owner' = owner
      PROVE  owner[i] = o /\ call[o].inst = i /\ call'[o] # call[o]
  <2>1. owner[i] = o /\ o # None /\ i \in Instances
    BY <1>1, <1>2, <1>3
  <2>2. call[o].inst = i
    BY <1>1, <1>2, <2>1 DEF OwnedByCall
  <2>3. call[o].pc = "failed" /\ call[o].k > 0 => Network!Refused(Rules(o)[call[o].k])
    BY <2>1 DEF Stuck, RefusedTo
  <2> QED BY <1>2, <2>1, <2>2, <2>3
<1>4. ASSUME NEW r \in Requests, Checkout(r) \/ CheckoutRefused(r) \/ Apply(r)
      PROVE  FALSE
  <2>1. owner' = owner
    BY <1>1, <1>4, CallSteps
  <2>2. r = o
    BY <1>1, <1>3, <1>4, <2>1, CallSteps
  <2>3. CASE Checkout(r) \/ Apply(r)
    <3>1. call'[r].pc # "failed"
      BY <1>1, <2>3, CallSteps
    <3> QED BY <1>2, <2>2, <3>1
  <2>4. CASE CheckoutRefused(r)
    <3>1. call'[r].k = call[r].k /\ call[r].pc = "checkout"
      BY <1>1, <2>4, CallSteps
    <3>2. call[r].k = 0
      BY <1>1, <3>1 DEF OwnedByCall
    <3> QED BY <1>2, <2>2, <3>1, <3>2
  <2> QED BY <1>4, <2>3, <2>4
<1>5. ASSUME NEW r \in Requests, NEW j \in Instances, CheckedOut(r, j)
      PROVE  FALSE
  <2>1. /\ call[r].pc = "checkout" /\ owner[j] = None /\ owner' = [owner EXCEPT ![j] = r]
        /\ \/ call' = [call EXCEPT ![r] = [pc |-> "applying", inst |-> j, k |-> 1]]
           \/ call' = [call EXCEPT ![r] = [pc |-> "answered", inst |-> j, k |-> 0]]
    BY <1>1, <1>5, CallSteps
  <2>2. o # r
    BY <1>1, <1>2, <2>1
  <2>3. call'[o] = call[o] /\ owner[i] = o
    BY <1>1, <1>2, <2>1, <2>2
  <2> QED BY <1>1, <1>2, <2>3 DEF Stuck, RefusedTo
<1>6. ASSUME NEW r \in Requests, ApplyFails(r)
      PROVE  ~Network!Refused(Rules(r)[call[r].k]) /\ call[r].inst = i
  <2>1. owner' = owner /\ call' = [call EXCEPT ![r].pc = "failed"]
    BY <1>1, <1>6, CallSteps
  <2>2. r = o
    BY <1>1, <1>3, <2>1
  <2>3. call'[o].k = call[o].k
    BY <1>1, <2>1, <2>2
  <2> QED BY <1>2, <1>3, <2>1, <2>2, <2>3
<1>7. ASSUME NEW d \in Destroys, Remove(d) \/ RemoveFails(d) \/ Destroyed(d)
      PROVE  FALSE
  BY <1>1, <1>3, <1>7, DestroySteps
<1>8. ASSUME NEW d \in Destroys, NEW j \in Instances, Destroy(d, j)
      PROVE  FALSE
  BY <1>1, <1>3, <1>8, DestroySteps
<1>9. CASE Flush \/ Exit \/ Quiet
  BY <1>3, <1>9, EndSteps DEF Quiet
<1> QED BY <1>4, <1>5, <1>6, <1>7, <1>8, <1>9, Cases

LEMMA OneCallFails ==
  ASSUME CallInv, NEW r \in Requests, ApplyFails(r), NEW q \in Requests, ApplyFails(q)
  PROVE  q = r
<1>1. TypeOK /\ CallType
  BY TypeParts DEF CallInv
<1>2. /\ call[r].pc = "applying" /\ call' = [call EXCEPT ![r].pc = "failed"]
      /\ call[q].pc = "applying" /\ call' = [call EXCEPT ![q].pc = "failed"]
  BY <1>1, CallSteps
<1>3. call'[r].pc = "failed" /\ (q # r => call'[r] = call[r])
  BY <1>1, <1>2 DEF CallType
<1> QED BY <1>2, <1>3

LEMMA StuckKeeps ==
  ASSUME CallInv, StuckPerFault, [Next]_vars
  PROVE  StuckPerFault'
<1>1. TypeOK /\ ProcessType
  BY TypeParts DEF CallInv
<1>2. /\ \A f \in FaultKinds : faults[f] \in Nat /\ faults'[f] \in Nat /\ faults'[f] >= faults[f]
      /\ "exit" \in FaultKinds /\ "apply" \in FaultKinds
  BY <1>1, ProcessTypeKeeps DEF ProcessType, FaultKinds
<1> SUFFICES ASSUME faults'["exit"] = 0
             PROVE  IsFiniteSet(Stuck') /\ Cardinality(Stuck') <= faults'["apply"]
  BY DEF StuckPerFault
<1>3. /\ IsFiniteSet(Stuck) /\ Cardinality(Stuck) <= faults["apply"]
  <2>1. faults["exit"] \in Nat /\ faults'["exit"] >= faults["exit"]
    BY <1>2
  <2>2. faults["exit"] = 0
    BY <2>1
  <2> QED BY <2>2 DEF StuckPerFault
<1>4. ~Killed
  <2> SUFFICES ASSUME Killed PROVE FALSE
    OBVIOUS
  <2>1. faults'["exit"] = faults["exit"] + 1 /\ faults["exit"] \in Nat
    BY <1>1, <1>2, EndSteps, FaultCounts
  <2> QED BY <2>1
<1>5. CASE \A r \in Requests : ApplyFails(r) => Network!Refused(Rules(r)[call[r].k])
  <2>1. Stuck' \subseteq Stuck
    BY <1>4, <1>5, StuckSteps
  <2>2. /\ IsFiniteSet(Stuck') /\ Cardinality(Stuck') <= Cardinality(Stuck)
        /\ Cardinality(Stuck) \in Nat /\ Cardinality(Stuck') \in Nat
    BY <1>3, <2>1, FS_Subset, FS_CardinalityType
  <2>3. faults["apply"] \in Nat /\ faults'["apply"] \in Nat /\ faults'["apply"] >= faults["apply"]
    BY <1>2
  <2> QED BY <1>3, <2>2, <2>3
<1>6. ASSUME NEW r \in Requests, ApplyFails(r), ~Network!Refused(Rules(r)[call[r].k])
      PROVE  IsFiniteSet(Stuck') /\ Cardinality(Stuck') <= faults'["apply"]
  <2>1. Stuck' \subseteq Stuck \cup {call[r].inst}
    <3>1. \A q \in Requests : ApplyFails(q) => q = r
      BY <1>6, OneCallFails
    <3> QED BY <1>4, <3>1, StuckSteps
  <2>2. faults'["apply"] = faults["apply"] + 1 /\ faults["apply"] \in Nat
    BY <1>1, <1>2, <1>6, CallSteps, FaultCounts
  <2>3. PICK T : T = Stuck \cup {call[r].inst}
    OBVIOUS
  <2>4. /\ IsFiniteSet(T) /\ Cardinality(T) <= Cardinality(Stuck) + 1
        /\ Cardinality(Stuck) \in Nat /\ Cardinality(T) \in Nat
    BY <1>3, <2>3, OneMore
  <2>5. /\ IsFiniteSet(Stuck') /\ Cardinality(Stuck') <= Cardinality(T)
        /\ Cardinality(Stuck') \in Nat
    BY <2>1, <2>3, <2>4, FS_Subset, FS_CardinalityType
  <2> QED BY <1>3, <2>2, <2>4, <2>5
<1> QED BY <1>5, <1>6

(* A sandbox becomes isolated with the last step of its call's loop, which  *)
(* records the policy.                                                      *)
LEMMA AnsweredSteps ==
  ASSUME CallInv, [Next]_vars, NEW i \in Instances, Answered(i)', ~Answered(i)
  PROVE  activePolicies'[i] # NoMode
<1>1. /\ TypeOK /\ OwnedByCall
      /\ owner \in [Instances -> Requests \cup {None}] /\ None \notin Requests \cup Instances
      /\ owner' \in [Instances -> Requests \cup {None}]
      /\ call \in [Requests -> [pc : CallStates, inst : Instances \cup {None}, k : Nat]]
      /\ activePolicies \in [Instances -> Network!InternetModes \cup {NoMode}]
  BY TypeParts, AnsweredStays, ManagerAssumption
     DEF CallInv, Pool!TypeOK, CallType, Network!TypeOK
<1>2. owner[i] # None
  BY NewOwner DEF Answered
<1>3. PICK o \in Requests : owner[i] = o /\ owner'[i] = o /\ call[o].inst = i
  BY <1>1, <1>2, AnsweredStays DEF OwnedByCall
<1>4. /\ call'[o].pc = "answered" /\ call'[o].k > 0
      /\ ~(call[o].pc = "answered" /\ call[o].k > 0)
  BY <1>1, <1>3 DEF Answered
<1>5. call'[o] # call[o]
  BY <1>4
<1>6. ASSUME NEW r \in Requests, Checkout(r) \/ CheckoutRefused(r) \/ ApplyFails(r)
      PROVE  FALSE
  <2>1. r = o
    BY <1>1, <1>5, <1>6, CallSteps
  <2>2. call'[r].pc # "answered"
    BY <1>1, <1>6, CallSteps
  <2> QED BY <1>4, <2>1, <2>2
<1>7. ASSUME NEW r \in Requests, NEW j \in Instances, CheckedOut(r, j)
      PROVE  FALSE
  <2>1. r = o /\ call[r].pc = "checkout"
    BY <1>1, <1>5, <1>7, CallSteps
  <2> QED BY <1>1, <1>3, <2>1 DEF OwnedByCall
<1>8. ASSUME NEW r \in Requests, Apply(r)
      PROVE  activePolicies'[i] # NoMode
  <2>1. r = o
    BY <1>1, <1>5, <1>8, CallSteps
  <2>2. /\ call' = IF call[o].k = Len(Rules(o)) THEN [call EXCEPT ![o].pc = "answered"]
                   ELSE [call EXCEPT ![o].k = call[o].k + 1]
        /\ activePolicies' = IF call[o].k = Len(Rules(o))
                             THEN [activePolicies EXCEPT ![i] = ModeOf[o]] ELSE activePolicies
        /\ call[o].pc = "applying"
    BY <1>1, <1>3, <1>8, <2>1, CallSteps DEF Network!ApplyRule, Rules
  <2>3. call[o].k = Len(Rules(o))
    BY <1>1, <1>4, <2>2
  <2>4. ModeOf[o] # NoMode
    BY ManagerAssumption
  <2>5. activePolicies' = [activePolicies EXCEPT ![i] = ModeOf[o]]
    BY <2>2, <2>3
  <2> QED BY <1>1, <2>4, <2>5
<1>9. ASSUME NEW d \in Destroys, Remove(d) \/ RemoveFails(d) \/ Destroyed(d)
      PROVE  FALSE
  BY <1>1, <1>5, <1>9, DestroySteps
<1>10. ASSUME NEW d \in Destroys, NEW j \in Instances, Destroy(d, j)
       PROVE  FALSE
  BY <1>1, <1>5, <1>10, DestroySteps
<1>11. ~Flush /\ ~Exit /\ ~Quiet
  BY <1>5, EndSteps DEF Quiet
<1>12. ~Killed
  BY <1>1, <1>4, AfterKill
<1> QED BY <1>6, <1>7, <1>8, <1>9, <1>10, <1>11, <1>12, Cases

(* A recorded policy is forgotten with the last step of a removal.          *)
LEMMA ForgottenSteps ==
  ASSUME CallInv, [Next]_vars, ~Exit, ~Killed,
         NEW i \in Instances, activePolicies[i] # NoMode, activePolicies'[i] = NoMode
  PROVE  \E d \in Destroys : Removing(d, i)' /\ destroy'[d].k = 0
<1>1. /\ TypeOK
      /\ activePolicies \in [Instances -> Network!InternetModes \cup {NoMode}]
      /\ destroy \in [Destroys -> [pc : DestroyStates, inst : Instances \cup {None},
                                   mode : Network!InternetModes \cup {NoMode}, k : Nat]]
  BY TypeParts DEF CallInv, Network!TypeOK, DestroyType
<1>2. ASSUME NEW d \in Destroys, Remove(d) \/ RemoveFails(d)
      PROVE  Removing(d, i)' /\ destroy'[d].k = 0
  <2>1. /\ destroy[d].pc = "removing"
        /\ destroy' = [destroy EXCEPT
             ![d].pc = IF destroy[d].k = 1 THEN "destroying" ELSE "removing",
             ![d].k = destroy[d].k - 1]
        /\ activePolicies' = IF destroy[d].k = 1
                             THEN [activePolicies EXCEPT ![destroy[d].inst] = NoMode]
                             ELSE activePolicies
    BY <1>1, <1>2, DestroySteps
  <2>2. destroy[d].k = 1 /\ destroy[d].inst = i
    BY <1>1, <2>1
  <2>3. destroy[d].mode # NoMode
    BY <2>1 DEF CallInv, RemovesWhole
  <2>4. /\ destroy'[d].inst = i /\ destroy'[d].mode = destroy[d].mode
        /\ destroy'[d].k = destroy[d].k - 1
    BY <1>1, <2>1, <2>2
  <2> QED BY <2>2, <2>3, <2>4 DEF Removing
<1>3. ASSUME NEW r \in Requests, Apply(r)
      PROVE  FALSE
  <2>1. activePolicies' = IF call[r].k = Len(Network!RulesFor[ModeOf[r]])
                          THEN [activePolicies EXCEPT ![call[r].inst] = ModeOf[r]]
                          ELSE activePolicies
    BY <1>1, <1>3, CallSteps DEF Network!ApplyRule
  <2>2. ModeOf[r] # NoMode
    BY ManagerAssumption
  <2> QED BY <1>1, <2>1, <2>2
<1>4. ASSUME NEW r \in Requests, Checkout(r) \/ CheckoutRefused(r) \/ ApplyFails(r)
      PROVE  FALSE
  BY <1>1, <1>4, CallSteps
<1>5. ASSUME NEW r \in Requests, NEW j \in Instances, CheckedOut(r, j)
      PROVE  FALSE
  BY <1>1, <1>5, CallSteps
<1>6. ASSUME NEW d \in Destroys, Destroyed(d)
      PROVE  FALSE
  BY <1>1, <1>6, DestroySteps
<1>7. ASSUME NEW d \in Destroys, NEW j \in Instances, Destroy(d, j)
      PROVE  FALSE
  BY <1>1, <1>7, DestroySteps
<1>8. ~Flush /\ ~Quiet
  BY EndSteps DEF Quiet
<1> QED BY <1>2, <1>3, <1>4, <1>5, <1>6, <1>7, <1>8, Cases

(* A destroy call that is done with its rules stays so.                     *)
LEMMA DoneStays ==
  ASSUME CallInv, [Next]_vars, NEW i \in Instances, NEW d \in Destroys,
         Removing(d, i), destroy[d].k = 0
  PROVE  Removing(d, i)' /\ destroy'[d].k = 0
<1>1. /\ TypeOK
      /\ destroy \in [Destroys -> [pc : DestroyStates, inst : Instances \cup {None},
                                   mode : Network!InternetModes \cup {NoMode}, k : Nat]]
      /\ destroy[d].pc = "removing" =>
           destroy[d].k \in 1 .. Len(Network!RulesFor[destroy[d].mode])
      /\ destroy[d].pc # "idle"
  BY TypeParts DEF CallInv, DestroyType, RemovesWhole, Removing
<1>2. CASE destroy'[d] = destroy[d]
  BY <1>2 DEF Removing
<1>3. ASSUME NEW e \in Destroys, Remove(e) \/ RemoveFails(e)
      PROVE  destroy'[d] = destroy[d]
  <2>1. /\ destroy[e].pc = "removing"
        /\ destroy' = [destroy EXCEPT
             ![e].pc = IF destroy[e].k = 1 THEN "destroying" ELSE "removing",
             ![e].k = destroy[e].k - 1]
    BY <1>1, <1>3, DestroySteps
  <2>2. destroy[d].pc # "removing"
    BY <1>1
  <2>3. d # e
    BY <2>1, <2>2
  <2> QED BY <1>1, <2>1, <2>3
<1>4. ASSUME NEW e \in Destroys, Destroyed(e)
      PROVE  Removing(d, i)' /\ destroy'[d].k = 0
  <2>1. destroy' = [destroy EXCEPT ![e].pc = "answered"]
    BY <1>1, <1>4, DestroySteps
  <2>2. /\ destroy'[d].inst = destroy[d].inst /\ destroy'[d].mode = destroy[d].mode
        /\ destroy'[d].k = destroy[d].k
    BY <1>1, <2>1
  <2> QED BY <2>2 DEF Removing
<1>5. ASSUME NEW e \in Destroys, NEW j \in Instances, Destroy(e, j)
      PROVE  destroy'[d] = destroy[d]
  BY <1>1, <1>5, DestroySteps
<1>6. ASSUME NEW r \in Requests, Checkout(r) \/ CheckoutRefused(r) \/ Apply(r) \/ ApplyFails(r)
      PROVE  destroy' = destroy
  BY <1>1, <1>6, CallSteps
<1>7. ASSUME NEW r \in Requests, NEW j \in Instances, CheckedOut(r, j)
      PROVE  destroy' = destroy
  BY <1>1, <1>7, CallSteps
<1>8. CASE Killed
  BY <1>1, <1>8, AfterKill DEF Removing
<1>9. CASE Flush \/ Exit \/ Quiet
  BY <1>2, <1>9, EndSteps DEF Quiet
<1> QED BY <1>2, <1>3, <1>4, <1>5, <1>6, <1>7, <1>8, <1>9, Cases

LEMMA ForgottenKeeps ==
  ASSUME CallInv, ForgottenWhenDone, [Next]_vars
  PROVE  ForgottenWhenDone'
<1>1. TypeOK /\ ProcessType
  BY TypeParts DEF CallInv
<1> SUFFICES ASSUME process' # "exited", faults'["exit"] = 0,
                    NEW i \in Instances, Answered(i)', activePolicies'[i] = NoMode
             PROVE  \E d \in Destroys : Removing(d, i)' /\ destroy'[d].k = 0
  BY DEF ForgottenWhenDone
<1>2. faults["exit"] \in Nat /\ faults["exit"] = 0
  BY <1>1, ProcessTypeKeeps DEF ProcessType, FaultKinds
<1>3. ~Killed /\ ~Exit
  <2>1. Killed => faults'["exit"] = faults["exit"] + 1
    BY <1>1, EndSteps, FaultCounts DEF FaultKinds
  <2> QED BY <1>2, <2>1, EndSteps
<1>4. process # "exited"
  BY <1>1, NothingAfterExit DEF vars
<1>5. Answered(i)
  BY AnsweredSteps
<1>6. CASE activePolicies[i] = NoMode
  BY <1>2, <1>4, <1>5, <1>6, DoneStays DEF ForgottenWhenDone
<1>7. CASE activePolicies[i] # NoMode
  BY <1>3, <1>7, ForgottenSteps
<1> QED BY <1>6, <1>7

(* The steps by what they do to the process and to the clients that had     *)
(* hung up.                                                                 *)
LEMMA HungUpSteps ==
  ASSUME TypeOK, [Next]_vars
  PROVE  \/ Stop
         \/ hungUp' = hungUp /\ (process' \in {"stopping", "flushing", "clearing", "exited"} =>
                                  process \in {"stopping", "flushing", "clearing", "exited"})
<1>1. ASSUME NEW r \in Requests, Checkout(r) \/ CheckoutRefused(r) \/ Apply(r) \/ ApplyFails(r)
      PROVE  process' = process /\ hungUp' = hungUp
  BY <1>1 DEF Checkout, CheckoutRefused, Apply, ApplyFails
<1>2. ASSUME NEW r \in Requests, NEW j \in Instances, CheckedOut(r, j)
      PROVE  process' = process /\ hungUp' = hungUp
  BY <1>2 DEF CheckedOut
<1>3. ASSUME NEW d \in Destroys, Remove(d) \/ RemoveFails(d) \/ Destroyed(d)
      PROVE  process' = process /\ hungUp' = hungUp
  BY <1>3 DEF Remove, RemoveFails, Destroyed
<1>4. ASSUME NEW d \in Destroys, NEW j \in Instances, Destroy(d, j)
      PROVE  process' = process /\ hungUp' = hungUp
  BY <1>4 DEF Destroy
<1> QED BY <1>1, <1>2, <1>3, <1>4 DEF Next, Start, PoolTimer, Signal, Stopped, Flush, Exit, Killed,
           Restart, vars

(* No call begins, and none gets going, once the server has closed.         *)
LEMMA NoneBegins ==
  ASSUME CallInv, OnlyHungUp, [Next]_vars,
         process' \in {"stopping", "flushing", "clearing", "exited"}, NEW r \in Requests,
         call'[r].pc \in {"checkout", "applying"}
  PROVE  r \in hungUp'
<1>1. /\ TypeOK
      /\ call \in [Requests -> [pc : CallStates, inst : Instances \cup {None}, k : Nat]]
  BY TypeParts DEF CallInv, CallType
<1>2. CASE Stop
  BY <1>2 DEF Stop
<1>3. CASE ~Stop
  <2>1. hungUp' = hungUp /\ process \in {"stopping", "flushing", "clearing", "exited"}
    BY <1>1, <1>3, HungUpSteps
  <2>2. call[r].pc \in {"checkout", "applying"}
    <3>1. ASSUME NEW q \in Requests, Checkout(q)
          PROVE  FALSE
      BY <2>1, <3>1 DEF Checkout
    <3>2. ASSUME NEW q \in Requests, CheckoutRefused(q) \/ ApplyFails(q) \/ Apply(q)
          PROVE  call[r].pc \in {"checkout", "applying"}
      BY <1>1, <3>2, CallSteps
    <3>3. ASSUME NEW q \in Requests, NEW j \in Instances, CheckedOut(q, j)
          PROVE  call[r].pc \in {"checkout", "applying"}
      BY <1>1, <3>3, CallSteps
    <3>4. ASSUME NEW d \in Destroys, Remove(d) \/ RemoveFails(d) \/ Destroyed(d)
          PROVE  call' = call
      BY <1>1, <3>4, DestroySteps
    <3>5. ASSUME NEW d \in Destroys, NEW j \in Instances, Destroy(d, j)
          PROVE  call' = call
      BY <1>1, <3>5, DestroySteps
    <3>6. CASE Killed
      BY <1>1, <3>6, AfterKill
    <3>7. CASE Flush \/ Exit \/ Quiet
      BY <3>7, EndSteps DEF Quiet
    <3> QED BY <3>1, <3>2, <3>3, <3>4, <3>5, <3>6, <3>7, Cases
  <2> QED BY <2>1, <2>2 DEF OnlyHungUp
<1> QED BY <1>2, <1>3

(* A call keeps its instance.                                               *)
LEMMA InstanceStays ==
  ASSUME CallInv, [Next]_vars, NEW r \in Requests, call[r].inst \in Instances
  PROVE  call'[r].inst = call[r].inst
<1>1. /\ TypeOK /\ OwnedByCall /\ None \notin Requests \cup Instances
      /\ owner \in [Instances -> Requests \cup {None}]
  BY TypeParts, ManagerAssumption DEF CallInv, Pool!TypeOK
<1>2. owner[call[r].inst] = r /\ owner[call[r].inst] # None
  BY <1>1 DEF OwnedByCall
<1>3. owner'[call[r].inst] = r
  BY <1>1, <1>2, AnsweredStays
<1>4. OwnedByCall'
  BY OwnedByCallKeeps DEF CallInv
<1> QED BY <1>3, <1>4 DEF OwnedByCall

(* What is appended after the flush is appended by one of those clients'    *)
(* calls.                                                                   *)
LEMMA HungUpKeeps ==
  ASSUME CallInv, RulesInOrder, OnlyHungUp, [Next]_vars
  PROVE  OnlyHungUp'
<1>1. TypeOK /\ ProcessType /\ OwnedByCall
  BY TypeParts DEF CallInv
<1>2. process' \in {"stopping", "flushing", "clearing", "exited"} =>
        \A r \in Requests : call'[r].pc \in {"checkout", "applying"} => r \in hungUp'
  BY NoneBegins
<1> SUFFICES ASSUME process' \in {"clearing", "exited"}, faults'["flush"] = 0,
                    NEW p \in 1 .. Len(chain')
             PROVE  \E r \in hungUp' : call'[r].inst = chain'[p].inst
  BY <1>2 DEF OnlyHungUp
<1>3. faults["flush"] = 0
  <2>1. /\ faults["flush"] \in Nat /\ faults'["flush"] \in Nat
        /\ faults'["flush"] >= faults["flush"]
    BY <1>1, ProcessTypeKeeps DEF ProcessType, FaultKinds
  <2> QED BY <2>1
<1>4. CASE Flush
  <2>1. Fault("flush") => faults'["flush"] = faults["flush"] + 1 /\ faults["flush"] \in Nat
    BY <1>1, FaultCounts DEF ProcessType, FaultKinds
  <2>2. chain' = <<>>
    BY <1>3, <1>4, <2>1, EndSteps
  <2> QED BY <2>2
<1>5. CASE ~Flush
  <2>1. process \in {"clearing", "exited"}
    <3>1. ASSUME NEW r \in Requests, Checkout(r) \/ CheckoutRefused(r) \/ Apply(r) \/ ApplyFails(r)
          PROVE  process' = process
      BY <1>1, <3>1, CallSteps
    <3>2. ASSUME NEW r \in Requests, NEW j \in Instances, CheckedOut(r, j)
          PROVE  process' = process
      BY <1>1, <3>2, CallSteps
    <3>3. ASSUME NEW d \in Destroys, Remove(d) \/ RemoveFails(d) \/ Destroyed(d)
          PROVE  process' = process
      BY <1>1, <3>3, DestroySteps
    <3>4. ASSUME NEW d \in Destroys, NEW j \in Instances, Destroy(d, j)
          PROVE  process' = process
      BY <1>1, <3>4, DestroySteps
    <3>5. CASE Exit \/ Killed \/ Quiet
      BY <3>5, EndSteps DEF Quiet
    <3> QED BY <1>5, <3>1, <3>2, <3>3, <3>4, <3>5, Cases
  <2>2. hungUp' = hungUp
    BY <1>1, <2>1, HungUpSteps DEF Stop
  <2>3. ASSUME NEW q \in 1 .. Len(chain), chain'[p] = chain[q]
        PROVE  \E r \in hungUp' : call'[r].inst = chain'[p].inst
    <3>1. PICK r \in hungUp : call[r].inst = chain[q].inst
      BY <1>3, <2>1 DEF OnlyHungUp
    <3>2. r \in Requests /\ chain[q].inst \in Instances
      BY <1>1, ChainElements DEF ProcessType
    <3>3. call'[r].inst = call[r].inst
      BY <3>1, <3>2, InstanceStays
    <3> QED BY <2>2, <2>3, <3>1, <3>3
  <2>4. CASE chain' = chain
    BY <2>3, <2>4
  <2>5. ASSUME NEW r \in Requests, Apply(r)
        PROVE  \E o \in hungUp' : call'[o].inst = chain'[p].inst
    <3>1. PICK i \in Instances, k \in Nat :
            /\ i = call[r].inst
            /\ Len(chain') = Len(chain) + 1 /\ chain'[Len(chain) + 1] = RuleIs(i, k)
            /\ \A u \in 1 .. Len(chain) : chain'[u] = chain[u]
      BY <1>1, <2>5, ApplyExtends
    <3>2. Len(chain) \in Nat
      BY <1>1, ChainElements
    <3>3. CASE p \in 1 .. Len(chain)
      BY <2>3, <3>1, <3>3
    <3>4. CASE p = Len(chain) + 1
      <4>1. chain'[p].inst = i
        BY <3>1, <3>4 DEF RuleIs, Network!RuleAt
      <4>2. r \in hungUp
        BY <1>1, <2>1, <2>5, CallSteps DEF OnlyHungUp
      <4>3. call'[r].inst = i
        BY <3>1, InstanceStays
      <4> QED BY <2>2, <4>1, <4>2, <4>3
    <3> QED BY <3>1, <3>2, <3>3, <3>4
  <2>6. ASSUME NEW d \in Destroys, Remove(d)
        PROVE  \E o \in hungUp' : call'[o].inst = chain'[p].inst
    <3>1. PICK i \in Instances, k \in Nat :
            /\ owner[i] # None /\ k \in 1 .. Len(Policy(i))
            /\ Network!RuleAt(destroy[d].inst, destroy[d].mode, destroy[d].k) = RuleIs(i, k)
      BY <2>6, RemovalStep
    <3>2. chain' = Network!Deleted(RuleIs(i, k))
      BY <1>1, <2>6, <3>1, DestroySteps
    <3>3. \E q \in 1 .. Len(chain) : chain'[p] = chain[q]
      BY <1>1, <3>1, <3>2, RemovedOnce
    <3> QED BY <2>3, <3>3
  <2> QED BY <1>1, <1>5, <2>4, <2>5, <2>6, ChainSteps
<1> QED BY <1>4, <1>5

LEMMA LossKeeps ==
  ASSUME CallInv, RulesInOrder, LossInv, [Next]_vars
  PROVE  LossInv'
BY StuckKeeps, ForgottenKeeps, HungUpKeeps DEF LossInv

----------------------------------------------------------------------------
(* The invariant                                                            *)

LEMMA Starts ==
  ASSUME Init
  PROVE  CallInv /\ ChainInv /\ LossInv
<1> USE DEF Init, Pool!Init, Network!Init, NewCall, NewDestroy
<1>1. TypeOK
  <2>1. <<>> \in Seq([inst : Instances, rule : [match : SUBSET Network!Classes,
                                                target : Network!Targets]])
    OBVIOUS
  <2> QED BY <2>1 DEF TypeOK, Pool!TypeOK, Pool!ClientStates, Network!TypeOK, CallStates,
             DestroyStates, Processes
<1>2. OwnedByCall
  BY ManagerAssumption, RulesLength DEF OwnedByCall
<1>3. RemovesWhole /\ RecordsWhole
  BY DEF RemovesWhole, RecordsWhole
<1>4. Len(chain) = 0 /\ \A i \in Instances : owner[i] = None
  OBVIOUS
<1>5. Tainted = {} /\ Stuck = {}
  BY <1>4 DEF Tainted, Stuck
<1>6. IsFiniteSet({}) /\ Cardinality({}) = 0
  BY FS_EmptySet
<1>7. RulesAreAdded /\ RulesInOrder /\ RulesStay /\ AddedParses
  BY <1>4 DEF RulesAreAdded, RulesInOrder, RulesStay, AddedParses
<1>8. TaintedPerFault /\ StuckPerFault
  BY <1>5, <1>6 DEF TaintedPerFault, StuckPerFault, FaultKinds
<1>9. ForgottenWhenDone /\ OnlyHungUp
  BY <1>4 DEF ForgottenWhenDone, OnlyHungUp, Answered
<1> QED BY <1>1, <1>2, <1>3, <1>7, <1>8, <1>9 DEF CallInv, ChainInv, LossInv

LEMMA InvariantHolds ==
  Spec => [](CallInv /\ ChainInv /\ LossInv)
<1>1. Init => CallInv /\ ChainInv /\ LossInv
  BY Starts
<1>2. CallInv /\ ChainInv /\ LossInv /\ [Next]_vars => (CallInv /\ ChainInv /\ LossInv)'
  BY CallsKeep, ChainKeeps, LossKeeps DEF ChainInv
<1> QED BY <1>1, <1>2, PTL DEF Spec

----------------------------------------------------------------------------
(* What the chain does to a packet                                          *)

(* The rule that decides about a packet is one of the instance's.           *)
LEMMA VerdictIsARule ==
  ASSUME TypeOK, NEW i, NEW t
  PROVE  /\ Network!Ends(i, t) = {} => Network!VerdictOn(i, t) = "none"
         /\ Network!Ends(i, t) # {} => \E p \in Network!Ends(i, t) :
                                         Network!VerdictOn(i, t) = chain[p].rule.target
<1> DEFINE E == Network!Ends(i, t)
<1>1. E \in SUBSET Nat
  BY ChainElements DEF Network!Ends
<1>2. E # {} => \E x \in E : \A y \in E : x <= y
  BY <1>1, Least
<1> QED BY <1>2 DEF Network!VerdictOn

(* What a rule in the chain is.                                             *)
LEMMA RuleOfPolicy ==
  ASSUME CallInv, ChainInv, NEW p \in 1 .. Len(chain)
  PROVE  \E i \in Instances, a \in Nat :
           /\ chain[p].inst = i /\ owner[i] \in Requests /\ ModeFor(i) \in Network!InternetModes
           /\ a \in 1 .. Len(Policy(i)) /\ chain[p].rule = Policy(i)[a]
           /\ \A b \in 1 .. a : ~Network!Refused(Policy(i)[b])
<1>1. TypeOK /\ OwnedByCall
  BY DEF CallInv
<1>2. PICK i \in Instances : chain[p].inst = i
  BY <1>1, ChainElements
<1>3. owner[i] # None
  BY <1>2 DEF ChainInv, RulesAreAdded
<1>4. PICK a \in 1 .. Added(owner[i]) : chain[p] = RuleIs(i, a)
  BY <1>2 DEF ChainInv, RulesAreAdded
<1>5. /\ owner[i] \in Requests /\ ModeFor(i) \in Network!InternetModes
      /\ Policy(i) = Rules(owner[i]) /\ chain[p].rule = Policy(i)[a]
  BY <1>1, <1>3, <1>4, RulesApart
<1>6. /\ Added(owner[i]) \in Nat /\ Added(owner[i]) <= Len(Policy(i)) /\ Len(Policy(i)) \in Nat
  BY <1>1, <1>5, AddedBound, RulesLength
<1>7. a \in Nat /\ a \in 1 .. Len(Policy(i)) /\ \A b \in 1 .. a : b \in 1 .. Added(owner[i])
  BY <1>6
<1>8. \A b \in 1 .. a : ~Network!Refused(Policy(i)[b])
  BY <1>3, <1>7 DEF ChainInv, AddedParses
<1> QED BY <1>2, <1>5, <1>7, <1>8

(* Up to the first rule that iptables refuses, a policy accepts only what   *)
(* the mode intends.                                                        *)
LEMMA FirstRulesAccept ==
  ASSUME NEW m \in Network!InternetModes, NEW a \in 1 .. Len(Network!RulesFor[m]),
         \A b \in 1 .. a : ~Network!Refused(Network!RulesFor[m][b]),
         Network!RulesFor[m][a].target = "ACCEPT", NEW t \in Network!RulesFor[m][a].match
  PROVE  Network!Intended(m, t) = "ACCEPT"
<1> USE DEF Network!RulesFor, Network!Rule, Network!BlockPrivateRanges, Network!Outbound,
            Network!InternetModes
<1>1. CASE m = "disabled"
  BY <1>1
<1>2. CASE m = "simulated"
  BY <1>2 DEF Network!Intended
<1>3. CASE m = "monitored"
  <2>1. Len(Network!RulesFor[m]) = 6 /\ Network!Refused(Network!RulesFor[m][4])
    BY <1>3 DEF Network!Refused
  <2>2. a \in 1 .. 6 /\ ~(4 \in 1 .. a)
    BY <2>1
  <2>3. a \in {1, 2, 3}
    BY <2>2
  <2> QED BY <1>3, <2>3 DEF Network!Intended
<1> QED BY <1>1, <1>2, <1>3

(* Only the closed mode has a policy iptables takes as a whole; its rules   *)
(* drop everything.                                                         *)
LEMMA OnlyClosedParses ==
  ASSUME NEW m \in Network!InternetModes,
         \A a \in 1 .. Len(Network!RulesFor[m]) : ~Network!Refused(Network!RulesFor[m][a])
  PROVE  m = "disabled"
<1> USE DEF Network!RulesFor, Network!Rule, Network!BlockPrivateRanges, Network!Outbound,
            Network!InternetModes, Network!Refused
<1>1. CASE m = "simulated"
  <2>1. 5 \in 1 .. Len(Network!RulesFor[m]) /\ Network!Refused(Network!RulesFor[m][5])
    BY <1>1
  <2> QED BY <2>1
<1>2. CASE m = "monitored"
  <2>1. 4 \in 1 .. Len(Network!RulesFor[m]) /\ Network!Refused(Network!RulesFor[m][4])
    BY <1>2
  <2> QED BY <2>1
<1> QED BY <1>1, <1>2

LEMMA ClosedRules ==
  /\ Len(Network!RulesFor["disabled"]) = 2
  /\ \A a \in 1 .. 2 : Network!RulesFor["disabled"][a].target = "DROP"
  /\ \A t \in Network!Traffic : \E a \in 1 .. 2 : t \in Network!RulesFor["disabled"][a].match
BY DEF Network!RulesFor, Network!Rule, Network!InternetModes, Network!Traffic

(* The types of every variable; the loops over the rules stay within the    *)
(* policy (for loops of applyPolicy and removePolicy).                      *)
THEOREM TypeCorrect == Spec => []TypeOK
<1>1. CallInv => TypeOK
  BY DEF CallInv
<1> QED BY <1>1, InvariantHolds, PTL

(* shutdown: after poolManager.stop and flushAll the chain holds nothing    *)
(* but what the handlers of clients that had hung up have appended, unless  *)
(* the flush itself failed.                                                 *)
THEOREM StopLeavesNoRule == Spec => []StopFlushes
<1>1. LossInv => StopFlushes
  BY DEF LossInv, OnlyHungUp, StopFlushes
<1> QED BY <1>1, InvariantHolds, PTL

(* While policies are applied and removed, rule by rule, the rules present  *)
(* accept no packet that the whole policy of the sandbox drops: a policy    *)
(* stops at the first command that fails (applyPolicy has no catch).        *)
THEOREM IsolationHolds == Spec => []NeverWider
<1>1. CallInv /\ ChainInv => NeverWider
  <2> SUFFICES ASSUME CallInv, ChainInv, NEW i \in Instances, NEW t \in Network!Traffic,
                      Network!VerdictOn(i, t) = "ACCEPT"
               PROVE  ~(Asked(i) = NoMode) /\ Network!Intended(Asked(i), t) = "ACCEPT"
    BY DEF NeverWider, Wider
  <2>1. PICK p \in Network!Ends(i, t) : chain[p].rule.target = "ACCEPT"
    BY VerdictIsARule DEF CallInv
  <2>2. p \in 1 .. Len(chain) /\ chain[p].inst = i /\ t \in chain[p].rule.match
    BY DEF Network!Ends
  <2>3. PICK a \in Nat :
          /\ owner[i] \in Requests /\ ModeFor(i) \in Network!InternetModes
          /\ a \in 1 .. Len(Policy(i)) /\ chain[p].rule = Policy(i)[a]
          /\ \A b \in 1 .. a : ~Network!Refused(Policy(i)[b])
    BY <2>2, RuleOfPolicy
  <2>4. Asked(i) = ModeFor(i) /\ ModeFor(i) # NoMode
    BY <2>3, ManagerAssumption DEF Asked, ModeFor
  <2>5. Network!Intended(ModeFor(i), t) = "ACCEPT"
    BY <2>1, <2>2, <2>3, FirstRulesAccept DEF Policy
  <2> QED BY <2>4, <2>5
<1> QED BY <1>1, InvariantHolds, PTL

(* A 201 after a policy was applied is for the closed mode, and its rules   *)
(* are all there until a destroy of the sandbox begins or the chain is      *)
(* flushed.                                                                 *)
THEOREM AnsweredMeansIsolated == Spec => []AnsweredHasItsRules
<1>1. CallInv /\ ChainInv => AnsweredHasItsRules
  <2> SUFFICES ASSUME CallInv, ChainInv, process \notin {"clearing", "exited"},
                      NEW r \in Requests, call[r].pc = "answered", call[r].k > 0,
                      \A d \in Destroys : destroy[d].inst # call[r].inst
               PROVE  /\ ModeOf[r] = "disabled"
                      /\ \A t \in Network!Traffic :
                           Network!VerdictOn(call[r].inst, t) = Network!Intended(ModeOf[r], t)
    BY DEF AnsweredHasItsRules, Undisturbed
  <2>1. PICK i \in Instances : /\ i = call[r].inst /\ owner[i] = r
                               /\ call[r].k = Len(Rules(r))
    BY DEF CallInv, OwnedByCall
  <2>2. owner[i] # None /\ TypeOK
    BY <2>1, ManagerAssumption DEF CallInv
  <2>3. /\ ModeFor(i) = ModeOf[r] /\ ModeFor(i) \in Network!InternetModes
        /\ Policy(i) = Network!RulesFor[ModeFor(i)] /\ Added(owner[i]) = Len(Policy(i))
    <3>1. Policy(i) = Rules(r) /\ Added(r) = Len(Rules(r))
      BY <2>1, <2>2, RulesApart DEF Added
    <3> QED BY <2>1, <2>2, <3>1, RulesApart DEF ModeFor, Policy
  <2>4. \A a \in 1 .. Len(Policy(i)) : Has(i, a)
    <3>1. \A a : ~Dealt(i, a)
      BY <2>1 DEF Dealt, Removing
    <3> QED BY <2>2, <2>3, <3>1 DEF ChainInv, RulesStay
  <2>5. ModeOf[r] = "disabled"
    <3>1. \A a \in 1 .. Len(Policy(i)) : ~Network!Refused(Policy(i)[a])
      BY <2>2, <2>3 DEF ChainInv, AddedParses
    <3> QED BY <2>3, <3>1, OnlyClosedParses
  <2>6. ASSUME NEW p \in 1 .. Len(chain), chain[p].inst = i
        PROVE  chain[p].rule.target = "DROP"
    <3>1. PICK a \in Nat : a \in 1 .. Len(Policy(i)) /\ chain[p].rule = Policy(i)[a]
      BY <2>6, RuleOfPolicy
    <3> QED BY <2>3, <2>5, <3>1, ClosedRules
  <2>7. ASSUME NEW t \in Network!Traffic
        PROVE  Network!VerdictOn(i, t) = "DROP"
    <3>1. PICK a \in 1 .. Len(Policy(i)) : t \in Policy(i)[a].match /\ Policy(i)[a].target = "DROP"
      BY <2>3, <2>5, ClosedRules
    <3>2. PICK p \in 1 .. Len(chain) : chain[p] = RuleIs(i, a)
      BY <2>4 DEF Has
    <3>3. chain[p].inst = i /\ chain[p].rule = Policy(i)[a]
      BY <2>2, <3>2, RulesApart
    <3>4. p \in Network!Ends(i, t)
      BY <3>1, <3>3 DEF Network!Ends
    <3>5. PICK q \in Network!Ends(i, t) : Network!VerdictOn(i, t) = chain[q].rule.target
      BY <2>2, <3>4, VerdictIsARule
    <3> QED BY <2>6, <3>5 DEF Network!Ends
  <2>8. \A t \in Network!Traffic : Network!Intended("disabled", t) = "DROP"
    BY DEF Network!Intended
  <2> QED BY <2>1, <2>5, <2>7, <2>8
<1> QED BY <1>1, InvariantHolds, PTL

(* A rule that nobody will remove is the trace of a command that failed.    *)
THEOREM LeftoversPerFault == Spec => []RulesPerFault
<1>1. CallInv /\ ChainInv /\ LossInv => RulesPerFault
  <2> SUFFICES ASSUME CallInv, ChainInv, LossInv, process # "exited", faults["exit"] = 0
               PROVE  Cardinality({i \in Orphaned : ~RefusedTo(owner[i])})
                        <= faults["apply"] + faults["remove"]
    BY DEF RulesPerFault
  <2>1. ASSUME NEW i \in Orphaned, ~RefusedTo(owner[i])
        PROVE  i \in Stuck \cup Tainted
    <3>1. i \in Instances /\ activePolicies[i] = NoMode /\ ~Working(i)
      BY DEF Orphaned
    <3>2. PICK p \in 1 .. Len(chain) : chain[p].inst = i
      BY DEF Orphaned
    <3>3. owner[i] # None
      BY <3>2 DEF ChainInv, RulesAreAdded
    <3>4. PICK o \in Requests : owner[i] = o /\ call[o].inst = i
      BY <3>1, <3>3, RulesApart DEF CallInv, OwnedByCall
    <3>5. PICK a \in 1 .. Added(o) : chain[p] = RuleIs(i, a)
      BY <3>2, <3>4 DEF ChainInv, RulesAreAdded
    <3>6. Added(o) \in Nat /\ call[o].k \in Nat /\ call[o].pc \in CallStates
      BY AddedBound, TypeParts DEF CallInv, CallType
    <3>7. call[o].k > 0
      <4>1. Added(o) # 0
        BY <3>5
      <4> QED BY <3>6, <4>1 DEF Added
    <3>8. call[o].pc \in {"answered", "failed"}
      <4>1. call[o].pc # "applying"
        BY <3>1, <3>4 DEF Working
      <4>2. call[o].pc \notin {"idle", "checkout"}
        BY <3>7 DEF CallInv, OwnedByCall
      <4> QED BY <3>6, <4>1, <4>2 DEF CallStates
    <3>9. CASE call[o].pc = "failed"
      BY <2>1, <3>1, <3>3, <3>4, <3>7, <3>9 DEF Stuck
    <3>10. CASE call[o].pc = "answered"
      <4>1. Answered(i)
        BY <3>3, <3>4, <3>7, <3>10 DEF Answered
      <4>2. PICK d \in Destroys : Removing(d, i) /\ destroy[d].k = 0
        BY <3>1, <4>1 DEF LossInv, ForgottenWhenDone
      <4>3. a \in 1 .. Len(Policy(i)) /\ 0 < a
        <5>1. Added(o) <= Len(Policy(i)) /\ Len(Policy(i)) \in Nat
          <6>1. \A m \in 1 .. 6 : m \in Nat
            OBVIOUS
          <6> QED BY <3>1, <3>3, <3>4, <6>1, AddedBound, RulesApart DEF CallInv
        <5> QED BY <3>6, <5>1
      <4>4. Dealt(i, a) /\ Has(i, a)
        BY <3>5, <4>2, <4>3 DEF Dealt, Has
      <4> QED BY <3>1, <3>3, <4>3, <4>4 DEF Tainted
    <3> QED BY <3>8, <3>9, <3>10
  <2>2. /\ IsFiniteSet(Stuck) /\ Cardinality(Stuck) <= faults["apply"]
        /\ IsFiniteSet(Tainted) /\ Cardinality(Tainted) <= faults["remove"]
    BY DEF LossInv, StuckPerFault, ChainInv, TaintedPerFault
  <2>3. faults["apply"] \in Nat /\ faults["remove"] \in Nat
    BY TypeParts DEF CallInv, ProcessType, FaultKinds
  <2>4. PICK U : U = Stuck \cup Tainted
    OBVIOUS
  <2>5. /\ IsFiniteSet(U) /\ Cardinality(U) <= Cardinality(Stuck) + Cardinality(Tainted)
        /\ Cardinality(Stuck) \in Nat /\ Cardinality(Tainted) \in Nat /\ Cardinality(U) \in Nat
    <3>1. /\ IsFiniteSet(U) /\ IsFiniteSet(Stuck \cap Tainted)
          /\ Cardinality(U) = Cardinality(Stuck) + Cardinality(Tainted)
                                - Cardinality(Stuck \cap Tainted)
      BY <2>2, <2>4, FS_Union, FS_Intersection
    <3>2. /\ Cardinality(Stuck) \in Nat /\ Cardinality(Tainted) \in Nat
          /\ Cardinality(Stuck \cap Tainted) \in Nat
      BY <2>2, <3>1, FS_CardinalityType
    <3> QED BY <3>1, <3>2, FS_CardinalityType
  <2>6. PICK O : O = {i \in Orphaned : ~RefusedTo(owner[i])}
    OBVIOUS
  <2>7. Cardinality(O) <= Cardinality(U) /\ Cardinality(O) \in Nat
    <3>1. O \subseteq U
      BY <2>1, <2>4, <2>6
    <3> QED BY <2>5, <3>1, FS_Subset, FS_CardinalityType
  <2> QED BY <2>2, <2>3, <2>5, <2>6, <2>7
<1> QED BY <1>1, InvariantHolds, PTL

==============================================================================
