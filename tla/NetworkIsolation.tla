-------------------------- MODULE NetworkIsolation --------------------------
(***************************************************************************)
(* NetworkIsolationService (services/networkIsolation.ts): one chain of    *)
(* iptables rules shared by every sandbox, changed by one iptables command *)
(* at a time with an await between two, and the Map of the policies it     *)
(* believes applied.  A packet is abstracted to its class and a rule to    *)
(* the classes it matches.  The ten private and infrastructure ranges of   *)
(* IPv4 are one class with one rule, the two of IPv6 another, and the two  *)
(* DNS servers a third; two instances never share an interface.            *)
(***************************************************************************)
EXTENDS Integers, Sequences, SequencesExt

CONSTANTS
  Instances,  \* sandbox instances, each with a tap interface of its own
  NoMode      \* no policy

(* InternetMode *)
InternetModes == {"disabled", "simulated", "monitored"}

VARIABLES
  chain,           \* the rules of SCANBOY-SANDBOX, in order
  hooked,          \* whether FORWARD jumps to the chain
  activePolicies   \* the mode of the policy recorded for an instance

networkVars == <<chain, hooked, activePolicies>>

(* "-i tap" is traffic that leaves the sandbox, "-o tap" what enters it.    *)
Outbound == {"established", "dnsUdp", "dnsTcp", "private", "public"}
Traffic == Outbound \cup {"inbound"}
Classes == Traffic \cup {"ipv6"}
Targets == {"ACCEPT", "DROP", "LOG"}

Rule(matches, target) == [match |-> matches, target |-> target]

(* buildIsolatedRules, buildSimulatedRules and buildMonitoredRules, with    *)
(* the empty allowedHosts the provision route passes.                       *)
BlockPrivateRanges == <<Rule({"private"}, "DROP"), Rule({"ipv6"}, "DROP")>>

RulesFor ==
  [mode \in InternetModes |->
     CASE mode = "disabled" ->
            <<Rule(Outbound, "DROP"), Rule({"inbound"}, "DROP")>>
       [] mode = "simulated" ->
            <<Rule({"established"}, "ACCEPT"), Rule({"dnsUdp"}, "ACCEPT"), Rule({"dnsTcp"}, "ACCEPT")>>
              \o BlockPrivateRanges \o <<Rule(Outbound, "DROP")>>
       [] mode = "monitored" ->
            <<Rule({"established"}, "ACCEPT"), Rule({"dnsUdp"}, "ACCEPT")>>
              \o BlockPrivateRanges \o <<Rule(Outbound, "LOG"), Rule(Outbound, "ACCEPT")>>]

(* Every command is one of iptables, which is IPv4 and takes no IPv6        *)
(* destination: it exits with an error and changes nothing.                 *)
Refused(rule) == "ipv6" \in rule.match

RuleAt(i, mode, k) == [inst |-> i, rule |-> RulesFor[mode][k]]

Init ==
  /\ chain = <<>>
  /\ hooked = FALSE
  /\ activePolicies = [i \in Instances |-> NoMode]

(* initialize: the chain exists already or is created.  The test whether    *)
(* FORWARD refers to it goes through safeIptables, which never rejects, so  *)
(* the catch that would insert the reference is never run.                  *)
Initialize == UNCHANGED networkVars

(* One step of the loop of applyPolicy: -A with the k-th rule; the policy   *)
(* is recorded in the turn that ends the last one.                          *)
ApplyRule(i, mode, k) ==
  /\ chain' = Append(chain, RuleAt(i, mode, k))
  /\ activePolicies' = IF k = Len(RulesFor[mode])
                       THEN [activePolicies EXCEPT ![i] = mode] ELSE activePolicies
  /\ UNCHANGED hooked

(* -D takes the first rule that is equal; safeIptables does not say when    *)
(* there is none.                                                           *)
Deleted(rule) ==
  IF \E k \in 1..Len(chain) : chain[k] = rule
  THEN RemoveAt(chain, CHOOSE k \in 1..Len(chain) :
                         chain[k] = rule /\ \A l \in 1..k - 1 : chain[l] # rule)
  ELSE chain

(* A plausible error: the loop of removePolicy stops before the first rule. *)
RemoveRuleOffByOne(i, mode, k) ==
  /\ chain' = IF k = 1 THEN chain ELSE Deleted(RuleAt(i, mode, k))
  /\ activePolicies' = IF k = 1 THEN [activePolicies EXCEPT ![i] = NoMode] ELSE activePolicies
  /\ UNCHANGED hooked

(* One step of the loop of removePolicy, which counts down; the policy is   *)
(* forgotten after the last one.                                            *)
RemoveRule(i, mode, k) ==
  /\ chain' = Deleted(RuleAt(i, mode, k))
  /\ activePolicies' = IF k = 1 THEN [activePolicies EXCEPT ![i] = NoMode] ELSE activePolicies
  /\ UNCHANGED hooked

RemoveRuleFails(i, k) ==
  /\ activePolicies' = IF k = 1 THEN [activePolicies EXCEPT ![i] = NoMode] ELSE activePolicies
  /\ UNCHANGED <<chain, hooked>>

(* A plausible error: only the rules of recorded policies are removed.      *)
FlushChainRecorded ==
  /\ chain' = SelectSeq(chain, LAMBDA e : activePolicies[e.inst] = NoMode)
  /\ UNCHANGED <<hooked, activePolicies>>

(* flushAll: -F empties the chain; the Map is cleared when the command on   *)
(* the nat table, where there are no rules, has ended as well.              *)
FlushChain == chain' = <<>> /\ UNCHANGED <<hooked, activePolicies>>

(* Also what a new process finds: an empty Map, and the rules, which are    *)
(* the kernel's.                                                            *)
ClearPolicies ==
  /\ activePolicies' = [i \in Instances |-> NoMode]
  /\ UNCHANGED <<chain, hooked>>

----------------------------------------------------------------------------
(* What the rules of instance i in the chain say of a packet that reaches   *)
(* them: the first that matches and ends the traversal (LOG does not);      *)
(* "none" leaves the chain.                                                 *)
Ends(i, traffic) ==
  {k \in 1..Len(chain) : /\ chain[k].inst = i /\ traffic \in chain[k].rule.match
                         /\ chain[k].rule.target # "LOG"}

VerdictOn(i, traffic) ==
  LET ends == Ends(i, traffic)
  IN  IF ends = {} THEN "none" ELSE chain[CHOOSE k \in ends : \A l \in ends : k <= l].rule.target

(* What becomes of the packet: without the jump nothing reaches the rules.  *)
Fate(i, traffic) == IF hooked THEN VerdictOn(i, traffic) ELSE "none"

(* "Fully isolated: no outbound traffic at all"; "Simulated internet: allow *)
(* DNS to specific servers, block private ranges"; "Monitored/controlled    *)
(* internet: allow outbound but block private ranges".                      *)
Intended(mode, traffic) ==
  CASE mode = "disabled" -> "DROP"
    [] mode = "simulated" -> IF traffic \in {"established", "dnsUdp", "dnsTcp"} THEN "ACCEPT"
                             ELSE IF traffic = "inbound" THEN "none" ELSE "DROP"
    [] mode = "monitored" -> IF traffic = "private" THEN "DROP"
                             ELSE IF traffic = "inbound" THEN "none" ELSE "ACCEPT"

TypeOK ==
  /\ chain \in Seq([inst : Instances, rule : [match : SUBSET Classes, target : Targets]])
  /\ hooked \in BOOLEAN
  /\ activePolicies \in [Instances -> InternetModes \cup {NoMode}]

=============================================================================
