------------------------------- MODULE Scoring -------------------------------
(***************************************************************************)
(* What the steps of the default workflow store about one submission, and  *)
(* what finalize makes of it: submissionWorkflow.ts from the static        *)
(* analysis to dispatchAlerts, over the deliveries of the submission's     *)
(* job.  The submission's file decides what the services would answer;     *)
(* any of them may fail to, and a detonation the orchestrator no longer    *)
(* waits for may still store its row.                                      *)
(*                                                                         *)
(* Only static_analysis_results has a UNIQUE constraint, so a job that is  *)
(* delivered again stores the rows of the other tables a second time.      *)
(***************************************************************************)
EXTENDS VerdictEngine
CONSTANTS
  Files,            \* what the services answer about a file, a set of records
  MaxDeliveries,    \* bound: attempts and stalls of the job
  MaxFaults         \* bound: services that do not answer

FileTypes ==
  [static : StaticRows, dyn : DynRows, vt : Seq(VtRows), cves : Seq(CveRows),
   debt : DebtRows \cup {None}]

ASSUME BoundsAssumption ==
  /\ Files \subseteq FileTypes
  /\ MaxDeliveries \in Nat /\ MaxFaults \in Nat
  /\ None \notin CveRows /\ None \notin Evidence

VARIABLES
  file,          \* the submission's file
  pc,            \* the workflow's next step
  rows,          \* the tables' rows of this submission
  detonating,    \* a detonation that the orchestrator gave up waiting for
  score,         \* submissions.threat_score, None before the first finalize
  seen,          \* the evidence that score was computed from
  verdict,       \* the verdict beside that score, which is only reported
  alerts,        \* alerts dispatched
  pushed,        \* whether the hash was pushed to the EDR
  deliveries, faults

vars == <<file, pc, rows, detonating, score, seen, verdict, alerts, pushed, deliveries, faults>>

Steps == {"static", "dynamic", "vt", "cve", "debt", "yara", "score", "verdict", "alert", "done"}
NoCounts == [s \in Severities |-> 0]

Init ==
  /\ file \in Files
  /\ pc = "static"
  /\ rows = [vt |-> [i \in DOMAIN file.vt |-> 0], yara |-> NoCounts, dyn |-> 0, static |-> FALSE,
             cve |-> {}, debt |-> FALSE, trusted |-> 0, untrusted |-> 0]
  /\ detonating = FALSE
  /\ score = None /\ seen = None /\ verdict = None
  /\ alerts = 0 /\ pushed = FALSE
  /\ deliveries = 1 /\ faults = 0

(* A table stands for what the submission's rows in it say: the rows of    *)
(* dynamic_analysis_results (dyn of them) and of the tech debt look-up are *)
(* all alike; of each answer of VirusTotal it is known how many rows there *)
(* are, and of the CVE look-ups which answers there are so far.            *)

Go(step) == pc' = step /\ UNCHANGED <<file, score, seen, verdict, alerts, pushed, deliveries>>

Faulty == faults < MaxFaults /\ faults' = faults + 1

(* INSERT ... ON CONFLICT DO NOTHING into the one table with a UNIQUE      *)
(* submission_id; the IOCs are inserted whether or not that row was.       *)
StoreStatic ==
  /\ pc = "static"
  /\ rows' = [rows EXCEPT !.static = TRUE,
                          !.trusted = @ + file.static.trusted,
                          !.untrusted = @ + file.static.untrusted]
  /\ UNCHANGED <<detonating, faults>>
  /\ Go("dynamic")

(* The dynamic analysis service stores its report and answers; the         *)
(* orchestrator stores the IOCs of the answer.                             *)
StoreDynamic ==
  /\ pc = "dynamic"
  /\ rows' = [rows EXCEPT !.dyn = @ + 1,
                          !.trusted = @ + file.dyn.trusted,
                          !.untrusted = @ + file.dyn.untrusted]
  /\ UNCHANGED <<detonating, faults>>
  /\ Go("vt")

(* The 120 s are over and the detonation goes on.                          *)
AbandonDynamic ==
  /\ pc = "dynamic"
  /\ Faulty
  /\ detonating' = TRUE
  /\ UNCHANGED rows
  /\ Go("vt")

LateReport ==
  /\ detonating
  /\ detonating' = FALSE
  /\ rows' = [rows EXCEPT !.dyn = @ + 1]
  /\ UNCHANGED <<file, pc, score, seen, verdict, alerts, pushed, deliveries, faults>>

(* The look-ups read the file's hashes and version from the report, and    *)
(* without one they do nothing; up to three hashes are asked for, until    *)
(* one is known as malicious.                                              *)
Asked(answered) ==
  {i \in answered : \A j \in answered : j < i => file.vt[j].det = 0}

LookupHashes ==
  /\ pc = "vt"
  /\ rows.dyn > 0
  /\ \E answered \in SUBSET DOMAIN file.vt :
       /\ IF answered = DOMAIN file.vt THEN UNCHANGED faults ELSE Faulty
       /\ rows' = [rows EXCEPT !.vt = [i \in DOMAIN file.vt |->
                                      IF i \in Asked(answered) THEN @[i] + 1 ELSE @[i]]]
  /\ UNCHANGED detonating
  /\ Go("cve")

LookupVulnerabilities ==
  /\ pc = "cve"
  /\ rows.dyn > 0
  /\ \E answered \in SUBSET DOMAIN file.cves :
       /\ IF answered = DOMAIN file.cves THEN UNCHANGED faults ELSE Faulty
       /\ rows' = [rows EXCEPT !.cve = @ \cup {file.cves[i] : i \in answered}]
  /\ UNCHANGED detonating
  /\ Go("debt")

LookupTechDebt ==
  /\ pc = "debt"
  /\ rows.dyn > 0 \/ rows.static
  /\ \/ UNCHANGED faults /\ rows' = [rows EXCEPT !.debt = file.debt # None]
     \/ Faulty /\ UNCHANGED rows
  /\ UNCHANGED detonating
  /\ Go("yara")

(* One row per match of the report in the table, every time.               *)
StoreYaraPatternResults ==
  /\ pc = "yara"
  /\ rows.dyn > 0
  /\ rows' = [rows EXCEPT !.yara = [s \in Severities |-> @[s] + file.dyn.yara[s]]]
  /\ UNCHANGED <<detonating, faults>>
  /\ Go("score")

(* A service that does not answer, or a step that finds nothing to ask.    *)
Skip ==
  /\ \/ pc = "static" /\ Faulty /\ Go("dynamic")
     \/ pc = "vt" /\ rows.dyn = 0 /\ UNCHANGED faults /\ Go("cve")
     \/ pc = "cve" /\ rows.dyn = 0 /\ UNCHANGED faults /\ Go("debt")
     \/ pc = "debt" /\ rows.dyn = 0 /\ ~rows.static /\ UNCHANGED faults /\ Go("yara")
     \/ pc = "yara" /\ (IF rows.dyn = 0 THEN UNCHANGED faults ELSE Faulty) /\ Go("score")
  /\ UNCHANGED <<rows, detonating>>

VtStored == {file.vt[i] : i \in {j \in DOMAIN file.vt : rows.vt[j] > 0}}

(* The evidence the tables hold; which of the CVE rows comes first is not  *)
(* said by the query.                                                      *)
EvidenceWith(cve) ==
  [vt |-> VtStored, yara |-> rows.yara,
   dyn |-> IF rows.dyn > 0 THEN file.dyn ELSE None,
   static |-> IF rows.static THEN file.static ELSE None,
   cve |-> cve, debt |-> IF rows.debt THEN file.debt ELSE None,
   trusted |-> rows.trusted, untrusted |-> rows.untrusted]

FirstOf(table) == IF table = {} THEN {None} ELSE table

(* finalize computes the score, which it stores after the verdict below.   *)
Finalize ==
  /\ pc = "score"
  /\ \E cve \in FirstOf(rows.cve) :
       LET e == EvidenceWith(cve) IN
         /\ seen' = e
         /\ score' = Score(e)
  /\ pc' = "verdict"
  /\ UNCHANGED <<file, rows, detonating, verdict, alerts, pushed, deliveries, faults>>

(* A query fails in computeThreatScore, which returns 0.                   *)
FinalizeBlind ==
  /\ pc = "score"
  /\ Faulty
  /\ seen' = None /\ score' = 0
  /\ pc' = "verdict"
  /\ UNCHANGED <<file, rows, detonating, verdict, alerts, pushed, deliveries>>

(* It reads the tables again: a report may have come in between.  Of four  *)
(* queries the first k succeed.  Below the threshold there is nothing more *)
(* to do after it.                                                         *)
BuildVerdict ==
  /\ pc = "verdict"
  /\ \E k \in 0 .. 4 :
       /\ IF k = 4 THEN UNCHANGED faults ELSE Faulty
       /\ verdict' = CrossChecked(
            ComputeVerdict(Chain(k, VtItems(rows.vt, file.vt), EvidenceWith(None))), score)
  /\ pc' = IF ShouldAlert(score) THEN "alert" ELSE "done"
  /\ UNCHANGED <<file, rows, detonating, score, seen, alerts, pushed, deliveries>>

ShouldPushToEdr(s, det, tot) == s >= 80 /\ (tot > 0 => 10 * det >= tot)

(* The ratio is that of whichever VirusTotal row LIMIT 1 gives, or 0 of 0  *)
(* without one.                                                            *)
DispatchAlerts ==
  /\ pc = "alert"
  /\ alerts' = alerts + 1
  /\ \E v \in FirstOf(VtStored) :
       pushed' = (pushed \/ IF v = None THEN ShouldPushToEdr(score, 0, 0)
                            ELSE ShouldPushToEdr(score, v.det, v.tot))
  /\ pc' = "done"
  /\ UNCHANGED <<file, rows, detonating, score, seen, verdict, deliveries, faults>>

(* The attempt fails or its process dies, at whatever step, the last one   *)
(* included: the job is delivered again from its first step.               *)
Redeliver ==
  /\ deliveries < MaxDeliveries
  /\ deliveries' = deliveries + 1
  /\ pc' = "static"
  /\ UNCHANGED <<file, rows, detonating, score, seen, verdict, alerts, pushed, faults>>

Next ==
  \/ StoreStatic \/ StoreDynamic \/ AbandonDynamic \/ LateReport
  \/ LookupHashes \/ LookupVulnerabilities \/ LookupTechDebt
  \/ StoreYaraPatternResults \/ Skip
  \/ Finalize \/ FinalizeBlind \/ BuildVerdict \/ DispatchAlerts \/ Redeliver

Spec == Init /\ [][Next]_vars

-----------------------------------------------------------------------------

RowTypes ==
  [vt : [DOMAIN file.vt -> Nat], yara : Counts, dyn : Nat, static : BOOLEAN,
   cve : SUBSET CveRows, debt : BOOLEAN, trusted : Nat, untrusted : Nat]

(* Every table has rows of its type, and a score is one of 0 to 100        *)
(* whatever was found, though the points before the clamp range from -15   *)
(* to over 200.                                                            *)
TypeOK ==
  /\ file \in Files
  /\ pc \in Steps
  /\ rows \in RowTypes
  /\ detonating \in BOOLEAN
  /\ score \in (0 .. 100) \cup {None}
  /\ seen \in Evidence \cup {None}
  /\ verdict # None => verdict.class \in Classifications /\ verdict.action \in Actions
  /\ alerts \in Nat /\ pushed \in BOOLEAN
  /\ deliveries \in Nat /\ faults \in Nat

(* Software that a known vendor has signed, that VirusTotal calls clean    *)
(* and that did nothing grave in the sandbox raises no alert, whatever     *)
(* YARA, the strings or the known vulnerabilities add up to: the caps and  *)
(* the gated floor keep it below 70 (P0-R1, P1-R6).                        *)
SignedCleanIsQuiet ==
  pc = "alert" => ~(Signed(seen) /\ VtClean(seen.vt) /\ Behaviour(seen) < 35)

(* When every product of the file has a known exploited vulnerability and  *)
(* the look-ups stored it, the submission is at least "medium", with the   *)
(* discount for trusted domains, the vendor's cap and the clean cap        *)
(* applied; a score that could not be computed is the exception.           *)
KevIsAtLeastMedium ==
  /\ pc \in {"alert", "done"} /\ seen # None
  /\ rows.cve # {} /\ \A c \in rows.cve : c.kev
  => Level(score) \in {"medium", "high", "critical"}

(* A greater part of the domains is known infrastructure than before, by   *)
(* one of the shares that earn a discount.                                 *)
TrustGained(before, after) ==
  \E tenths \in {4, 7} : TrustedShare(after, tenths) /\ ~TrustedShare(before, tenths)

(* A submission that was reported to the SIEM keeps its score or gains,    *)
(* when its job is delivered again and every service answers as before:    *)
(* rows stored twice must not turn the score down behind the alert.  The   *)
(* exception is real: the IOCs of the static analysis are stored by each   *)
(* attempt, those of the detonation only by one that gets so far, and so   *)
(* the attempts that die in between may earn the domains a discount.       *)
AlertIsNotTakenBack ==
  [][alerts > 0 /\ faults' = 0 /\ Len(file.cves) <= 1 /\ ~TrustGained(seen, seen')
     => score' >= score]_vars

(* The verdict says "Block" only if VirusTotal or a grave YARA rule backs  *)
(* it: no risk score, number of indicators, connections, packing or        *)
(* entropy is enough, in whatever number the rows are stored and whichever *)
(* of the queries fails.                                                   *)
BlockIsCorroborated ==
  pc \in {"alert", "done"} /\ verdict.action = "Block" =>
    Ratio(VtStored, 10) \/ rows.yara["critical"] > 0

(* Refuted: "prevent "malicious" verdict when primary score is             *)
(* informational/low" (submissionWorkflow.ts:1173), which ends at 39.      *)
LowIsNotMalicious ==
  pc \in {"alert", "done"} /\ verdict.class = "malicious" =>
    Level(score) \notin {"informational", "low"}

(* Refuted: what is reported to the SIEM is not recommended for "Allow".   *)
AlertIsNotAllowed == pc = "alert" => verdict.action # "Allow"

(* Refuted: a hash is pushed to the EDR only if some engine confirmed it.  *)
(* "Require score >= 80 AND at least some VT confirmations to avoid FP     *)
(* blocking" (edr-push.ts:340).                                            *)
PushIsConfirmed == pushed => Detected(VtStored)
=============================================================================
