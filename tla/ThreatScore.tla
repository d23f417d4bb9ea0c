---------------------------- MODULE ThreatScore ----------------------------
(***************************************************************************)
(* The score of a submission: computeThreatScore of submissionWorkflow.ts, *)
(* as a function of the evidence it reads from the tables.  An evidence e  *)
(* has                                                                     *)
(*   vt         the VirusTotal rows, [det, tot, family] each               *)
(*   yara       the number of YARA rows of each severity                   *)
(*   dyn        the first row of dynamic_analysis_results, or None         *)
(*   static     the row of static_analysis_results, or None                *)
(*   cve, debt  the first row of either look-up, or None                   *)
(*   trusted, untrusted   how many url and domain IOCs there are of each   *)
(* Ratios and probabilities are whole percents, CVSS scores whole tenths,  *)
(* and Math.round(n / d) is (2n + d) \div 2d.                              *)
(***************************************************************************)
EXTENDS Integers
CONSTANT None

Families == {"none", "high", "low", "other"}      \* how a family label is classed
Severities == {"critical", "high", "medium", "low"}
Counts == [Severities -> Nat]

(* The indicators of a detonation: "grave" are of the categories           *)
(* ransomware, c2_communication and reverse_shell, "benign" of those that  *)
(* signed software has as well, "yara" come from a rule, "plain" are the   *)
(* others; those of the sandbox's own scripts are dropped here, scripts is *)
(* their number and noise says whether one of them was grave.  The first   *)
(* signature in the report is cert, and signed says whether any is a known *)
(* vendor's.                                                               *)
Classes == {"grave", "plain", "benign", "yara"}

VtRows == [det : Nat, tot : Nat, family : Families]
Certificates == {"none", "absent", "unknown", "vendor"}
DynRows == [risk : Nat, inds : [Classes -> Counts], scripts : Nat, noise : BOOLEAN,
            dropped : Nat, connections : Nat, queries : Nat, cert : Certificates,
            signed : BOOLEAN, yara : Counts, trusted : Nat, untrusted : Nat]
StaticRows == [packed : BOOLEAN, entropy : {"normal", "high", "random"}, imports : Nat,
               words : Nat, trusted : Nat, untrusted : Nat]
CveRows == [kev : BOOLEAN, cvss : Nat, epss : Nat]
DebtRows == [eol : BOOLEAN, behind : Nat]
Evidence == [vt : SUBSET VtRows, yara : Counts, dyn : DynRows \cup {None},
             static : StaticRows \cup {None}, cve : CveRows \cup {None},
             debt : DebtRows \cup {None}, trusted : Nat, untrusted : Nat]

AtMost(m, n) == IF n > m THEN m ELSE n
AtLeast(m, n) == IF n < m THEN m ELSE n

(* --- VirusTotal ------------------------------------------------------- *)

Ratio(vt, percent) ==
  \E v \in vt : v.tot > 0 /\ 100 * v.det >= percent * v.tot
Detected(vt) == \E v \in vt : v.tot > 0 /\ v.det > 0
VtClean(vt) == \E v \in vt : v.tot > 0 /\ v.det = 0
VtScanned(vt) == \E v \in vt : v.tot >= 40

VtBand(vt) ==
  IF Ratio(vt, 75) THEN 70
  ELSE IF Ratio(vt, 50) THEN 60
  ELSE IF Ratio(vt, 25) THEN 50
  ELSE IF Ratio(vt, 10) THEN 35
  ELSE IF Ratio(vt, 5) THEN 15
  ELSE IF Ratio(vt, 2) THEN 5
  ELSE IF Detected(vt) THEN 2
  ELSE IF VtClean(vt) THEN -15
  ELSE 0

(* The last row with a label counts, and there is at most one kind: the    *)
(* look-ups stop at the first file that is malicious.                      *)
HasFamily(vt, f) == \E v \in vt : v.family = f
FamilyBonus(vt) ==
  IF HasFamily(vt, "high") THEN 15
  ELSE IF HasFamily(vt, "low") THEN 3
  ELSE IF HasFamily(vt, "other") THEN 10
  ELSE 0

VtScore(vt) == IF VtBand(vt) >= 15 THEN VtBand(vt) + FamilyBonus(vt) ELSE VtBand(vt)

(* --- YARA and the sandbox --------------------------------------------- *)

Signed(e) == e.dyn # None /\ e.dyn.signed

(* A vendor's signature on a file that VirusTotal has no complaint about.  *)
Vouched(e) == Signed(e) /\ (VtClean(e.vt) \/ (VtScanned(e.vt) /\ VtScore(e.vt) <= 5))

YaraScore(y) ==
  AtMost(40, 20 * y["critical"] + 12 * y["high"] + 5 * y["medium"] + 2 * y["low"])

Points(d, c) ==
  20 * d.inds[c]["critical"] + 10 * d.inds[c]["high"] + 4 * d.inds[c]["medium"]
Found(d) == \E c \in Classes, s \in Severities : d.inds[c][s] > 0
Risk(d) == AtMost(40, (6 * d.risk + 5) \div 10)
Dropped(d) == AtMost(15, 5 * d.dropped)
Genuine(d) == Points(d, "grave") + Points(d, "plain") + Dropped(d)

Observed(d) == Risk(d) + Genuine(d) + Points(d, "benign")

Corroborated(vt, d) ==
  IF VtScore(vt) >= 50 /\ Found(d) THEN AtLeast(30, Observed(d) + Points(d, "yara"))
  ELSE IF VtScore(vt) >= 35 /\ Found(d) THEN AtLeast(20, Observed(d) + Points(d, "yara"))
  ELSE Observed(d) + Points(d, "yara")

Sandbox(e) ==
  IF e.dyn = None THEN 0
  ELSE AtMost(60, IF Vouched(e) THEN Genuine(e.dyn) ELSE Corroborated(e.vt, e.dyn))

Behaviour(e) ==
  IF e.dyn = None THEN 0
  ELSE IF Vouched(e) THEN Genuine(e.dyn) ELSE Observed(e.dyn)

(* Unknown to VirusTotal: amplified; scanned and clean: dampened.          *)
AdjustedYara(e) ==
  AtMost(50, IF VtScanned(e.vt) THEN YaraScore(e.yara)
             ELSE (13 * YaraScore(e.yara) + 5) \div 10)
AdjustedSandbox(e) ==
  AtMost(65, IF ~VtScanned(e.vt) THEN (13 * Sandbox(e) + 5) \div 10
             ELSE IF VtClean(e.vt) THEN (Sandbox(e) + 1) \div 2
             ELSE Sandbox(e))

(* --- Static analysis and vulnerabilities ------------------------------ *)

(* script_analysis is always stored as null, so its part is always 0.      *)
StaticScore(e) ==
  IF e.static = None THEN 0
  ELSE AtMost(25,
         (IF e.static.packed /\ ~Vouched(e) THEN 5 ELSE 0)
       + (IF Vouched(e) THEN 0
          ELSE IF e.static.entropy = "random" THEN 6
          ELSE IF e.static.entropy = "high" THEN 3 ELSE 0)
       + AtMost(8, 2 * e.static.imports) + AtMost(12, 4 * e.static.words))

Kev(e) == e.cve # None /\ e.cve.kev
Epss(e) == IF e.cve = None THEN 0 ELSE e.cve.epss

CveScore(e) ==
  IF e.cve = None THEN 0
  ELSE IF e.cve.kev THEN 25
  ELSE IF e.cve.cvss >= 90 THEN 18
  ELSE IF e.cve.cvss >= 80 THEN 15
  ELSE IF e.cve.cvss >= 70 THEN 12
  ELSE IF e.cve.cvss >= 40 THEN 6
  ELSE 3
EpssScore(e) ==
  IF Epss(e) >= 50 THEN 5
  ELSE IF Epss(e) >= 25 THEN 4
  ELSE IF Epss(e) >= 5 THEN 3
  ELSE IF Epss(e) >= 1 THEN 1
  ELSE 0
DebtScore(e) ==
  IF e.debt = None THEN 0
  ELSE IF e.debt.eol THEN 5
  ELSE IF e.debt.behind >= 2 THEN 3
  ELSE e.debt.behind

VulnScore(e) ==
  AtMost(IF Signed(e) /\ VtClean(e.vt) THEN 30 ELSE 35,
         CveScore(e) + EpssScore(e) + DebtScore(e))

(* --- The sum, its caps, its discount and its floors ------------------- *)

Total(e) ==
  VtScore(e.vt) + AdjustedYara(e) + AdjustedSandbox(e) + StaticScore(e)
  + (IF VtClean(e.vt) /\ Behaviour(e) >= 40 THEN 15 ELSE 0)

VendorCap(e, s) ==
  IF ~Vouched(e) \/ Behaviour(e) >= 35 THEN s
  ELSE AtMost(IF Behaviour(e) >= 15 THEN 30 ELSE 10, s)

CleanCap(e, s) ==
  IF ~VtClean(e.vt) \/ Signed(e) \/ Behaviour(e) >= 35 THEN s
  ELSE AtMost(IF Behaviour(e) < 15 THEN 15 ELSE 35, s)

(* Most of the file's domains are known infrastructure.                    *)
TrustedShare(e, tenths) ==
  e.trusted + e.untrusted > 0 /\ 10 * e.trusted >= tenths * (e.trusted + e.untrusted)

(* An error in the discount below: how many are trusted, not which share.  *)
DiscountedByNumber(e, s) ==
  IF e.trusted >= 12 /\ ~Kev(e) /\ e.untrusted <= 3 THEN (6 * s + 5) \div 10
  ELSE IF e.trusted >= 8 /\ ~Kev(e) /\ e.untrusted <= 5 THEN (8 * s + 5) \div 10
  ELSE s

Discounted(e, s) ==
  IF TrustedShare(e, 7) /\ ~Kev(e) /\ e.untrusted <= 3 THEN (6 * s + 5) \div 10
  ELSE IF TrustedShare(e, 4) /\ ~Kev(e) /\ e.untrusted <= 5 THEN (8 * s + 5) \div 10
  ELSE s

Grave(d) == d.noise \/ \E s \in Severities : d.inds["grave"][s] > 0
GraveFloor(e, s) ==
  IF e.dyn # None /\ Sandbox(e) >= 35 /\ Grave(e.dyn) THEN AtLeast(55, s) ELSE s

(* An error in the floors below: the gate on corroboration is lost.        *)
VulnFloorUngated(e, s) ==
  IF Kev(e) THEN AtLeast(IF Epss(e) >= 50 THEN 75 ELSE 70, s)
  ELSE IF Epss(e) >= 90 THEN AtLeast(50, s)
  ELSE s

(* Another: signed and clean software gets no floor at all.                *)
VulnFloorUnsignedOnly(e, s) ==
  IF Kev(e) /\ ~(Signed(e) /\ VtClean(e.vt))
    THEN AtLeast(IF Epss(e) >= 50 THEN 75 ELSE 70, s)
  ELSE s

(* The floors of known exploited vulnerabilities: lower for signed         *)
(* software that VirusTotal calls clean.                                   *)
VulnFloor(e, s) ==
  IF Kev(e) /\ ~(Signed(e) /\ VtClean(e.vt))
    THEN AtLeast(IF Epss(e) >= 50 THEN 75 ELSE 70, s)
  ELSE IF Kev(e) THEN AtLeast(IF Epss(e) >= 5 THEN 50 ELSE 40, s)
  ELSE IF Epss(e) >= 90 THEN AtLeast(50, s)
  ELSE s

Weighed(e) == Discounted(e, CleanCap(e, VendorCap(e, Total(e)))) + VulnScore(e)

(* An error in the score below: a clean file keeps its negative points.    *)
ScoreUnclamped(e) == AtMost(100, VulnFloor(e, GraveFloor(e, Weighed(e))))

Score(e) == AtMost(100, AtLeast(0, VulnFloor(e, GraveFloor(e, Weighed(e)))))

Levels == {"informational", "low", "medium", "high", "critical"}
Level(s) ==
  IF s >= 90 THEN "critical"
  ELSE IF s >= 70 THEN "high"
  ELSE IF s >= 40 THEN "medium"
  ELSE IF s >= 10 THEN "low"
  ELSE "informational"

ShouldAlert(s) == s >= 70
=============================================================================
