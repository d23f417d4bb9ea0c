--------------------------- MODULE ContainerScore ---------------------------
(***************************************************************************)
(* The score of a container image: the last step of the container workflow *)
(* of submissionWorkflow.ts, as a function of what the look-ups of its     *)
(* packages counted, v, and of what the sandbox found in its layers, f.    *)
(*   v  critical, high, medium, low: how many CVEs of each severity,       *)
(*      kev: whether one is known to be exploited, and the greatest CVSS   *)
(*      score (in tenths) and EPSS probability (in percents)               *)
(*   f  how many findings of each kind there are, and two flags            *)
(***************************************************************************)
EXTENDS Integers, FiniteSetsExt

Kinds == {"miners", "backdoors", "beacons", "forgedKeys", "unofficial", "symlinks",
          "trojans", "setuid", "secrets", "cisFails", "cisWarns", "sensitive",
          "leaks", "gitDirs", "capBinaries", "keyCerts"}
Findings == [n : [Kinds -> Nat], root : BOOLEAN, unsigned : BOOLEAN]
Counted == [critical : Nat, high : Nat, medium : Nat, low : Nat,
            kev : BOOLEAN, cvss : Nat, epss : Nat]

UpTo(m, n) == IF n > m THEN m ELSE n
Floor(m, n) == IF n < m THEN m ELSE n
If(condition, n) == IF condition THEN n ELSE 0

(* --- Vulnerabilities, in 20000ths of a point -------------------------- *)

FullScale == 20000
VulnCap == 45 * FullScale

Total(v) == v.critical + v.high + v.medium + v.low

(* The list of CVEs: the severities in turn, each with a CVSS score of its *)
(* severity; the first has the greatest score that was seen.  It is sorted *)
(* by weight as it stands.                                                 *)
Cvss(v, i) ==
  LET own == IF i <= v.critical THEN Floor(95, v.cvss)
             ELSE IF i <= v.critical + v.high THEN 80
             ELSE IF i <= v.critical + v.high + v.medium THEN 55
             ELSE 25
  IN IF i = 1 THEN Floor(own, v.cvss) ELSE own

(* An exploited one counts 2.5 times, and only the first is taken as such; *)
(* likely ones count twice or one and a half times.                        *)
Weight(v, i) ==
  IF v.kev /\ i = 1 THEN 225 ELSE IF v.epss >= 95 THEN 180 ELSE IF v.epss >= 75 THEN 135 ELSE 90

PerCvePoints(v, i) ==
  (Weight(v, i) * Cvss(v, i) * Cvss(v, i) * 100) \div (100 + 8 * (i - 1))

VulnSubScore(v) ==
  UpTo(VulnCap, MapThenSumSet(LAMBDA i : PerCvePoints(v, i), 1 .. Total(v)))

(* --- The other sub-scores, in points ---------------------------------- *)

ConfigSubScore(f) ==
  UpTo(20, If(f.root, 8) + UpTo(12, 4 * f.n["cisFails"]) + UpTo(6, 2 * f.n["cisWarns"]))
SupplySubScore(f) ==
  UpTo(20, UpTo(15, 12 * f.n["forgedKeys"]) + UpTo(10, 6 * f.n["unofficial"])
           + If(f.unsigned, 5))
MaliciousSubScore(f) ==
  UpTo(30, If(f.n["miners"] > 0, 25) + If(f.n["backdoors"] > 0, 30)
           + If(f.n["beacons"] > 0, 20))
HygieneSubScore(f) ==
  UpTo(15, UpTo(8, 3 * f.n["sensitive"]) + UpTo(4, 2 * f.n["leaks"])
           + If(f.n["gitDirs"] > 0, 2) + UpTo(4, f.n["capBinaries"])
           + UpTo(6, 3 * f.n["keyCerts"]))
StructuralSubScore(f) ==
  UpTo(30, If(f.n["symlinks"] > 0, UpTo(25, 15 + 5 * f.n["symlinks"]))
           + UpTo(25, 12 * f.n["trojans"]) + UpTo(8, 4 * f.n["setuid"]))
SecretsSubScore(f) == UpTo(25, 8 * f.n["secrets"])

SubScores(f) ==
  <<ConfigSubScore(f), SupplySubScore(f), MaliciousSubScore(f), HygieneSubScore(f),
    StructuralSubScore(f), SecretsSubScore(f)>>

(* --- Their sum, the bonus for many categories, and the floors ---------- *)

SynergyBonus(points, f) ==
  LET s == SubScores(f)
      active == If(points > 0, 1) + If(s[1] > 0, 1) + If(s[2] > 0, 1) + If(s[3] > 0, 1)
                + If(s[4] > 0, 1) + If(s[5] > 0, 1) + If(s[6] > 0, 1)
  IN IF active >= 4 THEN UpTo(10, 3 * (active - 3)) ELSE 0

Summed(points, f) ==
  LET s == SubScores(f) IN
  (2 * points + FullScale) \div (2 * FullScale)
  + s[1] + s[2] + s[3] + s[4] + s[5] + s[6] + SynergyBonus(points, f)

Combined(points, f) == UpTo(100, Summed(points, f))

(* The least score that what was found demands.                            *)
FloorOf(v, f) ==
  IF f.n["backdoors"] > 0 \/ f.n["miners"] > 0 THEN 90
  ELSE IF f.n["trojans"] > 0 THEN 85
  ELSE IF f.n["symlinks"] > 0 THEN 80
  ELSE IF v.critical > 0 \/ v.kev \/ f.n["forgedKeys"] > 0 THEN 70
  ELSE IF v.high > 0 THEN 40
  ELSE 0

ScoreOf(points, v, f) == UpTo(100, Floor(FloorOf(v, f), Combined(points, f)))

ContainerScore(v, f) == ScoreOf(VulnSubScore(v), v, f)

ContainerLevel(s) ==
  IF s >= 90 THEN "critical"
  ELSE IF s >= 70 THEN "high"
  ELSE IF s >= 40 THEN "medium"
  ELSE IF s >= 10 THEN "low"
  ELSE "informational"
=============================================================================
