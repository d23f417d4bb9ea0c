--------------------------- MODULE Scoring_proofs ---------------------------
(***************************************************************************)
(* Proofs about ThreatScore, VerdictEngine and Scoring, for every set of   *)
(* files and every number of rows, matches, deliveries and faults.  The    *)
(* first part bounds the operators the score is built from; the second     *)
(* carries the bounds to the states of the workflow, by the invariant that *)
(* the score an alert is raised with is the one of the evidence last seen; *)
(* the third compares the scores of two attempts.  The last two are about  *)
(* the verdict: what a sum over a finite set is, and that items nothing    *)
(* grave corroborates never add up to "Block".                             *)
(***************************************************************************)
EXTENDS Scoring, FiniteSetTheorems, WellFoundedInduction, TLAPS

(* The points of VirusTotal lie between those of a clean file and those of *)
(* a known family.                                                         *)
LEMMA VtScoreRange == ASSUME NEW vt PROVE VtScore(vt) \in -15 .. 85
<1>1. VtBand(vt) \in {70, 60, 50, 35, 15, 5, 2, -15, 0}
  BY DEF VtBand
<1>2. FamilyBonus(vt) \in {15, 3, 10, 0}
  BY DEF FamilyBonus
<1> QED BY <1>1, <1>2 DEF VtScore

(* A count of matches or indicators is a natural number for each severity. *)
LEMMA CountsAreNat ==
  ASSUME NEW y \in Counts
  PROVE  /\ y["critical"] \in Nat /\ y["high"] \in Nat
         /\ y["medium"] \in Nat /\ y["low"] \in Nat
BY DEF Counts, Severities

(* However many rules match, YARA adds at most 40 points.                  *)
LEMMA YaraRange == ASSUME NEW y \in Counts PROVE YaraScore(y) \in 0 .. 40
<1> DEFINE n == 20 * y["critical"] + 12 * y["high"] + 5 * y["medium"] + 2 * y["low"]
<1>1. n \in Nat
  BY CountsAreNat
<1>2. YaraScore(y) = AtMost(40, n)
  BY DEF YaraScore
<1> HIDE DEF n
<1> QED BY <1>1, <1>2 DEF AtMost

(* What a detonation adds up to is a natural number, whichever indicators  *)
(* are counted.                                                            *)
LEMMA DetonationNat ==
  ASSUME NEW d \in DynRows
  PROVE  /\ \A c \in Classes : Points(d, c) \in Nat
         /\ Genuine(d) \in Nat /\ Observed(d) \in Nat
<1>1. ASSUME NEW c \in Classes PROVE Points(d, c) \in Nat
  <2>1. d.inds[c] \in Counts
    BY DEF DynRows
  <2>2. /\ d.inds[c]["critical"] \in Nat /\ d.inds[c]["high"] \in Nat
        /\ d.inds[c]["medium"] \in Nat
    BY <2>1, CountsAreNat
  <2> QED BY <2>2 DEF Points
<1>2. d.risk \in Nat /\ d.dropped \in Nat
  BY DEF DynRows
<1>3. Risk(d) \in Nat /\ Dropped(d) \in Nat
  BY <1>2 DEF Risk, Dropped, AtMost
<1>4. Points(d, "grave") \in Nat /\ Points(d, "plain") \in Nat /\ Points(d, "benign") \in Nat
  BY <1>1 DEF Classes
<1>5. Genuine(d) \in Nat
  BY <1>3, <1>4 DEF Genuine
<1> QED BY <1>1, <1>3, <1>4, <1>5 DEF Observed

(* The sandbox adds at most 60 points; what decides about the caps is a    *)
(* natural number.                                                         *)
LEMMA SandboxRange ==
  ASSUME NEW e \in Evidence
  PROVE  Sandbox(e) \in 0 .. 60 /\ Behaviour(e) \in Nat
<1>1. CASE e.dyn = None
  BY <1>1 DEF Sandbox, Behaviour
<1>2. CASE e.dyn # None
  <2>1. e.dyn \in DynRows
    BY <1>2 DEF Evidence
  <2>2. Genuine(e.dyn) \in Nat /\ Observed(e.dyn) \in Nat /\ Points(e.dyn, "yara") \in Nat
    BY <2>1, DetonationNat DEF Classes
  <2>3. Corroborated(e.vt, e.dyn) \in Nat
    BY <2>2 DEF Corroborated, AtLeast
  <2> QED BY <1>2, <2>2, <2>3 DEF Sandbox, Behaviour, AtMost
<1> QED BY <1>1, <1>2

(* The amplified or dampened points of YARA and the sandbox stay within 50 *)
(* and 65.                                                                 *)
LEMMA AdjustedRange ==
  ASSUME NEW e \in Evidence
  PROVE  AdjustedYara(e) \in 0 .. 50 /\ AdjustedSandbox(e) \in 0 .. 65
<1>1. YaraScore(e.yara) \in 0 .. 40
  BY YaraRange DEF Evidence
<1>2. Sandbox(e) \in 0 .. 60
  BY SandboxRange
<1>3. AdjustedYara(e) \in 0 .. 50
  BY <1>1 DEF AdjustedYara, AtMost
<1>4. AdjustedSandbox(e) \in 0 .. 65
  BY <1>2 DEF AdjustedSandbox, AtMost
<1> QED BY <1>3, <1>4

(* Static analysis adds at most 25 points.                                 *)
LEMMA StaticRange == ASSUME NEW e \in Evidence PROVE StaticScore(e) \in 0 .. 25
<1>1. CASE e.static = None
  BY <1>1 DEF StaticScore
<1>2. CASE e.static # None
  <2>1. e.static.imports \in Nat /\ e.static.words \in Nat
    BY <1>2 DEF Evidence, StaticRows
  <2>2. AtMost(8, 2 * e.static.imports) \in 0 .. 8 /\ AtMost(12, 4 * e.static.words) \in 0 .. 12
    BY <2>1 DEF AtMost
  <2>3. (IF e.static.packed /\ ~Vouched(e) THEN 5 ELSE 0) \in 0 .. 5
    OBVIOUS
  <2>4. (IF Vouched(e) THEN 0 ELSE IF e.static.entropy = "random" THEN 6
         ELSE IF e.static.entropy = "high" THEN 3 ELSE 0) \in 0 .. 6
    OBVIOUS
  <2> DEFINE a == IF e.static.packed /\ ~Vouched(e) THEN 5 ELSE 0
             b == IF Vouched(e) THEN 0 ELSE IF e.static.entropy = "random" THEN 6
                  ELSE IF e.static.entropy = "high" THEN 3 ELSE 0
             c == AtMost(8, 2 * e.static.imports)
             d == AtMost(12, 4 * e.static.words)
  <2>5. StaticScore(e) = AtMost(25, a + b + c + d)
    BY <1>2 DEF StaticScore
  <2>6. a \in 0 .. 5 /\ b \in 0 .. 6 /\ c \in 0 .. 8 /\ d \in 0 .. 12
    BY <2>2, <2>3, <2>4
  <2> HIDE DEF a, b, c, d
  <2> QED BY <2>5, <2>6 DEF AtMost
<1> QED BY <1>1, <1>2

(* Vulnerabilities add at most 35 points, and 30 to signed clean software. *)
LEMMA VulnRange ==
  ASSUME NEW e \in Evidence
  PROVE  /\ VulnScore(e) \in 0 .. 35
         /\ Signed(e) /\ VtClean(e.vt) => VulnScore(e) <= 30
<1>1. CveScore(e) \in 0 .. 25
  BY DEF CveScore
<1>2. EpssScore(e) \in 0 .. 5
  BY DEF EpssScore
<1>3. DebtScore(e) \in Nat
  <2>1. e.debt # None => e.debt.behind \in Nat
    BY DEF Evidence, DebtRows
  <2> QED BY <2>1 DEF DebtScore
<1> QED BY <1>1, <1>2, <1>3 DEF VulnScore, AtMost

(* The caps and the discount take an integer to an integer, and nothing    *)
(* above 30 comes of something that is not.                                *)
LEMMA CapsAndDiscount ==
  ASSUME NEW e, NEW s \in Int, Behaviour(e) \in Nat
  PROVE  /\ VendorCap(e, s) \in Int /\ CleanCap(e, s) \in Int /\ Discounted(e, s) \in Int
         /\ s <= 30 => CleanCap(e, s) <= 30 /\ Discounted(e, s) <= 30
         /\ Vouched(e) /\ Behaviour(e) < 35 => VendorCap(e, s) <= 30
<1>1. VendorCap(e, s) \in Int /\ (Vouched(e) /\ Behaviour(e) < 35 => VendorCap(e, s) <= 30)
  BY DEF VendorCap, AtMost
<1>2. CleanCap(e, s) \in Int /\ (s <= 30 => CleanCap(e, s) <= 30)
  BY DEF CleanCap, AtMost
<1>3. Discounted(e, s) \in {(6 * s + 5) \div 10, (8 * s + 5) \div 10, s}
  BY DEF Discounted
<1>4. Discounted(e, s) \in Int /\ (s <= 30 => Discounted(e, s) <= 30)
  BY <1>3
<1> QED BY <1>1, <1>2, <1>4

(* The sum after caps, discount and vulnerabilities is an integer.         *)
LEMMA WeighedInt ==
  ASSUME NEW e \in Evidence
  PROVE  Total(e) \in Int /\ Weighed(e) \in Int
<1>1. Total(e) \in Int
  <2> DEFINE bonus == IF VtClean(e.vt) /\ Behaviour(e) >= 40 THEN 15 ELSE 0
  <2>1. Total(e) = VtScore(e.vt) + AdjustedYara(e) + AdjustedSandbox(e) + StaticScore(e) + bonus
    BY DEF Total
  <2>2. VtScore(e.vt) \in Int /\ bonus \in Int
    BY VtScoreRange
  <2>3. AdjustedYara(e) \in Int /\ AdjustedSandbox(e) \in Int /\ StaticScore(e) \in Int
    BY AdjustedRange, StaticRange
  <2> HIDE DEF bonus
  <2> QED BY <2>1, <2>2, <2>3
<1>2. Behaviour(e) \in Nat
  BY SandboxRange
<1>3. VendorCap(e, Total(e)) \in Int
  BY <1>1, <1>2, CapsAndDiscount
<1>4. CleanCap(e, VendorCap(e, Total(e))) \in Int
  BY <1>2, <1>3, CapsAndDiscount
<1>5. Discounted(e, CleanCap(e, VendorCap(e, Total(e)))) \in Int
  BY <1>2, <1>4, CapsAndDiscount
<1> QED BY <1>1, <1>5, VulnRange DEF Weighed

(* Both floors take an integer to an integer.                              *)
LEMMA FloorsInt ==
  ASSUME NEW e, NEW s \in Int
  PROVE  GraveFloor(e, s) \in Int /\ VulnFloor(e, s) \in Int
BY DEF GraveFloor, VulnFloor, AtLeast

(* Whatever the tables hold, the score is one of 0 to 100.                 *)
THEOREM ScoreInRange == ASSUME NEW e \in Evidence PROVE Score(e) \in 0 .. 100
<1>1. GraveFloor(e, Weighed(e)) \in Int
  BY WeighedInt, FloorsInt
<1>2. VulnFloor(e, GraveFloor(e, Weighed(e))) \in Int
  BY <1>1, FloorsInt
<1> QED BY <1>2 DEF Score, AtMost, AtLeast

(* The caps of signed clean software leave at most 60 points, and no floor *)
(* lifts it above that while the sandbox saw nothing grave.                *)
THEOREM SignedCleanScore ==
  ASSUME NEW e \in Evidence, Signed(e), VtClean(e.vt), Behaviour(e) < 35
  PROVE  Score(e) <= 60
<1>1. Vouched(e) /\ e.dyn # None
  BY DEF Vouched, Signed
<1>2. Behaviour(e) \in Nat /\ Total(e) \in Int /\ VulnScore(e) \in 0 .. 30
  BY SandboxRange, WeighedInt, VulnRange
<1>3. VendorCap(e, Total(e)) \in Int /\ VendorCap(e, Total(e)) <= 30
  BY <1>1, <1>2, CapsAndDiscount
<1>4. CleanCap(e, VendorCap(e, Total(e))) \in Int /\ CleanCap(e, VendorCap(e, Total(e))) <= 30
  BY <1>2, <1>3, CapsAndDiscount
<1>5. /\ Discounted(e, CleanCap(e, VendorCap(e, Total(e)))) \in Int
      /\ Discounted(e, CleanCap(e, VendorCap(e, Total(e)))) <= 30
  BY <1>2, <1>4, CapsAndDiscount
<1>6. Weighed(e) \in Int /\ Weighed(e) <= 60
  BY <1>2, <1>5 DEF Weighed
<1>7. Sandbox(e) < 35
  <2>1. Behaviour(e) = Genuine(e.dyn) /\ Sandbox(e) = AtMost(60, Genuine(e.dyn))
    BY <1>1 DEF Behaviour, Sandbox
  <2> QED BY <2>1, <1>2 DEF AtMost
<1>8. Sandbox(e) \in Int
  BY SandboxRange
<1>9. GraveFloor(e, Weighed(e)) = Weighed(e)
  BY <1>7, <1>8 DEF GraveFloor
<1>10. VulnFloor(e, Weighed(e)) \in Int /\ VulnFloor(e, Weighed(e)) <= 60
  BY <1>6 DEF VulnFloor, AtLeast
<1> QED BY <1>9, <1>10 DEF Score, AtMost, AtLeast

(* A known exploited vulnerability in the row that is read makes at least  *)
(* 40 points.                                                              *)
THEOREM KevScore == ASSUME NEW e \in Evidence, Kev(e) PROVE Score(e) >= 40
<1> DEFINE s == GraveFloor(e, Weighed(e))
<1>1. s \in Int
  BY WeighedInt, FloorsInt
<1> HIDE DEF s
<1>2. VulnFloor(e, s) \in Int /\ VulnFloor(e, s) >= 40
  BY <1>1 DEF VulnFloor, AtLeast
<1> QED BY <1>2 DEF Score, AtMost, AtLeast, s

-----------------------------------------------------------------------------
(* The states of the workflow *)

(* The score an alert is raised with, or a delivery ended with, is the     *)
(* score of the evidence seen, and that evidence had one of the CVE rows   *)
(* which the table still holds.                                            *)
Rated ==
  /\ seen \in Evidence /\ score = Score(seen)
  /\ seen.cve \in FirstOf(rows.cve)
Scored ==
  /\ pc = "verdict" => Rated \/ (seen = None /\ score = 0)
  /\ pc = "alert" => Rated /\ ShouldAlert(score)
  /\ pc = "done" => Rated \/ seen = None

IInv == TypeOK /\ Scored

(* A new submission has empty tables and no score.                         *)
LEMMA InitInv == Init => IInv
<1> SUFFICES ASSUME Init PROVE IInv
  OBVIOUS
<1>1. NoCounts \in Counts
  BY DEF NoCounts, Counts
<1>2. rows \in RowTypes
  BY <1>1 DEF Init, RowTypes
<1> QED BY <1>2 DEF Init, IInv, TypeOK, Scored, Steps

(* What the tables hold is an evidence.                                    *)
LEMMA EvidenceTyped ==
  ASSUME TypeOK, NEW cve \in FirstOf(rows.cve)
  PROVE  EvidenceWith(cve) \in Evidence /\ EvidenceWith(cve).cve = cve
<1>1. file \in FileTypes
  BY BoundsAssumption DEF TypeOK
<1>2. cve \in CveRows \cup {None}
  BY DEF FirstOf, TypeOK, RowTypes
<1>3. VtStored \subseteq VtRows
  BY <1>1 DEF VtStored, FileTypes
<1> QED BY <1>1, <1>2, <1>3 DEF EvidenceWith, Evidence, FileTypes, TypeOK, RowTypes

(* Every step of the look-ups adds answers of its type.                    *)
LEMMA RowsTyped ==
  ASSUME TypeOK, Next
  PROVE  file' = file /\ rows' \in RowTypes'
<1>1. file' = file
  BY DEF Next, StoreStatic, StoreDynamic, AbandonDynamic, LateReport, LookupHashes,
         LookupVulnerabilities, LookupTechDebt, StoreYaraPatternResults, Skip, Finalize,
         FinalizeBlind, BuildVerdict, DispatchAlerts, Redeliver, Go
<1> SUFFICES rows' \in RowTypes
  BY <1>1 DEF RowTypes
<1>2. file \in FileTypes
  BY BoundsAssumption DEF TypeOK
<1>3. /\ file.static \in StaticRows /\ file.dyn \in DynRows
      /\ file.vt \in Seq(VtRows) /\ file.cves \in Seq(CveRows)
  BY <1>2 DEF FileTypes
<1>4. rows \in RowTypes
  BY DEF TypeOK
<1>5. CASE StoreStatic
  <2>1. file.static.trusted \in Nat /\ file.static.untrusted \in Nat
    BY <1>3 DEF StaticRows
  <2>2. /\ rows.trusted \in Nat /\ rows.untrusted \in Nat
        /\ rows.trusted + file.static.trusted \in Nat
        /\ rows.untrusted + file.static.untrusted \in Nat
    BY <1>4, <2>1 DEF RowTypes
  <2> QED BY <1>4, <1>5, <2>2 DEF StoreStatic, RowTypes
<1>6. CASE StoreDynamic
  <2>1. file.dyn.trusted \in Nat /\ file.dyn.untrusted \in Nat
    BY <1>3 DEF DynRows
  <2>2. /\ rows.trusted \in Nat /\ rows.untrusted \in Nat
        /\ rows.trusted + file.dyn.trusted \in Nat
        /\ rows.untrusted + file.dyn.untrusted \in Nat
        /\ rows.dyn + 1 \in Nat
    BY <1>4, <2>1 DEF RowTypes
  <2>3. rows' = [rows EXCEPT !.dyn = rows.dyn + 1,
                             !.trusted = rows.trusted + file.dyn.trusted,
                             !.untrusted = rows.untrusted + file.dyn.untrusted]
    BY <1>4, <1>6 DEF StoreDynamic, RowTypes
  <2> QED BY <1>4, <2>2, <2>3 DEF RowTypes
<1>7. CASE LateReport
  BY <1>4, <1>7 DEF LateReport, RowTypes
<1>8. CASE LookupHashes
  <2>1. PICK answered \in SUBSET DOMAIN file.vt :
          rows' = [rows EXCEPT !.vt = [i \in DOMAIN file.vt |->
                     IF i \in Asked(answered) THEN rows.vt[i] + 1 ELSE rows.vt[i]]]
    BY <1>8 DEF LookupHashes
  <2>2. [i \in DOMAIN file.vt |-> IF i \in Asked(answered) THEN rows.vt[i] + 1 ELSE rows.vt[i]]
          \in [DOMAIN file.vt -> Nat]
    BY <1>4 DEF RowTypes
  <2> QED BY <1>4, <2>1, <2>2 DEF RowTypes
<1>9. CASE LookupVulnerabilities
  <2>1. PICK answered \in SUBSET DOMAIN file.cves :
          rows' = [rows EXCEPT !.cve = @ \cup {file.cves[i] : i \in answered}]
    BY <1>9 DEF LookupVulnerabilities
  <2>2. {file.cves[i] : i \in answered} \subseteq CveRows
    BY <1>3
  <2> QED BY <1>4, <2>1, <2>2 DEF RowTypes
<1>10. CASE LookupTechDebt
  BY <1>4, <1>10 DEF LookupTechDebt, RowTypes
<1>11. CASE StoreYaraPatternResults
  <2>1. file.dyn.yara \in Counts /\ rows.yara \in Counts
    BY <1>3, <1>4 DEF DynRows, RowTypes
  <2>2. [s \in Severities |-> rows.yara[s] + file.dyn.yara[s]] \in Counts
    BY <2>1 DEF Counts
  <2> QED BY <1>4, <1>11, <2>2 DEF StoreYaraPatternResults, RowTypes
<1>12. CASE rows' = rows
  BY <1>4, <1>12
<1> QED BY <1>5, <1>6, <1>7, <1>8, <1>9, <1>10, <1>11, <1>12
     DEF Next, AbandonDynamic, Skip, Finalize, FinalizeBlind, BuildVerdict, DispatchAlerts, Redeliver

(* A step of the workflow before its score only moves on.                  *)
LEMMA GoTyped ==
  ASSUME TypeOK, Next, NEW step \in Steps \ {"verdict", "alert", "done"}, Go(step),
         faults' \in Nat, detonating' \in BOOLEAN
  PROVE  IInv'
<1>1. rows' \in RowTypes'
  BY RowsTyped
<1> QED BY <1>1 DEF IInv, TypeOK, Scored, Go

(* Whatever the items are, the verdict is one of its classes and actions,  *)
(* also when finalize overrules it.                                        *)
LEMMA VerdictTyped ==
  ASSUME NEW items, NEW s
  PROVE  LET v == CrossChecked(ComputeVerdict(items), s)
         IN v.class \in Classifications /\ v.action \in Actions
<1>1. Classify(items) \in Classifications
  BY DEF Classify, Classifications
<1>2. \A n, m : \A c \in Classifications : ActionOn(c, n, m) \in Actions
  BY DEF ActionOn, Classifications, Actions
<1>3. /\ ComputeVerdict(items).class \in Classifications
      /\ ComputeVerdict(items).action \in Actions
  BY <1>1, <1>2 DEF ComputeVerdict, Classifications, Actions
<1> QED BY <1>3 DEF CrossChecked, Classifications, Actions

(* Every step of the workflow, of a late report or of the queue keeps the  *)
(* invariant.                                                              *)
LEMMA StepInv == IInv /\ [Next]_vars => IInv'
<1> SUFFICES ASSUME IInv, [Next]_vars PROVE IInv'
  OBVIOUS
<1>1. CASE UNCHANGED vars
  BY <1>1 DEF IInv, TypeOK, Scored, Rated, vars, RowTypes, FirstOf
<1>2. ASSUME Faulty PROVE faults' \in Nat
  BY <1>2 DEF Faulty, IInv, TypeOK
<1>3. CASE StoreStatic \/ StoreDynamic \/ AbandonDynamic
  <2>1. /\ \E step \in {"dynamic", "vt"} : Go(step)
        /\ faults' \in Nat /\ detonating' \in BOOLEAN
    BY <1>2, <1>3 DEF StoreStatic, StoreDynamic, AbandonDynamic, IInv, TypeOK
  <2> QED BY <1>3, <2>1, GoTyped DEF Next, Steps, IInv
<1>4. CASE LookupHashes \/ LookupVulnerabilities \/ LookupTechDebt
  <2>1. /\ \E step \in {"cve", "debt", "yara"} : Go(step)
        /\ faults' \in Nat /\ detonating' \in BOOLEAN
    BY <1>2, <1>4 DEF LookupHashes, LookupVulnerabilities, LookupTechDebt, IInv, TypeOK
  <2> QED BY <1>4, <2>1, GoTyped DEF Next, Steps, IInv
<1>5. CASE StoreYaraPatternResults \/ Skip
  <2>1. /\ \E step \in {"dynamic", "cve", "debt", "yara", "score"} : Go(step)
        /\ faults' \in Nat /\ detonating' \in BOOLEAN
    BY <1>2, <1>5 DEF StoreYaraPatternResults, Skip, IInv, TypeOK
  <2> QED BY <1>5, <2>1, GoTyped DEF Next, Steps, IInv
<1>6. CASE LateReport
  <2>1. rows' \in RowTypes' /\ rows'.cve = rows.cve
    BY <1>6, RowsTyped DEF Next, LateReport, IInv, TypeOK, RowTypes
  <2> QED BY <1>6, <2>1 DEF LateReport, IInv, TypeOK, Scored, Rated, FirstOf
<1>7. CASE Finalize
  <2>1. PICK cve \in FirstOf(rows.cve) :
          /\ seen' = EvidenceWith(cve)
          /\ score' = Score(EvidenceWith(cve))
          /\ pc' = "verdict"
    BY <1>7 DEF Finalize
  <2>2. EvidenceWith(cve) \in Evidence /\ EvidenceWith(cve).cve = cve
    BY EvidenceTyped DEF IInv
  <2>3. Score(EvidenceWith(cve)) \in 0 .. 100
    BY <2>2, ScoreInRange
  <2>4. TypeOK'
    BY <1>7, <2>1, <2>2, <2>3 DEF Finalize, IInv, TypeOK, Steps, RowTypes
  <2>5. rows' = rows
    BY <1>7 DEF Finalize
  <2> HIDE DEF IInv
  <2>6. Scored'
    BY <2>1, <2>2, <2>5 DEF Scored, Rated, FirstOf
  <2> QED BY <2>4, <2>6 DEF IInv
<1>8. CASE FinalizeBlind
  BY <1>2, <1>8 DEF FinalizeBlind, IInv, TypeOK, Scored, Steps, RowTypes
<1>9. CASE BuildVerdict
  <2>1. PICK k \in 0 .. 4 :
          /\ k = 4 => UNCHANGED faults
          /\ k # 4 => Faulty
          /\ verdict' = CrossChecked(
               ComputeVerdict(Chain(k, VtItems(rows.vt, file.vt), EvidenceWith(None))), score)
    BY <1>9 DEF BuildVerdict
  <2>2. faults' \in Nat
    BY <1>2, <2>1 DEF IInv, TypeOK
  <2>3. verdict'.class \in Classifications /\ verdict'.action \in Actions
    BY <2>1, VerdictTyped
  <2>4. TypeOK'
    BY <1>9, <2>2, <2>3 DEF BuildVerdict, IInv, TypeOK, Steps, RowTypes
  <2>5. Scored'
    BY <1>9 DEF BuildVerdict, IInv, Scored, Rated, ShouldAlert, FirstOf
  <2> QED BY <2>4, <2>5 DEF IInv
<1>10. CASE DispatchAlerts
  <2>1. pushed' \in BOOLEAN
    BY <1>10 DEF DispatchAlerts, ShouldPushToEdr, IInv, TypeOK
  <2> QED BY <1>10, <2>1 DEF DispatchAlerts, IInv, TypeOK, Scored, Rated, Steps, RowTypes, FirstOf
<1>11. CASE Redeliver
  BY <1>11 DEF Redeliver, IInv, TypeOK, Scored, Steps, RowTypes
<1> QED BY <1>1, <1>3, <1>4, <1>5, <1>6, <1>7, <1>8, <1>9, <1>10, <1>11 DEF Next

(* So it holds in every reachable state.                                   *)
LEMMA Invariant == Spec => []IInv
BY InitInv, StepInv, PTL DEF Spec

(* Every table keeps its type and every score is one of 0 to 100.          *)
THEOREM TypeCorrect == Spec => []TypeOK
<1>1. IInv => TypeOK
  BY DEF IInv
<1> QED BY <1>1, Invariant, PTL

(* Signed and clean software that did nothing grave never raises an alert. *)
THEOREM SignedCleanRaisesNothing == Spec => []SignedCleanIsQuiet
<1>1. IInv => SignedCleanIsQuiet
  <2> SUFFICES ASSUME IInv, pc = "alert", Signed(seen), VtClean(seen.vt), Behaviour(seen) < 35
               PROVE  FALSE
    BY DEF SignedCleanIsQuiet
  <2>1. seen \in Evidence /\ score = Score(seen) /\ score >= 70
    BY DEF IInv, Scored, Rated, ShouldAlert
  <2>2. Score(seen) <= 60
    BY <2>1, SignedCleanScore
  <2>3. Score(seen) \in Int
    BY <2>1, ScoreInRange
  <2> QED BY <2>1, <2>2, <2>3
<1> QED BY <1>1, Invariant, PTL

(* An exploited vulnerability in every stored row makes at least "medium". *)
THEOREM ExploitedIsMedium == Spec => []KevIsAtLeastMedium
<1>1. IInv => KevIsAtLeastMedium
  <2> SUFFICES ASSUME IInv, pc \in {"alert", "done"}, seen # None,
                      rows.cve # {}, \A c \in rows.cve : c.kev
               PROVE  Level(score) \in {"medium", "high", "critical"}
    BY DEF KevIsAtLeastMedium
  <2>1. seen \in Evidence /\ score = Score(seen) /\ seen.cve \in FirstOf(rows.cve)
    BY DEF IInv, Scored, Rated
  <2>2. seen.cve \in rows.cve /\ seen.cve # None
    BY <2>1, BoundsAssumption DEF FirstOf, IInv, TypeOK, RowTypes
  <2>3. Kev(seen)
    BY <2>2 DEF Kev
  <2>4. score >= 40 /\ score \in Int
    BY <2>1, <2>3, KevScore, ScoreInRange
  <2> QED BY <2>4 DEF Level
<1> QED BY <1>1, Invariant, PTL

-----------------------------------------------------------------------------
(* The alert is not taken back *)

(* The points that the discount for trusted domains starts from.           *)
Capped(e) == CleanCap(e, VendorCap(e, Total(e)))

(* f is e with more YARA rows and other domains.                           *)
MoreRows(e, f) ==
  /\ f.vt = e.vt /\ f.dyn = e.dyn /\ f.static = e.static
  /\ f.cve = e.cve /\ f.debt = e.debt
  /\ \A s \in Severities : e.yara[s] <= f.yara[s]
  /\ e.untrusted <= f.untrusted

(* Then all but YARA, the domains and what is made of them is the same.    *)
LEMMA SameBeside ==
  ASSUME NEW e \in Evidence, NEW f \in Evidence, MoreRows(e, f)
  PROVE  /\ Signed(f) = Signed(e) /\ Vouched(f) = Vouched(e) /\ Kev(f) = Kev(e)
         /\ Epss(f) = Epss(e) /\ Behaviour(f) = Behaviour(e) /\ Sandbox(f) = Sandbox(e)
         /\ AdjustedSandbox(f) = AdjustedSandbox(e) /\ StaticScore(f) = StaticScore(e)
         /\ VulnScore(f) = VulnScore(e)
<1>1. /\ f.vt = e.vt /\ f.dyn = e.dyn /\ f.static = e.static
      /\ f.cve = e.cve /\ f.debt = e.debt
  BY DEF MoreRows
<1>2. Signed(f) = Signed(e) /\ Kev(f) = Kev(e) /\ Epss(f) = Epss(e)
  BY <1>1 DEF Signed, Kev, Epss
<1>3. Vouched(f) = Vouched(e)
  BY <1>1, <1>2 DEF Vouched
<1>4. Behaviour(f) = Behaviour(e) /\ Sandbox(f) = Sandbox(e)
  BY <1>1, <1>3 DEF Behaviour, Sandbox
<1>5. AdjustedSandbox(f) = AdjustedSandbox(e)
  BY <1>1, <1>4 DEF AdjustedSandbox
<1>6. StaticScore(f) = StaticScore(e)
  BY <1>1, <1>3 DEF StaticScore
<1>7. CveScore(f) = CveScore(e) /\ EpssScore(f) = EpssScore(e) /\ DebtScore(f) = DebtScore(e)
  BY <1>1, <1>2 DEF CveScore, EpssScore, DebtScore
<1>8. VulnScore(f) = VulnScore(e)
  BY <1>1, <1>2, <1>7 DEF VulnScore
<1> QED BY <1>2, <1>3, <1>4, <1>5, <1>6, <1>8

(* More matches are worth no less, before and after the caps.              *)
LEMMA CappedGrows ==
  ASSUME NEW e \in Evidence, NEW f \in Evidence, MoreRows(e, f)
  PROVE  Capped(e) \in Int /\ Capped(f) \in Int /\ Capped(e) <= Capped(f)
<1>1. /\ Vouched(f) = Vouched(e) /\ Signed(f) = Signed(e) /\ Behaviour(f) = Behaviour(e)
      /\ AdjustedSandbox(f) = AdjustedSandbox(e) /\ StaticScore(f) = StaticScore(e)
      /\ f.vt = e.vt
  BY SameBeside DEF MoreRows
<1>2. YaraScore(e.yara) \in 0 .. 40 /\ YaraScore(f.yara) \in 0 .. 40
  BY YaraRange DEF Evidence
<1>3. YaraScore(e.yara) <= YaraScore(f.yara)
  <2>1. /\ e.yara["critical"] <= f.yara["critical"] /\ e.yara["high"] <= f.yara["high"]
        /\ e.yara["medium"] <= f.yara["medium"] /\ e.yara["low"] <= f.yara["low"]
    BY DEF MoreRows, Severities
  <2>2. e.yara \in Counts /\ f.yara \in Counts
    BY DEF Evidence
  <2>3. /\ e.yara["critical"] \in Nat /\ e.yara["high"] \in Nat
        /\ e.yara["medium"] \in Nat /\ e.yara["low"] \in Nat
        /\ f.yara["critical"] \in Nat /\ f.yara["high"] \in Nat
        /\ f.yara["medium"] \in Nat /\ f.yara["low"] \in Nat
    BY <2>2, CountsAreNat
  <2> QED BY <2>1, <2>3 DEF YaraScore, AtMost
<1>4. AdjustedYara(e) \in Int /\ AdjustedYara(f) \in Int /\ AdjustedYara(e) <= AdjustedYara(f)
  BY <1>1, <1>2, <1>3 DEF AdjustedYara, AtMost
<1>5. Total(e) \in Int /\ Total(f) \in Int /\ Total(e) <= Total(f)
  <2> DEFINE rest == VtScore(e.vt) + AdjustedSandbox(e) + StaticScore(e)
                     + (IF VtClean(e.vt) /\ Behaviour(e) >= 40 THEN 15 ELSE 0)
             bonus == IF VtClean(e.vt) /\ Behaviour(e) >= 40 THEN 15 ELSE 0
  <2>1. VtScore(e.vt) \in Int /\ AdjustedSandbox(e) \in Int /\ StaticScore(e) \in Int
        /\ bonus \in Int
    BY VtScoreRange, AdjustedRange, StaticRange
  <2>2. Total(e) = VtScore(e.vt) + AdjustedYara(e) + AdjustedSandbox(e) + StaticScore(e) + bonus
    BY DEF Total
  <2>3. Total(f) = VtScore(e.vt) + AdjustedYara(f) + AdjustedSandbox(e) + StaticScore(e) + bonus
    BY <1>1 DEF Total
  <2> HIDE DEF bonus
  <2> QED BY <1>4, <2>1, <2>2, <2>3
<1>6. Behaviour(e) \in Nat
  BY SandboxRange
<1>7. /\ VendorCap(e, Total(e)) \in Int /\ VendorCap(f, Total(f)) \in Int
      /\ VendorCap(e, Total(e)) <= VendorCap(f, Total(f))
  BY <1>1, <1>5, <1>6 DEF VendorCap, AtMost
<1> DEFINE s == VendorCap(e, Total(e))
           t == VendorCap(f, Total(f))
<1> HIDE DEF s, t
<1>8. s \in Int /\ t \in Int /\ s <= t
  BY <1>7 DEF s, t
<1>9. CleanCap(e, s) \in Int /\ CleanCap(f, t) \in Int /\ CleanCap(e, s) <= CleanCap(f, t)
  BY <1>1, <1>6, <1>8 DEF CleanCap, AtMost
<1> QED BY <1>9 DEF Capped, s, t

(* A discount that is not gained leaves no less of points that are not     *)
(* negative; a discount of negative points would raise them.               *)
LEMMA DiscountGrows ==
  ASSUME NEW e \in Evidence, NEW f \in Evidence, MoreRows(e, f), ~TrustGained(e, f),
         NEW s \in Int, NEW t \in Int, s <= t, Kev(e) \/ s >= 0
  PROVE  Discounted(e, s) <= Discounted(f, t)
<1>1. Kev(f) = Kev(e)
  BY SameBeside
<1>2. e.untrusted \in Nat /\ f.untrusted \in Nat /\ e.untrusted <= f.untrusted
  BY DEF Evidence, MoreRows
<1>3. /\ TrustedShare(f, 7) => TrustedShare(e, 7)
      /\ TrustedShare(f, 4) => TrustedShare(e, 4)
  BY DEF TrustGained
<1>4. CASE Kev(e)
  BY <1>1, <1>4 DEF Discounted
<1>5. CASE ~Kev(e)
  <2>1. s >= 0
    BY <1>5
  <2>2. /\ (6 * s + 5) \div 10 <= (6 * t + 5) \div 10
        /\ (6 * s + 5) \div 10 <= (8 * t + 5) \div 10
        /\ (8 * s + 5) \div 10 <= (8 * t + 5) \div 10
        /\ (6 * s + 5) \div 10 <= t /\ (8 * s + 5) \div 10 <= t
    BY <2>1
  <2> QED BY <1>1, <1>2, <1>3, <1>5, <2>2 DEF Discounted
<1> QED BY <1>4, <1>5

(* So the score falls only if the points were negative or the domains have *)
(* come to be trusted.                                                     *)
THEOREM RowsOnlyAdd ==
  ASSUME NEW e \in Evidence, NEW f \in Evidence, MoreRows(e, f), ~TrustGained(e, f),
         Kev(e) \/ Capped(e) >= 0
  PROVE  Score(e) <= Score(f)
<1>1. /\ Signed(f) = Signed(e) /\ Kev(f) = Kev(e) /\ Epss(f) = Epss(e)
      /\ Sandbox(f) = Sandbox(e) /\ VulnScore(f) = VulnScore(e)
      /\ f.vt = e.vt /\ f.dyn = e.dyn
  BY SameBeside DEF MoreRows
<1>2. Capped(e) \in Int /\ Capped(f) \in Int /\ Capped(e) <= Capped(f)
  BY CappedGrows
<1>3. Discounted(e, Capped(e)) <= Discounted(f, Capped(f))
  BY <1>2, DiscountGrows
<1>4. /\ Weighed(e) = Discounted(e, Capped(e)) + VulnScore(e)
      /\ Weighed(f) = Discounted(f, Capped(f)) + VulnScore(e)
  BY <1>1 DEF Weighed, Capped
<1>5. VulnScore(e) \in Int /\ Weighed(e) \in Int /\ Weighed(f) \in Int
  BY VulnRange, WeighedInt
<1>6. Discounted(e, Capped(e)) \in Int /\ Discounted(f, Capped(f)) \in Int
  <2>1. Behaviour(e) \in Nat /\ Behaviour(f) \in Nat
    BY SandboxRange
  <2> QED BY <1>2, <2>1, CapsAndDiscount
<1>7. Weighed(e) <= Weighed(f)
  BY <1>3, <1>4, <1>5, <1>6
<1>8. GraveFloor(e, Weighed(e)) <= GraveFloor(f, Weighed(f))
  BY <1>1, <1>5, <1>7 DEF GraveFloor, AtLeast
<1> DEFINE s == GraveFloor(e, Weighed(e))
           t == GraveFloor(f, Weighed(f))
<1>9. s \in Int /\ t \in Int /\ s <= t
  BY <1>5, <1>8, FloorsInt
<1> HIDE DEF s, t
<1>10. VulnFloor(e, s) \in Int /\ VulnFloor(f, t) \in Int
  BY <1>9, FloorsInt
<1>11. VulnFloor(e, s) <= VulnFloor(f, t)
  BY <1>1, <1>9 DEF VulnFloor, AtLeast
<1> QED BY <1>10, <1>11 DEF Score, AtMost, AtLeast, s, t

(* A score that raises an alert comes of points that are not negative, if  *)
(* not of a known exploited vulnerability.                                 *)
LEMMA AlertHasPoints ==
  ASSUME NEW e \in Evidence, Score(e) >= 70, ~Kev(e)
  PROVE  Capped(e) >= 0
<1>1. Weighed(e) \in Int /\ VulnScore(e) \in 0 .. 35
  BY WeighedInt, VulnRange
<1>2. Weighed(e) >= 70
  <2>1. GraveFloor(e, Weighed(e)) \in Int
    BY <1>1, FloorsInt
  <2>2. VulnFloor(e, GraveFloor(e, Weighed(e))) \in Int
    BY <2>1, FloorsInt
  <2>3. VulnFloor(e, GraveFloor(e, Weighed(e))) >= 70
    BY <2>2 DEF Score, AtMost, AtLeast
  <2>4. GraveFloor(e, Weighed(e)) >= 70
    BY <2>1, <2>3 DEF VulnFloor, AtLeast
  <2> QED BY <1>1, <2>4 DEF GraveFloor, AtLeast
<1>3. Capped(e) \in Int
  <2>1. MoreRows(e, e)
    <3>1. e.untrusted \in Nat /\ e.yara \in [Severities -> Nat]
      BY DEF Evidence, Counts
    <3> QED BY <3>1 DEF MoreRows
  <2> QED BY <2>1, CappedGrows
<1>4. Weighed(e) = Discounted(e, Capped(e)) + VulnScore(e)
  BY DEF Weighed, Capped
<1>5. Discounted(e, Capped(e)) \in {(6 * Capped(e) + 5) \div 10, (8 * Capped(e) + 5) \div 10,
                                   Capped(e)}
  BY DEF Discounted
<1>6. Discounted(e, Capped(e)) \in Int
  BY <1>3, <1>5
<1>7. Discounted(e, Capped(e)) >= 35
  BY <1>1, <1>2, <1>4, <1>6
<1> QED BY <1>3, <1>5, <1>7

(* What the services answer about the file.                                *)
AllCves == {file.cves[i] : i \in DOMAIN file.cves}
AllVt == {file.vt[i] : i \in Asked(DOMAIN file.vt)}

(* While every service answers, the tables hold the whole answers of the   *)
(* steps that this delivery is past, and nothing else.                     *)
Answered ==
  /\ pc # "static" => rows.static
  /\ pc \notin {"static", "dynamic"} => rows.dyn > 0
  /\ \A i \in DOMAIN file.vt : rows.vt[i] > 0 => i \in Asked(DOMAIN file.vt)
  /\ pc \notin {"static", "dynamic", "vt"} =>
       \A i \in Asked(DOMAIN file.vt) : rows.vt[i] > 0
  /\ rows.cve \subseteq AllCves
  /\ pc \notin {"static", "dynamic", "vt", "cve"} => rows.cve = AllCves
  /\ pc \notin {"static", "dynamic", "vt", "cve", "debt"} => rows.debt = (file.debt # None)

Complete(e) ==
  /\ e \in Evidence
  /\ e.vt = AllVt /\ e.dyn = file.dyn /\ e.static = file.static /\ e.debt = file.debt
  /\ e.cve \in FirstOf(AllCves)

(* The stored score is that of such an evidence, with at most the YARA     *)
(* rows and untrusted domains there are by now.                            *)
SeenInFull ==
  /\ seen = None => score = None /\ alerts = 0 /\ pc \notin {"verdict", "alert", "done"}
  /\ seen # None =>
       /\ Complete(seen) /\ score = Score(seen)
       /\ \A s \in Severities : seen.yara[s] <= rows.yara[s]
       /\ seen.untrusted <= rows.untrusted
  /\ alerts > 0 /\ Len(file.cves) <= 1 => Kev(seen) \/ Capped(seen) >= 0

AInv == IInv /\ (faults = 0 => Answered /\ SeenInFull)

LEMMA InitAnswered == Init => AInv
<1> SUFFICES ASSUME Init PROVE AInv
  OBVIOUS
<1>1. IInv
  BY InitInv
<1>2. /\ pc = "static" /\ seen = None /\ score = None /\ alerts = 0
      /\ rows.vt = [i \in DOMAIN file.vt |-> 0] /\ rows.cve = {}
  BY DEF Init
<1>3. Answered
  BY <1>2 DEF Answered
<1>4. SeenInFull
  BY <1>2 DEF SeenInFull
<1> QED BY <1>1, <1>3, <1>4 DEF AInv

(* When no service has failed, none did before the step either.            *)
LEMMA StillNoFault ==
  ASSUME TypeOK, Next, faults' = 0
  PROVE  faults = 0 /\ ~Faulty
<1>1. faults \in Nat
  BY DEF TypeOK
<1>2. ~Faulty
  BY <1>1 DEF Faulty
<1> QED BY <1>1, <1>2
     DEF Next, StoreStatic, StoreDynamic, AbandonDynamic, LateReport, LookupHashes,
         LookupVulnerabilities, LookupTechDebt, StoreYaraPatternResults, Skip, Finalize,
         FinalizeBlind, BuildVerdict, DispatchAlerts, Redeliver

(* No step but the score's changes what was seen, and no step takes rows   *)
(* away.                                                                   *)
LEMMA RowsGrow ==
  ASSUME TypeOK, Next
  PROVE  /\ file' = file
         /\ \A s \in Severities : rows.yara[s] <= rows'.yara[s]
         /\ rows.untrusted <= rows'.untrusted
<1>1. file' = file
  BY RowsTyped
<1>2. rows \in RowTypes /\ file \in FileTypes
  BY BoundsAssumption DEF TypeOK
<1>3. /\ rows.untrusted \in Nat /\ \A s \in Severities : rows.yara[s] \in Nat
      /\ rows.yara \in Counts
  BY <1>2 DEF RowTypes, Counts
<1>4. /\ file.static.untrusted \in Nat /\ file.dyn.untrusted \in Nat
      /\ \A s \in Severities : file.dyn.yara[s] \in Nat
  <2>1. file.static \in StaticRows /\ file.dyn \in DynRows
    BY <1>2 DEF FileTypes
  <2>2. file.dyn.yara \in Counts
    BY <2>1 DEF DynRows
  <2> QED BY <2>1, <2>2 DEF StaticRows, DynRows, Counts
<1>5. CASE StoreStatic
  <2>1. rows'.yara = rows.yara /\ rows'.untrusted = rows.untrusted + file.static.untrusted
    BY <1>2, <1>5 DEF StoreStatic, RowTypes
  <2> QED BY <1>1, <1>3, <1>4, <2>1
<1>6. CASE StoreDynamic
  <2>1. rows'.yara = rows.yara /\ rows'.untrusted = rows.untrusted + file.dyn.untrusted
    BY <1>2, <1>6 DEF StoreDynamic, RowTypes
  <2> QED BY <1>1, <1>3, <1>4, <2>1
<1>7. CASE StoreYaraPatternResults
  <2>1. /\ rows'.yara = [s \in Severities |-> rows.yara[s] + file.dyn.yara[s]]
        /\ rows'.untrusted = rows.untrusted
    BY <1>2, <1>7 DEF StoreYaraPatternResults, RowTypes
  <2> QED BY <1>1, <1>3, <1>4, <2>1
<1>8. CASE LateReport \/ LookupHashes \/ LookupVulnerabilities \/ LookupTechDebt
  <2>1. rows'.yara = rows.yara /\ rows'.untrusted = rows.untrusted
    BY <1>2, <1>8
    DEF LateReport, LookupHashes, LookupVulnerabilities, LookupTechDebt, RowTypes
  <2> QED BY <1>1, <1>3, <2>1
<1>9. CASE rows' = rows
  BY <1>1, <1>3, <1>9
<1> QED BY <1>5, <1>6, <1>7, <1>8, <1>9
     DEF Next, AbandonDynamic, Skip, Finalize, FinalizeBlind, BuildVerdict, DispatchAlerts, Redeliver

(* Past the look-ups the evidence is complete.                             *)
LEMMA EvidenceComplete ==
  ASSUME AInv, faults = 0, pc = "score", NEW cve \in FirstOf(rows.cve)
  PROVE  Complete(EvidenceWith(cve))
<1>1. EvidenceWith(cve) \in Evidence
  BY EvidenceTyped DEF AInv, IInv
<1>2. /\ rows.static /\ rows.dyn > 0 /\ rows.cve = AllCves /\ rows.debt = (file.debt # None)
      /\ \A i \in DOMAIN file.vt : rows.vt[i] > 0 <=> i \in Asked(DOMAIN file.vt)
  BY DEF AInv, Answered, Asked
<1>3. VtStored = AllVt
  BY <1>2 DEF VtStored, AllVt, Asked
<1>4. (IF rows.debt THEN file.debt ELSE None) = file.debt
  BY <1>2
<1> QED BY <1>1, <1>2, <1>3, <1>4 DEF Complete, EvidenceWith

(* A step after which still no service has failed keeps the tables so.     *)
LEMMA StepAnswered ==
  ASSUME AInv, Next, faults' = 0
  PROVE  Answered'
<1>1. TypeOK /\ faults = 0 /\ ~Faulty /\ Answered /\ SeenInFull
  BY StillNoFault DEF AInv, IInv
<1>2. rows \in RowTypes /\ file \in FileTypes
  BY <1>1, BoundsAssumption DEF TypeOK
<1>3. file' = file
  BY <1>1, RowsGrow
<1>4. /\ AllCves' = AllCves /\ (Asked(DOMAIN file.vt))' = Asked(DOMAIN file.vt)
  BY <1>3 DEF AllCves, Asked
<1>5. rows.dyn \in Nat /\ file.vt \in Seq(VtRows) /\ rows.vt \in [DOMAIN file.vt -> Nat]
  BY <1>2 DEF RowTypes, FileTypes
<1>6. CASE StoreStatic
  <2>1. /\ pc' = "dynamic" /\ rows'.static /\ rows'.vt = rows.vt /\ rows'.cve = rows.cve
    BY <1>2, <1>6 DEF StoreStatic, Go, RowTypes
  <2> QED BY <1>1, <1>3, <1>4, <2>1 DEF Answered
<1>7. CASE StoreDynamic
  <2>1. /\ pc = "dynamic" /\ pc' = "vt" /\ rows'.static = rows.static /\ rows'.vt = rows.vt
        /\ rows'.cve = rows.cve /\ rows'.dyn = rows.dyn + 1
    BY <1>2, <1>7 DEF StoreDynamic, Go, RowTypes
  <2> QED BY <1>1, <1>3, <1>4, <1>5, <2>1 DEF Answered
<1>8. CASE LateReport
  <2>1. /\ pc' = pc /\ rows'.static = rows.static /\ rows'.vt = rows.vt
        /\ rows'.cve = rows.cve /\ rows'.dyn = rows.dyn + 1 /\ rows'.debt = rows.debt
    BY <1>2, <1>8 DEF LateReport, RowTypes
  <2> QED BY <1>1, <1>3, <1>4, <1>5, <2>1 DEF Answered
<1>9. CASE LookupHashes
  <2>1. /\ pc = "vt" /\ pc' = "cve" /\ rows'.static = rows.static /\ rows'.dyn = rows.dyn
        /\ rows'.cve = rows.cve
    BY <1>2, <1>9 DEF LookupHashes, Go, RowTypes
  <2>2. rows'.vt = [i \in DOMAIN file.vt |->
                      IF i \in Asked(DOMAIN file.vt) THEN rows.vt[i] + 1 ELSE rows.vt[i]]
    <3>1. PICK answered \in SUBSET DOMAIN file.vt :
            /\ IF answered = DOMAIN file.vt THEN UNCHANGED faults ELSE Faulty
            /\ rows' = [rows EXCEPT !.vt = [i \in DOMAIN file.vt |->
                          IF i \in Asked(answered) THEN rows.vt[i] + 1 ELSE rows.vt[i]]]
      BY <1>9 DEF LookupHashes
    <3>2. answered = DOMAIN file.vt
      BY <1>1, <3>1
    <3> QED BY <1>2, <3>1, <3>2 DEF RowTypes
  <2>3. Asked(DOMAIN file.vt) \subseteq DOMAIN file.vt
    BY DEF Asked
  <2>4. \A i \in Asked(DOMAIN file.vt) : rows'.vt[i] > 0
    BY <1>5, <2>2, <2>3
  <2>5. \A i \in DOMAIN file.vt : rows'.vt[i] > 0 => i \in Asked(DOMAIN file.vt)
    BY <1>1, <2>2 DEF Answered
  <2> QED BY <1>1, <1>3, <1>4, <2>1, <2>4, <2>5 DEF Answered
<1>10. CASE LookupVulnerabilities
  <2>1. /\ pc = "cve" /\ pc' = "debt" /\ rows'.static = rows.static /\ rows'.dyn = rows.dyn
        /\ rows'.vt = rows.vt
    BY <1>2, <1>10 DEF LookupVulnerabilities, Go, RowTypes
  <2>2. rows'.cve = rows.cve \cup AllCves
    <3>1. PICK answered \in SUBSET DOMAIN file.cves :
            /\ IF answered = DOMAIN file.cves THEN UNCHANGED faults ELSE Faulty
            /\ rows' = [rows EXCEPT !.cve = @ \cup {file.cves[i] : i \in answered}]
      BY <1>10 DEF LookupVulnerabilities
    <3>2. answered = DOMAIN file.cves
      BY <1>1, <3>1
    <3> QED BY <1>2, <3>1, <3>2 DEF RowTypes, AllCves
  <2> QED BY <1>1, <1>3, <1>4, <2>1, <2>2 DEF Answered
<1>11. CASE LookupTechDebt
  <2>1. /\ pc = "debt" /\ pc' = "yara" /\ rows'.static = rows.static /\ rows'.dyn = rows.dyn
        /\ rows'.vt = rows.vt /\ rows'.cve = rows.cve /\ rows'.debt = (file.debt # None)
    BY <1>1, <1>2, <1>11 DEF LookupTechDebt, Go, RowTypes
  <2> QED BY <1>1, <1>3, <1>4, <2>1 DEF Answered
<1>12. CASE StoreYaraPatternResults
  <2>1. /\ pc = "yara" /\ pc' = "score" /\ rows'.static = rows.static /\ rows'.dyn = rows.dyn
        /\ rows'.vt = rows.vt /\ rows'.cve = rows.cve /\ rows'.debt = rows.debt
    BY <1>2, <1>12 DEF StoreYaraPatternResults, Go, RowTypes
  <2> QED BY <1>1, <1>3, <1>4, <2>1 DEF Answered
<1>13. CASE Skip
  <2>1. pc \notin {"static", "dynamic"} => rows.dyn > 0
    BY <1>1 DEF Answered
  <2>2. FALSE
    BY <1>1, <1>5, <1>13, <2>1 DEF Skip
  <2> QED BY <2>2
<1>14. CASE Finalize \/ BuildVerdict \/ DispatchAlerts
  <2>1. /\ pc \in {"score", "verdict", "alert"} /\ pc' \in {"verdict", "alert", "done"}
        /\ rows' = rows
    BY <1>14 DEF Finalize, BuildVerdict, DispatchAlerts
  <2> QED BY <1>1, <1>3, <1>4, <2>1 DEF Answered
<1>15. CASE Redeliver
  <2>1. pc' = "static" /\ rows' = rows
    BY <1>15 DEF Redeliver
  <2> QED BY <1>1, <1>3, <1>4, <2>1 DEF Answered
<1>16. ~AbandonDynamic /\ ~FinalizeBlind
  BY <1>1 DEF AbandonDynamic, FinalizeBlind
<1> QED BY <1>6, <1>7, <1>8, <1>9, <1>10, <1>11, <1>12, <1>13, <1>14, <1>15, <1>16 DEF Next

(* Nor does the score fall in such a step, if there is one CVE row at most *)
(* and the domains have not come to be trusted.                            *)
LEMMA StepSeen ==
  ASSUME AInv, Next, faults' = 0
  PROVE  /\ SeenInFull'
         /\ alerts > 0 /\ Len(file.cves) <= 1 /\ ~TrustGained(seen, seen') => score' >= score
<1>1. TypeOK /\ Scored /\ faults = 0 /\ ~Faulty /\ Answered /\ SeenInFull
  BY StillNoFault DEF AInv, IInv
<1>2. /\ file' = file
      /\ \A s \in Severities : rows.yara[s] <= rows'.yara[s]
      /\ rows.untrusted <= rows'.untrusted
  BY <1>1, RowsGrow
<1>3. AllCves' = AllCves /\ AllVt' = AllVt
  BY <1>2 DEF AllCves, AllVt, Asked
<1>4. /\ rows \in RowTypes /\ rows' \in RowTypes /\ alerts \in Nat
      /\ seen \in Evidence \cup {None} /\ file \in FileTypes
  <2>1. rows' \in RowTypes'
    BY <1>1, RowsTyped
  <2>2. RowTypes' = RowTypes
    BY <1>2 DEF RowTypes
  <2> QED BY <1>1, <2>1, <2>2, BoundsAssumption DEF TypeOK
<1>5. /\ \A s \in Severities : rows.yara[s] \in Nat /\ rows'.yara[s] \in Nat
      /\ rows.untrusted \in Nat /\ rows'.untrusted \in Nat
  BY <1>4 DEF RowTypes, Counts
<1>6. ASSUME seen # None
      PROVE  /\ seen \in Evidence /\ Complete(seen) /\ score = Score(seen)
             /\ \A s \in Severities : seen.yara[s] \in Nat /\ seen.yara[s] <= rows.yara[s]
             /\ seen.untrusted \in Nat /\ seen.untrusted <= rows.untrusted
             /\ score \in Int
  <2>1. seen \in Evidence /\ Complete(seen) /\ score = Score(seen)
    BY <1>1, <1>4, <1>6 DEF SeenInFull
  <2>2. seen.yara \in Counts /\ seen.untrusted \in Nat
    BY <2>1 DEF Evidence
  <2>3. /\ \A s \in Severities : seen.yara[s] <= rows.yara[s]
        /\ seen.untrusted <= rows.untrusted
    BY <1>1, <1>6 DEF SeenInFull
  <2>4. Score(seen) \in Int
    BY <2>1, ScoreInRange
  <2> QED BY <2>1, <2>2, <2>3, <2>4 DEF Counts
<1>7. ASSUME UNCHANGED <<seen, score>>,
             seen = None => alerts' = 0 /\ pc' \notin {"verdict", "alert", "done"},
             alerts' > 0 /\ Len(file.cves) <= 1 => Kev(seen) \/ Capped(seen) >= 0
      PROVE  /\ SeenInFull'
             /\ alerts > 0 => score' >= score
  <2>1. CASE seen = None
    <3>1. score = None /\ alerts = 0
      BY <1>1, <2>1 DEF SeenInFull
    <3> QED BY <1>2, <1>7, <2>1, <3>1 DEF SeenInFull
  <2>2. CASE seen # None
    <3>1. Complete(seen)'
      BY <1>2, <1>3, <1>6, <1>7, <2>2 DEF Complete
    <3>2. \A s \in Severities : seen.yara[s] <= rows'.yara[s]
      BY <1>2, <1>5, <1>6, <2>2
    <3>3. seen.untrusted <= rows'.untrusted
      BY <1>2, <1>5, <1>6, <2>2
    <3>4. score' = Score(seen') /\ score' >= score
      BY <1>6, <1>7, <2>2
    <3> QED BY <1>2, <1>7, <2>2, <3>1, <3>2, <3>3, <3>4 DEF SeenInFull
  <2> QED BY <2>1, <2>2
<1>8. alerts > 0 /\ Len(file.cves) <= 1 => Kev(seen) \/ Capped(seen) >= 0
  BY <1>1 DEF SeenInFull
<1>9. seen = None => alerts = 0 /\ pc \notin {"verdict", "alert", "done"}
  BY <1>1 DEF SeenInFull
<1>10. CASE \/ StoreStatic \/ StoreDynamic \/ LateReport \/ LookupHashes
            \/ LookupVulnerabilities \/ LookupTechDebt \/ StoreYaraPatternResults
            \/ Redeliver
  <2>1. /\ UNCHANGED <<seen, score, alerts>>
        /\ pc' = pc \/ pc' \notin {"verdict", "alert", "done"}
    BY <1>10 DEF StoreStatic, StoreDynamic, LateReport, LookupHashes, LookupVulnerabilities,
                 LookupTechDebt, StoreYaraPatternResults, Redeliver, Go
  <2> QED BY <1>7, <1>8, <1>9, <2>1
<1>11. CASE BuildVerdict
  <2>1. UNCHANGED <<seen, score, alerts>> /\ pc = "verdict"
    BY <1>11 DEF BuildVerdict
  <2> QED BY <1>7, <1>8, <1>9, <2>1
<1>12. CASE DispatchAlerts
  <2>1. UNCHANGED <<seen, score>> /\ pc = "alert"
    BY <1>12 DEF DispatchAlerts
  <2>2. seen # None
    BY <1>9, <2>1
  <2>3. score >= 70
    BY <1>1, <2>1 DEF Scored, ShouldAlert
  <2>4. Kev(seen) \/ Capped(seen) >= 0
    BY <1>6, <2>2, <2>3, AlertHasPoints
  <2> QED BY <1>7, <2>1, <2>2, <2>4
<1>13. CASE Finalize
  <2>1. PICK cve \in FirstOf(rows.cve) :
          seen' = EvidenceWith(cve) /\ score' = Score(EvidenceWith(cve))
    BY <1>13 DEF Finalize
  <2>2. /\ pc = "score" /\ pc' = "verdict" /\ rows' = rows /\ alerts' = alerts
    BY <1>13 DEF Finalize
  <2>3. Complete(EvidenceWith(cve))
    BY <1>1, <2>2, EvidenceComplete
  <2>4. PICK f \in Evidence : f = EvidenceWith(cve)
    BY <2>3 DEF Complete
  <2>5. /\ Complete(f) /\ seen' = f /\ score' = Score(f)
        /\ f.yara = rows.yara /\ f.untrusted = rows.untrusted
    BY <2>1, <2>3, <2>4 DEF EvidenceWith
  <2>6. Score(f) \in 0 .. 100
    BY ScoreInRange
  <2>7. f # None
    BY BoundsAssumption
  <2>8. Complete(seen)'
    BY <1>2, <1>3, <2>5 DEF Complete
  <2>9. \A s \in Severities : f.yara[s] <= rows'.yara[s]
    BY <1>5, <2>2, <2>5
  <2>10. f.untrusted <= rows'.untrusted
    BY <1>5, <2>2, <2>5
  <2>11. ASSUME alerts > 0, Len(file.cves) <= 1
         PROVE  /\ MoreRows(seen, f) /\ (Kev(f) \/ Capped(f) >= 0)
                /\ ~TrustGained(seen, f) => Score(seen) <= Score(f)
    <3>1. seen # None
      BY <1>4, <1>9, <2>11
    <3>2. /\ seen \in Evidence /\ Complete(seen)
          /\ \A s \in Severities : seen.yara[s] <= rows.yara[s]
          /\ seen.untrusted <= rows.untrusted
      BY <1>6, <3>1
    <3>3. seen.cve = f.cve
      <4>1. file.cves \in Seq(CveRows)
        BY <1>4 DEF FileTypes
      <4>2. DOMAIN file.cves = 1 .. Len(file.cves) /\ Len(file.cves) \in Nat
        BY <4>1
      <4>3. \A x \in AllCves, y \in AllCves : x = y
        BY <2>11, <4>2 DEF AllCves
      <4> QED BY <2>5, <3>2, <4>3 DEF Complete, FirstOf
    <3>4. MoreRows(seen, f)
      BY <2>5, <3>2, <3>3 DEF MoreRows, Complete
    <3>5. PICK e \in Evidence : e = seen
      BY <3>2
    <3>6. MoreRows(e, f) /\ (Kev(e) \/ Capped(e) >= 0)
      BY <1>8, <2>11, <3>4, <3>5
    <3>7. Kev(f) \/ Capped(f) >= 0
      <4>1. Kev(f) = Kev(e)
        BY <3>6, SameBeside
      <4>2. Capped(e) \in Int /\ Capped(f) \in Int /\ Capped(e) <= Capped(f)
        BY <3>6, CappedGrows
      <4> QED BY <3>6, <4>1, <4>2
    <3>8. ~TrustGained(e, f) => Score(e) <= Score(f)
      BY <3>6, RowsOnlyAdd
    <3> QED BY <3>4, <3>5, <3>7, <3>8
  <2>12. SeenInFull'
    BY <1>2, <2>2, <2>5, <2>7, <2>8, <2>9, <2>10, <2>11 DEF SeenInFull
  <2>13. ASSUME alerts > 0, Len(file.cves) <= 1, ~TrustGained(seen, seen')
         PROVE  score' >= score
    <3>1. seen # None
      BY <1>4, <1>9, <2>13
    <3>2. score = Score(seen) /\ score \in Int
      BY <1>6, <3>1
    <3>3. Score(seen) <= Score(f)
      BY <2>5, <2>11, <2>13
    <3>4. score' \in Int
      BY <2>5, <2>6
    <3> QED BY <2>5, <3>2, <3>3, <3>4
  <2> QED BY <2>12, <2>13
<1>14. ~Skip
  <2>1. pc \notin {"static", "dynamic"} => rows.dyn > 0
    BY <1>1 DEF Answered
  <2>2. rows.dyn \in Nat
    BY <1>4 DEF RowTypes
  <2> QED BY <1>1, <2>1, <2>2 DEF Skip
<1>15. ~AbandonDynamic /\ ~FinalizeBlind
  BY <1>1 DEF AbandonDynamic, FinalizeBlind
<1> QED BY <1>10, <1>11, <1>12, <1>13, <1>14, <1>15 DEF Next

(* A submission that has been reported keeps its score or gains, for any   *)
(* file of one product at most and any number of deliveries in which no    *)
(* service fails to answer, unless more of its domains come to be trusted. *)
THEOREM ReportedKeepsItsScore == Spec => AlertIsNotTakenBack
<1>1. AInv /\ [Next]_vars => AInv'
  <2> SUFFICES ASSUME AInv, [Next]_vars PROVE AInv'
    OBVIOUS
  <2>1. IInv'
    BY StepInv DEF AInv
  <2>2. CASE Next
    <3>1. faults' = 0 => Answered' /\ SeenInFull'
      BY <2>2, StepAnswered, StepSeen
    <3> QED BY <2>1, <3>1 DEF AInv
  <2>3. CASE UNCHANGED vars
    <3>1. UNCHANGED <<Answered, SeenInFull, faults>>
      BY <2>3 DEF vars, Answered, SeenInFull, Complete, AllCves, AllVt, Asked
    <3> QED BY <2>1, <3>1 DEF AInv
  <2> QED BY <2>2, <2>3
<1>2. AInv /\ [Next]_vars =>
        [alerts > 0 /\ faults' = 0 /\ Len(file.cves) <= 1 /\ ~TrustGained(seen, seen')
         => score' >= score]_vars
  <2> SUFFICES ASSUME AInv, Next, alerts > 0, faults' = 0, Len(file.cves) <= 1,
                      ~TrustGained(seen, seen')
               PROVE  score' >= score
    OBVIOUS
  <2> QED BY StepSeen
<1> QED BY <1>1, <1>2, InitAnswered, PTL DEF Spec, AlertIsNotTakenBack

----------------------------------------------------------------------------
(* Induction, and sums over a set                                           *)

Below == {p \in Nat \X Nat : p[1] < p[2]}

(* A set of natural numbers has a least member.                             *)
LEMMA Least ==
  ASSUME NEW T \in SUBSET Nat, T # {}
  PROVE  \E x \in T : \A y \in T : x <= y
<1>1. IsWellFoundedOn(Below, Nat)
  BY NatLessThanWellFounded DEF OpToRel, Below
<1>2. PICK x \in T : \A y \in T : <<y, x>> \notin Below
  BY <1>1, WFMin
<1>3. \A y \in T : y < x => <<y, x>> \in Below
  BY DEF Below
<1>4. x \in Nat /\ \A y \in T : y \in Nat
  OBVIOUS
<1>5. ASSUME NEW y \in T PROVE x <= y
  <2>1. ~(y < x)
    BY <1>2, <1>3
  <2> QED BY <1>4, <2>1
<1> QED BY <1>5

(* Induction, over a set in place of a predicate.                           *)
LEMMA Induction ==
  ASSUME NEW S, 0 \in S, \A n \in Nat : n \in S => n + 1 \in S
  PROVE  Nat \subseteq S
<1> DEFINE T == Nat \ S
<1> SUFFICES ASSUME T # {} PROVE FALSE
  OBVIOUS
<1>1. PICK x \in T : \A y \in T : x <= y
  BY Least
<1>2. x # 0
  OBVIOUS
<1>3. x - 1 \in Nat /\ x - 1 \notin T
  BY <1>1, <1>2
<1> QED BY <1>3

(* The same for the finite sets: G has the set that its members make by     *)
(* one more element.                                                        *)
LEMMA SetInduction ==
  ASSUME NEW S, IsFiniteSet(S), NEW G,
         \A s \in SUBSET S : (\A x \in s : s \ {x} \in G) => s \in G
  PROVE  SUBSET S \subseteq G
<1> DEFINE Good == {n \in Nat : \A s \in SUBSET S : Cardinality(s) = n => s \in G}
<1>1. \A s \in SUBSET S : IsFiniteSet(s) /\ Cardinality(s) \in Nat
  <2> SUFFICES ASSUME NEW s \in SUBSET S PROVE IsFiniteSet(s) /\ Cardinality(s) \in Nat
    OBVIOUS
  <2>1. IsFiniteSet(s)
    BY FS_Subset
  <2> QED BY <2>1, FS_CardinalityType
<1>2. 0 \in Good
  <2> SUFFICES ASSUME NEW s \in SUBSET S, Cardinality(s) = 0 PROVE s \in G
    OBVIOUS
  <2>1. s = {}
    BY <1>1, FS_EmptySet
  <2> QED BY <2>1
<1>3. ASSUME NEW n \in Nat, n \in Good PROVE n + 1 \in Good
  <2> SUFFICES ASSUME NEW s \in SUBSET S, Cardinality(s) = n + 1 PROVE s \in G
    OBVIOUS
  <2>1. ASSUME NEW x \in s PROVE s \ {x} \in G
    <3>1. IsFiniteSet(s)
      BY <1>1
    <3>2. Cardinality(s \ {x}) = Cardinality(s) - 1
      BY <3>1, FS_RemoveElement
    <3>3. Cardinality(s \ {x}) = n /\ s \ {x} \in SUBSET S
      BY <3>2
    <3> QED BY <1>3, <3>3
  <2> QED BY <2>1
<1> HIDE DEF Good
<1>4. Nat \subseteq Good
  BY <1>2, <1>3, Induction
<1> QED BY <1>1, <1>4 DEF Good

(* g is the recursive function of MapThenSumSet, for the summands f.        *)
Sums(f, S, g) ==
  g = [s \in SUBSET S |->
         IF s = {} THEN 0
         ELSE f[CHOOSE x \in s : TRUE] + g[s \ {CHOOSE x \in s : TRUE}]]

(* What such a function is at each set.                                     *)
LEMMA SumsAt ==
  ASSUME NEW S, NEW f, NEW g, Sums(f, S, g)
  PROVE  /\ g[{}] = 0
         /\ \A s \in SUBSET S : s # {} =>
              \E x \in s : g[s] = f[x] + g[s \ {x}]
<1>1. \A s \in SUBSET S :
        g[s] = IF s = {} THEN 0
               ELSE f[CHOOSE x \in s : TRUE] + g[s \ {CHOOSE x \in s : TRUE}]
  BY DEF Sums
<1>2. {} \in SUBSET S
  OBVIOUS
<1>3. g[{}] = 0
  BY <1>1, <1>2
<1>4. ASSUME NEW s \in SUBSET S, s # {}
      PROVE  \E x \in s : g[s] = f[x] + g[s \ {x}]
  <2> DEFINE x == CHOOSE x \in s : TRUE
  <2>1. x \in s
    BY <1>4
  <2>2. g[s] = f[x] + g[s \ {x}]
    BY <1>1, <1>4
  <2> QED BY <2>1, <2>2
<1> QED BY <1>3, <1>4

(* There is one, and its sums are of the type of the summands.              *)
LEMMA SumsExist ==
  ASSUME NEW S, IsFiniteSet(S), NEW f
  PROVE  \E g : Sums(f, S, g)
<1> DEFINE Small(n) == {s \in SUBSET S : Cardinality(s) <= n}
           Sum(g, s) == IF s = {} THEN 0
                        ELSE f[CHOOSE x \in s : TRUE] + g[s \ {CHOOSE x \in s : TRUE}]
           Good == {n \in Nat : \E g : \A s \in Small(n) : g[s] = Sum(g, s)}
<1>1. \A s \in SUBSET S : /\ IsFiniteSet(s) /\ Cardinality(s) \in Nat
                          /\ Cardinality(s) <= Cardinality(S)
  <2> SUFFICES ASSUME NEW s \in SUBSET S
               PROVE  /\ IsFiniteSet(s) /\ Cardinality(s) \in Nat
                      /\ Cardinality(s) <= Cardinality(S)
    OBVIOUS
  <2>1. IsFiniteSet(s) /\ Cardinality(s) <= Cardinality(S)
    BY FS_Subset
  <2> QED BY <2>1, FS_CardinalityType
<1>2. \A s \in SUBSET S : s # {} =>
        /\ (CHOOSE x \in s : TRUE) \in s
        /\ s \ {CHOOSE x \in s : TRUE} \in SUBSET S
        /\ Cardinality(s \ {CHOOSE x \in s : TRUE}) = Cardinality(s) - 1
  <2> SUFFICES ASSUME NEW s \in SUBSET S, s # {}
               PROVE  /\ (CHOOSE x \in s : TRUE) \in s
                      /\ s \ {CHOOSE x \in s : TRUE} \in SUBSET S
                      /\ Cardinality(s \ {CHOOSE x \in s : TRUE}) = Cardinality(s) - 1
    OBVIOUS
  <2> DEFINE c == CHOOSE x \in s : TRUE
  <2>1. c \in s
    OBVIOUS
  <2>2. IsFiniteSet(s)
    BY <1>1
  <2> HIDE DEF c
  <2>3. Cardinality(s \ {c}) = Cardinality(s) - 1
    BY <2>1, <2>2, FS_RemoveElement
  <2>4. s \ {c} \in SUBSET S
    OBVIOUS
  <2> QED BY <2>1, <2>3, <2>4 DEF c
<1>3. 0 \in Good
  <2> DEFINE g == [s \in SUBSET S |-> 0]
  <2>1. ASSUME NEW s \in Small(0) PROVE g[s] = Sum(g, s)
    <3>1. s = {}
      BY <1>1, FS_EmptySet
    <3> QED BY <3>1
  <2> HIDE DEF g, Small, Sum
  <2> QED BY <2>1
<1>4. ASSUME NEW n \in Nat, n \in Good PROVE n + 1 \in Good
  <2>1. PICK g : \A s \in Small(n) : g[s] = Sum(g, s)
    BY <1>4
  <2> DEFINE h == [s \in SUBSET S |-> Sum(g, s)]
  <2>2. \A s \in Small(n) : h[s] = g[s]
    BY <2>1
  <2>3. ASSUME NEW s \in Small(n + 1), s # {}
        PROVE  h[s \ {CHOOSE x \in s : TRUE}] = g[s \ {CHOOSE x \in s : TRUE}]
    <3>1. s \ {CHOOSE x \in s : TRUE} \in SUBSET S
      BY <1>2, <2>3
    <3>2. Cardinality(s \ {CHOOSE x \in s : TRUE}) = Cardinality(s) - 1
      BY <1>2, <2>3
    <3>3. Cardinality(s) \in Nat /\ Cardinality(s) <= n + 1
      BY <1>1
    <3>4. s \ {CHOOSE x \in s : TRUE} \in Small(n)
      BY <3>1, <3>2, <3>3
    <3> QED BY <2>2, <3>4
  <2>4. ASSUME NEW s \in Small(n + 1) PROVE h[s] = Sum(h, s)
    <3>1. h[s] = Sum(g, s)
      OBVIOUS
    <3>2. CASE s = {}
      BY <3>1, <3>2
    <3>3. CASE s # {}
      <4>1. h[s \ {CHOOSE x \in s : TRUE}] = g[s \ {CHOOSE x \in s : TRUE}]
        BY <2>3, <3>3
      <4> HIDE DEF h
      <4> QED BY <3>1, <3>3, <4>1
    <3> QED BY <3>2, <3>3
  <2> HIDE DEF h, Small, Sum
  <2> QED BY <2>4
<1>5. Cardinality(S) \in Nat
  BY FS_CardinalityType
<1>6. Cardinality(S) \in Good
  <2> HIDE DEF Good
  <2>1. Nat \subseteq Good
    BY <1>3, <1>4, Induction
  <2> QED BY <1>5, <2>1
<1>7. PICK g : \A s \in Small(Cardinality(S)) : g[s] = Sum(g, s)
  BY <1>6
<1> DEFINE h == [s \in SUBSET S |-> g[s]]
<1>8. \A s \in SUBSET S : s \in Small(Cardinality(S))
  BY <1>1
<1>9. ASSUME NEW s \in SUBSET S PROVE h[s] = Sum(h, s)
  <2>1. h[s] = Sum(g, s)
    BY <1>7, <1>8
  <2>2. s # {} => h[s \ {CHOOSE x \in s : TRUE}] = g[s \ {CHOOSE x \in s : TRUE}]
    BY <1>2
  <2> HIDE DEF h
  <2> QED BY <2>1, <2>2
<1>10. h = [s \in SUBSET S |-> h[s]]
  OBVIOUS
<1> HIDE DEF h
<1>11. Sums(f, S, h)
  BY <1>9, <1>10 DEF Sums
<1> QED BY <1>11
(* The sum over a set is such a function's value at it.                     *)
LEMMA SumIs ==
  ASSUME NEW S, IsFiniteSet(S), NEW f
  PROVE  \E g : Sums(f, S, g) /\ SumFunctionOnSet(f, S) = g[S]
<1> DEFINE F == CHOOSE g : Sums(f, S, g)
<1>1. Sums(f, S, F)
  BY SumsExist
<1>2. SumFunctionOnSet(f, S) = F[S]
  BY DEF SumFunctionOnSet, FoldFunctionOnSet, MapThenFoldSet, Sums
<1> HIDE DEF F
<1> QED BY <1>1, <1>2

LEMMA SumsAreInt ==
  ASSUME NEW S, IsFiniteSet(S), NEW f, \A x \in S : f[x] \in Int, NEW g, Sums(f, S, g)
  PROVE  \A s \in SUBSET S : g[s] \in Int
<1> DEFINE G == {s \in SUBSET S : g[s] \in Int}
<1>1. ASSUME NEW s \in SUBSET S, \A x \in s : s \ {x} \in G PROVE s \in G
  <2>1. CASE s = {}
    BY <2>1, SumsAt
  <2>2. CASE s # {}
    <3>1. PICK x \in s : g[s] = f[x] + g[s \ {x}]
      BY <2>2, SumsAt
    <3>2. f[x] \in Int /\ g[s \ {x}] \in Int
      BY <1>1
    <3> QED BY <3>1, <3>2
  <2> QED BY <2>1, <2>2
<1> HIDE DEF G
<1>2. SUBSET S \subseteq G
  BY <1>1, SetInduction
<1> QED BY <1>2 DEF G

(* It depends on the set alone, not on the one it is a subset of, and any   *)
(* element may be added last.                                               *)
Splits(f, S, g) ==
  \A s \in SUBSET S : g[s] \in Int /\ \A x \in s : g[s] = f[x] + g[s \ {x}]

LEMMA SumsSplit ==
  ASSUME NEW S, IsFiniteSet(S), NEW f, \A x \in S : f[x] \in Int, NEW g, Sums(f, S, g)
  PROVE  Splits(f, S, g)
<1> DEFINE G == {s \in SUBSET S : g[s] \in Int /\ \A x \in s : g[s] = f[x] + g[s \ {x}]}
<1>1. ASSUME NEW s \in SUBSET S, \A x \in s : s \ {x} \in G PROVE s \in G
  <2>1. CASE s = {}
    BY <2>1, SumsAt
  <2>2. CASE s # {}
    <3>1. PICK c \in s : g[s] = f[c] + g[s \ {c}]
      BY <2>2, SumsAt
    <3>2. f[c] \in Int /\ g[s \ {c}] \in Int
      BY <1>1
    <3>3. ASSUME NEW x \in s, x # c PROVE g[s] = f[x] + g[s \ {x}]
      <4>1. x \in s \ {c} /\ c \in s \ {x} /\ s \ {c} \in G /\ s \ {x} \in G
        BY <1>1, <3>3
      <4>2. /\ g[s \ {c}] = f[x] + g[(s \ {c}) \ {x}]
            /\ g[s \ {x}] = f[c] + g[(s \ {x}) \ {c}]
        BY <4>1
      <4>3. (s \ {c}) \ {x} = (s \ {x}) \ {c}
        OBVIOUS
      <4>4. g[(s \ {c}) \ {x}] \in Int /\ f[x] \in Int
        <5>1. (s \ {c}) \ {x} \in SUBSET S
          OBVIOUS
        <5> QED BY <5>1, SumsAreInt
      <4>5. g[(s \ {c}) \ {x}] = g[(s \ {x}) \ {c}]
        BY <4>3
      <4> QED BY <3>1, <3>2, <4>2, <4>4, <4>5
    <3>4. g[s] \in Int
      BY <3>1, <3>2
    <3>5. \A x \in s : g[s] = f[x] + g[s \ {x}]
      BY <3>1, <3>3
    <3> QED BY <3>4, <3>5
  <2> QED BY <2>1, <2>2
<1> HIDE DEF G
<1>2. SUBSET S \subseteq G
  BY <1>1, SetInduction
<1> QED BY <1>2 DEF G, Splits

LEMMA SumsSame ==
  ASSUME NEW S, IsFiniteSet(S), NEW T \in SUBSET S, NEW f, NEW g, Sums(f, S, g),
         NEW h, Sums(f, T, h)
  PROVE  h[T] = g[T]
<1> DEFINE G == {s \in SUBSET T : h[s] = g[s]}
           at(s) == CHOOSE x \in s : TRUE
<1>1. ASSUME NEW s \in SUBSET T, \A x \in s : s \ {x} \in G PROVE s \in G
  <2>1. /\ h[s] = IF s = {} THEN 0 ELSE f[at(s)] + h[s \ {at(s)}]
        /\ g[s] = IF s = {} THEN 0 ELSE f[at(s)] + g[s \ {at(s)}]
    BY DEF Sums
  <2>2. s # {} => at(s) \in s
    OBVIOUS
  <2> HIDE DEF at
  <2> QED BY <1>1, <2>1, <2>2
<1> HIDE DEF G
<1>2. IsFiniteSet(T)
  BY FS_Subset
<1>3. SUBSET T \subseteq G
  BY <1>1, <1>2, SetInduction
<1>4. T \in G
  BY <1>3
<1> QED BY <1>4 DEF G

LEMMA SumEmpty == ASSUME NEW f PROVE SumFunctionOnSet(f, {}) = 0
<1>1. IsFiniteSet({})
  BY FS_EmptySet
<1>2. PICK g : Sums(f, {}, g) /\ SumFunctionOnSet(f, {}) = g[{}]
  BY <1>1, SumIs
<1> QED BY <1>2, SumsAt

LEMMA SumSplit ==
  ASSUME NEW S, IsFiniteSet(S), NEW f, \A x \in S : f[x] \in Int
  PROVE  /\ SumFunctionOnSet(f, S) \in Int
         /\ \A x \in S : /\ SumFunctionOnSet(f, S \ {x}) \in Int
                         /\ SumFunctionOnSet(f, S) = f[x] + SumFunctionOnSet(f, S \ {x})
<1>1. PICK g : Sums(f, S, g) /\ SumFunctionOnSet(f, S) = g[S]
  BY SumIs
<1>2. Splits(f, S, g)
  BY <1>1, SumsSplit
<1>3. ASSUME NEW x \in S PROVE SumFunctionOnSet(f, S \ {x}) = g[S \ {x}]
  <2>1. IsFiniteSet(S \ {x}) /\ S \ {x} \in SUBSET S
    BY FS_Subset
  <2>2. PICK h : Sums(f, S \ {x}, h) /\ SumFunctionOnSet(f, S \ {x}) = h[S \ {x}]
    BY <2>1, SumIs
  <2>3. h[S \ {x}] = g[S \ {x}]
    BY <1>1, <2>1, <2>2, SumsSame
  <2> QED BY <2>2, <2>3
<1>4. S \in SUBSET S /\ \A x \in S : S \ {x} \in SUBSET S
  OBVIOUS
<1> QED BY <1>1, <1>2, <1>3, <1>4 DEF Splits

(* A sum is at most m times another if each summand is.                     *)
LEMMA SumBound ==
  ASSUME NEW S, IsFiniteSet(S), NEW f, NEW h, NEW m \in Int,
         \A x \in S : f[x] \in Int /\ h[x] \in Int /\ f[x] <= m * h[x]
  PROVE  /\ SumFunctionOnSet(f, S) \in Int /\ SumFunctionOnSet(h, S) \in Int
         /\ SumFunctionOnSet(f, S) <= m * SumFunctionOnSet(h, S)
<1> DEFINE G == {s \in SUBSET S : SumFunctionOnSet(f, s) <= m * SumFunctionOnSet(h, s)}
<1>1. ASSUME NEW s \in SUBSET S, \A x \in s : s \ {x} \in G PROVE s \in G
  <2>1. CASE s = {}
    <3>1. SumFunctionOnSet(f, s) = 0 /\ SumFunctionOnSet(h, s) = 0
      BY <2>1, SumEmpty
    <3> QED BY <3>1
  <2>2. CASE s # {}
    <3>1. PICK x \in s : TRUE
      BY <2>2
    <3>2. IsFiniteSet(s) /\ \A y \in s : f[y] \in Int /\ h[y] \in Int
      BY FS_Subset
    <3>3. PICK a \in Int, b \in Int : a = SumFunctionOnSet(f, s \ {x})
                                     /\ b = SumFunctionOnSet(h, s \ {x})
      BY <3>2, SumSplit
    <3>4. SumFunctionOnSet(f, s) = f[x] + a /\ SumFunctionOnSet(h, s) = h[x] + b
      BY <3>2, <3>3, SumSplit
    <3>5. a <= m * b
      BY <1>1, <3>3
    <3>6. PICK p \in Int, q \in Int : p = f[x] /\ q = h[x] /\ p <= m * q
      BY <3>1
    <3>7. m * (q + b) = m * q + m * b /\ m * q \in Int /\ m * b \in Int
      OBVIOUS
    <3>8. p + a <= m * (q + b)
      BY <3>5, <3>6, <3>7
    <3> QED BY <3>4, <3>6, <3>8
  <2> QED BY <2>1, <2>2
<1> HIDE DEF G
<1>2. SUBSET S \subseteq G
  BY <1>1, SetInduction
<1>3. S \in G
  BY <1>2
<1>4. SumFunctionOnSet(f, S) \in Int /\ SumFunctionOnSet(h, S) \in Int
  BY SumSplit
<1> QED BY <1>3, <1>4 DEF G

(* The sum over two sets that share nothing.                                *)
LEMMA SumApart ==
  ASSUME NEW A, NEW B, IsFiniteSet(A), IsFiniteSet(B), A \cap B = {},
         NEW f, \A x \in A \cup B : f[x] \in Int
  PROVE  SumFunctionOnSet(f, A \cup B) = SumFunctionOnSet(f, A) + SumFunctionOnSet(f, B)
<1> DEFINE G == {s \in SUBSET B : SumFunctionOnSet(f, A \cup s)
                                   = SumFunctionOnSet(f, A) + SumFunctionOnSet(f, s)}
<1>1. SumFunctionOnSet(f, A) \in Int
  BY SumSplit
<1>2. ASSUME NEW s \in SUBSET B, \A x \in s : s \ {x} \in G PROVE s \in G
  <2>1. CASE s = {}
    <3>1. A \cup s = A /\ SumFunctionOnSet(f, s) = 0
      BY <2>1, SumEmpty
    <3>2. SumFunctionOnSet(f, A \cup s) = SumFunctionOnSet(f, A)
      BY <3>1
    <3> QED BY <1>1, <3>1, <3>2
  <2>2. CASE s # {}
    <3>1. PICK x \in s : TRUE
      BY <2>2
    <3>2. IsFiniteSet(s) /\ IsFiniteSet(A \cup s)
      <4>1. IsFiniteSet(s)
        BY FS_Subset
      <4> QED BY <4>1, FS_Union
    <3>3. /\ \A y \in A \cup s : f[y] \in Int
          /\ \A y \in s : f[y] \in Int
          /\ x \in A \cup s /\ (A \cup s) \ {x} = A \cup (s \ {x})
      BY <3>1
    <3>4. /\ SumFunctionOnSet(f, s) = f[x] + SumFunctionOnSet(f, s \ {x})
          /\ SumFunctionOnSet(f, s \ {x}) \in Int /\ f[x] \in Int
      BY <3>2, <3>3, SumSplit
    <3>5. SumFunctionOnSet(f, A \cup s) = f[x] + SumFunctionOnSet(f, (A \cup s) \ {x})
      BY <3>2, <3>3, SumSplit
    <3>6. SumFunctionOnSet(f, (A \cup s) \ {x}) = SumFunctionOnSet(f, A \cup (s \ {x}))
      BY <3>3
    <3>7. SumFunctionOnSet(f, A \cup (s \ {x}))
            = SumFunctionOnSet(f, A) + SumFunctionOnSet(f, s \ {x})
      BY <1>2, <3>1
    <3> QED BY <1>1, <3>4, <3>5, <3>6, <3>7
  <2> QED BY <2>1, <2>2
<1> HIDE DEF G
<1>3. SUBSET B \subseteq G
  BY <1>2, SetInduction
<1>4. B \in G
  BY <1>3
<1> QED BY <1>4 DEF G

(* The sum of natural numbers is one, and not less than any of them.        *)
LEMMA SumNat ==
  ASSUME NEW S, IsFiniteSet(S), NEW f, \A x \in S : f[x] \in Nat
  PROVE  /\ SumFunctionOnSet(f, S) \in Nat
         /\ \A x \in S : f[x] <= SumFunctionOnSet(f, S)
<1> DEFINE G == {s \in SUBSET S : SumFunctionOnSet(f, s) \in Nat}
<1>1. ASSUME NEW s \in SUBSET S, \A x \in s : s \ {x} \in G PROVE s \in G
  <2>1. CASE s = {}
    BY <2>1, SumEmpty
  <2>2. CASE s # {}
    <3>1. PICK x \in s : TRUE
      BY <2>2
    <3>2. IsFiniteSet(s) /\ \A y \in s : f[y] \in Int
      BY FS_Subset
    <3>3. SumFunctionOnSet(f, s) = f[x] + SumFunctionOnSet(f, s \ {x})
      BY <3>2, SumSplit
    <3>4. SumFunctionOnSet(f, s \ {x}) \in Nat /\ f[x] \in Nat
      BY <1>1
    <3> QED BY <3>3, <3>4
  <2> QED BY <2>1, <2>2
<1>2. SUBSET S \subseteq G
  <2> HIDE DEF G
  <2> QED BY <1>1, SetInduction
<1>3. ASSUME NEW x \in S PROVE f[x] <= SumFunctionOnSet(f, S)
  <2>1. S \ {x} \in G
    BY <1>2
  <2>2. SumFunctionOnSet(f, S) = f[x] + SumFunctionOnSet(f, S \ {x})
    BY SumSplit
  <2> QED BY <2>1, <2>2
<1>4. S \in G
  BY <1>2
<1> QED BY <1>3, <1>4

----------------------------------------------------------------------------
(* A verdict that nothing grave corroborates                                *)

Sources == {"virustotal", "static_analysis", "sandbox", "network", "certificate", "yara"}
SourcesOf(items) == {x.source : x \in items}

(* What the builders make of evidence in which less than a tenth of the     *)
(* engines detects anything and no critical rule matches.                   *)
Weak(x) ==
  /\ x.n \in Nat \ {0} /\ x.weight \in Int /\ x.confidence \in 30 .. 85
  /\ x.source \in Sources
  /\ x.weight > 0 => x.confidence <= 80
  /\ x.source # "virustotal" => x.n = 1
  /\ x.source = "virustotal" =>
       x.confidence <= 60 /\ (x.weight >= 0 => x.confidence <= 55)
  /\ x.source = "static_analysis" =>
       x.confidence <= 70 /\ (x.weight <= 0 => x.confidence <= 40)
  /\ x.source = "sandbox" => x.confidence <= 80
  /\ x.source = "network" =>
       x.confidence <= 60 /\ (x.weight <= 0 => x.confidence <= 30)
  /\ x.source = "certificate" /\ x.weight >= 0 => x.confidence <= 50
  /\ x.source = "yara" => x.confidence <= 80 /\ (x.weight <= 0 => x.confidence <= 65)

(* Such items as buildVerdictFromDb puts together: one of each source but   *)
(* VirusTotal, and the network's with the sandbox's.                        *)
Mild(items) ==
  /\ IsFiniteSet(items) /\ \A x \in items : Weak(x)
  /\ \A x, y \in items : x.source = y.source /\ x.source # "virustotal" => x = y
  /\ "network" \notin SourcesOf(items) =>
       "sandbox" \notin SourcesOf(items) /\ "certificate" \notin SourcesOf(items)

(* What the sources in Q are worth when each is worth what B says.          *)
Budget(B, Q) ==
  LET worth(s) == IF s \in Q THEN B[s] ELSE 0 IN
  worth("virustotal") + worth("static_analysis") + worth("sandbox") + worth("network")
    + worth("certificate") + worth("yara")

(* One more source.                                                         *)
LEMMA BudgetAdds ==
  ASSUME NEW B \in [Sources -> Int], NEW Q, NEW s \in Sources, s \notin Q
  PROVE  Budget(B, Q \cup {s}) = Budget(B, Q) + B[s]
<1>1. \A r \in Sources : B[r] \in Int
  OBVIOUS
<1> QED BY <1>1 DEF Budget, Sources

(* The confidence in the items exceeds 70 for each by no more than their    *)
(* sources are worth, if no more rows of VirusTotal are worth no more.      *)
LEMMA WithinBudget ==
  ASSUME NEW items, Mild(items), NEW B \in [Sources -> Int], B["virustotal"] <= 0,
         \A x \in items : x.confidence - 70 <= B[x.source]
  PROVE  Assurance(items) <= 70 * CountOf(items) + Budget(B, SourcesOf(items))
<1> DEFINE conf == [x \in items |-> x.n * x.confidence]
           cnt == [x \in items |-> x.n]
           G == {s \in SUBSET items :
                   SumFunctionOnSet(conf, s)
                     <= 70 * SumFunctionOnSet(cnt, s) + Budget(B, SourcesOf(s))}
<1>1. /\ IsFiniteSet(items)
      /\ \A x \in items : /\ x.n \in Nat \ {0} /\ x.confidence \in 30 .. 85 /\ x.source \in Sources
                          /\ x.source # "virustotal" => x.n = 1
  BY DEF Mild, Weak
<1>2. \A x \in items : /\ conf[x] = x.n * x.confidence /\ cnt[x] = x.n
                       /\ conf[x] \in Int /\ cnt[x] \in Int
  BY <1>1
<1>3. \A Q : Budget(B, Q) \in Int
  <2>1. \A r \in Sources : B[r] \in Int
    OBVIOUS
  <2> QED BY <2>1 DEF Budget, Sources
<1>4. Assurance(items) = SumFunctionOnSet(conf, items)
      /\ CountOf(items) = SumFunctionOnSet(cnt, items)
  BY DEF Assurance, CountOf, SumFunction
<1> HIDE DEF conf, cnt
<1>5. ASSUME NEW s \in SUBSET items, \A x \in s : s \ {x} \in G PROVE s \in G
  <2>1. CASE s = {}
    <3>1. SumFunctionOnSet(conf, s) = 0 /\ SumFunctionOnSet(cnt, s) = 0
      BY <2>1, SumEmpty
    <3>2. Budget(B, SourcesOf(s)) = 0
      BY <2>1 DEF Budget, SourcesOf
    <3> QED BY <3>1, <3>2
  <2>2. CASE s # {}
    <3>1. PICK x \in s : TRUE
      BY <2>2
    <3> DEFINE Q == SourcesOf(s \ {x})
    <3>2. IsFiniteSet(s) /\ \A y \in s : conf[y] \in Int /\ cnt[y] \in Int
      BY <1>1, <1>2, FS_Subset
    <3>3. PICK c \in Int, k \in Int : c = SumFunctionOnSet(conf, s \ {x})
                                      /\ k = SumFunctionOnSet(cnt, s \ {x})
      BY <3>2, SumSplit
    <3>4. /\ SumFunctionOnSet(conf, s) = x.n * x.confidence + c
          /\ SumFunctionOnSet(cnt, s) = x.n + k
      BY <1>2, <3>2, <3>3, SumSplit
    <3>5. c <= 70 * k + Budget(B, Q)
      BY <1>5, <3>3
    <3>6. PICK n \in Nat \ {0}, m \in Int : n = x.n /\ m = x.confidence - 70
      BY <1>1
    <3>7. n * x.confidence = n * m + 70 * n /\ n * m \in Int
      BY <1>1, <3>6
    <3>8. SourcesOf(s) = Q \cup {x.source}
      BY DEF SourcesOf
    <3>9. m <= B[x.source] /\ B[x.source] \in Int /\ x.source \in Sources
      BY <1>1, <3>6
    <3>10. Budget(B, Q) \in Int /\ Budget(B, SourcesOf(s)) \in Int
      BY <1>3
    <3>11. n * m + Budget(B, Q) <= Budget(B, SourcesOf(s))
      <4>1. CASE x.source # "virustotal"
        <5>1. x.source \notin Q
          BY <4>1 DEF Mild, SourcesOf
        <5>2. Budget(B, Q \cup {x.source}) = Budget(B, Q) + B[x.source]
          BY <3>9, <5>1, BudgetAdds
        <5>3. n = 1 /\ n * m = m
          BY <1>1, <3>6, <4>1
        <5> QED BY <3>8, <3>9, <3>10, <5>2, <5>3
      <4>2. CASE x.source = "virustotal"
        <5>1. n * m <= m
          <6>1. (n - 1) * (0 - m) \in Nat
            BY <3>9, <4>2
          <6>2. (n - 1) * (0 - m) = m - n * m
            OBVIOUS
          <6> QED BY <6>1, <6>2, <3>7
        <5>2. CASE x.source \in Q
          <6>1. Q \cup {x.source} = Q
            BY <5>2
          <6>2. Budget(B, SourcesOf(s)) = Budget(B, Q)
            BY <3>8, <6>1
          <6> QED BY <3>7, <3>9, <3>10, <4>2, <5>1, <6>2
        <5>3. CASE x.source \notin Q
          <6>1. Budget(B, Q \cup {x.source}) = Budget(B, Q) + B[x.source]
            BY <3>9, <5>3, BudgetAdds
          <6> QED BY <3>7, <3>8, <3>9, <3>10, <5>1, <6>1
        <5> QED BY <5>2, <5>3
      <4> QED BY <4>1, <4>2
    <3> HIDE DEF Q
    <3>12. x.n * x.confidence + c <= 70 * (x.n + k) + Budget(B, SourcesOf(s))
      BY <3>5, <3>6, <3>7, <3>10, <3>11
    <3> QED BY <3>4, <3>12
  <2> QED BY <2>1, <2>2
<1> HIDE DEF G
<1>6. SUBSET items \subseteq G
  BY <1>1, <1>5, SetInduction
<1>7. items \in G
  BY <1>6
<1> QED BY <1>4, <1>7 DEF G

(* The rows behind some of the items: none exactly if there are no items.   *)
LEMMA CountIn ==
  ASSUME NEW items, IsFiniteSet(items), \A x \in items : x.n \in Nat \ {0}
  PROVE  /\ CountOf(items) \in Nat
         /\ CountOf(items) = 0 => items = {}
         /\ items = {} => CountOf(items) = 0
         /\ \A s \in SUBSET items :
              CountOf(s) = SumFunctionOnSet([x \in items |-> x.n], s)
<1> DEFINE cnt == [x \in items |-> x.n]
<1>1. \A x \in items : cnt[x] \in Nat /\ cnt[x] > 0
  OBVIOUS
<1>2. ASSUME NEW s \in SUBSET items PROVE CountOf(s) = SumFunctionOnSet(cnt, s)
  <2> DEFINE here == [x \in s |-> x.n]
  <2>1. IsFiniteSet(s)
    BY FS_Subset
  <2>2. CountOf(s) = SumFunctionOnSet(here, s)
    BY DEF CountOf, SumFunction
  <2>3. \A x \in s : here[x] = cnt[x] /\ here[x] \in Int /\ cnt[x] \in Int
    BY <1>1
  <2> HIDE DEF here, cnt
  <2>4. /\ SumFunctionOnSet(here, s) \in Int /\ SumFunctionOnSet(cnt, s) \in Int
        /\ SumFunctionOnSet(here, s) <= 1 * SumFunctionOnSet(cnt, s)
    <3>1. 1 \in Int /\ \A x \in s : here[x] \in Int /\ cnt[x] \in Int /\ here[x] <= 1 * cnt[x]
      BY <2>3
    <3> QED BY <2>1, <3>1, SumBound
  <2>5. SumFunctionOnSet(cnt, s) <= 1 * SumFunctionOnSet(here, s)
    <3>1. 1 \in Int /\ \A x \in s : here[x] \in Int /\ cnt[x] \in Int /\ cnt[x] <= 1 * here[x]
      BY <2>3
    <3> QED BY <2>1, <3>1, SumBound
  <2> QED BY <2>2, <2>4, <2>5
<1> HIDE DEF cnt
<1>3. CountOf(items) = SumFunctionOnSet(cnt, items)
  BY <1>2
<1>4. /\ SumFunctionOnSet(cnt, items) \in Nat
      /\ \A x \in items : cnt[x] <= SumFunctionOnSet(cnt, items)
  BY <1>1, SumNat
<1>5. CountOf(items) = 0 => items = {}
  BY <1>1, <1>3, <1>4
<1>6. items = {} => CountOf(items) = 0
  BY <1>3, SumEmpty
<1> QED BY <1>2, <1>3, <1>4, <1>5, <1>6 DEF cnt

(* There are no more sources than rows.                                     *)
LEMMA SourcesCounted ==
  ASSUME NEW items, IsFiniteSet(items), \A x \in items : x.n \in Nat \ {0}
  PROVE  /\ IsFiniteSet(SourcesOf(items)) /\ Cardinality(SourcesOf(items)) \in Nat
         /\ Cardinality(SourcesOf(items)) <= CountOf(items)
<1> DEFINE cnt == [x \in items |-> x.n]
           G == {s \in SUBSET items :
                   /\ IsFiniteSet(SourcesOf(s))
                   /\ Cardinality(SourcesOf(s)) <= SumFunctionOnSet(cnt, s)}
<1>1. \A x \in items : cnt[x] \in Nat /\ cnt[x] > 0
  OBVIOUS
<1>2. \A s \in SUBSET items : CountOf(s) = SumFunctionOnSet(cnt, s)
  BY CountIn
<1> HIDE DEF cnt
<1>3. ASSUME NEW s \in SUBSET items, \A x \in s : s \ {x} \in G PROVE s \in G
  <2>1. CASE s = {}
    <3>1. SourcesOf(s) = {} /\ SumFunctionOnSet(cnt, s) = 0
      BY <2>1, SumEmpty DEF SourcesOf
    <3>2. IsFiniteSet({}) /\ Cardinality({}) = 0
      BY FS_EmptySet
    <3> QED BY <3>1, <3>2
  <2>2. CASE s # {}
    <3>1. PICK x \in s : TRUE
      BY <2>2
    <3> DEFINE Q == SourcesOf(s \ {x})
    <3>2. SourcesOf(s) = Q \cup {x.source}
      BY DEF SourcesOf
    <3>3. IsFiniteSet(s) /\ \A y \in s : cnt[y] \in Int
      BY <1>1, FS_Subset
    <3>4. /\ SumFunctionOnSet(cnt, s) = cnt[x] + SumFunctionOnSet(cnt, s \ {x})
          /\ SumFunctionOnSet(cnt, s \ {x}) \in Int
      BY <3>3, SumSplit
    <3>5. IsFiniteSet(Q) /\ Cardinality(Q) <= SumFunctionOnSet(cnt, s \ {x})
      BY <1>3
    <3> HIDE DEF Q
    <3>6. Cardinality(Q) \in Nat
      BY <3>5, FS_CardinalityType
    <3>7. /\ IsFiniteSet(Q \cup {x.source})
          /\ Cardinality(Q \cup {x.source}) = Cardinality(Q)
             \/ Cardinality(Q \cup {x.source}) = Cardinality(Q) + 1
      BY <3>5, FS_AddElement
    <3>8. Cardinality(SourcesOf(s)) = Cardinality(Q \cup {x.source})
          /\ IsFiniteSet(SourcesOf(s))
      BY <3>2, <3>7
    <3>9. cnt[x] \in Nat /\ cnt[x] > 0
      BY <1>1
    <3> QED BY <3>4, <3>5, <3>6, <3>7, <3>8, <3>9
  <2> QED BY <2>1, <2>2
<1> HIDE DEF G
<1>4. SUBSET items \subseteq G
  BY <1>3, SetInduction
<1>5. items \in G /\ CountOf(items) = SumFunctionOnSet(cnt, items)
  BY <1>2, <1>4
<1>6. IsFiniteSet(SourcesOf(items)) /\ Cardinality(SourcesOf(items)) <= CountOf(items)
  BY <1>5 DEF G
<1> QED BY <1>6, FS_CardinalityType

(* One more element, and a few of them.                                     *)
LEMMA OneMore ==
  ASSUME NEW S, IsFiniteSet(S), NEW n \in Nat, Cardinality(S) <= n, NEW x
  PROVE  IsFiniteSet(S \cup {x}) /\ Cardinality(S \cup {x}) <= n + 1
<1>1. Cardinality(S) \in Nat
  BY FS_CardinalityType
<1>2. /\ IsFiniteSet(S \cup {x})
      /\ Cardinality(S \cup {x}) = Cardinality(S)
         \/ Cardinality(S \cup {x}) = Cardinality(S) + 1
  BY FS_AddElement
<1> QED BY <1>1, <1>2

LEMMA FewElements ==
  ASSUME NEW a, NEW b, NEW c, NEW d, NEW Q \in SUBSET {a, b, c, d}
  PROVE  /\ IsFiniteSet(Q) /\ Cardinality(Q) \in Nat /\ Cardinality(Q) <= 4
<1>1. IsFiniteSet({}) /\ Cardinality({}) <= 0
  BY FS_EmptySet
<1>2. PICK A : A = {} \cup {a} /\ IsFiniteSet(A) /\ Cardinality(A) <= 1
  <2>1. IsFiniteSet({} \cup {a}) /\ Cardinality({} \cup {a}) <= 0 + 1
    BY <1>1, OneMore
  <2> QED BY <2>1
<1>3. PICK B : B = A \cup {b} /\ IsFiniteSet(B) /\ Cardinality(B) <= 2
  <2>1. IsFiniteSet(A \cup {b}) /\ Cardinality(A \cup {b}) <= 1 + 1
    BY <1>2, OneMore
  <2> QED BY <2>1
<1>4. PICK C : C = B \cup {c} /\ IsFiniteSet(C) /\ Cardinality(C) <= 3
  <2>1. IsFiniteSet(B \cup {c}) /\ Cardinality(B \cup {c}) <= 2 + 1
    BY <1>3, OneMore
  <2> QED BY <2>1
<1>5. PICK D : D = C \cup {d} /\ IsFiniteSet(D) /\ Cardinality(D) <= 4
  <2>1. IsFiniteSet(C \cup {d}) /\ Cardinality(C \cup {d}) <= 3 + 1
    BY <1>4, OneMore
  <2> QED BY <2>1
<1>6. Q \in SUBSET D
  BY <1>2, <1>3, <1>4, <1>5
<1>7. IsFiniteSet(Q) /\ Cardinality(Q) <= Cardinality(D)
  BY <1>5, <1>6, FS_Subset
<1>8. Cardinality(Q) \in Nat /\ Cardinality(D) \in Nat
  BY <1>5, <1>7, FS_CardinalityType
<1> QED BY <1>5, <1>7, <1>8

(* Five sources include the network, and VirusTotal or a signature.         *)
LEMMA FiveSources ==
  ASSUME NEW items, Mild(items), Cardinality(SourcesOf(items)) > 4
  PROVE  /\ "network" \in SourcesOf(items)
         /\ "virustotal" \in SourcesOf(items) \/ "certificate" \in SourcesOf(items)
<1> DEFINE Q == SourcesOf(items)
<1>1. Q \subseteq Sources
  BY DEF Mild, Weak, SourcesOf
<1>2. Cardinality(Q) > 4
  OBVIOUS
<1>3. "network" \notin Q => "sandbox" \notin Q /\ "certificate" \notin Q
  BY DEF Mild
<1> HIDE DEF Q
<1>4. ASSUME "network" \notin Q PROVE FALSE
  <2>1. Q \in SUBSET {"virustotal", "static_analysis", "yara", "yara"}
    BY <1>1, <1>3, <1>4 DEF Sources
  <2>2. Cardinality(Q) \in Nat /\ Cardinality(Q) <= 4
    BY <2>1, FewElements
  <2> QED BY <1>2, <2>2
<1>5. ASSUME "virustotal" \notin Q, "certificate" \notin Q PROVE FALSE
  <2>1. Q \in SUBSET {"static_analysis", "sandbox", "network", "yara"}
    BY <1>1, <1>5 DEF Sources
  <2>2. Cardinality(Q) \in Nat /\ Cardinality(Q) <= 4
    BY <2>1, FewElements
  <2> QED BY <1>2, <2>2
<1> QED BY <1>4, <1>5 DEF Q

(* The items that agree are the greater of two parts of those that take a   *)
(* side, so that they are all of them only if one of the parts is empty.    *)
LEMMA AgreeingItems ==
  ASSUME NEW items, IsFiniteSet(items), \A x \in items : x.n \in Nat \ {0} /\ x.weight \in Int
  PROVE  /\ Sided(items) \in Nat /\ Sided(items) <= CountOf(items)
         /\ Agreeing(items) \in Nat /\ Agreeing(items) <= Sided(items)
         /\ Agreeing(items) = Sided(items) =>
              \/ \A x \in items : x.weight <= 0
              \/ \A x \in items : x.weight >= 0
<1> DEFINE cnt == [x \in items |-> x.n]
           for == {x \in items : x.weight > 0}
           against == {x \in items : x.weight < 0}
           sided == {x \in items : x.weight # 0}
           rest == {x \in items : x.weight = 0}
<1>1. /\ for \cup against = sided /\ for \cap against = {}
      /\ sided \cup rest = items /\ sided \cap rest = {}
  OBVIOUS
<1>2. \A s \in SUBSET items :
        /\ CountOf(s) = SumFunctionOnSet(cnt, s)
        /\ CountOf(s) \in Nat /\ (CountOf(s) = 0 => s = {})
        /\ IsFiniteSet(s) /\ \A x \in s : cnt[x] \in Int
  <2> SUFFICES ASSUME NEW s \in SUBSET items
               PROVE  /\ CountOf(s) = SumFunctionOnSet(cnt, s)
                      /\ CountOf(s) \in Nat /\ (CountOf(s) = 0 => s = {})
                      /\ IsFiniteSet(s) /\ \A x \in s : cnt[x] \in Int
    OBVIOUS
  <2>1. IsFiniteSet(s) /\ \A x \in s : x.n \in Nat \ {0}
    BY FS_Subset
  <2>2. CountOf(s) \in Nat /\ (CountOf(s) = 0 => s = {})
    BY <2>1, CountIn
  <2>3. CountOf(s) = SumFunctionOnSet(cnt, s)
    BY CountIn
  <2> QED BY <2>1, <2>2, <2>3
<1>3. for \in SUBSET items /\ against \in SUBSET items /\ sided \in SUBSET items
      /\ rest \in SUBSET items
  OBVIOUS
<1>4. /\ Sided(items) = CountOf(sided)
      /\ Agreeing(items) = AtLeast(CountOf(for), CountOf(against))
  BY DEF Sided, Agreeing
<1>5. /\ for = {} => \A x \in items : x.weight <= 0
      /\ against = {} => \A x \in items : x.weight >= 0
  OBVIOUS
<1> HIDE DEF cnt, for, against, sided, rest
<1>6. CountOf(sided) = CountOf(for) + CountOf(against)
  <2>1. \A x \in for \cup against : cnt[x] \in Int
    BY <1>2, <1>3
  <2>2. IsFiniteSet(for) /\ IsFiniteSet(against)
    BY <1>2, <1>3
  <2>3. SumFunctionOnSet(cnt, for \cup against)
          = SumFunctionOnSet(cnt, for) + SumFunctionOnSet(cnt, against)
    BY <1>1, <2>1, <2>2, SumApart
  <2>4. SumFunctionOnSet(cnt, for \cup against) = SumFunctionOnSet(cnt, sided)
    BY <1>1
  <2> QED BY <1>2, <1>3, <2>3, <2>4
<1>7. CountOf(items) = CountOf(sided) + CountOf(rest)
  <2>1. \A x \in sided \cup rest : cnt[x] \in Int
    BY <1>2, <1>3
  <2>2. IsFiniteSet(sided) /\ IsFiniteSet(rest)
    BY <1>2, <1>3
  <2>3. SumFunctionOnSet(cnt, sided \cup rest)
          = SumFunctionOnSet(cnt, sided) + SumFunctionOnSet(cnt, rest)
    BY <1>1, <2>1, <2>2, SumApart
  <2>4. SumFunctionOnSet(cnt, sided \cup rest) = SumFunctionOnSet(cnt, items)
    BY <1>1
  <2>5. items \in SUBSET items
    OBVIOUS
  <2> QED BY <1>2, <1>3, <2>3, <2>4, <2>5
<1>8. /\ CountOf(for) \in Nat /\ CountOf(against) \in Nat /\ CountOf(sided) \in Nat
      /\ CountOf(rest) \in Nat
      /\ (CountOf(for) = 0 => for = {}) /\ (CountOf(against) = 0 => against = {})
  BY <1>2, <1>3
<1> QED BY <1>4, <1>5, <1>6, <1>7, <1>8 DEF AtLeast

(* A fraction below m - 1/2 is rounded to less than m percent.              *)
LEMMA PercentBelow ==
  ASSUME NEW num \in Int, NEW den \in Nat, NEW m \in 1 .. 100,
         den > 0 => 2 * num < (2 * m - 1) * den
  PROVE  Percent(num, den) \in Int /\ Percent(num, den) < m
<1>1. CASE den = 0
  BY <1>1 DEF Percent
<1>2. CASE den > 0
  <2> DEFINE a == 2 * num + den
             b == 2 * den
             q == a \div b
  <2>1. a \in Int /\ b \in Int /\ b > 0
    BY <1>2
  <2>2. a < m * b
    <3>1. (2 * m - 1) * den = m * b - den /\ (2 * m - 1) * den \in Int /\ m * b \in Int
      OBVIOUS
    <3> QED BY <1>2, <3>1
  <2>3. Percent(num, den) = AtMost(100, AtLeast(0, q))
    BY <1>2 DEF Percent
  <2> HIDE DEF a, b
  <2>4. q \in Int /\ b * q <= a
    BY <2>1
  <2> HIDE DEF q
  <2>5. q < m
    <3>1. SUFFICES ASSUME q >= m PROVE FALSE
      BY <2>4
    <3>2. b * (q - m) \in Nat /\ b * (q - m) = b * q - m * b /\ b * q \in Int /\ m * b \in Int
      BY <2>1, <2>4, <3>1
    <3> QED BY <2>1, <2>2, <2>4, <3>2
  <2> QED BY <2>3, <2>4, <2>5 DEF AtMost, AtLeast
<1> QED BY <1>1, <1>2

(* Evidence that speaks against a file is never surer than 80, so that the  *)
(* score stays below 90.                                                    *)
LEMMA RawBelow90 ==
  ASSUME NEW items, Mild(items)
  PROVE  RawScore(items) \in Int /\ RawScore(items) < 90
<1> DEFINE pull == [x \in items |-> x.n * x.weight * BaseWeight(x.source) * x.confidence]
           scale == [x \in items |-> x.n * Size(x.weight) * BaseWeight(x.source)]
<1>1. ASSUME NEW x \in items
      PROVE  pull[x] \in Int /\ scale[x] \in Nat /\ pull[x] <= 80 * scale[x]
  <2>1. /\ x.n \in Nat /\ x.weight \in Int /\ x.confidence \in 30 .. 85
        /\ x.weight > 0 => x.confidence <= 80
    BY DEF Mild, Weak
  <2>2. PICK b \in Nat : b = BaseWeight(x.source)
    BY DEF BaseWeight
  <2>3. PICK n \in Nat, w \in Int, c \in 30 .. 85 :
          n = x.n /\ w = x.weight /\ c = x.confidence /\ (w > 0 => c <= 80)
    BY <2>1
  <2>4. PICK z \in Nat : z = Size(w) /\ w <= z /\ (w <= 0 => w * c <= 0) /\ (w > 0 => z = w)
    BY DEF Size
  <2>5. n * z * b \in Nat /\ n * w * b * c \in Int
    OBVIOUS
  <2>6. PICK nb \in Nat : nb = n * b
    OBVIOUS
  <2>7. n * z * b = nb * z /\ n * w * b * c = nb * (w * c) /\ w * c \in Int
    BY <2>6
  <2>8. w * c <= 80 * z
    BY <2>3, <2>4
  <2>9. nb * (80 * z - w * c) \in Nat
    BY <2>7, <2>8
  <2>10. nb * (80 * z - w * c) = 80 * (nb * z) - nb * (w * c)
    BY <2>7
  <2>11. nb * (w * c) <= 80 * (nb * z)
    BY <2>7, <2>9, <2>10
  <2>12. pull[x] = n * w * b * c /\ scale[x] = n * z * b
    BY <2>2, <2>3, <2>4
  <2> QED BY <2>5, <2>7, <2>11, <2>12
<1>2. RawScore(items) = Percent(SumFunctionOnSet(pull, items), SumFunctionOnSet(scale, items))
  BY DEF RawScore, SumFunction
<1> HIDE DEF pull, scale
<1>3. IsFiniteSet(items)
  BY DEF Mild
<1>4. SumFunctionOnSet(scale, items) \in Nat
  BY <1>1, <1>3, SumNat
<1>5. /\ SumFunctionOnSet(pull, items) \in Int
      /\ SumFunctionOnSet(pull, items) <= 80 * SumFunctionOnSet(scale, items)
  <2>1. 80 \in Int /\ \A x \in items : pull[x] \in Int /\ scale[x] \in Int /\ pull[x] <= 80 * scale[x]
    BY <1>1
  <2> QED BY <2>1, <1>3, SumBound
<1>6. PICK num \in Int, den \in Nat :
        num = SumFunctionOnSet(pull, items) /\ den = SumFunctionOnSet(scale, items)
  BY <1>4, <1>5
<1>7. Percent(num, den) \in Int /\ Percent(num, den) < 90
  <2>1. 90 \in 1 .. 100 /\ (den > 0 => 2 * num < (2 * 90 - 1) * den)
    BY <1>5, <1>6
  <2> QED BY <2>1, PercentBelow
<1> QED BY <1>2, <1>6, <1>7

(* The points of the confidence, where s counts the sources, k the rows, t  *)
(* those that take a side, a those that agree and c is their confidence:    *)
(* not all of the 1590 per pair that make 79.5 percent.                     *)
LEMMA PointsBelow ==
  ASSUME NEW s \in 0 .. 5, NEW t \in Nat, NEW k \in Nat, NEW a \in Nat, NEW c \in Int,
         1 <= t, t <= k, s <= k, a <= t, c <= 70 * k + 35,
         a = t => (s <= 3 /\ c <= 85 * k) \/ s = 4 \/ c < 70 * k
  PROVE  /\ 100 * s * t * k + 600 * a * k + 7 * c * t \in Int
         /\ 100 * s * t * k + 600 * a * k + 7 * c * t < 1590 * t * k
<1>1. PICK p \in Nat, u \in Nat, v \in Int, w \in Nat :
        p = t * k /\ u = a * k /\ v = c * t /\ w = s * p
  OBVIOUS
<1>2. 100 * s * t * k + 600 * a * k + 7 * c * t = 100 * w + 600 * u + 7 * v
  <2>1. 100 * s * t * k = 100 * w
    <3>1. s * (t * k) = w
      BY <1>1
    <3> QED BY <3>1
  <2>2. 600 * a * k = 600 * u /\ 7 * c * t = 7 * v
    BY <1>1
  <2> QED BY <2>1, <2>2
<1>3. 1590 * t * k = 1590 * p
  BY <1>1
<1>4. p >= t /\ p >= 1 /\ p >= k
  <2>1. t * (k - 1) \in Nat /\ t * (k - 1) = t * k - t
    OBVIOUS
  <2>2. (t - 1) * k \in Nat /\ (t - 1) * k = t * k - k
    OBVIOUS
  <2> QED BY <1>1, <2>1, <2>2
<1>5. w <= 5 * p
  <2>1. (5 - s) * p \in Nat /\ (5 - s) * p = 5 * p - s * p
    OBVIOUS
  <2> QED BY <1>1, <2>1
<1>6. v <= 70 * p + 35 * t
  <2>1. (70 * k + 35 - c) * t \in Nat
        /\ (70 * k + 35 - c) * t = 70 * (t * k) + 35 * t - c * t
    OBVIOUS
  <2> QED BY <1>1, <2>1
<1>7. CASE a < t
  <2>1. (t - 1 - a) * k \in Nat /\ (t - 1 - a) * k = t * k - k - a * k
    BY <1>7
  <2>2. u <= p - k
    BY <1>1, <2>1
  <2> QED BY <1>2, <1>3, <1>4, <1>5, <1>6, <2>2
<1>8. CASE a = t
  <2>1. u = p
    BY <1>1, <1>8
  <2>2. CASE s <= 3 /\ c <= 85 * k
    <3>1. (3 - s) * p \in Nat /\ (3 - s) * p = 3 * p - s * p
      BY <2>2
    <3>2. (85 * k - c) * t \in Nat /\ (85 * k - c) * t = 85 * (t * k) - c * t
      BY <2>2
    <3> QED BY <1>1, <1>2, <1>3, <1>4, <2>1, <3>1, <3>2
  <2>3. CASE s = 4
    <3>1. t * (k - 4) \in Nat /\ t * (k - 4) = t * k - 4 * t
      BY <2>3
    <3>2. w = 4 * p /\ p >= 4 * t
      BY <1>1, <2>3, <3>1
    <3> QED BY <1>2, <1>3, <1>6, <2>1, <3>2
  <2>4. CASE c < 70 * k
    <3>1. (70 * k - 1 - c) * t \in Nat /\ (70 * k - 1 - c) * t = 70 * (t * k) - t - c * t
      BY <2>4
    <3> QED BY <1>1, <1>2, <1>3, <1>5, <2>1, <3>1
  <2> QED BY <1>8, <2>2, <2>3, <2>4
<1> QED BY <1>7, <1>8

(* What each source may be worth: at most; if no item speaks for the file;  *)
(* if none speaks against it.                                               *)
AnySide == [s \in Sources |->
  CASE s = "virustotal" -> -10 [] s = "sandbox" -> 10 [] s = "network" -> -10
    [] s = "certificate" -> 15 [] s = "yara" -> 10 [] OTHER -> 0]
Against == [s \in Sources |->
  CASE s = "virustotal" -> -15 [] s = "sandbox" -> 10 [] s = "network" -> -10
    [] s = "certificate" -> -20 [] s = "yara" -> 10 [] OTHER -> 0]
InFavour == [s \in Sources |->
  CASE s = "virustotal" -> -10 [] s = "sandbox" -> 10 [] s = "network" -> -40
    [] s = "certificate" -> 15 [] s = "yara" -> -5 [] OTHER -> -30]

LEMMA Worths ==
  /\ AnySide \in [Sources -> Int] /\ Against \in [Sources -> Int] /\ InFavour \in [Sources -> Int]
  /\ AnySide["virustotal"] <= 0 /\ Against["virustotal"] <= 0 /\ InFavour["virustotal"] <= 0
  /\ \A Q : Budget(AnySide, Q) \in Int /\ Budget(AnySide, Q) <= 35
  /\ \A Q : "network" \in Q /\ ("virustotal" \in Q \/ "certificate" \in Q) =>
       /\ Budget(Against, Q) \in Int /\ Budget(Against, Q) < 0
       /\ Budget(InFavour, Q) \in Int /\ Budget(InFavour, Q) < 0
<1>1. /\ AnySide \in [Sources -> Int] /\ Against \in [Sources -> Int] /\ InFavour \in [Sources -> Int]
  BY DEF AnySide, Against, InFavour
<1>2. /\ AnySide["virustotal"] = -10 /\ AnySide["sandbox"] = 10 /\ AnySide["network"] = -10
      /\ AnySide["certificate"] = 15 /\ AnySide["yara"] = 10 /\ AnySide["static_analysis"] = 0
  BY DEF AnySide, Sources
<1>3. /\ Against["virustotal"] = -15 /\ Against["sandbox"] = 10 /\ Against["network"] = -10
      /\ Against["certificate"] = -20 /\ Against["yara"] = 10 /\ Against["static_analysis"] = 0
  BY DEF Against, Sources
<1>4. /\ InFavour["virustotal"] = -10 /\ InFavour["sandbox"] = 10 /\ InFavour["network"] = -40
      /\ InFavour["certificate"] = 15 /\ InFavour["yara"] = -5
      /\ InFavour["static_analysis"] = -30
  BY DEF InFavour, Sources
<1>5. ASSUME NEW Q PROVE Budget(AnySide, Q) \in Int /\ Budget(AnySide, Q) <= 35
  BY <1>2 DEF Budget
<1>6. ASSUME NEW Q, "network" \in Q, "virustotal" \in Q \/ "certificate" \in Q
      PROVE  /\ Budget(Against, Q) \in Int /\ Budget(Against, Q) < 0
             /\ Budget(InFavour, Q) \in Int /\ Budget(InFavour, Q) < 0
  BY <1>3, <1>4, <1>6 DEF Budget
<1> QED BY <1>1, <1>2, <1>3, <1>4, <1>5, <1>6

(* The average confidence, in percents.                                     *)
LEMMA AssuranceBounds ==
  ASSUME NEW items, Mild(items)
  PROVE  /\ Assurance(items) \in Int
         /\ CountOf(items) \in Nat
         /\ Assurance(items) <= 85 * CountOf(items)
         /\ Assurance(items) <= 70 * CountOf(items) + 35
         /\ /\ Cardinality(SourcesOf(items)) > 4
            /\ (\A x \in items : x.weight <= 0) \/ (\A x \in items : x.weight >= 0)
            => Assurance(items) < 70 * CountOf(items)
<1> DEFINE conf == [x \in items |-> x.n * x.confidence]
           cnt == [x \in items |-> x.n]
           Q == SourcesOf(items)
<1>1. IsFiniteSet(items) /\ \A x \in items : Weak(x)
  BY DEF Mild
<1>2. /\ Assurance(items) \in Int /\ CountOf(items) \in Nat
      /\ Assurance(items) <= 85 * CountOf(items)
  <2>1. ASSUME NEW x \in items
        PROVE  conf[x] \in Int /\ cnt[x] \in Int /\ conf[x] <= 85 * cnt[x]
    <3>1. PICK n \in Nat, c \in 30 .. 85 : n = x.n /\ c = x.confidence
      BY <1>1 DEF Weak
    <3>2. n * (85 - c) \in Nat /\ n * (85 - c) = 85 * n - n * c /\ n * c \in Int
      OBVIOUS
    <3> QED BY <3>1, <3>2
  <2>2. 85 \in Int
    OBVIOUS
  <2>3. Assurance(items) = SumFunctionOnSet(conf, items) /\ CountOf(items) = SumFunctionOnSet(cnt, items)
    BY DEF Assurance, CountOf, SumFunction
  <2>4. \A x \in items : x.n \in Nat \ {0}
    BY <1>1 DEF Weak
  <2>5. CountOf(items) \in Nat
    BY <1>1, <2>4, CountIn
  <2> HIDE DEF conf, cnt
  <2>6. /\ SumFunctionOnSet(conf, items) \in Int
        /\ SumFunctionOnSet(conf, items) <= 85 * SumFunctionOnSet(cnt, items)
    BY <1>1, <2>1, <2>2, SumBound
  <2> QED BY <2>3, <2>5, <2>6
<1>3. Assurance(items) <= 70 * CountOf(items) + Budget(AnySide, Q)
  <2>1. \A x \in items : x.confidence - 70 <= AnySide[x.source]
    BY <1>1 DEF Weak, AnySide, Sources
  <2> QED BY <2>1, Worths, WithinBudget
<1>4. Budget(AnySide, Q) \in Int /\ Budget(AnySide, Q) <= 35
  BY Worths
<1>5. ASSUME Cardinality(Q) > 4, \A x \in items : x.weight <= 0
      PROVE  Assurance(items) < 70 * CountOf(items)
  <2>1. \A x \in items : x.confidence - 70 <= InFavour[x.source]
    BY <1>1, <1>5 DEF Weak, InFavour, Sources
  <2>2. Assurance(items) <= 70 * CountOf(items) + Budget(InFavour, Q)
    BY <2>1, Worths, WithinBudget
  <2>3. "network" \in Q /\ ("virustotal" \in Q \/ "certificate" \in Q)
    BY <1>5, FiveSources
  <2>4. Budget(InFavour, Q) \in Int /\ Budget(InFavour, Q) < 0
    BY <2>3, Worths
  <2> QED BY <1>2, <2>2, <2>4
<1>6. ASSUME Cardinality(Q) > 4, \A x \in items : x.weight >= 0
      PROVE  Assurance(items) < 70 * CountOf(items)
  <2>1. \A x \in items : x.confidence - 70 <= Against[x.source]
    BY <1>1, <1>6 DEF Weak, Against, Sources
  <2>2. Assurance(items) <= 70 * CountOf(items) + Budget(Against, Q)
    BY <2>1, Worths, WithinBudget
  <2>3. "network" \in Q /\ ("virustotal" \in Q \/ "certificate" \in Q)
    BY <1>6, FiveSources
  <2>4. Budget(Against, Q) \in Int /\ Budget(Against, Q) < 0
    BY <2>3, Worths
  <2> QED BY <1>2, <2>2, <2>4
<1>7. /\ Cardinality(Q) > 4
      /\ (\A x \in items : x.weight <= 0) \/ (\A x \in items : x.weight >= 0)
      => Assurance(items) < 70 * CountOf(items)
  BY <1>5, <1>6
<1> HIDE DEF Q
<1>8. Assurance(items) <= 70 * CountOf(items) + 35
  BY <1>2, <1>3, <1>4
<1> QED BY <1>2, <1>7, <1>8 DEF Q

(* The confidence in a verdict that nothing grave corroborates.             *)
LEMMA ConfidenceBelow80 ==
  ASSUME NEW items, Mild(items), items # {}, NEW class, class # "inconclusive"
  PROVE  Confidence(items, class) \in Int /\ Confidence(items, class) < 80
<1> DEFINE sources == AtMost(5, Cardinality({x.source : x \in items}))
           points == 100 * sources * AtLeast(1, Sided(items)) * CountOf(items)
                     + 600 * Agreeing(items) * CountOf(items)
                     + 7 * Assurance(items) * AtLeast(1, Sided(items))
<1>1. /\ IsFiniteSet(items)
      /\ \A x \in items : x.n \in Nat \ {0} /\ x.weight \in Int /\ x.confidence \in 30 .. 85
  BY DEF Mild, Weak
<1>2. ~Definitive(items)
  BY <1>1 DEF Definitive
<1>3. Confidence(items, class)
        = Percent(points, 20 * AtLeast(1, Sided(items)) * CountOf(items))
  BY <1>2 DEF Confidence
<1>4. /\ IsFiniteSet(SourcesOf(items)) /\ Cardinality(SourcesOf(items)) \in Nat
      /\ Cardinality(SourcesOf(items)) <= CountOf(items)
  BY <1>1, SourcesCounted
<1>5. sources = AtMost(5, Cardinality(SourcesOf(items)))
  BY DEF SourcesOf
<1>6. CountOf(items) \in Nat /\ CountOf(items) # 0
  BY <1>1, CountIn
<1>7. /\ Sided(items) \in Nat /\ Sided(items) <= CountOf(items)
      /\ Agreeing(items) \in Nat /\ Agreeing(items) <= Sided(items)
      /\ Agreeing(items) = Sided(items) =>
           \/ \A x \in items : x.weight <= 0
           \/ \A x \in items : x.weight >= 0
  BY <1>1, AgreeingItems
<1>8. /\ Assurance(items) \in Int
      /\ Assurance(items) <= 85 * CountOf(items)
      /\ Assurance(items) <= 70 * CountOf(items) + 35
      /\ /\ Cardinality(SourcesOf(items)) > 4
         /\ (\A x \in items : x.weight <= 0) \/ (\A x \in items : x.weight >= 0)
         => Assurance(items) < 70 * CountOf(items)
  BY AssuranceBounds
<1> HIDE DEF sources
<1>9. PICK s \in 0 .. 5 : /\ s = sources /\ s <= CountOf(items)
                          /\ s = 5 => Cardinality(SourcesOf(items)) > 4
  BY <1>4, <1>5, <1>6 DEF AtMost
<1>10. PICK k \in Nat, t \in Nat, a \in Nat, c \in Int :
         /\ k = CountOf(items) /\ t = AtLeast(1, Sided(items)) /\ a = Agreeing(items)
         /\ c = Assurance(items) /\ 1 <= t /\ t <= k /\ a <= t
         /\ a = t => Agreeing(items) = Sided(items)
  BY <1>6, <1>7, <1>8 DEF AtLeast
<1>11. a = t => (s <= 3 /\ c <= 85 * k) \/ s = 4 \/ c < 70 * k
  BY <1>7, <1>8, <1>9, <1>10
<1>12. /\ 100 * s * t * k + 600 * a * k + 7 * c * t \in Int
       /\ 100 * s * t * k + 600 * a * k + 7 * c * t < 1590 * t * k
  <2>1. 1 <= t /\ t <= k /\ s <= k /\ a <= t /\ c <= 70 * k + 35
    BY <1>8, <1>9, <1>10
  <2> QED BY <1>11, <2>1, PointsBelow
<1>13. PICK n \in Int, den \in Nat :
         /\ n = 100 * s * t * k + 600 * a * k + 7 * c * t
         /\ den = 20 * t * k
  BY <1>12
<1>14. 2 * n < (2 * 80 - 1) * den
  <2>1. 1590 * t * k = 1590 * (t * k) /\ den = 20 * (t * k) /\ t * k \in Nat
    BY <1>13
  <2> QED BY <1>12, <1>13, <2>1
<1>15. Percent(n, den) \in Int /\ Percent(n, den) < 80
  BY <1>14, PercentBelow
<1>16. points = n /\ 20 * AtLeast(1, Sided(items)) * CountOf(items) = den
  BY <1>9, <1>10, <1>13
<1> HIDE DEF points
<1> QED BY <1>3, <1>15, <1>16

(* Without corroboration no verdict is "Block".                             *)
LEMMA MildIsNotBlocked ==
  ASSUME NEW items, Mild(items), NEW s
  PROVE  CrossChecked(ComputeVerdict(items), s).action # "Block"
<1>1. CASE items = {}
  BY <1>1 DEF ComputeVerdict, CrossChecked
<1>2. CASE items # {}
  <2> DEFINE class == Classify(items)
             confidence == Confidence(items, class)
             v == [class |-> class, confidence |-> confidence,
                   action |-> ActionOn(class, confidence, RawScore(items))]
  <2>1. ComputeVerdict(items) = v
    BY <1>2 DEF ComputeVerdict
  <2>2. RawScore(items) \in Int /\ RawScore(items) < 90
    BY RawBelow90
  <2>3. class # "inconclusive" => confidence \in Int /\ confidence < 80
    BY <1>2, ConfidenceBelow80
  <2>4. class \in Classifications
    BY DEF Classify, Classifications
  <2> HIDE DEF class, confidence
  <2>5. v.action # "Block"
    BY <2>2, <2>3, <2>4 DEF ActionOn, Classifications
  <2>6. CrossChecked(v, s).action \in {"Allow", "Monitor", v.action}
    <3> HIDE DEF v
    <3> QED BY DEF CrossChecked
  <2> QED BY <2>1, <2>5, <2>6
<1> QED BY <1>1, <1>2

(* Each builder makes a weak item of such evidence.                         *)
LEMMA VtItemIsWeak ==
  ASSUME NEW v \in VtRows, v.tot > 0, 100 * v.det < 10 * v.tot, NEW i, NEW n \in Nat \ {0}
  PROVE  Weak(VtItem(v, i, n)) /\ VtItem(v, i, n).source = "virustotal"
<1>1. PICK det \in Nat, tot \in Nat : det = v.det /\ tot = v.tot /\ 100 * det < 10 * tot /\ tot > 0
  BY DEF VtRows
<1>2. ~Above(v, 50) /\ ~Above(v, 25) /\ ~Above(v, 10)
  BY <1>1 DEF Above
<1>3. PICK w \in Int, c \in 30 .. 60 :
        /\ w >= 0 => c <= 55
        /\ VtItem(v, i, n) = [Item("virustotal", w, c) EXCEPT !.answer = i, !.n = n,
                                !.named = v.family # "none" /\ 100 * v.det >= 5 * v.tot]
  <2> DEFINE Made(w, c) == [Item("virustotal", w, c) EXCEPT !.answer = i, !.n = n,
                              !.named = v.family # "none" /\ 100 * v.det >= 5 * v.tot]
  <2>1. VtItem(v, i, n) = IF Above(v, 5) THEN Made(30, 55)
                          ELSE IF v.det > 0 THEN Made(10, 35) ELSE Made(-20, 60)
    BY <1>2, Zenon DEF VtItem
  <2> HIDE DEF Made
  <2>2. /\ 30 \in Int /\ 10 \in Int /\ -20 \in Int /\ -20 < 0
        /\ 55 \in 30 .. 60 /\ 35 \in 30 .. 60 /\ 60 \in 30 .. 60
    OBVIOUS
  <2>3. \E w \in Int, c \in 30 .. 60 : (w >= 0 => c <= 55) /\ VtItem(v, i, n) = Made(w, c)
    BY <2>1, <2>2
  <2> QED BY <2>3 DEF Made
<1> DEFINE x == VtItem(v, i, n)
<1>4. x.source = "virustotal" /\ x.weight = w /\ x.confidence = c /\ x.n = n
  BY <1>3 DEF Item
<1> HIDE DEF x
<1>5. Weak(x)
  BY <1>3, <1>4 DEF Weak, Sources
<1> QED BY <1>4, <1>5 DEF x

LEMMA StaticItemIsWeak ==
  ASSUME NEW s \in StaticRows
  PROVE  Weak(StaticItem(s)) /\ StaticItem(s).source = "static_analysis"
<1>1. AtMost(25, 5 * s.imports) \in Nat
  BY DEF AtMost, StaticRows
<1>2. PICK w \in Nat, c \in {70, 55, 40} :
        /\ w = 0 => c = 40
        /\ StaticItem(s) = Item("static_analysis", w, c)
  <2>1. PICK m \in Nat, p \in {0, 15}, q \in {0, 8, 15} :
          /\ m = AtMost(25, 5 * s.imports) /\ p = (IF s.packed THEN 15 ELSE 0)
          /\ q = (IF s.entropy = "random" THEN 15 ELSE IF s.entropy = "high" THEN 8 ELSE 0)
    BY <1>1
  <2>2. StaticItem(s) = Item("static_analysis", p + q + m,
                             IF p + q + m > 30 THEN 70 ELSE IF p + q + m > 15 THEN 55 ELSE 40)
    BY <2>1 DEF StaticItem
  <2>3. p + q + m \in Nat
    BY <2>1
  <2> QED BY <2>2, <2>3
<1>3. /\ Item("static_analysis", w, c).source = "static_analysis"
      /\ Item("static_analysis", w, c).weight = w
      /\ Item("static_analysis", w, c).confidence = c /\ Item("static_analysis", w, c).n = 1
  BY DEF Item
<1>4. Weak(Item("static_analysis", w, c))
  BY <1>2, <1>3 DEF Weak, Sources
<1> QED BY <1>2, <1>3, <1>4

LEMMA DynItemsAreWeak ==
  ASSUME NEW d \in DynRows
  PROVE  /\ Weak(SandboxItem(d)) /\ SandboxItem(d).source = "sandbox"
         /\ Weak(NetworkItem(d)) /\ NetworkItem(d).source = "network"
         /\ d.cert # "none" =>
              Weak(CertificateItem(d)) /\ CertificateItem(d).source = "certificate"
<1>1. Weak(SandboxItem(d)) /\ SandboxItem(d).source = "sandbox"
  <2>1. PICK w \in Nat, c \in {80, 65, 40} : SandboxItem(d) = Item("sandbox", w, c)
    <3>1. AtMost(80, d.risk) \in Nat
      BY DEF AtMost, DynRows
    <3> QED BY <3>1 DEF SandboxItem
  <2>2. /\ Item("sandbox", w, c).source = "sandbox" /\ Item("sandbox", w, c).weight = w
        /\ Item("sandbox", w, c).confidence = c /\ Item("sandbox", w, c).n = 1
    BY DEF Item
  <2>3. Weak(Item("sandbox", w, c))
    BY <2>2 DEF Weak, Sources
  <2> QED BY <2>1, <2>2, <2>3
<1>2. Weak(NetworkItem(d)) /\ NetworkItem(d).source = "network"
  <2>1. PICK w \in Nat, c \in {60, 30} :
          NetworkItem(d) = Item("network", w, c) /\ (w = 0 => c = 30)
    <3>1. d.connections \in Nat
      BY DEF DynRows
    <3> QED BY <3>1 DEF NetworkItem
  <2>2. /\ Item("network", w, c).source = "network" /\ Item("network", w, c).weight = w
        /\ Item("network", w, c).confidence = c /\ Item("network", w, c).n = 1
    BY DEF Item
  <2>3. Weak(Item("network", w, c))
    BY <2>1, <2>2 DEF Weak, Sources
  <2> QED BY <2>1, <2>2, <2>3
<1>3. Weak(CertificateItem(d)) /\ CertificateItem(d).source = "certificate"
  <2>1. PICK w \in {5, -30, -5}, c \in {50, 85, 40} :
          CertificateItem(d) = Item("certificate", w, c) /\ (w > 0 => c = 50)
    BY DEF CertificateItem
  <2>2. /\ Item("certificate", w, c).source = "certificate" /\ Item("certificate", w, c).weight = w
        /\ Item("certificate", w, c).confidence = c /\ Item("certificate", w, c).n = 1
    BY DEF Item
  <2>3. Weak(Item("certificate", w, c))
    BY <2>1, <2>2 DEF Weak, Sources
  <2> QED BY <2>1, <2>2, <2>3
<1> QED BY <1>1, <1>2, <1>3

LEMMA YaraItemIsWeak ==
  ASSUME NEW y \in Counts, y["critical"] = 0
  PROVE  Weak(YaraItem(y)) /\ YaraItem(y).source = "yara"
<1>1. SumFunction(y) \in Nat
  <2>1. IsFiniteSet(Severities)
    BY FewElements DEF Severities
  <2>2. DOMAIN y = Severities /\ \A s \in Severities : y[s] \in Nat
    BY DEF Counts
  <2>3. SumFunctionOnSet(y, Severities) \in Nat
    BY <2>1, <2>2, SumNat
  <2>4. SumFunction(y) = SumFunctionOnSet(y, DOMAIN y)
    BY DEF SumFunction
  <2> QED BY <2>2, <2>3, <2>4
<1>2. PICK m \in Nat : m = SumFunction(y)
  BY <1>1
<1>3. PICK w \in Int, c \in {50, 65, 80} :
        YaraItem(y) = Item("yara", w, c) /\ (w <= 0 => c <= 65)
  <2>1. AtMost(50, 15 * m) \in Int
    BY DEF AtMost
  <2> QED BY <1>2, <2>1 DEF YaraItem
<1>4. /\ Item("yara", w, c).source = "yara" /\ Item("yara", w, c).weight = w
      /\ Item("yara", w, c).confidence = c /\ Item("yara", w, c).n = 1
  BY DEF Item
<1>5. Weak(Item("yara", w, c))
  BY <1>3, <1>4 DEF Weak, Sources
<1> QED BY <1>3, <1>4, <1>5

(* However many of the queries succeed, the items are such as above.        *)
LEMMA ChainIsMild ==
  ASSUME NEW V, IsFiniteSet(V), \A x \in V : Weak(x) /\ x.source = "virustotal",
         NEW e, e.static # None => e.static \in StaticRows,
         e.dyn # None => e.dyn \in DynRows, e.yara \in Counts, e.yara["critical"] = 0,
         NEW k \in 0 .. 4
  PROVE  Mild(Chain(k, V, e))
<1> DEFINE VV == IF k >= 1 THEN V ELSE {}
           S == IF k >= 2 /\ e.static # None THEN {StaticItem(e.static)} ELSE {}
           C == IF e.dyn.cert = "none" THEN {} ELSE {CertificateItem(e.dyn)}
           D == IF k >= 3 /\ e.dyn # None
                THEN {SandboxItem(e.dyn)} \cup {NetworkItem(e.dyn)} \cup C ELSE {}
           Y == IF k >= 4 THEN {YaraItem(e.yara)} ELSE {}
           items == VV \cup S \cup D \cup Y
<1>1. Chain(k, V, e) = items
  BY DEF Chain, DynItems
<1>2. IsFiniteSet(items)
  <2>1. /\ IsFiniteSet({StaticItem(e.static)}) /\ IsFiniteSet({SandboxItem(e.dyn)})
        /\ IsFiniteSet({NetworkItem(e.dyn)}) /\ IsFiniteSet({CertificateItem(e.dyn)})
        /\ IsFiniteSet({YaraItem(e.yara)}) /\ IsFiniteSet({})
    BY FS_Singleton, FS_EmptySet
  <2>2. IsFiniteSet(VV) /\ IsFiniteSet(S) /\ IsFiniteSet(C) /\ IsFiniteSet(Y)
    BY <2>1
  <2>3. IsFiniteSet({SandboxItem(e.dyn)} \cup {NetworkItem(e.dyn)})
    BY <2>1, FS_Union
  <2>4. IsFiniteSet({SandboxItem(e.dyn)} \cup {NetworkItem(e.dyn)} \cup C)
    <3> HIDE DEF C
    <3> QED BY <2>2, <2>3, FS_Union
  <2>5. IsFiniteSet(D)
    BY <2>1, <2>4
  <2> HIDE DEF VV, S, C, D, Y
  <2>6. IsFiniteSet(VV \cup S)
    BY <2>2, FS_Union
  <2>7. IsFiniteSet(VV \cup S \cup D)
    BY <2>5, <2>6, FS_Union
  <2> QED BY <2>2, <2>7, FS_Union
<1>3. \A x \in VV : Weak(x) /\ x.source = "virustotal"
  OBVIOUS
<1>4. \A x \in S : Weak(x) /\ x.source = "static_analysis" /\ x = StaticItem(e.static)
  BY StaticItemIsWeak
<1>5. \A x \in Y : Weak(x) /\ x.source = "yara" /\ x = YaraItem(e.yara)
  BY YaraItemIsWeak
<1>6. \A x \in D : /\ Weak(x)
                   /\ \/ x.source = "sandbox" /\ x = SandboxItem(e.dyn)
                      \/ x.source = "network" /\ x = NetworkItem(e.dyn)
                      \/ x.source = "certificate" /\ x = CertificateItem(e.dyn)
  <2>1. CASE D = {}
    BY <2>1
  <2>2. CASE k >= 3 /\ e.dyn # None
    <3>1. /\ Weak(SandboxItem(e.dyn)) /\ SandboxItem(e.dyn).source = "sandbox"
          /\ Weak(NetworkItem(e.dyn)) /\ NetworkItem(e.dyn).source = "network"
          /\ e.dyn.cert # "none" =>
               Weak(CertificateItem(e.dyn)) /\ CertificateItem(e.dyn).source = "certificate"
      BY <2>2, DynItemsAreWeak
    <3> QED BY <2>2, <3>1
  <2> QED BY <2>1, <2>2
<1>7. D # {} => \E x \in D : x.source = "network"
  <2>1. SUFFICES ASSUME D # {} PROVE \E x \in D : x.source = "network"
    OBVIOUS
  <2>2. k >= 3 /\ e.dyn # None
    BY <2>1
  <2>3. NetworkItem(e.dyn) \in D
    BY <2>2
  <2>4. NetworkItem(e.dyn).source = "network"
    BY <2>2, DynItemsAreWeak
  <2> QED BY <2>3, <2>4
<1> HIDE DEF VV, S, C, D, Y
<1>8. \A x \in items : Weak(x)
  BY <1>3, <1>4, <1>5, <1>6
<1>9. \A x, y \in items : x.source = y.source /\ x.source # "virustotal" => x = y
  BY <1>3, <1>4, <1>5, <1>6
<1>10. "network" \notin SourcesOf(items) =>
         "sandbox" \notin SourcesOf(items) /\ "certificate" \notin SourcesOf(items)
  <2>1. SUFFICES ASSUME "network" \notin SourcesOf(items)
                 PROVE "sandbox" \notin SourcesOf(items) /\ "certificate" \notin SourcesOf(items)
    OBVIOUS
  <2>2. D = {}
    BY <1>7, <2>1 DEF SourcesOf
  <2> QED BY <1>3, <1>4, <1>5, <2>2 DEF SourcesOf
<1> HIDE DEF items
<1>11. Mild(items)
  BY <1>2, <1>8, <1>9, <1>10 DEF Mild
<1> QED BY <1>1, <1>11

(* What the tables hold of a submission that nothing grave corroborates     *)
(* makes such items.                                                        *)
LEMMA BuiltIsMild ==
  ASSUME TypeOK, ~Ratio(VtStored, 10), ~(rows.yara["critical"] > 0), NEW k \in 0 .. 4
  PROVE  Mild(Chain(k, VtItems(rows.vt, file.vt), EvidenceWith(None)))
<1> DEFINE R == {i \in DOMAIN file.vt : rows.vt[i] > 0 /\ file.vt[i].tot > 0}
           V == {VtItem(file.vt[i], i, rows.vt[i]) : i \in R}
           e == EvidenceWith(None)
<1>1. file \in FileTypes /\ rows \in RowTypes
  BY BoundsAssumption DEF TypeOK
<1>2. file.vt \in Seq(VtRows) /\ rows.vt \in [DOMAIN file.vt -> Nat] /\ rows.yara \in Counts
      /\ file.static \in StaticRows /\ file.dyn \in DynRows
  BY <1>1 DEF FileTypes, RowTypes
<1>3. IsFiniteSet(V)
  <2>1. DOMAIN file.vt = 1 .. Len(file.vt) /\ Len(file.vt) \in Nat
    BY <1>2
  <2>2. IsFiniteSet(DOMAIN file.vt)
    BY <2>1, FS_Interval
  <2>3. IsFiniteSet(R)
    BY <2>2, FS_Subset
  <2> DEFINE f == [i \in R |-> VtItem(file.vt[i], i, rows.vt[i])]
  <2>4. f \in [R -> V] /\ \A x \in V : \E i \in R : f[i] = x
    OBVIOUS
  <2> HIDE DEF f, R, V
  <2>5. f \in Surjection(R, V)
    BY <2>4 DEF Surjection
  <2> QED BY <2>3, <2>5, FS_Surjection
<1>4. ASSUME NEW x \in V PROVE Weak(x) /\ x.source = "virustotal"
  <2>1. PICK i \in R : x = VtItem(file.vt[i], i, rows.vt[i])
    BY <1>4
  <2>2. /\ file.vt[i] \in VtRows /\ rows.vt[i] \in Nat \ {0}
        /\ rows.vt[i] > 0 /\ file.vt[i].tot > 0
    BY <1>2
  <2>3. file.vt[i] \in VtStored
    BY <2>2 DEF VtStored
  <2>4. ~(100 * file.vt[i].det >= 10 * file.vt[i].tot)
    BY <2>2, <2>3 DEF Ratio
  <2>5. 100 * file.vt[i].det < 10 * file.vt[i].tot
    BY <2>2, <2>4 DEF VtRows
  <2> QED BY <2>1, <2>2, <2>5, VtItemIsWeak
<1>5. VtItems(rows.vt, file.vt) = V
  BY DEF VtItems
<1>6. /\ e.static # None => e.static \in StaticRows
      /\ e.dyn # None => e.dyn \in DynRows
      /\ e.yara \in Counts /\ e.yara["critical"] = 0
  <2>1. rows.yara["critical"] = 0
    BY <1>2 DEF Counts, Severities
  <2> QED BY <1>2, <2>1 DEF EvidenceWith
<1> HIDE DEF V, e
<1>7. Mild(Chain(k, V, e))
  BY <1>3, <1>4, <1>6, ChainIsMild
<1> QED BY <1>5, <1>7 DEF e

(* Only a verdict of which VirusTotal or a critical YARA rule is part, with *)
(* the cross-check behind it, says "Block".                                 *)
THEOREM BlockNeedsProof == Spec => []BlockIsCorroborated
<1>1. Init => BlockIsCorroborated
  BY DEF Init, BlockIsCorroborated
<1>2. IInv /\ BlockIsCorroborated /\ [Next]_vars => BlockIsCorroborated'
  <2> SUFFICES ASSUME IInv, BlockIsCorroborated, [Next]_vars, pc' \in {"alert", "done"},
                      verdict'.action = "Block"
               PROVE  Ratio(VtStored, 10)' \/ rows'.yara["critical"] > 0
    BY DEF BlockIsCorroborated
  <2>1. TypeOK
    BY DEF IInv
  <2>2. CASE BuildVerdict
    <3>1. PICK k \in 0 .. 4 :
            verdict' = CrossChecked(
              ComputeVerdict(Chain(k, VtItems(rows.vt, file.vt), EvidenceWith(None))), score)
      BY <2>2 DEF BuildVerdict
    <3>2. ~Mild(Chain(k, VtItems(rows.vt, file.vt), EvidenceWith(None)))
      <4>1. SUFFICES ASSUME Mild(Chain(k, VtItems(rows.vt, file.vt), EvidenceWith(None)))
                     PROVE  FALSE
        OBVIOUS
      <4>2. CrossChecked(
              ComputeVerdict(Chain(k, VtItems(rows.vt, file.vt), EvidenceWith(None))),
              score).action # "Block"
        BY <4>1, MildIsNotBlocked
      <4> QED BY <3>1, <4>2
    <3>3. Ratio(VtStored, 10) \/ rows.yara["critical"] > 0
      BY <2>1, <3>2, BuiltIsMild
    <3>4. rows' = rows /\ file' = file
      BY <2>2 DEF BuildVerdict
    <3> QED BY <3>3, <3>4 DEF Ratio, VtStored
  <2>3. CASE ~BuildVerdict
    <3>1. /\ file' = file /\ rows'.vt = rows.vt /\ rows'.yara = rows.yara
          /\ verdict' = verdict /\ pc \in {"alert", "done"}
      <4>1. CASE UNCHANGED vars
        BY <4>1 DEF vars
      <4>2. CASE LateReport
        BY <2>1, <4>2 DEF LateReport, TypeOK, RowTypes
      <4>3. CASE DispatchAlerts
        BY <4>3 DEF DispatchAlerts
      <4>4. CASE Next /\ ~LateReport /\ ~DispatchAlerts
        BY <2>3, <4>4 DEF Next, StoreStatic, StoreDynamic, AbandonDynamic, LookupHashes,
             LookupVulnerabilities, LookupTechDebt, StoreYaraPatternResults, Skip, Go,
             Finalize, FinalizeBlind, Redeliver
      <4> QED BY <4>1, <4>2, <4>3, <4>4
    <3>2. Ratio(VtStored, 10) \/ rows.yara["critical"] > 0
      BY <3>1 DEF BlockIsCorroborated
    <3> QED BY <3>1, <3>2 DEF Ratio, VtStored
  <2> QED BY <2>2, <2>3
<1> QED BY <1>1, <1>2, Invariant, PTL DEF Spec

=============================================================================
