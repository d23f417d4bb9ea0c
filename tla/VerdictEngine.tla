--------------------------- MODULE VerdictEngine ---------------------------
(***************************************************************************)
(* The verdict: buildVerdictFromDb of submissionWorkflow.ts and the whole  *)
(* of verdict-engine.ts, except for the sentences, and the cross-check of  *)
(* finalize.  It weighs the evidence of ThreatScore a second time, in its  *)
(* own way.                                                                *)
(*                                                                         *)
(* A piece of evidence has a source, a weight and a confidence in whole    *)
(* percents; those of VirusTotal also the answer they are of, the number n *)
(* of its rows, and whether it names a family at a ratio that counts.      *)
(* Fractions are exact, where the code rounds them to double precision.    *)
(***************************************************************************)
EXTENDS ThreatScore, FiniteSetsExt, Sequences

Classifications == {"malicious", "suspicious", "benign", "inconclusive"}
Actions == {"Block", "Quarantine", "Monitor", "Allow"}

BaseWeight(source) ==
  CASE source = "virustotal" -> 30
    [] source = "sandbox" -> 25
    [] source = "yara" -> 20
    [] source = "certificate" -> 12
    [] OTHER -> 15                       \* static_analysis, network

Item(source, weight, confidence) ==
  [source |-> source, weight |-> weight, confidence |-> confidence,
   answer |-> 0, n |-> 1, named |-> FALSE]

(* --- The builders ------------------------------------------------------ *)

Above(v, percent) == 100 * v.det > percent * v.tot

VtItem(v, i, n) ==
  LET item == IF Above(v, 50) THEN Item("virustotal", 90, 95)
              ELSE IF Above(v, 25) THEN Item("virustotal", 70, 85)
              ELSE IF Above(v, 10) THEN Item("virustotal", 50, 70)
              ELSE IF Above(v, 5) THEN Item("virustotal", 30, 55)
              ELSE IF v.det > 0 THEN Item("virustotal", 10, 35)
              ELSE Item("virustotal", -20, 60)
  IN [item EXCEPT !.answer = i, !.n = n, !.named = v.family # "none" /\ 100 * v.det >= 5 * v.tot]

StaticItem(s) ==
  LET weight == (IF s.packed THEN 15 ELSE 0)
              + (IF s.entropy = "random" THEN 15 ELSE IF s.entropy = "high" THEN 8 ELSE 0)
              + AtMost(25, 5 * s.imports)
  IN Item("static_analysis", weight, IF weight > 30 THEN 70 ELSE IF weight > 15 THEN 55 ELSE 40)

(* All indicators count here, those of the sandbox's own scripts as well.  *)
Indicators(d) ==
  d.scripts + MapThenSumSet(LAMBDA p : d.inds[p[1]][p[2]], Classes \X Severities)

SandboxItem(d) ==
  Item("sandbox", AtMost(80, d.risk),
       IF Indicators(d) > 3 THEN 80 ELSE IF Indicators(d) > 0 THEN 65 ELSE 40)

(* The list of C2 indicators is always given as empty.                     *)
NetworkItem(d) ==
  Item("network",
       (IF d.connections > 5 THEN 15 ELSE IF d.connections > 0 THEN 8 ELSE 0)
         + (IF d.queries > 10 THEN 10 ELSE 0),
       IF d.connections > 0 THEN 60 ELSE 30)

CertificateItem(d) ==
  IF d.cert = "absent" THEN Item("certificate", 5, 50)
  ELSE IF d.cert = "vendor" THEN Item("certificate", -30, 85)
  ELSE Item("certificate", -5, 40)

YaraItem(y) ==
  LET matches == SumFunction(y) IN
  IF matches = 0 THEN Item("yara", -5, 50)
  ELSE IF y["critical"] > 0 THEN Item("yara", 80, 90)
  ELSE IF y["high"] > 0 THEN Item("yara", 60, 80)
  ELSE Item("yara", AtMost(50, 15 * matches), 65)

(* What the four queries find, in their order, when the first that fails   *)
(* is the one after the first k: the evidence so far is used.  looked says *)
(* how many rows there are of each of the answers of VirusTotal.           *)
VtItems(looked, answers) ==
  LET rows == {i \in DOMAIN answers : looked[i] > 0 /\ answers[i].tot > 0}
  IN {VtItem(answers[i], i, looked[i]) : i \in rows}

DynItems(d) ==
  {SandboxItem(d), NetworkItem(d)} \cup (IF d.cert = "none" THEN {} ELSE {CertificateItem(d)})

Chain(k, vtItems, e) ==
     (IF k >= 1 THEN vtItems ELSE {})
  \cup (IF k >= 2 /\ e.static # None THEN {StaticItem(e.static)} ELSE {})
  \cup (IF k >= 3 /\ e.dyn # None THEN DynItems(e.dyn) ELSE {})
  \cup (IF k >= 4 THEN {YaraItem(e.yara)} ELSE {})

(* --- The engine -------------------------------------------------------- *)

Size(w) == IF w < 0 THEN -w ELSE w
CountOf(items) == SumFunction([x \in items |-> x.n])
Assurance(items) == SumFunction([x \in items |-> x.n * x.confidence])

(* Math.round of a fraction, and the clamp.                                *)
Percent(num, den) ==
  IF den = 0 THEN 0 ELSE AtMost(100, AtLeast(0, (2 * num + den) \div (2 * den)))

(* The confidences, averaged with the weights of the items and sources.    *)
RawScore(items) ==
  LET pull == [x \in items |-> x.n * x.weight * BaseWeight(x.source) * x.confidence]
      scale == [x \in items |-> x.n * Size(x.weight) * BaseWeight(x.source)]
  IN Percent(SumFunction(pull), SumFunction(scale))

Agreeing(items) ==
  LET for == CountOf({x \in items : x.weight > 0})
      against == CountOf({x \in items : x.weight < 0})
  IN AtLeast(for, against)
Sided(items) == CountOf({x \in items : x.weight # 0})

(* Strong evidence comes first; scores between 16 and 29 ask for two items *)
(* of high confidence.  As the builders are, no item of VirusTotal meets   *)
(* the test for "benign", and at least half of the items always agree.     *)
Classify(items) ==
  LET raw == RawScore(items)
      sure == {x \in items : x.confidence >= 70}
      virustotal == {x \in items : x.source = "virustotal"}
  IN IF items = {} THEN "inconclusive"
     ELSE IF \/ \E x \in virustotal : x.confidence >= 80 /\ x.weight >= 70
             \/ raw >= 50 /\ \E x \in virustotal : x.named
       THEN "malicious"
     ELSE IF /\ \E x \in items : x.source = "certificate" /\ x.confidence >= 80 /\ x.weight < 0
             /\ \E x \in virustotal : x.weight < 20 /\ x.confidence >= 70
             /\ raw < 30
       THEN "benign"
     ELSE IF raw >= 60 THEN "malicious"
     ELSE IF raw >= 30 THEN "suspicious"
     ELSE IF raw <= 15 THEN "benign"
     ELSE IF CountOf(sure) < 2 \/ 2 * Agreeing(items) < AtLeast(1, Sided(items)) THEN "inconclusive"
     ELSE IF raw > 20 THEN "suspicious" ELSE "benign"

(* An error in the confidence below: the bonus of definitive evidence is    *)
(* given without it.                                                       *)
ConfidenceAlwaysDefinitive(items, class) ==
  LET sources == AtMost(5, Cardinality({x.source : x \in items}))
      k == CountOf(items)
      t == AtLeast(1, Sided(items))
      points == 100 * sources * t * k + 600 * Agreeing(items) * k
                + 7 * Assurance(items) * t
      sum == Percent(points + 200 * t * k, 20 * t * k)
  IN IF class = "inconclusive" THEN AtMost(40, sum) ELSE sum

(* 25 points for five sources, 30 for agreement, 35 for the average        *)
(* confidence and 10 for definitive evidence, which also counts 1.2 times. *)
Definitive(items) == \E x \in items : x.confidence >= 90 /\ Size(x.weight) >= 70
Confidence(items, class) ==
  LET sources == AtMost(5, Cardinality({x.source : x \in items}))
      k == CountOf(items)
      t == AtLeast(1, Sided(items))
      points == 100 * sources * t * k + 600 * Agreeing(items) * k
                + 7 * Assurance(items) * t
      sum == IF Definitive(items) THEN Percent(6 * (points + 200 * t * k), 100 * t * k)
             ELSE Percent(points, 20 * t * k)
  IN IF class = "inconclusive" THEN AtMost(40, sum) ELSE sum

ActionOn(class, confidence, raw) ==
  CASE class = "malicious" ->
         IF confidence >= 80 \/ raw >= 90 THEN "Block"
         ELSE IF confidence >= 50 THEN "Quarantine" ELSE "Monitor"
    [] class = "suspicious" ->
         IF confidence >= 70 /\ raw >= 60 THEN "Quarantine" ELSE "Monitor"
    [] class = "benign" -> "Allow"
    [] class = "inconclusive" -> IF raw >= 50 THEN "Monitor" ELSE "Allow"

ComputeVerdict(items) ==
  IF items = {} THEN [class |-> "inconclusive", confidence |-> 0, action |-> "Monitor"]
  ELSE LET class == Classify(items)
           confidence == Confidence(items, class)
       IN [class |-> class, confidence |-> confidence,
           action |-> ActionOn(class, confidence, RawScore(items))]

(* finalize overrules it where the score says otherwise.                   *)
CrossChecked(v, s) ==
  IF v.class = "malicious" /\ s < 30
    THEN [class |-> IF s <= 15 THEN "benign" ELSE "suspicious",
          confidence |-> AtMost(50, v.confidence),
          action |-> IF s <= 15 THEN "Allow" ELSE "Monitor"]
  ELSE IF v.class = "benign" /\ s >= 70
    THEN [class |-> "suspicious", confidence |-> AtMost(60, v.confidence), action |-> "Monitor"]
  ELSE v
=============================================================================
