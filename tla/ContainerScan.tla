---------------------------- MODULE ContainerScan ----------------------------
(***************************************************************************)
(* The container workflow of submissionWorkflow.ts over the deliveries of  *)
(* one job: the detonation that lists what the image contains, one         *)
(* /feeds/cpe-lookup per package, and the score.  The feeds are refreshed  *)
(* meanwhile: cpe_match is replaced first and cve_enriched, which rates    *)
(* the CVEs, is built some downloads later, so a look-up in between finds  *)
(* CVEs that are not rated.                                                *)
(***************************************************************************)
EXTENDS VulnLookup, ContainerScore, FiniteSets

CONSTANTS
  Images,        \* each [packages, osPackages, findings]: see Packages
  Records,       \* the CVE records that are published, a function on the CVEs
  Ratings,       \* what NVD, KEV and EPSS say of each CVE
  Published,     \* the CVEs in the feeds at first; the others appear later
  PackageLimit,  \* packages looked up; 200 in the code
  MaxDeliveries, \* bound: attempts and stalls of the job
  MaxFaults      \* bound: calls and queries that fail

Cves == DOMAIN Records
Severities == {"CRITICAL", "HIGH", "MEDIUM", "LOW"}
Package == [name : STRING, version : Versions \cup {None}]
Tools == {"syft", "python"}

ASSUME ScanAssumption ==
  /\ Published \subseteq Cves
  /\ DOMAIN Ratings = Cves
  /\ \A c \in Cves : Ratings[c] \in [severity : Severities \cup {None}, score : 0 .. 100,
                                     kev : BOOLEAN, epss : 0 .. 100]
  /\ \A i \in Images : i.findings \in Findings
  /\ \A i \in Images : i.packages \in Seq(Package) /\ i.osPackages \in Seq(Package)
  /\ \A c \in Cves : \A e \in Records[c].affected : e.versions \subseteq Ranges
  /\ None \notin Versions \cup Severities \cup Nat /\ Blank \notin STRING
  /\ IsFiniteSet(Cves)
  /\ PackageLimit \in Nat /\ MaxDeliveries \in Nat /\ MaxFaults \in Nat

VARIABLES
  image,       \* the image that was submitted
  pc,          \* the workflow's next step
  reports,     \* the submission's rows of dynamic_analysis_results: whose results
  detonating,  \* a detonation that the orchestrator gave up waiting for
  sbom,        \* the row that the workflow has read, {} for none
  next,        \* the package to look up next
  counted,     \* the counters of this delivery
  rows,        \* the sbom-vuln rows stored so far: how many of a package and CVE
  matched,     \* the CVEs whose rows are in cpe_match
  rated,       \* the CVEs whose rating is in cve_enriched
  score,       \* submissions.threat_score, None before the first scan
  known,       \* the CVEs that were matched and rated when the delivery began
  disturbed,   \* a call or a query of this delivery has failed
  deliveries, faults

feeds == <<matched, rated>>
scan == <<reports, detonating, sbom, next, counted, rows, score>>
vars == <<image, pc, reports, detonating, sbom, next, counted, rows, matched, rated,
          score, known, disturbed, deliveries, faults>>

Nothing == [critical |-> 0, high |-> 0, medium |-> 0, low |-> 0,
            kev |-> FALSE, cvss |-> 0, epss |-> 0]
NoFindings == [n |-> [k \in Kinds |-> 0], root |-> FALSE, unsigned |-> FALSE]

Init ==
  /\ image \in Images
  /\ pc = "dynamic"
  /\ reports = {} /\ detonating = FALSE /\ sbom = {}
  /\ next = 1 /\ counted = Nothing
  /\ rows = [x \in {} |-> 0]
  /\ matched = Published /\ rated = Published
  /\ score = None /\ known = Published
  /\ disturbed = FALSE
  /\ deliveries = 1 /\ faults = 0

Fault ==
  /\ faults < MaxFaults
  /\ faults' = faults + 1
  /\ disturbed' = TRUE
Fine == UNCHANGED <<faults, disturbed>>

----------------------------------------------------------------------------
(* The detonation stores a report; the orchestrator waits 120 s for it.     *)
(* syft lists the packages, and the Python scan the findings and, for want  *)
(* of syft's, the packages of the distribution; what fails is left out.     *)

Report(results) == reports' = reports \cup {results}

Detonate ==
  /\ pc = "dynamic" /\ pc' = "read"
  /\ Report(Tools)
  /\ Fine
  /\ UNCHANGED <<image, detonating, sbom, next, counted, rows, feeds, score, known,
                 deliveries>>

(* A report without a tool's results, or without any, is one nevertheless.  *)
DetonateInPart ==
  /\ pc = "dynamic" /\ pc' = "read"
  /\ \E results \in SUBSET Tools \ {Tools} : Report(results)
  /\ Fault
  /\ UNCHANGED <<image, detonating, sbom, next, counted, rows, feeds, score, known,
                 deliveries>>

(* The service does not answer, or not in time; executeStep goes on.        *)
AbandonDynamic ==
  /\ pc = "dynamic" /\ pc' = "read"
  /\ Fault
  /\ detonating' \in BOOLEAN /\ (detonating => detonating')
  /\ UNCHANGED <<image, reports, sbom, next, counted, rows, feeds, score, known, deliveries>>

LateReport ==
  /\ detonating /\ detonating' = FALSE
  /\ \E results \in SUBSET Tools : Report(results)
  /\ UNCHANGED <<image, pc, sbom, next, counted, rows, feeds, score, known, disturbed,
                 deliveries, faults>>

(* The first row of a query without an order: any of them.                  *)
ReadReport ==
  /\ pc = "read" /\ pc' = "lookup"
  /\ sbom' \in IF reports = {} THEN {{}} ELSE reports
  /\ next' = 1 /\ counted' = Nothing
  /\ Fine
  /\ UNCHANGED <<image, reports, detonating, rows, feeds, score, known, deliveries>>

----------------------------------------------------------------------------
(* The look-ups, one package after the other.                               *)

Packages ==
  IF "syft" \in sbom THEN image.packages
  ELSE IF "python" \in sbom THEN image.osPackages
  ELSE <<>>
LookingUp == pc = "lookup" /\ next <= UpTo(PackageLimit, Len(Packages))

(* Vendor and product are the package's name.  An unrated CVE has no        *)
(* severity and no score.                                                   *)
Rating(c) ==
  IF c \in rated THEN Ratings[c]
  ELSE [severity |-> None, score |-> 0, kev |-> FALSE, epss |-> 0]

Matches == UNION {ExtractCpeMatches(c, Records[c]) : c \in matched}
Answer(p) == CpeLookup(Matches, p.name, p.name, p.version)

(* The answer is sorted, the most severe first.                             *)
SeverityOrder(s) ==
  CASE s = "CRITICAL" -> 0 [] s = "HIGH" -> 1 [] s = "MEDIUM" -> 2 [] s = "LOW" -> 3
    [] OTHER -> 4
Before(a, b) ==
  \/ SeverityOrder(Rating(a).severity) < SeverityOrder(Rating(b).severity)
  \/ /\ SeverityOrder(Rating(a).severity) = SeverityOrder(Rating(b).severity)
     /\ Rating(a).score > Rating(b).score

(* Whatever is none of the three is counted as low.                         *)
Count(v, S) ==
  LET With(s) == Cardinality({c \in S : Rating(c).severity = s}) IN
  [critical |-> v.critical + With("CRITICAL"), high |-> v.high + With("HIGH"),
   medium |-> v.medium + With("MEDIUM"),
   low |-> v.low + Cardinality({c \in S : Rating(c).severity \notin
                                           {"CRITICAL", "HIGH", "MEDIUM"}}),
   kev |-> v.kev \/ \E c \in S : Rating(c).kev,
   cvss |-> Max({v.cvss} \cup {Rating(c).score : c \in S}),
   epss |-> Max({v.epss} \cup {Rating(c).epss : c \in S})]

Stored(p, S) ==
  LET keys == {<<p, c>> : c \in S}
      Of(x) == IF x \in DOMAIN rows THEN rows[x] ELSE 0
  IN [x \in DOMAIN rows \cup keys |-> Of(x) + If(x \in keys, 1)]

(* A plausible error: a CVE whose row is already there is passed over.      *)
LookupNewOnly ==
  /\ LookingUp
  /\ LET p == Packages[next]
         found == {c \in Answer(p) : <<p, c>> \notin DOMAIN rows}
     IN counted' = Count(counted, found) /\ rows' = Stored(p, found)
  /\ next' = next + 1
  /\ Fine
  /\ UNCHANGED <<image, pc, reports, detonating, sbom, feeds, score, known, deliveries>>

Lookup ==
  /\ LookingUp
  /\ LET found == Answer(Packages[next]) IN
       /\ counted' = Count(counted, found)
       /\ rows' = Stored(Packages[next], found)
  /\ next' = next + 1
  /\ Fine
  /\ UNCHANGED <<image, pc, reports, detonating, sbom, feeds, score, known, deliveries>>

(* The call fails, or an INSERT does: each CVE is counted before its row is *)
(* stored, and an error ends the package, not the scan.                     *)
LookupFails ==
  /\ LookingUp
  /\ Fault
  /\ LET p == Packages[next]
         found == Answer(p)
     IN \/ UNCHANGED <<counted, rows>>
        \/ \E c \in found, S \in SUBSET found :
             /\ \A a \in S, b \in found \ S : ~Before(b, a)
             /\ c \notin S /\ \A b \in found \ (S \cup {c}) : ~Before(b, c)
             /\ counted' = Count(counted, S \cup {c})
             /\ rows' = Stored(p, S)
  /\ next' = next + 1
  /\ UNCHANGED <<image, pc, reports, detonating, sbom, feeds, score, known, deliveries>>

----------------------------------------------------------------------------
(* The score, the only result of the scan that the user sees.               *)

Finish ==
  /\ pc = "lookup" /\ ~LookingUp
  /\ pc' = "done"
  /\ score' = ContainerScore(counted, IF "python" \in sbom THEN image.findings ELSE NoFindings)
  /\ Fine
  /\ UNCHANGED <<image, reports, detonating, sbom, next, counted, rows, feeds, known,
                 deliveries>>

(* The report cannot be read, or the IOCs or the score not be written: the  *)
(* catch writes 0, "informational".                                         *)
ScanFails ==
  /\ pc \in {"read", "lookup"} /\ ~LookingUp
  /\ Fault
  /\ pc' = "done"
  /\ score' = 0
  /\ UNCHANGED <<image, reports, detonating, sbom, next, counted, rows, feeds, known,
                 deliveries>>

(* The attempt fails or its process dies: all over again, with new counters *)
(* and the old rows.                                                        *)
Redeliver ==
  /\ deliveries < MaxDeliveries /\ deliveries' = deliveries + 1
  /\ pc' = "dynamic"
  /\ disturbed' = FALSE
  /\ known' = matched \cap rated
  /\ UNCHANGED <<image, reports, detonating, sbom, next, counted, rows, feeds, score, faults>>

----------------------------------------------------------------------------
(* A refresh: the records published meanwhile, and their ratings later.     *)

ReplaceCpeMatch ==
  /\ matched # Cves
  /\ matched' = Cves
  /\ UNCHANGED <<image, pc, scan, rated, known, disturbed, deliveries, faults>>

BuildEnriched ==
  /\ rated # matched
  /\ rated' = matched
  /\ UNCHANGED <<image, pc, scan, matched, known, disturbed, deliveries, faults>>

Next ==
  \/ Detonate \/ DetonateInPart \/ AbandonDynamic \/ LateReport \/ ReadReport
  \/ Lookup \/ LookupFails \/ Finish \/ ScanFails \/ Redeliver
  \/ ReplaceCpeMatch \/ BuildEnriched

Spec == Init /\ [][Next]_vars
----------------------------------------------------------------------------

TypeOK ==
  /\ image \in Images
  /\ pc \in {"dynamic", "read", "lookup", "done"}
  /\ reports \subseteq SUBSET Tools /\ detonating \in BOOLEAN /\ sbom \subseteq Tools
  /\ next \in Nat \ {0} /\ counted \in Counted
  /\ \A x \in DOMAIN rows : rows[x] \in 1 .. 2 * MaxDeliveries
  /\ Published \subseteq matched /\ rated \subseteq matched /\ matched \subseteq Cves
  /\ known \subseteq rated
  /\ score \in (0 .. 100) \cup {None}
  /\ disturbed \in BOOLEAN
  /\ deliveries \in 1 .. MaxDeliveries /\ faults \in 0 .. MaxFaults

(* The feeds have rows of the package under its own name as the vendor: the *)
(* rows of other vendors are not looked at then.                            *)
OwnVendor(p, S) ==
  \E c \in S : \E m \in ExtractCpeMatches(c, Records[c]) : m.vendor = p.name /\ m.product = p.name

(* The record says that the package is affected, and under a name that the *)
(* look-up asks for; left out are the versions that compareVersions cannot *)
(* tell from a bound, the last one of a closed range, and the entries      *)
(* behind a vendor of the package's own name.                              *)
Affects(c, p) ==
  ~Records[c].rejected /\ \E e \in Records[c].affected :
    /\ ProductKey[e.product] = p.name /\ VendorKey[e.vendor] # Blank
    /\ VendorKey[e.vendor] = p.name \/ ~OwnVendor(p, Cves)
    /\ \/ e.versions = {}
       \/ \E ver \in e.versions :
            /\ Covers(p.version, ver)
            /\ p.version = None \/ (Legible(p.version, ver) /\ ~IsLast(p.version, ver))

Demands(r) ==
  IF r.kev \/ r.severity = "CRITICAL" THEN 70 ELSE IF r.severity = "HIGH" THEN 40 ELSE 0

(* When no call, query or tool of the delivery has failed and the report   *)
(* that it read is a whole one, the score is at least what the worst CVE   *)
(* of a package that was looked up demands, if it was rated when the       *)
(* delivery began, and what the worst finding in the layers demands: "a    *)
(* container with a CRITICAL vuln is at minimum HIGH"                      *)
(* (submissionWorkflow.ts:311), a refresh under way notwithstanding.       *)
WorstFindingSetsLevel ==
  pc = "done" /\ ~disturbed /\ sbom = Tools =>
    /\ \A i \in 1 .. UpTo(PackageLimit, Len(image.packages)), c \in known :
         Affects(c, image.packages[i]) => score >= Demands(Ratings[c])
    /\ score >= FloorOf(Nothing, image.findings)

(* The record names the package's version, or names one that parseInt      *)
(* makes the same of: the letters and suffixes that it drops accuse.       *)
Accuses(c, p) ==
  \E e \in Records[c].affected :
    /\ ProductKey[e.product] = p.name
    /\ \/ e.versions = {}
       \/ \E ver \in e.versions :
            \/ Covers(p.version, ver)
            \/ ver.status # "unaffected" /\ p.version # None /\ ~Legible(p.version, ver)

(* No package of an image is accused of a CVE whose record does not name    *)
(* its version, whichever tool listed it and however deliveries and         *)
(* refreshes interleave, but where compareVersions cannot tell the versions *)
(* apart.                                                                   *)
RowsAreWarranted ==
  \A x \in DOMAIN rows :
    /\ \E list \in {image.packages, image.osPackages} : \E i \in DOMAIN list : list[i] = x[1]
    /\ Accuses(x[2], x[1])

(* "Exact version match" (index.ts:159): where a record names its versions *)
(* one by one, a row is stored only for a package that has one of them.    *)
(* The code compares what parseInt reads of them, so 1.2k matches 1.2g.    *)
ExactVersionsMatchExactly ==
  \A x \in DOMAIN rows :
    LET entries == {e \in Records[x[2]].affected : ProductKey[e.product] = x[1].name}
        all == UNION {e.versions : e \in entries}
    IN (\A e \in entries : e.versions # {}) /\ (\A ver \in all : ver.lessThan = None /\ ver.upTo = None)
       => \E ver \in all : Covers(x[1].version, ver)

(* A delivery in which nothing fails and which reads a whole report never  *)
(* lowers the score of an earlier one, whatever a refresh has added to the *)
(* feeds in between and however many rows are stored twice; rows under a   *)
(* vendor of the package's own name, which hide those of the other         *)
(* vendors, and a report with the distribution's packages only, which may  *)
(* be others than syft's, are the exceptions.                              *)
ScanIsNotWeakened ==
  [][ /\ score # None /\ ~disturbed' /\ sbom = Tools /\ {"python"} \notin reports
      /\ \A i \in DOMAIN image.packages : ~OwnVendor(image.packages[i], matched \ Published)
      => score' >= score ]_vars
=============================================================================
