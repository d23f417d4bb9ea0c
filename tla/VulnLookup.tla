----------------------------- MODULE VulnLookup -----------------------------
(***************************************************************************)
(* What the vulnerability feeds answer about a product and a version       *)
(* (packages/vuln-feeds): the rows that nvd.ts extracts from a published   *)
(* CVE record, the query of db.ts, the comparison of versions and the      *)
(* route /feeds/cpe-lookup of index.ts, and the risk score of scoring.ts.  *)
(*                                                                         *)
(* A version is the sequence of its dot-separated parts.  A part has a     *)
(*   lead    the number it begins with, which is all that parseInt reads:  *)
(*           1 of "1k", "1-rc1" and "1:2"; None of "rc1", "*" and "?"      *)
(*   place   where the publisher's order has the part: behind "1" for "1k" *)
(*           and "1:2", before it for "1-rc1", and behind all versions for *)
(*           the "*" of a range without an end                             *)
(* Names are lower-case; VendorKey and ProductKey are what normalizeVendor *)
(* and normalizeProduct make of one, Blank if nothing is left.  A product  *)
(* that is asked for is not normalised, so one whose key differs from its  *)
(* name is never found.                                                    *)
(*                                                                         *)
(* A published record has                                                  *)
(*   rejected   its state is REJECTED                                      *)
(*   affected   entries [vendor, product, versions], each version a        *)
(*              [status, version, lessThan, upTo], upTo for                *)
(*              lessThanOrEqual, and None for a field that is not there    *)
(***************************************************************************)
EXTENDS Integers, Sequences
CONSTANTS None, Blank, VendorKey, ProductKey

Versions == Seq([lead : Nat \cup {None}, place : Int])

Ranges == [status : STRING, version : Versions \cup {None},
           lessThan : Versions \cup {None}, upTo : Versions \cup {None}]

(* --- versions --------------------------------------------------------- *)

(* A part that does not begin with a number is read as 0, and so is one    *)
(* that is not there.                                                      *)
Number(v, i) ==
  IF i \in DOMAIN v /\ v[i].lead # None THEN v[i].lead ELSE 0

Less(a, b) ==
  \E i \in DOMAIN a \cup DOMAIN b :
    /\ Number(a, i) < Number(b, i)
    /\ \A j \in 1 .. i - 1 : Number(a, j) = Number(b, j)

(* A plausible error: versions are compared by their first part only.      *)
CompareMajors(a, b) ==
  IF Number(a, 1) < Number(b, 1) THEN -1
  ELSE IF Number(b, 1) < Number(a, 1) THEN 1 ELSE 0

CompareVersions(a, b) == IF Less(a, b) THEN -1 ELSE IF Less(b, a) THEN 1 ELSE 0

(* A plausible error: the first affected version is taken for unaffected.  *)
VersionMatchesCpeOpen(v, row) ==
  IF row.exact # None THEN CompareVersions(v, row.exact) = 0
  ELSE /\ row.start # None => CompareVersions(v, row.start) > 0
       /\ row.end # None => CompareVersions(v, row.end) < 0

(* A row without any bound matches every version.                          *)
VersionMatchesCpe(v, row) ==
  IF row.exact # None THEN CompareVersions(v, row.exact) = 0
  ELSE /\ row.start # None => CompareVersions(v, row.start) >= 0
       /\ row.end # None => CompareVersions(v, row.end) < 0

(* --- the table cpe_match ---------------------------------------------- *)

CpeRow(cve, entry, start, end, exact) ==
  [cve |-> cve, vendor |-> VendorKey[entry.vendor], product |-> ProductKey[entry.product],
   start |-> start, end |-> end, exact |-> exact]

(* The last affected version, lessThanOrEqual, is stored as lessThan is.   *)
VersionRow(cve, entry, ver) ==
  LET end == IF ver.lessThan # None THEN ver.lessThan ELSE ver.upTo IN
  IF end = None THEN CpeRow(cve, entry, None, None, ver.version)
  ELSE CpeRow(cve, entry, ver.version, end, None)

EntryRows(cve, entry) ==
  IF entry.versions = {} THEN {CpeRow(cve, entry, None, None, None)}
  ELSE {VersionRow(cve, entry, ver) :
          ver \in {x \in entry.versions : x.status # "unaffected"}}

ExtractCpeMatches(cve, record) ==
  IF record.rejected THEN {}
  ELSE UNION {EntryRows(cve, e) :
         e \in {x \in record.affected : VendorKey[x.vendor] # Blank
                                        /\ ProductKey[x.product] # Blank}}

(* --- /feeds/cpe-lookup ------------------------------------------------ *)

(* Whatever vendor has the product, if the vendor that was asked for has   *)
(* no row of it at all.                                                    *)
LookupCpeMatch(matches, vendor, product) ==
  LET both == {m \in matches : m.vendor = vendor /\ m.product = product} IN
  IF both # {} THEN both ELSE {m \in matches : m.product = product}

(* The CVEs of the matching rows, each once; no version, no filter.        *)
CpeLookup(matches, vendor, product, version) ==
  {m.cve : m \in {x \in LookupCpeMatch(matches, vendor, product) :
                    version = None \/ VersionMatchesCpe(version, x)}}

(* --- what a record says ------------------------------------------------ *)

(* The publisher's order; a part that is not there is in the place of "0". *)
Place(v, i) == IF i \in DOMAIN v THEN v[i].place ELSE 0

Older(a, b) ==
  \E i \in DOMAIN a \cup DOMAIN b :
    /\ Place(a, i) < Place(b, i)
    /\ \A j \in 1 .. i - 1 : Place(a, j) = Place(b, j)

(* The numbers read of two versions stand to one another as their parts    *)
(* do, up to the first parts that differ: so with "1.1.1k" and "1.1.2",    *)
(* not with "1.1.1k" and "1.1.1g", "2-rc1" and "2", or anything and "*".   *)
ReadsTrue(a, b) ==
  \A i \in DOMAIN a \cup DOMAIN b :
    \/ \A j \in 1 .. i - 1 : Number(a, j) = Number(b, j)
    \/ \A j \in 1 .. i - 1 : Place(a, j) = Place(b, j)
    => /\ Number(a, i) < Number(b, i) <=> Place(a, i) < Place(b, i)
       /\ Number(b, i) < Number(a, i) <=> Place(b, i) < Place(a, i)

(* The versions from `version' up to one of its bounds, the bound included *)
(* if it is a lessThanOrEqual.                                             *)
InRange(v, ver) ==
  IF ver.lessThan = None /\ ver.upTo = None
  THEN ver.version = None \/ (~Older(v, ver.version) /\ ~Older(ver.version, v))
  ELSE /\ ver.version = None \/ ~Older(v, ver.version)
       /\ IF ver.lessThan # None THEN Older(v, ver.lessThan) ELSE ~Older(ver.upTo, v)

IsLast(v, ver) ==
  ver.lessThan = None /\ ver.upTo # None /\ ~Older(v, ver.upTo)

Legible(v, ver) ==
  \A bound \in {ver.version, ver.lessThan, ver.upTo} \ {None} : ReadsTrue(v, bound)

Covers(v, ver) == ver.status # "unaffected" /\ (v = None \/ InRange(v, ver))

(* --- /feeds/score ----------------------------------------------------- *)

(* CVSS scores are tenths, percentiles percents, points hundredths.        *)
RISK_CEILING == 200000
KEV_MIN_SCORE == 25000
SeverityPoints == [CRITICAL |-> 90, HIGH |-> 65, MEDIUM |-> 40, LOW |-> 10]

BasePoints(f) ==
  IF f.score # None THEN f.score
  ELSE IF f.severity \in DOMAIN SeverityPoints THEN SeverityPoints[f.severity] ELSE 40

AgeDecay(years) ==
  IF years = None THEN 100
  ELSE IF years < 1 THEN 90
  ELSE IF years < 2 THEN 75
  ELSE IF years < 3 THEN 60
  ELSE IF years < 5 THEN 45
  ELSE 30

Amplifier(f) ==
  IF f.kev THEN 500
  ELSE IF f.percentile = None THEN 100
  ELSE IF f.percentile >= 95 THEN 400
  ELSE IF f.percentile >= 75 THEN 250
  ELSE IF f.percentile >= 50 THEN 150
  ELSE IF f.percentile >= 25 THEN 100
  ELSE AgeDecay(f.years)

ScoreCve(f) ==
  LET points == BasePoints(f) * Amplifier(f) IN
  IF f.kev /\ points < KEV_MIN_SCORE THEN KEV_MIN_SCORE ELSE points

(* In percents of the ceiling; at least 50 with an exploited one.          *)
RiskPct(total, hasKev) ==
  LET pct == (IF total > RISK_CEILING THEN RISK_CEILING ELSE total) \div 2000 IN
  IF hasKev /\ pct < 50 THEN 50 ELSE pct

Grade(pct) ==
  IF pct < 15 THEN "A" ELSE IF pct < 30 THEN "B" ELSE IF pct < 50 THEN "C"
  ELSE IF pct < 70 THEN "D" ELSE "F"
=============================================================================
