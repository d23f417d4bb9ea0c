----------------------------- MODULE MCScoring -----------------------------
(* Instances of Scoring for TLC.                                           *)
EXTENDS Scoring

Count(c, h, m) == [NoCounts EXCEPT !["critical"] = c, !["high"] = h, !["medium"] = m]
Clean == [det |-> 0, tot |-> 60, family |-> "none"]
OneOf70 == [det |-> 1, tot |-> 70, family |-> "other"]
Most == [det |-> 36, tot |-> 60, family |-> "high"]

Quiet == [risk |-> 10, scripts |-> 1, noise |-> FALSE, dropped |-> 1,
          connections |-> 2, queries |-> 3,
          inds |-> [c \in Classes |-> IF c = "benign" THEN Count(0, 2, 1)
                                      ELSE IF c = "yara" THEN Count(1, 0, 0)
                                      ELSE NoCounts]]
Busy == [risk |-> 50, scripts |-> 0, noise |-> FALSE, dropped |-> 2,
         connections |-> 0, queries |-> 0,
         inds |-> [c \in Classes |-> IF c = "plain" THEN Count(0, 1, 1) ELSE NoCounts]]
Ransom == [risk |-> 90, scripts |-> 1, noise |-> FALSE, dropped |-> 3,
           connections |-> 8, queries |-> 12,
           inds |-> [c \in Classes |-> IF c = "grave" THEN Count(2, 1, 0) ELSE NoCounts]]

(* A report, with or without a signature, YARA matches and domains.        *)
WithRest(d, signed, yara, domains) ==
  [risk |-> d.risk, scripts |-> d.scripts, noise |-> d.noise, dropped |-> d.dropped,
   connections |-> d.connections, queries |-> d.queries, inds |-> d.inds,
   cert |-> IF signed THEN "vendor" ELSE IF d.risk > 50 THEN "none" ELSE "absent",
   signed |-> signed, yara |-> yara,
   trusted |-> domains[1], untrusted |-> domains[2]]

Plain == [packed |-> FALSE, entropy |-> "normal", imports |-> 0, words |-> 0,
          trusted |-> 1, untrusted |-> 0]
Packed == [packed |-> TRUE, entropy |-> "random", imports |-> 5, words |-> 3,
           trusted |-> 0, untrusted |-> 0]

Exploited == [kev |-> TRUE, cvss |-> 98, epss |-> 9]
ExploitedALot == [kev |-> TRUE, cvss |-> 75, epss |-> 60]
Likely == [kev |-> FALSE, cvss |-> 82, epss |-> 93]

MCFiles ==
  [static : {Plain, Packed},
   dyn : {WithRest(d, signed, rest[1], rest[2]) :
            d \in {Quiet, Busy, Ransom}, signed \in BOOLEAN,
            rest \in {<<NoCounts, <<7, 1>>>>, <<Count(1, 1, 0), <<0, 2>>>>}},
   vt : {<<>>, <<Clean>>, <<OneOf70>>, <<Most, Clean>>},
   cves : {<<>>, <<Exploited>>, <<Likely, ExploitedALot>>},
   debt : {None, [eol |-> TRUE, behind |-> 1]}]
=============================================================================
