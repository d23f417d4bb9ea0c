------------------------ MODULE ContainerScan_proofs ------------------------
(***************************************************************************)
(* Proofs about the container scanner, for any images, records, refreshes, *)
(* deliveries and faults.                                                  *)
(*                                                                         *)
(* About the look-up (VulnLookup): where the numbers that parseInt reads   *)
(* of two versions stand to one another as their parts do, compareVersions *)
(* agrees with the publisher's order, and a row that was extracted from a  *)
(* CVE record matches the versions the record covers and no other, but for *)
(* the last version of a closed range; and what an exploited CVE does to a *)
(* grade.                                                                  *)
(*                                                                         *)
(* About the score (ContainerScore): the floor that a finding demands, and *)
(* that more findings or worse CVEs never make it less.  VulnSubScore, a   *)
(* fold, is treated as a function that satisfies its recursion (Sums), and *)
(* what it adds up to is found by induction over the finite sets.          *)
(*                                                                         *)
(* About the scans of an image: no image is accused of a CVE none of its   *)
(* packages has, but where the versions cannot be told apart (WInv: a row  *)
(* is stored only for a CVE of an answer, which has a matching row,        *)
(* extracted from the CVE's record); a scan of a whole report in which     *)
(* nothing failed is scored at least as its worst CVE demands (LInv: each  *)
(* package behind it has been paid for); and such a scan never lowers the  *)
(* score (GInv: the counters lie between those of two scans of feeds that  *)
(* do not change, and the stored score below the lower one).               *)
(***************************************************************************)
EXTENDS ContainerScan, FiniteSetTheorems, WellFoundedInduction, TLAPS

----------------------------------------------------------------------------
(* Induction, and sums over a set                                           *)

Below == {p \in Nat \X Nat : p[1] < p[2]}

(* A set of natural numbers has a least member.                             *)
LEMMA Least ==
  ASSUME NEW T \in SUBSET Nat, T # {}
  PROVE  \E x \in T : \A y \in T : x <= y
<1>1. IsWellFoundedOn(Below, Nat)
  BY NatLessThanWellFounded DEF OpToRel, Below
<1>2. PICK x \in T : \A y \in T : <<y, x>> \notin Below
  BY <1>1, WFMin
<1>3. \A y \in T : y < x => <<y, x>> \in Below
  BY DEF Below
<1>4. x \in Nat /\ \A y \in T : y \in Nat
  OBVIOUS
<1>5. ASSUME NEW y \in T PROVE x <= y
  <2>1. ~(y < x)
    BY <1>2, <1>3
  <2> QED BY <1>4, <2>1
<1> QED BY <1>5

(* Induction, over a set in place of a predicate.                           *)
LEMMA Induction ==
  ASSUME NEW S, 0 \in S, \A n \in Nat : n \in S => n + 1 \in S
  PROVE  Nat \subseteq S
<1> DEFINE T == Nat \ S
<1> SUFFICES ASSUME T # {} PROVE FALSE
  OBVIOUS
<1>1. PICK x \in T : \A y \in T : x <= y
  BY Least
<1>2. x # 0
  OBVIOUS
<1>3. x - 1 \in Nat /\ x - 1 \notin T
  BY <1>1, <1>2
<1> QED BY <1>3

(* The same for the finite sets: G has the set that its members make by     *)
(* one more element.                                                        *)
LEMMA SetInduction ==
  ASSUME NEW S, IsFiniteSet(S), NEW G,
         \A s \in SUBSET S : (\A x \in s : s \ {x} \in G) => s \in G
  PROVE  SUBSET S \subseteq G
<1> DEFINE Good == {n \in Nat : \A s \in SUBSET S : Cardinality(s) = n => s \in G}
<1>1. \A s \in SUBSET S : IsFiniteSet(s) /\ Cardinality(s) \in Nat
  <2> SUFFICES ASSUME NEW s \in SUBSET S PROVE IsFiniteSet(s) /\ Cardinality(s) \in Nat
    OBVIOUS
  <2>1. IsFiniteSet(s)
    BY FS_Subset
  <2> QED BY <2>1, FS_CardinalityType
<1>2. 0 \in Good
  <2> SUFFICES ASSUME NEW s \in SUBSET S, Cardinality(s) = 0 PROVE s \in G
    OBVIOUS
  <2>1. s = {}
    BY <1>1, FS_EmptySet
  <2> QED BY <2>1
<1>3. ASSUME NEW n \in Nat, n \in Good PROVE n + 1 \in Good
  <2> SUFFICES ASSUME NEW s \in SUBSET S, Cardinality(s) = n + 1 PROVE s \in G
    OBVIOUS
  <2>1. ASSUME NEW x \in s PROVE s \ {x} \in G
    <3>1. IsFiniteSet(s)
      BY <1>1
    <3>2. Cardinality(s \ {x}) = Cardinality(s) - 1
      BY <3>1, FS_RemoveElement
    <3>3. Cardinality(s \ {x}) = n /\ s \ {x} \in SUBSET S
      BY <3>2
    <3> QED BY <1>3, <3>3
  <2> QED BY <2>1
<1> HIDE DEF Good
<1>4. Nat \subseteq Good
  BY <1>2, <1>3, Induction
<1> QED BY <1>1, <1>4 DEF Good

(* g is the recursive function of MapThenSumSet, for the summands f.        *)
Sums(f, S, g) ==
  g = [s \in SUBSET S |->
         IF s = {} THEN 0
         ELSE f[CHOOSE x \in s : TRUE] + g[s \ {CHOOSE x \in s : TRUE}]]

(* What such a function is at each set.                                     *)
LEMMA SumsAt ==
  ASSUME NEW S, NEW f, NEW g, Sums(f, S, g)
  PROVE  /\ g[{}] = 0
         /\ \A s \in SUBSET S : s # {} =>
              \E x \in s : g[s] = f[x] + g[s \ {x}]
<1>1. \A s \in SUBSET S :
        g[s] = IF s = {} THEN 0
               ELSE f[CHOOSE x \in s : TRUE] + g[s \ {CHOOSE x \in s : TRUE}]
  BY DEF Sums
<1>2. {} \in SUBSET S
  OBVIOUS
<1>3. g[{}] = 0
  BY <1>1, <1>2
<1>4. ASSUME NEW s \in SUBSET S, s # {}
      PROVE  \E x \in s : g[s] = f[x] + g[s \ {x}]
  <2> DEFINE x == CHOOSE x \in s : TRUE
  <2>1. x \in s
    BY <1>4
  <2>2. g[s] = f[x] + g[s \ {x}]
    BY <1>1, <1>4
  <2> QED BY <2>1, <2>2
<1> QED BY <1>3, <1>4

(* There is one, and its sums are of the type of the summands.              *)
LEMMA SumsExist ==
  ASSUME NEW S, IsFiniteSet(S), NEW f
  PROVE  \E g : Sums(f, S, g)
<1> DEFINE Small(n) == {s \in SUBSET S : Cardinality(s) <= n}
           Sum(g, s) == IF s = {} THEN 0
                        ELSE f[CHOOSE x \in s : TRUE] + g[s \ {CHOOSE x \in s : TRUE}]
           Good == {n \in Nat : \E g : \A s \in Small(n) : g[s] = Sum(g, s)}
<1>1. \A s \in SUBSET S : /\ IsFiniteSet(s) /\ Cardinality(s) \in Nat
                          /\ Cardinality(s) <= Cardinality(S)
  <2> SUFFICES ASSUME NEW s \in SUBSET S
               PROVE  /\ IsFiniteSet(s) /\ Cardinality(s) \in Nat
                      /\ Cardinality(s) <= Cardinality(S)
    OBVIOUS
  <2>1. IsFiniteSet(s) /\ Cardinality(s) <= Cardinality(S)
    BY FS_Subset
  <2> QED BY <2>1, FS_CardinalityType
<1>2. \A s \in SUBSET S : s # {} =>
        /\ (CHOOSE x \in s : TRUE) \in s
        /\ s \ {CHOOSE x \in s : TRUE} \in SUBSET S
        /\ Cardinality(s \ {CHOOSE x \in s : TRUE}) = Cardinality(s) - 1
  <2> SUFFICES ASSUME NEW s \in SUBSET S, s # {}
               PROVE  /\ (CHOOSE x \in s : TRUE) \in s
                      /\ s \ {CHOOSE x \in s : TRUE} \in SUBSET S
                      /\ Cardinality(s \ {CHOOSE x \in s : TRUE}) = Cardinality(s) - 1
    OBVIOUS
  <2> DEFINE c == CHOOSE x \in s : TRUE
  <2>1. c \in s
    OBVIOUS
  <2>2. IsFiniteSet(s)
    BY <1>1
  <2> HIDE DEF c
  <2>3. Cardinality(s \ {c}) = Cardinality(s) - 1
    BY <2>1, <2>2, FS_RemoveElement
  <2>4. s \ {c} \in SUBSET S
    OBVIOUS
  <2> QED BY <2>1, <2>3, <2>4 DEF c
<1>3. 0 \in Good
  <2> DEFINE g == [s \in SUBSET S |-> 0]
  <2>1. ASSUME NEW s \in Small(0) PROVE g[s] = Sum(g, s)
    <3>1. s = {}
      BY <1>1, FS_EmptySet
    <3> QED BY <3>1
  <2> HIDE DEF g, Small, Sum
  <2> QED BY <2>1
<1>4. ASSUME NEW n \in Nat, n \in Good PROVE n + 1 \in Good
  <2>1. PICK g : \A s \in Small(n) : g[s] = Sum(g, s)
    BY <1>4
  <2> DEFINE h == [s \in SUBSET S |-> Sum(g, s)]
  <2>2. \A s \in Small(n) : h[s] = g[s]
    BY <2>1
  <2>3. ASSUME NEW s \in Small(n + 1), s # {}
        PROVE  h[s \ {CHOOSE x \in s : TRUE}] = g[s \ {CHOOSE x \in s : TRUE}]
    <3>1. s \ {CHOOSE x \in s : TRUE} \in SUBSET S
      BY <1>2, <2>3
    <3>2. Cardinality(s \ {CHOOSE x \in s : TRUE}) = Cardinality(s) - 1
      BY <1>2, <2>3
    <3>3. Cardinality(s) \in Nat /\ Cardinality(s) <= n + 1
      BY <1>1
    <3>4. s \ {CHOOSE x \in s : TRUE} \in Small(n)
      BY <3>1, <3>2, <3>3
    <3> QED BY <2>2, <3>4
  <2>4. ASSUME NEW s \in Small(n + 1) PROVE h[s] = Sum(h, s)
    <3>1. h[s] = Sum(g, s)
      OBVIOUS
    <3>2. CASE s = {}
      BY <3>1, <3>2
    <3>3. CASE s # {}
      <4>1. h[s \ {CHOOSE x \in s : TRUE}] = g[s \ {CHOOSE x \in s : TRUE}]
        BY <2>3, <3>3
      <4> HIDE DEF h
      <4> QED BY <3>1, <3>3, <4>1
    <3> QED BY <3>2, <3>3
  <2> HIDE DEF h, Small, Sum
  <2> QED BY <2>4
<1>5. Cardinality(S) \in Nat
  BY FS_CardinalityType
<1>6. Cardinality(S) \in Good
  <2> HIDE DEF Good
  <2>1. Nat \subseteq Good
    BY <1>3, <1>4, Induction
  <2> QED BY <1>5, <2>1
<1>7. PICK g : \A s \in Small(Cardinality(S)) : g[s] = Sum(g, s)
  BY <1>6
<1> DEFINE h == [s \in SUBSET S |-> g[s]]
<1>8. \A s \in SUBSET S : s \in Small(Cardinality(S))
  BY <1>1
<1>9. ASSUME NEW s \in SUBSET S PROVE h[s] = Sum(h, s)
  <2>1. h[s] = Sum(g, s)
    BY <1>7, <1>8
  <2>2. s # {} => h[s \ {CHOOSE x \in s : TRUE}] = g[s \ {CHOOSE x \in s : TRUE}]
    BY <1>2
  <2> HIDE DEF h
  <2> QED BY <2>1, <2>2
<1>10. h = [s \in SUBSET S |-> h[s]]
  OBVIOUS
<1> HIDE DEF h
<1>11. Sums(f, S, h)
  BY <1>9, <1>10 DEF Sums
<1> QED BY <1>11

(* The sum of natural numbers is one.                                       *)
LEMMA SumsAreNat ==
  ASSUME NEW S, IsFiniteSet(S), NEW f \in [S -> Nat], NEW g, Sums(f, S, g)
  PROVE  \A s \in SUBSET S : g[s] \in Nat
<1> DEFINE G == {s \in SUBSET S : g[s] \in Nat}
<1>1. ASSUME NEW s \in SUBSET S, \A x \in s : s \ {x} \in G PROVE s \in G
  <2>1. CASE s = {}
    BY <2>1, SumsAt
  <2>2. CASE s # {}
    <3>1. PICK x \in s : g[s] = f[x] + g[s \ {x}]
      BY <2>2, SumsAt
    <3>2. f[x] \in Nat /\ g[s \ {x}] \in Nat
      BY <1>1
    <3> QED BY <3>1, <3>2
  <2> QED BY <2>1, <2>2
<1> HIDE DEF G
<1>2. SUBSET S \subseteq G
  BY <1>1, SetInduction
<1> QED BY <1>2 DEF G

----------------------------------------------------------------------------
(* The look-up                                                              *)

(* An element of a sequence is one of the set it is a sequence of.         *)
LEMMA ElementType ==
  ASSUME NEW T, NEW s \in Seq(T), NEW i \in 1 .. Len(s) PROVE s[i] \in T
OBVIOUS

(* Whatever a part begins with, parseInt and the code behind it make a      *)
(* natural number of it; and each part has its place.                      *)
LEMMA PartTypes ==
  ASSUME NEW v \in Versions, NEW i
  PROVE  Number(v, i) \in Nat /\ Place(v, i) \in Int
<1>1. CASE i \in DOMAIN v
  <2>1. v[i] \in [lead : Nat \cup {None}, place : Int]
    <3>1. i \in 1 .. Len(v)
      BY <1>1 DEF Versions
    <3> QED BY <3>1, ElementType DEF Versions
  <2>2. v[i].lead \in Nat \cup {None} /\ v[i].place \in Int
    BY <2>1
  <2>3. Place(v, i) \in Int
    BY <1>1, <2>2 DEF Place
  <2>4. Number(v, i) \in Nat
    BY <1>1, <2>2 DEF Number
  <2> QED BY <2>3, <2>4
<1>2. CASE i \notin DOMAIN v
  BY <1>2 DEF Number, Place
<1> QED BY <1>1, <1>2

(* The parts are numbered from 1.                                          *)
LEMMA PartNumbers == ASSUME NEW v \in Versions, NEW i \in DOMAIN v PROVE i \in Nat \ {0}
BY DEF Versions

(* No version is both older and newer than another: the first part that    *)
(* differs decides.                                                        *)
LEMMA OlderAsymmetric ==
  ASSUME NEW a \in Versions, NEW b \in Versions, Older(a, b)
  PROVE  ~Older(b, a)
<1> SUFFICES ASSUME Older(b, a) PROVE FALSE
  OBVIOUS
<1>1. PICK i \in DOMAIN a \cup DOMAIN b :
        Place(a, i) < Place(b, i) /\ \A j \in 1 .. i - 1 : Place(a, j) = Place(b, j)
  BY DEF Older
<1>2. PICK k \in DOMAIN b \cup DOMAIN a :
        Place(b, k) < Place(a, k) /\ \A j \in 1 .. k - 1 : Place(b, j) = Place(a, j)
  BY DEF Older
<1>3. i \in Nat \ {0} /\ k \in Nat \ {0}
  BY PartNumbers
<1>4. /\ Place(a, i) \in Int /\ Place(b, i) \in Int
      /\ Place(a, k) \in Int /\ Place(b, k) \in Int
  BY PartTypes
<1>5. ~(i < k)
  <2> SUFFICES ASSUME i < k PROVE FALSE
    OBVIOUS
  <2>1. i \in 1 .. k - 1
    BY <1>3
  <2> QED BY <2>1, <1>1, <1>2, <1>4
<1>6. ~(k < i)
  <2> SUFFICES ASSUME k < i PROVE FALSE
    OBVIOUS
  <2>1. k \in 1 .. i - 1
    BY <1>3
  <2> QED BY <2>1, <1>1, <1>2, <1>4
<1>7. i = k
  BY <1>3, <1>5, <1>6
<1> QED BY <1>1, <1>2, <1>4, <1>7

(* Two versions that read true of one another, read so the other way too.  *)
LEMMA ReadsTrueBothWays ==
  ASSUME NEW a, NEW b, ReadsTrue(a, b) PROVE ReadsTrue(b, a)
BY Zenon DEF ReadsTrue

(* Up to the part that decides, by the numbers or by the publisher, the    *)
(* numbers stand as the parts do: so less by the numbers is older.         *)
LEMMA LessIsOlder ==
  ASSUME NEW a \in Versions, NEW b \in Versions, ReadsTrue(a, b)
  PROVE  Less(a, b) <=> Older(a, b)
<1>1. ASSUME NEW i \in DOMAIN a \cup DOMAIN b,
             \/ \A j \in 1 .. i - 1 : Number(a, j) = Number(b, j)
             \/ \A j \in 1 .. i - 1 : Place(a, j) = Place(b, j)
      PROVE  /\ Number(a, i) < Number(b, i) <=> Place(a, i) < Place(b, i)
             /\ Number(b, i) < Number(a, i) <=> Place(b, i) < Place(a, i)
  BY <1>1 DEF ReadsTrue
<1>2. ASSUME NEW i \in DOMAIN a \cup DOMAIN b, NEW j \in 1 .. i - 1,
             \/ \A k \in 1 .. i - 1 : Number(a, k) = Number(b, k)
             \/ \A k \in 1 .. i - 1 : Place(a, k) = Place(b, k)
      PROVE  Number(a, j) = Number(b, j) /\ Place(a, j) = Place(b, j)
  <2>1. i \in Nat \ {0} /\ j \in Nat \ {0} /\ j < i
    BY PartNumbers
  <2>2. \A k \in 1 .. j - 1 : k \in 1 .. i - 1
    BY <2>1
  <2>3. /\ Number(a, j) \in Nat /\ Number(b, j) \in Nat
        /\ Place(a, j) \in Int /\ Place(b, j) \in Int
    BY PartTypes
  <2>4. CASE j \in DOMAIN a \cup DOMAIN b
    <3>1. /\ Number(a, j) < Number(b, j) <=> Place(a, j) < Place(b, j)
          /\ Number(b, j) < Number(a, j) <=> Place(b, j) < Place(a, j)
      BY <1>1, <1>2, <2>2, <2>4
    <3>2. Number(a, j) = Number(b, j) \/ Place(a, j) = Place(b, j)
      BY <1>2
    <3> QED BY <2>3, <3>1, <3>2
  <2>5. CASE j \notin DOMAIN a \cup DOMAIN b
    BY <2>5 DEF Number, Place
  <2> QED BY <2>4, <2>5
<1>3. ASSUME Less(a, b) PROVE Older(a, b)
  <2>1. PICK i \in DOMAIN a \cup DOMAIN b :
          Number(a, i) < Number(b, i) /\ \A j \in 1 .. i - 1 : Number(a, j) = Number(b, j)
    BY <1>3 DEF Less
  <2>2. Place(a, i) < Place(b, i) /\ \A j \in 1 .. i - 1 : Place(a, j) = Place(b, j)
    BY <1>1, <1>2, <2>1
  <2> QED BY <2>2 DEF Older
<1>4. ASSUME Older(a, b) PROVE Less(a, b)
  <2>1. PICK i \in DOMAIN a \cup DOMAIN b :
          Place(a, i) < Place(b, i) /\ \A j \in 1 .. i - 1 : Place(a, j) = Place(b, j)
    BY <1>4 DEF Older
  <2>2. Number(a, i) < Number(b, i) /\ \A j \in 1 .. i - 1 : Number(a, j) = Number(b, j)
    BY <1>1, <1>2, <2>1
  <2> QED BY <2>2 DEF Less
<1> QED BY <1>3, <1>4

(* compareVersions tells two versions apart as their publisher does, if    *)
(* the numbers it reads of them stand to one another as their parts do:    *)
(* with letters, suffixes and words in the parts too, but not if they are  *)
(* what decides.                                                           *)
THEOREM CompareTellsTheOrder ==
  ASSUME NEW a \in Versions, NEW b \in Versions, ReadsTrue(a, b)
  PROVE  /\ CompareVersions(a, b) < 0 <=> Older(a, b)
         /\ CompareVersions(a, b) > 0 <=> Older(b, a)
<1>1. (Less(a, b) <=> Older(a, b)) /\ (Less(b, a) <=> Older(b, a))
  BY LessIsOlder, ReadsTrueBothWays
<1>2. ~(Older(a, b) /\ Older(b, a))
  BY OlderAsymmetric
<1> QED BY <1>1, <1>2 DEF CompareVersions

(* A row that matches is warranted by the record it was extracted from:    *)
(* the version lies in the published range, closed or open, if it reads    *)
(* true of the range's bounds.                                             *)
THEOREM MatchIsSound ==
  ASSUME NEW cve, NEW entry, NEW v \in Versions, NEW ver \in Ranges, Legible(v, ver),
         VersionMatchesCpe(v, VersionRow(cve, entry, ver))
  PROVE  InRange(v, ver)
<1> DEFINE row == VersionRow(cve, entry, ver)
<1>1. ASSUME NEW bound \in {ver.version, ver.lessThan, ver.upTo}, bound # None
      PROVE  /\ bound \in Versions
             /\ CompareVersions(v, bound) < 0 <=> Older(v, bound)
             /\ CompareVersions(v, bound) > 0 <=> Older(bound, v)
             /\ CompareVersions(v, bound) \in {-1, 0, 1}
  <2>1. bound \in Versions
    BY <1>1 DEF Ranges
  <2>2. ReadsTrue(v, bound)
    BY <1>1 DEF Legible
  <2> QED BY <2>1, <2>2, CompareTellsTheOrder DEF CompareVersions
<1>2. CASE ver.lessThan # None
  <2>1. row.exact = None /\ row.start = ver.version /\ row.end = ver.lessThan
    BY <1>2 DEF VersionRow, CpeRow
  <2>2. /\ ver.version # None => CompareVersions(v, ver.version) >= 0
        /\ CompareVersions(v, ver.lessThan) < 0
    BY <1>2, <2>1 DEF VersionMatchesCpe
  <2>3. ver.version # None => ~Older(v, ver.version)
    BY <1>1, <2>2
  <2>4. Older(v, ver.lessThan)
    BY <1>1, <1>2, <2>2
  <2> QED BY <1>2, <2>3, <2>4 DEF InRange
<1>3. CASE ver.lessThan = None /\ ver.upTo # None
  <2>1. row.exact = None /\ row.start = ver.version /\ row.end = ver.upTo
    BY <1>3 DEF VersionRow, CpeRow
  <2>2. /\ ver.version # None => CompareVersions(v, ver.version) >= 0
        /\ CompareVersions(v, ver.upTo) < 0
    BY <1>3, <2>1 DEF VersionMatchesCpe
  <2>3. ver.version # None => ~Older(v, ver.version)
    BY <1>1, <2>2
  <2>4. Older(v, ver.upTo) /\ ver.upTo \in Versions
    BY <1>1, <1>3, <2>2
  <2>5. ~Older(ver.upTo, v)
    BY <2>4, OlderAsymmetric
  <2> QED BY <1>3, <2>3, <2>5 DEF InRange
<1>4. CASE ver.lessThan = None /\ ver.upTo = None
  <2>1. row.exact = ver.version
    BY <1>4 DEF VersionRow, CpeRow
  <2>2. ver.version # None => CompareVersions(v, ver.version) = 0
    BY <2>1 DEF VersionMatchesCpe
  <2>3. ver.version # None => ~Older(v, ver.version) /\ ~Older(ver.version, v)
    BY <1>1, <2>2
  <2> QED BY <1>4, <2>3 DEF InRange
<1> QED BY <1>2, <1>3, <1>4

(* Every version of the published range matches if it reads true of the    *)
(* range's bounds, but for the last one of a closed range, which is stored *)
(* as if it were the first that is not affected (nvd.ts:199).              *)
THEOREM MatchMissesOnlyTheLast ==
  ASSUME NEW cve, NEW entry, NEW v \in Versions, NEW ver \in Ranges, Legible(v, ver),
         InRange(v, ver), ~IsLast(v, ver)
  PROVE  VersionMatchesCpe(v, VersionRow(cve, entry, ver))
<1> DEFINE row == VersionRow(cve, entry, ver)
<1>1. ASSUME NEW bound \in {ver.version, ver.lessThan, ver.upTo}, bound # None
      PROVE  /\ CompareVersions(v, bound) < 0 <=> Older(v, bound)
             /\ CompareVersions(v, bound) > 0 <=> Older(bound, v)
             /\ CompareVersions(v, bound) \in {-1, 0, 1}
  <2>1. bound \in Versions
    BY <1>1 DEF Ranges
  <2>2. ReadsTrue(v, bound)
    BY <1>1 DEF Legible
  <2> QED BY <2>1, <2>2, CompareTellsTheOrder DEF CompareVersions
<1>2. CASE ver.lessThan # None
  <2>1. row.exact = None /\ row.start = ver.version /\ row.end = ver.lessThan
    BY <1>2 DEF VersionRow, CpeRow
  <2>2. (ver.version # None => ~Older(v, ver.version)) /\ Older(v, ver.lessThan)
    BY <1>2 DEF InRange
  <2>3. ver.version # None => CompareVersions(v, ver.version) >= 0
    BY <1>1, <2>2
  <2>4. CompareVersions(v, ver.lessThan) < 0
    BY <1>1, <1>2, <2>2
  <2> QED BY <2>1, <2>3, <2>4 DEF VersionMatchesCpe
<1>3. CASE ver.lessThan = None /\ ver.upTo # None
  <2>1. row.exact = None /\ row.start = ver.version /\ row.end = ver.upTo
    BY <1>3 DEF VersionRow, CpeRow
  <2>2. (ver.version # None => ~Older(v, ver.version)) /\ Older(v, ver.upTo)
    BY <1>3 DEF InRange, IsLast
  <2>3. ver.version # None => CompareVersions(v, ver.version) >= 0
    BY <1>1, <2>2
  <2>4. CompareVersions(v, ver.upTo) < 0
    BY <1>1, <1>3, <2>2
  <2> QED BY <2>1, <2>3, <2>4 DEF VersionMatchesCpe
<1>4. CASE ver.lessThan = None /\ ver.upTo = None
  <2>1. row.exact = ver.version /\ (ver.version = None => row.start = None /\ row.end = None)
    BY <1>4 DEF VersionRow, CpeRow
  <2>2. ver.version # None => ~Older(v, ver.version) /\ ~Older(ver.version, v)
    BY <1>4 DEF InRange
  <2>3. ver.version # None => CompareVersions(v, ver.version) = 0
    BY <1>1, <2>2
  <2> QED BY <2>1, <2>3 DEF VersionMatchesCpe
<1> QED BY <1>2, <1>3, <1>4

(* A CVE that is answered for a product and a version has a row that names *)
(* the product and, if a version was given, covers it.                     *)
LEMMA LookupHasRow ==
  ASSUME NEW matches, NEW vendor, NEW product, NEW version, NEW cve,
         cve \in CpeLookup(matches, vendor, product, version)
  PROVE  \E m \in matches :
           /\ m.cve = cve /\ m.product = product
           /\ version = None \/ VersionMatchesCpe(version, m)
<1>1. PICK m \in LookupCpeMatch(matches, vendor, product) :
        m.cve = cve /\ (version = None \/ VersionMatchesCpe(version, m))
  BY DEF CpeLookup
<1>2. m \in matches /\ m.product = product
  BY DEF LookupCpeMatch
<1> QED BY <1>1, <1>2

(* A row of a record is one of an entry of it: without versions, or with   *)
(* one that is not called unaffected.                                      *)
LEMMA RowHasEntry ==
  ASSUME NEW cve, NEW record, NEW m \in ExtractCpeMatches(cve, record)
  PROVE  \E e \in record.affected :
           /\ m.cve = cve /\ m.product = ProductKey[e.product]
           /\ \/ e.versions = {}
              \/ \E ver \in e.versions :
                   ver.status # "unaffected" /\ m = VersionRow(cve, e, ver)
<1>1. PICK e \in record.affected : m \in EntryRows(cve, e)
  BY DEF ExtractCpeMatches
<1>2. m.cve = cve /\ m.product = ProductKey[e.product]
  BY <1>1 DEF EntryRows, VersionRow, CpeRow
<1>3. \/ e.versions = {}
      \/ \E ver \in e.versions : ver.status # "unaffected" /\ m = VersionRow(cve, e, ver)
  BY <1>1 DEF EntryRows
<1> QED BY <1>2, <1>3

(* The grade of a list with an exploited CVE is D or F, whatever the CVEs  *)
(* add up to.                                                              *)
THEOREM ExploitedGrade ==
  ASSUME NEW total \in Nat
  PROVE  Grade(RiskPct(total, TRUE)) \in {"D", "F"}
<1> DEFINE pct == RiskPct(total, TRUE)
<1>1. pct \in Int /\ pct >= 50
  BY DEF RiskPct, RISK_CEILING
<1> HIDE DEF pct
<1>2. Grade(pct) \in {"D", "F"}
  BY <1>1 DEF Grade
<1> QED BY <1>2 DEF pct

----------------------------------------------------------------------------
(* The score                                                                *)

(* Each kind of finding is counted by a natural number.                    *)
LEMMA CountsAreNat ==
  ASSUME NEW f \in Findings
  PROVE  /\ f.root \in BOOLEAN /\ f.unsigned \in BOOLEAN
         /\ f.n["miners"] \in Nat /\ f.n["backdoors"] \in Nat /\ f.n["beacons"] \in Nat
         /\ f.n["forgedKeys"] \in Nat /\ f.n["unofficial"] \in Nat
         /\ f.n["symlinks"] \in Nat /\ f.n["trojans"] \in Nat /\ f.n["setuid"] \in Nat
         /\ f.n["secrets"] \in Nat /\ f.n["cisFails"] \in Nat /\ f.n["cisWarns"] \in Nat
         /\ f.n["sensitive"] \in Nat /\ f.n["leaks"] \in Nat /\ f.n["gitDirs"] \in Nat
         /\ f.n["capBinaries"] \in Nat /\ f.n["keyCerts"] \in Nat
BY DEF Findings, Kinds

(* A sum of natural numbers is cut off at the cap.                         *)
LEMMA Capped ==
  ASSUME NEW cap \in Nat, NEW a \in Nat, NEW b \in Nat, NEW c \in Nat
  PROVE  UpTo(cap, a + b + c) \in 0 .. cap
BY DEF UpTo
(* The same for five of them.                                              *)
LEMMA CappedFive ==
  ASSUME NEW cap \in Nat, NEW a \in Nat, NEW b \in Nat, NEW c \in Nat, NEW d \in Nat,
         NEW e \in Nat
  PROVE  UpTo(cap, a + b + c + d + e) \in 0 .. cap
BY DEF UpTo

(* Each sub-score lies between 0 and its cap, however much is found.       *)
LEMMA SubScoreRanges ==
  ASSUME NEW f \in Findings
  PROVE  /\ ConfigSubScore(f) \in 0 .. 20 /\ SupplySubScore(f) \in 0 .. 20
         /\ MaliciousSubScore(f) \in 0 .. 30 /\ HygieneSubScore(f) \in 0 .. 15
         /\ StructuralSubScore(f) \in 0 .. 30 /\ SecretsSubScore(f) \in 0 .. 25
<1>1. ConfigSubScore(f) \in 0 .. 20
  <2>1. /\ 20 \in Nat
        /\ If(f.root, 8) \in Nat /\ UpTo(12, 4 * f.n["cisFails"]) \in Nat
        /\ UpTo(6, 2 * f.n["cisWarns"]) \in Nat
    BY CountsAreNat DEF UpTo, If
  <2> QED BY <2>1, Capped DEF ConfigSubScore
<1>2. SupplySubScore(f) \in 0 .. 20
  <2>1. /\ 20 \in Nat
        /\ UpTo(15, 12 * f.n["forgedKeys"]) \in Nat
        /\ UpTo(10, 6 * f.n["unofficial"]) \in Nat
        /\ If(f.unsigned, 5) \in Nat
    BY CountsAreNat DEF UpTo, If
  <2> QED BY <2>1, Capped DEF SupplySubScore
<1>3. MaliciousSubScore(f) \in 0 .. 30
  <2>1. /\ 30 \in Nat
        /\ If(f.n["miners"] > 0, 25) \in Nat /\ If(f.n["backdoors"] > 0, 30) \in Nat
        /\ If(f.n["beacons"] > 0, 20) \in Nat
    BY CountsAreNat DEF UpTo, If
  <2> QED BY <2>1, Capped DEF MaliciousSubScore
<1>4. HygieneSubScore(f) \in 0 .. 15
  <2>1. /\ 15 \in Nat
        /\ UpTo(8, 3 * f.n["sensitive"]) \in Nat /\ UpTo(4, 2 * f.n["leaks"]) \in Nat
        /\ If(f.n["gitDirs"] > 0, 2) \in Nat /\ UpTo(4, f.n["capBinaries"]) \in Nat
        /\ UpTo(6, 3 * f.n["keyCerts"]) \in Nat
    BY CountsAreNat DEF UpTo, If
  <2> QED BY <2>1, CappedFive DEF HygieneSubScore
<1>5. StructuralSubScore(f) \in 0 .. 30
  <2>1. /\ 30 \in Nat
        /\ UpTo(25, 15 + 5 * f.n["symlinks"]) \in Nat
        /\ UpTo(25, 12 * f.n["trojans"]) \in Nat /\ UpTo(8, 4 * f.n["setuid"]) \in Nat
    BY CountsAreNat DEF UpTo, If
  <2>2. If(f.n["symlinks"] > 0, UpTo(25, 15 + 5 * f.n["symlinks"])) \in Nat
    BY <2>1 DEF If
  <2> QED BY <2>1, <2>2, Capped DEF StructuralSubScore
<1>6. SecretsSubScore(f) \in 0 .. 25
  BY CountsAreNat DEF SecretsSubScore, UpTo
<1> QED BY <1>1, <1>2, <1>3, <1>4, <1>5, <1>6

(* The bonus is 0 to 10, and grows with the vulnerability points.          *)
LEMMA BonusGrows ==
  ASSUME NEW f \in Findings, NEW p \in Nat, NEW q \in Nat, p <= q
  PROVE  /\ SynergyBonus(p, f) \in 0 .. 10
         /\ SynergyBonus(p, f) <= SynergyBonus(q, f)
BY SubScoreRanges DEF SynergyBonus, SubScores, UpTo, If

(* The sum is a natural number, and grows with the vulnerability points.   *)
LEMMA SumGrows ==
  ASSUME NEW f \in Findings, NEW p \in Nat, NEW q \in Nat, p <= q
  PROVE  Summed(p, f) \in Nat /\ Summed(p, f) <= Summed(q, f)
<1> DEFINE Points(x) == (2 * x + FullScale) \div (2 * FullScale)
<1>1. Points(p) \in Nat /\ Points(q) \in Nat /\ Points(p) <= Points(q)
  BY DEF FullScale
<1>2. /\ SynergyBonus(p, f) \in 0 .. 10 /\ SynergyBonus(q, f) \in 0 .. 10
      /\ SynergyBonus(p, f) <= SynergyBonus(q, f)
  BY BonusGrows
<1>3. \A x : Summed(x, f) =
        Points(x) + ConfigSubScore(f) + SupplySubScore(f) + MaliciousSubScore(f)
        + HygieneSubScore(f) + StructuralSubScore(f) + SecretsSubScore(f)
        + SynergyBonus(x, f)
  BY DEF Summed, SubScores
<1>4. /\ ConfigSubScore(f) \in Nat /\ SupplySubScore(f) \in Nat
      /\ MaliciousSubScore(f) \in Nat /\ HygieneSubScore(f) \in Nat
      /\ StructuralSubScore(f) \in Nat /\ SecretsSubScore(f) \in Nat
  BY SubScoreRanges
<1>5. Summed(p, f) =
        Points(p) + ConfigSubScore(f) + SupplySubScore(f) + MaliciousSubScore(f)
        + HygieneSubScore(f) + StructuralSubScore(f) + SecretsSubScore(f)
        + SynergyBonus(p, f)
  BY <1>3
<1>6. Summed(q, f) =
        Points(q) + ConfigSubScore(f) + SupplySubScore(f) + MaliciousSubScore(f)
        + HygieneSubScore(f) + StructuralSubScore(f) + SecretsSubScore(f)
        + SynergyBonus(q, f)
  BY <1>3
<1> HIDE DEF Points
<1> QED BY <1>1, <1>2, <1>4, <1>5, <1>6

(* What was found demands at most 90 points.                               *)
LEMMA FloorRange ==
  ASSUME NEW v, NEW f PROVE FloorOf(v, f) \in {90, 85, 80, 70, 40, 0}
BY DEF FloorOf

(* The score is one of 0 to 100, and never below what was found demands,   *)
(* for any findings, CVE counts and vulnerability points: the clamp comes  *)
(* after the floor and does not undo it.                                   *)
THEOREM ScoreMeetsFloor ==
  ASSUME NEW points \in Nat, NEW v \in Counted, NEW f \in Findings
  PROVE  /\ ScoreOf(points, v, f) \in 0 .. 100
         /\ ScoreOf(points, v, f) >= FloorOf(v, f)
<1>1. Summed(points, f) \in Nat
  BY SumGrows
<1>2. Combined(points, f) \in 0 .. 100
  BY <1>1 DEF Combined, UpTo
<1>3. FloorOf(v, f) \in 0 .. 90
  BY FloorRange
<1> QED BY <1>2, <1>3 DEF ScoreOf, UpTo, Floor

(* "A container with a CRITICAL vuln is at minimum HIGH": a critical or an *)
(* exploited CVE makes the level high or critical, a high one at least     *)
(* medium, whatever else is found or not found.                            *)
THEOREM WorstCveSetsLevel ==
  ASSUME NEW points \in Nat, NEW v \in Counted, NEW f \in Findings
  PROVE  LET level == ContainerLevel(ScoreOf(points, v, f)) IN
         /\ v.critical > 0 \/ v.kev => level \in {"high", "critical"}
         /\ v.high > 0 => level \in {"medium", "high", "critical"}
<1> DEFINE s == ScoreOf(points, v, f)
<1>1. s \in 0 .. 100 /\ s >= FloorOf(v, f)
  BY ScoreMeetsFloor
<1>2. v.critical > 0 \/ v.kev => FloorOf(v, f) >= 70
  BY DEF FloorOf
<1>3. v.high > 0 => FloorOf(v, f) >= 40
  BY DEF FloorOf
<1>4. FloorOf(v, f) \in Int
  BY FloorRange
<1> HIDE DEF s
<1>5. v.critical > 0 \/ v.kev => ContainerLevel(s) \in {"high", "critical"}
  BY <1>1, <1>2, <1>4 DEF ContainerLevel
<1>6. v.high > 0 => ContainerLevel(s) \in {"medium", "high", "critical"}
  BY <1>1, <1>3, <1>4 DEF ContainerLevel
<1> QED BY <1>5, <1>6 DEF s

(* Finding more CVEs never lowers the score: more vulnerability points and *)
(* at least as many critical, high and exploited ones.                     *)
THEOREM MoreIsNotLess ==
  ASSUME NEW f \in Findings, NEW p \in Nat, NEW q \in Nat, p <= q,
         NEW v \in Counted, NEW w \in Counted,
         v.critical <= w.critical, v.high <= w.high, v.kev => w.kev
  PROVE  ScoreOf(p, v, f) <= ScoreOf(q, w, f)
<1>1. Summed(p, f) \in Nat /\ Summed(q, f) \in Nat /\ Summed(p, f) <= Summed(q, f)
  BY SumGrows
<1>2. /\ v.critical \in Nat /\ w.critical \in Nat /\ v.high \in Nat /\ w.high \in Nat
      /\ v.kev \in BOOLEAN /\ w.kev \in BOOLEAN
  BY DEF Counted
<1>3. FloorOf(v, f) <= FloorOf(w, f)
  BY <1>2 DEF FloorOf
<1>4. FloorOf(v, f) \in 0 .. 90 /\ FloorOf(w, f) \in 0 .. 90
  BY FloorRange
<1> QED BY <1>1, <1>3, <1>4 DEF ScoreOf, Combined, UpTo, Floor
----------------------------------------------------------------------------
(* What the CVEs add up to                                                  *)

(* A product of natural numbers divided by a positive one.                 *)
LEMMA QuotientIsNat ==
  ASSUME NEW w \in Nat, NEW c \in Nat, NEW d \in Nat \ {0}
  PROVE  (w * c * c * 100) \div d \in Nat
<1>1. w * c \in Nat
  OBVIOUS
<1>2. w * c * c \in Nat
  BY <1>1
<1> DEFINE n == w * c * c
<1>3. n * 100 \in Nat
  BY <1>2
<1> HIDE DEF n
<1>4. (n * 100) \div d \in Nat
  BY <1>3
<1> QED BY <1>4 DEF n

(* Each CVE of the list is worth some points.                              *)
LEMMA PointsAreNat ==
  ASSUME NEW v \in Counted, NEW i \in 1 .. Total(v)
  PROVE  PerCvePoints(v, i) \in Nat
<1>1. /\ v.critical \in Nat /\ v.high \in Nat /\ v.medium \in Nat /\ v.low \in Nat
      /\ v.kev \in BOOLEAN /\ v.cvss \in Nat /\ v.epss \in Nat
  BY DEF Counted
<1>2. Total(v) \in Nat
  BY <1>1 DEF Total
<1>3. i \in Nat /\ 100 + 8 * (i - 1) \in Nat \ {0}
  BY <1>2
<1>4. Weight(v, i) \in Nat
  BY DEF Weight
<1>5. Cvss(v, i) \in Nat
  BY <1>1 DEF Cvss, Floor
<1>6. (Weight(v, i) * Cvss(v, i) * Cvss(v, i) * 100) \div (100 + 8 * (i - 1)) \in Nat
  BY <1>3, <1>4, <1>5, QuotientIsNat
<1> QED BY <1>6 DEF PerCvePoints

(* What the list is worth is such a sum.                                   *)
LEMMA VulnPointsSum ==
  ASSUME NEW v \in Counted
  PROVE  \E F : /\ Sums([i \in 1 .. Total(v) |-> PerCvePoints(v, i)], 1 .. Total(v), F)
                /\ VulnSubScore(v) = UpTo(VulnCap, F[1 .. Total(v)])
<1> DEFINE S == 1 .. Total(v)
           f == [i \in S |-> PerCvePoints(v, i)]
           Iter(g) == g = [s \in SUBSET S |->
                            IF s = {} THEN 0
                            ELSE PerCvePoints(v, CHOOSE x \in s : TRUE)
                                 + g[s \ {CHOOSE x \in s : TRUE}]]
           F == CHOOSE g : Iter(g)
<1>1. IsFiniteSet(S)
  <2>1. Total(v) \in Nat
    BY DEF Total, Counted
  <2> QED BY <2>1, FS_Interval
<1>2. f \in [S -> Nat]
  BY PointsAreNat
<1>3. ASSUME NEW g, Sums(f, S, g) PROVE Iter(g)
  <2>1. \A s \in SUBSET S : s # {} =>
          f[CHOOSE x \in s : TRUE] = PerCvePoints(v, CHOOSE x \in s : TRUE)
    <3> SUFFICES ASSUME NEW s \in SUBSET S, s # {}
                 PROVE  f[CHOOSE x \in s : TRUE] = PerCvePoints(v, CHOOSE x \in s : TRUE)
      OBVIOUS
    <3>1. (CHOOSE x \in s : TRUE) \in S
      OBVIOUS
    <3> QED BY <3>1
  <2> HIDE DEF f, S
  <2> QED BY <1>3, <2>1 DEF Sums
<1>4. ASSUME NEW g, Iter(g) PROVE Sums(f, S, g)
  <2>1. \A s \in SUBSET S : s # {} =>
          f[CHOOSE x \in s : TRUE] = PerCvePoints(v, CHOOSE x \in s : TRUE)
    <3> SUFFICES ASSUME NEW s \in SUBSET S, s # {}
                 PROVE  f[CHOOSE x \in s : TRUE] = PerCvePoints(v, CHOOSE x \in s : TRUE)
      OBVIOUS
    <3>1. (CHOOSE x \in s : TRUE) \in S
      OBVIOUS
    <3> QED BY <3>1
  <2> HIDE DEF f, S
  <2> QED BY <1>4, <2>1 DEF Sums
<1> HIDE DEF f
<1>5. Iter(F)
  <2> HIDE DEF Iter, S
  <2>1. \E g : Iter(g)
    BY <1>1, <1>3, SumsExist
  <2> QED BY <2>1
<1>6. Sums(f, S, F)
  <2> HIDE DEF F, Iter
  <2> QED BY <1>4, <1>5
<1>7. VulnSubScore(v) = UpTo(VulnCap, F[S])
  BY DEF VulnSubScore, MapThenSumSet, MapThenFoldSet
<1> HIDE DEF F
<1> QED BY <1>6, <1>7 DEF f

(* So it is worth some points, at most the cap.                            *)
LEMMA VulnPointsAreNat ==
  ASSUME NEW v \in Counted
  PROVE  VulnSubScore(v) \in 0 .. VulnCap
<1> DEFINE f == [i \in 1 .. Total(v) |-> PerCvePoints(v, i)]
<1>1. PICK F : Sums(f, 1 .. Total(v), F) /\ VulnSubScore(v) = UpTo(VulnCap, F[1 .. Total(v)])
  BY VulnPointsSum
<1>2. f \in [1 .. Total(v) -> Nat]
  BY PointsAreNat
<1> HIDE DEF f
<1>3. IsFiniteSet(1 .. Total(v))
  <2>1. Total(v) \in Nat
    BY DEF Total, Counted
  <2> QED BY <2>1, FS_Interval
<1>4. F[1 .. Total(v)] \in Nat
  <2>1. \A s \in SUBSET (1 .. Total(v)) : F[s] \in Nat
    BY <1>1, <1>2, <1>3, SumsAreNat
  <2> QED BY <2>1
<1>5. VulnCap \in Nat
  BY DEF VulnCap, FullScale
<1> QED BY <1>1, <1>4, <1>5 DEF UpTo

----------------------------------------------------------------------------
(* A scan                                                                   *)

(* The answer about a package of the image is warranted by the records.    *)
Warranted(p, c) ==
  /\ \E list \in {image.packages, image.osPackages} : \E i \in DOMAIN list : list[i] = p
  /\ Accuses(c, p)

(* The inductive invariant: the rows, and what the look-ups start from.    *)
WInv ==
  /\ image \in Images
  /\ next \in Nat \ {0}
  /\ matched \subseteq Cves
  /\ \A x \in DOMAIN rows : Warranted(x[1], x[2])

(* What is looked up is one of the two lists of the image.                 *)
LEMMA PackagesType ==
  ASSUME image \in Images
  PROVE  /\ Packages \in Seq(Package) /\ Len(Packages) \in Nat
         /\ Packages \in {image.packages, image.osPackages, <<>>}
         /\ UpTo(PackageLimit, Len(Packages)) \in 0 .. Len(Packages)
<1>1. image.packages \in Seq(Package) /\ image.osPackages \in Seq(Package)
  BY ScanAssumption
<1>2. Packages \in {image.packages, image.osPackages, <<>>}
  BY DEF Packages
<1>3. Packages \in Seq(Package)
  <2>1. \A T : <<>> \in Seq(T)
    OBVIOUS
  <2> QED BY <1>1, <1>2, <2>1
<1>4. Len(Packages) \in Nat
  BY <1>3
<1> QED BY <1>2, <1>3, <1>4, ScanAssumption DEF UpTo

LEMMA NextPackage ==
  ASSUME image \in Images, next \in Nat \ {0}, LookingUp
  PROVE  /\ \E list \in {image.packages, image.osPackages} :
              next \in DOMAIN list /\ list[next] = Packages[next]
         /\ Packages[next].name \in STRING
         /\ Packages[next].version \in Versions \cup {None}
<1>1. /\ Packages \in Seq(Package) /\ Len(Packages) \in Nat
      /\ Packages \in {image.packages, image.osPackages, <<>>}
      /\ UpTo(PackageLimit, Len(Packages)) \in 0 .. Len(Packages)
  BY PackagesType
<1>2. next \in 1 .. Len(Packages)
  BY <1>1 DEF LookingUp
<1>3. Packages # <<>> /\ next \in DOMAIN Packages
  BY <1>1, <1>2
<1>4. Packages[next] \in Package
  BY <1>1, <1>2, ElementType
<1> QED BY <1>1, <1>3, <1>4 DEF Package

(* Each CVE that is answered about the next package is warranted.          *)
LEMMA AnswerIsWarranted ==
  ASSUME WInv, LookingUp, NEW c \in Answer(Packages[next])
  PROVE  Warranted(Packages[next], c)
<1> DEFINE p == Packages[next]
<1>1. /\ \E list \in {image.packages, image.osPackages} :
           next \in DOMAIN list /\ list[next] = p
      /\ p.version \in Versions \cup {None}
  BY NextPackage DEF WInv
<1>2. PICK m \in Matches :
        m.cve = c /\ m.product = p.name
        /\ (p.version = None \/ VersionMatchesCpe(p.version, m))
  BY LookupHasRow DEF Answer
<1>3. PICK d \in matched : m \in ExtractCpeMatches(d, Records[d])
  BY <1>2 DEF Matches
<1>4. PICK e \in Records[d].affected :
        /\ m.cve = d /\ m.product = ProductKey[e.product]
        /\ \/ e.versions = {}
           \/ \E ver \in e.versions : ver.status # "unaffected" /\ m = VersionRow(d, e, ver)
  BY <1>3, RowHasEntry
<1>5. d = c
  BY <1>2, <1>4
<1>6. ASSUME NEW ver \in e.versions, ver.status # "unaffected", m = VersionRow(d, e, ver)
      PROVE  \/ Covers(p.version, ver)
             \/ p.version # None /\ ~Legible(p.version, ver)
  <2>1. ver \in Ranges
    BY <1>3, <1>4, ScanAssumption DEF WInv
  <2>2. CASE p.version = None
    BY <1>6, <2>2 DEF Covers
  <2>3. CASE p.version # None /\ Legible(p.version, ver)
    <3>1. p.version \in Versions /\ VersionMatchesCpe(p.version, VersionRow(d, e, ver))
      BY <1>1, <1>2, <1>6, <2>3
    <3>2. InRange(p.version, ver)
      BY <2>1, <2>3, <3>1, MatchIsSound
    <3> QED BY <1>6, <3>2 DEF Covers
  <2> QED BY <2>2, <2>3
<1> HIDE DEF p
<1>7. Accuses(c, p)
  BY <1>2, <1>4, <1>5, <1>6 DEF Accuses
<1> QED BY <1>1, <1>7 DEF Warranted, p

(* Storing some of the answered CVEs keeps all rows warranted.             *)
LEMMA StoredIsWarranted ==
  ASSUME WInv, LookingUp, NEW S, S \subseteq Answer(Packages[next]),
         rows' = Stored(Packages[next], S), UNCHANGED image
  PROVE  \A x \in DOMAIN rows' : Warranted(x[1], x[2])'
<1> DEFINE p == Packages[next]
<1> SUFFICES ASSUME NEW x \in DOMAIN rows' PROVE Warranted(x[1], x[2])
  BY DEF Warranted
<1>1. DOMAIN rows' = DOMAIN rows \cup {<<p, c>> : c \in S}
  BY DEF Stored
<1>2. CASE x \in DOMAIN rows
  BY <1>2 DEF WInv
<1>3. ASSUME NEW c \in S, x = <<p, c>> PROVE Warranted(x[1], x[2])
  <2>1. x[1] = p /\ x[2] = c
    BY <1>3
  <2>2. Warranted(p, c)
    BY AnswerIsWarranted
  <2> QED BY <2>1, <2>2
<1> QED BY <1>1, <1>2, <1>3

(* At first no row is stored.                                              *)
LEMMA InitWarranted == Init => WInv
BY ScanAssumption DEF Init, WInv

(* Only the look-ups store rows; the image never changes.                  *)
LEMMA StepWarranted == WInv /\ [Next]_vars => WInv'
<1> SUFFICES ASSUME WInv, [Next]_vars PROVE WInv'
  OBVIOUS
<1>1. ASSUME UNCHANGED <<image, rows>>, next' \in Nat \ {0}, matched' \subseteq Cves
      PROVE  WInv'
  BY <1>1 DEF WInv, Warranted
<1>2. next \in Nat \ {0} /\ matched \subseteq Cves
  BY DEF WInv
<1>3. CASE Detonate \/ DetonateInPart
  BY <1>1, <1>2, <1>3 DEF Detonate, DetonateInPart, feeds
<1>4. CASE AbandonDynamic
  BY <1>1, <1>2, <1>4 DEF AbandonDynamic, feeds
<1>5. CASE LateReport
  BY <1>1, <1>2, <1>5 DEF LateReport, feeds
<1>6. CASE ReadReport
  BY <1>1, <1>2, <1>6 DEF ReadReport, feeds
<1>7. CASE Lookup
  <2>1. /\ LookingUp /\ UNCHANGED <<image, matched>> /\ next' = next + 1
        /\ rows' = Stored(Packages[next], Answer(Packages[next]))
    BY <1>7 DEF Lookup, feeds
  <2>2. \A x \in DOMAIN rows' : Warranted(x[1], x[2])'
    BY <2>1, StoredIsWarranted
  <2> QED BY <1>2, <2>1, <2>2 DEF WInv
<1>8. CASE LookupFails
  <2>1. LookingUp /\ UNCHANGED <<image, matched>> /\ next' = next + 1
    BY <1>8 DEF LookupFails, feeds
  <2>2. CASE UNCHANGED rows
    BY <1>1, <1>2, <2>1, <2>2
  <2>3. CASE \E S \in SUBSET Answer(Packages[next]) :
               rows' = Stored(Packages[next], S)
    <3>1. \A x \in DOMAIN rows' : Warranted(x[1], x[2])'
      BY <2>1, <2>3, StoredIsWarranted
    <3> QED BY <1>2, <2>1, <3>1 DEF WInv
  <2> QED BY <1>8, <2>2, <2>3 DEF LookupFails
<1>9. CASE Finish
  BY <1>1, <1>2, <1>9 DEF Finish, feeds
<1>10. CASE ScanFails
  BY <1>1, <1>2, <1>10 DEF ScanFails, feeds
<1>11. CASE Redeliver
  BY <1>1, <1>2, <1>11 DEF Redeliver, feeds
<1>12. CASE ReplaceCpeMatch
  BY <1>1, <1>2, <1>12 DEF ReplaceCpeMatch, scan
<1>13. CASE BuildEnriched
  BY <1>1, <1>2, <1>13 DEF BuildEnriched, scan
<1>14. CASE UNCHANGED vars
  BY <1>1, <1>2, <1>14 DEF vars
<1> QED BY <1>3, <1>4, <1>5, <1>6, <1>7, <1>8, <1>9, <1>10, <1>11, <1>12, <1>13, <1>14
        DEF Next

(* No image is ever accused of a CVE that none of its packages has, but    *)
(* where parseInt drops what tells the versions apart: for any images and  *)
(* records, whole or partial reports, however look-ups, refreshes,         *)
(* failures and further deliveries are interleaved.                        *)
THEOREM RowsWarranted == Spec => []RowsAreWarranted
<1>1. WInv => RowsAreWarranted
  BY DEF WInv, Warranted, RowsAreWarranted
<1> QED BY <1>1, InitWarranted, StepWarranted, PTL DEF Spec
----------------------------------------------------------------------------
(* The worst finding sets the level                                         *)

(* What has been counted asks for the level that the rating does.          *)
Paid(v, r) ==
  /\ r.kev => v.kev
  /\ r.severity = "CRITICAL" => v.critical > 0
  /\ r.severity = "HIGH" => v.high > 0

(* The packages before n have been paid for.                               *)
PaidUpTo(n) ==
  \A i \in 1 .. Len(image.packages), c \in known :
    i < n /\ Affects(c, image.packages[i]) => Paid(counted, Ratings[c])

(* The inductive invariant: while nothing has failed and the report is a   *)
(* whole one, every package behind the workflow has been paid for.         *)
LInv ==
  /\ image \in Images
  /\ next \in Nat \ {0} /\ counted \in Counted
  /\ known \subseteq rated /\ rated \subseteq matched /\ matched \subseteq Cves
  /\ pc = "lookup" /\ ~disturbed /\ sbom = Tools => PaidUpTo(next)
  /\ WorstFindingSetsLevel

(* A finite set of natural numbers that is not empty has a greatest one.   *)
LEMMA Greatest ==
  ASSUME NEW S \in SUBSET Nat, IsFiniteSet(S), S # {}
  PROVE  Max(S) \in S /\ \A y \in S : Max(S) >= y
<1> DEFINE G == {s \in SUBSET S : s # {} => \E x \in s : \A y \in s : x >= y}
<1>1. ASSUME NEW s \in SUBSET S, \A x \in s : s \ {x} \in G PROVE s \in G
  <2> SUFFICES ASSUME s # {} PROVE \E x \in s : \A y \in s : x >= y
    OBVIOUS
  <2>1. PICK a \in s : TRUE
    OBVIOUS
  <2>2. CASE s \ {a} = {}
    <3>1. \A y \in s : y = a
      BY <2>2
    <3>2. a \in Nat
      BY <2>1
    <3>3. \A y \in s : a >= y
      BY <3>1, <3>2
    <3> QED BY <2>1, <3>3
  <2>3. CASE s \ {a} # {}
    <3>1. PICK b \in s \ {a} : \A y \in s \ {a} : b >= y
      BY <1>1, <2>1, <2>3
    <3>2. a \in Nat /\ b \in Nat /\ \A y \in s : y \in Nat
      BY <2>1, <3>1
    <3>3. CASE a >= b
      <4>1. \A y \in s : a >= y
        BY <3>1, <3>2, <3>3
      <4> QED BY <2>1, <4>1
    <3>4. CASE ~(a >= b)
      <4>1. \A y \in s : b >= y
        BY <3>1, <3>2, <3>4
      <4> QED BY <3>1, <4>1
    <3> QED BY <3>3, <3>4
  <2> QED BY <2>2, <2>3
<1> HIDE DEF G
<1>2. S \in G
  BY <1>1, SetInduction
<1>3. PICK x \in S : \A y \in S : x >= y
  BY <1>2 DEF G
<1> QED BY <1>3 DEF Max

(* The values of a finite set of CVEs are finitely many.                   *)
LEMMA FiniteImage ==
  ASSUME NEW S, IsFiniteSet(S), NEW f \in [S -> Nat]
  PROVE  IsFiniteSet({f[c] : c \in S})
<1>1. f \in Surjection(S, {f[c] : c \in S})
  BY DEF Surjection
<1> QED BY <1>1, FS_Surjection

LEMMA RatingType ==
  ASSUME NEW c \in Cves
  PROVE  /\ Rating(c).severity \in Severities \cup {None} /\ Rating(c).kev \in BOOLEAN
         /\ Rating(c).score \in Nat /\ Rating(c).epss \in Nat
<1>1. Ratings[c] \in [severity : Severities \cup {None}, score : 0 .. 100,
                      kev : BOOLEAN, epss : 0 .. 100]
  BY ScanAssumption
<1>2. /\ Ratings[c].severity \in Severities \cup {None} /\ Ratings[c].kev \in BOOLEAN
      /\ Ratings[c].score \in 0 .. 100 /\ Ratings[c].epss \in 0 .. 100
  BY <1>1
<1>3. CASE c \in rated
  <2>1. Rating(c) = Ratings[c]
    BY <1>3 DEF Rating
  <2> QED BY <1>2, <2>1
<1>4. CASE c \notin rated
  <2>1. Rating(c) = [severity |-> None, score |-> 0, kev |-> FALSE, epss |-> 0]
    BY <1>4 DEF Rating
  <2> QED BY <2>1
<1> QED BY <1>3, <1>4

(* Counting the answer about a package keeps what was counted, and pays    *)
(* for each CVE of the answer.                                             *)
LEMMA CountPays ==
  ASSUME NEW v \in Counted, NEW S \in SUBSET Cves
  PROVE  /\ Count(v, S) \in Counted
         /\ Count(v, S).critical >= v.critical /\ Count(v, S).high >= v.high
         /\ v.kev => Count(v, S).kev
         /\ \A c \in S : Paid(Count(v, S), Rating(c))
<1> DEFINE Crit == {c \in S : Rating(c).severity = "CRITICAL"}
           High == {c \in S : Rating(c).severity = "HIGH"}
           Medium == {c \in S : Rating(c).severity = "MEDIUM"}
           Others == {c \in S : Rating(c).severity \notin {"CRITICAL", "HIGH", "MEDIUM"}}
<1>1. /\ v.critical \in Nat /\ v.high \in Nat /\ v.medium \in Nat /\ v.low \in Nat
      /\ v.kev \in BOOLEAN /\ v.cvss \in Nat /\ v.epss \in Nat
  BY DEF Counted
<1>2. IsFiniteSet(S)
  BY FS_Subset, ScanAssumption
<1>3. \A T \in SUBSET S : Cardinality(T) \in Nat /\ (T # {} => Cardinality(T) > 0)
  <2> SUFFICES ASSUME NEW T \in SUBSET S
               PROVE  Cardinality(T) \in Nat /\ (T # {} => Cardinality(T) > 0)
    OBVIOUS
  <2>1. IsFiniteSet(T)
    BY <1>2, FS_Subset
  <2>2. Cardinality(T) \in Nat
    BY <2>1, FS_CardinalityType
  <2>3. Cardinality(T) = 0 <=> T = {}
    BY <2>1, FS_EmptySet
  <2> QED BY <2>2, <2>3
<1>4. Max({v.cvss} \cup {Rating(c).score : c \in S}) \in Nat
  <2> DEFINE f == [c \in S |-> Rating(c).score]
  <2>1. f \in [S -> Nat]
    BY RatingType
  <2>2. IsFiniteSet({f[c] : c \in S})
    BY <1>2, <2>1, FiniteImage
  <2>3. {f[c] : c \in S} = {Rating(c).score : c \in S}
    OBVIOUS
  <2>4. IsFiniteSet({Rating(c).score : c \in S} \cup {v.cvss})
    BY <2>2, <2>3, FS_AddElement
  <2>5. {Rating(c).score : c \in S} \cup {v.cvss} \in SUBSET Nat
    BY <1>1, RatingType
  <2>6. Max({Rating(c).score : c \in S} \cup {v.cvss})
          \in {Rating(c).score : c \in S} \cup {v.cvss}
    BY <2>4, <2>5, Greatest
  <2>7. {v.cvss} \cup {Rating(c).score : c \in S} = {Rating(c).score : c \in S} \cup {v.cvss}
    OBVIOUS
  <2> QED BY <2>5, <2>6, <2>7
<1>5. Max({v.epss} \cup {Rating(c).epss : c \in S}) \in Nat
  <2> DEFINE f == [c \in S |-> Rating(c).epss]
  <2>1. f \in [S -> Nat]
    BY RatingType
  <2>2. IsFiniteSet({f[c] : c \in S})
    BY <1>2, <2>1, FiniteImage
  <2>3. {f[c] : c \in S} = {Rating(c).epss : c \in S}
    OBVIOUS
  <2>4. IsFiniteSet({Rating(c).epss : c \in S} \cup {v.epss})
    BY <2>2, <2>3, FS_AddElement
  <2>5. {Rating(c).epss : c \in S} \cup {v.epss} \in SUBSET Nat
    BY <1>1, RatingType
  <2>6. Max({Rating(c).epss : c \in S} \cup {v.epss})
          \in {Rating(c).epss : c \in S} \cup {v.epss}
    BY <2>4, <2>5, Greatest
  <2>7. {v.epss} \cup {Rating(c).epss : c \in S} = {Rating(c).epss : c \in S} \cup {v.epss}
    OBVIOUS
  <2> QED BY <2>5, <2>6, <2>7
<1>6. Count(v, S) =
        [critical |-> v.critical + Cardinality(Crit), high |-> v.high + Cardinality(High),
         medium |-> v.medium + Cardinality(Medium), low |-> v.low + Cardinality(Others),
         kev |-> v.kev \/ \E c \in S : Rating(c).kev,
         cvss |-> Max({v.cvss} \cup {Rating(c).score : c \in S}),
         epss |-> Max({v.epss} \cup {Rating(c).epss : c \in S})]
  BY DEF Count
<1>7. /\ Cardinality(Crit) \in Nat /\ Cardinality(High) \in Nat
      /\ Cardinality(Medium) \in Nat /\ Cardinality(Others) \in Nat
  <2>1. Crit \in SUBSET S /\ High \in SUBSET S /\ Medium \in SUBSET S /\ Others \in SUBSET S
    OBVIOUS
  <2> HIDE DEF Crit, High, Medium, Others
  <2> QED BY <1>3, <2>1
<1>8. (v.kev \/ \E c \in S : Rating(c).kev) \in BOOLEAN
  OBVIOUS
<1>9. Count(v, S).kev = (v.kev \/ \E c \in S : Rating(c).kev)
  BY <1>6
<1>10. ASSUME NEW c \in S PROVE Paid(Count(v, S), Rating(c))
  <2>1. Rating(c).kev => Count(v, S).kev
    BY <1>9, Zenon
  <2>2. Rating(c).severity = "CRITICAL" => Count(v, S).critical > 0
    <3>1. Crit \in SUBSET S /\ (Rating(c).severity = "CRITICAL" => Crit # {})
      OBVIOUS
    <3> HIDE DEF Crit
    <3> QED BY <1>1, <1>3, <1>6, <3>1
  <2>3. Rating(c).severity = "HIGH" => Count(v, S).high > 0
    <3>1. High \in SUBSET S /\ (Rating(c).severity = "HIGH" => High # {})
      OBVIOUS
    <3> HIDE DEF High
    <3> QED BY <1>1, <1>3, <1>6, <3>1
  <2> QED BY <2>1, <2>2, <2>3 DEF Paid
<1> HIDE DEF Crit, High, Medium, Others
<1>11. Count(v, S) \in Counted
  <2>1. /\ v.critical + Cardinality(Crit) \in Nat /\ v.high + Cardinality(High) \in Nat
        /\ v.medium + Cardinality(Medium) \in Nat /\ v.low + Cardinality(Others) \in Nat
    BY <1>1, <1>7
  <2> QED BY <1>4, <1>5, <1>6, <1>8, <2>1 DEF Counted
<1>12. Count(v, S).critical >= v.critical /\ Count(v, S).high >= v.high
  BY <1>1, <1>6, <1>7
<1>13. v.kev => Count(v, S).kev
  BY <1>9, Zenon
<1> QED BY <1>10, <1>11, <1>12, <1>13

(* A package that a known CVE affects is answered with that CVE.           *)
LEMMA AnswerIsComplete ==
  ASSUME LInv, NEW c \in known, NEW i \in 1 .. Len(image.packages),
         Affects(c, image.packages[i])
  PROVE  c \in Answer(image.packages[i])
<1> DEFINE p == image.packages[i]
<1>1. p.name \in STRING /\ p.version \in Versions \cup {None}
  <2>1. image.packages \in Seq(Package)
    BY ScanAssumption DEF LInv
  <2>2. p \in Package
    BY <2>1, ElementType
  <2> QED BY <2>2 DEF Package
<1>2. c \in matched /\ c \in Cves /\ matched \subseteq Cves
  BY DEF LInv
<1>3. PICK e \in Records[c].affected :
        /\ ProductKey[e.product] = p.name /\ VendorKey[e.vendor] # Blank
        /\ VendorKey[e.vendor] = p.name \/ ~OwnVendor(p, Cves)
        /\ \/ e.versions = {}
           \/ \E ver \in e.versions :
                /\ Covers(p.version, ver)
                /\ p.version = None \/ (Legible(p.version, ver) /\ ~IsLast(p.version, ver))
  BY DEF Affects
<1>4. ~Records[c].rejected /\ ProductKey[e.product] # Blank
  BY <1>1, <1>3, ScanAssumption DEF Affects
<1>5. PICK m \in EntryRows(c, e) : p.version = None \/ VersionMatchesCpe(p.version, m)
  <2>1. CASE e.versions = {}
    <3>1. CpeRow(c, e, None, None, None) \in EntryRows(c, e)
      BY <2>1 DEF EntryRows
    <3>2. VersionMatchesCpe(p.version, CpeRow(c, e, None, None, None))
      BY DEF VersionMatchesCpe, CpeRow
    <3> QED BY <3>1, <3>2
  <2>2. ASSUME NEW ver \in e.versions, Covers(p.version, ver),
               p.version = None \/ (Legible(p.version, ver) /\ ~IsLast(p.version, ver))
        PROVE  \E m \in EntryRows(c, e) :
                 p.version = None \/ VersionMatchesCpe(p.version, m)
    <3>1. VersionRow(c, e, ver) \in EntryRows(c, e)
      BY <2>2 DEF EntryRows, Covers
    <3>2. CASE p.version = None
      BY <3>1, <3>2
    <3>3. CASE p.version # None
      <4>1. ver \in Ranges
        BY <1>2, <1>3, ScanAssumption
      <4>2. /\ p.version \in Versions /\ InRange(p.version, ver)
            /\ Legible(p.version, ver) /\ ~IsLast(p.version, ver)
        BY <1>1, <2>2, <3>3 DEF Covers
      <4>3. VersionMatchesCpe(p.version, VersionRow(c, e, ver))
        BY <4>1, <4>2, MatchMissesOnlyTheLast
      <4> QED BY <3>1, <4>3
    <3> QED BY <3>2, <3>3
  <2> QED BY <1>3, <2>1, <2>2
<1>6. /\ m \in Matches /\ m.cve = c
      /\ m.vendor = VendorKey[e.vendor] /\ m.product = ProductKey[e.product]
  <2>1. m \in ExtractCpeMatches(c, Records[c])
    BY <1>3, <1>4, <1>5 DEF ExtractCpeMatches
  <2>2. m \in Matches
    BY <1>2, <2>1 DEF Matches
  <2>3. m.cve = c /\ m.vendor = VendorKey[e.vendor] /\ m.product = ProductKey[e.product]
    BY <1>5 DEF EntryRows, VersionRow, CpeRow
  <2> QED BY <2>2, <2>3
<1>7. m \in LookupCpeMatch(Matches, p.name, p.name)
  <2>1. CASE VendorKey[e.vendor] = p.name
    BY <1>3, <1>6, <2>1 DEF LookupCpeMatch
  <2>2. CASE ~OwnVendor(p, Cves)
    <3>1. {x \in Matches : x.vendor = p.name /\ x.product = p.name} = {}
      BY <1>2, <2>2 DEF OwnVendor, Matches
    <3> QED BY <1>3, <1>6, <3>1 DEF LookupCpeMatch
  <2> QED BY <1>3, <2>1, <2>2
<1> HIDE DEF p
<1>8. c \in CpeLookup(Matches, p.name, p.name, p.version)
  BY <1>5, <1>6, <1>7 DEF CpeLookup
<1> QED BY <1>8 DEF Answer, p

(* Every CVE of an answer is one of the records.                           *)
LEMMA AnswerIsPublished ==
  ASSUME matched \subseteq Cves, NEW p PROVE Answer(p) \in SUBSET Cves
<1> SUFFICES ASSUME NEW c \in Answer(p) PROVE c \in Cves
  OBVIOUS
<1>1. PICK m \in Matches : m.cve = c
  BY LookupHasRow DEF Answer
<1>2. PICK d \in matched : m \in ExtractCpeMatches(d, Records[d])
  BY <1>1 DEF Matches
<1>3. m.cve = d
  BY <1>2, RowHasEntry
<1> QED BY <1>1, <1>2, <1>3

(* What has been paid for is at most what the score's floor demands.       *)
LEMMA PaidIsDemanded ==
  ASSUME NEW v \in Counted, NEW f \in Findings
  PROVE  /\ FloorOf(v, f) >= FloorOf(Nothing, f)
         /\ \A r : Paid(v, r) => FloorOf(v, f) >= Demands(r)
<1>1. FloorOf(v, f) >= FloorOf(Nothing, f)
  BY DEF FloorOf, Nothing
<1>2. ASSUME NEW r, Paid(v, r) PROVE FloorOf(v, f) >= Demands(r)
  <2>1. CASE r.kev \/ r.severity = "CRITICAL"
    BY <1>2, <2>1 DEF FloorOf, Paid, Demands
  <2>2. CASE ~(r.kev \/ r.severity = "CRITICAL") /\ r.severity = "HIGH"
    BY <1>2, <2>2 DEF FloorOf, Paid, Demands
  <2>3. CASE ~(r.kev \/ r.severity = "CRITICAL") /\ r.severity # "HIGH"
    BY <2>3 DEF FloorOf, Demands
  <2> QED BY <2>1, <2>2, <2>3
<1> QED BY <1>1, <1>2

(* A scan in which nothing fails ends at least there.                      *)
LEMMA FinishPays ==
  ASSUME LInv, Finish, ~disturbed, sbom = Tools
  PROVE  WorstFindingSetsLevel'
<1>1. /\ PaidUpTo(next) /\ ~LookingUp /\ pc = "lookup"
      /\ image \in Images /\ next \in Nat \ {0} /\ counted \in Counted
  BY DEF LInv, Finish
<1>2. /\ UNCHANGED <<image, known>>
      /\ score' = ContainerScore(counted, image.findings)
      /\ Packages = image.packages
  BY DEF Finish, Tools, Packages
<1> DEFINE f == image.findings
           n == Len(image.packages)
<1>3. f \in Findings /\ n \in Nat /\ PackageLimit \in Nat
  <2>1. image.packages \in Seq(Package)
    BY <1>1, ScanAssumption
  <2> QED BY <1>1, <2>1, ScanAssumption
<1>4. score' \in 0 .. 100 /\ score' >= FloorOf(counted, f)
  <2>1. PICK points \in Nat : points = VulnSubScore(counted)
    BY <1>1, VulnPointsAreNat
  <2>2. score' = ScoreOf(points, counted, f)
    BY <1>2, <2>1 DEF ContainerScore
  <2>3. /\ ScoreOf(points, counted, f) \in 0 .. 100
        /\ ScoreOf(points, counted, f) >= FloorOf(counted, f)
    BY <1>1, <1>3, ScoreMeetsFloor
  <2> QED BY <2>2, <2>3
<1>5. FloorOf(counted, f) \in Nat /\ FloorOf(Nothing, f) \in Nat
  BY FloorRange
<1>6. score' >= FloorOf(Nothing, f)
  <2>1. FloorOf(counted, f) >= FloorOf(Nothing, f)
    BY <1>1, <1>3, PaidIsDemanded
  <2> QED BY <1>2, <1>4, <1>5, <2>1
<1>7. ASSUME NEW i \in 1 .. UpTo(PackageLimit, n), NEW c \in known,
             Affects(c, image.packages[i])
      PROVE  score' >= Demands(Ratings[c])
  <2>1. i \in 1 .. n /\ i < next
    BY <1>1, <1>2, <1>3 DEF LookingUp, UpTo
  <2>2. Paid(counted, Ratings[c])
    BY <1>1, <1>7, <2>1 DEF PaidUpTo
  <2>3. FloorOf(counted, f) >= Demands(Ratings[c])
    BY <1>1, <1>3, <2>2, PaidIsDemanded
  <2>4. Demands(Ratings[c]) \in Nat
    BY DEF Demands
  <2>5. score' \in Nat /\ score' >= FloorOf(counted, f)
    BY <1>4
  <2> QED BY <1>5, <2>3, <2>4, <2>5
<1>8. \A c, p : Affects(c, p)' = Affects(c, p)
  BY DEF Affects
<1> QED BY <1>2, <1>6, <1>7 DEF WorstFindingSetsLevel

(* Looking up the next package pays for what affects it.                   *)
LEMMA LookupPays ==
  ASSUME LInv, Lookup, ~disturbed, sbom = Tools
  PROVE  PaidUpTo(next)'
<1>1. /\ PaidUpTo(next) /\ LookingUp /\ Packages = image.packages
      /\ image \in Images /\ next \in Nat \ {0} /\ counted \in Counted
      /\ known \subseteq rated /\ matched \subseteq Cves
  BY DEF LInv, Lookup, LookingUp, Packages, Tools
<1>2. /\ UNCHANGED <<image, known>> /\ next' = next + 1
      /\ counted' = Count(counted, Answer(Packages[next]))
  BY DEF Lookup
<1>3. Answer(Packages[next]) \in SUBSET Cves
  BY <1>1, AnswerIsPublished
<1>4. /\ counted' \in Counted
      /\ counted'.critical >= counted.critical /\ counted'.high >= counted.high
      /\ counted.kev => counted'.kev
      /\ \A c \in Answer(Packages[next]) : Paid(counted', Rating(c))
  BY <1>1, <1>2, <1>3, CountPays
<1>5. ASSUME NEW i \in 1 .. Len(image.packages), NEW c \in known, i < next + 1,
             Affects(c, image.packages[i])
      PROVE  Paid(counted', Ratings[c])
  <2>1. CASE i < next
    <3>1. Paid(counted, Ratings[c])
      BY <1>1, <1>5, <2>1 DEF PaidUpTo
    <3>2. /\ counted.critical \in Nat /\ counted.high \in Nat
          /\ counted'.critical \in Nat /\ counted'.high \in Nat
      BY <1>1, <1>4 DEF Counted
    <3> QED BY <1>4, <3>1, <3>2 DEF Paid
  <2>2. CASE ~(i < next)
    <3>1. i = next
      BY <1>1, <1>5, <2>2
    <3>2. c \in Answer(Packages[next])
      BY <1>1, <1>5, <3>1, AnswerIsComplete
    <3>3. Rating(c) = Ratings[c]
      BY <1>1 DEF Rating
    <3> QED BY <1>4, <3>2, <3>3
  <2> QED BY <2>1, <2>2
<1> QED BY <1>2, <1>5 DEF PaidUpTo, Affects, OwnVendor

(* A new submission has nothing to pay for.                                *)
LEMMA InitPays == Init => LInv
<1> SUFFICES ASSUME Init PROVE LInv
  OBVIOUS
<1>1. Nothing \in Counted
  BY DEF Nothing, Counted
<1> QED BY <1>1, ScanAssumption DEF Init, LInv, WorstFindingSetsLevel

(* Every step of the scan, of a refresh or of the queue keeps it.          *)
LEMMA StepPays == LInv /\ [Next]_vars => LInv'
<1> SUFFICES ASSUME LInv, [Next]_vars PROVE LInv'
  OBVIOUS
<1>1. /\ image \in Images /\ next \in Nat \ {0} /\ counted \in Counted
      /\ known \subseteq rated /\ rated \subseteq matched /\ matched \subseteq Cves
      /\ pc = "lookup" /\ ~disturbed /\ sbom = Tools => PaidUpTo(next)
      /\ WorstFindingSetsLevel
  BY DEF LInv
<1>2. Nothing \in Counted
  BY DEF Nothing, Counted
<1>3. ASSUME UNCHANGED <<image, known, score, pc, disturbed, sbom>>
      PROVE  WorstFindingSetsLevel'
  BY <1>1, <1>3 DEF WorstFindingSetsLevel
<1>4. ASSUME UNCHANGED <<image, known, counted, next>>
      PROVE  PaidUpTo(next)' <=> PaidUpTo(next)
  BY <1>4 DEF PaidUpTo
<1>5. ASSUME pc' # "done" \/ disturbed' \/ sbom' # Tools PROVE WorstFindingSetsLevel'
  <2>1. ~(pc' = "done" /\ ~disturbed' /\ sbom' = Tools)
    BY <1>5
  <2> QED BY <2>1 DEF WorstFindingSetsLevel
<1>6. CASE Detonate \/ DetonateInPart
  <2>1. pc' = "read" /\ UNCHANGED <<image, next, counted, matched, rated, known>>
    BY <1>6 DEF Detonate, DetonateInPart, feeds
  <2>2. WorstFindingSetsLevel'
    BY <1>5, <2>1
  <2> QED BY <1>1, <2>1, <2>2 DEF LInv
<1>7. CASE AbandonDynamic
  <2>1. /\ pc' = "read" /\ disturbed'
        /\ UNCHANGED <<image, next, counted, matched, rated, known>>
    BY <1>7 DEF AbandonDynamic, Fault, feeds
  <2>2. WorstFindingSetsLevel'
    BY <1>5, <2>1
  <2> QED BY <1>1, <2>1, <2>2 DEF LInv
<1>8. CASE LateReport
  <2>1. UNCHANGED <<pc, score, disturbed, sbom, image, next, counted, matched, rated,
                    known>>
    BY <1>8 DEF LateReport, feeds
  <2>2. WorstFindingSetsLevel' /\ (PaidUpTo(next)' <=> PaidUpTo(next))
    BY <1>3, <1>4, <2>1
  <2> QED BY <1>1, <2>1, <2>2 DEF LInv
<1>9. CASE ReadReport
  <2>1. /\ pc = "read" /\ pc' = "lookup" /\ next' = 1 /\ counted' = Nothing
        /\ UNCHANGED <<disturbed, image, matched, rated, known>>
    BY <1>9 DEF ReadReport, Fine, feeds
  <2>2. WorstFindingSetsLevel'
    BY <1>5, <2>1
  <2>3. PaidUpTo(next)'
    BY <2>1 DEF PaidUpTo
  <2> QED BY <1>1, <1>2, <2>1, <2>2, <2>3 DEF LInv
<1>10. CASE Lookup
  <2>1. /\ LookingUp /\ next' = next + 1
        /\ counted' = Count(counted, Answer(Packages[next]))
        /\ UNCHANGED <<pc, score, disturbed, sbom, image, matched, rated, known>>
    BY <1>10 DEF Lookup, Fine, feeds
  <2>2. counted' \in Counted
    <3>1. Answer(Packages[next]) \in SUBSET Cves
      BY <1>1, AnswerIsPublished
    <3> QED BY <1>1, <2>1, <3>1, CountPays
  <2>3. ~disturbed /\ sbom = Tools => PaidUpTo(next)'
    BY <1>10, LookupPays
  <2>4. WorstFindingSetsLevel'
    BY <1>3, <2>1
  <2>5. pc = "lookup" /\ next' \in Nat \ {0}
    BY <1>1, <2>1 DEF LookingUp
  <2> QED BY <1>1, <2>1, <2>2, <2>3, <2>4, <2>5 DEF LInv
<1>11. CASE LookupFails
  <2>1. /\ LookingUp /\ next' = next + 1 /\ disturbed'
        /\ UNCHANGED <<pc, score, sbom, image, matched, rated, known>>
    BY <1>11 DEF LookupFails, Fault, feeds
  <2>2. counted' = counted \/ \E S \in SUBSET Answer(Packages[next]) :
                                counted' = Count(counted, S)
    <3>1. \A c \in Answer(Packages[next]), S \in SUBSET Answer(Packages[next]) :
            S \cup {c} \in SUBSET Answer(Packages[next])
      OBVIOUS
    <3> QED BY <1>11, <3>1 DEF LookupFails
  <2>3. counted' \in Counted
    <3>1. Answer(Packages[next]) \in SUBSET Cves
      BY <1>1, AnswerIsPublished
    <3>2. \A S \in SUBSET Cves : Count(counted, S) \in Counted
      BY <1>1, CountPays
    <3> QED BY <1>1, <2>2, <3>1, <3>2
  <2>4. WorstFindingSetsLevel'
    BY <1>5, <2>1
  <2>5. pc = "lookup" /\ next' \in Nat \ {0}
    BY <1>1, <2>1 DEF LookingUp
  <2> QED BY <1>1, <2>1, <2>3, <2>4, <2>5 DEF LInv
<1>12. CASE Finish
  <2>1. /\ pc' = "done"
        /\ UNCHANGED <<disturbed, sbom, image, next, counted, matched, rated, known>>
    BY <1>12 DEF Finish, Fine, feeds
  <2>2. WorstFindingSetsLevel'
    <3>1. CASE disturbed \/ sbom # Tools
      BY <1>5, <2>1, <3>1
    <3>2. CASE ~disturbed /\ sbom = Tools
      BY <1>12, <3>2, FinishPays
    <3> QED BY <3>1, <3>2
  <2> QED BY <1>1, <2>1, <2>2 DEF LInv
<1>13. CASE ScanFails
  <2>1. /\ pc' = "done" /\ disturbed'
        /\ UNCHANGED <<image, next, counted, matched, rated, known>>
    BY <1>13 DEF ScanFails, Fault, feeds
  <2>2. WorstFindingSetsLevel'
    BY <1>5, <2>1
  <2> QED BY <1>1, <2>1, <2>2 DEF LInv
<1>14. CASE Redeliver
  <2>1. /\ pc' = "dynamic" /\ known' = matched \cap rated
        /\ UNCHANGED <<image, next, counted, matched, rated>>
    BY <1>14 DEF Redeliver, feeds
  <2>2. WorstFindingSetsLevel'
    BY <1>5, <2>1
  <2> QED BY <1>1, <2>1, <2>2 DEF LInv
<1>15. CASE ReplaceCpeMatch \/ BuildEnriched
  <2>1. /\ UNCHANGED <<pc, score, disturbed, sbom, image, next, counted, known>>
        /\ known \subseteq rated' /\ rated' \subseteq matched' /\ matched' \subseteq Cves
    BY <1>1, <1>15 DEF ReplaceCpeMatch, BuildEnriched, scan
  <2>2. WorstFindingSetsLevel' /\ (PaidUpTo(next)' <=> PaidUpTo(next))
    BY <1>3, <1>4, <2>1
  <2> QED BY <1>1, <2>1, <2>2 DEF LInv
<1>16. CASE UNCHANGED vars
  <2>1. UNCHANGED <<pc, score, disturbed, sbom, image, next, counted, known,
                    matched, rated>>
    BY <1>16 DEF vars
  <2>2. WorstFindingSetsLevel' /\ (PaidUpTo(next)' <=> PaidUpTo(next))
    BY <1>3, <1>4, <2>1
  <2> QED BY <1>1, <2>1, <2>2 DEF LInv
<1> QED BY <1>6, <1>7, <1>8, <1>9, <1>10, <1>11, <1>12, <1>13, <1>14, <1>15, <1>16 DEF Next

(* When nothing fails and a whole report is read, the score is at least    *)
(* what the worst CVE of the packages that are looked up and the worst     *)
(* finding demand: "a container with a CRITICAL vuln is at minimum HIGH",  *)
(* a refresh under way, further deliveries, and earlier failures and       *)
(* partial reports notwithstanding.                                        *)
THEOREM WorstIsPaidFor == Spec => []WorstFindingSetsLevel
<1>1. LInv => WorstFindingSetsLevel
  BY DEF LInv
<1> QED BY <1>1, InitPays, StepPays, PTL DEF Spec

----------------------------------------------------------------------------
(* More is never worth less                                                 *)

(* A sum may begin with whichever element.                                 *)
LEMMA SumsSplit ==
  ASSUME NEW S, IsFiniteSet(S), NEW f \in [S -> Nat], NEW g, Sums(f, S, g)
  PROVE  \A s \in SUBSET S : \A x \in s : g[s] = f[x] + g[s \ {x}]
<1> DEFINE G == {s \in SUBSET S : \A x \in s : g[s] = f[x] + g[s \ {x}]}
<1>1. \A s \in SUBSET S : g[s] \in Nat
  BY SumsAreNat
<1>2. ASSUME NEW s \in SUBSET S, \A x \in s : s \ {x} \in G PROVE s \in G
  <2> SUFFICES ASSUME NEW x \in s PROVE g[s] = f[x] + g[s \ {x}]
    OBVIOUS
  <2>1. PICK c \in s : g[s] = f[c] + g[s \ {c}]
    BY SumsAt
  <2>2. CASE c = x
    BY <2>1, <2>2
  <2>3. CASE c # x
    <3>1. g[s \ {c}] = f[x] + g[(s \ {c}) \ {x}]
      BY <1>2, <2>3
    <3>2. g[s \ {x}] = f[c] + g[(s \ {x}) \ {c}]
      BY <1>2, <2>3
    <3>3. (s \ {c}) \ {x} = (s \ {x}) \ {c}
      OBVIOUS
    <3>4. f[x] \in Nat /\ f[c] \in Nat /\ g[(s \ {x}) \ {c}] \in Nat
      BY <1>1
    <3> QED BY <2>1, <3>1, <3>2, <3>3, <3>4
  <2> QED BY <2>2, <2>3
<1> HIDE DEF G
<1>3. SUBSET S \subseteq G
  BY <1>2, SetInduction
<1> QED BY <1>3 DEF G

(* More summands, each at least as great, do not make less.                *)
LEMMA SumsGrow ==
  ASSUME NEW S, NEW T, IsFiniteSet(T), S \subseteq T,
         NEW f \in [S -> Nat], NEW h \in [T -> Nat], \A x \in S : f[x] <= h[x],
         NEW F, Sums(f, S, F), NEW H, Sums(h, T, H)
  PROVE  F[S] <= H[T]
<1> DEFINE G == {t \in SUBSET T : F[t \cap S] <= H[t]}
<1>1. IsFiniteSet(S)
  BY FS_Subset
<1>2. /\ \A s \in SUBSET S : F[s] \in Nat
      /\ \A t \in SUBSET T : H[t] \in Nat
  BY <1>1, SumsAreNat
<1>3. ASSUME NEW t \in SUBSET T, \A x \in t : t \ {x} \in G PROVE t \in G
  <2>1. CASE t = {}
    <3>1. F[{}] = 0
      BY SumsAt
    <3>2. H[{}] = 0
      BY SumsAt
    <3>3. t \cap S = {}
      BY <2>1
    <3>4. F[t \cap S] = 0 /\ H[t] = 0
      BY <2>1, <3>1, <3>2, <3>3
    <3> QED BY <3>4
  <2>2. CASE t # {}
    <3>1. PICK x \in t : H[t] = h[x] + H[t \ {x}]
      BY <2>2, SumsAt
    <3>2. F[(t \ {x}) \cap S] <= H[t \ {x}]
      BY <1>3
    <3>3. /\ F[(t \ {x}) \cap S] \in Nat /\ H[t \ {x}] \in Nat /\ h[x] \in Nat
          /\ F[t \cap S] \in Nat
      <4>1. (t \ {x}) \cap S \in SUBSET S /\ t \ {x} \in SUBSET T /\ t \cap S \in SUBSET S
        OBVIOUS
      <4> QED BY <1>2, <4>1
    <3>4. CASE x \in S
      <4>1. t \cap S \in SUBSET S /\ x \in t \cap S
        BY <3>4
      <4>2. F[t \cap S] = f[x] + F[(t \cap S) \ {x}]
        BY <1>1, <4>1, SumsSplit, SMTT(30)
      <4>3. (t \cap S) \ {x} = (t \ {x}) \cap S
        OBVIOUS
      <4>4. f[x] \in Nat /\ f[x] <= h[x]
        BY <3>4
      <4> QED BY <3>1, <3>2, <3>3, <4>2, <4>3, <4>4
    <3>5. CASE x \notin S
      <4>1. t \cap S = (t \ {x}) \cap S
        BY <3>5
      <4>2. F[t \cap S] = F[(t \ {x}) \cap S]
        BY <4>1
      <4>3. F[t \cap S] <= H[t]
        BY <3>1, <3>2, <3>3, <4>2
      <4> QED BY <4>3
    <3> QED BY <3>4, <3>5
  <2> QED BY <2>1, <2>2
<1> HIDE DEF G
<1>4. T \in G
  BY <1>3, SetInduction
<1>5. T \cap S = S
  OBVIOUS
<1> QED BY <1>4, <1>5 DEF G

(* A product of natural numbers grows with its factors,                    *)
LEMMA ProductGrows ==
  ASSUME NEW a \in Nat, NEW b \in Nat, NEW c \in Nat, NEW d \in Nat, a <= b, c <= d
  PROVE  a * c \in Nat /\ b * d \in Nat /\ a * c <= b * d
<1>1. PICK k \in Nat : b = a + k
  <2>1. b - a \in Nat /\ b = a + (b - a)
    OBVIOUS
  <2> QED BY <2>1
<1>2. PICK m \in Nat : d = c + m
  <2>1. d - c \in Nat /\ d = c + (d - c)
    OBVIOUS
  <2> QED BY <2>1
<1>3. b * d = a * c + a * m + k * c + k * m
  BY <1>1, <1>2
<1>4. a * c \in Nat /\ a * m \in Nat /\ k * c \in Nat /\ k * m \in Nat /\ b * d \in Nat
  BY <1>1, <1>2
<1> QED BY <1>3, <1>4

(* and a quotient with what is divided.                                    *)
LEMMA QuotientGrows ==
  ASSUME NEW a \in Nat, NEW b \in Nat, NEW d \in Nat \ {0}, a <= b
  PROVE  a \div d <= b \div d
OBVIOUS

(* v has no more than w: of the severe ones, of all, and at most the same  *)
(* greatest values.                                                        *)
Within(v, w) ==
  /\ v.critical <= w.critical /\ v.high <= w.high /\ v.medium <= w.medium
  /\ Total(v) <= Total(w) /\ (v.kev => w.kev) /\ v.cvss <= w.cvss /\ v.epss <= w.epss

(* Then each CVE of its list is worth no more.                             *)
LEMMA PointsGrow ==
  ASSUME NEW v \in Counted, NEW w \in Counted, Within(v, w), NEW i \in 1 .. Total(v)
  PROVE  PerCvePoints(v, i) <= PerCvePoints(w, i)
<1>1. /\ v.critical \in Nat /\ v.high \in Nat /\ v.medium \in Nat /\ v.low \in Nat
      /\ v.kev \in BOOLEAN /\ v.cvss \in Nat /\ v.epss \in Nat
      /\ w.critical \in Nat /\ w.high \in Nat /\ w.medium \in Nat /\ w.low \in Nat
      /\ w.kev \in BOOLEAN /\ w.cvss \in Nat /\ w.epss \in Nat
  BY DEF Counted
<1>2. /\ v.critical <= w.critical /\ v.high <= w.high /\ v.medium <= w.medium
      /\ v.cvss <= w.cvss /\ v.epss <= w.epss
  BY DEF Within
<1>3. i \in Nat \ {0} /\ 100 + 8 * (i - 1) \in Nat \ {0}
  BY <1>1 DEF Total
<1>4. Weight(v, i) \in Nat /\ Weight(w, i) \in Nat /\ Weight(v, i) <= Weight(w, i)
  <2>1. v.kev => w.kev
    BY DEF Within
  <2>2. CASE w.kev /\ i = 1
    BY <2>2 DEF Weight
  <2>3. CASE ~(w.kev /\ i = 1)
    <3>1. ~(v.kev /\ i = 1)
      BY <2>1, <2>3
    <3>2. /\ Weight(v, i) = IF v.epss >= 95 THEN 180 ELSE IF v.epss >= 75 THEN 135 ELSE 90
          /\ Weight(w, i) = IF w.epss >= 95 THEN 180 ELSE IF w.epss >= 75 THEN 135 ELSE 90
      BY <2>3, <3>1 DEF Weight
    <3> QED BY <1>1, <1>2, <3>2
  <2> QED BY <2>2, <2>3
<1>5. Cvss(v, i) \in Nat /\ Cvss(w, i) \in Nat /\ Cvss(v, i) <= Cvss(w, i)
  BY <1>1, <1>2, <1>3 DEF Cvss, Floor
<1>6. /\ Weight(v, i) * Cvss(v, i) \in Nat /\ Weight(w, i) * Cvss(w, i) \in Nat
      /\ Weight(v, i) * Cvss(v, i) <= Weight(w, i) * Cvss(w, i)
  BY <1>4, <1>5, ProductGrows
<1> DEFINE a == Weight(v, i) * Cvss(v, i)
           b == Weight(w, i) * Cvss(w, i)
<1> HIDE DEF a, b
<1>7. a \in Nat /\ b \in Nat /\ a <= b
  BY <1>6 DEF a, b
<1>8. /\ a * Cvss(v, i) \in Nat /\ b * Cvss(w, i) \in Nat
      /\ a * Cvss(v, i) <= b * Cvss(w, i)
  BY <1>5, <1>7, ProductGrows
<1> DEFINE c == a * Cvss(v, i)
           d == b * Cvss(w, i)
<1>9. c \in Nat /\ d \in Nat /\ c <= d
  BY <1>8
<1> HIDE DEF c, d
<1>10. c * 100 \in Nat /\ d * 100 \in Nat /\ c * 100 <= d * 100
  BY <1>9
<1>11. (c * 100) \div (100 + 8 * (i - 1)) <= (d * 100) \div (100 + 8 * (i - 1))
  BY <1>3, <1>10, QuotientGrows
<1>12. /\ PerCvePoints(v, i) = (c * 100) \div (100 + 8 * (i - 1))
       /\ PerCvePoints(w, i) = (d * 100) \div (100 + 8 * (i - 1))
  BY DEF PerCvePoints, a, b, c, d
<1> QED BY <1>11, <1>12

(* So the list is.                                                         *)
LEMMA VulnPointsGrow ==
  ASSUME NEW v \in Counted, NEW w \in Counted, Within(v, w)
  PROVE  VulnSubScore(v) <= VulnSubScore(w)
<1> DEFINE f == [i \in 1 .. Total(v) |-> PerCvePoints(v, i)]
           h == [i \in 1 .. Total(w) |-> PerCvePoints(w, i)]
<1>1. PICK F : Sums(f, 1 .. Total(v), F) /\ VulnSubScore(v) = UpTo(VulnCap, F[1 .. Total(v)])
  BY VulnPointsSum
<1>2. PICK H : Sums(h, 1 .. Total(w), H) /\ VulnSubScore(w) = UpTo(VulnCap, H[1 .. Total(w)])
  BY VulnPointsSum
<1>3. Total(v) \in Nat /\ Total(w) \in Nat /\ Total(v) <= Total(w)
  BY DEF Total, Counted, Within
<1>4. 1 .. Total(v) \subseteq 1 .. Total(w)
  BY <1>3
<1>5. IsFiniteSet(1 .. Total(v)) /\ IsFiniteSet(1 .. Total(w))
  BY <1>3, FS_Interval
<1>6. f \in [1 .. Total(v) -> Nat] /\ h \in [1 .. Total(w) -> Nat]
  BY PointsAreNat
<1>7. \A i \in 1 .. Total(v) : f[i] <= h[i]
  BY <1>4, PointsGrow
<1> HIDE DEF f, h
<1>8. F[1 .. Total(v)] <= H[1 .. Total(w)]
  BY <1>1, <1>2, <1>4, <1>5, <1>6, <1>7, SumsGrow
<1>9. F[1 .. Total(v)] \in Nat
  <2>1. \A s \in SUBSET (1 .. Total(v)) : F[s] \in Nat
    BY <1>1, <1>5, <1>6, SumsAreNat
  <2> QED BY <2>1
<1>10. H[1 .. Total(w)] \in Nat
  <2>1. \A s \in SUBSET (1 .. Total(w)) : H[s] \in Nat
    BY <1>2, <1>5, <1>6, SumsAreNat
  <2> QED BY <2>1
<1>11. VulnCap \in Nat
  BY DEF VulnCap, FullScale
<1> QED BY <1>1, <1>2, <1>8, <1>9, <1>10, <1>11 DEF UpTo

(* So the score of an image never falls when more CVEs are counted, of     *)
(* whatever severity, or their greatest CVSS or EPSS values rise.          *)
THEOREM ScoreGrows ==
  ASSUME NEW v \in Counted, NEW w \in Counted, Within(v, w), NEW f \in Findings
  PROVE  /\ ContainerScore(v, f) \in 0 .. 100 /\ ContainerScore(w, f) \in 0 .. 100
         /\ ContainerScore(v, f) <= ContainerScore(w, f)
<1>1. PICK p \in Nat : p = VulnSubScore(v)
  BY VulnPointsAreNat
<1>2. PICK q \in Nat : q = VulnSubScore(w)
  BY VulnPointsAreNat
<1>3. p <= q
  BY <1>1, <1>2, VulnPointsGrow
<1>4. v.critical <= w.critical /\ v.high <= w.high /\ (v.kev => w.kev)
  BY DEF Within
<1>5. ScoreOf(p, v, f) <= ScoreOf(q, w, f)
  BY <1>3, <1>4, MoreIsNotLess
<1>6. ScoreOf(p, v, f) \in 0 .. 100 /\ ScoreOf(q, w, f) \in 0 .. 100
  BY ScoreMeetsFloor
<1> QED BY <1>1, <1>2, <1>5, <1>6 DEF ContainerScore

----------------------------------------------------------------------------
(* A later scan counts no less                                              *)

(* The rating of a CVE, the counting of an answer and the answer about a   *)
(* package, as they are with other feeds: R is what is rated, M matched.   *)
RatingIn(R, c) ==
  IF c \in R THEN Ratings[c]
  ELSE [severity |-> None, score |-> 0, kev |-> FALSE, epss |-> 0]

CountIn(R, v, S) ==
  LET With(s) == Cardinality({c \in S : RatingIn(R, c).severity = s}) IN
  [critical |-> v.critical + With("CRITICAL"), high |-> v.high + With("HIGH"),
   medium |-> v.medium + With("MEDIUM"),
   low |-> v.low + Cardinality({c \in S : RatingIn(R, c).severity \notin
                                           {"CRITICAL", "HIGH", "MEDIUM"}}),
   kev |-> v.kev \/ \E c \in S : RatingIn(R, c).kev,
   cvss |-> Max({v.cvss} \cup {RatingIn(R, c).score : c \in S}),
   epss |-> Max({v.epss} \cup {RatingIn(R, c).epss : c \in S})]

AnswerIn(M, p) ==
  CpeLookup(UNION {ExtractCpeMatches(c, Records[c]) : c \in M}, p.name, p.name, p.version)

(* They are those of the code with the feeds as they stand.                *)
LEMMA AsTheFeedsAre ==
  /\ \A c : Rating(c) = RatingIn(rated, c)
  /\ \A v, S : Count(v, S) = CountIn(rated, v, S)
  /\ \A p : Answer(p) = AnswerIn(matched, p)
BY DEF Rating, RatingIn, Count, CountIn, Answer, AnswerIn, Matches

LEMMA RatingInType ==
  ASSUME NEW R, NEW c \in Cves
  PROVE  /\ RatingIn(R, c).severity \in Severities \cup {None}
         /\ RatingIn(R, c).kev \in BOOLEAN
         /\ RatingIn(R, c).score \in Nat /\ RatingIn(R, c).epss \in Nat
<1>1. Ratings[c] \in [severity : Severities \cup {None}, score : 0 .. 100,
                      kev : BOOLEAN, epss : 0 .. 100]
  BY ScanAssumption
<1>2. /\ Ratings[c].severity \in Severities \cup {None} /\ Ratings[c].kev \in BOOLEAN
      /\ Ratings[c].score \in 0 .. 100 /\ Ratings[c].epss \in 0 .. 100
  BY <1>1
<1>3. CASE c \in R
  <2>1. RatingIn(R, c) = Ratings[c]
    BY <1>3 DEF RatingIn
  <2> QED BY <1>2, <2>1
<1>4. CASE c \notin R
  <2>1. RatingIn(R, c) = [severity |-> None, score |-> 0, kev |-> FALSE, epss |-> 0]
    BY <1>4 DEF RatingIn
  <2> QED BY <2>1
<1> QED BY <1>3, <1>4

(* A CVE that is rated keeps its rating, and an unrated one has the least. *)
LEMMA RatingGrows ==
  ASSUME NEW R, NEW Q, R \subseteq Q, NEW c \in Cves
  PROVE  /\ \A s \in Severities : RatingIn(R, c).severity = s => RatingIn(Q, c).severity = s
         /\ RatingIn(R, c).kev => RatingIn(Q, c).kev
         /\ RatingIn(R, c).score <= RatingIn(Q, c).score
         /\ RatingIn(R, c).epss <= RatingIn(Q, c).epss
<1>1. CASE c \in R
  <2>1. RatingIn(R, c) = RatingIn(Q, c)
    BY <1>1 DEF RatingIn
  <2> QED BY <2>1, RatingInType
<1>2. CASE c \notin R
  <2>1. RatingIn(R, c) = [severity |-> None, score |-> 0, kev |-> FALSE, epss |-> 0]
    BY <1>2 DEF RatingIn
  <2>2. None \notin Severities
    BY ScanAssumption
  <2>3. RatingIn(Q, c).score \in Nat /\ RatingIn(Q, c).epss \in Nat
    BY RatingInType
  <2>4. /\ RatingIn(R, c).severity = None /\ RatingIn(R, c).kev = FALSE
        /\ RatingIn(R, c).score = 0 /\ RatingIn(R, c).epss = 0
    BY <2>1
  <2>5. \A s \in Severities : RatingIn(R, c).severity # s
    BY <2>2, <2>4
  <2>6. 0 <= RatingIn(Q, c).score /\ 0 <= RatingIn(Q, c).epss
    BY <2>3
  <2>7. ~RatingIn(R, c).kev
    BY <2>4
  <2> QED BY <2>4, <2>5, <2>6, <2>7
<1> QED BY <1>1, <1>2

(* The greatest of some values and of more, each at least as great.        *)
LEMMA GreatestGrows ==
  ASSUME NEW S, IsFiniteSet(S), NEW f \in [S -> Nat], NEW a \in Nat,
         NEW T, IsFiniteSet(T), NEW h \in [T -> Nat], NEW b \in Nat,
         a <= b, S \subseteq T, \A c \in S : f[c] <= h[c]
  PROVE  /\ Max({a} \cup {f[c] : c \in S}) \in Nat
         /\ Max({a} \cup {f[c] : c \in S}) <= Max({b} \cup {h[c] : c \in T})
<1> DEFINE A == {a} \cup {f[c] : c \in S}
           B == {b} \cup {h[c] : c \in T}
<1>1. IsFiniteSet(A) /\ A \in SUBSET Nat /\ A # {}
  <2>1. IsFiniteSet({f[c] : c \in S})
    BY FiniteImage
  <2>2. IsFiniteSet({f[c] : c \in S} \cup {a})
    BY <2>1, FS_AddElement
  <2>3. A = {f[c] : c \in S} \cup {a}
    OBVIOUS
  <2> QED BY <2>2, <2>3
<1>2. IsFiniteSet(B) /\ B \in SUBSET Nat /\ B # {}
  <2>1. IsFiniteSet({h[c] : c \in T})
    BY FiniteImage
  <2>2. IsFiniteSet({h[c] : c \in T} \cup {b})
    BY <2>1, FS_AddElement
  <2>3. B = {h[c] : c \in T} \cup {b}
    OBVIOUS
  <2> QED BY <2>2, <2>3
<1>3. \A x \in A : \E y \in B : x <= y
  OBVIOUS
<1> HIDE DEF A, B
<1>4. Max(A) \in A
  BY <1>1, Greatest
<1>5. PICK y \in B : Max(A) <= y
  BY <1>3, <1>4
<1>6. Max(B) \in B /\ Max(B) >= y
  BY <1>2, Greatest
<1>7. Max(A) \in Nat /\ y \in Nat /\ Max(B) \in Nat
  BY <1>1, <1>2, <1>4, <1>5, <1>6
<1>8. Max(A) <= Max(B)
  BY <1>5, <1>6, <1>7
<1> QED BY <1>7, <1>8 DEF A, B

(* Sets that share nothing add up.                                         *)
LEMMA DisjointUnion ==
  ASSUME NEW A, NEW B, IsFiniteSet(A), IsFiniteSet(B), A \cap B = {}
  PROVE  /\ IsFiniteSet(A \cup B)
         /\ Cardinality(A) \in Nat /\ Cardinality(B) \in Nat
         /\ Cardinality(A \cup B) = Cardinality(A) + Cardinality(B)
<1>1. /\ IsFiniteSet(A \cup B)
      /\ Cardinality(A \cup B) = Cardinality(A) + Cardinality(B) - Cardinality(A \cap B)
  BY FS_Union
<1>2. Cardinality(A \cap B) = 0
  BY FS_EmptySet
<1>3. Cardinality(A) \in Nat /\ Cardinality(B) \in Nat
  BY FS_CardinalityType
<1> QED BY <1>1, <1>2, <1>3

(* Counting an answer keeps what was counted in its type, and adds as many *)
(* CVEs as the answer has.                                                 *)
LEMMA CountAdds ==
  ASSUME NEW R, NEW v \in Counted, NEW S \in SUBSET Cves
  PROVE  /\ CountIn(R, v, S) \in Counted
         /\ Cardinality(S) \in Nat
         /\ Total(CountIn(R, v, S)) = Total(v) + Cardinality(S)
<1> DEFINE Crit == {c \in S : RatingIn(R, c).severity = "CRITICAL"}
           High == {c \in S : RatingIn(R, c).severity = "HIGH"}
           Medium == {c \in S : RatingIn(R, c).severity = "MEDIUM"}
           Others == {c \in S : RatingIn(R, c).severity \notin {"CRITICAL", "HIGH", "MEDIUM"}}
           cvss == [c \in S |-> RatingIn(R, c).score]
           epss == [c \in S |-> RatingIn(R, c).epss]
<1>1. /\ v.critical \in Nat /\ v.high \in Nat /\ v.medium \in Nat /\ v.low \in Nat
      /\ v.kev \in BOOLEAN /\ v.cvss \in Nat /\ v.epss \in Nat
  BY DEF Counted
<1>2. IsFiniteSet(S)
  BY FS_Subset, ScanAssumption
<1>3. IsFiniteSet(Crit) /\ IsFiniteSet(High) /\ IsFiniteSet(Medium) /\ IsFiniteSet(Others)
  BY <1>2, FS_Subset
<1>4. /\ Crit \cap High = {} /\ (Crit \cup High) \cap Medium = {}
      /\ (Crit \cup High \cup Medium) \cap Others = {}
      /\ Crit \cup High \cup Medium \cup Others = S
  OBVIOUS
<1>5. cvss \in [S -> Nat] /\ epss \in [S -> Nat]
  BY RatingInType
<1>6. CountIn(R, v, S) =
        [critical |-> v.critical + Cardinality(Crit), high |-> v.high + Cardinality(High),
         medium |-> v.medium + Cardinality(Medium), low |-> v.low + Cardinality(Others),
         kev |-> v.kev \/ \E c \in S : RatingIn(R, c).kev,
         cvss |-> Max({v.cvss} \cup {RatingIn(R, c).score : c \in S}),
         epss |-> Max({v.epss} \cup {RatingIn(R, c).epss : c \in S})]
  BY DEF CountIn
<1>7. /\ {cvss[c] : c \in S} = {RatingIn(R, c).score : c \in S}
      /\ {epss[c] : c \in S} = {RatingIn(R, c).epss : c \in S}
  OBVIOUS
<1> HIDE DEF Crit, High, Medium, Others, cvss, epss
<1>8. /\ IsFiniteSet(Crit \cup High) /\ Cardinality(Crit) \in Nat /\ Cardinality(High) \in Nat
      /\ Cardinality(Crit \cup High) = Cardinality(Crit) + Cardinality(High)
  BY <1>3, <1>4, DisjointUnion
<1>9. /\ IsFiniteSet(Crit \cup High \cup Medium) /\ Cardinality(Medium) \in Nat
      /\ Cardinality(Crit \cup High \cup Medium)
           = Cardinality(Crit \cup High) + Cardinality(Medium)
  BY <1>3, <1>4, <1>8, DisjointUnion
<1>10. /\ Cardinality(Others) \in Nat
       /\ Cardinality(Crit \cup High \cup Medium \cup Others)
            = Cardinality(Crit \cup High \cup Medium) + Cardinality(Others)
  BY <1>3, <1>4, <1>9, DisjointUnion
<1>11. Cardinality(S) = Cardinality(Crit) + Cardinality(High) + Cardinality(Medium)
                        + Cardinality(Others)
  BY <1>4, <1>8, <1>9, <1>10
<1>12. Max({v.cvss} \cup {cvss[c] : c \in S}) \in Nat
  <2>1. v.cvss <= v.cvss /\ \A c \in S : cvss[c] <= cvss[c]
    BY <1>1, <1>5
  <2> QED BY <1>1, <1>2, <1>5, <2>1, GreatestGrows
<1>13. Max({v.epss} \cup {epss[c] : c \in S}) \in Nat
  <2>1. v.epss <= v.epss /\ \A c \in S : epss[c] <= epss[c]
    BY <1>1, <1>5
  <2> QED BY <1>1, <1>2, <1>5, <2>1, GreatestGrows
<1>14. (v.kev \/ \E c \in S : RatingIn(R, c).kev) \in BOOLEAN
  OBVIOUS
<1>15. CountIn(R, v, S) \in Counted
  <2> DEFINE x == Max({v.cvss} \cup {RatingIn(R, c).score : c \in S})
             y == Max({v.epss} \cup {RatingIn(R, c).epss : c \in S})
             b == v.kev \/ \E c \in S : RatingIn(R, c).kev
  <2>1. x \in Nat /\ y \in Nat /\ b \in BOOLEAN
    BY <1>7, <1>12, <1>13, <1>14
  <2>2. CountIn(R, v, S) =
          [critical |-> v.critical + Cardinality(Crit), high |-> v.high + Cardinality(High),
           medium |-> v.medium + Cardinality(Medium), low |-> v.low + Cardinality(Others),
           kev |-> b, cvss |-> x, epss |-> y]
    BY <1>6
  <2> HIDE DEF x, y, b
  <2> QED BY <1>1, <1>8, <1>9, <1>10, <2>1, <2>2 DEF Counted
<1>16. Total(CountIn(R, v, S)) = v.critical + Cardinality(Crit) + v.high + Cardinality(High)
         + v.medium + Cardinality(Medium) + v.low + Cardinality(Others)
  <2>1. /\ CountIn(R, v, S).critical = v.critical + Cardinality(Crit)
        /\ CountIn(R, v, S).high = v.high + Cardinality(High)
        /\ CountIn(R, v, S).medium = v.medium + Cardinality(Medium)
        /\ CountIn(R, v, S).low = v.low + Cardinality(Others)
    BY <1>6
  <2> QED BY <1>1, <1>8, <1>9, <1>10, <2>1 DEF Total
<1>17. Cardinality(S) \in Nat
  BY <1>8, <1>9, <1>10, <1>11
<1> QED BY <1>1, <1>8, <1>9, <1>10, <1>11, <1>15, <1>16, <1>17 DEF Total

(* From no less counted, with more CVEs in the answer and more of them     *)
(* rated, no less is counted.                                              *)
LEMMA CountGrows ==
  ASSUME NEW R, NEW Q, R \subseteq Q, NEW v \in Counted, NEW w \in Counted, Within(v, w),
         NEW S \in SUBSET Cves, NEW T \in SUBSET Cves, S \subseteq T
  PROVE  Within(CountIn(R, v, S), CountIn(Q, w, T))
<1> DEFINE Of(P, X, s) == {c \in X : RatingIn(P, c).severity = s}
           f == [c \in S |-> RatingIn(R, c).score]
           h == [c \in T |-> RatingIn(Q, c).score]
           k == [c \in S |-> RatingIn(R, c).epss]
           m == [c \in T |-> RatingIn(Q, c).epss]
<1>1. /\ v.critical \in Nat /\ v.high \in Nat /\ v.medium \in Nat /\ v.low \in Nat
      /\ v.kev \in BOOLEAN /\ v.cvss \in Nat /\ v.epss \in Nat
      /\ w.critical \in Nat /\ w.high \in Nat /\ w.medium \in Nat /\ w.low \in Nat
      /\ w.kev \in BOOLEAN /\ w.cvss \in Nat /\ w.epss \in Nat
  BY DEF Counted
<1>2. /\ v.critical <= w.critical /\ v.high <= w.high /\ v.medium <= w.medium
      /\ Total(v) <= Total(w) /\ (v.kev => w.kev) /\ v.cvss <= w.cvss /\ v.epss <= w.epss
  BY DEF Within
<1>3. IsFiniteSet(S) /\ IsFiniteSet(T)
  BY FS_Subset, ScanAssumption
<1>4. ASSUME NEW s \in Severities
      PROVE  /\ Cardinality(Of(R, S, s)) \in Nat /\ Cardinality(Of(Q, T, s)) \in Nat
             /\ Cardinality(Of(R, S, s)) <= Cardinality(Of(Q, T, s))
  <2>1. Of(R, S, s) \subseteq Of(Q, T, s)
    <3> SUFFICES ASSUME NEW c \in S, RatingIn(R, c).severity = s
                 PROVE  c \in T /\ RatingIn(Q, c).severity = s
      OBVIOUS
    <3> QED BY RatingGrows
  <2>2. IsFiniteSet(Of(R, S, s)) /\ IsFiniteSet(Of(Q, T, s))
    BY <1>3, FS_Subset
  <2> HIDE DEF Of
  <2>3. Cardinality(Of(R, S, s)) <= Cardinality(Of(Q, T, s))
    BY <2>1, <2>2, FS_Subset
  <2>4. Cardinality(Of(R, S, s)) \in Nat /\ Cardinality(Of(Q, T, s)) \in Nat
    BY <2>2, FS_CardinalityType
  <2> QED BY <2>3, <2>4
<1>5. "CRITICAL" \in Severities /\ "HIGH" \in Severities /\ "MEDIUM" \in Severities
  BY DEF Severities
<1>6. /\ f \in [S -> Nat] /\ h \in [T -> Nat] /\ k \in [S -> Nat] /\ m \in [T -> Nat]
      /\ \A c \in S : f[c] <= h[c] /\ k[c] <= m[c]
  <2>1. f \in [S -> Nat] /\ k \in [S -> Nat]
    BY RatingInType
  <2>2. h \in [T -> Nat] /\ m \in [T -> Nat]
    BY RatingInType
  <2>3. ASSUME NEW c \in S PROVE f[c] <= h[c] /\ k[c] <= m[c]
    <3>1. c \in T /\ c \in Cves
      OBVIOUS
    <3> QED BY <3>1, RatingGrows
  <2> QED BY <2>1, <2>2, <2>3
<1>7. Max({v.cvss} \cup {f[c] : c \in S}) <= Max({w.cvss} \cup {h[c] : c \in T})
  <2>1. f \in [S -> Nat] /\ h \in [T -> Nat] /\ \A c \in S : f[c] <= h[c]
    BY <1>6
  <2> HIDE DEF f, h
  <2> QED BY <1>1, <1>2, <1>3, <2>1, GreatestGrows
<1>8. Max({v.epss} \cup {k[c] : c \in S}) <= Max({w.epss} \cup {m[c] : c \in T})
  <2>1. k \in [S -> Nat] /\ m \in [T -> Nat] /\ \A c \in S : k[c] <= m[c]
    BY <1>6
  <2> HIDE DEF k, m
  <2> QED BY <1>1, <1>2, <1>3, <2>1, GreatestGrows
<1>9. /\ {f[c] : c \in S} = {RatingIn(R, c).score : c \in S}
      /\ {h[c] : c \in T} = {RatingIn(Q, c).score : c \in T}
      /\ {k[c] : c \in S} = {RatingIn(R, c).epss : c \in S}
      /\ {m[c] : c \in T} = {RatingIn(Q, c).epss : c \in T}
  OBVIOUS
<1>10. /\ CountIn(R, v, S).critical = v.critical + Cardinality(Of(R, S, "CRITICAL"))
       /\ CountIn(R, v, S).high = v.high + Cardinality(Of(R, S, "HIGH"))
       /\ CountIn(R, v, S).medium = v.medium + Cardinality(Of(R, S, "MEDIUM"))
       /\ CountIn(R, v, S).cvss = Max({v.cvss} \cup {RatingIn(R, c).score : c \in S})
       /\ CountIn(R, v, S).epss = Max({v.epss} \cup {RatingIn(R, c).epss : c \in S})
  BY DEF CountIn
<1>11. /\ CountIn(Q, w, T).critical = w.critical + Cardinality(Of(Q, T, "CRITICAL"))
      /\ CountIn(Q, w, T).high = w.high + Cardinality(Of(Q, T, "HIGH"))
      /\ CountIn(Q, w, T).medium = w.medium + Cardinality(Of(Q, T, "MEDIUM"))
      /\ CountIn(Q, w, T).cvss = Max({w.cvss} \cup {RatingIn(Q, c).score : c \in T})
      /\ CountIn(Q, w, T).epss = Max({w.epss} \cup {RatingIn(Q, c).epss : c \in T})
  BY DEF CountIn
<1>12. CountIn(R, v, S).kev => CountIn(Q, w, T).kev
  <2>1. CountIn(R, v, S).kev = (v.kev \/ \E c \in S : RatingIn(R, c).kev)
    BY DEF CountIn
  <2>2. CountIn(Q, w, T).kev = (w.kev \/ \E c \in T : RatingIn(Q, c).kev)
    BY DEF CountIn
  <2>3. \A c \in S : c \in T /\ (RatingIn(R, c).kev => RatingIn(Q, c).kev)
    BY RatingGrows
  <2> QED BY <1>2, <2>1, <2>2, <2>3, Zenon
<1>13. Total(CountIn(R, v, S)) <= Total(CountIn(Q, w, T))
  <2>1. Cardinality(S) <= Cardinality(T)
    BY <1>3, FS_Subset
  <2>2. /\ Cardinality(S) \in Nat /\ Total(CountIn(R, v, S)) = Total(v) + Cardinality(S)
        /\ Cardinality(T) \in Nat /\ Total(CountIn(Q, w, T)) = Total(w) + Cardinality(T)
    BY CountAdds
  <2>3. Total(v) \in Nat /\ Total(w) \in Nat
    BY <1>1 DEF Total
  <2> QED BY <1>2, <2>1, <2>2, <2>3
<1>14. CountIn(R, v, S).cvss <= CountIn(Q, w, T).cvss
  BY <1>7, <1>9, <1>10, <1>11
<1>15. CountIn(R, v, S).epss <= CountIn(Q, w, T).epss
  BY <1>8, <1>9, <1>10, <1>11
<1>16. CountIn(R, v, S).critical <= CountIn(Q, w, T).critical
  <2>1. /\ CountIn(R, v, S).critical = v.critical + Cardinality(Of(R, S, "CRITICAL"))
        /\ CountIn(Q, w, T).critical = w.critical + Cardinality(Of(Q, T, "CRITICAL"))
    BY <1>10, <1>11
  <2> HIDE DEF Of
  <2> QED BY <1>1, <1>2, <1>4, <1>5, <2>1
<1>17. CountIn(R, v, S).high <= CountIn(Q, w, T).high
  <2>1. /\ CountIn(R, v, S).high = v.high + Cardinality(Of(R, S, "HIGH"))
        /\ CountIn(Q, w, T).high = w.high + Cardinality(Of(Q, T, "HIGH"))
    BY <1>10, <1>11
  <2> HIDE DEF Of
  <2> QED BY <1>1, <1>2, <1>4, <1>5, <2>1
<1>18. CountIn(R, v, S).medium <= CountIn(Q, w, T).medium
  <2>1. /\ CountIn(R, v, S).medium = v.medium + Cardinality(Of(R, S, "MEDIUM"))
        /\ CountIn(Q, w, T).medium = w.medium + Cardinality(Of(Q, T, "MEDIUM"))
    BY <1>10, <1>11
  <2> HIDE DEF Of
  <2> QED BY <1>1, <1>2, <1>4, <1>5, <2>1
<1> QED BY <1>12, <1>13, <1>14, <1>15, <1>16, <1>17, <1>18 DEF Within

(* Nothing is hidden by more rows, unless they are under a vendor of the   *)
(* package's own name.                                                     *)
LEMMA AnswerGrows ==
  ASSUME NEW M, NEW N, NEW p, Published \subseteq M, M \subseteq N,
         ~OwnVendor(p, N \ Published)
  PROVE  AnswerIn(M, p) \subseteq AnswerIn(N, p)
<1> DEFINE few == UNION {ExtractCpeMatches(c, Records[c]) : c \in M}
           many == UNION {ExtractCpeMatches(c, Records[c]) : c \in N}
           Own(matches) == {m \in matches : m.vendor = p.name /\ m.product = p.name}
<1>1. few \subseteq many
  OBVIOUS
<1>2. Own(few) = {} => Own(many) = {}
  <2> SUFFICES ASSUME NEW m \in many, m.vendor = p.name, m.product = p.name
               PROVE  m \in few
    OBVIOUS
  <2>1. PICK c \in N : m \in ExtractCpeMatches(c, Records[c])
    OBVIOUS
  <2>2. c \in Published
    BY <2>1 DEF OwnVendor
  <2> QED BY <2>1, <2>2
<1>3. LookupCpeMatch(few, p.name, p.name) \subseteq LookupCpeMatch(many, p.name, p.name)
  <2> HIDE DEF few, many
  <2>1. CASE Own(few) # {}
    <3>1. Own(few) \subseteq Own(many)
      BY <1>1
    <3>2. Own(many) # {}
      BY <2>1, <3>1
    <3>3. /\ LookupCpeMatch(few, p.name, p.name) = Own(few)
          /\ LookupCpeMatch(many, p.name, p.name) = Own(many)
      BY <2>1, <3>2 DEF LookupCpeMatch
    <3> QED BY <3>1, <3>3
  <2>2. CASE Own(few) = {}
    <3>1. /\ LookupCpeMatch(few, p.name, p.name) = {m \in few : m.product = p.name}
          /\ LookupCpeMatch(many, p.name, p.name) = {m \in many : m.product = p.name}
      BY <1>2, <2>2 DEF LookupCpeMatch
    <3> QED BY <1>1, <3>1
  <2> QED BY <2>1, <2>2
<1>4. /\ AnswerIn(M, p) = CpeLookup(few, p.name, p.name, p.version)
      /\ AnswerIn(N, p) = CpeLookup(many, p.name, p.name, p.version)
  BY DEF AnswerIn
<1> HIDE DEF few, many
<1> QED BY <1>3, <1>4 DEF CpeLookup

(* An answer names published CVEs.                                         *)
LEMMA AnswersAreCves ==
  ASSUME NEW M \in SUBSET Cves, NEW p
  PROVE  AnswerIn(M, p) \subseteq Cves
<1> SUFFICES ASSUME NEW c \in AnswerIn(M, p) PROVE c \in Cves
  OBVIOUS
<1> DEFINE all == UNION {ExtractCpeMatches(d, Records[d]) : d \in M}
<1>1. PICK m \in LookupCpeMatch(all, p.name, p.name) : c = m.cve
  BY DEF AnswerIn, CpeLookup
<1>2. m \in all
  BY <1>1 DEF LookupCpeMatch
<1>3. PICK d \in M : m \in ExtractCpeMatches(d, Records[d])
  BY <1>2
<1>4. m.cve = d
  BY <1>3 DEF ExtractCpeMatches, EntryRows, VersionRow, CpeRow
<1> QED BY <1>1, <1>3, <1>4

(* The counters after each package of ps, if the feeds hold M and R from   *)
(* the first look-up to the last.                                          *)
IsScan(h, ps, M, R) ==
  /\ h \in [0 .. Len(ps) -> Counted]
  /\ h[0] = Nothing
  /\ \A k \in 1 .. Len(ps) : h[k] = CountIn(R, h[k - 1], AnswerIn(M, ps[k]))

LEMMA NothingCounted ==
  /\ Nothing \in Counted
  /\ NoFindings \in Findings
BY DEF Nothing, Counted, NoFindings, Findings

LEMMA WithinItself == ASSUME NEW v \in Counted PROVE Within(v, v)
BY DEF Counted, Total, Within

LEMMA WithinTransitive ==
  ASSUME NEW u \in Counted, NEW v \in Counted, NEW w \in Counted, Within(u, v), Within(v, w)
  PROVE  Within(u, w)
<1>1. Total(u) \in Nat /\ Total(v) \in Nat /\ Total(w) \in Nat
  BY DEF Counted, Total
<1>2. Total(u) <= Total(w)
  BY <1>1 DEF Within
<1> QED BY <1>2 DEF Within, Counted

(* There is such a scan: the counters are a recursion over the packages.   *)
LEMMA ScanExists ==
  ASSUME NEW ps, Len(ps) \in Nat, NEW M \in SUBSET Cves, NEW R
  PROVE  \E h : IsScan(h, ps, M, R)
<1> DEFINE Upto(h, n) ==
             /\ h \in [0 .. Len(ps) -> Counted]
             /\ h[0] = Nothing
             /\ \A k \in 1 .. Len(ps) :
                  k <= n => h[k] = CountIn(R, h[k - 1], AnswerIn(M, ps[k]))
           Good == {n \in Nat : \E h : Upto(h, n)}
<1>1. 0 \in Good
  <2> DEFINE h == [k \in 0 .. Len(ps) |-> Nothing]
  <2>1. Upto(h, 0)
    BY NothingCounted
  <2> QED BY <2>1
<1>2. ASSUME NEW n \in Good PROVE n + 1 \in Good
  <2>1. PICK h : Upto(h, n)
    OBVIOUS
  <2>2. CASE n + 1 > Len(ps)
    <3>1. Upto(h, n + 1)
      BY <2>1, <2>2
    <3> QED BY <3>1
  <2>3. CASE n + 1 <= Len(ps)
    <3> DEFINE new == CountIn(R, h[n], AnswerIn(M, ps[n + 1]))
               g == [h EXCEPT ![n + 1] = new]
    <3>1. n \in 0 .. Len(ps) /\ n + 1 \in 0 .. Len(ps) /\ n \in Nat
      BY <2>3
    <3>2. new \in Counted
      <4>1. h[n] \in Counted
        BY <2>1, <3>1
      <4> QED BY <4>1, AnswersAreCves, CountAdds
    <3>3. g \in [0 .. Len(ps) -> Counted] /\ g[n + 1] = new
      <4> HIDE DEF new
      <4> QED BY <2>1, <3>1, <3>2
    <3>4. \A k \in 0 .. Len(ps) : k # n + 1 => g[k] = h[k]
      <4> HIDE DEF new
      <4> QED BY <2>1
    <3> HIDE DEF g
    <3>5. g[0] = Nothing
      BY <2>1, <3>1, <3>4
    <3>6. ASSUME NEW k \in 1 .. Len(ps), k <= n + 1
          PROVE  g[k] = CountIn(R, g[k - 1], AnswerIn(M, ps[k]))
      <4>1. k - 1 \in 0 .. Len(ps) /\ k - 1 # n + 1 /\ k \in 0 .. Len(ps)
        BY <3>1, <3>6
      <4>2. g[k - 1] = h[k - 1]
        BY <3>4, <4>1
      <4>3. CASE k = n + 1
        <5>1. k - 1 = n
          BY <3>1, <4>3
        <5> QED BY <3>3, <4>2, <4>3, <5>1
      <4>4. CASE k # n + 1
        <5>1. k <= n
          BY <3>1, <3>6, <4>4
        <5>2. h[k] = CountIn(R, h[k - 1], AnswerIn(M, ps[k]))
          BY <2>1, <5>1
        <5>3. g[k] = h[k]
          BY <3>4, <4>1, <4>4
        <5> QED BY <4>2, <5>2, <5>3
      <4> QED BY <4>3, <4>4
    <3>7. Upto(g, n + 1)
      BY <3>3, <3>5, <3>6
    <3> QED BY <3>1, <3>7
  <2> QED BY <2>2, <2>3
<1> HIDE DEF Good
<1>3. Len(ps) \in Good
  BY <1>1, <1>2, Induction
<1>4. PICK h : Upto(h, Len(ps))
  BY <1>3 DEF Good
<1>5. \A k \in 1 .. Len(ps) : k <= Len(ps)
  OBVIOUS
<1> QED BY <1>4, <1>5 DEF IsScan

(* With more in the feeds, and no vendor of a package's own name among it, *)
(* a scan counts no less after each package.                               *)
LEMMA ScansGrow ==
  ASSUME NEW ps, Len(ps) \in Nat,
         NEW M \in SUBSET Cves, NEW N \in SUBSET Cves, Published \subseteq M, M \subseteq N,
         NEW R, NEW Q, R \subseteq Q,
         \A i \in 1 .. Len(ps) : ~OwnVendor(ps[i], N \ Published),
         NEW g, IsScan(g, ps, M, R), NEW h, IsScan(h, ps, N, Q)
  PROVE  \A k \in 0 .. Len(ps) : g[k] \in Counted /\ h[k] \in Counted /\ Within(g[k], h[k])
<1> DEFINE Good == {n \in Nat : n <= Len(ps) => Within(g[n], h[n])}
<1>1. \A k \in 0 .. Len(ps) : g[k] \in Counted /\ h[k] \in Counted
  BY DEF IsScan
<1>2. 0 \in Good
  <2>1. g[0] = Nothing /\ h[0] = Nothing
    BY DEF IsScan
  <2>2. Within(g[0], h[0])
    BY <2>1, NothingCounted, WithinItself
  <2> QED BY <2>2
<1>3. ASSUME NEW n \in Good PROVE n + 1 \in Good
  <2>1. n \in Nat
    OBVIOUS
  <2> SUFFICES ASSUME n + 1 <= Len(ps) PROVE Within(g[n + 1], h[n + 1])
    BY <2>1
  <2>2. n \in 0 .. Len(ps) /\ n + 1 \in 1 .. Len(ps) /\ (n + 1) - 1 = n
    BY <2>1
  <2>3. Within(g[n], h[n]) /\ g[n] \in Counted /\ h[n] \in Counted
    BY <1>1, <2>2
  <2>4. /\ g[n + 1] = CountIn(R, g[(n + 1) - 1], AnswerIn(M, ps[n + 1]))
        /\ h[n + 1] = CountIn(Q, h[(n + 1) - 1], AnswerIn(N, ps[n + 1]))
    BY <2>2 DEF IsScan
  <2>5. /\ AnswerIn(M, ps[n + 1]) \in SUBSET Cves /\ AnswerIn(N, ps[n + 1]) \in SUBSET Cves
        /\ AnswerIn(M, ps[n + 1]) \subseteq AnswerIn(N, ps[n + 1])
    BY <2>2, AnswersAreCves, AnswerGrows
  <2>6. Within(CountIn(R, g[n], AnswerIn(M, ps[n + 1])),
               CountIn(Q, h[n], AnswerIn(N, ps[n + 1])))
    BY <2>3, <2>5, CountGrows
  <2>7. /\ g[n + 1] = CountIn(R, g[n], AnswerIn(M, ps[n + 1]))
        /\ h[n + 1] = CountIn(Q, h[n], AnswerIn(N, ps[n + 1]))
    BY <2>2, <2>4
  <2> QED BY <2>6, <2>7
<1> HIDE DEF Good
<1>4. \A n \in Nat : n \in Good
  BY <1>2, <1>3, Induction
<1>5. \A k \in 0 .. Len(ps) : k \in Nat /\ k <= Len(ps)
  OBVIOUS
<1> QED BY <1>1, <1>4, <1>5 DEF Good

(* Nothing found, nothing scored.                                          *)
LEMMA NothingScoresNothing ==
  /\ ContainerScore(Nothing, NoFindings) = 0
  /\ SubScores(NoFindings) = <<0, 0, 0, 0, 0, 0>>
<1> DEFINE f == [i \in 1 .. Total(Nothing) |-> PerCvePoints(Nothing, i)]
<1>1. PICK F : /\ Sums(f, 1 .. Total(Nothing), F)
               /\ VulnSubScore(Nothing) = UpTo(VulnCap, F[1 .. Total(Nothing)])
  BY NothingCounted, VulnPointsSum
<1>2. 1 .. Total(Nothing) = {}
  BY DEF Total, Nothing
<1>3. IsFiniteSet(1 .. Total(Nothing))
  BY <1>2, FS_EmptySet
<1> HIDE DEF f
<1>4. F[{}] = 0
  BY <1>1, <1>3, SumsAt
<1>5. VulnSubScore(Nothing) = 0
  <2>1. F[1 .. Total(Nothing)] = F[{}]
    BY <1>2
  <2>2. F[1 .. Total(Nothing)] = 0
    BY <1>4, <2>1
  <2>3. VulnSubScore(Nothing) = UpTo(VulnCap, 0)
    BY <1>1, <2>2
  <2> QED BY <2>3 DEF UpTo, VulnCap, FullScale
<1>6. /\ Nothing.critical = 0 /\ Nothing.high = 0 /\ Nothing.kev = FALSE
  BY DEF Nothing
<1>7. /\ \A k \in Kinds : NoFindings.n[k] = 0
      /\ NoFindings.root = FALSE /\ NoFindings.unsigned = FALSE
  BY DEF NoFindings
<1>8. FloorOf(Nothing, NoFindings) = 0
  BY <1>6, <1>7 DEF FloorOf, Kinds
<1>9. /\ ConfigSubScore(NoFindings) = 0 /\ SupplySubScore(NoFindings) = 0
  BY <1>7 DEF ConfigSubScore, SupplySubScore, UpTo, If, Kinds
<1>10. /\ MaliciousSubScore(NoFindings) = 0 /\ SecretsSubScore(NoFindings) = 0
  BY <1>7 DEF MaliciousSubScore, SecretsSubScore, UpTo, If, Kinds
<1>11. /\ HygieneSubScore(NoFindings) = 0 /\ StructuralSubScore(NoFindings) = 0
  BY <1>7 DEF HygieneSubScore, StructuralSubScore, UpTo, If, Kinds
<1>12. SubScores(NoFindings) = <<0, 0, 0, 0, 0, 0>>
  BY <1>9, <1>10, <1>11 DEF SubScores
<1>13. SynergyBonus(0, NoFindings) = 0
  BY <1>12 DEF SynergyBonus, If
<1>14. Combined(0, NoFindings) = 0
  <2>1. (2 * 0 + FullScale) \div (2 * FullScale) = 0
    BY DEF FullScale
  <2> QED BY <1>12, <1>13, <2>1 DEF Combined, Summed, UpTo
<1> QED BY <1>5, <1>8, <1>12, <1>14 DEF ContainerScore, ScoreOf, UpTo, Floor

(* What was found in the layers never lowers the score.                    *)
LEMMA FindingsAdd ==
  ASSUME NEW v \in Counted, NEW f \in Findings
  PROVE  /\ ContainerScore(v, NoFindings) \in 0 .. 100
         /\ ContainerScore(v, NoFindings) <= ContainerScore(v, f)
<1> DEFINE p == VulnSubScore(v)
<1>1. p \in Nat
  BY VulnPointsAreNat
<1> HIDE DEF p
<1>2. NoFindings \in Findings
  BY NothingCounted
<1>3. SubScores(NoFindings) = <<0, 0, 0, 0, 0, 0>>
  BY NothingScoresNothing
<1>4. /\ ConfigSubScore(f) \in 0 .. 20 /\ SupplySubScore(f) \in 0 .. 20
      /\ MaliciousSubScore(f) \in 0 .. 30 /\ HygieneSubScore(f) \in 0 .. 15
      /\ StructuralSubScore(f) \in 0 .. 30 /\ SecretsSubScore(f) \in 0 .. 25
  BY SubScoreRanges
<1>5. /\ SynergyBonus(p, NoFindings) = 0 /\ SynergyBonus(p, f) \in 0 .. 10
  <2>1. SynergyBonus(p, f) \in 0 .. 10
    BY <1>1, BonusGrows
  <2>2. SynergyBonus(p, NoFindings) = 0
    BY <1>1, <1>3 DEF SynergyBonus, If
  <2> QED BY <2>1, <2>2
<1>6. Summed(p, NoFindings) \in Nat /\ Summed(p, NoFindings) <= Summed(p, f)
  <2> DEFINE points == (2 * p + FullScale) \div (2 * FullScale)
  <2>1. points \in Nat
    BY <1>1 DEF FullScale
  <2>2. Summed(p, NoFindings) = points
    BY <1>3, <1>5, <2>1 DEF Summed
  <2>3. Summed(p, f) = points + ConfigSubScore(f) + SupplySubScore(f) + MaliciousSubScore(f)
                       + HygieneSubScore(f) + StructuralSubScore(f) + SecretsSubScore(f)
                       + SynergyBonus(p, f)
    BY DEF Summed, SubScores
  <2> HIDE DEF points
  <2>4. \A a, b, c, d, e, g, h \in Nat : points <= points + a + b + c + d + e + g + h
    BY <2>1
  <2>5. /\ ConfigSubScore(f) \in Nat /\ SupplySubScore(f) \in Nat
        /\ MaliciousSubScore(f) \in Nat /\ HygieneSubScore(f) \in Nat
        /\ StructuralSubScore(f) \in Nat /\ SecretsSubScore(f) \in Nat
        /\ SynergyBonus(p, f) \in Nat
    BY <1>4, <1>5
  <2> QED BY <2>1, <2>2, <2>3, <2>4, <2>5
<1>7. Summed(p, f) \in Nat
  BY <1>1, SumGrows
<1>8. FloorOf(v, NoFindings) <= FloorOf(v, f)
  <2>1. \A k \in Kinds : NoFindings.n[k] = 0
    BY DEF NoFindings
  <2>2. FloorOf(v, NoFindings) = IF v.critical > 0 \/ v.kev THEN 70
                                 ELSE IF v.high > 0 THEN 40 ELSE 0
    BY <2>1 DEF FloorOf, Kinds
  <2>3. FloorOf(v, f) >= IF v.critical > 0 \/ v.kev THEN 70
                         ELSE IF v.high > 0 THEN 40 ELSE 0
    BY DEF FloorOf
  <2> QED BY <2>2, <2>3, FloorRange
<1>9. FloorOf(v, f) \in 0 .. 90 /\ FloorOf(v, NoFindings) \in 0 .. 90
  BY FloorRange
<1>10. /\ ScoreOf(p, v, NoFindings) \in 0 .. 100
       /\ ScoreOf(p, v, NoFindings) <= ScoreOf(p, v, f)
  BY <1>6, <1>7, <1>8, <1>9 DEF ScoreOf, Combined, UpTo, Floor
<1> QED BY <1>10 DEF ContainerScore, p

(* What ScanIsNotWeakened asks of the feeds and of the reports, and the    *)
(* packages looked up.                                                     *)
NoOwn ==
  /\ \A i \in DOMAIN image.packages : ~OwnVendor(image.packages[i], matched \ Published)
  /\ {"python"} \notin reports
Last == UpTo(PackageLimit, Len(image.packages))

(* The delivery has counted no more than a scan of the feeds as they are   *)
AtMost ==
  pc = "lookup" =>
    /\ next - 1 <= UpTo(PackageLimit, Len(Packages))
    /\ \E h : IsScan(h, image.packages, matched, rated) /\ Within(counted, h[next - 1])

(* would; and no less, if nothing has failed, than a scan of what the      *)
(* feeds held once, which the score that is stored does not exceed.        *)
AtLeast ==
  \E M \in SUBSET matched, R \in SUBSET rated : \E h :
    /\ Published \subseteq M
    /\ IsScan(h, image.packages, M, R)
    /\ score # None => score <= ContainerScore(h[Last], image.findings)
    /\ pc = "lookup" /\ ~disturbed /\ sbom = Tools => Within(h[next - 1], counted)

(* The inductive invariant.                                                *)
GInv ==
  /\ LInv
  /\ Published \subseteq matched
  /\ score \in (0 .. 100) \cup {None}
  /\ reports \subseteq SUBSET Tools
  /\ pc = "lookup" => sbom \in reports \cup {{}}
  /\ NoOwn => AtMost /\ AtLeast

LEMMA ImageType ==
  ASSUME image \in Images
  PROVE  /\ Len(image.packages) \in Nat /\ DOMAIN image.packages = 1 .. Len(image.packages)
         /\ Last \in 0 .. Len(image.packages) /\ image.findings \in Findings
<1>1. image.packages \in Seq(Package)
  BY ScanAssumption
<1>2. Len(image.packages) \in Nat /\ DOMAIN image.packages = 1 .. Len(image.packages)
  BY <1>1
<1>3. PackageLimit \in Nat /\ image.findings \in Findings
  BY ScanAssumption
<1>4. Last \in 0 .. Len(image.packages)
  BY <1>2, <1>3 DEF Last, UpTo
<1> QED BY <1>2, <1>3, <1>4

(* The reports that there are let the workflow look up syft's packages or  *)
(* none.                                                                   *)
LEMMA ListLookedUp ==
  ASSUME image \in Images, reports \subseteq SUBSET Tools, {"python"} \notin reports,
         sbom \in reports \cup {{}}
  PROVE  /\ sbom \in {Tools, {"syft"}, {}}
         /\ Packages = IF sbom = {} THEN <<>> ELSE image.packages
         /\ Len(Packages) = IF sbom = {} THEN 0 ELSE Len(image.packages)
         /\ UpTo(PackageLimit, Len(Packages)) \in 0 .. Len(image.packages)
<1>1. sbom \subseteq Tools /\ sbom # {"python"}
  OBVIOUS
<1>2. sbom \in {Tools, {"syft"}, {}}
  BY <1>1 DEF Tools
<1>3. Packages = IF sbom = {} THEN <<>> ELSE image.packages
  BY <1>2 DEF Packages, Tools
<1>4. Len(Packages) = IF sbom = {} THEN 0 ELSE Len(image.packages)
  BY <1>3
<1>5. Len(image.packages) \in Nat
  BY ImageType
<1>6. UpTo(PackageLimit, Len(Packages)) \in 0 .. Len(image.packages)
  BY <1>4, <1>5, ScanAssumption DEF UpTo
<1> QED BY <1>2, <1>3, <1>4, <1>6

(* A new submission: no scan yet, and a scan of the feeds there is.        *)
LEMMA InitGrows == Init => GInv
<1> SUFFICES ASSUME Init PROVE GInv
  OBVIOUS
<1>1. LInv
  BY InitPays
<1>2. /\ image \in Images /\ pc = "dynamic" /\ score = None
      /\ matched = Published /\ rated = Published /\ matched \in SUBSET Cves
      /\ reports = {}
  BY ScanAssumption DEF Init
<1>3. PICK h : IsScan(h, image.packages, matched, rated)
  BY <1>2, ImageType, ScanExists
<1>4. AtLeast
  BY <1>2, <1>3 DEF AtLeast
<1>5. AtMost
  BY <1>2 DEF AtMost
<1> QED BY <1>1, <1>2, <1>4, <1>5 DEF GInv

(* When the last package is looked up the score is as great as a scan of   *)
(* the feeds as they are would give, at most, and, if nothing has failed,  *)
(* as the stored score at least.                                           *)
LEMMA FinishGrows ==
  ASSUME GInv, Finish, NoOwn
  PROVE  /\ score' \in 0 .. 100
         /\ \E h : IsScan(h, image.packages, matched, rated)
                   /\ score' <= ContainerScore(h[Last], image.findings)
         /\ score # None /\ ~disturbed /\ sbom = Tools => score <= score'
<1>1. /\ pc = "lookup" /\ ~LookingUp
      /\ score' = ContainerScore(counted, IF "python" \in sbom THEN image.findings ELSE NoFindings)
  BY DEF Finish
<1>2. /\ image \in Images /\ next \in Nat \ {0} /\ counted \in Counted
      /\ score \in (0 .. 100) \cup {None}
      /\ reports \subseteq SUBSET Tools /\ {"python"} \notin reports
      /\ sbom \in reports \cup {{}}
      /\ matched \in SUBSET Cves
  BY <1>1 DEF GInv, LInv, NoOwn
<1>3. /\ Len(image.packages) \in Nat /\ Last \in 0 .. Len(image.packages)
      /\ image.findings \in Findings
      /\ UpTo(PackageLimit, Len(Packages)) \in 0 .. Len(image.packages)
      /\ sbom \in {Tools, {"syft"}, {}}
      /\ Len(Packages) = IF sbom = {} THEN 0 ELSE Len(image.packages)
  BY <1>2, ImageType, ListLookedUp
<1>4. /\ next - 1 <= UpTo(PackageLimit, Len(Packages))
      /\ \E h : IsScan(h, image.packages, matched, rated) /\ Within(counted, h[next - 1])
  BY <1>1 DEF GInv, AtMost
<1>5. next - 1 = UpTo(PackageLimit, Len(Packages))
  BY <1>1, <1>2, <1>3, <1>4 DEF LookingUp
<1>6. PICK h : IsScan(h, image.packages, matched, rated) /\ Within(counted, h[next - 1])
  BY <1>4
<1>7. \A k \in 0 .. Len(image.packages) : h[k] \in Counted
  BY <1>6 DEF IsScan
<1>8. CASE sbom = Tools
  <2>1. next - 1 = Last
    BY <1>3, <1>5, <1>8 DEF Last, Tools
  <2>2. score' = ContainerScore(counted, image.findings)
    BY <1>1, <1>8 DEF Tools
  <2>3. Within(counted, h[Last]) /\ h[Last] \in Counted
    BY <1>3, <1>6, <1>7, <2>1
  <2>4. /\ ContainerScore(counted, image.findings) \in 0 .. 100
        /\ ContainerScore(counted, image.findings) <= ContainerScore(h[Last], image.findings)
    BY <1>2, <1>3, <2>3, ScoreGrows
  <2>5. ASSUME score # None, ~disturbed PROVE score <= score'
    <3>1. PICK M \in SUBSET matched, R \in SUBSET rated :
            \E g : /\ IsScan(g, image.packages, M, R)
                   /\ score <= ContainerScore(g[Last], image.findings)
                   /\ Within(g[next - 1], counted)
      BY <1>1, <1>8, <2>5 DEF GInv, AtLeast
    <3>2. PICK g : /\ IsScan(g, image.packages, M, R)
                   /\ score <= ContainerScore(g[Last], image.findings)
                   /\ Within(g[next - 1], counted)
      BY <3>1
    <3>3. g[Last] \in Counted /\ Within(g[Last], counted)
      BY <1>3, <2>1, <3>2 DEF IsScan
    <3>4. /\ ContainerScore(g[Last], image.findings) \in 0 .. 100
          /\ ContainerScore(g[Last], image.findings)
               <= ContainerScore(counted, image.findings)
      BY <1>2, <1>3, <3>3, ScoreGrows
    <3>5. score \in 0 .. 100
      BY <1>2, <2>5
    <3> QED BY <2>2, <2>4, <3>2, <3>4, <3>5
  <2> QED BY <1>6, <2>2, <2>4, <2>5
<1>9. CASE sbom = {}
  <2>1. next - 1 = 0
    BY <1>2, <1>3, <1>5, <1>9, ScanAssumption DEF UpTo
  <2>2. Within(counted, Nothing)
    BY <1>6, <2>1 DEF IsScan
  <2>3. /\ ContainerScore(counted, NoFindings) \in 0 .. 100
        /\ ContainerScore(counted, NoFindings) <= ContainerScore(Nothing, NoFindings)
    BY <1>2, <2>2, NothingCounted, ScoreGrows
  <2>4. ContainerScore(Nothing, NoFindings) = 0
    BY NothingScoresNothing
  <2>5. score' = 0
    BY <1>1, <1>9, <2>3, <2>4
  <2>6. h[Last] \in Counted
    BY <1>3, <1>7
  <2>7. ContainerScore(h[Last], image.findings) \in 0 .. 100
    BY <1>3, <2>6, WithinItself, ScoreGrows
  <2>8. sbom # Tools
    BY <1>9 DEF Tools
  <2> QED BY <1>2, <1>6, <2>5, <2>7, <2>8
<1>10. CASE sbom = {"syft"}
  <2>1. next - 1 = Last
    BY <1>3, <1>5, <1>10 DEF Last
  <2>2. score' = ContainerScore(counted, NoFindings)
    BY <1>1, <1>10
  <2>3. Within(counted, h[Last]) /\ h[Last] \in Counted
    BY <1>3, <1>6, <1>7, <2>1
  <2>4. /\ ContainerScore(counted, image.findings) \in 0 .. 100
        /\ ContainerScore(counted, image.findings) <= ContainerScore(h[Last], image.findings)
        /\ ContainerScore(h[Last], image.findings) \in 0 .. 100
    BY <1>2, <1>3, <2>3, WithinItself, ScoreGrows
  <2>5. /\ ContainerScore(counted, NoFindings) \in 0 .. 100
        /\ ContainerScore(counted, NoFindings) <= ContainerScore(counted, image.findings)
    BY <1>2, <1>3, FindingsAdd
  <2>6. sbom # Tools
    BY <1>10 DEF Tools
  <2> QED BY <1>6, <2>2, <2>4, <2>5, <2>6
<1> QED BY <1>3, <1>8, <1>9, <1>10

(* Counting an empty answer changes nothing.                               *)
LEMMA CountNone == ASSUME NEW R, NEW v \in Counted PROVE CountIn(R, v, {}) = v
<1>1. /\ v.critical \in Nat /\ v.high \in Nat /\ v.medium \in Nat /\ v.low \in Nat
      /\ v.kev \in BOOLEAN /\ v.cvss \in Nat /\ v.epss \in Nat
  BY DEF Counted
<1>2. Cardinality({}) = 0
  BY FS_EmptySet
<1>3. ASSUME NEW n \in Nat PROVE Max({n}) = n
  <2>1. IsFiniteSet({n}) /\ {n} \in SUBSET Nat /\ {n} # {}
    BY FS_Singleton
  <2> QED BY <2>1, Greatest
<1>4. /\ {v.cvss} \cup {RatingIn(R, c).score : c \in {}} = {v.cvss}
      /\ {v.epss} \cup {RatingIn(R, c).epss : c \in {}} = {v.epss}
  OBVIOUS
<1>5. /\ Max({v.cvss} \cup {RatingIn(R, c).score : c \in {}}) = v.cvss
      /\ Max({v.epss} \cup {RatingIn(R, c).epss : c \in {}}) = v.epss
  BY <1>1, <1>3, <1>4
<1>6. /\ {c \in {} : RatingIn(R, c).severity = "CRITICAL"} = {}
      /\ {c \in {} : RatingIn(R, c).severity = "HIGH"} = {}
      /\ {c \in {} : RatingIn(R, c).severity = "MEDIUM"} = {}
      /\ {c \in {} : RatingIn(R, c).severity \notin {"CRITICAL", "HIGH", "MEDIUM"}} = {}
  OBVIOUS
<1>7. (v.kev \/ \E c \in {} : RatingIn(R, c).kev) = v.kev
  BY <1>1, Zenon
<1>8. CountIn(R, v, {}) = [critical |-> v.critical, high |-> v.high, medium |-> v.medium,
                           low |-> v.low, kev |-> v.kev, cvss |-> v.cvss, epss |-> v.epss]
  BY <1>1, <1>2, <1>5, <1>6, <1>7 DEF CountIn
<1> QED BY <1>8 DEF Counted

(* One look-up later both bounds hold of one package more.                 *)
LEMMA LookupGrows ==
  ASSUME GInv, Lookup \/ LookupFails, NoOwn
  PROVE  AtMost' /\ AtLeast'
<1>1. pc = "lookup" /\ next <= UpTo(PackageLimit, Len(Packages))
  BY DEF Lookup, LookupFails, LookingUp
<1>2. /\ LookingUp /\ next' = next + 1
      /\ UNCHANGED <<image, pc, sbom, matched, rated, score>>
      /\ \E S \in SUBSET Answer(Packages[next]) :
           counted' = Count(counted, S) \/ counted' = counted
      /\ Lookup => disturbed' = disturbed
                   /\ counted' = Count(counted, Answer(Packages[next]))
      /\ LookupFails => disturbed'
  BY DEF Lookup, LookupFails, LookingUp, Fine, Fault, feeds
<1>3. /\ image \in Images /\ next \in Nat \ {0} /\ counted \in Counted
      /\ matched \in SUBSET Cves /\ rated \in SUBSET matched /\ Published \subseteq matched
  BY DEF GInv, LInv
<1>4. /\ Len(image.packages) \in Nat
      /\ DOMAIN image.packages = 1 .. Len(image.packages)
      /\ UpTo(PackageLimit, Len(Packages)) \in 0 .. Len(image.packages)
      /\ sbom \in {Tools, {"syft"}, {}}
      /\ Packages = IF sbom = {} THEN <<>> ELSE image.packages
  <2>1. /\ reports \subseteq SUBSET Tools /\ {"python"} \notin reports
        /\ sbom \in reports \cup {{}}
    BY <1>1 DEF GInv, NoOwn
  <2> QED BY <1>3, <2>1, ImageType, ListLookedUp
<1>5. pc = "lookup" /\ next <= UpTo(PackageLimit, Len(Packages))
  BY <1>1
<1>6. Packages = image.packages
  <2>1. Packages # <<>>
    <3>1. UpTo(PackageLimit, Len(<<>>)) = 0
      BY ScanAssumption DEF UpTo
    <3> QED BY <1>3, <1>5, <3>1
  <2> QED BY <1>4, <2>1
<1>7. next \in 1 .. Len(image.packages) /\ next - 1 \in 0 .. Len(image.packages)
  BY <1>3, <1>4, <1>5
<1>8. next' - 1 = next
  BY <1>2, <1>3
<1> DEFINE p == image.packages[next]
<1>9. AtMost'
  <2>1. PICK h : IsScan(h, image.packages, matched, rated) /\ Within(counted, h[next - 1])
    BY <1>5 DEF GInv, AtMost
  <2>2. /\ h[next] = CountIn(rated, h[next - 1], AnswerIn(matched, p))
        /\ h[next - 1] \in Counted /\ h[next] \in Counted
    <3>1. next \in 0 .. Len(image.packages)
      BY <1>4, <1>7
    <3>2. h \in [0 .. Len(image.packages) -> Counted]
      BY <2>1 DEF IsScan
    <3>3. h[next] = CountIn(rated, h[next - 1], AnswerIn(matched, p))
      BY <1>7, <2>1 DEF IsScan
    <3> QED BY <1>7, <3>1, <3>2, <3>3
  <2>3. AnswerIn(matched, p) \in SUBSET Cves
    BY <1>3, AnswersAreCves
  <2>4. PICK S \in SUBSET AnswerIn(matched, p) : counted' = CountIn(rated, counted, S)
    <3>1. CountIn(rated, counted, {}) = counted
      BY <1>3, CountNone
    <3> QED BY <1>2, <1>6, <3>1, AsTheFeedsAre
  <2>5. Within(CountIn(rated, counted, S),
               CountIn(rated, h[next - 1], AnswerIn(matched, p)))
    BY <1>3, <2>1, <2>2, <2>3, CountGrows
  <2>6. Within(counted', h[next' - 1])
    BY <1>8, <2>2, <2>4, <2>5
  <2>7. next' - 1 <= UpTo(PackageLimit, Len(Packages))'
    BY <1>2, <1>5, <1>8 DEF Packages
  <2>8. IsScan(h, image'.packages, matched', rated')
    BY <1>2, <2>1
  <2> QED BY <2>6, <2>7, <2>8 DEF AtMost
<1>10. AtLeast'
  <2>1. PICK M \in SUBSET matched, R \in SUBSET rated :
          \E h : /\ Published \subseteq M
                 /\ IsScan(h, image.packages, M, R)
                 /\ score # None => score <= ContainerScore(h[Last], image.findings)
                 /\ pc = "lookup" /\ ~disturbed /\ sbom = Tools => Within(h[next - 1], counted)
    BY DEF GInv, AtLeast
  <2>2. PICK h : /\ Published \subseteq M
                 /\ IsScan(h, image.packages, M, R)
                 /\ score # None => score <= ContainerScore(h[Last], image.findings)
                 /\ pc = "lookup" /\ ~disturbed /\ sbom = Tools => Within(h[next - 1], counted)
    BY <2>1
  <2>3. ASSUME ~disturbed', sbom' = Tools PROVE Within(h[next' - 1], counted')
    <3>1. /\ ~disturbed /\ sbom = Tools
          /\ counted' = CountIn(rated, counted, AnswerIn(matched, p))
      BY <1>2, <1>6, <2>3, AsTheFeedsAre
    <3>2. Within(h[next - 1], counted)
      BY <1>5, <2>2, <3>1
    <3>3. /\ h[next] = CountIn(R, h[next - 1], AnswerIn(M, p))
          /\ h[next - 1] \in Counted
      BY <1>7, <2>2 DEF IsScan
    <3>4. ~OwnVendor(p, matched \ Published)
      BY <1>4, <1>7 DEF NoOwn
    <3>5. AnswerIn(M, p) \subseteq AnswerIn(matched, p)
      BY <2>2, <3>4, AnswerGrows
    <3>6. AnswerIn(M, p) \in SUBSET Cves /\ AnswerIn(matched, p) \in SUBSET Cves
      BY <1>3, AnswersAreCves
    <3>7. Within(CountIn(R, h[next - 1], AnswerIn(M, p)),
                 CountIn(rated, counted, AnswerIn(matched, p)))
      BY <1>3, <3>2, <3>3, <3>5, <3>6, CountGrows
    <3> QED BY <1>8, <3>1, <3>3, <3>7
  <2>4. /\ M \in SUBSET matched' /\ R \in SUBSET rated'
        /\ IsScan(h, image'.packages, M, R)
        /\ score' # None => score' <= ContainerScore(h[Last'], image'.findings)
    BY <1>2, <2>2 DEF Last
  <2> QED BY <2>2, <2>3, <2>4 DEF AtLeast
<1> QED BY <1>9, <1>10

(* With more in the feeds both bounds hold: a scan of them counts no less. *)
LEMMA RefreshGrows ==
  ASSUME GInv, ReplaceCpeMatch \/ BuildEnriched, NoOwn'
  PROVE  AtMost' /\ AtLeast'
<1>1. /\ UNCHANGED <<image, pc, reports, sbom, next, counted, score, disturbed>>
      /\ matched \subseteq matched' /\ rated \subseteq rated' /\ matched' \subseteq Cves
  BY DEF ReplaceCpeMatch, BuildEnriched, scan, GInv, LInv
<1>2. /\ image \in Images /\ next \in Nat \ {0} /\ counted \in Counted
      /\ matched \in SUBSET Cves /\ Published \subseteq matched
  BY DEF GInv, LInv
<1>3. /\ Len(image.packages) \in Nat
      /\ DOMAIN image.packages = 1 .. Len(image.packages)
  BY <1>2, ImageType
<1>4. \A i \in 1 .. Len(image.packages) :
        ~OwnVendor(image.packages[i], matched' \ Published)
  BY <1>1, <1>3 DEF NoOwn, OwnVendor
<1>5. NoOwn
  BY <1>1, <1>3, <1>4 DEF NoOwn, OwnVendor
<1>6. AtMost'
  <2> SUFFICES ASSUME pc' = "lookup"
               PROVE  /\ (next - 1 <= UpTo(PackageLimit, Len(Packages)))'
                      /\ \E h : IsScan(h, image'.packages, matched', rated')
                                /\ Within(counted', h[next' - 1])
    BY DEF AtMost
  <2>1. /\ next - 1 <= UpTo(PackageLimit, Len(Packages))
        /\ \E h : IsScan(h, image.packages, matched, rated) /\ Within(counted, h[next - 1])
    BY <1>1, <1>5 DEF GInv, AtMost
  <2>2. PICK g : IsScan(g, image.packages, matched, rated) /\ Within(counted, g[next - 1])
    BY <2>1
  <2>3. PICK h : IsScan(h, image.packages, matched', rated')
    BY <1>1, <1>3, ScanExists
  <2>4. next - 1 \in 0 .. Len(image.packages)
    <3>1. /\ reports \subseteq SUBSET Tools /\ {"python"} \notin reports
          /\ sbom \in reports \cup {{}}
      BY <1>1, <1>5 DEF GInv, NoOwn
    <3>2. UpTo(PackageLimit, Len(Packages)) \in 0 .. Len(image.packages)
      BY <1>2, <3>1, ListLookedUp
    <3> QED BY <1>2, <1>3, <2>1, <3>2
  <2>5. \A k \in 0 .. Len(image.packages) :
          g[k] \in Counted /\ h[k] \in Counted /\ Within(g[k], h[k])
    BY <1>1, <1>2, <1>3, <1>4, <2>2, <2>3, ScansGrow
  <2>6. Within(counted, h[next - 1])
    BY <1>2, <2>2, <2>4, <2>5, WithinTransitive
  <2>7. (next - 1 <= UpTo(PackageLimit, Len(Packages)))'
    BY <1>1, <2>1 DEF Packages
  <2>8. /\ IsScan(h, image'.packages, matched', rated')
        /\ Within(counted', h[next' - 1])
    BY <1>1, <2>3, <2>6
  <2> QED BY <2>7, <2>8
<1>7. AtLeast'
  <2>1. AtLeast
    BY <1>5 DEF GInv
  <2>2. PICK M \in SUBSET matched, R \in SUBSET rated :
          \E h : /\ Published \subseteq M
                 /\ IsScan(h, image.packages, M, R)
                 /\ score # None => score <= ContainerScore(h[Last], image.findings)
                 /\ pc = "lookup" /\ ~disturbed /\ sbom = Tools => Within(h[next - 1], counted)
    BY <2>1 DEF AtLeast
  <2>3. M \in SUBSET matched' /\ R \in SUBSET rated'
    BY <1>1
  <2> QED BY <1>1, <2>2, <2>3 DEF AtLeast, Last
<1> QED BY <1>6, <1>7

(* What a step does to the score that the user sees.                       *)
LEMMA StepGrows ==
  GInv /\ [Next]_vars =>
    GInv' /\ (score # None /\ ~disturbed' /\ sbom = Tools /\ NoOwn => score' >= score)
<1> SUFFICES ASSUME GInv, [Next]_vars
             PROVE  GInv' /\ (score # None /\ ~disturbed' /\ sbom = Tools /\ NoOwn => score' >= score)
  OBVIOUS
<1>1. LInv'
  BY StepPays DEF GInv
<1>2. /\ image \in Images /\ next \in Nat \ {0} /\ counted \in Counted
      /\ matched \in SUBSET Cves /\ rated \in SUBSET matched /\ Published \subseteq matched
      /\ score \in (0 .. 100) \cup {None}
      /\ reports \subseteq SUBSET Tools /\ (pc = "lookup" => sbom \in reports \cup {{}})
  BY DEF GInv, LInv
<1>3. /\ Len(image.packages) \in Nat
      /\ Last \in 0 .. Len(image.packages) /\ image.findings \in Findings
  BY <1>2, ImageType
<1>4. ASSUME UNCHANGED score PROVE score # None => score' >= score
  BY <1>2, <1>4
<1>5. ASSUME UNCHANGED <<image, pc, sbom, next, counted, feeds, score, disturbed>>,
             reports \subseteq reports', reports' \subseteq SUBSET Tools
      PROVE  GInv'
  <2>1. (NoOwn' => NoOwn) /\ UNCHANGED <<AtMost, AtLeast>>
    BY <1>5 DEF NoOwn, AtMost, AtLeast, Last, Packages, feeds
  <2>2. pc' = "lookup" => sbom' \in reports' \cup {{}}
    BY <1>5 DEF GInv
  <2> QED BY <1>1, <1>2, <1>5, <2>1, <2>2 DEF GInv, feeds
<1>6. ASSUME UNCHANGED <<image, feeds, score>>, pc' \notin {"lookup"},
             reports \subseteq reports', reports' \subseteq SUBSET Tools
      PROVE  GInv'
  <2>1. NoOwn' => NoOwn
    BY <1>6 DEF NoOwn, feeds
  <2>2. AtMost'
    BY <1>6 DEF AtMost
  <2>3. AtLeast => AtLeast'
    BY <1>6 DEF AtLeast, Last, feeds
  <2> QED BY <1>1, <1>2, <1>6, <2>1, <2>2, <2>3 DEF GInv, feeds
<1>7. CASE Detonate \/ DetonateInPart
  <2>1. reports \subseteq reports' /\ reports' \subseteq SUBSET Tools
    BY <1>2, <1>7 DEF Detonate, DetonateInPart, Report
  <2>2. UNCHANGED <<image, feeds, score>> /\ pc' \notin {"lookup"}
    BY <1>7 DEF Detonate, DetonateInPart
  <2> QED BY <1>4, <1>6, <2>1, <2>2
<1>8. CASE AbandonDynamic
  BY <1>2, <1>4, <1>6, <1>8 DEF AbandonDynamic
<1>9. CASE LateReport
  <2>1. reports \subseteq reports' /\ reports' \subseteq SUBSET Tools
    BY <1>2, <1>9 DEF LateReport, Report
  <2>2. UNCHANGED <<image, pc, sbom, next, counted, feeds, score, disturbed>>
    BY <1>9 DEF LateReport
  <2> QED BY <1>4, <1>5, <2>1, <2>2
<1>10. CASE ReadReport
  <2>1. /\ UNCHANGED <<image, feeds, score, reports>> /\ next' = 1 /\ counted' = Nothing
        /\ next' - 1 = 0 /\ sbom' \in reports \cup {{}}
    BY <1>10 DEF ReadReport
  <2>2. NoOwn' => NoOwn
    BY <2>1 DEF NoOwn, feeds
  <2>3. AtMost'
    <3>1. PICK h : IsScan(h, image.packages, matched, rated)
      BY <1>2, <1>3, ScanExists
    <3>2. h[0] = Nothing
      BY <3>1 DEF IsScan
    <3>3. Within(counted', h[next' - 1])
      BY <2>1, <3>2, NothingCounted, WithinItself
    <3>4. 0 <= UpTo(PackageLimit, Len(Packages))'
      <4>1. Packages' \in {image.packages, image.osPackages, <<>>}
        BY <2>1 DEF Packages
      <4>2. image.packages \in Seq(Package) /\ image.osPackages \in Seq(Package)
        BY <1>2, ScanAssumption
      <4>3. Len(Packages)' \in Nat
        BY <4>1, <4>2
      <4> QED BY <4>3, ScanAssumption DEF UpTo
    <3>5. next' - 1 <= UpTo(PackageLimit, Len(Packages))'
      BY <2>1, <3>4
    <3>6. IsScan(h, image'.packages, matched', rated')
      BY <2>1, <3>1 DEF feeds
    <3> QED BY <3>3, <3>5, <3>6 DEF AtMost
  <2>4. ASSUME AtLeast PROVE AtLeast'
    <3>1. PICK M \in SUBSET matched, R \in SUBSET rated :
            \E h : /\ Published \subseteq M
                   /\ IsScan(h, image.packages, M, R)
                   /\ score # None => score <= ContainerScore(h[Last], image.findings)
      BY <2>4 DEF AtLeast
    <3>2. PICK h : /\ Published \subseteq M
                   /\ IsScan(h, image.packages, M, R)
                   /\ score # None => score <= ContainerScore(h[Last], image.findings)
      BY <3>1
    <3>3. h[0] = Nothing
      BY <3>2 DEF IsScan
    <3>4. Within(h[next' - 1], counted')
      BY <2>1, <3>3, NothingCounted, WithinItself
    <3>5. /\ M \in SUBSET matched' /\ R \in SUBSET rated'
          /\ IsScan(h, image'.packages, M, R)
          /\ score' # None => score' <= ContainerScore(h[Last'], image'.findings)
      BY <2>1, <3>2 DEF Last, feeds
    <3> QED BY <3>2, <3>4, <3>5 DEF AtLeast
  <2> QED BY <1>1, <1>2, <1>4, <2>1, <2>2, <2>3, <2>4 DEF GInv, feeds
<1>11. CASE Lookup \/ LookupFails
  <2>1. UNCHANGED <<image, feeds, score, reports, sbom, pc>>
    BY <1>11 DEF Lookup, LookupFails
  <2>2. NoOwn' => NoOwn
    BY <2>1 DEF NoOwn, feeds
  <2>3. NoOwn => AtMost' /\ AtLeast'
    BY <1>11, LookupGrows
  <2> QED BY <1>1, <1>2, <1>4, <2>1, <2>2, <2>3 DEF GInv, feeds
<1>12. CASE Finish
  <2>1. UNCHANGED <<image, feeds, disturbed, reports>> /\ pc' = "done"
    BY <1>12 DEF Finish, Fine
  <2>2. NoOwn' => NoOwn
    BY <2>1 DEF NoOwn, feeds
  <2>3. NoOwn => /\ score' \in 0 .. 100
                 /\ \E h : IsScan(h, image.packages, matched, rated)
                           /\ score' <= ContainerScore(h[Last], image.findings)
                 /\ score # None /\ ~disturbed /\ sbom = Tools => score <= score'
    BY <1>12, FinishGrows
  <2>4. score' \in 0 .. 100
    <3>1. \A f \in Findings : ContainerScore(counted, f) \in 0 .. 100
      BY <1>2, WithinItself, ScoreGrows
    <3>2. (IF "python" \in sbom THEN image.findings ELSE NoFindings) \in Findings
      BY <1>3, NothingCounted
    <3> QED BY <1>12, <3>1, <3>2 DEF Finish
  <2>5. AtMost'
    BY <2>1 DEF AtMost
  <2>6. NoOwn => AtLeast'
    <3> SUFFICES ASSUME NoOwn PROVE AtLeast'
      OBVIOUS
    <3>1. PICK h : /\ IsScan(h, image.packages, matched, rated)
                   /\ score' <= ContainerScore(h[Last], image.findings)
      BY <2>3
    <3>2. /\ matched \in SUBSET matched' /\ rated \in SUBSET rated'
          /\ Published \subseteq matched
          /\ IsScan(h, image'.packages, matched, rated)
          /\ score' <= ContainerScore(h[Last'], image'.findings)
          /\ pc' # "lookup"
      BY <1>2, <2>1, <3>1 DEF Last, feeds
    <3> QED BY <3>2 DEF AtLeast
  <2>7. score # None /\ ~disturbed' /\ sbom = Tools /\ NoOwn => score' >= score
    BY <1>2, <2>1, <2>3, <2>4
  <2> QED BY <1>1, <1>2, <2>1, <2>2, <2>4, <2>5, <2>6, <2>7 DEF GInv, feeds
<1>13. CASE ScanFails
  <2>1. /\ UNCHANGED <<image, feeds, reports>> /\ pc' = "done" /\ score' = 0 /\ disturbed' = TRUE
    BY <1>13 DEF ScanFails, Fault
  <2>2. NoOwn' => NoOwn
    BY <2>1 DEF NoOwn, feeds
  <2>3. AtMost'
    BY <2>1 DEF AtMost
  <2>4. ASSUME AtLeast PROVE AtLeast'
    <3>1. PICK M \in SUBSET matched, R \in SUBSET rated :
            \E h : Published \subseteq M /\ IsScan(h, image.packages, M, R)
      BY <2>4 DEF AtLeast
    <3>2. PICK h : Published \subseteq M /\ IsScan(h, image.packages, M, R)
      BY <3>1
    <3>3. h[Last] \in Counted
      BY <1>3, <3>2 DEF IsScan
    <3>4. 0 <= ContainerScore(h[Last], image.findings)
      <4>1. ContainerScore(h[Last], image.findings) \in 0 .. 100
        BY <1>3, <3>3, WithinItself, ScoreGrows
      <4> QED BY <4>1
    <3>5. /\ M \in SUBSET matched' /\ R \in SUBSET rated'
          /\ IsScan(h, image'.packages, M, R)
          /\ score' <= ContainerScore(h[Last'], image'.findings)
          /\ pc' # "lookup"
      BY <2>1, <3>2, <3>4 DEF Last, feeds
    <3> QED BY <3>2, <3>5 DEF AtLeast
  <2>5. score' \in (0 .. 100) \cup {None}
    BY <2>1
  <2> QED BY <1>1, <1>2, <2>1, <2>2, <2>3, <2>4, <2>5 DEF GInv, feeds
<1>14. CASE Redeliver
  BY <1>2, <1>4, <1>6, <1>14 DEF Redeliver
<1>15. CASE ReplaceCpeMatch \/ BuildEnriched
  <2>1. UNCHANGED <<score, reports, sbom, pc>> /\ matched \subseteq matched'
    BY <1>2, <1>15 DEF ReplaceCpeMatch, BuildEnriched, scan
  <2>2. NoOwn' => AtMost' /\ AtLeast'
    BY <1>15, RefreshGrows
  <2> QED BY <1>1, <1>2, <1>4, <2>1, <2>2 DEF GInv
<1>16. CASE UNCHANGED vars
  BY <1>2, <1>4, <1>5, <1>16 DEF vars, feeds
<1> QED
  BY <1>7, <1>8, <1>9, <1>10, <1>11, <1>12, <1>13, <1>14, <1>15, <1>16 DEF Next

(* No delivery in which nothing fails and which reads a whole report       *)
(* lowers the score, unless rows under a vendor of the package's own name  *)
(* were published in the meantime, or a report was stored that lists the   *)
(* distribution's packages only: for every image, whatever is published    *)
(* and rated between or during the scans, and however many deliveries and  *)
(* failures there have been.                                               *)
THEOREM ScansOnlyGain == Spec => ScanIsNotWeakened
<1>1. GInv /\ [Next]_vars =>
        [ /\ score # None /\ ~disturbed' /\ sbom = Tools /\ {"python"} \notin reports
          /\ \A i \in DOMAIN image.packages :
               ~OwnVendor(image.packages[i], matched \ Published)
          => score' >= score ]_vars
  BY StepGrows DEF NoOwn
<1> QED BY <1>1, InitGrows, StepGrows, PTL DEF Spec, ScanIsNotWeakened
=============================================================================
