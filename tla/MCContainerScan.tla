-------------------------- MODULE MCContainerScan --------------------------
(* An instance of ContainerScan for TLC.                                   *)
EXTENDS ContainerScan

MCVendorKey == [n \in {"openssl", "f5", "nginx", "haxx", "gnu", "zlib", "---"} |->
                  IF n = "---" THEN Blank ELSE n]
MCProductKey == [n \in {"openssl", "nginx", "curl", "zlib", "libstdc++6"} |->
                   IF n = "libstdc++6" THEN "libstdc_6" ELSE n]

N(n) == [lead |-> n, place |-> 10 * n]
(* A number with k-th letter behind it, and a part that is no number.       *)
L(n, k) == [lead |-> n, place |-> 10 * n + k]
Word(place) == [lead |-> None, place |-> place]
Star == <<Word(1000)>>

Spec1(version, lessThan, upTo) ==
  [status |-> "affected", version |-> version, lessThan |-> lessThan, upTo |-> upTo]
Entry(vendor, product, versions) ==
  [vendor |-> vendor, product |-> product, versions |-> versions]
Record(entries) == [rejected |-> FALSE, affected |-> entries]

MCRecords ==
  [ssl |-> Record({Entry("openssl", "openssl",
                     {Spec1(<<N(1), N(2)>>, <<N(1), N(10)>>, None),
                      [Spec1(<<N(3)>>, None, None) EXCEPT !.status = "unaffected"]})}),
   web |-> Record({Entry("f5", "nginx", {Spec1(<<N(1)>>, None, <<N(1), N(10)>>)}),
                   Entry("haxx", "curl", {Spec1(<<N(1)>>, None, <<N(1), N(10)>>),
                                          Spec1(<<N(8)>>, Star, None)}),
                   Entry("---", "zlib", {})}),
   own |-> Record({Entry("nginx", "nginx", {Spec1(<<N(0)>>, <<N(1)>>, None)})}),
   zip |-> Record({Entry("gnu", "zlib", {})}),
   new |-> Record({Entry("openssl", "openssl", {Spec1(<<N(1), L(2, 7)>>, None, None)}),
                   Entry("gnu", "libstdc++6", {})}),
   old |-> [rejected |-> TRUE, affected |-> {Entry("gnu", "zlib", {})}]]

MCRatings ==
  [ssl |-> [severity |-> "CRITICAL", score |-> 98, kev |-> FALSE, epss |-> 80],
   web |-> [severity |-> "HIGH", score |-> 75, kev |-> FALSE, epss |-> 2],
   own |-> [severity |-> "LOW", score |-> 31, kev |-> FALSE, epss |-> 0],
   zip |-> [severity |-> "MEDIUM", score |-> 55, kev |-> FALSE, epss |-> 96],
   new |-> [severity |-> "HIGH", score |-> 88, kev |-> TRUE, epss |-> 50],
   old |-> [severity |-> None, score |-> 0, kev |-> FALSE, epss |-> 0]]

MCPublished == {"ssl", "web", "zip", "old"}

Pkg(name, version) == [name |-> name, version |-> version]
PackageLists ==
  {<<Pkg("openssl", <<N(1), N(2)>>)>>, <<Pkg("nginx", <<N(1), N(9), N(1)>>)>>,
   <<Pkg("zlib", None), Pkg("openssl", <<N(1), N(9)>>)>>,
   <<Pkg("curl", <<N(1), N(9), L(1, 2)>>), Pkg("libstdc++6", <<N(6)>>)>>,
   <<Pkg("curl", <<N(1), N(10)>>), Pkg("curl", <<N(9)>>)>>,
   <<Pkg("zlib", <<N(1)>>), Pkg("openssl", <<N(3)>>), Pkg("openssl", <<N(1), N(2)>>)>>,
   <<Pkg("openssl", <<N(1), L(2, 11)>>), Pkg("openssl", <<N(1), N(3)>>)>>}

(* The distribution's packages: zlib without a version, "?", and openssl.   *)
MCOsPackages == <<Pkg("zlib", <<Word(0)>>), Pkg("openssl", <<N(1), L(2, 11)>>)>>

With(kind, many) == [NoFindings EXCEPT !.n[kind] = many]
FindingSets ==
  {NoFindings, With("miners", 1), With("symlinks", 1), With("forgedKeys", 1),
   [With("secrets", 4) EXCEPT !.root = TRUE, !.unsigned = TRUE, !.n["sensitive"] = 2],
   [n |-> [k \in Kinds |-> IF k \in {"miners", "backdoors"} THEN 0 ELSE 9],
    root |-> TRUE, unsigned |-> TRUE]}

MCImages == [packages : PackageLists, osPackages : {MCOsPackages}, findings : FindingSets]
=============================================================================
