-------------------------- MODULE VulnFeeds_proofs --------------------------
(***************************************************************************)
(* Proofs about VulnFeeds, for any feeds, sources, ecosystems, versions,   *)
(* faults and kills: the mutex is held exactly while a cycle runs, a feed  *)
(* that shows 'ready' has the rows it shows, and the join is current       *)
(* between cycles.                                                         *)
(***************************************************************************)
EXTENDS VulnFeeds, FiniteSetTheorems, SequenceTheorems, TLAPS

(* The archives that a refresh of OSV has been through.                    *)
Before(n) == {Ecosystems[i] : i \in 1 .. n}

(* In the middle of a refresh of OSV the rest is an end of ecosystems.txt, *)
(* and what was counted is there.                                          *)
Counted(r) ==
  run[r].at = "zips" =>
    \E n \in 0 .. Len(Ecosystems) - 1 :
      /\ run[r].left = SubSeq(Ecosystems, n + 1, Len(Ecosystems))
      /\ run[r].got <= n
      /\ run[r].got <= Cardinality(archives \cap Before(n))
CountedIsThere == \A r \in Runners : Counted(r)

RunType == [todo : Seq(Feeds), at : {"begin", "fetch", "zips"},
            left : Seq(Sources \cup Zips), got : 0 .. Len(Ecosystems)]

(* The inductive invariant: TypeOK and ReadyIsStored in three parts, of    *)
(* the runners, of the feeds, and of the rest, with what they rest on.     *)
RunsOK ==
  /\ up \in BOOLEAN /\ busy \in BOOLEAN /\ run \in [Runners -> RunType]
  /\ busy <=> Running("mutex")
  /\ ~up => ~busy
  /\ CountedIsThere
  /\ \A r \in Runners : run[r].at = "fetch" => run[r].left \in Seq(Sources)

FeedsOK ==
  /\ meta \in [Feeds -> [status : Statuses, rows : Nat]]
  /\ table \in [Tables -> 0..MaxVersion]
  /\ ReadyIsStored

RestOK ==
  /\ cut \in BOOLEAN /\ joined \in [JoinedFeeds -> 0..MaxVersion]
  /\ archives \subseteq Zips /\ IsFiniteSet(archives)
  /\ rules \subseteq Sources /\ IsFiniteSet(rules) /\ off \subseteq Sources
  /\ faults \in 0..MaxFaults /\ manual \in 0..MaxManual

IInv == RunsOK /\ FeedsOK /\ RestOK

----------------------------------------------------------------------------
(* The cycles are sequences of feeds that are followed, and none is empty. *)
LEMMA CycleType ==
  /\ FullCycle \in Seq(Feeds) /\ FullCycle # <<>>
  /\ \A f \in Feeds : SingleCycle(f) \in Seq(Feeds) /\ SingleCycle(f) # <<>>
<1>1. \A f : Turn(f) \in Seq(Feeds)
  BY DEF Turn
<1>2. Turn("nvd") = <<"nvd">>
  BY FeedsAssumption DEF Turn
<1>3. \A s, t \in Seq(Feeds) : s \o t \in Seq(Feeds) /\ Len(s \o t) = Len(s) + Len(t)
  OBVIOUS
<1> DEFINE start == Turn("kev") \o Turn("epss") \o Turn("nvd")
           middle == start \o Turn("cpe_match") \o Turn("osv")
           end == middle \o Turn("endoflife") \o Turn("tranco")
<1>4. start \in Seq(Feeds) /\ Len(start) >= 1
  <2> DEFINE first == Turn("kev") \o Turn("epss")
  <2>1. first \in Seq(Feeds)
    BY <1>1, <1>3
  <2> HIDE DEF first
  <2>2. first \o <<"nvd">> \in Seq(Feeds) /\ Len(first \o <<"nvd">>) = Len(first) + 1
    BY <2>1, FeedsAssumption
  <2>3. Len(first) \in Nat
    BY <2>1
  <2>4. start = first \o <<"nvd">>
    BY <1>2 DEF first
  <2> HIDE DEF start
  <2> QED BY <2>2, <2>3, <2>4
<1> HIDE DEF start
<1>5. middle \in Seq(Feeds) /\ Len(middle) >= 1
  <2>1. start \o Turn("cpe_match") \in Seq(Feeds)
        /\ Len(start \o Turn("cpe_match")) = Len(start) + Len(Turn("cpe_match"))
    BY <1>1, <1>3, <1>4
  <2>2. Len(Turn("cpe_match")) \in Nat /\ Len(Turn("osv")) \in Nat
    BY <1>1
  <2>3. middle \in Seq(Feeds)
        /\ Len(middle) = Len(start \o Turn("cpe_match")) + Len(Turn("osv"))
    BY <2>1, <1>1, <1>3
  <2> QED BY <2>1, <2>2, <2>3, <1>4
<1> HIDE DEF middle
<1>6. end \in Seq(Feeds) /\ Len(end) >= 1
  <2>1. middle \o Turn("endoflife") \in Seq(Feeds)
        /\ Len(middle \o Turn("endoflife")) = Len(middle) + Len(Turn("endoflife"))
    BY <1>1, <1>3, <1>5
  <2>2. Len(Turn("endoflife")) \in Nat /\ Len(Turn("tranco")) \in Nat
    BY <1>1
  <2>3. end \in Seq(Feeds)
        /\ Len(end) = Len(middle \o Turn("endoflife")) + Len(Turn("tranco"))
    BY <2>1, <1>1, <1>3
  <2> QED BY <2>1, <2>2, <2>3, <1>5
<1> HIDE DEF end
<1>7. end \o Turn("enriched") \in Seq(Feeds) /\ Len(end \o Turn("enriched")) >= 1
  <2>1. Len(Turn("enriched")) \in Nat
    BY <1>1
  <2>2. Len(end \o Turn("enriched")) = Len(end) + Len(Turn("enriched"))
    BY <1>1, <1>3, <1>6
  <2> QED BY <2>1, <2>2, <1>1, <1>3, <1>6
<1>8. FullCycle = end \o Turn("enriched")
  BY DEF FullCycle, start, middle, end
<1>9. ASSUME NEW f \in Feeds
      PROVE  SingleCycle(f) \in Seq(Feeds) /\ SingleCycle(f) # <<>>
  BY FeedsAssumption DEF SingleCycle
<1> QED BY <1>7, <1>8, <1>9

LEMMA InvImplies == IInv => TypeOK /\ ReadyIsStored /\ CountedIsThere
BY DEF IInv, RunsOK, FeedsOK, RestOK, TypeOK, RunType

LEMMA IdleType == Idle \in RunType /\ Idle.todo = <<>> /\ Idle.at = "begin"
<1>1. Len(Ecosystems) \in Nat
  BY FeedsAssumption
<1> QED BY <1>1 DEF Idle, RunType

(* At the end of a feed the runner begins the next one or is idle, and the *)
(* mutex goes with the last one.                                           *)
LEMMA Advanced ==
  ASSUME TypeOK, NEW r \in Runners, Running(r), Advance(r)
  PROVE  /\ run' \in [Runners -> RunType]
         /\ busy' \in BOOLEAN /\ (busy' <=> Running("mutex")')
         /\ (busy' => busy)
         /\ \A q \in Runners : run'[q].at # "begin" => run'[q] = run[q]
<1>1. run \in [Runners -> RunType] /\ busy \in BOOLEAN /\ (busy <=> Running("mutex"))
  BY DEF TypeOK, RunType
<1> DEFINE rest == Tail(run[r].todo)
           next == [Idle EXCEPT !.todo = rest]
<1>2. rest \in Seq(Feeds)
  BY <1>1 DEF RunType, Running
<1>3. next \in RunType /\ next.todo = rest /\ next.at = "begin"
  BY <1>2, IdleType DEF RunType, Idle
<1>4. run' = [run EXCEPT ![r] = next]
  BY DEF Advance
<1>5. busy' = IF r = "mutex" /\ rest = <<>> THEN FALSE ELSE busy
  BY DEF Advance
<1> HIDE DEF next, rest
<1>6. run' \in [Runners -> RunType]
      /\ \A q \in Runners : run'[q] = IF q = r THEN next ELSE run[q]
  BY <1>1, <1>3, <1>4
<1>7. "mutex" \in Runners
  BY DEF Runners
<1>8. busy' <=> Running("mutex")'
  BY <1>1, <1>3, <1>5, <1>6, <1>7 DEF Running
<1>9. \A q \in Runners : run'[q].at # "begin" => run'[q] = run[q]
  BY <1>3, <1>6
<1> QED BY <1>1, <1>5, <1>6, <1>8, <1>9

(* A stamp changes the row of one feed.                                    *)
LEMMA StampType ==
  ASSUME TypeOK, NEW f \in Feeds, NEW s \in Statuses, NEW n \in Nat
  PROVE  /\ Stamped(f, s, n) \in [Feeds -> [status : Statuses, rows : Nat]]
         /\ \A g \in Feeds : Stamped(f, s, n)[g] = IF g = f THEN [status |-> s, rows |-> n]
                                                   ELSE meta[g]
BY DEF TypeOK, Stamped

(* What was counted stays while no archive goes and the runner is where it *)
(* was, or is not in the middle of a refresh of OSV.                       *)
LEMMA CountedStays ==
  ASSUME NEW r \in Runners, Counted(r), run[r].got \in Nat,
         IsFiniteSet(archives'), archives \subseteq archives',
         run'[r].at = "zips" =>
           run[r].at = "zips" /\ run'[r].left = run[r].left /\ run'[r].got = run[r].got
  PROVE  Counted(r)'
<1> SUFFICES ASSUME run'[r].at = "zips"
             PROVE  \E n \in 0 .. Len(Ecosystems) - 1 :
                      /\ run'[r].left = SubSeq(Ecosystems, n + 1, Len(Ecosystems))
                      /\ run'[r].got <= n
                      /\ run'[r].got <= Cardinality(archives' \cap Before(n))
  BY DEF Counted, Before
<1>1. PICK n \in 0 .. Len(Ecosystems) - 1 :
        /\ run[r].left = SubSeq(Ecosystems, n + 1, Len(Ecosystems))
        /\ run[r].got <= n
        /\ run[r].got <= Cardinality(archives \cap Before(n))
  BY DEF Counted
<1> DEFINE old == archives \cap Before(n)
           new == archives' \cap Before(n)
<1>2. IsFiniteSet(new)
  BY FS_Subset
<1>3. IsFiniteSet(old) /\ Cardinality(old) <= Cardinality(new)
  BY <1>2, FS_Subset
<1>4. Cardinality(old) \in Nat /\ Cardinality(new) \in Nat
  BY <1>2, <1>3, FS_CardinalityType
<1>5. run[r].got <= Cardinality(new)
  BY <1>1, <1>3, <1>4
<1> QED BY <1>1, <1>5

(* The step from one archive to the next, with the count of those that     *)
(* came: it stamps 'osv' with a count that the archives justify.           *)
LEMMA ArchivedStep ==
  ASSUME TypeOK, CountedIsThere, NEW r \in Runners, Running(r),
         NEW n \in 0 .. Len(Ecosystems), NEW got \in 0 .. n,
         Archived(r, got, SubSeq(Ecosystems, n + 1, Len(Ecosystems))),
         IsFiniteSet(archives'), archives \subseteq archives',
         got <= Cardinality(archives' \cap Before(n))
  PROVE  /\ run' \in [Runners -> RunType] /\ busy' \in BOOLEAN /\ (busy' <=> Running("mutex")')
         /\ (busy' => busy)
         /\ \E s \in Statuses : meta' = Stamped("osv", s, got)
         /\ got <= Cardinality(archives')
         /\ CountedIsThere'
         /\ \A q \in Runners : run'[q].at = "fetch" => run'[q] = run[q]
<1> DEFINE rest == SubSeq(Ecosystems, n + 1, Len(Ecosystems))
<1>1. Len(Ecosystems) \in Nat /\ got \in Nat /\ got <= Len(Ecosystems)
  BY FeedsAssumption
<1>2. run \in [Runners -> RunType] /\ busy \in BOOLEAN /\ (busy <=> Running("mutex"))
  BY DEF TypeOK, RunType
<1>3. \A q \in Runners : run[q].got \in Nat /\ Counted(q)
  BY <1>1, <1>2 DEF RunType, CountedIsThere
<1>4. got <= Cardinality(archives')
  <2>1. Cardinality(archives' \cap Before(n)) <= Cardinality(archives')
        /\ IsFiniteSet(archives' \cap Before(n))
    BY FS_Subset
  <2>2. Cardinality(archives' \cap Before(n)) \in Nat /\ Cardinality(archives') \in Nat
    BY <2>1, FS_CardinalityType
  <2> QED BY <1>1, <2>1, <2>2
<1>5. CASE rest = <<>>
  <2>1. meta' = Stamped("osv", "ready", got) /\ Advance(r)
    BY <1>5 DEF Archived
  <2>2. \A q \in Runners : Counted(q)'
    BY <2>1, <1>3, Advanced, CountedStays
  <2>3. "ready" \in Statuses
    BY DEF Statuses
  <2> QED BY <2>1, <2>2, <2>3, <1>4, Advanced DEF CountedIsThere
<1>6. CASE rest # <<>>
  <2> DEFINE next == [run[r] EXCEPT !.at = "zips", !.left = rest, !.got = got]
  <2>1. /\ meta' = Stamped("osv", "refreshing", got)
        /\ run' = [run EXCEPT ![r] = next] /\ busy' = busy
    BY <1>2, <1>6 DEF Archived, RunType
  <2>2. rest \in Seq(Zips) /\ n \in 0 .. Len(Ecosystems) - 1
    BY <1>1, <1>6, FeedsAssumption
  <2>3. rest \in Seq(Sources \cup Zips)
    BY <2>2
  <2>4. next \in RunType /\ next.todo = run[r].todo /\ next.at = "zips"
        /\ next.left = rest /\ next.got = got
    <3>1. run[r] \in RunType /\ got \in 0 .. Len(Ecosystems)
      BY <1>1, <1>2
    <3> HIDE DEF rest
    <3> QED BY <3>1, <2>3 DEF RunType
  <2> HIDE DEF next
  <2>5. run' \in [Runners -> RunType]
        /\ \A q \in Runners : run'[q] = IF q = r THEN next ELSE run[q]
    BY <1>2, <2>1, <2>4
  <2>6. busy' <=> Running("mutex")'
    BY <1>2, <2>1, <2>4, <2>5 DEF Running, Runners
  <2>7. Counted(r)'
    <3>1. run'[r].left = rest /\ run'[r].got = got
      BY <2>4, <2>5
    <3>2. got <= n /\ got <= Cardinality(archives' \cap Before(n))
      BY <1>1
    <3> HIDE DEF Before
    <3>3. \E m \in 0 .. Len(Ecosystems) - 1 :
             /\ run'[r].left = SubSeq(Ecosystems, m + 1, Len(Ecosystems))
             /\ run'[r].got <= m
             /\ run'[r].got <= Cardinality(archives' \cap Before(m))
      BY <2>2, <3>1, <3>2
    <3> QED BY <3>3 DEF Counted, Before
  <2>8. \A q \in Runners \ {r} : Counted(q)'
    BY <1>3, <2>5, CountedStays
  <2>9. "refreshing" \in Statuses
    BY DEF Statuses
  <2>10. \A q \in Runners : run'[q].at = "fetch" => run'[q] = run[q]
    BY <2>4, <2>5
  <2> QED BY <2>1, <2>5, <2>6, <2>7, <2>8, <2>9, <2>10, <1>2, <1>4 DEF CountedIsThere
<1> QED BY <1>5, <1>6

----------------------------------------------------------------------------
(* What an action does to each part of the invariant.                      *)

(* The runners, when one of them goes on to its next feed.                 *)
LEMMA RunnerAdvances ==
  ASSUME IInv, NEW r \in Runners, Running(r), Advance(r), up, up' = up,
         IsFiniteSet(archives'), archives \subseteq archives'
  PROVE  RunsOK'
<1>1. TypeOK /\ CountedIsThere /\ run \in [Runners -> RunType]
  BY InvImplies DEF IInv, RunsOK
<1>2. \A q \in Runners : run[q].got \in Nat /\ Counted(q)
  BY <1>1, FeedsAssumption DEF RunType, CountedIsThere
<1>3. \A q \in Runners : Counted(q)'
  BY <1>1, <1>2, Advanced, CountedStays
<1>4. run' \in [Runners -> RunType] /\ busy' \in BOOLEAN /\ (busy' <=> Running("mutex")')
  BY <1>1, Advanced
<1>5. \A q \in Runners : run'[q].at = "fetch" => run'[q].left \in Seq(Sources)
  BY <1>1, Advanced DEF IInv, RunsOK
<1> QED BY <1>3, <1>4, <1>5 DEF RunsOK, CountedIsThere

(* The runners, when one of them moves inside its feed, out of the archives.*)
LEMMA RunnerMoves ==
  ASSUME IInv, NEW r \in Runners, NEW left \in Seq(Sources),
         up, up' = up, busy' = busy,
         run' = [run EXCEPT ![r].at = "fetch", ![r].left = left],
         archives' = archives
  PROVE  RunsOK'
<1>1. run \in [Runners -> RunType] /\ busy \in BOOLEAN /\ (busy <=> Running("mutex"))
      /\ CountedIsThere /\ IsFiniteSet(archives)
  BY DEF IInv, RunsOK, RestOK
<1> DEFINE next == [run[r] EXCEPT !.at = "fetch", !.left = left]
<1>2. next \in RunType /\ next.todo = run[r].todo /\ next.at = "fetch"
      /\ next.left = left
  <2>1. left \in Seq(Sources \cup Zips)
    OBVIOUS
  <2> QED BY <1>1, <2>1 DEF RunType
<1>3. run' = [run EXCEPT ![r] = next]
  BY <1>1
<1> HIDE DEF next
<1>4. run' \in [Runners -> RunType]
      /\ \A q \in Runners : run'[q] = IF q = r THEN next ELSE run[q]
  BY <1>1, <1>2, <1>3
<1>5. busy' <=> Running("mutex")'
  BY <1>1, <1>2, <1>4 DEF Running, Runners
<1>6. \A q \in Runners : run[q].got \in Nat /\ Counted(q)
  BY <1>1, FeedsAssumption DEF RunType, CountedIsThere
<1>7. \A q \in Runners : Counted(q)'
  BY <1>1, <1>2, <1>4, <1>6, CountedStays
<1>8. \A q \in Runners : run'[q].at = "fetch" => run'[q].left \in Seq(Sources)
  BY <1>2, <1>4 DEF IInv, RunsOK
<1> QED BY <1>1, <1>4, <1>5, <1>7, <1>8 DEF RunsOK, CountedIsThere

(* The runners, when nobody moves.                                         *)
LEMMA RunnerStays ==
  ASSUME IInv, run' = run, busy' = busy, up' = up, archives' = archives
  PROVE  RunsOK'
BY DEF IInv, RunsOK, CountedIsThere, Counted, Running, Before

(* The feeds, when one is stamped: with 'ready' it shows the rows of its   *)
(* table, and 'osv' no more than the archives there are.                   *)
LEMMA StampKeeps ==
  ASSUME IInv, NEW f \in Feeds, NEW s \in Statuses, NEW n \in Nat,
         meta' = Stamped(f, s, n), table' \in [Tables -> 0..MaxVersion],
         \A g \in Tables \ {f} : table'[g] = table[g],
         f \in Tables /\ s = "ready" => n = table'[f],
         IsFiniteSet(archives'), archives \subseteq archives',
         f = "osv" => n <= Cardinality(archives')
  PROVE  FeedsOK'
<1>1. TypeOK /\ ReadyIsStored /\ meta \in [Feeds -> [status : Statuses, rows : Nat]]
  BY InvImplies DEF IInv, FeedsOK
<1>2. /\ meta' \in [Feeds -> [status : Statuses, rows : Nat]]
      /\ \A g \in Feeds : meta'[g] = IF g = f THEN [status |-> s, rows |-> n] ELSE meta[g]
  BY <1>1, StampType
<1>3. Tables \subseteq Feeds
  BY DEF Tables
<1>4. \A g \in Tables : meta'[g].status = "ready" => meta'[g].rows = table'[g]
  BY <1>1, <1>2, <1>3 DEF ReadyIsStored
<1>5. /\ Cardinality(archives) <= Cardinality(archives')
      /\ Cardinality(archives) \in Nat /\ Cardinality(archives') \in Nat
  BY FS_Subset, FS_CardinalityType
<1>6. "osv" \in Feeds => meta'["osv"].rows <= Cardinality(archives')
  BY <1>1, <1>2, <1>5 DEF ReadyIsStored
<1> QED BY <1>2, <1>4, <1>6 DEF FeedsOK, ReadyIsStored

(* The feeds, when no table and no row of meta changes.                    *)
LEMMA FeedsStay ==
  ASSUME IInv, meta' = meta, table' = table, IsFiniteSet(archives'), archives \subseteq archives'
  PROVE  FeedsOK'
<1>1. FeedsOK /\ ("osv" \in Feeds => meta["osv"].rows \in Nat)
  BY DEF IInv, FeedsOK
<1>2. /\ Cardinality(archives) <= Cardinality(archives')
      /\ Cardinality(archives) \in Nat /\ Cardinality(archives') \in Nat
  BY FS_Subset, FS_CardinalityType
<1>3. "osv" \in Feeds => meta'["osv"].rows <= Cardinality(archives')
  BY <1>1, <1>2 DEF FeedsOK, ReadyIsStored
<1> QED BY <1>1, <1>3 DEF FeedsOK, ReadyIsStored, Tables

(* The feed at the head of a cycle is followed.                            *)
LEMMA HeadIsFollowed ==
  ASSUME IInv, NEW r \in Runners, Running(r)
  PROVE  Head(run[r].todo) \in Feeds
BY DEF IInv, RunsOK, RunType, Running

(* In the middle of OSV there is a next archive.                           *)
LEMMA NextArchive ==
  ASSUME IInv, NEW r \in Runners, run[r].at = "zips"
  PROVE  \E n \in 0 .. Len(Ecosystems) - 1 :
           /\ Head(run[r].left) = Ecosystems[n + 1] /\ Ecosystems[n + 1] \in Zips
           /\ Tail(run[r].left) = SubSeq(Ecosystems, (n + 1) + 1, Len(Ecosystems))
           /\ run[r].got \in 0 .. n
           /\ run[r].got <= Cardinality(archives \cap Before(n))
<1>1. PICK n \in 0 .. Len(Ecosystems) - 1 :
        /\ run[r].left = SubSeq(Ecosystems, n + 1, Len(Ecosystems))
        /\ run[r].got <= n
        /\ run[r].got <= Cardinality(archives \cap Before(n))
  BY DEF IInv, RunsOK, CountedIsThere, Counted
<1>2. Ecosystems \in Seq(Zips) /\ Len(Ecosystems) \in Nat /\ n + 1 \in 1 .. Len(Ecosystems)
  BY FeedsAssumption
<1>3. run[r].got \in 0 .. n
  BY <1>1, <1>2 DEF IInv, RunsOK, RunType
<1>4. Head(run[r].left) = Ecosystems[n + 1] /\ Ecosystems[n + 1] \in Zips
  BY <1>1, <1>2
<1>5. Tail(run[r].left) = SubSeq(Ecosystems, (n + 1) + 1, Len(Ecosystems))
  BY <1>1, <1>2
<1> QED BY <1>1, <1>3, <1>4, <1>5

(* One more archive behind the reader, and one more counted: the names in  *)
(* ecosystems.txt are distinct.                                            *)
LEMMA OneMore ==
  ASSUME IsFiniteSet(archives), NEW n \in 0 .. Len(Ecosystems) - 1
  PROVE  LET one == archives \cup {Ecosystems[n + 1]} IN
         /\ IsFiniteSet(one)
         /\ Cardinality(one \cap Before(n + 1)) >= Cardinality(archives \cap Before(n)) + 1
<1> DEFINE e == Ecosystems[n + 1]
           one == archives \cup {e}
           old == archives \cap Before(n)
<1>1. IsFiniteSet(one)
  BY FS_AddElement
<1>2. e \notin Before(n)
  <2>1. \A i, j \in 1 .. Len(Ecosystems) : Ecosystems[i] = Ecosystems[j] => i = j
    BY FeedsAssumption
  <2>2. n \in Nat /\ Len(Ecosystems) \in Nat /\ n + 1 \in 1 .. Len(Ecosystems)
    BY FeedsAssumption
  <2> QED BY <2>1, <2>2 DEF Before
<1>3. Before(n) \cup {e} \subseteq Before(n + 1)
  BY FeedsAssumption DEF Before
<1>4. IsFiniteSet(old) /\ IsFiniteSet(one \cap Before(n + 1))
  BY <1>1, FS_Subset
<1>5. IsFiniteSet(old \cup {e}) /\ Cardinality(old \cup {e}) = Cardinality(old) + 1
  BY <1>2, <1>4, FS_AddElement
<1>6. old \cup {e} \subseteq one \cap Before(n + 1)
  BY <1>3
<1>7. Cardinality(old \cup {e}) <= Cardinality(one \cap Before(n + 1))
  BY <1>4, <1>6, FS_Subset
<1>8. Cardinality(old) \in Nat /\ Cardinality(one \cap Before(n + 1)) \in Nat
  BY <1>4, FS_CardinalityType
<1> QED BY <1>1, <1>5, <1>7, <1>8

(* A kill leaves no runner, and what it found of the feeds.                *)
LEMMA KillKeeps ==
  ASSUME IInv, NEW m, NEW t, NEW a, Kill(m, t, a),
         FeedsOK', a \subseteq Zips, IsFiniteSet(a)
  PROVE  IInv'
<1>1. up' = FALSE /\ busy' = FALSE /\ run' = [r \in Runners |-> Idle]
  BY DEF Kill
<1>2. RunsOK'
  BY <1>1, IdleType DEF RunsOK, Running, CountedIsThere, Counted, Runners
<1>3. RestOK'
  <2>1. cut' \in BOOLEAN
    BY DEF Kill, IInv, RestOK, Running
  <2>2. faults' \in 0..MaxFaults
    BY FeedsAssumption DEF Kill, Fault, IInv, RestOK
  <2> QED BY <2>1, <2>2 DEF Kill, IInv, RestOK
<1> QED BY <1>2, <1>3 DEF IInv

----------------------------------------------------------------------------
(* The steps of a runner                                                   *)

(* A refresh of a feed that begins, ends or fails, but for OSV's archives. *)
LEMMA DownloadKeeps ==
  ASSUME IInv, NEW r \in Runners, NEW f \in Feeds, NEW v \in 0..MaxVersion,
         Begin(r, f) \/ Fail(r, f) \/ Store(r, f, v) \/ CheckCpe(r)
  PROVE  IInv'
<1>1. IsFiniteSet(archives) /\ TypeOK /\ table \in [Tables -> 0..MaxVersion]
      /\ Cardinality(archives) >= 0
  BY InvImplies, FS_CardinalityType DEF IInv, FeedsOK, RestOK
<1>2. v \in Nat /\ 0 \in 0..MaxVersion /\ Statuses = {"empty", "refreshing", "ready", "error"}
  BY FeedsAssumption DEF Statuses
<1>3. CASE Begin(r, f)
  <2>1. YaraSources \in Seq(Sources) /\ <<>> \in Seq(Sources)
    BY FeedsAssumption
  <2>2. RunsOK'
    BY <1>3, <2>1, RunnerMoves DEF Begin, On, data
  <2>3. FeedsOK'
    <3>1. meta' = Stamped(f, "refreshing", 0) /\ table' = table /\ archives' = archives
      BY <1>3 DEF Begin, data
    <3> QED BY <1>1, <1>2, <3>1, StampKeeps
  <2> QED BY <1>3, <2>2, <2>3 DEF Begin, data, bounds, IInv, RestOK
<1>4. CASE Fail(r, f)
  <2>1. RunsOK'
    BY <1>1, <1>4, RunnerAdvances DEF Fail, On, data
  <2>2. FeedsOK'
    <3>1. meta' = Stamped(f, "error", 0) /\ table' = table /\ archives' = archives
      BY <1>4 DEF Fail, data
    <3> QED BY <1>1, <1>2, <3>1, StampKeeps
  <2> QED BY <1>4, <2>1, <2>2 DEF Fail, data, bounds, IInv, RestOK
<1>5. CASE Store(r, f, v)
  <2>1. RunsOK'
    BY <1>1, <1>5, RunnerAdvances DEF Store, On
  <2>2. f \in Tables /\ f # "osv"
    BY <1>5 DEF Store, Plain, Tables
  <2>3. table' \in [Tables -> 0..MaxVersion] /\ table'[f] = v
        /\ \A g \in Tables \ {f} : table'[g] = table[g]
    BY <1>5, <2>2 DEF Store, IInv, FeedsOK
  <2>4. FeedsOK'
    BY <1>1, <1>2, <1>5, <2>2, <2>3, StampKeeps DEF Store
  <2> QED BY <1>5, <2>1, <2>4 DEF Store, bounds, IInv, RestOK
<1>6. CASE CheckCpe(r)
  <2>1. RunsOK'
    BY <1>1, <1>6, RunnerAdvances DEF CheckCpe, On, data
  <2>2. "cpe_match" \in Feeds
    BY FeedsAssumption
  <2>3. table' = table /\ archives' = archives
    BY <1>6 DEF CheckCpe, data
  <2>4. meta' = meta => FeedsOK'
    BY <1>1, <2>3, FeedsStay
  <2>5. meta' = Stamped("cpe_match", "empty", 0) => FeedsOK'
    BY <1>1, <1>2, <2>2, <2>3, StampKeeps
  <2>6. FeedsOK'
    BY <1>6, <2>4, <2>5 DEF CheckCpe
  <2> QED BY <1>6, <2>1, <2>6 DEF CheckCpe, data, bounds, IInv, RestOK
<1> QED BY <1>3, <1>4, <1>5, <1>6

(* The two tables of one NVD download, or only the first of them.          *)
LEMMA NvdKeeps ==
  ASSUME IInv, NEW r \in Runners, NEW v \in 0..MaxVersion,
         StoreNvd(r, v) \/ StoreNvdHalf(r, v)
  PROVE  IInv'
<1>1. IsFiniteSet(archives) /\ FeedsOK /\ TypeOK
  BY InvImplies DEF IInv, RestOK
<1>2. v \in Nat /\ v \in 0..MaxVersion
      /\ {"empty", "refreshing", "ready", "error"} = Statuses
  BY FeedsAssumption DEF Statuses
<1>3. /\ "nvd" \in Tables /\ "cpe_match" \in Tables /\ Tables \subseteq Feeds
      /\ "osv" \notin {"nvd", "cpe_match"}
  BY FeedsAssumption DEF Tables
<1>4. RunsOK'
  BY <1>1, RunnerAdvances DEF StoreNvd, StoreNvdHalf, On
<1>5. RestOK'
  BY FeedsAssumption DEF StoreNvd, StoreNvdHalf, Fault, bounds, IInv, RestOK
<1>6. CASE StoreNvd(r, v)
  <2>1. /\ meta' \in [Feeds -> [status : Statuses, rows : Nat]]
        /\ \A g \in Feeds : meta'[g] = IF g \in {"nvd", "cpe_match"}
                                       THEN [status |-> "ready", rows |-> v] ELSE meta[g]
    BY <1>1, <1>2, <1>6 DEF StoreNvd, FeedsOK
  <2>2. /\ table' \in [Tables -> 0..MaxVersion]
        /\ \A g \in Tables : table'[g] = IF g \in {"nvd", "cpe_match"} THEN v ELSE table[g]
    BY <1>1, <1>2, <1>3, <1>6 DEF StoreNvd, FeedsOK
  <2>3. \A g \in Tables : meta'[g].status = "ready" => meta'[g].rows = table'[g]
    BY <1>1, <1>3, <2>1, <2>2 DEF FeedsOK, ReadyIsStored
  <2>4. "osv" \in Feeds => meta'["osv"].rows <= Cardinality(archives')
    BY <1>1, <1>3, <1>6, <2>1 DEF StoreNvd, FeedsOK, ReadyIsStored
  <2> QED BY <1>4, <1>5, <2>1, <2>2, <2>3, <2>4 DEF IInv, FeedsOK, ReadyIsStored
<1>7. CASE StoreNvdHalf(r, v)
  <2>1. /\ meta' \in [Feeds -> [status : Statuses, rows : Nat]]
        /\ \A g \in Feeds :
             meta'[g] = IF g = "nvd" THEN [status |-> "error", rows |-> 0]
                        ELSE IF g = "cpe_match" THEN [status |-> "refreshing", rows |-> 0]
                        ELSE meta[g]
    BY <1>1, <1>2, <1>3, <1>7 DEF StoreNvdHalf, FeedsOK
  <2>2. /\ table' \in [Tables -> 0..MaxVersion]
        /\ \A g \in Tables : table'[g] = IF g = "nvd" THEN v ELSE table[g]
    BY <1>1, <1>2, <1>3, <1>7 DEF StoreNvdHalf, FeedsOK
  <2>3. \A g \in Tables : meta'[g].status = "ready" => meta'[g].rows = table'[g]
    BY <1>1, <1>3, <2>1, <2>2 DEF FeedsOK, ReadyIsStored
  <2>4. "osv" \in Feeds => meta'["osv"].rows <= Cardinality(archives')
    BY <1>1, <1>3, <1>7, <2>1 DEF StoreNvdHalf, FeedsOK, ReadyIsStored
  <2> QED BY <1>4, <1>5, <2>1, <2>2, <2>3, <2>4 DEF IInv, FeedsOK, ReadyIsStored
<1> QED BY <1>6, <1>7

(* The archives of OSV: each that came is counted with it.                 *)
LEMMA OsvKeeps ==
  ASSUME IInv, NEW r \in Runners, ListOsv(r) \/ StoreZip(r) \/ FailZip(r)
  PROVE  IInv'
<1>1. /\ TypeOK /\ CountedIsThere /\ IsFiniteSet(archives) /\ archives \subseteq Zips
      /\ up /\ up' = up /\ Running(r) /\ table' = table /\ table \in [Tables -> 0..MaxVersion]
      /\ Head(run[r].todo) = "osv"
  BY InvImplies DEF IInv, FeedsOK, RestOK, ListOsv, StoreZip, FailZip, On, data
<1>2. "osv" \in Feeds /\ "osv" \notin Tables
  BY <1>1, HeadIsFollowed DEF Tables, Plain
<1>3. Len(Ecosystems) \in Nat /\ Ecosystems \in Seq(Zips)
  BY FeedsAssumption
<1>4. ASSUME NEW n \in 0 .. Len(Ecosystems), NEW got \in 0 .. n,
             Archived(r, got, SubSeq(Ecosystems, n + 1, Len(Ecosystems))),
             IsFiniteSet(archives'), archives \subseteq archives', archives' \subseteq Zips,
             got <= Cardinality(archives' \cap Before(n)),
             UNCHANGED <<joined, rules, off, cut, bounds>>
      PROVE  IInv'
  <2>1. /\ run' \in [Runners -> RunType] /\ busy' \in BOOLEAN /\ (busy' <=> Running("mutex")')
        /\ \E s \in Statuses : meta' = Stamped("osv", s, got)
        /\ got <= Cardinality(archives')
        /\ CountedIsThere'
        /\ \A q \in Runners : run'[q].at = "fetch" => run'[q] = run[q]
    BY <1>1, <1>4, ArchivedStep
  <2>2. RunsOK'
    BY <1>1, <2>1 DEF IInv, RunsOK
  <2>3. got \in Nat
    OBVIOUS
  <2>4. FeedsOK'
    BY <1>1, <1>2, <1>4, <2>1, <2>3, StampKeeps
  <2>5. RestOK'
    BY <1>4 DEF IInv, RestOK, bounds
  <2> QED BY <2>2, <2>4, <2>5 DEF IInv
<1>5. CASE ListOsv(r)
  <2>1. archives' = archives /\ UNCHANGED <<joined, rules, off, cut, bounds>>
    BY <1>5 DEF ListOsv, data
  <2>2. \A n \in 0 .. Len(Ecosystems) : 0 <= Cardinality(archives \cap Before(n))
    BY <1>1, FS_Subset, FS_CardinalityType
  <2>3. CASE Archived(r, 0, <<>>)
    <3>1. <<>> = SubSeq(Ecosystems, Len(Ecosystems) + 1, Len(Ecosystems))
      BY <1>3
    <3>2. Archived(r, 0, SubSeq(Ecosystems, Len(Ecosystems) + 1, Len(Ecosystems)))
      BY <2>3, <3>1
    <3>3. Len(Ecosystems) \in 0 .. Len(Ecosystems) /\ 0 \in 0 .. Len(Ecosystems)
      BY <1>3
    <3> QED BY <1>1, <1>4, <2>1, <2>2, <3>2, <3>3
  <2>4. CASE Archived(r, 0, Ecosystems)
    <3>1. Ecosystems = SubSeq(Ecosystems, 0 + 1, Len(Ecosystems))
      BY <1>3
    <3>2. Archived(r, 0, SubSeq(Ecosystems, 0 + 1, Len(Ecosystems)))
      BY <2>4, <3>1
    <3>3. 0 \in 0 .. Len(Ecosystems) /\ 0 \in 0 .. 0
      BY <1>3
    <3> QED BY <1>1, <1>4, <2>1, <2>2, <3>2, <3>3
  <2> QED BY <1>5, <2>3, <2>4 DEF ListOsv
<1>6. CASE StoreZip(r)
  <2>1. PICK n \in 0 .. Len(Ecosystems) - 1 :
          /\ Head(run[r].left) = Ecosystems[n + 1] /\ Ecosystems[n + 1] \in Zips
          /\ Tail(run[r].left) = SubSeq(Ecosystems, (n + 1) + 1, Len(Ecosystems))
          /\ run[r].got \in 0 .. n
          /\ run[r].got <= Cardinality(archives \cap Before(n))
    BY <1>6, NextArchive DEF StoreZip, On
  <2>2. /\ archives' = archives \cup {Ecosystems[n + 1]} /\ archives' \subseteq Zips
        /\ UNCHANGED <<joined, rules, off, cut, bounds>>
        /\ Archived(r, run[r].got + 1, SubSeq(Ecosystems, (n + 1) + 1, Len(Ecosystems)))
    BY <1>1, <1>6, <2>1 DEF StoreZip
  <2>3. /\ IsFiniteSet(archives')
        /\ Cardinality(archives' \cap Before(n + 1)) >= Cardinality(archives \cap Before(n)) + 1
    BY <1>1, <2>2, OneMore
  <2>4. /\ n + 1 \in 0 .. Len(Ecosystems) /\ run[r].got + 1 \in 0 .. n + 1
        /\ run[r].got + 1 <= Cardinality(archives' \cap Before(n + 1))
    <3>1. /\ Cardinality(archives' \cap Before(n + 1)) \in Nat
          /\ Cardinality(archives \cap Before(n)) \in Nat
      BY <1>1, <2>3, FS_Subset, FS_CardinalityType
    <3> QED BY <1>3, <2>1, <2>3, <3>1, SMTT(30)
  <2> QED BY <1>4, <2>2, <2>3, <2>4
<1>7. CASE FailZip(r)
  <2>1. PICK n \in 0 .. Len(Ecosystems) - 1 :
          /\ Head(run[r].left) = Ecosystems[n + 1] /\ Ecosystems[n + 1] \in Zips
          /\ Tail(run[r].left) = SubSeq(Ecosystems, (n + 1) + 1, Len(Ecosystems))
          /\ run[r].got \in 0 .. n
          /\ run[r].got <= Cardinality(archives \cap Before(n))
    BY <1>7, NextArchive DEF FailZip, On
  <2>2. /\ archives' = archives /\ UNCHANGED <<joined, rules, off, cut, bounds>>
        /\ Archived(r, run[r].got, SubSeq(Ecosystems, (n + 1) + 1, Len(Ecosystems)))
    BY <1>7, <2>1 DEF FailZip, data
  <2>3. n + 1 \in 0 .. Len(Ecosystems) /\ run[r].got \in 0 .. n + 1
    BY <1>3, <2>1
  <2>4. run[r].got <= Cardinality(archives \cap Before(n + 1))
    <3>1. archives \cap Before(n) \subseteq archives \cap Before(n + 1)
      BY <1>3 DEF Before
    <3>2. IsFiniteSet(archives \cap Before(n + 1))
      BY <1>1, FS_Subset
    <3>3. /\ Cardinality(archives \cap Before(n)) <= Cardinality(archives \cap Before(n + 1))
          /\ IsFiniteSet(archives \cap Before(n))
      BY <3>1, <3>2, FS_Subset
    <3>4. /\ Cardinality(archives \cap Before(n)) \in Nat
          /\ Cardinality(archives \cap Before(n + 1)) \in Nat
      BY <3>2, <3>3, FS_CardinalityType
    <3> QED BY <2>1, <3>3, <3>4
  <2> QED BY <1>1, <1>4, <2>2, <2>3, <2>4
<1> QED BY <1>5, <1>6, <1>7

(* The join, built or failed.                                              *)
LEMMA BuildKeeps ==
  ASSUME IInv, NEW r \in Runners, Build(r) \/ BuildFails(r)
  PROVE  IInv'
<1>1. /\ IsFiniteSet(archives) /\ table \in [Tables -> 0..MaxVersion]
      /\ table' = table /\ archives' = archives /\ up /\ up' = up /\ Running(r) /\ Advance(r)
  BY DEF IInv, FeedsOK, RestOK, Build, BuildFails, On
<1>2. /\ "enriched" \in Feeds /\ "enriched" \notin Tables
      /\ {"ready", "error"} \subseteq Statuses
  BY FeedsAssumption DEF Tables, Plain, Statuses
<1>3. RunsOK'
  BY <1>1, RunnerAdvances
<1>4. JoinRows \in Nat
  BY DEF JoinRows
<1>5. meta' = Stamped("enriched", "ready", JoinRows) \/ meta' = Stamped("enriched", "error", 0)
  BY DEF Build, BuildFails
<1>6. FeedsOK'
  BY <1>1, <1>2, <1>4, <1>5, StampKeeps
<1>7. Current \in [JoinedFeeds -> 0..MaxVersion]
  <2>1. JoinedFeeds \subseteq Tables
    BY DEF JoinedFeeds, Tables, Plain
  <2> QED BY <1>1, <2>1 DEF Current
<1>8. RestOK'
  <2>1. CASE Build(r)
    BY <1>7, <2>1 DEF Build, bounds, IInv, RestOK
  <2>2. CASE BuildFails(r)
    BY <2>2, FeedsAssumption DEF BuildFails, Fault, IInv, RestOK
  <2> QED BY <2>1, <2>2
<1> QED BY <1>3, <1>6, <1>8 DEF IInv

(* The YARA rules: a source at a time, and the count of those enabled.     *)
LEMMA YaraKeeps ==
  ASSUME IInv, NEW r \in Runners, NEW parsed \in BOOLEAN,
         StoreYara(r, parsed) \/ FailYara(r) \/ EndYara(r)
  PROVE  IInv'
<1>1. /\ IsFiniteSet(archives) /\ IsFiniteSet(rules) /\ rules \subseteq Sources
      /\ table \in [Tables -> 0..MaxVersion]
      /\ up /\ up' = up /\ Running(r) /\ archives' = archives /\ table' = table
      /\ run[r].at = "fetch" /\ run \in [Runners -> RunType] /\ Head(run[r].todo) = "yara_rules"
  BY DEF IInv, RunsOK, FeedsOK, RestOK, StoreYara, FailYara, EndYara, On, data
<1>2. CASE (StoreYara(r, parsed) \/ FailYara(r)) /\ run[r].left # <<>>
  <2>1. Tail(run[r].left) \in Seq(Sources) /\ Head(run[r].left) \in Sources
    BY <1>1, <1>2 DEF IInv, RunsOK
  <2>2. run' = [run EXCEPT ![r].at = "fetch", ![r].left = Tail(run[r].left)]
    <3>1. run' = [run EXCEPT ![r] = [run[r] EXCEPT !.left = Tail(run[r].left)]]
      BY <1>1, <1>2 DEF StoreYara, FailYara
    <3>2. [run[r] EXCEPT !.left = Tail(run[r].left)]
            = [run[r] EXCEPT !.at = "fetch", !.left = Tail(run[r].left)]
      BY <1>1 DEF RunType
    <3> QED BY <1>1, <3>1, <3>2
  <2>3. RunsOK'
    BY <1>1, <1>2, <2>1, <2>2, RunnerMoves DEF StoreYara, FailYara
  <2>4. FeedsOK'
    BY <1>1, <1>2, FeedsStay DEF StoreYara, FailYara
  <2>5. RestOK'
    <3>1. CASE FailYara(r)
      BY <3>1 DEF FailYara, data, bounds, IInv, RestOK
    <3>2. CASE StoreYara(r, parsed)
      <4>1. IsFiniteSet(rules \cup {Head(run[r].left)}) /\ IsFiniteSet(rules \ {Head(run[r].left)})
        BY <1>1, FS_AddElement, FS_Subset
      <4>2. IsFiniteSet(rules') /\ rules' \subseteq Sources
        BY <1>1, <2>1, <3>2, <4>1 DEF StoreYara
      <4>3. off' \subseteq Sources
        BY <3>2 DEF StoreYara, IInv, RestOK
      <4> QED BY <3>2, <4>2, <4>3 DEF StoreYara, bounds, IInv, RestOK
    <3> QED BY <1>2, <3>1, <3>2
  <2> QED BY <2>3, <2>4, <2>5 DEF IInv
<1>3. CASE EndYara(r)
  <2>1. RunsOK'
    BY <1>1, <1>3, RunnerAdvances DEF EndYara
  <2>2. IsFiniteSet(rules \ off) /\ EnabledRules \in Nat
    BY <1>1, FS_Subset, FS_CardinalityType DEF EnabledRules
  <2>3. "yara_rules" \in Feeds /\ "yara_rules" \notin Tables /\ "ready" \in Statuses
    BY <1>1, HeadIsFollowed DEF Tables, Plain, Statuses
  <2>4. meta' = Stamped("yara_rules", "ready", EnabledRules)
    BY <1>3 DEF EndYara
  <2>5. FeedsOK'
    BY <1>1, <2>2, <2>3, <2>4, StampKeeps
  <2> QED BY <1>3, <2>1, <2>5 DEF EndYara, data, bounds, IInv, RestOK
<1> QED BY <1>2, <1>3 DEF StoreYara, FailYara

(* Every step of a runner.                                                 *)
LEMMA StepKeeps ==
  ASSUME IInv, NEW r \in Runners, Step(r)
  PROVE  IInv'
<1>1. 0 \in 0..MaxVersion /\ "nvd" \in Feeds
  BY FeedsAssumption
<1>2. CASE \E f \in Feeds : Begin(r, f) \/ Fail(r, f) \/ \E v \in 0..MaxVersion : Store(r, f, v)
  BY <1>1, <1>2, DownloadKeeps
<1>3. CASE \E v \in 0..MaxVersion : StoreNvd(r, v) \/ StoreNvdHalf(r, v)
  BY <1>3, NvdKeeps
<1>4. CASE CheckCpe(r)
  BY <1>1, <1>4, DownloadKeeps
<1>5. CASE ListOsv(r) \/ StoreZip(r) \/ FailZip(r)
  BY <1>5, OsvKeeps
<1>6. CASE Build(r) \/ BuildFails(r)
  BY <1>6, BuildKeeps
<1>7. CASE (\E parsed \in BOOLEAN : StoreYara(r, parsed)) \/ FailYara(r) \/ EndYara(r)
  BY <1>7, YaraKeeps
<1> QED BY <1>2, <1>3, <1>4, <1>5, <1>6, <1>7 DEF Step

----------------------------------------------------------------------------
(* The other steps                                                         *)

(* A cycle is given to a runner that had none.                             *)
LEMMA StartsKeep ==
  ASSUME IInv, NEW r \in Runners, NEW todo \in Seq(Feeds), todo # <<>>,
         run' = [run EXCEPT ![r] = [Idle EXCEPT !.todo = todo]],
         up, up' = up, busy' = (IF r = "mutex" THEN TRUE ELSE busy), archives' = archives
  PROVE  RunsOK'
<1>1. run \in [Runners -> RunType] /\ busy \in BOOLEAN /\ (busy <=> Running("mutex"))
      /\ CountedIsThere /\ IsFiniteSet(archives)
  BY DEF IInv, RunsOK, RestOK
<1> DEFINE next == [Idle EXCEPT !.todo = todo]
<1>2. next \in RunType /\ next.todo = todo /\ next.at = "begin"
  BY IdleType DEF Idle, RunType
<1> HIDE DEF next
<1>3. run' \in [Runners -> RunType]
      /\ \A q \in Runners : run'[q] = IF q = r THEN next ELSE run[q]
  BY <1>1, <1>2 DEF next
<1>4. busy' <=> Running("mutex")'
  BY <1>1, <1>2, <1>3 DEF Running, Runners
<1>5. \A q \in Runners : run[q].got \in Nat /\ Counted(q)
  BY <1>1, FeedsAssumption DEF RunType, CountedIsThere
<1>6. \A q \in Runners : Counted(q)'
  BY <1>1, <1>2, <1>3, <1>5, CountedStays
<1>7. \A q \in Runners : run'[q].at = "fetch" => run'[q].left \in Seq(Sources)
  BY <1>2, <1>3 DEF IInv, RunsOK
<1> QED BY <1>1, <1>3, <1>4, <1>6, <1>7 DEF RunsOK, CountedIsThere

(* Everything that starts a refresh.                                       *)
LEMMA StartKeeps ==
  ASSUME IInv, NEW todo \in Seq(Feeds), todo # <<>>,
         (StartUnderMutex(todo) /\ manual' \in 0..MaxManual) \/ Weekly
  PROVE  IInv'
<1>1. /\ IsFiniteSet(archives) /\ archives' = archives /\ meta' = meta /\ table' = table
      /\ "mutex" \in Runners /\ "weekly" \in Runners
  BY DEF IInv, RestOK, StartUnderMutex, Weekly, data, Runners
<1>2. FeedsOK'
  BY <1>1, FeedsStay
<1>3. CASE StartUnderMutex(todo) /\ manual' \in 0..MaxManual
  <2>1. RunsOK'
    BY <1>1, <1>3, StartsKeep DEF StartUnderMutex
  <2> QED BY <1>2, <1>3, <2>1 DEF StartUnderMutex, data, IInv, RestOK
<1>4. CASE Weekly
  <2>1. <<"yara_rules">> \in Seq(Feeds) /\ <<"yara_rules">> # <<>>
    BY <1>4 DEF Weekly
  <2>2. RunsOK'
    BY <1>1, <1>4, <2>1, StartsKeep DEF Weekly
  <2> QED BY <1>2, <1>4, <2>2 DEF Weekly, data, bounds, IInv, RestOK
<1> QED BY <1>3, <1>4

(* A rule switched on or off by an analyst.                                *)
LEMMA ToggleKeeps ==
  ASSUME IInv, NEW s \in Sources, Toggle(s)
  PROVE  IInv'
<1>1. RunsOK'
  BY RunnerStays DEF Toggle
<1>2. FeedsOK'
  BY FeedsStay DEF Toggle, IInv, RestOK
<1>3. manual' \in 0..MaxManual
  BY FeedsAssumption DEF Toggle, IInv, RestOK
<1>4. /\ cut' = cut /\ joined' = joined /\ archives' = archives /\ rules' = rules /\ faults' = faults
      /\ off' \subseteq Sources
  BY DEF Toggle, IInv, RestOK
<1> QED BY <1>1, <1>2, <1>3, <1>4 DEF IInv, RestOK

(* A restart, which refreshes when a feed is stale.                        *)
LEMMA RestartKeeps ==
  ASSUME IInv, Restart
  PROVE  IInv'
<1>1. /\ run \in [Runners -> RunType] /\ ~busy /\ ~Running("mutex") /\ CountedIsThere
      /\ IsFiniteSet(archives) /\ archives' = archives /\ up'
      /\ "mutex" \in Runners
  BY DEF IInv, RunsOK, RestOK, Restart, data, Runners
<1>2. PICK aged \in BOOLEAN :
        /\ busy' = AnyStale(aged)
        /\ run' = IF AnyStale(aged) THEN [run EXCEPT !["mutex"].todo = FullCycle] ELSE run
  BY DEF Restart
<1>3. AnyStale(aged) \in BOOLEAN
  BY DEF AnyStale
<1>4. /\ run' \in [Runners -> RunType]
      /\ \A q \in Runners : run'[q].at = run[q].at /\ run'[q].left = run[q].left
                              /\ run'[q].got = run[q].got
  BY <1>1, <1>2, CycleType DEF RunType
<1>5. busy' <=> Running("mutex")'
  BY <1>1, <1>2, CycleType DEF Running, RunType
<1>6. \A q \in Runners : Counted(q)'
  BY <1>1, <1>4 DEF CountedIsThere, Counted, Before
<1>7. \A q \in Runners : run'[q].at = "fetch" => run'[q].left \in Seq(Sources)
  BY <1>4 DEF IInv, RunsOK
<1>8. RunsOK'
  BY <1>1, <1>2, <1>3, <1>4, <1>5, <1>6, <1>7 DEF RunsOK, CountedIsThere
<1>9. FeedsOK'
  BY <1>1, FeedsStay DEF Restart, data
<1> QED BY <1>8, <1>9 DEF Restart, data, bounds, IInv, RestOK

(* A kill, wherever it comes: between the transaction of a table and the   *)
(* next stamp, both are of one version.                                    *)
LEMMA KillsKeep ==
  ASSUME IInv, NEW v \in 0..MaxVersion,
         KillAny \/ KillInZip \/ KillInBuild \/ KillInNvd(v)
  PROVE  IInv'
<1>1. /\ IsFiniteSet(archives) /\ archives \subseteq Zips /\ FeedsOK
      /\ Cardinality(archives) \in Nat
  BY FS_CardinalityType DEF IInv, RestOK
<1>2. CASE KillAny
  <2>1. FeedsOK'
    BY <1>1, <1>2, FeedsStay DEF KillAny, Kill
  <2> QED BY <1>1, <1>2, <2>1, KillKeeps DEF KillAny
<1>3. CASE KillInZip
  <2>1. PICK r \in Runners :
          run[r].at = "zips" /\ Kill(meta, table, archives \cup {Head(run[r].left)})
    BY <1>3 DEF KillInZip, On
  <2> DEFINE more == archives \cup {Head(run[r].left)}
  <2>2. Head(run[r].left) \in Zips
    BY <2>1, NextArchive
  <2>3. IsFiniteSet(more) /\ more \subseteq Zips /\ archives \subseteq more
    BY <1>1, <2>2, FS_AddElement
  <2>4. archives' = more /\ meta' = meta /\ table' = table
    BY <2>1 DEF Kill
  <2>5. FeedsOK'
    BY <2>3, <2>4, FeedsStay
  <2> QED BY <2>1, <2>3, <2>5, KillKeeps
<1>4. CASE KillInBuild
  <2>1. Kill(Stamped("enriched", "refreshing", 0), table, archives)
    BY <1>4 DEF KillInBuild
  <2>2. meta' = Stamped("enriched", "refreshing", 0) /\ table' = table /\ archives' = archives
    BY <2>1 DEF Kill
  <2>3. "enriched" \in Feeds /\ "enriched" \notin Tables /\ "refreshing" \in Statuses
        /\ table \in [Tables -> 0..MaxVersion]
    BY <1>1, FeedsAssumption DEF Tables, Plain, Statuses, FeedsOK
  <2>4. FeedsOK'
    BY <1>1, <2>2, <2>3, StampKeeps
  <2> QED BY <1>1, <2>1, <2>4, KillKeeps
<1>5. CASE KillInNvd(v)
  <2>1. PICK stamped \in BOOLEAN :
          Kill([meta EXCEPT !["nvd"] = [status |-> "ready", rows |-> v],
                            !["cpe_match"] = IF stamped THEN [status |-> "refreshing", rows |-> 0] ELSE @],
               [table EXCEPT !["nvd"] = v], archives)
    BY <1>5 DEF KillInNvd
  <2>2. /\ meta' = [meta EXCEPT !["nvd"] = [status |-> "ready", rows |-> v],
                   !["cpe_match"] = IF stamped THEN [status |-> "refreshing", rows |-> 0] ELSE @]
        /\ table' = [table EXCEPT !["nvd"] = v] /\ archives' = archives
    BY <2>1 DEF Kill
  <2>3. /\ v \in Nat /\ v \in 0..MaxVersion /\ {"ready", "refreshing"} \subseteq Statuses
        /\ "nvd" \in Tables /\ "cpe_match" \in Tables /\ Tables \subseteq Feeds
    BY FeedsAssumption DEF Tables, Statuses
  <2>4. /\ meta' \in [Feeds -> [status : Statuses, rows : Nat]]
        /\ \A g \in Feeds :
             meta'[g] = IF g = "nvd" THEN [status |-> "ready", rows |-> v]
                        ELSE IF g = "cpe_match" /\ stamped THEN [status |-> "refreshing", rows |-> 0]
                        ELSE meta[g]
    BY <1>1, <2>2, <2>3 DEF FeedsOK
  <2>5. /\ table' \in [Tables -> 0..MaxVersion]
        /\ \A g \in Tables : table'[g] = IF g = "nvd" THEN v ELSE table[g]
    BY <1>1, <2>2, <2>3 DEF FeedsOK
  <2>6. \A g \in Tables : meta'[g].status = "ready" => meta'[g].rows = table'[g]
    BY <1>1, <2>3, <2>4, <2>5 DEF FeedsOK, ReadyIsStored
  <2>7. "osv" \in Feeds => meta'["osv"].rows <= Cardinality(archives')
    BY <1>1, <2>2, <2>4 DEF FeedsOK, ReadyIsStored
  <2>8. FeedsOK'
    BY <2>4, <2>5, <2>6, <2>7 DEF FeedsOK, ReadyIsStored
  <2> QED BY <1>1, <2>1, <2>8, KillKeeps
<1> QED BY <1>2, <1>3, <1>4, <1>5

----------------------------------------------------------------------------
LEMMA InitInv == Init => IInv
<1> SUFFICES ASSUME Init PROVE IInv
  OBVIOUS
<1>1. RunsOK
  <2>1. run \in [Runners -> RunType]
        /\ \A r \in Runners : run[r].at = "begin" /\ (r = "mutex" => run[r].todo = FullCycle)
    BY CycleType, IdleType DEF Init, Runners, Idle, RunType
  <2> QED BY <2>1, CycleType DEF Init, RunsOK, Running, Runners, CountedIsThere, Counted
<1>2. Cardinality(archives) = 0
  BY FS_EmptySet DEF Init
<1>3. FeedsOK
  <2>1. meta = [f \in Feeds |-> [status |-> "empty", rows |-> 0]] /\ table = [f \in Tables |-> 0]
    BY DEF Init
  <2>2. Tables \subseteq Feeds /\ 0 \in 0..MaxVersion
    BY FeedsAssumption DEF Tables
  <2>3. meta \in [Feeds -> [status : Statuses, rows : Nat]]
    BY <2>1 DEF Statuses
  <2>4. ReadyIsStored
    BY <1>2, <2>1, <2>2 DEF ReadyIsStored
  <2> QED BY <2>1, <2>2, <2>3, <2>4 DEF FeedsOK
<1>4. RestOK
  <2>1. IsFiniteSet(archives) /\ IsFiniteSet(rules)
    BY FS_EmptySet DEF Init
  <2>2. 0 \in 0..MaxVersion /\ 0 \in 0..MaxFaults /\ 0 \in 0..MaxManual
    BY FeedsAssumption
  <2>3. joined = [f \in JoinedFeeds |-> 0]
    BY DEF Init
  <2>4. joined \in [JoinedFeeds -> 0..MaxVersion]
    BY <2>2, <2>3
  <2> QED BY <2>1, <2>2, <2>4 DEF Init, RestOK
<1> QED BY <1>1, <1>3, <1>4 DEF IInv

LEMMA NextInv == IInv /\ [Next]_vars => IInv'
<1> SUFFICES ASSUME IInv, [Next]_vars PROVE IInv'
  OBVIOUS
<1>1. 0 \in 0..MaxVersion
  BY FeedsAssumption
<1>2. CASE UNCHANGED vars
  <2>1. RunsOK'
    BY <1>2, RunnerStays DEF vars
  <2>2. FeedsOK'
    BY <1>2, FeedsStay DEF vars, IInv, RestOK
  <2> QED BY <1>2, <2>1, <2>2 DEF vars, IInv, RestOK
<1>3. CASE Daily
  <2>1. StartUnderMutex(FullCycle) /\ manual' \in 0..MaxManual
    BY <1>3 DEF Daily, IInv, RestOK
  <2> QED BY <2>1, CycleType, StartKeeps
<1>4. CASE Weekly
  BY <1>4, CycleType, StartKeeps
<1>5. ASSUME NEW todo \in Seq(Feeds), todo # <<>>, Manual(todo)
      PROVE  IInv'
  <2>1. StartUnderMutex(todo) /\ manual' \in 0..MaxManual
    BY <1>5, FeedsAssumption DEF Manual, IInv, RestOK
  <2> QED BY <1>5, <2>1, StartKeeps
<1>6. CASE Manual(FullCycle) \/ \E f \in Feeds : Manual(SingleCycle(f))
  BY <1>5, <1>6, CycleType
<1>7. CASE \E r \in Runners : Step(r)
  BY <1>7, StepKeeps
<1>8. CASE \E s \in Sources : Toggle(s)
  BY <1>8, ToggleKeeps
<1>9. CASE KillAny \/ KillInZip \/ KillInBuild
  BY <1>1, <1>9, KillsKeep
<1>10. CASE \E v \in 0..MaxVersion : KillInNvd(v)
  BY <1>10, KillsKeep
<1>11. CASE Restart
  BY <1>11, RestartKeeps
<1> QED BY <1>2, <1>3, <1>4, <1>6, <1>7, <1>8, <1>9, <1>10, <1>11 DEF Next

LEMMA Invariance == Spec => []IInv
BY InitInv, NextInv, PTL DEF Spec

(* The state has its type, and the mutex is held exactly while a cycle     *)
(* runs: no error and no kill leaves it held (the finally of refreshAll    *)
(* and of refreshFeed in scheduler.ts).                                    *)
THEOREM TypeCorrect == Spec => []TypeOK
<1>1. IInv => TypeOK
  BY InvImplies
<1> QED BY <1>1, Invariance, PTL

(* A feed shown as ready has the rows it is shown with, and OSV never more *)
(* than the archives in the cache, whatever fails or is killed around the  *)
(* transactions of db.ts.                                                  *)
THEOREM ReadyHasRows == Spec => []ReadyIsStored
<1>1. IInv => ReadyIsStored
  BY InvImplies
<1> QED BY <1>1, Invariance, PTL

----------------------------------------------------------------------------
(* The join.  A cycle that changes a table ends in the join, and what it   *)
(* changed is owed to it until then.                                       *)

Owes(todo) == todo # <<>> /\ todo[Len(todo)] = "enriched"

(* The only cycle that does not end in the join is a refresh of OSV alone, *)
(* and a runner waits for nothing in the join.                             *)
CyclesClose ==
  /\ run["mutex"].todo \in {<<>>, <<"osv">>} \/ Owes(run["mutex"].todo)
  /\ run["weekly"].todo \in {<<>>, <<"yara_rules">>}
  /\ \A r \in Runners :
       run[r].at = "begin" \/ (up /\ Running(r) /\ Head(run[r].todo) # "enriched")

JoinOwed == cut \/ joined = Current \/ Owes(run["mutex"].todo)

JoinInv == IInv /\ CyclesClose /\ JoinOwed

LEMMA OwesTail ==
  ASSUME NEW todo \in Seq(Feeds), Owes(todo)
  PROVE  /\ Tail(todo) = <<>> \/ Owes(Tail(todo))
         /\ Head(todo) # "enriched" => Owes(Tail(todo))
<1>1. Len(todo) \in Nat /\ Len(todo) >= 1 /\ todo[Len(todo)] = "enriched"
  BY DEF Owes
<1>2. /\ Tail(todo) \in Seq(Feeds) /\ Len(Tail(todo)) = Len(todo) - 1
      /\ \A i \in 1 .. Len(todo) - 1 : Tail(todo)[i] = todo[i + 1]
  BY <1>1
<1>3. CASE Len(todo) = 1
  <2>1. Tail(todo) = <<>>
    <3>1. Tail(todo) \in Seq(Feeds) /\ Len(Tail(todo)) = 0
      BY <1>2, <1>3
    <3> QED BY <3>1, EmptySeq
  <2>2. Head(todo) = todo[1] /\ todo[1] = "enriched"
    BY <1>1, <1>3
  <2> QED BY <2>1, <2>2
<1>4. CASE Len(todo) # 1
  <2>1. Tail(todo)[Len(todo) - 1] = todo[Len(todo)]
    <3>1. Len(todo) - 1 \in 1 .. Len(todo) - 1
      BY <1>1, <1>4
    <3>2. Tail(todo)[Len(todo) - 1] = todo[(Len(todo) - 1) + 1]
      BY <1>2, <3>1
    <3>3. (Len(todo) - 1) + 1 = Len(todo)
      BY <1>1
    <3> QED BY <3>2, <3>3
  <2>2. Tail(todo) # <<>>
    <3>1. Len(Tail(todo)) # 0 /\ Len(<<>>) = 0
      BY <1>1, <1>2, <1>4
    <3> QED BY <3>1
  <2> QED BY <1>1, <1>2, <2>1, <2>2 DEF Owes
<1> QED BY <1>3, <1>4

(* The cycles that the service starts.                                     *)
LEMMA CyclesOwe ==
  /\ Owes(FullCycle)
  /\ \A f \in Feeds : SingleCycle(f) = <<"osv">> \/ Owes(SingleCycle(f))
<1>1. Owes(FullCycle)
  <2> DEFINE before == Turn("kev") \o Turn("epss") \o Turn("nvd") \o Turn("cpe_match") \o Turn("osv")
                       \o Turn("endoflife") \o Turn("tranco")
  <2>1. \A f : Turn(f) \in Seq(Feeds)
    BY DEF Turn
  <2>2. \A s, t \in Seq(Feeds) : s \o t \in Seq(Feeds)
    OBVIOUS
  <2>3. before \in Seq(Feeds)
    BY <2>1, <2>2
  <2>4. FullCycle = before \o <<"enriched">>
    BY FeedsAssumption DEF FullCycle, Turn
  <2> HIDE DEF before
  <2>5. Len(before) \in Nat /\ "enriched" \in Feeds
    BY <2>3, FeedsAssumption
  <2>6. Len(FullCycle) = Len(before) + 1 /\ FullCycle[Len(before) + 1] = "enriched"
    BY <2>3, <2>4, <2>5
  <2> QED BY <2>5, <2>6, CycleType DEF Owes
<1>2. \A f \in Feeds : SingleCycle(f) = <<"osv">> \/ Owes(SingleCycle(f))
  BY DEF SingleCycle, Owes
<1> QED BY <1>1, <1>2

(* A step inside a feed other than the join.                               *)
Inside(r) ==
  /\ Head(run[r].todo) # "enriched" /\ run'[r].todo = run[r].todo
  /\ \A q \in Runners \ {r} : run'[q] = run[q]
  /\ UNCHANGED <<table, joined, cut>>

(* The end of a feed other than the join; only that of a table changes a   *)
(* table.                                                                  *)
Onward(r) ==
  /\ Head(run[r].todo) # "enriched" /\ Advance(r)
  /\ UNCHANGED <<joined, cut>>
  /\ table' = table \/ Head(run[r].todo) \in Plain \cup {"nvd"}

LEMMA JoinCases ==
  ASSUME JoinInv, NEW r \in Runners, Step(r)
  PROVE  /\ up /\ up' /\ Running(r)
         /\ Inside(r) \/ Onward(r) \/ Build(r) \/ BuildFails(r)
<1>1. /\ run \in [Runners -> RunType]
      /\ run[r].at # "begin" => Head(run[r].todo) # "enriched"
  BY DEF JoinInv, IInv, RunsOK, CyclesClose
<1>2. ASSUME NEW x, run' = [run EXCEPT ![r] = x], x.todo = run[r].todo,
             Head(run[r].todo) # "enriched", UNCHANGED <<table, joined, cut>>
      PROVE  Inside(r)
  BY <1>1, <1>2 DEF Inside
<1>3. ASSUME NEW f \in Feeds, Begin(r, f)
      PROVE  up /\ up' /\ Running(r) /\ Inside(r)
  <2> DEFINE left == IF f = "yara_rules" THEN YaraSources ELSE <<>>
             x == [run[r] EXCEPT !.at = "fetch", !.left = left]
  <2>1. /\ On(r, f, "begin") /\ f # "enriched" /\ run' = [run EXCEPT ![r] = x] /\ up' = up
        /\ UNCHANGED <<table, joined, cut>>
    BY <1>1, <1>3 DEF Begin, data
  <2>2. x.todo = run[r].todo
    BY <1>1 DEF RunType
  <2> HIDE DEF x
  <2> QED BY <1>2, <2>1, <2>2 DEF On
<1>4. ASSUME NEW f \in Feeds, Fail(r, f) \/ \E v \in 0..MaxVersion : Store(r, f, v)
      PROVE  up /\ up' /\ Running(r) /\ Onward(r)
  BY <1>1, <1>4 DEF Fail, Store, On, Onward, data
<1>5. ASSUME NEW v \in 0..MaxVersion, StoreNvd(r, v) \/ StoreNvdHalf(r, v)
      PROVE  up /\ up' /\ Running(r) /\ Onward(r)
  BY <1>1, <1>5 DEF StoreNvd, StoreNvdHalf, On, Onward
<1>6. CASE CheckCpe(r) \/ EndYara(r)
  BY <1>1, <1>6 DEF CheckCpe, EndYara, On, Onward, data
<1>7. CASE ListOsv(r) \/ StoreZip(r) \/ FailZip(r)
  <2>1. /\ up /\ up' = up /\ Running(r) /\ Head(run[r].todo) = "osv"
        /\ UNCHANGED <<table, joined, cut>>
    BY <1>7 DEF ListOsv, StoreZip, FailZip, On, data
  <2>2. PICK got, rest : Archived(r, got, rest)
    BY <1>7 DEF ListOsv, StoreZip, FailZip
  <2>3. Advance(r) \/ run' = [run EXCEPT ![r] = [run[r] EXCEPT !.at = "zips", !.left = rest, !.got = got]]
    BY <1>1, <2>2 DEF Archived
  <2>4. [run[r] EXCEPT !.at = "zips", !.left = rest, !.got = got].todo = run[r].todo
    BY <1>1 DEF RunType
  <2>5. Inside(r) \/ Onward(r)
    BY <1>2, <2>1, <2>3, <2>4 DEF Onward
  <2> QED BY <2>1, <2>5
<1>8. CASE (\E parsed \in BOOLEAN : StoreYara(r, parsed)) \/ FailYara(r)
  <2>1. /\ up /\ up' = up /\ Running(r) /\ Head(run[r].todo) = "yara_rules"
        /\ UNCHANGED <<table, joined, cut>>
        /\ run' = [run EXCEPT ![r] = [run[r] EXCEPT !.left = Tail(run[r].left)]]
    BY <1>1, <1>8 DEF StoreYara, FailYara, On, data
  <2>2. [run[r] EXCEPT !.left = Tail(run[r].left)].todo = run[r].todo
    BY <1>1 DEF RunType
  <2> QED BY <1>2, <2>1, <2>2
<1>9. CASE Build(r) \/ BuildFails(r)
  BY <1>9 DEF Build, BuildFails, On
<1> QED BY <1>3, <1>4, <1>5, <1>6, <1>7, <1>8, <1>9 DEF Step

LEMMA JoinStepKeeps ==
  ASSUME JoinInv, NEW r \in Runners, Step(r)
  PROVE  CyclesClose' /\ JoinOwed'
<1>1. /\ run \in [Runners -> RunType] /\ up /\ up' /\ Running(r) /\ run[r].todo \in Seq(Feeds)
      /\ Inside(r) \/ Onward(r) \/ Build(r) \/ BuildFails(r)
      /\ CyclesClose /\ JoinOwed /\ "mutex" \in Runners /\ "weekly" \in Runners
  BY JoinCases DEF JoinInv, IInv, RunsOK, RunType, Runners
<1>2. r = "mutex" \/ r = "weekly"
  BY DEF Runners
<1>3. ASSUME Advance(r)
      PROVE  /\ run'[r].todo = Tail(run[r].todo) /\ run'[r].at = "begin"
             /\ \A q \in Runners \ {r} : run'[q] = run[q]
  BY <1>1, <1>3 DEF Advance, Idle
<1>4. ASSUME UNCHANGED table PROVE Current' = Current
  BY <1>4 DEF Current
<1>5. Tail(<<"osv">>) = <<>> /\ Tail(<<"yara_rules">>) = <<>> /\ Head(<<"osv">>) = "osv"
      /\ Head(<<"yara_rules">>) = "yara_rules"
  OBVIOUS
<1>6. CASE Inside(r)
  <2>1. run'["mutex"].todo = run["mutex"].todo /\ run'["weekly"].todo = run["weekly"].todo
    BY <1>1, <1>2, <1>6 DEF Inside
  <2>2. JoinOwed'
    BY <1>1, <1>4, <1>6, <2>1 DEF JoinOwed, Inside
  <2>3. \A q \in Runners :
          run'[q].at = "begin" \/ (up' /\ Running(q)' /\ Head(run'[q].todo) # "enriched")
    BY <1>1, <1>6 DEF Inside, CyclesClose, Running
  <2> QED BY <1>1, <2>1, <2>2, <2>3 DEF CyclesClose
<1>7. ASSUME Advance(r)
      PROVE  CyclesClose'
  <2>1. run'["weekly"].todo \in {<<>>, <<"yara_rules">>}
    BY <1>1, <1>2, <1>3, <1>5, <1>7 DEF CyclesClose, Running
  <2>2. run'["mutex"].todo \in {<<>>, <<"osv">>} \/ Owes(run'["mutex"].todo)
    <3>1. CASE r = "weekly"
      BY <1>1, <1>3, <1>7, <3>1 DEF CyclesClose
    <3>2. CASE r = "mutex" /\ run[r].todo = <<"osv">>
      BY <1>3, <1>5, <1>7, <3>2
    <3>3. CASE r = "mutex" /\ Owes(run[r].todo)
      <4>1. Owes(Tail(run[r].todo)) \/ Tail(run[r].todo) = <<>>
        BY <1>1, <3>3, OwesTail
      <4> QED BY <1>3, <1>7, <3>3, <4>1
    <3> QED BY <1>1, <1>2, <3>1, <3>2, <3>3 DEF CyclesClose, Running
  <2>3. \A q \in Runners :
          run'[q].at = "begin" \/ (up' /\ Running(q)' /\ Head(run'[q].todo) # "enriched")
    BY <1>1, <1>3, <1>7 DEF CyclesClose, Running
  <2> QED BY <2>1, <2>2, <2>3 DEF CyclesClose
<1>8. CASE Onward(r)
  <2>1. Advance(r) /\ joined' = joined /\ cut' = cut /\ Head(run[r].todo) # "enriched"
    BY <1>8 DEF Onward
  <2>2. Owes(run["mutex"].todo) => Owes(run'["mutex"].todo)
    BY <1>1, <1>2, <1>3, <2>1, OwesTail
  <2>3. table' = table \/ Owes(run["mutex"].todo)
    <3>1. CASE Head(run[r].todo) \in Plain \cup {"nvd"}
      <4>1. r = "mutex" /\ run[r].todo # <<"osv">>
        BY <1>1, <1>2, <1>5, <3>1 DEF CyclesClose, Running, Plain
      <4> QED BY <1>1, <4>1 DEF CyclesClose, Running
    <3> QED BY <1>8, <3>1 DEF Onward
  <2>4. JoinOwed'
    BY <1>1, <1>4, <2>1, <2>2, <2>3 DEF JoinOwed
  <2> QED BY <1>7, <2>1, <2>4
<1>9. CASE Build(r)
  <2>1. joined' = Current /\ table' = table /\ Advance(r)
    BY <1>9 DEF Build
  <2> QED BY <1>4, <1>7, <2>1 DEF JoinOwed
<1>10. CASE BuildFails(r)
  BY <1>7, <1>10 DEF BuildFails, JoinOwed
<1> QED BY <1>1, <1>6, <1>8, <1>9, <1>10

LEMMA JoinNext == JoinInv /\ [Next]_vars => CyclesClose' /\ JoinOwed'
<1> SUFFICES ASSUME JoinInv, [Next]_vars PROVE CyclesClose' /\ JoinOwed'
  OBVIOUS
<1>1. /\ run \in [Runners -> RunType] /\ "mutex" \in Runners /\ "weekly" \in Runners
      /\ CyclesClose /\ JoinOwed /\ (busy <=> Running("mutex"))
  BY DEF JoinInv, IInv, RunsOK, Runners
<1>2. ASSUME UNCHANGED table PROVE Current' = Current
  BY <1>2 DEF Current
<1>3. CASE UNCHANGED vars
  BY <1>1, <1>2, <1>3 DEF vars, CyclesClose, JoinOwed, Running
<1>4. CASE \E r \in Runners : Step(r)
  BY <1>4, JoinStepKeeps
<1>5. ASSUME NEW s \in Sources, Toggle(s)
      PROVE  CyclesClose' /\ JoinOwed'
  BY <1>1, <1>2, <1>5 DEF Toggle, CyclesClose, JoinOwed, Running
<1>6. ASSUME NEW todo \in Seq(Feeds), todo = <<"osv">> \/ Owes(todo), StartUnderMutex(todo)
      PROVE  CyclesClose' /\ JoinOwed'
  <2>1. /\ run' = [run EXCEPT !["mutex"] = [Idle EXCEPT !.todo = todo]] /\ up' = up /\ up /\ ~busy
        /\ UNCHANGED <<table, joined, cut>>
    BY <1>6 DEF StartUnderMutex, data
  <2>2. [Idle EXCEPT !.todo = todo].todo = todo /\ [Idle EXCEPT !.todo = todo].at = "begin"
    BY DEF Idle
  <2>3. /\ run'["mutex"].todo = todo /\ run'["mutex"].at = "begin"
        /\ \A q \in Runners \ {"mutex"} : run'[q] = run[q]
    BY <1>1, <2>1, <2>2
  <2>4. CyclesClose'
    BY <1>1, <1>6, <2>1, <2>3 DEF CyclesClose, Running
  <2>5. JoinOwed'
    BY <1>1, <1>2, <2>1 DEF JoinOwed, Running, Owes
  <2> QED BY <2>4, <2>5
<1>7. CASE Daily \/ Manual(FullCycle) \/ \E f \in Feeds : Manual(SingleCycle(f))
  BY <1>6, <1>7, CycleType, CyclesOwe DEF Daily, Manual
<1>8. CASE Weekly
  <2>1. /\ run' = [run EXCEPT !["weekly"] = [Idle EXCEPT !.todo = <<"yara_rules">>]] /\ up' = up
        /\ UNCHANGED <<table, joined, cut>>
    BY <1>8 DEF Weekly, data
  <2>2. /\ [Idle EXCEPT !.todo = <<"yara_rules">>].todo = <<"yara_rules">>
        /\ [Idle EXCEPT !.todo = <<"yara_rules">>].at = "begin"
    BY DEF Idle
  <2>3. /\ run'["weekly"].todo = <<"yara_rules">> /\ run'["weekly"].at = "begin"
        /\ \A q \in Runners \ {"weekly"} : run'[q] = run[q]
    BY <1>1, <2>1, <2>2
  <2> QED BY <1>1, <1>2, <2>1, <2>3 DEF CyclesClose, JoinOwed, Running
<1>9. ASSUME NEW m, NEW t, NEW a, Kill(m, t, a), t = table \/ Running("mutex")
      PROVE  CyclesClose' /\ JoinOwed'
  <2>1. /\ run' = [q \in Runners |-> Idle] /\ cut' = (cut \/ Running("mutex"))
        /\ table' = t /\ joined' = joined
    BY <1>9 DEF Kill
  <2>2. \A q \in Runners : run'[q].todo = <<>> /\ run'[q].at = "begin"
    BY <2>1, IdleType
  <2>3. CyclesClose'
    BY <1>1, <2>2 DEF CyclesClose
  <2>4. JoinOwed'
    BY <1>1, <1>2, <1>9, <2>1 DEF JoinOwed, Running, Owes
  <2> QED BY <2>3, <2>4
<1>10. CASE KillAny \/ KillInZip \/ KillInBuild
  BY <1>9, <1>10 DEF KillAny, KillInZip, KillInBuild
<1>11. ASSUME NEW v \in 0..MaxVersion, KillInNvd(v)
       PROVE  CyclesClose' /\ JoinOwed'
  <2>1. PICK r \in Runners : On(r, "nvd", "fetch")
    BY <1>11 DEF KillInNvd
  <2>2. Running("mutex")
    BY <1>1, <2>1 DEF On, CyclesClose, Running, Runners
  <2> QED BY <1>9, <1>11, <2>2 DEF KillInNvd
<1>12. CASE Restart
  <2>1. /\ ~up /\ up' /\ UNCHANGED <<table, joined, cut>> /\ ~busy
        /\ run' = run \/ run' = [run EXCEPT !["mutex"].todo = FullCycle]
    BY <1>12 DEF Restart, data, JoinInv, IInv, RunsOK
  <2>2. \A q \in Runners : run'[q].at = "begin"
    BY <1>1, <2>1 DEF CyclesClose, RunType
  <2>3. run'["weekly"].todo = run["weekly"].todo
    BY <1>1, <2>1
  <2>4. run'["mutex"].todo = run["mutex"].todo \/ run'["mutex"].todo = FullCycle
    BY <1>1, <2>1 DEF RunType
  <2>5. CyclesClose'
    BY <1>1, <2>2, <2>3, <2>4, CyclesOwe DEF CyclesClose
  <2>6. JoinOwed'
    BY <1>1, <1>2, <2>1 DEF JoinOwed, Running, Owes
  <2> QED BY <2>5, <2>6
<1> QED BY <1>3, <1>4, <1>5, <1>7, <1>8, <1>10, <1>11, <1>12 DEF Next

LEMMA JoinInvariance == Spec => []JoinInv
<1>1. Init => JoinInv
  <2> SUFFICES ASSUME Init PROVE CyclesClose /\ JoinOwed
    BY InitInv DEF JoinInv
  <2>1. /\ run["mutex"].todo = FullCycle /\ run["weekly"].todo = <<>>
        /\ \A r \in Runners : run[r].at = "begin"
    BY DEF Init, Runners, Idle
  <2>2. JoinedFeeds \subseteq Tables
    BY DEF JoinedFeeds, Tables, Plain
  <2>3. joined = Current
    BY <2>2 DEF Init, Current
  <2> QED BY <2>1, <2>3, CyclesOwe DEF CyclesClose, JoinOwed
<1>2. JoinInv /\ [Next]_vars => JoinInv'
  BY NextInv, JoinNext DEF JoinInv
<1> QED BY <1>1, <1>2, PTL DEF Spec

(* A lookup reads the join of the tables as they are whenever no cycle is  *)
(* under way, unless a kill or a failed build came since the last one: the *)
(* cycles of scheduler.ts end in the join, whoever starts them.            *)
THEOREM JoinStaysCurrent == Spec => []JoinIsCurrent
<1>1. JoinInv => JoinIsCurrent
  BY DEF JoinInv, IInv, RunsOK, JoinOwed, JoinIsCurrent, Running, Owes
<1> QED BY <1>1, JoinInvariance, PTL
============================================================================
