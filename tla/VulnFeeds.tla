------------------------------ MODULE VulnFeeds ------------------------------
(***************************************************************************)
(* The refresh of the offline vulnerability feeds (packages/vuln-feeds):   *)
(* scheduler.ts with its mutex, the downloaders, the tables and meta rows  *)
(* of db.ts, the join of enriched.ts, and the kill and restart of the      *)
(* service.  The service is one JavaScript thread on a synchronous         *)
(* database: an action is what runs between two awaits, except that a kill *)
(* may come between two transactions of it.                                *)
(*                                                                         *)
(* The content of a table is a version of it, 0 when it is empty; a        *)
(* row_count is the version whose rows were counted.  Rows with the same   *)
(* key, which INSERT OR REPLACE merges and the count counts one by one,    *)
(* are not told apart from it.                                             *)
(***************************************************************************)
EXTENDS Naturals, Sequences, FiniteSets

CONSTANTS
  Feeds,       \* the feeds followed, a part of FEED_NAMES
  YaraSources, \* the sequence YARA_SOURCES
  Ecosystems,  \* the sequence of ecosystems.txt
  MaxVersion,  \* bound on the versions of a feed
  MaxFaults,   \* bound on kills and on failed writes
  MaxManual    \* bound on requests: refreshes by hand, rules switched on or off

(* The feeds that are a download and a table; nvd fills cpe_match too.      *)
Plain == {"kev", "epss", "endoflife", "tranco"}
FeedNames == Plain \cup {"nvd", "cpe_match", "osv", "enriched", "yara_rules"}
Sources == {YaraSources[i] : i \in DOMAIN YaraSources}
Zips == {Ecosystems[i] : i \in DOMAIN Ecosystems}
JoinedFeeds == {"kev", "epss", "nvd"} \cap Feeds
Tables == (Plain \cup {"nvd", "cpe_match"}) \cap Feeds

ASSUME FeedsAssumption ==
  /\ Feeds \subseteq FeedNames /\ {"nvd", "cpe_match", "enriched"} \subseteq Feeds
  /\ YaraSources \in Seq(Sources) /\ Ecosystems \in Seq(Zips)
  /\ \A i, j \in DOMAIN YaraSources : YaraSources[i] = YaraSources[j] => i = j
  /\ \A i, j \in DOMAIN Ecosystems : Ecosystems[i] = Ecosystems[j] => i = j
  /\ MaxVersion \in Nat \ {0} /\ MaxFaults \in Nat /\ MaxManual \in Nat

VARIABLES
  up,      \* the service runs
  busy,    \* refreshInProgress
  run,     \* the refresh under the mutex, and the weekly one of the YARA rules
  meta,    \* the meta rows
  table,   \* the tables of the downloaded feeds
  joined,  \* cve_enriched: the version of each table when it was built
  archives,\* the ecosystems with an all.zip in the cache of osv-scanner
  rules,   \* yara_rules_feed: the sources with rules
  off,     \* the sources with a rule that was switched off
  cut,     \* a refresh was killed, or a build failed, since the last build
  faults, manual

data == <<table, joined, archives, rules, off, cut>>
bounds == <<faults, manual>>
vars == <<up, busy, run, meta, table, joined, archives, rules, off, cut, faults, manual>>

Runners == {"mutex", "weekly"}
Idle == [todo |-> <<>>, at |-> "begin", left |-> <<>>, got |-> 0]
Statuses == {"empty", "refreshing", "ready", "error"}

Turn(f) == IF f \in Feeds THEN <<f>> ELSE <<>>

(* A plausible error: the join is built before the download it depends on.  *)
FullCycleJoinEarly ==
  Turn("kev") \o Turn("epss") \o Turn("enriched") \o Turn("nvd") \o Turn("cpe_match")
  \o Turn("osv") \o Turn("endoflife") \o Turn("tranco")

FullCycle ==
  Turn("kev") \o Turn("epss") \o Turn("nvd") \o Turn("cpe_match") \o Turn("osv")
  \o Turn("endoflife") \o Turn("tranco") \o Turn("enriched")

SingleCycle(feed) == IF feed \in {"osv", "enriched"} THEN <<feed>> ELSE <<feed, "enriched">>

Init ==
  /\ up = TRUE
  /\ meta = [f \in Feeds |-> [status |-> "empty", rows |-> 0]]
  /\ table = [f \in Tables |-> 0]
  /\ joined = [f \in JoinedFeeds |-> 0]
  /\ archives = {} /\ rules = {} /\ off = {} /\ cut = FALSE
  /\ run = [r \in Runners |-> IF r = "mutex" THEN [Idle EXCEPT !.todo = FullCycle] ELSE Idle]
  /\ busy = TRUE                       \* checkStartupStaleness on an empty database
  /\ faults = 0 /\ manual = 0

Running(r) == run[r].todo # <<>>
On(r, feed, at) == up /\ Running(r) /\ Head(run[r].todo) = feed /\ run[r].at = at
Stamped(f, status, rows) == [meta EXCEPT ![f] = [status |-> status, rows |-> rows]]

(* A plausible error: the mutex is not released in a finally.               *)
AdvanceKeepsMutex(r) ==
  /\ run' = [run EXCEPT ![r] = [Idle EXCEPT !.todo = Tail(run[r].todo)]]
  /\ UNCHANGED busy

(* runRefresh returns, with a row count or after an error it swallows: the  *)
(* next feed, or the end, where the mutex is released.                      *)
Advance(r) ==
  LET rest == Tail(run[r].todo) IN
  /\ run' = [run EXCEPT ![r] = [Idle EXCEPT !.todo = rest]]
  /\ busy' = IF r = "mutex" /\ rest = <<>> THEN FALSE ELSE busy

----------------------------------------------------------------------------
(* Who starts a refresh.  The weekly one does not look at the mutex.        *)

StartUnderMutex(todo) ==
  /\ up /\ ~busy
  /\ busy' = TRUE
  /\ run' = [run EXCEPT !["mutex"] = [Idle EXCEPT !.todo = todo]]
  /\ UNCHANGED <<up, meta, data, faults>>

Daily == StartUnderMutex(FullCycle) /\ UNCHANGED manual

Manual(todo) == manual < MaxManual /\ manual' = manual + 1 /\ StartUnderMutex(todo)

Weekly ==
  /\ up /\ "yara_rules" \in Feeds /\ ~Running("weekly")
  /\ run' = [run EXCEPT !["weekly"] = [Idle EXCEPT !.todo = <<"yara_rules">>]]
  /\ UNCHANGED <<up, busy, meta, data, bounds>>

----------------------------------------------------------------------------
(* A download: stamp, await the network, replace the table and its meta row *)
(* in one transaction.                                                      *)

Begin(r, f) ==
  /\ On(r, f, "begin") /\ f \notin {"cpe_match", "enriched"}
  /\ meta' = Stamped(f, "refreshing", 0)
  /\ run' = [run EXCEPT ![r].at = "fetch", ![r].left = IF f = "yara_rules" THEN YaraSources ELSE <<>>]
  /\ UNCHANGED <<up, busy, data, bounds>>

(* An answer without rows (no "vulnerabilities", every product failed)      *)
(* replaces the table by an empty one.                                      *)
Store(r, f, version) ==
  /\ On(r, f, "fetch") /\ f \in Plain
  /\ table' = [table EXCEPT ![f] = version]
  /\ meta' = Stamped(f, "ready", version)
  /\ Advance(r)
  /\ UNCHANGED <<up, joined, archives, rules, off, cut, bounds>>

(* A plausible error: the caller logs the error and nobody stamps it.       *)
FailUnstamped(r, f) ==
  /\ On(r, f, "fetch") /\ f # "yara_rules"
  /\ Advance(r)
  /\ UNCHANGED <<up, meta, data, bounds>>

Fail(r, f) ==
  /\ On(r, f, "fetch") /\ f # "yara_rules"
  /\ meta' = Stamped(f, "error", 0)
  /\ Advance(r)
  /\ UNCHANGED <<up, data, bounds>>

(* A plausible error: cpe_match is stamped and its rows are dropped.        *)
StoreNvdOnlyStamps(r, version) ==
  /\ On(r, "nvd", "fetch")
  /\ table' = [table EXCEPT !["nvd"] = version]
  /\ meta' = [f \in Feeds |-> IF f \in {"nvd", "cpe_match"}
                              THEN [status |-> "ready", rows |-> version] ELSE meta[f]]
  /\ Advance(r)
  /\ UNCHANGED <<up, joined, archives, rules, off, cut, bounds>>

(* The rows of both tables are of one download, which may hold no CVE.      *)
StoreNvd(r, version) ==
  /\ On(r, "nvd", "fetch")
  /\ table' = [table EXCEPT !["nvd"] = version, !["cpe_match"] = version]
  /\ meta' = [f \in Feeds |-> IF f \in {"nvd", "cpe_match"}
                              THEN [status |-> "ready", rows |-> version] ELSE meta[f]]
  /\ Advance(r)
  /\ UNCHANGED <<up, joined, archives, rules, off, cut, bounds>>

Fault == faults < MaxFaults /\ faults' = faults + 1

(* replaceCpeMatch throws after replaceNvd has committed.                   *)
StoreNvdHalf(r, version) ==
  /\ On(r, "nvd", "fetch") /\ Fault
  /\ table' = [table EXCEPT !["nvd"] = version]
  /\ meta' = [meta EXCEPT !["nvd"] = [status |-> "error", rows |-> 0],
                          !["cpe_match"] = [status |-> "refreshing", rows |-> 0]]
  /\ Advance(r)
  /\ UNCHANGED <<up, joined, archives, rules, off, cut, manual>>

(* refreshCpeMatch downloads nothing: it calls the table empty unless the   *)
(* meta row says otherwise.                                                 *)
CheckCpe(r) ==
  /\ On(r, "cpe_match", "begin")
  /\ meta' = IF meta["cpe_match"].rows > 0 /\ meta["cpe_match"].status = "ready"
             THEN meta ELSE Stamped("cpe_match", "empty", 0)
  /\ Advance(r)
  /\ UNCHANGED <<up, data, bounds>>

----------------------------------------------------------------------------
(* refreshOsv: one archive after the other, written beside the old one and  *)
(* renamed over it.  Those that cannot be had keep what they were; the      *)
(* count is of those that came in this refresh.                             *)

Archived(r, got, rest) ==
  IF rest = <<>> THEN meta' = Stamped("osv", "ready", got) /\ Advance(r)
  ELSE /\ meta' = Stamped("osv", "refreshing", got)
       /\ run' = [run EXCEPT ![r].at = "zips", ![r].left = rest, ![r].got = got]
       /\ UNCHANGED busy

ListOsv(r) ==
  /\ On(r, "osv", "fetch")
  /\ \E list \in {<<>>, Ecosystems} : Archived(r, 0, list)
  /\ UNCHANGED <<up, data, bounds>>

StoreZip(r) ==
  /\ On(r, "osv", "zips")
  /\ archives' = archives \cup {Head(run[r].left)}
  /\ Archived(r, run[r].got + 1, Tail(run[r].left))
  /\ UNCHANGED <<up, table, joined, rules, off, cut, bounds>>

FailZip(r) ==
  /\ On(r, "osv", "zips")
  /\ Archived(r, run[r].got, Tail(run[r].left))
  /\ UNCHANGED <<up, data, bounds>>

----------------------------------------------------------------------------
(* The join                                                                 *)

Current == [f \in JoinedFeeds |-> table[f]]
JoinRows == IF \A f \in JoinedFeeds : table[f] = 0 THEN 0 ELSE 1

Build(r) ==
  /\ On(r, "enriched", "begin")
  /\ joined' = Current /\ cut' = FALSE
  /\ meta' = Stamped("enriched", "ready", JoinRows)
  /\ Advance(r)
  /\ UNCHANGED <<up, table, archives, rules, off, bounds>>

BuildFails(r) ==
  /\ On(r, "enriched", "begin") /\ Fault
  /\ cut' = TRUE
  /\ meta' = Stamped("enriched", "error", 0)
  /\ Advance(r)
  /\ UNCHANGED <<up, table, joined, archives, rules, off, manual>>

----------------------------------------------------------------------------
(* refreshYaraRules: a transaction for each source, whose failure is logged *)
(* only; every rule comes back enabled.  An archive in which no rule is     *)
(* found leaves its source without any.                                     *)

StoreYara(r, parsed) ==
  /\ On(r, "yara_rules", "fetch") /\ run[r].left # <<>>
  /\ rules' = IF parsed THEN rules \cup {Head(run[r].left)} ELSE rules \ {Head(run[r].left)}
  /\ off' = off \ {Head(run[r].left)}
  /\ run' = [run EXCEPT ![r].left = Tail(@)]
  /\ UNCHANGED <<up, busy, meta, table, joined, archives, cut, bounds>>

FailYara(r) ==
  /\ On(r, "yara_rules", "fetch") /\ run[r].left # <<>>
  /\ run' = [run EXCEPT ![r].left = Tail(@)]
  /\ UNCHANGED <<up, busy, meta, data, bounds>>

EnabledRules == Cardinality(rules \ off)

EndYara(r) ==
  /\ On(r, "yara_rules", "fetch") /\ run[r].left = <<>>
  /\ meta' = Stamped("yara_rules", "ready", EnabledRules)
  /\ Advance(r)
  /\ UNCHANGED <<up, data, bounds>>

Toggle(s) ==
  /\ up /\ s \in rules /\ manual < MaxManual
  /\ off' = IF s \in off THEN off \ {s} ELSE off \cup {s}
  /\ manual' = manual + 1
  /\ UNCHANGED <<up, busy, run, meta, table, joined, archives, rules, cut, faults>>

----------------------------------------------------------------------------
(* Kill, and restart under restart: unless-stopped                          *)

Kill(metaThen, tableThen, archivesThen) ==
  /\ up /\ Fault
  /\ up' = FALSE /\ busy' = FALSE
  /\ run' = [r \in Runners |-> Idle]
  /\ cut' = (cut \/ Running("mutex"))
  /\ meta' = metaThen /\ table' = tableThen /\ archives' = archivesThen
  /\ UNCHANGED <<joined, rules, off, manual>>

KillAny == Kill(meta, table, archives)

(* After the rename of an archive, before the next stamp.                   *)
KillInZip ==
  \E r \in Runners :
    On(r, "osv", "zips") /\ Kill(meta, table, archives \cup {Head(run[r].left)})

(* After the transaction of replaceNvd, before or after the next stamp.     *)
KillInNvd(version) ==
  /\ \E r \in Runners : On(r, "nvd", "fetch")
  /\ \E stamped \in BOOLEAN :
       Kill([meta EXCEPT !["nvd"] = [status |-> "ready", rows |-> version],
                         !["cpe_match"] = IF stamped THEN [status |-> "refreshing", rows |-> 0] ELSE @],
            [table EXCEPT !["nvd"] = version], archives)

KillInBuild ==
  /\ \E r \in Runners : On(r, "enriched", "begin")
  /\ Kill(Stamped("enriched", "refreshing", 0), table, archives)

(* isStale of kev, epss, nvd and osv only; aged: more than STALE_HOURS ago. *)
AnyStale(aged) == aged \/ \E f \in {"kev", "epss", "nvd", "osv"} \cap Feeds : meta[f].rows = 0

Restart ==
  /\ ~up /\ up' = TRUE
  /\ \E aged \in BOOLEAN :
       /\ busy' = AnyStale(aged)
       /\ run' = IF AnyStale(aged) THEN [run EXCEPT !["mutex"].todo = FullCycle] ELSE run
  /\ UNCHANGED <<meta, data, bounds>>

----------------------------------------------------------------------------
Step(r) ==
  /\ up /\ Running(r)
  /\ \/ \E f \in Feeds :
          /\ f = Head(run[r].todo)
          /\ Begin(r, f) \/ Fail(r, f) \/ \E v \in 0..MaxVersion : Store(r, f, v)
     \/ \E v \in 0..MaxVersion : StoreNvd(r, v) \/ StoreNvdHalf(r, v)
     \/ CheckCpe(r)
     \/ ListOsv(r) \/ StoreZip(r) \/ FailZip(r)
     \/ Build(r) \/ BuildFails(r)
     \/ (\E parsed \in BOOLEAN : StoreYara(r, parsed)) \/ FailYara(r) \/ EndYara(r)

Next ==
  \/ Daily \/ Weekly \/ Manual(FullCycle) \/ \E f \in Feeds : Manual(SingleCycle(f))
  \/ \E r \in Runners : Step(r)
  \/ \E s \in Sources : Toggle(s)
  \/ KillAny \/ KillInZip \/ KillInBuild \/ Restart
  \/ \E v \in 0..MaxVersion : KillInNvd(v)

(* Every download has a timeout, cron fires, Docker restarts the service.   *)
Fairness ==
  /\ \A r \in Runners : WF_vars(Step(r))
  /\ WF_vars(Daily) /\ WF_vars(Weekly) /\ WF_vars(Restart)

Spec == Init /\ [][Next]_vars /\ Fairness

----------------------------------------------------------------------------
(* Besides the types: the mutex is held exactly while a cycle runs.         *)
TypeOK ==
  /\ up \in BOOLEAN /\ busy \in BOOLEAN /\ cut \in BOOLEAN
  /\ run \in [Runners -> [todo : Seq(Feeds), at : {"begin", "fetch", "zips"},
                          left : Seq(Sources \cup Zips), got : 0 .. Len(Ecosystems)]]
  /\ meta \in [Feeds -> [status : Statuses, rows : Nat]]
  /\ table \in [Tables -> 0..MaxVersion] /\ joined \in [JoinedFeeds -> 0..MaxVersion]
  /\ archives \subseteq Zips
  /\ rules \subseteq Sources /\ off \subseteq Sources
  /\ faults \in 0..MaxFaults /\ manual \in 0..MaxManual
  /\ busy <=> Running("mutex")

(* What a lookup reads in cve_enriched is the join of the tables as they    *)
(* are, whenever no refresh is under way: only a kill or a failed build     *)
(* leaves it behind, until the next build.                                  *)
JoinIsCurrent == up /\ ~busy /\ ~cut => joined = Current

(* A feed shown as ready has the rows it is shown with: the replacement of  *)
(* the rows and the stamp are one transaction, whatever fails around it.    *)
(* Of the archives there are never fewer than the count.                    *)
ReadyIsStored ==
  /\ \A f \in Tables : meta[f].status = "ready" => meta[f].rows = table[f]
  /\ "osv" \in Feeds => meta["osv"].rows <= Cardinality(archives)

(* Again and again the join is of the tables as they are while no feed of   *)
(* the cycle shows "refreshing", and the YARA rules do not either, although *)
(* any download may fail each time: what a kill leaves behind catches up.   *)
Refreshing(feeds) == \E f \in feeds : meta[f].status = "refreshing"
CatchesUp ==
  /\ []<>(joined = Current /\ ~Refreshing(Feeds \ {"yara_rules"}))
  /\ []<>~Refreshing(Feeds \cap {"yara_rules"})

(* "Only one refresh cycle runs at a time" (OfflineEngine.md).              *)
Serialized == ~(Running("mutex") /\ Running("weekly"))

(* "If any feed has row_count=0 [...] trigger refreshAll()" on service      *)
(* start (OfflineEngine.md).                                                *)
DocumentedFeeds == {"kev", "epss", "nvd", "cpe_match", "osv", "enriched"} \cap Feeds
StartRefreshesEmpty ==
  [][~up /\ up' /\ (\E f \in DocumentedFeeds : meta[f].rows = 0) => busy']_vars

=============================================================================
