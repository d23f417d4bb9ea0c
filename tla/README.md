# FraudVault in TLA+

FraudVault (`src/`) is a malware-analysis platform in TypeScript: an API
gateway, an orchestrator, a sandbox manager and a number of analysis services,
around PostgreSQL, Redis (keys, pub/sub and the BullMQ queues) and SQLite. These
modules model the parts whose correctness depends on the order of things (what
happens to a submission between the gateway's INSERT and the verdict, to a
sandbox between its provisioning and its destruction, to a session, a feed, a
detonation) and the parts whose correctness is a calculation that nobody can
check by example: the two scores, the verdict, and the matching of versions.

Contents: 1 inventory - 2 plan - 3 modules - 4 runs - 5 bounds, fairness and
abstractions - 6 proofs - 7 where code and documentation disagree - 8 what is
not modelled. `PROJECT.json` has the lines behind each definition, each hazard
at its line, and what each run and theorem is about.

## 1. Inventory

Paths are relative to `src/packages/`. In bold, what is modelled.

| component | state | operations | talks to |
|---|---|---|---|
| **api-gateway, submissions** (`services/submissionService.ts`) | rows of `submissions`; the key `scanboy:file:<id>` (1 h TTL) | create, createUrlSubmission, delete; tags, notes, queries | PostgreSQL; Redis `setex`, then `publish scanboy:submissions:new` |
| **api-gateway, authentication** (`services/authService.ts`, `middleware/auth.ts`) | users; Redis keys for failed logins, revoked tokens, invalidated users | login, refresh (single use), logout, token check | PostgreSQL, Redis |
| **api-gateway, administration** (`routes/admin.ts`, `services/userService.ts`) | users and roles | change role or status, delete; the last SuperAdmin is protected | PostgreSQL, Redis |
| **orchestrator, entry** (`orchestrator/src/index.ts`, `queue.ts`) | BullMQ job `intake-<id>`; process state | message handler, recovery sweep (at start and every 5 min), drain on SIGTERM | Redis pub/sub, BullMQ, PostgreSQL |
| **orchestrator, worker** (`workers/analysisWorker.ts`) | rows of `analysis_jobs`; BullMQ attempts, stalls, locks | processJob, markJobRunning, markJobFailed | BullMQ, the workflow |
| **orchestrator, workflow** (`workflows/submissionWorkflow.ts`) | `submissions.status`, the tables of results, scores | 8 steps of the default workflow, 1 and a scan of the container workflow, finalize, alerts | the analysis services over HTTP, PostgreSQL |
| **orchestrator, verdict and look-ups** (`verdict-engine.ts`, `vuln-lookup.ts`) | none | verdict, look-ups | vuln-feeds, VirusTotal |
| orchestrator, integrations (`integrations/siem-forwarder.ts`, `integrations/edr-push.ts`) | none | send an alert, push a hash; **their thresholds** | SIEM and EDR products |
| **sandbox-manager, pool** (`services/poolManager.ts`) | Map of entries, wait queue | checkout, returnToPool, destroyPoolInstance, warmPool, cleanupExpiredSessions, replenishPool, stop | the providers |
| **sandbox-manager, routes** (`index.ts`) | process state | provision, destroy, shutdown; snapshot, restore | pool, isolation |
| **sandbox-manager, isolation** (`services/networkIsolation.ts`) | iptables rules, Map of policies | initialize, applyPolicy, removePolicy, flushAll | iptables |
| sandbox-manager, providers (`providers/docker.ts`, `qemu.ts`) | containers or VMs | provision, destroy, restore, getStatus, **as the pool sees them** | Docker, QEMU |
| **dynamic-analysis, detonation** (`index.ts`, `docker-sandbox/executor.ts`) | a container, a directory and a report per request; two cached promises | POST /analyze/docker, shutdown | Docker, Redis, PostgreSQL |
| dynamic-analysis, detonator and analyzers | a queue; none | detonate, parse | sandbox-manager |
| static-analysis | none between requests | parse a file | orchestrator |
| detection-engine | families and clusters | score, cluster, generate rules | orchestrator, PostgreSQL |
| **threat-intel** | rows of `threat_intel`, the limiter's window, jobs | enrich, score reputation | providers, PostgreSQL, BullMQ |
| **vuln-feeds** | feed tables and their stamps, the mutex, the archives of OSV | scheduled downloads, join, look-ups | SQLite, the feeds |
| search, reporting, telemetry, frontend, shared | indices; nothing; counters; UI; types | queries, formatting, probes | |

What is hard about them:

* **The hand-over of a submission** takes two stores and one lossy message, from
  two processes: INSERT, SETEX, PUBLISH in the gateway; UPDATE, then enqueue, in
  the orchestrator. Any prefix may be all that happens. The sweep repairs some
  prefixes and runs concurrently with the handler it repairs.
* **A job is delivered more than once**: retries, stalls, crashes, lost locks.
  Each delivery runs the workflow from the first step, with unconditional UPDATEs
  of the status the API shows, and stores the rows of every table but one again;
  the scores count rows.
* **Error paths that fail themselves**: the catch of the workflow, `markJobFailed`.
* **The pool is a Map shared by callbacks**: each await on a provider lets
  checkouts, timers, destroys and shutdown run; entries stay in the Map while
  they are being destroyed.
* **A policy is a list of commands**: iptables rules come and go one at a time,
  interleaved with those of other sandboxes, while the sandbox runs; some of the
  commands are ones iptables refuses.
* **Shutdown waits for connections, not for handlers**: one whose client hung up goes
  on while the pool stops and the firewall is flushed.
* **Sessions are spread over a table and several Redis keys**, each read
  and written by a statement of its own, with bcrypt in between.
* **A feed is replaced in transactions of its own and joined later**; downloads
  fail, a weekly refresh does not look at the mutex, and look-ups go on.
* **Detonations outlive those who asked for them**: the orchestrator's 120 s, the
  15 s of shutdown.
* **Two scores and a verdict** from the same tables, each a pipeline of caps,
  discounts, floors and bonuses on one number, where the order decides.
* **Provider calls fail half-way** and leave containers, rules, rows or samples.

What makes each component correct (names of properties in section 3): one live
run per submission; no work behind a closed row; a verdict behind a completed
job; every submitted row picked up and every job ended; alerts bounded by
deliveries; a sandbox with one user, none handed out that cleanup or shutdown
destroys; leaks only by failed calls; every checkout answered and every abandoned session
ended; rules that never accept more than a sandbox's mode allows; a refresh token worth
one pair; wrong guesses bounded; a ready feed with its rows, a join that catches
up; containers that do not outlive their request; signed and clean software that
raises no alert, exploited vulnerabilities that do show; no vulnerability blamed
on a package that does not have it, as far as versions can be told apart; a provider's quota kept.

## 2. Plan

Done, in this order:

1. `SubmissionPipeline` (gateway, orchestrator, worker, workflow).
2. `SandboxPool` (pool, its callers, provider failures).
3. The abstract specifications `SubmissionLifecycle` and `SandboxAllocator` and the
   refinements by which 1 and 2 implement them.
4. `NetworkIsolation` and `SandboxManager`, which composes it with
   `SandboxAllocator`.
5. `Accounts`: sessions, lock-out, administration.
6. The scores: `ThreatScore`, `VerdictEngine` and `Scoring`; `VulnLookup`,
   `ContainerScore` and `ContainerScan`.
7. `VulnFeeds`, `Detonation`, `ThreatIntel`.
8. Eight modules of proofs (section 6).

Nothing of the plan is left. Every invariant and every action property that a
passing run checks is also a theorem, under hypotheses that its run's instance meets;
liveness stays with TLC.

## 3. Modules

Operators introduced by "A plausible error" are mutations of the definition that
follows them; no specification uses them. Each property of a passing run is
violated when one of them takes the definition's place.

### SubmissionPipeline, SubmissionLifecycle

The state and the code:

| variable | code |
|---|---|
| `status` | `submissions.status`; "none" before the INSERT, "deleted" after the DELETE |
| `file` | the Redis key with the file |
| `aged` | the row is older than the 15 s of the sweep's SELECT |
| `api` | the await the create handler is in |
| `handler` | the await `handleNewSubmission` is in |
| `sweep` | each `recoverStuckSubmissions`: rows still to do, the current one, its await |
| `job` | the BullMQ job: state, attempts, stalls, the workflow in its data, the holder of its lock |
| `run` | each slot of the worker: submission, step, await, and the row of `analysis_jobs` the step inserted |
| `orphan` | a row of `analysis_jobs` is 'running' and the call that inserted it is gone |
| `alerts` | how often `dispatchAlerts` went out |
| `mode` | the orchestrator process: up, draining, down |

Actions, by section of the module: the gateway (`ApiInsert`, `ApiStoreFile`,
`ApiPublish`, `ApiFail`, `ApiDelete`), time (`Age`, `ExpireFile`), the message
handler (`HandlerUpdate`, `HandlerEnqueue`, `HandlerFail`), the sweep
(`SweepSelect`, `SweepExists`, `SweepClose`, `SweepMark`, `SweepEnqueue`,
`SweepFail`), BullMQ (`TakeJob`, `BackoffOver`, `Stalled`, `LoseLock`), the
worker and the workflow (`RunBegin`, `StepStart`, `StepEnd`, `RunReview`,
`RunAlert`, `RunError`, `RunMarkFailed`, `RunComplete`, `RunRethrow` and their
failures), the process (`Drain`, `Crash`, `Exited`, `Restart`).

Properties: `SingleRun`, `ClosedHasNoWork`, `CompletedIsSettled`,
`AlertsPerDelivery`, `SubmittedIsPickedUp`, `JobSettles`. `CompletedIsSettled`
admits 'queued': a notification delivered late, after the sweep has recovered the
row and its job has completed, puts the row back to 'queued' for good, because
the handler's UPDATE has no condition and its enqueue is a no-op. Every run in
which that happens is explored; the property says that nothing worse does.

`SubmissionLifecycle` is what a reader of the API may rely on: the statuses of a
submission and one piece of work on it (`Create`, `Accept`, `Close`, `Delete`,
`Enlist`, `Take`, `Analyze`, `Conclude`, `Finish`, `GiveUp`, `Release`), without
message, sweep, queue or steps. `FollowsLifecycle` says that the pipeline
implements it, with `work` mapped to the BullMQ job (`WorkOn`); it holds as long
as no live call loses its lock.

### SandboxPool, SandboxAllocator

| variable | code |
|---|---|
| `pool` | the keys of `PoolManager.pool` |
| `holder` | `checkedOutBy` of an entry |
| `conf` | `entry.config` |
| `vm` | what the instance really is, in Docker or QEMU |
| `destroyers` | the calls that await `provider.destroy` for it: the route, cleanup, returnToPool, stop |
| `req` | each client session: its `checkout`, its use, its `returnToPool` |
| `queue` | `waitQueue` |
| `timer` | each running `replenishPool` or `warmPool`: how many are left, which are pending, with which configuration |
| `mode` | the process: up, closing (server.close), stopping (stop), flushing (the firewall), exited, killed (15 s timer) |

Actions: the three outcomes of `checkout` and the end of its provisioning, the
timeout of a queued request, the destroy route for the session's own sandbox
(`RouteDestroy`) and for any id the list route has shown (`RouteDestroyAny`),
cleanup, the end of a destroy in either way, `returnToPool` in its three awaits,
`replenishPool` and `warmPool`, and shutdown, which rejects the queue (`Stop`,
`QueueRejected`) and does not wait for handlers whose clients have hung up.
`Callers` says which operations are called besides those of
`sandbox-manager/src/index.ts`: `returnToPool` and `warmPool` have no caller in
the repository. With `Callers = {}` the module is the deployed program; with both
it is the class used as its doc comments describe.

Properties: `ExclusiveCheckout`, `HandoutIsLive`, `LeakPerFault`,
`CheckoutAnswered`, `SessionEnds`. `HandoutIsLive` says that a checkout is not
answered with an instance the pool has dropped, or that the cleanup loop, a return
or `stop` has begun to destroy. It does not say that nobody has asked for its
destruction: the destroy route marks nothing while it awaits the provider, and an
idle instance that a client destroys is handed out in that time (`index.ts:236-244`,
`poolManager.ts:280-291`). `LeakPerFault` ends with `stop`, whose `clear` also forgets
what has entered the Map since its snapshot. `SandboxAllocator` is the promise to callers: a
request waits until it is granted one instance or refused, an instance is granted
once in its life, and none comes back that has left the pool (`Ask`, `Grant`,
`Refuse`, `End`, `Stock`, `Spoil`, `Drop`); `AllocatesOnce` says that the pool as
`index.ts` calls it implements it.

### NetworkIsolation, SandboxManager

`NetworkIsolation` is the chain of iptables rules, in order (`chain`), whether
FORWARD jumps to it (`hooked`), and the Map of policies (`activePolicies`). A rule
is the classes of traffic it matches and its target; `VerdictOn(i, t)` is what the
rules of sandbox `i`, read from the start of the chain, do to traffic `t` that reaches
them, `Fate(i, t)` what becomes of it given whether FORWARD jumps there, and
`Intended` what the whole policy would do. Each iptables command is one action
(`ApplyRule`, `RemoveRule`, `RemoveRuleFails`, `FlushChain`); `ClearPolicies` is the
end of `flushAll`. `BlockPrivateRanges` has a rule for the ten IPv4 ranges and one for
the two of IPv6, which iptables always refuses (`Refused`): a simulated or monitored
policy therefore ends there, the route answers 500, no policy is recorded, and the
rules added before stay. Only policies of the closed mode are ever applied as a whole,
recorded, or removed rule by rule. And `hooked` is FALSE in every state: `Initialize`
asks through a helper that swallows the error which would have the jump inserted.

`SandboxManager` is the process: the provision and destroy routes (`call`,
`destroy`), which take the pool at its word (`Pool == INSTANCE SandboxAllocator`)
and run one rule at a time (`Network == INSTANCE NetworkIsolation`), the pool's
timers (`PoolTimer`: sessions that expire keep their rules), shutdown (`Signal`,
`Stop`, `Stopped`, `Flush`, `Exit`), the forced exit and a new start, which finds the
rules of the last process but not its policies (`Killed`, `Restart`). `Stop` waits for
connections: the provision calls whose clients hung up (`hungUp`) go on, and may
append rules after the flush and before the exit. A process that is killed after the
flush counts as exited.

Properties. About the rules: `NeverWider` (in no interleaving do the rules that are
present accept what a sandbox's whole policy drops: the order within a policy, and that
a loop ends at the first command that fails), `AnsweredHasItsRules` (a 201 behind a
policy is for the closed mode, and its rules stay in the chain until a destroy or the
flush), `RulesPerFault` (rules nobody will remove are those of failed or refused
commands), `StopFlushes` (after a clean shutdown only a handler that outlived its
client has left any). About the sandbox: `ClosedIsClosed` (what it sends in the closed
mode is dropped) and `DestroyRemovesRules`, which do not hold (section 7). Sandboxes
without an address (all of QEMU's) get no policy and are answered at once; the
properties do not speak of them.

### Accounts

Calls of the gateway run concurrently, one action per statement. `row` is the users
table, `pairs` the token pairs issued; of the Redis keys, `spent` and `out` are the
revoked tokens, `cut` the pairs older than `user_invalidated:<id>`, `fails` (with
`dated`, its TTL) and `locked` the lock-out. `recent` are the pairs of the current
second, since `iat` has no more precision (two pairs of one user signed in it are the
same bytes in the code, which has no token id, and two pairs here); `guesses` and `late` count what the
properties bound. Actions: `LoginStep`, `SessionStep` (refresh, logout, mint),
`AdminStep` (patch, delete, statement by statement), `Crash`, the TTLs
(`FailsExpire`, `LockExpires`, `Expire`) and `Tick`. `Clients` are mixes of
requests; a behaviour begins with one of them.

Properties: `RefreshOnce` (a session never forks), `LockoutBound` (concurrent
guesses pass the limit by one per request in progress), `DisabledGetsFew` (a
deleted user gets a pair only from calls that had read the row before).

### VulnFeeds

The scheduler and the stores of vuln-feeds, over versions of the feeds: `busy` (the
mutex), `run` (the refresh under the mutex, and the weekly one beside it), `meta`,
`table`, `joined` (which version of each table `cve_enriched` was built from),
`archives` (OSV), `rules` and `off` (YARA). Actions: `Daily`, `Weekly`, `Manual`;
`Begin`, `Store` and `Fail` of a plain feed; `StoreNvd`, `StoreNvdHalf`, `CheckCpe`
(two transactions and a stamp that may not come; the download may hold no CVE); `ListOsv`, `StoreZip`, `FailZip`;
`Build`, `BuildFails`; `StoreYara` (an archive without rules leaves its source
empty), `FailYara`, `EndYara`; `Toggle`; a kill between
any two transactions (`KillAny`, `KillInNvd`, `KillInZip`, `KillInBuild`) and
`Restart` with its check of staleness.

Properties: `JoinIsCurrent`, `ReadyIsStored`, `CatchesUp`, and in `TypeOK` that the
mutex is held exactly while a cycle runs.

### VulnLookup, ContainerScore, ContainerScan

`VulnLookup` is pure: the rows `nvd.ts` extracts from a published CVE record
(`ExtractCpeMatches`), the query of `db.ts` with its fall-back from vendor to
product, the comparison of versions (`VersionMatchesCpe`), the route
`/feeds/cpe-lookup` (`CpeLookup`) and the grade of `scoring.ts`. A version is the
sequence of its dot-separated parts; of each part the code sees only the number it
begins with (`lead`, what `parseInt` reads: 1 of "1k", "1-rc1" and "1:2", and None of
"rc1", which counts as 0), while the publisher's order has it at a `place` of its
own. `CompareVersions` compares the numbers, `Older` the places, and `ReadsTrue`
says when the two agree up to the first parts that differ. The reference is
`Covers`, what a record says of a version in the publisher's order; `Legible` says
that a version reads true against each bound. `ContainerScore` is the calculation at
the end of the container workflow: seven sub-scores, their sum, a bonus for several
categories, and floors.
`ContainerScan` is the workflow around both, over the deliveries of a job while
the feeds are refreshed: `Detonate`, `DetonateInPart`, `AbandonDynamic`, `LateReport`,
`ReadReport`, `Lookup` and `LookupFails` (one package each), `Finish`, `ScanFails`,
`Redeliver`, `ReplaceCpeMatch`, `BuildEnriched`. A detonation stores a row
(`reports`) with the results of syft (the packages), of the Python scan (the findings,
and the distribution's packages if there are none of syft's), of both or of neither,
and answers 200 in each case; the scan reads any one of the rows the submission has,
as the query takes the first without an order.

Properties: `WorstFindingSetsLevel` ("a container with a CRITICAL vuln is at
minimum HIGH"), `RowsAreWarranted`, `ScanIsNotWeakened`, and
`ExactVersionsMatchExactly`, which does not hold (section 7). Their exceptions are what
the code does: a report without a tool's results; a CVE nobody has rated when the
delivery began; a version that is not legible against a bound of the record, which may
be missed or accused; the last version of a closed range; entries hidden by a vendor of
the package's own name.

### ThreatScore, VerdictEngine, Scoring

`ThreatScore` is `computeThreatScore` as a function `Score` of the evidence in the
tables; `VerdictEngine` weighs the same evidence a second time
(`ComputeVerdict`, `CrossChecked`). `Scoring` is the workflow around them: what
each step stores of a file (`StoreStatic`, `StoreDynamic`, `LookupHashes`,
`LookupVulnerabilities`, `LookupTechDebt`, `StoreYaraPatternResults`), the steps
that fail or come late (`Skip`, `AbandonDynamic`, `LateReport`), `Finalize` and
`FinalizeBlind`, `BuildVerdict`, `DispatchAlerts`, `Redeliver`.

Properties: `SignedCleanIsQuiet`, `KevIsAtLeastMedium`, `AlertIsNotTakenBack`,
`BlockIsCorroborated`. `AlertIsNotTakenBack` excepts steps by which the domains earn
a discount they did not have (`TrustGained`). Each attempt stores the indicators of
the static analysis, only one that gets so far those of the detonation; after three
deliveries of which two died in between, the trusted domains may be the greater
part, and a score of 70 that was reported becomes 57.

### Detonation

The handler of `POST /analyze/docker` (`Analyze` and the steps of `Handler`: fetch
the sample, make a directory, wait for the image, run and execute, kill, remove,
store the row and the capture, answer), the two promises that are kept for the life
of the process (`imageReady`, `connection`), the client that stops waiting
(`ClientTimeout`), the image and Redis coming and going (`Flip`), shutdown
(`Signal`, `Close`, `ForcedExit`), `Killed`, `Restart`. What the container does and
how its output is read is one step that gives a report or an exception.

Properties: `LeftPerFault`, `RequestEnds`. `LeftPerFault` adds up what requests that
have ended leave undone: containers, directories with the sample, reports without a
row. The directory of a request that found no image is not counted: it is left
without any failure (`executor.ts:418`), and so is everything that a process had in
hand when it ended.

### ThreatIntel

Calls of `/enrich/sync` and jobs of the queue (`pc`, `lookup`), the providers they
wait for (`pending`), the answers to store (`results`), the limiter of VirusTotal
(`timestamps`, `throttled`, `sleep`), and as history the requests sent in the last
window (`sent`) and the answers without a row (`owed`). Time goes in ticks; a time
stamp is its age. `Arrays` has what `filter` does to an array (`Kept`); it is a
recursive function where the library's `SelectSeq` is a recursive operator.

Properties: `RateRespected`, `LostPerFault`, `CallEnds`.

### MC modules

The small sets of the runs and their symmetry: `MCSubmissionPipeline`,
`MCSandboxPool`, `MCSandboxManager`, `MCAccounts`, `MCVulnFeeds`,
`MCContainerScan`, `MCScoring`, `MCDetonation`, `MCThreatIntel`.

## 4. Runs

| run | checks | distinct states |
|---|---|---|
| `Pipeline_deep` | TypeOK, SingleRun, ClosedHasNoWork, CompletedIsSettled, FollowsLifecycle, SubmittedIsPickedUp, JobSettles; one submission, three faults | 80 000 |
| `Pipeline_two` | AlertsPerDelivery; a second submission in the container workflow, and calls that outlive their locks | 2.4 million |
| `Pool_deployed` | TypeOK, LeakPerFault, HandoutIsLive, AllocatesOnce; two requests of two os, any id destroyed, warmPool, two faults | 1.5 million |
| `Pool_live` | ExclusiveCheckout, CheckoutAnswered, SessionEnds, with returns besides | 150 000 |
| `Manager` | NeverWider, AnsweredHasItsRules, RulesPerFault, StopFlushes; a monitored and a closed sandbox | 580 000 |
| `Accounts` | TypeOK, RefreshOnce, LockoutBound, DisabledGetsFew; six mixes of requests | 1.6 million |
| `Feeds` | TypeOK, JoinIsCurrent, ReadyIsStored, CatchesUp; five feeds and the YARA rules, one fault | 570 000 |
| `Containers` | WorstFindingSetsLevel, RowsAreWarranted, ScanIsNotWeakened; 42 images, six CVEs, whole and partial reports | 300 000 |
| `Scoring` | TypeOK, SignedCleanIsQuiet, KevIsAtLeastMedium, BlockIsCorroborated, AlertIsNotTakenBack; 576 files, three deliveries | 2.7 million |
| `Detonation` | LeftPerFault, RequestEnds | 410 000 |
| `Intel` | RateRespected, LostPerFault, CallEnds | 200 000 |

and `Pipeline_orphan`, which refutes a statement of the code's comments (section 7).
Between them the passing runs fire every action, and every disjunct of it.

Deadlock is checked in `Detonation`, whose system can always go on. In the others
it may rightly stop: all submissions settled, all requests answered, the process
gone, or a bound exhausted.

## 5. Bounds, fairness, abstractions

**Bounds.** A bound is a constant of its module, and only guards mention it.

* *Pipeline*: `MaxFaults` limits the faults and `FaultKinds` chooses them. Three
  faults with one submission reach a crash in any await, a second one during the
  recovery from the first, and a failure of the error handling; two slots are
  enough for two calls on one submission (a third would be a symmetric copy); one
  sweep is what the program has at a time unless a sweep lasts five minutes.
  `ClosedHasNoWork` is about one sweep at a time, and says nothing of two: a slower
  sweep may enqueue behind another's 'closed'. Three attempts are the default of
  `WORKER_MAX_RETRIES`; the run with two attempts still retries.
* *Pool*: two requests and three instances contain reuse by a fitting request, an
  instance of the other os, which warmPool starts, that does not fit, a full pool
  with a queue, and a replenishment; `MaxTotal` is 1 or 2 so that the queue is
  reached. Two faults let the destroy fail of an instance that broke, or a second
  leak follow a first.
  `Instances` bounds the provisionings of a run: nothing is provisioned when it is
  exhausted, which removes behaviours and no hazard.
* *Manager*: one policy whose rules depend on their order and one that drops all,
  two destroys (of one sandbox, or of two), one fault of each kind, beside the
  commands that iptables refuses, which are no faults: what an error leaves is met by a second sandbox, a second destroy, or a second process.
* *Accounts*: two calls are enough for every race of two requests; the lock-out is
  2 wrong passwords instead of 10, so that a third exceeds it. The mixes separate
  the hazards (lock-out, with and without MFA; sessions; deletion; change of role;
  two SuperAdmins), because requests of different hazards share no key.
* *Feeds*: one version besides the empty table shows the difference between old and
  new; one kill or failing write, which may hit any cycle, and one request by hand (a
  refresh, or a rule switched off) beside daily and weekly refreshes; downloads fail
  without a bound. One ecosystem and one source of rules: theirs are loops whose rounds
  do not look at one another, and the theorems are about any number. epss, endoflife
  and tranco are left out of the instance: they are stored as kev is.
* *Scoring*: files that put each cap, floor and bonus on either side of its
  threshold: signed or not, clean, one of seventy or most engines, quiet, busy or
  ransomware in the sandbox, with and without exploited vulnerabilities; three
  deliveries, since two cannot shift the share of trusted domains, and one service
  that fails.
* *Containers*: packages at the first, the last and past the last version of a
  range, without a version, under a foreign vendor, under a name the feed
  normalises, one more than `PackageLimit`; versions with letters on either side of
  the one a record names, a word for a version, a range up to "*"; two CVEs that a
  refresh adds; two faults, so that a partial report meets a late one.
* *Detonation*: two requests share the promises; two faults let the clean-up of a
  failed analysis fail. *Intel*: a call and a job of two look-ups each make four
  requests in a window of two, so that two sleepers wake at once beside a newcomer.

**Fairness.** Weak fairness only, and only for what the program or its runtime
does by itself: an await is answered (success or exception; HTTP requests and docker
commands have a timeout, but `dockerApi` of the sandbox manager, `docker.ts:363-416`,
has none: there the assumption is that the Docker daemon answers), a timer or cron fires, a waiting job is taken by a
free slot, a backoff ends, a stall is found, and Docker restarts the process
(`restart: unless-stopped` in `docker-compose.yml`). There is none for clients
(`ApiInsert`, `ApiDelete`, `CheckoutAvailable`, `RouteDestroy`, `Manual`,
`EnrichSync`), for faults, or for signals. `WF` on a disjunction (`SweepStep`,
`Handler`, `Step`) says that a call in flight goes on, not which way. In
`VulnFeeds` kills are bounded and failing downloads are not: `CatchesUp` is about a
join that is built again and again whatever fails. `Detonation` assumes no restart:
requests end in the process they began in, or with it.

**Abstractions.**

* Time: a row may pass 15 seconds, a session, a key or a queued request its limit,
  at any moment after it could. `Age`, `CleanupExpired` and the TTLs may thus come
  early or late with respect to all else; `LockExpires` alone waits, for the key
  that was set before it with the same TTL.
* The sweep's LIMIT 20 is left out: with more stuck rows the next sweep takes
  them. Rows are taken in any order.
* Where `poolManager.ts` takes the first or last entry of its Map in insertion
  order, the model takes any; where a query has LIMIT 1 and no ORDER BY, `Scoring`
  takes any row.
* In `SubmissionPipeline` the steps of the workflow end or throw; what services
  answer is the subject of `Scoring` and `ContainerScan`. `executeStep` treats an
  unreachable service, an error status and a timeout (120 s) as the end of the
  step, so `StepEnd` needs no service to be up. The fast track after a known hash
  (submissionWorkflow.ts 346-353) is out of reach: `getServiceUrl` (1035-1043) has
  no URL for the hash step, so its result is empty.
* `analysis_jobs.status` is modelled where it can remain wrong: the row of the
  step in progress and rows left by dead calls.
* In `SubmissionPipeline` the score decides only whether an alert is due; both
  outcomes are explored.
* BullMQ is external: a job id it holds is not added twice; one holder of a lock
  at a time; only the holder's result counts; an unrenewed lock is found and the
  job put back once, then failed; `attempts` bounds the retries. Its
  housekeeping of finished jobs (7 and 30 days) is left out.
* A provider's destroy of an instance it does not know throws in the code and is
  logged; in the model it has no effect, which is the same to the pool.
* `server.close` calls back when every connection has ended. In `SandboxPool` and
  `SandboxManager` a client may have hung up and its handler go on, at any point of
  it; in `Detonation` the callback waits for the handlers, as if no client hung up,
  and what a process had in hand when it ended is left out of its properties. Idle keep-alive connections, which Node closes,
  are left out.
* Traffic is its class: the ten private and infrastructure ranges of IPv4 are one,
  the two of IPv6 another, the DNS servers a third. No two instances share an
  interface (Docker's are told apart by their ids). Modes other than the three, which
  the route does not refuse, have no rules and are left out.
* The mint of a token pair reads the clock and signs twice; it is one step. Wrong
  and right passwords are which of two steps bcrypt takes.
* The content of a feed is a version number; OSV's archives are a set of names. What
  `INSERT OR REPLACE` merges (endoflife, `db.ts:254`; rules of one name) is not told
  apart from the rows given, which is what the stamp of endoflife counts.
* In the scores, ratios and probabilities are whole percents, CVSS scores tenths;
  the verdict's fractions are exact, where the code rounds them to double
  precision. Of a part of a version the models have the number it begins with and its
  place in the publisher's order, in which a part that is not there is in the place of 0.
* The two verdict branches on a low VirusTotal ratio and on agreement below one
  half cannot be reached, and the inputs for C2 servers, extracted configurations
  and script analysis are never filled by the callers; they are left out.

## 6. Proofs

`tlapm` proves all of the following, for every value of the constants that
satisfies the named assumptions of the modules, which TLC evaluates in the runs.
The assumptions are that bounds are numbers of the right sign, that the sets whose
members are counted are finite (`Slots`, `Instances`, `Calls`, `Cves`, the `Requests` of
`Detonation`) and not empty where the
code has a first one (`Users`, `Calls`), and that the values that stand for "nothing"
(`None`, `Blank`) are not among those they stand beside.

Two ways around what the provers lack recur. Induction over the naturals is stated
over a set in place of a predicate (`Least`, `Induction`; `SetInduction` over finite
sets), from the well-foundedness of < and `WFMin`. A fold or a recursive function is
reasoned about as a function that satisfies its recursion, which exists and is the
only one by that induction (`KeptUnfolds`, `SumsExist`, `ScanExists`). A sum over a
finite set is split this way into any member and the rest (`SumSplit`), and bounded
by what is known of each member (`SumBound`, `WithinBudget`).

`SubmissionPipeline_proofs`

* `TypeCorrect`: `Spec => []TypeOK`. `TypeOK` is inductive: its parts
  `BusySweeps` and `BusySlots` (who is at work has a submission, and a step of
  its workflow) are what the updates of `run` and `sweep` need.
* `OneRun`: without the fault "lockLoss", `Spec => []SingleRun`. Nothing in
  `SingleRun` is preserved by itself; `LockHeld` is: the call in a slot holds the
  lock of its submission's job, which is active, and only active jobs are locked.
  Two slots with one submission would be two holders of one lock. The argument
  needs that an enqueue of a job that exists changes nothing (the job id of
  `enqueueSubmissionIntake`), that a crash ends calls and locks together, and
  that a job is put back only when its lock is free.
* `WorkInvariant`: with at most one sweep at a time, `Spec => []WorkInv`. Besides
  `TypeOK` it says that whoever is about to enqueue, and every job, is of a submission
  that has left 'submitted' and is not 'closed' (`FrontOK`), that nobody closes what a
  sweep has selected behind its back (`SweepsOK`, which is what two sweeps would
  break), and that every call is of a job (`HasJob`). Almost every step keeps `Stable`:
  what left 'submitted' for work stays at work. The exception is the sweep's close,
  which finds the row 'submitted' and therefore finds no job, no call, and no handler
  about to add a job. `ClosedIsIdle` (`ClosedHasNoWork`) follows. It does not depend on
  locks: a call that has lost its own is still of a job, and writes over no 'closed'.
* `VerdictInvariant`: without "lockLoss" and for any number of sweeps,
  `Spec => []VerdictInv`: besides `TypeOK` and `LockHeld`, that a call past its last
  write (`RunsLate`) and a completed job (`DoneOK`) have left a verdict, and that
  nothing knows of a submission before its row is inserted (`Untouched`), so that no
  insert overwrites one. Two calls of one submission would write over each other's
  verdict; a sweep writes only over 'submitted'. `CompletedHasVerdict`
  (`CompletedIsSettled`) follows.
* `ImplementsLifecycle`, from both invariants (`LifeInv`) and under the assumptions of
  both: `Spec => FollowsLifecycle`. Each action is a step of `SubmissionLifecycle` or a
  stutter; a crash is one `Release` of all the running work.
* `AlertsArePaidFor` (`AlertsPerDelivery`), with every fault, lost locks included.
  Two calls may then be at one job, so no bound about one of them is inductive; what
  is, is a sum (`PaidFor`): the alerts that went out and the calls that may still alert
  (`Due`) are together no more than the failed attempts, the stalls and the delivery
  that is active or completed. A new call comes with a job that turns active; a job
  turns from active to waiting only for a failed attempt or a stall that is counted
  (`DeliveryStep`). `AlertsAreFew` bounds the deliveries themselves by MaxAttempts + 1:
  `JobBudget` says how many attempts and stalls a job can have in each of its states.
* `RunsPerFault`: what is left of `SingleRun` when locks are lost. A call that does not
  hold the lock of its job (`Strays`) came to be so by a fault that counts, since BullMQ
  puts a job back only when its lock is free and a crash ends the calls as well; one
  submission has at most the holder and the strays.

`SandboxPool_proofs`

* `SpecInv`: `Spec => []Inv`, where `Inv` adds to the type that a session's
  instance carries its mark (`UsersHold`), that a provisioning has one owner, a
  request or a timer (`RequestsProvision`, `TimersProvision`), that nobody holds,
  tracks or destroys what does not run yet (`NewIsUntouched`), and that the queue
  is of distinct waiting requests (`QueueIsWaiting`).
* `TypeCorrect`, `Exclusive` (`ExclusiveCheckout`) follow from it: a second user
  of an instance would have to be marked in the same field.
* `LeaksAreFaults` (`LeakPerFault`), until stop() clears the Map: each step adds to the untracked running
  instances at most one, and then counts a fault (`Contained`); the rest is
  cardinalities, which need `Instances` to be finite.
* `HandoutsAreLive` (`HandoutIsLive`), if nobody calls `returnToPool`, and whatever
  ids clients destroy: an entry that is marked by nobody has no destroy pending by
  cleanup or by a session's end, and none by stop before the process has stopped
  handing out (`IdleIsSpared`). The destroy route has no such restraint: it may be
  called for an idle entry, which checkout hands out while the provider works on it,
  so the statement is about the other two. With "return" it is false for them as well:
  a session's return frees an entry that cleanup has begun to destroy.
* `ImplementsAllocator` (`AllocatesOnce`), if nobody calls `returnToPool`, as nobody
  in the repository does: under the mapping of `SandboxPool` each action is a step of
  `SandboxAllocator` or a stutter. `Inv` supplies what the steps must know: an
  instance that is granted has no holder, one that is being provisioned is of one
  request, and one that left the pool is never provisioned again.

* The last section is about `Detonation`, the other sandbox, as a named instance `D` with
  constants and variables of its own; its theorems have the assumption of that module
  as their hypothesis. `DetonationTypes` is the type invariant, which needs that a
  promise never leaves "fulfilled" (docker run comes only after a check that found an
  image). `LeftoversAreFaults` (`LeftPerFault`): the property looks at requests that have
  ended; inductive is the same sum over requests that are past the step in question
  (`Boxed`: past the removal with a container, `Strewn`: past the rmdir with a directory,
  `Unrecorded`: past the INSERT with a report and no row). Each step adds at most one
  member to one of the three sets, and then counts a failure (`Accounted`). That a
  request has none of these before the step that makes them is `TracesPlaced`.

`Scoring_proofs`

* `ScoreInRange`, `SignedCleanScore`, `KevScore` are about the operator `Score`, for
  any evidence. The second goes through the calculation in its order: the cap for
  signed software leaves at most 30 points, the discount only lowers them, the
  vulnerabilities add at most 30, the floor for grave findings does not apply below
  35 points of behaviour, and the floor for vulnerabilities is at most 50 for signed
  and clean software; so the score is at most 60 and no alert is due.
* `TypeCorrect`, `SignedCleanRaisesNothing`, `ExploitedIsMedium` carry this to the
  workflow. The inductive invariant is `TypeOK` with `Scored`: a score that was
  computed is `Score(seen)`, where `seen` is evidence of the right type whose CVE
  row is one of those stored.
* `RowsOnlyAdd`: every cap, floor and discount of `Score` is monotone in the YARA
  matches and the domains, if the points before the discount are not negative and
  no discount is newly earned: the discount takes a percentage, and a percentage
  of a negative number would help.
* `ReportedKeepsItsScore` (`AlertIsNotTakenBack`). The invariant `AInv` adds, as
  long as no service has failed, that every step past the look-ups finds their rows
  (`Answered`) and that the score was computed from all that the file has, with no
  more matches and domains than are stored now (`SeenInFull`). A later delivery
  therefore computes from more of the same, and `RowsOnlyAdd` applies: a score high
  enough to be reported had points that were not negative, or an exploited
  vulnerability, whose floor decides.

* `BlockNeedsProof` (`BlockIsCorroborated`). The property is inductive beside `IInv`;
  all of the work is about the operators of `VerdictEngine`. Where less than a tenth
  of the engines detects anything and no critical rule matches, each builder makes a
  `Weak` item and the chain of queries, however far it gets, a `Mild` set of them
  (`ChainIsMild`). No weak item against the file is surer than 80, so the score is
  below 90 (`RawBelow90`). The confidence stays below 79.5, so that it is rounded to
  less than 80 (`ConfidenceBelow80`): it would be more for items of five sources that
  all agree and are as sure as their source allows, and they cannot be all of that at
  once. Five sources include the network and a signature or
  VirusTotal (`FiveSources`), whose confidence is low whenever they side with the
  others, whichever side that is (`Worths`); and further rows of VirusTotal only lower
  the average. This is for any number of rows and answers, where the run has at most
  two answers.

`Accounts_proofs`

* `TypeCorrect`: the type invariant, for a set of users that is not empty and a
  finite set of calls.
* `SessionsNeverFork` (`RefreshOnce`). What is inductive is `SpentOnce`: a refresh
  token that has a successor, or a request that is on its way to one, is spent and has
  only one of the two. The SET NX on the blacklist makes it so: two requests with
  one token both pass every check before it, and one passes it.
* `LockoutIsBounded` (`LockoutBound`). Inductive is `LockedIn`: without a lock every
  wrong password is in the count, about to be counted or about to lock, or its
  request died; with one, only requests that passed the check before can add to
  them. The bound follows because a request is in one place at a time.
* `DeletedGetFewTokens` (`DisabledGetsFew`), from `FewAfter`: what a deleted user has
  been issued and the requests that may still sign for him are together fewer than
  all requests, since the one that deletes is none of them.

`VulnFeeds_proofs`

* `TypeCorrect`: the type invariant, for any sequences of distinct sources and
  ecosystems.
* `ReadyHasRows` (`ReadyIsStored`). The invariant `IInv` adds to the two that nothing
  holds the mutex while the process is down, that a refresh that fetches has only
  sources left, and, as `CountedIsThere`, that what a refresh of OSV has counted is
  among the archives before its reading position; without that part the count it
  ends with says nothing of the archives behind it. Distinct ecosystems are what makes
  each stored archive count once.
* `JoinStaysCurrent` (`JoinIsCurrent`): a join that is not current, and that no kill
  or failed build explains, is owed by the cycle under way (`JoinOwed`); and every
  cycle that can change a table ends in the join (`CyclesClose`), whichever of its
  feeds fail.

`ThreatIntel_proofs`

* `TypeCorrect`, and `RateIsRespected` (`RateRespected`). The limiter forgets time
  stamps when it is entered, the window forgets requests as time passes, so neither
  list is a part of the other. What is inductive is that they end alike (`Mirrored`):
  the last m of both agree, the time stamps before them are out of the window, and
  the requests before them are of earlier processes. The filter of `acquire` keeps
  exactly those m (`YoungIsTail`, for ages in order).
* `LossIsPerFault` (`LostPerFault`), from an invariant about each call (`Accounted`):
  what it is owed is in its results, or an INSERT of it failed.

`SandboxManager_proofs`

* `TypeCorrect`, and the invariants it rests on: `CallInv` says which call works on
  which sandbox and how far (one at a time, because the pool grants an instance
  once), `ChainInv` which rules that leaves in the chain, `LossInv` which sandboxes'
  rules nobody will remove.
* `IsolationHolds` (`NeverWider`): every rule in the chain is one of its sandbox's
  policy, and none that comes before it there is one that iptables refuses
  (`RulesAreAdded`, `AddedParses`). Up to the first refused rule no policy has a rule
  that accepts more than its mode intends (`FirstRulesAccept`): the rule of the
  monitored mode that accepts what is left stands behind the IPv6 ranges. It is
  applyPolicy's stopping at the first failure, and the order of the policy, that
  make this so, not the order of the removal.
* `AnsweredMeansIsolated` (`AnsweredHasItsRules`): a request that is answered has added
  its whole policy, which therefore has no rule that iptables refuses: only the closed
  mode has none (`OnlyClosedParses`). Its rules are there until a removal deals with
  them (`RulesStay`), and those of other sandboxes do not match its traffic. This is
  about the rules in the chain; no traffic reaches them (section 7).
* `LeftoversPerFault` (`RulesPerFault`), `StopLeavesNoRule` (`StopFlushes`): each
  sandbox that loses its caller with rules in the chain is one of a failed command or
  of a refused rule, and the statement counts only the failed ones. The flush removes
  the rules of all, recorded or not; what is in the chain after it was appended by
  the handler of a client that had hung up (`OnlyHungUp`).

`ContainerScan_proofs` (with `VulnLookup` and `ContainerScore`)

* `CompareTellsTheOrder`: the comparison of the code, of the numbers parseInt reads,
  agrees with the publisher's order of two versions if the numbers stand to one
  another as the parts do up to the first that differ (`ReadsTrue`): letters, suffixes
  and words may be in them, but must not be what decides. The hypothesis is needed:
  of `1.1.1k` and `1.1.1g` the code says that they are equal.
* `MatchIsSound`: a version that a row matches is one its record covers, for any
  versions and ranges, if the version reads true of the range's bounds (`Legible`);
  `MatchMissesOnlyTheLast`: the converse, but for the last version of a closed range.
* `RowsWarranted` (`RowsAreWarranted`): a row is stored only for a package of a list and a
  CVE of the answer about it, the answer has only CVEs with a matching row, and the match is sound or the version
  is one that the code cannot tell from the record's (`Accuses`). The
  invariant `WInv` adds only that the image is one of `Images`, that the next package
  has a positive number and that what is matched has a record.
* `ScoreMeetsFloor`, `WorstCveSetsLevel`, `MoreIsNotLess` are about the container
  score, for any sum of the CVEs' points; `ExploitedGrade`: an exploited finding
  makes grade D or F. `ScoreGrows` is about the sum as well: more CVEs, or graver
  ones, never lower the score (`VulnPointsSum`, by induction over finite sets).
* `WorstIsPaidFor` (`WorstFindingSetsLevel`). `LInv`: a delivery in which nothing has
  failed and which reads a whole report has counted, for every package before the next
  one and every CVE known when it began that is legible for it, at least what that CVE
  demands (`PaidUpTo`). It needs that a CVE which is known is rated and matched for
  good, and that `MatchMissesOnlyTheLast`.
* `ScansOnlyGain` (`ScanIsNotWeakened`). The feeds change under a scan, so it is no
  function of any one state of them; the reports it reads may differ too, and the
  statement is about whole ones. `GInv` puts what a delivery has counted between
  two scans of unchanging feeds: of what the feeds hold now (`AtMost`), and of what
  they held once, which the score stored so far does not exceed (`AtLeast`); a scan
  of more is never a scan for less, by `ScoreGrows`, where no vendor hides another.

**Only model-checked**: liveness, and `ENABLED`, on which fairness rests, are outside
the prover's reach: `SubmittedIsPickedUp`, `JobSettles`, `CheckoutAnswered`,
`SessionEnds`, `CatchesUp`, `RequestEnds` and `CallEnds` stay with TLC. That
`SingleRun`, `CompletedIsSettled` and `FollowsLifecycle` need locks that hold,
`ClosedHasNoWork` and `FollowsLifecycle` one sweep at a time, and `HandoutIsLive` and
`AllocatesOnce` that nobody calls `returnToPool`, is no gap of the proofs: without
these conditions they are false.

## 7. Where code and documentation disagree

`Pipeline_orphan` is a run that TLC refutes, in the words of the line it quotes
(`PROJECT.json`, "findings"): "catch orphaned submissions every 5 minutes"
(`orchestrator/src/index.ts:117`). A row marked 'queued' whose enqueue did not
happen is never caught; the sweep selects only 'submitted'.

The modules state others as definitions that no run lists; the lines named refute
them:

| definition | says | the code |
|---|---|---|
| `SubmissionPipeline.FailureSurfaces` | failures are persisted "so the API can surface it" (`analysisWorker.ts:93`) | `updateSubmissionStatus(..., 'failed')` throws, as the enum has no 'failed'; the submission stays 'analyzing' after its last attempt |
| `SubmissionPipeline.FailedLeavesNoRunningRow` | "Marks the DB job as failed on unrecoverable errors" (`analysisWorker.ts:45`) | a job failed by stalls leaves its row 'running' |
| `SubmissionPipeline.ContainerIsRouted` | images are "routed to dedicated container analysis workflow" (`FEATURES.md:9`) | not those recovered by the sweep, whose job has no options |
| `SandboxPool.QueuedUntilAvailable` | "queued until an instance becomes available" (`poolManager.ts:146`) | nothing serves the queue but `returnToPool`, which nothing calls |
| `SandboxPool.MatchesConfig` | "an available instance matching the config" (`poolManager.ts:154`) | os and architecture only |
| `SandboxPool.StopLeavesNothing` | "destroy all instances" (`poolManager.ts:75`) | not one whose provisioning is in flight |
| `SandboxManager.ClosedIsClosed` | "Fully isolated: no outbound traffic at all" (`networkIsolation.ts:180`), of the chain that is "referenced from FORWARD" (67) | `safeIptables` swallows the error of the check, so the insertion is never reached and no packet meets a rule |
| `SandboxManager.DestroyRemovesRules` | "Remove all network isolation rules for a sandbox instance" (`networkIsolation.ts:108`) | a policy with an IPv6 range is refused half-way and never recorded; its destroy is answered and leaves the rules added before |
| `ContainerScan.ExactVersionsMatchExactly` | "Exact version match" (`vuln-feeds/src/index.ts:159`) | 1.2k matches a record of 1.2g: parseInt drops the letters |
| `Accounts.LastSuperAdminStays` | the guard "prevents deletion of the sole super_admin account" (`FEATURES.md:234`) | two deletions count before either writes |
| `Accounts.StaleIsRejected` | tokens are invalidated "so the user must re-authenticate" (`admin.ts:166`) | not those of the same second, nor one minted from a row read before |
| `VulnFeeds.Serialized` | "Only one refresh cycle runs at a time" (`OfflineEngine.md:413`) | the weekly refresh of YARA rules does not look at the mutex |
| `VulnFeeds.StartRefreshesEmpty` | "any feed has `row_count=0`" starts a refresh (`OfflineEngine.md:205`) | four of the six feeds are looked at |
| `Detonation.Throwaway` | containers are "destroyed after" (`FEATURES.md:45`) | not when the service ends during a detonation, which the 15 s of shutdown see to |
| `Detonation.BuiltImageIsUsed` | "No sandbox image found. Build it first" (`image-builder.ts:63`) | the rejected promise is kept until the process ends |
| `Scoring.LowIsNotMalicious` | no malicious verdict "when primary score is informational/low" (`submissionWorkflow.ts:1173`) | the test is `< 30`; "low" ends at 39 |
| `Scoring.AlertIsNotAllowed` | an alert and "Allow" contradict each other | an inconclusive verdict says "Allow" beside a score lifted to 70 by an exploited vulnerability |
| `Scoring.PushIsConfirmed` | "at least some VT confirmations" (`edr-push.ts:340`) | 0 of 0 engines passes |

Further, without a definition of their own:

* The score a user sees is `computeThreatScore`'s; `docs/USER.md:48` says it is the
  verdict engine's, whose verdict is only logged. The two need not agree
  (`docs/architecture/ARCHITECTURE.md:106`: "must agree").
* A known exploited vulnerability is "automatic HIGH (70)" (`FEATURES.md:188`) but
  for signed software that VirusTotal calls clean, where it is 40 or 50. The
  container comment (`submissionWorkflow.ts:311`) is not met by a scan that failed
  or found no report, which is shown as 0, nor by a CVE that is not rated yet.
* `nvd.ts:208` stores `lessThanOrEqual` as an exclusive end: the last affected
  version is missed. A bound of "*" and parts that are not numbers are 0, so a range up to "*" is
  empty; letters, suffixes and epochs behind a number are dropped. Product
  names are normalised on the feed's side only, so that `libstdc++6` is never
  found; a vendor of the package's own name hides the others, so that a newly
  published CVE may lower a later score. Packages beyond 200 are not looked up. A report without
  the results of a tool that failed (`executor.ts:541`) is scored like a whole one, and
  of several reports the scan reads the first of a query without an order.
* "Remove all FraudVault sandbox rules (for cleanup on shutdown)"
  (`networkIsolation.ts:138`): not those that the handler of a client that hung up
  appends before the process exits. With an IPv6 range in their policies, provisions
  in the simulated and monitored modes end with an error and are never answered 201.
* `OfflineEngine.md:265` gives grade C to 22.5 percent, which its own table and the
  code call B. The 'ready' count of osv is that of the archives that came this
  time, and may be 0. A refresh of the YARA rules loses what was switched off.
* Rows of the look-ups 'sbom-vuln' and 'cve-lookup' count in the reputation as
  malware detections; answers of MalwareBazaar, OTX, AbuseIPDB and URLhaus, 0 of 0,
  never count. `/enrich/sync` answers with `verdicts` and `reputation`, while
  `executeStep` stores `results`.
* The key of VirusTotal is shared by threat-intel and the orchestrator, each with a
  limit of its own, so that the quota of `README.md:191` can be exceeded.

## 8. Not modelled

What the modules leave out, by component, and why:

* *Frontend, search, reporting, telemetry, Helm, Terraform, nginx*: user interface,
  queries, formatting and configuration; no state whose order matters. They are
  about a fifth of the implementation's lines.
* *Parsers and analyzers* (static-analysis, the analyzers of dynamic-analysis, the
  commands that `executor.ts` runs in a container and the reading of their output,
  `config-extractor.ts`, the YARA rules, the ATT&CK mapping): functions from bytes
  or text to a report, mostly tables of patterns. The models have their results as
  inputs; a specification of them would be a copy of the tables.
* *detection-engine*: its queue has no producer, the clusterer and the family
  manager are imported by nothing, and generated rules are formatting. Whoever
  puts the clusterer to use should look at `clusterer.ts:327` first: "Index 0 in
  newNodes is the merged cluster", but the merged cluster is at the smaller of the
  two indices, so that after a merge elsewhere the first row of the matrix gets the
  distances of another cluster (that of the merged one to itself among them), and
  an outlier that comes first is merged with two close samples behind it.
* *The detonator* (`detonation/detonator.ts`): its requests carry no API key and
  name routes the sandbox manager does not have, so each of its jobs fails at the
  upload; the orchestrator uses `/analyze/docker`.
* *SIEM and EDR*: one request per alert, not repeated, whose error is logged. Which
  submissions are sent is in `Scoring`.
* *Reputation and the verdicts of threat-intel*: sums over the rows stored, which
  nothing modelled reads.
* *api-gateway*: `verifyMfa`, which ends every attempt with an error; the rate
  limiter; the roles that routes require; tags, notes, audit logs, settings. The
  cancel route writes values that are not in `analysis_job_status` and always
  throws.
* *sandbox-manager*: the snapshot and restore routes (a call to the provider and
  nothing else) and what QEMU does inside.
* *The other seven queues* of `queue.ts`: nothing calls their producers.
* The deployed schema's `user_role` shares only "admin" with the roles of the code,
  and an INSERT of a user leaves out a NOT NULL column; `Accounts` takes the roles
  of the code and of `docs/MODEL.md`.
