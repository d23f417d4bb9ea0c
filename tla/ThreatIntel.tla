----------------------------- MODULE ThreatIntel -----------------------------
(***************************************************************************)
(* The threat-intelligence service (packages/threat-intel): calls of       *)
(* POST /enrich/sync and jobs of its queue, each of which asks all         *)
(* providers about one indicator after the other, stores what they answer  *)
(* and reads the rows back to rate the submission; and the sliding window  *)
(* in memory through which every request to VirusTotal has to pass.        *)
(*                                                                         *)
(* Time passes in ticks; a time stamp is represented by its age, and ages  *)
(* are capped at Window, where the limiter drops them.  A process that     *)
(* ends, by a crash or by the end of shutdown, is restarted by docker.     *)
(***************************************************************************)
EXTENDS Naturals, FiniteSets, Sequences, Arrays

CONSTANTS
  Sync, Jobs,   \* calls of /enrich/sync, and jobs added by /enrich
  VirusTotal, Others, \* the configured providers
  Asked,        \* how many of hash, url, ip and domain a call names
  Window,       \* 60 s
  MaxRequests,  \* VIRUSTOTAL_RATE_LIMIT, 4
  Slack,        \* 50 ms
  Concurrency,  \* of the worker, 3
  Attempts,     \* of a job, 3
  MaxFaults,    \* bound on failing queries
  MaxCrashes    \* bound on ends of the process

Calls == Sync \cup Jobs
Providers == Others \cup {VirusTotal}

ASSUME IntelAssumption ==
  /\ Sync \cap Jobs = {} /\ VirusTotal \notin Others
  /\ Asked \in [Calls -> 1 .. 4]
  /\ Window \in Nat \ {0} /\ MaxRequests \in Nat \ {0} /\ Slack \in Nat
  /\ Concurrency \in Nat \ {0} /\ Attempts \in Nat \ {0}
  /\ MaxFaults \in Nat /\ MaxCrashes \in Nat

VARIABLES
  pc,          \* where each call is
  lookup,      \* the indicator it is at
  pending,     \* the providers whose promise is not settled
  results,     \* the answers that are to be stored
  throttled,   \* where the call is in the limiter
  sleep,       \* the ticks left of its setTimeout
  timestamps,  \* the limiter's array: ages, the oldest first
  tries,       \* the attempts of a job that have failed
  stalled,     \* the jobs that have stalled once
  owed,        \* the answers of this run of the call that have no row
  sent,        \* the ages of the requests to VirusTotal within the window
  faults, crashes

limiter == <<throttled, sleep, timestamps, sent>>
queue == <<tries, stalled>>
bounds == <<faults, crashes>>
vars == <<pc, lookup, pending, results, throttled, sleep, timestamps, tries, stalled,
          owed, sent, faults, crashes>>

Active == {"lookup", "store", "score", "update"}
Ended == {"done", "failed"}

Init ==
  /\ pc = [c \in Calls |-> "idle"]
  /\ lookup = [c \in Calls |-> 1]
  /\ pending = [c \in Calls |-> {}] /\ results = [c \in Calls |-> {}]
  /\ throttled = [c \in Calls |-> "no"] /\ sleep = [c \in Calls |-> 0]
  /\ timestamps = <<>>
  /\ tries = [c \in Calls |-> 0] /\ stalled = {}
  /\ owed = [c \in Calls |-> 0]
  /\ sent = <<>>
  /\ faults = 0 /\ crashes = 0

Goto(c, place) == pc' = [pc EXCEPT ![c] = place]
Fault == faults < MaxFaults /\ faults' = faults + 1 /\ UNCHANGED crashes

----------------------------------------------------------------------------
(* The limiter                                                              *)

(* A plausible error: time stamps are never dropped.                        *)
RecentOrNot == timestamps

(* timestamps.filter((t) => now - t < this.windowMs)                        *)
Young(ages) == Kept(ages, {i \in DOMAIN ages : ages[i] < Window})
Recent == Young(timestamps)

(* A plausible error: a caller that has slept does not look again.          *)
AcquireOnce(c) ==
  IF Len(Recent) >= MaxRequests /\ throttled[c] # "asleep"
  THEN /\ timestamps' = Recent /\ UNCHANGED sent
       /\ throttled' = [throttled EXCEPT ![c] = "asleep"]
       /\ sleep' = [sleep EXCEPT ![c] = Window - Head(Recent) + Slack]
  ELSE /\ timestamps' = Append(Recent, 0) /\ sent' = Append(sent, 0)
       /\ throttled' = [throttled EXCEPT ![c] = "passed"]
       /\ UNCHANGED sleep

(* No await between the test and the push: one step.  The request follows.  *)
Acquire(c) ==
  IF Len(Recent) >= MaxRequests
  THEN /\ timestamps' = Recent /\ UNCHANGED sent
       /\ throttled' = [throttled EXCEPT ![c] = "asleep"]
       /\ sleep' = [sleep EXCEPT ![c] = Window - Head(Recent) + Slack]
  ELSE /\ timestamps' = Append(Recent, 0) /\ sent' = Append(sent, 0)
       /\ throttled' = [throttled EXCEPT ![c] = "passed"]
       /\ UNCHANGED sleep

Wake(c) ==
  /\ throttled[c] = "asleep" /\ sleep[c] = 0
  /\ Acquire(c)
  /\ UNCHANGED <<pc, lookup, pending, results, queue, owed, bounds>>

(* A timer may fire late: time does not wait for those that are due.        *)
Tick ==
  /\ timestamps' = [i \in DOMAIN timestamps |->
                      IF timestamps[i] < Window THEN timestamps[i] + 1 ELSE Window]
  /\ sleep' = [c \in Calls |-> IF sleep[c] > 0 THEN sleep[c] - 1 ELSE 0]
  /\ sent' = Young([i \in DOMAIN sent |-> sent[i] + 1])
  /\ UNCHANGED <<pc, lookup, pending, results, throttled, queue, owed, bounds>>

----------------------------------------------------------------------------
(* A call: enrichByHash, enrichByUrl, enrichByIp, enrichByDomain in turn    *)

(* All configured providers are asked at once.                              *)
Launch(c, n) ==
  /\ Goto(c, "lookup") /\ lookup' = [lookup EXCEPT ![c] = n]
  /\ pending' = [pending EXCEPT ![c] = Providers]
  /\ results' = [results EXCEPT ![c] = {}]
  /\ Acquire(c)

Begin(c) ==
  /\ Launch(c, 1)
  /\ owed' = [owed EXCEPT ![c] = 0]

EnrichSync(c) ==
  /\ c \in Sync /\ pc[c] = "idle"
  /\ Begin(c)
  /\ UNCHANGED <<queue, bounds>>

Enrich(c) ==
  /\ c \in Jobs /\ pc[c] = "idle"
  /\ Goto(c, "queued")
  /\ UNCHANGED <<lookup, pending, results, limiter, queue, owed, bounds>>

TakeJob(c) ==
  /\ pc[c] = "queued"
  /\ Cardinality({j \in Jobs : pc[j] \in Active}) < Concurrency
  /\ Begin(c)
  /\ UNCHANGED <<queue, bounds>>

Asking(c, p) ==
  /\ pc[c] = "lookup" /\ p \in pending[c]
  /\ p = VirusTotal => throttled[c] = "passed"

(* Promise.allSettled: the last one settles the lookup.                     *)
Settle(c, p) ==
  /\ pending' = [pending EXCEPT ![c] = @ \ {p}]
  /\ IF pending[c] = {p} THEN Goto(c, "store") ELSE UNCHANGED pc
  /\ UNCHANGED <<lookup, limiter, queue, bounds>>

Answer(c, p) ==
  /\ Asking(c, p) /\ Settle(c, p)
  /\ results' = [results EXCEPT ![c] = @ \cup {p}]
  /\ owed' = [owed EXCEPT ![c] = @ + 1]

(* A plausible error: Promise.all, where one that fails takes all along.    *)
AnswerNothingForAll(c, p) ==
  /\ Asking(c, p)
  /\ pending' = [pending EXCEPT ![c] = {}] /\ results' = [results EXCEPT ![c] = {}]
  /\ Goto(c, "store")
  /\ UNCHANGED <<lookup, limiter, queue, owed, bounds>>

(* The provider does not know the indicator, or the request fails.          *)
AnswerNothing(c, p) ==
  /\ Asking(c, p) /\ Settle(c, p)
  /\ UNCHANGED <<results, owed>>

(* One INSERT after the other; one that fails is logged.                    *)
Store(c) ==
  \E p \in results[c] :
    /\ pc[c] = "store"
    /\ results' = [results EXCEPT ![c] = @ \ {p}]
    /\ owed' = [owed EXCEPT ![c] = @ - 1]
    /\ UNCHANGED <<pc, lookup, pending, limiter, queue, bounds>>

StoreFails(c) ==
  \E p \in results[c] :
    /\ pc[c] = "store"
    /\ Fault
    /\ results' = [results EXCEPT ![c] = @ \ {p}]
    /\ UNCHANGED <<pc, lookup, pending, limiter, queue, owed>>

NextLookup(c) ==
  /\ pc[c] = "store" /\ results[c] = {}
  /\ IF lookup[c] < Asked[c] THEN Launch(c, lookup[c] + 1)
     ELSE Goto(c, "score") /\ UNCHANGED <<lookup, pending, results, limiter>>
  /\ UNCHANGED <<queue, owed, bounds>>

(* scoreSubmission reads the rows; a job goes on to write its score.        *)
Score(c) ==
  /\ pc[c] = "score"
  /\ Goto(c, IF c \in Jobs THEN "update" ELSE "done")
  /\ UNCHANGED <<lookup, pending, results, limiter, queue, owed, bounds>>

Update(c) ==
  /\ pc[c] = "update"
  /\ Goto(c, "done")
  /\ UNCHANGED <<lookup, pending, results, limiter, queue, owed, bounds>>

(* A query fails: 500 to the caller, or another attempt of the job.         *)
ScoreFails(c) ==
  /\ pc[c] \in {"score", "update"}
  /\ Fault
  /\ IF c \in Jobs /\ tries[c] + 1 < Attempts
     THEN Goto(c, "queued") /\ tries' = [tries EXCEPT ![c] = @ + 1]
     ELSE Goto(c, "failed") /\ UNCHANGED tries
  /\ UNCHANGED <<lookup, pending, results, limiter, stalled, owed>>

(* Calls and time stamps are lost; a job is delivered again, but not twice. *)
Crash ==
  /\ crashes < MaxCrashes /\ crashes' = crashes + 1
  /\ LET cut == {c \in Calls : pc[c] \in Active} IN
       /\ pc' = [c \in Calls |-> IF c \notin cut THEN pc[c]
                                 ELSE IF c \in Jobs \ stalled THEN "queued" ELSE "failed"]
       /\ stalled' = stalled \cup (cut \cap Jobs)
  /\ pending' = [c \in Calls |-> {}] /\ results' = [c \in Calls |-> {}]
  /\ throttled' = [c \in Calls |-> "no"] /\ sleep' = [c \in Calls |-> 0]
  /\ timestamps' = <<>>
  /\ UNCHANGED <<lookup, tries, owed, sent, faults>>

Next ==
  \/ Tick \/ Crash
  \/ \E c \in Calls :
       \/ EnrichSync(c) \/ Enrich(c) \/ TakeJob(c) \/ Wake(c)
       \/ \E p \in Providers : Answer(c, p) \/ AnswerNothing(c, p)
       \/ Store(c) \/ StoreFails(c) \/ NextLookup(c) \/ Score(c) \/ Update(c)
       \/ ScoreFails(c)

(* Timers fire, requests to the providers have a timeout, queries return,   *)
(* and the worker takes what is queued.                                     *)
Fairness ==
  /\ WF_vars(Tick)
  /\ \A c \in Calls :
       /\ WF_vars(Wake(c)) /\ WF_vars(TakeJob(c))
       /\ WF_vars(Store(c)) /\ WF_vars(NextLookup(c))
       /\ WF_vars(Score(c)) /\ WF_vars(Update(c))
       /\ \A p \in Providers : WF_vars(Answer(c, p) \/ AnswerNothing(c, p))

Spec == Init /\ [][Next]_vars /\ Fairness
----------------------------------------------------------------------------

TypeOK ==
  /\ pc \in [Calls -> {"idle", "queued"} \cup Active \cup Ended]
  /\ lookup \in [Calls -> 1 .. 4]
  /\ pending \in [Calls -> SUBSET Providers] /\ results \in [Calls -> SUBSET Providers]
  /\ throttled \in [Calls -> {"no", "asleep", "passed"}]
  /\ sleep \in [Calls -> 0 .. Window + Slack]
  /\ timestamps \in Seq(0 .. Window) /\ Len(timestamps) <= MaxRequests
  /\ tries \in [Calls -> 0 .. Attempts - 1] /\ stalled \subseteq Jobs
  /\ owed \in [Calls -> Nat]
  /\ sent \in Seq(0 .. Window - 1)
  /\ faults \in 0 .. MaxFaults /\ crashes \in 0 .. MaxCrashes

(* In no window of a minute does the service send VirusTotal more requests *)
(* than configured, however many callers sleep, wake and arrive at once    *)
(* (virustotal.ts:7, "we do not exceed maxRequests within a rolling        *)
(* windowMs window"); a new process has forgotten those of the last one.   *)
RateRespected == Len(sent) <= MaxRequests * (1 + crashes)

(* A call that is past its lookups has a row for every answer it got: only *)
(* an INSERT of its own that fails loses one, and a provider that fails    *)
(* loses nothing of the others.                                            *)
LostPerFault ==
  \A c \in Calls : pc[c] \in {"score", "update", "done"} => owed[c] <= faults

(* Every call is answered and every job settled: nobody sleeps for ever in *)
(* the limiter behind others that wake at the same time.                   *)
CallEnds == \A c \in Calls : (pc[c] \notin Ended \cup {"idle"}) ~> (pc[c] \in Ended)
=============================================================================
