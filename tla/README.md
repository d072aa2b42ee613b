# Sentry Load in TLA+

Sentry Load is a distributed load tester: a coordinator (HTTP API, Go) splits a
test into sub-jobs and appends them to a Redis stream, workers (Go) take the
sub-jobs, send the requests and append snapshots of what they measured to a
second stream, and the coordinator folds the snapshots into live results,
pushes them to browsers over WebSockets and saves the finished test in
Postgres. This directory holds TLA+ models of that program, TLC runs that check
them on small instances, and theorems about them that TLAPS checks for every
value of the constants.

Everything is translated from the code under `coordinator/` and `worker/`; the
map from definitions to lines is in `PROJECT.json`. Redis, Postgres, GitHub,
DNS and the clients are modelled as that code uses them.

    tlc -workers 2 -config MCJobQueue.cfg MCJobQueue     # check a run
    tlapm JobQueueProofs.tla                             # check a proof

## 1. Inventory

### Components, their state and their operations

| Component | Code | State | Operations |
|---|---|---|---|
| Job queue and lease | `worker/main.go`, `worker/reclaim.go` | stream `sentry:jobs`; per pending entry its owner, idle time and delivery count (Redis); the worker's place in its loop | XPENDING/XCLAIM of stale jobs, XREADGROUP, lease renewal, run, reject, abandon, XACK |
| Load generator and publisher | `worker/loadgen.go`, `worker/main.go:203-240`, `worker/metrics.go` | virtual users, context, collector, aborted flag, `countedRequests` | join, wait for the limiter, request, tick, judge by the circuit breaker, publish, final snapshot |
| Test lifecycle | `coordinator/enqueue.go`, `resultwatcher.go`, `teststore.go` | `TestStore.tests`, the cursor of the watcher, stream `sentry:results` | XADD per sub-job, Register, XREAD, Update, MarkAbandoned, onTestFinished |
| Worker registry | `worker/main.go:154-173`, `coordinator/capacity.go` | one expiring Redis key per worker | heartbeat, expiry, count |
| Admission | `coordinator/handlers.go:295-387`, `jobs.go` | `TestStore.lastSubmitted`, the request under way | cooldown, authorization and limits, capacity, split, queue, register |
| Live view | `coordinator/live.go`, `teststore.go:69-111` | subscriber channels, one handler per viewer | subscribe, fan-out, push, unsubscribe |
| History, sharing, webhooks | `coordinator/history.go`, `handlers.go:389-490`, `resultwatcher.go:78-121` | table `tests`, next to what `TestStore` still has in memory | Save, EnsureShareToken, SetLabel, Delete, link of the webhook; one test, the list, the trend |
| Accounts | `coordinator/userstore.go`, `authstate.go`, `identitystore.go`, `resultwatcher.go:103-121` | users and sessions in memory and in Postgres, OAuth states | login, callback, PUT /me/webhook, expiry, load and prune at start, notification of an owner |
| Domains | `coordinator/domainstore.go`, `verify.go` | challenges in memory, verifications in memory and in Postgres | challenge, verify, load |
| Percentiles | `worker/metrics.go`, `worker/sketch.go`, `coordinator/sketch.go` | samples of a run, sketch per sub-job | record, encode, decode, merge, quantile |

Not modelled: the texts of webhooks and the badge, Prometheus plumbing, CORS
and routing, the dashboard, the demo target, the load-test action and the
operations files. They format or forward what the components above decide and
keep no state that a property could be about.

### How they interact

    POST /tests ─ Admission ─ XADD ─> sentry:jobs ─ Job queue ─> Load generator
                     │ counts                                        │ XADD
              Worker registry <── heartbeats ── workers              v
                                                              sentry:results
    browser <─ Live view <─ TestStore <─ results watcher <───────────┘
                                             │ Save, webhook goroutine
    browser ── share, label, delete ──> History (Postgres)
    Accounts and Domains decide who may do any of it.

Coordinator and workers share nothing but Redis. Inside the coordinator every
HTTP request, the results watcher and the webhook notifications are goroutines
that meet in mutex-protected stores, which are unlocked between one call and
the next. Inside a worker the main loop, the heartbeat, the lease renewal, the
ticker and the virtual users run concurrently.

### What is hard, and what makes each component correct

| Component | Hard behaviour | Correct means |
|---|---|---|
| Job queue | a lease kept by renewals against a claimer that judges by idle time; XPENDING is old when XCLAIM is made; crashes; replies lost after they took effect; a flush that takes the consumer group | a job is not taken from a healthy worker, is run a bounded number of times, and is acknowledged in the end and never without a trace |
| Load generator | three kinds of goroutine end a run together; nobody waits for the ticker | the run ends, its final snapshot is complete and says why it is short |
| Test lifecycle | XADDs that are retried; reports repeated, reordered, late, or of an earlier run of the same sub-job; a cursor that starts at `$` | a test finishes after all of its sub-jobs did, and does finish; the store says what the last reports say |
| Worker registry | heartbeats that are late, links that come and go | healthy workers are counted, silent ones are not |
| Admission | requests that overlap between check and effect; a fleet that changes meanwhile | what is queued can be run and fits the fleet; submissions keep their distance |
| Live view | updates between snapshot and subscription, slow and stalled viewers, closing a channel that is being written | no viewer is left behind unnoticed, no send on a closed channel |
| History | two queries without a transaction, a test that is saved again, two places to read from | links that were handed out keep working, a restart changes no answer but for the label, what was deleted stays so |
| Accounts | write-through under a mutex, saves that fail or fail halfway, restarts, readers without the mutex | tokens and settings survive, a state logs in once, notifications go to the current webhook |
| Domains | a challenge that is replaced during a lookup | only proven owners are recorded, and a recorded one stays |
| Percentiles | ranks at bucket borders, missing sketches | test-wide percentiles are those of all requests, or are not given |

`PROJECT.json` lists the single hazards, each at its line, with the properties
that would catch it.

## 2. Plan

1. `AtLeastOnce`, `JobQueue`: what the rest relies on, with proofs. Done.
2. `TestRun`: a test end to end, on top of the abstract queue. Done.
3. `LoadGen`, `Fleet`, `Admission`: the other concurrent parts. Done.
4. `LiveView`, `History`, `Accounts`, `Domains`, `Percentiles`. Done.
5. The lost consumer group in `JobQueue`, `AtLeastOnce` and `TestRun`; what
   history shows its owner; the notification goroutines of `Accounts`. Done.
6. Proofs of the queue, a test, a run, admission and the fleet, the live view,
   history, accounts, domains and percentiles. Done.
7. Proofs across modules: the life of a test uses the queue as specified, and
   what the store says is true of the queue; the safety half of the liveness of
   a test. Done.
8. Model extensions left: a SCAN that is not atomic in `Fleet`, and several
   coordinators that read one results stream.

How modules compose: `TestRun` instantiates `AtLeastOnce` as its queue and
`JobQueue` is shown to implement `AtLeastOnce`, so what `TestRun` says of tests
rests on what the Redis protocol provides; that every step of a test uses the
queue as `AtLeastOnce` says is a theorem (`SpecUsesQueue`). `Admission` extends `Fleet`: its
capacity check counts the keys of the workers modelled there. The live view,
history and percentiles take the watcher's updates as their input.

    JobQueue ──implements──> AtLeastOnce <──instance, uses── TestRun
    Admission ──extends──> Fleet
    X ──extended by──> MCX (constants for TLC) and XProofs (theorems)

`AdmissionProofs` holds the theorems about `Fleet` too, as `MCAdmission` holds
its instance. `TestStoreProofs` is about both sides of the TestStore, `TestRun`
which writes it and `LiveView` which reads it; the specification of the latter
is therefore `ViewSpec`, `ViewInit` and so on.

## 3. Modules

**`JobQueue`** is the jobs stream with its consumer group and the main loop of
the workers. One iteration of the loop is `CheckStale` (XPENDING), then `Claim`
/ `ClaimEmpty` / `ClaimError` for one candidate after the other in stream
order, else `ReadNew` / `ReadNothing`; then `Renew` (the ticker of `holdLease`)
while the job runs, `FinishRun` or `Reject`, or `Abandon` for a poison job;
then `Ack`. Between any two of them other workers, crashes, cut links and time
come in. `ClaimReplyLost` and `ReadReplyLost` are calls that took effect in
Redis and failed for the worker. `Wipe` is a flush of Redis: entries that were
not acknowledged are lost, the group goes with its stream, and a worker that is
told NOGROUP (`ReadNoGroup`) creates both again (`Regroup`), as does one that
starts. The stop of a worker by a signal is a `Crash`: its context is cancelled
and every later call to Redis fails. Ages are counted up to `StaleJobAfter`.
Ghosts: `late` (workers whose link was cut since their last renewal), `runs`,
`reported`, `unpublished`.

**`AtLeastOnce`** is what the rest of the system may assume of it: jobs queued
until acknowledged, a job started only when no healthy worker runs it and it was
delivered less than `MaxDeliveries` times, given up when it was delivered as
often or more, and all of it lost in a flush (`Wipe`). A delivery no worker
learns of (`DeliverUnseen`) counts as well.

**`TestRun`** follows one test: the POST handler queues (`Enqueue`) and
registers (`Register`). An entry of the stream is a sub-job and a number: when
the reply to an XADD is lost (`EnqueueReplyLost`) the Redis client sends it
again, which queues the sub-job a second time. Workers take its sub-jobs from `AtLeastOnce` and publish live and final reports, and
the results watcher reads batches from its cursor, updates the store and
finishes the test. The last snapshot of a ticker that outlives its run is
`StraySnapshot`. The watcher starts in an XREAD, since it has been running before
the request. A flush (`Wipe`) also takes the reports the watcher has not
read; it keeps its cursor, which stays good because Redis makes the IDs of
entries from the time. `FaultKinds` says which faults an instance may have.
`Stranded` lists why a test may stay open for ever.

**`LoadGen`** is one run inside a worker: users (`Join`, `SendRequest`,
`LimiterRefuses`, `RecordResult`), ticker (`Tick`, `Judge`, `TickerSends`,
`CancelBreaker`, `TickerStops`) and caller (`WaitReturns`, `ReadFlag`,
`CallerSends`). `Count` and `Add` are the two halves of the unlocked update of
`countedRequests` in `publish`, which ticker and caller may be in at the same
time. Latencies are left to `Percentiles`.

**`Fleet`** holds the workers' expiring keys, with `silent` (how long a worker
has not run on a working link) and `missed` as ghosts. **`Admission`** extends
it by POST /tests: `CheckCooldown`, `Validate`, `CheckCapacity`, `Enqueue` per
sub-job, `Register`, each a step of its own. Its `jobs` is a set of sub-jobs, in
which one that is queued twice is still one; an XADD that fails for the handler
(`EnqueueError`) may have queued its sub-job all the same. `Register` reads the
clock just before it takes the lock (`teststore.go:122`, `129`), here at once.

**`LiveView`** has the handler of every viewer as a small program and the
watcher's `Update` with its fan-out; a snapshot is the number of updates it
reflects. A client may leave (`Leave`), or stay connected and stop to read
(`Stall`), until it reads on or not (`ReadOn`); the handler is in `WriteJSON`
all that while.

**`History`** has the row of each test next to what memory knows of it, `Save`
as `Update` + `SaveReturns`, the two queries of `EnsureShareToken` as `Look`
and `Mint`, and labels, deletion and restarts. The requests that only read are
operators: `Answer` (one test, from memory first), `Listed` and `Plotted` (the
list and the trend, with their order and limit), `Alive` (a link). An answer
from memory has no label (`teststore.go:271-275`), one from Postgres has
(`history.go:206`). Ghosts: `overlapped`, `deleted`, `gone` (deleted and not
saved since), `named` (the label the owner gave last) and `settled` (saved, with
nothing newer in memory).

**`Accounts`** has OAuth states, callbacks and settings requests that go
through the mutex of `UserStore` (`Lock`, `Save` or `SaveError`, `Apply`), and
sessions (`InsertSession`, `RememberSession`, `ForgetSession`). A save that
fails may have been written; it is taken to be over when the mutex is released,
that is, a statement Postgres still executes after its context expired is not
modelled. `FindOwner`, `CheckHook` and `Send` are the goroutine that notifies
an owner: it gets a pointer under the mutex and reads the webhook through it
twice without. What such a read returns while the assignment is under way
(`Seen`) is the old URL, the new one, or neither.

**`Domains`** has challenges, what a domain publishes, and the verification in
its steps read, look up, save, remember.

**`Percentiles`** has the samples behind every report, and computes exact
percentiles and those of the merged sketches over an abstract monotone bucket
function, so that it can compare them. Sorting is given by what it returns: the
ascending run with the same latencies, each as often (`Ascending`).

Definitions named in a comment `Mutant of X` are plausible mistakes in `X`.
Substituted for `X` they make the property they stand for fail, which shows
that the run can tell the difference.

## 4. Runs

| Run | Instance | Checks |
|---|---|---|
| `queue` | 2 workers, 2 jobs (one malformed), renewals due after 1 and never late, stale after 2, claims within 1, 2 deliveries, pages of 1, 1 crash, 1 cut link or lost reply, 1 flush | `RunsBounded`, `AckedIsAccounted`, `AckedIsReported`, `SoleRunner`, `NoHealthyRunIsStolen`, `ImplementsQueue`, `EveryJobIsAcked` |
| `test` | 2 workers, 2 sub-jobs, 2 XADDs for each, 2 deliveries, 1 fault of ten kinds, 1 live snapshot | `FinishedMeansReported`, `FinishedTwiceNeedsLateLive`, `MarksFollowReports` |
| `test_live` | 2 workers, 2 sub-jobs, 2 XADDs for each, 1 delivery, 1 fault of ten kinds | `EveryTestFinishes` |
| `test_rerun` | 1 sub-job, 1 death | `FinishedOnce` is violated |
| `load` | 2 ramping users, 4 requests, 2 ticks, breaker from 2 samples | `FinalIsComplete`, `AbortIsReported`, `CountedInFull`, `RunEnds` |
| `admission` | 2 requests of six kinds, 2 workers, beat 1, latency 1, TTL 3, cooldown 2, 2 faults, 1 restart | `HealthyIsCounted`, `SilentAgesOut`, `JobsAreRunnable`, `SplitIsComplete`, `FitsTheFleet`, `SpacedUnlessOverlapping` |
| `live_view` | 2 viewers, channels of 2, 3 updates | `CaughtUpIsCurrent`, `OnlyOpenAreNotified`, `FinishedIsShown` |
| `history` | 2 tests of one owner and one target, another user, 3 share calls, 2 labels, 3 reports per test, list and trend of 1, 1 restart | `LinksDieOnlyByOverlap`, `FinishedIsDurable`, `DeletedStaysGone`, `LatestIsShown` |
| `history_trend` | 2 tests of one target, a trend of 1 | `RecentIsPlotted` is violated |
| `accounts` | 1 user, 3 callbacks (two with one state), 2 settings, 1 notification, states live 1, sessions 2, 2 restarts | `ReceivedTokenWorks`, `SettingHolds`, `MemoryIsDurable`, `StateIsUsedOnce`, `NotifiedIsCurrent` |
| `domains` | 2 domains, 2 users, 3 requests (each user for one domain, one of them for the other too), 2 tokens, 1 restart | `AnsweredIsKept`, `VerifiedByProof` |
| `percentiles` | 2 sub-jobs, 3 latencies in 2 buckets, runs of 2 | `CombinedIsTrue` |

The runs `test`, `load`, `live_view` and `percentiles` check their module's
`TypeOK` (`ViewTypeOK`) as well. Type correctness is also a theorem of every
module (section 5), which the other runs rely on.

**Why the bounds are enough.** *queue*: two workers suffice for every race of
this protocol, which is between the holder of an entry and a claimer; two
deliveries and one fault each let a job become poison after a crash and a lost
reply, and one job per page makes the second one wait; a flush comes before,
between and after the enqueueing of the two jobs. The times are the smallest
that satisfy the assumptions of the module. *test*: two sub-jobs are the least
for which "all done" differs from "one done"; one fault of any kind, in every
position, with one live snapshot makes each of the races around the watcher
happen. A sub-job is queued twice at most: the second entry already runs next to
the first one. *test_live* has the same faults; the live snapshot that matters
to it is the late one of a ticker, which is among them. It allows one delivery,
so that a single fault makes a sub-job poison and `MarkAbandoned` has to end the
test; sub-jobs that are run again are in *test*, and that they end is in *queue*.
*load*: two users make one leave before the other, four requests let the breaker
trip before or after the last one, and with two ticks one snapshot is live while another one is final.
*admission*: cooldown, overlap and restart concern two requests of one owner;
the requests include more sub-jobs than users, a split with a remainder, an
open host, an unverified owner and every limit; the fleet may shrink and grow between the capacity check
and the XADDs. *live_view*: three updates overflow a channel of two. *history*:
a second Save needs three reports; two calls are the least that overlap, a
third comes after; two tests in lists of one make the limit bite. *accounts*
and *domains*: two requests are the least that compete for a lock, a state or
the challenge of a domain, which the two users of *domains* replace for each
other; restarts come before, between and after them. *percentiles*:
with one to four samples in two buckets a rank falls on either side of a
border.

**Where the system may stop.** `load`, `live_view`, `history`, `history_trend`,
`accounts`, `domains` and `percentiles` set `CHECK_DEADLOCK FALSE`: a run ends, viewers leave, requests are made once. The workers, the
watcher and the fleet run for ever, and those runs check for deadlock.

**Fairness.** `JobQueue`: workers are scheduled, time passes, crashed workers
are started again by whoever operates them (a job can only wait while all of
them are down) and links come back; a run ends because a job has a duration and
a rejected job returns at once (`FinishRun \/ Reject` is fair by itself, since
a worker that only renewed would otherwise be scheduled too). `TestRun`: the
handler, the watcher and the workers are scheduled; no fault ever must happen,
and a lost link need not come back. `LoadGen`: users, ticker and caller are
scheduled and requests return, at the latest by the client's timeout. The
deadline has *no* fairness: `RunEnds` says that a tripped breaker ends the run
without its help. `LiveView`: the viewers' handlers are scheduled, but a write to
a client that has stalled does not return: `WriteJSON` has no deadline
(`live.go:62`, `90`), and neither a client's leaving nor its reading on ever must
happen. `FinishedIsShown` is therefore about viewers that do not stall for ever.

### Where code and documentation disagree

* `test_rerun` (`coordinator/teststore.go:185`): `Update` overwrites `done`
  with the flag of every snapshot. A worker that dies between its final report
  and the XACK has the sub-job run again, the live snapshots of the second run
  take `done` back, and the test finishes, is saved and is notified a second
  time, although `onTestFinished` is meant for what "happens once"
  (`resultwatcher.go:78`). What does hold, and is checked, is
  `FinishedTwiceNeedsLateLive`.
* `history_trend` (`coordinator/history.go:322`): the trend is ordered oldest
  first before it is cut. From 20 tests of one target on it no longer changes,
  although it should tell of "recent tests" (`handlers.go:459-460`). What holds is
  that the list, which is ordered the other way, has the test that was just saved
  (`LatestIsShown`).

Other behaviour of the code that the models contain, and that the checked
properties are stated around:

* A worker that was cut off long enough to lose its job renews, once it is
  back, a lease another worker holds (`reclaim.go:55`: min-idle 0, no check of
  the owner). Hence `SoleRunner` is stated for behaviours without a cut link.
* A poison job whose abandoned report could not be published is acknowledged
  all the same (`reclaim.go:152`), and so is a finished one
  (`main.go:134-137`). `AckedIsAccounted` admits it, `AckedIsReported` is
  stated without cuts.
* A test may stay open for ever, and never reach the history, when the
  coordinator restarts (`teststore.go:158-161`); when a final report arrives
  before Register and is ignored (`handlers.go:373-379`); when it arrives
  between two reads that ask for `$`, which the watcher does until it has read
  its first entry (`resultwatcher.go:29-51`); and when the last word on a
  sub-job is not a final report, because that one could not be published, went
  with a flush, or was followed by a late live snapshot. `EveryTestFinishes`
  says that these are all the causes there are (`Stranded`).
* The ticker's goroutine is not waited for, so that a live snapshot may follow
  the final one (`loadgen.go:75-95`). It takes back `done`: of a test whose
  other sub-job is still running, for good. A request may be counted twice in
  the Prometheus counter (`main.go:203-240`), never too rarely
  (`CountedInFull`) and never more than twice (`SpecCountedAtMostTwice`).
* Sub-jobs of a request that failed halfway are not withdrawn
  (`enqueue.go:34`): they run and report, and the store ignores them.
* Until the watcher has handled its first entry every XREAD says `$`, also one
  after a timeout or an error (`resultwatcher.go:29-51`). A report that was added
  in between is never read, although the watcher is meant to be "continuously
  reading sentry:results" (`resultwatcher.go:15-16`). `MarksFollowReports` says
  that nothing else leaves the store without the marks of the last reports.
* The update that finds a viewer's channel full is dropped
  (`teststore.go:107`). The next one makes up for it. When there is none, because
  it was the one with `done=true`, its viewer waits on a test that has finished;
  `CaughtUpIsCurrent` and `FinishedIsShown` except that viewer only.
* Two overlapping calls of `EnsureShareToken` both find no token and both write
  one, so that the link of the first is dead (`history.go:243`), although it
  promises "the same token on every later call" (`history.go:225`).
  `LinksDieOnlyByOverlap` says that this, or a deletion, is the only way.
* Two requests of one owner that overlap both pass the cooldown
  (`handlers.go:302`): `SpacedUnlessOverlapping`.
* A client that stays connected and stops to read holds its handler and its
  channel for as long as it likes (`live.go:62`, `90`): `FinishedIsShown`.
* The Redis client retries an XADD whose reply was lost, which queues a sub-job a
  second time (`enqueue.go:34`). Both entries run, perhaps at once, and report;
  the test counts the sub-job once, but may be finished twice.
* GET /tests/{id} answers without the label while the TestStore has the test
  (`teststore.go:271-275`) and with it after a restart (`history.go:206`).
  `FinishedIsDurable` says that a restart changes this and nothing else.
* A test that finishes again after it was deleted is saved again
  (`history.go:154`), although `DELETE` "permanently removes" it; until a
  restart memory answers for it in any case. `DeletedStaysGone` and
  `FinishedIsDurable` are stated around this. A snapshot that arrives after the
  finish and changes no flag is shown from memory and not saved.
* A webhook that is cleared between the check and the call is called as ""
  (`resultwatcher.go:105`, `118`), which fails and is logged.
  `NotifiedIsCurrent` holds of it, since "" is then the current setting. A read
  in the middle of the assignment (`userstore.go:207`) may see a torn string.

## 5. Proofs

All theorems hold for every number of workers, jobs, users and tests, every
request and time limit the named assumptions of the modules admit, and any
bounds. The assumptions that carry weight are about time:
`LeaseRenewInterval + RenewLatency < StaleJobAfter` and `ClaimLatency <
StaleJobAfter` for the queue (10 s and 45 s in the code, with the client's
timeouts in between), `HeartbeatInterval + BeatLatency < HeartbeatTTL` for the
fleet, and for admission that the coordinator's limits do not exceed the
workers'. For percentiles it is that buckets keep the order of latencies, which
a rounded logarithm does.

**`JobQueueProofs`.** None of the properties is inductive. `IInv` adds what a
lease is worth: the idle time Redis shows for an entry is never more than the
time since its runner renewed (`LeaseCovers`), a worker that was not cut off
renews in time (`RenewsInTime`), so its entry is too young to be claimed; a
delivery count read by XPENDING is out of date only for an entry whose idle
time was reset after that read, and which is therefore too young for the XCLAIM
that would use it (`SeenIsFresh`); and runs are deliveries
(`RunsAreDeliveries`), what is held was delivered (`HeldIsDelivered`), what is
about to be acknowledged is accounted for (`AckIsAccounted`). From it follow
`SpecRunsBounded`, `SpecAckedIsAccounted`, `SpecNoHealthyRunIsStolen`, and with
what holds as long as no link was cut, `SpecSoleRunner` and
`SpecAckedIsReported`. `SpecImplementsQueue` proves the refinement: every step
of the protocol is a step of `AtLeastOnce` or a stutter (`QueueSimulation`),
where a claim is a `Start` because a healthy runner's entry cannot be claimed,
and a reply that is lost is a `DeliverUnseen`.

**`TestStoreProofs`**, the life of a test. The store and the watcher's outcome
are explained by the part of the stream the watcher has read: every sub-job in
`done` has a final report there (`DoneIsHeard`), and a test is only finished
when all of them are done (`OnlyAcceptedFinish`), so that all of them were
reported (`FinishedIsHeard`): `SpecFinishedMeansReported`. Once a test has
finished it stays done, unless a live snapshot behind a final report of its
sub-job took it back (`TakenBackByLate`): `SpecFinishedTwiceNeedsLateLive`.
Workers only append (lemma `StreamGrows`), and a flush leaves what was read, to
the end of the batch (lemma `WipeStep`).

Four results go beyond what the runs state. `SpecUsesQueue`: under the handler,
the workers and the watcher the queue behaves as `AtLeastOnce`, which `JobQueue`
implements, so that the two models meet. `SpecAllTrue` relates what is said of a
sub-job to what became of it in the queue: who runs a job has started it, who
gives one up found it delivered too often (`WorkersAreTrue`), the queue forgets
neither (lemma `QueueOnlyGrows`), and so every late snapshot, report and mark in
the store is true (`StraysAreTrue`, `ReportsAreTrue`, `StoreIsTrue`). Hence
`SpecFinishedMeansServed`: a test is saved and announced only when each of its
sub-jobs was run or given up, and not merely reported. `SpecAtRestIsFinished` is
the half of `EveryTestFinishes` that needs no fairness: when all sub-jobs are
over and the watcher has read to the end, the test has finished or one of the
causes in `Stranded` holds. It rests on `Marks`: as long as no report was
ignored or skipped, the store has the mark of every sub-job whose last word read
is final (`ReadIsMarked`), because nothing final was read before Register, and a
test all of whose marks are set was announced or is about to be
(`DoneIsNoticed`). `SpecEachFinishNeedsItsOwn` counts the repeated announcements that
`SpecFinishedTwiceNeedsLateLive` explains: while a test is open, each of its finishes
was taken back by a late snapshot of its own (`FinishesCounted`), so it is
announced at most once more than late snapshots were read. TLC confirmed these
invariants on the instance of `test`, the last one also with three live snapshots.
`Marks` also gives `SpecMarksFollowReports`: the marks of the store are those of
the last reports read, through reports of a second run, late snapshots,
abandoned sub-jobs and flushes, unless one was ignored or skipped.

**`LoadGenProofs`.** The caller takes its metrics when no user is left to record
anything (`FinalMetrics`), only its own are final, and nothing that is published
exceeds what was recorded (`MetricsAreRecorded`): `SpecFinalIsComplete`. The
flag is set before the context is cancelled, that before a user stops, and that
before the caller reads the flag (`FlagComesFirst`): `SpecAbortIsReported`.
`SpecCountedInFull` holds in spite of the race because the counter is never
behind `countedRequests`, and what a goroutine is about to add covers its own
metrics, whatever the other one wrote in between (`CountsAdvance`). The other
bound, `SpecCountedAtMostTwice`, needs what is still to come: until the caller
counts, the ticker alone has, each request once; from then on the counter and
all the ticker can still add make at most twice the requests (`CountedApart`).

**`AdmissionProofs`.** First the fleet: the key of a worker outlives the time to
its next beat (`KeyOutlivesBeat`), and its remaining life and the worker's
silence add up to at most the TTL (`KeyEndsWithSilence`). The coordinator
changes nothing there (`SpecImplementsFleet`). Hence `SpecHealthyIsCounted` and
`SpecSilentAgesOut`; and since only recent workers are registered (lemma
`RegisteredIsRecent`), `SpecFitsTheFleet`. Then the requests: a handler's place
in its program tells what was checked (`HandlersOK`), the split fits the users
(`FanoutFits`), so that every share is between one and the worker's limit (lemma
`ShareInRange`, about the division with remainder): `SpecJobsAreRunnable`. The
first k shares of a split have `QueuedUsers` between them, and all of them the
whole (lemma `SharesAddUp`); the sub-jobs of a request are those shares, each of
them once, whatever other requests queue meanwhile (`Counted`, `SplitFollows`),
and one more sub-job brings as many users as it has (lemma `OneMoreJob`):
`SpecSplitIsComplete`, for any number of users and sub-jobs. For the cooldown the invariant is that an owner nobody overtook has been quiet for
the whole cooldown since the check (`OwnerKeptQuiet`):
`SpecSpacedUnlessOverlapping`.

**`TestStoreProofs`**, the live view. Of a viewer whose latest update fitted, the newest snapshot
on its way is the current one (`NewestIsCurrent`): it is the last in the
channel, or in the handler's hands, or else the one shown; a handler that
subscribed has an open channel until it unsubscribes
(`ChannelsFollowHandlers`). Hence `SpecCaughtUpIsCurrent` and
`SpecOnlyOpenAreNotified`, for any number of viewers and updates and any
capacity.

**`HistoryProofs`.** A call between its two queries is about a test that was
saved (`MintsForSaved`), and when two of them are, the one that writes later
replaces a token marked overlapped (`MintsReplaceOverlapped`):
`SpecLinksDieOnlyByOverlap`. For what is shown, a settled test has a row with
the report memory has, and is done in memory if memory knows it
(`SettledIsSaved`), because only finished tests are saved, one at a time
(`SavingIsDone`), and the label of every row is the one its owner gave it last
(`LabelsAreKept`), through saves, links and failed calls:
`SpecFinishedIsDurable`. `DeletedStaysGone` is inductive next
to these; it rests on `Tokened` being an UPDATE. For `SpecLatestIsShown` no two
rows have the same time (`Distinct`) and none a later one than the row just
written (`TypeOK`), so that nothing comes before that row in the list, for any
limit and any finite number of tests.

**`AccountsProofs`.** The invariant says what the rows are worth when a restart
loads them: a row that exists holds the setting last answered or a later one
that was tried (`RowsAreCurrent`), and so does the copy the holder of the mutex
is about to save or to apply (`DraftsAreCurrent`, `PutsAreTried`,
`AppliedIsSaved`), which no other request changes because only one is between
copying and applying (lemma `MutualExclusion`). A session is stored before it
is remembered and remembered before its token is handed out
(`IssuedIsStored`), and its user is known by then (`KnownUsers`,
`SessionsHaveUsers`). An accepted state has expired (`ConsumedIsExpired`).
A goroutine that notifies found its owner, and users are never forgotten
(`OwnersKnown`), so that what it reads is a setting, current by `SettingHolds`
unless the read races. Hence `SpecReceivedTokenWorks`, `SpecSettingHolds`,
`SpecMemoryIsDurable`, `SpecStateIsUsedOnce` and `SpecNotifiedIsCurrent`.

**`DomainsProofs`.** The invariant follows a proof from the challenge a request
read (`ChallengesAreIssued`, `TokensAreIssued`, `UnsentHasNone`) over the
lookup (`PublishedIsSeen`, `SaversSawProof`) to the row (`RememberedIsSaved`);
it lasts because what was issued or published stays in the histories (lemma
`HistoriesGrow`) although challenges are replaced and TXT records withdrawn.
Hence `SpecVerifiedByProof` and `SpecAnsweredIsKept`.

**`PercentilesProofs`.** The prover cannot instantiate the induction theorems
of the library, which take a predicate. The proofs use a set of subsets instead,
and that it has a smallest element (`WFMin`): lemmas `SetInduction` and
`NatSetInduction`, and `FoldInduction`, which removes elements in the order the
folds of the community modules do. From them: the function a fold over a finite
set is defined by exists (`FoldExists`), the sum of the counts of a
sketch is the number of its requests (`SumIsCount`, `TotalIsLength`), a run can
be sorted (`AscendingExists`), and its k-th entry then is the latency with fewer
than k requests below it and at least k up to it (`AscendingIsKth`). The
quantile read off a sketch looks for the same position among buckets, which keep
the order: `QuantileOfEncode`, for every percentile and every run. Merging adds
sub-job by sub-job what `Holds` counts: `MergedIsEncode`. With that, and that
the store holds the sketch of the samples behind a report (`IInv`):
`SpecCombinedIsTrue`, for any finite set of sub-jobs, any latencies and run
lengths and any buckets that keep the order.

**Model-checked only.** Liveness (`EveryJobIsAcked`, `EveryTestFinishes`,
`RunEnds`, `FinishedIsShown`), since the prover handles neither fairness nor
ENABLED. Every other property of a passing run is a theorem.

## 6. Not modelled

* A consumer group that is destroyed while its stream stays (`XGROUP DESTROY`):
  a group made from the start of the stream would deliver everything again.
* The SCAN behind the count of workers, which is taken as one look at the keys.
* The syntax of URLs, host names and webhook bodies; a host is a value.
* The logarithm behind the latency buckets, and with it the 1 % bound, and the
  rounding of the percentile answered to 0.1 ms (`teststore.go:371`), which at
  low latencies can leave its bucket. `CombinedIsTrue` is about the bucket that
  `quantileMS` finds.
* A report whose XADD the Redis client retried: it is in the stream twice. The
  second copy changes nothing, unless a late live snapshot of a ticker lies between
  them; then it finishes the test again, as a second run does.
* That `Get` reads a test and its sub-jobs in two queries, which a Save may
  come between, and that the list leaves out whether a test was abandoned
  (`history.go:353`).
* What follows from a torn string: a read of the webhook is old, new or "torn".
* The shutdown of the coordinator: what it had under way ends with it as in
  `Restart`, a Save with a cancelled context like one that fails.
* Growth: `TestStore` forgets no test and neither stream is trimmed.
* Texts and plumbing: webhook messages, the badge, Prometheus metrics, routing.
  `withCORS` names the methods GET, POST and OPTIONS only (`server.go:105`).
* The dashboard, whose live page does not reconnect its WebSocket, the demo
  target, the load-test action and the operations files.
