------------------------------ MODULE TestRun ------------------------------
(***************************************************************************)
(* One test from POST /tests to its place in history: the handler splits   *)
(* it into sub-jobs and registers it (handlers.go:373-379, enqueue.go),    *)
(* the queue runs them (AtLeastOnce), the workers append snapshots to      *)
(* `sentry:results', and the coordinator's results watcher folds them into *)
(* the TestStore and finishes the test (resultwatcher.go, teststore.go).   *)
(***************************************************************************)
EXTENDS Naturals, Sequences, FiniteSets

CONSTANTS
    Workers,
    NumJobs,       \* sub-jobs of the test
    MaxTries,      \* bound: XADDs the Redis client sends for one sub-job
    MaxDeliveries,
    FaultKinds,    \* the faults this instance may have
    MaxFaults,     \* bound: faults in a behaviour
    MaxLive        \* bound: live (not final) snapshots in a behaviour

Jobs == 1 .. NumJobs

\* The entries of the jobs stream: a sub-job whose XADD was retried has several.
Entries == Jobs \X (1 .. MaxTries)
NoJob == <<0, 0>>
Copies(j) == {j} \X (1 .. MaxTries)
SubJob(e) == e[1]

ASSUME TestRunAssumption ==
    /\ NumJobs \in Nat \ {0} /\ MaxTries \in Nat \ {0} /\ MaxDeliveries \in Nat \ {0}
    /\ FaultKinds \subseteq {"die", "lose", "publish", "ack", "stray", "restart",
                             "submit", "save", "read", "wipe"}
    /\ MaxFaults \in Nat /\ MaxLive \in Nat

VARIABLES
    status, at, on, starts, deliveries, final, \* the jobs stream and its workers
    results,    \* what the results stream had and a flush did not take from the
                \* watcher: [job, kind], kind "live", "done", "abandoned"
    stray,      \* stray[w]: the entry whose last ticker snapshot is still on its way
    handler,    \* the POST handler: "enqueue", "retry" (the reply to an XADD was lost),
                \* "register", "accepted", "failed"
    registered, \* TestStore.tests holds the test
    done, abandoned, \* the sub-jobs TestStore has marked so
    wpc,        \* the watcher: "between" two XREADs, "blocked" in one,
                \* "handling" its entries, "finishing" the test
    fresh,      \* lastID is still "$"
    from, upto, \* the watcher is past results[from], its batch ends at upto
    saves,      \* onTestFinished: the test was saved so often ...
    notices,    \* ... and its webhook notification started so often
    ignored,    \* jobs of which Update ignored a final report
    skipped,    \* an entry added between two XREADs was never read
    faults, lives

queue == <<status, at, on, starts, deliveries, final>>
store == <<registered, done, abandoned>>
watcher == <<wpc, fresh, from, upto>>
outcome == <<saves, notices, ignored, skipped>>
bounds == <<faults, lives>>
vars == <<queue, results, stray, handler, store, watcher, outcome, bounds>>

Queue == INSTANCE AtLeastOnce WITH Jobs <- Entries

Report == [job : Jobs, kind : {"live", "done", "abandoned"}]
IsFinal(m) == m.kind # "live"

TypeOK ==
    /\ Queue!TypeOK
    /\ results \in Seq(Report)
    /\ stray \in [Workers -> Entries \cup {NoJob}]
    /\ handler \in {"enqueue", "retry", "register", "accepted", "failed"}
    /\ registered \in BOOLEAN /\ fresh \in BOOLEAN /\ skipped \in BOOLEAN
    /\ done \subseteq Jobs /\ abandoned \subseteq Jobs /\ ignored \subseteq Jobs
    /\ wpc \in {"between", "blocked", "handling", "finishing"}
    /\ from \in 0 .. Len(results) /\ upto \in 0 .. Len(results)
    /\ wpc = "handling" => from < upto
    /\ saves \in Nat /\ notices \in Nat /\ faults \in 0 .. MaxFaults /\ lives \in 0 .. MaxLive

Init ==
    /\ Queue!Init
    /\ results = <<>>
    /\ stray = [w \in Workers |-> NoJob]
    /\ handler = "enqueue"
    /\ registered = FALSE /\ done = {} /\ abandoned = {}
    /\ wpc = "blocked" /\ from = 0 /\ upto = 0 \* in an XREAD since before the request
    /\ fresh \in BOOLEAN \* results of other tests may have fixed the cursor before
    /\ saves = 0 /\ notices = 0 /\ ignored = {} /\ skipped = FALSE
    /\ faults = 0 /\ lives = 0

Fault(kind) ==
    /\ kind \in FaultKinds /\ faults < MaxFaults
    /\ faults' = faults + 1

Publish(e, kind) == results' = Append(results, [job |-> SubJob(e), kind |-> kind])

-----------------------------------------------------------------------------
(* The POST handler: one XADD per sub-job, then TestStore.Register. *)

\* The XADD of j reached Redis.
Sent(j) == \E e \in Copies(j) : status[e] # "absent"

\* The handler is at sub-job j, for the first time or with a retry.
Current(j) ==
    /\ \A k \in Jobs : (k < j => Sent(k)) /\ (k > j => ~Sent(k))
    /\ handler = IF Sent(j) THEN "retry" ELSE "enqueue"

\* Redis appends the next entry of j.
Add(e) ==
    /\ Current(SubJob(e))
    /\ \A i \in 1 .. e[2] - 1 : status[<<SubJob(e), i>>] # "absent"
    /\ Queue!Submit(e)

Enqueue(e) ==
    /\ Add(e)
    /\ handler' = IF SubJob(e) = NumJobs THEN "register" ELSE "enqueue"
    /\ UNCHANGED <<results, stray, store, watcher, outcome, bounds>>

\* The entry is there but its reply is lost: the client sends the XADD again.
EnqueueReplyLost(e) ==
    /\ Fault("submit")
    /\ Add(e)
    /\ handler' = "retry"
    /\ UNCHANGED <<results, stray, store, watcher, outcome, lives>>

\* An XADD fails: the request fails, the sub-jobs already queued stay.
EnqueueError ==
    /\ handler = "enqueue"
    /\ Fault("submit")
    /\ handler' = "failed"
    /\ UNCHANGED <<queue, results, stray, store, watcher, outcome, lives>>

\* So does the last retry: the request fails, and its last sub-job is queued too.
RetriesFail ==
    /\ handler = "retry"
    /\ handler' = "failed"
    /\ UNCHANGED <<queue, results, stray, store, watcher, outcome, bounds>>

Register ==
    /\ handler = "register"
    /\ handler' = "accepted"
    /\ registered' = TRUE /\ done' = {} /\ abandoned' = {}
    /\ UNCHANGED <<queue, results, stray, watcher, outcome, bounds>>

-----------------------------------------------------------------------------
(* The workers, as the queue presents them, and what they publish. *)

Take(w, e) ==
    /\ Queue!Start(w, e) \/ Queue!TakePoison(w, e)
    /\ UNCHANGED <<results, stray, handler, store, watcher, outcome, bounds>>

DeliverUnseen(e) ==
    /\ Fault("read")
    /\ Queue!DeliverUnseen(e)
    /\ UNCHANGED <<results, stray, handler, store, watcher, outcome, lives>>

\* The ticker of runLoadTest publishes a live snapshot.
LiveSnapshot(w) ==
    /\ at[w] \in {"run", "lost"} /\ lives < MaxLive
    /\ Publish(on[w], "live")
    /\ lives' = lives + 1
    /\ UNCHANGED <<queue, stray, handler, store, watcher, outcome, faults>>

\* The run ends, or the job is given up, and its final report is published.
\* A live snapshot the ticker computed before may still be under way.
Close(w) ==
    /\ Queue!Close(w, TRUE)
    /\ Publish(on[w], IF at[w] = "giveup" THEN "abandoned" ELSE "done")
    /\ \/ UNCHANGED <<stray, faults>>
       \/ /\ at[w] # "giveup" /\ stray[w] = NoJob
          /\ Fault("stray")
          /\ stray' = [stray EXCEPT ![w] = on[w]]
    /\ UNCHANGED <<handler, store, watcher, outcome, lives>>

CloseUnpublished(w) ==
    /\ Fault("publish")
    /\ Queue!Close(w, FALSE)
    /\ UNCHANGED <<results, stray, handler, store, watcher, outcome, lives>>

StraySnapshot(w) ==
    /\ stray[w] # NoJob
    /\ Publish(stray[w], "live")
    /\ stray' = [stray EXCEPT ![w] = NoJob]
    /\ UNCHANGED <<queue, handler, store, watcher, outcome, bounds>>

Ack(w) ==
    /\ Queue!Ack(w, TRUE)
    /\ UNCHANGED <<results, stray, handler, store, watcher, outcome, bounds>>

AckError(w) ==
    /\ Fault("ack")
    /\ Queue!Ack(w, FALSE)
    /\ UNCHANGED <<results, stray, handler, store, watcher, outcome, lives>>

Lose(w) ==
    /\ Fault("lose")
    /\ Queue!Lose(w)
    /\ UNCHANGED <<results, stray, handler, store, watcher, outcome, lives>>

Regain(w) ==
    /\ Queue!Regain(w)
    /\ UNCHANGED <<results, stray, handler, store, watcher, outcome, bounds>>

Die(w) ==
    /\ Fault("die")
    /\ Queue!Die(w)
    /\ stray' = [stray EXCEPT ![w] = NoJob]
    /\ UNCHANGED <<results, handler, store, watcher, outcome, lives>>

-----------------------------------------------------------------------------
(* The results watcher. *)

\* Mutant of ReadFrom: every XREAD says "$".
ReadFromDollar == Len(results)

ReadFrom == IF fresh THEN Len(results) ELSE from

\* XREAD is issued.  With "$" it returns only what is added from now on.
IssueRead ==
    /\ wpc = "between"
    /\ wpc' = "blocked"
    /\ from' = ReadFrom
    /\ skipped' = (skipped \/ (fresh /\ from < Len(results)))
    /\ UNCHANGED <<queue, results, stray, handler, store, fresh, upto, saves, notices,
                   ignored, bounds>>

ReadTimeout ==
    /\ wpc = "blocked" /\ from = Len(results)
    /\ wpc' = "between"
    /\ UNCHANGED <<queue, results, stray, handler, store, fresh, from, upto, outcome, bounds>>

ReadError ==
    /\ wpc = "blocked"
    /\ Fault("read")
    /\ wpc' = "between"
    /\ UNCHANGED <<queue, results, stray, handler, store, fresh, from, upto, outcome, lives>>

\* Mutant of BatchEnd: the batch is one entry too long.
BatchEndPast == Len(results) + 1

BatchEnd == Len(results)

ReadReturns ==
    /\ wpc = "blocked" /\ from < Len(results)
    /\ wpc' = "handling"
    /\ upto' = BatchEnd
    /\ UNCHANGED <<queue, results, stray, handler, store, fresh, from, outcome, bounds>>

\* Mutant of AllDone: allSubJobsDone with one sub-job left out.
AllDoneButOne(D) == Cardinality(Jobs \ D) <= 1

AllDone(D) == D = Jobs

\* Mutant of Update: the flag of a snapshot is not recorded.
UpdateUnmarked(m) ==
    /\ done' = done
    /\ UNCHANGED abandoned

\* TestStore.Update: the flag of the snapshot replaces the one in the store.
Update(m) ==
    /\ done' = IF m.kind = "done" THEN done \cup {m.job} ELSE done \ {m.job}
    /\ UNCHANGED abandoned

\* Mutant of MarkAbandoned: an abandoned sub-job does not count as done.
MarkAbandonedOnly(m) ==
    /\ abandoned' = abandoned \cup {m.job}
    /\ UNCHANGED done

\* TestStore.MarkAbandoned.
MarkAbandoned(m) ==
    /\ done' = done \cup {m.job}
    /\ abandoned' = abandoned \cup {m.job}

\* Mutant of JustFinished: triggered again by every later message.
JustFinishedAgain == AllDone(done')

\* Update and MarkAbandoned report justFinished.
JustFinished == ~AllDone(done) /\ AllDone(done')

\* The watcher goes on to the next entry of its batch, or to the next XREAD.
NextEntry == wpc' = IF from' = upto THEN "between" ELSE "handling"

HandleKnown ==
    LET m == results[from + 1] IN
    /\ wpc = "handling" /\ registered
    /\ IF m.kind = "abandoned" THEN MarkAbandoned(m) ELSE Update(m)
    /\ fresh' = FALSE /\ from' = from + 1
    /\ IF JustFinished THEN wpc' = "finishing" ELSE NextEntry
    /\ UNCHANGED <<queue, results, stray, handler, registered, upto, outcome, bounds>>

\* A snapshot of a test the store does not know is ignored.
HandleUnknown ==
    LET m == results[from + 1] IN
    /\ wpc = "handling" /\ ~registered
    /\ ignored' = IF IsFinal(m) THEN ignored \cup {m.job} ELSE ignored
    /\ fresh' = FALSE /\ from' = from + 1
    /\ NextEntry
    /\ UNCHANGED <<queue, results, stray, handler, store, upto, saves, notices, skipped, bounds>>

\* onTestFinished: Save (whose error is only logged), then the webhook.
OnTestFinished ==
    /\ wpc = "finishing"
    /\ \/ saves' = saves + 1 /\ UNCHANGED faults
       \/ Fault("save") /\ UNCHANGED saves
    /\ notices' = notices + 1
    /\ UNCHANGED from /\ NextEntry
    /\ UNCHANGED <<queue, results, stray, handler, store, fresh, upto, ignored, skipped, lives>>

\* The coordinator restarts: the TestStore and the cursor are in memory only.
Restart ==
    /\ Fault("restart")
    /\ registered' = FALSE /\ done' = {} /\ abandoned' = {}
    /\ handler' = IF handler = "accepted" THEN handler ELSE "failed"
    /\ wpc' = "between" /\ fresh' = TRUE /\ from' = Len(results)
    /\ UNCHANGED <<queue, results, stray, upto, outcome, lives>>

\* How far the watcher has read the stream: to the end of its batch, if it has one.
Reached == IF wpc \in {"handling", "finishing"} THEN upto ELSE from

\* A manual flush of Redis takes the jobs, and the reports not read yet.  The IDs
\* of later entries are later times, so that the cursor stays good.
Wipe ==
    /\ Fault("wipe")
    /\ Queue!Wipe
    /\ results' = SubSeq(results, 1, Reached)
    /\ UNCHANGED <<stray, handler, store, watcher, outcome, lives>>

-----------------------------------------------------------------------------
Watch ==
    \/ IssueRead \/ ReadTimeout \/ ReadReturns
    \/ HandleKnown \/ HandleUnknown \/ OnTestFinished

Create == (\E e \in Entries : Enqueue(e)) \/ RetriesFail \/ Register

Work(w) ==
    \/ \E e \in Entries : Take(w, e)
    \/ Close(w) \/ Ack(w) \/ StraySnapshot(w)

Next ==
    \/ Create \/ EnqueueError
    \/ \E e \in Entries : EnqueueReplyLost(e) \/ DeliverUnseen(e)
    \/ \E w \in Workers :
         \/ Work(w) \/ LiveSnapshot(w)
         \/ CloseUnpublished(w) \/ AckError(w) \/ Lose(w) \/ Regain(w) \/ Die(w)
    \/ Watch \/ ReadError \/ Restart \/ Wipe

Spec == Init /\ [][Next]_vars

\* The handler, the workers and the watcher keep running; faults never must.
Fairness ==
    /\ WF_vars(Create) /\ WF_vars(Watch)
    /\ \A w \in Workers : WF_vars(Work(w))

FairSpec == Spec /\ Fairness

-----------------------------------------------------------------------------
FinalReported(j) == \E i \in DOMAIN results : results[i].job = j /\ IsFinal(results[i])

(***************************************************************************)
(* A test is saved and its owner notified only after every one of its      *)
(* sub-jobs was reported done or abandoned by a worker, whatever was lost, *)
(* repeated, reordered or run twice on the way (resultwatcher.go:49-74),   *)
(* and never when its request failed halfway, although the sub-jobs that   *)
(* were queued by then do run and report (handlers.go:373-377).            *)
(***************************************************************************)
FinishedMeansReported ==
    notices > 0 \/ saves > 0 =>
        handler = "accepted" /\ \A j \in Jobs : FinalReported(j)

(***************************************************************************)
(* The watcher finishes a test again only if a live snapshot of a sub-job  *)
(* came after its final one: no other loss, repetition or interleaving     *)
(* makes allSubJobsDone true twice (teststore.go:182-191, 211-217).        *)
(***************************************************************************)
LiveAfterFinal ==
    \E i, k \in DOMAIN results :
        i < k /\ results[i].job = results[k].job /\ IsFinal(results[i]) /\ ~IsFinal(results[k])

FinishedTwiceNeedsLateLive == notices > 1 => LiveAfterFinal

\* The last word the watcher has read on j is a final report, at i.
ClosedBy(j, i) ==
    /\ results[i].job = j /\ IsFinal(results[i])
    /\ \A k \in 1 .. from : k > i /\ results[k].job = j => IsFinal(results[k])

\* The sub-jobs the watcher has read a final report of, and no live one after it.
ReadAsFinal == {j \in Jobs : \E i \in 1 .. from : ClosedBy(j, i)}

(***************************************************************************)
(* "Continuously reading sentry:results and routing each snapshot into     *)
(* store by test_id/job_id" (resultwatcher.go:15-16): batches, XREADs that *)
(* fail or time out, late live snapshots, jobs queued or run twice and     *)
(* flushes leave a registered test with exactly the marks of the stream up *)
(* to the cursor, none lost, none older than the last word of its sub-job  *)
(* (resultwatcher.go:39-74, teststore.go:162-227).  Two things come        *)
(* between: a final report before Register, and an entry added between two *)
(* XREADs that both say "$" (resultwatcher.go:29-37), which is passed over.*)
(***************************************************************************)
MarksFollowReports == registered /\ ignored = {} /\ ~skipped => done = ReadAsFinal

\* Nobody will report j any more ...
Over(j) == \A e \in Copies(j) : status[e] # "queued" /\ \A w \in Workers : on[w] # e

\* ... and the last word on j is not a final one: its final report failed, went
\* with a flush, or was followed by the late live snapshot of a ticker.
LeftOpen(j) ==
    \A i \in DOMAIN results : results[i].job = j /\ IsFinal(results[i]) =>
        \E k \in DOMAIN results : k > i /\ results[k].job = j /\ ~IsFinal(results[k])

\* Why a test may never finish.
Stranded ==
    \/ ~registered      \* the coordinator restarted
    \/ ignored # {}     \* a final report came before Register
    \/ skipped          \* or between two XREADs that said "$"
    \/ \E j \in Jobs : Over(j) /\ LeftOpen(j)

(***************************************************************************)
(* An accepted test finishes: its sub-jobs are run again when workers die, *)
(* given up in the end, and the watcher sees their last report.  When it   *)
(* does not, one of the causes Stranded names is there; no other fault or  *)
(* interleaving of handler, workers and watcher leaves a test open         *)
(* (handlers.go:373-379, resultwatcher.go:28-76, reclaim.go:12-34).        *)
(***************************************************************************)
EveryTestFinishes == handler = "accepted" ~> notices > 0 \/ Stranded

(***************************************************************************)
(* onTestFinished is "everything that happens once, exactly when a test's  *)
(* last sub-job reports done" (resultwatcher.go:78).  A worker that dies   *)
(* between its final report and the XACK has its job run again, and the    *)
(* live snapshots of the second run take `done' back.                      *)
(***************************************************************************)
FinishedOnce == notices <= 1
=============================================================================
