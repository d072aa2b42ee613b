------------------------------ MODULE JobQueue ------------------------------
(***************************************************************************)
(* The jobs stream `sentry:jobs', its consumer group, and the main loop of *)
(* the workers that consume it (worker/main.go, worker/reclaim.go).        *)
(*                                                                         *)
(* A job is an entry of the stream.  Redis keeps, for every entry that was *)
(* delivered and not acknowledged, its owner, the time since its last      *)
(* delivery (`idle') and how many times it was delivered.  A worker first  *)
(* looks for a stale entry to reclaim (XPENDING, then one XCLAIM per       *)
(* candidate), else reads a new one (XREADGROUP), runs it while renewing   *)
(* its lease, reports, and acknowledges.  Time passes by Tick.  Workers    *)
(* crash and restart, lose and regain their link to Redis, and find the    *)
(* stream and its group gone after a manual flush.                         *)
(***************************************************************************)
EXTENDS Naturals, FiniteSets

CONSTANTS
    Workers,            \* consumers of the group
    NoWorker,           \* the owner of an entry never delivered
    NumJobs,            \* jobs are named by their rank in the stream
    Malformed,          \* the jobs parseJob or validate rejects
    LeaseRenewInterval, \* period of the lease renewal ticker
    RenewLatency,       \* longest delay of a renewal on a working link
    StaleJobAfter,      \* idle time from which an entry is reclaimable
    ClaimLatency,       \* longest time from an XPENDING to the last XCLAIM
    MaxDeliveries,      \* an entry delivered this often is poison
    PendingPage,        \* entries one XPENDING returns
    MaxCrashes,         \* bound: crashes in a behaviour
    MaxCuts,            \* bound: lost links and lost replies in a behaviour
    MaxWipes            \* bound: manual flushes of Redis in a behaviour

Jobs == 1 .. NumJobs

ASSUME JobQueueAssumption ==
    /\ NoWorker \notin Workers
    /\ NumJobs \in Nat
    /\ Malformed \subseteq Jobs
    /\ LeaseRenewInterval \in Nat /\ RenewLatency \in Nat
    /\ StaleJobAfter \in Nat /\ ClaimLatency \in Nat
    /\ LeaseRenewInterval + RenewLatency < StaleJobAfter
    /\ ClaimLatency < StaleJobAfter
    /\ MaxDeliveries \in Nat \ {0} /\ PendingPage \in Nat \ {0}
    /\ MaxCrashes \in Nat /\ MaxCuts \in Nat /\ MaxWipes \in Nat

NoJob == 0
NothingSeen == [j \in Jobs |-> 0]

VARIABLES
    entry,      \* entry[j]: where j stands in the stream and its group
    owner,      \* owner[j]: the consumer j was last delivered to
    idle,       \* idle[j]: time since j's last delivery or renewal
    deliveries, \* deliveries[j]: the group's delivery counter
    group,      \* the consumer group exists
    pc,         \* pc[w]: where w is in the main loop
    job,        \* job[w]: the job w runs, abandons or acknowledges
    seen,       \* seen[w][j]: delivery count w's XPENDING returned for j, 0 when
                \* j is not, or no longer, a candidate
    since,      \* since[w]: time since w's XPENDING, or its last renewal
    online,     \* online[w]: w's link to Redis works
    late,       \* workers whose link was cut since their last renewal
    runs,       \* runs[j]: times a worker started to run j
    reported,   \* reported[j]: final reports of j on the results stream
    unpublished,\* unpublished[j]: final reports of j whose XADD failed
    crashes, cuts, wipes

redis == <<entry, owner, idle, deliveries, group>>
history == <<runs, reported, unpublished>>
faults == <<crashes, cuts, wipes>>
vars == <<redis, pc, job, seen, since, online, late, history, faults>>

TypeOK ==
    /\ entry \in [Jobs -> {"absent", "new", "pending", "acked", "lost"}]
    /\ owner \in [Jobs -> Workers \cup {NoWorker}]
    /\ idle \in [Jobs -> 0 .. StaleJobAfter]
    /\ deliveries \in [Jobs -> Nat]
    /\ group \in BOOLEAN
    /\ pc \in [Workers -> {"check", "claim", "read", "regroup", "run", "abandon", "ack", "down"}]
    /\ job \in [Workers -> Jobs \cup {NoJob}]
    /\ seen \in [Workers -> [Jobs -> Nat]]
    /\ since \in [Workers -> 0 .. StaleJobAfter]
    /\ online \in [Workers -> BOOLEAN]
    /\ late \subseteq Workers
    /\ runs \in [Jobs -> Nat]
    /\ reported \in [Jobs -> SUBSET {"done", "abandoned"}]
    /\ unpublished \in [Jobs -> SUBSET {"done", "abandoned"}]
    /\ crashes \in Nat /\ cuts \in Nat /\ wipes \in Nat

Init ==
    /\ entry = [j \in Jobs |-> "absent"]
    /\ owner = [j \in Jobs |-> NoWorker]
    /\ idle = [j \in Jobs |-> 0]
    /\ deliveries = [j \in Jobs |-> 0]
    /\ group = TRUE
    /\ pc = [w \in Workers |-> "check"]
    /\ job = [w \in Workers |-> NoJob]
    /\ seen = [w \in Workers |-> NothingSeen]
    /\ since = [w \in Workers |-> 0]
    /\ online = [w \in Workers |-> TRUE]
    /\ late = {}
    /\ runs = [j \in Jobs |-> 0]
    /\ reported = [j \in Jobs |-> {}]
    /\ unpublished = [j \in Jobs |-> {}]
    /\ crashes = 0 /\ cuts = 0 /\ wipes = 0

-----------------------------------------------------------------------------
\* The first entry of the stream no consumer of the group was given yet.
NextNew(j) == group /\ entry[j] = "new" /\ \A k \in Jobs : entry[k] = "new" => j <= k

\* An XPENDING with IDLE StaleJobAfter returns j.
Stale(j) == entry[j] = "pending" /\ idle[j] >= StaleJobAfter

\* Mutant of Claimable: XCLAIM without its min-idle check.
ClaimableAtAnyAge(j) == entry[j] = "pending"

\* An XCLAIM with min-idle StaleJobAfter takes j.
Claimable(j) == entry[j] = "pending" /\ idle[j] >= StaleJobAfter

\* Mutant of Exhausted: one delivery too many.
ExhaustedLate(retries) == retries > MaxDeliveries

\* The delivery count XPENDING returned makes the entry poison.
Exhausted(retries) == retries >= MaxDeliveries

\* Mutant of StalePage: poison entries are left alone instead of abandoned.
StalePageWithoutPoison == {j \in Jobs : Stale(j) /\ ~Exhausted(deliveries[j])}

\* The page one XPENDING with IDLE and COUNT returns.
StalePage ==
    {j \in Jobs : Stale(j) /\ Cardinality({k \in 1 .. (j - 1) : Stale(k)}) < PendingPage}

\* Mutant of Deliver: acknowledged when read, before it is run.
DeliverAcked(j, w) ==
    /\ entry' = [entry EXCEPT ![j] = "acked"]
    /\ owner' = [owner EXCEPT ![j] = w]
    /\ idle' = [idle EXCEPT ![j] = 0]
    /\ deliveries' = [deliveries EXCEPT ![j] = @ + 1]

\* Redis delivers j to w: owner and idle time are reset, the counter grows.
Deliver(j, w) ==
    /\ entry' = [entry EXCEPT ![j] = "pending"]
    /\ owner' = [owner EXCEPT ![j] = w]
    /\ idle' = [idle EXCEPT ![j] = 0]
    /\ deliveries' = [deliveries EXCEPT ![j] = @ + 1]

\* Worker w starts to run j; holdLease starts its renewal ticker.
StartRun(w, j) ==
    /\ pc' = [pc EXCEPT ![w] = "run"]
    /\ job' = [job EXCEPT ![w] = j]
    /\ since' = [since EXCEPT ![w] = 0]
    /\ late' = late \ {w}
    /\ runs' = [runs EXCEPT ![j] = @ + 1]

GoTo(w, label) == pc' = [pc EXCEPT ![w] = label]

-----------------------------------------------------------------------------
\* The coordinator appends the next job to the stream.
Enqueue(j) ==
    /\ entry[j] = "absent"
    /\ \A k \in 1 .. (j - 1) : entry[k] # "absent"
    /\ entry' = [entry EXCEPT ![j] = "new"]
    /\ UNCHANGED <<owner, idle, deliveries, group, pc, job, seen, since, online, late,
                   history, faults>>

\* XPENDING.  A failed one is logged, and the loop goes on to XREADGROUP.
CheckStale(w) ==
    /\ pc[w] = "check"
    /\ LET page == IF online[w] THEN StalePage ELSE {} IN
         /\ seen' = [seen EXCEPT ![w] = 
              [j \in Jobs |-> IF j \in page THEN deliveries[j] ELSE 0]]
         /\ GoTo(w, IF page = {} THEN "read" ELSE "claim")
    /\ since' = [since EXCEPT ![w] = 0]
    /\ UNCHANGED <<redis, job, online, late, history, faults>>

\* The first candidate not tried yet; claimStale tries them in stream order.
Candidate(w, j) == seen[w][j] > 0 /\ \A k \in Jobs : seen[w][k] > 0 => j <= k

\* The loop goes on to the next candidate, if there is one.
Skip(w, j) ==
    /\ seen' = [seen EXCEPT ![w][j] = 0]
    /\ GoTo(w, IF \A k \in Jobs \ {j} : seen[w][k] = 0 THEN "read" ELSE "claim")

\* XCLAIM returns the entry: run it, or abandon it when the count XPENDING
\* returned (not the one XCLAIM has just made) says it is poison.
Claim(w, j) ==
    /\ pc[w] = "claim" /\ online[w]
    /\ Candidate(w, j) /\ Claimable(j)
    /\ Deliver(j, w)
    /\ seen' = [seen EXCEPT ![w] = NothingSeen]
    /\ \/ /\ ~Exhausted(seen[w][j])
          /\ StartRun(w, j)
       \/ /\ Exhausted(seen[w][j])
          /\ GoTo(w, "abandon")
          /\ job' = [job EXCEPT ![w] = j]
          /\ since' = [since EXCEPT ![w] = 0]
          /\ UNCHANGED <<late, runs>>
    /\ UNCHANGED <<group, online, reported, unpublished, faults>>

\* XCLAIM returns nothing: another worker claimed it, or it was acknowledged.
ClaimEmpty(w, j) ==
    /\ pc[w] = "claim" /\ online[w] /\ group
    /\ Candidate(w, j) /\ ~Claimable(j)
    /\ Skip(w, j)
    /\ UNCHANGED <<redis, job, since, online, late, history, faults>>

\* XCLAIM fails, without a link or without a group: claimStale returns the
\* error and the loop goes on to read.
ClaimError(w) ==
    /\ pc[w] = "claim"
    /\ ~online[w] \/ ~group
    /\ seen' = [seen EXCEPT ![w] = NothingSeen]
    /\ GoTo(w, "read")
    /\ UNCHANGED <<redis, job, since, online, late, history, faults>>

\* XCLAIM took effect but its reply is lost: the entry was delivered to w and
\* w does not know.  The client's own retry finds nothing to claim, or fails.
ClaimReplyLost(w, j) ==
    /\ pc[w] = "claim" /\ online[w] /\ cuts < MaxCuts
    /\ Candidate(w, j) /\ Claimable(j)
    /\ Deliver(j, w)
    /\ \/ Skip(w, j)
       \/ seen' = [seen EXCEPT ![w] = NothingSeen] /\ GoTo(w, "read")
    /\ cuts' = cuts + 1
    /\ UNCHANGED <<group, job, since, online, late, history, crashes, wipes>>

\* XREADGROUP delivers the next new entry.
ReadNew(w, j) ==
    /\ pc[w] = "read" /\ online[w]
    /\ NextNew(j)
    /\ Deliver(j, w)
    /\ StartRun(w, j)
    /\ UNCHANGED <<group, seen, online, reported, unpublished, faults>>

\* XREADGROUP times out empty, or fails and the loop sleeps.
ReadNothing(w) ==
    /\ pc[w] = "read"
    /\ ~online[w] \/ (group /\ \A j \in Jobs : entry[j] # "new")
    /\ GoTo(w, "check")
    /\ UNCHANGED <<redis, job, seen, since, online, late, history, faults>>

\* XREADGROUP answers NOGROUP.
ReadNoGroup(w) ==
    /\ pc[w] = "read" /\ online[w] /\ ~group
    /\ GoTo(w, "regroup")
    /\ UNCHANGED <<redis, job, seen, since, online, late, history, faults>>

\* Mutant of Regroup: the error is logged like any other.
RegroupNever(w) ==
    /\ pc[w] = "regroup"
    /\ GoTo(w, "check")
    /\ UNCHANGED <<redis, job, seen, since, online, late, history, faults>>

\* The group is created from the start of the stream, the stream with it if need
\* be, unless another worker was faster (BUSYGROUP) or the call fails.
Regroup(w) ==
    /\ pc[w] = "regroup"
    /\ group' = (group \/ online[w])
    /\ GoTo(w, "check")
    /\ UNCHANGED <<entry, owner, idle, deliveries, job, seen, since, online, late, history,
                   faults>>

\* XREADGROUP took effect but its reply is lost; the client may retry it.
ReadReplyLost(w, j) ==
    /\ pc[w] = "read" /\ online[w] /\ cuts < MaxCuts
    /\ NextNew(j)
    /\ Deliver(j, w)
    /\ \E label \in {"check", "read"} : GoTo(w, label)
    /\ cuts' = cuts + 1
    /\ UNCHANGED <<group, job, seen, since, online, late, history, crashes, wipes>>

\* The ticker of holdLease: XCLAIM JUSTID with min-idle 0.  It checks neither
\* the owner nor the age of the entry, and does nothing once it is acknowledged
\* or lost.
Renew(w) ==
    /\ pc[w] = "run" /\ online[w]
    /\ since[w] >= LeaseRenewInterval
    /\ since' = [since EXCEPT ![w] = 0]
    /\ late' = late \ {w}
    /\ \/ /\ entry[job[w]] = "pending"
          /\ owner' = [owner EXCEPT ![job[w]] = w]
          /\ idle' = [idle EXCEPT ![job[w]] = 0]
       \/ /\ entry[job[w]] # "pending"
          /\ UNCHANGED <<owner, idle>>
    /\ UNCHANGED <<entry, deliveries, group, pc, job, seen, online, history, faults>>

\* Mutant of Report: an error while reporting is not even noticed.
ReportNowhere(w, kind) == UNCHANGED <<reported, unpublished>>

\* The XADD of a final report: an error is only logged.
Report(w, kind) ==
    IF online[w]
    THEN /\ reported' = [reported EXCEPT ![job[w]] = @ \cup {kind}]
         /\ UNCHANGED unpublished
    ELSE /\ unpublished' = [unpublished EXCEPT ![job[w]] = @ \cup {kind}]
         /\ UNCHANGED reported

\* runLoadTest ends, its last snapshot is published and the lease is dropped.
FinishRun(w) ==
    /\ pc[w] = "run" /\ job[w] \notin Malformed
    /\ Report(w, "done")
    /\ GoTo(w, "ack")
    /\ since' = [since EXCEPT ![w] = 0]
    /\ late' = late \ {w}
    /\ UNCHANGED <<redis, job, seen, online, runs, faults>>

\* handleJob returns early on a job it cannot parse or does not accept.
Reject(w) ==
    /\ pc[w] = "run" /\ job[w] \in Malformed
    /\ GoTo(w, "ack")
    /\ since' = [since EXCEPT ![w] = 0]
    /\ late' = late \ {w}
    /\ UNCHANGED <<redis, job, seen, online, history, faults>>

\* abandonJob.
Abandon(w) ==
    /\ pc[w] = "abandon"
    /\ Report(w, "abandoned")
    /\ GoTo(w, "ack")
    /\ UNCHANGED <<redis, job, seen, since, online, late, runs, faults>>

\* XACK, whoever owns the entry; a failed one is logged and the entry stays.
Ack(w) ==
    /\ pc[w] = "ack"
    /\ entry' = IF online[w] /\ entry[job[w]] = "pending"
                THEN [entry EXCEPT ![job[w]] = "acked"] ELSE entry
    /\ job' = [job EXCEPT ![w] = NoJob]
    /\ GoTo(w, "check")
    /\ UNCHANGED <<owner, idle, deliveries, group, seen, since, online, late, history,
                   faults>>

\* The process dies, or a signal cancels its context: every later call to
\* Redis of this incarnation fails.
Crash(w) ==
    /\ pc[w] # "down" /\ crashes < MaxCrashes
    /\ GoTo(w, "down")
    /\ job' = [job EXCEPT ![w] = NoJob]
    /\ seen' = [seen EXCEPT ![w] = NothingSeen]
    /\ since' = [since EXCEPT ![w] = 0]
    /\ late' = late \ {w}
    /\ crashes' = crashes + 1
    /\ UNCHANGED <<redis, online, history, cuts, wipes>>

\* A restart under the same WORKER_ID; main exits unless Redis answers, and
\* creates the group if there is none.
Restart(w) ==
    /\ pc[w] = "down" /\ online[w]
    /\ group' = TRUE
    /\ GoTo(w, "check")
    /\ UNCHANGED <<entry, owner, idle, deliveries, job, seen, since, online, late, history,
                   faults>>

CutLink(w) ==
    /\ online[w] /\ cuts < MaxCuts
    /\ online' = [online EXCEPT ![w] = FALSE]
    /\ late' = IF pc[w] = "run" THEN late \cup {w} ELSE late
    /\ cuts' = cuts + 1
    /\ UNCHANGED <<redis, pc, job, seen, since, history, crashes, wipes>>

HealLink(w) ==
    /\ ~online[w]
    /\ online' = [online EXCEPT ![w] = TRUE]
    /\ UNCHANGED <<redis, pc, job, seen, since, late, history, faults>>

\* A manual flush of Redis: the stream goes with its entries and its group.
Wipe ==
    /\ wipes < MaxWipes
    /\ entry' = [j \in Jobs |-> IF entry[j] \in {"new", "pending"} THEN "lost" ELSE entry[j]]
    /\ owner' = [j \in Jobs |-> NoWorker] /\ idle' = [j \in Jobs |-> 0]
    /\ group' = FALSE
    /\ wipes' = wipes + 1
    /\ UNCHANGED <<deliveries, pc, job, seen, since, online, late, history, crashes, cuts>>

\* Every age of StaleJobAfter or more is the same.
Older(age) == IF age < StaleJobAfter THEN age + 1 ELSE age

\* One unit of time.  A renewal on a link that was never cut is not later than
\* RenewLatency, and a pass of claimStale not longer than ClaimLatency.
Tick ==
    /\ \A w \in Workers :
         /\ pc[w] = "run" /\ w \notin late => since[w] < LeaseRenewInterval + RenewLatency
         /\ pc[w] = "claim" => since[w] < ClaimLatency
    /\ idle' = [j \in Jobs |-> IF entry[j] = "pending" THEN Older(idle[j]) ELSE idle[j]]
    /\ since' = [w \in Workers |-> IF pc[w] \in {"run", "claim"} THEN Older(since[w]) ELSE since[w]]
    /\ <<idle', since'>> # <<idle, since>>
    /\ UNCHANGED <<entry, owner, deliveries, group, pc, job, seen, online, late, history,
                   faults>>

-----------------------------------------------------------------------------
Step(w) ==
    \/ CheckStale(w)
    \/ \E j \in Jobs : Claim(w, j) \/ ClaimEmpty(w, j) \/ ReadNew(w, j)
    \/ ClaimError(w) \/ ReadNothing(w) \/ ReadNoGroup(w) \/ Regroup(w)
    \/ Renew(w) \/ FinishRun(w) \/ Reject(w) \/ Abandon(w) \/ Ack(w)
    \/ Restart(w)

Fault(w) ==
    \/ \E j \in Jobs : ClaimReplyLost(w, j) \/ ReadReplyLost(w, j)
    \/ Crash(w) \/ CutLink(w)

Next ==
    \/ Tick \/ Wipe
    \/ \E j \in Jobs : Enqueue(j)
    \/ \E w \in Workers : Step(w) \/ Fault(w) \/ HealLink(w)

Spec == Init /\ [][Next]_vars

\* Every worker keeps being scheduled, runs end (a job has a duration, a bad one
\* is rejected), crashed workers are restarted and cut links come back; crashes,
\* cuts and flushes never must.
Fairness ==
    /\ WF_vars(Tick)
    /\ \A j \in Jobs : WF_vars(Enqueue(j))
    /\ \A w \in Workers :
         WF_vars(Step(w)) /\ WF_vars(FinishRun(w) \/ Reject(w)) /\ WF_vars(HealLink(w))

FairSpec == Spec /\ Fairness

-----------------------------------------------------------------------------
Runs(w, j) == pc[w] = "run" /\ job[w] = j

\* Something became of a run of j, if only a log line.
Accounted(j) == reported[j] # {} \/ unpublished[j] # {} \/ j \in Malformed

(***************************************************************************)
(* A job is delivered again only when every worker still running it lost   *)
(* its link since its last renewal: "a healthy worker's job therefore      *)
(* never looks idle, no matter how long the test runs" (reclaim.go:22).    *)
(***************************************************************************)
NoHealthyRunIsStolen ==
    [][\A j \in Jobs : deliveries'[j] # deliveries[j] =>
          \A w \in Workers : Runs(w, j) => w \in late]_vars

(***************************************************************************)
(* A job is started at most MaxDeliveries times, although the count that   *)
(* decides is read by XPENDING and used after a later XCLAIM               *)
(* (reclaim.go:101-130).                                                   *)
(***************************************************************************)
RunsBounded == \A j \in Jobs : runs[j] <= MaxDeliveries

(***************************************************************************)
(* An acknowledged job was reported done or abandoned, or the XADD of such *)
(* a report failed and was only logged, or the worker rejected the job     *)
(* (main.go:134-137, 187-195; reclaim.go:152).                             *)
(***************************************************************************)
AckedIsAccounted == \A j \in Jobs : entry[j] = "acked" => Accounted(j)

(***************************************************************************)
(* "A worker only acks once the job is finished" (reclaim.go:12): as long  *)
(* as no link was cut, crashes alone never make an acknowledged job        *)
(* unreported, because the report is published before the acknowledgement. *)
(***************************************************************************)
AckedIsReported ==
    cuts = 0 => \A j \in Jobs : entry[j] = "acked" => reported[j] # {} \/ j \in Malformed

(***************************************************************************)
(* Two workers never run the same job as long as no link was cut, whatever *)
(* crashes.  A worker cut off for long enough runs on while another one    *)
(* reclaims its job (reclaim.go:17-24).                                    *)
(***************************************************************************)
SoleRunner ==
    cuts = 0 =>
        \A v, w \in Workers : \A j \in Jobs : Runs(v, j) /\ Runs(w, j) => v = w

(***************************************************************************)
(* Every enqueued job is acknowledged in the end, through crashes of every *)
(* worker that runs it (the promise of the header of reclaim.go), unless a *)
(* flush takes it away; and jobs queued after a flush are no exception,    *)
(* because a worker that is told NOGROUP recreates the group, and from the *)
(* start of the stream (main.go:116-125).                                  *)
(***************************************************************************)
EveryJobIsAcked == \A j \in Jobs : entry[j] = "new" ~> entry[j] \in {"acked", "lost"}

-----------------------------------------------------------------------------
(***************************************************************************)
(* The queue the rest of the system sees (AtLeastOnce): a worker that runs *)
(* on a cut link is lost, one that polls is idle, entries are queued until *)
(* they are acknowledged.                                                  *)
(***************************************************************************)
Status(j) == IF entry[j] \in {"new", "pending"} THEN "queued" ELSE entry[j]

At(w) ==
    CASE pc[w] = "run" /\ w \notin late -> "run"
      [] pc[w] = "run" /\ w \in late -> "lost"
      [] pc[w] = "abandon" -> "giveup"
      [] pc[w] = "ack" -> "ack"
      [] OTHER -> "idle"

Queue == INSTANCE AtLeastOnce WITH
    status <- [j \in Jobs |-> Status(j)],
    at <- [w \in Workers |-> At(w)],
    on <- job,
    starts <- runs,
    final <- {j \in Jobs : reported[j] # {}}

(***************************************************************************)
(* The Redis protocol implements the queue: every step of a worker, of the *)
(* coordinator or of the network is a step of AtLeastOnce or a stutter.    *)
(***************************************************************************)
ImplementsQueue == Queue!Spec
=============================================================================
