----------------------------- MODULE Admission -----------------------------
(***************************************************************************)
(* POST /tests (handleCreateTest, coordinator/handlers.go:295-387): several *)
(* requests are handled at the same time, each in the steps between which  *)
(* another one, or the fleet of workers, may move.  A request passes the   *)
(* cooldown, the validation and the capacity check, is split into sub-jobs *)
(* that are queued one by one, and is registered, which stamps the         *)
(* owner's cooldown clock.  The fleet it is split for is the one of Fleet. *)
(***************************************************************************)
EXTENDS Fleet, Integers, FiniteSetsExt

CONSTANTS
    Posts,              \* the requests, each handled once
    Requests,           \* what a request may say
    Owners, Hosts,
    Allowlist,          \* hosts anybody may target
    Verified,           \* pairs <<host, owner>> of verified domains
    TestCooldown,
    MaxVUsPerTest, MaxDurationSeconds, MaxFanout,
    WorkerMaxVUs, WorkerMaxDuration, \* the worker's own caps
    MaxRestarts         \* bound: restarts of the coordinator in a behaviour

Patterns == {"steady", "ramp"}

ASSUME AdmissionAssumption ==
    /\ Requests \subseteq [owner : Owners, host : Hosts, vus : Int, seconds : Int,
                           pattern : Patterns \cup {"other"}, workers : Int]
    /\ Allowlist \subseteq Hosts /\ Verified \subseteq Hosts \X Owners
    /\ TestCooldown \in Nat /\ MaxRestarts \in Nat
    /\ MaxVUsPerTest \in Nat /\ MaxDurationSeconds \in Nat /\ MaxFanout \in Nat \ {0}
    /\ MaxVUsPerTest <= WorkerMaxVUs /\ WorkerMaxVUs \in Nat
    /\ MaxDurationSeconds <= WorkerMaxDuration /\ WorkerMaxDuration \in Nat

VARIABLES
    at,         \* at[p]: the step the handler of p is at, or its outcome
    req,        \* req[p]: the body of p
    fanout,     \* fanout[p]: sub-jobs p is split into
    sent,       \* sent[p]: sub-jobs of p queued so far
    jobs,       \* the sub-jobs on the jobs stream
    last,       \* last[o]: time since TestStore.lastSubmitted[o], TestCooldown when clear
    quiet,      \* quiet[o]: time since o's last test was registered, whoever forgot it
    spacing,    \* spacing[p]: quiet[o] when p was registered
    overtaken,  \* requests whose owner registered another test after their cooldown check
    restarts

store == <<last, quiet, spacing, overtaken>>
vars == <<fleet, at, req, fanout, sent, jobs, store, restarts>>

Outcomes == {"accepted", "rejected", "failed"}
InFlight(p) == at[p] \in {"validate", "capacity", "enqueue", "register"}
Job == [test : Posts, part : Nat, vus : Int, seconds : Int, pattern : Patterns \cup {"other"}]

TypeOK ==
    /\ FleetTypeOK
    /\ at \in [Posts -> {"cooldown", "validate", "capacity", "enqueue", "register"} \cup Outcomes]
    /\ req \in [Posts -> Requests]
    /\ fanout \in [Posts -> Int] /\ sent \in [Posts -> Nat]
    /\ jobs \subseteq Job
    /\ last \in [Owners -> 0 .. TestCooldown] /\ quiet \in [Owners -> 0 .. TestCooldown]
    /\ spacing \in [Posts -> 0 .. TestCooldown]
    /\ overtaken \subseteq Posts
    /\ restarts \in 0 .. MaxRestarts

Init ==
    /\ FleetInit
    /\ at = [p \in Posts |-> "cooldown"]
    /\ req \in [Posts -> Requests]
    /\ fanout = [p \in Posts |-> 0] /\ sent = [p \in Posts |-> 0]
    /\ jobs = {}
    /\ last = [o \in Owners |-> TestCooldown] /\ quiet = [o \in Owners |-> TestCooldown]
    /\ spacing = [p \in Posts |-> TestCooldown]
    /\ overtaken = {} /\ restarts = 0

GoTo(p, step) == at' = [at EXCEPT ![p] = step]

-----------------------------------------------------------------------------
\* Mutant of Cooling: the remaining time is compared the wrong way round.
CoolingNot(o) == last[o] > TestCooldown

\* CooldownRemaining is positive.
Cooling(o) == last[o] < TestCooldown

CheckCooldown(p) ==
    /\ at[p] = "cooldown"
    /\ GoTo(p, IF Cooling(req[p].owner) THEN "rejected" ELSE "validate")
    /\ UNCHANGED <<fleet, req, fanout, sent, jobs, store, restarts>>

Authorized(r) == r.host \in Allowlist \/ <<r.host, r.owner>> \in Verified

Acceptable(r) ==
    /\ Authorized(r)
    /\ r.vus > 0 /\ r.vus <= MaxVUsPerTest
    /\ r.seconds > 0 /\ r.seconds <= MaxDurationSeconds
    /\ r.pattern \in Patterns

Lesser(a, b) == IF a < b THEN a ELSE b

\* Mutant of Clamped: more sub-jobs than virtual users.
ClampedLoosely(r) == IF r.workers <= 0 THEN 1 ELSE Lesser(r.workers, MaxFanout)

\* worker_count, clamped to 1 .. MaxFanout and to the virtual users.
Clamped(r) == IF r.workers <= 0 THEN 1 ELSE Lesser(Lesser(r.workers, MaxFanout), r.vus)

Validate(p) ==
    /\ at[p] = "validate"
    /\ \/ /\ ~Acceptable(req[p])
          /\ GoTo(p, "rejected") /\ UNCHANGED fanout
       \/ /\ Acceptable(req[p])
          /\ GoTo(p, "capacity") /\ fanout' = [fanout EXCEPT ![p] = Clamped(req[p])]
    /\ UNCHANGED <<fleet, req, sent, jobs, store, restarts>>

\* Mutant of Fitted: the number of live workers is only warned about.
FittedNot(n, live) == n

Fitted(n, live) == Lesser(n, live)

\* CountLiveWorkers: no worker, no test; few workers, few sub-jobs.
CheckCapacity(p) ==
    LET live == Cardinality(Registered) IN
    /\ at[p] = "capacity"
    /\ \/ live = 0 /\ GoTo(p, "rejected") /\ UNCHANGED fanout
       \/ live > 0 /\ GoTo(p, "enqueue") /\ fanout' = [fanout EXCEPT ![p] = Fitted(@, live)]
    /\ UNCHANGED <<fleet, req, sent, jobs, store, restarts>>

CapacityError(p) ==
    /\ at[p] = "capacity"
    /\ GoTo(p, "failed")
    /\ UNCHANGED <<fleet, req, fanout, sent, jobs, store, restarts>>

\* Mutant of Share: the remainder is left out.
ShareWithoutRest(total, n, i) == total \div n

\* splitVUs: the virtual users of the sub-job with index i of n.
Share(total, n, i) == (total \div n) + (IF i < total % n THEN 1 ELSE 0)

\* The next sub-job of p reaches the stream.
Add(p) ==
    /\ jobs' = jobs \cup
         {[test |-> p, part |-> sent[p], vus |-> Share(req[p].vus, fanout[p], sent[p]),
           seconds |-> req[p].seconds, pattern |-> req[p].pattern]}
    /\ sent' = [sent EXCEPT ![p] = @ + 1]

(***************************************************************************)
(* One XADD.  When its reply is lost go-redis sends it again, which queues *)
(* the same sub-job twice: jobs, the set of sub-jobs, is the same.  What   *)
(* the second entry does to the test is in TestRun.                        *)
(***************************************************************************)
Enqueue(p) ==
    /\ at[p] = "enqueue"
    /\ Add(p)
    /\ GoTo(p, IF sent'[p] = fanout[p] THEN "register" ELSE "enqueue")
    /\ UNCHANGED <<fleet, req, fanout, store, restarts>>

\* An XADD fails for the caller, before Redis ran it or after; the request fails with it,
\* what was queued stays.
EnqueueError(p) ==
    /\ at[p] = "enqueue"
    /\ GoTo(p, "failed")
    /\ Add(p) \/ UNCHANGED <<jobs, sent>>
    /\ UNCHANGED <<fleet, req, fanout, store, restarts>>

\* TestStore.Register, and the answer 202.  It reads the clock just before it takes the lock
\* (teststore.go:122), which is one step here.
Register(p) ==
    LET o == req[p].owner IN
    /\ at[p] = "register"
    /\ GoTo(p, "accepted")
    /\ last' = [last EXCEPT ![o] = 0]
    /\ spacing' = [spacing EXCEPT ![p] = quiet[o]]
    /\ quiet' = [quiet EXCEPT ![o] = 0]
    /\ overtaken' = overtaken \cup {q \in Posts \ {p} : InFlight(q) /\ req[q].owner = o}
    /\ UNCHANGED <<fleet, req, fanout, sent, jobs, restarts>>

\* The coordinator restarts: lastSubmitted is in memory, requests break off.
Restart ==
    /\ restarts < MaxRestarts
    /\ restarts' = restarts + 1
    /\ last' = [o \in Owners |-> TestCooldown]
    /\ at' = [p \in Posts |-> IF InFlight(p) THEN "failed" ELSE at[p]]
    /\ UNCHANGED <<fleet, req, fanout, sent, jobs, quiet, spacing, overtaken>>

-----------------------------------------------------------------------------
\* Every age of TestCooldown or more is the same.
Cooler(age) == IF age < TestCooldown THEN age + 1 ELSE age

Tick ==
    /\ TimePasses
    /\ last' = [o \in Owners |-> Cooler(last[o])]
    /\ quiet' = [o \in Owners |-> Cooler(quiet[o])]
    /\ UNCHANGED <<at, req, fanout, sent, jobs, spacing, overtaken, restarts>>

FleetStep ==
    /\ WorkerStep
    /\ UNCHANGED <<at, req, fanout, sent, jobs, store, restarts>>

Handle(p) ==
    \/ CheckCooldown(p) \/ Validate(p) \/ CheckCapacity(p) \/ CapacityError(p)
    \/ Enqueue(p) \/ EnqueueError(p) \/ Register(p)

Next ==
    \/ \E p \in Posts : Handle(p)
    \/ Tick \/ FleetStep \/ Restart

Spec == Init /\ [][Next]_vars

-----------------------------------------------------------------------------
JobsOf(p) == {j \in jobs : j.test = p}

(***************************************************************************)
(* No sub-job that reaches the stream is one a worker rejects and silently *)
(* acknowledges: every share of the virtual users lies within the caps the *)
(* worker enforces for itself (worker/job.go:75-93), and targets a host    *)
(* its owner may target.                                                   *)
(***************************************************************************)
Runnable(j) ==
    /\ j.vus >= 1 /\ j.vus <= WorkerMaxVUs
    /\ j.seconds >= 1 /\ j.seconds <= WorkerMaxDuration
    /\ j.pattern \in Patterns

JobsAreRunnable == \A j \in jobs : Runnable(j) /\ Authorized(req[j.test])

(***************************************************************************)
(* The sub-jobs of a test that was queued to the end are as many as it was *)
(* split into, have all of its virtual users between them, none of them    *)
(* twice, and differ by one at most: "as evenly as possible" (jobs.go:23). *)
(* VirtualUsers(p) has the k-th user of every sub-job of p.                *)
(***************************************************************************)
VirtualUsers(p) == UNION {{<<j, k>> : k \in 1 .. j.vus} : j \in JobsOf(p)}

SplitIsComplete ==
    \A p \in Posts : at[p] \in {"register", "accepted"} =>
        /\ Cardinality(JobsOf(p)) = fanout[p]
        /\ Cardinality(VirtualUsers(p)) = req[p].vus
        /\ \A i, j \in JobsOf(p) : i.vus <= j.vus + 1

(***************************************************************************)
(* A test is never split over more workers than there were on a working    *)
(* link within the last HeartbeatTTL (handlers.go:352-371).                *)
(***************************************************************************)
FitsTheFleet ==
    [][\A p \in Posts : at[p] = "capacity" /\ at'[p] = "enqueue" =>
          fanout'[p] <= Cardinality({w \in Workers : silent[w] < HeartbeatTTL})]_vars

(***************************************************************************)
(* Two tests of one owner are less than TestCooldown apart only if the     *)
(* requests overlapped, or the coordinator restarted in between.           *)
(***************************************************************************)
SpacedUnlessOverlapping ==
    restarts = 0 => \A p \in Posts : spacing[p] < TestCooldown => p \in overtaken
=============================================================================
