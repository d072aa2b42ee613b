-------------------------- MODULE AdmissionProofs --------------------------
(***************************************************************************)
(* Theorems about Admission, and the Fleet it extends, for every set of    *)
(* requests, every number of them in flight, every caps, any number of     *)
(* workers and every heartbeat interval, latency and TTL: live workers are *)
(* counted, silent ones are not, and what reaches the jobs stream is       *)
(* something a worker runs, split for the workers there are.               *)
(***************************************************************************)
EXTENDS Admission, FiniteSetTheorems, TLAPS

-----------------------------------------------------------------------------
(* The fleet.  The life of a key and the age of its worker's last heartbeat, or of *)
(* its silence, add up to the TTL.                                                 *)

\* The key of a worker that is up outlives its last heartbeat by the TTL.
KeyOutlivesBeat ==
    \A w \in Workers : state[w] = "up" /\ w \notin missed =>
        /\ ttl[w] + beat[w] = HeartbeatTTL
        /\ beat[w] <= HeartbeatInterval + BeatLatency

\* A key lives no longer than the TTL after its worker was last on a link.
KeyEndsWithSilence == \A w \in Workers : ttl[w] + silent[w] <= HeartbeatTTL

\* A worker on a working link is not silent.
LinkedIsHeard ==
    \A w \in Workers : state[w] # "down" /\ w \in linked => silent[w] = 0

\* A worker whose link is cut has missed its heartbeat.
CutIsMissed == \A w \in Workers : w \notin linked => w \in missed

FleetIInv == FleetTypeOK /\ KeyOutlivesBeat /\ KeyEndsWithSilence /\ LinkedIsHeard /\ CutIsMissed

\* A fleet that is down satisfies the inductive invariant.
LEMMA FleetInitIInv == FleetInit => FleetIInv
BY FleetAssumption, SMT
DEF FleetInit, FleetIInv, FleetTypeOK, KeyOutlivesBeat, KeyEndsWithSilence, LinkedIsHeard,
    CutIsMissed

(***************************************************************************)
(* Starts, heartbeats, crashes, cut and healed links and the passing of    *)
(* time keep the inductive invariant.                                      *)
(***************************************************************************)
LEMMA FleetStepPreserves == FleetIInv /\ [FleetNext]_fleet => FleetIInv'
<1> SUFFICES ASSUME FleetIInv, [FleetNext]_fleet PROVE FleetIInv'
  OBVIOUS
<1> USE FleetAssumption
    DEF FleetIInv, FleetTypeOK, KeyOutlivesBeat, KeyEndsWithSilence, LinkedIsHeard, CutIsMissed
<1>1. ASSUME NEW w \in Workers, Start(w) PROVE FleetIInv'
  BY <1>1, SMT DEF Start
<1>2. ASSUME NEW w \in Workers, Beat(w) PROVE FleetIInv'
  BY <1>2, SMT DEF Beat, Refresh
<1>3. ASSUME NEW w \in Workers, Crash(w) PROVE FleetIInv'
  BY <1>3, SMT DEF Crash
<1>4. ASSUME NEW w \in Workers, CutLink(w) PROVE FleetIInv'
  BY <1>4, SMT DEF CutLink
<1>5. ASSUME NEW w \in Workers, HealLink(w) PROVE FleetIInv'
  BY <1>5, SMT DEF HealLink
<1>6. CASE TimePasses
  BY <1>6, SMT DEF TimePasses, Expire, Later
<1>7. CASE UNCHANGED fleet
  BY <1>7, SMT DEF fleet
<1> QED
  BY <1>1, <1>2, <1>3, <1>4, <1>5, <1>6, <1>7 DEF FleetNext, WorkerStep

\* A registered worker was on a working link within the last HeartbeatTTL.
LEMMA RegisteredIsRecent ==
    FleetIInv => Registered \subseteq {w \in Workers : silent[w] < HeartbeatTTL}
BY FleetAssumption, SMT DEF FleetIInv, FleetTypeOK, KeyEndsWithSilence, Registered

-----------------------------------------------------------------------------
(* The requests. *)

(***************************************************************************)
(* splitVUs gives every sub-job at least one virtual user and none more    *)
(* than there are, when there are no more sub-jobs than virtual users      *)
(* (jobs.go:23-36).                                                        *)
(***************************************************************************)
LEMMA ShareInRange ==
    ASSUME NEW total \in Nat, NEW n \in Nat \ {0}, n <= total, NEW i \in Nat, i < n
    PROVE  Share(total, n, i) \in 1 .. total
<1> DEFINE q == total \div n
           r == total % n
<1>1. q \in Nat /\ r \in 0 .. (n - 1) /\ total = n * q + r
  BY SMT
<1>2. q >= 1
  BY <1>1, SMT
<1>3. n * q >= q
  BY <1>1, <1>2, SMT
<1>4. i < r => q + 1 <= total
  BY <1>1, <1>3, SMT
<1>5. q <= total
  BY <1>1, <1>3, SMT
<1> QED
  BY <1>1, <1>2, <1>4, <1>5, SMT DEF Share

(***************************************************************************)
(* splitVUs loses no virtual user and makes none twice: QueuedUsers is how *)
(* many are in its first k shares (jobs.go:23-36).                         *)
(***************************************************************************)
QueuedUsers(total, n, k) == k * (total \div n) + Lesser(k, total % n)

LEMMA SharesAddUp ==
    ASSUME NEW total \in Nat, NEW n \in Nat \ {0}
    PROVE  /\ QueuedUsers(total, n, 0) = 0
           /\ QueuedUsers(total, n, n) = total
           /\ \A k \in 0 .. n - 1 :
                /\ QueuedUsers(total, n, k) \in Nat /\ Share(total, n, k) \in Nat
                /\ QueuedUsers(total, n, k + 1)
                     = QueuedUsers(total, n, k) + Share(total, n, k)
           /\ \A i, k \in Nat : Share(total, n, i) <= Share(total, n, k) + 1
<1> DEFINE q == total \div n
           r == total % n
<1>1. q \in Nat /\ r \in 0 .. (n - 1) /\ total = n * q + r
  BY SMT
<1> HIDE DEF q, r
<1>2. \A k \in Nat : QueuedUsers(total, n, k) = k * q + Lesser(k, r)
  BY DEF QueuedUsers, q, r
<1>3. \A i \in Nat : Share(total, n, i) = q + (IF i < r THEN 1 ELSE 0)
  BY DEF Share, q, r
<1>4. 0 * q = 0 /\ \A k \in Nat : k * q \in Nat /\ (k + 1) * q = k * q + q
  BY <1>1, SMT
<1>5. QueuedUsers(total, n, 0) = 0
  BY <1>1, <1>2, <1>4, SMT DEF Lesser
<1>6. QueuedUsers(total, n, n) = total
  BY <1>1, <1>2, <1>4, SMT DEF Lesser
<1>7. ASSUME NEW k \in 0 .. n - 1
      PROVE  /\ QueuedUsers(total, n, k) \in Nat /\ Share(total, n, k) \in Nat
             /\ QueuedUsers(total, n, k + 1) = QueuedUsers(total, n, k) + Share(total, n, k)
  <2>1. Lesser(k, r) \in Nat /\ Lesser(k + 1, r) = Lesser(k, r) + (IF k < r THEN 1 ELSE 0)
    BY <1>1, SMT DEF Lesser
  <2>2. /\ QueuedUsers(total, n, k) = k * q + Lesser(k, r)
        /\ QueuedUsers(total, n, k + 1) = (k + 1) * q + Lesser(k + 1, r)
    BY <1>2, SMT
  <2>3. k * q \in Nat /\ (k + 1) * q = k * q + q
    BY <1>4
  <2> QED
    BY <1>1, <1>3, <2>1, <2>2, <2>3, SMT
<1>8. \A i, k \in Nat : Share(total, n, i) <= Share(total, n, k) + 1
  BY <1>1, <1>3, SMT
<1> QED
  BY <1>5, <1>6, <1>7, <1>8

-----------------------------------------------------------------------------
\* The part of the type invariant the handlers and the store need.
HandlersOK ==
    /\ at \in [Posts -> {"cooldown", "validate", "capacity", "enqueue", "register"} \cup Outcomes]
    /\ req \in [Posts -> Requests]
    /\ fanout \in [Posts -> Int] /\ sent \in [Posts -> Nat]
    /\ last \in [Owners -> 0 .. TestCooldown] /\ quiet \in [Owners -> 0 .. TestCooldown]
    /\ spacing \in [Posts -> 0 .. TestCooldown]
    /\ overtaken \subseteq Posts
    /\ restarts \in 0 .. MaxRestarts

\* A request past its validation has a fanout its virtual users allow.
FanoutFits ==
    \A p \in Posts : at[p] \in {"capacity", "enqueue"} =>
        Acceptable(req[p]) /\ fanout[p] \in 1 .. req[p].vus

\* A handler queues its sub-jobs from the first to the last, each once.
SentInOrder ==
    \A p \in Posts :
        /\ at[p] \in {"cooldown", "validate", "capacity"} => sent[p] = 0
        /\ at[p] = "enqueue" => sent[p] < fanout[p]

JobsFit ==
    \A j \in jobs : j \in Job /\ j.test \in Posts /\ Runnable(j) /\ Authorized(req[j.test])

\* The sub-jobs queued so far are the first shares of the split, each of them once.
Counted(p) ==
    /\ \A j \in JobsOf(p) :
         j.part \in 0 .. sent[p] - 1 /\ j.vus = Share(req[p].vus, fanout[p], j.part)
    /\ IsFiniteSet(JobsOf(p)) /\ Cardinality(JobsOf(p)) = sent[p]
    /\ IsFiniteSet(VirtualUsers(p))
    /\ Cardinality(VirtualUsers(p)) = QueuedUsers(req[p].vus, fanout[p], sent[p])

SplitFollows ==
    \A p \in Posts :
        /\ at[p] \in {"cooldown", "validate", "capacity"} => JobsOf(p) = {}
        /\ at[p] \in {"enqueue", "register", "accepted"} =>
             Counted(p) /\ req[p].vus \in Nat /\ fanout[p] \in Nat \ {0}
        /\ at[p] \in {"register", "accepted"} => sent[p] = fanout[p]

\* Without a restart the store remembers every owner's last submission.
NothingForgotten == restarts = 0 => last = quiet

\* The owner of a request in flight has kept quiet, unless it was overtaken.
OwnerKeptQuiet ==
    restarts = 0 => \A p \in Posts :
        InFlight(p) /\ p \notin overtaken => quiet[req[p].owner] = TestCooldown

IInv ==
    /\ FleetIInv /\ HandlersOK /\ FanoutFits /\ SentInOrder /\ JobsFit /\ SplitFollows
    /\ NothingForgotten /\ OwnerKeptQuiet /\ SpacedUnlessOverlapping

\* The requests are well formed: their fields have the types of the assumption.
LEMMA RequestTypes ==
    ASSUME NEW r \in Requests
    PROVE  /\ r.owner \in Owners /\ r.vus \in Int /\ r.workers \in Int /\ r.seconds \in Int
           /\ r.pattern \in Patterns \cup {"other"}
BY AdmissionAssumption

\* The number of live workers is a natural number.
LEMMA LiveIsNat == Cardinality(Registered) \in Nat
BY FleetAssumption, FS_Subset, FS_CardinalityType DEF Registered

\* A coordinator that has just started satisfies the inductive invariant.
LEMMA InitIInv == Init => IInv
BY AdmissionAssumption, FleetInitIInv, SMT
DEF Init, IInv, HandlersOK, Outcomes, FanoutFits, SentInOrder, JobsFit, NothingForgotten,
    OwnerKeptQuiet, SpacedUnlessOverlapping, InFlight, SplitFollows, JobsOf

(***************************************************************************)
(* Every step of a handler, of the fleet, of time and a restart keep the   *)
(* sub-jobs on the stream runnable and authorized.                         *)
(***************************************************************************)
LEMMA SubmissionPreserved ==
    ASSUME HandlersOK, FanoutFits, SentInOrder, JobsFit, [Next]_vars
    PROVE  HandlersOK' /\ FanoutFits' /\ SentInOrder' /\ JobsFit'
<1> USE AdmissionAssumption
    DEF HandlersOK, FanoutFits, SentInOrder, JobsFit, Outcomes, GoTo, store
<1>1. ASSUME NEW p \in Posts, CheckCooldown(p)
      PROVE  HandlersOK' /\ FanoutFits' /\ SentInOrder' /\ JobsFit'
  BY <1>1, SMT DEF CheckCooldown
<1>2. ASSUME NEW p \in Posts, Validate(p)
      PROVE  HandlersOK' /\ FanoutFits' /\ SentInOrder' /\ JobsFit'
  <2>1. Acceptable(req[p]) => Clamped(req[p]) \in 1 .. req[p].vus
    BY RequestTypes, SMT DEF Acceptable, Clamped, Lesser
  <2> QED
    BY <1>2, <2>1, RequestTypes, SMT DEF Validate
<1>3. ASSUME NEW p \in Posts, CheckCapacity(p)
      PROVE  HandlersOK' /\ FanoutFits' /\ SentInOrder' /\ JobsFit'
  <2> DEFINE live == Cardinality(Registered)
  <2>1. live \in Nat
    BY LiveIsNat
  <2>2. live > 0 => Fitted(fanout[p], live) \in 1 .. req[p].vus
    BY <1>3, <2>1, RequestTypes, SMT DEF CheckCapacity, Fitted, Lesser
  <2> HIDE DEF live
  <2>3. \/ live = 0 /\ at' = [at EXCEPT ![p] = "rejected"] /\ UNCHANGED fanout
        \/ /\ live > 0 /\ at' = [at EXCEPT ![p] = "enqueue"]
           /\ fanout' = [fanout EXCEPT ![p] = Fitted(@, live)]
    BY <1>3 DEF CheckCapacity, live
  <2> QED
    BY <1>3, <2>2, <2>3, RequestTypes, SMT DEF CheckCapacity
<1>4. ASSUME NEW p \in Posts, CapacityError(p)
      PROVE  HandlersOK' /\ FanoutFits' /\ SentInOrder' /\ JobsFit'
  BY <1>4, SMT DEF CapacityError
<1>5. ASSUME NEW p \in Posts, at[p] = "enqueue", Add(p), req' = req
      PROVE  JobsFit'
  <2> DEFINE r == req[p]
             new == [test |-> p, part |-> sent[p], vus |-> Share(r.vus, fanout[p], sent[p]),
                     seconds |-> r.seconds, pattern |-> r.pattern]
  <2>1. r \in Requests /\ Acceptable(r) /\ fanout[p] \in 1 .. r.vus /\ sent[p] < fanout[p]
    BY <1>5
  <2>2. r.vus \in Int /\ r.seconds \in Int
    BY <2>1, RequestTypes
  <2>3. new.vus \in 1 .. r.vus
    BY <2>1, <2>2, ShareInRange, SMT
  <2>4. Runnable(new) /\ new.test = p /\ Authorized(r)
    BY <2>1, <2>2, <2>3, SMT DEF Runnable, Acceptable
  <2>5. new \in Job
    <3>1. new.vus \in Int /\ sent[p] \in Nat /\ r.pattern \in Patterns \cup {"other"}
      BY <2>1, <2>2, <2>3, RequestTypes, SMT
    <3> QED
      BY <2>2, <3>1, SMT DEF Job
  <2>6. jobs' = jobs \cup {new}
    BY <1>5 DEF Add
  <2> HIDE DEF new
  <2> QED
    BY <1>5, <2>4, <2>5, <2>6, Zenon DEF Runnable, Job
<1>6. ASSUME NEW p \in Posts, Enqueue(p) \/ EnqueueError(p)
      PROVE  HandlersOK' /\ FanoutFits' /\ SentInOrder' /\ JobsFit'
  <2>1. /\ at[p] = "enqueue"
        /\ UNCHANGED <<req, fanout, last, quiet, spacing, overtaken, restarts>>
        /\ \/ /\ sent' = [sent EXCEPT ![p] = @ + 1]
              /\ at' = [at EXCEPT ![p] = IF sent'[p] = fanout[p] THEN "register" ELSE "enqueue"]
           \/ at' = [at EXCEPT ![p] = "failed"] /\ sent' \in {sent, [sent EXCEPT ![p] = @ + 1]}
    BY <1>6 DEF Enqueue, EnqueueError, Add
  <2>2. req[p] \in Requests /\ fanout[p] \in 1 .. req[p].vus /\ sent[p] < fanout[p]
    BY <2>1
  <2>3. req[p].vus \in Int
    BY <2>2, RequestTypes
  <2>4. HandlersOK' /\ FanoutFits'
    BY <2>1, <2>2, <2>3, SMT
  <2>5. SentInOrder'
    <3>1. CASE sent' = [sent EXCEPT ![p] = @ + 1]
      <4>1. sent'[p] \in Nat /\ (at'[p] = "enqueue" => sent'[p] < fanout[p])
        BY <2>1, <2>2, <2>3, <3>1, SMT
      <4>2. at'[p] \in {"register", "enqueue", "failed"}
        BY <2>1
      <4>3. \A q \in Posts \ {p} : sent'[q] = sent[q] /\ at'[q] = at[q]
        BY <2>1, <3>1
      <4> QED
        BY <2>1, <4>1, <4>2, <4>3
    <3>2. CASE sent' = sent /\ at' = [at EXCEPT ![p] = "failed"]
      BY <2>1, <3>2, SMT
    <3> QED
      BY <2>1, <3>1, <3>2
  <2>6. CASE Add(p)
    BY <1>5, <2>1, <2>4, <2>5, <2>6
  <2>7. CASE UNCHANGED <<jobs, sent>>
    BY <2>1, <2>4, <2>5, <2>7
  <2>8. Add(p) \/ UNCHANGED <<jobs, sent>>
    BY <1>6 DEF Enqueue, EnqueueError
  <2> QED
    BY <2>6, <2>7, <2>8
<1>7. ASSUME NEW p \in Posts, Register(p)
      PROVE  HandlersOK' /\ FanoutFits' /\ SentInOrder' /\ JobsFit'
  BY <1>7, RequestTypes, SMT DEF Register
<1>8. CASE Tick
  BY <1>8, SMT DEF Tick, Cooler
<1>9. CASE FleetStep
  BY <1>9, SMT DEF FleetStep
<1>10. CASE Restart
  BY <1>10, SMT DEF Restart, InFlight
<1>11. CASE UNCHANGED vars
  BY <1>11, SMT DEF vars
<1> QED
  BY <1>1, <1>2, <1>3, <1>4, <1>5, <1>6, <1>7, <1>8, <1>9, <1>10, <1>11 DEF Next, Handle

UsersIn(J) == UNION {{<<j, k>> : k \in 1 .. j.vus} : j \in J}

\* One more sub-job brings as many virtual users as it has.
LEMMA OneMoreJob ==
    ASSUME NEW J, IsFiniteSet(J), IsFiniteSet(UsersIn(J)),
           NEW new, new \notin J, new.vus \in Nat
    PROVE  /\ IsFiniteSet(J \cup {new}) /\ Cardinality(J \cup {new}) = Cardinality(J) + 1
           /\ IsFiniteSet(UsersIn(J \cup {new}))
           /\ Cardinality(UsersIn(J \cup {new})) = Cardinality(UsersIn(J)) + new.vus
<1> DEFINE m == new.vus
           U == UsersIn(J)
           W == UsersIn(J \cup {new})
           N == {<<new, k>> : k \in 1 .. m}
           f == [k \in 1 .. m |-> <<new, k>>]
<1>1. IsFiniteSet(J \cup {new}) /\ Cardinality(J \cup {new}) = Cardinality(J) + 1
  BY FS_AddElement
<1>2. IsFiniteSet(N) /\ Cardinality(N) = m
  <2>1. IsFiniteSet(1 .. m) /\ Cardinality(1 .. m) = m
    <3>1. m \in Nat
      OBVIOUS
    <3> HIDE DEF m
    <3>2. IsFiniteSet(1 .. m) /\ Cardinality(1 .. m) = IF 1 > m THEN 0 ELSE m - 1 + 1
      BY <3>1, FS_Interval
    <3> QED
      BY <3>1, <3>2
  <2>2. f \in Bijection(1 .. m, N)
    BY DEF Bijection, Injection, IsInjective, Surjection
  <2>3. ExistsBijection(1 .. m, N)
    BY <2>2, Zenon DEF ExistsBijection
  <2> HIDE DEF N, m
  <2> QED
    BY <2>1, <2>3, FS_Bijection
<1>3. W = U \cup N
  BY DEF UsersIn
<1>4. U \cap N = {}
  BY DEF UsersIn
<1> HIDE DEF N, U, W
<1>5. Cardinality(U \cap N) = 0 /\ Cardinality(U) \in Nat
  BY <1>4, FS_EmptySet, FS_CardinalityType DEF U
<1>6. IsFiniteSet(U \cup N)
      /\ Cardinality(U \cup N) = Cardinality(U) + Cardinality(N) - Cardinality(U \cap N)
  BY <1>2, FS_Union DEF U
<1>7. Cardinality(W) = Cardinality(U) + m
  <2>1. m \in Nat
    OBVIOUS
  <2> HIDE DEF m
  <2> QED
    BY <1>2, <1>3, <1>5, <1>6, <2>1
<1> QED
  BY <1>1, <1>3, <1>6, <1>7 DEF U, W

(***************************************************************************)
(* A handler queues share after share; whatever else happens, what it has  *)
(* queued stays what the split says (handlers.go:373-377, jobs.go:38-52).  *)
(***************************************************************************)
LEMMA SplitPreserved ==
    ASSUME HandlersOK, FanoutFits, SentInOrder, JobsFit, SplitFollows, [Next]_vars
    PROVE  SplitFollows'
<1> USE DEF HandlersOK, Outcomes, GoTo
<1>1. ASSUME NEW p \in Posts, Enqueue(p)
      PROVE  SplitFollows'
  <2> DEFINE r == req[p]
             new == [test |-> p, part |-> sent[p], vus |-> Share(r.vus, fanout[p], sent[p]),
                     seconds |-> r.seconds, pattern |-> r.pattern]
  <2>1. /\ Acceptable(r) /\ fanout[p] \in 1 .. r.vus /\ r.vus \in Nat
        /\ sent[p] \in Nat /\ sent[p] < fanout[p]
    <3>1. Acceptable(r) /\ fanout[p] \in 1 .. r.vus /\ sent[p] < fanout[p] /\ r \in Requests
      BY <1>1 DEF Enqueue, FanoutFits, SentInOrder
    <3> QED
      BY <3>1, RequestTypes, SMT DEF Acceptable
  <2>2. /\ jobs' = jobs \cup {new} /\ req' = req /\ fanout' = fanout
        /\ sent' = [sent EXCEPT ![p] = @ + 1]
        /\ at' = [at EXCEPT ![p] = IF sent'[p] = fanout[p] THEN "register" ELSE "enqueue"]
    BY <1>1 DEF Enqueue, Add
  <2>3. Counted(p)
    BY <1>1 DEF Enqueue, SplitFollows
  <2>4. /\ new.test = p /\ new.part = sent[p] /\ new.vus = Share(r.vus, fanout[p], sent[p])
    OBVIOUS
  <2> HIDE DEF new
  <2>5. /\ Share(r.vus, fanout[p], sent[p]) \in Nat
         /\ QueuedUsers(r.vus, fanout[p], sent[p] + 1)
              = QueuedUsers(r.vus, fanout[p], sent[p]) + Share(r.vus, fanout[p], sent[p])
    <3>1. r.vus \in Nat /\ fanout[p] \in Nat \ {0} /\ sent[p] \in 0 .. fanout[p] - 1
      BY <2>1
    <3> HIDE DEF r
    <3> QED
      BY <3>1, SharesAddUp
  <2>6. JobsOf(p)' = JobsOf(p) \cup {new} /\ new \notin JobsOf(p)
    <3>1. JobsOf(p)' = JobsOf(p) \cup {new}
      BY <2>2, <2>4 DEF JobsOf
    <3>2. ASSUME new \in JobsOf(p) PROVE FALSE
      BY <2>1, <2>3, <2>4, <3>2 DEF Counted
    <3> QED
      BY <3>1, <3>2
  <2>7. ASSUME NEW q \in Posts \ {p}
        PROVE  JobsOf(q)' = JobsOf(q) /\ (Counted(q) => Counted(q)')
    <3>1. JobsOf(q)' = JobsOf(q)
      BY <2>2, <2>4 DEF JobsOf
    <3>2. VirtualUsers(q)' = VirtualUsers(q)
      BY <3>1 DEF VirtualUsers
    <3>3. sent'[q] = sent[q]
      BY <2>2
    <3> QED
      BY <2>2, <3>1, <3>2, <3>3 DEF Counted
  <2>8. Counted(p)'
    <3>1. /\ IsFiniteSet(JobsOf(p)') /\ Cardinality(JobsOf(p)') = Cardinality(JobsOf(p)) + 1
          /\ IsFiniteSet(VirtualUsers(p)')
          /\ Cardinality(VirtualUsers(p)') = Cardinality(VirtualUsers(p)) + new.vus
      <4>1. new.vus \in Nat /\ new \notin JobsOf(p) /\ JobsOf(p)' = JobsOf(p) \cup {new}
        BY <2>4, <2>6, <2>5
      <4>2. IsFiniteSet(JobsOf(p)) /\ IsFiniteSet(VirtualUsers(p))
        BY <2>3 DEF Counted
      <4>3. VirtualUsers(p) = UsersIn(JobsOf(p))
        BY DEF VirtualUsers, UsersIn
      <4>4. VirtualUsers(p)' = UsersIn(JobsOf(p) \cup {new})
        BY <4>1 DEF VirtualUsers, UsersIn
      <4> QED
        BY <4>1, <4>2, <4>3, <4>4, OneMoreJob
    <3>2. sent'[p] = sent[p] + 1
      BY <2>2
    <3>3. QueuedUsers(r.vus, fanout[p], sent[p] + 1)
            = QueuedUsers(r.vus, fanout[p], sent[p]) + Share(r.vus, fanout[p], sent[p])
      BY <2>5
    <3>4. \A j \in JobsOf(p)' :
            j.part \in 0 .. sent'[p] - 1 /\ j.vus = Share(r.vus, fanout[p], j.part)
      BY <2>1, <2>3, <2>4, <2>6, <3>2, SMT DEF Counted
    <3> QED
      BY <2>2, <2>3, <2>4, <3>1, <3>2, <3>3, <3>4 DEF Counted
  <2>9. /\ at'[p] \in {"enqueue", "register"}
        /\ at'[p] = "register" => sent'[p] = fanout'[p]
        /\ \A q \in Posts \ {p} : at'[q] = at[q] /\ sent'[q] = sent[q]
    BY <2>2
  <2>10. ASSUME NEW q \in Posts
        PROVE  /\ at'[q] \in {"cooldown", "validate", "capacity"} => JobsOf(q)' = {}
               /\ at'[q] \in {"enqueue", "register", "accepted"} =>
                    Counted(q)' /\ req'[q].vus \in Nat /\ fanout'[q] \in Nat \ {0}
               /\ at'[q] \in {"register", "accepted"} => sent'[q] = fanout'[q]
    <3>1. CASE q = p
      BY <2>1, <2>2, <2>8, <2>9, <3>1
    <3>2. CASE q # p
      BY <2>2, <2>7, <2>9, <3>2 DEF SplitFollows
    <3> QED
      BY <3>1, <3>2
  <2> QED
    BY <2>10 DEF SplitFollows
<1>2. ASSUME UNCHANGED <<req, sent, jobs>>,
             \A p \in Posts :
                \/ at'[p] \in {"rejected", "failed"}
                \/ /\ at'[p] \in {"validate", "capacity"}
                   /\ at[p] \in {"cooldown", "validate", "capacity"}
                \/ at[p] = "capacity" /\ at'[p] = "enqueue" /\ fanout'[p] \in 1 .. req[p].vus
                \/ at[p] = "register" /\ at'[p] = "accepted" /\ fanout'[p] = fanout[p]
                \/ at'[p] = at[p] /\ fanout'[p] = fanout[p]
      PROVE  SplitFollows'
  <2>1. \A p \in Posts : JobsOf(p)' = JobsOf(p)
    BY <1>2 DEF JobsOf
  <2>2. \A p \in Posts : VirtualUsers(p)' = VirtualUsers(p)
    BY <2>1 DEF VirtualUsers
  <2>3. ASSUME NEW p \in Posts
        PROVE  /\ at'[p] \in {"cooldown", "validate", "capacity"} => JobsOf(p)' = {}
               /\ at'[p] \in {"enqueue", "register", "accepted"} =>
                    Counted(p)' /\ req'[p].vus \in Nat /\ fanout'[p] \in Nat \ {0}
               /\ at'[p] \in {"register", "accepted"} => sent'[p] = fanout'[p]
    <3>1. CASE at'[p] \in {"rejected", "failed"}
      BY <3>1
    <3>2. CASE /\ at'[p] \in {"validate", "capacity"}
               /\ at[p] \in {"cooldown", "validate", "capacity"}
      BY <2>1, <3>2 DEF SplitFollows
    <3>3. CASE at[p] = "capacity" /\ at'[p] = "enqueue" /\ fanout'[p] \in 1 .. req[p].vus
      <4>1. JobsOf(p) = {} /\ sent[p] = 0 /\ VirtualUsers(p) = {}
        BY <3>3 DEF SplitFollows, SentInOrder, VirtualUsers
      <4>2. req[p].vus \in Nat /\ fanout'[p] \in Nat \ {0}
        BY <3>3, RequestTypes, SMT
      <4>3. QueuedUsers(req[p].vus, fanout'[p], 0) = 0
        BY <4>2, SharesAddUp
      <4>4. IsFiniteSet({}) /\ Cardinality({}) = 0
        BY FS_EmptySet
      <4>5. Counted(p)'
        BY <1>2, <2>1, <2>2, <4>1, <4>3, <4>4 DEF Counted
      <4> QED
        BY <1>2, <3>3, <4>2, <4>5
    <3>4. CASE \/ at[p] = "register" /\ at'[p] = "accepted" /\ fanout'[p] = fanout[p]
               \/ at'[p] = at[p] /\ fanout'[p] = fanout[p]
      <4>1. Counted(p)' <=> Counted(p)
        BY <1>2, <2>1, <2>2, <3>4 DEF Counted
      <4> QED
        BY <1>2, <2>1, <3>4, <4>1 DEF SplitFollows
    <3> QED
      BY <1>2, <3>1, <3>2, <3>3, <3>4
  <2> QED
    BY <2>3 DEF SplitFollows
<1>3. ASSUME NEW p \in Posts, CheckCooldown(p) \/ CapacityError(p)
      PROVE  SplitFollows'
  BY <1>2, <1>3 DEF CheckCooldown, CapacityError
<1>4. ASSUME NEW p \in Posts, Validate(p)
      PROVE  SplitFollows'
  BY <1>2, <1>4 DEF Validate
<1>5. ASSUME NEW p \in Posts, CheckCapacity(p)
      PROVE  SplitFollows'
  <2> DEFINE live == Cardinality(Registered)
  <2>1. live \in Nat
    BY LiveIsNat
  <2>2. live > 0 => Fitted(fanout[p], live) \in 1 .. req[p].vus
    BY <1>5, <2>1, RequestTypes, SMT DEF CheckCapacity, Fitted, Lesser, FanoutFits
  <2> HIDE DEF live
  <2>3. \/ at' = [at EXCEPT ![p] = "rejected"] /\ UNCHANGED fanout
        \/ /\ at' = [at EXCEPT ![p] = "enqueue"]
           /\ fanout' = [fanout EXCEPT ![p] = Fitted(fanout[p], live)] /\ live > 0
    BY <1>5 DEF CheckCapacity, live
  <2>4. at[p] = "capacity" /\ UNCHANGED <<req, sent, jobs>>
    BY <1>5 DEF CheckCapacity
  <2> QED
    BY <1>2, <2>2, <2>3, <2>4
<1>6. ASSUME NEW p \in Posts, Register(p)
      PROVE  SplitFollows'
  BY <1>2, <1>6 DEF Register
<1>7. CASE Tick \/ FleetStep
  BY <1>2, <1>7 DEF Tick, FleetStep
<1>8. CASE Restart
  BY <1>2, <1>8 DEF Restart
<1>9. CASE UNCHANGED vars
  BY <1>2, <1>9 DEF vars
<1>10. ASSUME NEW p \in Posts, EnqueueError(p)
       PROVE  SplitFollows'
  <2>1. /\ UNCHANGED <<req, fanout>> /\ at' = [at EXCEPT ![p] = "failed"]
        /\ \A q \in Posts \ {p} : sent'[q] = sent[q] /\ JobsOf(q)' = JobsOf(q)
    BY <1>10 DEF EnqueueError, Add, JobsOf
  <2>2. ASSUME NEW q \in Posts \ {p}
        PROVE  Counted(q)' <=> Counted(q)
    <3>1. VirtualUsers(q)' = VirtualUsers(q)
      BY <2>1 DEF VirtualUsers
    <3> QED
      BY <2>1, <3>1 DEF Counted
  <2> QED
    BY <2>1, <2>2 DEF SplitFollows
<1> QED
  BY <1>1, <1>3, <1>4, <1>5, <1>6, <1>7, <1>8, <1>9, <1>10 DEF Next, Handle

(***************************************************************************)
(* Every step keeps what the store remembers of every owner: a request     *)
(* that passed its cooldown check was either overtaken or has an owner     *)
(* that registered nothing since.                                          *)
(***************************************************************************)
LEMMA CooldownPreserved ==
    ASSUME HandlersOK, NothingForgotten, OwnerKeptQuiet, SpacedUnlessOverlapping, [Next]_vars
    PROVE  NothingForgotten' /\ OwnerKeptQuiet' /\ SpacedUnlessOverlapping'
<1> USE AdmissionAssumption
    DEF HandlersOK, NothingForgotten, OwnerKeptQuiet, SpacedUnlessOverlapping, Outcomes, GoTo,
        store, InFlight
<1>1. ASSUME NEW p \in Posts, CheckCooldown(p)
      PROVE  NothingForgotten' /\ OwnerKeptQuiet' /\ SpacedUnlessOverlapping'
  BY <1>1, RequestTypes, SMT DEF CheckCooldown, Cooling
<1>2. ASSUME NEW p \in Posts, Validate(p)
      PROVE  NothingForgotten' /\ OwnerKeptQuiet' /\ SpacedUnlessOverlapping'
  BY <1>2, SMT DEF Validate
<1>3. ASSUME NEW p \in Posts, CheckCapacity(p)
      PROVE  NothingForgotten' /\ OwnerKeptQuiet' /\ SpacedUnlessOverlapping'
  BY <1>3, SMT DEF CheckCapacity
<1>4. ASSUME NEW p \in Posts, CapacityError(p) \/ EnqueueError(p)
      PROVE  NothingForgotten' /\ OwnerKeptQuiet' /\ SpacedUnlessOverlapping'
  BY <1>4, SMT DEF CapacityError, EnqueueError
<1>5. ASSUME NEW p \in Posts, Enqueue(p)
      PROVE  NothingForgotten' /\ OwnerKeptQuiet' /\ SpacedUnlessOverlapping'
  BY <1>5, SMT DEF Enqueue
<1>6. ASSUME NEW p \in Posts, Register(p)
      PROVE  NothingForgotten' /\ OwnerKeptQuiet' /\ SpacedUnlessOverlapping'
  <2>1. req[p].owner \in Owners
    BY RequestTypes
  <2>2. NothingForgotten'
    BY <1>6, <2>1, SMT DEF Register
  <2>3. OwnerKeptQuiet'
    BY <1>6, <2>1, RequestTypes, SMT DEF Register
  <2>4. SpacedUnlessOverlapping'
    BY <1>6, <2>1, SMT DEF Register
  <2> QED
    BY <2>2, <2>3, <2>4
<1>7. CASE Tick
  BY <1>7, RequestTypes, SMT DEF Tick, Cooler
<1>8. CASE FleetStep
  BY <1>8, SMT DEF FleetStep
<1>9. CASE Restart
  BY <1>9, SMT DEF Restart
<1>10. CASE UNCHANGED vars
  BY <1>10, SMT DEF vars
<1> QED
  BY <1>1, <1>2, <1>3, <1>4, <1>5, <1>6, <1>7, <1>8, <1>9, <1>10 DEF Next, Handle

\* The handlers and the coordinator's restarts leave the fleet alone.
LEMMA FleetStepOfNext == [Next]_vars => [FleetNext]_fleet
BY DEF Next, Handle, CheckCooldown, Validate, CheckCapacity, CapacityError, Enqueue,
       EnqueueError, Register, Tick, FleetStep, FleetNext, Restart, vars

\* What Fleet says of the registry by itself holds next to the coordinator.
THEOREM SpecImplementsFleet == Spec => FleetSpec
<1>1. Init => FleetInit
  BY DEF Init
<1> QED
  BY <1>1, FleetStepOfNext, PTL DEF Spec, FleetSpec

\* The inductive invariant holds in every reachable state of coordinator and fleet.
THEOREM SpecIInv == Spec => []IInv
<1>1. IInv /\ [Next]_vars => IInv'
  BY FleetStepOfNext, FleetStepPreserves, SubmissionPreserved, SplitPreserved,
     CooldownPreserved DEF IInv
<1> QED
  BY <1>1, InitIInv, PTL DEF Spec

\* Every variable of the registry and of the handlers keeps its type.
THEOREM SpecTypeOK == Spec => []TypeOK
<1>1. IInv => TypeOK
  BY Zenon DEF IInv, FleetIInv, HandlersOK, JobsFit, TypeOK
<1> QED
  BY <1>1, SpecIInv, PTL

(***************************************************************************)
(* A worker that is up and was not cut off since its last heartbeat is     *)
(* always counted by the coordinator (worker/main.go:154-173).             *)
(***************************************************************************)
THEOREM SpecHealthyIsCounted == Spec => []HealthyIsCounted
<1>1. IInv => HealthyIsCounted
  BY FleetAssumption, SMT
  DEF IInv, FleetIInv, FleetTypeOK, KeyOutlivesBeat, HealthyIsCounted, Registered
<1> QED
  BY <1>1, SpecIInv, PTL

(***************************************************************************)
(* A worker that has been down or cut off for HeartbeatTTL is not counted, *)
(* whatever it did before (worker/main.go:27-30).                          *)
(***************************************************************************)
THEOREM SpecSilentAgesOut == Spec => []SilentAgesOut
<1>1. IInv => SilentAgesOut
  BY FleetAssumption, RegisteredIsRecent, SMT DEF IInv, FleetIInv, FleetTypeOK, SilentAgesOut
<1> QED
  BY <1>1, SpecIInv, PTL

(***************************************************************************)
(* The number of sub-jobs of a test that passes its capacity check is at   *)
(* most that of the workers on a working link within the last HeartbeatTTL *)
(* (handlers.go:352-371).                                                  *)
(***************************************************************************)
THEOREM SpecFitsTheFleet == Spec => FitsTheFleet
<1> DEFINE recent == {w \in Workers : silent[w] < HeartbeatTTL}
           Fits == \A p \in Posts : at[p] = "capacity" /\ at'[p] = "enqueue" =>
                     fanout'[p] <= Cardinality(recent)
<1>1. ASSUME IInv, Next PROVE Fits
  <2> SUFFICES ASSUME NEW p \in Posts, at[p] = "capacity", at'[p] = "enqueue"
               PROVE  fanout'[p] <= Cardinality(recent)
    OBVIOUS
  <2>1. at \in [Posts -> {"cooldown", "validate", "capacity", "enqueue", "register"}
                           \cup Outcomes] /\ fanout \in [Posts -> Int]
    BY <1>1 DEF IInv, HandlersOK
  <2>2. CheckCapacity(p)
    <3>1. PICK q \in Posts : Handle(q)
      BY <1>1, <2>1 DEF Next, Tick, FleetStep, Restart, InFlight
    <3>2. q = p
      BY <2>1, <3>1 DEF Handle, CheckCooldown, Validate, CheckCapacity, CapacityError, Enqueue,
         EnqueueError, Register, GoTo
    <3> QED
      BY <2>1, <3>1, <3>2 DEF Handle, CheckCooldown, Validate, CapacityError, Enqueue,
         EnqueueError, Register, GoTo
  <2>3. fanout'[p] = Fitted(fanout[p], Cardinality(Registered))
    BY <2>1, <2>2 DEF CheckCapacity, GoTo
  <2>4. fanout'[p] <= Cardinality(Registered)
    BY <2>1, <2>3, LiveIsNat, SMT DEF Fitted, Lesser
  <2>5. /\ Cardinality(Registered) <= Cardinality(recent)
        /\ Cardinality(recent) \in Nat
    <3>1. IsFiniteSet(recent)
      BY FleetAssumption, FS_Subset
    <3> QED
      BY <1>1, <3>1, RegisteredIsRecent, FS_Subset, FS_CardinalityType DEF IInv
  <2>6. fanout'[p] \in Int
    BY <2>1, <2>3, LiveIsNat, SMT DEF Fitted, Lesser
  <2> QED
    BY <2>4, <2>5, <2>6, LiveIsNat, SMT
<1>2. IInv /\ [Next]_vars => [Fits]_vars
  BY <1>1
<1> QED
  BY <1>2, SpecIInv, PTL DEF Spec, FitsTheFleet

(***************************************************************************)
(* Whatever requests overlap and whatever the fleet does between the steps *)
(* of a handler, no sub-job on the stream is one the worker rejects        *)
(* (worker/job.go:75-93), and each targets a host its owner may target.    *)
(***************************************************************************)
THEOREM SpecJobsAreRunnable == Spec => []JobsAreRunnable
<1>1. IInv => JobsAreRunnable
  BY DEF IInv, JobsFit, JobsAreRunnable
<1> QED
  BY <1>1, SpecIInv, PTL

(***************************************************************************)
(* A test that was queued to the end is queued completely and evenly,      *)
(* whatever its number of virtual users and of sub-jobs, and whatever      *)
(* other requests and the fleet do meanwhile (jobs.go:23-52).              *)
(***************************************************************************)
THEOREM SpecSplitIsComplete == Spec => []SplitIsComplete
<1>1. IInv => SplitIsComplete
  <2> SUFFICES ASSUME IInv, NEW p \in Posts, at[p] \in {"register", "accepted"}
               PROVE  /\ Cardinality(JobsOf(p)) = fanout[p]
                      /\ Cardinality(VirtualUsers(p)) = req[p].vus
                      /\ \A i, j \in JobsOf(p) : i.vus <= j.vus + 1
    BY DEF SplitIsComplete
  <2>1. Counted(p) /\ req[p].vus \in Nat /\ fanout[p] \in Nat \ {0} /\ sent[p] = fanout[p]
    BY DEF IInv, SplitFollows
  <2>2. QueuedUsers(req[p].vus, fanout[p], fanout[p]) = req[p].vus
    BY <2>1, SharesAddUp
  <2>3. ASSUME NEW i \in JobsOf(p), NEW j \in JobsOf(p)
        PROVE  i.vus <= j.vus + 1
    <3> DEFINE n == fanout[p]
               total == req[p].vus
    <3>1. /\ i.part \in Nat /\ i.vus = Share(total, n, i.part)
          /\ j.part \in Nat /\ j.vus = Share(total, n, j.part)
      BY <2>1 DEF Counted
    <3>2. total \in Nat /\ n \in Nat \ {0}
      BY <2>1
    <3> HIDE DEF n, total
    <3>3. Share(total, n, i.part) <= Share(total, n, j.part) + 1
      BY <3>1, <3>2, SharesAddUp
    <3> QED
      BY <3>1, <3>3
  <2> QED
    BY <2>1, <2>2, <2>3 DEF Counted
<1> QED
  BY <1>1, SpecIInv, PTL

(***************************************************************************)
(* The cooldown check and the stamp of Register keep an owner's tests      *)
(* TestCooldown apart unless its requests overlap (handlers.go:302, 379).  *)
(***************************************************************************)
THEOREM SpecSpacedUnlessOverlapping == Spec => []SpacedUnlessOverlapping
BY SpecIInv, PTL DEF IInv
=============================================================================
