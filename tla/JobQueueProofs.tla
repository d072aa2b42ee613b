--------------------------- MODULE JobQueueProofs ---------------------------
(***************************************************************************)
(* Theorems about JobQueue for every number of workers and jobs, every     *)
(* value of the time limits its assumption allows and any number of        *)
(* faults.  The inductive invariant says what a lease is: the idle time    *)
(* Redis measures never exceeds the age of the runner's own last renewal,  *)
(* and a delivery count read by XPENDING is stale only for an entry that   *)
(* is too young to be claimed.                                             *)
(***************************************************************************)
EXTENDS JobQueue, TLAPS

\* A running worker's entry is at most as idle as the worker's own timer says.
LeaseCovers ==
    \A w \in Workers, j \in Jobs :
        Runs(w, j) /\ entry[j] = "pending" => idle[j] <= since[w]

\* A worker whose link was not cut renews in time.
RenewsInTime ==
    \A w \in Workers :
        pc[w] = "run" /\ w \notin late => since[w] <= LeaseRenewInterval + RenewLatency

\* The job a worker holds was delivered.
HeldIsDelivered ==
    \A w \in Workers :
        pc[w] \in {"run", "abandon", "ack"} =>
            job[w] \in Jobs /\ entry[job[w]] \in {"pending", "acked", "lost"}

\* A delivery count out of date belongs to an entry too young to be claimed.
SeenIsFresh ==
    \A w \in Workers, j \in Jobs :
        seen[w][j] > 0 =>
            /\ pc[w] = "claim" /\ since[w] <= ClaimLatency
            /\ entry[j] \in {"pending", "acked", "lost"}
            /\ deliveries[j] = seen[w][j] \/ idle[j] <= since[w]
               \/ entry[j] \in {"acked", "lost"}

\* Runs are deliveries, and an entry never delivered has none.
RunsAreDeliveries ==
    \A j \in Jobs :
        /\ runs[j] <= deliveries[j]
        /\ runs[j] <= MaxDeliveries
        /\ entry[j] \in {"absent", "new"} => deliveries[j] = 0

\* A worker that polls or is down is at no job.
IdleHoldsNothing ==
    \A w \in Workers : pc[w] \in {"check", "claim", "read", "regroup", "down"} => job[w] = NoJob

\* A worker acknowledges only what it accounted for.
AckIsAccounted == \A w \in Workers : pc[w] = "ack" => Accounted(job[w])

IInv ==
    /\ TypeOK
    /\ LeaseCovers
    /\ RenewsInTime
    /\ HeldIsDelivered
    /\ SeenIsFresh
    /\ RunsAreDeliveries
    /\ IdleHoldsNothing
    /\ AckIsAccounted
    /\ AckedIsAccounted


-----------------------------------------------------------------------------
\* A fleet that has just started, before any job is queued, is well typed.
THEOREM InitTypeOK == Init => TypeOK
BY JobQueueAssumption, SMT DEF Init, TypeOK, NothingSeen, NoJob

\* Publishing a final report keeps the two report histories in their types.
LEMMA ReportTypes ==
    ASSUME TypeOK, NEW w \in Workers, NEW kind \in {"done", "abandoned"}, Report(w, kind)
    PROVE  /\ reported' \in [Jobs -> SUBSET {"done", "abandoned"}]
           /\ unpublished' \in [Jobs -> SUBSET {"done", "abandoned"}]
<1> DEFINE Kinds == {"done", "abandoned"}
<1>1. /\ reported \in [Jobs -> SUBSET Kinds]
      /\ unpublished \in [Jobs -> SUBSET Kinds]
  BY DEF TypeOK
<1>2. \A S \in SUBSET Kinds : S \cup {kind} \in SUBSET Kinds
  OBVIOUS
<1> HIDE DEF Kinds
<1>3. CASE online[w]
  BY <1>1, <1>2, <1>3, SMT DEF Report, Kinds
<1>4. CASE ~online[w]
  BY <1>1, <1>2, <1>4, SMT DEF Report, Kinds
<1> QED
  BY <1>3, <1>4

\* Publishing a final report, or failing to, accounts for the job.
LEMMA ReportAccounts ==
    ASSUME TypeOK, NEW w \in Workers, NEW kind \in {"done", "abandoned"}, Report(w, kind),
           job[w] \in Jobs
    PROVE  /\ \A j \in Jobs : Accounted(j) => Accounted(j)'
           /\ reported'[job[w]] # {} \/ unpublished'[job[w]] # {}
<1>1. CASE online[w]
  <2>1. \A j \in Jobs :
          reported'[j] = IF j = job[w] THEN reported[j] \cup {kind} ELSE reported[j]
    BY <1>1, SMT DEF TypeOK, Report
  <2>2. unpublished' = unpublished
    BY <1>1 DEF Report
  <2> QED
    BY <2>1, <2>2 DEF Accounted
<1>2. CASE ~online[w]
  <2>1. \A j \in Jobs :
          unpublished'[j] = IF j = job[w] THEN unpublished[j] \cup {kind} ELSE unpublished[j]
    BY <1>2, SMT DEF TypeOK, Report
  <2>2. reported' = reported
    BY <1>2 DEF Report
  <2> QED
    BY <2>1, <2>2 DEF Accounted
<1> QED
  BY <1>1, <1>2

\* Every action keeps every variable in its type.
THEOREM TypePreserved == TypeOK /\ [Next]_vars => TypeOK'
<1> SUFFICES ASSUME TypeOK, [Next]_vars PROVE TypeOK'
  OBVIOUS
<1> USE JobQueueAssumption DEF TypeOK, redis, history, faults, GoTo, NoJob
<1>1. ASSUME NEW j \in Jobs, Enqueue(j) PROVE TypeOK'
  BY <1>1, SMT DEF Enqueue
<1>2. ASSUME NEW w \in Workers, CheckStale(w) PROVE TypeOK'
  BY <1>2, SMT DEF CheckStale
<1>3. ASSUME NEW w \in Workers, NEW j \in Jobs, Claim(w, j) PROVE TypeOK'
  <2>1. CASE StartRun(w, j)
    BY <1>3, <2>1, SMT DEF Claim, Deliver, StartRun, NothingSeen
  <2>2. CASE /\ GoTo(w, "abandon") /\ job' = [job EXCEPT ![w] = j]
             /\ since' = [since EXCEPT ![w] = 0] /\ UNCHANGED <<late, runs>>
    BY <1>3, <2>2, SMT DEF Claim, Deliver, NothingSeen
  <2> QED
    BY <1>3, <2>1, <2>2 DEF Claim
<1>4. ASSUME NEW w \in Workers, NEW j \in Jobs, ClaimEmpty(w, j) PROVE TypeOK'
  BY <1>4, SMT DEF ClaimEmpty, Skip
<1>5. ASSUME NEW w \in Workers, ClaimError(w) PROVE TypeOK'
  BY <1>5, SMT DEF ClaimError, NothingSeen
<1>6. ASSUME NEW w \in Workers, NEW j \in Jobs, ClaimReplyLost(w, j) PROVE TypeOK'
  <2>1. CASE Skip(w, j)
    BY <1>6, <2>1, SMT DEF ClaimReplyLost, Deliver, Skip
  <2>2. CASE seen' = [seen EXCEPT ![w] = NothingSeen] /\ GoTo(w, "read")
    BY <1>6, <2>2, SMT DEF ClaimReplyLost, Deliver, NothingSeen
  <2> QED
    BY <1>6, <2>1, <2>2 DEF ClaimReplyLost
<1>7. ASSUME NEW w \in Workers, NEW j \in Jobs, ReadNew(w, j) PROVE TypeOK'
  BY <1>7, SMT DEF ReadNew, Deliver, StartRun
<1>8. ASSUME NEW w \in Workers, ReadNothing(w) PROVE TypeOK'
  BY <1>8, SMT DEF ReadNothing
<1>9. ASSUME NEW w \in Workers, NEW j \in Jobs, ReadReplyLost(w, j) PROVE TypeOK'
  BY <1>9, SMT DEF ReadReplyLost, Deliver
<1>10. ASSUME NEW w \in Workers, Renew(w) PROVE TypeOK'
  BY <1>10, SMT DEF Renew
<1>11. ASSUME NEW w \in Workers, FinishRun(w) PROVE TypeOK'
  BY <1>11, ReportTypes, SMT DEF FinishRun
<1>12. ASSUME NEW w \in Workers, Reject(w) PROVE TypeOK'
  BY <1>12, SMT DEF Reject
<1>13. ASSUME NEW w \in Workers, Abandon(w) PROVE TypeOK'
  BY <1>13, ReportTypes, SMT DEF Abandon
<1>14. ASSUME NEW w \in Workers, Ack(w) PROVE TypeOK'
  <2>1. CASE online[w]
    <3>1. entry' \in [Jobs -> {"absent", "new", "pending", "acked", "lost"}]
      BY <1>14, <2>1, Zenon DEF Ack
    <3>2. job' \in [Workers -> Jobs \cup {0}]
      BY <1>14, <2>1, SMT DEF Ack
    <3> QED
      BY <1>14, <2>1, <3>1, <3>2, SMT DEF Ack
  <2>2. CASE ~online[w]
    BY <1>14, <2>2, SMT DEF Ack
  <2> QED
    BY <2>1, <2>2
<1>15. ASSUME NEW w \in Workers, Crash(w) PROVE TypeOK'
  BY <1>15, SMT DEF Crash, NothingSeen
<1>16. ASSUME NEW w \in Workers, Restart(w) PROVE TypeOK'
  BY <1>16, SMT DEF Restart
<1>17. ASSUME NEW w \in Workers, CutLink(w) PROVE TypeOK'
  BY <1>17, SMT DEF CutLink
<1>18. ASSUME NEW w \in Workers, HealLink(w) PROVE TypeOK'
  BY <1>18, SMT DEF HealLink
<1>19. ASSUME Tick PROVE TypeOK'
  BY <1>19, SMT DEF Tick, Older
<1>20. CASE UNCHANGED vars
  BY <1>20, SMT DEF vars
<1>21. ASSUME NEW w \in Workers, ReadNoGroup(w) PROVE TypeOK'
  BY <1>21, SMT DEF ReadNoGroup
<1>22. ASSUME NEW w \in Workers, Regroup(w) PROVE TypeOK'
  <2>1. group' \in BOOLEAN
    BY <1>22, Zenon DEF Regroup
  <2> QED
    BY <1>22, <2>1, SMT DEF Regroup
<1>23. ASSUME Wipe PROVE TypeOK'
  <2>1. entry' \in [Jobs -> {"absent", "new", "pending", "acked", "lost"}]
    BY <1>23, Zenon DEF Wipe
  <2>2. owner' \in [Jobs -> Workers \cup {NoWorker}] /\ idle' \in [Jobs -> 0 .. StaleJobAfter]
    BY <1>23, SMT DEF Wipe
  <2>3. group' \in BOOLEAN
    BY <1>23, Zenon DEF Wipe
  <2>4. wipes' \in Nat
    <3>1. wipes' = wipes + 1
      BY <1>23 DEF Wipe
    <3> QED
      BY <3>1, SMT
  <2> QED
    BY <1>23, <2>1, <2>2, <2>3, <2>4, Zenon DEF Wipe
<1> QED
  BY <1>1, <1>2, <1>3, <1>4, <1>5, <1>6, <1>7, <1>8, <1>9, <1>10, <1>11, <1>12, <1>13, <1>14,
     <1>15, <1>16, <1>17, <1>18, <1>19, <1>20, <1>21, <1>22, <1>23 DEF Next, Step, Fault

-----------------------------------------------------------------------------
\* The inductive invariant holds before the first job is queued: no lease is
\* held and no XPENDING page is in use.
THEOREM InitIInv == Init => IInv
<1> SUFFICES ASSUME Init PROVE IInv
  OBVIOUS
<1>1. TypeOK
  BY InitTypeOK
<1> QED
  BY <1>1, JobQueueAssumption, SMT
  DEF Init, IInv, TypeOK, LeaseCovers, RenewsInTime, HeldIsDelivered, SeenIsFresh,
      RunsAreDeliveries, IdleHoldsNothing, AckIsAccounted, AckedIsAccounted, Accounted, Runs,
         NothingSeen

\* Every step of the coordinator, of a worker's main loop, of Redis' clock and of
\* the network keeps the inductive invariant.  The page of an XPENDING stays
\* usable because no entry is delivered twice within one pass of claimStale.
THEOREM IInvPreserved == IInv /\ [Next]_vars => IInv'
<1> SUFFICES ASSUME IInv, [Next]_vars PROVE IInv'
  OBVIOUS
<1> USE JobQueueAssumption DEF redis, history, faults, GoTo, NoJob
<1>0. TypeOK /\ TypeOK'
  BY TypePreserved DEF IInv
<1>1. ASSUME NEW j \in Jobs, Enqueue(j) PROVE IInv'
  <2>1. \A k \in Jobs : Accounted(k) => Accounted(k)'
    BY <1>1, Zenon DEF Accounted, Enqueue
  <2>2. LeaseCovers'
    BY <1>0, <1>1, SMT DEF IInv, LeaseCovers, Runs, HeldIsDelivered, TypeOK, Enqueue
  <2>3. HeldIsDelivered'
    BY <1>0, <1>1, SMT DEF IInv, HeldIsDelivered, TypeOK, Enqueue
  <2>4. SeenIsFresh'
    BY <1>0, <1>1, SMT DEF IInv, SeenIsFresh, HeldIsDelivered, TypeOK, Enqueue
  <2>5. RunsAreDeliveries'
    BY <1>0, <1>1, SMT DEF IInv, RunsAreDeliveries, TypeOK, Enqueue
  <2>6. AckedIsAccounted'
    BY <1>0, <1>1, <2>1, SMT DEF IInv, AckedIsAccounted, AckIsAccounted, HeldIsDelivered,
       TypeOK, Enqueue
  <2>7. IdleHoldsNothing' /\ RenewsInTime' /\ AckIsAccounted'
    BY <1>0, <1>1, Zenon DEF IInv, IdleHoldsNothing, RenewsInTime, AckIsAccounted, Accounted,
       Enqueue
  <2> QED
    BY <1>0, <2>1, <2>2, <2>3, <2>4, <2>5, <2>6, <2>7 DEF IInv
<1>2. ASSUME NEW w \in Workers, CheckStale(w) PROVE IInv'
  <2>1. \A k \in Jobs : Accounted(k) => Accounted(k)'
    BY <1>2, Zenon DEF Accounted, CheckStale
  <2>2. IdleHoldsNothing'
    BY <1>0, <1>2, SMT DEF IInv, IdleHoldsNothing, TypeOK, CheckStale, StalePage, Stale
  <2>3. LeaseCovers'
    BY <1>0, <1>2, SMT DEF IInv, LeaseCovers, Runs, HeldIsDelivered, TypeOK, CheckStale,
       StalePage, Stale
  <2>4. RenewsInTime'
    BY <1>0, <1>2, SMT DEF IInv, RenewsInTime, TypeOK, CheckStale, StalePage, Stale
  <2>5. HeldIsDelivered'
    BY <1>0, <1>2, SMT DEF IInv, HeldIsDelivered, TypeOK, CheckStale, StalePage, Stale
  <2>6. SeenIsFresh'
    BY <1>0, <1>2, SMT DEF IInv, SeenIsFresh, HeldIsDelivered, TypeOK, CheckStale, StalePage,
       Stale
  <2>7. AckIsAccounted'
    BY <1>0, <1>2, <2>1, SMT DEF IInv, AckIsAccounted, HeldIsDelivered, TypeOK, CheckStale,
       StalePage, Stale
  <2>8. RunsAreDeliveries' /\ AckedIsAccounted'
    BY <1>0, <1>2, Zenon DEF IInv, RunsAreDeliveries, AckedIsAccounted, AckIsAccounted,
       Accounted, CheckStale, StalePage, Stale
  <2> QED
    BY <1>0, <2>1, <2>2, <2>3, <2>4, <2>5, <2>6, <2>7, <2>8 DEF IInv
<1>3. ASSUME NEW w \in Workers, NEW j \in Jobs, Claim(w, j) PROVE IInv'
  <2>1. \A k \in Jobs : Accounted(k) => Accounted(k)'
    BY <1>3, Zenon DEF Accounted, Claim
  <2>2. IdleHoldsNothing'
    BY <1>0, <1>3, SMT DEF IInv, IdleHoldsNothing, TypeOK, Claim, Candidate, Claimable,
       Deliver, StartRun, NothingSeen, Exhausted
  <2>3. LeaseCovers'
    BY <1>0, <1>3, SMT DEF IInv, LeaseCovers, Runs, HeldIsDelivered, TypeOK, Claim,
       Candidate, Claimable, Deliver, StartRun, NothingSeen, Exhausted
  <2>4. RenewsInTime'
    BY <1>0, <1>3, SMT DEF IInv, RenewsInTime, TypeOK, Claim, Candidate, Claimable, Deliver,
       StartRun, NothingSeen, Exhausted
  <2>5. HeldIsDelivered'
    <3>1. CASE StartRun(w, j)
      BY <1>0, <1>3, <3>1, SMT DEF IInv, HeldIsDelivered, TypeOK, Claim, Claimable, Deliver,
         StartRun
    <3>2. CASE /\ ~StartRun(w, j) /\ GoTo(w, "abandon") /\ job' = [job EXCEPT ![w] = j]
               /\ UNCHANGED <<late, runs>>
      BY <1>0, <1>3, <3>2, SMT DEF IInv, HeldIsDelivered, TypeOK, Claim, Claimable, Deliver
    <3> QED
      BY <1>3, <3>1, <3>2 DEF Claim
  <2>6. SeenIsFresh'
    BY <1>0, <1>3, SMT DEF IInv, SeenIsFresh, HeldIsDelivered, TypeOK, Claim, Candidate,
       Claimable, Deliver, StartRun, NothingSeen, Exhausted
  <2>7. RunsAreDeliveries'
    <3>1. CASE StartRun(w, j)
      <4>1. seen[w][j] \in Nat /\ seen[w][j] > 0 /\ seen[w][j] < MaxDeliveries
        BY <1>0, <1>3, <3>1, SMT DEF TypeOK, Claim, Candidate, StartRun, Exhausted, GoTo
      <4>2. deliveries[j] = seen[w][j]
        <5>1. entry[j] = "pending" /\ idle[j] >= StaleJobAfter
          BY <1>3 DEF Claim, Claimable
        <5>2. since[w] <= ClaimLatency /\ (deliveries[j] = seen[w][j] \/ idle[j] <= since[w])
          BY <4>1, <5>1 DEF IInv, SeenIsFresh
        <5>3. since[w] \in Nat /\ idle[j] \in Nat
          BY <1>0, SMT DEF TypeOK
        <5> QED
          BY <5>1, <5>2, <5>3, SMT
      <4> QED
        BY <1>0, <1>3, <3>1, <4>1, <4>2, SMT DEF IInv, RunsAreDeliveries, TypeOK, Claim,
           Deliver, StartRun
    <3>2. CASE runs' = runs
      BY <1>0, <1>3, <3>2, SMT DEF IInv, RunsAreDeliveries, TypeOK, Claim, Deliver
    <3> QED
      BY <1>3, <3>1, <3>2 DEF Claim
  <2>8. AckIsAccounted'
    <3>1. \A v \in Workers : pc'[v] = "ack" => v # w /\ pc[v] = "ack" /\ job'[v] = job[v]
      BY <1>0, <1>3, SMT DEF Claim, StartRun, TypeOK
    <3> QED
      BY <2>1, <3>1, Zenon DEF IInv, AckIsAccounted, HeldIsDelivered
  <2>9. AckedIsAccounted'
    BY <1>0, <1>3, <2>1, SMT DEF IInv, AckedIsAccounted, AckIsAccounted, HeldIsDelivered,
       TypeOK, Claim, Candidate, Claimable, Deliver, StartRun, NothingSeen, Exhausted
  <2> QED
    BY <1>0, <2>1, <2>2, <2>3, <2>4, <2>5, <2>6, <2>7, <2>8, <2>9 DEF IInv
<1>4. ASSUME NEW w \in Workers, NEW j \in Jobs, ClaimEmpty(w, j) PROVE IInv'
  <2>1. \A k \in Jobs : Accounted(k) => Accounted(k)'
    BY <1>4, Zenon DEF Accounted, ClaimEmpty
  <2>2. IdleHoldsNothing'
    BY <1>0, <1>4, SMT DEF IInv, IdleHoldsNothing, TypeOK, ClaimEmpty, Skip
  <2>3. LeaseCovers'
    BY <1>0, <1>4, SMT DEF IInv, LeaseCovers, Runs, HeldIsDelivered, TypeOK, ClaimEmpty, Skip
  <2>4. RenewsInTime'
    BY <1>0, <1>4, SMT DEF IInv, RenewsInTime, TypeOK, ClaimEmpty, Skip
  <2>5. HeldIsDelivered'
    BY <1>0, <1>4, SMT DEF IInv, HeldIsDelivered, TypeOK, ClaimEmpty, Skip
  <2>6. SeenIsFresh'
    BY <1>0, <1>4, SMT DEF IInv, SeenIsFresh, HeldIsDelivered, TypeOK, ClaimEmpty, Skip
  <2>7. AckIsAccounted'
    BY <1>0, <1>4, <2>1, SMT DEF IInv, AckIsAccounted, HeldIsDelivered, TypeOK, ClaimEmpty, Skip
  <2>8. RunsAreDeliveries' /\ AckedIsAccounted'
    BY <1>0, <1>4, Zenon DEF IInv, RunsAreDeliveries, AckedIsAccounted, AckIsAccounted,
       Accounted, ClaimEmpty, Skip
  <2> QED
    BY <1>0, <2>1, <2>2, <2>3, <2>4, <2>5, <2>6, <2>7, <2>8 DEF IInv
<1>5. ASSUME NEW w \in Workers, ClaimError(w) PROVE IInv'
  <2>1. \A k \in Jobs : Accounted(k) => Accounted(k)'
    BY <1>5, Zenon DEF Accounted, ClaimError
  <2>2. IdleHoldsNothing'
    BY <1>0, <1>5, SMT DEF IInv, IdleHoldsNothing, TypeOK, ClaimError, NothingSeen
  <2>3. LeaseCovers'
    BY <1>0, <1>5, SMT DEF IInv, LeaseCovers, Runs, HeldIsDelivered, TypeOK, ClaimError,
       NothingSeen
  <2>4. RenewsInTime'
    BY <1>0, <1>5, SMT DEF IInv, RenewsInTime, TypeOK, ClaimError, NothingSeen
  <2>5. HeldIsDelivered'
    BY <1>0, <1>5, SMT DEF IInv, HeldIsDelivered, TypeOK, ClaimError, NothingSeen
  <2>6. SeenIsFresh'
    BY <1>0, <1>5, SMT DEF IInv, SeenIsFresh, HeldIsDelivered, TypeOK, ClaimError, NothingSeen
  <2>7. AckIsAccounted'
    BY <1>0, <1>5, <2>1, SMT DEF IInv, AckIsAccounted, HeldIsDelivered, TypeOK, ClaimError,
       NothingSeen
  <2>8. RunsAreDeliveries' /\ AckedIsAccounted'
    BY <1>0, <1>5, Zenon DEF IInv, RunsAreDeliveries, AckedIsAccounted, AckIsAccounted,
       Accounted, ClaimError, NothingSeen
  <2> QED
    BY <1>0, <2>1, <2>2, <2>3, <2>4, <2>5, <2>6, <2>7, <2>8 DEF IInv
<1>6. ASSUME NEW w \in Workers, NEW j \in Jobs, ClaimReplyLost(w, j) PROVE IInv'
  <2>1. \A k \in Jobs : Accounted(k) => Accounted(k)'
    BY <1>6, Zenon DEF Accounted, ClaimReplyLost
  <2>2. IdleHoldsNothing'
    BY <1>0, <1>6, SMT DEF IInv, IdleHoldsNothing, TypeOK, ClaimReplyLost, Candidate,
       Claimable, Deliver, Skip, NothingSeen
  <2>3. LeaseCovers'
    BY <1>0, <1>6, SMT DEF IInv, LeaseCovers, Runs, HeldIsDelivered, TypeOK, ClaimReplyLost,
       Candidate, Claimable, Deliver, Skip, NothingSeen
  <2>4. RenewsInTime'
    BY <1>0, <1>6, SMT DEF IInv, RenewsInTime, TypeOK, ClaimReplyLost, Candidate, Claimable,
       Deliver, Skip, NothingSeen
  <2>5. HeldIsDelivered'
    BY <1>0, <1>6, SMT DEF IInv, HeldIsDelivered, TypeOK, ClaimReplyLost, Candidate,
       Claimable, Deliver, Skip, NothingSeen
  <2>6. SeenIsFresh'
    BY <1>0, <1>6, SMT DEF IInv, SeenIsFresh, HeldIsDelivered, TypeOK, ClaimReplyLost,
       Candidate, Claimable, Deliver, Skip, NothingSeen
  <2>7. RunsAreDeliveries'
    BY <1>0, <1>6, SMT DEF IInv, RunsAreDeliveries, TypeOK, ClaimReplyLost, Candidate,
       Claimable, Deliver, Skip, NothingSeen
  <2>8. AckIsAccounted'
    <3>1. \A v \in Workers : pc'[v] = "ack" => v # w /\ pc[v] = "ack" /\ job'[v] = job[v]
      BY <1>0, <1>6, SMT DEF ClaimReplyLost, Skip, TypeOK
    <3> QED
      BY <2>1, <3>1, Zenon DEF IInv, AckIsAccounted, HeldIsDelivered
  <2>9. AckedIsAccounted'
    BY <1>0, <1>6, <2>1, SMT DEF IInv, AckedIsAccounted, AckIsAccounted, HeldIsDelivered,
       TypeOK, ClaimReplyLost, Candidate, Claimable, Deliver, Skip, NothingSeen
  <2> QED
    BY <1>0, <2>1, <2>2, <2>3, <2>4, <2>5, <2>6, <2>7, <2>8, <2>9 DEF IInv
<1>7. ASSUME NEW w \in Workers, NEW j \in Jobs, ReadNew(w, j) PROVE IInv'
  <2>1. \A k \in Jobs : Accounted(k) => Accounted(k)'
    BY <1>7, Zenon DEF Accounted, ReadNew
  <2>2. IdleHoldsNothing'
    BY <1>0, <1>7, SMT DEF IInv, IdleHoldsNothing, TypeOK, ReadNew, NextNew, Deliver, StartRun
  <2>3. LeaseCovers'
    BY <1>0, <1>7, SMT DEF IInv, LeaseCovers, Runs, HeldIsDelivered, TypeOK, ReadNew,
       NextNew, Deliver, StartRun
  <2>4. RenewsInTime'
    BY <1>0, <1>7, SMT DEF IInv, RenewsInTime, TypeOK, ReadNew, NextNew, Deliver, StartRun
  <2>5. HeldIsDelivered'
    BY <1>0, <1>7, SMT DEF IInv, HeldIsDelivered, TypeOK, ReadNew, NextNew, Deliver, StartRun
  <2>6. SeenIsFresh'
    BY <1>0, <1>7, SMT DEF IInv, SeenIsFresh, HeldIsDelivered, TypeOK, ReadNew, NextNew,
       Deliver, StartRun
  <2>7. RunsAreDeliveries'
    BY <1>0, <1>7, SMT DEF IInv, RunsAreDeliveries, TypeOK, ReadNew, NextNew, Deliver, StartRun
  <2>8. AckIsAccounted'
    BY <1>0, <1>7, <2>1, SMT DEF IInv, AckIsAccounted, HeldIsDelivered, TypeOK, ReadNew,
       NextNew, Deliver, StartRun
  <2>9. AckedIsAccounted'
    BY <1>0, <1>7, <2>1, SMT DEF IInv, AckedIsAccounted, AckIsAccounted, HeldIsDelivered,
       TypeOK, ReadNew, NextNew, Deliver, StartRun
  <2> QED
    BY <1>0, <2>1, <2>2, <2>3, <2>4, <2>5, <2>6, <2>7, <2>8, <2>9 DEF IInv
<1>8. ASSUME NEW w \in Workers, ReadNothing(w) PROVE IInv'
  <2>1. \A k \in Jobs : Accounted(k) => Accounted(k)'
    BY <1>8, Zenon DEF Accounted, ReadNothing
  <2>2. IdleHoldsNothing'
    BY <1>0, <1>8, SMT DEF IInv, IdleHoldsNothing, TypeOK, ReadNothing
  <2>3. LeaseCovers'
    BY <1>0, <1>8, SMT DEF IInv, LeaseCovers, Runs, HeldIsDelivered, TypeOK, ReadNothing
  <2>4. RenewsInTime'
    BY <1>0, <1>8, SMT DEF IInv, RenewsInTime, TypeOK, ReadNothing
  <2>5. HeldIsDelivered'
    BY <1>0, <1>8, SMT DEF IInv, HeldIsDelivered, TypeOK, ReadNothing
  <2>6. SeenIsFresh'
    BY <1>0, <1>8, SMT DEF IInv, SeenIsFresh, HeldIsDelivered, TypeOK, ReadNothing
  <2>7. AckIsAccounted'
    BY <1>0, <1>8, <2>1, SMT DEF IInv, AckIsAccounted, HeldIsDelivered, TypeOK, ReadNothing
  <2>8. RunsAreDeliveries' /\ AckedIsAccounted'
    BY <1>0, <1>8, Zenon DEF IInv, RunsAreDeliveries, AckedIsAccounted, AckIsAccounted,
       Accounted, ReadNothing
  <2> QED
    BY <1>0, <2>1, <2>2, <2>3, <2>4, <2>5, <2>6, <2>7, <2>8 DEF IInv
<1>9. ASSUME NEW w \in Workers, NEW j \in Jobs, ReadReplyLost(w, j) PROVE IInv'
  <2>1. \A k \in Jobs : Accounted(k) => Accounted(k)'
    BY <1>9, Zenon DEF Accounted, ReadReplyLost
  <2>2. IdleHoldsNothing'
    BY <1>0, <1>9, SMT DEF IInv, IdleHoldsNothing, TypeOK, ReadReplyLost, NextNew, Deliver
  <2>3. LeaseCovers'
    BY <1>0, <1>9, SMT DEF IInv, LeaseCovers, Runs, HeldIsDelivered, TypeOK, ReadReplyLost,
       NextNew, Deliver
  <2>4. RenewsInTime'
    BY <1>0, <1>9, SMT DEF IInv, RenewsInTime, TypeOK, ReadReplyLost, NextNew, Deliver
  <2>5. HeldIsDelivered'
    BY <1>0, <1>9, SMT DEF IInv, HeldIsDelivered, TypeOK, ReadReplyLost, NextNew, Deliver
  <2>6. SeenIsFresh'
    BY <1>0, <1>9, SMT DEF IInv, SeenIsFresh, HeldIsDelivered, TypeOK, ReadReplyLost,
       NextNew, Deliver
  <2>7. RunsAreDeliveries'
    BY <1>0, <1>9, SMT DEF IInv, RunsAreDeliveries, TypeOK, ReadReplyLost, NextNew, Deliver
  <2>8. AckIsAccounted'
    BY <1>0, <1>9, <2>1, SMT DEF IInv, AckIsAccounted, HeldIsDelivered, TypeOK,
       ReadReplyLost, NextNew, Deliver
  <2>9. AckedIsAccounted'
    BY <1>0, <1>9, <2>1, SMT DEF IInv, AckedIsAccounted, AckIsAccounted, HeldIsDelivered,
       TypeOK, ReadReplyLost, NextNew, Deliver
  <2> QED
    BY <1>0, <2>1, <2>2, <2>3, <2>4, <2>5, <2>6, <2>7, <2>8, <2>9 DEF IInv
<1>10. ASSUME NEW w \in Workers, Renew(w) PROVE IInv'
  <2>1. LeaseCovers'
    BY <1>0, <1>10, SMT DEF IInv, LeaseCovers, Runs, HeldIsDelivered, TypeOK, Renew
  <2>2. RenewsInTime'
    BY <1>0, <1>10, SMT DEF IInv, RenewsInTime, TypeOK, Renew
  <2>3. SeenIsFresh'
    <3> SUFFICES ASSUME NEW v \in Workers, NEW k \in Jobs, seen[v][k] > 0
                 PROVE  /\ pc[v] = "claim" /\ since'[v] <= ClaimLatency
                        /\ entry[k] \in {"pending", "acked", "lost"}
                        /\ deliveries[k] = seen[v][k] \/ idle'[k] <= since'[v]
                           \/ entry[k] \in {"acked", "lost"}
      BY <1>10 DEF SeenIsFresh, Renew
    <3>1. v # w /\ since'[v] = since[v] /\ since[v] \in Nat
      BY <1>0, <1>10, SMT DEF IInv, SeenIsFresh, TypeOK, Renew
    <3>2. idle'[k] = idle[k] \/ idle'[k] = 0
      BY <1>0, <1>10, SMT DEF TypeOK, Renew
    <3> QED
      BY <3>1, <3>2, SMT DEF IInv, SeenIsFresh
  <2>4. IdleHoldsNothing' /\ HeldIsDelivered' /\ RunsAreDeliveries' /\ AckIsAccounted' /\ AckedIsAccounted'
    BY <1>0, <1>10, Zenon DEF IInv, IdleHoldsNothing, HeldIsDelivered, RunsAreDeliveries,
       AckIsAccounted, AckedIsAccounted, Accounted, Renew
  <2> QED
    BY <1>0, <2>1, <2>2, <2>3, <2>4 DEF IInv
<1>11. ASSUME NEW w \in Workers, FinishRun(w) PROVE IInv'
  <2>1. (\A k \in Jobs : Accounted(k) => Accounted(k)') /\ Accounted(job[w])'
    <3>1. job[w] \in Jobs /\ job' = job /\ Report(w, "done")
      BY <1>11, Zenon DEF IInv, HeldIsDelivered, FinishRun
    <3> QED
      BY <1>0, <3>1, ReportAccounts DEF Accounted
  <2>2. IdleHoldsNothing'
    BY <1>0, <1>11, SMT DEF IInv, IdleHoldsNothing, TypeOK, FinishRun, Report
  <2>3. LeaseCovers'
    BY <1>0, <1>11, SMT DEF IInv, LeaseCovers, Runs, HeldIsDelivered, TypeOK, FinishRun, Report
  <2>4. RenewsInTime'
    BY <1>0, <1>11, SMT DEF IInv, RenewsInTime, TypeOK, FinishRun, Report
  <2>5. HeldIsDelivered'
    BY <1>0, <1>11, SMT DEF IInv, HeldIsDelivered, TypeOK, FinishRun, Report
  <2>6. SeenIsFresh'
    BY <1>0, <1>11, SMT DEF IInv, SeenIsFresh, HeldIsDelivered, TypeOK, FinishRun, Report
  <2>7. AckIsAccounted'
    BY <1>0, <1>11, <2>1, SMT DEF IInv, AckIsAccounted, HeldIsDelivered, TypeOK, FinishRun,
       Report
  <2>8. AckedIsAccounted'
    BY <1>0, <1>11, <2>1, SMT DEF IInv, AckedIsAccounted, AckIsAccounted, HeldIsDelivered,
       TypeOK, FinishRun, Report
  <2>9. RunsAreDeliveries'
    BY <1>0, <1>11, Zenon DEF IInv, RunsAreDeliveries, FinishRun, Report
  <2> QED
    BY <1>0, <2>1, <2>2, <2>3, <2>4, <2>5, <2>6, <2>7, <2>8, <2>9 DEF IInv
<1>12. ASSUME NEW w \in Workers, Reject(w) PROVE IInv'
  <2>1. \A k \in Jobs : Accounted(k) => Accounted(k)'
    BY <1>12, Zenon DEF Accounted, Reject
  <2>2. IdleHoldsNothing'
    BY <1>0, <1>12, SMT DEF IInv, IdleHoldsNothing, TypeOK, Reject
  <2>3. LeaseCovers'
    BY <1>0, <1>12, SMT DEF IInv, LeaseCovers, Runs, HeldIsDelivered, TypeOK, Reject
  <2>4. RenewsInTime'
    BY <1>0, <1>12, SMT DEF IInv, RenewsInTime, TypeOK, Reject
  <2>5. HeldIsDelivered'
    BY <1>0, <1>12, SMT DEF IInv, HeldIsDelivered, TypeOK, Reject
  <2>6. SeenIsFresh'
    BY <1>0, <1>12, SMT DEF IInv, SeenIsFresh, HeldIsDelivered, TypeOK, Reject
  <2>7. AckIsAccounted'
    <3>1. Accounted(job[w])'
      BY <1>12 DEF Accounted, Reject
    <3> QED
      BY <1>0, <1>12, <2>1, <3>1, SMT DEF IInv, AckIsAccounted, HeldIsDelivered, TypeOK, Reject
  <2>8. RunsAreDeliveries' /\ AckedIsAccounted'
    BY <1>0, <1>12, Zenon DEF IInv, RunsAreDeliveries, AckedIsAccounted, AckIsAccounted,
       Accounted, Reject
  <2> QED
    BY <1>0, <2>1, <2>2, <2>3, <2>4, <2>5, <2>6, <2>7, <2>8 DEF IInv
<1>13. ASSUME NEW w \in Workers, Abandon(w) PROVE IInv'
  <2>1. (\A k \in Jobs : Accounted(k) => Accounted(k)') /\ Accounted(job[w])'
    <3>1. job[w] \in Jobs /\ job' = job /\ Report(w, "abandoned")
      BY <1>13, Zenon DEF IInv, HeldIsDelivered, Abandon
    <3> QED
      BY <1>0, <3>1, ReportAccounts DEF Accounted
  <2>2. IdleHoldsNothing'
    BY <1>0, <1>13, SMT DEF IInv, IdleHoldsNothing, TypeOK, Abandon, Report
  <2>3. LeaseCovers'
    BY <1>0, <1>13, SMT DEF IInv, LeaseCovers, Runs, HeldIsDelivered, TypeOK, Abandon, Report
  <2>4. RenewsInTime'
    BY <1>0, <1>13, SMT DEF IInv, RenewsInTime, TypeOK, Abandon, Report
  <2>5. HeldIsDelivered'
    BY <1>0, <1>13, SMT DEF IInv, HeldIsDelivered, TypeOK, Abandon, Report
  <2>6. SeenIsFresh'
    BY <1>0, <1>13, SMT DEF IInv, SeenIsFresh, HeldIsDelivered, TypeOK, Abandon, Report
  <2>7. AckIsAccounted'
    BY <1>0, <1>13, <2>1, SMT DEF IInv, AckIsAccounted, HeldIsDelivered, TypeOK, Abandon, Report
  <2>8. AckedIsAccounted'
    BY <1>0, <1>13, <2>1, SMT DEF IInv, AckedIsAccounted, AckIsAccounted, HeldIsDelivered,
       TypeOK, Abandon, Report
  <2>9. RunsAreDeliveries'
    BY <1>0, <1>13, Zenon DEF IInv, RunsAreDeliveries, Abandon, Report
  <2> QED
    BY <1>0, <2>1, <2>2, <2>3, <2>4, <2>5, <2>6, <2>7, <2>8, <2>9 DEF IInv
<1>14. ASSUME NEW w \in Workers, Ack(w) PROVE IInv'
  <2>1. \A k \in Jobs : Accounted(k) => Accounted(k)'
    BY <1>14, Zenon DEF Accounted, Ack
  <2>2. IdleHoldsNothing'
    BY <1>0, <1>14, SMT DEF IInv, IdleHoldsNothing, TypeOK, Ack
  <2>3. LeaseCovers'
    BY <1>0, <1>14, SMT DEF IInv, LeaseCovers, Runs, HeldIsDelivered, TypeOK, Ack
  <2>4. RenewsInTime'
    BY <1>0, <1>14, SMT DEF IInv, RenewsInTime, TypeOK, Ack
  <2>5. HeldIsDelivered'
    BY <1>0, <1>14, SMT DEF IInv, HeldIsDelivered, TypeOK, Ack
  <2>6. SeenIsFresh'
    BY <1>0, <1>14, SMT DEF IInv, SeenIsFresh, HeldIsDelivered, TypeOK, Ack
  <2>7. RunsAreDeliveries'
    BY <1>0, <1>14, SMT DEF IInv, RunsAreDeliveries, TypeOK, Ack
  <2>8. AckIsAccounted'
    BY <1>0, <1>14, <2>1, SMT DEF IInv, AckIsAccounted, HeldIsDelivered, TypeOK, Ack
  <2>9. AckedIsAccounted'
    BY <1>0, <1>14, <2>1, SMT DEF IInv, AckedIsAccounted, AckIsAccounted, HeldIsDelivered,
       TypeOK, Ack
  <2> QED
    BY <1>0, <2>1, <2>2, <2>3, <2>4, <2>5, <2>6, <2>7, <2>8, <2>9 DEF IInv
<1>15. ASSUME NEW w \in Workers, Crash(w) PROVE IInv'
  <2>1. \A k \in Jobs : Accounted(k) => Accounted(k)'
    BY <1>15, Zenon DEF Accounted, Crash
  <2>2. IdleHoldsNothing'
    BY <1>0, <1>15, SMT DEF IInv, IdleHoldsNothing, TypeOK, Crash, NothingSeen
  <2>3. LeaseCovers'
    BY <1>0, <1>15, SMT DEF IInv, LeaseCovers, Runs, HeldIsDelivered, TypeOK, Crash, NothingSeen
  <2>4. RenewsInTime'
    BY <1>0, <1>15, SMT DEF IInv, RenewsInTime, TypeOK, Crash, NothingSeen
  <2>5. HeldIsDelivered'
    BY <1>0, <1>15, SMT DEF IInv, HeldIsDelivered, TypeOK, Crash, NothingSeen
  <2>6. SeenIsFresh'
    BY <1>0, <1>15, SMT DEF IInv, SeenIsFresh, HeldIsDelivered, TypeOK, Crash, NothingSeen
  <2>7. AckIsAccounted'
    BY <1>0, <1>15, <2>1, SMT DEF IInv, AckIsAccounted, HeldIsDelivered, TypeOK, Crash,
       NothingSeen
  <2>8. RunsAreDeliveries' /\ AckedIsAccounted'
    BY <1>0, <1>15, Zenon DEF IInv, RunsAreDeliveries, AckedIsAccounted, AckIsAccounted,
       Accounted, Crash, NothingSeen
  <2> QED
    BY <1>0, <2>1, <2>2, <2>3, <2>4, <2>5, <2>6, <2>7, <2>8 DEF IInv
<1>16. ASSUME NEW w \in Workers, Restart(w) PROVE IInv'
  <2>1. \A k \in Jobs : Accounted(k) => Accounted(k)'
    BY <1>16, Zenon DEF Accounted, Restart
  <2>2. IdleHoldsNothing'
    BY <1>0, <1>16, SMT DEF IInv, IdleHoldsNothing, TypeOK, Restart
  <2>3. LeaseCovers'
    BY <1>0, <1>16, SMT DEF IInv, LeaseCovers, Runs, HeldIsDelivered, TypeOK, Restart
  <2>4. RenewsInTime'
    BY <1>0, <1>16, SMT DEF IInv, RenewsInTime, TypeOK, Restart
  <2>5. HeldIsDelivered'
    BY <1>0, <1>16, SMT DEF IInv, HeldIsDelivered, TypeOK, Restart
  <2>6. SeenIsFresh'
    BY <1>0, <1>16, SMT DEF IInv, SeenIsFresh, HeldIsDelivered, TypeOK, Restart
  <2>7. AckIsAccounted'
    BY <1>0, <1>16, <2>1, SMT DEF IInv, AckIsAccounted, HeldIsDelivered, TypeOK, Restart
  <2>8. RunsAreDeliveries' /\ AckedIsAccounted'
    BY <1>0, <1>16, Zenon DEF IInv, RunsAreDeliveries, AckedIsAccounted, AckIsAccounted,
       Accounted, Restart
  <2> QED
    BY <1>0, <2>1, <2>2, <2>3, <2>4, <2>5, <2>6, <2>7, <2>8 DEF IInv
<1>17. ASSUME NEW w \in Workers, CutLink(w) PROVE IInv'
  <2>1. RenewsInTime'
    BY <1>0, <1>17, SMT DEF IInv, RenewsInTime, TypeOK, CutLink
  <2>2. IdleHoldsNothing' /\ LeaseCovers' /\ HeldIsDelivered' /\ SeenIsFresh' /\ RunsAreDeliveries' /\ AckIsAccounted' /\ AckedIsAccounted'
    BY <1>0, <1>17, Zenon DEF IInv, IdleHoldsNothing, LeaseCovers, Runs, HeldIsDelivered,
       SeenIsFresh, RunsAreDeliveries, AckIsAccounted, AckedIsAccounted, Accounted, CutLink
  <2> QED
    BY <1>0, <2>1, <2>2 DEF IInv
<1>18. ASSUME NEW w \in Workers, HealLink(w) PROVE IInv'
  <2>1. IdleHoldsNothing' /\ LeaseCovers' /\ RenewsInTime' /\ HeldIsDelivered' /\ SeenIsFresh' /\ RunsAreDeliveries' /\ AckIsAccounted' /\ AckedIsAccounted'
    BY <1>0, <1>18, Zenon DEF IInv, IdleHoldsNothing, LeaseCovers, Runs, RenewsInTime,
       HeldIsDelivered, SeenIsFresh, RunsAreDeliveries, AckIsAccounted, AckedIsAccounted,
          Accounted, HealLink
  <2> QED
    BY <1>0, <2>1 DEF IInv
<1>19. ASSUME Tick PROVE IInv'
  <2>1. LeaseCovers'
    BY <1>0, <1>19, SMT DEF IInv, LeaseCovers, Runs, HeldIsDelivered, TypeOK, Tick, Older
  <2>2. RenewsInTime'
    BY <1>0, <1>19, SMT DEF IInv, RenewsInTime, TypeOK, Tick, Older
  <2>3. SeenIsFresh'
    BY <1>0, <1>19, SMT DEF IInv, SeenIsFresh, HeldIsDelivered, TypeOK, Tick, Older
  <2>4. IdleHoldsNothing' /\ HeldIsDelivered' /\ RunsAreDeliveries' /\ AckIsAccounted' /\ AckedIsAccounted'
    BY <1>0, <1>19, Zenon DEF IInv, IdleHoldsNothing, HeldIsDelivered, RunsAreDeliveries,
       AckIsAccounted, AckedIsAccounted, Accounted, Tick, Older
  <2> QED
    BY <1>0, <2>1, <2>2, <2>3, <2>4 DEF IInv
<1>20. CASE UNCHANGED vars
  BY <1>0, <1>20, Zenon
  DEF vars, IInv, LeaseCovers, RenewsInTime, HeldIsDelivered, SeenIsFresh,
      RunsAreDeliveries, IdleHoldsNothing, AckIsAccounted, AckedIsAccounted, Accounted, Runs
<1>21. ASSUME NEW w \in Workers, ReadNoGroup(w) \/ Regroup(w) PROVE IInv'
  <2>1. /\ UNCHANGED <<entry, owner, idle, deliveries, job, seen, since, online, late, history>>
        /\ pc[w] \in {"read", "regroup"} /\ pc'[w] \in {"regroup", "check"}
        /\ \A v \in Workers \ {w} : pc'[v] = pc[v]
    BY <1>0, <1>21, SMT DEF TypeOK, ReadNoGroup, Regroup
  <2>2. LeaseCovers' /\ RenewsInTime'
    BY <2>1, Zenon DEF IInv, LeaseCovers, RenewsInTime, Runs
  <2>3. HeldIsDelivered' /\ AckIsAccounted'
    BY <2>1, Zenon DEF IInv, HeldIsDelivered, AckIsAccounted, Accounted
  <2>4. SeenIsFresh'
    BY <2>1, Zenon DEF IInv, SeenIsFresh
  <2>5. IdleHoldsNothing'
    BY <2>1, Zenon DEF IInv, IdleHoldsNothing
  <2>6. RunsAreDeliveries' /\ AckedIsAccounted'
    BY <2>1, Zenon DEF IInv, RunsAreDeliveries, AckedIsAccounted, Accounted
  <2> QED
    BY <1>0, <2>2, <2>3, <2>4, <2>5, <2>6 DEF IInv
<1>22. ASSUME Wipe PROVE IInv'
  <2>1. \A j \in Jobs :
          /\ entry[j] \in {"new", "pending"} => entry'[j] = "lost"
          /\ entry[j] \notin {"new", "pending"} => entry'[j] = entry[j]
          /\ idle'[j] = 0
    BY <1>0, <1>22, SMT DEF TypeOK, Wipe
  <2>2. UNCHANGED <<deliveries, pc, job, seen, since, online, late, history>>
    BY <1>22 DEF Wipe
  <2>3. LeaseCovers'
    BY <2>1, <2>2, Zenon DEF LeaseCovers
  <2>4. HeldIsDelivered'
    BY <2>1, <2>2, Zenon DEF IInv, HeldIsDelivered
  <2>5. SeenIsFresh'
    BY <2>1, <2>2, Zenon DEF IInv, SeenIsFresh
  <2>6. RunsAreDeliveries'
    BY <2>1, <2>2, Zenon DEF IInv, RunsAreDeliveries
  <2>7. AckedIsAccounted'
    BY <2>1, <2>2, Zenon DEF IInv, AckedIsAccounted, Accounted
  <2>8. RenewsInTime' /\ IdleHoldsNothing' /\ AckIsAccounted'
    BY <2>2, Zenon DEF IInv, RenewsInTime, IdleHoldsNothing, AckIsAccounted, Accounted
  <2> QED
    BY <1>0, <2>3, <2>4, <2>5, <2>6, <2>7, <2>8 DEF IInv
<1> QED
  BY <1>1, <1>2, <1>3, <1>4, <1>5, <1>6, <1>7, <1>8, <1>9, <1>10,
     <1>11, <1>12, <1>13, <1>14, <1>15, <1>16, <1>17, <1>18, <1>19, <1>20, <1>21, <1>22
  DEF Next, Step, Fault

\* The inductive invariant holds in every reachable state of the job queue.
THEOREM SpecIInv == Spec => []IInv
BY InitIInv, IInvPreserved, PTL DEF Spec

-----------------------------------------------------------------------------
\* Spec keeps every variable in its type.
THEOREM SpecTypeOK == Spec => []TypeOK
BY SpecIInv, PTL DEF IInv

(***************************************************************************)
(* Whatever the races between XPENDING and XCLAIM, the crashes and the     *)
(* lost replies, no job is started more than MaxDeliveries times.          *)
(***************************************************************************)
THEOREM SpecRunsBounded == Spec => []RunsBounded
<1>1. IInv => RunsBounded
  BY DEF IInv, RunsAreDeliveries, RunsBounded
<1> QED
  BY <1>1, SpecIInv, PTL

(***************************************************************************)
(* An acknowledged job was reported, or its report failed, or it was       *)
(* rejected: a crash between any two steps never loses a job silently.     *)
(***************************************************************************)
THEOREM SpecAckedIsAccounted == Spec => []AckedIsAccounted
BY SpecIInv, PTL DEF IInv

\* A delivery leaves alone every job that a worker runs on a good link.
LEMMA DeliverySparesHealthyRuns ==
    ASSUME IInv, [Next]_vars, NEW k \in Jobs, deliveries'[k] # deliveries[k],
           NEW v \in Workers, Runs(v, k)
    PROVE  v \in late
<1> USE JobQueueAssumption DEF redis, history, faults
<1>1. TypeOK
  BY DEF IInv
<1>2. \E w \in Workers, j \in Jobs :
        /\ Claim(w, j) \/ ClaimReplyLost(w, j) \/ ReadNew(w, j) \/ ReadReplyLost(w, j)
        /\ Deliver(j, w)
  BY SMT DEF Next, Step, Fault, vars, Enqueue, CheckStale, Claim, ClaimEmpty, ClaimError,
     ClaimReplyLost, ReadNew, ReadNothing, ReadReplyLost, Renew, FinishRun, Reject,
     Abandon, Ack, Crash, Restart, CutLink, HealLink, Tick, ReadNoGroup, Regroup, Wipe
<1>3. PICK w \in Workers, j \in Jobs :
        /\ Claim(w, j) \/ ClaimReplyLost(w, j) \/ ReadNew(w, j) \/ ReadReplyLost(w, j)
        /\ Deliver(j, w)
  BY <1>2
<1>4. j = k
  BY <1>1, <1>3, SMT DEF Deliver, TypeOK
<1>5. CASE Claimable(k)
  <2>1. idle[k] <= since[v]
    BY <1>5 DEF IInv, LeaseCovers, Claimable
  <2>2. v \notin late => since[v] <= LeaseRenewInterval + RenewLatency
    BY DEF IInv, RenewsInTime, Runs
  <2>3. since[v] \in Nat /\ idle[k] \in Nat
    BY <1>1, SMT DEF TypeOK
  <2> QED
    BY <1>5, <2>1, <2>2, <2>3, SMT DEF Claimable
<1>6. CASE entry[k] = "new"
  BY <1>6 DEF IInv, HeldIsDelivered, Runs
<1> QED
  BY <1>3, <1>4, <1>5, <1>6 DEF Claim, ClaimReplyLost, ReadNew, ReadReplyLost, NextNew

(***************************************************************************)
(* A job is delivered again only if each worker still running it has had   *)
(* its link cut since its last renewal.                                    *)
(***************************************************************************)
THEOREM SpecNoHealthyRunIsStolen == Spec => NoHealthyRunIsStolen
<1>1. IInv /\ [Next]_vars =>
        [\A j \in Jobs : deliveries'[j] # deliveries[j] =>
            \A w \in Workers : Runs(w, j) => w \in late]_vars
  BY DeliverySparesHealthyRuns
<1> QED
  BY <1>1, SpecIInv, PTL DEF Spec, NoHealthyRunIsStolen

(***************************************************************************)
(* As long as no link was cut, two workers never run the same job, however *)
(* many of them crash and however long the job runs.                       *)
(***************************************************************************)
THEOREM SpecSoleRunner == Spec => []SoleRunner
<1> DEFINE SInv == (cuts = 0 => late = {}) /\ SoleRunner
<1>1. Init => SInv
  BY SMT DEF Init, SoleRunner, Runs
<1>2. IInv /\ SInv /\ [Next]_vars => SInv'
  <2> SUFFICES ASSUME IInv, SInv, [Next]_vars PROVE SInv'
    OBVIOUS
  <2>1. TypeOK /\ TypeOK'
    BY TypePreserved DEF IInv
  <2>2. cuts' = 0 => cuts = 0 /\ late = {} /\ late' = {}
    BY <2>1, JobQueueAssumption, SMT
    DEF TypeOK, Next, Step, Fault, vars, redis, history, faults, Enqueue, CheckStale, Claim,
        StartRun, ClaimEmpty, ClaimError, ClaimReplyLost, ReadNew, ReadNothing,
        ReadReplyLost, Renew, FinishRun, Reject, Abandon, Ack, Crash, Restart, CutLink,
        HealLink, Tick, ReadNoGroup, Regroup, Wipe
  <2>3. ASSUME NEW u \in Workers, NEW v \in Workers, NEW k \in Jobs,
               cuts' = 0, Runs(u, k)', Runs(v, k)', u # v
        PROVE  FALSE
    <3>1. ASSUME NEW x \in Workers, Runs(x, k)', ~Runs(x, k)
          PROVE  deliveries'[k] # deliveries[k] /\ \A y \in Workers \ {x} : Runs(y,
             k)' => Runs(y, k)
      <4>1. \E w \in Workers, j \in Jobs :
              /\ Claim(w, j) \/ ReadNew(w, j)
              /\ Deliver(j, w) /\ StartRun(w, j)
        BY <2>1, <3>1, SMT
        DEF Runs, TypeOK, GoTo, Skip, Next, Step, Fault, vars, redis, history, faults,
            Enqueue, CheckStale, Claim, ClaimEmpty, ClaimError, ClaimReplyLost, ReadNew,
            ReadNothing, ReadReplyLost, Renew, FinishRun, Reject, Abandon, Ack, Crash,
            Restart, CutLink, HealLink, Tick, ReadNoGroup, Regroup, Wipe, NoJob
      <4>2. PICK w \in Workers, j \in Jobs : Deliver(j, w) /\ StartRun(w, j)
        BY <4>1
      <4>3. w = x /\ j = k
        BY <2>1, <3>1, <4>2, SMT DEF Runs, StartRun, TypeOK
      <4> QED
        BY <2>1, <4>2, <4>3, SMT DEF Runs, StartRun, Deliver, TypeOK
    <3>2. CASE Runs(u, k) /\ Runs(v, k)
      BY <2>2, <2>3, <3>2 DEF SoleRunner
    <3>3. CASE ~Runs(u, k)
      BY <2>2, <2>3, <3>1, <3>3, DeliverySparesHealthyRuns
    <3>4. CASE ~Runs(v, k)
      BY <2>2, <2>3, <3>1, <3>4, DeliverySparesHealthyRuns
    <3> QED
      BY <3>2, <3>3, <3>4
  <2> QED
    BY <2>2, <2>3 DEF SoleRunner
<1>3. SInv => SoleRunner
  OBVIOUS
<1> QED
  BY <1>1, <1>2, <1>3, SpecIInv, PTL DEF Spec

(***************************************************************************)
(* As long as no link was cut every acknowledged job was reported, or is   *)
(* one the worker rejects, whatever crashes in between.                    *)
(***************************************************************************)
THEOREM SpecAckedIsReported == Spec => []AckedIsReported
<1> DEFINE CInv == cuts = 0 => /\ \A w \in Workers : online[w]
                              /\ \A j \in Jobs : unpublished[j] = {}
<1>1. Init => CInv
  BY SMT DEF Init
<1>2. IInv /\ CInv /\ [Next]_vars => CInv'
  <2> SUFFICES ASSUME IInv, CInv, [Next]_vars PROVE CInv'
    OBVIOUS
  <2>1. TypeOK
    BY DEF IInv
  <2>2. cuts' = 0 => cuts = 0 /\ \A w \in Workers : online'[w]
    BY <2>1, JobQueueAssumption, SMT
    DEF TypeOK, Next, Step, Fault, vars, redis, history, faults, Enqueue, CheckStale, Claim,
        StartRun, ClaimEmpty, ClaimError, ClaimReplyLost, ReadNew, ReadNothing,
        ReadReplyLost, Renew, FinishRun, Reject, Abandon, Ack, Crash, Restart, CutLink,
        HealLink, Tick, ReadNoGroup, Regroup, Wipe
  <2>3. ASSUME cuts = 0 PROVE UNCHANGED unpublished
    <3>1. ASSUME NEW w \in Workers, FinishRun(w) \/ Abandon(w) PROVE UNCHANGED unpublished
      BY <2>3, <3>1, Zenon DEF FinishRun, Abandon, Report
    <3>2. ASSUME NEW w \in Workers, Step(w), ~FinishRun(w), ~Abandon(w)
          PROVE  UNCHANGED unpublished
      BY <3>2, SMT
      DEF Step, history, CheckStale, Claim, ClaimEmpty, ClaimError, ReadNew, ReadNothing,
          ReadNoGroup, Regroup, Renew, Reject, Ack, Restart
    <3>3. ASSUME NEW w \in Workers, Fault(w) \/ HealLink(w) PROVE UNCHANGED unpublished
      BY <3>3, SMT DEF Fault, history, ClaimReplyLost, ReadReplyLost, Crash, CutLink, HealLink
    <3>4. CASE UNCHANGED vars \/ Tick \/ Wipe \/ \E j \in Jobs : Enqueue(j)
      BY <3>4, SMT DEF vars, history, Tick, Wipe, Enqueue
    <3> QED
      BY <3>1, <3>2, <3>3, <3>4 DEF Next
  <2> QED
    BY <2>2, <2>3
<1>3. AckedIsAccounted /\ CInv => AckedIsReported
  BY Zenon DEF AckedIsAccounted, Accounted, AckedIsReported
<1> QED
  BY <1>1, <1>2, <1>3, SpecIInv, SpecAckedIsAccounted, PTL DEF Spec

-----------------------------------------------------------------------------
(* The refinement.  The functions AtLeastOnce sees are compared point *)
(* by point; AtMoves, StatusStays and so on say what a step does to them.  *)

Ats == [w \in Workers |-> At(w)]
Statuses == [j \in Jobs |-> Status(j)]
Final == {j \in Jobs : reported[j] # {}}

\* When w alone moves, the abstract positions change at w alone.
LEMMA AtMoves ==
    ASSUME NEW w \in Workers, NEW where,
           \A v \in Workers \ {w} : pc'[v] = pc[v] /\ (v \in late' <=> v \in late),
           At(w)' = where
    PROVE  Ats' = [Ats EXCEPT ![w] = where]
<1>1. \A v \in Workers : At(v)' = IF v = w THEN where ELSE At(v)
  BY Zenon DEF At
<1> QED
  BY <1>1, Zenon DEF Ats

\* When no worker moves, or w moves within a position, nothing changes.
LEMMA AtStays ==
    ASSUME \A v \in Workers : At(v)' = At(v)
    PROVE  Ats' = Ats
BY Zenon DEF Ats

\* A delivered entry stays queued, and its counter alone grows.
LEMMA DeliverStatuses ==
    ASSUME TypeOK, NEW j \in Jobs, NEW w \in Workers, Deliver(j, w),
           entry[j] \in {"new", "pending"}
    PROVE  /\ Statuses' = Statuses
           /\ deliveries' = [deliveries EXCEPT ![j] = @ + 1]
           /\ Statuses[j] = "queued"
<1> USE JobQueueAssumption
<1>1. \A k \in Jobs : Status(k)' = Status(k)
  BY SMT DEF Status, Deliver, TypeOK
<1>2. Status(j) = "queued"
  BY Zenon DEF Status
<1> QED
  BY <1>1, <1>2, Zenon DEF Statuses, Deliver

\* The runners of a job that is delivered again are all lost.
LEMMA DeliveredIsUnattended ==
    ASSUME IInv, [Next]_vars, NEW j \in Jobs, NEW w \in Workers, Deliver(j, w)
    PROVE  Queue!Unattended(j)
<1>1. deliveries'[j] # deliveries[j]
  BY SMT DEF IInv, TypeOK, Deliver
<1>2. \A v \in Workers : job[v] = j => At(v) # "run"
  BY <1>1, DeliverySparesHealthyRuns, Zenon DEF Runs, At
<1> QED
  BY <1>2, Zenon DEF Queue!Unattended

\* A step that delivers j to w and starts it is a Start of the queue.
LEMMA StartSimulates ==
    ASSUME IInv, [Next]_vars, NEW j \in Jobs, NEW w \in Workers, Deliver(j, w), StartRun(w, j),
           entry[j] \in {"new", "pending"}, pc[w] \in {"read", "claim"},
           deliveries[j] < MaxDeliveries, UNCHANGED reported
    PROVE  Queue!Start(w, j)
<1> USE JobQueueAssumption
<1>1. TypeOK
  BY DEF IInv
<1>2. /\ Statuses' = Statuses /\ Statuses[j] = "queued"
      /\ deliveries' = [deliveries EXCEPT ![j] = @ + 1]
  BY <1>1, DeliverStatuses
<1>3. Ats' = [Ats EXCEPT ![w] = "run"] /\ Ats[w] = "idle"
  <2>1. \A v \in Workers \ {w} : pc'[v] = pc[v] /\ (v \in late' <=> v \in late)
    BY <1>1, SMT DEF StartRun, TypeOK
  <2>2. At(w)' = "run" /\ At(w) = "idle"
    <3>1. pc'[w] = "run" /\ w \notin late'
      BY <1>1, SMT DEF StartRun, TypeOK
    <3> QED
      BY <3>1, Zenon DEF At
  <2> QED
    BY <2>1, <2>2, AtMoves, Zenon DEF Ats
<1>4. job' = [job EXCEPT ![w] = j] /\ runs' = [runs EXCEPT ![j] = @ + 1]
  BY DEF StartRun
<1>5. Final' = Final
  BY DEF Final
<1> QED
  BY <1>2, <1>3, <1>4, <1>5, DeliveredIsUnattended, Zenon
  DEF Queue!Start, Queue!Deliver, Ats, Statuses, Final

\* A step that delivers j to w, and w never knows, is a DeliverUnseen.
LEMMA LostSimulates ==
    ASSUME IInv, [Next]_vars, NEW j \in Jobs, NEW w \in Workers, Deliver(j, w),
           entry[j] \in {"new", "pending"}, UNCHANGED <<job, late, runs, reported>>,
           \A v \in Workers \ {w} : pc'[v] = pc[v],
           pc[w] \in {"read", "claim"}, pc'[w] \in {"read", "claim", "check"}
    PROVE  Queue!DeliverUnseen(j)
<1>1. TypeOK
  BY DEF IInv
<1>2. /\ Statuses' = Statuses /\ Statuses[j] = "queued"
      /\ deliveries' = [deliveries EXCEPT ![j] = @ + 1]
  BY <1>1, DeliverStatuses
<1>3. Ats' = Ats
  <2>1. \A v \in Workers : At(v)' = At(v)
    BY Zenon DEF At
  <2> QED
    BY <2>1, AtStays
<1>4. Final' = Final
  BY DEF Final
<1> QED
  BY <1>2, <1>3, <1>4, DeliveredIsUnattended, Zenon
  DEF Queue!DeliverUnseen, Queue!Deliver, Ats, Statuses, Final

\* Entry, counters and reports as they were: the queue's view of them is too.
LEMMA RedisStays ==
    ASSUME UNCHANGED <<entry, deliveries, runs, reported>>
    PROVE  UNCHANGED <<Statuses, deliveries, Final, runs>>
BY Zenon DEF Statuses, Status, Final

\* A step in which no worker moves as far as the queue can see is a stutter.
LEMMA InvisibleStep ==
    ASSUME UNCHANGED <<Statuses, deliveries, Final, runs, job>>,
           \A v \in Workers : At(v)' = At(v)
    PROVE  UNCHANGED Queue!vars
<1>1. Ats' = Ats
  BY AtStays
<1> QED
  BY <1>1, Zenon DEF Queue!vars, Ats, Statuses, Final

(***************************************************************************)
(* Every step of the main loops, of Redis and of the network is, for the   *)
(* rest of the system, a step of AtLeastOnce or none at all.               *)
(***************************************************************************)
THEOREM QueueSimulation ==
    IInv /\ IInv' /\ [Next]_vars => Queue!Next \/ UNCHANGED Queue!vars
<1> SUFFICES ASSUME IInv, IInv', [Next]_vars
             PROVE  Queue!Next \/ UNCHANGED Queue!vars
  OBVIOUS
<1> USE JobQueueAssumption DEF redis, history, faults, GoTo
<1>0. TypeOK /\ TypeOK'
  BY DEF IInv
<1>1. ASSUME NEW j \in Jobs, Enqueue(j) PROVE Queue!Next
  <2>1. Statuses' = [Statuses EXCEPT ![j] = "queued"] /\ Statuses[j] = "absent"
    <3>1. \A k \in Jobs : Status(k)' = IF k = j THEN "queued" ELSE Status(k)
      BY <1>0, <1>1, SMT DEF Enqueue, Status, TypeOK
    <3>2. Status(j) = "absent"
      BY <1>1, Zenon DEF Enqueue, Status
    <3> QED
      BY <3>1, <3>2, Zenon DEF Statuses
  <2>2. Ats' = Ats /\ Final' = Final /\ UNCHANGED <<job, runs, deliveries>>
    BY <1>1, Zenon DEF Enqueue, Ats, At, Final
  <2>3. Queue!Submit(j)
    BY <2>1, <2>2, Zenon DEF Queue!Submit, Ats, Statuses, Final
  <2> QED
    BY <2>3 DEF Queue!Next
<1>2. ASSUME NEW w \in Workers,
             \/ CheckStale(w) \/ ClaimError(w) \/ ReadNothing(w) \/ ReadNoGroup(w)
             \/ Regroup(w) \/ Restart(w) \/ HealLink(w)
             \/ \E j \in Jobs : ClaimEmpty(w, j)
      PROVE  UNCHANGED Queue!vars
  <2>1. UNCHANGED <<entry, deliveries, runs, reported, job, late>>
    BY <1>2, Zenon DEF CheckStale, ClaimError, ReadNothing, ReadNoGroup, Regroup, Restart,
       HealLink, ClaimEmpty
  <2>2. /\ \A v \in Workers \ {w} : pc'[v] = pc[v]
        /\ \/ pc'[w] = pc[w]
           \/ /\ pc[w] \in {"check", "claim", "read", "regroup", "down"}
              /\ pc'[w] \in {"check", "claim", "read", "regroup", "down"}
    BY <1>0, <1>2, SMT
    DEF CheckStale, ClaimError, ReadNothing, ReadNoGroup, Regroup, Restart, HealLink,
        ClaimEmpty, Skip, TypeOK
  <2>3. \A v \in Workers : At(v)' = At(v)
    BY <2>1, <2>2, Zenon DEF At
  <2> QED
    BY <2>1, <2>3, RedisStays, InvisibleStep
<1>3. ASSUME NEW w \in Workers, NEW j \in Jobs, Claim(w, j) PROVE Queue!Next
  <2>1. /\ entry[j] = "pending" /\ idle[j] >= StaleJobAfter /\ pc[w] = "claim"
        /\ seen[w][j] > 0 /\ Deliver(j, w) /\ UNCHANGED reported
    BY <1>3 DEF Claim, Claimable, Candidate
  <2>2. deliveries[j] = seen[w][j]
    <3>1. since[w] <= ClaimLatency /\ (deliveries[j] = seen[w][j] \/ idle[j] <= since[w])
      BY <2>1 DEF IInv, SeenIsFresh
    <3>2. since[w] \in Nat /\ idle[j] \in Nat
      BY <1>0, SMT DEF TypeOK
    <3> QED
      BY <2>1, <3>1, <3>2, SMT
  <2>3. CASE StartRun(w, j) /\ ~Exhausted(seen[w][j])
    <3>1. deliveries[j] < MaxDeliveries
      BY <1>0, <2>2, <2>3, SMT DEF Exhausted, TypeOK
    <3>2. Queue!Start(w, j)
      BY <2>1, <2>3, <3>1, StartSimulates
    <3> QED
      BY <3>2 DEF Queue!Next
  <2>4. CASE /\ Exhausted(seen[w][j]) /\ GoTo(w, "abandon")
             /\ job' = [job EXCEPT ![w] = j] /\ UNCHANGED <<late, runs>>
    <3>1. /\ Statuses' = Statuses /\ Statuses[j] = "queued" /\ deliveries[j] >= MaxDeliveries
          /\ deliveries' = [deliveries EXCEPT ![j] = @ + 1]
      BY <1>0, <2>1, <2>2, <2>4, DeliverStatuses DEF Exhausted
    <3>2. Ats' = [Ats EXCEPT ![w] = "giveup"] /\ Ats[w] = "idle"
      <4>1. \A v \in Workers \ {w} : pc'[v] = pc[v] /\ (v \in late' <=> v \in late)
        BY <1>0, <2>4, SMT DEF TypeOK
      <4>2. pc'[w] = "abandon"
        BY <1>0, <2>4, SMT DEF TypeOK
      <4>3. At(w)' = "giveup" /\ At(w) = "idle"
        BY <2>1, <4>2, Zenon DEF At
      <4> QED
        BY <4>1, <4>3, AtMoves, Zenon DEF Ats
    <3>3. Final' = Final
      BY <2>1 DEF Final
    <3>4. Queue!TakePoison(w, j)
      BY <2>1, <2>4, <3>1, <3>2, <3>3, DeliveredIsUnattended, Zenon
      DEF Queue!TakePoison, Queue!Deliver, Ats, Statuses, Final
    <3> QED
      BY <3>4 DEF Queue!Next
  <2> QED
    BY <1>3, <2>3, <2>4 DEF Claim
<1>4. ASSUME NEW w \in Workers, NEW j \in Jobs, ReadNew(w, j) PROVE Queue!Next
  <2>1. entry[j] = "new" /\ Deliver(j, w) /\ StartRun(w,
     j) /\ UNCHANGED reported /\ pc[w] = "read"
    BY <1>4 DEF ReadNew, NextNew
  <2>2. deliveries[j] < MaxDeliveries
    BY <2>1, SMT DEF IInv, RunsAreDeliveries
  <2>3. Queue!Start(w, j)
    BY <2>1, <2>2, StartSimulates
  <2> QED
    BY <2>3 DEF Queue!Next
<1>5. ASSUME NEW w \in Workers, NEW j \in Jobs, ClaimReplyLost(w, j) \/ ReadReplyLost(w, j)
      PROVE  Queue!Next
  <2>1. /\ entry[j] \in {"new", "pending"} /\ Deliver(j, w)
        /\ UNCHANGED <<job, late, runs, reported>> /\ pc[w] \in {"read", "claim"}
    BY <1>5, Zenon DEF ClaimReplyLost, ReadReplyLost, NextNew, Claimable
  <2>2. (\A v \in Workers \ {w} : pc'[v] = pc[v]) /\ pc'[w] \in {"read", "claim", "check"}
    BY <1>0, <1>5, SMT DEF ClaimReplyLost, ReadReplyLost, Skip, TypeOK
  <2>3. Queue!DeliverUnseen(j)
    BY <2>1, <2>2, LostSimulates
  <2> QED
    BY <2>3 DEF Queue!Next
<1>6. ASSUME NEW w \in Workers, Renew(w) PROVE Queue!Next \/ UNCHANGED Queue!vars
  <2>1. /\ UNCHANGED <<entry, deliveries, runs, reported, job, pc>>
        /\ pc[w] = "run" /\ late' = late \ {w}
    BY <1>6, Zenon DEF Renew
  <2>2. CASE w \in late
    <3>1. Ats' = [Ats EXCEPT ![w] = "run"] /\ Ats[w] = "lost"
      <4>1. At(w)' = "run" /\ At(w) = "lost"
        BY <2>1, <2>2, Zenon DEF At
      <4>2. \A v \in Workers \ {w} : pc'[v] = pc[v] /\ (v \in late' <=> v \in late)
        BY <2>1
      <4> QED
        BY <4>1, <4>2, AtMoves, Zenon DEF Ats
    <3>2. Queue!Regain(w)
      BY <2>1, <3>1, RedisStays, Zenon DEF Queue!Regain, Ats, Statuses, Final
    <3> QED
      BY <3>2 DEF Queue!Next
  <2>3. CASE w \notin late
    <3>1. \A v \in Workers : At(v)' = At(v)
      BY <2>1, <2>3, Zenon DEF At
    <3> QED
      BY <2>1, <3>1, RedisStays, InvisibleStep
  <2> QED
    BY <2>2, <2>3
<1>7. ASSUME NEW w \in Workers, FinishRun(w) \/ Reject(w) \/ Abandon(w) PROVE Queue!Next
  <2>1. /\ UNCHANGED <<entry, deliveries, runs, job>>
        /\ pc[w] \in {"run", "abandon"} /\ pc' = [pc EXCEPT ![w] = "ack"]
        /\ late' = late \ {w} \/ late' = late
    BY <1>7, Zenon DEF FinishRun, Reject, Abandon
  <2>2. Ats' = [Ats EXCEPT ![w] = "ack"] /\ Ats[w] \in {"run", "lost", "giveup"}
    <3>1. pc'[w] = "ack" /\ \A v \in Workers \ {w} : pc'[v] = pc[v] /\ (v \in late' <=> v \in late)
      BY <1>0, <2>1, SMT DEF TypeOK
    <3>2. At(w)' = "ack" /\ At(w) \in {"run", "lost", "giveup"}
      BY <2>1, <3>1, Zenon DEF At
    <3> QED
      BY <3>1, <3>2, AtMoves, Zenon DEF Ats
  <2>3. Final' = Final \/ Final' = Final \cup {job[w]}
    <3>1. job[w] \in Jobs
      BY <2>1 DEF IInv, HeldIsDelivered
    <3>2. CASE UNCHANGED reported
      BY <3>2 DEF Final
    <3>3. CASE \E kind \in {"done", "abandoned"} :
                 reported' = [reported EXCEPT ![job[w]] = @ \cup {kind}]
      <4>1. PICK kind \in {"done", "abandoned"} :
                 reported' = [reported EXCEPT ![job[w]] = @ \cup {kind}]
        BY <3>3
      <4>2. \A k \in Jobs :
              reported'[k] = IF k = job[w] THEN reported[k] \cup {kind} ELSE reported[k]
        <5>1. reported \in [Jobs -> SUBSET {"done", "abandoned"}]
          BY <1>0 DEF TypeOK
        <5> QED
          BY <4>1, <5>1, Zenon
      <4>3. \A k \in Jobs : reported'[k] # {} <=> k = job[w] \/ reported[k] # {}
        BY <4>2, Zenon
      <4> QED
        BY <3>1, <4>3, Zenon DEF Final
    <3> QED
      BY <1>7, <3>2, <3>3, Zenon DEF FinishRun, Reject, Abandon, Report
  <2>4. Statuses' = Statuses /\ deliveries' = deliveries
    BY <2>1, Zenon DEF Statuses, Status
  <2>5. \E b \in BOOLEAN : Queue!Close(w, b)
    <3>1. CASE Final' = Final
      <4>1. Queue!Close(w, FALSE)
        BY <2>1, <2>2, <2>4, <3>1, Zenon DEF Queue!Close, Ats, Statuses, Final
      <4> QED
        BY <4>1
    <3>2. CASE Final' = Final \cup {job[w]}
      <4>1. Queue!Close(w, TRUE)
        BY <2>1, <2>2, <2>4, <3>2, Zenon DEF Queue!Close, Ats, Statuses, Final
      <4> QED
        BY <4>1
    <3> QED
      BY <2>3, <3>1, <3>2
  <2> QED
    BY <2>5 DEF Queue!Next
<1>8. ASSUME NEW w \in Workers, Ack(w) PROVE Queue!Next
  <2>1. /\ UNCHANGED <<deliveries, runs, reported, late>>
        /\ pc[w] = "ack" /\ pc' = [pc EXCEPT ![w] = "check"]
        /\ job' = [job EXCEPT ![w] = NoJob]
    BY <1>8, Zenon DEF Ack
  <2>2. Ats' = [Ats EXCEPT ![w] = "idle"] /\ Ats[w] = "ack"
    <3>1. pc'[w] = "check" /\ \A v \in Workers \ {w} : pc'[v] = pc[v] /\ (v \in late' <=> v \in late)
      BY <1>0, <2>1, SMT DEF TypeOK
    <3>2. At(w)' = "idle" /\ At(w) = "ack"
      BY <2>1, <3>1, Zenon DEF At
    <3> QED
      BY <3>1, <3>2, AtMoves, Zenon DEF Ats
  <2>3. deliveries' = deliveries /\ Final' = Final
    BY <2>1 DEF Final
  <2>4. \/ Statuses' = Statuses
        \/ Statuses[job[w]] = "queued" /\ Statuses' = [Statuses EXCEPT ![job[w]] = "acked"]
    <3>1. CASE online[w] /\ entry[job[w]] = "pending"
      <4>1. job[w] \in Jobs
        BY <2>1 DEF IInv, HeldIsDelivered
      <4>2. \A k \in Jobs : entry'[k] = IF k = job[w] THEN "acked" ELSE entry[k]
        BY <1>0, <1>8, <3>1, <4>1, SMT DEF Ack, TypeOK
      <4>3. \A k \in Jobs : Status(k)' = IF k = job[w] THEN "acked" ELSE Status(k)
        BY <4>2, Zenon DEF Status
      <4>4. Status(job[w]) = "queued"
        BY <3>1, Zenon DEF Status
      <4> QED
        BY <4>1, <4>3, <4>4, Zenon DEF Statuses
    <3>2. CASE ~(online[w] /\ entry[job[w]] = "pending")
      BY <1>8, <3>2, Zenon DEF Ack, Statuses, Status
    <3> QED
      BY <3>1, <3>2
  <2>5. \E b \in BOOLEAN : Queue!Ack(w, b)
    <3>1. CASE Statuses' = Statuses
      <4>1. Queue!Ack(w, FALSE)
        BY <2>1, <2>2, <2>3, <3>1, Zenon DEF Queue!Ack, Ats, Statuses, Final
      <4> QED
        BY <4>1
    <3>2. CASE Statuses[job[w]] = "queued" /\ Statuses' = [Statuses EXCEPT ![job[w]] = "acked"]
      <4>1. Queue!Ack(w, TRUE)
        BY <2>1, <2>2, <2>3, <3>2, Zenon DEF Queue!Ack, Ats, Statuses, Final
      <4> QED
        BY <4>1
    <3> QED
      BY <2>4, <3>1, <3>2
  <2> QED
    BY <2>5 DEF Queue!Next
<1>9. ASSUME NEW w \in Workers, Crash(w) PROVE Queue!Next \/ UNCHANGED Queue!vars
  <2>1. /\ UNCHANGED <<entry, deliveries, runs, reported>>
        /\ pc' = [pc EXCEPT ![w] = "down"] /\ late' = late \ {w}
        /\ job' = [job EXCEPT ![w] = NoJob]
    BY <1>9, Zenon DEF Crash
  <2>2. pc'[w] = "down" /\ \A v \in Workers \ {w} : pc'[v] = pc[v] /\ (v \in late' <=> v \in late)
    BY <1>0, <2>1, SMT DEF TypeOK
  <2>3. Ats' = [Ats EXCEPT ![w] = "idle"]
    <3>1. At(w)' = "idle"
      BY <2>2, Zenon DEF At
    <3> QED
      BY <2>2, <3>1, AtMoves
  <2>4. CASE Ats[w] # "idle"
    <3>1. Queue!Die(w)
      BY <2>1, <2>3, <2>4, RedisStays, Zenon DEF Queue!Die, Ats, Statuses, Final
    <3> QED
      BY <3>1 DEF Queue!Next
  <2>5. CASE Ats[w] = "idle"
    <3>1. \A v \in Workers : At(v)' = At(v)
      BY <2>2, <2>3, <2>5, Zenon DEF Ats, At
    <3>2. job[w] = NoJob
      <4>1. pc[w] \in {"check", "claim", "read", "regroup", "run", "abandon", "ack", "down"}
        BY <1>0, SMT DEF TypeOK
      <4>2. pc[w] \notin {"run", "abandon", "ack"}
        BY <2>5, Zenon DEF Ats, At
      <4> QED
        BY <4>1, <4>2, Zenon DEF IInv, IdleHoldsNothing
    <3>3. job' = job
      BY <1>0, <2>1, <3>2, SMT DEF TypeOK
    <3> QED
      BY <2>1, <3>1, <3>3, RedisStays, InvisibleStep
  <2> QED
    BY <2>4, <2>5
<1>10. ASSUME NEW w \in Workers, CutLink(w) PROVE Queue!Next \/ UNCHANGED Queue!vars
  <2>1. /\ UNCHANGED <<entry, deliveries, runs, reported, job, pc>>
        /\ late' = IF pc[w] = "run" THEN late \cup {w} ELSE late
    BY <1>10, Zenon DEF CutLink
  <2>2. CASE pc[w] = "run" /\ w \notin late
    <3>1. At(w)' = "lost" /\ At(w) = "run"
      BY <2>1, <2>2, Zenon DEF At
    <3>2. \A v \in Workers \ {w} : pc'[v] = pc[v] /\ (v \in late' <=> v \in late)
      BY <2>1, <2>2
    <3>3. Ats' = [Ats EXCEPT ![w] = "lost"] /\ Ats[w] = "run"
      BY <3>1, <3>2, AtMoves, Zenon DEF Ats
    <3>4. Queue!Lose(w)
      BY <2>1, <3>3, RedisStays, Zenon DEF Queue!Lose, Ats, Statuses, Final
    <3> QED
      BY <3>4 DEF Queue!Next
  <2>3. CASE ~(pc[w] = "run" /\ w \notin late)
    <3>1. \A v \in Workers : v \in late' <=> v \in late
      BY <2>1, <2>3
    <3>2. \A v \in Workers : At(v)' = At(v)
      BY <2>1, <3>1, Zenon DEF At
    <3> QED
      BY <2>1, <3>2, RedisStays, InvisibleStep
  <2> QED
    BY <2>2, <2>3
<1>11. CASE Tick \/ UNCHANGED vars
  <2>1. UNCHANGED <<entry, deliveries, runs, reported, job, pc, late>>
    BY <1>11, Zenon DEF Tick, vars
  <2>2. \A v \in Workers : At(v)' = At(v)
    BY <2>1, Zenon DEF At
  <2> QED
    BY <2>1, <2>2, RedisStays, InvisibleStep
<1>12. CASE Wipe
  <2>1. UNCHANGED <<deliveries, pc, job, late, runs, reported>>
    BY <1>12, Zenon DEF Wipe
  <2>2. Statuses' = [j \in Jobs |-> IF Statuses[j] = "queued" THEN "lost" ELSE Statuses[j]]
    <3>1. \A j \in Jobs :
            entry'[j] = IF entry[j] \in {"new", "pending"} THEN "lost" ELSE entry[j]
      BY <1>0, <1>12, SMT DEF TypeOK, Wipe
    <3>2. \A j \in Jobs : entry[j] \in {"absent", "new", "pending", "acked", "lost"}
      BY <1>0, Zenon DEF TypeOK
    <3>3. \A j \in Jobs : Status(j)' = IF Status(j) = "queued" THEN "lost" ELSE Status(j)
      BY <3>1, <3>2, Zenon DEF Status
    <3> QED
      BY <3>3, Zenon DEF Statuses
  <2>3. Ats' = Ats /\ Final' = Final
    BY <2>1, Zenon DEF Ats, At, Final
  <2>4. Queue!Wipe
    BY <2>1, <2>2, <2>3, Zenon DEF Queue!Wipe, Ats, Statuses, Final
  <2> QED
    BY <2>4 DEF Queue!Next
<1> QED
  BY <1>1, <1>2, <1>3, <1>4, <1>5, <1>6, <1>7, <1>8, <1>9, <1>10, <1>11, <1>12, Zenon
  DEF Next, Step, Fault

(***************************************************************************)
(* The Redis protocol of worker/main.go and worker/reclaim.go implements   *)
(* the at-least-once queue the end-to-end model relies on.                 *)
(***************************************************************************)
THEOREM SpecImplementsQueue == Spec => ImplementsQueue
<1>1. Init => Queue!Init
  <2> SUFFICES ASSUME Init PROVE Queue!Init
    OBVIOUS
  <2>1. \A j \in Jobs : Status(j) = "absent"
    BY Zenon DEF Init, Status
  <2>2. \A w \in Workers : At(w) = "idle"
    BY Zenon DEF Init, At
  <2>3. {j \in Jobs : reported[j] # {}} = {}
    BY Zenon DEF Init
  <2> QED
    BY <2>1, <2>2, <2>3, Zenon DEF Init, Queue!Init
<1>2. IInv /\ IInv' /\ [Next]_vars => [Queue!Next]_(Queue!vars)
  BY QueueSimulation
<1> QED
  BY <1>1, <1>2, SpecIInv, PTL DEF Spec, ImplementsQueue, Queue!Spec
=============================================================================
