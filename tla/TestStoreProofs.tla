-------------------------- MODULE TestStoreProofs --------------------------
(***************************************************************************)
(* Theorems about the TestStore from both sides: the results watcher that  *)
(* writes it, in the life of a test (TestRun), and the handlers that show  *)
(* it to viewers (LiveView), for any workers, sub-jobs and faults, and any *)
(* viewers, updates and channels.                                          *)
(***************************************************************************)
EXTENDS TestRun, LiveView, SequenceTheorems, FiniteSetTheorems, TLAPS

\* A worker that is at something is at an entry of the stream.
BusyOnJobs == \A w \in Workers : at[w] # "idle" => on[w] \in Entries

\* How the watcher's cursor and the end of its batch lie to each other.
CursorInBatch ==
    /\ wpc \in {"between", "blocked"} => upto <= from
    /\ wpc = "finishing" => from <= upto

\* The watcher has read a final report of j.
Heard(j) == \E i \in 1 .. from : results[i].job = j /\ IsFinal(results[i])

\* The watcher has read a live snapshot behind a final report of its sub-job.
HeardLate ==
    \E i, k \in 1 .. from :
        i < k /\ results[i].job = results[k].job /\ IsFinal(results[i]) /\ ~IsFinal(results[k])

DoneIsHeard == \A j \in done : Heard(j)

\* Before the request is accepted nothing is registered, let alone finished; and
\* the watcher only finishes a test the store holds.
OnlyAcceptedFinish ==
    /\ handler # "accepted" => ~registered /\ notices = 0 /\ saves = 0
    /\ wpc = "finishing" => registered /\ AllDone(done)

FinishedIsHeard == notices > 0 \/ saves > 0 => notices > 0 /\ \A j \in Jobs : Heard(j)

\* Once the test has finished it stays done, unless a late snapshot took it back.
TakenBackByLate ==
    /\ notices > 0 /\ registered /\ ~AllDone(done) => HeardLate
    /\ notices > 0 /\ wpc = "finishing" => HeardLate
    /\ notices > 1 => HeardLate

IInv ==
    /\ TypeOK /\ BusyOnJobs /\ CursorInBatch
    /\ DoneIsHeard /\ OnlyAcceptedFinish /\ FinishedIsHeard /\ TakenBackByLate

LEMMA Constants == /\ NumJobs \in Nat \ {0} /\ MaxDeliveries \in Nat \ {0}
                   /\ MaxFaults \in Nat /\ MaxLive \in Nat
                   /\ NoJob \notin Entries
  BY TestRunAssumption DEF TestRunAssumption, NoJob, Jobs, Entries

\* Every entry of the stream is one of its sub-job's.
LEMMA EntriesAreCopies ==
    /\ \A e \in Entries : SubJob(e) \in Jobs /\ e \in Copies(SubJob(e))
    /\ \A j \in Jobs : Copies(j) \subseteq Entries
  BY DEF Entries, Copies, SubJob

LEMMA InitIInv == Init => IInv
  <1> SUFFICES ASSUME Init PROVE IInv
    OBVIOUS
  <1> USE Constants
  <1>1. Queue!TypeOK
    BY DEF Init, Queue!Init, Queue!TypeOK
  <1>2. results \in Seq(Report) /\ Len(results) = 0
    BY EmptySeq DEF Init
  <1>3. TypeOK
    <2>1. registered \in BOOLEAN /\ fresh \in BOOLEAN /\ skipped \in BOOLEAN
      BY Zenon DEF Init
    <2>2. from \in 0 .. Len(results) /\ upto \in 0 .. Len(results)
      BY <1>2 DEF Init
    <2>3. /\ stray \in [Workers -> Entries \cup {NoJob}]
          /\ faults \in 0 .. MaxFaults /\ lives \in 0 .. MaxLive
      BY DEF Init
    <2> QED
      BY <1>1, <1>2, <2>1, <2>2, <2>3 DEF Init, TypeOK
  <1>4. BusyOnJobs
    BY DEF Init, Queue!Init, BusyOnJobs
  <1> QED
    BY <1>3, <1>4
    DEF Init, IInv, CursorInBatch, DoneIsHeard, OnlyAcceptedFinish, FinishedIsHeard,
        TakenBackByLate

-----------------------------------------------------------------------------
(* The results stream: appended to by workers, cut back by a flush. *)

LEMMA Published ==
    ASSUME results \in Seq(Report), NEW e \in Entries, NEW kind \in {"live", "done", "abandoned"},
           Publish(e, kind)
    PROVE  /\ results' \in Seq(Report) /\ Len(results') = Len(results) + 1
           /\ \A i \in 1 .. Len(results) : results'[i] = results[i]
  <1>1. [job |-> SubJob(e), kind |-> kind] \in Report
    BY EntriesAreCopies DEF Report
  <1> QED
    BY <1>1 DEF Publish

\* What does not touch the entries the watcher has read does not touch the invariant
\* about the watcher.
LEMMA StreamGrows ==
    ASSUME IInv, UNCHANGED <<handler, store, watcher, outcome>>,
           results' \in Seq(Report), Len(results') >= Len(results),
           \A i \in 1 .. Len(results) : results'[i] = results[i]
    PROVE  /\ CursorInBatch' /\ DoneIsHeard' /\ OnlyAcceptedFinish' /\ FinishedIsHeard'
           /\ TakenBackByLate'
           /\ from' \in 0 .. Len(results') /\ upto' \in 0 .. Len(results')
  <1> USE DEF store, watcher, outcome
  <1>1. /\ from \in Nat /\ from <= Len(results) /\ upto \in Nat /\ upto <= Len(results)
        /\ Len(results) \in Nat /\ Len(results') \in Nat
    BY LenProperties DEF IInv, TypeOK
  <1>2. \A i \in 1 .. from : results'[i] = results[i]
    BY <1>1
  <1>3. HeardLate' = HeardLate /\ \A j \in Jobs : Heard(j)' = Heard(j)
    BY <1>2 DEF HeardLate, Heard, IsFinal
  <1>4. DoneIsHeard'
    BY <1>3 DEF IInv, TypeOK, DoneIsHeard
  <1> QED
    BY <1>1, <1>3, <1>4
    DEF IInv, CursorInBatch, OnlyAcceptedFinish, FinishedIsHeard, TakenBackByLate, AllDone
-----------------------------------------------------------------------------
(* The queue and its workers. *)

QueueOK == Queue!TypeOK /\ BusyOnJobs

\* Every step of the queue keeps its types, and the jobs of busy workers.
LEMMA QueueStep ==
    ASSUME QueueOK,
           \/ Queue!Next
           \/ UNCHANGED queue
    PROVE  QueueOK'
  <1> USE Constants DEF QueueOK, Queue!TypeOK, BusyOnJobs
  <1>1. CASE UNCHANGED queue
    BY <1>1 DEF queue
  <1>2. CASE Queue!Wipe
    BY <1>2 DEF Queue!Wipe
  <1>3. ASSUME NEW e \in Entries, Queue!Submit(e) \/ Queue!DeliverUnseen(e) PROVE QueueOK'
    BY <1>3 DEF Queue!Submit, Queue!DeliverUnseen, Queue!Deliver
  <1>4. ASSUME NEW w \in Workers, NEW e \in Entries, Queue!Start(w, e) PROVE QueueOK'
    BY <1>4 DEF Queue!Start, Queue!Deliver
  <1>5. ASSUME NEW w \in Workers, NEW e \in Entries, Queue!TakePoison(w, e) PROVE QueueOK'
    BY <1>5 DEF Queue!TakePoison, Queue!Deliver
  <1>6. ASSUME NEW w \in Workers, Queue!Lose(w) \/ Queue!Regain(w) \/ Queue!Die(w)
        PROVE  QueueOK'
    BY <1>6 DEF Queue!Lose, Queue!Regain, Queue!Die
  <1>7. ASSUME NEW w \in Workers, NEW b \in BOOLEAN, Queue!Close(w, b) PROVE QueueOK'
    BY <1>7 DEF Queue!Close
  <1>8. ASSUME NEW w \in Workers, NEW b \in BOOLEAN, Queue!Ack(w, b) PROVE QueueOK'
    BY <1>8 DEF Queue!Ack
  <1> QED
    BY <1>1, <1>2, <1>3, <1>4, <1>5, <1>6, <1>7, <1>8 DEF Queue!Next

\* Steps that leave the coordinator alone, and add at most one report to the stream.
LEMMA WorkersStep ==
    ASSUME IInv, UNCHANGED <<handler, store, watcher, outcome>>,
           Queue!Next \/ UNCHANGED queue,
           stray' \in [Workers -> Entries \cup {NoJob}],
           faults' \in 0 .. MaxFaults, lives' \in 0 .. MaxLive,
           \/ UNCHANGED results
           \/ \E e \in Entries, kind \in {"live", "done", "abandoned"} : Publish(e, kind)
    PROVE  IInv'
  <1>1. QueueOK'
    BY QueueStep DEF IInv, TypeOK, QueueOK
  <1>2. /\ results' \in Seq(Report) /\ Len(results') >= Len(results)
        /\ \A i \in 1 .. Len(results) : results'[i] = results[i]
    <2>1. results \in Seq(Report) /\ Len(results) \in Nat
      BY LenProperties DEF IInv, TypeOK
    <2>2. CASE UNCHANGED results
      BY <2>1, <2>2
    <2>3. ASSUME NEW e \in Entries, NEW kind \in {"live", "done", "abandoned"}, Publish(e, kind)
          PROVE  <1>2
      BY <2>1, <2>3, Published
    <2> QED
      BY <2>2, <2>3
  <1>3. /\ CursorInBatch' /\ DoneIsHeard' /\ OnlyAcceptedFinish' /\ FinishedIsHeard'
        /\ TakenBackByLate'
        /\ from' \in 0 .. Len(results') /\ upto' \in 0 .. Len(results')
    BY <1>2, StreamGrows
  <1>4. TypeOK'
    BY <1>1, <1>2, <1>3 DEF IInv, TypeOK, QueueOK, store, watcher, outcome
  <1> QED
    BY <1>1, <1>3, <1>4 DEF IInv, QueueOK
-----------------------------------------------------------------------------
(* The watcher. *)

\* It reads on: the next entry may be the final report of its sub-job, or a late one.
LEMMA HandleKnownStep == ASSUME IInv, HandleKnown PROVE IInv'
  <1> DEFINE m == results[from + 1]
  <1>1. /\ wpc = "handling" /\ registered /\ from' = from + 1 /\ fresh' = FALSE
        /\ IF m.kind = "abandoned" THEN MarkAbandoned(m) ELSE Update(m)
        /\ IF JustFinished THEN wpc' = "finishing" ELSE NextEntry
        /\ UNCHANGED <<queue, results, stray, handler, registered, upto, outcome, bounds>>
    BY DEF HandleKnown
  <1>2. /\ from \in Nat /\ upto \in Nat /\ Len(results) \in Nat
        /\ from < upto /\ upto <= Len(results)
    BY <1>1, LenProperties DEF IInv, TypeOK
  <1>3. m \in Report /\ m.job \in Jobs
    <2>1. results \in Seq(Report) /\ from + 1 \in 1 .. Len(results)
      BY <1>2 DEF IInv, TypeOK
    <2>2. m \in Report
      BY <2>1, ElementOfSeq
    <2> QED
      BY <2>2 DEF Report
  <1>4. /\ \A i : i \in 1 .. from' <=> i \in 1 .. from \/ i = from + 1
        /\ from + 1 \in 1 .. from'
    BY <1>1, <1>2
  <1>5. results' = results
    BY <1>1
  <1>6. /\ \A j \in Jobs : Heard(j) => Heard(j)'
        /\ IsFinal(m) => \A j \in Jobs : j = m.job => Heard(j)'
        /\ HeardLate => HeardLate'
    <2>1. \A j \in Jobs : Heard(j) => Heard(j)'
      BY <1>4, <1>5 DEF Heard, IsFinal
    <2>2. IsFinal(m) => \A j \in Jobs : j = m.job => Heard(j)'
      BY <1>4, <1>5 DEF Heard, IsFinal
    <2>3. HeardLate => HeardLate'
      BY <1>4, <1>5 DEF HeardLate, IsFinal
    <2> QED
      BY <2>1, <2>2, <2>3
  <1>7. Heard(m.job) /\ ~IsFinal(m) => HeardLate'
    <2> SUFFICES ASSUME Heard(m.job), ~IsFinal(m) PROVE HeardLate'
      OBVIOUS
    <2>1. PICK i \in 1 .. from : results[i].job = m.job /\ IsFinal(results[i])
      BY DEF Heard
    <2>2. i \in 1 .. from' /\ i < from + 1
      BY <1>2, <1>4, <2>1
    <2> QED
      BY <1>4, <1>5, <2>1, <2>2 DEF HeardLate, IsFinal
  <1>8. /\ done' \subseteq Jobs /\ abandoned' \subseteq Jobs
        /\ \A j \in done' : j \in done \/ (j = m.job /\ IsFinal(m))
        /\ done \subseteq done' \/ (m.job \in done /\ ~IsFinal(m))
    BY <1>1, <1>3 DEF IInv, TypeOK, MarkAbandoned, Update, IsFinal, Report
  <1>9. DoneIsHeard'
    <2> SUFFICES ASSUME NEW j \in done' PROVE Heard(j)'
      BY DEF DoneIsHeard
    <2>1. j \in Jobs /\ (j \in done \/ (j = m.job /\ IsFinal(m)))
      BY <1>8
    <2>2. j \in done => Heard(j)
      BY DEF IInv, DoneIsHeard
    <2> QED
      BY <1>6, <2>1, <2>2
  <1>10. /\ wpc' = "finishing" => AllDone(done') /\ ~AllDone(done)
         /\ wpc' \in {"between", "handling", "finishing"}
         /\ wpc' = "between" => from' = upto
         /\ wpc' = "handling" => from' # upto
    BY <1>1 DEF JustFinished, NextEntry
  <1>11. AllDone(done) /\ ~AllDone(done') => HeardLate'
    BY <1>7, <1>8 DEF IInv, DoneIsHeard, AllDone
  <1>12. TypeOK'
    <2>1. registered' \in BOOLEAN /\ fresh' \in BOOLEAN /\ skipped' \in BOOLEAN
      BY <1>1, Zenon DEF IInv, TypeOK, outcome
    <2>2. Queue!TypeOK'
      BY <1>1 DEF IInv, TypeOK, Queue!TypeOK, queue
    <2>3. /\ from' \in 0 .. Len(results') /\ upto' \in 0 .. Len(results')
          /\ wpc' = "handling" => from' < upto'
      BY <1>1, <1>2, <1>10
    <2> QED
      BY <1>1, <1>8, <1>10, <2>1, <2>2, <2>3 DEF IInv, TypeOK, outcome, bounds
  <1>13. TakenBackByLate'
    BY <1>1, <1>6, <1>10, <1>11 DEF IInv, TakenBackByLate, outcome
  <1>14. OnlyAcceptedFinish' /\ FinishedIsHeard'
    BY <1>1, <1>6, <1>10 DEF IInv, OnlyAcceptedFinish, FinishedIsHeard, outcome
  <1>15. BusyOnJobs' /\ CursorInBatch'
    BY <1>1, <1>2, <1>10 DEF IInv, BusyOnJobs, CursorInBatch, queue
  <1> QED
    BY <1>9, <1>12, <1>13, <1>14, <1>15 DEF IInv
\* It reads the stream and the store, and leaves both as they are.
LEMMA ReadingStep ==
    ASSUME IInv, IssueRead \/ ReadTimeout \/ ReadError \/ ReadReturns \/ HandleUnknown
    PROVE  IInv'
  <1>1. /\ UNCHANGED <<queue, results, stray, handler, store, saves, notices>>
        /\ lives' = lives /\ faults' \in {faults, faults + 1}
        /\ faults' = faults + 1 => faults < MaxFaults
    <2>1. CASE IssueRead \/ ReadTimeout \/ ReadReturns \/ HandleUnknown
      <3>1. UNCHANGED <<queue, results, stray, handler, store, saves, notices, bounds>>
        BY <2>1 DEF IssueRead, ReadTimeout, ReadReturns, HandleUnknown, outcome
      <3>2. faults' # faults + 1
        BY <3>1, Constants DEF IInv, TypeOK, bounds
      <3> QED
        BY <3>1, <3>2 DEF bounds
    <2>2. CASE ReadError
      BY <2>2 DEF ReadError, Fault, outcome
    <2> QED
      BY <2>1, <2>2
  <1>2. /\ from \in Nat /\ upto \in Nat /\ Len(results) \in Nat
        /\ from <= Len(results) /\ upto <= Len(results)
    BY LenProperties DEF IInv, TypeOK
  <1>3. /\ from' \in from .. Len(results) /\ upto' \in 0 .. Len(results)
        /\ wpc' \in {"between", "blocked", "handling"}
        /\ wpc' \in {"between", "blocked"} => upto' <= from'
        /\ wpc' = "handling" => from' < upto'
    <2>1. CASE IssueRead
      BY <1>2, <2>1 DEF IInv, CursorInBatch, IssueRead, ReadFrom
    <2>2. CASE ReadTimeout \/ ReadError
      BY <1>2, <2>2 DEF IInv, CursorInBatch, ReadTimeout, ReadError
    <2>3. CASE ReadReturns
      BY <1>2, <2>3 DEF ReadReturns, BatchEnd
    <2>4. CASE HandleUnknown
      BY <1>2, <2>4 DEF IInv, TypeOK, HandleUnknown, NextEntry
    <2> QED
      BY <2>1, <2>2, <2>3, <2>4
  <1>4. /\ \A i : i \in 1 .. from => i \in 1 .. from'
        /\ results' = results
    BY <1>1, <1>2, <1>3
  <1>5. (\A j \in Jobs : Heard(j) => Heard(j)') /\ (HeardLate => HeardLate')
    BY <1>4 DEF Heard, HeardLate, IsFinal
  <1>6. fresh' \in BOOLEAN /\ skipped' \in BOOLEAN
    BY Zenon DEF IInv, TypeOK, IssueRead, ReadTimeout, ReadError, ReadReturns, HandleUnknown,
                 outcome
  <1>7. ignored' \subseteq Jobs
    <2>1. CASE HandleUnknown
      <3>1. from + 1 \in 1 .. Len(results)
        BY <1>2, <2>1 DEF IInv, TypeOK, HandleUnknown
      <3>2. results \in Seq(Report)
        BY DEF IInv, TypeOK
      <3>3. results[from + 1] \in Report
        BY <3>1, <3>2, ElementOfSeq
      <3>4. results[from + 1].job \in Jobs
        BY <3>3 DEF Report
      <3> QED
        BY <2>1, <3>4 DEF IInv, TypeOK, HandleUnknown
    <2> QED
      BY <2>1 DEF IInv, TypeOK, IssueRead, ReadTimeout, ReadError, ReadReturns, outcome
  <1>8. TypeOK'
    BY <1>1, <1>2, <1>3, <1>6, <1>7, Constants DEF IInv, TypeOK, Queue!TypeOK, queue, store
  <1>9. /\ BusyOnJobs' /\ CursorInBatch' /\ DoneIsHeard' /\ OnlyAcceptedFinish'
        /\ FinishedIsHeard' /\ TakenBackByLate'
    BY <1>1, <1>3, <1>5
    DEF IInv, TypeOK, BusyOnJobs, CursorInBatch, DoneIsHeard, OnlyAcceptedFinish,
        FinishedIsHeard, TakenBackByLate, AllDone, queue, store
  <1> QED
    BY <1>8, <1>9 DEF IInv

LEMMA OnTestFinishedStep == ASSUME IInv, OnTestFinished PROVE IInv'
  <1>1. /\ wpc = "finishing" /\ notices' = notices + 1 /\ from' = from
        /\ saves' \in {saves, saves + 1} /\ faults' \in {faults, faults + 1}
        /\ faults' = faults + 1 => faults < MaxFaults
        /\ NextEntry
        /\ UNCHANGED <<queue, results, stray, handler, store, fresh, upto, ignored, skipped, lives>>
    <2>1. /\ wpc = "finishing" /\ notices' = notices + 1 /\ from' = from /\ NextEntry
          /\ UNCHANGED <<queue, results, stray, handler, store, fresh, upto, ignored, skipped,
                         lives>>
      BY DEF OnTestFinished
    <2>2. \/ saves' = saves + 1 /\ faults' = faults
          \/ saves' = saves /\ faults < MaxFaults /\ faults' = faults + 1
      BY DEF OnTestFinished, Fault
    <2>3. faults \in Nat
      BY Constants DEF IInv, TypeOK
    <2> QED
      BY <2>1, <2>2, <2>3
  <1>2. /\ from \in Nat /\ upto \in Nat /\ notices \in Nat /\ saves \in Nat /\ faults \in Nat
        /\ from <= upto
    BY <1>1 DEF IInv, TypeOK, CursorInBatch
  <1>3. registered /\ AllDone(done) /\ handler = "accepted"
    BY <1>1 DEF IInv, OnlyAcceptedFinish
  <1>4. \A j \in Jobs : Heard(j)
    BY <1>3 DEF IInv, DoneIsHeard, AllDone
  <1>5. (\A j \in Jobs : Heard(j)') /\ (HeardLate => HeardLate')
    BY <1>1, <1>4 DEF Heard, HeardLate, IsFinal
  <1>6. /\ wpc' \in {"between", "handling"}
        /\ wpc' = "between" => upto' <= from'
        /\ wpc' = "handling" => from' < upto'
    BY <1>1, <1>2 DEF NextEntry
  <1>7. TypeOK'
    BY <1>1, <1>2, <1>6, Constants DEF IInv, TypeOK, Queue!TypeOK, queue, store
  <1>8. BusyOnJobs' /\ CursorInBatch' /\ DoneIsHeard'
    BY <1>1, <1>5, <1>6 DEF IInv, TypeOK, BusyOnJobs, CursorInBatch, DoneIsHeard, queue, store
  <1>9. OnlyAcceptedFinish' /\ FinishedIsHeard'
    BY <1>1, <1>2, <1>3, <1>5, <1>6 DEF IInv, OnlyAcceptedFinish, FinishedIsHeard, store
  <1>10. TakenBackByLate'
    BY <1>1, <1>2, <1>3, <1>5, <1>6 DEF IInv, TakenBackByLate, AllDone, store
  <1> QED
    BY <1>7, <1>8, <1>9, <1>10 DEF IInv

-----------------------------------------------------------------------------
(* The request, the restart and the flush. *)

LEMMA RequestStep ==
    ASSUME IInv, \/ Register \/ EnqueueError \/ RetriesFail
                 \/ \E e \in Entries : Enqueue(e) \/ EnqueueReplyLost(e)
    PROVE  IInv'
  <1>1. /\ handler \in {"enqueue", "retry", "register"}
        /\ UNCHANGED <<results, stray, watcher, outcome>>
        /\ lives' = lives /\ faults' \in {faults, faults + 1}
        /\ faults' = faults + 1 => faults < MaxFaults
        /\ handler' \in {"enqueue", "retry", "register", "accepted", "failed"}
    <2>0. faults \in Nat
      BY Constants DEF IInv, TypeOK
    <2>1. CASE Register \/ RetriesFail
      BY <2>0, <2>1 DEF Register, RetriesFail, bounds
    <2>2. CASE EnqueueError
      BY <2>2 DEF EnqueueError, Fault
    <2>3. ASSUME NEW e \in Entries, Enqueue(e) PROVE <1>1
      BY <2>0, <2>3 DEF Enqueue, Add, Current, bounds
    <2>4. ASSUME NEW e \in Entries, EnqueueReplyLost(e) PROVE <1>1
      BY <2>0, <2>4 DEF EnqueueReplyLost, Add, Current, Fault
    <2> QED
      BY <2>1, <2>2, <2>3, <2>4
  <1>2. \/ UNCHANGED queue
        \/ Queue!Next
    BY DEF Register, RetriesFail, EnqueueError, Enqueue, EnqueueReplyLost, Add, Queue!Next
  <1>3. QueueOK'
    BY <1>2, QueueStep DEF IInv, TypeOK, QueueOK
  <1>4. ~registered /\ notices = 0 /\ saves = 0 /\ wpc # "finishing"
    BY <1>1 DEF IInv, OnlyAcceptedFinish
  <1>5. /\ done' \subseteq done /\ abandoned' \subseteq abandoned
        /\ handler' # "accepted" => ~registered'
    BY <1>4 DEF Register, RetriesFail, EnqueueError, Enqueue, EnqueueReplyLost, store
  <1>6. registered' \in BOOLEAN
    BY Zenon DEF IInv, TypeOK, Register, RetriesFail, EnqueueError, Enqueue, EnqueueReplyLost, store
  <1>7. TypeOK'
    BY <1>1, <1>3, <1>5, <1>6, Constants DEF IInv, TypeOK, QueueOK, watcher, outcome
  <1>8. \A j \in Jobs : Heard(j)' = Heard(j)
    BY <1>1 DEF Heard, IsFinal, watcher
  <1>9. /\ CursorInBatch' /\ DoneIsHeard' /\ OnlyAcceptedFinish' /\ FinishedIsHeard'
        /\ TakenBackByLate'
    BY <1>1, <1>4, <1>5, <1>8
    DEF IInv, TypeOK, CursorInBatch, DoneIsHeard, OnlyAcceptedFinish, FinishedIsHeard,
        TakenBackByLate, watcher, outcome
  <1> QED
    BY <1>3, <1>7, <1>9 DEF IInv, QueueOK

LEMMA RestartStep == ASSUME IInv, Restart PROVE IInv'
  <1>1. /\ ~registered' /\ done' = {} /\ abandoned' = {} /\ wpc' = "between" /\ fresh'
        /\ handler' \in {"accepted", "failed"} /\ (handler' = "accepted" => handler = "accepted")
        /\ handler = "accepted" => handler' = "accepted"
        /\ from' = Len(results) /\ faults < MaxFaults /\ faults' = faults + 1
        /\ UNCHANGED <<queue, results, stray, upto, outcome, lives>>
    BY DEF Restart, Fault
  <1>2. registered' \in BOOLEAN /\ fresh' \in BOOLEAN
    BY Zenon DEF Restart
  <1>3. /\ Len(results) \in Nat /\ upto <= Len(results)
        /\ \A i : i \in 1 .. from => i \in 1 .. from'
    BY <1>1, LenProperties DEF IInv, TypeOK
  <1>4. (\A j \in Jobs : Heard(j) => Heard(j)') /\ (HeardLate => HeardLate')
    BY <1>1, <1>3 DEF Heard, HeardLate, IsFinal
  <1>5. TypeOK'
    BY <1>1, <1>2, <1>3, Constants DEF IInv, TypeOK, Queue!TypeOK, queue, outcome
  <1>6. /\ BusyOnJobs' /\ CursorInBatch' /\ DoneIsHeard' /\ OnlyAcceptedFinish'
        /\ FinishedIsHeard' /\ TakenBackByLate'
    BY <1>1, <1>3, <1>4
    DEF IInv, BusyOnJobs, CursorInBatch, DoneIsHeard, OnlyAcceptedFinish, FinishedIsHeard,
        TakenBackByLate, queue, outcome
  <1> QED
    BY <1>5, <1>6 DEF IInv

\* A flush leaves what the watcher has read, to the end of its batch.
LEMMA WipeStep == ASSUME IInv, Wipe PROVE IInv'
  <1>1. /\ results' = SubSeq(results, 1, Reached) /\ faults' = faults + 1 /\ faults < MaxFaults
        /\ Queue!Next
        /\ UNCHANGED <<stray, handler, store, watcher, outcome, lives>>
    BY DEF Wipe, Fault, Queue!Next
  <1>2. /\ Reached \in Nat /\ Reached <= Len(results) /\ Len(results) \in Nat
        /\ from \in Nat /\ from <= Reached /\ upto \in Nat /\ upto <= Reached
    BY LenProperties DEF IInv, TypeOK, CursorInBatch, Reached
  <1>3. /\ results' \in Seq(Report) /\ Len(results') = Reached
        /\ \A i \in 1 .. Reached : results'[i] = results[i]
    <2>1. \A i \in 1 .. Reached : results[i] \in Report
      BY <1>2, ElementOfSeq DEF IInv, TypeOK
    <2> QED
      BY <1>1, <1>2, <2>1, SubSeqProperties
  <1>4. \A i \in 1 .. from : results'[i] = results[i]
    BY <1>2, <1>3
  <1>5. (HeardLate' <=> HeardLate) /\ \A j \in Jobs : Heard(j)' <=> Heard(j)
    <2>1. from' = from
      BY <1>1 DEF watcher
    <2>2. HeardLate' <=> HeardLate
      BY <1>4, <2>1 DEF HeardLate, IsFinal
    <2>3. \A j \in Jobs : Heard(j)' <=> Heard(j)
      BY <1>4, <2>1 DEF Heard, IsFinal
    <2> QED
      BY <2>2, <2>3
  <1>6. QueueOK'
    BY <1>1, QueueStep DEF IInv, TypeOK, QueueOK
  <1>7. TypeOK'
    BY <1>1, <1>2, <1>3, <1>6, Constants DEF IInv, TypeOK, QueueOK, store, watcher, outcome
  <1>8. /\ CursorInBatch' /\ DoneIsHeard' /\ OnlyAcceptedFinish' /\ FinishedIsHeard'
        /\ TakenBackByLate'
    BY <1>1, <1>5
    DEF IInv, TypeOK, CursorInBatch, DoneIsHeard, OnlyAcceptedFinish, FinishedIsHeard,
        TakenBackByLate, AllDone, store, watcher, outcome
  <1> QED
    BY <1>6, <1>7, <1>8 DEF IInv, QueueOK
-----------------------------------------------------------------------------
(* The workers' steps are steps of the queue, with a report or without. *)

LEMMA WorkStep ==
    ASSUME IInv, NEW w \in Workers,
           \/ Work(w) \/ LiveSnapshot(w)
           \/ CloseUnpublished(w) \/ AckError(w) \/ Lose(w) \/ Regain(w) \/ Die(w)
    PROVE  IInv'
  <1> USE Constants
  <1>1. /\ stray \in [Workers -> Entries \cup {NoJob}] /\ faults \in 0 .. MaxFaults
        /\ lives \in 0 .. MaxLive
        /\ at[w] # "idle" => on[w] \in Entries
    BY DEF IInv, TypeOK, BusyOnJobs
  <1>2. ASSUME NEW e \in Entries, Take(w, e) PROVE IInv'
    <2>1. Queue!Next
      BY <1>2 DEF Take, Queue!Next
    <2> QED
      BY <1>1, <1>2, <2>1, WorkersStep DEF Take, bounds
  <1>3. CASE Close(w)
    <2>1. Queue!Next /\ on[w] \in Entries
      BY <1>1, <1>3 DEF Close, Queue!Next, Queue!Close
    <2>2. PICK kind \in {"live", "done", "abandoned"} : Publish(on[w], kind)
      BY <1>3 DEF Close
    <2>3. stray' \in [Workers -> Entries \cup {NoJob}] /\ faults' \in 0 .. MaxFaults
      BY <1>1, <1>3, <2>1 DEF Close, Fault
    <2> QED
      BY <1>1, <1>3, <2>1, <2>2, <2>3, WorkersStep DEF Close
  <1>4. CASE StraySnapshot(w)
    <2>1. stray[w] \in Entries /\ Publish(stray[w], "live")
      BY <1>1, <1>4 DEF StraySnapshot
    <2>2. stray' \in [Workers -> Entries \cup {NoJob}]
      BY <1>1, <1>4 DEF StraySnapshot
    <2> QED
      BY <1>1, <1>4, <2>1, <2>2, WorkersStep DEF StraySnapshot, bounds
  <1>5. CASE LiveSnapshot(w)
    <2>1. on[w] \in Entries /\ Publish(on[w], "live") /\ lives' \in 0 .. MaxLive
      BY <1>1, <1>5 DEF LiveSnapshot
    <2> QED
      BY <1>1, <1>5, <2>1, WorkersStep DEF LiveSnapshot
  <1>6. CASE Ack(w) \/ AckError(w) \/ CloseUnpublished(w) \/ Lose(w) \/ Regain(w) \/ Die(w)
    <2>1. Queue!Next
      BY <1>6 DEF Ack, AckError, CloseUnpublished, Lose, Regain, Die, Queue!Next
    <2>2. /\ stray' \in [Workers -> Entries \cup {NoJob}]
          /\ faults' \in 0 .. MaxFaults /\ lives' = lives
          /\ UNCHANGED <<results, handler, store, watcher, outcome>>
      <3>1. CASE Ack(w) \/ Regain(w)
        BY <1>1, <3>1 DEF Ack, Regain, bounds
      <3>2. CASE AckError(w) \/ CloseUnpublished(w) \/ Lose(w)
        <4>1. faults < MaxFaults /\ faults' = faults + 1
          BY <3>2 DEF AckError, CloseUnpublished, Lose, Fault
        <4>2. UNCHANGED <<results, stray, handler, store, watcher, outcome, lives>>
          BY <3>2 DEF AckError, CloseUnpublished, Lose
        <4> QED
          BY <1>1, <4>1, <4>2
      <3>3. CASE Die(w)
        BY <1>1, <3>3 DEF Die, Fault
      <3> QED
        BY <1>6, <3>1, <3>2, <3>3
    <2> QED
      BY <1>1, <2>1, <2>2, WorkersStep
  <1> QED
    BY <1>2, <1>3, <1>4, <1>5, <1>6 DEF Work

LEMMA IInvPreserved == IInv /\ [Next]_vars => IInv'
  <1> SUFFICES ASSUME IInv, [Next]_vars PROVE IInv'
    OBVIOUS
  <1>1. CASE Create \/ EnqueueError
    BY <1>1, RequestStep DEF Create
  <1>2. ASSUME NEW e \in Entries, EnqueueReplyLost(e) \/ DeliverUnseen(e) PROVE IInv'
    <2>1. CASE EnqueueReplyLost(e)
      BY <2>1, RequestStep
    <2>2. CASE DeliverUnseen(e)
      <3>1. Queue!Next /\ faults' \in 0 .. MaxFaults /\ stray' = stray /\ lives' = lives
        BY <2>2, Constants DEF IInv, TypeOK, DeliverUnseen, Fault, Queue!Next
      <3> QED
        BY <2>2, <3>1, WorkersStep DEF IInv, TypeOK, DeliverUnseen
    <2> QED
      BY <1>2, <2>1, <2>2
  <1>3. ASSUME NEW w \in Workers,
               \/ Work(w) \/ LiveSnapshot(w)
               \/ CloseUnpublished(w) \/ AckError(w) \/ Lose(w) \/ Regain(w) \/ Die(w)
        PROVE  IInv'
    BY <1>3, WorkStep
  <1>4. CASE Watch \/ ReadError
    BY <1>4, ReadingStep, HandleKnownStep, OnTestFinishedStep DEF Watch
  <1>5. CASE Restart
    BY <1>5, RestartStep
  <1>6. CASE Wipe
    BY <1>6, WipeStep
  <1>7. CASE UNCHANGED vars
    <2>1. UNCHANGED <<queue, results, stray, handler, store, watcher, outcome, bounds>>
      BY <1>7 DEF vars
    <2> QED
      BY <2>1, WorkersStep DEF IInv, TypeOK, bounds
  <1> QED
    BY <1>1, <1>2, <1>3, <1>4, <1>5, <1>6, <1>7 DEF Next

-----------------------------------------------------------------------------
\* What the watcher has read by any time accounts for what the store says of the
\* test, and for how often it finished (resultwatcher.go:28-101, teststore.go:162-227).
THEOREM SpecIInv == Spec => []IInv
  BY InitIInv, IInvPreserved, PTL DEF Spec

\* Every variable keeps its type, and the cursor never points past the stream.
THEOREM SpecTypeOK == Spec => []TypeOK
  BY SpecIInv, PTL DEF IInv

\* A test is saved and announced only after the final reports of all of its sub-jobs,
\* and only if its request was accepted (resultwatcher.go:49-74, handlers.go:373-377).
THEOREM SpecFinishedMeansReported == Spec => []FinishedMeansReported
  <1>1. IInv => FinishedMeansReported
    <2> SUFFICES ASSUME IInv, notices > 0 \/ saves > 0
                 PROVE  handler = "accepted" /\ \A j \in Jobs : FinalReported(j)
      BY DEF FinishedMeansReported
    <2>1. handler = "accepted"
      BY DEF IInv, OnlyAcceptedFinish
    <2>2. \A i \in 1 .. from : i \in DOMAIN results
      BY LenProperties DEF IInv, TypeOK
    <2>3. \A j \in Jobs : FinalReported(j)
      BY <2>2 DEF IInv, FinishedIsHeard, Heard, FinalReported
    <2> QED
      BY <2>1, <2>3
  <1> QED
    BY <1>1, SpecIInv, PTL

\* The watcher finishes a test again only behind a live snapshot that follows a final
\* one (teststore.go:182-191).
THEOREM SpecFinishedTwiceNeedsLateLive == Spec => []FinishedTwiceNeedsLateLive
  <1>1. IInv => FinishedTwiceNeedsLateLive
    <2> SUFFICES ASSUME IInv, notices > 1 PROVE LiveAfterFinal
      BY DEF FinishedTwiceNeedsLateLive
    <2>1. \A i \in 1 .. from : i \in DOMAIN results
      BY LenProperties DEF IInv, TypeOK
    <2> QED
      BY <2>1 DEF IInv, TakenBackByLate, HeardLate, LiveAfterFinal
  <1> QED
    BY <1>1, SpecIInv, PTL

-----------------------------------------------------------------------------
(* The jobs stream as the test sees it is the one AtLeastOnce specifies. *)

LEMMA QueueStepOfNext == [Next]_vars => [Queue!Next]_(Queue!vars)
  <1> SUFFICES ASSUME [Next]_vars PROVE Queue!Next \/ UNCHANGED Queue!vars
    OBVIOUS
  <1> USE DEF Queue!vars, queue
  <1>1. CASE Create \/ EnqueueError
    BY <1>1 DEF Create, Enqueue, Add, RetriesFail, Register, EnqueueError, Queue!Next
  <1>2. ASSUME NEW e \in Entries, EnqueueReplyLost(e) \/ DeliverUnseen(e) PROVE Queue!Next
    BY <1>2 DEF EnqueueReplyLost, Add, DeliverUnseen, Queue!Next
  <1>3. ASSUME NEW w \in Workers, Work(w) PROVE Queue!Next \/ UNCHANGED Queue!vars
    BY <1>3 DEF Work, Take, Close, Ack, StraySnapshot, Queue!Next
  <1>4. ASSUME NEW w \in Workers,
               \/ LiveSnapshot(w) \/ CloseUnpublished(w) \/ AckError(w)
               \/ Lose(w) \/ Regain(w) \/ Die(w)
        PROVE  Queue!Next \/ UNCHANGED Queue!vars
    BY <1>4 DEF LiveSnapshot, CloseUnpublished, AckError, Lose, Regain, Die, Queue!Next
  <1>5. CASE Watch \/ ReadError \/ Restart
    BY <1>5 DEF Watch, IssueRead, ReadTimeout, ReadReturns, HandleKnown, HandleUnknown,
                OnTestFinished, ReadError, Restart
  <1>6. CASE Wipe
    BY <1>6 DEF Wipe, Queue!Next
  <1>7. CASE UNCHANGED vars
    BY <1>7 DEF vars
  <1> QED
    BY <1>1, <1>2, <1>3, <1>4, <1>5, <1>6, <1>7 DEF Next

\* Whatever the handler, the workers and the watcher do with the jobs stream, they do
\* as AtLeastOnce says: what JobQueue implements is what this model builds on
\* (enqueue.go, worker/main.go, reclaim.go:12-34).
THEOREM SpecUsesQueue == Spec => Queue!Spec
  <1>1. Init => Queue!Init
    BY DEF Init
  <1> QED
    BY <1>1, QueueStepOfNext, PTL DEF Spec, Queue!Spec

-----------------------------------------------------------------------------
(* What the store says of the sub-jobs is what became of them in the queue. *)

\* Who runs an entry has started it, and who gives one up was given it once too often.
WorkersAreTrue ==
    \A w \in Workers :
        /\ at[w] \in {"run", "lost"} => starts[on[w]] > 0
        /\ at[w] = "giveup" => deliveries[on[w]] > MaxDeliveries

\* A ticker's late snapshot is one of a run.
StraysAreTrue == \A w \in Workers : stray[w] # NoJob => starts[stray[w]] > 0

\* What became of a sub-job: an entry of it was started, delivered once too often,
\* reported for good.
Ran(j) == \E e \in Copies(j) : starts[e] > 0
GivenUp(j) == \E e \in Copies(j) : deliveries[e] > MaxDeliveries
Reported(j) == \E e \in Copies(j) : e \in final

\* What a report says of its sub-job (worker/main.go:186-236, reclaim.go:140-154).
TrueReport(m) ==
    /\ m.kind = "abandoned" => GivenUp(m.job)
    /\ m.kind # "abandoned" => Ran(m.job)
    /\ IsFinal(m) => Reported(m.job)

ReportsAreTrue == \A i \in DOMAIN results : TrueReport(results[i])

\* A sub-job is shown as abandoned only if it was delivered too often, and as done
\* otherwise only if it was run.
StoreIsTrue ==
    /\ \A j \in abandoned : GivenUp(j)
    /\ \A j \in done \ abandoned : Ran(j)

AllTrue == WorkersAreTrue /\ StraysAreTrue /\ ReportsAreTrue /\ StoreIsTrue

\* Nothing finishes that was not run, or given up, and reported for good.
FinishedMeansServed ==
    notices > 0 \/ saves > 0 =>
        \A j \in Jobs : Reported(j) /\ (Ran(j) \/ GivenUp(j))

\* The queue forgets no start, no verdict and no report.
LEMMA QueueOnlyGrows ==
    ASSUME QueueOK, WorkersAreTrue, Queue!Next \/ UNCHANGED queue
    PROVE  /\ WorkersAreTrue'
           /\ \A e \in Entries : starts[e] > 0 => starts'[e] > 0
           /\ \A j \in Jobs : (Ran(j) => Ran(j)') /\ (GivenUp(j) => GivenUp(j)')
                             /\ (Reported(j) => Reported(j)')
  <1> DEFINE Grows == /\ WorkersAreTrue'
                      /\ \A e \in Entries :
                           /\ starts[e] > 0 => starts'[e] > 0
                           /\ deliveries[e] > MaxDeliveries => deliveries'[e] > MaxDeliveries
                      /\ final \subseteq final'
  <1> USE Constants DEF QueueOK, Queue!TypeOK, BusyOnJobs, WorkersAreTrue
  <1>1. ASSUME UNCHANGED queue PROVE Grows
    BY <1>1 DEF queue
  <1>2. ASSUME Queue!Wipe PROVE Grows
    BY <1>2 DEF Queue!Wipe
  <1>3. ASSUME NEW e \in Entries, Queue!Submit(e) \/ Queue!DeliverUnseen(e) PROVE Grows
    BY <1>3 DEF Queue!Submit, Queue!DeliverUnseen, Queue!Deliver
  <1>4. ASSUME NEW w \in Workers, NEW e \in Entries, Queue!Start(w, e) PROVE Grows
    BY <1>4 DEF Queue!Start, Queue!Deliver
  <1>5. ASSUME NEW w \in Workers, NEW e \in Entries, Queue!TakePoison(w, e) PROVE Grows
    BY <1>5 DEF Queue!TakePoison, Queue!Deliver
  <1>6. ASSUME NEW w \in Workers, Queue!Lose(w) \/ Queue!Regain(w) \/ Queue!Die(w)
        PROVE  Grows
    BY <1>6 DEF Queue!Lose, Queue!Regain, Queue!Die
  <1>7. ASSUME NEW w \in Workers, NEW b \in BOOLEAN, Queue!Close(w, b) PROVE Grows
    BY <1>7 DEF Queue!Close
  <1>8. ASSUME NEW w \in Workers, NEW b \in BOOLEAN, Queue!Ack(w, b) PROVE Grows
    BY <1>8 DEF Queue!Ack
  <1> HIDE DEF Grows, QueueOK, Queue!TypeOK, BusyOnJobs, WorkersAreTrue
  <1>9. Grows
    BY <1>1, <1>2, <1>3, <1>4, <1>5, <1>6, <1>7, <1>8 DEF Queue!Next
  <1> QED
    BY <1>9, EntriesAreCopies, Zenon DEF Grows, Ran, GivenUp, Reported

\* A worker publishes what is true of its job, or nothing; a flush only takes reports away.
LEMMA PublishedIsTrue ==
    ASSUME IInv, AllTrue, [Next]_vars
    PROVE  \/ UNCHANGED results
           \/ \E e \in Entries, kind \in {"live", "done", "abandoned"} :
                Publish(e, kind) /\ TrueReport([job |-> SubJob(e), kind |-> kind])'
           \/ Wipe
  <1> DEFINE True == \E e \in Entries, kind \in {"live", "done", "abandoned"} :
                       Publish(e, kind) /\ TrueReport([job |-> SubJob(e), kind |-> kind])'
  <1> USE DEF TrueReport, IsFinal, AllTrue
  <1>0. \A e \in Entries :
          /\ starts'[e] > 0 => Ran(SubJob(e))'
          /\ deliveries'[e] > MaxDeliveries => GivenUp(SubJob(e))'
          /\ e \in final' => Reported(SubJob(e))'
    BY EntriesAreCopies DEF Ran, GivenUp, Reported
  <1>1. ASSUME NEW w \in Workers, LiveSnapshot(w) PROVE True
    <2>1. on[w] \in Entries /\ starts'[on[w]] > 0 /\ Publish(on[w], "live")
      BY <1>1 DEF LiveSnapshot, IInv, BusyOnJobs, WorkersAreTrue, queue
    <2> QED
      BY <1>0, <2>1
  <1>2. ASSUME NEW w \in Workers, StraySnapshot(w) PROVE True
    <2>1. stray[w] \in Entries /\ starts'[stray[w]] > 0 /\ Publish(stray[w], "live")
      BY <1>2 DEF StraySnapshot, StraysAreTrue, IInv, TypeOK, queue
    <2> QED
      BY <1>0, <2>1
  <1>3. ASSUME NEW w \in Workers, Close(w) PROVE True
    <2>1. /\ on[w] \in Entries /\ at[w] \in {"run", "lost", "giveup"}
          /\ final' = final \cup {on[w]} /\ starts' = starts /\ deliveries' = deliveries
          /\ Publish(on[w], IF at[w] = "giveup" THEN "abandoned" ELSE "done")
      BY <1>3 DEF Close, Queue!Close, IInv, BusyOnJobs
    <2>2. CASE at[w] = "giveup"
      <3>1. deliveries'[on[w]] > MaxDeliveries /\ on[w] \in final' /\ Publish(on[w], "abandoned")
        BY <2>1, <2>2 DEF WorkersAreTrue
      <3> QED
        BY <1>0, <2>1, <3>1
    <2>3. CASE at[w] # "giveup"
      <3>1. starts'[on[w]] > 0 /\ on[w] \in final' /\ Publish(on[w], "done")
        BY <2>1, <2>3 DEF WorkersAreTrue
      <3> QED
        BY <1>0, <2>1, <3>1
    <2> QED
      BY <2>2, <2>3
  <1>4. ASSUME NEW w \in Workers,
               \/ \E e \in Entries : Take(w, e)
               \/ Ack(w) \/ CloseUnpublished(w) \/ AckError(w) \/ Lose(w) \/ Regain(w) \/ Die(w)
        PROVE  UNCHANGED results
    BY <1>4 DEF Take, Ack, CloseUnpublished, AckError, Lose, Regain, Die
  <1>5. CASE \/ Create \/ EnqueueError \/ Restart
             \/ \E e \in Entries : EnqueueReplyLost(e) \/ DeliverUnseen(e)
    BY <1>5 DEF Create, Enqueue, RetriesFail, Register, EnqueueError, EnqueueReplyLost,
                DeliverUnseen, Restart
  <1>6. CASE Watch \/ ReadError
    BY <1>6 DEF Watch, IssueRead, ReadTimeout, ReadReturns, HandleKnown, HandleUnknown,
                OnTestFinished, ReadError
  <1>7. CASE UNCHANGED vars
    BY <1>7 DEF vars
  <1> HIDE DEF True
  <1> QED
    BY <1>1, <1>2, <1>3, <1>4, <1>5, <1>6, <1>7 DEF Next, Work, True

LEMMA AllTruePreserved == ASSUME IInv, AllTrue, [Next]_vars PROVE AllTrue'
  <1>1. /\ WorkersAreTrue'
        /\ \A e \in Entries : starts[e] > 0 => starts'[e] > 0
        /\ \A j \in Jobs : (Ran(j) => Ran(j)') /\ (GivenUp(j) => GivenUp(j)')
                          /\ (Reported(j) => Reported(j)')
    <2>1. QueueOK /\ WorkersAreTrue
      BY DEF IInv, TypeOK, QueueOK, AllTrue
    <2>2. Queue!Next \/ UNCHANGED queue
      BY QueueStepOfNext DEF Queue!vars, queue
    <2> QED
      BY <2>1, <2>2, QueueOnlyGrows
  <1>2. \A m \in Report : TrueReport(m) => TrueReport(m)'
    BY <1>1 DEF Report, TrueReport
  <1>3. /\ results \in Seq(Report) /\ Len(results) \in Nat
        /\ \A i \in 1 .. Len(results) : results[i] \in Report /\ TrueReport(results[i])
    <2>1. results \in Seq(Report)
      BY DEF IInv, TypeOK
    <2> QED
      BY <2>1, ElementOfSeq, LenProperties DEF AllTrue, ReportsAreTrue
  <1>4. ReportsAreTrue'
    <2>1. CASE UNCHANGED results
      BY <1>2, <1>3, <2>1 DEF ReportsAreTrue
    <2>2. ASSUME NEW e \in Entries, NEW kind \in {"live", "done", "abandoned"},
                 Publish(e, kind), TrueReport([job |-> SubJob(e), kind |-> kind])'
          PROVE  ReportsAreTrue'
      <3> DEFINE m == [job |-> SubJob(e), kind |-> kind]
      <3>1. results' = Append(results, m) /\ TrueReport(m)' /\ m \in Report
        BY <2>2, EntriesAreCopies DEF Publish, Report
      <3> HIDE DEF m
      <3>2. /\ DOMAIN results' = 1 .. Len(results) + 1
            /\ \A i \in 1 .. Len(results) : results'[i] = results[i]
            /\ results'[Len(results) + 1] = m
        BY <1>3, <3>1, AppendProperties
      <3>3. ASSUME NEW i \in DOMAIN results' PROVE TrueReport(results[i])'
        <4>1. i \in 1 .. Len(results) \/ i = Len(results) + 1
          BY <1>3, <3>2
        <4>2. CASE i \in 1 .. Len(results)
          <5>1. PICK r \in Report : r = results[i] /\ r = results'[i]
            BY <1>3, <3>2, <4>2
          <5>2. TrueReport(r)'
            BY <1>2, <1>3, <4>2, <5>1
          <5> QED
            BY <5>1, <5>2 DEF TrueReport
        <4>3. CASE i = Len(results) + 1
          BY <3>1, <3>2, <4>3 DEF TrueReport
        <4> QED
          BY <4>1, <4>2, <4>3
      <3> QED
        BY <3>3 DEF ReportsAreTrue
    <2>3. CASE Wipe
      <3>1. results' = SubSeq(results, 1, Reached)
        BY <2>3 DEF Wipe
      <3>2. Reached \in Nat /\ Reached <= Len(results)
        BY LenProperties DEF IInv, TypeOK, CursorInBatch, Reached
      <3>3. DOMAIN results' = 1 .. Reached /\ \A i \in 1 .. Reached : results'[i] = results[i]
        BY <1>3, <3>1, <3>2, SubSeqProperties
      <3>4. \A i \in 1 .. Reached : i \in 1 .. Len(results)
        BY <1>3, <3>2
      <3> QED
        BY <1>2, <1>3, <3>3, <3>4 DEF ReportsAreTrue
    <2> QED
      BY <2>1, <2>2, <2>3, PublishedIsTrue
  <1>5. StraysAreTrue'
    <2>1. ASSUME NEW w \in Workers, Close(w) PROVE StraysAreTrue'
      <3>1. /\ stray' = stray
            \/ /\ at[w] \in {"run", "lost"} /\ stray' = [stray EXCEPT ![w] = on[w]]
        BY <2>1 DEF Close, Queue!Close
      <3>2. /\ stray \in [Workers -> Entries \cup {NoJob}]
            /\ at[w] \in {"run", "lost"} => on[w] \in Entries /\ starts[on[w]] > 0
            /\ StraysAreTrue
        BY DEF IInv, TypeOK, BusyOnJobs, AllTrue, WorkersAreTrue
      <3> QED
        BY <1>1, <3>1, <3>2 DEF StraysAreTrue
    <2>2. CASE \A w \in Workers : stray'[w] \in {stray[w], NoJob}
      BY <1>1, <2>2 DEF IInv, TypeOK, AllTrue, StraysAreTrue
    <2>3. ASSUME NEW w \in Workers, StraySnapshot(w) \/ Die(w)
          PROVE  \A v \in Workers : stray'[v] \in {stray[v], NoJob}
      BY <2>3 DEF StraySnapshot, Die, IInv, TypeOK
    <2>4. ASSUME NEW w \in Workers,
                 \/ \E e \in Entries : Take(w, e)
                 \/ Ack(w) \/ LiveSnapshot(w) \/ CloseUnpublished(w) \/ AckError(w)
                 \/ Lose(w) \/ Regain(w)
          PROVE  stray' = stray
      BY <2>4 DEF Take, Ack, LiveSnapshot, CloseUnpublished, AckError, Lose, Regain
    <2>5. CASE \/ Create \/ EnqueueError \/ Restart \/ Wipe
               \/ \E e \in Entries : EnqueueReplyLost(e) \/ DeliverUnseen(e)
               \/ Watch \/ ReadError \/ UNCHANGED vars
      <3>1. CASE \/ Create \/ EnqueueError \/ Restart \/ Wipe
                 \/ \E e \in Entries : EnqueueReplyLost(e) \/ DeliverUnseen(e)
        BY <3>1, <2>2 DEF Create, Enqueue, RetriesFail, Register, EnqueueError, EnqueueReplyLost,
                          DeliverUnseen, Restart, Wipe
      <3>2. CASE Watch \/ ReadError
        BY <3>2, <2>2 DEF Watch, IssueRead, ReadTimeout, ReadReturns, HandleKnown,
                          HandleUnknown, OnTestFinished, ReadError
      <3>3. CASE UNCHANGED vars
        BY <3>3, <2>2 DEF vars
      <3> QED
        BY <2>5, <3>1, <3>2, <3>3
    <2> QED
      BY <2>1, <2>2, <2>3, <2>4, <2>5 DEF Next, Work
  <1>6. StoreIsTrue'
    <2>1. CASE done' = {} /\ abandoned' = {}
      BY <2>1 DEF StoreIsTrue
    <2>2. CASE done' = done /\ abandoned' = abandoned
      BY <1>1, <2>2 DEF StoreIsTrue, AllTrue, IInv, TypeOK
    <2>3. CASE HandleKnown
      <3>1. from + 1 \in 1 .. Len(results)
        BY <1>3, <2>3 DEF HandleKnown, IInv, TypeOK
      <3>2. PICK m \in Report : m = results[from + 1] /\ TrueReport(m)'
        BY <1>2, <1>3, <3>1
      <3>3. \/ m.kind = "abandoned" /\ MarkAbandoned(m)
            \/ m.kind # "abandoned" /\ Update(m)
        BY <2>3, <3>2 DEF HandleKnown
      <3> QED
        BY <1>1, <3>2, <3>3
        DEF StoreIsTrue, AllTrue, IInv, TypeOK, TrueReport, Report, MarkAbandoned, Update
    <2>4. CASE Watch \/ ReadError
      BY <2>2, <2>3, <2>4 DEF Watch, IssueRead, ReadTimeout, ReadReturns, HandleUnknown,
                              OnTestFinished, ReadError, store
    <2>5. CASE \/ Create \/ EnqueueError \/ Restart \/ Wipe
               \/ \E e \in Entries : EnqueueReplyLost(e) \/ DeliverUnseen(e)
      BY <2>1, <2>2, <2>5
      DEF Create, Enqueue, RetriesFail, Register, EnqueueError, EnqueueReplyLost, DeliverUnseen,
          Restart, Wipe, store
    <2>6. ASSUME NEW w \in Workers,
                 \/ Work(w) \/ LiveSnapshot(w)
                 \/ CloseUnpublished(w) \/ AckError(w) \/ Lose(w) \/ Regain(w) \/ Die(w)
          PROVE  done' = done /\ abandoned' = abandoned
      BY <2>6 DEF Work, Take, Close, Ack, StraySnapshot, LiveSnapshot, CloseUnpublished,
                  AckError, Lose, Regain, Die, store
    <2>7. CASE UNCHANGED vars
      BY <2>2, <2>7 DEF vars, store
    <2> QED
      BY <2>2, <2>4, <2>5, <2>6, <2>7 DEF Next
  <1> QED
    BY <1>1, <1>4, <1>5, <1>6 DEF AllTrue

\* Every report on the stream, every late snapshot under way and every mark in the
\* store is true of the sub-job it is about, whatever is lost, repeated, reordered,
\* restarted or flushed (teststore.go:162-227, resultwatcher.go:49-74).
THEOREM SpecAllTrue == Spec => []AllTrue
  <1>1. Init => AllTrue
    BY DEF Init, Queue!Init, AllTrue, WorkersAreTrue, StraysAreTrue, ReportsAreTrue, StoreIsTrue
  <1> QED
    BY <1>1, SpecIInv, AllTruePreserved, PTL DEF Spec

\* A test is saved and announced only when each of its sub-jobs was started by some
\* worker, or was delivered too often and given up (resultwatcher.go:78-101).
THEOREM SpecFinishedMeansServed == Spec => []FinishedMeansServed
  <1>1. IInv /\ AllTrue => FinishedMeansServed
    <2> SUFFICES ASSUME IInv, AllTrue, notices > 0 \/ saves > 0, NEW j \in Jobs
                 PROVE  Reported(j) /\ (Ran(j) \/ GivenUp(j))
      BY DEF FinishedMeansServed
    <2>1. PICK i \in 1 .. from : results[i].job = j /\ IsFinal(results[i])
      BY DEF IInv, FinishedIsHeard, Heard
    <2>2. i \in DOMAIN results
      BY LenProperties DEF IInv, TypeOK
    <2>3. TrueReport(results[i])
      BY <2>2 DEF AllTrue, ReportsAreTrue
    <2> QED
      BY <2>1, <2>3 DEF TrueReport
  <1> QED
    BY <1>1, SpecIInv, SpecAllTrue, PTL

-----------------------------------------------------------------------------
(***************************************************************************)
(* Nothing is left open without a cause: the part of EveryTestFinishes     *)
(* that needs no fairness (resultwatcher.go:28-76, teststore.go:162-227).  *)
(***************************************************************************)

\* Nothing was ignored or passed over.
Unbroken == ignored = {} /\ ~skipped

\* The handler is not done with the request.
Requested == handler \in {"enqueue", "retry", "register"}

\* While nothing was, the store has the marks of what was read since Register, and the
\* watcher has read no final report before.
ReadIsMarked ==
    Unbroken =>
        /\ registered => \A j \in Jobs : j \in done <=> \E i \in 1 .. from : ClosedBy(j, i)
        /\ Requested => \A i \in 1 .. from : ~IsFinal(results[i])

\* The last mark of a test is never missed.
DoneIsNoticed == registered /\ AllDone(done) => wpc = "finishing" \/ notices > 0

\* Everybody has done what there was to do.
AtRest ==
    /\ handler = "accepted" /\ \A j \in Jobs : Over(j)
    /\ wpc \in {"between", "blocked"} /\ from = Len(results)

\* A test nobody will touch again has finished, unless there is a cause it did not.
AtRestIsFinished == AtRest => notices > 0 \/ Stranded

Marks == ReadIsMarked /\ DoneIsNoticed

\* No step changes what the watcher has read.
LEMMA ReadIsKept ==
    ASSUME IInv, AllTrue, [Next]_vars
    PROVE  \A i \in 1 .. from : results'[i] = results[i]
  <1>1. /\ results \in Seq(Report) /\ Len(results) \in Nat
        /\ from \in Nat /\ from <= Len(results)
    BY LenProperties DEF IInv, TypeOK
  <1>2. ASSUME NEW e \in Entries, NEW kind \in {"live", "done", "abandoned"}, Publish(e, kind)
        PROVE  \A i \in 1 .. from : results'[i] = results[i]
    BY <1>1, <1>2, Published
  <1>3. CASE Wipe
    <2>1. Reached \in Nat /\ from <= Reached /\ Reached <= Len(results)
      BY <1>1, LenProperties DEF IInv, TypeOK, CursorInBatch, Reached
    <2> QED
      BY <1>1, <1>3, <2>1, SubSeqProperties DEF Wipe
  <1> QED
    BY <1>2, <1>3, PublishedIsTrue

\* Who leaves cursor, store and outcome alone, and accepts nothing, leaves the marks alone.
LEMMA MarksStay ==
    ASSUME Marks, \A i \in 1 .. from : results'[i] = results[i],
           UNCHANGED <<registered, done, from, ignored, skipped, notices>>,
           Requested' => Requested,
           wpc = "finishing" => wpc' = "finishing"
    PROVE  Marks'
  <1>1. \A i \in 1 .. from : IsFinal(results[i])' <=> IsFinal(results[i])
    BY DEF IsFinal
  <1>2. \A j \in Jobs : \A i \in 1 .. from : ClosedBy(j, i)' <=> ClosedBy(j, i)
    BY <1>1 DEF ClosedBy
  <1>3. ReadIsMarked'
    BY <1>1, <1>2 DEF Marks, ReadIsMarked, Unbroken
  <1>4. DoneIsNoticed'
    BY DEF Marks, DoneIsNoticed, AllDone
  <1> QED
    BY <1>3, <1>4 DEF Marks

LEMMA HandleKnownMarks == ASSUME IInv, Marks, HandleKnown PROVE Marks'
  <1>1. /\ from \in Nat /\ from + 1 \in 1 .. Len(results) /\ results \in Seq(Report)
        /\ from' = from + 1 /\ results' = results
    BY LenProperties DEF IInv, TypeOK, HandleKnown
  <1>2. PICK m \in Report : m = results[from + 1]
    BY <1>1, ElementOfSeq
  <1>3. /\ wpc = "handling" /\ registered /\ registered'
        /\ UNCHANGED <<handler, ignored, skipped, notices>>
    BY DEF HandleKnown, outcome
  <1>4. /\ IF m.kind = "abandoned" THEN MarkAbandoned(m) ELSE Update(m)
        /\ JustFinished => wpc' = "finishing"
    BY <1>2 DEF HandleKnown
  <1>5. /\ IsFinal(m) => done' = done \cup {m.job}
        /\ ~IsFinal(m) => done' = done \ {m.job}
    BY <1>2, <1>4 DEF Report, IsFinal, MarkAbandoned, Update
  <1>6. ~Requested'
    BY <1>3 DEF IInv, OnlyAcceptedFinish, Requested
  <1>7. DoneIsNoticed'
    BY <1>3, <1>4 DEF Marks, DoneIsNoticed, JustFinished
  <1> DEFINE Last(j, i) == \A k \in 1 .. from : k > i /\ results[k].job = j => IsFinal(results[k])
             After(j, i) == /\ results[i].job = j /\ IsFinal(results[i])
                            /\ \A k \in 1 .. from + 1 :
                                 k > i /\ results[k].job = j => IsFinal(results[k])
  <1>8. ASSUME NEW j \in Jobs
        PROVE  /\ After(j, from + 1) <=> j = m.job /\ IsFinal(m)
               /\ j # m.job \/ IsFinal(m) =>
                    \A i \in 1 .. from : After(j, i) <=> ClosedBy(j, i)
               /\ j = m.job /\ ~IsFinal(m) => \A i \in 1 .. from : ~After(j, i)
    <2>1. \A i : i \in 1 .. from + 1 <=> i \in 1 .. from \/ i = from + 1
      BY <1>1
    <2>2. results[from + 1] = m /\ \A i \in 1 .. from : from + 1 > i /\ ~(i > from + 1)
      BY <1>1, <1>2
    <2>3. Last(j, from + 1)
      BY <2>2
    <2>4. ~(from + 1 > from + 1)
      BY <1>1
    <2>5. After(j, from + 1) <=> j = m.job /\ IsFinal(m)
      BY <2>1, <2>2, <2>3, <2>4
    <2>6. ASSUME NEW i \in 1 .. from
          PROVE  After(j, i) <=> ClosedBy(j, i) /\ (m.job = j => IsFinal(m))
      BY <2>1, <2>2 DEF ClosedBy
    <2> HIDE DEF After
    <2> QED
      BY <2>5, <2>6
  <1> HIDE DEF After
  <1>9. ASSUME Unbroken, NEW j \in Jobs
        PROVE  j \in done' <=> \E i \in 1 .. from + 1 : After(j, i)
    <2>1. j \in done <=> \E i \in 1 .. from : ClosedBy(j, i)
      BY <1>3, <1>9 DEF Marks, ReadIsMarked
    <2>2. \A i : i \in 1 .. from + 1 <=> i \in 1 .. from \/ i = from + 1
      BY <1>1
    <2>3. CASE j # m.job
      <3>1. j \in done' <=> j \in done
        BY <1>5, <2>3
      <3> QED
        BY <1>8, <2>1, <2>2, <2>3, <3>1
    <2>4. CASE j = m.job /\ IsFinal(m)
      BY <1>5, <1>8, <2>2, <2>4
    <2>5. CASE j = m.job /\ ~IsFinal(m)
      BY <1>5, <1>8, <2>2, <2>5
    <2> QED
      BY <2>3, <2>4, <2>5
  <1>10. ReadIsMarked'
    <2>1. Unbroken' => Unbroken
      BY <1>3 DEF Unbroken
    <2>2. \A j \in Jobs : (\E i \in 1 .. from : ClosedBy(j, i))'
                           <=> \E i \in 1 .. from + 1 : After(j, i)
      BY <1>1 DEF ClosedBy, IsFinal, After
    <2> QED
      BY <1>6, <1>9, <2>1, <2>2 DEF ReadIsMarked
  <1> QED
    BY <1>7, <1>10 DEF Marks

LEMMA HandleUnknownMarks == ASSUME IInv, Marks, HandleUnknown PROVE Marks'
  <1>1. /\ from \in Nat /\ from' = from + 1 /\ ~registered /\ wpc = "handling"
        /\ ignored' = IF IsFinal(results[from + 1]) THEN ignored \cup {results[from + 1].job}
                                                    ELSE ignored
        /\ UNCHANGED <<results, handler, registered, done, skipped, notices>>
    BY DEF IInv, TypeOK, HandleUnknown, store
  <1>2. Unbroken' => Unbroken /\ ~IsFinal(results[from + 1])
    BY <1>1 DEF Unbroken
  <1>3. \A i \in 1 .. from + 1 : i \in 1 .. from \/ i = from + 1
    BY <1>1
  <1>4. ReadIsMarked'
    BY <1>1, <1>2, <1>3 DEF Marks, ReadIsMarked, IsFinal, Requested
  <1> QED
    BY <1>1, <1>4 DEF Marks, DoneIsNoticed

LEMMA MarksPreserved == ASSUME IInv, AllTrue, Marks, [Next]_vars PROVE Marks'
  <1>0. \A i \in 1 .. from : results'[i] = results[i]
    BY ReadIsKept
  <1>1. CASE HandleKnown \/ HandleUnknown
    BY <1>1, HandleKnownMarks, HandleUnknownMarks
  <1>2. CASE Register
    <2>1. /\ handler = "register" /\ handler' = "accepted" /\ done' = {}
          /\ UNCHANGED <<results, from, ignored, skipped>>
      BY <1>2 DEF Register, watcher, outcome
    <2>2. ~AllDone(done')
      BY <2>1, Constants DEF AllDone, Jobs
    <2>3. Unbroken' => \A j \in Jobs : \A i \in 1 .. from : ~ClosedBy(j, i)'
      BY <2>1 DEF Marks, ReadIsMarked, Unbroken, ClosedBy, IsFinal, Requested
    <2> QED
      BY <2>1, <2>2, <2>3 DEF Marks, ReadIsMarked, DoneIsNoticed, Requested
  <1>3. CASE Restart
    BY <1>3 DEF Restart, Marks, ReadIsMarked, DoneIsNoticed, Requested
  <1>4. CASE OnTestFinished
    <2>1. /\ notices' = notices + 1 /\ notices \in Nat
          /\ UNCHANGED <<results, handler, registered, done, from, ignored, skipped>>
      BY <1>4 DEF OnTestFinished, IInv, TypeOK, store
    <2>2. DoneIsNoticed'
      BY <2>1 DEF DoneIsNoticed
    <2>3. \A j \in Jobs : \A i \in 1 .. from : ClosedBy(j, i)' <=> ClosedBy(j, i)
      BY <2>1 DEF ClosedBy, IsFinal
    <2>4. ReadIsMarked'
      BY <2>1, <2>3 DEF Marks, ReadIsMarked, Unbroken, IsFinal, Requested
    <2> QED
      BY <2>2, <2>4 DEF Marks
  <1>5. CASE IssueRead
    <2>1. CASE skipped'
      BY <1>5, <2>1 DEF IssueRead, Marks, ReadIsMarked, Unbroken, DoneIsNoticed, store, AllDone
    <2>2. CASE ~skipped'
      <3>1. from' = from
        BY <1>5, <2>2, LenProperties DEF IssueRead, ReadFrom, IInv, TypeOK
      <3>2. skipped' = skipped
        <4>1. ~skipped
          BY <1>5, <2>2 DEF IssueRead
        <4>2. skipped \in BOOLEAN /\ skipped' \in BOOLEAN
          BY <1>5, Zenon DEF IssueRead, IInv, TypeOK
        <4> QED
          BY <2>2, <4>1, <4>2
      <3> QED
        BY <1>0, <1>5, <3>1, <3>2, MarksStay DEF IssueRead, store, Requested
    <2> QED
      BY <2>1, <2>2
  <1>6. CASE ReadTimeout \/ ReadError \/ ReadReturns
    BY <1>0, <1>6, MarksStay DEF ReadTimeout, ReadError, ReadReturns, store, outcome, Requested
  <1>7. CASE \/ \E e \in Entries : Enqueue(e) \/ EnqueueReplyLost(e) \/ DeliverUnseen(e)
             \/ EnqueueError \/ RetriesFail \/ Wipe
             \/ \E w \in Workers :
                  \/ Work(w) \/ LiveSnapshot(w)
                  \/ CloseUnpublished(w) \/ AckError(w) \/ Lose(w) \/ Regain(w) \/ Die(w)
             \/ UNCHANGED vars
    <2>1. /\ UNCHANGED <<store, watcher, outcome>>
          /\ Requested' => Requested
      <3>1. CASE \/ \E e \in Entries : Enqueue(e) \/ EnqueueReplyLost(e) \/ DeliverUnseen(e)
                 \/ EnqueueError \/ RetriesFail \/ Wipe
        BY <3>1 DEF Enqueue, EnqueueReplyLost, Add, Current, DeliverUnseen, EnqueueError,
                    RetriesFail, Wipe, Requested
      <3>2. ASSUME NEW w \in Workers,
                   \/ Work(w) \/ LiveSnapshot(w)
                   \/ CloseUnpublished(w) \/ AckError(w) \/ Lose(w) \/ Regain(w) \/ Die(w)
            PROVE  UNCHANGED <<store, watcher, outcome>> /\ (Requested' => Requested)
        BY <3>2 DEF Requested, Work, Take, Close, Ack, StraySnapshot, LiveSnapshot, CloseUnpublished,
                    AckError, Lose, Regain, Die
      <3>3. CASE UNCHANGED vars
        BY <3>3 DEF vars, Requested
      <3> QED
        BY <1>7, <3>1, <3>2, <3>3
    <2> QED
      BY <1>0, <2>1, MarksStay DEF store, watcher, outcome
  <1> QED
    BY <1>1, <1>2, <1>3, <1>4, <1>5, <1>6, <1>7 DEF Next, Create, Watch

\* The store has every mark it was sent since Register, and a test whose last mark was
\* set is announced or about to be (teststore.go:182-217, resultwatcher.go:49-76).
THEOREM SpecMarks == Spec => []Marks
  <1>1. Init => Marks
    BY Constants DEF Init, Marks, ReadIsMarked, DoneIsNoticed
  <1> QED
    BY <1>1, SpecIInv, SpecAllTrue, MarksPreserved, PTL DEF Spec

\* As long as no final report came before Register and no entry fell into the gap between
\* two XREADs that said "$", the marks of the store are those of the last report the watcher
\* has read on each sub-job (resultwatcher.go:39-74, teststore.go:162-227).
THEOREM SpecMarksFollowReports == Spec => []MarksFollowReports
  <1>1. IInv /\ Marks => MarksFollowReports
    BY DEF IInv, TypeOK, Marks, ReadIsMarked, Unbroken, MarksFollowReports, ReadAsFinal
  <1> QED
    BY <1>1, SpecIInv, SpecMarks, PTL

\* When every sub-job of an accepted test is over and the watcher has read the stream to
\* its end, the test has finished, or one of the causes in Stranded holds: there is no
\* other state in which it stays open for good (resultwatcher.go:28-101).
THEOREM SpecAtRestIsFinished == Spec => []AtRestIsFinished
  <1>1. IInv /\ Marks => AtRestIsFinished
    <2> SUFFICES ASSUME IInv, Marks, AtRest, ~Stranded PROVE notices > 0
      BY DEF AtRestIsFinished
    <2>1. /\ registered /\ Unbroken /\ from = Len(results) /\ wpc # "finishing"
          /\ \A j \in Jobs : ~LeftOpen(j)
      BY DEF AtRest, Stranded, Unbroken
    <2>2. DOMAIN results = 1 .. from
      BY <2>1, LenProperties DEF IInv, TypeOK
    <2>3. ASSUME NEW j \in Jobs PROVE j \in done
      <3>1. PICK i \in 1 .. from :
              /\ results[i].job = j /\ IsFinal(results[i])
              /\ ~\E k \in DOMAIN results : k > i /\ results[k].job = j /\ ~IsFinal(results[k])
        BY <2>1, <2>2 DEF LeftOpen
      <3>2. ClosedBy(j, i)
        BY <2>2, <3>1 DEF ClosedBy
      <3> QED
        BY <2>1, <3>2 DEF Marks, ReadIsMarked
    <2>4. AllDone(done)
      BY <2>3 DEF IInv, TypeOK, AllDone
    <2> QED
      BY <2>1, <2>4 DEF Marks, DoneIsNoticed
  <1> QED
    BY <1>1, SpecIInv, SpecMarks, PTL

-----------------------------------------------------------------------------
(***************************************************************************)
(* How often a test finishes: once, and once more at most for every late   *)
(* live snapshot (teststore.go:182-217, resultwatcher.go:49-76).           *)
(***************************************************************************)

\* The live snapshots the watcher has read behind a final report of their sub-job.
LateReads ==
    {k \in 1 .. from :
        /\ ~IsFinal(results[k])
        /\ \E i \in 1 .. from :
             i < k /\ results[i].job = results[k].job /\ IsFinal(results[i])}

Finishes == notices + (IF wpc = "finishing" THEN 1 ELSE 0)

\* While the test is open, each finish was taken back by a late snapshot of its own.
FinishesCounted ==
    Finishes <= Cardinality(LateReads) + (IF registered /\ ~AllDone(done) THEN 0 ELSE 1)

\* So a test is announced at most once more than late snapshots were read.
EachFinishNeedsItsOwn == notices <= Cardinality(LateReads) + 1

\* What was read late stays so, and one more late snapshot is one more.
LEMMA LateReadsGrow ==
    ASSUME IInv, IInv', from' >= from, \A i \in 1 .. from : results'[i] = results[i]
    PROVE  /\ Cardinality(LateReads) \in Nat /\ Cardinality(LateReads') \in Nat
           /\ Cardinality(LateReads) <= Cardinality(LateReads')
           /\ \A k \in LateReads' : k \notin LateReads =>
                Cardinality(LateReads) + 1 <= Cardinality(LateReads')
  <1>1. from \in Nat /\ from' \in Nat /\ \A i \in 1 .. from : i \in 1 .. from'
    BY LenProperties DEF IInv, TypeOK
  <1>2. LateReads \subseteq LateReads'
    BY <1>1 DEF LateReads, IsFinal
  <1>3. /\ IsFiniteSet(LateReads) /\ Cardinality(LateReads) \in Nat
        /\ IsFiniteSet(LateReads') /\ Cardinality(LateReads') \in Nat
    <2>1. IsFiniteSet(1 .. from) /\ IsFiniteSet(1 .. from')
      BY <1>1, FS_Interval
    <2>2. LateReads \subseteq 1 .. from /\ LateReads' \subseteq 1 .. from'
      BY DEF LateReads
    <2> QED
      BY <2>1, <2>2, FS_Subset, FS_CardinalityType
  <1>4. Cardinality(LateReads) <= Cardinality(LateReads')
    BY <1>2, <1>3, FS_Subset
  <1>5. ASSUME NEW k \in LateReads', k \notin LateReads
        PROVE  Cardinality(LateReads) + 1 <= Cardinality(LateReads')
    <2>1. Cardinality(LateReads \cup {k}) = Cardinality(LateReads) + 1
      BY <1>3, <1>5, FS_AddElement
    <2>2. LateReads \cup {k} \subseteq LateReads'
      BY <1>2, <1>5
    <2>3. Cardinality(LateReads \cup {k}) <= Cardinality(LateReads')
      BY <1>3, <2>2, FS_Subset
    <2> QED
      BY <2>1, <2>3
  <1> QED
    BY <1>3, <1>4, <1>5

\* Handling a known update (resultwatcher.go:49-76): a mark taken back is a late read.
LEMMA HandleKnownCounted ==
    ASSUME IInv, IInv', FinishesCounted, HandleKnown PROVE FinishesCounted'
  <1>1. /\ wpc = "handling" /\ registered /\ registered' /\ from' = from + 1
        /\ UNCHANGED <<results, notices>> /\ from \in Nat /\ notices \in Nat
        /\ wpc' = "finishing" => JustFinished
        /\ JustFinished => wpc' = "finishing"
    BY DEF HandleKnown, NextEntry, IInv, TypeOK, outcome
  <1>2. /\ Cardinality(LateReads) \in Nat /\ Cardinality(LateReads') \in Nat
        /\ Cardinality(LateReads) <= Cardinality(LateReads')
        /\ \A k \in LateReads' : k \notin LateReads =>
             Cardinality(LateReads) + 1 <= Cardinality(LateReads')
    <2>1. from' >= from /\ \A i \in 1 .. from : results'[i] = results[i]
      BY <1>1
    <2> QED
      BY <2>1, LateReadsGrow
  <1>3. Finishes = notices /\ Finishes' = IF JustFinished THEN notices + 1 ELSE notices
    BY <1>1 DEF Finishes
  <1>4. CASE AllDone(done')
    BY <1>1, <1>2, <1>3, <1>4 DEF FinishesCounted, JustFinished
  <1>5. CASE ~AllDone(done') /\ AllDone(done)
    <2>1. PICK m \in Report : m = results[from + 1]
      <3>1. results \in Seq(Report) /\ from + 1 \in 1 .. Len(results)
        BY <1>1, LenProperties DEF IInv, TypeOK
      <3> QED
        BY <3>1, ElementOfSeq
    <2>2. m.kind # "abandoned" /\ ~IsFinal(m)
      BY <1>5, <2>1
      DEF HandleKnown, MarkAbandoned, Update, IsFinal, Report, AllDone, IInv, TypeOK
    <2>3. PICK i \in 1 .. from : results[i].job = m.job /\ IsFinal(results[i])
      BY <1>5, <2>1 DEF AllDone, IInv, DoneIsHeard, Heard, Report
    <2>4. from + 1 \in LateReads'
      <3>1. from + 1 \in 1 .. from' /\ i \in 1 .. from' /\ i < from + 1
        BY <1>1
      <3> QED
        BY <1>1, <2>1, <2>2, <2>3, <3>1 DEF LateReads, IsFinal
    <2>5. from + 1 \notin LateReads
      BY <1>1 DEF LateReads
    <2>6. Cardinality(LateReads) + 1 <= Cardinality(LateReads')
      BY <1>2, <2>4, <2>5
    <2>7. notices <= Cardinality(LateReads) + 1 /\ ~JustFinished
      BY <1>1, <1>3, <1>5 DEF FinishesCounted, JustFinished
    <2> QED
      BY <1>1, <1>2, <1>3, <1>5, <2>6, <2>7 DEF FinishesCounted
  <1>6. CASE ~AllDone(done') /\ ~AllDone(done)
    BY <1>1, <1>2, <1>3, <1>6 DEF FinishesCounted, JustFinished
  <1> QED
    BY <1>4, <1>5, <1>6

\* A step that reads on, and does not open a finished test, keeps the count.
LEMMA CountKept ==
    ASSUME IInv, IInv', FinishesCounted,
           from' >= from, \A i \in 1 .. from : results'[i] = results[i],
           Finishes' \in Nat, Finishes' <= Finishes,
           \/ registered' = registered /\ done' = done
           \/ ~registered'
           \/ Finishes' = 0
    PROVE  FinishesCounted'
  <1> DEFINE l == Cardinality(LateReads)
             k == Cardinality(LateReads')
  <1>1. l \in Nat /\ k \in Nat /\ l <= k
    BY LateReadsGrow
  <1>2. Finishes \in Nat
    BY DEF Finishes, IInv, TypeOK
  <1>3. Finishes <= l + (IF registered /\ ~AllDone(done) THEN 0 ELSE 1)
    BY DEF FinishesCounted
  <1>4. (registered' /\ ~AllDone(done')) => Finishes' = 0 \/ (registered /\ ~AllDone(done))
    BY DEF AllDone
  <1> HIDE DEF l, k
  <1>5. Finishes' <= k + (IF registered' /\ ~AllDone(done') THEN 0 ELSE 1)
    BY <1>1, <1>2, <1>3, <1>4
  <1> QED
    BY <1>5 DEF FinishesCounted, k

\* Every step keeps the count.
LEMMA FinishesCountedPreserved ==
    ASSUME IInv, IInv', AllTrue, FinishesCounted, [Next]_vars PROVE FinishesCounted'
  <1>0. /\ \A i \in 1 .. from : results'[i] = results[i]
        /\ from \in Nat /\ from <= Len(results) /\ Len(results) \in Nat
        /\ notices \in Nat
    BY ReadIsKept, LenProperties DEF IInv, TypeOK
  <1>1. CASE HandleKnown
    BY <1>1, HandleKnownCounted
  <1>2. CASE HandleUnknown
    <2>1. from' = from + 1 /\ wpc = "handling" /\ wpc' # "finishing"
          /\ UNCHANGED <<registered, done, notices>>
      BY <1>2 DEF HandleUnknown, NextEntry, store
    <2> QED
      BY <1>0, <2>1, CountKept DEF Finishes
  <1>3. CASE Register
    <2>1. handler = "register" /\ UNCHANGED <<from, wpc, notices>>
      BY <1>3 DEF Register, watcher, outcome
    <2>2. Finishes = 0
      BY <2>1 DEF IInv, OnlyAcceptedFinish, Finishes
    <2> QED
      BY <1>0, <2>1, <2>2, CountKept DEF Finishes
  <1>4. CASE Restart
    <2>1. ~registered' /\ from' = Len(results) /\ wpc' = "between" /\ notices' = notices
      BY <1>4 DEF Restart, outcome
    <2>2. Finishes' = notices /\ Finishes' <= Finishes
      BY <1>0, <2>1 DEF Finishes
    <2> QED
      BY <1>0, <2>1, <2>2, CountKept
  <1>5. CASE OnTestFinished
    <2>1. wpc = "finishing" /\ wpc' # "finishing" /\ notices' = notices + 1 /\ from' = from
          /\ UNCHANGED <<registered, done>>
      BY <1>5 DEF OnTestFinished, NextEntry, store
    <2> QED
      BY <1>0, <2>1, CountKept DEF Finishes
  <1>6. CASE IssueRead \/ ReadTimeout \/ ReadError \/ ReadReturns
    <2>1. from' >= from /\ wpc # "finishing" /\ wpc' # "finishing"
          /\ UNCHANGED <<registered, done, notices>>
      BY <1>0, <1>6 DEF IssueRead, ReadFrom, ReadTimeout, ReadError, ReadReturns, store, outcome
    <2> QED
      BY <1>0, <2>1, CountKept DEF Finishes
  <1>7. CASE \/ \E e \in Entries : Enqueue(e) \/ EnqueueReplyLost(e) \/ DeliverUnseen(e)
             \/ EnqueueError \/ RetriesFail \/ Wipe
             \/ \E w \in Workers :
                  \/ Work(w) \/ LiveSnapshot(w)
                  \/ CloseUnpublished(w) \/ AckError(w) \/ Lose(w) \/ Regain(w) \/ Die(w)
             \/ UNCHANGED vars
    <2>1. UNCHANGED <<store, watcher, outcome>>
      <3>1. CASE \/ \E e \in Entries : Enqueue(e) \/ EnqueueReplyLost(e) \/ DeliverUnseen(e)
                 \/ EnqueueError \/ RetriesFail \/ Wipe
        BY <3>1 DEF Enqueue, EnqueueReplyLost, DeliverUnseen, EnqueueError, RetriesFail, Wipe
      <3>2. ASSUME NEW w \in Workers,
                   \/ Work(w) \/ LiveSnapshot(w)
                   \/ CloseUnpublished(w) \/ AckError(w) \/ Lose(w) \/ Regain(w) \/ Die(w)
            PROVE  UNCHANGED <<store, watcher, outcome>>
        BY <3>2 DEF Work, Take, Close, Ack, StraySnapshot, LiveSnapshot, CloseUnpublished,
                    AckError, Lose, Regain, Die
      <3>3. CASE UNCHANGED vars
        BY <3>3 DEF vars
      <3> QED
        BY <1>7, <3>1, <3>2, <3>3
    <2>2. UNCHANGED <<registered, done, from, wpc, notices>>
      BY <2>1 DEF store, watcher, outcome
    <2> QED
      BY <1>0, <2>2, CountKept DEF Finishes
  <1> QED
    BY <1>1, <1>2, <1>3, <1>4, <1>5, <1>6, <1>7 DEF Next, Create, Watch

\* A test is announced once, and again at most once for every live snapshot that was
\* read behind a final one of its sub-job: nothing else makes allSubJobsDone true again.
THEOREM SpecEachFinishNeedsItsOwn == Spec => []EachFinishNeedsItsOwn
  <1>1. Init => FinishesCounted
    <2> SUFFICES ASSUME Init PROVE FinishesCounted
      OBVIOUS
    <2>1. LateReads = {}
      BY DEF Init, LateReads
    <2> QED
      BY <2>1, FS_EmptySet DEF Init, FinishesCounted, Finishes
  <1>2. IInv /\ FinishesCounted => EachFinishNeedsItsOwn
    <2> SUFFICES ASSUME IInv, FinishesCounted PROVE EachFinishNeedsItsOwn
      OBVIOUS
    <2>1. from \in Nat /\ notices \in Nat
      BY DEF IInv, TypeOK
    <2>2. IsFiniteSet(1 .. from) /\ LateReads \subseteq 1 .. from
      BY <2>1, FS_Interval DEF LateReads
    <2>3. Cardinality(LateReads) \in Nat
      BY <2>2, FS_Subset, FS_CardinalityType
    <2> QED
      BY <2>1, <2>3 DEF FinishesCounted, Finishes, EachFinishNeedsItsOwn
  <1>3. IInv /\ IInv' /\ AllTrue /\ FinishesCounted /\ [Next]_vars => FinishesCounted'
    BY FinishesCountedPreserved
  <1> QED
    BY <1>1, <1>2, <1>3, SpecIInv, SpecAllTrue, PTL DEF Spec

-----------------------------------------------------------------------------
(***************************************************************************)
(* The live view of the test: the handlers that read the TestStore.        *)
(***************************************************************************)
Watching == {"refresh", "initial", "select", "write", "unsubscribe"}

\* A handler's channel is open and subscribed from Subscribe to Unsubscribe, and
\* nobody writes to it before.
ChannelsFollowHandlers ==
    \A v \in Viewers :
        /\ v \in subscribers <=> step[v] \in Watching
        /\ v \in open <=> step[v] \in Watching
        /\ step[v] \in {"snapshot", "subscribe"} => chan[v] = <<>>

\* The last snapshot on its way to v, or the one v was shown when there is none.
Newest(v) ==
    IF chan[v] # <<>> THEN chan[v][Len(chan[v])]
    ELSE IF step[v] = "select" THEN shown[v] ELSE hand[v]

\* The latest update was not dropped: the newest snapshot on the way is the current one.
\* Before Refresh only the channel counts.
NewestIsCurrent ==
    \A v \in Viewers \ dropped :
        /\ step[v] \in {"initial", "select", "write"} => Newest(v) = test
        /\ step[v] = "refresh" /\ chan[v] # <<>> => Newest(v) = test

ViewIInv == ViewTypeOK /\ ChannelsFollowHandlers /\ NewestIsCurrent

LEMMA ViewInitIInv == ViewInit => ViewIInv
  BY LiveViewAssumption
  DEF ViewInit, ViewIInv, ViewTypeOK, Snapshot, Nothing, ChannelsFollowHandlers, NewestIsCurrent, Watching,
      LiveViewAssumption

-----------------------------------------------------------------------------
(* What a channel holds after one snapshot went in or out. *)

LEMMA LastAppended ==
    ASSUME NEW S, NEW s \in Seq(S), NEW x \in S
    PROVE  /\ Append(s, x) \in Seq(S) /\ Append(s, x) # <<>>
           /\ Len(Append(s, x)) = Len(s) + 1
           /\ Append(s, x)[Len(Append(s, x))] = x
  OBVIOUS

LEMMA LastOfTail ==
    ASSUME NEW S, NEW s \in Seq(S), s # <<>>
    PROVE  /\ Head(s) \in S /\ Tail(s) \in Seq(S) /\ Len(Tail(s)) = Len(s) - 1
           /\ Tail(s) = <<>> => Head(s) = s[Len(s)]
           /\ Tail(s) # <<>> => Tail(s)[Len(Tail(s))] = s[Len(s)]
  <1>1. Len(s) \in Nat \ {0} /\ \A t \in Seq(S) : t = <<>> <=> Len(t) = 0
    BY EmptySeq
  <1>2. /\ Head(s) \in S /\ Head(s) = s[1]
        /\ Tail(s) \in Seq(S) /\ Len(Tail(s)) = Len(s) - 1
        /\ \A i \in 1 .. Len(Tail(s)) : Tail(s)[i] = s[i + 1]
    BY HeadTailProperties
  <1>3. CASE Len(s) = 1
    <2>0. Len(Tail(s)) = 0
      BY <1>2, <1>3
    <2>1. Tail(s) = <<>>
      BY <1>1, <1>2, <2>0, Zenon
    <2> QED
      BY <1>2, <1>3, <2>1
  <1>4. CASE Len(s) # 1
    <2>0. Len(Tail(s)) \in Nat \ {0}
      BY <1>1, <1>2, <1>4
    <2>1. Len(Tail(s)) \in Nat \ {0} /\ Tail(s) # <<>>
      <3>1. Len(Tail(s)) # 0
        BY <2>0
      <3> QED
        BY <1>1, <1>2, <2>0, <3>1, Zenon
    <2>2. Tail(s)[Len(Tail(s))] = s[Len(s)]
      BY <1>1, <1>2, <2>1
    <2> QED
      BY <1>2, <2>1, <2>2
  <1> QED
    BY <1>3, <1>4

-----------------------------------------------------------------------------
LEMMA ViewIInvPreserved == ViewIInv /\ [ViewNext]_viewVars => ViewIInv'
  <1> SUFFICES ASSUME ViewIInv, [ViewNext]_viewVars PROVE ViewIInv'
    OBVIOUS
  <1> USE LiveViewAssumption DEF LiveViewAssumption
  <1>1. ASSUME NEW d \in BOOLEAN, UpdateAndNotify(d) PROVE ViewIInv'
    <2> DEFINE snap == [seen |-> test.seen + 1, done |-> d]
    <2>1. snap \in Snapshot /\ test' = snap
      BY <1>1 DEF ViewIInv, ViewTypeOK, UpdateAndNotify, Snapshot
    <2>2. \A v \in Viewers :
            chan'[v] = IF v \in subscribers /\ Room(v) THEN Append(chan[v], snap) ELSE chan[v]
      BY <1>1 DEF UpdateAndNotify
    <2>3. \A v \in Viewers :
            /\ chan[v] \in Seq(Snapshot)
            /\ Append(chan[v], snap) \in Seq(Snapshot) /\ Append(chan[v], snap) # <<>>
            /\ Len(Append(chan[v], snap)) = Len(chan[v]) + 1
            /\ Append(chan[v], snap)[Len(Append(chan[v], snap))] = snap
      BY <2>1, LastAppended DEF ViewIInv, ViewTypeOK
    <2>4. ViewTypeOK'
      <3>1. \A v \in Viewers :
              /\ Len(chan[v]) \in Nat /\ Len(chan[v]) <= ChannelCap
              /\ Room(v) => Len(chan[v]) + 1 <= ChannelCap
        BY <2>3, EmptySeq, LenProperties DEF ViewIInv, ViewTypeOK, Room
      <3>2. \A v \in Viewers : chan'[v] \in Seq(Snapshot) /\ Len(chan'[v]) <= ChannelCap
        BY <2>2, <2>3, <3>1
      <3> QED
        BY <1>1, <2>1, <3>2 DEF ViewIInv, ViewTypeOK, UpdateAndNotify
    <2>5. ChannelsFollowHandlers'
      BY <1>1, <2>2 DEF ViewIInv, ChannelsFollowHandlers, Watching, UpdateAndNotify
    <2>6. NewestIsCurrent'
      <3> SUFFICES ASSUME NEW v \in Viewers, v \notin dropped', step[v] \in Watching
                   PROVE  chan'[v] # <<>> /\ chan'[v][Len(chan'[v])] = test'
        BY <1>1 DEF NewestIsCurrent, Newest, UpdateAndNotify, Watching
      <3>1. v \in subscribers /\ Room(v)
        BY <1>1 DEF ViewIInv, ChannelsFollowHandlers, UpdateAndNotify
      <3> QED
        BY <2>1, <2>2, <2>3, <3>1
    <2> QED
      BY <2>4, <2>5, <2>6 DEF ViewIInv
  <1>2. ASSUME NEW v \in Viewers, Receive(v) PROVE ViewIInv'
    <2>1. /\ Head(chan[v]) \in Snapshot /\ Tail(chan[v]) \in Seq(Snapshot)
          /\ Len(Tail(chan[v])) = Len(chan[v]) - 1
          /\ Tail(chan[v]) = <<>> => Head(chan[v]) = chan[v][Len(chan[v])]
          /\ Tail(chan[v]) # <<>> => Tail(chan[v])[Len(Tail(chan[v]))] = chan[v][Len(chan[v])]
      BY <1>2, LastOfTail DEF ViewIInv, ViewTypeOK, Receive
    <2>2. ViewTypeOK'
      BY <1>2, <2>1 DEF ViewIInv, ViewTypeOK, Receive, GoTo
    <2>3. ChannelsFollowHandlers'
      BY <1>2 DEF ViewIInv, ViewTypeOK, ChannelsFollowHandlers, Watching, Receive, GoTo
    <2>4. NewestIsCurrent'
      BY <1>2, <2>1 DEF ViewIInv, ViewTypeOK, NewestIsCurrent, Newest, Receive, GoTo
    <2> QED
      BY <2>2, <2>3, <2>4 DEF ViewIInv
  <1>3. ASSUME NEW v \in Viewers, Refresh(v) \/ Write(v) \/ WriteError(v) PROVE ViewIInv'
    <2> USE DEF ViewIInv, ViewTypeOK, ChannelsFollowHandlers, Watching, NewestIsCurrent, Newest, GoTo
    <2>1. CASE Refresh(v)
      BY <2>1 DEF Refresh, Latest
    <2>2. CASE Write(v)
      BY <2>2 DEF Write
    <2>3. CASE WriteError(v)
      BY <2>3 DEF WriteError
    <2> QED
      BY <1>3, <2>1, <2>2, <2>3
  <1>4. ASSUME NEW v \in Viewers,
               CheckTest(v) \/ Subscribe(v) \/ NoticeClosed(v) \/ Unsubscribe(v)
        PROVE  ViewIInv'
    BY <1>4 DEF ViewIInv, ViewTypeOK, ChannelsFollowHandlers, Watching, NewestIsCurrent, Newest,
                CheckTest, Subscribe, NoticeClosed, Unsubscribe, Remaining, GoTo
  <1>5. ASSUME NEW v \in Viewers, Leave(v) \/ Stall(v) \/ ReadOn(v) PROVE ViewIInv'
    BY <1>5 DEF ViewIInv, ViewTypeOK, ChannelsFollowHandlers, Watching, NewestIsCurrent, Newest,
                Leave, Stall, ReadOn
  <1>6. CASE UNCHANGED viewVars
    BY <1>6 DEF ViewIInv, ViewTypeOK, ChannelsFollowHandlers, NewestIsCurrent, Newest, viewVars
  <1> QED
    BY <1>1, <1>2, <1>3, <1>4, <1>5, <1>6 DEF ViewNext, Handle

-----------------------------------------------------------------------------
\* What the handlers, their channels and the current snapshot have to do with each
\* other at any time (live.go:45-100, teststore.go:69-111).
THEOREM ViewSpecIInv == ViewSpec => []ViewIInv
  BY ViewInitIInv, ViewIInvPreserved, PTL DEF ViewSpec

\* Every variable keeps its type, and no channel holds more than its capacity.
THEOREM ViewSpecTypeOK == ViewSpec => []ViewTypeOK
  BY ViewSpecIInv, PTL DEF ViewIInv

\* A handler that has caught up has shown the current state, unless that very update was
\* dropped for it, whatever was dropped before: what live.go:52-57 promises of Subscribe before Snapshot.
THEOREM SpecCaughtUpIsCurrent == ViewSpec => []CaughtUpIsCurrent
  <1>1. ViewIInv => CaughtUpIsCurrent
    BY DEF ViewIInv, NewestIsCurrent, Newest, CaughtUpIsCurrent
  <1> QED
    BY <1>1, ViewSpecIInv, PTL

\* notifySubscribers never sends on a closed channel, and an ended handler leaves
\* none behind (teststore.go:81-111).
THEOREM SpecOnlyOpenAreNotified == ViewSpec => []OnlyOpenAreNotified
  <1>1. ViewIInv => OnlyOpenAreNotified
    BY DEF ViewIInv, ViewTypeOK, ChannelsFollowHandlers, OnlyOpenAreNotified, Watching
  <1> QED
    BY <1>1, ViewSpecIInv, PTL
=============================================================================
