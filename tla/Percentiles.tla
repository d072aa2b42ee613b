---------------------------- MODULE Percentiles ----------------------------
(***************************************************************************)
(* The latency percentiles of a test: exact ones in every worker           *)
(* (worker/metrics.go:50-84), and test-wide ones that the coordinator      *)
(* reads off the merged latency sketches of the sub-jobs                   *)
(* (worker/sketch.go, coordinator/sketch.go, teststore.go:346-373).  A     *)
(* latency is its rank among those that occur, a sketch a function from    *)
(* buckets to counts.                                                      *)
(***************************************************************************)
EXTENDS Integers, Sequences, FiniteSetsExt

CONSTANTS
    Jobs,
    Latencies,  \* the latencies that occur, in their order
    Bucket,     \* Bucket[l]: the bucket of latency l (sketchBucket)
    MaxSamples  \* bound: requests of a run

ASSUME PercentilesAssumption ==
    /\ IsFiniteSet(Jobs) /\ Latencies \subseteq Int /\ MaxSamples \in Nat
    /\ Bucket \in [Latencies -> Nat]
    /\ \A k, l \in Latencies : k <= l => Bucket[k] <= Bucket[l]

VARIABLES
    samples,  \* samples[j]: the latencies the current run of j has collected
    stored,   \* stored[j]: what the TestStore holds for j
    reported  \* reported[j]: the samples behind stored[j]

vars == <<samples, stored, reported>>

Buckets == {Bucket[l] : l \in Latencies}
NoSketch == [b \in {} |-> 0]
Unreported == [requests |-> 0, sketch |-> NoSketch, decoded |-> FALSE]

Runs == UNION {[1 .. n -> Latencies] : n \in 0 .. MaxSamples}

-----------------------------------------------------------------------------
Times(l, run) == Cardinality({i \in DOMAIN run : run[i] = l})

\* sort.Slice of a run's latencies: in ascending order, each as often as in the run.
Ascending(run) ==
    CHOOSE s \in [DOMAIN run -> Latencies] :
        /\ \A i, k \in DOMAIN run : i <= k => s[i] <= s[k]
        /\ \A l \in Latencies : Times(l, s) = Times(l, run)

\* The index the worker and the coordinator read percentile p at: p * (n - 1).
Rank(p, n) == (p * (n - 1)) \div 100

\* computeMetrics: the percentile p of a run that is not empty.
Exact(p, run) == Ascending(run)[Rank(p, Len(run)) + 1]

\* Mutant of Encode: every bucket is sent once.
EncodeOnce(run) == [b \in {Bucket[run[i]] : i \in DOMAIN run} |-> 1]

\* encodeLatencySketch.
Encode(run) ==
    [b \in {Bucket[run[i]] : i \in DOMAIN run} |->
        Cardinality({i \in DOMAIN run : Bucket[run[i]] = b})]

Count(sketch, b) == IF b \in DOMAIN sketch THEN sketch[b] ELSE 0

\* latencySketch.merge.
Merge(s, t) == [b \in DOMAIN s \cup DOMAIN t |-> Count(s, b) + Count(t, b)]

Total(sketch) == MapThenSumSet(LAMBDA b : sketch[b], DOMAIN sketch)

\* Mutant of Reached: the bucket before the one that holds the rank.
ReachedEarly(count, rank) == count >= rank

Reached(count, rank) == count > rank

\* quantileMS of a sketch that is not empty: the first bucket at which the
\* running count goes beyond the rank.
Quantile(p, sketch) ==
    LET upTo(b) == MapThenSumSet(LAMBDA a : sketch[a], {a \in DOMAIN sketch : a <= b})
    IN  Min({b \in DOMAIN sketch : Reached(upTo(b), Rank(p, Total(sketch)))})

-----------------------------------------------------------------------------
TypeOK ==
    /\ samples \in [Jobs -> Runs] /\ reported \in [Jobs -> Runs] /\ DOMAIN stored = Jobs
    /\ \A j \in Jobs :
         /\ stored[j].requests \in 0 .. MaxSamples
         /\ stored[j].decoded \in BOOLEAN
         /\ DOMAIN stored[j].sketch \subseteq Buckets
         \* A sketch that came through holds every request of its report.
         /\ stored[j].decoded => Total(stored[j].sketch) = stored[j].requests

Init ==
    /\ samples = [j \in Jobs |-> <<>>]
    /\ stored = [j \in Jobs |-> Unreported]
    /\ reported = [j \in Jobs |-> <<>>]

\* A request of a virtual user comes back.
RecordResult(j, l) ==
    /\ Len(samples[j]) < MaxSamples
    /\ samples' = [samples EXCEPT ![j] = Append(@, l)]
    /\ UNCHANGED <<stored, reported>>

\* The sub-job is run again, on another worker or another version of it.
Rerun(j) ==
    /\ samples' = [samples EXCEPT ![j] = <<>>]
    /\ UNCHANGED <<stored, reported>>

\* What Update keeps of a sketch: nothing if there was none or it is malformed.
Decoded(run, good) ==
    [requests |-> Len(run), sketch |-> IF good THEN Encode(run) ELSE NoSketch,
     decoded |-> good]

\* A snapshot, live or final, reaches the TestStore.  A run without requests
\* has no sketch, and neither has one of a worker from before there were any.
Update(j, good) ==
    /\ good => samples[j] # <<>>
    /\ stored' = [stored EXCEPT ![j] = Decoded(samples[j], good)]
    /\ reported' = [reported EXCEPT ![j] = samples[j]]
    /\ UNCHANGED samples

Next ==
    \E j \in Jobs :
        \/ \E l \in Latencies : RecordResult(j, l)
        \/ Rerun(j)
        \/ \E good \in BOOLEAN : Update(j, good)

Spec == Init /\ [][Next]_vars

-----------------------------------------------------------------------------
Active == {j \in Jobs : stored[j].requests # 0}

Mergeable == \A j \in Active : stored[j].decoded

Merged == FoldSet(LAMBDA j, sketch : Merge(sketch, stored[j].sketch), NoSketch, Active)

\* combinedPercentiles: an answer, or nil.
Answered == Mergeable /\ Total(Merged) # 0

\* The bucket of the percentile; that its middle is rounded to 0.1 ms
\* (teststore.go:371) is left out.
Combined(p) == Quantile(p, Merged)

Percents == {50, 95, 99}

\* All requests behind the stored reports, of all sub-jobs.
AllRequests ==
    FoldSet(LAMBDA j, run : run \o reported[j], <<>>, Jobs)

(***************************************************************************)
(* There is a test-wide percentile as soon as a request was reported and   *)
(* no sketch is missing, and it falls in the bucket of the true one, that  *)
(* of all requests of all sub-jobs taken together: a merge that misses a   *)
(* worker's samples "would be a wrong answer presented as a right one"     *)
(* (teststore.go:349-352), across runs that start over, workers that send  *)
(* no sketch and sketches that cannot be decoded.                          *)
(***************************************************************************)
CombinedIsTrue ==
    /\ Answered <=> /\ AllRequests # <<>>
                    /\ \A j \in Jobs : reported[j] # <<>> => stored[j].decoded
    /\ Answered => \A p \in Percents : Combined(p) = Bucket[Exact(p, AllRequests)]
=============================================================================
