--------------------------- MODULE LoadGenProofs ---------------------------
(***************************************************************************)
(* Proofs about a run of a job, for any number of virtual users, requests  *)
(* and ticks, and any interleaving of users, ticker and caller.            *)
(***************************************************************************)
EXTENDS LoadGen, SequenceTheorems, FiniteSetTheorems, TLAPS

\* Requests are limited where they are sent, and recorded later.
Requesting == {u \in VUs : vu[u] = "request"}
RequestsFit == requests + Cardinality(Requesting) <= MaxRequests

\* A goroutine is inside publish exactly when its own program says so.
PlacesAgree ==
    /\ step["ticker"] # "idle" <=> ticker = "publish"
    /\ step["caller"] # "idle" <=> caller = "publish"

\* The caller takes the final metrics after the last user has exited, so that
\* nothing is recorded any more.
FinalMetrics ==
    caller # "wait" =>
        /\ AllExited
        /\ metrics["caller"].done
        /\ metrics["caller"].requests = requests /\ metrics["caller"].errors = errors

\* What is about to be published, and what was, is no more than what was recorded.
MetricsAreRecorded ==
    /\ \A a \in Actors : metrics[a].requests <= requests
    /\ ~metrics["ticker"].done
    /\ \A m \in Published :
         /\ m.requests <= requests
         /\ m.done => caller = "returned" /\ m = metrics["caller"]

Stopped == \E v \in VUs : vu[v] = "stopped"

\* The flag is set before the context is cancelled, that before a user stops, and
\* that before the caller reads the flag.
FlagComesFirst ==
    /\ ctx = "broken" \/ Stopped \/ ticker = "cancel" => aborted
    /\ ticker = "publish" /\ metrics["ticker"].broken => aborted
    /\ caller \in {"publish", "returned"} /\ Stopped => metrics["caller"].broken

\* The counter is never behind countedRequests, and each publish brings it to the
\* requests of its metrics, whatever the other one does to countedRequests meanwhile.
CountsAdvance ==
    /\ total >= counted
    /\ \A a \in Actors :
         /\ step[a] = "add" => total + delta[a] >= metrics[a].requests
         /\ step[a] = "send" => total >= metrics[a].requests
    /\ caller = "returned" => total >= requests

IInv ==
    /\ TypeOK /\ RequestsFit /\ PlacesAgree /\ FinalMetrics
    /\ MetricsAreRecorded /\ FlagComesFirst /\ CountsAdvance

LEMMA Constants == /\ IsFiniteSet(VUs) /\ VUs # {} /\ MinSamples \in Nat
                   /\ MaxRequests \in Nat /\ MaxTicks \in Nat
                   /\ "ticker" \in Actors /\ "caller" \in Actors
                   /\ \A a \in Actors : a \in {"ticker", "caller"}
  BY LoadGenAssumption DEF LoadGenAssumption, Actors

LEMMA InitIInv == Init => IInv
  <1> SUFFICES ASSUME Init PROVE IInv
    OBVIOUS
  <1> USE Constants DEF Init
  <1>1. NoMetrics \in Metrics
    BY DEF NoMetrics, Metrics
  <1>2. tickerDone \in BOOLEAN /\ aborted \in BOOLEAN
    BY Zenon
  <1>3. stream \in Seq(Metrics)
    BY EmptySeq
  <1>4. TypeOK
    BY <1>1, <1>2, <1>3 DEF TypeOK
  <1>5. RequestsFit
    <2>1. Requesting = {}
      BY DEF Requesting
    <2> QED
      BY <2>1, FS_EmptySet DEF RequestsFit
  <1>6. Published = {}
    BY DEF Published
  <1>7. FinalMetrics /\ MetricsAreRecorded /\ FlagComesFirst /\ CountsAdvance /\ PlacesAgree
    BY <1>6
    DEF FinalMetrics, MetricsAreRecorded, FlagComesFirst, CountsAdvance, PlacesAgree, Stopped,
        NoMetrics
  <1> QED
    BY <1>4, <1>5, <1>7 DEF IInv

-----------------------------------------------------------------------------
(* The virtual users. *)

\* A user that moves leaves the number of requests under way as it is, unless it
\* starts one or ends one.
LEMMA UnderWay ==
    ASSUME TypeOK, NEW v \in VUs, NEW there \in {"limit", "request", "exited", "stopped"},
           VUMove(v, there)
    PROVE  /\ Cardinality(Requesting) \in Nat /\ Cardinality(Requesting') \in Nat
           /\ vu[v] # "request" /\ there = "request" =>
                Cardinality(Requesting') = Cardinality(Requesting) + 1
           /\ vu[v] = "request" /\ there # "request" =>
                Cardinality(Requesting') = Cardinality(Requesting) - 1
           /\ vu[v] # "request" /\ there # "request" => Requesting' = Requesting
  <1> USE Constants DEF TypeOK, VUMove, Requesting
  <1>1. IsFiniteSet(Requesting) /\ IsFiniteSet(Requesting')
    BY FS_Subset
  <1>2. CASE vu[v] # "request" /\ there = "request"
    <2>1. Requesting' = Requesting \cup {v} /\ v \notin Requesting
      BY <1>2
    <2> QED
      BY <1>1, <1>2, <2>1, FS_AddElement, FS_CardinalityType
  <1>3. CASE vu[v] = "request" /\ there # "request"
    <2>1. Requesting' = Requesting \ {v} /\ v \in Requesting
      BY <1>3
    <2> QED
      <3>1. Cardinality(Requesting \ {v}) = Cardinality(Requesting) - 1
        BY <1>1, <2>1, FS_RemoveElement
      <3>2. Cardinality(Requesting) \in Nat /\ Cardinality(Requesting') \in Nat
        BY <1>1, FS_CardinalityType
      <3> HIDE DEF Requesting
      <3> QED
        BY <1>3, <2>1, <3>1, <3>2
  <1>4. CASE vu[v] # "request" /\ there # "request"
    BY <1>1, <1>4, FS_CardinalityType
  <1>5. CASE vu[v] = "request" /\ there = "request"
    BY <1>1, <1>5, FS_CardinalityType
  <1> QED
    BY <1>2, <1>3, <1>4, <1>5

LEMMA UserStepPreserves == ASSUME IInv, NEW v \in VUs, UserStep(v) PROVE IInv'
  <1> USE Constants
  <1>1. PICK there \in {"limit", "request", "exited", "stopped"} :
          /\ VUMove(v, there)
          /\ there = "request" =>
               requests + Cardinality(Requesting) < MaxRequests
          /\ there = "stopped" => ctx = "broken"
    BY DEF UserStep, Join, SendRequest, LimiterRefuses, RecordResult, Exit, Requesting
  <1>2. /\ vu' = [vu EXCEPT ![v] = there]
        /\ UNCHANGED <<ctx, ticker, ticks, caller, tickerDone, aborted, publishing>>
    BY <1>1 DEF VUMove
  <1>3. /\ vu[v] \in {"offset", "limit", "request"}
        /\ vu[v] = "request" => /\ requests' = requests + 1 /\ there = "limit"
                                /\ errors' \in {errors, errors + 1}
        /\ vu[v] # "request" => UNCHANGED <<requests, errors>>
    BY <1>2 DEF IInv, TypeOK, UserStep, Join, SendRequest, LimiterRefuses, RecordResult, VUMove, Exit
  <1>4. caller = "wait"
    BY <1>3 DEF IInv, FinalMetrics, AllExited
  <1>5. RequestsFit' /\ requests' <= MaxRequests
    BY <1>1, <1>3, UnderWay DEF IInv, RequestsFit, TypeOK
  <1>6. TypeOK'
    <2>1. requests' \in 0 .. MaxRequests /\ errors' \in 0 .. requests'
      BY <1>3, <1>5 DEF IInv, TypeOK
    <2>2. vu' \in [VUs -> {"offset", "limit", "request", "exited", "stopped"}]
      BY <1>2 DEF IInv, TypeOK
    <2>3. tickerDone' \in BOOLEAN /\ aborted' \in BOOLEAN
      BY <1>2, Zenon DEF IInv, TypeOK
    <2> QED
      BY <1>2, <2>1, <2>2, <2>3 DEF IInv, TypeOK, publishing
  <1>7. PlacesAgree' /\ FinalMetrics'
    BY <1>2, <1>4 DEF IInv, PlacesAgree, FinalMetrics, publishing
  <1>8. requests \in Nat /\ requests' \in Nat /\ requests <= requests'
    BY <1>3 DEF IInv, TypeOK
  <1>9. MetricsAreRecorded'
    <2>1. Published' = Published
      BY <1>2 DEF Published, publishing
    <2>2. \A a \in Actors : metrics[a].requests \in Nat
      BY DEF IInv, TypeOK, Metrics
    <2>3. \A m \in Published : m.requests \in Nat
      <3>1. stream \in Seq(Metrics)
        BY DEF IInv, TypeOK
      <3>2. \A i \in DOMAIN stream : stream[i] \in Metrics
        BY <3>1, ElementOfSeq, LenProperties
      <3> QED
        BY <3>2 DEF Published, Metrics
    <2> QED
      BY <1>2, <1>8, <2>1, <2>2, <2>3 DEF IInv, MetricsAreRecorded, publishing
  <1>10. FlagComesFirst'
    BY <1>1, <1>2, <1>4 DEF IInv, TypeOK, FlagComesFirst, Stopped, publishing
  <1>11. CountsAdvance'
    BY <1>2, <1>4 DEF IInv, CountsAdvance, publishing
  <1> QED
    BY <1>5, <1>6, <1>7, <1>9, <1>10, <1>11 DEF IInv

-----------------------------------------------------------------------------
(* The publish closure. *)

LEMMA CountPreserves == ASSUME IInv, NEW a \in Actors, Count(a) PROVE IInv'
  <1> USE Constants
  <1>1. /\ step[a] = "count"
        /\ delta' = [delta EXCEPT ![a] = Advance(metrics[a])]
        /\ step' = [step EXCEPT ![a] = "add"]
        /\ UNCHANGED <<users, ctx, ticker, ticks, caller, tickerDone, aborted, metrics,
                       counted, total, stream>>
    BY DEF Count
  <1>2. metrics[a].requests \in 0 .. MaxRequests /\ counted \in Nat /\ total \in Nat
    BY DEF IInv, TypeOK, Metrics
  <1>3. /\ Advance(metrics[a]) \in 0 .. MaxRequests
        /\ counted + Advance(metrics[a]) >= metrics[a].requests
    BY <1>2 DEF Advance
  <1>4. TypeOK'
    <2>1. tickerDone' \in BOOLEAN /\ aborted' \in BOOLEAN
      BY <1>1, Zenon DEF IInv, TypeOK
    <2>2. /\ delta' \in [Actors -> 0 .. MaxRequests]
          /\ step' \in [Actors -> {"idle", "count", "add", "send"}]
      BY <1>1, <1>3 DEF IInv, TypeOK
    <2> QED
      BY <1>1, <2>1, <2>2 DEF IInv, TypeOK, users
  <1>5. CountsAdvance'
    BY <1>1, <1>2, <1>3 DEF IInv, TypeOK, CountsAdvance, users
  <1>6. /\ RequestsFit' /\ PlacesAgree' /\ FinalMetrics' /\ MetricsAreRecorded'
        /\ FlagComesFirst'
    BY <1>1
    DEF IInv, TypeOK, RequestsFit, Requesting, PlacesAgree, FinalMetrics, AllExited,
        MetricsAreRecorded, Published, FlagComesFirst, Stopped, users
  <1> QED
    BY <1>4, <1>5, <1>6 DEF IInv

LEMMA AddPreserves == ASSUME IInv, NEW a \in Actors, Add(a) PROVE IInv'
  <1> USE Constants
  <1>1. /\ step[a] = "add"
        /\ total' = total + delta[a]
        /\ counted' = IF delta[a] > 0 THEN metrics[a].requests ELSE counted
        /\ step' = [step EXCEPT ![a] = "send"]
        /\ UNCHANGED <<users, ctx, ticker, ticks, caller, tickerDone, aborted, metrics,
                       delta, stream>>
    BY DEF Add
  <1>2. /\ metrics[a].requests \in Nat /\ counted \in Nat /\ total \in Nat
        /\ \A b \in Actors : delta[b] \in Nat /\ metrics[b].requests \in Nat
        /\ requests \in Nat
    BY DEF IInv, TypeOK, Metrics
  <1>3. TypeOK'
    <2>1. tickerDone' \in BOOLEAN /\ aborted' \in BOOLEAN
      BY <1>1, Zenon DEF IInv, TypeOK
    <2>2. /\ counted' \in Nat /\ total' \in Nat
          /\ step' \in [Actors -> {"idle", "count", "add", "send"}]
      BY <1>1, <1>2 DEF IInv, TypeOK
    <2> QED
      BY <1>1, <2>1, <2>2 DEF IInv, TypeOK, users
  <1>4. CountsAdvance'
    BY <1>1, <1>2 DEF IInv, TypeOK, CountsAdvance, users
  <1>5. /\ RequestsFit' /\ PlacesAgree' /\ FinalMetrics' /\ MetricsAreRecorded'
        /\ FlagComesFirst'
    BY <1>1
    DEF IInv, TypeOK, RequestsFit, Requesting, PlacesAgree, FinalMetrics, AllExited,
        MetricsAreRecorded, Published, FlagComesFirst, Stopped, users
  <1> QED
    BY <1>3, <1>4, <1>5 DEF IInv

\* Setting CircuitBroken leaves the rest of the metrics.
LEMMA BrokenSet ==
    ASSUME NEW r \in Metrics, NEW b \in BOOLEAN
    PROVE  LET m == [r EXCEPT !.broken = b]
           IN  /\ m \in Metrics /\ m.broken = b /\ m.requests = r.requests
               /\ m.errors = r.errors /\ m.done = r.done
  BY DEF Metrics

\* An XADD that may fail adds the metrics to the stream or nothing.
LEMMA Sent ==
    ASSUME TypeOK, NEW a \in Actors, Send(a, metrics[a])
    PROVE  stream' \in Seq(Metrics) /\ Published' \subseteq Published \cup {metrics[a]}
  <1>1. metrics[a] \in Metrics /\ stream \in Seq(Metrics)
    BY DEF TypeOK
  <1>2. CASE stream' = stream
    BY <1>1, <1>2 DEF Published
  <1>3. CASE stream' = Append(stream, metrics[a])
    <2>1. /\ stream' \in Seq(Metrics) /\ DOMAIN stream' = 1 .. Len(stream) + 1
          /\ DOMAIN stream = 1 .. Len(stream) /\ Len(stream) \in Nat
          /\ \A i \in 1 .. Len(stream) : stream'[i] = stream[i]
          /\ stream'[Len(stream) + 1] = metrics[a]
      BY <1>1, <1>3, AppendProperties, LenProperties
    <2>2. \A i \in DOMAIN stream' : i \in DOMAIN stream \/ i = Len(stream) + 1
      BY <2>1
    <2> QED
      BY <2>1, <2>2 DEF Published
  <1> QED
    BY <1>2, <1>3 DEF Send

-----------------------------------------------------------------------------
(* The ticker. *)

LEMMA TickPreserves == ASSUME IInv, Tick PROVE IInv'
  <1> USE Constants
  <1> DEFINE m == [requests |-> requests, errors |-> errors, done |-> FALSE, broken |-> FALSE]
  <1>1. /\ ticker = "select" /\ ticks < MaxTicks /\ ticks' = ticks + 1 /\ ticker' = "judge"
        /\ metrics' = [metrics EXCEPT !["ticker"] = m]
        /\ UNCHANGED <<users, ctx, caller, tickerDone, aborted, step, delta, counted,
                       total, stream>>
    BY DEF Tick
  <1>2. m \in Metrics /\ m.requests <= requests /\ ~m.done
    BY DEF IInv, TypeOK, Metrics
  <1>3. metrics'["ticker"] = m /\ metrics'["caller"] = metrics["caller"]
    BY <1>1 DEF IInv, TypeOK
  <1>4. step["ticker"] = "idle"
    BY <1>1 DEF IInv, PlacesAgree
  <1> HIDE DEF m
  <1>5. TypeOK'
    <2>1. tickerDone' \in BOOLEAN /\ aborted' \in BOOLEAN
      BY <1>1, Zenon DEF IInv, TypeOK
    <2>2. metrics' \in [Actors -> Metrics] /\ ticks' \in 0 .. MaxTicks
      BY <1>1, <1>2 DEF IInv, TypeOK
    <2> QED
      BY <1>1, <2>1, <2>2 DEF IInv, TypeOK, users
  <1>6. RequestsFit' /\ PlacesAgree' /\ FinalMetrics' /\ FlagComesFirst'
    BY <1>1, <1>3
    DEF IInv, RequestsFit, Requesting, PlacesAgree, FinalMetrics, AllExited, FlagComesFirst,
        Stopped, users
  <1>7. MetricsAreRecorded' /\ CountsAdvance'
    BY <1>1, <1>2, <1>3, <1>4 DEF IInv, MetricsAreRecorded, Published, CountsAdvance, users
  <1> QED
    BY <1>5, <1>6, <1>7 DEF IInv

LEMMA JudgePreserves == ASSUME IInv, Judge PROVE IInv'
  <1> USE Constants
  <1> DEFINE broken == Trips(metrics["ticker"])
             m == [metrics["ticker"] EXCEPT !.broken = broken]
  <1>1. /\ ticker = "judge" /\ ticker' = "publish"
        /\ aborted' = (aborted \/ broken)
        /\ metrics' = [metrics EXCEPT !["ticker"] = m]
        /\ step' = [step EXCEPT !["ticker"] = "count"]
        /\ UNCHANGED <<users, ctx, ticks, caller, tickerDone, delta, counted, total, stream>>
    BY DEF Judge, Flags, BeginPublish
  <1>2. broken \in BOOLEAN
    BY DEF Trips
  <1>3. /\ m \in Metrics /\ m.broken = broken
        /\ m.requests = metrics["ticker"].requests /\ m.done = metrics["ticker"].done
    <2>1. metrics["ticker"] \in Metrics
      BY DEF IInv, TypeOK
    <2> HIDE DEF broken
    <2> QED
      BY <1>2, <2>1, BrokenSet
  <1> HIDE DEF m, broken
  <1>4. /\ metrics'["ticker"] = m /\ metrics'["caller"] = metrics["caller"]
        /\ step'["ticker"] = "count" /\ step'["caller"] = step["caller"]
    BY <1>1 DEF IInv, TypeOK
  <1>5. aborted' \in BOOLEAN /\ tickerDone' \in BOOLEAN
    BY <1>1, <1>2, Zenon DEF IInv, TypeOK
  <1>6. TypeOK'
    <2>1. /\ metrics' \in [Actors -> Metrics]
          /\ step' \in [Actors -> {"idle", "count", "add", "send"}]
      BY <1>1, <1>3 DEF IInv, TypeOK
    <2> QED
      BY <1>1, <1>5, <2>1 DEF IInv, TypeOK, users
  <1>7. RequestsFit' /\ PlacesAgree' /\ FinalMetrics'
    BY <1>1, <1>4
    DEF IInv, RequestsFit, Requesting, PlacesAgree, FinalMetrics, AllExited, users
  <1>8. FlagComesFirst'
    <2>1. (aborted => aborted') /\ (m.broken => aborted')
      BY <1>1, <1>3, Zenon
    <2> QED
      BY <1>1, <1>4, <2>1 DEF IInv, FlagComesFirst, Stopped, users
  <1>9. MetricsAreRecorded' /\ CountsAdvance'
    BY <1>1, <1>3, <1>4 DEF IInv, MetricsAreRecorded, Published, CountsAdvance, users
  <1> QED
    BY <1>6, <1>7, <1>8, <1>9 DEF IInv

LEMMA TickerSendsPreserves == ASSUME IInv, TickerSends PROVE IInv'
  <1> USE Constants
  <1>1. /\ ticker = "publish" /\ step["ticker"] = "send"
        /\ step' = [step EXCEPT !["ticker"] = "idle"] /\ delta' = [delta EXCEPT !["ticker"] = 0]
        /\ ticker' = IF metrics["ticker"].broken THEN "cancel" ELSE "select"
        /\ UNCHANGED <<users, ctx, ticks, caller, tickerDone, aborted, metrics, counted, total>>
    BY DEF TickerSends, Send
  <1>2. stream' \in Seq(Metrics) /\ Published' \subseteq Published \cup {metrics["ticker"]}
    BY Sent DEF IInv, TickerSends
  <1>3. TypeOK'
    <2>1. tickerDone' \in BOOLEAN /\ aborted' \in BOOLEAN
      BY <1>1, Zenon DEF IInv, TypeOK
    <2>2. /\ delta' \in [Actors -> 0 .. MaxRequests]
          /\ step' \in [Actors -> {"idle", "count", "add", "send"}]
      BY <1>1 DEF IInv, TypeOK
    <2> QED
      BY <1>1, <1>2, <2>1, <2>2 DEF IInv, TypeOK, users
  <1>4. RequestsFit' /\ PlacesAgree' /\ FinalMetrics' /\ FlagComesFirst'
    BY <1>1
    DEF IInv, TypeOK, RequestsFit, Requesting, PlacesAgree, FinalMetrics, AllExited,
        FlagComesFirst, Stopped, users
  <1>5. MetricsAreRecorded'
    BY <1>1, <1>2 DEF IInv, MetricsAreRecorded, users
  <1>6. CountsAdvance'
    BY <1>1 DEF IInv, TypeOK, CountsAdvance, users
  <1> QED
    BY <1>3, <1>4, <1>5, <1>6 DEF IInv

\* The ticker cancels the context or stops, or the deadline passes.
LEMMA ContextPreserves ==
    ASSUME IInv, CancelBreaker \/ TickerStops \/ Deadline PROVE IInv'
  <1> USE Constants
  <1>1. /\ UNCHANGED <<users, ticks, caller, tickerDone, aborted, publishing>>
        /\ ctx' \in {"live", "closing", "over", "broken"}
        /\ ctx' = "broken" => ctx = "broken" \/ ticker = "cancel"
        /\ ticker' = ticker \/ (ticker # "publish" /\ ticker' = "exited")
    BY DEF IInv, TypeOK, CancelBreaker, BreakerCancels, TickerStops, Deadline, Cancelled
  <1>2. TypeOK'
    <2>1. tickerDone' \in BOOLEAN /\ aborted' \in BOOLEAN
      BY <1>1, Zenon DEF IInv, TypeOK
    <2> QED
      BY <1>1, <2>1 DEF IInv, TypeOK, users, publishing
  <1>3. RequestsFit' /\ PlacesAgree' /\ FinalMetrics' /\ FlagComesFirst'
    BY <1>1
    DEF IInv, RequestsFit, Requesting, PlacesAgree, FinalMetrics, AllExited, FlagComesFirst,
        Stopped, users, publishing
  <1>4. MetricsAreRecorded' /\ CountsAdvance'
    BY <1>1 DEF IInv, MetricsAreRecorded, Published, CountsAdvance, users, publishing
  <1> QED
    BY <1>2, <1>3, <1>4 DEF IInv

-----------------------------------------------------------------------------
(* The caller. *)

LEMMA WaitReturnsPreserves == ASSUME IInv, WaitReturns PROVE IInv'
  <1> USE Constants
  <1> DEFINE m == [requests |-> requests, errors |-> errors, done |-> TRUE, broken |-> FALSE]
  <1>1. /\ caller = "wait" /\ AllExited /\ tickerDone' = TRUE /\ caller' = "flag"
        /\ metrics' = [metrics EXCEPT !["caller"] = m]
        /\ UNCHANGED <<users, ctx, ticker, ticks, aborted, step, delta, counted, total, stream>>
    BY DEF WaitReturns
  <1>2. m \in Metrics /\ m.requests = requests /\ m.errors = errors /\ m.done
    BY DEF IInv, TypeOK, Metrics
  <1> HIDE DEF m
  <1>3. metrics'["caller"] = m /\ metrics'["ticker"] = metrics["ticker"]
    BY <1>1 DEF IInv, TypeOK
  <1>4. requests \in Nat /\ step["caller"] = "idle"
    BY <1>1 DEF IInv, TypeOK, PlacesAgree
  <1>5. TypeOK'
    <2>1. tickerDone' \in BOOLEAN /\ aborted' \in BOOLEAN
      BY <1>1, Zenon DEF IInv, TypeOK
    <2>2. metrics' \in [Actors -> Metrics]
      BY <1>1, <1>2 DEF IInv, TypeOK
    <2> QED
      BY <1>1, <2>1, <2>2 DEF IInv, TypeOK, users
  <1>6. RequestsFit' /\ PlacesAgree' /\ FinalMetrics' /\ FlagComesFirst'
    BY <1>1, <1>2, <1>3
    DEF IInv, RequestsFit, Requesting, PlacesAgree, FinalMetrics, AllExited, FlagComesFirst,
        Stopped, users
  <1>7. MetricsAreRecorded' /\ CountsAdvance'
    BY <1>1, <1>2, <1>3, <1>4 DEF IInv, MetricsAreRecorded, Published, CountsAdvance, users
  <1> QED
    BY <1>5, <1>6, <1>7 DEF IInv

LEMMA ReadFlagPreserves == ASSUME IInv, ReadFlag PROVE IInv'
  <1> USE Constants
  <1> DEFINE m == [metrics["caller"] EXCEPT !.broken = aborted]
  <1>1. /\ caller = "flag" /\ caller' = "publish"
        /\ metrics' = [metrics EXCEPT !["caller"] = m]
        /\ step' = [step EXCEPT !["caller"] = "count"]
        /\ UNCHANGED <<users, ctx, ticker, ticks, tickerDone, aborted, delta, counted, total,
                       stream>>
    BY DEF ReadFlag, BeginPublish
  <1>2. aborted \in BOOLEAN
    BY DEF IInv, TypeOK
  <1>3. /\ m \in Metrics /\ m.broken = aborted
        /\ m.requests = metrics["caller"].requests /\ m.errors = metrics["caller"].errors
        /\ m.done = metrics["caller"].done
    <2>1. metrics["caller"] \in Metrics
      BY DEF IInv, TypeOK
    <2> QED
      BY <1>2, <2>1, BrokenSet
  <1> HIDE DEF m
  <1>4. /\ metrics'["caller"] = m /\ metrics'["ticker"] = metrics["ticker"]
        /\ step'["caller"] = "count" /\ step'["ticker"] = step["ticker"]
    BY <1>1 DEF IInv, TypeOK
  <1>5. TypeOK'
    <2>1. tickerDone' \in BOOLEAN /\ aborted' \in BOOLEAN
      BY <1>1, Zenon DEF IInv, TypeOK
    <2>2. /\ metrics' \in [Actors -> Metrics]
          /\ step' \in [Actors -> {"idle", "count", "add", "send"}]
      BY <1>1, <1>3 DEF IInv, TypeOK
    <2> QED
      BY <1>1, <2>1, <2>2 DEF IInv, TypeOK, users
  <1>6. RequestsFit' /\ PlacesAgree' /\ FinalMetrics'
    BY <1>1, <1>3, <1>4
    DEF IInv, RequestsFit, Requesting, PlacesAgree, FinalMetrics, AllExited, users
  <1>7. FlagComesFirst'
    <2>1. Stopped => m.broken
      BY <1>3, Zenon DEF IInv, FlagComesFirst
    <2> QED
      BY <1>1, <1>4, <2>1 DEF IInv, FlagComesFirst, Stopped, users
  <1>8. MetricsAreRecorded' /\ CountsAdvance'
    BY <1>1, <1>3, <1>4 DEF IInv, MetricsAreRecorded, Published, CountsAdvance, users
  <1> QED
    BY <1>5, <1>6, <1>7, <1>8 DEF IInv

LEMMA CallerSendsPreserves == ASSUME IInv, CallerSends PROVE IInv'
  <1> USE Constants
  <1>1. /\ caller = "publish" /\ caller' = "returned" /\ step["caller"] = "send"
        /\ step' = [step EXCEPT !["caller"] = "idle"] /\ delta' = [delta EXCEPT !["caller"] = 0]
        /\ UNCHANGED <<users, ctx, ticker, ticks, tickerDone, aborted, metrics, counted, total>>
    BY DEF CallerSends, Send
  <1>2. stream' \in Seq(Metrics) /\ Published' \subseteq Published \cup {metrics["caller"]}
    BY Sent DEF IInv, CallerSends
  <1>3. TypeOK'
    <2>1. tickerDone' \in BOOLEAN /\ aborted' \in BOOLEAN
      BY <1>1, Zenon DEF IInv, TypeOK
    <2>2. /\ delta' \in [Actors -> 0 .. MaxRequests]
          /\ step' \in [Actors -> {"idle", "count", "add", "send"}]
      BY <1>1 DEF IInv, TypeOK
    <2> QED
      BY <1>1, <1>2, <2>1, <2>2 DEF IInv, TypeOK, users
  <1>4. RequestsFit' /\ PlacesAgree' /\ FinalMetrics' /\ FlagComesFirst'
    BY <1>1
    DEF IInv, TypeOK, RequestsFit, Requesting, PlacesAgree, FinalMetrics, AllExited,
        FlagComesFirst, Stopped, users
  <1>5. MetricsAreRecorded'
    BY <1>1, <1>2 DEF IInv, MetricsAreRecorded, users
  <1>6. CountsAdvance'
    BY <1>1 DEF IInv, TypeOK, CountsAdvance, FinalMetrics, users
  <1> QED
    BY <1>3, <1>4, <1>5, <1>6 DEF IInv

-----------------------------------------------------------------------------
LEMMA IInvPreserved == IInv /\ [Next]_vars => IInv'
  <1> SUFFICES ASSUME IInv, [Next]_vars PROVE IInv'
    OBVIOUS
  <1>1. CASE Deadline \/ TickerStep
    BY <1>1, ContextPreserves, TickPreserves, JudgePreserves, TickerSendsPreserves
    DEF TickerStep
  <1>2. ASSUME NEW v \in VUs, UserStep(v) PROVE IInv'
    BY <1>2, UserStepPreserves
  <1>3. ASSUME NEW a \in Actors, Count(a) \/ Add(a) PROVE IInv'
    BY <1>3, CountPreserves, AddPreserves
  <1>4. CASE CallerStep
    BY <1>4, WaitReturnsPreserves, ReadFlagPreserves, CallerSendsPreserves DEF CallerStep
  <1>5. CASE UNCHANGED vars
    <2>1. /\ UNCHANGED <<vu, requests, errors, ctx, ticker, ticks, caller, metrics, step>>
          /\ UNCHANGED <<tickerDone, aborted, delta, counted, total, stream>>
      BY <1>5 DEF vars, users, publishing
    <2>2. TypeOK'
      BY <2>1, Zenon DEF IInv, TypeOK
    <2> QED
      BY <2>1, <2>2
      DEF IInv, RequestsFit, Requesting, PlacesAgree, FinalMetrics, AllExited,
          MetricsAreRecorded, Published, FlagComesFirst, Stopped, CountsAdvance
  <1> QED
    BY <1>1, <1>2, <1>3, <1>4, <1>5 DEF Next

\* The inductive invariant holds throughout every run.
THEOREM SpecIInv == Spec => []IInv
  BY InitIInv, IInvPreserved, PTL DEF Spec

\* Every variable of a run keeps its type; no more requests are recorded than sent.
THEOREM SpecTypeOK == Spec => []TypeOK
  BY SpecIInv, PTL DEF IInv

\* The final snapshot accounts for every request of every virtual user, and no live
\* one shows more (loadgen.go:146-155).
THEOREM SpecFinalIsComplete == Spec => []FinalIsComplete
  <1>1. IInv => FinalIsComplete
    BY DEF IInv, FinalMetrics, MetricsAreRecorded, FinalIsComplete, Finals
  <1> QED
    BY <1>1, SpecIInv, PTL

\* Once the breaker has stopped a virtual user, the final snapshot says so
\* (loadgen.go:86-92, 146-153, metrics.go:23).
THEOREM SpecAbortIsReported == Spec => []AbortIsReported
  <1>1. IInv => AbortIsReported
    BY DEF IInv, FlagComesFirst, Stopped, MetricsAreRecorded, AbortIsReported, Finals
  <1> QED
    BY <1>1, SpecIInv, PTL

\* When the final snapshot goes out the counter has counted every request, although
\* two goroutines advance it without a lock (main.go:203-240).
THEOREM SpecCountedInFull == Spec => []CountedInFull
  <1>1. IInv => CountedInFull
    BY Constants DEF IInv, PlacesAgree, FinalMetrics, CountsAdvance, CountedInFull
  <1> QED
    BY <1>1, SpecIInv, PTL

-----------------------------------------------------------------------------
(***************************************************************************)
(* The other side of CountedInFull: that the two goroutines share          *)
(* countedRequests without a lock counts no request more than twice.       *)
(***************************************************************************)
CallerHasCounted == step["caller"] = "send" \/ caller = "returned"

\* What the ticker may add to the counter from here: what it has computed and, behind
\* that, what it finds countedRequests behind by.
StillToCome ==
    IF step["ticker"] = "add" /\ delta["ticker"] > 0
    THEN delta["ticker"] + (requests - metrics["ticker"].requests)
    ELSE requests - counted

\* Until the caller has counted, the ticker alone has, each request once.
CountedApart ==
    /\ counted <= requests
    /\ IF CallerHasCounted
       THEN total + StillToCome <= 2 * requests
       ELSE /\ total = counted
            /\ step["ticker"] = "add" => delta["ticker"] = Advance(metrics["ticker"])
            /\ step["caller"] = "add" => delta["caller"] <= requests

CountedAtMostTwice == total <= 2 * requests

LEMMA CountedApartKept ==
    ASSUME IInv, CountedApart, UNCHANGED <<counted, total>>,
           requests' = requests \/ (~CallerHasCounted /\ requests' = requests + 1),
           CallerHasCounted' = CallerHasCounted,
           \/ /\ step'["ticker"] = step["ticker"] /\ delta'["ticker"] = delta["ticker"]
              /\ metrics'["ticker"] = metrics["ticker"]
           \/ step["ticker"] # "add" /\ step'["ticker"] # "add",
           \/ step'["caller"] = step["caller"] /\ delta'["caller"] = delta["caller"]
           \/ step'["caller"] # "add"
    PROVE  CountedApart'
  <1>1. /\ counted \in Nat /\ total \in Nat /\ requests \in Nat
        /\ delta["ticker"] \in Nat /\ delta["caller"] \in Nat
        /\ metrics["ticker"].requests \in Nat
    BY Constants DEF IInv, TypeOK, Metrics
  <1>2. CASE CallerHasCounted
    <2>1. StillToCome' = StillToCome
      BY <1>1, <1>2 DEF StillToCome
    <2> QED
      BY <1>1, <1>2, <2>1 DEF CountedApart
  <1>3. CASE ~CallerHasCounted
    <2>1. step'["ticker"] = "add" => delta'["ticker"] = Advance(metrics["ticker"])'
      BY <1>3 DEF CountedApart, Advance
    <2>2. step'["caller"] = "add" => delta'["caller"] <= requests
      BY <1>3 DEF CountedApart
    <2>3. counted <= requests' /\ \A d \in Nat : d <= requests => d <= requests'
      BY <1>1 DEF CountedApart
    <2>4. step'["caller"] = "add" => delta'["caller"] <= requests'
      BY <1>1, <2>2, <2>3
    <2> QED
      BY <1>3, <2>1, <2>3, <2>4 DEF CountedApart
  <1> QED
    BY <1>2, <1>3

LEMMA CountApart == ASSUME IInv, CountedApart, NEW a \in Actors, Count(a) PROVE CountedApart'
  <1>1. /\ step[a] = "count" /\ step' = [step EXCEPT ![a] = "add"]
        /\ delta' = [delta EXCEPT ![a] = Advance(metrics[a])]
        /\ UNCHANGED <<requests, metrics, counted, total, caller>>
    BY DEF Count, users
  <1>2. /\ counted \in Nat /\ total \in Nat /\ requests \in Nat
        /\ metrics["ticker"].requests \in Nat /\ metrics["caller"].requests \in Nat
        /\ metrics["caller"].requests <= requests
    BY Constants DEF IInv, TypeOK, Metrics, MetricsAreRecorded
  <1>3. CASE a = "ticker"
    <2>1. /\ step'["ticker"] = "add" /\ delta'["ticker"] = Advance(metrics["ticker"])
          /\ step'["caller"] = step["caller"] /\ delta'["caller"] = delta["caller"]
      BY <1>1, <1>3, Constants DEF IInv, TypeOK
    <2>2. CallerHasCounted' = CallerHasCounted
      BY <1>1, <2>1 DEF CallerHasCounted
    <2>3. StillToCome' = requests - counted /\ StillToCome = requests - counted
      BY <1>1, <1>2, <1>3, <2>1 DEF StillToCome, Advance
    <2>4. CASE CallerHasCounted
      BY <1>1, <2>2, <2>3, <2>4 DEF CountedApart
    <2>5. CASE ~CallerHasCounted
      BY <1>1, <2>1, <2>2, <2>5 DEF CountedApart, Advance
    <2> QED
      BY <2>4, <2>5
  <1>4. CASE a = "caller"
    <2>1. /\ step'["caller"] = "add" /\ delta'["caller"] = Advance(metrics["caller"])
          /\ step'["ticker"] = step["ticker"] /\ delta'["ticker"] = delta["ticker"]
      BY <1>1, <1>4, Constants DEF IInv, TypeOK
    <2>2. ~CallerHasCounted /\ ~CallerHasCounted'
      BY <1>1, <1>4, <2>1 DEF CallerHasCounted, IInv, PlacesAgree
    <2>3. delta'["caller"] <= requests
      BY <1>2, <2>1 DEF Advance
    <2> QED
      BY <1>1, <2>1, <2>2, <2>3 DEF CountedApart, Advance
  <1> QED
    BY <1>3, <1>4, Constants

LEMMA AddApart == ASSUME IInv, CountedApart, NEW a \in Actors, Add(a) PROVE CountedApart'
  <1> DEFINE R == requests
             t == metrics["ticker"].requests
             d == delta["ticker"]
  <1>1. /\ step[a] = "add" /\ step' = [step EXCEPT ![a] = "send"]
        /\ total' = total + delta[a]
        /\ counted' = IF delta[a] > 0 THEN metrics[a].requests ELSE counted
        /\ UNCHANGED <<requests, metrics, delta, caller>>
    BY DEF Add, users
  <1>2. /\ counted \in Nat /\ total \in Nat /\ R \in Nat /\ d \in Nat /\ t \in Nat
        /\ delta["caller"] \in Nat /\ t <= R /\ counted <= R
    BY Constants DEF IInv, TypeOK, Metrics, MetricsAreRecorded, CountedApart
  <1>3. CASE a = "ticker"
    <2>1. /\ step["ticker"] = "add" /\ step'["ticker"] = "send"
          /\ step'["caller"] = step["caller"]
          /\ total' = total + d /\ counted' = IF d > 0 THEN t ELSE counted
      BY <1>1, <1>3, Constants DEF IInv, TypeOK
    <2>2. CallerHasCounted' = CallerHasCounted
      BY <1>1, <2>1 DEF CallerHasCounted
    <2>3. StillToCome' = R - counted' /\ StillToCome = IF d > 0 THEN d + (R - t) ELSE R - counted
      BY <1>1, <2>1 DEF StillToCome
    <2>4. total' + StillToCome' = total + StillToCome /\ counted' <= R
      BY <1>2, <2>1, <2>3
    <2>5. CASE CallerHasCounted
      BY <1>1, <2>2, <2>4, <2>5 DEF CountedApart
    <2>6. CASE ~CallerHasCounted
      <3>1. total = counted /\ d = Advance(metrics["ticker"])
        BY <2>1, <2>6 DEF CountedApart
      <3>2. total' = counted'
        BY <1>2, <2>1, <3>1 DEF Advance
      <3> QED
        BY <1>1, <2>1, <2>2, <2>4, <2>6, <3>2 DEF CountedApart
    <2> QED
      BY <2>5, <2>6
  <1>4. CASE a = "caller"
    <2> DEFINE c == delta["caller"]
    <2>1. /\ step["caller"] = "add" /\ step'["caller"] = "send"
          /\ step'["ticker"] = step["ticker"]
          /\ total' = total + c
          /\ counted' = IF c > 0 THEN metrics["caller"].requests ELSE counted
      BY <1>1, <1>4, Constants DEF IInv, TypeOK
    <2>2. ~CallerHasCounted /\ CallerHasCounted' /\ metrics["caller"].requests = R
      BY <2>1 DEF CallerHasCounted, IInv, PlacesAgree, FinalMetrics
    <2>3. /\ total = counted /\ c <= R
          /\ step["ticker"] = "add" => d = Advance(metrics["ticker"])
      BY <2>1, <2>2 DEF CountedApart
    <2>4. counted' = (IF c > 0 THEN R ELSE counted) /\ c \in Nat
      BY <1>2, <2>1, <2>2
    <2>5. StillToCome' = IF step["ticker"] = "add" /\ d > 0 THEN d + (R - t) ELSE R - counted'
      BY <1>1, <2>1 DEF StillToCome
    <2>6. step["ticker"] = "add" /\ d > 0 => d = t - counted
      BY <1>2, <2>3 DEF Advance
    <2>7. StillToCome' <= R - counted /\ StillToCome' \in Int
      BY <1>2, <2>4, <2>5, <2>6
    <2>8. total' + StillToCome' <= 2 * R /\ counted' <= R
      <3> DEFINE more == StillToCome'
      <3>1. total' = counted + c /\ more <= R - counted /\ more \in Int
        BY <2>1, <2>3, <2>7
      <3>2. c \in Nat /\ c <= R /\ counted \in Nat /\ R \in Nat /\ counted <= R
        BY <1>2, <2>3, <2>4
      <3>3. counted' <= R
        BY <2>4, <3>2
      <3> HIDE DEF more, c, R
      <3>4. total' + more <= 2 * R
        BY <3>1, <3>2
      <3> QED
        BY <3>3, <3>4 DEF more
    <2> QED
      BY <1>1, <2>2, <2>8 DEF CountedApart
  <1> QED
    BY <1>3, <1>4, Constants

LEMMA CountedApartPreserved == ASSUME IInv, CountedApart, [Next]_vars PROVE CountedApart'
  <1> USE Constants
  <1>1. ASSUME NEW a \in Actors, Count(a) \/ Add(a) PROVE CountedApart'
    BY <1>1, CountApart, AddApart
  <1>2. ASSUME NEW v \in VUs, UserStep(v) PROVE CountedApart'
    <2>1. UNCHANGED <<step, delta, metrics, caller, counted, total>>
      BY <1>2 DEF UserStep, Join, SendRequest, LimiterRefuses, RecordResult, Exit, VUMove, publishing
    <2>2. requests' = requests \/ (vu[v] = "request" /\ requests' = requests + 1)
      BY <1>2 DEF UserStep, Join, SendRequest, LimiterRefuses, RecordResult
    <2>3. vu[v] = "request" => ~CallerHasCounted
      BY DEF IInv, PlacesAgree, FinalMetrics, AllExited, CallerHasCounted
    <2> QED
      BY <2>1, <2>2, <2>3, CountedApartKept DEF CallerHasCounted
  <1>3. CASE Deadline \/ CancelBreaker \/ TickerStops \/ UNCHANGED vars
    <2>1. UNCHANGED <<requests, step, delta, metrics, caller, counted, total>>
      BY <1>3 DEF Deadline, CancelBreaker, TickerStops, vars, users, publishing
    <2> QED
      BY <2>1, CountedApartKept DEF CallerHasCounted
  <1>4. CASE Tick
    <2>1. /\ UNCHANGED <<requests, step, delta, caller, counted, total>>
          /\ step["ticker"] = "idle"
      BY <1>4 DEF Tick, users, IInv, PlacesAgree
    <2> QED
      BY <2>1, CountedApartKept DEF CallerHasCounted
  <1>5. CASE Judge
    <2>1. /\ UNCHANGED <<requests, delta, caller, counted, total>>
          /\ step["ticker"] = "idle" /\ step' = [step EXCEPT !["ticker"] = "count"]
      BY <1>5 DEF Judge, BeginPublish, users, IInv, PlacesAgree
    <2>2. step'["ticker"] = "count" /\ step'["caller"] = step["caller"]
      BY <2>1 DEF IInv, TypeOK
    <2> QED
      BY <2>1, <2>2, CountedApartKept DEF CallerHasCounted
  <1>6. CASE TickerSends
    <2>1. /\ UNCHANGED <<requests, caller, counted, total>>
          /\ step["ticker"] = "send" /\ step' = [step EXCEPT !["ticker"] = "idle"]
          /\ delta' = [delta EXCEPT !["ticker"] = 0]
      BY <1>6 DEF TickerSends, Send, users
    <2>2. /\ step'["ticker"] = "idle" /\ step'["caller"] = step["caller"]
          /\ delta'["caller"] = delta["caller"]
      BY <2>1 DEF IInv, TypeOK
    <2> QED
      BY <2>1, <2>2, CountedApartKept DEF CallerHasCounted
  <1>7. CASE WaitReturns
    <2>1. /\ UNCHANGED <<requests, step, delta, counted, total>>
          /\ metrics'["ticker"] = metrics["ticker"]
          /\ caller = "wait" /\ caller' = "flag"
      BY <1>7 DEF WaitReturns, users, IInv, TypeOK
    <2> QED
      BY <2>1, CountedApartKept DEF CallerHasCounted
  <1>8. CASE ReadFlag
    <2>1. /\ UNCHANGED <<requests, delta, counted, total>>
          /\ step["caller"] = "idle" /\ step' = [step EXCEPT !["caller"] = "count"]
          /\ caller = "flag" /\ caller' = "publish" /\ metrics'["ticker"] = metrics["ticker"]
      BY <1>8 DEF ReadFlag, BeginPublish, users, IInv, TypeOK, PlacesAgree
    <2>2. step'["caller"] = "count" /\ step'["ticker"] = step["ticker"]
      BY <2>1 DEF IInv, TypeOK
    <2> QED
      BY <2>1, <2>2, CountedApartKept DEF CallerHasCounted
  <1>9. CASE CallerSends
    <2>1. /\ UNCHANGED <<requests, metrics, counted, total>>
          /\ step["caller"] = "send" /\ step' = [step EXCEPT !["caller"] = "idle"]
          /\ delta' = [delta EXCEPT !["caller"] = 0] /\ caller' = "returned"
      BY <1>9 DEF CallerSends, Send, users
    <2>2. /\ step'["caller"] = "idle" /\ step'["ticker"] = step["ticker"]
          /\ delta'["ticker"] = delta["ticker"]
      BY <2>1 DEF IInv, TypeOK
    <2> QED
      BY <2>1, <2>2, CountedApartKept DEF CallerHasCounted
  <1> QED
    BY <1>1, <1>2, <1>3, <1>4, <1>5, <1>6, <1>7, <1>8, <1>9 DEF Next, TickerStep, CallerStep

\* The counter requestsGeneratedTotal is never more than twice the requests of the run,
\* although ticker and caller may both add what countedRequests is behind by
\* (main.go:203-240).  With SpecCountedInFull, every request is counted once or twice.
THEOREM SpecCountedAtMostTwice == Spec => []CountedAtMostTwice
  <1>1. Init => CountedApart
    BY Constants DEF Init, CountedApart, CallerHasCounted, NoMetrics
  <1>2. IInv /\ CountedApart => CountedAtMostTwice
    <2> SUFFICES ASSUME IInv, CountedApart PROVE total <= 2 * requests
      BY DEF CountedAtMostTwice
    <2>1. /\ counted \in Nat /\ total \in Nat /\ requests \in Nat /\ delta["ticker"] \in Nat
          /\ metrics["ticker"].requests \in Nat /\ metrics["ticker"].requests <= requests
          /\ counted <= requests
      BY Constants DEF IInv, TypeOK, Metrics, MetricsAreRecorded, CountedApart
    <2>2. StillToCome \in Nat
      BY <2>1 DEF StillToCome
    <2> QED
      BY <2>1, <2>2 DEF CountedApart
  <1> QED
    BY <1>1, <1>2, SpecIInv, CountedApartPreserved, PTL DEF Spec
=============================================================================
