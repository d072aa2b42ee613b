------------------------------ MODULE LoadGen ------------------------------
(***************************************************************************)
(* One run of a job inside a worker (worker/loadgen.go) and what it        *)
(* publishes (worker/main.go:203-240).  The virtual users, the goroutine   *)
(* of the one-second ticker and the goroutine that called runLoadTest run  *)
(* concurrently; nothing waits for the ticker's goroutine.  The last two   *)
(* share the publish closure, whose counters no lock protects.             *)
(***************************************************************************)
EXTENDS Integers, Sequences, FiniteSets

CONSTANTS
    VUs,            \* virtual users of the job
    Ramp,           \* TRUE: ramp pattern, users join one after the other
    MinSamples,     \* circuitBreakerMinSamples
    MaxRequests,    \* bound: requests recorded in a behaviour
    MaxTicks        \* bound: ticks taken in a behaviour

ASSUME LoadGenAssumption ==
    /\ IsFiniteSet(VUs) /\ VUs # {} /\ Ramp \in BOOLEAN
    /\ MinSamples \in Nat \ {0} /\ MaxRequests \in Nat /\ MaxTicks \in Nat

VARIABLES
    vu,         \* vu[v]: "offset" (joins later), "limit", "request", "exited",
                \* "stopped" (exited because the breaker cancelled ctx)
    ctx,        \* "live", "closing" (its deadline is near), "over", "broken"
    requests, errors, \* results recorded so far, and the failed ones among them
    ticker,     \* the ticker goroutine: "select", "judge", "publish", "cancel", "exited"
    ticks,      \* ticks taken
    caller,     \* the calling goroutine: "wait", "flag", "publish", "returned"
    tickerDone, \* the channel tickerDone is closed
    aborted,    \* the flag behind abortedMu
    metrics,    \* metrics[a]: the Metrics goroutine a publishes
    step,       \* step[a]: "idle", "count", "add", "send" within publish
    delta,      \* delta[a]: the advance of the request counter a has computed
    counted,    \* countedRequests
    total,      \* the counter requestsGeneratedTotal
    stream      \* what was appended to the results stream

users == <<vu, requests, errors>>
publishing == <<metrics, step, delta, counted, total, stream>>
vars == <<users, ctx, ticker, ticks, caller, tickerDone, aborted, publishing>>

Actors == {"ticker", "caller"}
Metrics == [requests : 0 .. MaxRequests, errors : 0 .. MaxRequests, done : BOOLEAN, broken : BOOLEAN]
NoMetrics == [requests |-> 0, errors |-> 0, done |-> FALSE, broken |-> FALSE]

TypeOK ==
    /\ vu \in [VUs -> {"offset", "limit", "request", "exited", "stopped"}]
    /\ ctx \in {"live", "closing", "over", "broken"}
    /\ tickerDone \in BOOLEAN /\ aborted \in BOOLEAN
    /\ requests \in 0 .. MaxRequests /\ errors \in 0 .. requests
    /\ ticker \in {"select", "judge", "publish", "cancel", "exited"}
    /\ ticks \in 0 .. MaxTicks
    /\ caller \in {"wait", "flag", "publish", "returned"}
    /\ metrics \in [Actors -> Metrics]
    /\ step \in [Actors -> {"idle", "count", "add", "send"}]
    /\ delta \in [Actors -> 0 .. MaxRequests]
    /\ counted \in Nat /\ total \in Nat
    /\ stream \in Seq(Metrics)

Init ==
    /\ vu = [v \in VUs |-> IF Ramp THEN "offset" ELSE "limit"]
    /\ ctx = "live" /\ tickerDone = FALSE /\ aborted = FALSE
    /\ requests = 0 /\ errors = 0
    /\ ticker = "select" /\ ticks = 0 /\ caller = "wait"
    /\ metrics = [a \in Actors |-> NoMetrics]
    /\ step = [a \in Actors |-> "idle"]
    /\ delta = [a \in Actors |-> 0]
    /\ counted = 0 /\ total = 0 /\ stream = <<>>

-----------------------------------------------------------------------------
(* The context and the virtual users. *)

Cancelled == ctx \in {"over", "broken"}

\* context.WithTimeout, or the parent context of a worker that shuts down.
Deadline ==
    /\ ~Cancelled
    /\ ctx' = IF ctx = "live" THEN "closing" ELSE "over"
    /\ UNCHANGED <<users, ticker, ticks, caller, tickerDone, aborted, publishing>>

VUMove(v, there) ==
    /\ vu' = [vu EXCEPT ![v] = there]
    /\ UNCHANGED <<ctx, ticker, ticks, caller, tickerDone, aborted, publishing>>

Exit(v) == VUMove(v, IF ctx = "broken" THEN "stopped" ELSE "exited")

\* A user of a ramp joins when its offset has passed, or leaves with ctx.
Join(v) ==
    /\ vu[v] = "offset"
    /\ VUMove(v, "limit") \/ (Cancelled /\ Exit(v))
    /\ UNCHANGED <<requests, errors>>

\* limiter.Wait lets the user send ...
SendRequest(v) ==
    /\ vu[v] = "limit"
    /\ ~Cancelled
    /\ requests + Cardinality({u \in VUs : vu[u] = "request"}) < MaxRequests
    /\ VUMove(v, "request")
    /\ UNCHANGED <<requests, errors>>

\* ... or fails: ctx is over, or the user's turn would come after its deadline.
LimiterRefuses(v) ==
    /\ vu[v] = "limit" /\ ctx # "live"
    /\ Exit(v)
    /\ UNCHANGED <<requests, errors>>

\* client.Get returns, ctx or not, at the latest with its own timeout.
RecordResult(v) ==
    /\ vu[v] = "request"
    /\ requests' = requests + 1
    /\ errors' \in {errors, errors + 1}
    /\ VUMove(v, "limit")

-----------------------------------------------------------------------------
(* The publish closure of handleJob, called by either goroutine. *)

BeginPublish(a, m) ==
    /\ metrics' = [metrics EXCEPT ![a] = m]
    /\ step' = [step EXCEPT ![a] = "count"]
    /\ UNCHANGED <<delta, counted, total, stream>>

\* Mutant of Advance: a snapshot older than the counters moves them back.
AdvanceUnchecked(m) == m.requests - counted

\* Mutant of Advance: the final snapshot is not counted any more.
AdvanceWhileLive(m) == IF m.requests > counted /\ ~m.done THEN m.requests - counted ELSE 0

Advance(m) == IF m.requests > counted THEN m.requests - counted ELSE 0

Count(a) ==
    /\ step[a] = "count"
    /\ delta' = [delta EXCEPT ![a] = Advance(metrics[a])]
    /\ step' = [step EXCEPT ![a] = "add"]
    /\ UNCHANGED <<users, ctx, ticker, ticks, caller, tickerDone, aborted, metrics,
                   counted, total, stream>>

Add(a) ==
    /\ step[a] = "add"
    /\ total' = total + delta[a]
    /\ counted' = IF delta[a] > 0 THEN metrics[a].requests ELSE counted
    /\ step' = [step EXCEPT ![a] = "send"]
    /\ UNCHANGED <<users, ctx, ticker, ticks, caller, tickerDone, aborted, metrics,
                   delta, stream>>

\* XADD, the end of publish; its error is only logged.
Send(a, m) ==
    /\ step[a] = "send"
    /\ stream' \in {stream, Append(stream, m)}
    /\ step' = [step EXCEPT ![a] = "idle"]
    /\ delta' = [delta EXCEPT ![a] = 0]
    /\ UNCHANGED <<metrics, counted, total>>

-----------------------------------------------------------------------------
(* The ticker goroutine.  A select with several ready cases takes any.      *)

Tick ==
    /\ ticker = "select" /\ ticks < MaxTicks
    /\ ticks' = ticks + 1
    /\ ticker' = "judge"
    /\ metrics' = [metrics EXCEPT !["ticker"] =
                     [requests |-> requests, errors |-> errors, done |-> FALSE, broken |-> FALSE]]
    /\ UNCHANGED <<users, ctx, caller, tickerDone, aborted, step, delta, counted,
                   total, stream>>

Trips(m) == m.requests >= MinSamples /\ 2 * m.errors >= m.requests

\* Mutant of Flags: the flag is only set after the snapshot is published.
FlagsLate(broken) == aborted' = aborted

Flags(broken) == aborted' = (aborted \/ broken)

Judge ==
    LET broken == Trips(metrics["ticker"]) IN
    /\ ticker = "judge"
    /\ Flags(broken)
    /\ BeginPublish("ticker", [metrics["ticker"] EXCEPT !.broken = broken])
    /\ ticker' = "publish"
    /\ UNCHANGED <<users, ctx, ticks, caller, tickerDone>>

TickerSends ==
    /\ ticker = "publish"
    /\ Send("ticker", metrics["ticker"])
    /\ ticker' = IF metrics["ticker"].broken THEN "cancel" ELSE "select"
    /\ UNCHANGED <<users, ctx, ticks, caller, tickerDone, aborted>>

\* Mutant of BreakerCancels: the run goes on after the breaker tripped.
BreakerOnlyReports == ctx' = ctx

BreakerCancels == ctx' = IF Cancelled THEN ctx ELSE "broken"

CancelBreaker ==
    /\ ticker = "cancel"
    /\ BreakerCancels
    /\ ticker' = "exited"
    /\ UNCHANGED <<users, ticks, caller, tickerDone, aborted, publishing>>

TickerStops ==
    /\ ticker = "select" /\ (Cancelled \/ tickerDone)
    /\ ticker' = "exited"
    /\ UNCHANGED <<users, ctx, ticks, caller, tickerDone, aborted, publishing>>

-----------------------------------------------------------------------------
(* The calling goroutine. *)

\* Mutant of AllExited: the caller waits for one user only.
SomeExited == \E v \in VUs : vu[v] \in {"exited", "stopped"}

AllExited == \A v \in VUs : vu[v] \in {"exited", "stopped"}

\* wg.Wait returns, tickerDone is closed and the final snapshot is taken ...
WaitReturns ==
    /\ caller = "wait" /\ AllExited
    /\ tickerDone' = TRUE
    /\ metrics' = [metrics EXCEPT !["caller"] =
                     [requests |-> requests, errors |-> errors, done |-> TRUE, broken |-> FALSE]]
    /\ caller' = "flag"
    /\ UNCHANGED <<users, ctx, ticker, ticks, aborted, step, delta, counted, total, stream>>

\* ... the aborted flag is read ...
ReadFlag ==
    /\ caller = "flag"
    /\ BeginPublish("caller", [metrics["caller"] EXCEPT !.broken = aborted])
    /\ caller' = "publish"
    /\ UNCHANGED <<users, ctx, ticker, ticks, tickerDone, aborted>>

\* ... and the final metrics are published.
CallerSends ==
    /\ caller = "publish"
    /\ Send("caller", metrics["caller"])
    /\ caller' = "returned"
    /\ UNCHANGED <<users, ctx, ticker, ticks, tickerDone, aborted>>

-----------------------------------------------------------------------------
UserStep(v) == Join(v) \/ SendRequest(v) \/ LimiterRefuses(v) \/ RecordResult(v)

TickerStep == Tick \/ Judge \/ TickerSends \/ CancelBreaker \/ TickerStops

CallerStep == WaitReturns \/ ReadFlag \/ CallerSends

Next ==
    \/ Deadline
    \/ \E v \in VUs : UserStep(v)
    \/ \E a \in Actors : Count(a) \/ Add(a)
    \/ TickerStep \/ CallerStep

Spec == Init /\ [][Next]_vars

\* Goroutines are scheduled and requests time out.  The deadline is left without
\* fairness, so that the breaker has to end the run without its help.
Fairness ==
    /\ \A v \in VUs : WF_vars(UserStep(v))
    /\ \A a \in Actors : WF_vars(Count(a)) /\ WF_vars(Add(a))
    /\ WF_vars(TickerStep) /\ WF_vars(CallerStep)

FairSpec == Spec /\ Fairness

-----------------------------------------------------------------------------
Published == {stream[i] : i \in DOMAIN stream}
Finals == {m \in Published : m.done}

(***************************************************************************)
(* The final snapshot accounts for every request of every virtual user,    *)
(* and no live one ever shows more (loadgen.go:146-155).                   *)
(***************************************************************************)
FinalIsComplete ==
    \A f \in Finals :
        f.requests = requests /\ f.errors = errors /\ \A m \in Published : m.requests <= f.requests

(***************************************************************************)
(* CircuitBroken is "true if the run was aborted early" (metrics.go:23):   *)
(* once the breaker has stopped a virtual user, the final snapshot says    *)
(* so.  The flag is set before ctx is cancelled, and read after every user *)
(* has exited (loadgen.go:86-92, 146-153).                                 *)
(***************************************************************************)
AbortIsReported ==
    (\E v \in VUs : vu[v] = "stopped") => \A f \in Finals : f.broken

(***************************************************************************)
(* The Prometheus counter has counted every request of the run when the    *)
(* final snapshot goes out, although the two goroutines that advance it    *)
(* share countedRequests without a lock (main.go:203-240).  It may have    *)
(* counted some twice: the caller's publish can overlap the ticker's.      *)
(***************************************************************************)
CountedInFull == step["caller"] = "send" \/ caller = "returned" => total >= requests

(***************************************************************************)
(* A run ends once its duration is over or its breaker has tripped,        *)
(* whatever the virtual users and the ticker are doing then.  The breaker  *)
(* does not need the deadline for it: "stop every VU now instead of        *)
(* waiting out the duration" (loadgen.go:92).                              *)
(***************************************************************************)
RunEnds == ctx = "over" \/ aborted ~> caller = "returned"
=============================================================================
