---------------------------- MODULE AtLeastOnce ----------------------------
(***************************************************************************)
(* What the jobs stream and its workers promise to the rest of the system: *)
(* at-least-once delivery, at most MaxDeliveries runs of a job, and no     *)
(* second run next to a healthy one.  Time, leases and the claiming        *)
(* protocol are left to JobQueue, which implements this specification.     *)
(***************************************************************************)
EXTENDS Naturals

CONSTANTS Workers, Jobs, NoJob, MaxDeliveries

VARIABLES
    status, \* status[j]: "absent", "queued", "acked" or "lost" (by a flush of Redis)
    at,     \* at[w]: "idle", "run", "lost" (runs, but was cut off), "giveup", "ack"
    on,     \* on[w]: the job w is at
    starts, \* starts[j]: runs of j so far
    deliveries, \* deliveries[j]: times j was given to a worker, which may not have noticed
    final   \* the jobs a final report of which was published

vars == <<status, at, on, starts, deliveries, final>>

TypeOK ==
    /\ status \in [Jobs -> {"absent", "queued", "acked", "lost"}]
    /\ at \in [Workers -> {"idle", "run", "lost", "giveup", "ack"}]
    /\ on \in [Workers -> Jobs \cup {NoJob}]
    /\ starts \in [Jobs -> Nat]
    /\ deliveries \in [Jobs -> Nat]
    /\ final \subseteq Jobs

Init ==
    /\ status = [j \in Jobs |-> "absent"]
    /\ at = [w \in Workers |-> "idle"]
    /\ on = [w \in Workers |-> NoJob]
    /\ starts = [j \in Jobs |-> 0]
    /\ deliveries = [j \in Jobs |-> 0]
    /\ final = {}

Submit(j) ==
    /\ status[j] = "absent"
    /\ status' = [status EXCEPT ![j] = "queued"]
    /\ UNCHANGED <<at, on, starts, deliveries, final>>

\* No worker runs j on a link that works.
Unattended(j) == \A v \in Workers : on[v] = j => at[v] # "run"

\* A queued job nobody healthy runs is given to a worker.
Deliver(j) ==
    /\ status[j] = "queued" /\ Unattended(j)
    /\ deliveries' = [deliveries EXCEPT ![j] = @ + 1]

\* The worker runs it ...
Start(w, j) ==
    /\ at[w] = "idle" /\ deliveries[j] < MaxDeliveries
    /\ Deliver(j)
    /\ at' = [at EXCEPT ![w] = "run"]
    /\ on' = [on EXCEPT ![w] = j]
    /\ starts' = [starts EXCEPT ![j] = @ + 1]
    /\ UNCHANGED <<status, final>>

\* ... or reports it abandoned, when it was delivered too often before ...
TakePoison(w, j) ==
    /\ at[w] = "idle" /\ deliveries[j] >= MaxDeliveries
    /\ Deliver(j)
    /\ at' = [at EXCEPT ![w] = "giveup"]
    /\ on' = [on EXCEPT ![w] = j]
    /\ UNCHANGED <<status, starts, final>>

\* ... or does not know of it, because the reply was lost.
DeliverUnseen(j) ==
    /\ Deliver(j)
    /\ UNCHANGED <<status, at, on, starts, final>>

\* A runner loses its link, and renews its lease when it is back.
Lose(w) ==
    /\ at[w] = "run"
    /\ at' = [at EXCEPT ![w] = "lost"]
    /\ UNCHANGED <<status, on, starts, deliveries, final>>

Regain(w) ==
    /\ at[w] = "lost"
    /\ at' = [at EXCEPT ![w] = "run"]
    /\ UNCHANGED <<status, on, starts, deliveries, final>>

\* The run ends or the job is given up; the report may fail.
Close(w, published) ==
    /\ at[w] \in {"run", "lost", "giveup"}
    /\ at' = [at EXCEPT ![w] = "ack"]
    /\ final' = IF published THEN final \cup {on[w]} ELSE final
    /\ UNCHANGED <<status, on, starts, deliveries>>

\* The job is acknowledged, whoever else runs it, unless the call fails.
Ack(w, arrives) ==
    /\ at[w] = "ack"
    /\ status' = IF arrives /\ status[on[w]] = "queued"
                 THEN [status EXCEPT ![on[w]] = "acked"] ELSE status
    /\ at' = [at EXCEPT ![w] = "idle"]
    /\ on' = [on EXCEPT ![w] = NoJob]
    /\ UNCHANGED <<starts, deliveries, final>>

Die(w) ==
    /\ at[w] # "idle"
    /\ at' = [at EXCEPT ![w] = "idle"]
    /\ on' = [on EXCEPT ![w] = NoJob]
    /\ UNCHANGED <<status, starts, deliveries, final>>

\* The stream is wiped out; jobs submitted later are queued as before.
Wipe ==
    /\ status' = [j \in Jobs |-> IF status[j] = "queued" THEN "lost" ELSE status[j]]
    /\ UNCHANGED <<at, on, starts, deliveries, final>>

Next ==
    \/ Wipe
    \/ \E j \in Jobs : Submit(j) \/ DeliverUnseen(j)
    \/ \E w \in Workers :
         \/ \E j \in Jobs : Start(w, j) \/ TakePoison(w, j)
         \/ Lose(w) \/ Regain(w) \/ Die(w)
         \/ \E b \in BOOLEAN : Close(w, b) \/ Ack(w, b)

Spec == Init /\ [][Next]_vars
=============================================================================
