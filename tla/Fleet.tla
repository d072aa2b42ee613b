------------------------------- MODULE Fleet -------------------------------
(***************************************************************************)
(* The registry of live workers: every worker refreshes a Redis key of its *)
(* own that expires by itself (heartbeat, worker/main.go), and whoever     *)
(* wants to know the capacity counts the keys (coordinator/capacity.go).   *)
(***************************************************************************)
EXTENDS Naturals, FiniteSets

CONSTANTS
    Workers,
    HeartbeatInterval, \* period of the heartbeat ticker
    BeatLatency,       \* longest delay of a heartbeat on a working link
    HeartbeatTTL,      \* life of a key that is not refreshed
    MaxFaults          \* bound: crashes and lost links in a behaviour

ASSUME FleetAssumption ==
    /\ HeartbeatInterval \in Nat /\ BeatLatency \in Nat /\ HeartbeatTTL \in Nat
    /\ HeartbeatInterval + BeatLatency < HeartbeatTTL
    /\ IsFiniteSet(Workers) /\ MaxFaults \in Nat

VARIABLES
    state,   \* state[w]: "down", "starting" (its first beat is due), "up"
    linked,  \* the workers whose link to Redis works
    missed,  \* the workers cut off since their last heartbeat
    beat,    \* beat[w]: time since w's last heartbeat
    silent,  \* silent[w]: time since w last ran on a working link
    ttl,     \* ttl[w]: what is left of the life of w's key, 0 when it is gone
    faults

fleet == <<state, linked, missed, beat, silent, ttl, faults>>

FleetTypeOK ==
    /\ state \in [Workers -> {"down", "starting", "up"}]
    /\ linked \subseteq Workers /\ missed \subseteq Workers
    /\ beat \in [Workers -> 0 .. HeartbeatTTL]
    /\ silent \in [Workers -> 0 .. HeartbeatTTL]
    /\ ttl \in [Workers -> 0 .. HeartbeatTTL]
    /\ faults \in 0 .. MaxFaults

FleetInit ==
    /\ state = [w \in Workers |-> "down"]
    /\ linked = Workers /\ missed = {}
    /\ beat = [w \in Workers |-> 0]
    /\ silent = [w \in Workers |-> HeartbeatTTL]
    /\ ttl = [w \in Workers |-> 0]
    /\ faults = 0

\* main exits unless Redis answers; then the heartbeat goroutine starts.
Start(w) ==
    /\ state[w] = "down" /\ w \in linked
    /\ state' = [state EXCEPT ![w] = "starting"]
    /\ beat' = [beat EXCEPT ![w] = 0]
    /\ missed' = missed \ {w}
    /\ silent' = [silent EXCEPT ![w] = 0]
    /\ UNCHANGED <<linked, ttl, faults>>

\* Mutant of Refresh: the key is given the life of one interval only.
RefreshShort == HeartbeatInterval

\* SET with an expiry.
Refresh == HeartbeatTTL

\* The first beat, or one of the ticker; a SET that fails is only logged.
Beat(w) ==
    /\ w \in linked
    /\ state[w] = "starting" \/ (state[w] = "up" /\ beat[w] >= HeartbeatInterval)
    /\ state' = [state EXCEPT ![w] = "up"]
    /\ beat' = [beat EXCEPT ![w] = 0]
    /\ missed' = missed \ {w}
    /\ ttl' = [ttl EXCEPT ![w] = Refresh]
    /\ UNCHANGED <<linked, silent, faults>>

\* A crash, or a signal that cancels the context: nothing is deregistered.
Crash(w) ==
    /\ state[w] # "down" /\ faults < MaxFaults
    /\ state' = [state EXCEPT ![w] = "down"]
    /\ faults' = faults + 1
    /\ UNCHANGED <<linked, missed, beat, silent, ttl>>

CutLink(w) ==
    /\ w \in linked /\ faults < MaxFaults
    /\ linked' = linked \ {w}
    /\ missed' = missed \cup {w}
    /\ faults' = faults + 1
    /\ UNCHANGED <<state, beat, silent, ttl>>

HealLink(w) ==
    /\ w \notin linked
    /\ linked' = linked \cup {w}
    /\ silent' = [silent EXCEPT ![w] = IF state[w] = "down" THEN @ ELSE 0]
    /\ UNCHANGED <<state, missed, beat, ttl, faults>>

\* Mutant of Expire: SET without an expiry.
ExpireNever(life) == life

Expire(life) == IF life > 0 THEN life - 1 ELSE 0

\* Every age of HeartbeatTTL or more is the same.
Later(age) == IF age < HeartbeatTTL THEN age + 1 ELSE age

\* One unit of time.  A heartbeat on a link that was never cut is not later
\* than BeatLatency, and neither is the first one after the start.
TimePasses ==
    /\ \A w \in Workers \ missed :
         /\ state[w] = "up" => beat[w] < HeartbeatInterval + BeatLatency
         /\ state[w] = "starting" => beat[w] < BeatLatency
    /\ ttl' = [w \in Workers |-> Expire(ttl[w])]
    /\ beat' = [w \in Workers |-> IF state[w] # "down" THEN Later(beat[w]) ELSE beat[w]]
    /\ silent' = [w \in Workers |->
                    IF state[w] = "down" \/ w \notin linked THEN Later(silent[w]) ELSE 0]
    /\ UNCHANGED <<state, linked, missed, faults>>

WorkerStep ==
    \E w \in Workers : Start(w) \/ Beat(w) \/ Crash(w) \/ CutLink(w) \/ HealLink(w)

FleetNext == TimePasses \/ WorkerStep

FleetSpec == FleetInit /\ [][FleetNext]_fleet

-----------------------------------------------------------------------------
\* CountLiveWorkers scans the keys.
Registered == {w \in Workers : ttl[w] > 0}

(***************************************************************************)
(* A worker that is up, and whose link held since its last heartbeat, is   *)
(* counted, however long it has been running and whatever job it runs:     *)
(* HeartbeatTTL leaves room for a late beat (main.go:24-34, 154-173).      *)
(***************************************************************************)
HealthyIsCounted == \A w \in Workers \ missed : state[w] = "up" => w \in Registered

(***************************************************************************)
(* "A worker that crashes or loses connectivity just stops refreshing its  *)
(* key and ages out within heartbeatTTL, no explicit deregistration        *)
(* needed" (main.go:27-30), through restarts and links that come back.     *)
(***************************************************************************)
SilentAgesOut == \A w \in Workers : silent[w] >= HeartbeatTTL => w \notin Registered
=============================================================================
