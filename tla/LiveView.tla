------------------------------ MODULE LiveView ------------------------------
(***************************************************************************)
(* GET /tests/{id}/live (coordinator/live.go): every viewer's handler      *)
(* subscribes to the TestStore and pushes snapshots over a WebSocket until *)
(* one says done.  Update fans a snapshot out to the channels of all       *)
(* subscribers and drops it where a channel is full (teststore.go:69-111). *)
(* A snapshot is the number of updates it reflects and its done flag.      *)
(***************************************************************************)
EXTENDS Naturals, Sequences

CONSTANTS
    Viewers,
    ChannelCap, \* capacity of a subscriber's channel
    MaxUpdates  \* bound: updates of the test in a behaviour

ASSUME LiveViewAssumption == ChannelCap \in Nat \ {0} /\ MaxUpdates \in Nat

VARIABLES
    test,       \* the current snapshot of the test
    step,       \* step[v]: the step the handler of v is at
    hand,       \* hand[v]: the snapshot the handler is about to write
    subscribers,\* the viewers whose channel TestStore.subscribers holds
    chan,       \* chan[v]: the content of v's channel
    open,       \* the viewers whose channel was made and not closed
    gone,       \* viewers whose client has left or whose connection broke
    stalled,    \* viewers that are connected and do not read, with full buffers
    shown,      \* shown[v]: the last snapshot written to v's connection
    dropped     \* viewers for whom the latest update was dropped

viewVars == <<test, step, hand, subscribers, chan, open, gone, stalled, shown, dropped>>

Snapshot == [seen : 0 .. MaxUpdates, done : BOOLEAN]
Nothing == [seen |-> 0, done |-> FALSE]

ViewTypeOK ==
    /\ test \in Snapshot
    /\ step \in [Viewers -> {"snapshot", "subscribe", "refresh", "initial", "select", "write",
                             "unsubscribe", "ended"}]
    /\ hand \in [Viewers -> Snapshot] /\ shown \in [Viewers -> Snapshot]
    /\ subscribers \subseteq Viewers /\ open \subseteq Viewers /\ gone \subseteq Viewers
    /\ stalled \subseteq Viewers /\ dropped \subseteq Viewers
    /\ \A v \in Viewers : chan[v] \in Seq(Snapshot) /\ Len(chan[v]) <= ChannelCap

ViewInit ==
    /\ test = Nothing
    /\ step = [v \in Viewers |-> "snapshot"]
    /\ hand = [v \in Viewers |-> Nothing] /\ shown = [v \in Viewers |-> Nothing]
    /\ subscribers = {} /\ open = {} /\ gone = {} /\ stalled = {} /\ dropped = {}
    /\ chan = [v \in Viewers |-> <<>>]

GoTo(v, next) == step' = [step EXCEPT ![v] = next]

-----------------------------------------------------------------------------
(* The results watcher. *)

\* Mutant of Room: a channel is written whether it is full or not.
RoomAlways(v) == TRUE

Room(v) == Len(chan[v]) < ChannelCap

\* Update or MarkAbandoned, with notifySubscribers under the same lock.
UpdateAndNotify(done) ==
    LET snap == [seen |-> test.seen + 1, done |-> done] IN
    /\ test.seen < MaxUpdates
    /\ test' = snap
    /\ chan' = [v \in Viewers |->
                  IF v \in subscribers /\ Room(v) THEN Append(chan[v], snap) ELSE chan[v]]
    /\ dropped' = {v \in subscribers : ~Room(v)}
    /\ UNCHANGED <<step, hand, subscribers, open, gone, stalled, shown>>

-----------------------------------------------------------------------------
(* The handler of a viewer. *)

\* The Snapshot before the upgrade only decides about 404.
CheckTest(v) ==
    /\ step[v] = "snapshot"
    /\ \E up \in BOOLEAN : GoTo(v, IF up THEN "subscribe" ELSE "ended")
    /\ UNCHANGED <<test, hand, subscribers, chan, open, gone, stalled, shown, dropped>>

Subscribe(v) ==
    /\ step[v] = "subscribe"
    /\ GoTo(v, "refresh")
    /\ subscribers' = subscribers \cup {v} /\ open' = open \cup {v}
    /\ UNCHANGED <<test, hand, chan, gone, stalled, shown, dropped>>

\* Mutant of Latest: the snapshot taken before Subscribe is sent.
LatestBefore == Nothing

Latest == test

Refresh(v) ==
    /\ step[v] = "refresh"
    /\ GoTo(v, "initial")
    /\ hand' = [hand EXCEPT ![v] = Latest]
    /\ UNCHANGED <<test, subscribers, chan, open, gone, stalled, shown, dropped>>

\* WriteJSON, after which a snapshot that says done ends the handler.  It has no
\* deadline: it returns only when the client has read on.
Write(v) ==
    /\ step[v] \in {"initial", "write"} /\ v \notin gone /\ v \notin stalled
    /\ shown' = [shown EXCEPT ![v] = hand[v]]
    /\ GoTo(v, IF hand[v].done THEN "unsubscribe" ELSE "select")
    /\ UNCHANGED <<test, hand, subscribers, chan, open, gone, stalled, dropped>>

\* WriteJSON on a connection that is gone fails, at once or later.
WriteError(v) ==
    /\ step[v] \in {"initial", "write"} /\ v \in gone
    /\ GoTo(v, "unsubscribe")
    /\ UNCHANGED <<test, hand, subscribers, chan, open, gone, stalled, shown, dropped>>

\* select: an update has arrived ...
Receive(v) ==
    /\ step[v] = "select" /\ chan[v] # <<>>
    /\ GoTo(v, "write")
    /\ hand' = [hand EXCEPT ![v] = Head(chan[v])]
    /\ chan' = [chan EXCEPT ![v] = Tail(@)]
    /\ UNCHANGED <<test, subscribers, open, gone, stalled, shown, dropped>>

\* ... or the reading goroutine has noticed that the client left.
NoticeClosed(v) ==
    /\ step[v] = "select" /\ v \in gone
    /\ GoTo(v, "unsubscribe")
    /\ UNCHANGED <<test, hand, subscribers, chan, open, gone, stalled, shown, dropped>>

\* Mutant of Remaining: the channel is closed and stays among the subscribers.
RemainingAll(v) == subscribers

Remaining(v) == subscribers \ {v}

\* unsubscribe: the channel is removed and closed under the lock of the store.
Unsubscribe(v) ==
    /\ step[v] = "unsubscribe"
    /\ GoTo(v, "ended")
    /\ subscribers' = Remaining(v)
    /\ open' = open \ {v}
    /\ UNCHANGED <<test, hand, chan, gone, stalled, shown, dropped>>

\* The client leaves, or its connection breaks.
Leave(v) ==
    /\ v \notin gone /\ step[v] # "ended"
    /\ gone' = gone \cup {v}
    /\ UNCHANGED <<test, step, hand, subscribers, chan, open, stalled, shown, dropped>>

\* The client stops to read, until the buffers on the way to it are full ...
Stall(v) ==
    /\ v \notin stalled /\ v \notin gone /\ step[v] # "ended"
    /\ stalled' = stalled \cup {v}
    /\ UNCHANGED <<test, step, hand, subscribers, chan, open, gone, shown, dropped>>

\* ... and may or may not read on.
ReadOn(v) ==
    /\ v \in stalled
    /\ stalled' = stalled \ {v}
    /\ UNCHANGED <<test, step, hand, subscribers, chan, open, gone, shown, dropped>>

-----------------------------------------------------------------------------
Handle(v) ==
    \/ CheckTest(v) \/ Subscribe(v) \/ Refresh(v) \/ Write(v) \/ WriteError(v)
    \/ Receive(v) \/ NoticeClosed(v) \/ Unsubscribe(v)

ViewNext ==
    \/ \E done \in BOOLEAN : UpdateAndNotify(done)
    \/ \E v \in Viewers : Handle(v) \/ Leave(v) \/ Stall(v) \/ ReadOn(v)

ViewSpec == ViewInit /\ [][ViewNext]_viewVars

\* Handlers are goroutines and keep being scheduled, though not through a write
\* to a client that has stalled; updates, and what clients do, need not happen.
ViewFairSpec == ViewSpec /\ \A v \in Viewers : WF_viewVars(Handle(v))

-----------------------------------------------------------------------------
(***************************************************************************)
(* A handler that has caught up has shown the current state, unless this   *)
(* very state found its channel full: subscribing before the second        *)
(* Snapshot "guarantees no Update() in between is missed" (live.go:52-57), *)
(* and an earlier update that was dropped is made up for by the next one   *)
(* (teststore.go:99-111).                                                  *)
(***************************************************************************)
CaughtUpIsCurrent ==
    \A v \in Viewers :
        step[v] = "select" /\ chan[v] = <<>> /\ v \notin dropped => shown[v] = test

(***************************************************************************)
(* notifySubscribers never sends on a closed channel, which would bring    *)
(* the coordinator down, and no ended handler leaves a channel behind for  *)
(* every later update of the test to fill (teststore.go:81-97, 104-111).   *)
(***************************************************************************)
OnlyOpenAreNotified ==
    /\ subscribers \subseteq open
    /\ \A v \in Viewers : step[v] = "ended" => v \notin subscribers /\ v \notin open

(***************************************************************************)
(* A viewer that does not stop to read for ever is shown that the test has *)
(* finished before its handler ends, unless it leaves, or the very update  *)
(* that says so found its channel full (live.go:59-92, teststore.go:107);  *)
(* whatever was dropped before does not matter.  A handler whose client    *)
(* stalls for good stays in WriteJSON, which has no deadline.              *)
(***************************************************************************)
Settled == test.done /\ test.seen = MaxUpdates

FinishedIsShown ==
    \A v \in Viewers :
        <>[](v \notin stalled) =>
            (Settled /\ step[v] \in {"initial", "select", "write"} ~>
                \/ step[v] = "ended" /\ (shown[v].done \/ v \in gone)
                \/ v \in dropped)
=============================================================================
