------------------------------- MODULE Events -------------------------------
(***************************************************************************)
(* The event stream to the dashboards (server/events.go).  A handler that  *)
(* has changed something publishes; the broadcaster puts the event into    *)
(* the buffer of every subscriber that has room and drops it for the       *)
(* others.  A dashboard (dashboard/index.html) reads the whole state, then *)
(* connects, and reads it again a moment after an event and on a timer of  *)
(* its own; so what an event says does not matter, only that it comes.     *)
(*                                                                         *)
(* Reads may overlap, and an answer that a later one has overtaken is      *)
(* rendered over it, until the next read.  The model does not go that far: *)
(* it follows the newest state that was read for the page.                 *)
(***************************************************************************)
EXTENDS Naturals

CONSTANTS
  Subscriber,  \* event streams
  Publisher,   \* handlers and loops that publish
  Buffer,      \* the capacity of a subscriber's channel
  MaxVersion   \* bound: changes

ASSUME EventsAssumption == Buffer \in Nat \ {0} /\ MaxVersion \in Nat

VARIABLES
  version,     \* numbers the states; 1 is the first
  publishing,  \* publishers between their commit and their publish
  stream,      \* a stream: absent, select, write, ping, over
  buffered,    \* the events in its channel
  posted,      \* history: the state when an event was last published to it
  nudged,      \* the page's nudgePending: a refetch is due in 250 ms
  fetch,       \* its read of the state: none, sent, read (and on its way back)
  shown,       \* the newest state that was read for it; 0 is none yet
  missed,      \* history: its last read failed, which leaves it to the timer
  peer         \* the dashboard: reading, wedged, gone

pageVars == <<nudged, fetch, shown, missed>>
serverVars == <<version, publishing, stream, buffered, posted>>
eventVars == <<version, publishing, stream, buffered, posted, nudged, fetch, shown,
               missed, peer>>

(* start(): the first refresh is on its way. *)
EventsInit ==
  /\ version = 1 /\ publishing = {}
  /\ stream = [s \in Subscriber |-> "absent"]
  /\ buffered = [s \in Subscriber |-> 0]
  /\ posted = [s \in Subscriber |-> 0]
  /\ nudged = [s \in Subscriber |-> FALSE]
  /\ fetch = [s \in Subscriber |-> "sent"]
  /\ shown = [s \in Subscriber |-> 0]
  /\ missed = [s \in Subscriber |-> FALSE]
  /\ peer = [s \in Subscriber |-> "reading"]

(* Something changes that its handler publishes. *)
Change(p) ==
  /\ p \notin publishing /\ version < MaxVersion
  /\ version' = version + 1
  /\ publishing' = publishing \cup {p}
  /\ UNCHANGED <<stream, buffered, posted, pageVars, peer>>

Subscribed(s) == stream[s] \in {"select", "write", "ping"}

(* It is dropped for a reader whose channel is full. *)
Buffered(s) == IF buffered[s] < Buffer THEN buffered[s] + 1 ELSE buffered[s]

(* publish, under the broadcaster's lock; it never waits. *)
Publish(p) ==
  /\ p \in publishing
  /\ publishing' = publishing \ {p}
  /\ buffered' = [s \in Subscriber |->
                    IF Subscribed(s) THEN Buffered(s) ELSE buffered[s]]
  /\ posted' = [s \in Subscriber |-> IF Subscribed(s) THEN version ELSE posted[s]]
  /\ UNCHANGED <<version, stream, pageVars, peer>>

(* publishDevices: nobody was subscribed when it looked, or its read of the  *)
(* devices failed.  Nothing is published.                                    *)
SkipPublish(p) ==
  /\ p \in publishing
  /\ publishing' = publishing \ {p}
  /\ UNCHANGED <<version, stream, buffered, posted, pageVars, peer>>

(* The page connects once it has a state to render; handleEvents subscribes  *)
(* and flushes its headers.  Nothing is read again at this point.            *)
Subscribe(s) ==
  /\ stream[s] = "absent" /\ fetch[s] = "none" /\ shown[s] > 0 /\ ~missed[s]
  /\ stream' = [stream EXCEPT ![s] = "select"]
  /\ UNCHANGED <<version, publishing, buffered, posted, pageVars, peer>>

(* An event is taken from the channel and its frame written. *)
TakeEvent(s) ==
  /\ stream[s] = "select" /\ buffered[s] > 0
  /\ buffered' = [buffered EXCEPT ![s] = @ - 1]
  /\ stream' = [stream EXCEPT ![s] = "write"]
  /\ UNCHANGED <<version, publishing, posted, pageVars, peer>>

(* A stream without events writes nothing. *)
Keepalive_None(s) == FALSE

(* The ticker of twenty seconds. *)
Keepalive(s) == stream[s] = "select"

WriteKeepalive(s) ==
  /\ Keepalive(s)
  /\ stream' = [stream EXCEPT ![s] = "ping"]
  /\ UNCHANGED <<version, publishing, buffered, posted, pageVars, peer>>

(* A read under way is taken to cover the event. *)
Nudge_Idle(s) == nudged[s] \/ fetch[s] = "none"

(* nudge(): a refetch is due, whatever else the page is doing. *)
Nudge(s) == TRUE

(* The frame arrives; onmessage nudges, a comment does nothing. *)
WriteFrame(s) ==
  /\ stream[s] \in {"write", "ping"} /\ peer[s] = "reading"
  /\ nudged' = [nudged EXCEPT ![s] = IF stream[s] = "write" THEN Nudge(s) ELSE @]
  /\ stream' = [stream EXCEPT ![s] = "select"]
  /\ UNCHANGED <<version, publishing, buffered, posted, fetch, shown, missed, peer>>

(* The timer of nudge: the flag goes first, then refresh is called.          *)
NudgeFires(s) ==
  /\ nudged[s] /\ peer[s] = "reading"
  /\ nudged' = [nudged EXCEPT ![s] = FALSE]
  /\ fetch' = [fetch EXCEPT ![s] = "sent"]
  /\ UNCHANGED <<serverVars, shown, missed, peer>>

(* The page's own timer of five seconds, whatever is on its way. *)
PollTick(s) ==
  /\ fetch[s] # "sent" /\ peer[s] = "reading"
  /\ fetch' = [fetch EXCEPT ![s] = "sent"]
  /\ UNCHANGED <<serverVars, nudged, shown, missed, peer>>

(* /v1/state is read at the controller ... *)
FetchReads(s) ==
  /\ fetch[s] = "sent"
  /\ fetch' = [fetch EXCEPT ![s] = "read"]
  /\ shown' = [shown EXCEPT ![s] = version]
  /\ missed' = [missed EXCEPT ![s] = FALSE]
  /\ UNCHANGED <<serverVars, nudged, peer>>

(* ... and rendered ... *)
FetchReturns(s) ==
  /\ fetch[s] = "read"
  /\ fetch' = [fetch EXCEPT ![s] = "none"]
  /\ UNCHANGED <<serverVars, nudged, shown, missed, peer>>

(* ... or not: refresh says so and keeps what it has. *)
FetchFails(s) ==
  /\ fetch[s] # "none"
  /\ fetch' = [fetch EXCEPT ![s] = "none"]
  /\ missed' = [missed EXCEPT ![s] = TRUE]
  /\ UNCHANGED <<serverVars, nudged, shown, peer>>

Unsubscribes(s) == /\ stream' = [stream EXCEPT ![s] = "over"]
                   /\ buffered' = [buffered EXCEPT ![s] = 0]

(* eventWriteTimeout: a frame the peer does not take ends the handler, and   *)
(* its deferred unsubscribe runs.                                            *)
WriteTimeout(s) ==
  /\ stream[s] \in {"write", "ping"} /\ peer[s] # "reading"
  /\ Unsubscribes(s)
  /\ UNCHANGED <<version, publishing, posted, pageVars, peer>>

(* The request context is over. *)
SeePeerGone(s) ==
  /\ stream[s] = "select" /\ peer[s] = "gone"
  /\ Unsubscribes(s)
  /\ UNCHANGED <<version, publishing, posted, pageVars, peer>>

(* The peer closes, or falls silent without closing. *)
PeerLeaves(s, how) ==
  /\ Subscribed(s) /\ peer[s] = "reading"
  /\ peer' = [peer EXCEPT ![s] = how]
  /\ UNCHANGED <<serverVars, pageVars>>

StreamStep(s) == \/ TakeEvent(s) \/ WriteKeepalive(s) \/ WriteFrame(s)
                 \/ WriteTimeout(s) \/ SeePeerGone(s)

PageStep(s) == \/ NudgeFires(s) \/ PollTick(s) \/ FetchReads(s)
               \/ FetchReturns(s) \/ FetchFails(s)

EventsNext ==
  \/ \E p \in Publisher : Change(p) \/ Publish(p) \/ SkipPublish(p)
  \/ \E s \in Subscriber : \/ Subscribe(s) \/ StreamStep(s) \/ PageStep(s)
                           \/ \E how \in {"wedged", "gone"} : PeerLeaves(s, how)

EventsSpec == /\ EventsInit /\ [][EventsNext]_eventVars
              /\ \A s \in Subscriber : WF_eventVars(StreamStep(s))
-----------------------------------------------------------------------------
(* Dropping an event, and coalescing those that arrive, costs a dashboard    *)
(* nothing: if the last event published to it is newer than the state last   *)
(* read for it, then an event is in its channel or on its way, or a refetch  *)
(* is due, or one is on its way that has not been answered; or the last one  *)
(* failed, and the page waits for its timer.  (broadcaster.publish, nudge.)  *)
DropIsHarmless ==
  \A s \in Subscriber :
    Subscribed(s) /\ peer[s] = "reading" /\ shown[s] < posted[s] =>
      \/ buffered[s] > 0 \/ stream[s] = "write"
      \/ nudged[s] \/ fetch[s] = "sent" \/ missed[s]

(* A dashboard that has left, or only stopped reading, does not keep its     *)
(* subscription and its goroutine for ever, event or no event.               *)
NoLeakedStream ==
  \A s \in Subscriber : peer[s] # "reading" ~> ~Subscribed(s)
=============================================================================
