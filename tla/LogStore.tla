------------------------------ MODULE LogStore ------------------------------
(***************************************************************************)
(* The log of one job and the clients that follow it: Append with its      *)
(* wakeup, Follow with its drain loop, and the stream handler with the     *)
(* watcher that ends a follower when the job is over.  The file is its     *)
(* length in chunks and a reader is its offset, so what a client has is    *)
(* always a prefix; the question is how much of it and when.               *)
(***************************************************************************)
EXTENDS Naturals

CONSTANTS
  Follower,  \* the stream requests
  Appender,  \* the handlers that append a chunk
  MaxChunk   \* bound: chunks of the log

ASSUME LogStoreAssumption == MaxChunk \in Nat

VARIABLES
  length,    \* the chunks in the file
  append,    \* an appender between its write and its wake
  ended,     \* the job is in a terminal state
  follow,    \* a follower's goroutine: absent, drain, send, eof, select,
             \* flush, flushSend, closed
  offset,    \* what it has read
  got,       \* what the client has been sent
  wakeup,    \* its wake channel holds a token
  watch,     \* the watcher: look, settle (the 200 ms), done (closed)
  atDone,    \* history: the file's length when done was closed
  torn,      \* history: the followers that could not read the file
  client     \* reading, wedged, or gone (the request context is over)

logVars == <<length, append, ended, follow, offset, got, wakeup, watch, atDone,
             torn, client>>
followVars == <<follow, offset, got, wakeup>>

LogInit ==
  /\ length = 0
  /\ append = [a \in Appender |-> "idle"]
  /\ ended = FALSE
  /\ follow = [f \in Follower |-> "absent"]
  /\ offset = [f \in Follower |-> 0]
  /\ got = [f \in Follower |-> 0]
  /\ wakeup = [f \in Follower |-> FALSE]
  /\ watch = [f \in Follower |-> "look"]
  /\ atDone = [f \in Follower |-> 0]
  /\ torn = {}
  /\ client = [f \in Follower |-> "reading"]

Listening(f) == follow[f] \notin {"absent", "closed"}

(* Append writes the chunk ... *)
AppendWrite(a) ==
  /\ append[a] = "idle" /\ length < MaxChunk
  /\ length' = length + 1
  /\ append' = [append EXCEPT ![a] = "wake"]
  /\ UNCHANGED <<ended, followVars, watch, atDone, torn, client>>

(* A channel without a buffer: only a follower that waits is woken. *)
Woken_Unbuffered == {f \in Follower : follow[f] = "select"}

(* wake: every subscribed channel that has no token gets one. *)
Woken == {f \in Follower : Listening(f)}

(* ... and then wakes the followers. *)
AppendWake(a) ==
  /\ append[a] = "wake"
  /\ append' = [append EXCEPT ![a] = "idle"]
  /\ wakeup' = [f \in Follower |-> wakeup[f] \/ f \in Woken]
  /\ UNCHANGED <<length, ended, follow, offset, got, watch, atDone, torn, client>>

EndJob == /\ ~ended /\ ended' = TRUE
          /\ UNCHANGED <<length, append, followVars, watch, atDone, torn, client>>
-----------------------------------------------------------------------------
(* handleStreamLogs and Follow: the follower subscribes before it reads. *)
StartFollow(f) ==
  /\ follow[f] = "absent"
  /\ follow' = [follow EXCEPT ![f] = "drain"]
  /\ UNCHANGED <<length, append, ended, offset, got, wakeup, watch, atDone,
                 torn, client>>

(* drain reads some of what is there ... *)
ReadChunk(f, n) ==
  /\ follow[f] \in {"drain", "flush"} /\ offset[f] < n /\ n <= length
  /\ offset' = [offset EXCEPT ![f] = n]
  /\ follow' = [follow EXCEPT ![f] = IF @ = "drain" THEN "send" ELSE "flushSend"]
  /\ UNCHANGED <<length, append, ended, got, wakeup, watch, atDone, torn, client>>

(* ... and hands it to the handler, which writes it to the client. *)
SendChunk(f) ==
  /\ follow[f] \in {"send", "flushSend"} /\ client[f] = "reading"
  /\ got' = [got EXCEPT ![f] = offset[f]]
  /\ follow' = [follow EXCEPT ![f] = IF @ = "send" THEN "drain" ELSE "flush"]
  /\ UNCHANGED <<length, append, ended, offset, wakeup, watch, atDone, torn, client>>

(* At the end of the file drain returns; the last one ends Follow. *)
ReachEOF(f) ==
  /\ follow[f] \in {"drain", "flush"} /\ offset[f] = length
  /\ follow' = [follow EXCEPT ![f] = IF @ = "drain" THEN "eof" ELSE "closed"]
  /\ UNCHANGED <<length, append, ended, offset, got, wakeup, watch, atDone,
                 torn, client>>

(* Where the file cannot be read it returns too, and Follow ends. *)
ReadError(f) ==
  /\ follow[f] \in {"drain", "flush"}
  /\ follow' = [follow EXCEPT ![f] = "closed"]
  /\ torn' = torn \cup {f}
  /\ UNCHANGED <<length, append, ended, offset, got, wakeup, watch, atDone,
                 client>>

(* After the end of the file the loop goes on to its select. *)
EnterSelect(f) ==
  /\ follow[f] = "eof"
  /\ follow' = [follow EXCEPT ![f] = "select"]
  /\ UNCHANGED <<length, append, ended, offset, got, wakeup, watch, atDone,
                 torn, client>>

SelectWake(f) ==
  /\ follow[f] = "select" /\ wakeup[f]
  /\ wakeup' = [wakeup EXCEPT ![f] = FALSE]
  /\ follow' = [follow EXCEPT ![f] = "drain"]
  /\ UNCHANGED <<length, append, ended, offset, got, watch, atDone, torn, client>>

(* The timer of one second, set anew on each turn: nothing else was ready. *)
SelectTimer(f) ==
  /\ follow[f] = "select"
  /\ ~wakeup[f] /\ watch[f] # "done" /\ client[f] # "gone"
  /\ follow' = [follow EXCEPT ![f] = "drain"]
  /\ UNCHANGED <<length, append, ended, offset, got, wakeup, watch, atDone,
                 torn, client>>

(* What landed just before the job ended is flushed. *)
AfterDone == "flush"

SelectDone(f) ==
  /\ follow[f] = "select" /\ watch[f] = "done"
  /\ follow' = [follow EXCEPT ![f] = AfterDone]
  /\ UNCHANGED <<length, append, ended, offset, got, wakeup, watch, atDone,
                 torn, client>>

(* The request context is over: noticed in the select and in a send. *)
SeeGone(f) ==
  /\ follow[f] \in {"send", "flushSend", "select"} /\ client[f] = "gone"
  /\ follow' = [follow EXCEPT ![f] = "closed"]
  /\ UNCHANGED <<length, append, ended, offset, got, wakeup, watch, atDone,
                 torn, client>>
-----------------------------------------------------------------------------
(* The watcher looks up the job on every tick, lets trailing chunks land and *)
(* closes done.                                                              *)
WatchSees(f) ==
  /\ Listening(f) /\ watch[f] = "look" /\ ended
  /\ watch' = [watch EXCEPT ![f] = "settle"]
  /\ UNCHANGED <<length, append, ended, followVars, atDone, torn, client>>

(* It closes done after the settling time, and at once when the client is    *)
(* gone.                                                                     *)
WatchCloses(f) ==
  /\ \/ watch[f] = "settle"
     \/ watch[f] = "look" /\ client[f] = "gone"
  /\ watch' = [watch EXCEPT ![f] = "done"]
  /\ atDone' = [atDone EXCEPT ![f] = length]
  /\ UNCHANGED <<length, append, ended, followVars, torn, client>>

(* The client stops reading without closing its connection. *)
Wedge(f) ==
  /\ Listening(f) /\ client[f] = "reading"
  /\ client' = [client EXCEPT ![f] = "wedged"]
  /\ UNCHANGED <<length, append, ended, followVars, watch, atDone, torn>>

Leave(f) ==
  /\ Listening(f) /\ client[f] = "reading"
  /\ client' = [client EXCEPT ![f] = "gone"]
  /\ UNCHANGED <<length, append, ended, followVars, watch, atDone, torn>>

(* Writes have no deadline. *)
WriteDeadline_None(f) == FALSE /\ UNCHANGED logVars

(* logWriteTimeout: a write that is not taken ends the handler, and with it  *)
(* the request context.                                                      *)
WriteDeadline(f) ==
  /\ follow[f] \in {"send", "flushSend"} /\ client[f] = "wedged"
  /\ client' = [client EXCEPT ![f] = "gone"]
  /\ UNCHANGED <<length, append, ended, followVars, watch, atDone, torn>>

(* What the controller's own goroutines do. *)
FollowStep(f) ==
  \/ \E n \in 1..length : ReadChunk(f, n)
  \/ SendChunk(f) \/ ReachEOF(f) \/ EnterSelect(f) \/ SelectWake(f)
  \/ SelectDone(f) \/ SeeGone(f)

WatchStep(f) == WatchSees(f) \/ WatchCloses(f) \/ WriteDeadline(f)

LogNext ==
  \/ \E a \in Appender : AppendWrite(a) \/ AppendWake(a)
  \/ EndJob
  \/ \E f \in Follower : \/ StartFollow(f) \/ FollowStep(f) \/ SelectTimer(f)
                         \/ ReadError(f)
                         \/ WatchStep(f) \/ Wedge(f) \/ Leave(f)

LogSpec ==
  /\ LogInit /\ [][LogNext]_logVars
  /\ WF_logVars(\E a \in Appender : AppendWake(a))
  /\ \A f \in Follower : WF_logVars(FollowStep(f)) /\ WF_logVars(WatchStep(f))
-----------------------------------------------------------------------------
(* A follower never waits for its timer while there is something to read:    *)
(* then its channel holds a token, or the appender that wrote it is about to *)
(* wake it.  (subscribe before drain, and a channel of one.)                 *)
NoMissedWakeup ==
  \A f \in Follower :
    follow[f] = "select" /\ offset[f] < length
      => wakeup[f] \/ \E a \in Appender : append[a] = "wake"

(* A stream that ends because the job did has carried everything that was    *)
(* in the log when the handler gave up waiting for more; unless it could not *)
(* read the file.                                                            *)
FlushedAtEnd ==
  \A f \in Follower \ torn :
    follow[f] = "closed" /\ client[f] # "gone" => got[f] >= atDone[f]

(* A follower of a log misses nothing: no chunk while it waits, and none at  *)
(* the end of the job.  (subscribe, wake and the last drain of Follow.)      *)
NothingMissed == NoMissedWakeup /\ FlushedAtEnd

(* Once the job is over every stream ends, and with it its subscription,     *)
(* whatever its client does.  (The watcher, the write deadline.)             *)
StreamEnds == ended ~> \A f \in Follower : ~Listening(f)
=============================================================================
