--------------------------- MODULE ServicesProofs ---------------------------
(***************************************************************************)
(* Proofs about the services around the allocation core, one after the     *)
(* other: the long poll (LongPoll), the event streams (Events), the log    *)
(* store (LogStore) and the commands that submit a job and watch over it   *)
(* (RunClient).  Each part stands alone; no theorem of one uses another.   *)
(***************************************************************************)
EXTENDS LongPoll, Events, LogStore, RunClient, TLAPS
-----------------------------------------------------------------------------
(***************************************************************************)
(* Proofs about LongPoll, for any number of handlers, pokers and items.    *)
(* HandedOutOnce needs that what is still open was handed to nobody;       *)
(* NoLostPoke has to hold from the empty read on, before the select.       *)
(***************************************************************************)
PollTyped ==
  /\ items \in 0..MaxItem
  /\ open \subseteq 1..items
  /\ poking \in [Poker -> 0..items]
  /\ poll \in [PollHandler ->
                 {"absent", "read", "empty", "select", "mark", "found"}]
  /\ carries \in [PollHandler -> SUBSET (1..items)]
  /\ woken \in [PollHandler -> BOOLEAN]
  /\ delivered \in [1..MaxItem -> Nat]

(* Nothing that is open, or still to come, has been delivered, and what a    *)
(* handler has marked is open no more.                                       *)
Undelivered ==
  /\ \A i \in 1..MaxItem : i \in open \/ i > items => delivered[i] = 0
  /\ \A h \in PollHandler : poll[h] = "found" => carries[h] \cap open = {}

(* What the handler that the worker still listens to carries is new to it. *)
LiveCarriesNew ==
  \A h \in PollHandler : live = h /\ poll[h] \in {"mark", "found"} =>
    \A i \in carries[h] : delivered[i] = 0

(* From the empty read on, whatever is open comes with a token or a poke. *)
Announced ==
  \A h \in PollHandler : poll[h] \in {"empty", "select"} =>
    \A i \in open \ unpoked : woken[h] \/ \E p \in Poker : poking[p] = i

PollInv == /\ PollTyped /\ Undelivered /\ LiveCarriesNew /\ Announced
           /\ HandedOutOnce

(* At the start there is no work and no poll. *)
LEMMA PollInitInv == PollInit => PollInv
  BY LongPollAssumption
  DEF PollInit, PollInv, PollTyped, Undelivered, LiveCarriesNew, Announced,
      HandedOutOnce

(* Every step of a submit, a pass, a poll handler or the worker preserves    *)
(* the invariant.                                                            *)
LEMMA PollNextInv == PollInv /\ [PollNext]_pollVars => PollInv'
  <1> SUFFICES ASSUME PollInv, [PollNext]_pollVars PROVE PollInv'
    OBVIOUS
  <1> USE LongPollAssumption DEF PollInv, workVars
  <1>1. ASSUME NEW p \in Poker, Commit(p) PROVE PollInv'
    <2>1. PollTyped'
      BY <1>1 DEF Commit, PollTyped
    <2>2. Undelivered'
      BY <1>1 DEF Commit, PollTyped, Undelivered
    <2>3. LiveCarriesNew' /\ HandedOutOnce'
      BY <1>1 DEF Commit, LiveCarriesNew, HandedOutOnce
    <2>4. Announced'
      <3> SUFFICES ASSUME NEW h \in PollHandler,
                          poll[h] \in {"empty", "select"},
                          NEW i \in open' \ unpoked, ~woken[h]
                   PROVE  \E q \in Poker : poking'[q] = i
        BY <1>1 DEF Commit, Announced
      <3>1. CASE i = items + 1
        BY <1>1, <3>1 DEF Commit, PollTyped
      <3>2. CASE i \in open
        <4>1. PICK q \in Poker : poking[q] = i
          BY <3>2 DEF Announced
        <4>2. q # p
          BY <1>1, <3>2, <4>1 DEF Commit, PollTyped
        <4> QED BY <1>1, <4>1, <4>2 DEF Commit, PollTyped
      <3> QED BY <1>1, <3>1, <3>2 DEF Commit
    <2> QED BY <2>1, <2>2, <2>3, <2>4
  <1>2. ASSUME NEW p \in Poker, Poke(p) PROVE PollInv'
    <2>1. PollTyped'
      BY <1>2 DEF Poke, PollTyped
    <2>2. Undelivered' /\ LiveCarriesNew' /\ HandedOutOnce'
      BY <1>2 DEF Poke, Undelivered, LiveCarriesNew, HandedOutOnce
    <2>3. Announced'
      BY <1>2 DEF Poke, Waiters, Announced, PollTyped
    <2> QED BY <2>1, <2>2, <2>3
  <1>3. ASSUME NEW p \in Poker, PassFails(p) PROVE PollInv'
    <2>1. PollTyped'
      BY <1>3 DEF PassFails, PollTyped
    <2>2. Undelivered' /\ LiveCarriesNew' /\ HandedOutOnce'
      BY <1>3 DEF PassFails, Undelivered, LiveCarriesNew, HandedOutOnce
    <2>3. Announced'
      <3> SUFFICES ASSUME NEW h \in PollHandler,
                          poll[h] \in {"empty", "select"},
                          NEW i \in open \ unpoked', ~woken[h]
                   PROVE  \E q \in Poker : poking'[q] = i
        BY <1>3 DEF PassFails, Announced
      <3>1. PICK q \in Poker : poking[q] = i
        BY <1>3 DEF PassFails, Announced
      <3>2. q # p
        BY <1>3, <3>1 DEF PassFails
      <3> QED BY <1>3, <3>1, <3>2 DEF PassFails, PollTyped
    <2> QED BY <2>1, <2>2, <2>3
  <1>4. CASE DropPoll
    BY <1>4 DEF DropPoll, PollTyped, Undelivered, LiveCarriesNew, Announced,
                HandedOutOnce
  <1>5. ASSUME NEW h \in PollHandler, StartPoll(h) PROVE PollInv'
    BY <1>5 DEF StartPoll, PollTyped, Undelivered, LiveCarriesNew, Announced,
                HandedOutOnce
  <1>6. ASSUME NEW h \in PollHandler, ReadItems(h) PROVE PollInv'
    BY <1>6 DEF ReadItems, PollTyped, Undelivered, LiveCarriesNew, Announced,
                HandedOutOnce
  <1>7. ASSUME NEW h \in PollHandler, ParkPoll(h) PROVE PollInv'
    BY <1>7 DEF ParkPoll, PollTyped, Undelivered, LiveCarriesNew, Announced,
                HandedOutOnce
  <1>8. ASSUME NEW h \in PollHandler, MarkItems(h) PROVE PollInv'
    <2>1. PollTyped'
      BY <1>8 DEF MarkItems, PollTyped
    <2>2. Undelivered'
      BY <1>8 DEF MarkItems, PollTyped, Undelivered
    <2>3. LiveCarriesNew' /\ Announced' /\ HandedOutOnce'
      BY <1>8 DEF MarkItems, PollTyped, LiveCarriesNew, Announced, HandedOutOnce
    <2> QED BY <2>1, <2>2, <2>3
  <1>9. ASSUME NEW h \in PollHandler, AnswerPoll(h) PROVE PollInv'
    <2>1. PollTyped'
      BY <1>9 DEF AnswerPoll, Ends, PollTyped
    <2>2. \A i \in 1..MaxItem :
            \/ delivered'[i] = delivered[i]
            \/ live = h /\ i \in carries[h] /\ delivered'[i] = delivered[i] + 1
      BY <1>9 DEF AnswerPoll, PollTyped
    <2>3. Undelivered'
      BY <1>9, <2>2 DEF AnswerPoll, Ends, PollTyped, Undelivered
    <2>4. LiveCarriesNew'
      <3>1. CASE live = h
        BY <1>9, <3>1 DEF AnswerPoll, Ends, LiveCarriesNew
      <3>2. CASE live # h
        BY <1>9, <2>2, <3>2 DEF AnswerPoll, Ends, LiveCarriesNew, PollTyped
      <3> QED BY <3>1, <3>2
    <2>5. Announced'
      BY <1>9 DEF AnswerPoll, Ends, Announced, PollTyped
    <2>6. HandedOutOnce'
      BY <1>9, <2>2 DEF AnswerPoll, LiveCarriesNew, HandedOutOnce
    <2> QED BY <2>1, <2>3, <2>4, <2>5, <2>6
  <1>10. ASSUME NEW h \in PollHandler, WakePoll(h) PROVE PollInv'
    BY <1>10 DEF WakePoll, PollTyped, Undelivered, LiveCarriesNew, Announced,
                 HandedOutOnce
  <1>11. ASSUME NEW h \in PollHandler, LeavePoll(h) PROVE PollInv'
    BY <1>11 DEF LeavePoll, Ends, PollTyped, Undelivered, LiveCarriesNew,
                 Announced, HandedOutOnce
  <1>12. CASE UNCHANGED pollVars
    BY <1>12 DEF pollVars, PollTyped, Undelivered, LiveCarriesNew, Announced,
                 HandedOutOnce
  <1> QED
    BY <1>1, <1>2, <1>3, <1>4, <1>5, <1>6, <1>7, <1>8, <1>9, <1>10, <1>11,
       <1>12 DEF PollNext, PollStep

(* The invariant holds of every reachable state. *)
THEOREM PollInvHolds == PollSpec => []PollInv
  BY PollInitInv, PollNextInv, PTL DEF PollSpec

(* No job is handed to a worker twice, however many handlers of broken polls *)
(* are parked beside the live one (handleAssignments, MarkRunning).          *)
THEOREM NoSecondDelivery == PollSpec => []HandedOutOnce
  <1>1. PollInv => HandedOutOnce
    BY DEF PollInv
  <1> QED BY PollInvHolds, <1>1, PTL

(* No parked poll sleeps through a job that was assigned and poked for       *)
(* (notifier.wait before the first read, Poke).                              *)
THEOREM NoPokeIsLost == PollSpec => []NoLostPoke
  <1>1. PollInv => NoLostPoke
    BY DEF PollInv, Announced, NoLostPoke
  <1> QED BY PollInvHolds, <1>1, PTL
-----------------------------------------------------------------------------
(***************************************************************************)
(* Proofs about Events, for any number of streams and publishers and any   *)
(* buffer of at least one event.                                           *)
(***************************************************************************)
EventsTyped ==
  /\ version \in Nat
  /\ publishing \subseteq Publisher
  /\ stream \in [Subscriber -> {"absent", "select", "write", "ping", "over"}]
  /\ buffered \in [Subscriber -> 0..Buffer]
  /\ posted \in [Subscriber -> 0..version] /\ shown \in [Subscriber -> 0..version]
  /\ fetch \in [Subscriber -> {"none", "sent", "read"}]
  /\ DOMAIN nudged = Subscriber /\ DOMAIN missed = Subscriber
  /\ peer \in [Subscriber -> {"reading", "wedged", "gone"}]

(* Nothing has been published to a page that has not connected. *)
NothingPosted == \A s \in Subscriber : stream[s] = "absent" => posted[s] = 0

EventsInv == EventsTyped /\ NothingPosted /\ DropIsHarmless

(* No step of a publisher or a stream breaks the invariant. *)
LEMMA ServerKeeps ==
  ASSUME EventsInv,
         \/ \E p \in Publisher : Change(p) \/ Publish(p) \/ SkipPublish(p)
         \/ \E s \in Subscriber : Subscribe(s) \/ StreamStep(s)
  PROVE  EventsInv'
  <1> USE EventsAssumption DEF EventsInv, Subscribed, pageVars
  <1>1. ASSUME NEW p \in Publisher, Change(p) PROVE EventsInv'
    BY <1>1 DEF Change, EventsTyped, NothingPosted, DropIsHarmless
  <1>2. ASSUME NEW p \in Publisher, Publish(p) PROVE EventsInv'
    <2>1. \A s \in Subscriber : /\ Buffered(s) \in 0..Buffer
                                /\ Buffered(s) > 0
      BY DEF Buffered, EventsTyped
    <2>2. EventsTyped' /\ NothingPosted'
      BY <1>2, <2>1 DEF Publish, EventsTyped, NothingPosted
    <2>3. DropIsHarmless'
      BY <1>2, <2>1 DEF Publish, EventsTyped, DropIsHarmless
    <2> QED BY <2>2, <2>3
  <1>3. ASSUME NEW p \in Publisher, SkipPublish(p) PROVE EventsInv'
    BY <1>3 DEF SkipPublish, EventsTyped, NothingPosted, DropIsHarmless
  <1>4. ASSUME NEW s \in Subscriber, Subscribe(s) PROVE EventsInv'
    BY <1>4 DEF Subscribe, EventsTyped, NothingPosted, DropIsHarmless
  <1>5. ASSUME NEW s \in Subscriber, TakeEvent(s) PROVE EventsInv'
    BY <1>5 DEF TakeEvent, EventsTyped, NothingPosted, DropIsHarmless
  <1>6. ASSUME NEW s \in Subscriber, WriteKeepalive(s) PROVE EventsInv'
    BY <1>6
    DEF WriteKeepalive, Keepalive, EventsTyped, NothingPosted, DropIsHarmless
  <1>7. ASSUME NEW s \in Subscriber, WriteFrame(s) PROVE EventsInv'
    <2>1. EventsTyped' /\ NothingPosted'
      BY <1>7 DEF WriteFrame, EventsTyped, NothingPosted
    <2>2. /\ stream[s] = "write" => nudged'[s]
          /\ stream[s] # "write" => nudged'[s] = nudged[s]
          /\ \A t \in Subscriber \ {s} : /\ nudged'[t] = nudged[t]
                                         /\ stream'[t] = stream[t]
      BY <1>7 DEF WriteFrame, Nudge, EventsTyped
    <2>3. stream[s] \in {"write", "ping"}
          /\ UNCHANGED <<buffered, posted, fetch, shown, missed, peer>>
      BY <1>7 DEF WriteFrame
    <2>4. DropIsHarmless'
      BY <2>2, <2>3 DEF DropIsHarmless
    <2> QED BY <2>1, <2>4
  <1>8. ASSUME NEW s \in Subscriber, WriteTimeout(s) \/ SeePeerGone(s)
        PROVE  EventsInv'
    BY <1>8 DEF WriteTimeout, SeePeerGone, Unsubscribes, EventsTyped,
                NothingPosted, DropIsHarmless
  <1> QED
    BY <1>1, <1>2, <1>3, <1>4, <1>5, <1>6, <1>7, <1>8 DEF StreamStep

(* Nor does one of a page. *)
LEMMA PageKeeps ==
  ASSUME EventsInv, NEW s \in Subscriber,
         PageStep(s) \/ \E how \in {"wedged", "gone"} : PeerLeaves(s, how)
  PROVE  EventsInv'
  <1> USE EventsAssumption DEF EventsInv, Subscribed, serverVars, pageVars
  <1>1. CASE NudgeFires(s)
    BY <1>1 DEF NudgeFires, EventsTyped, NothingPosted, DropIsHarmless
  <1>2. CASE PollTick(s)
    BY <1>2 DEF PollTick, EventsTyped, NothingPosted, DropIsHarmless
  <1>3. CASE FetchReads(s)
    <2>1. EventsTyped' /\ NothingPosted'
      BY <1>3 DEF FetchReads, EventsTyped, NothingPosted
    <2>2. ~(shown'[s] < posted'[s])
      BY <1>3 DEF FetchReads, EventsTyped
    <2>3. \A t \in Subscriber \ {s} : /\ fetch'[t] = fetch[t]
                                      /\ shown'[t] = shown[t]
                                      /\ missed'[t] = missed[t]
      BY <1>3 DEF FetchReads, EventsTyped
    <2>4. UNCHANGED <<stream, buffered, posted, nudged, peer>>
      BY <1>3 DEF FetchReads
    <2>5. DropIsHarmless'
      BY <2>2, <2>3, <2>4 DEF DropIsHarmless
    <2> QED BY <2>1, <2>5
  <1>4. CASE FetchReturns(s)
    BY <1>4 DEF FetchReturns, EventsTyped, NothingPosted, DropIsHarmless
  <1>5. CASE FetchFails(s)
    BY <1>5 DEF FetchFails, EventsTyped, NothingPosted, DropIsHarmless
  <1>6. ASSUME NEW how \in {"wedged", "gone"}, PeerLeaves(s, how) PROVE EventsInv'
    BY <1>6 DEF PeerLeaves, EventsTyped, NothingPosted, DropIsHarmless
  <1> QED BY <1>1, <1>2, <1>3, <1>4, <1>5, <1>6 DEF PageStep

(* A dashboard to which an event was published that is newer than what was   *)
(* last read for it has an event or a refetch coming, whatever publish has   *)
(* dropped and nudge has coalesced, unless its last refetch failed           *)
(* (broadcaster, nudge, refresh).                                            *)
THEOREM DropsCostNothing == EventsSpec => []DropIsHarmless
  <1>1. EventsInit => EventsInv
    BY EventsAssumption
    DEF EventsInit, EventsInv, EventsTyped, NothingPosted, DropIsHarmless,
        Subscribed
  <1>2. ASSUME EventsInv, [EventsNext]_eventVars PROVE EventsInv'
    <2>1. CASE EventsNext
      BY <1>2, <2>1, ServerKeeps, PageKeeps DEF EventsNext
    <2>2. CASE UNCHANGED eventVars
      BY <1>2, <2>2 DEF eventVars, EventsInv, EventsTyped, NothingPosted,
                        DropIsHarmless, Subscribed
    <2> QED BY <1>2, <2>1, <2>2
  <1>3. EventsInv => DropIsHarmless
    BY DEF EventsInv
  <1> QED BY <1>1, <1>2, <1>3, PTL DEF EventsSpec
-----------------------------------------------------------------------------
(***************************************************************************)
(* Proofs about LogStore, for any number of followers and appenders and    *)
(* any length of the log.  NoMissedWakeup has to hold from the end of file *)
(* on, before the select; FlushedAtEnd needs that a follower only closes   *)
(* after a flush that came after done, unless its client is gone.          *)
(***************************************************************************)
LogTyped ==
  /\ length \in Nat
  /\ append \in [Appender -> {"idle", "wake"}]
  /\ follow \in [Follower -> {"absent", "drain", "send", "eof", "select",
                              "flush", "flushSend", "closed"}]
  /\ offset \in [Follower -> Nat] /\ got \in [Follower -> Nat]
  /\ wakeup \in [Follower -> BOOLEAN]
  /\ watch \in [Follower -> {"look", "settle", "done"}]
  /\ atDone \in [Follower -> Nat]
  /\ client \in [Follower -> {"reading", "wedged", "gone"}]

(* Offsets stay within the file, and outside a send the client has all that  *)
(* was read.                                                                 *)
WithinFile ==
  \A f \in Follower :
    /\ offset[f] <= length /\ atDone[f] <= length
    /\ follow[f] \in {"absent", "drain", "eof", "select", "flush"} =>
         got[f] = offset[f]

(* A flush comes after done, and a follower that closed with its client      *)
(* there, and its file readable, has flushed.                                *)
FlushAfterDone ==
  \A f \in Follower :
    /\ follow[f] \in {"flush", "flushSend"} => watch[f] = "done"
    /\ follow[f] = "closed" /\ client[f] # "gone" /\ f \notin torn =>
         watch[f] = "done" /\ got[f] >= atDone[f]

(* From the end of file on, whatever is new comes with a token or a wake. *)
Awaited ==
  \A f \in Follower :
    follow[f] \in {"eof", "select"} /\ offset[f] < length
      => wakeup[f] \/ \E a \in Appender : append[a] = "wake"

LogInv == LogTyped /\ WithinFile /\ FlushAfterDone /\ Awaited

(* At the start there is no log and no follower. *)
LEMMA LogInitInv == LogInit => LogInv
  BY DEF LogInit, LogInv, LogTyped, WithinFile, FlushAfterDone, Awaited

(* A step of an appender, a follower, a watcher or a client keeps the        *)
(* invariant.                                                                *)
LEMMA LogNextInv == LogInv /\ [LogNext]_logVars => LogInv'
  <1> SUFFICES ASSUME LogInv, [LogNext]_logVars PROVE LogInv'
    OBVIOUS
  <1> USE DEF LogInv, followVars, Listening
  <1>1. ASSUME NEW a \in Appender, AppendWrite(a) PROVE LogInv'
    BY <1>1 DEF AppendWrite, LogTyped, WithinFile, FlushAfterDone, Awaited
  <1>2. ASSUME NEW a \in Appender, AppendWake(a) PROVE LogInv'
    BY <1>2 DEF AppendWake, Woken, LogTyped, WithinFile, FlushAfterDone, Awaited
  <1>3. CASE EndJob
    BY <1>3 DEF EndJob, LogTyped, WithinFile, FlushAfterDone, Awaited
  <1>4. ASSUME NEW f \in Follower, StartFollow(f) PROVE LogInv'
    BY <1>4 DEF StartFollow, LogTyped, WithinFile, FlushAfterDone, Awaited
  <1>5. ASSUME NEW f \in Follower, NEW n \in 1..length, ReadChunk(f, n)
        PROVE  LogInv'
    BY <1>5 DEF ReadChunk, LogTyped, WithinFile, FlushAfterDone, Awaited
  <1>6. ASSUME NEW f \in Follower, SendChunk(f) PROVE LogInv'
    BY <1>6 DEF SendChunk, LogTyped, WithinFile, FlushAfterDone, Awaited
  <1>7. ASSUME NEW f \in Follower, ReachEOF(f) PROVE LogInv'
    <2>1. LogTyped' /\ Awaited'
      BY <1>7 DEF ReachEOF, LogTyped, Awaited
    <2>2. WithinFile' /\ FlushAfterDone'
      BY <1>7 DEF ReachEOF, LogTyped, WithinFile, FlushAfterDone
    <2> QED BY <2>1, <2>2
  <1>8. ASSUME NEW f \in Follower, EnterSelect(f) \/ SelectTimer(f) PROVE LogInv'
    BY <1>8 DEF EnterSelect, SelectTimer, LogTyped, WithinFile, FlushAfterDone,
                Awaited
  <1>9. ASSUME NEW f \in Follower, SelectWake(f) PROVE LogInv'
    BY <1>9 DEF SelectWake, LogTyped, WithinFile, FlushAfterDone, Awaited
  <1>10. ASSUME NEW f \in Follower, SelectDone(f) PROVE LogInv'
    BY <1>10 DEF SelectDone, AfterDone, LogTyped, WithinFile, FlushAfterDone,
                 Awaited
  <1>11. ASSUME NEW f \in Follower, SeeGone(f) PROVE LogInv'
    BY <1>11 DEF SeeGone, LogTyped, WithinFile, FlushAfterDone, Awaited
  <1>12. ASSUME NEW f \in Follower, WatchSees(f) PROVE LogInv'
    BY <1>12 DEF WatchSees, LogTyped, WithinFile, FlushAfterDone, Awaited
  <1>13. ASSUME NEW f \in Follower, WatchCloses(f) PROVE LogInv'
    BY <1>13 DEF WatchCloses, LogTyped, WithinFile, FlushAfterDone, Awaited
  <1>14. ASSUME NEW f \in Follower, Wedge(f) \/ Leave(f) \/ WriteDeadline(f)
         PROVE  LogInv'
    BY <1>14 DEF Wedge, Leave, WriteDeadline, LogTyped, WithinFile,
                 FlushAfterDone, Awaited
  <1>15. ASSUME NEW f \in Follower, ReadError(f) PROVE LogInv'
    BY <1>15 DEF ReadError, LogTyped, WithinFile, FlushAfterDone, Awaited
  <1>16. CASE UNCHANGED logVars
    BY <1>16 DEF logVars, LogTyped, WithinFile, FlushAfterDone, Awaited
  <1> QED
    BY <1>1, <1>2, <1>3, <1>4, <1>5, <1>6, <1>7, <1>8, <1>9, <1>10, <1>11,
       <1>12, <1>13, <1>14, <1>15, <1>16 DEF LogNext, FollowStep, WatchStep

(* The invariant holds of every reachable state. *)
THEOREM LogInvHolds == LogSpec => []LogInv
  BY LogInitInv, LogNextInv, PTL DEF LogSpec

(* No follower waits for its timer while there is something to read          *)
(* (subscribe before drain, wake).                                           *)
THEOREM WakeupsArrive == LogSpec => []NoMissedWakeup
  <1>1. LogInv => NoMissedWakeup
    BY DEF LogInv, Awaited, NoMissedWakeup
  <1> QED BY LogInvHolds, <1>1, PTL

(* A stream that ended with its job, and could read its file, carried the    *)
(* whole log (Follow).                                                       *)
THEOREM EndIsFlushed == LogSpec => []FlushedAtEnd
  <1>1. LogInv => FlushedAtEnd
    BY DEF LogInv, FlushAfterDone, FlushedAtEnd
  <1> QED BY LogInvHolds, <1>1, PTL

(* A follower of a log misses nothing, for any number of followers and       *)
(* appenders (subscribe, wake, Follow).                                      *)
THEOREM FollowersMissNothing == LogSpec => []NothingMissed
  <1> QED BY WakeupsArrive, EndIsFlushed, PTL DEF NothingMissed
-----------------------------------------------------------------------------
(***************************************************************************)
(* Proofs about RunClient, for any limits on failed polls and any exit     *)
(* codes: what rc run and rc hold say and do about their job.              *)
(***************************************************************************)
(* Where a kill is being asked for, or its answer dealt with. *)
Asking == {"cancel", "release", "cancelling", "killing", "accepted", "refused"}

RunTyped ==
  /\ hold \in BOOLEAN /\ killSent \in BOOLEAN
  /\ interrupted \in BOOLEAN /\ expired \in BOOLEAN
  /\ row \in Over \cup {"absent", "queued", "running"}
  /\ code = <<>> \/ \E c \in Int : code = <<c>>
  /\ cmd \in Asking \cup {"submit", "queued", "stream", "settle", "exited"}

(* Nobody asks for a kill for any other reason, or unrecorded. *)
KillHasReason ==
  /\ cmd \in Asking => interrupted \/ expired
  /\ cmd \in {"cancelling", "killing", "accepted", "refused"} => killSent
  /\ BlipKillsNothing

(* What was said stays true: a job that is over is not started again, and    *)
(* an accepted kill is of a job that is running or over.                     *)
WordsHold ==
  /\ cmd = "submit" => told = "nothing"
  /\ cmd = "accepted" => row \in Over \cup {"running"}
  /\ CancelledIsOver

(* The statuses that mean something. *)
StatusHolds ==
  /\ ZeroMeansSucceeded
  /\ hold /\ cmd = "exited" /\ status = sigintExitCode => killSent

RunInv == RunTyped /\ KillHasReason /\ WordsHold /\ StatusHolds

(* os.Exit passes a verdict on, and none but a success becomes zero. *)
LEMMA VerdictStatus ==
  ASSUME RunTyped, row \in Over
  PROVE  /\ Verdict % 256 = 0 => IF hold THEN row \in Over ELSE row = "succeeded"
         /\ hold => Verdict % 256 = 0
  <1>1. CASE hold
    BY <1>1 DEF Verdict
  <1>2. CASE ~hold /\ code # <<>> /\ code # <<0>>
    <2>1. PICK c \in Int : code = <<c>>
      BY <1>2 DEF RunTyped
    <2>2. Verdict = safeExitCode(c) /\ c # 0
      BY <1>2, <2>1 DEF Verdict
    <2>3. Verdict % 256 # 0
      BY <2>2 DEF safeExitCode
    <2> QED BY <1>2, <2>3
  <1>3. CASE ~hold /\ ~(code # <<>> /\ code # <<0>>)
    BY <1>3 DEF Verdict
  <1> QED BY <1>1, <1>2, <1>3

(* An exit with a failure or after Ctrl-C is neither a success nor, for a    *)
(* hold, unasked.                                                            *)
LEMMA FailureStatus == 1 % 256 = 1 /\ sigintExitCode % 256 = 130
  BY DEF sigintExitCode

(* At the start nothing is said and no job exists. *)
LEMMA RunInitInv == RunInit => RunInv
  BY DEF RunInit, RunInv, RunTyped, Asking, KillHasReason, WordsHold,
         StatusHolds, BlipKillsNothing, CancelledIsOver, ZeroMeansSucceeded

(* What happens around the command keeps the invariant. *)
LEMMA AroundKeeps ==
  ASSUME RunInv,
         \/ JobMoves \/ FallSilent \/ Interrupt \/ QueueTimeout \/ PollQueued
         \/ PollRunning
  PROVE  RunInv'
  <1> USE RunClientAssumption DEF RunInv, jobVars, sayVars
  <1>1. CASE JobMoves
    <2>1. /\ row' # row => row \notin Over
          /\ row' \in {"running"} \cup Over
          /\ UNCHANGED <<hold, cmd, interrupted, expired, killSent, told, status>>
      BY <1>1 DEF JobMoves, Over
    <2>2. code' = <<>> \/ \E c \in Int : code' = <<c>>
      BY <1>1 DEF JobMoves, RunTyped
    <2>3. RunTyped'
      BY <2>1, <2>2 DEF RunTyped, Over
    <2>4. KillHasReason' /\ WordsHold'
      BY <2>1 DEF KillHasReason, BlipKillsNothing, WordsHold, CancelledIsOver
    <2>5. StatusHolds'
      BY <2>1 DEF StatusHolds, ZeroMeansSucceeded, Over
    <2> QED BY <2>3, <2>4, <2>5
  <1>2. CASE FallSilent \/ Interrupt \/ QueueTimeout \/ PollQueued \/ PollRunning
    <2>1. /\ UNCHANGED <<hold, row, code, cmd, killSent, told, status>>
          /\ interrupted' \in BOOLEAN /\ expired' \in BOOLEAN
          /\ interrupted \/ expired => interrupted' \/ expired'
      BY <1>2
      DEF FallSilent, Interrupt, QueueTimeout, PollQueued, PollRunning, RunTyped
    <2> QED
      BY <2>1 DEF RunTyped, KillHasReason, BlipKillsNothing, WordsHold,
                  CancelledIsOver, StatusHolds, ZeroMeansSucceeded
  <1> QED BY <1>1, <1>2

(* Submitting, waiting and following do. *)
LEMMA WaitingKeeps ==
  ASSUME RunInv,
         \/ SubmitAnswered \/ SubmitFails \/ PollScheduled \/ PollFails
         \/ LoseTrack \/ StopWaiting \/ Detach \/ StreamOver \/ Finish
         \/ GiveUpRunning
  PROVE  RunInv'
  <1> USE RunClientAssumption, FailureStatus DEF RunInv, jobVars, sayVars
  <1> DEFINE Quits(n) == cmd' = "exited" /\ status' = n % 256
  <1>1. UNCHANGED <<hold, interrupted, expired, killSent, told, code>>
    BY DEF SubmitAnswered, SubmitFails, PollScheduled, PollFails, LoseTrack,
           StopWaiting, Detach, StreamOver, Finish, GiveUpRunning
  <1>2. CASE SubmitAnswered \/ SubmitFails
    <2>1. /\ cmd = "submit" /\ row' \in {"absent", "queued", "running", "killed"}
          /\ \/ Quits(1)
             \/ cmd' \in {"queued", "stream", "settle"}
      BY <1>2 DEF SubmitAnswered, SubmitFails, Granted, Leaves
    <2> QED
      BY <1>1, <2>1
      DEF RunTyped, Over, Asking, KillHasReason, BlipKillsNothing, WordsHold,
          CancelledIsOver, StatusHolds, ZeroMeansSucceeded, sigintExitCode
  <1>3. CASE Finish
    <2>1. row \in Over /\ row' = row /\ Quits(Verdict)
      BY <1>3 DEF Finish, Leaves
    <2>2. /\ status' = 0 => IF hold THEN row \in Over ELSE row = "succeeded"
          /\ hold => status' = 0
      BY <2>1, VerdictStatus
    <2> QED
      BY <1>1, <2>1, <2>2
      DEF RunTyped, Asking, KillHasReason, BlipKillsNothing, WordsHold,
          CancelledIsOver, StatusHolds, ZeroMeansSucceeded, sigintExitCode
  <1>4. CASE Detach
    <2>1. /\ interrupted /\ row' = row
          /\ \/ hold /\ cmd' = "release"
             \/ ~hold /\ Quits(sigintExitCode)
      BY <1>4 DEF Detach, Leaves, RunTyped
    <2> QED
      BY <1>1, <2>1
      DEF RunTyped, Asking, KillHasReason, BlipKillsNothing, WordsHold,
          CancelledIsOver, StatusHolds, ZeroMeansSucceeded
  <1>5. CASE \/ PollScheduled \/ PollFails \/ LoseTrack \/ StopWaiting
             \/ StreamOver \/ GiveUpRunning
    <2>1. /\ row' = row
          /\ \/ Quits(1)
             \/ cmd' \in {"queued", "stream", "settle"}
             \/ cmd' = "cancel" /\ (interrupted \/ expired)
      BY <1>5 DEF PollScheduled, PollFails, LoseTrack, GiveUpQueued,
                  StopWaiting, StreamOver, GiveUpRunning, Granted, Leaves
    <2> QED
      BY <1>1, <2>1
      DEF RunTyped, Asking, KillHasReason, BlipKillsNothing, WordsHold,
          CancelledIsOver, StatusHolds, ZeroMeansSucceeded, sigintExitCode
  <1> QED BY <1>2, <1>3, <1>4, <1>5

(* Asking for the kill, and saying how it went, do. *)
LEMMA KillingKeeps ==
  ASSUME RunInv,
         \/ SendKill \/ KillQueuedRow \/ KillRunningRow \/ KillFails
         \/ ReportKill \/ ReportUnread
  PROVE  RunInv'
  <1> USE RunClientAssumption, FailureStatus DEF RunInv, jobVars, sayVars
  <1>1. CASE SendKill
    <2>1. /\ cmd \in {"cancel", "release"} /\ killSent'
          /\ cmd' \in {"cancelling", "killing", "refused"}
          /\ told' \in {told, "releasing"}
          /\ UNCHANGED <<hold, row, code, interrupted, expired, status>>
      BY <1>1 DEF SendKill
    <2>2. killSent' \in BOOLEAN
      BY <1>1 DEF SendKill
    <2> QED
      BY <2>1, <2>2
      DEF RunTyped, Asking, KillHasReason, BlipKillsNothing, WordsHold,
          CancelledIsOver, StatusHolds, ZeroMeansSucceeded
  <1>2. CASE KillQueuedRow \/ KillRunningRow
    <2>1. /\ cmd \in {"cancelling", "killing"}
          /\ cmd' \in {"accepted", "refused"}
          /\ row' \in {row, "killed"} /\ (row' # row => row \notin Over)
          /\ cmd' = "accepted" => row' \in {"running", "killed"}
          /\ UNCHANGED <<hold, code, interrupted, expired, killSent, told, status>>
      BY <1>2 DEF KillQueuedRow, KillRunningRow, Over
    <2> QED
      BY <2>1
      DEF RunTyped, Over, Asking, KillHasReason, BlipKillsNothing, WordsHold,
          CancelledIsOver, StatusHolds, ZeroMeansSucceeded
  <1>3. CASE KillFails \/ ReportKill \/ ReportUnread
    <2>1. /\ cmd \in Asking /\ cmd' = "exited"
          /\ UNCHANGED <<hold, row, code, interrupted, expired>>
      BY <1>3 DEF KillFails, ReportKill, ReportUnread, Leaves, Asking
    <2>2. killSent' = TRUE
      BY <1>3 DEF KillFails, ReportKill, ReportUnread, KillHasReason, RunTyped
    <2>3. told' = "cancelled" => row \in Over
      <3>1. CASE KillFails \/ ReportUnread
        BY <3>1 DEF KillFails, ReportUnread
      <3>2. CASE ReportKill
        BY <3>2 DEF ReportKill, Released, Cancelled, Uncancelled, WordsHold
      <3> QED BY <1>3, <3>1, <3>2
    <2>4. status' \in {1, 130}
      BY <1>3 DEF KillFails, ReportKill, ReportUnread, Leaves, Gone,
                  sigintExitCode
    <2> QED
      BY <2>1, <2>2, <2>3, <2>4
      DEF RunTyped, Asking, KillHasReason, BlipKillsNothing, WordsHold,
          CancelledIsOver, StatusHolds, ZeroMeansSucceeded
  <1> QED BY <1>1, <1>2, <1>3

(* The invariant holds of every reachable state. *)
THEOREM RunInvHolds == RunSpec => []RunInv
  <1>1. ASSUME RunInv, [RunNext]_runVariables PROVE RunInv'
    <2>1. CASE RunNext
      BY <1>1, <2>1, AroundKeeps, WaitingKeeps, KillingKeeps
      DEF RunNext, RunCmdStep
    <2>2. CASE UNCHANGED runVariables
      BY <1>1, <2>2
      DEF runVariables, jobVars, sayVars, RunInv, RunTyped, KillHasReason,
          BlipKillsNothing, WordsHold, CancelledIsOver, StatusHolds,
          ZeroMeansSucceeded
    <2> QED BY <1>1, <2>1, <2>2
  <1> QED BY RunInitInv, <1>1, PTL DEF RunSpec

(* No failure of the controller makes rc kill a job (WaitScheduled's error   *)
(* against waitCtx.Err()).                                                   *)
THEOREM NoKillForABlip == RunSpec => []BlipKillsNothing
  <1>1. RunInv => BlipKillsNothing
    BY DEF RunInv, KillHasReason
  <1> QED BY RunInvHolds, <1>1, PTL

(* Exit status zero is the truth, for every exit code a job may have         *)
(* (safeExitCode, the verdict of rc run).                                    *)
THEOREM ZeroIsTrue == RunSpec => []ZeroMeansSucceeded
  <1>1. RunInv => ZeroMeansSucceeded
    BY DEF RunInv, StatusHolds
  <1> QED BY RunInvHolds, <1>1, PTL

(* "cancelled" is said only of a job that is over                            *)
(* (reportCancelledQueuedJob).                                               *)
THEOREM CancelledIsTrue == RunSpec => []CancelledIsOver
  <1>1. RunInv => CancelledIsOver
    BY DEF RunInv, WordsHold
  <1> QED BY RunInvHolds, <1>1, PTL

(* Ctrl-C never leaves a hold that nobody was asked to end (NewHoldCmd).     *)
THEOREM HoldIsGivenBack == RunSpec => []HoldGivenBack
  <1>1. RunInv => HoldGivenBack
    BY DEF RunInv, StatusHolds, HoldGivenBack
  <1> QED BY RunInvHolds, <1>1, PTL

(* What rc run and rc hold say when they leave is true, for every limit on   *)
(* failed polls and every exit code.                                         *)
THEOREM CommandsAreHonest == RunSpec => []SaysTheTruth
  <1> QED BY ZeroIsTrue, CancelledIsTrue, HoldIsGivenBack, PTL DEF SaysTheTruth
=============================================================================
