------------------------------ MODULE LongPoll ------------------------------
(***************************************************************************)
(* How a worker hears of its work at once (server/notify.go,               *)
(* handleAssignments).  The worker has one poll open at a time, but the    *)
(* handler of a poll whose connection broke may still be parked beside the *)
(* next one.  A submit or the scheduler loop commits an assignment and     *)
(* then pokes; an item is an assigned job.  Kills ride the same response,  *)
(* but are stamped when they are read and delivered again after a while:   *)
(* Fleet has them.  Here a kill would only end a poll early, as the end of *)
(* its window does.                                                        *)
(***************************************************************************)
EXTENDS Naturals

CONSTANTS
  PollHandler,
  Poker,       \* the goroutines that assign the worker jobs
  NoPoll,
  MaxItem, MaxDrop  \* bounds: jobs, broken connections and failed passes

ASSUME LongPollAssumption ==
  NoPoll \notin PollHandler /\ MaxItem \in Nat /\ MaxDrop \in Nat

VARIABLES
  items,      \* items made so far, which numbers them
  open,       \* those AssignedJobsFor would still return
  poking,     \* the item a poker has committed and not yet poked for; 0 is none
  unpoked,    \* history: items whose pass failed before its pokes
  poll,       \* a handler: absent, read, empty, select, mark, found
  carries,    \* the items it has read
  woken,      \* its channel holds a token
  live,       \* the handler whose connection the worker still has
  delivered,  \* how often the worker was handed each item
  drops

pollVars == <<items, open, poking, unpoked, poll, carries, woken, live,
              delivered, drops>>
workVars == <<items, open, poking, unpoked>>

PollInit ==
  /\ items = 0 /\ open = {} /\ unpoked = {}
  /\ poking = [p \in Poker |-> 0]
  /\ poll = [h \in PollHandler |-> "absent"]
  /\ carries = [h \in PollHandler |-> {}]
  /\ woken = [h \in PollHandler |-> FALSE]
  /\ live = NoPoll
  /\ delivered = [i \in 1..MaxItem |-> 0]
  /\ drops = 0

(* assignQueued gives the worker a job ... *)
Commit(p) ==
  /\ poking[p] = 0 /\ items < MaxItem
  /\ items' = items + 1
  /\ open' = open \cup {items + 1}
  /\ poking' = [poking EXCEPT ![p] = items + 1]
  /\ UNCHANGED <<unpoked, poll, carries, woken, live, delivered, drops>>

(* Only a handler already in its select is on the list. *)
Waiters_Late == {h \in PollHandler : poll[h] = "select"}

(* wait() comes first in the handler, and cancel is deferred. *)
Waiters == {h \in PollHandler : poll[h] # "absent"}

(* ... and its poke. *)
Poke(p) ==
  /\ poking[p] # 0
  /\ poking' = [poking EXCEPT ![p] = 0]
  /\ woken' = [h \in PollHandler |-> woken[h] \/ h \in Waiters]
  /\ UNCHANGED <<items, open, unpoked, poll, carries, live, delivered, drops>>

(* ScheduleOnce fails after it has assigned the job: nobody is poked. *)
PassFails(p) ==
  /\ poking[p] # 0 /\ drops < MaxDrop
  /\ drops' = drops + 1
  /\ unpoked' = unpoked \cup {poking[p]}
  /\ poking' = [poking EXCEPT ![p] = 0]
  /\ UNCHANGED <<items, open, poll, carries, woken, live, delivered>>
-----------------------------------------------------------------------------
(* The worker polls, with a channel of its own. *)
StartPoll(h) ==
  /\ live = NoPoll /\ poll[h] = "absent"
  /\ poll' = [poll EXCEPT ![h] = "read"]
  /\ woken' = [woken EXCEPT ![h] = FALSE]
  /\ live' = h
  /\ UNCHANGED <<workVars, carries, delivered, drops>>

(* Its connection breaks, or the worker gives up on it. *)
DropPoll ==
  /\ live # NoPoll /\ drops < MaxDrop
  /\ drops' = drops + 1
  /\ live' = NoPoll
  /\ UNCHANGED <<workVars, poll, carries, woken, delivered>>

ReadItems(h) ==
  /\ poll[h] = "read"
  /\ carries' = [carries EXCEPT ![h] = open]
  /\ poll' = [poll EXCEPT ![h] = IF open = {} THEN "empty" ELSE "mark"]
  /\ UNCHANGED <<workVars, woken, live, delivered, drops>>

(* Nothing there: the loop goes on to its select. *)
ParkPoll(h) ==
  /\ poll[h] = "empty"
  /\ poll' = [poll EXCEPT ![h] = "select"]
  /\ UNCHANGED <<workVars, carries, woken, live, delivered, drops>>

(* The jobs stay assigned until the worker reports them running. *)
MarkItems_Later(h) ==
  /\ poll[h] = "mark"
  /\ poll' = [poll EXCEPT ![h] = "found"]
  /\ UNCHANGED <<workVars, carries, woken, live, delivered, drops>>

(* MarkRunning, before anything is written: no later poll sees them. *)
MarkItems(h) ==
  /\ poll[h] = "mark"
  /\ open' = open \ carries[h]
  /\ poll' = [poll EXCEPT ![h] = "found"]
  /\ UNCHANGED <<items, poking, unpoked, carries, woken, live, delivered, drops>>

Ends(h) == /\ poll' = [poll EXCEPT ![h] = "absent"]
           /\ carries' = [carries EXCEPT ![h] = {}]
           /\ live' = IF live = h THEN NoPoll ELSE live

(* The answer, which only a connection that still stands carries. *)
AnswerPoll(h) ==
  /\ poll[h] = "found"
  /\ delivered' = [i \in 1..MaxItem |->
                     IF live = h /\ i \in carries[h] THEN delivered[i] + 1
                     ELSE delivered[i]]
  /\ Ends(h)
  /\ UNCHANGED <<workVars, woken, drops>>

WakePoll(h) ==
  /\ poll[h] = "select" /\ woken[h]
  /\ woken' = [woken EXCEPT ![h] = FALSE]
  /\ poll' = [poll EXCEPT ![h] = "read"]
  /\ UNCHANGED <<workVars, carries, live, delivered, drops>>

(* The poll waits until it is woken. *)
PollWindow_None(h) == FALSE

(* The wait window: 204, and the worker calls again. *)
PollWindow(h) == poll[h] = "select"

(* Its end, or that of the request's context. *)
LeavePoll(h) ==
  /\ PollWindow(h) \/ (poll[h] = "select" /\ live # h)
  /\ Ends(h)
  /\ UNCHANGED <<workVars, woken, delivered, drops>>

PollStep == \E h \in PollHandler :
  \/ StartPoll(h) \/ ReadItems(h) \/ ParkPoll(h) \/ MarkItems(h)
  \/ AnswerPoll(h) \/ WakePoll(h) \/ LeavePoll(h)

PollNext ==
  \/ \E p \in Poker : Commit(p) \/ Poke(p) \/ PassFails(p)
  \/ DropPoll \/ PollStep

(* Handlers go on, and the worker polls again whenever a poll has ended. *)
PollSpec == PollInit /\ [][PollNext]_pollVars /\ WF_pollVars(PollStep)
-----------------------------------------------------------------------------
(* A parked poll never sleeps through an assignment: a handler in its select *)
(* has no job to hand out, or a token, or the poke is still to come.  Only a *)
(* pass that failed half way leaves it to the poll window.  (wait before the *)
(* first read, and a channel of one.)                                        *)
NoLostPoke ==
  \A h \in PollHandler : poll[h] = "select" =>
    \A i \in open \ unpoked : woken[h] \/ \E p \in Poker : poking[p] = i

(* The worker is handed a job once at most, though polls overlap and read    *)
(* the same job: one handed out twice is started twice.  (MarkRunning before *)
(* the response.)                                                            *)
HandedOutOnce == \A i \in 1..MaxItem : delivered[i] <= 1

(* Whatever is assigned is taken up, poked for or not.  (The wait window.)   *)
WorkIsTaken == open # {} ~> open = {}
=============================================================================
