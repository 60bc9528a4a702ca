------------------------------- MODULE Attach -------------------------------
(***************************************************************************)
(* The relay of one attached job (server/tty.go).  Four streams meet in a  *)
(* session: the worker's and the client's half of the output direction and *)
(* of the input direction.  The registry names the session that a          *)
(* connecting half joins.  The output pipe lasts as long as its session;   *)
(* the input pipe is replaced when a half of it reconnects.  The pipes are *)
(* unbuffered: a writer is blocked until the reader of its pipe takes the  *)
(* bytes.                                                                  *)
(*                                                                         *)
(* A handler holds its slot from acquire to release, so where the handler  *)
(* of a slot is (half) says what is attached.  The bytes themselves carry  *)
(* no meaning here: TTY frames and tar streams pass through alike.         *)
(***************************************************************************)
EXTENDS Naturals, FiniteSets

CONSTANTS
  MaxSession,  \* bound: sessions made for the job
  MaxRenew,    \* bound: input pipes of a session, less one
  MaxAttach    \* bound: connections

ASSUME AttachAssumption == MaxSession \in Nat /\ MaxRenew \in Nat /\ MaxAttach \in Nat

OutSlot == {"clientOut", "workerOut"}
InSlot == {"clientIn", "workerIn"}
Slot == OutSlot \cup InSlot
Reader == {"clientOut", "workerIn"}
Session == 1..MaxSession
Unregistered == 0

VARIABLES
  registered,  \* ttyRegistry.sessions for the job
  made,        \* sessions made so far
  dead,        \* the sessions that close() has ended
  outOpen,     \* sessions whose output pipe is open
  inPipe,      \* the number of the session's current input pipe
  inOpen,      \* the input pipes still open, of each session
  half,        \* where the handler of a slot is
  holds,       \* the input pipe an input half was given
  fired,       \* handoff guards that found their half alone: pipes to close
  attaches

attachVars == <<registered, made, dead, outOpen, inPipe, inOpen, half, holds,
                fired, attaches>>

AttachInit ==
  /\ registered = Unregistered
  /\ made = 0
  /\ dead = {} /\ outOpen = {}
  /\ inPipe = [s \in Session |-> 0]
  /\ inOpen = [s \in Session |-> {}]
  /\ half = [s \in Session |-> [x \in Slot |-> "none"]]
  /\ holds = [s \in Session |-> [x \in InSlot |-> 0]]
  /\ fired = {}
  /\ attaches = 0

Attached(s) == {x \in Slot : half[s][x] \notin {"none", "last"}}
PipeOf(s, x) == IF x \in OutSlot THEN <<s, "out", 0>> ELSE <<s, "in", holds[s][x]>>
Open(p) == IF p[2] = "out" THEN p[1] \in outOpen ELSE p[3] \in inOpen[p[1]]
At(s, x, pc) == half' = [half EXCEPT ![s][x] = pc]

(* ttyPipe.Close, any number of times. *)
ClosePipe(p) ==
  IF p[2] = "out"
  THEN outOpen' = outOpen \ {p[1]} /\ UNCHANGED inOpen
  ELSE inOpen' = [inOpen EXCEPT ![p[1]] = @ \ {p[3]}] /\ UNCHANGED outOpen

(* renewIn replaces a pipe that is closed, and never on a dead session. *)
RenewIn(s) == s \notin dead /\ inPipe[s] \notin inOpen[s]

(* acquire on the registered session, whose slot is free. *)
JoinSession(s, x) ==
  /\ attaches < MaxAttach
  /\ registered = s
  /\ x \notin Attached(s)
  /\ IF x \in InSlot /\ RenewIn(s)
     THEN /\ inPipe[s] < MaxRenew
          /\ inPipe' = [inPipe EXCEPT ![s] = @ + 1]
          /\ inOpen' = [inOpen EXCEPT ![s] = @ \cup {inPipe[s] + 1}]
     ELSE UNCHANGED <<inPipe, inOpen>>
  /\ holds' = IF x \in InSlot
              THEN [holds EXCEPT ![s][x] = inPipe'[s]] ELSE holds
  /\ At(s, x, "relay")
  /\ attaches' = attaches + 1
  /\ UNCHANGED <<registered, made, dead, outOpen, fired>>

(* acquire when no session is registered: the first half makes one. *)
NewSession(x) ==
  /\ attaches < MaxAttach /\ made < MaxSession
  /\ registered = Unregistered
  /\ LET s == made + 1 IN
       /\ registered' = s /\ made' = s
       /\ outOpen' = outOpen \cup {s}
       /\ inOpen' = [inOpen EXCEPT ![s] = {0}]
       /\ At(s, x, "relay")
  /\ attaches' = attaches + 1
  /\ UNCHANGED <<dead, inPipe, holds, fired>>
-----------------------------------------------------------------------------
(* The peer of a writing half sends bytes: the handler leaves its body read *)
(* for the pipe write.                                                      *)
PeerSends(s, x) ==
  /\ x \notin Reader /\ half[s][x] = "relay"
  /\ At(s, x, "blocked")
  /\ UNCHANGED <<registered, made, dead, outOpen, inPipe, inOpen, holds, fired,
                 attaches>>

(* The reader of the same pipe takes the bytes and passes them on. *)
Handoff(s, w, r) ==
  /\ w \notin Reader /\ r \in Reader
  /\ half[s][w] = "blocked" /\ half[s][r] = "relay"
  /\ PipeOf(s, w) = PipeOf(s, r) /\ Open(PipeOf(s, w))
  /\ At(s, w, "relay")
  /\ UNCHANGED <<registered, made, dead, outOpen, inPipe, inOpen, holds, fired,
                 attaches>>

(* A writer's peer ends its body, or a reader's peer no longer takes bytes   *)
(* within the write timeout.                                                 *)
PeerEnds(s, x) ==
  /\ half[s][x] = "relay"
  /\ At(s, x, "ending")
  /\ UNCHANGED <<registered, made, dead, outOpen, inPipe, inOpen, holds, fired,
                 attaches>>

(* The connection of a reading half closes: the watcher of its request       *)
(* context closes the pipe.                                                  *)
PeerGone(s, x) ==
  /\ x \in Reader /\ half[s][x] = "relay" /\ Open(PipeOf(s, x))
  /\ ClosePipe(PipeOf(s, x))
  /\ UNCHANGED <<registered, made, dead, inPipe, half, holds, fired, attaches>>

(* A read or a write of a closed pipe returns.  A writer waiting for its     *)
(* peer's next bytes does not notice.                                        *)
NoticeClosed(s, x) ==
  /\ half[s][x] = (IF x \in Reader THEN "relay" ELSE "blocked")
  /\ ~Open(PipeOf(s, x))
  /\ At(s, x, "ending")
  /\ UNCHANGED <<registered, made, dead, outOpen, inPipe, inOpen, holds, fired,
                 attaches>>

(* The guard of a blocked write never gives up. *)
GuardFires_Never(s, x) == FALSE /\ UNCHANGED attachVars

(* handoffGuard.fire: the write has been blocked for the whole window and    *)
(* the half is alone.  The pipe is closed outside the registry's lock.       *)
GuardFires(s, x) ==
  /\ half[s][x] = "blocked" /\ Open(PipeOf(s, x))
  /\ Cardinality(Attached(s)) <= 1
  /\ fired' = fired \cup {PipeOf(s, x)}
  /\ UNCHANGED <<registered, made, dead, outOpen, inPipe, inOpen, half, holds,
                 attaches>>

GuardCloses(p) ==
  /\ p \in fired
  /\ fired' = fired \ {p}
  /\ ClosePipe(p)
  /\ UNCHANGED <<registered, made, dead, inPipe, half, holds, attaches>>
-----------------------------------------------------------------------------
(* The registration goes, whichever session it names. *)
ForgetLocked_Any(s) == Unregistered

(* forgetLocked: what stays registered. *)
ForgetLocked(s) == IF registered = s THEN Unregistered ELSE registered

(* ttySession.close, which only the first caller runs. *)
CloseSession(s) ==
  IF s \in dead THEN UNCHANGED <<dead, outOpen, inOpen>>
  ELSE /\ dead' = dead \cup {s}
       /\ outOpen' = outOpen \ {s}
       /\ inOpen' = [inOpen EXCEPT ![s] = @ \ {inPipe[s]}]

(* Teardown of an output half: discard forgets the session ... *)
Discard(s, x) ==
  /\ x \in OutSlot /\ half[s][x] = "ending"
  /\ registered' = ForgetLocked(s)
  /\ At(s, x, "forgot")
  /\ UNCHANGED <<made, dead, outOpen, inPipe, inOpen, holds, fired, attaches>>

(* ... and closes it. *)
DiscardClose(s, x) ==
  /\ half[s][x] = "forgot"
  /\ CloseSession(s)
  /\ At(s, x, "closed")
  /\ UNCHANGED <<registered, made, inPipe, holds, fired, attaches>>

(* Teardown of an input half closes the pipe it was given. *)
EndInput(s, x) ==
  /\ x \in InSlot /\ half[s][x] = "ending"
  /\ ClosePipe(PipeOf(s, x))
  /\ At(s, x, "closed")
  /\ UNCHANGED <<registered, made, dead, inPipe, holds, fired, attaches>>

(* release: the last half to leave forgets the session ... *)
Release(s, x) ==
  /\ half[s][x] = "closed"
  /\ LET idle == Attached(s) = {x} IN
       /\ registered' = IF idle THEN ForgetLocked(s) ELSE registered
       /\ At(s, x, IF idle THEN "last" ELSE "none")
  /\ UNCHANGED <<made, dead, outOpen, inPipe, inOpen, holds, fired, attaches>>

(* ... and closes it. *)
ReleaseClose(s, x) ==
  /\ half[s][x] = "last"
  /\ CloseSession(s)
  /\ At(s, x, "none")
  /\ UNCHANGED <<registered, made, inPipe, holds, fired, attaches>>

Teardown(s, x) == \/ Discard(s, x) \/ DiscardClose(s, x) \/ EndInput(s, x)
                  \/ Release(s, x) \/ ReleaseClose(s, x)

(* What the controller itself does.  What the peers do is never owed. *)
RelayStep ==
  \/ \E s \in Session, x \in Slot :
       NoticeClosed(s, x) \/ GuardFires(s, x) \/ Teardown(s, x)
  \/ \E p \in fired : GuardCloses(p)

AttachNext ==
  \/ \E x \in Slot : NewSession(x)
  \/ \E s \in Session, x \in Slot :
       \/ JoinSession(s, x)
       \/ PeerSends(s, x) \/ PeerEnds(s, x) \/ PeerGone(s, x)
  \/ \E s \in Session, w, r \in Slot : Handoff(s, w, r)
  \/ RelayStep

AttachSpec == AttachInit /\ [][AttachNext]_attachVars /\ WF_attachVars(RelayStep)
-----------------------------------------------------------------------------
(* A session that is not over is the registered one, or a half of it is      *)
(* between forgetting and closing it: the two ends of a terminal never sit   *)
(* on two live sessions, each silent to the other.  (forgetLocked's identity *)
(* check.)                                                                   *)
OneLiveSession ==
  \A s \in 1..made : \/ s \in dead
                     \/ registered = s
                     \/ \E x \in Slot : half[s][x] \in {"forgot", "last"}

(* Two input halves of a session whose pipes are both open have the same     *)
(* pipe: nobody types into a stream that is not read.  (renewIn.)            *)
SamePipe ==
  \A s \in Session :
    {Open(PipeOf(s, x)) /\ half[s][x] \in {"relay", "blocked"} : x \in InSlot} = {TRUE}
      => holds[s]["clientIn"] = holds[s]["workerIn"]

(* The two ends of an attached job meet: on one session and, for what is     *)
(* typed, on one pipe, in whatever order halves arrive, drop and come back.  *)
EndsMeet == OneLiveSession /\ SamePipe

(* Once the output direction has ended the session is over: every half of   *)
(* it that waits for bytes, of either direction, is let go, and no half is    *)
(* left on a session whose output is closed.  (ttyAttach's teardown.)        *)
SessionUnwinds ==
  []<>(\A s \in 1..made, x \in Reader : s \in outOpen \/ half[s][x] = "none")

(* A half blocked in a write with nobody else on its session does not hold   *)
(* its handler for ever.  (handoffGuard.)                                    *)
AloneIsReleased ==
  []<>(\A s \in 1..made, x \in Slot :
         half[s][x] = "blocked" => Cardinality(Attached(s)) > 1)

(* No half of an attached job is left behind: not on a session whose output  *)
(* has ended, and not in a write that nobody is there to read.               *)
HalvesLetGo == SessionUnwinds /\ AloneIsReleased
=============================================================================
