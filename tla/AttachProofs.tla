---------------------------- MODULE AttachProofs ----------------------------
(***************************************************************************)
(* Proofs about Attach, for any number of sessions, input pipes and        *)
(* connections.  That two input halves share their pipe rests on the       *)
(* session having at most one open input pipe, its current one; that a     *)
(* session which is over stays over rests on it being forgotten before it  *)
(* is closed, and on a new session being one that was never used.          *)
(***************************************************************************)
EXTENDS Attach, TLAPS

AttachTyped ==
  /\ made \in 0..MaxSession /\ registered \in 0..made
  /\ dead \subseteq 1..made /\ outOpen \subseteq 1..made
  /\ inPipe \in [Session -> Nat]
  /\ inOpen \in [Session -> SUBSET Nat]
  /\ half \in [Session -> [Slot -> {"none", "relay", "blocked", "ending", "forgot",
                                    "closed", "last"}]]
  /\ holds \in [Session -> [InSlot -> Nat]]
  /\ fired \subseteq (Session \X {"out", "in"} \X Nat)

(* A session that is still to be made is untouched. *)
ComingIsFresh ==
  \A s \in Session : s > made =>
    inPipe[s] = 0 /\ inOpen[s] = {} /\ \A x \in Slot : half[s][x] = "none"

(* No input pipe but the current one is open. *)
OneInputPipe == \A s \in Session : inOpen[s] \subseteq {inPipe[s]}

(* A half that is about to close a session has forgotten it. *)
ForgottenFirst ==
  \A s \in Session, x \in Slot : half[s][x] \in {"forgot", "last"} => registered # s

(* A session that is over takes no new half, and neither of its pipes is     *)
(* open: whoever waits on one of them is let go, and nothing reopens them.   *)
(* (close, renewIn's dead check, discard and release.)                       *)
DeadIsSilent ==
  \A s \in dead : registered # s /\ s \notin outOpen /\ inOpen[s] = {}

AttachInv ==
  /\ AttachTyped /\ ComingIsFresh /\ OneInputPipe /\ ForgottenFirst /\ DeadIsSilent
  /\ OneLiveSession

(* At the start no session has been made. *)
LEMMA AttachInitInv == AttachInit => AttachInv
  BY AttachAssumption
  DEF AttachInit, AttachInv, AttachTyped, ComingIsFresh, OneInputPipe,
      ForgottenFirst, DeadIsSilent, OneLiveSession, Session, Unregistered,
      Slot, InSlot, OutSlot

(* The pipe of a half is one of its session's. *)
LEMMA PipeType ==
  ASSUME AttachTyped, NEW s \in Session, NEW x \in Slot
  PROVE  PipeOf(s, x) \in Session \X {"out", "in"} \X Nat
  BY DEF AttachTyped, PipeOf, Slot

(* The open pipes may only have become fewer. *)
PipesShrink ==
  /\ outOpen' \subseteq outOpen
  /\ inOpen' \in [Session -> SUBSET Nat]
  /\ \A s \in Session : inOpen'[s] \subseteq inOpen[s]

(* To close a pipe opens none. *)
LEMMA ClosePipeShrinks ==
  ASSUME AttachTyped, NEW p \in Session \X {"out", "in"} \X Nat, ClosePipe(p)
  PROVE  PipesShrink
  <1>1. p[1] \in Session
    OBVIOUS
  <1> QED
    BY <1>1 DEF AttachTyped, ClosePipe, PipesShrink

(* To close a session closes its output pipe and its only open input pipe. *)
LEMMA CloseSessionCloses ==
  ASSUME AttachTyped, OneInputPipe, DeadIsSilent, NEW s \in Session, CloseSession(s)
  PROVE  /\ dead' = dead \cup {s}
         /\ outOpen' = outOpen \ {s}
         /\ inOpen' \in [Session -> SUBSET Nat]
         /\ inOpen'[s] = {}
         /\ \A t \in Session : inOpen'[t] \subseteq inOpen[t]
  <1>1. CASE s \in dead
    BY <1>1 DEF CloseSession, DeadIsSilent, AttachTyped
  <1>2. CASE s \notin dead
    <2>1. /\ dead' = dead \cup {s} /\ outOpen' = outOpen \ {s}
          /\ inOpen' = [inOpen EXCEPT ![s] = inOpen[s] \ {inPipe[s]}]
      BY <1>2 DEF CloseSession
    <2>2. inOpen[s] \ {inPipe[s]} = {}
      BY DEF OneInputPipe
    <2> QED
      BY <2>1, <2>2 DEF AttachTyped
  <1> QED
    BY <1>1, <1>2

(* Sessions stay within the bound. *)
LEMMA MadeIsSession ==
  ASSUME AttachTyped
  PROVE  made \in Nat /\ \A s : s \in 1..made => s \in Session
  BY AttachAssumption DEF AttachTyped, Session

(* A pipe that is closed, by whoever, disturbs nothing. *)
LEMMA PipeCloses ==
  ASSUME AttachInv, PipesShrink, fired' \subseteq fired,
         UNCHANGED <<registered, made, dead, inPipe, half, holds>>
  PROVE  AttachInv'
  <1>1. AttachTyped'
    BY DEF PipesShrink, AttachInv, AttachTyped
  <1>2. ComingIsFresh' /\ OneInputPipe'
    BY DEF PipesShrink, AttachInv, ComingIsFresh, OneInputPipe
  <1>3. DeadIsSilent'
    BY MadeIsSession DEF PipesShrink, AttachInv, AttachTyped, DeadIsSilent
  <1> QED
    BY <1>1, <1>2, <1>3 DEF AttachInv, ForgottenFirst, OneLiveSession

(* A half that moves on within the relay, or to its teardown, and may close  *)
(* its pipe, disturbs nothing but itself, as long as it neither forgets nor  *)
(* closes the session.                                                       *)
LEMMA HalfMoves ==
  ASSUME AttachInv, NEW s \in Session, NEW x \in Slot,
         NEW pc \in {"none", "relay", "blocked", "ending", "closed"},
         At(s, x, pc), half[s][x] \notin {"none", "forgot", "last"}, PipesShrink,
         UNCHANGED <<registered, made, dead, inPipe, holds, fired>>
  PROVE  AttachInv'
  <1>1. \A t \in Session, y \in Slot :
          half'[t][y] = IF t = s /\ y = x THEN pc ELSE half[t][y]
    BY DEF AttachInv, AttachTyped, At
  <1>2. AttachTyped'
    BY DEF PipesShrink, AttachInv, AttachTyped, At
  <1>3. ~(s > made)
    BY DEF AttachInv, ComingIsFresh
  <1>4. ComingIsFresh' /\ OneInputPipe' /\ ForgottenFirst'
    BY <1>1, <1>3
    DEF PipesShrink, AttachInv, ComingIsFresh, OneInputPipe, ForgottenFirst
  <1>5. DeadIsSilent'
    BY MadeIsSession DEF PipesShrink, AttachInv, AttachTyped, DeadIsSilent
  <1>6. OneLiveSession'
    BY <1>1, MadeIsSession DEF AttachInv, OneLiveSession
  <1> QED
    BY <1>2, <1>4, <1>5, <1>6 DEF AttachInv

(* The first half makes a session that nobody has used. *)
LEMMA NewSessionKeeps ==
  ASSUME AttachInv, NEW x \in Slot, NewSession(x)
  PROVE  AttachInv'
  <1> DEFINE s == made + 1
  <1>1. /\ s \in Session /\ s > made /\ made \in Nat /\ s \in Nat
        /\ 1..made' = (1..made) \cup {s}
    BY AttachAssumption DEF AttachInv, AttachTyped, NewSession, Session
  <1>2. /\ registered = 0 /\ registered' = s /\ made' = s
        /\ outOpen' = outOpen \cup {s}
        /\ UNCHANGED <<dead, inPipe, holds, fired>>
    BY DEF NewSession, Unregistered
  <1>3. \A t \in Session : inOpen'[t] = IF t = s THEN {0} ELSE inOpen[t]
    BY <1>1 DEF AttachInv, AttachTyped, NewSession
  <1>4. \A t \in Session, y \in Slot :
          half'[t][y] = IF t = s /\ y = x THEN "relay" ELSE half[t][y]
    BY <1>1 DEF AttachInv, AttachTyped, NewSession, At
  <1> HIDE DEF s
  <1>5. AttachTyped'
    <2>1. inOpen' \in [Session -> SUBSET Nat]
      BY <1>1 DEF AttachInv, AttachTyped, NewSession
    <2>2. half' \in [Session -> [Slot -> {"none", "relay", "blocked", "ending",
                                         "forgot", "closed", "last"}]]
      BY <1>1 DEF AttachInv, AttachTyped, NewSession, At
    <2>3. made' \in 0..MaxSession /\ registered' \in 0..made'
      BY <1>1, <1>2, AttachAssumption DEF Session
    <2>4. dead' \subseteq 1..made' /\ outOpen' \subseteq 1..made'
      BY <1>1, <1>2 DEF AttachInv, AttachTyped
    <2> QED
      BY <2>1, <2>2, <2>3, <2>4, <1>2 DEF AttachInv, AttachTyped
  <1>6. ComingIsFresh'
    <2>1. ASSUME NEW t \in Session, t > made' PROVE t > made /\ t # s
      BY <2>1, <1>1, <1>2 DEF Session, s
    <2> QED
      BY <2>1, <1>2, <1>3, <1>4 DEF AttachInv, ComingIsFresh
  <1>7. OneInputPipe'
    BY <1>1, <1>2, <1>3 DEF AttachInv, OneInputPipe, ComingIsFresh
  <1>8. ForgottenFirst'
    BY <1>1, <1>2, <1>4 DEF AttachInv, ComingIsFresh, ForgottenFirst
  <1>9. DeadIsSilent'
    <2>1. ASSUME NEW t \in dead PROVE t # s /\ t \in Session
      BY <1>1, MadeIsSession DEF AttachInv, AttachTyped
    <2> QED
      BY <2>1, <1>2, <1>3 DEF AttachInv, DeadIsSilent
  <1>10. OneLiveSession'
    <2>1. ASSUME NEW t \in 1..made' PROVE t = s \/ t \in 1..made
      BY <1>1
    <2>2. ASSUME NEW t \in 1..made PROVE t # s /\ t # 0 /\ t \in Session
      BY <1>1, MadeIsSession DEF AttachInv
    <2> QED
      BY <2>1, <2>2, <1>2, <1>4 DEF AttachInv, OneLiveSession
  <1> QED
    BY <1>5, <1>6, <1>7, <1>8, <1>9, <1>10 DEF AttachInv

(* A half joins the registered session, which is not over; when it renews    *)
(* the input pipe, the old one is closed.                                    *)
LEMMA JoinSessionKeeps ==
  ASSUME AttachInv, NEW s \in Session, NEW x \in Slot, JoinSession(s, x)
  PROVE  AttachInv'
  <1>1. /\ registered = s /\ s \notin dead /\ s \in 1..made
        /\ UNCHANGED <<registered, made, dead, outOpen, fired>>
    BY DEF JoinSession, AttachInv, AttachTyped, DeadIsSilent, Session
  <1>2. \A t \in Session, y \in Slot :
          half'[t][y] = IF t = s /\ y = x THEN "relay" ELSE half[t][y]
    BY DEF AttachInv, AttachTyped, JoinSession, At
  <1>3. /\ inPipe' \in [Session -> Nat] /\ inOpen' \in [Session -> SUBSET Nat]
        /\ \A t \in Session : t # s => inPipe'[t] = inPipe[t] /\ inOpen'[t] = inOpen[t]
        /\ inOpen'[s] \subseteq {inPipe'[s]}
    <2>1. CASE x \in InSlot /\ RenewIn(s)
      <3>1. /\ inPipe' = [inPipe EXCEPT ![s] = inPipe[s] + 1]
            /\ inOpen' = [inOpen EXCEPT ![s] = inOpen[s] \cup {inPipe[s] + 1}]
        BY <2>1 DEF JoinSession
      <3>2. inOpen[s] = {}
        BY <2>1 DEF RenewIn, AttachInv, OneInputPipe
      <3> QED
        BY <3>1, <3>2 DEF AttachInv, AttachTyped
    <2>2. CASE ~(x \in InSlot /\ RenewIn(s))
      BY <2>2 DEF JoinSession, AttachInv, AttachTyped, OneInputPipe
    <2> QED
      BY <2>1, <2>2
  <1>4. holds' \in [Session -> [InSlot -> Nat]]
    <2>1. inPipe'[s] \in Nat
      BY <1>3
    <2> QED
      BY <2>1 DEF JoinSession, AttachInv, AttachTyped
  <1>5. half' \in [Session -> [Slot -> {"none", "relay", "blocked", "ending",
                                       "forgot", "closed", "last"}]]
    BY DEF AttachInv, AttachTyped, JoinSession, At
  <1>6. AttachTyped'
    BY <1>1, <1>3, <1>4, <1>5 DEF AttachInv, AttachTyped
  <1>7. ComingIsFresh'
    <2>1. ~(s > made)
      BY <1>1, MadeIsSession DEF AttachInv
    <2> QED
      BY <2>1, <1>1, <1>2, <1>3 DEF AttachInv, ComingIsFresh
  <1>8. OneInputPipe' /\ ForgottenFirst'
    BY <1>1, <1>2, <1>3 DEF AttachInv, OneInputPipe, ForgottenFirst
  <1>9. DeadIsSilent'
    BY <1>1, <1>3, MadeIsSession DEF AttachInv, AttachTyped, DeadIsSilent
  <1>10. OneLiveSession'
    BY <1>1, <1>2, MadeIsSession DEF AttachInv, OneLiveSession
  <1> QED
    BY <1>6, <1>7, <1>8, <1>9, <1>10 DEF AttachInv

(* An output half, or the last half to leave, forgets the session. *)
LEMMA ForgetsKeeps ==
  ASSUME AttachInv, NEW s \in Session, NEW x \in Slot, NEW pc \in {"forgot", "last"},
         At(s, x, pc), half[s][x] \in {"ending", "closed"},
         registered' = ForgetLocked(s),
         UNCHANGED <<made, dead, outOpen, inPipe, inOpen, holds, fired>>
  PROVE  AttachInv'
  <1>1. \A t \in Session, y \in Slot :
          half'[t][y] = IF t = s /\ y = x THEN pc ELSE half[t][y]
    BY DEF AttachInv, AttachTyped, At
  <1>2. ~(s > made) /\ s # 0
    BY AttachAssumption DEF AttachInv, ComingIsFresh, Session
  <1>3. /\ registered' \in {0, registered} /\ registered' # s
        /\ \A t : t # s /\ registered = t => registered' = t
    BY <1>2 DEF ForgetLocked, Unregistered
  <1>4. AttachTyped'
    BY <1>3, MadeIsSession DEF AttachInv, AttachTyped, At
  <1>5. ComingIsFresh' /\ OneInputPipe'
    BY <1>1, <1>2 DEF AttachInv, ComingIsFresh, OneInputPipe
  <1>6. \A t \in Session : t # 0
    BY AttachAssumption DEF Session
  <1>7. ForgottenFirst'
    BY <1>1, <1>3, <1>6 DEF AttachInv, ForgottenFirst
  <1>8. DeadIsSilent'
    BY <1>3, <1>6, MadeIsSession DEF AttachInv, AttachTyped, DeadIsSilent
  <1>9. OneLiveSession'
    BY <1>1, <1>3, MadeIsSession DEF AttachInv, OneLiveSession
  <1> QED
    BY <1>4, <1>5, <1>7, <1>8, <1>9 DEF AttachInv

(* ... and closes it, once it is forgotten. *)
LEMMA ClosesKeeps ==
  ASSUME AttachInv, NEW s \in Session, NEW x \in Slot, NEW pc \in {"closed", "none"},
         half[s][x] \in {"forgot", "last"}, CloseSession(s), At(s, x, pc),
         UNCHANGED <<registered, made, inPipe, holds, fired>>
  PROVE  AttachInv'
  <1>1. \A t \in Session, y \in Slot :
          half'[t][y] = IF t = s /\ y = x THEN pc ELSE half[t][y]
    BY DEF AttachInv, AttachTyped, At
  <1>2. s \in 1..made /\ registered # s
    <2>1. ~(s > made)
      BY DEF AttachInv, ComingIsFresh
    <2>2. registered # s
      BY DEF AttachInv, ForgottenFirst
    <2> QED
      BY <2>1, <2>2, MadeIsSession, AttachAssumption DEF AttachInv, Session
  <1>3. /\ dead' = dead \cup {s} /\ outOpen' = outOpen \ {s}
        /\ inOpen' \in [Session -> SUBSET Nat] /\ inOpen'[s] = {}
        /\ \A t \in Session : inOpen'[t] \subseteq inOpen[t]
    BY CloseSessionCloses DEF AttachInv
  <1>4. AttachTyped'
    BY <1>2, <1>3 DEF AttachInv, AttachTyped, At
  <1>5. ComingIsFresh'
    BY <1>1, <1>2, <1>3, MadeIsSession DEF AttachInv, ComingIsFresh
  <1>6. OneInputPipe' /\ ForgottenFirst'
    BY <1>1, <1>3 DEF AttachInv, OneInputPipe, ForgottenFirst
  <1>7. DeadIsSilent'
    BY <1>2, <1>3, MadeIsSession DEF AttachInv, AttachTyped, DeadIsSilent
  <1>8. OneLiveSession'
    BY <1>1, <1>3, MadeIsSession DEF AttachInv, OneLiveSession
  <1> QED
    BY <1>4, <1>5, <1>6, <1>7, <1>8 DEF AttachInv

(* Connections, peers, guards and teardowns all preserve the invariant. *)
LEMMA AttachNextInv == AttachInv /\ [AttachNext]_attachVars => AttachInv'
  <1> SUFFICES ASSUME AttachInv, [AttachNext]_attachVars PROVE AttachInv'
    OBVIOUS
  <1>1. ASSUME NEW x \in Slot, NewSession(x) PROVE AttachInv'
    BY <1>1, NewSessionKeeps
  <1>2. ASSUME NEW s \in Session, NEW x \in Slot, JoinSession(s, x) PROVE AttachInv'
    BY <1>2, JoinSessionKeeps
  <1>3. ASSUME NEW s \in Session, NEW x \in Slot,
               PeerSends(s, x) \/ PeerEnds(s, x) \/ NoticeClosed(s, x)
        PROVE  AttachInv'
    <2>1. PipesShrink
      BY <1>3 DEF PeerSends, PeerEnds, NoticeClosed, PipesShrink, AttachInv, AttachTyped
    <2> QED
      BY <1>3, <2>1, HalfMoves DEF PeerSends, PeerEnds, NoticeClosed
  <1>4. ASSUME NEW s \in Session, NEW w \in Slot, NEW r \in Slot, Handoff(s, w, r)
        PROVE  AttachInv'
    <2>1. PipesShrink
      BY <1>4 DEF Handoff, PipesShrink, AttachInv, AttachTyped
    <2> QED
      BY <1>4, <2>1, HalfMoves DEF Handoff
  <1>5. ASSUME NEW s \in Session, NEW x \in Slot, PeerGone(s, x) PROVE AttachInv'
    BY <1>5, PipeType, ClosePipeShrinks, PipeCloses DEF PeerGone, AttachInv
  <1>6. ASSUME NEW s \in Session, NEW x \in Slot, GuardFires(s, x) PROVE AttachInv'
    <2>1. AttachTyped'
      BY <1>6, PipeType DEF GuardFires, AttachInv, AttachTyped
    <2> QED
      BY <1>6, <2>1 DEF GuardFires, AttachInv, ComingIsFresh, OneInputPipe,
                        ForgottenFirst, DeadIsSilent, OneLiveSession
  <1>7. ASSUME NEW p \in fired, GuardCloses(p) PROVE AttachInv'
    <2>1. p \in Session \X {"out", "in"} \X Nat
      BY DEF AttachInv, AttachTyped
    <2> QED
      BY <1>7, <2>1, ClosePipeShrinks, PipeCloses DEF GuardCloses, AttachInv
  <1>8. ASSUME NEW s \in Session, NEW x \in Slot, Discard(s, x) PROVE AttachInv'
    BY <1>8, ForgetsKeeps DEF Discard
  <1>9. ASSUME NEW s \in Session, NEW x \in Slot,
               DiscardClose(s, x) \/ ReleaseClose(s, x)
        PROVE  AttachInv'
    BY <1>9, ClosesKeeps DEF DiscardClose, ReleaseClose
  <1>10. ASSUME NEW s \in Session, NEW x \in Slot, Release(s, x) PROVE AttachInv'
    <2>1. CASE Attached(s) = {x}
      BY <1>10, <2>1, ForgetsKeeps DEF Release
    <2>2. CASE Attached(s) # {x}
      <3>1. PipesShrink
        BY <1>10 DEF Release, PipesShrink, AttachInv, AttachTyped
      <3> QED
        BY <1>10, <2>2, <3>1, HalfMoves DEF Release
    <2> QED
      BY <2>1, <2>2
  <1>11. ASSUME NEW s \in Session, NEW x \in Slot, EndInput(s, x) PROVE AttachInv'
    <2>1. PipesShrink
      BY <1>11, PipeType, ClosePipeShrinks DEF EndInput, AttachInv
    <2> QED
      BY <1>11, <2>1, HalfMoves DEF EndInput
  <1>12. CASE UNCHANGED attachVars
    BY <1>12 DEF attachVars, AttachInv, AttachTyped, ComingIsFresh, OneInputPipe,
                 ForgottenFirst, DeadIsSilent, OneLiveSession
  <1> QED
    BY <1>1, <1>2, <1>3, <1>4, <1>5, <1>6, <1>7, <1>8, <1>9, <1>10, <1>11, <1>12
    DEF AttachNext, RelayStep, Teardown

(* Two input halves on open pipes both have the session's one open pipe. *)
LEMMA OnePipeIsShared == AttachInv => SamePipe
  <1> SUFFICES ASSUME AttachInv, NEW s \in Session,
                      {Open(PipeOf(s, x)) /\ half[s][x] \in {"relay", "blocked"}
                         : x \in InSlot} = {TRUE}
               PROVE  holds[s]["clientIn"] = holds[s]["workerIn"]
    BY DEF SamePipe
  <1>1. ASSUME NEW x \in InSlot PROVE holds[s][x] = inPipe[s]
    <2>1. Open(PipeOf(s, x))
      OBVIOUS
    <2>2. x \notin OutSlot
      BY DEF InSlot, OutSlot
    <2>3. holds[s][x] \in inOpen[s]
      BY <2>1, <2>2 DEF Open, PipeOf
    <2> QED
      BY <2>3 DEF AttachInv, OneInputPipe
  <1> QED
    BY <1>1 DEF InSlot

(* The two ends of an attached job meet on one session and, for what is      *)
(* typed, on one pipe, in whatever order halves arrive, drop and come back.  *)
THEOREM TerminalEndsMeet == AttachSpec => []EndsMeet
  <1>1. AttachInv => EndsMeet
    BY OnePipeIsShared DEF AttachInv, EndsMeet
  <1> QED
    BY <1>1, AttachInitInv, AttachNextInv, PTL DEF AttachSpec

(* A session that is over is never joined again and has no open pipe left,   *)
(* whatever a late guard, a reconnecting half or a second teardown does.     *)
THEOREM OverStaysOver == AttachSpec => []DeadIsSilent
  <1>1. AttachInv => DeadIsSilent
    BY DEF AttachInv
  <1> QED
    BY <1>1, AttachInitInv, AttachNextInv, PTL DEF AttachSpec
=============================================================================
