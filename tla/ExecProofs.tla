----------------------------- MODULE ExecProofs -----------------------------
(***************************************************************************)
(* Proofs about Exec, for any number of processes: what Run reports of a   *)
(* job's process tree is true.  The argument follows the leader.  Once     *)
(* cmd.Wait has returned it is collected, so no signal reaches it and its  *)
(* status is fixed; a leader that was signalled was there when SIGTERM was *)
(* sent, so that kill(2) said it was delivered.                            *)
(***************************************************************************)
EXTENDS Exec, TLAPS

(* The steps of the sweep and the end, when the label is settled. *)
After == {"sweep", "asked", "insisted", "done"}

ExecTyped ==
  /\ life \in [Process -> {"none", "in", "out", "zombie", "dead"}]
  /\ told \subseteq Process /\ last \subseteq Process
  /\ run \in After \cup {"wait", "spin", "signal", "term", "forced", "clean",
                         "settle", "reap"}
  /\ sweeps \in BOOLEAN /\ waited \in BOOLEAN /\ stopped \in BOOLEAN
  /\ delivered \in BOOLEAN /\ found \in BOOLEAN /\ messy \in BOOLEAN
  /\ walking \in BOOLEAN /\ lost \in BOOLEAN
  /\ unread \subseteq Process /\ forked \subseteq Process

(* The leader does not leave its group, and is collected before Wait returns. *)
LeaderKept ==
  /\ life[Leader] \in {"in", "zombie", "dead"}
  /\ waited => life[Leader] = "dead"
  /\ run \in After \cup {"clean", "settle", "reap"} => waited

(* A leader that was signalled: kill(2) said so, and the label will. *)
LeaderTold ==
  /\ run \in {"wait", "spin", "signal", "clean"} => Leader \notin told
  /\ run \in {"term", "forced", "settle"}
       /\ (Leader \in told \/ life[Leader] = "in") => delivered
  /\ run = "reap" /\ Leader \in told => stopped /\ delivered
  /\ run \in After /\ Leader \in told => label # "none"

(* A label has a reason. *)
Reasoned ==
  /\ run \in {"spin", "signal", "term", "forced", "settle"} => stopping # "none"
  /\ run = "reap" => (stopped => stopping # "none") /\ (found => messy)
  /\ run \in After /\ label # "none" =>
       stopping # "none" \/ exit = "signal" \/ messy

(* Between two walks sweepPhase has something it saw, and outside of the     *)
(* sweep there is no walk.                                                   *)
Sweeping ==
  /\ run \in {"asked", "insisted"} /\ ~walking => last # {}
  /\ walking => run \in {"sweep", "asked", "insisted"}

(* A walk that has found nobody so far and lost nobody: whoever is alive is  *)
(* still to be read, or descends from one who is and has forked meanwhile.   *)
WalkSees ==
  walking /\ last = {} /\ ~lost =>
    Live \subseteq unread \/ unread \cap forked # {}

ExecInv == /\ ExecTyped /\ LeaderKept /\ LeaderTold /\ Reasoned
           /\ Sweeping /\ WalkSees /\ CleanIsTrue

(* What the sweep has seen, without the label and the leader. *)
SweepInv == Sweeping /\ WalkSees /\ CleanIsTrue

(* A run starts with a live leader and nothing else. *)
LEMMA ExecInitInv == ExecInit => ExecInv
  <1> SUFFICES ASSUME ExecInit PROVE ExecInv
    OBVIOUS
  <1> USE ExecAssumption DEF ExecInit
  <1>1. ExecTyped /\ LeaderKept
    BY DEF ExecTyped, LeaderKept, After, Process
  <1>2. LeaderTold /\ Reasoned
    BY DEF LeaderTold, Reasoned, After
  <1>3. Sweeping /\ WalkSees /\ CleanIsTrue
    BY DEF Sweeping, WalkSees, CleanIsTrue
  <1> QED BY <1>1, <1>2, <1>3 DEF ExecInv

(* A step that revives nobody and is no step of the sweep keeps what the     *)
(* sweep has seen.                                                           *)
LEMMA NobodyNew ==
  ASSUME ExecInv, Live' \subseteq Live, forked' = forked,
         UNCHANGED <<sweeps, last, walking, unread, lost, remaining>>,
         \/ run' = run
         \/ run \notin After /\ run' \notin {"asked", "insisted"}
              /\ (run' = "done" => ~sweeps)
  PROVE  SweepInv'
  <1>1. Sweeping'
    BY DEF ExecInv, Sweeping, After
  <1>2. WalkSees'
    BY DEF ExecInv, WalkSees
  <1>3. CleanIsTrue'
    BY DEF ExecInv, CleanIsTrue, After
  <1> QED BY <1>1, <1>2, <1>3 DEF SweepInv

(* What the processes do by themselves keeps the invariant: a dead leader    *)
(* stays dead, an empty job stays empty, and a child has a parent.           *)
LEMMA ProcessesKeep ==
  ASSUME ExecInv, NEW p \in Process, NEW how \in {"code", "signal"},
         \/ Fork(p) \/ CloseOutput(p) \/ GetStuck(p) \/ Collect(p)
         \/ Ends(p, how) \/ (p \in Child /\ Setsid(p))
  PROVE  ExecInv'
  <1> USE ExecAssumption DEF ExecInv, supVars, walkVars, reportVars, osVars
  <1>1. CASE Fork(p)
    <2> DEFINE c == CHOOSE c \in Child : life[c] = "none"
    <2>1. c \in Child /\ life[c] = "none"
      BY <1>1 DEF Fork
    <2>2. /\ life' = [life EXCEPT ![c] = life[p]]
          /\ forked' = IF walking THEN forked \cup {p} ELSE forked
          /\ UNCHANGED <<sweeps, told, exit, stopping, waited, run, stopped,
                         delivered, found, last, walking, unread, lost, label,
                         remaining, messy>>
      BY <1>1 DEF Fork
    <2>3. c # Leader /\ c \in Process /\ p \in Live
      BY <1>1, <2>1 DEF Fork, Process
    <2> HIDE DEF c
    <2>4. ExecTyped'
      BY <2>2, <2>3 DEF ExecTyped
    <2>5. LeaderKept' /\ LeaderTold' /\ Reasoned'
      BY <2>2, <2>3 DEF ExecTyped, LeaderKept, LeaderTold, Reasoned
    <2>6. Sweeping' /\ CleanIsTrue'
      BY <2>2, <2>3 DEF Sweeping, CleanIsTrue
    <2>7. WalkSees'
      BY <2>2, <2>3 DEF WalkSees
    <2> QED BY <2>4, <2>5, <2>6, <2>7
  <1>2. CASE CloseOutput(p) \/ GetStuck(p)
    <2>1. UNCHANGED <<sweeps, life, told, exit, stopping, waited, run, stopped,
                      delivered, found, last, walking, unread, forked, lost, label,
                      remaining, messy>>
      BY <1>2 DEF CloseOutput, GetStuck
    <2>2. ExecTyped' /\ LeaderKept' /\ LeaderTold' /\ Reasoned'
      BY <2>1 DEF ExecTyped, LeaderKept, LeaderTold, Reasoned
    <2>3. SweepInv'
      BY <2>1, NobodyNew DEF Live
    <2> QED BY <2>2, <2>3 DEF SweepInv
  <1>3. CASE Collect(p)
    <2>1. /\ life[p] = "zombie" /\ life' = [life EXCEPT ![p] = "dead"]
          /\ UNCHANGED <<sweeps, told, exit, stopping, waited, run, stopped,
                         delivered, found, last, walking, unread, forked, lost, label,
                         remaining, messy>>
      BY <1>3 DEF Collect
    <2>2. ExecTyped' /\ LeaderKept' /\ LeaderTold' /\ Reasoned'
      BY <2>1 DEF ExecTyped, LeaderKept, LeaderTold, Reasoned
    <2>3. Live' \subseteq Live
      BY <2>1 DEF ExecTyped, Live
    <2>4. SweepInv'
      BY <2>1, <2>3, NobodyNew
    <2> QED BY <2>2, <2>4 DEF SweepInv
  <1>4. CASE Ends(p, how)
    <2>1. /\ p \in Live
          /\ life' = [q \in Process |->
                        IF q \notin {p} THEN life[q]
                        ELSE IF life[q] = "in" THEN "zombie" ELSE "dead"]
          /\ exit' = IF Leader \in {p} THEN how ELSE exit
          /\ UNCHANGED <<sweeps, told, stopping, waited, run, stopped,
                         delivered, found, last, walking, unread, forked, lost, label,
                         remaining, messy>>
      BY <1>4 DEF Ends, Die
    <2>2. ExecTyped' /\ LeaderKept' /\ LeaderTold'
      BY <2>1 DEF ExecTyped, LeaderKept, LeaderTold, Live, Process
    <2>3. Reasoned'
      BY <2>1 DEF ExecTyped, LeaderKept, Reasoned, Live
    <2>4. Live' \subseteq Live
      BY <2>1 DEF ExecTyped, Live
    <2>5. SweepInv'
      BY <2>1, <2>4, NobodyNew
    <2> QED BY <2>2, <2>3, <2>5 DEF SweepInv
  <1>5. CASE p \in Child /\ Setsid(p)
    <2>1. /\ p # Leader /\ p \in Live
          /\ life' = [life EXCEPT ![p] = "out"]
          /\ UNCHANGED <<sweeps, told, exit, stopping, waited, run, stopped,
                         delivered, found, last, walking, unread, forked, lost, label,
                         remaining, messy>>
      BY <1>5 DEF Setsid, Inside, Live
    <2>2. ExecTyped' /\ LeaderKept' /\ LeaderTold' /\ Reasoned'
      BY <2>1 DEF ExecTyped, LeaderKept, LeaderTold, Reasoned, Process
    <2>3. Live' \subseteq Live
      BY <2>1 DEF ExecTyped, Live
    <2>4. SweepInv'
      BY <2>1, <2>3, NobodyNew
    <2> QED BY <2>2, <2>4 DEF SweepInv
  <1> QED BY <1>1, <1>2, <1>3, <1>4, <1>5

(* A signal leaves a collected leader alone, and revives nobody. *)
LEMMA SignalEffect ==
  ASSUME ExecInv, NEW to \in SUBSET Live, NEW sig \in {"term", "kill"},
         Signal(to, sig)
  PROVE  /\ life' \in [Process -> {"none", "in", "out", "zombie", "dead"}]
         /\ \A q \in Process : life'[q] # life[q] =>
              q \in to /\ life'[q] \in {"zombie", "dead"}
         /\ life'[Leader] \in {"in", "zombie", "dead"}
         /\ told' = told \cup (to \cap {Leader})
         /\ life[Leader] = "dead" =>
              Leader \notin to /\ life'[Leader] = "dead" /\ exit' = exit
         /\ Live' \subseteq Live
  <1>1. CASE sig = "kill"
    BY <1>1 DEF ExecInv, ExecTyped, LeaderKept, Signal, Die, Live, Process
  <1>2. CASE sig = "term"
    BY <1>2 DEF ExecInv, ExecTyped, LeaderKept, Signal, Live, Process
  <1> QED BY <1>1, <1>2

(* Waiting, stopping and the signals of superviseTarget keep the invariant. *)
LEMMA SupervisionKeeps ==
  ASSUME ExecInv,
         \/ WaitReturns \/ SeeExit \/ SeeStop \/ SpinsOver \/ SendTerm
         \/ SendKill \/ SeeStopped
         \/ \E why \in {"cancelled", "watchdog"} : Stop(why)
  PROVE  ExecInv'
  <1> USE ExecAssumption DEF ExecInv, supVars, walkVars, reportVars, osVars
  <1>1. CASE WaitReturns
    <2>1. ExecTyped' /\ LeaderKept' /\ LeaderTold' /\ Reasoned'
      BY <1>1 DEF WaitReturns, ExecTyped, LeaderKept, LeaderTold, Reasoned
    <2>2. SweepInv'
      BY <1>1, NobodyNew DEF WaitReturns, Live
    <2> QED BY <2>1, <2>2 DEF SweepInv
  <1>2. CASE SeeExit \/ SeeStop \/ SpinsOver \/ SeeStopped
    <2>1. UNCHANGED <<sweeps, life, told, exit, stopping, waited, stopped,
                      delivered, found, last, walking, unread, forked, lost, label,
                      remaining, messy>>
      BY <1>2 DEF SeeExit, SeeStop, SpinsOver, SeeStopped
    <2>2. \/ run \in {"wait", "spin"} /\ waited /\ run' = "clean"
          \/ run = "wait" /\ stopping # "none" /\ run' = "spin"
          \/ run = "spin" /\ run' = "signal"
          \/ run \in {"term", "forced"} /\ waited /\ run' = "settle"
      BY <1>2 DEF SeeExit, SeeStop, SpinsOver, SeeStopped
    <2>3. ExecTyped' /\ LeaderKept'
      BY <2>1, <2>2 DEF ExecTyped, LeaderKept, After
    <2>4. LeaderTold' /\ Reasoned'
      BY <2>1, <2>2 DEF LeaderTold, Reasoned, After
    <2>5. SweepInv'
      BY <2>1, <2>2, NobodyNew DEF Live, After
    <2> QED BY <2>3, <2>4, <2>5 DEF SweepInv
  <1>3. ASSUME NEW why \in {"cancelled", "watchdog"}, Stop(why) PROVE ExecInv'
    <2>1. ExecTyped' /\ LeaderKept' /\ LeaderTold' /\ Reasoned'
      BY <1>3 DEF Stop, ExecTyped, LeaderKept, LeaderTold, Reasoned
    <2>2. SweepInv'
      BY <1>3, NobodyNew DEF Stop, Live
    <2> QED BY <2>1, <2>2 DEF SweepInv
  <1>4. CASE SendTerm
    <2>1. Inside \in SUBSET Live
      BY DEF Inside, Live
    <2>2. /\ run = "signal" /\ run' = "term" /\ Signal(Inside, "term")
          /\ delivered' = (\E p \in Process : life[p] \in {"in", "zombie"})
          /\ UNCHANGED <<sweeps, stopping, waited, stopped, found, last, walking,
                         unread, forked, lost, label, remaining, messy>>
      BY <1>4 DEF SendTerm
    <2>3. life' = life /\ told' = told \cup (Inside \cap {Leader})
      BY <2>2 DEF Signal
    <2>4. ExecTyped' /\ LeaderKept' /\ Reasoned'
      BY <2>2, <2>3 DEF ExecTyped, LeaderKept, Reasoned, Inside, After
    <2>5. LeaderTold'
      BY <2>2, <2>3 DEF LeaderTold, Inside, After, Process
    <2>6. SweepInv'
      BY <2>2, <2>3, NobodyNew DEF Live, After
    <2> QED BY <2>4, <2>5, <2>6 DEF SweepInv
  <1>5. CASE SendKill
    <2>1. Inside \in SUBSET Live
      BY DEF Inside, Live
    <2>2. /\ run = "term" /\ run' = "forced" /\ Signal(Inside, "kill")
          /\ UNCHANGED <<sweeps, stopping, waited, stopped, delivered, found,
                         last, walking, unread, forked, lost, label, remaining, messy>>
      BY <1>5 DEF SendKill, GraceOver
    <2>3. ExecTyped' /\ LeaderKept'
      BY <2>1, <2>2, SignalEffect
      DEF ExecTyped, LeaderKept, Inside, After
    <2>4. Reasoned'
      BY <2>2 DEF Reasoned, After
    <2>5. LeaderTold'
      BY <2>1, <2>2, SignalEffect DEF LeaderTold, Inside, After, Process
    <2>6. SweepInv'
      BY <2>1, <2>2, SignalEffect, NobodyNew DEF After
    <2> QED BY <2>3, <2>4, <2>5, <2>6 DEF SweepInv
  <1> QED BY <1>1, <1>2, <1>3, <1>4, <1>5

(* Reaping and labelling do. *)
LEMMA ReapingKeeps ==
  ASSUME ExecInv, ReapStragglers \/ Supervised
  PROVE  ExecInv'
  <1> USE ExecAssumption DEF ExecInv, supVars, walkVars, reportVars, osVars
  <1>1. CASE ReapStragglers
    <2> DEFINE to == IF found' THEN Inside ELSE {}
    <2>1. to \in SUBSET Live
      BY DEF Inside, Live
    <2>2. /\ run \in {"clean", "settle"} /\ run' = "reap"
          /\ Signal(to, "kill")
          /\ found' \in BOOLEAN /\ (found' => Inside # {})
          /\ messy' = (Inside # {})
          /\ stopped' = (run = "settle")
          /\ UNCHANGED <<sweeps, stopping, waited, delivered, last, walking, unread,
                         forked, lost, label, remaining>>
      BY <1>1 DEF ReapStragglers, TargetAlive
    <2> HIDE DEF to
    <2>3. life[Leader] = "dead"
      BY <2>2 DEF LeaderKept
    <2>4. ExecTyped' /\ LeaderKept'
      BY <2>1, <2>2, <2>3, SignalEffect DEF ExecTyped, LeaderKept, Live, After
    <2>5. LeaderTold'
      BY <2>1, <2>2, <2>3, SignalEffect DEF LeaderTold, After
    <2>6. Reasoned'
      BY <2>2 DEF Reasoned, After
    <2>7. SweepInv'
      BY <2>1, <2>2, SignalEffect, NobodyNew DEF After
    <2> QED BY <2>4, <2>5, <2>6, <2>7 DEF SweepInv
  <1>2. CASE Supervised
    <2>1. /\ run = "reap" /\ run' = IF sweeps THEN "sweep" ELSE "done"
          /\ label' = Labelled
          /\ stopped' = FALSE /\ delivered' = FALSE /\ found' = FALSE
          /\ UNCHANGED <<sweeps, life, told, exit, stopping, waited, last, walking,
                         unread, forked, lost, remaining, messy>>
      BY <1>2 DEF Supervised
    <2>2. stopped /\ delivered => Labelled # "none"
      BY DEF Labelled
    <2>3. Labelled # "none" =>
            (stopped /\ stopping # "none") \/ found \/ exit = "signal"
      BY <2>1 DEF Labelled, Reasoned
    <2>4. ExecTyped' /\ LeaderKept'
      BY <2>1 DEF ExecTyped, LeaderKept, After
    <2>5. LeaderTold' /\ Reasoned'
      BY <2>1, <2>2, <2>3 DEF LeaderTold, Reasoned, ExecTyped, After
    <2>6. SweepInv'
      BY <2>1, NobodyNew DEF Live, After
    <2> QED BY <2>4, <2>5, <2>6 DEF SweepInv
  <1> QED BY <1>1, <1>2

(* The sweep does: it ends with a walk that finds nobody, or reports whom it *)
(* saw last, and touches neither the leader nor the label.                   *)
LEMMA SweepKeeps ==
  ASSUME ExecInv,
         \/ SweepList \/ (\E p \in Process : SweepRead(p))
         \/ SweepBegins \/ SweepPhase \/ SweepEmpty \/ SweepTimeout
  PROVE  ExecInv'
  <1> USE ExecAssumption DEF ExecInv, supVars, walkVars, reportVars, osVars
  <1>1. ASSUME \/ SweepList \/ (\E p \in Process : SweepRead(p))
               \/ SweepBegins \/ SweepEmpty \/ SweepTimeout
        PROVE  ExecInv'
    <2>1. /\ run \in After /\ run' \in After
          /\ last' \subseteq Process /\ unread' \subseteq Process
          /\ forked' \subseteq Process
          /\ walking' \in BOOLEAN /\ lost' \in BOOLEAN
          /\ UNCHANGED <<sweeps, life, told, exit, stopping, waited, stopped,
                         delivered, found, label, messy>>
      BY <1>1 DEF SweepList, SweepListed, SweepRead, SweepBegins, SweepEmpty,
                  SweepTimeout, ScanEnds, After, SweepLabel, Live, Sweeping, ExecTyped
    <2>2. ExecTyped' /\ LeaderKept' /\ LeaderTold' /\ Reasoned'
      BY <2>1 DEF ExecTyped, LeaderKept, LeaderTold, Reasoned, After
    <2>3. CASE SweepList
      BY <2>1, <2>2, <2>3
      DEF SweepList, SweepListed, Sweeping, WalkSees, CleanIsTrue, Live
    <2>4. ASSUME NEW p \in Process, SweepRead(p) PROVE ExecInv'
      <3>1. Live' = Live
        BY <2>1 DEF Live
      <3>2. Sweeping' /\ CleanIsTrue'
        BY <2>1, <2>4 DEF SweepRead, Sweeping, CleanIsTrue
      <3>3. ASSUME walking', last' = {}, ~lost'
            PROVE  Live \subseteq unread' \/ unread' \cap forked # {}
        <4>1. p \notin Live /\ last = {} /\ unread' = unread \ {p}
          BY <2>4, <3>3 DEF SweepRead
        <4>2. ~lost /\ p \notin forked
          BY <2>4, <3>3, <4>1, Zenon DEF SweepRead
        <4>3. Live \subseteq unread \/ unread \cap forked # {}
          BY <2>4, <4>1, <4>2 DEF WalkSees, SweepRead
        <4> QED
          BY <4>1, <4>2, <4>3
      <3>4. WalkSees'
        BY <2>4, <3>1, <3>3 DEF WalkSees, SweepRead
      <3> QED
        BY <2>2, <3>2, <3>4
    <2>5. CASE SweepBegins
      BY <2>1, <2>2, <2>5 DEF SweepBegins, ScanEnds, Sweeping, WalkSees, CleanIsTrue
    <2>6. CASE SweepEmpty
      BY <2>1, <2>2, <2>6
      DEF SweepEmpty, ScanEnds, Sweeping, WalkSees, CleanIsTrue, Live
    <2>7. CASE SweepTimeout
      BY <2>1, <2>2, <2>7 DEF SweepTimeout, Sweeping, WalkSees, CleanIsTrue
    <2> QED BY <1>1, <2>3, <2>4, <2>5, <2>6, <2>7
  <1>2. CASE SweepPhase
    <2> DEFINE to == (last \ signalled) \cap Live
               sig == IF run = "asked" THEN "term" ELSE "kill"
    <2>1. /\ run \in {"asked", "insisted"} /\ last # {}
          /\ walking' = FALSE /\ forked' = {} /\ lost' = FALSE
          /\ Signal(to, sig)
          /\ UNCHANGED <<sweeps, stopping, waited, run, stopped, delivered,
                         found, last, unread, label, remaining, messy>>
      BY <1>2 DEF SweepPhase, ScanEnds
    <2>2. to \in SUBSET Live /\ sig \in {"term", "kill"}
      OBVIOUS
    <2>3. life[Leader] = "dead"
      BY <2>1 DEF LeaderKept, After
    <2> HIDE DEF to, sig
    <2>4. /\ life' \in [Process -> {"none", "in", "out", "zombie", "dead"}]
          /\ told' = told \cup (to \cap {Leader}) /\ life'[Leader] = "dead"
      BY <2>1, <2>2, <2>3, SignalEffect
    <2>5. ExecTyped' /\ LeaderKept'
      BY <2>1, <2>2, <2>4 DEF ExecTyped, LeaderKept, Live
    <2>6. LeaderTold' /\ Reasoned'
      BY <2>1, <2>2, <2>3, SignalEffect DEF LeaderTold, Reasoned, After
    <2>7. Sweeping' /\ WalkSees' /\ CleanIsTrue'
      BY <2>1 DEF Sweeping, WalkSees, CleanIsTrue
    <2> QED BY <2>5, <2>6, <2>7
  <1> QED BY <1>1, <1>2

(* The invariant holds of every reachable state of a run. *)
THEOREM ExecInvHolds == ExecSpec => []ExecInv
  <1>1. ASSUME ExecInv, [ExecNext]_execVars PROVE ExecInv'
    <2>1. CASE ExecNext
      <3>1. CASE Supervision
        BY <1>1, <3>1, SupervisionKeeps, ReapingKeeps, SweepKeeps DEF Supervision
      <3>2. CASE ~Supervision
        BY <1>1, <2>1, <3>2, ProcessesKeep, SupervisionKeeps DEF ExecNext, Process
      <3> QED BY <3>1, <3>2
    <2>2. CASE UNCHANGED execVars
      <3>1. ExecTyped' /\ LeaderKept' /\ LeaderTold' /\ Reasoned'
        BY <1>1, <2>2
        DEF execVars, ExecInv, ExecTyped, LeaderKept, LeaderTold, Reasoned
      <3>2. SweepInv'
        BY <1>1, <2>2, NobodyNew DEF execVars, Live
      <3> QED
        BY <3>1, <3>2 DEF ExecInv, SweepInv
    <2> QED BY <1>1, <2>1, <2>2
  <1> QED BY ExecInitInv, <1>1, PTL DEF ExecSpec

(* A run whose leader was signalled is never reported as a success           *)
(* (superviseTarget).                                                        *)
THEOREM StopIsReported == ExecSpec => []StoppedNeverSucceeds
  <1>1. ExecInv => StoppedNeverSucceeds
    BY DEF ExecInv, LeaderTold, StoppedNeverSucceeds, After
  <1> QED BY ExecInvHolds, <1>1, PTL

(* A run that nobody stopped and that left nothing alive in its group keeps  *)
(* its own outcome (finishClean, sweepJobSurvivors).                         *)
THEOREM OutcomeIsKept == ExecSpec => []NeverRelabelled
  <1>1. ExecInv => NeverRelabelled
    BY DEF ExecInv, Reasoned, NeverRelabelled, After
  <1> QED BY ExecInvHolds, <1>1, PTL

(* A sweep report that is clean is true, but for a process that forked and   *)
(* ended between the listing of /proc and its own turn (SweepReport.Clean).  *)
THEOREM CleanReportIsTrue == ExecSpec => []CleanIsTrue
  <1>1. ExecInv => CleanIsTrue
    BY DEF ExecInv
  <1> QED BY ExecInvHolds, <1>1, PTL

(* Run reports the outcome that the job had, for any number of processes.    *)
THEOREM OutcomeIsTrue == ExecSpec => []LabelIsTrue
  <1> QED BY StopIsReported, OutcomeIsKept, PTL DEF LabelIsTrue
=============================================================================
