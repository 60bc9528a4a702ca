-------------------------------- MODULE Exec --------------------------------
(***************************************************************************)
(* One run of a job's process (worker/exec.go, pty.go, sweep.go): Run or a *)
(* PTY session starts the leader, waits, on a cancel or a watchdog signals *)
(* the target, and at the end sweeps for what carries the job's id.  The   *)
(* target is the process group, or under a PTY the session; a process that *)
(* calls setsid leaves either.  Processes fork, detach, get stuck in a     *)
(* driver call and exit as they like, or ignore a SIGTERM for ever.  They  *)
(* keep the environment they inherit, and the sweep may read it; but it    *)
(* lists /proc first and reads the processes one by one afterwards.        *)
(***************************************************************************)
EXTENDS Naturals

CONSTANTS Leader, Child

ASSUME ExecAssumption == Leader \notin Child

Process == Child \cup {Leader}

VARIABLES
  stdio,     \* pipes, or pty
  sweeps,    \* SweepJobID is set: a job, not a hook or a probe
  life,      \* none, in the target, out of it, zombie in the target, dead
  stuck,     \* the processes that do not react to SIGKILL
  holds,     \* the processes with the output pipe open, if there is one
  told,      \* the leader, once Run has signalled it
  exit,      \* the leader's wait status: none, a code of its own, signal
  stopping,  \* runCtx is done: none, cancelled, watchdog
  waited,    \* cmd.Wait has returned
  run,       \* wait, spin, signal, term, forced, clean, settle, reap, sweep,
             \* asked, insisted, done
  stopped,   \* superviseTarget went down its cancellation path
  delivered,
  found,     \* reapStragglers found something
  label,     \* none, or the reason that goes with Killed
  signalled, \* of the current sweepPhase
  last,      \* what its last scan saw, or this one so far
  walking,   \* scanLiveProcs is under way
  unread,    \* the processes it has listed and not read yet
  forked,    \* history: who has forked since the listing
  lost,      \* history: one of them ended before it was read
  remaining, \* SweepReport.Remaining
  messy      \* history: a process was alive in the target after Wait

osVars == <<stdio, sweeps, stuck, holds, forked>>
walkVars == <<walking, unread, lost>>
reportVars == <<label, remaining, messy>>
execVars == <<stdio, sweeps, life, stuck, holds, told, exit, stopping,
              waited, run, stopped, delivered, found, label, signalled, last,
              walking, unread, forked, lost, remaining, messy>>
supVars == <<waited, run, stopped, delivered, found, signalled, last, walkVars,
             reportVars>>

ExecInit ==
  /\ stdio \in {"pipes", "pty"} /\ sweeps \in BOOLEAN
  /\ life = [p \in Process |-> IF p = Leader THEN "in" ELSE "none"]
  /\ stuck = {} /\ told = {}
  /\ holds = IF stdio = "pipes" THEN {Leader} ELSE {}
  /\ exit = "none" /\ stopping = "none" /\ waited = FALSE
  /\ run = "wait" /\ stopped = FALSE /\ delivered = FALSE /\ found = FALSE
  /\ label = "none"
  /\ signalled = {} /\ last = {} /\ remaining = {} /\ messy = FALSE
  /\ walking = FALSE /\ unread = {} /\ forked = {} /\ lost = FALSE

Live == {p \in Process : life[p] \in {"in", "out"}}
Inside == {p \in Process : life[p] = "in"}
-----------------------------------------------------------------------------
(* What the processes do. *)
Fork(p) ==
  /\ p \in Live \ stuck
  /\ \E c \in Child : life[c] = "none"
  /\ LET c == CHOOSE c \in Child : life[c] = "none"
     IN  /\ life' = [life EXCEPT ![c] = life[p]]
         /\ holds' = IF p \in holds THEN holds \cup {c} ELSE holds
  /\ forked' = IF walking THEN forked \cup {p} ELSE forked
  /\ UNCHANGED <<stdio, sweeps, stuck, told, exit, stopping, supVars>>

Setsid(c) ==
  /\ c \in Inside \ stuck
  /\ life' = [life EXCEPT ![c] = "out"]
  /\ UNCHANGED <<osVars, told, exit, stopping, supVars>>

CloseOutput(p) ==
  /\ p \in Live \ stuck /\ p \in holds
  /\ holds' = holds \ {p}
  /\ UNCHANGED <<stdio, sweeps, life, stuck, forked, told, exit, stopping,
                 supVars>>

GetStuck(p) ==
  /\ p \in Live \ stuck
  /\ stuck' = stuck \cup {p}
  /\ UNCHANGED <<stdio, sweeps, life, holds, forked, told, exit, stopping,
                 supVars>>

(* The processes of gone end; the leader with this status. *)
Die(gone, how) ==
  /\ life' = [p \in Process |->
                IF p \notin gone THEN life[p]
                ELSE IF life[p] = "in" THEN "zombie" ELSE "dead"]
  /\ holds' = holds \ gone
  /\ stuck' = stuck \ gone
  /\ exit' = IF Leader \in gone THEN how ELSE exit

(* A process ends of its own, on a SIGTERM, or by somebody else's signal. *)
Ends(p, how) ==
  /\ p \in Live
  /\ p # Leader => how = "code"
  /\ Die({p}, how)
  /\ UNCHANGED <<stdio, sweeps, forked, told, stopping, supVars>>

(* Its parent, or init, collects it; the leader's parent is cmd.Wait. *)
Collect(p) ==
  /\ life[p] = "zombie"
  /\ life' = [life EXCEPT ![p] = "dead"]
  /\ UNCHANGED <<osVars, told, exit, stopping, supVars>>

(* It returns once the output pipe has no writer left, under a PTY at once. *)
WaitReturns ==
  /\ ~waited /\ life[Leader] = "dead"
  /\ stdio = "pty" \/ holds = {}
  /\ waited' = TRUE
  /\ UNCHANGED <<osVars, life, told, exit, stopping, run, stopped, delivered,
                 found, signalled, last, walkVars, reportVars>>

(* A kill, a shutdown or a closed terminal; or MaxRuntime or IdleTimeout,   *)
(* whose goroutine ends with runCtx but may take a tick before it sees that.*)
Stop(why) ==
  /\ stopping = "none" \/ (stopping = "cancelled" /\ why = "watchdog")
  /\ run \notin {"sweep", "asked", "insisted", "done"}
  /\ stopping' = why
  /\ UNCHANGED <<osVars, life, told, exit, supVars>>
-----------------------------------------------------------------------------
(* kill(2): SIGTERM works in its own time, SIGKILL at once. *)
Signal(to, sig) ==
  /\ told' = told \cup (to \cap {Leader})
  /\ IF sig = "kill" THEN Die(to \ stuck, "signal")
     ELSE UNCHANGED <<life, holds, stuck, exit>>

(* superviseTarget's select. *)
SeeExit ==
  /\ run \in {"wait", "spin"} /\ waited
  /\ run' = "clean"
  /\ UNCHANGED <<osVars, life, told, exit, stopping, waited, stopped, delivered,
                 found, signalled, last, walkVars, reportVars>>

SeeStop ==
  /\ run = "wait" /\ stopping # "none"
  /\ run' = "spin"
  /\ UNCHANGED <<osVars, life, told, exit, stopping, waited, stopped, delivered,
                 found, signalled, last, walkVars, reportVars>>

(* The last of the spins found nothing in waitErr. *)
SpinsOver ==
  /\ run = "spin" /\ ~waited
  /\ run' = "signal"
  /\ UNCHANGED <<osVars, life, told, exit, stopping, waited, stopped, delivered,
                 found, signalled, last, walkVars, reportVars>>

(* A zombie takes a signal as well as a process does. *)
SendTerm ==
  /\ run = "signal"
  /\ Signal(Inside, "term")
  /\ delivered' = (\E p \in Process : life[p] \in {"in", "zombie"})
  /\ run' = "term"
  /\ UNCHANGED <<stdio, sweeps, forked, stopping, waited, stopped, found,
                 signalled, last, walkVars, reportVars>>

(* Whoever does not go after SIGTERM is waited for. *)
GraceOver_Waits == FALSE

(* The grace is over with the leader still there. *)
GraceOver == run = "term"

SendKill ==
  /\ GraceOver
  /\ Signal(Inside, "kill")
  /\ run' = "forced"
  /\ UNCHANGED <<stdio, sweeps, forked, stopping, waited, stopped, delivered,
                 found, signalled, last, walkVars, reportVars>>

SeeStopped ==
  /\ run \in {"term", "forced"} /\ waited
  /\ run' = "settle"
  /\ UNCHANGED <<osVars, life, told, exit, stopping, waited, stopped, delivered,
                 found, signalled, last, walkVars, reportVars>>

(* groupAlive, sessionTarget.alive: a zombie is not a straggler. *)
TargetAlive == Inside # {}

(* reapStragglers, from finishClean or after a stop.  The walk behind        *)
(* TargetAlive is not taken apart here: it may miss somebody, too.           *)
ReapStragglers ==
  /\ run \in {"clean", "settle"}
  /\ found' \in {TargetAlive, FALSE}
  /\ messy' = (Inside # {})
  /\ Signal(IF found' THEN Inside ELSE {}, "kill")
  /\ run' = "reap"
  /\ stopped' = (run = "settle")
  /\ UNCHANGED <<stdio, sweeps, forked, stopping, waited, delivered, label,
                 signalled, last, walkVars, remaining>>

(* The wait status speaks for itself unless the process was signalled. *)
Labelled_WaitStatus ==
  IF exit = "signal" THEN "signal" ELSE "none"

(* finish, finishClean, and what a stop makes of it: the watchdog's reason  *)
(* goes before "cancelled".                                                 *)
Labelled ==
  CASE stopped /\ stopping = "watchdog" -> "watchdog"
    [] stopped /\ (delivered \/ found) -> "cancelled"
    [] ~stopped /\ found -> "stragglers"
    [] exit = "signal" -> "signal"
    [] OTHER -> "none"

(* awaitTargetExit is over: the target is empty, or stragglerWait is up, and *)
(* what superviseTarget knew goes with it.                                   *)
Supervised ==
  /\ run = "reap"
  /\ label' = Labelled
  /\ run' = IF sweeps THEN "sweep" ELSE "done"
  /\ stopped' = FALSE /\ delivered' = FALSE /\ found' = FALSE
  /\ UNCHANGED <<osVars, life, told, exit, stopping, waited, signalled, last,
                 walkVars, remaining, messy>>
-----------------------------------------------------------------------------
(* The processes the last scan found. *)
SweepListed_Fixed == IF run = "sweep" THEN Live ELSE last \cap Live

(* Every scan lists /proc anew: a survivor may have forked. *)
SweepListed == Live

(* scanLiveProcs: ReadDir. *)
SweepList ==
  /\ run \in {"sweep", "asked", "insisted"} /\ ~walking
  /\ walking' = TRUE
  /\ unread' = SweepListed
  /\ last' = {}
  /\ UNCHANGED <<osVars, life, told, exit, stopping, waited, run, stopped, delivered,
                 found, signalled, lost, reportVars>>

(* It reads the stat and the environment of one; who has ended since the    *)
(* listing is nobody.                                                       *)
SweepRead(p) ==
  /\ walking /\ p \in unread
  /\ unread' = unread \ {p}
  /\ last' = IF p \in Live THEN last \cup {p} ELSE last
  /\ lost' = (lost \/ (p \notin Live /\ p \in forked))
  /\ UNCHANGED <<osVars, life, told, exit, stopping, waited, run, stopped, delivered,
                 found, signalled, walking, reportVars>>

ScanEnds == /\ walking /\ unread = {}
            /\ walking' = FALSE /\ forked' = {}
            /\ UNCHANGED unread

(* sweepJobSurvivors, sweepPhase: the scan has found nobody. *)
SweepEmpty ==
  /\ ScanEnds /\ last = {}
  /\ run' = "done"
  /\ UNCHANGED <<stdio, sweeps, stuck, holds, life, told, exit, stopping, waited,
                 stopped, delivered, found, signalled, last, lost, reportVars>>

(* Nothing the sweep does touches the outcome. *)
SweepLabel == label

(* sweepJobSurvivors: the first scan has found somebody. *)
SweepBegins ==
  /\ ScanEnds /\ run = "sweep" /\ last # {}
  /\ run' = "asked"
  /\ lost' = FALSE
  /\ label' = SweepLabel
  /\ UNCHANGED <<stdio, sweeps, stuck, holds, life, told, exit, stopping, waited,
                 stopped, delivered, found, signalled, last, remaining, messy>>

(* One pass of sweepPhase: it signals whom it has not signalled yet, and     *)
(* sleeps.                                                                   *)
SweepPhase ==
  /\ ScanEnds /\ run \in {"asked", "insisted"} /\ last # {}
  /\ lost' = FALSE
  /\ Signal((last \ signalled) \cap Live, IF run = "asked" THEN "term" ELSE "kill")
  /\ signalled' = signalled \cup last
  /\ UNCHANGED <<stdio, sweeps, stopping, waited, run, stopped, delivered, found, last,
                 reportVars>>

(* sweepGrace, then stragglerWait, is up: what the last scan saw. *)
SweepTimeout ==
  /\ run \in {"asked", "insisted"} /\ ~walking /\ signalled # {}
  /\ run' = IF run = "asked" THEN "insisted" ELSE "done"
  /\ remaining' = IF run = "asked" THEN {} ELSE last
  /\ signalled' = {}
  /\ UNCHANGED <<osVars, life, told, exit, stopping, waited, stopped, delivered,
                 found, last, walkVars, label, messy>>

Supervision ==
  \/ WaitReturns \/ SeeExit \/ SeeStop \/ SpinsOver \/ SendTerm \/ SendKill
  \/ SeeStopped \/ ReapStragglers \/ Supervised
  \/ SweepList \/ (\E p \in Process : SweepRead(p))
  \/ SweepEmpty \/ SweepBegins \/ SweepPhase \/ SweepTimeout

ExecNext ==
  \/ \E p \in Process :
       \/ Fork(p) \/ CloseOutput(p) \/ GetStuck(p) \/ Collect(p)
       \/ \E how \in {"code", "signal"} : Ends(p, how)
  \/ \E c \in Child : Setsid(c)
  \/ \E why \in {"cancelled", "watchdog"} : Stop(why)
  \/ Supervision

(* Run goes on, zombies are collected, and sweepPhase, which looks at its    *)
(* deadline after every pass, runs out of time.  No process has to end.      *)
ExecSpec == /\ ExecInit /\ [][ExecNext]_execVars
            /\ WF_execVars(Supervision)
            /\ SF_execVars(SweepTimeout)
            /\ \A p \in Process : WF_execVars(Collect(p))
-----------------------------------------------------------------------------
(* A sweep that reports itself clean leaves nothing of the job running,     *)
(* however its survivors forked under it.  There is one exception, the walk *)
(* of /proc that decides it: a process that forked after the listing and    *)
(* ended before it was read.  (SweepReport.Clean, scanLiveProcs.)           *)
CleanIsTrue ==
  run = "done" /\ sweeps /\ remaining = {} => Live = {} \/ lost

(* "A cancelled run is never mistaken for a valid one": a run whose leader  *)
(* Run has signalled is not reported as a success, though the leader may    *)
(* have taken the SIGTERM and exited with zero.                             *)
StoppedNeverSucceeds ==
  run = "done" /\ Leader \in told => label # "none"

(* "Reaping a survivor must never relabel a successful job as killed": a    *)
(* run that nobody stopped, whose leader exited of itself and left no live  *)
(* process in the target, keeps its own outcome, whatever zombies it left   *)
(* behind and whatever the sweep found.                                     *)
NeverRelabelled ==
  run = "done" /\ stopping = "none" /\ exit # "signal" /\ ~messy
  => label = "none"

(* The outcome that Run reports is the one the job had: a stop is not lost   *)
(* to an exit code of zero, and a success not to zombies or to the sweep.    *)
LabelIsTrue == StoppedNeverSucceeds /\ NeverRelabelled

(* What keeps cmd.Wait from returning though the target was killed: a       *)
(* process out of its reach, or stuck, with the output pipe open; or a      *)
(* stuck leader.                                                            *)
HeldOpen ==
  \/ Leader \in stuck
  \/ stdio = "pipes" /\ \E p \in holds : life[p] = "out" \/ p \in stuck

(* A run that is to stop does stop, whatever its processes ignore: Run      *)
(* returns, unless something keeps cmd.Wait from returning.                 *)
RunReturns == []<>(stopping = "none" \/ run = "done" \/ HeldOpen)
=============================================================================
