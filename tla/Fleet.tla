------------------------------- MODULE Fleet -------------------------------
(***************************************************************************)
(* Workers running jobs against the store: the poll, heartbeat, report and *)
(* registration exchanges, the goroutine that supervises each job, and the *)
(* processes on the devices, which outlive a worker that is killed.        *)
(*                                                                         *)
(* Every step that reaches the controller is a transaction of Store joined *)
(* with what the worker or the network does in that step.  A request and   *)
(* its handling are separate steps, so any two exchanges may cross.        *)
(*                                                                         *)
(* Faults names what may go wrong; a configuration picks the faults and    *)
(* features whose combination it asks about.                               *)
(***************************************************************************)
EXTENDS Store, FiniteSets

CONSTANTS
  Faults,       \* what may happen, out of FaultKind
  Isolated,     \* the worker is PID 1 of its own namespace: no orphans
  MaxRegister   \* bound on the registrations of one worker in flight

FaultKind == {"crash",         \* kill -9 of a worker
              "reboot",        \* its host goes down and comes back
              "shutdown",      \* SIGTERM to a worker
              "restart",       \* rc serve restarts
              "lostPoll",      \* a poll's response never arrives
              "lostReport",    \* a terminal report fails on every attempt
              "lostFault",     \* a fault report fails on every attempt
              "lateRegister",  \* a registration is handled after its sender gave up
              "slowSpawn",     \* a job's goroutine is outrun by the next poll
              "slowBeat",      \* a heartbeat overlaps the handing out of a job
              "hookFail", "verifyFail",
              "kill", "operator"}

ASSUME FleetAssumption ==
  /\ Faults \subseteq FaultKind
  /\ Isolated \in BOOLEAN
  /\ MaxRegister \in Nat \ {0}
  /\ BootId \subseteq Nat

VARIABLES
  loop,      \* where the worker's Start is
  hostBoot,  \* the boot id of its host
  stage,     \* where a job's goroutine is, in the worker process of its device
  live,      \* the jobs that have a live process
  cancelled, \* the jobs whose context is cancelled while that still matters
  poll,      \* the handler serving the worker's poll
  beat,      \* the heartbeat in flight
  regs,      \* the registrations in flight
  suspect    \* history: the devices a hook or a verify pass found unusable,
             \* until an operator vouched for them

workerSide == <<loop, hostBoot, stage, live, cancelled, poll, beat, regs, suspect>>
fleetVars == <<vars, workerSide>>

DevicesOf(w) == {d \in Device : WorkerOf[d] = w}
JobsOf(w) == {j \in Job : Mine(w, j)}

(* The stages at which a job is in w.running, which is also what a heartbeat *)
(* names: supervisedJobIDs.                                                  *)
InRunning == {"acquiring", "running", "verifying", "faulting", "reporting",
              "failing", "blaming"}
Supervised(w) == {j \in JobsOf(w) : stage[j] \in InRunning}

(* A job that holds its device now or is about to. *)
Occupies(j) == j \in live \/ stage[j] \in {"spawned", "acquiring", "running"}
OccupiedBy(d) == {j \in Job : placed[j] = d /\ Occupies(j)}

Waiting == [at |-> "wait", jobs |-> {}, kills |-> {}]
NoBeat == [sent |-> FALSE, jobs |-> {}]

FleetInit ==
  /\ Init
  /\ loop = [w \in Worker |-> "down"]
  /\ hostBoot \in [Worker -> {b \in BootId : \A c \in BootId : b <= c}]
  /\ stage = [j \in Job |-> "none"]
  /\ live = {}
  /\ cancelled = {}
  /\ poll = [w \in Worker |-> Waiting]
  /\ beat = [w \in Worker |-> NoBeat]
  /\ regs = {}
  /\ suspect = {}
-----------------------------------------------------------------------------
(* Mutant: the worker claims a proof without having looked. *)
Proof_Unscanned(w) == BOOLEAN

(* Registration.  The request carries the boot id and the proof as they are  *)
(* when it is sent: recoveryProof scans for processes that carry a job id.   *)
(* A worker that may not look, or is told not to say, claims nothing.        *)
Proof(w) == {p \in BOOLEAN : p => Isolated \/ live \cap JobsOf(w) = {}}

RegsOf(w) == {m \in regs : m.from = w}

SendRegister(w) ==
  /\ Cardinality(RegsOf(w)) < MaxRegister
  /\ \E p \in Proof(w) :
       regs' = regs \cup {[from |-> w, boot |-> hostBoot[w], proof |-> p,
                           at |-> "sent", awaited |-> TRUE]}
  /\ UNCHANGED <<vars, hostBoot, stage, live, cancelled, poll, beat, suspect>>

(* Start: a new worker process registers before it does anything else. *)
StartWorker(w) ==
  /\ loop[w] = "down"
  /\ loop' = [loop EXCEPT ![w] = "registering"]
  /\ SendRegister(w)

(* maybeReregister, after a poll that brought nothing to start.  Whether one *)
(* is owed (contact was lost, or the controller is another process) is left  *)
(* open; a worker that has a job in hand does not register.                  *)
Reregister(w) ==
  /\ loop[w] = "idle"
  /\ Supervised(w) = {}
  /\ loop' = [loop EXCEPT ![w] = "reregistering"]
  /\ SendRegister(w)

(* handleRegister, its first transaction. *)
HandleRegister(m) ==
  /\ m.at = "sent"
  /\ UpsertWorker(m.from, m.boot, DevicesOf(m.from))
  /\ regs' = (regs \ {m}) \cup {[m EXCEPT !.at = "upserted"]}
  /\ UNCHANGED <<loop, hostBoot, stage, live, cancelled, poll, beat, suspect>>

(* Its second, and the answer: the worker that waits for it starts polling.  *)
AnswerRegister(m) ==
  /\ m.at = "upserted"
  /\ IF m.proof THEN AutoRecover(m.from) ELSE UNCHANGED vars
  /\ regs' = regs \ {m}
  /\ loop' = IF m.awaited THEN [loop EXCEPT ![m.from] = "polling"] ELSE loop
  /\ UNCHANGED <<hostBoot, stage, live, cancelled, poll, beat, suspect>>

(* The worker gives up on a registration that is still on its way: a first   *)
(* one ends the process, a later one is tried again some time.               *)
GiveUpRegister(m) ==
  /\ "lateRegister" \in Faults
  /\ m.awaited
  /\ regs' = (regs \ {m}) \cup {[m EXCEPT !.awaited = FALSE]}
  /\ loop' = [loop EXCEPT ![m.from] =
                IF @ = "registering" THEN "down" ELSE "polling"]
  /\ UNCHANGED <<vars, hostBoot, stage, live, cancelled, poll, beat, suspect>>
-----------------------------------------------------------------------------
(* The heartbeat loop: the list is taken when the request is made.           *)
SendBeat(w) ==
  /\ loop[w] \in {"polling", "idle", "reregistering"}
  /\ ~beat[w].sent
  /\ \/ "slowBeat" \in Faults
     \/ poll[w].jobs = {} /\ \A j \in JobsOf(w) : stage[j] # "spawned"
  /\ beat' = [beat EXCEPT ![w] = [sent |-> TRUE, jobs |-> Supervised(w)]]
  /\ UNCHANGED <<vars, loop, hostBoot, stage, live, cancelled, poll, regs, suspect>>

(* handleHeartbeat. *)
HandleBeat(w) ==
  /\ beat[w].sent
  /\ RecordHeartbeat(w, beat[w].jobs)
  /\ beat' = [beat EXCEPT ![w] = NoBeat]
  /\ UNCHANGED <<loop, hostBoot, stage, live, cancelled, poll, regs, suspect>>

LoseBeat(w) ==
  /\ beat[w].sent
  /\ beat' = [beat EXCEPT ![w] = NoBeat]
  /\ UNCHANGED <<vars, loop, hostBoot, stage, live, cancelled, poll, regs, suspect>>
-----------------------------------------------------------------------------
(* handleAssignments: read the assigned jobs, take the kills that are due,   *)
(* mark each job running, answer; each a transaction of its own.  With       *)
(* nothing to say the handler sleeps until it is woken or time is up.        *)
SetPoll(w, p) ==
  /\ poll' = [poll EXCEPT ![w] = p]
  /\ UNCHANGED <<loop, hostBoot, stage, live, cancelled, beat, regs, suspect>>

ReadAssignments(w) ==
  /\ loop[w] = "polling"
  /\ poll[w].at \in {"wait", "asleep"}
  /\ "slowSpawn" \in Faults \/ \A j \in JobsOf(w) : stage[j] # "spawned"
  /\ "slowBeat" \in Faults \/ ~beat[w].sent
  /\ SetPoll(w, [at |-> "read", kills |-> {},
                 jobs |-> {j \in JobsOf(w) : job[j] = "assigned"}])
  /\ UNCHANGED vars

TakeKills(w) ==
  /\ poll[w].at = "read"
  /\ TakeKillRequests(w)
  /\ SetPoll(w, [poll[w] EXCEPT !.kills = DueKills(w),
                    !.at = IF @ = "read" /\ poll[w].jobs \cup DueKills(w) = {}
                           THEN "asleep" ELSE "taken"])

MarkHandedOut(w, j) ==
  /\ poll[w].at = "taken" /\ j \in poll[w].jobs
  /\ MarkRunning(j)
  /\ UNCHANGED workerSide

Answered(w) ==
  poll[w].at = "taken" /\ \A j \in poll[w].jobs : job[j] # "assigned"

(* The response reaches pollLoop: cancel what is to be killed, report an     *)
(* assignment that arrives with its own kill, start the others.  A job this  *)
(* process has started before is not started again.  With nothing to start   *)
(* the loop is idle for a moment.                                            *)
ReceivePoll(w) ==
  LET new == {j \in poll[w].jobs : stage[j] = "none"}
  IN  /\ loop[w] = "polling" /\ Answered(w)
      /\ cancelled' = cancelled \cup
           {j \in poll[w].kills : stage[j] \in {"acquiring", "running"}}
      /\ stage' = [j \in Job |->
           IF j \notin new THEN stage[j]
           ELSE IF j \in poll[w].kills THEN "prekilled" ELSE "spawned"]
      /\ poll' = [poll EXCEPT ![w] = Waiting]
      /\ loop' = [loop EXCEPT ![w] = IF poll[w].jobs \subseteq poll[w].kills
                                     THEN "idle" ELSE @]
      /\ UNCHANGED <<vars, hostBoot, live, beat, regs, suspect>>

(* 204: the wait is over and there was nothing. *)
IdlePoll(w) ==
  /\ poll[w].at = "asleep"
  /\ poll' = [poll EXCEPT ![w] = Waiting]
  /\ loop' = [loop EXCEPT ![w] = "idle"]
  /\ UNCHANGED <<vars, hostBoot, stage, live, cancelled, beat, regs, suspect>>

PollAgain(w) ==
  /\ loop[w] = "idle"
  /\ loop' = [loop EXCEPT ![w] = "polling"]
  /\ UNCHANGED <<vars, hostBoot, stage, live, cancelled, poll, beat, regs, suspect>>

LosePoll(w) ==
  /\ "lostPoll" \in Faults
  /\ Answered(w)
  /\ SetPoll(w, Waiting)
  /\ UNCHANGED vars
-----------------------------------------------------------------------------
(* execute, one step per point where something else can get in between.      *)
Goto(j, s) == stage' = [stage EXCEPT ![j] = s]

(* The steps of a goroutine that touch nothing but its own stage. *)
Local(j, from, to) ==
  /\ stage[j] = from
  /\ Goto(j, to)
  /\ UNCHANGED <<vars, loop, hostBoot, live, cancelled, poll, beat, regs, suspect>>

(* The goroutine is scheduled and enters w.running. *)
Execute(j) == Local(j, "spawned", "acquiring")

(* The acquire hook succeeded (or the device was still held): Run starts the *)
(* process.  Run kills it again at once if the context is cancelled.         *)
StartProcess(j) ==
  /\ stage[j] = "acquiring"
  /\ Goto(j, "running")
  /\ live' = live \cup {j}
  /\ UNCHANGED <<vars, loop, hostBoot, cancelled, poll, beat, regs, suspect>>

(* The hook was interrupted by a kill or a shutdown: no verdict on the device. *)
HookCancelled(j) == j \in cancelled /\ Local(j, "acquiring", "reporting")

(* The hook failed: the device is not usable.                                *)
HookFailed(j) ==
  /\ "hookFail" \in Faults
  /\ stage[j] = "acquiring" /\ j \notin cancelled
  /\ Goto(j, "failing")
  /\ suspect' = suspect \cup {placed[j]}
  /\ UNCHANGED <<vars, loop, hostBoot, live, cancelled, poll, beat, regs>>

(* Mutant: Run returns when the leader exits and leaves the rest running. *)
ProcessEnds_LeavesTree(j) == Local(j, "running", "verifying")

(* The process ends, by itself, by a watchdog or by a kill; Run has reaped   *)
(* its group and swept what escaped it.                                      *)
ProcessEnds(j) ==
  /\ stage[j] = "running"
  /\ Goto(j, "verifying")
  /\ live' = live \ {j}
  /\ UNCHANGED <<vars, loop, hostBoot, cancelled, poll, beat, regs, suspect>>

(* A process whose worker was killed ends by itself. *)
OrphanEnds(j) ==
  /\ j \in live /\ stage[j] # "running"
  /\ live' = live \ {j}
  /\ UNCHANGED <<vars, loop, hostBoot, stage, cancelled, poll, beat, regs, suspect>>

VerifyPassed(j) == Local(j, "verifying", "reporting")

(* Mutant: the terminal report comes before the fault. *)
VerifyFailed_ReportsFirst(j) ==
  /\ "verifyFail" \in Faults
  /\ stage[j] = "verifying"
  /\ Goto(j, "failing")
  /\ suspect' = suspect \cup {placed[j]}
  /\ UNCHANGED <<vars, loop, hostBoot, live, cancelled, poll, beat, regs>>

VerifyFailed(j) ==
  /\ "verifyFail" \in Faults
  /\ stage[j] = "verifying"
  /\ Goto(j, "faulting")
  /\ suspect' = suspect \cup {placed[j]}
  /\ UNCHANGED <<vars, loop, hostBoot, live, cancelled, poll, beat, regs>>

(* reportFault, and handleDeviceFault.  After a verify pass the terminal     *)
(* report is still to come; after a failed hook it has already been made.    *)
AfterFault(j) == IF stage[j] = "faulting" THEN "reporting" ELSE "done"

ReportFault(j) ==
  /\ stage[j] \in {"faulting", "blaming"}
  /\ IF dev[placed[j]] # "absent" THEN SetDeviceState(placed[j]) ELSE UNCHANGED vars
  /\ Goto(j, AfterFault(j))
  /\ UNCHANGED <<loop, hostBoot, live, cancelled, poll, beat, regs, suspect>>

LoseFault(j) ==
  /\ "lostFault" \in Faults
  /\ stage[j] \in {"faulting", "blaming"}
  /\ Goto(j, AfterFault(j))
  /\ UNCHANGED <<vars, loop, hostBoot, live, cancelled, poll, beat, regs, suspect>>

(* reportTerminalWithRetry, and handleJobStatus.  A non-zero exit frees the  *)
(* device as a zero one does.                                                *)
Outcome(j) ==
  IF stage[j] = "failing" THEN "failed"
  ELSE IF j \in cancelled \/ stage[j] = "prekilled" THEN "killed"
  ELSE "succeeded"

AfterReport(j) == IF stage[j] = "failing" THEN "blaming" ELSE "done"

ReportTerminal(j) ==
  /\ stage[j] \in {"reporting", "failing", "prekilled"}
  /\ IF job[j] \in Active THEN Release(j, Outcome(j)) ELSE UNCHANGED vars
  /\ Goto(j, AfterReport(j))
  /\ cancelled' = cancelled \ {j}
  /\ UNCHANGED <<loop, hostBoot, live, poll, beat, regs, suspect>>

(* The report is handled but its answer is lost, and it is made again.       *)
ReportUnanswered(j) ==
  /\ "lostReport" \in Faults
  /\ stage[j] \in {"reporting", "failing", "prekilled"}
  /\ job[j] \in Active /\ Release(j, Outcome(j))
  /\ UNCHANGED workerSide

(* Every attempt failed: the job leaves w.running and is named no more.      *)
LoseReport(j) ==
  /\ "lostReport" \in Faults
  /\ stage[j] \in {"reporting", "failing", "prekilled"}
  /\ Goto(j, AfterReport(j))
  /\ cancelled' = cancelled \ {j}
  /\ UNCHANGED <<vars, loop, hostBoot, live, poll, beat, regs, suspect>>
-----------------------------------------------------------------------------
(* Nobody waits any more for what w asked.  A registration not yet handled   *)
(* is lost, unless requests may be late.                                     *)
HangUp(w) ==
  /\ poll' = [poll EXCEPT ![w] = Waiting]
  /\ regs' = {m \in regs : m.from # w} \cup
              {[m EXCEPT !.awaited = FALSE] : m \in
                 {n \in RegsOf(w) : n.at = "upserted" \/ "lateRegister" \in Faults}}

(* The worker process of w is gone, and so is all it knew. *)
Forget(w) ==
  /\ loop' = [loop EXCEPT ![w] = "down"]
  /\ stage' = [j \in Job |-> IF j \in JobsOf(w) THEN "none" ELSE stage[j]]
  /\ cancelled' = cancelled \ JobsOf(w)
  /\ HangUp(w)
  /\ UNCHANGED <<vars, beat, suspect>>

(* Its processes live on, unless it was PID 1 of their namespace. *)
Exit(w) ==
  /\ Forget(w)
  /\ live' = IF Isolated THEN live \ JobsOf(w) ELSE live
  /\ UNCHANGED hostBoot

Crash(w) ==
  /\ "crash" \in Faults
  /\ loop[w] # "down"
  /\ Exit(w)

(* The host comes back under a boot id it never had before. *)
Reboot(w) ==
  /\ "reboot" \in Faults
  /\ hostBoot[w] + 1 \in BootId
  /\ hostBoot' = [hostBoot EXCEPT ![w] = @ + 1]
  /\ live' = live \ JobsOf(w)
  /\ Forget(w)

(* SIGTERM: every job's context is cancelled and no more work is taken.      *)
Shutdown(w) ==
  /\ "shutdown" \in Faults
  /\ loop[w] \notin {"down", "draining"}
  /\ loop' = [loop EXCEPT ![w] = "draining"]
  /\ cancelled' = cancelled \cup
       {j \in JobsOf(w) : stage[j] \in {"spawned", "acquiring", "running"}}
  /\ HangUp(w)
  /\ UNCHANGED <<vars, hostBoot, stage, live, beat, suspect>>

(* Start returns when nothing runs any more, or when shutdownGrace is over.  *)
Drained(w) ==
  /\ loop[w] = "draining"
  /\ Exit(w)

(* rc serve restarts: the requests it was serving end without an answer.     *)
RestartController ==
  /\ "restart" \in Faults
  /\ ControllerRestart
  /\ poll' = [w \in Worker |-> Waiting]
  /\ regs' = {}
  /\ loop' = [w \in Worker |->
       CASE loop[w] = "registering" -> "down"
         [] loop[w] = "reregistering" -> "polling"
         [] OTHER -> loop[w]]
  /\ UNCHANGED <<hostBoot, stage, live, cancelled, beat, suspect>>

(* rc kill. *)
KillJob(j) ==
  /\ "kill" \in Faults
  /\ RequestKill(j)
  /\ UNCHANGED workerSide

(* An operator who has looked: nothing of a job is on the device, none is on *)
(* its way, and the worker has finished with those that were.  A response    *)
(* outlives no client timeout (2 minutes), so whoever waits that long before *)
(* vouching has seen all there is.                                           *)
Settled(d) ==
  \A j \in Job : placed[j] = d =>
     j \notin live /\ stage[j] \in {"none", "done"} /\ j \notin poll[WorkerOf[d]].jobs

Vouch(d) ==
  /\ "operator" \in Faults
  /\ Settled(d)
  /\ ClearDevice(d) \/ RetireDevice(d)
  /\ suspect' = suspect \ {d}
  /\ UNCHANGED <<loop, hostBoot, stage, live, cancelled, poll, beat, regs>>

(* Submissions and the scheduler; the reaper; time. *)
Scheduler ==
  /\ \E j \in Job : Enqueue(j) \/ \E d \in Device, ttl \in LeaseTTL : AssignQueued(j, d, ttl)
  /\ UNCHANGED workerSide

Reaper == Sweep /\ UNCHANGED workerSide

Clock == Tick /\ UNCHANGED workerSide

WorkerAct(w) ==
  \/ StartWorker(w) \/ Reregister(w)
  \/ SendBeat(w) \/ HandleBeat(w) \/ LoseBeat(w)
  \/ ReadAssignments(w) \/ TakeKills(w) \/ ReceivePoll(w) \/ LosePoll(w)
  \/ IdlePoll(w) \/ PollAgain(w)
  \/ \E j \in Job : MarkHandedOut(w, j)
  \/ Crash(w) \/ Reboot(w) \/ Shutdown(w) \/ Drained(w)

JobAct(j) ==
  \/ Execute(j) \/ StartProcess(j) \/ HookCancelled(j) \/ HookFailed(j)
  \/ ProcessEnds(j) \/ OrphanEnds(j) \/ VerifyPassed(j) \/ VerifyFailed(j)
  \/ ReportFault(j) \/ LoseFault(j)
  \/ ReportTerminal(j) \/ ReportUnanswered(j) \/ LoseReport(j)
  \/ KillJob(j)

FleetNext ==
  \/ \E w \in Worker : WorkerAct(w)
  \/ \E j \in Job : JobAct(j)
  \/ \E m \in regs : HandleRegister(m) \/ AnswerRegister(m) \/ GiveUpRegister(m)
  \/ \E d \in Device : Vouch(d)
  \/ RestartController
  \/ Scheduler \/ Reaper \/ Clock

FleetSpec == FleetInit /\ [][FleetNext]_fleetVars

(* What goes on by itself.  Time passes and the reaper's ticker fires.  The  *)
(* controller serves what reaches it.  A goroutine moves on: hooks, verify   *)
(* passes and reports are bounded by timeouts and attempts, and a cancelled  *)
(* process is killed; one that is not cancelled may run for ever.  A poll    *)
(* may be lost any number of times, but not every time.  Nothing forces a    *)
(* heartbeat, a registration, a restart of a worker or a submission.         *)
Advance(j) ==
  \/ Execute(j) \/ StartProcess(j) \/ HookCancelled(j)
  \/ j \in cancelled /\ ProcessEnds(j)
  \/ VerifyPassed(j) \/ ReportFault(j) \/ ReportTerminal(j)

ServePoll(w) ==
  \/ ReadAssignments(w) \/ TakeKills(w) \/ \E j \in Job : MarkHandedOut(w, j)
  \/ IdlePoll(w)

Fairness ==
  /\ WF_fleetVars(Clock) /\ WF_fleetVars(Reaper)
  /\ WF_fleetVars(\E m \in regs : HandleRegister(m) \/ AnswerRegister(m))
  /\ \A w \in Worker :
       /\ WF_fleetVars(ServePoll(w))
       /\ SF_fleetVars(ReceivePoll(w)) /\ WF_fleetVars(PollAgain(w))
       /\ WF_fleetVars(Drained(w))
  /\ \A j \in Job : WF_fleetVars(Advance(j))

FairSpec == FleetSpec /\ Fairness

(* A worker that also keeps its heartbeat up, and is heard. *)
BeatingSpec ==
  FairSpec /\ \A w \in Worker : WF_fleetVars(SendBeat(w)) /\ SF_fleetVars(HandleBeat(w))
-----------------------------------------------------------------------------
Stage == InRunning \cup {"none", "spawned", "prekilled", "done"}
Loop == {"down", "registering", "polling", "idle", "reregistering", "draining"}

(* Two jobs never run on one device at the same time: what the whole system  *)
(* is for.  A process counts from the start of Run until it is gone, with or *)
(* without a worker that supervises it.                                      *)
NoOverlap ==
  \A i, j \in live : placed[i] = placed[j] => i = j

(* A device in the pool has no process on it and none coming.  This is what  *)
(* a ready device means to the scheduler, and what quarantine protects when  *)
(* a worker is killed, silent or restarted.                                  *)
ReadyDeviceIdle == \A d \in Device : dev[d] = "ready" => OccupiedBy(d) = {}

(* A job that its worker reported finished is over: nothing of it runs or is *)
(* about to, whatever was lost, repeated or late on the way.  A lost job may *)
(* have left a process behind, and so may a kill that the controller alone   *)
(* recorded for a retained job.                                              *)
FinishedIsOver ==
  \A j \in Job :
     \/ job[j] \in {"succeeded", "failed"}
     \/ job[j] = "killed" /\ ~Retain
     => ~Occupies(j)

(* A device that an acquire hook or a verify pass has found unusable is not  *)
(* handed to another job until an operator has vouched for it.               *)
SuspectNotHandedOut ==
  [][\A d \in suspect, j \in Job : leased'[j] = d => leased[j] = d]_fleetVars

(* A running job that no worker process has, because the response that       *)
(* carried it was lost, its final report was, or its worker is gone, does    *)
(* not stay running: renewal follows the jobs a heartbeat names, so its      *)
(* lease runs out under a worker that is alive and well.                     *)
Abandoned(j) ==
  /\ job[j] = "running"
  /\ stage[j] \in {"none", "done"}
  /\ \A w \in Worker : j \notin poll[w].jobs

AbandonedIsReclaimed ==
  \A j \in Job : Abandoned(j) ~> job[j] \in Terminal

(* A kill that was accepted ends the job, though the response that carried   *)
(* it is lost, it reaches the worker before the job's goroutine is known     *)
(* there, or the worker dies with it: it is offered until it has an effect.  *)
KillTakesEffect ==
  \A j \in Job : j \in killReq /\ job[j] \in Active ~> job[j] \in Terminal
=============================================================================
