---------------------------- MODULE FleetProofs ----------------------------
(* Proofs about workers and store together, for any number of workers,       *)
(* devices, jobs, reboots and requests: that Fleet implements Store, that a   *)
(* job reported as finished is over, and that no two jobs meet on a device.   *)
EXTENDS Fleet, StoreProofs, FiniteSetTheorems

(* The exchanges: what a poll's handler has in hand, a heartbeat, and a       *)
(* registration on its way.                                                   *)
PollState == [at : {"wait", "read", "taken", "asleep"},
              jobs : SUBSET Job, kills : SUBSET Job]
BeatState == [sent : BOOLEAN, jobs : SUBSET Job]
RegState == [from : Worker, boot : BootId, proof : BOOLEAN,
             at : {"sent", "upserted"}, awaited : BOOLEAN]

(* The worker side holds values of its domains.                               *)
FleetTypeOK ==
  /\ loop \in [Worker -> Loop]
  /\ hostBoot \in [Worker -> BootId]
  /\ stage \in [Job -> Stage]
  /\ live \subseteq Job /\ cancelled \subseteq Job
  /\ poll \in [Worker -> PollState]
  /\ beat \in [Worker -> BeatState]
  /\ regs \subseteq RegState

(* A poll with nothing in hand, and no heartbeat.                             *)
LEMMA AtRest == Waiting \in PollState /\ NoBeat \in BeatState
  BY DEF Waiting, NoBeat, PollState, BeatState

(* Every worker starts out down, and nothing is in flight.                    *)
LEMMA FleetInitTyped == FleetInit => FleetTypeOK
  BY AtRest DEF FleetInit, FleetTypeOK, Loop, Stage

(* A worker's jobs are jobs of the table.                                     *)
LEMMA TheirJobs ==
  ASSUME NEW w PROVE JobsOf(w) \subseteq Job /\ Supervised(w) \subseteq Job
  BY DEF JobsOf, Supervised

(* The steps of one worker keep the types.                                    *)
LEMMA WorkerActTyped ==
  ASSUME FleetTypeOK, TypeOK, NEW w \in Worker, WorkerAct(w)
  PROVE  FleetTypeOK'
  <1>1. ASSUME SendRegister(w) PROVE regs' \subseteq RegState
    <2>1. PICK p \in Proof(w) :
            regs' = regs \cup {[from |-> w, boot |-> hostBoot[w], proof |-> p,
                                at |-> "sent", awaited |-> TRUE]}
      BY <1>1 DEF SendRegister
    <2>2. [from |-> w, boot |-> hostBoot[w], proof |-> p, at |-> "sent",
           awaited |-> TRUE] \in RegState
      BY DEF Proof, FleetTypeOK, RegState
    <2>3. QED
      BY <2>1, <2>2 DEF FleetTypeOK
  <1>2. CASE StartWorker(w) \/ Reregister(w)
    BY <1>1, <1>2 DEF StartWorker, Reregister, SendRegister, FleetTypeOK, Loop
  <1>3. CASE SendBeat(w)
    <2>1. [sent |-> TRUE, jobs |-> Supervised(w)] \in BeatState
      BY TheirJobs DEF BeatState
    <2>2. QED
      BY <1>3, <2>1 DEF SendBeat, FleetTypeOK
  <1>4. CASE HandleBeat(w) \/ LoseBeat(w)
    BY <1>4, AtRest DEF HandleBeat, LoseBeat, FleetTypeOK
  <1>5. CASE ReadAssignments(w)
    <2>1. [at |-> "read", kills |-> {},
           jobs |-> {j \in JobsOf(w) : job[j] = "assigned"}] \in PollState
      BY TheirJobs DEF PollState
    <2>2. QED
      BY <1>5, <2>1 DEF ReadAssignments, SetPoll, FleetTypeOK
  <1>6. CASE TakeKills(w)
    <2>1. DueKills(w) \subseteq Job /\ poll[w] \in PollState
      BY DEF DueKills, FleetTypeOK, TypeOK
    <2>2. [poll[w] EXCEPT !.kills = DueKills(w),
              !.at = IF @ = "read" /\ poll[w].jobs \cup DueKills(w) = {}
                     THEN "asleep" ELSE "taken"] \in PollState
      BY <2>1 DEF PollState
    <2>3. QED
      BY <1>6, <2>2 DEF TakeKills, SetPoll, FleetTypeOK
  <1>7. CASE ReceivePoll(w)
    <2>1. /\ cancelled' = cancelled \cup
               {j \in poll[w].kills : stage[j] \in {"acquiring", "running"}}
          /\ poll[w] \in PollState
      BY <1>7 DEF ReceivePoll, FleetTypeOK
    <2>2. cancelled' \subseteq Job
      BY <2>1 DEF FleetTypeOK, PollState
    <2>3. stage' \in [Job -> Stage]
      BY <1>7 DEF ReceivePoll, FleetTypeOK, Stage
    <2>4. poll' \in [Worker -> PollState] /\ loop' \in [Worker -> Loop]
      BY <1>7, AtRest DEF ReceivePoll, FleetTypeOK, Loop
    <2>5. QED
      BY <1>7, <2>2, <2>3, <2>4 DEF ReceivePoll, FleetTypeOK
  <1>8. CASE LosePoll(w) \/ IdlePoll(w) \/ PollAgain(w)
    BY <1>8, AtRest DEF LosePoll, IdlePoll, PollAgain, SetPoll, FleetTypeOK, Loop
  <1>9. CASE \E j \in Job : MarkHandedOut(w, j)
    BY <1>9 DEF MarkHandedOut, workerSide, FleetTypeOK
  <1>10. ASSUME HangUp(w)
         PROVE  poll' \in [Worker -> PollState] /\ regs' \subseteq RegState
    <2>1. poll' \in [Worker -> PollState]
      BY <1>10, AtRest DEF HangUp, FleetTypeOK
    <2>2. ASSUME NEW m \in regs PROVE [m EXCEPT !.awaited = FALSE] \in RegState
      BY DEF FleetTypeOK, RegState
    <2>3. regs' \subseteq RegState
      BY <1>10, <2>2 DEF HangUp, RegsOf, FleetTypeOK
    <2>4. QED
      BY <2>1, <2>3
  <1>11. CASE Shutdown(w)
    <2>1. loop' \in [Worker -> Loop] /\ cancelled' \subseteq Job
      BY <1>11, TheirJobs DEF Shutdown, FleetTypeOK, Loop
    <2>2. QED
      BY <1>10, <1>11, <2>1 DEF Shutdown, FleetTypeOK
  <1>12. ASSUME Forget(w)
         PROVE  /\ loop' \in [Worker -> Loop] /\ stage' \in [Job -> Stage]
                /\ cancelled' \subseteq Job
    BY <1>12 DEF Forget, FleetTypeOK, Loop, Stage
  <1>13. CASE Crash(w) \/ Drained(w)
    BY <1>10, <1>12, <1>13 DEF Crash, Drained, Exit, Forget, FleetTypeOK
  <1>14. CASE Reboot(w)
    BY <1>10, <1>12, <1>14 DEF Reboot, Forget, FleetTypeOK
  <1>15. QED
    BY <1>2, <1>3, <1>4, <1>5, <1>6, <1>7, <1>8, <1>9, <1>11, <1>13, <1>14
       DEF WorkerAct

(* So do the steps of one job.                                                *)
LEMMA JobActTyped ==
  ASSUME FleetTypeOK, NEW j \in Job, JobAct(j)
  PROVE  FleetTypeOK'
  <1>1. CASE Execute(j) \/ HookCancelled(j) \/ VerifyPassed(j)
    BY <1>1 DEF Execute, HookCancelled, VerifyPassed, Local, Goto, FleetTypeOK,
       Stage, InRunning
  <1>2. CASE \/ StartProcess(j) \/ HookFailed(j) \/ ProcessEnds(j)
             \/ OrphanEnds(j) \/ VerifyFailed(j)
    BY <1>2 DEF StartProcess, HookFailed, ProcessEnds, OrphanEnds, VerifyFailed,
       Goto, FleetTypeOK, Stage, InRunning
  <1>3. CASE ReportFault(j) \/ LoseFault(j)
    BY <1>3 DEF ReportFault, LoseFault, AfterFault, Goto, FleetTypeOK, Stage,
       InRunning
  <1>4. CASE ReportTerminal(j) \/ LoseReport(j)
    BY <1>4 DEF ReportTerminal, LoseReport, AfterReport, Goto, FleetTypeOK,
       Stage, InRunning
  <1>5. CASE ReportUnanswered(j) \/ KillJob(j)
    BY <1>5 DEF ReportUnanswered, KillJob, workerSide, FleetTypeOK
  <1>6. QED
    BY <1>1, <1>2, <1>3, <1>4, <1>5 DEF JobAct

(* So do the steps of a registration.                                         *)
LEMMA RegisterTyped ==
  ASSUME FleetTypeOK, NEW m \in regs,
         HandleRegister(m) \/ AnswerRegister(m) \/ GiveUpRegister(m)
  PROVE  FleetTypeOK'
  <1>1. m \in RegState
    BY DEF FleetTypeOK
  <1>2. /\ [m EXCEPT !.at = "upserted"] \in RegState
        /\ [m EXCEPT !.awaited = FALSE] \in RegState
    BY <1>1 DEF RegState
  <1>3. CASE HandleRegister(m)
    BY <1>2, <1>3 DEF HandleRegister, FleetTypeOK
  <1>4. CASE AnswerRegister(m)
    BY <1>4 DEF AnswerRegister, FleetTypeOK, Loop
  <1>5. CASE GiveUpRegister(m)
    BY <1>2, <1>5 DEF GiveUpRegister, FleetTypeOK, Loop
  <1>6. QED
    BY <1>3, <1>4, <1>5

(* Every step keeps the types.                                                *)
LEMMA FleetNextTyped ==
  ASSUME FleetTypeOK, TypeOK, [FleetNext]_fleetVars
  PROVE  FleetTypeOK'
  <1>1. CASE RestartController
    BY <1>1, AtRest DEF RestartController, FleetTypeOK, Loop
  <1>2. CASE \/ \E d \in Device : Vouch(d)
             \/ Scheduler \/ Reaper \/ Clock \/ UNCHANGED fleetVars
    BY <1>2 DEF Vouch, Scheduler, Reaper, Clock, fleetVars, workerSide,
       FleetTypeOK
  <1>3. QED
    BY <1>1, <1>2, WorkerActTyped, JobActTyped, RegisterTyped DEF FleetNext
-----------------------------------------------------------------------------
(* An update of a row that is not there changes nothing.                      *)
LEMMA NoSuchRow ==
  ASSUME NEW T, NEW f \in [Device -> T], NEW v
  PROVE  [f EXCEPT ![None] = v] = f
  BY Constants

(* Any transaction but the one that takes a terminal report, or none.         *)
OtherStep ==
  \/ \E j \in Job : \/ Enqueue(j) \/ MarkRunning(j) \/ RequestKill(j)
                    \/ \E d \in Device, ttl \in LeaseTTL : AssignQueued(j, d, ttl)
  \/ \E d \in Device : SetDeviceState(d) \/ Vouch(d)
  \/ WorkerStep \/ Sweep \/ ControllerRestart \/ Tick
  \/ UNCHANGED vars

(* A terminal report of job j that the store takes.                           *)
TakesReport(j) ==
  (ReportTerminal(j) \/ ReportUnanswered(j)) /\ Release(j, Outcome(j))

(* What reaches the store in a step of the fleet is one transaction of Store, *)
(* or nothing, and Release is only issued by a job that has come to an end.   *)
LEMMA FleetStepIsStoreStep ==
  ASSUME FleetTypeOK, TypeOK, [FleetNext]_fleetVars
  PROVE  OtherStep \/ \E j \in Job : TakesReport(j)
  <1>1. ASSUME NEW w \in Worker, WorkerAct(w) PROVE OtherStep
    <2>1. CASE HandleBeat(w)
      <3>1. beat[w].jobs \in SUBSET Job
        BY DEF FleetTypeOK, BeatState
      <3>2. RecordHeartbeat(w, beat[w].jobs)
        BY <2>1 DEF HandleBeat
      <3>3. QED
        BY <3>1, <3>2 DEF OtherStep, WorkerStep
    <2>2. CASE TakeKills(w)
      BY <2>2 DEF TakeKills, OtherStep, WorkerStep
    <2>3. CASE \E j \in Job : MarkHandedOut(w, j)
      BY <2>3 DEF MarkHandedOut, OtherStep
    <2>4. CASE \/ StartWorker(w) \/ Reregister(w) \/ SendBeat(w) \/ LoseBeat(w)
               \/ ReadAssignments(w) \/ ReceivePoll(w) \/ LosePoll(w)
               \/ IdlePoll(w) \/ PollAgain(w)
      BY <2>4 DEF StartWorker, Reregister, SendRegister, SendBeat, LoseBeat,
         ReadAssignments, ReceivePoll, LosePoll, IdlePoll, PollAgain, OtherStep
    <2>5. CASE Crash(w) \/ Reboot(w) \/ Shutdown(w) \/ Drained(w)
      BY <2>5 DEF Crash, Reboot, Shutdown, Drained, Exit, Forget, OtherStep
    <2>6. QED
      BY <1>1, <2>1, <2>2, <2>3, <2>4, <2>5 DEF WorkerAct
  <1>2. ASSUME NEW j \in Job, JobAct(j) PROVE OtherStep \/ TakesReport(j)
    <2>1. CASE ReportFault(j)
      <3>1. CASE placed[j] = None
        <4>1. ASSUME SetDeviceState(None) PROVE dev' = dev /\ why' = why
          <5>1. /\ dev \in [Device -> DeviceState \cup {"absent"}]
                /\ why \in [Device -> Reason]
            BY DEF TypeOK
          <5>2. [dev EXCEPT ![None] = "unhealthy"] = dev
            BY <5>1, NoSuchRow
          <5>3. [why EXCEPT ![None] = "fault"] = why
            BY <5>1, NoSuchRow
          <5>4. QED
            BY <4>1, <5>2, <5>3 DEF SetDeviceState
        <4>2. QED
          BY <2>1, <3>1, <4>1 DEF ReportFault, SetDeviceState, vars, jobVars,
             leaseVars, workerVars, killVars, OtherStep
      <3>2. CASE placed[j] \in Device
        BY <2>1, <3>2 DEF ReportFault, OtherStep
      <3>3. QED
        BY <3>1, <3>2 DEF TypeOK
    <2>2. CASE ReportTerminal(j) \/ ReportUnanswered(j)
      BY <2>2 DEF ReportTerminal, ReportUnanswered, TakesReport, OtherStep
    <2>3. CASE KillJob(j)
      BY <2>3 DEF KillJob, OtherStep
    <2>4. CASE \/ Execute(j) \/ StartProcess(j) \/ HookCancelled(j)
               \/ HookFailed(j) \/ ProcessEnds(j) \/ OrphanEnds(j)
               \/ VerifyPassed(j) \/ VerifyFailed(j) \/ LoseFault(j)
               \/ LoseReport(j)
      BY <2>4 DEF Execute, StartProcess, HookCancelled, HookFailed, ProcessEnds,
         OrphanEnds, VerifyPassed, VerifyFailed, LoseFault, LoseReport, Local,
         OtherStep
    <2>5. QED
      BY <1>2, <2>1, <2>2, <2>3, <2>4 DEF JobAct
  <1>3. ASSUME NEW m \in regs,
               HandleRegister(m) \/ AnswerRegister(m) \/ GiveUpRegister(m)
        PROVE  OtherStep
    <2>1. m.from \in Worker /\ m.boot \in BootId
      BY DEF FleetTypeOK, RegState
    <2>2. CASE HandleRegister(m)
      <3>1. DevicesOf(m.from) \in SUBSET {d \in Device : WorkerOf[d] = m.from}
        BY DEF DevicesOf
      <3>2. UpsertWorker(m.from, m.boot, DevicesOf(m.from))
        BY <2>2 DEF HandleRegister
      <3>3. QED
        BY <2>1, <3>1, <3>2 DEF OtherStep, WorkerStep
    <2>3. CASE AnswerRegister(m)
      BY <2>1, <2>3 DEF AnswerRegister, OtherStep, WorkerStep
    <2>4. CASE GiveUpRegister(m)
      BY <2>4 DEF GiveUpRegister, OtherStep
    <2>5. QED
      BY <1>3, <2>2, <2>3, <2>4
  <1>4. CASE \/ \E d \in Device : Vouch(d)
             \/ RestartController \/ Scheduler \/ Reaper \/ Clock
             \/ UNCHANGED fleetVars
    BY <1>4 DEF RestartController, Scheduler, Reaper, Clock, fleetVars, OtherStep
  <1>5. QED
    BY <1>1, <1>2, <1>3, <1>4 DEF FleetNext

(* Either is a step of Store.                                                 *)
LEMMA OfStore ==
  ASSUME OtherStep \/ \E j \in Job : TakesReport(j) PROVE [Next]_vars
  <1>1. CASE OtherStep
    BY <1>1 DEF OtherStep, Vouch, Next, JobStep, DeviceStep
  <1>2. ASSUME NEW j \in Job, TakesReport(j) PROVE Next
    <2>1. Release(j, Outcome(j)) /\ Outcome(j) \in {"succeeded", "failed", "killed"}
      BY <1>2 DEF TakesReport, Outcome
    <2>2. QED
      BY <2>1 DEF Next, JobStep
  <1>3. QED
    BY <1>1, <1>2

(* Fleet implements Store: whatever workers, networks and operators do in     *)
(* between, the controller's tables go through a behaviour of Store.          *)
THEOREM FleetImplementsStore == FleetSpec => Spec
  <1> DEFINE Typed == FleetTypeOK /\ StoreInv
  <1>1. FleetInit => Init /\ Typed
    BY FleetInitTyped, InitInv DEF FleetInit
  <1>2. ASSUME Typed, [FleetNext]_fleetVars PROVE [Next]_vars /\ Typed'
    <2>1. TypeOK
      BY <1>2 DEF StoreInv
    <2>2. [Next]_vars /\ FleetTypeOK'
      BY <1>2, <2>1, FleetStepIsStoreStep, OfStore, FleetNextTyped
    <2>3. QED
      BY <1>2, <2>2, NextInv
  <1>3. QED
    BY <1>1, <1>2, PTL DEF FleetSpec, Spec

(* Hence every theorem about Store holds of the fleet, the agreement of the   *)
(* tables first.                                                              *)
THEOREM FleetConsistent == FleetSpec => []StoreInv
  BY FleetImplementsStore, Consistent, PTL
-----------------------------------------------------------------------------
(* A job whose outcome its worker reported.                                  *)
Reported(j) ==
  job[j] \in {"succeeded", "failed"} \/ (job[j] = "killed" /\ ~Retain)

(* A job that a poll is about to hand out was not begun before.              *)
HandedOutNew ==
  \A w \in Worker : \A j \in poll[w].jobs :
    /\ Mine(w, j)
    /\ stage[j] = "none" /\ j \notin live
    /\ job[j] \notin {"absent", "queued"} /\ ~Reported(j)

(* What a worker has begun was marked running in the store first.            *)
BegunIsMarked ==
  \A j \in Job : (stage[j] # "none" \/ j \in live) =>
    placed[j] # None /\ job[j] \notin {"absent", "queued", "assigned"}

(* A process is under Run, or its worker process is gone.                    *)
LiveIsRun == \A j \in live : stage[j] \in {"running", "none"}

(* The parts that are inductive together.                                     *)
OverInv ==
  /\ FleetTypeOK /\ StoreInv
  /\ HandedOutNew /\ BegunIsMarked /\ LiveIsRun /\ FinishedIsOver

(* A job keeps its device, never goes back to an earlier state, and is not    *)
(* reported by anybody.                                                       *)
Drift ==
  \A j \in Job :
    /\ placed[j] # None => placed'[j] = placed[j]
    /\ job[j] \notin {"absent", "queued"} => job'[j] \notin {"absent", "queued"}
    /\ job[j] \notin {"absent", "queued", "assigned"} =>
         job'[j] \notin {"absent", "queued", "assigned"}
    /\ job[j] \notin {"absent", "queued"} /\ ~Reported(j) => ~Reported(j)'

(* No transaction but Release reports a job.                                  *)
LEMMA OthersDrift ==
  ASSUME StoreInv, OtherStep PROVE Drift
  <1>1. /\ job \in [Job -> JobState \cup {"absent"}]
        /\ placed \in [Job -> Device \cup {None}]
        /\ \A j \in Job : job[j] \in {"absent", "queued"} => placed[j] = None
    BY DEF StoreInv, TypeOK, UnplacedUntilAssigned
  <1> USE DEF Drift, Reported, Active
  <1>2. ASSUME NEW j \in Job, \/ Enqueue(j) \/ MarkRunning(j) \/ RequestKill(j)
                              \/ \E d \in Device, ttl \in LeaseTTL : AssignQueued(j, d, ttl)
        PROVE  Drift
    BY <1>1, <1>2 DEF Enqueue, MarkRunning, RequestKill, AssignQueued
  <1>3. CASE WorkerStep
    BY <1>1, <1>3 DEF WorkerStep, UpsertWorker, InFlight, AutoRecover,
       RecordHeartbeat, TakeKillRequests, jobVars
  <1>4. CASE Sweep
    BY <1>1, <1>4 DEF Sweep, SweptJobs
  <1>5. CASE \/ \E d \in Device : SetDeviceState(d) \/ Vouch(d)
             \/ ControllerRestart \/ Tick \/ UNCHANGED vars
    BY <1>5 DEF Vouch, SetDeviceState, ClearDevice, RetireDevice,
       ControllerRestart, Tick, jobVars, vars
  <1>6. QED
    BY <1>2, <1>3, <1>4, <1>5 DEF OtherStep

(* The worker side takes up nothing new: no poll hands out more, and only     *)
(* what was begun, or held its device, goes on.                               *)
Begun(j) == stage[j] # "none" \/ j \in live

Eases ==
  /\ \A w \in Worker : poll'[w].jobs \subseteq poll[w].jobs
  /\ \A j \in Job : (Begun(j)' => Begun(j)) /\ (Occupies(j)' => Occupies(j))
  /\ LiveIsRun'

(* Such a step of both sides keeps what OverInv says of them.                 *)
LEMMA EasingKeeps ==
  ASSUME OverInv, Drift, Eases
  PROVE  HandedOutNew' /\ BegunIsMarked' /\ LiveIsRun' /\ FinishedIsOver'
  <1>0. \A w \in Worker : poll[w].jobs \subseteq Job
    BY DEF OverInv, FleetTypeOK, PollState
  <1>1. HandedOutNew'
    <2>1. SUFFICES ASSUME NEW w \in Worker, NEW j \in poll'[w].jobs
          PROVE  /\ Mine(w, j)'
                 /\ stage'[j] = "none" /\ j \notin live'
                 /\ job'[j] \notin {"absent", "queued"} /\ ~Reported(j)'
      BY DEF HandedOutNew, Reported, Mine
    <2>2. j \in poll[w].jobs /\ j \in Job
      BY <1>0 DEF Eases
    <2>3. /\ Mine(w, j) /\ ~Begun(j)
          /\ job[j] \notin {"absent", "queued"} /\ ~Reported(j)
      BY <2>2 DEF OverInv, HandedOutNew, Begun
    <2>4. Mine(w, j)' /\ job'[j] \notin {"absent", "queued"} /\ ~Reported(j)'
      BY <2>2, <2>3 DEF Drift, Mine
    <2>5. ~Begun(j)'
      BY <2>2, <2>3 DEF Eases
    <2>6. QED
      BY <2>4, <2>5 DEF Begun
  <1>2. BegunIsMarked'
    BY DEF BegunIsMarked, OverInv, Eases, Drift, Begun
  <1>3. FinishedIsOver'
    <2>1. SUFFICES ASSUME NEW j \in Job, Reported(j)', Occupies(j)' PROVE FALSE
      BY DEF FinishedIsOver, Reported, Occupies
    <2>2. Occupies(j)
      BY <2>1 DEF Eases
    <2>3. Begun(j) /\ ~Reported(j)
      BY <2>2 DEF OverInv, FinishedIsOver, Reported, Occupies, Begun
    <2>4. job[j] \notin {"absent", "queued"}
      BY <2>3 DEF OverInv, BegunIsMarked, Begun
    <2>5. QED
      BY <2>1, <2>3, <2>4 DEF Drift
  <1>4. QED
    BY <1>1, <1>2, <1>3 DEF Eases

(* A report is taken from a job whose process is gone and that no poll still  *)
(* has to hand out.                                                           *)
LEMMA ReportKeeps ==
  ASSUME OverInv, FleetTypeOK', NEW i \in Job, TakesReport(i)
  PROVE  HandedOutNew' /\ BegunIsMarked' /\ LiveIsRun' /\ FinishedIsOver'
  <1>1. /\ stage[i] \in {"reporting", "failing", "prekilled"}
        /\ stage'[i] \notin {"none", "spawned", "acquiring", "running"}
        /\ \A j \in Job \ {i} : stage'[j] = stage[j]
        /\ live' = live /\ poll' = poll
    BY DEF TakesReport, ReportTerminal, ReportUnanswered, workerSide, Goto,
       AfterReport, OverInv, FleetTypeOK
  <1>2. /\ job'[i] \notin {"absent", "queued", "assigned"}
        /\ placed' = placed
        /\ \A j \in Job \ {i} : job'[j] = job[j]
    BY DEF TakesReport, Release, Outcome, OverInv, StoreInv, TypeOK
  <1>3. i \notin live /\ \A w \in Worker : i \notin poll[w].jobs
    BY <1>1 DEF OverInv, LiveIsRun, HandedOutNew
  <1>4. \A w \in Worker : poll[w].jobs \subseteq Job \ {i}
    BY <1>3 DEF OverInv, FleetTypeOK, PollState
  <1>5. HandedOutNew'
    BY <1>1, <1>2, <1>4 DEF HandedOutNew, OverInv, Mine, Reported
  <1>6. BegunIsMarked'
    BY <1>1, <1>2 DEF BegunIsMarked, OverInv
  <1>7. LiveIsRun'
    BY <1>1, <1>3 DEF LiveIsRun, OverInv, FleetTypeOK
  <1>8. FinishedIsOver'
    BY <1>1, <1>2, <1>3 DEF FinishedIsOver, OverInv, Occupies
  <1>9. QED
    BY <1>5, <1>6, <1>7, <1>8

(* A poll reads the jobs that are assigned, and no such job was begun.        *)
LEMMA ReadKeeps ==
  ASSUME OverInv, FleetTypeOK', NEW w \in Worker, ReadAssignments(w)
  PROVE  HandedOutNew' /\ BegunIsMarked' /\ LiveIsRun' /\ FinishedIsOver'
  <1>1. /\ UNCHANGED <<job, placed, stage, live>>
        /\ \A v \in Worker \ {w} : poll'[v] = poll[v]
        /\ poll'[w].jobs = {j \in JobsOf(w) : job[j] = "assigned"}
    BY DEF ReadAssignments, SetPoll, OverInv, FleetTypeOK, vars
  <1>2. ASSUME NEW v \in Worker, NEW j \in poll'[v].jobs
        PROVE  /\ Mine(v, j)
               /\ stage[j] = "none" /\ j \notin live
               /\ job[j] \notin {"absent", "queued"} /\ ~Reported(j)
    <2>1. CASE v = w
      BY <1>1, <1>2, <2>1 DEF JobsOf, Reported, OverInv, BegunIsMarked
    <2>2. CASE v # w
      BY <1>1, <1>2, <2>2 DEF OverInv, HandedOutNew
    <2>3. QED
      BY <2>1, <2>2
  <1>3. HandedOutNew'
    BY <1>1, <1>2 DEF HandedOutNew, Mine, Reported
  <1>4. BegunIsMarked' /\ LiveIsRun' /\ FinishedIsOver'
    BY <1>1 DEF OverInv, BegunIsMarked, LiveIsRun, FinishedIsOver, Occupies
  <1>5. QED
    BY <1>3, <1>4

(* A response starts jobs that were marked running and that nobody reported.  *)
LEMMA ReceiveKeeps ==
  ASSUME OverInv, FleetTypeOK', NEW w \in Worker, ReceivePoll(w)
  PROVE  HandedOutNew' /\ BegunIsMarked' /\ LiveIsRun' /\ FinishedIsOver'
  <1> DEFINE P == poll[w].jobs
  <1>1. /\ UNCHANGED <<job, placed, live>>
        /\ \A j \in P : job[j] # "assigned"
        /\ \A j \in Job : \/ stage'[j] = stage[j]
                          \/ j \in P /\ stage'[j] \in {"spawned", "prekilled"}
        /\ poll' = [poll EXCEPT ![w] = Waiting]
    <2>1. UNCHANGED <<job, placed, live>> /\ \A j \in P : job[j] # "assigned"
      BY DEF ReceivePoll, Answered, vars
    <2>2. stage' = [j \in Job |->
            IF j \notin {i \in P : stage[i] = "none"} THEN stage[j]
            ELSE IF j \in poll[w].kills THEN "prekilled" ELSE "spawned"]
      BY DEF ReceivePoll
    <2>3. \A j \in Job : \/ stage'[j] = stage[j]
                         \/ j \in P /\ stage'[j] \in {"spawned", "prekilled"}
      BY <2>2
    <2>4. poll' = [poll EXCEPT ![w] = Waiting]
      BY DEF ReceivePoll
    <2>5. QED
      BY <2>1, <2>3, <2>4
  <1>2. \A j \in P : /\ j \in Job /\ Mine(w, j) /\ j \notin live
                     /\ job[j] \notin {"absent", "queued"} /\ ~Reported(j)
    BY DEF OverInv, HandedOutNew, FleetTypeOK, PollState
  <1>3. \A v \in Worker : poll'[v].jobs = IF v = w THEN {} ELSE poll[v].jobs
    BY <1>1 DEF OverInv, FleetTypeOK, Waiting
  <1>4. HandedOutNew'
    <2>1. SUFFICES ASSUME NEW v \in Worker, NEW j \in poll'[v].jobs
          PROVE  /\ Mine(v, j)
                 /\ stage'[j] = "none" /\ j \notin live
                 /\ job[j] \notin {"absent", "queued"} /\ ~Reported(j)
      BY <1>1 DEF HandedOutNew, Mine, Reported
    <2>2. /\ v # w /\ j \in Job /\ Mine(v, j)
          /\ stage[j] = "none" /\ j \notin live
          /\ job[j] \notin {"absent", "queued"} /\ ~Reported(j)
      BY <1>3 DEF OverInv, HandedOutNew, FleetTypeOK, PollState
    <2>3. j \notin P
      BY <1>2, <2>2 DEF Mine
    <2>4. QED
      BY <1>1, <2>2, <2>3
  <1>5. BegunIsMarked'
    BY <1>1, <1>2 DEF OverInv, BegunIsMarked, Mine
  <1>6. LiveIsRun'
    BY <1>1, <1>2 DEF OverInv, LiveIsRun, FleetTypeOK
  <1>7. FinishedIsOver'
    BY <1>1, <1>2 DEF OverInv, FinishedIsOver, Occupies, Reported
  <1>8. QED
    BY <1>4, <1>5, <1>6, <1>7

(* Every other step of a worker eases.                                        *)
LEMMA WorkerActEases ==
  ASSUME OverInv, NEW w \in Worker, WorkerAct(w),
         ~ReadAssignments(w), ~ReceivePoll(w)
  PROVE  Eases
  <1>1. /\ poll \in [Worker -> PollState] /\ stage \in [Job -> Stage]
        /\ LiveIsRun
    BY DEF OverInv, FleetTypeOK
  <1> USE DEF Eases, Begun, Occupies, LiveIsRun
  <1>2. CASE \/ StartWorker(w) \/ Reregister(w) \/ SendBeat(w) \/ HandleBeat(w)
             \/ LoseBeat(w) \/ PollAgain(w) \/ \E j \in Job : MarkHandedOut(w, j)
    BY <1>1, <1>2 DEF StartWorker, Reregister, SendRegister, SendBeat, HandleBeat,
       LoseBeat, PollAgain, MarkHandedOut, workerSide
  <1>3. CASE TakeKills(w) \/ LosePoll(w) \/ IdlePoll(w)
    <2>1. UNCHANGED <<stage, live>> /\ \A v \in Worker \ {w} : poll'[v] = poll[v]
      BY <1>1, <1>3 DEF TakeKills, LosePoll, IdlePoll, SetPoll
    <2>2. poll'[w].jobs \subseteq poll[w].jobs
      <3>1. poll[w] \in PollState
        BY <1>1
      <3>2. CASE TakeKills(w)
        BY <1>1, <3>1, <3>2 DEF TakeKills, SetPoll, PollState
      <3>3. CASE LosePoll(w) \/ IdlePoll(w)
        BY <1>1, <3>3 DEF LosePoll, IdlePoll, SetPoll, Waiting
      <3>4. QED
        BY <1>3, <3>2, <3>3
    <2>3. QED
      BY <1>1, <2>1, <2>2
  <1>4. CASE Shutdown(w)
    BY <1>1, <1>4 DEF Shutdown, HangUp, Waiting
  <1>5. CASE Crash(w) \/ Drained(w) \/ Reboot(w)
    <2>1. /\ poll' = [poll EXCEPT ![w] = Waiting]
          /\ stage' = [j \in Job |-> IF j \in JobsOf(w) THEN "none" ELSE stage[j]]
          /\ live' \subseteq live
      BY <1>5 DEF Crash, Drained, Reboot, Exit, Forget, HangUp
    <2>2. live \subseteq Job
      BY DEF OverInv, FleetTypeOK
    <2>3. QED
      BY <1>1, <2>1, <2>2 DEF Waiting
  <1>6. QED
    BY <1>2, <1>3, <1>4, <1>5 DEF WorkerAct

(* So does every step of a job.                                               *)
LEMMA JobActEases ==
  ASSUME OverInv, NEW j \in Job, JobAct(j)
  PROVE  Eases
  <1>1. /\ stage \in [Job -> Stage] /\ live \subseteq Job /\ LiveIsRun
    BY DEF OverInv, FleetTypeOK
  <1> USE DEF Eases, Begun, Occupies, LiveIsRun, Goto, Local
  <1>2. CASE Execute(j) \/ HookCancelled(j) \/ VerifyPassed(j)
    BY <1>1, <1>2 DEF Execute, HookCancelled, VerifyPassed
  <1>3. CASE \/ StartProcess(j) \/ HookFailed(j) \/ ProcessEnds(j)
             \/ OrphanEnds(j) \/ VerifyFailed(j)
    BY <1>1, <1>3 DEF StartProcess, HookFailed, ProcessEnds, OrphanEnds,
       VerifyFailed
  <1>4. CASE ReportFault(j) \/ LoseFault(j)
    BY <1>1, <1>4 DEF ReportFault, LoseFault, AfterFault
  <1>5. CASE ReportTerminal(j) \/ LoseReport(j)
    BY <1>1, <1>5 DEF ReportTerminal, LoseReport, AfterReport
  <1>6. CASE ReportUnanswered(j) \/ KillJob(j)
    BY <1>1, <1>6 DEF ReportUnanswered, KillJob, workerSide
  <1>7. QED
    BY <1>2, <1>3, <1>4, <1>5, <1>6 DEF JobAct

(* And every step of nobody in particular.                                    *)
LEMMA RestEases ==
  ASSUME OverInv,
         \/ \E m \in regs : HandleRegister(m) \/ AnswerRegister(m) \/ GiveUpRegister(m)
         \/ \E d \in Device : Vouch(d)
         \/ RestartController \/ Scheduler \/ Reaper \/ Clock
         \/ UNCHANGED fleetVars
  PROVE  Eases
  <1>1. CASE RestartController
    BY <1>1 DEF RestartController, Eases, Begun, Occupies, OverInv, LiveIsRun,
       FleetTypeOK, Waiting
  <1>2. CASE UNCHANGED <<poll, stage, live>>
    BY <1>2 DEF Eases, Begun, Occupies, OverInv, LiveIsRun
  <1>3. QED
    BY <1>1, <1>2 DEF HandleRegister, AnswerRegister, GiveUpRegister, Vouch,
       Scheduler, Reaper, Clock, workerSide, fleetVars

(* OverInv is inductive.                                                      *)
LEMMA OverIsInductive ==
  ASSUME OverInv, [FleetNext]_fleetVars PROVE OverInv'
  <1>1. FleetTypeOK' /\ (OtherStep \/ \E j \in Job : TakesReport(j))
    BY FleetNextTyped, FleetStepIsStoreStep DEF OverInv, StoreInv
  <1>2. StoreInv'
    BY <1>1, OfStore, NextInv DEF OverInv
  <1>3. HandedOutNew' /\ BegunIsMarked' /\ LiveIsRun' /\ FinishedIsOver'
    <2>1. CASE \E j \in Job : TakesReport(j)
      BY <1>1, <2>1, ReportKeeps
    <2>2. CASE \E w \in Worker : ReadAssignments(w) \/ ReceivePoll(w)
      BY <1>1, <2>2, ReadKeeps, ReceiveKeeps
    <2>3. CASE /\ OtherStep
               /\ ~\E w \in Worker : ReadAssignments(w) \/ ReceivePoll(w)
      <3>1. Eases
        BY <2>3, WorkerActEases, JobActEases, RestEases DEF FleetNext
      <3>2. Drift
        BY <2>3, OthersDrift DEF OverInv
      <3>3. QED
        BY <3>1, <3>2, EasingKeeps
    <2>4. QED
      BY <1>1, <2>1, <2>2, <2>3
  <1>4. QED
    BY <1>1, <1>2, <1>3 DEF OverInv

(* No job has begun at first.                                                 *)
LEMMA OverAtFirst == FleetInit => OverInv
  <1> SUFFICES ASSUME FleetInit PROVE OverInv
    OBVIOUS
  <1>1. FleetTypeOK /\ StoreInv
    BY FleetInitTyped, InitInv DEF FleetInit
  <1>2. HandedOutNew /\ BegunIsMarked /\ LiveIsRun /\ FinishedIsOver
    BY DEF FleetInit, Init, Waiting, HandedOutNew, BegunIsMarked, LiveIsRun,
       FinishedIsOver
  <1>3. QED
    BY <1>1, <1>2 DEF OverInv

(* It holds of the fleet whatever goes wrong in it.                           *)
THEOREM FleetOver == FleetSpec => []OverInv
  BY OverAtFirst, OverIsInductive, PTL DEF FleetSpec

(* A job whose worker reported it finished has nothing running and nothing    *)
(* about to: however polls, reports, registrations and kills are lost, late,  *)
(* repeated or interleaved, for every set of faults and either retention mode.*)
THEOREM FinishedMeansOver == FleetSpec => []FinishedIsOver
  <1>1. OverInv => FinishedIsOver
    BY DEF OverInv
  <1>2. QED
    BY <1>1, FleetOver, PTL
-----------------------------------------------------------------------------
(* What the rest takes for granted.  The default mode, in which a job out of  *)
(* reach is lost; a registration is handled while its sender waits for it and *)
(* one at a time; a goroutine is in w.running before the next poll is sent.   *)
(* Without any one of them the theorems below are false.                      *)
Orderly == "lateRegister" \notin Faults /\ "slowSpawn" \notin Faults

Timely == ~Retain /\ MaxRegister = 1 /\ Orderly

(* Only a worker in its poll loop has a poll under way.                       *)
PollOfPolling == \A w \in Worker : loop[w] # "polling" => poll[w] = Waiting

(* A worker process that has not registered yet has run nothing.              *)
FreshIsBlank ==
  \A w \in Worker : loop[w] \in {"down", "registering"} =>
    \A j \in JobsOf(w) : stage[j] = "none"

(* No goroutine is outrun by the next poll or by a registration.              *)
NoLaggard ==
  \A w \in Worker : poll[w].at # "wait" \/ loop[w] \in {"idle", "reregistering"} =>
    \A j \in JobsOf(w) : stage[j] # "spawned"

(* The worker holds no device and is about to take none.                      *)
Busy == {"spawned", "acquiring", "running"}
Idles(w) == \A j \in JobsOf(w) : stage[j] \notin Busy

(* A registration is that of a worker that waits for it and does nothing else *)
(* meanwhile, or has been told to stop since; what it says is still true.     *)
RegTimely(m) ==
  /\ IF m.awaited THEN loop[m.from] \in {"registering", "reregistering"}
     ELSE m.at = "upserted" /\ loop[m.from] \in {"down", "draining"}
  /\ m.at = "sent" => m.boot = hostBoot[m.from]
  /\ m.at = "upserted" /\ m.awaited => boot[m.from] = hostBoot[m.from]
  /\ Idles(m.from)
  /\ m.proof => \A j \in JobsOf(m.from) : j \notin live

RegsAreTimely == \A m \in regs : RegTimely(m)

(* One registration of a worker at a time.                                    *)
OneReg == \A m, n \in regs : m.from = n.from => m = n

(* While the store has yet to learn of a reboot, nothing runs on that host.   *)
RebootIsClean ==
  \A w \in Worker : boot[w] # None /\ boot[w] # hostBoot[w] =>
    /\ loop[w] \in {"down", "registering", "draining"}
    /\ \A j \in JobsOf(w) : ~Occupies(j)

(* In its own namespace no process outlives its supervisor.                   *)
IsolatedDie == Isolated => \A j \in live : stage[j] = "running"

(* The worker's side of the argument: when it registers, it is idle.          *)
Protocol ==
  /\ PollOfPolling /\ FreshIsBlank /\ NoLaggard /\ RegsAreTimely /\ OneReg
  /\ RebootIsClean /\ IsolatedDie

(* A device with a live lease has a row.                                      *)
LeasedExists == \A j \in Job : leased[j] # None => dev[leased[j]] # "absent"

(* A device written off with its worker has no live lease.                    *)
WrittenOffIsReaped ==
  \A d \in Device : why[d] = "worker_lost" => \A j \in Job : leased[j] # d

(* A job that holds its device, is about to, or is being handed out.          *)
Coming(j) == Occupies(j) \/ \E w \in Worker : j \in poll[w].jobs

(* Such a job has the lease of its device, or the device is quarantined.      *)
ComingIsLeased ==
  \A j \in Job : Coming(j) /\ dev[placed[j]] # "unhealthy" => leased[j] = placed[j]

(* A device is claimed, by a lease or by what runs on it, for one job.        *)
Claims(j) == Coming(j) \/ leased[j] # None
OneClaim == \A i, j \in Job : Claims(i) /\ Claims(j) /\ placed[i] = placed[j] => i = j

(* The parts that are inductive together, on top of OverInv.                  *)
ClearInv ==
  /\ Protocol
  /\ LeasedExists /\ WrittenOffIsReaped
  /\ ComingIsLeased /\ OneClaim
-----------------------------------------------------------------------------
(* A worker in its poll loop has no registration on its way.                  *)
LEMMA NoRegOfPolling ==
  ASSUME RegsAreTimely, NEW w, loop[w] \in {"polling", "idle"}, NEW m \in regs
  PROVE  m.from # w
  BY DEF RegsAreTimely, RegTimely

(* The protocol stands when the worker side does not move and a job that is   *)
(* placed now has not begun.                                                  *)
LEMMA ProtocolFrame ==
  ASSUME OverInv, Protocol,
         UNCHANGED <<loop, hostBoot, stage, live, poll, regs, boot>>,
         \A j \in Job : placed'[j] = placed[j] \/ ~Begun(j)
  PROVE  Protocol'
  <1>1. \A w \in Worker : \A j \in JobsOf(w)' :
          j \in Job /\ (j \in JobsOf(w) \/ ~Begun(j))
    BY DEF JobsOf, Mine
  <1>2. PollOfPolling' /\ OneReg' /\ IsolatedDie'
    BY DEF Protocol, PollOfPolling, OneReg, IsolatedDie
  <1>3. FreshIsBlank' /\ NoLaggard'
    BY <1>1 DEF Protocol, FreshIsBlank, NoLaggard, Begun
  <1>4. RegsAreTimely'
    <2>1. SUFFICES ASSUME NEW m \in regs PROVE RegTimely(m)'
      BY DEF RegsAreTimely
    <2>2. m.from \in Worker /\ RegTimely(m)
      BY DEF OverInv, FleetTypeOK, RegState, Protocol, RegsAreTimely
    <2>3. QED
      BY <1>1, <2>2 DEF RegTimely, Idles, Begun, Busy
  <1>5. RebootIsClean'
    BY <1>1 DEF Protocol, RebootIsClean, Occupies, Begun
  <1>6. QED
    BY <1>2, <1>3, <1>4, <1>5 DEF Protocol

(* With room for one registration of a worker, it sends none beside another.  *)
LEMMA RoomForOne ==
  ASSUME MaxRegister = 1, OneReg, NEW w, SendRegister(w)
  PROVE  RegsOf(w) = {}
  <1>1. Cardinality(RegsOf(w)) < 1
    BY DEF SendRegister
  <1>2. SUFFICES ASSUME NEW m \in RegsOf(w) PROVE FALSE
    OBVIOUS
  <1>3. RegsOf(w) = {m}
    BY <1>2 DEF RegsOf, OneReg
  <1>4. Cardinality({m}) = 1
    BY FS_Singleton
  <1>5. QED
    BY <1>1, <1>3, <1>4

(* A worker registers when it is idle, and says so truthfully.                *)
LEMMA SendRegisterProtocol ==
  ASSUME OverInv, Protocol, NEW w \in Worker, RegsOf(w) = {},
         StartWorker(w) \/ Reregister(w)
  PROVE  Protocol'
  <1>1. /\ UNCHANGED <<hostBoot, stage, live, poll, boot, placed>>
        /\ \A v \in Worker \ {w} : loop'[v] = loop[v]
        /\ loop'[w] \in {"registering", "reregistering"}
        /\ loop[w] \in {"down", "idle"}
        /\ loop'[w] = "registering" => loop[w] = "down"
        /\ loop'[w] = "reregistering" => loop[w] = "idle"
    BY DEF StartWorker, Reregister, SendRegister, OverInv, FleetTypeOK, vars
  <1>2. \A v : JobsOf(v)' = JobsOf(v)
    BY <1>1 DEF JobsOf, Mine
  <1>3. PICK p \in Proof(w) :
          regs' = regs \cup {[from |-> w, boot |-> hostBoot[w], proof |-> p,
                              at |-> "sent", awaited |-> TRUE]}
    BY DEF StartWorker, Reregister, SendRegister
  <1>4. PICK r : r = [from |-> w, boot |-> hostBoot[w], proof |-> p,
                      at |-> "sent", awaited |-> TRUE]
    OBVIOUS
  <1>5. /\ regs' = regs \cup {r}
         /\ r.from = w /\ r.boot = hostBoot[w] /\ r.proof = p
         /\ r.at = "sent" /\ r.awaited
    BY <1>3, <1>4
  <1>6. Idles(w)
    <2>1. CASE StartWorker(w)
      BY <2>1 DEF StartWorker, Protocol, FreshIsBlank, Idles, Busy
    <2>2. CASE Reregister(w)
      <3>1. \A j \in JobsOf(w) : stage[j] \notin {"acquiring", "running"}
        BY <2>2 DEF Reregister, Supervised, InRunning
      <3>2. \A j \in JobsOf(w) : stage[j] # "spawned"
        BY <2>2 DEF Reregister, Protocol, NoLaggard
      <3>3. QED
        BY <3>1, <3>2 DEF Idles, Busy
    <2>3. QED
      BY <2>1, <2>2
  <1>7. p => \A j \in JobsOf(w) : j \notin live
    BY <1>6 DEF Proof, Protocol, IsolatedDie, Idles, Busy
  <1>8. RegsAreTimely'
    <2>1. ASSUME NEW m \in regs PROVE RegTimely(m)'
      <3>1. m.from \in Worker \ {w} /\ RegTimely(m)
        BY DEF RegsOf, OverInv, FleetTypeOK, RegState, Protocol, RegsAreTimely
      <3>2. QED
        BY <1>1, <1>2, <3>1 DEF RegTimely, Idles
    <2>2. RegTimely(r)'
      BY <1>1, <1>2, <1>6, <1>7, <1>5 DEF RegTimely, Idles
    <2>3. QED
      BY <1>5, <2>1, <2>2 DEF RegsAreTimely
  <1>9. OneReg'
    <2>1. \A m \in regs : m.from # w
      BY DEF RegsOf
    <2>2. QED
      BY <1>5, <2>1 DEF Protocol, OneReg
  <1>10. PollOfPolling' /\ IsolatedDie'
    BY <1>1 DEF Protocol, PollOfPolling, IsolatedDie
  <1>11. FreshIsBlank' /\ NoLaggard'
    BY <1>1, <1>2 DEF Protocol, FreshIsBlank, NoLaggard
  <1>12. RebootIsClean'
    BY <1>1, <1>2 DEF Protocol, RebootIsClean, Occupies
  <1>13. QED
    BY <1>8, <1>9, <1>10, <1>11, <1>12 DEF Protocol

(* Handling a registration tells the store the boot id the worker has now.    *)
LEMMA HandleRegisterProtocol ==
  ASSUME OverInv, Protocol, NEW m \in regs, HandleRegister(m)
  PROVE  Protocol'
  <1> DEFINE r == [m EXCEPT !.at = "upserted"]
  <1>1. m \in RegState /\ RegTimely(m) /\ m.at = "sent"
    BY DEF OverInv, FleetTypeOK, Protocol, RegsAreTimely, HandleRegister
  <1>2. /\ UNCHANGED <<loop, hostBoot, stage, live, poll, placed>>
        /\ boot' = [boot EXCEPT ![m.from] = m.boot]
        /\ regs' = (regs \ {m}) \cup {r}
    BY DEF HandleRegister, UpsertWorker
  <1>3. \A v : JobsOf(v)' = JobsOf(v)
    BY <1>2 DEF JobsOf, Mine
  <1>4. /\ r.from = m.from /\ r.proof = m.proof /\ r.awaited = m.awaited
        /\ r.at = "upserted" /\ m.from \in Worker
        /\ m.awaited /\ m.boot = hostBoot[m.from]
    BY <1>1 DEF RegState, RegTimely
  <1>5. /\ boot'[m.from] = hostBoot[m.from]
        /\ \A v \in Worker \ {m.from} : boot'[v] = boot[v]
    BY <1>2, <1>4 DEF OverInv, StoreInv, TypeOK
  <1>6. RegsAreTimely'
    <2>1. ASSUME NEW n \in regs \ {m} PROVE RegTimely(n)'
      <3>1. n.from \in Worker \ {m.from} /\ RegTimely(n)
        BY DEF Protocol, OneReg, OverInv, FleetTypeOK, RegState, RegsAreTimely
      <3>2. QED
        BY <1>2, <1>3, <1>5, <3>1 DEF RegTimely, Idles
    <2>2. RegTimely(r)'
      BY <1>1, <1>2, <1>3, <1>4, <1>5 DEF RegTimely, Idles
    <2>3. QED
      BY <1>2, <2>1, <2>2 DEF RegsAreTimely
  <1>7. OneReg'
    <2>1. \A n \in regs \ {m} : n.from # r.from
      BY <1>4 DEF Protocol, OneReg
    <2> HIDE DEF r
    <2>2. QED
      BY <1>2, <2>1 DEF Protocol, OneReg
  <1>8. RebootIsClean'
    BY <1>2, <1>3, <1>5 DEF Protocol, RebootIsClean, Occupies
  <1>9. PollOfPolling' /\ FreshIsBlank' /\ NoLaggard' /\ IsolatedDie'
    BY <1>2, <1>3 DEF Protocol, PollOfPolling, FreshIsBlank, NoLaggard, IsolatedDie
  <1>10. QED
    BY <1>6, <1>7, <1>8, <1>9 DEF Protocol

(* Its answer ends it.                                                        *)
LEMMA AnswerRegisterProtocol ==
  ASSUME OverInv, Protocol, NEW m \in regs, AnswerRegister(m)
  PROVE  Protocol'
  <1>1. /\ m \in RegState /\ RegTimely(m) /\ m.at = "upserted"
        /\ m.from \in Worker
    BY DEF OverInv, FleetTypeOK, RegState, Protocol, RegsAreTimely, AnswerRegister
  <1>2. /\ UNCHANGED <<hostBoot, stage, live, poll, placed, boot>>
        /\ regs' = regs \ {m}
        /\ loop' = IF m.awaited THEN [loop EXCEPT ![m.from] = "polling"] ELSE loop
    BY DEF AnswerRegister, AutoRecover, vars, jobVars, workerVars
  <1>3. /\ \A v \in Worker \ {m.from} : loop'[v] = loop[v]
        /\ \/ loop'[m.from] = loop[m.from]
           \/ loop'[m.from] = "polling" /\ boot[m.from] = hostBoot[m.from]
    BY <1>1, <1>2 DEF OverInv, FleetTypeOK, RegTimely
  <1>4. \A v : JobsOf(v)' = JobsOf(v)
    BY <1>2 DEF JobsOf, Mine
  <1>5. RegsAreTimely'
    <2>1. SUFFICES ASSUME NEW n \in regs \ {m} PROVE RegTimely(n)'
      BY <1>2 DEF RegsAreTimely
    <2>2. n.from \in Worker \ {m.from} /\ RegTimely(n)
      BY DEF Protocol, OneReg, OverInv, FleetTypeOK, RegState, RegsAreTimely
    <2>3. QED
      BY <1>2, <1>3, <1>4, <2>2 DEF RegTimely, Idles
  <1>6. OneReg'
    BY <1>2 DEF Protocol, OneReg
  <1>7. RebootIsClean'
    BY <1>2, <1>3, <1>4 DEF Protocol, RebootIsClean, Occupies
  <1>8. PollOfPolling' /\ FreshIsBlank' /\ NoLaggard' /\ IsolatedDie'
    BY <1>2, <1>3, <1>4
       DEF Protocol, PollOfPolling, FreshIsBlank, NoLaggard, IsolatedDie
  <1>9. QED
    BY <1>5, <1>6, <1>7, <1>8 DEF Protocol

(* A poll comes and goes while no registration of its worker is on its way.   *)
LEMMA PollProtocol ==
  ASSUME Orderly, OverInv, Protocol, NEW w \in Worker,
         \/ ReadAssignments(w) \/ TakeKills(w) \/ LosePoll(w) \/ IdlePoll(w)
         \/ PollAgain(w)
  PROVE  Protocol'
  <1>1. /\ UNCHANGED <<hostBoot, stage, live, regs, boot, placed>>
        /\ \A v \in Worker \ {w} : loop'[v] = loop[v] /\ poll'[v] = poll[v]
    BY DEF ReadAssignments, TakeKills, TakeKillRequests, LosePoll, IdlePoll,
       PollAgain, SetPoll, vars, jobVars, workerVars, OverInv, FleetTypeOK
  <1>2. /\ loop[w] \in {"polling", "idle"} /\ loop'[w] \in {"polling", "idle"}
        /\ loop'[w] # "polling" => poll'[w] = Waiting
    <2>1. CASE ReadAssignments(w)
      BY <2>1 DEF ReadAssignments, SetPoll
    <2>2. CASE TakeKills(w) \/ LosePoll(w)
      <3>1. poll[w].at # "wait"
        BY <2>2 DEF TakeKills, LosePoll, Answered
      <3>2. loop[w] = "polling"
        BY <3>1 DEF Protocol, PollOfPolling, Waiting
      <3>3. QED
        BY <2>2, <3>2 DEF TakeKills, LosePoll, SetPoll
    <2>3. CASE IdlePoll(w)
      <3>1. loop[w] = "polling"
        BY <2>3 DEF IdlePoll, Protocol, PollOfPolling, Waiting
      <3>2. QED
        BY <2>3, <3>1 DEF IdlePoll, OverInv, FleetTypeOK
    <2>4. CASE PollAgain(w)
      BY <2>4 DEF PollAgain, OverInv, FleetTypeOK
    <2>5. QED
      BY <2>1, <2>2, <2>3, <2>4
  <1>3. \A v : JobsOf(v)' = JobsOf(v)
    BY <1>1 DEF JobsOf, Mine
  <1>4. PollOfPolling' /\ OneReg' /\ IsolatedDie'
    BY <1>1, <1>2 DEF Protocol, PollOfPolling, OneReg, IsolatedDie
  <1>5. FreshIsBlank'
    BY <1>1, <1>2, <1>3 DEF Protocol, FreshIsBlank
  <1>6. NoLaggard'
    <2>1. ASSUME poll'[w].at # "wait" \/ loop'[w] \in {"idle", "reregistering"}
          PROVE  \A j \in JobsOf(w) : stage[j] # "spawned"
      <3>1. CASE ReadAssignments(w)
        BY <3>1 DEF ReadAssignments, Orderly
      <3>2. CASE TakeKills(w) \/ LosePoll(w) \/ IdlePoll(w)
        BY <3>2 DEF TakeKills, LosePoll, Answered, IdlePoll, Protocol, NoLaggard
      <3>3. CASE PollAgain(w)
        BY <3>3 DEF PollAgain, Protocol, NoLaggard
      <3>4. QED
        BY <3>1, <3>2, <3>3
    <2>2. QED
      BY <1>1, <1>3, <2>1 DEF Protocol, NoLaggard
  <1>7. RegsAreTimely'
    <2>1. SUFFICES ASSUME NEW m \in regs PROVE RegTimely(m)'
      BY <1>1 DEF RegsAreTimely
    <2>2. m.from \in Worker \ {w} /\ RegTimely(m)
      BY <1>2, NoRegOfPolling
         DEF Protocol, OverInv, FleetTypeOK, RegState, RegsAreTimely
    <2>3. QED
      BY <1>1, <1>3, <2>2 DEF RegTimely, Idles
  <1>8. RebootIsClean'
    BY <1>1, <1>2, <1>3 DEF Protocol, RebootIsClean, Occupies
  <1>9. QED
    BY <1>4, <1>5, <1>6, <1>7, <1>8 DEF Protocol

(* A response starts jobs of its own worker.                                  *)
LEMMA ReceivePollProtocol ==
  ASSUME OverInv, Protocol, NEW w \in Worker, ReceivePoll(w)
  PROVE  Protocol'
  <1> DEFINE P == poll[w].jobs
  <1>1. /\ UNCHANGED <<hostBoot, live, regs, boot, placed>>
        /\ \A v \in Worker \ {w} : loop'[v] = loop[v] /\ poll'[v] = poll[v]
        /\ poll'[w] = Waiting /\ loop[w] = "polling" /\ poll[w].at = "taken"
        /\ loop'[w] = IF P \subseteq poll[w].kills THEN "idle" ELSE "polling"
    BY DEF ReceivePoll, Answered, vars, OverInv, FleetTypeOK
  <1>2. \A j \in Job :
          \/ stage'[j] = stage[j]
          \/ /\ j \in P /\ stage[j] = "none"
             /\ stage'[j] = IF j \in poll[w].kills THEN "prekilled" ELSE "spawned"
    <2>1. stage' = [j \in Job |->
            IF j \notin {i \in P : stage[i] = "none"} THEN stage[j]
            ELSE IF j \in poll[w].kills THEN "prekilled" ELSE "spawned"]
      BY DEF ReceivePoll
    <2>2. QED
      BY <2>1
  <1>3. \A j \in P : j \in Job /\ j \in JobsOf(w) /\ j \notin live
    BY DEF OverInv, HandedOutNew, FleetTypeOK, PollState, JobsOf
  <1>4. /\ \A v : JobsOf(v)' = JobsOf(v)
        /\ \A v : v # w => \A j \in JobsOf(v) : j \in Job /\ j \notin P
    BY <1>1, <1>3 DEF JobsOf, Mine
  <1>5. PollOfPolling' /\ OneReg'
    BY <1>1 DEF Protocol, PollOfPolling, OneReg
  <1>6. IsolatedDie'
    BY <1>1, <1>2, <1>3 DEF Protocol, IsolatedDie, OverInv, FleetTypeOK
  <1>7. FreshIsBlank'
    BY <1>1, <1>2, <1>4 DEF Protocol, FreshIsBlank
  <1>8. NoLaggard'
    <2>1. \A j \in JobsOf(w) : j \in Job /\ stage[j] # "spawned"
      BY <1>1 DEF Protocol, NoLaggard, JobsOf
    <2>2. ASSUME loop'[w] = "idle"
          PROVE  \A j \in JobsOf(w) : stage'[j] # "spawned"
      BY <1>1, <1>2, <2>1, <2>2
    <2>3. poll'[w].at = "wait" /\ loop'[w] # "reregistering"
      BY <1>1 DEF Waiting
    <2>4. QED
      BY <1>1, <1>2, <1>4, <2>2, <2>3 DEF Protocol, NoLaggard
  <1>9. RegsAreTimely'
    <2>1. SUFFICES ASSUME NEW m \in regs PROVE RegTimely(m)'
      BY <1>1 DEF RegsAreTimely
    <2>2. m.from \in Worker \ {w} /\ RegTimely(m)
      BY <1>1, NoRegOfPolling
         DEF Protocol, OverInv, FleetTypeOK, RegState, RegsAreTimely
    <2>3. QED
      BY <1>1, <1>2, <1>4, <2>2 DEF RegTimely, Idles
  <1>10. RebootIsClean'
    BY <1>1, <1>2, <1>4 DEF Protocol, RebootIsClean, Occupies
  <1>11. QED
    BY <1>5, <1>6, <1>7, <1>8, <1>9, <1>10 DEF Protocol

(* What is left of the registrations of a worker that has hung up.            *)
LEMMA HungUp ==
  ASSUME Orderly, OverInv, Protocol, NEW w \in Worker, HangUp(w), NEW m \in regs'
  PROVE  \/ m \in regs /\ m.from \in Worker \ {w}
         \/ /\ m.from = w /\ ~m.awaited /\ m.at = "upserted"
            /\ \E n \in regs : /\ n.from = w /\ n.proof = m.proof
                               /\ m = [n EXCEPT !.awaited = FALSE]
  <1>1. \A n \in regs : n \in RegState
    BY DEF OverInv, FleetTypeOK
  <1>2. CASE m \in {n \in regs : n.from # w}
    BY <1>1, <1>2 DEF RegState
  <1>3. CASE m \notin {n \in regs : n.from # w}
    <2>1. PICK n \in RegsOf(w) : n.at = "upserted" /\ m = [n EXCEPT !.awaited = FALSE]
      BY <1>3 DEF HangUp, Orderly
    <2>2. QED
      BY <1>1, <2>1 DEF RegsOf, RegState
  <1>4. QED
    BY <1>2, <1>3

(* A worker that stops, or whose host goes down, hangs up and is idle from    *)
(* then on.                                                                   *)
LEMMA HangUpProtocol ==
  ASSUME Orderly, OverInv, Protocol, NEW w \in Worker,
         Crash(w) \/ Reboot(w) \/ Shutdown(w) \/ Drained(w)
  PROVE  Protocol'
  <1>1. HangUp(w) /\ UNCHANGED <<boot, placed>>
    BY DEF Crash, Reboot, Shutdown, Drained, Exit, Forget, vars
  <1>2. /\ poll'[w] = Waiting
        /\ \A v \in Worker \ {w} : /\ poll'[v] = poll[v] /\ loop'[v] = loop[v]
                                   /\ hostBoot'[v] = hostBoot[v]
    BY <1>1 DEF HangUp, Crash, Reboot, Shutdown, Drained, Exit, Forget, OverInv,
       FleetTypeOK
  <1>3. /\ \A v : JobsOf(v)' = JobsOf(v)
        /\ \A v : JobsOf(v) \subseteq Job
        /\ \A v : v # w => \A j \in JobsOf(v) : j \notin JobsOf(w)
    BY <1>1 DEF JobsOf, Mine
  <1>4. /\ live' \subseteq live
        /\ \A j \in Job : \/ stage'[j] = stage[j]
                          \/ j \in JobsOf(w) /\ stage'[j] = "none"
    BY DEF Crash, Reboot, Shutdown, Drained, Exit, Forget
  <1>5. \/ loop'[w] = "down" /\ \A j \in JobsOf(w) : stage'[j] = "none"
        \/ /\ loop'[w] = "draining" /\ stage' = stage
           /\ hostBoot' = hostBoot /\ live' = live /\ loop[w] # "down"
    BY <1>3 DEF Crash, Reboot, Shutdown, Drained, Exit, Forget, OverInv,
       FleetTypeOK
  <1>6. PollOfPolling'
    BY <1>2 DEF Protocol, PollOfPolling
  <1>7. FreshIsBlank'
    BY <1>2, <1>3, <1>4, <1>5 DEF Protocol, FreshIsBlank
  <1>8. NoLaggard'
    <2>1. poll'[w].at = "wait" /\ loop'[w] \notin {"idle", "reregistering"}
      BY <1>2, <1>5 DEF Waiting
    <2>2. QED
      BY <1>2, <1>3, <1>4, <2>1 DEF Protocol, NoLaggard
  <1>9. RegsAreTimely'
    <2>1. SUFFICES ASSUME NEW m \in regs' PROVE RegTimely(m)'
      BY DEF RegsAreTimely
    <2>2. CASE m \in regs /\ m.from \in Worker \ {w}
      <3>1. RegTimely(m)
        BY <2>2 DEF Protocol, RegsAreTimely
      <3>2. QED
        BY <1>1, <1>2, <1>3, <1>4, <2>2, <3>1 DEF RegTimely, Idles
    <2>3. CASE /\ m.from = w /\ ~m.awaited /\ m.at = "upserted"
               /\ \E n \in regs : n.from = w /\ n.proof = m.proof
      <3>1. PICK n \in regs : n.from = w /\ n.proof = m.proof
        BY <2>3
      <3>2. RegTimely(n)
        BY DEF Protocol, RegsAreTimely
      <3>3. Idles(w) /\ (m.proof => \A j \in JobsOf(w) : j \notin live)
        BY <3>1, <3>2 DEF RegTimely
      <3>4. Idles(w)' /\ (m.proof => \A j \in JobsOf(w)' : j \notin live')
        BY <1>3, <1>4, <3>3 DEF Idles, Busy
      <3>5. QED
        BY <1>5, <2>3, <3>4 DEF RegTimely
    <2>4. QED
      BY <1>1, <2>2, <2>3, HungUp
  <1>10. OneReg'
    <2>1. SUFFICES ASSUME NEW m \in regs', NEW n \in regs', m.from = n.from
                   PROVE  m = n
      BY DEF OneReg
    <2>2. CASE m.from # w
      <3>1. m \in regs /\ n \in regs
        BY <1>1, <2>1, <2>2, HungUp
      <3>2. QED
        BY <2>1, <3>1 DEF Protocol, OneReg
    <2>3. CASE m.from = w
      <3>0. ASSUME NEW r \in regs', r.from = w
            PROVE  \E a \in regs : a.from = w /\ r = [a EXCEPT !.awaited = FALSE]
        BY <1>1, <3>0, HungUp
      <3>1. PICK a \in regs : a.from = w /\ m = [a EXCEPT !.awaited = FALSE]
        BY <2>3, <3>0
      <3>2. PICK b \in regs : b.from = w /\ n = [b EXCEPT !.awaited = FALSE]
        BY <2>1, <2>3, <3>0
      <3>3. a = b
        BY <3>1, <3>2 DEF Protocol, OneReg
      <3>4. QED
        BY <3>1, <3>2, <3>3
    <2>4. QED
      BY <2>2, <2>3
  <1>11. RebootIsClean'
    <2>1. SUFFICES ASSUME NEW v \in Worker, boot[v] # None, boot[v] # hostBoot'[v]
                   PROVE  /\ loop'[v] \in {"down", "registering", "draining"}
                          /\ \A j \in JobsOf(v) : ~Occupies(j)'
      BY <1>1, <1>3 DEF RebootIsClean
    <2>2. CASE v # w
      BY <1>2, <1>3, <1>4, <2>1, <2>2 DEF Protocol, RebootIsClean, Occupies
    <2>3. CASE v = w /\ hostBoot' = hostBoot
      BY <1>3, <1>4, <1>5, <2>1, <2>3 DEF Protocol, RebootIsClean, Occupies
    <2>4. CASE v = w /\ Reboot(w)
      <3>1. live' = live \ JobsOf(w)
        BY <2>4 DEF Reboot
      <3>2. loop'[w] = "down" /\ \A j \in JobsOf(w) : stage'[j] = "none"
        BY <2>4, <1>3 DEF Reboot, Forget, OverInv, FleetTypeOK
      <3>3. QED
        BY <1>3, <2>4, <3>1, <3>2 DEF Occupies
    <2>5. QED
      BY <2>2, <2>3, <2>4 DEF Crash, Shutdown, Drained, Exit
  <1>12. IsolatedDie'
    <2>1. SUFFICES ASSUME Isolated, NEW j \in live' PROVE stage'[j] = "running"
      BY DEF IsolatedDie
    <2>2. j \in Job /\ stage[j] = "running"
      BY <1>4, <2>1 DEF Protocol, IsolatedDie, OverInv, FleetTypeOK
    <2>3. stage' = stage \/ j \notin JobsOf(w)
      BY <2>1 DEF Crash, Reboot, Shutdown, Drained, Exit
    <2>4. QED
      BY <1>4, <2>2, <2>3
  <1>13. QED
    BY <1>6, <1>7, <1>8, <1>9, <1>10, <1>11, <1>12 DEF Protocol

(* A restart of the controller ends every exchange.                           *)
LEMMA RestartProtocol ==
  ASSUME OverInv, Protocol, RestartController
  PROVE  Protocol'
  <1>1. /\ UNCHANGED <<hostBoot, stage, live, boot, placed>>
        /\ regs' = {} /\ \A w \in Worker : poll'[w] = Waiting
        /\ \A w \in Worker : loop'[w] =
             CASE loop[w] = "registering" -> "down"
               [] loop[w] = "reregistering" -> "polling"
               [] OTHER -> loop[w]
    BY DEF RestartController, ControllerRestart, jobVars, workerVars
  <1>2. \A w \in Worker :
          \/ loop'[w] = loop[w] /\ loop[w] \notin {"registering", "reregistering"}
          \/ loop[w] = "registering" /\ loop'[w] = "down"
          \/ loop[w] = "reregistering" /\ loop'[w] = "polling"
    BY <1>1
  <1>3. \A v : JobsOf(v)' = JobsOf(v)
    BY <1>1 DEF JobsOf, Mine
  <1>4. PollOfPolling' /\ RegsAreTimely' /\ OneReg' /\ IsolatedDie'
    BY <1>1 DEF Protocol, PollOfPolling, RegsAreTimely, OneReg, IsolatedDie
  <1>5. FreshIsBlank' /\ NoLaggard'
    BY <1>1, <1>2, <1>3 DEF Protocol, FreshIsBlank, NoLaggard, Waiting
  <1>6. RebootIsClean'
    BY <1>1, <1>2, <1>3 DEF Protocol, RebootIsClean, Occupies
  <1>7. QED
    BY <1>4, <1>5, <1>6 DEF Protocol

(* What a step of a job does to the stages and the processes.                 *)
LEMMA JobActStages ==
  ASSUME OverInv, NEW i \in Job, JobAct(i)
  PROVE  /\ UNCHANGED <<loop, hostBoot, poll, regs, boot, placed>>
         /\ \A j \in Job : stage'[j] = stage[j] \/ (j = i /\ stage[i] # "none")
         /\ stage'[i] # "spawned" \/ stage'[i] = stage[i]
         /\ stage'[i] \in Busy => stage[i] \in Busy
         /\ live' \subseteq live \cup {i}
         /\ i \in live' => \/ i \in live /\ stage'[i] = stage[i]
                           \/ stage[i] = "acquiring" /\ stage'[i] = "running"
  <1>1. stage \in [Job -> Stage] /\ LiveIsRun
    BY DEF OverInv, FleetTypeOK
  <1> USE DEF Goto, Local, Busy, LiveIsRun
  <1>2. CASE Execute(i) \/ HookCancelled(i) \/ VerifyPassed(i)
    BY <1>1, <1>2 DEF Execute, HookCancelled, VerifyPassed, vars
  <1>3. CASE \/ StartProcess(i) \/ HookFailed(i) \/ ProcessEnds(i)
             \/ OrphanEnds(i) \/ VerifyFailed(i)
    BY <1>1, <1>3 DEF StartProcess, HookFailed, ProcessEnds, OrphanEnds,
       VerifyFailed, vars
  <1>4. CASE ReportFault(i) \/ LoseFault(i)
    BY <1>1, <1>4 DEF ReportFault, LoseFault, AfterFault, SetDeviceState, vars,
       jobVars, workerVars
  <1>5. CASE ReportTerminal(i) \/ LoseReport(i)
    BY <1>1, <1>5 DEF ReportTerminal, LoseReport, AfterReport, Release, vars,
       workerVars
  <1>6. CASE ReportUnanswered(i) \/ KillJob(i)
    BY <1>1, <1>6 DEF ReportUnanswered, KillJob, workerSide, Release, RequestKill,
       workerVars
  <1>7. QED
    BY <1>2, <1>3, <1>4, <1>5, <1>6 DEF JobAct

(* A job moves on only in a worker that has no registration on its way, or    *)
(* away from its device.                                                      *)
LEMMA JobActProtocol ==
  ASSUME OverInv, Protocol, NEW i \in Job, JobAct(i)
  PROVE  Protocol'
  <1>1. /\ UNCHANGED <<loop, hostBoot, poll, regs, boot, placed>>
        /\ \A j \in Job : stage'[j] = stage[j] \/ (j = i /\ stage[i] # "none")
        /\ stage'[i] # "spawned" \/ stage'[i] = stage[i]
        /\ stage'[i] \in Busy => stage[i] \in Busy
        /\ live' \subseteq live \cup {i}
        /\ i \in live' => \/ i \in live /\ stage'[i] = stage[i]
                          \/ stage[i] = "acquiring" /\ stage'[i] = "running"
    BY JobActStages
  <1>2. \A v : JobsOf(v)' = JobsOf(v) /\ JobsOf(v) \subseteq Job
    BY <1>1 DEF JobsOf, Mine
  <1>3. PollOfPolling' /\ OneReg'
    BY <1>1 DEF Protocol, PollOfPolling, OneReg
  <1>4. FreshIsBlank'
    BY <1>1, <1>2 DEF Protocol, FreshIsBlank
  <1>5. NoLaggard'
    BY <1>1, <1>2 DEF Protocol, NoLaggard
  <1>6. RegsAreTimely'
    <2>1. SUFFICES ASSUME NEW m \in regs PROVE RegTimely(m)'
      BY <1>1 DEF RegsAreTimely
    <2>2. RegTimely(m)
      BY DEF Protocol, RegsAreTimely
    <2>3. Idles(m.from)'
      BY <1>1, <1>2, <2>2 DEF RegTimely, Idles, Busy
    <2>4. m.proof => \A j \in JobsOf(m.from)' : j \notin live'
      BY <1>1, <1>2, <2>2 DEF RegTimely, Idles, Busy
    <2>5. QED
      BY <1>1, <2>2, <2>3, <2>4 DEF RegTimely
  <1>7. RebootIsClean'
    BY <1>1, <1>2 DEF Protocol, RebootIsClean, Occupies, Busy
  <1>8. IsolatedDie'
    BY <1>1 DEF Protocol, IsolatedDie, OverInv, FleetTypeOK
  <1>9. QED
    BY <1>3, <1>4, <1>5, <1>6, <1>7, <1>8 DEF Protocol

(* Every step keeps the protocol.                                             *)
LEMMA ProtocolKept ==
  ASSUME Orderly, OverInv, Protocol, [FleetNext]_fleetVars,
         \A w \in Worker : StartWorker(w) \/ Reregister(w) => RegsOf(w) = {}
  PROVE  Protocol'
  <1>1. ASSUME NEW w \in Worker, WorkerAct(w) PROVE Protocol'
    <2>1. CASE \/ SendBeat(w) \/ HandleBeat(w) \/ LoseBeat(w)
               \/ \E j \in Job : MarkHandedOut(w, j)
      <3>1. UNCHANGED <<loop, hostBoot, stage, live, poll, regs, boot, placed>>
        BY <2>1 DEF SendBeat, HandleBeat, LoseBeat, RecordHeartbeat,
           MarkHandedOut, MarkRunning, workerSide, vars, jobVars, workerVars
      <3>2. QED
        BY <3>1, ProtocolFrame
    <2>2. QED
      BY <1>1, <2>1, SendRegisterProtocol, PollProtocol, ReceivePollProtocol,
         HangUpProtocol DEF WorkerAct
  <1>2. ASSUME NEW m \in regs,
               HandleRegister(m) \/ AnswerRegister(m) \/ GiveUpRegister(m)
        PROVE  Protocol'
    BY <1>2, HandleRegisterProtocol, AnswerRegisterProtocol
       DEF GiveUpRegister, Orderly
  <1>3. CASE \/ \E d \in Device : Vouch(d)
             \/ Reaper \/ Clock \/ UNCHANGED fleetVars
    <2>1. UNCHANGED <<loop, hostBoot, stage, live, poll, regs, boot, placed>>
      BY <1>3 DEF Vouch, ClearDevice, RetireDevice, Reaper, Sweep, Clock, Tick,
         workerSide, fleetVars, vars, jobVars, workerVars
    <2>2. QED
      BY <2>1, ProtocolFrame
  <1>4. CASE Scheduler
    <2>1. UNCHANGED <<loop, hostBoot, stage, live, poll, regs, boot>>
      BY <1>4 DEF Scheduler, Enqueue, AssignQueued, workerSide, workerVars
    <2>2. \A j \in Job : placed'[j] = placed[j] \/ job[j] = "queued"
      BY <1>4 DEF Scheduler, Enqueue, AssignQueued, OverInv, StoreInv, TypeOK
    <2>3. \A j \in Job : job[j] = "queued" => ~Begun(j)
      BY DEF OverInv, BegunIsMarked, Begun
    <2>4. QED
      BY <2>1, <2>2, <2>3, ProtocolFrame
  <1>5. QED
    BY <1>1, <1>2, <1>3, <1>4, JobActProtocol, RestartProtocol DEF FleetNext
-----------------------------------------------------------------------------
(* Only a device without a live lease is retired.                             *)
LEMMA LeasedExistsKept ==
  ASSUME StoreInv, LeasedExists, [Next]_vars
  PROVE  LeasedExists'
  <1>1. /\ dev \in [Device -> DeviceState \cup {"absent"}]
        /\ leased \in [Job -> Device \cup {None}]
    BY DEF StoreInv, TypeOK
  <1>2. CASE \E j \in Job, d \in Device, ttl \in LeaseTTL : AssignQueued(j, d, ttl)
    BY <1>1, <1>2 DEF AssignQueued, LeasedExists
  <1>3. CASE ~\E j \in Job, d \in Device, ttl \in LeaseTTL : AssignQueued(j, d, ttl)
    <2>1. \A j \in Job : leased'[j] = leased[j] \/ leased'[j] = None
      BY <1>3, OtherStepsEnd
    <2>2. ASSUME NEW d \in Device, dev[d] # "absent", dev'[d] = "absent"
          PROVE  ~LiveLeaseOn(d)
      <3>1. CASE JobStep
        BY <1>1, <2>2, <3>1 DEF JobStep, Enqueue, CancelQueued, AssignQueued,
           MarkRunning, Release, RequestKill, devVars
      <3>2. ASSUME NEW w \in Worker, NEW b, NEW D, UpsertWorker(w, b, D) PROVE FALSE
        <4>1. Row(d).state # "absent" /\ InService.state # "absent"
              /\ Quarantined("registration").state # "absent"
          BY <2>2 DEF Row, InService, Quarantined
        <4>2. Reaped(w, b, d).state # "absent"
          BY <4>1 DEF Reaped
        <4>3. Restored(w, b, d).state # "absent"
          BY <4>1, <4>2 DEF Restored
        <4>4. Registered(w, b, D, d).state # "absent"
          BY <4>1, <4>3 DEF Registered
        <4>5. QED
          BY <2>2, <3>2, <4>4 DEF UpsertWorker
      <3>3. ASSUME NEW w \in Worker, NEW R,
                   \/ AutoRecover(w) \/ RecordHeartbeat(w, R) \/ TakeKillRequests(w)
            PROVE  FALSE
        BY <2>2, <3>3 DEF AutoRecover, RecordHeartbeat, Heartened,
           TakeKillRequests, devVars
      <3>4. CASE DeviceStep
        BY <1>1, <2>2, <3>4 DEF DeviceStep, SetDeviceState, ClearDevice, RetireDevice
      <3>5. CASE Sweep \/ ControllerRestart \/ Tick \/ UNCHANGED vars
        BY <2>2, <3>5 DEF Sweep, ControllerRestart, Tick, devVars, vars
      <3>6. QED
        BY <3>1, <3>2, <3>3, <3>4, <3>5 DEF Next, WorkerStep
    <2>3. QED
      BY <1>1, <2>1, <2>2 DEF LeasedExists, LiveLeaseOn
  <1>4. QED
    BY <1>2, <1>3

(* In the default mode a device is written off together with its lease.       *)
LEMMA WrittenOffIsReapedKept ==
  ASSUME ~Retain, StoreInv, WrittenOffIsReaped, [Next]_vars
  PROVE  WrittenOffIsReaped'
  <1>1. /\ dev \in [Device -> DeviceState \cup {"absent"}]
        /\ why \in [Device -> Reason]
        /\ leased \in [Job -> Device \cup {None}]
        /\ None \notin Device
        /\ \A j \in Job : leased[j] # None => leased[j] = placed[j] /\ job[j] \in Active
        /\ \A d \in Device : dev[d] # "unhealthy" => why[d] = "none"
    BY Constants DEF StoreInv, TypeOK, LeaseFollowsJob, ReasonIsCurrent
  <1> USE DEF WrittenOffIsReaped
  <1>2. CASE JobStep
    <2>1. ASSUME NEW j \in Job, \/ Enqueue(j) \/ CancelQueued(j) \/ MarkRunning(j)
                                \/ RequestKill(j)
          PROVE  WrittenOffIsReaped'
      BY <1>1, <2>1 DEF Enqueue, CancelQueued, MarkRunning, RequestKill, devVars,
         leaseVars
    <2>2. ASSUME NEW j \in Job, NEW d \in Device, NEW ttl \in LeaseTTL,
                 AssignQueued(j, d, ttl)
          PROVE  WrittenOffIsReaped'
      BY <1>1, <2>2 DEF AssignQueued
    <2>3. ASSUME NEW j \in Job, NEW outcome, Release(j, outcome)
          PROVE  WrittenOffIsReaped'
      BY <1>1, <2>3 DEF Release
    <2>4. QED
      BY <1>2, <2>1, <2>2, <2>3 DEF JobStep
  <1>3. ASSUME NEW w \in Worker, NEW b, NEW D, UpsertWorker(w, b, D)
        PROVE  WrittenOffIsReaped'
    <2>1. ASSUME NEW d \in Device
          PROVE  why'[d] = "worker_lost" => why[d] = "worker_lost"
      <3> DEFINE Mild(r) == r.reason = "worker_lost" => why[d] = "worker_lost"
      <3>1. Mild(Row(d)) /\ Mild(InService) /\ Mild(Quarantined("registration"))
        BY DEF Row, InService, Quarantined
      <3>2. Mild(Reaped(w, b, d))
        BY <3>1 DEF Reaped
      <3>3. Mild(Restored(w, b, d))
        BY <3>1, <3>2 DEF Restored
      <3>4. Mild(Registered(w, b, D, d))
        BY <3>1, <3>3 DEF Registered
      <3>5. QED
        BY <1>3, <3>4 DEF UpsertWorker
    <2>2. \A j \in Job : leased'[j] = leased[j] \/ leased'[j] = None
      BY <1>3 DEF UpsertWorker
    <2>3. QED
      BY <1>1, <2>1, <2>2
  <1>4. ASSUME NEW w \in Worker, AutoRecover(w) \/ TakeKillRequests(w)
        PROVE  WrittenOffIsReaped'
    BY <1>1, <1>4 DEF AutoRecover, Recoverable, TakeKillRequests, devVars,
       leaseVars
  <1>5. ASSUME NEW w \in Worker, NEW R, RecordHeartbeat(w, R)
        PROVE  WrittenOffIsReaped'
    BY <1>1, <1>5 DEF RecordHeartbeat, Heartened
  <1>6. CASE DeviceStep
    BY <1>1, <1>6 DEF DeviceStep, SetDeviceState, ClearDevice, RetireDevice,
       LiveLeaseOn, leaseVars
  <1>7. CASE Sweep
    <2>1. SUFFICES ASSUME NEW d \in Device, why'[d] = "worker_lost",
                          NEW j \in Job, leased'[j] = d
                   PROVE  FALSE
      OBVIOUS
    <2>2. leased[j] = d /\ j \notin SweptJobs
      BY <1>1, <1>7, <2>1 DEF Sweep
    <2>3. why[d] # "worker_lost"
      BY <2>2
    <2>4. WrittenOff(d)
      BY <1>7, <2>1, <2>3 DEF Sweep
    <2>5. placed[j] = d /\ job[j] \in Active
      BY <1>1, <2>2
    <2>6. QED
      BY <1>1, <2>2, <2>4, <2>5 DEF SweptJobs
  <1>8. CASE ControllerRestart \/ Tick \/ UNCHANGED vars
    BY <1>8 DEF ControllerRestart, Tick, devVars, leaseVars, vars
  <1>9. CASE WorkerStep
    BY <1>3, <1>4, <1>5, <1>9 DEF WorkerStep
  <1>10. QED
    BY <1>2, <1>6, <1>7, <1>8, <1>9 DEF Next
-----------------------------------------------------------------------------
(* The transactions that bring no device back and end no lease, but for a     *)
(* kill of a retained job.                                                    *)
Still ==
  \/ \E i \in Job : \/ Enqueue(i) \/ MarkRunning(i) \/ RequestKill(i)
                    \/ \E d \in Device, ttl \in LeaseTTL : AssignQueued(i, d, ttl)
  \/ \E w \in Worker : TakeKillRequests(w)
  \/ \E d : SetDeviceState(d)
  \/ ControllerRestart \/ Tick \/ UNCHANGED vars

(* What a step of the fleet can do to the devices and leases.                 *)
LEMMA StepKinds ==
  ASSUME [FleetNext]_fleetVars
  PROVE  \/ \E m \in regs : HandleRegister(m) \/ AnswerRegister(m)
         \/ \E d \in Device : Vouch(d)
         \/ \E i \in Job : TakesReport(i)
         \/ \E w \in Worker : HandleBeat(w)
         \/ Sweep \/ Still
  <1>1. ASSUME NEW w \in Worker, WorkerAct(w) PROVE HandleBeat(w) \/ Still
    BY <1>1 DEF WorkerAct, StartWorker, Reregister, SendRegister, SendBeat,
       LoseBeat, ReadAssignments, TakeKills, ReceivePoll, LosePoll, IdlePoll,
       PollAgain, MarkHandedOut, Crash, Reboot, Shutdown, Drained, Exit, Forget,
       Still
  <1>2. ASSUME NEW i \in Job, JobAct(i) PROVE TakesReport(i) \/ Still
    <2>1. CASE ReportTerminal(i) \/ ReportUnanswered(i)
      BY <2>1 DEF ReportTerminal, ReportUnanswered, TakesReport, Still
    <2>2. CASE ReportFault(i) \/ KillJob(i)
      BY <2>2 DEF ReportFault, KillJob, Still
    <2>3. CASE ~(ReportTerminal(i) \/ ReportUnanswered(i) \/ ReportFault(i) \/ KillJob(i))
      BY <1>2, <2>3 DEF JobAct, Execute, StartProcess, HookCancelled,
         HookFailed, ProcessEnds, OrphanEnds, VerifyPassed, VerifyFailed,
         LoseFault, LoseReport, Local, Still
    <2>4. QED
      BY <2>1, <2>2, <2>3
  <1>3. CASE \/ \E m \in regs : GiveUpRegister(m)
             \/ RestartController \/ Scheduler \/ Clock \/ UNCHANGED fleetVars
    BY <1>3 DEF GiveUpRegister, RestartController, Scheduler, Clock, fleetVars,
       Still
  <1>4. QED
    BY <1>1, <1>2, <1>3 DEF FleetNext, Reaper

(* A job that is coming has a device, of the worker that has it in hand.      *)
LEMMA ComingIsPlaced ==
  ASSUME OverInv, NEW j \in Job, Coming(j)
  PROVE  /\ placed[j] \in Device /\ job[j] \notin {"absent", "queued"}
         /\ \A w \in Worker : j \in poll[w].jobs => j \in JobsOf(w)
  <1>1. placed[j] # None /\ job[j] \notin {"absent", "queued"}
    BY DEF OverInv, Coming, Occupies, BegunIsMarked, HandedOutNew, Mine
  <1>2. QED
    BY <1>1 DEF OverInv, StoreInv, TypeOK, HandedOutNew, JobsOf

(* Only a poll that reads assigned jobs makes a job come that was not coming. *)
LEMMA ComingStays ==
  ASSUME OverInv, [FleetNext]_fleetVars, NEW j \in Job, Coming(j)'
  PROVE  \/ Coming(j)
         \/ /\ UNCHANGED vars
            /\ job[j] = "assigned"
  <1>1. CASE \E w \in Worker : ReadAssignments(w)
    <2>1. PICK w \in Worker : ReadAssignments(w)
      BY <1>1
    <2>2. /\ UNCHANGED <<stage, live>> /\ UNCHANGED vars
          /\ \A v \in Worker \ {w} : poll'[v] = poll[v]
          /\ poll'[w].jobs = {i \in JobsOf(w) : job[i] = "assigned"}
      BY <2>1 DEF ReadAssignments, SetPoll, OverInv, FleetTypeOK
    <2>3. QED
      BY <2>2 DEF Coming, Occupies
  <1>2. CASE \E w \in Worker : ReceivePoll(w)
    <2>1. PICK w \in Worker : ReceivePoll(w)
      BY <1>2
    <2>2. /\ live' = live
          /\ stage' = [i \in Job |->
               IF i \notin {k \in poll[w].jobs : stage[k] = "none"} THEN stage[i]
               ELSE IF i \in poll[w].kills THEN "prekilled" ELSE "spawned"]
          /\ poll' = [poll EXCEPT ![w] = Waiting]
      BY <2>1 DEF ReceivePoll
    <2>3. /\ stage'[j] = stage[j] \/ j \in poll[w].jobs
          /\ \A v \in Worker : poll'[v].jobs \subseteq poll[v].jobs
      BY <2>2 DEF OverInv, FleetTypeOK, Waiting
    <2>4. QED
      BY <2>2, <2>3 DEF Coming, Occupies
  <1>3. CASE ~\E w \in Worker : ReadAssignments(w) \/ ReceivePoll(w)
    <2>1. Eases
      BY <1>3, WorkerActEases, JobActEases, RestEases DEF FleetNext
    <2>2. QED
      BY <2>1 DEF Eases, Coming
  <1>4. QED
    BY <1>1, <1>2, <1>3

(* A device is claimed anew only by an assignment, and only a free one is.    *)
LEMMA OneClaimKept ==
  ASSUME OverInv, OverInv', ComingIsLeased, OneClaim, [FleetNext]_fleetVars
  PROVE  OneClaim'
  <1>1. [Next]_vars
    BY FleetStepIsStoreStep, OfStore DEF OverInv, StoreInv
  <1>2. \A j \in Job : leased[j] # None =>
          leased[j] = placed[j] /\ placed[j] # None
    BY DEF OverInv, StoreInv, LeaseFollowsJob
  <1>3. ASSUME NEW j \in Job, Coming(j)' PROVE Claims(j)
    BY <1>3, ComingStays DEF Claims, OverInv, StoreInv, LeaseFollowsJob, Active
  <1>4. CASE ~\E j \in Job, d \in Device, ttl \in LeaseTTL : AssignQueued(j, d, ttl)
    <2>1. UNCHANGED placed
      BY <1>1, <1>4, OtherStepsEnd DEF OverInv
    <2>2. \A j \in Job : leased'[j] = leased[j] \/ leased'[j] = None
      BY <1>1, <1>4, OtherStepsEnd DEF OverInv
    <2>3. \A j \in Job : Claims(j)' => Claims(j)
      BY <1>3, <2>2 DEF Claims
    <2>4. QED
      BY <2>1, <2>3 DEF OneClaim
  <1>5. ASSUME NEW i \in Job, NEW d \in Device, NEW ttl \in LeaseTTL,
               AssignQueued(i, d, ttl)
        PROVE  OneClaim'
    <2>1. /\ placed'[i] = d /\ leased'[i] = d
          /\ \A j \in Job \ {i} : placed'[j] = placed[j] /\ leased'[j] = leased[j]
      BY <1>5 DEF AssignQueued, OverInv, StoreInv, TypeOK
    <2>2. dev[d] = "ready" /\ \A j \in Job : leased[j] # d
      BY <1>5 DEF AssignQueued, IndexAllows, LiveLeaseOn
    <2>3. \A j \in Job \ {i} : Claims(j)' => Claims(j)
      BY <1>3, <2>1 DEF Claims
    <2>4. \A j \in Job : Claims(j) => placed[j] # d
      BY <1>2, <2>2 DEF Claims, ComingIsLeased
    <2>5. QED
      BY <2>1, <2>3, <2>4 DEF OneClaim
  <1>6. QED
    BY <1>4, <1>5

(* What ComingIsLeased says of one job.                                       *)
Covered(j) == dev[placed[j]] # "unhealthy" => leased[j] = placed[j]

(* A worker that has a registration handled has no job coming, if it proved   *)
(* so or if its host was rebooted since.                                      *)
LEMMA IdleComesToNothing ==
  ASSUME OverInv, Protocol, NEW w \in Worker, loop[w] # "polling",
         \A j \in JobsOf(w) : ~Occupies(j)
  PROVE  \A j \in JobsOf(w) : ~Coming(j)
  <1>1. SUFFICES ASSUME NEW j \in JobsOf(w), NEW v \in Worker, j \in poll[v].jobs
                 PROVE  FALSE
    BY DEF Coming
  <1>2. v = w
    BY <1>1 DEF OverInv, HandedOutNew, JobsOf, Mine
  <1>3. poll[w].jobs = {}
    BY DEF Protocol, PollOfPolling, Waiting
  <1>4. QED
    BY <1>1, <1>2, <1>3

(* A registration quarantines the devices of what was in flight, unless the   *)
(* host was rebooted; the devices of other workers are none of its business.  *)
LEMMA HandleRegisterCovers ==
  ASSUME Timely, OverInv, ClearInv, NEW m \in regs, HandleRegister(m),
         NEW j \in Job, Coming(j)
  PROVE  Covered(j)'
  <1> DEFINE w == m.from
             b == m.boot
             d == placed[j]
             D == DevicesOf(w)
  <1>1. /\ w \in Worker /\ RegTimely(m) /\ m.awaited /\ b = hostBoot[w]
        /\ loop[w] # "polling"
    BY DEF HandleRegister, OverInv, FleetTypeOK, RegState, ClearInv, Protocol,
       RegsAreTimely, RegTimely
  <1>2. /\ dev'[d] = Registered(w, b, D, d).state
        /\ leased'[j] = IF j \in InFlight(w) THEN None ELSE leased[j]
        /\ placed' = placed /\ d \in Device
    BY ComingIsPlaced DEF HandleRegister, UpsertWorker
  <1>3. Covered(j)
    BY DEF ClearInv, ComingIsLeased, Covered
  <1>4. CASE WorkerOf[d] # w
    <2>1. j \notin InFlight(w) /\ ~\E i \in InFlight(w) : placed[i] = d
      BY <1>4 DEF InFlight, Mine
    <2>2. Reaped(w, b, d) = Row(d)
      BY <2>1 DEF Reaped
    <2>3. Restored(w, b, d) = Row(d)
      BY <1>4, <2>2 DEF Restored
    <2>4. Registered(w, b, D, d) = Row(d)
      BY <1>4, <2>3 DEF Registered, DevicesOf
    <2>5. dev'[d] = dev[d]
      BY <1>2, <2>4 DEF Row
    <2>6. QED
      BY <1>2, <1>3, <2>1, <2>5 DEF Covered
  <1>5. CASE WorkerOf[d] = w
    <2>1. j \in JobsOf(w)
      BY <1>2, <1>5, Constants DEF JobsOf, Mine
    <2>2. ~Rebooted(w, b)
      <3>1. SUFFICES ASSUME Rebooted(w, b) PROVE FALSE
        OBVIOUS
      <3>2. \A i \in JobsOf(w) : ~Occupies(i)
        BY <1>1, <3>1 DEF Rebooted, ClearInv, Protocol, RebootIsClean
      <3>3. QED
        BY <1>1, <2>1, <3>2, IdleComesToNothing DEF ClearInv
    <2>3. CASE dev[d] = "unhealthy"
      <3>1. Row(d).state = "unhealthy"
        BY <2>3 DEF Row
      <3>2. Reaped(w, b, d) = Row(d)
        BY <2>3 DEF Reaped
      <3>3. Restored(w, b, d) = Row(d)
        BY <2>2, <3>2 DEF Restored
      <3>4. Registered(w, b, D, d) = Row(d)
        BY <3>1, <3>3 DEF Registered
      <3>5. QED
        BY <1>2, <3>1, <3>4 DEF Covered
    <2>4. CASE dev[d] # "unhealthy"
      <3>1. leased[j] = d
        BY <1>3, <2>4 DEF Covered
      <3>2. leased[j] # None /\ job[j] \in Active
        BY <1>2, <3>1, Constants DEF OverInv, StoreInv, LeaseFollowsJob
      <3>3. j \in InFlight(w)
        BY <2>1, <3>2 DEF InFlight, JobsOf
      <3>4. dev[d] # "absent"
        BY <3>1, <3>2 DEF ClearInv, LeasedExists
      <3>5. Reaped(w, b, d) = Quarantined("registration")
        BY <2>2, <2>4, <3>3, <3>4 DEF Reaped
      <3>6. Restored(w, b, d) = Quarantined("registration")
        BY <2>2, <3>5 DEF Restored
      <3>7. Registered(w, b, D, d) = Quarantined("registration")
        BY <3>6 DEF Registered, Quarantined
      <3>8. QED
        BY <1>2, <3>7 DEF Covered, Quarantined
    <2>5. QED
      BY <2>3, <2>4
  <1>6. QED
    BY <1>4, <1>5

(* A recovery revives devices of a worker that has nothing coming.            *)
LEMMA AnswerRegisterCovers ==
  ASSUME OverInv, ClearInv, NEW m \in regs, AnswerRegister(m),
         NEW j \in Job, Coming(j)
  PROVE  Covered(j)'
  <1> DEFINE w == m.from
  <1>1. w \in Worker /\ RegTimely(m) /\ loop[w] # "polling" /\ Covered(j)
    BY DEF OverInv, FleetTypeOK, RegState, ClearInv, Protocol, RegsAreTimely,
       RegTimely, ComingIsLeased, Covered
  <1>2. placed[j] \in Device
    BY ComingIsPlaced
  <1>3. CASE ~m.proof
    BY <1>1, <1>3 DEF AnswerRegister, vars, Covered
  <1>4. CASE m.proof
    <2>1. AutoRecover(w)
      BY <1>4 DEF AnswerRegister
    <2>2. \A i \in JobsOf(w) : ~Occupies(i)
      BY <1>1, <1>4 DEF RegTimely, Idles, Busy, Occupies
    <2>3. j \notin JobsOf(w)
      BY <1>1, <2>2, IdleComesToNothing DEF ClearInv
    <2>4. WorkerOf[placed[j]] # w
      BY <1>2, <2>3, Constants DEF JobsOf, Mine
    <2>5. /\ dev'[placed[j]] = dev[placed[j]]
          /\ leased' = leased /\ placed' = placed
      BY <1>2, <2>1, <2>4 DEF AutoRecover, Recoverable, jobVars, leaseVars
    <2>6. QED
      BY <1>1, <2>5 DEF Covered
  <1>5. QED
    BY <1>3, <1>4

(* An operator vouches for a device that no job is coming to.                 *)
LEMMA VouchCovers ==
  ASSUME OverInv, ClearInv, NEW d \in Device, Vouch(d), NEW j \in Job, Coming(j)
  PROVE  Covered(j)'
  <1>1. Covered(j)
    BY DEF ClearInv, ComingIsLeased, Covered
  <1>2. placed[j] \in Device /\ \A w \in Worker : j \in poll[w].jobs => j \in JobsOf(w)
    BY ComingIsPlaced
  <1>3. placed[j] # d
    BY <1>2 DEF Vouch, Settled, Coming, Occupies, JobsOf, Mine
  <1>4. dev'[placed[j]] = dev[placed[j]] /\ UNCHANGED <<leased, placed>>
    BY <1>2, <1>3 DEF Vouch, ClearDevice, RetireDevice, jobVars, leaseVars, OverInv,
       StoreInv, TypeOK
  <1>5. QED
    BY <1>1, <1>4 DEF Covered

(* A report frees the device of a job that is not coming.                     *)
LEMMA ReportCovers ==
  ASSUME OverInv, ClearInv, NEW i \in Job, TakesReport(i),
         NEW j \in Job, Coming(j)
  PROVE  Covered(j)'
  <1>1. Covered(j) /\ placed[j] \in Device
    BY ComingIsPlaced DEF ClearInv, ComingIsLeased, Covered
  <1>2. stage[i] \in {"reporting", "failing", "prekilled"}
    BY DEF TakesReport, ReportTerminal, ReportUnanswered
  <1>3. j # i
    BY <1>2 DEF Coming, Occupies, OverInv, LiveIsRun, HandedOutNew
  <1>4. /\ leased'[j] = leased[j] /\ placed' = placed
        /\ dev[placed[j]] = "unhealthy" => dev'[placed[j]] = "unhealthy"
    BY <1>1, <1>3 DEF TakesReport, Release, OverInv, StoreInv, TypeOK
  <1>5. QED
    BY <1>1, <1>4 DEF Covered

(* A heartbeat revives no device of a job that lost its lease.                *)
LEMMA HandleBeatCovers ==
  ASSUME OverInv, ClearInv, NEW w \in Worker, HandleBeat(w),
         NEW j \in Job, Coming(j)
  PROVE  Covered(j)'
  <1>1. Covered(j) /\ placed[j] \in Device
    BY ComingIsPlaced DEF ClearInv, ComingIsLeased, Covered
  <1>2. RecordHeartbeat(w, beat[w].jobs)
    BY DEF HandleBeat
  <1>3. ~Vindicated(w, beat[w].jobs, placed[j])
    <2>1. SUFFICES ASSUME Vindicated(w, beat[w].jobs, placed[j]) PROVE FALSE
      OBVIOUS
    <2>2. PICK i \in InFlight(w) : placed[i] = placed[j]
      BY <2>1 DEF Vindicated, Named
    <2>3. i \in Job /\ leased[i] = placed[j]
      BY <2>2 DEF InFlight, OverInv, StoreInv, LeaseFollowsJob
    <2>4. QED
      BY <1>1, <2>1, <2>3 DEF Vindicated, ClearInv, WrittenOffIsReaped
  <1>4. /\ dev[placed[j]] = "unhealthy" => dev'[placed[j]] = "unhealthy"
        /\ leased' = leased /\ placed' = placed
    BY <1>1, <1>2, <1>3 DEF RecordHeartbeat, Heartened, jobVars
  <1>5. QED
    BY <1>1, <1>4 DEF Covered

(* The reaper quarantines the device of every lease it ends.                  *)
LEMMA SweepCovers ==
  ASSUME OverInv, ClearInv, Sweep, NEW j \in Job, Coming(j)
  PROVE  Covered(j)'
  <1>1. Covered(j) /\ placed[j] \in Device
    BY ComingIsPlaced DEF ClearInv, ComingIsLeased, Covered
  <1>2. placed' = placed /\ (dev[placed[j]] = "unhealthy" => dev'[placed[j]] = "unhealthy")
    BY <1>1 DEF Sweep, OutOfTouch
  <1>3. ASSUME j \in SweptJobs \cup StaleLeases PROVE dev'[placed[j]] = "unhealthy"
    <2>1. CASE j \in SweptJobs
      BY <1>1, <2>1 DEF SweptJobs, Sweep
    <2>2. CASE j \in StaleLeases
      <3>1. leased[j] = placed[j]
        BY <2>2 DEF StaleLeases, OverInv, StoreInv, LeaseFollowsJob
      <3>2. QED
        BY <1>1, <2>2, <3>1 DEF LapsedOn, Sweep
    <2>3. QED
      BY <1>3, <2>1, <2>2
  <1>4. j \notin SweptJobs \cup StaleLeases => leased'[j] = leased[j]
    BY DEF Sweep
  <1>5. QED
    BY <1>1, <1>2, <1>3, <1>4 DEF Covered

(* Nothing else revives a device or ends a lease.                             *)
LEMMA StillCovers ==
  ASSUME ~Retain, OverInv, ClearInv, NEW j \in Job, Coming(j), Still
  PROVE  Covered(j)'
  <1>1. Covered(j) /\ placed[j] \in Device /\ job[j] # "queued"
    BY ComingIsPlaced DEF ClearInv, ComingIsLeased, Covered
  <1>2. /\ placed'[j] = placed[j] /\ leased'[j] = leased[j]
        /\ dev[placed[j]] = "unhealthy" => dev'[placed[j]] = "unhealthy"
    BY <1>1 DEF Still, Enqueue, MarkRunning, RequestKill, AssignQueued, TakeKillRequests,
       SetDeviceState, ControllerRestart, Tick, vars, jobVars, leaseVars, devVars,
       OverInv, StoreInv, TypeOK
  <1>3. QED
    BY <1>1, <1>2 DEF Covered

(* So a job that is coming keeps its lease or its device is out of service.   *)
LEMMA ComingIsLeasedKept ==
  ASSUME Timely, OverInv, ClearInv, [FleetNext]_fleetVars
  PROVE  ComingIsLeased'
  <1>1. SUFFICES ASSUME NEW j \in Job, Coming(j)' PROVE Covered(j)'
    BY DEF ComingIsLeased, Covered
  <1>2. CASE UNCHANGED vars /\ job[j] = "assigned"
    BY <1>2 DEF Covered, vars, OverInv, StoreInv, LeaseFollowsJob, Active
  <1>3. CASE Coming(j)
    BY <1>3, StepKinds, HandleRegisterCovers, AnswerRegisterCovers, VouchCovers,
       ReportCovers, HandleBeatCovers, SweepCovers, StillCovers DEF Timely
  <1>4. QED
    BY <1>1, <1>2, <1>3, ComingStays

(* ClearInv is inductive on top of OverInv.                                   *)
LEMMA ClearIsInductive ==
  ASSUME Timely, OverInv, OverInv', ClearInv, [FleetNext]_fleetVars
  PROVE  ClearInv'
  <1>1. [Next]_vars
    BY FleetStepIsStoreStep, OfStore DEF OverInv, StoreInv
  <1>2. Protocol'
    <2>1. \A w \in Worker : StartWorker(w) \/ Reregister(w) => RegsOf(w) = {}
      BY RoomForOne DEF StartWorker, Reregister, Timely, ClearInv, Protocol
    <2>2. QED
      BY <2>1, ProtocolKept DEF ClearInv, Timely
  <1>3. LeasedExists' /\ WrittenOffIsReaped'
    BY <1>1, LeasedExistsKept, WrittenOffIsReapedKept DEF ClearInv, OverInv, Timely
  <1>4. ComingIsLeased' /\ OneClaim'
    BY ComingIsLeasedKept, OneClaimKept DEF ClearInv
  <1>5. QED
    BY <1>2, <1>3, <1>4 DEF ClearInv

(* Nothing is leased, placed or under way at first.                           *)
LEMMA ClearAtFirst == FleetInit => ClearInv
  <1> SUFFICES ASSUME FleetInit PROVE ClearInv
    OBVIOUS
  <1>1. Protocol
    BY DEF FleetInit, Init, Protocol, PollOfPolling, FreshIsBlank, NoLaggard,
       RegsAreTimely, OneReg, RebootIsClean, IsolatedDie, JobsOf, Waiting
  <1>2. LeasedExists /\ WrittenOffIsReaped /\ ComingIsLeased /\ OneClaim
    BY DEF FleetInit, Init, LeasedExists, WrittenOffIsReaped, ComingIsLeased,
       OneClaim, Claims, Coming, Occupies, Waiting
  <1>3. QED
    BY <1>1, <1>2 DEF ClearInv

(* Under Timely it holds of the fleet.                                        *)
THEOREM FleetClear ==
  ASSUME Timely PROVE FleetSpec => [](OverInv /\ ClearInv)
  <1>1. FleetInit => OverInv /\ ClearInv
    BY OverAtFirst, ClearAtFirst
  <1>2. OverInv /\ ClearInv /\ [FleetNext]_fleetVars => (OverInv /\ ClearInv)'
    BY OverIsInductive, ClearIsInductive
  <1>3. QED
    BY <1>1, <1>2, PTL DEF FleetSpec

(* What the system is for: no two jobs have a live process on one device,     *)
(* however workers crash, hosts reboot, exchanges are lost and leases expire, *)
(* for any number of workers, devices and jobs.                               *)
THEOREM NeverTwoOnADevice ==
  ASSUME Timely PROVE FleetSpec => []NoOverlap
  <1>1. OverInv /\ ClearInv => NoOverlap
    BY DEF OverInv, FleetTypeOK, ClearInv, OneClaim, Claims, Coming, Occupies,
       NoOverlap
  <1>2. QED
    BY <1>1, FleetClear, PTL

(* A device that the scheduler may hand out has no process and none on its    *)
(* way, whatever brought it back into the pool.                               *)
THEOREM PoolIsIdle ==
  ASSUME Timely PROVE FleetSpec => []ReadyDeviceIdle
  <1>1. OverInv /\ ClearInv => ReadyDeviceIdle
    <2>1. SUFFICES ASSUME OverInv, ClearInv, NEW d \in Device, dev[d] = "ready",
                          NEW j \in OccupiedBy(d)
                   PROVE  FALSE
      BY DEF ReadyDeviceIdle
    <2>2. j \in Job /\ placed[j] = d /\ Coming(j)
      BY DEF OccupiedBy, Coming
    <2>3. leased[j] = d
      BY <2>1, <2>2 DEF ClearInv, ComingIsLeased
    <2>4. QED
      BY <2>1, <2>2, <2>3 DEF OverInv, StoreInv, ReadyIsFree, LiveLeaseOn
  <1>2. QED
    BY <1>1, FleetClear, PTL
-----------------------------------------------------------------------------
(* Workers that end only with their host, in either mode.  The network is     *)
(* Orderly and no heartbeat overlaps the handing out of a job.  Kills, the    *)
(* restart of the controller, lost polls and reports, failing hooks and       *)
(* verify passes, lost fault reports and operators stay, and a reboot does,   *)
(* unless a registration of the process before it may be answered beside one  *)
(* of the process after it.  In retained mode all of this is needed.          *)
Steady ==
  /\ Faults \cap {"crash", "shutdown", "lateRegister", "slowSpawn", "slowBeat"} = {}
  /\ "reboot" \in Faults => MaxRegister = 1

(* The stages at which the worker still has to do with the device itself, and *)
(* the jobs that are there or on their way.                                   *)
Keeping == Busy \cup {"verifying", "faulting"}
Keeps(j) == stage[j] \in Keeping \/ \E w \in Worker : j \in poll[w].jobs

(* Who registers keeps no device, and waits for the answer unless its host    *)
(* went down since.                                                           *)
RegsIdle ==
  \A m \in regs :
    /\ \A j \in JobsOf(m.from) : stage[j] \notin Keeping
    /\ m.awaited \/ "reboot" \in Faults

(* A heartbeat on its way names all that its worker supervises now: nothing   *)
(* is handed out or started meanwhile.                                        *)
BeatKnows ==
  \A w \in Worker : beat[w].sent =>
    /\ poll[w].jobs = {}
    /\ \A j \in JobsOf(w) : /\ stage[j] # "spawned"
                            /\ stage[j] \in InRunning => j \in beat[w].jobs

(* Every process is under Run, and no worker is told to stop.                 *)
LiveRuns == \A j \in live : stage[j] = "running"
NoStop == \A w \in Worker : loop[w] # "draining"

(* What a steady worker's requests say is true when they are handled.         *)
Attentive == RegsIdle /\ BeatKnows /\ LiveRuns /\ NoStop

(* No worker goes away by itself.                                             *)
LEMMA NobodyLeaves ==
  ASSUME Steady, NoStop, NEW w \in Worker
  PROVE  ~Crash(w) /\ ~Shutdown(w) /\ ~Drained(w)
  BY DEF Steady, NoStop, Crash, Shutdown, Drained

(* What a step of a job does to the stages that count here.                   *)
LEMMA JobActKeeping ==
  ASSUME OverInv, NEW i \in Job, JobAct(i)
  PROVE  /\ stage'[i] \in Keeping => stage[i] \in Keeping
         /\ stage'[i] \in InRunning => stage[i] \in InRunning \cup {"spawned"}
         /\ UNCHANGED beat
  <1>1. stage \in [Job -> Stage]
    BY DEF OverInv, FleetTypeOK
  <1> USE DEF Goto, Local, Busy, Keeping, InRunning
  <1>2. CASE Execute(i) \/ HookCancelled(i) \/ VerifyPassed(i)
    BY <1>1, <1>2 DEF Execute, HookCancelled, VerifyPassed
  <1>3. CASE \/ StartProcess(i) \/ HookFailed(i) \/ ProcessEnds(i)
             \/ OrphanEnds(i) \/ VerifyFailed(i)
    BY <1>1, <1>3 DEF StartProcess, HookFailed, ProcessEnds, OrphanEnds,
       VerifyFailed
  <1>4. CASE ReportFault(i) \/ LoseFault(i)
    BY <1>1, <1>4 DEF ReportFault, LoseFault, AfterFault
  <1>5. CASE ReportTerminal(i) \/ LoseReport(i)
    BY <1>1, <1>5 DEF ReportTerminal, LoseReport, AfterReport
  <1>6. CASE ReportUnanswered(i) \/ KillJob(i)
    BY <1>1, <1>6 DEF ReportUnanswered, KillJob, workerSide
  <1>7. QED
    BY <1>2, <1>3, <1>4, <1>5, <1>6 DEF JobAct

(* A step that starts nothing and sends nothing keeps it.                     *)
LEMMA AttentiveFrame ==
  ASSUME OverInv, Attentive, UNCHANGED stage, live' \subseteq live,
         \A j \in Job : placed'[j] = placed[j] \/ ~Begun(j),
         \A w \in Worker : loop'[w] # "draining" \/ loop'[w] = loop[w],
         \A w \in Worker : \/ ~beat'[w].sent
                           \/ /\ beat'[w] = beat[w]
                              /\ poll'[w].jobs \subseteq poll[w].jobs,
         \A m \in regs' : \E n \in regs : n.from = m.from /\ n.awaited = m.awaited
  PROVE  Attentive'
  <1>1. \A w : \A j \in JobsOf(w)' : j \in JobsOf(w) \/ stage[j] = "none"
    BY DEF JobsOf, Mine, Begun
  <1>2. RegsIdle'
    <2>1. SUFFICES ASSUME NEW m \in regs'
                   PROVE  /\ \A j \in JobsOf(m.from)' : stage[j] \notin Keeping
                          /\ m.awaited \/ "reboot" \in Faults
      BY DEF RegsIdle
    <2>2. PICK n \in regs : n.from = m.from /\ n.awaited = m.awaited
      OBVIOUS
    <2>3. QED
      BY <1>1, <2>2 DEF Attentive, RegsIdle, Keeping, Busy
  <1>3. BeatKnows'
    <2>1. SUFFICES ASSUME NEW w \in Worker, beat'[w].sent
                   PROVE  /\ poll'[w].jobs = {}
                          /\ \A j \in JobsOf(w)' :
                               /\ stage[j] # "spawned"
                               /\ stage[j] \in InRunning => j \in beat'[w].jobs
      BY DEF BeatKnows
    <2>2. beat'[w] = beat[w] /\ poll'[w].jobs \subseteq poll[w].jobs
      BY <2>1
    <2>3. /\ poll[w].jobs = {}
          /\ \A j \in JobsOf(w) : /\ stage[j] # "spawned"
                                  /\ stage[j] \in InRunning => j \in beat[w].jobs
      BY <2>1, <2>2 DEF Attentive, BeatKnows
    <2>4. QED
      BY <1>1, <2>2, <2>3 DEF InRunning
  <1>4. LiveRuns' /\ NoStop'
    BY DEF Attentive, LiveRuns, NoStop
  <1>5. QED
    BY <1>2, <1>3, <1>4 DEF Attentive

(* A worker registers with nothing in hand.                                   *)
LEMMA SendRegisterAttentive ==
  ASSUME OverInv, Protocol, Attentive, NEW w \in Worker,
         StartWorker(w) \/ Reregister(w)
  PROVE  Attentive'
  <1>1. /\ UNCHANGED <<stage, live, poll, beat, placed>>
        /\ \A v \in Worker : loop'[v] # "draining" \/ loop'[v] = loop[v]
    BY DEF StartWorker, Reregister, SendRegister, OverInv, FleetTypeOK, vars
  <1>2. \A v : JobsOf(v)' = JobsOf(v)
    BY <1>1 DEF JobsOf, Mine
  <1>3. PICK r : regs' = regs \cup {r} /\ r.from = w /\ r.awaited
    <2>1. PICK p \in Proof(w) :
            regs' = regs \cup {[from |-> w, boot |-> hostBoot[w], proof |-> p,
                                at |-> "sent", awaited |-> TRUE]}
      BY DEF StartWorker, Reregister, SendRegister
    <2>2. WITNESS [from |-> w, boot |-> hostBoot[w], proof |-> p,
                   at |-> "sent", awaited |-> TRUE]
    <2>3. QED
      BY <2>1
  <1>4. \A j \in JobsOf(w) : stage[j] \notin Keeping
    <2>1. CASE StartWorker(w)
      BY <2>1 DEF StartWorker, Protocol, FreshIsBlank, Keeping, Busy
    <2>2. CASE Reregister(w)
      BY <2>2 DEF Reregister, Supervised, InRunning, Protocol, NoLaggard,
         Keeping, Busy
    <2>3. QED
      BY <2>1, <2>2
  <1>5. RegsIdle'
    BY <1>1, <1>2, <1>3, <1>4 DEF Attentive, RegsIdle
  <1>6. BeatKnows' /\ LiveRuns' /\ NoStop'
    BY <1>1, <1>2 DEF Attentive, BeatKnows, LiveRuns, NoStop
  <1>7. QED
    BY <1>5, <1>6 DEF Attentive

(* A heartbeat is sent while nothing is on its way to the worker.             *)
LEMMA SendBeatAttentive ==
  ASSUME Steady, OverInv, Attentive, NEW w \in Worker, SendBeat(w)
  PROVE  Attentive'
  <1>1. /\ UNCHANGED <<stage, live, poll, loop, regs, placed>>
        /\ \A v \in Worker \ {w} : beat'[v] = beat[v]
        /\ beat'[w].jobs = Supervised(w)
        /\ poll[w].jobs = {} /\ \A j \in JobsOf(w) : stage[j] # "spawned"
    BY DEF SendBeat, Steady, OverInv, FleetTypeOK, vars
  <1>2. \A v : JobsOf(v)' = JobsOf(v)
    BY <1>1 DEF JobsOf, Mine
  <1>3. BeatKnows'
    BY <1>1, <1>2 DEF Attentive, BeatKnows, Supervised
  <1>4. RegsIdle' /\ LiveRuns' /\ NoStop'
    BY <1>1, <1>2 DEF Attentive, RegsIdle, LiveRuns, NoStop
  <1>5. QED
    BY <1>3, <1>4 DEF Attentive

(* Nothing is started over a heartbeat or a registration on its way.          *)
LEMMA ReceivePollAttentive ==
  ASSUME OverInv, Protocol, Attentive, NEW w \in Worker, ReceivePoll(w)
  PROVE  Attentive'
  <1> DEFINE P == poll[w].jobs
  <1>1. /\ UNCHANGED <<live, beat, regs, placed>>
        /\ \A v \in Worker : loop'[v] # "draining" \/ loop'[v] = loop[v]
        /\ \A v \in Worker : poll'[v].jobs \subseteq poll[v].jobs
        /\ loop[w] = "polling"
    BY DEF ReceivePoll, vars, OverInv, FleetTypeOK, Waiting
  <1>2. \A j \in Job : stage'[j] = stage[j] \/ j \in P
    <2>1. stage' = [j \in Job |->
            IF j \notin {i \in P : stage[i] = "none"} THEN stage[j]
            ELSE IF j \in poll[w].kills THEN "prekilled" ELSE "spawned"]
      BY DEF ReceivePoll
    <2>2. QED
      BY <2>1
  <1>3. \A j \in P : j \in JobsOf(w) /\ j \notin live
    BY DEF OverInv, HandedOutNew, FleetTypeOK, PollState, JobsOf
  <1>4. /\ \A v : JobsOf(v)' = JobsOf(v) /\ JobsOf(v) \subseteq Job
        /\ \A v : v # w => \A j \in JobsOf(v) : stage'[j] = stage[j]
    BY <1>1, <1>2, <1>3 DEF JobsOf, Mine
  <1>5. RegsIdle'
    <2>1. \A m \in regs : m.from # w
      BY <1>1, NoRegOfPolling DEF Protocol
    <2>2. QED
      BY <1>1, <1>4, <2>1 DEF Attentive, RegsIdle
  <1>6. BeatKnows'
    <2>1. SUFFICES ASSUME NEW v \in Worker, beat[v].sent
                   PROVE  /\ poll'[v].jobs = {}
                          /\ \A j \in JobsOf(v) :
                               /\ stage'[j] # "spawned"
                               /\ stage'[j] \in InRunning => j \in beat[v].jobs
      BY <1>1, <1>4 DEF BeatKnows
    <2>2. /\ poll[v].jobs = {}
          /\ \A j \in JobsOf(v) : /\ stage[j] # "spawned"
                                  /\ stage[j] \in InRunning => j \in beat[v].jobs
      BY <2>1 DEF Attentive, BeatKnows
    <2>3. \A j \in JobsOf(v) : stage'[j] = stage[j]
      BY <1>2, <1>4, <2>2
    <2>4. QED
      BY <1>1, <2>2, <2>3
  <1>7. LiveRuns' /\ NoStop'
    BY <1>1, <1>2, <1>3 DEF Attentive, LiveRuns, NoStop, OverInv, FleetTypeOK
  <1>8. QED
    BY <1>5, <1>6, <1>7 DEF Attentive

(* A job goes on only where a heartbeat on its way names it.                  *)
LEMMA JobActAttentive ==
  ASSUME OverInv, Attentive, NEW i \in Job, JobAct(i)
  PROVE  Attentive'
  <1>1. /\ UNCHANGED <<loop, poll, regs, placed>>
        /\ \A j \in Job : stage'[j] = stage[j] \/ j = i
        /\ stage'[i] # "spawned" \/ stage'[i] = stage[i]
        /\ live' \subseteq live \cup {i}
        /\ i \in live' => \/ i \in live /\ stage'[i] = stage[i]
                          \/ stage[i] = "acquiring" /\ stage'[i] = "running"
    BY JobActStages
  <1>2. /\ stage'[i] \in Keeping => stage[i] \in Keeping
        /\ stage'[i] \in InRunning => stage[i] \in InRunning \cup {"spawned"}
        /\ UNCHANGED beat
    BY JobActKeeping
  <1>3. \A v : JobsOf(v)' = JobsOf(v) /\ JobsOf(v) \subseteq Job
    BY <1>1 DEF JobsOf, Mine
  <1>4. RegsIdle'
    BY <1>1, <1>2, <1>3 DEF Attentive, RegsIdle
  <1>5. BeatKnows'
    BY <1>1, <1>2, <1>3 DEF Attentive, BeatKnows
  <1>6. LiveRuns' /\ NoStop'
    BY <1>1 DEF Attentive, LiveRuns, NoStop, OverInv, FleetTypeOK
  <1>7. QED
    BY <1>4, <1>5, <1>6 DEF Attentive

(* A reboot leaves nothing that a request of before could be wrong about.     *)
LEMMA RebootAttentive ==
  ASSUME OverInv, Attentive, NEW w \in Worker, Reboot(w)
  PROVE  Attentive'
  <1>1. /\ loop' = [loop EXCEPT ![w] = "down"]
        /\ stage' = [j \in Job |-> IF j \in JobsOf(w) THEN "none" ELSE stage[j]]
        /\ live' = live \ JobsOf(w)
        /\ poll' = [poll EXCEPT ![w] = Waiting]
        /\ regs' = {m \in regs : m.from # w} \cup
                     {[m EXCEPT !.awaited = FALSE] : m \in
                        {n \in RegsOf(w) : n.at = "upserted" \/ "lateRegister" \in Faults}}
        /\ UNCHANGED <<beat, placed>> /\ "reboot" \in Faults
    BY DEF Reboot, Forget, HangUp, vars
  <1>2. /\ \A v : JobsOf(v)' = JobsOf(v) /\ JobsOf(v) \subseteq Job
        /\ \A v : \A j \in JobsOf(v) :
             stage'[j] = IF v = w THEN "none" ELSE stage[j]
    BY <1>1 DEF JobsOf, Mine
  <1>3. RegsIdle'
    <2>1. ASSUME NEW m \in regs'
          PROVE  m.from = w \/ (m \in regs /\ m.from # w)
      <3>1. CASE m \in {n \in regs : n.from # w}
        BY <3>1
      <3>2. CASE m \notin {n \in regs : n.from # w}
        <4>1. PICK n \in RegsOf(w) : m = [n EXCEPT !.awaited = FALSE]
          BY <1>1, <2>1, <3>2
        <4>2. n \in RegState /\ n.from = w
          BY DEF RegsOf, OverInv, FleetTypeOK
        <4>3. QED
          BY <4>1, <4>2 DEF RegState
      <3>3. QED
        BY <3>1, <3>2
    <2>2. QED
      BY <1>1, <1>2, <2>1 DEF Attentive, RegsIdle, Keeping, Busy
  <1>4. BeatKnows'
    <2>1. \A v \in Worker : poll'[v].jobs \subseteq poll[v].jobs
      BY <1>1 DEF OverInv, FleetTypeOK, Waiting
    <2>2. QED
      BY <1>1, <1>2, <2>1 DEF Attentive, BeatKnows, InRunning
  <1>5. LiveRuns'
    BY <1>1 DEF Attentive, LiveRuns, OverInv, FleetTypeOK
  <1>6. NoStop'
    BY <1>1 DEF Attentive, NoStop, OverInv, FleetTypeOK
  <1>7. QED
    BY <1>3, <1>4, <1>5, <1>6 DEF Attentive

(* Every step keeps it.                                                       *)
LEMMA AttentiveKept ==
  ASSUME Steady, OverInv, Protocol, Attentive, [FleetNext]_fleetVars
  PROVE  Attentive'
  <1>0. /\ loop \in [Worker -> Loop] /\ beat \in [Worker -> BeatState]
        /\ poll \in [Worker -> PollState] /\ regs \subseteq RegState
    BY DEF OverInv, FleetTypeOK
  <1>1. ASSUME NEW w \in Worker, WorkerAct(w) PROVE Attentive'
    <2>1. CASE HandleBeat(w) \/ LoseBeat(w)
      <3>1. /\ UNCHANGED <<loop, stage, live, poll, regs, placed>>
            /\ \A v \in Worker : ~beat'[v].sent \/ beat'[v] = beat[v]
        BY <1>0, <2>1 DEF HandleBeat, LoseBeat, RecordHeartbeat, vars, jobVars,
           NoBeat
      <3>2. QED
        BY <3>1, AttentiveFrame
    <2>2. CASE \E j \in Job : MarkHandedOut(w, j)
      <3>1. UNCHANGED <<loop, stage, live, poll, beat, regs, placed>>
        BY <2>2 DEF MarkHandedOut, MarkRunning, workerSide
      <3>2. QED
        BY <3>1, AttentiveFrame
    <2>3. CASE ReadAssignments(w)
      <3>1. /\ UNCHANGED <<loop, stage, live, beat, regs, placed>>
            /\ ~beat[w].sent
            /\ \A v \in Worker \ {w} : poll'[v] = poll[v]
        BY <1>0, <2>3 DEF ReadAssignments, SetPoll, Steady, vars
      <3>2. QED
        BY <3>1, AttentiveFrame
    <2>4. CASE /\ TakeKills(w) \/ LosePoll(w) \/ IdlePoll(w) \/ PollAgain(w)
               /\ ~ReadAssignments(w) /\ ~ReceivePoll(w)
      <3>1. /\ UNCHANGED <<stage, live, beat, regs, placed>>
            /\ \A v \in Worker : loop'[v] # "draining" \/ loop'[v] = loop[v]
        BY <1>0, <2>4 DEF TakeKills, TakeKillRequests, LosePoll, IdlePoll,
           PollAgain, SetPoll, vars, jobVars
      <3>2. Eases
        BY <1>1, <2>4, WorkerActEases
      <3>3. QED
        BY <3>1, <3>2, AttentiveFrame DEF Eases
    <2>5. QED
      BY <1>1, <2>1, <2>2, <2>3, <2>4, SendRegisterAttentive, SendBeatAttentive,
         ReceivePollAttentive, RebootAttentive, NobodyLeaves DEF WorkerAct, Attentive
  <1>2. ASSUME NEW m \in regs,
               HandleRegister(m) \/ AnswerRegister(m) \/ GiveUpRegister(m)
        PROVE  Attentive'
    <2>1. /\ UNCHANGED <<stage, live, poll, beat, placed>>
          /\ \A v \in Worker : loop'[v] # "draining" \/ loop'[v] = loop[v]
      BY <1>0, <1>2 DEF HandleRegister, UpsertWorker, AnswerRegister, AutoRecover,
         GiveUpRegister, vars, jobVars
    <2>2. \A n \in regs' : \E k \in regs : k.from = n.from /\ k.awaited = n.awaited
      <3>1. CASE HandleRegister(m)
        <4>1. regs' = (regs \ {m}) \cup {[m EXCEPT !.at = "upserted"]}
          BY <3>1 DEF HandleRegister
        <4>2. /\ [m EXCEPT !.at = "upserted"].from = m.from
              /\ [m EXCEPT !.at = "upserted"].awaited = m.awaited
          BY <1>0 DEF RegState
        <4>3. QED
          BY <4>1, <4>2
      <3>2. CASE AnswerRegister(m)
        BY <3>2 DEF AnswerRegister
      <3>3. QED
        BY <1>2, <3>1, <3>2 DEF GiveUpRegister, Steady
    <2>3. QED
      BY <2>1, <2>2, AttentiveFrame
  <1>3. CASE \/ \E d \in Device : Vouch(d)
             \/ Reaper \/ Clock \/ UNCHANGED fleetVars
    <2>1. UNCHANGED <<loop, stage, live, poll, beat, regs, placed>>
      BY <1>3 DEF Vouch, ClearDevice, RetireDevice, Reaper, Sweep, Clock, Tick,
         workerSide, fleetVars, vars, jobVars
    <2>2. QED
      BY <2>1, AttentiveFrame
  <1>4. CASE Scheduler
    <2>1. UNCHANGED <<loop, stage, live, poll, beat, regs>>
      BY <1>4 DEF Scheduler, workerSide
    <2>2. \A j \in Job : placed'[j] = placed[j] \/ job[j] = "queued"
      BY <1>4 DEF Scheduler, Enqueue, AssignQueued, OverInv, StoreInv, TypeOK
    <2>3. \A j \in Job : job[j] = "queued" => ~Begun(j)
      BY DEF OverInv, BegunIsMarked, Begun
    <2>4. QED
      BY <2>1, <2>2, <2>3, AttentiveFrame
  <1>5. CASE RestartController
    <2>1. /\ UNCHANGED <<stage, live, beat, placed>> /\ regs' = {}
          /\ \A v \in Worker : loop'[v] # "draining" \/ loop'[v] = loop[v]
          /\ \A v \in Worker : poll'[v].jobs \subseteq poll[v].jobs
      BY <1>5 DEF RestartController, ControllerRestart, jobVars, Waiting
    <2>2. QED
      BY <2>1, AttentiveFrame
  <1>6. QED
    BY <1>1, <1>2, <1>3, <1>4, <1>5, JobActAttentive DEF FleetNext
-----------------------------------------------------------------------------
(* A job whose device its worker has to do with has one, of that worker.      *)
LEMMA KeptIsPlaced ==
  ASSUME OverInv, NEW j \in Job, Keeps(j)
  PROVE  /\ placed[j] \in Device /\ job[j] \notin {"absent", "queued"}
         /\ \A w \in Worker : j \in poll[w].jobs => j \in JobsOf(w)
  <1>1. placed[j] # None /\ job[j] \notin {"absent", "queued"}
    BY DEF OverInv, Keeps, Keeping, Busy, BegunIsMarked, HandedOutNew, Mine
  <1>2. QED
    BY <1>1 DEF OverInv, StoreInv, TypeOK, HandedOutNew, JobsOf

(* Only a poll that reads assigned jobs adds to them.                         *)
LEMMA KeepsStays ==
  ASSUME OverInv, [FleetNext]_fleetVars, NEW j \in Job, Keeps(j)'
  PROVE  \/ Keeps(j)
         \/ /\ UNCHANGED vars
            /\ job[j] = "assigned"
  <1>1. CASE \E w \in Worker : ReadAssignments(w)
    <2>1. PICK w \in Worker : ReadAssignments(w)
      BY <1>1
    <2>2. /\ UNCHANGED stage /\ UNCHANGED vars
          /\ \A v \in Worker \ {w} : poll'[v] = poll[v]
          /\ poll'[w].jobs = {i \in JobsOf(w) : job[i] = "assigned"}
      BY <2>1 DEF ReadAssignments, SetPoll, OverInv, FleetTypeOK
    <2>3. QED
      BY <2>2 DEF Keeps
  <1>2. CASE \E w \in Worker : ReceivePoll(w)
    <2>1. PICK w \in Worker : ReceivePoll(w)
      BY <1>2
    <2>2. /\ stage' = [i \in Job |->
               IF i \notin {k \in poll[w].jobs : stage[k] = "none"} THEN stage[i]
               ELSE IF i \in poll[w].kills THEN "prekilled" ELSE "spawned"]
          /\ poll' = [poll EXCEPT ![w] = Waiting]
      BY <2>1 DEF ReceivePoll
    <2>3. /\ stage'[j] = stage[j] \/ j \in poll[w].jobs
          /\ \A v \in Worker : poll'[v].jobs \subseteq poll[v].jobs
      BY <2>2 DEF OverInv, FleetTypeOK, Waiting
    <2>4. QED
      BY <2>2, <2>3 DEF Keeps
  <1>3. CASE ~\E w \in Worker : ReadAssignments(w) \/ ReceivePoll(w)
    <2>1. Eases
      BY <1>3, WorkerActEases, JobActEases, RestEases DEF FleetNext
    <2>2. stage'[j] \in Keeping => stage[j] \in Keeping
      <3>1. ASSUME NEW i \in Job, JobAct(i)
            PROVE  stage'[j] \in Keeping => stage[j] \in Keeping
        BY <3>1, JobActKeeping, JobActStages
      <3>2. ASSUME NEW w \in Worker, WorkerAct(w)
            PROVE  stage'[j] = stage[j] \/ stage'[j] = "none"
        BY <1>3, <3>2 DEF WorkerAct, StartWorker, Reregister, SendRegister,
           SendBeat, HandleBeat, LoseBeat, TakeKills, LosePoll, SetPoll, IdlePoll,
           PollAgain, MarkHandedOut, workerSide, Crash, Reboot, Shutdown, Drained,
           Exit, Forget
      <3>3. ASSUME \/ \E m \in regs : \/ HandleRegister(m) \/ AnswerRegister(m)
                                       \/ GiveUpRegister(m)
                   \/ \E d \in Device : Vouch(d)
                   \/ RestartController \/ Scheduler \/ Reaper \/ Clock
                   \/ UNCHANGED fleetVars
            PROVE  stage' = stage
        BY <3>3 DEF HandleRegister, AnswerRegister, GiveUpRegister, Vouch,
           RestartController, Scheduler, Reaper, Clock, workerSide, fleetVars
      <3>4. QED
        BY <3>1, <3>2, <3>3 DEF FleetNext, Keeping, Busy
    <2>3. QED
      BY <2>1, <2>2 DEF Eases, Keeps
  <1>4. QED
    BY <1>1, <1>2, <1>3

(* Who registers has no job there or on its way.                              *)
LEMMA RegKeepsNothing ==
  ASSUME OverInv, Protocol, Attentive, NEW m \in regs, NEW j \in Job, Keeps(j)
  PROVE  WorkerOf[placed[j]] # m.from
  <1>1. SUFFICES ASSUME WorkerOf[placed[j]] = m.from PROVE FALSE
    OBVIOUS
  <1>2. placed[j] \in Device
    BY KeptIsPlaced
  <1>3. j \in JobsOf(m.from)
    BY <1>1, <1>2, Constants DEF JobsOf, Mine
  <1>4. stage[j] \notin Keeping
    BY <1>3 DEF Attentive, RegsIdle
  <1>5. PICK w \in Worker : j \in poll[w].jobs
    BY <1>4 DEF Keeps
  <1>6. w = m.from
    BY <1>1, <1>5, KeptIsPlaced DEF JobsOf, Mine
  <1>7. loop[w] # "polling"
    BY <1>6, NoRegOfPolling DEF Protocol
  <1>8. poll[w].jobs = {}
    BY <1>7 DEF Protocol, PollOfPolling, Waiting
  <1>9. QED
    BY <1>5, <1>8

(* The device of such a job is out of the pool; and if the store has the job  *)
(* down as ended, the device is quarantined or the kill is remembered.        *)
Safe(j) ==
  /\ dev[placed[j]] \notin {"ready", "absent"}
  /\ \/ job[j] \in Active
     \/ dev[placed[j]] = "unhealthy"
     \/ job[j] = "killed" /\ j \in killReq
KeptIsSafe == \A j \in Job : Keeps(j) => Safe(j)

(* And no other job has to do with it, nor a lease on it.                     *)
Engaged(j) == Keeps(j) \/ leased[j] # None
OneEngaged ==
  \A i, j \in Job : Engaged(i) /\ Engaged(j) /\ placed[i] = placed[j] => i = j

(* The parts that are inductive together, on top of OverInv.                  *)
SteadyInv ==
  /\ Protocol /\ Attentive
  /\ LeasedExists /\ KeptIsSafe /\ OneEngaged

(* A job in flight is the only one its device has to do with.                 *)
LEMMA InFlightAlone ==
  ASSUME OverInv, OneEngaged, NEW i \in Job, job[i] \in Active,
         NEW j \in Job, Keeps(j), placed[i] = placed[j]
  PROVE  i = j
  BY DEF OverInv, StoreInv, LeaseFollowsJob, OneEngaged, Engaged

(* A registration changes devices of its own worker only.                     *)
LEMMA HandleRegisterSafe ==
  ASSUME OverInv, SteadyInv, NEW m \in regs, HandleRegister(m),
         NEW j \in Job, Keeps(j)
  PROVE  Safe(j)'
  <1> DEFINE w == m.from
             b == m.boot
             d == placed[j]
             D == DevicesOf(w)
  <1>1. Safe(j) /\ WorkerOf[d] # w /\ d \in Device
    BY KeptIsPlaced, RegKeepsNothing DEF SteadyInv, KeptIsSafe
  <1>2. j \notin InFlight(w) /\ ~\E i \in InFlight(w) : placed[i] = d
    BY <1>1 DEF InFlight, Mine
  <1>3. /\ dev'[d] = Registered(w, b, D, d).state
        /\ job'[j] = job[j] /\ placed' = placed /\ killReq' = killReq
    BY <1>1, <1>2 DEF HandleRegister, UpsertWorker, killVars
  <1>4. Reaped(w, b, d) = Row(d)
    BY <1>2 DEF Reaped
  <1>5. Restored(w, b, d) = Row(d)
    BY <1>1, <1>4 DEF Restored
  <1>6. Registered(w, b, D, d) = Row(d)
    BY <1>1, <1>5 DEF Registered, DevicesOf
  <1>7. dev'[d] = dev[d]
    BY <1>3, <1>6 DEF Row
  <1>8. QED
    BY <1>1, <1>3, <1>7 DEF Safe

(* So does a recovery.                                                        *)
LEMMA AnswerRegisterSafe ==
  ASSUME OverInv, SteadyInv, NEW m \in regs, AnswerRegister(m),
         NEW j \in Job, Keeps(j)
  PROVE  Safe(j)'
  <1>1. Safe(j) /\ WorkerOf[placed[j]] # m.from /\ placed[j] \in Device
    BY KeptIsPlaced, RegKeepsNothing DEF SteadyInv, KeptIsSafe
  <1>2. dev'[placed[j]] = dev[placed[j]] /\ UNCHANGED <<job, placed, killReq>>
    BY <1>1 DEF AnswerRegister, AutoRecover, Recoverable, vars, jobVars, killVars
  <1>3. QED
    BY <1>1, <1>2 DEF Safe

(* An operator waits until the worker is done with the device.                *)
LEMMA VouchSafe ==
  ASSUME OverInv, SteadyInv, NEW d \in Device, Vouch(d), NEW j \in Job, Keeps(j)
  PROVE  Safe(j)'
  <1>1. /\ Safe(j) /\ placed[j] \in Device
        /\ \A w \in Worker : j \in poll[w].jobs => j \in JobsOf(w)
    BY KeptIsPlaced DEF SteadyInv, KeptIsSafe
  <1>2. placed[j] # d
    BY <1>1 DEF Vouch, Settled, Keeps, Keeping, Busy, JobsOf, Mine
  <1>3. dev'[placed[j]] = dev[placed[j]] /\ UNCHANGED <<job, placed, killReq>>
    BY <1>1, <1>2 DEF Vouch, ClearDevice, RetireDevice, jobVars, killVars, OverInv,
       StoreInv, TypeOK
  <1>4. QED
    BY <1>1, <1>3 DEF Safe

(* A report frees the device of the job that made it.                         *)
LEMMA ReportSafe ==
  ASSUME OverInv, SteadyInv, NEW i \in Job, TakesReport(i),
         NEW j \in Job, Keeps(j)
  PROVE  Safe(j)'
  <1>1. Safe(j) /\ placed[j] \in Device
    BY KeptIsPlaced DEF SteadyInv, KeptIsSafe
  <1>2. stage[i] \in {"reporting", "failing", "prekilled"} /\ job[i] \in Active
    BY DEF TakesReport, ReportTerminal, ReportUnanswered, Release
  <1>3. j # i
    BY <1>2 DEF Keeps, Keeping, Busy, OverInv, HandedOutNew
  <1>4. placed[i] # placed[j]
    BY <1>2, <1>3, InFlightAlone DEF SteadyInv
  <1>5. /\ dev'[placed[j]] = dev[placed[j]] /\ job'[j] = job[j]
        /\ UNCHANGED <<placed, killReq>>
    BY <1>1, <1>3, <1>4 DEF TakesReport, Release, OverInv, StoreInv, TypeOK,
       killVars
  <1>6. QED
    BY <1>1, <1>5 DEF Safe

(* A heartbeat brings no device back that its worker is not done with: the    *)
(* job has the lease, or the heartbeat names it and its kill is remembered.   *)
LEMMA HandleBeatSafe ==
  ASSUME OverInv, SteadyInv, NEW w \in Worker, HandleBeat(w),
         NEW j \in Job, Keeps(j)
  PROVE  Safe(j)'
  <1> DEFINE R == beat[w].jobs
             d == placed[j]
  <1>1. Safe(j) /\ d \in Device
    BY KeptIsPlaced DEF SteadyInv, KeptIsSafe
  <1>2. RecordHeartbeat(w, R) /\ beat[w].sent
    BY DEF HandleBeat
  <1>3. /\ dev'[d] = Heartened(w, R, d) /\ UNCHANGED <<job, placed>>
        /\ killReq' = killReq \ Acknowledged(w, R)
    BY <1>1, <1>2 DEF RecordHeartbeat, jobVars
  <1>4. j \notin Acknowledged(w, R)
    <2>1. SUFFICES ASSUME j \in JobsOf(w) PROVE j \in R
      BY DEF Acknowledged, JobsOf
    <2>2. /\ poll[w].jobs = {} /\ stage[j] # "spawned"
          /\ stage[j] \in InRunning => j \in R
      BY <1>2, <2>1 DEF SteadyInv, Attentive, BeatKnows
    <2>3. \A v \in Worker : j \in poll[v].jobs => v = w
      BY <2>1, KeptIsPlaced DEF JobsOf, Mine
    <2>4. stage[j] \in Keeping
      BY <2>2, <2>3 DEF Keeps
    <2>5. QED
      BY <2>2, <2>4 DEF Keeping, Busy, InRunning
  <1>5. CASE job[j] \in Active
    <2>1. leased[j] = d
      BY <1>5 DEF OverInv, StoreInv, LeaseFollowsJob
    <2>2. Heartened(w, R, d) \notin {"ready", "absent"}
      BY <1>1, <2>1 DEF Heartened, LiveLeaseOn, Safe
    <2>3. QED
      BY <1>3, <1>5, <2>2 DEF Safe
  <1>6. CASE job[j] \notin Active
    <2>1. ~Vindicated(w, R, d)
      BY <1>6, InFlightAlone DEF Vindicated, Named, InFlight, SteadyInv
    <2>2. CASE dev[d] = "unhealthy"
      BY <1>3, <2>1, <2>2 DEF Heartened, Safe
    <2>3. CASE dev[d] # "unhealthy"
      <3>1. job[j] = "killed" /\ j \in killReq \ Acknowledged(w, R)
        BY <1>1, <1>4, <1>6, <2>3 DEF Safe
      <3>2. WorkerOf[d] = w => StillDying(w, R, d)
        BY <1>1, <3>1, Constants DEF StillDying, Mine
      <3>3. Heartened(w, R, d) \notin {"ready", "absent"}
        BY <1>1, <3>2 DEF Heartened, Safe
      <3>4. QED
        BY <1>3, <3>1, <3>3 DEF Safe
    <2>4. QED
      BY <2>2, <2>3
  <1>7. QED
    BY <1>5, <1>6

(* The reaper brings nothing back, and quarantines where it ends a job.       *)
LEMMA SweepSafe ==
  ASSUME OverInv, SteadyInv, Sweep, NEW j \in Job, Keeps(j)
  PROVE  Safe(j)'
  <1> DEFINE d == placed[j]
  <1>1. Safe(j) /\ d \in Device
    BY KeptIsPlaced DEF SteadyInv, KeptIsSafe
  <1>2. /\ dev'[d] = IF WrittenOff(d) \/ LapsedOn(d) THEN "unhealthy"
                     ELSE IF OutOfTouch(d) THEN "unknown" ELSE dev[d]
        /\ job'[j] = IF j \in SweptJobs \/ (j \in StaleLeases /\ job[j] \in Active)
                     THEN "lost" ELSE job[j]
        /\ UNCHANGED <<placed, killReq>>
    BY <1>1 DEF Sweep, killVars
  <1>3. CASE j \in SweptJobs \cup StaleLeases
    <2>1. WrittenOff(d) \/ LapsedOn(d)
      BY <1>3 DEF SweptJobs, LapsedOn, StaleLeases, OverInv, StoreInv,
         LeaseFollowsJob
    <2>2. QED
      BY <1>2, <2>1 DEF Safe
  <1>4. CASE j \notin SweptJobs \cup StaleLeases
    BY <1>1, <1>2, <1>4 DEF Safe, OutOfTouch
  <1>5. QED
    BY <1>3, <1>4

(* Nothing else brings a device back; a kill that ends a job is remembered.   *)
LEMMA StillSafe ==
  ASSUME OverInv, SteadyInv, NEW j \in Job, Keeps(j), Still
  PROVE  Safe(j)'
  <1>1. /\ Safe(j) /\ placed[j] \in Device /\ job[j] # "queued"
        /\ job[j] # "absent"
    BY KeptIsPlaced DEF SteadyInv, KeptIsSafe
  <1>2. CASE \E i \in Job : RequestKill(i)
    BY <1>1, <1>2 DEF RequestKill, devVars, Safe, OverInv, StoreInv, TypeOK
  <1>3. CASE ~\E i \in Job : RequestKill(i)
    <2>1. /\ placed'[j] = placed[j] /\ killReq' = killReq
          /\ job'[j] = job[j] \/ job'[j] \in Active
          /\ \/ dev'[placed[j]] = dev[placed[j]]
             \/ dev'[placed[j]] \in {"busy", "unhealthy"}
          /\ dev[placed[j]] = "unhealthy" => dev'[placed[j]] = "unhealthy"
      BY <1>1, <1>3 DEF Still, Enqueue, MarkRunning, AssignQueued,
         TakeKillRequests, SetDeviceState, ControllerRestart, Tick, vars, jobVars, devVars, killVars,
         Active, OverInv, StoreInv, TypeOK
    <2>2. QED
      BY <1>1, <2>1 DEF Safe
  <1>4. QED
    BY <1>2, <1>3

(* So the device of a job that its worker has to do with stays out of the     *)
(* pool.                                                                      *)
LEMMA KeptIsSafeKept ==
  ASSUME OverInv, SteadyInv, [FleetNext]_fleetVars
  PROVE  KeptIsSafe'
  <1>1. SUFFICES ASSUME NEW j \in Job, Keeps(j)' PROVE Safe(j)'
    BY DEF KeptIsSafe
  <1>2. CASE UNCHANGED vars /\ job[j] = "assigned"
    <2>1. job[j] \in Active /\ leased[j] = placed[j] /\ leased[j] # None
      BY <1>2 DEF Active, OverInv, StoreInv, LeaseFollowsJob
    <2>2. placed[j] \in Device
      BY <2>1 DEF OverInv, StoreInv, TypeOK
    <2>3. dev[placed[j]] \notin {"ready", "absent"}
      BY <2>1, <2>2 DEF OverInv, StoreInv, ReadyIsFree, LiveLeaseOn, SteadyInv,
         LeasedExists
    <2>4. QED
      BY <1>2, <2>1, <2>3 DEF vars, Safe
  <1>3. CASE Keeps(j)
    BY <1>3, StepKinds, HandleRegisterSafe, AnswerRegisterSafe, VouchSafe,
       ReportSafe, HandleBeatSafe, SweepSafe, StillSafe
  <1>4. QED
    BY <1>1, <1>2, <1>3, KeepsStays

(* A device is engaged anew only by an assignment, and only a free one is.    *)
LEMMA OneEngagedKept ==
  ASSUME OverInv, KeptIsSafe, OneEngaged, [FleetNext]_fleetVars
  PROVE  OneEngaged'
  <1>1. [Next]_vars
    BY FleetStepIsStoreStep, OfStore DEF OverInv, StoreInv
  <1>2. \A j \in Job : leased[j] # None =>
          leased[j] = placed[j] /\ placed[j] # None
    BY DEF OverInv, StoreInv, LeaseFollowsJob
  <1>3. ASSUME NEW j \in Job, Keeps(j)' PROVE Engaged(j)
    BY <1>3, KeepsStays DEF Engaged, OverInv, StoreInv, LeaseFollowsJob, Active
  <1>4. CASE ~\E j \in Job, d \in Device, ttl \in LeaseTTL : AssignQueued(j, d, ttl)
    <2>1. UNCHANGED placed
      BY <1>1, <1>4, OtherStepsEnd DEF OverInv
    <2>2. \A j \in Job : leased'[j] = leased[j] \/ leased'[j] = None
      BY <1>1, <1>4, OtherStepsEnd DEF OverInv
    <2>3. \A j \in Job : Engaged(j)' => Engaged(j)
      BY <1>3, <2>2 DEF Engaged
    <2>4. QED
      BY <2>1, <2>3 DEF OneEngaged
  <1>5. ASSUME NEW i \in Job, NEW d \in Device, NEW ttl \in LeaseTTL,
               AssignQueued(i, d, ttl)
        PROVE  OneEngaged'
    <2>1. /\ placed'[i] = d /\ leased'[i] = d
          /\ \A j \in Job \ {i} : placed'[j] = placed[j] /\ leased'[j] = leased[j]
      BY <1>5 DEF AssignQueued, OverInv, StoreInv, TypeOK
    <2>2. dev[d] = "ready" /\ \A j \in Job : leased[j] # d
      BY <1>5 DEF AssignQueued, IndexAllows, LiveLeaseOn
    <2>3. \A j \in Job \ {i} : Engaged(j)' => Engaged(j)
      BY <1>3, <2>1 DEF Engaged
    <2>4. \A j \in Job : Engaged(j) => placed[j] # d
      BY <1>2, <2>2 DEF Engaged, KeptIsSafe, Safe
    <2>5. QED
      BY <2>1, <2>3, <2>4 DEF OneEngaged
  <1>6. QED
    BY <1>4, <1>5

(* SteadyInv is inductive on top of OverInv.                                  *)
LEMMA SteadyIsInductive ==
  ASSUME Steady, OverInv, SteadyInv, [FleetNext]_fleetVars
  PROVE  SteadyInv'
  <1>1. [Next]_vars
    BY FleetStepIsStoreStep, OfStore DEF OverInv, StoreInv
  <1>2. Protocol'
    <2>1. ASSUME NEW w \in Worker, StartWorker(w) \/ Reregister(w)
          PROVE  RegsOf(w) = {}
      <3>1. CASE "reboot" \in Faults
        BY <2>1, <3>1, RoomForOne DEF StartWorker, Reregister, Steady, SteadyInv,
           Protocol
      <3>2. CASE "reboot" \notin Faults
        BY <2>1, <3>2 DEF StartWorker, Reregister, RegsOf, SteadyInv, Attentive,
           RegsIdle, Protocol, RegsAreTimely, RegTimely
      <3>3. QED
        BY <3>1, <3>2
    <2>2. QED
      BY <2>1, ProtocolKept DEF SteadyInv, Steady, Orderly
  <1>3. Attentive'
    BY AttentiveKept DEF SteadyInv
  <1>4. LeasedExists'
    BY <1>1, LeasedExistsKept DEF SteadyInv, OverInv
  <1>5. KeptIsSafe' /\ OneEngaged'
    BY KeptIsSafeKept, OneEngagedKept DEF SteadyInv
  <1>6. QED
    BY <1>2, <1>3, <1>4, <1>5 DEF SteadyInv

(* Nobody has anything to do with a device at first.                          *)
LEMMA SteadyAtFirst == FleetInit => SteadyInv
  <1> SUFFICES ASSUME FleetInit PROVE SteadyInv
    OBVIOUS
  <1>1. Protocol /\ LeasedExists
    BY ClearAtFirst DEF ClearInv
  <1>2. Attentive
    BY DEF FleetInit, Attentive, RegsIdle, BeatKnows, LiveRuns, NoStop, NoBeat
  <1>3. \A j \in Job : ~Engaged(j)
    BY DEF FleetInit, Init, Engaged, Keeps, Keeping, Busy, Waiting
  <1>4. KeptIsSafe /\ OneEngaged
    BY <1>3 DEF KeptIsSafe, OneEngaged, Engaged
  <1>5. QED
    BY <1>1, <1>2, <1>4 DEF SteadyInv

(* Under Steady it holds of the fleet.                                        *)
THEOREM FleetSteady ==
  ASSUME Steady PROVE FleetSpec => [](OverInv /\ SteadyInv)
  <1>1. FleetInit => OverInv /\ SteadyInv
    BY OverAtFirst, SteadyAtFirst
  <1>2. OverInv /\ SteadyInv /\ [FleetNext]_fleetVars => (OverInv /\ SteadyInv)'
    BY OverIsInductive, SteadyIsInductive
  <1>3. QED
    BY <1>1, <1>2, PTL DEF FleetSpec

(* While workers end only with their host, no two jobs have a live process on *)
(* one device, with or without retention: a kill that the controller finalizes does not give   *)
(* the device away, and a heartbeat brings it back only when it is free.      *)
THEOREM SteadyNeverTwo ==
  ASSUME Steady PROVE FleetSpec => []NoOverlap
  <1>1. OverInv /\ SteadyInv => NoOverlap
    BY DEF OverInv, FleetTypeOK, SteadyInv, Attentive, LiveRuns, OneEngaged,
       Engaged, Keeps, Keeping, Busy, NoOverlap
  <1>2. QED
    BY <1>1, FleetSteady, PTL

(* And a device in the pool is idle, with or without retention.               *)
THEOREM SteadyPoolIsIdle ==
  ASSUME Steady PROVE FleetSpec => []ReadyDeviceIdle
  <1>1. OverInv /\ SteadyInv => ReadyDeviceIdle
    <2>1. SUFFICES ASSUME OverInv, SteadyInv, NEW d \in Device, dev[d] = "ready",
                          NEW j \in OccupiedBy(d)
                   PROVE  FALSE
      BY DEF ReadyDeviceIdle
    <2>2. j \in Job /\ placed[j] = d /\ Keeps(j)
      BY <2>1 DEF OccupiedBy, Occupies, SteadyInv, Attentive, LiveRuns, Keeps,
         Keeping, Busy
    <2>3. QED
      BY <2>1, <2>2 DEF SteadyInv, KeptIsSafe, Safe
  <1>2. QED
    BY <1>1, FleetSteady, PTL
-----------------------------------------------------------------------------
(* Workers that stay up and whose fault reports arrive, with no acquire hook  *)
(* that fails: after one the terminal report goes out first (hook_order).  A  *)
(* host that goes down before the report, or a report lost on every attempt,  *)
(* leaves nobody who knows of the fault.                                      *)
Candid == Steady /\ Faults \cap {"reboot", "hookFail", "lostFault"} = {}

(* A device found unusable is quarantined for an operator, or the job that    *)
(* found it so has yet to say it and still has the device.                    *)
SuspectIsOut ==
  \A d \in suspect :
    /\ d \in Device
    /\ Held(d) \/ \E j \in Job : stage[j] = "faulting" /\ placed[j] = d

(* Only a verify pass adds to the devices found unusable, and an operator     *)
(* takes one off.                                                             *)
LEMMA NewSuspects ==
  ASSUME Candid, [FleetNext]_fleetVars
  PROVE  /\ suspect' \subseteq suspect \cup {placed[i] : i \in {k \in Job : VerifyFailed(k)}}
         /\ \A d \in Device : Vouch(d) => d \notin suspect'
  <1>1. ASSUME NEW w \in Worker, WorkerAct(w) PROVE suspect' = suspect
    BY <1>1 DEF WorkerAct, StartWorker, Reregister, SendRegister, SendBeat,
       HandleBeat, LoseBeat, ReadAssignments, TakeKills, ReceivePoll, LosePoll,
       SetPoll, IdlePoll, PollAgain, MarkHandedOut, workerSide, Crash, Reboot,
       Shutdown, Drained, Exit, Forget
  <1>2. ASSUME NEW i \in Job, JobAct(i)
        PROVE  suspect' = suspect \/ (VerifyFailed(i) /\ suspect' = suspect \cup {placed[i]})
    BY <1>2 DEF JobAct, Execute, StartProcess, HookCancelled, HookFailed,
       ProcessEnds, OrphanEnds, VerifyPassed, VerifyFailed, ReportFault, LoseFault,
       ReportTerminal, ReportUnanswered, LoseReport, KillJob, Local, workerSide,
       Candid
  <1>3. ASSUME NEW m \in regs,
               HandleRegister(m) \/ AnswerRegister(m) \/ GiveUpRegister(m)
        PROVE  suspect' = suspect
    BY <1>3 DEF HandleRegister, AnswerRegister, GiveUpRegister
  <1>4. ASSUME RestartController \/ Scheduler \/ Reaper \/ Clock \/ UNCHANGED fleetVars
        PROVE  suspect' = suspect
    BY <1>4 DEF RestartController, Scheduler, Reaper, Clock, workerSide, fleetVars
  <1>5. \A d \in Device : Vouch(d) => suspect' = suspect \ {d}
    BY DEF Vouch
  <1>6. suspect' \subseteq suspect \cup {placed[i] : i \in {k \in Job : VerifyFailed(k)}}
    BY <1>1, <1>2, <1>3, <1>4, <1>5 DEF FleetNext
  <1>7. QED
    BY <1>5, <1>6

(* A quarantine for a fault stands until an operator vouches for the device.  *)
LEMMA HeldGoesOn ==
  ASSUME OverInv, [FleetNext]_fleetVars, NEW d \in Device, Held(d), ~Vouch(d)
  PROVE  Held(d)'
  <1>1. StoreInv /\ (OtherStep \/ \E j \in Job : TakesReport(j))
    BY FleetStepIsStoreStep DEF OverInv, StoreInv
  <1>2. CASE \E j \in Job : TakesReport(j)
    <2>1. JobStep
      BY <1>2 DEF TakesReport, Outcome, JobStep
    <2>2. QED
      BY <1>1, <2>1, HeldStays
  <1>3. CASE \E e \in Device : Vouch(e)
    BY <1>1, <1>3 DEF Vouch, ClearDevice, RetireDevice, StoreInv, TypeOK, Held
  <1>4. CASE OtherStep /\ ~\E e \in Device : Vouch(e)
    <2>1. \/ JobStep \/ WorkerStep \/ \E e \in Device : SetDeviceState(e)
          \/ Sweep \/ ControllerRestart \/ Tick \/ UNCHANGED vars
      BY <1>4 DEF OtherStep, JobStep
    <2>2. QED
      BY <1>1, <2>1, HeldStays
  <1>5. QED
    BY <1>1, <1>2, <1>3, <1>4

(* A job that has a fault to report reports it.                               *)
LEMMA FaultIsReported ==
  ASSUME Candid, OverInv, SteadyInv, [FleetNext]_fleetVars,
         NEW j \in Job, stage[j] = "faulting"
  PROVE  placed'[j] = placed[j] /\ (stage'[j] = "faulting" \/ Held(placed[j])')
  <1>1. /\ Keeps(j) /\ placed[j] \in Device
        /\ dev[placed[j]] # "absent" /\ job[j] # "queued"
    <2>1. Keeps(j)
      BY DEF Keeps, Keeping
    <2>2. QED
      BY <2>1, KeptIsPlaced DEF SteadyInv, KeptIsSafe, Safe
  <1>2. placed'[j] = placed[j]
    <2>1. [Next]_vars
      BY FleetStepIsStoreStep, OfStore DEF OverInv, StoreInv
    <2>2. CASE \E i \in Job, d \in Device, ttl \in LeaseTTL : AssignQueued(i, d, ttl)
      BY <1>1, <2>2 DEF AssignQueued, OverInv, StoreInv, TypeOK
    <2>3. QED
      BY <2>1, <2>2, OtherStepsEnd DEF OverInv
  <1>3. ASSUME NEW w \in Worker, WorkerAct(w) PROVE stage'[j] = stage[j]
    <2>1. CASE ReceivePoll(w)
      <3>1. stage' = [i \in Job |->
              IF i \notin {k \in poll[w].jobs : stage[k] = "none"} THEN stage[i]
              ELSE IF i \in poll[w].kills THEN "prekilled" ELSE "spawned"]
        BY <2>1 DEF ReceivePoll
      <3>2. QED
        BY <3>1
    <2>2. ~Crash(w) /\ ~Reboot(w) /\ ~Shutdown(w) /\ ~Drained(w)
      BY NobodyLeaves DEF Candid, Reboot, SteadyInv, Attentive
    <2>3. QED
      BY <1>3, <2>1, <2>2 DEF WorkerAct, StartWorker, Reregister, SendRegister,
         SendBeat, HandleBeat, LoseBeat, ReadAssignments, TakeKills, LosePoll,
         SetPoll, IdlePoll, PollAgain, MarkHandedOut, workerSide
  <1>4. ASSUME NEW i \in Job, JobAct(i)
        PROVE  stage'[j] = stage[j] \/ Held(placed[j])'
    <2>1. CASE i # j
      BY <1>4, <2>1, JobActStages
    <2>2. CASE i = j /\ ReportFault(j)
      <3>1. SetDeviceState(placed[j])
        BY <1>1, <2>2 DEF ReportFault
      <3>2. QED
        BY <1>1, <1>2, <3>1 DEF SetDeviceState, Held, Clearable, OverInv, StoreInv,
           TypeOK
    <2>3. CASE i = j /\ ~ReportFault(j)
      BY <1>4, <2>3 DEF JobAct, Execute, StartProcess, HookCancelled, HookFailed,
         ProcessEnds, OrphanEnds, VerifyPassed, VerifyFailed, LoseFault,
         ReportTerminal, ReportUnanswered, LoseReport, KillJob, Local, workerSide,
         Candid
    <2>4. QED
      BY <2>1, <2>2, <2>3
  <1>5. ASSUME \/ \E m \in regs : \/ HandleRegister(m) \/ AnswerRegister(m)
                                   \/ GiveUpRegister(m)
               \/ \E d \in Device : Vouch(d)
               \/ RestartController \/ Scheduler \/ Reaper \/ Clock
               \/ UNCHANGED fleetVars
        PROVE  stage' = stage
    BY <1>5 DEF HandleRegister, AnswerRegister, GiveUpRegister, Vouch,
       RestartController, Scheduler, Reaper, Clock, workerSide, fleetVars
  <1>6. QED
    BY <1>2, <1>3, <1>4, <1>5 DEF FleetNext

(* So SuspectIsOut is inductive on top of SteadyInv.                          *)
LEMMA SuspectIsOutKept ==
  ASSUME Candid, OverInv, SteadyInv, SuspectIsOut, [FleetNext]_fleetVars
  PROVE  SuspectIsOut'
  <1>1. SUFFICES ASSUME NEW d \in suspect'
                 PROVE  /\ d \in Device
                        /\ \/ Held(d)'
                           \/ \E j \in Job : stage'[j] = "faulting" /\ placed'[j] = d
    BY DEF SuspectIsOut
  <1>2. CASE d \in suspect
    <2>1. d \in Device /\ ~Vouch(d)
      BY <1>2, NewSuspects DEF SuspectIsOut
    <2>2. CASE Held(d)
      BY <2>1, <2>2, HeldGoesOn
    <2>3. CASE \E j \in Job : stage[j] = "faulting" /\ placed[j] = d
      BY <2>1, <2>3, FaultIsReported DEF Held
    <2>4. QED
      BY <1>2, <2>1, <2>2, <2>3 DEF SuspectIsOut
  <1>3. CASE d \notin suspect
    <2>1. PICK i \in Job : VerifyFailed(i) /\ placed[i] = d
      BY <1>1, <1>3, NewSuspects
    <2>2. Keeps(i)
      BY <2>1 DEF VerifyFailed, Keeps, Keeping
    <2>3. d \in Device
      BY <2>1, <2>2, KeptIsPlaced
    <2>4. stage'[i] = "faulting" /\ placed'[i] = d
      BY <2>1 DEF VerifyFailed, Goto, vars, OverInv, FleetTypeOK
    <2>5. QED
      BY <2>3, <2>4
  <1>4. QED
    BY <1>2, <1>3

(* A device that is out is given to nobody.                                   *)
LEMMA SuspectIsNotGiven ==
  ASSUME OverInv, SteadyInv, SuspectIsOut, [FleetNext]_fleetVars,
         NEW d \in suspect, NEW j \in Job, leased'[j] = d
  PROVE  leased[j] = d
  <1>1. [Next]_vars
    BY FleetStepIsStoreStep, OfStore DEF OverInv, StoreInv
  <1>2. d \in Device /\ dev[d] # "ready"
    <2>1. CASE Held(d)
      BY <2>1 DEF Held, SuspectIsOut
    <2>2. CASE \E i \in Job : stage[i] = "faulting" /\ placed[i] = d
      BY <2>2 DEF SuspectIsOut, SteadyInv, KeptIsSafe, Safe, Keeps, Keeping
    <2>3. QED
      BY <2>1, <2>2 DEF SuspectIsOut
  <1>3. CASE \E i \in Job, e \in Device, ttl \in LeaseTTL : AssignQueued(i, e, ttl)
    BY <1>2, <1>3 DEF AssignQueued, OverInv, StoreInv, TypeOK
  <1>4. CASE ~\E i \in Job, e \in Device, ttl \in LeaseTTL : AssignQueued(i, e, ttl)
    BY <1>1, <1>2, <1>4, OtherStepsEnd, Constants DEF OverInv
  <1>5. QED
    BY <1>3, <1>4

(* A device that failed its verify pass goes to no job before an operator has *)
(* vouched for it, with or without retention: the fault is reported before    *)
(* the job is, and nothing but an operator ends the quarantine.               *)
THEOREM SuspectStaysOut ==
  ASSUME Candid PROVE FleetSpec => SuspectNotHandedOut
  <1> DEFINE Inv == OverInv /\ SteadyInv /\ SuspectIsOut
             Kept == \A d \in suspect, j \in Job : leased'[j] = d => leased[j] = d
  <1>1. FleetInit => Inv
    BY OverAtFirst, SteadyAtFirst DEF FleetInit, SuspectIsOut
  <1>2. Inv /\ [FleetNext]_fleetVars => Inv'
    BY OverIsInductive, SteadyIsInductive, SuspectIsOutKept DEF Candid
  <1>3. Inv /\ [FleetNext]_fleetVars => [Kept]_fleetVars
    BY SuspectIsNotGiven
  <1>4. QED
    BY <1>1, <1>2, <1>3, PTL DEF FleetSpec, SuspectNotHandedOut
=============================================================================
