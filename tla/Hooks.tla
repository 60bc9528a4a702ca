------------------------------- MODULE Hooks -------------------------------
(***************************************************************************)
(* The acquire and release hooks of one device of one worker: the held     *)
(* bit, the epoch that says which job owns the device, the linger timer    *)
(* and its generation, the goroutines of jobs and of timers that meet at   *)
(* the device's mutex, the drain at shutdown and the pass at startup.      *)
(*                                                                         *)
(* A device's hook state is its own, so one device is all there is.  The   *)
(* mutex is not a variable: it is locked exactly while a hook runs under   *)
(* it, and every other critical section is one step.                       *)
(*                                                                         *)
(* Jobs come one at a time.  That is what Fleet shows as ReadyDeviceIdle:  *)
(* the next job is handed out when the device is in the pool again, which  *)
(* may be long before the goroutine of the last one is through.            *)
(***************************************************************************)
EXTENDS Naturals

CONSTANTS
  Job, None,
  MaxStop    \* bound on the number of times the worker process ends

ASSUME HooksAssumption == None \notin Job /\ MaxStop \in Nat

VARIABLES
  hooks,    \* which of the two scripts the device declares
  proc,     \* where the worker process is
  stops,    \* how many times it was told to end, or was killed
  owner,    \* the job the controller has the device leased to
  stage,    \* where a job's goroutine is
  ticket,   \* the epoch its acquireDevice returned
  held, epoch, gen,
  timer,    \* st.timer: the generation it was armed with, or 0
  fires,    \* the fireRelease goroutines of timers that have yet to get the mutex
  drain,    \* the fireRelease that the drain at shutdown is in, or 0
  firing,   \* the fireRelease that runs the release hook, or 0
  service,  \* the operator's service on the device
  owed,     \* history: it was stopped for a job, and has to be started again
  left      \* history: the worker has left it at that: the startup pass was
            \* cut short, or the acquire hook that stopped it did not succeed

memory == <<held, epoch, gen, timer, fires, drain, firing>>
vars == <<hooks, proc, stops, owner, stage, ticket, memory, service, owed, left>>

(* Jobs that are on the device or on their way to it, and jobs that have an  *)
(* epoch of their own to hand back.                                          *)
Coming == {"spawned", "acquiring", "running"}
Ticketed == {"running", "reporting", "ended"}

Unlocked == firing = 0 /\ \A j \in Job : stage[j] # "acquiring"

Goto(j, s) == stage' = [stage EXCEPT ![j] = s]

Init ==
  /\ hooks \in SUBSET {"acquire", "release"}
  /\ proc = "down" /\ stops = 0
  /\ owner = None
  /\ stage = [j \in Job |-> "none"]
  /\ ticket = [j \in Job |-> 0]
  /\ held = FALSE /\ epoch = 0 /\ gen = 0
  /\ timer = 0 /\ fires = {} /\ firing = 0 /\ drain = 0
  /\ service \in {"up", "down"} /\ owed = FALSE /\ left = FALSE
-----------------------------------------------------------------------------
(* Start: the worker registers, and before its first poll runs the release   *)
(* hook of every device that has one.  A failure is logged and that is all.  *)
StartWorker ==
  /\ proc = "down"
  /\ proc' = "starting"
  /\ UNCHANGED <<hooks, stops, owner, stage, ticket, memory, service, owed, left>>

StartupRelease ==
  /\ proc = "starting"
  /\ proc' = "serving"
  /\ IF "release" \in hooks
     THEN /\ service' \in {service, "up"}
          /\ owed' = FALSE /\ left' = FALSE
     ELSE UNCHANGED <<service, owed, left>>
  /\ UNCHANGED <<hooks, stops, owner, stage, ticket, memory>>

(* The hooks of other devices have used up startupReleaseBudget: this one is *)
(* skipped.                                                                  *)
StartupSkipped ==
  /\ proc = "starting" /\ "release" \in hooks
  /\ proc' = "serving"
  /\ left' = owed
  /\ UNCHANGED <<hooks, stops, owner, stage, ticket, memory, service, owed>>

(* A poll brings a job for a device that the controller has in its pool.     *)
HandOut(j) ==
  /\ proc = "serving" /\ owner = None /\ stage[j] = "none"
  /\ owner' = j
  /\ Goto(j, "spawned")
  /\ UNCHANGED <<hooks, proc, stops, ticket, memory, service, owed, left>>

(* Mutant: the job that finds the device held returns the epoch it found. *)
Acquire_StaleTicket(j) ==
  /\ stage[j] = "spawned" /\ Unlocked
  /\ timer' = 0 /\ gen' = gen + 1
  /\ IF held \/ "acquire" \notin hooks
     THEN /\ held' = TRUE
          /\ epoch' = epoch + 1
          /\ ticket' = [ticket EXCEPT ![j] = IF held THEN epoch ELSE epoch + 1]
          /\ Goto(j, "running")
     ELSE Goto(j, "acquiring") /\ UNCHANGED <<held, epoch, ticket>>
  /\ UNCHANGED <<hooks, proc, stops, owner, fires, firing, drain, service, owed, left>>

(* acquireDevice of a device that has hooks: a pending release is called off *)
(* (a timer that has already fired is left to find its generation stale).  A *)
(* device still held changes owner without a hook; so does one that has no   *)
(* acquire hook.  Otherwise the hook runs, under the mutex.                  *)
AcquireDevice(j) ==
  /\ stage[j] = "spawned" /\ Unlocked
  /\ timer' = 0 /\ gen' = gen + 1
  /\ IF held \/ "acquire" \notin hooks
     THEN /\ held' = TRUE
          /\ epoch' = epoch + 1
          /\ ticket' = [ticket EXCEPT ![j] = epoch + 1]
          /\ Goto(j, "running")
     ELSE Goto(j, "acquiring") /\ UNCHANGED <<held, epoch, ticket>>
  /\ UNCHANGED <<hooks, proc, stops, owner, fires, firing, drain, service, owed, left>>

(* Without hooks acquireDevice returns at once, and the epoch is 0. *)
AcquireUnhooked(j) ==
  /\ stage[j] = "spawned"
  /\ Goto(j, "running")
  /\ UNCHANGED <<hooks, proc, stops, owner, ticket, memory, service, owed, left>>

Acquire(j) == IF hooks = {} THEN AcquireUnhooked(j) ELSE AcquireDevice(j)

(* The acquire hook succeeds: the service has stood down. *)
AcquireHookDone(j) ==
  /\ stage[j] = "acquiring"
  /\ held' = TRUE
  /\ epoch' = epoch + 1
  /\ ticket' = [ticket EXCEPT ![j] = epoch + 1]
  /\ Goto(j, "running")
  /\ service' = "down"
  /\ owed' = ("release" \in hooks) /\ left' = FALSE
  /\ UNCHANGED <<hooks, proc, stops, owner, gen, timer, fires, firing, drain>>

(* An acquire hook that does not get to its end may have stopped the service *)
(* all the same.                                                             *)
HookCutShort ==
  /\ service' \in {service, "down"}
  /\ owed' = (owed \/ (service' # service /\ "release" \in hooks))

(* It fails, or is cancelled with the job: nothing is held, execute returns  *)
(* after its reports, and no release is armed.                               *)
AcquireHookFailed(j) ==
  /\ stage[j] = "acquiring"
  /\ Goto(j, "aborting")
  /\ HookCutShort
  /\ left' = owed'
  /\ UNCHANGED <<hooks, proc, stops, owner, ticket, memory>>

(* Run returns, and the verify pass does. *)
Finish(j) ==
  /\ stage[j] = "running"
  /\ Goto(j, "reporting")
  /\ UNCHANGED <<hooks, proc, stops, owner, ticket, memory, service, owed, left>>

(* The controller lets the device go: a terminal report has reached it,      *)
(* whether or not the worker knows, or every attempt failed and an operator  *)
(* cleared the device later.                                                 *)
LetGo(j) ==
  /\ owner = j /\ stage[j] \in {"reporting", "aborting", "ended", "done"}
  /\ owner' = None
  /\ UNCHANGED <<hooks, proc, stops, stage, ticket, memory, service, owed, left>>

(* reportTerminalWithRetry returns, answered or out of attempts. *)
Reported(j) ==
  /\ stage[j] \in {"reporting", "aborting"}
  /\ Goto(j, IF stage[j] = "reporting" THEN "ended" ELSE "done")
  /\ UNCHANGED <<hooks, proc, stops, owner, ticket, memory, service, owed, left>>

(* Mutant: a release is armed by whichever job ends. *)
ScheduleRelease_AnyEpoch(j) ==
  /\ stage[j] = "ended" /\ Unlocked
  /\ IF held
     THEN gen' = gen + 1 /\ timer' = gen + 1
     ELSE UNCHANGED <<gen, timer>>
  /\ Goto(j, "done")
  /\ UNCHANGED <<hooks, proc, stops, owner, ticket, held, epoch, fires, firing, drain,
                 service, owed, left>>

(* scheduleRelease: only the job that owns the device by its epoch arms the  *)
(* linger.                                                                   *)
ScheduleRelease(j) ==
  /\ stage[j] = "ended" /\ Unlocked
  /\ IF held /\ ticket[j] = epoch
     THEN gen' = gen + 1 /\ timer' = gen + 1
     ELSE UNCHANGED <<gen, timer>>
  /\ Goto(j, "done")
  /\ UNCHANGED <<hooks, proc, stops, owner, ticket, held, epoch, fires, firing, drain,
                 service, owed, left>>
-----------------------------------------------------------------------------
(* The linger is over: time.AfterFunc starts fireRelease.  st.timer stays    *)
(* what it is until somebody has the mutex.                                  *)
Elapse ==
  /\ timer # 0 /\ timer \notin fires
  /\ fires' = fires \cup {timer}
  /\ UNCHANGED <<hooks, proc, stops, owner, stage, ticket, held, epoch, gen, timer,
                 firing, drain, service, owed, left>>

(* fireRelease of generation g has the mutex: a stale one does nothing, the  *)
(* current one runs the hook, if there is one.                               *)
FireRelease(g) ==
  /\ Unlocked
  /\ IF g # gen
     THEN UNCHANGED <<timer, held, firing>>
     ELSE /\ timer' = 0
          /\ IF "release" \in hooks
             THEN firing' = g /\ UNCHANGED held
             ELSE held' = FALSE /\ UNCHANGED firing
  /\ UNCHANGED <<hooks, proc, stops, owner, stage, ticket, epoch, gen, service, owed, left>>

TimerFires(g) ==
  /\ g \in fires
  /\ FireRelease(g)
  /\ fires' = fires \ {g}
  /\ UNCHANGED drain

(* The hook ends, well or badly: the device is free either way.              *)
ReleaseHookEnds ==
  /\ firing # 0
  /\ firing' = 0 /\ held' = FALSE
  /\ service' \in {service, "up"} /\ owed' = FALSE /\ left' = FALSE
  /\ drain' = IF drain = firing THEN 0 ELSE drain
  /\ UNCHANGED <<hooks, proc, stops, owner, stage, ticket, epoch, gen, timer, fires>>
-----------------------------------------------------------------------------
(* SIGTERM.  Jobs under way are cancelled and go through their stages. *)
Shutdown ==
  /\ proc \in {"starting", "serving"} /\ stops < MaxStop
  /\ proc' = "draining" /\ stops' = stops + 1
  /\ UNCHANGED <<hooks, owner, stage, ticket, memory, service, owed, left>>

(* drainPendingReleases, when the jobs are through or shutdownGrace is over: *)
(* a pending release is fired now, under a generation of its own.            *)
DrainPendingReleases ==
  /\ proc = "draining" /\ Unlocked
  /\ proc' = "exiting"
  /\ IF timer = 0
     THEN UNCHANGED <<gen, timer, drain>>
     ELSE timer' = 0 /\ gen' = gen + 1 /\ drain' = gen + 1
  /\ UNCHANGED <<hooks, stops, owner, stage, ticket, held, epoch, fires, firing, service, owed, left>>

DrainFires ==
  /\ drain # 0
  /\ FireRelease(drain)
  /\ drain' = IF drain = gen /\ "release" \in hooks THEN drain ELSE 0
  /\ UNCHANGED fires

(* The process is gone, with all it knew.  A hook it was running ends with   *)
(* it, part of the way through; its jobs are the controller's to settle      *)
(* before the device goes to another.                                        *)
Stopped ==
  /\ proc' = "down"
  /\ owner' = None
  /\ stage' = [j \in Job |-> IF stage[j] = "none" THEN "none" ELSE "gone"]
  /\ ticket' = [j \in Job |-> 0]
  /\ held' = FALSE /\ epoch' = 0 /\ gen' = 0
  /\ timer' = 0 /\ fires' = {} /\ firing' = 0 /\ drain' = 0
  /\ \/ UNCHANGED <<service, owed>>
     \/ firing # 0 /\ service' = "up" /\ UNCHANGED owed
     \/ (\E j \in Job : stage[j] = "acquiring") /\ HookCutShort
  /\ left' = FALSE
  /\ UNCHANGED hooks

(* Start returns once the release that the drain fired is through. *)
Exit ==
  /\ proc = "exiting"
  /\ drain = 0
  /\ UNCHANGED stops
  /\ Stopped

Crash ==
  /\ proc # "down" /\ stops < MaxStop
  /\ stops' = stops + 1
  /\ Stopped

JobStep(j) ==
  \/ HandOut(j) \/ Acquire(j) \/ AcquireHookDone(j) \/ AcquireHookFailed(j)
  \/ Finish(j) \/ LetGo(j) \/ Reported(j) \/ ScheduleRelease(j)

Next ==
  \/ StartWorker \/ StartupRelease \/ StartupSkipped
  \/ \E j \in Job : JobStep(j)
  \/ Elapse \/ (\E g \in fires : TimerFires(g)) \/ ReleaseHookEnds
  \/ Shutdown \/ DrainPendingReleases \/ DrainFires \/ Exit \/ Crash

Spec == Init /\ [][Next]_vars

(* Hooks and reports are bounded by timeouts and attempts, timers fire, the  *)
(* mutex is handed on, and a worker that ended is started again (by systemd  *)
(* or the kubelet).  No job has to end, and none has to come.                *)
Fairness ==
  /\ WF_vars(StartWorker) /\ WF_vars(StartupRelease \/ StartupSkipped)
  /\ \A j \in Job :
       WF_vars(Acquire(j) \/ AcquireHookDone(j) \/ AcquireHookFailed(j)
               \/ Reported(j) \/ ScheduleRelease(j))
  /\ WF_vars(Elapse) /\ WF_vars(\E g \in fires : TimerFires(g))
  /\ WF_vars(ReleaseHookEnds)
  /\ WF_vars(DrainPendingReleases) /\ WF_vars(DrainFires) /\ WF_vars(Exit)

FairSpec == Spec /\ Fairness
-----------------------------------------------------------------------------
(* The state has the shape its actions rely on: in particular no goroutine   *)
(* carries a generation or an epoch from the future, which would make it     *)
(* current later on.                                                         *)
HooksTypeOK ==
  /\ hooks \subseteq {"acquire", "release"}
  /\ proc \in {"down", "starting", "serving", "draining", "exiting"}
  /\ stops \in Nat
  /\ owner \in Job \cup {None}
  /\ stage \in [Job -> Coming \cup Ticketed \cup {"none", "aborting", "done", "gone"}]
  /\ ticket \in [Job -> Nat] /\ \A j \in Job : ticket[j] <= epoch
  /\ held \in BOOLEAN /\ epoch \in Nat /\ gen \in Nat
  /\ timer \in Nat /\ timer <= gen
  /\ fires \subseteq Nat \ {0} /\ \A g \in fires : g <= gen
  /\ firing \in Nat /\ drain \in Nat /\ drain <= gen
  /\ service \in {"up", "down"} /\ owed \in BOOLEAN /\ left \in BOOLEAN

(* The release hook never runs on a device a job is on: not from a timer     *)
(* that fired as the job came, not from an earlier job whose report took     *)
(* until now, and not from the drain.                                        *)
NoReleaseOverJob ==
  firing # 0 => \A j \in Job : stage[j] # "running"

(* While a job is on a device that has an acquire hook, the service that the *)
(* hook stops is stopped: whoever skipped the hook was right to.             *)
ServiceStandsAside ==
  "acquire" \in hooks =>
    \A j \in Job : stage[j] = "running" => service = "down"

(* A release is run for an acquire and only once: not a second time by the   *)
(* drain behind a timer that has fired, nor for a device released since.     *)
ReleaseOfHeld == firing # 0 => held

(* Acquires and releases of a device take turns: no release runs over a job, *)
(* no job runs beside the service its acquire stops, and no release runs     *)
(* twice, whatever fires, reports or shuts down late.  (held, epoch, gen.)   *)
HooksInTurn == NoReleaseOverJob /\ ServiceStandsAside /\ ReleaseOfHeld

(* A service that was stopped for a job is started again if the device stays *)
(* idle, though the job's release is void, its worker is stopped or killed   *)
(* in the linger or in an acquire hook, or a timer is called off.  A release *)
(* hook that fails is logged, and is the operator's.  The code leaves a      *)
(* service stopped, until the next job or the next start, in two cases: the  *)
(* startup pass ran out of its budget before this device, or the acquire     *)
(* hook stopped the service and did not succeed.                             *)
Idle == \A j \in Job : stage[j] \notin Coming

ServiceComesBack == []<>(~owed \/ ~Idle \/ left)
=============================================================================
