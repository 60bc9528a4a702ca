------------------------------- MODULE Store -------------------------------
(***************************************************************************)
(* The controller's store: the SQLite rows of devices, jobs, leases and    *)
(* workers, and one action per transaction that changes them.              *)
(*                                                                         *)
(* The pool is capped at one connection, so a transaction is atomic; what  *)
(* interleaves is whole transactions.  Nothing here constrains the order   *)
(* in which the HTTP handlers, the reaper and the scheduler issue them, or *)
(* what a worker claims in a heartbeat: the properties below hold however  *)
(* the callers behave.  Fleet composes these transactions with workers.    *)
(*                                                                         *)
(* Stored timestamps are kept as distances from now that saturate at the   *)
(* threshold the code compares them with, so the state space is finite     *)
(* without a bound on time.                                                *)
(***************************************************************************)
EXTENDS Naturals

CONSTANTS
  Worker, Device, Job,
  BootId,          \* the kernel boot ids a host can report
  None,            \* an empty column
  WorkerOf,        \* the worker of each device: both ids derive from the host
  Holds,           \* the jobs of kind "hold"
  Retain,          \* --retain-disconnected-jobs
  Grace,           \* HeartbeatGrace
  UnhealthyAfter,  \* sweepUnhealthyAfter
  LeaseTTL,        \* the lease times assignQueued can choose
  RenewWindow,     \* leaseRenewWindow
  Redeliver,       \* killRedeliverInterval
  StartupGrace,    \* startupGrace
  RecoveryWindow,  \* autoRecoveryWindow
  RecoveryLimit    \* autoRecoveryLimit

ASSUME StoreAssumption ==
  /\ None \notin Device \cup Job \cup BootId
  /\ WorkerOf \in [Device -> Worker]
  /\ Holds \subseteq Job
  /\ Retain \in BOOLEAN
  /\ Grace \in Nat /\ UnhealthyAfter \in Nat /\ Grace <= UnhealthyAfter
  /\ LeaseTTL \subseteq Nat /\ LeaseTTL # {}
  /\ RenewWindow \in Nat /\ Redeliver \in Nat /\ StartupGrace \in Nat
  /\ RecoveryWindow \in Nat /\ RecoveryLimit \in Nat

VARIABLES
  dev,       \* devices.state, "absent" when the device has no row
  why,       \* devices.quarantine_reason, "none" when the column is empty
  job,       \* jobs.state, "absent" when the job has no row
  placed,    \* jobs.device_id once assigned
  leased,    \* the device of the job's live lease (released_at IS NULL)
  left,      \* time left on that lease: expires_at - now, at least 0
  known,     \* the workers that have a row
  boot,      \* workers.boot_id
  silence,   \* now - workers.last_heartbeat_at, at most UnhealthyAfter
  killReq,   \* the jobs with kill_requested = 1
  quiet,     \* time until a delivered kill is offered again, at least 0
  holdOff,   \* time left of the startup window
  recovered  \* the ages of a device's automatic recoveries

devVars == <<dev, why>>
jobVars == <<job, placed>>
leaseVars == <<leased, left>>
workerVars == <<known, boot, silence>>
killVars == <<killReq, quiet>>
vars == <<dev, why, job, placed, leased, left, known, boot, silence,
          killReq, quiet, holdOff, recovered>>
-----------------------------------------------------------------------------
DeviceState == {"ready", "busy", "unknown", "unhealthy"}

(* rebootClearableReasons: what a reboot, or a proof that nothing survived, *)
(* answers.  A fault is not among them, nor is the empty reason of a row    *)
(* quarantined before reasons were recorded.                                *)
Clearable == {"worker_lost", "lease_expired", "registration"}
Reason == Clearable \cup {"fault", "none"}

Active == {"assigned", "running"}
Terminal == {"succeeded", "failed", "killed", "lost"}
JobState == {"queued"} \cup Active \cup Terminal

(* Expired marks a recovery slot whose row is older than the window: the    *)
(* next AutoRecover prunes it and RecoveryHistoryFor does not list it.      *)
Expired == RecoveryWindow + 1
Slot == 1..RecoveryLimit

LiveLeaseOn(d) == \E j \in Job : leased[j] = d

(* jobs.worker_id = w *)
Mine(w, j) == placed[j] # None /\ WorkerOf[placed[j]] = w

InFlight(w) == {j \in Job : Mine(w, j) /\ job[j] \in Active}

Bump(n, limit) == IF n < limit THEN n + 1 ELSE limit
Drop(n) == IF n > 0 THEN n - 1 ELSE 0
-----------------------------------------------------------------------------
(* A fresh database, or one upgraded from before quarantine reasons were    *)
(* recorded, which may hold unhealthy devices with no reason.               *)
Init ==
  /\ \E Old \in SUBSET Device :
       /\ dev = [d \in Device |-> IF d \in Old THEN "unhealthy" ELSE "absent"]
       /\ known = {WorkerOf[d] : d \in Old}
  /\ why = [d \in Device |-> "none"]
  /\ job = [j \in Job |-> "absent"]
  /\ placed = [j \in Job |-> None]
  /\ leased = [j \in Job |-> None]
  /\ left = [j \in Job |-> 0]
  /\ boot = [w \in Worker |-> None]
  /\ silence = [w \in Worker |-> UnhealthyAfter]
  /\ killReq = {}
  /\ quiet = [j \in Job |-> 0]
  /\ holdOff = StartupGrace
  /\ recovered = [d \in Device |-> [i \in Slot |-> Expired]]

(* Enqueue: an accepted submission becomes a queued row.  A rejected one,   *)
(* and one whose idempotency key already names a job, changes nothing.      *)
Enqueue(j) ==
  /\ job[j] = "absent"
  /\ job' = [job EXCEPT ![j] = "queued"]
  /\ UNCHANGED <<placed, devVars, leaseVars, workerVars, killVars, holdOff,
                 recovered>>

(* CancelQueued. *)
CancelQueued(j) ==
  /\ job[j] = "queued"
  /\ job' = [job EXCEPT ![j] = "killed"]
  /\ UNCHANGED <<placed, devVars, leaseVars, workerVars, killVars, holdOff,
                 recovered>>

(* The partial unique index leases_one_live_per_device. *)
IndexAllows(d) == ~LiveLeaseOn(d)

(* Mutant: a lost job is scheduled again. *)
AssignQueued_RetriesLost(j, d, ttl) ==
  /\ dev[d] = "ready"
  /\ job[j] \in {"queued", "lost"}
  /\ IndexAllows(d)
  /\ dev' = [dev EXCEPT ![d] = "busy"]
  /\ job' = [job EXCEPT ![j] = "assigned"]
  /\ placed' = [placed EXCEPT ![j] = d]
  /\ leased' = [leased EXCEPT ![j] = d]
  /\ left' = [left EXCEPT ![j] = ttl]
  /\ UNCHANGED <<why, workerVars, killVars, holdOff, recovered>>

(* assignQueued: device ready -> busy, job queued -> assigned and a live    *)
(* lease row, all or nothing.                                               *)
AssignQueued(j, d, ttl) ==
  /\ dev[d] = "ready"
  /\ job[j] = "queued"
  /\ IndexAllows(d)
  /\ dev' = [dev EXCEPT ![d] = "busy"]
  /\ job' = [job EXCEPT ![j] = "assigned"]
  /\ placed' = [placed EXCEPT ![j] = d]
  /\ leased' = [leased EXCEPT ![j] = d]
  /\ left' = [left EXCEPT ![j] = ttl]
  /\ UNCHANGED <<why, workerVars, killVars, holdOff, recovered>>

(* MarkRunning: assigned -> running, and no other transition. *)
MarkRunning(j) ==
  /\ job[j] = "assigned"
  /\ job' = [job EXCEPT ![j] = "running"]
  /\ UNCHANGED <<placed, devVars, leaseVars, workerVars, killVars, holdOff,
                 recovered>>

(* Mutant: a report for a finished job is taken. *)
Release_AnyState(j, outcome) ==
  /\ placed[j] # None
  /\ job' = [job EXCEPT ![j] = outcome]
  /\ leased' = [leased EXCEPT ![j] = None]
  /\ dev' = [d \in Device |-> IF d = placed[j] /\ dev[d] = "busy"
                              THEN "ready" ELSE dev[d]]
  /\ UNCHANGED <<why, placed, left, workerVars, killVars, holdOff, recovered>>

(* Release, for a worker's terminal report.  A job that is already terminal *)
(* is left alone; a device someone quarantined or lost sight of meanwhile   *)
(* is not freed.                                                            *)
Release(j, outcome) ==
  /\ job[j] \in Active
  /\ job' = [job EXCEPT ![j] = outcome]
  /\ leased' = [leased EXCEPT ![j] = None]
  /\ dev' = [d \in Device |-> IF d = placed[j] /\ dev[d] = "busy"
                              THEN "ready" ELSE dev[d]]
  /\ UNCHANGED <<why, placed, left, workerVars, killVars, holdOff, recovered>>
-----------------------------------------------------------------------------
(* UpsertWorker: a registration is a fresh process that runs nothing, so    *)
(* whatever is in flight for it is lost.  Only a changed boot id proves     *)
(* that nothing survived.                                                   *)
Rebooted(w, b) ==
  w \in known /\ boot[w] # None /\ b # None /\ boot[w] # b

(* A device row: its state and its quarantine reason. *)
Row(d) == [state |-> dev[d], reason |-> why[d]]
Quarantined(r) == [state |-> "unhealthy", reason |-> r]
InService == [state |-> "ready", reason |-> "none"]

(* Mutant: a registration is taken for a reboot. *)
Reaped_TrustsRestart(w, b, d) ==
  IF \E j \in InFlight(w) : placed[j] = d THEN InService ELSE Row(d)

(* reapInFlightJobsLocked on device d. *)
Reaped(w, b, d) ==
  LET hit == \E j \in InFlight(w) : placed[j] = d
  IN  IF ~hit \/ dev[d] \in {"absent", "unhealthy"} THEN Row(d)
      ELSE IF ~Rebooted(w, b) THEN Quarantined("registration")
      ELSE IF dev[d] \in {"busy", "unknown"} THEN InService ELSE Row(d)

(* restoreRebootedDevicesLocked: also the devices quarantined earlier, for  *)
(* a reason a reboot answers and with no live lease left.                   *)
Restored(w, b, d) ==
  LET row == Reaped(w, b, d)
  IN  IF /\ Rebooted(w, b)
         /\ WorkerOf[d] = w
         /\ row.state = "unhealthy" /\ row.reason \in Clearable
         /\ ~\E j \in Job \ InFlight(w) : leased[j] = d
      THEN InService ELSE row

(* The declared devices: a quarantine survives registration, anything else  *)
(* comes up ready.                                                          *)
Registered(w, b, D, d) ==
  LET row == Restored(w, b, d)
  IN  IF d \in D /\ row.state # "unhealthy" THEN InService ELSE row

(* Mutant: the jobs are lost and their leases stay. *)
UpsertWorker_KeepsLeases(w, b, D) ==
  /\ dev' = [d \in Device |-> Registered(w, b, D, d).state]
  /\ why' = [d \in Device |-> Registered(w, b, D, d).reason]
  /\ job' = [j \in Job |-> IF j \in InFlight(w) THEN "lost" ELSE job[j]]
  /\ known' = known \cup {w}
  /\ boot' = [boot EXCEPT ![w] = b]
  /\ silence' = [silence EXCEPT ![w] = 0]
  /\ UNCHANGED <<placed, leaseVars, killVars, holdOff, recovered>>

UpsertWorker(w, b, D) ==
  /\ dev' = [d \in Device |-> Registered(w, b, D, d).state]
  /\ why' = [d \in Device |-> Registered(w, b, D, d).reason]
  /\ job' = [j \in Job |-> IF j \in InFlight(w) THEN "lost" ELSE job[j]]
  /\ leased' = [j \in Job |-> IF j \in InFlight(w) THEN None ELSE leased[j]]
  /\ known' = known \cup {w}
  /\ boot' = [boot EXCEPT ![w] = b]
  /\ silence' = [silence EXCEPT ![w] = 0]
  /\ UNCHANGED <<placed, left, killVars, holdOff, recovered>>

(* AutoRecover, called with a proof that no process of the worker's survived. *)
(* A device that already spent its recoveries within the window stays out.    *)
FreeSlots(d) == {i \in Slot : recovered[d][i] = Expired}

(* Mutant: a proof clears every reason. *)
Recoverable_AnyReason(w, d) ==
  /\ WorkerOf[d] = w
  /\ dev[d] = "unhealthy"
  /\ ~LiveLeaseOn(d)
  /\ FreeSlots(d) # {}

Recoverable(w, d) ==
  /\ WorkerOf[d] = w
  /\ dev[d] = "unhealthy" /\ why[d] \in Clearable
  /\ ~LiveLeaseOn(d)
  /\ FreeSlots(d) # {}

AutoRecover(w) ==
  /\ dev' = [d \in Device |-> IF Recoverable(w, d) THEN "ready" ELSE dev[d]]
  /\ why' = [d \in Device |-> IF Recoverable(w, d) THEN "none" ELSE why[d]]
  /\ recovered' = [d \in Device |->
       IF Recoverable(w, d)
       THEN [recovered[d] EXCEPT ![CHOOSE i \in FreeSlots(d) : TRUE] = 0]
       ELSE recovered[d]]
  /\ UNCHANGED <<jobVars, leaseVars, workerVars, killVars, holdOff>>
-----------------------------------------------------------------------------
(* Mutant: a heartbeat speaks for every job the store has down for w. *)
Named_Everything(w, R) == InFlight(w)

(* RecordHeartbeat from w, naming the jobs R it says it is supervising.       *)
Named(w, R) == R \cap InFlight(w)

(* A kill flag on a finished job is dropped once the worker omits the job.    *)
Acknowledged(w, R) ==
  {j \in killReq : Mine(w, j) /\ job[j] = "killed" /\ j \notin R}

(* The live leases that vouch for an unknown device being busy.               *)
Vouchers(w, R) == IF Retain THEN Named(w, R) ELSE Job

(* Mutant: a finalized kill needs no further care. *)
StillDying_Never(w, R, d) == FALSE

(* A finalized kill whose process the worker still supervises.                *)
StillDying(w, R, d) ==
  \E j \in killReq \ Acknowledged(w, R) :
     Mine(w, j) /\ job[j] = "killed" /\ placed[j] = d

(* A device written off with its worker, whose retained job the worker names. *)
Vindicated(w, R, d) ==
  /\ dev[d] = "unhealthy" /\ why[d] = "worker_lost"
  /\ \E j \in Named(w, R) : placed[j] = d

Heartened(w, R, d) ==
  LET unseen == dev[d] = "unknown" /\ WorkerOf[d] = w
  IN  IF \/ Vindicated(w, R, d)
         \/ unseen /\ \E j \in Vouchers(w, R) : leased[j] = d
      THEN "busy"
      ELSE IF unseen /\ ~LiveLeaseOn(d) /\ ~StillDying(w, R, d)
      THEN "ready" ELSE dev[d]

RecordHeartbeat(w, R) ==
  /\ w \in known
  /\ silence' = [silence EXCEPT ![w] = 0]
  /\ left' = [j \in Job |-> IF j \in Named(w, R) /\ leased[j] # None
                            THEN RenewWindow ELSE left[j]]
  /\ dev' = [d \in Device |-> Heartened(w, R, d)]
  /\ why' = [d \in Device |-> IF Vindicated(w, R, d) THEN "none" ELSE why[d]]
  /\ killReq' = killReq \ Acknowledged(w, R)
  /\ UNCHANGED <<jobVars, leased, known, boot, quiet, holdOff, recovered>>
-----------------------------------------------------------------------------
(* RequestKill: flag an active job for its worker, or, when disconnected jobs *)
(* are retained and the worker is out of sight, end it here and keep the flag *)
(* so the worker can still kill a surviving process.                          *)
OutOfSight(d) ==
  dev[d] = "unknown" \/ (dev[d] = "unhealthy" /\ why[d] = "worker_lost")

(* Mutant: the lease of a job finalized here is forgotten. *)
RequestKill_KeepsLease(j) ==
  /\ job[j] \in Active
  /\ job' = IF Retain /\ OutOfSight(placed[j])
            THEN [job EXCEPT ![j] = "killed"] ELSE job
  /\ killReq' = killReq \cup {j}
  /\ quiet' = [quiet EXCEPT ![j] = 0]
  /\ UNCHANGED <<placed, leaseVars, devVars, workerVars, holdOff, recovered>>

RequestKill(j) ==
  /\ job[j] \in Active
  /\ IF Retain /\ OutOfSight(placed[j])
     THEN /\ job' = [job EXCEPT ![j] = "killed"]
          /\ leased' = [leased EXCEPT ![j] = None]
     ELSE UNCHANGED <<job, leased>>
  /\ killReq' = killReq \cup {j}
  /\ quiet' = [quiet EXCEPT ![j] = 0]
  /\ UNCHANGED <<placed, left, devVars, workerVars, holdOff, recovered>>

(* TakeKillRequests: what is due for w, stamped so that it stays quiet for a  *)
(* while and is then offered again.                                           *)
DueKills(w) ==
  {j \in killReq : /\ Mine(w, j)
                   /\ job[j] \in Active \cup {"killed"}
                   /\ quiet[j] = 0}

(* Mutant: a kill is offered once. *)
TakeKillRequests_Once(w) ==
  /\ killReq' = killReq \ DueKills(w)
  /\ UNCHANGED <<jobVars, devVars, leaseVars, workerVars, quiet, holdOff,
                 recovered>>

TakeKillRequests(w) ==
  /\ quiet' = [j \in Job |-> IF j \in DueKills(w) THEN Redeliver ELSE quiet[j]]
  /\ UNCHANGED <<jobVars, devVars, leaseVars, workerVars, killReq, holdOff,
                 recovered>>
-----------------------------------------------------------------------------
(* Mutant: no startup window. *)
Judging_Always == TRUE

(* Sweep: one pass of the reaper, in one transaction.                         *)
Judging == holdOff = 0

WrittenOff(d) ==
  /\ Judging
  /\ dev[d] # "absent"
  /\ silence[WorkerOf[d]] >= UnhealthyAfter

OutOfTouch(d) ==
  /\ ~WrittenOff(d)
  /\ silence[WorkerOf[d]] >= Grace
  /\ dev[d] \in {"ready", "busy"}

(* The in-flight jobs of written-off devices; nobody's when jobs are retained. *)
SweptJobs ==
  {j \in Job : /\ ~Retain
               /\ job[j] \in Active
               /\ placed[j] # None /\ WrittenOff(placed[j])}

(* The leases past their deadline that the reap above left live.               *)
StaleLeases ==
  {j \in Job \ SweptJobs : /\ Judging
                           /\ leased[j] # None /\ left[j] = 0
                           /\ Retain => j \in Holds}

LapsedOn(d) == \E j \in StaleLeases : leased[j] = d

Sweep ==
  /\ dev' = [d \in Device |->
       IF WrittenOff(d) \/ LapsedOn(d) THEN "unhealthy"
       ELSE IF OutOfTouch(d) THEN "unknown" ELSE dev[d]]
  /\ why' = [d \in Device |->
       IF dev[d] = "unhealthy" THEN why[d]
       ELSE IF WrittenOff(d) THEN "worker_lost"
       ELSE IF LapsedOn(d) THEN "lease_expired"
       ELSE IF OutOfTouch(d) THEN "none" ELSE why[d]]
  /\ job' = [j \in Job |->
       IF j \in SweptJobs \/ (j \in StaleLeases /\ job[j] \in Active)
       THEN "lost" ELSE job[j]]
  /\ leased' = [j \in Job |->
       IF j \in SweptJobs \cup StaleLeases THEN None ELSE leased[j]]
  /\ UNCHANGED <<placed, left, workerVars, killVars, holdOff, recovered>>
-----------------------------------------------------------------------------
(* SetDeviceState, as handleDeviceFault calls it.                             *)
SetDeviceState(d) ==
  /\ dev[d] # "absent"
  /\ dev' = [dev EXCEPT ![d] = "unhealthy"]
  /\ why' = [why EXCEPT ![d] = "fault"]
  /\ UNCHANGED <<jobVars, leaseVars, workerVars, killVars, holdOff, recovered>>

(* ClearDevice: the operator vouches for the device, but cannot contradict    *)
(* the lease table.                                                           *)
ClearDevice(d) ==
  /\ dev[d] = "unhealthy"
  /\ ~LiveLeaseOn(d)
  /\ dev' = [dev EXCEPT ![d] = "ready"]
  /\ why' = [why EXCEPT ![d] = "none"]
  /\ UNCHANGED <<jobVars, leaseVars, workerVars, killVars, holdOff, recovered>>

(* RetireDevice: the row and its reason go; job history and the recovery      *)
(* history stay.                                                              *)
RetireDevice(d) ==
  /\ dev[d] # "absent"
  /\ ~LiveLeaseOn(d)
  /\ dev' = [dev EXCEPT ![d] = "absent"]
  /\ why' = [why EXCEPT ![d] = "none"]
  /\ UNCHANGED <<jobVars, leaseVars, workerVars, killVars, holdOff, recovered>>

(* rc serve starts again on the same database, and the reaper holds off.      *)
ControllerRestart ==
  /\ holdOff' = StartupGrace
  /\ UNCHANGED <<jobVars, devVars, leaseVars, workerVars, killVars, recovered>>

(* A unit of time passes. *)
Tick ==
  /\ silence' = [w \in Worker |-> Bump(silence[w], UnhealthyAfter)]
  /\ left' = [j \in Job |-> Drop(left[j])]
  /\ quiet' = [j \in Job |-> Drop(quiet[j])]
  /\ holdOff' = Drop(holdOff)
  /\ recovered' = [d \in Device |->
       [i \in Slot |-> Bump(recovered[d][i], Expired)]]
  /\ UNCHANGED <<jobVars, devVars, leased, known, boot, killReq>>

JobStep ==
  \E j \in Job :
     \/ Enqueue(j)
     \/ CancelQueued(j)
     \/ \E d \in Device, ttl \in LeaseTTL : AssignQueued(j, d, ttl)
     \/ MarkRunning(j)
     \/ \E outcome \in {"succeeded", "failed", "killed"} : Release(j, outcome)
     \/ RequestKill(j)

WorkerStep ==
  \E w \in Worker :
     \/ \E b \in BootId \cup {None}, D \in SUBSET {d \in Device : WorkerOf[d] = w} :
          UpsertWorker(w, b, D)
     \/ AutoRecover(w)
     \/ \E R \in SUBSET Job : RecordHeartbeat(w, R)
     \/ TakeKillRequests(w)

DeviceStep ==
  \E d \in Device : SetDeviceState(d) \/ ClearDevice(d) \/ RetireDevice(d)

Next == JobStep \/ WorkerStep \/ DeviceStep \/ Sweep \/ ControllerRestart \/ Tick

Spec == Init /\ [][Next]_vars
-----------------------------------------------------------------------------
(* Every column holds a value of its domain.                                  *)
TypeOK ==
  /\ dev \in [Device -> DeviceState \cup {"absent"}]
  /\ why \in [Device -> Reason]
  /\ job \in [Job -> JobState \cup {"absent"}]
  /\ placed \in [Job -> Device \cup {None}]
  /\ leased \in [Job -> Device \cup {None}]
  /\ left \in [Job -> Nat]
  /\ known \subseteq Worker
  /\ boot \in [Worker -> BootId \cup {None}]
  /\ silence \in [Worker -> 0..UnhealthyAfter]
  /\ killReq \subseteq Job
  /\ quiet \in [Job -> 0..Redeliver]
  /\ holdOff \in 0..StartupGrace
  /\ recovered \in [Device -> [Slot -> 0..Expired]]

(* A job has a live lease exactly while it is assigned or running, and the    *)
(* lease is on the device the job was placed on: no path that ends a job      *)
(* forgets its lease, and none that ends a lease forgets the job.             *)
LeaseFollowsJob ==
  \A j \in Job :
     /\ leased[j] # None <=> job[j] \in Active
     /\ leased[j] # None => leased[j] = placed[j]

(* A device in the pool is leased to nobody.  assignQueued relies on it: were *)
(* it false the unique index would reject the insert, and ScheduleOnce, which *)
(* returns on any unexpected error, would abort every pass at that job.       *)
ReadyIsFree == \A d \in Device : dev[d] = "ready" => ~LiveLeaseOn(d)

(* A busy device has a holder, so something will end its lease and free it: a *)
(* busy device without a lease could be neither cleared nor scheduled.        *)
BusyIsLeased == \A d \in Device : dev[d] = "busy" => LiveLeaseOn(d)

(* One live lease per device: the guarantee the README puts first.            *)
OneLeasePerDevice ==
  \A i, j \in Job : leased[i] # None /\ leased[i] = leased[j] => i = j

(* Only a quarantined device carries a quarantine reason.  A reason left over *)
(* on a healthy device would be inherited by its next quarantine, and could   *)
(* turn a fault into something a reboot clears.                               *)
ReasonIsCurrent == \A d \in Device : dev[d] # "unhealthy" => why[d] = "none"

(* Only a job that was once assigned has a device.                            *)
UnplacedUntilAssigned ==
  \A j \in Job : job[j] \in {"absent", "queued"} => placed[j] = None

(* The store's tables agree, after any sequence of transactions: live leases  *)
(* and jobs in progress match device for device, no device has two, a device  *)
(* in the pool has none, a busy one has one, and only a quarantined device    *)
(* carries a reason.  The parts are inductive together.                       *)
StoreInv ==
  /\ TypeOK
  /\ LeaseFollowsJob
  /\ ReadyIsFree
  /\ BusyIsLeased
  /\ OneLeasePerDevice
  /\ ReasonIsCurrent
  /\ UnplacedUntilAssigned

(* A finished job stays finished with the outcome it first got, whatever late *)
(* report, kill, sweep or registration reaches the store afterwards.          *)
OutcomeIsFinal ==
  [][\A j \in Job : job[j] \in Terminal => job'[j] = job[j]]_vars

(* A device quarantined for a fault, or for a cause nobody recorded, returns  *)
(* only by an operator's hand; no sweep, heartbeat, registration, reboot or   *)
(* proof revives it or relabels it as something a reboot would clear.         *)
FaultNeedsOperator ==
  [][\A d \in Device :
       dev[d] = "unhealthy" /\ why[d] \notin Clearable =>
         \/ dev'[d] = "unhealthy" /\ why'[d] \notin Clearable
         \/ ClearDevice(d)
         \/ RetireDevice(d)]_vars

(* Inside the startup window the reaper judges nobody: a job is lost only     *)
(* because its own worker registered, and no device is written off.           *)
WindowJudgesNobody ==
  [][holdOff > 0 =>
       /\ \A j \in Job : job[j] \in Active /\ job'[j] = "lost" =>
            silence'[WorkerOf[placed[j]]] = 0 /\ WorkerOf[placed[j]] \in known'
       /\ \A d \in Device : dev[d] # "unhealthy" =>
            ~(dev'[d] = "unhealthy" /\ why'[d] \in {"worker_lost", "lease_expired"})
    ]_vars

(* What the store promises its clients: devices are held exclusively.         *)
Lock == INSTANCE Exclusive WITH
  holder <- [d \in Device |-> IF LiveLeaseOn(d)
                              THEN CHOOSE j \in Job : leased[j] = d ELSE None],
  spent <- {j \in Job : placed[j] # None}

(* Store implements Exclusive: each transaction grants one free device to a   *)
(* job that never held one, lets some devices go, or changes no holder.       *)
HeldExclusively == Lock!Spec
=============================================================================
