---------------------------- MODULE StoreProofs ----------------------------
(* Proofs that Store keeps its invariants for every number of workers,       *)
(* devices and jobs, for both retention modes and for all time limits.       *)
EXTENDS Store, TLAPS

(* What the assumption says about the sets.                                  *)
LEMMA Constants ==
  /\ None \notin Device /\ None \notin Job
  /\ WorkerOf \in [Device -> Worker]
  /\ LeaseTTL \subseteq Nat
  BY StoreAssumption DEF StoreAssumption

USE Constants

(* What it says about the time limits.                                       *)
LEMMA Limits ==
  /\ UnhealthyAfter \in Nat /\ Redeliver \in Nat /\ StartupGrace \in Nat
  /\ RenewWindow \in Nat /\ RecoveryWindow \in Nat /\ RecoveryLimit \in Nat
  /\ Expired \in Nat
  BY StoreAssumption DEF StoreAssumption, Expired

(* The initial databases satisfy the invariant.                              *)
LEMMA InitInv == Init => StoreInv
  <1> SUFFICES ASSUME Init PROVE StoreInv
    OBVIOUS
  <1>1. TypeOK
    <2>1. dev \in [Device -> DeviceState \cup {"absent"}] /\ known \subseteq Worker
      BY DEF Init, DeviceState
    <2>2. /\ why \in [Device -> Reason]
          /\ job \in [Job -> JobState \cup {"absent"}]
          /\ placed \in [Job -> Device \cup {None}]
          /\ leased \in [Job -> Device \cup {None}]
          /\ killReq \subseteq Job
          /\ boot \in [Worker -> BootId \cup {None}]
      BY DEF Init, Reason
    <2>3. /\ left = [j \in Job |-> 0]
          /\ silence = [w \in Worker |-> UnhealthyAfter]
          /\ quiet = [j \in Job |-> 0]
          /\ holdOff = StartupGrace
          /\ recovered = [d \in Device |-> [i \in Slot |-> Expired]]
      BY DEF Init
    <2>4. /\ left \in [Job -> Nat]
          /\ silence \in [Worker -> 0..UnhealthyAfter]
          /\ quiet \in [Job -> 0..Redeliver]
          /\ holdOff \in 0..StartupGrace
          /\ recovered \in [Device -> [Slot -> 0..Expired]]
      BY <2>3, Limits
    <2>5. QED
      BY <2>1, <2>2, <2>3, <2>4 DEF TypeOK
  <1>2. QED
    BY <1>1 DEF Init, StoreInv, LeaseFollowsJob, ReadyIsFree, BusyIsLeased,
       OneLeasePerDevice, ReasonIsCurrent, UnplacedUntilAssigned,
       LiveLeaseOn, Active

(* A submission keeps it: a queued job has no device and no lease.           *)
LEMMA EnqueueInv ==
  ASSUME StoreInv, NEW j \in Job, Enqueue(j)
  PROVE  StoreInv'
  <1> USE DEF StoreInv, Enqueue, devVars, leaseVars, workerVars, killVars,
          LiveLeaseOn
  <1>1. TypeOK'
    BY DEF TypeOK, JobState, Active, Terminal
  <1>2. LeaseFollowsJob'
    BY DEF TypeOK, LeaseFollowsJob, Active
  <1>3. ReadyIsFree' /\ BusyIsLeased' /\ OneLeasePerDevice' /\ ReasonIsCurrent'
    BY DEF ReadyIsFree, BusyIsLeased, OneLeasePerDevice, ReasonIsCurrent
  <1>4. UnplacedUntilAssigned'
    BY DEF TypeOK, UnplacedUntilAssigned
  <1>5. QED
    BY <1>1, <1>2, <1>3, <1>4

(* So does the cancellation of a queued job.                                 *)
LEMMA CancelQueuedInv ==
  ASSUME StoreInv, NEW j \in Job, CancelQueued(j)
  PROVE  StoreInv'
  <1> USE DEF StoreInv, CancelQueued, devVars, leaseVars, workerVars, killVars,
          LiveLeaseOn
  <1>1. TypeOK'
    BY DEF TypeOK, JobState, Active, Terminal
  <1>2. LeaseFollowsJob'
    BY DEF TypeOK, LeaseFollowsJob, Active
  <1>3. ReadyIsFree' /\ BusyIsLeased' /\ OneLeasePerDevice' /\ ReasonIsCurrent'
    BY DEF ReadyIsFree, BusyIsLeased, OneLeasePerDevice, ReasonIsCurrent
  <1>4. UnplacedUntilAssigned'
    BY DEF TypeOK, UnplacedUntilAssigned
  <1>5. QED
    BY <1>1, <1>2, <1>3, <1>4

(* So does handing out a job: an assigned job becomes a running one.         *)
LEMMA MarkRunningInv ==
  ASSUME StoreInv, NEW j \in Job, MarkRunning(j)
  PROVE  StoreInv'
  <1> USE DEF StoreInv, MarkRunning, devVars, leaseVars, workerVars, killVars,
          LiveLeaseOn
  <1>1. TypeOK'
    BY DEF TypeOK, JobState, Active, Terminal
  <1>2. LeaseFollowsJob'
    BY DEF TypeOK, LeaseFollowsJob, Active
  <1>3. ReadyIsFree' /\ BusyIsLeased' /\ OneLeasePerDevice' /\ ReasonIsCurrent'
    BY DEF ReadyIsFree, BusyIsLeased, OneLeasePerDevice, ReasonIsCurrent
  <1>4. UnplacedUntilAssigned'
    BY DEF TypeOK, UnplacedUntilAssigned
  <1>5. QED
    BY <1>1, <1>2, <1>3, <1>4

(* So does an assignment: a ready device has no live lease.                  *)
LEMMA AssignQueuedInv ==
  ASSUME StoreInv, NEW j \in Job, NEW d \in Device, NEW ttl \in LeaseTTL,
         AssignQueued(j, d, ttl)
  PROVE  StoreInv'
  <1> USE DEF StoreInv, AssignQueued, workerVars, killVars, IndexAllows,
          LiveLeaseOn
  <1>1. TypeOK'
    BY DEF TypeOK, DeviceState, JobState, Active
  <1>2. LeaseFollowsJob'
    BY DEF TypeOK, LeaseFollowsJob, Active
  <1>3. ReadyIsFree'
    BY DEF TypeOK, ReadyIsFree
  <1>7. BusyIsLeased'
    BY DEF TypeOK, BusyIsLeased, LeaseFollowsJob, Active
  <1>4. OneLeasePerDevice'
    BY DEF TypeOK, OneLeasePerDevice
  <1>5. ReasonIsCurrent' /\ UnplacedUntilAssigned'
    BY DEF TypeOK, ReasonIsCurrent, UnplacedUntilAssigned
  <1>6. QED
    BY <1>1, <1>2, <1>3, <1>4, <1>5, <1>7

(* So does a terminal report: the lease it ends is the only one on its device. *)
LEMMA ReleaseInv ==
  ASSUME StoreInv, NEW j \in Job,
         NEW outcome \in {"succeeded", "failed", "killed"},
         Release(j, outcome)
  PROVE  StoreInv'
  <1> USE DEF StoreInv, Release, workerVars, killVars, LiveLeaseOn
  <1>1. TypeOK'
    BY DEF TypeOK, DeviceState, JobState, Terminal
  <1>2. LeaseFollowsJob'
    BY DEF TypeOK, LeaseFollowsJob, Active
  <1>3. ReadyIsFree'
    BY DEF TypeOK, ReadyIsFree, LeaseFollowsJob, OneLeasePerDevice
  <1>4. BusyIsLeased'
    BY DEF TypeOK, BusyIsLeased, LeaseFollowsJob
  <1>5. OneLeasePerDevice'
    BY DEF TypeOK, OneLeasePerDevice
  <1>6. ReasonIsCurrent' /\ UnplacedUntilAssigned'
    BY DEF TypeOK, ReasonIsCurrent, UnplacedUntilAssigned, Active
  <1>7. QED
    BY <1>1, <1>2, <1>3, <1>4, <1>5, <1>6

(* What a registration makes of one device. *)
LEMMA RegisteredDevice ==
  ASSUME StoreInv, NEW w \in Worker, NEW b,
         NEW D \in SUBSET {d \in Device : WorkerOf[d] = w},
         NEW d \in Device
  PROVE  /\ Registered(w, b, D, d).state \in DeviceState \cup {"absent"}
         /\ Registered(w, b, D, d).reason \in Reason
         /\ Registered(w, b, D, d).state # "unhealthy"
              => Registered(w, b, D, d).reason = "none"
         /\ Registered(w, b, D, d).state = "ready"
              => \A j \in Job : leased[j] = d => j \in InFlight(w)
         /\ Registered(w, b, D, d).state = "busy"
              => \E j \in Job : leased[j] = d /\ j \notin InFlight(w)
  <1> DEFINE hit == \E j \in InFlight(w) : placed[j] = d
  <1>1. /\ dev[d] \in DeviceState \cup {"absent"}
        /\ why[d] \in Reason
        /\ dev[d] # "unhealthy" => why[d] = "none"
    BY DEF StoreInv, TypeOK, ReasonIsCurrent
  <1>2. \A j \in Job : leased[j] = d => placed[j] = d /\ job[j] \in Active
    BY DEF StoreInv, LeaseFollowsJob
  <1>3. WorkerOf[d] = w => \A j \in Job : leased[j] = d => j \in InFlight(w)
    BY <1>2 DEF InFlight, Mine
  <1>4. hit => WorkerOf[d] = w
    BY DEF InFlight, Mine
  <1>5. dev[d] = "ready" => \A j \in Job : leased[j] # d
    BY DEF StoreInv, ReadyIsFree, LiveLeaseOn
  <1>6. dev[d] = "busy" => \E j \in Job : leased[j] = d
    BY DEF StoreInv, BusyIsLeased, LiveLeaseOn
  <1>7. (dev[d] = "busy" /\ ~hit) =>
          \E j \in Job : leased[j] = d /\ j \notin InFlight(w)
    BY <1>2, <1>6
  <1>8. \/ Reaped(w, b, d) = Row(d) /\ (~hit \/ dev[d] \notin {"busy", "unknown"})
        \/ hit /\ Reaped(w, b, d) = InService
        \/ Reaped(w, b, d) = Quarantined("registration")
    BY DEF Reaped
  <1>9. \/ Restored(w, b, d) = Reaped(w, b, d)
        \/ WorkerOf[d] = w /\ Restored(w, b, d) = InService
    BY DEF Restored
  <1>10. \/ Registered(w, b, D, d) = Restored(w, b, d)
         \/ WorkerOf[d] = w /\ Registered(w, b, D, d) = InService
    BY DEF Registered
  <1>11. \/ /\ Registered(w, b, D, d) = Row(d)
            /\ ~hit \/ dev[d] \notin {"busy", "unknown"}
         \/ WorkerOf[d] = w /\ Registered(w, b, D, d) = InService
         \/ Registered(w, b, D, d) = Quarantined("registration")
    BY <1>4, <1>8, <1>9, <1>10
  <1>12. /\ Row(d).state = dev[d] /\ Row(d).reason = why[d]
         /\ InService.state = "ready" /\ InService.reason = "none"
         /\ Quarantined("registration").state = "unhealthy"
         /\ Quarantined("registration").reason = "registration"
    BY DEF Row, InService, Quarantined
  <1>13. CASE /\ Registered(w, b, D, d) = Row(d)
              /\ ~hit \/ dev[d] \notin {"busy", "unknown"}
    BY <1>1, <1>5, <1>7, <1>12, <1>13
  <1>14. CASE WorkerOf[d] = w /\ Registered(w, b, D, d) = InService
    BY <1>3, <1>12, <1>14 DEF DeviceState, Reason
  <1>15. CASE Registered(w, b, D, d) = Quarantined("registration")
    BY <1>12, <1>15 DEF DeviceState, Reason, Clearable
  <1>16. QED
    BY <1>11, <1>13, <1>14, <1>15

(* So does a registration, device by device.                                 *)
LEMMA UpsertWorkerInv ==
  ASSUME StoreInv, NEW w \in Worker, NEW b \in BootId \cup {None},
         NEW D \in SUBSET {d \in Device : WorkerOf[d] = w},
         UpsertWorker(w, b, D)
  PROVE  StoreInv'
  <1>0. \A d \in Device : Registered(w, b, D, d).state # "unhealthy"
                           => Registered(w, b, D, d).reason = "none"
    BY RegisteredDevice
  <1> USE DEF StoreInv, UpsertWorker, killVars, LiveLeaseOn
  <1>1. \A j \in InFlight(w) : j \in Job /\ job[j] \in Active
    BY DEF InFlight
  <1>2. TypeOK'
    <2>1. /\ dev' \in [Device -> DeviceState \cup {"absent"}]
          /\ why' \in [Device -> Reason]
      BY RegisteredDevice
    <2>2. job' \in [Job -> JobState \cup {"absent"}]
      BY DEF TypeOK, JobState, Terminal
    <2>3. leased' \in [Job -> Device \cup {None}]
      BY DEF TypeOK
    <2>4. known' \subseteq Worker /\ boot' \in [Worker -> BootId \cup {None}]
      BY DEF TypeOK
    <2>5. silence' \in [Worker -> 0..UnhealthyAfter]
      BY Limits DEF TypeOK
    <2>6. QED
      BY <2>1, <2>2, <2>3, <2>4, <2>5 DEF TypeOK
  <1>3. LeaseFollowsJob'
    BY <1>1 DEF TypeOK, LeaseFollowsJob, Active
  <1>4. ReadyIsFree'
    <2>1. SUFFICES ASSUME NEW d \in Device, dev'[d] = "ready", NEW j \in Job
                   PROVE  leased'[j] # d
      BY DEF ReadyIsFree
    <2>2. leased[j] = d => j \in InFlight(w)
      BY <2>1, RegisteredDevice
    <2>3. QED
      BY <2>2
  <1>5. BusyIsLeased'
    BY RegisteredDevice DEF BusyIsLeased, TypeOK
  <1>6. OneLeasePerDevice'
    BY DEF OneLeasePerDevice, TypeOK
  <1>7. ReasonIsCurrent'
    <2>1. SUFFICES ASSUME NEW d \in Device, dev'[d] # "unhealthy"
                   PROVE  why'[d] = "none"
      BY DEF ReasonIsCurrent
    <2>2. Registered(w, b, D, d).state # "unhealthy"
      BY <2>1
    <2>3. Registered(w, b, D, d).reason = "none"
      BY <1>0, <2>2
    <2>4. QED
      BY <2>3
  <1>8. UnplacedUntilAssigned'
    BY DEF UnplacedUntilAssigned, TypeOK
  <1>9. QED
    BY <1>2, <1>3, <1>4, <1>5, <1>6, <1>7, <1>8

(* So does a recovery: a device with a live lease is not recoverable.        *)
LEMMA AutoRecoverInv ==
  ASSUME StoreInv, NEW w \in Worker, AutoRecover(w)
  PROVE  StoreInv'
  <1> USE DEF StoreInv, jobVars, leaseVars, workerVars, killVars, LiveLeaseOn
  <1>1. TypeOK'
    <2>1. /\ dev' \in [Device -> DeviceState \cup {"absent"}]
          /\ why' \in [Device -> Reason]
      BY DEF AutoRecover, TypeOK, DeviceState, Reason
    <2>2. ASSUME NEW d \in Device, NEW i
          PROVE  [recovered[d] EXCEPT ![i] = 0] \in [Slot -> 0..Expired]
      <3>1. recovered[d] \in [Slot -> 0..Expired]
        BY DEF TypeOK
      <3>2. 0 \in 0..Expired
        BY Limits
      <3>3. QED
        BY <3>1, <3>2
    <2>3. recovered' \in [Device -> [Slot -> 0..Expired]]
      BY <2>2 DEF AutoRecover, TypeOK
    <2>4. QED
      BY <2>1, <2>3 DEF AutoRecover, TypeOK
  <1>2. LeaseFollowsJob' /\ OneLeasePerDevice' /\ UnplacedUntilAssigned'
    BY DEF AutoRecover, LeaseFollowsJob, OneLeasePerDevice, UnplacedUntilAssigned
  <1>3. ReadyIsFree' /\ BusyIsLeased'
    BY DEF AutoRecover, ReadyIsFree, BusyIsLeased, Recoverable, TypeOK
  <1>4. ReasonIsCurrent'
    BY DEF AutoRecover, ReasonIsCurrent, Recoverable, TypeOK
  <1>5. QED
    BY <1>1, <1>2, <1>3, <1>4

(* What a heartbeat makes of one device. *)
LEMMA HeartenedDevice ==
  ASSUME StoreInv, NEW w \in Worker, NEW R \in SUBSET Job, NEW d \in Device
  PROVE  /\ Heartened(w, R, d) \in DeviceState \cup {"absent"}
         /\ Heartened(w, R, d) = "ready" => ~LiveLeaseOn(d)
         /\ Heartened(w, R, d) = "busy" => LiveLeaseOn(d)
         /\ Heartened(w, R, d) # "unhealthy" =>
              why[d] = "none" \/ Vindicated(w, R, d)
  <1>1. dev[d] \in DeviceState \cup {"absent"}
    BY DEF StoreInv, TypeOK
  <1>2. dev[d] = "ready" => ~LiveLeaseOn(d)
    BY DEF StoreInv, ReadyIsFree
  <1>3. dev[d] = "busy" => LiveLeaseOn(d)
    BY DEF StoreInv, BusyIsLeased
  <1>4. dev[d] # "unhealthy" => why[d] = "none"
    BY DEF StoreInv, ReasonIsCurrent
  <1>5. Vindicated(w, R, d) => LiveLeaseOn(d)
    BY DEF StoreInv, TypeOK, LeaseFollowsJob, Vindicated, Named, InFlight,
           LiveLeaseOn
  <1>6. Vouchers(w, R) \subseteq Job
    BY DEF Vouchers, Named
  <1>7. (\E j \in Vouchers(w, R) : leased[j] = d) => LiveLeaseOn(d)
    BY <1>6 DEF LiveLeaseOn
  <1>8. CASE Vindicated(w, R, d)
    BY <1>5, <1>8 DEF Heartened, DeviceState
  <1>9. CASE ~Vindicated(w, R, d)
    BY <1>1, <1>2, <1>3, <1>4, <1>7, <1>9 DEF Heartened, DeviceState
  <1>10. QED
    BY <1>8, <1>9

(* So does a heartbeat, device by device.                                    *)
LEMMA RecordHeartbeatInv ==
  ASSUME StoreInv, NEW w \in Worker, NEW R \in SUBSET Job,
         RecordHeartbeat(w, R)
  PROVE  StoreInv'
  <1>0. \A d \in Device :
          /\ Heartened(w, R, d) \in DeviceState \cup {"absent"}
          /\ Heartened(w, R, d) = "ready" => ~LiveLeaseOn(d)
          /\ Heartened(w, R, d) = "busy" => LiveLeaseOn(d)
          /\ Heartened(w, R, d) # "unhealthy" =>
               why[d] = "none" \/ Vindicated(w, R, d)
    BY HeartenedDevice
  <1> USE DEF StoreInv, RecordHeartbeat, jobVars, LiveLeaseOn
  <1>1. TypeOK'
    <2>1. dev' \in [Device -> DeviceState \cup {"absent"}]
      BY <1>0
    <2>2. why' \in [Device -> Reason]
      BY DEF TypeOK, Reason
    <2>3. left' \in [Job -> Nat]
      BY Limits DEF TypeOK
    <2>4. silence' \in [Worker -> 0..UnhealthyAfter]
      BY Limits DEF TypeOK
    <2>5. killReq' \subseteq Job
      BY DEF TypeOK
    <2>6. QED
      BY <2>1, <2>2, <2>3, <2>4, <2>5 DEF TypeOK
  <1>2. LeaseFollowsJob' /\ OneLeasePerDevice' /\ UnplacedUntilAssigned'
    BY DEF LeaseFollowsJob, OneLeasePerDevice, UnplacedUntilAssigned
  <1>3. ReadyIsFree' /\ BusyIsLeased'
    BY <1>0 DEF ReadyIsFree, BusyIsLeased
  <1>4. ReasonIsCurrent'
    BY <1>0 DEF ReasonIsCurrent
  <1>5. QED
    BY <1>1, <1>2, <1>3, <1>4

(* So does a kill, finalized or only noted.                                  *)
LEMMA RequestKillInv ==
  ASSUME StoreInv, NEW j \in Job, RequestKill(j)
  PROVE  StoreInv'
  <1> USE DEF StoreInv, RequestKill, devVars, workerVars, LiveLeaseOn
  <1>1. TypeOK'
    <2>1. /\ job' \in [Job -> JobState \cup {"absent"}]
          /\ leased' \in [Job -> Device \cup {None}]
          /\ killReq' \subseteq Job
      BY DEF TypeOK, JobState, Terminal
    <2>2. quiet' \in [Job -> 0..Redeliver]
      BY Limits DEF TypeOK
    <2>3. QED
      BY <2>1, <2>2 DEF TypeOK
  <1>2. LeaseFollowsJob'
    BY DEF TypeOK, LeaseFollowsJob, Active
  <1>3. ReadyIsFree' /\ OneLeasePerDevice' /\ ReasonIsCurrent'
    BY DEF TypeOK, ReadyIsFree, OneLeasePerDevice, ReasonIsCurrent
  <1>4. BusyIsLeased'
    BY DEF TypeOK, BusyIsLeased, OutOfSight, LeaseFollowsJob
  <1>5. UnplacedUntilAssigned'
    BY DEF TypeOK, UnplacedUntilAssigned
  <1>6. QED
    BY <1>1, <1>2, <1>3, <1>4, <1>5

(* So does handing out the kills.                                            *)
LEMMA TakeKillRequestsInv ==
  ASSUME StoreInv, NEW w \in Worker, TakeKillRequests(w)
  PROVE  StoreInv'
  <1> USE DEF StoreInv, TakeKillRequests, jobVars, devVars, leaseVars,
          workerVars, LiveLeaseOn
  <1>1. quiet' \in [Job -> 0..Redeliver]
    BY Limits DEF TypeOK
  <1>2. QED
    BY <1>1 DEF TypeOK, LeaseFollowsJob, ReadyIsFree, BusyIsLeased,
       OneLeasePerDevice, ReasonIsCurrent, UnplacedUntilAssigned

(* A sweep ends the leases it judges only together with quarantining their    *)
(* devices, so a device that is still busy keeps its lease.                   *)
LEMMA SweepInv ==
  ASSUME StoreInv, Sweep
  PROVE  StoreInv'
  <1>1. \A j \in SweptJobs : /\ j \in Job /\ job[j] \in Active
                             /\ placed[j] \in Device /\ WrittenOff(placed[j])
    BY DEF SweptJobs, StoreInv, TypeOK
  <1>2. \A j \in StaleLeases : /\ j \in Job /\ job[j] \in Active
                               /\ leased[j] \in Device /\ LapsedOn(leased[j])
    BY DEF StaleLeases, LapsedOn, StoreInv, TypeOK, LeaseFollowsJob
  <1>3. \A j \in SweptJobs : leased[j] = placed[j]
    BY <1>1 DEF StoreInv, LeaseFollowsJob
  <1> USE DEF StoreInv, Sweep, workerVars, killVars, LiveLeaseOn
  <1>4. TypeOK'
    <2>1. /\ dev' \in [Device -> DeviceState \cup {"absent"}]
          /\ why' \in [Device -> Reason]
      BY DEF TypeOK, DeviceState, Reason, Clearable
    <2>2. /\ job' \in [Job -> JobState \cup {"absent"}]
          /\ leased' \in [Job -> Device \cup {None}]
      BY DEF TypeOK, JobState, Terminal
    <2>3. QED
      BY <2>1, <2>2 DEF TypeOK
  <1>5. LeaseFollowsJob'
    BY <1>1, <1>2 DEF TypeOK, LeaseFollowsJob, Active
  <1>6. ReadyIsFree'
    <2>1. SUFFICES ASSUME NEW d \in Device, dev'[d] = "ready", NEW j \in Job
                   PROVE  leased'[j] # d
      BY DEF ReadyIsFree
    <2>2. dev[d] = "ready"
      BY <2>1
    <2>3. QED
      BY <2>2 DEF ReadyIsFree
  <1>7. BusyIsLeased'
    <2>1. SUFFICES ASSUME NEW d \in Device, dev'[d] = "busy"
                   PROVE  \E j \in Job : leased'[j] = d
      BY DEF BusyIsLeased
    <2>2. dev[d] = "busy" /\ ~WrittenOff(d) /\ ~LapsedOn(d)
      BY <2>1
    <2>3. PICK j \in Job : leased[j] = d
      BY <2>2 DEF BusyIsLeased
    <2>4. j \notin SweptJobs /\ j \notin StaleLeases
      BY <1>1, <1>2, <1>3, <2>2, <2>3
    <2>5. QED
      BY <2>3, <2>4
  <1>8. OneLeasePerDevice'
    BY DEF TypeOK, OneLeasePerDevice
  <1>9. ReasonIsCurrent'
    BY DEF TypeOK, ReasonIsCurrent, OutOfTouch
  <1>10. UnplacedUntilAssigned'
    BY DEF TypeOK, UnplacedUntilAssigned
  <1>11. QED
    BY <1>4, <1>5, <1>6, <1>7, <1>8, <1>9, <1>10

(* So does a fault report.                                                   *)
LEMMA SetDeviceStateInv ==
  ASSUME StoreInv, NEW d \in Device, SetDeviceState(d)
  PROVE  StoreInv'
  <1> USE DEF StoreInv, SetDeviceState, jobVars, leaseVars, workerVars, killVars,
          LiveLeaseOn
  <1>1. TypeOK'
    BY DEF TypeOK, DeviceState, Reason
  <1>2. LeaseFollowsJob' /\ OneLeasePerDevice' /\ UnplacedUntilAssigned'
    BY DEF LeaseFollowsJob, OneLeasePerDevice, UnplacedUntilAssigned
  <1>3. ReadyIsFree' /\ BusyIsLeased'
    BY DEF TypeOK, ReadyIsFree, BusyIsLeased
  <1>4. ReasonIsCurrent'
    BY DEF TypeOK, ReasonIsCurrent
  <1>5. QED
    BY <1>1, <1>2, <1>3, <1>4

(* So does clearing a device, which needs that it has no live lease.         *)
LEMMA ClearDeviceInv ==
  ASSUME StoreInv, NEW d \in Device, ClearDevice(d)
  PROVE  StoreInv'
  <1> USE DEF StoreInv, ClearDevice, jobVars, leaseVars, workerVars, killVars,
          LiveLeaseOn
  <1>1. TypeOK'
    BY DEF TypeOK, DeviceState, Reason
  <1>2. LeaseFollowsJob' /\ OneLeasePerDevice' /\ UnplacedUntilAssigned'
    BY DEF LeaseFollowsJob, OneLeasePerDevice, UnplacedUntilAssigned
  <1>3. ReadyIsFree' /\ BusyIsLeased'
    BY DEF TypeOK, ReadyIsFree, BusyIsLeased
  <1>4. ReasonIsCurrent'
    BY DEF TypeOK, ReasonIsCurrent
  <1>5. QED
    BY <1>1, <1>2, <1>3, <1>4

(* So does retiring one.                                                     *)
LEMMA RetireDeviceInv ==
  ASSUME StoreInv, NEW d \in Device, RetireDevice(d)
  PROVE  StoreInv'
  <1> USE DEF StoreInv, RetireDevice, jobVars, leaseVars, workerVars, killVars,
          LiveLeaseOn
  <1>1. TypeOK'
    BY DEF TypeOK, DeviceState, Reason
  <1>2. LeaseFollowsJob' /\ OneLeasePerDevice' /\ UnplacedUntilAssigned'
    BY DEF LeaseFollowsJob, OneLeasePerDevice, UnplacedUntilAssigned
  <1>3. ReadyIsFree' /\ BusyIsLeased'
    BY DEF TypeOK, ReadyIsFree, BusyIsLeased
  <1>4. ReasonIsCurrent'
    BY DEF TypeOK, ReasonIsCurrent
  <1>5. QED
    BY <1>1, <1>2, <1>3, <1>4

(* So does a restart of the controller.                                      *)
LEMMA ControllerRestartInv ==
  ASSUME StoreInv, ControllerRestart
  PROVE  StoreInv'
  <1> USE DEF StoreInv, ControllerRestart, jobVars, devVars, leaseVars,
          workerVars, killVars, LiveLeaseOn
  <1>1. holdOff' \in 0..StartupGrace
    BY Limits
  <1>2. QED
    BY <1>1 DEF TypeOK, LeaseFollowsJob, ReadyIsFree, BusyIsLeased,
       OneLeasePerDevice, ReasonIsCurrent, UnplacedUntilAssigned

(* The saturating counters stay in range. *)
LEMMA Saturating ==
  /\ \A limit \in Nat : \A n \in 0..limit :
       Bump(n, limit) \in 0..limit /\ Drop(n) \in 0..limit
  /\ \A n \in Nat : Drop(n) \in Nat
  BY DEF Bump, Drop

(* So does the passing of time.                                              *)
LEMMA TickInv ==
  ASSUME StoreInv, Tick
  PROVE  StoreInv'
  <1> USE DEF StoreInv, jobVars, devVars, LiveLeaseOn
  <1>1. /\ silence' \in [Worker -> 0..UnhealthyAfter]
        /\ left' \in [Job -> Nat]
        /\ quiet' \in [Job -> 0..Redeliver]
        /\ holdOff' \in 0..StartupGrace
    BY Limits, Saturating DEF Tick, TypeOK
  <1>2. recovered' \in [Device -> [Slot -> 0..Expired]]
    <2>1. \A d \in Device, i \in Slot :
            Bump(recovered[d][i], Expired) \in 0..Expired
      BY Limits, Saturating DEF TypeOK
    <2>2. QED
      BY <2>1 DEF Tick
  <1>3. TypeOK'
    BY <1>1, <1>2 DEF Tick, TypeOK
  <1>4. QED
    BY <1>3 DEF Tick, LeaseFollowsJob, ReadyIsFree, BusyIsLeased,
       OneLeasePerDevice, ReasonIsCurrent, UnplacedUntilAssigned

(* So does a step that changes nothing.                                      *)
LEMMA StutterInv == StoreInv /\ UNCHANGED vars => StoreInv'
  BY DEF StoreInv, TypeOK, LeaseFollowsJob, ReadyIsFree, BusyIsLeased,
     OneLeasePerDevice, ReasonIsCurrent, UnplacedUntilAssigned, LiveLeaseOn,
     vars

(* Each transaction, and so each step, preserves the invariant. *)
LEMMA NextInv == StoreInv /\ [Next]_vars => StoreInv'
  <1> SUFFICES ASSUME StoreInv, [Next]_vars PROVE StoreInv'
    OBVIOUS
  <1>1. CASE JobStep
    BY <1>1, EnqueueInv, CancelQueuedInv, AssignQueuedInv, MarkRunningInv,
       ReleaseInv, RequestKillInv DEF JobStep
  <1>2. CASE WorkerStep
    BY <1>2, UpsertWorkerInv, AutoRecoverInv, RecordHeartbeatInv,
       TakeKillRequestsInv DEF WorkerStep
  <1>3. CASE DeviceStep
    BY <1>3, SetDeviceStateInv, ClearDeviceInv, RetireDeviceInv DEF DeviceStep
  <1>4. CASE Sweep
    BY <1>4, SweepInv
  <1>5. CASE ControllerRestart
    BY <1>5, ControllerRestartInv
  <1>6. CASE Tick
    BY <1>6, TickInv
  <1>7. CASE UNCHANGED vars
    BY <1>7, StutterInv
  <1>8. QED
    BY <1>1, <1>2, <1>3, <1>4, <1>5, <1>6, <1>7 DEF Next

(* However callers order the store's transactions and whatever workers claim, *)
(* the rows of devices, jobs and leases agree with one another.               *)
THEOREM Consistent == Spec => []StoreInv
  <1>1. Init => StoreInv
    BY InitInv
  <1>2. StoreInv /\ [Next]_vars => StoreInv'
    BY NextInv
  <1>3. QED
    BY <1>1, <1>2, PTL DEF Spec

(* Every column keeps its type. *)
THEOREM TypeCorrect == Spec => []TypeOK
  <1>1. StoreInv => TypeOK
    BY DEF StoreInv
  <1>2. QED
    BY <1>1, Consistent, PTL

(* No device ever has two live leases: "one live lease per device", for any   *)
(* fleet and any retention mode.                                              *)
THEOREM Exclusivity == Spec => []OneLeasePerDevice
  <1>1. StoreInv => OneLeasePerDevice
    BY DEF StoreInv
  <1>2. QED
    BY <1>1, Consistent, PTL

(* No device is in the pool while it is leased (Release, ClearDevice, the     *)
(* recovery statements).                                                      *)
THEOREM PoolIsFree == Spec => []ReadyIsFree
  <1>1. StoreInv => ReadyIsFree
    BY DEF StoreInv
  <1>2. QED
    BY <1>1, Consistent, PTL

(* No device is busy without a lease that will end (AssignQueued, Sweep).     *)
THEOREM BusyHasLease == Spec => []BusyIsLeased
  <1>1. StoreInv => BusyIsLeased
    BY DEF StoreInv
  <1>2. QED
    BY <1>1, Consistent, PTL

(* A live lease belongs to a job that is still going, and a job that holds a  *)
(* device has one.                                                            *)
THEOREM LeaseMatchesJob == Spec => []LeaseFollowsJob
  <1>1. StoreInv => LeaseFollowsJob
    BY DEF StoreInv
  <1>2. QED
    BY <1>1, Consistent, PTL

(* The reason an operator reads of a device is that of its present state      *)
(* (health_reason).                                                           *)
THEOREM ReasonMatchesState == Spec => []ReasonIsCurrent
  <1>1. StoreInv => ReasonIsCurrent
    BY DEF StoreInv
  <1>2. QED
    BY <1>1, Consistent, PTL
-----------------------------------------------------------------------------
(* The outcome a job first got is the one it keeps: every transaction that    *)
(* writes jobs.state first finds the job in another, unfinished, state.       *)
THEOREM OutcomeStands == Spec => OutcomeIsFinal
  <1> DEFINE Keeps == \A j \in Job : job[j] \in Terminal => job'[j] = job[j]
  <1>1. ASSUME StoreInv, [Next]_vars PROVE Keeps
    <2> SUFFICES ASSUME NEW i \in Job, job[i] \in Terminal PROVE job'[i] = job[i]
      OBVIOUS
    <2>1. /\ job \in [Job -> JobState \cup {"absent"}]
          /\ job[i] \notin Active \cup {"absent", "queued"}
      BY <1>1 DEF StoreInv, TypeOK, Terminal, Active
    <2>2. ASSUME NEW j \in Job, \/ Enqueue(j) \/ CancelQueued(j)
                                \/ MarkRunning(j) \/ RequestKill(j)
          PROVE  job'[i] = job[i]
      BY <2>1, <2>2 DEF Enqueue, CancelQueued, MarkRunning, RequestKill, Active
    <2>3. ASSUME NEW j \in Job, NEW d \in Device, NEW ttl, AssignQueued(j, d, ttl)
          PROVE  job'[i] = job[i]
      BY <2>1, <2>3 DEF AssignQueued
    <2>4. ASSUME NEW j \in Job, NEW outcome, Release(j, outcome)
          PROVE  job'[i] = job[i]
      BY <2>1, <2>4 DEF Release
    <2>5. CASE JobStep
      BY <2>2, <2>3, <2>4, <2>5 DEF JobStep
    <2>6. ASSUME NEW w \in Worker, NEW b, NEW D, UpsertWorker(w, b, D)
          PROVE  job'[i] = job[i]
      BY <2>1, <2>6 DEF UpsertWorker, InFlight
    <2>7. CASE WorkerStep
      BY <2>6, <2>7 DEF WorkerStep, AutoRecover, RecordHeartbeat,
         TakeKillRequests, jobVars
    <2>8. CASE Sweep
      BY <2>1, <2>8 DEF Sweep, SweptJobs
    <2>9. CASE DeviceStep \/ ControllerRestart \/ Tick \/ UNCHANGED vars
      BY <2>9 DEF DeviceStep, SetDeviceState, ClearDevice, RetireDevice,
         ControllerRestart, Tick, jobVars, vars
    <2>10. QED
      BY <1>1, <2>5, <2>7, <2>8, <2>9 DEF Next
  <1>2. QED
    BY <1>1, Consistent, PTL DEF Spec, OutcomeIsFinal

(* A quarantine that only an operator can answer: for a fault, or of a cause  *)
(* that was not recorded.                                                     *)
Held(d) == dev[d] = "unhealthy" /\ why[d] \notin Clearable

(* No job, worker, fault report, reaper or restart ends it.                   *)
LEMMA HeldStays ==
  ASSUME StoreInv, NEW d \in Device, Held(d),
         \/ JobStep \/ WorkerStep \/ \E e \in Device : SetDeviceState(e)
         \/ Sweep \/ ControllerRestart \/ Tick \/ UNCHANGED vars
  PROVE  Held(d)'
  <1> USE DEF Held
  <1>1. dev \in [Device -> DeviceState \cup {"absent"}] /\ why \in [Device -> Reason]
    BY DEF StoreInv, TypeOK
  <1>2. CASE JobStep
    BY <1>1, <1>2 DEF JobStep, Enqueue, CancelQueued, AssignQueued,
       MarkRunning, Release, RequestKill, devVars
  <1>3. ASSUME NEW w \in Worker, NEW b, NEW D, UpsertWorker(w, b, D)
        PROVE  Held(d)'
    <2>1. Row(d).state = "unhealthy" /\ Row(d).reason \notin Clearable
      BY DEF Row
    <2>2. Reaped(w, b, d) = Row(d)
      BY DEF Reaped
    <2>3. Restored(w, b, d) = Row(d)
      BY <2>1, <2>2 DEF Restored
    <2>4. Registered(w, b, D, d) = Row(d)
      BY <2>1, <2>3 DEF Registered
    <2>5. QED
      BY <1>3, <2>1, <2>4 DEF UpsertWorker
  <1>4. ASSUME NEW w \in Worker, AutoRecover(w) PROVE Held(d)'
    BY <1>4 DEF AutoRecover, Recoverable
  <1>5. ASSUME NEW w \in Worker, NEW R, RecordHeartbeat(w, R) PROVE Held(d)'
    BY <1>5 DEF RecordHeartbeat, Heartened, Vindicated, Clearable
  <1>6. CASE WorkerStep
    BY <1>3, <1>4, <1>5, <1>6 DEF WorkerStep, TakeKillRequests, devVars
  <1>7. ASSUME NEW e \in Device, SetDeviceState(e) PROVE Held(d)'
    BY <1>1, <1>7 DEF SetDeviceState, Clearable
  <1>8. CASE Sweep
    BY <1>8 DEF Sweep, OutOfTouch
  <1>9. CASE ControllerRestart \/ Tick \/ UNCHANGED vars
    BY <1>9 DEF ControllerRestart, Tick, devVars, vars
  <1>10. QED
    BY <1>2, <1>6, <1>7, <1>8, <1>9

(* A fault, or a quarantine of unrecorded cause, is answered only by an       *)
(* operator's clear or by retiring the device.                                *)
THEOREM FaultStands == Spec => FaultNeedsOperator
  <1> DEFINE Freed(d) == ClearDevice(d) \/ RetireDevice(d)
             Stands == \A d \in Device :
               dev[d] = "unhealthy" /\ why[d] \notin Clearable =>
                 \/ dev'[d] = "unhealthy" /\ why'[d] \notin Clearable
                 \/ ClearDevice(d)
                 \/ RetireDevice(d)
  <1>1. ASSUME StoreInv, [Next]_vars PROVE Stands
    <2> SUFFICES ASSUME NEW d \in Device, Held(d) PROVE Held(d)' \/ Freed(d)
      BY Zenon DEF Held
    <2>1. ASSUME NEW e \in Device, ClearDevice(e) \/ RetireDevice(e), e # d
          PROVE  Held(d)'
      BY <1>1, <2>1 DEF ClearDevice, RetireDevice, StoreInv, TypeOK, Held
    <2>2. CASE DeviceStep
      BY <1>1, <2>1, <2>2, HeldStays DEF DeviceStep
    <2>3. QED
      BY <1>1, <2>2, HeldStays DEF Next
  <1>2. QED
    BY <1>1, Consistent, PTL DEF Spec, FaultNeedsOperator

(* In the startup window only a registration of its own worker costs a job,   *)
(* and no device is written off (Sweep, holdOff).                             *)
THEOREM WindowIsKept == Spec => WindowJudgesNobody
  <1> DEFINE Own(j) == /\ silence'[WorkerOf[placed[j]]] = 0
                       /\ WorkerOf[placed[j]] \in known'
             Lost(j) == job[j] \in Active /\ job'[j] = "lost"
             Judged(d) == /\ dev[d] # "unhealthy" /\ dev'[d] = "unhealthy"
                          /\ why'[d] \in {"worker_lost", "lease_expired"}
             Spares == /\ \A j \in Job : Lost(j) => Own(j)
                       /\ \A d \in Device : ~Judged(d)
  <1>1. ASSUME StoreInv, [Next]_vars, holdOff > 0 PROVE Spares
    <2>1. /\ dev \in [Device -> DeviceState \cup {"absent"}]
          /\ why \in [Device -> Reason]
          /\ job \in [Job -> JobState \cup {"absent"}]
          /\ silence \in [Worker -> 0..UnhealthyAfter]
      BY <1>1 DEF StoreInv, TypeOK
    <2>2. CASE JobStep
      <3>1. ASSUME NEW j \in Job PROVE ~Lost(j)
        BY <2>1, <2>2 DEF JobStep, Enqueue, CancelQueued, AssignQueued,
           MarkRunning, Release, RequestKill, Active
      <3>2. ASSUME NEW d \in Device PROVE ~Judged(d)
        BY <2>1, <2>2 DEF JobStep, Enqueue, CancelQueued, AssignQueued,
           MarkRunning, Release, RequestKill, devVars
      <3>3. QED
        BY <3>1, <3>2
    <2>3. ASSUME NEW w \in Worker, NEW b, NEW D, UpsertWorker(w, b, D)
          PROVE  Spares
      <3>1. ASSUME NEW j \in Job, Lost(j) PROVE Own(j)
        <4>1. j \in InFlight(w)
          BY <2>3, <3>1 DEF UpsertWorker, Active
        <4>2. WorkerOf[placed[j]] = w
          BY <4>1 DEF InFlight, Mine
        <4>3. QED
          BY <2>1, <2>3, <4>2 DEF UpsertWorker
      <3>2. ASSUME NEW d \in Device PROVE ~Judged(d)
        <4> SUFFICES ASSUME dev[d] # "unhealthy" PROVE ~Judged(d)
          OBVIOUS
        <4> DEFINE Calm(r) == \/ r.state # "unhealthy"
                              \/ r.reason = "registration"
        <4>1. Calm(Reaped(w, b, d))
          BY DEF Reaped, Row, Quarantined, InService
        <4>2. Calm(Restored(w, b, d))
          BY <4>1 DEF Restored, InService
        <4>3. Calm(Registered(w, b, D, d))
          BY <4>2 DEF Registered, InService
        <4>4. QED
          BY <2>3, <4>3 DEF UpsertWorker
      <3>3. QED
        BY <3>1, <3>2
    <2>4. CASE WorkerStep
      <3>1. ASSUME NEW w \in Worker, AutoRecover(w) PROVE Spares
        BY <3>1 DEF AutoRecover, jobVars, Active
      <3>2. ASSUME NEW w \in Worker, NEW R, RecordHeartbeat(w, R) PROVE Spares
        BY <3>2 DEF RecordHeartbeat, Heartened, jobVars, Active
      <3>3. ASSUME NEW w \in Worker, TakeKillRequests(w) PROVE Spares
        BY <3>3 DEF TakeKillRequests, jobVars, devVars, Active
      <3>4. QED
        BY <2>3, <2>4, <3>1, <3>2, <3>3 DEF WorkerStep
    <2>5. CASE DeviceStep
      BY <2>1, <2>5 DEF DeviceStep, SetDeviceState, ClearDevice, RetireDevice,
         jobVars, Active
    <2>6. CASE Sweep
      <3>1. ~Judging
        BY <1>1 DEF Judging
      <3>2. /\ \A d \in Device : ~WrittenOff(d) /\ ~LapsedOn(d)
            /\ SweptJobs = {} /\ StaleLeases = {}
        BY <3>1 DEF WrittenOff, LapsedOn, SweptJobs, StaleLeases
      <3>3. QED
        BY <2>6, <3>2 DEF Sweep, Active
    <2>7. CASE ControllerRestart \/ Tick \/ UNCHANGED vars
      BY <2>7 DEF ControllerRestart, Tick, jobVars, devVars, vars, Active
    <2>8. QED
      BY <1>1, <2>2, <2>4, <2>5, <2>6, <2>7 DEF Next
  <1> DEFINE Window ==
        holdOff > 0 =>
          /\ \A j \in Job : job[j] \in Active /\ job'[j] = "lost" =>
               silence'[WorkerOf[placed[j]]] = 0 /\ WorkerOf[placed[j]] \in known'
          /\ \A d \in Device : dev[d] # "unhealthy" =>
               ~(dev'[d] = "unhealthy" /\ why'[d] \in {"worker_lost", "lease_expired"})
  <1>2. ASSUME StoreInv, [Next]_vars PROVE Window
    BY <1>1, <1>2
  <1>3. QED
    BY <1>2, Consistent, PTL DEF Spec, WindowJudgesNobody
-----------------------------------------------------------------------------
(* The refinement mapping: under the lease column L, the holder of a device   *)
(* is the job leased to it.                                                   *)
HolderIn(L, d) ==
  IF \E j \in Job : L[j] = d THEN CHOOSE j \in Job : L[j] = d ELSE None

UniqueIn(L) == \A i, j \in Job : L[i] # None /\ L[i] = L[j] => i = j

(* The holder of a leased device is the job that has the lease.              *)
LEMMA TheHolder ==
  ASSUME NEW L, UniqueIn(L), NEW d \in Device, NEW j \in Job, L[j] = d
  PROVE  HolderIn(L, d) = j
  <1>1. \E i \in Job : L[i] = d
    OBVIOUS
  <1>2. \A i \in Job : L[i] = d => i = j
    BY DEF UniqueIn
  <1>3. HolderIn(L, d) = CHOOSE i \in Job : L[i] = d
    BY <1>1 DEF HolderIn
  <1> DEFINE c == CHOOSE i \in Job : L[i] = d
  <1>4. c \in Job /\ L[c] = d
    BY <1>1
  <1> QED
    BY <1>2, <1>3, <1>4

(* A device without a live lease has no holder.                              *)
LEMMA Unheld ==
  ASSUME NEW L, NEW d, \A j \in Job : L[j] # d
  PROVE  HolderIn(L, d) = None
  BY DEF HolderIn

(* A device has at most one live lease before and after a step.              *)
LEMMA UniqueNowAndNext ==
  ASSUME StoreInv, StoreInv' PROVE UniqueIn(leased) /\ UniqueIn(leased')
  BY DEF StoreInv, OneLeasePerDevice, UniqueIn

(* A step that only ends leases lets go of the devices they were on. *)
LEMMA EndingIsLetGo ==
  ASSUME StoreInv, StoreInv', UNCHANGED placed,
         \A j \in Job : leased'[j] = leased[j] \/ leased'[j] = None
  PROVE  Lock!Next
  <1> DEFINE S == {d \in Device : \A j \in Job : leased'[j] # d}
  <1>1. ASSUME NEW d \in Device
        PROVE  HolderIn(leased', d) =
                 IF d \in S THEN None ELSE HolderIn(leased, d)
    <2>1. CASE d \in S
      BY <2>1, Unheld
    <2>2. CASE d \notin S
      <3>1. PICK j \in Job : leased'[j] = d
        BY <2>2
      <3>2. leased[j] = d
        BY <3>1
      <3>3. HolderIn(leased, d) = j /\ HolderIn(leased', d) = j
        BY <3>1, <3>2, TheHolder, UniqueNowAndNext
      <3>4. QED
        BY <2>2, <3>3
    <2>3. QED
      BY <2>1, <2>2
  <1>2. Lock!LetGo(S)
    BY <1>1 DEF Lock!LetGo, HolderIn, LiveLeaseOn
  <1>3. S \in SUBSET Device
    OBVIOUS
  <1> HIDE DEF S
  <1>4. \E X \in SUBSET Device : Lock!LetGo(X)
    BY <1>2, <1>3, Zenon DEF Lock!LetGo
  <1>5. QED
    BY <1>4 DEF Lock!Next

(* An assignment grants a free device to a job that never had one. *)
LEMMA AssignIsGrant ==
  ASSUME StoreInv, StoreInv', NEW j \in Job, NEW d \in Device,
         NEW ttl \in LeaseTTL, AssignQueued(j, d, ttl)
  PROVE  Lock!Next
  <1>1. \A i \in Job : leased[i] # d
    BY DEF AssignQueued, IndexAllows, LiveLeaseOn
  <1>2. placed[j] = None /\ leased[j] = None
    BY DEF StoreInv, AssignQueued, UnplacedUntilAssigned, LeaseFollowsJob, Active
  <1>3. /\ leased' = [leased EXCEPT ![j] = d]
        /\ placed' = [placed EXCEPT ![j] = d]
    BY DEF AssignQueued
  <1>4. /\ leased \in [Job -> Device \cup {None}]
        /\ placed \in [Job -> Device \cup {None}]
    BY DEF StoreInv, TypeOK
  <1>5. HolderIn(leased, d) = None
    BY <1>1, Unheld
  <1>6. HolderIn(leased', d) = j
    <2>1. leased'[j] = d
      BY <1>3, <1>4
    <2>2. QED
      BY <2>1, TheHolder, UniqueNowAndNext
  <1>7. ASSUME NEW e \in Device, e # d
        PROVE  HolderIn(leased', e) = HolderIn(leased, e)
    <2>1. \A i \in Job : leased'[i] = e <=> leased[i] = e
      BY <1>2, <1>3, <1>4, <1>7
    <2>2. CASE \E i \in Job : leased[i] = e
      <3>1. PICK i \in Job : leased[i] = e /\ leased'[i] = e
        BY <2>1, <2>2
      <3>2. QED
        BY <3>1, TheHolder, UniqueNowAndNext
    <2>3. CASE \A i \in Job : leased[i] # e
      BY <2>1, <2>3, Unheld
    <2>4. QED
      BY <2>2, <2>3
  <1>8. {i \in Job : placed'[i] # None} = {i \in Job : placed[i] # None} \cup {j}
    BY <1>3, <1>4
  <1>9. Lock!Grant(j, d)
    <2> DEFINE H(L) == [e \in Device |-> HolderIn(L, e)]
    <2>1. H(leased') = [H(leased) EXCEPT ![d] = j]
      BY <1>6, <1>7
    <2>2. H(leased)[d] = None
      BY <1>5
    <2>3. j \notin {i \in Job : placed[i] # None}
      BY <1>2
    <2>4. QED
      BY <1>8, <2>1, <2>2, <2>3 DEF Lock!Grant, HolderIn, LiveLeaseOn
  <1>10. QED
    BY <1>9 DEF Lock!Next

(* Every other step ends leases or leaves them alone. *)
LEMMA OtherStepsEnd ==
  ASSUME StoreInv, [Next]_vars,
         ~\E j \in Job, d \in Device, ttl \in LeaseTTL : AssignQueued(j, d, ttl)
  PROVE  /\ UNCHANGED placed
         /\ \A j \in Job : leased'[j] = leased[j] \/ leased'[j] = None
  <1>1. leased \in [Job -> Device \cup {None}]
    BY DEF StoreInv, TypeOK
  <1>2. CASE JobStep
    BY <1>1, <1>2 DEF JobStep, Enqueue, CancelQueued, MarkRunning, Release,
       RequestKill, leaseVars
  <1>3. CASE WorkerStep
    BY <1>3 DEF WorkerStep, UpsertWorker, AutoRecover, RecordHeartbeat,
       TakeKillRequests, jobVars, leaseVars
  <1>4. CASE DeviceStep
    BY <1>4 DEF DeviceStep, SetDeviceState, ClearDevice, RetireDevice, jobVars,
       leaseVars
  <1>5. CASE Sweep
    BY <1>5 DEF Sweep
  <1>6. CASE ControllerRestart \/ Tick \/ UNCHANGED vars
    BY <1>6 DEF ControllerRestart, Tick, jobVars, leaseVars, vars
  <1>7. QED
    BY <1>2, <1>3, <1>4, <1>5, <1>6 DEF Next

(* Store implements Exclusive: seen through its leases, every transaction     *)
(* grants one free device to a job that never held one, or lets some go.      *)
THEOREM Refinement == Spec => HeldExclusively
  <1>1. Init => Lock!Init
    BY DEF Init, Lock!Init, LiveLeaseOn
  <1>2. ASSUME StoreInv, StoreInv', [Next]_vars PROVE Lock!Next
    <2>1. CASE \E j \in Job, d \in Device, ttl \in LeaseTTL :
                 AssignQueued(j, d, ttl)
      BY <1>2, <2>1, AssignIsGrant
    <2>2. CASE ~\E j \in Job, d \in Device, ttl \in LeaseTTL :
                 AssignQueued(j, d, ttl)
      BY <1>2, <2>2, OtherStepsEnd, EndingIsLetGo
    <2>3. QED
      BY <2>1, <2>2
  <1>3. StoreInv /\ StoreInv' /\ [Next]_vars => [Lock!Next]_(Lock!vars)
    BY <1>2
  <1>4. QED
    BY <1>1, <1>3, Consistent, PTL DEF Spec, HeldExclusively, Lock!Spec
=============================================================================
