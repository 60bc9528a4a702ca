---------------------------- MODULE HooksProofs ----------------------------
(***************************************************************************)
(* For any number of jobs and any number of restarts: the release hook     *)
(* never runs over a job, never for a device that is not held, and the     *)
(* service stays down under a job.                                         *)
(***************************************************************************)
EXTENDS Hooks, TLAPS

(* One job at a time is on the device or on its way, and it is the owner.    *)
OneComing == \A j \in Job : stage[j] \in Coming => owner = j

(* An acquire hook runs for a device that has one and is not held.           *)
AcquiringIsUnheld ==
  \A j \in Job : stage[j] = "acquiring" => "acquire" \in hooks /\ ~held /\ firing = 0

(* A device with hooks that a job runs on is held, and the job's epoch is    *)
(* the device's; no two jobs have the same.                                  *)
RunningOwns ==
  hooks # {} =>
    /\ \A j \in Job : stage[j] = "running" => held /\ ticket[j] = epoch
    /\ \A i, j \in Job :
         stage[i] \in Ticketed /\ stage[j] \in Ticketed /\ ticket[i] = ticket[j] => i = j

(* A release that is armed, has fired and is current, or runs. *)
Pending == timer # 0 \/ gen \in fires \/ (drain # 0 /\ drain = gen) \/ firing # 0

(* It is for a device that is held and that no job runs on. *)
PendingIsIdle ==
  Pending => held /\ hooks # {} /\ \A j \in Job : stage[j] # "running"

(* There is one of it: a fired timer is the armed one, and the drain has     *)
(* taken the timer's place, or the hook runs already.                        *)
OnePending ==
  /\ timer # 0 => timer = gen
  /\ drain # 0 /\ drain = gen => timer = 0 /\ gen \notin fires
  /\ firing # 0 => firing = gen /\ timer = 0 /\ gen \notin fires
                   /\ (drain = gen => drain = firing)

(* Only a device with hooks is ever held. *)
HeldHasHooks == held => hooks # {}

(* The service is down while the device is held and no release runs. *)
HeldIsDown == "acquire" \in hooks /\ held /\ firing = 0 => service = "down"

(* A worker that has not finished its startup pass holds nothing and has no  *)
(* job.                                                                      *)
StartsUnheld ==
  proc \in {"down", "starting"} => ~held /\ \A j \in Job : stage[j] \notin Coming

HooksInv ==
  /\ HooksTypeOK /\ OneComing /\ AcquiringIsUnheld /\ RunningOwns
  /\ PendingIsIdle /\ OnePending /\ HeldHasHooks /\ HeldIsDown /\ StartsUnheld
-----------------------------------------------------------------------------

(* The initial states satisfy the invariant. *)
LEMMA InitInv == Init => HooksInv
  <1> SUFFICES ASSUME Init PROVE HooksInv
    OBVIOUS
  <1>1. HooksTypeOK
    <2>1. held \in BOOLEAN /\ owed \in BOOLEAN /\ left \in BOOLEAN
      BY DEF Init
    <2>2. QED
      BY <2>1 DEF Init, HooksTypeOK
  <1>2. OneComing /\ AcquiringIsUnheld /\ RunningOwns
    BY DEF Init, OneComing, AcquiringIsUnheld, RunningOwns, Coming, Ticketed
  <1>3. PendingIsIdle /\ OnePending /\ HeldHasHooks /\ HeldIsDown /\ StartsUnheld
    BY DEF Init, PendingIsIdle, Pending, OnePending, HeldHasHooks, HeldIsDown,
       StartsUnheld, Coming
  <1>4. QED
    BY <1>1, <1>2, <1>3 DEF HooksInv

(* A start, and the release pass that follows it, keep the invariant:        *)
(* nothing is held yet.                                                      *)
LEMMA StartupInv ==
  ASSUME HooksInv, StartWorker \/ StartupRelease \/ StartupSkipped
  PROVE  HooksInv'
  <1> USE DEF HooksInv, HooksTypeOK, StartWorker, StartupRelease,
             StartupSkipped, memory
  <1>1. HooksTypeOK'
    OBVIOUS
  <1>2. OneComing' /\ AcquiringIsUnheld' /\ RunningOwns'
    BY DEF OneComing, AcquiringIsUnheld, RunningOwns
  <1>3. PendingIsIdle' /\ OnePending' /\ HeldHasHooks'
    BY DEF PendingIsIdle, Pending, OnePending, HeldHasHooks
  <1>4. HeldIsDown' /\ StartsUnheld'
    BY DEF HeldIsDown, StartsUnheld
  <1>5. QED
    BY <1>1, <1>2, <1>3, <1>4

(* So does handing out a job: the device has no owner, so no other job is    *)
(* coming.                                                                   *)
LEMMA HandOutInv ==
  ASSUME HooksInv, NEW j \in Job, HandOut(j)
  PROVE  HooksInv'
  <1> USE DEF HooksInv, HooksTypeOK, HandOut, Goto, memory
  <1>1. HooksTypeOK'
    BY DEF Coming
  <1>2. OneComing' /\ AcquiringIsUnheld' /\ RunningOwns'
    BY HooksAssumption DEF OneComing, Ticketed, AcquiringIsUnheld, RunningOwns
  <1>3. PendingIsIdle' /\ OnePending' /\ HeldHasHooks'
    BY DEF PendingIsIdle, Pending, OnePending, HeldHasHooks
  <1>4. HeldIsDown' /\ StartsUnheld'
    BY DEF HeldIsDown, StartsUnheld
  <1>5. QED
    BY <1>1, <1>2, <1>3, <1>4

(* So does an acquire: the new generation makes every pending release stale, *)
(* and the new epoch is nobody else's.                                       *)
LEMMA AcquireDeviceInv ==
  ASSUME HooksInv, NEW j \in Job, hooks # {}, AcquireDevice(j)
  PROVE  HooksInv'
  <1> USE DEF HooksInv, HooksTypeOK, AcquireDevice, Unlocked, Goto, memory
  <1>1. HooksTypeOK'
    <2>1. held' \in BOOLEAN /\ owed' \in BOOLEAN /\ left' \in BOOLEAN
      OBVIOUS
    <2>2. /\ stage' \in [Job -> Coming \cup Ticketed \cup {"none", "aborting", "done", "gone"}]
          /\ epoch' \in Nat /\ ticket' \in [Job -> Nat] /\ \A i \in Job : ticket'[i] <= epoch'
      BY DEF Coming, Ticketed
    <2>3. /\ gen' \in Nat /\ timer' \in Nat /\ timer' <= gen'
          /\ fires' \subseteq Nat \ {0} /\ \A f \in fires' : f <= gen'
          /\ firing' \in Nat /\ drain' \in Nat /\ drain' <= gen'
      OBVIOUS
    <2>4. QED
      BY <2>1, <2>2, <2>3
  <1>2. OneComing'
    BY DEF OneComing, Ticketed
  <1>3. AcquiringIsUnheld'
    BY DEF AcquiringIsUnheld
  <1>4. RunningOwns'
    <2>1. ASSUME NEW i \in Job, stage'[i] = "running" PROVE held' /\ ticket'[i] = epoch'
      BY <2>1 DEF OneComing, Coming
    <2>2. ASSUME NEW i \in Job, NEW k \in Job, stage'[i] \in Ticketed,
                 stage'[k] \in Ticketed, ticket'[i] = ticket'[k]
          PROVE  i = k
      BY <2>2 DEF RunningOwns, Ticketed
    <2>3. QED
      BY <2>1, <2>2 DEF RunningOwns
  <1>5. PendingIsIdle'
    BY DEF PendingIsIdle, Pending
  <1>6. OnePending'
    BY DEF OnePending
  <1>7. HeldHasHooks'
    BY DEF HeldHasHooks
  <1>8. HeldIsDown'
    BY DEF HeldIsDown
  <1>9. StartsUnheld'
    BY DEF StartsUnheld, Ticketed
  <1>10. QED
    BY <1>1, <1>2, <1>3, <1>4, <1>5, <1>6, <1>7, <1>8, <1>9

(* So does the acquire of a device without hooks, which is never held.       *)
LEMMA AcquireUnhookedInv ==
  ASSUME HooksInv, NEW j \in Job, hooks = {}, AcquireUnhooked(j)
  PROVE  HooksInv'
  <1> USE DEF HooksInv, HooksTypeOK, AcquireUnhooked, Goto, memory
  <1>1. HooksTypeOK'
    BY DEF Ticketed
  <1>2. OneComing' /\ AcquiringIsUnheld' /\ RunningOwns'
    BY DEF OneComing, Ticketed, AcquiringIsUnheld, RunningOwns
  <1>3. PendingIsIdle' /\ OnePending' /\ HeldHasHooks'
    BY DEF PendingIsIdle, Pending, OnePending, HeldHasHooks
  <1>4. HeldIsDown' /\ StartsUnheld'
    BY DEF HeldIsDown, StartsUnheld, Ticketed
  <1>5. QED
    BY <1>1, <1>2, <1>3, <1>4

(* So does the end of an acquire hook: the device was not held, so no        *)
(* release is pending.                                                       *)
LEMMA AcquireHookDoneInv ==
  ASSUME HooksInv, NEW j \in Job, AcquireHookDone(j)
  PROVE  HooksInv'
  <1> USE DEF HooksInv, HooksTypeOK, AcquireHookDone, Goto, memory
  <1>1. HooksTypeOK'
    <2>1. owed' \in BOOLEAN
      OBVIOUS
    <2>2. left' \in BOOLEAN
      OBVIOUS
    <2>3. QED
      BY <2>1, <2>2 DEF Ticketed
  <1>2. OneComing'
    BY DEF OneComing, Ticketed
  <1>3. AcquiringIsUnheld'
    BY DEF AcquiringIsUnheld, OneComing, Ticketed
  <1>4. RunningOwns'
    BY DEF RunningOwns, AcquiringIsUnheld
  <1>5. PendingIsIdle'
    BY DEF PendingIsIdle, Pending, AcquiringIsUnheld
  <1>6. OnePending'
    BY DEF OnePending
  <1>7. HeldHasHooks'
    BY DEF HeldHasHooks, AcquiringIsUnheld
  <1>8. HeldIsDown'
    BY DEF HeldIsDown
  <1>9. StartsUnheld'
    BY DEF StartsUnheld, Ticketed
  <1>10. QED
    BY <1>1, <1>2, <1>3, <1>4, <1>5, <1>6, <1>7, <1>8, <1>9

(* A hook that is cut short starts no service. *)
LEMMA CutShort ==
  ASSUME HooksTypeOK, HookCutShort
  PROVE  /\ service' \in {"up", "down"} /\ owed' \in BOOLEAN
         /\ service = "down" => service' = "down"
  BY DEF HooksTypeOK, HookCutShort

(* So does a failing acquire hook.                                           *)
LEMMA AcquireHookFailedInv ==
  ASSUME HooksInv, NEW j \in Job, AcquireHookFailed(j)
  PROVE  HooksInv'
  <1>0. /\ service' \in {"up", "down"} /\ owed' \in BOOLEAN /\ left' \in BOOLEAN
        /\ service = "down" => service' = "down"
    BY CutShort DEF HooksInv, AcquireHookFailed
  <1> USE DEF HooksInv, HooksTypeOK, AcquireHookFailed, Goto, memory
  <1>1. HooksTypeOK'
    BY <1>0
  <1>2. OneComing' /\ AcquiringIsUnheld' /\ RunningOwns'
    BY DEF OneComing, Ticketed, AcquiringIsUnheld, RunningOwns
  <1>3. PendingIsIdle' /\ OnePending' /\ HeldHasHooks'
    BY DEF PendingIsIdle, Pending, OnePending, HeldHasHooks
  <1>4. HeldIsDown' /\ StartsUnheld'
    BY <1>0 DEF HeldIsDown, StartsUnheld, Ticketed
  <1>5. QED
    BY <1>1, <1>2, <1>3, <1>4

(* So does a job on its way out, before its release.                         *)
LEMMA JobEndInv ==
  ASSUME HooksInv, NEW j \in Job, Finish(j) \/ LetGo(j) \/ Reported(j)
  PROVE  HooksInv'
  <1> USE DEF HooksInv, HooksTypeOK, Finish, LetGo, Reported, Goto, memory
  <1>1. HooksTypeOK'
    BY DEF Ticketed
  <1>2. OneComing' /\ AcquiringIsUnheld' /\ RunningOwns'
    BY DEF OneComing, Coming, Ticketed, AcquiringIsUnheld, RunningOwns
  <1>3. PendingIsIdle' /\ OnePending' /\ HeldHasHooks'
    BY DEF PendingIsIdle, Pending, OnePending, HeldHasHooks
  <1>4. HeldIsDown' /\ StartsUnheld'
    BY DEF HeldIsDown, StartsUnheld, Coming
  <1>5. QED
    BY <1>1, <1>2, <1>3, <1>4

(* So does scheduleRelease: a job that runs would have the epoch of the one  *)
(* that arms the timer.                                                      *)
LEMMA ScheduleReleaseInv ==
  ASSUME HooksInv, NEW j \in Job, ScheduleRelease(j)
  PROVE  HooksInv'
  <1> USE DEF HooksInv, HooksTypeOK, ScheduleRelease, Unlocked, Goto, memory
  <1>1. HooksTypeOK'
    OBVIOUS
  <1>2. OneComing'
    BY DEF OneComing, Coming
  <1>3. AcquiringIsUnheld'
    BY DEF AcquiringIsUnheld
  <1>4. RunningOwns'
    BY DEF RunningOwns, Ticketed
  <1>5. PendingIsIdle'
    <2>1. CASE held /\ ticket[j] = epoch
      <3>1. hooks # {}
        BY <2>1 DEF HeldHasHooks
      <3>2. ASSUME NEW i \in Job, stage[i] = "running" PROVE FALSE
        BY <2>1, <3>1, <3>2 DEF RunningOwns, Ticketed
      <3>3. QED
        BY <2>1, <3>1, <3>2 DEF PendingIsIdle, Pending
    <2>2. CASE ~(held /\ ticket[j] = epoch)
      BY <2>2 DEF PendingIsIdle, Pending
    <2>3. QED
      BY <2>1, <2>2
  <1>6. OnePending'
    BY DEF OnePending
  <1>7. HeldHasHooks'
    BY DEF HeldHasHooks
  <1>8. HeldIsDown'
    BY DEF HeldIsDown
  <1>9. StartsUnheld'
    BY DEF StartsUnheld, Coming
  <1>10. QED
    BY <1>1, <1>2, <1>3, <1>4, <1>5, <1>6, <1>7, <1>8, <1>9

(* So does a timer that fires.                                               *)
LEMMA ElapseInv ==
  ASSUME HooksInv, Elapse
  PROVE  HooksInv'
  <1> USE DEF HooksInv, HooksTypeOK, Elapse, memory
  <1>1. HooksTypeOK'
    OBVIOUS
  <1>2. OneComing' /\ AcquiringIsUnheld' /\ RunningOwns'
    BY DEF OneComing, AcquiringIsUnheld, RunningOwns
  <1>3. PendingIsIdle' /\ OnePending' /\ HeldHasHooks'
    BY DEF PendingIsIdle, Pending, OnePending, HeldHasHooks
  <1>4. HeldIsDown' /\ StartsUnheld'
    BY DEF HeldIsDown, StartsUnheld
  <1>5. QED
    BY <1>1, <1>2, <1>3, <1>4

(* So does its goroutine under the mutex: if it is current, nothing else is. *)
LEMMA TimerFiresInv ==
  ASSUME HooksInv, NEW g \in fires, TimerFires(g)
  PROVE  HooksInv'
  <1> USE DEF HooksInv, HooksTypeOK, TimerFires, FireRelease, Unlocked, memory
  <1>1. HooksTypeOK'
    <2>1. held' \in BOOLEAN /\ owed' \in BOOLEAN /\ left' \in BOOLEAN
      OBVIOUS
    <2>2. /\ stage' \in [Job -> Coming \cup Ticketed \cup {"none", "aborting", "done", "gone"}]
          /\ epoch' \in Nat /\ ticket' \in [Job -> Nat] /\ \A i \in Job : ticket'[i] <= epoch'
      BY DEF Coming, Ticketed
    <2>3. /\ gen' \in Nat /\ timer' \in Nat /\ timer' <= gen'
          /\ fires' \subseteq Nat \ {0} /\ \A f \in fires' : f <= gen'
          /\ firing' \in Nat /\ drain' \in Nat /\ drain' <= gen'
      OBVIOUS
    <2>4. QED
      BY <2>1, <2>2, <2>3
  <1>2. OneComing'
    BY DEF OneComing
  <1>3. AcquiringIsUnheld'
    BY DEF AcquiringIsUnheld
  <1>4. RunningOwns'
    BY DEF RunningOwns, PendingIsIdle, Pending
  <1>5. PendingIsIdle'
    BY DEF PendingIsIdle, Pending, OnePending
  <1>6. OnePending'
    BY DEF OnePending
  <1>7. HeldHasHooks'
    BY DEF HeldHasHooks
  <1>8. HeldIsDown'
    BY DEF HeldIsDown
  <1>9. StartsUnheld'
    BY DEF StartsUnheld
  <1>10. QED
    BY <1>1, <1>2, <1>3, <1>4, <1>5, <1>6, <1>7, <1>8, <1>9

(* So does the end of the release hook.                                      *)
LEMMA ReleaseHookEndsInv ==
  ASSUME HooksInv, ReleaseHookEnds
  PROVE  HooksInv'
  <1> USE DEF HooksInv, HooksTypeOK, ReleaseHookEnds, memory
  <1>1. HooksTypeOK'
    <2>1. held' \in BOOLEAN /\ owed' \in BOOLEAN /\ left' \in BOOLEAN
      OBVIOUS
    <2>2. /\ stage' \in [Job -> Coming \cup Ticketed \cup {"none", "aborting", "done", "gone"}]
          /\ epoch' \in Nat /\ ticket' \in [Job -> Nat] /\ \A i \in Job : ticket'[i] <= epoch'
      BY DEF Coming, Ticketed
    <2>3. /\ gen' \in Nat /\ timer' \in Nat /\ timer' <= gen'
          /\ fires' \subseteq Nat \ {0} /\ \A f \in fires' : f <= gen'
          /\ firing' \in Nat /\ drain' \in Nat /\ drain' <= gen'
      OBVIOUS
    <2>4. QED
      BY <2>1, <2>2, <2>3
  <1>2. OneComing' /\ AcquiringIsUnheld' /\ RunningOwns'
    BY DEF OneComing, AcquiringIsUnheld, PendingIsIdle, Pending, RunningOwns
  <1>3. PendingIsIdle' /\ OnePending' /\ HeldHasHooks'
    BY DEF PendingIsIdle, Pending, OnePending, HeldHasHooks
  <1>4. HeldIsDown' /\ StartsUnheld'
    BY DEF HeldIsDown, StartsUnheld
  <1>5. QED
    BY <1>1, <1>2, <1>3, <1>4

(* So does SIGTERM.                                                          *)
LEMMA ShutdownInv ==
  ASSUME HooksInv, Shutdown
  PROVE  HooksInv'
  <1> USE DEF HooksInv, HooksTypeOK, Shutdown, memory
  <1>1. HooksTypeOK'
    OBVIOUS
  <1>2. OneComing' /\ AcquiringIsUnheld' /\ RunningOwns'
    BY DEF OneComing, AcquiringIsUnheld, RunningOwns
  <1>3. PendingIsIdle' /\ OnePending' /\ HeldHasHooks'
    BY DEF PendingIsIdle, Pending, OnePending, HeldHasHooks
  <1>4. HeldIsDown' /\ StartsUnheld'
    BY DEF HeldIsDown, StartsUnheld
  <1>5. QED
    BY <1>1, <1>2, <1>3, <1>4

(* So does the drain, which takes over the pending release.                  *)
LEMMA DrainInv ==
  ASSUME HooksInv, DrainPendingReleases
  PROVE  HooksInv'
  <1> USE DEF HooksInv, HooksTypeOK, DrainPendingReleases, Unlocked, memory
  <1>1. HooksTypeOK'
    <2>1. held' \in BOOLEAN /\ owed' \in BOOLEAN /\ left' \in BOOLEAN
      OBVIOUS
    <2>2. /\ stage' \in [Job -> Coming \cup Ticketed \cup {"none", "aborting", "done", "gone"}]
          /\ epoch' \in Nat /\ ticket' \in [Job -> Nat] /\ \A i \in Job : ticket'[i] <= epoch'
      BY DEF Coming, Ticketed
    <2>3. /\ gen' \in Nat /\ timer' \in Nat /\ timer' <= gen'
          /\ fires' \subseteq Nat \ {0} /\ \A f \in fires' : f <= gen'
          /\ firing' \in Nat /\ drain' \in Nat /\ drain' <= gen'
      OBVIOUS
    <2>4. QED
      BY <2>1, <2>2, <2>3
  <1>2. OneComing'
    BY DEF OneComing
  <1>3. AcquiringIsUnheld'
    BY DEF AcquiringIsUnheld
  <1>4. RunningOwns'
    BY DEF RunningOwns
  <1>5. PendingIsIdle'
    BY DEF PendingIsIdle, Pending
  <1>6. OnePending'
    BY DEF OnePending
  <1>7. HeldHasHooks'
    BY DEF HeldHasHooks
  <1>8. HeldIsDown'
    BY DEF HeldIsDown
  <1>9. StartsUnheld'
    BY DEF StartsUnheld
  <1>10. QED
    BY <1>1, <1>2, <1>3, <1>4, <1>5, <1>6, <1>7, <1>8, <1>9

(* So does the release it fires.                                             *)
LEMMA DrainFiresInv ==
  ASSUME HooksInv, DrainFires
  PROVE  HooksInv'
  <1> USE DEF HooksInv, HooksTypeOK, DrainFires, FireRelease, Unlocked, memory
  <1>1. HooksTypeOK'
    <2>1. held' \in BOOLEAN /\ owed' \in BOOLEAN /\ left' \in BOOLEAN
      OBVIOUS
    <2>2. /\ stage' \in [Job -> Coming \cup Ticketed \cup {"none", "aborting", "done", "gone"}]
          /\ epoch' \in Nat /\ ticket' \in [Job -> Nat] /\ \A i \in Job : ticket'[i] <= epoch'
      BY DEF Coming, Ticketed
    <2>3. /\ gen' \in Nat /\ timer' \in Nat /\ timer' <= gen'
          /\ fires' \subseteq Nat \ {0} /\ \A f \in fires' : f <= gen'
          /\ firing' \in Nat /\ drain' \in Nat /\ drain' <= gen'
      OBVIOUS
    <2>4. QED
      BY <2>1, <2>2, <2>3
  <1>2. OneComing'
    BY DEF OneComing
  <1>3. AcquiringIsUnheld'
    BY DEF AcquiringIsUnheld
  <1>4. RunningOwns'
    BY DEF RunningOwns, PendingIsIdle, Pending
  <1>5. PendingIsIdle'
    BY DEF PendingIsIdle, Pending, OnePending
  <1>6. OnePending'
    BY DEF OnePending
  <1>7. HeldHasHooks'
    BY DEF HeldHasHooks
  <1>8. HeldIsDown'
    BY DEF HeldIsDown
  <1>9. StartsUnheld'
    BY DEF StartsUnheld
  <1>10. QED
    BY <1>1, <1>2, <1>3, <1>4, <1>5, <1>6, <1>7, <1>8, <1>9

(* So does the end of the process: nothing is left.                          *)
LEMMA StoppedInv ==
  ASSUME HooksInv, Stopped, stops' \in Nat
  PROVE  HooksInv'
  <1>0. owed' \in BOOLEAN /\ service' \in {"up", "down"}
    BY CutShort DEF HooksInv, HooksTypeOK, Stopped
  <1> USE DEF HooksInv, HooksTypeOK, Stopped, memory
  <1>1. HooksTypeOK'
    <2>1. held' \in BOOLEAN /\ left' \in BOOLEAN
      OBVIOUS
    <2>2. /\ stage' \in [Job -> Coming \cup Ticketed \cup {"none", "aborting", "done", "gone"}]
          /\ epoch' \in Nat /\ ticket' \in [Job -> Nat] /\ \A i \in Job : ticket'[i] <= epoch'
      BY DEF Coming, Ticketed
    <2>3. /\ gen' \in Nat /\ timer' \in Nat /\ timer' <= gen'
          /\ fires' \subseteq Nat \ {0} /\ \A f \in fires' : f <= gen'
          /\ firing' \in Nat /\ drain' \in Nat /\ drain' <= gen'
      OBVIOUS
    <2>4. QED
      BY <1>0, <2>1, <2>2, <2>3
  <1>2. OneComing' /\ AcquiringIsUnheld' /\ RunningOwns'
    BY DEF OneComing, Coming, Ticketed, AcquiringIsUnheld, RunningOwns
  <1>3. PendingIsIdle' /\ OnePending' /\ HeldHasHooks'
    BY DEF PendingIsIdle, Pending, OnePending, HeldHasHooks
  <1>4. HeldIsDown' /\ StartsUnheld'
    BY DEF HeldIsDown, StartsUnheld, Coming
  <1>5. QED
    BY <1>1, <1>2, <1>3, <1>4

(* Every step keeps the invariant. *)
LEMMA NextInv == HooksInv /\ [Next]_vars => HooksInv'
  <1> SUFFICES ASSUME HooksInv, [Next]_vars PROVE HooksInv'
    OBVIOUS
  <1>1. CASE UNCHANGED vars
    BY <1>1 DEF vars, memory, HooksInv, HooksTypeOK, OneComing, AcquiringIsUnheld,
       RunningOwns, PendingIsIdle, Pending, OnePending, HeldHasHooks, HeldIsDown, StartsUnheld
  <1>2. CASE StartWorker \/ StartupRelease \/ StartupSkipped
    BY <1>2, StartupInv
  <1>3. ASSUME NEW j \in Job, JobStep(j) PROVE HooksInv'
    BY <1>3, HandOutInv, AcquireDeviceInv, AcquireUnhookedInv, AcquireHookDoneInv,
       AcquireHookFailedInv, JobEndInv, ScheduleReleaseInv DEF JobStep, Acquire
  <1>4. CASE Elapse
    BY <1>4, ElapseInv
  <1>5. ASSUME NEW g \in fires, TimerFires(g) PROVE HooksInv'
    BY <1>5, TimerFiresInv
  <1>6. CASE ReleaseHookEnds
    BY <1>6, ReleaseHookEndsInv
  <1>7. CASE Shutdown
    BY <1>7, ShutdownInv
  <1>8. CASE DrainPendingReleases \/ DrainFires
    BY <1>8, DrainInv, DrainFiresInv
  <1>9. CASE Exit \/ Crash
    <2>1. Stopped /\ stops' \in Nat
      BY <1>9 DEF Exit, Crash, HooksInv, HooksTypeOK
    <2>2. QED
      BY <2>1, StoppedInv
  <1>10. QED
    BY <1>1, <1>2, <1>3, <1>4, <1>5, <1>6, <1>7, <1>8, <1>9 DEF Next

(* The invariant holds in every reachable state. *)
THEOREM HooksConsistent == Spec => []HooksInv
  BY InitInv, NextInv, PTL DEF Spec

(* No goroutine carries an epoch or a generation from the future (hookState). *)
THEOREM HooksTypeCorrect == Spec => []HooksTypeOK
  <1>1. HooksInv => HooksTypeOK
    BY DEF HooksInv
  <1>2. QED
    BY <1>1, HooksConsistent, PTL

(* No step of timers, jobs, drain or restarts runs the release hook over a   *)
(* running job (hooks.go: "restart the operator's service on top of a        *)
(* running job").                                                            *)
THEOREM ReleaseSparesJobs == Spec => []NoReleaseOverJob
  <1>1. HooksInv => NoReleaseOverJob
    BY DEF HooksInv, PendingIsIdle, Pending, NoReleaseOverJob
  <1>2. QED
    BY <1>1, HooksConsistent, PTL

(* A job on a device with an acquire hook runs with the service stopped, also *)
(* when its own acquire skipped the hook.                                     *)
THEOREM ServiceIsDown == Spec => []ServiceStandsAside
  <1>1. HooksInv => ServiceStandsAside
    BY DEF HooksInv, PendingIsIdle, Pending, RunningOwns, HeldIsDown, ServiceStandsAside
  <1>2. QED
    BY <1>1, HooksConsistent, PTL

(* The release hook runs for a held device, and once for each time it was    *)
(* acquired.                                                                 *)
THEOREM ReleaseIsOwed == Spec => []ReleaseOfHeld
  <1>1. HooksInv => ReleaseOfHeld
    BY DEF HooksInv, PendingIsIdle, Pending, ReleaseOfHeld
  <1>2. QED
    BY <1>1, HooksConsistent, PTL

(* Acquires and releases of a device take turns, for any number of jobs,     *)
(* late reports, shutdowns and restarts (deviceHookState).                   *)
THEOREM TurnsAreTaken == Spec => []HooksInTurn
  <1> QED BY ReleaseSparesJobs, ServiceIsDown, ReleaseIsOwed, PTL DEF HooksInTurn
=============================================================================
