# A TLA+ development of resource-controller

`resource-controller` (`rc`) hands whole GPUs to one job at a time. A controller
(`rc serve`) keeps devices, jobs and leases in SQLite; a worker per host
(`rc worker`) polls it for jobs, runs them, and reports. The purpose of all of it
is that two jobs are never on one device, through crashes, restarts, lost
messages and kills. This directory models that core and the parts around it that
have state of their own: the scheduler, probes, process supervision, hooks, logs,
attached terminals, notifications and the waiting commands. TLC checks them on small
instances, and TLAPS proves the safety of most of them for instances of any size.

## Inventory

| Part | State | Operations | Hard about it |
|---|---|---|---|
| Store (`internal/store`) | rows of devices (state, quarantine reason), jobs, leases, workers, recoveries | one transaction per operation: UpsertWorker, AutoRecover, RecordHeartbeat, Sweep, Enqueue, assignQueued, MarkRunning, Release, RequestKill, TakeKillRequests, SetDeviceState, ClearDevice, RetireDevice | every transaction re-derives device states from what it reads; any order of them must agree |
| Scheduler (`store/queue.go`) | the queue, reservations within a pass | ScheduleOnce from the loop and from every submit | passes interleave; priorities and reservations |
| Reaper and serve (`cli/serve.go`) | the startup window | a sweep per tick, shutdown order | stored deadlines run on while the controller is down |
| Worker API (`server/worker_api.go`) | long polls | register, heartbeat, assignments, fault, status | a handler is several transactions; a response can be lost after they committed |
| Worker (`internal/worker`) | `running`, `started`, one goroutine per job, the contact tracker | poll, heartbeat, execute, report, register | goroutines, retries, `kill -9`, orphans |
| Job execution (`exec.go`, `sweep.go`, `pty.go`) | process group or session, watchdogs | Run, kill sequence, sweep by `RC_JOB_ID` | signals racing exits, forks racing the sweep |
| Hooks (`hooks.go`) | held, epoch, gen, linger timer per device | acquire, schedule and fire a release | a timer that fires while the next job acquires |
| Client API (`client_api.go`) | none of its own | submit, kill, clear, reads | no-wait cancel against a concurrent pass |
| Labels, selectors, probes | labels with provenance | probe pass, push, match | which labels a failed probe keeps |
| Attach (`tty.go`, `pty.go`, `relay.go`) | sessions pairing client and worker | attach, relay, leave | either side arrives or leaves first |
| Log store (`logstore`) | files, listeners | append, follow | missed wakeups, the end of a log |
| Long poll and events (`server/notify.go`, `events.go`) | waiting channels, subscribers with buffers | wait and poke, subscribe and publish | pokes between read and select, overlapping polls, drops |
| Notifier (`internal/notify`) | a bounded queue, attempts | notify, deliver, close | close races |
| Migrations | schema version | upgrade | stopping half way |
| Client and commands (`cli/run.go`, `cli/hold.go`, `client.go`) | the wait of one command | submit, poll, cancel, detach, exit code | a controller that fails or falls silent; Ctrl-C against a job that starts |

Interaction: commands call the client API; submit, scheduler loop, reaper loop and
the worker's handlers all meet in the store, which has one connection, so that
transactions are atomic and interleave as wholes. Workers speak HTTP to the
controller; nothing is pushed to them except through the long poll.

What makes each part correct: the store's tables agree and implement exclusive
holding; a worker's process is on a device only while the device is out of the
pool; a kill and a lost job end; a device found unusable stays out until a human
clears it; the scheduler passes nobody by who reserved; a release hook never runs
on a device in use; a follower sees the whole log; an event is dropped and never
waited for. `PROJECT.json` lists the hazards one by one with the line where each
bites and the properties that would catch it.

## Modules

`Exclusive` is the promise: a device has at most one holder, a job holds a device
at most once in its life, a holder changes only by first being let go.

`Store` is the database. One variable per column that decides anything; one
action per transaction, named after the Go function. The caller is unconstrained:
any transaction may come at any time, and a heartbeat may name any set of jobs.
Time stamps are kept as distances from now that saturate at the threshold the
code compares them with (`silence`, `left`, `quiet`, `holdOff`, the ages in
`recovered`), and `Tick` moves them all, so there is no bound on time. A device
row's state and reason go through `Reaped`, `Restored` and `Registered`, the three
passes of `UpsertWorker`. The initial databases are an empty one and those that an
upgrade leaves, with quarantined devices whose reason was never recorded
(`"none"` stands for the empty column).

`Fleet` extends `Store` with the workers. Each step that reaches the controller is
a transaction of `Store` joined with what the worker does or learns. Requests and
their handling are separate steps. `poll` follows one long poll through
`handleAssignments` (read the assigned jobs, take the kills, mark each job running,
answer, or sleep and return 204); `stage` follows a job's goroutine through
`execute` (spawned, acquiring, running, verifying, faulting, reporting, and after a
failed hook failing, blaming); `live` is the processes, which outlive a worker that
is killed. `regs` holds registrations under way, with the boot id and the proof
taken when they were sent. `cancelled` is the cancelled contexts. The re-report of
`running` that a worker makes before `Run` changes no row and is left out.
`Faults` says what may go wrong in a run:

- crash, reboot, shutdown, restart: of a worker, its host, a worker by SIGTERM, the controller;
- lostPoll, lostReport, lostFault: a response, or all attempts of a report, are lost;
  lostReport also lets a report be handled without its answer arriving;
- hookFail, verifyFail, kill, operator: these things happen;
- lateRegister, slowSpawn, slowBeat: three timing assumptions are dropped. Without
  them a registration is not handled after its sender gave up, a goroutine enters
  `w.running` before the next poll of its worker is served, and a heartbeat is not
  in flight while a job is handed out. Each is only a matter of timing in the code:
  nothing enforces it. What the first and the third are worth is under Limits below.

The operator of the model is careful: clear and retire happen only when no process
of the device's jobs is left and none is on its way.

`Hooks` is the hook state of one device in one worker process: `held`, `epoch`, `gen`
and the timer as in `deviceHookState`, the job goroutines and `fireRelease` goroutines
that meet at its mutex, the drain at shutdown and the pass at startup. The mutex is
held exactly while a hook runs (`Unlocked`); every other critical section is one step.
Which scripts the device declares is chosen in `Init`. Jobs come one at a time, when
the controller has let the device go: that is `ReadyDeviceIdle` of `Fleet`, and here it
is the guard of `HandOut`. `service` is what the scripts stop and start, `owed`
remembers that it was stopped for a job, and `left` that the worker has left it at that: the
startup pass skipped the device, or the acquire hook that stopped the service did not succeed. A hook that is running when the worker dies
ends with it; a hook process that outlives its worker is not modelled, and neither is
an orphaned job under the startup pass.

`Scheduler` is `queue.go` and the part of `handleSubmit` around it. A pass is a process
(the loop, or a handler between its `Enqueue` and its answer) with the local variables of
`ScheduleOnce`: the snapshot still to be visited (`todo`), the jobs gone past (`seen`), the
job in hand with what is `avail` and `untried`, and `reserved`. Each `assignQueued` is a
transaction of its own, so any number of passes, kills, ends of jobs, quarantines, changed
ceilings and changed labels come between two of them. `cand` remembers what a job could
have used when the pass came to it, `stale` the jobs whose check a new ceiling has
overtaken, `stranded` the jobs that an error left in the queue; all three are history. A run
time is an integer: a negative one is accepted and means no limit. A selector is the set of
label values it accepts. A refused submission changes nothing and is not a step.

`Probes` is the worker's half and the controller's half of the labels. `ProbePass` is one
pass of `gatherLabels` under `probeMu` with the payload it sends: `Working`, `Failed`,
`Covered`, `Unconfirmed` and `Remembered` are the sets the Go code builds as it goes
through its sources. Payloads are lost, and applied in any order (`ApplyDeviceFacts`).
The host (programs, directory, disk, sheets) is external and changes at will.

`Contact` is `contactTracker` with the two loops that use it: answers are stamped by
`Worker.do`, observed in any order and also when the process that gave them is gone, and
`maybeReregister` pays the debt from the poll loop when no job is supervised. `owes` is what a
registration is really due for, judged by the process that handled the last one (`handler`)
and not by the tracker's own comparison. Together with `Fleet`, which takes any re-registration at any
time, it says when one comes.

`Exec` is one job's processes under `Run`: the leader, what it forks, what leaves the
process group, what holds the output pipe, what cannot be killed; and on the other side
`cmd.Wait`, the stop by a kill or a watchdog, `superviseTarget`, `reapStragglers`, the
label of the result and the sweep by `RC_JOB_ID`. A scan of the sweep is a listing of `/proc`
and one read for each process in it (`SweepList`, `SweepRead`), and processes fork and end
between any two of these. A PTY and pipes differ in when `cmd.Wait` returns.

`Attach` is the registry of `tty.go`: sessions, the four halves with the pipe each was
given, the handoff guard and every step of a teardown that another half can come between.
`LogStore` is `Append`, `Follow`, and the watcher and writer of `handleStreamLogs`.
`Notifier` is `internal/notify`. `LongPoll` is `handleAssignments` with the channels of
`server/notify.go`, for assigned jobs; `Fleet` has it for jobs and kills without the
channels, and there a kill is delivered again until it has taken effect. `Events` is the
broadcaster and its streams with the page at their other end: its first read before it
connects, the read that an event makes due (`nudge`), its timer and its failed reads. `RunClient` is `rc run` and `rc hold` from the submit to the exit
status, against a controller that may stop answering and a job that moves on meanwhile.

`MCStore`, `MCFleet`, `MCScheduler`, `MCWorker` and `MCServices` instantiate them. The last
two take several modules that share nothing, and let one of them move in each behaviour
(`active`, chosen at the start): their runs are the sums of the parts and not products.
`StoreProofs`, `FleetProofs`, `SchedulerProofs`, `HooksProofs`, `ExecProofs`, `WorkerProofs`
(`Contact`, `Probes`), `AttachProofs` and `ServicesProofs` (`LongPoll`, `Events`, `LogStore`,
`RunClient`) have the proofs. Operators
named `X_Something` after a definition `X` are mutants: plausible mistakes in the
code that a property must notice, used by no specification.

## Runs

| Run | Instance | Shows |
|---|---|---|
| `store_default` | 1 worker, 1 device, 2 jobs (one a hold), 2 boot ids | `StoreInv`, `OutcomeIsFinal`, `FaultNeedsOperator`, `WindowJudgesNobody`, `HeldExclusively`, default mode |
| `store_retain` | the same | `StoreInv`, `WindowJudgesNobody` with `--retain-disconnected-jobs` |
| `fleet_default` | 1 worker, 1 device, 2 jobs, 2 boot ids | `NoOverlap`, `ReadyDeviceIdle` under crash, reboot, restart, lostPoll, lostReport, slowBeat, kill, operator |
| `fleet_retain` | the same, retained, 1 boot id | `NoOverlap`, `SuspectNotHandedOut` under restart, lostPoll, lostReport, verifyFail, kill, operator |
| `fleet_faults` | 1 job, 2 boot ids | all faults at once: `FinishedIsOver` |
| `fleet_live` | 1 job, any registration may claim a proof (`Isolated`) | `AbandonedIsReclaimed`, `KillTakesEffect` under crash, shutdown, lostPoll, lostReport, slowSpawn, slowBeat, kill |
| `scheduler` | 2 devices, 3 jobs, the loop and 1 handler, run times -1 to 2, 1 label, `MaxChange` 1 | `NoOvertaking`, `WithinCeiling`, `AnswersHold`, and that the queue moves (`QueueMoves`) |
| `worker`, hooks | 3 jobs, `MaxStop` 2, every choice of hooks | `HooksInTurn`, and that the service comes back (`ServiceComesBack`) |
| `worker`, probes | nvidia-smi and 2 drop-ins, 2 devices, 3 upsets, 2 payloads on their way | `OutageKeepsLabels`, `LabelsFollowSources` |
| `worker`, contact | 2 controller processes, clock to 2, silence 2, 2 answers, 1 failed attempt, 1 job | `NoPhantomGap`, `DebtIsPaid` |
| `worker`, exec | a leader and 2 children | `CleanIsTrue`, `LabelIsTrue`, `RunReturns` |
| `services`, attach | 2 sessions, 4 attaches, 1 renewed pipe | `EndsMeet`, `HalvesLetGo` |
| `services`, log | 1 follower, 2 appenders, 3 chunks | `NothingMissed`, `StreamEnds` |
| `services`, notifier | 2 emitters, 4 events, queue of 2, 2 attempts | `CloseReturns` |
| `services`, run | run and hold, 3 and 2 failed polls, exit codes 0, 3, 256 | `BlipKillsNothing`, `SaysTheTruth`, `CommandEnds` |
| `services`, poll | 2 handlers, 2 pokers, 2 jobs, 2 drops | `NoLostPoke`, `HandedOutOnce`, `WorkIsTaken` |
| `services`, events | 1 dashboard, 2 publishers, buffer of 2, 3 changes | `DropIsHarmless`, `NoLeakedStream` |

Some of these are conjunctions of properties that are stated and named apart, in the module
of the component: `StoreInv` (types, `LeaseFollowsJob`, `ReadyIsFree`, `BusyIsLeased`,
`OneLeasePerDevice`, `ReasonIsCurrent`, `UnplacedUntilAssigned`), `AnswersHold` (`NoWaitAnswer`,
`AbandonedNotQueued`), `HooksInTurn` (`NoReleaseOverJob`, `ServiceStandsAside`, `ReleaseOfHeld`),
`LabelIsTrue` (`StoppedNeverSucceeds`, `NeverRelabelled`), `EndsMeet` (`OneLiveSession`,
`SamePipe`), `HalvesLetGo` (`SessionUnwinds`, `AloneIsReleased`), `NothingMissed`
(`NoMissedWakeup`, `FlushedAtEnd`) and `SaysTheTruth` (`ZeroMeansSucceeded`, `CancelledIsOver`,
`HoldGivenBack`).

Three runs end in a counterexample, each against a sentence of the repository, quoted
in `PROJECT.json`:

- `hook_order`: after a failed acquire hook the job's terminal report goes out before
  the fault report, so the device is in the pool between the two. The verify path
  has the order right.
- `retained_kill`: a kill finalized by the controller leaves an `unknown` device with
  nothing in flight; when the worker process restarts without a reboot,
  `UpsertWorker` makes that device ready over the surviving process. TLC's trace is
  the shortest; the same happens to a job that has been running for hours when its
  host is cut off for 30 s, the job is killed, and the worker is then killed.
- `retained_lost`: with retention the lost assignment the README describes is never
  reclaimed, under a worker whose heartbeat is fine.

Limits. The passing runs of `Fleet` leave out combinations of faults under which a
property fails; each can be seen by editing one line of a cfg.

- crash with kill under retention: the run `retained_kill`. This is why `fleet_retain`
  has no crash. A worker that shuts down does the same (`NoOverlap`, `ReadyDeviceIdle`).
- crash with verifyFail and a proof: a worker killed between a failed verify pass and
  its fault report comes back with a proof that no process survived, and `AutoRecover`
  puts the device back without a verify pass (`SuspectNotHandedOut`). The verdict was
  known to nobody but the worker that died. A reboot with verifyFail loses it likewise.
- slowBeat with kill under retention: a finalized kill is settled by a heartbeat that
  omits the job only because the worker has not received it yet (`NoOverlap`).
- a registration that is handled late, after its sender was handed a job, releases that
  job's device. It takes a worker that has two registrations on their way (`MaxRegister`
  2: with crash, or under retention with reboot) or that gives one up and polls on
  (lateRegister). With slowSpawn a worker registers while a job it has received is not in
  `w.running` yet, and so it seems idle. Under retention these break `NoOverlap` and `ReadyDeviceIdle`; in default
  mode lateRegister and slowSpawn break `ReadyDeviceIdle` already with `MaxRegister` 1.

The last two need a request that takes longer to be served than a later one of the
same worker, or a job that is still not started when the worker registers again. They
are timing assumptions of the design rather than disagreements with something it says,
and so they are not findings. The hypotheses of the theorems of `FleetProofs` are these
limits, written down.

What the other models show the code to do, that a reader might not expect, and that no
document of the repository denies:

- Scheduler. A vanished job whose candidates are all busy reserves them for the rest of
  the pass, since `assignQueued` asks about the device first (`NoneFree`). A selector job
  whose labels cannot be read is skipped and reserves nothing, so a job behind it may take
  its device in that pass (`SkipUnmatched`). Two passes have two snapshots: one with an
  older snapshot can place a job before a newer one of higher priority; `NoOvertaking` is
  about the jobs of one snapshot. A ceiling lowered after the check is not applied to the
  job (`stale`). A pass that fails after it has placed its own job answers the submit with
  an error while the job goes on, and pokes nobody: the worker finds it when its poll
  window ends (`unpoked` in `LongPoll`). A selector submission repeated with its
  idempotency key is refused when the selector matches nothing any more, though its job
  exists (`Resubmit`). A submit that is answered 500 can leave its job queued, to be run for
  nobody (`stranded`): when the read-back after `Enqueue`'s commit fails (queue.go:224,
  client_api.go:634), which nothing undoes (`EnqueueUnread`), or when the cancel fails that
  should undo it (client_api.go:704, `CancelFails`). `AnswersHold` is about the others. A
  repeated submit whose read fails changes nothing and is not a step.
- Scheduler, ceilings. A job with a negative `max_runtime_seconds` is accepted
  (client_api.go:493-621 asks for nothing), passes `ceilingFilter` (queue.go:287,
  `requested <= 0`), inherits no ceiling (allocate.go:294, `ttl == 0`) and is given no
  watchdog (exec.go:211, 223): it runs without limit on a device whose ceiling is, in
  docs/install.md:141, "a ceiling this device enforces on every job". `WithinCeiling` is
  about run times from 0 on; the model has the others too, so that all else is checked with
  them in the queue.
- Exec. `RunReturns` leaves out `HeldOpen`: after SIGKILL `superviseTarget` waits for
  `cmd.Wait`, which waits for the last writer of the output pipe. A process that left the
  group with `setsid` and kept stdout open holds up `Run`, and with it the kill, the
  run-time limit and the sweep that would find it, until it ends of itself. The tests of
  the sweep redirect the output of their escaped process. `Fleet`'s fairness of
  `ProcessEnds` assumes that this does not happen. A run that nobody stopped but that left
  live processes in its group is labelled killed: that is what `finishClean` is for, and
  `NeverRelabelled` is about the others (`messy`).
- Exec, the sweep. `scanLiveProcs` (pty.go:275-298) lists `/proc` and then reads each
  process. One that forks after the listing and has ended when it is read is counted as
  nobody, and its child was not listed: a walk can come out empty with a process of the job
  alive, and `SweepReport.Clean` is then true though its comment says that it was "positively
  established that nothing of this job is left running". `CleanIsTrue` has exactly this as its
  exception (`lost`: it happened in the walk that decided), and `ReapStragglers`, which takes
  its answer from the same kind of walk, may miss a process likewise. In a sweep that goes on
  the next walk repairs it. The survivor scan behind `Proof` in `Fleet` is taken as exact.
- Probes. While a device's own source is out the whole device is frozen, host facts
  included (`Clouded`). A worker restarted while nvidia-smi is gone clears its labels. An
  unreadable probe directory also keeps the labels of an nvidia-smi that was installed
  after the start and has gone again.
- Hooks. The pass at startup has one budget for all devices (worker.go:554); those it does
  not come to are skipped, and their service stays stopped until the next release of the
  device or the next start, as the comment there says ("exactly what the NEXT start's pass
  will attempt again"). An acquire hook that stops the service and then fails, or is
  cancelled, arms no release. `ServiceComesBack` leaves these out (`left`).
- Contact. An answer of a controller process that has been replaced, observed after one of its
  successor, is taken for a change of controller (reconnect.go:122), and the next answer for
  another: a registration is armed that nobody needs (`crossed`). So it is when a registration
  was handled and its answer lost (`unheard`). Both cost one registration made without jobs in
  hand; `NoPhantomGap` says that there is no third case.
- Contact. A debt made between the controller's handling of a registration and the
  worker's `registered()` is settled with that registration (`slipped`).
- Attach. The guard of a blocked write looks for company under the lock and closes the
  pipe outside it, so a reader that arrives in between finds its pipe closed. A worker's
  half can join a session whose output was just closed and is let go at once. A worker
  does not dial its input half again. A client that attaches again after the output ended
  gets a new session that no worker joins, and stays there until it leaves.
- Logs. A chunk that lands after a follower was flushed is not sent to that follower; it
  is in the file. `FlushedAtEnd` is about what was there when the watcher gave the sign. A
  read error other than the end of the file (logstore.go:145) ends a follower where it is
  (`ReadError`, `torn`). A partial write is not modelled: its error leaves bytes that wake
  nobody before the next append or the one-second timer.
- Dashboard. `publishDevices` publishes nothing when its read fails or nobody was subscribed
  when it looked (`SkipPublish`), and the page does not read the state again when its stream
  opens. Then, and after a failed read, the page is behind until its own five-second timer, as
  the comment on `publishDevices` says; `DropIsHarmless` is about the events that are
  published. Reads have no sequence number: an answer that a later one overtook is shown
  until the next read, and is not in the model.
- Notifier. An event that passed the closed check before `Close` and is sent after the
  drain is lost and not counted, as the comment on `Notify` says.
- Long poll. A job that a handler marks running for a worker that has gone is not handed
  out again; `Fleet` has what becomes of it (`AbandonedIsReclaimed`).
- Commands. A submit whose answer is lost leaves its job. When the second read fails, a
  refused kill is reported as "finished before it could be cancelled" though the job may
  run (`ReportUnread`). Submit and the log stream have no timeout (client.go:40-46,
  434-449): on a connection that falls silent without closing, a command stays in them
  though its job is over, until Ctrl-C. `CommandEnds` leaves this out (`Wedged`), and no
  fairness is assumed for it. A second Ctrl-C ends the command on the spot and is not
  modelled.

Bounds. Two jobs on one device are what an overlap needs, and a third adds nothing
a second does not; jobs are symmetric in the safety runs of `Fleet`. One worker is
enough because workers share no row, and one device because no transaction reads one
device's row to decide about another's, except that a device is in `AutoRecover`'s
scope through its worker; `StoreProofs` and `FleetProofs` are for any number of both, and of jobs.
The timing constants are the smallest that keep their order and let each threshold
be met and missed: `Grace` 1 and `UnhealthyAfter` 2 give a device time to be unknown
before it is written off; `LeaseTTL` 1 lets a lease run out before and after that;
two boot ids make one reboot; `RecoveryLimit` 1 lets the flap guard bite. `fleet_live` has one job, since its properties are
about one job and a worker's other work only adds polls; it uses no symmetry.
`MaxRegister` bounds the registrations of a worker in flight. In `Hooks` three jobs give
a late release of the first, a transfer to the second and one to the third; `MaxStop`
bounds crashes and shutdowns, and generations and epochs grow only with jobs, so they
need no bound. No run of `Store` or `Fleet` stops: time goes on in every state. `worker`,
`scheduler` and `services` may stop, when their jobs, events and upsets are used up.

In `Scheduler` two devices and three jobs give a job that waits for either device, one
ahead of it and one behind it; one handler beside the loop gives two passes at a time, and
`SchedulerProofs` is for any number. `MaxChange` bounds failed reads, failed passes,
quarantines and new ceilings and labels together; it is 1 because two of them are no more
than the same from another state. Of the submissions one asks for a negative run time, one
is pinned, one urgent; a job has a choice of two (`MCRequest`). In `Probes` three upsets make an outage, something lost
or restarted during it and its end. In `Exec` two children are one in the group and one
out of it, or a survivor and what it forks; `ExecProofs` is for any number. `Attach` has one
session and its successor, the least that a wrong `forgetLocked` needs. The queue of the
notifier and the buffer of a dashboard are of two, so that they are empty, between and
full; `Attempts` 2 has one pause. Exit code 256 is the least whose low byte is zero.

Fairness (`Fairness` in `Fleet`): time and the reaper's ticker go on; the controller
serves requests; goroutines move on, because hooks, verify passes and reports have
timeouts and attempt limits, and a cancelled process is killed; a poll's response
is not lost every time (the one strong fairness). No heartbeat, registration,
worker restart or end of an uncancelled process is assumed. `retained_lost` adds that
the worker keeps its heartbeat up, so that its counterexample is not about silence.
In `Hooks` the fairness is that hooks and reports are bounded by timeouts and attempts,
timers fire, the mutex is handed on and an ended worker is started again; no job has
to end or to come. In `Scheduler` the ticker keeps the loop going and assigned jobs end,
because a worker reports them or the sweep reclaims them (`fleet_live`); submits and their
handlers owe nothing. In `Probes` the probe loop's ticker goes on and a payload is applied
in the end, since losses are bounded. In `Contact` exchanges go on, the heartbeat's ticker
being their least, and the poll loop comes back to `maybeReregister`. In `Exec` `Run` goes on
and zombies are collected; no process ends by itself. A phase of the sweep looks at its
deadline after each walk, so that it runs out of time however often a walk begins anew (a
strong fairness). In `Attach`, `LogStore` and `Events`
handlers go on, through their write deadlines and tickers if not otherwise; no peer does
anything. In `Notifier` the goroutine goes on, each delivery being bounded by the sink's
timeout. In `LongPoll` handlers go on and the worker polls again. In `RunClient` polls and
kills are answered or time out, a submit is answered while the controller answers at all, and
a stream ends with its job; a wedged submit or stream may stay for ever. Controller restarts are not among the faults of `fleet_live`: a controller that
restarts within every startup window judges nobody, and says so.

## Proofs

`StoreProofs` proves, for every set of workers, devices and jobs and all timing
constants that satisfy `StoreAssumption`:

- `Consistent`: `Spec => []StoreInv`, and from it `TypeCorrect`, `Exclusivity`
  (`OneLeasePerDevice`), `PoolIsFree` (`ReadyIsFree`), `BusyHasLease` (`BusyIsLeased`),
  `LeaseMatchesJob` (`LeaseFollowsJob`) and `ReasonMatchesState` (`ReasonIsCurrent`);
- `OutcomeStands` (`OutcomeIsFinal`), `FaultStands` (`FaultNeedsOperator`) and
  `WindowIsKept` (`WindowJudgesNobody`);
- `Refinement`: `Spec => HeldExclusively`, with the holder of a device read off the
  lease table.

`StoreInv` is the inductive invariant. Exclusivity alone is not inductive: that an
assignment finds no live lease follows from `ReadyIsFree`; that `Release`, `Sweep` and
`RequestKill` keep `ReadyIsFree` needs that the lease they end is the one on the
job's device (`LeaseFollowsJob`) and that no other job has one there
(`OneLeasePerDevice`); `ReasonIsCurrent` carries `FaultStands`, and
`UnplacedUntilAssigned` is what makes a grant a first grant in the refinement. There
is one lemma per action, and `RegisteredDevice` and `HeartenedDevice` for the two
actions that rewrite a device by cases. Because exclusivity is proved with
`ReadyIsFree` and not with the guard `IndexAllows`, the unique index is a second line
of defence in this code and not the first.

`FleetProofs` is about the whole protocol, the controller's store and the workers together, for
any workers, devices and jobs and all timing constants.

- `FleetImplementsStore`: `FleetSpec => Spec`. Every step of `Fleet` is a step of `Store` or
  leaves the store alone, so all that `StoreProofs` proves holds of `Fleet` (`FleetConsistent`).
- `FinishedMeansOver` (`FinishedIsOver`), under all faults and in both modes. `OverInv` adds
  that a job being handed out is new to its worker (`HandedOutNew`), that what a worker has
  begun was marked running before (`BegunIsMarked`), and that a process is under `Run` or its
  worker is gone (`LiveIsRun`): a job is received once, so a report is its last word.
- `NeverTwoOnADevice` (`NoOverlap`) and `PoolIsIdle` (`ReadyDeviceIdle`) in default mode
  (`Timely`), under every fault but lateRegister and slowSpawn, with one registration of a worker
  on its way at a time. Neither is inductive, as a device is handed out on what the
  controller has been told and a process runs where it was told something earlier.
  `ClearInv` connects the two: a registration finds its worker idle and what it says still
  true (`Protocol`); a job that holds its device or is being handed out has the lease, or the
  device is quarantined (`ComingIsLeased`; `LeasedExists` and `WrittenOffIsReaped` carry it);
  and a device is claimed, by a lease or by what runs on it, for one job (`OneClaim`).
- `SteadyNeverTwo` and `SteadyPoolIsIdle`: the same two in both modes, for a worker process
  that stays up or comes back with its host (`Steady`: no crash, shutdown, lateRegister,
  slowSpawn or slowBeat; reboots with one registration on its way). With retention a device
  outlives its lease: the kill of a silent worker's job is finalized while the process still
  runs. So `SteadyInv` says of each job that a worker still has to do with that its device is out
  of the pool, and that the store has the job in flight, has quarantined the device or
  remembers the kill (`KeptIsSafe`); that nobody else has to do with the device (`OneEngaged`);
  and that a heartbeat on its way names all that its worker supervises (`BeatKnows`, part of
  `Attentive`). With these, the heartbeat that settles the kill by leaving the job out comes
  from a worker that is through with it.
- `SuspectStaysOut` (`SuspectNotHandedOut`), in both modes, for workers that are `Steady` and in
  addition `Candid`: no reboot and no fault report lost on every attempt, which leave nobody
  who knows, and no failing acquire hook (`hook_order`). `SuspectIsOut`: a device found unusable
  is quarantined for an operator, or the job that found it so has yet to say it and still has
  the device.

In default mode none of the parts of `Timely` can be left out, and with retention none of
`Steady`: TLC finds a counterexample to `NoOverlap` or `ReadyDeviceIdle` without any one of them
(see Limits). In default mode `Steady` asks for more than is needed, and `Timely` is the theorem
to use. The runs `fleet_default` and `fleet_retain` are instances of `Timely` and `Candid`.

`HooksProofs` proves, for every set of jobs and every `MaxStop`, `HooksConsistent`
(`Spec => []HooksInv`), from it `ReleaseSparesJobs`, `ServiceIsDown` and `ReleaseIsOwed`, and
with these `TurnsAreTaken` (`HooksInTurn`). `HooksInv` says why both counters are needed. `RunningOwns`: the job
that runs has the device's epoch and no other job has it, so a late `scheduleRelease`
cannot match. `OnePending` and `PendingIsIdle`: at most one release carries the current
generation, and while one does the device is held and no job runs; an acquire bumps the
generation and with that leaves none.

`HooksTypeCorrect` is the type part of it. The lemma `CutShort` is for the acquire hook that
fails half way.

`SchedulerProofs` proves `SchedConsistent` (`Spec => []SchedInv`) for any devices, jobs and
handlers, with one lemma per action, and from it `ReservationsHold`, `CeilingsHold`,
`NoWaitIsHonest` and `FailureLeavesNothing` (together `AnswersStand`), and the action property `NobodyOvertaken`.
`HeldForAhead` is not inductive alone: that the job in hand leaves everything it could have
used reserved needs that `avail` is its candidates without what is already reserved
(`Placing`), and `NoOvertaking` needs that the jobs gone past are those ahead of the rest of
the snapshot (`InOrder`). `CeilingChecked` carries `WithinCeiling` through the time between
the check and the assignment, for run times from 0 on; the negative ones are in the
specification that is proved about and outside these two. This is why the code needs no lock around a pass: what it
relies on is all local to the pass or checked again in `assignQueued`.

`ServicesProofs` has four parts. The first proves `NoSecondDelivery` and `NoPokeIsLost` from `PollInv`: a job still
open was delivered to nobody (`Undelivered`), the one live connection carries only jobs that
were not (`LiveCarriesNew`), and a handler past its read has a token or a poke to come for
what it did not see (`Announced`), because it was on the list before it read.

The second, on `Events`, proves `DropsCostNothing`. `DropIsHarmless` is inductive with its types
and with `NothingPosted`, that nothing was published to a page before it connected: a full
buffer is not an empty one, an event taken from it leaves a refetch due, the flag of `nudge` is
down before the refetch goes out, and a read that has not reached the controller yet covers
what was published meanwhile.

`ExecProofs` proves `StopIsReported` and `OutcomeIsKept` (together `OutcomeIsTrue`) and `CleanReportIsTrue` from `ExecInv`
for any number of children. The signal that reached the leader is remembered by the phase
Run is in (`LeaderTold`), the label is fixed by what was delivered and found (`Reasoned`),
and a walk of `/proc` that comes out empty is followed from its listing: `WalkSees` says that
whoever is alive is still to be read, or that a process still to be read has forked, or that
one such was lost. `NobodyNew` is the lemma that steps outside the sweep only take away from this.

The third, on `LogStore`, proves `WakeupsArrive` and `EndIsFlushed` (together `FollowersMissNothing`)
from `LogInv`. `Awaited` is
`NoMissedWakeup` from the moment of the last read on, and `FlushAfterDone` says that a follower
closes by way of the flush only after the sign, unless a read failed (`torn`).

The fourth, on `RunClient`, proves `NoKillForABlip`, and `ZeroIsTrue`, `CancelledIsTrue` and `HoldIsGivenBack`
(together `CommandsAreHonest`) from `RunInv`: a command that is about to kill has a reason (`KillHasReason`), what it said of
the job still holds (`WordsHold`), and so does its exit status (`StatusHolds`), since a job
that is over stays so. `VerdictStatus` is the lemma about `safeExitCode` and the low byte.

`WorkerProofs` proves of `Contact`, for any clock, silence and number of answers,
`NoRegistrationForNothing` (`NoPhantomGap`) and `DebtIsRemembered` (`DebtIsOnTheBooks`). It rests on
`LatestIsKept`: `lastContact` is the newest stamp of an answered exchange, though the answers of
two loops are noted out of order; and on `KnownIsHandler`: an instance later than the one that
handled the last registration is a debt, an earlier one comes from an answer that was overtaken
or lost (`HeardOf` bounds both by the process that runs). Of `Probes` it proves `LabelsSurviveOutage`
(`OutageKeepsLabels`), an action property: what is remembered of a source contains what it named
when it last worked (`MemoryCovers`), and no payload on its way names a device that its pass was
in the dark about (`DarkIsLeftOut`).

`AttachProofs` proves `TerminalEndsMeet` (`EndsMeet`) and `OverStaysOver` (`DeadIsSilent`) for any
number of sessions, halves and pipes. One live session of a job is not inductive: a teardown
is several steps, and another half may come between any two. `AttachInv` says that a half about
to close a session has taken it out of the registry first (`ForgottenFirst`), so the successor is
another one (`ComingIsFresh`), and that of a session's input pipes only the current one is
open (`OneInputPipe`), since `renewIn` replaces only a pipe that is closed.

The assumptions of all of them are the ASSUMEs of the modules: the constants are sets and
numbers of the right kind. `Timely`, `Steady` and `Candid` are hypotheses of theorems and not
assumptions of a module.

Model-checked only: liveness, which is beyond this prover (`AbandonedIsReclaimed`,
`KillTakesEffect`, `ServiceComesBack`, `LabelsFollowSources`, `DebtIsPaid`, `RunReturns`,
`QueueMoves`, `HalvesLetGo`, `StreamEnds`, `CloseReturns`, `CommandEnds`, `WorkIsTaken` and
`NoLeakedStream`). `Notifier` has no property but such a one. Every invariant of a run and every
property of a run that is not of this kind is stated by a theorem.

## Plan

The order was: what keeps two jobs off one device (`Exclusive`, `Store`, `Fleet`), what a job
meets on its way there (`Scheduler`, `Contact`, `Probes`, `Hooks`, `Exec`), and what surrounds it
(`LongPoll`, `LogStore`, `Attach`, `Events`, `Notifier`, `RunClient`), each with its proofs where
the safety is in one component. All of these are done. What is worth adding:

1. `Exec` inside `Fleet`, so that `HeldOpen` can be followed to the device; an orphaned job
   under the startup pass of `Hooks`.
2. A safety property of `Notifier` beyond its close (what a full queue may cost), with its proof.

## Not modelled

- Migrations (`store/migrate.go`): a fixed list of schema changes, each committed with its
  version number in one transaction before anything else runs. The databases they leave
  are initial states of `Store`.
- Worker configuration (`worker/config.go`): parsing and defaults, read once.
- Selectors as text, quantities and probe output formats: parsers over strings, with no
  state. A selector is here the set of labels it accepts.
- Request plumbing (routing, tokens, size limits), views, explain, the dashboard's page and
  the formatting of commands. They keep no state that the properties depend on. Answers
  to two fetches of the dashboard may arrive out of order; its own poll repairs that.
- `rc cp`, and the bytes of logs and terminals: copying over an attached job, whose
  sessions are in `Attach`.
- The order of the shutdown of `rc serve` beyond the notifier's close, and the log shipper
  of the worker.
- In `Exec`: commands that do not start, processes that scrub `RC_JOB_ID` from their
  environment, hosts whose `/proc` cannot be read.

SQL errors abort a transaction and leave its rows unchanged, which is a stuttering step
of `Store`; where a handler goes on from one (`Scheduler`), it is a step.
