----------------------------- MODULE Scheduler -----------------------------
(***************************************************************************)
(* The queue and its scheduling passes.  A pass is run by the scheduler    *)
(* loop and by every submit handler, and any number of them interleave:    *)
(* each reads the queue once, then visits the jobs of that snapshot in     *)
(* order, and only the assignment of one job to one device is a            *)
(* transaction.  Devices are natural numbers, so that "sorted by id" is    *)
(* their order, and a job is the number of its row.  A label is the value  *)
(* of one key, absent when None; a selector is the set of values it        *)
(* accepts.                                                                *)
(*                                                                         *)
(* The reservations table is written by a pass and read by nothing, so     *)
(* only the pass's own map `reserved` is kept.                             *)
(***************************************************************************)
EXTENDS Integers

CONSTANTS
  Device, Job, Handler,
  Loop,        \* the scheduler loop's own passes
  Label,       \* the values of the label
  Runtime,     \* run times and ceilings; 0 is none, and less is no limit
  Request,     \* the submissions that may become each row
  Declared,    \* the ceilings declared first
  Ceiling,     \* the ceilings that may be declared later
  None,
  MaxChange    \* bound: changes of labels, ceilings and the pool, and errors

Pass == Handler \cup {Loop}

(* A registration writes a negative ceiling as none; a submission's run     *)
(* time is stored as it was sent, whatever its sign.                        *)
Limit == Runtime \cap Nat

Submission ==
  [pin : Device \cup {None}, sel : SUBSET Label, asks : Runtime, prio : Nat,
   nowait : BOOLEAN, key : Nat \cup {None}]

ASSUME SchedulerAssumption ==
  /\ Device \subseteq Nat /\ Job \subseteq Nat
  /\ None \notin Device \cup Job \cup Label
  /\ Loop \notin Handler
  /\ Runtime \subseteq Int /\ 0 \in Runtime
  /\ Declared \in [Device -> Limit] /\ Ceiling \subseteq Limit
  /\ MaxChange \in Nat
  /\ Request \in [Job -> SUBSET Submission]

VARIABLES
  dev,        \* devices.state: ready, busy, or out for the states between
  ceil,       \* devices.max_runtime
  label,      \* the effective label
  job,        \* jobs.state; over stands for every end but killed
  want,       \* the submission a job's row was made from
  asks,       \* jobs.max_runtime
  at,         \* jobs.device_id once assigned
  pc, mine,   \* where each pass or handler is; the job a handler submitted
  hurry,      \* the handlers whose request said no-wait
  todo, seen, \* the snapshot: jobs still to visit, jobs gone past
  cur,        \* the job being placed
  avail, untried, reserved,
  cand,       \* history: the candidates a pass found for each job it visited
  refused, kept, abandoned,  \* history: jobs answered 409, 201 to no-wait, 500
  stranded,   \* history: those of a 500 that its handler left in the queue
  stale,      \* history: jobs whose device changed its ceiling after the check
  changes

envVars == <<ceil, label, changes>>
rowVars == <<job, want, asks, at>>
walkVars == <<todo, seen, cur, avail, untried, reserved, cand>>
answerVars == <<refused, kept, abandoned, stranded>>
schedVars == <<dev, ceil, label, job, want, asks, at, pc, mine, hurry,
               todo, seen, cur, avail, untried, reserved, cand, refused, kept,
               abandoned, stranded, stale, changes>>

NoRequest == [pin |-> None, sel |-> {}, asks |-> 0, prio |-> 0,
              nowait |-> FALSE, key |-> None]
-----------------------------------------------------------------------------
Init ==
  /\ dev = [d \in Device |-> "ready"]
  /\ ceil = Declared
  /\ label \in [Device -> Label]
  /\ job = [j \in Job |-> "absent"]
  /\ want = [j \in Job |-> NoRequest]
  /\ asks = [j \in Job |-> 0]
  /\ at = [j \in Job |-> None]
  /\ pc = [p \in Pass |-> "idle"]
  /\ mine = [h \in Handler |-> None]
  /\ hurry = {}
  /\ todo = [p \in Pass |-> {}]
  /\ seen = [p \in Pass |-> {}]
  /\ cur = [p \in Pass |-> None]
  /\ avail = [p \in Pass |-> {}]
  /\ untried = [p \in Pass |-> {}]
  /\ reserved = [p \in Pass |-> {}]
  /\ cand = [p \in Pass |-> [j \in Job |-> {}]]
  /\ refused = {} /\ kept = {} /\ abandoned = {} /\ stranded = {}
  /\ stale = {}
  /\ changes = 0

Queued == {j \in Job : job[j] = "queued"}

(* QueuedJobs: ORDER BY priority DESC, queued_at, rowid.  The clock is read  *)
(* just before the insert; the two are one step here, and nothing below      *)
(* depends on which of two submissions of one instant gets the lower row.    *)
Ahead(a, b) == \/ want[a].prio > want[b].prio
               \/ want[a].prio = want[b].prio /\ a < b

(* Selector.Match over the label snapshot: an absent label never matches. *)
MatchingDevices(sel) == {d \in Device : label[d] # None /\ label[d] \in sel}

(* Any match will do, whatever its ceiling. *)
CeilingFilter_Off(matches, requested) == matches

(* A device without a ceiling takes any run time, and a job without a run   *)
(* time goes anywhere: it inherits the ceiling of the device it lands on.   *)
(* A negative run time goes anywhere too, and inherits nothing.             *)
CeilingFilter(matches, requested) ==
  {d \in matches : requested <= 0 \/ ceil[d] = 0 \/ ceil[d] >= requested}

Candidates(j) ==
  IF want[j].pin # None THEN {want[j].pin}
  ELSE CeilingFilter(MatchingDevices(want[j].sel), asks[j])
-----------------------------------------------------------------------------
(* Enqueue: what submission r is accepted as.  A pinned job is checked      *)
(* against its device's ceiling, and inherits it when it asks for nothing;  *)
(* a selector job needs one match that tolerates what it asks for.          *)
Acceptable(r) ==
  IF r.pin # None THEN ceil[r.pin] = 0 \/ r.asks <= ceil[r.pin]
  ELSE CeilingFilter(MatchingDevices(r.sel), r.asks) # {}

Granted(r) == IF r.pin # None /\ r.asks = 0 THEN ceil[r.pin] ELSE r.asks

SameKey(r) == {j \in Job : job[j] # "absent" /\ r.key # None
                                             /\ want[j].key = r.key}

(* handleSubmit up to and including Enqueue, for a request that makes a row. *)
(* A refused request changes nothing and is not a step.                      *)
Submit(h, r, j) ==
  /\ pc[h] = "idle" /\ job[j] = "absent"
  /\ \A i \in Job : i < j => job[i] # "absent"
  /\ Acceptable(r) /\ SameKey(r) = {}
  /\ job' = [job EXCEPT ![j] = "queued"]
  /\ want' = [want EXCEPT ![j] = r]
  /\ asks' = [asks EXCEPT ![j] = Granted(r)]
  /\ mine' = [mine EXCEPT ![h] = j]
  /\ hurry' = IF r.nowait THEN hurry \cup {h} ELSE hurry
  /\ pc' = [pc EXCEPT ![h] = "schedule"]
  /\ UNCHANGED <<dev, envVars, at, walkVars, answerVars, stale>>

(* The row is committed and the read that follows fails: the caller is told  *)
(* that the job could not be queued, and nobody takes it out again.          *)
EnqueueUnread(h, r, j) ==
  /\ pc[h] = "idle" /\ job[j] = "absent"
  /\ \A i \in Job : i < j => job[i] # "absent"
  /\ Acceptable(r) /\ SameKey(r) = {}
  /\ changes < MaxChange /\ changes' = changes + 1
  /\ job' = [job EXCEPT ![j] = "queued"]
  /\ want' = [want EXCEPT ![j] = r]
  /\ asks' = [asks EXCEPT ![j] = Granted(r)]
  /\ abandoned' = abandoned \cup {j} /\ stranded' = stranded \cup {j}
  /\ UNCHANGED <<dev, ceil, label, at, pc, mine, hurry, walkVars, refused,
                 kept, stale>>

(* The same with an idempotency key that already names a job.  A selector   *)
(* is resolved before the key is looked up, a pin after it.                 *)
Resubmit(h, r, j) ==
  /\ pc[h] = "idle" /\ j \in SameKey(r)
  /\ r.pin = None => Acceptable(r)
  /\ mine' = [mine EXCEPT ![h] = j]
  /\ hurry' = IF r.nowait THEN hurry \cup {h} ELSE hurry
  /\ pc' = [pc EXCEPT ![h] = "schedule"]
  /\ UNCHANGED <<dev, envVars, rowVars, walkVars, answerVars, stale>>

(* ScheduleOnce reads the queue.  The loop starts a pass at its ticker, a   *)
(* handler once its job is queued.  With an empty queue there is no pass.   *)
StartPass(p) ==
  /\ pc[p] = IF p = Loop THEN "idle" ELSE "schedule"
  /\ Queued # {}
  /\ pc' = [pc EXCEPT ![p] = "visit"]
  /\ todo' = [todo EXCEPT ![p] = Queued]
  /\ UNCHANGED <<dev, envVars, rowVars, mine, hurry, seen, cur, avail, untried,
                 reserved, cand, answerVars, stale>>

(* The handler's job was cancelled, or placed by another pass, and the      *)
(* queue is empty.                                                          *)
EmptyPass(h) ==
  /\ pc[h] = "schedule" /\ Queued = {}
  /\ pc' = [pc EXCEPT ![h] = "read"]
  /\ UNCHANGED <<dev, envVars, rowVars, mine, hurry, walkVars, answerVars,
                 stale>>

Available(p, j) == Candidates(j) \ reserved[p]

First(p, j) == j \in todo[p] /\ \A i \in todo[p] \ {j} : Ahead(j, i)

(* The pass comes to the next job of its snapshot and finds that it has no  *)
(* candidate, or that all are reserved by jobs ahead of it.                 *)
GoBy(p, j) ==
  /\ pc[p] = "visit" /\ First(p, j) /\ Available(p, j) = {}
  /\ todo' = [todo EXCEPT ![p] = @ \ {j}]
  /\ seen' = [seen EXCEPT ![p] = @ \cup {j}]
  /\ cand' = [cand EXCEPT ![p][j] = Candidates(j)]
  /\ UNCHANGED <<dev, envVars, rowVars, pc, mine, hurry, cur, avail, untried,
                 reserved, answerVars, stale>>

(* The label snapshot or the ceilings could not be read: the job is skipped  *)
(* for this pass and reserves nothing, so that one bad row does not stop the *)
(* fleet.  To the pass it has no candidate.                                  *)
SkipUnmatched(p, j) ==
  /\ pc[p] = "visit" /\ First(p, j) /\ want[j].pin = None
  /\ changes < MaxChange /\ changes' = changes + 1
  /\ todo' = [todo EXCEPT ![p] = @ \ {j}]
  /\ seen' = [seen EXCEPT ![p] = @ \cup {j}]
  /\ cand' = [cand EXCEPT ![p][j] = {}]
  /\ UNCHANGED <<dev, ceil, label, rowVars, pc, mine, hurry, cur, avail,
                 untried, reserved, answerVars, stale>>

(* It finds something to try. *)
TakeUp(p, j) ==
  /\ pc[p] = "visit" /\ First(p, j) /\ Available(p, j) # {}
  /\ pc' = [pc EXCEPT ![p] = "try"]
  /\ todo' = [todo EXCEPT ![p] = @ \ {j}]
  /\ cur' = [cur EXCEPT ![p] = j]
  /\ cand' = [cand EXCEPT ![p][j] = Candidates(j)]
  /\ avail' = [avail EXCEPT ![p] = Available(p, j)]
  /\ untried' = [untried EXCEPT ![p] = Available(p, j)]
  /\ UNCHANGED <<dev, envVars, rowVars, mine, hurry, seen, reserved,
                 answerVars, stale>>

(* available is tried in order of device id. *)
Trying(p, d) == /\ pc[p] = "try" /\ d \in untried[p]
               /\ \A e \in untried[p] : d <= e

GoPast(p) ==
  /\ pc' = [pc EXCEPT ![p] = "visit"]
  /\ seen' = [seen EXCEPT ![p] = @ \cup {cur[p]}]
  /\ cur' = [cur EXCEPT ![p] = None]
  /\ avail' = [avail EXCEPT ![p] = {}]
  /\ untried' = [untried EXCEPT ![p] = {}]

(* assignQueued: one transaction.  Only a job that asks for no run time     *)
(* takes the ceiling of the device it lands on.                             *)
AssignQueued(p, d) ==
  /\ Trying(p, d)
  /\ dev[d] = "ready" /\ job[cur[p]] = "queued"
  /\ dev' = [dev EXCEPT ![d] = "busy"]
  /\ job' = [job EXCEPT ![cur[p]] = "assigned"]
  /\ at' = [at EXCEPT ![cur[p]] = d]
  /\ asks' = [asks EXCEPT ![cur[p]] = IF @ = 0 THEN ceil[d] ELSE @]
  /\ GoPast(p)
  /\ UNCHANGED <<envVars, want, mine, hurry, todo, reserved, cand,
                 answerVars, stale>>

(* errJobNoLongerQueued: the job was cancelled, or another pass placed it.  *)
Vanished(p, d) ==
  /\ Trying(p, d)
  /\ dev[d] = "ready" /\ job[cur[p]] # "queued"
  /\ GoPast(p)
  /\ UNCHANGED <<dev, envVars, rowVars, mine, hurry, todo, reserved, cand,
                 answerVars, stale>>

(* ErrNoDevice: the next candidate is tried. *)
NotFree(p, d) ==
  /\ Trying(p, d)
  /\ dev[d] # "ready" /\ untried[p] # {d}
  /\ untried' = [untried EXCEPT ![p] = @ \ {d}]
  /\ UNCHANGED <<dev, envVars, rowVars, pc, mine, hurry, todo, seen, cur, avail,
                 reserved, cand, answerVars, stale>>

(* Only the last candidate is reserved. *)
NoneFree_HoldsOne(p, d) ==
  /\ Trying(p, d)
  /\ dev[d] # "ready" /\ untried[p] = {d}
  /\ reserved' = [reserved EXCEPT ![p] = @ \cup {d}]
  /\ GoPast(p)
  /\ UNCHANGED <<dev, envVars, rowVars, mine, hurry, todo, cand, answerVars,
                 stale>>

(* ErrNoDevice from the last one: all that was available is held.  The      *)
(* device is asked about before the job, so a vanished job whose candidates *)
(* are all taken holds them too.                                            *)
NoneFree(p, d) ==
  /\ Trying(p, d)
  /\ dev[d] # "ready" /\ untried[p] = {d}
  /\ reserved' = [reserved EXCEPT ![p] = @ \cup avail[p]]
  /\ GoPast(p)
  /\ UNCHANGED <<dev, envVars, rowVars, mine, hurry, todo, cand, answerVars,
                 stale>>

(* The reservations of the pass left standing for the next one. *)
Clear_KeepsReserved(p) ==
  /\ todo' = [todo EXCEPT ![p] = {}]
  /\ seen' = [seen EXCEPT ![p] = {}]
  /\ cur' = [cur EXCEPT ![p] = None]
  /\ avail' = [avail EXCEPT ![p] = {}]
  /\ untried' = [untried EXCEPT ![p] = {}]
  /\ cand' = [cand EXCEPT ![p] = [j \in Job |-> {}]]
  /\ UNCHANGED reserved

(* The variables of ScheduleOnce end with it: reservations are rebuilt from *)
(* scratch by every pass.                                                   *)
Clear(p) ==
  /\ todo' = [todo EXCEPT ![p] = {}]
  /\ seen' = [seen EXCEPT ![p] = {}]
  /\ cur' = [cur EXCEPT ![p] = None]
  /\ avail' = [avail EXCEPT ![p] = {}]
  /\ untried' = [untried EXCEPT ![p] = {}]
  /\ reserved' = [reserved EXCEPT ![p] = {}]
  /\ cand' = [cand EXCEPT ![p] = [j \in Job |-> {}]]

EndPass(p) ==
  /\ pc[p] = "visit" /\ todo[p] = {}
  /\ pc' = [pc EXCEPT ![p] = IF p = Loop THEN "idle" ELSE "read"]
  /\ Clear(p)
  /\ UNCHANGED <<dev, envVars, rowVars, mine, hurry, answerVars, stale>>

(* A store error ends the pass where it is: what it assigned stays assigned. *)
(* The loop logs it and waits for its next tick.                             *)
FailPass(p) ==
  /\ pc[p] \in {"visit", "try"} /\ changes < MaxChange
  /\ changes' = changes + 1
  /\ pc' = [pc EXCEPT ![p] = IF p = Loop THEN "idle" ELSE "abandon"]
  /\ Clear(p)
  /\ UNCHANGED <<dev, ceil, label, rowVars, mine, hurry, answerVars, stale>>
-----------------------------------------------------------------------------
(* CancelQueued on job j: whether it is still queued decides. *)
Cancelled(j) == [job EXCEPT ![j] = IF @ = "queued" THEN "killed" ELSE @]

Answer(h) ==
  /\ pc' = [pc EXCEPT ![h] = "idle"]
  /\ mine' = [mine EXCEPT ![h] = None]
  /\ hurry' = hurry \ {h}

(* abandonQueuedJob, after a failed pass or read-back, when its cancel goes  *)
(* through.  A pass that failed may have placed the job first.               *)
AbandonQueuedJob(h) ==
  /\ pc[h] = "abandon"
  /\ job' = Cancelled(mine[h])
  /\ abandoned' = abandoned \cup {mine[h]}
  /\ Answer(h)
  /\ UNCHANGED <<dev, envVars, want, asks, at, walkVars, refused,
                 kept, stranded, stale>>

(* Its cancel fails as well, or the no-wait cancel fails, or the read after  *)
(* a lost race: a 500, with the job as it is.                                *)
CancelFails(h) ==
  /\ \/ pc[h] = "abandon" /\ UNCHANGED changes
     \/ pc[h] = "cancel" /\ changes < MaxChange /\ changes' = changes + 1
  /\ abandoned' = abandoned \cup {mine[h]}
  /\ stranded' = stranded \cup ({mine[h]} \cap Queued)
  /\ Answer(h)
  /\ UNCHANGED <<dev, ceil, label, rowVars, walkVars, refused, kept, stale>>

(* The read-back answers 201 with the job as it is. *)
AnswerCreated(h) ==
  /\ pc[h] = "read"
  /\ h \in hurry => job[mine[h]] # "queued"
  /\ kept' = IF h \in hurry THEN kept \cup {mine[h]} ELSE kept
  /\ Answer(h)
  /\ UNCHANGED <<dev, envVars, rowVars, walkVars, refused, abandoned,
                 stranded, stale>>

(* It finds a no-wait job still queued. *)
FoundWaiting(h) ==
  /\ pc[h] = "read" /\ h \in hurry /\ job[mine[h]] = "queued"
  /\ pc' = [pc EXCEPT ![h] = "cancel"]
  /\ UNCHANGED <<dev, envVars, rowVars, mine, hurry, walkVars, answerVars, stale>>

FailReadBack(h) ==
  /\ pc[h] = "read" /\ changes < MaxChange
  /\ changes' = changes + 1
  /\ pc' = [pc EXCEPT ![h] = "abandon"]
  /\ UNCHANGED <<dev, ceil, label, rowVars, mine, hurry, walkVars, answerVars,
                 stale>>

(* The no-wait cancel, and its 409. *)
CancelNoWait(h) ==
  /\ pc[h] = "cancel" /\ job[mine[h]] = "queued"
  /\ job' = Cancelled(mine[h])
  /\ refused' = refused \cup {mine[h]}
  /\ Answer(h)
  /\ UNCHANGED <<dev, envVars, want, asks, at, walkVars, kept, abandoned,
                 stranded, stale>>

(* The outcome of the cancel is not looked at. *)
LostRace_Refuses(h) ==
  /\ pc[h] = "cancel" /\ job[mine[h]] # "queued"
  /\ refused' = refused \cup {mine[h]}
  /\ Answer(h)
  /\ UNCHANGED <<dev, envVars, rowVars, walkVars, kept, abandoned, stranded,
                 stale>>

(* A pass took the job between the read and the cancel: it is reported as   *)
(* any other submit would report it.                                        *)
LostRace(h) ==
  /\ pc[h] = "cancel" /\ job[mine[h]] # "queued"
  /\ kept' = kept \cup {mine[h]}
  /\ Answer(h)
  /\ UNCHANGED <<dev, envVars, rowVars, walkVars, refused, abandoned,
                 stranded, stale>>
-----------------------------------------------------------------------------
(* rc kill on a queued job. *)
KillQueued(j) ==
  /\ job[j] = "queued"
  /\ job' = Cancelled(j)
  /\ UNCHANGED <<dev, envVars, want, asks, at, pc, mine, hurry,
                 walkVars, answerVars, stale>>

(* Release: an assigned job ends, however it does, and its device is free   *)
(* unless it was taken out of the pool meanwhile.                           *)
Release(j) ==
  /\ job[j] = "assigned"
  /\ job' = [job EXCEPT ![j] = "over"]
  /\ dev' = [dev EXCEPT ![at[j]] = IF @ = "busy" THEN "ready" ELSE @]
  /\ UNCHANGED <<envVars, want, asks, at, pc, mine, hurry, walkVars,
                 answerVars, stale>>

(* A device leaves the pool, whatever it is doing. *)
Quarantine(d) ==
  /\ changes < MaxChange /\ changes' = changes + 1
  /\ dev[d] # "out"
  /\ dev' = [dev EXCEPT ![d] = "out"]
  /\ UNCHANGED <<ceil, label, rowVars, pc, mine, hurry, walkVars, answerVars,
                 stale>>

(* It comes back once nobody holds it. *)
Return(d) ==
  /\ dev[d] = "out" /\ \A j \in Job : at[j] = d => job[j] # "assigned"
  /\ dev' = [dev EXCEPT ![d] = "ready"]
  /\ UNCHANGED <<envVars, rowVars, pc, mine, hurry, walkVars, answerVars,
                 stale>>

(* The jobs whose run time was checked against d's ceiling as it is now. *)
CheckedOn(d) ==
  {j \in Job : \/ at[j] = d
               \/ want[j].pin = d
               \/ \E p \in Pass : cur[p] = j /\ d \in avail[p]}

(* A registration declares another ceiling for d, or reports another label. *)
SetDeviceMaxRuntime(d, c) ==
  /\ changes < MaxChange /\ changes' = changes + 1
  /\ c # ceil[d]
  /\ ceil' = [ceil EXCEPT ![d] = c]
  /\ stale' = stale \cup CheckedOn(d)
  /\ UNCHANGED <<dev, label, rowVars, pc, mine, hurry, walkVars, answerVars>>

ReplaceLabels(d, l) ==
  /\ changes < MaxChange /\ changes' = changes + 1
  /\ l # label[d]
  /\ label' = [label EXCEPT ![d] = l]
  /\ UNCHANGED <<dev, ceil, rowVars, pc, mine, hurry, walkVars, answerVars,
                 stale>>

PassStep(p) ==
  \/ StartPass(p) \/ EndPass(p) \/ FailPass(p)
  \/ \E j \in Job : GoBy(p, j) \/ SkipUnmatched(p, j) \/ TakeUp(p, j)
  \/ \E d \in Device : \/ AssignQueued(p, d) \/ Vanished(p, d)
                       \/ NotFree(p, d) \/ NoneFree(p, d)

HandlerStep(h) ==
  \/ \E j \in Job : \E r \in Request[j] :
       Submit(h, r, j) \/ EnqueueUnread(h, r, j) \/ Resubmit(h, r, j)
  \/ EmptyPass(h) \/ AbandonQueuedJob(h) \/ CancelFails(h) \/ FailReadBack(h)
  \/ AnswerCreated(h) \/ FoundWaiting(h) \/ CancelNoWait(h) \/ LostRace(h)

DeviceStep(d) ==
  \/ Quarantine(d) \/ Return(d)
  \/ \E c \in Ceiling : SetDeviceMaxRuntime(d, c)
  \/ \E l \in Label \cup {None} : ReplaceLabels(d, l)

Next ==
  \/ \E p \in Pass : PassStep(p)
  \/ \E h \in Handler : HandlerStep(h)
  \/ \E j \in Job : KillQueued(j) \/ Release(j)
  \/ \E d \in Device : DeviceStep(d)

(* The loop's ticker goes on and its pass moves on; jobs end.  No handler   *)
(* has to run, and nobody has to submit, kill or change anything.           *)
Fairness == /\ WF_schedVars(PassStep(Loop))
            /\ \A j \in Job : WF_schedVars(Release(j))

Spec == Init /\ [][Next]_schedVars /\ Fairness
-----------------------------------------------------------------------------
RowsTyped ==
  /\ dev \in [Device -> {"ready", "busy", "out"}]
  /\ ceil \in [Device -> Limit]
  /\ label \in [Device -> Label \cup {None}]
  /\ job \in [Job -> {"absent", "queued", "assigned", "killed", "over"}]
  /\ want \in [Job -> Submission]
  /\ asks \in [Job -> Runtime]
  /\ at \in [Job -> Device \cup {None}]

PassTyped ==
  /\ pc \in [Pass -> {"idle", "schedule", "visit", "try", "read", "cancel",
                      "abandon"}]
  /\ todo \in [Pass -> SUBSET Job] /\ seen \in [Pass -> SUBSET Job]
  /\ cur \in [Pass -> Job \cup {None}]
  /\ avail \in [Pass -> SUBSET Device]
  /\ untried \in [Pass -> SUBSET Device]
  /\ reserved \in [Pass -> SUBSET Device]
  /\ cand \in [Pass -> [Job -> SUBSET Device]]

HandlerTyped ==
  /\ mine \in [Handler -> Job \cup {None}]
  /\ hurry \subseteq Handler
  /\ refused \subseteq Job /\ kept \subseteq Job /\ abandoned \subseteq Job
  /\ stranded \subseteq Job
  /\ stale \subseteq Job /\ changes \in 0..MaxChange

TypeOK == RowsTyped /\ PassTyped /\ HandlerTyped

(* Once a pass has gone past a job and left it in the queue, everything the *)
(* job could have used is reserved for the rest of the pass (ScheduleOnce   *)
(* holds "all of it for this job so later jobs cannot jump ahead of it").   *)
HeldForAhead ==
  \A p \in Pass : \A j \in seen[p] :
    job[j] = "queued" => cand[p][j] \subseteq reserved[p]

(* No pass gives a device to a job while a job ahead of it in the pass's    *)
(* snapshot is still queued and could have used that device.                *)
NoOvertaking ==
  [][\A p \in Pass, b \in Job, d \in Device :
       pc[p] = "try" /\ cur[p] = b /\ AssignQueued(p, d)
       => \A a \in (seen[p] \cup todo[p]) \ {b} :
            Ahead(a, b) /\ job[a] = "queued" => d \notin cand[p][a]]_schedVars

(* A job on a device with a ceiling has a run time within it, whether it    *)
(* asked for one, inherited it at submission or only where it landed;       *)
(* unless the ceiling was changed after the check, or the submission asked  *)
(* for a negative run time: ceilingFilter lets that through to any device,  *)
(* neither Enqueue nor assignQueued replaces it, and the worker takes it    *)
(* for no limit.                                                            *)
WithinCeiling ==
  \A j \in Job \ stale :
    at[j] # None /\ ceil[at[j]] > 0 /\ asks[j] >= 0
    => asks[j] \in 1..ceil[at[j]]

(* A no-wait request answered 409 never runs, now or later; one answered    *)
(* 201 is not in the queue.                                                 *)
NoWaitAnswer ==
  /\ \A j \in refused : job[j] = "killed" /\ at[j] = None
  /\ \A j \in kept : job[j] # "queued"

(* A submit that answered with an error leaves nothing in the queue for a   *)
(* later pass to start (abandonQueuedJob), but for the two cases in which   *)
(* the code gives up: the row was committed and could not be read back, or  *)
(* the cancel failed too.  A job its own failed pass had placed is out of   *)
(* the queue and runs.                                                      *)
AbandonedNotQueued == \A j \in abandoned \ stranded : job[j] # "queued"

(* What a submit was told stays true, whichever pass gets to its job: a 409  *)
(* never runs, a 201 to a no-wait submit is out of the queue, and so is the  *)
(* job of a 500 whose handler could still cancel it.  (handleSubmit's        *)
(* read-back, CancelQueued and abandonQueuedJob.)                            *)
AnswersHold == NoWaitAnswer /\ AbandonedNotQueued

(* What a pass has in hand while it places a job, and otherwise. *)
Placing ==
  \A p \in Pass : pc[p] = "try" =>
    /\ cur[p] \in Job \ (seen[p] \cup todo[p])
    /\ untried[p] \subseteq avail[p]
    /\ avail[p] = cand[p][cur[p]] \ reserved[p]

NotPlacing ==
  \A p \in Pass :
    /\ pc[p] # "try" => cur[p] = None /\ avail[p] = {} /\ untried[p] = {}
    /\ pc[p] \notin {"visit", "try"} =>
         todo[p] = {} /\ seen[p] = {} /\ reserved[p] = {}

(* A pass has only jobs of the database in its snapshot. *)
SnapshotRows ==
  \A p \in Pass, j \in Job :
    j \in seen[p] \/ j \in todo[p] \/ cur[p] = j => job[j] # "absent"

(* The snapshot is visited in queue order. *)
InOrder ==
  \A p \in Pass :
    /\ \A a \in seen[p], b \in todo[p] : Ahead(a, b)
    /\ pc[p] = "try" => /\ \A a \in seen[p] : Ahead(a, cur[p])
                        /\ \A b \in todo[p] : Ahead(cur[p], b)

Fits(time, limit) == time <= 0 \/ limit = 0 \/ time <= limit

(* What is known of a queued job's run time: of a pinned one since it was   *)
(* submitted, of another while a pass is placing it.                        *)
CeilingChecked ==
  \A j \in Job \ stale :
    job[j] = "queued" =>
      /\ want[j].pin # None /\ ceil[want[j].pin] > 0 /\ asks[j] >= 0
         => asks[j] \in 1..ceil[want[j].pin]
      /\ \A p \in Pass : cur[p] = j =>
           \A d \in avail[p] : Fits(asks[j], ceil[d])

(* Rows agree with one another and with the handlers that follow them. *)
RowsAgree ==
  /\ \A j \in Job : at[j] # None => job[j] \in {"assigned", "over"}
  /\ \A j \in Job : job[j] = "assigned" => at[j] \in Device
  /\ \A h \in Handler : pc[h] # "idle" => mine[h] \in Job
                                          /\ job[mine[h]] # "absent"
  /\ \A j \in kept \cup abandoned : job[j] # "absent"

(* The inductive invariant: a pass keeps its place in the queue, its        *)
(* reservations cover everything it has gone past, and what it was told of  *)
(* run times and cancels still holds when it is used.                       *)
SchedInv == /\ TypeOK /\ Placing /\ NotPlacing /\ SnapshotRows
            /\ InOrder /\ RowsAgree
            /\ HeldForAhead /\ CeilingChecked /\ WithinCeiling
            /\ NoWaitAnswer /\ AbandonedNotQueued

(* A job does not stay queued for ever while one of its candidates stays in *)
(* the pool: the loop does not stop at a job ahead of it, and holds for     *)
(* those ahead end.                                                         *)
QueueMoves ==
  \A j \in Job :
    []<>(job[j] # "queued" \/ \A d \in Candidates(j) : dev[d] = "out")
=============================================================================
