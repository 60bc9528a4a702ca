-------------------------- MODULE SchedulerProofs --------------------------
(***************************************************************************)
(* Proofs about Scheduler, for any number of devices, jobs and submit      *)
(* handlers, any submissions, labels and ceilings.  SchedInv is inductive: *)
(* one lemma per action, one step per conjunct.                            *)
(***************************************************************************)
EXTENDS Scheduler, TLAPS

(* Every initial state satisfies the invariant: nothing is queued and no    *)
(* pass is under way.                                                       *)
LEMMA InitInv == Init => SchedInv
  BY SchedulerAssumption
  DEF Init, SchedInv, TypeOK, RowsTyped, PassTyped, HandlerTyped, Placing, NotPlacing, SnapshotRows, InOrder, RowsAgree, HeldForAhead,
      CeilingChecked, WithinCeiling, NoWaitAnswer, AbandonedNotQueued,
      NoRequest, Submission, Pass, Limit

(* What Enqueue records as a job's run time is one. *)
LEMMA GrantedType ==
  ASSUME TypeOK, NEW j \in Job, NEW r \in Request[j]
  PROVE  Granted(r) \in Runtime
  <1>1. r \in Submission
    BY SchedulerAssumption
  <1>2. r.asks \in Runtime /\ r.pin \in Device \cup {None}
    BY <1>1 DEF Submission
  <1> QED
    BY <1>2 DEF Granted, TypeOK, RowsTyped, Limit

(* The candidates of a queued job are devices. *)
LEMMA CandidatesType ==
  ASSUME TypeOK, NEW j \in Job
  PROVE  Candidates(j) \subseteq Device
  <1>1. want[j].pin \in Device \cup {None}
    BY DEF TypeOK, RowsTyped, Submission
  <1> QED
    BY <1>1 DEF Candidates, CeilingFilter, MatchingDevices

(* No job is ahead of itself. *)
LEMMA NotAheadOfItself ==
  ASSUME TypeOK, NEW j \in Job
  PROVE  ~Ahead(j, j)
  <1>1. j \in Nat /\ want[j].prio \in Nat
    BY SchedulerAssumption DEF TypeOK, RowsTyped, Submission
  <1> QED
    BY <1>1 DEF Ahead

(* Every candidate of a queued job tolerates its run time: a pinned one was *)
(* checked when it was submitted, any other by the filter.                  *)
LEMMA CandidatesFit ==
  ASSUME SchedInv, NEW j \in Job \ stale, job[j] = "queued"
  PROVE  \A d \in Candidates(j) : Fits(asks[j], ceil[d])
  <1>1. CASE want[j].pin # None
    <2>1. Candidates(j) = {want[j].pin} /\ want[j].pin \in Device
      BY <1>1 DEF Candidates, SchedInv, TypeOK, RowsTyped, Submission
    <2>2. asks[j] \in Int /\ ceil[want[j].pin] \in Nat
      BY <2>1, SchedulerAssumption DEF SchedInv, TypeOK, RowsTyped, Limit
    <2> QED
      BY <1>1, <2>1, <2>2 DEF SchedInv, CeilingChecked, Fits
  <1>2. CASE want[j].pin = None
    <2>1. asks[j] \in Int /\ \A d \in Device : ceil[d] \in Nat
      BY SchedulerAssumption DEF SchedInv, TypeOK, RowsTyped, Limit
    <2> QED
      BY <1>2, <2>1 DEF Candidates, CeilingFilter, MatchingDevices, Fits
  <1> QED
    BY <1>1, <1>2

(* Preservation by Submit: a submission becomes the next row; no pass has   *)
(* it in its snapshot.                                                      *)
LEMMA SubmitKeeps ==
  ASSUME SchedInv, NEW h \in Handler, NEW j \in Job, NEW r \in Request[j], Submit(h, r, j)
  PROVE  SchedInv'
  <1> USE SchedulerAssumption DEF SchedInv, Submit, Acceptable, Granted, envVars, rowVars, walkVars, answerVars
  <1>0. h \in Pass BY DEF Pass
  <1>1. RowsTyped'
    <2>1. Granted(r) \in Runtime
      BY GrantedType
    <2>2. r \in Submission
      BY SchedulerAssumption
    <2> HIDE DEF Granted, Acceptable
    <2> QED BY <2>1, <2>2 DEF RowsTyped, TypeOK
  <1>2. PassTyped'
    BY <1>0 DEF PassTyped, TypeOK, RowsTyped, HandlerTyped, Placing
  <1>3. HandlerTyped'
    BY <1>0 DEF HandlerTyped, TypeOK, RowsTyped, PassTyped, RowsAgree
  <1>4. Placing'
    BY <1>0 DEF Placing, TypeOK, RowsTyped, PassTyped, HandlerTyped, NotPlacing, SnapshotRows
  <1>5. NotPlacing'
    BY <1>0 DEF NotPlacing, TypeOK, RowsTyped, PassTyped, HandlerTyped, Placing, SnapshotRows
  <1>6. SnapshotRows'
    BY <1>0 DEF SnapshotRows, TypeOK, RowsTyped, PassTyped, HandlerTyped, Placing, NotPlacing, RowsAgree
  <1>7. InOrder'
    <2>1. \A i \in Job \ {j} : want'[i] = want[i]
      BY DEF TypeOK, RowsTyped
    <2>2. \A q \in Pass : j \notin seen[q] /\ j \notin todo[q] /\ cur[q] # j
      BY DEF SnapshotRows
    <2>3. \A q \in Pass : seen[q] \subseteq Job \ {j} /\ todo[q] \subseteq Job \ {j}
      BY <2>2 DEF TypeOK, PassTyped
    <2>4. \A q \in Pass : pc'[q] = "try" => pc[q] = "try" /\ cur[q] \in Job \ {j}
      BY <1>0, <2>2 DEF TypeOK, PassTyped, Placing
    <2> HIDE DEF Submit
    <2>5. UNCHANGED <<seen, todo, cur>>
      BY DEF Submit, walkVars
    <2>6. \A q \in Pass : /\ \A a \in seen[q] : want'[a] = want[a]
                          /\ \A b \in todo[q] : want'[b] = want[b]
      BY <2>1, <2>3
    <2>7. \A q \in Pass : pc'[q] = "try" => want'[cur[q]] = want[cur[q]]
      BY <2>1, <2>4
    <2> QED BY <2>4, <2>5, <2>6, <2>7 DEF InOrder, Ahead
  <1>8. RowsAgree'
    BY <1>0 DEF RowsAgree, TypeOK, RowsTyped, PassTyped, HandlerTyped, Placing, NotPlacing, SnapshotRows
  <1>9. HeldForAhead'
    BY <1>0 DEF HeldForAhead, TypeOK, RowsTyped, PassTyped, HandlerTyped, Placing, NotPlacing, SnapshotRows
  <1>10. CeilingChecked'
    <2>1. \A q \in Pass : cur[q] # j
      BY DEF SnapshotRows
    <2>2. r.pin # None /\ ceil[r.pin] > 0 /\ Granted(r) >= 0
          => Granted(r) \in 1..ceil[r.pin]
      <3>1. r \in Submission
        BY SchedulerAssumption
      <3>2. r.asks \in Int /\ r.pin \in Device \cup {None}
        BY <3>1 DEF Submission
      <3>3. r.pin # None => ceil[r.pin] \in Nat
        BY <3>2 DEF TypeOK, RowsTyped, Limit
      <3> QED BY <3>2, <3>3
    <2>3. job'[j] = "queued" /\ want'[j] = r /\ asks'[j] = Granted(r)
      BY DEF TypeOK, RowsTyped
    <2>4. \A i \in Job \ {j} : /\ job'[i] = job[i] /\ want'[i] = want[i]
                               /\ asks'[i] = asks[i]
      BY DEF TypeOK, RowsTyped
    <2>5. UNCHANGED <<cur, avail, ceil, stale>>
      OBVIOUS
    <2> HIDE DEF Submit, Granted, Acceptable
    <2> QED BY <2>1, <2>2, <2>3, <2>4, <2>5 DEF CeilingChecked, Fits
  <1>11. WithinCeiling'
    BY <1>0 DEF WithinCeiling, TypeOK, RowsTyped, PassTyped, HandlerTyped, Placing, NotPlacing, SnapshotRows, CeilingChecked, Fits, RowsAgree
  <1>12. NoWaitAnswer'
    BY <1>0 DEF NoWaitAnswer, TypeOK, RowsTyped, PassTyped, HandlerTyped, Placing, NotPlacing, SnapshotRows, RowsAgree
  <1>13. AbandonedNotQueued'
    BY <1>0 DEF AbandonedNotQueued, TypeOK, RowsTyped, PassTyped, HandlerTyped, Placing, NotPlacing, SnapshotRows, RowsAgree
  <1> QED
    BY <1>1, <1>2, <1>3, <1>4, <1>5, <1>6, <1>7, <1>8, <1>9, <1>10, <1>11, <1>12, <1>13 DEF SchedInv, TypeOK

(* Preservation by EnqueueUnread: the row is made as by EnqueueUnread, and its     *)
(* handler leaves it.                                                       *)
LEMMA EnqueueUnreadKeeps ==
  ASSUME SchedInv, NEW h \in Handler, NEW j \in Job, NEW r \in Request[j], EnqueueUnread(h, r, j)
  PROVE  SchedInv'
  <1> USE SchedulerAssumption DEF SchedInv, EnqueueUnread, Acceptable, Granted, envVars, rowVars, walkVars, answerVars
  <1>0. h \in Pass BY DEF Pass
  <1>1. RowsTyped'
    <2>1. Granted(r) \in Runtime
      BY GrantedType
    <2>2. r \in Submission
      BY SchedulerAssumption
    <2> HIDE DEF Granted, Acceptable
    <2> QED BY <2>1, <2>2 DEF RowsTyped, TypeOK
  <1>2. PassTyped'
    BY <1>0 DEF PassTyped, TypeOK, RowsTyped, HandlerTyped, Placing
  <1>3. HandlerTyped'
    BY <1>0 DEF HandlerTyped, TypeOK, RowsTyped, PassTyped, RowsAgree
  <1>4. Placing'
    BY <1>0 DEF Placing, TypeOK, RowsTyped, PassTyped, HandlerTyped, NotPlacing, SnapshotRows
  <1>5. NotPlacing'
    BY <1>0 DEF NotPlacing, TypeOK, RowsTyped, PassTyped, HandlerTyped, Placing, SnapshotRows
  <1>6. SnapshotRows'
    BY <1>0 DEF SnapshotRows, TypeOK, RowsTyped, PassTyped, HandlerTyped, Placing, NotPlacing, RowsAgree
  <1>7. InOrder'
    <2>1. \A i \in Job \ {j} : want'[i] = want[i]
      BY DEF TypeOK, RowsTyped
    <2>2. \A q \in Pass : j \notin seen[q] /\ j \notin todo[q] /\ cur[q] # j
      BY DEF SnapshotRows
    <2>3. \A q \in Pass : seen[q] \subseteq Job \ {j} /\ todo[q] \subseteq Job \ {j}
      BY <2>2 DEF TypeOK, PassTyped
    <2>4. \A q \in Pass : pc'[q] = "try" => pc[q] = "try" /\ cur[q] \in Job \ {j}
      BY <1>0, <2>2 DEF TypeOK, PassTyped, Placing
    <2> HIDE DEF EnqueueUnread
    <2>5. UNCHANGED <<seen, todo, cur>>
      BY DEF EnqueueUnread, walkVars
    <2>6. \A q \in Pass : /\ \A a \in seen[q] : want'[a] = want[a]
                          /\ \A b \in todo[q] : want'[b] = want[b]
      BY <2>1, <2>3
    <2>7. \A q \in Pass : pc'[q] = "try" => want'[cur[q]] = want[cur[q]]
      BY <2>1, <2>4
    <2> QED BY <2>4, <2>5, <2>6, <2>7 DEF InOrder, Ahead
  <1>8. RowsAgree'
    BY <1>0 DEF RowsAgree, TypeOK, RowsTyped, PassTyped, HandlerTyped, Placing, NotPlacing, SnapshotRows
  <1>9. HeldForAhead'
    BY <1>0 DEF HeldForAhead, TypeOK, RowsTyped, PassTyped, HandlerTyped, Placing, NotPlacing, SnapshotRows
  <1>10. CeilingChecked'
    <2>1. \A q \in Pass : cur[q] # j
      BY DEF SnapshotRows
    <2>2. r.pin # None /\ ceil[r.pin] > 0 /\ Granted(r) >= 0
          => Granted(r) \in 1..ceil[r.pin]
      <3>1. r \in Submission
        BY SchedulerAssumption
      <3>2. r.asks \in Int /\ r.pin \in Device \cup {None}
        BY <3>1 DEF Submission
      <3>3. r.pin # None => ceil[r.pin] \in Nat
        BY <3>2 DEF TypeOK, RowsTyped, Limit
      <3> QED BY <3>2, <3>3
    <2>3. job'[j] = "queued" /\ want'[j] = r /\ asks'[j] = Granted(r)
      BY DEF TypeOK, RowsTyped
    <2>4. \A i \in Job \ {j} : /\ job'[i] = job[i] /\ want'[i] = want[i]
                               /\ asks'[i] = asks[i]
      BY DEF TypeOK, RowsTyped
    <2>5. UNCHANGED <<cur, avail, ceil, stale>>
      OBVIOUS
    <2> HIDE DEF EnqueueUnread, Granted, Acceptable
    <2> QED BY <2>1, <2>2, <2>3, <2>4, <2>5 DEF CeilingChecked, Fits
  <1>11. WithinCeiling'
    BY <1>0 DEF WithinCeiling, TypeOK, RowsTyped, PassTyped, HandlerTyped, Placing, NotPlacing, SnapshotRows, CeilingChecked, Fits, RowsAgree
  <1>12. NoWaitAnswer'
    BY <1>0 DEF NoWaitAnswer, TypeOK, RowsTyped, PassTyped, HandlerTyped, Placing, NotPlacing, SnapshotRows, RowsAgree
  <1>13. AbandonedNotQueued'
    BY <1>0 DEF AbandonedNotQueued, TypeOK, RowsTyped, PassTyped, HandlerTyped, Placing, NotPlacing, SnapshotRows, RowsAgree
  <1> QED
    BY <1>1, <1>2, <1>3, <1>4, <1>5, <1>6, <1>7, <1>8, <1>9, <1>10, <1>11, <1>12, <1>13 DEF SchedInv, TypeOK

(* Preservation by Resubmit: a known key: the handler follows the job that  *)
(* exists.                                                                  *)
LEMMA ResubmitKeeps ==
  ASSUME SchedInv, NEW h \in Handler, NEW j \in Job, NEW r \in Request[j], Resubmit(h, r, j)
  PROVE  SchedInv'
  <1> USE SchedulerAssumption DEF SchedInv, Resubmit, SameKey, envVars, rowVars, walkVars, answerVars
  <1>0. h \in Pass BY DEF Pass
  <1>1. RowsTyped'
    BY <1>0 DEF RowsTyped, TypeOK, PassTyped, HandlerTyped, Placing, Submission, RowsAgree
  <1>2. PassTyped'
    BY <1>0 DEF PassTyped, TypeOK, RowsTyped, HandlerTyped, Placing
  <1>3. HandlerTyped'
    BY <1>0 DEF HandlerTyped, TypeOK, RowsTyped, PassTyped, RowsAgree
  <1>4. Placing'
    BY <1>0 DEF Placing, TypeOK, RowsTyped, PassTyped, HandlerTyped, NotPlacing, SnapshotRows
  <1>5. NotPlacing'
    BY <1>0 DEF NotPlacing, TypeOK, RowsTyped, PassTyped, HandlerTyped, Placing, SnapshotRows
  <1>6. SnapshotRows'
    BY <1>0 DEF SnapshotRows, TypeOK, RowsTyped, PassTyped, HandlerTyped, Placing, NotPlacing, RowsAgree
  <1>7. InOrder'
    BY <1>0 DEF InOrder, TypeOK, RowsTyped, PassTyped, HandlerTyped, Placing, NotPlacing, SnapshotRows, Ahead
  <1>8. RowsAgree'
    BY <1>0 DEF RowsAgree, TypeOK, RowsTyped, PassTyped, HandlerTyped, Placing, NotPlacing, SnapshotRows
  <1>9. HeldForAhead'
    BY <1>0 DEF HeldForAhead, TypeOK, RowsTyped, PassTyped, HandlerTyped, Placing, NotPlacing, SnapshotRows
  <1>10. CeilingChecked'
    BY <1>0 DEF CeilingChecked, TypeOK, RowsTyped, PassTyped, HandlerTyped, Placing, NotPlacing, SnapshotRows, Fits, RowsAgree
  <1>11. WithinCeiling'
    BY <1>0 DEF WithinCeiling, TypeOK, RowsTyped, PassTyped, HandlerTyped, Placing, NotPlacing, SnapshotRows, CeilingChecked, Fits, RowsAgree
  <1>12. NoWaitAnswer'
    BY <1>0 DEF NoWaitAnswer, TypeOK, RowsTyped, PassTyped, HandlerTyped, Placing, NotPlacing, SnapshotRows, RowsAgree
  <1>13. AbandonedNotQueued'
    BY <1>0 DEF AbandonedNotQueued, TypeOK, RowsTyped, PassTyped, HandlerTyped, Placing, NotPlacing, SnapshotRows, RowsAgree
  <1> QED
    BY <1>1, <1>2, <1>3, <1>4, <1>5, <1>6, <1>7, <1>8, <1>9, <1>10, <1>11, <1>12, <1>13 DEF SchedInv, TypeOK

(* Preservation by StartPass: a pass starts with the queue as it is, and    *)
(* with nothing reserved.                                                   *)
LEMMA StartPassKeeps ==
  ASSUME SchedInv, NEW p \in Pass, StartPass(p)
  PROVE  SchedInv'
  <1> USE SchedulerAssumption DEF SchedInv, StartPass, Queued, envVars, rowVars, walkVars, answerVars
  <1>0. Handler \subseteq Pass BY DEF Pass
  <1>1. RowsTyped'
    BY <1>0 DEF RowsTyped, TypeOK, PassTyped, HandlerTyped, Placing, Submission, RowsAgree
  <1>2. PassTyped'
    BY <1>0 DEF PassTyped, TypeOK, RowsTyped, HandlerTyped, Placing
  <1>3. HandlerTyped'
    BY <1>0 DEF HandlerTyped, TypeOK, RowsTyped, PassTyped, RowsAgree
  <1>4. Placing'
    BY <1>0 DEF Placing, TypeOK, RowsTyped, PassTyped, HandlerTyped, NotPlacing, SnapshotRows
  <1>5. NotPlacing'
    BY <1>0 DEF NotPlacing, TypeOK, RowsTyped, PassTyped, HandlerTyped, Placing, SnapshotRows
  <1>6. SnapshotRows'
    BY <1>0 DEF SnapshotRows, TypeOK, RowsTyped, PassTyped, HandlerTyped, Placing, NotPlacing, RowsAgree
  <1>7. InOrder'
    <2>1. pc'[p] = "visit" /\ seen'[p] = {}
      BY DEF TypeOK, PassTyped, NotPlacing
    <2>2. \A q \in Pass \ {p} : pc'[q] = pc[q] /\ todo'[q] = todo[q]
      BY DEF TypeOK, PassTyped
    <2>3. UNCHANGED <<seen, cur, want>>
      OBVIOUS
    <2> HIDE DEF StartPass
    <2> QED BY <2>1, <2>2, <2>3 DEF InOrder, Ahead
  <1>8. RowsAgree'
    BY <1>0 DEF RowsAgree, TypeOK, RowsTyped, PassTyped, HandlerTyped, Placing, NotPlacing, SnapshotRows
  <1>9. HeldForAhead'
    BY <1>0 DEF HeldForAhead, TypeOK, RowsTyped, PassTyped, HandlerTyped, Placing, NotPlacing, SnapshotRows
  <1>10. CeilingChecked'
    BY <1>0 DEF CeilingChecked, TypeOK, RowsTyped, PassTyped, HandlerTyped, Placing, NotPlacing, SnapshotRows, Fits, RowsAgree
  <1>11. WithinCeiling'
    BY <1>0 DEF WithinCeiling, TypeOK, RowsTyped, PassTyped, HandlerTyped, Placing, NotPlacing, SnapshotRows, CeilingChecked, Fits, RowsAgree
  <1>12. NoWaitAnswer'
    BY <1>0 DEF NoWaitAnswer, TypeOK, RowsTyped, PassTyped, HandlerTyped, Placing, NotPlacing, SnapshotRows, RowsAgree
  <1>13. AbandonedNotQueued'
    BY <1>0 DEF AbandonedNotQueued, TypeOK, RowsTyped, PassTyped, HandlerTyped, Placing, NotPlacing, SnapshotRows, RowsAgree
  <1> QED
    BY <1>1, <1>2, <1>3, <1>4, <1>5, <1>6, <1>7, <1>8, <1>9, <1>10, <1>11, <1>12, <1>13 DEF SchedInv, TypeOK

(* Preservation by EmptyPass: there is nothing to schedule.                 *)
LEMMA EmptyPassKeeps ==
  ASSUME SchedInv, NEW h \in Handler, EmptyPass(h)
  PROVE  SchedInv'
  <1> USE SchedulerAssumption DEF SchedInv, EmptyPass, envVars, rowVars, walkVars, answerVars
  <1>0. h \in Pass BY DEF Pass
  <1>1. RowsTyped'
    BY <1>0 DEF RowsTyped, TypeOK, PassTyped, HandlerTyped, Placing, Submission, RowsAgree
  <1>2. PassTyped'
    BY <1>0 DEF PassTyped, TypeOK, RowsTyped, HandlerTyped, Placing
  <1>3. HandlerTyped'
    BY <1>0 DEF HandlerTyped, TypeOK, RowsTyped, PassTyped, RowsAgree
  <1>4. Placing'
    BY <1>0 DEF Placing, TypeOK, RowsTyped, PassTyped, HandlerTyped, NotPlacing, SnapshotRows
  <1>5. NotPlacing'
    BY <1>0 DEF NotPlacing, TypeOK, RowsTyped, PassTyped, HandlerTyped, Placing, SnapshotRows
  <1>6. SnapshotRows'
    BY <1>0 DEF SnapshotRows, TypeOK, RowsTyped, PassTyped, HandlerTyped, Placing, NotPlacing, RowsAgree
  <1>7. InOrder'
    BY <1>0 DEF InOrder, TypeOK, RowsTyped, PassTyped, HandlerTyped, Placing, NotPlacing, SnapshotRows, Ahead
  <1>8. RowsAgree'
    BY <1>0 DEF RowsAgree, TypeOK, RowsTyped, PassTyped, HandlerTyped, Placing, NotPlacing, SnapshotRows
  <1>9. HeldForAhead'
    BY <1>0 DEF HeldForAhead, TypeOK, RowsTyped, PassTyped, HandlerTyped, Placing, NotPlacing, SnapshotRows
  <1>10. CeilingChecked'
    BY <1>0 DEF CeilingChecked, TypeOK, RowsTyped, PassTyped, HandlerTyped, Placing, NotPlacing, SnapshotRows, Fits, RowsAgree
  <1>11. WithinCeiling'
    BY <1>0 DEF WithinCeiling, TypeOK, RowsTyped, PassTyped, HandlerTyped, Placing, NotPlacing, SnapshotRows, CeilingChecked, Fits, RowsAgree
  <1>12. NoWaitAnswer'
    BY <1>0 DEF NoWaitAnswer, TypeOK, RowsTyped, PassTyped, HandlerTyped, Placing, NotPlacing, SnapshotRows, RowsAgree
  <1>13. AbandonedNotQueued'
    BY <1>0 DEF AbandonedNotQueued, TypeOK, RowsTyped, PassTyped, HandlerTyped, Placing, NotPlacing, SnapshotRows, RowsAgree
  <1> QED
    BY <1>1, <1>2, <1>3, <1>4, <1>5, <1>6, <1>7, <1>8, <1>9, <1>10, <1>11, <1>12, <1>13 DEF SchedInv, TypeOK

(* Preservation by GoBy: the head of the rest is gone past: nothing is left *)
(* for it.                                                                  *)
LEMMA GoByKeeps ==
  ASSUME SchedInv, NEW p \in Pass, NEW j \in Job, GoBy(p, j)
  PROVE  SchedInv'
  <1> USE SchedulerAssumption DEF SchedInv, GoBy, First, Available, envVars, rowVars, walkVars, answerVars
  <1>0. Handler \subseteq Pass BY DEF Pass
  <1>1. RowsTyped'
    BY <1>0 DEF RowsTyped, TypeOK, PassTyped, HandlerTyped, Placing, Submission, RowsAgree
  <1>2. PassTyped'
    BY <1>0 DEF PassTyped, TypeOK, RowsTyped, HandlerTyped, Placing
  <1>3. HandlerTyped'
    BY <1>0 DEF HandlerTyped, TypeOK, RowsTyped, PassTyped, RowsAgree
  <1>4. Placing'
    BY <1>0 DEF Placing, TypeOK, RowsTyped, PassTyped, HandlerTyped, NotPlacing, SnapshotRows
  <1>5. NotPlacing'
    BY <1>0 DEF NotPlacing, TypeOK, RowsTyped, PassTyped, HandlerTyped, Placing, SnapshotRows
  <1>6. SnapshotRows'
    BY <1>0 DEF SnapshotRows, TypeOK, RowsTyped, PassTyped, HandlerTyped, Placing, NotPlacing, RowsAgree
  <1>7. InOrder'
    <2>1. \A q \in Pass \ {p} : seen'[q] = seen[q] /\ todo'[q] = todo[q]
      BY DEF TypeOK, PassTyped
    <2>2. pc'[p] = "visit" /\ seen'[p] = seen[p] \cup {j}
                           /\ todo'[p] = todo[p] \ {j}
      BY DEF TypeOK, PassTyped
    <2>3. UNCHANGED <<pc, cur, want>>
      OBVIOUS
    <2>4. j \in todo[p] /\ \A i \in todo[p] \ {j} : Ahead(j, i)
      OBVIOUS
    <2> HIDE DEF GoBy, First
    <2> QED BY <2>1, <2>2, <2>3, <2>4 DEF InOrder, Ahead
  <1>8. RowsAgree'
    BY <1>0 DEF RowsAgree, TypeOK, RowsTyped, PassTyped, HandlerTyped, Placing, NotPlacing, SnapshotRows
  <1>9. HeldForAhead'
    BY <1>0 DEF HeldForAhead, TypeOK, RowsTyped, PassTyped, HandlerTyped, Placing, NotPlacing, SnapshotRows
  <1>10. CeilingChecked'
    BY <1>0 DEF CeilingChecked, TypeOK, RowsTyped, PassTyped, HandlerTyped, Placing, NotPlacing, SnapshotRows, Fits, RowsAgree
  <1>11. WithinCeiling'
    BY <1>0 DEF WithinCeiling, TypeOK, RowsTyped, PassTyped, HandlerTyped, Placing, NotPlacing, SnapshotRows, CeilingChecked, Fits, RowsAgree
  <1>12. NoWaitAnswer'
    BY <1>0 DEF NoWaitAnswer, TypeOK, RowsTyped, PassTyped, HandlerTyped, Placing, NotPlacing, SnapshotRows, RowsAgree
  <1>13. AbandonedNotQueued'
    BY <1>0 DEF AbandonedNotQueued, TypeOK, RowsTyped, PassTyped, HandlerTyped, Placing, NotPlacing, SnapshotRows, RowsAgree
  <1> QED
    BY <1>1, <1>2, <1>3, <1>4, <1>5, <1>6, <1>7, <1>8, <1>9, <1>10, <1>11, <1>12, <1>13 DEF SchedInv, TypeOK

(* Preservation by SkipUnmatched: the head of the rest is gone past and has *)
(* no candidate to reserve.                                                 *)
LEMMA SkipUnmatchedKeeps ==
  ASSUME SchedInv, NEW p \in Pass, NEW j \in Job, SkipUnmatched(p, j)
  PROVE  SchedInv'
  <1> USE SchedulerAssumption DEF SchedInv, SkipUnmatched, First, envVars, rowVars, walkVars, answerVars
  <1>0. Handler \subseteq Pass BY DEF Pass
  <1>1. RowsTyped'
    BY <1>0 DEF RowsTyped, TypeOK, PassTyped, HandlerTyped, Placing, Submission, RowsAgree
  <1>2. PassTyped'
    BY <1>0 DEF PassTyped, TypeOK, RowsTyped, HandlerTyped, Placing
  <1>3. HandlerTyped'
    BY <1>0 DEF HandlerTyped, TypeOK, RowsTyped, PassTyped, RowsAgree
  <1>4. Placing'
    BY <1>0 DEF Placing, TypeOK, RowsTyped, PassTyped, HandlerTyped, NotPlacing, SnapshotRows
  <1>5. NotPlacing'
    BY <1>0 DEF NotPlacing, TypeOK, RowsTyped, PassTyped, HandlerTyped, Placing, SnapshotRows
  <1>6. SnapshotRows'
    BY <1>0 DEF SnapshotRows, TypeOK, RowsTyped, PassTyped, HandlerTyped, Placing, NotPlacing, RowsAgree
  <1>7. InOrder'
    <2>1. \A q \in Pass \ {p} : seen'[q] = seen[q] /\ todo'[q] = todo[q]
      BY DEF TypeOK, PassTyped
    <2>2. pc'[p] = "visit" /\ seen'[p] = seen[p] \cup {j}
                           /\ todo'[p] = todo[p] \ {j}
      BY DEF TypeOK, PassTyped
    <2>3. UNCHANGED <<pc, cur, want>>
      OBVIOUS
    <2>4. j \in todo[p] /\ \A i \in todo[p] \ {j} : Ahead(j, i)
      OBVIOUS
    <2> HIDE DEF SkipUnmatched, First
    <2> QED BY <2>1, <2>2, <2>3, <2>4 DEF InOrder, Ahead
  <1>8. RowsAgree'
    BY <1>0 DEF RowsAgree, TypeOK, RowsTyped, PassTyped, HandlerTyped, Placing, NotPlacing, SnapshotRows
  <1>9. HeldForAhead'
    BY <1>0 DEF HeldForAhead, TypeOK, RowsTyped, PassTyped, HandlerTyped, Placing, NotPlacing, SnapshotRows
  <1>10. CeilingChecked'
    BY <1>0 DEF CeilingChecked, TypeOK, RowsTyped, PassTyped, HandlerTyped, Placing, NotPlacing, SnapshotRows, Fits, RowsAgree
  <1>11. WithinCeiling'
    BY <1>0 DEF WithinCeiling, TypeOK, RowsTyped, PassTyped, HandlerTyped, Placing, NotPlacing, SnapshotRows, CeilingChecked, Fits, RowsAgree
  <1>12. NoWaitAnswer'
    BY <1>0 DEF NoWaitAnswer, TypeOK, RowsTyped, PassTyped, HandlerTyped, Placing, NotPlacing, SnapshotRows, RowsAgree
  <1>13. AbandonedNotQueued'
    BY <1>0 DEF AbandonedNotQueued, TypeOK, RowsTyped, PassTyped, HandlerTyped, Placing, NotPlacing, SnapshotRows, RowsAgree
  <1> QED
    BY <1>1, <1>2, <1>3, <1>4, <1>5, <1>6, <1>7, <1>8, <1>9, <1>10, <1>11, <1>12, <1>13 DEF SchedInv, TypeOK

(* Preservation by TakeUp: the head of the rest is taken up.                *)
LEMMA TakeUpKeeps ==
  ASSUME SchedInv, NEW p \in Pass, NEW j \in Job, TakeUp(p, j)
  PROVE  SchedInv'
  <1> USE SchedulerAssumption DEF SchedInv, TakeUp, First, Available, envVars, rowVars, walkVars, answerVars
  <1>0. Handler \subseteq Pass BY DEF Pass
  <1>1. RowsTyped'
    BY <1>0 DEF RowsTyped, TypeOK, PassTyped, HandlerTyped, Placing, Submission, RowsAgree
  <1>2. PassTyped'
    <2>1. Candidates(j) \subseteq Device
      BY CandidatesType
    <2> QED BY <2>1 DEF PassTyped, TypeOK
  <1>3. HandlerTyped'
    BY <1>0 DEF HandlerTyped, TypeOK, RowsTyped, PassTyped, RowsAgree
  <1>4. Placing'
    <2>1. Candidates(j) \subseteq Device
      BY CandidatesType
    <2>2. pc'[p] = "try" /\ cur'[p] = j /\ seen'[p] = seen[p]
                         /\ todo'[p] = todo[p] \ {j}
      BY DEF TypeOK, PassTyped
    <2>3. avail'[p] = untried'[p] /\ avail'[p] = Candidates(j) \ reserved[p]
      BY DEF TypeOK, PassTyped
    <2>4. cand'[p][j] = Candidates(j) /\ reserved' = reserved
      BY DEF TypeOK, PassTyped
    <2>5. j \notin seen[p]
      BY NotAheadOfItself DEF InOrder
    <2>6. \A q \in Pass \ {p} :
            /\ pc'[q] = pc[q] /\ cur'[q] = cur[q] /\ todo'[q] = todo[q]
            /\ avail'[q] = avail[q] /\ untried'[q] = untried[q]
            /\ cand'[q] = cand[q] /\ seen'[q] = seen[q]
      BY DEF TypeOK, PassTyped
    <2> HIDE DEF TakeUp, First, Available
    <2>7. cur'[p] \in Job \ (seen'[p] \cup todo'[p])
      BY <2>2, <2>5
    <2>8. untried'[p] \subseteq avail'[p]
          /\ avail'[p] = cand'[p][cur'[p]] \ reserved'[p]
      BY <2>2, <2>3, <2>4
    <2> QED BY <2>4, <2>6, <2>7, <2>8 DEF Placing
  <1>5. NotPlacing'
    BY <1>0 DEF NotPlacing, TypeOK, RowsTyped, PassTyped, HandlerTyped, Placing, SnapshotRows
  <1>6. SnapshotRows'
    BY <1>0 DEF SnapshotRows, TypeOK, RowsTyped, PassTyped, HandlerTyped, Placing, NotPlacing, RowsAgree
  <1>7. InOrder'
    <2>1. \A q \in Pass \ {p} : /\ pc'[q] = pc[q] /\ cur'[q] = cur[q]
                                 /\ todo'[q] = todo[q]
      BY DEF TypeOK, PassTyped
    <2>2. cur'[p] = j /\ todo'[p] = todo[p] \ {j}
      BY DEF TypeOK, PassTyped
    <2>3. UNCHANGED <<seen, want>>
      OBVIOUS
    <2>4. j \in todo[p] /\ \A i \in todo[p] \ {j} : Ahead(j, i)
      OBVIOUS
    <2> HIDE DEF TakeUp, First, Available
    <2> QED BY <2>1, <2>2, <2>3, <2>4 DEF InOrder, Ahead
  <1>8. RowsAgree'
    BY <1>0 DEF RowsAgree, TypeOK, RowsTyped, PassTyped, HandlerTyped, Placing, NotPlacing, SnapshotRows
  <1>9. HeldForAhead'
    <2>1. j \notin seen[p]
      BY NotAheadOfItself DEF InOrder
    <2>2. \A q \in Pass, i \in Job : q # p \/ i # j => cand'[q][i] = cand[q][i]
      BY DEF TypeOK, PassTyped
    <2>3. UNCHANGED <<seen, job, reserved>>
      OBVIOUS
    <2>4. \A q \in Pass : seen[q] \subseteq Job
      BY DEF TypeOK, PassTyped
    <2> HIDE DEF TakeUp, First, Available
    <2> QED BY <2>1, <2>2, <2>3, <2>4 DEF HeldForAhead
  <1>10. CeilingChecked'
    <2>1. j \notin stale /\ job[j] = "queued"
          => \A d \in Candidates(j) : Fits(asks[j], ceil[d])
      BY CandidatesFit
    <2>2. cur'[p] = j /\ avail'[p] = Candidates(j) \ reserved[p]
      BY DEF TypeOK, PassTyped
    <2>3. \A q \in Pass \ {p} : cur'[q] = cur[q] /\ avail'[q] = avail[q]
      BY DEF TypeOK, PassTyped
    <2>4. UNCHANGED <<job, want, asks, ceil, stale>>
      OBVIOUS
    <2> HIDE DEF TakeUp, First, Available
    <2> QED BY <2>1, <2>2, <2>3, <2>4 DEF CeilingChecked, Fits
  <1>11. WithinCeiling'
    BY <1>0 DEF WithinCeiling, TypeOK, RowsTyped, PassTyped, HandlerTyped, Placing, NotPlacing, SnapshotRows, CeilingChecked, Fits, RowsAgree
  <1>12. NoWaitAnswer'
    BY <1>0 DEF NoWaitAnswer, TypeOK, RowsTyped, PassTyped, HandlerTyped, Placing, NotPlacing, SnapshotRows, RowsAgree
  <1>13. AbandonedNotQueued'
    BY <1>0 DEF AbandonedNotQueued, TypeOK, RowsTyped, PassTyped, HandlerTyped, Placing, NotPlacing, SnapshotRows, RowsAgree
  <1> QED
    BY <1>1, <1>2, <1>3, <1>4, <1>5, <1>6, <1>7, <1>8, <1>9, <1>10, <1>11, <1>12, <1>13 DEF SchedInv, TypeOK

(* Preservation by AssignQueued: the job under way is placed.               *)
LEMMA AssignQueuedKeeps ==
  ASSUME SchedInv, NEW p \in Pass, NEW d \in Device, AssignQueued(p, d)
  PROVE  SchedInv'
  <1> USE SchedulerAssumption DEF SchedInv, AssignQueued, Trying, GoPast, envVars, rowVars, walkVars, answerVars
  <1>0. Handler \subseteq Pass BY DEF Pass
  <1>1. RowsTyped'
    <2>1. cur[p] \in Job
      BY DEF Placing
    <2>2. ceil[d] \in Runtime /\ asks[cur[p]] \in Runtime
      BY <2>1 DEF TypeOK, RowsTyped, Limit
    <2>3. asks' \in [Job -> Runtime]
      BY <2>1, <2>2 DEF TypeOK, RowsTyped
    <2> QED BY <2>1, <2>3 DEF RowsTyped, TypeOK
  <1>2. PassTyped'
    BY <1>0 DEF PassTyped, TypeOK, RowsTyped, HandlerTyped, Placing
  <1>3. HandlerTyped'
    BY <1>0 DEF HandlerTyped, TypeOK, RowsTyped, PassTyped, RowsAgree
  <1>4. Placing'
    BY <1>0 DEF Placing, TypeOK, RowsTyped, PassTyped, HandlerTyped, NotPlacing, SnapshotRows
  <1>5. NotPlacing'
    BY <1>0 DEF NotPlacing, TypeOK, RowsTyped, PassTyped, HandlerTyped, Placing, SnapshotRows
  <1>6. SnapshotRows'
    BY <1>0 DEF SnapshotRows, TypeOK, RowsTyped, PassTyped, HandlerTyped, Placing, NotPlacing, RowsAgree
  <1>7. InOrder'
    BY <1>0 DEF InOrder, TypeOK, RowsTyped, PassTyped, HandlerTyped, Placing, NotPlacing, SnapshotRows, Ahead
  <1>8. RowsAgree'
    BY <1>0 DEF RowsAgree, TypeOK, RowsTyped, PassTyped, HandlerTyped, Placing, NotPlacing, SnapshotRows
  <1>9. HeldForAhead'
    BY <1>0 DEF HeldForAhead, TypeOK, RowsTyped, PassTyped, HandlerTyped, Placing, NotPlacing, SnapshotRows
  <1>10. CeilingChecked'
    BY <1>0 DEF CeilingChecked, TypeOK, RowsTyped, PassTyped, HandlerTyped, Placing, NotPlacing, SnapshotRows, Fits, RowsAgree
  <1>11. WithinCeiling'
    <2>1. cur[p] \in Job /\ d \in avail[p]
      BY DEF Placing
    <2>2. cur[p] \notin stale => Fits(asks[cur[p]], ceil[d])
      BY <2>1 DEF CeilingChecked
    <2>3. ceil[d] \in Nat /\ asks[cur[p]] \in Int
      BY <2>1 DEF TypeOK, RowsTyped, Limit
    <2>4. at'[cur[p]] = d
          /\ asks'[cur[p]] = (IF asks[cur[p]] = 0 THEN ceil[d] ELSE asks[cur[p]])
      BY <2>1 DEF TypeOK, RowsTyped
    <2>5. \A j \in Job \ {cur[p]} : at'[j] = at[j] /\ asks'[j] = asks[j]
      BY <2>1 DEF TypeOK, RowsTyped
    <2>6. UNCHANGED <<ceil, stale>>
      OBVIOUS
    <2> HIDE DEF AssignQueued, Trying, GoPast
    <2> QED BY <2>1, <2>2, <2>3, <2>4, <2>5, <2>6 DEF WithinCeiling, Fits
  <1>12. NoWaitAnswer'
    BY <1>0 DEF NoWaitAnswer, TypeOK, RowsTyped, PassTyped, HandlerTyped, Placing, NotPlacing, SnapshotRows, RowsAgree
  <1>13. AbandonedNotQueued'
    BY <1>0 DEF AbandonedNotQueued, TypeOK, RowsTyped, PassTyped, HandlerTyped, Placing, NotPlacing, SnapshotRows, RowsAgree
  <1> QED
    BY <1>1, <1>2, <1>3, <1>4, <1>5, <1>6, <1>7, <1>8, <1>9, <1>10, <1>11, <1>12, <1>13 DEF SchedInv, TypeOK

(* Preservation by Vanished: the job under way is gone.                     *)
LEMMA VanishedKeeps ==
  ASSUME SchedInv, NEW p \in Pass, NEW d \in Device, Vanished(p, d)
  PROVE  SchedInv'
  <1> USE SchedulerAssumption DEF SchedInv, Vanished, Trying, GoPast, envVars, rowVars, walkVars, answerVars
  <1>0. Handler \subseteq Pass BY DEF Pass
  <1>1. RowsTyped'
    BY <1>0 DEF RowsTyped, TypeOK, PassTyped, HandlerTyped, Placing, Submission, RowsAgree
  <1>2. PassTyped'
    BY <1>0 DEF PassTyped, TypeOK, RowsTyped, HandlerTyped, Placing
  <1>3. HandlerTyped'
    BY <1>0 DEF HandlerTyped, TypeOK, RowsTyped, PassTyped, RowsAgree
  <1>4. Placing'
    BY <1>0 DEF Placing, TypeOK, RowsTyped, PassTyped, HandlerTyped, NotPlacing, SnapshotRows
  <1>5. NotPlacing'
    BY <1>0 DEF NotPlacing, TypeOK, RowsTyped, PassTyped, HandlerTyped, Placing, SnapshotRows
  <1>6. SnapshotRows'
    BY <1>0 DEF SnapshotRows, TypeOK, RowsTyped, PassTyped, HandlerTyped, Placing, NotPlacing, RowsAgree
  <1>7. InOrder'
    BY <1>0 DEF InOrder, TypeOK, RowsTyped, PassTyped, HandlerTyped, Placing, NotPlacing, SnapshotRows, Ahead
  <1>8. RowsAgree'
    BY <1>0 DEF RowsAgree, TypeOK, RowsTyped, PassTyped, HandlerTyped, Placing, NotPlacing, SnapshotRows
  <1>9. HeldForAhead'
    BY <1>0 DEF HeldForAhead, TypeOK, RowsTyped, PassTyped, HandlerTyped, Placing, NotPlacing, SnapshotRows
  <1>10. CeilingChecked'
    BY <1>0 DEF CeilingChecked, TypeOK, RowsTyped, PassTyped, HandlerTyped, Placing, NotPlacing, SnapshotRows, Fits, RowsAgree
  <1>11. WithinCeiling'
    BY <1>0 DEF WithinCeiling, TypeOK, RowsTyped, PassTyped, HandlerTyped, Placing, NotPlacing, SnapshotRows, CeilingChecked, Fits, RowsAgree
  <1>12. NoWaitAnswer'
    BY <1>0 DEF NoWaitAnswer, TypeOK, RowsTyped, PassTyped, HandlerTyped, Placing, NotPlacing, SnapshotRows, RowsAgree
  <1>13. AbandonedNotQueued'
    BY <1>0 DEF AbandonedNotQueued, TypeOK, RowsTyped, PassTyped, HandlerTyped, Placing, NotPlacing, SnapshotRows, RowsAgree
  <1> QED
    BY <1>1, <1>2, <1>3, <1>4, <1>5, <1>6, <1>7, <1>8, <1>9, <1>10, <1>11, <1>12, <1>13 DEF SchedInv, TypeOK

(* Preservation by NotFree: a candidate is not free.                        *)
LEMMA NotFreeKeeps ==
  ASSUME SchedInv, NEW p \in Pass, NEW d \in Device, NotFree(p, d)
  PROVE  SchedInv'
  <1> USE SchedulerAssumption DEF SchedInv, NotFree, Trying, envVars, rowVars, walkVars, answerVars
  <1>0. Handler \subseteq Pass BY DEF Pass
  <1>1. RowsTyped'
    BY <1>0 DEF RowsTyped, TypeOK, PassTyped, HandlerTyped, Placing, Submission, RowsAgree
  <1>2. PassTyped'
    BY <1>0 DEF PassTyped, TypeOK, RowsTyped, HandlerTyped, Placing
  <1>3. HandlerTyped'
    BY <1>0 DEF HandlerTyped, TypeOK, RowsTyped, PassTyped, RowsAgree
  <1>4. Placing'
    BY <1>0 DEF Placing, TypeOK, RowsTyped, PassTyped, HandlerTyped, NotPlacing, SnapshotRows
  <1>5. NotPlacing'
    BY <1>0 DEF NotPlacing, TypeOK, RowsTyped, PassTyped, HandlerTyped, Placing, SnapshotRows
  <1>6. SnapshotRows'
    BY <1>0 DEF SnapshotRows, TypeOK, RowsTyped, PassTyped, HandlerTyped, Placing, NotPlacing, RowsAgree
  <1>7. InOrder'
    BY <1>0 DEF InOrder, TypeOK, RowsTyped, PassTyped, HandlerTyped, Placing, NotPlacing, SnapshotRows, Ahead
  <1>8. RowsAgree'
    BY <1>0 DEF RowsAgree, TypeOK, RowsTyped, PassTyped, HandlerTyped, Placing, NotPlacing, SnapshotRows
  <1>9. HeldForAhead'
    BY <1>0 DEF HeldForAhead, TypeOK, RowsTyped, PassTyped, HandlerTyped, Placing, NotPlacing, SnapshotRows
  <1>10. CeilingChecked'
    BY <1>0 DEF CeilingChecked, TypeOK, RowsTyped, PassTyped, HandlerTyped, Placing, NotPlacing, SnapshotRows, Fits, RowsAgree
  <1>11. WithinCeiling'
    BY <1>0 DEF WithinCeiling, TypeOK, RowsTyped, PassTyped, HandlerTyped, Placing, NotPlacing, SnapshotRows, CeilingChecked, Fits, RowsAgree
  <1>12. NoWaitAnswer'
    BY <1>0 DEF NoWaitAnswer, TypeOK, RowsTyped, PassTyped, HandlerTyped, Placing, NotPlacing, SnapshotRows, RowsAgree
  <1>13. AbandonedNotQueued'
    BY <1>0 DEF AbandonedNotQueued, TypeOK, RowsTyped, PassTyped, HandlerTyped, Placing, NotPlacing, SnapshotRows, RowsAgree
  <1> QED
    BY <1>1, <1>2, <1>3, <1>4, <1>5, <1>6, <1>7, <1>8, <1>9, <1>10, <1>11, <1>12, <1>13 DEF SchedInv, TypeOK

(* Preservation by NoneFree: the last candidate is not free, and all of     *)
(* them are held.                                                           *)
LEMMA NoneFreeKeeps ==
  ASSUME SchedInv, NEW p \in Pass, NEW d \in Device, NoneFree(p, d)
  PROVE  SchedInv'
  <1> USE SchedulerAssumption DEF SchedInv, NoneFree, Trying, GoPast, envVars, rowVars, walkVars, answerVars
  <1>0. Handler \subseteq Pass BY DEF Pass
  <1>1. RowsTyped'
    BY <1>0 DEF RowsTyped, TypeOK, PassTyped, HandlerTyped, Placing, Submission, RowsAgree
  <1>2. PassTyped'
    BY <1>0 DEF PassTyped, TypeOK, RowsTyped, HandlerTyped, Placing
  <1>3. HandlerTyped'
    BY <1>0 DEF HandlerTyped, TypeOK, RowsTyped, PassTyped, RowsAgree
  <1>4. Placing'
    BY <1>0 DEF Placing, TypeOK, RowsTyped, PassTyped, HandlerTyped, NotPlacing, SnapshotRows
  <1>5. NotPlacing'
    BY <1>0 DEF NotPlacing, TypeOK, RowsTyped, PassTyped, HandlerTyped, Placing, SnapshotRows
  <1>6. SnapshotRows'
    BY <1>0 DEF SnapshotRows, TypeOK, RowsTyped, PassTyped, HandlerTyped, Placing, NotPlacing, RowsAgree
  <1>7. InOrder'
    <2>1. \A q \in Pass \ {p} : /\ pc'[q] = pc[q] /\ seen'[q] = seen[q]
                                /\ cur'[q] = cur[q]
      BY DEF TypeOK, PassTyped
    <2>2. pc'[p] = "visit" /\ seen'[p] = seen[p] \cup {cur[p]}
      BY DEF TypeOK, PassTyped
    <2>3. UNCHANGED <<todo, want>> /\ pc[p] = "try"
      OBVIOUS
    <2> HIDE DEF NoneFree, Trying, GoPast
    <2> QED BY <2>1, <2>2, <2>3 DEF InOrder, Ahead
  <1>8. RowsAgree'
    BY <1>0 DEF RowsAgree, TypeOK, RowsTyped, PassTyped, HandlerTyped, Placing, NotPlacing, SnapshotRows
  <1>9. HeldForAhead'
    BY <1>0 DEF HeldForAhead, TypeOK, RowsTyped, PassTyped, HandlerTyped, Placing, NotPlacing, SnapshotRows
  <1>10. CeilingChecked'
    BY <1>0 DEF CeilingChecked, TypeOK, RowsTyped, PassTyped, HandlerTyped, Placing, NotPlacing, SnapshotRows, Fits, RowsAgree
  <1>11. WithinCeiling'
    BY <1>0 DEF WithinCeiling, TypeOK, RowsTyped, PassTyped, HandlerTyped, Placing, NotPlacing, SnapshotRows, CeilingChecked, Fits, RowsAgree
  <1>12. NoWaitAnswer'
    BY <1>0 DEF NoWaitAnswer, TypeOK, RowsTyped, PassTyped, HandlerTyped, Placing, NotPlacing, SnapshotRows, RowsAgree
  <1>13. AbandonedNotQueued'
    BY <1>0 DEF AbandonedNotQueued, TypeOK, RowsTyped, PassTyped, HandlerTyped, Placing, NotPlacing, SnapshotRows, RowsAgree
  <1> QED
    BY <1>1, <1>2, <1>3, <1>4, <1>5, <1>6, <1>7, <1>8, <1>9, <1>10, <1>11, <1>12, <1>13 DEF SchedInv, TypeOK

(* Preservation by EndPass: a pass ends with its snapshot visited.          *)
LEMMA EndPassKeeps ==
  ASSUME SchedInv, NEW p \in Pass, EndPass(p)
  PROVE  SchedInv'
  <1> USE SchedulerAssumption DEF SchedInv, EndPass, Clear, envVars, rowVars, walkVars, answerVars
  <1>0. Handler \subseteq Pass BY DEF Pass
  <1>1. RowsTyped'
    BY <1>0 DEF RowsTyped, TypeOK, PassTyped, HandlerTyped, Placing, Submission, RowsAgree
  <1>2. PassTyped'
    BY <1>0 DEF PassTyped, TypeOK, RowsTyped, HandlerTyped, Placing
  <1>3. HandlerTyped'
    BY <1>0 DEF HandlerTyped, TypeOK, RowsTyped, PassTyped, RowsAgree
  <1>4. Placing'
    BY <1>0 DEF Placing, TypeOK, RowsTyped, PassTyped, HandlerTyped, NotPlacing, SnapshotRows
  <1>5. NotPlacing'
    BY <1>0 DEF NotPlacing, TypeOK, RowsTyped, PassTyped, HandlerTyped, Placing, SnapshotRows
  <1>6. SnapshotRows'
    BY <1>0 DEF SnapshotRows, TypeOK, RowsTyped, PassTyped, HandlerTyped, Placing, NotPlacing, RowsAgree
  <1>7. InOrder'
    BY <1>0 DEF InOrder, TypeOK, RowsTyped, PassTyped, HandlerTyped, Placing, NotPlacing, SnapshotRows, Ahead
  <1>8. RowsAgree'
    BY <1>0 DEF RowsAgree, TypeOK, RowsTyped, PassTyped, HandlerTyped, Placing, NotPlacing, SnapshotRows
  <1>9. HeldForAhead'
    BY <1>0 DEF HeldForAhead, TypeOK, RowsTyped, PassTyped, HandlerTyped, Placing, NotPlacing, SnapshotRows
  <1>10. CeilingChecked'
    BY <1>0 DEF CeilingChecked, TypeOK, RowsTyped, PassTyped, HandlerTyped, Placing, NotPlacing, SnapshotRows, Fits, RowsAgree
  <1>11. WithinCeiling'
    BY <1>0 DEF WithinCeiling, TypeOK, RowsTyped, PassTyped, HandlerTyped, Placing, NotPlacing, SnapshotRows, CeilingChecked, Fits, RowsAgree
  <1>12. NoWaitAnswer'
    BY <1>0 DEF NoWaitAnswer, TypeOK, RowsTyped, PassTyped, HandlerTyped, Placing, NotPlacing, SnapshotRows, RowsAgree
  <1>13. AbandonedNotQueued'
    BY <1>0 DEF AbandonedNotQueued, TypeOK, RowsTyped, PassTyped, HandlerTyped, Placing, NotPlacing, SnapshotRows, RowsAgree
  <1> QED
    BY <1>1, <1>2, <1>3, <1>4, <1>5, <1>6, <1>7, <1>8, <1>9, <1>10, <1>11, <1>12, <1>13 DEF SchedInv, TypeOK

(* Preservation by FailPass: a pass is cut short by a store error.          *)
LEMMA FailPassKeeps ==
  ASSUME SchedInv, NEW p \in Pass, FailPass(p)
  PROVE  SchedInv'
  <1> USE SchedulerAssumption DEF SchedInv, FailPass, Clear, envVars, rowVars, walkVars, answerVars
  <1>0. Handler \subseteq Pass BY DEF Pass
  <1>1. RowsTyped'
    BY <1>0 DEF RowsTyped, TypeOK, PassTyped, HandlerTyped, Placing, Submission, RowsAgree
  <1>2. PassTyped'
    BY <1>0 DEF PassTyped, TypeOK, RowsTyped, HandlerTyped, Placing
  <1>3. HandlerTyped'
    BY <1>0 DEF HandlerTyped, TypeOK, RowsTyped, PassTyped, RowsAgree
  <1>4. Placing'
    BY <1>0 DEF Placing, TypeOK, RowsTyped, PassTyped, HandlerTyped, NotPlacing, SnapshotRows
  <1>5. NotPlacing'
    BY <1>0 DEF NotPlacing, TypeOK, RowsTyped, PassTyped, HandlerTyped, Placing, SnapshotRows
  <1>6. SnapshotRows'
    BY <1>0 DEF SnapshotRows, TypeOK, RowsTyped, PassTyped, HandlerTyped, Placing, NotPlacing, RowsAgree
  <1>7. InOrder'
    BY <1>0 DEF InOrder, TypeOK, RowsTyped, PassTyped, HandlerTyped, Placing, NotPlacing, SnapshotRows, Ahead
  <1>8. RowsAgree'
    BY <1>0 DEF RowsAgree, TypeOK, RowsTyped, PassTyped, HandlerTyped, Placing, NotPlacing, SnapshotRows
  <1>9. HeldForAhead'
    BY <1>0 DEF HeldForAhead, TypeOK, RowsTyped, PassTyped, HandlerTyped, Placing, NotPlacing, SnapshotRows
  <1>10. CeilingChecked'
    BY <1>0 DEF CeilingChecked, TypeOK, RowsTyped, PassTyped, HandlerTyped, Placing, NotPlacing, SnapshotRows, Fits, RowsAgree
  <1>11. WithinCeiling'
    BY <1>0 DEF WithinCeiling, TypeOK, RowsTyped, PassTyped, HandlerTyped, Placing, NotPlacing, SnapshotRows, CeilingChecked, Fits, RowsAgree
  <1>12. NoWaitAnswer'
    BY <1>0 DEF NoWaitAnswer, TypeOK, RowsTyped, PassTyped, HandlerTyped, Placing, NotPlacing, SnapshotRows, RowsAgree
  <1>13. AbandonedNotQueued'
    BY <1>0 DEF AbandonedNotQueued, TypeOK, RowsTyped, PassTyped, HandlerTyped, Placing, NotPlacing, SnapshotRows, RowsAgree
  <1> QED
    BY <1>1, <1>2, <1>3, <1>4, <1>5, <1>6, <1>7, <1>8, <1>9, <1>10, <1>11, <1>12, <1>13 DEF SchedInv, TypeOK

(* Preservation by AbandonQueuedJob: a failed submit takes its job out of   *)
(* the queue.                                                               *)
LEMMA AbandonQueuedJobKeeps ==
  ASSUME SchedInv, NEW h \in Handler, AbandonQueuedJob(h)
  PROVE  SchedInv'
  <1> USE SchedulerAssumption DEF SchedInv, AbandonQueuedJob, Cancelled, Answer, envVars, rowVars, walkVars, answerVars
  <1>0. h \in Pass BY DEF Pass
  <1>1. RowsTyped'
    <2>1. job' \in [Job -> {"absent", "queued", "assigned", "killed", "over"}]
      BY DEF RowsTyped, TypeOK
    <2> QED BY <2>1 DEF RowsTyped, TypeOK
  <1>2. PassTyped'
    BY <1>0 DEF PassTyped, TypeOK, RowsTyped, HandlerTyped, Placing
  <1>3. HandlerTyped'
    BY <1>0 DEF HandlerTyped, TypeOK, RowsTyped, PassTyped, RowsAgree
  <1>4. Placing'
    BY <1>0 DEF Placing, TypeOK, RowsTyped, PassTyped, HandlerTyped, NotPlacing, SnapshotRows
  <1>5. NotPlacing'
    BY <1>0 DEF NotPlacing, TypeOK, RowsTyped, PassTyped, HandlerTyped, Placing, SnapshotRows
  <1>6. SnapshotRows'
    BY <1>0 DEF SnapshotRows, TypeOK, RowsTyped, PassTyped, HandlerTyped, Placing, NotPlacing, RowsAgree
  <1>7. InOrder'
    BY <1>0 DEF InOrder, TypeOK, RowsTyped, PassTyped, HandlerTyped, Placing, NotPlacing, SnapshotRows, Ahead
  <1>8. RowsAgree'
    BY <1>0 DEF RowsAgree, TypeOK, RowsTyped, PassTyped, HandlerTyped, Placing, NotPlacing, SnapshotRows
  <1>9. HeldForAhead'
    BY <1>0 DEF HeldForAhead, TypeOK, RowsTyped, PassTyped, HandlerTyped, Placing, NotPlacing, SnapshotRows
  <1>10. CeilingChecked'
    BY <1>0 DEF CeilingChecked, TypeOK, RowsTyped, PassTyped, HandlerTyped, Placing, NotPlacing, SnapshotRows, Fits, RowsAgree
  <1>11. WithinCeiling'
    BY <1>0 DEF WithinCeiling, TypeOK, RowsTyped, PassTyped, HandlerTyped, Placing, NotPlacing, SnapshotRows, CeilingChecked, Fits, RowsAgree
  <1>12. NoWaitAnswer'
    BY <1>0 DEF NoWaitAnswer, TypeOK, RowsTyped, PassTyped, HandlerTyped, Placing, NotPlacing, SnapshotRows, RowsAgree
  <1>13. AbandonedNotQueued'
    BY <1>0 DEF AbandonedNotQueued, TypeOK, RowsTyped, PassTyped, HandlerTyped, Placing, NotPlacing, SnapshotRows, RowsAgree
  <1> QED
    BY <1>1, <1>2, <1>3, <1>4, <1>5, <1>6, <1>7, <1>8, <1>9, <1>10, <1>11, <1>12, <1>13 DEF SchedInv, TypeOK

(* Preservation by CancelFails: a failed submit leaves its job as it is.    *)
LEMMA CancelFailsKeeps ==
  ASSUME SchedInv, NEW h \in Handler, CancelFails(h)
  PROVE  SchedInv'
  <1> USE SchedulerAssumption DEF SchedInv, CancelFails, Queued, Answer, envVars, rowVars, walkVars, answerVars
  <1>0. h \in Pass BY DEF Pass
  <1>1. RowsTyped'
    <2>1. job' \in [Job -> {"absent", "queued", "assigned", "killed", "over"}]
      BY DEF RowsTyped, TypeOK
    <2> QED BY <2>1 DEF RowsTyped, TypeOK
  <1>2. PassTyped'
    BY <1>0 DEF PassTyped, TypeOK, RowsTyped, HandlerTyped, Placing
  <1>3. HandlerTyped'
    <2>1. changes' \in 0..MaxChange
      BY DEF TypeOK, HandlerTyped
    <2>2. mine[h] \in Job
      BY DEF TypeOK, RowsAgree
    <2>3. abandoned' \subseteq Job /\ stranded' \subseteq Job
      BY <2>2 DEF TypeOK, HandlerTyped
    <2> QED BY <2>1, <2>3 DEF HandlerTyped, TypeOK
  <1>4. Placing'
    BY <1>0 DEF Placing, TypeOK, RowsTyped, PassTyped, HandlerTyped, NotPlacing, SnapshotRows
  <1>5. NotPlacing'
    BY <1>0 DEF NotPlacing, TypeOK, RowsTyped, PassTyped, HandlerTyped, Placing, SnapshotRows
  <1>6. SnapshotRows'
    BY <1>0 DEF SnapshotRows, TypeOK, RowsTyped, PassTyped, HandlerTyped, Placing, NotPlacing, RowsAgree
  <1>7. InOrder'
    BY <1>0 DEF InOrder, TypeOK, RowsTyped, PassTyped, HandlerTyped, Placing, NotPlacing, SnapshotRows, Ahead
  <1>8. RowsAgree'
    BY <1>0 DEF RowsAgree, TypeOK, RowsTyped, PassTyped, HandlerTyped, Placing, NotPlacing, SnapshotRows
  <1>9. HeldForAhead'
    BY <1>0 DEF HeldForAhead, TypeOK, RowsTyped, PassTyped, HandlerTyped, Placing, NotPlacing, SnapshotRows
  <1>10. CeilingChecked'
    BY <1>0 DEF CeilingChecked, TypeOK, RowsTyped, PassTyped, HandlerTyped, Placing, NotPlacing, SnapshotRows, Fits, RowsAgree
  <1>11. WithinCeiling'
    BY <1>0 DEF WithinCeiling, TypeOK, RowsTyped, PassTyped, HandlerTyped, Placing, NotPlacing, SnapshotRows, CeilingChecked, Fits, RowsAgree
  <1>12. NoWaitAnswer'
    BY <1>0 DEF NoWaitAnswer, TypeOK, RowsTyped, PassTyped, HandlerTyped, Placing, NotPlacing, SnapshotRows, RowsAgree
  <1>13. AbandonedNotQueued'
    BY <1>0 DEF AbandonedNotQueued, TypeOK, RowsTyped, PassTyped, HandlerTyped, Placing, NotPlacing, SnapshotRows, RowsAgree
  <1> QED
    BY <1>1, <1>2, <1>3, <1>4, <1>5, <1>6, <1>7, <1>8, <1>9, <1>10, <1>11, <1>12, <1>13 DEF SchedInv, TypeOK

(* Preservation by AnswerCreated: the submit answers with what became of    *)
(* its job.                                                                 *)
LEMMA AnswerCreatedKeeps ==
  ASSUME SchedInv, NEW h \in Handler, AnswerCreated(h)
  PROVE  SchedInv'
  <1> USE SchedulerAssumption DEF SchedInv, AnswerCreated, Answer, envVars, rowVars, walkVars, answerVars
  <1>0. h \in Pass BY DEF Pass
  <1>1. RowsTyped'
    BY <1>0 DEF RowsTyped, TypeOK, PassTyped, HandlerTyped, Placing, Submission, RowsAgree
  <1>2. PassTyped'
    BY <1>0 DEF PassTyped, TypeOK, RowsTyped, HandlerTyped, Placing
  <1>3. HandlerTyped'
    BY <1>0 DEF HandlerTyped, TypeOK, RowsTyped, PassTyped, RowsAgree
  <1>4. Placing'
    BY <1>0 DEF Placing, TypeOK, RowsTyped, PassTyped, HandlerTyped, NotPlacing, SnapshotRows
  <1>5. NotPlacing'
    BY <1>0 DEF NotPlacing, TypeOK, RowsTyped, PassTyped, HandlerTyped, Placing, SnapshotRows
  <1>6. SnapshotRows'
    BY <1>0 DEF SnapshotRows, TypeOK, RowsTyped, PassTyped, HandlerTyped, Placing, NotPlacing, RowsAgree
  <1>7. InOrder'
    BY <1>0 DEF InOrder, TypeOK, RowsTyped, PassTyped, HandlerTyped, Placing, NotPlacing, SnapshotRows, Ahead
  <1>8. RowsAgree'
    BY <1>0 DEF RowsAgree, TypeOK, RowsTyped, PassTyped, HandlerTyped, Placing, NotPlacing, SnapshotRows
  <1>9. HeldForAhead'
    BY <1>0 DEF HeldForAhead, TypeOK, RowsTyped, PassTyped, HandlerTyped, Placing, NotPlacing, SnapshotRows
  <1>10. CeilingChecked'
    BY <1>0 DEF CeilingChecked, TypeOK, RowsTyped, PassTyped, HandlerTyped, Placing, NotPlacing, SnapshotRows, Fits, RowsAgree
  <1>11. WithinCeiling'
    BY <1>0 DEF WithinCeiling, TypeOK, RowsTyped, PassTyped, HandlerTyped, Placing, NotPlacing, SnapshotRows, CeilingChecked, Fits, RowsAgree
  <1>12. NoWaitAnswer'
    BY <1>0 DEF NoWaitAnswer, TypeOK, RowsTyped, PassTyped, HandlerTyped, Placing, NotPlacing, SnapshotRows, RowsAgree
  <1>13. AbandonedNotQueued'
    BY <1>0 DEF AbandonedNotQueued, TypeOK, RowsTyped, PassTyped, HandlerTyped, Placing, NotPlacing, SnapshotRows, RowsAgree
  <1> QED
    BY <1>1, <1>2, <1>3, <1>4, <1>5, <1>6, <1>7, <1>8, <1>9, <1>10, <1>11, <1>12, <1>13 DEF SchedInv, TypeOK

(* Preservation by FoundWaiting: a no-wait submit finds its job still       *)
(* queued.                                                                  *)
LEMMA FoundWaitingKeeps ==
  ASSUME SchedInv, NEW h \in Handler, FoundWaiting(h)
  PROVE  SchedInv'
  <1> USE SchedulerAssumption DEF SchedInv, FoundWaiting, envVars, rowVars, walkVars, answerVars
  <1>0. h \in Pass BY DEF Pass
  <1>1. RowsTyped'
    BY <1>0 DEF RowsTyped, TypeOK, PassTyped, HandlerTyped, Placing, Submission, RowsAgree
  <1>2. PassTyped'
    BY <1>0 DEF PassTyped, TypeOK, RowsTyped, HandlerTyped, Placing
  <1>3. HandlerTyped'
    BY <1>0 DEF HandlerTyped, TypeOK, RowsTyped, PassTyped, RowsAgree
  <1>4. Placing'
    BY <1>0 DEF Placing, TypeOK, RowsTyped, PassTyped, HandlerTyped, NotPlacing, SnapshotRows
  <1>5. NotPlacing'
    BY <1>0 DEF NotPlacing, TypeOK, RowsTyped, PassTyped, HandlerTyped, Placing, SnapshotRows
  <1>6. SnapshotRows'
    BY <1>0 DEF SnapshotRows, TypeOK, RowsTyped, PassTyped, HandlerTyped, Placing, NotPlacing, RowsAgree
  <1>7. InOrder'
    BY <1>0 DEF InOrder, TypeOK, RowsTyped, PassTyped, HandlerTyped, Placing, NotPlacing, SnapshotRows, Ahead
  <1>8. RowsAgree'
    BY <1>0 DEF RowsAgree, TypeOK, RowsTyped, PassTyped, HandlerTyped, Placing, NotPlacing, SnapshotRows
  <1>9. HeldForAhead'
    BY <1>0 DEF HeldForAhead, TypeOK, RowsTyped, PassTyped, HandlerTyped, Placing, NotPlacing, SnapshotRows
  <1>10. CeilingChecked'
    BY <1>0 DEF CeilingChecked, TypeOK, RowsTyped, PassTyped, HandlerTyped, Placing, NotPlacing, SnapshotRows, Fits, RowsAgree
  <1>11. WithinCeiling'
    BY <1>0 DEF WithinCeiling, TypeOK, RowsTyped, PassTyped, HandlerTyped, Placing, NotPlacing, SnapshotRows, CeilingChecked, Fits, RowsAgree
  <1>12. NoWaitAnswer'
    BY <1>0 DEF NoWaitAnswer, TypeOK, RowsTyped, PassTyped, HandlerTyped, Placing, NotPlacing, SnapshotRows, RowsAgree
  <1>13. AbandonedNotQueued'
    BY <1>0 DEF AbandonedNotQueued, TypeOK, RowsTyped, PassTyped, HandlerTyped, Placing, NotPlacing, SnapshotRows, RowsAgree
  <1> QED
    BY <1>1, <1>2, <1>3, <1>4, <1>5, <1>6, <1>7, <1>8, <1>9, <1>10, <1>11, <1>12, <1>13 DEF SchedInv, TypeOK

(* Preservation by FailReadBack: the read-back fails.                       *)
LEMMA FailReadBackKeeps ==
  ASSUME SchedInv, NEW h \in Handler, FailReadBack(h)
  PROVE  SchedInv'
  <1> USE SchedulerAssumption DEF SchedInv, FailReadBack, envVars, rowVars, walkVars, answerVars
  <1>0. h \in Pass BY DEF Pass
  <1>1. RowsTyped'
    BY <1>0 DEF RowsTyped, TypeOK, PassTyped, HandlerTyped, Placing, Submission, RowsAgree
  <1>2. PassTyped'
    BY <1>0 DEF PassTyped, TypeOK, RowsTyped, HandlerTyped, Placing
  <1>3. HandlerTyped'
    BY <1>0 DEF HandlerTyped, TypeOK, RowsTyped, PassTyped, RowsAgree
  <1>4. Placing'
    BY <1>0 DEF Placing, TypeOK, RowsTyped, PassTyped, HandlerTyped, NotPlacing, SnapshotRows
  <1>5. NotPlacing'
    BY <1>0 DEF NotPlacing, TypeOK, RowsTyped, PassTyped, HandlerTyped, Placing, SnapshotRows
  <1>6. SnapshotRows'
    BY <1>0 DEF SnapshotRows, TypeOK, RowsTyped, PassTyped, HandlerTyped, Placing, NotPlacing, RowsAgree
  <1>7. InOrder'
    BY <1>0 DEF InOrder, TypeOK, RowsTyped, PassTyped, HandlerTyped, Placing, NotPlacing, SnapshotRows, Ahead
  <1>8. RowsAgree'
    BY <1>0 DEF RowsAgree, TypeOK, RowsTyped, PassTyped, HandlerTyped, Placing, NotPlacing, SnapshotRows
  <1>9. HeldForAhead'
    BY <1>0 DEF HeldForAhead, TypeOK, RowsTyped, PassTyped, HandlerTyped, Placing, NotPlacing, SnapshotRows
  <1>10. CeilingChecked'
    BY <1>0 DEF CeilingChecked, TypeOK, RowsTyped, PassTyped, HandlerTyped, Placing, NotPlacing, SnapshotRows, Fits, RowsAgree
  <1>11. WithinCeiling'
    BY <1>0 DEF WithinCeiling, TypeOK, RowsTyped, PassTyped, HandlerTyped, Placing, NotPlacing, SnapshotRows, CeilingChecked, Fits, RowsAgree
  <1>12. NoWaitAnswer'
    BY <1>0 DEF NoWaitAnswer, TypeOK, RowsTyped, PassTyped, HandlerTyped, Placing, NotPlacing, SnapshotRows, RowsAgree
  <1>13. AbandonedNotQueued'
    BY <1>0 DEF AbandonedNotQueued, TypeOK, RowsTyped, PassTyped, HandlerTyped, Placing, NotPlacing, SnapshotRows, RowsAgree
  <1> QED
    BY <1>1, <1>2, <1>3, <1>4, <1>5, <1>6, <1>7, <1>8, <1>9, <1>10, <1>11, <1>12, <1>13 DEF SchedInv, TypeOK

(* Preservation by CancelNoWait: a no-wait submit cancels its job.          *)
LEMMA CancelNoWaitKeeps ==
  ASSUME SchedInv, NEW h \in Handler, CancelNoWait(h)
  PROVE  SchedInv'
  <1> USE SchedulerAssumption DEF SchedInv, CancelNoWait, Cancelled, Answer, envVars, rowVars, walkVars, answerVars
  <1>0. h \in Pass BY DEF Pass
  <1>1. RowsTyped'
    BY <1>0 DEF RowsTyped, TypeOK, PassTyped, HandlerTyped, Placing, Submission, RowsAgree
  <1>2. PassTyped'
    BY <1>0 DEF PassTyped, TypeOK, RowsTyped, HandlerTyped, Placing
  <1>3. HandlerTyped'
    BY <1>0 DEF HandlerTyped, TypeOK, RowsTyped, PassTyped, RowsAgree
  <1>4. Placing'
    BY <1>0 DEF Placing, TypeOK, RowsTyped, PassTyped, HandlerTyped, NotPlacing, SnapshotRows
  <1>5. NotPlacing'
    BY <1>0 DEF NotPlacing, TypeOK, RowsTyped, PassTyped, HandlerTyped, Placing, SnapshotRows
  <1>6. SnapshotRows'
    BY <1>0 DEF SnapshotRows, TypeOK, RowsTyped, PassTyped, HandlerTyped, Placing, NotPlacing, RowsAgree
  <1>7. InOrder'
    BY <1>0 DEF InOrder, TypeOK, RowsTyped, PassTyped, HandlerTyped, Placing, NotPlacing, SnapshotRows, Ahead
  <1>8. RowsAgree'
    BY <1>0 DEF RowsAgree, TypeOK, RowsTyped, PassTyped, HandlerTyped, Placing, NotPlacing, SnapshotRows
  <1>9. HeldForAhead'
    BY <1>0 DEF HeldForAhead, TypeOK, RowsTyped, PassTyped, HandlerTyped, Placing, NotPlacing, SnapshotRows
  <1>10. CeilingChecked'
    BY <1>0 DEF CeilingChecked, TypeOK, RowsTyped, PassTyped, HandlerTyped, Placing, NotPlacing, SnapshotRows, Fits, RowsAgree
  <1>11. WithinCeiling'
    BY <1>0 DEF WithinCeiling, TypeOK, RowsTyped, PassTyped, HandlerTyped, Placing, NotPlacing, SnapshotRows, CeilingChecked, Fits, RowsAgree
  <1>12. NoWaitAnswer'
    <2>1. mine[h] \in Job /\ at[mine[h]] = None
      BY <1>0 DEF RowsAgree
    <2>2. job'[mine[h]] = "killed"
      BY <2>1 DEF TypeOK, RowsTyped
    <2>3. \A j \in Job : j # mine[h] => job'[j] = job[j]
      BY <2>1 DEF TypeOK, RowsTyped
    <2>4. UNCHANGED <<at, kept>> /\ refused' = refused \cup {mine[h]}
      OBVIOUS
    <2>5. refused \subseteq Job /\ kept \subseteq Job
      BY DEF TypeOK, HandlerTyped
    <2> HIDE DEF CancelNoWait, Cancelled, Answer
    <2> QED BY <2>1, <2>2, <2>3, <2>4, <2>5 DEF NoWaitAnswer
  <1>13. AbandonedNotQueued'
    BY <1>0 DEF AbandonedNotQueued, TypeOK, RowsTyped, PassTyped, HandlerTyped, Placing, NotPlacing, SnapshotRows, RowsAgree
  <1> QED
    BY <1>1, <1>2, <1>3, <1>4, <1>5, <1>6, <1>7, <1>8, <1>9, <1>10, <1>11, <1>12, <1>13 DEF SchedInv, TypeOK

(* Preservation by LostRace: a no-wait submit finds that its job was placed *)
(* after all.                                                               *)
LEMMA LostRaceKeeps ==
  ASSUME SchedInv, NEW h \in Handler, LostRace(h)
  PROVE  SchedInv'
  <1> USE SchedulerAssumption DEF SchedInv, LostRace, Answer, envVars, rowVars, walkVars, answerVars
  <1>0. h \in Pass BY DEF Pass
  <1>1. RowsTyped'
    BY <1>0 DEF RowsTyped, TypeOK, PassTyped, HandlerTyped, Placing, Submission, RowsAgree
  <1>2. PassTyped'
    BY <1>0 DEF PassTyped, TypeOK, RowsTyped, HandlerTyped, Placing
  <1>3. HandlerTyped'
    BY <1>0 DEF HandlerTyped, TypeOK, RowsTyped, PassTyped, RowsAgree
  <1>4. Placing'
    BY <1>0 DEF Placing, TypeOK, RowsTyped, PassTyped, HandlerTyped, NotPlacing, SnapshotRows
  <1>5. NotPlacing'
    BY <1>0 DEF NotPlacing, TypeOK, RowsTyped, PassTyped, HandlerTyped, Placing, SnapshotRows
  <1>6. SnapshotRows'
    BY <1>0 DEF SnapshotRows, TypeOK, RowsTyped, PassTyped, HandlerTyped, Placing, NotPlacing, RowsAgree
  <1>7. InOrder'
    BY <1>0 DEF InOrder, TypeOK, RowsTyped, PassTyped, HandlerTyped, Placing, NotPlacing, SnapshotRows, Ahead
  <1>8. RowsAgree'
    BY <1>0 DEF RowsAgree, TypeOK, RowsTyped, PassTyped, HandlerTyped, Placing, NotPlacing, SnapshotRows
  <1>9. HeldForAhead'
    BY <1>0 DEF HeldForAhead, TypeOK, RowsTyped, PassTyped, HandlerTyped, Placing, NotPlacing, SnapshotRows
  <1>10. CeilingChecked'
    BY <1>0 DEF CeilingChecked, TypeOK, RowsTyped, PassTyped, HandlerTyped, Placing, NotPlacing, SnapshotRows, Fits, RowsAgree
  <1>11. WithinCeiling'
    BY <1>0 DEF WithinCeiling, TypeOK, RowsTyped, PassTyped, HandlerTyped, Placing, NotPlacing, SnapshotRows, CeilingChecked, Fits, RowsAgree
  <1>12. NoWaitAnswer'
    BY <1>0 DEF NoWaitAnswer, TypeOK, RowsTyped, PassTyped, HandlerTyped, Placing, NotPlacing, SnapshotRows, RowsAgree
  <1>13. AbandonedNotQueued'
    BY <1>0 DEF AbandonedNotQueued, TypeOK, RowsTyped, PassTyped, HandlerTyped, Placing, NotPlacing, SnapshotRows, RowsAgree
  <1> QED
    BY <1>1, <1>2, <1>3, <1>4, <1>5, <1>6, <1>7, <1>8, <1>9, <1>10, <1>11, <1>12, <1>13 DEF SchedInv, TypeOK

(* Preservation by KillQueued: a queued job is killed.                      *)
LEMMA KillQueuedKeeps ==
  ASSUME SchedInv, NEW j \in Job, KillQueued(j)
  PROVE  SchedInv'
  <1> USE SchedulerAssumption DEF SchedInv, KillQueued, Cancelled, envVars, rowVars, walkVars, answerVars
  <1>0. Handler \subseteq Pass BY DEF Pass
  <1>1. RowsTyped'
    BY <1>0 DEF RowsTyped, TypeOK, PassTyped, HandlerTyped, Placing, Submission, RowsAgree
  <1>2. PassTyped'
    BY <1>0 DEF PassTyped, TypeOK, RowsTyped, HandlerTyped, Placing
  <1>3. HandlerTyped'
    BY <1>0 DEF HandlerTyped, TypeOK, RowsTyped, PassTyped, RowsAgree
  <1>4. Placing'
    BY <1>0 DEF Placing, TypeOK, RowsTyped, PassTyped, HandlerTyped, NotPlacing, SnapshotRows
  <1>5. NotPlacing'
    BY <1>0 DEF NotPlacing, TypeOK, RowsTyped, PassTyped, HandlerTyped, Placing, SnapshotRows
  <1>6. SnapshotRows'
    BY <1>0 DEF SnapshotRows, TypeOK, RowsTyped, PassTyped, HandlerTyped, Placing, NotPlacing, RowsAgree
  <1>7. InOrder'
    BY <1>0 DEF InOrder, TypeOK, RowsTyped, PassTyped, HandlerTyped, Placing, NotPlacing, SnapshotRows, Ahead
  <1>8. RowsAgree'
    BY <1>0 DEF RowsAgree, TypeOK, RowsTyped, PassTyped, HandlerTyped, Placing, NotPlacing, SnapshotRows
  <1>9. HeldForAhead'
    BY <1>0 DEF HeldForAhead, TypeOK, RowsTyped, PassTyped, HandlerTyped, Placing, NotPlacing, SnapshotRows
  <1>10. CeilingChecked'
    BY <1>0 DEF CeilingChecked, TypeOK, RowsTyped, PassTyped, HandlerTyped, Placing, NotPlacing, SnapshotRows, Fits, RowsAgree
  <1>11. WithinCeiling'
    BY <1>0 DEF WithinCeiling, TypeOK, RowsTyped, PassTyped, HandlerTyped, Placing, NotPlacing, SnapshotRows, CeilingChecked, Fits, RowsAgree
  <1>12. NoWaitAnswer'
    BY <1>0 DEF NoWaitAnswer, TypeOK, RowsTyped, PassTyped, HandlerTyped, Placing, NotPlacing, SnapshotRows, RowsAgree
  <1>13. AbandonedNotQueued'
    BY <1>0 DEF AbandonedNotQueued, TypeOK, RowsTyped, PassTyped, HandlerTyped, Placing, NotPlacing, SnapshotRows, RowsAgree
  <1> QED
    BY <1>1, <1>2, <1>3, <1>4, <1>5, <1>6, <1>7, <1>8, <1>9, <1>10, <1>11, <1>12, <1>13 DEF SchedInv, TypeOK

(* Preservation by Release: a job ends and frees its device.                *)
LEMMA ReleaseKeeps ==
  ASSUME SchedInv, NEW j \in Job, Release(j)
  PROVE  SchedInv'
  <1> USE SchedulerAssumption DEF SchedInv, Release, envVars, rowVars, walkVars, answerVars
  <1>0. Handler \subseteq Pass BY DEF Pass
  <1>1. RowsTyped'
    <2>1. at[j] \in Device
      BY DEF RowsAgree
    <2>2. dev' \in [Device -> {"ready", "busy", "out"}]
      BY <2>1 DEF TypeOK, RowsTyped
    <2>3. job' \in [Job -> {"absent", "queued", "assigned", "killed", "over"}]
      BY DEF TypeOK, RowsTyped
    <2> QED BY <2>2, <2>3 DEF RowsTyped, TypeOK
  <1>2. PassTyped'
    BY <1>0 DEF PassTyped, TypeOK, RowsTyped, HandlerTyped, Placing
  <1>3. HandlerTyped'
    BY <1>0 DEF HandlerTyped, TypeOK, RowsTyped, PassTyped, RowsAgree
  <1>4. Placing'
    BY <1>0 DEF Placing, TypeOK, RowsTyped, PassTyped, HandlerTyped, NotPlacing, SnapshotRows
  <1>5. NotPlacing'
    BY <1>0 DEF NotPlacing, TypeOK, RowsTyped, PassTyped, HandlerTyped, Placing, SnapshotRows
  <1>6. SnapshotRows'
    BY <1>0 DEF SnapshotRows, TypeOK, RowsTyped, PassTyped, HandlerTyped, Placing, NotPlacing, RowsAgree
  <1>7. InOrder'
    BY <1>0 DEF InOrder, TypeOK, RowsTyped, PassTyped, HandlerTyped, Placing, NotPlacing, SnapshotRows, Ahead
  <1>8. RowsAgree'
    BY <1>0 DEF RowsAgree, TypeOK, RowsTyped, PassTyped, HandlerTyped, Placing, NotPlacing, SnapshotRows
  <1>9. HeldForAhead'
    BY <1>0 DEF HeldForAhead, TypeOK, RowsTyped, PassTyped, HandlerTyped, Placing, NotPlacing, SnapshotRows
  <1>10. CeilingChecked'
    BY <1>0 DEF CeilingChecked, TypeOK, RowsTyped, PassTyped, HandlerTyped, Placing, NotPlacing, SnapshotRows, Fits, RowsAgree
  <1>11. WithinCeiling'
    BY <1>0 DEF WithinCeiling, TypeOK, RowsTyped, PassTyped, HandlerTyped, Placing, NotPlacing, SnapshotRows, CeilingChecked, Fits, RowsAgree
  <1>12. NoWaitAnswer'
    BY <1>0 DEF NoWaitAnswer, TypeOK, RowsTyped, PassTyped, HandlerTyped, Placing, NotPlacing, SnapshotRows, RowsAgree
  <1>13. AbandonedNotQueued'
    BY <1>0 DEF AbandonedNotQueued, TypeOK, RowsTyped, PassTyped, HandlerTyped, Placing, NotPlacing, SnapshotRows, RowsAgree
  <1> QED
    BY <1>1, <1>2, <1>3, <1>4, <1>5, <1>6, <1>7, <1>8, <1>9, <1>10, <1>11, <1>12, <1>13 DEF SchedInv, TypeOK

(* Preservation by Quarantine: a device leaves the pool.                    *)
LEMMA QuarantineKeeps ==
  ASSUME SchedInv, NEW d \in Device, Quarantine(d)
  PROVE  SchedInv'
  <1> USE SchedulerAssumption DEF SchedInv, Quarantine, envVars, rowVars, walkVars, answerVars
  <1>0. Handler \subseteq Pass BY DEF Pass
  <1>1. RowsTyped'
    BY <1>0 DEF RowsTyped, TypeOK, PassTyped, HandlerTyped, Placing, Submission, RowsAgree
  <1>2. PassTyped'
    BY <1>0 DEF PassTyped, TypeOK, RowsTyped, HandlerTyped, Placing
  <1>3. HandlerTyped'
    BY <1>0 DEF HandlerTyped, TypeOK, RowsTyped, PassTyped, RowsAgree
  <1>4. Placing'
    BY <1>0 DEF Placing, TypeOK, RowsTyped, PassTyped, HandlerTyped, NotPlacing, SnapshotRows
  <1>5. NotPlacing'
    BY <1>0 DEF NotPlacing, TypeOK, RowsTyped, PassTyped, HandlerTyped, Placing, SnapshotRows
  <1>6. SnapshotRows'
    BY <1>0 DEF SnapshotRows, TypeOK, RowsTyped, PassTyped, HandlerTyped, Placing, NotPlacing, RowsAgree
  <1>7. InOrder'
    BY <1>0 DEF InOrder, TypeOK, RowsTyped, PassTyped, HandlerTyped, Placing, NotPlacing, SnapshotRows, Ahead
  <1>8. RowsAgree'
    BY <1>0 DEF RowsAgree, TypeOK, RowsTyped, PassTyped, HandlerTyped, Placing, NotPlacing, SnapshotRows
  <1>9. HeldForAhead'
    BY <1>0 DEF HeldForAhead, TypeOK, RowsTyped, PassTyped, HandlerTyped, Placing, NotPlacing, SnapshotRows
  <1>10. CeilingChecked'
    BY <1>0 DEF CeilingChecked, TypeOK, RowsTyped, PassTyped, HandlerTyped, Placing, NotPlacing, SnapshotRows, Fits, RowsAgree
  <1>11. WithinCeiling'
    BY <1>0 DEF WithinCeiling, TypeOK, RowsTyped, PassTyped, HandlerTyped, Placing, NotPlacing, SnapshotRows, CeilingChecked, Fits, RowsAgree
  <1>12. NoWaitAnswer'
    BY <1>0 DEF NoWaitAnswer, TypeOK, RowsTyped, PassTyped, HandlerTyped, Placing, NotPlacing, SnapshotRows, RowsAgree
  <1>13. AbandonedNotQueued'
    BY <1>0 DEF AbandonedNotQueued, TypeOK, RowsTyped, PassTyped, HandlerTyped, Placing, NotPlacing, SnapshotRows, RowsAgree
  <1> QED
    BY <1>1, <1>2, <1>3, <1>4, <1>5, <1>6, <1>7, <1>8, <1>9, <1>10, <1>11, <1>12, <1>13 DEF SchedInv, TypeOK

(* Preservation by Return: a device comes back.                             *)
LEMMA ReturnKeeps ==
  ASSUME SchedInv, NEW d \in Device, Return(d)
  PROVE  SchedInv'
  <1> USE SchedulerAssumption DEF SchedInv, Return, envVars, rowVars, walkVars, answerVars
  <1>0. Handler \subseteq Pass BY DEF Pass
  <1>1. RowsTyped'
    BY <1>0 DEF RowsTyped, TypeOK, PassTyped, HandlerTyped, Placing, Submission, RowsAgree
  <1>2. PassTyped'
    BY <1>0 DEF PassTyped, TypeOK, RowsTyped, HandlerTyped, Placing
  <1>3. HandlerTyped'
    BY <1>0 DEF HandlerTyped, TypeOK, RowsTyped, PassTyped, RowsAgree
  <1>4. Placing'
    BY <1>0 DEF Placing, TypeOK, RowsTyped, PassTyped, HandlerTyped, NotPlacing, SnapshotRows
  <1>5. NotPlacing'
    BY <1>0 DEF NotPlacing, TypeOK, RowsTyped, PassTyped, HandlerTyped, Placing, SnapshotRows
  <1>6. SnapshotRows'
    BY <1>0 DEF SnapshotRows, TypeOK, RowsTyped, PassTyped, HandlerTyped, Placing, NotPlacing, RowsAgree
  <1>7. InOrder'
    BY <1>0 DEF InOrder, TypeOK, RowsTyped, PassTyped, HandlerTyped, Placing, NotPlacing, SnapshotRows, Ahead
  <1>8. RowsAgree'
    BY <1>0 DEF RowsAgree, TypeOK, RowsTyped, PassTyped, HandlerTyped, Placing, NotPlacing, SnapshotRows
  <1>9. HeldForAhead'
    BY <1>0 DEF HeldForAhead, TypeOK, RowsTyped, PassTyped, HandlerTyped, Placing, NotPlacing, SnapshotRows
  <1>10. CeilingChecked'
    BY <1>0 DEF CeilingChecked, TypeOK, RowsTyped, PassTyped, HandlerTyped, Placing, NotPlacing, SnapshotRows, Fits, RowsAgree
  <1>11. WithinCeiling'
    BY <1>0 DEF WithinCeiling, TypeOK, RowsTyped, PassTyped, HandlerTyped, Placing, NotPlacing, SnapshotRows, CeilingChecked, Fits, RowsAgree
  <1>12. NoWaitAnswer'
    BY <1>0 DEF NoWaitAnswer, TypeOK, RowsTyped, PassTyped, HandlerTyped, Placing, NotPlacing, SnapshotRows, RowsAgree
  <1>13. AbandonedNotQueued'
    BY <1>0 DEF AbandonedNotQueued, TypeOK, RowsTyped, PassTyped, HandlerTyped, Placing, NotPlacing, SnapshotRows, RowsAgree
  <1> QED
    BY <1>1, <1>2, <1>3, <1>4, <1>5, <1>6, <1>7, <1>8, <1>9, <1>10, <1>11, <1>12, <1>13 DEF SchedInv, TypeOK

(* Preservation by SetDeviceMaxRuntime: a ceiling changes, and the jobs     *)
(* checked against the old one are marked.                                  *)
LEMMA SetDeviceMaxRuntimeKeeps ==
  ASSUME SchedInv, NEW d \in Device, NEW c \in Ceiling, SetDeviceMaxRuntime(d, c)
  PROVE  SchedInv'
  <1> USE SchedulerAssumption DEF SchedInv, SetDeviceMaxRuntime, CheckedOn, envVars, rowVars, walkVars, answerVars
  <1>0. Handler \subseteq Pass BY DEF Pass
  <1>1. RowsTyped'
    BY <1>0 DEF RowsTyped, TypeOK, PassTyped, HandlerTyped, Placing, Submission, RowsAgree
  <1>2. PassTyped'
    BY <1>0 DEF PassTyped, TypeOK, RowsTyped, HandlerTyped, Placing
  <1>3. HandlerTyped'
    <2>1. changes' \in 0..MaxChange
      BY DEF TypeOK, HandlerTyped
    <2>2. CheckedOn(d) \subseteq Job
      OBVIOUS
    <2> HIDE DEF CheckedOn
    <2> QED BY <2>1, <2>2 DEF HandlerTyped, TypeOK
  <1>4. Placing'
    BY <1>0 DEF Placing, TypeOK, RowsTyped, PassTyped, HandlerTyped, NotPlacing, SnapshotRows
  <1>5. NotPlacing'
    BY <1>0 DEF NotPlacing, TypeOK, RowsTyped, PassTyped, HandlerTyped, Placing, SnapshotRows
  <1>6. SnapshotRows'
    BY <1>0 DEF SnapshotRows, TypeOK, RowsTyped, PassTyped, HandlerTyped, Placing, NotPlacing, RowsAgree
  <1>7. InOrder'
    BY <1>0 DEF InOrder, TypeOK, RowsTyped, PassTyped, HandlerTyped, Placing, NotPlacing, SnapshotRows, Ahead
  <1>8. RowsAgree'
    BY <1>0 DEF RowsAgree, TypeOK, RowsTyped, PassTyped, HandlerTyped, Placing, NotPlacing, SnapshotRows
  <1>9. HeldForAhead'
    BY <1>0 DEF HeldForAhead, TypeOK, RowsTyped, PassTyped, HandlerTyped, Placing, NotPlacing, SnapshotRows
  <1>10. CeilingChecked'
    BY <1>0 DEF CeilingChecked, TypeOK, RowsTyped, PassTyped, HandlerTyped, Placing, NotPlacing, SnapshotRows, Fits, RowsAgree
  <1>11. WithinCeiling'
    BY <1>0 DEF WithinCeiling, TypeOK, RowsTyped, PassTyped, HandlerTyped, Placing, NotPlacing, SnapshotRows, CeilingChecked, Fits, RowsAgree
  <1>12. NoWaitAnswer'
    BY <1>0 DEF NoWaitAnswer, TypeOK, RowsTyped, PassTyped, HandlerTyped, Placing, NotPlacing, SnapshotRows, RowsAgree
  <1>13. AbandonedNotQueued'
    BY <1>0 DEF AbandonedNotQueued, TypeOK, RowsTyped, PassTyped, HandlerTyped, Placing, NotPlacing, SnapshotRows, RowsAgree
  <1> QED
    BY <1>1, <1>2, <1>3, <1>4, <1>5, <1>6, <1>7, <1>8, <1>9, <1>10, <1>11, <1>12, <1>13 DEF SchedInv, TypeOK

(* Preservation by ReplaceLabels: a label changes.                          *)
LEMMA ReplaceLabelsKeeps ==
  ASSUME SchedInv, NEW d \in Device, NEW l \in Label \cup {None}, ReplaceLabels(d, l)
  PROVE  SchedInv'
  <1> USE SchedulerAssumption DEF SchedInv, ReplaceLabels, envVars, rowVars, walkVars, answerVars
  <1>0. Handler \subseteq Pass BY DEF Pass
  <1>1. RowsTyped'
    BY <1>0 DEF RowsTyped, TypeOK, PassTyped, HandlerTyped, Placing, Submission, RowsAgree
  <1>2. PassTyped'
    BY <1>0 DEF PassTyped, TypeOK, RowsTyped, HandlerTyped, Placing
  <1>3. HandlerTyped'
    BY <1>0 DEF HandlerTyped, TypeOK, RowsTyped, PassTyped, RowsAgree
  <1>4. Placing'
    BY <1>0 DEF Placing, TypeOK, RowsTyped, PassTyped, HandlerTyped, NotPlacing, SnapshotRows
  <1>5. NotPlacing'
    BY <1>0 DEF NotPlacing, TypeOK, RowsTyped, PassTyped, HandlerTyped, Placing, SnapshotRows
  <1>6. SnapshotRows'
    BY <1>0 DEF SnapshotRows, TypeOK, RowsTyped, PassTyped, HandlerTyped, Placing, NotPlacing, RowsAgree
  <1>7. InOrder'
    BY <1>0 DEF InOrder, TypeOK, RowsTyped, PassTyped, HandlerTyped, Placing, NotPlacing, SnapshotRows, Ahead
  <1>8. RowsAgree'
    BY <1>0 DEF RowsAgree, TypeOK, RowsTyped, PassTyped, HandlerTyped, Placing, NotPlacing, SnapshotRows
  <1>9. HeldForAhead'
    BY <1>0 DEF HeldForAhead, TypeOK, RowsTyped, PassTyped, HandlerTyped, Placing, NotPlacing, SnapshotRows
  <1>10. CeilingChecked'
    BY <1>0 DEF CeilingChecked, TypeOK, RowsTyped, PassTyped, HandlerTyped, Placing, NotPlacing, SnapshotRows, Fits, RowsAgree
  <1>11. WithinCeiling'
    BY <1>0 DEF WithinCeiling, TypeOK, RowsTyped, PassTyped, HandlerTyped, Placing, NotPlacing, SnapshotRows, CeilingChecked, Fits, RowsAgree
  <1>12. NoWaitAnswer'
    BY <1>0 DEF NoWaitAnswer, TypeOK, RowsTyped, PassTyped, HandlerTyped, Placing, NotPlacing, SnapshotRows, RowsAgree
  <1>13. AbandonedNotQueued'
    BY <1>0 DEF AbandonedNotQueued, TypeOK, RowsTyped, PassTyped, HandlerTyped, Placing, NotPlacing, SnapshotRows, RowsAgree
  <1> QED
    BY <1>1, <1>2, <1>3, <1>4, <1>5, <1>6, <1>7, <1>8, <1>9, <1>10, <1>11, <1>12, <1>13 DEF SchedInv, TypeOK

(* A stuttering step changes nothing the invariant speaks of. *)
LEMMA StutterKeeps == SchedInv /\ UNCHANGED schedVars => SchedInv'
  <1> SUFFICES ASSUME SchedInv, UNCHANGED schedVars PROVE SchedInv'
    OBVIOUS
  <1>1. RowsTyped' /\ PassTyped' /\ HandlerTyped'
    BY DEF SchedInv, TypeOK, RowsTyped, PassTyped, HandlerTyped, schedVars
  <1>2. Placing' /\ NotPlacing' /\ SnapshotRows' /\ InOrder' /\ RowsAgree'
    BY DEF SchedInv, Placing, NotPlacing, SnapshotRows, InOrder, Ahead,
           RowsAgree, schedVars
  <1>3. HeldForAhead' /\ CeilingChecked' /\ WithinCeiling'
    BY DEF SchedInv, HeldForAhead, CeilingChecked, WithinCeiling, Fits, schedVars
  <1>4. NoWaitAnswer' /\ AbandonedNotQueued'
    BY DEF SchedInv, NoWaitAnswer, AbandonedNotQueued, schedVars
  <1> QED
    BY <1>1, <1>2, <1>3, <1>4 DEF SchedInv, TypeOK

(* The invariant is inductive. *)
LEMMA NextInv == SchedInv /\ [Next]_schedVars => SchedInv'
  <1> SUFFICES ASSUME SchedInv, [Next]_schedVars PROVE SchedInv'
    OBVIOUS
  <1>1. CASE \E p \in Pass : PassStep(p)
    BY <1>1, StartPassKeeps, EndPassKeeps, FailPassKeeps, GoByKeeps,
       SkipUnmatchedKeeps, TakeUpKeeps, AssignQueuedKeeps, VanishedKeeps, NotFreeKeeps,
       NoneFreeKeeps DEF PassStep
  <1>2. CASE \E h \in Handler : HandlerStep(h)
    BY <1>2, SubmitKeeps, EnqueueUnreadKeeps, ResubmitKeeps, EmptyPassKeeps,
       AbandonQueuedJobKeeps, CancelFailsKeeps, FailReadBackKeeps, AnswerCreatedKeeps,
       FoundWaitingKeeps, CancelNoWaitKeeps, LostRaceKeeps DEF HandlerStep
  <1>3. CASE \E j \in Job : KillQueued(j) \/ Release(j)
    BY <1>3, KillQueuedKeeps, ReleaseKeeps
  <1>4. CASE \E d \in Device : DeviceStep(d)
    BY <1>4, QuarantineKeeps, ReturnKeeps, SetDeviceMaxRuntimeKeeps,
       ReplaceLabelsKeeps DEF DeviceStep
  <1>5. CASE UNCHANGED schedVars
    BY <1>5, StutterKeeps
  <1> QED
    BY <1>1, <1>2, <1>3, <1>4, <1>5 DEF Next

(* Every pass keeps its place in the queue and its reservations, however    *)
(* passes, submits, cancels and registrations interleave.                   *)
THEOREM SchedConsistent == Spec => []SchedInv
  <1>1. Init => SchedInv
    BY InitInv
  <1>2. SchedInv /\ [Next]_schedVars => SchedInv'
    BY NextInv
  <1> QED
    BY <1>1, <1>2, PTL DEF Spec

(* Once a pass has gone past a queued job, all the job could have used is   *)
(* reserved for the rest of the pass.                                       *)
THEOREM ReservationsHold == Spec => []HeldForAhead
  <1>1. SchedInv => HeldForAhead
    BY DEF SchedInv
  <1> QED
    BY <1>1, SchedConsistent, PTL

(* No job that asked for a run time, or for none, runs above the ceiling it *)
(* was checked against; one that asked for a negative run time is outside   *)
(* the ceiling everywhere, and outside this theorem.                        *)
THEOREM CeilingsHold == Spec => []WithinCeiling
  <1>1. SchedInv => WithinCeiling
    BY DEF SchedInv
  <1> QED
    BY <1>1, SchedConsistent, PTL

(* The answer to a no-wait submit is true when it is given and stays true.  *)
THEOREM NoWaitIsHonest == Spec => []NoWaitAnswer
  <1>1. SchedInv => NoWaitAnswer
    BY DEF SchedInv
  <1> QED
    BY <1>1, SchedConsistent, PTL

(* A submit that answered with an error has left nothing in the queue,      *)
(* unless its row could not be read back or its cancel failed too.          *)
THEOREM FailureLeavesNothing == Spec => []AbandonedNotQueued
  <1>1. SchedInv => AbandonedNotQueued
    BY DEF SchedInv
  <1> QED
    BY <1>1, SchedConsistent, PTL

(* ScheduleOnce gives no device to a job while a job ahead of it in the     *)
(* same snapshot still waits for that device.                               *)
THEOREM NobodyOvertaken == Spec => NoOvertaking
  <1> DEFINE Fair ==
        \A p \in Pass, b \in Job, d \in Device :
          pc[p] = "try" /\ cur[p] = b /\ AssignQueued(p, d)
          => \A a \in (seen[p] \cup todo[p]) \ {b} :
               Ahead(a, b) /\ job[a] = "queued" => d \notin cand[p][a]
  <1>1. SchedInv /\ [Next]_schedVars => [Fair]_schedVars
    <2> SUFFICES ASSUME SchedInv,
                        NEW p \in Pass, NEW b \in Job, NEW d \in Device,
                        pc[p] = "try", cur[p] = b, AssignQueued(p, d),
                        NEW a \in (seen[p] \cup todo[p]) \ {b},
                        Ahead(a, b), job[a] = "queued"
                 PROVE  d \notin cand[p][a]
      BY DEF Fair
    <2>1. d \notin reserved[p]
      BY DEF SchedInv, Placing, AssignQueued, Trying
    <2>2. CASE a \in seen[p]
      BY <2>1, <2>2 DEF SchedInv, HeldForAhead
    <2>3. CASE a \in todo[p]
      <3>1. Ahead(b, a)
        BY <2>3 DEF SchedInv, InOrder
      <3>2. a \in Nat /\ b \in Nat /\ want[a].prio \in Nat /\ want[b].prio \in Nat
        BY <2>3, SchedulerAssumption
           DEF SchedInv, TypeOK, RowsTyped, PassTyped, Submission
      <3> QED
        BY <3>1, <3>2 DEF Ahead
    <2> QED
      BY <2>2, <2>3
  <1> QED
    BY <1>1, SchedConsistent, PTL DEF Spec, NoOvertaking

(* What a submit was told stays true: a 409 never runs, a no-wait 201 is    *)
(* out of the queue, and so is the job of a 500 that could be cancelled     *)
(* (handleSubmit, CancelQueued, abandonQueuedJob).                          *)
THEOREM AnswersStand == Spec => []AnswersHold
  <1> QED BY NoWaitIsHonest, FailureLeavesNothing, PTL DEF AnswersHold
=============================================================================
