------------------------------ MODULE MCWorker ------------------------------
(***************************************************************************)
(* The parts of the worker that have a state of their own, one of them at  *)
(* a time: the choice is made in the initial state and the others keep     *)
(* theirs.                                                                 *)
(***************************************************************************)
EXTENDS Hooks, Probes, Contact, Exec, TLC

CONSTANTS j1, j2, j3

VARIABLE active

MCReport == (Nvidia :> {{"g", Stranger}, {}}) @@ (1 :> {{"c", HostKey}, {"g"}})
              @@ (2 :> {{"c"}})

Part == {"hooks", "probes", "contact", "exec"}

WorkerInit ==
  /\ active \in Part
  /\ Init /\ ProbesInit /\ ContactInit /\ ExecInit
  /\ active # "hooks" => hooks = {} /\ service = "up"
  /\ active # "exec" => stdio = "pipes" /\ ~sweeps

WorkerNext ==
  /\ UNCHANGED active
  /\ \/ /\ active = "hooks" /\ Next
        /\ UNCHANGED <<probeVars, contactVars, execVars>>
     \/ /\ active = "probes" /\ ProbesNext
        /\ UNCHANGED <<vars, contactVars, execVars>>
     \/ /\ active = "contact" /\ ContactNext
        /\ UNCHANGED <<vars, probeVars, execVars>>
     \/ /\ active = "exec" /\ ExecNext
        /\ UNCHANGED <<vars, probeVars, contactVars>>

workerVars == <<active, vars, probeVars, contactVars, execVars>>

(* Each part's own fairness, while it is the one that moves. *)
HooksFairness ==
  /\ WF_vars(active = "hooks" /\ StartWorker)
  /\ WF_vars(active = "hooks" /\ (StartupRelease \/ StartupSkipped))
  /\ \A j \in Job :
       WF_vars(active = "hooks"
               /\ (\/ Acquire(j) \/ AcquireHookDone(j) \/ AcquireHookFailed(j)
                   \/ Reported(j) \/ ScheduleRelease(j)))
  /\ WF_vars(active = "hooks" /\ Elapse)
  /\ WF_vars(active = "hooks" /\ \E g \in fires : TimerFires(g))
  /\ WF_vars(active = "hooks" /\ ReleaseHookEnds)
  /\ WF_vars(active = "hooks" /\ DrainPendingReleases)
  /\ WF_vars(active = "hooks" /\ DrainFires)
  /\ WF_vars(active = "hooks" /\ Exit)

WorkerFairness ==
  /\ HooksFairness
  /\ WF_probeVars(active = "probes" /\ FullPass)
  /\ WF_probeVars(active = "probes" /\ \E m \in wire : ApplyDeviceFacts(m))
  /\ WF_contactVars(active = "contact" /\ Exchange(instance))
  /\ WF_contactVars(active = "contact" /\ \E a \in answers : Observe(a))
  /\ WF_contactVars(active = "contact" /\ ContactStep)
  /\ WF_execVars(active = "exec" /\ Supervision)
  /\ SF_execVars(active = "exec" /\ SweepTimeout)
  /\ \A p \in Process : WF_execVars(active = "exec" /\ Collect(p))

WorkerSpec == WorkerInit /\ [][WorkerNext]_workerVars /\ WorkerFairness
=============================================================================
