----------------------------- MODULE MCServices -----------------------------
(***************************************************************************)
(* The parts of the controller and of the client around the allocation     *)
(* core, one of them at a time: the choice is made in the initial state    *)
(* and the others keep theirs.                                             *)
(***************************************************************************)
EXTENDS Attach, LogStore, Notifier, RunClient, LongPoll, Events

VARIABLE active

Part == {"attach", "log", "notifier", "run", "poll", "events"}

Init == /\ active \in Part
        /\ AttachInit /\ LogInit /\ NotifyInit
        /\ RunInit /\ PollInit /\ EventsInit
        /\ hold => active = "run"

Next ==
  /\ UNCHANGED active
  /\ \/ /\ active = "attach" /\ AttachNext
        /\ UNCHANGED <<logVars, notifyVars, runVariables, pollVars, eventVars>>
     \/ /\ active = "log" /\ LogNext
        /\ UNCHANGED <<attachVars, notifyVars, runVariables, pollVars, eventVars>>
     \/ /\ active = "notifier" /\ NotifyNext
        /\ UNCHANGED <<attachVars, logVars, runVariables, pollVars, eventVars>>
     \/ /\ active = "run" /\ RunNext
        /\ UNCHANGED <<attachVars, logVars, notifyVars, pollVars, eventVars>>
     \/ /\ active = "poll" /\ PollNext
        /\ UNCHANGED <<attachVars, logVars, notifyVars, runVariables, eventVars>>
     \/ /\ active = "events" /\ EventsNext
        /\ UNCHANGED <<attachVars, logVars, notifyVars, runVariables, pollVars>>

vars == <<active, attachVars, logVars, notifyVars, runVariables, pollVars,
          eventVars>>

(* Each part's own fairness, while it is the one that moves. *)
Fairness ==
  /\ WF_attachVars(active = "attach" /\ RelayStep)
  /\ WF_logVars(active = "log" /\ \E a \in Appender : AppendWake(a))
  /\ \A f \in Follower : /\ WF_logVars(active = "log" /\ FollowStep(f))
                         /\ WF_logVars(active = "log" /\ WatchStep(f))
  /\ WF_notifyVars(active = "notifier" /\ RunStep)
  /\ WF_notifyVars(active = "notifier" /\ CloseReturn)
  /\ WF_runVariables(active = "run" /\ Prompt /\ RunCmdStep)
  /\ WF_pollVars(active = "poll" /\ PollStep)
  /\ \A s \in Subscriber : WF_eventVars(active = "events" /\ StreamStep(s))

Spec == Init /\ [][Next]_vars /\ Fairness
=============================================================================
