------------------------------ MODULE Notifier ------------------------------
(***************************************************************************)
(* The webhook notifier: handlers, the sweep and the scheduler enqueue     *)
(* events and never wait; one goroutine delivers them with retries; Close  *)
(* asks it to stop, and cuts deliveries short when its own context ends.   *)
(* The sink (the webhook's HTTP request) returns in bounded time and       *)
(* honours cancellation.                                                   *)
(***************************************************************************)
EXTENDS Naturals, Sequences

CONSTANTS
  Emitter,    \* the goroutines that call Notify
  QueueSize, Attempts,
  MaxEvent    \* bound: events

ASSUME NotifierAssumption ==
  QueueSize \in Nat \ {0} /\ Attempts \in Nat \ {0} /\ MaxEvent \in Nat

VARIABLES
  events,     \* events made so far, which numbers them
  emit,       \* the event a Notify call has past its closed check; 0 is none
  queue,
  fate,       \* history: delivered, dropped, gaveUp; none while open
  early,      \* history: events enqueued before Close was called
  run,        \* the goroutine: loop, wait, drain, done
  event,      \* the event it delivers; 0 is none
  attempt,    \* attempts begun for it
  pause,      \* it waits out the backoff
  asked,      \* closeRequested is closed
  cancelled,  \* deliveryCtx is over
  close       \* the Close call: idle, waiting, cancelled, returned

notifyVars == <<events, emit, queue, fate, early, run, event, attempt, pause,
                asked, cancelled, close>>
runVars == <<run, event, attempt, pause>>

NotifyInit ==
  /\ events = 0
  /\ emit = [e \in Emitter |-> 0]
  /\ queue = << >>
  /\ fate = [n \in 1..MaxEvent |-> "none"]
  /\ early = {}
  /\ run = "loop" /\ event = 0 /\ attempt = 0 /\ pause = FALSE
  /\ asked = FALSE /\ cancelled = FALSE /\ close = "idle"

(* Notify: the closed check ... *)
NotifyChecks(e) ==
  /\ emit[e] = 0 /\ events < MaxEvent
  /\ events' = events + 1
  /\ IF asked THEN /\ fate' = [fate EXCEPT ![events + 1] = "dropped"]
                   /\ UNCHANGED emit
     ELSE /\ emit' = [emit EXCEPT ![e] = events + 1]
          /\ UNCHANGED fate
  /\ UNCHANGED <<queue, early, runVars, asked, cancelled, close>>

(* ... and the send, which gives up at once when the queue is full. *)
NotifySends(e) ==
  /\ emit[e] # 0
  /\ emit' = [emit EXCEPT ![e] = 0]
  /\ IF Len(queue) < QueueSize
     THEN /\ queue' = Append(queue, emit[e])
          /\ early' = IF asked THEN early ELSE early \cup {emit[e]}
          /\ UNCHANGED fate
     ELSE /\ fate' = [fate EXCEPT ![emit[e]] = "dropped"]
          /\ UNCHANGED <<queue, early>>
  /\ UNCHANGED <<events, runVars, asked, cancelled, close>>
-----------------------------------------------------------------------------
(* run: the probe for a shutdown comes first. *)
ProbeClose ==
  /\ run = "loop" /\ event = 0
  /\ run' = IF asked THEN "drain" ELSE "wait"
  /\ UNCHANGED <<events, emit, queue, fate, early, event, attempt, pause, asked,
                 cancelled, close>>

(* A receive, in the loop or in drainRemaining. *)
Receive ==
  /\ run \in {"wait", "drain"} /\ event = 0 /\ queue # << >>
  /\ event' = Head(queue) /\ queue' = Tail(queue)
  /\ attempt' = 0
  /\ run' = IF run = "wait" THEN "loop" ELSE "drain"
  /\ UNCHANGED <<events, emit, fate, early, pause, asked, cancelled, close>>

(* The shutdown is left at once. *)
WaitClosed_Leaves == run' = "done"

WaitClosed == run' = "drain"

SeeClose ==
  /\ run = "wait" /\ asked
  /\ WaitClosed
  /\ UNCHANGED <<events, emit, queue, fate, early, event, attempt, pause, asked,
                 cancelled, close>>

DrainOver == queue = << >>

Exit ==
  /\ run = "drain" /\ event = 0 /\ DrainOver
  /\ run' = "done" /\ cancelled' = TRUE
  /\ UNCHANGED <<events, emit, queue, fate, early, event, attempt, pause, asked,
                 close>>

(* deliver: an attempt that succeeds ... *)
DeliverOK ==
  /\ event # 0 /\ ~pause /\ ~cancelled /\ attempt < Attempts
  /\ fate' = [fate EXCEPT ![event] = "delivered"]
  /\ event' = 0 /\ attempt' = 0
  /\ UNCHANGED <<events, emit, queue, early, run, pause, asked, cancelled, close>>

(* ... or fails, with a pause before the next one. *)
DeliverFails ==
  /\ event # 0 /\ ~pause /\ ~cancelled /\ attempt < Attempts
  /\ attempt' = attempt + 1
  /\ pause' = (attempt + 1 < Attempts)
  /\ UNCHANGED <<events, emit, queue, fate, early, run, event, asked, cancelled,
                 close>>

BackoffOver ==
  /\ pause /\ ~cancelled
  /\ pause' = FALSE
  /\ UNCHANGED <<events, emit, queue, fate, early, run, event, attempt, asked,
                 cancelled, close>>

(* The attempts are spent, or the delivery context is over: also out of a   *)
(* pause.                                                                   *)
GiveUp ==
  /\ event # 0 /\ (cancelled \/ (~pause /\ attempt = Attempts))
  /\ fate' = [fate EXCEPT ![event] = "gaveUp"]
  /\ event' = 0 /\ attempt' = 0 /\ pause' = FALSE
  /\ UNCHANGED <<events, emit, queue, early, run, asked, cancelled, close>>
-----------------------------------------------------------------------------
CallClose ==
  /\ close = "idle"
  /\ close' = "waiting" /\ asked' = TRUE
  /\ UNCHANGED <<events, emit, queue, fate, early, runVars, cancelled>>

(* The caller's context ends while Close waits. *)
CloseTimeout ==
  /\ close = "waiting" /\ run # "done"
  /\ close' = "cancelled" /\ cancelled' = TRUE
  /\ UNCHANGED <<events, emit, queue, fate, early, runVars, asked>>

CloseReturn ==
  /\ close \in {"waiting", "cancelled"} /\ run = "done"
  /\ close' = "returned"
  /\ UNCHANGED <<events, emit, queue, fate, early, runVars, asked, cancelled>>

RunStep == \/ ProbeClose \/ Receive \/ SeeClose \/ Exit
           \/ DeliverOK \/ DeliverFails \/ BackoffOver \/ GiveUp

NotifyNext ==
  \/ \E e \in Emitter : NotifyChecks(e) \/ NotifySends(e)
  \/ RunStep \/ CallClose \/ CloseTimeout \/ CloseReturn

NotifySpec == /\ NotifyInit /\ [][NotifyNext]_notifyVars
              /\ WF_notifyVars(RunStep) /\ WF_notifyVars(CloseReturn)
-----------------------------------------------------------------------------
(* Close returns, whether or not the webhook answers and whoever goes on     *)
(* emitting, and then every event that was in the queue before Close was     *)
(* called has been delivered or given up on; only an event that passed the   *)
(* closed check before Close and was sent after it can be left behind,       *)
(* uncounted.  (Close, drainRemaining and Notify's note on shutdown.)        *)
CloseReturns ==
  asked ~> /\ close = "returned"
           /\ \A n \in early : fate[n] \in {"delivered", "gaveUp"}
=============================================================================
