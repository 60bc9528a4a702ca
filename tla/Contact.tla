------------------------------ MODULE Contact ------------------------------
(***************************************************************************)
(* When a running worker registers again (worker/reconnect.go).  Every     *)
(* answered exchange, of the poll loop or of another goroutine, is         *)
(* observed by the contact tracker some time after it was stamped; another *)
(* instance than the last one seen, or contact after a long silence,       *)
(* leaves a registration owed.  The poll loop makes it when the            *)
(* appointment has come and no job is in hand.  The controller always      *)
(* names its instance, and an answer may arrive after the process that     *)
(* gave it is gone.                                                        *)
(***************************************************************************)
EXTENDS Naturals, FiniteSets

CONSTANTS
  Silence,       \* reregisterAfterSilence
  MaxClock, MaxInstance, MaxFailure, MaxWork, MaxAnswer  \* bounds

ASSUME ContactAssumption ==
  /\ Silence \in Nat \ {0} /\ MaxClock \in Nat /\ MaxInstance \in Nat
  /\ MaxFailure \in Nat /\ MaxWork \in Nat /\ MaxAnswer \in Nat \ {0}

VARIABLES
  clock,
  instance,     \* the controller process that answers now
  answers,      \* exchanges answered and not yet observed
  known,        \* contactTracker.instance; 0 is none
  lastContact,  \* contactTracker.lastContact
  due,          \* dueAt: none, armed (in the future), ripe
  loop,         \* the poll loop: polling, or a step of maybeReregister
  handler,      \* the process that handled the last registration
  working,      \* a job is in hand
  owes,         \* history: since the last registration that a controller
                \* handled, the worker heard of a later process than the one
                \* that handled it, or was out of contact for Silence
  newest,       \* history: the latest stamp observed
  slipped,      \* history: a debt was settled with another registration
  unheard,      \* history: a registration was handled and its answer lost,
                \* and none has been settled since
  crossed,      \* history: an answer of an earlier process than the last one
                \* seen was observed, and nothing has made up for it yet
  works, failures

trackerVars == <<known, lastContact, due>>
doubtVars == <<unheard, crossed>>
contactVars == <<clock, instance, answers, trackerVars, loop, handler, working, owes,
                 newest, slipped, doubtVars, works, failures>>

(* The worker has just registered with the first controller process. *)
ContactInit ==
  /\ clock = 0 /\ instance = 1
  /\ answers = {}
  /\ known = 1 /\ lastContact = 0 /\ due = "none"
  /\ loop = "poll" /\ handler = 1 /\ working = FALSE
  /\ owes = FALSE /\ newest = 0 /\ slipped = FALSE
  /\ unheard = FALSE /\ crossed = FALSE
  /\ works = 0 /\ failures = 0

Tick == /\ clock < MaxClock
        /\ clock' = clock + 1
        /\ UNCHANGED <<instance, answers, trackerVars, loop, handler, working, owes,
                       newest, slipped, doubtVars, works, failures>>

RestartController ==
  /\ instance < MaxInstance
  /\ instance' = instance + 1
  /\ UNCHANGED <<clock, answers, trackerVars, loop, handler, working, owes, newest,
                 slipped, doubtVars, works, failures>>

(* Worker.do: an answer arrives and is stamped.  The process that gave it  *)
(* may be gone by then.                                                     *)
Exchange(by) ==
  /\ Cardinality(answers) < MaxAnswer
  /\ answers' = answers \cup {[by |-> by, now |-> clock]}
  /\ UNCHANGED <<clock, instance, trackerVars, loop, handler, working, owes, newest,
                 slipped, doubtVars, works, failures>>

(* The latest observation wins, even of an older answer. *)
Moved_Back(now) == now

(* lastContact only ever moves forward. *)
Moved(now) == IF now > lastContact THEN now ELSE lastContact

(* observe and arm.  now.Sub of an older stamp is negative. *)
Observes(a) ==
  LET silent == a.now >= lastContact + Silence
      changed == a.by # known IN
  /\ due' = IF (silent \/ changed) /\ due = "none" THEN "armed" ELSE due
  /\ known' = a.by
  /\ lastContact' = Moved(a.now)
  /\ newest' = IF a.now > newest THEN a.now ELSE newest
  /\ owes' = (owes \/ a.by > handler \/ a.now >= newest + Silence)
  /\ crossed' = (crossed \/ a.by < known)

Observe(a) ==
  /\ a \in answers
  /\ answers' = answers \ {a}
  /\ Observes(a)
  /\ UNCHANGED <<clock, instance, loop, handler, working, slipped, unheard, works,
                 failures>>

(* The jitter, or the pause after a failure, has passed. *)
Ripen ==
  /\ due = "armed" /\ due' = "ripe"
  /\ UNCHANGED <<clock, instance, answers, known, lastContact, loop, handler, working,
                 owes, newest, slipped, doubtVars, works, failures>>

TakeWork ==
  /\ loop = "poll" /\ ~working /\ works < MaxWork
  /\ working' = TRUE /\ works' = works + 1
  /\ UNCHANGED <<clock, instance, answers, trackerVars, loop, handler, owes, newest,
                 slipped, doubtVars, failures>>

EndWork ==
  /\ working /\ working' = FALSE
  /\ UNCHANGED <<clock, instance, answers, trackerVars, loop, handler, owes, newest,
                 slipped, doubtVars, works, failures>>

(* The debt is taken off before the attempt. *)
Attempting_Clears == due' = "none"

(* attempting: still owed, and not before reregisterRetryAfter. *)
Attempting == due' = "armed"

(* maybeReregister up to the request. *)
Attempt ==
  /\ loop = "poll" /\ due = "ripe" /\ ~working
  /\ Attempting
  /\ loop' = "sent"
  /\ UNCHANGED <<clock, instance, answers, known, lastContact, handler, working, owes,
                 newest, slipped, doubtVars, works, failures>>

(* The controller handles the registration. *)
HandleAgain ==
  /\ loop = "sent"
  /\ owes' = FALSE
  /\ handler' = instance
  /\ loop' = "handled"
  /\ UNCHANGED <<clock, instance, answers, trackerVars, working, newest,
                 slipped, doubtVars, works, failures>>

(* It fails, or its answer is lost. *)
AttemptFails ==
  /\ loop \in {"sent", "handled"} /\ failures < MaxFailure
  /\ failures' = failures + 1
  /\ loop' = "poll"
  /\ unheard' = (unheard \/ loop = "handled")
  /\ UNCHANGED <<clock, instance, answers, trackerVars, handler, working, owes, newest,
                 slipped, crossed, works>>

(* Its answer is one more exchange. *)
AnswerAgain ==
  /\ loop = "handled"
  /\ loop' = "answered"
  /\ Observes([by |-> handler, now |-> clock])
  /\ UNCHANGED <<clock, instance, answers, handler, working, slipped, unheard, works,
                 failures>>

(* registered settles the debt, whatever has been observed meanwhile. *)
Registered ==
  /\ loop = "answered"
  /\ due' = "none"
  /\ slipped' = (slipped \/ owes)
  /\ unheard' = FALSE
  /\ crossed' = (known < handler)
  /\ loop' = "poll"
  /\ UNCHANGED <<clock, instance, answers, known, lastContact, handler, working, owes,
                 newest, works, failures>>

ContactNext ==
  \/ Tick \/ RestartController
  \/ \E by \in 1 .. instance : Exchange(by)
  \/ \E a \in answers : Observe(a)
  \/ Ripen \/ TakeWork \/ EndWork
  \/ Attempt \/ HandleAgain \/ AttemptFails \/ AnswerAgain \/ Registered

(* The heartbeat goes on, appointments come, jobs end, and the poll loop    *)
(* gets through maybeReregister.                                            *)
ContactStep == \/ Ripen \/ EndWork \/ Attempt
               \/ HandleAgain \/ AnswerAgain \/ Registered

ContactSpec ==
  /\ ContactInit /\ [][ContactNext]_contactVars
  /\ WF_contactVars(Exchange(instance)) /\ WF_contactVars(\E a \in answers : Observe(a))
  /\ WF_contactVars(ContactStep)
-----------------------------------------------------------------------------
(* The worker holds a registration for owed only when it really is: since   *)
(* the last one was handled a later controller process has answered, or     *)
(* there was a silence.  Answers that are observed in another order than    *)
(* they were stamped are never read as a gap in contact.  There are two     *)
(* exceptions: a registration that was handled and whose answer was lost,   *)
(* and an answer that comes after one of a later process: the tracker sees  *)
(* the instance change twice, there and back.  (observe.)                   *)
NoPhantomGap ==
  due # "none" /\ loop \in {"poll", "sent"} => owes \/ unheard \/ crossed

(* Every debt is paid: after a change of controller or a long silence the   *)
(* worker registers again, however many attempts fail, unless the debt was  *)
(* made between the controller's handling of one registration and the       *)
(* worker's registered(), which settles it with that one.  (arm,            *)
(* attempting, maybeReregister.)                                            *)
DebtIsPaid == []<>(slipped \/ ~owes)
=============================================================================
