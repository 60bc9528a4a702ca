----------------------------- MODULE RunClient -----------------------------
(***************************************************************************)
(* One `rc run` or `rc hold` against a controller that answers, fails or   *)
(* falls silent: submit, wait in the queue, stream, wait for the end, exit.*)
(* Ctrl-C may come at any time and --timeout in the queue.  The job goes   *)
(* its own way meanwhile, and somebody else may kill it.                   *)
(***************************************************************************)
EXTENDS Integers

CONSTANTS
  MaxScheduledPollFailures,  \* WaitScheduled gives up after more of them
  MaxPollFailures,           \* WaitTerminal does
  HasTimeout,                \* --timeout was given
  ExitCode                   \* what a job's process may exit with

ASSUME RunClientAssumption ==
  /\ MaxScheduledPollFailures \in Nat /\ MaxPollFailures \in Nat
  /\ HasTimeout \in BOOLEAN /\ ExitCode \subseteq Int

VARIABLES
  hold,         \* this is rc hold, which has no log and no --timeout
  row,          \* the job: absent, queued, running (or assigned), succeeded,
                \* failed, killed, lost
  code,         \* its exit code, <<>> for none
  cmd,          \* where the command is
  polls,        \* consecutive failed polls
  silent,       \* the controller has stopped answering for good
  interrupted,  \* the signal context is over
  expired,      \* the deadline of the queue wait has passed
  killSent,     \* the command has asked for the job to be killed
  told,         \* what it said of its cancellation
  status        \* what it exited with, once cmd is "exited"

jobVars == <<row, code>>
sayVars == <<killSent, told, status>>
runVariables ==
  <<hold, jobVars, cmd, polls, silent, interrupted, expired, sayVars>>

Over == {"succeeded", "failed", "killed", "lost"}
sigintExitCode == 130

RunInit ==
  /\ hold \in BOOLEAN
  /\ row = "absent" /\ code = <<>> /\ cmd = "submit" /\ polls = 0
  /\ silent = FALSE /\ interrupted = FALSE /\ expired = FALSE
  /\ killSent = FALSE /\ told = "nothing" /\ status = 0

(* os.Exit keeps the low byte. *)
Leaves(n) == cmd' = "exited" /\ status' = n % 256

(* The rest of the system: the job is placed, ends, or is killed by others.  *)
(* A process that is told to stop may exit with any code, a lost one with    *)
(* none; only zero is a success.                                             *)
JobMoves ==
  /\ \/ row = "queued" /\ row' = "running" /\ UNCHANGED code
     \/ row = "queued" /\ row' = "killed" /\ UNCHANGED code
     \/ row = "running" /\ row' = "succeeded" /\ code' = <<0>>
     \/ row = "running" /\ row' = "lost" /\ UNCHANGED code
     \/ /\ row = "running" /\ row' \in {"failed", "killed"}
        /\ code' \in {<<>>} \cup {<<c>> : c \in ExitCode}
  /\ UNCHANGED <<hold, silent, cmd, polls, interrupted, expired, sayVars>>

(* Requests fail from now on. *)
FallSilent ==
  /\ ~silent /\ silent' = TRUE
  /\ UNCHANGED <<hold, jobVars, cmd, polls, interrupted, expired, sayVars>>

(* Ctrl-C, until stop() gives the signal back to the runtime. *)
Interrupt ==
  /\ cmd \in {"submit", "queued", "stream", "settle"}
  /\ ~interrupted /\ interrupted' = TRUE
  /\ UNCHANGED <<hold, silent, jobVars, cmd, polls, expired, sayVars>>

QueueTimeout ==
  /\ HasTimeout /\ ~hold /\ cmd = "queued" /\ ~expired /\ expired' = TRUE
  /\ UNCHANGED <<hold, silent, jobVars, cmd, polls, interrupted, sayVars>>
-----------------------------------------------------------------------------
(* What follows the queue: the log, and for a hold the wait for its end. *)
Granted == IF hold THEN "settle" ELSE "stream"

(* Submit is answered with a queued job, or one that runs already. *)
SubmitAnswered ==
  /\ cmd = "submit" /\ row = "absent" /\ ~silent
  /\ \/ row' = "queued" /\ cmd' = "queued"
     \/ row' = "running" /\ cmd' = Granted
  /\ UNCHANGED <<hold, silent, code, polls, interrupted, expired, sayVars>>

(* It is refused, interrupted, or its answer is lost: the job may exist. *)
SubmitFails ==
  /\ cmd = "submit"
  /\ row' \in {"absent", "queued", "running", "killed"}
  /\ Leaves(1)
  /\ UNCHANGED <<hold, silent, code, polls, interrupted, expired, killSent, told>>

(* WaitScheduled: a poll that finds the job still queued ... *)
PollQueued ==
  /\ cmd = "queued" /\ row = "queued" /\ ~silent
  /\ polls' = 0
  /\ UNCHANGED <<hold, silent, jobVars, cmd, interrupted, expired, sayVars>>

(* ... or out of the queue.  A job that is over and was never started is    *)
(* reported, not streamed; how it ended does not say whether it started.  A *)
(* hold that is over is reported in any case.                               *)
PollScheduled ==
  /\ cmd = "queued" /\ row # "queued" /\ ~silent
  /\ polls' = 0
  /\ \/ hold /\ row \in Over /\ Leaves(1)
     \/ ~hold /\ row \in Over \ {"succeeded"} /\ Leaves(1)
     \/ (hold => row \notin Over) /\ cmd' = Granted /\ UNCHANGED status
  /\ UNCHANGED <<hold, silent, jobVars, interrupted, expired, killSent, told>>

(* A poll that fails or times out, while retries are left. *)
PollFails ==
  /\ \/ cmd = "queued" /\ ~expired /\ polls < MaxScheduledPollFailures
     \/ cmd = "settle" /\ polls < MaxPollFailures
  /\ ~interrupted
  /\ polls' = polls + 1
  /\ UNCHANGED <<hold, silent, jobVars, cmd, interrupted, expired, sayVars>>

(* An error of the wait that wraps a deadline is taken for --timeout. *)
GiveUpQueued_Kills == cmd' = "cancel" /\ UNCHANGED status

(* The job may be running by now: it is left alone. *)
GiveUpQueued == Leaves(1)

(* WaitScheduled has had more than its share of failures. *)
LoseTrack ==
  /\ cmd = "queued" /\ polls = MaxScheduledPollFailures
  /\ ~interrupted /\ ~expired
  /\ GiveUpQueued
  /\ polls' = 0
  /\ UNCHANGED <<hold, silent, jobVars, interrupted, expired, killSent, told>>

(* The wait ends with the signal's context or with --timeout. *)
StopWaiting ==
  /\ cmd = "queued" /\ (interrupted \/ expired)
  /\ cmd' = "cancel"
  /\ UNCHANGED <<hold, silent, jobVars, polls, interrupted, expired, sayVars>>
-----------------------------------------------------------------------------
(* cancelQueuedJob, or Release, asks for the kill, and handleKill reads the *)
(* job: what it does next goes by that, and the job may move on meanwhile.  *)
SendKill ==
  /\ cmd \in {"cancel", "release"} /\ ~silent
  /\ killSent' = TRUE
  /\ told' = IF cmd = "release" THEN "releasing" ELSE told
  /\ cmd' = IF row = "queued" THEN "cancelling"
            ELSE IF row = "running" THEN "killing" ELSE "refused"
  /\ UNCHANGED <<hold, silent, jobVars, polls, interrupted, expired, status>>

(* CancelQueued ends a job that is still queued, and refuses any other. *)
KillQueuedRow ==
  /\ cmd = "cancelling"
  /\ row' = IF row = "queued" THEN "killed" ELSE row
  /\ cmd' = IF row = "queued" THEN "accepted" ELSE "refused"
  /\ UNCHANGED <<hold, silent, code, polls, interrupted, expired, sayVars>>

(* RequestKill flags a job, or ends one whose worker is away; it refuses one *)
(* that is over.                                                             *)
KillRunningRow ==
  /\ cmd = "killing"
  /\ row' \in IF row = "running" THEN {"running", "killed"} ELSE {row}
  /\ cmd' = IF row = "running" THEN "accepted" ELSE "refused"
  /\ UNCHANGED <<hold, silent, code, polls, interrupted, expired, sayVars>>

Gone == IF interrupted THEN sigintExitCode ELSE 1

(* The request or its answer is lost. *)
KillFails ==
  /\ cmd \in {"cancel", "release", "cancelling", "killing", "accepted", "refused"}
  /\ killSent' = TRUE /\ told' = "could not"
  /\ Leaves(Gone)
  /\ UNCHANGED <<hold, silent, jobVars, polls, interrupted, expired>>

(* reportCancelledQueuedJob reads the job again: it may have started, and   *)
(* the kill only flagged it.                                                *)
Cancelled == IF row = "running" THEN "terminating" ELSE "cancelled"

(* reportUncancellableQueuedJob does too. *)
Uncancelled == IF row = "running" THEN "still running" ELSE "finished"

(* A hold says how the release went. *)
Released == IF cmd = "accepted" THEN "released" ELSE "could not"

(* The second read, and the exit. *)
ReportKill ==
  /\ ~silent
  /\ \/ told = "releasing" /\ cmd \in {"accepted", "refused"} /\ told' = Released
     \/ told # "releasing" /\ cmd = "accepted" /\ told' = Cancelled
     \/ told # "releasing" /\ cmd = "refused" /\ told' = Uncancelled
  /\ Leaves(Gone)
  /\ UNCHANGED <<hold, silent, jobVars, polls, interrupted, expired, killSent>>

(* The second read fails.  A refused kill then says that the job finished,  *)
(* which it may not have.                                                   *)
ReportUnread ==
  /\ told # "releasing"
  /\ \/ cmd = "accepted" /\ told' = "requested"
     \/ cmd = "refused" /\ told' = "finished"
  /\ Leaves(Gone)
  /\ UNCHANGED <<hold, silent, jobVars, polls, interrupted, expired, killSent>>
-----------------------------------------------------------------------------
(* detachIfInterrupted: the job is not touched.  A hold is released. *)
Detach ==
  /\ cmd \in {"stream", "settle"} /\ interrupted
  /\ IF hold THEN cmd' = "release" /\ UNCHANGED status
     ELSE Leaves(sigintExitCode)
  /\ UNCHANGED <<hold, silent, jobVars, polls, interrupted, expired, killSent, told>>

(* The log stream or the terminal ends: with the job, or because it broke.  *)
(* Nothing on the client's side bounds it.                                  *)
StreamOver ==
  /\ cmd = "stream" /\ ~interrupted
  /\ cmd' = "settle" /\ polls' = 0
  /\ UNCHANGED <<hold, silent, jobVars, interrupted, expired, sayVars>>

(* WaitTerminal finds the job still running ... *)
PollRunning ==
  /\ cmd = "settle" /\ row \notin Over /\ ~silent
  /\ polls' = 0
  /\ UNCHANGED <<hold, silent, jobVars, cmd, interrupted, expired, sayVars>>

(* A code whose low byte is zero would read as success. *)
safeExitCode(n) == IF n # 0 /\ n % 256 = 0 THEN 1 ELSE n

(* The exit code decides, where there is one. *)
Verdict_ExitCode == IF code # <<>> THEN safeExitCode(code[1])
                    ELSE IF row = "succeeded" THEN 0 ELSE 1

(* A code that is not zero is passed on; without one the state decides.  A  *)
(* hold has ended, and that is all.                                         *)
Verdict == IF hold THEN 0
           ELSE IF code # <<>> /\ code # <<0>> THEN safeExitCode(code[1])
           ELSE IF row = "succeeded" THEN 0 ELSE 1

(* ... or over. *)
Finish ==
  /\ cmd = "settle" /\ row \in Over /\ ~interrupted /\ ~silent
  /\ Leaves(Verdict)
  /\ UNCHANGED <<hold, silent, jobVars, polls, interrupted, expired, killSent, told>>

(* It never gives up. *)
GiveUpRunning_Never == FALSE /\ UNCHANGED runVariables

(* WaitTerminal gives up after more failures, or when its time is up.  That *)
(* of a hold has no limit.                                                  *)
GiveUpRunning ==
  /\ cmd = "settle" /\ ~interrupted
  /\ \E timeUp \in BOOLEAN : (timeUp /\ ~hold) \/ polls = MaxPollFailures
  /\ Leaves(1)
  /\ UNCHANGED <<hold, silent, jobVars, polls, interrupted, expired, killSent, told>>

RunCmdStep ==
  \/ SubmitAnswered \/ SubmitFails
  \/ PollScheduled \/ PollFails \/ LoseTrack \/ StopWaiting
  \/ SendKill \/ KillQueuedRow \/ KillRunningRow \/ KillFails
  \/ ReportKill \/ ReportUnread
  \/ Detach \/ StreamOver \/ Finish \/ GiveUpRunning

RunNext == \/ JobMoves \/ FallSilent \/ Interrupt \/ QueueTimeout
           \/ PollQueued \/ PollRunning \/ RunCmdStep

(* The http client has no timeout of its own, and neither has the submit or *)
(* the log stream: against a controller that takes the request and never    *)
(* answers they wait until Ctrl-C.                                          *)
Wedged == silent /\ ~interrupted /\ cmd \in {"submit", "stream"}

(* Polls and kills are answered or time out; a submit is answered while the *)
(* controller answers at all; a log stream ends with its job.               *)
Prompt == ~Wedged /\ (cmd = "stream" => row \in Over \/ interrupted)

RunSpec == /\ RunInit /\ [][RunNext]_runVariables
           /\ WF_runVariables(Prompt /\ RunCmdStep)
-----------------------------------------------------------------------------
(* A controller that fails or falls silent never costs anybody a job: the    *)
(* command asks for a kill only after Ctrl-C or its own --timeout.  (The     *)
(* switch on waitCtx.Err() rather than on the error.)                        *)
BlipKillsNothing == killSent => interrupted \/ expired

(* Exit status zero says that the job succeeded, whatever code a killed job  *)
(* exited with and whatever was lost or not heard of in between; of a hold,  *)
(* that it is over.                                                          *)
ZeroMeansSucceeded ==
  cmd = "exited" /\ status = 0 => IF hold THEN row \in Over ELSE row = "succeeded"

(* "cancelled" is said only of a job that is over: one that started while    *)
(* the kill was under way is reported as being terminated, and one that the  *)
(* kill was refused for as still running.                                    *)
CancelledIsOver == told = "cancelled" => row \in Over

(* Ctrl-C gives a granted hold back: the command is not gone with a device   *)
(* still held and nobody asked to end it.  (NewHoldCmd, the opposite of      *)
(* detachIfInterrupted.)                                                     *)
HoldGivenBack ==
  hold /\ cmd = "exited" /\ status = sigintExitCode /\ row \in {"queued", "running"}
    => killSent

(* What rc run and rc hold leave behind is what they say: zero means the job *)
(* succeeded, "cancelled" that it is over, and an interrupted hold is given  *)
(* back.                                                                     *)
SaysTheTruth == ZeroMeansSucceeded /\ CancelledIsOver /\ HoldGivenBack

(* The command ends when the job does, even if no poll and no kill is        *)
(* answered any more, and it ends after Ctrl-C; unless it hangs in a submit  *)
(* or a log stream that the controller has stopped serving without closing   *)
(* it, from which only Ctrl-C takes it.                                      *)
CommandEnds == (row \in Over \/ interrupted) ~> (cmd = "exited" \/ Wedged)
=============================================================================
