---------------------------- MODULE MediaMTXProc ----------------------------
(***************************************************************************)
(* The supervisor of the MediaMTX child process.                           *)
(*   internal/mediamtxproc/manager.go   Start, launch, supervise, Stop,    *)
(*                                      terminate, waitReady               *)
(*   cmd/server/main.go                 who calls Start and Stop, and when *)
(*                                      the context is cancelled           *)
(* Two goroutines: main (Start, later Stop) and supervise.  A process is   *)
(* an exec.Cmd that was started; an identifier is used again once nothing  *)
(* refers to the process it named.  Time is abstract: a timer may fire at  *)
(* any moment.                                                             *)
(***************************************************************************)
EXTENDS Naturals, FiniteSets

CONSTANTS
  Procs,      \* child processes
  None,
  MinDelay, MaxDelay   \* minRestartDelay, maxRestartDelay

ASSUME ProcAssumption ==
  /\ None \notin Procs
  /\ MinDelay \in Nat \ {0} /\ MaxDelay \in Nat /\ MinDelay <= MaxDelay

VARIABLES
  alive,    \* processes that run
  killed,   \* processes that were sent SIGKILL
  cmd,      \* Manager.cmd
  stopped,  \* Manager.stopped
  ctxDone,  \* main's context is cancelled
  started,  \* the process launch has started and not yet recorded in cmd
  main,     \* where main is
  target,   \* the process terminate read
  sup,      \* where supervise is
  watched,  \* the process supervise waits for
  delay,    \* the back-off of supervise
  reaped,   \* processes whose Wait has returned to supervise
  termDone, \* terminate's Wait has returned
  late      \* processes that terminate could not see (history)

procVars == <<alive, killed>>
mainVars == <<main, stopped, ctxDone, target, termDone>>
supVars  == <<sup, watched, delay, reaped>>
vars == <<procVars, mainVars, supVars, cmd, started, late>>

MainPCs == {"launch", "record", "ready", "running", "stop", "signal", "await", "returned", "cancelled", "exited", "fatal"}
SupPCs  == {"none", "read", "wait", "check", "backoff", "launch", "record", "ready", "stuck", "gone"}
\* The server process is gone.
Ended == {"exited", "fatal"}
\* terminate has read Manager.cmd.
Terminating == {"await", "returned", "cancelled", "exited"}

-----------------------------------------------------------------------------
\* launch, up to cmd.Start: it starts a process unless the context is done ...
StartProcess ==
  /\ ~ctxDone
  /\ \E p \in Procs \ (alive \cup {cmd, watched, target}) :
       /\ alive' = alive \cup {p}
       /\ killed' = killed \ {p}
       /\ reaped' = reaped \ {p}
       /\ started' = p
       /\ late' = IF main \in Terminating THEN late \cup {p} ELSE late \ {p}

\* ... and its last part, which records the process under the lock.
RecordProcess == cmd' = started /\ started' = None

\* Start: launch, ...
MainLaunch ==
  /\ main = "launch"
  /\ \/ StartProcess /\ main' = "record"
     \/ main' = "exited" /\ UNCHANGED <<procVars, reaped, started, late>>
  /\ UNCHANGED <<cmd, stopped, ctxDone, target, termDone, sup, watched, delay>>

MainRecord ==
  /\ main = "record"
  /\ RecordProcess
  /\ main' = "ready"
  /\ UNCHANGED <<procVars, stopped, ctxDone, target, termDone, supVars, late>>

\* ... waitReady, and go supervise or terminate.
MainReady ==
  /\ main = "ready"
  /\ \/ main' = "running" /\ sup' = "read"
     \/ main' = "signal" /\ UNCHANGED sup
  /\ UNCHANGED <<procVars, stopped, ctxDone, target, termDone, watched, delay, reaped, cmd, started, late>>

\* A signal ends main's wait; the deferred Stop marks the manager ...
Stop ==
  /\ main = "running"
  /\ stopped' = TRUE
  /\ main' = "signal"
  /\ UNCHANGED <<procVars, ctxDone, target, termDone, supVars, cmd, started, late>>

\* The HTTP server, or a later part of the start, fails: logrus.Fatalf ends the
\* server without the deferred calls, and MediaMTX stays behind.
MainFatal ==
  /\ main = "running"
  /\ main' = "fatal"
  /\ UNCHANGED <<procVars, stopped, ctxDone, target, termDone, supVars, cmd, started, late>>

\* After Stop, terminate reads cmd again, sends the interrupt and waits.
TerminateSignal ==
  /\ main = "signal"
  /\ target' = cmd
  /\ late' = alive \ {cmd}
  /\ main' = "await"
  /\ UNCHANGED <<procVars, stopped, ctxDone, termDone, supVars, cmd, started>>

\* The goroutine's cmd.Wait returns.  When supervise waits for the same process
\* one of the two calls may never return (see SuperviseWait).
TerminateDone ==
  /\ main = "await"
  /\ target \notin alive
  /\ main' = "returned"
  /\ termDone' = TRUE
  /\ UNCHANGED <<procVars, stopped, ctxDone, target, supVars, cmd, started, late>>

\* Faulty variants: terminate gives up without SIGKILL; it has no timeout.
TerminateGiveUp ==
  /\ main = "await"
  /\ main' = "returned"
  /\ UNCHANGED <<procVars, stopped, ctxDone, target, termDone, supVars, cmd, started, late>>
TerminateNoTimeout == main = "timeout" /\ UNCHANGED vars

\* Eight seconds pass: SIGKILL.
TerminateKill ==
  /\ main = "await"
  /\ killed' = killed \cup (alive \cap {target})
  /\ main' = "returned"
  /\ UNCHANGED <<alive, stopped, ctxDone, target, termDone, supVars, cmd, started, late>>

\* Stop was the last deferred call but cancel; a Start that failed exits at once.
MainCancel ==
  /\ main = "returned"
  /\ main' = IF sup = "none" THEN "exited" ELSE "cancelled"
  /\ ctxDone' = (sup # "none")
  /\ UNCHANGED <<procVars, stopped, target, termDone, supVars, cmd, started, late>>

MainExit ==
  /\ main = "cancelled"
  /\ main' = "exited"
  /\ UNCHANGED <<procVars, stopped, ctxDone, target, termDone, supVars, cmd, started, late>>

MainStep ==
  \/ MainLaunch \/ MainRecord \/ MainReady \/ TerminateSignal
  \/ TerminateDone \/ TerminateKill \/ MainCancel \/ MainExit

-----------------------------------------------------------------------------
(* supervise.                                                              *)

SuperviseRead ==
  /\ sup = "read"
  /\ watched' = cmd
  /\ sup' = "wait"
  /\ UNCHANGED <<procVars, mainVars, delay, reaped, cmd, started, late>>

\* Faulty variant: the supervisor polls instead of waiting for the exit.
SuperviseNoWait ==
  /\ sup = "wait"
  /\ reaped' = reaped \cup {watched}
  /\ sup' = "check"
  /\ UNCHANGED <<procVars, mainVars, watched, delay, cmd, started, late>>

\* cmd.Wait returns once the process is gone, at once if it returned before.
\* Two concurrent calls of Wait are outside the contract of exec.Cmd: with a
\* context, only one of them is sure to get the result that both receive.
SuperviseWait ==
  /\ sup = "wait"
  /\ watched \notin alive
  /\ \/ sup' = "check" /\ reaped' = reaped \cup {watched}
     \/ termDone /\ target = watched /\ watched \notin reaped /\ sup' = "stuck" /\ UNCHANGED reaped
  /\ UNCHANGED <<procVars, mainVars, watched, delay, cmd, started, late>>

SuperviseCheck ==
  /\ sup = "check"
  /\ sup' = IF stopped THEN "gone" ELSE "backoff"
  /\ UNCHANGED <<procVars, mainVars, watched, delay, reaped, cmd, started, late>>

\* Faulty variant: the limit is compared before the doubling.
SuperviseBackoffLate ==
  /\ sup = "backoff"
  /\ \/ ctxDone /\ sup' = "gone" /\ UNCHANGED delay
     \/ /\ sup' = "launch"
        /\ delay' = IF delay > MaxDelay THEN MaxDelay ELSE 2 * delay
  /\ UNCHANGED <<procVars, mainVars, watched, reaped, cmd, started, late>>

\* The select: the context is done, or the back-off is over and doubles.
SuperviseBackoff ==
  /\ sup = "backoff"
  /\ \/ ctxDone /\ sup' = "gone" /\ UNCHANGED delay
     \/ /\ sup' = "launch"
        /\ delay' = IF 2 * delay > MaxDelay THEN MaxDelay ELSE 2 * delay
  /\ UNCHANGED <<procVars, mainVars, watched, reaped, cmd, started, late>>

\* launch; it does not look at stopped.
SuperviseLaunch ==
  /\ sup = "launch"
  /\ StartProcess
  /\ sup' = "record"
  /\ UNCHANGED <<mainVars, watched, delay, cmd>>

\* Faulty variant: a launch that fails ends the supervisor.
SuperviseQuit ==
  /\ sup = "launch"
  /\ sup' = "gone"
  /\ UNCHANGED <<procVars, mainVars, watched, delay, reaped, cmd, started, late>>

\* A launch that fails goes round the loop with the old cmd.
SuperviseLaunchFails ==
  /\ sup = "launch"
  /\ sup' = "read"
  /\ UNCHANGED <<procVars, mainVars, watched, delay, reaped, cmd, started, late>>

SuperviseRecord ==
  /\ sup = "record"
  /\ RecordProcess
  /\ sup' = "ready"
  /\ UNCHANGED <<procVars, mainVars, watched, delay, reaped, late>>

\* waitReady: the back-off is reset, or kept and the process left running.
SuperviseReady ==
  /\ sup = "ready"
  /\ sup' = "read"
  /\ delay' \in {delay, MinDelay}
  /\ UNCHANGED <<procVars, mainVars, watched, reaped, cmd, started, late>>

SuperviseStep ==
  /\ main \notin Ended
  /\ \/ SuperviseRead \/ SuperviseWait \/ SuperviseCheck \/ SuperviseBackoff
     \/ SuperviseLaunch \/ SuperviseLaunchFails \/ SuperviseRecord \/ SuperviseReady

-----------------------------------------------------------------------------
(* The operating system.                                                   *)

\* A process exits: by itself, after the interrupt, or killed.
ProcessExits ==
  /\ \E p \in alive : alive' = alive \ {p}
  /\ UNCHANGED <<killed, mainVars, supVars, cmd, started, late>>

\* CommandContext kills the process when the context is done.
ContextKills ==
  /\ ctxDone /\ main \notin Ended
  /\ ~(alive \subseteq killed)
  /\ killed' = killed \cup alive
  /\ UNCHANGED <<alive, mainVars, supVars, cmd, started, late>>

Init ==
  /\ alive = {} /\ killed = {} /\ reaped = {} /\ late = {}
  /\ cmd = None /\ started = None /\ target = None /\ watched = None
  /\ stopped = FALSE /\ ctxDone = FALSE /\ termDone = FALSE
  /\ main = "launch" /\ sup = "none"
  /\ delay = MinDelay

Next == Stop \/ MainFatal \/ MainStep \/ SuperviseStep \/ ProcessExits \/ ContextKills

Spec == Init /\ [][Next]_vars

\* The scheduler runs both goroutines and every timer fires; the binary can be
\* started again and again, if not every time.  A process need not exit.
FairSpec ==
  /\ Spec
  /\ WF_vars(MainStep) /\ WF_vars(SuperviseStep)
  /\ SF_vars(SuperviseLaunch /\ main \notin Ended)

-----------------------------------------------------------------------------
\* Types of the manager, of the goroutines' state and of the processes; the
\* back-off stays within its limits.
TypeOK ==
  /\ alive \subseteq Procs /\ killed \subseteq Procs /\ late \subseteq Procs
  /\ reaped \subseteq Procs
  /\ {cmd, started, target, watched} \subseteq Procs \cup {None}
  /\ stopped \in BOOLEAN /\ ctxDone \in BOOLEAN /\ termDone \in BOOLEAN
  /\ main \in MainPCs /\ sup \in SupPCs
  /\ delay \in MinDelay .. MaxDelay

\* "Manager supervises a single MediaMTX child process": whatever crashes, fails
\* to start or never becomes ready, two MediaMTX processes never run at once.
OneProcess == \A p, q \in alive : p = q

\* When Stop or a failed Start returns, a process still running without a
\* SIGKILL on its way is one that terminate could not see: supervise started
\* it after terminate read cmd, or had started it and not recorded it.
StopReachesRecorded == main \in {"returned", "cancelled", "exited"} => alive \subseteq killed \cup late

\* Stop returns, even if the process ignores the interrupt and even if the
\* Wait that terminate started never comes back.
StopReturns == main = "signal" ~> main \in {"cancelled", "exited"}

\* A process that is gone is replaced, however often launching fails, until the
\* manager is stopped or the server fails.
CrashIsRepaired ==
  sup \notin {"none", "gone"} /\ alive = {} ~> alive # {} \/ stopped \/ main = "fatal"

\* The comment on Stop: it "sends SIGTERM to MediaMTX and waits for it to exit".
\* Nothing runs, or is about to be killed, once Stop has returned.
StopLeavesNothing == main \in {"cancelled", "exited"} => alive \subseteq killed
=============================================================================
