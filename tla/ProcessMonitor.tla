---------------------------- MODULE ProcessMonitor ----------------------------
(***************************************************************************)
(* The monitor of the application in a sandbox instance                    *)
(* (container/process-monitor.ts, started by container/cli-tools.ts).      *)
(*                                                                         *)
(* The monitor spawns the application, restarts it when it exits           *)
(* unexpectedly, terminates it when its output tells of a fatal error, and *)
(* stops it when the monitor itself gets a signal.  An action is the       *)
(* handling of one event of the monitor; a child that has exited is told   *)
(* from one whose exit event has been handled.                             *)
(***************************************************************************)
EXTENDS Naturals, Sequences

CONSTANTS
  MaxRestarts,
  KillFails     \* may a signal be refused to a living child?

ASSUME MonitorAssumption == MaxRestarts \in Nat /\ KillFails \in BOOLEAN

VARIABLES
  monitor,       \* of the monitor's own process
  state,
  children,      \* every child spawned; the last one is childProcess
  restartTimer,  \* is a restart scheduled?
  restartCount

vars == <<monitor, state, children, restartTimer, restartCount>>

(* How a child ends: with code 0, with code 0 after more than 30 seconds   *)
(* of silence, with another code, by a signal.                             *)
Exit == {"clean", "idle", "error", "signal"}

Child ==
  [process : {"alive", "exited", "gone"},  \* "gone": its exit event is handled
   exit : Exit,
   killed : BOOLEAN]                       \* ChildProcess.killed: was a signal sent?

TypeOK ==
  /\ monitor \in {"off", "starting", "up", "stopping", "over"}
  /\ state \in {"stopped", "running", "stopping", "crashed"}
  /\ children \in Seq(Child)
  /\ restartTimer \in BOOLEAN
  /\ restartCount \in 0..MaxRestarts

Init ==
  /\ monitor = "off" /\ state = "stopped" /\ children = <<>>
  /\ restartTimer = FALSE /\ restartCount = 0

Last == Len(children)
NewChild == [process |-> "alive", exit |-> "clean", killed |-> FALSE]

-----------------------------------------------------------------------------
(* Signals.  One that cannot be delivered raises an error event, which     *)
(* makes the monitor take the child for crashed.                           *)
Delivered(signal) ==
  children' = [children EXCEPT
    ![Last].killed = TRUE,
    ![Last].process = IF signal = "SIGKILL" /\ @ = "alive" THEN "exited" ELSE @,
    ![Last].exit = IF signal = "SIGKILL" /\ children[Last].process = "alive"
                     THEN "signal" ELSE @]

Refused ==
  /\ KillFails /\ children[Last].process = "alive"
  /\ UNCHANGED children

\* Mutant: an error schedules a restart, whether the child lives or not.
ErrorEvent_Restarts ==
  state' = "crashed" /\ restartTimer' = TRUE /\ UNCHANGED restartCount

ErrorEvent == state' = "crashed" /\ UNCHANGED <<restartTimer, restartCount>>

-----------------------------------------------------------------------------
(* start: a child that cannot be spawned has no pid.  Most errors are      *)
(* emitted as an event nobody listens to, which ends the monitor.          *)
Spawned ==
  /\ state' = "running"
  /\ children' = Append(children, NewChild)

SpawnFails == state' = "stopped" /\ UNCHANGED children

Start ==
  /\ monitor = "off"
  /\ \/ Spawned /\ monitor' = "starting"
     \/ SpawnFails /\ monitor' = "over"
  /\ UNCHANGED <<restartTimer, restartCount>>

(* ProcessRunner has started; from now on the CLI handles signals.         *)
Ready ==
  /\ monitor = "starting" /\ monitor' = "up"
  /\ UNCHANGED <<state, children, restartTimer, restartCount>>

SignalBeforeReady ==
  /\ monitor = "starting" /\ monitor' = "over"
  /\ UNCHANGED <<state, children, restartTimer, restartCount>>

RestartTimerFires ==
  /\ restartTimer /\ restartTimer' = FALSE
  /\ monitor # "over"
  /\ \/ Spawned /\ UNCHANGED monitor
     \/ SpawnFails /\ UNCHANGED monitor
     \/ SpawnFails /\ monitor' = "over"
  /\ UNCHANGED restartCount

-----------------------------------------------------------------------------
(* External: the child ends.                                               *)
ChildExits ==
  /\ \E c \in DOMAIN children, exit \in Exit :
       /\ children[c].process = "alive"
       /\ children' = [children EXCEPT ![c].process = "exited", ![c].exit = exit]
  /\ UNCHANGED <<monitor, state, restartTimer, restartCount>>

\* Mutant: a child killed by a signal is not restarted.
ShouldRestart_NotAfterSignal(exit) ==
  exit \in {"idle", "error"} /\ restartCount < MaxRestarts

(* shouldRestartAfterExit.                                                 *)
ShouldRestart(exit) == exit # "clean" /\ restartCount < MaxRestarts

(* The exit handlers: that of setupProcessMonitoring and, when the monitor *)
(* is stopping, the one stop waits for.                                    *)
ExitEvent(c) ==
  LET exit == children[c].exit
      restart == state = "running" /\ ShouldRestart(exit)
  IN /\ monitor # "over"
     /\ children[c].process = "exited"
     /\ children' = [children EXCEPT ![c].process = "gone"]
     /\ state' = IF restart \/ (state = "running" /\ exit \in {"error", "signal"})
                   THEN "crashed" ELSE "stopped"
     /\ restartTimer' = (restartTimer \/ restart)
     /\ restartCount' = IF restart THEN restartCount + 1 ELSE restartCount
     /\ monitor' = IF monitor = "stopping" THEN "over" ELSE monitor

(* Output tells of a fatal error: the current child is terminated, even    *)
(* when the output is that of a predecessor, which descendants of the      *)
(* predecessor may still write to.                                         *)
FatalOutput ==
  /\ monitor # "over"
  /\ Last > 0 /\ ~children[Last].killed /\ children[Last].process # "gone"
  /\ \/ Delivered("SIGTERM") /\ UNCHANGED <<state, restartTimer, restartCount>>
     \/ Refused /\ ErrorEvent
  /\ UNCHANGED monitor

-----------------------------------------------------------------------------
\* Mutant: the scheduled restart is left alone.
Shutdown_KeepsTimer ==
  /\ monitor = "up" /\ state # "stopped"
  /\ ~children[Last].killed
  /\ monitor' = "stopping"
  /\ IF children[Last].process = "gone"
       THEN state' = "stopping" /\ UNCHANGED <<children, restartTimer>>
       ELSE \/ Delivered("SIGTERM") /\ state' = "stopping" /\ UNCHANGED restartTimer
            \/ Refused /\ state' = "crashed" /\ UNCHANGED restartTimer
  /\ UNCHANGED restartCount

(* gracefulShutdown, by the first signal: the runner stops its monitor,    *)
(* which terminates the child and waits for its exit.                      *)
Shutdown ==
  /\ monitor = "up" /\ state # "stopped"
  /\ ~children[Last].killed
  /\ monitor' = "stopping"
  /\ restartTimer' = FALSE
  /\ \/ children[Last].process = "gone" /\ state' = "stopping" /\ UNCHANGED children
     \/ children[Last].process # "gone" /\ Delivered("SIGTERM") /\ state' = "stopping"
     \/ Refused /\ state' = "crashed"
  /\ UNCHANGED restartCount

(* Nothing to wait for: the child is stopped, or a signal was sent before. *)
ShutdownAtOnce ==
  /\ monitor = "up"
  /\ state = "stopped" \/ children[Last].killed
  /\ monitor' = "over" /\ state' = "stopped" /\ restartTimer' = FALSE
  /\ UNCHANGED <<children, restartCount>>

\* Mutant: the waiting ends only when SIGKILL had to be sent.
KillTimeout_NoResolve ==
  /\ monitor = "stopping" /\ ~children[Last].killed
  /\ \/ children[Last].process # "gone" /\ Delivered("SIGKILL")
     \/ children[Last].process = "gone" /\ UNCHANGED children
     \/ Refused
  /\ monitor' = "over" /\ state' = "stopped"
  /\ UNCHANGED <<restartTimer, restartCount>>

(* killTimeout: a child that was sent no signal yet is killed.             *)
KillTimeout ==
  /\ monitor = "stopping"
  /\ \/ (children[Last].killed \/ children[Last].process = "gone") /\ UNCHANGED children
     \/ ~children[Last].killed /\ children[Last].process # "gone" /\ Delivered("SIGKILL")
     \/ ~children[Last].killed /\ Refused
  /\ monitor' = "over" /\ state' = "stopped"
  /\ UNCHANGED <<restartTimer, restartCount>>

-----------------------------------------------------------------------------
HandleExit == \E c \in DOMAIN children : ExitEvent(c)

Next ==
  \/ Start \/ Ready \/ SignalBeforeReady
  \/ ChildExits \/ HandleExit \/ FatalOutput \/ RestartTimerFires
  \/ Shutdown \/ ShutdownAtOnce \/ KillTimeout

Spec == Init /\ [][Next]_vars

(* Events are handled and timers fire; nobody has to send a signal, no     *)
(* child has to end.                                                       *)
FairSpec ==
  /\ Spec
  /\ WF_vars(HandleExit) /\ WF_vars(RestartTimerFires) /\ WF_vars(KillTimeout)

-----------------------------------------------------------------------------
(* The application never runs twice in an instance, whose port it holds:   *)
(* a restart is scheduled only for a child that is dead.                   *)
SingleChild ==
  \A c, d \in DOMAIN children :
    children[c].process = "alive" /\ children[d].process = "alive" => c = d

Stopping == monitor \in {"stopping", "over"}

(* Once the monitor was told to stop, it spawns no child any more, though  *)
(* a restart may be scheduled and the child may crash while it stops.      *)
NoRestartAfterStop ==
  [][Stopping => UNCHANGED Len(children)]_vars

(* A shutdown ends, also when the child ignores SIGTERM or was dead.       *)
StopEnds == monitor = "stopping" ~> monitor = "over"

(* While restarts are left, a child that dies unexpectedly is replaced or  *)
(* the restart was tried, unless the monitor stops.                        *)
Died(n) ==
  /\ monitor \in {"starting", "up"} /\ state = "running"
  /\ Last = n /\ children[n].process = "exited" /\ children[n].exit # "clean"
  /\ restartCount < MaxRestarts

CrashIsHandled ==
  \A n \in 1..MaxRestarts + 1 :
    Died(n) ~> Last > n \/ state = "stopped" \/ Stopping

-----------------------------------------------------------------------------
(* process-monitor.ts:529: a child that did not exit gracefully is killed. *)
StubbornChildKilled == [][KillTimeout => children'[Last].process # "alive"]_vars
================================================================================
