------------------------------- MODULE MCContainer -------------------------------
(***************************************************************************)
(* What runs in a sandbox container: the process monitor, the file of its  *)
(* log and the store of its errors, the last two shared with the command   *)
(* line tool.  They share no state, so every behaviour is one of one part. *)
(***************************************************************************)
EXTENDS ProcessMonitor, TLC

CONSTANTS
  Lines, Readers, None, MaxFile, Keep, MaxOpen, MaxResets, MaxKills,
  Hashes, Tools, Retries, MaxErrors, MaxClears, MaxTroubles

VARIABLES
  part,
  log, contents, appends, trim, readers, lock, resets, kills, delivered, repeated, exposed,
  copied,
  rows, store, tools, stored, removed, clears, errors, troubles

logVars == <<log, contents, appends, trim, readers, lock, resets, kills, delivered, repeated,
             exposed, copied>>
storeVars == <<rows, store, tools, stored, removed, clears, errors, troubles>>

logFile == INSTANCE LogFile
errorStore == INSTANCE ErrorStore

ASSUME logFile!LogFileAssumption /\ errorStore!ErrorStoreAssumption

ContainerInit ==
  part \in {"monitor", "log", "errors"} /\ Init /\ logFile!Init /\ errorStore!Init

ContainerNext ==
  \/ part = "monitor" /\ Next /\ UNCHANGED <<part, logVars, storeVars>>
  \/ part = "log" /\ logFile!Next /\ UNCHANGED <<part, vars, storeVars>>
  \/ part = "errors" /\ errorStore!Next /\ UNCHANGED <<part, vars, logVars>>

(* Where the monitor does not move, nothing of its fairness is enabled.    *)
ContainerSpec ==
  /\ ContainerInit /\ [][ContainerNext]_<<part, vars, logVars, storeVars>>
  /\ WF_vars(HandleExit) /\ WF_vars(RestartTimerFires) /\ WF_vars(KillTimeout)

(* No line is lost or printed by two resets: LogFile.                      *)
LinesOnce == logFile!LinesOnce

(* The counters of errors add up: ErrorStore.                              *)
OccurrencesCounted == errorStore!OccurrencesCounted
==================================================================================
