--------------------------- MODULE MCProcessMonitor ---------------------------
(* ProcessMonitor on its own: see StubbornChildKilled.cfg.                 *)
EXTENDS ProcessMonitor
================================================================================
