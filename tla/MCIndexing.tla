---------------------------- MODULE MCIndexing ----------------------------
(* Instances for TLC of the daemon's loop (Watch) and of the editor window that  *)
(* starts and stops daemons (Extension), each with the other at its end.        *)
EXTENDS Watch, Extension

CONSTANTS f1, f2   \* source files

\* no action of Watch is enabled
WatchRests ==
  /\ disk = [f \in File |-> MaxEdits] /\ indexed = disk /\ seen = disk
  /\ events = <<>> /\ changes = {} /\ missed = {}
  /\ stage = "stopped" /\ running = FALSE /\ runs = MaxRuns
  /\ report = Watching /\ status = [active |-> FALSE, done |-> FALSE] /\ pending = FALSE

\* no action of Extension is enabled
ExtRests ==
  /\ daemon = [d \in Daemon |-> "ended"] /\ lease = Nothing /\ statusFile = Nothing
  /\ told = {} /\ beating = {} /\ handle = Nothing /\ pidOf = [d \in Daemon |-> d]
  /\ started = {} /\ killed = {}
  /\ persisted = "Off" /\ wanted = Nothing /\ newest = 0 /\ aborted = {}
  /\ task = [t \in Task |-> [Unused EXCEPT !.at = "done"]]
  /\ transitioning = FALSE /\ entry = FALSE /\ restoring = FALSE /\ watching = TRUE
  /\ paused = FALSE /\ calm = TRUE

\* bound: the user does a third thing only where the first was to turn the daemon on
ThirdAfterOn ==
  \A t, u \in Task : t = 1 /\ u > 2 /\ task'[u] # Unused => task'[t].kind = "On"

BothSpec ==
  /\ (Init /\ ExtRests) \/ (WatchRests /\ ExtInit)
  /\ [][(Next /\ UNCHANGED extVars) \/ (ExtNext /\ ThirdAfterOn /\ UNCHANGED vars)]_<<vars, extVars>>
  /\ WF_vars(Loop) /\ WF_vars(WindowEnds)
  /\ ExtFair
=============================================================================
