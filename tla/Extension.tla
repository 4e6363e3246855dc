----------------------------- MODULE Extension -----------------------------
(***************************************************************************)
(* The editor extension's control of the indexing daemon of one workspace   *)
(* (apps/cognis-mcp/src): the On/Off toggle with its transitions            *)
(* (toggle.ts, activation.ts, deactivation.ts), the map of daemon handles    *)
(* (indexd.ts), the lease records the extension writes and removes           *)
(* (lease.ts), the commands rebuild, pause and resume, the daemon that a      *)
(* change of a file starts (extension.ts), reloads of the window, and the     *)
(* reconciler that couples daemon and MCP entry.                             *)
(*                                                                         *)
(* The extension is one thread: a step is what it does between two awaits.   *)
(* Daemons are processes of their own; of one the extension sees its exit    *)
(* later, by an event, and its pid in the lease and in the status file.      *)
(***************************************************************************)
EXTENDS Integers, FiniteSets, FiniteSetsExt

CONSTANTS
  MaxDaemons,  \* bound: processes spawned
  MaxTasks,    \* bound: presses of the toggle, commands, file changes and reloads
  AutoIndex,   \* the setting autoIndexOnFileChange
  Commands,    \* environment: the commands used besides the toggle
  Reloads,     \* environment: how the window may be reloaded
  Nobody, Nothing

Daemon == 1..MaxDaemons
Task == 1..MaxTasks

ASSUME ExtensionAssumption ==
  /\ MaxDaemons \in Nat /\ MaxTasks \in Nat /\ AutoIndex \in BOOLEAN
  /\ Commands \subseteq {"rebuild", "pause", "resume"}
  /\ Reloads \subseteq {"orderly", "crash"}
  /\ Nobody \notin Daemon /\ Nothing \notin [own : BOOLEAN, id : Daemon]

VARIABLES
  daemon,        \* where each process is
  told,          \* processes that got SIGTERM and have not ended
  beating,       \* processes whose heartbeat thread refreshes their lease record
  lease,         \* indexd.lease: whose pid, written by which side, not expired
  statusFile,    \* indexd-status.json: whose pid, active
  handle,        \* processes.get(repoRoot): one we spawned, or a pid we attached to
  pidOf,         \* the pid field of the handle of each process we spawned
  started,       \* processes this window spawned whose close event has not come
  killed,        \* handles whose proc.kill() succeeded
  persisted,     \* the toggle's stored value
  wanted,        \* the value of the transition in flight
  newest,        \* the task of the newest request of this window, or 0
  aborted,       \* requests whose signal is aborted
  task,          \* where each task is
  transitioning, \* the reconciler is to stay idle
  entry,         \* the workspace's MCP entry is there
  restoring,     \* the reconciler waits for the CLI before it writes the entry
  watching,      \* the reconciler polls
  paused,        \* the workspace state syncPaused
  calm           \* history: one task at a time, processes stop when told, no reload

processVars == <<daemon, told, beating>>
extFiles == <<lease, statusFile>>
handleVars == <<handle, pidOf, started, killed>>
toggleVars == <<persisted, wanted, newest, aborted, transitioning>>
couplingVars == <<entry, restoring, watching>>
extVars == <<processVars, extFiles, handleVars, toggleVars, couplingVars, task, paused, calm>>

Stopping == {"exiting", "dying", "orphan"}
Active == Stopping \cup {"prepare", "entry", "waiting", "fetch", "rehydrate"}
Unused == [kind |-> "none", at |-> "unused", child |-> Nobody, pid |-> Nobody]
NoneOr(S) == S \cup {Nothing}

ExtTypeOK ==
  /\ daemon \in [Daemon -> {"none", "started", "opening", "watching", "ended"}]
  /\ told \subseteq Daemon /\ beating \subseteq Daemon
  /\ lease \in NoneOr([pid : Daemon, by : {"daemon", "extension"}, fresh : BOOLEAN])
  /\ statusFile \in NoneOr([pid : Daemon, active : BOOLEAN])
  /\ handle \in NoneOr([own : BOOLEAN, id : Daemon])
  /\ pidOf \in [Daemon -> Daemon]
  /\ started \subseteq {d \in Daemon : daemon[d] # "none"} /\ killed \subseteq started
  /\ persisted \in {"On", "Off"} /\ wanted \in NoneOr({"On", "Off"})
  /\ newest \in 0..MaxTasks /\ aborted \subseteq Task
  /\ \A t \in Task : /\ task[t].at \in Active \cup {"unused", "done"}
                     /\ task[t].child \in Daemon \cup {Nobody}
                     /\ task[t].pid \in Daemon \cup {Nobody}
  /\ {transitioning, entry, restoring, watching, paused, calm} \subseteq BOOLEAN

\* a window that has settled on Off, of a workspace that is set up (config.yaml)
ExtInit ==
  /\ daemon = [d \in Daemon |-> "none"] /\ lease = Nothing /\ statusFile = Nothing
  /\ told = {} /\ beating = {} /\ handle = Nothing /\ pidOf = [d \in Daemon |-> d]
  /\ started = {} /\ killed = {}
  /\ persisted = "Off" /\ wanted = Nothing /\ newest = 0 /\ aborted = {}
  /\ task = [t \in Task |-> Unused]
  /\ transitioning = FALSE /\ entry = FALSE /\ restoring = FALSE /\ watching = TRUE
  /\ paused = FALSE /\ calm = TRUE

-----------------------------------------------------------------------------
(* what the extension can tell of a process *)

\* isPidAlive
Alive(d) == daemon[d] \in {"started", "opening", "watching"}

\* isHandleRunning: of a process we spawned only that nobody called kill()
HandleRunning ==
  handle # Nothing /\ IF handle.own THEN handle.id \notin killed ELSE Alive(handle.id)

\* isStatusProcessAlive
StatusAlive == statusFile # Nothing /\ statusFile.active /\ Alive(statusFile.pid)

HandlePid == IF handle.own THEN pidOf[handle.id] ELSE handle.id

\* verifyLeaseOwner: the daemon writes its start id in a form of its own, which
\* never equals the one the extension computes
Mismatch(d) == lease # Nothing /\ lease.pid = d /\ lease.by = "daemon"

\* reconcileOrphanLease: unless the record names this pid and has not expired
Recorded(d) ==
  IF lease # Nothing /\ lease.pid = d /\ lease.fresh THEN lease
  ELSE [pid |-> d, by |-> "extension", fresh |-> TRUE]

\* removeLeaseForPid
RemovedFor(d) == IF lease # Nothing /\ lease.pid = d THEN Nothing ELSE lease

\* isLiveIndexing, and the lease after it: a process seen by the status file only
\* is recorded
IsLive == HandleRunning \/ StatusAlive
Looked == IF ~HandleRunning /\ StatusAlive THEN Recorded(statusFile.pid) ELSE lease

\* getStartedIndexdPid
StartedPid ==
  IF handle # Nothing /\ handle.own /\ Alive(HandlePid) /\ ~Mismatch(HandlePid)
  THEN HandlePid ELSE Nobody

\* refreshIndexStatus: a handle takes over the pid of the status file
RefreshedHandle ==
  IF handle = Nothing \/ handle.own \/ statusFile = Nothing THEN handle
  ELSE IF statusFile.active THEN [handle EXCEPT !.id = statusFile.pid] ELSE Nothing
RefreshedPid ==
  IF handle = Nothing \/ ~handle.own \/ statusFile = Nothing THEN pidOf
  ELSE [pidOf EXCEPT ![handle.id] = statusFile.pid]

Settled == \A t \in Task : task[t].at \notin Active

-----------------------------------------------------------------------------
(* the daemon process *)

OwnRecord(d) == [pid |-> d, by |-> "daemon", fresh |-> TRUE]

\* acquire_or_attach: a live record of anybody ends it, the one the extension
\* wrote for it included
Acquires(d) ==
  /\ daemon[d] = "started" /\ d \notin told
  /\ IF lease # Nothing /\ lease.fresh
     THEN daemon' = [daemon EXCEPT ![d] = "ended"] /\ UNCHANGED <<lease, beating>>
     ELSE /\ daemon' = [daemon EXCEPT ![d] = "opening"]
          /\ lease' = OwnRecord(d)
          /\ beating' = beating \cup {d}
  /\ UNCHANGED <<told, statusFile, handleVars, toggleVars, couplingVars, task, paused, calm>>

\* the watch loop begins, after a full rebuild, and reports batches
Reports(d) ==
  /\ daemon[d] \in {"opening", "watching"}
  /\ daemon' = [daemon EXCEPT ![d] = "watching"]
  /\ statusFile' = [pid |-> d, active |-> TRUE]
  /\ statusFile' # statusFile \/ daemon' # daemon
  /\ UNCHANGED <<told, beating, lease, handleVars, toggleVars, couplingVars,
                 task, paused, calm>>

\* heartbeat: a record that was removed is written again, before another's, that of
\* the extension for this process included, the thread ends for good
Beats(d) ==
  /\ d \in beating /\ Alive(d)
  /\ \/ lease = Nothing /\ lease' = OwnRecord(d) /\ UNCHANGED beating
     \/ lease # Nothing /\ ~Mismatch(d) /\ beating' = beating \ {d} /\ UNCHANGED lease
  /\ UNCHANGED <<daemon, told, statusFile, handleVars, toggleVars, couplingVars,
                 task, paused, calm>>

\* the guard is dropped: the record goes if it is this process's
Released(d) == IF Mismatch(d) THEN Nothing ELSE lease

Ends(d) ==
  /\ daemon' = [daemon EXCEPT ![d] = "ended"]
  /\ told' = told \ {d} /\ beating' = beating \ {d}

\* told to stop, it leaves the watch loop with a last report
Stops(d) ==
  /\ daemon[d] = "watching" /\ d \in told
  /\ Ends(d)
  /\ statusFile' = [pid |-> d, active |-> FALSE]
  /\ lease' = Released(d)
  /\ UNCHANGED <<handleVars, toggleVars, couplingVars, task, paused, calm>>

\* the database cannot be opened
FailsToOpen(d) ==
  /\ daemon[d] = "opening"
  /\ Ends(d)
  /\ lease' = Released(d)
  /\ UNCHANGED <<statusFile, handleVars, toggleVars, couplingVars, task, paused, calm>>

\* killed, or it got SIGTERM before its handler was in place
Dies(d) ==
  /\ Alive(d)
  /\ Ends(d)
  /\ UNCHANGED <<extFiles, handleVars, toggleVars, couplingVars, task, paused, calm>>

\* nobody refreshes a record of the extension, nor that of a process that ended
Lapses ==
  /\ lease # Nothing /\ lease.fresh
  /\ lease.by = "daemon" => ~Alive(lease.pid)
  /\ lease' = [lease EXCEPT !.fresh = FALSE]
  /\ UNCHANGED <<processVars, statusFile, handleVars, toggleVars, couplingVars,
                 task, paused, calm>>

-----------------------------------------------------------------------------
(* starting a daemon: startLiveIndexing *)

Unspawned == {d \in Daemon : daemon[d] = "none"}

\* spawn, and at once the lease record from this side, over the record that is there.
\* By then the daemon may have done nothing, or have its own record in the file, or
\* have written one that is overwritten
Spawn(there) ==
  \E d \in Unspawned :
    /\ \A e \in Unspawned : d <= e
    /\ handle' = [own |-> TRUE, id |-> d]
    /\ started' = started \cup {d}
    /\ \/ /\ daemon' = [daemon EXCEPT ![d] = "started"] /\ UNCHANGED beating
          /\ lease' = [pid |-> d, by |-> "extension", fresh |-> TRUE]
       \/ /\ ~(there # Nothing /\ there.fresh)
          /\ daemon' = [daemon EXCEPT ![d] = "opening"] /\ beating' = beating \cup {d}
          /\ lease' \in [pid : {d}, by : {"daemon", "extension"}, fresh : {TRUE}]
    /\ UNCHANGED <<told, statusFile, pidOf, killed>>

\* a live process is attached to; a handle that counts as running stays
AttachToLive ==
  /\ IF StatusAlive /\ ~HandleRunning
     THEN handle' = [own |-> FALSE, id |-> statusFile.pid] /\ UNCHANGED pidOf
     ELSE handle' = RefreshedHandle /\ pidOf' = RefreshedPid
  /\ lease' = IF StatusAlive THEN Recorded(statusFile.pid) ELSE lease
  /\ UNCHANGED <<processVars, statusFile, started, killed>>

StartLive == IF IsLive THEN AttachToLive ELSE Spawn(lease)

-----------------------------------------------------------------------------
(* the end of a task *)

GoTo(t, k, place, c, p) ==
  task' = [task EXCEPT ![t] = [kind |-> k, at |-> place, child |-> c, pid |-> p]]
Finish(t, k) == GoTo(t, k, "done", Nobody, Nobody)

\* Mutant of Settle: whoever ends last decides.
SettleAnyway(t, k) ==
  /\ persisted' = k /\ wanted' = Nothing /\ transitioning' = FALSE
  /\ aborted' = aborted \ {t} /\ UNCHANGED newest

\* ToggleControl.set after its await: only the newest request settles. The flag is
\* dropped by whoever ends, for a newer transition too
Settle(t, k) ==
  /\ IF t = newest
     THEN persisted' = k /\ wanted' = Nothing
     ELSE UNCHANGED <<persisted, wanted>>
  /\ transitioning' = FALSE
  /\ aborted' = aborted \ {t} /\ UNCHANGED newest

\* a request whose signal is aborted throws at its next check
GivesUp(t) ==
  /\ t \in aborted
  /\ transitioning' = FALSE
  /\ Finish(t, task[t].kind)
  /\ aborted' = aborted \ {t}
  /\ UNCHANGED <<persisted, wanted, newest>>

\* what follows a stop: the request ends, or the command goes on
AfterStop(t, k) ==
  /\ IF k = "Off" THEN Settle(t, k) ELSE UNCHANGED toggleVars
  /\ Finish(t, k)

InTime(yes) == calm' = (calm /\ yes)

-----------------------------------------------------------------------------
(* stopping the daemon: stopLiveIndexing with force, in stages *)

\* kill() of a process that is gone fails, and its handle still counts as running
KillOwn(t, k, d) ==
  /\ told' = IF Alive(d) THEN told \cup {d} ELSE told
  /\ killed' = IF Alive(d) THEN killed \cup {d} ELSE killed
  /\ GoTo(t, k, "exiting", d, HandlePid)
  /\ UNCHANGED <<beating, extFiles, handle, pidOf, started>>

\* killByPid: refused when the record does not verify
KillPid(t, k, place, p) ==
  /\ told' = IF Alive(p) /\ ~Mismatch(p) THEN told \cup {p} ELSE told
  /\ GoTo(t, k, place, Nobody, p)
  /\ UNCHANGED <<beating, extFiles, handleVars>>

\* Mutant of StopBegins: a handle whose process runs is dropped without a kill.
StopForgets(t, k) ==
  /\ handle' = Nothing
  /\ AfterStop(t, k)
  /\ UNCHANGED <<processVars, extFiles, pidOf, started, killed>>

\* a handle of our own is killed, another's pid too; without a handle the process
\* of the status file
StopBegins(t, k) ==
  LET idle == UNCHANGED <<daemon, toggleVars>>
  IN IF handle # Nothing
     THEN idle /\ IF handle.own THEN KillOwn(t, k, handle.id)
                                ELSE KillPid(t, k, "dying", handle.id)
     ELSE IF statusFile # Nothing /\ Alive(statusFile.pid)
     THEN idle /\ KillPid(t, k, "orphan", statusFile.pid)
     ELSE /\ IF k \in {"rebuild", "manage"}
             THEN Spawn(lease)
             ELSE UNCHANGED <<processVars, extFiles, handleVars>>
          /\ AfterStop(t, k)

\* waitForProcessExit: its close event came, or five seconds passed; the next wait is
\* over at once if the process is gone
Exits(t) ==
  /\ task[t].at = "exiting"
  /\ InTime(task[t].child \notin started)
  /\ KillPid(t, task[t].kind, "dying", task[t].pid)
  /\ UNCHANGED <<daemon, toggleVars, couplingVars, paused>>

\* waitForPidExit; then whatever handle is in the map goes, and the record with the
\* pid, whether or not its process still runs
StopEnds(t) ==
  /\ task[t].at \in {"dying", "orphan"}
  /\ InTime(~Alive(task[t].pid))
  /\ IF task[t].kind \in {"rebuild", "manage"}
     THEN Spawn(RemovedFor(task[t].pid))
     ELSE /\ lease' = RemovedFor(task[t].pid)
          /\ handle' = IF task[t].at = "orphan" THEN handle ELSE Nothing
          /\ UNCHANGED <<processVars, statusFile, pidOf, started, killed>>
  /\ AfterStop(t, task[t].kind)
  /\ UNCHANGED <<couplingVars, paused>>

-----------------------------------------------------------------------------
(* the toggle *)

\* bound: a task only begins when every spawn it may need is left, besides those of
\* the tasks under way
Starter == {"On", "rebuild", "resume", "manage", "auto"}
MaySpawn(k) == IF k \in Starter THEN 1 ELSE 0
Reserved ==
  MapThenSumSet(LAMBDA u : MaySpawn(task[u].kind), {u \in Task : task[u].at \in Active})
NextUp(t) == task[t] = Unused /\ \A u \in Task : u < t => task[u] # Unused
Begins(t, k) == NextUp(t) /\ Cardinality(Unspawned) >= MaySpawn(k) + Reserved

Displayed == IF wanted = Nothing THEN persisted ELSE wanted

\* ToggleControl.set: a request in flight is aborted, this one is the newest
Request(t, k) ==
  /\ Begins(t, k)
  /\ Displayed # k
  /\ aborted' = IF wanted = Nothing THEN aborted ELSE aborted \cup {newest}
  /\ newest' = t
  /\ InTime(Settled)

PressOn(t) ==
  /\ Request(t, "On")
  /\ wanted' = "On" /\ transitioning' = TRUE
  /\ GoTo(t, "On", "prepare", Nobody, Nobody)
  /\ UNCHANGED <<persisted, processVars, extFiles, handleVars, couplingVars, paused>>

\* removeManagedMcpEntries and releaseLiveIndexingAfterDeactivation: a daemon of our
\* own is stopped, another's is forgotten without a kill
OwnLeft == handle # Nothing /\ handle.own
OffRest(t) ==
  /\ entry' = FALSE
  /\ IF OwnLeft
     THEN KillOwn(t, "Off", handle.id)
     ELSE /\ handle' = Nothing
          /\ Finish(t, "Off")
          /\ UNCHANGED <<told, beating, extFiles, pidOf, started, killed>>

\* Off tells the daemon that this window started and can verify to stop, and waits
PressOff(t) ==
  /\ Request(t, "Off")
  /\ IF StartedPid # Nobody
     THEN /\ told' = told \cup {StartedPid}
          /\ GoTo(t, "Off", "waiting", Nobody, StartedPid)
          /\ UNCHANGED <<beating, extFiles, handleVars, entry>>
     ELSE OffRest(t)
  /\ IF StartedPid # Nobody \/ OwnLeft
     THEN wanted' = "Off" /\ transitioning' = TRUE /\ UNCHANGED persisted
     ELSE wanted' = Nothing /\ transitioning' = FALSE /\ persisted' = "Off"
  /\ UNCHANGED <<daemon, restoring, watching, paused>>

\* stopOwnedDaemons: process and signal are polled; after ten seconds the process is
\* killed, unless the record does not verify, and the signal is looked at again
Waits(t) ==
  LET p == task[t].pid
  IN /\ task[t].at = "waiting"
     /\ \/ UNCHANGED <<daemon, calm>> /\ (t \in aborted \/ ~Alive(p))
        \/ /\ Alive(p)
           /\ daemon' = [daemon EXCEPT ![p] = IF Mismatch(p) THEN @ ELSE "ended"]
           /\ calm' = FALSE
     /\ \/ GivesUp(t) /\ UNCHANGED <<told, beating, extFiles, handleVars, entry>>
        \/ /\ t \notin aborted
           /\ OffRest(t)
           /\ IF OwnLeft
              THEN UNCHANGED toggleVars
              ELSE Settle(t, "Off")
     /\ UNCHANGED <<restoring, watching, paused>>

\* runTurnOn until the index is built: binary, model, database and index, each of them
\* a wait after which an aborted request gives up; a required one that fails ends
\* the transition, which settles on On all the same; then the watcher is started
Prepares(t) ==
  /\ task[t].at = "prepare"
  /\ \/ GivesUp(t) /\ UNCHANGED <<processVars, extFiles, handleVars>>
     \/ /\ t \notin aborted
        /\ Settle(t, "On") /\ Finish(t, "On")
        /\ UNCHANGED <<processVars, extFiles, handleVars>>
     \/ /\ t \notin aborted
        /\ StartLive
        /\ IF IsLive'
           THEN GoTo(t, "On", "entry", Nobody, Nobody) /\ UNCHANGED toggleVars
           ELSE Settle(t, "On") /\ Finish(t, "On")
  /\ UNCHANGED <<couplingVars, paused, calm>>

\* writeManagedMcpEntry: the CLI is asked, and the entry is written before the signal
\* is looked at; without the CLI's answer it is not, which is not required
WritesEntry(t) ==
  /\ task[t].at = "entry"
  /\ entry' \in {entry, TRUE}
  /\ \/ GivesUp(t)
     \/ t \notin aborted /\ Settle(t, "On") /\ Finish(t, "On")
  /\ UNCHANGED <<processVars, extFiles, handleVars, restoring, watching, paused, calm>>

-----------------------------------------------------------------------------
(* the commands and the window *)

\* rebuild and resume ask the CLI for the paths first, pause stops at once
Begin(t, k) ==
  /\ Begins(t, k)
  /\ paused' = IF k = "rebuild" THEN paused ELSE k = "pause"
  /\ InTime(Settled)
  /\ IF k = "pause"
     THEN StopBegins(t, k)
     ELSE /\ GoTo(t, k, "fetch", Nobody, Nobody)
          /\ UNCHANGED <<processVars, extFiles, handleVars, toggleVars>>
  /\ UNCHANGED couplingVars

\* a file is saved, created, deleted or renamed and no daemon seems to run: one is to
\* start, whatever the toggle says, if none is being started on that account already
FilesChange(t) ==
  /\ AutoIndex /\ ~IsLive /\ ~paused
  /\ \A u \in Task : task[u].kind = "auto" => task[u].at \notin Active
  /\ Begins(t, "auto")
  /\ GoTo(t, "auto", "fetch", Nobody, Nobody)
  /\ InTime(Settled)
  /\ UNCHANGED <<processVars, extFiles, handleVars, toggleVars, couplingVars, paused>>

\* reconcileWorkspaceOnActivate with the repair plan: a rebuild is due, or a daemon
Manages(t) ==
  \/ paused /\ Finish(t, "manage") /\ UNCHANGED <<processVars, extFiles, handleVars>>
  \/ /\ ~paused
     /\ IF IsLive
        THEN lease' = Looked /\ UNCHANGED <<processVars, statusFile, handleVars>>
        ELSE Spawn(lease)
     /\ Finish(t, "manage")

\* the paths are there, or the command fails
Fetched(t) ==
  LET k == task[t].kind
  IN /\ task[t].at = "fetch"
     /\ \/ k \in {"rebuild", "manage"} /\ ~(k = "manage" /\ paused) /\ StopBegins(t, k)
        \/ /\ k \in {"resume", "auto"} /\ StartLive
           /\ Finish(t, k) /\ UNCHANGED toggleVars
        \/ k = "manage" /\ Manages(t) /\ UNCHANGED toggleVars
        \/ /\ Finish(t, k)
           /\ UNCHANGED <<processVars, extFiles, handleVars, toggleVars>>
     /\ UNCHANGED <<couplingVars, paused, calm>>

\* the window goes, in order (stopAllIndexing) or not, and comes back: what is in
\* memory is new
Reload(t, how) ==
  /\ NextUp(t) /\ Unspawned # {}
  /\ task' = [u \in Task |->
       IF u = t THEN [Unused EXCEPT !.kind = "manage", !.at = "rehydrate"]
       ELSE IF task[u] = Unused THEN Unused ELSE [Unused EXCEPT !.kind = task[u].kind, !.at = "done"]]
  /\ IF how = "orderly" /\ handle # Nothing
     THEN /\ told' = IF handle.own THEN {d \in Daemon : d \in told \/ (d = handle.id /\ Alive(d))}
                     ELSE IF Alive(handle.id) /\ ~Mismatch(handle.id) THEN told \cup {handle.id}
                     ELSE told
          /\ lease' = RemovedFor(HandlePid)
     ELSE UNCHANGED <<told, lease>>
  /\ handle' = Nothing /\ started' = {} /\ killed' = {}
  /\ wanted' = Nothing /\ newest' = 0 /\ aborted' = {}
  /\ transitioning' = FALSE /\ restoring' = FALSE /\ watching' = FALSE
  /\ calm' = FALSE
  /\ pidOf' = [d \in Daemon |-> d]
  /\ UNCHANGED <<daemon, beating, statusFile, persisted, entry, paused>>

\* rehydrateWorkspaceState: a daemon is started if liveIndexing says that one ran, which
\* every poll overwrites, whatever the toggle says; from then on the reconciler polls.
\* The second call, at the head of reconcileWorkspaceOnActivate, is left out
Rehydrates(t) ==
  /\ task[t].at = "rehydrate"
  /\ watching' = TRUE
  /\ GoTo(t, "manage", "fetch", Nobody, Nobody)
  /\ \/ ~paused /\ StartLive /\ Cardinality(Unspawned') >= Reserved
     \/ UNCHANGED <<processVars, extFiles, handleVars>>
  /\ UNCHANGED <<toggleVars, entry, restoring, paused, calm>>

-----------------------------------------------------------------------------
(* events of the window *)

\* the close event of a process removes the handle that is in the map, whosever it
\* is, and the record with the pid of its own
Close(d) ==
  /\ d \in started /\ ~Alive(d)
  /\ handle' = Nothing
  /\ lease' = RemovedFor(pidOf[d])
  /\ started' = started \ {d} /\ killed' = killed \ {d} /\ pidOf' = [pidOf EXCEPT ![d] = d]
  /\ UNCHANGED <<processVars, statusFile, toggleVars, couplingVars,
                 task, paused, calm>>

\* fs.watch on the status file, 50 ms later or whenever the event comes
Refreshes ==
  /\ handle' = RefreshedHandle /\ pidOf' = RefreshedPid
  /\ <<handle, pidOf>>' # <<handle, pidOf>>
  /\ UNCHANGED <<processVars, extFiles, started, killed, toggleVars, couplingVars,
                 task, paused, calm>>

\* WatcherEntryReconciler.tick outside of a transition
Ticks ==
  /\ watching /\ ~transitioning
  /\ IF IsLive
     THEN ~entry /\ ~restoring /\ restoring' = TRUE /\ UNCHANGED entry
     ELSE entry /\ entry' = FALSE /\ UNCHANGED restoring
  /\ lease' = Looked
  /\ UNCHANGED <<processVars, statusFile, handleVars, toggleVars, watching,
                 task, paused, calm>>

\* Mutant of Restores: the entry is not written.
RestoresNot ==
  /\ restoring /\ restoring' = FALSE
  /\ UNCHANGED <<processVars, extFiles, handleVars, toggleVars, entry, watching,
                 task, paused, calm>>

\* restoreEntry: the CLI is asked first, and what went on meanwhile is not looked at
Restores ==
  /\ restoring /\ restoring' = FALSE
  /\ entry' = TRUE
  /\ UNCHANGED <<processVars, extFiles, handleVars, toggleVars, watching,
                 task, paused, calm>>

\* isLiveIndexing of the health poll and the panel
Observes ==
  /\ lease' = Looked /\ lease' # lease
  /\ UNCHANGED <<processVars, statusFile, handleVars, toggleVars, couplingVars,
                 task, paused, calm>>

DaemonNext ==
  \/ \E d \in Daemon : Acquires(d) \/ Beats(d) \/ Reports(d) \/ Stops(d) \/ FailsToOpen(d) \/ Dies(d)
  \/ Lapses

TaskNext(t) == Exits(t) \/ StopEnds(t) \/ Waits(t) \/ Prepares(t) \/ WritesEntry(t)
               \/ Fetched(t) \/ Rehydrates(t)

UserNext ==
  \E t \in Task : \/ PressOn(t) \/ PressOff(t)
                  \/ \E k \in Commands : Begin(t, k)
                  \/ FilesChange(t)
                  \/ \E how \in Reloads : Reload(t, how)

WindowNext == (\E d \in Daemon : Close(d)) \/ Ticks \/ Restores

ExtNext == DaemonNext \/ (\E t \in Task : TaskNext(t)) \/ UserNext
           \/ WindowNext \/ Refreshes \/ Observes

\* what the extension awaits comes or times out, its reconciler polls, and it is told
\* of exits. Of the daemons, the status file's events and the user nothing is assumed
ExtFair == WF_extVars(\E t \in Task : TaskNext(t)) /\ WF_extVars(WindowNext)

ExtSpec == ExtInit /\ [][ExtNext]_extVars
ExtFairSpec == ExtSpec /\ ExtFair

-----------------------------------------------------------------------------
\* The value the toggle stores changes only to the one last asked for, whatever
\* transitions end late, and a request that was superseded starts no process
\* (toggle.ts: "converges on the newest value").
NewestSettles ==
  [][/\ persisted' # persisted => newest' # 0 /\ persisted' = task'[newest'].kind
     /\ \A t \in aborted : task'[t] # task[t] => Unspawned' = Unspawned]_extVars

\* since the last request of the toggle something was to start a daemon
CalledSince == \E t \in Task : t > newest /\ task[t].kind \in Starter

\* As long as one thing that starts or stops a daemon ends before the next begins, a press
\* of the toggle, a command or a change of a file, no window is reloaded and processes
\* end in the time they are given: at most one process is there to work on the index,
\* and once the toggle has settled on Off none is left but one that a command or a
\* change of a file since then has started.
CalmControl ==
  /\ ExtTypeOK
  /\ calm => /\ \A d, e \in Daemon : Alive(d) /\ Alive(e) => d = e
             /\ persisted = "Off" /\ Settled /\ ~CalledSince => \A d \in Daemon : ~Alive(d)

\* Once the user leaves the window alone the toggle settles on what was last asked,
\* and the MCP entry is there exactly as long as a daemon is believed to run.
SettlesAsAsked ==
  /\ <>[](wanted = Nothing /\ (newest # 0 => persisted = task[newest].kind))
  /\ <>[](IsLive <=> entry)

=============================================================================
