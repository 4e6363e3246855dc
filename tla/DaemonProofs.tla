---------------------------- MODULE DaemonProofs ----------------------------
(***************************************************************************)
(* Proofs about the indexing daemon: its loop, for any files and any       *)
(* number of edits and runs; and the editor window that starts and stops   *)
(* daemons, for any number of daemons and tasks and any commands.          *)
(***************************************************************************)
EXTENDS Watch, Extension, TLAPS

-----------------------------------------------------------------------------
(* The channel: what appending, taking and keeping do to the paths in it *)

LEMMA NotifiedType ==
  ASSUME NEW s \in Seq(Path), NEW p \in Path
  PROVE  /\ Notified(s, p) \in Seq(Path)
         /\ Paths(Notified(s, p)) = Paths(s) \cup {p}
<1>1. CASE s # <<>> /\ s[Len(s)] = p
  <2>1. Len(s) \in DOMAIN s
    BY <1>1
  <2> QED
    BY <1>1, <2>1 DEF Notified, Paths
<1>2. CASE ~(s # <<>> /\ s[Len(s)] = p)
  <2>1. Notified(s, p) = Append(s, p)
    BY <1>2 DEF Notified
  <2>2. \A i \in DOMAIN s : Append(s, p)[i] = s[i]
    OBVIOUS
  <2>3. Append(s, p)[Len(s) + 1] = p /\ DOMAIN Append(s, p) = DOMAIN s \cup {Len(s) + 1}
    OBVIOUS
  <2> QED
    BY <2>1, <2>2, <2>3 DEF Paths
<1> QED
  BY <1>1, <1>2

LEMMA TakeType ==
  ASSUME NEW s \in Seq(Path), s # <<>>
  PROVE  /\ Head(s) \in Path
         /\ Tail(s) \in Seq(Path)
         /\ Paths(s) \subseteq Paths(Tail(s)) \cup {Head(s)}
<1>1. Head(s) \in Path /\ Tail(s) \in Seq(Path)
  OBVIOUS
<1>2. ASSUME NEW i \in DOMAIN s, i # 1 PROVE s[i] \in Paths(Tail(s))
  <2>1. i - 1 \in DOMAIN Tail(s) /\ Tail(s)[i - 1] = s[i]
    BY <1>2
  <2> QED
    BY <2>1 DEF Paths
<1>3. Head(s) = s[1]
  OBVIOUS
<1> QED
  BY <1>1, <1>2, <1>3 DEF Paths

LEMMA EmptyChannel == <<>> \in Seq(Path) /\ Paths(<<>>) = {}
BY DEF Paths

-----------------------------------------------------------------------------
LEMMA InitTypeOK == Init => TypeOK
<1> SUFFICES ASSUME Init PROVE TypeOK
  OBVIOUS
<1>1. disk \in [File -> 0..MaxEdits]
  BY WatchAssumption DEF Init
<1>2. indexed \in [File -> 0..MaxEdits] /\ seen \in [File -> 0..MaxEdits]
  BY <1>1 DEF Init
<1>3. report \in Claim /\ status \in Claim
  BY DEF Init, Claim, Watching
<1>4. runs \in 1..MaxRuns
  BY WatchAssumption DEF Init
<1> QED
  BY <1>1, <1>2, <1>3, <1>4, EmptyChannel DEF Init, TypeOK, Stages, Unwatched, Ended

LEMMA WriteType ==
  ASSUME NEW claim \in Claim, TypeOK, WriteStatus(claim)
  PROVE  status' \in Claim /\ events' \in Seq(Path) /\ Paths(events) \subseteq Paths(events')
BY NotifiedType DEF WriteStatus, TypeOK, Path

LEMMA PublishType ==
  ASSUME TypeOK, Publish
  PROVE  /\ indexed' \in [File -> 0..MaxEdits]
         /\ pending' \in BOOLEAN
         /\ events' \in Seq(Path)
         /\ Paths(events) \subseteq Paths(events')
         /\ missed' \in SUBSET File
<1>1. events' \in Seq(Path) /\ Paths(events) \subseteq Paths(events')
  BY NotifiedType DEF Publish, TypeOK, Path
<1> QED
  BY <1>1 DEF Publish, TypeOK

LEMMA StepTypeOK == TypeOK /\ [Next]_vars => TypeOK'
<1> SUFFICES ASSUME TypeOK, [Next]_vars PROVE TypeOK'
  OBVIOUS
<1> USE DEF TypeOK, Step, Stages, Unwatched, Ended, fileVars, batchVars
<1>1. ASSUME NEW f \in File, Edit(f) PROVE TypeOK'
  <2>1. disk' \in [File -> 0..MaxEdits]
    BY <1>1, WatchAssumption DEF Edit
  <2>2. events' \in Seq(Path) /\ missed' \in SUBSET File
    BY <1>1, NotifiedType DEF Edit, Path
  <2> QED
    BY <1>1, <2>1, <2>2 DEF Edit
<1>2. CASE Open
  BY <1>2 DEF Open
<1>3. CASE RebuildDone
  <2>1. indexed' \in [File -> 0..MaxEdits] /\ missed' \in SUBSET File
    BY <1>3 DEF RebuildDone
  <2> QED
    BY <1>3, <2>1 DEF RebuildDone
<1>4. CASE Register
  BY <1>4, WriteType DEF Register, Claim
<1>5. CASE SettleAs("watching") \/ SettleAs("settling")
  BY <1>5, WriteType DEF SettleAs, Claim, Watching
<1>6. CASE CollectEvent /\ stage' = "collecting" /\ events # <<>>
           /\ UNCHANGED <<fileVars, seen, report, pending, status, running, runs, missed>>
  <2>1. changes' \in SUBSET (File \ Ignore)
    BY <1>6, TakeType DEF CollectEvent, Ignored, Path
  <2> QED
    BY <1>6, <2>1, TakeType DEF CollectEvent
<1>7. CASE WindowEnds
  BY <1>7 DEF WindowEnds, LeftOver
<1>8. CASE Plan
  BY <1>8 DEF Plan
<1>9. CASE BatchOk
  BY <1>9, PublishType DEF BatchOk, BatchEnds, Claim, Publish
<1>10. CASE DrainFails
  BY <1>10, PublishType DEF DrainFails, BatchEnds, Claim, Publish
<1>11. CASE BatchFails
  BY <1>11 DEF BatchFails, BatchEnds, Claim
<1>12. CASE WriteReport
  BY <1>12, WriteType DEF WriteReport
<1>13. CASE StatusFails \/ Stop \/ Kill
  <2>1. stage' \in Stages /\ changes' \in SUBSET (File \ Ignore)
    BY <1>13 DEF StatusFails, Stop, Kill
  <2>2. status' \in Claim
    <3>1. CASE Stop
      BY <3>1 DEF Stop, Claim
    <3>2. CASE StatusFails \/ Kill
      BY <3>2 DEF StatusFails, Kill
    <3> QED
      BY <1>13, <3>1, <3>2
  <2>3. events' \in Seq(Path) /\ missed' \in SUBSET File
    BY <1>13, EmptyChannel DEF StatusFails, Stop, Kill, Lose
  <2> QED
    BY <1>13, <2>1, <2>2, <2>3 DEF StatusFails, Stop, Kill
<1>14. CASE Interrupt \/ Restart
  <2>1. runs' \in 1..MaxRuns
    BY <1>14, WatchAssumption DEF Interrupt, Restart
  <2>2. stage' \in Stages /\ running' \in BOOLEAN
    BY <1>14 DEF Interrupt, Restart
  <2> QED
    BY <1>14, <2>1, <2>2 DEF Interrupt, Restart
<1>15. CASE UNCHANGED vars
  BY <1>15 DEF vars
<1> QED
  BY <1>1, <1>2, <1>3, <1>4, <1>5, <1>6, <1>7, <1>8, <1>9, <1>10, <1>11, <1>12, <1>13, <1>14, <1>15
     DEF Next, Loop, Recv, Collect

\* The daemon's state is well typed; a batch holds no ignored path and none of its own.
THEOREM WatchTypes == Spec => []TypeOK
BY InitTypeOK, StepTypeOK, PTL DEF Spec

-----------------------------------------------------------------------------
(* EditsAccounted is not inductive: the planner reads a file and publishes   *)
(* it later.  What it read is stale only if an event for the file is still    *)
(* to come, or one was lost.                                                  *)

ReadAccounted ==
  stage = "publishing" =>
    \A f \in changes : seen[f] # disk[f] => f \in Paths(events) \cup missed

AInv == EditsAccounted /\ ReadAccounted

LEMMA InitAInv == Init => AInv
BY DEF Init, AInv, EditsAccounted, ReadAccounted

\* A step that only adds to the channel keeps every account.
LEMMA ChannelGrows ==
  ASSUME TypeOK, AInv, Paths(events) \subseteq Paths(events'), stage' # "publishing",
         UNCHANGED <<disk, indexed, changes, missed>>
  PROVE  AInv'
BY DEF AInv, EditsAccounted, ReadAccounted, Tracked, Ignored

LEMMA PublishAccounts ==
  ASSUME TypeOK, AInv, stage = "publishing", Publish,
         stage' = "reporting", changes' = {}
  PROVE  AInv'
<1> SUFFICES ASSUME NEW f \in Tracked, indexed'[f] # disk'[f]
             PROVE  f \in Paths(events') \cup missed'
  BY DEF AInv, EditsAccounted, ReadAccounted, Tracked, Ignored
<1>1. f \in File /\ disk' = disk
  BY DEF Tracked, Publish
<1>2. Paths(events) \subseteq Paths(events')
  BY PublishType
<1>3. f \in missed => f \in missed'
  BY <1>1 DEF Publish
<1>4. CASE f \in changes
  <2>1. seen[f] # disk[f]
    BY <1>1, <1>4 DEF Publish, Batch
  <2> QED
    BY <1>2, <1>3, <1>4, <2>1 DEF AInv, ReadAccounted
<1>5. CASE f \notin changes
  <2>1. indexed[f] # disk[f]
    BY <1>1, <1>5 DEF Publish, Batch
  <2> QED
    BY <1>2, <1>3, <1>5, <2>1 DEF AInv, EditsAccounted
<1> QED
  BY <1>4, <1>5

LEMMA StepAInv == TypeOK /\ AInv /\ [Next]_vars => AInv'
<1> SUFFICES ASSUME TypeOK, AInv, [Next]_vars PROVE AInv'
  OBVIOUS
<1> USE DEF Step, fileVars, batchVars, Tracked, Ignored
<1>0. events \in Seq(Path)
  BY DEF TypeOK
<1>1. ASSUME NEW f \in File, Edit(f) PROVE AInv'
  <2>1. Paths(events) \subseteq Paths(events') /\ missed \subseteq missed'
        /\ f \in Paths(events') \cup missed'
    <3>1. CASE events' = Notified(events, f) /\ UNCHANGED missed
      <4>1. Paths(events') = Paths(events) \cup {f}
        BY <1>0, <3>1, NotifiedType DEF Path
      <4> QED BY <3>1, <4>1
    <3>2. CASE missed' = missed \cup {f} /\ UNCHANGED events
      BY <3>2
    <3> QED BY <1>1, <3>1, <3>2 DEF Edit
  <2>2. \A h \in File : h # f => disk'[h] = disk[h]
    BY <1>1 DEF Edit, TypeOK
  <2>3. UNCHANGED <<indexed, stage, changes, seen>>
    BY <1>1 DEF Edit
  <2>4. changes \subseteq File
    BY DEF TypeOK
  <2> QED
    BY <2>1, <2>2, <2>3, <2>4 DEF AInv, EditsAccounted, ReadAccounted
<1>2. CASE Open \/ WindowEnds \/ Interrupt \/ Restart
  <2>1. UNCHANGED <<disk, indexed, events, changes, missed>>
    BY <1>2 DEF Open, WindowEnds, Interrupt, Restart, LeftOver
  <2>2. stage' = "publishing" => stage = "publishing" /\ seen' = seen
    BY <1>2 DEF Open, WindowEnds, Interrupt, Restart
  <2> QED
    BY <2>1, <2>2 DEF AInv, EditsAccounted, ReadAccounted
<1>3. CASE RebuildDone
  <2>1. CASE UNCHANGED <<indexed, missed>>
    BY <1>3, <2>1, ChannelGrows DEF RebuildDone
  <2>2. CASE indexed' = [f \in File |-> IF Ignored(f) THEN indexed[f] ELSE seen[f]]
             /\ missed' = {f \in File : disk[f] # seen[f]}
    BY <1>3, <2>2 DEF RebuildDone, AInv, EditsAccounted, ReadAccounted
  <2> QED
    BY <1>3, <2>1, <2>2 DEF RebuildDone
<1>4. CASE Register \/ SettleAs("watching") \/ SettleAs("settling") \/ WriteReport
  <2>1. Paths(events) \subseteq Paths(events')
    BY <1>0, <1>4, NotifiedType DEF Register, SettleAs, WriteReport, WriteStatus, Path
  <2> QED
    BY <1>4, <2>1, ChannelGrows DEF Register, SettleAs, WriteReport
<1>5. CASE CollectEvent /\ stage' = "collecting" /\ events # <<>>
           /\ UNCHANGED <<fileVars, seen, report, pending, status, running, runs, missed>>
  <2>1. Paths(events) \subseteq Paths(events') \cup {Head(events)}
    BY <1>0, <1>5, TakeType DEF CollectEvent
  <2>2. \A f \in Tracked : f \in Paths(events) \cup changes => f \in Paths(events') \cup changes'
    BY <1>5, <2>1 DEF CollectEvent
  <2> QED
    BY <1>5, <2>2 DEF AInv, EditsAccounted, ReadAccounted
<1>6. CASE Plan
  <2>1. \A f \in changes : seen'[f] = disk[f]
    BY <1>6 DEF Plan, Batch, TypeOK
  <2> QED
    BY <1>6, <2>1 DEF Plan, AInv, EditsAccounted, ReadAccounted
<1>7. CASE BatchOk \/ DrainFails
  BY <1>7, PublishAccounts DEF BatchOk, DrainFails, BatchEnds
<1>8. CASE BatchFails
  BY <1>8 DEF BatchFails, BatchEnds, AInv, EditsAccounted, ReadAccounted
<1>9. CASE StatusFails \/ Stop \/ Kill
  <2>1. \A f \in File : f \in Paths(events) \cup changes \cup missed => f \in changes' \cup missed'
    BY <1>9 DEF StatusFails, Stop, Kill, Lose
  <2>2. UNCHANGED <<disk, indexed>> /\ stage' # "publishing"
    BY <1>9 DEF StatusFails, Stop, Kill
  <2> QED
    BY <2>1, <2>2 DEF AInv, EditsAccounted, ReadAccounted
<1>10. CASE UNCHANGED vars
  BY <1>10 DEF vars, AInv, EditsAccounted, ReadAccounted
<1> QED
  BY <1>1, <1>2, <1>3, <1>4, <1>5, <1>6, <1>7, <1>8, <1>9, <1>10
     DEF Next, Loop, Recv, Collect

\* An edit the index does not have is on its way, or was lost where the code loses
\* one: in no interleaving with the editor does the daemon itself lose an edit.
THEOREM EditsStayAccounted == Spec => []EditsAccounted
<1>1. AInv => EditsAccounted
  BY DEF AInv
<1> QED
  BY <1>1, InitTypeOK, StepTypeOK, InitAInv, StepAInv, PTL DEF Spec

-----------------------------------------------------------------------------
(* The editor window *)

\* a request of the toggle, under way or ended
IsRequest(t) == task[t].kind \in {"On", "Off"} /\ task[t].at \notin {"fetch", "rehydrate"}

\* What is aborted, and what is newest, is a request of the toggle: no command, which
\* might spawn a process without a look at a signal.
RequestsOnly ==
  /\ DOMAIN task = Task /\ DOMAIN daemon = Daemon
  /\ \A t \in aborted : t \in Task /\ IsRequest(t)
  /\ newest # 0 => newest \in Task /\ IsRequest(newest)
  /\ wanted # Nothing => newest # 0

\* what NewestSettles says of a step
OnlyNewest ==
  /\ persisted' # persisted => newest' # 0 /\ persisted' = task'[newest'].kind
  /\ \A t \in aborted : task'[t] # task[t] => Unspawned' = Unspawned

LEMMA InitRequests == ExtInit => RequestsOnly
BY DEF ExtInit, RequestsOnly

-----------------------------------------------------------------------------
(* The two shapes of a step that makes no request *)

\* a step of a process or an event: no task moves and the toggle stays
Aside ==
  /\ UNCHANGED <<task, persisted, wanted, newest, aborted>>
  /\ DOMAIN daemon' = Daemon

LEMMA AsideKeeps == RequestsOnly /\ Aside => RequestsOnly' /\ OnlyNewest
BY DEF RequestsOnly, Aside, OnlyNewest, IsRequest

\* a step of task t, which keeps its kind; an aborted one spawns nothing
Moves(t) ==
  /\ task' = [task EXCEPT ![t] = task'[t]]
  /\ IsRequest(t) => IsRequest(t)'
  /\ \/ UNCHANGED <<persisted, wanted, newest, aborted>>
     \/ Settle(t, task'[t].kind)
     \/ UNCHANGED <<persisted, wanted, newest>> /\ aborted' = aborted \ {t}
  /\ t \in aborted => Unspawned' = Unspawned
  /\ DOMAIN daemon' = Daemon

LEMMA MovesKeeps ==
  ASSUME RequestsOnly, NEW t \in Task, Moves(t)
  PROVE  RequestsOnly' /\ OnlyNewest
<1>1. \A u \in Task \ {t} : task'[u] = task[u]
  BY DEF Moves, RequestsOnly
<1>2. DOMAIN task' = Task
  BY DEF Moves, RequestsOnly
<1>3. \A u \in Task : IsRequest(u) => IsRequest(u)'
  BY <1>1 DEF Moves, IsRequest
<1>4. RequestsOnly'
  BY <1>2, <1>3 DEF RequestsOnly, Moves, Settle
<1>5. OnlyNewest
  <2>1. persisted' # persisted => newest' # 0 /\ persisted' = task'[newest'].kind
    BY DEF Moves, Settle, Task
  <2>2. \A u \in aborted : task'[u] # task[u] => Unspawned' = Unspawned
    BY <1>1 DEF Moves, RequestsOnly
  <2> QED
    BY <2>1, <2>2 DEF OnlyNewest
<1> QED
  BY <1>4, <1>5

-----------------------------------------------------------------------------
(* Processes and events *)

LEMMA ProcessesAside == RequestsOnly /\ DaemonNext => Aside
<1> SUFFICES ASSUME RequestsOnly, DaemonNext PROVE Aside
  OBVIOUS
<1>1. UNCHANGED <<task, persisted, wanted, newest, aborted>>
  BY DEF DaemonNext, Acquires, Beats, Reports, Stops, FailsToOpen, Dies, Lapses, toggleVars
<1>2. DOMAIN daemon' = DOMAIN daemon
  BY DEF DaemonNext, Acquires, Beats, Reports, Stops, FailsToOpen, Dies, Lapses, Ends,
         processVars
<1> QED
  BY <1>1, <1>2 DEF Aside, RequestsOnly

LEMMA EventsAside == RequestsOnly /\ (WindowNext \/ Refreshes \/ Observes) => Aside
BY DEF RequestsOnly, WindowNext, Close, Refreshes, Ticks, Restores, Observes, Aside,
       toggleVars, processVars

-----------------------------------------------------------------------------
(* What starting and stopping do to the processes *)

LEMMA StartKeepsDomain ==
  ASSUME DOMAIN daemon = Daemon, StartLive
  PROVE  DOMAIN daemon' = Daemon
BY DEF StartLive, AttachToLive, Spawn, processVars

\* what GoTo and Finish make of a task
LEMMA GoToMoves ==
  ASSUME DOMAIN task = Task, NEW t \in Task, NEW k, NEW place, NEW c, NEW p,
         GoTo(t, k, place, c, p)
  PROVE  /\ task' = [task EXCEPT ![t] = task'[t]]
         /\ task'[t].kind = k /\ task'[t].at = place
BY DEF GoTo

LEMMA FinishMoves ==
  ASSUME DOMAIN task = Task, NEW t \in Task, NEW k, Finish(t, k)
  PROVE  /\ task' = [task EXCEPT ![t] = task'[t]]
         /\ task'[t].kind = k /\ task'[t].at = "done"
BY DEF Finish, GoTo

-----------------------------------------------------------------------------
(* The steps of tasks *)

LEMMA ExitsMoves ==
  ASSUME RequestsOnly, NEW t \in Task, Exits(t)
  PROVE  Moves(t)
<1>1. GoTo(t, task[t].kind, "dying", Nobody, task[t].pid)
  BY DEF Exits, KillPid
<1>2. UNCHANGED <<daemon, persisted, wanted, newest, aborted>>
  BY DEF Exits, toggleVars
<1> QED
  BY <1>1, <1>2, GoToMoves DEF RequestsOnly, Moves, IsRequest, Unspawned

LEMMA AfterStopMoves ==
  ASSUME RequestsOnly, NEW t \in Task, NEW k, AfterStop(t, k)
  PROVE  /\ task' = [task EXCEPT ![t] = task'[t]]
         /\ task'[t].kind = k /\ task'[t].at = "done"
         /\ \/ UNCHANGED <<persisted, wanted, newest, aborted>>
            \/ Settle(t, task'[t].kind)
BY FinishMoves DEF AfterStop, RequestsOnly, toggleVars

LEMMA StopEndsMoves ==
  ASSUME RequestsOnly, NEW t \in Task, StopEnds(t)
  PROVE  Moves(t)
<1>1. AfterStop(t, task[t].kind)
  BY DEF StopEnds
<1>2. DOMAIN daemon' = Daemon
  BY DEF StopEnds, Spawn, processVars, RequestsOnly
<1>3. t \in aborted => Unspawned' = Unspawned
  BY DEF StopEnds, RequestsOnly, IsRequest, processVars, Unspawned
<1> QED
  BY <1>1, <1>2, <1>3, AfterStopMoves DEF Moves, IsRequest

LEMMA OffRestMoves ==
  ASSUME RequestsOnly, NEW t \in Task, OffRest(t)
  PROVE  /\ task' = [task EXCEPT ![t] = task'[t]]
         /\ task'[t].kind = "Off" /\ task'[t].at \in {"exiting", "done"}
BY GoToMoves, FinishMoves DEF OffRest, KillOwn, RequestsOnly

LEMMA GivesUpMoves ==
  ASSUME RequestsOnly, NEW t \in Task, GivesUp(t)
  PROVE  /\ task' = [task EXCEPT ![t] = task'[t]]
         /\ IsRequest(t) => IsRequest(t)'
         /\ UNCHANGED <<persisted, wanted, newest>> /\ aborted' = aborted \ {t}
BY FinishMoves DEF GivesUp, RequestsOnly, IsRequest

LEMMA WaitsMoves ==
  ASSUME RequestsOnly, NEW t \in Task, Waits(t)
  PROVE  Moves(t)
<1>1. DOMAIN daemon' = Daemon
  BY DEF Waits, RequestsOnly
<1>2. Unspawned' = Unspawned
  BY DEF Waits, RequestsOnly, Unspawned, Alive
<1>3. CASE GivesUp(t)
  BY <1>1, <1>2, <1>3, GivesUpMoves DEF Moves
<1>4. CASE OffRest(t) /\ (UNCHANGED toggleVars \/ Settle(t, "Off"))
  BY <1>1, <1>2, <1>4, OffRestMoves DEF Moves, IsRequest, toggleVars
<1> QED
  BY <1>3, <1>4 DEF Waits

LEMMA PreparesMoves ==
  ASSUME RequestsOnly, NEW t \in Task, Prepares(t)
  PROVE  Moves(t)
<1>1. CASE GivesUp(t) /\ UNCHANGED processVars
  BY <1>1, GivesUpMoves DEF Moves, RequestsOnly, processVars, Unspawned
<1>2. CASE t \notin aborted /\ Settle(t, "On") /\ Finish(t, "On") /\ UNCHANGED processVars
  BY <1>2, FinishMoves DEF Moves, RequestsOnly, IsRequest, processVars
<1>3. CASE /\ t \notin aborted /\ StartLive
           /\ \/ GoTo(t, "On", "entry", Nobody, Nobody) /\ UNCHANGED toggleVars
              \/ Settle(t, "On") /\ Finish(t, "On")
  BY <1>3, StartKeepsDomain, GoToMoves, FinishMoves
  DEF Moves, RequestsOnly, IsRequest, toggleVars
<1> QED
  BY <1>1, <1>2, <1>3 DEF Prepares

LEMMA WritesEntryMoves ==
  ASSUME RequestsOnly, NEW t \in Task, WritesEntry(t)
  PROVE  Moves(t)
<1>1. DOMAIN daemon' = Daemon /\ Unspawned' = Unspawned
  BY DEF WritesEntry, processVars, RequestsOnly, Unspawned
<1>2. CASE GivesUp(t)
  BY <1>1, <1>2, GivesUpMoves DEF Moves
<1>3. CASE Settle(t, "On") /\ Finish(t, "On")
  BY <1>1, <1>3, FinishMoves DEF Moves, RequestsOnly, IsRequest
<1> QED
  BY <1>2, <1>3 DEF WritesEntry

\* what is no request may spawn: nothing of it is aborted
LEMMA CommandMoves ==
  ASSUME RequestsOnly, NEW t \in Task, ~IsRequest(t),
         task' = [task EXCEPT ![t] = task'[t]],
         UNCHANGED toggleVars, DOMAIN daemon' = Daemon
  PROVE  Moves(t)
BY DEF RequestsOnly, Moves, toggleVars

LEMMA StopBeginsMoves ==
  ASSUME RequestsOnly, NEW t \in Task, ~IsRequest(t), NEW k, k # "Off", StopBegins(t, k)
  PROVE  Moves(t)
<1>1. UNCHANGED toggleVars
  BY DEF StopBegins, AfterStop, toggleVars
<1>2. DOMAIN daemon' = Daemon
  BY DEF StopBegins, Spawn, processVars, RequestsOnly
<1>3. task' = [task EXCEPT ![t] = task'[t]]
  BY AfterStopMoves, GoToMoves DEF StopBegins, KillOwn, KillPid, RequestsOnly
<1> QED
  BY <1>1, <1>2, <1>3, CommandMoves

LEMMA FetchedMoves ==
  ASSUME RequestsOnly, NEW t \in Task, Fetched(t)
  PROVE  Moves(t)
<1>0. ~IsRequest(t)
  BY DEF Fetched, IsRequest
<1>1. CASE task[t].kind \in {"rebuild", "manage"} /\ StopBegins(t, task[t].kind)
  BY <1>0, <1>1, StopBeginsMoves
<1>2. CASE StartLive /\ Finish(t, task[t].kind) /\ UNCHANGED toggleVars
  BY <1>0, <1>2, StartKeepsDomain, FinishMoves, CommandMoves DEF RequestsOnly
<1>3. CASE Manages(t) /\ UNCHANGED toggleVars
  <2>1. Finish(t, "manage")
    BY <1>3 DEF Manages
  <2>2. DOMAIN daemon' = Daemon
    BY <1>3 DEF Manages, Spawn, processVars, RequestsOnly
  <2> QED
    BY <1>0, <1>3, <2>1, <2>2, FinishMoves, CommandMoves DEF RequestsOnly
<1>4. CASE Finish(t, task[t].kind) /\ UNCHANGED <<processVars, toggleVars>>
  BY <1>0, <1>4, FinishMoves, CommandMoves DEF RequestsOnly, processVars
<1> QED
  BY <1>1, <1>2, <1>3, <1>4 DEF Fetched

LEMMA RehydratesMoves ==
  ASSUME RequestsOnly, NEW t \in Task, Rehydrates(t)
  PROVE  Moves(t)
<1>1. ~IsRequest(t) /\ UNCHANGED toggleVars /\ GoTo(t, "manage", "fetch", Nobody, Nobody)
  BY DEF Rehydrates, IsRequest
<1>2. DOMAIN daemon' = Daemon
  BY StartKeepsDomain DEF Rehydrates, processVars, RequestsOnly
<1> QED
  BY <1>1, <1>2, GoToMoves, CommandMoves DEF RequestsOnly

LEMMA BeginMoves ==
  ASSUME RequestsOnly, NEW t \in Task, NEW k \in Commands, Begin(t, k)
  PROVE  Moves(t)
<1>1. ~IsRequest(t)
  BY DEF Begin, Begins, NextUp, Unused, IsRequest
<1>2. CASE k = "pause" /\ StopBegins(t, k)
  BY <1>1, <1>2, StopBeginsMoves
<1>3. CASE GoTo(t, k, "fetch", Nobody, Nobody) /\ UNCHANGED <<processVars, toggleVars>>
  BY <1>1, <1>3, GoToMoves, CommandMoves DEF RequestsOnly, processVars
<1> QED
  BY <1>2, <1>3 DEF Begin

LEMMA FilesChangeMoves ==
  ASSUME RequestsOnly, NEW t \in Task, FilesChange(t)
  PROVE  Moves(t)
<1>1. ~IsRequest(t)
  BY DEF FilesChange, Begins, NextUp, Unused, IsRequest
<1>2. GoTo(t, "auto", "fetch", Nobody, Nobody) /\ UNCHANGED <<daemon, toggleVars>>
  BY DEF FilesChange, processVars
<1> QED
  BY <1>1, <1>2, GoToMoves, CommandMoves DEF RequestsOnly

-----------------------------------------------------------------------------
(* Requests and reloads *)

LEMMA PressOnKeeps ==
  ASSUME RequestsOnly, NEW t \in Task, PressOn(t)
  PROVE  RequestsOnly' /\ OnlyNewest
<1>1. GoTo(t, "On", "prepare", Nobody, Nobody) /\ UNCHANGED <<persisted, daemon>>
  BY DEF PressOn, processVars
<1>2. /\ aborted' = IF wanted = Nothing THEN aborted ELSE aborted \cup {newest}
      /\ newest' = t
  BY DEF PressOn, Request
<1>3. DOMAIN task' = Task /\ IsRequest(t)' /\ t # 0
  BY <1>1 DEF GoTo, RequestsOnly, IsRequest, Task
<1>4. \A u \in Task : IsRequest(u) => IsRequest(u)'
  BY <1>1, <1>3 DEF GoTo, RequestsOnly, IsRequest
<1> QED
  BY <1>1, <1>2, <1>3, <1>4 DEF RequestsOnly, OnlyNewest, Unspawned

LEMMA PressOffKeeps ==
  ASSUME RequestsOnly, NEW t \in Task, PressOff(t)
  PROVE  RequestsOnly' /\ OnlyNewest
<1>1. UNCHANGED daemon
  BY DEF PressOff
<1>2. /\ aborted' = IF wanted = Nothing THEN aborted ELSE aborted \cup {newest}
      /\ newest' = t
  BY DEF PressOff, Request
<1>3. /\ task' = [task EXCEPT ![t] = task'[t]]
      /\ task'[t].kind = "Off" /\ task'[t].at \in {"waiting", "exiting", "done"}
  BY OffRestMoves, GoToMoves DEF PressOff, RequestsOnly
<1>4. persisted' = persisted \/ persisted' = "Off"
  BY DEF PressOff
<1>5. DOMAIN task' = Task /\ IsRequest(t)' /\ t # 0
  BY <1>3 DEF RequestsOnly, IsRequest, Task
<1>6. \A u \in Task : IsRequest(u) => IsRequest(u)'
  BY <1>3, <1>5 DEF RequestsOnly, IsRequest
<1> QED
  BY <1>1, <1>2, <1>3, <1>4, <1>5, <1>6 DEF RequestsOnly, OnlyNewest, Unspawned

LEMMA ReloadKeeps ==
  ASSUME RequestsOnly, NEW t \in Task, NEW how, Reload(t, how)
  PROVE  RequestsOnly' /\ OnlyNewest
BY DEF Reload, RequestsOnly, OnlyNewest, Unspawned

-----------------------------------------------------------------------------
\* The invariant is kept, and every step does what NewestSettles asks.
LEMMA StepKeeps == RequestsOnly /\ [ExtNext]_extVars => RequestsOnly' /\ OnlyNewest
<1> SUFFICES ASSUME RequestsOnly, [ExtNext]_extVars PROVE RequestsOnly' /\ OnlyNewest
  OBVIOUS
<1>1. CASE DaemonNext
  BY <1>1, ProcessesAside, AsideKeeps
<1>2. CASE WindowNext \/ Refreshes \/ Observes
  BY <1>2, EventsAside, AsideKeeps
<1>3. ASSUME NEW t \in Task, TaskNext(t) PROVE RequestsOnly' /\ OnlyNewest
  <2>1. Moves(t)
    BY <1>3, ExitsMoves, StopEndsMoves, WaitsMoves, PreparesMoves, WritesEntryMoves,
       FetchedMoves, RehydratesMoves
    DEF TaskNext
  <2> QED
    BY <2>1, MovesKeeps
<1>4. CASE UserNext
  BY <1>4, PressOnKeeps, PressOffKeeps, BeginMoves, FilesChangeMoves, MovesKeeps, ReloadKeeps
  DEF UserNext
<1>5. CASE UNCHANGED extVars
  <2>1. Aside
    BY <1>5 DEF extVars, toggleVars, processVars, Aside, RequestsOnly
  <2> QED
    BY <2>1, AsideKeeps
<1> QED
  BY <1>1, <1>2, <1>3, <1>4, <1>5 DEF ExtNext

\* However many requests overlap with whatever commands and reloads: the toggle stores
\* only what was asked for last, and a superseded request spawns no daemon.
THEOREM NewestAlwaysSettles == ExtSpec => NewestSettles
<1>1. ExtInit => RequestsOnly
  BY InitRequests
<1>2. RequestsOnly /\ [ExtNext]_extVars => RequestsOnly'
  BY StepKeeps
<1>3. RequestsOnly /\ [ExtNext]_extVars =>
        [/\ persisted' # persisted => newest' # 0 /\ persisted' = task'[newest'].kind
         /\ \A t \in aborted : task'[t] # task[t] => Unspawned' = Unspawned]_extVars
  BY StepKeeps DEF OnlyNewest
<1> QED
  BY <1>1, <1>2, <1>3, PTL DEF ExtSpec, NewestSettles

-----------------------------------------------------------------------------
(* The types of the window, by what they are about *)

Leases == NoneOr([pid : Daemon, by : {"daemon", "extension"}, fresh : BOOLEAN])
Reported == NoneOr([pid : Daemon, active : BOOLEAN])
Handles == NoneOr([own : BOOLEAN, id : Daemon])

Processes ==
  /\ daemon \in [Daemon -> {"none", "started", "opening", "watching", "ended"}]
  /\ told \subseteq Daemon /\ beating \subseteq Daemon
  /\ lease \in Leases
  /\ statusFile \in Reported
  /\ handle \in Handles
  /\ pidOf \in [Daemon -> Daemon]
  /\ started \subseteq {d \in Daemon : daemon[d] # "none"} /\ killed \subseteq started
  /\ (handle # Nothing /\ handle.own => handle.id \in started)

Toggle ==
  /\ persisted \in {"On", "Off"} /\ wanted \in NoneOr({"On", "Off"})
  /\ newest \in 0..MaxTasks /\ aborted \subseteq Task
  /\ transitioning \in BOOLEAN

Flags == /\ entry \in BOOLEAN /\ restoring \in BOOLEAN /\ watching \in BOOLEAN
         /\ paused \in BOOLEAN /\ calm \in BOOLEAN

\* a task at one of these stages waits for the process with its pid
Awaits == Stopping \cup {"waiting"}

Placed(r) ==
  /\ r.at \in Active \cup {"unused", "done"}
  /\ r.child \in Daemon \cup {Nobody} /\ r.pid \in Daemon \cup {Nobody}
  /\ (r.at \in Awaits => r.pid \in Daemon)
  /\ (r.at = "exiting" => r.child \in Daemon)

Tasks == DOMAIN task = Task /\ \A t \in Task : Placed(task[t])

Typing == Processes /\ Toggle /\ Flags /\ Tasks

LEMMA TypingIsType == Typing => ExtTypeOK
BY DEF Typing, Processes, Leases, Reported, Handles, Toggle, Flags, Tasks, Placed, ExtTypeOK

LEMMA RecordTypes ==
  /\ Nothing \in Leases /\ Nothing \in Reported /\ Nothing \in Handles
  /\ \A d \in Daemon, b \in BOOLEAN :
       /\ [pid |-> d, by |-> "daemon", fresh |-> b] \in Leases
       /\ [pid |-> d, by |-> "extension", fresh |-> b] \in Leases
       /\ [pid |-> d, active |-> b] \in Reported
       /\ [own |-> b, id |-> d] \in Handles
BY DEF Leases, Reported, Handles, NoneOr

\* what is there and has fields
LEMMA FieldTypes ==
  /\ \A l \in Leases : l # Nothing => l.pid \in Daemon /\ [l EXCEPT !.fresh = FALSE] \in Leases
  /\ \A s \in Reported : s # Nothing => s.pid \in Daemon
  /\ \A h \in Handles : h # Nothing =>
       h.id \in Daemon /\ h.own \in BOOLEAN /\ \A d \in Daemon : [h EXCEPT !.id = d] \in Handles
BY DEF Leases, Reported, Handles, NoneOr

LEMMA NoTask == 0 \in 0..MaxTasks
BY ExtensionAssumption

LEMMA InitTyping == ExtInit => Typing
<1> SUFFICES ASSUME ExtInit PROVE Typing
  OBVIOUS
<1>1. Processes
  BY RecordTypes, FieldTypes DEF ExtInit, Processes
<1>2. Toggle
  BY NoTask DEF ExtInit, Toggle, NoneOr
<1>3. Flags
  BY DEF ExtInit, Flags
<1>4. Tasks
  BY DEF ExtInit, Tasks, Placed, Unused, Awaits, Stopping
<1> QED
  BY <1>1, <1>2, <1>3, <1>4 DEF Typing

\* no process is unborn
Live == /\ daemon' \in [Daemon -> {"none", "started", "opening", "watching", "ended"}]
        /\ \A d \in Daemon : daemon[d] # "none" => daemon'[d] # "none"

LEMMA RecordedType ==
  ASSUME Processes, NEW d \in Daemon
  PROVE  /\ Recorded(d) \in Leases
         /\ RemovedFor(d) \in Leases
BY RecordTypes, FieldTypes DEF Processes, Recorded, RemovedFor

LEMMA LookedType ==
  ASSUME Processes
  PROVE  Looked \in Leases
<1>1. CASE StatusAlive
  <2>1. statusFile.pid \in Daemon
    BY <1>1, RecordTypes, FieldTypes DEF StatusAlive, Processes
  <2> QED
    BY <2>1, RecordedType DEF Looked, Processes
<1> QED
  BY <1>1 DEF Looked, Processes

LEMMA HandlePidType ==
  ASSUME Processes, handle # Nothing
  PROVE  handle.id \in Daemon /\ HandlePid \in Daemon
BY RecordTypes, FieldTypes DEF Processes, HandlePid

LEMMA RefreshedTypes ==
  ASSUME Processes
  PROVE  /\ RefreshedHandle \in Handles
         /\ RefreshedPid \in [Daemon -> Daemon]
         /\ (RefreshedHandle # Nothing /\ RefreshedHandle.own => RefreshedHandle = handle)
BY RecordTypes, FieldTypes DEF Processes, RefreshedHandle, RefreshedPid

-----------------------------------------------------------------------------
(* Processes *)

LEMMA DaemonTypes == Typing /\ DaemonNext => Typing'
<1> SUFFICES ASSUME Typing, DaemonNext PROVE Typing'
  OBVIOUS
<1>1. Toggle' /\ Flags' /\ Tasks'
  BY DEF DaemonNext, Acquires, Beats, Reports, Stops, FailsToOpen, Dies, Lapses,
         toggleVars, couplingVars, Typing, Toggle, Flags, Tasks
<1> USE RecordTypes, FieldTypes DEF Typing, Processes
<1>2. ASSUME NEW d \in Daemon, Ends(d),
             lease' \in {lease, Nothing}, statusFile' \in {statusFile, [pid |-> d, active |-> FALSE]},
             UNCHANGED handleVars
      PROVE  Processes'
  <2>1. lease' \in Leases
    BY <1>2
  <2>2. statusFile' \in Reported
    BY <1>2
  <2> QED
    BY <1>2, <2>1, <2>2 DEF Ends, handleVars
<1>3. ASSUME NEW d \in Daemon, Acquires(d) PROVE Processes'
  BY <1>3 DEF Acquires, OwnRecord, handleVars
<1>4. ASSUME NEW d \in Daemon, Beats(d) PROVE Processes'
  BY <1>4 DEF Beats, OwnRecord, handleVars
<1>5. ASSUME NEW d \in Daemon, Reports(d) PROVE Processes'
  BY <1>5 DEF Reports, handleVars
<1>6. CASE Lapses
  BY <1>1, <1>6 DEF Lapses, handleVars, processVars
<1>7. ASSUME NEW d \in Daemon, Stops(d) \/ FailsToOpen(d) \/ Dies(d) PROVE Processes'
  BY <1>7, <1>2 DEF Stops, FailsToOpen, Dies, Released, extFiles
<1> QED
  BY <1>1, <1>3, <1>4, <1>5, <1>6, <1>7 DEF DaemonNext

LEMMA SpawnTypes ==
  ASSUME Processes, NEW there, Spawn(there)
  PROVE  Processes'
<1>1. PICK d \in Unspawned :
        /\ handle' = [own |-> TRUE, id |-> d]
        /\ started' = started \cup {d}
        /\ \/ /\ daemon' = [daemon EXCEPT ![d] = "started"] /\ UNCHANGED beating
              /\ lease' = [pid |-> d, by |-> "extension", fresh |-> TRUE]
           \/ /\ daemon' = [daemon EXCEPT ![d] = "opening"] /\ beating' = beating \cup {d}
              /\ lease' \in [pid : {d}, by : {"daemon", "extension"}, fresh : {TRUE}]
        /\ UNCHANGED <<told, statusFile, pidOf, killed>>
  BY DEF Spawn
<1>2. d \in Daemon
  BY DEF Unspawned
<1>3. lease' \in Leases
  <2>1. CASE lease' = [pid |-> d, by |-> "extension", fresh |-> TRUE]
    BY <1>2, <2>1, RecordTypes
  <2>2. CASE lease' \in [pid : {d}, by : {"daemon", "extension"}, fresh : {TRUE}]
    <3>1. lease' \in [pid : Daemon, by : {"daemon", "extension"}, fresh : BOOLEAN]
      BY <1>2, <2>2
    <3> QED
      BY <3>1 DEF Leases, NoneOr
  <2> QED
    BY <1>1, <2>1, <2>2
<1>4. handle' \in Handles
  BY <1>1, <1>2, RecordTypes
<1>5. started' \subseteq {e \in Daemon : daemon'[e] # "none"} /\ killed' \subseteq started'
  <2>1. \A e \in started' : e \in Daemon /\ daemon'[e] # "none"
    BY <1>1, <1>2 DEF Processes
  <2> QED
    BY <1>1, <2>1 DEF Processes
<1>6. /\ daemon' \in [Daemon -> {"none", "started", "opening", "watching", "ended"}]
      /\ beating' \subseteq Daemon /\ UNCHANGED <<told, statusFile, pidOf>>
  BY <1>1, <1>2 DEF Processes
<1>7. handle'.id \in started'
  BY <1>1
<1> QED
  BY <1>3, <1>4, <1>5, <1>6, <1>7 DEF Processes

LEMMA AttachTypes ==
  ASSUME Processes, AttachToLive
  PROVE  Processes'
<1>1. UNCHANGED <<daemon, told, beating, statusFile, started, killed>>
  BY DEF AttachToLive, processVars
<1>2. lease' \in Leases
  <2>1. CASE StatusAlive
    <3>1. statusFile.pid \in Daemon
      BY <2>1, RecordTypes, FieldTypes DEF StatusAlive, Processes
    <3> QED
      BY <2>1, <3>1, RecordedType DEF AttachToLive
  <2> QED
    BY <2>1 DEF AttachToLive, Processes
<1>3. /\ handle' \in Handles /\ pidOf' \in [Daemon -> Daemon]
      /\ (handle' # Nothing /\ handle'.own => handle' = handle)
  <2>1. CASE StatusAlive /\ ~HandleRunning
    BY <2>1, RecordTypes, FieldTypes DEF AttachToLive, StatusAlive, Processes
  <2> QED
    BY <2>1, RefreshedTypes DEF AttachToLive
<1> QED
  BY <1>1, <1>2, <1>3 DEF Processes

LEMMA StartTypes ==
  ASSUME Processes, StartLive
  PROVE  Processes'
BY SpawnTypes, AttachTypes DEF StartLive

\* of what is killed only processes of this window are remembered
LEMMA KillOwnTypes ==
  ASSUME Processes, Live, NEW t, NEW k, handle # Nothing, handle.own, KillOwn(t, k, handle.id)
  PROVE  Processes'
<1>1. handle.id \in started /\ handle.id \in Daemon
  BY RecordTypes, FieldTypes DEF Processes
<1> QED
  BY <1>1 DEF KillOwn, Processes, Live, extFiles

LEMMA KillPidTypes ==
  ASSUME Processes, UNCHANGED daemon, NEW t, NEW k, NEW place, NEW p \in Daemon, KillPid(t, k, place, p)
  PROVE  Processes'
BY DEF KillPid, Processes, extFiles, handleVars

-----------------------------------------------------------------------------
(* Tasks *)

LEMMA GoToPlaces ==
  ASSUME Tasks, NEW t \in Task, NEW k, NEW place, NEW c, NEW p, GoTo(t, k, place, c, p),
         Placed([kind |-> k, at |-> place, child |-> c, pid |-> p])
  PROVE  Tasks'
BY DEF GoTo, Tasks

LEMMA FinishPlaces ==
  ASSUME Tasks, NEW t \in Task, NEW k, Finish(t, k)
  PROVE  Tasks'
<1>1. Placed([kind |-> k, at |-> "done", child |-> Nobody, pid |-> Nobody])
  BY DEF Placed, Awaits, Stopping
<1> QED
  BY <1>1, GoToPlaces DEF Finish

\* a task that waits for nothing yet
LEMMA StagePlaces ==
  ASSUME Tasks, NEW t \in Task, NEW k, NEW place \in {"prepare", "entry", "fetch", "rehydrate"},
         GoTo(t, k, place, Nobody, Nobody)
  PROVE  Tasks'
<1>1. Placed([kind |-> k, at |-> place, child |-> Nobody, pid |-> Nobody])
  BY DEF Placed, Awaits, Stopping, Active
<1> QED
  BY <1>1, GoToPlaces

LEMMA KillOwnPlaces ==
  ASSUME Typing, NEW t \in Task, NEW k, handle # Nothing, KillOwn(t, k, handle.id)
  PROVE  Tasks'
<1>1. handle.id \in Daemon /\ HandlePid \in Daemon
  BY HandlePidType DEF Typing
<1>2. Placed([kind |-> k, at |-> "exiting", child |-> handle.id, pid |-> HandlePid])
  BY <1>1 DEF Placed, Awaits, Stopping, Active
<1> QED
  BY <1>2, GoToPlaces DEF KillOwn, Typing

LEMMA KillPidPlaces ==
  ASSUME Tasks, NEW t \in Task, NEW k, NEW place \in {"dying", "orphan"}, NEW p \in Daemon,
         KillPid(t, k, place, p)
  PROVE  Tasks'
<1>1. Placed([kind |-> k, at |-> place, child |-> Nobody, pid |-> p])
  BY DEF Placed, Awaits, Stopping, Active
<1> QED
  BY <1>1, GoToPlaces DEF KillPid

LEMMA SettleTypes ==
  ASSUME Toggle, NEW t, NEW k \in {"On", "Off"}, Settle(t, k)
  PROVE  Toggle'
BY DEF Toggle, Settle, NoneOr

LEMMA GivesUpTypes ==
  ASSUME Toggle, Tasks, NEW t \in Task, GivesUp(t)
  PROVE  Toggle' /\ Tasks'
<1>1. Toggle'
  BY DEF Toggle, GivesUp
<1> QED
  BY <1>1, FinishPlaces DEF GivesUp

LEMMA AfterStopTypes ==
  ASSUME Toggle, Tasks, NEW t \in Task, NEW k, AfterStop(t, k)
  PROVE  Toggle' /\ Tasks'
<1>1. Toggle'
  BY SettleTypes DEF AfterStop, toggleVars, Toggle
<1> QED
  BY <1>1, FinishPlaces DEF AfterStop

LEMMA StopBeginsTypes ==
  ASSUME Typing, NEW t \in Task, NEW k, StopBegins(t, k)
  PROVE  Processes' /\ Toggle' /\ Tasks'
<1> USE DEF Typing
<1>1. CASE handle # Nothing
  <2>1. UNCHANGED <<daemon, toggleVars>>
    BY <1>1 DEF StopBegins
  <2>2. Toggle' /\ Live
    BY <2>1 DEF Toggle, toggleVars, Live, Processes
  <2>3. CASE handle.own
    <3>1. KillOwn(t, k, handle.id)
      BY <1>1, <2>3 DEF StopBegins
    <3> QED
      BY <1>1, <2>2, <2>3, <3>1, KillOwnTypes, KillOwnPlaces
  <2>4. CASE ~handle.own
    <3>1. KillPid(t, k, "dying", handle.id) /\ handle.id \in Daemon
      BY <1>1, <2>4, HandlePidType DEF StopBegins
    <3> QED
      BY <2>1, <2>2, <3>1, KillPidTypes, KillPidPlaces
  <2> QED
    BY <2>3, <2>4
<1>2. CASE handle = Nothing /\ statusFile # Nothing /\ Alive(statusFile.pid)
  <2>1. UNCHANGED <<daemon, toggleVars>> /\ KillPid(t, k, "orphan", statusFile.pid)
    BY <1>2 DEF StopBegins
  <2>2. statusFile.pid \in Daemon
    BY <1>2, RecordTypes, FieldTypes DEF Processes
  <2>3. Toggle'
    BY <2>1 DEF Toggle, toggleVars
  <2> QED
    BY <2>1, <2>2, <2>3, KillPidTypes, KillPidPlaces
<1>3. CASE handle = Nothing /\ ~(statusFile # Nothing /\ Alive(statusFile.pid))
  <2>1. AfterStop(t, k) /\ (Spawn(lease) \/ UNCHANGED <<processVars, extFiles, handleVars>>)
    BY <1>3 DEF StopBegins
  <2>2. UNCHANGED <<processVars, extFiles, handleVars>> => Processes'
    BY DEF Processes, processVars, extFiles, handleVars
  <2> QED
    BY <2>1, <2>2, SpawnTypes, AfterStopTypes
<1> QED
  BY <1>1, <1>2, <1>3

-----------------------------------------------------------------------------
(* The steps of tasks, of the user and of the window *)

LEMMA SameProcesses ==
  ASSUME Processes, UNCHANGED <<processVars, extFiles, handleVars>>
  PROVE  Processes'
BY DEF Processes, processVars, extFiles, handleVars

LEMMA ExitsTypes ==
  ASSUME Typing, NEW t \in Task, Exits(t)
  PROVE  Typing'
<1>1. task[t].pid \in Daemon
  BY DEF Exits, Typing, Tasks, Placed, Awaits, Stopping
<1>2. KillPid(t, task[t].kind, "dying", task[t].pid) /\ UNCHANGED <<daemon, toggleVars, couplingVars, paused>>
  BY DEF Exits
<1>3. Processes' /\ Tasks'
  BY <1>1, <1>2, KillPidTypes, KillPidPlaces DEF Typing
<1>4. calm' \in BOOLEAN
  BY DEF Exits, InTime
<1> QED
  BY <1>2, <1>3, <1>4 DEF Typing, Toggle, Flags, toggleVars, couplingVars

LEMMA StopEndsTypes ==
  ASSUME Typing, NEW t \in Task, StopEnds(t)
  PROVE  Typing'
<1>1. task[t].pid \in Daemon
  BY DEF StopEnds, Typing, Tasks, Placed, Awaits, Stopping
<1>2. Processes'
  <2>1. CASE Spawn(RemovedFor(task[t].pid))
    BY <2>1, SpawnTypes DEF Typing
  <2>2. CASE /\ lease' = RemovedFor(task[t].pid)
             /\ handle' = IF task[t].at = "orphan" THEN handle ELSE Nothing
             /\ UNCHANGED <<processVars, statusFile, pidOf, started, killed>>
    BY <1>1, <2>2, RecordedType, RecordTypes, FieldTypes DEF Typing, Processes, processVars
  <2> QED
    BY <2>1, <2>2 DEF StopEnds
<1>3. Toggle' /\ Tasks'
  BY AfterStopTypes DEF StopEnds, Typing
<1>4. calm' \in BOOLEAN
  BY DEF StopEnds, InTime
<1> QED
  BY <1>2, <1>3, <1>4 DEF StopEnds, Typing, Flags, couplingVars

LEMMA OffRestTypes ==
  ASSUME Typing, Live, NEW t \in Task, OffRest(t)
  PROVE  Processes' /\ Tasks' /\ entry' = FALSE
<1>1. CASE OwnLeft
  <2>1. KillOwn(t, "Off", handle.id) /\ handle # Nothing /\ handle.own
    BY <1>1 DEF OffRest, OwnLeft
  <2> QED
    BY <2>1, KillOwnTypes, KillOwnPlaces DEF Typing, OffRest
<1>2. CASE ~OwnLeft
  <2>1. /\ handle' = Nothing /\ Finish(t, "Off") /\ entry' = FALSE
        /\ UNCHANGED <<told, beating, extFiles, pidOf, started, killed>>
    BY <1>2 DEF OffRest
  <2> QED
    BY <2>1, FinishPlaces, RecordTypes, FieldTypes DEF Typing, Processes, Live, extFiles
<1> QED
  BY <1>1, <1>2

LEMMA RequestTypes ==
  ASSUME Typing, RequestsOnly, NEW t \in Task, NEW k, Request(t, k)
  PROVE  aborted' \subseteq Task /\ newest' \in 0..MaxTasks /\ calm' \in BOOLEAN
BY ExtensionAssumption DEF Request, Typing, Toggle, RequestsOnly, InTime, Task

LEMMA PressOnTypes ==
  ASSUME Typing, RequestsOnly, NEW t \in Task, PressOn(t)
  PROVE  Typing'
<1>1. Processes' /\ Tasks'
  BY SameProcesses, StagePlaces DEF PressOn, Typing
<1>2. Toggle' /\ Flags'
  BY RequestTypes DEF PressOn, Typing, Toggle, Flags, couplingVars, NoneOr
<1> QED
  BY <1>1, <1>2 DEF Typing

LEMMA PressOffTypes ==
  ASSUME Typing, RequestsOnly, NEW t \in Task, PressOff(t)
  PROVE  Typing'
<1>1. Live
  BY DEF PressOff, Live, Typing, Processes
<1>2. Processes' /\ Tasks' /\ entry' \in BOOLEAN
  <2>1. CASE StartedPid # Nobody
    <3>1. StartedPid \in Daemon
      BY <2>1, HandlePidType DEF StartedPid, Typing
    <3>2. Placed([kind |-> "Off", at |-> "waiting", child |-> Nobody, pid |-> StartedPid])
      BY <3>1 DEF Placed, Awaits, Stopping, Active
    <3>3. Tasks'
      BY <2>1, <3>2, GoToPlaces DEF PressOff, Typing
    <3> QED
      BY <2>1, <3>1, <3>3 DEF PressOff, Typing, Processes, Flags, extFiles, handleVars
  <2>2. CASE StartedPid = Nobody
    BY <1>1, <2>2, OffRestTypes DEF PressOff
  <2> QED
    BY <2>1, <2>2
<1>3. Toggle' /\ Flags'
  BY <1>2, RequestTypes DEF PressOff, Typing, Toggle, Flags, NoneOr
<1> QED
  BY <1>2, <1>3 DEF Typing

LEMMA WaitsTypes ==
  ASSUME Typing, NEW t \in Task, Waits(t)
  PROVE  Typing'
<1>1. Live
  <2>1. task[t].pid \in Daemon
    BY DEF Waits, Typing, Tasks, Placed, Awaits
  <2> QED
    BY <2>1 DEF Waits, Live, Typing, Processes, Alive
<1>2. CASE GivesUp(t) /\ UNCHANGED <<told, beating, extFiles, handleVars, entry>>
  <2>1. Processes'
    BY <1>1, <1>2 DEF Typing, Processes, Live, extFiles, handleVars
  <2> QED
    BY <1>2, <2>1, GivesUpTypes DEF Waits, Typing, Flags
<1>3. CASE OffRest(t) /\ (UNCHANGED toggleVars \/ Settle(t, "Off"))
  <2>1. Toggle'
    BY <1>3, SettleTypes DEF Typing, Toggle, toggleVars
  <2> QED
    BY <1>1, <1>3, <2>1, OffRestTypes DEF Waits, Typing, Flags
<1> QED
  BY <1>2, <1>3 DEF Waits

LEMMA PreparesTypes ==
  ASSUME Typing, NEW t \in Task, Prepares(t)
  PROVE  Typing'
<1>1. Flags'
  BY DEF Prepares, Typing, Flags, couplingVars
<1>2. CASE GivesUp(t) /\ UNCHANGED <<processVars, extFiles, handleVars>>
  BY <1>1, <1>2, SameProcesses, GivesUpTypes DEF Typing
<1>3. CASE Settle(t, "On") /\ Finish(t, "On") /\ (StartLive \/ UNCHANGED <<processVars, extFiles, handleVars>>)
  BY <1>1, <1>3, SameProcesses, StartTypes, SettleTypes, FinishPlaces DEF Typing
<1>4. CASE StartLive /\ GoTo(t, "On", "entry", Nobody, Nobody) /\ UNCHANGED toggleVars
  <2>1. Toggle'
    BY <1>4 DEF Typing, Toggle, toggleVars
  <2> QED
    BY <1>1, <1>4, <2>1, StartTypes, StagePlaces DEF Typing
<1> QED
  BY <1>2, <1>3, <1>4 DEF Prepares

LEMMA WritesEntryTypes ==
  ASSUME Typing, NEW t \in Task, WritesEntry(t)
  PROVE  Typing'
<1>1. Processes' /\ Flags'
  BY SameProcesses DEF WritesEntry, Typing, Flags
<1>2. Toggle' /\ Tasks'
  BY GivesUpTypes, SettleTypes, FinishPlaces DEF WritesEntry, Typing
<1> QED
  BY <1>1, <1>2 DEF Typing

LEMMA BeginTypes ==
  ASSUME Typing, NEW t \in Task, NEW k \in Commands, Begin(t, k)
  PROVE  Typing'
<1>1. Flags'
  BY DEF Begin, Typing, Flags, couplingVars, InTime
<1>2. CASE k = "pause"
  BY <1>1, <1>2, StopBeginsTypes DEF Begin, Typing
<1>3. CASE k # "pause"
  <2>1. GoTo(t, k, "fetch", Nobody, Nobody) /\ UNCHANGED <<processVars, extFiles, handleVars, toggleVars>>
    BY <1>3 DEF Begin
  <2>2. Toggle'
    BY <2>1 DEF Typing, Toggle, toggleVars
  <2> QED
    BY <1>1, <2>1, <2>2, SameProcesses, StagePlaces DEF Typing
<1> QED
  BY <1>2, <1>3

LEMMA FilesChangeTypes ==
  ASSUME Typing, NEW t \in Task, FilesChange(t)
  PROVE  Typing'
<1>1. Flags'
  BY DEF FilesChange, Typing, Flags, couplingVars, InTime
<1>2. Toggle'
  BY DEF FilesChange, Typing, Toggle, toggleVars
<1>3. Processes' /\ Tasks'
  BY SameProcesses, StagePlaces DEF FilesChange, Typing
<1> QED
  BY <1>1, <1>2, <1>3 DEF Typing

LEMMA FetchedTypes ==
  ASSUME Typing, NEW t \in Task, Fetched(t)
  PROVE  Typing'
<1>1. Flags'
  BY DEF Fetched, Typing, Flags, couplingVars
<1>2. CASE StopBegins(t, task[t].kind)
  BY <1>1, <1>2, StopBeginsTypes DEF Typing
<1>3. CASE UNCHANGED toggleVars /\ Processes' /\ \E k : Finish(t, k)
  <2>1. Toggle'
    BY <1>3 DEF Typing, Toggle, toggleVars
  <2> QED
    BY <1>1, <1>3, <2>1, FinishPlaces DEF Typing
<1>4. CASE Manages(t) /\ UNCHANGED toggleVars
  <2>1. \E k : Finish(t, k)
    BY <1>4 DEF Manages
  <2>2. CASE UNCHANGED <<processVars, extFiles, handleVars>>
    BY <1>3, <1>4, <2>1, <2>2, SameProcesses DEF Typing
  <2>3. CASE lease' = Looked /\ UNCHANGED <<processVars, statusFile, handleVars>>
    <3>1. Processes'
      BY <2>3, LookedType DEF Typing, Processes, processVars, handleVars
    <3> QED
      BY <1>3, <1>4, <2>1, <3>1
  <2>4. CASE Spawn(lease)
    BY <1>3, <1>4, <2>1, <2>4, SpawnTypes DEF Typing
  <2> QED
    BY <1>4, <2>2, <2>3, <2>4 DEF Manages
<1>5. CASE /\ Finish(t, task[t].kind) /\ UNCHANGED toggleVars
           /\ StartLive \/ UNCHANGED <<processVars, extFiles, handleVars>>
  BY <1>3, <1>5, StartTypes, SameProcesses DEF Typing
<1> QED
  BY <1>2, <1>4, <1>5 DEF Fetched

LEMMA ReloadTypes ==
  ASSUME Typing, NEW t \in Task, NEW how, Reload(t, how)
  PROVE  Typing'
<1>1. Tasks'
  <2>1. ASSUME NEW u \in Task
        PROVE  /\ task'[u].at \in {"rehydrate", "unused", "done"}
               /\ task'[u].child = Nobody /\ task'[u].pid = Nobody
    <3>1. CASE u = t
      BY <3>1 DEF Reload, Unused
    <3>2. CASE u # t /\ task[u] = Unused
      BY <3>2 DEF Reload, Unused
    <3>3. CASE u # t /\ task[u] # Unused
      BY <3>3 DEF Reload, Unused
    <3> QED
      BY <3>1, <3>2, <3>3
  <2>2. \A u \in Task : Placed(task'[u])
    BY <2>1 DEF Placed, Awaits, Stopping, Active
  <2> QED
    BY <2>2 DEF Tasks, Reload
<1>2. Processes'
  <2>1. /\ told' \subseteq Daemon
        /\ lease' \in Leases
    <3>1. CASE how = "orderly" /\ handle # Nothing
      BY <3>1, HandlePidType, RecordedType DEF Reload, Typing, Processes
    <3> QED
      BY <3>1 DEF Reload, Typing, Processes
  <2>2. pidOf' \in [Daemon -> Daemon]
    BY DEF Reload
  <2> QED
    BY <2>1, <2>2, RecordTypes, FieldTypes DEF Reload, Typing, Processes
<1>3. Toggle'
  BY NoTask DEF Reload, Typing, Toggle, NoneOr
<1>4. Flags'
  BY DEF Reload, Typing, Flags
<1> QED
  BY <1>1, <1>2, <1>3, <1>4 DEF Typing

LEMMA RehydratesTypes ==
  ASSUME Typing, NEW t \in Task, Rehydrates(t)
  PROVE  Typing'
<1>1. Processes'
  BY StartTypes, SameProcesses DEF Rehydrates, Typing
<1>2. Tasks'
  BY StagePlaces DEF Rehydrates, Typing
<1>3. Toggle' /\ Flags'
  BY DEF Rehydrates, Typing, Toggle, Flags, toggleVars
<1> QED
  BY <1>1, <1>2, <1>3 DEF Typing

LEMMA EventTypes == Typing /\ (WindowNext \/ Refreshes \/ Observes) => Typing'
<1> SUFFICES ASSUME Typing, WindowNext \/ Refreshes \/ Observes PROVE Typing'
  OBVIOUS
<1>1. Toggle' /\ Tasks' /\ Flags'
  BY DEF WindowNext, Close, Ticks, Restores, Refreshes, Observes, toggleVars, couplingVars,
         Typing, Toggle, Tasks, Flags
<1>2. ASSUME NEW d \in Daemon, Close(d) PROVE Processes'
  <2>1. pidOf[d] \in Daemon
    BY DEF Typing, Processes
  <2> QED
    BY <1>2, <2>1, RecordedType, RecordTypes, FieldTypes DEF Close, Typing, Processes, processVars
<1>3. CASE Ticks \/ Observes
  BY <1>1, <1>3, LookedType DEF Ticks, Observes, Typing, Processes, processVars, handleVars
<1>4. CASE Restores
  BY <1>1, <1>4, SameProcesses DEF Restores, Typing
<1>5. CASE Refreshes
  BY <1>1, <1>5, RefreshedTypes DEF Refreshes, Typing, Processes, processVars, extFiles
<1> QED
  BY <1>1, <1>2, <1>3, <1>4, <1>5 DEF WindowNext, Typing

LEMMA TypingStep == RequestsOnly /\ Typing /\ [ExtNext]_extVars => Typing'
<1> SUFFICES ASSUME RequestsOnly, Typing, [ExtNext]_extVars PROVE Typing'
  OBVIOUS
<1>1. CASE DaemonNext
  BY <1>1, DaemonTypes
<1>2. CASE WindowNext \/ Refreshes \/ Observes
  BY <1>2, EventTypes
<1>3. ASSUME NEW t \in Task, TaskNext(t) PROVE Typing'
  BY <1>3, ExitsTypes, StopEndsTypes, WaitsTypes, PreparesTypes, WritesEntryTypes,
     FetchedTypes, RehydratesTypes
  DEF TaskNext
<1>4. CASE UserNext
  BY <1>4, PressOnTypes, PressOffTypes, BeginTypes, FilesChangeTypes, ReloadTypes DEF UserNext
<1>5. CASE UNCHANGED extVars
  <2>1. Processes'
    BY <1>5, SameProcesses DEF extVars, Typing
  <2> QED
    BY <1>5, <2>1 DEF extVars, toggleVars, couplingVars, Typing, Toggle, Flags, Tasks
<1> QED
  BY <1>1, <1>2, <1>3, <1>4, <1>5 DEF ExtNext

-----------------------------------------------------------------------------
(* CalmControl is not inductive: a calm window holds every process there is, and *)
(* where its one busy task stands says what has become of it.                    *)

\* every process was spawned by this window, which has a handle of it
Held ==
  /\ \A d \in Daemon : Alive(d) => d \in started
  /\ IF handle = Nothing THEN started = {} ELSE handle.own /\ started = {handle.id}

Busy(t) == task[t].at \in Active

\* On is what Off takes back; what starts a daemon otherwise came after the newest request;
\* a wait for an exit is a wait for the one there is
Staged(t) ==
  /\ task[t].kind \in {"On", "Off"} => t = newest
  /\ task[t].kind = "Off" => persisted = "On"
  /\ task[t].kind \in {"rebuild", "resume", "auto"} => t > newest
  /\ \/ task[t].at \in {"prepare", "entry"} /\ task[t].kind = "On"
     \/ task[t].at = "waiting" /\ task[t].kind = "Off"
     \/ task[t].at = "fetch" /\ task[t].kind \in {"rebuild", "resume", "auto"}
     \/ /\ task[t].at \in {"exiting", "dying"} /\ task[t].kind \in {"Off", "pause", "rebuild"}
        /\ started \subseteq IF task[t].at = "exiting" THEN {task[t].child} ELSE {}

\* tasks are used one after the other
InTurn == \A t, u \in Task : t < u /\ task[t] = Unused => task[u] = Unused

Calm ==
  /\ Held
  /\ \A t, u \in Task : Busy(t) /\ Busy(u) => t = u
  /\ aborted = {} /\ (wanted # Nothing => newest \in Task /\ Busy(newest))
  /\ \A t \in Task : Busy(t) => Staged(t)
  /\ InTurn
  /\ killed # {} => \E t \in Task : task[t].at = "exiting"
  /\ persisted = "Off" /\ started # {} =>
       CalledSince \/ \E t \in Task : task[t].at \in {"prepare", "entry"}

\* nobody but t is under way, or about to be
Alone(t) == (Busy(t) \/ NextUp(t)) /\ \A u \in Task \ {t} : ~Busy(u)

LEMMA InitCalm == ExtInit => Calm
BY DEF ExtInit, Calm, Held, Busy, Staged, InTurn, Alive, Unused, Active, Stopping

LEMMA CalmIsControlled == Typing /\ (calm => Calm) => CalmControl
<1> SUFFICES ASSUME Typing, calm => Calm PROVE CalmControl
  OBVIOUS
<1>1. ASSUME calm, NEW d \in Daemon, NEW e \in Daemon, Alive(d), Alive(e) PROVE d = e
  BY <1>1 DEF Calm, Held
<1>2. ASSUME calm, persisted = "Off", Settled, ~CalledSince, NEW d \in Daemon PROVE ~Alive(d)
  BY <1>2 DEF Calm, Held, Settled, Active
<1> QED
  BY <1>1, <1>2, TypingIsType DEF CalmControl

-----------------------------------------------------------------------------
(* The two shapes of a step in a calm window *)

LEMMA AsideCalm ==
  ASSUME Calm, UNCHANGED <<task, persisted, wanted, newest, aborted>>,
         Held', started' \subseteq started, killed' \subseteq killed
  PROVE  Calm'
<1>1. \A t \in Task : (Busy(t)' <=> Busy(t)) /\ (Staged(t) => Staged(t)')
  BY DEF Busy, Staged
<1>2. (InTurn => InTurn') /\ (CalledSince => CalledSince')
  BY DEF InTurn, CalledSince
<1> QED
  BY <1>1, <1>2 DEF Calm

\* one task moves while the others rest
LEMMA TaskCalm ==
  ASSUME DOMAIN task = Task, NEW t \in Task, Alone(t),
         task' = [task EXCEPT ![t] = task'[t]],
         Held', aborted' = {}, wanted' # Nothing => newest' = t /\ Busy(t)',
         Busy(t)' => Staged(t)', Busy(t)' \/ task'[t].at = "done", InTurn,
         killed' # {} => task'[t].at = "exiting",
         persisted' = "Off" /\ started' # {} => CalledSince' \/ task'[t].at \in {"prepare", "entry"}
  PROVE  Calm'
<1>1. \A u \in Task \ {t} : ~Busy(u)'
  BY DEF Alone, Busy
<1>2. task'[t] # Unused /\ (task[t] # Unused \/ NextUp(t))
  BY DEF Alone, Busy, Unused, Active, Stopping
<1>3. InTurn'
  BY <1>2 DEF InTurn, NextUp, Task
<1> QED
  BY <1>1, <1>3 DEF Calm

LEMMA BusyAlone ==
  ASSUME Calm, NEW t \in Task, Busy(t)
  PROVE  Alone(t) /\ Staged(t)
BY DEF Calm, Alone

LEMMA SettledAlone ==
  ASSUME Settled, NEW t \in Task, NextUp(t)
  PROVE  Alone(t) /\ ~Busy(t)
BY DEF Settled, Alone, Busy

\* what the stage of the one task rules out
LEMMA AloneKnows ==
  ASSUME Calm, NEW t \in Task, Alone(t)
  PROVE  /\ task[t].at # "exiting" => killed = {}
         /\ task[t].at \notin {"prepare", "entry"} /\ persisted = "Off" /\ started # {} => CalledSince
         /\ wanted # Nothing => newest = t /\ Busy(t)
         /\ aborted = {} /\ Held /\ InTurn
<1>1. \A u \in Task : task[u].at \in {"exiting", "prepare", "entry"} => u = t
  BY DEF Alone, Busy, Active, Stopping
<1>2. wanted # Nothing => newest = t
  BY DEF Calm, Alone
<1> QED
  BY <1>1, <1>2 DEF Calm

\* a command is no request, which alone may be wanted
LEMMA CommandAlone ==
  ASSUME RequestsOnly, Calm, NEW t \in Task, Alone(t), task[t].kind \notin {"On", "Off"}
  PROVE  wanted = Nothing
BY AloneKnows DEF RequestsOnly, IsRequest, Task

\* a task that begins is later than every request
LEMMA LaterThanNewest ==
  ASSUME RequestsOnly, Typing, InTurn, NEW t \in Task, NextUp(t)
  PROVE  t > newest
<1>1. newest # 0 => newest \in Task /\ task[newest] # Unused
  BY DEF RequestsOnly, IsRequest, Unused
<1>2. newest \in Nat /\ t \in Nat /\ t # 0
  BY DEF Typing, Toggle, Task
<1> QED
  BY <1>1, <1>2 DEF InTurn, NextUp

\* what was called since the newest request stays so, whichever task moves
LEMMA CalledKept ==
  ASSUME CalledSince, DOMAIN task = Task, NEW t \in Task, task' = [task EXCEPT ![t] = task'[t]],
         UNCHANGED newest, task[t] = Unused \/ task'[t].kind = task[t].kind
  PROVE  CalledSince'
BY DEF CalledSince, Unused, Starter

-----------------------------------------------------------------------------
(* What a calm window holds *)

LEMMA HeldKept ==
  ASSUME Held, UNCHANGED <<handle, started>>, \A d \in Daemon : Alive(d)' => Alive(d)
  PROVE  Held'
BY DEF Held

LEMMA HeldLive ==
  ASSUME Processes, Held
  PROVE  /\ handle = Nothing => started = {} /\ \A d \in Daemon : ~Alive(d)
         /\ handle # Nothing => handle.own /\ started = {handle.id} /\ handle.id \in Daemon
         /\ statusFile # Nothing /\ Alive(statusFile.pid) => handle # Nothing
<1>1. handle = Nothing => started = {} /\ \A d \in Daemon : ~Alive(d)
  BY DEF Held
<1>2. statusFile # Nothing => statusFile.pid \in Daemon
  BY FieldTypes DEF Processes
<1> QED
  BY <1>1, <1>2, FieldTypes DEF Held, Processes

LEMMA SpawnHolds ==
  ASSUME Processes, Held, handle = Nothing, NEW there, Spawn(there)
  PROVE  Held' /\ UNCHANGED killed
<1>1. PICK d \in Unspawned :
        /\ handle' = [own |-> TRUE, id |-> d]
        /\ started' = started \cup {d}
        /\ \E s \in {"started", "opening"} : daemon' = [daemon EXCEPT ![d] = s]
        /\ UNCHANGED killed
  BY DEF Spawn
<1>2. d \in Daemon /\ started' = {d}
  BY <1>1, HeldLive DEF Unspawned
<1>3. handle' # Nothing
  <2>1. handle' \in [own : BOOLEAN, id : Daemon]
    BY <1>1, <1>2
  <2>2. Nothing \notin [own : BOOLEAN, id : Daemon]
    BY ExtensionAssumption
  <2> QED
    BY <2>1, <2>2
<1>4. \A e \in Daemon : Alive(e)' => e = d
  BY <1>1, <1>2, HeldLive DEF Alive, Processes
<1> QED
  BY <1>1, <1>2, <1>3, <1>4 DEF Held

\* with nothing killed, a handle is what makes indexing live
LEMMA StartHolds ==
  ASSUME Processes, Held, killed = {}, StartLive
  PROVE  Held' /\ killed' = {}
<1>1. CASE handle = Nothing
  <2>1. ~IsLive
    BY <1>1, HeldLive DEF IsLive, HandleRunning, StatusAlive
  <2> QED
    BY <1>1, <2>1, SpawnHolds DEF StartLive
<1>2. CASE handle # Nothing
  <2>1. HandleRunning /\ IsLive
    BY <1>2, HeldLive DEF HandleRunning, IsLive
  <2>2. handle' = handle /\ UNCHANGED <<daemon, started, killed>>
    BY <1>2, <2>1, HeldLive DEF StartLive, AttachToLive, RefreshedHandle, processVars
  <2> QED
    BY <2>2, HeldKept DEF Alive
<1> QED
  BY <1>1, <1>2

\* a task that stops what the window holds
LEMMA KillHolds ==
  ASSUME Typing, Held, handle # Nothing, UNCHANGED daemon,
         NEW t \in Task, NEW k, KillOwn(t, k, handle.id)
  PROVE  /\ Held' /\ started' = {handle.id}
         /\ task' = [task EXCEPT ![t] = task'[t]]
         /\ task'[t].kind = k /\ task'[t].at = "exiting" /\ task'[t].child = handle.id
<1>1. Held'
  BY HeldKept DEF KillOwn, Alive
<1>2. GoTo(t, k, "exiting", handle.id, HandlePid) /\ DOMAIN task = Task
  BY DEF KillOwn, Typing, Tasks
<1>3. started' = {handle.id}
  BY HeldLive DEF KillOwn, Typing
<1> QED
  BY <1>1, <1>2, <1>3 DEF GoTo

-----------------------------------------------------------------------------
(* The steps of processes and the events *)

LEMMA DaemonCalm ==
  ASSUME Typing, Calm, DaemonNext
  PROVE  Calm'
<1>1. UNCHANGED <<task, persisted, wanted, newest, aborted, handle, started, killed>>
  BY DEF DaemonNext, Acquires, Beats, Reports, Stops, FailsToOpen, Dies, Lapses, toggleVars,
         handleVars
<1>2. \A d \in Daemon : Alive(d)' => Alive(d)
  <2>1. ASSUME NEW d \in Daemon, Acquires(d) \/ Beats(d) \/ Reports(d), NEW e \in Daemon, Alive(e)'
        PROVE  Alive(e)
    BY <2>1 DEF Acquires, Beats, Reports, Alive, Typing, Processes
  <2>2. ASSUME NEW d \in Daemon, Stops(d) \/ FailsToOpen(d) \/ Dies(d), NEW e \in Daemon, Alive(e)'
        PROVE  Alive(e)
    BY <2>2 DEF Stops, FailsToOpen, Dies, Ends, Alive, Typing, Processes
  <2>3. CASE Lapses
    BY <2>3 DEF Lapses, processVars, Alive
  <2> QED
    BY <2>1, <2>2, <2>3 DEF DaemonNext
<1>3. Held'
  BY <1>1, <1>2, HeldKept DEF Calm
<1> QED
  BY <1>1, <1>3, AsideCalm

LEMMA EventCalm ==
  ASSUME Typing, Calm, WindowNext \/ Refreshes \/ Observes
  PROVE  Calm'
<1>1. UNCHANGED <<task, persisted, wanted, newest, aborted, daemon>>
  BY DEF WindowNext, Close, Refreshes, Ticks, Restores, Observes, toggleVars, processVars
<1>2. Held
  BY DEF Calm
<1>3. CASE UNCHANGED <<handle, started, killed>>
  BY <1>1, <1>2, <1>3, HeldKept, AsideCalm DEF Alive
<1>4. ASSUME NEW d \in Daemon, Close(d) PROVE Calm'
  <2>1. started = {d} /\ ~Alive(d)
    BY <1>2, <1>4 DEF Close, Held
  <2>2. started' = {} /\ handle' = Nothing /\ killed' \subseteq killed
    BY <1>4, <2>1 DEF Close
  <2>3. Held'
    BY <1>1, <1>2, <2>1, <2>2 DEF Held, Alive
  <2> QED
    BY <1>1, <2>2, <2>3, AsideCalm
<1>5. CASE Refreshes
  BY <1>2, <1>3, <1>5 DEF Refreshes, RefreshedHandle, Held
<1> QED
  BY <1>3, <1>4, <1>5 DEF WindowNext, Ticks, Restores, Observes, handleVars

-----------------------------------------------------------------------------
(* The steps of tasks *)

\* pause, or a rebuild that has its paths
LEMMA StopBeginsCalm ==
  ASSUME Typing, Calm, NEW t \in Task, Alone(t), task[t].at \notin {"exiting", "prepare", "entry"},
         wanted = Nothing, NEW k, (k = "pause" /\ task[t] = Unused) \/ (k = "rebuild" /\ t > newest),
         StopBegins(t, k)
  PROVE  Calm'
<1>1. /\ Held /\ killed = {} /\ aborted = {} /\ DOMAIN task = Task /\ InTurn
      /\ (persisted = "Off" /\ started # {} => CalledSince)
  BY AloneKnows DEF Typing, Tasks
<1>2. k # "Off" /\ UNCHANGED toggleVars
  BY DEF StopBegins, AfterStop
<1>3. ASSUME task' = [task EXCEPT ![t] = task'[t]], task'[t].kind = k
      PROVE  CalledSince \/ k = "rebuild" => CalledSince'
  <2>1. CASE k = "rebuild"
    BY <1>2, <1>3, <2>1 DEF CalledSince, Starter, toggleVars
  <2>2. CASE k # "rebuild"
    BY <1>1, <1>2, <1>3, <2>2, CalledKept DEF toggleVars
  <2> QED
    BY <2>1, <2>2
<1>4. CASE handle # Nothing
  <2>1. KillOwn(t, k, handle.id) /\ UNCHANGED daemon
    BY <1>1, <1>4, HeldLive DEF StopBegins, Typing
  <2>2. /\ Held' /\ started' = {handle.id}
        /\ task' = [task EXCEPT ![t] = task'[t]]
        /\ task'[t].kind = k /\ task'[t].at = "exiting" /\ task'[t].child = handle.id
    BY <1>1, <1>4, <2>1, KillHolds
  <2>3. Staged(t)' /\ Busy(t)'
    BY <1>2, <2>2 DEF Staged, Busy, Active, Stopping, toggleVars
  <2>4. persisted' = "Off" /\ started' # {} => CalledSince'
    BY <1>1, <1>2, <1>3, <2>1, <2>2 DEF KillOwn, toggleVars
  <2> QED
    BY <1>1, <1>2, <2>2, <2>3, <2>4, TaskCalm DEF toggleVars
<1>5. CASE handle = Nothing
  <2>1. /\ IF k \in {"rebuild", "manage"} THEN Spawn(lease)
                                          ELSE UNCHANGED <<processVars, extFiles, handleVars>>
        /\ AfterStop(t, k)
    BY <1>1, <1>5, HeldLive DEF StopBegins, Typing
  <2>2. /\ task' = [task EXCEPT ![t] = task'[t]]
        /\ task'[t].kind = k /\ task'[t].at = "done"
    BY <1>1, <2>1, FinishMoves DEF AfterStop
  <2>3. Held' /\ killed' = {} /\ (persisted' = "Off" /\ started' # {} => CalledSince')
    <3>1. CASE k = "rebuild"
      BY <1>1, <1>3, <1>5, <2>1, <2>2, <3>1, SpawnHolds DEF Typing, Processes
    <3>2. CASE k = "pause"
      BY <1>1, <1>2, <1>3, <2>1, <2>2, <3>2, HeldKept
      DEF processVars, handleVars, Alive, toggleVars
    <3> QED
      BY <3>1, <3>2
  <2>4. ~Busy(t)'
    BY <2>2 DEF Busy, Active, Stopping
  <2> QED
    BY <1>1, <1>2, <2>2, <2>3, <2>4, TaskCalm DEF toggleVars
<1> QED
  BY <1>4, <1>5

\* a request that ends settles: it is the newest
LEMMA SettlesCalm ==
  ASSUME Typing, Calm, NEW t \in Task, Alone(t), t = newest, NEW k \in {"On", "Off"},
         Settle(t, k), Finish(t, k), Held', killed' = {}, k = "Off" => started' = {}
  PROVE  Calm'
<1>1. task' = [task EXCEPT ![t] = task'[t]] /\ task'[t].at = "done" /\ DOMAIN task = Task
  BY FinishMoves DEF Typing, Tasks
<1>2. ~Busy(t)'
  BY <1>1 DEF Busy, Active, Stopping
<1>3. persisted' = k /\ wanted' = Nothing /\ aborted' = {} /\ InTurn
  BY AloneKnows DEF Settle
<1> QED
  BY <1>1, <1>2, <1>3, TaskCalm

LEMMA ExitsCalm ==
  ASSUME Typing, Calm, NEW t \in Task, Exits(t), calm'
  PROVE  Calm'
<1>1. Busy(t) /\ task[t].at = "exiting"
  BY DEF Exits, Busy, Active, Stopping
<1>2. Alone(t) /\ Staged(t)
  BY <1>1, BusyAlone
<1>3. started = {} /\ killed = {}
  BY <1>1, <1>2 DEF Exits, InTime, Staged, Typing, Processes
<1>4. UNCHANGED <<daemon, toggleVars, handleVars>>
  BY DEF Exits, KillPid
<1>5. GoTo(t, task[t].kind, "dying", Nobody, task[t].pid) /\ DOMAIN task = Task
  BY DEF Exits, KillPid, Typing, Tasks
<1>6. /\ task' = [task EXCEPT ![t] = task'[t]]
      /\ task'[t].kind = task[t].kind /\ task'[t].at = "dying"
  BY <1>5, GoToMoves
<1>7. Held'
  BY <1>4, HeldKept DEF Calm, handleVars, Alive
<1>8. Staged(t)'
  BY <1>1, <1>2, <1>3, <1>4, <1>6 DEF Staged, toggleVars, handleVars
<1>9. Busy(t)'
  BY <1>6 DEF Busy, Active, Stopping
<1> QED
  BY <1>2, <1>3, <1>4, <1>5, <1>6, <1>7, <1>8, <1>9, AloneKnows, TaskCalm
  DEF toggleVars, handleVars

LEMMA StopEndsCalm ==
  ASSUME RequestsOnly, Typing, Calm, NEW t \in Task, StopEnds(t), calm'
  PROVE  Calm'
<1>1. Busy(t)
  BY DEF StopEnds, Busy, Active, Stopping
<1>2. Alone(t) /\ Staged(t)
  BY <1>1, BusyAlone
<1>3. /\ task[t].at = "dying" /\ started = {}
      /\ task[t].kind \in {"Off", "pause", "rebuild"}
      /\ task[t].kind = "rebuild" => t > newest
  BY <1>2 DEF StopEnds, Staged
<1>4. handle = Nothing /\ killed = {} /\ Held /\ DOMAIN task = Task /\ InTurn
  BY <1>3 DEF Calm, Held, Typing, Processes, Tasks
<1>5. Held' /\ killed' = {} /\ (task[t].kind # "rebuild" => started' = {})
  <2>1. CASE task[t].kind = "rebuild"
    <3>1. Spawn(RemovedFor(task[t].pid))
      BY <2>1 DEF StopEnds
    <3> QED
      BY <1>3, <1>4, <2>1, <3>1, SpawnHolds DEF Typing, Processes
  <2>2. CASE task[t].kind # "rebuild"
    <3>1. UNCHANGED <<daemon, started, killed>> /\ handle' = Nothing
      BY <1>3, <2>2 DEF StopEnds, processVars
    <3> QED
      BY <1>3, <1>4, <3>1 DEF Held, Alive
  <2> QED
    BY <2>1, <2>2
<1>6. AfterStop(t, task[t].kind)
  BY DEF StopEnds
<1>7. CASE task[t].kind = "Off"
  <2>1. t = newest
    BY <1>2, <1>7 DEF Staged
  <2> QED
    BY <1>2, <1>5, <1>6, <1>7, <2>1, SettlesCalm DEF AfterStop
<1>8. CASE task[t].kind # "Off"
  <2>1. task[t].kind \notin {"On", "Off"}
    BY <1>3, <1>8
  <2>2. wanted = Nothing /\ aborted = {}
    BY <1>2, <2>1, CommandAlone, AloneKnows
  <2>3. UNCHANGED toggleVars /\ Finish(t, task[t].kind)
    BY <1>6, <1>8 DEF AfterStop
  <2>4. /\ task' = [task EXCEPT ![t] = task'[t]]
        /\ task'[t].kind = task[t].kind /\ task'[t].at = "done"
    BY <1>4, <2>3, FinishMoves
  <2>5. ~Busy(t)'
    BY <2>4 DEF Busy, Active, Stopping
  <2>6. task[t].kind = "rebuild" => CalledSince'
    BY <1>3, <2>3, <2>4 DEF CalledSince, Starter, toggleVars
  <2> QED
    BY <1>2, <1>4, <1>5, <2>2, <2>3, <2>4, <2>5, <2>6, TaskCalm DEF toggleVars
<1> QED
  BY <1>7, <1>8

\* Off without a daemon that could be verified: a handle there is is killed, none is left
LEMMA OffRestCalm ==
  ASSUME Typing, Calm, NEW t \in Task, Alone(t), task[t].at # "exiting",
         OffRest(t), UNCHANGED daemon
  PROVE  /\ Held' /\ task' = [task EXCEPT ![t] = task'[t]] /\ task'[t].kind = "Off"
         /\ OwnLeft => task'[t].at = "exiting" /\ started' \subseteq {task'[t].child}
         /\ ~OwnLeft => Finish(t, "Off") /\ killed' = {} /\ started' = {}
<1>1. Held /\ killed = {} /\ DOMAIN task = Task
  BY AloneKnows DEF Typing, Tasks
<1>2. CASE OwnLeft
  <2>1. KillOwn(t, "Off", handle.id) /\ handle # Nothing
    BY <1>2 DEF OffRest, OwnLeft
  <2> QED
    BY <1>1, <1>2, <2>1, KillHolds
<1>3. CASE ~OwnLeft
  <2>1. handle = Nothing /\ started = {}
    BY <1>1, <1>3, HeldLive DEF OwnLeft, Typing
  <2>2. handle' = Nothing /\ Finish(t, "Off") /\ UNCHANGED <<started, killed>>
    BY <1>3 DEF OffRest
  <2>3. Held'
    BY <1>1, <2>1, <2>2 DEF Held, Alive
  <2> QED
    BY <1>1, <1>3, <2>1, <2>2, <2>3, FinishMoves
<1> QED
  BY <1>2, <1>3

LEMMA WaitsCalm ==
  ASSUME Typing, Calm, NEW t \in Task, Waits(t), calm'
  PROVE  Calm'
<1>1. Busy(t) /\ task[t].at = "waiting"
  BY DEF Waits, Busy, Active
<1>2. Alone(t) /\ t = newest /\ persisted = "On" /\ aborted = {} /\ DOMAIN task = Task /\ InTurn
  BY <1>1, BusyAlone, AloneKnows DEF Staged, Typing, Tasks
<1>3. UNCHANGED daemon /\ OffRest(t)
  BY <1>2 DEF Waits, GivesUp
<1>4. CASE OwnLeft
  <2>1. UNCHANGED toggleVars
    BY <1>2, <1>4 DEF Waits, GivesUp
  <2>2. /\ Held' /\ task' = [task EXCEPT ![t] = task'[t]] /\ task'[t].kind = "Off"
        /\ task'[t].at = "exiting" /\ started' \subseteq {task'[t].child}
    BY <1>1, <1>2, <1>3, <1>4, OffRestCalm
  <2>3. Staged(t)' /\ Busy(t)'
    BY <1>2, <2>1, <2>2 DEF Staged, Busy, Active, Stopping, toggleVars
  <2> QED
    BY <1>2, <2>1, <2>2, <2>3, TaskCalm DEF toggleVars
<1>5. CASE ~OwnLeft
  <2>1. Settle(t, "Off")
    BY <1>2, <1>5 DEF Waits, GivesUp
  <2>2. Held' /\ Finish(t, "Off") /\ killed' = {} /\ started' = {}
    BY <1>1, <1>2, <1>3, <1>5, OffRestCalm
  <2> QED
    BY <1>2, <2>1, <2>2, SettlesCalm
<1> QED
  BY <1>4, <1>5

LEMMA PreparesCalm ==
  ASSUME Typing, Calm, NEW t \in Task, Prepares(t)
  PROVE  Calm'
<1>1. Busy(t) /\ task[t].at = "prepare"
  BY DEF Prepares, Busy, Active
<1>2. /\ Alone(t) /\ t = newest /\ aborted = {} /\ killed = {} /\ Held /\ InTurn
      /\ DOMAIN task = Task /\ Processes
  BY <1>1, BusyAlone, AloneKnows DEF Staged, Typing, Tasks
<1>3. Held' /\ killed' = {}
  <2>1. CASE StartLive
    BY <1>2, <2>1, StartHolds
  <2>2. CASE UNCHANGED <<processVars, extFiles, handleVars>>
    BY <1>2, <2>2, HeldKept DEF processVars, handleVars, Alive
  <2> QED
    BY <1>2, <2>1, <2>2 DEF Prepares, GivesUp
<1>4. CASE Settle(t, "On") /\ Finish(t, "On")
  BY <1>2, <1>3, <1>4, SettlesCalm
<1>5. CASE GoTo(t, "On", "entry", Nobody, Nobody) /\ UNCHANGED toggleVars
  <2>1. /\ task' = [task EXCEPT ![t] = task'[t]]
        /\ task'[t].kind = "On" /\ task'[t].at = "entry"
    BY <1>2, <1>5, GoToMoves
  <2>2. Staged(t)' /\ Busy(t)'
    BY <1>2, <1>5, <2>1 DEF Staged, Busy, Active, toggleVars
  <2> QED
    BY <1>2, <1>3, <1>5, <2>1, <2>2, TaskCalm DEF toggleVars
<1> QED
  BY <1>2, <1>4, <1>5 DEF Prepares, GivesUp

LEMMA WritesEntryCalm ==
  ASSUME Typing, Calm, NEW t \in Task, WritesEntry(t)
  PROVE  Calm'
<1>1. Busy(t) /\ task[t].at = "entry"
  BY DEF WritesEntry, Busy, Active
<1>2. Alone(t) /\ t = newest /\ aborted = {} /\ killed = {} /\ Held
  BY <1>1, BusyAlone, AloneKnows DEF Staged
<1>3. Settle(t, "On") /\ Finish(t, "On") /\ UNCHANGED <<daemon, handle, started, killed>>
  BY <1>2 DEF WritesEntry, GivesUp, processVars, handleVars
<1>4. Held'
  BY <1>2, <1>3, HeldKept DEF Alive
<1> QED
  BY <1>2, <1>3, <1>4, SettlesCalm

LEMMA FetchedCalm ==
  ASSUME RequestsOnly, Typing, Calm, NEW t \in Task, Fetched(t)
  PROVE  Calm'
<1>1. Busy(t) /\ task[t].at = "fetch"
  BY DEF Fetched, Busy, Active
<1>2. /\ Alone(t) /\ task[t].kind \in {"rebuild", "resume", "auto"} /\ t > newest
      /\ DOMAIN task = Task /\ Processes
  BY <1>1, BusyAlone DEF Staged, Typing, Tasks
<1>3. wanted = Nothing
  BY <1>2, CommandAlone
<1>4. aborted = {} /\ killed = {} /\ Held /\ InTurn
  BY <1>1, <1>2, AloneKnows
<1>5. CASE task[t].kind = "rebuild" /\ StopBegins(t, task[t].kind)
  BY <1>1, <1>2, <1>3, <1>5, StopBeginsCalm
<1>6. CASE /\ Finish(t, task[t].kind) /\ UNCHANGED toggleVars
           /\ StartLive \/ UNCHANGED <<processVars, extFiles, handleVars>>
  <2>1. Held' /\ killed' = {}
    BY <1>2, <1>4, <1>6, StartHolds, HeldKept DEF processVars, handleVars, Alive
  <2>2. /\ task' = [task EXCEPT ![t] = task'[t]]
        /\ task'[t].kind = task[t].kind /\ task'[t].at = "done"
    BY <1>2, <1>6, FinishMoves
  <2>3. ~Busy(t)'
    BY <2>2 DEF Busy, Active, Stopping
  <2>4. CalledSince'
    BY <1>2, <1>6, <2>2 DEF CalledSince, Starter, toggleVars
  <2> QED
    BY <1>2, <1>3, <1>4, <1>6, <2>1, <2>2, <2>3, <2>4, TaskCalm DEF toggleVars
<1> QED
  BY <1>2, <1>5, <1>6 DEF Fetched

-----------------------------------------------------------------------------
(* What the user does *)

\* rebuild, resume and a change of a file: the paths are asked for
LEMMA FetchCalm ==
  ASSUME RequestsOnly, Typing, Calm, NEW t \in Task, NextUp(t), Settled,
         NEW k \in {"rebuild", "resume", "auto"}, GoTo(t, k, "fetch", Nobody, Nobody),
         UNCHANGED <<daemon, handle, started, killed, toggleVars>>
  PROVE  Calm'
<1>1. Alone(t) /\ ~Busy(t) /\ DOMAIN task = Task
  BY SettledAlone DEF Typing, Tasks
<1>2. Held /\ killed = {} /\ aborted = {} /\ wanted = Nothing /\ InTurn
  BY <1>1, AloneKnows DEF Busy, Active, Stopping
<1>3. /\ task' = [task EXCEPT ![t] = task'[t]]
      /\ task'[t].kind = k /\ task'[t].at = "fetch"
  BY <1>1, GoToMoves
<1>4. t > newest /\ UNCHANGED newest
  BY <1>2, LaterThanNewest DEF toggleVars
<1>5. Staged(t)' /\ Busy(t)' /\ CalledSince'
  BY <1>3, <1>4 DEF Staged, Busy, Active, CalledSince, Starter
<1>6. Held'
  BY <1>2, HeldKept DEF Alive
<1> QED
  BY <1>1, <1>2, <1>3, <1>5, <1>6, TaskCalm DEF toggleVars

LEMMA FilesChangeCalm ==
  ASSUME RequestsOnly, Typing, Calm, NEW t \in Task, FilesChange(t), calm'
  PROVE  Calm'
<1>1. NextUp(t) /\ Settled
  BY DEF FilesChange, Begins, InTime
<1>2. /\ GoTo(t, "auto", "fetch", Nobody, Nobody)
      /\ UNCHANGED <<daemon, handle, started, killed, toggleVars>>
  BY DEF FilesChange, processVars, handleVars
<1> QED
  BY <1>1, <1>2, FetchCalm

LEMMA BeginCalm ==
  ASSUME RequestsOnly, Typing, Calm, NEW t \in Task, NEW k \in Commands, Begin(t, k), calm'
  PROVE  Calm'
<1>1. NextUp(t) /\ Settled
  BY DEF Begin, Begins, InTime
<1>2. CASE k = "pause"
  <2>1. Alone(t) /\ ~Busy(t) /\ task[t] = Unused
    BY <1>1, SettledAlone DEF NextUp
  <2>2. task[t].at \notin {"exiting", "prepare", "entry"} /\ wanted = Nothing
    BY <2>1, AloneKnows DEF Busy, Active, Stopping
  <2> QED
    BY <1>2, <2>1, <2>2, StopBeginsCalm DEF Begin
<1>3. CASE k # "pause"
  <2>1. k \in {"rebuild", "resume", "auto"}
    BY <1>3, ExtensionAssumption
  <2>2. /\ GoTo(t, k, "fetch", Nobody, Nobody)
        /\ UNCHANGED <<daemon, handle, started, killed, toggleVars>>
    BY <1>3 DEF Begin, processVars, handleVars
  <2> QED
    BY <1>1, <2>1, <2>2, FetchCalm
<1> QED
  BY <1>2, <1>3

\* the toggle shows what it stores
LEMMA RequestCalm ==
  ASSUME Typing, Calm, NEW t \in Task, NEW k, Request(t, k), calm'
  PROVE  /\ Alone(t) /\ task[t].at # "exiting" /\ DOMAIN task = Task /\ InTurn
         /\ Held /\ killed = {} /\ persisted # k
         /\ newest' = t /\ aborted' = {}
<1>1. Settled /\ NextUp(t)
  BY DEF Request, Begins, InTime
<1>2. Alone(t) /\ ~Busy(t)
  BY <1>1, SettledAlone
<1>3. task[t].at # "exiting"
  BY <1>2 DEF Busy, Active, Stopping
<1> QED
  BY <1>2, <1>3, AloneKnows DEF Request, Displayed, Typing, Tasks

LEMMA PressOnCalm ==
  ASSUME Typing, Calm, NEW t \in Task, PressOn(t), calm'
  PROVE  Calm'
<1>1. /\ Alone(t) /\ DOMAIN task = Task /\ Held /\ killed = {} /\ InTurn
      /\ newest' = t /\ aborted' = {}
  BY RequestCalm DEF PressOn
<1>2. GoTo(t, "On", "prepare", Nobody, Nobody)
      /\ UNCHANGED <<persisted, daemon, handle, started, killed>>
  BY DEF PressOn, processVars, handleVars
<1>3. /\ task' = [task EXCEPT ![t] = task'[t]]
      /\ task'[t].kind = "On" /\ task'[t].at = "prepare"
  BY <1>1, <1>2, GoToMoves
<1>4. Staged(t)' /\ Busy(t)'
  BY <1>1, <1>3 DEF Staged, Busy, Active
<1>5. Held'
  BY <1>1, <1>2, HeldKept DEF Alive
<1> QED
  BY <1>1, <1>2, <1>3, <1>4, <1>5, TaskCalm

LEMMA PressOffCalm ==
  ASSUME Typing, Calm, NEW t \in Task, PressOff(t), calm'
  PROVE  Calm'
<1>1. /\ Alone(t) /\ task[t].at # "exiting" /\ DOMAIN task = Task /\ InTurn
      /\ Held /\ killed = {} /\ persisted = "On"
      /\ newest' = t /\ aborted' = {}
  BY RequestCalm DEF PressOff, Typing, Toggle
<1>2. UNCHANGED daemon
  BY DEF PressOff
<1>3. CASE StartedPid # Nobody
  <2>1. /\ GoTo(t, "Off", "waiting", Nobody, StartedPid)
        /\ UNCHANGED <<handle, started, killed, persisted>>
    BY <1>3 DEF PressOff, handleVars
  <2>2. /\ task' = [task EXCEPT ![t] = task'[t]]
        /\ task'[t].kind = "Off" /\ task'[t].at = "waiting"
    BY <1>1, <2>1, GoToMoves
  <2>3. Staged(t)' /\ Busy(t)'
    BY <1>1, <2>1, <2>2 DEF Staged, Busy, Active
  <2>4. Held'
    BY <1>1, <1>2, <2>1, HeldKept DEF Alive
  <2> QED
    BY <1>1, <2>1, <2>2, <2>3, <2>4, TaskCalm
<1>4. CASE StartedPid = Nobody /\ OwnLeft
  <2>1. OffRest(t) /\ UNCHANGED persisted
    BY <1>4 DEF PressOff
  <2>2. /\ Held' /\ task' = [task EXCEPT ![t] = task'[t]] /\ task'[t].kind = "Off"
        /\ task'[t].at = "exiting" /\ started' \subseteq {task'[t].child}
    BY <1>1, <1>2, <1>4, <2>1, OffRestCalm
  <2>3. Staged(t)' /\ Busy(t)'
    BY <1>1, <2>1, <2>2 DEF Staged, Busy, Active, Stopping
  <2> QED
    BY <1>1, <2>1, <2>2, <2>3, TaskCalm
<1>5. CASE StartedPid = Nobody /\ ~OwnLeft
  <2>1. OffRest(t) /\ wanted' = Nothing
    BY <1>5 DEF PressOff
  <2>2. /\ Held' /\ task' = [task EXCEPT ![t] = task'[t]]
        /\ Finish(t, "Off") /\ killed' = {} /\ started' = {}
    BY <1>1, <1>2, <1>5, <2>1, OffRestCalm
  <2>3. task'[t].at = "done" /\ ~Busy(t)'
    BY <1>1, <2>2, FinishMoves DEF Busy, Active, Stopping
  <2> QED
    BY <1>1, <2>1, <2>2, <2>3, TaskCalm
<1> QED
  BY <1>3, <1>4, <1>5

-----------------------------------------------------------------------------
LEMMA CalmBefore ==
  ASSUME Typing, [ExtNext]_extVars, calm'
  PROVE  calm
<1>1. calm \in BOOLEAN
  BY DEF Typing, Flags
<1>2. CASE DaemonNext
  BY <1>2 DEF DaemonNext, Acquires, Beats, Reports, Stops, FailsToOpen, Dies, Lapses
<1>3. CASE WindowNext \/ Refreshes \/ Observes
  BY <1>3 DEF WindowNext, Close, Refreshes, Ticks, Restores, Observes
<1>4. ASSUME NEW t \in Task, TaskNext(t) PROVE calm
  BY <1>4 DEF TaskNext, Exits, StopEnds, Waits, Prepares, WritesEntry, Fetched, Rehydrates, InTime
<1>5. CASE UserNext
  BY <1>5 DEF UserNext, PressOn, PressOff, Request, Begin, FilesChange, Reload, InTime
<1>6. CASE UNCHANGED extVars
  BY <1>6 DEF extVars
<1> QED
  BY <1>2, <1>3, <1>4, <1>5, <1>6 DEF ExtNext

LEMMA CalmStep ==
  RequestsOnly /\ Typing /\ (calm => Calm) /\ [ExtNext]_extVars => (calm' => Calm')
<1> SUFFICES ASSUME RequestsOnly, Typing, calm => Calm, [ExtNext]_extVars, calm'
             PROVE  Calm'
  OBVIOUS
<1>1. Calm
  BY CalmBefore
<1>2. CASE DaemonNext
  BY <1>1, <1>2, DaemonCalm
<1>3. CASE WindowNext \/ Refreshes \/ Observes
  BY <1>1, <1>3, EventCalm
<1>4. ASSUME NEW t \in Task, TaskNext(t) PROVE Calm'
  <2>1. ~Rehydrates(t)
    BY <1>1, BusyAlone DEF Rehydrates, Busy, Staged, Active
  <2> QED
    BY <1>1, <1>4, <2>1, ExitsCalm, StopEndsCalm, WaitsCalm, PreparesCalm, WritesEntryCalm,
       FetchedCalm
    DEF TaskNext
<1>5. CASE UserNext
  <2>1. ASSUME NEW t \in Task, NEW how \in Reloads, Reload(t, how) PROVE FALSE
    BY <2>1 DEF Reload
  <2> QED
    BY <1>1, <1>5, <2>1, PressOnCalm, PressOffCalm, BeginCalm, FilesChangeCalm DEF UserNext
<1>6. CASE UNCHANGED extVars
  <2>1. UNCHANGED <<task, persisted, wanted, newest, aborted, daemon, handle, started, killed>>
    BY <1>6 DEF extVars, toggleVars, processVars, handleVars
  <2> QED
    BY <1>1, <2>1, HeldKept, AsideCalm DEF Calm, Alive
<1> QED
  BY <1>2, <1>3, <1>4, <1>5, <1>6 DEF ExtNext

\* However many daemons, presses, commands and changes of files, while each of them ends
\* before the next: at most one process works on the index, and a window that has settled
\* on Off has left none but one that a command or a change of a file since then started.
THEOREM CalmStaysControlled == ExtSpec => []CalmControl
<1> DEFINE Kept == RequestsOnly /\ Typing /\ (calm => Calm)
<1>1. ExtInit => Kept
  BY InitRequests, InitTyping, InitCalm
<1>2. Kept /\ [ExtNext]_extVars => Kept'
  BY StepKeeps, TypingStep, CalmStep
<1>3. Kept => CalmControl
  BY CalmIsControlled
<1> HIDE DEF Kept
<1> QED
  BY <1>1, <1>2, <1>3, PTL DEF ExtSpec
=============================================================================
