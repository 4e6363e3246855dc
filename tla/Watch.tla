------------------------------- MODULE Watch -------------------------------
(***************************************************************************)
(* The live indexing daemon (bins/cognis-indexd/src/lib.rs): optional      *)
(* rebuild, registration of the file watcher, and the loop that collects   *)
(* events into a batch, hands the batch to the pipeline and writes the     *)
(* status file.  Edits go on at every step.  The pipeline is seen only     *)
(* through what it read of each file and what it published (IndexStore     *)
(* models it in detail), the status file through what it claims.           *)
(***************************************************************************)
EXTENDS Naturals, Sequences

CONSTANTS
  File,        \* source files, ignored ones included
  Ignore,      \* the files under a directory of config repo.ignore
  Own,         \* a path of the .cognis directory, where the daemon writes
  MaxEdits,    \* bound on the edits of each file
  MaxRuns,     \* bound on the number of times the daemon is started
  Rebuild,     \* --full-rebuild
  IndexErrors, \* environment: index_batch may fail
  NotifyErrors,\* environment: the watcher may report an error for an event
  StatusErrors,\* environment: the status file may be unwritable
  VectorsWait  \* environment: symbols may be left in the embedding queue

ASSUME WatchAssumption ==
  /\ Own \notin File
  /\ Ignore \subseteq File
  /\ MaxEdits \in Nat /\ MaxRuns \in Nat \ {0}
  /\ {Rebuild, IndexErrors, NotifyErrors, StatusErrors, VectorsWait} \subseteq BOOLEAN

VARIABLES
  disk,     \* content of each file, as the number of its edits
  indexed,  \* the content the last publish of the file was made from
  events,   \* the watcher's channel
  stage,    \* where the daemon is
  changes,  \* the files of the batch being collected or indexed
  seen,     \* the contents the pipeline has read for the batch
  report,   \* what the batch's outcome will claim
  pending,  \* symbols wait in the embedding queue
  status,   \* what the status file claims
  running,  \* cleared by Ctrl-C
  runs,     \* starts so far
  missed    \* history: files with an edit that was lost where the code loses one

vars == <<disk, indexed, events, stage, changes, seen, report, pending, status, running, runs, missed>>
fileVars == <<disk, indexed>>
batchVars == <<changes, seen, report>>

-----------------------------------------------------------------------------
Path == File \cup {Own}
Ended == {"killed", "stopped", "failed"}
Unwatched == Ended \cup {"starting", "rebuilding", "registering"}
Stages == Unwatched \cup {"watching", "idle", "collecting", "planning", "publishing", "reporting", "settling"}

\* done: progress 100 percent and no error
Claim == [active : BOOLEAN, done : BOOLEAN]
Watching == [active |-> TRUE, done |-> TRUE]

Paths(s) == {s[i] : i \in DOMAIN s}

TypeOK ==
  /\ disk \in [File -> 0..MaxEdits]
  /\ indexed \in [File -> 0..MaxEdits]
  /\ events \in Seq(Path)
  /\ stage \in Stages
  /\ changes \in SUBSET (File \ Ignore)
  /\ seen \in [File -> 0..MaxEdits]
  /\ report \in Claim
  /\ pending \in BOOLEAN
  /\ status \in Claim
  /\ running \in BOOLEAN
  /\ runs \in 1..MaxRuns
  /\ missed \in SUBSET File

\* an index that a first `cognis index` has brought up to date
Init ==
  /\ disk = [f \in File |-> 0]
  /\ indexed = disk
  /\ events = <<>>
  /\ stage = "starting"
  /\ changes = {}
  /\ seen = indexed
  /\ report = Watching
  /\ pending = FALSE
  /\ status = [active |-> FALSE, done |-> FALSE]
  /\ running = TRUE
  /\ runs = 1
  /\ missed = {}

Step(from, to) == stage = from /\ stage' = to

\* one more event, unless it repeats the last one, which the kernel coalesces
Notified(s, p) == IF s # <<>> /\ s[Len(s)] = p THEN s ELSE Append(s, p)

\* Mutant of Ignored: the daemon's own directory is not added to the list
IgnoredByConfig(p) == p \in Ignore

\* should_ignore
Ignored(p) == p \in Ignore \cup {Own}

-----------------------------------------------------------------------------
(* The editor and the watcher *)

\* a file is created, modified or removed; the watcher sends an event for it,
\* or an error, which collect_event drops
Edit(f) ==
  /\ disk[f] < MaxEdits
  /\ disk' = [disk EXCEPT ![f] = @ + 1]
  /\ \/ stage \notin Unwatched /\ events' = Notified(events, f) /\ UNCHANGED missed
     \/ /\ stage \in Unwatched \/ NotifyErrors
        /\ missed' = missed \cup {f} /\ UNCHANGED events
  /\ UNCHANGED <<indexed, stage, batchVars, pending, status, running, runs>>

\* write_status_file: the file is in a watched directory
WriteStatus(claim) ==
  /\ status' = claim
  /\ events' = IF stage \in Unwatched THEN events ELSE Notified(events, Own)

\* the events in the channel go with the process
Lose(batch) ==
  /\ missed' = missed \cup ((Paths(events) \cup batch) \cap File)
  /\ events' = <<>>

\* the rename fails ten times, or the watcher cannot be created: the error ends the loop
StatusFails ==
  /\ StatusErrors
  /\ \/ stage \in {"registering", "watching", "reporting", "settling"}
     \/ stage = "idle" /\ ~running
  /\ stage' = "failed"
  /\ Lose({})
  /\ UNCHANGED <<fileVars, batchVars, pending, status, running, runs>>

-----------------------------------------------------------------------------
(* run_args, watch_loop_with *)

\* the pipeline is opened; the rebuild, if asked for, comes before the watcher
Open ==
  /\ stage = "starting"
  /\ stage' = IF Rebuild THEN "rebuilding" ELSE "registering"
  /\ seen' = disk
  /\ UNCHANGED <<fileVars, events, changes, report, pending, status, running, runs, missed>>

\* index_repo publishes what it read; an error is logged and the daemon goes on
RebuildDone ==
  /\ Step("rebuilding", "registering")
  /\ \/ /\ indexed' = [f \in File |-> IF Ignored(f) THEN indexed[f] ELSE seen[f]]
        /\ missed' = {f \in File : disk[f] # seen[f]}
     \/ IndexErrors /\ UNCHANGED <<indexed, missed>>
  /\ UNCHANGED <<disk, events, batchVars, pending, status, running, runs>>

\* the "starting" status, the channel and the watcher
Register ==
  /\ Step("registering", "watching")
  /\ WriteStatus([active |-> TRUE, done |-> FALSE])
  /\ UNCHANGED <<fileVars, batchVars, pending, running, runs, missed>>

\* the "watching" status, before the first batch and after every one
SettleAs(from) ==
  /\ Step(from, "idle")
  /\ WriteStatus(Watching)
  /\ UNCHANGED <<fileVars, batchVars, pending, running, runs, missed>>

\* one event of the channel is folded into the batch
CollectEvent ==
  /\ changes' = changes \cup {p \in {Head(events)} : ~Ignored(p)}
  /\ events' = Tail(events)

\* rx.recv_timeout gets the first event of a batch
Recv ==
  /\ running /\ events # <<>>
  /\ Step("idle", "collecting")
  /\ CollectEvent
  /\ UNCHANGED <<fileVars, seen, report, pending, status, running, runs, missed>>

Collect ==
  /\ events # <<>>
  /\ Step("collecting", "collecting")
  /\ CollectEvent
  /\ UNCHANGED <<fileVars, seen, report, pending, status, running, runs, missed>>

\* Mutant of LeftOver: events that came too late for the batch are thrown away
LeftOverNone == <<>>

\* the channel keeps what the window did not collect
LeftOver == events

\* the window of 500 ms is over; an empty batch is no batch
WindowEnds ==
  /\ stage = "collecting"
  /\ stage' = IF changes = {} THEN "idle" ELSE "planning"
  /\ events' = LeftOver
  /\ UNCHANGED <<fileVars, batchVars, pending, status, running, runs, missed>>

\* Mutant of Batch: the list that the status shows is handed to the pipeline
BatchShown == {p \in changes : p = CHOOSE q \in changes : TRUE}

\* the paths that index_batch is given
Batch == changes

\* the planner reads the files of the batch
Plan ==
  /\ Step("planning", "publishing")
  /\ seen' = [f \in File |-> IF f \in Batch THEN disk[f] ELSE seen[f]]
  /\ UNCHANGED <<fileVars, events, changes, report, pending, status, running, runs, missed>>

\* the batch is published and the queue drained as far as it goes; the database is Own
Publish ==
  /\ stage = "publishing"
  /\ indexed' = [f \in File |-> IF f \in Batch THEN seen[f] ELSE indexed[f]]
  /\ pending' \in IF VectorsWait THEN BOOLEAN ELSE {FALSE}
  /\ events' = Notified(events, Own)
  /\ missed' = {f \in missed : indexed'[f] # disk[f]}
  /\ UNCHANGED disk

BatchEnds(claim) ==
  /\ Step("publishing", "reporting")
  /\ changes' = {}
  /\ report' = claim
  /\ UNCHANGED <<seen, status, running, runs>>

\* index_batch returns Ok: 100 percent, or 90 with vectors pending
BatchOk ==
  /\ Publish
  /\ BatchEnds([active |-> TRUE, done |-> ~pending'])

\* the publish succeeded and the drain that follows it did not
DrainFails ==
  /\ IndexErrors
  /\ Publish
  /\ BatchEnds([active |-> TRUE, done |-> FALSE])

\* nothing was published; the batch is not kept
BatchFails ==
  /\ IndexErrors
  /\ BatchEnds([active |-> TRUE, done |-> FALSE])
  /\ missed' = missed \cup (changes \cap File)
  /\ UNCHANGED <<fileVars, events, pending>>

WriteReport ==
  /\ Step("reporting", "settling")
  /\ WriteStatus(report)
  /\ UNCHANGED <<fileVars, batchVars, pending, running, runs, missed>>

-----------------------------------------------------------------------------
(* The end *)

Interrupt ==
  /\ running /\ stage \notin Ended
  /\ running' = FALSE
  /\ UNCHANGED <<fileVars, events, stage, batchVars, pending, status, runs, missed>>

\* the loop sees the flag between two batches
Stop ==
  /\ ~running
  /\ Step("idle", "stopped")
  /\ status' = [active |-> FALSE, done |-> FALSE]
  /\ Lose({})
  /\ UNCHANGED <<fileVars, batchVars, pending, running, runs>>

Kill ==
  /\ stage \notin Ended
  /\ stage' = "killed"
  /\ Lose(changes)
  /\ changes' = {}
  /\ UNCHANGED <<fileVars, seen, report, pending, status, running, runs>>

\* the extension starts the daemon again
Restart ==
  /\ runs < MaxRuns /\ stage \in Ended
  /\ stage' = "starting"
  /\ running' = TRUE
  /\ runs' = runs + 1
  /\ UNCHANGED <<fileVars, events, batchVars, pending, status, missed>>

-----------------------------------------------------------------------------
Loop ==
  \/ Open \/ RebuildDone \/ Register \/ SettleAs("watching") \/ SettleAs("settling")
  \/ Recv \/ Plan \/ BatchOk \/ DrainFails \/ BatchFails \/ WriteReport \/ StatusFails \/ Stop

Next ==
  \/ \E f \in File : Edit(f)
  \/ Loop \/ Collect \/ WindowEnds
  \/ Interrupt \/ Kill \/ Restart

Spec == Init /\ [][Next]_vars

\* The loop is one thread that runs; its window ends whatever arrives meanwhile.
FairSpec == Spec /\ WF_vars(Loop) /\ WF_vars(WindowEnds)

-----------------------------------------------------------------------------
(* Properties *)

Tracked == {f \in File : ~Ignored(f)}

\* An edit that the index does not have is still in the channel or in the batch,
\* or it was lost in one of the ways the code has of losing one: the watcher was
\* not registered or reported an error, the batch failed, or the daemon ended.
\* In particular an edit made after the planner read the file is not lost.
EditsAccounted ==
  \A f \in Tracked : indexed[f] # disk[f] => f \in Paths(events) \cup changes \cup missed

\* The daemon's own writes into .cognis, which the watcher reports like any other,
\* do not keep it busy: once the edits cease it comes to rest, with every file indexed
\* as it is then, unless an edit of it was lost in one of those ways.
Settles ==
  <>[]\/ stage \in Ended
      \/ stage = "idle" /\ \A f \in Tracked : indexed[f] # disk[f] => f \in missed
=============================================================================
