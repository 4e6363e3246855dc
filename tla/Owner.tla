------------------------------- MODULE Owner -------------------------------
(***************************************************************************)
(* How sessions of one repository find its workspace owner, or start one:   *)
(* resolve_or_spawn_heavy (bins/cognis-mcpd/src/proxy.rs), the library      *)
(* entry ensure_owner_running and the owner process itself                  *)
(* (crates/cognis-owner/src/lib.rs, run.rs).  They share the owner lease,   *)
(* the loopback ports and the endpoint file, and hold no lock together.     *)
(*                                                                         *)
(* The lease is the lock module Lease shows it to be when its callers are   *)
(* serial and timely: taken in one step, given back, or left to lapse by a  *)
(* holder that died.  A port is taken from bind until its process ends;     *)
(* connecting to it succeeds exactly meanwhile.                             *)
(***************************************************************************)
EXTENDS Integers

CONSTANTS
  Session,    \* callers of resolve_or_spawn_heavy (thin proxies) or ensure_owner_running
  Model,      \* model fingerprints
  ModelOf,    \* the fingerprint each session derives from its environment
  Explicit,   \* ports a proxy may be given as its target
  MaxOffset,  \* the last port offset a proxy tries (3 in the code)
  MaxPolls,   \* bound: looks at an advertised, dead endpoint before the deadline
  NoOne, Stranger, NoFile, NoCred, OldCred, NoModel,
  Crashes,    \* environment: processes may be killed
  Strangers,  \* environment: other programs use the ports too
  Failures,   \* environment: opening the database, writing the file or waiting may fail
  MaxFaults   \* bound: how many of these may happen

\* derive_port gives every session the same ports, one per offset; the last one
\* is the port the system gives to `--port 0`
Offset    == 0..MaxOffset
Ephemeral == MaxOffset + 1
Port      == Offset \cup {Ephemeral}
\* the processes a session may spawn: one per port
Heavy     == Session \X Port
Target    == [port : Port, cred : Session \cup {NoCred, OldCred}, fp : Model \cup {NoModel}]

ASSUME OwnerAssumption ==
  /\ {MaxOffset, MaxPolls, MaxFaults} \subseteq Nat
  /\ ModelOf \in [Session -> Model]
  /\ Explicit \subseteq Port
  /\ NoOne \notin Session \cup Heavy
  /\ Session \cap Heavy = {}
  /\ Stranger \notin Heavy /\ Stranger # NoOne
  /\ NoFile \notin Target
  /\ {NoCred, OldCred} \cap Session = {}
  /\ {Crashes, Strangers, Failures} \subseteq BOOLEAN

VARIABLES
  lease,     \* who the live record of owner.lease names
  listen,    \* who is bound to each port
  endpoint,  \* mcpd.endpoint: NoFile or a target
  pc,        \* where each session is
  offset,    \* the port offset a session is at
  polls,     \* how often a session has looked in vain
  hand,      \* the target a session read, made or returned
  proc,      \* where each spawned process is
  faults,    \* history: how many processes died, strangers came, operations failed
  raced      \* history: sessions spawned at once, or for different models

vars == <<lease, listen, endpoint, pc, offset, polls, hand, proc, faults, raced>>
sessions == <<pc, offset, polls, hand>>

Resolving == {"explicit", "look", "recheck", "probe"}
Spawning  == {"try", "reuse", "write", "await", "poll", "reprobe"}
Ensuring  == {"ask", "giveback", "check", "spawn", "wait", "confirm"}
Running   == {"opening", "bind", "advertise", "serving"}

TypeOK ==
  /\ lease \in Session \cup Heavy \cup {NoOne}
  /\ listen \in [Port -> Heavy \cup {NoOne, Stranger}]
  /\ endpoint \in Target \cup {NoFile}
  /\ pc \in [Session -> Resolving \cup Spawning \cup Ensuring
                          \cup {"idle", "attached", "failed", "gone"}]
  /\ offset \in [Session -> Port]
  /\ polls \in [Session -> 0..MaxPolls]
  /\ hand \in [Session -> Target \cup {NoFile}]
  /\ proc \in [Heavy -> Running \cup {"none", "start", "ended"}]
  /\ faults \in 0..MaxFaults /\ raced \in BOOLEAN

\* nobody runs; the endpoint file may be left from an earlier owner, or from a
\* version that wrote only the address
Init ==
  /\ lease = NoOne
  /\ listen = [p \in Port |-> NoOne]
  /\ endpoint \in {NoFile, [port |-> 0, cred |-> NoCred, fp |-> NoModel]}
       \cup [port : {0}, cred : {OldCred}, fp : Model]
  /\ pc = [s \in Session |-> "idle"]
  /\ offset = [s \in Session |-> 0]
  /\ polls = [s \in Session |-> 0]
  /\ hand = [s \in Session |-> NoFile]
  /\ proc = [h \in Heavy |-> "none"]
  /\ faults = 0 /\ raced = FALSE

-----------------------------------------------------------------------------
Goto(s, l) == pc' = [pc EXCEPT ![s] = l]

clean == faults = 0

\* something goes wrong
Falter == faults < MaxFaults /\ faults' = faults + 1

\* port_accepts, endpoint_accepts: a TCP connect succeeds
Accepts(p) == listen[p] # NoOne

\* fingerprint_allows_attach: a target without a fingerprint is let through
Allows(s, t) == t.fp \in {NoModel, ModelOf[s]}

\* what process h advertises: its address, the credential it was handed (or
\* minted) and the fingerprint of the environment it inherited
AdvertOf(h) == [port |-> h[2], cred |-> h[1], fp |-> ModelOf[h[1]]]

\* Mutant of Minted: the credential is not handed on.
MintedBare(s, p) == [port |-> p, cred |-> NoCred, fp |-> ModelOf[s]]

\* the target a session makes up for a port: its own credential and fingerprint
Minted(s, p) == [port |-> p, cred |-> s, fp |-> ModelOf[s]]

Child(s) == <<s, offset[s]>>

-----------------------------------------------------------------------------
(* thin proxy: resolve_or_spawn_heavy *)

\* an explicit target that accepts is taken: it carries no credential and no fingerprint
StartExplicit(s, p) ==
  /\ pc[s] = "idle"
  /\ IF Accepts(p)
     THEN /\ hand' = [hand EXCEPT ![s] = [port |-> p, cred |-> NoCred, fp |-> NoModel]]
          /\ Goto(s, "attached")
     ELSE Goto(s, "look") /\ UNCHANGED hand
  /\ UNCHANGED <<lease, listen, endpoint, offset, polls, proc, faults, raced>>

StartLook(s) ==
  /\ pc[s] = "idle"
  /\ Goto(s, "look")
  /\ UNCHANGED <<lease, listen, endpoint, offset, polls, hand, proc, faults, raced>>

\* read_endpoint_file
Look(s) ==
  /\ pc[s] = "look"
  /\ hand' = [hand EXCEPT ![s] = endpoint]
  /\ Goto(s, IF endpoint = NoFile THEN "recheck" ELSE "probe")
  /\ UNCHANGED <<lease, listen, endpoint, offset, polls, proc, faults, raced>>

\* what was read is of no use any more
Forget(s) == hand' = [hand EXCEPT ![s] = NoFile]

\* another session is at it, or the owner there has another model: the two cases
\* in which the credential a spawner hands out need not be the owner's
EnterSpawn(s) ==
  raced' = (\/ raced
            \/ \E q \in Session \ {s} : pc[q] \in Spawning \cup {"spawn", "wait", "confirm"}
            \/ \E h \in Heavy : h[1] # s /\ proc[h] \in Running \cup {"start"})

\* Mutant of Attach: the advertised port is not tried.
AttachUntried(s) ==
  /\ pc[s] = "probe" /\ Allows(s, hand[s])
  /\ Goto(s, "attached")
  /\ UNCHANGED <<lease, listen, endpoint, offset, polls, hand, proc, faults, raced>>

\* it accepts and the fingerprint fits: attach
Attach(s) ==
  /\ pc[s] = "probe"
  /\ Accepts(hand[s].port) /\ Allows(s, hand[s])
  /\ Goto(s, "attached")
  /\ UNCHANGED <<lease, listen, endpoint, offset, polls, hand, proc, faults, raced>>

\* it accepts but has another model: spawn one of our own
Refuse(s) ==
  /\ pc[s] = "probe"
  /\ Accepts(hand[s].port) /\ ~Allows(s, hand[s])
  /\ Goto(s, "try") /\ EnterSpawn(s) /\ Forget(s)
  /\ UNCHANGED <<lease, listen, endpoint, offset, polls, proc, faults>>

\* it is dead: look again until the deadline
LookAgain(s) ==
  /\ pc[s] = "probe"
  /\ ~Accepts(hand[s].port)
  /\ polls[s] < MaxPolls
  /\ polls' = [polls EXCEPT ![s] = @ + 1]
  /\ Goto(s, "look")
  /\ UNCHANGED <<lease, listen, endpoint, offset, hand, proc, faults, raced>>

GiveUpLooking(s) ==
  /\ pc[s] = "probe"
  /\ ~Accepts(hand[s].port)
  /\ Goto(s, "try") /\ EnterSpawn(s) /\ Forget(s)
  /\ UNCHANGED <<lease, listen, endpoint, offset, polls, proc, faults>>

\* the second read decides whether there is anything to wait for
Recheck(s) ==
  /\ pc[s] = "recheck"
  /\ IF endpoint = NoFile
     THEN Goto(s, "try") /\ EnterSpawn(s)
     ELSE Goto(s, "look") /\ UNCHANGED raced
  /\ UNCHANGED <<lease, listen, endpoint, offset, polls, hand, proc, faults>>

-----------------------------------------------------------------------------
(* thin proxy: spawn_heavy_http and launch_heavy_on_port *)

\* somebody is on our port already
TryTaken(s) ==
  /\ pc[s] = "try" /\ Accepts(offset[s])
  /\ Goto(s, "reuse")
  /\ UNCHANGED <<lease, listen, endpoint, offset, polls, hand, proc, faults, raced>>

\* the file vouches for this port: its target, blanks filled in with ours.
\* Otherwise a target of our own making, whoever is there
Reuse(s) ==
  /\ pc[s] = "reuse"
  /\ hand' = [hand EXCEPT ![s] =
       IF endpoint # NoFile /\ endpoint.port = offset[s] /\ Allows(s, endpoint)
       THEN [endpoint EXCEPT !.cred = IF @ = NoCred THEN s ELSE @,
                             !.fp = IF @ = NoModel THEN ModelOf[s] ELSE @]
       ELSE Minted(s, offset[s])]
  /\ Goto(s, "write")
  /\ UNCHANGED <<lease, listen, endpoint, offset, polls, proc, faults, raced>>

TryLaunch(s) ==
  /\ pc[s] = "try" /\ ~Accepts(offset[s])
  /\ proc' = [proc EXCEPT ![Child(s)] = "start"]
  /\ Goto(s, "await")
  /\ UNCHANGED <<lease, listen, endpoint, offset, polls, hand, faults, raced>>

\* the port accepts: taken for our child, though it may be somebody else
AwaitAccepts(s) ==
  /\ pc[s] = "await" /\ Accepts(offset[s])
  /\ hand' = [hand EXCEPT ![s] = Minted(s, offset[s])]
  /\ Goto(s, "write")
  /\ UNCHANGED <<lease, listen, endpoint, offset, polls, proc, faults, raced>>

AwaitQuiet(s) ==
  /\ pc[s] = "await" /\ ~Accepts(offset[s])
  /\ Goto(s, "poll")
  /\ UNCHANGED <<lease, listen, endpoint, offset, polls, hand, proc, faults, raced>>

\* try_wait: the child still runs
PollAlive(s) ==
  /\ pc[s] = "poll" /\ proc[Child(s)] # "ended"
  /\ Goto(s, "await")
  /\ UNCHANGED <<lease, listen, endpoint, offset, polls, hand, proc, faults, raced>>

\* the next port, or nothing is left to try
NextOffset(s) ==
  /\ Forget(s)
  /\ IF offset[s] < MaxOffset
     THEN offset' = [offset EXCEPT ![s] = @ + 1] /\ Goto(s, "try")
     ELSE Goto(s, "failed") /\ UNCHANGED offset

\* Mutant of PollEnded: the exit of the child is not noticed.
PollEndedUnseen(s) ==
  /\ pc[s] = "poll" /\ proc[Child(s)] = "ended"
  /\ Goto(s, "await")
  /\ UNCHANGED <<lease, listen, endpoint, offset, polls, hand, proc, faults, raced>>

\* try_wait: the child has ended, because it attached or because it failed; the
\* advertised endpoint is read
PollEnded(s) ==
  /\ pc[s] = "poll" /\ proc[Child(s)] = "ended"
  /\ IF endpoint # NoFile /\ Allows(s, endpoint)
     THEN /\ hand' = [hand EXCEPT ![s] = endpoint]
          /\ Goto(s, "reprobe") /\ UNCHANGED offset
     ELSE NextOffset(s)
  /\ UNCHANGED <<lease, listen, endpoint, polls, proc, faults, raced>>

Reprobe(s) ==
  /\ pc[s] = "reprobe"
  /\ IF Accepts(hand[s].port)
     THEN Goto(s, "write") /\ UNCHANGED <<offset, hand>>
     ELSE NextOffset(s)
  /\ UNCHANGED <<lease, listen, endpoint, polls, proc, faults, raced>>

\* the target is advertised for racing sessions; a failed write is ignored
WriteTarget(s) ==
  /\ pc[s] = "write"
  /\ \/ endpoint' = hand[s] /\ UNCHANGED faults
     \/ Failures /\ Falter /\ UNCHANGED endpoint
  /\ Goto(s, "attached")
  /\ UNCHANGED <<lease, listen, offset, polls, hand, proc, raced>>

\* a process ends without a word: its port is closed, its lease record stays
Stop(h) ==
  /\ proc' = [proc EXCEPT ![h] = "ended"]
  /\ listen' = [p \in Port |-> IF listen[p] = h THEN NoOne ELSE listen[p]]

\* HEAVY_READY_TIMEOUT, or the executable cannot be started
LaunchFails(s) ==
  /\ Failures /\ pc[s] = "await"
  /\ Stop(Child(s))
  /\ NextOffset(s)
  /\ Falter
  /\ UNCHANGED <<lease, endpoint, polls, raced>>

-----------------------------------------------------------------------------
(* ensure_owner_running *)

StartEnsure(s) ==
  /\ pc[s] = "idle"
  /\ Goto(s, "ask")
  /\ UNCHANGED <<lease, listen, endpoint, offset, polls, hand, proc, faults, raced>>

\* attach_existing_owner finds a live record and reads the advertised address
AskAttached(s) ==
  /\ pc[s] = "ask" /\ lease # NoOne
  /\ hand' = [hand EXCEPT ![s] = endpoint]
  /\ Goto(s, IF endpoint = NoFile THEN "spawn" ELSE "check")
  /\ UNCHANGED <<lease, listen, endpoint, offset, polls, proc, faults, raced>>

\* it finds none, and so takes the lease itself ...
AskVacant(s) ==
  /\ pc[s] = "ask" /\ lease = NoOne
  /\ lease' = s
  /\ Goto(s, "giveback")
  /\ UNCHANGED <<listen, endpoint, offset, polls, hand, proc, faults, raced>>

\* Mutant of GiveBack: the lease won while asking is kept.
KeepLease(s) ==
  /\ pc[s] = "giveback"
  /\ Goto(s, "spawn")
  /\ UNCHANGED <<lease, listen, endpoint, offset, polls, hand, proc, faults, raced>>

\* ... and gives it back at once
GiveBack(s) ==
  /\ pc[s] = "giveback"
  /\ lease' = IF lease = s THEN NoOne ELSE lease
  /\ Goto(s, "spawn")
  /\ UNCHANGED <<listen, endpoint, offset, polls, hand, proc, faults, raced>>

Check(s) ==
  /\ pc[s] = "check"
  /\ Goto(s, IF Accepts(hand[s].port) THEN "attached" ELSE "spawn")
  /\ UNCHANGED <<lease, listen, endpoint, offset, polls, hand, proc, faults, raced>>

\* spawn_owner_detached: an owner on an ephemeral port
Spawn(s) ==
  /\ pc[s] = "spawn"
  /\ offset' = [offset EXCEPT ![s] = Ephemeral]
  /\ proc' = [proc EXCEPT ![<<s, Ephemeral>>] = "start"]
  /\ Goto(s, "wait") /\ EnterSpawn(s) /\ Forget(s)
  /\ UNCHANGED <<lease, listen, endpoint, polls, faults>>

\* wait_for_advertised_endpoint: read, connect, sleep
WaitRead(s) ==
  /\ pc[s] = "wait" /\ endpoint # NoFile
  /\ hand' = [hand EXCEPT ![s] = endpoint]
  /\ Goto(s, "confirm")
  /\ UNCHANGED <<lease, listen, endpoint, offset, polls, proc, faults, raced>>

Confirm(s) ==
  /\ pc[s] = "confirm"
  /\ Goto(s, IF Accepts(hand[s].port) THEN "attached" ELSE "wait")
  /\ UNCHANGED <<lease, listen, endpoint, offset, polls, hand, proc, faults, raced>>

\* OWNER_READY_TIMEOUT: nothing accepts, and time is up
WaitExpires(s) ==
  /\ \/ pc[s] = "wait"
     \/ pc[s] = "confirm" /\ ~Accepts(hand[s].port)
  /\ Goto(s, "failed") /\ Forget(s)
  /\ UNCHANGED <<lease, listen, endpoint, offset, polls, proc, faults, raced>>

-----------------------------------------------------------------------------
(* the owner process: run_from, become_owner_deferred, serve_owned *)

GotoProc(h, l) == proc' = [proc EXCEPT ![h] = l]

\* a live record: attach, that is, exit without opening the database
OwnerAttaches(h) ==
  /\ proc[h] = "start" /\ lease # NoOne
  /\ GotoProc(h, "ended")
  /\ UNCHANGED <<lease, listen, endpoint, sessions, faults, raced>>

\* Mutant of OwnerAcquires: the record of somebody else is not respected.
OwnerSteals(h) ==
  /\ proc[h] = "start"
  /\ lease' = h
  /\ GotoProc(h, "opening")
  /\ UNCHANGED <<listen, endpoint, sessions, faults, raced>>

OwnerAcquires(h) ==
  /\ proc[h] = "start" /\ lease = NoOne
  /\ lease' = h
  /\ GotoProc(h, "opening")
  /\ UNCHANGED <<listen, endpoint, sessions, faults, raced>>

\* the guard is dropped with the workspace: the record is removed if it is ours
GiveUpLease(h) == lease' = IF lease = h THEN NoOne ELSE lease

\* acquire_resources: the database, the model, the queue, the watcher
OwnerOpens(h) ==
  /\ proc[h] = "opening"
  /\ GotoProc(h, "bind")
  /\ UNCHANGED <<lease, listen, endpoint, sessions, faults, raced>>

OwnerOpenFails(h) ==
  /\ Failures /\ proc[h] = "opening"
  /\ GiveUpLease(h)
  /\ GotoProc(h, "ended")
  /\ Falter
  /\ UNCHANGED <<listen, endpoint, sessions, raced>>

\* bind: from here on the port accepts
OwnerBinds(h) ==
  /\ proc[h] = "bind" /\ listen[h[2]] = NoOne
  /\ listen' = [listen EXCEPT ![h[2]] = h]
  /\ GotoProc(h, "advertise")
  /\ UNCHANGED <<lease, endpoint, sessions, faults, raced>>

OwnerBindFails(h) ==
  /\ proc[h] = "bind" /\ listen[h[2]] # NoOne
  /\ GiveUpLease(h)
  /\ GotoProc(h, "ended")
  /\ UNCHANGED <<listen, endpoint, sessions, faults, raced>>

\* advertise_query_endpoint; a failed write is a warning
OwnerAdvertises(h) ==
  /\ proc[h] = "advertise"
  /\ \/ endpoint' = AdvertOf(h) /\ UNCHANGED faults
     \/ Failures /\ Falter /\ UNCHANGED endpoint
  /\ GotoProc(h, "serving")
  /\ UNCHANGED <<lease, listen, sessions, raced>>

-----------------------------------------------------------------------------
(* what may happen to them *)

OwnerDies(h) ==
  /\ Crashes /\ proc[h] \in Running \cup {"start"}
  /\ Stop(h)
  /\ Falter
  /\ UNCHANGED <<lease, endpoint, sessions, raced>>

SessionDies(s) ==
  /\ Crashes /\ pc[s] \notin {"idle", "failed", "gone"}
  /\ Goto(s, "gone") /\ Forget(s)
  /\ Falter
  /\ UNCHANGED <<lease, listen, endpoint, offset, polls, proc, raced>>

Alive(x) == IF x \in Heavy THEN proc[x] \in Running ELSE pc[x] # "gone"

\* nobody refreshes the record of the dead
LeaseLapses ==
  /\ lease # NoOne /\ ~Alive(lease)
  /\ lease' = NoOne
  /\ UNCHANGED <<listen, endpoint, sessions, proc, faults, raced>>

StrangerBinds(p) ==
  /\ Strangers /\ listen[p] = NoOne
  /\ listen' = [listen EXCEPT ![p] = Stranger]
  /\ Falter
  /\ UNCHANGED <<lease, endpoint, sessions, proc, raced>>

StrangerLeaves(p) ==
  /\ listen[p] = Stranger
  /\ listen' = [listen EXCEPT ![p] = NoOne]
  /\ UNCHANGED <<lease, endpoint, sessions, proc, faults, raced>>

-----------------------------------------------------------------------------
SessionStep(s) ==
  \/ \E p \in Explicit : StartExplicit(s, p)
  \/ StartLook(s) \/ Look(s) \/ Attach(s) \/ Refuse(s)
  \/ LookAgain(s) \/ GiveUpLooking(s) \/ Recheck(s)
  \/ TryTaken(s) \/ Reuse(s) \/ TryLaunch(s) \/ AwaitAccepts(s) \/ AwaitQuiet(s)
  \/ PollAlive(s) \/ PollEnded(s) \/ Reprobe(s) \/ WriteTarget(s)
  \/ StartEnsure(s) \/ AskAttached(s) \/ AskVacant(s) \/ GiveBack(s) \/ Check(s)
  \/ Spawn(s) \/ WaitRead(s) \/ Confirm(s) \/ WaitExpires(s)

OwnerStep(h) ==
  \/ OwnerAttaches(h) \/ OwnerAcquires(h) \/ OwnerOpens(h) \/ OwnerBinds(h)
  \/ OwnerBindFails(h) \/ OwnerAdvertises(h)

Fault ==
  \/ \E s \in Session : LaunchFails(s) \/ SessionDies(s)
  \/ \E h \in Heavy : OwnerOpenFails(h) \/ OwnerDies(h)
  \/ \E p \in Offset : StrangerBinds(p)

Next ==
  \/ \E s \in Session : SessionStep(s)
  \/ \E h \in Heavy : OwnerStep(h)
  \/ LeaseLapses
  \/ \E p \in Port : StrangerLeaves(p)
  \/ Fault

Spec == Init /\ [][Next]_vars

\* sessions that have begun and spawned processes run; a dead holder's record
\* lapses.  Nobody is obliged to begin, and no fault is obliged to happen.
Begun(s) == pc[s] # "idle" /\ SessionStep(s)

FairSpec ==
  /\ Spec
  /\ \A s \in Session : WF_vars(Begun(s)) /\ WF_vars(WaitExpires(s))
  /\ \A h \in Heavy : WF_vars(OwnerStep(h))
  /\ WF_vars(LeaseLapses)

-----------------------------------------------------------------------------
(* Properties *)

\* Of all processes that were spawned at most one holds the lease, the database
\* and the port at a time (Requirement 16.3, lib.rs:12): several sessions may
\* spawn, all processes but one attach and exit.
OneOwner ==
  /\ TypeOK
  /\ \A g, h \in Heavy : proc[g] \in Running /\ proc[h] \in Running => g = h
  /\ \A h \in Heavy : proc[h] \in Running => lease = h

\* While nothing has gone wrong every session that is attached has the address
\* of the one owner that runs, whatever was advertised before: nobody is sent
\* to a dead port by a leftover endpoint file, and the sessions of a repository
\* share one heavy process (proxy.rs:10).
AllReachTheOwner ==
  clean => \A s \in Session :
    pc[s] = "attached" =>
      \E h \in Heavy : /\ listen[hand[s].port] = h
                       /\ proc[h] \in {"advertise", "serving"}

\* A session that attaches is admitted: it presents the credential and the model
\* of the owner it found, if it spawned with no other session at it (so that the
\* port can only be its child's), or if nothing has gone wrong and the address it
\* read is not one left from an earlier owner.
UnracedSessionsAreAdmitted ==
  [][\A s \in Session :
       /\ pc[s] # "attached" /\ pc'[s] = "attached"
       /\ ~raced
       /\ pc[s] = "write" \/ (clean /\ hand'[s].cred \in Session)
       => LET h == listen[hand'[s].port] IN h \in Heavy => hand'[s] = AdvertOf(h)]_vars

\* A session that has begun comes to rest: it attaches or it gives up. The
\* loops over ports, children and the endpoint file all end.
SessionsSettle ==
  \A s \in Session : pc[s] # "idle" ~> pc[s] \in {"attached", "failed", "gone"}

\* While nothing goes wrong a session that spawned leaves an owner behind,
\* although every child but one exits, and although a caller of
\* attach_existing_owner holds the lease for a moment.
SomeoneServes ==
  \A s \in Session :
    pc[s] \in {"await", "wait"} ~> (~clean \/ \E h \in Heavy : proc[h] = "serving")

\* Starting up ends, with an owner when nothing goes wrong.
StartupEnds == SessionsSettle /\ SomeoneServes
=============================================================================
