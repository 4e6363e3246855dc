------------------------------- MODULE Lease -------------------------------
(***************************************************************************)
(* The repository-scoped ownership lease of crates/cognis-core/src/lease.rs *)
(* for ONE role: several processes, one lease file, no lock.  Every file   *)
(* operation of the code (read_lease, the rename of write_lease_atomic,    *)
(* remove_file) is an atomic step of its own; what a process does between  *)
(* two of them may interleave with every other process.                    *)
(*                                                                         *)
(* Time is the time LEFT to each record (expiry - now), so is_live_at is   *)
(* left > 0 and Tick lowers every record, on disk or about to be written.  *)
(***************************************************************************)
EXTENDS Integers

CONSTANTS
  Proc,      \* OS processes; one that dies is not restarted: a restart is another element
  NoLease,   \* "the lease file does not exist"
  TTL,       \* the lease window (DEFAULT_LEASE_TTL, owner.lease_ttl_s), in ticks
  MaxNonce,  \* bound: records a process may create
  Serial,    \* environment: no two processes are inside acquire_or_attach at once
  Timely,    \* environment: no live process lets its record lapse
  IOErrors   \* environment: reads and writes of the file may fail

Records == [owner : Proc, nonce : 1..MaxNonce, left : 0..TTL]

ASSUME LeaseAssumption ==
  /\ TTL \in Nat \ {0}
  /\ MaxNonce \in Nat
  /\ NoLease \notin Records
  /\ {Serial, Timely, IOErrors} \subseteq BOOLEAN

VARIABLES
  file,     \* the lease file: NoLease or a record
  pc,       \* where each process is in acquire_or_attach, in its tenure or in release
  hb,       \* the heartbeat thread of each LeaseGuard
  nonce,    \* number of the last owner_nonce each process generated
  left,     \* the time left to the record each process is about to write
  retired   \* history: nonces given up (released, or seen replaced by a newer owner)

vars == <<file, pc, hb, nonce, left, retired>>

-----------------------------------------------------------------------------
Acquiring == {"write", "verify", "rewrite", "reverify", "restore", "adopt"}
Tenure    == {"held", "stopping", "unlink"}
Phases    == Acquiring \cup Tenure \cup {"idle", "attached", "dead"}

\* The types. No record, on disk or about to be written, claims the lease for longer
\* than one window from now, however often it was refreshed (lease.rs:202): a crash
\* never locks the others out for more.
TypeOK ==
  /\ file \in Records \cup {NoLease}
  /\ pc \in [Proc -> Phases]
  /\ hb \in [Proc -> {"off", "sleep", "due", "write", "ended"}]
  /\ nonce \in [Proc -> 0..MaxNonce]
  /\ left \in [Proc -> 0..TTL]
  /\ retired \subseteq Proc \X (1..MaxNonce)

Init ==
  /\ file = NoLease
  /\ pc = [p \in Proc |-> "idle"]
  /\ hb = [p \in Proc |-> "off"]
  /\ nonce = [p \in Proc |-> 0]
  /\ left = [p \in Proc |-> 0]
  /\ retired = {}

\* Mutants of Live: a reader that ignores expiry, that takes every record for
\* expired, or that asks for a heartbeat of this very instant.
LiveForever(r) == TRUE
LiveNever(r) == FALSE
LiveWhenFresh(r) == r.left = TTL

\* is_live_at: now < expiry
Live(r) == r.left > 0

OnDisk == file # NoLease
Stored(p) == OnDisk /\ file.owner = p /\ file.nonce = nonce[p]
MyRecord(p) == [owner |-> p, nonce |-> nonce[p], left |-> left[p]]

Goto(p, l) == pc' = [pc EXCEPT ![p] = l]

\* new_owner_record: a nonce nobody has used, and a full window
NewRecord(p) ==
  /\ nonce[p] < MaxNonce
  /\ nonce' = [nonce EXCEPT ![p] = @ + 1]
  /\ left' = [left EXCEPT ![p] = TTL]

Retire(p) == retired' = retired \cup {<<p, nonce[p]>>}

\* spawn_guard: the heartbeat thread starts with a sleep
SpawnGuard(p) == Goto(p, "held") /\ hb' = [hb EXCEPT ![p] = "sleep"]

-----------------------------------------------------------------------------
(* acquire_or_attach *)

\* first read: another process' live record is attached to
CallAttach(p) ==
  /\ pc[p] = "idle"
  /\ OnDisk /\ Live(file) /\ file.owner # p
  /\ Goto(p, "attached")
  /\ UNCHANGED <<file, hb, nonce, left, retired>>

\* first read: absent, expired, or this very process' record is reclaimed
CallReclaim(p) ==
  /\ pc[p] = "idle"
  /\ ~(OnDisk /\ Live(file) /\ file.owner # p)
  /\ Serial => \A q \in Proc : pc[q] \notin Acquiring
  /\ NewRecord(p)
  /\ Goto(p, "write")
  /\ UNCHANGED <<file, hb, retired>>

\* write_lease_atomic renames over whatever is there by now
Write(p) ==
  /\ pc[p] \in {"write", "rewrite"}
  /\ file' = MyRecord(p)
  /\ Goto(p, IF pc[p] = "write" THEN "verify" ELSE "reverify")
  /\ UNCHANGED <<hb, nonce, left, retired>>

\* the verifying read finds our nonce
VerifyOwn(p) ==
  /\ pc[p] \in {"verify", "reverify"}
  /\ Stored(p)
  /\ SpawnGuard(p)
  /\ UNCHANGED <<file, nonce, left, retired>>

\* the verifying read finds somebody else: attach; the final read does not ask
\* whether that record is live
VerifyLost(p) ==
  /\ pc[p] \in {"verify", "reverify"}
  /\ OnDisk /\ ~Stored(p)
  /\ pc[p] = "verify" => Live(file)
  /\ Retire(p)
  /\ Goto(p, "attached")
  /\ UNCHANGED <<file, hb, nonce, left>>

\* the winner has expired already: retry once with a fresh record
VerifyExpired(p) ==
  /\ pc[p] = "verify"
  /\ OnDisk /\ ~Stored(p) /\ ~Live(file)
  /\ Retire(p)
  /\ NewRecord(p)
  /\ Goto(p, "rewrite")
  /\ UNCHANGED <<file, hb>>

\* the file vanished: a fresh record that is then not verified
VerifyVanished(p) ==
  /\ pc[p] = "verify"
  /\ ~OnDisk
  /\ Retire(p)
  /\ NewRecord(p)
  /\ Goto(p, "adopt")
  /\ UNCHANGED <<file, hb>>

\* the file vanished at the final read: the same record again
ReverifyVanished(p) ==
  /\ pc[p] = "reverify"
  /\ ~OnDisk
  /\ Goto(p, "restore")
  /\ UNCHANGED <<file, hb, nonce, left, retired>>

\* acquired without a verifying read; "restore" ignores a failed write
WriteUnverified(p) ==
  /\ pc[p] \in {"adopt", "restore"}
  /\ \/ file' = MyRecord(p)
     \/ IOErrors /\ pc[p] = "restore" /\ UNCHANGED file
  /\ SpawnGuard(p)
  /\ UNCHANGED <<nonce, left, retired>>

\* a read or a write fails: acquire_or_attach returns Err, what it wrote stays
AcquireFails(p) ==
  /\ IOErrors
  /\ pc[p] \in Acquiring \ {"restore"}
  /\ Goto(p, "idle")
  /\ UNCHANGED <<file, hb, nonce, left, retired>>

\* an attached process gives up its attachment and may call again
Detach(p) ==
  /\ pc[p] = "attached"
  /\ Goto(p, "idle")
  /\ UNCHANGED <<file, hb, nonce, left, retired>>

-----------------------------------------------------------------------------
(* HeldLease::heartbeat, on the thread spawn_guard starts *)

\* the thread wakes up and sees that it is not stopped; the flag may be set
\* right after, so that one more beat happens during release
BeatDue(p) ==
  /\ pc[p] = "held" /\ hb[p] = "sleep"
  /\ hb' = [hb EXCEPT ![p] = "due"]
  /\ UNCHANGED <<file, pc, nonce, left, retired>>

\* Mutant of BeatRead: the expiry read is put off by a window, instead of set to
\* a window from now.
BeatExtends(p) ==
  /\ hb[p] = "due"
  /\ OnDisk => Stored(p)
  /\ left' = [left EXCEPT ![p] = IF OnDisk THEN file.left + TTL ELSE TTL]
  /\ hb' = [hb EXCEPT ![p] = "write"]
  /\ UNCHANGED <<file, pc, nonce, retired>>

\* a beat reads our nonce or no file
BeatRead(p) ==
  /\ hb[p] = "due"
  /\ OnDisk => Stored(p)
  /\ left' = [left EXCEPT ![p] = TTL]
  /\ hb' = [hb EXCEPT ![p] = "write"]
  /\ UNCHANGED <<file, pc, nonce, retired>>

BeatWrite(p) ==
  /\ hb[p] = "write"
  /\ file' = MyRecord(p)
  /\ hb' = [hb EXCEPT ![p] = "sleep"]
  /\ UNCHANGED <<pc, nonce, left, retired>>

\* a beat reads another nonce: the loop ends, the daemon goes on
BeatLost(p) ==
  /\ hb[p] = "due"
  /\ OnDisk /\ ~Stored(p)
  /\ hb' = [hb EXCEPT ![p] = "ended"]
  /\ Retire(p)
  /\ UNCHANGED <<file, pc, nonce, left>>

\* a beat cannot read or write the file: the loop ends, the daemon goes on
BeatFails(p) ==
  /\ IOErrors
  /\ hb[p] \in {"due", "write"}
  /\ hb' = [hb EXCEPT ![p] = "ended"]
  /\ UNCHANGED <<file, pc, nonce, left, retired>>

-----------------------------------------------------------------------------
(* LeaseGuard::release and Drop: stop_and_join, then HeldLease::release *)

Stop(p) ==
  /\ pc[p] = "held"
  /\ Goto(p, "stopping")
  /\ UNCHANGED <<file, hb, nonce, left, retired>>

\* Mutant of Join: the thread is told to stop and not waited for.
JoinNotWaited(p) == UNCHANGED hb

\* stop_and_join: the thread is not inside a beat when it ends
Join(p) ==
  /\ hb[p] \in {"sleep", "ended"}
  /\ hb' = [hb EXCEPT ![p] = "off"]

\* joined; the read finds our nonce
ReleaseOwn(p) ==
  /\ pc[p] = "stopping" /\ Join(p)
  /\ Stored(p)
  /\ Goto(p, "unlink")
  /\ UNCHANGED <<file, nonce, left, retired>>

\* joined; the file is missing or somebody else's: nothing to remove
ReleaseNothing(p) ==
  /\ pc[p] = "stopping" /\ Join(p)
  /\ ~Stored(p)
  /\ Goto(p, "idle")
  /\ Retire(p)
  /\ UNCHANGED <<file, nonce, left>>

\* remove_file removes the path, whatever is there by now
Unlink(p) ==
  /\ pc[p] = "unlink"
  /\ file' = NoLease
  /\ Goto(p, "idle")
  /\ Retire(p)
  /\ UNCHANGED <<hb, nonce, left>>

\* the read or the remove fails; Drop ignores it and the record stays
ReleaseFails(p) ==
  /\ IOErrors
  /\ \/ pc[p] = "unlink" /\ UNCHANGED hb
     \/ pc[p] = "stopping" /\ Join(p)
  /\ Goto(p, "idle")
  /\ UNCHANGED <<file, nonce, left, retired>>

-----------------------------------------------------------------------------
\* kill, panic or power loss at any point: every thread is gone, the file stays
Crash(p) ==
  /\ pc[p] # "dead"
  /\ Goto(p, "dead")
  /\ hb' = [hb EXCEPT ![p] = "off"]
  /\ UNCHANGED <<file, nonce, left, retired>>

AboutToWrite(p) ==
  pc[p] \in {"write", "rewrite", "adopt", "restore"} \/ hb[p] = "write"

\* p is running and its record would lapse with the next tick
WouldLapse(p) ==
  /\ pc[p] \in Acquiring \cup Tenure
  /\ \/ AboutToWrite(p) /\ left[p] <= 1
     \/ Stored(p) /\ file.left <= 1

\* nothing tells apart how long ago a record expired
Older(t) == IF t = 0 THEN 0 ELSE t - 1

Tick ==
  /\ Timely => \A p \in Proc : ~WouldLapse(p)
  /\ file' = IF OnDisk THEN [file EXCEPT !.left = Older(@)] ELSE file
  /\ left' = [p \in Proc |-> Older(left[p])]
  /\ UNCHANGED <<pc, hb, nonce, retired>>

-----------------------------------------------------------------------------
Call(p) == CallAttach(p) \/ CallReclaim(p)

\* what a call goes through after its first read
Acquire(p) ==
  \/ Write(p)
  \/ VerifyOwn(p) \/ VerifyLost(p) \/ VerifyExpired(p) \/ VerifyVanished(p)
  \/ ReverifyVanished(p) \/ WriteUnverified(p)

Beat(p) == BeatDue(p) \/ BeatRead(p) \/ BeatWrite(p) \/ BeatLost(p)

Release(p) == ReleaseOwn(p) \/ ReleaseNothing(p) \/ Unlink(p)

Next ==
  \/ \E p \in Proc :
       \/ Call(p) \/ Acquire(p) \/ AcquireFails(p) \/ Detach(p)
       \/ Beat(p) \/ BeatFails(p)
       \/ Stop(p) \/ Release(p) \/ ReleaseFails(p)
       \/ Crash(p)
  \/ Tick

Spec == Init /\ [][Next]_vars

\* Threads that are not killed are scheduled and time passes. Nobody is obliged to call,
\* to call again after a refusal, or to release.
Fairness ==
  /\ \A p \in Proc :
       WF_vars(Acquire(p)) /\ WF_vars(Beat(p)) /\ WF_vars(Release(p))
  /\ WF_vars(Tick)

FairSpec == Spec /\ Fairness

-----------------------------------------------------------------------------
(* Safety that holds whatever the interleaving, crashes and I/O errors *)

\* A nonce that was released, or that its process saw replaced, never comes
\* back to the lease file: stop_and_join ends the heartbeat thread before
\* HeldLease::release looks at the file, and a beat that meets another nonce
\* ends the loop.
RetiredNonceGone == OnDisk => <<file.owner, file.nonce>> \notin retired

\* As long as the file can be read and written, the record on disk is always
\* the latest record of a process that is still acquiring, holding or releasing
\* it, or that died: no early return of acquire_or_attach and no lost heartbeat
\* leaves behind a record that newcomers would attach to in vain.
RecordHasOwner ==
  ~IOErrors /\ OnDisk =>
    /\ file.nonce = nonce[file.owner]
    /\ pc[file.owner] \in Acquiring \cup Tenure \cup {"dead"}

-----------------------------------------------------------------------------
(* What the module documentation promises; see the README for the          *)
(* environment each of these needs.                                        *)

Serving(p) == pc[p] = "held"

\* lease.rs:32-35, 125-126: with a live lease in place a second process
\* attaches and does not become a second heavy owner.
MutualExclusion ==
  \A p, q \in Proc : Serving(p) /\ Serving(q) => p = q

Foreign(p) == OnDisk /\ file.owner # p

\* A former owner spares the record of a newer one: a heartbeat refuses to clobber
\* the record of a process that reclaimed the file underneath it (lease.rs:203-204),
\* and release removes the file only when it is still ours (lease.rs:40-42).
SparesNewer ==
  [][\A p \in Proc :
       \/ hb[p] = "write" /\ hb'[p] = "sleep"
       \/ pc[p] = "unlink" /\ pc'[p] = "idle" /\ file' = NoLease
       => ~Foreign(p)]_vars

\* A process may be refused time and again only while somebody gets to serve time and
\* again: the record of an owner that died, failed to beat or stopped does not refuse
\* callers for ever (lease.rs:296-297).
RefusedWhileServed ==
  \A p \in Proc :
    []<>(pc[p] = "idle") /\ []<>(pc[p] = "attached") => []<>(\E q \in Proc : Serving(q))
=============================================================================
