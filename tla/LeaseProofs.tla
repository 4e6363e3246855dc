---------------------------- MODULE LeaseProofs ----------------------------
(***************************************************************************)
(* Proofs about Lease for every number of processes, every window and      *)
(* every bound on nonces.  Each invariant is proved one action at a time.  *)
(***************************************************************************)
EXTENDS Lease, TLAPS

-----------------------------------------------------------------------------
(* Type correctness.  A record is only well typed once its process has     *)
(* generated a nonce, and a heartbeat thread only lives during the tenure. *)

Numbered ==
  \A p \in Proc :
    /\ pc[p] \in Acquiring \cup Tenure => nonce[p] \in 1..MaxNonce
    /\ hb[p] # "off" => pc[p] \in {"held", "stopping"}

TypeInv == TypeOK /\ Numbered

\* The typing invariant is inductive: whatever step acquire_or_attach, the
\* heartbeat thread, release, a crash or the clock takes.
LEMMA TypeInvStep == TypeInv /\ [Next]_vars => TypeInv'
<1> SUFFICES ASSUME TypeInv, [Next]_vars PROVE TypeInv'
  OBVIOUS
<1> USE LeaseAssumption
    DEF TypeInv, Numbered, TypeOK, Records, Phases, Acquiring, Tenure,
        Goto, NewRecord, Retire, SpawnGuard, MyRecord, OnDisk, Stored, Live
<1>1. ASSUME NEW p \in Proc, CallAttach(p) PROVE TypeInv'
  BY <1>1 DEF CallAttach
<1>2. ASSUME NEW p \in Proc, CallReclaim(p) PROVE TypeInv'
  BY <1>2 DEF CallReclaim
<1>3. ASSUME NEW p \in Proc, Write(p) PROVE TypeInv'
  BY <1>3 DEF Write
<1>4. ASSUME NEW p \in Proc, VerifyOwn(p) PROVE TypeInv'
  BY <1>4 DEF VerifyOwn
<1>5. ASSUME NEW p \in Proc, VerifyLost(p) PROVE TypeInv'
  BY <1>5 DEF VerifyLost
<1>6. ASSUME NEW p \in Proc, VerifyExpired(p) PROVE TypeInv'
  BY <1>6 DEF VerifyExpired
<1>7. ASSUME NEW p \in Proc, VerifyVanished(p) PROVE TypeInv'
  BY <1>7 DEF VerifyVanished
<1>8. ASSUME NEW p \in Proc, ReverifyVanished(p) PROVE TypeInv'
  BY <1>8 DEF ReverifyVanished
<1>9. ASSUME NEW p \in Proc, WriteUnverified(p) PROVE TypeInv'
  BY <1>9 DEF WriteUnverified
<1>10. ASSUME NEW p \in Proc, AcquireFails(p) PROVE TypeInv'
  BY <1>10 DEF AcquireFails
<1>11. ASSUME NEW p \in Proc, Detach(p) PROVE TypeInv'
  BY <1>11 DEF Detach
<1>12. ASSUME NEW p \in Proc, BeatDue(p) PROVE TypeInv'
  BY <1>12 DEF BeatDue
<1>13. ASSUME NEW p \in Proc, BeatRead(p) PROVE TypeInv'
  BY <1>13 DEF BeatRead
<1>14. ASSUME NEW p \in Proc, BeatWrite(p) PROVE TypeInv'
  BY <1>14 DEF BeatWrite
<1>15. ASSUME NEW p \in Proc, BeatLost(p) PROVE TypeInv'
  BY <1>15 DEF BeatLost
<1>16. ASSUME NEW p \in Proc, BeatFails(p) PROVE TypeInv'
  BY <1>16 DEF BeatFails
<1>17. ASSUME NEW p \in Proc, Stop(p) PROVE TypeInv'
  BY <1>17 DEF Stop
<1>18. ASSUME NEW p \in Proc, ReleaseOwn(p) PROVE TypeInv'
  BY <1>18 DEF ReleaseOwn, Join
<1>19. ASSUME NEW p \in Proc, ReleaseNothing(p) PROVE TypeInv'
  BY <1>19 DEF ReleaseNothing, Join
<1>20. ASSUME NEW p \in Proc, Unlink(p) PROVE TypeInv'
  BY <1>20 DEF Unlink
<1>21. ASSUME NEW p \in Proc, ReleaseFails(p) PROVE TypeInv'
  BY <1>21 DEF ReleaseFails, Join
<1>22. ASSUME NEW p \in Proc, Crash(p) PROVE TypeInv'
  BY <1>22 DEF Crash
<1>23. CASE Tick
  BY <1>23 DEF Tick, Older
<1>24. CASE UNCHANGED vars
  BY <1>24 DEF vars
<1> QED
  BY <1>1, <1>2, <1>3, <1>4, <1>5, <1>6, <1>7, <1>8, <1>9, <1>10, <1>11,
     <1>12, <1>13, <1>14, <1>15, <1>16, <1>17, <1>18, <1>19, <1>20,
     <1>21, <1>22, <1>23, <1>24
     DEF Next, Call, Acquire, Beat, Release

\* Every variable keeps its type whatever acquire_or_attach, the heartbeat
\* threads, release and crashes do; in particular no record on disk is older
\* than its window or carries a nonce nobody generated.
THEOREM TypeCorrect == Spec => []TypeOK
<1>1. Init => TypeInv
  BY LeaseAssumption
     DEF Init, TypeInv, Numbered, TypeOK, Phases, Acquiring, Tenure
<1>2. TypeInv => TypeOK
  BY DEF TypeInv
<1> QED BY <1>1, <1>2, TypeInvStep, PTL DEF Spec

-----------------------------------------------------------------------------
(* A nonce that was given up never comes back.  By itself RetiredNonceGone  *)
(* is not inductive: the step that could break it is a write, so the        *)
(* invariant must also say that nobody is about to write a retired nonce.   *)

NothingToRetry ==
  \A p \in Proc :
    <<p, nonce[p]>> \in retired =>
      pc[p] \notin Acquiring /\ hb[p] \in {"off", "ended"}

RetiredAreOld == \A p \in Proc, k \in Nat : <<p, k>> \in retired => k <= nonce[p]

RetiredInv == NothingToRetry /\ RetiredAreOld /\ RetiredNonceGone

LEMMA RetiredInvStep ==
  TypeInv /\ RetiredInv /\ [Next]_vars => RetiredInv'
<1> SUFFICES ASSUME TypeInv, RetiredInv, [Next]_vars PROVE RetiredInv'
  OBVIOUS
<1> USE LeaseAssumption
    DEF TypeInv, Numbered, TypeOK, Records, Phases, Acquiring, Tenure,
        Goto, NewRecord, Retire, SpawnGuard, MyRecord, OnDisk, Stored, Live,
        RetiredInv, NothingToRetry, RetiredAreOld, RetiredNonceGone
<1>1. ASSUME NEW p \in Proc, CallAttach(p) PROVE RetiredInv'
  BY <1>1 DEF CallAttach
<1>2. ASSUME NEW p \in Proc, CallReclaim(p) PROVE RetiredInv'
  BY <1>2 DEF CallReclaim
<1>3. ASSUME NEW p \in Proc, Write(p) PROVE RetiredInv'
  BY <1>3 DEF Write
<1>4. ASSUME NEW p \in Proc, VerifyOwn(p) PROVE RetiredInv'
  BY <1>4 DEF VerifyOwn
<1>5. ASSUME NEW p \in Proc, VerifyLost(p) PROVE RetiredInv'
  BY <1>5 DEF VerifyLost
<1>6. ASSUME NEW p \in Proc, VerifyExpired(p) PROVE RetiredInv'
  BY <1>6 DEF VerifyExpired
<1>7. ASSUME NEW p \in Proc, VerifyVanished(p) PROVE RetiredInv'
  BY <1>7 DEF VerifyVanished
<1>8. ASSUME NEW p \in Proc, ReverifyVanished(p) PROVE RetiredInv'
  BY <1>8 DEF ReverifyVanished
<1>9. ASSUME NEW p \in Proc, WriteUnverified(p) PROVE RetiredInv'
  BY <1>9 DEF WriteUnverified
<1>10. ASSUME NEW p \in Proc, AcquireFails(p) PROVE RetiredInv'
  BY <1>10 DEF AcquireFails
<1>11. ASSUME NEW p \in Proc, Detach(p) PROVE RetiredInv'
  BY <1>11 DEF Detach
<1>12. ASSUME NEW p \in Proc, BeatDue(p) PROVE RetiredInv'
  BY <1>12 DEF BeatDue
<1>13. ASSUME NEW p \in Proc, BeatRead(p) PROVE RetiredInv'
  BY <1>13 DEF BeatRead
<1>14. ASSUME NEW p \in Proc, BeatWrite(p) PROVE RetiredInv'
  BY <1>14 DEF BeatWrite
<1>15. ASSUME NEW p \in Proc, BeatLost(p) PROVE RetiredInv'
  BY <1>15 DEF BeatLost
<1>16. ASSUME NEW p \in Proc, BeatFails(p) PROVE RetiredInv'
  BY <1>16 DEF BeatFails
<1>17. ASSUME NEW p \in Proc, Stop(p) PROVE RetiredInv'
  BY <1>17 DEF Stop
<1>18. ASSUME NEW p \in Proc, ReleaseOwn(p) PROVE RetiredInv'
  BY <1>18 DEF ReleaseOwn, Join
<1>19. ASSUME NEW p \in Proc, ReleaseNothing(p) PROVE RetiredInv'
  BY <1>19 DEF ReleaseNothing, Join
<1>20. ASSUME NEW p \in Proc, Unlink(p) PROVE RetiredInv'
  BY <1>20 DEF Unlink
<1>21. ASSUME NEW p \in Proc, ReleaseFails(p) PROVE RetiredInv'
  BY <1>21 DEF ReleaseFails, Join
<1>22. ASSUME NEW p \in Proc, Crash(p) PROVE RetiredInv'
  BY <1>22 DEF Crash
<1>23. CASE Tick
  BY <1>23 DEF Tick, Older
<1>24. CASE UNCHANGED vars
  BY <1>24 DEF vars
<1> QED
  BY <1>1, <1>2, <1>3, <1>4, <1>5, <1>6, <1>7, <1>8, <1>9, <1>10, <1>11,
     <1>12, <1>13, <1>14, <1>15, <1>16, <1>17, <1>18, <1>19, <1>20,
     <1>21, <1>22, <1>23, <1>24
     DEF Next, Call, Acquire, Beat, Release

\* Released, overwritten or vanished: once a process has given a nonce up, or
\* has seen a newer owner in the file, no later step of any process puts that
\* nonce back on disk.  This is what joining the heartbeat thread before
\* HeldLease::release buys.
THEOREM RetiredNonceStaysGone == Spec => []RetiredNonceGone
<1>1. Init => TypeInv /\ RetiredInv
  BY LeaseAssumption
     DEF Init, TypeInv, Numbered, TypeOK, Phases, Acquiring, Tenure, OnDisk,
         RetiredInv, NothingToRetry, RetiredAreOld, RetiredNonceGone
<1>2. TypeInv /\ RetiredInv => RetiredNonceGone
  BY DEF RetiredInv
<1> QED BY <1>1, <1>2, TypeInvStep, RetiredInvStep, PTL DEF Spec

-----------------------------------------------------------------------------
(* No record without an owner: inductive as it stands, because a process    *)
(* only leaves its tenure after it unlinked its record or saw another one.  *)

LEMMA RecordHasOwnerStep ==
  TypeInv /\ RecordHasOwner /\ [Next]_vars => RecordHasOwner'
<1> SUFFICES ASSUME TypeInv, RecordHasOwner, [Next]_vars PROVE RecordHasOwner'
  OBVIOUS
<1> USE LeaseAssumption
    DEF TypeInv, Numbered, TypeOK, Records, Phases, Acquiring, Tenure,
        Goto, NewRecord, Retire, SpawnGuard, MyRecord, OnDisk, Stored, Live,
        RecordHasOwner
<1>1. ASSUME NEW p \in Proc, CallAttach(p) PROVE RecordHasOwner'
  BY <1>1 DEF CallAttach
<1>2. ASSUME NEW p \in Proc, CallReclaim(p) PROVE RecordHasOwner'
  BY <1>2 DEF CallReclaim
<1>3. ASSUME NEW p \in Proc, Write(p) PROVE RecordHasOwner'
  BY <1>3 DEF Write
<1>4. ASSUME NEW p \in Proc, VerifyOwn(p) PROVE RecordHasOwner'
  BY <1>4 DEF VerifyOwn
<1>5. ASSUME NEW p \in Proc, VerifyLost(p) PROVE RecordHasOwner'
  BY <1>5 DEF VerifyLost
<1>6. ASSUME NEW p \in Proc, VerifyExpired(p) PROVE RecordHasOwner'
  BY <1>6 DEF VerifyExpired
<1>7. ASSUME NEW p \in Proc, VerifyVanished(p) PROVE RecordHasOwner'
  BY <1>7 DEF VerifyVanished
<1>8. ASSUME NEW p \in Proc, ReverifyVanished(p) PROVE RecordHasOwner'
  BY <1>8 DEF ReverifyVanished
<1>9. ASSUME NEW p \in Proc, WriteUnverified(p) PROVE RecordHasOwner'
  BY <1>9 DEF WriteUnverified
<1>10. ASSUME NEW p \in Proc, AcquireFails(p) PROVE RecordHasOwner'
  BY <1>10 DEF AcquireFails
<1>11. ASSUME NEW p \in Proc, Detach(p) PROVE RecordHasOwner'
  BY <1>11 DEF Detach
<1>12. ASSUME NEW p \in Proc, BeatDue(p) PROVE RecordHasOwner'
  BY <1>12 DEF BeatDue
<1>13. ASSUME NEW p \in Proc, BeatRead(p) PROVE RecordHasOwner'
  BY <1>13 DEF BeatRead
<1>14. ASSUME NEW p \in Proc, BeatWrite(p) PROVE RecordHasOwner'
  BY <1>14 DEF BeatWrite
<1>15. ASSUME NEW p \in Proc, BeatLost(p) PROVE RecordHasOwner'
  BY <1>15 DEF BeatLost
<1>16. ASSUME NEW p \in Proc, BeatFails(p) PROVE RecordHasOwner'
  BY <1>16 DEF BeatFails
<1>17. ASSUME NEW p \in Proc, Stop(p) PROVE RecordHasOwner'
  BY <1>17 DEF Stop
<1>18. ASSUME NEW p \in Proc, ReleaseOwn(p) PROVE RecordHasOwner'
  BY <1>18 DEF ReleaseOwn, Join
<1>19. ASSUME NEW p \in Proc, ReleaseNothing(p) PROVE RecordHasOwner'
  BY <1>19 DEF ReleaseNothing, Join
<1>20. ASSUME NEW p \in Proc, Unlink(p) PROVE RecordHasOwner'
  BY <1>20 DEF Unlink
<1>21. ASSUME NEW p \in Proc, ReleaseFails(p) PROVE RecordHasOwner'
  BY <1>21 DEF ReleaseFails, Join
<1>22. ASSUME NEW p \in Proc, Crash(p) PROVE RecordHasOwner'
  BY <1>22 DEF Crash
<1>23. CASE Tick
  BY <1>23 DEF Tick, Older
<1>24. CASE UNCHANGED vars
  BY <1>24 DEF vars
<1> QED
  BY <1>1, <1>2, <1>3, <1>4, <1>5, <1>6, <1>7, <1>8, <1>9, <1>10, <1>11,
     <1>12, <1>13, <1>14, <1>15, <1>16, <1>17, <1>18, <1>19, <1>20,
     <1>21, <1>22, <1>23, <1>24
     DEF Next, Call, Acquire, Beat, Release

\* While the file system works, whatever the interleaving, a process that
\* attaches always attaches to a process that is in its tenure, still acquiring,
\* or dead; a dead one's record expires.
THEOREM RecordAlwaysHasOwner == Spec => []RecordHasOwner
<1>1. Init => TypeInv /\ RecordHasOwner
  BY LeaseAssumption
     DEF Init, TypeInv, Numbered, TypeOK, Phases, Acquiring, Tenure, OnDisk,
         RecordHasOwner
<1> QED BY <1>1, TypeInvStep, RecordHasOwnerStep, PTL DEF Spec

-----------------------------------------------------------------------------
(* One owner, when starts do not overlap and no live record lapses.  The    *)
(* invariant: whoever has written and not yet left finds its own live       *)
(* record on disk, so that no newcomer gets past the first read.            *)

Claims(p) == pc[p] \in {"verify"} \cup Tenure

ClaimOnDisk == \A p \in Proc : Claims(p) => Stored(p) /\ Live(file)

WriterAlone ==
  \A p \in Proc :
    /\ pc[p] \notin {"rewrite", "reverify", "restore", "adopt"}
    /\ pc[p] = "write" => left[p] > 0 /\ \A q \in Proc : ~Claims(q)
    /\ hb[p] = "write" => left[p] > 0
    /\ \A q \in Proc : pc[p] \in Acquiring /\ pc[q] \in Acquiring => p = q

SerialInv == ClaimOnDisk /\ WriterAlone

LEMMA SerialInvStep ==
  ASSUME Serial, Timely
  PROVE  TypeInv /\ SerialInv /\ [Next]_vars => SerialInv'
<1> SUFFICES ASSUME TypeInv, SerialInv, [Next]_vars PROVE SerialInv'
  OBVIOUS
<1> USE LeaseAssumption
    DEF TypeInv, Numbered, TypeOK, Records, Phases, Acquiring, Tenure,
        Goto, NewRecord, Retire, SpawnGuard, MyRecord, OnDisk, Stored, Live,
        SerialInv, ClaimOnDisk, WriterAlone, Claims
<1>1. ASSUME NEW p \in Proc, CallAttach(p) PROVE SerialInv'
  BY <1>1 DEF CallAttach
<1>2. ASSUME NEW p \in Proc, CallReclaim(p) PROVE SerialInv'
  BY <1>2 DEF CallReclaim
<1>3. ASSUME NEW p \in Proc, Write(p) PROVE SerialInv'
  BY <1>3 DEF Write
<1>4. ASSUME NEW p \in Proc, VerifyOwn(p) PROVE SerialInv'
  BY <1>4 DEF VerifyOwn
<1>5. ASSUME NEW p \in Proc, VerifyLost(p) PROVE SerialInv'
  BY <1>5 DEF VerifyLost
<1>6. ASSUME NEW p \in Proc, VerifyExpired(p) PROVE SerialInv'
  BY <1>6 DEF VerifyExpired
<1>7. ASSUME NEW p \in Proc, VerifyVanished(p) PROVE SerialInv'
  BY <1>7 DEF VerifyVanished
<1>8. ASSUME NEW p \in Proc, ReverifyVanished(p) PROVE SerialInv'
  BY <1>8 DEF ReverifyVanished
<1>9. ASSUME NEW p \in Proc, WriteUnverified(p) PROVE SerialInv'
  BY <1>9 DEF WriteUnverified
<1>10. ASSUME NEW p \in Proc, AcquireFails(p) PROVE SerialInv'
  BY <1>10 DEF AcquireFails
<1>11. ASSUME NEW p \in Proc, Detach(p) PROVE SerialInv'
  BY <1>11 DEF Detach
<1>12. ASSUME NEW p \in Proc, BeatDue(p) PROVE SerialInv'
  BY <1>12 DEF BeatDue
<1>13. ASSUME NEW p \in Proc, BeatRead(p) PROVE SerialInv'
  BY <1>13 DEF BeatRead
<1>14. ASSUME NEW p \in Proc, BeatWrite(p) PROVE SerialInv'
  BY <1>14 DEF BeatWrite
<1>15. ASSUME NEW p \in Proc, BeatLost(p) PROVE SerialInv'
  BY <1>15 DEF BeatLost
<1>16. ASSUME NEW p \in Proc, BeatFails(p) PROVE SerialInv'
  BY <1>16 DEF BeatFails
<1>17. ASSUME NEW p \in Proc, Stop(p) PROVE SerialInv'
  BY <1>17 DEF Stop
<1>18. ASSUME NEW p \in Proc, ReleaseOwn(p) PROVE SerialInv'
  BY <1>18 DEF ReleaseOwn, Join
<1>19. ASSUME NEW p \in Proc, ReleaseNothing(p) PROVE SerialInv'
  BY <1>19 DEF ReleaseNothing, Join
<1>20. ASSUME NEW p \in Proc, Unlink(p) PROVE SerialInv'
  BY <1>20 DEF Unlink
<1>21. ASSUME NEW p \in Proc, ReleaseFails(p) PROVE SerialInv'
  BY <1>21 DEF ReleaseFails, Join
<1>22. ASSUME NEW p \in Proc, Crash(p) PROVE SerialInv'
  BY <1>22 DEF Crash
<1>23. CASE Tick
  BY <1>23 DEF Tick, Older, WouldLapse, AboutToWrite
<1>24. CASE UNCHANGED vars
  BY <1>24 DEF vars
<1> QED
  BY <1>1, <1>2, <1>3, <1>4, <1>5, <1>6, <1>7, <1>8, <1>9, <1>10, <1>11,
     <1>12, <1>13, <1>14, <1>15, <1>16, <1>17, <1>18, <1>19, <1>20,
     <1>21, <1>22, <1>23, <1>24
     DEF Next, Call, Acquire, Beat, Release

LEMMA SerialInvAlways ==
  ASSUME Serial, Timely
  PROVE  Spec => [](TypeInv /\ SerialInv)
<1>1. Init => TypeInv /\ SerialInv
  BY LeaseAssumption
     DEF Init, TypeInv, Numbered, TypeOK, Phases, Acquiring, Tenure,
         SerialInv, ClaimOnDisk, WriterAlone, Claims
<1>2. TypeInv /\ SerialInv /\ [Next]_vars => SerialInv'
  BY SerialInvStep
<1> QED BY <1>1, <1>2, TypeInvStep, PTL DEF Spec

\* When calls of acquire_or_attach do not overlap and every live process
\* refreshes its record in time, no two processes own the lease at once:
\* heartbeats, releases, crashes and I/O errors in any order do not matter.
THEOREM SerialExclusion ==
  ASSUME Serial, Timely
  PROVE  Spec => []MutualExclusion
<1>1. TypeInv /\ SerialInv => MutualExclusion
  BY DEF SerialInv, ClaimOnDisk, Claims, Tenure, Stored, MutualExclusion, Serving
<1>2. Spec => [](TypeInv /\ SerialInv)
  BY SerialInvAlways
<1> QED BY <1>1, <1>2, PTL

\* In the same environment no heartbeat renames its record over another
\* process' record, and remove_file only ever removes the record of the process
\* that releases.
THEOREM SerialSparesNewer ==
  ASSUME Serial, Timely
  PROVE  Spec => SparesNewer
<1>1. TypeInv /\ SerialInv /\ [Next]_vars =>
        [\A p \in Proc :
           \/ hb[p] = "write" /\ hb'[p] = "sleep"
           \/ pc[p] = "unlink" /\ pc'[p] = "idle" /\ file' = NoLease
           => ~Foreign(p)]_vars
  BY DEF TypeInv, Numbered, SerialInv, ClaimOnDisk, Claims, Tenure, Stored, Foreign
<1>2. Spec => [](TypeInv /\ SerialInv)
  BY SerialInvAlways
<1> QED BY <1>1, <1>2, PTL DEF Spec, SparesNewer
=============================================================================
