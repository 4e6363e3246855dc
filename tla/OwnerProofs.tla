---------------------------- MODULE OwnerProofs -----------------------------
(***************************************************************************)
(* Proofs about Owner for any number of sessions, of ports and of faults.  *)
(***************************************************************************)
EXTENDS Owner, TLAPS

-----------------------------------------------------------------------------
(* The inductive invariant *)

\* Where a session has a target in hand.
Handed ==
  \A s \in Session :
    pc[s] \in {"probe", "write", "reprobe", "check", "confirm", "attached"} => hand[s] # NoFile

\* A session spawns an owner on a port of the system at most once, and is then past
\* every port of its own.
SpawnedOnce ==
  \A s \in Session :
    \/ offset[s] = Ephemeral
    \/ proc[<<s, Ephemeral>>] # "none"
    => pc[s] \in {"wait", "confirm", "attached", "failed", "gone"}

Steady == TypeOK /\ Handed /\ SpawnedOnce

\* While nothing has gone wrong every listener is an owner past its bind, on the port
\* it was given, ...
ListenersServe ==
  \A p \in Port :
    /\ listen[p] # Stranger
    /\ listen[p] \in Heavy => /\ listen[p][2] = p
                              /\ proc[listen[p]] \in {"advertise", "serving"}

\* ... and a session that took a port for accepting goes on to a port that accepts.
TakenAccept ==
  \A s \in Session :
    /\ pc[s] = "reuse" => Accepts(offset[s])
    /\ pc[s] \in {"write", "attached"} => Accepts(hand[s].port)

Inv == Steady /\ (clean => ListenersServe /\ TakenAccept)

Types == Resolving \cup Spawning \cup Ensuring \cup {"idle", "attached", "failed", "gone"}
Done == {"wait", "confirm", "attached", "failed", "gone"}
InHand == {"probe", "write", "reprobe", "check", "confirm", "attached"}

-----------------------------------------------------------------------------
(* What a step of a session, and of an owner, leaves as it is *)

\* A step of one session that moves neither a port nor a process.
LEMMA SessionMoves ==
  ASSUME Inv, NEW s \in Session, NEW l \in Types, Goto(s, l),
         UNCHANGED <<listen, proc>>,
         lease' \in Session \cup Heavy \cup {NoOne}, endpoint' \in Target \cup {NoFile},
         offset' \in [Session -> Port], polls' \in [Session -> 0..MaxPolls],
         hand' \in [Session -> Target \cup {NoFile}],
         faults' \in 0..MaxFaults, clean' => clean, raced' \in BOOLEAN,
         \A q \in Session \ {s} : offset'[q] = offset[q] /\ hand'[q] = hand[q],
         l \in InHand => hand'[s] # NoFile,
         offset'[s] = Ephemeral \/ proc[<<s, Ephemeral>>] # "none" => l \in Done,
         clean' => /\ l = "reuse" => Accepts(offset'[s])
                   /\ l \in {"write", "attached"} => Accepts(hand'[s].port)
  PROVE  Inv'
<1> USE DEF Inv, Steady
<1>1. /\ pc' \in [Session -> Types] /\ pc'[s] = l
      /\ \A q \in Session \ {s} : pc'[q] = pc[q]
  BY DEF Goto, TypeOK, Types
<1>2. TypeOK'
  BY <1>1 DEF TypeOK, Types
<1>3. Handed'
  BY <1>1 DEF Handed, InHand
<1>4. SpawnedOnce'
  BY <1>1 DEF SpawnedOnce, Done
<1>5. clean' => ListenersServe'
  BY DEF ListenersServe
<1>6. clean' => TakenAccept'
  BY <1>1 DEF TakenAccept, Accepts
<1> QED BY <1>2, <1>3, <1>4, <1>5, <1>6

\* A step of one process that its session has spawned.
LEMMA OwnerMoves ==
  ASSUME Inv, NEW h \in Heavy, proc[h] # "none",
         NEW l \in Running \cup {"start", "ended"}, GotoProc(h, l),
         UNCHANGED <<sessions, raced>>,
         lease' \in Session \cup Heavy \cup {NoOne}, endpoint' \in Target \cup {NoFile},
         listen' \in [Port -> Heavy \cup {NoOne, Stranger}],
         faults' \in 0..MaxFaults, clean' => clean,
         clean' => ListenersServe' /\ \A p \in Port : Accepts(p) => Accepts(p)'
  PROVE  Inv'
<1> USE DEF Inv, Steady
<1>1. UNCHANGED <<pc, offset, polls, hand>>
  BY DEF sessions
<1>2. /\ proc' \in [Heavy -> Running \cup {"none", "start", "ended"}]
      /\ \A g \in Heavy : proc'[g] # "none" => proc[g] # "none"
  BY DEF GotoProc, TypeOK
<1>3. TypeOK'
  BY <1>1, <1>2 DEF TypeOK
<1>4. Handed'
  BY <1>1 DEF Handed
<1>5. SpawnedOnce'
  <2>1. \A s \in Session : <<s, Ephemeral>> \in Heavy
    BY OwnerAssumption DEF Heavy, Port, Ephemeral
  <2> QED BY <1>1, <1>2, <2>1 DEF SpawnedOnce
<1>6. clean' => TakenAccept'
  <2>1. \A s \in Session : offset[s] \in Port
    BY DEF TypeOK
  <2>2. \A s \in Session : pc[s] \in {"write", "attached"} => hand[s].port \in Port
    BY DEF TypeOK, Handed, Target
  <2> QED BY <1>1, <2>1, <2>2 DEF TakenAccept
<1> QED BY <1>3, <1>4, <1>5, <1>6

-----------------------------------------------------------------------------
(* Types of what the steps make *)

LEMMA RacedType ==
  ASSUME NEW s \in Session, EnterSpawn(s)
  PROVE  raced' \in BOOLEAN
BY DEF EnterSpawn

LEMMA MintedType ==
  ASSUME NEW s \in Session, NEW p \in Port
  PROVE  Minted(s, p) \in Target /\ Minted(s, p) # NoFile /\ Minted(s, p).port = p
BY OwnerAssumption DEF Minted, Target

LEMMA AdvertType ==
  ASSUME NEW h \in Heavy
  PROVE  AdvertOf(h) \in Target
BY OwnerAssumption DEF AdvertOf, Target, Heavy

LEMMA Ports == Ephemeral \in Port /\ \A n \in Offset : n \in Port /\ n # Ephemeral
BY OwnerAssumption DEF Port, Offset, Ephemeral

LEMMA InitInv == Init => Inv
<1> SUFFICES ASSUME Init PROVE Inv
  OBVIOUS
<1>1. /\ 0 \in Port /\ 0 # Ephemeral /\ \A s \in Session : <<s, Ephemeral>> \in Heavy
      /\ MaxPolls \in Nat /\ MaxFaults \in Nat
  BY OwnerAssumption, Ports DEF Offset, Heavy
<1>2. endpoint \in Target \cup {NoFile}
  BY <1>1 DEF Init, Target
<1>3. TypeOK
  <2>1. /\ lease \in Session \cup Heavy \cup {NoOne}
        /\ listen \in [Port -> Heavy \cup {NoOne, Stranger}]
        /\ hand \in [Session -> Target \cup {NoFile}]
    BY DEF Init
  <2>2. /\ pc \in [Session -> Types] /\ offset \in [Session -> Port]
        /\ polls \in [Session -> 0..MaxPolls]
    BY <1>1 DEF Init, Types
  <2>3. proc \in [Heavy -> Running \cup {"none", "start", "ended"}]
    BY DEF Init
  <2>4. faults \in 0..MaxFaults
    BY <1>1 DEF Init
  <2>5. raced \in BOOLEAN
    BY DEF Init
  <2> QED BY <1>2, <2>1, <2>2, <2>3, <2>4, <2>5 DEF TypeOK, Types
<1>4. Handed /\ SpawnedOnce /\ TakenAccept
  BY <1>1 DEF Init, Handed, SpawnedOnce, TakenAccept
<1>5. ListenersServe
  BY OwnerAssumption DEF Init, ListenersServe
<1> QED BY <1>3, <1>4, <1>5 DEF Inv, Steady

-----------------------------------------------------------------------------
(* The sessions *)

\* Looking for an owner: until a session has a port to try, it has spawned nothing.
LEMMA LookSteps ==
  ASSUME Inv, NEW s \in Session,
         \/ \E p \in Explicit : StartExplicit(s, p)
         \/ StartLook(s) \/ Look(s) \/ Attach(s) \/ Refuse(s)
         \/ LookAgain(s) \/ GiveUpLooking(s) \/ Recheck(s)
  PROVE  Inv'
<1> USE DEF Inv, Steady, TypeOK, SpawnedOnce, Done, InHand, Types, Resolving, Spawning, Ensuring,
            clean
<1>1. ASSUME NEW p \in Explicit, StartExplicit(s, p) PROVE Inv'
  <2> DEFINE t == [port |-> p, cred |-> NoCred, fp |-> NoModel]
  <2>1. t \in Target /\ t # NoFile /\ t.port = p
    BY OwnerAssumption DEF Target
  <2>2. CASE Accepts(p)
    <3>1. hand' = [hand EXCEPT ![s] = t] /\ Goto(s, "attached")
      BY <1>1, <2>2 DEF StartExplicit
    <3>2. /\ hand' \in [Session -> Target \cup {NoFile}] /\ hand'[s] = t
          /\ \A q \in Session \ {s} : hand'[q] = hand[q]
      BY <2>1, <3>1
    <3> HIDE DEF t
    <3> QED BY <1>1, <2>1, <2>2, <3>1, <3>2, SessionMoves DEF StartExplicit
  <2>3. CASE ~Accepts(p)
    BY <1>1, <2>3, SessionMoves DEF StartExplicit
  <2> QED BY <2>2, <2>3
<1>2. ASSUME StartLook(s) PROVE Inv'
  BY <1>2, SessionMoves DEF StartLook
<1>3. ASSUME Look(s) PROVE Inv'
  <2>1. /\ hand' \in [Session -> Target \cup {NoFile}] /\ hand'[s] = endpoint
        /\ \A q \in Session \ {s} : hand'[q] = hand[q]
    BY <1>3 DEF Look
  <2> QED BY <1>3, <2>1, SessionMoves DEF Look
<1>4. ASSUME Attach(s) PROVE Inv'
  <2>1. hand[s] # NoFile
    BY <1>4 DEF Attach, Handed
  <2> QED BY <1>4, <2>1, SessionMoves DEF Attach
<1>5. ASSUME Refuse(s) \/ GiveUpLooking(s) PROVE Inv'
  <2>1. raced' \in BOOLEAN
    BY <1>5, RacedType DEF Refuse, GiveUpLooking
  <2>2. /\ hand' \in [Session -> Target \cup {NoFile}]
        /\ \A q \in Session \ {s} : hand'[q] = hand[q]
    BY <1>5 DEF Refuse, GiveUpLooking, Forget
  <2> QED BY <1>5, <2>1, <2>2, SessionMoves DEF Refuse, GiveUpLooking
<1>6. ASSUME LookAgain(s) PROVE Inv'
  <2>1. polls' \in [Session -> 0..MaxPolls]
    BY <1>6, OwnerAssumption DEF LookAgain
  <2> QED BY <1>6, <2>1, SessionMoves DEF LookAgain
<1>7. ASSUME Recheck(s) PROVE Inv'
  <2>1. raced' \in BOOLEAN
    BY <1>7, RacedType DEF Recheck
  <2> QED BY <1>7, <2>1, SessionMoves DEF Recheck
<1> QED BY <1>1, <1>2, <1>3, <1>4, <1>5, <1>6, <1>7

\* The next port is one of the session's own, or it gives up.
LEMMA NextOffsetKeeps ==
  ASSUME Inv, NEW s \in Session, pc[s] \in Spawning, NextOffset(s),
         UNCHANGED <<lease, listen, endpoint, polls, proc, faults, raced>>
  PROVE  Inv'
<1> USE DEF Inv, Steady, TypeOK
<1>1. /\ hand' \in [Session -> Target \cup {NoFile}]
      /\ \A q \in Session \ {s} : hand'[q] = hand[q]
  BY DEF NextOffset, Forget
<1>2. offset[s] # Ephemeral /\ proc[<<s, Ephemeral>>] = "none"
  BY DEF SpawnedOnce, Spawning
<1>3. CASE offset[s] < MaxOffset
  <2>1. offset' = [offset EXCEPT ![s] = offset[s] + 1] /\ Goto(s, "try")
    BY <1>3 DEF NextOffset
  <2>2. offset[s] + 1 \in Port /\ offset[s] + 1 # Ephemeral
    BY <1>3, OwnerAssumption DEF Port, Offset, Ephemeral
  <2>3. /\ offset' \in [Session -> Port] /\ offset'[s] # Ephemeral
        /\ \A q \in Session \ {s} : offset'[q] = offset[q]
    BY <2>1, <2>2
  <2> QED BY <1>1, <1>2, <2>1, <2>3, SessionMoves DEF Types, Spawning, InHand, clean
<1>4. CASE ~(offset[s] < MaxOffset)
  BY <1>1, <1>2, <1>4, SessionMoves DEF NextOffset, Types, InHand, Done, clean
<1> QED BY <1>3, <1>4

\* Trying a port: what is there already, or a child of its own.
LEMMA SpawnSteps ==
  ASSUME Inv, NEW s \in Session,
         \/ TryTaken(s) \/ Reuse(s) \/ AwaitAccepts(s) \/ AwaitQuiet(s)
         \/ PollAlive(s) \/ PollEnded(s) \/ Reprobe(s) \/ WriteTarget(s)
  PROVE  Inv'
<1> USE DEF Inv, Steady, TypeOK, SpawnedOnce, Done, InHand, Types, Resolving, Spawning, Ensuring,
            clean
<1>1. ASSUME TryTaken(s) PROVE Inv'
  BY <1>1, SessionMoves DEF TryTaken
<1>2. ASSUME Reuse(s) PROVE Inv'
  <2> DEFINE vouched == endpoint # NoFile /\ endpoint.port = offset[s] /\ Allows(s, endpoint)
             filled == [endpoint EXCEPT !.cred = IF @ = NoCred THEN s ELSE @,
                                        !.fp = IF @ = NoModel THEN ModelOf[s] ELSE @]
             t == IF vouched THEN filled ELSE Minted(s, offset[s])
  <2>1. t \in Target /\ t # NoFile /\ t.port = offset[s]
    <3>1. CASE vouched
      <4>1. endpoint \in Target /\ endpoint.port = offset[s]
        BY <3>1
      <4>2. filled \in Target /\ filled.port = offset[s]
        BY <4>1, OwnerAssumption DEF Target
      <4> QED BY <3>1, <4>2, OwnerAssumption
    <3>2. CASE ~vouched
      BY <3>2, MintedType
    <3> QED BY <3>1, <3>2
  <2>2. hand' = [hand EXCEPT ![s] = t]
    BY <1>2 DEF Reuse
  <2> HIDE DEF t
  <2>3. /\ hand' \in [Session -> Target \cup {NoFile}] /\ hand'[s] = t
        /\ \A q \in Session \ {s} : hand'[q] = hand[q]
    BY <2>1, <2>2
  <2>4. clean => Accepts(offset[s])
    BY <1>2 DEF Reuse, TakenAccept
  <2> QED BY <1>2, <2>1, <2>3, <2>4, SessionMoves DEF Reuse, Accepts
<1>3. ASSUME AwaitAccepts(s) PROVE Inv'
  <2> DEFINE t == Minted(s, offset[s])
  <2>1. t \in Target /\ t # NoFile /\ t.port = offset[s]
    BY MintedType
  <2>2. hand' = [hand EXCEPT ![s] = t]
    BY <1>3 DEF AwaitAccepts
  <2> HIDE DEF t
  <2>3. /\ hand' \in [Session -> Target \cup {NoFile}] /\ hand'[s] = t
        /\ \A q \in Session \ {s} : hand'[q] = hand[q]
    BY <2>1, <2>2
  <2> QED BY <1>3, <2>1, <2>3, SessionMoves DEF AwaitAccepts
<1>4. ASSUME AwaitQuiet(s) PROVE Inv'
  BY <1>4, SessionMoves DEF AwaitQuiet
<1>5. ASSUME PollAlive(s) PROVE Inv'
  BY <1>5, SessionMoves DEF PollAlive
<1>6. ASSUME PollEnded(s) PROVE Inv'
  <2>1. CASE endpoint # NoFile /\ Allows(s, endpoint)
    <3>1. /\ hand' \in [Session -> Target \cup {NoFile}] /\ hand'[s] = endpoint
          /\ \A q \in Session \ {s} : hand'[q] = hand[q]
      BY <1>6, <2>1 DEF PollEnded
    <3> QED BY <1>6, <2>1, <3>1, SessionMoves DEF PollEnded
  <2>2. CASE ~(endpoint # NoFile /\ Allows(s, endpoint))
    BY <1>6, <2>2, NextOffsetKeeps DEF PollEnded
  <2> QED BY <2>1, <2>2
<1>7. ASSUME Reprobe(s) PROVE Inv'
  <2>1. hand[s] # NoFile
    BY <1>7 DEF Reprobe, Handed
  <2>2. CASE Accepts(hand[s].port)
    BY <1>7, <2>1, <2>2, SessionMoves DEF Reprobe
  <2>3. CASE ~Accepts(hand[s].port)
    BY <1>7, <2>3, NextOffsetKeeps DEF Reprobe
  <2> QED BY <2>2, <2>3
<1>8. ASSUME WriteTarget(s) PROVE Inv'
  <2>1. hand[s] # NoFile
    BY <1>8 DEF WriteTarget, Handed
  <2>2. faults' \in 0..MaxFaults /\ (clean' => clean)
    BY <1>8, OwnerAssumption DEF WriteTarget, Falter
  <2>3. clean => Accepts(hand[s].port)
    BY <1>8 DEF WriteTarget, TakenAccept
  <2> QED BY <1>8, <2>1, <2>2, <2>3, SessionMoves DEF WriteTarget
<1> QED BY <1>1, <1>2, <1>3, <1>4, <1>5, <1>6, <1>7, <1>8

\* A process set to start where none was: nothing listened for it.
LEMMA ChildStarts ==
  ASSUME Inv, NEW s \in Session, NEW p \in Port, NEW l \in {"await", "wait"}, Goto(s, l),
         ~Accepts(p) \/ proc[<<s, p>>] = "none",
         p = Ephemeral => l = "wait",
         proc' = [proc EXCEPT ![<<s, p>>] = "start"],
         UNCHANGED <<lease, listen, endpoint, polls, faults>>, raced' \in BOOLEAN,
         offset' \in [Session -> Port], hand' \in [Session -> Target \cup {NoFile}],
         \A q \in Session \ {s} : offset'[q] = offset[q] /\ hand'[q] = hand[q],
         offset'[s] = Ephemeral \/ proc[<<s, Ephemeral>>] # "none" => l = "wait"
  PROVE  Inv'
<1> USE DEF Inv, Steady, clean
<1>1. /\ pc' \in [Session -> Types] /\ pc'[s] = l
      /\ \A q \in Session \ {s} : pc'[q] = pc[q]
  BY DEF Goto, TypeOK, Types, Spawning, Ensuring
<1>2. /\ <<s, p>> \in Heavy
      /\ proc' \in [Heavy -> Running \cup {"none", "start", "ended"}]
      /\ \A g \in Heavy : g # <<s, p>> => proc'[g] = proc[g]
  BY DEF TypeOK, Heavy
<1>3. TypeOK'
  BY <1>1, <1>2 DEF TypeOK, Types
<1>4. Handed'
  BY <1>1 DEF Handed
<1>5. SpawnedOnce'
  <2>1. \A q \in Session \ {s} :
          <<q, Ephemeral>> \in Heavy /\ <<q, Ephemeral>> # <<s, p>>
    BY Ports DEF Heavy
  <2>2. \A q \in Session \ {s} :
          offset'[q] = offset[q] /\ proc'[<<q, Ephemeral>>] = proc[<<q, Ephemeral>>] /\ pc'[q] = pc[q]
    BY <1>1, <1>2, <2>1
  <2>3. proc'[<<s, Ephemeral>>] # "none" => l = "wait"
    <3>1. <<s, Ephemeral>> \in Heavy
      BY Ports DEF Heavy
    <3>2. CASE p = Ephemeral
      BY <3>2
    <3>3. CASE p # Ephemeral
      <4>1. <<s, Ephemeral>> # <<s, p>>
        BY <3>3
      <4> QED BY <1>2, <3>1, <4>1
    <3> QED BY <3>2, <3>3
  <2> QED BY <1>1, <2>2, <2>3 DEF SpawnedOnce
<1>6. clean => ListenersServe'
  <2> SUFFICES ASSUME clean, NEW o \in Port, listen[o] \in Heavy
               PROVE  listen[o] # <<s, p>>
    BY <1>2 DEF ListenersServe
  <2>1. listen[o][2] = o /\ proc[listen[o]] \in {"advertise", "serving"}
    BY DEF ListenersServe
  <2>2. ASSUME listen[o] = <<s, p>> PROVE FALSE
    <3>1. o = p
      BY <2>1, <2>2
    <3>2. listen[p] = <<s, p>>
      BY <2>2, <3>1
    <3>3. Accepts(p)
      BY <1>2, <3>2, OwnerAssumption DEF Accepts
    <3>4. proc[<<s, p>>] = "none"
      BY <3>3
    <3> QED BY <2>1, <2>2, <3>4
  <2> QED BY <2>2
<1>7. clean => TakenAccept'
  BY <1>1 DEF TakenAccept, Accepts
<1> QED BY <1>3, <1>4, <1>5, <1>6, <1>7

LEMMA StartSteps ==
  ASSUME Inv, NEW s \in Session, TryLaunch(s) \/ Spawn(s)
  PROVE  Inv'
<1> USE DEF Inv, Steady
<1>1. ASSUME TryLaunch(s) PROVE Inv'
  <2>1. offset[s] # Ephemeral /\ proc[<<s, Ephemeral>>] = "none"
    BY <1>1 DEF TryLaunch, SpawnedOnce
  <2>2. offset[s] \in Port /\ offset \in [Session -> Port]
        /\ hand \in [Session -> Target \cup {NoFile}] /\ raced \in BOOLEAN
    BY DEF TypeOK
  <2>3. /\ Goto(s, "await") /\ ~Accepts(offset[s])
        /\ proc' = [proc EXCEPT ![<<s, offset[s]>>] = "start"]
        /\ UNCHANGED <<lease, listen, endpoint, offset, polls, hand, faults, raced>>
    BY <1>1 DEF TryLaunch, Child
  <2> QED BY <2>1, <2>2, <2>3, ChildStarts
<1>2. ASSUME Spawn(s) PROVE Inv'
  <2>1. /\ Goto(s, "wait") /\ EnterSpawn(s) /\ Forget(s)
        /\ proc' = [proc EXCEPT ![<<s, Ephemeral>>] = "start"]
        /\ offset' = [offset EXCEPT ![s] = Ephemeral]
        /\ UNCHANGED <<lease, listen, endpoint, polls, faults>>
    BY <1>2 DEF Spawn
  <2>2. proc[<<s, Ephemeral>>] = "none"
    BY <1>2 DEF Spawn, SpawnedOnce
  <2>3. /\ offset' \in [Session -> Port]
        /\ hand' \in [Session -> Target \cup {NoFile}]
        /\ \A q \in Session \ {s} : offset'[q] = offset[q] /\ hand'[q] = hand[q]
    BY <2>1, Ports DEF Forget, TypeOK
  <2>4. raced' \in BOOLEAN
    BY <2>1, RacedType
  <2> QED BY <2>1, <2>2, <2>3, <2>4, Ports, ChildStarts
<1> QED BY <1>1, <1>2

\* Asking for an owner, and waiting for the one spawned.
LEMMA EnsureSteps ==
  ASSUME Inv, NEW s \in Session,
         \/ StartEnsure(s) \/ AskAttached(s) \/ AskVacant(s) \/ GiveBack(s) \/ Check(s)
         \/ WaitRead(s) \/ Confirm(s) \/ WaitExpires(s)
  PROVE  Inv'
<1> USE DEF Inv, Steady, TypeOK, SpawnedOnce, Done, InHand, Types, Resolving, Spawning, Ensuring,
            clean
<1>1. ASSUME StartEnsure(s) PROVE Inv'
  BY <1>1, SessionMoves DEF StartEnsure
<1>2. ASSUME AskAttached(s) PROVE Inv'
  <2>1. /\ hand' \in [Session -> Target \cup {NoFile}] /\ hand'[s] = endpoint
        /\ \A q \in Session \ {s} : hand'[q] = hand[q]
    BY <1>2 DEF AskAttached
  <2> QED BY <1>2, <2>1, SessionMoves DEF AskAttached
<1>3. ASSUME AskVacant(s) PROVE Inv'
  BY <1>3, SessionMoves DEF AskVacant
<1>4. ASSUME GiveBack(s) PROVE Inv'
  BY <1>4, SessionMoves DEF GiveBack
<1>5. ASSUME Check(s) PROVE Inv'
  <2>1. hand[s] # NoFile
    BY <1>5 DEF Check, Handed
  <2> QED BY <1>5, <2>1, SessionMoves DEF Check
<1>6. ASSUME WaitRead(s) PROVE Inv'
  <2>1. /\ hand' \in [Session -> Target \cup {NoFile}] /\ hand'[s] = endpoint
        /\ \A q \in Session \ {s} : hand'[q] = hand[q]
    BY <1>6 DEF WaitRead
  <2> QED BY <1>6, <2>1, SessionMoves DEF WaitRead
<1>7. ASSUME Confirm(s) PROVE Inv'
  <2>1. hand[s] # NoFile
    BY <1>7 DEF Confirm, Handed
  <2> QED BY <1>7, <2>1, SessionMoves DEF Confirm
<1>8. ASSUME WaitExpires(s) PROVE Inv'
  <2>1. /\ hand' \in [Session -> Target \cup {NoFile}]
        /\ \A q \in Session \ {s} : hand'[q] = hand[q]
    BY <1>8 DEF WaitExpires, Forget
  <2> QED BY <1>8, <2>1, SessionMoves DEF WaitExpires
<1> QED BY <1>1, <1>2, <1>3, <1>4, <1>5, <1>6, <1>7, <1>8

LEMMA SessionSteps ==
  ASSUME Inv, NEW s \in Session, SessionStep(s)
  PROVE  Inv'
BY LookSteps, SpawnSteps, StartSteps, EnsureSteps DEF SessionStep

-----------------------------------------------------------------------------
(* The owners, and what may happen *)

\* A process that is not yet past its bind, or goes on from it, is no listener that ends.
LEMMA ListenersStay ==
  ASSUME Inv, NEW h \in Heavy, NEW l \in Running \cup {"start", "ended"}, GotoProc(h, l),
         UNCHANGED listen,
         proc[h] \notin {"advertise", "serving"} \/ l \in {"advertise", "serving"}
  PROVE  clean => ListenersServe'
BY DEF Inv, Steady, TypeOK, GotoProc, ListenersServe

LEMMA OwnerSteps ==
  ASSUME Inv, NEW h \in Heavy, OwnerStep(h) \/ OwnerOpenFails(h)
  PROVE  Inv'
<1> USE DEF Inv, Steady, TypeOK, Running, sessions, clean
<1>1. ASSUME OwnerAttaches(h) \/ OwnerAcquires(h) \/ OwnerOpens(h) PROVE Inv'
  <2>1. PICK l \in {"ended", "opening", "bind"} : GotoProc(h, l)
    BY <1>1 DEF OwnerAttaches, OwnerAcquires, OwnerOpens
  <2>2. /\ UNCHANGED <<listen, endpoint, sessions, faults, raced>>
        /\ lease' \in Session \cup Heavy \cup {NoOne}
        /\ proc[h] \in {"start", "opening"}
    BY <1>1 DEF OwnerAttaches, OwnerAcquires, OwnerOpens
  <2>3. clean => ListenersServe'
    BY <2>1, <2>2, ListenersStay
  <2> QED BY <2>1, <2>2, <2>3, OwnerMoves DEF Accepts
<1>2. ASSUME OwnerOpenFails(h) \/ OwnerBindFails(h) PROVE Inv'
  <2>1. /\ GotoProc(h, "ended") /\ proc[h] \in {"opening", "bind"}
        /\ UNCHANGED <<listen, endpoint, sessions, raced>>
    BY <1>2 DEF OwnerOpenFails, OwnerBindFails
  <2>2. lease' \in Session \cup Heavy \cup {NoOne}
    BY <1>2 DEF OwnerOpenFails, OwnerBindFails, GiveUpLease
  <2>3. faults' \in 0..MaxFaults /\ (clean' => clean)
    BY <1>2, OwnerAssumption DEF OwnerOpenFails, OwnerBindFails, Falter
  <2>4. clean => ListenersServe'
    BY <2>1, ListenersStay
  <2> QED BY <2>1, <2>2, <2>3, <2>4, OwnerMoves DEF Accepts
<1>3. ASSUME OwnerBinds(h) PROVE Inv'
  <2>1. /\ GotoProc(h, "advertise") /\ proc[h] = "bind" /\ listen[h[2]] = NoOne
        /\ listen' = [listen EXCEPT ![h[2]] = h]
        /\ UNCHANGED <<lease, endpoint, sessions, faults, raced>>
    BY <1>3 DEF OwnerBinds
  <2>2. h[2] \in Port /\ h # NoOne /\ h # Stranger
    BY OwnerAssumption DEF Heavy
  <2>3. /\ listen' \in [Port -> Heavy \cup {NoOne, Stranger}] /\ listen'[h[2]] = h
        /\ \A p \in Port \ {h[2]} : listen'[p] = listen[p]
    BY <2>1, <2>2
  <2>4. proc'[h] = "advertise" /\ \A g \in Heavy \ {h} : proc'[g] = proc[g]
    BY <2>1 DEF GotoProc
  <2>5. clean => ListenersServe'
    BY <2>1, <2>2, <2>3, <2>4 DEF ListenersServe
  <2>6. \A p \in Port : Accepts(p) => Accepts(p)'
    BY <2>1, <2>2, <2>3 DEF Accepts
  <2> QED BY <2>1, <2>3, <2>5, <2>6, OwnerMoves
<1>4. ASSUME OwnerAdvertises(h) PROVE Inv'
  <2>1. /\ GotoProc(h, "serving") /\ proc[h] = "advertise"
        /\ UNCHANGED <<lease, listen, sessions, raced>>
    BY <1>4 DEF OwnerAdvertises
  <2>2. endpoint' \in Target \cup {NoFile}
    BY <1>4, AdvertType DEF OwnerAdvertises
  <2>3. faults' \in 0..MaxFaults /\ (clean' => clean)
    BY <1>4, OwnerAssumption DEF OwnerAdvertises, Falter
  <2>4. clean => ListenersServe'
    BY <2>1, ListenersStay
  <2> QED BY <2>1, <2>2, <2>3, <2>4, OwnerMoves DEF Accepts
<1> QED BY <1>1, <1>2, <1>3, <1>4 DEF OwnerStep

\* What goes wrong leaves nothing clean behind.
LEMMA Faulty ==
  ASSUME Inv, Falter
  PROVE  faults' \in 0..MaxFaults /\ ~clean'
BY OwnerAssumption DEF Inv, Steady, TypeOK, Falter, clean

LEMMA StopType ==
  ASSUME TypeOK, NEW h \in Heavy, Stop(h)
  PROVE  /\ proc' \in [Heavy -> Running \cup {"none", "start", "ended"}]
         /\ listen' \in [Port -> Heavy \cup {NoOne, Stranger}]
         /\ \A g \in Heavy : g # h => proc'[g] = proc[g]
         /\ proc'[h] = "ended"
BY DEF TypeOK, Stop

LEMMA OtherSteps ==
  ASSUME Inv,
         \/ LeaseLapses
         \/ \E p \in Port : StrangerBinds(p) \/ StrangerLeaves(p)
         \/ \E h \in Heavy : OwnerDies(h)
         \/ \E s \in Session : LaunchFails(s) \/ SessionDies(s)
  PROVE  Inv'
<1> USE DEF Inv, Steady, sessions
<1>1. ASSUME LeaseLapses PROVE Inv'
  BY <1>1 DEF LeaseLapses, TypeOK, Handed, SpawnedOnce, ListenersServe, TakenAccept, Accepts, clean
<1>2. ASSUME NEW p \in Port, StrangerBinds(p) PROVE Inv'
  <2>1. faults' \in 0..MaxFaults /\ ~clean'
    BY <1>2, Faulty DEF StrangerBinds
  <2>2. listen' \in [Port -> Heavy \cup {NoOne, Stranger}]
    BY <1>2 DEF StrangerBinds, TypeOK
  <2> QED BY <1>2, <2>1, <2>2 DEF StrangerBinds, TypeOK, Handed, SpawnedOnce
<1>3. ASSUME NEW p \in Port, StrangerLeaves(p) PROVE Inv'
  <2>1. listen' \in [Port -> Heavy \cup {NoOne, Stranger}]
    BY <1>3 DEF StrangerLeaves, TypeOK
  <2>2. ~clean
    BY <1>3 DEF StrangerLeaves, ListenersServe
  <2> QED BY <1>3, <2>1, <2>2 DEF StrangerLeaves, TypeOK, Handed, SpawnedOnce, clean
<1>4. ASSUME NEW h \in Heavy, OwnerDies(h) PROVE Inv'
  <2>1. faults' \in 0..MaxFaults /\ ~clean'
    BY <1>4, Faulty DEF OwnerDies
  <2>2. proc[h] # "none" /\ Stop(h) /\ UNCHANGED <<lease, endpoint, sessions, raced>>
    BY <1>4 DEF OwnerDies, Running
  <2>3. TypeOK'
    BY <2>1, <2>2, StopType DEF TypeOK
  <2>4. SpawnedOnce'
    <3>1. \A s \in Session : proc'[<<s, Ephemeral>>] # "none" => proc[<<s, Ephemeral>>] # "none"
      BY <2>2, Ports, StopType DEF Heavy
    <3> QED BY <2>2, <3>1 DEF SpawnedOnce
  <2>5. Handed'
    BY <2>2 DEF Handed
  <2> QED BY <2>1, <2>3, <2>4, <2>5
<1>5. ASSUME NEW s \in Session, LaunchFails(s) PROVE Inv'
  <2>1. faults' \in 0..MaxFaults /\ ~clean'
    BY <1>5, Faulty DEF LaunchFails
  <2>2. /\ pc[s] = "await" /\ Stop(Child(s)) /\ NextOffset(s)
        /\ UNCHANGED <<lease, endpoint, polls, raced>>
    BY <1>5 DEF LaunchFails
  <2>3. offset[s] \in Offset /\ Child(s) \in Heavy
    BY <2>2 DEF TypeOK, SpawnedOnce, Child, Heavy, Port
  <2>4. PICK l \in {"try", "failed"} : Goto(s, l)
    BY <2>2 DEF NextOffset
  <2>5. /\ pc' \in [Session -> Types] /\ pc'[s] = l
        /\ \A q \in Session \ {s} : pc'[q] = pc[q]
    BY <2>4 DEF Goto, TypeOK, Types, Spawning
  <2>6. /\ offset' \in [Session -> Port] /\ offset'[s] # Ephemeral
        /\ \A q \in Session \ {s} : offset'[q] = offset[q]
    <3>1. CASE offset[s] < MaxOffset
      <4>1. offset' = [offset EXCEPT ![s] = offset[s] + 1]
        BY <2>2, <3>1 DEF NextOffset
      <4>2. offset[s] + 1 \in Offset
        BY <2>3, <3>1, OwnerAssumption DEF Offset
      <4> QED BY <4>1, <4>2, Ports DEF TypeOK
    <3>2. CASE ~(offset[s] < MaxOffset)
      BY <2>2, <2>3, <3>2, Ports DEF NextOffset, TypeOK
    <3> QED BY <3>1, <3>2
  <2>7. /\ hand' \in [Session -> Target \cup {NoFile}]
        /\ \A q \in Session \ {s} : hand'[q] = hand[q]
    BY <2>2 DEF NextOffset, Forget, TypeOK
  <2>8. TypeOK'
    BY <2>1, <2>2, <2>3, <2>5, <2>6, <2>7, StopType DEF TypeOK, Types
  <2>9. Handed'
    BY <2>5, <2>7 DEF Handed
  <2>10. SpawnedOnce'
    <3>1. /\ \A q \in Session : <<q, Ephemeral>> \in Heavy
          /\ \A q \in Session : <<q, Ephemeral>> # Child(s)
      BY <2>3, Ports DEF Heavy, Child
    <3>2. \A q \in Session : proc'[<<q, Ephemeral>>] = proc[<<q, Ephemeral>>]
      BY <2>2, <2>3, <3>1, StopType
    <3>3. proc[<<s, Ephemeral>>] = "none"
      BY <2>2 DEF SpawnedOnce
    <3> QED BY <2>5, <2>6, <3>2, <3>3 DEF SpawnedOnce
  <2> QED BY <2>1, <2>8, <2>9, <2>10
<1>6. ASSUME NEW s \in Session, SessionDies(s) PROVE Inv'
  <2>1. faults' \in 0..MaxFaults /\ ~clean'
    BY <1>6, Faulty DEF SessionDies
  <2>2. /\ hand' \in [Session -> Target \cup {NoFile}]
        /\ \A q \in Session \ {s} : hand'[q] = hand[q]
    BY <1>6 DEF SessionDies, Forget, TypeOK
  <2>3. /\ pc' \in [Session -> Types] /\ pc'[s] = "gone"
        /\ \A q \in Session \ {s} : pc'[q] = pc[q]
    BY <1>6 DEF SessionDies, Goto, TypeOK, Types
  <2>4. UNCHANGED <<lease, listen, endpoint, offset, polls, proc, raced>>
    BY <1>6 DEF SessionDies
  <2>5. TypeOK'
    BY <2>1, <2>2, <2>3, <2>4 DEF TypeOK, Types
  <2>6. Handed' /\ SpawnedOnce'
    BY <2>2, <2>3, <2>4 DEF Handed, SpawnedOnce
  <2> QED BY <2>1, <2>5, <2>6
<1> QED BY <1>1, <1>2, <1>3, <1>4, <1>5, <1>6

LEMMA StepInv == Inv /\ [Next]_vars => Inv'
<1> SUFFICES ASSUME Inv, [Next]_vars PROVE Inv'
  OBVIOUS
<1>1. CASE UNCHANGED vars
  BY <1>1 DEF vars, Inv, Steady, TypeOK, Handed, SpawnedOnce, ListenersServe, TakenAccept,
              Accepts, clean
<1>2. CASE Next
  <2>1. CASE Fault
    <3>1. \A p \in Offset : p \in Port
      BY Ports
    <3> QED BY <2>1, <3>1, OwnerSteps, OtherSteps DEF Fault
  <2> QED BY <1>2, <2>1, SessionSteps, OwnerSteps, OtherSteps DEF Next
<1> QED BY <1>1, <1>2

LEMMA InvAlways == Spec => []Inv
BY InitInv, StepInv, PTL DEF Spec

-----------------------------------------------------------------------------
(* One owner, and every session reaches it *)

\* What OneOwner says beyond types, which is inductive by itself.
Sole == \A h \in Heavy : proc[h] \in Running => lease = h

\* A record that names a running process stays until that process gives it up.
LEMMA StepSole == Inv /\ Sole /\ [Next]_vars => Sole'
<1> SUFFICES ASSUME Inv, Sole, [Next]_vars PROVE Sole'
  OBVIOUS
<1> USE DEF Sole
<1>0. TypeOK
  BY DEF Inv, Steady
<1>1. ASSUME NEW s \in Session, SessionStep(s) \/ SessionDies(s) \/ LaunchFails(s) PROVE Sole'
  <2>1. \A h \in Heavy : proc'[h] \in Running => proc[h] \in Running
    <3>1. CASE TryLaunch(s)
      BY <1>0, <3>1 DEF TryLaunch, TypeOK, Running
    <3>2. CASE Spawn(s)
      BY <1>0, <3>2 DEF Spawn, TypeOK, Running
    <3>3. CASE LaunchFails(s)
      BY <1>0, <3>3 DEF LaunchFails, Stop, TypeOK, Running
    <3>4. CASE ~(TryLaunch(s) \/ Spawn(s) \/ LaunchFails(s))
      <4>1. UNCHANGED proc
        BY <1>1, <3>4 DEF SessionStep, StartExplicit, StartLook, Look, Attach, Refuse, LookAgain,
           GiveUpLooking, Recheck, TryTaken, Reuse, AwaitAccepts, AwaitQuiet, PollAlive, PollEnded,
           Reprobe, WriteTarget, StartEnsure, AskAttached, AskVacant, GiveBack, Check, WaitRead,
           Confirm, WaitExpires, SessionDies
      <4> QED BY <4>1
    <3> QED BY <3>1, <3>2, <3>3, <3>4
  <2>2. \A h \in Heavy : lease = h => lease' = h
    <3>1. lease' = lease \/ (lease \in Session \cup {NoOne})
      BY <1>1 DEF SessionStep, StartExplicit, StartLook, Look, Attach, Refuse, LookAgain,
         GiveUpLooking, Recheck, TryTaken, Reuse, TryLaunch, AwaitAccepts, AwaitQuiet, PollAlive,
         PollEnded, Reprobe, WriteTarget, StartEnsure, AskAttached, AskVacant, GiveBack, Check,
         Spawn, WaitRead, Confirm, WaitExpires, SessionDies, LaunchFails
    <3> QED BY <3>1, OwnerAssumption
  <2> QED BY <2>1, <2>2
<1>2. ASSUME NEW h \in Heavy, OwnerAttaches(h) \/ OwnerOpens(h) \/ OwnerBinds(h)
                              \/ OwnerAdvertises(h) \/ OwnerDies(h)
      PROVE  Sole'
  <2>1. lease' = lease
    BY <1>2 DEF OwnerAttaches, OwnerOpens, OwnerBinds, OwnerAdvertises, OwnerDies
  <2>2. \A g \in Heavy : proc'[g] \in Running => proc[g] \in Running
    BY <1>0, <1>2 DEF OwnerAttaches, OwnerOpens, OwnerBinds, OwnerAdvertises, OwnerDies, Stop,
                      GotoProc, TypeOK, Running
  <2> QED BY <2>1, <2>2
<1>3. ASSUME NEW h \in Heavy, OwnerAcquires(h) PROVE Sole'
  <2>1. \A g \in Heavy : proc[g] \notin Running
    BY <1>3, OwnerAssumption DEF OwnerAcquires
  <2>2. lease' = h /\ \A g \in Heavy \ {h} : proc'[g] = proc[g]
    BY <1>0, <1>3 DEF OwnerAcquires, GotoProc, TypeOK
  <2> QED BY <2>1, <2>2
<1>4. ASSUME NEW h \in Heavy, OwnerOpenFails(h) \/ OwnerBindFails(h) PROVE Sole'
  <2>1. proc[h] \in Running /\ GiveUpLease(h) /\ GotoProc(h, "ended")
    BY <1>4 DEF OwnerOpenFails, OwnerBindFails, Running
  <2>2. \A g \in Heavy \ {h} : proc[g] \notin Running
    BY <2>1
  <2>3. proc'[h] = "ended" /\ \A g \in Heavy \ {h} : proc'[g] = proc[g]
    BY <1>0, <2>1 DEF GotoProc, TypeOK
  <2> QED BY <2>2, <2>3 DEF Running
<1>5. CASE LeaseLapses
  BY <1>5 DEF LeaseLapses, Alive
<1>6. CASE \E p \in Port : StrangerLeaves(p) \/ StrangerBinds(p)
  BY <1>6 DEF StrangerLeaves, StrangerBinds
<1>7. CASE UNCHANGED vars
  BY <1>7 DEF vars
<1>8. \A p \in Offset : p \in Port
  BY Ports
<1> QED BY <1>1, <1>2, <1>3, <1>4, <1>5, <1>6, <1>7, <1>8 DEF Next, OwnerStep, Fault

\* Of all the processes that sessions start, at most one has opened the database or
\* binds a port, and it is the one the lease names, whatever sessions, ports and faults
\* there are (become_owner_deferred, run.rs; Requirement 16.3).
THEOREM AtMostOneOwner == Spec => []OneOwner
<1>1. Init => Sole
  BY DEF Init, Sole, Running
<1>2. Inv /\ Sole => OneOwner
  BY DEF Inv, Steady, Sole, OneOwner
<1> QED BY <1>1, <1>2, InvAlways, StepSole, PTL DEF Spec

\* As long as nothing goes wrong a session that is attached has the address of a port
\* where the one owner listens, whatever an earlier owner advertised and however many
\* sessions start at once (resolve_or_spawn_heavy, ensure_owner_running).
THEOREM EverySessionReachesTheOwner == Spec => []AllReachTheOwner
<1>1. Inv => AllReachTheOwner
  <2> SUFFICES ASSUME Inv, clean, NEW s \in Session, pc[s] = "attached"
               PROVE  \E h \in Heavy : /\ listen[hand[s].port] = h
                                       /\ proc[h] \in {"advertise", "serving"}
    BY DEF AllReachTheOwner
  <2> USE DEF Inv, Steady
  <2>1. hand[s].port \in Port
    BY DEF Handed, TypeOK, Target
  <2>2. listen[hand[s].port] \in Heavy
    BY <2>1 DEF ListenersServe, TakenAccept, Accepts, TypeOK
  <2> QED BY <2>1, <2>2 DEF ListenersServe
<1> QED BY <1>1, InvAlways, PTL

-----------------------------------------------------------------------------
(* Who attaches is admitted.  What is needed of the processes a session has    *)
(* spawned, of the listeners, and of the targets that go round.               *)

Idled == {"none", "ended"}
Open == {"advertise", "serving"}
Active == Spawning \cup {"wait", "confirm"}

\* The ports are tried in order: behind a session are children that have ended, before
\* it ports where it has started nothing.
LadderOf(s) ==
  /\ pc[s] \in Resolving \cup {"idle"} => \A p \in Port : proc[<<s, p>>] = "none"
  /\ pc[s] \in Spawning => \A p \in Port :
       /\ p # offset[s] => proc[<<s, p>>] \in Idled
       /\ p > offset[s] => proc[<<s, p>>] = "none"
  /\ pc[s] \in {"try", "reuse"} => proc[Child(s)] = "none"
  /\ pc[s] = "reprobe" => proc[Child(s)] = "ended"
  /\ pc[s] = "write" => hand[s] = Minted(s, offset[s]) \/ proc[<<s, hand[s].port>>] \in Idled
Ladder == \A s \in Session : LadderOf(s)

Listeners ==
  \A p \in Port : listen[p] \in Heavy => listen[p][2] = p /\ proc[listen[p]] \in Open

\* Until there is a race one session at a time spawns, and no process of another runs.
Unraced ==
  ~raced => \A s \in Session : pc[s] \in Active =>
    /\ \A q \in Session \ {s} : pc[q] \notin Active
    /\ \A h \in Heavy : h[1] # s => proc[h] \in Idled

Advertised == \A h \in Heavy : proc[h] \in Open => listen[h[2]] = h

\* A target with a credential of this time is what an owner that is up advertises.
Right(t) ==
  t.cred \in Session => /\ t = AdvertOf(<<t.cred, t.port>>)
                        /\ proc[<<t.cred, t.port>>] \in Open
Told ==
  /\ endpoint # NoFile => Right(endpoint)
  /\ \A s \in Session : pc[s] \in InHand => Right(hand[s])

Admits == /\ Ladder /\ Listeners /\ Unraced
          /\ clean => Advertised
          /\ clean /\ ~raced => Told

LEMMA InitAdmits == Init => Admits
<1> SUFFICES ASSUME Init PROVE Admits
  OBVIOUS
<1>1. \A s \in Session : \A p \in Port : <<s, p>> \in Heavy /\ proc[<<s, p>>] = "none"
  BY DEF Init, Heavy
<1>2. Ladder
  BY <1>1 DEF Init, Ladder, LadderOf, Spawning
<1>3. Listeners
  BY OwnerAssumption DEF Init, Listeners
<1>4. Unraced
  BY DEF Init, Unraced, Active, Spawning
<1>5. Advertised
  BY DEF Init, Advertised, Open
<1>6. endpoint # NoFile => endpoint.cred \notin Session
  BY OwnerAssumption DEF Init
<1>7. Told
  BY <1>6 DEF Init, Told, Right, InHand
<1> QED BY <1>2, <1>3, <1>4, <1>5, <1>7 DEF Admits

\* A step of one session that moves no process and no port.
LEMMA SessionAdmits ==
  ASSUME Inv, Admits, NEW s \in Session, NEW l \in Types, Goto(s, l),
         UNCHANGED <<listen, proc>>,
         \A q \in Session \ {s} : offset'[q] = offset[q] /\ hand'[q] = hand[q],
         clean' => clean, raced' = raced \/ EnterSpawn(s),
         l \in Active => pc[s] \in Active \/ EnterSpawn(s),
         LadderOf(s)',
         clean /\ ~raced => /\ endpoint' # NoFile => Right(endpoint)'
                            /\ l \in InHand => Right(hand[s])'
  PROVE  Admits'
<1>1. /\ pc'[s] = l
      /\ \A q \in Session \ {s} : pc'[q] = pc[q]
  BY DEF Goto, Inv, Steady, TypeOK
<1>2. Ladder'
  <2> SUFFICES ASSUME NEW q \in Session, q # s PROVE LadderOf(q)'
    BY DEF Ladder
  <2>1. LadderOf(q)
    BY DEF Admits, Ladder
  <2> QED BY <1>1, <2>1 DEF LadderOf, Child, Minted
<1>3. Listeners' /\ (clean' => Advertised')
  BY DEF Admits, Listeners, Advertised
<1>4. EnterSpawn(s) =>
        (~raced' => /\ ~raced
                    /\ \A q \in Session \ {s} : pc[q] \notin Active
                    /\ \A h \in Heavy : h[1] # s => proc[h] \in Idled)
  BY DEF EnterSpawn, Active, Idled, Inv, Steady, TypeOK
<1>5. Unraced'
  <2> SUFFICES ASSUME ~raced', NEW q \in Session, pc'[q] \in Active
               PROVE  /\ \A r \in Session \ {q} : pc'[r] \notin Active
                      /\ \A h \in Heavy : h[1] # q => proc[h] \in Idled
    BY DEF Unraced
  <2>1. ~raced
    BY <1>4
  <2>2. ASSUME NEW r \in Session, pc[r] \in Active
        PROVE  /\ \A o \in Session \ {r} : pc[o] \notin Active
               /\ \A h \in Heavy : h[1] # r => proc[h] \in Idled
    BY <2>1, <2>2 DEF Admits, Unraced
  <2>3. CASE q = s
    BY <1>1, <1>4, <2>2, <2>3
  <2>4. CASE q # s
    BY <1>1, <1>4, <2>2, <2>4
  <2> QED BY <2>3, <2>4
<1>6. clean' /\ ~raced' => Told'
  <2>1. SUFFICES ASSUME clean, ~raced PROVE Told'
    BY <1>4
  <2>2. \A q \in Session \ {s} : pc'[q] \in InHand => Right(hand[q])'
    BY <1>1, <2>1 DEF Admits, Told, Right, AdvertOf
  <2> QED BY <1>1, <2>1, <2>2 DEF Told
<1> QED BY <1>2, <1>3, <1>5, <1>6 DEF Admits

\* A step that moves no session, and no process that has ended or is not there.
LEMMA OthersAdmit ==
  ASSUME Inv, Admits, UNCHANGED <<sessions, raced>>,
         \A g \in Heavy : proc[g] \in Idled => proc'[g] = proc[g],
         clean' => clean, Listeners', clean' => Advertised',
         clean' => /\ \A g \in Heavy : proc[g] \in Open => proc'[g] \in Open
                   /\ endpoint' = endpoint \/ (endpoint' \in Target /\ Right(endpoint)')
  PROVE  Admits'
<1>1. UNCHANGED <<pc, offset, polls, hand>>
  BY DEF sessions
<1>2. \A s \in Session : \A p \in Port : <<s, p>> \in Heavy
  BY DEF Heavy
<1>3. ASSUME NEW s \in Session PROVE LadderOf(s)'
  <2>1. LadderOf(s)
    BY DEF Admits, Ladder
  <2>2. \A p \in Port : proc[<<s, p>>] \in Idled => proc'[<<s, p>>] = proc[<<s, p>>]
    BY <1>2
  <2>3. offset[s] \in Port /\ (pc[s] = "write" => hand[s].port \in Port)
    BY DEF Inv, Steady, Handed, TypeOK, Target
  <2> QED BY <1>1, <2>1, <2>2, <2>3 DEF LadderOf, Child, Minted, Idled
<1>4. Unraced'
  BY <1>1 DEF Admits, Unraced
<1>5. ASSUME clean', ~raced' PROVE Told'
  <2>1. ASSUME NEW t \in Target, Right(t)
        PROVE  t.cred \in Session => /\ t = AdvertOf(<<t.cred, t.port>>)
                                     /\ proc'[<<t.cred, t.port>>] \in Open
    <3>1. t.port \in Port
      BY DEF Target
    <3> QED BY <1>2, <1>5, <2>1, <3>1 DEF Right
  <2>2. endpoint \in Target \cup {NoFile}
    BY DEF Inv, Steady, TypeOK
  <2>3. \A s \in Session : pc[s] \in InHand => hand[s] \in Target
    BY DEF Inv, Steady, Handed, TypeOK, InHand
  <2>4. Told
    BY <1>5 DEF Admits
  <2>5. endpoint' # NoFile => Right(endpoint)'
    BY <1>5, <2>1, <2>2, <2>4 DEF Told, Right, AdvertOf
  <2>6. \A s \in Session : pc[s] \in InHand => Right(hand[s])'
    BY <1>1, <2>1, <2>3, <2>4 DEF Told, Right, AdvertOf
  <2> QED BY <1>1, <2>5, <2>6 DEF Told
<1> QED BY <1>3, <1>4, <1>5 DEF Admits, Ladder

LEMMA LookAdmits ==
  ASSUME Inv, Admits, NEW s \in Session,
         \/ \E p \in Explicit : StartExplicit(s, p)
         \/ StartLook(s) \/ Look(s) \/ Attach(s) \/ Refuse(s)
         \/ LookAgain(s) \/ GiveUpLooking(s) \/ Recheck(s)
  PROVE  Admits'
<1> USE DEF Types, Resolving, Spawning, Ensuring, Active, InHand
<1>1. /\ pc \in [Session -> Types] /\ offset \in [Session -> Port]
      /\ hand \in [Session -> Target \cup {NoFile}]
      /\ offset[s] \in Port
  BY DEF Inv, Steady, TypeOK
<1>2. /\ pc[s] \in Resolving \cup {"idle"} => \A p \in Port : proc[<<s, p>>] = "none"
      /\ clean /\ ~raced => Told
  BY DEF Admits, Ladder, LadderOf
<1>3. ASSUME UNCHANGED proc, UNCHANGED offset, pc[s] \in Resolving \cup {"idle"},
             pc'[s] \in Resolving \cup {"try", "attached"}
      PROVE  LadderOf(s)'
  <2>1. \A p \in Port : proc'[<<s, p>>] = "none"
    BY <1>2, <1>3
  <2>2. proc'[<<s, offset'[s]>>] = "none"
    BY <1>1, <1>3, <2>1
  <2> QED BY <1>3, <2>1, <2>2 DEF LadderOf, Child, Idled
<1>4. ASSUME NEW l \in Resolving \cup {"try", "attached"}, Goto(s, l) PROVE pc'[s] = l
  BY <1>1, <1>4 DEF Goto
<1>5. ASSUME NEW p \in Explicit, StartExplicit(s, p) PROVE Admits'
  <2> DEFINE t == [port |-> p, cred |-> NoCred, fp |-> NoModel]
  <2>1. CASE Accepts(p)
    <3>1. /\ hand' = [hand EXCEPT ![s] = t] /\ Goto(s, "attached") /\ pc[s] = "idle"
          /\ UNCHANGED <<lease, listen, endpoint, offset, polls, proc, faults, raced>>
      BY <1>5, <2>1 DEF StartExplicit
    <3>2. hand'[s].cred = NoCred /\ \A q \in Session \ {s} : hand'[q] = hand[q]
      BY <1>1, <3>1
    <3>3. Right(hand[s])'
      BY <3>2, OwnerAssumption DEF Right
    <3>4. endpoint # NoFile /\ clean /\ ~raced => Right(endpoint)'
      BY <1>2, <3>1 DEF Told, Right, AdvertOf
    <3>5. LadderOf(s)'
      BY <1>3, <1>4, <3>1
    <3> QED BY <3>1, <3>2, <3>3, <3>4, <3>5, SessionAdmits DEF clean
  <2>2. CASE ~Accepts(p)
    <3>1. /\ Goto(s, "look") /\ pc[s] = "idle"
          /\ UNCHANGED <<lease, listen, endpoint, offset, polls, proc, faults, raced, hand>>
      BY <1>5, <2>2 DEF StartExplicit
    <3>2. endpoint # NoFile /\ clean /\ ~raced => Right(endpoint)'
      BY <1>2, <3>1 DEF Told, Right, AdvertOf
    <3>3. LadderOf(s)'
      BY <1>3, <1>4, <3>1
    <3> QED BY <3>1, <3>2, <3>3, SessionAdmits DEF clean
  <2> QED BY <2>1, <2>2
<1>6. ASSUME StartLook(s) \/ LookAgain(s) PROVE Admits'
  <2>1. /\ Goto(s, "look") /\ pc[s] \in Resolving \cup {"idle"}
        /\ UNCHANGED <<lease, listen, endpoint, offset, hand, proc, faults, raced>>
    BY <1>6 DEF StartLook, LookAgain
  <2>2. endpoint # NoFile /\ clean /\ ~raced => Right(endpoint)'
    BY <1>2, <2>1 DEF Told, Right, AdvertOf
  <2>3. LadderOf(s)'
    BY <1>3, <1>4, <2>1
  <2> QED BY <2>1, <2>2, <2>3, SessionAdmits DEF clean
<1>7. ASSUME Look(s) PROVE Admits'
  <2>1. PICK l \in {"recheck", "probe"} : Goto(s, l) /\ (l = "probe" => endpoint # NoFile)
    BY <1>7 DEF Look
  <2>2. /\ pc[s] = "look" /\ hand' = [hand EXCEPT ![s] = endpoint]
        /\ UNCHANGED <<lease, listen, endpoint, offset, polls, proc, faults, raced>>
    BY <1>7 DEF Look
  <2>3. hand'[s] = endpoint /\ \A q \in Session \ {s} : hand'[q] = hand[q]
    BY <1>1, <2>2
  <2>4. endpoint # NoFile /\ clean /\ ~raced => Right(endpoint)' /\ Right(hand[s])'
    BY <1>2, <2>2, <2>3 DEF Told, Right, AdvertOf
  <2>5. LadderOf(s)'
    BY <1>3, <1>4, <2>1, <2>2
  <2> QED BY <2>1, <2>2, <2>3, <2>4, <2>5, SessionAdmits DEF clean
<1>8. ASSUME Attach(s) PROVE Admits'
  <2>1. /\ Goto(s, "attached") /\ pc[s] = "probe"
        /\ UNCHANGED <<lease, listen, endpoint, offset, hand, proc, faults, raced>>
    BY <1>8 DEF Attach
  <2>2. clean /\ ~raced => (endpoint # NoFile => Right(endpoint)') /\ Right(hand[s])'
    BY <1>2, <2>1 DEF Told, Right, AdvertOf
  <2>3. LadderOf(s)'
    BY <1>3, <1>4, <2>1
  <2> QED BY <2>1, <2>2, <2>3, SessionAdmits DEF clean
<1>9. ASSUME Refuse(s) \/ GiveUpLooking(s) PROVE Admits'
  <2>1. /\ Goto(s, "try") /\ pc[s] = "probe" /\ EnterSpawn(s) /\ Forget(s)
        /\ UNCHANGED <<lease, listen, endpoint, offset, proc, faults>>
    BY <1>9 DEF Refuse, GiveUpLooking
  <2>2. \A q \in Session \ {s} : hand'[q] = hand[q]
    BY <1>1, <2>1 DEF Forget
  <2>3. clean /\ ~raced => (endpoint # NoFile => Right(endpoint)')
    BY <1>2, <2>1 DEF Told, Right, AdvertOf
  <2>4. LadderOf(s)'
    BY <1>3, <1>4, <2>1
  <2> QED BY <2>1, <2>2, <2>3, <2>4, SessionAdmits DEF clean
<1>10. ASSUME Recheck(s) PROVE Admits'
  <2>1. PICK l \in {"look", "try"} : /\ Goto(s, l)
                                     /\ l = "try" => EnterSpawn(s)
                                     /\ l = "look" => raced' = raced
    BY <1>10 DEF Recheck
  <2>2. /\ pc[s] = "recheck"
        /\ UNCHANGED <<lease, listen, endpoint, offset, polls, hand, proc, faults>>
    BY <1>10 DEF Recheck
  <2>3. clean /\ ~raced => (endpoint # NoFile => Right(endpoint)')
    BY <1>2, <2>2 DEF Told, Right, AdvertOf
  <2>4. LadderOf(s)'
    BY <1>3, <1>4, <2>1, <2>2
  <2> QED BY <2>1, <2>2, <2>3, <2>4, SessionAdmits DEF clean
<1> QED BY <1>5, <1>6, <1>7, <1>8, <1>9, <1>10

LEMMA EnsureAdmits ==
  ASSUME Inv, Admits, NEW s \in Session,
         \/ StartEnsure(s) \/ AskAttached(s) \/ AskVacant(s) \/ GiveBack(s) \/ Check(s)
         \/ WaitRead(s) \/ Confirm(s) \/ WaitExpires(s)
  PROVE  Admits'
<1> USE DEF Types, Resolving, Spawning, Ensuring, Active, InHand
<1>1. /\ pc \in [Session -> Types] /\ hand \in [Session -> Target \cup {NoFile}]
  BY DEF Inv, Steady, TypeOK
<1>2. PICK l \in {"ask", "giveback", "spawn", "check", "attached", "confirm", "wait", "failed"} :
        /\ Goto(s, l)
        /\ l \in {"confirm", "wait"} => pc[s] \in {"wait", "confirm"}
        /\ l = "check" => pc[s] = "ask" /\ hand'[s] = endpoint /\ endpoint # NoFile
        /\ l = "confirm" => hand'[s] = endpoint /\ endpoint # NoFile
        /\ l = "attached" => pc[s] \in {"check", "confirm"} /\ hand'[s] = hand[s]
  BY <1>1 DEF StartEnsure, AskAttached, AskVacant, GiveBack, Check, WaitRead, Confirm, WaitExpires
<1>3. UNCHANGED <<listen, endpoint, offset, polls, proc, faults, raced>>
  BY DEF StartEnsure, AskAttached, AskVacant, GiveBack, Check, WaitRead, Confirm, WaitExpires
<1>4. \A q \in Session \ {s} : hand'[q] = hand[q]
  BY <1>1 DEF StartEnsure, AskAttached, AskVacant, GiveBack, Check, WaitRead, Confirm, WaitExpires,
              Forget
<1>5. pc'[s] = l
  BY <1>1, <1>2 DEF Goto
<1>6. LadderOf(s)'
  BY <1>5 DEF LadderOf
<1>7. clean /\ ~raced => /\ endpoint # NoFile => Right(endpoint)'
                         /\ l \in InHand => Right(hand[s])'
  <2>1. clean /\ ~raced => Told
    BY DEF Admits
  <2> QED BY <1>2, <1>3, <2>1 DEF Told, Right, AdvertOf
<1> QED BY <1>2, <1>3, <1>4, <1>6, <1>7, SessionAdmits DEF clean

\* While a session spawns and there is no race, a listening owner is its own child.
LEMMA OwnListener ==
  ASSUME Inv, Admits, ~raced, NEW s \in Session, pc[s] \in Active,
         NEW p \in Port, listen[p] \in Heavy
  PROVE  listen[p] = <<s, p>> /\ proc[<<s, p>>] \in Open
<1>1. listen[p][2] = p /\ proc[listen[p]] \in Open
  BY DEF Admits, Listeners
<1>2. listen[p][1] = s
  BY <1>1 DEF Admits, Unraced, Idled, Open
<1> QED BY <1>1, <1>2 DEF Heavy

\* Nobody but owners listens while nothing has gone wrong.
LEMMA OwnerListens ==
  ASSUME Inv, clean, NEW p \in Port, Accepts(p)
  PROVE  listen[p] \in Heavy
BY DEF Inv, Steady, TypeOK, ListenersServe, Accepts

LEMMA NextAdmits ==
  ASSUME Inv, Admits, NEW s \in Session, pc[s] \in {"poll", "reprobe"}, proc[Child(s)] = "ended",
         NextOffset(s), UNCHANGED <<lease, listen, endpoint, polls, proc, faults, raced>>
  PROVE  Admits'
<1> USE DEF Types, Spawning, Active, InHand
<1>1. /\ pc \in [Session -> Types] /\ hand \in [Session -> Target \cup {NoFile}]
      /\ offset \in [Session -> Port]
  BY DEF Inv, Steady, TypeOK, Resolving, Ensuring
<1>2. offset[s] \in Offset
  BY <1>1 DEF Inv, Steady, SpawnedOnce, Port
<1>3. \A q \in Session \ {s} : hand'[q] = hand[q]
  BY <1>1 DEF NextOffset, Forget
<1>4. clean /\ ~raced => (endpoint # NoFile => Right(endpoint)')
  BY DEF Admits, Told, Right, AdvertOf
<1>5. CASE offset[s] < MaxOffset
  <2>1. offset' = [offset EXCEPT ![s] = offset[s] + 1] /\ Goto(s, "try")
    BY <1>5 DEF NextOffset
  <2>2. /\ pc'[s] = "try" /\ offset'[s] = offset[s] + 1
        /\ \A q \in Session \ {s} : offset'[q] = offset[q]
    BY <1>1, <2>1 DEF Goto
  <2>3. offset[s] \in Nat /\ offset[s] + 1 \in Port /\ \A p \in Port : p \in Nat
    BY <1>2, <1>5, OwnerAssumption DEF Port, Offset, Ephemeral
  <2>4. \A p \in Port : /\ p # offset[s] => proc[<<s, p>>] \in Idled
                        /\ p > offset[s] => proc[<<s, p>>] = "none"
    BY DEF Admits, Ladder, LadderOf
  <2>5. proc[<<s, offset[s]>>] \in Idled
    BY DEF Child, Idled
  <2>6. proc[<<s, offset[s] + 1>>] = "none"
    BY <2>3, <2>4
  <2>7. \A p \in Port : p > offset[s] + 1 => proc[<<s, p>>] = "none"
    BY <2>3, <2>4
  <2>8. \A p \in Port : proc[<<s, p>>] \in Idled
    BY <2>4, <2>5
  <2>9. LadderOf(s)'
    BY <2>2, <2>6, <2>7, <2>8 DEF LadderOf, Child, Resolving
  <2> QED BY <1>3, <1>4, <2>1, <2>2, <2>9, SessionAdmits DEF clean
<1>6. CASE ~(offset[s] < MaxOffset)
  <2>1. UNCHANGED offset /\ Goto(s, "failed")
    BY <1>6 DEF NextOffset
  <2>2. pc'[s] = "failed"
    BY <1>1, <2>1 DEF Goto
  <2>3. LadderOf(s)'
    BY <2>2 DEF LadderOf, Resolving
  <2> QED BY <1>3, <1>4, <2>1, <2>3, SessionAdmits DEF clean
<1> QED BY <1>5, <1>6

LEMMA SpawnAdmits ==
  ASSUME Inv, Admits, NEW s \in Session,
         \/ TryTaken(s) \/ Reuse(s) \/ AwaitAccepts(s) \/ AwaitQuiet(s)
         \/ PollAlive(s) \/ PollEnded(s) \/ Reprobe(s) \/ WriteTarget(s)
  PROVE  Admits'
<1> USE DEF Types, Spawning, Active, InHand
<1>1. /\ pc \in [Session -> Types] /\ hand \in [Session -> Target \cup {NoFile}]
      /\ offset \in [Session -> Port] /\ endpoint \in Target \cup {NoFile}
      /\ offset[s] \in Port
  BY DEF Inv, Steady, TypeOK, Resolving, Ensuring
<1>2. LadderOf(s) /\ (clean /\ ~raced => Told)
  BY DEF Admits, Ladder
<1>3. UNCHANGED <<endpoint, proc>> => (clean /\ ~raced => (endpoint # NoFile => Right(endpoint)'))
  BY <1>2 DEF Told, Right, AdvertOf
<1>4. \A l \in Types : Goto(s, l) => pc'[s] = l
  BY <1>1 DEF Goto
<1>5. \A t : hand' = [hand EXCEPT ![s] = t]
        => hand'[s] = t /\ \A q \in Session \ {s} : hand'[q] = hand[q]
  BY <1>1
<1>6. ASSUME TryTaken(s) \/ AwaitQuiet(s) \/ PollAlive(s) PROVE Admits'
  <2>1. PICK l \in {"reuse", "poll", "await"} : Goto(s, l) /\ (l = "reuse" => pc[s] = "try")
    BY <1>6 DEF TryTaken, AwaitQuiet, PollAlive
  <2>2. /\ pc[s] \in {"try", "await", "poll"}
        /\ UNCHANGED <<lease, listen, endpoint, offset, polls, hand, proc, faults, raced>>
    BY <1>6 DEF TryTaken, AwaitQuiet, PollAlive
  <2>3. pc'[s] = l
    BY <1>4, <2>1
  <2>4. LadderOf(s)'
    BY <1>2, <2>1, <2>2, <2>3 DEF LadderOf, Child, Resolving
  <2> QED BY <1>3, <2>1, <2>2, <2>4, SessionAdmits DEF clean
<1>7. ASSUME Reuse(s) PROVE Admits'
  <2> DEFINE vouched == endpoint # NoFile /\ endpoint.port = offset[s] /\ Allows(s, endpoint)
             filled == [endpoint EXCEPT !.cred = IF @ = NoCred THEN s ELSE @,
                                        !.fp = IF @ = NoModel THEN ModelOf[s] ELSE @]
             t == IF vouched THEN filled ELSE Minted(s, offset[s])
  <2>1. t = Minted(s, offset[s]) \/ t.port = offset[s]
    BY <1>1 DEF Target
  <2>2. /\ hand' = [hand EXCEPT ![s] = t] /\ Goto(s, "write") /\ pc[s] = "reuse"
        /\ UNCHANGED <<lease, listen, endpoint, offset, polls, proc, faults, raced>>
    BY <1>7 DEF Reuse
  <2> HIDE DEF t
  <2>3. pc'[s] = "write" /\ hand'[s] = t /\ \A q \in Session \ {s} : hand'[q] = hand[q]
    BY <1>4, <1>5, <2>2
  <2>4. proc[<<s, offset[s]>>] = "none"
    BY <1>2, <2>2 DEF LadderOf, Child
  <2>5. LadderOf(s)'
    BY <1>2, <2>1, <2>2, <2>3, <2>4 DEF LadderOf, Child, Resolving, Idled, Minted
  <2>6. ~(clean /\ ~raced)
    <3>1. SUFFICES ASSUME clean, ~raced PROVE FALSE
      OBVIOUS
    <3>2. listen[offset[s]] \in Heavy
      BY <1>1, <2>2, <3>1, OwnerListens DEF Inv, TakenAccept
    <3>3. proc[<<s, offset[s]>>] \in Open
      BY <1>1, <2>2, <3>1, <3>2, OwnListener
    <3> QED BY <2>4, <3>3 DEF Open
  <2> QED BY <1>3, <2>2, <2>3, <2>5, <2>6, SessionAdmits DEF clean
<1>8. ASSUME AwaitAccepts(s) PROVE Admits'
  <2>1. /\ hand' = [hand EXCEPT ![s] = Minted(s, offset[s])] /\ Goto(s, "write")
        /\ pc[s] = "await" /\ Accepts(offset[s])
        /\ UNCHANGED <<lease, listen, endpoint, offset, polls, proc, faults, raced>>
    BY <1>8 DEF AwaitAccepts
  <2>2. /\ pc'[s] = "write" /\ hand'[s] = Minted(s, offset[s])
        /\ \A q \in Session \ {s} : hand'[q] = hand[q]
    BY <1>4, <1>5, <2>1
  <2>3. LadderOf(s)'
    BY <1>2, <2>1, <2>2 DEF LadderOf, Resolving, Minted
  <2>4. clean /\ ~raced => Right(hand[s])'
    <3>1. SUFFICES ASSUME clean, ~raced PROVE Right(hand[s])'
      OBVIOUS
    <3>2. listen[offset[s]] \in Heavy
      BY <1>1, <2>1, <3>1, OwnerListens
    <3>3. proc[<<s, offset[s]>>] \in Open
      BY <1>1, <2>1, <3>1, <3>2, OwnListener
    <3>4. /\ Minted(s, offset[s]).cred = s /\ Minted(s, offset[s]).port = offset[s]
          /\ Minted(s, offset[s]) = AdvertOf(<<s, offset[s]>>)
      BY DEF Minted, AdvertOf
    <3> QED BY <2>1, <2>2, <3>3, <3>4 DEF Right, AdvertOf
  <2> QED BY <1>3, <2>1, <2>2, <2>3, <2>4, SessionAdmits DEF clean
<1>9. ASSUME PollEnded(s) PROVE Admits'
  <2>1. CASE endpoint # NoFile /\ Allows(s, endpoint)
    <3>1. /\ hand' = [hand EXCEPT ![s] = endpoint] /\ Goto(s, "reprobe") /\ pc[s] = "poll"
          /\ proc[Child(s)] = "ended"
          /\ UNCHANGED <<lease, listen, endpoint, offset, polls, proc, faults, raced>>
      BY <1>9, <2>1 DEF PollEnded
    <3>2. /\ pc'[s] = "reprobe" /\ hand'[s] = endpoint
          /\ \A q \in Session \ {s} : hand'[q] = hand[q]
      BY <1>4, <1>5, <3>1
    <3>3. LadderOf(s)'
      BY <1>2, <3>1, <3>2 DEF LadderOf, Resolving, Child
    <3>4. clean /\ ~raced => Right(endpoint)' /\ Right(hand[s])'
      BY <1>2, <2>1, <3>1, <3>2 DEF Told, Right, AdvertOf
    <3> QED BY <3>1, <3>2, <3>3, <3>4, SessionAdmits DEF clean
  <2>2. CASE ~(endpoint # NoFile /\ Allows(s, endpoint))
    BY <1>9, <2>2, NextAdmits DEF PollEnded
  <2> QED BY <2>1, <2>2
<1>10. ASSUME Reprobe(s) PROVE Admits'
  <2>1. CASE Accepts(hand[s].port)
    <3>1. /\ Goto(s, "write") /\ pc[s] = "reprobe" /\ UNCHANGED hand
          /\ UNCHANGED <<lease, listen, endpoint, offset, polls, proc, faults, raced>>
      BY <1>10, <2>1 DEF Reprobe
    <3>2. pc'[s] = "write"
      BY <1>4, <3>1
    <3>3. hand[s].port \in Port
      BY <1>1, <3>1 DEF Inv, Steady, Handed, Target
    <3>4. \A p \in Port : proc[<<s, p>>] \in Idled
      BY <1>2, <3>1 DEF LadderOf, Child, Idled
    <3>5. LadderOf(s)'
      BY <1>2, <3>1, <3>2, <3>3, <3>4 DEF LadderOf, Resolving
    <3>6. clean /\ ~raced => Right(hand[s])'
      BY <1>2, <3>1 DEF Told, Right, AdvertOf
    <3> QED BY <1>3, <3>1, <3>5, <3>6, SessionAdmits DEF clean
  <2>2. CASE ~Accepts(hand[s].port)
    <3>1. proc[Child(s)] = "ended"
      BY <1>2, <1>10 DEF LadderOf, Reprobe
    <3> QED BY <1>10, <2>2, <3>1, NextAdmits DEF Reprobe
  <2> QED BY <2>1, <2>2
<1>11. ASSUME WriteTarget(s) PROVE Admits'
  <2>1. /\ Goto(s, "attached") /\ pc[s] = "write"
        /\ endpoint' = hand[s] \/ UNCHANGED endpoint
        /\ UNCHANGED <<lease, listen, offset, polls, hand, proc, raced>>
    BY <1>11 DEF WriteTarget
  <2>2. pc'[s] = "attached"
    BY <1>4, <2>1
  <2>3. clean' => clean
    BY <1>11, OwnerAssumption DEF WriteTarget, Falter, clean, Inv, Steady, TypeOK
  <2>4. LadderOf(s)'
    BY <2>2 DEF LadderOf, Resolving
  <2>5. clean /\ ~raced => (endpoint' # NoFile => Right(endpoint)') /\ Right(hand[s])'
    BY <1>2, <2>1 DEF Told, Right, AdvertOf
  <2> QED BY <2>1, <2>3, <2>4, <2>5, SessionAdmits
<1> QED BY <1>6, <1>7, <1>8, <1>9, <1>10, <1>11

\* A child that is set to start where nothing was started yet.
LEMMA LaunchAdmits ==
  ASSUME Inv, Admits, NEW s \in Session, TryLaunch(s) \/ Spawn(s)
  PROVE  Admits'
<1> USE DEF Spawning, Active, InHand
<1>1. /\ pc \in [Session -> Types] /\ hand \in [Session -> Target \cup {NoFile}]
      /\ offset \in [Session -> Port] /\ endpoint \in Target \cup {NoFile}
      /\ proc \in [Heavy -> Running \cup {"none", "start", "ended"}]
  BY DEF Inv, Steady, TypeOK, Resolving, Ensuring, Types
<1>2. PICK p \in Port, l \in {"await", "wait"} :
        /\ Goto(s, l) /\ proc' = [proc EXCEPT ![<<s, p>>] = "start"]
        /\ proc[<<s, p>>] = "none"
        /\ l = "await" => pc[s] = "try" /\ p = offset[s] /\ raced' = raced /\ UNCHANGED offset
        /\ l = "wait" => EnterSpawn(s)
  <2>1. CASE TryLaunch(s)
    BY <1>1, <2>1 DEF TryLaunch, Child, Admits, Ladder, LadderOf
  <2>2. CASE Spawn(s)
    <3>1. proc[<<s, Ephemeral>>] = "none"
      BY <2>2 DEF Spawn, Inv, Steady, SpawnedOnce
    <3> QED BY <2>2, <3>1, Ports DEF Spawn
  <2> QED BY <2>1, <2>2
<1>3. /\ UNCHANGED <<listen, endpoint, faults>>
      /\ \A q \in Session \ {s} : offset'[q] = offset[q] /\ hand'[q] = hand[q]
  BY <1>1 DEF TryLaunch, Spawn, Forget
<1>4. /\ pc'[s] = l /\ \A q \in Session \ {s} : pc'[q] = pc[q]
  BY <1>1, <1>2 DEF Goto, Types, Ensuring
<1>5. /\ <<s, p>> \in Heavy /\ proc'[<<s, p>>] = "start"
      /\ \A g \in Heavy : g # <<s, p>> => proc'[g] = proc[g]
  BY <1>1, <1>2 DEF Heavy
<1>6. \A g \in Heavy : proc[g] \in Open => proc'[g] = proc[g]
  BY <1>2, <1>5 DEF Open
<1>7. \A g \in Heavy : proc'[g] \in Open => proc[g] \in Open
  BY <1>5 DEF Open
<1>8. Listeners' /\ (clean' => Advertised')
  BY <1>3, <1>6, <1>7 DEF Admits, Listeners, Advertised, clean
<1>9. Ladder'
  <2>1. ASSUME NEW q \in Session, q # s PROVE LadderOf(q)'
    <3>1. \A o \in Port : <<q, o>> \in Heavy /\ <<q, o>> # <<s, p>>
      BY <2>1 DEF Heavy
    <3>2. \A o \in Port : proc'[<<q, o>>] = proc[<<q, o>>]
      BY <1>5, <3>1
    <3>3. offset[q] \in Port /\ (pc[q] = "write" => hand[q].port \in Port)
      BY <1>1 DEF Inv, Steady, Handed, Target
    <3>4. pc'[q] = pc[q] /\ offset'[q] = offset[q] /\ hand'[q] = hand[q] /\ LadderOf(q)
      BY <1>3, <1>4, <2>1 DEF Admits, Ladder
    <3> QED BY <3>2, <3>3, <3>4 DEF LadderOf, Child, Minted
  <2>2. CASE l = "wait"
    BY <1>4, <2>1, <2>2 DEF Ladder, LadderOf, Resolving
  <2>3. CASE l = "await"
    <3>1. LadderOf(s) /\ offset'[s] = offset[s] /\ p = offset[s] /\ pc[s] = "try"
      BY <1>2, <2>3 DEF Admits, Ladder
    <3>2. \A o \in Port : <<s, o>> \in Heavy /\ (o # p => proc'[<<s, o>>] = proc[<<s, o>>])
      BY <1>5 DEF Heavy
    <3>3. p \in Nat /\ \A o \in Port : o \in Nat
      BY OwnerAssumption DEF Port, Offset, Ephemeral
    <3>4. \A o \in Port : o > p => o # p
      BY <3>3
    <3>5. LadderOf(s)'
      BY <1>4, <2>3, <3>1, <3>2, <3>4 DEF LadderOf, Resolving
    <3> QED BY <2>1, <3>5 DEF Ladder
  <2> QED BY <2>2, <2>3
<1>10. EnterSpawn(s) =>
        (~raced' => /\ ~raced
                    /\ \A q \in Session \ {s} : pc[q] \notin Active
                    /\ \A h \in Heavy : h[1] # s => proc[h] \in Idled)
  BY <1>1 DEF EnterSpawn, Idled
<1>11. Unraced'
  <2> SUFFICES ASSUME ~raced', NEW q \in Session, pc'[q] \in Active
               PROVE  /\ \A r \in Session \ {q} : pc'[r] \notin Active
                      /\ \A h \in Heavy : h[1] # q => proc'[h] \in Idled
    BY DEF Unraced
  <2>1. ~raced
    BY <1>2, <1>10
  <2>2. /\ \A r \in Session \ {s} : pc[r] \notin Active
        /\ \A h \in Heavy : h[1] # s => proc[h] \in Idled
    BY <1>2, <1>10, <2>1 DEF Admits, Unraced
  <2>3. q = s
    BY <1>4, <2>2
  <2>4. <<s, p>>[1] = s
    OBVIOUS
  <2> QED BY <1>4, <1>5, <2>2, <2>3, <2>4
<1>12. ASSUME clean', ~raced' PROVE Told'
  <2>1. clean /\ ~raced
    BY <1>2, <1>3, <1>10, <1>12 DEF clean
  <2>2. Told
    BY <2>1 DEF Admits
  <2>3. ASSUME NEW t \in Target, Right(t)
        PROVE  t.cred \in Session => /\ t = AdvertOf(<<t.cred, t.port>>)
                                     /\ proc'[<<t.cred, t.port>>] \in Open
    <3>1. t.cred \in Session => <<t.cred, t.port>> \in Heavy
      BY DEF Target, Heavy
    <3> QED BY <1>6, <2>3, <3>1 DEF Right
  <2>4. endpoint' # NoFile => Right(endpoint)'
    BY <1>1, <1>3, <2>2, <2>3 DEF Told, Right, AdvertOf
  <2>5. \A q \in Session : pc[q] \in InHand => hand[q] \in Target
    BY <1>1 DEF Inv, Steady, Handed
  <2>6. \A q \in Session \ {s} : pc[q] \in InHand => Right(hand[q])'
    BY <1>3, <2>2, <2>3, <2>5 DEF Told, Right, AdvertOf
  <2> QED BY <1>4, <2>4, <2>6 DEF Told
<1> QED BY <1>8, <1>9, <1>11, <1>12 DEF Admits

LEMMA OwnerAdmits ==
  ASSUME Inv, Admits, NEW h \in Heavy, OwnerStep(h) \/ OwnerOpenFails(h)
  PROVE  Admits'
<1> USE DEF Idled, Open
<1>1. /\ proc \in [Heavy -> Running \cup {"none", "start", "ended"}]
      /\ listen \in [Port -> Heavy \cup {NoOne, Stranger}]
      /\ faults \in Nat
  BY OwnerAssumption DEF Inv, Steady, TypeOK
<1>2. ASSUME NEW l \in Running \cup {"ended"}, GotoProc(h, l)
      PROVE  proc'[h] = l /\ \A g \in Heavy : g # h => proc'[g] = proc[g]
  BY <1>1, <1>2 DEF GotoProc
<1>3. Listeners /\ (clean => Advertised)
  BY DEF Admits
<1>4. UNCHANGED <<sessions, raced>>
  BY DEF OwnerStep, OwnerAttaches, OwnerAcquires, OwnerOpens, OwnerBinds, OwnerBindFails,
         OwnerAdvertises, OwnerOpenFails
<1>5. ASSUME NEW l \in {"ended", "opening", "bind"}, GotoProc(h, l),
             proc[h] \in {"start", "opening", "bind"},
             UNCHANGED <<listen, endpoint>>, clean' => clean
      PROVE  Admits'
  <2>1. proc'[h] = l /\ \A g \in Heavy : g # h => proc'[g] = proc[g]
    BY <1>2, <1>5 DEF Running
  <2>2. Listeners' /\ (clean' => Advertised')
    BY <1>3, <1>5, <2>1 DEF Listeners, Advertised
  <2>3. /\ \A g \in Heavy : proc[g] \in Idled => proc'[g] = proc[g]
        /\ \A g \in Heavy : proc[g] \in Open => proc'[g] \in Open
    BY <1>5, <2>1
  <2> QED BY <1>4, <1>5, <2>2, <2>3, OthersAdmit
<1>6. ASSUME OwnerAttaches(h) \/ OwnerAcquires(h) \/ OwnerOpens(h) \/ OwnerBindFails(h) PROVE Admits'
  BY <1>5, <1>6 DEF OwnerAttaches, OwnerAcquires, OwnerOpens, OwnerBindFails, clean
<1>7. ASSUME OwnerOpenFails(h) PROVE Admits'
  <2>1. clean' => clean
    BY <1>1, <1>7 DEF OwnerOpenFails, Falter, clean
  <2> QED BY <1>5, <1>7, <2>1 DEF OwnerOpenFails
<1>8. ASSUME OwnerBinds(h) PROVE Admits'
  <2>1. /\ GotoProc(h, "advertise") /\ proc[h] = "bind" /\ listen[h[2]] = NoOne
        /\ listen' = [listen EXCEPT ![h[2]] = h]
        /\ UNCHANGED <<endpoint, faults>>
    BY <1>8 DEF OwnerBinds
  <2>2. h[2] \in Port
    BY DEF Heavy
  <2>3. listen'[h[2]] = h /\ \A p \in Port \ {h[2]} : listen'[p] = listen[p]
    BY <1>1, <2>1, <2>2
  <2>4. proc'[h] = "advertise" /\ \A g \in Heavy : g # h => proc'[g] = proc[g]
    BY <1>2, <2>1 DEF Running
  <2>5. Listeners'
    BY <1>3, <2>1, <2>3, <2>4 DEF Listeners
  <2>6. clean => Advertised'
    <3>1. \A g \in Heavy : g[2] \in Port /\ g # NoOne
      BY OwnerAssumption DEF Heavy
    <3>2. ASSUME clean, NEW g \in Heavy, g # h, proc'[g] \in Open PROVE listen'[g[2]] = g
      <4>1. listen[g[2]] = g
        BY <1>3, <2>4, <3>2 DEF Advertised
      <4>2. g[2] # h[2]
        BY <2>1, <3>1, <4>1
      <4> QED BY <2>3, <3>1, <4>1, <4>2
    <3> QED BY <2>3, <3>2 DEF Advertised
  <2>7. /\ \A g \in Heavy : proc[g] \in Idled => proc'[g] = proc[g]
        /\ \A g \in Heavy : proc[g] \in Open => proc'[g] \in Open
    BY <2>1, <2>4
  <2> QED BY <1>4, <2>1, <2>5, <2>6, <2>7, OthersAdmit DEF clean
<1>9. ASSUME OwnerAdvertises(h) PROVE Admits'
  <2>1. /\ GotoProc(h, "serving") /\ proc[h] = "advertise"
        /\ UNCHANGED listen
        /\ endpoint' = AdvertOf(h) \/ UNCHANGED endpoint
    BY <1>9 DEF OwnerAdvertises
  <2>2. clean' => clean
    BY <1>1, <1>9 DEF OwnerAdvertises, Falter, clean
  <2>3. proc'[h] = "serving" /\ \A g \in Heavy : g # h => proc'[g] = proc[g]
    BY <1>2, <2>1 DEF Running
  <2>4. Listeners' /\ (clean' => Advertised')
    BY <1>3, <2>1, <2>2, <2>3 DEF Listeners, Advertised
  <2>5. /\ \A g \in Heavy : proc[g] \in Idled => proc'[g] = proc[g]
        /\ \A g \in Heavy : proc[g] \in Open => proc'[g] \in Open
    BY <2>1, <2>3
  <2>6. endpoint' = AdvertOf(h) => endpoint' \in Target /\ Right(endpoint)'
    <3>1. /\ AdvertOf(h) \in Target /\ AdvertOf(h).cred = h[1] /\ AdvertOf(h).port = h[2]
          /\ h = <<h[1], h[2]>>
      BY AdvertType DEF AdvertOf, Heavy
    <3> QED BY <2>3, <3>1 DEF Right, AdvertOf
  <2> QED BY <1>4, <2>1, <2>2, <2>4, <2>5, <2>6, OthersAdmit
<1> QED BY <1>6, <1>7, <1>8, <1>9 DEF OwnerStep

LEMMA FaultAdmits ==
  ASSUME Inv, Admits,
         \/ LeaseLapses
         \/ \E p \in Port : StrangerBinds(p) \/ StrangerLeaves(p)
         \/ \E h \in Heavy : OwnerDies(h)
         \/ \E s \in Session : LaunchFails(s) \/ SessionDies(s)
  PROVE  Admits'
<1>1. TypeOK /\ Listeners /\ (clean => Advertised) /\ Ladder
  BY DEF Inv, Steady, Admits
<1>2. ASSUME LeaseLapses PROVE Admits'
  <2>1. UNCHANGED <<listen, endpoint, sessions, proc, faults, raced>>
    BY <1>2 DEF LeaseLapses
  <2>2. Listeners' /\ (clean' => Advertised')
    BY <1>1, <2>1 DEF Listeners, Advertised, clean
  <2> QED BY <2>1, <2>2, OthersAdmit DEF clean
<1>3. ASSUME NEW p \in Port, StrangerBinds(p) \/ StrangerLeaves(p) PROVE Admits'
  <2>1. /\ UNCHANGED <<endpoint, sessions, proc, raced>>
        /\ \E w \in {Stranger, NoOne} : listen' = [listen EXCEPT ![p] = w]
    BY <1>3 DEF StrangerBinds, StrangerLeaves
  <2>2. ~clean'
    BY <1>3, Faulty DEF StrangerBinds, StrangerLeaves, Inv, ListenersServe, clean
  <2>3. Listeners'
    BY <1>1, <2>1, OwnerAssumption DEF Listeners, TypeOK
  <2> QED BY <2>1, <2>2, <2>3, OthersAdmit
<1>4. ASSUME NEW h \in Heavy, Stop(h) PROVE Listeners'
  <2>1. \A g \in Heavy : g # h => proc'[g] = proc[g]
    BY <1>1, <1>4, StopType
  <2>2. \A p \in Port : listen'[p] = IF listen[p] = h THEN NoOne ELSE listen[p]
    BY <1>4 DEF Stop
  <2> QED BY <1>1, <2>1, <2>2, OwnerAssumption DEF Listeners
<1>5. ASSUME NEW h \in Heavy, OwnerDies(h) PROVE Admits'
  <2>1. Stop(h) /\ proc[h] \notin Idled /\ UNCHANGED <<endpoint, sessions, raced>>
    BY <1>5 DEF OwnerDies, Running, Idled
  <2>2. ~clean'
    BY <1>5, Faulty DEF OwnerDies
  <2>3. \A g \in Heavy : proc[g] \in Idled => proc'[g] = proc[g]
    BY <1>1, <2>1, StopType
  <2> QED BY <1>4, <2>1, <2>2, <2>3, OthersAdmit
<1>6. ASSUME NEW s \in Session, LaunchFails(s) PROVE Admits'
  <2> USE DEF Spawning, Active
  <2>1. /\ pc[s] = "await" /\ Stop(Child(s)) /\ NextOffset(s)
        /\ UNCHANGED <<endpoint, polls, raced>>
    BY <1>6 DEF LaunchFails
  <2>2. ~clean'
    BY <1>6, Faulty DEF LaunchFails
  <2>3. offset[s] \in Offset /\ Child(s) \in Heavy
    BY <1>1, <2>1 DEF TypeOK, Inv, Steady, SpawnedOnce, Child, Heavy, Port
  <2>4. PICK l \in {"try", "failed"} : /\ Goto(s, l)
                                       /\ l = "try" => /\ offset[s] < MaxOffset
                                                       /\ offset' = [offset EXCEPT ![s] = offset[s] + 1]
                                       /\ l = "failed" => UNCHANGED offset
    BY <2>1 DEF NextOffset
  <2>5. /\ pc'[s] = l /\ \A q \in Session \ {s} : pc'[q] = pc[q]
    BY <1>1, <2>4 DEF Goto, TypeOK
  <2>6. /\ \A q \in Session \ {s} : offset'[q] = offset[q] /\ hand'[q] = hand[q]
        /\ l = "try" => offset'[s] = offset[s] + 1
    BY <1>1, <2>1, <2>4 DEF TypeOK, NextOffset, Forget
  <2>7. /\ proc'[Child(s)] = "ended"
        /\ \A g \in Heavy : g # Child(s) => proc'[g] = proc[g]
    BY <1>1, <2>1, <2>3, StopType
  <2>8. Listeners'
    BY <1>4, <2>1, <2>3
  <2>9. ASSUME NEW q \in Session, q # s PROVE LadderOf(q)'
    <3>1. \A o \in Port : <<q, o>> \in Heavy /\ <<q, o>> # Child(s)
      BY <2>9 DEF Heavy, Child
    <3>2. \A o \in Port : proc'[<<q, o>>] = proc[<<q, o>>]
      BY <2>7, <3>1
    <3>3. offset[q] \in Port /\ (pc[q] = "write" => hand[q].port \in Port)
      BY <1>1 DEF Inv, Steady, Handed, Target, TypeOK
    <3>4. pc'[q] = pc[q] /\ offset'[q] = offset[q] /\ hand'[q] = hand[q] /\ LadderOf(q)
      BY <1>1, <2>5, <2>6, <2>9 DEF Ladder
    <3> QED BY <3>2, <3>3, <3>4 DEF LadderOf, Child, Minted
  <2>10. LadderOf(s)'
    <3>1. CASE l = "failed"
      BY <2>5, <3>1 DEF LadderOf, Resolving
    <3>2. CASE l = "try"
      <4>1. offset[s] \in Nat /\ offset[s] + 1 \in Port /\ \A o \in Port : o \in Nat
        BY <2>3, <2>4, <3>2, OwnerAssumption DEF Port, Offset, Ephemeral
      <4>2. \A o \in Port : /\ o # offset[s] => proc[<<s, o>>] \in Idled
                            /\ o > offset[s] => proc[<<s, o>>] = "none"
        BY <1>1, <2>1 DEF Ladder, LadderOf
      <4>3. \A o \in Port : o # offset[s] => proc'[<<s, o>>] = proc[<<s, o>>]
        BY <2>7 DEF Child, Heavy
      <4>4. proc'[<<s, offset[s] + 1>>] = "none"
        BY <4>1, <4>2, <4>3
      <4>5. \A o \in Port : o > offset[s] + 1 => proc'[<<s, o>>] = "none"
        BY <4>1, <4>2, <4>3
      <4>6. \A o \in Port : proc'[<<s, o>>] \in Idled
        BY <2>7, <4>2, <4>3 DEF Child, Idled
      <4> QED BY <2>5, <2>6, <3>2, <4>4, <4>5, <4>6 DEF LadderOf, Child, Resolving
    <3> QED BY <3>1, <3>2
  <2>11. \A g \in Heavy : proc[g] \in Idled => proc'[g] \in Idled
    BY <2>7 DEF Idled
  <2>12. Unraced'
    BY <2>1, <2>5, <2>11 DEF Admits, Unraced
  <2> QED BY <2>2, <2>8, <2>9, <2>10, <2>12 DEF Admits, Ladder
<1>7. ASSUME NEW s \in Session, SessionDies(s) PROVE Admits'
  <2>1. Goto(s, "gone") /\ Forget(s) /\ UNCHANGED <<lease, listen, endpoint, offset, polls, proc, raced>>
    BY <1>7 DEF SessionDies
  <2>2. pc'[s] = "gone" /\ \A q \in Session \ {s} : hand'[q] = hand[q]
    BY <1>1, <2>1 DEF Goto, Forget, TypeOK
  <2>3. ~clean'
    BY <1>7, Faulty DEF SessionDies
  <2>4. LadderOf(s)'
    BY <2>2 DEF LadderOf, Resolving, Spawning
  <2>5. clean /\ ~raced => (endpoint # NoFile => Right(endpoint)')
    BY <2>1 DEF Admits, Told, Right, AdvertOf
  <2> QED BY <2>1, <2>2, <2>3, <2>4, <2>5, SessionAdmits DEF Types, Active, Spawning, InHand
<1> QED BY <1>2, <1>3, <1>5, <1>6, <1>7

LEMMA StepAdmits == Inv /\ Admits /\ [Next]_vars => Admits'
<1> SUFFICES ASSUME Inv, Admits, [Next]_vars PROVE Admits'
  OBVIOUS
<1>1. CASE UNCHANGED vars
  BY <1>1 DEF vars, Admits, Ladder, LadderOf, Listeners, Unraced, Advertised, Told, Right, Child,
              Minted, AdvertOf, clean
<1>2. ASSUME NEW s \in Session, SessionStep(s) PROVE Admits'
  BY <1>2, LookAdmits, SpawnAdmits, LaunchAdmits, EnsureAdmits DEF SessionStep
<1>3. CASE Fault
  <2>1. \A p \in Offset : p \in Port
    BY Ports
  <2> QED BY <1>3, <2>1, OwnerAdmits, FaultAdmits DEF Fault
<1> QED BY <1>1, <1>2, <1>3, OwnerAdmits, FaultAdmits DEF Next

\* How a session comes to be attached.
LEMMA Attaching ==
  ASSUME Inv, Next, NEW s \in Session, pc[s] # "attached", pc'[s] = "attached"
  PROVE  \/ pc[s] = "idle" /\ hand'[s].cred = NoCred
         \/ pc[s] \in {"probe", "write", "check", "confirm"} /\ hand'[s] = hand[s]
<1>1. TypeOK
  BY DEF Inv, Steady
<1>2. ASSUME NEW q \in Session, NEW l, Goto(q, l)
      PROVE  pc'[q] = l /\ (q # s => pc'[s] = pc[s])
  BY <1>1, <1>2 DEF Goto, TypeOK
<1>3. ASSUME NEW q \in Session, NEW p \in Explicit, StartExplicit(q, p)
      PROVE  q = s /\ pc[s] = "idle" /\ hand'[s].cred = NoCred
  <2> DEFINE t == [port |-> p, cred |-> NoCred, fp |-> NoModel]
  <2>1. Accepts(p) /\ q = s
    BY <1>2, <1>3 DEF StartExplicit
  <2>2. hand' = [hand EXCEPT ![s] = t] /\ pc[s] = "idle"
    BY <1>3, <2>1 DEF StartExplicit
  <2>3. hand'[s] = t
    BY <1>1, <2>2 DEF TypeOK
  <2> QED BY <2>1, <2>2, <2>3
<1>4. ASSUME NEW q \in Session, Attach(q) \/ WriteTarget(q) \/ Check(q) \/ Confirm(q)
      PROVE  q = s /\ pc[s] \in {"probe", "write", "check", "confirm"} /\ hand'[s] = hand[s]
  <2>1. \E l : Goto(q, l)
    BY <1>4 DEF Attach, WriteTarget, Check, Confirm
  <2>2. q = s
    BY <1>2, <2>1
  <2> QED BY <1>4, <2>2 DEF Attach, WriteTarget, Check, Confirm
<1>5. ASSUME NEW q \in Session,
             \/ StartLook(q) \/ Look(q) \/ Refuse(q) \/ LookAgain(q) \/ GiveUpLooking(q)
             \/ Recheck(q) \/ TryTaken(q) \/ Reuse(q) \/ TryLaunch(q) \/ AwaitAccepts(q)
             \/ AwaitQuiet(q) \/ PollAlive(q) \/ PollEnded(q) \/ Reprobe(q) \/ StartEnsure(q)
             \/ AskAttached(q) \/ AskVacant(q) \/ GiveBack(q) \/ Spawn(q) \/ WaitRead(q)
             \/ WaitExpires(q) \/ LaunchFails(q) \/ SessionDies(q)
      PROVE  FALSE
  <2>1. \E l : Goto(q, l) /\ l # "attached"
    BY <1>5 DEF StartLook, Look, Refuse, LookAgain, GiveUpLooking, Recheck, TryTaken, Reuse,
       TryLaunch, AwaitAccepts, AwaitQuiet, PollAlive, PollEnded, Reprobe, StartEnsure,
       AskAttached, AskVacant, GiveBack, Spawn, WaitRead, WaitExpires, LaunchFails, SessionDies,
       NextOffset
  <2> QED BY <1>2, <2>1
<1>6. CASE UNCHANGED sessions
  BY <1>6 DEF sessions
<1>7. \A h \in Heavy : OwnerStep(h) \/ OwnerOpenFails(h) \/ OwnerDies(h) => UNCHANGED sessions
  BY DEF OwnerStep, OwnerAttaches, OwnerAcquires, OwnerOpens, OwnerBinds, OwnerBindFails,
         OwnerAdvertises, OwnerOpenFails, OwnerDies
<1>8. \A p : StrangerBinds(p) \/ StrangerLeaves(p) \/ LeaseLapses => UNCHANGED sessions
  BY DEF StrangerBinds, StrangerLeaves, LeaseLapses
<1>9. ASSUME NEW q \in Session, SessionStep(q)
      PROVE  \/ pc[s] = "idle" /\ hand'[s].cred = NoCred
             \/ pc[s] \in {"probe", "write", "check", "confirm"} /\ hand'[s] = hand[s]
  BY <1>3, <1>4, <1>5, <1>9 DEF SessionStep
<1> QED BY <1>5, <1>6, <1>7, <1>8, <1>9 DEF Next, Fault

\* A session that attaches presents the credential and the model of the owner that
\* listens there, if no other session spawned at the time and either it spawned itself or
\* nothing has gone wrong and the target is of this time (launch_heavy_on_port,
\* spawn_heavy_http and the endpoint file of proxy.rs).
THEOREM AttachedAreAdmitted == Spec => UnracedSessionsAreAdmitted
<1> DEFINE Admitted ==
      \A s \in Session :
        /\ pc[s] # "attached" /\ pc'[s] = "attached"
        /\ ~raced
        /\ pc[s] = "write" \/ (clean /\ hand'[s].cred \in Session)
        => LET h == listen[hand'[s].port] IN h \in Heavy => hand'[s] = AdvertOf(h)
<1>1. Inv /\ Admits /\ [Next]_vars => [Admitted]_vars
  <2> SUFFICES ASSUME Inv, Admits, Next, NEW s \in Session,
                      pc[s] # "attached", pc'[s] = "attached", ~raced,
                      pc[s] = "write" \/ (clean /\ hand'[s].cred \in Session),
                      listen[hand'[s].port] \in Heavy
               PROVE  hand'[s] = AdvertOf(listen[hand'[s].port])
    OBVIOUS
  <2>1. pc[s] \in {"probe", "write", "check", "confirm"} /\ hand'[s] = hand[s]
    BY Attaching, OwnerAssumption
  <2>2. hand[s] \in Target /\ hand[s].port \in Port
    BY <2>1 DEF Inv, Steady, Handed, TypeOK, Target
  <2>3. CASE pc[s] = "write"
    <3>1. /\ listen[hand[s].port] = <<s, hand[s].port>>
          /\ proc[<<s, hand[s].port>>] \in Open
      BY <2>1, <2>2, <2>3, OwnListener DEF Active, Spawning
    <3>2. hand[s] = Minted(s, offset[s])
      BY <2>3, <3>1 DEF Admits, Ladder, LadderOf, Open, Idled
    <3>3. hand[s].port = offset[s]
      BY <3>2 DEF Minted
    <3> QED BY <2>1, <3>1, <3>2, <3>3 DEF Minted, AdvertOf
  <2>4. CASE clean /\ hand[s].cred \in Session
    <3>1. /\ hand[s] = AdvertOf(<<hand[s].cred, hand[s].port>>)
          /\ proc[<<hand[s].cred, hand[s].port>>] \in Open
      BY <2>1, <2>4 DEF Admits, Told, Right, InHand
    <3>2. <<hand[s].cred, hand[s].port>> \in Heavy
      BY <2>2, <2>4 DEF Heavy
    <3>3. listen[hand[s].port] = <<hand[s].cred, hand[s].port>>
      BY <2>4, <3>1, <3>2 DEF Admits, Advertised
    <3> QED BY <2>1, <3>1, <3>3
  <2> QED BY <2>1, <2>3, <2>4
<1> QED BY <1>1, InvAlways, InitAdmits, StepAdmits, PTL DEF Spec, UnracedSessionsAreAdmitted
=============================================================================
