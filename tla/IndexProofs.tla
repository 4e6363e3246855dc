---------------------------- MODULE IndexProofs ----------------------------
(***************************************************************************)
(* Proofs about IndexStore for every set of engines, files, versions and   *)
(* models: pipelines of any number of processes over one database.         *)
(***************************************************************************)
EXTENDS IndexStore, TLAPS

-----------------------------------------------------------------------------
(* Type correctness.  What an engine holds is only well typed in the phases *)
(* that use it.                                                             *)

PhaseOK ==
  \A e \in Engine :
    /\ pc[e] = "down" => cur[e] = NoRow
    /\ pc[e] \in {"recreate", "embed"} => model[e] \in Model
    /\ batch[e].mode = "vectors" => pc[e] = "publish" /\ model[e] \in Model
    /\ pc[e] = "stale" => cur[e] # NoRow
    /\ pc[e] \in {"check", "recreate"} /\ cur[e] # NoRow => cur[e].text \in Content
    /\ pc[e] = "embed" => cur[e] # NoRow /\ cur[e].text \in Content

IndexInv == TypeOK /\ PhaseOK

\* What a batch names exists: its files, its versions, its symbols.
LEMMA PlanType ==
  ASSUME IndexInv, NEW e \in Engine, NEW T \in SUBSET File, NEW full \in BOOLEAN,
         pc[e] = "idle", PlanBatch(e, T, full)
  PROVE  /\ batch' \in [Engine -> Batches]
         /\ \A g \in Engine : batch'[g].mode = "vectors" => g # e /\ batch'[g] = batch[g]
         /\ \E l \in {"drain", "prepare"} : pc' = [pc EXCEPT ![e] = l]
<1> DEFINE changed == {f \in T : disk[f] # None /\ (full \/ ~Unchanged(f))}
           gone == {f \in T : disk[f] = None /\ fileRow[f] # None}
           dependents == {f \in File \ (changed \cup gone) : disk[f] # None /\ SymbolsIn(f) # {}}
           made(D) == [up |-> [f \in File |-> IF f \in changed \cup D THEN disk[f] ELSE None],
                       stale |-> Stale(changed \cup D \cup gone), gone |-> gone,
                       mode |-> "pending"]
<1>1. CASE changed \cup gone = {}
  BY <1>1 DEF PlanBatch, Goto, IndexInv, TypeOK, PhaseOK
<1>2. CASE changed \cup gone # {}
  <2>1. PICK D \in SUBSET dependents : /\ batch' = [batch EXCEPT ![e] = made(D)]
                                       /\ Goto(e, "prepare")
    BY <1>2 DEF PlanBatch
  <2>2. Stale(changed \cup D \cup gone) \subseteq Id
    BY DEF Stale
  <2>3. made(D) \in Batches
    BY <2>2 DEF Batches, IndexInv, TypeOK
  <2>4. made(D).mode = "pending"
    OBVIOUS
  <2> HIDE DEF made
  <2> QED BY <2>1, <2>3, <2>4 DEF IndexInv, TypeOK, Goto
<1> QED BY <1>1, <1>2

\* The typing invariant is inductive under every step of every engine.
LEMMA IndexInvStep == IndexInv /\ [Next]_vars => IndexInv'
<1> SUFFICES ASSUME IndexInv, [Next]_vars PROVE IndexInv'
  OBVIOUS
<1> USE IndexAssumption
    DEF IndexInv, TypeOK, PhaseOK, Batches, Rows, Phases, NoBatch, NoRow, Vector, Id,
        Goto, IdOf, Live, SymbolsIn, tree, tables, locals
<1>1. ASSUME NEW f \in File, NEW c \in Content \cup {None}, Edit(f, c) PROVE IndexInv'
  BY <1>1 DEF Edit
<1>2. ASSUME NEW i \in Id, BackoffElapses(i) PROVE IndexInv'
  BY <1>2 DEF BackoffElapses
<1>3. ASSUME NEW e \in Engine, NEW m \in Model \cup {None}, Open(e, m) PROVE IndexInv'
  <2>1. PICK l \in {"idle", "check", "drain"} : pc' = [pc EXCEPT ![e] = l]
    BY <1>3 DEF Open
  <2>2. pc[e] = "down" /\ model' = [model EXCEPT ![e] = m]
        /\ UNCHANGED <<tree, tables, watching, todo, batch, due, cur>>
    BY <1>3 DEF Open
  <2>3. cur[e] = NoRow
    BY <1>3 DEF Open
  <2>4. m = None => pc'[e] # "check"
    BY <1>3 DEF Open
  <2> QED BY <2>1, <2>2, <2>3, <2>4
<1>4. ASSUME NEW e \in Engine, StartWatch(e) PROVE IndexInv'
  BY <1>4 DEF StartWatch
<1>5. ASSUME NEW e \in Engine, NEW T \in SUBSET File, IndexTouched(e, T) PROVE IndexInv'
  <2>1. /\ batch' \in [Engine -> Batches]
        /\ \A g \in Engine : batch'[g].mode = "vectors" => g # e /\ batch'[g] = batch[g]
        /\ \E l \in {"drain", "prepare"} : pc' = [pc EXCEPT ![e] = l]
    BY <1>5, PlanType DEF IndexTouched
  <2> QED BY <1>5, <2>1 DEF IndexTouched
<1>6. ASSUME NEW e \in Engine, NEW r \in Requests, IndexRepo(e, r) PROVE IndexInv'
  <2>1. /\ batch' \in [Engine -> Batches]
        /\ \A g \in Engine : batch'[g].mode = "vectors" => g # e /\ batch'[g] = batch[g]
        /\ \E l \in {"drain", "prepare"} : pc' = [pc EXCEPT ![e] = l]
    BY <1>6, PlanType DEF IndexRepo
  <2> QED BY <1>6, <2>1 DEF IndexRepo
<1>7. ASSUME NEW e \in Engine, Prepare(e) PROVE IndexInv'
  <2>1. PICK l \in {"pending", "none", "vectors"} :
          /\ batch' = [batch EXCEPT ![e].mode = l]
          /\ l = "vectors" => model[e] # None
    BY <1>7 DEF Prepare
  <2>2. pc[e] = "prepare" /\ pc' = [pc EXCEPT ![e] = "publish"]
        /\ UNCHANGED <<tree, tables, model, watching, todo, due, cur>>
    BY <1>7 DEF Prepare
  <2>3. batch[e] \in Batches
    OBVIOUS
  <2>4. [batch[e] EXCEPT !.mode = l] \in Batches
    BY <2>3
  <2>5. batch' = [batch EXCEPT ![e] = [batch[e] EXCEPT !.mode = l]]
    BY <2>1
  <2>6. batch' \in [Engine -> Batches]
    BY <2>4, <2>5
  <2>7. l = "vectors" => model[e] \in Model
    BY <2>1
  <2>8. batch'[e].mode = l /\ \A g \in Engine \ {e} : batch'[g] = batch[g]
    BY <2>5, <2>3
  <2> HIDE DEF Batches
  <2>9. PhaseOK'
    BY <2>2, <2>7, <2>8
  <2> QED BY <2>2, <2>6, <2>9
<1>8. ASSUME NEW e \in Engine, Publish(e) PROVE IndexInv'
  <2> DEFINE b == batch[e]
             m == model[e]
             upFiles == {f \in File : b.up[f] # None}
             upIds == {IdOf(f, b.up[f]) : f \in upFiles}
             deleted == b.stale \cup {j \in Id : j[1] \in b.gone /\ Live(j)}
             dequeued == deleted \cup {j \in Id : j[1] \in b.gone} \cup Settled(b.mode, upIds)
  <2>1. b \in Batches /\ (b.mode = "vectors" => m \in Model) /\ upIds \subseteq Id
    BY <1>8 DEF Publish
  <2>2. \A i \in upIds : b.up[i[1]] \in Content
    BY <2>1
  <2>3. symbol' \in [Id -> Content \cup {None}] /\ vec' \in [Id -> Vector \cup {None}]
    <3>1. symbol' = [i \in Id |-> IF i \in deleted THEN None
                                 ELSE IF i \in upIds THEN b.up[i[1]] ELSE symbol[i]]
      BY <1>8 DEF Publish
    <3>2. vec' = [i \in Id |-> IF i \in deleted THEN None
                              ELSE IF b.mode # "vectors" THEN vec[i]
                              ELSE IF i \in upIds THEN [text |-> b.up[i[1]], model |-> m]
                              ELSE IF Kept(m, i) THEN vec[i] ELSE None]
      BY <1>8 DEF Publish
    <3> HIDE DEF b, m, upFiles, upIds, deleted, dequeued
    <3> QED BY <2>1, <2>2, <3>1, <3>2
  <2>4. queue' \subseteq Id /\ waiting' \subseteq queue'
    BY <1>8, <2>1 DEF Publish
  <2>5. semanticGen' \in Nat /\ sourceGen' \in Nat /\ width' \in Nat /\ space' \in Model \cup {None}
    BY <1>8, <2>1 DEF Publish, SemanticAfter
  <2>6. fileRow' \in [File -> Content \cup {None}]
    BY <1>8, <2>1 DEF Publish
  <2>7. batch' = [batch EXCEPT ![e] = NoBatch] /\ NoBatch \in Batches
    BY <1>8 DEF Publish
  <2>8. batch' \in [Engine -> Batches]
    BY <2>7
  <2>9. pc' = [pc EXCEPT ![e] = "drain"] /\ UNCHANGED <<tree, metaDim, model, watching, todo, due, cur>>
    BY <1>8 DEF Publish
  <2>10. PhaseOK'
    BY <2>7, <2>9
  <2> HIDE DEF b, m, upFiles, upIds, deleted, dequeued
  <2> QED BY <2>3, <2>4, <2>5, <2>6, <2>8, <2>9, <2>10
<1>9. ASSUME NEW e \in Engine, DueRows(e) PROVE IndexInv'
  BY <1>9 DEF DueRows
<1>10. ASSUME NEW e \in Engine, NEW i \in Id, HydrateRow(e, i) PROVE IndexInv'
  BY <1>10 DEF HydrateRow
<1>11. ASSUME NEW e \in Engine, RemoveStaleRow(e) PROVE IndexInv'
  BY <1>11 DEF RemoveStaleRow, Dequeue, RowDone, SemanticAfter
<1>12. ASSUME NEW e \in Engine, ReconcileCheck(e) PROVE IndexInv'
  BY <1>12 DEF ReconcileCheck
<1>13. ASSUME NEW e \in Engine, ReconcileApply(e) PROVE IndexInv'
  BY <1>13 DEF ReconcileApply
<1>14. ASSUME NEW e \in Engine, RecordFailure(e) PROVE IndexInv'
  BY <1>14 DEF RecordFailure, RowDone, Postponed
<1>15. ASSUME NEW e \in Engine, PersistSuccess(e) PROVE IndexInv'
  BY <1>15 DEF PersistSuccess, Dequeue, RowDone, SemanticAfter, Writes
<1>16. ASSUME NEW e \in Engine, TransactionFails(e) PROVE IndexInv'
  BY <1>16 DEF TransactionFails
<1>17. ASSUME NEW e \in Engine, Crash(e) PROVE IndexInv'
  BY <1>17 DEF Crash
<1>18. CASE UNCHANGED vars
  BY <1>18 DEF vars, tree, tables, locals
<1> QED
  BY <1>1, <1>2, <1>3, <1>4, <1>5, <1>6, <1>7, <1>8, <1>9, <1>10, <1>11,
     <1>12, <1>13, <1>14, <1>15, <1>16, <1>17, <1>18
     DEF Next, EngineStep

LEMMA IndexInvInit == Init => IndexInv
BY IndexAssumption DEF Init, IndexInv, TypeOK, PhaseOK, Batches, Rows, Phases, NoBatch, NoRow

LEMMA IndexInvAlways == Spec => []IndexInv
BY IndexInvInit, IndexInvStep, PTL DEF Spec

\* Every variable keeps its type whatever the pipelines of all the processes do;
\* in particular a row that waits for its backoff is a row of the queue, and only
\* text of a version that exists is ever embedded.
THEOREM TypeCorrect == Spec => []TypeOK
<1>1. IndexInv => TypeOK
  BY DEF IndexInv
<1> QED BY <1>1, IndexInvAlways, PTL

-----------------------------------------------------------------------------
(* The generation markers *)

LEMMA SemanticInit == Init => SemanticIffDrained
BY DEF Init, SemanticIffDrained

LEMMA SemanticStep == IndexInv /\ SemanticIffDrained /\ [Next]_vars => SemanticIffDrained'
<1> SUFFICES ASSUME IndexInv, SemanticIffDrained, [Next]_vars PROVE SemanticIffDrained'
  OBVIOUS
<1> USE DEF IndexInv, TypeOK, SemanticIffDrained, SemanticAfter, Dequeue, tables, tree, locals
<1>1. ASSUME NEW f \in File, NEW c \in Content \cup {None}, Edit(f, c) PROVE SemanticIffDrained'
  BY <1>1 DEF Edit
<1>2. ASSUME NEW i \in Id, BackoffElapses(i) PROVE SemanticIffDrained'
  BY <1>2 DEF BackoffElapses
<1>3. ASSUME NEW e \in Engine, NEW m \in Model \cup {None}, Open(e, m) PROVE SemanticIffDrained'
  BY <1>3 DEF Open
<1>4. ASSUME NEW e \in Engine, StartWatch(e) PROVE SemanticIffDrained'
  BY <1>4 DEF StartWatch
<1>5. ASSUME NEW e \in Engine, NEW T \in SUBSET File, IndexTouched(e, T) PROVE SemanticIffDrained'
  BY <1>5 DEF IndexTouched
<1>6. ASSUME NEW e \in Engine, NEW r \in Requests, IndexRepo(e, r) PROVE SemanticIffDrained'
  BY <1>6 DEF IndexRepo
<1>7. ASSUME NEW e \in Engine, Prepare(e) PROVE SemanticIffDrained'
  BY <1>7 DEF Prepare
<1>8. ASSUME NEW e \in Engine, Publish(e) PROVE SemanticIffDrained'
  BY <1>8 DEF Publish
<1>9. ASSUME NEW e \in Engine, DueRows(e) PROVE SemanticIffDrained'
  BY <1>9 DEF DueRows
<1>10. ASSUME NEW e \in Engine, NEW i \in Id, HydrateRow(e, i) PROVE SemanticIffDrained'
  BY <1>10 DEF HydrateRow
<1>11. ASSUME NEW e \in Engine, RemoveStaleRow(e) PROVE SemanticIffDrained'
  BY <1>11 DEF RemoveStaleRow
<1>12. ASSUME NEW e \in Engine, ReconcileCheck(e) PROVE SemanticIffDrained'
  BY <1>12 DEF ReconcileCheck
<1>13. ASSUME NEW e \in Engine, ReconcileApply(e) PROVE SemanticIffDrained'
  BY <1>13 DEF ReconcileApply
<1>14. ASSUME NEW e \in Engine, RecordFailure(e) PROVE SemanticIffDrained'
  BY <1>14 DEF RecordFailure
<1>15. ASSUME NEW e \in Engine, PersistSuccess(e) PROVE SemanticIffDrained'
  BY <1>15 DEF PersistSuccess
<1>16. ASSUME NEW e \in Engine, TransactionFails(e) PROVE SemanticIffDrained'
  BY <1>16 DEF TransactionFails
<1>17. ASSUME NEW e \in Engine, Crash(e) PROVE SemanticIffDrained'
  BY <1>17 DEF Crash
<1>18. CASE UNCHANGED vars
  BY <1>18 DEF vars, tree, tables, locals
<1> QED
  BY <1>1, <1>2, <1>3, <1>4, <1>5, <1>6, <1>7, <1>8, <1>9, <1>10, <1>11,
     <1>12, <1>13, <1>14, <1>15, <1>16, <1>17, <1>18
     DEF Next, EngineStep

\* The semantic generation equals the source generation exactly when the queue is
\* empty, for any number of pipelines publishing, draining, failing and dying.
THEOREM SemanticMarksDrained == Spec => []SemanticIffDrained
BY IndexInvAlways, SemanticInit, SemanticStep, PTL DEF Spec

\* Publications and drained rows implement the store's contract: the source
\* generation counts the commits, and the semantic one catches up in the very
\* step that leaves nothing pending.
THEOREM GenerationsContract == Spec => FollowsContract
<1>1. Init => Contract!Init
  BY DEF Init, Contract!Init
<1>2. ASSUME IndexInv, IndexInv', SemanticIffDrained, [Next]_vars
      PROVE  [Contract!Commit \/ Contract!Settle]_(Contract!genVars)
  <2> DEFINE Same == UNCHANGED <<sourceGen, semanticGen, queue>>
  <2>1. ASSUME NEW e \in Engine, Publish(e) PROVE Contract!Commit
    BY <1>2, <2>1 DEF Publish, Contract!Commit, Contract!CatchUp, SemanticAfter, IndexInv, TypeOK
  <2>2. ASSUME NEW j, Dequeue(j), UNCHANGED sourceGen PROVE Contract!Settle \/ Same
    <3>1. CASE j \in queue
      BY <2>2, <3>1 DEF Dequeue, SemanticAfter, Contract!Settle, Contract!CatchUp
    <3>2. CASE j \notin queue
      BY <1>2, <2>2, <3>2 DEF Dequeue, SemanticAfter, SemanticIffDrained
    <3> QED BY <3>1, <3>2
  <2>3. ASSUME NEW e \in Engine, RemoveStaleRow(e) \/ PersistSuccess(e)
        PROVE  Contract!Settle \/ Same
    BY <2>2, <2>3 DEF RemoveStaleRow, PersistSuccess
  <2>4. ASSUME Next, \A e \in Engine : ~(Publish(e) \/ RemoveStaleRow(e) \/ PersistSuccess(e))
        PROVE  Same
    BY <2>4 DEF Next, EngineStep, Edit, BackoffElapses, Open, StartWatch, Crash, IndexTouched,
       IndexRepo, Prepare, DueRows, HydrateRow, ReconcileCheck, ReconcileApply, RecordFailure,
       TransactionFails, tables
  <2> QED BY <1>2, <2>1, <2>3, <2>4 DEF vars, tables, Contract!genVars
<1> QED
  BY <1>1, <1>2, IndexInvAlways, SemanticMarksDrained, PTL
     DEF Spec, FollowsContract, Contract!Spec

-----------------------------------------------------------------------------
(* Queue rows and vectors belong to live symbols *)

LEMMA OutliveStep ==
  IndexInv /\ NothingOutlivesItsSymbol /\ [Next]_vars => NothingOutlivesItsSymbol'
<1> SUFFICES ASSUME IndexInv, NothingOutlivesItsSymbol, [Next]_vars
             PROVE NothingOutlivesItsSymbol'
  OBVIOUS
<1> USE DEF IndexInv, TypeOK, NothingOutlivesItsSymbol, Live, tables, tree, locals
<1>1. ASSUME NEW f \in File, NEW c \in Content \cup {None}, Edit(f, c) PROVE NothingOutlivesItsSymbol'
  BY <1>1 DEF Edit
<1>2. ASSUME NEW i \in Id, BackoffElapses(i) PROVE NothingOutlivesItsSymbol'
  BY <1>2 DEF BackoffElapses
<1>3. ASSUME NEW e \in Engine, NEW m \in Model \cup {None}, Open(e, m) PROVE NothingOutlivesItsSymbol'
  BY <1>3 DEF Open
<1>4. ASSUME NEW e \in Engine, StartWatch(e) PROVE NothingOutlivesItsSymbol'
  BY <1>4 DEF StartWatch
<1>5. ASSUME NEW e \in Engine, NEW T \in SUBSET File, IndexTouched(e, T) PROVE NothingOutlivesItsSymbol'
  BY <1>5 DEF IndexTouched
<1>6. ASSUME NEW e \in Engine, NEW r \in Requests, IndexRepo(e, r) PROVE NothingOutlivesItsSymbol'
  BY <1>6 DEF IndexRepo
<1>7. ASSUME NEW e \in Engine, Prepare(e) PROVE NothingOutlivesItsSymbol'
  BY <1>7 DEF Prepare
<1>8. ASSUME NEW e \in Engine, Publish(e) PROVE NothingOutlivesItsSymbol'
  <2> DEFINE b == batch[e]
             m == model[e]
             upFiles == {f \in File : b.up[f] # None}
             upIds == {IdOf(f, b.up[f]) : f \in upFiles}
             deleted == b.stale \cup {j \in Id : j[1] \in b.gone /\ Live(j)}
             dequeued == deleted \cup {j \in Id : j[1] \in b.gone} \cup Settled(b.mode, upIds)
  <2> SUFFICES ASSUME NEW i \in Id, i \in queue' \/ vec'[i] # None
               PROVE symbol'[i] # None
    OBVIOUS
  <2>1. i \in upIds => b.up[i[1]] # None
    BY DEF IdOf
  <2>2. i \notin deleted
    BY <1>8 DEF Publish
  <2>3. i \in upIds \/ symbol[i] # None
    BY <1>8 DEF Publish, Kept
  <2> QED BY <1>8, <2>1, <2>2, <2>3 DEF Publish
<1>9. ASSUME NEW e \in Engine, DueRows(e) PROVE NothingOutlivesItsSymbol'
  BY <1>9 DEF DueRows
<1>10. ASSUME NEW e \in Engine, NEW i \in Id, HydrateRow(e, i) PROVE NothingOutlivesItsSymbol'
  BY <1>10 DEF HydrateRow
<1>11. ASSUME NEW e \in Engine, RemoveStaleRow(e) PROVE NothingOutlivesItsSymbol'
  BY <1>11 DEF RemoveStaleRow, Dequeue
<1>12. ASSUME NEW e \in Engine, ReconcileCheck(e) PROVE NothingOutlivesItsSymbol'
  BY <1>12 DEF ReconcileCheck
<1>13. ASSUME NEW e \in Engine, ReconcileApply(e) PROVE NothingOutlivesItsSymbol'
  BY <1>13 DEF ReconcileApply
<1>14. ASSUME NEW e \in Engine, RecordFailure(e) PROVE NothingOutlivesItsSymbol'
  BY <1>14 DEF RecordFailure
<1>15. ASSUME NEW e \in Engine, PersistSuccess(e) PROVE NothingOutlivesItsSymbol'
  BY <1>15 DEF PersistSuccess, Dequeue, Writes
<1>16. ASSUME NEW e \in Engine, TransactionFails(e) PROVE NothingOutlivesItsSymbol'
  BY <1>16 DEF TransactionFails
<1>17. ASSUME NEW e \in Engine, Crash(e) PROVE NothingOutlivesItsSymbol'
  BY <1>17 DEF Crash
<1>18. CASE UNCHANGED vars
  BY <1>18 DEF vars, tree, tables, locals
<1> QED
  BY <1>1, <1>2, <1>3, <1>4, <1>5, <1>6, <1>7, <1>8, <1>9, <1>10, <1>11,
     <1>12, <1>13, <1>14, <1>15, <1>16, <1>17, <1>18
     DEF Next, EngineStep

\* No queue row and no vector outlives its symbol, although the drainer acts on
\* rows and symbols it read before other pipelines deleted them.
THEOREM NothingOutlives == Spec => []NothingOutlivesItsSymbol
<1>1. Init => NothingOutlivesItsSymbol
  BY DEF Init, NothingOutlivesItsSymbol
<1> QED BY <1>1, IndexInvAlways, OutliveStep, PTL DEF Spec

-----------------------------------------------------------------------------
(* A recorded vector space gives way to another only with its vectors *)

LEMMA SpaceStep ==
  IndexInv /\ [Next]_vars =>
    [space # None /\ space' # space =>
       \A i \in Id : vec'[i] # None => vec'[i].model = space']_vars
<1> SUFFICES ASSUME IndexInv, Next, space # None, space' # space,
                    NEW i \in Id, vec'[i] # None
             PROVE vec'[i].model = space'
  BY DEF vars
<1> USE DEF IndexInv, TypeOK, tables, tree, locals
<1>1. ASSUME NEW f \in File, NEW c \in Content \cup {None}, Edit(f, c) PROVE vec'[i].model = space'
  BY <1>1 DEF Edit
<1>2. ASSUME NEW j \in Id, BackoffElapses(j) PROVE vec'[i].model = space'
  BY <1>2 DEF BackoffElapses
<1>3. ASSUME NEW e \in Engine, NEW m \in Model \cup {None}, Open(e, m) PROVE vec'[i].model = space'
  BY <1>3 DEF Open
<1>4. ASSUME NEW e \in Engine, StartWatch(e) PROVE vec'[i].model = space'
  BY <1>4 DEF StartWatch
<1>5. ASSUME NEW e \in Engine, NEW T \in SUBSET File, IndexTouched(e, T) PROVE vec'[i].model = space'
  BY <1>5 DEF IndexTouched
<1>6. ASSUME NEW e \in Engine, NEW r \in Requests, IndexRepo(e, r) PROVE vec'[i].model = space'
  BY <1>6 DEF IndexRepo
<1>7. ASSUME NEW e \in Engine, Prepare(e) PROVE vec'[i].model = space'
  BY <1>7 DEF Prepare
<1>8. ASSUME NEW e \in Engine, Publish(e) PROVE vec'[i].model = space'
  <2> DEFINE b == batch[e]
             m == model[e]
             upFiles == {f \in File : b.up[f] # None}
             upIds == {IdOf(f, b.up[f]) : f \in upFiles}
             deleted == b.stale \cup {j \in Id : j[1] \in b.gone /\ Live(j)}
             dequeued == deleted \cup {j \in Id : j[1] \in b.gone} \cup Settled(b.mode, upIds)
  <2>1. b.mode = "vectors" /\ space' = m /\ ~Kept(m, i)
    BY <1>8 DEF Publish, Kept
  <2>2. vec'[i] \in {None, [text |-> b.up[i[1]], model |-> m]}
    BY <1>8, <2>1 DEF Publish
  <2> QED BY <2>1, <2>2
<1>9. ASSUME NEW e \in Engine, DueRows(e) PROVE vec'[i].model = space'
  BY <1>9 DEF DueRows
<1>10. ASSUME NEW e \in Engine, NEW j \in Id, HydrateRow(e, j) PROVE vec'[i].model = space'
  BY <1>10 DEF HydrateRow
<1>11. ASSUME NEW e \in Engine, RemoveStaleRow(e) PROVE vec'[i].model = space'
  BY <1>11 DEF RemoveStaleRow
<1>12. ASSUME NEW e \in Engine, ReconcileCheck(e) PROVE vec'[i].model = space'
  BY <1>12 DEF ReconcileCheck
<1>13. ASSUME NEW e \in Engine, ReconcileApply(e) PROVE vec'[i].model = space'
  BY <1>13 DEF ReconcileApply
<1>14. ASSUME NEW e \in Engine, RecordFailure(e) PROVE vec'[i].model = space'
  BY <1>14 DEF RecordFailure
<1>15. ASSUME NEW e \in Engine, PersistSuccess(e) PROVE vec'[i].model = space'
  BY <1>15 DEF PersistSuccess
<1>16. ASSUME NEW e \in Engine, TransactionFails(e) PROVE vec'[i].model = space'
  BY <1>16 DEF TransactionFails
<1>17. ASSUME NEW e \in Engine, Crash(e) PROVE vec'[i].model = space'
  BY <1>17 DEF Crash
<1> QED
  BY <1>1, <1>2, <1>3, <1>4, <1>5, <1>6, <1>7, <1>8, <1>9, <1>10, <1>11,
     <1>12, <1>13, <1>14, <1>15, <1>16, <1>17
     DEF Next, EngineStep

\* When one recorded vector space replaces another, no vector of the old one
\* survives the publication that replaces it.
THEOREM ReplacedSpaceEmptied == Spec => ReplacedSpaceIsEmptied
BY IndexInvAlways, SpaceStep, PTL DEF Spec, ReplacedSpaceIsEmptied

-----------------------------------------------------------------------------
(* One pipeline over the database: nothing is lost and nothing is stale.     *)
(* Two pipelines do lose vectors (IndexDimWipe), and a run that embeds        *)
(* nothing leaves its symbols without.                                       *)

OnePipeline ==
  /\ \A d, e \in Engine : d = e
  /\ SkipEngine = {}
  /\ \A m, n \in Model : m = n
  /\ \A m \in Model : DimOf[m] = DefaultDim

\* A batch says of the tables what they say themselves: its stale rows are the symbols
\* the new versions do not define.
BatchFits(b) ==
  /\ b.mode # "none"
  /\ \A f \in b.gone : b.up[f] = None
  /\ \A i \in Id : i \in b.stale <=>
       Live(i) /\ (i[1] \in b.gone \/ (b.up[i[1]] # None /\ i # IdOf(i[1], b.up[i[1]])))

\* What the pipeline read still holds when it uses it.
Held ==
  \A e \in Engine :
    /\ pc[e] # "down" => model[e] \in Model
    /\ pc[e] \in {"prepare", "publish"} => BatchFits(batch[e])
    /\ pc[e] = "stale" => ~Live(cur[e].id)
    /\ pc[e] \in {"check", "recreate", "embed"} /\ cur[e] # NoRow
         => symbol[cur[e].id] = cur[e].text
    /\ pc[e] = "recreate" => VecExt /\ width = 0
    /\ pc[e] = "embed" /\ VecExt => width # 0

\* The vector table is of the one width, or has no vectors yet.
Form ==
  /\ metaDim = DefaultDim
  /\ width \in {0, DefaultDim}
  /\ ~VecExt => width = 0
  /\ VecExt /\ width = 0 => \A i \in Id : vec[i] = None

Served == Covered /\ VectorsAreFresh /\ SymbolsMatchRow
SingleInv == Held /\ Form /\ Served

LEMMA TablesStay ==
  ASSUME Form, Served, UNCHANGED <<fileRow, symbol, vec, queue, metaDim, width>>
  PROVE  Form' /\ Served'
BY DEF Form, Served, Covered, VectorsAreFresh, SymbolsMatchRow, SymbolsIn, Live

\* A plan is made of what the tables hold.
LEMMA PlanFits ==
  ASSUME IndexInv, NEW e \in Engine, NEW T \in SUBSET File, NEW full \in BOOLEAN,
         pc[e] = "idle", PlanBatch(e, T, full), UNCHANGED symbol
  PROVE  pc'[e] \in {"drain", "prepare"} /\ (pc'[e] = "prepare" => BatchFits(batch[e])')
<1> DEFINE changed == {f \in T : disk[f] # None /\ (full \/ ~Unchanged(f))}
           gone == {f \in T : disk[f] = None /\ fileRow[f] # None}
           dependents == {f \in File \ (changed \cup gone) : disk[f] # None /\ SymbolsIn(f) # {}}
           made(D) == [up |-> [f \in File |-> IF f \in changed \cup D THEN disk[f] ELSE None],
                       stale |-> Stale(changed \cup D \cup gone), gone |-> gone,
                       mode |-> "pending"]
<1>1. CASE changed \cup gone = {}
  BY <1>1 DEF PlanBatch, Goto, IndexInv, TypeOK
<1>2. CASE changed \cup gone # {}
  <2>1. PICK D \in SUBSET dependents : /\ batch' = [batch EXCEPT ![e] = made(D)]
                                       /\ Goto(e, "prepare")
    BY <1>2 DEF PlanBatch
  <2>2. batch'[e] = made(D) /\ pc'[e] = "prepare"
    BY <2>1 DEF Goto, IndexInv, TypeOK
  <2>3. /\ made(D).mode = "pending" /\ made(D).gone = gone
        /\ made(D).stale = Stale(changed \cup D \cup gone)
        /\ \A f \in File : made(D).up[f] = IF f \in changed \cup D THEN disk[f] ELSE None
    OBVIOUS
  <2>4. \A f \in changed \cup D : f \in File /\ disk[f] # None
    OBVIOUS
  <2>5. \A f \in gone : f \in File /\ disk[f] = None
    OBVIOUS
  <2> HIDE DEF made, changed, gone, dependents
  <2>6. \A i \in Id : i \in Stale(changed \cup D \cup gone) <=>
          /\ i[1] \in changed \cup D \cup gone /\ Live(i)
          /\ disk[i[1]] # None => i # IdOf(i[1], disk[i[1]])
    BY DEF Stale
  <2>7. \A i \in Id : i[1] \in File
    BY DEF Id
  <2>8. ASSUME NEW i \in Id
        PROVE  i \in made(D).stale <=>
                 Live(i) /\ (\/ i[1] \in made(D).gone
                             \/ made(D).up[i[1]] # None /\ i # IdOf(i[1], made(D).up[i[1]]))
    <3>1. i[1] \in gone => i[1] \notin changed \cup D
      BY <2>4, <2>5
    <3> QED BY <2>3, <2>4, <2>5, <2>6, <2>7, <3>1
  <2>9. \A f \in made(D).gone : made(D).up[f] = None
    BY <2>3, <2>4, <2>5
  <2>10. \A i \in Id : Live(i)' <=> Live(i)
    BY DEF Live
  <2> QED BY <2>2, <2>3, <2>8, <2>9, <2>10 DEF BatchFits
<1> QED BY <1>1, <1>2

\* Of the pipeline's own publication.
LEMMA PublishServes ==
  ASSUME OnePipeline, IndexInv, SingleInv, NEW e \in Engine, Publish(e)
  PROVE  Form' /\ Served'
<1> DEFINE b == batch[e]
           m == model[e]
           upFiles == {f \in File : b.up[f] # None}
           upIds == {IdOf(f, b.up[f]) : f \in upFiles}
           deleted == b.stale \cup {j \in Id : j[1] \in b.gone /\ Live(j)}
           dequeued == deleted \cup {j \in Id : j[1] \in b.gone} \cup Settled(b.mode, upIds)
<1>1. /\ symbol' = [i \in Id |-> IF i \in deleted THEN None
                                 ELSE IF i \in upIds THEN b.up[i[1]] ELSE symbol[i]]
      /\ vec' = [i \in Id |-> IF i \in deleted THEN None
                              ELSE IF b.mode # "vectors" THEN vec[i]
                              ELSE IF i \in upIds THEN [text |-> b.up[i[1]], model |-> m]
                              ELSE IF Kept(m, i) THEN vec[i] ELSE None]
      /\ fileRow' = [f \in File |-> IF f \in b.gone THEN None
                                    ELSE IF f \in upFiles THEN b.up[f] ELSE fileRow[f]]
      /\ queue' = (queue \cup upIds) \ dequeued
      /\ width' = IF b.mode # "vectors" THEN width ELSE IF VecExt THEN DimOf[m] ELSE 0
      /\ metaDim' = metaDim
  BY DEF Publish
<1>2. b \in Batches /\ m \in Model /\ BatchFits(b)
  BY DEF Publish, SingleInv, Held, IndexInv, TypeOK
<1>3. b.mode \in {"pending", "vectors"} /\ b.up \in [File -> Content \cup {None}]
      /\ b.gone \in SUBSET File
  BY <1>2 DEF BatchFits, Batches
<1>4. \A i \in Id : i[1] \in File /\ (i \in upIds <=> b.up[i[1]] # None /\ i = IdOf(i[1], b.up[i[1]]))
  <2> TAKE i \in Id
  <2>1. i[1] \in File
    BY DEF Id
  <2>2. \A f \in File : \A c : IdOf(f, c)[1] = f
    BY DEF IdOf
  <2>3. i \in upIds <=> \E f \in File : b.up[f] # None /\ i = IdOf(f, b.up[f])
    OBVIOUS
  <2> HIDE DEF b, upIds
  <2> QED BY <2>1, <2>2, <2>3
<1>5. \A i \in Id : i \in deleted <=>
        Live(i) /\ (i[1] \in b.gone \/ (b.up[i[1]] # None /\ i # IdOf(i[1], b.up[i[1]])))
  BY <1>2 DEF BatchFits
<1>6. \A f \in b.gone : b.up[f] = None
  BY <1>2 DEF BatchFits
<1>7. \A i \in Id : i \in dequeued <=>
        i \in deleted \/ i[1] \in b.gone \/ (b.mode = "vectors" /\ i \in upIds)
  BY <1>3 DEF Settled
<1>8. \A i \in Id : vec[i] # None => Kept(m, i)
  <2> TAKE i \in Id
  <2>1. /\ width \in {0, DefaultDim} /\ (~VecExt => width = 0)
        /\ VecExt /\ width = 0 => vec[i] = None
    BY DEF SingleInv, Form
  <2>2. space \in {None, m} /\ DimOf[m] = DefaultDim
    BY <1>2 DEF OnePipeline, IndexInv, TypeOK
  <2> QED BY <2>1, <2>2, IndexAssumption DEF Kept
<1>9. \A i \in Id : /\ symbol'[i] # None => i \in upIds \/ (Live(i) /\ i \notin deleted)
                    /\ i \in upIds => i \notin deleted /\ i[1] \notin b.gone
  <2>1. \A i \in Id : i \in upIds => i \notin deleted /\ i[1] \notin b.gone
    BY <1>4, <1>5, <1>6
  <2> QED BY <1>1, <2>1 DEF Live
<1>10. \A i \in upIds : i \in Id /\ b.up[i[1]] # None
  <2>1. upIds \subseteq Id
    BY <1>3, IndexAssumption DEF Id, IdOf
  <2> QED BY <1>4, <2>1
<1> HIDE DEF b, m, upFiles, upIds, deleted, dequeued
<1>11. Form'
  <2>1. DimOf[m] = DefaultDim
    BY <1>2 DEF OnePipeline
  <2>2. CASE b.mode # "vectors"
    <3>1. \A i \in Id : vec[i] = None => vec'[i] = None
      BY <1>1, <2>2
    <3> QED BY <1>1, <2>2, <3>1 DEF SingleInv, Form
  <2>3. CASE b.mode = "vectors"
    BY <1>1, <2>1, <2>3, IndexAssumption DEF SingleInv, Form
  <2> QED BY <2>2, <2>3
<1>12. \A i \in Id : vec[i] # None /\ i \notin deleted /\ i \notin upIds => vec'[i] = vec[i]
  BY <1>1, <1>8
<1>13. \A i \in Id : i \notin deleted /\ i \notin upIds
         => symbol'[i] = symbol[i] /\ (vec'[i] = vec[i] \/ vec'[i] = None)
  BY <1>1
<1>14. \A i \in Id : i \in upIds /\ b.mode = "vectors"
         => symbol'[i] = b.up[i[1]] /\ vec'[i] = [text |-> b.up[i[1]], model |-> m]
  BY <1>1, <1>9
<1>15. \A i \in Id : i \in upIds /\ b.mode # "vectors" => i \in queue'
  BY <1>1, <1>7, <1>9
<1>16. \A i \in Id : Live(i) /\ i \notin deleted /\ i \notin upIds => (i \in queue' <=> i \in queue)
  BY <1>1, <1>5, <1>7
<1>17. Covered'
  <2> SUFFICES ASSUME NEW i \in Id, symbol'[i] # None
               PROVE  vec'[i] # None \/ i \in queue'
    BY DEF Covered, Live
  <2>1. CASE i \in upIds
    <3>1. CASE b.mode = "vectors"
      <4>1. b.up[i[1]] \in Content
        BY <1>3, <1>4, <1>10, <2>1
      <4>2. [text |-> b.up[i[1]], model |-> m] \in Vector
        BY <1>2, <4>1 DEF Vector
      <4> QED BY <1>14, <2>1, <3>1, <4>2, IndexAssumption
    <3> QED BY <1>15, <2>1, <3>1
  <2>2. CASE i \notin upIds
    <3>1. Live(i) /\ i \notin deleted
      BY <1>9, <2>2
    <3> QED BY <1>12, <1>16, <2>2, <3>1 DEF SingleInv, Served, Covered
  <2> QED BY <2>1, <2>2
<1>18. VectorsAreFresh'
  <2> SUFFICES ASSUME NEW i \in Id, symbol'[i] # None, vec'[i] # None, i \notin queue'
               PROVE  vec'[i].text = symbol'[i]
    BY DEF VectorsAreFresh, Live
  <2>1. CASE i \in upIds
    <3>1. b.mode = "vectors"
      BY <1>15, <2>1
    <3>2. /\ symbol'[i] = b.up[i[1]]
          /\ vec'[i] = [text |-> b.up[i[1]], model |-> m]
      BY <1>14, <2>1, <3>1
    <3>3. [text |-> b.up[i[1]], model |-> m].text = b.up[i[1]]
      OBVIOUS
    <3> QED BY <3>2, <3>3
  <2>2. CASE i \notin upIds
    <3>1. Live(i) /\ i \notin deleted
      BY <1>9, <2>2
    <3> QED BY <1>13, <1>16, <2>2, <3>1 DEF SingleInv, Served, VectorsAreFresh
  <2> QED BY <2>1, <2>2
<1>19. SymbolsMatchRow'
  <2> SUFFICES ASSUME NEW f \in File
               PROVE  SymbolsIn(f)' = IF fileRow'[f] = None THEN {} ELSE {IdOf(f, fileRow'[f])}
    BY DEF SymbolsMatchRow
  <2>1. SymbolsIn(f)' = {i \in Id : i[1] = f /\ symbol'[i] # None}
    BY DEF SymbolsIn, Live
  <2>2. SymbolsIn(f) = {i \in Id : i[1] = f /\ symbol[i] # None}
    BY DEF SymbolsIn, Live
  <2>3. SymbolsIn(f) = IF fileRow[f] = None THEN {} ELSE {IdOf(f, fileRow[f])}
    BY DEF SingleInv, Served, SymbolsMatchRow
  <2>4. CASE f \in b.gone
    <3>1. fileRow'[f] = None
      BY <1>1, <2>4
    <3>2. \A i \in Id : i[1] = f => symbol'[i] = None
      BY <1>4, <1>5, <1>9, <2>4
    <3> QED BY <2>1, <3>1, <3>2
  <2>5. CASE f \notin b.gone /\ b.up[f] # None
    <3>1. fileRow'[f] = b.up[f]
      BY <1>1, <2>5 DEF upFiles
    <3>2. IdOf(f, b.up[f]) \in upIds
      BY <2>5 DEF upIds, upFiles
    <3>3. \A i \in Id : i[1] = f => (symbol'[i] # None <=> i = IdOf(f, b.up[f]))
      BY <1>1, <1>4, <1>5, <1>9, <1>10, <2>5
    <3>4. IdOf(f, b.up[f]) \in Id /\ IdOf(f, b.up[f])[1] = f
      BY <1>10, <3>2 DEF IdOf
    <3> QED BY <2>1, <2>5, <3>1, <3>3, <3>4
  <2>6. CASE f \notin b.gone /\ b.up[f] = None
    <3>1. fileRow'[f] = fileRow[f]
      BY <1>1, <2>6 DEF upFiles
    <3>2. \A i \in Id : i[1] = f => i \notin upIds /\ i \notin deleted
      BY <1>4, <1>5, <2>6
    <3>3. \A i \in Id : i[1] = f => symbol'[i] = symbol[i]
      BY <1>13, <3>2
    <3> QED BY <2>1, <2>2, <2>3, <3>1, <3>3
  <2> QED BY <2>4, <2>5, <2>6
<1> QED BY <1>11, <1>17, <1>18, <1>19 DEF Served

LEMMA SingleStep ==
  ASSUME OnePipeline, IndexInv, SingleInv, [Next]_vars
  PROVE  SingleInv'
<1> DEFINE OneHeld(e) ==
      /\ pc[e] # "down" => model[e] \in Model
      /\ pc[e] \in {"prepare", "publish"} => BatchFits(batch[e])
      /\ pc[e] = "stale" => ~Live(cur[e].id)
      /\ pc[e] \in {"check", "recreate", "embed"} /\ cur[e] # NoRow
           => symbol[cur[e].id] = cur[e].text
      /\ pc[e] = "recreate" => VecExt /\ width = 0
      /\ pc[e] = "embed" /\ VecExt => width # 0
<1>1. ASSUME NEW e \in Engine PROVE OneHeld(e) /\ \A d \in Engine : d = e
  BY DEF SingleInv, Held, OnePipeline
<1>2. ASSUME NEW e \in Engine, OneHeld(e)' PROVE Held'
  BY <1>1, <1>2 DEF Held
<1>3. Form /\ Served
  BY DEF SingleInv
<1>4. UNCHANGED symbol => \A b : BatchFits(b) <=> BatchFits(b)'
  BY DEF BatchFits, Live
<1> USE DEF IndexInv, TypeOK, Goto, tables, tree, locals
<1>5. ASSUME NEW f \in File, NEW c \in Content \cup {None}, Edit(f, c) PROVE SingleInv'
  <2>1. UNCHANGED <<tables, pc, model, batch, cur>>
    BY <1>5 DEF Edit
  <2>2. Form' /\ Served'
    BY <1>3, <2>1, TablesStay
  <2>3. Held'
    BY <2>1 DEF SingleInv, Held, BatchFits, Live
  <2> QED BY <2>2, <2>3 DEF SingleInv
<1>6. ASSUME NEW i \in Id, BackoffElapses(i) PROVE SingleInv'
  <2>1. /\ UNCHANGED <<fileRow, symbol, vec, queue, metaDim, width>>
        /\ UNCHANGED <<pc, model, batch, cur>>
    BY <1>6 DEF BackoffElapses
  <2>2. Form' /\ Served'
    BY <1>3, <2>1, TablesStay
  <2>3. Held'
    BY <2>1 DEF SingleInv, Held, BatchFits, Live
  <2> QED BY <2>2, <2>3 DEF SingleInv
<1>7. ASSUME NEW e \in Engine, NEW m \in Model \cup {None}, Open(e, m) PROVE SingleInv'
  <2>1. /\ UNCHANGED tables /\ UNCHANGED cur /\ UNCHANGED batch
        /\ model'[e] = m /\ m \in Model /\ pc'[e] \in {"check", "drain"}
    BY <1>7 DEF Open, OnePipeline
  <2>2. cur[e] = NoRow
    BY <1>7 DEF Open, PhaseOK
  <2>3. Form' /\ Served'
    BY <1>3, <2>1, TablesStay
  <2>4. OneHeld(e)'
    BY <2>1, <2>2
  <2> HIDE DEF OneHeld
  <2> QED BY <1>2, <2>3, <2>4 DEF SingleInv
<1>8. ASSUME NEW e \in Engine, StartWatch(e) PROVE SingleInv'
  <2>1. UNCHANGED <<tables, pc, model, batch, cur>>
    BY <1>8 DEF StartWatch
  <2>2. Form' /\ Served'
    BY <1>3, <2>1, TablesStay
  <2>3. Held'
    BY <2>1 DEF SingleInv, Held, BatchFits, Live
  <2> QED BY <2>2, <2>3 DEF SingleInv
<1>9. ASSUME NEW e \in Engine, NEW T \in SUBSET File, NEW full \in BOOLEAN, pc[e] = "idle",
             PlanBatch(e, T, full), UNCHANGED <<tables, model, cur>>
      PROVE  SingleInv'
  <2>1. pc'[e] \in {"drain", "prepare"} /\ (pc'[e] = "prepare" => BatchFits(batch[e])')
    BY <1>9, PlanFits
  <2>2. Form' /\ Served'
    BY <1>3, <1>9, TablesStay
  <2>3. model'[e] \in Model
    BY <1>1, <1>9
  <2>4. OneHeld(e)'
    BY <2>1, <2>3
  <2> HIDE DEF OneHeld
  <2> QED BY <1>2, <2>2, <2>4 DEF SingleInv
<1>10. ASSUME NEW e \in Engine, NEW T \in SUBSET File, IndexTouched(e, T) PROVE SingleInv'
  BY <1>9, <1>10 DEF IndexTouched
<1>11. ASSUME NEW e \in Engine, NEW r \in Requests, IndexRepo(e, r) PROVE SingleInv'
  <2>1. (r = "full") \in BOOLEAN /\ File \in SUBSET File
    OBVIOUS
  <2>2. PlanBatch(e, File, r = "full") /\ pc[e] = "idle" /\ UNCHANGED <<tables, model, cur>>
    BY <1>11 DEF IndexRepo
  <2> QED BY <1>9, <2>1, <2>2
<1>12. ASSUME NEW e \in Engine, Prepare(e) PROVE SingleInv'
  <2>1. UNCHANGED tables /\ UNCHANGED <<model, cur>> /\ pc[e] = "prepare" /\ pc'[e] = "publish"
    BY <1>12 DEF Prepare
  <2>2. PICK l \in {"pending", "vectors"} : batch' = [batch EXCEPT ![e].mode = l]
    <3>1. model[e] # None
      BY <1>1, <2>1, IndexAssumption
    <3>2. \E m \in IF batch[e].up = NoBatch.up THEN {"pending"}
                    ELSE IF model[e] = None THEN {"none"} ELSE {"vectors", "pending"} :
            batch' = [batch EXCEPT ![e].mode = m]
      BY <1>12 DEF Prepare
    <3> QED BY <3>1, <3>2
  <2>3. batch[e] \in Batches
    OBVIOUS
  <2>4. batch'[e] = [batch[e] EXCEPT !.mode = l]
    BY <2>2
  <2>5. /\ batch'[e].mode = l /\ batch'[e].up = batch[e].up
        /\ batch'[e].gone = batch[e].gone /\ batch'[e].stale = batch[e].stale
    BY <2>3, <2>4 DEF Batches
  <2>6. BatchFits(batch[e])
    BY <1>1, <2>1
  <2>7. BatchFits(batch[e])'
    BY <2>1, <2>5, <2>6 DEF BatchFits, Live
  <2>8. Form' /\ Served'
    BY <1>3, <2>1, TablesStay
  <2>9. OneHeld(e)'
    BY <1>1, <2>1, <2>7
  <2> HIDE DEF OneHeld
  <2> QED BY <1>2, <2>8, <2>9 DEF SingleInv
<1>13. ASSUME NEW e \in Engine, Publish(e) PROVE SingleInv'
  <2>1. pc'[e] = "drain" /\ pc[e] = "publish" /\ UNCHANGED model
    BY <1>13 DEF Publish
  <2>2. OneHeld(e)'
    BY <1>1, <2>1
  <2> HIDE DEF OneHeld
  <2>3. Form' /\ Served'
    BY <1>13, PublishServes
  <2> QED BY <1>2, <2>2, <2>3 DEF SingleInv
<1>14. ASSUME NEW e \in Engine, DueRows(e) PROVE SingleInv'
  <2>1. UNCHANGED tables /\ UNCHANGED model /\ pc[e] # "down" /\ pc'[e] \in {"idle", "rows"}
    BY <1>14 DEF DueRows
  <2>2. Form' /\ Served'
    BY <1>3, <2>1, TablesStay
  <2>3. OneHeld(e)'
    BY <1>1, <2>1
  <2> HIDE DEF OneHeld
  <2> QED BY <1>2, <2>2, <2>3 DEF SingleInv
<1>15. ASSUME NEW e \in Engine, NEW i \in Id, HydrateRow(e, i) PROVE SingleInv'
  <2>1. /\ UNCHANGED tables /\ UNCHANGED model /\ pc[e] = "rows"
        /\ cur'[e] = [id |-> i, text |-> symbol[i]]
        /\ pc'[e] = IF Live(i) THEN "check" ELSE "stale"
    BY <1>15 DEF HydrateRow
  <2>2. Form' /\ Served'
    BY <1>3, <2>1, TablesStay
  <2>3. cur'[e].id = i /\ cur'[e].text = symbol[i]
    BY <2>1
  <2>4. Live(i)' <=> Live(i)
    BY <2>1 DEF Live
  <2>5. OneHeld(e)'
    BY <1>1, <2>1, <2>3, <2>4 DEF Live
  <2> HIDE DEF OneHeld
  <2> QED BY <1>2, <2>2, <2>5 DEF SingleInv
<1>16. ASSUME NEW e \in Engine, RemoveStaleRow(e) PROVE SingleInv'
  <2>1. /\ pc[e] = "stale" /\ pc'[e] \in {"idle", "rows"}
        /\ queue' = queue \ {cur[e].id}
        /\ UNCHANGED <<fileRow, symbol, vec, metaDim, width, model>>
    BY <1>16 DEF RemoveStaleRow, RowDone, Dequeue
  <2>2. symbol[cur[e].id] = None
    BY <1>1, <2>1 DEF Live
  <2>3. Form' /\ Served'
    BY <1>3, <2>1, <2>2
       DEF Form, Served, Covered, VectorsAreFresh, SymbolsMatchRow, SymbolsIn, Live
  <2>4. OneHeld(e)'
    BY <1>1, <2>1
  <2> HIDE DEF OneHeld
  <2> QED BY <1>2, <2>3, <2>4 DEF SingleInv
<1>17. ASSUME NEW e \in Engine, ReconcileCheck(e) PROVE SingleInv'
  <2>1. UNCHANGED tables /\ UNCHANGED locals /\ pc[e] = "check"
    BY <1>17 DEF ReconcileCheck
  <2>2. DimOf[model[e]] = DefaultDim
    BY <1>1, <2>1 DEF OnePipeline
  <2>3. \/ pc'[e] = "recreate" /\ VecExt /\ width = 0
        \/ pc'[e] \in {"drain", "embed"} /\ (VecExt <=> width # 0)
    BY <1>3, <1>17, <2>2, IndexAssumption DEF ReconcileCheck, Form
  <2>4. Form' /\ Served'
    BY <1>3, <2>1, TablesStay
  <2>5. OneHeld(e)'
    BY <1>1, <2>1, <2>3
  <2> HIDE DEF OneHeld
  <2> QED BY <1>2, <2>4, <2>5 DEF SingleInv
<1>18. ASSUME NEW e \in Engine, ReconcileApply(e) PROVE SingleInv'
  <2>1. /\ pc[e] = "recreate" /\ pc'[e] \in {"drain", "embed"}
        /\ pc'[e] = "embed" => cur[e] # NoRow
        /\ metaDim' = DimOf[model[e]]
        /\ width' = IF VecExt THEN DimOf[model[e]] ELSE 0
        /\ vec' = [i \in Id |-> None]
        /\ UNCHANGED <<fileRow, symbol, queue>> /\ UNCHANGED locals
    BY <1>18 DEF ReconcileApply
  <2>2. DimOf[model[e]] = DefaultDim /\ model[e] \in Model /\ VecExt /\ width = 0
    BY <1>1, <2>1 DEF OnePipeline
  <2>3. vec' = vec
    <3>1. \A i \in Id : vec[i] = None
      BY <1>3, <2>2 DEF Form
    <3> QED BY <2>1, <3>1
  <2>4. Form'
    BY <2>1, <2>2, IndexAssumption DEF Form
  <2>5. Served'
    BY <1>3, <2>1, <2>3 DEF Served, Covered, VectorsAreFresh, SymbolsMatchRow, SymbolsIn, Live
  <2>6. OneHeld(e)'
    BY <1>1, <2>1, <2>2, IndexAssumption
  <2> HIDE DEF OneHeld
  <2> QED BY <1>2, <2>4, <2>5, <2>6 DEF SingleInv
<1>19. ASSUME NEW e \in Engine, RecordFailure(e) PROVE SingleInv'
  <2>1. /\ UNCHANGED <<fileRow, symbol, vec, queue, metaDim, width>> /\ UNCHANGED model
        /\ pc[e] # "down" /\ pc'[e] \in {"idle", "rows"}
    BY <1>19 DEF RecordFailure, RowDone
  <2>2. Form' /\ Served'
    BY <1>3, <2>1, TablesStay
  <2>3. OneHeld(e)'
    BY <1>1, <2>1
  <2> HIDE DEF OneHeld
  <2> QED BY <1>2, <2>2, <2>3 DEF SingleInv
<1>20. ASSUME NEW e \in Engine, PersistSuccess(e) PROVE SingleInv'
  <2> DEFINE i == cur[e].id
  <2>1. /\ pc[e] = "embed" /\ pc'[e] \in {"idle", "rows"}
        /\ vec' = IF Writes(i) THEN [vec EXCEPT ![i] = [text |-> cur[e].text, model |-> model[e]]]
                  ELSE vec
        /\ queue' = queue \ {i}
        /\ UNCHANGED <<fileRow, symbol, metaDim, width, model>>
    BY <1>20 DEF PersistSuccess, RowDone, Dequeue
  <2>2. cur[e] # NoRow /\ cur[e].text \in Content
    BY <2>1 DEF PhaseOK
  <2>3. i \in Id
    BY <2>2 DEF Rows, NoRow
  <2>4. symbol[i] = cur[e].text /\ (VecExt => width # 0) /\ model[e] \in Model
    BY <1>1, <2>1, <2>2
  <2>5. Live(i)
    BY <2>2, <2>4, IndexAssumption DEF Live
  <2> HIDE DEF i
  <2>6. /\ vec'[i] = [text |-> symbol[i], model |-> model[e]]
        /\ \A j \in Id \ {i} : vec'[j] = vec[j] /\ (j \in queue' <=> j \in queue)
    BY <2>1, <2>3, <2>4, <2>5 DEF Writes
  <2>7. vec'[i] # None /\ vec'[i].text = symbol[i]
    <3>1. [text |-> symbol[i], model |-> model[e]] \in Vector
      BY <2>2, <2>4 DEF Vector
    <3>2. [text |-> symbol[i], model |-> model[e]].text = symbol[i]
      OBVIOUS
    <3> QED BY <2>6, <3>1, <3>2, IndexAssumption
  <2>8. Form'
    BY <1>3, <2>1, <2>4 DEF Form
  <2>9. Covered' /\ VectorsAreFresh'
    BY <1>3, <2>1, <2>6, <2>7 DEF Served, Covered, VectorsAreFresh, Live
  <2>10. SymbolsMatchRow'
    BY <1>3, <2>1 DEF Served, SymbolsMatchRow, SymbolsIn, Live
  <2>11. OneHeld(e)'
    BY <1>1, <2>1
  <2> HIDE DEF OneHeld
  <2> QED BY <1>2, <2>8, <2>9, <2>10, <2>11 DEF SingleInv, Served
<1>21. ASSUME NEW e \in Engine, TransactionFails(e) PROVE SingleInv'
  <2>1. UNCHANGED tables /\ UNCHANGED model /\ pc[e] # "down" /\ pc'[e] = "idle"
    BY <1>21 DEF TransactionFails
  <2>2. Form' /\ Served'
    BY <1>3, <2>1, TablesStay
  <2>3. OneHeld(e)'
    BY <1>1, <2>1
  <2> HIDE DEF OneHeld
  <2> QED BY <1>2, <2>2, <2>3 DEF SingleInv
<1>22. ASSUME NEW e \in Engine, Crash(e) PROVE SingleInv'
  <2>1. UNCHANGED tables /\ pc'[e] = "down"
    BY <1>22 DEF Crash
  <2>2. Form' /\ Served'
    BY <1>3, <2>1, TablesStay
  <2>3. OneHeld(e)'
    BY <2>1
  <2> HIDE DEF OneHeld
  <2> QED BY <1>2, <2>2, <2>3 DEF SingleInv
<1>23. CASE UNCHANGED vars
  <2>1. UNCHANGED <<tables, pc, model, batch, cur>>
    BY <1>23 DEF vars
  <2>2. Form' /\ Served'
    BY <1>3, <2>1, TablesStay
  <2>3. Held'
    BY <2>1 DEF SingleInv, Held, BatchFits, Live
  <2> QED BY <2>2, <2>3 DEF SingleInv
<1> QED
  BY <1>5, <1>6, <1>7, <1>8, <1>10, <1>11, <1>12, <1>13, <1>14, <1>15, <1>16, <1>17, <1>18,
     <1>19, <1>20, <1>21, <1>22, <1>23
     DEF Next, EngineStep

LEMMA SingleInvAlways ==
  ASSUME OnePipeline
  PROVE  Spec => []SingleInv
<1>1. Init => SingleInv
  BY DEF Init, SingleInv, Held, Form, Served, Covered, VectorsAreFresh, SymbolsMatchRow,
         SymbolsIn, Live
<1>2. IndexInv /\ SingleInv /\ [Next]_vars => SingleInv'
  BY SingleStep
<1> QED BY <1>1, <1>2, IndexInvAlways, PTL DEF Spec

\* With one pipeline, that embeds with one model of the default width, every symbol of
\* the index has a vector or a queue row, whatever fails, crashes or is edited meanwhile:
\* publish queues what it does not embed, and the drainer dequeues what it wrote.
THEOREM NothingIsForgotten ==
  ASSUME OnePipeline
  PROVE  Spec => []Covered
<1>1. SingleInv => Covered
  BY DEF SingleInv, Served
<1> QED BY <1>1, SingleInvAlways, PTL

\* With one pipeline a file's symbols are those of the version its row names, and a
\* vector that is not queued was computed from the text its symbol has, although the
\* drainer embeds a text it read some transactions before.
THEOREM ServedIsParsed ==
  ASSUME OnePipeline
  PROVE  Spec => []ServesWhatWasParsed
<1>1. SingleInv => ServesWhatWasParsed
  BY DEF SingleInv, Served, ServesWhatWasParsed
<1> QED BY <1>1, SingleInvAlways, PTL
=============================================================================
