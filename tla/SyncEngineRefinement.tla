------------------------- MODULE SyncEngineRefinement -------------------------
(***************************************************************************)
(* That SyncEngine implements Indexer.  The refinement mapping is the      *)
(* database, so every step but Flush and Resync stutters; that a Flush is  *)
(* one Commit follows from the inductive invariant of exactly-once and     *)
(* from OffInv, what memory knows about disabled adapters.                 *)
(***************************************************************************)
EXTENDS SyncEngineExactlyOnce

\* An adapter that is disabled in the database is disabled in memory.
OffInv == \A a \in known \cap dbKnown : dbDisabled[a] => disabled[a]

-----------------------------------------------------------------------------
(***************************************************************************)
(* OffInv is inductive                                                     *)
(***************************************************************************)

LEMMA InitOff == Init => OffInv
BY DEF Init, OffInv

\* An adapter is registered by a log only when it has no row yet.
LEMMA RegisteredFirst ==
    ASSUME IInv, NEW u \in Unit, ApplyBlock(u), NEW n \in Discovered,
           AddedBy[n] \in Receivers(u, pos[u]), AddedAt[n] = pos[u]
    PROVE  n \notin known /\ n \notin dbKnown
<1> DEFINE a == AddedBy[n]
<1>1. phase[u] = "apply"
  BY DEF ApplyBlock
<1>2. a \in addrs[u] /\ (u \in Wrapper => lastSync[a] < pos[u])
  BY DEF Receivers
<1>3. /\ a \in Adapter /\ Active(a)
      /\ pos[u] > GetLastSync(u)
      /\ u \in Plain => addrs[u] = {u} /\ GetLastSync(u) = lastSync[u]
      /\ Cursor(a) = Most(lastSync[a], pos[u] - 1)
  BY <1>1, <1>2, Applying
<1>4. lastSync[a] \in Nat /\ pos[u] \in Nat
  BY <1>3, Values DEF IInv
<1>5. lastSync[a] < pos[u]
  BY <1>2, <1>3, <1>4, UnitFacts
<1>6. Cursor(a) = pos[u] - 1
  BY <1>3, <1>4, <1>5 DEF Most
<1>7. ~(AddedAt[n] <= Cursor(a))
  BY <1>4, <1>6
<1> QED BY <1>3, <1>7 DEF IInv, RegisteredInv

LEMMA NextOff == ASSUME IInv, OffInv, [Next]_vars PROVE OffInv'
<1>1. CASE StartFromScratch
  BY <1>1 DEF StartFromScratch, IInv, RegisteredInv, OffInv, db
<1>2. CASE StartFromDb
  BY <1>2 DEF StartFromDb, OffInv, db
<1>3. CASE Crash
  BY <1>3 DEF Crash, OffInv
<1>4. ASSUME NEW a \in Adapter, Resync(a) PROVE OffInv'
  BY <1>4 DEF Resync, OffInv, memory
<1>5. CASE Flush
  BY <1>5 DEF Flush, OffInv, memory, IInv, TypeOK, MemoryType
<1>6. ASSUME NEW u \in Unit, ApplyBlock(u) PROVE OffInv'
  <2> DEFINE New == {n \in Discovered : AddedBy[n] \in Receivers(u, pos[u]) /\ AddedAt[n] = pos[u]}
  <2>1. \A n \in New : n \notin dbKnown
    BY <1>6, RegisteredFirst
  <2>2. /\ known' = known \cup New
        /\ disabled' = [a \in Adapter |-> a \notin New /\ disabled[a]]
        /\ UNCHANGED db
    BY <1>6 DEF ApplyBlock
  <2>3. dbKnown \subseteq Adapter
    BY DEF IInv, TypeOK, DbType
  <2> QED BY <2>1, <2>2, <2>3 DEF OffInv, db
<1>7. ASSUME NEW u \in Unit, FinishModel(u) PROVE OffInv'
  <2> DEFINE h == Least(BlockToDisableOn(u), upto[u])
             New == IF u \in Wrapper THEN {} ELSE Rotated(u, h)
  <2>1. \A n \in New : n \notin dbKnown
    BY DEF Rotated
  <2>2. /\ known' = known \cup New
        /\ \A a \in Adapter : a \notin New /\ disabled[a] => disabled'[a]
        /\ UNCHANGED db
    BY <1>7 DEF FinishModel, AfterSyncHook
  <2>3. dbKnown \subseteq Adapter
    BY DEF IInv, TypeOK, DbType
  <2> HIDE DEF New
  <2> QED BY <2>1, <2>2, <2>3 DEF OffInv, db
<1>8. ASSUME UNCHANGED <<memory, db>> PROVE OffInv'
  BY <1>8 DEF OffInv, memory, db
<1>9. CASE CalculateDebtAndClear
  BY <1>9 DEF CalculateDebtAndClear, OffInv, db
<1>10. CASE \/ NewBlock \/ BatchRound \/ LiveRound \/ EndIteration \/ EndLevel
            \/ \E u \in Unit : LaunchNext(u) \/ StartModel(u)
  BY <1>8, <1>10 DEF NewBlock, BatchRound, LiveRound, BeginRound, EndIteration, EndLevel,
                     LaunchNext, StartModel
<1>11. CASE UNCHANGED vars
  BY <1>8, <1>11 DEF vars
<1> QED BY <1>1, <1>2, <1>3, <1>4, <1>5, <1>6, <1>7, <1>9, <1>10, <1>11 DEF Next, EngineStep

-----------------------------------------------------------------------------
(***************************************************************************)
(* The steps of the database                                               *)
(***************************************************************************)

\* A flushed adapter has not moved behind its row: its logs would be missing.
LEMMA FlushForward ==
    ASSUME IInv, Flush, NEW a \in DbActive, Active(a)
    PROVE  dbLastSync[a] <= lastSync[a]
<1>1. a \in Adapter /\ pc = "flush"
  BY DEF Flush, IInv, TypeOK, DbType, DbActive
<1>2. /\ dbLastSync[a] \in Nat /\ lastSync[a] \in Nat /\ dbLastSync[a] <= MaxBlock
      /\ FirstLogAt[a] \in Nat /\ FirstLogAt[a] >= 1
  BY <1>1, Values, ConstantFacts, BoundsAssumption DEF IInv, TypeOK, DbType, Height
<1>3. Cursor(a) = lastSync[a]
  <2>1. \A u \in Unit : phase[u] = "idle"
    BY <1>1 DEF IInv, JobInv, InRound
  <2> QED BY <1>1, <2>1, QuietCursor
<1> SUFFICES ASSUME lastSync[a] < dbLastSync[a] PROVE FALSE
  BY <1>2
<1>4. FirstLogAt[a] <= dbLastSync[a] /\ dbLastSync[a] \in Block
  <2>1. FirstLogAt[a] - 1 <= lastSync[a]
    BY <1>1 DEF IInv, CountInv
  <2> QED BY <1>2, <2>1, BoundsAssumption DEF Block
<1>5. dbApplied[a][dbLastSync[a]] = 1
  BY <1>2, <1>4 DEF IInv, DbCountInv, Due
<1>6. Total(a, dbLastSync[a]) = 0
  BY <1>1, <1>2, <1>3, <1>4 DEF IInv, CountInv, Due
<1>7. pending[a][dbLastSync[a]] \in Nat
  BY <1>1, <1>4, Values DEF IInv
<1> QED BY <1>1, <1>5, <1>6, <1>7 DEF Total

LEMMA FlushCommits == ASSUME IInv, OffInv, Flush PROVE Committed!Commit
<1>0. /\ pc = "flush" /\ dbKnown' = dbKnown \cup known
      /\ known \subseteq Adapter /\ dbKnown \subseteq Adapter
      /\ \A a \in Adapter : dbLastSync'[a] = IF a \in known THEN lastSync[a] ELSE dbLastSync[a]
      /\ \A a \in Adapter : dbDisabled'[a] = IF a \in known THEN disabled[a] ELSE dbDisabled[a]
      /\ \A a \in Adapter, b \in Block : dbApplied'[a][b] = dbApplied[a][b] + pending[a][b]
  BY DEF Flush, IInv, TypeOK, MemoryType, DbType
<1>i. IInv'
  BY FlushIInv
<1>d. \A a \in DbActive' : /\ a \in Adapter /\ Active(a)
                           /\ dbLastSync'[a] = lastSync[a]
                           /\ a \in dbKnown => a \in DbActive
  <2>1. DbActive \subseteq known
    BY <1>0 DEF IInv, RegisteredInv
  <2> QED BY <1>0, <2>1 DEF DbActive, Active, OffInv
<1>1. Committed!AdvanceActive
  <2>1. DbActive' \cap dbKnown \subseteq DbActive
    BY <1>d
  <2>2. ASSUME NEW a \in DbActive', a \in DbActive PROVE dbLastSync[a] <= dbLastSync'[a]
    BY <1>d, <2>2, FlushForward
  <2>3. ASSUME NEW a \in DbActive', NEW b \in Block
        PROVE  dbApplied'[a][b] = IF FirstLogAt[a] <= b /\ b <= dbLastSync'[a] THEN 1 ELSE 0
    BY <1>i DEF IInv, DbCountInv, Due
  <2> QED BY <2>1, <2>2, <2>3 DEF Committed!AdvanceActive
<1>2. Committed!KeepLogs
  <2> SUFFICES ASSUME NEW a \in Adapter, NEW b \in Block
               PROVE  dbApplied[a][b] <= dbApplied'[a][b] /\ dbApplied'[a][b] <= 1
    BY DEF Committed!KeepLogs
  <2>1. dbApplied[a][b] \in Nat /\ pending[a][b] \in Nat
    BY Values DEF IInv
  <2>2. Total(a, b) <= 1
    BY DEF IInv, CountInv
  <2> QED BY <1>0, <2>1, <2>2 DEF Total
<1>3. Committed!KeepNamed
  BY <1>i DEF IInv, FoundInv, NothingForgotten, Committed!KeepNamed
<1> QED BY <1>0, <1>1, <1>2, <1>3 DEF Committed!Commit

LEMMA ResyncResets == ASSUME NEW a \in Adapter, Resync(a) PROVE Committed!Reset(a)
BY DEF Resync, Committed!Reset, DbActive

LEMMA OtherStutter ==
    ASSUME UNCHANGED db
    PROVE  UNCHANGED Committed!vars
BY DEF db, Committed!vars, DbActive

LEMMA NextImplements ==
    ASSUME IInv, OffInv, [Next]_vars
    PROVE  [Committed!Next]_(Committed!vars)
<1>1. CASE Flush
  BY <1>1, FlushCommits DEF Committed!Next
<1>2. CASE \E a \in Adapter : Resync(a)
  BY <1>2, ResyncResets DEF Committed!Next
<1>3. CASE UNCHANGED db
  BY <1>3, OtherStutter
<1>4. Flush \/ (\E a \in Adapter : Resync(a)) \/ UNCHANGED db
  BY DEF Next, EngineStep, vars, StartFromScratch, StartFromDb, BatchRound, LiveRound,
         BeginRound, EndIteration, EndLevel, CalculateDebtAndClear, LaunchNext, StartModel,
         ApplyBlock, FinishModel, NewBlock, Crash
<1> QED BY <1>1, <1>2, <1>3, <1>4

LEMMA InitImplements == Init => Committed!Init
BY DEF Init, Committed!Init, DbActive, Nothing

(***************************************************************************)
(* The database of the sync engine changes by whole commits of exactly the *)
(* logs between two last_syncs, with the adapters they name, whatever the  *)
(* goroutines' order and wherever the process is killed, when an operator  *)
(* resets only adapters that are scheduled by themselves and register no   *)
(* others.                                                                 *)
(***************************************************************************)
THEOREM EngineImplementsIndexer ==
    ASSUME ResyncIsLocal
    PROVE  Spec => ImplementsIndexer
<1>1. Init => IInv /\ OffInv
  BY InitIInv, InitOff
<1>2. IInv /\ OffInv /\ [Next]_vars => IInv' /\ OffInv'
  BY NextIInv, NextOff
<1>3. Init => Committed!Init
  BY InitImplements
<1>4. IInv /\ OffInv /\ [Next]_vars => [Committed!Next]_(Committed!vars)
  BY NextImplements
<1> QED BY <1>1, <1>2, <1>3, <1>4, PTL DEF Spec, ImplementsIndexer, Committed!Spec
===============================================================================
