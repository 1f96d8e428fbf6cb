-------------------------- MODULE SyncEngineProofs --------------------------
(***************************************************************************)
(* Type correctness of SyncEngine, for every set of adapters, every        *)
(* topology the assumptions allow, every chain length, batch size and      *)
(* number of crashes and resets.                                           *)
(***************************************************************************)
EXTENDS SyncEngine, TLAPS

(***************************************************************************)
(* Types                                                                   *)
(***************************************************************************)

LEMMA NumberFacts ==
    /\ 0 \in Height /\ Never \in SyncPoint /\ MaxBlock \in Height
    /\ Block \subseteq Height /\ Height \subseteq SyncPoint
    /\ \A x \in Height : x + 1 \in SyncPoint
    /\ \A b \in Block : b - 1 \in Height
    /\ \A x \in SyncPoint, y \in Height : Least(x, y) \in Height
    /\ \A x \in SyncPoint, y \in Height : x <= y => x \in Height
    /\ Height \subseteq Nat
BY BoundsAssumption DEF Height, SyncPoint, Block, Never, Least

LEMMA UnitFacts ==
    /\ Plain \subseteq Adapter
    /\ Plain \cap Wrapper = {}
    /\ \A u \in Unit : u \in Plain \/ u \in Wrapper
    /\ \A u \in Plain : Members(u) = {u} /\ UnitOf(u) = u
    /\ \A a \in Adapter : UnitOf(a) \in Unit /\ a \in Members(UnitOf(a))
    /\ \A u \in Unit : \A a \in Members(u) : a \in Adapter /\ UnitOf(a) = u
    /\ \A w \in Wrapper : \A a \in Members(w) : a \notin Plain
BY AdapterAssumption DEF Plain, Unit, Members, UnitOf

LEMMA InitType == Init => TypeOK
<1> SUFFICES ASSUME Init PROVE TypeOK
  OBVIOUS
<1>1. ControlType
  <2>1. head \in Block
    BY BoundsAssumption, AdapterAssumption, SeedAssumption, UnitFacts DEF Init, Block
  <2> QED BY <2>1, NumberFacts, BoundsAssumption DEF Init, ControlType
<1>2. JobType
  BY NumberFacts DEF Init, JobType
<1>3. MemoryType
  BY NumberFacts DEF Init, MemoryType, Nothing
<1>4. DbType
  BY NumberFacts DEF Init, DbType, Nothing
<1> QED BY <1>1, <1>2, <1>3, <1>4 DEF TypeOK

LEMMA NoJobsType == NoJobs => JobType'
BY NumberFacts DEF NoJobs, JobType

LEMMA UnitTypes ==
    ASSUME TypeOK, NEW u \in Unit
    PROVE  /\ GetLastSync(u) \in SyncPoint
           /\ BlockToDisableOn(u) \in SyncPoint
           /\ ActiveMembers(u) \subseteq Adapter
BY UnitFacts, NumberFacts
   DEF GetLastSync, BlockToDisableOn, ActiveMembers, TypeOK, MemoryType

LEMMA LaunchType == ASSUME TypeOK, NEW u \in Unit, LaunchNext(u) PROVE TypeOK'
<1>1. ControlType'
  BY DEF TypeOK, ControlType, LaunchNext, counts
<1>2. JobType'
  BY DEF TypeOK, JobType, LaunchNext
<1>3. MemoryType'
  BY DEF TypeOK, MemoryType, LaunchNext, memory
<1>4. DbType'
  BY DEF TypeOK, DbType, LaunchNext, db
<1> QED BY <1>1, <1>2, <1>3, <1>4 DEF TypeOK

LEMMA StartModelType == ASSUME TypeOK, NEW u \in Unit, StartModel(u) PROVE TypeOK'
<1>1. ControlType'
  BY DEF TypeOK, ControlType, StartModel, control, counts
<1>2. JobType'
  <2>1. Least(BlockToDisableOn(u), till) \in Height
    BY UnitTypes, NumberFacts DEF TypeOK, ControlType
  <2>2. CASE GetLastSync(u) + 1 > till
    BY <2>2 DEF TypeOK, JobType, StartModel
  <2>3. CASE ~(GetLastSync(u) + 1 > till)
    <3>1. GetLastSync(u) + 1 \in SyncPoint
      BY <2>3, UnitTypes, BoundsAssumption
         DEF SyncPoint, Height, Never, TypeOK, ControlType
    <3> QED BY <2>1, <2>3, <3>1, UnitTypes DEF TypeOK, JobType, StartModel
  <2> QED BY <2>2, <2>3
<1>3. MemoryType'
  BY DEF TypeOK, MemoryType, StartModel, memory
<1>4. DbType'
  BY DEF TypeOK, DbType, StartModel, db
<1> QED BY <1>1, <1>2, <1>3, <1>4 DEF TypeOK

LEMMA ApplyBlockType == ASSUME TypeOK, NEW u \in Unit, ApplyBlock(u) PROVE TypeOK'
<1> DEFINE b == pos[u]
           R == Receivers(u, b)
           New == {n \in Discovered : AddedBy[n] \in R /\ AddedAt[n] = b}
<1>1. ControlType'
  BY DEF TypeOK, ControlType, ApplyBlock, control, counts
<1>2. pos[u] \in Height
  BY NumberFacts DEF TypeOK, JobType, ApplyBlock
<1>3. JobType'
  BY <1>2, NumberFacts DEF TypeOK, JobType, ApplyBlock
<1>4. MemoryType'
  <2>1. /\ New \subseteq Adapter
        /\ known' = known \cup New
        /\ lastSync' = LastSyncWith(New, lastSync)
        /\ disableOn' = DisableOnWith(New, b)
        /\ disabled' = [a \in Adapter |-> a \notin New /\ disabled[a]]
        /\ wrapperSync' \in [Wrapper -> SyncPoint]
    BY DEF ApplyBlock, WrapperSyncWith, Discovered
  <2>2. pending' \in [Adapter -> [Block -> Nat]]
    <3>1. \A a \in Adapter, x \in Block : pending[a][x] \in Nat
      BY DEF TypeOK, MemoryType
    <3> QED BY <3>1 DEF ApplyBlock
  <2> HIDE DEF New
  <2>3. lastSync' \in [Adapter -> Height]
    BY <2>1, NumberFacts, AdapterAssumption DEF LastSyncWith, TypeOK, MemoryType
  <2>4. disableOn' \in [Adapter -> Height]
    BY <2>1, <1>2, NumberFacts DEF DisableOnWith, TypeOK, MemoryType
  <2>5. known' \subseteq Adapter /\ disabled' \in [Adapter -> BOOLEAN]
    BY <2>1 DEF TypeOK, MemoryType
  <2> QED BY <2>1, <2>2, <2>3, <2>4, <2>5 DEF MemoryType
<1>5. DbType'
  BY DEF TypeOK, DbType, ApplyBlock, db
<1> QED BY <1>1, <1>3, <1>4, <1>5 DEF TypeOK

LEMMA FinishModelType == ASSUME TypeOK, NEW u \in Unit, FinishModel(u) PROVE TypeOK'
<1> DEFINE h == Least(BlockToDisableOn(u), upto[u])
           New == IF u \in Wrapper THEN {} ELSE Rotated(u, h)
           Fin == ActiveMembers(u)
<1>1. ControlType'
  BY DEF TypeOK, ControlType, FinishModel, control, counts
<1>2. JobType'
  BY DEF TypeOK, JobType, FinishModel
<1>3. MemoryType'
  <2>1. h \in Height
    BY UnitTypes, NumberFacts DEF TypeOK, JobType
  <2>2. New \subseteq Adapter
    BY UnitFacts, AdapterAssumption DEF Rotated
  <2>3. AfterSyncHook(Fin, h, New)
    BY DEF FinishModel
  <2> HIDE DEF h, New, Fin
  <2>4. New # {} => (CHOOSE n \in New : TRUE) \in New
    OBVIOUS
  <2>5. New # {} => AddedAt[CHOOSE n \in New : TRUE] \in Height
    BY <2>2, <2>4, NumberFacts, AdapterAssumption
  <2>6. lastSync' \in [Adapter -> Height]
    BY <2>1, <2>3, NumberFacts, AdapterAssumption
       DEF AfterSyncHook, LastSyncWith, TypeOK, MemoryType
  <2>7. disableOn' \in [Adapter -> Height]
    BY <2>3, <2>5, NumberFacts DEF AfterSyncHook, TypeOK, MemoryType
  <2>8. known' \subseteq Adapter /\ disabled' \in [Adapter -> BOOLEAN]
    BY <2>2, <2>3 DEF AfterSyncHook, TypeOK, MemoryType
  <2> QED BY <2>6, <2>7, <2>8 DEF FinishModel, TypeOK, MemoryType
<1>4. DbType'
  BY DEF TypeOK, DbType, FinishModel, db
<1> QED BY <1>1, <1>2, <1>3, <1>4 DEF TypeOK

LEMMA StartType == ASSUME TypeOK, StartFromScratch \/ StartFromDb PROVE TypeOK'
<1>1. CASE StartFromScratch
  <2>1. FirstLogAt[Root] - 1 \in Height
    BY AdapterAssumption, SeedAssumption, UnitFacts, NumberFacts
  <2>2. ControlType'
    BY <1>1, <2>1, NumberFacts, BoundsAssumption
       DEF TypeOK, ControlType, StartFromScratch, AreActiveAdapterSynchronized, counts
  <2>3. JobType'
    BY <1>1, NoJobsType DEF StartFromScratch
  <2>4. MemoryType'
    <3>1. lastSync' \in [Adapter -> Height]
      BY <1>1, NumberFacts, AdapterAssumption DEF StartFromScratch
    <3>2. Seed \subseteq Adapter
      BY SeedAssumption, UnitFacts
    <3> QED BY <1>1, <3>1, <3>2, NumberFacts DEF MemoryType, StartFromScratch, Nothing
  <2>5. DbType'
    BY <1>1 DEF TypeOK, DbType, StartFromScratch, db
  <2> QED BY <2>2, <2>3, <2>4, <2>5 DEF TypeOK
<1>2. CASE StartFromDb
  <2>1. till' \in Height /\ synced' \in Height
    BY <1>2 DEF StartFromDb, IsMin, DbActive, TypeOK, DbType
  <2>2. ControlType'
    BY <1>2, <2>1, NumberFacts, BoundsAssumption
       DEF TypeOK, ControlType, StartFromDb, AreActiveAdapterSynchronized, counts
  <2>3. JobType'
    BY <1>2, NoJobsType DEF StartFromDb
  <2>4. MemoryType'
    BY <1>2, NumberFacts DEF MemoryType, StartFromDb, Nothing, TypeOK, DbType
  <2>5. DbType'
    BY <1>2 DEF TypeOK, DbType, StartFromDb, db
  <2> QED BY <2>2, <2>3, <2>4, <2>5 DEF TypeOK
<1> QED BY <1>1, <1>2

LEMMA RoundType ==
    ASSUME TypeOK, BatchRound \/ LiveRound \/ EndIteration \/ EndLevel
                     \/ CalculateDebtAndClear \/ NewBlock
    PROVE  TypeOK'
<1>1. ControlType'
  <2>1. head' \in Block /\ head \in Height
    BY BoundsAssumption
       DEF TypeOK, ControlType, Block, Height, BatchRound, LiveRound, BeginRound,
           EndIteration, EndLevel, CalculateDebtAndClear, NewBlock
  <2>2. BatchRound => till + BatchSize \in Height
    BY BoundsAssumption DEF TypeOK, ControlType, Height, BatchRound
  <2>3. EndLevel => lvl' \in 0..MaxLevel
    BY BoundsAssumption DEF TypeOK, ControlType, EndLevel
  <2> QED BY <2>1, <2>2, <2>3, BoundsAssumption
        DEF TypeOK, ControlType, BatchRound, LiveRound, BeginRound, EndIteration,
            EndLevel, CalculateDebtAndClear, NewBlock, control, counts
<1>2. JobType'
  BY DEF TypeOK, JobType, BatchRound, LiveRound, BeginRound, EndIteration, EndLevel,
         CalculateDebtAndClear, NewBlock, jobs
<1>3. MemoryType'
  BY DEF TypeOK, MemoryType, BatchRound, LiveRound, BeginRound, EndIteration,
         EndLevel, CalculateDebtAndClear, NewBlock, memory, Nothing
<1>4. DbType'
  BY DEF TypeOK, DbType, BatchRound, LiveRound, BeginRound, EndIteration, EndLevel,
         CalculateDebtAndClear, NewBlock, db
<1> QED BY <1>1, <1>2, <1>3, <1>4 DEF TypeOK

LEMMA FlushType == ASSUME TypeOK, Flush PROVE TypeOK'
<1>1. ControlType'
  BY DEF TypeOK, ControlType, Flush, control, counts
<1>2. JobType' /\ MemoryType'
  BY DEF TypeOK, JobType, MemoryType, Flush, jobs, memory
<1>3. DbType'
  <2>1. dbApplied' \in [Adapter -> [Block -> Nat]]
    <3>1. \A a \in Adapter, b \in Block : dbApplied[a][b] + pending[a][b] \in Nat
      BY DEF TypeOK, DbType, MemoryType
    <3> QED BY <3>1 DEF Flush
  <2> QED BY <2>1 DEF TypeOK, DbType, MemoryType, Flush
<1> QED BY <1>1, <1>2, <1>3 DEF TypeOK

LEMMA CrashType == ASSUME TypeOK, Crash PROVE TypeOK'
<1>1. ControlType'
  BY BoundsAssumption DEF TypeOK, ControlType, Crash
<1>2. JobType'
  BY NoJobsType DEF Crash
<1>3. MemoryType' /\ DbType'
  BY DEF TypeOK, MemoryType, DbType, Crash, Nothing, db
<1> QED BY <1>1, <1>2, <1>3 DEF TypeOK

LEMMA ResyncType == ASSUME TypeOK, NEW a \in Adapter, Resync(a) PROVE TypeOK'
<1>1. ControlType'
  BY BoundsAssumption DEF TypeOK, ControlType, Resync, control
<1>2. JobType' /\ MemoryType'
  BY DEF TypeOK, JobType, MemoryType, Resync, jobs, memory
<1>3. DbType'
  <2>1. dbLastSync' \in [Adapter -> Height]
    BY NumberFacts, AdapterAssumption DEF TypeOK, DbType, Resync
  <2>2. dbApplied' \in [Adapter -> [Block -> Nat]]
    BY DEF TypeOK, DbType, Resync
  <2> QED BY <2>1, <2>2 DEF TypeOK, DbType, Resync
<1> QED BY <1>1, <1>2, <1>3 DEF TypeOK

LEMMA NextType == TypeOK /\ [Next]_vars => TypeOK'
<1> SUFFICES ASSUME TypeOK, [Next]_vars PROVE TypeOK'
  OBVIOUS
<1>1. CASE UNCHANGED vars
  BY <1>1 DEF vars, control, jobs, memory, db, counts, TypeOK, ControlType, JobType,
     MemoryType, DbType
<1>2. CASE Next
  BY <1>2, LaunchType, StartModelType, ApplyBlockType, FinishModelType, StartType,
     RoundType, FlushType, CrashType, ResyncType DEF Next, EngineStep
<1> QED BY <1>1, <1>2

(***************************************************************************)
(* Every variable of the engine and of the database keeps its type.        *)
(***************************************************************************)
THEOREM TypeCorrect == Spec => []TypeOK
<1>1. Init => TypeOK
  BY InitType
<1>2. TypeOK /\ [Next]_vars => TypeOK'
  BY NextType
<1> QED BY <1>1, <1>2, PTL DEF Spec
=============================================================================
