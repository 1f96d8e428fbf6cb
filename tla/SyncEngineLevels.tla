--------------------------- MODULE SyncEngineLevels ---------------------------
(***************************************************************************)
(* What the level barrier of the kit gives, for every set of adapters,     *)
(* every topology the assumptions allow, every chain length, batch size    *)
(* and number of crashes: that levels are synced in order, that the debt   *)
(* engine and the health endpoint see whole rounds, and that a replaced    *)
(* adapter stops at the block of its replacement.  All four hold until the *)
(* aggregator of a Chainlink feed is rotated: ChainlinkPriceFeed finds the *)
(* new feed in AfterSyncHook, when its level may be over.                  *)
(***************************************************************************)
EXTENDS SyncEngineRefinement

\* No feed has been found by AfterSyncHook yet.
Unrotated == \A f \in ViaHook : f \notin known /\ f \notin dbKnown

-----------------------------------------------------------------------------
(***************************************************************************)
(* Levels and the debt engine: consequences of BarrierInv                  *)
(***************************************************************************)

LEMMA BarrierLevelOrder == ASSUME IInv, Unrotated PROVE LevelOrder
<1> SUFFICES ASSUME NEW u \in Unit, NEW v \in Unit, phase[u] = "apply",
                    LevelOf[v] < LevelOf[u], NEW a \in ActiveMembers(v)
             PROVE  lastSync[a] >= upto[u]
  BY DEF LevelOrder
<1>1. InRound /\ LevelOf[u] = lvl /\ upto[u] <= till
  BY Applying
<1>2. a \in Adapter /\ UnitOf(a) = v /\ Active(a)
  BY UnitFacts DEF ActiveMembers, Active
<1>3. a \in Timely
  BY <1>2 DEF Unrotated, Timely, Active
<1>4. /\ lvl \in Nat /\ LevelOf[v] \in Nat /\ till \in Nat /\ upto[u] \in Nat
      /\ lastSync[a] \in Nat
  BY <1>2, Values, ConstantFacts DEF IInv
<1>5. till <= lastSync[a]
  BY <1>1, <1>2, <1>3, <1>4 DEF IInv, BarrierInv
<1> QED BY <1>1, <1>4, <1>5

LEMMA BarrierDebt == ASSUME IInv, Unrotated PROVE DebtOnFullData
<1> SUFFICES ASSUME pc = "debt", NEW a \in known, ~disabled[a] PROVE lastSync[a] >= till
  BY DEF DebtOnFullData
<1>1. a \in Adapter
  BY DEF IInv, TypeOK, MemoryType
<1>2. a \in Timely /\ Active(a)
  BY <1>1 DEF Unrotated, Timely, Active
<1>3. till \in Nat /\ lastSync[a] \in Nat
  BY <1>1, Values DEF IInv
<1> QED BY <1>2, <1>3 DEF IInv, BarrierInv

(***************************************************************************)
(* While an adapter applies the logs up to a block, every active adapter   *)
(* of a lower level has been synced up to that block, until a feed is      *)
(* rotated: what docs/arch.md promises of the kit's levels.                *)
(***************************************************************************)
THEOREM LevelsAreInOrder ==
    ASSUME ResyncIsLocal
    PROVE  Spec => [](Unrotated => LevelOrder)
<1>1. Init => IInv
  BY InitIInv
<1>2. IInv /\ [Next]_vars => IInv'
  BY NextIInv
<1>3. IInv => (Unrotated => LevelOrder)
  BY BarrierLevelOrder
<1> QED BY <1>1, <1>2, <1>3, PTL DEF Spec

(***************************************************************************)
(* When CalculateDebtAndClear runs, no active adapter is behind the round, *)
(* until a feed is rotated, also after crashes and resets.                 *)
(***************************************************************************)
THEOREM DebtSeesWholeRounds ==
    ASSUME ResyncIsLocal
    PROVE  Spec => [](Unrotated => DebtOnFullData)
<1>1. Init => IInv
  BY InitIInv
<1>2. IInv /\ [Next]_vars => IInv'
  BY NextIInv
<1>3. IInv => (Unrotated => DebtOnFullData)
  BY BarrierDebt
<1> QED BY <1>1, <1>2, <1>3, PTL DEF Spec

-----------------------------------------------------------------------------
(***************************************************************************)
(* The block of the health endpoint                                        *)
(***************************************************************************)

\* The reported block and, once a round is flushed, its target are committed.
ReportInv ==
    pc # "down" =>
        /\ synced <= till
        /\ \A a \in DbActive \cap Timely : synced <= dbLastSync[a]
        /\ pc = "debt" => \A a \in DbActive \cap Timely : till <= dbLastSync[a]

LEMMA NextReport == ASSUME IInv, ReportInv, [Next]_vars PROVE ReportInv'
<1>t. /\ till \in Nat /\ synced \in Nat /\ head \in Nat /\ till <= head
      /\ dbKnown \subseteq Adapter /\ known \subseteq Adapter
  <2>1. till \in Nat /\ head \in Nat
    BY Values DEF IInv
  <2>2. synced \in Nat
    BY NumberFacts DEF IInv, TypeOK, ControlType
  <2> QED BY <2>1, <2>2 DEF IInv, HeadInv, TypeOK, DbType, MemoryType
<1>d. \A a \in DbActive : dbLastSync[a] \in Nat
  BY <1>t, Values DEF IInv, DbActive
<1>1. CASE StartFromScratch
  <2>1. DbActive' = {} /\ synced' = till' /\ till' = FirstLogAt[Root] - 1 /\ pc' = "batch"
    BY <1>1 DEF StartFromScratch, IInv, RegisteredInv, DbActive, db
  <2>2. FirstLogAt[Root] \in Nat
    BY ConstantFacts
  <2> QED BY <2>1, <2>2 DEF ReportInv
<1>2. CASE StartFromDb
  <2>1. PICK m \in SyncPoint : /\ IsMin(m, {dbLastSync[a] : a \in DbActive})
                               /\ till' = m /\ synced' = m
    BY <1>2 DEF StartFromDb
  <2>2. m \in Nat /\ \A a \in DbActive : m <= dbLastSync[a]
    BY <2>1, BoundsAssumption DEF IsMin, SyncPoint, Never
  <2> QED BY <1>2, <2>1, <2>2 DEF StartFromDb, ReportInv, DbActive, db
<1>3. CASE Crash
  BY <1>3 DEF Crash, ReportInv
<1>4. ASSUME NEW a \in Adapter, Resync(a) PROVE ReportInv'
  BY <1>4 DEF Resync, ReportInv
<1>5. CASE BatchRound \/ LiveRound
  <2>1. /\ pc \in {"batch", "live"} /\ pc' = "iterate" /\ till <= till'
        /\ synced' = synced /\ UNCHANGED db /\ till' \in Nat
    BY <1>5, <1>t, BoundsAssumption DEF BatchRound, LiveRound, BeginRound
  <2> QED BY <1>t, <2>1 DEF ReportInv, DbActive, db
<1>6. CASE Flush
  <2>1. /\ pc = "flush" /\ pc' = "debt" /\ till' = till /\ synced' = synced
        /\ dbKnown' = dbKnown \cup known
        /\ \A a \in Adapter : dbLastSync'[a] = IF a \in known THEN lastSync[a] ELSE dbLastSync[a]
        /\ \A a \in Adapter : dbDisabled'[a] = IF a \in known THEN disabled[a] ELSE dbDisabled[a]
    BY <1>6 DEF Flush, control
  <2>2. DbActive \subseteq known
    BY <2>1 DEF IInv, RegisteredInv
  <2>3. ASSUME NEW a \in DbActive' \cap Timely PROVE till <= dbLastSync'[a] /\ dbLastSync'[a] \in Nat
    <3>1. a \in Adapter /\ Active(a) /\ dbLastSync'[a] = lastSync[a]
      BY <1>t, <2>1, <2>2, <2>3 DEF DbActive, Active
    <3>2. till <= lastSync[a] /\ lastSync[a] \in Nat
      BY <2>1, <2>3, <3>1, Values DEF IInv, BarrierInv
    <3> QED BY <3>1, <3>2
  <2>4. synced <= till
    BY <2>1 DEF ReportInv
  <2> QED BY <1>t, <2>1, <2>3, <2>4 DEF ReportInv
<1>7. CASE CalculateDebtAndClear
  <2>1. /\ pc = "debt" /\ pc' # "debt" /\ synced' = till /\ till' = till /\ UNCHANGED db
    BY <1>7 DEF CalculateDebtAndClear, control, IInv, TypeOK, ControlType
  <2> QED BY <1>t, <2>1 DEF ReportInv, DbActive, db
<1>8. ASSUME UNCHANGED <<till, synced, db>>, pc' # "down" => pc # "down", pc' = "debt" => pc = "debt"
      PROVE  ReportInv'
  BY <1>8 DEF ReportInv, DbActive, db
<1>9. CASE \/ NewBlock \/ EndIteration \/ EndLevel \/ UNCHANGED vars
           \/ \E u \in Unit : LaunchNext(u) \/ StartModel(u) \/ ApplyBlock(u) \/ FinishModel(u)
  BY <1>8, <1>9 DEF NewBlock, EndIteration, EndLevel, LaunchNext, StartModel, ApplyBlock,
                    FinishModel, vars, control
<1> QED BY <1>1, <1>2, <1>3, <1>4, <1>5, <1>6, <1>7, <1>9 DEF Next, EngineStep

(***************************************************************************)
(* The block the health endpoint reports is committed for every active     *)
(* adapter, whenever the process runs and until a feed is rotated.         *)
(***************************************************************************)
THEOREM ReportedBlockIsCommitted ==
    ASSUME ResyncIsLocal
    PROVE  Spec => [](Unrotated => ReportedIsCommitted)
<1>1. Init => IInv /\ ReportInv
  BY InitIInv DEF Init, ReportInv
<1>2. IInv /\ ReportInv /\ [Next]_vars => IInv' /\ ReportInv'
  BY NextIInv, NextReport
<1>3. IInv /\ ReportInv => (Unrotated => ReportedIsCommitted)
  <2> SUFFICES ASSUME IInv, ReportInv, Unrotated, pc # "down", NEW a \in DbActive
               PROVE  dbLastSync[a] >= synced
    BY DEF ReportedIsCommitted
  <2>1. a \in Adapter /\ a \in Timely
    BY DEF IInv, TypeOK, DbType, DbActive, Unrotated, Timely
  <2>2. synced \in Nat /\ dbLastSync[a] \in Nat
    BY <2>1, Values, NumberFacts DEF IInv, TypeOK, ControlType
  <2> QED BY <2>1, <2>2 DEF ReportInv
<1> QED BY <1>1, <1>2, <1>3, PTL DEF Spec

-----------------------------------------------------------------------------
(***************************************************************************)
(* The block a replaced adapter stops at                                   *)
(***************************************************************************)

\* What a replacement in time needs.  The replaced adapter is scheduled by
\* itself: a wrapper ignores the disable block of its adapters (MCSync_conf).
\* The registrars E of the replacing adapters, and theirs in turn, name an
\* adapter only once they are registered: an older log of a registrar is read
\* when the replaced adapter may be past it.
ReplacedInTime(E) ==
    /\ E \subseteq Adapter
    /\ \A n \in Discovered : Supersedes[n] \subseteq Plain
    /\ \A n \in Discovered : n \in E \/ Supersedes[n] # {} =>
         /\ AddedBy[n] \in E
         /\ AddedBy[n] \in Discovered => AddedAt[AddedBy[n]] <= AddedAt[n]

\* How far the levels above s may be when s has been synced up to f[s]: s may
\* have been registered after they had passed its first logs.
Front(s, f) == IF s \in Discovered THEN Most(f[s], AddedAt[s] - 1) ELSE f[s]

\* No level is ahead of a registrar below it, in memory and in the database.
FrontInv(E) ==
    \A s \in E \cap Core, a \in Adapter, b \in Block :
        LevelOf[UnitOf(s)] < LevelOf[UnitOf(a)] =>
            /\ Active(s) /\ Total(a, b) > 0 => b <= Front(s, lastSync)
            /\ s \in DbActive /\ dbApplied[a][b] > 0 => b <= Front(s, dbLastSync)

\* No log above the disable block of an adapter is in memory or database.
StopInv ==
    /\ \A a \in Adapter \ known, b \in Block : pending[a][b] = 0
    /\ \A a \in Adapter \ Plain : disableOn[a] = 0 /\ dbDisableOn[a] = 0
    /\ Unrotated => \A a \in known, b \in Block :
         disableOn[a] # 0 /\ Total(a, b) > 0 => b <= disableOn[a]
    /\ (\A f \in ViaHook : f \notin dbKnown) => StopsAtDisableBlock

LEMMA FrontFacts ==
    ASSUME NEW s \in Adapter, NEW f, NEW g, f[s] \in Nat, g[s] \in Nat
    PROVE  /\ Front(s, f) \in Nat /\ f[s] <= Front(s, f)
           /\ f[s] <= g[s] => Front(s, f) <= Front(s, g)
BY ConstantFacts, MostFacts DEF Front, Most

\* The adapters the logs of the next block of u name.
Named(u) == {n \in Discovered : AddedBy[n] \in Receivers(u, pos[u]) /\ AddedAt[n] = pos[u]}

\* What ApplyBlock does, in the terms of the invariants.
LEMMA ApplyBlockFacts ==
    ASSUME ResyncIsLocal, IInv, NEW u \in Unit, ApplyBlock(u)
    PROVE  /\ pc \notin {"down", "flush", "debt"} /\ UNCHANGED <<pc, db>>
           /\ pos[u] \in Nat /\ till \in Nat /\ pos[u] <= till
           /\ \A a \in Receivers(u, pos[u]) :
                /\ a \in Adapter /\ UnitOf(a) = u /\ Active(a) /\ lastSync[a] < pos[u]
                /\ disableOn[a] # 0 /\ a \in Plain => pos[u] <= disableOn[a]
           /\ \A s \in Timely : Active(s) /\ LevelOf[UnitOf(s)] < LevelOf[u] => till <= lastSync[s]
           /\ \A n \in Named(u) : n \notin known /\ n \notin dbKnown /\ n \in Adapter
           /\ known' = known \cup Named(u)
           /\ \A a \in Adapter :
                /\ Active(a)' <=> (Active(a) \/ a \in Named(u))
                /\ lastSync'[a] = IF a \in Named(u) THEN FirstLogAt[a] - 1 ELSE lastSync[a]
                /\ a \in Named(u) => disableOn'[a] = 0
                /\ disableOn'[a] # disableOn[a] =>
                     \/ a \in Named(u)
                     \/ disableOn'[a] = pos[u] /\ \E n \in Named(u) : a \in Supersedes[n]
           /\ \A a \in Adapter, x \in Block :
                /\ pending'[a][x] = IF a \in Receivers(u, pos[u]) /\ x = pos[u]
                                    THEN pending[a][x] + 1 ELSE pending[a][x]
                /\ Total(a, x)' = IF a \in Receivers(u, pos[u]) /\ x = pos[u]
                                  THEN Total(a, x) + 1 ELSE Total(a, x)
<1> DEFINE R == Receivers(u, pos[u])
           New == Named(u)
<1>0. /\ phase[u] = "apply" /\ pos[u] <= upto[u]
      /\ known' = known \cup New
      /\ lastSync' = LastSyncWith(New, lastSync)
      /\ disableOn' = DisableOnWith(New, pos[u])
      /\ disabled' = [a \in Adapter |-> a \notin New /\ disabled[a]]
      /\ \A a \in Adapter, x \in Block :
           pending'[a][x] = IF a \in R /\ x = pos[u] THEN pending[a][x] + 1 ELSE pending[a][x]
      /\ UNCHANGED <<pc, db>>
  BY DEF ApplyBlock, IInv, TypeOK, JobType, control, Named
<1>w. /\ InRound /\ pc \notin {"down", "flush", "debt"} /\ LevelOf[u] = lvl
      /\ \A a \in addrs[u] : a \in Adapter /\ UnitOf(a) = u /\ Active(a)
      /\ pos[u] > GetLastSync(u) /\ upto[u] <= till /\ upto[u] = Least(BlockToDisableOn(u), till)
      /\ u \in Plain => addrs[u] = {u} /\ GetLastSync(u) = lastSync[u]
  BY <1>0, Applying
<1>t. /\ pos[u] \in Nat /\ till \in Nat /\ upto[u] \in Nat /\ lvl \in Nat
      /\ BlockToDisableOn(u) \in Nat /\ LevelOf[u] \in Nat
      /\ \A a \in Adapter : lastSync[a] \in Nat /\ disableOn[a] \in Nat
      /\ \A a \in Adapter, x \in Block : pending[a][x] \in Nat /\ dbApplied[a][x] \in Nat
  BY Values, ConstantFacts DEF IInv
<1>1. pos[u] <= till
  BY <1>0, <1>w, <1>t
<1>2. ASSUME NEW a \in R
      PROVE  /\ a \in Adapter /\ UnitOf(a) = u /\ Active(a) /\ lastSync[a] < pos[u]
             /\ disableOn[a] # 0 /\ a \in Plain => pos[u] <= disableOn[a]
  <2>1. a \in addrs[u] /\ (u \in Wrapper => lastSync[a] < pos[u])
    BY DEF Receivers
  <2>2. a \in Adapter /\ UnitOf(a) = u /\ Active(a)
    BY <1>w, <2>1
  <2>3. lastSync[a] < pos[u]
    BY <1>w, <2>1, UnitFacts
  <2>4. ASSUME disableOn[a] # 0, a \in Plain PROVE pos[u] <= disableOn[a]
    <3>1. a = u /\ u \notin Wrapper
      BY <2>2, <2>4, UnitFacts
    <3>2. BlockToDisableOn(u) = disableOn[a]
      BY <2>4, <3>1 DEF BlockToDisableOn
    <3> QED BY <1>0, <1>w, <1>t, <2>2, <3>2 DEF Least
  <2> QED BY <2>2, <2>3, <2>4
<1>3. ASSUME NEW s \in Timely, Active(s), LevelOf[UnitOf(s)] < LevelOf[u]
      PROVE  till <= lastSync[s]
  <2>1. s \in Adapter /\ LevelOf[UnitOf(s)] \in Nat
    BY ConstantFacts, UnitFacts DEF Timely
  <2> QED BY <1>w, <1>t, <1>3, <2>1 DEF IInv, BarrierInv
<1>4. \A n \in New : n \notin known /\ n \notin dbKnown /\ n \in Adapter
  BY RegisteredFirst, ConstantFacts DEF Named
<1> HIDE DEF R, New
<1>5. \A a \in Adapter : /\ Active(a)' <=> (Active(a) \/ a \in New)
                         /\ lastSync'[a] = IF a \in New THEN FirstLogAt[a] - 1 ELSE lastSync[a]
                         /\ a \in New => disableOn'[a] = 0
                         /\ disableOn'[a] # disableOn[a] =>
                              \/ a \in New
                              \/ disableOn'[a] = pos[u] /\ \E n \in New : a \in Supersedes[n]
  <2> SUFFICES ASSUME NEW a \in Adapter
               PROVE  /\ Active(a)' <=> (Active(a) \/ a \in New)
                      /\ lastSync'[a] = IF a \in New THEN FirstLogAt[a] - 1 ELSE lastSync[a]
                      /\ a \in New => disableOn'[a] = 0
                      /\ disableOn'[a] # disableOn[a] =>
                           \/ a \in New
                           \/ disableOn'[a] = pos[u] /\ \E n \in New : a \in Supersedes[n]
    OBVIOUS
  <2>1. (Active(a)' <=> (Active(a) \/ a \in New))
    BY <1>0, <1>4 DEF Active
  <2>2. lastSync'[a] = IF a \in New THEN FirstLogAt[a] - 1 ELSE lastSync[a]
    BY <1>0 DEF LastSyncWith
  <2>3. a \in New => a \notin known
    BY <1>4
  <2>4. disableOn'[a] = IF /\ a \in known
                           /\ \E n \in New : a \in Supersedes[n]
                           /\ a \in PriceOracles => ~disabled[a]
                        THEN pos[u]
                        ELSE IF a \in New THEN 0 ELSE disableOn[a]
    BY <1>0 DEF DisableOnWith
  <2> QED BY <2>1, <2>2, <2>3, <2>4
<1>6. \A a \in Adapter, x \in Block :
        Total(a, x)' = IF a \in R /\ x = pos[u] THEN Total(a, x) + 1 ELSE Total(a, x)
  BY <1>0, <1>w, <1>t DEF Total, db
<1> QED BY <1>0, <1>w, <1>t, <1>1, <1>2, <1>3, <1>4, <1>5, <1>6 DEF R, New

\* A goroutine never sets an adapter back that it leaves active.
LEMMA FinishForward ==
    ASSUME IInv, NEW u \in Unit, FinishModel(u), NEW s \in Timely, Active(s)'
    PROVE  Active(s) /\ lastSync[s] <= lastSync'[s] /\ lastSync'[s] \in Nat
<1> DEFINE h == Least(BlockToDisableOn(u), upto[u])
           New == IF u \in Wrapper THEN {} ELSE Rotated(u, h)
           Fin == ActiveMembers(u)
<1>0. phase[u] = "apply" /\ pos[u] > upto[u] /\ AfterSyncHook(Fin, h, New)
  BY DEF FinishModel
<1>w. /\ \A a \in Fin : a \in Adapter /\ UnitOf(a) = u /\ Active(a)
      /\ GetLastSync(u) < till /\ upto[u] = Least(BlockToDisableOn(u), till)
      /\ u \in Plain => Fin = {u} /\ GetLastSync(u) = lastSync[u]
  BY <1>0, Applying
<1>t. /\ till \in Nat /\ till <= MaxBlock /\ upto[u] \in Nat /\ BlockToDisableOn(u) \in Nat
      /\ GetLastSync(u) \in Nat /\ s \in Adapter /\ lastSync[s] \in Nat /\ disableOn[s] \in Nat
  BY Values DEF IInv, Timely
<1>h. h = upto[u]
  BY <1>w, <1>t DEF Least
<1>n. s \notin New
  BY DEF Rotated, Timely
<1>p. ASSUME s \in Fin, New # {} PROVE disabled'[s]
  <2> DEFINE m == CHOOSE n \in New : TRUE
  <2>1. m \in New
    BY <1>p
  <2>2. m \in Adapter /\ AddedAt[m] <= h
    BY <2>1, AdapterAssumption DEF Rotated, Plain
  <2>3. AddedAt[m] # 0 /\ h >= AddedAt[m]
    BY <1>t, <1>h, <2>2, ConstantFacts
  <2> HIDE DEF m
  <2> QED BY <1>0, <1>t, <1>n, <1>p, <2>3 DEF AfterSyncHook, m
<1> HIDE DEF h, New, Fin
<1>1. /\ s \in known /\ ~disabled[s]
      /\ lastSync'[s] = IF s \in Fin THEN h ELSE lastSync[s]
  BY <1>0, <1>t, <1>n DEF AfterSyncHook, LastSyncWith, Active
<1>2. ASSUME s \in Fin PROVE h = till /\ lastSync[s] <= till
  <2>1. New = {}
    BY <1>2, <1>p DEF Active
  <2>2. ~(disableOn[s] # 0 /\ h >= disableOn[s])
    BY <1>0, <1>2, <1>n, <1>t, <2>1 DEF AfterSyncHook, Active
  <2>3. CASE u \in Wrapper
    <3>1. BlockToDisableOn(u) = MaxBlock + 1 /\ GetLastSync(u) = wrapperSync[u]
      BY <2>3 DEF BlockToDisableOn, Never, GetLastSync
    <3>2. lastSync[s] <= Most(wrapperSync[u], till)
      BY <1>2, <2>3 DEF IInv, TogetherInv, Fin
    <3> QED BY <1>h, <1>w, <1>t, <3>1, <3>2, BoundsAssumption DEF Least, Most
  <2>4. CASE u \in Plain
    <3>1. s = u /\ u \notin Wrapper
      BY <1>w, <1>2, <2>4, UnitFacts
    <3>2. BlockToDisableOn(u) = IF disableOn[s] = 0 THEN MaxBlock + 1 ELSE disableOn[s]
      BY <3>1 DEF BlockToDisableOn, Never
    <3> QED BY <1>h, <1>w, <1>t, <2>2, <2>4, <3>1, <3>2, BoundsAssumption DEF Least
  <2> QED BY <2>3, <2>4, UnitFacts
<1> QED BY <1>t, <1>1, <1>2 DEF Active

\* When a log of a registrar names an adapter, the levels above are behind it.
LEMMA NamedInTime ==
    ASSUME NEW E, ReplacedInTime(E), ResyncIsLocal, IInv, FrontInv(E),
           NEW u \in Unit, ApplyBlock(u), NEW n \in Discovered,
           n \in E \/ Supersedes[n] # {},
           AddedBy[n] \in Receivers(u, pos[u]), AddedAt[n] = pos[u],
           NEW a \in Adapter, NEW x \in Block, LevelOf[u] < LevelOf[UnitOf(a)], Total(a, x) > 0
    PROVE  x <= pos[u] - 1
<1> DEFINE s == AddedBy[n]
<1>1. /\ pos[u] \in Nat /\ s \in Adapter /\ UnitOf(s) = u /\ Active(s) /\ lastSync[s] < pos[u]
  BY ApplyBlockFacts
<1>2. s \in E \cap Core /\ (s \in Discovered => AddedAt[s] <= pos[u])
  BY CoreFacts DEF ReplacedInTime
<1>3. x <= Front(s, lastSync)
  BY <1>1, <1>2 DEF FrontInv
<1>4. x \in Nat /\ lastSync[s] \in Nat /\ AddedAt[s] \in Nat
  BY <1>1, Values, ConstantFacts DEF IInv
<1> QED BY <1>1, <1>2, <1>3, <1>4 DEF Front, Most

LEMMA ApplyBlockFront ==
    ASSUME NEW E, ReplacedInTime(E), ResyncIsLocal, IInv, FrontInv(E),
           NEW u \in Unit, ApplyBlock(u)
    PROVE  FrontInv(E)'
<1> DEFINE R == Receivers(u, pos[u])
           New == Named(u)
<1>1. /\ UNCHANGED db /\ pos[u] \in Nat /\ till \in Nat /\ pos[u] <= till
      /\ \A a \in R : a \in Adapter /\ UnitOf(a) = u /\ Active(a)
      /\ \A s \in Timely : Active(s) /\ LevelOf[UnitOf(s)] < LevelOf[u] => till <= lastSync[s]
      /\ \A n \in New : n \notin known
      /\ \A a \in Adapter : /\ Active(a)' <=> (Active(a) \/ a \in New)
                            /\ lastSync'[a] = IF a \in New THEN FirstLogAt[a] - 1 ELSE lastSync[a]
      /\ \A a \in Adapter, x \in Block :
           Total(a, x)' = IF a \in R /\ x = pos[u] THEN Total(a, x) + 1 ELSE Total(a, x)
  BY ApplyBlockFacts
<1>2. \A n \in New : n \in Discovered /\ AddedBy[n] \in R /\ AddedAt[n] = pos[u]
  BY DEF Named
<1>3. ASSUME NEW s \in E \cap Core, NEW a \in Adapter, NEW x \in Block,
             LevelOf[UnitOf(s)] < LevelOf[UnitOf(a)], Active(s)', Total(a, x)' > 0
      PROVE  x <= Front(s, lastSync)'
  <2>0. /\ s \in Adapter /\ s \in Timely /\ x \in Nat /\ lastSync[s] \in Nat
        /\ LevelOf[UnitOf(s)] \in Nat /\ LevelOf[UnitOf(a)] \in Nat /\ LevelOf[u] \in Nat
        /\ FirstLogAt[s] \in Nat /\ FirstLogAt[s] <= AddedAt[s] /\ AddedAt[s] \in Nat
        /\ Total(a, x) \in Nat
    BY CoreFacts, ConstantFacts, Values, UnitFacts DEF IInv, Total
  <2>1. CASE s \in New
    <3>1. Front(s, lastSync)' = AddedAt[s] - 1
      BY <1>1, <1>2, <2>0, <2>1 DEF Front, Most
    <3>2. LevelOf[u] < LevelOf[UnitOf(s)]
      BY <1>1, <1>2, <2>1, ConstantFacts
    <3>3. a \notin R /\ LevelOf[u] < LevelOf[UnitOf(a)]
      BY <1>1, <1>3, <2>0, <3>2
    <3>4. Total(a, x) > 0
      BY <1>1, <1>3, <3>3
    <3>5. x <= pos[u] - 1
      BY <1>2, <2>1, <3>3, <3>4, NamedInTime
    <3> QED BY <1>2, <2>1, <3>1, <3>5
  <2>2. CASE s \notin New
    <3>1. Active(s) /\ Front(s, lastSync)' = Front(s, lastSync) /\ lastSync[s] <= Front(s, lastSync)
      BY <1>1, <1>3, <2>0, <2>2, FrontFacts DEF Front
    <3>2. CASE Total(a, x) > 0
      BY <1>3, <3>1, <3>2 DEF FrontInv
    <3>3. CASE ~(Total(a, x) > 0)
      <4>1. a \in R /\ x = pos[u]
        BY <1>1, <1>3, <3>3
      <4>2. till <= lastSync[s]
        BY <1>1, <1>3, <2>0, <3>1, <4>1
      <4>3. Front(s, lastSync) \in Nat
        BY <2>0, FrontFacts
      <4> QED BY <1>1, <2>0, <3>1, <4>1, <4>2, <4>3
    <3> QED BY <3>2, <3>3
  <2> QED BY <2>1, <2>2
<1>4. ASSUME NEW s \in E \cap Core, NEW a \in Adapter, NEW x \in Block,
             LevelOf[UnitOf(s)] < LevelOf[UnitOf(a)], (s \in DbActive)', dbApplied'[a][x] > 0
      PROVE  x <= Front(s, dbLastSync)'
  BY <1>1, <1>4 DEF FrontInv, Front, DbActive, db
<1> QED BY <1>3, <1>4 DEF FrontInv

LEMMA FinishModelFront ==
    ASSUME NEW E, ReplacedInTime(E), ResyncIsLocal, IInv, FrontInv(E),
           NEW u \in Unit, FinishModel(u)
    PROVE  FrontInv(E)'
<1>1. UNCHANGED <<db, pending, pc>>
  BY DEF FinishModel
<1>2. \A a \in Adapter, x \in Block : Total(a, x)' = Total(a, x)
  BY <1>1 DEF Total, db
<1>3. ASSUME NEW s \in E \cap Core, Active(s)'
      PROVE  Active(s) /\ lastSync[s] <= lastSync'[s] /\ lastSync'[s] \in Nat
  BY <1>3, FinishForward, CoreFacts
<1>4. ASSUME NEW s \in E \cap Core, NEW a \in Adapter, NEW x \in Block,
             LevelOf[UnitOf(s)] < LevelOf[UnitOf(a)], Active(s)', Total(a, x)' > 0
      PROVE  x <= Front(s, lastSync)'
  <2>1. s \in Adapter /\ lastSync[s] \in Nat /\ x \in Nat
    BY CoreFacts, Values, ConstantFacts DEF IInv
  <2>2. x <= Front(s, lastSync)
    BY <1>2, <1>3, <1>4 DEF FrontInv
  <2>3. /\ Front(s, lastSync) <= Front(s, lastSync') /\ Front(s, lastSync) \in Nat
        /\ Front(s, lastSync') \in Nat
    BY <1>3, <1>4, <2>1, FrontFacts
  <2>4. Front(s, lastSync)' = Front(s, lastSync')
    BY DEF Front
  <2> QED BY <2>1, <2>2, <2>3, <2>4
<1>5. ASSUME NEW s \in E \cap Core, NEW a \in Adapter, NEW x \in Block,
             LevelOf[UnitOf(s)] < LevelOf[UnitOf(a)], (s \in DbActive)', dbApplied'[a][x] > 0
      PROVE  x <= Front(s, dbLastSync)'
  BY <1>1, <1>5 DEF FrontInv, Front, DbActive, db
<1> QED BY <1>4, <1>5 DEF FrontInv

\* Nothing is in memory or database when an empty database is started from.
LEMMA ScratchEmpty ==
    ASSUME IInv, StartFromScratch
    PROVE  /\ \A a \in Adapter, x \in Block : dbApplied[a][x] = 0 /\ pending'[a][x] = 0
           /\ pc' # "debt" /\ UNCHANGED db /\ DbActive = {} /\ dbKnown = {}
<1>1. dbKnown = {} /\ DbActive = {} /\ UNCHANGED db /\ pc' # "debt"
  BY DEF StartFromScratch, IInv, RegisteredInv, DbActive
<1> QED BY <1>1 DEF StartFromScratch, IInv, DbCountInv, Nothing

\* A step that neither moves an adapter nor adds a log.
LEMMA TotalKept ==
    ASSUME IInv, \/ Flush \/ CalculateDebtAndClear
    PROVE  /\ \A a \in Adapter, x \in Block : Total(a, x)' = Total(a, x)
           /\ UNCHANGED <<known, lastSync, disableOn, disabled>>
<1>0. \A a \in Adapter, x \in Block : pending[a][x] \in Nat /\ dbApplied[a][x] \in Nat
  BY Values DEF IInv
<1>1. CASE Flush
  BY <1>0, <1>1 DEF Flush, Total, memory
<1>2. CASE CalculateDebtAndClear
  <2>1. /\ pc = "debt" /\ pc' # "debt" /\ UNCHANGED <<known, lastSync, disableOn, disabled, db>>
        /\ \A a \in Adapter, x \in Block : pending'[a][x] = 0
    BY <1>2 DEF CalculateDebtAndClear, IInv, TypeOK, ControlType, Nothing
  <2> QED BY <1>0, <2>1 DEF Total, db
<1> QED BY <1>1, <1>2

LEMMA QuietTotal ==
    ASSUME UNCHANGED <<pending, db>>, pc' = "debt" <=> pc = "debt"
    PROVE  \A a \in Adapter, x \in Block : Total(a, x)' = Total(a, x)
BY DEF Total, db

\* Every other step leaves the adapters and their logs alone.
LEMMA OtherSteps ==
    ASSUME IInv,
           \/ NewBlock \/ BatchRound \/ LiveRound \/ EndIteration \/ EndLevel \/ UNCHANGED vars
           \/ \E u \in Unit : LaunchNext(u) \/ StartModel(u)
    PROVE  /\ UNCHANGED <<memory, db>> /\ (pc' = "debt" <=> pc = "debt")
           /\ \A a \in Adapter, x \in Block : Total(a, x)' = Total(a, x)
<1>1. UNCHANGED <<memory, db>> /\ (pc' = "debt" <=> pc = "debt")
  BY DEF NewBlock, BatchRound, LiveRound, BeginRound, EndIteration, EndLevel, LaunchNext,
         StartModel, vars
<1> QED BY <1>1, QuietTotal DEF memory

LEMMA NextFront ==
    ASSUME NEW E, ReplacedInTime(E), ResyncIsLocal, IInv, FrontInv(E), [Next]_vars
    PROVE  FrontInv(E)'
<1>1. CASE StartFromScratch
  <2>1. \A a \in Adapter, x \in Block : ~(Total(a, x)' > 0)
    BY <1>1, ScratchEmpty DEF Total, db
  <2>2. DbActive' = {}
    BY <1>1, ScratchEmpty DEF DbActive, db
  <2> QED BY <2>1, <2>2 DEF FrontInv
<1>2. CASE StartFromDb
  <2>1. /\ \A a \in Adapter, x \in Block : Total(a, x)' = dbApplied[a][x]
        /\ UNCHANGED db /\ lastSync' = dbLastSync
        /\ \A s \in Adapter : Active(s)' => s \in DbActive
    <3>1. \A a \in Adapter, x \in Block : dbApplied[a][x] \in Nat
      BY Values DEF IInv
    <3> QED BY <1>2, <3>1 DEF StartFromDb, Total, Nothing, Active, DbActive, db
  <2>2. Core \subseteq Adapter
    BY CoreFacts
  <2> QED BY <2>1, <2>2 DEF FrontInv, Front, DbActive, db
<1>3. CASE Crash
  <2>1. known' = {} /\ UNCHANGED db
    BY <1>3 DEF Crash
  <2> QED BY <2>1 DEF FrontInv, Front, DbActive, Active, db
<1>4. ASSUME NEW c \in Adapter, Resync(c) PROVE FrontInv(E)'
  <2>1. c \notin Core /\ pc = "down" /\ known = {}
    BY <1>4 DEF Resync, Core, IInv, JobInv
  <2>2. /\ known' = {} /\ DbActive' = DbActive
        /\ \A s \in Core : dbLastSync'[s] = dbLastSync[s]
    BY <1>4, <2>1, CoreFacts DEF Resync, DbActive, memory, IInv, TypeOK, DbType
  <2>3. \A a \in Adapter, x \in Block : dbApplied'[a][x] > 0 => dbApplied[a][x] > 0
    BY <1>4 DEF Resync, IInv, TypeOK, DbType
  <2> QED BY <2>2, <2>3 DEF FrontInv, Front, Active
<1>5. CASE Flush
  <2>1. /\ \A a \in Adapter, x \in Block : Total(a, x)' = Total(a, x) /\ dbApplied'[a][x] = Total(a, x)
        /\ UNCHANGED <<known, lastSync, disabled>>
    <3>1. \A a \in Adapter, x \in Block : dbApplied'[a][x] = Total(a, x)
      BY <1>5 DEF Flush, Total
    <3> QED BY <1>5, <3>1, TotalKept
  <2>2. ASSUME NEW s \in Core, (s \in DbActive)' PROVE Active(s) /\ dbLastSync'[s] = lastSync[s]
    <3>1. DbActive \subseteq known /\ s \in Adapter
      BY <1>5, CoreFacts DEF Flush, IInv, RegisteredInv
    <3> QED BY <1>5, <2>2, <3>1 DEF Flush, DbActive, Active
  <2> QED BY <2>1, <2>2 DEF FrontInv, Front, Active
<1>6. CASE CalculateDebtAndClear
  <2>1. UNCHANGED <<known, lastSync, disabled, db>>
    BY <1>6 DEF CalculateDebtAndClear
  <2> QED BY <1>6, <2>1, TotalKept DEF FrontInv, Front, DbActive, Active, db
<1>7. CASE \/ NewBlock \/ BatchRound \/ LiveRound \/ EndIteration \/ EndLevel \/ UNCHANGED vars
           \/ \E u \in Unit : LaunchNext(u) \/ StartModel(u)
  <2>1. UNCHANGED <<memory, db>> /\ \A a \in Adapter, x \in Block : Total(a, x)' = Total(a, x)
    BY <1>7, OtherSteps
  <2> QED BY <2>1 DEF FrontInv, Front, DbActive, Active, memory, db
<1>8. ASSUME NEW u \in Unit, ApplyBlock(u) \/ FinishModel(u) PROVE FrontInv(E)'
  BY <1>8, ApplyBlockFront, FinishModelFront
<1> QED BY <1>1, <1>2, <1>3, <1>4, <1>5, <1>6, <1>7, <1>8 DEF Next, EngineStep

LEMMA ApplyBlockStop ==
    ASSUME NEW E, ReplacedInTime(E), ResyncIsLocal, IInv, FrontInv(E), StopInv,
           NEW u \in Unit, ApplyBlock(u)
    PROVE  StopInv'
<1> DEFINE R == Receivers(u, pos[u])
           New == Named(u)
<1>1. /\ pc \notin {"down", "flush", "debt"} /\ UNCHANGED <<pc, db>> /\ pos[u] \in Nat
      /\ \A a \in R : /\ a \in Adapter /\ UnitOf(a) = u /\ Active(a)
                      /\ disableOn[a] # 0 /\ a \in Plain => pos[u] <= disableOn[a]
      /\ \A n \in New : n \notin known /\ n \notin dbKnown /\ n \in Adapter
      /\ known' = known \cup New
      /\ \A a \in Adapter : /\ a \in New => disableOn'[a] = 0
                            /\ disableOn'[a] # disableOn[a] =>
                                 \/ a \in New
                                 \/ disableOn'[a] = pos[u] /\ \E n \in New : a \in Supersedes[n]
      /\ \A a \in Adapter, x \in Block :
           /\ pending'[a][x] = IF a \in R /\ x = pos[u] THEN pending[a][x] + 1 ELSE pending[a][x]
           /\ Total(a, x)' = IF a \in R /\ x = pos[u] THEN Total(a, x) + 1 ELSE Total(a, x)
  BY ApplyBlockFacts
<1>2. \A n \in New : n \in Discovered /\ AddedBy[n] \in R /\ AddedAt[n] = pos[u]
  BY DEF Named
<1>t. /\ known \subseteq Adapter
      /\ \A a \in Adapter, x \in Block : Total(a, x) \in Nat
  BY Values DEF IInv, Total, TypeOK, MemoryType
<1> HIDE DEF R, New
<1>3. \A a \in Adapter \ known', x \in Block : pending'[a][x] = 0
  BY <1>1 DEF StopInv, Active
<1>4. ASSUME NEW a \in Adapter \ Plain PROVE disableOn'[a] = 0 /\ dbDisableOn'[a] = 0
  <2>1. disableOn[a] = 0 /\ dbDisableOn'[a] = 0
    BY <1>1 DEF StopInv, db
  <2>2. \A n \in New : a \notin Supersedes[n]
    BY <1>2 DEF ReplacedInTime
  <2> QED BY <1>1, <2>1, <2>2
<1>5. ASSUME Unrotated', NEW a \in known', NEW x \in Block, disableOn'[a] # 0, Total(a, x)' > 0
      PROVE  x <= disableOn'[a]
  <2>0. Unrotated /\ a \in Adapter /\ a \notin New /\ a \in known
    BY <1>1, <1>5, <1>t DEF Unrotated, db
  <2>1. CASE disableOn'[a] = disableOn[a]
    <3>1. CASE a \in R /\ x = pos[u]
      <4>1. a \in Plain
        BY <1>5, <2>0, <2>1 DEF StopInv
      <4> QED BY <1>1, <1>5, <2>1, <3>1, <4>1
    <3>2. CASE ~(a \in R /\ x = pos[u])
      <4>1. Total(a, x) > 0
        BY <1>1, <1>5, <2>0, <3>2
      <4> QED BY <1>5, <2>0, <2>1, <4>1 DEF StopInv
    <3> QED BY <3>1, <3>2
  <2>2. CASE disableOn'[a] # disableOn[a]
    <3>1. PICK n \in New : disableOn'[a] = pos[u] /\ a \in Supersedes[n]
      BY <1>1, <2>0, <2>2
    <3>2. n \in Discovered /\ AddedBy[n] \in R /\ AddedAt[n] = pos[u] /\ Supersedes[n] # {}
      BY <1>2, <3>1
    <3>3. LevelOf[u] < LevelOf[UnitOf(a)]
      BY <1>1, <3>1, <3>2, ConstantFacts
    <3>4. a \notin R
      BY <1>1, <3>3, ConstantFacts
    <3>5. Total(a, x) > 0
      BY <1>1, <1>5, <2>0, <3>4
    <3>6. x <= pos[u] - 1
      BY <2>0, <3>2, <3>3, <3>5, NamedInTime DEF R
    <3>7. x \in Nat
      BY ConstantFacts
    <3> QED BY <1>1, <3>1, <3>6, <3>7
  <2> QED BY <2>1, <2>2
<1>6. (\A f \in ViaHook : f \notin dbKnown') => StopsAtDisableBlock'
  BY <1>1 DEF StopInv, StopsAtDisableBlock, db
<1> QED BY <1>3, <1>4, <1>5, <1>6 DEF StopInv

LEMMA FinishModelStop ==
    ASSUME IInv, StopInv, NEW u \in Unit, FinishModel(u)
    PROVE  StopInv'
<1> DEFINE h == Least(BlockToDisableOn(u), upto[u])
           New == IF u \in Wrapper THEN {} ELSE Rotated(u, h)
           Fin == ActiveMembers(u)
<1>0. AfterSyncHook(Fin, h, New) /\ UNCHANGED <<pc, pending, db>>
  BY DEF FinishModel
<1>1. /\ known' = known \cup New /\ New \subseteq ViaHook
      /\ ViaHook \subseteq Plain /\ ViaHook \subseteq Adapter
      /\ New # {} => Fin = {u} /\ u \in Plain
  BY <1>0, UnitFacts, AdapterAssumption, Applying DEF AfterSyncHook, Rotated, FinishModel, Plain
<1> HIDE DEF h, New, Fin
<1>2. \A a \in Adapter : a \notin New /\ (New = {} \/ a \notin Fin) => disableOn'[a] = disableOn[a]
  BY <1>0 DEF AfterSyncHook
<1>3. \A a \in Adapter, x \in Block : Total(a, x)' = Total(a, x)
  BY <1>0, QuietTotal
<1>4. \A a \in Adapter \ Plain : disableOn'[a] = 0 /\ dbDisableOn'[a] = 0
  BY <1>0, <1>1, <1>2 DEF StopInv, db
<1>5. ASSUME Unrotated', NEW a \in known', NEW x \in Block, disableOn'[a] # 0, Total(a, x)' > 0
      PROVE  x <= disableOn'[a]
  <2>1. New = {} /\ Unrotated
    BY <1>0, <1>1, <1>5 DEF Unrotated, db
  <2>2. a \in known /\ a \in Adapter
    BY <1>1, <2>1 DEF IInv, TypeOK, MemoryType
  <2> QED BY <1>2, <1>3, <1>5, <2>1, <2>2 DEF StopInv
<1>6. \A a \in Adapter \ known', x \in Block : pending'[a][x] = 0
  BY <1>0, <1>1 DEF StopInv
<1>7. (\A f \in ViaHook : f \notin dbKnown') => StopsAtDisableBlock'
  BY <1>0 DEF StopInv, StopsAtDisableBlock, db
<1> QED BY <1>4, <1>5, <1>6, <1>7 DEF StopInv

LEMMA FlushStop == ASSUME IInv, StopInv, Flush PROVE StopInv'
<1>1. /\ pc = "flush" /\ UNCHANGED <<known, pending, disableOn>> /\ dbKnown' = dbKnown \cup known
      /\ \A a \in Adapter :
           /\ dbDisableOn'[a] = IF a \in known THEN disableOn[a] ELSE dbDisableOn[a]
           /\ \A x \in Block : dbApplied'[a][x] = dbApplied[a][x] + pending[a][x]
  BY DEF Flush, memory
<1>2. \A a \in Adapter, x \in Block : /\ dbApplied'[a][x] = Total(a, x)
                                      /\ Total(a, x)' = Total(a, x)
                                      /\ dbApplied[a][x] \in Nat
  BY <1>1, TotalKept, Values DEF Total, IInv
<1>3. known \subseteq Adapter /\ dbKnown \subseteq Adapter
  BY DEF IInv, TypeOK, MemoryType, DbType
<1>4. ASSUME \A f \in ViaHook : f \notin dbKnown', NEW a \in dbKnown', NEW x \in Block,
             dbApplied'[a][x] > 0, dbDisableOn'[a] # 0
      PROVE  x <= dbDisableOn'[a]
  <2>1. Unrotated
    BY <1>1, <1>4 DEF Unrotated
  <2>2. CASE a \in known
    BY <1>1, <1>2, <1>3, <1>4, <2>1, <2>2 DEF StopInv
  <2>3. CASE a \notin known
    <3>1. pending[a][x] = 0 /\ a \in dbKnown /\ a \in Adapter
      BY <1>1, <1>3, <1>4, <2>3 DEF StopInv
    <3>2. dbApplied[a][x] > 0 /\ dbDisableOn'[a] = dbDisableOn[a]
      BY <1>1, <1>2, <1>4, <2>3, <3>1
    <3> QED BY <1>4, <2>1, <3>1, <3>2 DEF StopInv, StopsAtDisableBlock, Unrotated
  <2> QED BY <2>2, <2>3
<1>5. Unrotated' => Unrotated
  BY <1>1 DEF Unrotated
<1>6. \A a \in Adapter \ Plain : disableOn'[a] = 0 /\ dbDisableOn'[a] = 0
  BY <1>1 DEF StopInv
<1> QED BY <1>1, <1>2, <1>3, <1>4, <1>5, <1>6 DEF StopInv, StopsAtDisableBlock

LEMMA NextStop ==
    ASSUME NEW E, ReplacedInTime(E), ResyncIsLocal, IInv, FrontInv(E), StopInv, [Next]_vars
    PROVE  StopInv'
<1>t. known \subseteq Adapter /\ dbKnown \subseteq Adapter
  BY DEF IInv, TypeOK, MemoryType, DbType
<1>1. CASE StartFromScratch
  <2>1. \A a \in Adapter, x \in Block : pending'[a][x] = 0
    BY <1>1, ScratchEmpty
  <2>2. /\ \A a \in Adapter : disableOn'[a] = 0
        /\ known' \subseteq Adapter /\ dbKnown' = {} /\ dbDisableOn' = dbDisableOn
    BY <1>1, ScratchEmpty, ConstantFacts DEF StartFromScratch, db
  <2> QED BY <2>1, <2>2 DEF StopInv, StopsAtDisableBlock
<1>2. CASE StartFromDb
  <2>1. /\ \A a \in Adapter, x \in Block : pending'[a][x] = 0 /\ Total(a, x)' = dbApplied[a][x]
        /\ UNCHANGED db /\ disableOn' = dbDisableOn /\ known' \subseteq dbKnown
    <3>1. \A a \in Adapter, x \in Block : dbApplied[a][x] \in Nat
      BY Values DEF IInv
    <3> QED BY <1>2, <3>1 DEF StartFromDb, Total, Nothing, db
  <2>2. Unrotated' => \A f \in ViaHook : f \notin dbKnown
    BY <2>1 DEF Unrotated, db
  <2> QED BY <1>t, <2>1, <2>2 DEF StopInv, StopsAtDisableBlock, db
<1>3. CASE Crash
  <2>1. /\ known' = {} /\ UNCHANGED <<db, disableOn>>
        /\ \A a \in Adapter, x \in Block : pending'[a][x] = 0
    BY <1>3 DEF Crash, Nothing
  <2> QED BY <2>1 DEF StopInv, StopsAtDisableBlock, db
<1>4. ASSUME NEW c \in Adapter, Resync(c) PROVE StopInv'
  <2>1. /\ known = {} /\ UNCHANGED <<known, pending, disableOn, dbKnown, dbDisableOn>>
    BY <1>4 DEF Resync, IInv, JobInv, memory
  <2>2. \A a \in Adapter, x \in Block : dbApplied'[a][x] > 0 => dbApplied[a][x] > 0
    BY <1>4 DEF Resync, IInv, TypeOK, DbType
  <2> QED BY <1>t, <2>1, <2>2 DEF StopInv, StopsAtDisableBlock
<1>5. CASE CalculateDebtAndClear
  <2>1. /\ UNCHANGED <<known, disableOn, db>>
        /\ \A a \in Adapter, x \in Block : pending'[a][x] = 0 /\ Total(a, x)' = Total(a, x)
    BY <1>5, TotalKept DEF CalculateDebtAndClear, Nothing
  <2> QED BY <1>t, <2>1 DEF StopInv, StopsAtDisableBlock, Unrotated, db
<1>6. CASE \/ NewBlock \/ BatchRound \/ LiveRound \/ EndIteration \/ EndLevel \/ UNCHANGED vars
           \/ \E u \in Unit : LaunchNext(u) \/ StartModel(u)
  <2>1. UNCHANGED <<memory, db>> /\ \A a \in Adapter, x \in Block : Total(a, x)' = Total(a, x)
    BY <1>6, OtherSteps
  <2> QED BY <1>t, <2>1 DEF StopInv, StopsAtDisableBlock, Unrotated, memory, db
<1>7. ASSUME NEW u \in Unit, ApplyBlock(u) \/ FinishModel(u) PROVE StopInv'
  BY <1>7, ApplyBlockStop, FinishModelStop
<1> QED BY <1>1, <1>2, <1>3, <1>4, <1>5, <1>6, <1>7, FlushStop DEF Next, EngineStep

(***************************************************************************)
(* No log above the block an adapter is to be disabled on is committed, as *)
(* SetBlockToDisableOn promises, for adapters scheduled by themselves that *)
(* are replaced in time and until a feed is rotated.                       *)
(***************************************************************************)
THEOREM ReplacedAdaptersStop ==
    ASSUME NEW E, ReplacedInTime(E), ResyncIsLocal
    PROVE  Spec => [](Unrotated => StopsAtDisableBlock)
<1>1. Init => IInv /\ FrontInv(E) /\ StopInv
  <2> SUFFICES ASSUME Init PROVE IInv /\ FrontInv(E) /\ StopInv
    OBVIOUS
  <2>1. /\ known = {} /\ dbKnown = {} /\ DbActive = {}
        /\ \A a \in Adapter : disableOn[a] = 0 /\ dbDisableOn[a] = 0
        /\ \A a \in Adapter, x \in Block : pending[a][x] = 0
    BY DEF Init, DbActive, Nothing
  <2>2. FrontInv(E)
    BY <2>1 DEF FrontInv, Active
  <2>3. StopInv
    BY <2>1 DEF StopInv, StopsAtDisableBlock
  <2> QED BY <2>2, <2>3, InitIInv
<1>2. IInv /\ FrontInv(E) /\ StopInv /\ [Next]_vars => (IInv /\ FrontInv(E) /\ StopInv)'
  BY NextIInv, NextFront, NextStop
<1>3. StopInv => (Unrotated => StopsAtDisableBlock)
  BY DEF StopInv, Unrotated
<1> QED BY <1>1, <1>2, <1>3, PTL DEF Spec
===============================================================================
