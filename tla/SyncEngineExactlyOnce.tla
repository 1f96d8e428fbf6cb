------------------------ MODULE SyncEngineExactlyOnce ------------------------
(***************************************************************************)
(* That SyncEngine commits every log exactly once, together with the       *)
(* adapters it registers, for every set of adapters, every topology the    *)
(* assumptions allow, every chain length, batch size and number of         *)
(* crashes.  Neither property is inductive: they say nothing about memory. *)
(* IInv adds what is in memory, how far the goroutines are, and that the   *)
(* adapters move together.                                                 *)
(***************************************************************************)
EXTENDS SyncEngineProofs

\* Resetting an adapter is local when it is scheduled by itself and registers
\* no other adapter; MCSync_resync shows what goes wrong otherwise.
ResyncIsLocal ==
    /\ Resyncable \subseteq Plain \ Seed
    /\ \A n \in Discovered : AddedBy[n] \notin Resyncable

\* The adapters that never lag behind a round: not the rotated feeds, which
\* may miss the round that finds them, nor the ones an operator resets.
Core == Adapter \ (ViaHook \cup Resyncable)

\* The adapters that are synced to the target of every round: not the rotated
\* feeds, which the hook may find after their level.
Timely == Adapter \ ViaHook

Most(x, y) == IF x <= y THEN y ELSE x

\* The last block whose logs the adapter has seen in memory.
Cursor(a) ==
    IF phase[UnitOf(a)] = "apply" /\ a \in addrs[UnitOf(a)]
    THEN Most(lastSync[a], pos[UnitOf(a)] - 1)
    ELSE lastSync[a]

\* How often a log is in the database or about to be.
Total(a, b) == dbApplied[a][b] + IF pc = "debt" THEN 0 ELSE pending[a][b]

Due(a, b, upTo) == IF FirstLogAt[a] <= b /\ b <= upTo THEN 1 ELSE 0

Active(a) == a \in known /\ ~disabled[a]

InRound == pc \in {"iterate", "wait"}

\* Nothing is ahead of the chain.
HeadInv ==
    /\ FirstLogAt[Root] <= head /\ latest <= head /\ till <= head
    /\ \A a \in Adapter : lastSync[a] <= head /\ dbLastSync[a] <= head
    /\ \A a \in known \cup dbKnown : FirstLogAt[a] <= head

\* What a running goroutine may rely on.
JobInv ==
    /\ pc = "down" => known = {}
    /\ \A u \in seen : LevelOf[u] = lvl
    /\ \A u \in Unit : phase[u] # "idle" =>
         /\ InRound /\ u \in seen
         /\ u \in Plain => Active(u)
    /\ \A u \in Unit : phase[u] = "apply" =>
         /\ addrs[u] = ActiveMembers(u)
         /\ upto[u] = Least(BlockToDisableOn(u), till)
         /\ GetLastSync(u) < till /\ GetLastSync(u) < pos[u]
         /\ pos[u] <= upto[u] + 1 \/ pos[u] = GetLastSync(u) + 1

\* The logs in memory and database are exactly the ones up to the cursor.
CountInv ==
    /\ \A a \in Adapter, b \in Block : Total(a, b) <= 1
    /\ \A a \in Adapter : Active(a) =>
         /\ FirstLogAt[a] - 1 <= lastSync[a]
         /\ \A b \in Block : Total(a, b) = Due(a, b, Cursor(a))
    /\ \A a \in Adapter \ (known \cup dbKnown), b \in Block : pending[a][b] = 0
    /\ pc = "down" => pending = Nothing

DbCountInv ==
    /\ \A a \in Adapter \ dbKnown, b \in Block : dbApplied[a][b] = 0
    /\ \A a \in DbActive :
         /\ FirstLogAt[a] - 1 <= dbLastSync[a]
         /\ \A b \in Block : dbApplied[a][b] = Due(a, b, dbLastSync[a])

\* An adapter is registered by the log that names it and that log is not seen
\* again.
RegisteredInv ==
    /\ \A n \in Discovered : n \in known \cup dbKnown =>
         /\ AddedBy[n] \in known \cup dbKnown
         /\ Active(AddedBy[n]) => AddedAt[n] <= Cursor(AddedBy[n])
    /\ \A n \in Discovered : n \in dbKnown =>
         /\ AddedBy[n] \in dbKnown
         /\ AddedBy[n] \in DbActive => AddedAt[n] <= dbLastSync[AddedBy[n]]
    /\ dbKnown = {} \/ Root \in dbKnown
    /\ pc # "down" => (Root \in dbKnown \/ Root \in known) /\ DbActive \subseteq known

\* The converse: the log that names an adapter has registered it.
FoundInv ==
    /\ \A n \in Discovered :
         /\ AddedBy[n] \in known
         /\ FirstLogAt[AddedBy[n]] <= AddedAt[n] /\ AddedAt[n] <= Cursor(AddedBy[n])
         => n \in known \cup dbKnown
    /\ NothingForgotten

\* The core adapters move together, so that a wrapper never sets an adapter
\* back to a block it has passed.
TogetherInv ==
    /\ \A s, a \in Core \cap DbActive : dbLastSync[s] = dbLastSync[a]
    /\ \A s, a \in Core : Active(s) /\ Active(a) => lastSync[a] <= Most(till, lastSync[s])
    /\ \A w \in Wrapper : \A a \in ActiveMembers(w) :
         wrapperSync[w] <= lastSync[a] /\ lastSync[a] <= Most(wrapperSync[w], till)

\* What the level barrier gives: the adapters the round is done with have
\* reached its target.
BarrierInv ==
    /\ pc = "wait" => \A a \in Timely \cap known : LevelOf[UnitOf(a)] = lvl => UnitOf(a) \in seen
    /\ pc \in {"flush", "debt"} => \A a \in Timely : Active(a) => till <= lastSync[a]
    /\ InRound => \A a \in Timely : Active(a) =>
         \/ till <= lastSync[a]
         \/ LevelOf[UnitOf(a)] > lvl
         \/ LevelOf[UnitOf(a)] = lvl /\ (UnitOf(a) \notin seen \/ phase[UnitOf(a)] # "idle")

IInv ==
    /\ TypeOK
    /\ HeadInv
    /\ JobInv
    /\ CountInv
    /\ DbCountInv
    /\ RegisteredInv
    /\ FoundInv
    /\ TogetherInv
    /\ BarrierInv
-----------------------------------------------------------------------------
(***************************************************************************)
(* Facts about the constants and the operators                             *)
(***************************************************************************)

LEMMA CoreFacts ==
    ASSUME ResyncIsLocal
    PROVE  /\ \A w \in Wrapper : \A a \in Members(w) : a \in Core
           /\ \A n \in Discovered : AddedBy[n] \in Core
           /\ Core \subseteq Adapter /\ Core \subseteq Timely /\ Timely \subseteq Adapter
           /\ \A n \in ViaHook : n \in Plain /\ n \in Adapter
           /\ \A n \in ViaHook : n \notin Core /\ n \notin Discovered
BY UnitFacts, AdapterAssumption, DiscoveryAssumption
   DEF ResyncIsLocal, Core, Timely, Discovered, Unit

LEMMA ConstantFacts ==
    /\ \A b \in Block : b \in Nat /\ b >= 1
    /\ \A a \in Adapter : /\ FirstLogAt[a] \in Block /\ AddedAt[a] \in Block
                          /\ FirstLogAt[a] <= AddedAt[a]
    /\ \A u \in Unit : LevelOf[u] \in Nat /\ LevelOf[u] <= MaxLevel
    /\ \A n \in Discovered : AddedBy[n] \in Adapter /\ n \in Adapter
    /\ \A n \in Discovered : \A o \in {n} \cup Supersedes[n] :
         LevelOf[UnitOf(AddedBy[n])] < LevelOf[UnitOf(o)]
    /\ Root \in Seed /\ Seed \subseteq Adapter /\ Seed \subseteq Plain
    /\ Wrapper \subseteq Unit
<1>1. \A b \in Block : b \in Nat /\ b >= 1
  BY BoundsAssumption DEF Block
<1>2. \A u \in Unit : LevelOf[u] \in Nat /\ LevelOf[u] <= MaxLevel
  BY BoundsAssumption, AdapterAssumption
<1>3. Seed \subseteq Adapter /\ Seed \subseteq Plain /\ Root \in Seed
  BY SeedAssumption, UnitFacts
<1> QED BY <1>1, <1>2, <1>3, AdapterAssumption, DiscoveryAssumption
      DEF Discovered, Unit

\* What the type invariant says of single values.
LEMMA Values ==
    ASSUME TypeOK
    PROVE  /\ head \in Nat /\ latest \in Nat /\ till \in Nat /\ lvl \in Nat
           /\ till <= MaxBlock /\ lvl <= MaxLevel /\ MaxLevel \in Nat
           /\ \A a \in Adapter : /\ lastSync[a] \in Nat /\ dbLastSync[a] \in Nat
                                 /\ disableOn[a] \in Nat
           /\ \A a \in Adapter, b \in Block : pending[a][b] \in Nat /\ dbApplied[a][b] \in Nat
           /\ \A w \in Wrapper : wrapperSync[w] \in Nat
           /\ \A u \in Unit : /\ pos[u] \in Nat /\ upto[u] \in Nat
                              /\ GetLastSync(u) \in Nat /\ BlockToDisableOn(u) \in Nat
<1>1. /\ \A x \in Height : x \in Nat /\ x <= MaxBlock
      /\ \A x \in SyncPoint : x \in Nat
  BY BoundsAssumption DEF Height, SyncPoint, Never
<1>2. head \in Nat /\ lvl \in Nat /\ lvl <= MaxLevel /\ MaxLevel \in Nat
  BY BoundsAssumption, ConstantFacts DEF TypeOK, ControlType
<1>3. \A u \in Unit : GetLastSync(u) \in Nat /\ BlockToDisableOn(u) \in Nat
  BY <1>1, UnitTypes
<1> QED BY <1>1, <1>2, <1>3 DEF TypeOK, ControlType, JobType, MemoryType, DbType

LEMMA MostFacts ==
    \A x, y, z \in Nat :
        /\ Most(x, y) \in Nat /\ x <= Most(x, y) /\ y <= Most(x, y)
        /\ y <= z => Most(y, x) <= Most(z, x) /\ Most(x, y) <= Most(x, z)
BY DEF Most

\* Once no goroutine runs a cursor is the adapter's last sync.
LEMMA QuietCursor ==
    ASSUME NEW a \in Adapter, \A u \in Unit : phase[u] = "idle"
    PROVE  Cursor(a) = lastSync[a]
BY UnitFacts DEF Cursor

\* Outside of a round no goroutine runs.
LEMMA Quiet ==
    ASSUME JobInv, JobType, ~InRound
    PROVE  \A u \in Unit : phase[u] = "idle"
BY DEF JobInv, InRound

LEMMA NothingDue ==
    ASSUME NEW a \in Adapter, NEW b \in Block
    PROVE  Due(a, b, FirstLogAt[a] - 1) = 0
BY ConstantFacts DEF Due

-----------------------------------------------------------------------------
(***************************************************************************)
(* The process is down: it starts, it is killed, an adapter is reset       *)
(***************************************************************************)

LEMMA InitIInv == ASSUME Init PROVE IInv
<1>1. TypeOK
  BY InitType
<1>2. HeadInv
  BY ConstantFacts, Values, <1>1 DEF Init, HeadInv
<1>3. JobInv
  BY DEF Init, JobInv
<1>4. CountInv
  BY DEF Init, CountInv, Active, Total, Nothing
<1>5. DbCountInv
  BY DEF Init, DbCountInv, DbActive, Nothing
<1>6. RegisteredInv /\ TogetherInv /\ BarrierInv
  BY DEF Init, RegisteredInv, TogetherInv, BarrierInv, Active, ActiveMembers, DbActive,
         InRound
<1>f0. FoundInv
  BY DEF Init, FoundInv, NothingForgotten
<1> QED BY <1>f0, <1>1, <1>2, <1>3, <1>4, <1>5, <1>6 DEF IInv

LEMMA NewBlockIInv == ASSUME IInv, NewBlock PROVE IInv'
<1>1. TypeOK'
  BY RoundType DEF IInv
<1>2. HeadInv'
  <2>1. head \in Nat /\ head' = head + 1
    BY Values DEF IInv, NewBlock
  <2>2. /\ FirstLogAt[Root] \in Nat /\ latest \in Nat /\ till \in Nat
        /\ \A a \in Adapter : lastSync[a] \in Nat /\ dbLastSync[a] \in Nat /\ FirstLogAt[a] \in Nat
        /\ known \cup dbKnown \subseteq Adapter
    BY Values, ConstantFacts DEF IInv, TypeOK, MemoryType, DbType
  <2> QED BY <2>1, <2>2 DEF IInv, HeadInv, NewBlock, control, memory, db
<1>3. JobInv' /\ CountInv' /\ DbCountInv'
  BY DEF IInv, NewBlock, JobInv, CountInv, DbCountInv, control, jobs, memory, db,
         InRound, Active, ActiveMembers, BlockToDisableOn, GetLastSync, Total, Cursor,
         DbActive
<1>4. RegisteredInv' /\ TogetherInv' /\ BarrierInv'
  BY DEF IInv, NewBlock, RegisteredInv, TogetherInv, BarrierInv, control, jobs, memory,
         db, InRound, Active, ActiveMembers, Cursor, DbActive
<1>f0. FoundInv'
  BY DEF IInv, NewBlock, FoundInv, NothingForgotten, jobs, memory, db, Cursor
<1> QED BY <1>f0, <1>1, <1>2, <1>3, <1>4 DEF IInv

LEMMA CrashIInv == ASSUME IInv, Crash PROVE IInv'
<1>1. TypeOK'
  BY CrashType DEF IInv
<1>2. HeadInv'
  BY DEF IInv, HeadInv, Crash, db
<1>3. JobInv'
  BY DEF JobInv, Crash, NoJobs
<1>4. CountInv'
  <2>1. \A a \in Adapter, b \in Block : dbApplied[a][b] <= 1
    <3> SUFFICES ASSUME NEW a \in Adapter, NEW b \in Block PROVE dbApplied[a][b] <= 1
      OBVIOUS
    <3>1. Total(a, b) <= 1
      BY DEF IInv, CountInv
    <3> QED BY <3>1, Values DEF IInv, Total
  <2> QED BY <2>1, Values DEF IInv, CountInv, Crash, Nothing, Active, Total, db
<1>5. DbCountInv'
  BY DEF IInv, DbCountInv, DbActive, Crash, db
<1>6. RegisteredInv'
  BY DEF IInv, RegisteredInv, Active, DbActive, Crash, db
<1>7. TogetherInv'
  BY DEF IInv, TogetherInv, Active, ActiveMembers, DbActive, Crash, db
<1>8. BarrierInv'
  BY DEF BarrierInv, InRound, Crash
<1>f0. FoundInv'
  BY DEF IInv, FoundInv, NothingForgotten, Crash, db
<1> QED BY <1>f0, <1>1, <1>2, <1>3, <1>4, <1>5, <1>6, <1>7, <1>8 DEF IInv

LEMMA ResyncIInv ==
    ASSUME ResyncIsLocal, IInv, NEW r \in Adapter, Resync(r)
    PROVE  IInv'
<1>0. /\ r \in dbKnown /\ r \in Resyncable /\ r \notin Core
      /\ pc = "down" /\ pc' = pc /\ known = {} /\ known' = known /\ pending = Nothing
      /\ \A a \in Adapter : dbLastSync'[a] = IF a = r THEN FirstLogAt[a] - 1 ELSE dbLastSync[a]
      /\ \A a \in Adapter, b \in Block :
           dbApplied'[a][b] = IF a = r THEN 0 ELSE dbApplied[a][b]
      /\ DbActive' = DbActive /\ DbActive \subseteq dbKnown /\ dbKnown \subseteq Adapter
      /\ dbKnown' = dbKnown
  BY DEF Resync, IInv, JobInv, CountInv, TypeOK, DbType, memory, DbActive, Core
<1>1. TypeOK'
  BY ResyncType DEF IInv
<1>2. HeadInv'
  <2>1. \A a \in Adapter : dbLastSync'[a] <= head
    BY <1>0, ConstantFacts, Values DEF IInv, HeadInv
  <2> QED BY <2>1, <1>0 DEF IInv, HeadInv, Resync, control, memory
<1>3. JobInv'
  BY DEF IInv, JobInv, Resync, control, jobs, memory, InRound, Active, ActiveMembers,
         BlockToDisableOn, GetLastSync
<1>4. CountInv'
  BY <1>0, Values DEF IInv, CountInv, Active, Total, Nothing, Resync, memory
<1>5. DbCountInv'
  BY <1>0, NothingDue, ConstantFacts DEF IInv, DbCountInv
<1>6. RegisteredInv'
  BY <1>0, ConstantFacts DEF IInv, RegisteredInv, Active, ResyncIsLocal
<1>7. TogetherInv'
  BY <1>0, CoreFacts DEF IInv, TogetherInv, Active, ActiveMembers
<1>8. BarrierInv'
  BY <1>0 DEF BarrierInv, InRound
<1>f0. FoundInv'
  BY <1>0, ConstantFacts DEF IInv, FoundInv, NothingForgotten, ResyncIsLocal
<1> QED BY <1>f0, <1>1, <1>2, <1>3, <1>4, <1>5, <1>6, <1>7, <1>8 DEF IInv

LEMMA ScratchIInv == ASSUME ResyncIsLocal, IInv, StartFromScratch PROVE IInv'
<1>0. /\ dbKnown = {} /\ dbKnown' = {} /\ DbActive = {} /\ DbActive' = {}
      /\ \A a \in Adapter, b \in Block : dbApplied'[a][b] = 0 /\ pending'[a][b] = 0
      /\ \A u \in Unit : phase'[u] = "idle"
      /\ pc' = "batch" /\ head' = head /\ latest' = head /\ known' = Seed
      /\ till' = FirstLogAt[Root] - 1
      /\ \A a \in Adapter : lastSync'[a] = IF a \in Seed THEN FirstLogAt[a] - 1 ELSE 0
      /\ dbLastSync' = dbLastSync
  BY DEF StartFromScratch, IInv, RegisteredInv, DbCountInv, DbActive, NoJobs, Nothing, db
<1>1. TypeOK'
  BY StartType DEF IInv
<1>2. HeadInv'
  <2>1. \A a \in Seed : FirstLogAt[a] <= FirstLogAt[Root]
    BY SeedAssumption
  <2>2. FirstLogAt[Root] <= head /\ \A a \in Adapter : dbLastSync[a] <= head
    BY DEF IInv, HeadInv
  <2> QED BY <1>0, <2>1, <2>2, ConstantFacts, Values DEF IInv, HeadInv
<1>3. JobInv'
  BY <1>0 DEF JobInv, StartFromScratch
<1>4. CountInv'
  <2>1. \A a \in Adapter : Cursor(a)' = lastSync'[a]
    BY <1>0, UnitFacts DEF Cursor
  <2>2. \A a \in Adapter, b \in Block : Total(a, b)' = 0
    BY <1>0 DEF Total
  <2>3. \A a \in Adapter, b \in Block : Due(a, b, FirstLogAt[a] - 1) = 0
    BY NothingDue
  <2>4. \A a \in Adapter : Active(a)' => lastSync'[a] = FirstLogAt[a] - 1
    BY <1>0 DEF Active
  <2> QED BY <1>0, <2>1, <2>2, <2>3, <2>4, ConstantFacts DEF CountInv, Nothing
<1>5. DbCountInv'
  BY <1>0 DEF DbCountInv
<1>6. RegisteredInv'
  BY <1>0, ConstantFacts DEF RegisteredInv, Discovered
<1>7. TogetherInv'
  <2>1. \A w \in Wrapper : ActiveMembers(w)' = {}
    BY <1>0, UnitFacts, ConstantFacts DEF ActiveMembers
  <2>2. \A s, a \in Core : Active(s)' /\ Active(a)' => lastSync'[a] <= Most(till', lastSync'[s])
    BY <1>0, ConstantFacts, CoreFacts, SeedAssumption DEF Active, Most
  <2> QED BY <1>0, <2>1, <2>2 DEF TogetherInv
<1>8. BarrierInv'
  BY <1>0 DEF BarrierInv, InRound
<1>f0. FoundInv'
  <2>1. \A a \in Seed : Cursor(a)' = FirstLogAt[a] - 1
    BY <1>0, UnitFacts, ConstantFacts DEF Cursor
  <2>2. \A a \in Adapter : FirstLogAt[a] \in Nat /\ AddedAt[a] \in Nat
    BY ConstantFacts
  <2> QED BY <1>0, <2>1, <2>2, ConstantFacts DEF FoundInv, NothingForgotten
<1> QED BY <1>f0, <1>1, <1>2, <1>3, <1>4, <1>5, <1>6, <1>7, <1>8 DEF IInv

LEMMA FromDbIInv == ASSUME ResyncIsLocal, IInv, StartFromDb PROVE IInv'
<1>0. /\ dbKnown' = dbKnown /\ dbLastSync' = dbLastSync /\ dbApplied' = dbApplied
      /\ DbActive' = DbActive /\ dbKnown \subseteq Adapter
      /\ pc = "down" /\ pending = Nothing
      /\ \A a \in Adapter, b \in Block : pending[a][b] = 0 /\ pending'[a][b] = 0
      /\ \A u \in Unit : phase'[u] = "idle"
      /\ pc' = "batch" /\ head' = head /\ latest' = head /\ lastSync' = dbLastSync
      /\ known' \subseteq dbKnown /\ DbActive \subseteq known' /\ Root \in dbKnown
      /\ \A a \in Adapter : Active(a)' <=> a \in DbActive
      /\ DbActive \subseteq Adapter
  BY DEF StartFromDb, IInv, CountInv, TypeOK, DbType, DbActive, NoJobs, Nothing, db, Active
<1>1. TypeOK'
  BY StartType DEF IInv
<1>2. HeadInv'
  <2>1. till' <= head
    BY <1>0 DEF StartFromDb, IsMin, IInv, HeadInv
  <2> QED BY <1>0, <2>1, Values DEF IInv, HeadInv
<1>3. JobInv'
  BY <1>0 DEF JobInv, StartFromDb
<1>4. CountInv'
  <2>1. \A a \in Adapter : Cursor(a)' = dbLastSync[a]
    BY <1>0, UnitFacts DEF Cursor
  <2>2. \A a \in Adapter, b \in Block : Total(a, b)' = dbApplied[a][b] /\ Total(a, b) = dbApplied[a][b]
    BY <1>0, Values DEF Total, IInv
  <2> QED BY <1>0, <2>1, <2>2 DEF CountInv, DbCountInv, IInv
<1>5. DbCountInv'
  BY <1>0 DEF DbCountInv, IInv
<1>6. RegisteredInv'
  <2>1. \A a \in Adapter : Cursor(a)' = dbLastSync[a]
    BY <1>0, UnitFacts DEF Cursor
  <2> QED BY <1>0, <2>1, ConstantFacts DEF RegisteredInv, IInv
<1>7. TogetherInv'
  <2>1. \A s, a \in Core \cap DbActive : dbLastSync[s] = dbLastSync[a]
    BY DEF IInv, TogetherInv
  <2>2. ASSUME NEW w \in Wrapper, NEW a \in ActiveMembers(w)'
        PROVE  /\ wrapperSync'[w] <= lastSync'[a]
               /\ lastSync'[a] <= Most(wrapperSync'[w], till')
    <3>1. a \in Adapter /\ a \in Members(w) /\ a \in DbActive /\ a \in Core
      BY <1>0, <2>2, UnitFacts, ConstantFacts, CoreFacts DEF ActiveMembers, Active
    <3>2. IsMin(wrapperSync'[w], {Never} \cup {dbLastSync[c] : c \in Members(w) \cap DbActive})
      BY DEF StartFromDb
    <3>3. wrapperSync'[w] <= dbLastSync[a]
      BY <3>1, <3>2 DEF IsMin
    <3>4. wrapperSync'[w] = Never \/ wrapperSync'[w] = dbLastSync[a]
      BY <2>1, <3>1, <3>2, CoreFacts DEF IsMin
    <3>5. dbLastSync[a] \in Nat /\ dbLastSync[a] < Never
      BY <3>1, BoundsAssumption DEF IInv, TypeOK, DbType, Height, Never
    <3>6. till' \in Nat
      BY <1>1, NumberFacts DEF TypeOK, ControlType
    <3> QED BY <1>0, <3>3, <3>4, <3>5, <3>6, BoundsAssumption DEF Most, Never
  <2>3. ASSUME NEW s \in Core, NEW a \in Core, Active(s)', Active(a)'
        PROVE  lastSync'[a] <= Most(till', lastSync'[s])
    <3>1. lastSync'[a] = lastSync'[s] /\ lastSync'[a] \in Nat
      BY <1>0, <2>1, <2>3, CoreFacts, Values DEF IInv
    <3>2. till' \in Nat
      BY <1>1, NumberFacts DEF TypeOK, ControlType
    <3> QED BY <3>1, <3>2 DEF Most
  <2> QED BY <1>0, <2>1, <2>2, <2>3 DEF TogetherInv
<1>8. BarrierInv'
  BY <1>0 DEF BarrierInv, InRound
<1>f0. FoundInv'
  <2>1. \A a \in Adapter : Cursor(a)' = dbLastSync[a]
    BY <1>0, UnitFacts DEF Cursor
  <2> QED BY <1>0, <2>1, ConstantFacts DEF IInv, FoundInv, NothingForgotten
<1> QED BY <1>f0, <1>1, <1>2, <1>3, <1>4, <1>5, <1>6, <1>7, <1>8 DEF IInv

-----------------------------------------------------------------------------
(***************************************************************************)
(* Rounds and levels                                                       *)
(***************************************************************************)

LEMMA BeginIInv == ASSUME IInv, BatchRound \/ LiveRound PROVE IInv'
<1>0. /\ pc \in {"batch", "live"} /\ pc' = "iterate" /\ lvl' = 0 /\ seen' = {}
      /\ UNCHANGED <<head, latest, jobs, memory, db>>
      /\ till <= till' /\ till' <= head /\ till' \in Nat
  BY Values, BoundsAssumption DEF IInv, HeadInv, BatchRound, LiveRound, BeginRound
<1>t. till \in Nat
  BY Values DEF IInv
<1>q. \A u \in Unit : phase[u] = "idle"
  BY <1>0 DEF IInv, JobInv, InRound
<1>1. TypeOK'
  BY RoundType DEF IInv
<1>2. HeadInv'
  BY <1>0 DEF IInv, HeadInv, memory, db
<1>3. JobInv'
  BY <1>0, <1>q DEF JobInv, jobs
<1>4. CountInv' /\ DbCountInv'
  BY <1>0 DEF IInv, CountInv, DbCountInv, jobs, memory, db, Active, Total, Cursor, DbActive
<1>5. RegisteredInv'
  BY <1>0 DEF IInv, RegisteredInv, jobs, memory, db, Active, Cursor, DbActive
<1>6. TogetherInv'
  <2>1. \A x \in Nat : Most(till, x) <= Most(till', x) /\ Most(x, till) <= Most(x, till')
                       /\ Most(till, x) \in Nat /\ Most(till', x) \in Nat
                       /\ Most(x, till) \in Nat /\ Most(x, till') \in Nat
    BY <1>0, <1>t, MostFacts
  <2>2. \A s, a \in Core : Active(s)' /\ Active(a)' => lastSync'[a] <= Most(till', lastSync'[s])
    <3> SUFFICES ASSUME NEW s \in Core, NEW a \in Core, Active(s)', Active(a)'
                 PROVE  lastSync'[a] <= Most(till', lastSync'[s])
      OBVIOUS
    <3>1. lastSync[a] <= Most(till, lastSync[s])
      BY <1>0 DEF IInv, TogetherInv, Active, memory
    <3>2. lastSync[a] \in Nat /\ lastSync[s] \in Nat /\ lastSync' = lastSync
      BY <1>0, Values DEF IInv, memory, Core
    <3> QED BY <2>1, <3>1, <3>2
  <2>3. ASSUME NEW w \in Wrapper, NEW a \in ActiveMembers(w)'
        PROVE  /\ wrapperSync'[w] <= lastSync'[a]
               /\ lastSync'[a] <= Most(wrapperSync'[w], till')
    <3>1. wrapperSync[w] <= lastSync[a] /\ lastSync[a] <= Most(wrapperSync[w], till)
      BY <1>0, <2>3 DEF IInv, TogetherInv, ActiveMembers, memory
    <3>2. lastSync[a] \in Nat /\ wrapperSync[w] \in Nat
      BY <1>0, <2>3, Values, UnitFacts, ConstantFacts DEF IInv, ActiveMembers
    <3>3. lastSync' = lastSync /\ wrapperSync' = wrapperSync
      BY <1>0 DEF memory
    <3> QED BY <2>1, <3>1, <3>2, <3>3
  <2>4. \A s, a \in Core \cap DbActive' : dbLastSync'[s] = dbLastSync'[a]
    BY <1>0 DEF IInv, TogetherInv, DbActive, db
  <2> QED BY <2>2, <2>3, <2>4 DEF TogetherInv
<1>7. BarrierInv'
  BY <1>0, UnitFacts, ConstantFacts DEF BarrierInv, InRound, Timely
<1>f0. FoundInv'
  BY <1>0 DEF IInv, FoundInv, NothingForgotten, jobs, memory, db, Cursor
<1> QED BY <1>f0, <1>1, <1>2, <1>3, <1>4, <1>5, <1>6, <1>7 DEF IInv

LEMMA EndIterationIInv == ASSUME IInv, EndIteration PROVE IInv'
<1>0. /\ pc = "iterate" /\ pc' = "wait"
      /\ UNCHANGED <<head, control, jobs, memory, db>>
  BY DEF EndIteration
<1>1. TypeOK'
  BY RoundType DEF IInv
<1>2. HeadInv' /\ JobInv'
  BY <1>0 DEF IInv, HeadInv, JobInv, InRound, control, jobs, memory, db, Active,
              ActiveMembers, BlockToDisableOn, GetLastSync
<1>3. CountInv' /\ DbCountInv'
  BY <1>0 DEF IInv, CountInv, DbCountInv, jobs, memory, db, Active, Total, Cursor, DbActive
<1>4. RegisteredInv' /\ TogetherInv'
  BY <1>0 DEF IInv, RegisteredInv, TogetherInv, control, jobs, memory, db, Active,
              ActiveMembers, Cursor, DbActive
<1>5. BarrierInv'
  <2>1. ASSUME NEW a \in Timely \cap known, LevelOf[UnitOf(a)] = lvl
        PROVE  UnitOf(a) \in seen
    <3>1. UnitOf(a) \in Unit /\ (UnitOf(a) \in Wrapper \/ UnitOf(a) = a)
      BY UnitFacts, AdapterAssumption DEF Timely, UnitOf
    <3> QED BY <2>1, <3>1 DEF EndIteration, InKit
  <2> QED BY <1>0, <2>1 DEF IInv, BarrierInv, InRound, control, jobs, memory, Active
<1>f0. FoundInv'
  BY <1>0 DEF IInv, FoundInv, NothingForgotten, jobs, memory, db, Cursor
<1> QED BY <1>f0, <1>1, <1>2, <1>3, <1>4, <1>5 DEF IInv

LEMMA EndLevelIInv == ASSUME IInv, EndLevel PROVE IInv'
<1>0. /\ pc = "wait" /\ seen' = {} /\ \A u \in Unit : phase[u] = "idle"
      /\ UNCHANGED <<head, latest, till, jobs, memory, db>>
      /\ \/ lvl < MaxLevel /\ lvl' = lvl + 1 /\ pc' = "iterate"
         \/ lvl = MaxLevel /\ pc' = "flush"
  BY Values DEF EndLevel, IInv, Idle
<1>1. TypeOK'
  BY RoundType DEF IInv
<1>2. HeadInv'
  BY <1>0 DEF IInv, HeadInv, memory, db
<1>3. JobInv'
  BY <1>0 DEF JobInv, jobs
<1>4. CountInv' /\ DbCountInv'
  BY <1>0 DEF IInv, CountInv, DbCountInv, jobs, memory, db, Active, Total, Cursor, DbActive
<1>5. RegisteredInv' /\ TogetherInv'
  BY <1>0 DEF IInv, RegisteredInv, TogetherInv, jobs, memory, db, Active, ActiveMembers,
              Cursor, DbActive
<1>6. BarrierInv'
  <2>1. ASSUME NEW a \in Timely, Active(a), ~(till <= lastSync[a])
        PROVE  LevelOf[UnitOf(a)] > lvl
    BY <1>0, <2>1, UnitFacts DEF IInv, BarrierInv, InRound, Active, Timely
  <2>2. \A a \in Timely : LevelOf[UnitOf(a)] \in Nat /\ LevelOf[UnitOf(a)] <= MaxLevel
    BY UnitFacts, ConstantFacts DEF Timely
  <2>3. lvl \in Nat /\ MaxLevel \in Nat
    BY Values DEF IInv
  <2> QED BY <1>0, <2>1, <2>2, <2>3 DEF BarrierInv, InRound, memory, Active
<1>f0. FoundInv'
  BY <1>0 DEF IInv, FoundInv, NothingForgotten, jobs, memory, db, Cursor
<1> QED BY <1>f0, <1>1, <1>2, <1>3, <1>4, <1>5, <1>6 DEF IInv

LEMMA LaunchIInv == ASSUME IInv, NEW u \in Unit, LaunchNext(u) PROVE IInv'
<1>0. /\ pc = "iterate" /\ pc' = "iterate" /\ seen' = seen \cup {u} /\ LevelOf[u] = lvl
      /\ InKit(u)
      /\ UNCHANGED <<head, latest, till, lvl, pos, upto, addrs, memory, db>>
      /\ phase[u] = "idle"
      /\ \A v \in Unit : v # u => phase'[v] = phase[v]
      /\ phase'[u] = IF IsDisabled(u) THEN "idle" ELSE "spawned"
  BY DEF LaunchNext, IInv, JobInv, TypeOK, JobType
<1>1. TypeOK'
  BY LaunchType DEF IInv
<1>2. HeadInv'
  BY <1>0 DEF IInv, HeadInv, memory, db
<1>3. JobInv'
  <2>1. u \in Plain /\ phase'[u] # "idle" => Active(u)'
    BY <1>0, UnitFacts DEF InKit, IsDisabled, Active, memory
  <2> QED BY <1>0, <2>1 DEF IInv, JobInv, InRound, memory, Active, ActiveMembers,
                            BlockToDisableOn, GetLastSync
<1>4. \A a \in Adapter : Cursor(a)' = Cursor(a)
  BY <1>0, UnitFacts DEF Cursor, memory
<1>5. CountInv' /\ DbCountInv'
  BY <1>0, <1>4 DEF IInv, CountInv, DbCountInv, memory, db, Active, Total, DbActive
<1>6. RegisteredInv'
  BY <1>0, <1>4, ConstantFacts DEF IInv, RegisteredInv, memory, db, Active, DbActive
<1>7. TogetherInv'
  BY <1>0 DEF IInv, TogetherInv, memory, db, Active, ActiveMembers, DbActive
<1>8. BarrierInv'
  <2>1. ASSUME NEW a \in Timely, Active(a), UnitOf(a) = u PROVE ~IsDisabled(u)
    BY <2>1, UnitFacts DEF Active, IsDisabled, Timely, UnitOf
  <2> QED BY <1>0, <2>1, UnitFacts DEF IInv, BarrierInv, InRound, memory, Active, Timely
<1>f0. FoundInv'
  BY <1>0, <1>4, ConstantFacts DEF IInv, FoundInv, NothingForgotten, memory, db
<1> QED BY <1>f0, <1>1, <1>2, <1>3, <1>5, <1>6, <1>7, <1>8 DEF IInv

LEMMA StartModelIInv ==
    ASSUME ResyncIsLocal, IInv, NEW u \in Unit, StartModel(u)
    PROVE  IInv'
<1>0. /\ phase[u] = "spawned" /\ InRound /\ u \in seen
      /\ UNCHANGED <<head, pc, latest, till, lvl, seen, memory, db>>
      /\ \A v \in Unit : v # u => /\ phase'[v] = phase[v] /\ pos'[v] = pos[v]
                                  /\ upto'[v] = upto[v] /\ addrs'[v] = addrs[v]
      /\ u \in Plain => Active(u)
      /\ InRound' /\ phase'[u] \in {"idle", "apply"}
  BY DEF StartModel, IInv, JobInv, TypeOK, JobType, control, InRound
<1>t. /\ till \in Nat /\ GetLastSync(u) \in Nat
      /\ \A a \in Adapter : lastSync[a] \in Nat
  BY Values DEF IInv
<1>m. \A a \in Adapter : UnitOf(a) = u /\ Active(a) => GetLastSync(u) <= lastSync[a]
  <2> SUFFICES ASSUME NEW a \in Adapter, UnitOf(a) = u, Active(a)
               PROVE  GetLastSync(u) <= lastSync[a]
    OBVIOUS
  <2>1. CASE u \in Wrapper
    BY <2>1, UnitFacts DEF IInv, TogetherInv, ActiveMembers, Active, GetLastSync
  <2>2. CASE u \in Plain
    <3>1. a = u /\ u \notin Wrapper
      BY <2>2, UnitFacts
    <3> QED BY <3>1, <1>t DEF GetLastSync
  <2> QED BY <2>1, <2>2, UnitFacts
<1>a. phase'[u] = "apply" =>
        /\ pos'[u] = GetLastSync(u) + 1 /\ GetLastSync(u) < till
        /\ upto'[u] = Least(BlockToDisableOn(u), till)
        /\ addrs'[u] = ActiveMembers(u)
  BY <1>t DEF StartModel, IInv, TypeOK, JobType
<1>i. phase'[u] = "idle" => till <= GetLastSync(u)
  BY <1>t DEF StartModel, IInv, TypeOK, JobType
<1>1. TypeOK'
  BY StartModelType DEF IInv
<1>2. HeadInv'
  BY <1>0 DEF IInv, HeadInv, memory, db
<1>3. JobInv'
  <2>1. \A v \in Unit : /\ ActiveMembers(v)' = ActiveMembers(v)
                        /\ BlockToDisableOn(v)' = BlockToDisableOn(v)
                        /\ GetLastSync(v)' = GetLastSync(v)
                        /\ Active(v)' <=> Active(v)
    BY <1>0 DEF ActiveMembers, BlockToDisableOn, GetLastSync, Active, memory
  <2>2. /\ pc' = "down" => known' = {}
        /\ \A v \in seen' : LevelOf[v] = lvl'
    BY <1>0 DEF IInv, JobInv, memory
  <2>3. ASSUME NEW v \in Unit, phase'[v] # "idle"
        PROVE  InRound' /\ v \in seen' /\ (v \in Plain => Active(v)')
    BY <1>0, <2>1, <2>3 DEF IInv, JobInv
  <2>4. ASSUME NEW v \in Unit, phase'[v] = "apply"
        PROVE  /\ addrs'[v] = ActiveMembers(v)'
               /\ upto'[v] = Least(BlockToDisableOn(v)', till')
               /\ GetLastSync(v)' < till' /\ GetLastSync(v)' < pos'[v]
               /\ pos'[v] <= upto'[v] + 1 \/ pos'[v] = GetLastSync(v)' + 1
    <3>1. CASE v = u
      BY <1>0, <1>a, <1>t, <2>1, <2>4, <3>1
    <3>2. CASE v # u
      BY <1>0, <2>1, <2>4, <3>2 DEF IInv, JobInv
    <3> QED BY <3>1, <3>2
  <2> QED BY <2>2, <2>3, <2>4 DEF JobInv
<1>4. \A a \in Adapter : Cursor(a)' = Cursor(a)
  <2> SUFFICES ASSUME NEW a \in Adapter PROVE Cursor(a)' = Cursor(a)
    OBVIOUS
  <2>1. CASE UnitOf(a) # u
    BY <1>0, <2>1, UnitFacts DEF Cursor, memory
  <2>2. CASE UnitOf(a) = u
    <3>1. Cursor(a) = lastSync[a] /\ lastSync' = lastSync
      BY <1>0, <2>2 DEF Cursor, memory
    <3>2. CASE phase'[u] = "apply" /\ a \in addrs'[u]
      <4>0. Active(a)
        BY <1>a, <3>2 DEF ActiveMembers, Active
      <4>1. Most(lastSync[a], pos'[u] - 1) = lastSync[a]
        BY <1>a, <1>m, <1>t, <2>2, <3>2, <4>0 DEF Most
      <4> QED BY <2>2, <3>1, <4>1 DEF Cursor
    <3> QED BY <2>2, <3>1, <3>2 DEF Cursor
  <2> QED BY <2>1, <2>2
<1>5. CountInv' /\ DbCountInv'
  BY <1>0, <1>4 DEF IInv, CountInv, DbCountInv, memory, db, Active, Total, DbActive
<1>6. RegisteredInv'
  BY <1>0, <1>4, ConstantFacts DEF IInv, RegisteredInv, memory, db, Active, DbActive
<1>7. TogetherInv'
  BY <1>0 DEF IInv, TogetherInv, memory, db, Active, ActiveMembers, DbActive
<1>8. BarrierInv'
  <2>1. ASSUME NEW a \in Timely, Active(a), UnitOf(a) = u, phase'[u] = "idle"
        PROVE  till <= lastSync[a]
    BY <1>t, <1>m, <1>i, <2>1 DEF Timely
  <2>2. ASSUME NEW a \in Timely, Active(a)
        PROVE \/ till <= lastSync[a]
              \/ LevelOf[UnitOf(a)] > lvl
              \/ LevelOf[UnitOf(a)] = lvl /\ (UnitOf(a) \notin seen \/ phase'[UnitOf(a)] # "idle")
    <3>1. UnitOf(a) \in Unit
      BY UnitFacts DEF Timely
    <3> QED BY <1>0, <2>1, <2>2, <3>1 DEF IInv, BarrierInv, InRound
  <2> QED BY <1>0, <2>2 DEF IInv, BarrierInv, InRound, memory, Active
<1>f0. FoundInv'
  BY <1>0, <1>4, ConstantFacts DEF IInv, FoundInv, NothingForgotten, memory, db
<1> QED BY <1>f0, <1>1, <1>2, <1>3, <1>5, <1>6, <1>7, <1>8 DEF IInv

-----------------------------------------------------------------------------
(***************************************************************************)
(* The end of a round                                                      *)
(***************************************************************************)

LEMMA FlushIInv == ASSUME IInv, Flush PROVE IInv'
<1>0. /\ pc = "flush" /\ pc' = "debt"
      /\ UNCHANGED <<head, latest, till, lvl, seen, jobs, memory>>
      /\ dbKnown' = dbKnown \cup known
      /\ known \subseteq Adapter /\ dbKnown \subseteq Adapter
      /\ \A a \in Adapter : dbLastSync'[a] = IF a \in known THEN lastSync[a] ELSE dbLastSync[a]
      /\ \A a \in Adapter : dbDisabled'[a] = IF a \in known THEN disabled[a] ELSE dbDisabled[a]
      /\ \A a \in Adapter, b \in Block : dbApplied'[a][b] = Total(a, b)
  BY DEF Flush, IInv, TypeOK, MemoryType, DbType, control, Total
<1>q. \A u \in Unit : phase[u] = "idle"
  BY <1>0 DEF IInv, JobInv, InRound
<1>c. \A a \in Adapter : Cursor(a) = lastSync[a] /\ Cursor(a)' = lastSync[a]
  BY <1>0, <1>q, UnitFacts DEF Cursor, jobs, memory
<1>d. \A a \in Adapter : /\ a \in DbActive' <=> Active(a)
                         /\ Active(a)' <=> Active(a)
                         /\ Active(a) => dbLastSync'[a] = lastSync[a]
  <2>1. DbActive \subseteq known
    BY <1>0 DEF IInv, RegisteredInv
  <2> QED BY <1>0, <2>1 DEF DbActive, Active, memory
<1>e. DbActive' \subseteq Adapter
  BY <1>0 DEF DbActive
<1>1. TypeOK'
  BY FlushType DEF IInv
<1>2. HeadInv'
  BY <1>0 DEF IInv, HeadInv, memory
<1>3. JobInv'
  BY <1>0, <1>q DEF IInv, JobInv, jobs, memory
<1>4. CountInv'
  <2>1. \A a \in Adapter, b \in Block : Total(a, b)' = Total(a, b)
    BY <1>0, Values DEF IInv, Total
  <2> QED BY <1>0, <1>c, <1>d, <2>1 DEF IInv, CountInv, memory
<1>5. DbCountInv'
  <2>1. ASSUME NEW a \in Adapter, a \notin dbKnown', NEW b \in Block PROVE dbApplied'[a][b] = 0
    BY <1>0, <2>1, Values DEF IInv, CountInv, DbCountInv, Total
  <2>2. ASSUME NEW a \in DbActive'
        PROVE  /\ FirstLogAt[a] - 1 <= dbLastSync'[a]
               /\ \A b \in Block : dbApplied'[a][b] = Due(a, b, dbLastSync'[a])
    BY <1>0, <1>c, <1>d, <1>e, <2>2 DEF IInv, CountInv
  <2> QED BY <2>1, <2>2 DEF DbCountInv
<1>6. RegisteredInv'
  <2>1. ASSUME NEW n \in Discovered, n \in dbKnown'
        PROVE  /\ AddedBy[n] \in dbKnown'
               /\ Active(AddedBy[n]) => AddedAt[n] <= lastSync[AddedBy[n]]
    BY <1>0, <1>c, <2>1, ConstantFacts DEF IInv, RegisteredInv
  <2> QED BY <1>0, <1>c, <1>d, <1>e, <2>1, ConstantFacts
       DEF IInv, RegisteredInv, memory, Active
<1>7. TogetherInv'
  <2>1. ASSUME NEW s \in Core \cap DbActive', NEW a \in Core \cap DbActive'
        PROVE  dbLastSync'[s] = dbLastSync'[a]
    <3>1. /\ Active(s) /\ Active(a) /\ s \in Adapter /\ a \in Adapter
          /\ dbLastSync'[s] = lastSync[s] /\ dbLastSync'[a] = lastSync[a]
      BY <1>d, <1>e
    <3>2. till <= lastSync[s] /\ till <= lastSync[a]
      BY <1>0, <3>1 DEF IInv, BarrierInv, Core, Timely
    <3>3. lastSync[a] <= Most(till, lastSync[s]) /\ lastSync[s] <= Most(till, lastSync[a])
      BY <3>1 DEF IInv, TogetherInv
    <3>4. till \in Nat /\ lastSync[s] \in Nat /\ lastSync[a] \in Nat
      BY <3>1, Values DEF IInv
    <3> QED BY <3>1, <3>2, <3>3, <3>4 DEF Most
  <2> QED BY <1>0, <2>1 DEF IInv, TogetherInv, memory, Active, ActiveMembers
<1>8. BarrierInv'
  BY <1>0, <1>d DEF IInv, BarrierInv, InRound, memory, Active
<1>f0. FoundInv'
  <2>1. \A n \in Discovered : AddedBy[n] \in Adapter
    BY ConstantFacts
  <2>2. ASSUME NEW n \in Discovered, AddedBy[n] \in dbKnown',
               FirstLogAt[AddedBy[n]] <= AddedAt[n], AddedAt[n] <= dbLastSync'[AddedBy[n]]
        PROVE  n \in dbKnown'
    <3>1. CASE AddedBy[n] \in known
      BY <1>0, <1>c, <2>1, <2>2, <3>1 DEF IInv, FoundInv
    <3>2. CASE AddedBy[n] \notin known
      BY <1>0, <2>1, <2>2, <3>2 DEF IInv, FoundInv, NothingForgotten
    <3> QED BY <3>1, <3>2
  <2> QED BY <1>0, <1>c, <2>1, <2>2 DEF IInv, FoundInv, NothingForgotten, memory
<1> QED BY <1>f0, <1>1, <1>2, <1>3, <1>4, <1>5, <1>6, <1>7, <1>8 DEF IInv

LEMMA ClearIInv == ASSUME IInv, CalculateDebtAndClear PROVE IInv'
<1>0. /\ pc = "debt" /\ pc' \in {"batch", "live"}
      /\ UNCHANGED <<head, latest, till, lvl, seen, jobs, db>>
      /\ UNCHANGED <<known, lastSync, disableOn, disabled, wrapperSync>>
      /\ \A a \in Adapter, b \in Block : pending'[a][b] = 0
  BY DEF CalculateDebtAndClear, IInv, TypeOK, ControlType, control, Nothing
<1>q. \A u \in Unit : phase[u] = "idle"
  BY <1>0 DEF IInv, JobInv, InRound
<1>1. TypeOK'
  BY RoundType DEF IInv
<1>2. HeadInv'
  BY <1>0 DEF IInv, HeadInv, db
<1>3. JobInv'
  BY <1>0, <1>q DEF IInv, JobInv, jobs
<1>4. CountInv'
  <2>1. \A a \in Adapter, b \in Block : Total(a, b)' = Total(a, b)
    BY <1>0, Values DEF IInv, Total, db
  <2>2. \A a \in Adapter : Cursor(a)' = Cursor(a) /\ (Active(a)' <=> Active(a))
    BY <1>0 DEF Cursor, Active, jobs
  <2> QED BY <1>0, <2>1, <2>2 DEF IInv, CountInv
<1>5. DbCountInv' /\ RegisteredInv'
  BY <1>0 DEF IInv, DbCountInv, RegisteredInv, jobs, db, Active, Cursor, DbActive
<1>6. TogetherInv'
  BY <1>0 DEF IInv, TogetherInv, db, Active, ActiveMembers, DbActive
<1>7. BarrierInv'
  BY <1>0 DEF BarrierInv, InRound
<1>f0. FoundInv'
  BY <1>0 DEF IInv, FoundInv, NothingForgotten, jobs, db, Cursor
<1> QED BY <1>f0, <1>1, <1>2, <1>3, <1>4, <1>5, <1>6, <1>7 DEF IInv

-----------------------------------------------------------------------------
(***************************************************************************)
(* A goroutine applies the logs of a block and finishes                    *)
(***************************************************************************)

\* What a goroutine that applies logs may rely on.
LEMMA Applying ==
    ASSUME IInv, NEW u \in Unit, phase[u] = "apply"
    PROVE  /\ InRound /\ pc \notin {"down", "flush", "debt"}
           /\ u \in seen /\ LevelOf[u] = lvl
           /\ addrs[u] = ActiveMembers(u)
           /\ \A a \in addrs[u] : a \in Adapter /\ UnitOf(a) = u /\ Active(a)
           /\ GetLastSync(u) < till /\ pos[u] > GetLastSync(u)
           /\ upto[u] <= till /\ upto[u] = Least(BlockToDisableOn(u), till)
           /\ u \in Plain => addrs[u] = {u} /\ GetLastSync(u) = lastSync[u]
           /\ \A a \in addrs[u] : Cursor(a) = Most(lastSync[a], pos[u] - 1)
<1>1. /\ InRound /\ u \in seen /\ LevelOf[u] = lvl /\ addrs[u] = ActiveMembers(u)
      /\ GetLastSync(u) < till /\ GetLastSync(u) < pos[u]
      /\ upto[u] = Least(BlockToDisableOn(u), till)
      /\ u \in Plain => Active(u)
  BY DEF IInv, JobInv
<1>2. pos[u] \in Nat /\ GetLastSync(u) \in Nat /\ till \in Nat /\ BlockToDisableOn(u) \in Nat
  BY Values DEF IInv
<1>3. \A a \in addrs[u] : a \in Adapter /\ UnitOf(a) = u /\ Active(a)
  BY <1>1, UnitFacts DEF ActiveMembers, Active
<1>4. u \in Plain => addrs[u] = {u} /\ GetLastSync(u) = lastSync[u]
  BY <1>1, UnitFacts DEF ActiveMembers, Active, GetLastSync
<1>5. \A a \in addrs[u] : Cursor(a) = Most(lastSync[a], pos[u] - 1)
  BY <1>3 DEF Cursor
<1>6. upto[u] <= till
  BY <1>1, <1>2 DEF Least
<1> QED BY <1>1, <1>2, <1>3, <1>4, <1>5, <1>6 DEF InRound

LEMMA ApplyBlockIInv ==
    ASSUME ResyncIsLocal, IInv, NEW u \in Unit, ApplyBlock(u)
    PROVE  IInv'
<1> DEFINE b == pos[u]
           R == Receivers(u, b)
           New == {n \in Discovered : AddedBy[n] \in R /\ AddedAt[n] = b}
<1>0. /\ phase[u] = "apply" /\ b <= upto[u]
      /\ known' = known \cup New
      /\ lastSync' = LastSyncWith(New, lastSync)
      /\ disableOn' = DisableOnWith(New, b)
      /\ disabled' = [a \in Adapter |-> a \notin New /\ disabled[a]]
      /\ WrapperSyncWith(New)
      /\ \A a \in Adapter, x \in Block :
           pending'[a][x] = IF a \in R /\ x = b THEN pending[a][x] + 1 ELSE pending[a][x]
      /\ UNCHANGED <<head, pc, latest, till, lvl, seen, phase, upto, addrs, db>>
      /\ pos'[u] = b + 1 /\ \A v \in Unit : v # u => pos'[v] = pos[v]
  BY DEF ApplyBlock, IInv, TypeOK, JobType, control
<1>w. /\ InRound /\ pc \notin {"down", "flush", "debt"}
      /\ u \in seen /\ LevelOf[u] = lvl
      /\ \A a \in addrs[u] : a \in Adapter /\ UnitOf(a) = u /\ Active(a)
      /\ GetLastSync(u) < till /\ b > GetLastSync(u) /\ upto[u] <= till
      /\ u \in Plain => addrs[u] = {u} /\ GetLastSync(u) = lastSync[u]
      /\ \A a \in addrs[u] : Cursor(a) = Most(lastSync[a], b - 1)
  BY <1>0, Applying
<1>t. /\ b \in Nat /\ till \in Nat /\ upto[u] \in Nat /\ head \in Nat
      /\ \A a \in Adapter : lastSync[a] \in Nat /\ FirstLogAt[a] \in Nat /\ FirstLogAt[a] >= 1
      /\ b <= till /\ till <= head
  <2>1. b \in Nat /\ till \in Nat /\ upto[u] \in Nat /\ head \in Nat
    BY Values DEF IInv
  <2>2. till <= head
    BY DEF IInv, HeadInv
  <2> QED BY <1>0, <1>w, <2>1, <2>2, Values, ConstantFacts DEF IInv
\* A log is handed to an adapter that has not passed its block.
<1>r. \A a \in R : /\ a \in addrs[u] /\ a \in Adapter /\ UnitOf(a) = u /\ Active(a)
                   /\ lastSync[a] < b /\ Cursor(a) = b - 1
  <2> SUFFICES ASSUME NEW a \in R
               PROVE  /\ a \in addrs[u] /\ a \in Adapter /\ UnitOf(a) = u /\ Active(a)
                      /\ lastSync[a] < b /\ Cursor(a) = b - 1
    OBVIOUS
  <2>1. a \in addrs[u] /\ (u \in Wrapper => lastSync[a] < b)
    BY DEF Receivers
  <2>2. lastSync[a] < b
    BY <1>w, <2>1, UnitFacts
  <2>3. lastSync[a] \in Nat
    BY <1>w, <1>t, <2>1
  <2> QED BY <1>w, <1>t, <2>1, <2>2, <2>3 DEF Most
<1> HIDE DEF R
\* An adapter is registered for the first time, on a level still to come.
<1>n. \A n \in New : /\ n \in Discovered /\ n \in Adapter /\ n \notin known /\ n \notin dbKnown
                     /\ AddedBy[n] \in R /\ AddedAt[n] = b /\ AddedBy[n] \in Core
                     /\ LevelOf[UnitOf(n)] > lvl /\ FirstLogAt[n] <= b
                     /\ \A o \in Supersedes[n] : LevelOf[UnitOf(o)] > lvl
  <2> SUFFICES ASSUME NEW n \in New
               PROVE  /\ n \in Discovered /\ n \in Adapter /\ n \notin known /\ n \notin dbKnown
                      /\ AddedBy[n] \in R /\ AddedAt[n] = b /\ AddedBy[n] \in Core
                      /\ LevelOf[UnitOf(n)] > lvl /\ FirstLogAt[n] <= b
                      /\ \A o \in Supersedes[n] : LevelOf[UnitOf(o)] > lvl
    OBVIOUS
  <2>1. n \in Discovered /\ n \in Adapter /\ AddedBy[n] \in R /\ AddedAt[n] = b
    BY ConstantFacts
  <2>2. Active(AddedBy[n]) /\ Cursor(AddedBy[n]) = b - 1 /\ UnitOf(AddedBy[n]) = u
    BY <1>r, <2>1
  <2>3. ~(AddedAt[n] <= Cursor(AddedBy[n]))
    BY <1>t, <2>1, <2>2
  <2>4. n \notin known /\ n \notin dbKnown
    BY <2>1, <2>2, <2>3 DEF IInv, RegisteredInv
  <2>5. \A o \in {n} \cup Supersedes[n] : LevelOf[UnitOf(o)] > lvl
    BY <1>w, <2>1, <2>2, ConstantFacts
  <2>6. AddedBy[n] \in Core /\ FirstLogAt[n] <= b
    BY <2>1, CoreFacts, ConstantFacts
  <2> QED BY <2>1, <2>4, <2>5, <2>6
<1> HIDE DEF New, b
<1>a. \A a \in Adapter : /\ Active(a)' <=> (Active(a) \/ a \in New)
                         /\ a \in New => ~Active(a)
                         /\ lastSync'[a] = IF a \in New THEN FirstLogAt[a] - 1 ELSE lastSync[a]
  BY <1>0, <1>n DEF Active, LastSyncWith
\* If something is registered, no core adapter is ahead of the round.
<1>l. New # {} => \A a \in Core : Active(a) => lastSync[a] <= till
  <2> SUFFICES ASSUME NEW n \in New, NEW a \in Core, Active(a) PROVE lastSync[a] <= till
    OBVIOUS
  <2>1. /\ AddedBy[n] \in Core /\ AddedBy[n] \in Adapter /\ Active(AddedBy[n])
        /\ lastSync[AddedBy[n]] < b
    BY <1>n, <1>r
  <2>2. lastSync[a] <= Most(till, lastSync[AddedBy[n]])
    BY <2>1 DEF IInv, TogetherInv
  <2>3. lastSync[a] \in Nat /\ lastSync[AddedBy[n]] \in Nat
    BY <1>t, <2>1, CoreFacts
  <2> QED BY <1>t, <2>1, <2>2, <2>3 DEF Most
<1>s. ASSUME NEW w \in Wrapper
      PROVE  /\ wrapperSync'[w] \in Nat /\ wrapperSync[w] \in Nat
             /\ wrapperSync'[w] <= wrapperSync[w]
             /\ \A n \in New : n \in Members(w) => wrapperSync'[w] <= FirstLogAt[n] - 1
             /\ wrapperSync'[w] = wrapperSync[w] \/ \E n \in New : n \in Members(w)
  <2>1. IsMin(wrapperSync'[w], {wrapperSync[w]} \cup {FirstLogAt[n] - 1 : n \in New \cap Members(w)})
    BY <1>0 DEF WrapperSyncWith
  <2>2. wrapperSync[w] \in Nat
    BY Values DEF IInv
  <2>3. wrapperSync'[w] \in Nat
    BY <1>0, NumberFacts, BoundsAssumption DEF WrapperSyncWith, SyncPoint, Never
  <2> QED BY <2>1, <2>2, <2>3 DEF IsMin
\* Nothing changes for the units of the running level.
<1>k. ASSUME NEW v \in Unit, LevelOf[v] = lvl
      PROVE  /\ ActiveMembers(v)' = ActiveMembers(v)
             /\ BlockToDisableOn(v)' = BlockToDisableOn(v)
             /\ GetLastSync(v)' = GetLastSync(v)
             /\ v \notin New
  <2>t. lvl \in Nat
    BY Values DEF IInv
  <2>1. ASSUME NEW a \in Members(v) PROVE a \in Adapter /\ a \notin New
    <3>1. a \in Adapter /\ UnitOf(a) = v
      BY UnitFacts
    <3>2. ~(LevelOf[UnitOf(a)] > lvl)
      BY <1>k, <2>t, <3>1
    <3> QED BY <1>n, <3>1, <3>2
  <2>2. ActiveMembers(v)' = ActiveMembers(v)
    BY <1>0, <2>1 DEF ActiveMembers
  <2>3. CASE v \in Wrapper
    <3>1. wrapperSync'[v] = wrapperSync[v]
      BY <1>s, <2>1, <2>3
    <3>2. v \notin New
      BY <1>n, <2>3, AdapterAssumption
    <3> QED BY <2>2, <2>3, <3>1, <3>2 DEF GetLastSync, BlockToDisableOn
  <2>4. CASE v \in Plain
    <3>1. v \in Adapter /\ v \notin Wrapper /\ v \notin New /\ UnitOf(v) = v
      BY <2>1, <2>4, UnitFacts
    <3>2. \A n \in New : v \notin Supersedes[n]
      BY <1>k, <1>n, <2>t, <3>1
    <3>3. disableOn'[v] = disableOn[v]
      BY <1>0, <3>1, <3>2 DEF DisableOnWith
    <3>4. lastSync'[v] = lastSync[v]
      BY <1>a, <3>1
    <3> QED BY <2>2, <3>1, <3>3, <3>4 DEF GetLastSync, BlockToDisableOn
  <2> QED BY <2>3, <2>4, UnitFacts
<1>1. TypeOK'
  BY ApplyBlockType DEF IInv
<1>2. HeadInv'
  <2>1. \A a \in Adapter : lastSync[a] <= head /\ dbLastSync[a] <= head
    BY DEF IInv, HeadInv
  <2>2. \A a \in Adapter : lastSync'[a] <= head
    BY <1>a, <1>n, <1>t, <2>1
  <2>3. \A n \in New : FirstLogAt[n] <= head
    BY <1>n, <1>t
  <2> QED BY <1>0, <2>1, <2>2, <2>3 DEF IInv, HeadInv, db
<1>3. JobInv'
  <2>1. /\ pc' = "down" => known' = {}
        /\ \A v \in seen' : LevelOf[v] = lvl'
    BY <1>0, <1>w DEF IInv, JobInv
  <2>2. ASSUME NEW v \in Unit, phase'[v] # "idle"
        PROVE  InRound' /\ v \in seen' /\ (v \in Plain => Active(v)')
    BY <1>0, <1>a, <2>2, UnitFacts DEF IInv, JobInv, InRound
  <2>3. ASSUME NEW v \in Unit, phase'[v] = "apply"
        PROVE  /\ addrs'[v] = ActiveMembers(v)'
               /\ upto'[v] = Least(BlockToDisableOn(v)', till')
               /\ GetLastSync(v)' < till' /\ GetLastSync(v)' < pos'[v]
               /\ pos'[v] <= upto'[v] + 1 \/ pos'[v] = GetLastSync(v)' + 1
    <3>1. LevelOf[v] = lvl /\ phase[v] = "apply"
      BY <1>0, <2>3 DEF IInv, JobInv
    <3>2. /\ addrs[v] = ActiveMembers(v) /\ upto[v] = Least(BlockToDisableOn(v), till)
          /\ GetLastSync(v) < till /\ GetLastSync(v) < pos[v]
          /\ pos[v] <= upto[v] + 1 \/ pos[v] = GetLastSync(v) + 1
      BY <3>1 DEF IInv, JobInv
    <3>3. GetLastSync(u) \in Nat
      BY Values DEF IInv
    <3>4. CASE v = u
      BY <1>0, <1>w, <1>t, <1>k, <3>1, <3>2, <3>3, <3>4 DEF b
    <3>5. CASE v # u
      BY <1>0, <1>k, <3>1, <3>2, <3>5
    <3> QED BY <3>4, <3>5
  <2> QED BY <2>1, <2>2, <2>3 DEF JobInv
<1>4. \A a \in Adapter : a \in known =>
        Cursor(a)' = IF a \in R THEN b ELSE Cursor(a)
  <2> SUFFICES ASSUME NEW a \in Adapter, a \in known
               PROVE  Cursor(a)' = IF a \in R THEN b ELSE Cursor(a)
    OBVIOUS
  <2>1. lastSync'[a] = lastSync[a] /\ UnitOf(a) \in Unit /\ lastSync[a] \in Nat
    BY <1>a, <1>n, <1>t, UnitFacts
  <2>2. CASE a \in R
    <3>1. Most(lastSync[a], (b + 1) - 1) = b
      BY <1>r, <1>t, <2>1, <2>2 DEF Most
    <3> QED BY <1>0, <1>r, <2>1, <2>2, <3>1 DEF Cursor
  <2>3. CASE a \notin R /\ a \in addrs[u]
    <3>1. u \in Wrapper /\ ~(lastSync[a] < b)
      BY <2>3 DEF R, Receivers
    <3>2. Most(lastSync[a], (b + 1) - 1) = lastSync[a] /\ Most(lastSync[a], b - 1) = lastSync[a]
      BY <1>t, <2>1, <3>1 DEF Most
    <3>3. UnitOf(a) = u /\ Cursor(a) = lastSync[a]
      BY <1>w, <2>3, <3>2
    <3> QED BY <1>0, <2>1, <2>3, <3>2, <3>3 DEF Cursor
  <2>4. CASE a \notin addrs[u]
    BY <1>0, <1>r, <2>1, <2>4 DEF Cursor
  <2> QED BY <2>2, <2>3, <2>4
<1>4a. \A a \in Adapter : Active(a) => Cursor(a)' = IF a \in R THEN b ELSE Cursor(a)
  BY <1>4 DEF Active
<1>5. \A n \in New : Cursor(n)' = FirstLogAt[n] - 1
  <2> SUFFICES ASSUME NEW n \in New PROVE Cursor(n)' = FirstLogAt[n] - 1
    OBVIOUS
  <2>1. UnitOf(n) \in Unit /\ lvl \in Nat /\ LevelOf[UnitOf(n)] > lvl
    BY <1>n, UnitFacts, Values DEF IInv
  <2>2. phase[UnitOf(n)] # "apply"
    BY <2>1, Applying
  <2> QED BY <1>0, <1>a, <1>n, <2>2 DEF Cursor
<1>6. CountInv'
  <2>1. \A a \in Adapter, x \in Block :
           Total(a, x)' = IF a \in R /\ x = b THEN Total(a, x) + 1 ELSE Total(a, x)
    <3> SUFFICES ASSUME NEW a \in Adapter, NEW x \in Block
                 PROVE Total(a, x)' = IF a \in R /\ x = b THEN Total(a, x) + 1 ELSE Total(a, x)
      OBVIOUS
    <3>1. pending[a][x] \in Nat /\ dbApplied[a][x] \in Nat
      BY Values DEF IInv
    <3>2. pending'[a][x] = IF a \in R /\ x = b THEN pending[a][x] + 1 ELSE pending[a][x]
      BY <1>0
    <3>3. dbApplied' = dbApplied /\ pc' = pc /\ pc # "debt"
      BY <1>0, <1>w DEF db
    <3> QED BY <3>1, <3>2, <3>3 DEF Total
  <2>2. ASSUME NEW a \in Adapter, Active(a)
        PROVE  \A x \in Block : Total(a, x) = Due(a, x, Cursor(a))
    BY <2>2 DEF IInv, CountInv
  <2>3. ASSUME NEW a \in R, NEW x \in Block
        PROVE  Total(a, x)' = Due(a, x, b) /\ Total(a, x)' <= 1
    <3>1. Total(a, x) = Due(a, x, b - 1) /\ a \in Adapter
      BY <1>r, <2>2
    <3>2. FirstLogAt[a] \in Nat /\ FirstLogAt[a] - 1 <= lastSync[a] /\ lastSync[a] < b
          /\ lastSync[a] \in Nat
      BY <1>r, <1>t DEF IInv, CountInv
    <3>3. x \in Nat
      BY ConstantFacts
    <3>4. CASE x = b
      BY <1>t, <2>1, <3>1, <3>2, <3>3, <3>4 DEF Due
    <3>5. CASE x # b
      BY <1>t, <2>1, <3>1, <3>2, <3>3, <3>5 DEF Due
    <3> QED BY <3>4, <3>5
  <2>4. \A a \in Adapter, x \in Block : Total(a, x)' <= 1
    BY <2>1, <2>3 DEF IInv, CountInv
  <2>5. ASSUME NEW n \in New, NEW x \in Block PROVE Total(n, x)' = Due(n, x, Cursor(n)')
    <3>1. n \notin R /\ n \in Adapter /\ n \notin known /\ n \notin dbKnown
      BY <1>n, <1>r DEF Active
    <3>2. Total(n, x) = 0
      BY <3>1 DEF Total, IInv, CountInv, DbCountInv
    <3> QED BY <1>5, <2>1, <3>1, <3>2, NothingDue
  <2>6. ASSUME NEW a \in Adapter, Active(a)'
        PROVE  /\ FirstLogAt[a] - 1 <= lastSync'[a]
               /\ \A x \in Block : Total(a, x)' = Due(a, x, Cursor(a)')
    <3>1. CASE a \in New
      BY <1>a, <1>t, <2>5, <3>1
    <3>2. CASE a \notin New /\ a \in R
      BY <1>a, <1>4a, <1>r, <2>3, <2>6, <3>2 DEF IInv, CountInv
    <3>3. CASE a \notin New /\ a \notin R
      BY <1>a, <1>4a, <2>1, <2>2, <2>6, <3>3 DEF IInv, CountInv
    <3> QED BY <3>1, <3>2, <3>3
  <2>7. \A a \in Adapter \ (known \cup dbKnown)', x \in Block : pending'[a][x] = 0
    BY <1>0, <1>r DEF IInv, CountInv, Active, db
  <2> QED BY <1>0, <1>w, <2>4, <2>6, <2>7 DEF CountInv
<1>7. DbCountInv'
  BY <1>0 DEF IInv, DbCountInv, DbActive, db
<1>8. RegisteredInv'
  <2>1. ASSUME NEW n \in Discovered, n \in (known \cup dbKnown)'
        PROVE  /\ AddedBy[n] \in (known \cup dbKnown)'
               /\ Active(AddedBy[n])' => AddedAt[n] <= Cursor(AddedBy[n])'
    <3>1. CASE n \in New
      <4>1. AddedBy[n] \in R /\ AddedAt[n] = b /\ Active(AddedBy[n]) /\ AddedBy[n] \in Adapter
        BY <1>n, <1>r, <3>1
      <4>2. Cursor(AddedBy[n])' = b
        BY <1>4a, <4>1
      <4> QED BY <1>0, <1>t, <4>1, <4>2 DEF Active
    <3>2. CASE n \notin New
      <4>1. n \in known \cup dbKnown /\ AddedBy[n] \in Adapter
        BY <1>0, <2>1, <3>2, ConstantFacts DEF db
      <4>2. /\ AddedBy[n] \in known \cup dbKnown
            /\ Active(AddedBy[n]) => AddedAt[n] <= Cursor(AddedBy[n])
        BY <4>1 DEF IInv, RegisteredInv
      <4>3. AddedBy[n] \notin New
        BY <1>n, <4>2
      <4>4. AddedAt[n] \in Nat
        BY ConstantFacts
      <4>5. Active(AddedBy[n]) => AddedAt[n] <= Cursor(AddedBy[n])'
        <5>1. CASE AddedBy[n] \in R
          BY <1>4a, <1>r, <1>t, <4>1, <4>2, <4>4, <5>1
        <5>2. CASE AddedBy[n] \notin R
          BY <1>4a, <4>1, <4>2, <5>2
        <5> QED BY <5>1, <5>2
      <4> QED BY <1>0, <1>a, <4>1, <4>2, <4>3, <4>5 DEF db
    <3> QED BY <3>1, <3>2
  <2> QED BY <1>0, <2>1 DEF IInv, RegisteredInv, DbActive, db
<1>9. TogetherInv'
  <2>1. \A s, a \in Core \cap DbActive' : dbLastSync'[s] = dbLastSync'[a]
    BY <1>0 DEF IInv, TogetherInv, DbActive, db
  <2>2. ASSUME NEW s \in Core, NEW a \in Core, Active(s)', Active(a)'
        PROVE  lastSync'[a] <= Most(till', lastSync'[s])
    <3>1. /\ s \in Adapter /\ a \in Adapter /\ till' = till
          /\ lastSync'[s] \in Nat /\ lastSync'[a] \in Nat
      BY <1>0, <1>1, CoreFacts, NumberFacts DEF TypeOK, MemoryType
    <3>2. CASE New # {}
      <4>1. lastSync'[a] <= till
        BY <1>a, <1>l, <1>n, <1>t, <2>2, <3>1, <3>2
      <4> QED BY <1>t, <3>1, <4>1 DEF Most
    <3>3. CASE New = {}
      BY <1>a, <2>2, <3>1, <3>3 DEF IInv, TogetherInv
    <3> QED BY <3>2, <3>3
  <2>3. ASSUME NEW w \in Wrapper, NEW a \in ActiveMembers(w)'
        PROVE  /\ wrapperSync'[w] <= lastSync'[a]
               /\ lastSync'[a] <= Most(wrapperSync'[w], till')
    <3>1. /\ a \in Members(w) /\ a \in Adapter /\ a \in Core /\ Active(a)' /\ till' = till
          /\ lastSync'[a] \in Nat
      BY <1>0, <1>1, <2>3, UnitFacts, CoreFacts, ConstantFacts, NumberFacts
         DEF ActiveMembers, Active, TypeOK, MemoryType
    <3>2. ~(a \in New) =>
            /\ a \in ActiveMembers(w) /\ lastSync'[a] = lastSync[a]
            /\ wrapperSync[w] <= lastSync[a] /\ lastSync[a] <= Most(wrapperSync[w], till)
      BY <1>a, <3>1 DEF IInv, TogetherInv, ActiveMembers, Active
    <3>3. wrapperSync'[w] <= lastSync'[a]
      BY <1>a, <1>s, <3>1, <3>2
    <3>4. CASE New # {}
      <4>1. lastSync'[a] <= till
        BY <1>a, <1>l, <1>n, <1>t, <3>1, <3>4
      <4> QED BY <1>s, <1>t, <3>1, <3>3, <4>1 DEF Most
    <3>5. CASE New = {}
      BY <1>s, <3>1, <3>2, <3>3, <3>5
    <3> QED BY <3>4, <3>5
  <2> QED BY <2>1, <2>2, <2>3 DEF TogetherInv
<1>10. BarrierInv'
  <2>1. \A a \in Timely : a \in Adapter
    BY CoreFacts
  <2>2. pc' = "wait" => \A a \in Timely \cap known' : LevelOf[UnitOf(a)] = lvl' => UnitOf(a) \in seen'
    <3>1. \A n \in New : LevelOf[UnitOf(n)] # lvl
      BY <1>n, UnitFacts, ConstantFacts, Values DEF IInv
    <3> QED BY <1>0, <3>1 DEF IInv, BarrierInv
  <2>3. ASSUME NEW a \in Timely, Active(a)'
        PROVE  \/ till <= lastSync'[a]
               \/ LevelOf[UnitOf(a)] > lvl
               \/ LevelOf[UnitOf(a)] = lvl /\ (UnitOf(a) \notin seen \/ phase[UnitOf(a)] # "idle")
    BY <1>a, <1>n, <1>w, <2>1, <2>3 DEF IInv, BarrierInv
  <2> QED BY <1>0, <1>w, <2>2, <2>3 DEF BarrierInv
<1>f0. FoundInv'
  <2>1. ASSUME NEW n \in Discovered, AddedBy[n] \in known',
               FirstLogAt[AddedBy[n]] <= AddedAt[n], AddedAt[n] <= Cursor(AddedBy[n])'
        PROVE  n \in (known \cup dbKnown)'
    <3>1. /\ AddedBy[n] \in Adapter /\ AddedAt[n] \in Nat /\ FirstLogAt[AddedBy[n]] \in Nat
          /\ dbKnown' = dbKnown
      BY <1>0, ConstantFacts DEF db
    <3>2. CASE AddedBy[n] \in New
      BY <1>5, <2>1, <3>1, <3>2
    <3>3. CASE AddedBy[n] \in R
      <4>1. /\ AddedAt[n] <= b /\ AddedBy[n] \in known /\ Cursor(AddedBy[n]) = b - 1
        BY <1>4a, <1>r, <2>1, <3>1, <3>3 DEF Active
      <4>2. CASE AddedAt[n] = b
        BY <1>0, <3>3, <4>2 DEF New
      <4>3. CASE AddedAt[n] # b
        <5>1. AddedAt[n] <= Cursor(AddedBy[n])
          BY <1>t, <3>1, <4>1, <4>3
        <5> QED BY <1>0, <2>1, <3>1, <4>1, <5>1 DEF IInv, FoundInv
      <4> QED BY <4>2, <4>3
    <3>4. CASE AddedBy[n] \notin New /\ AddedBy[n] \notin R
      <4>1. AddedBy[n] \in known /\ AddedAt[n] <= Cursor(AddedBy[n])
        BY <1>0, <1>4, <2>1, <3>1, <3>4
      <4> QED BY <1>0, <2>1, <3>1, <4>1 DEF IInv, FoundInv
    <3> QED BY <3>2, <3>3, <3>4
  <2> QED BY <1>0, <2>1 DEF IInv, FoundInv, NothingForgotten, db
<1> QED BY <1>f0, <1>1, <1>2, <1>3, <1>6, <1>7, <1>8, <1>9, <1>10 DEF IInv

LEMMA FinishModelIInv ==
    ASSUME ResyncIsLocal, IInv, NEW u \in Unit, FinishModel(u)
    PROVE  IInv'
<1> DEFINE h == Least(BlockToDisableOn(u), upto[u])
           New == IF u \in Wrapper THEN {} ELSE Rotated(u, h)
           Fin == ActiveMembers(u)
<1>0. /\ phase[u] = "apply" /\ pos[u] > upto[u]
      /\ AfterSyncHook(Fin, h, New)
      /\ phase'[u] = "idle" /\ \A v \in Unit : v # u => phase'[v] = phase[v]
      /\ UNCHANGED <<head, pc, latest, till, lvl, seen, pos, upto, addrs, wrapperSync,
                     pending, db>>
  BY DEF FinishModel, IInv, TypeOK, JobType, control
<1>w. /\ InRound /\ pc \notin {"down", "flush", "debt"} /\ LevelOf[u] = lvl
      /\ addrs[u] = Fin
      /\ \A a \in Fin : a \in Adapter /\ UnitOf(a) = u /\ Active(a)
      /\ GetLastSync(u) < till /\ upto[u] <= till
      /\ upto[u] = Least(BlockToDisableOn(u), till)
      /\ u \in Plain => Fin = {u} /\ GetLastSync(u) = lastSync[u]
      /\ \A a \in Fin : Cursor(a) = Most(lastSync[a], pos[u] - 1)
  BY <1>0, Applying
<1>t. /\ till \in Nat /\ upto[u] \in Nat /\ head \in Nat /\ pos[u] \in Nat
      /\ GetLastSync(u) \in Nat /\ BlockToDisableOn(u) \in Nat
      /\ \A a \in Adapter : /\ lastSync[a] \in Nat /\ FirstLogAt[a] \in Nat /\ FirstLogAt[a] >= 1
                            /\ AddedAt[a] \in Nat /\ AddedAt[a] >= 1 /\ disableOn[a] \in Nat
                            /\ FirstLogAt[a] <= AddedAt[a]
      /\ till <= head /\ till <= MaxBlock
  <2>1. till <= head
    BY DEF IInv, HeadInv
  <2> QED BY <2>1, Values, ConstantFacts DEF IInv
<1>h. h = upto[u] /\ h \in Nat /\ h <= till
  BY <1>w, <1>t DEF Least
<1>n. \A n \in New : /\ n \in ViaHook /\ n \in Adapter /\ n \in Plain
                     /\ n \notin known /\ n \notin dbKnown
                     /\ n \notin Core /\ n \notin Timely
                     /\ n \notin Discovered /\ AddedAt[n] <= h /\ u \in Plain /\ n \notin Fin
  BY <1>w, CoreFacts, UnitFacts DEF Rotated, Active, Timely
<1>p. New # {} => (CHOOSE n \in New : TRUE) \in New
  OBVIOUS
<1>o. ASSUME NEW a \in Fin
      PROVE  /\ New # {} => disabled'[a]
             /\ New = {} => (disabled'[a] <=> disableOn[a] # 0 /\ h >= disableOn[a])
  <2>1. a \in Adapter /\ a \notin New /\ ~disabled[a]
    BY <1>w, <1>n DEF Active
  <2>2. CASE New # {}
    <3> DEFINE m == CHOOSE n \in New : TRUE
    <3>1. m \in New
      BY <1>p, <2>2
    <3>2. AddedAt[m] # 0 /\ h >= AddedAt[m]
      BY <1>n, <1>t, <1>h, <3>1
    <3> HIDE DEF m
    <3> QED BY <1>0, <2>1, <2>2, <3>2 DEF AfterSyncHook, m
  <2>3. CASE New = {}
    <3> HIDE DEF New, h, Fin
    <3> QED BY <1>0, <2>1, <2>3 DEF AfterSyncHook
  <2> QED BY <2>2, <2>3
<1>f. ASSUME NEW a \in Adapter
      PROVE  /\ lastSync'[a] = IF a \in New THEN FirstLogAt[a] - 1
                               ELSE IF a \in Fin THEN h ELSE lastSync[a]
             /\ a \in New => ~disabled'[a]
             /\ a \notin Fin /\ a \notin New =>
                  disabled'[a] = disabled[a] /\ disableOn'[a] = disableOn[a]
             /\ known' = known \cup New
  <2> HIDE DEF New, h, Fin
  <2>1. a \notin Fin /\ a \notin New => disabled'[a] = disabled[a]
    BY <1>0 DEF AfterSyncHook, IInv, TypeOK, MemoryType
  <2> QED BY <1>0, <2>1 DEF AfterSyncHook, LastSyncWith
\* An adapter that stays active has been synced up to the round's target.
<1>a. ASSUME NEW a \in Fin, ~disabled'[a]
      PROVE  h = till /\ New = {} /\ lastSync[a] <= till /\ Cursor(a) = till
  <2>1. New = {} /\ ~(disableOn[a] # 0 /\ h >= disableOn[a]) /\ a \in Adapter
    BY <1>a, <1>o, <1>w
  <2>2. h = till
    <3>1. CASE u \in Wrapper
      <4>1. BlockToDisableOn(u) = MaxBlock + 1
        BY <3>1 DEF BlockToDisableOn, Never
      <4>2. upto[u] = Least(MaxBlock + 1, till)
        BY <1>w, <4>1
      <4>3. upto[u] = till
        BY <1>t, <4>2, BoundsAssumption DEF Least
      <4> QED BY <1>h, <4>3
    <3>2. CASE u \in Plain
      <4>1. a = u /\ u \notin Wrapper
        BY <1>w, <3>2, UnitFacts
      <4>2. BlockToDisableOn(u) = IF disableOn[a] = 0 THEN MaxBlock + 1 ELSE disableOn[a]
        BY <4>1 DEF BlockToDisableOn, Never
      <4> QED BY <1>h, <1>w, <1>t, <2>1, <4>2, BoundsAssumption DEF Least
    <3> QED BY <3>1, <3>2, UnitFacts
  <2>3. pos[u] = till + 1
    <3>1. pos[u] <= upto[u] + 1 \/ pos[u] = GetLastSync(u) + 1
      BY <1>0 DEF IInv, JobInv
    <3> QED BY <1>0, <1>h, <1>w, <1>t, <2>2, <3>1
  <2>4. lastSync[a] <= till
    <3>1. CASE u \in Wrapper
      <4>1. lastSync[a] <= Most(wrapperSync[u], till) /\ GetLastSync(u) = wrapperSync[u]
        BY <3>1 DEF IInv, TogetherInv, GetLastSync
      <4> QED BY <1>w, <1>t, <4>1 DEF Most
    <3>2. CASE u \in Plain
      BY <1>w, <1>t, <2>1, <3>2
    <3> QED BY <3>1, <3>2, UnitFacts
  <2>5. Most(lastSync[a], pos[u] - 1) = till
    BY <1>t, <2>1, <2>3, <2>4 DEF Most
  <2> QED BY <1>w, <2>1, <2>2, <2>4, <2>5
<1> HIDE DEF h, New, Fin
<1>b. \A a \in Adapter : /\ Active(a)' <=> a \in New \/ (Active(a) /\ (a \in Fin => ~disabled'[a]))
                         /\ a \in New => ~Active(a)
                         /\ a \in Fin => a \notin New /\ Active(a)
  BY <1>f, <1>n, <1>w DEF Active
\* The units still running are not touched.
<1>k. ASSUME NEW v \in Unit, v # u, phase[v] # "idle"
      PROVE  /\ ActiveMembers(v)' = ActiveMembers(v)
             /\ BlockToDisableOn(v)' = BlockToDisableOn(v)
             /\ GetLastSync(v)' = GetLastSync(v)
             /\ v \in Plain => Active(v)'
  <2>1. v \in Plain => Active(v)
    BY <1>k DEF IInv, JobInv
  <2>2. ASSUME NEW a \in Members(v) PROVE a \in Adapter /\ a \notin Fin /\ a \notin New
    <3>1. a \in Adapter /\ UnitOf(a) = v
      BY UnitFacts
    <3>2. a \notin Fin
      BY <1>k, <1>w, <3>1
    <3>3. a \notin New
      <4>1. CASE v \in Plain
        <5>1. a = v
          BY <4>1, UnitFacts
        <5> QED BY <1>n, <2>1, <4>1, <5>1 DEF Active
      <4>2. CASE v \in Wrapper
        BY <1>n, <4>2, UnitFacts
      <4> QED BY <4>1, <4>2, UnitFacts
    <3> QED BY <3>1, <3>2, <3>3
  <2>3. ActiveMembers(v)' = ActiveMembers(v)
    BY <1>f, <2>2 DEF ActiveMembers
  <2>4. CASE v \in Wrapper
    BY <1>0, <2>3, <2>4, UnitFacts DEF GetLastSync, BlockToDisableOn
  <2>5. CASE v \in Plain
    <3>1. v \in Adapter /\ v \notin Fin /\ v \notin New /\ v \notin Wrapper
      BY <2>2, <2>5, UnitFacts
    <3> QED BY <1>f, <1>b, <2>1, <2>3, <2>5, <3>1 DEF GetLastSync, BlockToDisableOn
  <2> QED BY <2>4, <2>5, UnitFacts
<1>1. TypeOK'
  BY FinishModelType DEF IInv
<1>2. HeadInv'
  <2>1. \A a \in Adapter : lastSync[a] <= head /\ dbLastSync[a] <= head
    BY DEF IInv, HeadInv
  <2>2. \A n \in New : FirstLogAt[n] <= head
    BY <1>n, <1>t, <1>h
  <2>3. \A a \in Adapter : lastSync'[a] <= head
    BY <1>f, <1>h, <1>t, <2>1, <2>2
  <2>4. \A a \in (known \cup dbKnown)' : FirstLogAt[a] <= head
    <3>1. (known \cup dbKnown)' \subseteq known \cup New \cup dbKnown
      BY <1>0 DEF AfterSyncHook, db
    <3> QED BY <2>2, <3>1 DEF IInv, HeadInv
  <2> QED BY <1>0, <2>1, <2>3, <2>4 DEF IInv, HeadInv, db
<1>3. JobInv'
  <2>1. /\ pc' = "down" => known' = {}
        /\ \A v \in seen' : LevelOf[v] = lvl'
    BY <1>0, <1>w DEF IInv, JobInv
  <2>2. ASSUME NEW v \in Unit, phase'[v] # "idle"
        PROVE  v # u /\ phase'[v] = phase[v]
    BY <1>0, <2>2
  <2>3. ASSUME NEW v \in Unit, phase'[v] # "idle"
        PROVE  InRound' /\ v \in seen' /\ (v \in Plain => Active(v)')
    BY <1>0, <1>k, <1>w, <2>2, <2>3 DEF IInv, JobInv, InRound
  <2>4. ASSUME NEW v \in Unit, phase'[v] = "apply"
        PROVE  /\ addrs'[v] = ActiveMembers(v)'
               /\ upto'[v] = Least(BlockToDisableOn(v)', till')
               /\ GetLastSync(v)' < till' /\ GetLastSync(v)' < pos'[v]
               /\ pos'[v] <= upto'[v] + 1 \/ pos'[v] = GetLastSync(v)' + 1
    BY <1>0, <1>k, <2>2, <2>4 DEF IInv, JobInv
  <2> QED BY <2>1, <2>3, <2>4 DEF JobInv
\* The cursor of an adapter that stays active does not move.
<1>4. ASSUME NEW a \in Adapter, Active(a), Active(a)'
      PROVE  Cursor(a)' = Cursor(a) /\ lastSync[a] <= lastSync'[a]
  <2>1. a \notin New /\ UnitOf(a) \in Unit
    BY <1>4, <1>b, UnitFacts
  <2>2. CASE a \in Fin
    <3>1. ~disabled'[a]
      BY <1>4 DEF Active
    <3>2. h = till /\ lastSync[a] <= till /\ Cursor(a) = till
      BY <1>a, <2>2, <3>1
    <3>3. lastSync'[a] = till /\ UnitOf(a) = u
      BY <1>f, <1>w, <2>1, <2>2, <3>2
    <3> QED BY <1>0, <3>2, <3>3 DEF Cursor
  <2>3. CASE a \notin Fin
    <3>1. lastSync'[a] = lastSync[a] /\ lastSync[a] \in Nat
      BY <1>f, <1>t, <2>1, <2>3
    <3>2. CASE UnitOf(a) = u
      BY <1>0, <1>w, <2>3, <3>1, <3>2 DEF Cursor
    <3>3. CASE UnitOf(a) # u
      BY <1>0, <2>1, <3>1, <3>3 DEF Cursor
    <3> QED BY <3>2, <3>3
  <2> QED BY <2>2, <2>3
<1>5. \A n \in New : Cursor(n)' = FirstLogAt[n] - 1
  <2> SUFFICES ASSUME NEW n \in New PROVE Cursor(n)' = FirstLogAt[n] - 1
    OBVIOUS
  <2>1. n \in Adapter /\ UnitOf(n) = n /\ n \in Unit /\ ~Active(n)
    BY <1>n, <1>b, UnitFacts
  <2>2. phase[n] # "apply"
    BY <1>n, <2>1 DEF IInv, JobInv
  <2>3. phase'[n] # "apply"
    BY <1>0, <2>1, <2>2
  <2> QED BY <1>f, <2>1, <2>3 DEF Cursor
<1>6. CountInv'
  <2>1. \A a \in Adapter, x \in Block : Total(a, x)' = Total(a, x)
    BY <1>0 DEF Total, db
  <2>2. ASSUME NEW a \in Adapter, Active(a)'
        PROVE  /\ FirstLogAt[a] - 1 <= lastSync'[a]
               /\ \A x \in Block : Total(a, x)' = Due(a, x, Cursor(a)')
    <3>1. CASE a \in New
      <4>1. \A x \in Block : Total(a, x) = 0
        BY <1>n, <3>1 DEF Total, IInv, CountInv, DbCountInv
      <4>2. lastSync'[a] = FirstLogAt[a] - 1 /\ FirstLogAt[a] \in Nat
        BY <1>f, <1>t, <3>1
      <4> QED BY <1>5, <2>1, <3>1, <4>1, <4>2, NothingDue
    <3>2. CASE a \notin New
      <4>1. Active(a) /\ lastSync'[a] \in Nat
        BY <1>1, <1>b, <2>2, <3>2, NumberFacts DEF TypeOK, MemoryType
      <4>2. Cursor(a)' = Cursor(a) /\ lastSync[a] <= lastSync'[a]
        BY <1>4, <2>2, <4>1
      <4>3. /\ FirstLogAt[a] - 1 <= lastSync[a]
            /\ \A x \in Block : Total(a, x) = Due(a, x, Cursor(a))
        BY <4>1 DEF IInv, CountInv
      <4> QED BY <1>t, <2>1, <4>1, <4>2, <4>3
    <3> QED BY <3>1, <3>2
  <2>3. known' = known \cup New
    BY <1>0 DEF AfterSyncHook
  <2> QED BY <1>0, <1>w, <2>1, <2>2, <2>3 DEF IInv, CountInv, db
<1>7. DbCountInv'
  BY <1>0 DEF IInv, DbCountInv, DbActive, db
<1>8. RegisteredInv'
  <2>1. known' = known \cup New /\ dbKnown' = dbKnown /\ DbActive' = DbActive
    BY <1>0 DEF AfterSyncHook, DbActive, db
  <2>2. ASSUME NEW n \in Discovered, n \in (known \cup dbKnown)'
        PROVE  /\ AddedBy[n] \in (known \cup dbKnown)'
               /\ Active(AddedBy[n])' => AddedAt[n] <= Cursor(AddedBy[n])'
    <3>1. n \in known \cup dbKnown /\ AddedBy[n] \in Adapter
      BY <1>n, <2>1, <2>2, ConstantFacts
    <3>2. /\ AddedBy[n] \in known \cup dbKnown
          /\ Active(AddedBy[n]) => AddedAt[n] <= Cursor(AddedBy[n])
      BY <3>1 DEF IInv, RegisteredInv
    <3>3. Active(AddedBy[n])' => Active(AddedBy[n])
      BY <1>b, <1>n, <3>1, <3>2
    <3> QED BY <1>4, <2>1, <3>1, <3>2, <3>3
  <2> QED BY <1>0, <2>1, <2>2 DEF IInv, RegisteredInv, db
<1>9. TogetherInv'
  <2>1. \A s, a \in Core \cap DbActive' : dbLastSync'[s] = dbLastSync'[a]
    BY <1>0 DEF IInv, TogetherInv, DbActive, db
  \* An active core adapter is as before or at the target.
  <2>2. ASSUME NEW a \in Core, Active(a)'
        PROVE  /\ a \in Adapter /\ Active(a) /\ lastSync[a] \in Nat
               /\ a \notin Fin => lastSync'[a] = lastSync[a]
               /\ a \in Fin => lastSync'[a] = till /\ lastSync[a] <= till
    <3>1. a \in Adapter /\ a \notin New
      BY <1>n, CoreFacts
    <3>2. Active(a) /\ (a \in Fin => ~disabled'[a])
      BY <1>b, <2>2, <3>1
    <3> QED BY <1>a, <1>f, <1>t, <3>1, <3>2
  <2>3. ASSUME NEW s \in Core, NEW a \in Core, Active(s)', Active(a)'
        PROVE  lastSync'[a] <= Most(till', lastSync'[s])
    <3>1. lastSync[a] <= Most(till, lastSync[s]) /\ till' = till
      BY <1>0, <2>2, <2>3 DEF IInv, TogetherInv
    <3>2. /\ lastSync[a] \in Nat /\ lastSync[s] \in Nat
          /\ lastSync'[a] = lastSync[a] \/ lastSync'[a] = till
          /\ lastSync'[s] = lastSync[s] \/ (lastSync'[s] = till /\ lastSync[s] <= till)
      BY <2>2, <2>3
    <3> QED BY <1>t, <3>1, <3>2 DEF Most
  <2>4. ASSUME NEW w \in Wrapper, NEW a \in ActiveMembers(w)'
        PROVE  /\ wrapperSync'[w] <= lastSync'[a]
               /\ lastSync'[a] <= Most(wrapperSync'[w], till')
    <3>1. a \in Members(w) /\ a \in Core /\ Active(a)' /\ UnitOf(a) = w
      BY <2>4, UnitFacts, CoreFacts, ConstantFacts DEF ActiveMembers, Active
    <3>2. a \in ActiveMembers(w) /\ lastSync[a] \in Nat /\ wrapperSync[w] \in Nat
      BY <2>2, <3>1, Values DEF IInv, ActiveMembers, Active
    <3>3. wrapperSync[w] <= lastSync[a] /\ lastSync[a] <= Most(wrapperSync[w], till)
      BY <3>2 DEF IInv, TogetherInv
    <3>4. wrapperSync' = wrapperSync /\ till' = till
      BY <1>0
    <3>5. CASE a \in Fin
      <4>1. lastSync'[a] = till /\ lastSync[a] <= till
        BY <2>2, <3>1, <3>5
      <4> QED BY <1>t, <3>2, <3>3, <3>4, <4>1 DEF Most
    <3>6. CASE a \notin Fin
      <4>1. lastSync'[a] = lastSync[a]
        BY <2>2, <3>1, <3>6
      <4> QED BY <3>3, <3>4, <4>1
    <3> QED BY <3>5, <3>6
  <2> QED BY <2>1, <2>3, <2>4 DEF TogetherInv
<1>10. BarrierInv'
  <2>1. pc' = "wait" => \A a \in Timely \cap known' : LevelOf[UnitOf(a)] = lvl' => UnitOf(a) \in seen'
    <3>1. Timely \cap known' \subseteq Timely \cap known
      BY <1>0, <1>n DEF AfterSyncHook
    <3> QED BY <1>0, <3>1 DEF IInv, BarrierInv
  <2>2. ASSUME NEW a \in Timely, Active(a)'
        PROVE  \/ till <= lastSync'[a]
               \/ LevelOf[UnitOf(a)] > lvl
               \/ LevelOf[UnitOf(a)] = lvl /\ (UnitOf(a) \notin seen \/ phase'[UnitOf(a)] # "idle")
    <3>1. a \in Adapter /\ a \notin New /\ UnitOf(a) \in Unit
      BY <1>n, CoreFacts, UnitFacts
    <3>2. Active(a) /\ (a \in Fin => ~disabled'[a])
      BY <1>b, <2>2, <3>1
    <3>3. CASE a \in Fin
      BY <1>a, <1>f, <1>t, <3>1, <3>2, <3>3
    <3>4. CASE a \notin Fin
      <4>1. lastSync'[a] = lastSync[a]
        BY <1>f, <3>1, <3>4
      <4>2. UnitOf(a) # u
        BY <3>1, <3>2, <3>4, UnitFacts DEF Fin, ActiveMembers, Active
      <4>3. phase'[UnitOf(a)] = phase[UnitOf(a)]
        BY <1>0, <3>1, <4>2
      <4> QED BY <1>w, <3>2, <4>1, <4>3 DEF IInv, BarrierInv
    <3> QED BY <3>3, <3>4
  <2> QED BY <1>0, <1>w, <2>1, <2>2 DEF BarrierInv
<1>f0. FoundInv'
  <2>1. ASSUME NEW a \in known PROVE Cursor(a)' <= Cursor(a) /\ Cursor(a)' \in Nat /\ Cursor(a) \in Nat
    <3>1. a \in Adapter /\ a \notin New /\ UnitOf(a) \in Unit
      BY <1>n, UnitFacts DEF IInv, TypeOK, MemoryType
    <3>2. CASE a \in Fin
      <4>1. Cursor(a)' = h
        BY <1>0, <1>f, <1>w, <3>1, <3>2 DEF Cursor
      <4>2. Cursor(a) = Most(lastSync[a], pos[u] - 1)
        BY <1>w, <3>2
      <4> QED BY <1>0, <1>h, <1>t, <3>1, <4>1, <4>2 DEF Most
    <3>3. CASE a \notin Fin
      <4>1. lastSync'[a] = lastSync[a]
        BY <1>f, <3>1, <3>3
      <4>2. Cursor(a)' = Cursor(a)
        BY <1>0, <1>w, <3>1, <3>3, <4>1 DEF Cursor
      <4>3. Cursor(a) \in Nat
        <5>1. CASE phase[UnitOf(a)] = "apply"
          <6>1. pos[UnitOf(a)] \in Nat /\ lastSync[a] \in Nat
            BY <1>t, <3>1, Values DEF IInv
          <6> QED BY <6>1 DEF Cursor, Most
        <5>2. CASE phase[UnitOf(a)] # "apply"
          BY <1>t, <3>1, <5>2 DEF Cursor
        <5> QED BY <5>1, <5>2
      <4> QED BY <4>2, <4>3
    <3> QED BY <3>2, <3>3
  <2>2. known' = known \cup New /\ dbKnown' = dbKnown /\ dbLastSync' = dbLastSync
    BY <1>0 DEF AfterSyncHook, db
  <2>3. ASSUME NEW n \in Discovered, AddedBy[n] \in known',
               FirstLogAt[AddedBy[n]] <= AddedAt[n], AddedAt[n] <= Cursor(AddedBy[n])'
        PROVE  n \in known \cup dbKnown
    <3>1. AddedBy[n] \in Core /\ AddedAt[n] \in Nat
      BY CoreFacts, ConstantFacts
    <3>2. AddedBy[n] \in known
      BY <1>n, <2>2, <2>3, <3>1
    <3>3. AddedAt[n] <= Cursor(AddedBy[n])
      BY <2>1, <2>3, <3>1, <3>2
    <3> QED BY <2>3, <3>2, <3>3 DEF IInv, FoundInv
  <2> QED BY <2>2, <2>3 DEF IInv, FoundInv, NothingForgotten
<1> QED BY <1>f0, <1>1, <1>2, <1>3, <1>6, <1>7, <1>8, <1>9, <1>10 DEF IInv

-----------------------------------------------------------------------------
(***************************************************************************)
(* The theorem                                                             *)
(***************************************************************************)

LEMMA StutterIInv == ASSUME IInv, UNCHANGED vars PROVE IInv'
<1>1. TypeOK'
  BY NextType DEF IInv
<1>2. HeadInv' /\ JobInv'
  BY DEF IInv, vars, HeadInv, JobInv, InRound, control, jobs, memory, db, Active,
         ActiveMembers, BlockToDisableOn, GetLastSync
<1>3. CountInv' /\ DbCountInv'
  BY DEF IInv, vars, CountInv, DbCountInv, jobs, memory, db, Active, Total, Cursor, DbActive
<1>4. RegisteredInv' /\ TogetherInv' /\ BarrierInv'
  BY DEF IInv, vars, RegisteredInv, TogetherInv, BarrierInv, control, jobs, memory, db,
         InRound, Active, ActiveMembers, Cursor, DbActive
<1>f0. FoundInv'
  BY DEF IInv, vars, FoundInv, NothingForgotten, jobs, memory, db, Cursor
<1> QED BY <1>f0, <1>1, <1>2, <1>3, <1>4 DEF IInv

LEMMA NextIInv == ASSUME ResyncIsLocal, IInv, [Next]_vars PROVE IInv'
<1>1. CASE UNCHANGED vars
  BY <1>1, StutterIInv
<1>2. CASE Next
  BY <1>2, NewBlockIInv, CrashIInv, ResyncIInv, ScratchIInv, FromDbIInv, BeginIInv,
     EndIterationIInv, EndLevelIInv, LaunchIInv, StartModelIInv, ApplyBlockIInv,
     FinishModelIInv, FlushIInv, ClearIInv DEF Next, EngineStep
<1> QED BY <1>1, <1>2

LEMMA IInvExactlyOnce == ASSUME IInv PROVE ExactlyOnce
<1>1. ASSUME NEW a \in Adapter, NEW b \in Block PROVE dbApplied[a][b] <= 1
  <2>1. Total(a, b) <= 1
    BY DEF IInv, CountInv
  <2>2. dbApplied[a][b] \in Nat /\ pending[a][b] \in Nat
    BY Values DEF IInv
  <2> QED BY <2>1, <2>2 DEF Total
<1>2. \A a \in DbActive, b \in Block : dbApplied[a][b] = Due(a, b, dbLastSync[a])
  BY DEF IInv, DbCountInv
<1> QED BY <1>1, <1>2 DEF ExactlyOnce, CommittedOnce, Due

(***************************************************************************)
(* Whatever the goroutines' order, wherever the process is killed and      *)
(* restarted, no log of any adapter is committed twice and the committed   *)
(* logs of an active adapter are the ones up to its committed last_sync,   *)
(* when an operator resets only adapters that are scheduled by themselves  *)
(* and register no others.                                                 *)
(***************************************************************************)
THEOREM LogsCommittedExactlyOnce ==
    ASSUME ResyncIsLocal
    PROVE  Spec => []ExactlyOnce
<1>1. Init => IInv
  BY InitIInv
<1>2. IInv /\ [Next]_vars => IInv'
  BY NextIInv
<1>3. IInv => ExactlyOnce
  BY IInvExactlyOnce
<1> QED BY <1>1, <1>2, <1>3, PTL DEF Spec

(***************************************************************************)
(* Under the same condition a contract named by a committed log is a       *)
(* committed adapter: no crash, order of goroutines or refetching wrapper  *)
(* separates the log from AddSyncAdapter's row.                            *)
(***************************************************************************)
THEOREM NamedContractsAreCommitted ==
    ASSUME ResyncIsLocal
    PROVE  Spec => []NothingForgotten
<1>1. Init => IInv
  BY InitIInv
<1>2. IInv /\ [Next]_vars => IInv'
  BY NextIInv
<1>3. IInv => NothingForgotten
  BY DEF IInv, FoundInv
<1> QED BY <1>1, <1>2, <1>3, PTL DEF Spec
=============================================================================
