------------------------------ MODULE SyncEngine ------------------------------
(***************************************************************************)
(* The sync engine of third-eye: engine/index.go drives the sync adapters  *)
(* of the adapter kit (ds/adapter_kit.go, ds/level.go) level by level,     *)
(* one goroutine per adapter, then repository/save.go writes the round in  *)
(* one database transaction and the debt engine runs.  The process may die *)
(* at any point (every RPC or SQL error is log.Fatal) and restarts from    *)
(* the database.                                                           *)
(*                                                                         *)
(* A sync adapter is identified with its contract address.  Adapters of    *)
(* some types are grouped under a wrapper (models/wrappers/index.go) that  *)
(* the kit schedules as one unit.  Every adapter is assumed to have a log  *)
(* in every block from FirstLogAt on; what a log does besides registering  *)
(* other adapters is abstracted to "it was applied", counted per block.    *)
(***************************************************************************)
EXTENDS Integers

CONSTANTS
    Adapter,       \* contract addresses that may become sync adapters
    Wrapper,       \* AdminWrapper, PoolWrapper, CMWrapper, CFWrapper
    NoWrapper,     \* WrapperOf value of an adapter scheduled by itself
    WrapperOf,     \* [Adapter -> Wrapper \cup {NoWrapper}]
    LevelOf,       \* kit level of every plain adapter and wrapper
    MaxLevel,      \* last level of the kit
    Root,          \* the AddressProvider
    Seed,          \* adapters registered when the database is empty
    PriceOracles,  \* adapters of type PriceOracle
    FirstLogAt,    \* [Adapter -> Block]
    AddedBy,       \* [Adapter -> Adapter]: whose log registers the adapter
    AddedAt,       \* [Adapter -> Block]: the block of that log
    Supersedes,    \* [Adapter -> SUBSET Adapter]: disabled by registering it
    ViaHook,       \* feeds found by ChainlinkPriceFeed.AfterSyncHook
    OracleOf,      \* [Adapter -> ...]: the proxy whose aggregator a feed is
    MaxBlock,      \* bound: last block of the chain
    BatchSize,     \* config.BatchSizeForHistory
    UsingThreads,  \* Engine.UsingThreads
    MaxCrashes,    \* bound: how often the process may die
    Resyncable,    \* adapters an operator may reset to sync from scratch
    MaxResyncs     \* bound: how often that happens

Block == 1..MaxBlock

\* math.MaxInt64: an unset BlockToDisableOn, an empty wrapper's lastSync.
Never == MaxBlock + 1

SyncPoint == 0..Never

\* A block number, 0 before the first block.
Height == 0..MaxBlock

Plain == {a \in Adapter : WrapperOf[a] = NoWrapper}

\* What the kit schedules: a plain adapter or a wrapper.
Unit == Plain \cup Wrapper

Members(u) == IF u \in Wrapper THEN {a \in Adapter : WrapperOf[a] = u} ELSE {u}

UnitOf(a) == IF WrapperOf[a] = NoWrapper THEN a ELSE WrapperOf[a]

\* Adapters registered by a log of another adapter.
Discovered == Adapter \ (Seed \cup ViaHook)

ASSUME BoundsAssumption ==
    /\ MaxBlock \in Nat \ {0}
    /\ BatchSize \in Nat \ {0}
    /\ MaxLevel \in Nat
    /\ MaxCrashes \in Nat
    /\ MaxResyncs \in Nat
    /\ UsingThreads \in BOOLEAN

ASSUME AdapterAssumption ==
    /\ NoWrapper \notin Wrapper
    /\ Adapter \cap Wrapper = {}
    /\ WrapperOf \in [Adapter -> Wrapper \cup {NoWrapper}]
    /\ LevelOf \in [Unit -> 0..MaxLevel]
    /\ FirstLogAt \in [Adapter -> Block]
    /\ AddedAt \in [Adapter -> Block]
    /\ AddedBy \in [Adapter -> Adapter]
    /\ Supersedes \in [Adapter -> SUBSET Adapter]
    /\ PriceOracles \subseteq Plain
    /\ ViaHook \subseteq Plain
    /\ Resyncable \subseteq Adapter

\* The AddressProvider is a plain adapter and the other adapters registered
\* on an empty database (PoolLMRewards, stETH) are not younger than it.
ASSUME SeedAssumption ==
    /\ Root \in Seed /\ Seed \subseteq Plain \ ViaHook
    /\ \A s \in Seed : FirstLogAt[s] <= FirstLogAt[Root]
    /\ \A n \in Adapter : Root \notin Supersedes[n]

\* A contract has its first log before it is registered.  It and the adapters
\* it replaces are on a higher level than the adapter whose log registers it.
ASSUME DiscoveryAssumption ==
    /\ \A n \in Adapter : FirstLogAt[n] <= AddedAt[n]
    /\ \A n \in Discovered :
         /\ AddedBy[n] \notin ViaHook
         /\ \A o \in {n} \cup Supersedes[n] :
              LevelOf[UnitOf(AddedBy[n])] < LevelOf[UnitOf(o)]

\* A feed whose proxy rotates its aggregator is replaced by the rotation only.
ASSUME RotationAssumption ==
    \A m \in ViaHook, a, n \in Adapter :
        OracleOf[a] = OracleOf[m] => a \notin Supersedes[n]

VARIABLES
    head,          \* last finalized block (external: the Ethereum node)
    pc,            \* where SyncHandler is
    mode,          \* "batch" inside syncLoop, "live" in the endless loop
    latest,        \* latestBlockNum read by SyncHandler at its start
    till,          \* syncTill of the current or of the last round
    lvl, seen,     \* lvlIndex and the units kit.Next has yielded on it
    phase, pos, upto, addrs, \* per unit: its SyncModel/QueryModel goroutine
    known, lastSync, disableOn, disabled, \* adapters in memory
    wrapperSync,   \* SyncWrapper.lastSync
    pending,       \* logs applied since the last Clear, per adapter and block
    dbKnown, dbLastSync, dbDisableOn, dbDisabled, \* table sync_adapters
    dbApplied,     \* rows written for the logs, per adapter and block
    debtOn,        \* not config.DisableDebtEngine
    synced,        \* Engine.syncedBlock, read by the health endpoint
    crashes, resyncs

control == <<mode, latest, till, lvl, seen>>
jobs    == <<phase, pos, upto, addrs>>
memory  == <<known, lastSync, disableOn, disabled, wrapperSync, pending>>
db      == <<dbKnown, dbLastSync, dbDisableOn, dbDisabled, dbApplied>>
counts  == <<crashes, resyncs>>
vars    == <<head, pc, control, jobs, memory, db, debtOn, synced, counts>>

-----------------------------------------------------------------------------
(***************************************************************************)
(* Helpers                                                                 *)
(***************************************************************************)

IsMin(x, S) == x \in S /\ \A y \in S : x <= y

\* Mutant: the greater of the two.
LeastMutant(x, y) == IF x <= y THEN y ELSE x

\* utils.Min.
Least(x, y) == IF x <= y THEN x ELSE y

Nothing == [a \in Adapter |-> [b \in Block |-> 0]]

Idle(u) == phase[u] = "idle"

\* Mutant: the disable block is not looked at while syncing.
BlockToDisableOnMutant(u) == Never

\* SyncAdapter.GetBlockToDisableOn; a wrapper is never disabled.
BlockToDisableOn(u) ==
    IF u \in Wrapper \/ disableOn[u] = 0 THEN Never ELSE disableOn[u]

GetLastSync(u) == IF u \in Wrapper THEN wrapperSync[u] ELSE lastSync[u]

IsDisabled(u) == IF u \in Wrapper THEN FALSE ELSE disabled[u]

\* GetAllAddrsForLogs of a wrapper skips the disabled adapters.
ActiveMembers(u) == {a \in Members(u) : a \in known /\ ~disabled[a]}

InKit(u) == u \in Wrapper \cup known

\* The active rows of table sync_adapters.
DbActive == {a \in dbKnown : ~dbDisabled[a]}

AreActiveAdapterSynchronized ==
    \A a, c \in DbActive : dbLastSync[a] = dbLastSync[c]

-----------------------------------------------------------------------------
(***************************************************************************)
(* AddSyncAdapter and the two ways to it: a log that names a contract, and *)
(* the aggregator rotation found by ChainlinkPriceFeed.AfterSyncHook.      *)
(***************************************************************************)

\* lastSync once the adapters New are registered with LastSync = FirstLogAt-1.
LastSyncWith(New, f) ==
    [a \in Adapter |-> IF a \in New THEN FirstLogAt[a] - 1 ELSE f[a]]

\* BlockToDisableOn once the adapters New are registered at block b: the
\* adapters they replace stop there.  A disabled PriceOracle is left alone.
DisableOnWith(New, b) ==
    [a \in Adapter |->
        IF /\ a \in known
           /\ \E n \in New : a \in Supersedes[n]
           /\ a \in PriceOracles => ~disabled[a]
        THEN b
        ELSE IF a \in New THEN 0 ELSE disableOn[a]]

\* SyncWrapper.AddSyncAdapter lowers the wrapper's lastSync.
WrapperSyncWith(New) ==
    /\ wrapperSync' \in [Wrapper -> SyncPoint]
    /\ \A w \in Wrapper :
         IsMin(wrapperSync'[w],
               {wrapperSync[w]} \cup {FirstLogAt[n] - 1 : n \in New \cap Members(w)})

\* Mutant: the hook never asks the proxy.
RotatedMutant(a, h) == {}

\* The aggregator behind the feed's proxy at block h when it is not the feed
\* itself.  alreadyActiveFeedForToken: the current feed of a token is kept in
\* memory and reloaded from token_oracle, so it is registered once.
Rotated(a, h) ==
    {n \in ViaHook \ (known \cup dbKnown \cup {a}) :
        /\ OracleOf[n] = OracleOf[a]
        /\ AddedAt[n] <= h
        /\ \A m \in ViaHook :
             OracleOf[m] = OracleOf[a] /\ AddedAt[m] <= h => AddedAt[m] <= AddedAt[n]}

-----------------------------------------------------------------------------
(***************************************************************************)
(* The process starts, runs rounds, dies                                   *)
(***************************************************************************)

NoJobs ==
    /\ phase' = [u \in Unit |-> "idle"]
    /\ pos' = [u \in Unit |-> 0]
    /\ upto' = [u \in Unit |-> 0]
    /\ addrs' = [u \in Unit |-> {}]

Init ==
    /\ head \in FirstLogAt[Root]..MaxBlock
    /\ pc = "down" /\ mode = "batch" /\ latest = 0 /\ till = 0
    /\ lvl = 0 /\ seen = {}
    /\ phase = [u \in Unit |-> "idle"]
    /\ pos = [u \in Unit |-> 0]
    /\ upto = [u \in Unit |-> 0]
    /\ addrs = [u \in Unit |-> {}]
    /\ known = {} /\ dbKnown = {}
    /\ lastSync = [a \in Adapter |-> 0] /\ dbLastSync = lastSync
    /\ disableOn = [a \in Adapter |-> 0] /\ dbDisableOn = disableOn
    /\ disabled = [a \in Adapter |-> FALSE] /\ dbDisabled = disabled
    /\ wrapperSync = [w \in Wrapper |-> Never]
    /\ pending = Nothing /\ dbApplied = Nothing
    /\ debtOn = TRUE /\ synced = 0
    /\ crashes = 0 /\ resyncs = 0

\* A block becomes final.
NewBlock ==
    /\ head < MaxBlock
    /\ head' = head + 1
    /\ UNCHANGED <<pc, control, jobs, memory, db, debtOn, synced, counts>>

\* SyncHandler up to syncLoop on an empty database: getLastSyncedTill
\* registers the AddressProvider, PoolLMRewards and the rebase token.
StartFromScratch ==
    /\ pc = "down" /\ Root \notin dbKnown
    /\ pc' = "batch" /\ mode' = "batch"
    /\ latest' = head
    /\ till' = FirstLogAt[Root] - 1
    /\ synced' = FirstLogAt[Root] - 1
    /\ known' = Seed
    /\ lastSync' = [a \in Adapter |-> IF a \in Seed THEN FirstLogAt[a] - 1 ELSE 0]
    /\ disableOn' = [a \in Adapter |-> 0]
    /\ disabled' = [a \in Adapter |-> FALSE]
    /\ wrapperSync' = [w \in Wrapper |-> Never]
    /\ pending' = Nothing
    /\ debtOn' = AreActiveAdapterSynchronized
    /\ lvl' = 0 /\ seen' = {} /\ NoJobs
    /\ UNCHANGED <<head, db, counts>>

\* SyncHandler up to syncLoop on an existing database: LoadSyncAdapters,
\* ProcessBackLogs' check, LoadLastAdapterSync.
StartFromDb ==
    /\ pc = "down" /\ Root \in dbKnown
    /\ pc' = "batch" /\ mode' = "batch"
    /\ latest' = head
    /\ \E m \in SyncPoint :
         /\ IsMin(m, {dbLastSync[a] : a \in DbActive})
         /\ till' = m /\ synced' = m
    /\ known' = {a \in dbKnown : ~dbDisabled[a] \/ a \in PriceOracles}
    /\ lastSync' = dbLastSync
    /\ disableOn' = dbDisableOn
    /\ disabled' = dbDisabled
    /\ wrapperSync' \in [Wrapper -> SyncPoint]
    /\ \A w \in Wrapper :
         IsMin(wrapperSync'[w],
               {Never} \cup {dbLastSync[a] : a \in Members(w) \cap DbActive})
    /\ pending' = Nothing
    /\ debtOn' = AreActiveAdapterSynchronized
    /\ lvl' = 0 /\ seen' = {} /\ NoJobs
    /\ UNCHANGED <<head, db, counts>>

\* The process dies; memory is lost, the database stays.
Crash ==
    /\ pc # "down" /\ crashes < MaxCrashes
    /\ crashes' = crashes + 1
    /\ pc' = "down"
    /\ known' = {} /\ seen' = {} /\ pending' = Nothing /\ NoJobs
    /\ UNCHANGED <<head, mode, latest, till, lvl, lastSync, disableOn, disabled,
                   wrapperSync, db, debtOn, synced, resyncs>>

\* An operator resets an adapter, with its rows, to sync it from scratch.
Resync(a) ==
    /\ pc = "down" /\ resyncs < MaxResyncs
    /\ a \in dbKnown \cap Resyncable
    /\ resyncs' = resyncs + 1
    /\ dbLastSync' = [dbLastSync EXCEPT ![a] = FirstLogAt[a] - 1]
    /\ dbApplied' = [dbApplied EXCEPT ![a] = [b \in Block |-> 0]]
    /\ UNCHANGED <<head, pc, control, jobs, memory, dbKnown, dbDisableOn,
                   dbDisabled, debtOn, synced, crashes>>

\* Sync(t): the first level of a round.
BeginRound(t) ==
    /\ till' = t /\ lvl' = 0 /\ seen' = {}
    /\ pc' = "iterate"
    /\ UNCHANGED <<head, latest, jobs, memory, db, debtOn, synced, counts>>

\* syncLoop while the next target is at most latestBlockNum.
BatchRound ==
    /\ pc = "batch" /\ till + BatchSize <= latest
    /\ mode' = "batch"
    /\ BeginRound(till + BatchSize)

\* Mutant: latestBlockNum is not read again.
LiveRoundMutant ==
    /\ \/ pc = "live"
       \/ pc = "batch" /\ till + BatchSize > latest
    /\ mode' = "live"
    /\ BeginRound(Least(latest, head))

\* The endless loop of SyncHandler.
LiveRound ==
    /\ \/ pc = "live"
       \/ pc = "batch" /\ till + BatchSize > latest
    /\ mode' = "live"
    /\ BeginRound(head)

-----------------------------------------------------------------------------
(***************************************************************************)
(* One round: Sync                                                         *)
(***************************************************************************)

\* kit.Next yields the unit u; a goroutine is started unless it is disabled.
\* Without threads the call returns before the next kit.Next.
LaunchNext(u) ==
    /\ pc = "iterate"
    /\ InKit(u) /\ LevelOf[u] = lvl /\ u \notin seen
    /\ UsingThreads \/ \A v \in Unit : Idle(v)
    /\ seen' = seen \cup {u}
    /\ phase' = [phase EXCEPT ![u] = IF IsDisabled(u) THEN "idle" ELSE "spawned"]
    /\ UNCHANGED <<head, pc, mode, latest, till, lvl, pos, upto, addrs, memory,
                   db, debtOn, synced, counts>>

\* Mutant: the iterator may stop before it has yielded every unit.
EndIterationMutant ==
    /\ pc = "iterate"
    /\ \A u \in Wrapper : LevelOf[u] = lvl => u \in seen
    /\ UsingThreads \/ \A v \in Unit : Idle(v)
    /\ pc' = "wait"
    /\ UNCHANGED <<head, control, jobs, memory, db, debtOn, synced, counts>>

\* kit.Next returns false; kit.Reset.
EndIteration ==
    /\ pc = "iterate"
    /\ \A u \in Unit : InKit(u) /\ LevelOf[u] = lvl => u \in seen
    /\ UsingThreads \/ \A v \in Unit : Idle(v)
    /\ pc' = "wait"
    /\ UNCHANGED <<head, control, jobs, memory, db, debtOn, synced, counts>>

\* Mutant: the next level does not wait for the goroutines of this one.
EndLevelMutant ==
    /\ pc = "wait"
    /\ IF lvl < MaxLevel
       THEN lvl' = lvl + 1 /\ pc' = "iterate"
       ELSE lvl' = lvl /\ pc' = "flush"
    /\ seen' = {}
    /\ UNCHANGED <<head, mode, latest, till, jobs, memory, db, debtOn, synced,
                   counts>>

\* wg.Wait, then the next level or AfterSync.
EndLevel ==
    /\ pc = "wait" /\ \A u \in Unit : Idle(u)
    /\ IF lvl < MaxLevel
       THEN lvl' = lvl + 1 /\ pc' = "iterate"
       ELSE lvl' = lvl /\ pc' = "flush"
    /\ seen' = {}
    /\ UNCHANGED <<head, mode, latest, till, jobs, memory, db, debtOn, synced,
                   counts>>

\* Mutant: an adapter that is ahead of the round is synced all the same.
StartModelMutant(u) ==
    /\ phase[u] = "spawned"
    /\ phase' = [phase EXCEPT ![u] = "apply"]
    /\ pos' = [pos EXCEPT ![u] = GetLastSync(u) + 1]
    /\ upto' = [upto EXCEPT ![u] = Least(BlockToDisableOn(u), till)]
    /\ addrs' = [addrs EXCEPT ![u] = ActiveMembers(u)]
    /\ UNCHANGED <<head, pc, control, memory, db, debtOn, synced, counts>>

\* SyncModel/QueryModel from its start to the arrival of the logs.
StartModel(u) ==
    /\ phase[u] = "spawned"
    /\ IF GetLastSync(u) + 1 > till
       THEN /\ phase' = [phase EXCEPT ![u] = "idle"]
            /\ UNCHANGED <<pos, upto, addrs>>
       ELSE /\ phase' = [phase EXCEPT ![u] = "apply"]
            /\ pos' = [pos EXCEPT ![u] = GetLastSync(u) + 1]
            /\ upto' = [upto EXCEPT ![u] = Least(BlockToDisableOn(u), till)]
            /\ addrs' = [addrs EXCEPT ![u] = ActiveMembers(u)]
    /\ UNCHANGED <<head, pc, control, memory, db, debtOn, synced, counts>>

\* Mutant: a wrapper hands every log of its range to its adapter.
ReceiversMutant(u, b) == addrs[u]

\* A wrapper hands a log to its adapter only above the adapter's lastSync.
Receivers(u, b) == {a \in addrs[u] : u \in Wrapper => lastSync[a] < b}

\* OnLog for the logs of the next block, which may register adapters.
ApplyBlock(u) ==
    /\ phase[u] = "apply" /\ pos[u] <= upto[u]
    /\ LET b   == pos[u]
           R   == Receivers(u, b)
           New == {n \in Discovered : AddedBy[n] \in R /\ AddedAt[n] = b}
       IN  /\ pending' = [a \in Adapter |-> [x \in Block |->
                            IF a \in R /\ x = b THEN pending[a][x] + 1
                                                ELSE pending[a][x]]]
           /\ known' = known \cup New
           /\ lastSync' = LastSyncWith(New, lastSync)
           /\ disableOn' = DisableOnWith(New, b)
           /\ disabled' = [a \in Adapter |-> a \notin New /\ disabled[a]]
           /\ WrapperSyncWith(New)
    /\ pos' = [pos EXCEPT ![u] = pos[u] + 1]
    /\ UNCHANGED <<head, pc, control, phase, upto, addrs, db, debtOn, synced,
                   counts>>

\* Mutant: the hook records one block too many.
AfterSyncHookMutant(Fin, h, New) ==
    /\ known' = known \cup New
    /\ lastSync' = LastSyncWith(New, [a \in Adapter |->
                     IF a \in Fin THEN Least(h + 1, MaxBlock) ELSE lastSync[a]])
    /\ UNCHANGED <<disableOn, disabled>>

\* AfterSyncHook(h) of every adapter in Fin: setLastSync and disableOnBlock.
\* Before that a rotated feed registers its successors New and is told to stop
\* at the block of the rotation.
AfterSyncHook(Fin, h, New) ==
    LET off == [a \in Adapter |->
                  IF a \in Fin /\ New # {} THEN AddedAt[CHOOSE n \in New : TRUE]
                                          ELSE disableOn[a]]
    IN  /\ known' = known \cup New
        /\ lastSync' =
             LastSyncWith(New, [a \in Adapter |-> IF a \in Fin THEN h ELSE lastSync[a]])
        /\ disableOn' = [a \in Adapter |-> IF a \in New THEN 0 ELSE off[a]]
        /\ disabled' = [a \in Adapter |->
             a \notin New /\ (disabled[a] \/ (a \in Fin /\ off[a] # 0 /\ h >= off[a]))]

\* SyncModel after the last log: AfterSyncHook, wg.Done.
FinishModel(u) ==
    /\ phase[u] = "apply" /\ pos[u] > upto[u]
    /\ LET h   == Least(BlockToDisableOn(u), upto[u])
           New == IF u \in Wrapper THEN {} ELSE Rotated(u, h)
       IN  AfterSyncHook(ActiveMembers(u), h, New)
    /\ phase' = [phase EXCEPT ![u] = "idle"]
    /\ UNCHANGED <<head, pc, control, pos, upto, addrs, wrapperSync, pending, db,
                   debtOn, synced, counts>>

-----------------------------------------------------------------------------
(***************************************************************************)
(* The end of a round: Flush, then the debt engine                         *)
(***************************************************************************)

\* Mutant: the adapters inside the wrappers are not saved.
FlushMutant ==
    /\ pc = "flush"
    /\ pc' = "debt"
    /\ dbKnown' = dbKnown \cup (known \cap Plain)
    /\ dbLastSync' = [a \in Adapter |-> IF a \in known THEN lastSync[a] ELSE dbLastSync[a]]
    /\ dbDisableOn' = [a \in Adapter |-> IF a \in known THEN disableOn[a] ELSE dbDisableOn[a]]
    /\ dbDisabled' = [a \in Adapter |-> IF a \in known THEN disabled[a] ELSE dbDisabled[a]]
    /\ dbApplied' = [a \in Adapter |-> [b \in Block |-> dbApplied[a][b] + pending[a][b]]]
    /\ UNCHANGED <<head, control, jobs, memory, debtOn, synced, counts>>

\* Repository.Flush: one transaction with every adapter of the kit and every
\* row of the round.
Flush ==
    /\ pc = "flush"
    /\ pc' = "debt"
    /\ dbKnown' = dbKnown \cup known
    /\ dbLastSync' = [a \in Adapter |-> IF a \in known THEN lastSync[a] ELSE dbLastSync[a]]
    /\ dbDisableOn' = [a \in Adapter |-> IF a \in known THEN disableOn[a] ELSE dbDisableOn[a]]
    /\ dbDisabled' = [a \in Adapter |-> IF a \in known THEN disabled[a] ELSE dbDisabled[a]]
    /\ dbApplied' = [a \in Adapter |-> [b \in Block |-> dbApplied[a][b] + pending[a][b]]]
    /\ UNCHANGED <<head, control, jobs, memory, debtOn, synced, counts>>

\* Mutants: the flushed rows stay in memory; the head is reported as synced.
ClearMutant ==
    /\ pc = "debt"
    /\ pc' = mode
    /\ synced' = till
    /\ UNCHANGED <<head, control, jobs, memory, db, debtOn, counts>>

ReportMutant ==
    /\ pc = "debt"
    /\ pc' = mode
    /\ pending' = Nothing
    /\ synced' = head
    /\ UNCHANGED <<head, control, jobs, known, lastSync, disableOn, disabled,
                   wrapperSync, db, debtOn, counts>>

\* DebtEngine.CalculateDebtAndClear drops the flushed rows from memory, then
\* syncedBlock.Store.
CalculateDebtAndClear ==
    /\ pc = "debt"
    /\ pc' = mode
    /\ pending' = Nothing
    /\ synced' = till
    /\ UNCHANGED <<head, control, jobs, known, lastSync, disableOn, disabled,
                   wrapperSync, db, debtOn, counts>>

-----------------------------------------------------------------------------

EngineStep ==
    \/ StartFromScratch \/ StartFromDb
    \/ BatchRound \/ LiveRound
    \/ EndIteration \/ EndLevel
    \/ Flush \/ CalculateDebtAndClear
    \/ \E u \in Unit : \/ LaunchNext(u) \/ StartModel(u)
                       \/ ApplyBlock(u) \/ FinishModel(u)

Next ==
    \/ EngineStep
    \/ NewBlock
    \/ Crash
    \/ \E a \in Adapter : Resync(a)

Spec == Init /\ [][Next]_vars

\* The process is scheduled and restarted by its supervisor, and the chain
\* grows; nothing forces a crash or a resync.
FairSpec == Spec /\ WF_vars(EngineStep) /\ WF_vars(NewBlock)
-----------------------------------------------------------------------------
(***************************************************************************)
(* Properties                                                              *)
(***************************************************************************)

ControlType ==
    /\ head \in Block
    /\ pc \in {"down", "batch", "live", "iterate", "wait", "flush", "debt"}
    /\ mode \in {"batch", "live"}
    /\ latest \in Height /\ till \in Height /\ synced \in Height
    /\ lvl \in 0..MaxLevel /\ seen \subseteq Unit
    /\ debtOn \in BOOLEAN
    /\ crashes \in 0..MaxCrashes /\ resyncs \in 0..MaxResyncs

JobType ==
    /\ phase \in [Unit -> {"idle", "spawned", "apply"}]
    /\ pos \in [Unit -> SyncPoint]
    /\ upto \in [Unit -> Height]
    /\ addrs \in [Unit -> SUBSET Adapter]

MemoryType ==
    /\ known \subseteq Adapter
    /\ lastSync \in [Adapter -> Height]
    /\ disableOn \in [Adapter -> Height]
    /\ disabled \in [Adapter -> BOOLEAN]
    /\ wrapperSync \in [Wrapper -> SyncPoint]
    /\ pending \in [Adapter -> [Block -> Nat]]

DbType ==
    /\ dbKnown \subseteq Adapter
    /\ dbLastSync \in [Adapter -> Height]
    /\ dbDisableOn \in [Adapter -> Height]
    /\ dbDisabled \in [Adapter -> BOOLEAN]
    /\ dbApplied \in [Adapter -> [Block -> Nat]]

\* Types of the variables: no target, cursor or disable block ever leaves the
\* chain, only a wrapper's lastSync may hold math.MaxInt64.
TypeOK == ControlType /\ JobType /\ MemoryType /\ DbType

\* No log of any adapter is ever committed twice.
CommittedOnce == \A a \in Adapter, b \in Block : dbApplied[a][b] <= 1

\* No log is ever committed twice, and the committed logs of an active adapter
\* are exactly the ones up to its committed last_sync: no interleaving of
\* goroutines, refetching wrapper, crash or restart loses or repeats one.
ExactlyOnce ==
    /\ CommittedOnce
    /\ \A a \in DbActive, b \in Block :
         dbApplied[a][b] = IF FirstLogAt[a] <= b /\ b <= dbLastSync[a] THEN 1 ELSE 0

\* A contract named by a committed log is a committed adapter: a crash never
\* separates the log from the adapter it registers.
NothingForgotten ==
    \A n \in Discovered :
        /\ AddedBy[n] \in dbKnown
        /\ FirstLogAt[AddedBy[n]] <= AddedAt[n]
        /\ AddedAt[n] <= dbLastSync[AddedBy[n]]
        => n \in dbKnown

\* docs/arch.md on the kit's levels: while a unit syncs up to a block, every
\* active adapter of a lower level has been synced up to that block.
LevelOrder ==
    \A u, v \in Unit :
        phase[u] = "apply" /\ LevelOf[v] < LevelOf[u] =>
            \A a \in ActiveMembers(v) : lastSync[a] >= upto[u]

\* SetBlockToDisableOn, "will sync till this block": no log above the block an
\* adapter is to be disabled on is committed.
StopsAtDisableBlock ==
    \A a \in dbKnown, b \in Block :
        dbApplied[a][b] > 0 /\ dbDisableOn[a] # 0 => b <= dbDisableOn[a]

\* When the debt engine calculates a round, no active adapter is behind it
\* (the condition under which ProcessBackLogs leaves the debt engine on).
DebtOnFullData ==
    pc = "debt" /\ debtOn => \A a \in known : disabled[a] \/ lastSync[a] >= till

\* The block the health endpoint reports is committed for every active adapter.
ReportedIsCommitted ==
    pc # "down" => \A a \in DbActive : dbLastSync[a] >= synced

(***************************************************************************)
(* The database changes by whole commits: the rounds, the goroutines of a  *)
(* level, a crash at any point and the restart from the database are       *)
(* invisible in it, a committed last_sync only goes back when an operator  *)
(* resets the adapter, and a disabled adapter stays disabled.              *)
(***************************************************************************)
Committed ==
    INSTANCE Indexer WITH
        rows <- dbKnown, active <- DbActive, last <- dbLastSync, count <- dbApplied,
        Named <- Discovered, NamedBy <- AddedBy, NamedAt <- AddedAt, Resettable <- Resyncable

ImplementsIndexer == Committed!Spec

\* Every contract of the chain is found and every active adapter ends up
\* committed to the last block, once the process stops being killed.
CatchesUp ==
    <>[](/\ dbKnown = Adapter
         /\ \A a \in Adapter : dbDisabled[a] \/ dbLastSync[a] = MaxBlock)
=============================================================================
