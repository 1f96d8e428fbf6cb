------------------------------ MODULE DebtEngine ------------------------------
(***************************************************************************)
(* The debt engine of third-eye (package debts).  After every round of the *)
(* sync engine it calculates the debt of the credit sessions touched by    *)
(* the round's blocks, writes them with debt_sync in one transaction, and  *)
(* the current debt of every open session in a second one.  After a        *)
(* restart ProcessBackLogs catches up from debt_sync.                      *)
(*                                                                         *)
(* A debt is abstracted to its block and to whether the health factor is   *)
(* below 10000.  A row of a block is a snapshot of a session or a touch:   *)
(* any other row that makes the session be recalculated (pool statistics,  *)
(* a price, a liquidation threshold).                                      *)
(***************************************************************************)
EXTENDS Integers

CONSTANTS
    Session,      \* credit sessions
    MaxBlock,     \* bound: last block of the chain
    BatchSize,    \* config.BatchSizeForHistory
    Throttling,   \* config.ThrottleDebtCal
    ThrottleBy,   \* NoOfBlocksPerHr * config.ThrottleByHrs
    NotifyAfter,  \* sendMsgAfterXBlocks
    MayDisable,   \* may an adapter be behind at start, which disables the engine
    MaxCrashes    \* bound: how often the process may die

ASSUME DebtAssumption ==
    /\ MaxBlock \in Nat \ {0}
    /\ BatchSize \in Nat \ {0}
    /\ ThrottleBy \in Nat
    /\ NotifyAfter \in Nat \ {0}
    /\ MaxCrashes \in Nat
    /\ Throttling \in BOOLEAN
    /\ MayDisable \in BOOLEAN

Block == 1..MaxBlock
Height == 0..MaxBlock

\* An entry of lastDebts or of table current_debts; block 0: there is none.
Debt == [block : Height, low : BOOLEAN]
NoDebt == [block |-> 0, low |-> FALSE]

\* schemas.LiquidableAccount; known: the session has an entry.
Account == [known : BOOLEAN, since : Height, notified : BOOLEAN]
NoAccount == [known |-> FALSE, since |-> 0, notified |-> FALSE]

VARIABLES
    low,                     \* external: blocks with a low health factor
    adapterSync,             \* last_sync of the active adapters
    since, closedAt,         \* table credit_sessions
    css, touch, blocks,      \* table blocks with its snapshots and other rows
    debtSync, debts,         \* tables debt_sync, debts (rows per session and block)
    accounts,                \* table liquidable_accounts
    currentDebts,            \* table current_debts
    pc, debtOn, to, cursor,  \* control; cursor: lastDebtSynced of ProcessBackLogs
    todo, newest,            \* blocks in memory to calculate, the last of them
    memCss, memTouch,        \* the rows of the blocks in memory
    sessions, lastCSS, lastDebts, tracker, \* maps of the engine
    newDebts, newCurrent,    \* DebtEngine.debts, DebtEngine.currentDebts
    crashes,
    calculated, sent         \* history: blocks calculated, notices handed to RecentMsgf

tables  == <<adapterSync, since, closedAt, css, touch>>
results == <<debtSync, debts, accounts>>
rows    == <<todo, newest, memCss, memTouch>>
maps    == <<lastCSS, lastDebts, tracker>>
history == <<calculated, sent>>
vars    == <<low, tables, blocks, results, currentDebts, pc, debtOn, to, cursor,
             rows, sessions, maps, newDebts, newCurrent, crashes, history>>

-----------------------------------------------------------------------------
(***************************************************************************)
(* Helpers                                                                 *)
(***************************************************************************)

\* Mutant: the greater of the two.
LeastMutant(x, y) == IF x <= y THEN y ELSE x

Least(x, y) == IF x <= y THEN x ELSE y

Nothing == [s \in Session |-> {}]

\* The last of a set of blocks, 0 when there is none.
LastOf(S) == IF S = {} THEN 0 ELSE CHOOSE x \in S : \A y \in S : y <= x

\* CalculateDebt skips a session from the block that closed it on.
OpenAt(s, b) == since[s] # 0 /\ since[s] <= b /\ (closedAt[s] = 0 \/ closedAt[s] > b)

\* Mutant: only the sessions that will be closed.
OpenAfterMutant(s, t) == since[s] # 0 /\ since[s] <= t /\ closedAt[s] > t + 1

\* CalCurrentDebts leaves out the sessions closed up to the block after t.
OpenAfter(s, t) ==
    since[s] # 0 /\ since[s] <= t /\ (closedAt[s] = 0 \/ closedAt[s] > t + 1)

LowAt(s, b) == b \in low[s]

\* liquidationCheck, first part: the health factor crosses 10000.
Liquidable(s, b) ==
    LET last == lastDebts[s] IN
    IF last.block = 0 \/ last.low = LowAt(s, b)
    THEN tracker[s]
    ELSE IF last.low
         THEN [known |-> TRUE, since |-> 0, notified |-> FALSE]
         ELSE [tracker[s] EXCEPT !.known = TRUE, !.since = b]

\* Mutant: one block too late.
NoticeDueMutant(s, b) ==
    LET a == Liquidable(s, b)
    IN  LowAt(s, b) /\ a.known /\ ~a.notified /\ b - a.since > NotifyAfter

\* liquidationCheck, second part: the notice is due.
NoticeDue(s, b) ==
    LET a == Liquidable(s, b)
    IN  LowAt(s, b) /\ a.known /\ ~a.notified /\ b - a.since >= NotifyAfter

\* Mutants: a snapshot does not force the debt; a change of side is not looked at.
UnforcedMutant(s, b, moved) ==
    \/ ~Throttling
    \/ lastDebts[s].block = 0
    \/ b - lastDebts[s].block >= ThrottleBy
    \/ s \in moved
    \/ lastDebts[s].low # LowAt(s, b)

KeepDebtMutant(s, b, moved) ==
    \/ ~Throttling
    \/ lastDebts[s].block = 0
    \/ b \in memCss[s] \/ lastCSS[s] = b
    \/ b - lastDebts[s].block >= ThrottleBy
    \/ s \in moved

\* AddDebt: whether the debt calculated at block b becomes a row; moved: its
\* amounts differ by more than 5% from the last one.
KeepDebt(s, b, moved) ==
    \/ ~Throttling
    \/ lastDebts[s].block = 0
    \/ b \in memCss[s] \/ lastCSS[s] = b
    \/ b - lastDebts[s].block >= ThrottleBy
    \/ s \in moved
    \/ lastDebts[s].low # LowAt(s, b)

-----------------------------------------------------------------------------
(***************************************************************************)
(* The process                                                             *)
(***************************************************************************)

Init ==
    /\ low = Nothing
    /\ adapterSync = 0
    /\ since = [s \in Session |-> 0] /\ closedAt = [s \in Session |-> 0]
    /\ css = Nothing /\ touch = Nothing /\ blocks = {}
    /\ debtSync = 0 /\ debts = [s \in Session |-> [b \in Block |-> 0]]
    /\ accounts = [s \in Session |-> NoAccount]
    /\ currentDebts = [s \in Session |-> NoDebt]
    /\ pc = "down" /\ debtOn = TRUE /\ to = 0 /\ cursor = 0
    /\ todo = {} /\ newest = 0 /\ memCss = Nothing /\ memTouch = Nothing
    /\ sessions = {} /\ lastCSS = [s \in Session |-> 0]
    /\ lastDebts = [s \in Session |-> NoDebt]
    /\ tracker = [s \in Session |-> NoAccount]
    /\ newDebts = Nothing /\ newCurrent = [s \in Session |-> NoDebt]
    /\ crashes = 0 /\ calculated = Nothing /\ sent = Nothing

\* The accounts of sessions that were closed or repaid are left out, those of
\* liquidated ones are loaded; which of the two a session was is not kept here.
LoadLiquidableAccounts ==
    \E liquidated \in SUBSET {s \in Session : closedAt[s] # 0} :
        tracker' = [s \in Session |->
                      IF closedAt[s] = 0 \/ s \in liquidated THEN accounts[s] ELSE NoAccount]

\* Mutant: the sessions closed in the backlog are not loaded.
SessionsMutant ==
    /\ pc = "down"
    /\ debtOn' \in {TRUE, ~MayDisable}
    /\ pc' = IF debtOn' THEN "backlog" ELSE "idle"
    /\ cursor' = debtSync
    /\ sessions' = {s \in Session : since[s] # 0 /\ (closedAt[s] = 0 \/ closedAt[s] > adapterSync)}
    /\ lastCSS' = [s \in Session |-> LastOf({b \in css[s] : b <= debtSync})]
    /\ lastDebts' = [s \in Session |->
         IF currentDebts[s].block <= debtSync THEN currentDebts[s] ELSE NoDebt]
    /\ LoadLiquidableAccounts
    /\ UNCHANGED <<low, tables, blocks, results, currentDebts, to, rows, newDebts,
                   newCurrent, crashes, history>>

\* LoadCreditSessions, then ProcessBackLogs up to its loop.
Start ==
    /\ pc = "down"
    /\ debtOn' \in {TRUE, ~MayDisable}
    /\ pc' = IF debtOn' THEN "backlog" ELSE "idle"
    /\ cursor' = debtSync
    /\ sessions' = {s \in Session : since[s] # 0 /\ (closedAt[s] = 0 \/ closedAt[s] > debtSync)}
    /\ lastCSS' = [s \in Session |-> LastOf({b \in css[s] : b <= debtSync})]
    /\ lastDebts' = [s \in Session |->
         IF currentDebts[s].block <= debtSync THEN currentDebts[s] ELSE NoDebt]
    /\ LoadLiquidableAccounts
    /\ UNCHANGED <<low, tables, blocks, results, currentDebts, to, rows, newDebts,
                   newCurrent, crashes, history>>

\* The process dies and its memory is lost.
Crash ==
    /\ pc # "down" /\ crashes < MaxCrashes
    /\ crashes' = crashes + 1
    /\ pc' = "down" /\ debtOn' = TRUE /\ to' = 0 /\ cursor' = 0
    /\ todo' = {} /\ newest' = 0 /\ memCss' = Nothing /\ memTouch' = Nothing
    /\ sessions' = {} /\ lastCSS' = [s \in Session |-> 0]
    /\ lastDebts' = [s \in Session |-> NoDebt]
    /\ tracker' = [s \in Session |-> NoAccount]
    /\ newDebts' = Nothing /\ newCurrent' = [s \in Session |-> NoDebt]
    /\ UNCHANGED <<low, tables, blocks, results, currentDebts, history>>

\* One turn of ProcessBackLogs' loop: processBlocksInBatch.
Backlog ==
    /\ pc = "backlog"
    /\ LET t == Least(cursor + BatchSize, adapterSync)
           L == {b \in blocks : cursor < b /\ b <= t}
       IN  /\ cursor' = t
           /\ IF L # {}
              THEN /\ to' = t /\ pc' = "calc"
                   /\ todo' = L /\ newest' = LastOf(L)
                   /\ memCss' = [s \in Session |-> css[s] \cap L]
                   /\ memTouch' = [s \in Session |-> touch[s] \cap L]
              ELSE /\ pc' = IF t = adapterSync THEN "idle" ELSE "backlog"
                   /\ UNCHANGED <<to, rows>>
    /\ UNCHANGED <<low, tables, blocks, results, currentDebts, debtOn, sessions, maps,
                   newDebts, newCurrent, crashes, history>>

\* What the credit managers may report for a session: it opens with a snapshot
\* and after its close there is nothing.  A close at block b is a snapshot at
\* block b - 1.
Story(s, F, T, e) ==
    \A b \in (F + 1)..T :
        /\ e[b] # "none" => closedAt[s] = 0 /\ \A c \in (F + 1)..(b - 1) : e[c] # "close"
        /\ e[b] \in {"touch", "snap", "close"} =>
             since[s] # 0 \/ \E c \in (F + 1)..(b - 1) : e[c] = "open"
        /\ e[b] = "open" => since[s] = 0 /\ \A c \in (F + 1)..(b - 1) : e[c] # "open"

\* Sync and Flush of the sync engine up to block t: the sessions and blocks of
\* the round are committed and stay in memory for the debt engine.
SyncAndFlush(t) ==
    LET F == adapterSync
    IN
    /\ pc = "idle"
    /\ \E ev \in [Session -> [(F + 1)..t -> {"none", "touch", "snap", "open", "close"}]],
          lw \in [Session -> SUBSET ((F + 1)..t)] :
         LET at(s, kind) == {b \in (F + 1)..t : ev[s][b] = kind}
             snaps(s) == at(s, "snap") \cup at(s, "open") \cup {b - 1 : b \in at(s, "close")}
             new == UNION {snaps(s) \cup at(s, "touch") \cup at(s, "close") : s \in Session}
         IN
         /\ \A s \in Session : Story(s, F, t, ev[s])
         /\ low' = [s \in Session |-> low[s] \cup lw[s]]
         /\ since' = [s \in Session |->
              IF at(s, "open") # {} THEN LastOf(at(s, "open")) ELSE since[s]]
         /\ closedAt' = [s \in Session |->
              IF at(s, "close") # {} THEN LastOf(at(s, "close")) ELSE closedAt[s]]
         /\ \A s \in Session : \A b \in lw[s] : OpenAt(s, b)'
         /\ css' = [s \in Session |-> css[s] \cup snaps(s)]
         /\ touch' = [s \in Session |-> touch[s] \cup at(s, "touch")]
         /\ blocks' = blocks \cup new
         /\ sessions' = sessions \cup {s \in Session : at(s, "open") # {}}
         /\ todo' = new /\ newest' = LastOf(new)
         /\ memCss' = [s \in Session |-> snaps(s)]
         /\ memTouch' = [s \in Session |-> at(s, "touch")]
    /\ adapterSync' = t /\ to' = t /\ cursor' = t
    /\ pc' = IF debtOn THEN "calc" ELSE "clear"
    /\ UNCHANGED <<results, currentDebts, debtOn, maps, newDebts, newCurrent,
                   crashes, history>>

\* A round of syncLoop or of the live loop, which also runs when there is no
\* new block; a live round is not longer than a batch.
Round == \E t \in adapterSync..Least(adapterSync + BatchSize, MaxBlock) : SyncAndFlush(t)

-----------------------------------------------------------------------------
(***************************************************************************)
(* CalculateDebtAndClear                                                   *)
(***************************************************************************)

\* Mutant: the current debt of a session closed in the next block is left out.
FinalDebtMutant(s, b) == newCurrent[s]

\* SessionDebtHandler: the last current debt of a session closed in the next
\* block.
FinalDebt(s, b) ==
    IF closedAt[s] = b + 1 THEN [block |-> b, low |-> LowAt(s, b)] ELSE newCurrent[s]

\* One block of CalculateDebt: updateLocalState, then SessionDebtHandler for
\* every open session with a row in it.
CalculateBlock ==
    /\ pc = "calc" /\ todo # {}
    /\ \E b \in todo, moved \in SUBSET Session :
         LET U == {s \in sessions : (b \in memCss[s] \/ b \in memTouch[s]) /\ OpenAt(s, b)}
             K == {s \in U : KeepDebt(s, b, moved)}
             N == {s \in U : NoticeDue(s, b)}
         IN
         /\ \A c \in todo : b <= c
         /\ moved \subseteq U
         /\ todo' = todo \ {b}
         /\ lastCSS' = [s \in Session |-> IF b \in memCss[s] THEN b ELSE lastCSS[s]]
         /\ tracker' = [s \in Session |->
              IF s \notin U THEN tracker[s]
              ELSE IF s \in N THEN [Liquidable(s, b) EXCEPT !.notified = TRUE]
              ELSE Liquidable(s, b)]
         /\ lastDebts' = [s \in Session |->
              IF s \in K THEN [block |-> b, low |-> LowAt(s, b)] ELSE lastDebts[s]]
         /\ newDebts' = [s \in Session |-> IF s \in K THEN newDebts[s] \cup {b} ELSE newDebts[s]]
         /\ newCurrent' = [s \in Session |-> IF s \in U THEN FinalDebt(s, b) ELSE newCurrent[s]]
         /\ calculated' = [s \in Session |->
              IF s \in U THEN calculated[s] \cup {b} ELSE calculated[s]]
         /\ sent' = [s \in Session |-> IF s \in N THEN sent[s] \cup {b} ELSE sent[s]]
    /\ UNCHANGED <<low, tables, blocks, results, currentDebts, pc, debtOn, to, cursor,
                   newest, memCss, memTouch, sessions, crashes>>

\* Mutant: debt_sync is not advanced.
FlushDebtMutant ==
    /\ pc = "calc" /\ todo = {}
    /\ pc' = "current"
    /\ IF newDebts = Nothing
       THEN UNCHANGED <<results, newDebts>>
       ELSE /\ UNCHANGED debtSync
            /\ debts' = [s \in Session |-> [b \in Block |->
                 IF b \in newDebts[s] THEN debts[s][b] + 1 ELSE debts[s][b]]]
            /\ accounts' = [s \in Session |-> IF tracker[s].known THEN tracker[s] ELSE accounts[s]]
            /\ newDebts' = Nothing
    /\ UNCHANGED <<low, tables, blocks, currentDebts, debtOn, to, cursor, rows,
                   sessions, maps, newCurrent, crashes, history>>

\* flushDebt: nothing without a debt, else one transaction.
FlushDebt ==
    /\ pc = "calc" /\ todo = {}
    /\ pc' = "current"
    /\ IF newDebts = Nothing
       THEN UNCHANGED <<results, newDebts>>
       ELSE /\ debtSync' = to
            /\ debts' = [s \in Session |-> [b \in Block |->
                 IF b \in newDebts[s] THEN debts[s][b] + 1 ELSE debts[s][b]]]
            /\ accounts' = [s \in Session |-> IF tracker[s].known THEN tracker[s] ELSE accounts[s]]
            /\ newDebts' = Nothing
    /\ UNCHANGED <<low, tables, blocks, currentDebts, debtOn, to, cursor, rows,
                   sessions, maps, newCurrent, crashes, history>>

\* CalCurrentDebts and flushCurrentDebts, the second transaction.
FlushCurrentDebts ==
    /\ pc = "current"
    /\ pc' = "clear"
    /\ currentDebts' = [s \in Session |->
         IF s \in sessions /\ OpenAfter(s, to) THEN [block |-> to, low |-> LowAt(s, to)]
         ELSE IF newCurrent[s] # NoDebt THEN newCurrent[s]
         ELSE currentDebts[s]]
    /\ blocks' = blocks \cup ({to} \cap Block)
    /\ newCurrent' = [s \in Session |-> NoDebt]
    /\ UNCHANGED <<low, tables, results, debtOn, to, cursor, rows, sessions, maps,
                   newDebts, crashes, history>>

\* Clear: the blocks of the round and the sessions closed in them leave memory.
Clear ==
    /\ pc = "clear"
    /\ pc' = IF cursor < adapterSync THEN "backlog" ELSE "idle"
    /\ sessions' = {s \in sessions : closedAt[s] = 0 \/ closedAt[s] > newest}
    /\ todo' = {} /\ newest' = 0 /\ memCss' = Nothing /\ memTouch' = Nothing
    /\ newDebts' = Nothing
    /\ UNCHANGED <<low, tables, blocks, results, currentDebts, debtOn, to, cursor, maps,
                   newCurrent, crashes, history>>

-----------------------------------------------------------------------------

EngineStep ==
    Start \/ Backlog \/ Round \/ CalculateBlock \/ FlushDebt \/ FlushCurrentDebts \/ Clear

Next == EngineStep \/ Crash

Spec == Init /\ [][Next]_vars

\* The process is scheduled and restarted by its supervisor.
FairSpec == Spec /\ WF_vars(EngineStep)
-----------------------------------------------------------------------------
(***************************************************************************)
(* Properties                                                              *)
(***************************************************************************)

\* Types of the variables: the tables, the maps and the control of the engine.
TypeOK ==
    /\ low \in [Session -> SUBSET Block]
    /\ adapterSync \in Height /\ debtSync \in Height /\ to \in Height /\ cursor \in Height
    /\ since \in [Session -> Height] /\ closedAt \in [Session -> Height]
    /\ css \in [Session -> SUBSET Block] /\ touch \in [Session -> SUBSET Block]
    /\ memCss \in [Session -> SUBSET Block] /\ memTouch \in [Session -> SUBSET Block]
    /\ blocks \subseteq Block /\ todo \subseteq Block /\ newest \in Height
    /\ debts \in [Session -> [Block -> Nat]]
    /\ accounts \in [Session -> Account] /\ tracker \in [Session -> Account]
    /\ currentDebts \in [Session -> Debt] /\ lastDebts \in [Session -> Debt]
    /\ newCurrent \in [Session -> Debt] /\ newDebts \in [Session -> SUBSET Block]
    /\ pc \in {"down", "backlog", "idle", "calc", "current", "clear"}
    /\ debtOn \in BOOLEAN /\ sessions \subseteq Session
    /\ lastCSS \in [Session -> Height]
    /\ crashes \in 0..MaxCrashes
    /\ calculated \in [Session -> SUBSET Block] /\ sent \in [Session -> SUBSET Block]

\* CalculateDebt and CalCurrentDebts read the session of every snapshot and the
\* snapshot of every open session without a check: after no restart, backlog or
\* Clear is one of them missing.
NothingMissing ==
    /\ pc = "calc" =>
         /\ \A s \in Session : memCss[s] # {} => s \in sessions
         /\ \A s \in sessions, b \in todo :
              OpenAt(s, b) => lastCSS[s] # 0 \/ \E c \in memCss[s] : c <= b
    /\ pc = "current" => \A s \in sessions : OpenAfter(s, to) => lastCSS[s] # 0

\* Table debts has no key: whatever is replayed after a crash, a debt is
\* written once, and never above debt_sync.  Only the block before a close may
\* be calculated a second time, when the close opens the next round.
NoDebtTwice ==
    \A s \in Session, b \in Block :
        /\ debts[s][b] > 0 => b <= debtSync
        /\ debts[s][b] <= IF closedAt[s] = b + 1 THEN 2 ELSE 1

\* The forced condition of docs/arch.md: a block with a snapshot of a session
\* has its debt, whatever crashes, except for a snapshot that a close has added
\* to a block already calculated.
SnapshotsRecorded ==
    \A s \in Session : \A b \in css[s] :
        b <= debtSync /\ closedAt[s] # b + 1 => debts[s][b] > 0

\* The throttling condition of docs/arch.md on the health factor, within the
\* life of a process: of two debts calculated one after the other on different
\* sides of 10000 the second is in the table.
SideChangeRecorded ==
    crashes = 0 /\ pc = "idle" =>
        \A s \in Session : \A b, c \in calculated[s] :
            /\ b < c /\ LowAt(s, b) # LowAt(s, c)
            /\ \A d \in calculated[s] : ~(b < d /\ d < c)
            => debts[s][c] > 0

\* A session that is calculated below 10000 for NotifyAfter blocks is notified,
\* when a calculation before them was safe (liquidationCheck).
NoticeSent ==
    pc = "idle" =>
        \A s \in Session : \A a, b, c \in calculated[s] :
            /\ a < b /\ c - b >= NotifyAfter
            /\ ~LowAt(s, a)
            /\ \A d \in calculated[s] :
                 /\ ~(a < d /\ d < b)
                 /\ b <= d /\ d <= c => LowAt(s, d)
            => \E n \in sent[s] : b <= n /\ n <= c

NoticeSentWithinRun == crashes = 0 => NoticeSent

\* CalCurrentDebts: the current debt of a session closed in the calculated
\* blocks is the one of the block before the close.
ClosedHaveFinalDebt ==
    pc = "idle" /\ debtOn =>
        \A s \in Session :
            closedAt[s] # 0 /\ closedAt[s] <= debtSync
            => currentDebts[s].block = closedAt[s] - 1

ClosedHaveFinalDebtWithinRun == crashes = 0 => ClosedHaveFinalDebt

\* Again and again the current debt of every open session is at the block the
\* adapters have reached, whatever a crash left between the two transactions.
CurrentDebtsCatchUp ==
    []<>(pc = "idle" /\ (debtOn => \A s \in Session :
            since[s] # 0 /\ closedAt[s] = 0 => currentDebts[s].block = adapterSync))
=============================================================================
