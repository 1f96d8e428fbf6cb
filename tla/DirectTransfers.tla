--------------------------- MODULE DirectTransfers ---------------------------
(***************************************************************************)
(* Token transfers to credit accounts that emit no event of a credit       *)
(* manager: AccountManager collects every transfer of a batch, the credit  *)
(* managers of CMWrapper delete those of their own transactions and take   *)
(* what is left for the sessions it belongs to, and AfterSync reports the  *)
(* rest as transfers without a session (ds/direct_token_manager.go,        *)
(* models/account_manager, models/wrappers/cm_wrapper,                     *)
(* models/credit_manager/direct_transfer.go).                              *)
(*                                                                         *)
(* A session is named by the number of its open log, and a log by its      *)
(* position on the chain.  A transaction of a credit manager has one event *)
(* and one token transfer of its account.  All managers are registered and *)
(* synced to the same block, and every account is known to AccountManager  *)
(* (its level comes after AccountFactory).                                 *)
(*                                                                         *)
(* A credit account sends tokens only when its manager makes it, in a      *)
(* transaction with an event; so what leaves an account outside of one is  *)
(* a transfer of zero, which anybody can ask a token for.  The log.Fatalf  *)
(* on any other direct transfer out of an account asserts this; the model  *)
(* assumes it.                                                             *)
(***************************************************************************)
EXTENDS Naturals, Sequences, FiniteSets

CONSTANTS Accounts, Managers,
          MaxTx, MaxDirect, MaxBlock, MaxRestarts

ASSUME TransferBoundsAssumption ==
    /\ {MaxTx, MaxDirect, MaxBlock} \subseteq Nat \ {0}
    /\ MaxRestarts \in Nat

VARIABLES
    \* The chain, external: the last complete block, the logs, the number of
    \* transactions, and the session that holds each account.
    head, logs, txs, current,
    \* DirectTransferManager.accountToData, by account.
    transfers, details,
    \* The sessions, and of every manager the sessions it has to fetch and the
    \* block of its last event.
    sessions, updated, closed, lastEventBlock,
    \* What is written: operations, no_session_transfers, session snapshots.
    rows, noSession, snapshots,
    \* The last saved block, whether the process has stopped (log.Fatal), and
    \* the tables of the database.
    lastSync, stopped, saved,
    \* The batch: where the round is, its last block, its last handled event.
    step, till, at,
    \* Observed: blocks of batches without an event, blocks before the first
    \* event of their batch, and the number of restarts.
    quiet, early, restarts

chainVars == <<head, logs, txs, current>>
transferVars == <<transfers, details>>
sessionVars == <<sessions, updated, closed, lastEventBlock>>
rowVars == <<rows, noSession, snapshots>>
syncVars == <<lastSync, stopped, saved>>
roundVars == <<step, till, at>>
seenVars == <<quiet, early, restarts>>
vars == <<chainVars, transferVars, sessionVars, rowVars, syncVars, roundVars, seenVars>>

None == 0

Received == {"deposit", "reward"}
Direct == Received \cup {"zero"}
Events == {"open", "close", "operation", "move"}

Kind(l) == logs[l].kind
Acc(l) == logs[l].acc
Manager(l) == logs[l].cm
Block(l) == logs[l].block
Tx(l) == logs[l].tx

\* The session that holds the account of a log when it is emitted.
SessionAt(l) == logs[l].ses

LogsOf(kinds) == {l \in DOMAIN logs : Kind(l) \in kinds}
BatchLogs(kinds) == {l \in LogsOf(kinds) : lastSync < Block(l) /\ Block(l) <= till}

(***************************************************************************)
(* The data compressor knows an account by its borrower: it has the        *)
(* session in a block when it is open at the end of the block and the      *)
(* borrower asked for is the one of that block.  A borrower is the number  *)
(* of changes of owner before it.                                          *)
(***************************************************************************)
OpenAt(ses, b) ==
    /\ Block(ses) <= b
    /\ \A l \in LogsOf({"close"}) : SessionAt(l) = ses => Block(l) > b

Moves(ses, b) == {l \in LogsOf({"move"}) : SessionAt(l) = ses /\ Block(l) <= b}

HasAccount(ses, b) == OpenAt(ses, b) /\ sessions[ses].owner = Cardinality(Moves(ses, b))

-----------------------------------------------------------------------------
(***************************************************************************)
(* DirectTransferManager.  The transfers of an account are kept by block   *)
(* and transaction, its sessions (Details) in the order they were opened.  *)
(***************************************************************************)
BeforeOpen(d, l) == Block(l) = Block(d.ses) /\ l < d.ses /\ Tx(l) # Tx(d.ses)

\* Mutant: a transfer after the close of a session in the same block.
AfterCloseMutant(d, l) == FALSE

AfterClose(d, l) ==
    d.closeLog # None /\ Block(l) = Block(d.closeLog) /\ l > d.closeLog /\ Tx(l) # Tx(d.closeLog)

\* The one session that is considered for the transfers of a block: the last
\* of the details that was opened by then.
IsDetailAt(acc, i, b) ==
    /\ Block(details[acc][i].ses) <= b
    /\ \A j \in DOMAIN details[acc] : j > i => Block(details[acc][j].ses) > b

\* Mutant: nothing is taken in the block of the close.
BelongsToMutant(l, ses) ==
    \E i \in DOMAIN details[Acc(l)] :
        LET d == details[Acc(l)][i]
        IN  /\ d.ses = ses /\ IsDetailAt(Acc(l), i, Block(l))
            /\ d.closeLog = None \/ Block(d.closeLog) > Block(l)
            /\ ~BeforeOpen(d, l)

BelongsTo(l, ses) ==
    \E i \in DOMAIN details[Acc(l)] :
        LET d == details[Acc(l)][i]
        IN  /\ d.ses = ses /\ IsDetailAt(Acc(l), i, Block(l))
            /\ d.closeLog = None \/ Block(d.closeLog) >= Block(l)
            /\ ~BeforeOpen(d, l) /\ ~AfterClose(d, l)

Pending(l) == l \in DOMAIN logs /\ l \in transfers[Acc(l)]

\* What the managers take of the transfers of some blocks, and what they leave:
\* what is taken is deleted with the rest of its transaction.
CheckTokenTransfer(cms, blocks) ==
    {t \in [log : {l \in DOMAIN logs : Pending(l)}, ses : DOMAIN sessions] :
        /\ Block(t.log) \in blocks /\ Manager(t.ses) \in cms
        /\ BelongsTo(t.log, t.ses)}

Left(taken) ==
    [acc \in Accounts |-> {l \in transfers[acc] :
        \A t \in taken : Acc(t.log) = acc => Tx(t.log) # Tx(l)}]

\* The transactions of what is left, with all their transfers.
GetNoSessionTxs ==
    {l \in BatchLogs(Direct \cup {"transfer"}) :
        \E k \in DOMAIN logs : Pending(k) /\ Tx(k) = Tx(l)}

-----------------------------------------------------------------------------
(***************************************************************************)
(* The sessions of the managers after a block: its transfers are added,    *)
(* then what changed is fetched from the data compressor, for its closed   *)
(* sessions in the block before (not at all for a session that lived in    *)
(* one block only).  A missing account stops the process.  A zero transfer *)
(* out of an account is nothing, a deposit has a row of its own, the       *)
(* rewards of a transaction have one.                                      *)
(***************************************************************************)
Counted(taken) == {t \in taken : Kind(t.log) # "zero"}

CountedFor(taken, ses) == {l \in DOMAIN logs : [log |-> l, ses |-> ses] \in Counted(taken)}

RowLogs(t, taken) ==
    IF Kind(t.log) = "deposit" THEN {t.log}
    ELSE {l \in CountedFor(taken, t.ses) : Kind(l) # "deposit" /\ Tx(l) = Tx(t.log)}

NewRows(taken) == {[logs |-> RowLogs(t, taken), ses |-> t.ses] : t \in Counted(taken)}

\* Mutant: only the transfers of a session that has a snapshot are added.
CollateralMutant(taken, ses) ==
    sessions[ses].collateral
      + IF sessions[ses].balancesAt = 0 THEN 0 ELSE Cardinality(CountedFor(taken, ses))

Collateral(taken, ses) == sessions[ses].collateral + Cardinality(CountedFor(taken, ses))

Touched(cms) == UNION {updated[cm] : cm \in cms}
Closed(cms) == UNION {closed[cm] : cm \in cms}

Updated(taken, cms) ==
    (Touched(cms) \cup {t.ses : t \in Counted(taken)}) \ Closed(cms)

\* Mutant: a session that lived in one block only is fetched too.
FetchedMutant(taken, cms, b) == Updated(taken, cms) \cup Closed(cms)

Fetched(taken, cms, b) == Updated(taken, cms) \cup {s \in Closed(cms) : Block(s) # b}

FetchBlock(cms, ses, b) == IF ses \in Closed(cms) THEN b - 1 ELSE b

AddSnapshots(taken, cms, b) ==
    {x \in snapshots : x.ses \in Fetched(taken, cms, b) => x.block # FetchBlock(cms, x.ses, b)}
      \cup {[ses |-> s, block |-> FetchBlock(cms, s, b), collateral |-> Collateral(taken, s)] :
              s \in Fetched(taken, cms, b)}

FetchFromDCForChangedSessions(taken, cms, b) ==
    /\ transfers' = Left(taken)
    /\ rows' = rows \cup NewRows(taken)
    /\ sessions' = [s \in DOMAIN sessions |->
                     [sessions[s] EXCEPT !.collateral = Collateral(taken, s),
                                         !.balancesAt = IF s \in Fetched(taken, cms, b)
                                                        THEN FetchBlock(cms, s, b) ELSE @]]
    /\ snapshots' = AddSnapshots(taken, cms, b)
    /\ stopped' = \E s \in Fetched(taken, cms, b) : ~HasAccount(s, FetchBlock(cms, s, b))
    /\ updated' = [cm \in Managers |-> IF cm \in cms THEN {} ELSE updated[cm]]
    /\ closed' = [cm \in Managers |-> IF cm \in cms THEN {} ELSE closed[cm]]
    /\ UNCHANGED <<details, noSession, lastSync, saved, till, at>>
    /\ UNCHANGED <<chainVars, seenVars>>

-----------------------------------------------------------------------------
(***************************************************************************)
(* The chain: transactions of the next block.  One without an event of a   *)
(* credit manager has a deposit, a zero transfer out of an account, or the *)
(* rewards of one account or of two.  Blocks that are not complete are     *)
(* invisible to a round, so the chain rests while one is in progress.      *)
(***************************************************************************)
Entry(kind, acc, cm, ses) ==
    [kind |-> kind, acc |-> acc, cm |-> cm, ses |-> ses, block |-> head + 1, tx |-> txs + 1]

Idle == ~stopped /\ step = "idle"

Execute(entries) ==
    /\ Idle /\ txs < MaxTx /\ head < MaxBlock
    /\ logs' = logs \o entries
    /\ txs' = txs + 1
    /\ UNCHANGED <<head, transferVars, sessionVars, rowVars, syncVars, roundVars, seenVars>>

OpenCreditAccount(acc, cm) ==
    /\ current[acc] = None
    /\ Execute(<<Entry("transfer", acc, cm, None), Entry("open", acc, cm, Len(logs) + 2)>>)
    /\ current' = [current EXCEPT ![acc] = Len(logs) + 2]

Operate(acc, kind) ==
    /\ current[acc] # None
    /\ LET cm == Manager(current[acc])
       IN  Execute(<<Entry("transfer", acc, cm, current[acc]), Entry(kind, acc, cm, current[acc])>>)
    /\ current' = IF kind = "close" THEN [current EXCEPT ![acc] = None] ELSE current

DirectTransfer(kind, to) ==
    /\ Cardinality({Tx(l) : l \in LogsOf(Direct)}) < MaxDirect
    /\ Execute([i \in DOMAIN to |-> Entry(kind, to[i], "none", current[to[i]])])
    /\ UNCHANGED current

NewBlock ==
    /\ Idle /\ head < MaxBlock
    /\ head' = head + 1
    /\ UNCHANGED <<logs, txs, current, transferVars, sessionVars, rowVars, syncVars, roundVars, seenVars>>

BlockComplete == \A l \in DOMAIN logs : Block(l) <= head

(***************************************************************************)
(* A round collects the transfers, handles the events, and saves.  Without *)
(* an event in the batch CMWrapper.OnLogs does nothing.                    *)
(***************************************************************************)
Query ==
    /\ Idle /\ head > lastSync /\ BlockComplete
    /\ till' = head
    /\ transfers' = [acc \in Accounts |-> transfers[acc] \cup
                       {l \in LogsOf(Direct \cup {"transfer"}) : Acc(l) = acc /\ lastSync < Block(l)}]
    /\ step' = IF \E l \in LogsOf(Events) : lastSync < Block(l) THEN "logs" ELSE "flush"
    /\ UNCHANGED <<at, chainVars, details, sessionVars, rowVars, syncVars, seenVars>>

\* The events of the batch in their order; a transaction with an event is not
\* a direct transfer.
OnLog(l) ==
    /\ ~stopped /\ step = "logs"
    /\ l > at /\ l \in BatchLogs(Events)
    /\ \A e \in BatchLogs(Events) : e > at => l <= e
    /\ transfers' = [acc \in Accounts |-> {k \in transfers[acc] : Tx(k) # Tx(l)}]
    /\ lastEventBlock' = [lastEventBlock EXCEPT ![Manager(l)] = Block(l)]
    /\ at' = l
    /\ step' = IF \E e \in BatchLogs(Events) : e > l /\ Block(e) = Block(l) THEN "logs" ELSE "block"
    /\ UNCHANGED <<till, chainVars, rowVars, syncVars, seenVars>>

\* The session of the account that is not closed.
GetCreditOwnerSession(l) ==
    CHOOSE s \in DOMAIN sessions : Acc(s) = Acc(l) /\ sessions[s].closeLog = None

NewSession == [owner |-> 0, closeLog |-> None, balancesAt |-> 0, collateral |-> 0]

OnOpenCreditAccount(l) ==
    /\ Kind(l) = "open" /\ OnLog(l)
    /\ sessions' = [s \in DOMAIN sessions \cup {l} |-> IF s = l THEN NewSession ELSE sessions[s]]
    /\ updated' = [updated EXCEPT ![Manager(l)] = @ \cup {l}]
    /\ details' = [details EXCEPT ![Acc(l)] = Append(@, [ses |-> l, closeLog |-> None])]
    /\ UNCHANGED closed

OnOperation(l) ==
    /\ Kind(l) = "operation" /\ OnLog(l)
    /\ updated' = [updated EXCEPT ![Manager(l)] = @ \cup {GetCreditOwnerSession(l)}]
    /\ UNCHANGED <<sessions, closed, details>>

OnTransferAccount(l) ==
    /\ Kind(l) = "move" /\ OnLog(l)
    /\ sessions' = [sessions EXCEPT ![GetCreditOwnerSession(l)].owner = @ + 1]
    /\ UNCHANGED <<updated, closed, details>>

\* Every session of the account that was opened in that block is closed
\* (AccountData.SetClose).
OnCloseCreditAccount(l) ==
    /\ Kind(l) = "close" /\ OnLog(l)
    /\ LET ses == GetCreditOwnerSession(l)
       IN  /\ closed' = [closed EXCEPT ![Manager(l)] = @ \cup {ses}]
           /\ sessions' = [sessions EXCEPT ![ses].closeLog = l]
           /\ details' = [details EXCEPT ![Acc(l)] = [i \in DOMAIN @ |->
                            IF Block(@[i].ses) = Block(ses) THEN [@[i] EXCEPT !.closeLog = l] ELSE @[i]]]
    /\ UNCHANGED updated

(***************************************************************************)
(* CMWrapper.onBlockChange, after the last event of a block: first the     *)
(* managers with an event in it, then, oldest block first, what is left of *)
(* the blocks before the next event.  The managers share no session and no *)
(* transfer, so they are taken together.                                   *)
(***************************************************************************)
OnBlockChange ==
    /\ ~stopped /\ step = "block"
    /\ LET b == Block(at)
           cms == {cm \in Managers : lastEventBlock[cm] = b}
       IN  /\ FetchFromDCForChangedSessions(CheckTokenTransfer(cms, {b}), cms, b)
           /\ lastEventBlock' = [cm \in Managers |-> IF cm \in cms THEN 0 ELSE lastEventBlock[cm]]
    /\ step' = "before"

BlocksBefore == {b \in 0..till : \A e \in BatchLogs(Events) : e > at => b < Block(e)}

\* Mutant: the newest block first.
UpdateSessionBeforeMutant ==
    /\ ~stopped /\ step = "before"
    /\ \E b \in BlocksBefore :
         /\ CheckTokenTransfer(Managers, {b}) # {}
         /\ \A c \in BlocksBefore : c > b => CheckTokenTransfer(Managers, {c}) = {}
         /\ FetchFromDCForChangedSessions(CheckTokenTransfer(Managers, {b}), Managers, b)
    /\ UNCHANGED <<step, lastEventBlock>>

UpdateSessionWithDirectTokenTransferBefore ==
    /\ ~stopped /\ step = "before"
    /\ \E b \in BlocksBefore :
         /\ CheckTokenTransfer(Managers, {b}) # {}
         /\ \A c \in BlocksBefore : c < b => CheckTokenTransfer(Managers, {c}) = {}
         /\ FetchFromDCForChangedSessions(CheckTokenTransfer(Managers, {b}), Managers, b)
    /\ UNCHANGED <<step, lastEventBlock>>

EndBlock ==
    /\ ~stopped /\ step = "before"
    /\ CheckTokenTransfer(Managers, BlocksBefore) = {}
    /\ step' = IF \E e \in BatchLogs(Events) : e > at THEN "logs" ELSE "flush"
    /\ UNCHANGED <<till, at, chainVars, transferVars, sessionVars, rowVars, syncVars, seenVars>>

\* Mutant: what was reported is not cleared.
AfterSyncMutant ==
    /\ ~stopped /\ step = "flush"
    /\ noSession' = noSession \cup GetNoSessionTxs
    /\ lastSync' = till
    /\ saved' = [sessions |-> sessions, rows |-> rows, noSession |-> noSession', snapshots |-> snapshots]
    /\ step' = "idle" /\ at' = 0
    /\ UNCHANGED <<till, rows, snapshots, stopped, transfers, details, chainVars, sessionVars, seenVars>>

AfterSync ==
    /\ ~stopped /\ step = "flush"
    /\ noSession' = noSession \cup GetNoSessionTxs
    /\ transfers' = [acc \in Accounts |-> {}]
    /\ lastSync' = till
    /\ saved' = [sessions |-> sessions, rows |-> rows, noSession |-> noSession', snapshots |-> snapshots]
    /\ step' = "idle" /\ at' = 0
    /\ quiet' = IF BatchLogs(Events) = {} THEN quiet \cup ((lastSync + 1)..till) ELSE quiet
    /\ early' = IF BatchLogs(Events) = {} THEN early
                ELSE early \cup {b \in (lastSync + 1)..till : \A e \in BatchLogs(Events) : b < Block(e)}
    /\ UNCHANGED <<till, rows, snapshots, stopped, restarts, details, chainVars, sessionVars>>

(***************************************************************************)
(* A restart loads the last session of every account, any of them when     *)
(* two were opened in the same block.  A session has the collateral of the *)
(* newest of its snapshots (one without a snapshot is closed).             *)
(***************************************************************************)
SavedSessions(acc) == {s \in DOMAIN saved.sessions : Acc(s) = acc}

LastSessions ==
    {f \in [Accounts -> DOMAIN saved.sessions \cup {None}] :
        \A acc \in Accounts :
            \/ SavedSessions(acc) = {} /\ f[acc] = None
            \/ /\ f[acc] \in SavedSessions(acc)
               /\ \A s \in SavedSessions(acc) : Block(s) <= Block(f[acc])}

SnapshotsOf(ses) == {x \in saved.snapshots : x.ses = ses}

NewestSnapshot(ses) == CHOOSE x \in SnapshotsOf(ses) : \A y \in SnapshotsOf(ses) : y.block <= x.block

LoadCreditSession(ses) ==
    IF SnapshotsOf(ses) = {} THEN saved.sessions[ses]
    ELSE [saved.sessions[ses] EXCEPT !.collateral = NewestSnapshot(ses).collateral]

Restart ==
    /\ restarts < MaxRestarts /\ BlockComplete
    /\ restarts' = restarts + 1
    /\ transfers' = [acc \in Accounts |-> {}]
    /\ \E last \in LastSessions :
         details' = [acc \in Accounts |->
             IF last[acc] = None THEN <<>>
             ELSE <<[ses |-> last[acc], closeLog |-> saved.sessions[last[acc]].closeLog]>>]
    /\ sessions' = [s \in DOMAIN saved.sessions |-> LoadCreditSession(s)]
    /\ updated' = [cm \in Managers |-> {}]
    /\ closed' = [cm \in Managers |-> {}]
    /\ lastEventBlock' = [cm \in Managers |-> 0]
    /\ rows' = saved.rows /\ noSession' = saved.noSession /\ snapshots' = saved.snapshots
    /\ stopped' = FALSE
    /\ step' = "idle" /\ at' = 0 /\ till' = lastSync
    /\ UNCHANGED <<chainVars, lastSync, saved, quiet, early>>

Init ==
    /\ head = 0 /\ logs = <<>> /\ txs = 0 /\ current = [acc \in Accounts |-> None]
    /\ transfers = [acc \in Accounts |-> {}]
    /\ details = [acc \in Accounts |-> <<>>]
    /\ sessions = <<>>
    /\ updated = [cm \in Managers |-> {}] /\ closed = [cm \in Managers |-> {}]
    /\ lastEventBlock = [cm \in Managers |-> 0]
    /\ rows = {} /\ noSession = {} /\ snapshots = {}
    /\ lastSync = 0 /\ stopped = FALSE
    /\ saved = [sessions |-> <<>>, rows |-> {}, noSession |-> {}, snapshots |-> {}]
    /\ step = "idle" /\ till = 0 /\ at = 0
    /\ quiet = {} /\ early = {} /\ restarts = 0

Chain ==
    /\ Idle
    /\ \/ \E acc \in Accounts, cm \in Managers : OpenCreditAccount(acc, cm)
       \/ \E acc \in Accounts, kind \in {"operation", "move", "close"} : Operate(acc, kind)
       \/ \E acc \in Accounts, kind \in {"deposit", "zero"} : DirectTransfer(kind, <<acc>>)
       \/ \E acc, other \in Accounts : DirectTransfer("reward", <<acc, other>>)
       \/ NewBlock

OnLogs ==
    \/ /\ step = "logs"
       /\ \E l \in DOMAIN logs : \/ OnOpenCreditAccount(l) \/ OnOperation(l)
                                 \/ OnTransferAccount(l) \/ OnCloseCreditAccount(l)
    \/ OnBlockChange
    \/ UpdateSessionWithDirectTokenTransferBefore
    \/ EndBlock

Next == Chain \/ Query \/ OnLogs \/ AfterSync \/ Restart

Spec == Init /\ [][Next]_vars

-----------------------------------------------------------------------------
(***************************************************************************)
(* What the indexer promises about direct transfers.                       *)
(***************************************************************************)
BlockSaved == ~stopped /\ step = "idle"
SavedLogs(kinds) == {l \in LogsOf(kinds) : Block(l) <= lastSync}

\* A batch without a log of a credit manager: CMWrapper.OnLogs does nothing.
Quiet(l) == Block(l) \in quiet

\* A transfer before the first log of its batch is taken after that log's block.
NoneEarly(ses) == \A l \in SavedLogs(Received) : SessionAt(l) = ses => Block(l) \notin early

\* The account is opened again in the block of the transfer.
Reopened(l) == \E k \in LogsOf({"open"}) : k > l /\ Block(k) = Block(l) /\ Acc(k) = Acc(l)

\* The last session of the account before the block of the transfer was opened
\* in the same block as another one, and a restart may have loaded either.
Ambiguous(l) ==
    /\ restarts > 0
    /\ \E j, k \in LogsOf({"open"}) :
         /\ Acc(j) = Acc(l) /\ Acc(k) = Acc(l)
         /\ j < k /\ Block(j) = Block(k) /\ Block(k) < Block(l)
         /\ \A o \in LogsOf({"open"}) : Acc(o) = Acc(l) /\ o > k => Block(o) > Block(l)

RowsOf(l) == {r \in rows : l \in r.logs}

(***************************************************************************)
(* The pending transfers are transfers of the round in progress, the       *)
(* details of an account name its sessions in the order they were opened,  *)
(* a manager fetches its own sessions, and a row is a non-empty set of     *)
(* transfers of a session.                                                 *)
(***************************************************************************)
TypeOK ==
    /\ lastSync \in 0..head
    /\ \A acc \in Accounts :
         /\ \A l \in transfers[acc] : /\ l \in DOMAIN logs /\ Acc(l) = acc
                                      /\ lastSync < Block(l) /\ Block(l) <= till
         /\ \A i, j \in DOMAIN details[acc] :
              /\ details[acc][i].ses \in DOMAIN sessions /\ Acc(details[acc][i].ses) = acc
              /\ i < j => details[acc][i].ses < details[acc][j].ses
    /\ \A cm \in Managers : \A s \in updated[cm] \cup closed[cm] :
         s \in DOMAIN sessions /\ Manager(s) = cm
    /\ \A r \in rows : r.logs # {} /\ r.logs \subseteq LogsOf(Received) /\ r.ses \in DOMAIN sessions

(***************************************************************************)
(* The log.Fatal of updateSessionCallAndProcessFn and of                   *)
(* closeSessionCallAndResultFn (the data compressor has no account of that *)
(* borrower in that block) is met only when a session changes its borrower *)
(* and is closed in one block, when it changes it in the first block with  *)
(* a log of its batch after a direct transfer of the same batch, or when a *)
(* restart may have loaded the wrong session for a transfer of the batch.  *)
(***************************************************************************)
StopsOnlyOnKnownCauses ==
    stopped =>
        \/ \E mv \in BatchLogs({"move"}), c \in BatchLogs({"close"}) :
              SessionAt(c) = SessionAt(mv) /\ Block(c) = Block(mv)
        \/ \E mv \in BatchLogs({"move"}), l \in BatchLogs(Received) :
              /\ SessionAt(l) = SessionAt(mv) /\ Block(l) < Block(mv)
              /\ \A e \in BatchLogs(Events) : Block(mv) <= Block(e)
        \/ \E l \in BatchLogs(Received) : Ambiguous(l)

(***************************************************************************)
(* A transfer is attributed to the session that owned the account when it  *)
(* happened, also around the open and the close of a session in the same   *)
(* block and after a restart (AccountData.GetRemainingTransfer).           *)
(***************************************************************************)
RecordedInSession ==
    BlockSaved => \A r \in rows : \A l \in r.logs : SessionAt(l) = r.ses

(***************************************************************************)
(* Every direct transfer of a saved block is recorded in at most one row,  *)
(* in one if a session owned the account, unless its batch had no log of a *)
(* credit manager (CMWrapper.OnLogs), the account was opened again in its  *)
(* block, or a restart may have loaded the wrong session.  Reported        *)
(* without a session are the transactions with a transfer in no row.       *)
(***************************************************************************)
EveryTransferAccounted ==
    BlockSaved => \A l \in SavedLogs(Received) :
        /\ \A r, q \in RowsOf(l) : r = q
        /\ SessionAt(l) = None \/ Quiet(l) \/ Reopened(l) => RowsOf(l) = {}
        /\ RowsOf(l) = {} => SessionAt(l) = None \/ Quiet(l) \/ Reopened(l) \/ Ambiguous(l)
        /\ l \in noSession <=> \E k \in SavedLogs(Received) : Tx(k) = Tx(l) /\ RowsOf(k) = {}

(***************************************************************************)
(* What updateSession and closeSession leave in a session are the balances *)
(* of its newest snapshot, unless an early transfer (taken after a later   *)
(* block) set them back.                                                   *)
(***************************************************************************)
NewestBalances ==
    BlockSaved => \A x \in snapshots :
        NoneEarly(x.ses) =>
            /\ x.block <= sessions[x.ses].balancesAt
            /\ \E y \in snapshots : y.ses = x.ses /\ y.block = sessions[x.ses].balancesAt

(***************************************************************************)
(* The collateral of a snapshot is the sum of the transfers that were      *)
(* recorded for its session up to its block; the snapshot of a close, made *)
(* for the block before, has those of the block of the close as well.      *)
(***************************************************************************)
Recorded(ses) == UNION {r.logs : r \in {x \in rows : x.ses = ses}}

SnapshotEnd(x) ==
    LET c == sessions[x.ses].closeLog
    IN  IF c # None /\ Block(c) = x.block + 1 THEN Block(c) ELSE x.block

CollateralMatchesRows ==
    BlockSaved => \A x \in snapshots :
        NoneEarly(x.ses) =>
            x.collateral = Cardinality({l \in Recorded(x.ses) : Block(l) <= SnapshotEnd(x)})
=============================================================================
