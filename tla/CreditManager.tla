--------------------------- MODULE CreditManager ---------------------------
(***************************************************************************)
(* One credit manager adapter (models/credit_manager): its v1 and v2 event *)
(* handlers, the grouping of a transaction's events into account           *)
(* operations, and the end of a block, where sessions and statistics are   *)
(* brought in line with the data compressor.                               *)
(*                                                                         *)
(*   chain  the contracts: who owns an account, its debt now and at the    *)
(*          end of the last block, and the transaction being executed with *)
(*          its trace.  External, modelled from what the adapter reads.    *)
(*   cm     the adapter and the rows it adds to the repository for the     *)
(*          block.  Handlers are operators from cm to cm; a log.Fatal or   *)
(*          panic leaves its reason in cm.fatal, and nothing runs after.   *)
(*                                                                         *)
(* A step executes one contract call and hands its logs, in order, to      *)
(* OnLog.  All logs of a credit manager in one transaction are adjacent,   *)
(* so no other handler can run between them.  A session is named by the    *)
(* number of its OpenCreditAccount log.  Debts are counted in units.       *)
(***************************************************************************)
EXTENDS MultiCallProcessor, FiniteSets, FiniteSetsExt, Functions

CONSTANTS Borrowers,       \* owners of credit accounts
          Inners,          \* contents of multicalls and of opening multicalls
          ClosingInners,   \* contents of the multicalls of close and liquidate
          MaxCalls,        \* contract calls in a behaviour
          MaxBlock,        \* blocks in a behaviour
          MaxDebt,         \* units of debt of an account
          DiscoveredAt     \* block at which the manager is registered

ASSUME BoundsAssumption ==
    {MaxCalls, MaxBlock, MaxDebt, DiscoveredAt} \subseteq Nat \ {0}

VARIABLES chain, cm
vars == <<chain, cm>>

None == 0
NoAccount == [ses |-> None, debt |-> 0]
Owners(acc) == {b \in DOMAIN acc : acc[b].ses # None}
Outstanding(acc) == SumFunction([b \in DOMAIN acc |-> acc[b].debt])
EmptyTrace == [calls |-> <<>>, own |-> 0, all |-> 0, opens |-> 0, lastMain |-> "none"]

Operation(l, ses, act) == [act |-> act, who |-> l.who, ses |-> ses, id |-> l.id, inner |-> <<>>]
Row(op) == [id |-> op.id, ses |-> op.ses]
Rows(ops) == [i \in DOMAIN ops |-> Row(ops[i])]

Fatal(c, why) == [c EXCEPT !.fatal = why]
Step(c, Handler(_)) == IF c.fatal # "" THEN c ELSE Handler(c)

-----------------------------------------------------------------------------
(***************************************************************************)
(* The execute orders of a transaction (services/execute_parser.go): the   *)
(* calls are those of this manager, at most as many as asked for, the      *)
(* transfers those of every ExecuteOrder event of the transaction.         *)
(***************************************************************************)
GetExecuteCallsFails(tr, params) ==
    params # <<>> /\ Min({tr.own, Len(params)}) # tr.all

GetMainCalls(tr, facade) == SelectSeq(tr.calls, LAMBDA call : call.facade = facade)


SaveExecuteEvents(c, tr, params) ==
    IF GetExecuteCallsFails(tr, params) THEN Fatal(c, "execute calls differ")
    ELSE [c EXCEPT !.rows = @ \o Rows(params),
                   !.UpdatedSessions = @ \cup {params[i].ses : i \in DOMAIN params}]

(***************************************************************************)
(* v1: the ExecuteOrder events of a transaction are saved when the next    *)
(* one starts.                                                             *)
(***************************************************************************)
ProcessExecuteEvents(c, tr) ==
    IF c.executeParams = <<>> THEN c
    ELSE [SaveExecuteEvents(c, tr, c.executeParams) EXCEPT !.executeParams = <<>>]

-----------------------------------------------------------------------------
(***************************************************************************)
(* v2: the same moment saves the events outside multicalls, the opens      *)
(* without multicall, and the facade actions matched with the trace.       *)
(***************************************************************************)
IsExecute(op) == op.act = "ExecuteOrder"
IsCollateral(op) == op.act = "AddCollateral"

ProcessNonMultiCalls(c) ==
    LET popped == PopNonMulticallEventsV2(c.mc)
        direct == SelectSeq(popped.events, LAMBDA op : ~IsExecute(op))
    IN  [c EXCEPT !.mc = popped.rest,
                  !.rows = @ \o Rows(direct),
                  !.UpdatedSessions = @ \cup {popped.events[i].ses : i \in DOMAIN popped.events}]

AddCollateralForOpen(c, op) ==
    IF ~\E i \in DOMAIN op.inner : IsCollateral(op.inner[i])
    THEN Fatal(c, "collateral is zero")
    ELSE [c EXCEPT !.sessions[op.ses].funded = TRUE]

SaveOpenWithoutMulticall(c, action) ==
    Step([c EXCEPT !.rows = @ \o <<Row(action.data)>> \o Rows(action.data.inner),
                   !.UpdatedSessions = @ \cup {action.data.ses}],
         LAMBDA d : AddCollateralForOpen(d, action.data))

MainEvent(name) ==
    CASE name = "FacadeMulticall" -> "MultiCallStarted"
      [] name = "FacadeOpenMulticall" -> "OpenCreditAccount"
      [] name = "FacadeCloseAccount" -> "CloseCreditAccount"
      [] OTHER -> "LiquidateCreditAccount"

SetLiquidateStatus(c, ses, expired) ==
    [c EXCEPT !.ClosedSessions[ses].status =
        CASE c.paused -> "LiquidatePaused"
          [] ~c.paused /\ expired -> "LiquidateExpired"
          [] OTHER -> "Liquidated"]

(***************************************************************************)
(* The first loop of validateAndSaveFacadeActions: one action against the  *)
(* call at its position.                                                   *)
(***************************************************************************)
ValidateAction(c, action, call) ==
    LET op == action.data
        marked == CASE call.name \in {"FacadeMulticall", "FacadeOpenMulticall"} ->
                         [c EXCEPT !.UpdatedSessions = @ \cup {op.ses}]
                    [] call.name \in {"FacadeLiquidate", "FacadeLiquidateExpired"}
                       /\ op.ses \in DOMAIN c.ClosedSessions ->
                         SetLiquidateStatus(c, op.ses, call.name = "FacadeLiquidateExpired")
                    [] OTHER -> c
    IN  IF op.act # MainEvent(call.name) THEN Fatal(c, "call differs from event")
        ELSE IF ~SameMulticallLenAsEvents(call, op.inner)
        THEN Fatal(c, "multicall lengths differ")
        ELSE marked

(***************************************************************************)
(* addMulticallToMainEvent: a collateral for somebody else's account is a  *)
(* row of its own (its session is not marked as updated); the rest hangs   *)
(* below the main event.  Execute orders take the main event's session.    *)
(***************************************************************************)
AddMulticallToMainEvent(c, op) ==
    LET mine(x) == ~(IsCollateral(x) /\ x.who # op.who)
        inner == [i \in DOMAIN op.inner |->
                    IF IsExecute(op.inner[i]) THEN [op.inner[i] EXCEPT !.ses = op.ses]
                    ELSE op.inner[i]]
        saved == [c EXCEPT !.rows = @ \o Rows(inner) \o <<Row(op)>>]
    IN  IF op.act = "OpenCreditAccount"
        THEN AddCollateralForOpen(saved, [op EXCEPT !.inner = SelectSeq(op.inner, mine)])
        ELSE saved

ValidateAndSaveFacadeActions(c, tr, actions, calls, direct) ==
    LET inMulticalls == FlattenSeq([i \in DOMAIN actions |->
                          LET op == actions[i].data
                              ex == SelectSeq(op.inner, IsExecute)
                          IN  [j \in DOMAIN ex |-> [ex[j] EXCEPT !.ses = op.ses]]])
        params == SetToSortSeq(ToSet(inMulticalls \o direct), LAMBDA x, y : x.id < y.id)
        remaining == SelectSeq(params, LAMBDA x : x \notin ToSet(direct))
        validated == FoldLeft(LAMBDA d, i : Step(d, LAMBDA e : ValidateAction(e, actions[i], calls[i])),
                              c, [i \in DOMAIN actions |-> i])
        Save(d) ==
            IF GetExecuteCallsFails(tr, params) THEN Fatal(d, "execute calls differ")
            ELSE IF remaining # inMulticalls THEN Fatal(d, "execute order index mismatch")
            ELSE FoldLeft(LAMBDA e, a : Step(e, LAMBDA f : AddMulticallToMainEvent(f, a.data)),
                          [d EXCEPT !.rows = @ \o Rows(direct)], actions)
    IN  Step(validated, Save)

ProcessRemainingMultiCalls(c, tr, direct) ==
    LET popped == PopMainActionsv2(c.mc)
        opened == FoldLeft(LAMBDA d, a : Step(d, LAMBDA e : SaveOpenWithoutMulticall(e, a)),
                           [c EXCEPT !.mc = popped.rest], popped.opens)
        calls == GetMainCalls(tr, c.facade)
        fixed == FixFacadeActionStructure(calls, popped.facade)
        Rest(d) == CASE popped.facade # <<>> /\ fixed.ok ->
                          ValidateAndSaveFacadeActions(d, tr, fixed.res, calls, direct)
                     [] popped.facade # <<>> /\ ~fixed.ok ->
                          Fatal(d, "facade actions differ from calls")
                     [] popped.facade = <<>> /\ direct # <<>> ->
                          SaveExecuteEvents(d, tr, direct)
                     [] OTHER -> d
    IN  Step(opened, Rest)

OnNewTxHashV2(c, tr) ==
    ProcessRemainingMultiCalls(ProcessNonMultiCalls(c), tr, SelectSeq(c.mc.nonMC, IsExecute))

OnTxHash(c, tx, tr) ==
    LET flushed == CASE c.LastTxHash \in {None, tx} -> c
                     [] c.LastTxHash \notin {None, tx} /\ chain.version = 1 ->
                          ProcessExecuteEvents(c, tr)
                     [] OTHER -> OnNewTxHashV2(c, tr)
    IN  Step(flushed, LAMBDA d : [d EXCEPT !.LastTxHash = tx])

-----------------------------------------------------------------------------
(***************************************************************************)
(* Handlers of the events that both versions have in common.               *)
(***************************************************************************)
GetCreditOwnerSessionFails(c, who) == c.Sessions[who] = None

\* Mutant: the opened account is not counted.
CMStatsOnOpenAccountMutant(c, amount) ==
    [c EXCEPT !.stats.totalOpened = @ + 1,
              !.borrowedAmountForBlock = @ + amount]

CMStatsOnOpenAccount(c, amount) ==
    [c EXCEPT !.stats.totalOpened = @ + 1,
              !.stats.openedCount = @ + 1,
              !.borrowedAmountForBlock = @ + amount]

PoolBorrow(c, ses, amount) ==
    [c EXCEPT !.ledger = Append(@, [event |-> "Borrow", ses |-> ses, amount |-> amount])]

PoolRepay(c, ses, amount) ==
    [c EXCEPT !.ledger = Append(@, [event |-> "Repay", ses |-> ses, amount |-> amount])]

AddCreditSession(c, ses, who, amount) ==
    [c EXCEPT !.Sessions[who] = ses,
              !.sessions = @ @@ (ses :> [borrower |-> who, status |-> "Active",
                                         since |-> chain.block, closedAt |-> 0,
                                         borrowed |-> amount, funded |-> FALSE])]

(***************************************************************************)
(* The end of a session in an event handler: details for the end of the    *)
(* block, the owner gone from the session map.                             *)
(***************************************************************************)
CloseOwner(c, l, status, op) ==
    LET ses == c.Sessions[l.who]
    IN  [c EXCEPT !.ClosedSessions =
                      (ses :> [status |-> status, op |-> op]) @@ @,
                  !.Sessions[l.who] = None]

\* Mutant: the session keeps its old borrower.
OnTransferAccountMutant(c, l) ==
    IF GetCreditOwnerSessionFails(c, l.who) THEN Fatal(c, "no session")
    ELSE LET ses == c.Sessions[l.who]
         IN  [c EXCEPT !.rows = Append(@, [id |-> l.id, ses |-> ses]),
                       !.Sessions[l.who] = None,
                       !.Sessions[l.to] = ses]

OnTransferAccount(c, l) ==
    IF GetCreditOwnerSessionFails(c, l.who) THEN Fatal(c, "no session")
    ELSE LET ses == c.Sessions[l.who]
         IN  [c EXCEPT !.rows = Append(@, [id |-> l.id, ses |-> ses]),
                       !.Sessions[l.who] = None,
                       !.Sessions[l.to] = ses,
                       !.sessions[ses].borrower = l.to]

-----------------------------------------------------------------------------
(***************************************************************************)
(* Version 2 (v2.go, v2operation.go).                                      *)
(***************************************************************************)
OnOpenCreditAccountV2(c, l) ==
    LET op == Operation(l, l.id, "OpenCreditAccount")
        counted == CMStatsOnOpenAccount(c, l.amount)
    IN  IF AddOpenEventFails(c.mc) THEN Fatal(c, "two opens in one transaction")
        ELSE AddCreditSession(PoolBorrow([counted EXCEPT !.mc = AddOpenEvent(@, op)], l.id, l.amount),
                              l.id, l.who, l.amount)

OnCloseCreditAccountV2(c, l) ==
    LET op == Operation(l, c.Sessions[l.who], "CloseCreditAccount")
    IN  IF GetCreditOwnerSessionFails(c, l.who) THEN Fatal(c, "no session")
        ELSE CloseOwner([c EXCEPT !.stats.totalClosed = @ + 1,
                                  !.mc = AddCloseOrLiquidateEvent(@, op)], l, "Closed", <<>>)

OnLiquidateCreditAccountV2(c, l) ==
    LET op == Operation(l, c.Sessions[l.who], "LiquidateCreditAccount")
    IN  IF GetCreditOwnerSessionFails(c, l.who) THEN Fatal(c, "no session")
        ELSE CloseOwner([c EXCEPT !.stats.totalLiquidated = @ + 1,
                                  !.mc = AddCloseOrLiquidateEvent(@, op)], l, "Liquidated", <<>>)

(***************************************************************************)
(* Side actions, in or outside a multicall.                                *)
(***************************************************************************)
AddSideEvent(c, op) ==
    IF AddMulticallEventFails(c.mc, op) THEN Fatal(c, "multicall event")
    ELSE [c EXCEPT !.mc = AddMulticallEvent(@, op)]

OnAddCollateralV2(c, l) ==
    IF GetCreditOwnerSessionFails(c, l.who) THEN Fatal(c, "no session")
    ELSE AddSideEvent(c, Operation(l, c.Sessions[l.who], "AddCollateral"))

EnableOrDisableToken(c, l) ==
    IF GetCreditOwnerSessionFails(c, l.who) THEN Fatal(c, "no session")
    ELSE AddSideEvent(c, Operation(l, c.Sessions[l.who], "Token"))

\* Mutants: a changed debt is missing from the borrowed amount of the block,
\* or from the pool ledger.
OnIncreaseBorrowedAmountMutant(c, l) ==
    LET ses == c.Sessions[l.who]
    IN  IF GetCreditOwnerSessionFails(c, l.who) THEN Fatal(c, "no session")
        ELSE Step(AddSideEvent(c, Operation(l, ses, "Increase")),
                  LAMBDA d : [PoolBorrow(d, ses, l.amount) EXCEPT !.sessions[ses].borrowed = @ + l.amount])

OnDecreaseBorrowedAmountMutant(c, l) ==
    LET ses == c.Sessions[l.who]
    IN  IF GetCreditOwnerSessionFails(c, l.who) THEN Fatal(c, "no session")
        ELSE Step(AddSideEvent(c, Operation(l, ses, "Decrease")),
                  LAMBDA d : [d EXCEPT !.stats.totalRepaid = @ + l.amount,
                                       !.sessions[ses].borrowed = @ - l.amount])

OnIncreaseBorrowedAmountV2(c, l) ==
    LET ses == c.Sessions[l.who]
        counted == [c EXCEPT !.borrowedAmountForBlock = @ + l.amount]
    IN  IF GetCreditOwnerSessionFails(c, l.who) THEN Fatal(c, "no session")
        ELSE Step(AddSideEvent(counted, Operation(l, ses, "Increase")),
                  LAMBDA d : [PoolBorrow(d, ses, l.amount) EXCEPT !.sessions[ses].borrowed = @ + l.amount])

OnDecreaseBorrowedAmountV2(c, l) ==
    LET ses == c.Sessions[l.who]
    IN  IF GetCreditOwnerSessionFails(c, l.who) THEN Fatal(c, "no session")
        ELSE Step(AddSideEvent(c, Operation(l, ses, "Decrease")),
                  LAMBDA d : [PoolRepay(d, ses, l.amount) EXCEPT
                                !.stats.totalRepaid = @ + l.amount,
                                !.sessions[ses].borrowed = @ - l.amount])

\* l.who is None when the facade calls the adapter inside a multicall.
AddExecuteParamsV2(c, l) ==
    AddSideEvent(c, Operation(l, IF l.who = None THEN None ELSE c.Sessions[l.who], "ExecuteOrder"))

OnMultiCallStarted(c, l) ==
    CASE GetCreditOwnerSessionFails(c, l.who) -> Fatal(c, "no session")
      [] ~GetCreditOwnerSessionFails(c, l.who) /\ StartFails(c.mc) -> Fatal(c, "multicall not ended")
      [] OTHER -> [c EXCEPT !.mc = Start(@, Operation(l, c.Sessions[l.who], "MultiCallStarted"))]

CheckLogV2(c, l) ==
    CASE l.kind = "Open" -> OnOpenCreditAccountV2(c, l)
      [] l.kind = "Close" -> OnCloseCreditAccountV2(c, l)
      [] l.kind = "Liquidate" -> OnLiquidateCreditAccountV2(c, l)
      [] l.kind = "AddCollateral" -> OnAddCollateralV2(c, l)
      [] l.kind = "Token" -> EnableOrDisableToken(c, l)
      [] l.kind = "Increase" -> OnIncreaseBorrowedAmountV2(c, l)
      [] l.kind = "Decrease" -> OnDecreaseBorrowedAmountV2(c, l)
      [] l.kind = "ExecuteOrder" -> AddExecuteParamsV2(c, l)
      [] l.kind = "Transfer" -> OnTransferAccount(c, l)
      [] l.kind = "Start" -> OnMultiCallStarted(c, l)
      [] l.kind = "Finish" -> IF EndFails(c.mc) THEN Fatal(c, "multicall not running")
                              ELSE [c EXCEPT !.mc = End(@)]
      [] l.kind = "Paused" -> [c EXCEPT !.paused = TRUE]
      [] l.kind = "Unpaused" -> [c EXCEPT !.paused = FALSE]
      [] l.kind = "NewConfigurator" ->
           IF l.to = c.configurator THEN c
           ELSE [c EXCEPT !.configurator = l.to, !.disabled = @ \cup {c.configurator}]

-----------------------------------------------------------------------------
(***************************************************************************)
(* Version 1 (v1.go, v1operation.go): operations are saved by the handlers *)
(* themselves, except RepayCreditAccount (saved by the end of the block)   *)
(* and ExecuteOrder (saved by the next transaction).                       *)
(***************************************************************************)
AddAccountOperation(c, l, ses) == [c EXCEPT !.rows = Append(@, [id |-> l.id, ses |-> ses])]

OnOpenCreditAccount(c, l) ==
    LET added == AddCreditSession(PoolBorrow(CMStatsOnOpenAccount(c, l.amount), l.id, l.amount),
                                  l.id, l.who, l.amount)
    IN  [AddAccountOperation(added, l, l.id) EXCEPT
            !.UpdatedSessions = @ \cup {l.id},
            !.sessions[l.id].funded = TRUE]

OnCloseCreditAccount(c, l) ==
    CloseOwner(AddAccountOperation([c EXCEPT !.stats.totalClosed = @ + 1], l, c.Sessions[l.who]),
               l, "Closed", <<>>)

OnLiquidateCreditAccount(c, l) ==
    CloseOwner(AddAccountOperation([c EXCEPT !.stats.totalLiquidated = @ + 1], l, c.Sessions[l.who]),
               l, "Liquidated", <<>>)

OnRepayCreditAccount(c, l) ==
    CloseOwner([c EXCEPT !.stats.totalRepaidAccounts = @ + 1], l, "Repaid",
               <<[id |-> l.id, ses |-> c.Sessions[l.who]]>>)

OnAddCollateral(c, l) ==
    [AddAccountOperation(c, l, c.Sessions[l.who]) EXCEPT
        !.UpdatedSessions = @ \cup {c.Sessions[l.who]}]

OnIncreaseBorrowedAmount(c, l) ==
    LET ses == c.Sessions[l.who]
        counted == PoolBorrow([c EXCEPT !.borrowedAmountForBlock = @ + l.amount], ses, l.amount)
    IN  [AddAccountOperation(counted, l, ses) EXCEPT
            !.sessions[ses].borrowed = @ + l.amount,
            !.UpdatedSessions = @ \cup {ses}]

AddExecuteParams(c, l) ==
    [c EXCEPT !.executeParams = Append(@, Operation(l, c.Sessions[l.who], "ExecuteOrder"))]

CheckLogV1(c, l) ==
    IF l.kind # "Open" /\ GetCreditOwnerSessionFails(c, l.who) THEN Fatal(c, "no session")
    ELSE CASE l.kind = "Open" -> OnOpenCreditAccount(c, l)
           [] l.kind = "Close" -> OnCloseCreditAccount(c, l)
           [] l.kind = "Liquidate" -> OnLiquidateCreditAccount(c, l)
           [] l.kind = "Repay" -> OnRepayCreditAccount(c, l)
           [] l.kind = "Increase" -> OnIncreaseBorrowedAmount(c, l)
           [] l.kind = "AddCollateral" -> OnAddCollateral(c, l)
           [] l.kind = "ExecuteOrder" -> AddExecuteParams(c, l)
           [] l.kind = "Transfer" -> OnTransferAccount(c, l)

OnLog(c, l, tx, tr) ==
    Step(OnTxHash(c, tx, tr),
         LAMBDA d : LET e == [d EXCEPT !.lastEventBlock = chain.block]
                    IN  IF chain.version = 1 THEN CheckLogV1(e, l) ELSE CheckLogV2(e, l))

-----------------------------------------------------------------------------
(***************************************************************************)
(* The end of a block (on_log.go, credit_session_state.go, state.go).      *)
(* The data compressor answers for an owner: for closed sessions at the    *)
(* block before, for updated ones at this block.                           *)
(***************************************************************************)
CloseSession(c, ses) ==
    LET s == c.sessions[ses]
        details == c.ClosedSessions[ses]
        data == chain.prev[s.borrower]
        ended == [c EXCEPT !.stats.openedCount = @ - 1,
                           !.sessions[ses].closedAt = chain.block,
                           !.sessions[ses].status = details.status]
    IN  CASE s.since = chain.block -> ended
          [] s.since # chain.block /\ data.ses = None -> Fatal(c, "no account at the block before")
          [] OTHER -> [PoolRepay(ended, ses, data.debt) EXCEPT
                         !.rows = @ \o details.op,
                         !.stats.totalRepaid = @ + data.debt,
                         !.sessions[ses].borrowed = data.debt,
                         !.css = @ \cup {[ses |-> ses, block |-> chain.block - 1, debt |-> data.debt]}]

UpdateSession(c, ses) ==
    LET data == chain.acc[c.sessions[ses].borrower]
    IN  IF data.ses = None THEN Fatal(c, "no account at the block")
        ELSE [c EXCEPT !.sessions[ses].borrowed = data.debt,
                       !.css = @ \cup {[ses |-> ses, block |-> chain.block, debt |-> data.debt]}]

FoldSessions(c, sessions, Handler(_, _)) ==
    FoldSet(LAMBDA ses, d : Step(d, LAMBDA e : Handler(e, ses)), c, sessions)

FetchFromDCForChangedSessions(c) ==
    LET closed == FoldSessions(c, DOMAIN c.ClosedSessions, CloseSession)
        updated == FoldSessions(closed, c.UpdatedSessions \ DOMAIN c.ClosedSessions, UpdateSession)
    IN  [updated EXCEPT !.UpdatedSessions = {}, !.ClosedSessions = <<>>]

\* What the pool's Repay events of the block report (pnl_cm.go Set).
SetPnl(c, amount) == [c EXCEPT !.curPnl = @ + amount]

CalculateCMStat(c) ==
    [c EXCEPT !.stats.totalBorrowed = @ + c.borrowedAmountForBlock - c.curPnl,
              !.borrowedAmountForBlock = 0,
              !.curPnl = 0]

OnBlockChange(c, tr) ==
    IF c.lastEventBlock # chain.block \/ chain.block < DiscoveredAt THEN c
    ELSE Step(Step(OnTxHash(c, None, tr), FetchFromDCForChangedSessions),
              LAMBDA d : [CalculateCMStat(d) EXCEPT !.lastEventBlock = 0])

\* The configurator's own logs change the facade and nothing else: they are
\* handled before onTxHash, so the transaction before stays pending.
OnConfiguratorLog(c, configurator, facade) ==
    IF configurator # c.configurator \/ facade = c.facade THEN c
    ELSE [c EXCEPT !.facade = facade]

-----------------------------------------------------------------------------
(***************************************************************************)
(* The contracts.  shapes, touched, expected and fate are history: the     *)
(* unusual things that happened, and, for the current block, the sessions  *)
(* that had an event, the operations that are to be saved, and how         *)
(* accounts ended.                                                         *)
(***************************************************************************)
Log(kind, of) ==
    [kind |-> kind, who |-> of, of |-> of, to |-> None, amount |-> 1, foreign |-> FALSE]

InnerLog(b, o, call) ==
    CASE call = "AddCollateralFor" -> [Log("AddCollateral", o) EXCEPT !.foreign = TRUE]
      [] call = "ExecuteOrder" -> [Log("ExecuteOrder", b) EXCEPT !.who = None]
      [] OTHER -> Log(call, b)

InnerLogs(b, o, inner) ==
    LET loud == SelectSeq(inner, LAMBDA call : call \notin {"revert", "skip"})
    IN  [i \in DOMAIN loud |-> InnerLog(b, o, loud[i])]

InnerCalls(inner) ==
    [i \in DOMAIN inner |-> IF inner[i] = "AddCollateralFor" THEN "AddCollateral" ELSE inner[i]]

Count(seq, kind) == Len(SelectSeq(seq, LAMBDA x : x = kind))

RowKinds == {"Open", "Close", "Liquidate", "Repay", "AddCollateral", "Increase",
             "Decrease", "Token", "ExecuteOrder", "Transfer"}

BaseTrace(newTx) == IF newTx THEN EmptyTrace ELSE chain.trace

\* Another call fits, in a new transaction or in the one that is open.
CanCall(newTx) ==
    cm.fatal = "" /\ ~chain.ended /\ chain.calls < MaxCalls /\ (newTx \/ chain.inTx)

(***************************************************************************)
(* One contract call with these logs.  during is who owns what while it    *)
(* runs, after what is left of it, repaid the debt returned to the pool,   *)
(* fate how an account ended.                                              *)
(***************************************************************************)
Execute(newTx, logs, tr, during, after, repaid, shapes, fate) ==
    LET tx == IF newTx THEN chain.tx + 1 ELSE chain.tx
        numbered == [i \in DOMAIN logs |->
                       [kind |-> logs[i].kind, who |-> logs[i].who, to |-> logs[i].to,
                        amount |-> logs[i].amount, id |-> chain.n + i]]
        mains == IF tr.lastMain = "multicall" THEN RowKinds \cup {"Start"} ELSE RowKinds
        rows == {i \in DOMAIN logs : logs[i].kind \in mains}
        execs == Cardinality({i \in DOMAIN logs : logs[i].kind = "ExecuteOrder"})
    IN  /\ cm' = FoldLeft(LAMBDA c, l : OnLog(c, l, tx, chain.trace), SetPnl(cm, repaid), numbered)
        /\ chain' = [chain EXCEPT
             !.tx = tx, !.inTx = TRUE, !.n = @ + Len(logs), !.calls = @ + 1, !.acc = after,
             !.trace = [tr EXCEPT !.own = @ + execs, !.all = @ + execs],
             !.expected = @ \cup {[id |-> chain.n + i, ses |-> during[logs[i].of].ses] : i \in rows},
             !.touched = @ \cup {during[logs[i].of].ses : i \in {j \in rows : logs[j].kind # "Transfer" /\ ~logs[j].foreign}},
             !.paused = CASE logs[1].kind = "Paused" -> TRUE
                          [] logs[1].kind = "Unpaused" -> FALSE
                          [] OTHER -> @,
             !.borrowed = @ + repaid + Outstanding(after) - Outstanding(chain.acc),
             !.fate = fate @@ @,
             !.shapes = @ \cup shapes]

Opened(b) == [chain.acc EXCEPT ![b] = [ses |-> chain.n + 1, debt |-> 1]]

OpenCreditAccount(newTx, b) ==
    LET tr == BaseTrace(newTx)
    IN  /\ CanCall(newTx)
        /\ chain.version = 2
        /\ ~chain.paused
        /\ chain.acc[b] = NoAccount
        /\ Execute(newTx, <<Log("Open", b), Log("AddCollateral", b)>>,
                   [tr EXCEPT !.opens = @ + 1, !.lastMain = "open"],
                   Opened(b), Opened(b), 0,
                   IF tr.opens > 0 THEN {"twoOpens"} ELSE {}, <<>>)

WithCall(tr, name, inner, main) ==
    [tr EXCEPT !.calls = Append(@, [name |-> name, facade |-> chain.facade,
                                    mcs |-> InnerCalls(inner)]),
               !.lastMain = main]

\* A call without an event behind another call (a run of adapter calls is one).
SilentBehind(inner) ==
    \E i \in 2..Len(inner) :
        inner[i] = "revert" \/ (inner[i] = "skip" /\ inner[i - 1] \notin AdapterCalls)

MulticallShapes(tr, inner) ==
    {shape \in {"multicallAfterClose", "silentBehind"} :
        CASE shape = "multicallAfterClose" -> tr.lastMain = "close"
          [] shape = "silentBehind" -> SilentBehind(inner)}

AfterInner(acc, b, inner) ==
    [acc EXCEPT ![b].debt = @ + Count(inner, "Increase") - Count(inner, "Decrease")]

InnerAllowed(acc, b, o, inner) ==
    /\ o # b
    /\ "AddCollateralFor" \in Range(inner) => acc[o] # NoAccount
    /\ acc[b].debt > Count(inner, "Decrease")
    /\ acc[b].debt + Count(inner, "Increase") <= MaxDebt

OpenCreditAccountMulticall(newTx, b, o, inner) ==
    LET tr == BaseTrace(newTx)
        after == AfterInner(Opened(b), b, inner)
    IN  /\ CanCall(newTx)
        /\ chain.version = 2
        /\ ~chain.paused
        /\ chain.acc[b] = NoAccount
        /\ "AddCollateral" \in Range(inner)
        /\ InnerAllowed(Opened(b), b, o, inner)
        /\ Execute(newTx,
                   <<Log("Open", b), Log("Start", b)>> \o InnerLogs(b, o, inner) \o <<Log("Finish", b)>>,
                   [WithCall(tr, "FacadeOpenMulticall", inner, "open") EXCEPT !.opens = @ + 1],
                   after, after, Count(inner, "Decrease"),
                   (IF tr.opens > 0 THEN {"twoOpens"} ELSE {})
                     \cup MulticallShapes([tr EXCEPT !.lastMain = "open"], inner), <<>>)

Multicall(newTx, b, o, inner) ==
    LET tr == BaseTrace(newTx)
        after == AfterInner(chain.acc, b, inner)
    IN  /\ CanCall(newTx)
        /\ chain.version = 2
        /\ ~chain.paused
        /\ chain.acc[b] # NoAccount
        /\ InnerAllowed(chain.acc, b, o, inner)
        /\ Execute(newTx, <<Log("Start", b)>> \o InnerLogs(b, o, inner) \o <<Log("Finish", b)>>,
                   WithCall(tr, "FacadeMulticall", inner, "multicall"),
                   after, after, Count(inner, "Decrease"),
                   MulticallShapes(tr, inner), <<>>)

(***************************************************************************)
(* An account that ends: what the data compressor knew of its owner at the *)
(* block before may be somebody else's account or an older debt.           *)
(***************************************************************************)
EndShapes(b) ==
    CASE chain.acc[b].ses > chain.blockStart -> {"bornAndClosed"}
      [] chain.acc[b].ses <= chain.blockStart /\ chain.prev[b].ses # chain.acc[b].ses -> {"movedAndClosed"}
      [] chain.acc[b].ses = chain.prev[b].ses /\ chain.prev[b].debt # chain.acc[b].debt -> {"changedAndClosed"}
      [] OTHER -> {}

Fate(name) ==
    CASE name = "FacadeCloseAccount" -> "Closed"
      [] name # "FacadeCloseAccount" /\ chain.paused -> "LiquidatePaused"
      [] name = "FacadeLiquidateExpired" /\ ~chain.paused -> "LiquidateExpired"
      [] OTHER -> "Liquidated"

Finish(newTx, b, logs, tr, shapes, fate) ==
    Execute(newTx, logs, tr, chain.acc, [chain.acc EXCEPT ![b] = NoAccount],
            chain.acc[b].debt, shapes \cup EndShapes(b), chain.acc[b].ses :> fate)

CloseOrLiquidate(newTx, b, name, inner) ==
    LET tr == BaseTrace(newTx)
        ending == IF name = "FacadeCloseAccount" THEN "Close" ELSE "Liquidate"
        multicall == IF inner = <<>> THEN <<>>
                     ELSE <<Log("Start", b)>> \o InnerLogs(b, b, inner) \o <<Log("Finish", b)>>
    IN  /\ CanCall(newTx)
        /\ chain.version = 2
        /\ chain.paused => name = "FacadeLiquidate"
        /\ chain.acc[b] # NoAccount
        /\ Finish(newTx, b, multicall \o <<Log(ending, b)>>, WithCall(tr, name, inner, "close"),
                  IF inner = <<>> THEN {} ELSE MulticallShapes(tr, inner), Fate(name))

\* Calls with one log: on the facade or the manager (v2), on the manager (v1).
DirectCall(newTx, b, kind) ==
    LET after == AfterInner(chain.acc, b, <<kind>>)
    IN  /\ CanCall(newTx)
        /\ ~chain.paused
        /\ chain.acc[b] # NoAccount
        /\ chain.version = 1 => kind \notin {"Decrease", "Token"}
        /\ after[b].debt \in 1..MaxDebt
        /\ Execute(newTx, <<Log(kind, b)>>, BaseTrace(newTx), after, after,
                   Count(<<kind>>, "Decrease"), {}, <<>>)

TransferAccount(newTx, b, t) ==
    /\ CanCall(newTx)
    /\ ~chain.paused
    /\ chain.acc[b] # NoAccount
    /\ chain.acc[t] = NoAccount
    /\ Execute(newTx, <<[Log("Transfer", b) EXCEPT !.to = t]>>, BaseTrace(newTx), chain.acc,
               [chain.acc EXCEPT ![b] = NoAccount, ![t] = chain.acc[b]], 0, {}, <<>>)

OpenCreditAccountV1(newTx, b) ==
    /\ CanCall(newTx)
    /\ chain.version = 1
    /\ chain.acc[b] = NoAccount
    /\ Execute(newTx, <<Log("Open", b)>>, BaseTrace(newTx), Opened(b), Opened(b), 0, {}, <<>>)

EndCreditAccountV1(newTx, b, kind) ==
    /\ CanCall(newTx)
    /\ chain.version = 1
    /\ chain.acc[b] # NoAccount
    /\ Finish(newTx, b, <<Log(kind, b)>>, BaseTrace(newTx), {},
              CASE kind = "Close" -> "Closed" [] kind = "Repay" -> "Repaid" [] OTHER -> "Liquidated")

\* The admin pauses and unpauses in transactions of their own.
SetPause ==
    /\ CanCall(TRUE)
    /\ chain.version = 2
    /\ Execute(TRUE, <<Log(IF chain.paused THEN "Unpaused" ELSE "Paused", None)>>, EmptyTrace,
               chain.acc, chain.acc, 0, {}, <<>>)

NewConfigurator ==
    /\ CanCall(TRUE)
    /\ chain.version = 2
    /\ cm.configurator = 1
    /\ Execute(TRUE, <<[Log("NewConfigurator", None) EXCEPT !.to = 2]>>, EmptyTrace,
               chain.acc, chain.acc, 0, {}, <<>>)

\* Another credit manager executes an order in the same transaction.
OtherManagerExecute ==
    /\ cm.fatal = "" /\ ~chain.ended /\ chain.inTx
    /\ chain.trace.all = chain.trace.own
    /\ chain' = [chain EXCEPT !.trace.all = @ + 1, !.shapes = @ \cup {"otherManager"}]
    /\ UNCHANGED cm

UpgradeFacade ==
    /\ cm.fatal = "" /\ ~chain.ended
    /\ chain.version = 2 /\ chain.facade = 1
    /\ chain.calls < MaxCalls
    /\ cm' = OnConfiguratorLog(cm, cm.configurator, 2)
    /\ chain' = [chain EXCEPT !.facade = 2, !.tx = @ + 1, !.inTx = FALSE, !.calls = @ + 1,
                              !.shapes = @ \cup (IF chain.trace.calls # <<>> /\ cm.LastTxHash # None
                                                 THEN {"upgradeBehindTx"} ELSE {})]

EndBlock ==
    /\ cm.fatal = "" /\ ~chain.ended
    /\ cm' = OnBlockChange(cm, chain.trace)
    /\ chain' = [chain EXCEPT !.ended = TRUE, !.inTx = FALSE]

\* The block is saved (Repository.Flush, Clear) and the next one begins.
NextBlock ==
    /\ cm.fatal = "" /\ chain.ended
    /\ chain.block < MaxBlock
    /\ cm' = [cm EXCEPT !.rows = <<>>, !.css = {}]
    /\ chain' = [chain EXCEPT !.block = @ + 1, !.blockStart = chain.n, !.prev = chain.acc,
                              !.trace = EmptyTrace, !.ended = FALSE,
                              !.expected = {}, !.touched = {}]
-----------------------------------------------------------------------------
(***************************************************************************)
(* The adapter starts from a database that may hold open sessions.         *)
(***************************************************************************)
LoadedStats(k) ==
    [openedCount |-> k, totalOpened |-> k, totalClosed |-> 0, totalLiquidated |-> 0,
     totalRepaidAccounts |-> 0, totalBorrowed |-> k, totalRepaid |-> 0]

Init ==
    \E version \in {1, 2}, loaded \in SUBSET Borrowers :
    \E ids \in Bijection(loaded, 1..Cardinality(loaded)) :
        LET acc == [b \in Borrowers |-> IF b \in loaded THEN [ses |-> ids[b], debt |-> 1]
                                        ELSE NoAccount]
        IN  /\ chain = [version |-> version, facade |-> 1, paused |-> FALSE, acc |-> acc,
                        prev |-> acc, block |-> 1, blockStart |-> Cardinality(loaded),
                        tx |-> 0, inTx |-> FALSE, n |-> Cardinality(loaded), calls |-> 0,
                        trace |-> EmptyTrace, ended |-> FALSE, shapes |-> {},
                        expected |-> {}, touched |-> {}, borrowed |-> Cardinality(loaded),
                        loaded |-> Cardinality(loaded), fate |-> <<>>]
            /\ cm = [LastTxHash |-> None, lastEventBlock |-> 0, mc |-> NewProcessor,
                     executeParams |-> <<>>, Sessions |-> [b \in Borrowers |-> acc[b].ses],
                     sessions |-> [i \in 1..Cardinality(loaded) |->
                        [borrower |-> CHOOSE b \in loaded : ids[b] = i, status |-> "Active",
                         since |-> 0, closedAt |-> 0, borrowed |-> 1, funded |-> TRUE]],
                     UpdatedSessions |-> {}, ClosedSessions |-> <<>>,
                     borrowedAmountForBlock |-> 0, curPnl |-> 0, paused |-> FALSE,
                     facade |-> 1, configurator |-> 1, disabled |-> {},
                     stats |-> LoadedStats(Cardinality(loaded)),
                     rows |-> <<>>, ledger |-> <<>>, css |-> {}, fatal |-> ""]

Next ==
    \/ \E newTx \in BOOLEAN, b \in Borrowers :
        \/ OpenCreditAccount(newTx, b)
        \/ \E o \in Borrowers, inner \in Inners :
             OpenCreditAccountMulticall(newTx, b, o, inner) \/ Multicall(newTx, b, o, inner)
        \/ \E name \in CloseCalls, inner \in ClosingInners : CloseOrLiquidate(newTx, b, name, inner)
        \/ \E kind \in {"AddCollateral", "Increase", "Decrease", "Token", "ExecuteOrder"} :
             DirectCall(newTx, b, kind)
        \/ \E t \in Borrowers : TransferAccount(newTx, b, t)
        \/ OpenCreditAccountV1(newTx, b)
        \/ \E kind \in {"Close", "Liquidate", "Repay"} : EndCreditAccountV1(newTx, b, kind)
    \/ SetPause \/ NewConfigurator \/ OtherManagerExecute \/ UpgradeFacade
    \/ EndBlock \/ NextBlock

Spec == Init /\ [][Next]_vars

-----------------------------------------------------------------------------
(***************************************************************************)
(* Properties.  The block is saved when it has ended and nothing stopped.  *)
(***************************************************************************)
BlockSaved == chain.ended /\ cm.fatal = ""
Without(shapes) == chain.shapes \cap shapes = {}

\* The adapter's state stays within its types.
TypeOK ==
    /\ cm.Sessions \in [Borrowers -> Nat]
    /\ cm.UpdatedSessions \subseteq DOMAIN cm.sessions
    /\ DOMAIN cm.ClosedSessions \subseteq DOMAIN cm.sessions
    /\ \A ses \in DOMAIN cm.sessions : cm.sessions[ses].borrowed \in Nat
    /\ \A f \in DOMAIN cm.stats : cm.stats[f] \in Nat
    /\ chain.acc \in [Borrowers -> [ses : Nat, debt : 0..MaxDebt]]

(***************************************************************************)
(* A log.Fatal or panic of the event handlers has one of six causes on the *)
(* chain: two opens in a transaction, a multicall after a close in the     *)
(* same transaction, a call without an event behind another call of its    *)
(* multicall (SameMulticallLenAsEvents skips one only in front of an event *)
(* or next to an execute order), an account transferred and closed in one  *)
(* block, a facade upgrade behind a facade call of the same block, an      *)
(* execute order of another manager in the same transaction.               *)
(***************************************************************************)
StopsOnlyOnKnownShapes ==
    Without({"twoOpens", "multicallAfterClose", "silentBehind", "movedAndClosed",
             "upgradeBehindTx", "otherManager"}) => cm.fatal = ""

(***************************************************************************)
(* When a block is saved every event of it is an account operation of the  *)
(* session it was about, exactly once, however the events were nested,     *)
(* deferred to the next transaction or regrouped with the trace.  (v1      *)
(* loses the RepayCreditAccount of an account opened in the same block.)   *)
(***************************************************************************)
EveryEventSavedOnce ==
    /\ BlockSaved
    /\ Without({"multicallAfterClose"})
    /\ chain.version = 1 => Without({"bornAndClosed"})
    => /\ ToSet(cm.rows) = chain.expected
       /\ Len(cm.rows) = Cardinality(chain.expected)


(***************************************************************************)
(* When a block is saved the adapter's memory holds nothing that is not in *)
(* the database: a restart at this point loses no event, no changed        *)
(* session and no borrowed amount.                                         *)
(***************************************************************************)
NothingPendingWhenSaved ==
    BlockSaved =>
        /\ cm.mc = NewProcessor
        /\ cm.executeParams = <<>>
        /\ cm.UpdatedSessions = {} /\ cm.ClosedSessions = <<>>
        /\ cm.borrowedAmountForBlock = 0 /\ cm.curPnl = 0
        /\ cm.LastTxHash = None /\ cm.lastEventBlock = 0

(***************************************************************************)
(* The statistics of a saved block agree with the chain: the borrowed      *)
(* total, collected from the manager's events and the pool's Repay events, *)
(* is the debt outstanding, and the account counters add up.               *)
(***************************************************************************)
StatsMatchChain ==
    BlockSaved =>
        /\ cm.stats.totalBorrowed = Outstanding(chain.acc)
        /\ cm.stats.openedCount = Cardinality(Owners(chain.acc))
        /\ cm.stats.openedCount + cm.stats.totalClosed + cm.stats.totalLiquidated
             + cm.stats.totalRepaidAccounts = cm.stats.totalOpened

LedgerSum(event) ==
    SumFunction([i \in DOMAIN cm.ledger |-> IF cm.ledger[i].event = event THEN cm.ledger[i].amount ELSE 0])

(***************************************************************************)
(* What the pool ledger and the total repaid say was returned is what was  *)
(* borrowed and is no longer owed, as long as no account ends in a block   *)
(* in which it was also opened, transferred or its debt changed.           *)
(***************************************************************************)
RepaidMatchesChain ==
    BlockSaved /\ Without({"bornAndClosed", "movedAndClosed", "changedAndClosed"}) =>
        /\ cm.stats.totalRepaid = chain.borrowed - Outstanding(chain.acc)
        /\ LedgerSum("Repay") = cm.stats.totalRepaid
        /\ LedgerSum("Borrow") = chain.borrowed - chain.loaded

(***************************************************************************)
(* The session map and the sessions follow the accounts through transfers, *)
(* reopenings and ends; an ended session has the status of its end (for a  *)
(* liquidation: paused, expired or plain), an open one its debt.           *)
(***************************************************************************)
SessionsMatchChain ==
    cm.fatal = "" =>
        /\ \A b \in Borrowers : cm.Sessions[b] = chain.acc[b].ses
        /\ \A b \in Owners(chain.acc) :
              LET s == cm.sessions[chain.acc[b].ses]
              IN  s.borrower = b /\ s.status = "Active" /\ s.borrowed = chain.acc[b].debt
        /\ chain.ended => \A ses \in DOMAIN chain.fate :
              cm.sessions[ses].status = chain.fate[ses] /\ cm.sessions[ses].closedAt > 0
=============================================================================
