------------------------ MODULE DirectTransfersFetched ------------------------
(***************************************************************************)
(* What the fetches from the data compressor find and leave, for every set *)
(* of accounts and managers and every bound: the process stops only on the *)
(* causes StopsOnlyOnKnownCauses names, a session has the balances of the  *)
(* newest of its snapshots (NewestBalances), and the collateral of a       *)
(* snapshot is what was recorded up to it (CollateralMatchesRows).         *)
(*                                                                         *)
(* A fetch misses the account of a session when the session is closed by   *)
(* the end of the block it asks for, or when a change of borrower after    *)
(* that block was handled already.  What the managers must have taken      *)
(* (TakenInv of DirectTransfersAccounted) leaves only the known causes.    *)
(* The order of the fetches (MarkInv) leaves only the transfers before the *)
(* first event of a batch to be fetched behind a later snapshot, and       *)
(* KeptInv relates the collateral, the balances and the snapshots of every *)
(* other session.                                                          *)
(***************************************************************************)
EXTENDS DirectTransfersAccounted

KnownCause ==
    \/ \E mv \in BatchLogs({"move"}), c \in BatchLogs({"close"}) :
          SessionAt(c) = SessionAt(mv) /\ Block(c) = Block(mv)
    \/ \E mv \in BatchLogs({"move"}), l \in BatchLogs(Received) :
          /\ SessionAt(l) = SessionAt(mv) /\ Block(l) < Block(mv)
          /\ \A e \in BatchLogs(Events) : Block(mv) <= Block(e)
    \/ \E l \in BatchLogs(Received) : Ambiguous(l)

\* Why the data compressor does not have an account.
LEMMA NoAccount ==
    ASSUME ChainInv, StepInv, SessionInv, NEW s \in DOMAIN sessions, NEW b \in Nat, lastSync <= b, b <= till,
           NoMore(b), Block(s) <= b, ~HasAccount(s, b)
    PROVE  \/ \E c \in Closes : SessionAt(c) = s /\ Block(c) <= b
           \/ \E mv \in BatchLogs({"move"}) : mv <= at /\ SessionAt(mv) = s /\ Block(mv) > b
<1>1. lastSync \in Nat /\ till \in Nat /\ at \in Nat
  BY DEF StepInv
<1>2. CASE ~OpenAt(s, b)
  <2>1. PICK c \in Closes : SessionAt(c) = s /\ ~(Block(c) > b)
    BY <1>2 DEF OpenAt, Closes
  <2>2. Block(c) \in Nat
    BY LogTypes
  <2> QED BY <2>1, <2>2
<1>3. CASE OpenAt(s, b)
  <2> DEFINE H == {l \in LogsOf({"move"}) \cap HandledLogs : SessionAt(l) = s}
  <2>1. sessions[s].owner = Cardinality(H)
    BY DEF SessionInv, SessionsOf
  <2>2. H # Moves(s, b)
    BY <1>3, <2>1 DEF HasAccount
  <2>3. ASSUME NEW mv \in Moves(s, b)
        PROVE  mv \in H
    <3>1. mv \in LogsOf({"move"}) /\ SessionAt(mv) = s /\ Block(mv) <= b
      BY DEF Moves
    <3>2. mv \in LogsOf(Events)
      BY <3>1 DEF LogsOf, Events
    <3>3. mv \in HandledLogs
      BY <3>1, <3>2, HandledBefore
    <3> QED BY <3>1, <3>3
  <2>4. PICK mv \in H : mv \notin Moves(s, b)
    BY <2>2, <2>3
  <2>5. /\ mv \in LogsOf({"move"}) /\ mv \in DOMAIN logs /\ mv \in Nat /\ Block(mv) \in Nat
        /\ Handled(mv) /\ SessionAt(mv) = s
    BY <2>4, LogTypes DEF HandledLogs
  <2>6. Block(mv) > b
    BY <2>4, <2>5 DEF Moves
  <2>7. mv <= at /\ at # 0
    BY <2>5, <2>6, <1>1, LogTypes DEF Handled
  <2>8. at \in DOMAIN logs /\ Block(at) <= till /\ Block(at) \in Nat
    BY <2>7, LogTypes DEF StepInv, BatchLogs
  <2>9. Block(mv) <= Block(at)
    BY <2>5, <2>7, <2>8, BlockOrder
  <2>10. mv \in BatchLogs({"move"})
    BY <2>5, <2>6, <2>8, <2>9, <1>1 DEF BatchLogs
  <2> QED BY <2>5, <2>6, <2>7, <2>10
<1> QED BY <1>2, <1>3

\* A session of the batch that is fetched for a transfer.
LEMMA CountedSession ==
    ASSUME ChainInv, StepInv, SessionInv, DetailInv, PendingInv, ~KnownCause, NEW cms, NEW b, NoMore(b),
           NEW t \in Counted(CheckTokenTransfer(cms, {b}))
    PROVE  /\ t.log \in PendingReceived /\ Block(t.log) = b /\ SessionAt(t.log) = t.ses
           /\ t.log \in DOMAIN logs /\ t.log \in BatchLogs(Received) /\ t.ses \in DOMAIN sessions
<1>1. t \in CheckTokenTransfer(cms, {b}) /\ Kind(t.log) # "zero"
  BY DEF Counted
<1>2. PICK l, s : l = t.log /\ s = t.ses
  OBVIOUS
<1>3. /\ l \in DOMAIN logs /\ Pending(l) /\ Block(l) = b /\ l \in BatchLogs(Direct) /\ Kind(l) \in Direct
      /\ s \in DOMAIN sessions /\ BelongsTo(l, s)
  BY <1>1, <1>2, TakenFacts
<1>4. l \in BatchLogs(Received)
  BY <1>1, <1>2, <1>3 DEF BatchLogs, LogsOf, Direct
<1>5. ~Ambiguous(l)
  BY <1>4 DEF KnownCause
<1>6. SessionAt(l) = s
  BY <1>3, <1>5, BelongsInSession DEF DirectLog
<1>7. HasDetail(l)
  BY <1>3, <1>6, BelongsHasDetail
<1> QED BY <1>2, <1>3, <1>4, <1>6, <1>7 DEF PendingReceived

\* A close after a log of its session is not in an earlier block.
LEMMA CloseAfter ==
    ASSUME ChainInv, NEW e \in DOMAIN logs, NEW c \in Closes, SessionAt(e) = SessionAt(c)
    PROVE  Block(e) <= Block(c) /\ Block(e) \in Nat /\ Block(c) \in Nat
<1>1. c \in DOMAIN logs /\ c \in Nat /\ e \in Nat /\ Block(e) \in Nat /\ Block(c) \in Nat
  BY LogTypes
<1>2. ~(c < e)
  BY DEF ChainInv, HoldInv
<1> QED BY <1>1, <1>2, BlockOrder

LEMMA CloseInBatch ==
    ASSUME ChainInv, StepInv, NEW c \in Closes, lastSync < Block(c), Block(c) <= till, NoMore(Block(c))
    PROVE  /\ c \in BatchLogs({"close"}) /\ c \in BatchLogs(Events) /\ c <= at /\ Kind(c) = "close"
           /\ Manager(c) = Manager(SessionAt(c)) /\ Manager(c) \in Managers
<1>1. c \in DOMAIN logs /\ c \in Nat /\ Block(c) \in Nat /\ Kind(c) = "close" /\ at \in Nat
  BY LogTypes DEF StepInv
<1>2. c \in LogsOf(Events) /\ c \in LogsOf({"close"})
  BY <1>1 DEF LogsOf, Events
<1>3. c \in BatchLogs({"close"}) /\ c \in BatchLogs(Events)
  BY <1>2 DEF BatchLogs
<1>4. c <= at
  BY <1>1, <1>3 DEF NoMore
<1> QED BY <1>1, <1>2, <1>3, <1>4 DEF ChainInv, HoldInv, TxInv

\* A session that was closed is missing in the block before only after a change
\* of its borrower in the block of the close.
LEMMA ClosedHasAccount ==
    ASSUME ChainInv, StepInv, SessionInv, FetchInv, ~KnownCause, NEW b, b = Block(at), at # 0,
           step \in {"block", "before"}, NEW cm \in Managers, NEW s \in closed[cm], Block(s) # b
    PROVE  HasAccount(s, b - 1)
<1>1. /\ at \in BatchLogs(Events) /\ NoMore(b) /\ at \in Nat /\ lastSync \in Nat /\ till \in Nat
      /\ lastSync < b /\ b <= till /\ at \in DOMAIN logs /\ b \in Nat /\ b # 0
  BY LogTypes DEF StepInv, BatchLogs, LogsOf
<1>2. s \in DOMAIN sessions
  BY DEF FetchInv
<1>3. PICK c \in BatchLogs({"close"}) : c <= at /\ Block(c) = b /\ SessionAt(c) = s
  BY DEF FetchInv
<1>4. c \in Closes /\ s \in Opens
  BY <1>2, <1>3 DEF BatchLogs, Closes, SessionInv, SessionsOf
<1>5. s \in DOMAIN logs /\ SessionAt(s) = s
  BY <1>4, LogTypes DEF ChainInv, HoldInv
<1>6. Block(s) <= b /\ Block(s) \in Nat
  BY <1>3, <1>4, <1>5, CloseAfter
<1>7. NoMore(b - 1)
  <2>1. \A e \in BatchLogs(Events) : Block(e) \in Nat
    BY BatchEvents
  <2> QED BY <2>1, <1>1 DEF NoMore
<1> SUFFICES ASSUME ~HasAccount(s, b - 1)
             PROVE  FALSE
  OBVIOUS
<1>8. \/ \E k \in Closes : SessionAt(k) = s /\ Block(k) <= b - 1
      \/ \E mv \in BatchLogs({"move"}) : mv <= at /\ SessionAt(mv) = s /\ Block(mv) > b - 1
  BY <1>1, <1>2, <1>6, <1>7, NoAccount
<1>9. ~\E k \in Closes : SessionAt(k) = s /\ Block(k) <= b - 1
  BY <1>1, <1>3, <1>4, OneClose
<1>10. PICK mv \in BatchLogs({"move"}) : mv <= at /\ SessionAt(mv) = s /\ Block(mv) > b - 1
  BY <1>8, <1>9
<1>11. Block(mv) \in Nat /\ Block(mv) <= b
  BY <1>1, <1>10, BatchEvents, BlockOrder
<1>12. Block(mv) = b
  BY <1>1, <1>10, <1>11
<1> QED BY <1>3, <1>10, <1>12 DEF KnownCause

\* A session with a log in the block of the last event that is not closed.
LEMMA UpdatedHasAccount ==
    ASSUME ChainInv, StepInv, SessionInv, FetchInv, InBlock, step = "block", NEW s \in DOMAIN sessions,
           \A cm \in Managers : lastEventBlock[cm] = Block(at) => s \notin closed[cm],
           NEW e \in DOMAIN logs, Block(e) = Block(at), SessionAt(e) = s
    PROVE  HasAccount(s, Block(at))
<1> SUFFICES ASSUME ~HasAccount(s, Block(at))
             PROVE  FALSE
  OBVIOUS
<1>1. PICK b : b = Block(at)
  OBVIOUS
<1>2. /\ at \in BatchLogs(Events) /\ NoMore(b) /\ at \in Nat /\ lastSync \in Nat /\ till \in Nat
      /\ lastSync < b /\ b <= till /\ at \in DOMAIN logs /\ b \in Nat
  BY <1>1, LogTypes DEF StepInv, BatchLogs, LogsOf
<1>3. s \in Opens /\ s \in DOMAIN logs /\ s <= e
  BY LogTypes DEF ChainInv, HoldInv, SessionInv, SessionsOf, None
<1>4. Block(s) <= b
  BY <1>1, <1>3, BlockOrder
<1>5. \/ \E c \in Closes : SessionAt(c) = s /\ Block(c) <= b
      \/ \E mv \in BatchLogs({"move"}) : mv <= at /\ SessionAt(mv) = s /\ Block(mv) > b
  BY <1>1, <1>2, <1>4, NoAccount
<1>6. ASSUME NEW mv \in BatchLogs({"move"}), mv <= at
      PROVE  ~(Block(mv) > b)
  BY <1>1, <1>2, <1>6, BatchEvents, BlockOrder
<1>7. PICK c \in Closes : SessionAt(c) = s /\ Block(c) <= b
  BY <1>5, <1>6
<1>8. Block(c) = b
  BY <1>1, <1>7, CloseAfter
<1>9. c \in BatchLogs(Events) /\ c <= at /\ Kind(c) = "close" /\ Manager(c) \in Managers
  BY <1>2, <1>8, CloseInBatch
<1>10. lastEventBlock[Manager(c)] = b /\ s \in closed[Manager(c)]
  BY <1>1, <1>7, <1>8, <1>9 DEF FetchInv
<1> QED BY <1>1, <1>9, <1>10

\* A session with a pending transfer in a block between events.
LEMMA PendingHasAccount ==
    ASSUME ChainInv, StepInv, SessionInv, TakenInv, ~KnownCause, step = "before",
           NEW l \in PendingReceived, NoMore(Block(l)), SessionAt(l) \in DOMAIN sessions
    PROVE  HasAccount(SessionAt(l), Block(l))
<1>1. PICK s, b : s = SessionAt(l) /\ b = Block(l)
  OBVIOUS
<1> SUFFICES ASSUME ~HasAccount(s, b)
             PROVE  FALSE
  BY <1>1
<1>2. l \in BatchLogs(Received) /\ l \in DOMAIN logs /\ b \in Nat /\ lastSync < b /\ b <= till /\ NoMore(b)
  BY <1>1, BatchEvents DEF PendingReceived, BatchLogs
<1>3. lastSync \in Nat /\ till \in Nat /\ ~InBlock
  BY DEF StepInv, InBlock
<1>4. s \in Opens /\ s \in DOMAIN logs /\ s <= l
  BY <1>1, <1>2, LogTypes DEF ChainInv, HoldInv, SessionInv, SessionsOf, None
<1>5. Block(s) <= b
  BY <1>1, <1>2, <1>4, BlockOrder
<1>6. \/ \E c \in Closes : SessionAt(c) = s /\ Block(c) <= b
      \/ \E mv \in BatchLogs({"move"}) : mv <= at /\ SessionAt(mv) = s /\ Block(mv) > b
  BY <1>1, <1>2, <1>3, <1>5, NoAccount
<1>7. CASE \E c \in Closes : SessionAt(c) = s /\ Block(c) <= b
  <2>1. PICK c \in Closes : SessionAt(c) = s /\ Block(c) <= b
    BY <1>7
  <2>2. Block(c) = b
    BY <2>1, <1>1, <1>2, CloseAfter
  <2>3. c \in BatchLogs(Events) /\ c <= at /\ Manager(c) = Manager(s)
    BY <2>1, <2>2, <1>2, CloseInBatch
  <2>4. c \in Processed
    BY <2>3, <1>3 DEF Processed
  <2> QED BY <2>2, <2>3, <2>4, <1>1 DEF TakenInv, InBlockTaken
<1>8. CASE \E mv \in BatchLogs({"move"}) : mv <= at /\ SessionAt(mv) = s /\ Block(mv) > b
  <2>1. PICK mv \in BatchLogs({"move"}) : mv <= at /\ SessionAt(mv) = s /\ Block(mv) > b
    BY <1>8
  <2>2. mv \in BatchLogs(Events) /\ Block(mv) \in Nat
    BY <2>1, BatchEvents DEF BatchLogs, LogsOf, Events
  <2>3. ASSUME NEW d \in BatchLogs(Events), Block(d) < Block(mv)
        PROVE  FALSE
    <3>1. Block(mv) <= Block(l)
      BY <2>1, <2>2, <2>3 DEF TakenInv, BeforeTaken
    <3> QED BY <3>1, <2>1, <2>2, <1>1, <1>2
  <2>4. \A d \in BatchLogs(Events) : Block(mv) <= Block(d)
    BY <2>2, <2>3, BatchEvents
  <2> QED BY <2>1, <2>4, <1>1, <1>2 DEF KnownCause
<1> QED BY <1>6, <1>7, <1>8

\* Fetches change nothing the causes are about.
LEMMA CauseStays ==
    ASSUME logs' = logs, lastSync' = lastSync, till' = till, restarts' = restarts
    PROVE  KnownCause' <=> KnownCause
<1>1. \A l : /\ Block(l)' = Block(l) /\ SessionAt(l)' = SessionAt(l) /\ Acc(l)' = Acc(l)
  BY SameLogs
<1>2. \A kinds : LogsOf(kinds)' = LogsOf(kinds)
  BY SameLogs DEF LogsOf
<1>3. \A kinds : BatchLogs(kinds)' = BatchLogs(kinds)
  BY <1>1, <1>2 DEF BatchLogs
<1>4. \A l : Ambiguous(l)' <=> Ambiguous(l)
  BY <1>1, <1>2 DEF Ambiguous
<1>5. BatchLogs({"move"})' = BatchLogs({"move"}) /\ BatchLogs({"close"})' = BatchLogs({"close"})
      /\ BatchLogs(Received)' = BatchLogs(Received) /\ BatchLogs(Events)' = BatchLogs(Events)
  BY <1>3
<1> QED BY <1>1, <1>4, <1>5 DEF KnownCause

LEMMA BlockChangeStops ==
    ASSUME Inv, AccountedInv, OnBlockChange, ~KnownCause
    PROVE  ~stopped'
<1>0. ChainInv /\ SessionInv /\ StepInv /\ FetchInv /\ DetailInv /\ PendingInv
  BY DEF Inv, RoundInv
<1> DEFINE cms == {cm \in Managers : lastEventBlock[cm] = Block(at)}
           taken == CheckTokenTransfer(cms, {Block(at)})
<1>1. /\ ~stopped /\ step = "block"
      /\ FetchFromDCForChangedSessions(taken, cms, Block(at))
  BY DEF OnBlockChange
<1>2. at # 0 /\ at \in BatchLogs(Events) /\ NoMore(Block(at)) /\ InBlock
  BY <1>0, <1>1 DEF StepInv, InBlock
<1>3. ASSUME NEW t \in Counted(taken)
      PROVE  /\ t.log \in DOMAIN logs /\ Block(t.log) = Block(at) /\ SessionAt(t.log) = t.ses
             /\ t.ses \in DOMAIN sessions
  BY <1>0, <1>2, CountedSession
<1> HIDE DEF taken
<1>4. ASSUME NEW s \in Closed(cms), Block(s) # Block(at)
      PROVE  HasAccount(s, Block(at) - 1)
  <2>1. PICK cm \in Managers : s \in closed[cm]
    BY ClosedMember
  <2> QED BY <2>1, <1>0, <1>1, <1>2, <1>4, ClosedHasAccount
<1>5. ASSUME NEW s \in Updated(taken, cms)
      PROVE  HasAccount(s, Block(at)) /\ s \notin Closed(cms)
  <2>1. /\ s \notin Closed(cms)
        /\ (\E cm \in cms : s \in updated[cm]) \/ (\E t \in Counted(taken) : t.ses = s)
    BY UpdatedMember
  <2>2. s \in DOMAIN sessions /\ \E e \in DOMAIN logs : Block(e) = Block(at) /\ SessionAt(e) = s
    <3>1. CASE \E cm \in cms : s \in updated[cm]
      <4>1. PICK cm \in Managers : s \in updated[cm]
        BY <3>1
      <4>2. s \in DOMAIN sessions /\ \E e \in BatchLogs(Events) : Block(e) = Block(at) /\ SessionAt(e) = s
        BY <4>1, <1>0 DEF FetchInv
      <4> QED BY <4>2, <1>0, BatchEvents
    <3>2. CASE \E t \in Counted(taken) : t.ses = s
      BY <3>2, <1>3
    <3> QED BY <2>1, <3>1, <3>2
  <2>3. \A cm \in Managers : lastEventBlock[cm] = Block(at) => s \notin closed[cm]
    BY <2>1, ClosedMember
  <2> QED BY <2>1, <2>2, <2>3, <1>0, <1>1, <1>2, UpdatedHasAccount
<1> HIDE DEF cms
<1>6. ASSUME NEW s \in Fetched(taken, cms, Block(at))
      PROVE  HasAccount(s, FetchBlock(cms, s, Block(at)))
  <2>1. CASE s \in Updated(taken, cms)
    BY <2>1, <1>5 DEF FetchBlock
  <2>2. CASE s \in Closed(cms) /\ Block(s) # Block(at)
    BY <2>2, <1>4 DEF FetchBlock
  <2> QED BY <2>1, <2>2 DEF Fetched
<1>7. stopped' = \E s \in Fetched(taken, cms, Block(at)) : ~HasAccount(s, FetchBlock(cms, s, Block(at)))
  BY <1>1 DEF FetchFromDCForChangedSessions
<1> QED BY <1>6, <1>7

LEMMA BeforeStops ==
    ASSUME Inv, AccountedInv, UpdateSessionWithDirectTokenTransferBefore, ~KnownCause
    PROVE  ~stopped'
<1>0. ChainInv /\ SessionInv /\ StepInv /\ FetchInv /\ DetailInv /\ PendingInv /\ TakenInv
  BY DEF Inv, RoundInv, AccountedInv
<1>1. PICK b \in BlocksBefore : FetchFromDCForChangedSessions(CheckTokenTransfer(Managers, {b}), Managers, b)
  BY DEF UpdateSessionWithDirectTokenTransferBefore
<1>2. step = "before"
  BY DEF UpdateSessionWithDirectTokenTransferBefore
<1>3. NoMore(b)
  <2>1. \A e \in BatchLogs(Events) : Block(e) \in Nat
    BY <1>0, BatchEvents
  <2> QED BY <2>1, <1>0 DEF BlocksBefore, NoMore, StepInv
<1>4. \A cm \in Managers : updated[cm] = {} /\ closed[cm] = {}
  BY <1>0, <1>2 DEF FetchInv, InBlock
<1> DEFINE taken == CheckTokenTransfer(Managers, {b})
<1>5. ASSUME NEW t \in Counted(taken)
      PROVE  HasAccount(t.ses, b)
  <2>1. /\ t.log \in PendingReceived /\ Block(t.log) = b /\ SessionAt(t.log) = t.ses
        /\ t.ses \in DOMAIN sessions
    BY <1>0, <1>3, CountedSession
  <2> QED BY <2>1, <1>0, <1>2, <1>3, PendingHasAccount
<1>6. stopped' = \E s \in Fetched(taken, Managers, b) : ~HasAccount(s, FetchBlock(Managers, s, b))
  BY <1>1 DEF FetchFromDCForChangedSessions
<1> HIDE DEF taken
<1>7. ASSUME NEW s \in Fetched(taken, Managers, b)
      PROVE  HasAccount(s, FetchBlock(Managers, s, b))
  <2>1. s \notin Closed(Managers)
    BY <1>4, ClosedMember
  <2>2. s \in Updated(taken, Managers)
    BY <2>1 DEF Fetched
  <2>3. \E t \in Counted(taken) : t.ses = s
    BY <2>2, <1>4, UpdatedMember
  <2> QED BY <2>1, <2>3, <1>5 DEF FetchBlock
<1> QED BY <1>6, <1>7

LEMMA StopsStep ==
    ASSUME Inv, AccountedInv, StopsOnlyOnKnownCauses, [Next]_vars
    PROVE  StopsOnlyOnKnownCauses'
<1>0. StepInv /\ (stopped => KnownCause)
  BY DEF Inv, RoundInv, StopsOnlyOnKnownCauses, KnownCause
<1> SUFFICES ASSUME stopped'
             PROVE  KnownCause'
  BY DEF StopsOnlyOnKnownCauses, KnownCause
<1>1. CASE OnBlockChange
  <2>1. KnownCause
    BY <1>1, BlockChangeStops
  <2>2. logs' = logs /\ lastSync' = lastSync /\ till' = till /\ restarts' = restarts
    BY <1>1 DEF OnBlockChange, FetchFromDCForChangedSessions, chainVars, seenVars
  <2> QED BY <2>1, <2>2, CauseStays
<1>2. CASE UpdateSessionWithDirectTokenTransferBefore
  <2>1. KnownCause
    BY <1>2, BeforeStops
  <2>2. logs' = logs /\ lastSync' = lastSync /\ till' = till /\ restarts' = restarts
    BY <1>2 DEF UpdateSessionWithDirectTokenTransferBefore, FetchFromDCForChangedSessions, chainVars, seenVars
  <2> QED BY <2>1, <2>2, CauseStays
<1>3. CASE UNCHANGED vars
  <2>1. stopped' = stopped /\ logs' = logs /\ lastSync' = lastSync /\ till' = till /\ restarts' = restarts
    BY <1>3 DEF vars, chainVars, syncVars, roundVars, seenVars
  <2> QED BY <2>1, <1>0, CauseStays
<1>4. CASE Chain
  <2>1. stopped' = stopped /\ ~stopped
    BY <1>4 DEF Chain, OpenCreditAccount, Operate, DirectTransfer, NewBlock, Execute, Idle, syncVars
  <2> QED BY <2>1
<1>5. CASE Query \/ EndBlock \/ AfterSync \/ Restart
  <2>1. ~stopped'
    BY <1>5 DEF Query, EndBlock, AfterSync, Restart, Idle, syncVars
  <2> QED BY <2>1
<1>6. CASE \E l \in DOMAIN logs : OnEvent(l)
  <2>1. PICK l \in DOMAIN logs : OnLog(l)
    BY <1>6 DEF OnEvent, OnOpenCreditAccount, OnOperation, OnTransferAccount, OnCloseCreditAccount
  <2>2. ~stopped'
    BY <2>1 DEF OnLog, syncVars
  <2> QED BY <2>2
<1> QED BY <1>1, <1>2, <1>3, <1>4, <1>5, <1>6 DEF Next, OnLogs, OnEvent

(***************************************************************************)
(* The log.Fatal on an account that the data compressor does not have is   *)
(* met only when a session changes its borrower and is closed in one block *)
(* of the batch, when it changes it in the first block with a log of a     *)
(* credit manager after a direct transfer of the batch, or when a restart  *)
(* may have loaded another session for a transfer of the batch             *)
(* (closeSessionCallAndResultFn, updateSessionCallAndProcessFn).           *)
(***************************************************************************)
THEOREM StopsCorrect == Spec => []StopsOnlyOnKnownCauses
<1>1. Init => StopsOnlyOnKnownCauses
  BY DEF Init, StopsOnlyOnKnownCauses
<1>2. Inv /\ AccountedInv /\ StopsOnlyOnKnownCauses /\ [Next]_vars => StopsOnlyOnKnownCauses'
  BY StopsStep
<1> QED BY <1>1, <1>2, Invariance, AccountedInvariance, PTL DEF Spec

-----------------------------------------------------------------------------
(***************************************************************************)
(* In which blocks sessions are fetched.  A mark is the block of a         *)
(* snapshot or of a recorded transfer: no event before it is left, and the *)
(* transfers before an event are taken oldest block first, so a new mark   *)
(* is behind another one only if its transfers were before the first event *)
(* of the batch.                                                           *)
(***************************************************************************)
Marks == {x.block : x \in snapshots} \cup {Block(l) : l \in UNION {r.logs : r \in rows}}

MarkInv ==
    \A m \in Marks :
        /\ m \in Nat /\ m <= head /\ NoMore(m)
        /\ at = 0 => m <= lastSync
        /\ step = "block" => m < Block(at)
        /\ step = "before" => \/ m <= Block(at)
                              \/ \A c \in BlocksBefore : c < m => CheckTokenTransfer(Managers, {c}) = {}

PlaceInv ==
    /\ \A x \in snapshots : x.ses \in DOMAIN sessions /\ Block(x.ses) <= x.block
    /\ \A x \in saved.snapshots :
         x.ses \in DOMAIN saved.sessions /\ Block(x.ses) <= x.block /\ x.block <= lastSync
    /\ \A b \in early : b \in Nat /\ b <= lastSync

FetchingBlock(cms, b) ==
    /\ Fetching(cms, b) /\ step = "block" /\ b = Block(at)
    /\ cms = {cm \in Managers : lastEventBlock[cm] = b}

FetchingBefore(cms, b) ==
    /\ Fetching(cms, b) /\ step = "before" /\ cms = Managers
    /\ \A c \in BlocksBefore : c < b => CheckTokenTransfer(Managers, {c}) = {}

FetchStep(cms, b) == FetchingBlock(cms, b) \/ FetchingBefore(cms, b)

LEMMA FetchKinds ==
    ASSUME ChainInv, StepInv, FetchInv, PendingInv, OnBlockChange \/ UpdateSessionWithDirectTokenTransferBefore
    PROVE  \E cms \in SUBSET Managers, b \in Nat : FetchStep(cms, b)
<1>1. CASE OnBlockChange
  <2> DEFINE cms == {cm \in Managers : lastEventBlock[cm] = Block(at)}
  <2>1. /\ ~stopped /\ step = "block" /\ step' = "before"
        /\ FetchFromDCForChangedSessions(CheckTokenTransfer(cms, {Block(at)}), cms, Block(at))
    BY <1>1 DEF OnBlockChange
  <2>2. at \in BatchLogs(Events) /\ NoMore(Block(at))
    BY <2>1 DEF StepInv
  <2>3. Block(at) \in Nat /\ Block(at) # 0 /\ Block(at) <= till
    BY <2>2, LogTypes DEF BatchLogs
  <2>4. Fetching(cms, Block(at))
    BY <2>1, <2>2, <2>3 DEF Fetching
  <2>5. FetchingBlock(cms, Block(at))
    BY <2>1, <2>4 DEF FetchingBlock
  <2> QED BY <2>3, <2>5 DEF FetchStep
<1>2. CASE UpdateSessionWithDirectTokenTransferBefore
  <2>1. PICK b \in BlocksBefore :
          /\ CheckTokenTransfer(Managers, {b}) # {}
          /\ \A c \in BlocksBefore : c < b => CheckTokenTransfer(Managers, {c}) = {}
          /\ FetchFromDCForChangedSessions(CheckTokenTransfer(Managers, {b}), Managers, b)
    BY <1>2 DEF UpdateSessionWithDirectTokenTransferBefore
  <2>2. ~stopped /\ step = "before" /\ step' = "before"
    BY <1>2 DEF UpdateSessionWithDirectTokenTransferBefore
  <2>3. b \in Nat /\ b <= till /\ NoMore(b)
    <3>1. \A e \in BatchLogs(Events) : Block(e) \in Nat
      BY LogTypes DEF BatchLogs
    <3> QED BY <3>1 DEF BlocksBefore, NoMore, StepInv
  <2>4. b # 0
    <3>1. PICK t \in CheckTokenTransfer(Managers, {b}) : TRUE
      BY <2>1
    <3>2. t.log \in DOMAIN logs /\ Block(t.log) = b
      BY DEF CheckTokenTransfer
    <3> QED BY <3>2, LogTypes
  <2>5. Closed(Managers) = {}
    <3>1. ~InBlock
      BY <2>2 DEF InBlock
    <3> QED BY <3>1 DEF FetchInv, Closed
  <2>6. FetchingBefore(Managers, b)
    BY <2>1, <2>2, <2>3, <2>4, <2>5 DEF Fetching, FetchingBefore
  <2> QED BY <2>3, <2>6 DEF FetchStep
<1> QED BY <1>1, <1>2

LEMMA FetchStepFacts ==
    ASSUME ChainInv, StepInv, NEW cms, NEW b, FetchStep(cms, b)
    PROVE  /\ Fetching(cms, b) /\ cms \subseteq Managers /\ b \in Nat /\ b # 0 /\ b <= till /\ b <= head
           /\ NoMore(b) /\ (Closed(cms) # {} => b # 0) /\ ~stopped /\ step \in {"block", "before"}
           /\ FetchFromDCForChangedSessions(CheckTokenTransfer(cms, {b}), cms, b)
           /\ logs' = logs /\ head' = head /\ lastSync' = lastSync /\ till' = till /\ at' = at
           /\ saved' = saved /\ early' = early /\ details' = details /\ step' = "before"
           /\ at # 0 /\ at \in BatchLogs(Events) /\ at \in DOMAIN logs /\ Block(at) \in Nat
           /\ lastSync \in Nat /\ lastSync < Block(at) /\ till \in Nat /\ head \in Nat
<1>1. /\ Fetching(cms, b) /\ cms \subseteq Managers /\ b \in Nat /\ b # 0 /\ b <= till
      /\ NoMore(b) /\ ~stopped /\ step \in {"block", "before"} /\ step' = "before"
      /\ FetchFromDCForChangedSessions(CheckTokenTransfer(cms, {b}), cms, b)
  BY DEF FetchStep, FetchingBlock, FetchingBefore, Fetching
<1>2. /\ logs' = logs /\ head' = head /\ lastSync' = lastSync /\ till' = till /\ at' = at
      /\ saved' = saved /\ early' = early /\ details' = details
  BY <1>1 DEF FetchFromDCForChangedSessions, chainVars, seenVars
<1>3. at # 0 /\ at \in BatchLogs(Events) /\ lastSync \in Nat /\ till \in Nat /\ head \in Nat /\ till <= head
  BY <1>1, HeadBounds DEF StepInv
<1>4. at \in DOMAIN logs /\ Block(at) \in Nat /\ lastSync < Block(at)
  BY <1>3, LogTypes DEF BatchLogs
<1> QED BY <1>1, <1>2, <1>3, <1>4

\* Where the sessions are fetched.
LEMMA FetchedPlace ==
    ASSUME ChainInv, StepInv, SessionInv, FetchInv, DetailInv, PendingInv, NEW cms, NEW b, FetchStep(cms, b),
           NEW s \in Fetched(CheckTokenTransfer(cms, {b}), cms, b)
    PROVE  /\ s \in DOMAIN sessions /\ s \in Opens /\ Manager(s) \in cms
           /\ FetchBlock(cms, s, b) \in Nat /\ Block(s) <= FetchBlock(cms, s, b)
           /\ s \in Closed(cms) => FetchBlock(cms, s, b) = b - 1 /\ step = "block"
           /\ s \notin Closed(cms) => FetchBlock(cms, s, b) = b
<1>1. /\ cms \subseteq Managers /\ b \in Nat /\ b # 0 /\ NoMore(b) /\ step \in {"block", "before"}
      /\ at \in DOMAIN logs /\ lastSync \in Nat /\ lastSync < Block(at) /\ Block(at) \in Nat
  BY FetchStepFacts
<1>2. s \in DOMAIN sessions /\ Manager(s) \in cms
  BY <1>1, FetchedSessions
<1>3. s \in Opens /\ s \in HandledLogs /\ s \in DOMAIN logs /\ Block(s) \in Nat
  BY <1>2, LogTypes DEF SessionInv, SessionsOf
<1>4. /\ s \in Closed(cms) => FetchBlock(cms, s, b) = b - 1
      /\ s \notin Closed(cms) => FetchBlock(cms, s, b) = b
  BY DEF FetchBlock
<1>5. CASE FetchingBlock(cms, b)
  <2>1. b = Block(at) /\ step = "block"
    BY <1>5 DEF FetchingBlock
  <2>2. Block(s) <= b
    <3>1. Block(s) <= lastSync \/ s <= at
      BY <1>3 DEF HandledLogs, Handled
    <3> QED BY <3>1, <2>1, <1>1, <1>3, BlockOrder
  <2>3. s \in Closed(cms) => Block(s) # b
    BY DEF Fetched, Updated
  <2> QED BY <2>1, <2>2, <2>3, <1>1, <1>2, <1>3, <1>4
<1>6. CASE FetchingBefore(cms, b)
  <2>1. step = "before" /\ cms = Managers
    BY <1>6 DEF FetchingBefore
  <2>2. \A cm \in Managers : updated[cm] = {} /\ closed[cm] = {}
    BY <2>1 DEF FetchInv, InBlock
  <2>3. s \notin Closed(cms)
    BY <2>1, <2>2, ClosedMember
  <2> DEFINE taken == CheckTokenTransfer(cms, {b})
  <2>4. s \in Updated(taken, cms)
    BY <2>3 DEF Fetched
  <2>5. \A t \in Counted(taken) : t \in taken
    BY DEF Counted
  <2>6. \A t \in taken : Block(t.log) = b /\ DirectLog(t.log) /\ BelongsTo(t.log, t.ses)
    BY <1>1, TakenFacts DEF DirectLog
  <2> HIDE DEF taken
  <2>7. PICK t \in Counted(taken) : t.ses = s
    BY <2>1, <2>2, <2>4, UpdatedMember
  <2>8. Block(t.log) = b /\ DirectLog(t.log) /\ BelongsTo(t.log, s)
    BY <2>5, <2>6, <2>7
  <2>9. Block(s) <= b
    BY <2>8, BelongsParts
  <2> QED BY <2>3, <2>9, <1>1, <1>2, <1>3, <1>4
<1> QED BY <1>5, <1>6 DEF FetchStep

LEMMA FetchedSnapshots ==
    ASSUME NEW cms, NEW b, NEW STATE taken, FetchFromDCForChangedSessions(taken, cms, b), NEW x
    PROVE  x \in snapshots' <=>
             \/ x \in snapshots /\ (x.ses \in Fetched(taken, cms, b) => x.block # FetchBlock(cms, x.ses, b))
             \/ \E s \in Fetched(taken, cms, b) :
                  x = [ses |-> s, block |-> FetchBlock(cms, s, b), collateral |-> Collateral(taken, s)]
BY DEF FetchFromDCForChangedSessions, AddSnapshots

\* Steps that write no snapshot.
LEMMA PlaceRest ==
    ASSUME ChainInv, SessionInv, PlaceInv, Extended, snapshots' = snapshots, saved' = saved,
           early' = early, lastSync' = lastSync, DOMAIN sessions \subseteq DOMAIN sessions'
    PROVE  PlaceInv'
<1>1. \A l \in DOMAIN logs : Block(l)' = Block(l)
  BY ExtendedFacts
<1>2. \A s \in DOMAIN sessions : s \in DOMAIN logs
  BY LogTypes DEF SessionInv, SessionsOf
<1>3. \A s \in DOMAIN saved.sessions : s \in DOMAIN logs
  BY LogTypes DEF SessionInv, SessionsOf
<1> QED BY <1>1, <1>2, <1>3 DEF PlaceInv

LEMMA FetchPlace ==
    ASSUME ChainInv, StepInv, SessionInv, FetchInv, DetailInv, PendingInv, PlaceInv, NEW cms, NEW b, FetchStep(cms, b)
    PROVE  PlaceInv'
<1> DEFINE taken == CheckTokenTransfer(cms, {b})
<1>1. /\ FetchFromDCForChangedSessions(taken, cms, b) /\ b \in Nat /\ (Closed(cms) # {} => b # 0)
      /\ logs' = logs /\ saved' = saved /\ early' = early /\ lastSync' = lastSync
  BY FetchStepFacts
<1>2. \A s \in Fetched(taken, cms, b) : s \in DOMAIN sessions /\ Block(s) <= FetchBlock(cms, s, b)
  BY FetchedPlace
<1> HIDE DEF taken
<1>3. DOMAIN sessions' = DOMAIN sessions
  BY <1>1, FetchSessions
<1>4. \A l : Block(l)' = Block(l)
  BY <1>1, SameLogs
<1>5. ASSUME NEW x \in snapshots'
      PROVE  x.ses \in DOMAIN sessions /\ Block(x.ses) <= x.block
  <2>1. CASE x \in snapshots
    BY <2>1 DEF PlaceInv
  <2>2. CASE \E s \in Fetched(taken, cms, b) :
               x = [ses |-> s, block |-> FetchBlock(cms, s, b), collateral |-> Collateral(taken, s)]
    BY <2>2, <1>2
  <2> QED BY <2>1, <2>2, <1>1, FetchedSnapshots
<1> QED BY <1>1, <1>3, <1>4, <1>5 DEF PlaceInv

LEMMA MarkMember ==
    ASSUME NEW m
    PROVE  m \in Marks <=> \/ \E x \in snapshots : x.block = m
                           \/ \E r \in rows : \E l \in r.logs : Block(l) = m
BY DEF Marks

LEMMA SameMarks ==
    ASSUME ChainInv, StepInv, RowInv, Extended, rows' = rows, snapshots' = snapshots
    PROVE  Marks' = Marks
<1>1. \A r \in rows : \A l \in r.logs : Block(l)' = Block(l)
  BY RowLogBounds, ExtendedFacts
<1> QED BY <1>1 DEF Marks

\* Between two rounds every mark is saved.
LEMMA SavedMarks ==
    ASSUME ChainInv', at' = 0, step' \notin {"block", "before"}, lastSync' \in Nat, lastSync' <= head', head' \in Nat,
           \A m \in Marks' : m \in Nat /\ m <= lastSync'
    PROVE  MarkInv'
<1>1. \A e \in BatchLogs(Events)' : Block(e)' \in Nat /\ lastSync' < Block(e)'
  BY NextBlocks DEF BatchLogs
<1> QED BY <1>1 DEF MarkInv, NoMore

LEMMA EventMarks ==
    ASSUME ChainInv, StepInv, RowInv, MarkInv, NEW l, OnLog(l)
    PROVE  MarkInv'
<1>1. /\ NextEvent(l) /\ l \in Nat /\ l # 0 /\ logs' = logs /\ head' = head /\ lastSync' = lastSync
      /\ till' = till /\ at' = l /\ Extended
  BY OnLogFacts
<1>2. rows' = rows /\ snapshots' = snapshots /\ step' \in {"logs", "block"}
  BY DEF OnLog, rowVars
<1>3. Marks' = Marks
  BY <1>1, <1>2, SameMarks
<1>4. BatchLogs(Events)' = BatchLogs(Events) /\ \A e : Block(e)' = Block(e)
  BY <1>1, SameBatch, SameLogs
<1>5. \A e \in BatchLogs(Events) : e \in Nat /\ Block(e) \in Nat
  BY BatchEvents
<1>6. at \in Nat /\ l > at /\ l \in BatchLogs(Events)
  BY <1>1 DEF StepInv, NextEvent
<1>7. ASSUME NEW m \in Marks
      PROVE  m \in Nat /\ m <= head /\ NoMore(m)' /\ m < Block(l)
  <2>1. m \in Nat /\ m <= head /\ NoMore(m)
    BY DEF MarkInv
  <2>2. m < Block(l)
    BY <2>1, <1>5, <1>6 DEF NoMore
  <2>3. \A e \in BatchLogs(Events) : e > l => Block(e) > m
    BY <2>1, <1>5, <1>6 DEF NoMore
  <2>4. NoMore(m)'
    BY <2>3, <1>1, <1>4 DEF NoMore
  <2> QED BY <2>1, <2>2, <2>4
<1>8. Block(at)' = Block(l)
  BY <1>1 DEF Block
<1> QED BY <1>1, <1>2, <1>3, <1>7, <1>8 DEF MarkInv

\* The marks of a fetch.
LEMMA FetchedMarks ==
    ASSUME ChainInv, StepInv, SessionInv, FetchInv, DetailInv, PendingInv, NEW cms, NEW b, FetchStep(cms, b),
           NEW m \in Marks'
    PROVE  m \in Marks \/ m = b \/ (m = b - 1 /\ step = "block")
<1> DEFINE taken == CheckTokenTransfer(cms, {b})
<1>1. /\ FetchFromDCForChangedSessions(taken, cms, b) /\ logs' = logs /\ NoMore(b)
  BY FetchStepFacts
<1>2. \A s \in Fetched(taken, cms, b) :
        FetchBlock(cms, s, b) = b \/ (FetchBlock(cms, s, b) = b - 1 /\ step = "block")
  BY FetchedPlace
<1>3. \A t \in taken : t.log \in DOMAIN logs /\ Block(t.log) = b /\ t = [log |-> t.log, ses |-> t.ses]
  BY <1>1, TakenFacts
<1> HIDE DEF taken
<1>4. \A l : Block(l)' = Block(l)
  BY <1>1, SameLogs
<1>5. (\E x \in snapshots' : x.block = m) \/ (\E r \in rows' : \E l \in r.logs : Block(l) = m)
  BY <1>4 DEF Marks
<1>6. CASE \E x \in snapshots' : x.block = m
  <2>1. PICK x \in snapshots' : x.block = m
    BY <1>6
  <2>2. CASE x \in snapshots
    BY <2>1, <2>2, MarkMember
  <2>3. CASE \E s \in Fetched(taken, cms, b) :
               x = [ses |-> s, block |-> FetchBlock(cms, s, b), collateral |-> Collateral(taken, s)]
    BY <2>1, <2>3, <1>2
  <2> QED BY <2>2, <2>3, <1>1, FetchedSnapshots
<1>7. CASE \E r \in rows' : \E l \in r.logs : Block(l) = m
  <2>1. PICK r \in rows' : \E l \in r.logs : Block(l) = m
    BY <1>7
  <2>2. PICK l \in r.logs : Block(l) = m
    BY <2>1
  <2>3. r \in rows \/ r \in NewRows(taken)
    BY <1>1 DEF FetchFromDCForChangedSessions
  <2>4. CASE r \in rows
    BY <2>2, <2>4, MarkMember
  <2>5. CASE r \in NewRows(taken)
    <3>1. [log |-> l, ses |-> r.ses] \in Counted(taken)
      BY <2>5, <1>3, NewRowFacts
    <3>2. [log |-> l, ses |-> r.ses] \in taken
      BY <3>1 DEF Counted
    <3> QED BY <3>2, <2>2, <1>3
  <2> QED BY <2>3, <2>4, <2>5
<1> QED BY <1>5, <1>6, <1>7

\* What is left to take only shrinks.
LEMMA FewerTaken ==
    ASSUME ChainInv, SessionInv, NEW cms, NEW b, NEW c, FetchStep(cms, b), StepInv,
           CheckTokenTransfer(Managers, {c}) = {}
    PROVE  CheckTokenTransfer(Managers, {c})' = {}
<1> DEFINE taken == CheckTokenTransfer(cms, {b})
<1>1. /\ FetchFromDCForChangedSessions(taken, cms, b) /\ logs' = logs /\ details' = details
      /\ b \in Nat /\ (Closed(cms) # {} => b # 0)
  BY FetchStepFacts
<1> HIDE DEF taken
<1>2. DOMAIN sessions' = DOMAIN sessions
  BY <1>1, FetchSessions
<1>3. \A acc \in Accounts : transfers'[acc] \subseteq transfers[acc]
  BY <1>1 DEF FetchFromDCForChangedSessions, Left
<1>4. \A l : Pending(l)' => Pending(l)
  BY <1>1, <1>3, PendingBefore
<1>5. \A l, s : BelongsTo(l, s)' <=> BelongsTo(l, s)
  BY <1>1 DEF BelongsTo, IsDetailAt, BeforeOpen, AfterClose, Acc, Block, Tx
<1> SUFFICES ASSUME NEW t \in CheckTokenTransfer(Managers, {c})'
             PROVE  FALSE
  OBVIOUS
<1>6. PICK l, s : l = t.log /\ s = t.ses
  OBVIOUS
<1>7. /\ t = [log |-> l, ses |-> s] /\ l \in DOMAIN logs /\ Pending(l)' /\ s \in DOMAIN sessions
      /\ Block(l) = c /\ Manager(s) \in Managers /\ BelongsTo(l, s)'
  BY <1>1, <1>2, <1>6 DEF CheckTokenTransfer, Block, Manager
<1>8. t \in CheckTokenTransfer(Managers, {c})
  BY <1>4, <1>5, <1>6, <1>7 DEF CheckTokenTransfer
<1> QED BY <1>8

LEMMA FetchMarkInv ==
    ASSUME ChainInv, StepInv, SessionInv, FetchInv, DetailInv, PendingInv, MarkInv, NEW cms, NEW b, FetchStep(cms, b)
    PROVE  MarkInv'
<1>1. /\ logs' = logs /\ head' = head /\ lastSync' = lastSync /\ till' = till /\ at' = at /\ step' = "before"
      /\ at # 0 /\ b \in Nat /\ b # 0 /\ b <= head /\ head \in Nat /\ NoMore(b) /\ Block(at) \in Nat
      /\ step \in {"block", "before"}
  BY FetchStepFacts
<1>2. BatchLogs(Events)' = BatchLogs(Events) /\ \A l : Block(l)' = Block(l)
  BY <1>1, SameBatch, SameLogs
<1>3. \A n : NoMore(n)' <=> NoMore(n)
  BY <1>1, <1>2 DEF NoMore
<1>4. BlocksBefore' = BlocksBefore
  BY <1>1, <1>2 DEF BlocksBefore
<1>5. \A c : CheckTokenTransfer(Managers, {c}) = {} => CheckTokenTransfer(Managers, {c})' = {}
  BY FewerTaken
<1>6. NoMore(b - 1)
  <2>1. \A e \in BatchLogs(Events) : Block(e) \in Nat
    BY BatchEvents
  <2> QED BY <2>1, <1>1 DEF NoMore
<1>7. Block(at)' = Block(at)
  BY <1>1 DEF Block
<1>8. ASSUME NEW m \in Marks'
      PROVE  /\ m \in Nat /\ m <= head /\ NoMore(m)
             /\ m <= Block(at) \/ \A c \in BlocksBefore : c < m => CheckTokenTransfer(Managers, {c}) = {}
  <2>1. m \in Marks \/ m = b \/ (m = b - 1 /\ step = "block")
    BY FetchedMarks
  <2>2. CASE m \in Marks
    BY <2>2, <1>1 DEF MarkInv
  <2>3. CASE m = b - 1 /\ step = "block"
    <3>1. b = Block(at)
      BY <2>3 DEF FetchStep, FetchingBlock, FetchingBefore
    <3> QED BY <3>1, <2>3, <1>1, <1>6
  <2>4. CASE m = b
    BY <2>4, <1>1 DEF FetchStep, FetchingBlock, FetchingBefore
  <2> QED BY <2>1, <2>2, <2>3, <2>4
<1> QED BY <1>1, <1>3, <1>4, <1>5, <1>7, <1>8 DEF MarkInv

\* Steps that keep the marks and the round.
LEMMA MarksRest ==
    ASSUME ChainInv, StepInv, RowInv, MarkInv, rows' = rows, snapshots' = snapshots, logs' = logs, head' = head,
           lastSync' = lastSync, till' = till, at' = at, at # 0, step' \notin {"block", "before"}
    PROVE  MarkInv'
<1>1. Marks' = Marks
  BY SameLogsExtend, SameMarks
<1>2. BatchLogs(Events)' = BatchLogs(Events) /\ \A l : Block(l)' = Block(l)
  BY SameBatch, SameLogs
<1>3. \A n : NoMore(n)' <=> NoMore(n)
  BY <1>2 DEF NoMore
<1> QED BY <1>1, <1>3 DEF MarkInv

LEMMA MarksStutter ==
    ASSUME MarkInv, UNCHANGED vars
    PROVE  MarkInv'
<1>1. /\ rows' = rows /\ snapshots' = snapshots /\ logs' = logs /\ head' = head /\ lastSync' = lastSync
      /\ till' = till /\ at' = at /\ step' = step /\ transfers' = transfers /\ details' = details
      /\ sessions' = sessions
  BY DEF vars, rowVars, chainVars, syncVars, roundVars, transferVars, sessionVars
<1>2. Marks' = Marks
  BY <1>1 DEF Marks, Block
<1>3. BatchLogs(Events)' = BatchLogs(Events) /\ \A l : Block(l)' = Block(l)
  BY <1>1 DEF BatchLogs, LogsOf, Kind, Block
<1>4. (\A n : NoMore(n)' <=> NoMore(n)) /\ BlocksBefore' = BlocksBefore
  BY <1>1, <1>3 DEF NoMore, BlocksBefore
<1>5. (\A l : Pending(l)' <=> Pending(l)) /\ \A l, s : BelongsTo(l, s)' <=> BelongsTo(l, s)
  BY <1>1 DEF Pending, BelongsTo, IsDetailAt, BeforeOpen, AfterClose, Acc, Block, Tx
<1>6. \A c : CheckTokenTransfer(Managers, {c})' = CheckTokenTransfer(Managers, {c})
  <2> TAKE c
  <2>1. [log : {l \in DOMAIN logs : Pending(l)}, ses : DOMAIN sessions]'
          = [log : {l \in DOMAIN logs : Pending(l)}, ses : DOMAIN sessions]
    BY <1>1, <1>5
  <2> QED BY <2>1, <1>1, <1>3, <1>5 DEF CheckTokenTransfer, Manager
<1>7. Block(at)' = Block(at)
  BY <1>1 DEF Block
<1> QED BY <1>1, <1>2, <1>4, <1>6, <1>7 DEF MarkInv

\* The marks that are saved.
LEMMA IdleMarks ==
    ASSUME ChainInv, ChainInv', StepInv, StepInv', SnapshotInv, RowInv, MarkInv, PlaceInv,
           Chain \/ Query \/ AfterSync \/ Restart
    PROVE  MarkInv'
<1>1. /\ head \in Nat /\ lastSync \in Nat /\ till \in Nat
      /\ lastSync' \in Nat /\ head' \in Nat /\ lastSync' <= head'
  <2>1. head' \in Nat
    BY LogTypes DEF ChainInv, OrderInv
  <2> QED BY <2>1, HeadBounds DEF StepInv
<1>2. CASE Chain
  <2>1. Extended /\ Idle /\ at' = at /\ step' = step /\ lastSync' = lastSync /\ rows' = rows /\ snapshots' = snapshots
    BY <1>2, ChainGrows, ChainActions DEF rowVars, syncVars, roundVars
  <2>2. at = 0 /\ step = "idle"
    BY <2>1 DEF Idle, StepInv
  <2>3. Marks' = Marks
    BY <2>1, SameMarks
  <2>4. \A m \in Marks' : m \in Nat /\ m <= lastSync'
    BY <2>1, <2>2, <2>3 DEF MarkInv
  <2> QED BY <2>1, <2>2, <2>4, <1>1, SavedMarks
<1>3. CASE Query
  <2>1. /\ logs' = logs /\ head' = head /\ lastSync' = lastSync /\ rows' = rows /\ snapshots' = snapshots /\ at' = at
        /\ step = "idle" /\ step' \in {"logs", "flush"}
    BY <1>3 DEF Query, Idle, chainVars, rowVars, syncVars
  <2>2. at = 0
    BY <2>1 DEF StepInv
  <2>3. Marks' = Marks
    BY <2>1, SameLogsExtend, SameMarks
  <2>4. \A m \in Marks' : m \in Nat /\ m <= lastSync'
    BY <2>1, <2>2, <2>3 DEF MarkInv
  <2> QED BY <2>1, <2>2, <2>4, <1>1, SavedMarks
<1>4. CASE AfterSync
  <2>1. /\ logs' = logs /\ head' = head /\ lastSync' = till /\ rows' = rows /\ snapshots' = snapshots /\ at' = 0
        /\ step' = "idle" /\ till = head
    BY <1>4, FlushFacts DEF AfterSync
  <2>2. Marks' = Marks
    BY <2>1, SameLogsExtend, SameMarks
  <2>3. \A m \in Marks' : m \in Nat /\ m <= lastSync'
    BY <2>1, <2>2 DEF MarkInv
  <2> QED BY <2>1, <2>3, <1>1, SavedMarks
<1>5. CASE Restart
  <2>1. /\ logs' = logs /\ lastSync' = lastSync /\ rows' = saved.rows /\ snapshots' = saved.snapshots /\ at' = 0
        /\ step' = "idle"
    BY <1>5 DEF Restart, chainVars
  <2>2. \A l : Block(l)' = Block(l)
    BY <2>1, SameLogs
  <2>3. \A r \in saved.rows : \A l \in r.logs : Block(l) \in Nat /\ Block(l) <= lastSync
    BY RowLogBounds DEF RowInv
  <2>4. \A x \in saved.snapshots : x.block \in Nat /\ x.block <= lastSync
    BY DEF SnapshotInv, SnapshotRecord, PlaceInv
  <2>5. \A m \in Marks' : m \in Nat /\ m <= lastSync'
    BY <2>1, <2>2, <2>3, <2>4 DEF Marks
  <2> QED BY <2>1, <2>5, <1>1, SavedMarks
<1> QED BY <1>2, <1>3, <1>4, <1>5

\* Events only add sessions and keep what is written.
LEMMA EventKeeps ==
    ASSUME ChainInv, StepInv, SessionInv, NEW l \in DOMAIN logs, OnEvent(l)
    PROVE  /\ OnLog(l) /\ DOMAIN sessions \subseteq DOMAIN sessions'
           /\ rows' = rows /\ snapshots' = snapshots /\ saved' = saved /\ early' = early /\ lastSync' = lastSync
           /\ stopped' = stopped
<1>1. OnLog(l)
  BY DEF OnEvent, OnOpenCreditAccount, OnOperation, OnTransferAccount, OnCloseCreditAccount
<1>2. DOMAIN sessions \subseteq DOMAIN sessions'
  BY DEF OnEvent, OnOpenCreditAccount, OnOperation, OnTransferAccount, OnCloseCreditAccount
<1> QED BY <1>1, <1>2 DEF OnLog, rowVars, syncVars, seenVars

LEMMA AfterSyncPlace ==
    ASSUME ChainInv, StepInv, SessionInv, SnapshotInv, MarkInv, PlaceInv, AfterSync
    PROVE  PlaceInv'
<1>1. /\ logs' = logs /\ lastSync' = till /\ till = head /\ lastSync < till /\ snapshots' = snapshots
      /\ sessions' = sessions /\ saved'.snapshots = snapshots /\ saved'.sessions = sessions
  BY FlushFacts DEF AfterSync, sessionVars
<1>2. till \in Nat /\ lastSync \in Nat
  BY DEF StepInv
<1>3. early' \subseteq early \cup ((lastSync + 1)..till)
  BY DEF AfterSync
<1>4. \A b \in early' : b \in Nat /\ b <= lastSync'
  BY <1>1, <1>2, <1>3 DEF PlaceInv
<1>5. \A x \in snapshots : x.block <= till
  BY <1>1 DEF SnapshotInv
<1>6. \A l : Block(l)' = Block(l)
  BY <1>1, SameLogs
<1> QED BY <1>1, <1>4, <1>5, <1>6 DEF PlaceInv

LEMMA RestartPlace ==
    ASSUME PlaceInv, Restart
    PROVE  PlaceInv'
<1>1. /\ logs' = logs /\ lastSync' = lastSync /\ snapshots' = saved.snapshots /\ early' = early /\ saved' = saved
      /\ sessions' = [s \in DOMAIN saved.sessions |-> LoadCreditSession(s)]
  BY DEF Restart, chainVars
<1>2. DOMAIN sessions' = DOMAIN saved.sessions
  BY <1>1
<1>3. \A l : Block(l)' = Block(l)
  BY <1>1, SameLogs
<1> QED BY <1>1, <1>2, <1>3 DEF PlaceInv

LEMMA PlaceMarkStep ==
    ASSUME Inv, Inv', PlaceInv, MarkInv, [Next]_vars
    PROVE  PlaceInv' /\ MarkInv'
<1>0. /\ ChainInv /\ SessionInv /\ StepInv /\ FetchInv /\ DetailInv /\ PendingInv /\ RowInv /\ SnapshotInv
      /\ ChainInv' /\ StepInv'
  BY DEF Inv, RoundInv
<1>1. CASE OnBlockChange \/ UpdateSessionWithDirectTokenTransferBefore
  <2>1. PICK cms \in SUBSET Managers, b \in Nat : FetchStep(cms, b)
    BY <1>0, <1>1, FetchKinds
  <2> QED BY <2>1, <1>0, FetchPlace, FetchMarkInv
<1>2. CASE \E l \in DOMAIN logs : OnEvent(l)
  <2>1. PICK l \in DOMAIN logs : OnEvent(l)
    BY <1>2
  <2>2. Extended
    BY <2>1, <1>0, EventKeeps, OnLogFacts
  <2> QED BY <2>1, <2>2, <1>0, EventKeeps, PlaceRest, EventMarks
<1>3. CASE Chain
  <2>1. Extended /\ sessions' = sessions /\ snapshots' = snapshots /\ saved' = saved /\ early' = early
        /\ lastSync' = lastSync
    BY <1>0, <1>3, ChainGrows, ChainActions DEF sessionVars, rowVars, syncVars, seenVars
  <2> QED BY <2>1, <1>0, <1>3, PlaceRest, IdleMarks
<1>4. CASE Query
  <2>1. logs' = logs /\ head' = head /\ sessions' = sessions /\ snapshots' = snapshots /\ saved' = saved
        /\ early' = early /\ lastSync' = lastSync
    BY <1>4 DEF Query, chainVars, sessionVars, rowVars, syncVars, seenVars
  <2>2. Extended
    BY <2>1, <1>0, SameLogsExtend
  <2> QED BY <2>1, <2>2, <1>0, <1>4, PlaceRest, IdleMarks
<1>5. CASE EndBlock
  <2>1. logs' = logs /\ head' = head /\ sessions' = sessions /\ rows' = rows /\ snapshots' = snapshots
        /\ saved' = saved /\ early' = early /\ lastSync' = lastSync /\ till' = till /\ at' = at
        /\ step = "before" /\ step' \in {"logs", "flush"}
    BY <1>5 DEF EndBlock, chainVars, sessionVars, rowVars, syncVars, seenVars
  <2>2. Extended /\ at # 0
    BY <2>1, <1>0, SameLogsExtend DEF StepInv
  <2> QED BY <2>1, <2>2, <1>0, PlaceRest, MarksRest
<1>6. CASE AfterSync
  BY <1>0, <1>6, AfterSyncPlace, IdleMarks
<1>7. CASE Restart
  BY <1>0, <1>7, RestartPlace, IdleMarks
<1>8. CASE UNCHANGED vars
  <2>1. logs' = logs /\ head' = head /\ sessions' = sessions /\ snapshots' = snapshots /\ saved' = saved
        /\ early' = early /\ lastSync' = lastSync
    BY <1>8 DEF vars, chainVars, sessionVars, rowVars, syncVars, seenVars
  <2>2. Extended
    BY <2>1, <1>0, SameLogsExtend
  <2> QED BY <2>1, <2>2, <1>0, <1>8, PlaceRest, MarksStutter
<1> QED BY <1>1, <1>2, <1>3, <1>4, <1>5, <1>6, <1>7, <1>8 DEF Next, OnLogs, OnEvent

-----------------------------------------------------------------------------
(***************************************************************************)
(* The collateral and the balances of a session that has no transfer       *)
(* before the first event of a batch.  The operators take the logs L, the  *)
(* sessions S, the rows R and the snapshots X as arguments: they are about *)
(* what the process has, and about what it saved.                          *)
(*                                                                         *)
(* The collateral of a session counts its recorded transfers, its balances *)
(* are those of the newest of its snapshots, and that snapshot has every   *)
(* recorded transfer (a restart loads the collateral from it).             *)
(***************************************************************************)
RecordedIn(R, s) == UNION {r.logs : r \in {x \in R : x.ses = s}}

EndOf(L, c, n) == IF c # None /\ L[c].block = n + 1 THEN n + 1 ELSE n

RecordedUpTo(L, S, R, s, n) == {l \in RecordedIn(R, s) : L[l].block <= EndOf(L, S[s].closeLog, n)}

SnapshotKept(L, S, R, X, s, x) ==
    /\ x.block <= S[s].balancesAt
    /\ \E y \in X : y.ses = s /\ y.block = S[s].balancesAt
    /\ x.collateral = Cardinality(RecordedUpTo(L, S, R, s, x.block))
    /\ x.block = S[s].balancesAt => RecordedUpTo(L, S, R, s, x.block) = RecordedIn(R, s)

KeptFor(L, S, R, X, s) ==
    /\ S[s].collateral = Cardinality(RecordedIn(R, s))
    /\ \A x \in X : x.ses = s => SnapshotKept(L, S, R, X, s, x)

\* No transfer of the session is before the first event of its batch, in the
\* round in progress neither.
OnTime(s) ==
    /\ NoneEarly(s)
    /\ at # 0 => \A l \in BatchLogs(Received) :
         SessionAt(l) = s => \E e \in BatchLogs(Events) : Block(e) <= Block(l)

KeptInv ==
    /\ ~stopped => \A s \in DOMAIN sessions : OnTime(s) => KeptFor(logs, sessions, rows, snapshots, s)
    /\ \A s \in DOMAIN saved.sessions :
         NoneEarly(s) => KeptFor(logs, saved.sessions, saved.rows, saved.snapshots, s)

LEMMA RecordedMember ==
    ASSUME NEW R, NEW s, NEW l
    PROVE  l \in RecordedIn(R, s) <=> \E r \in R : r.ses = s /\ l \in r.logs
BY DEF RecordedIn

\* The same session, or one that was closed after all that was recorded of it.
LEMMA KeptGrows ==
    ASSUME NEW L, NEW M, NEW S, NEW T, NEW R, NEW X, NEW s, KeptFor(L, S, R, X, s),
           T[s].balancesAt = S[s].balancesAt, T[s].collateral = S[s].collateral,
           \A x \in X : x.ses = s => x.block \in Nat,
           \A l \in RecordedIn(R, s) : L[l].block \in Nat /\ M[l].block = L[l].block,
           \/ T[s].closeLog = S[s].closeLog /\ (S[s].closeLog # None => M[S[s].closeLog].block = L[S[s].closeLog].block)
           \/ S[s].closeLog = None /\ \A l \in RecordedIn(R, s) : L[l].block < M[T[s].closeLog].block
    PROVE  KeptFor(M, T, R, X, s)
<1>1. ASSUME NEW n \in Nat
      PROVE  /\ RecordedUpTo(M, T, R, s, n) = RecordedUpTo(L, S, R, s, n)
  <2>1. CASE T[s].closeLog = S[s].closeLog /\ (S[s].closeLog # None => M[S[s].closeLog].block = L[S[s].closeLog].block)
    <3>1. EndOf(M, T[s].closeLog, n) = EndOf(L, S[s].closeLog, n)
      BY <2>1 DEF EndOf
    <3> QED BY <3>1 DEF RecordedUpTo
  <2>2. CASE S[s].closeLog = None /\ \A l \in RecordedIn(R, s) : L[l].block < M[T[s].closeLog].block
    <3>1. EndOf(L, S[s].closeLog, n) = n
      BY <2>2 DEF EndOf
    <3>2. CASE EndOf(M, T[s].closeLog, n) = n
      BY <3>1, <3>2 DEF RecordedUpTo
    <3>3. CASE EndOf(M, T[s].closeLog, n) = n + 1 /\ M[T[s].closeLog].block = n + 1
      <4>1. \A l \in RecordedIn(R, s) : L[l].block <= n
        BY <2>2, <3>3
      <4>2. \A l \in RecordedIn(R, s) : M[l].block <= n + 1
        BY <4>1
      <4> QED BY <3>1, <3>3, <4>1, <4>2 DEF RecordedUpTo
    <3> QED BY <3>2, <3>3 DEF EndOf
  <2> QED BY <2>1, <2>2
<1>2. \A x \in X : x.ses = s => SnapshotKept(L, S, R, X, s, x)
  BY DEF KeptFor
<1>3. \A x \in X : x.ses = s => SnapshotKept(M, T, R, X, s, x)
  BY <1>1, <1>2 DEF SnapshotKept
<1> QED BY <1>3 DEF KeptFor

LEMMA NotFetchedKept ==
    ASSUME NEW L, NEW S, NEW T, NEW R, NEW Q, NEW X, NEW Y, NEW s, NEW N, KeptFor(L, S, R, X, s),
           RecordedIn(Q, s) = RecordedIn(R, s) \cup N, T[s].closeLog = S[s].closeLog,
           T[s].balancesAt = S[s].balancesAt, T[s].collateral = Cardinality(RecordedIn(Q, s)),
           \A x : x.ses = s => (x \in Y <=> x \in X),
           N = {} \/ \A x \in X : x.ses # s
    PROVE  KeptFor(L, T, Q, Y, s)
<1>1. CASE N = {}
  <2>1. RecordedIn(Q, s) = RecordedIn(R, s)
    BY <1>1
  <2>2. \A n : RecordedUpTo(L, T, Q, s, n) = RecordedUpTo(L, S, R, s, n)
    BY <2>1 DEF RecordedUpTo
  <2>3. ASSUME NEW x \in Y, x.ses = s
        PROVE  SnapshotKept(L, T, Q, Y, s, x)
    <3>1. x \in X
      BY <2>3
    <3>2. SnapshotKept(L, S, R, X, s, x)
      BY <2>3, <3>1 DEF KeptFor
    <3> QED BY <2>1, <2>2, <3>2 DEF SnapshotKept
  <2> QED BY <2>3 DEF KeptFor
<1>2. CASE \A x \in X : x.ses # s
  BY <1>2 DEF KeptFor
<1> QED BY <1>1, <1>2

\* The session s is fetched for the block n after the block b, which added N to
\* its recorded transfers; its new snapshot is z.
SessionFetched(L, S, T, R, Q, X, Y, s, N, n, b, z) ==
    /\ n \in Nat /\ b \in Nat
    /\ RecordedIn(Q, s) = RecordedIn(R, s) \cup N /\ T[s].closeLog = S[s].closeLog
    /\ T[s].balancesAt = n /\ T[s].collateral = Cardinality(RecordedIn(Q, s))
    /\ z \in Y /\ z.ses = s /\ z.block = n /\ z.collateral = Cardinality(RecordedIn(Q, s))
    /\ \A x \in Y : x.ses = s => x = z \/ (x \in X /\ x.block # n)
    /\ \A x \in X : x.ses = s => x.block \in Nat /\ x.block <= n
    /\ \A l \in RecordedIn(Q, s) : L[l].block \in Nat /\ L[l].block <= b
    /\ \A l \in N : L[l].block = b
    /\ \/ n = b /\ (S[s].closeLog = None \/ (L[S[s].closeLog].block \in Nat /\ L[S[s].closeLog].block > b))
       \/ n = b - 1 /\ S[s].closeLog # None /\ L[S[s].closeLog].block = b

LEMMA FetchedKept ==
    ASSUME NEW L, NEW S, NEW T, NEW R, NEW Q, NEW X, NEW Y, NEW s, NEW N, NEW n, NEW b, NEW z,
           KeptFor(L, S, R, X, s), SessionFetched(L, S, T, R, Q, X, Y, s, N, n, b, z)
    PROVE  KeptFor(L, T, Q, Y, s)
<1> USE DEF SessionFetched
<1>1. RecordedUpTo(L, T, Q, s, n) = RecordedIn(Q, s)
  <2>1. b <= EndOf(L, T[s].closeLog, n) /\ EndOf(L, T[s].closeLog, n) \in Nat
    BY DEF EndOf
  <2>2. \A l \in RecordedIn(Q, s) : L[l].block <= EndOf(L, T[s].closeLog, n)
    BY <2>1
  <2> QED BY <2>2 DEF RecordedUpTo
<1>2. ASSUME NEW m \in Nat, m < n
      PROVE  RecordedUpTo(L, T, Q, s, m) = RecordedUpTo(L, S, R, s, m)
  <2>1. EndOf(L, T[s].closeLog, m) = EndOf(L, S[s].closeLog, m)
    OBVIOUS
  <2>2. EndOf(L, S[s].closeLog, m) \in Nat /\ EndOf(L, S[s].closeLog, m) < b
    BY <1>2 DEF EndOf
  <2>3. \A l \in N : ~(L[l].block <= EndOf(L, S[s].closeLog, m))
    BY <2>2
  <2> QED BY <2>1, <2>3 DEF RecordedUpTo
<1>3. ASSUME NEW x \in Y, x.ses = s
      PROVE  SnapshotKept(L, T, Q, Y, s, x)
  <2>1. \E y \in Y : y.ses = s /\ y.block = T[s].balancesAt
    OBVIOUS
  <2>2. CASE x = z
    <3>1. x.block = n /\ x.collateral = Cardinality(RecordedIn(Q, s)) /\ n <= n
      BY <2>2
    <3>2. x.collateral = Cardinality(RecordedUpTo(L, T, Q, s, x.block))
      BY <3>1, <1>1
    <3>3. RecordedUpTo(L, T, Q, s, x.block) = RecordedIn(Q, s)
      BY <3>1, <1>1
    <3> QED BY <2>1, <3>1, <3>2, <3>3 DEF SnapshotKept
  <2>3. CASE x \in X /\ x.block # n
    <3>1. x.block \in Nat /\ x.block < n
      BY <1>3, <2>3
    <3>2. x.collateral = Cardinality(RecordedUpTo(L, S, R, s, x.block))
      BY <1>3, <2>3 DEF KeptFor, SnapshotKept
    <3>3. x.collateral = Cardinality(RecordedUpTo(L, T, Q, s, x.block))
      BY <1>2, <3>1, <3>2
    <3> QED BY <2>1, <3>1, <3>3 DEF SnapshotKept
  <2> QED BY <1>3, <2>2, <2>3
<1> QED BY <1>3 DEF KeptFor

\* Which sessions have no early transfer.
LEMMA NoneEarlySame ==
    ASSUME ChainInv, ChainInv', StepInv, Extended, lastSync' = lastSync, early' = early, NEW s
    PROVE  NoneEarly(s)' <=> NoneEarly(s)
<1>1. /\ SavedLogs(Received)' = SavedLogs(Received)
      /\ \A l \in SavedLogs(Received) : l \in DOMAIN logs
  BY SavedLogsSame
<1>2. \A l \in SavedLogs(Received) : Block(l)' = Block(l) /\ SessionAt(l)' = SessionAt(l)
  BY <1>1, ExtendedFacts
<1> QED BY <1>1, <1>2 DEF NoneEarly

LEMMA OnTimeBefore ==
    ASSUME ChainInv, ChainInv', StepInv, Extended, lastSync' = lastSync, early' = early,
           at = 0 \/ (at' # 0 /\ till' = till /\ logs' = logs), NEW s, OnTime(s)'
    PROVE  OnTime(s)
<1>1. NoneEarly(s)
  BY NoneEarlySame DEF OnTime
<1>2. CASE at = 0
  BY <1>1, <1>2 DEF OnTime
<1>3. CASE at' # 0 /\ till' = till /\ logs' = logs
  <2>1. /\ BatchLogs(Received)' = BatchLogs(Received) /\ BatchLogs(Events)' = BatchLogs(Events)
        /\ \A l : Block(l)' = Block(l) /\ SessionAt(l)' = SessionAt(l)
    BY <1>3, SameBatch, SameLogs
  <2> QED BY <1>1, <1>3, <2>1 DEF OnTime
<1> QED BY <1>2, <1>3

\* What the rows and the snapshots are about.
LEMMA KeptTypes ==
    ASSUME ChainInv, StepInv, SessionInv, RowInv, SnapshotInv, PlaceInv
    PROVE  /\ \A s : \A l \in RecordedIn(rows, s) : l \in DOMAIN logs /\ Block(l) \in Nat /\ Block(l) \in Marks
           /\ \A s : \A l \in RecordedIn(saved.rows, s) : l \in DOMAIN logs /\ Block(l) \in Nat
           /\ \A x \in snapshots \cup saved.snapshots : x.block \in Nat
           /\ \A s : RecordedIn(rows, s) # {} \/ (\E x \in snapshots : x.ses = s) => s \in DOMAIN sessions
           /\ \A s \in DOMAIN sessions : sessions[s].closeLog # None => sessions[s].closeLog \in DOMAIN logs
           /\ \A s \in DOMAIN saved.sessions : saved.sessions[s].closeLog # None => saved.sessions[s].closeLog \in DOMAIN logs
<1>1. \A s : \A l \in RecordedIn(rows, s) : l \in DOMAIN logs /\ Block(l) \in Nat /\ Block(l) \in Marks
  <2> TAKE s
  <2> TAKE l \in RecordedIn(rows, s)
  <2>1. PICK r \in rows : l \in r.logs
    BY DEF RecordedIn
  <2> QED BY <2>1, RowLogBounds, MarkMember
<1>2. \A s : \A l \in RecordedIn(saved.rows, s) : l \in DOMAIN logs /\ Block(l) \in Nat
  <2> TAKE s
  <2> TAKE l \in RecordedIn(saved.rows, s)
  <2>1. PICK r \in saved.rows : l \in r.logs
    BY DEF RecordedIn
  <2> QED BY <2>1, RowLogBounds
<1>3. \A x \in snapshots \cup saved.snapshots : x.block \in Nat
  BY DEF SnapshotInv, SnapshotRecord
<1>4. \A s : RecordedIn(rows, s) # {} \/ (\E x \in snapshots : x.ses = s) => s \in DOMAIN sessions
  BY RecordedMember DEF RowInv, PlaceInv
<1>5. \A s \in DOMAIN sessions : sessions[s].closeLog # None => sessions[s].closeLog \in DOMAIN logs
  <2>1. \A s \in DOMAIN sessions : sessions[s].closeLog # None => sessions[s].closeLog \in Closes
    BY DEF SessionInv, SessionsOf
  <2>2. \A c \in Closes : c \in DOMAIN logs
    BY LogTypes
  <2> QED BY <2>1, <2>2
<1>6. \A s \in DOMAIN saved.sessions : saved.sessions[s].closeLog # None => saved.sessions[s].closeLog \in DOMAIN logs
  <2>1. \A s \in DOMAIN saved.sessions : saved.sessions[s].closeLog # None => saved.sessions[s].closeLog \in Closes
    BY DEF SessionInv, SessionsOf
  <2>2. \A c \in Closes : c \in DOMAIN logs
    BY LogTypes
  <2> QED BY <2>1, <2>2
<1> QED BY <1>1, <1>2, <1>3, <1>4, <1>5, <1>6

\* A session that is the same, is new, or was closed by a later log.
LEMMA SessionKept ==
    ASSUME ChainInv, StepInv, SessionInv, RowInv, SnapshotInv, PlaceInv, Extended,
           NEW s \in DOMAIN sessions', s \in DOMAIN sessions => KeptFor(logs, sessions, rows, snapshots, s),
           \/ s \in DOMAIN sessions /\ sessions'[s].closeLog = sessions[s].closeLog
           \/ /\ s \in DOMAIN sessions /\ sessions[s].closeLog = None
              /\ \A m \in Marks : m < logs'[sessions'[s].closeLog].block
           \/ s \notin DOMAIN sessions /\ sessions'[s].collateral = 0,
           s \in DOMAIN sessions => /\ sessions'[s].balancesAt = sessions[s].balancesAt
                                    /\ sessions'[s].collateral = sessions[s].collateral
    PROVE  KeptFor(logs', sessions', rows, snapshots, s)
<1>1. CASE s \in DOMAIN sessions
  <2>1. \A l \in RecordedIn(rows, s) : logs[l].block \in Nat /\ logs'[l].block = logs[l].block /\ logs[l].block \in Marks
    BY KeptTypes DEF Extended, Block
  <2>2. \A x \in snapshots : x.ses = s => x.block \in Nat
    BY KeptTypes
  <2>3. sessions[s].closeLog # None => logs'[sessions[s].closeLog].block = logs[sessions[s].closeLog].block
    BY <1>1, KeptTypes DEF Extended
  <2>4. \/ sessions'[s].closeLog = sessions[s].closeLog
        \/ sessions[s].closeLog = None /\ \A l \in RecordedIn(rows, s) : logs[l].block < logs'[sessions'[s].closeLog].block
    BY <1>1, <2>1
  <2>5. sessions'[s].balancesAt = sessions[s].balancesAt /\ sessions'[s].collateral = sessions[s].collateral
        /\ KeptFor(logs, sessions, rows, snapshots, s)
    BY <1>1
  <2> QED BY <2>1, <2>2, <2>3, <2>4, <2>5, KeptGrows
<1>2. CASE s \notin DOMAIN sessions
  <2>1. RecordedIn(rows, s) = {} /\ \A x \in snapshots : x.ses # s
    BY <1>2, KeptTypes
  <2>2. Cardinality(RecordedIn(rows, s)) = 0
    BY <2>1, FS_EmptySet
  <2> QED BY <1>2, <2>1, <2>2 DEF KeptFor
<1> QED BY <1>1, <1>2

\* What is saved stays.
LEMMA SavedSessionsKept ==
    ASSUME ChainInv, ChainInv', StepInv, SessionInv, RowInv, SnapshotInv, PlaceInv, KeptInv, Extended,
           saved' = saved, lastSync' = lastSync, early' = early, NEW s \in DOMAIN saved.sessions, NoneEarly(s)'
    PROVE  KeptFor(logs', saved.sessions, saved.rows, saved.snapshots, s)
<1>1. KeptFor(logs, saved.sessions, saved.rows, saved.snapshots, s)
  BY NoneEarlySame DEF KeptInv
<1>2. \A l \in RecordedIn(saved.rows, s) : logs[l].block \in Nat /\ logs'[l].block = logs[l].block
  BY KeptTypes DEF Extended, Block
<1>3. \A x \in saved.snapshots : x.ses = s => x.block \in Nat
  BY KeptTypes
<1>4. saved.sessions[s].closeLog # None =>
        logs'[saved.sessions[s].closeLog].block = logs[saved.sessions[s].closeLog].block
  BY KeptTypes DEF Extended
<1> QED BY <1>1, <1>2, <1>3, <1>4, KeptGrows

LEMMA KeptRest ==
    ASSUME ChainInv, ChainInv', StepInv, SessionInv, RowInv, SnapshotInv, PlaceInv, KeptInv, Extended,
           rows' = rows, snapshots' = snapshots, saved' = saved, lastSync' = lastSync, early' = early,
           stopped' = stopped, at = 0 \/ (at' # 0 /\ till' = till /\ logs' = logs),
           \A s \in DOMAIN sessions' :
               \/ s \in DOMAIN sessions /\ sessions'[s].closeLog = sessions[s].closeLog
               \/ /\ s \in DOMAIN sessions /\ sessions[s].closeLog = None
                  /\ \A m \in Marks : m < logs'[sessions'[s].closeLog].block
               \/ s \notin DOMAIN sessions /\ sessions'[s].collateral = 0,
           \A s \in DOMAIN sessions : /\ sessions'[s].balancesAt = sessions[s].balancesAt
                                      /\ sessions'[s].collateral = sessions[s].collateral
    PROVE  KeptInv'
<1>1. ASSUME ~stopped', NEW s \in DOMAIN sessions', OnTime(s)'
      PROVE  KeptFor(logs', sessions', rows', snapshots', s)
  <2>1. OnTime(s)
    BY <1>1, OnTimeBefore
  <2>2. s \in DOMAIN sessions => KeptFor(logs, sessions, rows, snapshots, s)
    BY <1>1, <2>1 DEF KeptInv
  <2>3. KeptFor(logs', sessions', rows, snapshots, s)
    BY <2>2, SessionKept
  <2> QED BY <2>3
<1>2. ASSUME NEW s \in DOMAIN saved'.sessions, NoneEarly(s)'
      PROVE  KeptFor(logs', saved'.sessions, saved'.rows, saved'.snapshots, s)
  BY <1>2, SavedSessionsKept
<1> QED BY <1>1, <1>2 DEF KeptInv

LEMMA IdleKept ==
    ASSUME Inv, ChainInv', PlaceInv, KeptInv, Chain \/ Query \/ EndBlock \/ UNCHANGED vars
    PROVE  KeptInv'
<1>0. ChainInv /\ SessionInv /\ StepInv /\ RowInv /\ SnapshotInv
  BY DEF Inv, RoundInv
<1>1. /\ sessions' = sessions /\ rows' = rows /\ snapshots' = snapshots /\ saved' = saved
      /\ lastSync' = lastSync /\ early' = early /\ stopped' = stopped
  <2>1. CASE Chain
    BY <2>1, <1>0, ChainActions DEF sessionVars, rowVars, syncVars, seenVars
  <2>2. CASE Query
    BY <2>2 DEF Query, sessionVars, rowVars, syncVars, seenVars
  <2>3. CASE EndBlock
    BY <2>3 DEF EndBlock, sessionVars, rowVars, syncVars, seenVars
  <2>4. CASE UNCHANGED vars
    BY <2>4 DEF vars, sessionVars, rowVars, syncVars, seenVars
  <2> QED BY <2>1, <2>2, <2>3, <2>4
<1>2. Extended /\ (at = 0 \/ (at' # 0 /\ till' = till /\ logs' = logs))
  <2>1. CASE Chain
    BY <2>1, <1>0, ChainGrows, ChainActions DEF Idle, StepInv
  <2>2. CASE Query
    <3>1. at = 0 /\ logs' = logs /\ head' = head
      BY <2>2, <1>0 DEF Query, Idle, StepInv, chainVars
    <3> QED BY <3>1, <1>0, SameLogsExtend
  <2>3. CASE EndBlock
    <3>1. at # 0 /\ at' = at /\ till' = till /\ logs' = logs /\ head' = head
      BY <2>3, <1>0 DEF EndBlock, StepInv, chainVars
    <3> QED BY <3>1, <1>0, SameLogsExtend
  <2>4. CASE UNCHANGED vars
    <3>1. at' = at /\ till' = till /\ logs' = logs /\ head' = head
      BY <2>4 DEF vars, roundVars, chainVars
    <3> QED BY <3>1, <1>0, SameLogsExtend
  <2> QED BY <2>1, <2>2, <2>3, <2>4
<1> QED BY <1>0, <1>1, <1>2, KeptRest

LEMMA EventKept ==
    ASSUME Inv, ChainInv', PlaceInv, MarkInv, KeptInv, NEW l \in DOMAIN logs, OnEvent(l)
    PROVE  KeptInv'
<1>0. ChainInv /\ SessionInv /\ StepInv /\ RowInv /\ SnapshotInv
  BY DEF Inv, RoundInv
<1>1. /\ OnLog(l) /\ rows' = rows /\ snapshots' = snapshots /\ saved' = saved /\ early' = early
      /\ lastSync' = lastSync /\ stopped' = stopped
  BY <1>0, EventKeeps
<1>2. /\ NextEvent(l) /\ l \in Nat /\ l # 0 /\ logs' = logs /\ till' = till /\ at' = l /\ Extended
      /\ l \notin HandledLogs
  BY <1>0, <1>1, OnLogFacts
<1>3. \A m \in Marks : m < logs'[l].block
  <2>1. l \in BatchLogs(Events) /\ l > at
    BY <1>2 DEF NextEvent
  <2>2. \A m \in Marks : NoMore(m) /\ m \in Nat
    BY DEF MarkInv
  <2>3. logs'[l].block = Block(l) /\ Block(l) \in Nat
    BY <1>2, <2>1, <1>0, BatchEvents DEF Block
  <2> QED BY <2>1, <2>2, <2>3 DEF NoMore
<1>4. sessions \in [Opens \cap HandledLogs -> SessionRecord]
  BY <1>0 DEF SessionInv, SessionsOf
<1>5. /\ \A s \in DOMAIN sessions' :
           \/ s \in DOMAIN sessions /\ sessions'[s].closeLog = sessions[s].closeLog
           \/ /\ s \in DOMAIN sessions /\ sessions[s].closeLog = None
              /\ \A m \in Marks : m < logs'[sessions'[s].closeLog].block
           \/ s \notin DOMAIN sessions /\ sessions'[s].collateral = 0
      /\ \A s \in DOMAIN sessions : /\ sessions'[s].balancesAt = sessions[s].balancesAt
                                    /\ sessions'[s].collateral = sessions[s].collateral
  <2>1. CASE OnOpenCreditAccount(l)
    <3>1. sessions' = [s \in DOMAIN sessions \cup {l} |-> IF s = l THEN NewSession ELSE sessions[s]]
      BY <2>1 DEF OnOpenCreditAccount
    <3>2. l \notin DOMAIN sessions
      BY <1>2, <1>4
    <3> QED BY <3>1, <3>2 DEF NewSession
  <2>2. CASE OnOperation(l)
    <3>1. sessions' = sessions
      BY <2>2 DEF OnOperation
    <3> QED BY <3>1
  <2>3. CASE OnTransferAccount(l)
    <3>1. sessions' = [sessions EXCEPT ![GetCreditOwnerSession(l)].owner = @ + 1]
      BY <2>3 DEF OnTransferAccount
    <3> QED BY <3>1, <1>4 DEF SessionRecord
  <2>4. CASE OnCloseCreditAccount(l)
    <3>1. PICK o : o = SessionAt(l)
      OBVIOUS
    <3>2. Kind(l) # "open"
      BY <2>4 DEF OnCloseCreditAccount
    <3>3. o \in DOMAIN sessions /\ sessions[o].closeLog = None /\ GetCreditOwnerSession(l) = o
      BY <1>0, <1>2, <3>1, <3>2, OwnerSession
    <3>4. sessions' = [sessions EXCEPT ![o].closeLog = l]
      BY <2>4, <3>3 DEF OnCloseCreditAccount
    <3>5. /\ DOMAIN sessions' = DOMAIN sessions
          /\ \A s \in DOMAIN sessions : /\ sessions'[s].balancesAt = sessions[s].balancesAt
                                        /\ sessions'[s].collateral = sessions[s].collateral
                                        /\ s # o => sessions'[s].closeLog = sessions[s].closeLog
          /\ sessions'[o].closeLog = l
      BY <3>3, <3>4, <1>4 DEF SessionRecord
    <3> QED BY <3>3, <3>5, <1>3
  <2> QED BY <2>1, <2>2, <2>3, <2>4 DEF OnEvent
<1> QED BY <1>0, <1>1, <1>2, <1>5, KeptRest

LEMMA AfterSyncKept ==
    ASSUME Inv, PlaceInv, KeptInv, AfterSync
    PROVE  KeptInv'
<1>0. ChainInv /\ StepInv
  BY DEF Inv, RoundInv
<1>1. /\ logs' = logs /\ lastSync' = till /\ lastSync < till /\ sessions' = sessions /\ rows' = rows
      /\ snapshots' = snapshots /\ ~stopped
      /\ saved'.sessions = sessions /\ saved'.rows = rows /\ saved'.snapshots = snapshots
  BY <1>0, FlushFacts DEF AfterSync, sessionVars
<1>2. lastSync \in Nat /\ till \in Nat
  BY <1>0 DEF StepInv
<1>3. /\ early \subseteq early'
      /\ BatchLogs(Events) # {} =>
           \A b \in (lastSync + 1)..till : (\A e \in BatchLogs(Events) : b < Block(e)) => b \in early'
  BY DEF AfterSync
<1>4. \A l : Block(l)' = Block(l) /\ SessionAt(l)' = SessionAt(l) /\ LogsOf(Received)' = LogsOf(Received)
  BY <1>1, SameLogs
<1>5. \A l \in LogsOf(Received) : l \in DOMAIN logs /\ Block(l) \in Nat
  BY <1>0, LogTypes
<1>6. \A l \in SavedLogs(Received) : l \in SavedLogs(Received)'
  BY <1>1, <1>2, <1>4, <1>5 DEF SavedLogs
<1>7. \A l \in BatchLogs(Received) : l \in SavedLogs(Received)'
  BY <1>1, <1>4 DEF SavedLogs, BatchLogs
<1>8. ASSUME NEW s, NoneEarly(s)'
      PROVE  OnTime(s)
  <2>1. NoneEarly(s)
    BY <1>3, <1>4, <1>6, <1>8 DEF NoneEarly
  <2>2. ASSUME at # 0, NEW l \in BatchLogs(Received), SessionAt(l) = s
        PROVE  \E e \in BatchLogs(Events) : Block(e) <= Block(l)
    <3>1. BatchLogs(Events) # {}
      BY <2>2, <1>0 DEF StepInv
    <3>2. Block(l) \notin early'
      BY <2>2, <1>4, <1>7, <1>8 DEF NoneEarly
    <3>3. Block(l) \in Nat /\ Block(l) \in (lastSync + 1)..till
      BY <1>0, <1>2, BatchEvents DEF BatchLogs
    <3>4. \A e \in BatchLogs(Events) : Block(e) \in Nat
      BY <1>0, BatchEvents
    <3> QED BY <3>1, <3>2, <3>3, <3>4, <1>3
  <2> QED BY <2>1, <2>2 DEF OnTime
<1>9. ASSUME NEW s \in DOMAIN sessions, NoneEarly(s)'
      PROVE  KeptFor(logs, sessions, rows, snapshots, s)
  BY <1>1, <1>8, <1>9 DEF KeptInv
<1>10. \A s : OnTime(s)' => NoneEarly(s)'
  BY DEF OnTime
<1>11. \A s \in DOMAIN sessions' : OnTime(s)' => KeptFor(logs', sessions', rows', snapshots', s)
  BY <1>1, <1>9, <1>10
<1>12. \A s \in DOMAIN saved'.sessions :
         NoneEarly(s)' => KeptFor(logs', saved'.sessions, saved'.rows, saved'.snapshots, s)
  BY <1>1, <1>9
<1> QED BY <1>11, <1>12 DEF KeptInv

\* A restart loads the collateral the session had: its newest snapshot has
\* every transfer recorded of it.
LEMMA LoadedCollateral ==
    ASSUME ChainInv, SessionInv, SnapshotInv, NEW s \in DOMAIN saved.sessions,
           KeptFor(logs, saved.sessions, saved.rows, saved.snapshots, s)
    PROVE  LoadCreditSession(s).collateral = saved.sessions[s].collateral
<1>1. CASE SnapshotsOf(s) = {}
  BY <1>1 DEF LoadCreditSession
<1>2. CASE SnapshotsOf(s) # {}
  <2>1. PICK x : x = NewestSnapshot(s)
    OBVIOUS
  <2>2. x \in saved.snapshots /\ x.ses = s /\ \A y \in saved.snapshots : y.ses = s => y.block <= x.block
    BY <1>2, <2>1, NewestSnapshotOf DEF SnapshotsOf
  <2>3. SnapshotKept(logs, saved.sessions, saved.rows, saved.snapshots, s, x)
    BY <2>2 DEF KeptFor
  <2>4. saved.sessions[s] \in SessionRecord
    BY DEF SessionInv, SessionsOf
  <2>5. x.block \in Nat /\ saved.sessions[s].balancesAt \in Nat
    BY <2>2, <2>4 DEF SnapshotInv, SnapshotRecord, SessionRecord
  <2>6. x.block = saved.sessions[s].balancesAt
    BY <2>2, <2>3, <2>5 DEF SnapshotKept
  <2>7. x.collateral = Cardinality(RecordedIn(saved.rows, s))
    BY <2>3, <2>6 DEF SnapshotKept
  <2>8. LoadCreditSession(s).collateral = x.collateral
    BY <1>2, <2>1, <2>4 DEF LoadCreditSession, SessionRecord
  <2> QED BY <2>7, <2>8 DEF KeptFor
<1> QED BY <1>1, <1>2

LEMMA RestartKept ==
    ASSUME Inv, ChainInv', PlaceInv, KeptInv, Restart
    PROVE  KeptInv'
<1>0. ChainInv /\ SessionInv /\ StepInv /\ RowInv /\ SnapshotInv
  BY DEF Inv, RoundInv
<1>1. /\ logs' = logs /\ head' = head /\ lastSync' = lastSync /\ saved' = saved /\ early' = early
      /\ rows' = saved.rows /\ snapshots' = saved.snapshots
      /\ sessions' = [s \in DOMAIN saved.sessions |-> LoadCreditSession(s)]
  BY DEF Restart, chainVars
<1>2. Extended
  BY <1>0, <1>1, SameLogsExtend
<1>3. ASSUME NEW s \in DOMAIN saved.sessions, NoneEarly(s)'
      PROVE  /\ KeptFor(logs', saved.sessions, saved.rows, saved.snapshots, s)
             /\ KeptFor(logs', sessions', saved.rows, saved.snapshots, s)
  <2>1. KeptFor(logs', saved.sessions, saved.rows, saved.snapshots, s)
    BY <1>0, <1>1, <1>2, <1>3, SavedSessionsKept
  <2>2. KeptFor(logs, saved.sessions, saved.rows, saved.snapshots, s)
    BY <2>1, <1>1
  <2>3. sessions'[s] = LoadCreditSession(s)
    BY <1>1
  <2>4. /\ sessions'[s].closeLog = saved.sessions[s].closeLog
        /\ sessions'[s].balancesAt = saved.sessions[s].balancesAt
        /\ sessions'[s].collateral = saved.sessions[s].collateral
    BY <2>2, <2>3, <1>0, LoadedSession, LoadedCollateral
  <2>5. \A l \in RecordedIn(saved.rows, s) : logs[l].block \in Nat
    BY <1>0, KeptTypes DEF Block
  <2>6. \A x \in saved.snapshots : x.ses = s => x.block \in Nat
    BY <1>0, KeptTypes
  <2>7. KeptFor(logs, sessions', saved.rows, saved.snapshots, s)
    BY <2>2, <2>4, <2>5, <2>6, KeptGrows
  <2> QED BY <2>1, <2>7, <1>1
<1>4. DOMAIN sessions' = DOMAIN saved.sessions /\ \A s : OnTime(s)' => NoneEarly(s)'
  BY <1>1 DEF OnTime
<1>5. \A s \in DOMAIN sessions' : OnTime(s)' => KeptFor(logs', sessions', rows', snapshots', s)
  BY <1>1, <1>3, <1>4
<1>6. \A s \in DOMAIN saved'.sessions :
        NoneEarly(s)' => KeptFor(logs', saved'.sessions, saved'.rows, saved'.snapshots, s)
  BY <1>1, <1>3
<1> QED BY <1>5, <1>6 DEF KeptInv

\* What a fetch adds to the recorded transfers of a session.
LEMMA RecordedMore ==
    ASSUME ChainInv, StepInv, SessionInv, PendingInv, RowInv, NEW cms, NEW b, FetchStep(cms, b), NEW s
    PROVE  /\ RecordedIn(rows', s) = RecordedIn(rows, s) \cup CountedFor(CheckTokenTransfer(cms, {b}), s)
           /\ RecordedIn(rows, s) \cap CountedFor(CheckTokenTransfer(cms, {b}), s) = {}
           /\ \A l \in CountedFor(CheckTokenTransfer(cms, {b}), s) : l \in DOMAIN logs /\ Block(l) = b
<1> DEFINE taken == CheckTokenTransfer(cms, {b})
<1>1. NoMore(b) /\ rows' = rows \cup NewRows(taken)
  BY FetchStepFacts DEF FetchFromDCForChangedSessions
<1>2. \A t \in taken : t.log \in DOMAIN logs /\ Block(t.log) = b /\ Pending(t.log) /\ t = [log |-> t.log, ses |-> t.ses]
  BY <1>1, TakenFacts
<1> HIDE DEF taken
<1>3. \A l \in CountedFor(taken, s) : /\ l \in DOMAIN logs /\ [log |-> l, ses |-> s] \in Counted(taken)
                                      /\ [log |-> l, ses |-> s] \in taken /\ Block(l) = b /\ Pending(l)
  BY <1>2 DEF CountedFor, Counted
<1>4. ASSUME NEW l \in RecordedIn(rows', s)
      PROVE  l \in RecordedIn(rows, s) \cup CountedFor(taken, s)
  <2>1. PICK r \in rows' : r.ses = s /\ l \in r.logs
    BY DEF RecordedIn
  <2>2. CASE r \in rows
    BY <2>1, <2>2, RecordedMember
  <2>3. CASE r \in NewRows(taken)
    <3>1. [log |-> l, ses |-> s] \in Counted(taken)
      BY <2>1, <2>3, <1>2, NewRowFacts
    <3>2. l \in DOMAIN logs
      BY <3>1, <1>2 DEF Counted
    <3> QED BY <3>1, <3>2 DEF CountedFor
  <2> QED BY <2>2, <2>3, <1>1
<1>5. ASSUME NEW l \in RecordedIn(rows, s)
      PROVE  l \in RecordedIn(rows', s)
  BY <1>1 DEF RecordedIn
<1>6. ASSUME NEW l \in CountedFor(taken, s)
      PROVE  l \in RecordedIn(rows', s)
  <2>1. PICK t : t = [log |-> l, ses |-> s]
    OBVIOUS
  <2>2. t \in Counted(taken) /\ t.log = l /\ t.ses = s
    BY <2>1, <1>3
  <2>3. l \in RowLogs(t, taken)
    BY <2>2 DEF RowLogs
  <2>4. PICK r : r = [logs |-> RowLogs(t, taken), ses |-> t.ses]
    OBVIOUS
  <2>5. r \in NewRows(taken)
    BY <2>2, <2>4 DEF NewRows
  <2>6. r \in rows' /\ r.ses = s /\ l \in r.logs
    BY <2>2, <2>3, <2>4, <2>5, <1>1
  <2> QED BY <2>6, RecordedMember
<1>7. RecordedIn(rows, s) \cap CountedFor(taken, s) = {}
  <2> SUFFICES ASSUME NEW l \in RecordedIn(rows, s), l \in CountedFor(taken, s)
               PROVE  FALSE
    OBVIOUS
  <2>1. PICK r \in rows : l \in r.logs
    BY DEF RecordedIn
  <2> QED BY <2>1, <1>3 DEF RowInv
<1>8. RecordedIn(rows', s) = RecordedIn(rows, s) \cup CountedFor(taken, s)
  BY <1>4, <1>5, <1>6
<1> QED BY <1>3, <1>7, <1>8 DEF taken

\* A fetch of a session without an early transfer is not behind a mark.
LEMMA FetchedOrder ==
    ASSUME Inv, TakenInv, MarkInv, NEW cms, NEW b, FetchStep(cms, b), ~stopped',
           NEW s \in Fetched(CheckTokenTransfer(cms, {b}), cms, b), OnTime(s), NEW m \in Marks
    PROVE  m \in Nat /\ m <= b /\ (s \in Closed(cms) => m < b)
<1>0. ChainInv /\ SessionInv /\ StepInv /\ FetchInv /\ DetailInv /\ PendingInv
  BY DEF Inv, RoundInv
<1>1. /\ b \in Nat /\ NoMore(b) /\ b <= till /\ till \in Nat /\ at # 0 /\ at \in BatchLogs(Events) /\ Block(at) \in Nat
      /\ Fetching(cms, b) /\ at \in Nat
  BY <1>0, FetchStepFacts DEF StepInv
<1>2. m \in Nat
  BY DEF MarkInv
<1>3. CASE FetchingBlock(cms, b)
  BY <1>1, <1>2, <1>3 DEF FetchingBlock, MarkInv
<1>4. CASE FetchingBefore(cms, b)
  <2>1. step = "before" /\ cms = Managers
    BY <1>4 DEF FetchingBefore
  <2>2. \A cm \in Managers : updated[cm] = {} /\ closed[cm] = {}
    BY <2>1, <1>0 DEF FetchInv, InBlock
  <2>3. s \notin Closed(cms)
    BY <2>1, <2>2, ClosedMember
  <2>4. s \in Updated(CheckTokenTransfer(cms, {b}), cms)
    BY <2>3 DEF Fetched
  <2>5. PICK t \in Counted(CheckTokenTransfer(cms, {b})) : t.ses = s
    BY <2>1, <2>2, <2>4, UpdatedMember
  <2>6. t \in CheckTokenTransfer(cms, {b}) /\ Kind(t.log) # "zero"
    BY <2>5 DEF Counted
  <2>7. PICK l : l = t.log
    OBVIOUS
  <2>8. SessionAt(l) = s
    BY <2>5, <2>7, <1>0, <1>1, TakenInSession
  <2>9. l \in DOMAIN logs /\ Pending(l) /\ Block(l) = b /\ l \in BatchLogs(Direct) /\ Kind(l) \in Direct /\ BelongsTo(l, s)
    BY <2>5, <2>6, <2>7, <1>0, <1>1, TakenFacts
  <2>10. l \in BatchLogs(Received) /\ l \in PendingReceived
    <3>1. Kind(l) \in Received
      BY <2>6, <2>7, <2>9 DEF Direct
    <3>2. l \in BatchLogs(Received)
      BY <3>1, <2>9 DEF BatchLogs, LogsOf
    <3>3. HasDetail(l)
      BY <2>8, <2>9, BelongsHasDetail
    <3> QED BY <3>2, <3>3, <2>9 DEF PendingReceived
  <2>11. PICK e \in BatchLogs(Events) : Block(e) <= b
    BY <2>8, <2>9, <2>10, <1>1 DEF OnTime
  <2>12. Block(at) <= b
    <3>1. Block(e) \in Nat
      BY <1>0, BatchEvents
    <3>2. Block(e) < Block(at) => Block(at) <= Block(l)
      BY <2>10, <1>1 DEF TakenInv, BeforeTaken
    <3> QED BY <3>1, <3>2, <2>9, <2>11, <1>1
  <2>13. b \in BlocksBefore /\ CheckTokenTransfer(Managers, {b}) # {}
    <3>1. \A d \in BatchLogs(Events) : Block(d) \in Nat
      BY <1>0, BatchEvents
    <3> QED BY <3>1, <2>1, <2>6, <1>1 DEF BlocksBefore, NoMore
  <2>14. m <= Block(at) \/ ~(b < m)
    BY <2>1, <2>13 DEF MarkInv
  <2> QED BY <2>3, <2>12, <2>14, <1>1, <1>2
<1> QED BY <1>3, <1>4 DEF FetchStep

\* The close of a session that is fetched.
LEMMA FetchedClose ==
    ASSUME Inv, NEW cms, NEW b, FetchStep(cms, b), ~stopped',
           NEW s \in Fetched(CheckTokenTransfer(cms, {b}), cms, b), s \in DOMAIN sessions
    PROVE  /\ s \in Closed(cms) => sessions[s].closeLog # None /\ Block(sessions[s].closeLog) = b
           /\ s \notin Closed(cms) =>
                sessions[s].closeLog = None \/ (Block(sessions[s].closeLog) \in Nat /\ Block(sessions[s].closeLog) > b)
<1>0. ChainInv /\ SessionInv /\ StepInv /\ FetchInv
  BY DEF Inv, RoundInv
<1>1. /\ cms \subseteq Managers /\ Fetching(cms, b) /\ b \in Nat /\ b <= till /\ NoMore(b)
      /\ FetchFromDCForChangedSessions(CheckTokenTransfer(cms, {b}), cms, b)
  BY <1>0, FetchStepFacts
<1>2. CASE s \in Closed(cms)
  <2>1. PICK cm \in Managers : s \in closed[cm]
    BY <1>1, <1>2, ClosedMember
  <2>2. b = Block(at)
    BY <1>1, <1>2 DEF Fetching
  <2>3. PICK c \in BatchLogs({"close"}) : c <= at /\ Block(c) = b /\ SessionAt(c) = s
    BY <1>0, <2>1, <2>2 DEF FetchInv
  <2>4. c \in Closes /\ c \in DOMAIN logs /\ c # 0 /\ c \in LogsOf({"close"})
    BY <2>3, <1>0, BatchEvents DEF Closes
  <2>5. c \in LogsOf(Events)
    BY <2>4 DEF LogsOf, Events
  <2>6. c \in HandledLogs
    BY <2>3, <2>4 DEF HandledLogs, Handled
  <2>7. sessions[s].closeLog = c
    BY <2>3, <2>4, <2>6, <1>0, HandledClose
  <2> QED BY <1>2, <2>3, <2>4, <2>7 DEF None
<1>3. CASE s \notin Closed(cms)
  <2>1. FetchBlock(cms, s, b) = b
    BY <1>3 DEF FetchBlock
  <2>2. HasAccount(s, b)
    BY <2>1, <1>1 DEF FetchFromDCForChangedSessions
  <2>3. \A c \in Closes : SessionAt(c) = s => Block(c) > b
    BY <2>2 DEF HasAccount, OpenAt, Closes
  <2>4. sessions[s].closeLog # None => sessions[s].closeLog \in Closes /\ SessionAt(sessions[s].closeLog) = s
    BY <1>0 DEF SessionInv, SessionsOf
  <2>5. \A c \in Closes : Block(c) \in Nat
    BY <1>0, LogTypes
  <2> QED BY <1>3, <2>3, <2>4, <2>5
<1> QED BY <1>2, <1>3

LEMMA FetchCollateral ==
    ASSUME ChainInv, StepInv, SessionInv, PendingInv, RowInv, NEW cms, NEW b, FetchStep(cms, b),
           NEW s \in DOMAIN sessions, sessions[s].collateral = Cardinality(RecordedIn(rows, s))
    PROVE  /\ Collateral(CheckTokenTransfer(cms, {b}), s) = Cardinality(RecordedIn(rows', s))
           /\ sessions'[s].collateral = Cardinality(RecordedIn(rows', s))
           /\ sessions'[s].closeLog = sessions[s].closeLog
           /\ sessions'[s].balancesAt = IF s \in Fetched(CheckTokenTransfer(cms, {b}), cms, b)
                                        THEN FetchBlock(cms, s, b) ELSE sessions[s].balancesAt
<1> DEFINE taken == CheckTokenTransfer(cms, {b})
<1>1. sessions' = [r \in DOMAIN sessions |->
                     [sessions[r] EXCEPT !.collateral = Collateral(taken, r),
                                         !.balancesAt = IF r \in Fetched(taken, cms, b)
                                                        THEN FetchBlock(cms, r, b) ELSE @]]
  <2>1. FetchFromDCForChangedSessions(taken, cms, b)
    BY FetchStepFacts
  <2> HIDE DEF taken
  <2> QED BY <2>1 DEF FetchFromDCForChangedSessions
<1>2. sessions[s] \in SessionRecord
  BY DEF SessionInv, SessionsOf
<1>3. RecordedIn(rows', s) = RecordedIn(rows, s) \cup CountedFor(taken, s)
      /\ RecordedIn(rows, s) \cap CountedFor(taken, s) = {}
  BY RecordedMore
<1> HIDE DEF taken
<1>4. \A l \in RecordedIn(rows, s) : l \in DOMAIN logs
  <2> TAKE l \in RecordedIn(rows, s)
  <2>1. PICK r \in rows : l \in r.logs
    BY DEF RecordedIn
  <2> QED BY <2>1, RowLogBounds
<1>5. IsFiniteSet(RecordedIn(rows, s)) /\ Cardinality(RecordedIn(rows, s)) \in Nat
  BY <1>4, FiniteLogs
<1>6. IsFiniteSet(CountedFor(taken, s)) /\ Cardinality(CountedFor(taken, s)) \in Nat
  BY CountedNumber
<1>7. Cardinality({}) = 0
  BY FS_EmptySet
<1>8. Cardinality(RecordedIn(rows', s)) = Cardinality(RecordedIn(rows, s)) + Cardinality(CountedFor(taken, s)) - 0
  <2>1. PICK A, N : A = RecordedIn(rows, s) /\ N = CountedFor(taken, s)
    OBVIOUS
  <2>2. Cardinality(A \cup N) = Cardinality(A) + Cardinality(N) - Cardinality(A \cap N)
    BY <2>1, <1>5, <1>6, FS_Union
  <2>3. RecordedIn(rows', s) = A \cup N /\ Cardinality(A \cap N) = 0
    BY <2>1, <1>3, <1>7
  <2> QED BY <2>1, <2>2, <2>3
<1>9. Collateral(taken, s) = Cardinality(RecordedIn(rows', s))
  BY <1>5, <1>6, <1>8 DEF Collateral
<1>10. /\ sessions'[s].collateral = Collateral(taken, s) /\ sessions'[s].closeLog = sessions[s].closeLog
       /\ sessions'[s].balancesAt = IF s \in Fetched(taken, cms, b) THEN FetchBlock(cms, s, b) ELSE sessions[s].balancesAt
  BY <1>1, <1>2 DEF SessionRecord
<1> QED BY <1>9, <1>10 DEF taken

LEMMA FetchedSessionKept ==
    ASSUME Inv, TakenInv, PlaceInv, MarkInv, NEW cms, NEW b, FetchStep(cms, b), ~stopped',
           NEW s \in Fetched(CheckTokenTransfer(cms, {b}), cms, b), OnTime(s),
           KeptFor(logs, sessions, rows, snapshots, s)
    PROVE  KeptFor(logs, sessions', rows', snapshots', s)
<1> DEFINE taken == CheckTokenTransfer(cms, {b})
           n == FetchBlock(cms, s, b)
           N == CountedFor(taken, s)
<1>0. ChainInv /\ SessionInv /\ StepInv /\ FetchInv /\ DetailInv /\ PendingInv /\ RowInv /\ SnapshotInv
  BY DEF Inv, RoundInv
<1>1. /\ s \in DOMAIN sessions /\ n \in Nat
      /\ s \in Closed(cms) => n = b - 1
      /\ s \notin Closed(cms) => n = b
  BY <1>0, FetchedPlace
<1>2. b \in Nat /\ FetchFromDCForChangedSessions(taken, cms, b)
  BY <1>0, FetchStepFacts
<1>3. /\ RecordedIn(rows', s) = RecordedIn(rows, s) \cup N
      /\ \A l \in N : Block(l) = b
  BY <1>0, RecordedMore
<1>4. /\ Collateral(taken, s) = Cardinality(RecordedIn(rows', s))
      /\ sessions'[s].collateral = Cardinality(RecordedIn(rows', s))
      /\ sessions'[s].closeLog = sessions[s].closeLog /\ sessions'[s].balancesAt = n
  BY <1>0, <1>1, FetchCollateral DEF KeptFor
<1>5. \A m \in Marks : m \in Nat /\ m <= b /\ (s \in Closed(cms) => m < b)
  BY FetchedOrder
<1>6. \/ n = b /\ (sessions[s].closeLog = None
                     \/ (logs[sessions[s].closeLog].block \in Nat /\ logs[sessions[s].closeLog].block > b))
      \/ n = b - 1 /\ sessions[s].closeLog # None /\ logs[sessions[s].closeLog].block = b
  BY <1>1, FetchedClose DEF Block
<1>7. s \in Fetched(taken, cms, b)
  OBVIOUS
<1> HIDE DEF taken, n, N
<1>8. \A x \in snapshots : x.ses = s => x.block \in Nat /\ x.block <= n
  <2> TAKE x \in snapshots
  <2>1. x.block \in Nat /\ x.block <= b /\ (s \in Closed(cms) => x.block < b)
    BY <1>5, MarkMember
  <2> QED BY <2>1, <1>1, <1>2
<1>9. \A l \in RecordedIn(rows', s) : logs[l].block \in Nat /\ logs[l].block <= b
  <2>1. \A l \in RecordedIn(rows, s) : Block(l) \in Marks
    BY <1>0, KeptTypes
  <2>2. \A l \in RecordedIn(rows', s) : Block(l) \in Nat /\ Block(l) <= b
    BY <2>1, <1>2, <1>3, <1>5
  <2> QED BY <2>2 DEF Block
<1>10. \A l \in N : logs[l].block = b
  BY <1>3 DEF Block
<1>11. PICK z : z = [ses |-> s, block |-> n, collateral |-> Cardinality(RecordedIn(rows', s))]
  OBVIOUS
<1>12. z.ses = s /\ z.block = n /\ z.collateral = Cardinality(RecordedIn(rows', s))
  BY <1>11
<1>13. z \in snapshots'
  BY <1>2, <1>4, <1>7, <1>11, FetchedSnapshots DEF n
<1>14. ASSUME NEW x \in snapshots', x.ses = s
       PROVE  x = z \/ (x \in snapshots /\ x.block # n)
  <2>1. CASE x \in snapshots /\ (x.ses \in Fetched(taken, cms, b) => x.block # FetchBlock(cms, x.ses, b))
    BY <2>1, <1>7, <1>14 DEF n
  <2>2. CASE \E r \in Fetched(taken, cms, b) :
               x = [ses |-> r, block |-> FetchBlock(cms, r, b), collateral |-> Collateral(taken, r)]
    BY <2>2, <1>4, <1>11, <1>14 DEF n
  <2> QED BY <2>1, <2>2, <1>2, FetchedSnapshots
<1>15. n \in Nat /\ b \in Nat
  BY <1>1, <1>2
<1>16. SessionFetched(logs, sessions, sessions', rows, rows', snapshots, snapshots', s, N, n, b, z)
  BY <1>3, <1>4, <1>6, <1>8, <1>9, <1>10, <1>12, <1>13, <1>14, <1>15 DEF SessionFetched
<1> QED BY <1>16, FetchedKept

LEMMA OtherSessionKept ==
    ASSUME Inv, PlaceInv, MarkInv, NEW cms, NEW b, FetchStep(cms, b), NEW s \in DOMAIN sessions,
           s \notin Fetched(CheckTokenTransfer(cms, {b}), cms, b),
           KeptFor(logs, sessions, rows, snapshots, s)
    PROVE  KeptFor(logs, sessions', rows', snapshots', s)
<1> DEFINE taken == CheckTokenTransfer(cms, {b})
           N == CountedFor(taken, s)
<1>0. ChainInv /\ SessionInv /\ StepInv /\ FetchInv /\ DetailInv /\ PendingInv /\ RowInv /\ SnapshotInv
  BY DEF Inv, RoundInv
<1>1. b \in Nat /\ FetchFromDCForChangedSessions(taken, cms, b) /\ Fetching(cms, b) /\ cms \subseteq Managers
  BY <1>0, FetchStepFacts
<1>2. RecordedIn(rows', s) = RecordedIn(rows, s) \cup N
  BY <1>0, RecordedMore
<1>3. /\ sessions'[s].collateral = Cardinality(RecordedIn(rows', s))
      /\ sessions'[s].closeLog = sessions[s].closeLog /\ sessions'[s].balancesAt = sessions[s].balancesAt
  BY <1>0, FetchCollateral DEF KeptFor
<1>4. s \notin Fetched(taken, cms, b)
  OBVIOUS
<1>5. N = {} \/ \A x \in snapshots : x.ses # s
  <2>1. SUFFICES ASSUME NEW l \in N, NEW x \in snapshots, x.ses = s
                 PROVE  FALSE
    OBVIOUS
  <2>2. [log |-> l, ses |-> s] \in Counted(taken)
    BY DEF CountedFor
  <2>3. s \in Closed(cms)
    BY <2>2, <1>4, UpdatedMember DEF Fetched
  <2>4. Block(s) = b
    BY <2>3, <1>4 DEF Fetched
  <2>5. PICK cm \in Managers : s \in closed[cm]
    BY <2>3, <1>1, ClosedMember
  <2>6. step = "block" /\ b = Block(at)
    <3>1. step # "before"
      BY <2>5, <1>0 DEF FetchInv, InBlock
    <3> QED BY <3>1 DEF FetchStep, FetchingBlock, FetchingBefore
  <2>7. x.block \in Marks
    BY <2>1, MarkMember
  <2>8. x.block \in Nat /\ x.block < b
    BY <2>6, <2>7 DEF MarkInv
  <2>9. Block(s) <= x.block
    BY <2>1 DEF PlaceInv
  <2> QED BY <2>4, <2>8, <2>9, <1>1
<1> HIDE DEF taken, N
<1>6. ASSUME NEW x, x.ses = s
      PROVE  x \in snapshots' <=> x \in snapshots
  <2>1. ~\E r \in Fetched(taken, cms, b) :
           x = [ses |-> r, block |-> FetchBlock(cms, r, b), collateral |-> Collateral(taken, r)]
    BY <1>4, <1>6
  <2> QED BY <2>1, <1>1, <1>4, <1>6, FetchedSnapshots
<1> QED BY <1>2, <1>3, <1>5, <1>6, NotFetchedKept

LEMMA FetchKept ==
    ASSUME Inv, ChainInv', AccountedInv, PlaceInv, MarkInv, KeptInv, NEW cms, NEW b, FetchStep(cms, b)
    PROVE  KeptInv'
<1>0. ChainInv /\ SessionInv /\ StepInv /\ RowInv /\ SnapshotInv /\ PendingInv /\ TakenInv
  BY DEF Inv, RoundInv, AccountedInv
<1>1. /\ logs' = logs /\ head' = head /\ lastSync' = lastSync /\ saved' = saved /\ early' = early
      /\ till' = till /\ at' = at /\ at # 0 /\ ~stopped /\ b \in Nat /\ (Closed(cms) # {} => b # 0)
      /\ FetchFromDCForChangedSessions(CheckTokenTransfer(cms, {b}), cms, b)
  BY <1>0, FetchStepFacts
<1>2. Extended /\ DOMAIN sessions' = DOMAIN sessions
  BY <1>0, <1>1, SameLogsExtend, FetchSessions
<1>3. ASSUME ~stopped', NEW s \in DOMAIN sessions', OnTime(s)'
      PROVE  KeptFor(logs', sessions', rows', snapshots', s)
  <2>1. OnTime(s)
    BY <1>0, <1>1, <1>2, <1>3, OnTimeBefore
  <2>2. KeptFor(logs, sessions, rows, snapshots, s)
    BY <2>1, <1>1, <1>2, <1>3 DEF KeptInv
  <2>3. KeptFor(logs, sessions', rows', snapshots', s)
    BY <2>1, <2>2, <1>0, <1>2, <1>3, FetchedSessionKept, OtherSessionKept
  <2> QED BY <2>3, <1>1
<1>4. ASSUME NEW s \in DOMAIN saved'.sessions, NoneEarly(s)'
      PROVE  KeptFor(logs', saved'.sessions, saved'.rows, saved'.snapshots, s)
  BY <1>0, <1>1, <1>2, <1>4, SavedSessionsKept
<1> QED BY <1>3, <1>4 DEF KeptInv

LEMMA KeptStep ==
    ASSUME Inv, Inv', AccountedInv, PlaceInv, MarkInv, KeptInv, [Next]_vars
    PROVE  KeptInv'
<1>0. ChainInv /\ SessionInv /\ StepInv /\ FetchInv /\ PendingInv /\ ChainInv'
  BY DEF Inv, RoundInv
<1>1. CASE OnBlockChange \/ UpdateSessionWithDirectTokenTransferBefore
  <2>1. PICK cms \in SUBSET Managers, b \in Nat : FetchStep(cms, b)
    BY <1>0, <1>1, FetchKinds
  <2> QED BY <2>1, <1>0, FetchKept
<1>2. CASE \E l \in DOMAIN logs : OnEvent(l)
  BY <1>0, <1>2, EventKept
<1>3. CASE Chain \/ Query \/ EndBlock \/ UNCHANGED vars
  BY <1>0, <1>3, IdleKept
<1>4. CASE AfterSync
  BY <1>4, AfterSyncKept
<1>5. CASE Restart
  BY <1>0, <1>5, RestartKept
<1> QED BY <1>1, <1>2, <1>3, <1>4, <1>5 DEF Next, OnLogs, OnEvent

LEMMA InitKept ==
    ASSUME Init
    PROVE  PlaceInv /\ MarkInv /\ KeptInv
<1>1. /\ snapshots = {} /\ rows = {} /\ early = {} /\ DOMAIN sessions = {} /\ DOMAIN saved.sessions = {}
      /\ saved.snapshots = {}
  BY DEF Init
<1>2. Marks = {}
  BY <1>1 DEF Marks
<1> QED BY <1>1, <1>2 DEF PlaceInv, MarkInv, KeptInv

(***************************************************************************)
(* No snapshot and no recorded transfer is ahead of an event that is not   *)
(* handled, and of a session without an early transfer the collateral, the *)
(* balances and the snapshots belong together, in the process and in the   *)
(* database (updateSession, closeSession, AddCreditSessionSnapshot).       *)
(***************************************************************************)
THEOREM KeptInvariance == Spec => [](PlaceInv /\ MarkInv /\ KeptInv)
<1>1. Init => PlaceInv /\ MarkInv /\ KeptInv
  BY InitKept
<1>2. Inv /\ Inv' /\ AccountedInv /\ PlaceInv /\ MarkInv /\ KeptInv /\ [Next]_vars => PlaceInv' /\ MarkInv' /\ KeptInv'
  BY PlaceMarkStep, KeptStep
<1> QED BY <1>1, <1>2, Invariance, AccountedInvariance, PTL DEF Spec

\* The snapshots of a saved block.
LEMMA SavedSnapshot ==
    ASSUME Inv, PlaceInv, KeptInv, BlockSaved, NEW x \in snapshots, NoneEarly(x.ses)
    PROVE  SnapshotKept(logs, sessions, rows, snapshots, x.ses, x)
<1>1. at = 0 /\ ~stopped
  BY DEF Inv, RoundInv, StepInv, BlockSaved
<1>2. PICK s : s = x.ses
  OBVIOUS
<1>3. OnTime(s) /\ s \in DOMAIN sessions
  BY <1>1, <1>2 DEF OnTime, PlaceInv
<1>4. KeptFor(logs, sessions, rows, snapshots, s)
  BY <1>1, <1>3 DEF KeptInv
<1> QED BY <1>2, <1>4 DEF KeptFor

(***************************************************************************)
(* Whatever the order in which the blocks of a batch were fetched, a       *)
(* session without an early transfer is left with the balances of the      *)
(* newest of its snapshots (updateSession, closeSession).                  *)
(***************************************************************************)
THEOREM NewestCorrect == Spec => []NewestBalances
<1>1. Inv /\ PlaceInv /\ KeptInv => NewestBalances
  BY SavedSnapshot DEF SnapshotKept, NewestBalances
<1> QED BY <1>1, Invariance, KeptInvariance, PTL

(***************************************************************************)
(* The collateral of a snapshot is the number of transfers recorded for    *)
(* its session up to its block, that of the snapshot of a close up to the  *)
(* block of the close, also after a restart that loads the collateral from *)
(* the newest snapshot (AddCollateralToSession, LoadCreditSessions).       *)
(***************************************************************************)
THEOREM CollateralCorrect == Spec => []CollateralMatchesRows
<1>1. ASSUME Inv, PlaceInv, KeptInv, BlockSaved, NEW x \in snapshots, NoneEarly(x.ses)
      PROVE  x.collateral = Cardinality({l \in Recorded(x.ses) : Block(l) <= SnapshotEnd(x)})
  <2>1. x.collateral = Cardinality(RecordedUpTo(logs, sessions, rows, x.ses, x.block))
    BY <1>1, SavedSnapshot DEF SnapshotKept
  <2>2. SnapshotEnd(x) = EndOf(logs, sessions[x.ses].closeLog, x.block)
    BY DEF SnapshotEnd, EndOf, Block
  <2>3. RecordedUpTo(logs, sessions, rows, x.ses, x.block) = {l \in Recorded(x.ses) : Block(l) <= SnapshotEnd(x)}
    BY <2>2 DEF RecordedUpTo, RecordedIn, Recorded, Block
  <2> QED BY <2>1, <2>3
<1>2. Inv /\ PlaceInv /\ KeptInv => CollateralMatchesRows
  BY <1>1 DEF CollateralMatchesRows
<1> QED BY <1>2, Invariance, KeptInvariance, PTL
=============================================================================
