----------------------- MODULE DirectTransfersAccounted -----------------------
(***************************************************************************)
(* Every direct transfer of a saved block is accounted for: the invariant  *)
(* EveryTransferAccounted of DirectTransfers, for every set of accounts    *)
(* and managers and every bound.                                           *)
(*                                                                         *)
(* Beside the invariant of DirectTransfersProofs the argument needs what   *)
(* is between a transfer and its row: while a round is in progress a       *)
(* transfer of the batch is pending or in a row (BatchInv), no transfer is *)
(* in two rows (RowsInv), and what was written since the last save is      *)
(* about the batch only (UnsavedInv), so that a restart forgets it.        *)
(***************************************************************************)
EXTENDS DirectTransfersProofs

InRow(l, R) == \E r \in R : l \in r.logs

\* The transfer need not be recorded, whatever its batch.
Excused(l) == SessionAt(l) = None \/ Reopened(l) \/ Ambiguous(l)

RowsInv ==
    /\ \A r, q \in rows : \A l \in r.logs \cap q.logs : r = q
    /\ \A r \in rows : \A l \in r.logs : ~Reopened(l) /\ ~Quiet(l)

UnsavedInv ==
    /\ saved.rows \subseteq rows /\ noSession = saved.noSession
    /\ \A r \in rows \ saved.rows : \A l \in r.logs : lastSync < Block(l)
    /\ at = 0 => rows = saved.rows

Settled(l) ==
    /\ InRow(l, saved.rows) \/ Excused(l) \/ Quiet(l)
    /\ l \in saved.noSession <=>
         \E k \in SavedLogs(Received) : Tx(k) = Tx(l) /\ ~InRow(k, saved.rows)

SavedInv ==
    /\ \A b \in quiet : b \in Nat /\ b <= lastSync
    /\ \A l \in saved.noSession : l \in DOMAIN logs /\ Block(l) <= lastSync
    /\ \A l \in SavedLogs(Received) : Settled(l)

BatchInv ==
    step # "idle" => \A l \in BatchLogs(Received) : Pending(l) \/ InRow(l, rows)

(***************************************************************************)
(* What the managers must have taken, as far as the details know the       *)
(* session of a transfer: all of the block of a processed event of its     *)
(* manager, all of the blocks before a later event than the first of the   *)
(* batch, and between two blocks of events all before the next one.        *)
(***************************************************************************)
HasDetail(l) ==
    \E i \in DOMAIN details[Acc(l)] :
        details[Acc(l)][i].ses = SessionAt(l) /\ IsDetailAt(Acc(l), i, Block(l))

PendingReceived == {l \in BatchLogs(Received) : Pending(l) /\ HasDetail(l)}

Processed == {e \in BatchLogs(Events) : e <= at /\ (InBlock => Block(e) < Block(at))}

InBlockTaken ==
    \A l \in PendingReceived, e \in Processed :
        Block(e) = Block(l) => Manager(e) # Manager(SessionAt(l))

BeforeTaken ==
    \A l \in PendingReceived, d, e \in BatchLogs(Events) :
        Block(d) < Block(e) /\ e <= at => Block(e) <= Block(l)

Swept ==
    step \in {"logs", "flush"} /\ at # 0 /\ NoMore(Block(at)) =>
        \A l \in PendingReceived : ~NoMore(Block(l))

TakenInv == InBlockTaken /\ BeforeTaken /\ Swept

AccountedInv == RowsInv /\ UnsavedInv /\ SavedInv /\ BatchInv /\ TakenInv

-----------------------------------------------------------------------------
(***************************************************************************)
(* What the details of an account know                                     *)
(***************************************************************************)

LEMMA HandledBefore ==
    ASSUME ChainInv, StepInv, NEW b, b \in Nat, b <= till, NoMore(b), NEW e \in LogsOf(Events), Block(e) <= b
    PROVE  e \in HandledLogs
<1>1. /\ e \in DOMAIN logs /\ e \in Nat /\ Block(e) \in Nat /\ lastSync \in Nat /\ till \in Nat /\ at \in Nat
  BY LogTypes DEF StepInv
<1>2. CASE Block(e) <= lastSync
  BY <1>1, <1>2 DEF HandledLogs, Handled
<1>3. CASE lastSync < Block(e)
  <2>1. e \in BatchLogs(Events)
    BY <1>1, <1>3 DEF BatchLogs
  <2>2. ~(e > at)
    BY <2>1, <1>1 DEF NoMore
  <2> QED BY <2>2, <1>1 DEF HandledLogs, Handled
<1> QED BY <1>1, <1>2, <1>3

LEMMA HandledOpen ==
    ASSUME ChainInv, StepInv, SessionInv, NEW b, b \in Nat, b <= till, NoMore(b), NEW o \in Opens, Block(o) <= b
    PROVE  o \in DOMAIN sessions
<1>1. o \in LogsOf(Events)
  BY LogTypes DEF Events
<1>2. o \in HandledLogs
  BY <1>1, HandledBefore
<1> QED BY <1>2 DEF SessionInv, SessionsOf

LEMMA HandledClose ==
    ASSUME SessionInv, NEW s \in DOMAIN sessions, NEW c \in Closes, c \in HandledLogs, SessionAt(c) = s
    PROVE  sessions[s].closeLog = c
<1>1. SessionsOf(sessions, HandledLogs)
  BY DEF SessionInv
<1>2. DOMAIN sessions = Opens \cap HandledLogs
  BY <1>1 DEF SessionsOf
<1> QED BY <1>1, <1>2 DEF SessionsOf

\* A session that was opened after the one that is considered for a block is
\* missing since a restart.
LEMMA LaterOpen ==
    ASSUME ChainInv, StepInv, SessionInv, DetailInv, NEW acc \in Accounts, NEW i \in DOMAIN details[acc],
           NEW b \in Nat, b <= till, NoMore(b), IsDetailAt(acc, i, b),
           NEW o \in Opens, Acc(o) = acc, details[acc][i].ses < o, Block(o) <= b
    PROVE  restarts > 0 /\ Block(o) = Block(details[acc][i].ses) /\ Block(o) <= lastSync
<1>1. PICK D : D = details[acc]
  OBVIOUS
<1>2. DetailsThen(acc, D)
  BY <1>1, DetailFacts
<1>3. PICK s : s = D[i].ses
  OBVIOUS
<1>4. /\ Len(D) \in Nat /\ DOMAIN D = 1..Len(D) /\ i \in DOMAIN D
      /\ s \in Opens
      /\ \A j \in DOMAIN D : j < i => D[j].ses < s
      /\ \A j \in DOMAIN D : D[j].ses \in Opens
  BY <1>1, <1>2, <1>3 DEF DetailsThen
<1>5. /\ s \in Nat /\ s \in DOMAIN logs /\ Block(s) \in Nat /\ o \in Nat /\ o \in DOMAIN logs /\ Block(o) \in Nat
      /\ \A j \in DOMAIN D : D[j].ses \in Nat /\ D[j].ses \in DOMAIN logs /\ Block(D[j].ses) \in Nat
      /\ lastSync \in Nat
  BY <1>4, LogTypes DEF StepInv
<1>6. o \in DOMAIN sessions
  BY HandledOpen
<1>7. \A j \in DOMAIN D : D[j].ses # o
  <2> SUFFICES ASSUME NEW j \in DOMAIN D, D[j].ses = o
               PROVE  FALSE
    OBVIOUS
  <2>1. j > i
    <3>1. i \in Nat /\ j \in Nat
      BY <1>4
    <3>2. ~(j < i) /\ j # i
      BY <1>1, <1>3, <1>4, <1>5
    <3> QED BY <3>1, <3>2
  <2>2. Block(D[j].ses) > b
    BY <2>1, <1>1 DEF IsDetailAt
  <2> QED BY <2>2, <1>5
<1>8. /\ restarts > 0 /\ 1 \in DOMAIN D
      /\ Block(o) <= Block(D[1].ses) /\ Block(D[1].ses) <= lastSync
  BY <1>1, <1>6, <1>7 DEF DetailInv, DetailsComplete
<1>9. Block(D[1].ses) <= Block(s)
  <2>1. CASE i = 1
    BY <2>1, <1>3, <1>4, <1>5
  <2>2. CASE i # 1
    <3>1. 1 < i
      BY <2>2, <1>4
    <3>2. D[1].ses < s
      BY <3>1, <1>4, <1>8
    <3> QED BY <3>2, <1>5, <1>8 DEF ChainInv, OrderInv
  <2> QED BY <2>1, <2>2
<1>10. Block(s) <= Block(o)
  BY <1>1, <1>3, <1>5 DEF ChainInv, OrderInv
<1> QED BY <1>1, <1>3, <1>5, <1>8, <1>9, <1>10

LEMMA GreatestLog ==
    ASSUME ChainInv, NEW STATE T, T \subseteq DOMAIN logs, T # {}
    PROVE  \E x \in T : \A y \in T : y <= x
<1>1. Len(logs) \in Nat /\ DOMAIN logs = 1..Len(logs)
  BY LogTypes
<1>2. PICK n \in Nat : n = Len(logs)
  BY <1>1
<1> DEFINE U == {n - x : x \in T}
<1>3. U \in SUBSET Nat /\ U # {}
  BY <1>1, <1>2
<1>4. PICK u \in U : \A y \in U : u <= y
  BY <1>3, LeastExists
<1>5. PICK x \in T : u = n - x
  BY <1>4
<1>6. ASSUME NEW y \in T
      PROVE  y <= x
  <2>1. n - y \in U
    OBVIOUS
  <2>2. u <= n - y
    BY <2>1, <1>4
  <2> QED BY <2>2, <1>1, <1>2, <1>5
<1> QED BY <1>6

LEMMA LaterOpenAmbiguous ==
    ASSUME ChainInv, StepInv, SessionInv, DetailInv, NEW acc \in Accounts, NEW i \in DOMAIN details[acc],
           NEW l \in DOMAIN logs, Acc(l) = acc, lastSync < Block(l), Block(l) <= till,
           NoMore(Block(l)), IsDetailAt(acc, i, Block(l)),
           NEW o \in Opens, Acc(o) = acc, details[acc][i].ses < o, Block(o) <= Block(l)
    PROVE  Ambiguous(l)
<1>0. PICK b, s : b = Block(l) /\ b \in Nat /\ s = details[acc][i].ses
  BY LogTypes
<1>1. \A k \in Opens : Acc(k) = acc /\ s < k /\ Block(k) <= b =>
        restarts > 0 /\ Block(k) = Block(s) /\ Block(k) <= lastSync
  BY <1>0, LaterOpen
<1>2. s \in Opens /\ Acc(s) = acc
  BY <1>0, DetailLogs
<1> DEFINE T == {k \in Opens : Acc(k) = acc /\ Block(k) = Block(s)}
<1>3. T \subseteq DOMAIN logs /\ T # {}
  BY <1>2, LogTypes
<1>4. PICK k \in T : \A x \in T : x <= k
  BY <1>3, GreatestLog
<1>5. restarts > 0 /\ Block(o) = Block(s) /\ Block(o) <= lastSync
  BY <1>0, <1>1
<1>6. o \in T
  BY <1>5
<1>7. /\ s \in Nat /\ o \in Nat /\ k \in Nat /\ Block(k) \in Nat /\ lastSync \in Nat
      /\ \A x \in Opens : x \in Nat /\ Block(x) \in Nat
  BY <1>2, LogTypes DEF StepInv
<1>8. s < k
  BY <1>0, <1>4, <1>6, <1>7
<1>9. Block(s) = Block(k) /\ Block(k) < b
  BY <1>0, <1>5, <1>7
<1>10. ASSUME NEW x \in Opens, Acc(x) = acc, x > k
       PROVE  Block(x) > b
  <2>0. x \in Nat
    BY <1>7
  <2>1. s < x
    <3>1. s \in Nat /\ k \in Nat
      BY <1>7
    <3> QED BY <3>1, <2>0, <1>8, <1>10
  <2>2. ASSUME Block(x) <= b
        PROVE  FALSE
    <3>1. x \in T
      BY <2>1, <2>2, <1>1, <1>10
    <3> QED BY <3>1, <1>4, <1>7, <1>10
  <2> QED BY <2>2, <1>0, <1>7, <1>10
<1> QED BY <1>0, <1>2, <1>4, <1>5, <1>8, <1>9, <1>10 DEF Ambiguous, Opens

DirectLog(l) == l \in BatchLogs(Direct) /\ NoMore(Block(l))

LEMMA DirectLogFacts ==
    ASSUME ChainInv, StepInv, NEW l, DirectLog(l)
    PROVE  /\ l \in DOMAIN logs /\ l \in Nat /\ Kind(l) \in Direct /\ Acc(l) \in Accounts
           /\ Block(l) \in Nat /\ lastSync < Block(l) /\ Block(l) <= till /\ NoMore(Block(l))
           /\ lastSync \in Nat /\ till \in Nat
BY LogTypes DEF DirectLog, BatchLogs, LogsOf, StepInv

\* The parts of BelongsTo.
LEMMA BelongsParts ==
    ASSUME ChainInv, StepInv, SessionInv, DetailInv, NEW l, DirectLog(l), NEW s, BelongsTo(l, s)
    PROVE  \E i \in DOMAIN details[Acc(l)] :
             /\ details[Acc(l)][i].ses = s /\ IsDetailAt(Acc(l), i, Block(l))
             /\ s \in Opens /\ s \in DOMAIN sessions /\ Acc(s) = Acc(l) /\ s < l /\ Block(s) <= Block(l)
             /\ sessions[s].closeLog # None => details[Acc(l)][i].closeLog # None
             /\ details[Acc(l)][i].closeLog # None =>
                  /\ details[Acc(l)][i].closeLog \in Closes /\ l < details[Acc(l)][i].closeLog
                  /\ SessionAt(details[Acc(l)][i].closeLog) \in Opens
                  /\ Acc(SessionAt(details[Acc(l)][i].closeLog)) = Acc(l)
                  /\ Block(SessionAt(details[Acc(l)][i].closeLog)) = Block(s)
                  /\ s <= SessionAt(details[Acc(l)][i].closeLog)
<1>0. /\ l \in DOMAIN logs /\ Kind(l) \in Direct
  BY DirectLogFacts
<1>1. PICK acc \in Accounts : acc = Acc(l)
  BY DirectLogFacts
<1>2. PICK i \in DOMAIN details[acc] :
        LET d == details[acc][i]
        IN  /\ d.ses = s /\ IsDetailAt(acc, i, Block(l))
            /\ d.closeLog = None \/ Block(d.closeLog) >= Block(l)
            /\ ~BeforeOpen(d, l) /\ ~AfterClose(d, l)
  BY <1>1 DEF BelongsTo
<1>3. PICK d : d = details[acc][i]
  OBVIOUS
<1>4. PICK D : D = details[acc]
  OBVIOUS
<1>5. DetailsThen(acc, D)
  BY <1>4, DetailFacts
<1>6. /\ d.ses = s /\ s \in DOMAIN sessions /\ s \in Opens /\ Acc(s) = acc
      /\ sessions[s].closeLog # None => d.closeLog # None
      /\ d.closeLog # None =>
           /\ d.closeLog \in Closes /\ Acc(d.closeLog) = acc
           /\ Block(SessionAt(d.closeLog)) = Block(s) /\ s <= SessionAt(d.closeLog)
  BY <1>2, <1>3, <1>4, <1>5 DEF DetailsThen
<1>7. Block(s) <= Block(l) /\ ~BeforeOpen(d, l) /\ ~AfterClose(d, l)
  BY <1>2, <1>3 DEF IsDetailAt
<1>8. s < l
  BY <1>0, <1>6, <1>7, AfterTheOpen
<1>9. ASSUME d.closeLog # None
      PROVE  /\ l < d.closeLog /\ SessionAt(d.closeLog) \in Opens /\ Acc(SessionAt(d.closeLog)) = acc
  <2>1. d.closeLog \in Closes /\ Acc(d.closeLog) = acc
    BY <1>6, <1>9
  <2>2. Block(l) <= Block(d.closeLog)
    BY <2>1, <1>0, <1>2, <1>3, <1>9, LogTypes
  <2>3. l < d.closeLog
    BY <2>1, <2>2, <1>0, <1>7, BeforeTheClose
  <2>4. PICK k : k = d.closeLog
    OBVIOUS
  <2>5. k \in LogsOf(Events) /\ k \in DOMAIN logs /\ Acc(k) = acc
    BY <2>1, <2>4, LogTypes DEF Events
  <2>6. SessionAt(k) \in Opens /\ Acc(SessionAt(k)) = acc
    BY <2>5 DEF ChainInv, HoldInv
  <2> QED BY <2>3, <2>4, <2>6
<1> QED BY <1>1, <1>2, <1>3, <1>6, <1>7, <1>8, <1>9

\* A transfer belongs to the session that held the account, unless a restart
\* may have loaded another one.
LEMMA BelongsInSession ==
    ASSUME ChainInv, StepInv, SessionInv, DetailInv, NEW l, DirectLog(l), NEW s, BelongsTo(l, s), ~Ambiguous(l)
    PROVE  SessionAt(l) = s
<1>0. PICK acc \in Accounts : acc = Acc(l)
  BY DirectLogFacts
<1>1. /\ l \in DOMAIN logs /\ l \in Nat /\ Block(l) \in Nat /\ lastSync < Block(l) /\ Block(l) <= till
      /\ NoMore(Block(l)) /\ lastSync \in Nat /\ Kind(l) \in Direct
  BY DirectLogFacts
<1>2. PICK i \in DOMAIN details[acc] :
             /\ details[acc][i].ses = s /\ IsDetailAt(acc, i, Block(l))
             /\ s \in Opens /\ s \in DOMAIN sessions /\ Acc(s) = acc /\ s < l /\ Block(s) <= Block(l)
             /\ sessions[s].closeLog # None => details[acc][i].closeLog # None
             /\ details[acc][i].closeLog # None =>
                  /\ details[acc][i].closeLog \in Closes /\ l < details[acc][i].closeLog
                  /\ SessionAt(details[acc][i].closeLog) \in Opens
                  /\ Acc(SessionAt(details[acc][i].closeLog)) = acc
                  /\ Block(SessionAt(details[acc][i].closeLog)) = Block(s)
                  /\ s <= SessionAt(details[acc][i].closeLog)
  BY <1>0, BelongsParts
<1>3. PICK k : k = details[acc][i].closeLog
  OBVIOUS
<1>4. ASSUME k # None
      PROVE  SessionAt(k) = s
  <2>1. PICK z : z = SessionAt(k)
    OBVIOUS
  <2>2. z \in Opens /\ Acc(z) = acc /\ Block(z) = Block(s) /\ s <= z
    BY <2>1, <1>2, <1>3, <1>4
  <2>3. s \in Nat /\ z \in Nat
    BY <2>2, <1>2, LogTypes
  <2>4. ~(s < z)
    BY <2>2, <1>0, <1>1, <1>2, LaterOpenAmbiguous
  <2> QED BY <2>1, <2>2, <2>3, <2>4
<1>5. ASSUME NEW c \in Closes, SessionAt(c) = s, ~(l < c)
      PROVE  FALSE
  <2>1. c \in Nat /\ c \in DOMAIN logs /\ c \in LogsOf(Events) /\ c # l /\ Kind(c) = "close"
    BY <1>1, LogTypes DEF Events, Direct, Received
  <2>2. Block(c) <= Block(l)
    BY <2>1, <1>1, <1>5 DEF ChainInv, OrderInv
  <2>3. c \in HandledLogs
    BY <2>1, <2>2, <1>1, HandledBefore
  <2>4. sessions[s].closeLog = c
    BY <2>3, <1>2, <1>5, HandledClose
  <2>5. k # None
    BY <2>1, <2>4, <1>2, <1>3, LogTypes DEF None
  <2>6. k = c
    BY <2>5, <1>2, <1>3, <1>4, <1>5, OneClose
  <2> QED BY <2>5, <2>6, <1>2, <1>3, <1>5
<1> QED BY <1>0, <1>1, <1>2, <1>5, InSession

LEMMA BelongsNotReopened ==
    ASSUME ChainInv, StepInv, SessionInv, DetailInv, NEW l, DirectLog(l), NEW s, BelongsTo(l, s)
    PROVE  ~Reopened(l)
<1>0. PICK acc \in Accounts : acc = Acc(l)
  BY DirectLogFacts
<1>1. /\ l \in DOMAIN logs /\ l \in Nat /\ Block(l) \in Nat /\ lastSync < Block(l) /\ Block(l) <= till
      /\ NoMore(Block(l)) /\ lastSync \in Nat
  BY DirectLogFacts
<1>2. PICK i \in DOMAIN details[acc] :
             /\ details[acc][i].ses = s /\ IsDetailAt(acc, i, Block(l)) /\ s \in Opens /\ s < l
  BY <1>0, BelongsParts
<1>3. ASSUME NEW k \in Opens, k > l, Block(k) = Block(l), Acc(k) = acc
      PROVE  FALSE
  <2>1. k \in Nat /\ s \in Nat
    BY <1>2, LogTypes
  <2>2. s < k /\ Block(k) <= Block(l)
    BY <2>1, <1>1, <1>2, <1>3
  <2>3. Block(k) <= lastSync
    BY <2>2, <1>0, <1>1, <1>2, <1>3, LaterOpen
  <2> QED BY <2>3, <1>1, <1>3
<1> QED BY <1>0, <1>3 DEF Reopened, Opens

LEMMA BelongsHasDetail ==
    ASSUME NEW l, BelongsTo(l, SessionAt(l))
    PROVE  HasDetail(l)
BY DEF BelongsTo, HasDetail

LEMMA HasDetailBelongs ==
    ASSUME ChainInv, StepInv, SessionInv, DetailInv, NEW l, l \in BatchLogs(Direct), HasDetail(l)
    PROVE  /\ BelongsTo(l, SessionAt(l)) /\ SessionAt(l) \in DOMAIN sessions /\ SessionAt(l) # None
           /\ Manager(SessionAt(l)) \in Managers
<1>0. PICK acc \in Accounts : acc = Acc(l)
  BY LogTypes DEF BatchLogs
<1>1. l \in DOMAIN logs /\ l \in Nat /\ Block(l) \in Nat /\ Kind(l) \in Direct
  BY LogTypes DEF BatchLogs
<1>2. PICK s : s = SessionAt(l)
  OBVIOUS
<1>3. PICK i \in DOMAIN details[acc] : details[acc][i].ses = s /\ IsDetailAt(acc, i, Block(l))
  BY <1>0, <1>2 DEF HasDetail
<1>4. PICK D, d : D = details[acc] /\ d = D[i]
  OBVIOUS
<1>5. DetailsThen(acc, D)
  BY <1>4, DetailFacts
<1>6. /\ d.ses = s /\ s \in DOMAIN sessions /\ s \in Opens
      /\ d.closeLog # None =>
           /\ d.closeLog \in Closes /\ Acc(d.closeLog) = acc /\ s <= SessionAt(d.closeLog)
  BY <1>3, <1>4, <1>5 DEF DetailsThen
<1>7. s \in Nat /\ s # None /\ s \in DOMAIN logs /\ s \in LogsOf(Events)
  BY <1>6, LogTypes DEF None, Events
<1>8. s <= l
  BY <1>1, <1>2, <1>7 DEF ChainInv, HoldInv
<1>9. Manager(s) \in Managers
  BY <1>7 DEF ChainInv, TxInv
<1>10. ~BeforeOpen(d, l)
  BY <1>1, <1>6, <1>7, <1>8 DEF BeforeOpen
<1>11. ASSUME d.closeLog # None
       PROVE  Block(d.closeLog) >= Block(l) /\ ~AfterClose(d, l)
  <2>1. PICK k, z : k = d.closeLog /\ z = SessionAt(k)
    OBVIOUS
  <2>2. k \in Closes /\ k \in DOMAIN logs /\ k \in LogsOf(Events) /\ k \in Nat /\ Acc(k) = acc /\ s <= z
        /\ Kind(k) = "close" /\ Block(k) \in Nat
    BY <2>1, <1>6, <1>11, LogTypes DEF Events
  <2>3. z \in Opens /\ z <= k /\ Acc(z) = acc
    BY <2>1, <2>2 DEF ChainInv, HoldInv
  <2>4. z \in Nat /\ k # l
    BY <2>2, <2>3, <1>1, LogTypes DEF Direct, Received
  <2>5. l < k
    <3>1. CASE z = s
      <4>1. ~(k < l)
        BY <3>1, <2>1, <2>2, <1>1, <1>2 DEF ChainInv, HoldInv
      <4> QED BY <4>1, <2>2, <2>4, <1>1
    <3>2. CASE z # s
      <4>1. s < z
        BY <3>2, <2>2, <2>4, <1>7
      <4>2. z <= l => SessionAt(l) = None \/ z <= SessionAt(l)
        BY <2>3, <1>0, <1>1 DEF ChainInv, HoldInv
      <4>3. ~(z <= l)
        BY <4>1, <4>2, <2>4, <1>2, <1>7
      <4> QED BY <4>3, <2>2, <2>3, <2>4, <1>1
    <3> QED BY <3>1, <3>2
  <2>6. Block(l) <= Block(k)
    BY <2>2, <2>5, <1>1 DEF ChainInv, OrderInv
  <2> QED BY <2>1, <2>2, <2>5, <2>6, <1>1 DEF AfterClose
<1>12. ~AfterClose(d, l)
  BY <1>11 DEF AfterClose
<1>13. BelongsTo(l, s)
  <2>1. d.closeLog = None \/ Block(d.closeLog) >= Block(l)
    BY <1>11
  <2> QED BY <2>1, <1>0, <1>3, <1>4, <1>6, <1>10, <1>12 DEF BelongsTo
<1> QED BY <1>2, <1>6, <1>7, <1>9, <1>13

\* Where the details do not know the session of a transfer.
LEMMA NoDetailExcused ==
    ASSUME ChainInv, StepInv, SessionInv, DetailInv, NEW l, DirectLog(l), ~HasDetail(l)
    PROVE  Excused(l)
<1>0. PICK acc \in Accounts : acc = Acc(l)
  BY DirectLogFacts
<1>1. /\ l \in DOMAIN logs /\ l \in Nat /\ Block(l) \in Nat /\ lastSync < Block(l) /\ Block(l) <= till
      /\ NoMore(Block(l)) /\ lastSync \in Nat /\ Kind(l) \in Direct
  BY DirectLogFacts
<1> SUFFICES ASSUME SessionAt(l) # None, ~Reopened(l)
             PROVE  Ambiguous(l)
  BY DEF Excused
<1>2. PICK s : s = SessionAt(l)
  OBVIOUS
<1>3. s \in Opens /\ s <= l /\ Acc(s) = acc
  BY <1>0, <1>1, <1>2 DEF ChainInv, HoldInv
<1>4. s \in Nat /\ s \in DOMAIN logs /\ Block(s) \in Nat /\ s # l
  BY <1>1, <1>3, LogTypes DEF Direct, Received
<1>5. Block(s) <= Block(l)
  BY <1>1, <1>3, <1>4 DEF ChainInv, OrderInv
<1>6. s \in DOMAIN sessions
  BY <1>1, <1>3, <1>5, HandledOpen
<1>7. ASSUME NEW o \in Opens, Acc(o) = acc, o > s
      PROVE  Block(o) > Block(l)
  <2>1. o \in Nat /\ o \in DOMAIN logs /\ Block(o) \in Nat
    BY LogTypes
  <2>2. ~(o <= l)
    BY <2>1, <1>0, <1>1, <1>2, <1>4, <1>7 DEF ChainInv, HoldInv
  <2>3. Block(o) # Block(l)
    BY <2>1, <2>2, <1>0, <1>1, <1>7 DEF Reopened, Opens
  <2>4. Block(l) <= Block(o)
    BY <2>1, <2>2, <1>1 DEF ChainInv, OrderInv
  <2> QED BY <2>1, <2>3, <2>4, <1>1
<1>8. PICK D : D = details[acc]
  OBVIOUS
<1>9. DetailsThen(acc, D)
  BY <1>8, DetailFacts
<1>10. \A i \in DOMAIN D : D[i].ses # s
  <2> SUFFICES ASSUME NEW i \in DOMAIN D, D[i].ses = s
               PROVE  FALSE
    OBVIOUS
  <2>1. ASSUME NEW j \in DOMAIN D, j > i
        PROVE  Block(D[j].ses) > Block(l)
    <3>1. D[j].ses \in Opens /\ Acc(D[j].ses) = acc /\ i < j => s < D[j].ses
      BY <1>9 DEF DetailsThen
    <3>2. i \in Nat /\ j \in Nat
      BY <1>9 DEF DetailsThen
    <3>3. D[j].ses \in Opens /\ Acc(D[j].ses) = acc /\ s < D[j].ses
      BY <3>1, <3>2, <2>1, <1>9 DEF DetailsThen
    <3>4. D[j].ses > s
      BY <3>3, <1>4, LogTypes
    <3> QED BY <3>3, <3>4, <1>7
  <2>2. IsDetailAt(acc, i, Block(l))
    BY <2>1, <1>5, <1>8 DEF IsDetailAt
  <2> QED BY <2>2, <1>0, <1>2, <1>8 DEF HasDetail
<1>11. /\ restarts > 0 /\ 1 \in DOMAIN D
       /\ Block(s) <= Block(D[1].ses) /\ Block(D[1].ses) <= lastSync
       /\ D[1].ses \in Opens /\ Acc(D[1].ses) = acc
  BY <1>3, <1>6, <1>9, <1>10 DEF DetailsThen
<1>12. PICK j : j = D[1].ses
  OBVIOUS
<1>13. j \in Opens /\ Acc(j) = acc /\ j \in Nat /\ j \in DOMAIN logs /\ Block(j) \in Nat /\ j # s
  BY <1>10, <1>11, <1>12, LogTypes
<1>14. ~(j > s)
  BY <1>1, <1>7, <1>11, <1>12, <1>13
<1>15. j < s /\ Block(j) = Block(s) /\ Block(s) < Block(l)
  <2>1. j < s
    BY <1>4, <1>13, <1>14
  <2>2. Block(j) <= Block(s)
    BY <2>1, <1>4, <1>13 DEF ChainInv, OrderInv
  <2> QED BY <2>1, <2>2, <1>1, <1>4, <1>11, <1>12, <1>13
<1> QED BY <1>0, <1>3, <1>7, <1>11, <1>13, <1>15 DEF Ambiguous, Opens

-----------------------------------------------------------------------------
(***************************************************************************)
(* A growing chain                                                         *)
(***************************************************************************)

LEMMA ExtendedFacts ==
    ASSUME ChainInv, Extended
    PROVE  /\ \A l \in DOMAIN logs :
                /\ l \in DOMAIN logs' /\ Kind(l)' = Kind(l) /\ Acc(l)' = Acc(l) /\ Manager(l)' = Manager(l)
                /\ Block(l)' = Block(l) /\ Tx(l)' = Tx(l) /\ SessionAt(l)' = SessionAt(l)
           /\ \A kinds : \A l \in DOMAIN logs : l \in LogsOf(kinds)' <=> l \in LogsOf(kinds)
           /\ \A l \in DOMAIN logs' : l \in DOMAIN logs \/ Block(l)' > head
           /\ \A kinds : \A l \in LogsOf(kinds)' : l \in DOMAIN logs \/ Block(l)' > head
<1>1. \A l \in DOMAIN logs :
        /\ l \in DOMAIN logs' /\ Kind(l)' = Kind(l) /\ Acc(l)' = Acc(l) /\ Manager(l)' = Manager(l)
        /\ Block(l)' = Block(l) /\ Tx(l)' = Tx(l) /\ SessionAt(l)' = SessionAt(l)
  BY DEF Extended, Kind, Acc, Manager, Block, Tx, SessionAt
<1>2. \A kinds : \A l \in DOMAIN logs : l \in LogsOf(kinds)' <=> l \in LogsOf(kinds)
  BY <1>1 DEF LogsOf
<1>3. \A l \in DOMAIN logs' : l \in DOMAIN logs \/ Block(l)' > head
  BY DEF Extended, Block
<1>4. \A kinds : LogsOf(kinds)' \subseteq DOMAIN logs'
  BY DEF LogsOf
<1> QED BY <1>1, <1>2, <1>3, <1>4

LEMMA NextBlocks ==
    ASSUME ChainInv'
    PROVE  /\ \A l \in DOMAIN logs' : Block(l)' \in Nat
           /\ \A kinds : \A l \in LogsOf(kinds)' : l \in DOMAIN logs' /\ Block(l)' \in Nat
<1>1. logs' \in Seq(Log)
  BY DEF ChainInv, OrderInv
<1>2. \A l \in DOMAIN logs' : logs'[l] \in Log
  BY <1>1
<1>3. \A x \in Log : x.block \in Nat
  BY DEF Log
<1>4. \A l \in DOMAIN logs' : Block(l)' \in Nat
  BY <1>2, <1>3 DEF Block
<1> QED BY <1>4 DEF LogsOf

\* What excuses a transfer of a complete block stays.
LEMMA ExcusedStays ==
    ASSUME ChainInv, ChainInv', Extended, restarts \in Nat, restarts' \in Nat, restarts <= restarts',
           NEW l \in DOMAIN logs, Block(l) <= head
    PROVE  (Reopened(l)' <=> Reopened(l)) /\ (Excused(l) => Excused(l)')
<1>0. head \in Nat /\ Block(l) \in Nat
  BY LogTypes
<1>1. /\ \A k \in DOMAIN logs : /\ Acc(k)' = Acc(k) /\ Block(k)' = Block(k) /\ SessionAt(k)' = SessionAt(k)
                                /\ Block(k) \in Nat
                                /\ k \in LogsOf({"open"})' <=> k \in LogsOf({"open"})
      /\ \A k \in LogsOf({"open"})' : k \in DOMAIN logs \/ Block(k)' > head
      /\ LogsOf({"open"}) \subseteq DOMAIN logs
  BY ExtendedFacts, LogTypes
<1>2. Reopened(l)' <=> Reopened(l)
  BY <1>0, <1>1 DEF Reopened
<1>3. ASSUME Ambiguous(l)
      PROVE  Ambiguous(l)'
  <2>0. PICK acc, b : acc = Acc(l) /\ b = Block(l)
    OBVIOUS
  <2>1. restarts > 0 /\ restarts' > 0
    BY <1>3 DEF Ambiguous
  <2>2. PICK j, k \in LogsOf({"open"}) :
          /\ Acc(j) = acc /\ Acc(k) = acc
          /\ j < k /\ Block(j) = Block(k) /\ Block(k) < b
          /\ \A o \in LogsOf({"open"}) : Acc(o) = acc /\ o > k => Block(o) > b
    BY <1>3, <2>0 DEF Ambiguous
  <2>3. /\ j \in LogsOf({"open"})' /\ k \in LogsOf({"open"})'
        /\ Acc(j)' = acc /\ Acc(k)' = acc /\ Block(j)' = Block(k)' /\ Block(k)' < b
    BY <2>2, <1>1
  <2>4. ASSUME NEW o \in LogsOf({"open"})', Acc(o)' = acc, o > k
        PROVE  Block(o)' > b
    <3>1. CASE o \in DOMAIN logs
      BY <3>1, <2>2, <2>4, <1>1
    <3>2. CASE o \notin DOMAIN logs
      <4>1. Block(o)' > head
        BY <3>2, <1>1
      <4>3. Block(o)' \in Nat
        BY NextBlocks
      <4> QED BY <4>1, <4>3, <2>0, <1>0
    <3> QED BY <3>1, <3>2
  <2>5. Acc(l)' = acc /\ Block(l)' = b
    BY <2>0, <1>1
  <2> QED BY <2>1, <2>2, <2>3, <2>4, <2>5 DEF Ambiguous
<1> QED BY <1>1, <1>2, <1>3 DEF Excused

LEMMA HeadBounds ==
    ASSUME ChainInv, StepInv
    PROVE  /\ head \in Nat /\ lastSync \in Nat /\ till \in Nat /\ at \in Nat /\ restarts \in Nat
           /\ lastSync <= head /\ till <= head
<1>1. head \in Nat
  BY LogTypes
<1> QED BY <1>1 DEF StepInv

LEMMA SavedLogsSame ==
    ASSUME ChainInv, ChainInv', StepInv, Extended, lastSync' = lastSync
    PROVE  /\ SavedLogs(Received)' = SavedLogs(Received)
           /\ \A l \in SavedLogs(Received) : l \in DOMAIN logs /\ Block(l) <= head
<1>1. lastSync \in Nat /\ head \in Nat /\ lastSync <= head
  BY HeadBounds
<1>2. \A l \in DOMAIN logs : Block(l)' = Block(l) /\ Block(l) \in Nat
                             /\ (l \in LogsOf(Received)' <=> l \in LogsOf(Received))
  BY ExtendedFacts, LogTypes
<1>3. \A l \in LogsOf(Received)' : l \in DOMAIN logs \/ Block(l)' > head
  BY ExtendedFacts
<1>4. LogsOf(Received) \subseteq DOMAIN logs
  BY LogTypes
<1>5. ASSUME NEW l
      PROVE  l \in SavedLogs(Received)' <=> l \in SavedLogs(Received)
  <2>1. CASE l \in DOMAIN logs
    BY <2>1, <1>1, <1>2 DEF SavedLogs
  <2>2. CASE l \notin DOMAIN logs
    <3>1. l \notin SavedLogs(Received)
      BY <2>2, <1>4 DEF SavedLogs
    <3>2. l \in SavedLogs(Received)' => l \in LogsOf(Received)' /\ Block(l)' <= lastSync
      BY DEF SavedLogs
    <3>3. l \in LogsOf(Received)' => Block(l)' > head
      BY <2>2, <1>3
    <3>4. l \in LogsOf(Received)' => Block(l)' \in Nat
      BY NextBlocks
    <3> QED BY <3>1, <3>2, <3>3, <3>4, <1>1
  <2> QED BY <2>1, <2>2
<1>6. SavedLogs(Received)' = SavedLogs(Received)
  BY <1>5
<1> QED BY <1>1, <1>2, <1>4, <1>6 DEF SavedLogs

\* What is saved stays accounted for.
LEMMA SavedKept ==
    ASSUME ChainInv, ChainInv', StepInv, RowInv, SavedInv, Extended, lastSync' = lastSync, saved' = saved,
           quiet' = quiet, restarts' \in Nat, restarts <= restarts'
    PROVE  SavedInv'
<1>0. lastSync \in Nat /\ restarts \in Nat
  BY HeadBounds
<1>1. /\ SavedLogs(Received)' = SavedLogs(Received)
      /\ \A l \in SavedLogs(Received) : l \in DOMAIN logs /\ Block(l) <= head
  BY SavedLogsSame
<1>2. \A l \in DOMAIN logs : l \in DOMAIN logs' /\ Block(l)' = Block(l) /\ Tx(l)' = Tx(l)
  BY ExtendedFacts
<1>3. \A l \in SavedLogs(Received) : Excused(l) => Excused(l)'
  BY <1>0, <1>1, ExcusedStays
<1>4. \A l : InRow(l, saved.rows)' <=> InRow(l, saved.rows)
  BY DEF InRow
<1>5. ASSUME NEW l \in SavedLogs(Received)
      PROVE  Settled(l)'
  <2>1. Settled(l)
    BY DEF SavedInv
  <2>2. InRow(l, saved.rows)' \/ Excused(l)' \/ Quiet(l)'
    BY <2>1, <1>1, <1>2, <1>3, <1>4 DEF Settled, Quiet
  <2>3. \A k \in SavedLogs(Received) : Tx(k)' = Tx(k)
    BY <1>1, <1>2
  <2>4. l \in saved'.noSession <=>
          \E k \in SavedLogs(Received)' : Tx(k)' = Tx(l)' /\ ~InRow(k, saved.rows)'
    BY <2>1, <2>3, <1>1, <1>4 DEF Settled
  <2> QED BY <2>2, <2>4 DEF Settled
<1>6. \A l \in saved'.noSession : l \in DOMAIN logs' /\ Block(l)' <= lastSync'
  BY <1>2 DEF SavedInv
<1> QED BY <1>1, <1>5, <1>6 DEF SavedInv

LEMMA RowLogBounds ==
    ASSUME ChainInv, StepInv, RowInv, NEW r \in rows \cup saved.rows, NEW l \in r.logs
    PROVE  l \in DOMAIN logs /\ l \in LogsOf(Received) /\ Block(l) \in Nat /\ Block(l) <= head
<1>1. /\ head \in Nat /\ lastSync \in Nat /\ till \in Nat /\ lastSync <= head /\ till <= head
  BY HeadBounds
<1>2. l \in LogsOf(Received) /\ (Block(l) <= till \/ Block(l) <= lastSync)
  BY DEF RowInv
<1>3. l \in DOMAIN logs /\ Block(l) \in Nat
  BY <1>2, LogTypes
<1> QED BY <1>1, <1>2, <1>3

\* Steps that write no row.
LEMMA RowsKept ==
    ASSUME ChainInv, ChainInv', StepInv, RowInv, RowsInv, UnsavedInv, Extended, rows' = rows, saved' = saved,
           noSession' = noSession, lastSync' = lastSync, quiet' = quiet, restarts' = restarts,
           at' = 0 => at = 0
    PROVE  RowsInv' /\ UnsavedInv'
<1>1. \A r \in rows : \A l \in r.logs : l \in DOMAIN logs /\ Block(l) <= head
  BY RowLogBounds
<1>2. \A l \in DOMAIN logs : Block(l)' = Block(l)
  BY ExtendedFacts
<1>3. restarts \in Nat
  BY HeadBounds
<1>4. \A l \in DOMAIN logs : Block(l) <= head => (Reopened(l)' <=> Reopened(l))
  BY <1>3, ExcusedStays
<1>5. \A r \in rows : \A l \in r.logs : ~Reopened(l)' /\ ~Quiet(l)'
  BY <1>1, <1>2, <1>4 DEF RowsInv, Quiet
<1>6. RowsInv'
  BY <1>5 DEF RowsInv
<1>7. UnsavedInv'
  BY <1>1, <1>2 DEF UnsavedInv
<1> QED BY <1>6, <1>7

\* Between two rounds nothing is pending.
LEMMA NoBatch ==
    ASSUME ChainInv', StepInv', step' = "idle"
    PROVE  BatchInv' /\ TakenInv'
<1>1. lastSync' \in Nat /\ till' = lastSync' /\ at' = 0
  BY DEF StepInv
<1>2. ASSUME NEW l, l \in LogsOf(Received)', Block(l)' <= till'
      PROVE  ~(lastSync' < Block(l)')
  BY <1>1, <1>2, NextBlocks
<1>3. BatchLogs(Received)' = {}
  BY <1>2 DEF BatchLogs
<1>4. PendingReceived' = {}
  BY <1>3 DEF PendingReceived
<1> QED BY <1>1, <1>3, <1>4 DEF BatchInv, TakenInv, InBlockTaken, BeforeTaken, Swept

-----------------------------------------------------------------------------
(***************************************************************************)
(* What the managers take                                                  *)
(***************************************************************************)

\* Only one session is considered for the transfers of a block.
LEMMA BelongsToOne ==
    ASSUME ChainInv, StepInv, SessionInv, DetailInv, NEW l, DirectLog(l), NEW r, NEW q,
           BelongsTo(l, r), BelongsTo(l, q)
    PROVE  r = q
<1>0. PICK acc, b : acc \in Accounts /\ acc = Acc(l) /\ b = Block(l)
  BY DirectLogFacts
<1>1. PICK D : D = details[acc]
  OBVIOUS
<1>2. DetailsThen(acc, D)
  BY <1>0, <1>1, DetailFacts
<1>3. PICK i \in DOMAIN D : D[i].ses = r /\ IsDetailAt(acc, i, b) /\ Block(D[i].ses) <= b
  BY <1>0, <1>1 DEF BelongsTo, IsDetailAt
<1>4. PICK j \in DOMAIN D : D[j].ses = q /\ IsDetailAt(acc, j, b) /\ Block(D[j].ses) <= b
  BY <1>0, <1>1 DEF BelongsTo, IsDetailAt
<1>5. i \in Nat /\ j \in Nat /\ \A k \in DOMAIN D : Block(D[k].ses) \in Nat
  <2>1. DOMAIN D = 1..Len(D) /\ Len(D) \in Nat /\ \A k \in DOMAIN D : D[k].ses \in Opens
    BY <1>2 DEF DetailsThen
  <2> QED BY <2>1, LogTypes
<1>6. b \in Nat
  BY <1>0, DirectLogFacts
<1>7. ~(i < j) /\ ~(j < i)
  BY <1>1, <1>3, <1>4, <1>5, <1>6 DEF IsDetailAt
<1>8. i = j
  BY <1>5, <1>7
<1> QED BY <1>3, <1>4, <1>8

\* The transfers of a transaction to one account belong to one session.
LEMMA SameTxBelongs ==
    ASSUME ChainInv, StepInv, SessionInv, DetailInv, NEW k, DirectLog(k), NEW l \in DOMAIN logs,
           Kind(l) \in Direct, Tx(l) = Tx(k), Acc(l) = Acc(k), NEW s, BelongsTo(k, s)
    PROVE  BelongsTo(l, s) /\ Block(l) = Block(k)
<1>0. PICK acc, b : acc \in Accounts /\ acc = Acc(l) /\ b = Block(l)
  BY LogTypes
<1>1. k \in DOMAIN logs /\ Kind(k) \in Direct
  BY DirectLogFacts
<1>2. Block(k) = b /\ Acc(k) = acc
  BY <1>0, <1>1 DEF ChainInv, OrderInv
<1>3. PICK i \in DOMAIN details[acc] :
        LET d == details[acc][i]
        IN  /\ d.ses = s /\ IsDetailAt(acc, i, b)
            /\ d.closeLog = None \/ Block(d.closeLog) >= b
            /\ ~BeforeOpen(d, k) /\ ~AfterClose(d, k)
  BY <1>2 DEF BelongsTo
<1>4. PICK d : d = details[acc][i]
  OBVIOUS
<1>5. ASSUME NEW e \in LogsOf(Events)
      PROVE  /\ (l < e <=> k < e) /\ (l > e <=> k > e)
             /\ Tx(l) # Tx(e) /\ Tx(k) # Tx(e)
  <2>1. Tx(l) # Tx(e) /\ Tx(k) # Tx(e) /\ l # e /\ k # e
    BY <1>1, DirectNotInEventTx
  <2>2. e \in DOMAIN logs /\ e \in Nat /\ l \in Nat /\ k \in Nat /\ Tx(e) \in Nat /\ Tx(l) \in Nat
    BY <1>1, LogTypes
  <2>3. ~(l < e /\ e < k) /\ ~(k < e /\ e < l)
    BY <2>1, <2>2, <1>1 DEF ChainInv, OrderInv
  <2> QED BY <2>1, <2>2, <2>3
<1>6. d.ses \in LogsOf(Events) /\ (d.closeLog # None => d.closeLog \in LogsOf(Events))
  <2>1. PICK D : D = details[acc]
    OBVIOUS
  <2>2. DetailsThen(acc, D)
    BY <2>1, <1>0, DetailFacts
  <2>3. d.ses \in Opens /\ (d.closeLog # None => d.closeLog \in Closes)
    BY <2>1, <2>2, <1>4 DEF DetailsThen
  <2> QED BY <2>3, LogTypes DEF Events
<1>7. ~BeforeOpen(d, l)
  BY <1>0, <1>2, <1>3, <1>4, <1>5, <1>6 DEF BeforeOpen
<1>8. ~AfterClose(d, l)
  BY <1>0, <1>2, <1>3, <1>4, <1>5, <1>6 DEF AfterClose
<1>9. BelongsTo(l, s)
  BY <1>0, <1>3, <1>4, <1>7, <1>8 DEF BelongsTo
<1> QED BY <1>0, <1>2, <1>9

\* What a fetch takes.
TakenFrom(taken, cms, b) ==
    /\ \A t \in taken :
         /\ DirectLog(t.log) /\ Pending(t.log) /\ Block(t.log) = b /\ t.log \in DOMAIN logs
         /\ t.ses \in DOMAIN sessions /\ BelongsTo(t.log, t.ses) /\ t = [log |-> t.log, ses |-> t.ses]
    /\ \A l \in DOMAIN logs, s \in DOMAIN sessions :
         Pending(l) /\ Block(l) = b /\ Manager(s) \in cms /\ BelongsTo(l, s) =>
             [log |-> l, ses |-> s] \in taken

LEMMA TakenFromFacts ==
    ASSUME ChainInv, StepInv, SessionInv, PendingInv, NEW cms, NEW b, Fetching(cms, b)
    PROVE  TakenFrom(CheckTokenTransfer(cms, {b}), cms, b)
<1> DEFINE taken == CheckTokenTransfer(cms, {b})
<1>1. NoMore(b)
  BY DEF Fetching
<1>2. ASSUME NEW t \in taken
      PROVE  /\ DirectLog(t.log) /\ Pending(t.log) /\ Block(t.log) = b /\ t.log \in DOMAIN logs
             /\ t.ses \in DOMAIN sessions /\ BelongsTo(t.log, t.ses) /\ t = [log |-> t.log, ses |-> t.ses]
  BY <1>1, TakenFacts DEF DirectLog
<1>3. ASSUME NEW l \in DOMAIN logs, NEW s \in DOMAIN sessions,
             Pending(l) /\ Block(l) = b /\ Manager(s) \in cms /\ BelongsTo(l, s)
      PROVE  [log |-> l, ses |-> s] \in taken
  BY <1>3 DEF CheckTokenTransfer
<1> QED BY <1>2, <1>3 DEF TakenFrom

\* No transfer is in two new rows.
LEMMA NewRowsApart ==
    ASSUME ChainInv, StepInv, SessionInv, DetailInv, NEW STATE taken, NEW cms, NEW b, TakenFrom(taken, cms, b),
           NEW r \in NewRows(taken), NEW q \in NewRows(taken), NEW l, l \in r.logs, l \in q.logs
    PROVE  r = q
<1>0. \A t \in taken : t.log \in DOMAIN logs /\ t = [log |-> t.log, ses |-> t.ses]
  BY DEF TakenFrom
<1>1. /\ [log |-> l, ses |-> r.ses] \in Counted(taken) /\ [log |-> l, ses |-> q.ses] \in Counted(taken)
  BY <1>0, NewRowFacts
<1>2. [log |-> l, ses |-> r.ses] \in taken /\ [log |-> l, ses |-> q.ses] \in taken
  BY <1>1 DEF Counted
<1>3. DirectLog(l) /\ BelongsTo(l, r.ses) /\ BelongsTo(l, q.ses)
  BY <1>2 DEF TakenFrom
<1>4. r.ses = q.ses
  BY <1>3, BelongsToOne
<1>5. PICK t \in Counted(taken) : r = [logs |-> RowLogs(t, taken), ses |-> t.ses]
  BY <1>0, NewRowFacts
<1>6. PICK u \in Counted(taken) : q = [logs |-> RowLogs(u, taken), ses |-> u.ses]
  BY <1>0, NewRowFacts
<1>7. t.ses = u.ses /\ l \in RowLogs(t, taken) /\ l \in RowLogs(u, taken)
  BY <1>4, <1>5, <1>6
<1>8. RowLogs(t, taken) = RowLogs(u, taken)
  <2>1. CASE Kind(l) = "deposit"
    <3>1. RowLogs(t, taken) = {l} /\ RowLogs(u, taken) = {l}
      BY <2>1, <1>7 DEF RowLogs
    <3> QED BY <3>1
  <2>2. CASE Kind(l) # "deposit"
    <3>1. /\ Kind(t.log) # "deposit" /\ Kind(u.log) # "deposit"
          /\ Tx(l) = Tx(t.log) /\ Tx(l) = Tx(u.log)
      BY <2>2, <1>7 DEF RowLogs
    <3> QED BY <3>1, <1>7 DEF RowLogs
  <2> QED BY <2>1, <2>2
<1> QED BY <1>5, <1>6, <1>7, <1>8

LEMMA TakenRow ==
    ASSUME NEW STATE taken, NEW l \in DOMAIN logs, NEW s, [log |-> l, ses |-> s] \in taken, Kind(l) \in Received
    PROVE  InRow(l, NewRows(taken))
<1>1. PICK t : t = [log |-> l, ses |-> s]
  OBVIOUS
<1>2. t \in Counted(taken) /\ t.log = l /\ t.ses = s
  BY <1>1 DEF Counted, Received
<1>3. l \in RowLogs(t, taken)
  <2>1. CASE Kind(l) = "deposit"
    BY <2>1, <1>2 DEF RowLogs
  <2>2. CASE Kind(l) # "deposit"
    BY <2>2, <1>1, <1>2 DEF RowLogs, CountedFor
  <2> QED BY <2>1, <2>2
<1>4. [logs |-> RowLogs(t, taken), ses |-> t.ses] \in NewRows(taken)
  BY <1>2 DEF NewRows
<1> QED BY <1>3, <1>4 DEF InRow

LEMMA FetchAccounted ==
    ASSUME Inv, AccountedInv, NEW cms, NEW b, Fetching(cms, b)
    PROVE  RowsInv' /\ UnsavedInv' /\ SavedInv' /\ BatchInv'
<1> DEFINE taken == CheckTokenTransfer(cms, {b})
<1>0. ChainInv /\ SessionInv /\ StepInv /\ DetailInv /\ PendingInv /\ RowInv
  BY DEF Inv, RoundInv
<1>1. TakenFrom(taken, cms, b)
  BY <1>0, TakenFromFacts
<1>2. FetchFromDCForChangedSessions(taken, cms, b) /\ step \in {"block", "before"} /\ step' = "before"
  BY DEF Fetching
<1> HIDE DEF taken
<1>3. /\ transfers' = Left(taken) /\ rows' = rows \cup NewRows(taken) /\ saved' = saved
      /\ logs' = logs /\ head' = head /\ txs' = txs /\ current' = current
      /\ lastSync' = lastSync /\ till' = till /\ at' = at
      /\ noSession' = noSession /\ quiet' = quiet /\ restarts' = restarts
  BY <1>2 DEF FetchFromDCForChangedSessions, chainVars, seenVars
<1>4. RowsInv /\ UnsavedInv /\ SavedInv /\ BatchInv
  BY DEF AccountedInv
<1>5. /\ at # 0 /\ lastSync \in Nat /\ restarts \in Nat
  BY <1>0, <1>2 DEF StepInv
<1>6. ChainInv' /\ Extended
  <2>1. head \in Nat
    BY <1>0 DEF ChainInv, OrderInv
  <2> QED BY <2>1, <1>0, <1>3, ChainRests, SameChain
<1>7. \A l : /\ Block(l)' = Block(l) /\ SessionAt(l)' = SessionAt(l) /\ Acc(l)' = Acc(l)
             /\ (Reopened(l)' <=> Reopened(l)) /\ (Quiet(l)' <=> Quiet(l))
  BY <1>3, SameLogs DEF Reopened, Quiet
<1>8. ASSUME NEW r \in NewRows(taken), NEW l \in r.logs
      PROVE  /\ l \in DOMAIN logs /\ DirectLog(l) /\ Pending(l) /\ BelongsTo(l, r.ses)
             /\ lastSync < Block(l) /\ ~Reopened(l) /\ ~Quiet(l)
  <2>1. \A t \in taken : t.log \in DOMAIN logs /\ t = [log |-> t.log, ses |-> t.ses]
    BY <1>1 DEF TakenFrom
  <2>2. [log |-> l, ses |-> r.ses] \in Counted(taken)
    BY <2>1, NewRowFacts
  <2>3. [log |-> l, ses |-> r.ses] \in taken
    BY <2>2 DEF Counted
  <2>4. l \in DOMAIN logs /\ DirectLog(l) /\ Pending(l) /\ BelongsTo(l, r.ses)
    BY <2>3, <1>1 DEF TakenFrom
  <2>5. lastSync < Block(l) /\ Block(l) \in Nat
    BY <2>4, <1>0, DirectLogFacts
  <2>6. ~Quiet(l)
    BY <2>5, <1>4, <1>5 DEF Quiet, SavedInv
  <2>7. ~Reopened(l)
    BY <2>4, <1>0, BelongsNotReopened
  <2> QED BY <2>4, <2>5, <2>6, <2>7
<1>9. RowsInv'
  <2>1. ASSUME NEW r \in rows', NEW q \in rows', NEW l \in r.logs \cap q.logs
        PROVE  r = q
    <3>1. CASE r \in rows /\ q \in rows
      BY <3>1, <1>4 DEF RowsInv
    <3>2. CASE r \in NewRows(taken) /\ q \in NewRows(taken)
      BY <3>2, <1>0, <1>1, NewRowsApart
    <3>3. CASE r \in rows /\ q \in NewRows(taken)
      BY <3>3, <1>0, <1>8 DEF RowInv
    <3>4. CASE r \in NewRows(taken) /\ q \in rows
      BY <3>4, <1>0, <1>8 DEF RowInv
    <3> QED BY <3>1, <3>2, <3>3, <3>4, <1>3
  <2>2. ASSUME NEW r \in rows', NEW l \in r.logs
        PROVE  ~Reopened(l)' /\ ~Quiet(l)'
    <3>1. CASE r \in rows
      BY <3>1, <1>4, <1>7 DEF RowsInv
    <3>2. CASE r \in NewRows(taken)
      BY <3>2, <1>7, <1>8
    <3> QED BY <3>1, <3>2, <1>3
  <2> QED BY <2>1, <2>2 DEF RowsInv
<1>10. UnsavedInv'
  <2>1. ASSUME NEW r \in rows' \ saved.rows, NEW l \in r.logs
        PROVE  lastSync < Block(l)
    <3>1. CASE r \in rows
      BY <3>1, <1>4 DEF UnsavedInv
    <3>2. CASE r \in NewRows(taken)
      BY <3>2, <1>8
    <3> QED BY <3>1, <3>2, <1>3
  <2>2. saved.rows \subseteq rows /\ noSession = saved.noSession
    BY <1>4 DEF UnsavedInv
  <2> QED BY <2>1, <2>2, <1>3, <1>5, <1>7 DEF UnsavedInv
<1>11. SavedInv'
  BY <1>0, <1>3, <1>4, <1>5, <1>6, SavedKept
<1>12. BatchInv'
  <2> SUFFICES ASSUME NEW l \in BatchLogs(Received)', ~Pending(l)'
               PROVE  InRow(l, rows')
    BY DEF BatchInv, InRow
  <2>1. l \in BatchLogs(Received)
    BY <1>3, SameBatch
  <2>2. l \in DOMAIN logs /\ Kind(l) \in Received /\ Acc(l) \in Accounts
    BY <2>1, <1>0, LogTypes DEF BatchLogs
  <2>3. CASE InRow(l, rows)
    BY <2>3, <1>3 DEF InRow
  <2>4. CASE Pending(l)
    <3>1. PICK acc \in Accounts : acc = Acc(l)
      BY <2>2
    <3>2. l \in transfers[acc] /\ l \notin transfers'[acc]
      BY <2>2, <2>4, <3>1, <1>3, <1>7 DEF Pending
    <3>3. transfers'[acc] = {k \in transfers[acc] : \A x \in taken : Acc(x.log) = acc => Tx(x.log) # Tx(k)}
      BY <1>3 DEF Left
    <3>4. PICK t \in taken : Acc(t.log) = acc /\ Tx(t.log) = Tx(l)
      BY <3>2, <3>3
    <3>5. PICK k, s : k = t.log /\ s = t.ses
      OBVIOUS
    <3>6. /\ DirectLog(k) /\ s \in DOMAIN sessions /\ BelongsTo(k, s) /\ Block(k) = b
          /\ [log |-> k, ses |-> s] \in taken /\ k \in DOMAIN logs
      BY <3>5, <1>1 DEF TakenFrom
    <3>7. Kind(l) \in Direct
      BY <2>2 DEF Direct
    <3>8. BelongsTo(l, s) /\ Block(l) = b
      BY <3>1, <3>4, <3>5, <3>6, <3>7, <2>2, <1>0, SameTxBelongs
    <3>9. Manager(s) \in cms
      BY <3>6 DEF taken, CheckTokenTransfer
    <3>10. [log |-> l, ses |-> s] \in taken
      BY <3>6, <3>8, <3>9, <2>2, <2>4, <1>1 DEF TakenFrom
    <3>11. InRow(l, NewRows(taken))
      BY <3>10, <2>2, TakenRow
    <3> QED BY <3>11, <1>3 DEF InRow
  <2>5. step # "idle"
    BY <1>2
  <2> QED BY <2>1, <2>3, <2>4, <2>5, <1>4 DEF BatchInv
<1> QED BY <1>9, <1>10, <1>11, <1>12

-----------------------------------------------------------------------------
(***************************************************************************)
(* What the managers must have taken                                       *)
(***************************************************************************)

LEMMA FewerReceived ==
    ASSUME ChainInv, logs' = logs, lastSync' = lastSync, till' = till, details' = details,
           \A acc \in Accounts : transfers'[acc] \subseteq transfers[acc]
    PROVE  PendingReceived' \subseteq PendingReceived
<1>1. ASSUME NEW l \in PendingReceived'
      PROVE  l \in PendingReceived
  <2>1. l \in BatchLogs(Received)
    BY SameBatch DEF PendingReceived
  <2>2. Pending(l)
    BY PendingBefore DEF PendingReceived
  <2>3. \A k : Acc(k)' = Acc(k) /\ Block(k)' = Block(k) /\ SessionAt(k)' = SessionAt(k)
    BY SameLogs
  <2>4. HasDetail(l)'
    BY DEF PendingReceived
  <2>5. HasDetail(l)
    BY <2>3, <2>4 DEF HasDetail, IsDetailAt, Acc, Block, SessionAt
  <2> QED BY <2>1, <2>2, <2>5 DEF PendingReceived
<1> QED BY <1>1

LEMMA BatchEvents ==
    ASSUME ChainInv, NEW kinds, NEW e \in BatchLogs(kinds)
    PROVE  e \in DOMAIN logs /\ e \in Nat /\ e # 0 /\ Block(e) \in Nat /\ Kind(e) \in kinds /\ e \in LogsOf(kinds)
BY LogTypes DEF BatchLogs

LEMMA BlockOrder ==
    ASSUME ChainInv, NEW k \in DOMAIN logs, NEW l \in DOMAIN logs, k <= l
    PROVE  Block(k) <= Block(l)
<1>1. k \in Nat /\ l \in Nat /\ Block(k) \in Nat /\ Block(l) \in Nat
  BY LogTypes
<1> QED BY <1>1 DEF ChainInv, OrderInv

LEMMA BlockChangeTaken ==
    ASSUME Inv, AccountedInv, OnBlockChange
    PROVE  TakenInv'
<1>0. ChainInv /\ SessionInv /\ StepInv /\ FetchInv /\ DetailInv /\ PendingInv /\ RowInv /\ TakenInv
  BY DEF Inv, RoundInv, AccountedInv
<1> DEFINE cms == {cm \in Managers : lastEventBlock[cm] = Block(at)}
           taken == CheckTokenTransfer(cms, {Block(at)})
<1>1. /\ ~stopped /\ step = "block" /\ step' = "before"
      /\ FetchFromDCForChangedSessions(taken, cms, Block(at))
  BY DEF OnBlockChange
<1>2. at # 0 /\ at \in BatchLogs(Events) /\ NoMore(Block(at)) /\ at \in Nat
  BY <1>0, <1>1 DEF StepInv
<1>3. InBlock
  BY <1>1, <1>2 DEF InBlock
<1>4. /\ logs' = logs /\ lastSync' = lastSync /\ till' = till /\ at' = at /\ details' = details
      /\ transfers' = Left(taken)
  BY <1>1 DEF FetchFromDCForChangedSessions, chainVars
<1>5. PendingReceived' \subseteq PendingReceived
  BY <1>0, <1>4, FewerReceived DEF Left
<1>6. \A l : Block(l)' = Block(l) /\ SessionAt(l)' = SessionAt(l) /\ Manager(l)' = Manager(l)
  BY <1>4, SameLogs
<1>7. BatchLogs(Events)' = BatchLogs(Events) /\ BatchLogs(Received)' = BatchLogs(Received)
  BY <1>4, SameBatch
<1>8. BeforeTaken'
  BY <1>0, <1>4, <1>5, <1>6, <1>7 DEF BeforeTaken, TakenInv
<1>9. Swept'
  BY <1>1 DEF Swept
<1>10. InBlockTaken'
  <2> SUFFICES ASSUME NEW l \in PendingReceived', NEW e \in Processed', Block(e)' = Block(l)',
                      Manager(e)' = Manager(SessionAt(l))'
               PROVE  FALSE
    BY DEF InBlockTaken
  <2>1. e \in BatchLogs(Events) /\ e <= at
    BY <1>4, <1>7 DEF Processed
  <2>2. PICK s : s = SessionAt(l)
    OBVIOUS
  <2>3. l \in PendingReceived /\ Block(e) = Block(l) /\ Manager(e) = Manager(s)
    BY <2>2, <1>5, <1>6
  <2>4. l \in BatchLogs(Received) /\ Pending(l) /\ HasDetail(l) /\ l \in DOMAIN logs
    BY <2>3, <1>0, BatchEvents DEF PendingReceived
  <2>5. Block(e) <= Block(at) /\ Block(e) \in Nat /\ Block(at) \in Nat
    BY <2>1, <1>0, <1>2, BatchEvents, BlockOrder
  <2>6. CASE Block(e) < Block(at)
    <3>1. e \in Processed
      BY <2>1, <2>6 DEF Processed
    <3> QED BY <3>1, <2>2, <2>3, <1>0 DEF InBlockTaken, TakenInv
  <2>7. CASE Block(e) = Block(at)
    <3>1. lastEventBlock[Manager(e)] = Block(at)
      BY <2>1, <2>7, <1>0, <1>3 DEF FetchInv
    <3>2. l \in BatchLogs(Direct)
      BY <2>4 DEF BatchLogs, LogsOf, Direct
    <3>3. BelongsTo(l, s) /\ s \in DOMAIN sessions /\ Manager(s) \in Managers
      BY <3>2, <2>2, <2>4, <1>0, HasDetailBelongs
    <3>4. Manager(s) \in cms
      BY <3>1, <3>3, <2>3
    <3>5. PICK t : t = [log |-> l, ses |-> s]
      OBVIOUS
    <3>6. t \in taken /\ t.log = l
      BY <3>3, <3>4, <3>5, <2>3, <2>4, <2>7 DEF CheckTokenTransfer
    <3> HIDE DEF taken
    <3>7. ~Pending(t.log)'
      BY <3>6, <2>4, <1>0, <1>4, TakenNotPending
    <3>8. ~Pending(l)'
      BY <3>6, <3>7
    <3> QED BY <3>8 DEF PendingReceived
  <2> QED BY <2>5, <2>6, <2>7
<1> QED BY <1>8, <1>9, <1>10 DEF TakenInv

LEMMA BeforeTakenStep ==
    ASSUME Inv, AccountedInv, UpdateSessionWithDirectTokenTransferBefore
    PROVE  TakenInv'
<1>0. ChainInv /\ StepInv /\ PendingInv /\ TakenInv
  BY DEF Inv, RoundInv, AccountedInv
<1>1. PICK b \in BlocksBefore : FetchFromDCForChangedSessions(CheckTokenTransfer(Managers, {b}), Managers, b)
  BY DEF UpdateSessionWithDirectTokenTransferBefore
<1>2. step = "before" /\ step' = "before"
  BY DEF UpdateSessionWithDirectTokenTransferBefore
<1>4. /\ logs' = logs /\ lastSync' = lastSync /\ till' = till /\ at' = at /\ details' = details
      /\ transfers' = Left(CheckTokenTransfer(Managers, {b}))
  BY <1>1 DEF FetchFromDCForChangedSessions, chainVars
<1>5. PendingReceived' \subseteq PendingReceived
  BY <1>0, <1>4, FewerReceived DEF Left
<1>6. \A l : Block(l)' = Block(l) /\ SessionAt(l)' = SessionAt(l) /\ Manager(l)' = Manager(l)
  BY <1>4, SameLogs
<1>7. BatchLogs(Events)' = BatchLogs(Events) /\ BatchLogs(Received)' = BatchLogs(Received)
  BY <1>4, SameBatch
<1>8. BeforeTaken'
  BY <1>0, <1>4, <1>5, <1>6, <1>7 DEF BeforeTaken, TakenInv
<1>9. Swept'
  BY <1>2 DEF Swept
<1>10. Processed' = Processed
  BY <1>2, <1>4, <1>7 DEF Processed, InBlock
<1>11. InBlockTaken'
  <2> SUFFICES ASSUME NEW l \in PendingReceived', NEW e \in Processed', Block(e)' = Block(l)',
                      Manager(e)' = Manager(SessionAt(l))'
               PROVE  FALSE
    BY DEF InBlockTaken
  <2>1. PICK s : s = SessionAt(l)
    OBVIOUS
  <2>2. l \in PendingReceived /\ Block(e) = Block(l) /\ Manager(e) = Manager(s) /\ e \in Processed
    BY <2>1, <1>5, <1>6, <1>10
  <2> QED BY <2>1, <2>2, <1>0 DEF InBlockTaken, TakenInv
<1> QED BY <1>8, <1>9, <1>11 DEF TakenInv

LEMMA EndBlockTaken ==
    ASSUME Inv, AccountedInv, EndBlock
    PROVE  TakenInv'
<1>0. ChainInv /\ SessionInv /\ StepInv /\ DetailInv /\ PendingInv /\ TakenInv
  BY DEF Inv, RoundInv, AccountedInv
<1>1. /\ step = "before" /\ CheckTokenTransfer(Managers, BlocksBefore) = {}
      /\ logs' = logs /\ lastSync' = lastSync /\ till' = till /\ at' = at /\ details' = details
      /\ transfers' = transfers
  BY DEF EndBlock, chainVars, transferVars, syncVars
<1>2. at # 0 /\ NoMore(Block(at)) /\ till \in Nat
  BY <1>0, <1>1 DEF StepInv
<1>3. PendingReceived' \subseteq PendingReceived
  BY <1>0, <1>1, FewerReceived
<1>4. \A l : Block(l)' = Block(l) /\ SessionAt(l)' = SessionAt(l) /\ Manager(l)' = Manager(l)
  BY <1>1, SameLogs
<1>5. BatchLogs(Events)' = BatchLogs(Events) /\ \A b : NoMore(b)' <=> NoMore(b)
  BY <1>1, <1>4, SameBatch DEF NoMore
<1>6. ~InBlock /\ ~InBlock'
  BY <1>1, <1>2, <1>4, <1>5 DEF InBlock, EndBlock, NoMore
<1>7. Processed' = Processed
  BY <1>1, <1>5, <1>6 DEF Processed
<1>8. BeforeTaken'
  BY <1>0, <1>1, <1>3, <1>4, <1>5 DEF BeforeTaken, TakenInv
<1>9. InBlockTaken'
  <2> SUFFICES ASSUME NEW l \in PendingReceived', NEW e \in Processed', Block(e)' = Block(l)',
                      Manager(e)' = Manager(SessionAt(l))'
               PROVE  FALSE
    BY DEF InBlockTaken
  <2>1. PICK s : s = SessionAt(l)
    OBVIOUS
  <2>2. l \in PendingReceived /\ Block(e) = Block(l) /\ Manager(e) = Manager(s) /\ e \in Processed
    BY <2>1, <1>3, <1>4, <1>7
  <2> QED BY <2>1, <2>2, <1>0 DEF InBlockTaken, TakenInv
<1>10. Swept'
  <2> SUFFICES ASSUME NEW l \in PendingReceived', NoMore(Block(l))'
               PROVE  FALSE
    BY DEF Swept
  <2>1. l \in PendingReceived
    BY <1>3
  <2>2. l \in BatchLogs(Received) /\ Pending(l) /\ HasDetail(l) /\ l \in DOMAIN logs /\ Block(l) \in Nat
    BY <2>1, <1>0, BatchEvents DEF PendingReceived
  <2>3. l \in BatchLogs(Direct)
    BY <2>2 DEF BatchLogs, LogsOf, Direct
  <2>4. PICK s, b : s = SessionAt(l) /\ b = Block(l)
    OBVIOUS
  <2>5. BelongsTo(l, s) /\ s \in DOMAIN sessions /\ Manager(s) \in Managers
    BY <2>2, <2>3, <2>4, <1>0, HasDetailBelongs
  <2>6. b \in BlocksBefore
    <3>1. b \in 0..till
      BY <2>2, <2>4, <1>2 DEF BatchLogs
    <3>2. NoMore(b)
      <4>1. \A e \in BatchLogs(Events) : e > at => Block(e) > Block(l)
        BY <1>1, <1>4, <1>5 DEF NoMore
      <4> QED BY <4>1, <2>4 DEF NoMore
    <3>3. ASSUME NEW e \in BatchLogs(Events), e > at
          PROVE  b < Block(e)
      <4>1. Block(e) > b /\ Block(e) \in Nat
        BY <3>2, <3>3, <1>0, BatchEvents DEF NoMore
      <4> QED BY <4>1, <2>2, <2>4
    <3> QED BY <3>1, <3>3 DEF BlocksBefore
  <2>7. [log |-> l, ses |-> s] \in CheckTokenTransfer(Managers, BlocksBefore)
    BY <2>2, <2>4, <2>5, <2>6 DEF CheckTokenTransfer
  <2> QED BY <2>7, <1>1
<1> QED BY <1>8, <1>9, <1>10 DEF TakenInv

\* A later event does not change which session is considered for a block.
LEMMA DetailBefore ==
    ASSUME Inv, NEW e \in DOMAIN logs, OnEvent(e), NEW l \in DOMAIN logs, Block(l) < Block(e), HasDetail(l)'
    PROVE  HasDetail(l)
<1>0. ChainInv /\ StepInv /\ DetailInv /\ SessionInv
  BY DEF Inv, RoundInv
<1>1. OnLog(e)
  BY DEF OnEvent, OnOpenCreditAccount, OnOperation, OnTransferAccount, OnCloseCreditAccount
<1>2. logs' = logs
  BY <1>0, <1>1, OnLogFacts
<1>3. \A k : Acc(k)' = Acc(k) /\ Block(k)' = Block(k) /\ SessionAt(k)' = SessionAt(k)
  BY <1>2, SameLogs
<1>4. PICK acc, b, s : acc \in Accounts /\ b \in Nat /\ acc = Acc(l) /\ b = Block(l) /\ s = SessionAt(l)
  BY <1>0, LogTypes
<1>5. Block(e) \in Nat
  BY <1>0, LogTypes
<1>6. PICK D, E : D = details[acc] /\ E = details'[acc]
  OBVIOUS
<1>7. PICK i \in DOMAIN E : E[i].ses = s /\ Block(E[i].ses) <= b
                            /\ \A j \in DOMAIN E : j > i => Block(E[j].ses) > b
  <2>1. PICK i \in DOMAIN E : E[i].ses = s /\ IsDetailAt(acc, i, b)'
    BY <1>2, <1>4, <1>6 DEF HasDetail, Acc, Block, SessionAt
  <2>2. Block(E[i].ses) <= b /\ \A j \in DOMAIN E : j > i => Block(E[j].ses) > b
    BY <2>1, <1>2, <1>6 DEF IsDetailAt, Block
  <2> QED BY <2>1, <2>2
<1>8. D \in Seq([ses : Nat, closeLog : Nat])
  BY <1>0, <1>4, <1>6 DEF DetailInv, DetailsOrdered
<1>9. ASSUME DOMAIN D \subseteq DOMAIN E, \A j \in DOMAIN D : E[j].ses = D[j].ses,
             \A j \in DOMAIN E : j \in DOMAIN D \/ E[j].ses = e
      PROVE  HasDetail(l)
  <2>1. i \in DOMAIN D
    BY <1>4, <1>5, <1>7, <1>9
  <2>2. D[i].ses = s /\ Block(D[i].ses) <= b /\ \A j \in DOMAIN D : j > i => Block(D[j].ses) > b
    BY <2>1, <1>7, <1>9
  <2> QED BY <2>1, <2>2, <1>4, <1>6 DEF HasDetail, IsDetailAt
<1>10. DOMAIN details = Accounts
  BY <1>0 DEF DetailInv
<1>11. CASE OnOpenCreditAccount(e)
  <2>1. details' = [details EXCEPT ![Acc(e)] = Append(@, [ses |-> e, closeLog |-> None])]
    BY <1>11 DEF OnOpenCreditAccount
  <2>2. E = D \/ E = Append(D, [ses |-> e, closeLog |-> None])
    BY <2>1, <1>6, <1>10
  <2>3. CASE E = D
    BY <2>3, <1>9
  <2>4. CASE E = Append(D, [ses |-> e, closeLog |-> None])
    <3>0. PICK x : x = [ses |-> e, closeLog |-> None]
      OBVIOUS
    <3>1. x = [ses |-> e, closeLog |-> None] /\ x.ses = e
      BY <3>0
    <3>2. /\ Len(D) \in Nat /\ DOMAIN D = 1..Len(D) /\ DOMAIN E = 1..(Len(D) + 1)
          /\ \A j \in DOMAIN D : E[j] = D[j]
          /\ E[Len(D) + 1] = x
      BY <3>1, <2>4, <1>8
    <3>3. \A j \in DOMAIN E : j \in DOMAIN D \/ E[j].ses = e
      BY <3>1, <3>2
    <3>4. DOMAIN D \subseteq DOMAIN E /\ \A j \in DOMAIN D : E[j].ses = D[j].ses
      BY <3>2
    <3> QED BY <3>3, <3>4, <1>9
  <2> QED BY <2>2, <2>3, <2>4
<1>12. CASE OnCloseCreditAccount(e)
  <2>1. PICK x : details' = [details EXCEPT ![Acc(e)] = [j \in DOMAIN @ |->
                            IF Block(@[j].ses) = Block(x) THEN [@[j] EXCEPT !.closeLog = e] ELSE @[j]]]
    BY <1>12 DEF OnCloseCreditAccount
  <2>2. \/ E = D
        \/ E = [j \in DOMAIN D |-> IF Block(D[j].ses) = Block(x) THEN [D[j] EXCEPT !.closeLog = e] ELSE D[j]]
    BY <2>1, <1>6, <1>10
  <2>3. DOMAIN E = DOMAIN D /\ \A j \in DOMAIN D : E[j].ses = D[j].ses
    <3>1. PICK R : R = [ses : Nat, closeLog : Nat]
      OBVIOUS
    <3>0. D \in Seq(R)
      BY <3>1, <1>8
    <3>2. \A j \in DOMAIN D : D[j] \in R
      BY <3>0
    <3>3. \A y \in R : [y EXCEPT !.closeLog = e].ses = y.ses
      BY <3>1
    <3> QED BY <3>2, <3>3, <2>2
  <2> QED BY <2>3, <1>9
<1>13. CASE OnOperation(e) \/ OnTransferAccount(e)
  <2>1. E = D
    BY <1>13, <1>6 DEF OnOperation, OnTransferAccount
  <2> QED BY <2>1, <1>9
<1> QED BY <1>11, <1>12, <1>13 DEF OnEvent

LEMMA EventTaken ==
    ASSUME Inv, AccountedInv, NEW n \in DOMAIN logs, OnEvent(n)
    PROVE  TakenInv'
<1>0. ChainInv /\ SessionInv /\ StepInv /\ DetailInv /\ PendingInv /\ TakenInv
  BY DEF Inv, RoundInv, AccountedInv
<1>1. OnLog(n)
  BY DEF OnEvent, OnOpenCreditAccount, OnOperation, OnTransferAccount, OnCloseCreditAccount
<1>2. /\ NextEvent(n) /\ n \in Nat /\ logs' = logs /\ lastSync' = lastSync /\ till' = till /\ at' = n
      /\ step = "logs" /\ n \in BatchLogs(Events) /\ n > at
  BY <1>0, <1>1, OnLogFacts DEF NextEvent
<1>3. InBlock' /\ at \in Nat /\ (at # 0 => at \in BatchLogs(Events))
  BY <1>0, <1>1, OnLogInBlock DEF StepInv
<1>4. \A l : Block(l)' = Block(l) /\ SessionAt(l)' = SessionAt(l) /\ Manager(l)' = Manager(l)
  BY <1>2, SameLogs
<1>5. BatchLogs(Events)' = BatchLogs(Events) /\ BatchLogs(Received)' = BatchLogs(Received)
  BY <1>2, SameBatch
<1>6. \A e \in BatchLogs(Events) : e \in Nat /\ e # 0 /\ e \in DOMAIN logs /\ Block(e) \in Nat
  BY <1>0, BatchEvents
<1>7. \A e \in BatchLogs(Events) : e < n => e <= at
  BY <1>2, <1>3, <1>6 DEF NextEvent
<1>8. \A e \in BatchLogs(Events) : e > at => Block(n) <= Block(e)
  <2>1. \A e \in BatchLogs(Events) : e > at => n <= e
    BY <1>2 DEF NextEvent
  <2> QED BY <2>1, <1>0, <1>6, BlockOrder
<1>9. ASSUME NEW l \in PendingReceived', Block(l) < Block(n)
      PROVE  l \in PendingReceived /\ Block(l) \in Nat
  <2>1. l \in BatchLogs(Received) /\ Pending(l)' /\ HasDetail(l)'
    BY <1>5 DEF PendingReceived
  <2>2. Pending(l)
    <3>1. \A acc \in Accounts : transfers'[acc] \subseteq transfers[acc]
      BY <1>1 DEF OnLog
    <3> QED BY <3>1, <2>1, <1>0, <1>2, PendingBefore
  <2>3. l \in DOMAIN logs /\ Block(l) \in Nat
    BY <2>1, <1>0, BatchEvents
  <2>4. HasDetail(l)
    BY <2>1, <2>3, <1>9, DetailBefore
  <2> QED BY <2>1, <2>2, <2>3, <2>4 DEF PendingReceived
<1>10. InBlockTaken'
  <2> SUFFICES ASSUME NEW l \in PendingReceived', NEW e \in Processed', Block(e)' = Block(l)',
                      Manager(e)' = Manager(SessionAt(l))'
               PROVE  FALSE
    BY DEF InBlockTaken
  <2>1. PICK s : s = SessionAt(l)
    OBVIOUS
  <2>2. e \in BatchLogs(Events) /\ e <= n /\ Block(e) < Block(n) /\ Block(e) = Block(l) /\ Manager(e) = Manager(s)
    BY <2>1, <1>2, <1>3, <1>4, <1>5 DEF Processed
  <2>3. e <= at
    <3>1. e # n
      BY <2>2, <1>2, <1>6
    <3> QED BY <3>1, <2>2, <1>2, <1>6, <1>7
  <2>4. InBlock => Block(at) = Block(n)
    BY <1>0, <1>1, SameBlockEvent
  <2>5. e \in Processed
    BY <2>2, <2>3, <2>4 DEF Processed
  <2>6. l \in PendingReceived
    BY <2>2, <1>9
  <2> QED BY <2>1, <2>2, <2>5, <2>6, <1>0 DEF InBlockTaken, TakenInv
<1>11. BeforeTaken'
  <2> SUFFICES ASSUME NEW l \in PendingReceived', NEW d \in BatchLogs(Events), NEW e \in BatchLogs(Events),
                      Block(d) < Block(e), e <= n, ~(Block(e) <= Block(l))
               PROVE  FALSE
    BY <1>2, <1>4, <1>5 DEF BeforeTaken
  <2>0. Block(l) \in Nat
    <3>1. l \in BatchLogs(Received)
      BY <1>5 DEF PendingReceived
    <3> QED BY <3>1, <1>0, BatchEvents
  <2>1. Block(l) < Block(e) /\ Block(e) <= Block(n)
    BY <2>0, <1>0, <1>2, <1>6, BlockOrder
  <2>2. l \in PendingReceived
    BY <2>0, <2>1, <1>2, <1>6, <1>9
  <2>3. d < e
    BY <1>0, <1>6, LogTypes
  <2>4. CASE e <= at
    BY <2>1, <2>2, <2>4, <1>0 DEF BeforeTaken, TakenInv
  <2>5. CASE ~(e <= at)
    <3>1. e = n
      BY <2>5, <1>2, <1>3, <1>6, <1>7
    <3>2. d <= at /\ at # 0
      BY <3>1, <2>3, <1>3, <1>6, <1>7
    <3>3. at \in BatchLogs(Events)
      BY <3>2, <1>3
    <3>4. CASE InBlock
      <4>1. Block(at) = Block(n)
        BY <3>4, <1>0, <1>1, SameBlockEvent
      <4> QED BY <4>1, <3>1, <3>3, <2>1, <2>2, <1>0, <1>3, <1>6 DEF BeforeTaken, TakenInv
    <3>5. CASE ~InBlock
      <4>1. NoMore(Block(at))
        BY <3>2, <3>5, <1>2 DEF InBlock
      <4>2. NoMore(Block(l))
        BY <3>1, <2>0, <2>1, <1>2, <1>6, <1>8 DEF NoMore
      <4> QED BY <4>1, <4>2, <3>2, <2>2, <1>0, <1>2 DEF Swept, TakenInv
    <3> QED BY <3>4, <3>5
  <2> QED BY <2>4, <2>5
<1>12. Swept'
  <2>1. step' = "block" \/ (step' = "logs" /\ \E e \in BatchLogs(Events) : e > n /\ Block(e) = Block(n))
    BY <1>1 DEF OnLog
  <2>2. CASE step' = "block"
    BY <2>2 DEF Swept
  <2>3. CASE \E e \in BatchLogs(Events) : e > n /\ Block(e) = Block(n)
    <3>1. PICK e \in BatchLogs(Events) : e > n /\ Block(e) = Block(n)
      BY <2>3
    <3>2. ~(Block(e) > Block(n))
      BY <3>1, <1>6
    <3>3. ~NoMore(Block(at))'
      BY <3>1, <3>2, <1>2, <1>4, <1>5 DEF NoMore
    <3> QED BY <3>3 DEF Swept
  <2> QED BY <2>1, <2>2, <2>3
<1> QED BY <1>10, <1>11, <1>12 DEF TakenInv

LEMMA QueryTaken ==
    ASSUME Inv, Query
    PROVE  BatchInv' /\ TakenInv'
<1>0. ChainInv /\ StepInv
  BY DEF Inv, RoundInv
<1>1. /\ logs' = logs /\ lastSync' = lastSync /\ at' = at /\ step = "idle"
      /\ transfers' = [acc \in Accounts |-> transfers[acc] \cup
                         {l \in LogsOf(Direct \cup {"transfer"}) : Acc(l) = acc /\ lastSync < Block(l)}]
  BY DEF Query, Idle, chainVars, syncVars
<1>2. at' = 0
  BY <1>0, <1>1 DEF StepInv
<1>3. /\ \A l : Block(l)' = Block(l) /\ Acc(l)' = Acc(l) /\ Kind(l)' = Kind(l)
      /\ LogsOf(Received)' = LogsOf(Received) /\ LogsOf(Events)' = LogsOf(Events)
  BY <1>1, SameLogs
<1>4. ASSUME NEW l \in BatchLogs(Received)'
      PROVE  Pending(l)'
  <2>1. l \in LogsOf(Received) /\ lastSync < Block(l)
    BY <1>1, <1>3 DEF BatchLogs
  <2>2. l \in LogsOf(Direct \cup {"transfer"}) /\ l \in DOMAIN logs /\ Acc(l) \in Accounts
    BY <2>1, <1>0, LogTypes DEF Direct
  <2> QED BY <2>1, <2>2, <1>1, <1>3 DEF Pending
<1>5. \A e \in BatchLogs(Events)' : ~(e <= at')
  <2>1. \A e \in BatchLogs(Events)' : e \in LogsOf(Events)
    BY <1>3 DEF BatchLogs
  <2> QED BY <2>1, <1>0, <1>2, LogTypes
<1>6. Processed' = {} /\ BeforeTaken' /\ Swept'
  BY <1>2, <1>5 DEF Processed, BeforeTaken, Swept
<1> QED BY <1>4, <1>6 DEF BatchInv, TakenInv, InBlockTaken

-----------------------------------------------------------------------------
(***************************************************************************)
(* The batch is saved                                                      *)
(***************************************************************************)

LEMMA AfterSyncFacts ==
    ASSUME Inv, AccountedInv, AfterSync
    PROVE  /\ logs' = logs /\ head' = head /\ lastSync' = till /\ restarts' = restarts /\ rows' = rows
           /\ saved'.rows = rows /\ saved'.noSession = noSession' /\ noSession' = noSession \cup GetNoSessionTxs
           /\ quiet' = IF BatchLogs(Events) = {} THEN quiet \cup ((lastSync + 1)..till) ELSE quiet
           /\ Extended /\ ChainInv' /\ lastSync \in Nat /\ till \in Nat /\ lastSync < till /\ restarts \in Nat
           /\ \A l \in DOMAIN logs : Block(l) <= till /\ Block(l) \in Nat
           /\ \A e \in BatchLogs(Events) : e <= at
<1>1. ChainInv /\ StepInv
  BY DEF Inv, RoundInv
<1>2. /\ logs' = logs /\ head' = head /\ lastSync' = till /\ restarts' = restarts /\ rows' = rows
      /\ saved'.rows = rows /\ saved'.noSession = noSession' /\ noSession' = noSession \cup GetNoSessionTxs
      /\ quiet' = IF BatchLogs(Events) = {} THEN quiet \cup ((lastSync + 1)..till) ELSE quiet
      /\ step = "flush"
  BY DEF AfterSync, chainVars
<1>3. Extended /\ lastSync < till /\ \A l \in DOMAIN logs : Block(l) <= till
  BY <1>1, FlushFacts
<1>4. ChainInv'
  BY <1>1, ChainPreserved DEF Next
<1>5. lastSync \in Nat /\ till \in Nat /\ restarts \in Nat /\ \A e \in BatchLogs(Events) : e <= at
  BY <1>1, <1>2 DEF StepInv
<1>6. \A l \in DOMAIN logs : Block(l) \in Nat
  BY <1>1, LogTypes
<1> QED BY <1>2, <1>3, <1>4, <1>5, <1>6

LEMMA AfterSyncSettled ==
    ASSUME Inv, AccountedInv, AfterSync
    PROVE  SavedInv'
<1>0. ChainInv /\ SessionInv /\ StepInv /\ DetailInv /\ PendingInv /\ RowInv
      /\ RowsInv /\ UnsavedInv /\ SavedInv /\ BatchInv /\ TakenInv
  BY DEF Inv, RoundInv, AccountedInv
<1>1. /\ logs' = logs /\ head' = head /\ lastSync' = till /\ restarts' = restarts /\ rows' = rows
      /\ saved'.rows = rows /\ saved'.noSession = noSession' /\ noSession' = noSession \cup GetNoSessionTxs
      /\ quiet' = IF BatchLogs(Events) = {} THEN quiet \cup ((lastSync + 1)..till) ELSE quiet
      /\ Extended /\ ChainInv' /\ lastSync \in Nat /\ till \in Nat /\ lastSync < till /\ restarts \in Nat
      /\ \A l \in DOMAIN logs : Block(l) <= till /\ Block(l) \in Nat
      /\ \A e \in BatchLogs(Events) : e <= at
  BY AfterSyncFacts
<1>2. /\ \A l : Block(l)' = Block(l) /\ Tx(l)' = Tx(l)
      /\ LogsOf(Received)' = LogsOf(Received)
  BY <1>1, SameLogs
<1>3. SavedLogs(Received)' = LogsOf(Received)
  <2>1. LogsOf(Received) \subseteq DOMAIN logs
    BY <1>0, LogTypes
  <2> QED BY <2>1, <1>1, <1>2 DEF SavedLogs
<1>4. quiet \subseteq quiet' /\ \A b \in quiet' : b \in Nat /\ b <= lastSync'
  <2>1. \A b \in quiet : b \in Nat /\ b <= lastSync
    BY <1>0 DEF SavedInv
  <2> QED BY <2>1, <1>1
<1>5. noSession = saved.noSession /\ \A l \in noSession : l \in DOMAIN logs /\ Block(l) <= lastSync
  BY <1>0 DEF UnsavedInv, SavedInv
<1>6. \A l \in noSession' : l \in DOMAIN logs' /\ Block(l)' <= lastSync'
  <2>1. GetNoSessionTxs \subseteq DOMAIN logs
    BY DEF GetNoSessionTxs, BatchLogs, LogsOf
  <2> QED BY <2>1, <1>1, <1>2, <1>5
<1>7. \A l : InRow(l, saved.rows)' <=> InRow(l, rows)
  BY <1>1 DEF InRow
<1>8. \A l \in LogsOf(Received) : l \in DOMAIN logs /\ Block(l) <= head /\ (Excused(l) => Excused(l)')
  <2>1. till <= head /\ head \in Nat
    BY <1>0, HeadBounds
  <2>2. \A l \in LogsOf(Received) : l \in DOMAIN logs /\ Block(l) <= head
    BY <2>1, <1>0, <1>1, LogTypes
  <2> QED BY <2>2, <1>0, <1>1, ExcusedStays
<1>9. \A l \in DOMAIN logs : Block(l) <= lastSync => (InRow(l, rows) <=> InRow(l, saved.rows))
  BY <1>0, <1>1 DEF InRow, UnsavedInv
<1>10. ASSUME NEW l \in LogsOf(Received), NEW k \in LogsOf(Received), Tx(k) = Tx(l)
       PROVE  Block(k) = Block(l)
  BY <1>8, <1>10, <1>0 DEF ChainInv, OrderInv
<1>11. ASSUME NEW l \in LogsOf(Received), Block(l) <= lastSync
       PROVE  Settled(l)'
  <2>1. l \in SavedLogs(Received)
    BY <1>11 DEF SavedLogs
  <2>2. Settled(l)
    BY <2>1, <1>0 DEF SavedInv
  <2>3. InRow(l, saved.rows)' \/ Excused(l)' \/ Quiet(l)'
    BY <2>2, <1>2, <1>4, <1>7, <1>8, <1>9, <1>11 DEF Settled, Quiet
  <2>4. l \notin GetNoSessionTxs
    BY <1>1, <1>8, <1>11 DEF GetNoSessionTxs, BatchLogs
  <2>5. l \in noSession' <=> l \in saved.noSession
    BY <2>4, <1>1, <1>5
  <2>6. \A k \in LogsOf(Received) : Tx(k) = Tx(l) =>
          k \in SavedLogs(Received) /\ (InRow(k, rows) <=> InRow(k, saved.rows))
    BY <1>8, <1>9, <1>10, <1>11 DEF SavedLogs
  <2>7. SavedLogs(Received) \subseteq LogsOf(Received)
    BY DEF SavedLogs
  <2>8. l \in noSession' <=> \E k \in LogsOf(Received) : Tx(k) = Tx(l) /\ ~InRow(k, rows)
    BY <2>2, <2>5, <2>6, <2>7 DEF Settled
  <2>9. l \in saved'.noSession <=>
          \E k \in SavedLogs(Received)' : Tx(k)' = Tx(l)' /\ ~InRow(k, saved.rows)'
    BY <2>8, <1>1, <1>2, <1>3, <1>7
  <2> QED BY <2>3, <2>9 DEF Settled
<1>12. ASSUME NEW l \in LogsOf(Received), lastSync < Block(l)
       PROVE  Settled(l)'
  <2>0. l \in DOMAIN logs /\ Block(l) \in Nat /\ Kind(l) \in Received /\ Block(l) <= till
    BY <1>0, <1>1, LogTypes
  <2>1. l \in BatchLogs(Received)
    BY <2>0, <1>12 DEF BatchLogs
  <2>2. step = "flush"
    BY DEF AfterSync
  <2>3. InRow(l, rows) \/ Pending(l)
    BY <2>1, <2>2, <1>0 DEF BatchInv
  <2>4. ASSUME Pending(l), BatchLogs(Events) # {}
        PROVE  Excused(l)
    <3>1. at # 0 /\ NoMore(Block(at)) /\ NoMore(Block(l))
      <4>1. \A e \in BatchLogs(Events) : e \in Nat /\ e # 0 /\ at \in Nat
        BY <1>0, BatchEvents, HeadBounds
      <4> QED BY <4>1, <2>4, <1>1 DEF NoMore
    <3>2. ~HasDetail(l)
      BY <3>1, <2>1, <2>2, <2>4, <1>0 DEF TakenInv, Swept, PendingReceived
    <3>3. DirectLog(l)
      BY <3>1, <2>1 DEF DirectLog, BatchLogs, LogsOf, Direct
    <3> QED BY <3>2, <3>3, <1>0, NoDetailExcused
  <2>5. InRow(l, saved.rows)' \/ Excused(l)' \/ Quiet(l)'
    <3>1. CASE BatchLogs(Events) = {}
      <4>1. Block(l) \in quiet'
        BY <3>1, <2>0, <1>1, <1>12
      <4> QED BY <4>1, <1>2 DEF Quiet
    <3>2. CASE BatchLogs(Events) # {}
      BY <3>2, <2>3, <2>4, <1>7, <1>8
    <3> QED BY <3>1, <3>2
  <2>6. l \notin noSession /\ l \in BatchLogs(Direct \cup {"transfer"})
    BY <2>0, <2>1, <1>1, <1>5, <1>12 DEF BatchLogs, LogsOf, Direct
  <2>7. l \in noSession' <=> \E k \in DOMAIN logs : Pending(k) /\ Tx(k) = Tx(l)
    BY <2>6, <1>1 DEF GetNoSessionTxs
  <2>8. ASSUME NEW k \in DOMAIN logs, Pending(k), Tx(k) = Tx(l)
        PROVE  k \in LogsOf(Received) /\ ~InRow(k, rows)
    <3>1. Kind(k) = Kind(l)
      <4>1. l \in LogsOf(Direct)
        BY <2>0, <1>0, LogTypes DEF Direct
      <4> QED BY <4>1, <2>8, <1>0 DEF ChainInv, TxInv
    <3>2. k \in LogsOf(Received)
      BY <3>1, <2>0 DEF LogsOf
    <3> QED BY <3>2, <2>8, <1>0 DEF RowInv, InRow
  <2>9. ASSUME NEW k \in LogsOf(Received), Tx(k) = Tx(l), ~InRow(k, rows)
        PROVE  k \in DOMAIN logs /\ Pending(k)
    <3>1. k \in DOMAIN logs /\ Block(k) = Block(l)
      BY <2>9, <1>8, <1>10
    <3>2. k \in BatchLogs(Received)
      BY <3>1, <2>0, <1>12 DEF BatchLogs
    <3> QED BY <3>1, <3>2, <2>2, <2>9, <1>0 DEF BatchInv
  <2>10. l \in noSession' <=> \E k \in LogsOf(Received) : Tx(k) = Tx(l) /\ ~InRow(k, rows)
    BY <2>7, <2>8, <2>9
  <2>11. l \in saved'.noSession <=>
          \E k \in SavedLogs(Received)' : Tx(k)' = Tx(l)' /\ ~InRow(k, saved.rows)'
    BY <2>10, <1>1, <1>2, <1>3, <1>7
  <2> QED BY <2>5, <2>11 DEF Settled
<1>13. \A l \in LogsOf(Received) : Settled(l)'
  BY <1>1, <1>8, <1>11, <1>12
<1> QED BY <1>1, <1>3, <1>4, <1>6, <1>13 DEF SavedInv

LEMMA AfterSyncAccounted ==
    ASSUME Inv, AccountedInv, AfterSync
    PROVE  AccountedInv'
<1>0. ChainInv /\ StepInv /\ RowInv /\ RowsInv /\ UnsavedInv
  BY DEF Inv, RoundInv, AccountedInv
<1>1. /\ logs' = logs /\ rows' = rows /\ saved'.rows = rows /\ saved'.noSession = noSession'
      /\ quiet' = IF BatchLogs(Events) = {} THEN quiet \cup ((lastSync + 1)..till) ELSE quiet
      /\ lastSync \in Nat /\ ChainInv'
  BY AfterSyncFacts
<1>2. \A l : Block(l)' = Block(l) /\ (Reopened(l)' <=> Reopened(l))
  BY <1>1, SameLogs DEF Reopened
<1>3. ASSUME NEW r \in rows, NEW l \in r.logs
      PROVE  Block(l) \notin quiet'
  <2>1. Block(l) \notin quiet
    BY <1>0 DEF RowsInv, Quiet
  <2>2. CASE BatchLogs(Events) = {}
    <3>1. at = 0
      BY <2>2, <1>0 DEF StepInv
    <3>2. Block(l) <= lastSync /\ Block(l) \in Nat
      BY <3>1, <1>0, RowLogBounds DEF UnsavedInv, RowInv
    <3> QED BY <3>2, <2>1, <2>2, <1>1
  <2>3. CASE BatchLogs(Events) # {}
    BY <2>1, <2>3, <1>1
  <2> QED BY <2>2, <2>3
<1>4. RowsInv'
  BY <1>0, <1>1, <1>2, <1>3 DEF RowsInv, Quiet
<1>5. UnsavedInv'
  BY <1>1 DEF UnsavedInv
<1>6. BatchInv' /\ TakenInv'
  <2>1. StepInv' /\ step' = "idle"
    BY <1>0, AfterSyncStepInv DEF AfterSync
  <2> QED BY <2>1, <1>1, NoBatch
<1> QED BY <1>4, <1>5, <1>6, AfterSyncSettled DEF AccountedInv

LEMMA RestartAccounted ==
    ASSUME Inv, AccountedInv, Restart
    PROVE  AccountedInv'
<1>0. ChainInv /\ StepInv /\ RowInv /\ RowsInv /\ UnsavedInv /\ SavedInv
  BY DEF Inv, RoundInv, AccountedInv
<1>1. /\ logs' = logs /\ head' = head /\ rows' = saved.rows /\ saved' = saved /\ noSession' = saved.noSession
      /\ quiet' = quiet /\ restarts' = restarts + 1 /\ lastSync' = lastSync /\ step' = "idle"
  BY DEF Restart, chainVars
<1>2. ChainInv' /\ Extended /\ restarts \in Nat /\ StepInv'
  BY <1>0, <1>1, ChainPreserved, SameChain, HeadBounds, RestartStepInv DEF Next
<1>3. \A l : Block(l)' = Block(l) /\ (Reopened(l)' <=> Reopened(l))
  BY <1>1, SameLogs DEF Reopened
<1>4. RowsInv'
  BY <1>0, <1>1, <1>3 DEF RowsInv, UnsavedInv, Quiet
<1>5. UnsavedInv'
  BY <1>1 DEF UnsavedInv
<1>6. SavedInv'
  BY <1>0, <1>1, <1>2, SavedKept
<1>7. BatchInv' /\ TakenInv'
  BY <1>1, <1>2, NoBatch
<1> QED BY <1>4, <1>5, <1>6, <1>7 DEF AccountedInv

LEMMA ChainAccounted ==
    ASSUME Inv, AccountedInv, Chain
    PROVE  AccountedInv'
<1>0. ChainInv /\ StepInv /\ RowInv /\ RowsInv /\ UnsavedInv /\ SavedInv
  BY DEF Inv, RoundInv, AccountedInv
<1>1. /\ rows' = rows /\ saved' = saved /\ noSession' = noSession /\ at' = at /\ Idle
      /\ quiet' = quiet /\ restarts' = restarts /\ lastSync' = lastSync /\ step' = step
  BY ChainActions DEF rowVars, syncVars, roundVars, seenVars
<1>2. ChainInv' /\ Extended /\ restarts \in Nat /\ StepInv'
  BY <1>0, ChainGrows, HeadBounds, ChainStepInv
<1>3. RowsInv' /\ UnsavedInv'
  BY <1>0, <1>1, <1>2, RowsKept
<1>4. SavedInv'
  BY <1>0, <1>1, <1>2, SavedKept
<1>5. BatchInv' /\ TakenInv'
  BY <1>1, <1>2, NoBatch DEF Idle
<1> QED BY <1>3, <1>4, <1>5 DEF AccountedInv

LEMMA QueryAccounted ==
    ASSUME Inv, AccountedInv, Query
    PROVE  AccountedInv'
<1>0. ChainInv /\ StepInv /\ RowInv /\ RowsInv /\ UnsavedInv /\ SavedInv
  BY DEF Inv, RoundInv, AccountedInv
<1>1. /\ rows' = rows /\ saved' = saved /\ noSession' = noSession /\ at' = at /\ logs' = logs /\ head' = head
      /\ quiet' = quiet /\ restarts' = restarts /\ lastSync' = lastSync
  BY DEF Query, chainVars, rowVars, syncVars, seenVars
<1>2. ChainInv' /\ Extended /\ restarts \in Nat
  BY <1>0, <1>1, ChainPreserved, SameChain, HeadBounds DEF Next
<1>3. RowsInv' /\ UnsavedInv'
  BY <1>0, <1>1, <1>2, RowsKept
<1>4. SavedInv'
  BY <1>0, <1>1, <1>2, SavedKept
<1> QED BY <1>3, <1>4, QueryTaken DEF AccountedInv

LEMMA EventAccounted ==
    ASSUME Inv, AccountedInv, NEW n \in DOMAIN logs, OnEvent(n)
    PROVE  AccountedInv'
<1>0. ChainInv /\ StepInv /\ RowInv /\ RowsInv /\ UnsavedInv /\ SavedInv /\ BatchInv
  BY DEF Inv, RoundInv, AccountedInv
<1>1. OnLog(n)
  BY DEF OnEvent, OnOpenCreditAccount, OnOperation, OnTransferAccount, OnCloseCreditAccount
<1>2. /\ rows' = rows /\ saved' = saved /\ noSession' = noSession /\ at' = n /\ logs' = logs /\ head' = head
      /\ quiet' = quiet /\ restarts' = restarts /\ lastSync' = lastSync /\ till' = till /\ step = "logs"
      /\ transfers' = [acc \in Accounts |-> {k \in transfers[acc] : Tx(k) # Tx(n)}]
  BY <1>1 DEF OnLog, chainVars, rowVars, syncVars, seenVars
<1>3. n \in LogsOf(Events) /\ n # 0
  BY <1>0, <1>1, OnLogFacts
<1>4. ChainInv' /\ Extended /\ restarts \in Nat
  BY <1>0, <1>2, ChainPreserved, SameChain, HeadBounds DEF Next, OnLogs, OnEvent
<1>5. RowsInv' /\ UnsavedInv'
  BY <1>0, <1>2, <1>3, <1>4, RowsKept
<1>6. SavedInv'
  BY <1>0, <1>2, <1>4, SavedKept
<1>7. ASSUME NEW l \in BatchLogs(Received)'
      PROVE  Pending(l)' \/ InRow(l, rows)
  <2>1. l \in BatchLogs(Received)
    BY <1>2, SameBatch
  <2>2. l \in DOMAIN logs /\ Kind(l) \in Direct /\ Acc(l) \in Accounts
    BY <2>1, <1>0, BatchEvents, LogTypes DEF Direct
  <2>3. Tx(l) # Tx(n)
    BY <2>2, <1>0, <1>3, DirectNotInEventTx
  <2>4. Pending(l) => Pending(l)'
    BY <2>2, <2>3, <1>2 DEF Pending, Acc
  <2> QED BY <2>1, <2>4, <1>0, <1>2 DEF BatchInv
<1>8. BatchInv'
  BY <1>2, <1>7 DEF BatchInv, InRow
<1> QED BY <1>5, <1>6, <1>8, EventTaken DEF AccountedInv

LEMMA EndBlockAccounted ==
    ASSUME Inv, AccountedInv, EndBlock
    PROVE  AccountedInv'
<1>0. ChainInv /\ StepInv /\ RowInv /\ RowsInv /\ UnsavedInv /\ SavedInv /\ BatchInv
  BY DEF Inv, RoundInv, AccountedInv
<1>1. /\ rows' = rows /\ saved' = saved /\ noSession' = noSession /\ at' = at /\ logs' = logs /\ head' = head
      /\ quiet' = quiet /\ restarts' = restarts /\ lastSync' = lastSync /\ till' = till /\ step = "before"
      /\ transfers' = transfers
  BY DEF EndBlock, chainVars, rowVars, syncVars, seenVars, transferVars
<1>2. ChainInv' /\ Extended /\ restarts \in Nat
  BY <1>0, <1>1, ChainPreserved, SameChain, HeadBounds DEF Next, OnLogs
<1>3. RowsInv' /\ UnsavedInv'
  BY <1>0, <1>1, <1>2, RowsKept
<1>4. SavedInv'
  BY <1>0, <1>1, <1>2, SavedKept
<1>5. BatchInv'
  <2>1. BatchLogs(Received)' = BatchLogs(Received) /\ \A l : Pending(l)' <=> Pending(l)
    BY <1>1, SameBatch DEF Pending, Acc
  <2> QED BY <2>1, <1>0, <1>1 DEF BatchInv, InRow
<1> QED BY <1>3, <1>4, <1>5, EndBlockTaken DEF AccountedInv

LEMMA FetchStepAccounted ==
    ASSUME Inv, AccountedInv, OnBlockChange \/ UpdateSessionWithDirectTokenTransferBefore
    PROVE  AccountedInv'
<1>0. ChainInv /\ StepInv /\ FetchInv /\ PendingInv
  BY DEF Inv, RoundInv
<1>1. PICK cms \in SUBSET Managers, b \in Nat : Fetching(cms, b)
  BY <1>0, FetchSteps
<1> QED BY <1>1, FetchAccounted, BlockChangeTaken, BeforeTakenStep DEF AccountedInv

LEMMA StutterAccounted ==
    ASSUME Inv, AccountedInv, UNCHANGED vars
    PROVE  AccountedInv'
<1> USE DEF vars, chainVars, transferVars, sessionVars, rowVars, syncVars, roundVars, seenVars
<1>0. ChainInv /\ StepInv /\ RowInv /\ RowsInv /\ UnsavedInv /\ SavedInv /\ BatchInv /\ TakenInv
  BY DEF Inv, RoundInv, AccountedInv
<1>1. /\ rows' = rows /\ saved' = saved /\ noSession' = noSession /\ at' = at /\ logs' = logs /\ head' = head
      /\ quiet' = quiet /\ restarts' = restarts /\ lastSync' = lastSync /\ till' = till /\ step' = step
      /\ transfers' = transfers /\ details' = details
  OBVIOUS
<1>2. ChainInv' /\ Extended /\ restarts \in Nat
  BY <1>0, <1>1, ChainPreserved, SameChain, HeadBounds
<1>3. RowsInv' /\ UnsavedInv'
  BY <1>0, <1>1, <1>2, RowsKept
<1>4. SavedInv'
  BY <1>0, <1>1, <1>2, SavedKept
<1>5. BatchInv'
  BY <1>0, <1>1 DEF BatchInv, InRow, BatchLogs, LogsOf, Kind, Block, Pending, Acc
<1>6. PendingReceived' = PendingReceived /\ Processed' = Processed
  BY <1>1 DEF PendingReceived, BatchLogs, LogsOf, Kind, Block, Pending, Acc, HasDetail, IsDetailAt,
              SessionAt, Processed, InBlock, NoMore
<1>7. TakenInv'
  BY <1>0, <1>1, <1>6 DEF TakenInv, InBlockTaken, BeforeTaken, Swept, BatchLogs, LogsOf, Kind, Block,
              SessionAt, Manager, NoMore
<1> QED BY <1>3, <1>4, <1>5, <1>7 DEF AccountedInv

LEMMA AccountedStep ==
    ASSUME Inv, AccountedInv, [Next]_vars
    PROVE  AccountedInv'
<1>1. CASE OnLogs
  <2>1. CASE \E l \in DOMAIN logs : OnEvent(l)
    BY <2>1, EventAccounted
  <2>2. CASE OnBlockChange \/ UpdateSessionWithDirectTokenTransferBefore
    BY <2>2, FetchStepAccounted
  <2>3. CASE EndBlock
    BY <2>3, EndBlockAccounted
  <2> QED BY <1>1, <2>1, <2>2, <2>3 DEF OnLogs, OnEvent
<1> QED BY <1>1, ChainAccounted, QueryAccounted, AfterSyncAccounted, RestartAccounted, StutterAccounted DEF Next

LEMMA InitAccounted ==
    ASSUME Init
    PROVE  AccountedInv
<1>1. /\ logs = <<>> /\ rows = {} /\ noSession = {} /\ quiet = {} /\ at = 0 /\ lastSync = 0 /\ step = "idle"
      /\ saved.rows = {} /\ saved.noSession = {}
  BY DEF Init
<1>2. \A kinds : LogsOf(kinds) = {} /\ BatchLogs(kinds) = {}
  BY <1>1 DEF LogsOf, BatchLogs
<1> QED BY <1>1, <1>2 DEF AccountedInv, RowsInv, UnsavedInv, SavedInv, SavedLogs, BatchInv, TakenInv,
        InBlockTaken, BeforeTaken, Swept, PendingReceived

(***************************************************************************)
(* What the managers must have taken and what must be recorded, at every   *)
(* point of a round (CMWrapper.onBlockChange, CheckTokenTransfer) and in   *)
(* the database.                                                           *)
(***************************************************************************)
THEOREM AccountedInvariance == Spec => []AccountedInv
<1>1. Init => AccountedInv
  BY InitAccounted
<1>2. Inv /\ AccountedInv /\ [Next]_vars => AccountedInv'
  BY AccountedStep
<1> QED BY <1>1, <1>2, Invariance, PTL DEF Spec

LEMMA InvAccounted ==
    ASSUME Inv, AccountedInv
    PROVE  EveryTransferAccounted
<1>0. /\ ChainInv /\ SessionInv /\ StepInv /\ RowInv /\ RowsInv /\ UnsavedInv /\ SavedInv
  BY DEF Inv, RoundInv, AccountedInv
<1> SUFFICES ASSUME BlockSaved, NEW l \in SavedLogs(Received)
             PROVE  /\ \A r, q \in RowsOf(l) : r = q
                    /\ SessionAt(l) = None \/ Quiet(l) \/ Reopened(l) => RowsOf(l) = {}
                    /\ RowsOf(l) = {} => SessionAt(l) = None \/ Quiet(l) \/ Reopened(l) \/ Ambiguous(l)
                    /\ l \in noSession <=> \E k \in SavedLogs(Received) : Tx(k) = Tx(l) /\ RowsOf(k) = {}
  BY DEF EveryTransferAccounted
<1>1. ~stopped /\ rows = saved.rows /\ noSession = saved.noSession
  BY <1>0 DEF BlockSaved, StepInv, UnsavedInv
<1>2. \A k : RowsOf(k) = {} <=> ~InRow(k, saved.rows)
  BY <1>1 DEF RowsOf, InRow
<1>3. \A r, q \in RowsOf(l) : r = q
  BY <1>0 DEF RowsOf, RowsInv
<1>4. ASSUME NEW r \in rows, l \in r.logs
      PROVE  SessionAt(l) # None /\ ~Quiet(l) /\ ~Reopened(l)
  <2>1. ~Quiet(l) /\ ~Reopened(l)
    BY <1>0, <1>4 DEF RowsInv
  <2>2. SessionAt(l) = r.ses /\ r.ses \in DOMAIN sessions
    BY <1>0, <1>1, <1>4 DEF RowInv
  <2>3. r.ses \in Opens
    BY <2>2, <1>0 DEF SessionInv, SessionsOf
  <2> QED BY <2>1, <2>2, <2>3, <1>0, LogTypes DEF None
<1>5. SessionAt(l) = None \/ Quiet(l) \/ Reopened(l) => RowsOf(l) = {}
  BY <1>4 DEF RowsOf
<1>6. Settled(l)
  BY <1>0 DEF SavedInv
<1>7. RowsOf(l) = {} => SessionAt(l) = None \/ Quiet(l) \/ Reopened(l) \/ Ambiguous(l)
  BY <1>2, <1>6 DEF Settled, Excused
<1>8. l \in noSession <=> \E k \in SavedLogs(Received) : Tx(k) = Tx(l) /\ RowsOf(k) = {}
  BY <1>1, <1>2, <1>6 DEF Settled
<1> QED BY <1>3, <1>5, <1>7, <1>8

(***************************************************************************)
(* Every direct transfer of a saved block is in at most one row; it is in  *)
(* one if a session owned the account, unless its batch had no log of a    *)
(* credit manager, the account was opened again in its block or a restart  *)
(* may have loaded another session of the account; and exactly the         *)
(* transactions with a transfer in no row are reported without a session   *)
(* (CheckTokenTransfer, GetNoSessionTxs).                                  *)
(***************************************************************************)
THEOREM AccountedCorrect == Spec => []EveryTransferAccounted
BY Invariance, AccountedInvariance, InvAccounted, PTL
=============================================================================
