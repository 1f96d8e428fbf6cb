------------------------ MODULE DirectTransfersProofs ------------------------
(***************************************************************************)
(* Proofs about DirectTransfers for every set of accounts and managers and *)
(* every bound: its type invariant, and that a transfer is recorded in the *)
(* session that owned the account when it happened.                        *)
(*                                                                         *)
(* The inductive invariant has seven parts.  ChainInv: what the chain      *)
(* guarantees about the order of its logs and about the sessions of an     *)
(* account, which follow each other.  SessionInv: the sessions in memory   *)
(* and in the database are those of the handled logs.  RoundInv: where the *)
(* round is, and which sessions the managers still have to fetch.          *)
(* DetailInv: what the Details of an account know of its sessions, after a *)
(* restart too.  PendingInv and RowInv: what is pending and what is        *)
(* recorded.  SnapshotInv: the snapshots are of blocks of the chain.       *)
(***************************************************************************)
EXTENDS DirectTransfers, FiniteSetTheorems, NaturalsInduction, TLAPS

Log == [kind : Direct \cup Events \cup {"transfer"}, acc : Accounts, cm : Managers \cup {"none"},
        ses : Nat, block : Nat \ {0}, tx : Nat]

Opens == LogsOf({"open"})
Closes == LogsOf({"close"})

(***************************************************************************)
(* The chain: blocks and transactions in order, a transaction in one       *)
(* block; a transaction of a credit manager is a transfer and an event, a  *)
(* direct one has transfers of one kind.                                   *)
(***************************************************************************)
OrderInv ==
    /\ head \in Nat /\ txs \in Nat /\ logs \in Seq(Log)
    /\ \A l \in DOMAIN logs : Block(l) <= head + 1 /\ Tx(l) <= txs
    /\ \A k, l \in DOMAIN logs : k < l => Block(k) <= Block(l) /\ Tx(k) <= Tx(l)
    /\ \A k, l \in DOMAIN logs : Tx(k) = Tx(l) => Block(k) = Block(l)

TxInv ==
    /\ \A e \in LogsOf(Events), l \in DOMAIN logs : Tx(l) = Tx(e) => l = e \/ Kind(l) = "transfer"
    /\ \A l \in LogsOf({"transfer"}) : l + 1 \in LogsOf(Events) /\ Tx(l + 1) = Tx(l)
    /\ \A k \in LogsOf(Direct), l \in DOMAIN logs : Tx(k) = Tx(l) => Kind(l) = Kind(k)
    /\ \A e \in LogsOf(Events) : Manager(e) \in Managers

(***************************************************************************)
(* The sessions of an account: a log is in the last session opened before  *)
(* it or in none, and every other session before it was closed before it.  *)
(***************************************************************************)
HoldInv ==
    /\ \A l \in DOMAIN logs : SessionAt(l) # None =>
         SessionAt(l) \in Opens /\ SessionAt(l) <= l /\ Acc(SessionAt(l)) = Acc(l)
    /\ \A o \in Opens : SessionAt(o) = o
    /\ \A e \in LogsOf(Events) : SessionAt(e) # None /\ Manager(SessionAt(e)) = Manager(e)
    /\ \A o \in Opens, l \in DOMAIN logs : Acc(o) = Acc(l) /\ o <= l =>
         /\ SessionAt(l) = None \/ o <= SessionAt(l)
         /\ SessionAt(l) = o \/ \E c \in Closes : SessionAt(c) = o /\ c < l
    /\ \A c \in Closes, l \in DOMAIN logs : c < l => SessionAt(l) # SessionAt(c)

CurrentInv ==
    /\ current \in [Accounts -> Nat]
    /\ \A acc \in Accounts :
         /\ current[acc] # None =>
              /\ current[acc] \in Opens /\ Acc(current[acc]) = acc
              /\ \A c \in Closes : SessionAt(c) # current[acc]
         /\ \A o \in Opens : Acc(o) = acc =>
              /\ current[acc] = None \/ o <= current[acc]
              /\ current[acc] = o \/ \E c \in Closes : SessionAt(c) = o

ChainInv == OrderInv /\ TxInv /\ HoldInv /\ CurrentInv

(***************************************************************************)
(* The sessions after the logs of H.                                       *)
(***************************************************************************)
SessionRecord == [owner : Nat, closeLog : Nat, balancesAt : Nat, collateral : Nat]

Handled(l) == Block(l) <= lastSync \/ l <= at
HandledLogs == {l \in DOMAIN logs : Handled(l)}
SavedPart == {l \in DOMAIN logs : Block(l) <= lastSync}

SessionsOf(f, H) ==
    /\ f \in [Opens \cap H -> SessionRecord]
    /\ \A s \in Opens \cap H :
         /\ f[s].closeLog # None => f[s].closeLog \in Closes \cap H /\ SessionAt(f[s].closeLog) = s
         /\ \A c \in Closes \cap H : SessionAt(c) = s => f[s].closeLog = c
         /\ f[s].owner = Cardinality({l \in LogsOf({"move"}) \cap H : SessionAt(l) = s})

SessionInv == SessionsOf(sessions, HandledLogs) /\ SessionsOf(saved.sessions, SavedPart)

(***************************************************************************)
(* The round.  InBlock: events of the block of the last handled one are    *)
(* being handled, and its managers have something to fetch.                *)
(***************************************************************************)
NoMore(b) == \A e \in BatchLogs(Events) : e > at => Block(e) > b

InBlock == at # 0 /\ (step = "block" \/ (step = "logs" /\ ~NoMore(Block(at))))

StepInv ==
    /\ lastSync \in Nat /\ till \in Nat /\ at \in Nat /\ restarts \in Nat /\ stopped \in BOOLEAN
    /\ lastSync <= head
    /\ step \in {"idle", "logs", "block", "before", "flush"}
    /\ step = "idle" => at = 0 /\ till = lastSync
    /\ step # "idle" => till = head /\ lastSync < till /\ BlockComplete
    /\ at # 0 => at \in BatchLogs(Events)
    /\ step \in {"block", "before"} => at # 0 /\ NoMore(Block(at))
    /\ step = "flush" => \A e \in BatchLogs(Events) : e <= at
    /\ stopped => step = "before"

FetchInv ==
    /\ updated \in [Managers -> SUBSET Nat] /\ closed \in [Managers -> SUBSET Nat]
    /\ lastEventBlock \in [Managers -> Nat]
    /\ \A cm \in Managers :
         /\ ~InBlock => updated[cm] = {} /\ closed[cm] = {} /\ lastEventBlock[cm] = 0
         /\ lastEventBlock[cm] # 0 => lastEventBlock[cm] = Block(at)
         /\ lastEventBlock[cm] = 0 => updated[cm] = {} /\ closed[cm] = {}
         /\ \A s \in updated[cm] : /\ s \in DOMAIN sessions /\ Manager(s) = cm
                                   /\ \E e \in BatchLogs(Events) :
                                        e <= at /\ Block(e) = Block(at) /\ SessionAt(e) = s
         /\ \A s \in closed[cm] : /\ s \in DOMAIN sessions /\ Manager(s) = cm
                                  /\ \E c \in BatchLogs({"close"}) :
                                       c <= at /\ Block(c) = Block(at) /\ SessionAt(c) = s
    /\ InBlock => \A e \in BatchLogs(Events) : e <= at /\ Block(e) = Block(at) =>
         /\ lastEventBlock[Manager(e)] = Block(at)
         /\ Kind(e) = "close" => SessionAt(e) \in closed[Manager(e)]

RoundInv == StepInv /\ FetchInv

(***************************************************************************)
(* The details of an account: its sessions in order.  The close that a     *)
(* detail has is that of its session or of a later one opened in the same  *)
(* block.  A session is missing only if a restart loaded another one that  *)
(* was not opened before it.                                               *)
(***************************************************************************)
DetailsOrdered(acc) ==
    /\ details[acc] \in Seq([ses : Nat, closeLog : Nat])
    /\ \A i \in DOMAIN details[acc] :
         details[acc][i].ses \in DOMAIN sessions /\ Acc(details[acc][i].ses) = acc
    /\ \A i, j \in DOMAIN details[acc] : i < j => details[acc][i].ses < details[acc][j].ses

DetailsClosed(acc) ==
    \A i \in DOMAIN details[acc] :
        LET d == details[acc][i]
        IN  /\ sessions[d.ses].closeLog # None => d.closeLog # None
            /\ d.closeLog # None =>
                 /\ d.closeLog \in Closes /\ Handled(d.closeLog) /\ Acc(d.closeLog) = acc
                 /\ Block(SessionAt(d.closeLog)) = Block(d.ses)
                 /\ d.ses <= SessionAt(d.closeLog)

DetailsComplete(acc) ==
    \A s \in DOMAIN sessions : Acc(s) = acc =>
        \/ \E i \in DOMAIN details[acc] : details[acc][i].ses = s
        \/ /\ restarts > 0 /\ 1 \in DOMAIN details[acc]
           /\ Block(s) <= Block(details[acc][1].ses) /\ Block(details[acc][1].ses) <= lastSync

DetailInv ==
    /\ DOMAIN details = Accounts
    /\ \A acc \in Accounts : DetailsOrdered(acc) /\ DetailsClosed(acc) /\ DetailsComplete(acc)

(***************************************************************************)
(* What is pending is of the batch, and no handled event is in its         *)
(* transaction.  A recorded transfer is not pending, and is recorded in    *)
(* its session unless the process has stopped.                             *)
(***************************************************************************)
PendingInv ==
    /\ DOMAIN transfers = Accounts
    /\ \A acc \in Accounts : \A l \in transfers[acc] :
         /\ l \in BatchLogs(Direct \cup {"transfer"}) /\ Acc(l) = acc
         /\ \A e \in LogsOf(Events) : e <= at => Tx(e) # Tx(l)

RowInv ==
    /\ \A r \in rows : /\ r.logs # {} /\ r.ses \in DOMAIN sessions
                       /\ \A l \in r.logs : /\ l \in LogsOf(Received) /\ ~Pending(l)
                                            /\ Block(l) <= till
                                            /\ stopped \/ SessionAt(l) = r.ses
    /\ \A r \in saved.rows : /\ r.logs # {} /\ r.ses \in DOMAIN saved.sessions
                             /\ \A l \in r.logs : /\ l \in LogsOf(Received) /\ Block(l) <= lastSync
                                                  /\ SessionAt(l) = r.ses

SnapshotRecord == [ses : Nat, block : Nat, collateral : Nat]

SnapshotInv ==
    /\ snapshots \subseteq SnapshotRecord /\ saved.snapshots \subseteq SnapshotRecord
    /\ \A x \in snapshots \cup saved.snapshots : x.block <= head

Inv == ChainInv /\ SessionInv /\ RoundInv /\ DetailInv /\ PendingInv /\ RowInv /\ SnapshotInv
-----------------------------------------------------------------------------
(***************************************************************************)
(* The chain                                                               *)
(***************************************************************************)

LEMMA DomainLogs ==
    ASSUME OrderInv
    PROVE  /\ Len(logs) \in Nat /\ DOMAIN logs = 1..Len(logs)
           /\ \A l \in DOMAIN logs : logs[l] \in Log
           /\ \A l \in DOMAIN logs : l \in Nat \ {0}
BY DEF OrderInv

\* A transaction of k logs at the end of the chain.
Grown(k) ==
    /\ logs' \in Seq(Log)
    /\ DOMAIN logs' = 1..(Len(logs) + k)
    /\ \A l \in DOMAIN logs : logs'[l] = logs[l]
    /\ \A l \in DOMAIN logs' : l > Len(logs) => logs'[l].block = head + 1 /\ logs'[l].tx = txs + 1
    /\ head' = head /\ txs' = txs + 1

LEMMA GrowTwo ==
    ASSUME OrderInv, NEW STATE x, NEW STATE y, x \in Log, y \in Log,
           x.block = head + 1, x.tx = txs + 1, y.block = head + 1, y.tx = txs + 1,
           logs' = logs \o <<x, y>>, head' = head, txs' = txs + 1
    PROVE  Grown(2) /\ logs'[Len(logs) + 1] = x /\ logs'[Len(logs) + 2] = y
<1>1. logs \in Seq(Log) /\ <<x, y>> \in Seq(Log)
  BY DEF OrderInv
<1>2. Len(<<x, y>>) = 2 /\ <<x, y>>[1] = x /\ <<x, y>>[2] = y
  OBVIOUS
<1>3. logs' \in Seq(Log) /\ Len(logs') = Len(logs) + 2
  BY <1>1, <1>2
<1>4. /\ \A l \in DOMAIN logs : logs'[l] = logs[l]
      /\ logs'[Len(logs) + 1] = x /\ logs'[Len(logs) + 2] = y
  BY <1>1, <1>2
<1> QED BY <1>1, <1>3, <1>4 DEF Grown

LEMMA GrowOne ==
    ASSUME OrderInv, NEW STATE x, x \in Log,
           x.block = head + 1, x.tx = txs + 1,
           logs' = logs \o <<x>>, head' = head, txs' = txs + 1
    PROVE  Grown(1) /\ logs'[Len(logs) + 1] = x
<1>1. logs \in Seq(Log) /\ <<x>> \in Seq(Log)
  BY DEF OrderInv
<1>2. Len(<<x>>) = 1 /\ <<x>>[1] = x
  OBVIOUS
<1>3. logs' \in Seq(Log) /\ Len(logs') = Len(logs) + 1
  BY <1>1, <1>2
<1>4. /\ \A l \in DOMAIN logs : logs'[l] = logs[l]
      /\ logs'[Len(logs) + 1] = x
  BY <1>1, <1>2
<1> QED BY <1>1, <1>3, <1>4 DEF Grown

\* The chain only grows, and what is new is in no complete block.
Extended ==
    /\ head' \in Nat /\ head <= head'
    /\ \A l \in DOMAIN logs : l \in DOMAIN logs' /\ logs'[l] = logs[l]
    /\ \A l \in DOMAIN logs' \ DOMAIN logs : logs'[l].block > head

LEMMA GrownExtended ==
    ASSUME OrderInv, NEW k \in 1..2, Grown(k)
    PROVE  Extended
<1>1. /\ Len(logs) \in Nat /\ DOMAIN logs = 1..Len(logs) /\ DOMAIN logs' = 1..(Len(logs) + k)
      /\ head \in Nat
  BY DomainLogs DEF Grown, OrderInv
<1> QED BY <1>1 DEF Grown, Extended

LEMMA GrownOrder ==
    ASSUME OrderInv, NEW k \in 1..2, Grown(k)
    PROVE  OrderInv'
<1>1. /\ Len(logs) \in Nat /\ DOMAIN logs = 1..Len(logs) /\ head \in Nat /\ txs \in Nat
      /\ DOMAIN logs' = 1..(Len(logs) + k)
      /\ \A l \in DOMAIN logs : Block(l) \in Nat /\ Tx(l) \in Nat
  BY DomainLogs DEF Grown, OrderInv, Log, Block, Tx
<1>2. \A l \in DOMAIN logs : l \in DOMAIN logs' /\ Block(l)' = Block(l) /\ Tx(l)' = Tx(l)
  BY <1>1 DEF Grown, Block, Tx
<1>3. \A l \in DOMAIN logs' : l \notin DOMAIN logs => Block(l)' = head + 1 /\ Tx(l)' = txs + 1
  BY <1>1 DEF Grown, Block, Tx
<1>4. \A l \in DOMAIN logs : Block(l) <= head + 1 /\ Tx(l) <= txs
  BY DEF OrderInv
<1>5. \A l \in DOMAIN logs' : Block(l)' <= head' + 1 /\ Tx(l)' <= txs'
  <2> TAKE l \in DOMAIN logs'
  <2>1. CASE l \in DOMAIN logs
    BY <2>1, <1>1, <1>2, <1>4 DEF Grown
  <2>2. CASE l \notin DOMAIN logs
    BY <2>2, <1>1, <1>3 DEF Grown
  <2> QED BY <2>1, <2>2
<1>6. \A j, l \in DOMAIN logs' : j < l => Block(j)' <= Block(l)' /\ Tx(j)' <= Tx(l)'
  <2> TAKE j, l \in DOMAIN logs'
  <2>1. CASE l \in DOMAIN logs /\ j \in DOMAIN logs
    BY <2>1, <1>2 DEF OrderInv
  <2>2. CASE l \notin DOMAIN logs
    BY <2>2, <1>1, <1>2, <1>3, <1>4
  <2>3. CASE l \in DOMAIN logs /\ j \notin DOMAIN logs
    BY <2>3, <1>1
  <2> QED BY <2>1, <2>2, <2>3
<1>7. \A j, l \in DOMAIN logs' : Tx(j)' = Tx(l)' => Block(j)' = Block(l)'
  <2> TAKE j, l \in DOMAIN logs'
  <2>1. CASE l \in DOMAIN logs /\ j \in DOMAIN logs
    BY <2>1, <1>2 DEF OrderInv
  <2>2. CASE l \notin DOMAIN logs \/ j \notin DOMAIN logs
    BY <2>2, <1>1, <1>2, <1>3, <1>4
  <2> QED BY <2>1, <2>2
<1> QED BY <1>1, <1>5, <1>6, <1>7 DEF OrderInv, Grown

LEMMA GrownFacts ==
    ASSUME OrderInv, NEW k \in 1..2, Grown(k)
    PROVE  /\ Len(logs) \in Nat /\ DOMAIN logs = 1..Len(logs) /\ DOMAIN logs' = 1..(Len(logs) + k)
           /\ \A l \in DOMAIN logs :
                /\ l \in DOMAIN logs' /\ l \in Nat
                /\ Kind(l)' = Kind(l) /\ Acc(l)' = Acc(l) /\ Manager(l)' = Manager(l)
                /\ Block(l)' = Block(l) /\ Tx(l)' = Tx(l) /\ SessionAt(l)' = SessionAt(l)
                /\ Tx(l) # txs + 1
           /\ \A l \in DOMAIN logs' \ DOMAIN logs :
                l > Len(logs) /\ Tx(l)' = txs + 1 /\ Block(l)' = head + 1
           /\ \A kinds, l : l \in LogsOf(kinds)' <=> l \in DOMAIN logs' /\ Kind(l)' \in kinds
           /\ \A kinds : \A l \in DOMAIN logs : l \in LogsOf(kinds)' <=> l \in LogsOf(kinds)
<1>0. /\ Len(logs) \in Nat /\ DOMAIN logs = 1..Len(logs) /\ DOMAIN logs' = 1..(Len(logs) + k)
      /\ \A l \in DOMAIN logs : l \in DOMAIN logs' /\ l \in Nat /\ logs'[l] = logs[l]
  BY DomainLogs DEF Grown
<1>1. /\ Len(logs) \in Nat /\ DOMAIN logs = 1..Len(logs) /\ DOMAIN logs' = 1..(Len(logs) + k)
      /\ \A l \in DOMAIN logs : l \in DOMAIN logs' /\ l \in Nat /\ logs'[l] = logs[l]
      /\ txs \in Nat /\ \A l \in DOMAIN logs : Tx(l) <= txs /\ Tx(l) \in Nat
  BY <1>0, DomainLogs DEF OrderInv, Log, Tx
<1>2. \A l \in DOMAIN logs :
        /\ Kind(l)' = Kind(l) /\ Acc(l)' = Acc(l) /\ Manager(l)' = Manager(l)
        /\ Block(l)' = Block(l) /\ Tx(l)' = Tx(l) /\ SessionAt(l)' = SessionAt(l)
        /\ Tx(l) # txs + 1
  BY <1>1 DEF Kind, Acc, Manager, Block, Tx, SessionAt
<1>3. \A l \in DOMAIN logs' \ DOMAIN logs :
        l > Len(logs) /\ Tx(l)' = txs + 1 /\ Block(l)' = head + 1
  BY <1>1 DEF Grown, Tx, Block
<1>4. \A kinds, l : l \in LogsOf(kinds)' <=> l \in DOMAIN logs' /\ Kind(l)' \in kinds
  BY DEF LogsOf
<1>5. \A kinds : \A l \in DOMAIN logs : l \in LogsOf(kinds)' <=> l \in LogsOf(kinds)
  BY <1>1, <1>2, <1>4 DEF LogsOf
<1> QED BY <1>1, <1>2, <1>3, <1>4, <1>5

\* The transactions of a credit manager: the transfer and the event are new,
\* everything else is as it was.
LEMMA EventTx ==
    ASSUME OrderInv, TxInv, Grown(2), NEW kind \in Events, NEW n \in Nat, n = Len(logs),
           Kind(n + 1)' = "transfer", Kind(n + 2)' = kind, Manager(n + 2)' \in Managers
    PROVE  TxInv'
<1>1. /\ n \in Nat /\ DOMAIN logs = 1..n /\ DOMAIN logs' = 1..(n + 2)
      /\ \A l \in DOMAIN logs :
           /\ l \in DOMAIN logs' /\ l \in Nat
           /\ Kind(l)' = Kind(l) /\ Manager(l)' = Manager(l) /\ Tx(l)' = Tx(l) /\ Tx(l) # txs + 1
      /\ \A l \in DOMAIN logs' \ DOMAIN logs : Tx(l)' = txs + 1
      /\ \A kinds, l : l \in LogsOf(kinds)' <=> l \in DOMAIN logs' /\ Kind(l)' \in kinds
      /\ \A kinds : \A l \in DOMAIN logs : l \in LogsOf(kinds)' <=> l \in LogsOf(kinds)
  BY GrownFacts
<1>2. \A l \in DOMAIN logs' : l \in DOMAIN logs \/ l = n + 1 \/ l = n + 2
  BY <1>1
<1>3. n + 1 \in DOMAIN logs' \ DOMAIN logs /\ n + 2 \in DOMAIN logs' \ DOMAIN logs
  BY <1>1
<1>4. "transfer" \notin Events /\ "transfer" \notin Direct /\ kind \notin Direct /\ kind # "transfer"
  BY DEF Events, Direct, Received
<1>5. \A e \in LogsOf(Events)', l \in DOMAIN logs' :
        Tx(l)' = Tx(e)' => l = e \/ Kind(l)' = "transfer"
  <2> SUFFICES ASSUME NEW e \in LogsOf(Events)', NEW l \in DOMAIN logs', Tx(l)' = Tx(e)'
               PROVE  l = e \/ Kind(l)' = "transfer"
    OBVIOUS
  <2>0. e \in DOMAIN logs' /\ Kind(e)' \in Events
    BY <1>1
  <2>1. CASE e \in DOMAIN logs /\ l \in DOMAIN logs
    BY <2>1, <2>0, <1>1 DEF TxInv
  <2>2. CASE e \in DOMAIN logs /\ l \notin DOMAIN logs
    BY <2>2, <1>1
  <2>3. CASE e \notin DOMAIN logs
    <3>1. e = n + 2
      BY <2>3, <2>0, <1>2, <1>4
    <3>2. l = n + 1 \/ l = n + 2
      BY <2>3, <2>0, <1>1, <1>2
    <3> QED BY <3>1, <3>2
  <2> QED BY <2>1, <2>2, <2>3
<1>6. \A l \in LogsOf({"transfer"})' : l + 1 \in LogsOf(Events)' /\ Tx(l + 1)' = Tx(l)'
  <2> SUFFICES ASSUME NEW l \in LogsOf({"transfer"})'
               PROVE  l + 1 \in LogsOf(Events)' /\ Tx(l + 1)' = Tx(l)'
    OBVIOUS
  <2>0. l \in DOMAIN logs' /\ Kind(l)' = "transfer"
    BY <1>1
  <2>1. CASE l \in DOMAIN logs
    <3>1. l + 1 \in LogsOf(Events) /\ Tx(l + 1) = Tx(l)
      BY <2>0, <2>1, <1>1 DEF TxInv
    <3>2. l + 1 \in DOMAIN logs
      BY <3>1 DEF LogsOf
    <3> QED BY <2>1, <3>1, <3>2, <1>1
  <2>2. CASE l \notin DOMAIN logs
    <3>1. l = n + 1
      BY <2>0, <2>2, <1>2, <1>4
    <3>2. l + 1 = n + 2
      BY <3>1, <1>1
    <3>3. Kind(n + 2)' \in Events
      OBVIOUS
    <3> QED BY <3>1, <3>2, <3>3, <1>1, <1>3
  <2> QED BY <2>1, <2>2
<1>7. \A j \in LogsOf(Direct)', l \in DOMAIN logs' : Tx(j)' = Tx(l)' => Kind(l)' = Kind(j)'
  <2> SUFFICES ASSUME NEW j \in LogsOf(Direct)', NEW l \in DOMAIN logs', Tx(j)' = Tx(l)'
               PROVE  Kind(l)' = Kind(j)'
    OBVIOUS
  <2>0. j \in DOMAIN logs' /\ Kind(j)' \in Direct
    BY <1>1
  <2>1. j \in DOMAIN logs
    BY <2>0, <1>2, <1>4
  <2>2. l \in DOMAIN logs
    BY <2>1, <1>1
  <2> QED BY <2>0, <2>1, <2>2, <1>1 DEF TxInv
<1>8. \A e \in LogsOf(Events)' : Manager(e)' \in Managers'
  <2> SUFFICES ASSUME NEW e \in LogsOf(Events)' PROVE Manager(e)' \in Managers
    OBVIOUS
  <2>1. e \in DOMAIN logs' /\ Kind(e)' \in Events
    BY <1>1
  <2>2. CASE e \in DOMAIN logs
    BY <2>1, <2>2, <1>1 DEF TxInv
  <2>3. CASE e \notin DOMAIN logs
    BY <2>1, <2>3, <1>2, <1>4
  <2> QED BY <2>2, <2>3
<1> QED BY <1>5, <1>6, <1>7, <1>8 DEF TxInv

LEMMA DirectTx ==
    ASSUME OrderInv, TxInv, NEW k \in 1..2, Grown(k), NEW kind \in Direct,
           \A l \in DOMAIN logs' : l > Len(logs) => Kind(l)' = kind
    PROVE  TxInv'
<1>1. /\ Len(logs) \in Nat /\ DOMAIN logs = 1..Len(logs)
      /\ \A l \in DOMAIN logs :
           /\ l \in DOMAIN logs' /\ l \in Nat
           /\ Kind(l)' = Kind(l) /\ Manager(l)' = Manager(l) /\ Tx(l)' = Tx(l) /\ Tx(l) # txs + 1
      /\ \A l \in DOMAIN logs' \ DOMAIN logs : l > Len(logs) /\ Tx(l)' = txs + 1
      /\ \A kinds, l : l \in LogsOf(kinds)' <=> l \in DOMAIN logs' /\ Kind(l)' \in kinds
      /\ \A kinds : \A l \in DOMAIN logs : l \in LogsOf(kinds)' <=> l \in LogsOf(kinds)
  BY GrownFacts
<1>2. \A l \in DOMAIN logs' : l \in DOMAIN logs \/ Kind(l)' = kind
  BY <1>1
<1>3. kind \notin Events /\ kind # "transfer"
  BY DEF Direct, Received, Events
<1>4. /\ \A l \in LogsOf(Events)' : l \in LogsOf(Events)
      /\ \A l \in LogsOf({"transfer"})' : l \in LogsOf({"transfer"})
  BY <1>1, <1>2, <1>3
<1>5. \A l \in LogsOf(Events) \cup LogsOf({"transfer"}) : l \in DOMAIN logs
  BY DEF LogsOf
<1>6. \A e \in LogsOf(Events)', l \in DOMAIN logs' :
        Tx(l)' = Tx(e)' => l = e \/ Kind(l)' = "transfer"
  BY <1>1, <1>4, <1>5 DEF TxInv
<1>7. \A l \in LogsOf({"transfer"})' : l + 1 \in LogsOf(Events)' /\ Tx(l + 1)' = Tx(l)'
  BY <1>1, <1>4, <1>5 DEF TxInv
<1>8. \A j \in LogsOf(Direct)', l \in DOMAIN logs' : Tx(j)' = Tx(l)' => Kind(l)' = Kind(j)'
  <2> TAKE j \in LogsOf(Direct)', l \in DOMAIN logs'
  <2>1. j \in DOMAIN logs' /\ Kind(j)' \in Direct
    BY <1>1
  <2>2. CASE j \in DOMAIN logs /\ l \in DOMAIN logs
    BY <2>1, <2>2, <1>1 DEF TxInv
  <2>3. CASE j \notin DOMAIN logs /\ l \notin DOMAIN logs
    BY <2>1, <2>3, <1>2
  <2>4. CASE (j \in DOMAIN logs) # (l \in DOMAIN logs)
    BY <2>1, <2>4, <1>1
  <2> QED BY <2>2, <2>3, <2>4
<1>9. \A e \in LogsOf(Events)' : Manager(e)' \in Managers'
  BY <1>1, <1>4, <1>5 DEF TxInv
<1> QED BY <1>6, <1>7, <1>8, <1>9 DEF TxInv

\* What the log l of an account says after a step that leaves the sessions
\* before it alone: the two halves of HoldInv for one log.
Holds(l) ==
    /\ SessionAt(l) # None =>
         SessionAt(l) \in Opens /\ SessionAt(l) <= l /\ Acc(SessionAt(l)) = Acc(l)
    /\ \A o \in Opens : Acc(o) = Acc(l) /\ o <= l =>
         /\ SessionAt(l) = None \/ o <= SessionAt(l)
         /\ SessionAt(l) = o \/ \E c \in Closes : SessionAt(c) = o /\ c < l
    /\ \A c \in Closes : c < l => SessionAt(l) # SessionAt(c)

LEMMA GrownHold ==
    ASSUME OrderInv, HoldInv, NEW k \in 1..2, Grown(k),
           \A l \in DOMAIN logs' \ DOMAIN logs : Holds(l)',
           \A o \in Opens' \ DOMAIN logs : SessionAt(o)' = o,
           \A e \in LogsOf(Events)' \ DOMAIN logs :
               SessionAt(e)' # None /\ Manager(SessionAt(e))' = Manager(e)'
    PROVE  HoldInv'
<1>1. /\ Len(logs) \in Nat /\ DOMAIN logs = 1..Len(logs) /\ DOMAIN logs' = 1..(Len(logs) + k)
      /\ \A l \in DOMAIN logs :
           /\ l \in DOMAIN logs' /\ l \in Nat
           /\ Acc(l)' = Acc(l) /\ Manager(l)' = Manager(l) /\ SessionAt(l)' = SessionAt(l)
      /\ \A l \in DOMAIN logs' \ DOMAIN logs : l > Len(logs)
      /\ \A kinds : \A l \in DOMAIN logs : l \in LogsOf(kinds)' <=> l \in LogsOf(kinds)
      /\ \A kinds, l : l \in LogsOf(kinds)' => l \in DOMAIN logs'
  BY GrownFacts
<1>2. /\ \A l \in DOMAIN logs : (l \in Opens' <=> l \in Opens) /\ (l \in Closes' <=> l \in Closes)
      /\ Opens \subseteq DOMAIN logs /\ Closes \subseteq DOMAIN logs
      /\ LogsOf(Events) \subseteq DOMAIN logs /\ Opens \subseteq LogsOf(Events)
      /\ Opens' \subseteq DOMAIN logs' /\ Closes' \subseteq DOMAIN logs'
      /\ LogsOf(Events)' \subseteq DOMAIN logs'
  BY <1>1 DEF Opens, Closes, LogsOf, Events
<1>3. \A l \in DOMAIN logs : SessionAt(l) # None => SessionAt(l) \in DOMAIN logs
  BY <1>2 DEF HoldInv
<1>4. \A l \in DOMAIN logs : Holds(l)'
  <2> TAKE l \in DOMAIN logs
  <2>1. SessionAt(l)' # None =>
          SessionAt(l)' \in Opens' /\ SessionAt(l)' <= l /\ Acc(SessionAt(l))' = Acc(l)'
    <3> SUFFICES ASSUME SessionAt(l) # None
                 PROVE  SessionAt(l)' \in Opens' /\ SessionAt(l)' <= l /\ Acc(SessionAt(l))' = Acc(l)'
      BY <1>1
    <3>1. SessionAt(l) \in Opens /\ SessionAt(l) <= l /\ Acc(SessionAt(l)) = Acc(l)
      BY DEF HoldInv
    <3>2. Acc(SessionAt(l))' = Acc(SessionAt(l))
      BY <1>1, <1>3, <1>2 DEF Acc
    <3> QED BY <3>1, <3>2, <1>1, <1>2
  <2>2. \A o \in Opens' : Acc(o)' = Acc(l)' /\ o <= l => o \in Opens /\ Acc(o) = Acc(l)
    <3> TAKE o \in Opens'
    <3>1. o <= l => o \in DOMAIN logs
      BY <1>1, <1>2
    <3> QED BY <3>1, <1>1, <1>2
  <2>3. \A o \in Opens' : Acc(o)' = Acc(l)' /\ o <= l =>
          /\ SessionAt(l)' = None \/ o <= SessionAt(l)'
          /\ SessionAt(l)' = o \/ \E c \in Closes' : SessionAt(c)' = o /\ c < l
    <3> TAKE o \in Opens'
    <3> HAVE Acc(o)' = Acc(l)' /\ o <= l
    <3>1. /\ SessionAt(l) = None \/ o <= SessionAt(l)
          /\ SessionAt(l) = o \/ \E c \in Closes : SessionAt(c) = o /\ c < l
      BY <2>2 DEF HoldInv
    <3> QED BY <3>1, <1>1, <1>2
  <2>4. \A c \in Closes' : c < l => SessionAt(l)' # SessionAt(c)'
    <3> TAKE c \in Closes'
    <3>1. c < l => c \in DOMAIN logs
      BY <1>1, <1>2
    <3> QED BY <3>1, <1>1, <1>2 DEF HoldInv
  <2> QED BY <2>1, <2>3, <2>4 DEF Holds
<1>5. \A l \in DOMAIN logs' : Holds(l)'
  BY <1>4
<1>6. \A o \in Opens' : SessionAt(o)' = o
  BY <1>1, <1>2 DEF HoldInv
<1>7. \A e \in LogsOf(Events)' : SessionAt(e)' # None /\ Manager(SessionAt(e))' = Manager(e)'
  <2> TAKE e \in LogsOf(Events)'
  <2>1. CASE e \in DOMAIN logs
    <3>1. SessionAt(e) # None /\ Manager(SessionAt(e)) = Manager(e)
      BY <2>1, <1>1 DEF HoldInv
    <3>2. Manager(SessionAt(e))' = Manager(SessionAt(e))
      BY <2>1, <3>1, <1>1, <1>3 DEF Manager
    <3> QED BY <2>1, <3>1, <3>2, <1>1
  <2>2. CASE e \notin DOMAIN logs
    BY <2>2
  <2> QED BY <2>1, <2>2
<1> QED BY <1>2, <1>5, <1>6, <1>7 DEF HoldInv, Holds

\* A new log of an account in its current session.
LEMMA NewHolds ==
    ASSUME OrderInv, HoldInv, CurrentInv, NEW k \in 1..2, Grown(k),
           NEW acc \in Accounts, NEW l \in DOMAIN logs' \ DOMAIN logs,
           Acc(l)' = acc, SessionAt(l)' = current[acc],
           \A o \in Opens' : o <= l => o \in DOMAIN logs,
           \A c \in Closes' : c < l => c \in DOMAIN logs
    PROVE  Holds(l)'
<1>1. /\ Len(logs) \in Nat /\ DOMAIN logs = 1..Len(logs) /\ l \in Nat /\ l > Len(logs)
      /\ \A j \in DOMAIN logs :
           /\ j \in DOMAIN logs' /\ j \in Nat
           /\ Acc(j)' = Acc(j) /\ SessionAt(j)' = SessionAt(j)
      /\ \A kinds : \A j \in DOMAIN logs : j \in LogsOf(kinds)' <=> j \in LogsOf(kinds)
  BY GrownFacts
<1>2. /\ \A j \in DOMAIN logs : (j \in Opens' <=> j \in Opens) /\ (j \in Closes' <=> j \in Closes)
      /\ Opens \subseteq DOMAIN logs /\ Closes \subseteq DOMAIN logs
      /\ Closes \subseteq LogsOf(Events)
  BY <1>1 DEF Opens, Closes, LogsOf, Events
<1>3. /\ current[acc] # None =>
           /\ current[acc] \in Opens /\ Acc(current[acc]) = acc
           /\ \A c \in Closes : SessionAt(c) # current[acc]
      /\ \A o \in Opens : Acc(o) = acc =>
           /\ current[acc] = None \/ o <= current[acc]
           /\ current[acc] = o \/ \E c \in Closes : SessionAt(c) = o
  BY DEF CurrentInv
<1>4. SessionAt(l)' # None =>
        SessionAt(l)' \in Opens' /\ SessionAt(l)' <= l /\ Acc(SessionAt(l))' = Acc(l)'
  <2> SUFFICES ASSUME current[acc] # None
               PROVE  SessionAt(l)' \in Opens' /\ SessionAt(l)' <= l /\ Acc(SessionAt(l))' = acc
    OBVIOUS
  <2>1. Acc(SessionAt(l))' = logs'[current[acc]].acc
    BY DEF Acc
  <2>2. logs'[current[acc]].acc = logs[current[acc]].acc
    BY <1>1, <1>2, <1>3 DEF Grown
  <2> QED BY <2>1, <2>2, <1>1, <1>2, <1>3 DEF Acc
<1>5. \A o \in Opens' : Acc(o)' = Acc(l)' /\ o <= l =>
        /\ SessionAt(l)' = None \/ o <= SessionAt(l)'
        /\ SessionAt(l)' = o \/ \E c \in Closes' : SessionAt(c)' = o /\ c < l
  <2> TAKE o \in Opens'
  <2> HAVE Acc(o)' = Acc(l)' /\ o <= l
  <2>1. o \in Opens /\ Acc(o) = acc
    BY <1>1, <1>2
  <2>2. /\ current[acc] = None \/ o <= current[acc]
        /\ current[acc] = o \/ \E c \in Closes : SessionAt(c) = o
    BY <2>1, <1>3
  <2>3. \A c \in Closes : c \in Closes' /\ SessionAt(c)' = SessionAt(c) /\ c < l
    BY <1>1, <1>2
  <2> QED BY <2>2, <2>3
<1>6. \A c \in Closes' : c < l => SessionAt(l)' # SessionAt(c)'
  <2> TAKE c \in Closes'
  <2> HAVE c < l
  <2>1. c \in Closes /\ SessionAt(c)' = SessionAt(c) /\ SessionAt(c) # None
    BY <1>1, <1>2 DEF HoldInv
  <2> QED BY <2>1, <1>3
<1> QED BY <1>4, <1>5, <1>6 DEF Holds

LEMMA OpenChain ==
    ASSUME ChainInv, NEW acc \in Accounts, NEW cm \in Managers, OpenCreditAccount(acc, cm)
    PROVE  ChainInv' /\ Extended
<1> USE DEF ChainInv
<1> DEFINE x == Entry("transfer", acc, cm, None)
           y == Entry("open", acc, cm, Len(logs) + 2)
<1>1. /\ current[acc] = None /\ current' = [current EXCEPT ![acc] = Len(logs) + 2]
      /\ logs' = logs \o <<x, y>> /\ head' = head /\ txs' = txs + 1
  BY DEF OpenCreditAccount, Execute
<1>2. /\ x \in Log /\ y \in Log /\ x.block = head + 1 /\ x.tx = txs + 1
      /\ y.block = head + 1 /\ y.tx = txs + 1
      /\ x.kind = "transfer" /\ y.kind = "open" /\ x.acc = acc /\ y.acc = acc /\ y.cm = cm
      /\ x.ses = None /\ y.ses = Len(logs) + 2
  <2>1. Len(logs) \in Nat /\ head \in Nat /\ txs \in Nat
    BY DomainLogs DEF OrderInv
  <2> QED BY <2>1 DEF Entry, Log, Direct, Received, Events, None
<1> HIDE DEF x, y
<1>3. Grown(2) /\ logs'[Len(logs) + 1] = x /\ logs'[Len(logs) + 2] = y
  BY <1>1, <1>2, GrowTwo
<1>4. PICK n \in Nat : n = Len(logs)
  BY DomainLogs
<1>5. /\ Kind(n + 1)' = "transfer" /\ Kind(n + 2)' = "open" /\ Manager(n + 2)' = cm
      /\ Acc(n + 1)' = acc /\ Acc(n + 2)' = acc
      /\ SessionAt(n + 1)' = None /\ SessionAt(n + 2)' = n + 2
  BY <1>2, <1>3, <1>4 DEF Kind, Manager, Acc, SessionAt
<1>6. OrderInv'
  BY <1>3, GrownOrder
<1>7. TxInv'
  BY <1>3, <1>4, <1>5, EventTx DEF Events
<1>8. /\ DOMAIN logs = 1..n /\ DOMAIN logs' = 1..(n + 2)
      /\ \A l \in DOMAIN logs :
           /\ l \in Nat /\ l \in DOMAIN logs'
           /\ Acc(l)' = Acc(l) /\ SessionAt(l)' = SessionAt(l)
      /\ \A kinds, l : l \in LogsOf(kinds)' <=> l \in DOMAIN logs' /\ Kind(l)' \in kinds
      /\ \A kinds : \A l \in DOMAIN logs : l \in LogsOf(kinds)' <=> l \in LogsOf(kinds)
  BY <1>3, <1>4, GrownFacts
<1>9. /\ \A l \in DOMAIN logs' \ DOMAIN logs : l = n + 1 \/ l = n + 2
      /\ n + 1 \in DOMAIN logs' \ DOMAIN logs /\ n + 2 \in DOMAIN logs' \ DOMAIN logs
  BY <1>8
<1>10. /\ \A l : l \in Opens' <=> l \in Opens \/ l = n + 2
       /\ \A l : l \in Closes' <=> l \in Closes
       /\ Opens \subseteq DOMAIN logs /\ Closes \subseteq DOMAIN logs
       /\ Closes \subseteq LogsOf(Events)
  BY <1>5, <1>8, <1>9 DEF Opens, Closes, LogsOf, Events
<1>11. Holds(n + 1)'
  BY <1>1, <1>3, <1>5, <1>8, <1>9, <1>10, NewHolds
<1>12. Holds(n + 2)'
  <2>1. \A o \in Opens : Acc(o) = acc => \E c \in Closes : SessionAt(c) = o
    BY <1>1, <1>10 DEF CurrentInv, None
  <2>2. SessionAt(n + 2)' # None =>
          /\ SessionAt(n + 2)' \in Opens' /\ SessionAt(n + 2)' <= n + 2
          /\ Acc(SessionAt(n + 2))' = Acc(n + 2)'
    <3>1. Acc(SessionAt(n + 2))' = Acc(n + 2)'
      BY <1>5 DEF Acc
    <3> QED BY <1>5, <1>10, <3>1
  <2>3. \A o \in Opens' : Acc(o)' = Acc(n + 2)' /\ o <= n + 2 =>
          /\ SessionAt(n + 2)' = None \/ o <= SessionAt(n + 2)'
          /\ SessionAt(n + 2)' = o \/ \E c \in Closes' : SessionAt(c)' = o /\ c < n + 2
    <3> TAKE o \in Opens'
    <3> HAVE Acc(o)' = Acc(n + 2)' /\ o <= n + 2
    <3>1. CASE o = n + 2
      BY <3>1, <1>5
    <3>2. CASE o \in Opens
      <4>1. PICK c \in Closes : SessionAt(c) = o
        BY <3>2, <2>1, <1>5, <1>8, <1>10
      <4>2. c \in Closes' /\ SessionAt(c)' = o /\ c < n + 2 /\ o < n + 2
        BY <4>1, <3>2, <1>8, <1>10
      <4> QED BY <4>2, <1>5
    <3> QED BY <3>1, <3>2, <1>10
  <2>4. \A c \in Closes' : c < n + 2 => SessionAt(n + 2)' # SessionAt(c)'
    <3> TAKE c \in Closes'
    <3>1. c \in Closes /\ SessionAt(c)' = SessionAt(c)
      BY <1>8, <1>10
    <3>2. SessionAt(c) <= c /\ c <= n
      BY <3>1, <1>8, <1>10 DEF HoldInv
    <3>3. SessionAt(c) \in Nat
      BY <3>1, <1>10, DomainLogs DEF Log, SessionAt
    <3> QED BY <3>1, <3>2, <3>3, <1>5, <1>8, <1>10
  <2> QED BY <2>2, <2>3, <2>4 DEF Holds
<1>13. HoldInv'
  <2>1. \A l \in DOMAIN logs' \ DOMAIN logs : Holds(l)'
    <3> TAKE l \in DOMAIN logs' \ DOMAIN logs
    <3>1. CASE l = n + 1
      BY <3>1, <1>11
    <3>2. CASE l = n + 2
      BY <3>2, <1>12
    <3> QED BY <3>1, <3>2, <1>9
  <2>2. \A o \in Opens' \ DOMAIN logs : SessionAt(o)' = o
    BY <1>5, <1>10
  <2>3. \A e \in LogsOf(Events)' \ DOMAIN logs :
          SessionAt(e)' # None /\ Manager(SessionAt(e))' = Manager(e)'
    <3> TAKE e \in LogsOf(Events)' \ DOMAIN logs
    <3>1. e = n + 2
      BY <1>5, <1>8, <1>9 DEF Events
    <3>2. SessionAt(e)' = e
      BY <3>1, <1>5
    <3>3. Manager(SessionAt(e))' = Manager(e)'
      BY <3>2 DEF Manager
    <3> QED BY <3>1, <3>2, <3>3 DEF None
  <2> QED BY <2>1, <2>2, <2>3, <1>3, GrownHold
<1>14. CurrentInv'
  <2>1. current' \in [Accounts -> Nat] /\ \A a \in Accounts : current'[a] = IF a = acc THEN n + 2 ELSE current[a]
    BY <1>1, <1>4 DEF CurrentInv
  <2>2. ASSUME NEW a \in Accounts
        PROVE  /\ current'[a] # None =>
                    /\ current'[a] \in Opens' /\ (Acc(current[a]))' = a
                    /\ \A c \in Closes' : SessionAt(c)' # current'[a]
               /\ \A o \in Opens' : Acc(o)' = a =>
                    /\ current'[a] = None \/ o <= current'[a]
                    /\ current'[a] = o \/ \E c \in Closes' : SessionAt(c)' = o
    <3>1. CASE a = acc
      <4>1. current'[a] = n + 2 /\ (Acc(current[a]))' = a
        BY <3>1, <2>1, <1>5 DEF Acc
      <4>2. \A c \in Closes' : SessionAt(c)' # n + 2
        <5> TAKE c \in Closes'
        <5>1. c \in Closes /\ SessionAt(c)' = SessionAt(c)
          BY <1>8, <1>10
        <5>2. SessionAt(c) # None /\ SessionAt(c) \in Opens
          BY <5>1, <1>10 DEF HoldInv
        <5> QED BY <5>1, <5>2, <1>8, <1>10
      <4>3. \A o \in Opens' : Acc(o)' = a => o <= n + 2 /\ (n + 2 = o \/ \E c \in Closes' : SessionAt(c)' = o)
        <5> TAKE o \in Opens'
        <5> HAVE Acc(o)' = a
        <5>1. CASE o \in Opens
          <6>1. Acc(o) = acc /\ o <= n + 2
            BY <5>1, <3>1, <1>8, <1>10
          <6>2. PICK c \in Closes : SessionAt(c) = o
            BY <5>1, <6>1, <1>1 , <1>8, <1>10 DEF CurrentInv, None
          <6> QED BY <6>1, <6>2, <1>8, <1>10
        <5> QED BY <5>1, <1>10
      <4> QED BY <4>1, <4>2, <4>3, <1>10
    <3>2. CASE a # acc
      <4>1. current'[a] = current[a]
        BY <3>2, <2>1
      <4>2. current[a] # None => (Acc(current[a]))' = a
        <5>1. current[a] # None => current[a] \in DOMAIN logs /\ Acc(current[a]) = a
          BY <1>10 DEF CurrentInv
        <5> QED BY <5>1, <4>1, <1>3 DEF Acc, Grown
      <4>3. \A o \in Opens' : Acc(o)' = a => o \in Opens /\ Acc(o) = a
        BY <3>2, <1>5, <1>8, <1>10
      <4> QED BY <4>1, <4>2, <4>3, <1>8, <1>10 DEF CurrentInv
    <3> QED BY <3>1, <3>2
  <2> QED BY <2>1, <2>2 DEF CurrentInv
<1>15. Extended
  BY <1>3, GrownExtended
<1> QED BY <1>6, <1>7, <1>13, <1>14, <1>15

LEMMA OperateChain ==
    ASSUME ChainInv, NEW acc \in Accounts, NEW kind \in {"operation", "move", "close"},
           Operate(acc, kind)
    PROVE  ChainInv' /\ Extended
<1> USE DEF ChainInv
<1>0. PICK s \in Nat, cm \in Managers : s = current[acc] /\ cm = Manager(current[acc])
  <2>1. current[acc] \in Nat /\ current[acc] \in Opens
    BY DEF Operate, CurrentInv
  <2>2. current[acc] \in LogsOf(Events)
    BY <2>1 DEF Opens, LogsOf, Events
  <2> QED BY <2>1, <2>2 DEF TxInv
<1> DEFINE x == Entry("transfer", acc, cm, s)
           y == Entry(kind, acc, cm, s)
<1>1. /\ s # None /\ current' = IF kind = "close" THEN [current EXCEPT ![acc] = None] ELSE current
      /\ logs' = logs \o <<x, y>> /\ head' = head /\ txs' = txs + 1
  BY <1>0 DEF Operate, Execute
<1>2. /\ x \in Log /\ y \in Log /\ x.block = head + 1 /\ x.tx = txs + 1
      /\ y.block = head + 1 /\ y.tx = txs + 1
      /\ x.kind = "transfer" /\ y.kind = kind /\ x.acc = acc /\ y.acc = acc /\ y.cm = cm
      /\ x.ses = s /\ y.ses = s
  <2>1. head \in Nat /\ txs \in Nat
    BY DEF OrderInv
  <2> QED BY <2>1 DEF Entry, Log, Direct, Received, Events
<1> HIDE DEF x, y
<1>3. Grown(2) /\ logs'[Len(logs) + 1] = x /\ logs'[Len(logs) + 2] = y
  BY <1>1, <1>2, GrowTwo
<1>4. PICK n \in Nat : n = Len(logs)
  BY DomainLogs
<1>5. /\ Kind(n + 1)' = "transfer" /\ Kind(n + 2)' = kind /\ Manager(n + 2)' = cm
      /\ Acc(n + 1)' = acc /\ Acc(n + 2)' = acc
      /\ SessionAt(n + 1)' = s /\ SessionAt(n + 2)' = s
  BY <1>2, <1>3, <1>4 DEF Kind, Manager, Acc, SessionAt
<1>6. OrderInv'
  BY <1>3, GrownOrder
<1>7. TxInv'
  BY <1>3, <1>4, <1>5, EventTx DEF Events
<1>8. /\ DOMAIN logs = 1..n /\ DOMAIN logs' = 1..(n + 2)
      /\ \A l \in DOMAIN logs :
           /\ l \in Nat /\ l \in DOMAIN logs'
           /\ Acc(l)' = Acc(l) /\ SessionAt(l)' = SessionAt(l) /\ Manager(l)' = Manager(l)
      /\ \A kinds, l : l \in LogsOf(kinds)' <=> l \in DOMAIN logs' /\ Kind(l)' \in kinds
      /\ \A kinds : \A l \in DOMAIN logs : l \in LogsOf(kinds)' <=> l \in LogsOf(kinds)
  BY <1>3, <1>4, GrownFacts
<1>9. /\ \A l \in DOMAIN logs' \ DOMAIN logs : l = n + 1 \/ l = n + 2
      /\ n + 1 \in DOMAIN logs' \ DOMAIN logs /\ n + 2 \in DOMAIN logs' \ DOMAIN logs
  BY <1>8
<1>10. /\ \A l : l \in Opens' <=> l \in Opens
       /\ \A l : l \in Closes' <=> l \in Closes \/ (l = n + 2 /\ kind = "close")
       /\ Opens \subseteq DOMAIN logs /\ Closes \subseteq DOMAIN logs
  BY <1>5, <1>8, <1>9 DEF Opens, Closes, LogsOf, Events
<1>11. Holds(n + 1)' /\ Holds(n + 2)'
  BY <1>0, <1>3, <1>5, <1>8, <1>9, <1>10, NewHolds
<1>12. /\ s \in Opens /\ Acc(s) = acc /\ s \in DOMAIN logs
       /\ \A c \in Closes : SessionAt(c) # s
       /\ \A o \in Opens : Acc(o) = acc => o <= s /\ (s = o \/ \E c \in Closes : SessionAt(c) = o)
  BY <1>0, <1>1, <1>10 DEF CurrentInv
<1>13. HoldInv'
  <2>1. \A l \in DOMAIN logs' \ DOMAIN logs : Holds(l)'
    <3> TAKE l \in DOMAIN logs' \ DOMAIN logs
    <3>1. CASE l = n + 1
      BY <3>1, <1>11
    <3>2. CASE l = n + 2
      BY <3>2, <1>11
    <3> QED BY <3>1, <3>2, <1>9
  <2>2. \A o \in Opens' \ DOMAIN logs : SessionAt(o)' = o
    BY <1>10
  <2>3. \A e \in LogsOf(Events)' \ DOMAIN logs :
          SessionAt(e)' # None /\ Manager(SessionAt(e))' = Manager(e)'
    <3> TAKE e \in LogsOf(Events)' \ DOMAIN logs
    <3>1. e = n + 2
      BY <1>5, <1>8, <1>9 DEF Events
    <3>2. SessionAt(e)' = s /\ Manager(e)' = cm
      BY <3>1, <1>5
    <3>3. Manager(SessionAt(e))' = logs'[s].cm
      BY <3>2 DEF Manager
    <3>4. logs'[s].cm = cm
      BY <1>0, <1>3, <1>12 DEF Grown, Manager
    <3> QED BY <3>2, <3>3, <3>4, <1>1
  <2> QED BY <2>1, <2>2, <2>3, <1>3, GrownHold
<1>14. CurrentInv'
  <2>1. /\ current' \in [Accounts -> Nat]
        /\ \A a \in Accounts : current'[a] = IF a = acc /\ kind = "close" THEN None ELSE current[a]
    BY <1>1 DEF CurrentInv, None
  <2>2. ASSUME NEW a \in Accounts
        PROVE  /\ current'[a] # None =>
                    /\ current'[a] \in Opens' /\ (Acc(current[a]))' = a
                    /\ \A c \in Closes' : SessionAt(c)' # current'[a]
               /\ \A o \in Opens' : Acc(o)' = a =>
                    /\ current'[a] = None \/ o <= current'[a]
                    /\ current'[a] = o \/ \E c \in Closes' : SessionAt(c)' = o
    <3>0. \A c \in Closes : c \in Closes' /\ SessionAt(c)' = SessionAt(c)
      BY <1>8, <1>10
    <3>1. CASE a = acc /\ kind = "close"
      <4>1. current'[a] = None
        BY <3>1, <2>1
      <4>2. \A o \in Opens' : Acc(o)' = a => \E c \in Closes' : SessionAt(c)' = o
        <5> TAKE o \in Opens'
        <5> HAVE Acc(o)' = a
        <5>1. CASE o = s
          BY <5>1, <3>1, <1>5, <1>10
        <5>2. CASE o # s
          <6>1. o \in Opens /\ Acc(o) = acc
            BY <3>1, <1>8, <1>10
          <6> QED BY <6>1, <5>2, <3>0, <1>12
        <5> QED BY <5>1, <5>2
      <4> QED BY <4>1, <4>2
    <3>2. CASE ~(a = acc /\ kind = "close")
      <4>1. current'[a] = current[a]
        BY <3>2, <2>1
      <4>2. current[a] # None => (Acc(current[a]))' = a
        <5>1. current[a] # None => current[a] \in DOMAIN logs /\ Acc(current[a]) = a
          BY <1>10 DEF CurrentInv
        <5> QED BY <5>1, <4>1, <1>3 DEF Acc, Grown
      <4>3. \A o \in Opens' : Acc(o)' = a => o \in Opens /\ Acc(o) = a
        BY <1>8, <1>10
      <4>4. current[a] # None => \A c \in Closes' : SessionAt(c)' # current[a]
        <5> HAVE current[a] # None
        <5> TAKE c \in Closes'
        <5>1. CASE c \in Closes
          BY <5>1, <3>0 DEF CurrentInv
        <5>2. CASE c = n + 2 /\ kind = "close"
          <6>1. a # acc /\ SessionAt(c)' = s /\ Acc(current[a]) = a
            BY <5>2, <3>2, <1>5 DEF CurrentInv
          <6> QED BY <6>1, <1>12
        <5> QED BY <5>1, <5>2, <1>10
      <4> QED BY <4>1, <4>2, <4>3, <4>4, <3>0, <1>10 DEF CurrentInv
    <3> QED BY <3>1, <3>2
  <2> QED BY <2>1, <2>2 DEF CurrentInv
<1>15. Extended
  BY <1>3, GrownExtended
<1> QED BY <1>6, <1>7, <1>13, <1>14, <1>15

\* A transaction without an event: one log or two, of one kind.
NewDirect(kind) ==
    \A l \in DOMAIN logs' \ DOMAIN logs :
        Kind(l)' = kind /\ Acc(l)' \in Accounts /\ SessionAt(l)' = current[logs'[l].acc]

LEMMA DirectLogsChain ==
    ASSUME ChainInv, NEW kind \in Direct, NEW k \in 1..2, Grown(k), current' = current,
           NewDirect(kind)
    PROVE  ChainInv' /\ Extended
<1> USE DEF ChainInv, NewDirect
<1>1. OrderInv'
  BY GrownOrder
<1>2. /\ Len(logs) \in Nat /\ DOMAIN logs = 1..Len(logs) /\ DOMAIN logs' = 1..(Len(logs) + k)
      /\ \A l \in DOMAIN logs :
           /\ l \in Nat /\ l \in DOMAIN logs'
           /\ Acc(l)' = Acc(l) /\ SessionAt(l)' = SessionAt(l)
      /\ \A kinds, l : l \in LogsOf(kinds)' <=> l \in DOMAIN logs' /\ Kind(l)' \in kinds
      /\ \A kinds : \A l \in DOMAIN logs : l \in LogsOf(kinds)' <=> l \in LogsOf(kinds)
  BY GrownFacts
<1>3. TxInv'
  <2>1. \A l \in DOMAIN logs' : l > Len(logs) => Kind(l)' = kind
    BY <1>2
  <2> QED BY <2>1, DirectTx
<1>4. kind \notin Events
  BY DEF Direct, Received, Events
<1>5. /\ \A l : l \in Opens' <=> l \in Opens
      /\ \A l : l \in Closes' <=> l \in Closes
      /\ Opens \subseteq DOMAIN logs /\ Closes \subseteq DOMAIN logs
      /\ LogsOf(Events)' \subseteq DOMAIN logs
  BY <1>2, <1>4 DEF Opens, Closes, LogsOf, Events
<1>6. HoldInv'
  <2>1. \A l \in DOMAIN logs' \ DOMAIN logs : Holds(l)'
    <3> TAKE l \in DOMAIN logs' \ DOMAIN logs
    <3>1. PICK a \in Accounts : a = Acc(l)'
      OBVIOUS
    <3>2. SessionAt(l)' = current[a]
      BY <3>1 DEF Acc
    <3> QED BY <3>1, <3>2, <1>5, NewHolds
  <2> QED BY <2>1, <1>5, GrownHold
<1>7. CurrentInv'
  <2>2. ASSUME NEW a \in Accounts
        PROVE  /\ current'[a] # None =>
                    /\ current'[a] \in Opens' /\ (Acc(current[a]))' = a
                    /\ \A c \in Closes' : SessionAt(c)' # current'[a]
               /\ \A o \in Opens' : Acc(o)' = a =>
                    /\ current'[a] = None \/ o <= current'[a]
                    /\ current'[a] = o \/ \E c \in Closes' : SessionAt(c)' = o
    <3>1. current[a] # None => (Acc(current[a]))' = a
      <4>1. current[a] # None => current[a] \in DOMAIN logs /\ Acc(current[a]) = a
        BY <1>5 DEF CurrentInv
      <4> QED BY <4>1 DEF Acc, Grown
    <3>2. \A o \in Opens' : o \in Opens /\ Acc(o)' = Acc(o)
      BY <1>2, <1>5
    <3>3. \A c : (c \in Closes' <=> c \in Closes) /\ (c \in Closes => SessionAt(c)' = SessionAt(c))
      BY <1>2, <1>5
    <3> QED BY <3>1, <3>2, <3>3, <1>5 DEF CurrentInv
  <2> QED BY <2>2 DEF CurrentInv
<1>8. Extended
  BY GrownExtended
<1> QED BY <1>1, <1>3, <1>6, <1>7, <1>8

LEMMA DirectOneChain ==
    ASSUME ChainInv, NEW acc \in Accounts, NEW kind \in Direct, DirectTransfer(kind, <<acc>>)
    PROVE  ChainInv' /\ Extended
<1> DEFINE x == Entry(kind, acc, "none", current[acc])
<1>1. /\ logs' = logs \o [i \in DOMAIN <<acc>> |-> Entry(kind, <<acc>>[i], "none", current[<<acc>>[i]])]
      /\ head' = head /\ txs' = txs + 1 /\ current' = current
  BY DEF DirectTransfer, Execute
<1>2. [i \in DOMAIN <<acc>> |-> Entry(kind, <<acc>>[i], "none", current[<<acc>>[i]])] = <<x>>
  BY DEF Entry
<1>3. /\ x \in Log /\ x.block = head + 1 /\ x.tx = txs + 1
      /\ x.kind = kind /\ x.acc = acc /\ x.ses = current[acc]
  <2>1. head \in Nat /\ txs \in Nat /\ current[acc] \in Nat
    BY DEF ChainInv, OrderInv, CurrentInv
  <2> QED BY <2>1 DEF Entry, Log
<1> HIDE DEF x
<1>4. Grown(1) /\ logs'[Len(logs) + 1] = x
  BY <1>1, <1>2, <1>3, GrowOne DEF ChainInv
<1>5. \A l \in DOMAIN logs' \ DOMAIN logs : l = Len(logs) + 1
  BY <1>4, DomainLogs DEF Grown, ChainInv
<1>6. NewDirect(kind)
  BY <1>3, <1>4, <1>5 DEF NewDirect, Kind, Acc, SessionAt
<1>7. 1 \in 1..2
  OBVIOUS
<1> QED BY <1>1, <1>4, <1>6, <1>7, DirectLogsChain

LEMMA DirectTwoChain ==
    ASSUME ChainInv, NEW acc \in Accounts, NEW other \in Accounts, NEW kind \in Direct,
           DirectTransfer(kind, <<acc, other>>)
    PROVE  ChainInv' /\ Extended
<1> DEFINE x == Entry(kind, acc, "none", current[acc])
           y == Entry(kind, other, "none", current[other])
           to == <<acc, other>>
<1>1. /\ logs' = logs \o [i \in DOMAIN to |-> Entry(kind, to[i], "none", current[to[i]])]
      /\ head' = head /\ txs' = txs + 1 /\ current' = current
  BY DEF DirectTransfer, Execute
<1>2. [i \in DOMAIN to |-> Entry(kind, to[i], "none", current[to[i]])] = <<x, y>>
  BY DEF Entry
<1>3. /\ x \in Log /\ x.block = head + 1 /\ x.tx = txs + 1
      /\ x.kind = kind /\ x.acc = acc /\ x.ses = current[acc]
      /\ y \in Log /\ y.block = head + 1 /\ y.tx = txs + 1
      /\ y.kind = kind /\ y.acc = other /\ y.ses = current[other]
  <2>1. head \in Nat /\ txs \in Nat /\ current[acc] \in Nat /\ current[other] \in Nat
    BY DEF ChainInv, OrderInv, CurrentInv
  <2> QED BY <2>1 DEF Entry, Log
<1> HIDE DEF x, y, to
<1>4. Grown(2) /\ logs'[Len(logs) + 1] = x /\ logs'[Len(logs) + 2] = y
  <2>1. logs' = logs \o <<x, y>>
    BY <1>1, <1>2
  <2> QED BY <2>1, <1>1, <1>3, GrowTwo DEF ChainInv
<1>5. \A l \in DOMAIN logs' \ DOMAIN logs : l = Len(logs) + 1 \/ l = Len(logs) + 2
  BY <1>4, DomainLogs DEF Grown, ChainInv
<1>6. NewDirect(kind)
  <2> USE DEF NewDirect
  <2> TAKE l \in DOMAIN logs' \ DOMAIN logs
  <2>1. CASE l = Len(logs) + 1
    BY <2>1, <1>3, <1>4 DEF Kind, Acc, SessionAt
  <2>2. CASE l = Len(logs) + 2
    BY <2>2, <1>3, <1>4 DEF Kind, Acc, SessionAt
  <2> QED BY <2>1, <2>2, <1>5
<1>7. 2 \in 1..2
  OBVIOUS
<1> QED BY <1>1, <1>4, <1>6, <1>7, DirectLogsChain

LEMMA ChainRests ==
    ASSUME ChainInv, UNCHANGED <<logs, txs, current>>, head' \in Nat, head <= head'
    PROVE  ChainInv'
<1>0. logs' = logs /\ current' = current
  OBVIOUS
<1>1. OrderInv'
  <2>1. \A l \in DOMAIN logs : Block(l) \in Nat /\ Block(l) <= head + 1 /\ Tx(l) <= txs
    BY DomainLogs DEF ChainInv, OrderInv, Log, Block
  <2>2. \A l \in DOMAIN logs' : Block(l)' <= head' + 1 /\ Tx(l)' <= txs'
    BY <2>1 DEF ChainInv, OrderInv, Block, Tx
  <2> QED BY <2>2 DEF ChainInv, OrderInv, Block, Tx
<1>2. TxInv'
  BY DEF ChainInv, TxInv, LogsOf, Kind, Tx, Manager
<1>3. HoldInv'
  <2>1. HoldInv
    BY DEF ChainInv
  <2> QED BY <2>1, <1>0 DEF HoldInv, Opens, Closes, LogsOf, Kind, Acc, SessionAt, Manager
<1>4. CurrentInv'
  <2>1. CurrentInv
    BY DEF ChainInv
  <2> QED BY <2>1, <1>0 DEF CurrentInv, Opens, Closes, LogsOf, Kind, Acc, SessionAt
<1> QED BY <1>1, <1>2, <1>3, <1>4 DEF ChainInv

\* The steps of the indexer leave the chain alone, and those of the chain the indexer.
Indexer == Query \/ OnLogs \/ AfterSync \/ Restart

LEMMA IndexerChain ==
    ASSUME Indexer
    PROVE  UNCHANGED <<head, logs, txs, current>>
<1>1. ASSUME NEW l, OnLog(l)
      PROVE  UNCHANGED <<head, logs, txs, current>>
  BY <1>1 DEF OnLog, chainVars
<1>2. ASSUME NEW taken, NEW cms, NEW b, FetchFromDCForChangedSessions(taken, cms, b)
      PROVE  UNCHANGED <<head, logs, txs, current>>
  BY <1>2 DEF FetchFromDCForChangedSessions, chainVars
<1>3. CASE Query \/ EndBlock \/ AfterSync
  BY <1>3 DEF Query, EndBlock, AfterSync, chainVars
<1>4. CASE Restart
  BY <1>4 DEF Restart, chainVars
<1>5. CASE OnBlockChange \/ UpdateSessionWithDirectTokenTransferBefore
  BY <1>5, <1>2 DEF OnBlockChange, UpdateSessionWithDirectTokenTransferBefore
<1>6. CASE \E l \in DOMAIN logs : \/ OnOpenCreditAccount(l) \/ OnOperation(l)
                                  \/ OnTransferAccount(l) \/ OnCloseCreditAccount(l)
  BY <1>6, <1>1 DEF OnOpenCreditAccount, OnOperation, OnTransferAccount, OnCloseCreditAccount
<1> QED BY <1>3, <1>4, <1>5, <1>6 DEF Indexer, OnLogs

LEMMA ChainActions ==
    ASSUME Chain
    PROVE  /\ Idle
           /\ UNCHANGED <<transferVars, sessionVars, rowVars, syncVars, roundVars, seenVars>>
<1>1. ASSUME NEW STATE es, Execute(es)
      PROVE  /\ Idle
             /\ UNCHANGED <<transferVars, sessionVars, rowVars, syncVars, roundVars, seenVars>>
  BY <1>1 DEF Execute
<1>2. CASE \E acc \in Accounts, cm \in Managers : OpenCreditAccount(acc, cm)
  BY <1>2, <1>1 DEF OpenCreditAccount
<1>3. CASE \E acc \in Accounts, kind \in {"operation", "move", "close"} : Operate(acc, kind)
  BY <1>3, <1>1 DEF Operate
<1>4. ASSUME NEW kind, NEW to, DirectTransfer(kind, to)
      PROVE  /\ Idle
             /\ UNCHANGED <<transferVars, sessionVars, rowVars, syncVars, roundVars, seenVars>>
  BY <1>4, <1>1 DEF DirectTransfer
<1>5. CASE NewBlock
  BY <1>5 DEF NewBlock
<1> QED BY <1>2, <1>3, <1>4, <1>5 DEF Chain

LEMMA ChainGrows ==
    ASSUME ChainInv, Chain
    PROVE  ChainInv' /\ Extended
<1>1. CASE \E acc \in Accounts, cm \in Managers : OpenCreditAccount(acc, cm)
  BY <1>1, OpenChain
<1>2. CASE \E acc \in Accounts, kind \in {"operation", "move", "close"} : Operate(acc, kind)
  BY <1>2, OperateChain
<1>3. CASE \E acc \in Accounts, kind \in {"deposit", "zero"} : DirectTransfer(kind, <<acc>>)
  BY <1>3, DirectOneChain DEF Direct, Received
<1>4. CASE \E acc, other \in Accounts : DirectTransfer("reward", <<acc, other>>)
  BY <1>4, DirectTwoChain DEF Direct, Received
<1>5. CASE NewBlock
  <2>1. head \in Nat /\ head' = head + 1 /\ logs' = logs
    BY <1>5 DEF NewBlock, ChainInv, OrderInv
  <2>2. head' \in Nat /\ head <= head'
    BY <2>1
  <2>3. ChainInv'
    BY <1>5, <2>2, ChainRests DEF NewBlock
  <2> QED BY <2>1, <2>2, <2>3 DEF Extended
<1> QED BY <1>1, <1>2, <1>3, <1>4, <1>5 DEF Chain

LEMMA ChainPreserved ==
    ASSUME ChainInv, [Next]_vars
    PROVE  ChainInv'
<1>1. CASE Chain
  BY <1>1, ChainGrows
<1>2. CASE Indexer \/ UNCHANGED vars
  <2>1. UNCHANGED <<head, logs, txs, current>>
    BY <1>2, IndexerChain DEF vars, chainVars
  <2>2. head' \in Nat /\ head <= head'
    BY <2>1 DEF ChainInv, OrderInv
  <2> QED BY <2>1, <2>2, ChainRests
<1> QED BY <1>1, <1>2 DEF Next, Indexer

-----------------------------------------------------------------------------
(***************************************************************************)
(* The sessions of an account follow each other, and the session that      *)
(* GetCreditOwnerSession finds for the next event is the one it belongs to *)
(***************************************************************************)
LEMMA LogTypes ==
    ASSUME ChainInv
    PROVE  /\ head \in Nat /\ Len(logs) \in Nat /\ DOMAIN logs = 1..Len(logs)
           /\ \A l \in DOMAIN logs :
                /\ l \in Nat /\ l # 0 /\ Block(l) \in Nat /\ Block(l) # 0 /\ Tx(l) \in Nat
                /\ Acc(l) \in Accounts /\ SessionAt(l) \in Nat
           /\ \A kinds, l : l \in LogsOf(kinds) <=> l \in DOMAIN logs /\ Kind(l) \in kinds
           /\ \A k, l \in DOMAIN logs : Block(k) < Block(l) => k < l
           /\ \A l : l \in Opens <=> l \in DOMAIN logs /\ Kind(l) = "open"
           /\ \A l : l \in Closes <=> l \in DOMAIN logs /\ Kind(l) = "close"
<1>1. head \in Nat /\ DOMAIN logs = 1..Len(logs) /\ Len(logs) \in Nat
  BY DomainLogs DEF ChainInv, OrderInv
<1>2. \A l \in DOMAIN logs : logs[l] \in Log
  BY DomainLogs DEF ChainInv
<1>3. \A l \in DOMAIN logs :
        /\ l \in Nat /\ l # 0 /\ Block(l) \in Nat /\ Block(l) # 0 /\ Tx(l) \in Nat
        /\ Acc(l) \in Accounts /\ SessionAt(l) \in Nat
  BY <1>1, <1>2 DEF Log, Block, Tx, Acc, SessionAt
<1>4. \A k, l \in DOMAIN logs : Block(k) < Block(l) => k < l
  BY <1>1, <1>3 DEF ChainInv, OrderInv
<1> QED BY <1>1, <1>3, <1>4 DEF LogsOf, Opens, Closes

LEMMA FiniteLogs ==
    ASSUME ChainInv, NEW STATE S, S \subseteq DOMAIN logs
    PROVE  IsFiniteSet(S) /\ Cardinality(S) \in Nat
<1>1. IsFiniteSet(DOMAIN logs)
  BY LogTypes, FS_Interval
<1>2. IsFiniteSet(S)
  BY <1>1, FS_Subset
<1> QED BY <1>2, FS_CardinalityType

LEMMA ClosedBeforeNext ==
    ASSUME ChainInv, NEW o \in Opens, NEW k \in Opens, Acc(o) = Acc(k), o < k
    PROVE  \E c \in Closes : SessionAt(c) = o /\ c < k
<1>1. SessionAt(k) = k /\ k \in DOMAIN logs /\ o \in DOMAIN logs
  BY LogTypes DEF ChainInv, HoldInv
<1> QED BY <1>1, LogTypes DEF ChainInv, HoldInv

LEMMA OneClose ==
    ASSUME ChainInv, NEW c \in Closes, NEW k \in Closes, SessionAt(c) = SessionAt(k)
    PROVE  c = k
<1>1. c \in DOMAIN logs /\ k \in DOMAIN logs /\ c \in Nat /\ k \in Nat
  BY LogTypes
<1>2. ~(c < k) /\ ~(k < c)
  BY <1>1 DEF ChainInv, HoldInv
<1> QED BY <1>1, <1>2

NextEvent(l) ==
    /\ l \in BatchLogs(Events) /\ l > at
    /\ \A e \in BatchLogs(Events) : e > at => l <= e

LEMMA EventsBefore ==
    ASSUME ChainInv, StepInv, NEW l, NextEvent(l)
    PROVE  /\ l \in LogsOf(Events) /\ l \in DOMAIN logs /\ lastSync < Block(l) /\ Block(l) <= till
           /\ \A e \in LogsOf(Events) : Handled(e) <=> e < l
<1>1. l \in LogsOf(Events) /\ l \in DOMAIN logs /\ lastSync < Block(l) /\ Block(l) <= till
  BY DEF NextEvent, BatchLogs, LogsOf
<1>2. lastSync \in Nat /\ till \in Nat /\ at \in Nat
  BY DEF StepInv
<1>3. ASSUME NEW e \in LogsOf(Events)
      PROVE  Handled(e) <=> e < l
  <2>1. e \in DOMAIN logs /\ e \in Nat /\ Block(e) \in Nat /\ l \in Nat /\ Block(l) \in Nat
    BY <1>1, <1>3, LogTypes
  <2>2. Handled(e) => e < l
    BY <1>1, <1>2, <2>1, LogTypes DEF Handled, NextEvent
  <2>3. ASSUME e < l
        PROVE  Handled(e)
    <3>1. Block(e) <= Block(l)
      BY <2>1, <2>3, <1>1 DEF ChainInv, OrderInv
    <3>2. Block(e) > lastSync => e \in BatchLogs(Events)
      BY <3>1, <2>1, <1>1, <1>2 DEF BatchLogs
    <3> QED BY <3>2, <2>1, <2>3, <1>2 DEF Handled, NextEvent
  <2> QED BY <2>2, <2>3
<1> QED BY <1>1, <1>3

LEMMA OwnerSession ==
    ASSUME ChainInv, StepInv, SessionInv, NEW l, NextEvent(l), Kind(l) # "open"
    PROVE  /\ SessionAt(l) \in DOMAIN sessions /\ Acc(SessionAt(l)) = Acc(l)
           /\ SessionAt(l) < l /\ sessions[SessionAt(l)].closeLog = None
           /\ GetCreditOwnerSession(l) = SessionAt(l)
<1>1. /\ l \in LogsOf(Events) /\ l \in DOMAIN logs
      /\ \A e \in LogsOf(Events) : Handled(e) <=> e < l
  BY EventsBefore
<1>2. PICK s : s = SessionAt(l)
  OBVIOUS
<1>3. s \in Opens /\ s <= l /\ Acc(s) = Acc(l)
  BY <1>1, <1>2 DEF ChainInv, HoldInv
<1>4. s < l /\ s \in LogsOf(Events)
  <2>1. s \in DOMAIN logs /\ s \in Nat /\ Kind(s) = "open" /\ l \in Nat
    BY <1>1, <1>3, LogTypes
  <2> QED BY <2>1, <1>3, LogTypes DEF Events
<1>5. DOMAIN sessions = Opens \cap HandledLogs
  BY DEF SessionInv, SessionsOf
<1>6. s \in DOMAIN sessions
  BY <1>1, <1>3, <1>4, <1>5, LogTypes DEF HandledLogs
<1>7. sessions[s].closeLog = None
  <2> SUFFICES ASSUME sessions[s].closeLog # None
               PROVE  FALSE
    OBVIOUS
  <2>1. PICK c \in Closes \cap HandledLogs : SessionAt(c) = s
    BY <1>5, <1>6 DEF SessionInv, SessionsOf
  <2>2. c \in LogsOf(Events) /\ Handled(c)
    BY <2>1, LogTypes DEF HandledLogs, Events
  <2>3. c < l
    BY <2>2, <1>1
  <2> QED BY <2>1, <2>3, <1>1, <1>2 DEF ChainInv, HoldInv
<1>8. ASSUME NEW t \in DOMAIN sessions, Acc(t) = Acc(l), sessions[t].closeLog = None
      PROVE  t = s
  <2>1. t \in Opens /\ t \in LogsOf(Events) /\ Handled(t)
    BY <1>5, <1>8, LogTypes DEF HandledLogs, Events
  <2>2. t <= l
    BY <2>1, <1>1, LogTypes
  <2>3. s = t \/ \E c \in Closes : SessionAt(c) = t /\ c < l
    BY <2>1, <2>2, <1>1, <1>2, <1>8 DEF ChainInv, HoldInv
  <2>4. ASSUME NEW c \in Closes, SessionAt(c) = t, c < l
        PROVE  FALSE
    <3>1. c \in LogsOf(Events) /\ c \in DOMAIN logs /\ c # 0
      BY LogTypes DEF Events
    <3>2. c \in HandledLogs
      BY <3>1, <2>4, <1>1 DEF HandledLogs
    <3>3. sessions[t].closeLog = c
      BY <3>2, <2>4, <1>5, <1>8 DEF SessionInv, SessionsOf
    <3> QED BY <3>1, <3>3, <1>8 DEF None
  <2> QED BY <2>3, <2>4
<1>9. GetCreditOwnerSession(l) = s
  <2>1. \E t \in DOMAIN sessions : Acc(t) = Acc(l) /\ sessions[t].closeLog = None
    BY <1>3, <1>6, <1>7
  <2>2. GetCreditOwnerSession(l) \in DOMAIN sessions
        /\ Acc(GetCreditOwnerSession(l)) = Acc(l) /\ sessions[GetCreditOwnerSession(l)].closeLog = None
    BY <2>1 DEF GetCreditOwnerSession
  <2> QED BY <2>2, <1>8
<1> QED BY <1>2, <1>3, <1>4, <1>6, <1>7, <1>9

-----------------------------------------------------------------------------
(***************************************************************************)
(* The sessions in memory and in the database                              *)
(***************************************************************************)
LEMMA SameLogs ==
    ASSUME logs' = logs
    PROVE  /\ \A l : /\ Kind(l)' = Kind(l) /\ Acc(l)' = Acc(l) /\ Manager(l)' = Manager(l)
                     /\ Block(l)' = Block(l) /\ Tx(l)' = Tx(l) /\ SessionAt(l)' = SessionAt(l)
           /\ \A kinds : LogsOf(kinds)' = LogsOf(kinds)
           /\ Opens' = Opens /\ Closes' = Closes
BY DEF Kind, Acc, Manager, Block, Tx, SessionAt, LogsOf, Opens, Closes

LEMMA SameLogsExtend ==
    ASSUME ChainInv, logs' = logs, head' = head
    PROVE  Extended
BY DEF ChainInv, OrderInv, Extended

LEMMA SessionsOfSame ==
    ASSUME ChainInv, NEW f, NEW G, NEW H, SessionsOf(f, G), \A e \in LogsOf(Events) : e \in G <=> e \in H
    PROVE  SessionsOf(f, H)
<1>1. /\ Opens \subseteq LogsOf(Events) /\ Closes \subseteq LogsOf(Events)
      /\ LogsOf({"move"}) \subseteq LogsOf(Events)
  BY LogTypes DEF Events
<1>2. Opens \cap G = Opens \cap H /\ Closes \cap G = Closes \cap H
  BY <1>1
<1>3. LogsOf({"move"}) \cap G = LogsOf({"move"}) \cap H
  BY <1>1
<1> QED BY <1>2, <1>3 DEF SessionsOf

LEMMA SessionsOfExtended ==
    ASSUME ChainInv, Extended, NEW f, NEW H, H \subseteq DOMAIN logs, SessionsOf(f, H)
    PROVE  SessionsOf(f, H)'
<1>1. \A l \in H : /\ SessionAt(l)' = SessionAt(l)
                   /\ \A kinds : l \in LogsOf(kinds)' <=> l \in LogsOf(kinds)
  BY DEF Extended, SessionAt, LogsOf, Kind
<1>2. Opens' \cap H = Opens \cap H /\ Closes' \cap H = Closes \cap H
  BY <1>1 DEF Opens, Closes
<1>3. ASSUME NEW s
      PROVE  {l \in LogsOf({"move"})' \cap H : SessionAt(l)' = s}
               = {l \in LogsOf({"move"}) \cap H : SessionAt(l) = s}
  BY <1>1
<1>4. f \in [Opens' \cap H -> SessionRecord]
  BY <1>2 DEF SessionsOf
<1>5. ASSUME NEW s \in Opens' \cap H
      PROVE  /\ f[s].closeLog # None =>
                  f[s].closeLog \in Closes' \cap H /\ (SessionAt(f[s].closeLog))' = s
             /\ \A c \in Closes' \cap H : SessionAt(c)' = s => f[s].closeLog = c
             /\ f[s].owner = Cardinality({l \in LogsOf({"move"})' \cap H : SessionAt(l)' = s})
  <2>1. s \in Opens \cap H
    BY <1>2, <1>5
  <2>2. f[s].closeLog # None => f[s].closeLog \in Closes' \cap H /\ (SessionAt(f[s].closeLog))' = s
    BY <2>1, <1>2, <1>1 DEF SessionsOf, SessionAt
  <2>3. \A c \in Closes' \cap H : SessionAt(c)' = s => f[s].closeLog = c
    BY <2>1, <1>1, <1>2 DEF SessionsOf
  <2>4. f[s].owner = Cardinality({l \in LogsOf({"move"})' \cap H : SessionAt(l)' = s})
    BY <2>1, <1>3 DEF SessionsOf
  <2> QED BY <2>2, <2>3, <2>4
<1> QED BY <1>4, <1>5 DEF SessionsOf

LEMMA SessionsStep ==
    ASSUME ChainInv, Extended, NEW f, NEW H, f = sessions', SessionsOf(f, H),
           HandledLogs' \subseteq DOMAIN logs,
           \A e \in LogsOf(Events) : e \in H <=> e \in HandledLogs'
    PROVE  SessionsOf(sessions, HandledLogs)'
<1>1. PICK G : G = HandledLogs'
  OBVIOUS
<1>2. SessionsOf(f, G)
  BY <1>1, SessionsOfSame
<1>3. SessionsOf(f, G)'
  BY <1>1, <1>2, SessionsOfExtended
<1> QED BY <1>1, <1>3 DEF SessionsOf, SessionAt

LEMMA SavedStep ==
    ASSUME ChainInv, Extended, NEW f, NEW H, f = saved'.sessions, SessionsOf(f, H),
           SavedPart' \subseteq DOMAIN logs,
           \A e \in LogsOf(Events) : e \in H <=> e \in SavedPart'
    PROVE  SessionsOf(saved.sessions, SavedPart)'
<1>1. PICK G : G = SavedPart'
  OBVIOUS
<1>2. SessionsOf(f, G)
  BY <1>1, SessionsOfSame
<1>3. SessionsOf(f, G)'
  BY <1>1, <1>2, SessionsOfExtended
<1> QED BY <1>1, <1>3 DEF SessionsOf, SessionAt

\* While the chain grows nothing new is handled.
LEMMA ChainHandled ==
    ASSUME ChainInv, ChainInv', StepInv, Extended, Idle, lastSync' = lastSync, at' = at
    PROVE  HandledLogs' = HandledLogs /\ SavedPart' = SavedPart
<1>1. lastSync \in Nat /\ head \in Nat /\ lastSync <= head /\ at = 0
  BY DEF StepInv, ChainInv, OrderInv, Idle
<1>2. \A l \in DOMAIN logs : Block(l)' = Block(l) /\ l \in DOMAIN logs'
  BY DEF Extended, Block
<1>3. \A l \in DOMAIN logs' : l \in Nat /\ l # 0 /\ Block(l)' \in Nat
  <2>1. logs' \in Seq(Log)
    BY DEF ChainInv, OrderInv
  <2>2. DOMAIN logs' = 1..Len(logs') /\ Len(logs') \in Nat /\ \A l \in DOMAIN logs' : logs'[l] \in Log
    BY <2>1
  <2> QED BY <2>2 DEF Log, Block
<1>4. \A l \in DOMAIN logs' : Block(l)' <= lastSync => l \in DOMAIN logs
  <2> TAKE l \in DOMAIN logs'
  <2>1. l \notin DOMAIN logs => Block(l)' > head
    BY DEF Extended, Block
  <2> QED BY <2>1, <1>1, <1>3
<1>5. \A l : l \in SavedPart' <=> l \in SavedPart
  BY <1>1, <1>2, <1>4 DEF SavedPart
<1>6. \A l : l \in HandledLogs' <=> l \in HandledLogs
  <2>1. \A l \in DOMAIN logs' : Handled(l)' <=> Block(l)' <= lastSync
    BY <1>1, <1>3 DEF Handled
  <2>2. \A l \in DOMAIN logs : Handled(l) <=> Block(l) <= lastSync
    BY <1>1, <1>2, <1>3 DEF Handled
  <2> QED BY <2>1, <2>2, <1>2, <1>4 DEF HandledLogs
<1>7. HandledLogs' = HandledLogs
  BY <1>6 DEF HandledLogs
<1> QED BY <1>5, <1>7 DEF SavedPart

LEMMA SameHandled ==
    ASSUME logs' = logs, lastSync' = lastSync, at' = at
    PROVE  HandledLogs' = HandledLogs /\ SavedPart' = SavedPart
BY DEF HandledLogs, SavedPart, Handled, Block

LEMMA SessionsRest ==
    ASSUME ChainInv, Extended, SessionInv, sessions' = sessions, saved' = saved,
           HandledLogs' = HandledLogs, SavedPart' = SavedPart
    PROVE  SessionInv'
<1>1. HandledLogs' \subseteq DOMAIN logs /\ SavedPart' \subseteq DOMAIN logs
  BY DEF HandledLogs, SavedPart
<1>2. PICK f, g, G, H : f = sessions' /\ g = saved'.sessions /\ G = HandledLogs /\ H = SavedPart
  OBVIOUS
<1>3. SessionsOf(f, G) /\ SessionsOf(g, H)
  BY <1>2 DEF SessionInv
<1>4. SessionsOf(sessions, HandledLogs)'
  BY <1>1, <1>2, <1>3, SessionsStep
<1>5. SessionsOf(saved.sessions, SavedPart)'
  BY <1>1, <1>2, <1>3, SavedStep
<1> QED BY <1>4, <1>5 DEF SessionInv

LEMMA SavedRest ==
    ASSUME ChainInv, Extended, SessionInv, saved' = saved, SavedPart' = SavedPart
    PROVE  SessionsOf(saved.sessions, SavedPart)'
<1>1. SavedPart' \subseteq DOMAIN logs
  BY DEF SavedPart
<1>2. PICK g, H : g = saved'.sessions /\ H = SavedPart
  OBVIOUS
<1>3. SessionsOf(g, H)
  BY <1>2 DEF SessionInv
<1> QED BY <1>1, <1>2, <1>3, SavedStep

\* The number of transfers that are counted for a session.
LEMMA CountedNumber ==
    ASSUME ChainInv, NEW STATE taken, NEW ses
    PROVE  IsFiniteSet(CountedFor(taken, ses)) /\ Cardinality(CountedFor(taken, ses)) \in Nat
<1>1. CountedFor(taken, ses) \subseteq DOMAIN logs
  BY DEF CountedFor
<1> QED BY <1>1, FiniteLogs

\* A fetch changes the collateral and the balances of sessions, nothing else.
LEMMA FetchSessions ==
    ASSUME ChainInv, SessionInv, NEW STATE taken, NEW STATE cms, NEW STATE b, b \in Nat,
           Closed(cms) # {} => b # 0,
           FetchFromDCForChangedSessions(taken, cms, b)
    PROVE  /\ DOMAIN sessions' = DOMAIN sessions
           /\ sessions' \in [DOMAIN sessions -> SessionRecord]
           /\ \A s \in DOMAIN sessions : /\ sessions'[s].owner = sessions[s].owner
                                         /\ sessions'[s].closeLog = sessions[s].closeLog
<1>1. sessions \in [DOMAIN sessions -> SessionRecord]
  BY DEF SessionInv, SessionsOf
<1>2. \A s \in DOMAIN sessions : Collateral(taken, s) \in Nat
  <2> TAKE s \in DOMAIN sessions
  <2>1. Cardinality(CountedFor(taken, s)) \in Nat
    BY CountedNumber
  <2>2. sessions[s].collateral \in Nat
    BY <1>1 DEF SessionRecord
  <2> QED BY <2>1, <2>2 DEF Collateral
<1>3. \A s : FetchBlock(cms, s, b) \in Nat
  BY DEF FetchBlock
<1>4. sessions' = [s \in DOMAIN sessions |->
                     [sessions[s] EXCEPT !.collateral = Collateral(taken, s),
                                         !.balancesAt = IF s \in Fetched(taken, cms, b)
                                                        THEN FetchBlock(cms, s, b) ELSE @]]
  BY DEF FetchFromDCForChangedSessions
<1>5. ASSUME NEW s \in DOMAIN sessions
      PROVE  /\ sessions'[s] \in SessionRecord
             /\ sessions'[s].owner = sessions[s].owner /\ sessions'[s].closeLog = sessions[s].closeLog
  <2>1. PICK c, d \in Nat : sessions'[s] = [sessions[s] EXCEPT !.collateral = c, !.balancesAt = d]
    <3>1. sessions[s].balancesAt \in Nat
      BY <1>1 DEF SessionRecord
    <3>2. PICK d \in Nat : d = IF s \in Fetched(taken, cms, b) THEN FetchBlock(cms, s, b)
                              ELSE sessions[s].balancesAt
      BY <1>3, <3>1
    <3>3. PICK c \in Nat : c = Collateral(taken, s)
      BY <1>2
    <3> QED BY <1>4, <3>2, <3>3
  <2>2. sessions[s] \in SessionRecord
    BY <1>1
  <2> QED BY <2>1, <2>2 DEF SessionRecord
<1> QED BY <1>4, <1>5

LEMMA FetchSessionInv ==
    ASSUME ChainInv, SessionInv, NEW STATE taken, NEW STATE cms, NEW STATE b, b \in Nat,
           Closed(cms) # {} => b # 0,
           FetchFromDCForChangedSessions(taken, cms, b)
    PROVE  SessionInv'
<1>1. /\ logs' = logs /\ head' = head /\ lastSync' = lastSync /\ at' = at /\ saved' = saved
  BY DEF FetchFromDCForChangedSessions, chainVars
<1>2. HandledLogs' = HandledLogs /\ SavedPart' = SavedPart /\ Extended
  BY <1>1, SameHandled, SameLogsExtend
<1>3. PICK f, H : f = sessions' /\ H = HandledLogs
  OBVIOUS
<1>4. SessionsOf(f, H)
  <2>1. SessionsOf(sessions, H)
    BY <1>3 DEF SessionInv
  <2>2. /\ f \in [DOMAIN sessions -> SessionRecord]
        /\ \A s \in DOMAIN sessions : f[s].owner = sessions[s].owner /\ f[s].closeLog = sessions[s].closeLog
    BY <1>3, FetchSessions
  <2>3. DOMAIN sessions = Opens \cap H
    BY <2>1 DEF SessionsOf
  <2> QED BY <2>1, <2>2, <2>3 DEF SessionsOf
<1>5. SessionsOf(sessions, HandledLogs)'
  <2>1. HandledLogs' \subseteq DOMAIN logs
    BY <1>2 DEF HandledLogs
  <2> QED BY <2>1, <1>2, <1>3, <1>4, SessionsStep
<1> QED BY <1>1, <1>2, <1>5, SavedRest DEF SessionInv

LEMMA OnLogFacts ==
    ASSUME ChainInv, StepInv, NEW l, OnLog(l)
    PROVE  /\ NextEvent(l) /\ l \in DOMAIN logs /\ l \in LogsOf(Events) /\ l \in Nat /\ l # 0
           /\ logs' = logs /\ head' = head /\ lastSync' = lastSync /\ saved' = saved /\ till' = till
           /\ at' = l /\ ~stopped /\ step = "logs" /\ stopped' = stopped
           /\ Extended /\ SavedPart' = SavedPart /\ HandledLogs' \subseteq DOMAIN logs
           /\ l \notin HandledLogs
           /\ \A e \in LogsOf(Events) : e \in HandledLogs' <=> e \in HandledLogs \/ e = l
           /\ \A e \in LogsOf(Events) : e \in HandledLogs <=> e < l
<1>1. /\ NextEvent(l) /\ logs' = logs /\ head' = head /\ lastSync' = lastSync /\ saved' = saved
      /\ till' = till /\ at' = l /\ ~stopped /\ step = "logs" /\ stopped' = stopped
  BY DEF OnLog, NextEvent, chainVars, syncVars
<1>2. /\ l \in LogsOf(Events) /\ l \in DOMAIN logs
      /\ \A e \in LogsOf(Events) : Handled(e) <=> e < l
  BY <1>1, EventsBefore
<1>3. l \in Nat /\ l # 0
  BY <1>2, LogTypes
<1>4. Extended /\ SavedPart' = SavedPart
  BY <1>1, SameLogsExtend DEF SavedPart, Block
<1>5. HandledLogs' \subseteq DOMAIN logs
  BY <1>1 DEF HandledLogs
<1>6. \A e \in LogsOf(Events) : e \in HandledLogs <=> e < l
  BY <1>2, LogTypes DEF HandledLogs
<1>7. \A e \in LogsOf(Events) : e \in HandledLogs' <=> Block(e) <= lastSync \/ e <= l
  BY <1>1, LogTypes DEF HandledLogs, Handled, Block
<1>8. \A e \in LogsOf(Events) : Block(e) <= lastSync => e < l
  BY <1>2 DEF Handled
<1>9. \A e \in LogsOf(Events) : e \in HandledLogs' <=> e \in HandledLogs \/ e = l
  BY <1>3, <1>6, <1>7, <1>8, LogTypes
<1> QED BY <1>1, <1>2, <1>3, <1>4, <1>5, <1>6, <1>9

\* The sessions after an event: what is left to show is about the handled
\* logs and the event.
LEMMA OnLogSessions ==
    ASSUME ChainInv, StepInv, SessionInv, NEW l, OnLog(l), NEW f, f = sessions',
           NEW H, H = HandledLogs \cup {l}, SessionsOf(f, H)
    PROVE  SessionInv'
<1>1. /\ Extended /\ saved' = saved /\ SavedPart' = SavedPart /\ HandledLogs' \subseteq DOMAIN logs
      /\ \A e \in LogsOf(Events) : e \in HandledLogs' <=> e \in H
  BY OnLogFacts
<1>2. SessionsOf(sessions, HandledLogs)'
  BY <1>1, SessionsStep
<1> QED BY <1>1, <1>2, SavedRest DEF SessionInv

LEMMA OpenSessions ==
    ASSUME ChainInv, StepInv, SessionInv, NEW l, OnOpenCreditAccount(l)
    PROVE  SessionInv'
<1>1. OnLog(l) /\ Kind(l) = "open"
  BY DEF OnOpenCreditAccount
<1>2. PICK f, H : f = sessions' /\ H = HandledLogs \cup {l}
  OBVIOUS
<1>3. f = [s \in DOMAIN sessions \cup {l} |-> IF s = l THEN NewSession ELSE sessions[s]]
  BY <1>2 DEF OnOpenCreditAccount
<1>4. /\ l \in DOMAIN logs /\ l \in LogsOf(Events) /\ l \notin HandledLogs /\ l \in Opens
      /\ \A e \in LogsOf(Events) : e \in HandledLogs <=> e < l
  BY <1>1, OnLogFacts, LogTypes
<1>5. SessionsOf(sessions, HandledLogs)
  BY DEF SessionInv
<1>6. Opens \cap H = (Opens \cap HandledLogs) \cup {l} /\ DOMAIN sessions = Opens \cap HandledLogs
  BY <1>2, <1>4, <1>5 DEF SessionsOf
<1>7. Closes \cap H = Closes \cap HandledLogs /\ LogsOf({"move"}) \cap H = LogsOf({"move"}) \cap HandledLogs
  BY <1>1, <1>2, <1>4, LogTypes
<1>8. \A e \in (Closes \cup LogsOf({"move"})) \cap HandledLogs : SessionAt(e) # l
  <2> TAKE e \in (Closes \cup LogsOf({"move"})) \cap HandledLogs
  <2>1. e \in LogsOf(Events) /\ e \in DOMAIN logs
    BY LogTypes DEF Events
  <2>2. e < l /\ SessionAt(e) <= e
    BY <2>1, <1>4 DEF ChainInv, HoldInv
  <2>3. SessionAt(e) \in Nat /\ e \in Nat /\ l \in Nat
    BY <2>1, <1>4, LogTypes
  <2> QED BY <2>2, <2>3
<1>9. NewSession \in SessionRecord
  BY DEF NewSession, SessionRecord, None
<1>10. f \in [Opens \cap H -> SessionRecord]
  BY <1>3, <1>5, <1>6, <1>9 DEF SessionsOf
<1>11. ASSUME NEW s \in Opens \cap H
       PROVE  /\ f[s].closeLog # None => f[s].closeLog \in Closes \cap H /\ SessionAt(f[s].closeLog) = s
              /\ \A c \in Closes \cap H : SessionAt(c) = s => f[s].closeLog = c
              /\ f[s].owner = Cardinality({k \in LogsOf({"move"}) \cap H : SessionAt(k) = s})
  <2>1. CASE s = l
    <3>1. f[s] = NewSession
      BY <2>1, <1>3
    <3>2. {k \in LogsOf({"move"}) \cap H : SessionAt(k) = s} = {}
      BY <2>1, <1>7, <1>8
    <3>3. Cardinality({k \in LogsOf({"move"}) \cap H : SessionAt(k) = s}) = 0
      BY <3>2, FS_EmptySet
    <3> QED BY <3>1, <3>3, <2>1, <1>7, <1>8 DEF NewSession
  <2>2. CASE s # l
    <3>1. s \in Opens \cap HandledLogs /\ f[s] = sessions[s]
      BY <2>2, <1>3, <1>6, <1>11
    <3> QED BY <3>1, <1>5, <1>7 DEF SessionsOf
  <2> QED BY <2>1, <2>2
<1>12. SessionsOf(f, H)
  BY <1>10, <1>11 DEF SessionsOf
<1> QED BY <1>1, <1>2, <1>12, OnLogSessions

LEMMA OperationSessions ==
    ASSUME ChainInv, StepInv, SessionInv, NEW l, OnOperation(l)
    PROVE  SessionInv'
<1>1. OnLog(l) /\ Kind(l) = "operation" /\ sessions' = sessions
  BY DEF OnOperation
<1>2. PICK f, H : f = sessions' /\ H = HandledLogs \cup {l}
  OBVIOUS
<1>3. SessionsOf(sessions, HandledLogs)
  BY DEF SessionInv
<1>4. /\ Opens \cap H = Opens \cap HandledLogs /\ Closes \cap H = Closes \cap HandledLogs
      /\ LogsOf({"move"}) \cap H = LogsOf({"move"}) \cap HandledLogs
  BY <1>1, <1>2, LogTypes
<1>5. SessionsOf(f, H)
  BY <1>1, <1>2, <1>3, <1>4 DEF SessionsOf
<1> QED BY <1>1, <1>2, <1>5, OnLogSessions

LEMMA TransferAccountSessions ==
    ASSUME ChainInv, StepInv, SessionInv, NEW l, OnTransferAccount(l)
    PROVE  SessionInv'
<1>1. OnLog(l) /\ Kind(l) = "move"
  BY DEF OnTransferAccount
<1>2. /\ NextEvent(l) /\ l \in DOMAIN logs /\ l \notin HandledLogs
  BY <1>1, OnLogFacts
<1>3. PICK s : s = SessionAt(l)
  OBVIOUS
<1>4. s \in DOMAIN sessions /\ GetCreditOwnerSession(l) = s
  BY <1>1, <1>2, <1>3, OwnerSession
<1>5. PICK f, H : f = sessions' /\ H = HandledLogs \cup {l}
  OBVIOUS
<1>6. f = [sessions EXCEPT ![s].owner = @ + 1]
  BY <1>4, <1>5 DEF OnTransferAccount
<1>7. SessionsOf(sessions, HandledLogs) /\ DOMAIN sessions = Opens \cap HandledLogs
  BY DEF SessionInv, SessionsOf
<1>8. /\ Opens \cap H = Opens \cap HandledLogs /\ Closes \cap H = Closes \cap HandledLogs
      /\ LogsOf({"move"}) \cap H = (LogsOf({"move"}) \cap HandledLogs) \cup {l}
  BY <1>1, <1>2, <1>5, LogTypes
<1>9. f \in [Opens \cap H -> SessionRecord]
  <2>1. sessions[s] \in SessionRecord
    BY <1>4, <1>7 DEF SessionsOf
  <2>2. [sessions[s] EXCEPT !.owner = @ + 1] \in SessionRecord
    BY <2>1 DEF SessionRecord
  <2> QED BY <2>2, <1>4, <1>6, <1>7, <1>8 DEF SessionsOf
<1>10. ASSUME NEW t \in Opens \cap H
       PROVE  /\ f[t].closeLog # None => f[t].closeLog \in Closes \cap H /\ SessionAt(f[t].closeLog) = t
              /\ \A c \in Closes \cap H : SessionAt(c) = t => f[t].closeLog = c
              /\ f[t].owner = Cardinality({k \in LogsOf({"move"}) \cap H : SessionAt(k) = t})
  <2> DEFINE M == {k \in LogsOf({"move"}) \cap HandledLogs : SessionAt(k) = t}
  <2>0. t \in Opens \cap HandledLogs /\ sessions[t].owner = Cardinality(M)
    BY <1>7, <1>8 DEF SessionsOf
  <2>1. CASE t = s
    <3>1. f[t].closeLog = sessions[t].closeLog /\ f[t].owner = sessions[t].owner + 1
      <4>1. sessions[s] \in SessionRecord
        BY <1>4, <1>7 DEF SessionsOf
      <4>2. f[t] = [sessions[s] EXCEPT !.owner = @ + 1]
        BY <2>1, <1>4, <1>6
      <4> QED BY <4>1, <4>2, <2>1 DEF SessionRecord
    <3>2. {k \in LogsOf({"move"}) \cap H : SessionAt(k) = t} = M \cup {l}
      BY <2>1, <1>3, <1>8
    <3>3. IsFiniteSet(M)
      <4>1. M \subseteq DOMAIN logs
        BY LogTypes
      <4> HIDE DEF M
      <4> QED BY <4>1, FiniteLogs
    <3>4. Cardinality(M \cup {l}) = Cardinality(M) + 1
      BY <3>3, <1>2, FS_AddElement
    <3> QED BY <3>1, <3>2, <3>4, <2>0, <1>7, <1>8 DEF SessionsOf
  <2>2. CASE t # s
    <3>1. f[t] = sessions[t]
      BY <2>2, <2>0, <1>6, <1>7
    <3>2. {k \in LogsOf({"move"}) \cap H : SessionAt(k) = t} = M
      BY <2>2, <1>3, <1>8
    <3> QED BY <3>1, <3>2, <2>0, <1>7, <1>8 DEF SessionsOf
  <2> QED BY <2>1, <2>2
<1>11. SessionsOf(f, H)
  BY <1>9, <1>10 DEF SessionsOf
<1> QED BY <1>1, <1>5, <1>11, OnLogSessions

LEMMA CloseSessions ==
    ASSUME ChainInv, StepInv, SessionInv, NEW l, OnCloseCreditAccount(l)
    PROVE  SessionInv'
<1>1. OnLog(l) /\ Kind(l) = "close"
  BY DEF OnCloseCreditAccount
<1>2. /\ NextEvent(l) /\ l \in DOMAIN logs /\ l \in Nat /\ l # 0 /\ l \notin HandledLogs
  BY <1>1, OnLogFacts
<1>3. PICK s : s = SessionAt(l)
  OBVIOUS
<1>4. s \in DOMAIN sessions /\ GetCreditOwnerSession(l) = s
  BY <1>1, <1>2, <1>3, OwnerSession
<1>5. PICK f, H : f = sessions' /\ H = HandledLogs \cup {l}
  OBVIOUS
<1>6. f = [sessions EXCEPT ![s].closeLog = l]
  BY <1>4, <1>5 DEF OnCloseCreditAccount
<1>7. SessionsOf(sessions, HandledLogs) /\ DOMAIN sessions = Opens \cap HandledLogs
  BY DEF SessionInv, SessionsOf
<1>8. /\ Opens \cap H = Opens \cap HandledLogs /\ l \in Closes
      /\ Closes \cap H = (Closes \cap HandledLogs) \cup {l}
      /\ LogsOf({"move"}) \cap H = LogsOf({"move"}) \cap HandledLogs
  BY <1>1, <1>2, <1>5, LogTypes
<1>9. sessions[s] \in SessionRecord
  BY <1>4, <1>7 DEF SessionsOf
<1>10. f \in [Opens \cap H -> SessionRecord]
  <2>2. [sessions[s] EXCEPT !.closeLog = l] \in SessionRecord
    BY <1>2, <1>9 DEF SessionRecord
  <2> QED BY <2>2, <1>4, <1>6, <1>7, <1>8 DEF SessionsOf
<1>11. ASSUME NEW t \in Opens \cap H
       PROVE  /\ f[t].closeLog # None => f[t].closeLog \in Closes \cap H /\ SessionAt(f[t].closeLog) = t
              /\ \A c \in Closes \cap H : SessionAt(c) = t => f[t].closeLog = c
              /\ f[t].owner = Cardinality({k \in LogsOf({"move"}) \cap H : SessionAt(k) = t})
  <2>1. CASE t = s
    <3>1. f[t].closeLog = l /\ f[t].owner = sessions[t].owner
      <4>2. f[t] = [sessions[s] EXCEPT !.closeLog = l]
        BY <2>1, <1>4, <1>6
      <4> QED BY <4>2, <2>1, <1>9 DEF SessionRecord
    <3>2. \A c \in Closes \cap H : SessionAt(c) = t => l = c
      BY <2>1, <1>3, <1>8, OneClose
    <3> QED BY <3>1, <3>2, <2>1, <1>3, <1>7, <1>8 DEF SessionsOf
  <2>2. CASE t # s
    <3>1. f[t] = sessions[t]
      BY <2>2, <1>6, <1>7, <1>8
    <3> QED BY <3>1, <2>2, <1>3, <1>7, <1>8 DEF SessionsOf
  <2> QED BY <2>1, <2>2
<1>12. SessionsOf(f, H)
  BY <1>10, <1>11 DEF SessionsOf
<1> QED BY <1>1, <1>5, <1>12, OnLogSessions

LEMMA FlushFacts ==
    ASSUME ChainInv, StepInv, AfterSync
    PROVE  /\ logs' = logs /\ head' = head /\ lastSync' = till /\ at' = 0 /\ Extended
           /\ till = head /\ lastSync < till
           /\ \A l \in DOMAIN logs : Block(l) <= till
           /\ \A e \in LogsOf(Events) : e \in HandledLogs
           /\ HandledLogs' = DOMAIN logs /\ SavedPart' = DOMAIN logs
<1>1. logs' = logs /\ head' = head /\ lastSync' = till /\ at' = 0 /\ step = "flush"
  BY DEF AfterSync, chainVars
<1>2. till = head /\ lastSync < till /\ BlockComplete /\ \A e \in BatchLogs(Events) : e <= at
  BY <1>1 DEF StepInv
<1>3. \A l \in DOMAIN logs : Block(l) <= till
  BY <1>2 DEF BlockComplete
<1>4. \A e \in LogsOf(Events) : e \in HandledLogs
  <2> TAKE e \in LogsOf(Events)
  <2>1. e \in DOMAIN logs /\ Block(e) \in Nat /\ lastSync \in Nat
    BY LogTypes DEF StepInv
  <2>2. Block(e) > lastSync => e \in BatchLogs(Events)
    BY <2>1, <1>3 DEF BatchLogs
  <2> QED BY <2>1, <2>2, <1>2 DEF HandledLogs, Handled
<1>5. HandledLogs' = DOMAIN logs /\ SavedPart' = DOMAIN logs
  BY <1>1, <1>3 DEF HandledLogs, SavedPart, Handled, Block
<1>6. Extended
  BY <1>1, SameLogsExtend
<1> QED BY <1>1, <1>2, <1>3, <1>4, <1>5, <1>6

LEMMA AfterSyncSessions ==
    ASSUME ChainInv, StepInv, SessionInv, AfterSync
    PROVE  SessionInv'
<1>1. PICK f, H : f = sessions /\ H = HandledLogs
  OBVIOUS
<1>2. f = sessions' /\ f = saved'.sessions /\ SessionsOf(f, H)
  BY <1>1 DEF AfterSync, sessionVars, SessionInv
<1>3. \A e \in LogsOf(Events) : e \in H <=> e \in DOMAIN logs
  BY <1>1, FlushFacts, LogTypes
<1>4. SessionsOf(sessions, HandledLogs)'
  BY <1>2, <1>3, FlushFacts, SessionsStep
<1>5. SessionsOf(saved.sessions, SavedPart)'
  BY <1>2, <1>3, FlushFacts, SavedStep
<1> QED BY <1>4, <1>5 DEF SessionInv

LEMMA LeastExists ==
    ASSUME NEW T \in SUBSET Nat, T # {}
    PROVE  \E x \in T : \A y \in T : x <= y
<1> DEFINE R == OpToRel(<, Nat)
<1>1. IsWellFoundedOn(R, Nat)
  BY NatLessThanWellFounded
<1>2. \A x, y \in Nat : <<y, x>> \in R <=> y < x
  BY DEF OpToRel
<1> HIDE DEF R
<1>3. PICK x \in T : \A y \in T : ~(<<y, x>> \in R)
  BY <1>1, WFMin
<1>4. \A y \in T : ~(y < x)
  BY <1>2, <1>3, Zenon
<1> QED BY <1>4

LEMMA NewestSnapshotOf ==
    ASSUME ChainInv, SnapshotInv, NEW ses, SnapshotsOf(ses) # {}
    PROVE  /\ NewestSnapshot(ses) \in SnapshotsOf(ses)
           /\ \A y \in SnapshotsOf(ses) : y.block <= NewestSnapshot(ses).block
<1> DEFINE T == {head - x.block : x \in SnapshotsOf(ses)}
<1>1. head \in Nat /\ \A x \in SnapshotsOf(ses) : x \in SnapshotRecord /\ x.block \in Nat /\ x.block <= head
  BY LogTypes DEF SnapshotInv, SnapshotsOf, SnapshotRecord
<1>2. T \in SUBSET Nat /\ T # {}
  BY <1>1
<1>3. PICK m \in T : \A n \in T : m <= n
  BY <1>2, LeastExists
<1>4. PICK x \in SnapshotsOf(ses) : m = head - x.block
  BY <1>3
<1>5. ASSUME NEW y \in SnapshotsOf(ses)
      PROVE  y.block <= x.block
  <2>1. head - y.block \in T
    OBVIOUS
  <2>2. m <= head - y.block
    BY <2>1, <1>3
  <2> QED BY <2>2, <1>1, <1>4
<1> QED BY <1>5 DEF NewestSnapshot

LEMMA LoadedSession ==
    ASSUME ChainInv, SessionInv, SnapshotInv, NEW s \in DOMAIN saved.sessions
    PROVE  /\ LoadCreditSession(s) \in SessionRecord
           /\ LoadCreditSession(s).owner = saved.sessions[s].owner
           /\ LoadCreditSession(s).closeLog = saved.sessions[s].closeLog
           /\ LoadCreditSession(s).balancesAt = saved.sessions[s].balancesAt
<1>1. saved.sessions[s] \in SessionRecord
  BY DEF SessionInv, SessionsOf
<1>2. CASE SnapshotsOf(s) = {}
  BY <1>1, <1>2 DEF LoadCreditSession
<1>3. CASE SnapshotsOf(s) # {}
  <2>1. NewestSnapshot(s) \in SnapshotsOf(s)
    BY <1>3, NewestSnapshotOf
  <2>2. PICK c \in Nat : c = NewestSnapshot(s).collateral
    BY <2>1 DEF SnapshotInv, SnapshotsOf, SnapshotRecord
  <2>3. LoadCreditSession(s) = [saved.sessions[s] EXCEPT !.collateral = c]
    BY <1>3, <2>2 DEF LoadCreditSession
  <2> QED BY <2>3, <1>1 DEF SessionRecord
<1> QED BY <1>2, <1>3

LEMMA RestartSessions ==
    ASSUME ChainInv, StepInv, SessionInv, SnapshotInv, Restart
    PROVE  SessionInv'
<1>1. /\ logs' = logs /\ head' = head /\ lastSync' = lastSync /\ at' = 0 /\ saved' = saved
      /\ sessions' = [s \in DOMAIN saved.sessions |-> LoadCreditSession(s)]
  BY DEF Restart, chainVars
<1>2. Extended
  BY <1>1, SameLogsExtend
<1>3. SavedPart' = SavedPart
  BY <1>1 DEF SavedPart, Block
<1>4. \A l \in DOMAIN logs : Handled(l)' <=> Block(l) <= lastSync
  BY <1>1, LogTypes DEF Handled, Block
<1>5. HandledLogs' = SavedPart
  BY <1>1, <1>4 DEF HandledLogs, SavedPart
<1>6. PICK f, g, H : f = sessions' /\ g = saved.sessions /\ H = SavedPart
  OBVIOUS
<1>7. SessionsOf(g, H)
  BY <1>6 DEF SessionInv
<1>8. /\ f \in [DOMAIN g -> SessionRecord]
      /\ \A s \in DOMAIN g : f[s].owner = g[s].owner /\ f[s].closeLog = g[s].closeLog
  BY <1>1, <1>6, LoadedSession
<1>9. SessionsOf(f, H)
  <2>1. DOMAIN g = Opens \cap H
    BY <1>7 DEF SessionsOf
  <2> QED BY <2>1, <1>7, <1>8 DEF SessionsOf
<1>10. SessionsOf(sessions, HandledLogs)'
  <2>1. HandledLogs' \subseteq DOMAIN logs
    BY <1>5 DEF SavedPart
  <2> QED BY <2>1, <1>2, <1>5, <1>6, <1>9, SessionsStep
<1> QED BY <1>1, <1>2, <1>3, <1>10, SavedRest DEF SessionInv

LEMMA ChainSessions ==
    ASSUME ChainInv, StepInv, SessionInv, Chain
    PROVE  SessionInv'
<1>1. ChainInv' /\ Extended
  BY ChainGrows
<1>2. Idle /\ lastSync' = lastSync /\ at' = at /\ sessions' = sessions /\ saved' = saved
  BY ChainActions DEF syncVars, roundVars, sessionVars
<1>3. HandledLogs' = HandledLogs /\ SavedPart' = SavedPart
  BY <1>1, <1>2, ChainHandled
<1> QED BY <1>1, <1>2, <1>3, SessionsRest

-----------------------------------------------------------------------------
(***************************************************************************)
(* The round                                                               *)
(***************************************************************************)
LEMMA ChainStepInv ==
    ASSUME ChainInv, StepInv, Chain
    PROVE  StepInv'
<1>1. Extended /\ head \in Nat
  BY ChainGrows, LogTypes
<1>2. /\ Idle /\ lastSync' = lastSync /\ stopped' = stopped /\ step' = step /\ till' = till /\ at' = at
      /\ restarts' = restarts
  BY ChainActions DEF syncVars, roundVars, seenVars
<1>3. step = "idle" /\ at = 0
  BY <1>2 DEF Idle, StepInv
<1>4. lastSync <= head'
  BY <1>1 DEF Extended, StepInv
<1> QED BY <1>2, <1>3, <1>4 DEF StepInv, Idle

LEMMA QueryStepInv ==
    ASSUME ChainInv, StepInv, Query
    PROVE  StepInv'
<1>1. /\ logs' = logs /\ head' = head /\ till' = head /\ at' = at /\ lastSync' = lastSync
      /\ stopped' = stopped /\ restarts' = restarts /\ Idle /\ BlockComplete /\ head > lastSync
      /\ step' = IF \E l \in LogsOf(Events) : lastSync < Block(l) THEN "logs" ELSE "flush"
  BY DEF Query, chainVars, syncVars, seenVars
<1>2. at = 0 /\ head \in Nat /\ lastSync \in Nat
  BY <1>1, LogTypes DEF StepInv, Idle
<1>3. BlockComplete'
  BY <1>1 DEF BlockComplete, Block
<1>4. step' = "flush" => \A e \in BatchLogs(Events)' : e <= at'
  BY <1>1 DEF BatchLogs, LogsOf, Block, Kind
<1> QED BY <1>1, <1>2, <1>3, <1>4 DEF StepInv, Idle

LEMMA SameBatch ==
    ASSUME logs' = logs, lastSync' = lastSync, till' = till
    PROVE  \A kinds : BatchLogs(kinds)' = BatchLogs(kinds)
BY DEF BatchLogs, LogsOf, Kind, Block

LEMMA OnLogStepInv ==
    ASSUME ChainInv, StepInv, NEW l, OnLog(l)
    PROVE  StepInv'
<1>1. /\ NextEvent(l) /\ l \in DOMAIN logs /\ l \in Nat /\ l # 0
      /\ logs' = logs /\ head' = head /\ lastSync' = lastSync /\ till' = till
      /\ at' = l /\ ~stopped /\ step = "logs" /\ stopped' = stopped
  BY OnLogFacts
<1>2. /\ restarts' = restarts
      /\ step' = IF \E e \in BatchLogs(Events) : e > l /\ Block(e) = Block(l) THEN "logs" ELSE "block"
  BY DEF OnLog, seenVars
<1>3. BlockComplete' <=> BlockComplete
  BY <1>1 DEF BlockComplete, Block
<1>4. \A kinds : BatchLogs(kinds)' = BatchLogs(kinds)
  BY <1>1, SameBatch
<1>5. l \in BatchLogs(Events)
  BY <1>1 DEF NextEvent
<1>6. step' = "block" => NoMore(Block(at))'
  <2> SUFFICES ASSUME step' = "block", NEW e \in BatchLogs(Events), e > l
               PROVE  Block(e) > Block(l)
    BY <1>1, <1>4 DEF NoMore, Block
  <2>1. Block(e) # Block(l)
    BY <1>2
  <2>2. e \in DOMAIN logs /\ Block(e) \in Nat /\ Block(l) \in Nat
    BY <1>1, LogTypes DEF BatchLogs
  <2>3. Block(l) <= Block(e)
    BY <2>2, <1>1 DEF ChainInv, OrderInv
  <2> QED BY <2>1, <2>2, <2>3
<1> QED BY <1>1, <1>2, <1>3, <1>4, <1>5, <1>6 DEF StepInv

LEMMA FetchStepInv ==
    ASSUME ChainInv, StepInv, NEW STATE taken, NEW STATE cms, NEW STATE b,
           FetchFromDCForChangedSessions(taken, cms, b), step \in {"block", "before"}, step' = "before"
    PROVE  StepInv'
<1>1. /\ logs' = logs /\ head' = head /\ lastSync' = lastSync /\ till' = till /\ at' = at
      /\ restarts' = restarts /\ stopped' \in BOOLEAN
  BY DEF FetchFromDCForChangedSessions, chainVars, seenVars
<1>2. BlockComplete' <=> BlockComplete
  BY <1>1 DEF BlockComplete, Block
<1>3. \A kinds : BatchLogs(kinds)' = BatchLogs(kinds)
  BY <1>1, SameBatch
<1>4. NoMore(Block(at))' <=> NoMore(Block(at))
  BY <1>1, <1>3 DEF NoMore, Block
<1> QED BY <1>1, <1>2, <1>3, <1>4 DEF StepInv

LEMMA EndBlockStepInv ==
    ASSUME ChainInv, StepInv, EndBlock
    PROVE  StepInv'
<1>1. /\ logs' = logs /\ head' = head /\ lastSync' = lastSync /\ till' = till /\ at' = at
      /\ restarts' = restarts /\ stopped' = stopped /\ ~stopped /\ step = "before"
      /\ step' = IF \E e \in BatchLogs(Events) : e > at THEN "logs" ELSE "flush"
  BY DEF EndBlock, chainVars, syncVars, seenVars
<1>2. BlockComplete' <=> BlockComplete
  BY <1>1 DEF BlockComplete, Block
<1>3. \A kinds : BatchLogs(kinds)' = BatchLogs(kinds)
  BY <1>1, SameBatch
<1>4. step' = "flush" => \A e \in BatchLogs(Events) : e <= at
  <2>1. \A e \in BatchLogs(Events) : e \in Nat
    BY LogTypes DEF BatchLogs
  <2> QED BY <1>1, <2>1 DEF StepInv
<1> QED BY <1>1, <1>2, <1>3, <1>4 DEF StepInv

LEMMA AfterSyncStepInv ==
    ASSUME ChainInv, StepInv, AfterSync
    PROVE  StepInv'
<1>1. /\ head' = head /\ lastSync' = till /\ till' = till /\ at' = 0 /\ step' = "idle"
      /\ restarts' = restarts /\ stopped' = stopped /\ ~stopped /\ till = head
  BY FlushFacts DEF AfterSync
<1> QED BY <1>1, LogTypes DEF StepInv

LEMMA RestartStepInv ==
    ASSUME ChainInv, StepInv, Restart
    PROVE  StepInv'
<1>0. stopped' = FALSE
  BY DEF Restart
<1>1. /\ head' = head /\ lastSync' = lastSync /\ till' = lastSync /\ at' = 0 /\ step' = "idle"
      /\ restarts' = restarts + 1
  BY DEF Restart, chainVars
<1>2. restarts' \in Nat /\ lastSync \in Nat /\ lastSync <= head
  BY <1>1 DEF StepInv
<1>3. stopped' \in BOOLEAN
  BY <1>0, Zenon
<1>4. ~stopped'
  BY <1>0, Zenon
<1> QED BY <1>1, <1>2, <1>3, <1>4 DEF StepInv

-----------------------------------------------------------------------------
LEMMA NothingToFetch ==
    ASSUME updated' \in [Managers -> {{}}], closed' \in [Managers -> {{}}],
           lastEventBlock' \in [Managers -> {0}], ~InBlock'
    PROVE  FetchInv'
<1>1. /\ updated' \in [Managers -> SUBSET Nat] /\ closed' \in [Managers -> SUBSET Nat]
      /\ lastEventBlock' \in [Managers -> Nat]
      /\ \A cm \in Managers : updated'[cm] = {} /\ closed'[cm] = {} /\ lastEventBlock'[cm] = 0
  OBVIOUS
<1> QED BY <1>1 DEF FetchInv

LEMMA EmptyRests ==
    ASSUME FetchInv, ~InBlock
    PROVE  /\ updated \in [Managers -> {{}}] /\ closed \in [Managers -> {{}}]
           /\ lastEventBlock \in [Managers -> {0}]
BY DEF FetchInv

LEMMA QuietFetchInv ==
    ASSUME ChainInv, StepInv, FetchInv, Chain \/ Query \/ EndBlock \/ AfterSync
    PROVE  FetchInv'
<1>1. updated' = updated /\ closed' = closed /\ lastEventBlock' = lastEventBlock
  <2>1. CASE Chain
    BY <2>1, ChainActions DEF sessionVars
  <2>2. CASE Query \/ EndBlock \/ AfterSync
    BY <2>2 DEF Query, EndBlock, AfterSync, sessionVars
  <2> QED BY <2>1, <2>2
<1>2. ~InBlock /\ ~InBlock'
  <2>1. CASE Chain
    BY <2>1, ChainActions DEF Idle, StepInv, InBlock, roundVars
  <2>2. CASE Query
    BY <2>2 DEF Query, Idle, StepInv, InBlock
  <2>3. CASE AfterSync
    BY <2>3 DEF AfterSync, StepInv, InBlock
  <2>4. CASE EndBlock
    <3>1. /\ step = "before" /\ NoMore(Block(at)) /\ step' \in {"logs", "flush"}
          /\ logs' = logs /\ lastSync' = lastSync /\ till' = till /\ at' = at
      BY <2>4 DEF EndBlock, StepInv, chainVars, syncVars
    <3>2. NoMore(Block(at))'
      BY <3>1, SameBatch DEF NoMore, Block
    <3> QED BY <3>1, <3>2 DEF InBlock
  <2> QED BY <2>1, <2>2, <2>3, <2>4
<1> QED BY <1>1, <1>2, EmptyRests, NothingToFetch

LEMMA RestartFetchInv ==
    ASSUME Restart
    PROVE  FetchInv'
<1>1. /\ updated' \in [Managers -> {{}}] /\ closed' \in [Managers -> {{}}]
      /\ lastEventBlock' \in [Managers -> {0}] /\ at' = 0
  BY DEF Restart
<1> QED BY <1>1, NothingToFetch DEF InBlock

LEMMA BlockChangeFetchInv ==
    ASSUME StepInv, FetchInv, OnBlockChange
    PROVE  FetchInv'
<1> DEFINE cms == {cm \in Managers : lastEventBlock[cm] = Block(at)}
<1>1. /\ updated' = [cm \in Managers |-> IF cm \in cms THEN {} ELSE updated[cm]]
      /\ closed' = [cm \in Managers |-> IF cm \in cms THEN {} ELSE closed[cm]]
      /\ lastEventBlock' = [cm \in Managers |-> IF cm \in cms THEN 0 ELSE lastEventBlock[cm]]
      /\ step' = "before"
  BY DEF OnBlockChange, FetchFromDCForChangedSessions
<1>2. \A cm \in Managers : cm \notin cms =>
        updated[cm] = {} /\ closed[cm] = {} /\ lastEventBlock[cm] = 0
  BY DEF FetchInv
<1> QED BY <1>1, <1>2, NothingToFetch DEF InBlock

LEMMA BeforeFetchInv ==
    ASSUME StepInv, FetchInv, UpdateSessionWithDirectTokenTransferBefore
    PROVE  FetchInv'
<1>1. step = "before" /\ step' = "before" /\ lastEventBlock' = lastEventBlock
  BY DEF UpdateSessionWithDirectTokenTransferBefore
<1>2. updated' \in [Managers -> {{}}] /\ closed' \in [Managers -> {{}}]
  BY DEF UpdateSessionWithDirectTokenTransferBefore, FetchFromDCForChangedSessions
<1>3. ~InBlock /\ ~InBlock'
  BY <1>1 DEF InBlock
<1> QED BY <1>1, <1>2, <1>3, EmptyRests, NothingToFetch

\* The next event is in the block that is being handled.
LEMMA SameBlockEvent ==
    ASSUME ChainInv, StepInv, NEW l, OnLog(l), InBlock
    PROVE  Block(l) = Block(at) /\ at \in DOMAIN logs /\ at < l
<1>1. NextEvent(l) /\ l \in DOMAIN logs /\ step = "logs" /\ l \in Nat
  BY OnLogFacts
<1>2. at # 0 /\ at \in BatchLogs(Events) /\ ~NoMore(Block(at))
  BY <1>1 DEF InBlock, StepInv
<1>3. at \in DOMAIN logs /\ Block(at) \in Nat /\ at \in Nat
  BY <1>2, LogTypes DEF BatchLogs
<1>4. PICK e \in BatchLogs(Events) : e > at /\ ~(Block(e) > Block(at))
  BY <1>2 DEF NoMore
<1>5. e \in DOMAIN logs /\ e \in Nat /\ Block(e) \in Nat /\ Block(l) \in Nat
  BY <1>1, LogTypes DEF BatchLogs
<1>6. l <= e /\ at < l
  BY <1>1, <1>3, <1>4, <1>5 DEF NextEvent
<1>7. l = e \/ Block(l) <= Block(e)
  BY <1>1, <1>5, <1>6 DEF ChainInv, OrderInv
<1>8. Block(at) <= Block(l)
  BY <1>1, <1>3, <1>6 DEF ChainInv, OrderInv
<1> QED BY <1>3, <1>4, <1>5, <1>6, <1>7, <1>8

LEMMA OnLogInBlock ==
    ASSUME ChainInv, StepInv, NEW l, OnLog(l)
    PROVE  InBlock'
<1>1. /\ logs' = logs /\ lastSync' = lastSync /\ till' = till /\ at' = l /\ l # 0
      /\ l \in DOMAIN logs
  BY OnLogFacts
<1>2. step' = IF \E e \in BatchLogs(Events) : e > l /\ Block(e) = Block(l) THEN "logs" ELSE "block"
  BY DEF OnLog
<1>3. CASE \E e \in BatchLogs(Events) : e > l /\ Block(e) = Block(l)
  <2>1. PICK e \in BatchLogs(Events) : e > l /\ Block(e) = Block(l)
    BY <1>3
  <2>2. Block(l) \in Nat
    BY <1>1, LogTypes
  <2>3. ~NoMore(Block(at))'
    BY <2>1, <2>2, <1>1, SameBatch DEF NoMore, Block
  <2> QED BY <1>1, <1>2, <1>3, <2>3 DEF InBlock
<1>4. CASE ~\E e \in BatchLogs(Events) : e > l /\ Block(e) = Block(l)
  BY <1>1, <1>2, <1>4 DEF InBlock
<1> QED BY <1>3, <1>4

\* Events of the block of the next event that were handled before it.
LEMMA HandledInBlock ==
    ASSUME ChainInv, StepInv, NEW l, OnLog(l), NEW e \in BatchLogs(Events), e < l, Block(e) = Block(l)
    PROVE  e <= at /\ Block(at) = Block(l) /\ InBlock
<1>1. NextEvent(l) /\ l \in DOMAIN logs /\ step = "logs" /\ l \in Nat /\ Block(l) \in Nat /\ Block(l) # 0
  BY OnLogFacts, LogTypes
<1>2. e \in DOMAIN logs /\ e \in Nat /\ at \in Nat /\ e # 0
  BY LogTypes DEF StepInv, BatchLogs
<1>3. e <= at
  BY <1>1, <1>2 DEF NextEvent
<1>4. at # 0 /\ at \in BatchLogs(Events)
  BY <1>2, <1>3 DEF StepInv
<1>5. at \in DOMAIN logs /\ Block(at) \in Nat /\ at < l
  BY <1>1, <1>4, LogTypes DEF BatchLogs, NextEvent
<1>6. e = at \/ Block(e) <= Block(at)
  BY <1>2, <1>3, <1>5 DEF ChainInv, OrderInv
<1>7. Block(at) <= Block(l)
  BY <1>1, <1>5 DEF ChainInv, OrderInv
<1>8. Block(at) = Block(l)
  BY <1>1, <1>5, <1>6, <1>7
<1>9. ~NoMore(Block(at))
  BY <1>1, <1>8 DEF NoMore, NextEvent
<1> QED BY <1>1, <1>3, <1>4, <1>8, <1>9 DEF InBlock

\* What an event adds to what has to be fetched: its session.
LEMMA OnLogFetchInv ==
    ASSUME ChainInv, StepInv, FetchInv, NEW l, OnLog(l),
           DOMAIN sessions \subseteq DOMAIN sessions', SessionAt(l) \in DOMAIN sessions',
           updated' \in [Managers -> SUBSET Nat], closed' \in [Managers -> SUBSET Nat],
           \A cm \in Managers : cm # Manager(l) => updated'[cm] = updated[cm] /\ closed'[cm] = closed[cm],
           updated'[Manager(l)] \in {updated[Manager(l)], updated[Manager(l)] \cup {SessionAt(l)}},
           closed'[Manager(l)] = closed[Manager(l)] \cup (IF Kind(l) = "close" THEN {SessionAt(l)} ELSE {})
    PROVE  FetchInv'
<1>1. /\ logs' = logs /\ lastSync' = lastSync /\ till' = till /\ at' = l
      /\ l \in DOMAIN logs /\ l \in LogsOf(Events) /\ NextEvent(l) /\ l \in Nat
  BY OnLogFacts
<1>2. lastEventBlock' = [lastEventBlock EXCEPT ![Manager(l)] = Block(l)]
  BY DEF OnLog
<1>3. InBlock'
  BY OnLogInBlock
<1>4. \A kinds : BatchLogs(kinds)' = BatchLogs(kinds)
  BY <1>1, SameBatch
<1>5. Manager(l) \in Managers /\ Manager(SessionAt(l)) = Manager(l) /\ Block(l) \in Nat /\ Block(l) # 0
  BY <1>1, LogTypes DEF ChainInv, TxInv, HoldInv
<1>6. \A k : Block(k)' = Block(k) /\ SessionAt(k)' = SessionAt(k) /\ Manager(k)' = Manager(k) /\ Kind(k)' = Kind(k)
  BY <1>1, SameLogs
<1>7. (Block(at))' = Block(l)
  BY <1>1 DEF Block
<1>8. lastEventBlock' \in [Managers -> Nat]
  BY <1>2, <1>5 DEF FetchInv
<1>9. l \in BatchLogs(Events) /\ (Kind(l) = "close" => l \in BatchLogs({"close"}))
  BY <1>1 DEF NextEvent, BatchLogs, LogsOf
<1>10. ASSUME NEW cm \in Managers
       PROVE  /\ lastEventBlock'[cm] # 0 => lastEventBlock'[cm] = Block(l)
              /\ lastEventBlock'[cm] = 0 => updated'[cm] = {} /\ closed'[cm] = {}
  <2>1. CASE cm = Manager(l)
    BY <2>1, <1>2, <1>5 DEF FetchInv
  <2>2. CASE cm # Manager(l)
    <3>1. lastEventBlock'[cm] = lastEventBlock[cm]
      BY <2>2, <1>2 DEF FetchInv
    <3>2. lastEventBlock[cm] # 0 => InBlock /\ lastEventBlock[cm] = Block(at)
      BY DEF FetchInv
    <3> QED BY <3>1, <3>2, <2>2, SameBlockEvent DEF FetchInv
  <2> QED BY <2>1, <2>2
<1>11. ASSUME NEW cm \in Managers, NEW s \in updated'[cm]
       PROVE  /\ s \in DOMAIN sessions' /\ Manager(s) = cm
              /\ \E e \in BatchLogs(Events) : e <= l /\ Block(e) = Block(l) /\ SessionAt(e) = s
  <2>1. CASE s \in updated[cm]
    <3>1. InBlock /\ s \in DOMAIN sessions /\ Manager(s) = cm
      BY <2>1 DEF FetchInv
    <3>2. PICK e \in BatchLogs(Events) : e <= at /\ Block(e) = Block(at) /\ SessionAt(e) = s
      BY <2>1 DEF FetchInv
    <3>3. e \in Nat /\ at \in Nat
      BY LogTypes DEF BatchLogs, StepInv
    <3>4. e <= l /\ Block(e) = Block(l)
      BY <3>1, <3>2, <3>3, <1>1, SameBlockEvent
    <3> QED BY <3>1, <3>2, <3>4
  <2>2. CASE s \notin updated[cm]
    <3>1. cm = Manager(l) /\ s = SessionAt(l)
      BY <2>2, <1>11
    <3> QED BY <3>1, <1>1, <1>5, <1>9
  <2> QED BY <2>1, <2>2
<1>12. ASSUME NEW cm \in Managers, NEW s \in closed'[cm]
       PROVE  /\ s \in DOMAIN sessions' /\ Manager(s) = cm
              /\ \E c \in BatchLogs({"close"}) : c <= l /\ Block(c) = Block(l) /\ SessionAt(c) = s
  <2>1. CASE s \in closed[cm]
    <3>1. InBlock /\ s \in DOMAIN sessions /\ Manager(s) = cm
      BY <2>1 DEF FetchInv
    <3>2. PICK c \in BatchLogs({"close"}) : c <= at /\ Block(c) = Block(at) /\ SessionAt(c) = s
      BY <2>1 DEF FetchInv
    <3>3. c \in Nat /\ at \in Nat
      BY LogTypes DEF BatchLogs, StepInv
    <3>4. c <= l /\ Block(c) = Block(l)
      BY <3>1, <3>2, <3>3, <1>1, SameBlockEvent
    <3> QED BY <3>1, <3>2, <3>4
  <2>2. CASE s \notin closed[cm]
    <3>1. cm = Manager(l) /\ s = SessionAt(l) /\ Kind(l) = "close"
      BY <2>2, <1>12
    <3> QED BY <3>1, <1>1, <1>5, <1>9
  <2> QED BY <2>1, <2>2
<1>13. ASSUME NEW e \in BatchLogs(Events), e <= l, Block(e) = Block(l)
       PROVE  /\ lastEventBlock'[Manager(e)] = Block(l)
              /\ Kind(e) = "close" => SessionAt(e) \in closed'[Manager(e)]
  <2>1. Manager(e) \in Managers /\ e \in Nat
    BY LogTypes DEF ChainInv, TxInv, BatchLogs
  <2>2. CASE e = l
    BY <2>2, <1>2, <1>5 DEF FetchInv
  <2>3. CASE e # l
    <3>1. e <= at /\ Block(at) = Block(l) /\ InBlock
      BY <2>1, <2>3, <1>1, <1>13, HandledInBlock
    <3>2. /\ lastEventBlock[Manager(e)] = Block(l)
          /\ Kind(e) = "close" => SessionAt(e) \in closed[Manager(e)]
      BY <3>1, <1>13 DEF FetchInv
    <3> QED BY <3>2, <2>1, <1>2, <1>5 DEF FetchInv
  <2> QED BY <2>2, <2>3
<1> QED BY <1>1, <1>3, <1>4, <1>6, <1>7, <1>8, <1>10, <1>11, <1>12, <1>13 DEF FetchInv

LEMMA OpenFetchInv ==
    ASSUME ChainInv, StepInv, SessionInv, FetchInv, NEW l, OnOpenCreditAccount(l)
    PROVE  FetchInv'
<1>1. /\ OnLog(l) /\ Kind(l) = "open" /\ closed' = closed /\ DOMAIN sessions' = DOMAIN sessions \cup {l}
      /\ updated' = [updated EXCEPT ![Manager(l)] = @ \cup {l}]
  BY DEF OnOpenCreditAccount
<1>2. l \in LogsOf(Events) /\ l \in Opens /\ l \in Nat
  BY <1>1, OnLogFacts, LogTypes
<1>3. SessionAt(l) = l /\ Manager(l) \in Managers
  BY <1>2 DEF ChainInv, HoldInv, TxInv
<1>4. updated \in [Managers -> SUBSET Nat] /\ closed \in [Managers -> SUBSET Nat]
  BY DEF FetchInv
<1>5. /\ updated' \in [Managers -> SUBSET Nat] /\ updated'[Manager(l)] = updated[Manager(l)] \cup {SessionAt(l)}
      /\ \A cm \in Managers : cm # Manager(l) => updated'[cm] = updated[cm]
  BY <1>1, <1>2, <1>3, <1>4
<1> QED BY <1>1, <1>3, <1>4, <1>5, OnLogFetchInv

LEMMA OperationFetchInv ==
    ASSUME ChainInv, StepInv, SessionInv, FetchInv, NEW l, OnOperation(l)
    PROVE  FetchInv'
<1>1. /\ OnLog(l) /\ Kind(l) = "operation" /\ closed' = closed /\ sessions' = sessions
      /\ updated' = [updated EXCEPT ![Manager(l)] = @ \cup {GetCreditOwnerSession(l)}]
  BY DEF OnOperation
<1>2. l \in LogsOf(Events) /\ l \in Nat /\ NextEvent(l) /\ l \in DOMAIN logs
  BY <1>1, OnLogFacts
<1>3. GetCreditOwnerSession(l) = SessionAt(l) /\ SessionAt(l) \in DOMAIN sessions
  BY <1>1, <1>2, OwnerSession
<1>4. /\ updated \in [Managers -> SUBSET Nat] /\ closed \in [Managers -> SUBSET Nat]
      /\ Manager(l) \in Managers /\ SessionAt(l) \in Nat
  BY <1>2, LogTypes DEF FetchInv, ChainInv, TxInv
<1>5. /\ updated' \in [Managers -> SUBSET Nat] /\ updated'[Manager(l)] = updated[Manager(l)] \cup {SessionAt(l)}
      /\ \A cm \in Managers : cm # Manager(l) => updated'[cm] = updated[cm]
  BY <1>1, <1>3, <1>4
<1> QED BY <1>1, <1>3, <1>4, <1>5, OnLogFetchInv

LEMMA TransferAccountFetchInv ==
    ASSUME ChainInv, StepInv, SessionInv, FetchInv, NEW l, OnTransferAccount(l)
    PROVE  FetchInv'
<1>1. /\ OnLog(l) /\ Kind(l) = "move" /\ closed' = closed /\ updated' = updated
      /\ DOMAIN sessions' = DOMAIN sessions
  BY DEF OnTransferAccount
<1>2. SessionAt(l) \in DOMAIN sessions
  BY <1>1, OnLogFacts, OwnerSession
<1>3. updated \in [Managers -> SUBSET Nat] /\ closed \in [Managers -> SUBSET Nat]
  BY DEF FetchInv
<1> QED BY <1>1, <1>2, <1>3, OnLogFetchInv

LEMMA CloseFetchInv ==
    ASSUME ChainInv, StepInv, SessionInv, FetchInv, NEW l, OnCloseCreditAccount(l)
    PROVE  FetchInv'
<1>1. /\ OnLog(l) /\ Kind(l) = "close" /\ updated' = updated
      /\ DOMAIN sessions' = DOMAIN sessions
      /\ closed' = [closed EXCEPT ![Manager(l)] = @ \cup {GetCreditOwnerSession(l)}]
  BY DEF OnCloseCreditAccount
<1>2. l \in LogsOf(Events) /\ l \in Nat /\ NextEvent(l) /\ l \in DOMAIN logs
  BY <1>1, OnLogFacts
<1>3. GetCreditOwnerSession(l) = SessionAt(l) /\ SessionAt(l) \in DOMAIN sessions
  BY <1>1, <1>2, OwnerSession
<1>4. /\ updated \in [Managers -> SUBSET Nat] /\ closed \in [Managers -> SUBSET Nat]
      /\ Manager(l) \in Managers /\ SessionAt(l) \in Nat
  BY <1>2, LogTypes DEF FetchInv, ChainInv, TxInv
<1>5. /\ closed' \in [Managers -> SUBSET Nat] /\ closed'[Manager(l)] = closed[Manager(l)] \cup {SessionAt(l)}
      /\ \A cm \in Managers : cm # Manager(l) => closed'[cm] = closed[cm]
  BY <1>1, <1>3, <1>4
<1> QED BY <1>1, <1>3, <1>4, <1>5, OnLogFetchInv

-----------------------------------------------------------------------------
(***************************************************************************)
(* The details of the accounts                                             *)
(***************************************************************************)

\* The facts about the logs that the details name.
LEMMA DetailLogs ==
    ASSUME ChainInv, SessionInv, DetailInv, NEW acc \in Accounts, NEW i \in DOMAIN details[acc]
    PROVE  /\ details[acc][i].ses \in Opens /\ details[acc][i].ses \in DOMAIN sessions
           /\ details[acc][i].ses \in DOMAIN logs /\ Acc(details[acc][i].ses) = acc
           /\ details[acc][i].closeLog # None =>
                /\ details[acc][i].closeLog \in DOMAIN logs
                /\ SessionAt(details[acc][i].closeLog) \in DOMAIN logs
<1>1. /\ details[acc][i].ses \in DOMAIN sessions /\ Acc(details[acc][i].ses) = acc
      /\ details[acc][i].closeLog # None => details[acc][i].closeLog \in Closes
  BY DEF DetailInv, DetailsOrdered, DetailsClosed
<1>2. \A c \in Closes : c \in DOMAIN logs /\ SessionAt(c) \in DOMAIN logs
  <2> TAKE c \in Closes
  <2>1. c \in LogsOf(Events) /\ c \in DOMAIN logs
    BY LogTypes DEF Events
  <2>2. SessionAt(c) \in Opens
    BY <2>1 DEF ChainInv, HoldInv
  <2> QED BY <2>1, <2>2, LogTypes
<1>3. DOMAIN sessions \subseteq Opens
  BY DEF SessionInv, SessionsOf
<1> QED BY <1>1, <1>2, <1>3, LogTypes

\* Steps that leave the details alone and the sessions open or closed as they are.
LEMMA DetailsRest ==
    ASSUME ChainInv, SessionInv, DetailInv, Extended,
           details' = details, DOMAIN sessions' = DOMAIN sessions,
           \A s \in DOMAIN sessions : sessions'[s].closeLog = sessions[s].closeLog,
           HandledLogs \subseteq HandledLogs', restarts' = restarts,
           lastSync \in Nat, lastSync' \in Nat, lastSync <= lastSync'
    PROVE  DetailInv'
<1>1. DOMAIN details' = Accounts
  BY DEF DetailInv
<1>2. ASSUME NEW acc \in Accounts
      PROVE  DetailsOrdered(acc)'
  <2>1. \A i \in DOMAIN details[acc] : (Acc(details[acc][i].ses))' = acc
    BY <1>2, DetailLogs DEF Extended, Acc
  <2> QED BY <2>1 DEF DetailInv, DetailsOrdered
<1>3. ASSUME NEW acc \in Accounts
      PROVE  DetailsClosed(acc)'
  <2>1. SUFFICES ASSUME NEW i \in DOMAIN details[acc], NEW d, d = details[acc][i]
                 PROVE  /\ sessions'[d.ses].closeLog # None => d.closeLog # None
                        /\ d.closeLog # None =>
                             /\ d.closeLog \in Closes' /\ (Handled(d.closeLog))' /\ (Acc(d.closeLog))' = acc
                             /\ (Block(SessionAt(d.closeLog)))' = (Block(d.ses))'
                             /\ d.ses <= (SessionAt(d.closeLog))'
    BY DEF DetailsClosed, Handled, Acc, Block, SessionAt
  <2>2. /\ d.ses \in DOMAIN sessions /\ d.ses \in DOMAIN logs
        /\ d.closeLog # None => d.closeLog \in DOMAIN logs /\ SessionAt(d.closeLog) \in DOMAIN logs
    BY <2>1, DetailLogs
  <2>3. /\ sessions[d.ses].closeLog # None => d.closeLog # None
        /\ d.closeLog # None =>
             /\ d.closeLog \in Closes /\ Handled(d.closeLog) /\ Acc(d.closeLog) = acc
             /\ Block(SessionAt(d.closeLog)) = Block(d.ses)
             /\ d.ses <= SessionAt(d.closeLog)
    BY <2>1 DEF DetailInv, DetailsClosed
  <2>4. ASSUME d.closeLog # None
        PROVE  /\ d.closeLog \in Closes' /\ (Acc(d.closeLog))' = acc
               /\ (Block(SessionAt(d.closeLog)))' = (Block(d.ses))'
               /\ d.ses <= (SessionAt(d.closeLog))'
    <3>1. PICK c \in DOMAIN logs : c = d.closeLog
      BY <2>2, <2>4
    <3>2. PICK s \in DOMAIN logs : s = SessionAt(c)
      BY <2>2, <2>4, <3>1
    <3>3. logs'[c] = logs[c] /\ logs'[s] = logs[s] /\ logs'[d.ses] = logs[d.ses] /\ c \in DOMAIN logs'
      BY <3>1, <3>2, <2>2 DEF Extended
    <3> QED BY <3>1, <3>2, <3>3, <2>3, <2>4 DEF Closes, LogsOf, Kind, Acc, Block, SessionAt
  <2>5. d.closeLog # None => (Handled(d.closeLog))'
    <3>1. d.closeLog # None => d.closeLog \in HandledLogs'
      BY <2>2, <2>3 DEF HandledLogs
    <3> QED BY <3>1 DEF HandledLogs, Handled, Block
  <2> QED BY <2>2, <2>3, <2>4, <2>5
<1>4. ASSUME NEW acc \in Accounts
      PROVE  DetailsComplete(acc)'
  <2>1. SUFFICES ASSUME NEW s \in DOMAIN sessions, Acc(s)' = acc
                 PROVE  \/ \E i \in DOMAIN details[acc] : details[acc][i].ses = s
                        \/ /\ restarts > 0 /\ 1 \in DOMAIN details[acc]
                           /\ Block(s)' <= (Block(details[acc][1].ses))'
                           /\ (Block(details[acc][1].ses))' <= lastSync'
    BY DEF DetailsComplete, Block
  <2>2. s \in DOMAIN logs /\ Acc(s)' = Acc(s) /\ Block(s)' = Block(s)
    BY LogTypes DEF SessionInv, SessionsOf, Extended, Acc, Block
  <2>3. 1 \in DOMAIN details[acc] =>
          /\ (Block(details[acc][1].ses))' = Block(details[acc][1].ses)
          /\ Block(details[acc][1].ses) \in Nat
    BY DetailLogs, LogTypes DEF Extended, Block
  <2>4. \/ \E i \in DOMAIN details[acc] : details[acc][i].ses = s
        \/ /\ restarts > 0 /\ 1 \in DOMAIN details[acc]
           /\ Block(s) <= Block(details[acc][1].ses) /\ Block(details[acc][1].ses) <= lastSync
    BY <2>1, <2>2 DEF DetailInv, DetailsComplete
  <2> QED BY <2>2, <2>3, <2>4
<1> QED BY <1>1, <1>2, <1>3, <1>4 DEF DetailInv

\* What is left to show of the details of an account after a step that leaves
\* the logs alone: D are its new details.
DetailsNow(acc, D) ==
    /\ D \in Seq([ses : Nat, closeLog : Nat])
    /\ \A i \in DOMAIN D :
         /\ D[i].ses \in DOMAIN sessions' /\ Acc(D[i].ses) = acc
         /\ \A j \in DOMAIN D : i < j => D[i].ses < D[j].ses
         /\ sessions'[D[i].ses].closeLog # None => D[i].closeLog # None
         /\ D[i].closeLog # None =>
              /\ D[i].closeLog \in Closes /\ D[i].closeLog \in HandledLogs' /\ Acc(D[i].closeLog) = acc
              /\ Block(SessionAt(D[i].closeLog)) = Block(D[i].ses)
              /\ D[i].ses <= SessionAt(D[i].closeLog)
    /\ \A s \in DOMAIN sessions' : Acc(s) = acc =>
         \/ \E i \in DOMAIN D : D[i].ses = s
         \/ /\ restarts' > 0 /\ 1 \in DOMAIN D
            /\ Block(s) <= Block(D[1].ses) /\ Block(D[1].ses) <= lastSync'

LEMMA DetailsStep ==
    ASSUME logs' = logs, NEW acc, NEW D, D = details'[acc], DetailsNow(acc, D)
    PROVE  DetailsOrdered(acc)' /\ DetailsClosed(acc)' /\ DetailsComplete(acc)'
<1>1. DetailsOrdered(acc)'
  BY DEF DetailsNow, DetailsOrdered, Acc
<1>2. DetailsClosed(acc)'
  <2>1. \A l : l \in HandledLogs' => Handled(l)'
    BY DEF HandledLogs
  <2>2. SUFFICES ASSUME NEW i \in DOMAIN D
                 PROVE  /\ sessions'[D[i].ses].closeLog # None => D[i].closeLog # None
                        /\ D[i].closeLog # None =>
                             /\ D[i].closeLog \in Closes' /\ Handled(D[i].closeLog)' /\ Acc(D[i].closeLog)' = acc
                             /\ Block(SessionAt(D[i].closeLog))' = Block(D[i].ses)'
                             /\ D[i].ses <= SessionAt(D[i].closeLog)'
    BY DEF DetailsClosed, Handled, Acc, Block, SessionAt
  <2> QED BY <2>1, SameLogs DEF DetailsNow, Acc, Block, SessionAt
<1>3. DetailsComplete(acc)'
  BY DEF DetailsNow, DetailsComplete, Acc, Block
<1> QED BY <1>1, <1>2, <1>3

\* The facts of the invariant about the details of an account, in that form.
DetailsThen(acc, D) ==
    /\ D \in Seq([ses : Nat, closeLog : Nat])
    /\ \A i \in DOMAIN D :
         /\ D[i].ses \in DOMAIN sessions /\ D[i].ses \in Opens /\ Acc(D[i].ses) = acc
         /\ \A j \in DOMAIN D : i < j => D[i].ses < D[j].ses
         /\ sessions[D[i].ses].closeLog # None => D[i].closeLog # None
         /\ D[i].closeLog # None =>
              /\ D[i].closeLog \in Closes /\ D[i].closeLog \in HandledLogs /\ Acc(D[i].closeLog) = acc
              /\ Block(SessionAt(D[i].closeLog)) = Block(D[i].ses)
              /\ D[i].ses <= SessionAt(D[i].closeLog)
    /\ \A s \in DOMAIN sessions : Acc(s) = acc =>
         \/ \E i \in DOMAIN D : D[i].ses = s
         \/ /\ restarts > 0 /\ 1 \in DOMAIN D
            /\ Block(s) <= Block(D[1].ses) /\ Block(D[1].ses) <= lastSync

LEMMA DetailFacts ==
    ASSUME ChainInv, SessionInv, DetailInv, NEW acc \in Accounts, NEW D, D = details[acc]
    PROVE  DetailsThen(acc, D)
<1>1. DetailsOrdered(acc) /\ DetailsClosed(acc) /\ DetailsComplete(acc)
  BY DEF DetailInv
<1>2. D \in Seq([ses : Nat, closeLog : Nat])
  BY <1>1 DEF DetailsOrdered
<1>3. \A i \in DOMAIN D :
        /\ D[i].ses \in DOMAIN sessions /\ Acc(D[i].ses) = acc
        /\ \A j \in DOMAIN D : i < j => D[i].ses < D[j].ses
  BY <1>1 DEF DetailsOrdered
<1>4. \A i \in DOMAIN D :
        /\ sessions[D[i].ses].closeLog # None => D[i].closeLog # None
        /\ D[i].closeLog # None =>
             /\ D[i].closeLog \in Closes /\ Handled(D[i].closeLog) /\ Acc(D[i].closeLog) = acc
             /\ Block(SessionAt(D[i].closeLog)) = Block(D[i].ses)
             /\ D[i].ses <= SessionAt(D[i].closeLog)
  BY <1>1 DEF DetailsClosed
<1>5. \A c \in Closes : Handled(c) => c \in HandledLogs
  BY LogTypes DEF HandledLogs
<1>6. DOMAIN sessions \subseteq Opens
  BY DEF SessionInv, SessionsOf
<1>7. \A s \in DOMAIN sessions : Acc(s) = acc =>
        \/ \E i \in DOMAIN D : D[i].ses = s
        \/ /\ restarts > 0 /\ 1 \in DOMAIN D
           /\ Block(s) <= Block(D[1].ses) /\ Block(D[1].ses) <= lastSync
  BY <1>1 DEF DetailsComplete
<1> QED BY <1>2, <1>3, <1>4, <1>5, <1>6, <1>7 DEF DetailsThen

LEMMA OnLogHandled ==
    ASSUME ChainInv, StepInv, NEW l, OnLog(l)
    PROVE  HandledLogs \subseteq HandledLogs' /\ l \in HandledLogs'
<1>1. logs' = logs /\ lastSync' = lastSync /\ at' = l /\ NextEvent(l) /\ l \in Nat /\ l \in DOMAIN logs
  BY OnLogFacts
<1>2. at \in Nat /\ at < l
  BY <1>1 DEF StepInv, NextEvent
<1> QED BY <1>1, <1>2, LogTypes DEF HandledLogs, Handled, Block

LEMMA OpenDetails ==
    ASSUME ChainInv, StepInv, SessionInv, DetailInv, NEW l, OnOpenCreditAccount(l)
    PROVE  DetailInv'
<1>1. /\ OnLog(l) /\ Kind(l) = "open"
      /\ sessions' = [s \in DOMAIN sessions \cup {l} |-> IF s = l THEN NewSession ELSE sessions[s]]
      /\ details' = [details EXCEPT ![Acc(l)] = Append(@, [ses |-> l, closeLog |-> None])]
  BY DEF OnOpenCreditAccount
<1>2. /\ l \in DOMAIN logs /\ l \in Nat /\ logs' = logs /\ lastSync' = lastSync /\ Acc(l) \in Accounts
      /\ \A e \in LogsOf(Events) : e \in HandledLogs <=> e < l
  BY <1>1, OnLogFacts, LogTypes
<1>3. restarts' = restarts
  BY <1>1 DEF OnLog, seenVars
<1>4. HandledLogs \subseteq HandledLogs'
  BY <1>1, OnLogHandled
<1>5. DOMAIN details = Accounts
  BY DEF DetailInv
<1>6. \A s \in DOMAIN sessions : s < l /\ s \in Opens
  <2>1. DOMAIN sessions = Opens \cap HandledLogs
    BY DEF SessionInv, SessionsOf
  <2>2. Opens \subseteq LogsOf(Events)
    BY LogTypes DEF Events
  <2> QED BY <2>1, <2>2, <1>2
<1>7. \A s \in DOMAIN sessions : s # l /\ sessions'[s] = sessions[s]
  BY <1>1, <1>2, <1>6, LogTypes
<1>8. ASSUME NEW acc \in Accounts
      PROVE  DetailsOrdered(acc)' /\ DetailsClosed(acc)' /\ DetailsComplete(acc)'
  <2>1. PICK D, E : D = details[acc] /\ E = details'[acc]
    OBVIOUS
  <2>2. /\ D \in Seq([ses : Nat, closeLog : Nat])
        /\ \A i \in DOMAIN D :
             /\ D[i].ses \in DOMAIN sessions /\ Acc(D[i].ses) = acc
             /\ \A j \in DOMAIN D : i < j => D[i].ses < D[j].ses
             /\ sessions'[D[i].ses].closeLog # None => D[i].closeLog # None
             /\ D[i].closeLog # None =>
                  /\ D[i].closeLog \in Closes /\ D[i].closeLog \in HandledLogs' /\ Acc(D[i].closeLog) = acc
                  /\ Block(SessionAt(D[i].closeLog)) = Block(D[i].ses)
                  /\ D[i].ses <= SessionAt(D[i].closeLog)
        /\ \A s \in DOMAIN sessions : Acc(s) = acc =>
             \/ \E i \in DOMAIN D : D[i].ses = s
             \/ /\ restarts > 0 /\ 1 \in DOMAIN D
                /\ Block(s) <= Block(D[1].ses) /\ Block(D[1].ses) <= lastSync
    <3>1. DetailsThen(acc, D)
      BY <2>1, DetailFacts
    <3> QED BY <3>1, <1>4, <1>7 DEF DetailsThen
  <2>3. CASE acc # Acc(l)
    <3>1. E = D
      BY <2>1, <2>3, <1>1, <1>5
    <3>2. DetailsNow(acc, E)
      BY <3>1, <2>2, <2>3, <1>1, <1>2, <1>3 DEF DetailsNow
    <3> QED BY <3>2, <2>1, <1>2, DetailsStep
  <2>4. CASE acc = Acc(l)
    <3> DEFINE x == [ses |-> l, closeLog |-> None]
    <3>1. E = Append(D, x) /\ x \in [ses : Nat, closeLog : Nat]
      BY <2>1, <2>4, <1>1, <1>2, <1>5 DEF None
    <3>2. /\ E \in Seq([ses : Nat, closeLog : Nat]) /\ DOMAIN E = 1..(Len(D) + 1) /\ DOMAIN D = 1..Len(D)
          /\ Len(D) \in Nat /\ E[Len(D) + 1] = x /\ \A i \in DOMAIN D : E[i] = D[i]
      BY <3>1, <2>2
    <3>3. x.ses = l /\ x.closeLog = None /\ sessions'[l].closeLog = None
      BY <1>1 DEF NewSession
    <3> HIDE DEF x
    <3>4. ASSUME NEW i \in DOMAIN E
          PROVE  /\ E[i].ses \in DOMAIN sessions' /\ Acc(E[i].ses) = acc
                 /\ \A j \in DOMAIN E : i < j => E[i].ses < E[j].ses
                 /\ sessions'[E[i].ses].closeLog # None => E[i].closeLog # None
                 /\ E[i].closeLog # None =>
                      /\ E[i].closeLog \in Closes /\ E[i].closeLog \in HandledLogs' /\ Acc(E[i].closeLog) = acc
                      /\ Block(SessionAt(E[i].closeLog)) = Block(E[i].ses)
                      /\ E[i].ses <= SessionAt(E[i].closeLog)
      <4>1. CASE i \in DOMAIN D
        <5>1. \A j \in DOMAIN E : i < j => E[i].ses < E[j].ses
          <6> TAKE j \in DOMAIN E
          <6>1. CASE j \in DOMAIN D
            BY <6>1, <4>1, <3>2, <2>2
          <6>2. CASE j = Len(D) + 1
            BY <6>2, <4>1, <3>2, <3>3, <2>2, <1>6
          <6> QED BY <6>1, <6>2, <3>2
        <5> QED BY <5>1, <4>1, <3>2, <2>2, <1>1
      <4>2. CASE i = Len(D) + 1
        BY <4>2, <3>2, <3>3, <2>4, <1>1
      <4> QED BY <4>1, <4>2, <3>2
    <3>5. ASSUME NEW s \in DOMAIN sessions', Acc(s) = acc
          PROVE  \/ \E i \in DOMAIN E : E[i].ses = s
                 \/ /\ restarts' > 0 /\ 1 \in DOMAIN E
                    /\ Block(s) <= Block(E[1].ses) /\ Block(E[1].ses) <= lastSync'
      <4>1. CASE s = l
        <5>1. Len(D) + 1 \in DOMAIN E
          BY <3>2
        <5> QED BY <5>1, <4>1, <3>2, <3>3
      <4>2. CASE s \in DOMAIN sessions
        <5>1. DOMAIN D \subseteq DOMAIN E
          BY <3>2
        <5> QED BY <5>1, <4>2, <3>2, <3>5, <2>2, <1>2, <1>3
      <4> QED BY <4>1, <4>2, <1>1
    <3>6. DetailsNow(acc, E)
      BY <3>2, <3>4, <3>5 DEF DetailsNow
    <3> QED BY <3>6, <2>1, <1>2, DetailsStep
  <2> QED BY <2>3, <2>4
<1>9. DOMAIN details' = Accounts
  BY <1>1, <1>5
<1> QED BY <1>8, <1>9 DEF DetailInv

LEMMA CloseDetails ==
    ASSUME ChainInv, StepInv, SessionInv, DetailInv, NEW l, OnCloseCreditAccount(l)
    PROVE  DetailInv'
<1>1. OnLog(l) /\ Kind(l) = "close"
  BY DEF OnCloseCreditAccount
<1>2. /\ l \in DOMAIN logs /\ l \in Nat /\ l # 0 /\ logs' = logs /\ lastSync' = lastSync
      /\ Acc(l) \in Accounts /\ NextEvent(l) /\ l \in Closes
      /\ \A e \in LogsOf(Events) : e \in HandledLogs <=> e < l
  BY <1>1, OnLogFacts, LogTypes
<1>3. PICK z : z = SessionAt(l)
  OBVIOUS
<1>4. z \in DOMAIN sessions /\ Acc(z) = Acc(l) /\ GetCreditOwnerSession(l) = z
  BY <1>1, <1>2, <1>3, OwnerSession
<1>5. /\ sessions' = [sessions EXCEPT ![z].closeLog = l]
      /\ details' = [details EXCEPT ![Acc(l)] = [i \in DOMAIN @ |->
                       IF Block(@[i].ses) = Block(z) THEN [@[i] EXCEPT !.closeLog = l] ELSE @[i]]]
  BY <1>4 DEF OnCloseCreditAccount
<1>6. restarts' = restarts
  BY <1>1 DEF OnLog, seenVars
<1>7. HandledLogs \subseteq HandledLogs' /\ l \in HandledLogs'
  BY <1>1, OnLogHandled
<1>8. DOMAIN details = Accounts
  BY DEF DetailInv
<1>9. DOMAIN sessions' = DOMAIN sessions /\ \A s \in DOMAIN sessions : s # z => sessions'[s] = sessions[s]
  BY <1>5
<1>10. \A s \in DOMAIN sessions : s \in Opens /\ s <= l
  <2>1. DOMAIN sessions = Opens \cap HandledLogs
    BY DEF SessionInv, SessionsOf
  <2>2. Opens \subseteq LogsOf(Events)
    BY LogTypes DEF Events
  <2> QED BY <2>1, <2>2, <1>2, LogTypes
<1>11. \A s \in DOMAIN sessions : Acc(s) = Acc(l) => s <= z
  BY <1>2, <1>3, <1>4, <1>10, LogTypes DEF ChainInv, HoldInv, None
<1>12. ASSUME NEW acc \in Accounts
      PROVE  DetailsOrdered(acc)' /\ DetailsClosed(acc)' /\ DetailsComplete(acc)'
  <2>1. PICK D, E : D = details[acc] /\ E = details'[acc]
    OBVIOUS
  <2>2. DetailsThen(acc, D)
    BY <2>1, DetailFacts
  <2>3. CASE acc # Acc(l)
    <3>1. E = D
      BY <2>1, <2>3, <1>5, <1>8
    <3>2. \A i \in DOMAIN D : D[i].ses # z
      BY <2>2, <2>3, <1>4 DEF DetailsThen
    <3>3. DetailsNow(acc, E)
      BY <3>1, <3>2, <2>2, <1>2, <1>6, <1>7, <1>9 DEF DetailsNow, DetailsThen
    <3> QED BY <3>3, <2>1, <1>2, DetailsStep
  <2>4. CASE acc = Acc(l)
    <3>1. E = [i \in DOMAIN D |-> IF Block(D[i].ses) = Block(z) THEN [D[i] EXCEPT !.closeLog = l] ELSE D[i]]
      BY <2>1, <2>4, <1>5, <1>8
    <3>2. D \in Seq([ses : Nat, closeLog : Nat]) /\ \A i \in DOMAIN D : D[i] \in [ses : Nat, closeLog : Nat]
      <4>1. D \in Seq([ses : Nat, closeLog : Nat])
        BY <2>2 DEF DetailsThen
      <4>2. PICK R : R = [ses : Nat, closeLog : Nat]
        OBVIOUS
      <4>3. D \in Seq(R)
        BY <4>1, <4>2
      <4>4. \A i \in DOMAIN D : D[i] \in R
        BY <4>3
      <4> QED BY <4>1, <4>2, <4>4
    <3>3. ASSUME NEW i \in DOMAIN D
          PROVE  /\ E[i] \in [ses : Nat, closeLog : Nat] /\ E[i].ses = D[i].ses
                 /\ E[i].closeLog = IF Block(D[i].ses) = Block(z) THEN l ELSE D[i].closeLog
      <4>1. PICK d \in [ses : Nat, closeLog : Nat] : d = D[i]
        BY <3>2
      <4>2. E[i] = IF Block(D[i].ses) = Block(z) THEN [d EXCEPT !.closeLog = l] ELSE d
        BY <4>1, <3>1
      <4>3. PICK e : e = [d EXCEPT !.closeLog = l]
        OBVIOUS
      <4>4. e \in [ses : Nat, closeLog : Nat] /\ e.ses = d.ses /\ e.closeLog = l
        BY <4>3, <1>2
      <4>5. CASE Block(D[i].ses) = Block(z)
        BY <4>1, <4>2, <4>3, <4>4, <4>5
      <4>6. CASE Block(D[i].ses) # Block(z)
        BY <4>1, <4>2, <4>6
      <4> QED BY <4>5, <4>6
    <3>4. E \in Seq([ses : Nat, closeLog : Nat]) /\ DOMAIN E = DOMAIN D
      <4>1. D \in [1..Len(D) -> [ses : Nat, closeLog : Nat]] /\ Len(D) \in Nat /\ DOMAIN D = 1..Len(D)
        BY <3>2
      <4>2. E \in [1..Len(D) -> [ses : Nat, closeLog : Nat]]
        BY <4>1, <3>1, <3>3
      <4> QED BY <4>1, <4>2, <3>1
    <3>5. ASSUME NEW i \in DOMAIN D
          PROVE  /\ sessions'[E[i].ses].closeLog # None => E[i].closeLog # None
                 /\ E[i].closeLog # None =>
                      /\ E[i].closeLog \in Closes /\ E[i].closeLog \in HandledLogs' /\ Acc(E[i].closeLog) = acc
                      /\ Block(SessionAt(E[i].closeLog)) = Block(E[i].ses)
                      /\ E[i].ses <= SessionAt(E[i].closeLog)
      <4>0. D[i].ses \in DOMAIN sessions /\ Acc(D[i].ses) = acc
        BY <2>2 DEF DetailsThen
      <4>1. CASE Block(D[i].ses) = Block(z)
        <5>1. E[i].closeLog = l /\ E[i].ses = D[i].ses
          BY <4>1, <3>3
        <5>2. D[i].ses <= z
          BY <4>0, <2>4, <1>11
        <5> QED BY <5>1, <5>2, <4>1, <2>4, <1>2, <1>3, <1>7 DEF None
      <4>2. CASE Block(D[i].ses) # Block(z)
        <5>1. E[i].closeLog = D[i].closeLog /\ E[i].ses = D[i].ses /\ sessions'[D[i].ses] = sessions[D[i].ses]
          BY <4>0, <4>2, <3>3, <1>9
        <5> QED BY <5>1, <2>2, <1>7 DEF DetailsThen
      <4> QED BY <4>1, <4>2
    <3>6. DetailsNow(acc, E)
      BY <3>3, <3>4, <3>5, <2>2, <1>2, <1>6, <1>9 DEF DetailsNow, DetailsThen
    <3> QED BY <3>6, <2>1, <1>2, DetailsStep
  <2> QED BY <2>3, <2>4
<1>13. DOMAIN details' = Accounts
  BY <1>5, <1>8
<1> QED BY <1>12, <1>13 DEF DetailInv

LEMMA RestartDetails ==
    ASSUME ChainInv, StepInv, SessionInv, SnapshotInv, Restart
    PROVE  DetailInv'
<1>1. /\ logs' = logs /\ lastSync' = lastSync /\ at' = 0 /\ restarts' = restarts + 1
      /\ sessions' = [s \in DOMAIN saved.sessions |-> LoadCreditSession(s)]
  BY DEF Restart, chainVars
<1>2. PICK last \in LastSessions :
        details' = [acc \in Accounts |->
             IF last[acc] = None THEN <<>>
             ELSE <<[ses |-> last[acc], closeLog |-> saved.sessions[last[acc]].closeLog]>>]
  BY DEF Restart
<1>3. restarts' > 0 /\ lastSync \in Nat
  BY <1>1 DEF StepInv
<1>4. HandledLogs' = SavedPart
  <2>1. \A l \in DOMAIN logs : Handled(l)' <=> Block(l) <= lastSync
    BY <1>1, LogTypes DEF Handled, Block
  <2> QED BY <2>1, <1>1 DEF HandledLogs, SavedPart
<1>5. SessionsOf(saved.sessions, SavedPart) /\ DOMAIN saved.sessions = Opens \cap SavedPart
  BY DEF SessionInv, SessionsOf
<1>6. \A s \in DOMAIN saved.sessions :
        /\ sessions'[s].closeLog = saved.sessions[s].closeLog /\ saved.sessions[s].closeLog \in Nat
        /\ s \in Nat /\ s # None /\ s \in Opens
  <2> TAKE s \in DOMAIN saved.sessions
  <2>1. saved.sessions[s] \in SessionRecord
    BY <1>5 DEF SessionsOf
  <2> QED BY <2>1, <1>1, <1>5, LoadedSession, LogTypes DEF SessionRecord, None
<1>7. ASSUME NEW acc \in Accounts
      PROVE  DetailsOrdered(acc)' /\ DetailsClosed(acc)' /\ DetailsComplete(acc)'
  <2>1. PICK E : E = details'[acc]
    OBVIOUS
  <2>2. \/ SavedSessions(acc) = {} /\ last[acc] = None
        \/ /\ last[acc] \in SavedSessions(acc)
           /\ \A s \in SavedSessions(acc) : Block(s) <= Block(last[acc])
    BY <1>2 DEF LastSessions
  <2>3. CASE SavedSessions(acc) = {} /\ last[acc] = None
    <3>1. E = << >>
      BY <2>1, <2>3, <1>2
    <3>2. DetailsNow(acc, E)
      BY <3>1, <2>3, <1>1 DEF DetailsNow, SavedSessions
    <3> QED BY <3>2, <2>1, <1>1, DetailsStep
  <2>4. CASE /\ last[acc] \in SavedSessions(acc)
             /\ \A s \in SavedSessions(acc) : Block(s) <= Block(last[acc])
    <3>1. PICK z, c : z = last[acc] /\ c = saved.sessions[z].closeLog
      OBVIOUS
    <3>2. z \in DOMAIN saved.sessions /\ Acc(z) = acc /\ z # None /\ z \in Nat /\ c \in Nat
      BY <3>1, <2>4, <1>6 DEF SavedSessions
    <3>3. E = <<[ses |-> z, closeLog |-> c]>>
      BY <3>1, <3>2, <2>1, <1>2
    <3>4. /\ E \in Seq([ses : Nat, closeLog : Nat]) /\ DOMAIN E = {1}
          /\ E[1].ses = z /\ E[1].closeLog = c
      BY <3>2, <3>3
    <3>5. c # None => /\ c \in Closes /\ c \in SavedPart /\ SessionAt(c) = z /\ Acc(c) = acc
      <4>1. c # None => c \in Closes /\ c \in SavedPart /\ SessionAt(c) = z
        BY <3>1, <3>2, <1>5 DEF SessionsOf
      <4> QED BY <4>1, <3>2, LogTypes DEF ChainInv, HoldInv
    <3>6. Block(z) <= lastSync
      BY <3>2, <1>5 DEF SavedPart
    <3>7. sessions'[z].closeLog = c
      BY <3>1, <3>2, <1>6
    <3>8. \A s \in DOMAIN sessions' : Acc(s) = acc => Block(s) <= Block(z)
      BY <3>1, <2>4, <1>1 DEF SavedSessions
    <3>9. DetailsNow(acc, E)
      BY <3>2, <3>4, <3>5, <3>6, <3>7, <3>8, <1>1, <1>3, <1>4 DEF DetailsNow
    <3> QED BY <3>9, <2>1, <1>1, DetailsStep
  <2> QED BY <2>2, <2>3, <2>4
<1>8. DOMAIN details' = Accounts
  BY <1>2
<1> QED BY <1>7, <1>8 DEF DetailInv

-----------------------------------------------------------------------------
(***************************************************************************)
(* The pending transfers                                                   *)
(***************************************************************************)
LEMMA NothingPending ==
    ASSUME ChainInv, StepInv, PendingInv, Idle
    PROVE  \A acc \in Accounts : transfers[acc] = {}
<1>1. till = lastSync /\ lastSync \in Nat
  BY DEF Idle, StepInv
<1>2. \A kinds : BatchLogs(kinds) = {}
  BY <1>1, LogTypes DEF BatchLogs
<1> QED BY <1>2 DEF PendingInv

LEMMA EmptyPending ==
    ASSUME DOMAIN transfers' = Accounts, \A acc \in Accounts : transfers'[acc] = {}
    PROVE  PendingInv'
BY DEF PendingInv

LEMMA FewerPending ==
    ASSUME PendingInv, logs' = logs, lastSync' = lastSync, till' = till, at' = at,
           DOMAIN transfers' = Accounts, \A acc \in Accounts : transfers'[acc] \subseteq transfers[acc]
    PROVE  PendingInv'
<1>1. \A kinds : BatchLogs(kinds)' = BatchLogs(kinds) /\ LogsOf(kinds)' = LogsOf(kinds)
  BY SameBatch, SameLogs
<1>2. \A l : Acc(l)' = Acc(l) /\ Tx(l)' = Tx(l)
  BY SameLogs
<1> QED BY <1>1, <1>2 DEF PendingInv

LEMMA ChainPending ==
    ASSUME ChainInv, StepInv, PendingInv, Chain
    PROVE  PendingInv'
<1>1. Idle /\ transfers' = transfers
  BY ChainActions DEF transferVars
<1> QED BY <1>1, NothingPending, EmptyPending DEF PendingInv

LEMMA QueryPending ==
    ASSUME ChainInv, StepInv, PendingInv, Query
    PROVE  PendingInv'
<1>1. /\ logs' = logs /\ till' = head /\ at' = at /\ lastSync' = lastSync /\ Idle /\ BlockComplete
      /\ transfers' = [acc \in Accounts |-> transfers[acc] \cup
                       {l \in LogsOf(Direct \cup {"transfer"}) : Acc(l) = acc /\ lastSync < Block(l)}]
  BY DEF Query, chainVars, syncVars
<1>2. \A acc \in Accounts : transfers[acc] = {}
  BY <1>1, NothingPending
<1>3. at = 0
  BY <1>1 DEF Idle, StepInv
<1>4. ASSUME NEW acc \in Accounts, NEW l \in transfers'[acc]
      PROVE  /\ l \in BatchLogs(Direct \cup {"transfer"})' /\ Acc(l)' = acc
             /\ \A e \in LogsOf(Events)' : e <= at' => Tx(e)' # Tx(l)'
  <2>1. l \in LogsOf(Direct \cup {"transfer"}) /\ Acc(l) = acc /\ lastSync < Block(l)
    BY <1>1, <1>2, <1>4
  <2>2. Block(l) <= head
    BY <2>1, <1>1, LogTypes DEF BlockComplete
  <2>3. l \in BatchLogs(Direct \cup {"transfer"})'
    BY <2>1, <2>2, <1>1 DEF BatchLogs, LogsOf, Kind, Block
  <2>4. \A e \in LogsOf(Events)' : ~(e <= at')
    BY <1>1, <1>3, LogTypes, SameLogs
  <2> QED BY <2>1, <2>3, <2>4, <1>1, SameLogs
<1> QED BY <1>1, <1>4 DEF PendingInv

LEMMA OnLogPending ==
    ASSUME ChainInv, StepInv, PendingInv, NEW l, OnLog(l)
    PROVE  PendingInv'
<1>1. /\ logs' = logs /\ lastSync' = lastSync /\ till' = till /\ at' = l /\ NextEvent(l)
      /\ l \in DOMAIN logs /\ l \in Nat
  BY OnLogFacts
<1>2. transfers' = [acc \in Accounts |-> {k \in transfers[acc] : Tx(k) # Tx(l)}]
  BY DEF OnLog
<1>3. \A kinds : BatchLogs(kinds)' = BatchLogs(kinds) /\ LogsOf(kinds)' = LogsOf(kinds)
  BY <1>1, SameBatch, SameLogs
<1>4. \A k : Acc(k)' = Acc(k) /\ Tx(k)' = Tx(k)
  BY <1>1, SameLogs
<1>5. ASSUME NEW acc \in Accounts, NEW k \in transfers'[acc]
      PROVE  /\ k \in BatchLogs(Direct \cup {"transfer"}) /\ Acc(k) = acc
             /\ \A e \in LogsOf(Events) : e <= l => Tx(e) # Tx(k)
  <2>1. k \in transfers[acc] /\ Tx(k) # Tx(l)
    BY <1>2, <1>5
  <2>2. /\ k \in BatchLogs(Direct \cup {"transfer"}) /\ Acc(k) = acc
        /\ \A e \in LogsOf(Events) : e <= at => Tx(e) # Tx(k)
    BY <2>1 DEF PendingInv
  <2>3. ASSUME NEW e \in LogsOf(Events), e <= l
        PROVE  Tx(e) # Tx(k)
    <3>1. e \in Nat /\ e \in DOMAIN logs /\ k \in DOMAIN logs /\ lastSync < Block(k)
          /\ Block(k) \in Nat /\ Block(e) \in Nat /\ lastSync \in Nat
      BY <2>2, LogTypes DEF BatchLogs, StepInv
    <3>2. CASE e = l
      BY <3>2, <2>1
    <3>3. CASE e # l
      <4>1. Handled(e)
        BY <3>1, <3>3, <2>3, <1>1, EventsBefore
      <4>2. CASE e <= at
        BY <4>2, <2>2
      <4>3. CASE Block(e) <= lastSync
        <5>1. Block(e) # Block(k)
          BY <4>3, <3>1
        <5> QED BY <5>1, <3>1 DEF ChainInv, OrderInv
      <4> QED BY <4>1, <4>2, <4>3 DEF Handled
    <3> QED BY <3>2, <3>3
  <2> QED BY <2>2, <2>3
<1> QED BY <1>1, <1>2, <1>3, <1>4, <1>5 DEF PendingInv

LEMMA FetchPending ==
    ASSUME PendingInv, NEW STATE taken, NEW STATE cms, NEW STATE b,
           FetchFromDCForChangedSessions(taken, cms, b)
    PROVE  /\ PendingInv'
           /\ \A acc \in Accounts : transfers'[acc] \subseteq transfers[acc]
<1>1. /\ logs' = logs /\ lastSync' = lastSync /\ till' = till /\ at' = at /\ transfers' = Left(taken)
  BY DEF FetchFromDCForChangedSessions, chainVars
<1>2. DOMAIN transfers' = Accounts /\ \A acc \in Accounts : transfers'[acc] \subseteq transfers[acc]
  BY <1>1 DEF Left
<1> QED BY <1>1, <1>2, FewerPending

LEMMA OtherPending ==
    ASSUME PendingInv, EndBlock \/ AfterSync \/ Restart
    PROVE  PendingInv'
<1>1. CASE EndBlock
  <2>1. /\ logs' = logs /\ lastSync' = lastSync /\ till' = till /\ at' = at /\ transfers' = transfers
    BY <1>1 DEF EndBlock, chainVars, syncVars, transferVars
  <2> QED BY <2>1, FewerPending DEF PendingInv
<1>2. CASE AfterSync
  BY <1>2, EmptyPending DEF AfterSync
<1>3. CASE Restart
  BY <1>3, EmptyPending DEF Restart
<1> QED BY <1>1, <1>2, <1>3

-----------------------------------------------------------------------------
(***************************************************************************)
(* What is taken belongs to its session                                    *)
(***************************************************************************)

\* A fetch for the transfers of block b, when its events are handled.
Fetching(cms, b) ==
    /\ cms \subseteq Managers /\ b \in Nat /\ b # 0 /\ b <= till
    /\ NoMore(b) /\ (Closed(cms) = {} \/ b = Block(at))
    /\ ~stopped /\ step \in {"block", "before"} /\ step' = "before"
    /\ FetchFromDCForChangedSessions(CheckTokenTransfer(cms, {b}), cms, b)

LEMMA FetchSteps ==
    ASSUME ChainInv, StepInv, FetchInv, PendingInv,
           OnBlockChange \/ UpdateSessionWithDirectTokenTransferBefore
    PROVE  \E cms \in SUBSET Managers, b \in Nat : Fetching(cms, b)
<1>1. CASE OnBlockChange
  <2> DEFINE cms == {cm \in Managers : lastEventBlock[cm] = Block(at)}
  <2>1. /\ ~stopped /\ step = "block" /\ step' = "before"
        /\ FetchFromDCForChangedSessions(CheckTokenTransfer(cms, {Block(at)}), cms, Block(at))
    BY <1>1 DEF OnBlockChange
  <2>2. at \in BatchLogs(Events) /\ NoMore(Block(at))
    BY <2>1 DEF StepInv
  <2>3. Block(at) \in Nat /\ Block(at) # 0 /\ Block(at) <= till
    BY <2>2, LogTypes DEF BatchLogs
  <2>4. cms \in SUBSET Managers
    OBVIOUS
  <2> HIDE DEF cms
  <2>5. Fetching(cms, Block(at))
    BY <2>1, <2>2, <2>3, <2>4 DEF Fetching
  <2> QED BY <2>3, <2>4, <2>5
<1>2. CASE UpdateSessionWithDirectTokenTransferBefore
  <2>1. PICK b \in BlocksBefore :
          /\ CheckTokenTransfer(Managers, {b}) # {}
          /\ FetchFromDCForChangedSessions(CheckTokenTransfer(Managers, {b}), Managers, b)
    BY <1>2 DEF UpdateSessionWithDirectTokenTransferBefore
  <2>2. ~stopped /\ step = "before" /\ step' = "before"
    BY <1>2 DEF UpdateSessionWithDirectTokenTransferBefore
  <2>3. b \in Nat /\ b <= till /\ NoMore(b)
    <3>1. \A e \in BatchLogs(Events) : Block(e) \in Nat
      BY LogTypes DEF BatchLogs
    <3> QED BY <3>1 DEF BlocksBefore, NoMore, StepInv
  <2>4. b # 0
    <3>1. PICK t \in CheckTokenTransfer(Managers, {b}) : TRUE
      BY <2>1
    <3>2. t.log \in DOMAIN logs /\ Block(t.log) = b
      BY DEF CheckTokenTransfer
    <3> QED BY <3>2, LogTypes
  <2>5. Closed(Managers) = {}
    <3>1. ~InBlock
      BY <2>2 DEF InBlock
    <3> QED BY <3>1 DEF FetchInv, Closed
  <2>6. Fetching(Managers, b)
    BY <2>1, <2>2, <2>3, <2>4, <2>5 DEF Fetching
  <2> QED BY <2>3, <2>6
<1> QED BY <1>1, <1>2

\* A pending transfer of a block whose events are handled is a direct one.
LEMMA PendingDirect ==
    ASSUME ChainInv, StepInv, PendingInv, NEW l, Pending(l), NoMore(Block(l))
    PROVE  l \in BatchLogs(Direct) /\ Kind(l) \in Direct
<1>1. l \in DOMAIN logs /\ Acc(l) \in Accounts
  BY LogTypes DEF Pending
<1>2. /\ l \in BatchLogs(Direct \cup {"transfer"})
      /\ \A e \in LogsOf(Events) : e <= at => Tx(e) # Tx(l)
  BY <1>1 DEF Pending, PendingInv
<1>3. Kind(l) # "transfer"
  <2> SUFFICES ASSUME Kind(l) = "transfer"
               PROVE  FALSE
    OBVIOUS
  <2>1. l + 1 \in LogsOf(Events) /\ Tx(l + 1) = Tx(l)
    BY <1>1, LogTypes DEF ChainInv, TxInv
  <2>2. l + 1 \in DOMAIN logs /\ Block(l + 1) = Block(l) /\ l + 1 \in Nat
    BY <2>1, <1>1, LogTypes DEF ChainInv, OrderInv
  <2>3. l + 1 \in BatchLogs(Events)
    BY <2>1, <2>2, <1>2 DEF BatchLogs
  <2>4. ~(l + 1 > at)
    BY <2>2, <2>3, <1>1, LogTypes DEF NoMore
  <2> QED BY <2>1, <2>2, <2>4, <1>2 DEF StepInv
<1> QED BY <1>2, <1>3 DEF BatchLogs, LogsOf

LEMMA TakenFacts ==
    ASSUME ChainInv, StepInv, SessionInv, PendingInv, NEW cms, NEW b, NoMore(b),
           NEW t \in CheckTokenTransfer(cms, {b})
    PROVE  /\ t.log \in DOMAIN logs /\ Pending(t.log) /\ Block(t.log) = b
           /\ t.log \in BatchLogs(Direct) /\ Kind(t.log) \in Direct
           /\ t.ses \in DOMAIN sessions /\ t.ses \in Opens /\ Manager(t.ses) \in cms
           /\ BelongsTo(t.log, t.ses) /\ t = [log |-> t.log, ses |-> t.ses]
<1>1. /\ t.log \in DOMAIN logs /\ Pending(t.log) /\ Block(t.log) = b
      /\ t.ses \in DOMAIN sessions /\ Manager(t.ses) \in cms
      /\ BelongsTo(t.log, t.ses) /\ t = [log |-> t.log, ses |-> t.ses]
  BY DEF CheckTokenTransfer
<1>2. t.ses \in Opens
  BY <1>1 DEF SessionInv, SessionsOf
<1> QED BY <1>1, <1>2, PendingDirect

\* A direct transfer has no transaction in common with an event.
LEMMA DirectNotInEventTx ==
    ASSUME ChainInv, NEW l \in DOMAIN logs, Kind(l) \in Direct, NEW e \in LogsOf(Events)
    PROVE  Tx(l) # Tx(e) /\ l # e
<1>1. Kind(l) # "transfer" /\ Kind(l) \notin Events
  BY DEF Direct, Received, Events
<1> QED BY <1>1, LogTypes DEF ChainInv, TxInv

LEMMA AfterTheOpen ==
    ASSUME ChainInv, NEW l \in DOMAIN logs, Kind(l) \in Direct, NEW d, d.ses \in Opens,
           Block(d.ses) <= Block(l), ~BeforeOpen(d, l)
    PROVE  d.ses < l
<1>1. d.ses \in DOMAIN logs /\ d.ses \in LogsOf(Events) /\ d.ses \in Nat /\ l \in Nat
      /\ Block(d.ses) \in Nat /\ Block(l) \in Nat
  BY LogTypes DEF Events
<1>2. Tx(l) # Tx(d.ses) /\ l # d.ses
  BY <1>1, DirectNotInEventTx
<1>3. CASE Block(d.ses) < Block(l)
  BY <1>1, <1>3, LogTypes
<1>4. CASE Block(d.ses) = Block(l)
  BY <1>1, <1>2, <1>4 DEF BeforeOpen
<1> QED BY <1>1, <1>3, <1>4

LEMMA BeforeTheClose ==
    ASSUME ChainInv, NEW l \in DOMAIN logs, Kind(l) \in Direct, NEW d, d.closeLog \in Closes,
           Block(l) <= Block(d.closeLog), ~AfterClose(d, l)
    PROVE  l < d.closeLog
<1>1. d.closeLog \in DOMAIN logs /\ d.closeLog \in LogsOf(Events) /\ d.closeLog \in Nat /\ d.closeLog # None
      /\ l \in Nat /\ Block(d.closeLog) \in Nat /\ Block(l) \in Nat
  BY LogTypes DEF Events, None
<1>2. Tx(l) # Tx(d.closeLog) /\ l # d.closeLog
  BY <1>1, DirectNotInEventTx
<1>3. CASE Block(l) < Block(d.closeLog)
  BY <1>1, <1>3, LogTypes
<1>4. CASE Block(d.closeLog) = Block(l)
  BY <1>1, <1>2, <1>4 DEF AfterClose
<1> QED BY <1>1, <1>3, <1>4

LEMMA UpdatedMember ==
    ASSUME NEW STATE taken, NEW cms, NEW s
    PROVE  s \in Updated(taken, cms) <=>
             /\ s \notin Closed(cms)
             /\ \/ \E cm \in cms : s \in updated[cm]
                \/ \E t \in Counted(taken) : t.ses = s
<1>1. s \in Touched(cms) <=> \E cm \in cms : s \in updated[cm]
  BY DEF Touched
<1>2. s \in Updated(taken, cms) <=>
        /\ s \in Touched(cms) \/ \E t \in Counted(taken) : t.ses = s
        /\ s \notin Closed(cms)
  BY DEF Updated
<1> QED BY <1>1, <1>2

LEMMA InSession ==
    ASSUME ChainInv, NEW l \in DOMAIN logs, NEW s \in Opens, Acc(s) = Acc(l), s < l,
           \A c \in Closes : SessionAt(c) = s => l < c
    PROVE  SessionAt(l) = s
<1>1. SessionAt(l) = s \/ \E c \in Closes : SessionAt(c) = s /\ c < l
  BY LogTypes DEF ChainInv, HoldInv
<1> QED BY <1>1, LogTypes

(***************************************************************************)
(* The session of a detail was closed in block b, and a transfer of that   *)
(* block is taken for it: the close that the detail has is its own.  A     *)
(* later session of the account opened in the same block would be a later  *)
(* detail.                                                                 *)
(***************************************************************************)
LEMMA OwnClose ==
    ASSUME ChainInv, StepInv, SessionInv, DetailInv, NEW acc \in Accounts, NEW i \in DOMAIN details[acc],
           NEW b \in Nat, IsDetailAt(acc, i, b), NEW c \in Closes, c \in HandledLogs,
           SessionAt(c) = details[acc][i].ses, Block(c) = b, lastSync < b
    PROVE  details[acc][i].closeLog = c
<1>1. PICK D : D = details[acc]
  OBVIOUS
<1>2. DetailsThen(acc, D)
  BY <1>1, DetailFacts
<1>3. PICK s, k : s = D[i].ses /\ k = D[i].closeLog
  OBVIOUS
<1>4. /\ s \in DOMAIN sessions /\ s \in Opens /\ Acc(s) = acc
      /\ \A j \in DOMAIN D : i < j => s < D[j].ses
      /\ \A j \in DOMAIN D : j < i => D[j].ses < s
      /\ sessions[s].closeLog # None => k # None
      /\ k # None => k \in Closes /\ k \in HandledLogs /\ Acc(k) = acc
                     /\ Block(SessionAt(k)) = Block(s) /\ s <= SessionAt(k)
  BY <1>1, <1>2, <1>3 DEF DetailsThen
<1>5. sessions[s].closeLog = c
  <2>1. DOMAIN sessions = Opens \cap HandledLogs
    BY DEF SessionInv, SessionsOf
  <2> QED BY <2>1, <1>1, <1>3, <1>4 DEF SessionInv, SessionsOf
<1>6. k \in Closes /\ k \in HandledLogs /\ Acc(k) = acc /\ Block(SessionAt(k)) = Block(s) /\ s <= SessionAt(k)
  BY <1>4, <1>5, LogTypes DEF None
<1>7. PICK z : z = SessionAt(k)
  OBVIOUS
<1>8. z \in Opens /\ z <= k /\ Acc(z) = acc /\ z # k
  <2>1. k \in LogsOf(Events) /\ k \in DOMAIN logs /\ Kind(k) = "close"
    BY <1>6, LogTypes DEF Events
  <2> QED BY <2>1, <1>6, <1>7, LogTypes DEF ChainInv, HoldInv
<1>9. /\ z \in Nat /\ s \in Nat /\ k \in Nat /\ c \in Nat /\ at \in Nat /\ i \in Nat
      /\ Block(z) \in Nat /\ Block(s) \in Nat /\ Block(k) \in Nat
      /\ z \in DOMAIN logs /\ s \in DOMAIN logs /\ c \in DOMAIN logs /\ k \in DOMAIN logs /\ lastSync \in Nat
  <2>1. DOMAIN D = 1..Len(D)
    BY <1>2 DEF DetailsThen
  <2>2. Len(D) \in Nat
    BY <1>2 DEF DetailsThen
  <2>3. i \in Nat
    BY <2>1, <2>2, <1>1
  <2>4. z \in DOMAIN logs /\ s \in DOMAIN logs /\ c \in DOMAIN logs /\ k \in DOMAIN logs
    BY <1>4, <1>6, <1>8, LogTypes
  <2>5. at \in Nat /\ lastSync \in Nat
    BY DEF StepInv
  <2> QED BY <2>3, <2>4, <2>5, LogTypes
<1>10. ASSUME z # s
       PROVE  FALSE
  <2>1. s < z
    BY <1>6, <1>7, <1>9, <1>10
  <2>2. PICK q \in Closes : SessionAt(q) = s /\ q < z
    BY <2>1, <1>4, <1>8, ClosedBeforeNext
  <2>3. q = c
    BY <2>2, <1>1, <1>3, OneClose
  <2>4. b <= Block(z)
    BY <2>2, <2>3, <1>9 DEF ChainInv, OrderInv
  <2>5. Block(s) <= b
    BY <1>1, <1>3 DEF IsDetailAt
  <2>6. Block(z) = b
    BY <2>4, <2>5, <1>6, <1>7, <1>9
  <2>7. Block(z) <= Block(k)
    BY <1>8, <1>9 DEF ChainInv, OrderInv
  <2>8. z <= at
    <3>1. Handled(k)
      BY <1>6 DEF HandledLogs
    <3>2. ~(Block(k) <= lastSync)
      BY <2>6, <2>7, <1>9
    <3> QED BY <3>1, <3>2, <1>8, <1>9 DEF Handled
  <2>9. z \in DOMAIN sessions
    <3>1. z \in HandledLogs
      BY <2>8, <1>9 DEF HandledLogs, Handled
    <3> QED BY <3>1, <1>8 DEF SessionInv, SessionsOf
  <2>10. CASE \E j \in DOMAIN D : D[j].ses = z
    <3>1. PICK j \in DOMAIN D : D[j].ses = z
      BY <2>10
    <3>2. j \in Nat
      <4>1. DOMAIN D = 1..Len(D)
        BY <1>2 DEF DetailsThen
      <4>2. Len(D) \in Nat
        BY <1>2 DEF DetailsThen
      <4> QED BY <4>1, <4>2
    <3>3. j # i /\ ~(j < i)
      BY <3>1, <2>1, <1>3, <1>4, <1>9
    <3>4. j > i
      BY <3>2, <3>3, <1>9
    <3>5. Block(z) > b
      BY <3>1, <3>4, <1>1 DEF IsDetailAt
    <3> QED BY <3>5, <2>6
  <2>11. CASE ~\E j \in DOMAIN D : D[j].ses = z
    <3>1. 1 \in DOMAIN D /\ Block(z) <= Block(D[1].ses) /\ Block(D[1].ses) <= lastSync
      BY <2>9, <2>11, <1>2, <1>8 DEF DetailsThen
    <3>2. Block(D[1].ses) \in Nat
      BY <3>1, <1>2, LogTypes DEF DetailsThen
    <3> QED BY <3>1, <3>2, <2>6, <1>9
  <2> QED BY <2>10, <2>11
<1>11. SessionAt(k) = SessionAt(c)
  BY <1>1, <1>3, <1>7, <1>10
<1> QED BY <1>1, <1>3, <1>6, <1>11, OneClose

(***************************************************************************)
(* A fetch that does not stop the process has taken transfers of the       *)
(* sessions that owned their accounts.                                     *)
(***************************************************************************)
LEMMA TakenInSession ==
    ASSUME ChainInv, StepInv, SessionInv, FetchInv, DetailInv, PendingInv,
           NEW cms, NEW b, Fetching(cms, b), ~stopped',
           NEW t \in Counted(CheckTokenTransfer(cms, {b}))
    PROVE  SessionAt(t.log) = t.ses
<1> DEFINE taken == CheckTokenTransfer(cms, {b})
<1>0. /\ cms \subseteq Managers /\ b \in Nat /\ NoMore(b) /\ (Closed(cms) = {} \/ b = Block(at))
      /\ FetchFromDCForChangedSessions(taken, cms, b)
  BY DEF Fetching
<1>1. t \in taken
  BY DEF Counted
<1> HIDE DEF taken
<1>2. PICK l, s : l = t.log /\ s = t.ses
  OBVIOUS
<1>3. /\ l \in DOMAIN logs /\ Block(l) = b /\ l \in BatchLogs(Direct) /\ Kind(l) \in Direct
      /\ s \in DOMAIN sessions /\ s \in Opens /\ Manager(s) \in cms /\ BelongsTo(l, s)
  BY <1>0, <1>1, <1>2, TakenFacts DEF taken
<1>4. PICK acc \in Accounts : acc = Acc(l)
  BY <1>3, LogTypes
<1>5. PICK i \in DOMAIN details[acc] :
        LET d == details[acc][i]
        IN  /\ d.ses = s /\ IsDetailAt(acc, i, b)
            /\ d.closeLog = None \/ Block(d.closeLog) >= b
            /\ ~BeforeOpen(d, l) /\ ~AfterClose(d, l)
  BY <1>3, <1>4 DEF BelongsTo
<1>6. PICK d : d = details[acc][i]
  OBVIOUS
<1>7. /\ d.ses = s /\ IsDetailAt(acc, i, b) /\ ~BeforeOpen(d, l) /\ ~AfterClose(d, l)
      /\ Block(s) <= b
  BY <1>5, <1>6 DEF IsDetailAt
<1>8. s < l
  BY <1>3, <1>7, AfterTheOpen
<1>9. Acc(s) = acc
  BY <1>5, <1>6, <1>7 DEF DetailInv, DetailsOrdered
<1>10. CASE s \notin Closed(cms)
  <2>1. s \in Fetched(taken, cms, b)
    <3>1. t \in Counted(taken)
      BY DEF taken
    <3>2. s \in Updated(taken, cms)
      BY <3>1, <1>2, <1>10, UpdatedMember
    <3> QED BY <3>2 DEF Fetched
  <2>2. HasAccount(s, FetchBlock(cms, s, b))
    <3>1. stopped' = \E x \in Fetched(taken, cms, b) : ~HasAccount(x, FetchBlock(cms, x, b))
      BY <1>0 DEF FetchFromDCForChangedSessions
    <3> QED BY <2>1, <3>1
  <2>3. OpenAt(s, b)
    BY <2>2, <1>10 DEF HasAccount, FetchBlock
  <2>4. ASSUME NEW c \in Closes, SessionAt(c) = s
        PROVE  l < c
    <3>1. Block(c) > Block(l)
      BY <2>3, <2>4, <1>3 DEF OpenAt, Closes
    <3> QED BY <3>1, <1>3, LogTypes
  <2> QED BY <2>4, <1>2, <1>3, <1>4, <1>8, <1>9, InSession
<1>11. CASE s \in Closed(cms)
  <2>1. b = Block(at)
    BY <1>11, <1>0
  <2>2. PICK cm \in Managers : s \in closed[cm]
    BY <1>0, <1>11 DEF Closed
  <2>3. PICK c \in BatchLogs({"close"}) : c <= at /\ Block(c) = b /\ SessionAt(c) = s
    BY <2>1, <2>2 DEF FetchInv
  <2>4. c \in Closes /\ c \in HandledLogs /\ lastSync < b
    BY <2>3 DEF BatchLogs, Closes, LogsOf, HandledLogs, Handled
  <2>5. d.closeLog = c
    BY <2>3, <2>4, <1>0, <1>6, <1>7, OwnClose
  <2>6. Block(l) <= Block(d.closeLog)
    BY <2>3, <2>5, <1>0, <1>3
  <2>7. l < c
    BY <2>4, <2>5, <2>6, <1>3, <1>7, BeforeTheClose
  <2>8. \A q \in Closes : SessionAt(q) = s => l < q
    BY <2>3, <2>4, <2>7, OneClose
  <2> QED BY <2>8, <1>2, <1>3, <1>4, <1>8, <1>9, InSession
<1> QED BY <1>10, <1>11

-----------------------------------------------------------------------------
(***************************************************************************)
(* The rows and the snapshots                                              *)
(***************************************************************************)
LEMMA NewRowFacts ==
    ASSUME NEW STATE taken, \A t \in taken : t.log \in DOMAIN logs /\ t = [log |-> t.log, ses |-> t.ses],
           NEW r \in NewRows(taken)
    PROVE  /\ \E t \in Counted(taken) : r = [logs |-> RowLogs(t, taken), ses |-> t.ses] /\ t.log \in r.logs
           /\ \A l \in r.logs : [log |-> l, ses |-> r.ses] \in Counted(taken)
<1>1. PICK t \in Counted(taken) : r = [logs |-> RowLogs(t, taken), ses |-> t.ses]
  BY DEF NewRows
<1>2. t \in taken /\ t.log \in DOMAIN logs /\ t = [log |-> t.log, ses |-> t.ses]
  BY DEF Counted
<1>3. t.log \in CountedFor(taken, t.ses)
  BY <1>2 DEF CountedFor
<1>4. r.logs = RowLogs(t, taken) /\ r.ses = t.ses
  BY <1>1
<1>5. t.log \in r.logs
  BY <1>3, <1>4 DEF RowLogs
<1>6. \A l \in r.logs : [log |-> l, ses |-> r.ses] \in Counted(taken)
  <2>1. CASE Kind(t.log) = "deposit"
    BY <2>1, <1>2, <1>4 DEF RowLogs
  <2>2. CASE Kind(t.log) # "deposit"
    BY <2>2, <1>4 DEF RowLogs, CountedFor
  <2> QED BY <2>1, <2>2
<1> QED BY <1>1, <1>5, <1>6

\* What is taken is not pending any more.
LEMMA TakenNotPending ==
    ASSUME ChainInv, NEW STATE taken, transfers' = Left(taken), logs' = logs,
           NEW t \in taken, t.log \in DOMAIN logs
    PROVE  ~Pending(t.log)'
<1>0. PICK l : l = t.log
  OBVIOUS
<1>1. PICK acc \in Accounts : l = t.log /\ acc = Acc(l)
  BY <1>0, LogTypes
<1>2. l \notin transfers'[acc]
  <2>1. transfers'[acc] = {k \in transfers[acc] : \A x \in taken : Acc(x.log) = acc => Tx(x.log) # Tx(k)}
    BY DEF Left
  <2>2. Acc(t.log) = acc /\ Tx(t.log) = Tx(l)
    BY <1>1
  <2> QED BY <2>1, <2>2
<1>3. Acc(l)' = acc
  BY <1>1 DEF Acc
<1>4. ~Pending(l)'
  BY <1>2, <1>3 DEF Pending
<1> QED BY <1>1, <1>4 DEF Pending, Acc

LEMMA PendingBefore ==
    ASSUME ChainInv, logs' = logs, \A acc \in Accounts : transfers'[acc] \subseteq transfers[acc],
           NEW l, Pending(l)'
    PROVE  Pending(l)
<1>1. l \in DOMAIN logs /\ Acc(l)' = Acc(l) /\ Acc(l) \in Accounts
  BY LogTypes DEF Pending, Acc
<1> QED BY <1>1 DEF Pending

LEMMA FetchRows ==
    ASSUME ChainInv, StepInv, SessionInv, FetchInv, DetailInv, PendingInv, RowInv,
           NEW cms, NEW b, Fetching(cms, b)
    PROVE  RowInv'
<1> DEFINE taken == CheckTokenTransfer(cms, {b})
<1>0. /\ b \in Nat /\ NoMore(b) /\ ~stopped /\ (Closed(cms) # {} => b # 0)
      /\ FetchFromDCForChangedSessions(taken, cms, b)
  BY DEF Fetching
<1>1. /\ logs' = logs /\ lastSync' = lastSync /\ till' = till /\ saved' = saved
      /\ transfers' = Left(taken) /\ rows' = rows \cup NewRows(taken)
  BY <1>0 DEF FetchFromDCForChangedSessions, chainVars
<1>2. ASSUME NEW t \in taken
      PROVE  /\ t.log \in DOMAIN logs /\ t.log \in BatchLogs(Direct) /\ Kind(t.log) \in Direct
             /\ t.ses \in DOMAIN sessions /\ t = [log |-> t.log, ses |-> t.ses]
  BY <1>0, TakenFacts
<1>3. ~stopped' => \A t \in Counted(taken) : SessionAt(t.log) = t.ses
  BY TakenInSession
<1> HIDE DEF taken
<1>4. DOMAIN sessions' = DOMAIN sessions
  BY <1>0, FetchSessions
<1>5. \A l : /\ SessionAt(l)' = SessionAt(l) /\ Block(l)' = Block(l)
             /\ \A kinds : l \in LogsOf(kinds)' <=> l \in LogsOf(kinds)
  BY <1>1, SameLogs
<1>6. \A acc \in Accounts : transfers'[acc] \subseteq transfers[acc]
  BY <1>1 DEF Left
<1>7. ASSUME NEW r \in rows'
      PROVE  /\ r.logs # {} /\ r.ses \in DOMAIN sessions'
             /\ \A l \in r.logs : /\ l \in LogsOf(Received)' /\ ~Pending(l)'
                                  /\ Block(l)' <= till'
                                  /\ stopped' \/ SessionAt(l)' = r.ses
  <2>1. CASE r \in rows
    <3>1. \A l \in r.logs : ~Pending(l)'
      BY <2>1, <1>1, <1>6, PendingBefore DEF RowInv
    <3> QED BY <3>1, <2>1, <1>0, <1>1, <1>4, <1>5 DEF RowInv
  <2>2. CASE r \in NewRows(taken)
    <3>1. /\ \E t \in Counted(taken) : t.log \in r.logs /\ r.ses = t.ses
          /\ \A l \in r.logs : [log |-> l, ses |-> r.ses] \in Counted(taken)
      <4>1. /\ \E t \in Counted(taken) : r = [logs |-> RowLogs(t, taken), ses |-> t.ses] /\ t.log \in r.logs
            /\ \A l \in r.logs : [log |-> l, ses |-> r.ses] \in Counted(taken)
        BY <2>2, <1>2, NewRowFacts
      <4> QED BY <4>1
    <3>2. \A t \in Counted(taken) : t \in taken /\ Kind(t.log) # "zero"
      BY DEF Counted
    <3>3. ASSUME NEW l \in r.logs
          PROVE  /\ l \in LogsOf(Received)' /\ ~Pending(l)' /\ Block(l)' <= till'
                 /\ stopped' \/ SessionAt(l)' = r.ses
      <4>1. PICK t : t = [log |-> l, ses |-> r.ses]
        OBVIOUS
      <4>2. t.log = l /\ t.ses = r.ses /\ t \in Counted(taken)
        BY <3>1, <3>3, <4>1
      <4>3. t \in taken /\ l \in DOMAIN logs /\ l \in BatchLogs(Direct) /\ Kind(l) \in Received
        BY <4>2, <3>2, <1>2 DEF Direct
      <4>4. ~Pending(t.log)'
        BY <4>2, <4>3, <1>1, TakenNotPending
      <4>5. ~Pending(l)'
        BY <4>2, <4>4
      <4>6. l \in LogsOf(Received)' /\ Block(l)' <= till'
        BY <4>3, <1>1, <1>5 DEF BatchLogs, LogsOf
      <4>7. stopped' \/ SessionAt(l)' = r.ses
        BY <4>2, <1>3, <1>5
      <4> QED BY <4>5, <4>6, <4>7
    <3>4. r.logs # {} /\ r.ses \in DOMAIN sessions'
      BY <3>1, <3>2, <1>2, <1>4
    <3> QED BY <3>3, <3>4
  <2> QED BY <2>1, <2>2, <1>1
<1>8. ASSUME NEW r \in saved.rows
      PROVE  /\ r.logs # {} /\ r.ses \in DOMAIN saved.sessions
             /\ \A l \in r.logs : /\ l \in LogsOf(Received)' /\ Block(l)' <= lastSync'
                                  /\ SessionAt(l)' = r.ses
  BY <1>1, <1>5 DEF RowInv
<1> QED BY <1>1, <1>7, <1>8 DEF RowInv

\* Steps that write nothing, and after which nothing recorded is pending.
LEMMA RowsRest ==
    ASSUME ChainInv, RowInv, Extended, rows' = rows, saved' = saved, lastSync' = lastSync,
           DOMAIN sessions \subseteq DOMAIN sessions', stopped' = stopped,
           \A r \in rows : \A l \in r.logs : ~Pending(l)' /\ Block(l) <= till'
    PROVE  RowInv'
<1>1. \A l \in LogsOf(Received) : l \in LogsOf(Received)' /\ SessionAt(l)' = SessionAt(l) /\ Block(l)' = Block(l)
  BY DEF Extended, LogsOf, Kind, SessionAt, Block
<1>2. ASSUME NEW r \in rows
      PROVE  /\ r.logs # {} /\ r.ses \in DOMAIN sessions'
             /\ \A l \in r.logs : /\ l \in LogsOf(Received)' /\ ~Pending(l)' /\ Block(l)' <= till'
                                  /\ stopped' \/ SessionAt(l)' = r.ses
  BY <1>1 DEF RowInv
<1>3. ASSUME NEW r \in saved.rows
      PROVE  /\ r.logs # {} /\ r.ses \in DOMAIN saved.sessions
             /\ \A l \in r.logs : /\ l \in LogsOf(Received)' /\ Block(l)' <= lastSync
                                  /\ SessionAt(l)' = r.ses
  BY <1>1 DEF RowInv
<1> QED BY <1>2, <1>3 DEF RowInv

LEMMA ChainRows ==
    ASSUME ChainInv, StepInv, PendingInv, RowInv, Chain
    PROVE  RowInv'
<1>1. ChainInv' /\ Extended
  BY ChainGrows
<1>2. /\ Idle /\ rows' = rows /\ saved' = saved /\ lastSync' = lastSync /\ sessions' = sessions
      /\ stopped' = stopped /\ transfers' = transfers /\ till' = till
  BY ChainActions DEF rowVars, syncVars, sessionVars, transferVars, roundVars
<1>3. \A acc \in Accounts : transfers'[acc] = {}
  BY <1>2, NothingPending
<1>4. \A l \in DOMAIN logs : Acc(l)' = Acc(l) /\ Acc(l) \in Accounts
  BY <1>1, LogTypes DEF Extended, Acc
<1>5. \A r \in rows : \A l \in r.logs : ~Pending(l)' /\ Block(l) <= till'
  <2>1. \A r \in rows : \A l \in r.logs : l \in DOMAIN logs /\ Block(l) <= till
    BY LogTypes DEF RowInv
  <2> QED BY <2>1, <1>2, <1>3, <1>4 DEF Pending
<1> QED BY <1>1, <1>2, <1>5, RowsRest

LEMMA QueryRows ==
    ASSUME ChainInv, StepInv, PendingInv, RowInv, Query
    PROVE  RowInv'
<1>1. /\ logs' = logs /\ head' = head /\ till' = head /\ lastSync' = lastSync /\ Idle /\ sessions' = sessions
      /\ rows' = rows /\ saved' = saved /\ stopped' = stopped
      /\ transfers' = [acc \in Accounts |-> transfers[acc] \cup
                       {l \in LogsOf(Direct \cup {"transfer"}) : Acc(l) = acc /\ lastSync < Block(l)}]
  BY DEF Query, chainVars, syncVars, rowVars, sessionVars
<1>2. Extended
  BY <1>1, SameLogsExtend
<1>3. \A acc \in Accounts : transfers[acc] = {}
  BY <1>1, NothingPending
<1>4. till = lastSync /\ lastSync \in Nat /\ head \in Nat /\ lastSync <= head
  BY <1>1, LogTypes DEF Idle, StepInv
<1>5. ASSUME NEW r \in rows, NEW l \in r.logs
      PROVE  ~Pending(l)' /\ Block(l) <= till'
  <2>1. l \in DOMAIN logs /\ Block(l) <= lastSync
    BY <1>4, LogTypes DEF RowInv
  <2>2. Acc(l)' = Acc(l) /\ Acc(l) \in Accounts /\ Block(l) \in Nat
    BY <2>1, <1>1, LogTypes, SameLogs
  <2>3. l \notin transfers'[Acc(l)]
    BY <2>1, <2>2, <1>1, <1>3, <1>4
  <2> QED BY <2>1, <2>2, <2>3, <1>1, <1>4 DEF Pending
<1> QED BY <1>1, <1>2, <1>5, RowsRest

LEMMA OnLogRows ==
    ASSUME ChainInv, StepInv, PendingInv, RowInv, NEW l, OnLog(l), DOMAIN sessions \subseteq DOMAIN sessions'
    PROVE  RowInv'
<1>1. /\ logs' = logs /\ lastSync' = lastSync /\ till' = till /\ saved' = saved /\ stopped' = stopped
      /\ Extended
  BY OnLogFacts
<1>2. rows' = rows /\ transfers' = [acc \in Accounts |-> {k \in transfers[acc] : Tx(k) # Tx(l)}]
  BY DEF OnLog, rowVars
<1>3. \A acc \in Accounts : transfers'[acc] \subseteq transfers[acc]
  BY <1>2
<1>4. \A r \in rows : \A k \in r.logs : ~Pending(k)' /\ Block(k) <= till'
  BY <1>1, <1>3, PendingBefore DEF RowInv
<1> QED BY <1>1, <1>2, <1>4, RowsRest

LEMMA EndBlockRows ==
    ASSUME ChainInv, RowInv, EndBlock
    PROVE  RowInv'
<1>1. /\ logs' = logs /\ head' = head /\ lastSync' = lastSync /\ till' = till /\ saved' = saved
      /\ stopped' = stopped /\ rows' = rows /\ sessions' = sessions /\ transfers' = transfers
  BY DEF EndBlock, chainVars, syncVars, rowVars, sessionVars, transferVars
<1>2. Extended
  BY <1>1, SameLogsExtend
<1>3. \A r \in rows : \A k \in r.logs : ~Pending(k)' /\ Block(k) <= till'
  BY <1>1, PendingBefore DEF RowInv
<1> QED BY <1>1, <1>2, <1>3, RowsRest

LEMMA AfterSyncRows ==
    ASSUME ChainInv, StepInv, RowInv, AfterSync
    PROVE  RowInv'
<1>1. /\ logs' = logs /\ lastSync' = till /\ till' = till /\ rows' = rows /\ sessions' = sessions
      /\ saved'.sessions = sessions /\ saved'.rows = rows /\ ~stopped /\ stopped' = stopped
      /\ transfers' = [acc \in Accounts |-> {}]
  BY DEF AfterSync, chainVars, sessionVars
<1>2. \A l : /\ SessionAt(l)' = SessionAt(l) /\ Block(l)' = Block(l) /\ Acc(l)' = Acc(l)
             /\ \A kinds : l \in LogsOf(kinds)' <=> l \in LogsOf(kinds)
  BY <1>1, SameLogs
<1>3. \A l \in LogsOf(Received) : ~Pending(l)'
  <2>1. \A l \in LogsOf(Received) : Acc(l) \in Accounts
    BY LogTypes
  <2> QED BY <2>1, <1>1, <1>2 DEF Pending
<1>4. ASSUME NEW r \in rows
      PROVE  /\ r.logs # {} /\ r.ses \in DOMAIN sessions
             /\ \A l \in r.logs : /\ l \in LogsOf(Received)' /\ ~Pending(l)' /\ Block(l)' <= till
                                  /\ SessionAt(l)' = r.ses
  BY <1>1, <1>2, <1>3 DEF RowInv
<1> QED BY <1>1, <1>4 DEF RowInv

LEMMA RestartRows ==
    ASSUME ChainInv, RowInv, Restart
    PROVE  RowInv'
<1>1. /\ logs' = logs /\ lastSync' = lastSync /\ till' = lastSync /\ rows' = saved.rows /\ saved' = saved
      /\ DOMAIN sessions' = DOMAIN saved.sessions /\ transfers' = [acc \in Accounts |-> {}]
  BY DEF Restart, chainVars
<1>2. \A l : /\ SessionAt(l)' = SessionAt(l) /\ Block(l)' = Block(l) /\ Acc(l)' = Acc(l)
             /\ \A kinds : l \in LogsOf(kinds)' <=> l \in LogsOf(kinds)
  BY <1>1, SameLogs
<1>3. \A l \in LogsOf(Received) : ~Pending(l)'
  <2>1. \A l \in LogsOf(Received) : Acc(l) \in Accounts
    BY LogTypes
  <2> QED BY <2>1, <1>1, <1>2 DEF Pending
<1>4. ASSUME NEW r \in saved.rows
      PROVE  /\ r.logs # {} /\ r.ses \in DOMAIN saved.sessions
             /\ \A l \in r.logs : /\ l \in LogsOf(Received)' /\ ~Pending(l)' /\ Block(l)' <= lastSync
                                  /\ SessionAt(l)' = r.ses
  BY <1>1, <1>2, <1>3 DEF RowInv
<1> QED BY <1>1, <1>4 DEF RowInv

-----------------------------------------------------------------------------
(***************************************************************************)
(* Snapshots                                                               *)
(***************************************************************************)

LEMMA ClosedMember ==
    ASSUME NEW cms, NEW s
    PROVE  s \in Closed(cms) <=> \E cm \in cms : s \in closed[cm]
BY DEF Closed

\* What is fetched are sessions.
LEMMA FetchedSessions ==
    ASSUME ChainInv, StepInv, SessionInv, FetchInv, PendingInv, NEW cms, NEW b, cms \subseteq Managers,
           NoMore(b), NEW s \in Fetched(CheckTokenTransfer(cms, {b}), cms, b)
    PROVE  s \in DOMAIN sessions /\ Manager(s) \in cms
<1> DEFINE taken == CheckTokenTransfer(cms, {b})
<1>1. s \in Updated(taken, cms) \/ s \in Closed(cms)
  BY DEF Fetched
<1>2. ASSUME NEW t \in taken
      PROVE  t.ses \in DOMAIN sessions /\ Manager(t.ses) \in cms
  BY TakenFacts
<1>3. ASSUME NEW t \in Counted(taken)
      PROVE  t.ses \in DOMAIN sessions /\ Manager(t.ses) \in cms
  BY <1>2 DEF Counted
<1> HIDE DEF taken
<1>4. CASE s \in Closed(cms)
  BY <1>4, ClosedMember DEF FetchInv
<1>5. CASE s \in Updated(taken, cms)
  <2>1. \/ \E cm \in cms : s \in updated[cm]
        \/ \E t \in Counted(taken) : t.ses = s
    BY <1>5, UpdatedMember
  <2>2. CASE \E cm \in cms : s \in updated[cm]
    BY <2>2 DEF FetchInv
  <2>3. CASE \E t \in Counted(taken) : t.ses = s
    BY <2>3, <1>3
  <2> QED BY <2>1, <2>2, <2>3
<1> QED BY <1>1, <1>4, <1>5

LEMMA FetchBlockBounds ==
    ASSUME NEW cms, NEW b, b \in Nat, Closed(cms) # {} => b # 0, NEW s
    PROVE  FetchBlock(cms, s, b) \in Nat /\ FetchBlock(cms, s, b) <= b
BY DEF FetchBlock

LEMMA FetchSnapshots ==
    ASSUME ChainInv, StepInv, SessionInv, FetchInv, PendingInv, SnapshotInv,
           NEW cms, NEW b, Fetching(cms, b)
    PROVE  SnapshotInv'
<1> DEFINE taken == CheckTokenTransfer(cms, {b})
<1>1. /\ b \in Nat /\ b # 0 /\ b <= till /\ cms \subseteq Managers /\ NoMore(b)
      /\ FetchFromDCForChangedSessions(taken, cms, b)
  BY DEF Fetching
<1>2. \A s \in Fetched(taken, cms, b) : s \in DOMAIN sessions
  BY <1>1, FetchedSessions
<1> HIDE DEF taken
<1>3. /\ snapshots' = AddSnapshots(taken, cms, b) /\ saved' = saved /\ head' = head
  BY <1>1 DEF FetchFromDCForChangedSessions, chainVars
<1>4. b <= head /\ head \in Nat /\ till \in Nat
  BY <1>1, DomainLogs DEF StepInv, Fetching, ChainInv, OrderInv
<1>5. ASSUME NEW s \in Fetched(taken, cms, b)
      PROVE  /\ s \in Nat /\ Collateral(taken, s) \in Nat
             /\ FetchBlock(cms, s, b) \in Nat /\ FetchBlock(cms, s, b) <= head
  <2>1. s \in DOMAIN sessions /\ sessions \in [Opens \cap HandledLogs -> SessionRecord]
    BY <1>2 DEF SessionInv, SessionsOf
  <2>2. s \in DOMAIN logs
    BY <2>1 DEF Opens, LogsOf
  <2>3. s \in Nat
    BY <2>2, DomainLogs DEF ChainInv
  <2>4. sessions[s].collateral \in Nat
    BY <2>1 DEF SessionRecord
  <2>5. Collateral(taken, s) \in Nat
    BY <2>4, CountedNumber DEF Collateral
  <2>6. FetchBlock(cms, s, b) \in Nat /\ FetchBlock(cms, s, b) <= b
    BY <1>1, FetchBlockBounds
  <2> QED BY <2>3, <2>5, <2>6, <1>1, <1>4
<1>6. ASSUME NEW x \in snapshots'
      PROVE  x \in SnapshotRecord /\ x.block <= head
  <2>1. \/ x \in snapshots
        \/ \E s \in Fetched(taken, cms, b) :
             x = [ses |-> s, block |-> FetchBlock(cms, s, b), collateral |-> Collateral(taken, s)]
    BY <1>3 DEF AddSnapshots
  <2>2. CASE x \in snapshots
    BY <2>2 DEF SnapshotInv
  <2>3. CASE \E s \in Fetched(taken, cms, b) :
               x = [ses |-> s, block |-> FetchBlock(cms, s, b), collateral |-> Collateral(taken, s)]
    BY <2>3, <1>5 DEF SnapshotRecord
  <2> QED BY <2>1, <2>2, <2>3
<1> QED BY <1>3, <1>6 DEF SnapshotInv

LEMMA SnapshotsRest ==
    ASSUME ChainInv, SnapshotInv, head' \in Nat, head <= head',
           snapshots' \subseteq snapshots \cup saved.snapshots,
           saved'.snapshots \subseteq snapshots \cup saved.snapshots
    PROVE  SnapshotInv'
<1>1. head \in Nat /\ \A x \in snapshots \cup saved.snapshots : x.block \in Nat
  BY DEF ChainInv, OrderInv, SnapshotInv, SnapshotRecord
<1> QED BY <1>1 DEF SnapshotInv

LEMMA OtherSnapshots ==
    ASSUME ChainInv, SnapshotInv, \/ Chain \/ Query \/ EndBlock \/ AfterSync \/ Restart
                                  \/ \E l : OnLog(l)
    PROVE  SnapshotInv'
<1>0. head \in Nat
  BY DEF ChainInv, OrderInv
<1>1. CASE Chain
  BY <1>1, ChainActions, ChainGrows, SnapshotsRest DEF Extended, rowVars, syncVars
<1>2. CASE Query
  BY <1>2, <1>0, SnapshotsRest DEF Query, rowVars, syncVars, chainVars
<1>3. CASE EndBlock
  BY <1>3, <1>0, SnapshotsRest DEF EndBlock, rowVars, syncVars, chainVars
<1>4. CASE AfterSync
  <2>1. snapshots' = snapshots /\ saved'.snapshots = snapshots /\ head' = head
    BY <1>4 DEF AfterSync, chainVars
  <2> QED BY <2>1, <1>0, SnapshotsRest
<1>5. CASE Restart
  BY <1>5, <1>0, SnapshotsRest DEF Restart, chainVars
<1>6. CASE \E l : OnLog(l)
  BY <1>6, <1>0, SnapshotsRest DEF OnLog, rowVars, syncVars, chainVars
<1> QED BY <1>1, <1>2, <1>3, <1>4, <1>5, <1>6

-----------------------------------------------------------------------------
(***************************************************************************)
(* The invariant is inductive: one lemma per action.                       *)
(***************************************************************************)

LEMMA SameChain ==
    ASSUME ChainInv, logs' = logs, head' = head
    PROVE  Extended
<1>1. head \in Nat
  BY DEF ChainInv, OrderInv
<1> QED BY <1>1 DEF Extended

LEMMA SyncBounds ==
    ASSUME StepInv
    PROVE  /\ lastSync \in Nat /\ till \in Nat /\ at \in Nat /\ restarts \in Nat
           /\ step # "idle" => lastSync < till
BY DEF StepInv

\* Transactions and blocks of the chain.
LEMMA ChainInvStep ==
    ASSUME Inv, Chain
    PROVE  Inv'
<1>1. ChainInv /\ SessionInv /\ StepInv /\ FetchInv /\ DetailInv /\ PendingInv /\ RowInv /\ SnapshotInv
  BY DEF Inv, RoundInv
<1>2. ChainInv' /\ Extended
  BY <1>1, ChainGrows
<1>3. /\ Idle /\ lastSync' = lastSync /\ at' = at /\ details' = details /\ sessions' = sessions
      /\ restarts' = restarts
  BY ChainActions DEF transferVars, sessionVars, syncVars, roundVars, seenVars
<1>4. HandledLogs' = HandledLogs
  BY <1>1, <1>2, <1>3, ChainHandled
<1>5. DetailInv'
  BY <1>1, <1>2, <1>3, <1>4, DetailsRest, SyncBounds
<1>6. SessionInv' /\ StepInv' /\ FetchInv'
  BY <1>1, ChainSessions, ChainStepInv, QuietFetchInv
<1>7. PendingInv' /\ RowInv' /\ SnapshotInv'
  BY <1>1, ChainPending, ChainRows, OtherSnapshots
<1> QED BY <1>2, <1>5, <1>6, <1>7 DEF Inv, RoundInv

\* The transfers of a batch are collected.
LEMMA QueryInvStep ==
    ASSUME Inv, Query
    PROVE  Inv'
<1>1. ChainInv /\ SessionInv /\ StepInv /\ FetchInv /\ DetailInv /\ PendingInv /\ RowInv /\ SnapshotInv
  BY DEF Inv, RoundInv
<1>2. /\ logs' = logs /\ head' = head /\ lastSync' = lastSync /\ at' = at /\ details' = details
      /\ sessions' = sessions /\ saved' = saved /\ restarts' = restarts
  BY DEF Query, chainVars, sessionVars, syncVars, seenVars
<1>3. Extended /\ HandledLogs' = HandledLogs /\ SavedPart' = SavedPart
  BY <1>1, <1>2, SameChain, SameHandled
<1>4. ChainInv'
  BY <1>1, ChainPreserved DEF Next
<1>5. DetailInv'
  BY <1>1, <1>2, <1>3, DetailsRest, SyncBounds
<1>6. SessionInv' /\ StepInv' /\ FetchInv'
  BY <1>1, <1>2, <1>3, SessionsRest, QueryStepInv, QuietFetchInv
<1>7. PendingInv' /\ RowInv' /\ SnapshotInv'
  BY <1>1, QueryPending, QueryRows, OtherSnapshots
<1> QED BY <1>4, <1>5, <1>6, <1>7 DEF Inv, RoundInv

\* An event of a credit manager.
OnEvent(l) == OnOpenCreditAccount(l) \/ OnOperation(l) \/ OnTransferAccount(l) \/ OnCloseCreditAccount(l)

LEMMA OnEventInvStep ==
    ASSUME Inv, NEW l \in DOMAIN logs, OnEvent(l)
    PROVE  Inv'
<1>1. ChainInv /\ SessionInv /\ StepInv /\ FetchInv /\ DetailInv /\ PendingInv /\ RowInv /\ SnapshotInv
  BY DEF Inv, RoundInv
<1>2. OnLog(l)
  BY DEF OnEvent, OnOpenCreditAccount, OnOperation, OnTransferAccount, OnCloseCreditAccount
<1>3. ChainInv'
  <2>1. step = "logs"
    BY <1>2 DEF OnLog
  <2> QED BY <1>1, <2>1, ChainPreserved DEF Next, OnLogs, OnEvent
<1>4. Extended /\ lastSync' = lastSync /\ restarts' = restarts /\ HandledLogs \subseteq HandledLogs'
  BY <1>1, <1>2, OnLogFacts, OnLogHandled DEF OnLog, seenVars
<1>5. StepInv' /\ PendingInv' /\ SnapshotInv'
  BY <1>1, <1>2, OnLogStepInv, OnLogPending, OtherSnapshots
<1>6. SessionInv'
  BY <1>1, OpenSessions, OperationSessions, TransferAccountSessions, CloseSessions DEF OnEvent
<1>7. FetchInv'
  BY <1>1, OpenFetchInv, OperationFetchInv, TransferAccountFetchInv, CloseFetchInv DEF OnEvent
<1>8. DOMAIN sessions \subseteq DOMAIN sessions'
  BY DEF OnEvent, OnOpenCreditAccount, OnOperation, OnTransferAccount, OnCloseCreditAccount
<1>9. RowInv'
  BY <1>1, <1>2, <1>8, OnLogRows
<1>10. DetailInv'
  <2>1. CASE OnOpenCreditAccount(l)
    BY <2>1, <1>1, OpenDetails
  <2>2. CASE OnCloseCreditAccount(l)
    BY <2>2, <1>1, CloseDetails
  <2>3. CASE OnOperation(l)
    <3>1. sessions' = sessions /\ details' = details
      BY <2>3 DEF OnOperation
    <3> QED BY <3>1, <1>1, <1>4, DetailsRest, SyncBounds
  <2>4. CASE OnTransferAccount(l)
    <3>1. /\ details' = details /\ DOMAIN sessions' = DOMAIN sessions
          /\ sessions' = [sessions EXCEPT ![GetCreditOwnerSession(l)].owner = @ + 1]
      BY <2>4 DEF OnTransferAccount
    <3>2. ASSUME NEW s \in DOMAIN sessions
          PROVE  sessions'[s].closeLog = sessions[s].closeLog
      <4>1. sessions \in [DOMAIN sessions -> SessionRecord]
        BY <1>1 DEF SessionInv, SessionsOf
      <4> QED BY <3>1, <4>1 DEF SessionRecord
    <3> QED BY <3>1, <3>2, <1>1, <1>4, DetailsRest, SyncBounds
  <2> QED BY <2>1, <2>2, <2>3, <2>4 DEF OnEvent
<1> QED BY <1>3, <1>5, <1>6, <1>7, <1>9, <1>10 DEF Inv, RoundInv

\* The end of a block of events, or an earlier block with transfers left.
LEMMA FetchInvStep ==
    ASSUME Inv, OnBlockChange \/ UpdateSessionWithDirectTokenTransferBefore
    PROVE  Inv'
<1>1. ChainInv /\ SessionInv /\ StepInv /\ FetchInv /\ DetailInv /\ PendingInv /\ RowInv /\ SnapshotInv
  BY DEF Inv, RoundInv
<1>2. PICK cms \in SUBSET Managers, b \in Nat : Fetching(cms, b)
  BY <1>1, FetchSteps
<1> DEFINE taken == CheckTokenTransfer(cms, {b})
<1>3. /\ FetchFromDCForChangedSessions(taken, cms, b) /\ b # 0
      /\ step \in {"block", "before"} /\ step' = "before"
  BY <1>2 DEF Fetching
<1>4. ChainInv'
  BY <1>1, ChainPreserved DEF Next, OnLogs
<1>5. RowInv' /\ SnapshotInv'
  BY <1>1, <1>2, FetchRows, FetchSnapshots
<1>6. FetchInv'
  BY <1>1, BlockChangeFetchInv, BeforeFetchInv
<1> HIDE DEF taken
<1>7. SessionInv' /\ StepInv' /\ PendingInv'
  BY <1>1, <1>3, FetchSessionInv, FetchStepInv, FetchPending
<1>8. DetailInv'
  <2>1. /\ logs' = logs /\ head' = head /\ lastSync' = lastSync /\ at' = at /\ details' = details
        /\ restarts' = restarts
    BY <1>3 DEF FetchFromDCForChangedSessions, chainVars, seenVars
  <2>2. Extended /\ HandledLogs' = HandledLogs
    BY <2>1, <1>1, SameChain, SameHandled
  <2>3. /\ DOMAIN sessions' = DOMAIN sessions
        /\ \A s \in DOMAIN sessions : sessions'[s].closeLog = sessions[s].closeLog
    BY <1>1, <1>3, FetchSessions
  <2> QED BY <2>1, <2>2, <2>3, <1>1, DetailsRest, SyncBounds
<1> QED BY <1>4, <1>5, <1>6, <1>7, <1>8 DEF Inv, RoundInv

LEMMA EndBlockInvStep ==
    ASSUME Inv, EndBlock
    PROVE  Inv'
<1>1. ChainInv /\ SessionInv /\ StepInv /\ FetchInv /\ DetailInv /\ PendingInv /\ RowInv /\ SnapshotInv
  BY DEF Inv, RoundInv
<1>2. /\ logs' = logs /\ head' = head /\ lastSync' = lastSync /\ at' = at /\ details' = details
      /\ sessions' = sessions /\ saved' = saved /\ restarts' = restarts
  BY DEF EndBlock, chainVars, transferVars, sessionVars, syncVars, seenVars
<1>3. Extended /\ HandledLogs' = HandledLogs /\ SavedPart' = SavedPart
  BY <1>1, <1>2, SameChain, SameHandled
<1>4. ChainInv'
  BY <1>1, ChainPreserved DEF Next, OnLogs
<1>5. DetailInv'
  BY <1>1, <1>2, <1>3, DetailsRest, SyncBounds
<1>6. SessionInv' /\ StepInv' /\ FetchInv'
  BY <1>1, <1>2, <1>3, SessionsRest, EndBlockStepInv, QuietFetchInv
<1>7. PendingInv' /\ RowInv' /\ SnapshotInv'
  BY <1>1, OtherPending, EndBlockRows, OtherSnapshots
<1> QED BY <1>4, <1>5, <1>6, <1>7 DEF Inv, RoundInv

\* The batch is saved.
LEMMA AfterSyncInvStep ==
    ASSUME Inv, AfterSync
    PROVE  Inv'
<1>1. ChainInv /\ SessionInv /\ StepInv /\ FetchInv /\ DetailInv /\ PendingInv /\ RowInv /\ SnapshotInv
  BY DEF Inv, RoundInv
<1>2. /\ details' = details /\ sessions' = sessions /\ restarts' = restarts /\ step = "flush"
  BY DEF AfterSync, sessionVars
<1>3. /\ Extended /\ lastSync' = till /\ lastSync < till /\ HandledLogs' = DOMAIN logs
  BY <1>1, FlushFacts
<1>4. ChainInv'
  BY <1>1, ChainPreserved DEF Next
<1>5. DetailInv'
  <2>1. HandledLogs \subseteq HandledLogs'
    BY <1>3 DEF HandledLogs
  <2>2. lastSync \in Nat /\ lastSync' \in Nat /\ lastSync <= lastSync'
    BY <1>1, <1>3, SyncBounds
  <2> QED BY <2>1, <2>2, <1>1, <1>2, <1>3, DetailsRest
<1>6. SessionInv' /\ StepInv' /\ FetchInv'
  BY <1>1, AfterSyncSessions, AfterSyncStepInv, QuietFetchInv
<1>7. PendingInv' /\ RowInv' /\ SnapshotInv'
  BY <1>1, OtherPending, AfterSyncRows, OtherSnapshots
<1> QED BY <1>4, <1>5, <1>6, <1>7 DEF Inv, RoundInv

\* The process is started again.
LEMMA RestartInvStep ==
    ASSUME Inv, Restart
    PROVE  Inv'
<1>1. ChainInv /\ SessionInv /\ StepInv /\ FetchInv /\ DetailInv /\ PendingInv /\ RowInv /\ SnapshotInv
  BY DEF Inv, RoundInv
<1>2. ChainInv'
  BY <1>1, ChainPreserved DEF Next
<1>3. SessionInv' /\ StepInv' /\ FetchInv' /\ DetailInv'
  BY <1>1, RestartSessions, RestartStepInv, RestartFetchInv, RestartDetails
<1>4. PendingInv' /\ RowInv' /\ SnapshotInv'
  BY <1>1, OtherPending, RestartRows, OtherSnapshots
<1> QED BY <1>2, <1>3, <1>4 DEF Inv, RoundInv

LEMMA StutterInvStep ==
    ASSUME Inv, UNCHANGED vars
    PROVE  Inv'
<1> USE DEF vars, chainVars, transferVars, sessionVars, rowVars, syncVars, roundVars, seenVars
<1>1. ChainInv /\ SessionInv /\ StepInv /\ FetchInv /\ DetailInv /\ PendingInv /\ RowInv /\ SnapshotInv
  BY DEF Inv, RoundInv
<1>2. /\ logs' = logs /\ head' = head /\ lastSync' = lastSync /\ at' = at /\ till' = till
      /\ details' = details /\ sessions' = sessions /\ saved' = saved /\ restarts' = restarts
      /\ rows' = rows /\ step' = step /\ stopped' = stopped /\ transfers' = transfers
      /\ updated' = updated /\ closed' = closed /\ lastEventBlock' = lastEventBlock
      /\ snapshots' = snapshots
  OBVIOUS
<1>3. Extended /\ HandledLogs' = HandledLogs /\ SavedPart' = SavedPart
  BY <1>1, <1>2, SameChain, SameHandled
<1>4. ChainInv'
  BY <1>1, ChainPreserved
<1>5. SessionInv' /\ DetailInv'
  BY <1>1, <1>2, <1>3, SessionsRest, DetailsRest, SyncBounds
<1>6. StepInv'
  BY <1>1, <1>2 DEF StepInv, BatchLogs, LogsOf, Kind, Block, NoMore, BlockComplete
<1>7. FetchInv'
  BY <1>1, <1>2 DEF FetchInv, InBlock, BatchLogs, LogsOf, Kind, Block, NoMore, Manager, SessionAt
<1>8. PendingInv' /\ SnapshotInv'
  BY <1>1, <1>2 DEF PendingInv, BatchLogs, LogsOf, Kind, Block, Acc, Tx, SnapshotInv
<1>9. RowInv'
  BY <1>1, <1>2 DEF RowInv, Pending, LogsOf, Kind, Block, Acc, SessionAt
<1> QED BY <1>4, <1>5, <1>6, <1>7, <1>8, <1>9 DEF Inv, RoundInv

LEMMA InvStep ==
    ASSUME Inv, [Next]_vars
    PROVE  Inv'
<1>1. CASE Chain
  BY <1>1, ChainInvStep
<1>2. CASE Query
  BY <1>2, QueryInvStep
<1>3. CASE OnLogs
  <2>1. CASE \E l \in DOMAIN logs : OnEvent(l)
    BY <2>1, OnEventInvStep
  <2>2. CASE OnBlockChange \/ UpdateSessionWithDirectTokenTransferBefore
    BY <2>2, FetchInvStep
  <2>3. CASE EndBlock
    BY <2>3, EndBlockInvStep
  <2> QED BY <1>3, <2>1, <2>2, <2>3 DEF OnLogs, OnEvent
<1>4. CASE AfterSync
  BY <1>4, AfterSyncInvStep
<1>5. CASE Restart
  BY <1>5, RestartInvStep
<1>6. CASE UNCHANGED vars
  BY <1>6, StutterInvStep
<1> QED BY <1>1, <1>2, <1>3, <1>4, <1>5, <1>6 DEF Next

LEMMA InitInv ==
    ASSUME Init
    PROVE  Inv
<1>1. /\ head = 0 /\ logs = <<>> /\ txs = 0 /\ current = [acc \in Accounts |-> 0]
      /\ transfers = [acc \in Accounts |-> {}] /\ details = [acc \in Accounts |-> <<>>]
      /\ sessions = <<>> /\ updated = [cm \in Managers |-> {}] /\ closed = [cm \in Managers |-> {}]
      /\ lastEventBlock = [cm \in Managers |-> 0]
      /\ rows = {} /\ snapshots = {} /\ lastSync = 0 /\ stopped = FALSE
      /\ saved.sessions = <<>> /\ saved.rows = {} /\ saved.snapshots = {}
      /\ step = "idle" /\ till = 0 /\ at = 0 /\ restarts = 0
  BY DEF Init, None
<1>2. DOMAIN logs = {} /\ logs \in Seq(Log) /\ DOMAIN sessions = {} /\ DOMAIN saved.sessions = {}
  BY <1>1
<1>3. \A kinds : LogsOf(kinds) = {} /\ BatchLogs(kinds) = {}
  BY <1>2 DEF LogsOf, BatchLogs
<1>4. ChainInv
  BY <1>1, <1>2, <1>3 DEF ChainInv, OrderInv, TxInv, HoldInv, CurrentInv, Opens, Closes, None
<1>5. SessionInv
  <2>1. HandledLogs = {} /\ SavedPart = {} /\ Opens = {}
    BY <1>2, <1>3 DEF HandledLogs, SavedPart, Opens
  <2>2. sessions \in [{} -> SessionRecord] /\ saved.sessions \in [{} -> SessionRecord]
    BY <1>1, <1>2
  <2> QED BY <2>1, <2>2 DEF SessionInv, SessionsOf
<1>6. StepInv
  <2>1. stopped \in BOOLEAN /\ ~stopped
    BY <1>1, Zenon
  <2> QED BY <2>1, <1>1, <1>3 DEF StepInv
<1>7. FetchInv
  BY <1>1, <1>3 DEF FetchInv, InBlock
<1>8. DetailInv
  <2>1. \A acc \in Accounts : details[acc] = <<>> /\ DOMAIN details[acc] = {}
    BY <1>1
  <2> QED BY <2>1, <1>1, <1>2 DEF DetailInv, DetailsOrdered, DetailsClosed, DetailsComplete
<1>9. PendingInv /\ RowInv /\ SnapshotInv
  BY <1>1 DEF PendingInv, RowInv, SnapshotInv
<1> QED BY <1>4, <1>5, <1>6, <1>7, <1>8, <1>9 DEF Inv, RoundInv

(***************************************************************************)
(* The sessions, their details and what is pending and recorded fit the    *)
(* chain in every state, during a round and after any restart: the         *)
(* invariant the other theorems about direct transfers rest on.            *)
(***************************************************************************)
THEOREM Invariance == Spec => []Inv
<1>1. Init => Inv
  BY InitInv
<1>2. Inv /\ [Next]_vars => Inv'
  BY InvStep
<1> QED BY <1>1, <1>2, PTL DEF Spec

-----------------------------------------------------------------------------

LEMMA InvTypeOK ==
    ASSUME Inv
    PROVE  TypeOK
<1>1. ChainInv /\ SessionInv /\ StepInv /\ FetchInv /\ DetailInv /\ PendingInv /\ RowInv
  BY DEF Inv, RoundInv
<1>2. lastSync \in 0..head
  BY <1>1 DEF StepInv, ChainInv, OrderInv
<1>3. ASSUME NEW acc \in Accounts, NEW l \in transfers[acc]
      PROVE  l \in DOMAIN logs /\ Acc(l) = acc /\ lastSync < Block(l) /\ Block(l) <= till
  BY <1>1 DEF PendingInv, BatchLogs, LogsOf
<1>4. ASSUME NEW acc \in Accounts, NEW i \in DOMAIN details[acc], NEW j \in DOMAIN details[acc]
      PROVE  /\ details[acc][i].ses \in DOMAIN sessions /\ Acc(details[acc][i].ses) = acc
             /\ i < j => details[acc][i].ses < details[acc][j].ses
  BY <1>1 DEF DetailInv, DetailsOrdered
<1>5. \A cm \in Managers : \A s \in updated[cm] \cup closed[cm] : s \in DOMAIN sessions /\ Manager(s) = cm
  BY <1>1 DEF FetchInv
<1>6. \A r \in rows : r.logs # {} /\ r.logs \subseteq LogsOf(Received) /\ r.ses \in DOMAIN sessions
  BY <1>1 DEF RowInv
<1> QED BY <1>2, <1>3, <1>4, <1>5, <1>6 DEF TypeOK

(***************************************************************************)
(* The type invariant: what is pending belongs to the round in progress    *)
(* (AfterSync clears it), the Details of an account name its sessions in   *)
(* the order they were opened, and a row is about a session.               *)
(***************************************************************************)
THEOREM TypeCorrect == Spec => []TypeOK
BY Invariance, InvTypeOK, PTL

(***************************************************************************)
(* A direct transfer is recorded for the session that owned the account    *)
(* when it happened (AccountData.GetRemainingTransfer): whatever the       *)
(* number of accounts, managers, blocks and restarts, with transfers       *)
(* before the open and after the close of a session in the same block, and *)
(* with the wrong session loaded by a restart.                             *)
(***************************************************************************)
THEOREM RecordedCorrect == Spec => []RecordedInSession
<1>1. Inv => RecordedInSession
  BY DEF Inv, RowInv, RecordedInSession, BlockSaved
<1> QED BY <1>1, Invariance, PTL
=============================================================================
