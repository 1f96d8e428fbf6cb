------------------------------- MODULE Indexer -------------------------------
(***************************************************************************)
(* What the sync engine promises a reader of its database: the rows change *)
(* by whole commits.  There are no rounds, levels, goroutines or crashes   *)
(* here; SyncEngine implements this specification.                         *)
(***************************************************************************)
EXTENDS Naturals

CONSTANTS
    Adapter,     \* contract addresses that may become sync adapters
    Block,
    FirstLogAt,  \* [Adapter -> Block]
    Named,       \* adapters that a log names
    NamedBy,     \* [Adapter -> Adapter]: whose log names it
    NamedAt,     \* [Adapter -> Block]: the block of that log
    Resettable   \* adapters an operator may reset

VARIABLES
    rows,    \* the adapters with a row in sync_adapters
    active,  \* the ones that are not disabled
    last,    \* last_sync
    count    \* how often the logs of an adapter and a block are committed

vars == <<rows, active, last, count>>

Init ==
    /\ rows = {} /\ active = {}
    /\ last = [a \in Adapter |-> 0]
    /\ count = [a \in Adapter |-> [b \in Block |-> 0]]

\* An active adapter has exactly the logs up to its last_sync, which moves
\* forward only.  A disabled adapter is not enabled again.
AdvanceActive ==
    /\ active' \cap rows \subseteq active
    /\ \A a \in active' :
         /\ a \in active => last[a] <= last'[a]
         /\ \A b \in Block :
              count'[a][b] = IF FirstLogAt[a] <= b /\ b <= last'[a] THEN 1 ELSE 0

\* No row of a log is deleted, and none is added twice.
KeepLogs == \A a \in Adapter, b \in Block : count[a][b] <= count'[a][b] /\ count'[a][b] <= 1

\* The adapters that the committed logs name are committed with them.
KeepNamed ==
    \A n \in Named :
        /\ NamedBy[n] \in rows'
        /\ FirstLogAt[NamedBy[n]] <= NamedAt[n] /\ NamedAt[n] <= last'[NamedBy[n]]
        => n \in rows'

Commit ==
    /\ rows \subseteq rows'
    /\ AdvanceActive
    /\ KeepLogs
    /\ KeepNamed

Reset(a) ==
    /\ a \in rows \cap Resettable
    /\ last' = [last EXCEPT ![a] = FirstLogAt[a] - 1]
    /\ count' = [count EXCEPT ![a] = [b \in Block |-> 0]]
    /\ UNCHANGED <<rows, active>>

Next == Commit \/ \E a \in Adapter : Reset(a)

Spec == Init /\ [][Next]_vars
==============================================================================
