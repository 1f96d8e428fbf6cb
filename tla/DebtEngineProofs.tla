-------------------------- MODULE DebtEngineProofs --------------------------
(***************************************************************************)
(* The safety invariants of DebtEngine, for every set of sessions, every   *)
(* chain length, batch size, throttling and notification distance and      *)
(* number of crashes.                                                      *)
(*                                                                         *)
(* The inductive invariant is a conjunction of named parts.  Part one      *)
(* holds across crashes: what the tables say of a session (TableInv),      *)
(* where the cursors are (ControlInv), which sessions and snapshots are    *)
(* in memory (LoadedInv, SnapshotInv), which debts are still to be written *)
(* (OnceInv) and which snapshots have theirs (RecordedInv).  Part two is   *)
(* about the life of the first process: the last side of 10000 it has      *)
(* seen (SideInv), the streak a notice is due for (StreakInv) and the      *)
(* debts of the closed sessions (FinalInv).                                *)
(***************************************************************************)
EXTENDS DebtEngine, TLAPS, WellFoundedInduction

Calculating == {"calc", "current", "clear"}

\* A session has its rows between its opening and its close, the opening and
\* the block before the close are snapshots, and blocks holds all of them.
TableInv ==
    /\ \A s \in Session :
         /\ since[s] <= adapterSync /\ closedAt[s] <= adapterSync
         /\ since[s] = 0 => closedAt[s] = 0 /\ css[s] = {} /\ touch[s] = {}
         /\ since[s] # 0 => since[s] \in css[s]
         /\ closedAt[s] # 0 => closedAt[s] - 1 \in css[s]
         /\ \A b \in css[s] \cup touch[s] :
              /\ since[s] <= b /\ b <= adapterSync /\ b \in blocks
              /\ closedAt[s] = 0 \/ b < closedAt[s]
    /\ \A b \in blocks : b <= adapterSync

\* The cursors are in order and the rows that wait for a transaction are empty
\* outside of it.
ControlInv ==
    /\ debtSync <= adapterSync
    /\ pc = "down" => newest = 0
    /\ pc # "down" => debtSync <= cursor /\ cursor <= adapterSync /\ newest <= cursor
    /\ pc \in Calculating => to = cursor
    /\ pc \in {"backlog", "calc", "current"} => debtOn
    /\ pc = "idle" /\ debtOn => cursor = adapterSync
    /\ pc = "clear" /\ ~debtOn => cursor = adapterSync
    /\ pc # "calc" => newDebts = Nothing
    /\ pc \notin {"calc", "current"} => newCurrent = [s \in Session |-> NoDebt]
    /\ pc = "calc" =>
         /\ \A b \in todo : b <= to
         /\ \A s \in Session : memCss[s] \subseteq css[s] /\ memTouch[s] \subseteq touch[s]

\* Every session that may still have rows is in memory.
LoadedInv ==
    /\ pc # "down" => \A s \in Session :
         since[s] # 0 /\ (closedAt[s] = 0 \/ closedAt[s] > cursor) => s \in sessions
    /\ pc = "calc" => \A s \in Session : memCss[s] # {} => s \in sessions

\* The session has a last snapshot once its opening has been calculated.
SnapshotInv ==
    debtOn /\ pc # "down" => \A s \in Session :
        since[s] # 0 /\ since[s] <= cursor =>
            lastCSS[s] # 0 \/ (pc = "calc" /\ since[s] \in memCss[s] \cap todo)

\* A debt that is in memory, or may still be calculated from the rows in
\* memory, is not yet in the table, but for the block before a close.
OnceInv ==
    /\ NoDebtTwice
    /\ pc = "calc" => \A s \in Session :
         \A b \in newDebts[s] \cup (todo \cap (memCss[s] \cup memTouch[s])) :
            /\ b <= to
            /\ b > debtSync \/ (closedAt[s] = b + 1 /\ debts[s][b] <= 1)

\* A snapshot above debt_sync that the cursor has passed waits in memory.
RecordedInv ==
    /\ SnapshotsRecorded
    /\ debtOn /\ pc # "down" => \A s \in Session : \A b \in css[s] :
         debtSync < b /\ b <= cursor =>
            pc = "calc" /\ b \in newDebts[s] \cup (todo \cap memCss[s])

\* The first process begins with empty tables and never works on a backlog.
FirstRunInv ==
    crashes = 0 =>
        /\ pc \in {"down", "backlog"} => adapterSync = 0
        /\ pc \in Calculating => cursor = adapterSync
        /\ pc = "down" => \A s \in Session :
             /\ calculated[s] = {} /\ sent[s] = {} /\ lastDebts[s] = NoDebt
             /\ tracker[s] = NoAccount /\ accounts[s] = NoAccount
             /\ currentDebts[s] = NoDebt
        /\ \A s \in Session : \A d \in calculated[s] :
             d <= cursor /\ (pc = "calc" => \A b \in todo : d <= b)

Newest(s, m) == m \in calculated[s] /\ \A d \in calculated[s] : d <= m

Adjacent(s, b, c) ==
    b \in calculated[s] /\ c \in calculated[s] /\ b < c
    /\ \A d \in calculated[s] : ~(b < d /\ d < c)

\* The last recorded debt is on the side of the last calculated one.
SideInv ==
    crashes = 0 => \A s \in Session :
        /\ calculated[s] = {} => lastDebts[s].block = 0 /\ ~lastDebts[s].low
        /\ calculated[s] # {} =>
             /\ lastDebts[s].block # 0
             /\ \E m \in Block : Newest(s, m) /\ lastDebts[s].low = LowAt(s, m)
        /\ \A b, c \in Block :
             Adjacent(s, b, c) /\ LowAt(s, b) # LowAt(s, c)
             => debts[s][c] > 0 \/ c \in newDebts[s]

\* A streak of debts below 10000 that begins at b after a safe one is tracked
\* since b until a notice is sent.
Streak(s) ==
    /\ sent[s] \subseteq calculated[s]
    /\ ~lastDebts[s].low => ~tracker[s].notified
    /\ \A a, b \in Block :
         /\ Adjacent(s, a, b) /\ ~LowAt(s, a)
         /\ \A d \in calculated[s] : b <= d => LowAt(s, d)
         => /\ tracker[s].known /\ tracker[s].since = b
            /\ tracker[s].notified => \E n \in sent[s] : b <= n
    /\ \A a, b, c \in Block :
         /\ Adjacent(s, a, b) /\ ~LowAt(s, a)
         /\ c \in calculated[s] /\ c - b >= NotifyAfter
         /\ \A d \in calculated[s] : b <= d /\ d <= c => LowAt(s, d)
         => \E n \in sent[s] : b <= n /\ n <= c

StreakInv == crashes = 0 => \A s \in Session : Streak(s)

\* The current debt of a closed session is written, waits in memory, or its
\* last block is still to be calculated.
FinalInv ==
    crashes = 0 /\ debtOn /\ pc # "down" => \A s \in Session :
        closedAt[s] # 0 /\ closedAt[s] <= cursor =>
            \/ currentDebts[s].block = closedAt[s] - 1 /\ newCurrent[s] = NoDebt
            \/ pc \in {"calc", "current"} /\ newCurrent[s].block = closedAt[s] - 1
            \/ pc = "calc" /\ closedAt[s] - 1 \in todo \cap memCss[s]

Durable == TypeOK /\ TableInv /\ ControlInv
Safe == LoadedInv /\ SnapshotInv /\ OnceInv /\ RecordedInv
IInv == Durable /\ Safe
RunInv == FirstRunInv /\ SideInv /\ StreakInv /\ FinalInv
-----------------------------------------------------------------------------
(***************************************************************************)
(* Blocks                                                                  *)
(***************************************************************************)

LEMMA BlockFacts ==
    /\ 0 \in Height /\ Block \subseteq Height /\ Height \subseteq Nat
    /\ MaxBlock \in Nat /\ BatchSize \in Nat /\ BatchSize > 0
    /\ \A x \in Height : x # 0 => x \in Block
    /\ \A x \in Block : x \in Nat /\ 1 <= x /\ x <= MaxBlock
    /\ \A x \in Height : x \in Nat /\ 0 <= x /\ x <= MaxBlock
    /\ \A x \in Nat : 1 <= x /\ x <= MaxBlock => x \in Block
BY DebtAssumption DEF Height, Block

LEMMA MinExists ==
    ASSUME NEW T \in SUBSET Nat, T # {}
    PROVE  \E x \in T : \A y \in T : x <= y
<1> DEFINE R == OpToRel(<, Nat)
<1>1. IsWellFoundedOn(R, Nat)
  BY NatLessThanWellFounded
<1>2. \A x, y \in Nat : <<y, x>> \in R <=> y < x
  BY DEF OpToRel
<1> HIDE DEF R
<1>3. PICK x \in T : \A y \in T : ~(<<y, x>> \in R)
  BY <1>1, WFMin
<1>4. \A y \in T : ~(y < x)
  BY <1>2, <1>3, Zenon
<1>5. \A y \in T : x <= y
  BY <1>4
<1> QED BY <1>5

LEMMA LastOfFacts ==
    ASSUME NEW S \in SUBSET Block
    PROVE  /\ S = {} => LastOf(S) = 0
           /\ S # {} => LastOf(S) \in S /\ \A y \in S : y <= LastOf(S)
<1>1. CASE S = {}
  BY <1>1 DEF LastOf
<1>2. CASE S # {}
  <2> DEFINE T == {MaxBlock - y : y \in S}
  <2>1. T \in SUBSET Nat /\ T # {}
    BY <1>2, DebtAssumption DEF Block
  <2>2. PICK x \in T : \A y \in T : x <= y
    BY <2>1, MinExists
  <2>3. PICK m \in S : x = MaxBlock - m
    BY <2>2
  <2>4. \A y \in S : y <= m
    <3> TAKE y \in S
    <3>1. MaxBlock - m <= MaxBlock - y
      BY <2>2, <2>3
    <3> QED BY <3>1, DebtAssumption DEF Block
  <2> QED BY <1>2, <2>4 DEF LastOf
<1> QED BY <1>1, <1>2

(***************************************************************************)
(* What a round of the sync engine brings                                  *)
(***************************************************************************)

\* The rows that a round up to block t adds for the session s, and how they
\* sit between its opening and its close.
Brings(s, t) ==
    /\ css'[s] = css[s] \cup memCss'[s] /\ touch'[s] = touch[s] \cup memTouch'[s]
    /\ memCss'[s] \cup memTouch'[s] \subseteq todo'
    /\ \A b \in memTouch'[s] : b > adapterSync
    /\ \A b \in memCss'[s] : b > adapterSync \/ closedAt'[s] = b + 1
    /\ \A b \in memCss'[s] \cup memTouch'[s] :
         /\ closedAt[s] = 0 /\ since'[s] # 0 /\ since'[s] <= b
         /\ closedAt'[s] = 0 \/ b < closedAt'[s]
    /\ \/ since'[s] = since[s]
       \/ /\ since[s] = 0 /\ since'[s] \in (adapterSync + 1)..t
          /\ since'[s] \in memCss'[s] /\ s \in sessions'
    /\ \/ closedAt'[s] = closedAt[s]
       \/ /\ closedAt[s] = 0 /\ closedAt'[s] \in (adapterSync + 1)..t
          /\ closedAt'[s] - 1 \in memCss'[s]
    /\ \A b \in Block : b <= adapterSync => (b \in low'[s] <=> b \in low[s])

LEMMA RoundFacts ==
    ASSUME TypeOK, TableInv, NEW t \in Height, adapterSync <= t, SyncAndFlush(t)
    PROVE  /\ todo' \subseteq Block /\ \A b \in todo' : b <= t /\ adapterSync <= b
           /\ blocks' = blocks \cup todo' /\ newest' = LastOf(todo')
           /\ sessions \subseteq sessions' /\ sessions' \subseteq Session
           /\ low' \in [Session -> SUBSET Block]
           /\ since' \in [Session -> Height] /\ closedAt' \in [Session -> Height]
           /\ css' \in [Session -> SUBSET Block] /\ touch' \in [Session -> SUBSET Block]
           /\ memCss' \in [Session -> SUBSET Block]
           /\ memTouch' \in [Session -> SUBSET Block]
           /\ \A s \in Session : Brings(s, t)
<1> DEFINE F == adapterSync
           Kind == {"none", "touch", "snap", "open", "close"}
<1>1. PICK ev \in [Session -> [(F + 1)..t -> Kind]], lw \in [Session -> SUBSET ((F + 1)..t)] :
        LET at(s, kind) == {b \in (F + 1)..t : ev[s][b] = kind}
            snaps(s) == at(s, "snap") \cup at(s, "open") \cup {b - 1 : b \in at(s, "close")}
            new == UNION {snaps(s) \cup at(s, "touch") \cup at(s, "close") : s \in Session}
        IN
        /\ \A s \in Session : Story(s, F, t, ev[s])
        /\ low' = [s \in Session |-> low[s] \cup lw[s]]
        /\ since' = [s \in Session |->
             IF at(s, "open") # {} THEN LastOf(at(s, "open")) ELSE since[s]]
        /\ closedAt' = [s \in Session |->
             IF at(s, "close") # {} THEN LastOf(at(s, "close")) ELSE closedAt[s]]
        /\ css' = [s \in Session |-> css[s] \cup snaps(s)]
        /\ touch' = [s \in Session |-> touch[s] \cup at(s, "touch")]
        /\ blocks' = blocks \cup new
        /\ sessions' = sessions \cup {s \in Session : at(s, "open") # {}}
        /\ todo' = new /\ newest' = LastOf(new)
        /\ memCss' = [s \in Session |-> snaps(s)]
        /\ memTouch' = [s \in Session |-> at(s, "touch")]
  BY DEF SyncAndFlush
<1> DEFINE at(s, kind) == {b \in (F + 1)..t : ev[s][b] = kind}
           snaps(s) == at(s, "snap") \cup at(s, "open") \cup {b - 1 : b \in at(s, "close")}
           new == UNION {snaps(s) \cup at(s, "touch") \cup at(s, "close") : s \in Session}
<1>2. /\ low' = [s \in Session |-> low[s] \cup lw[s]]
      /\ since' = [s \in Session |->
           IF at(s, "open") # {} THEN LastOf(at(s, "open")) ELSE since[s]]
      /\ closedAt' = [s \in Session |->
           IF at(s, "close") # {} THEN LastOf(at(s, "close")) ELSE closedAt[s]]
      /\ css' = [s \in Session |-> css[s] \cup snaps(s)]
      /\ touch' = [s \in Session |-> touch[s] \cup at(s, "touch")]
      /\ blocks' = blocks \cup new
      /\ sessions' = sessions \cup {s \in Session : at(s, "open") # {}}
      /\ todo' = new /\ newest' = LastOf(new)
      /\ memCss' = [s \in Session |-> snaps(s)]
      /\ memTouch' = [s \in Session |-> at(s, "touch")]
      /\ \A s \in Session : Story(s, F, t, ev[s])
  BY <1>1, Zenon
<1>3. \A b \in (F + 1)..t : b \in Block /\ b > F /\ b <= t /\ b \in Nat
  BY BlockFacts DEF TypeOK
<1>4. F \in Nat /\ t \in Nat /\ F <= t /\ (F = 0 \/ F \in Block)
  BY BlockFacts DEF TypeOK
<1>5. ASSUME NEW s \in Session
      PROVE  /\ \A b \in (F + 1)..t : ev[s][b] \in Kind
             /\ \A b \in at(s, "open") : since[s] = 0 /\ closedAt[s] = 0
             /\ \A b, c \in at(s, "open") : b = c
             /\ \A b, c \in at(s, "close") : b = c
             /\ \A b \in at(s, "close") \cup at(s, "snap") \cup at(s, "touch") :
                  /\ closedAt[s] = 0
                  /\ since[s] # 0 \/ \E c \in at(s, "open") : c < b
             /\ \A b \in (F + 1)..t, c \in at(s, "close") : ev[s][b] # "none" => b <= c
  <2> DEFINE e == ev[s]
  <2>1. \A b \in (F + 1)..t : e[b] \in Kind
    BY <1>1
  <2>2. \A b \in (F + 1)..t :
          /\ e[b] # "none" => closedAt[s] = 0 /\ \A c \in (F + 1)..(b - 1) : e[c] # "close"
          /\ e[b] \in {"touch", "snap", "close"} =>
               since[s] # 0 \/ \E c \in (F + 1)..(b - 1) : e[c] = "open"
          /\ e[b] = "open" => since[s] = 0 /\ \A c \in (F + 1)..(b - 1) : e[c] # "open"
    BY <1>2 DEF Story
  <2> HIDE DEF e
  <2>3. \A b, c \in (F + 1)..t : c < b => c \in (F + 1)..(b - 1)
    BY <1>3, <1>4
  <2>4. \A b \in (F + 1)..t : \A c \in (F + 1)..(b - 1) : c \in (F + 1)..t /\ c < b
    BY <1>3, <1>4
  <2>5. \A b, c \in (F + 1)..t : e[b] = "open" /\ e[c] = "open" => b = c
    BY <2>2, <2>3, <1>3
  <2>6. \A b, c \in (F + 1)..t : e[b] # "none" /\ e[c] = "close" => b <= c
    BY <2>2, <2>3, <1>3
  <2>7. \A b, c \in (F + 1)..t : e[b] = "close" /\ e[c] = "close" => b = c
    BY <2>6, <1>3
  <2>8. \A b \in (F + 1)..t : e[b] \in {"touch", "snap", "close"} =>
          closedAt[s] = 0 /\ (since[s] # 0 \/ \E c \in (F + 1)..t : e[c] = "open" /\ c < b)
    BY <2>2, <2>4
  <2>9. \A b \in (F + 1)..t : e[b] = "open" => closedAt[s] = 0 /\ since[s] = 0
    BY <2>2
  <2> QED BY <2>1, <2>5, <2>6, <2>7, <2>8, <2>9 DEF e
<1>6. ASSUME NEW s \in Session
      PROVE  \/ at(s, "open") = {} /\ since'[s] = since[s]
             \/ \E o \in (F + 1)..t :
                  /\ at(s, "open") = {o} /\ since'[s] = o
                  /\ since[s] = 0 /\ closedAt[s] = 0
  <2>1. since'[s] = IF at(s, "open") # {} THEN LastOf(at(s, "open")) ELSE since[s]
    BY <1>2
  <2>2. CASE at(s, "open") = {}
    BY <2>1, <2>2
  <2>3. CASE at(s, "open") # {}
    <3>1. PICK o \in (F + 1)..t : at(s, "open") = {o} /\ since[s] = 0 /\ closedAt[s] = 0
      BY <2>3, <1>5
    <3>2. LastOf({o}) = o
      BY LastOfFacts, <1>3
    <3> QED BY <2>1, <3>1, <3>2
  <2> QED BY <2>2, <2>3
<1>7. ASSUME NEW s \in Session
      PROVE  \/ at(s, "close") = {} /\ closedAt'[s] = closedAt[s]
             \/ \E o \in (F + 1)..t :
                  /\ at(s, "close") = {o} /\ closedAt'[s] = o /\ closedAt[s] = 0
  <2>1. closedAt'[s] = IF at(s, "close") # {} THEN LastOf(at(s, "close")) ELSE closedAt[s]
    BY <1>2
  <2>2. CASE at(s, "close") = {}
    BY <2>1, <2>2
  <2>3. CASE at(s, "close") # {}
    <3>1. PICK o \in (F + 1)..t : at(s, "close") = {o} /\ closedAt[s] = 0
      BY <2>3, <1>5
    <3>2. LastOf({o}) = o
      BY LastOfFacts, <1>3
    <3> QED BY <2>1, <3>1, <3>2
  <2> QED BY <2>2, <2>3
<1>8. ASSUME NEW s \in Session
      PROVE  /\ memCss'[s] = snaps(s) /\ memTouch'[s] = at(s, "touch")
             /\ css'[s] = css[s] \cup snaps(s) /\ touch'[s] = touch[s] \cup at(s, "touch")
             /\ low'[s] = low[s] \cup lw[s]
             /\ snaps(s) \cup at(s, "touch") \cup at(s, "close") \subseteq new
             /\ at(s, "open") # {} => s \in sessions'
  BY <1>2
<1>9. \A s \in Session : \A b \in at(s, "close") : b - 1 \in Block /\ F <= b - 1 /\ b - 1 < t
  <2> SUFFICES ASSUME NEW s \in Session, NEW b \in at(s, "close")
               PROVE  b - 1 \in Block /\ F <= b - 1 /\ b - 1 < t
    OBVIOUS
  <2>1. b \in (F + 1)..t /\ (since[s] # 0 \/ \E c \in at(s, "open") : c < b)
    BY <1>5
  <2>2. since[s] \in Nat /\ (since[s] # 0 => 1 <= F)
    <3>1. since[s] \in Height /\ since[s] <= F
      BY DEF TypeOK, TableInv
    <3>2. since[s] \in Nat
      BY <3>1, BlockFacts
    <3> QED BY <3>1, <3>2, <1>4
  <2>3. \A c \in at(s, "open") : c \in Nat /\ c >= 1
    BY <1>3, <1>4
  <2>4. b - 1 >= 1
    BY <2>1, <2>2, <2>3, <1>3, <1>4
  <2> QED BY <2>1, <2>4, <1>3, <1>4, BlockFacts
<1>10. \A s \in Session : \A b \in snaps(s) \cup at(s, "touch") \cup at(s, "close") :
         b \in Block /\ F <= b /\ b <= t
  BY <1>3, <1>4, <1>9
<1> HIDE DEF F, Kind
<1>11. new \subseteq Block /\ \A b \in new : F <= b /\ b <= t
  BY <1>10
<1>12. ASSUME NEW s \in Session PROVE Brings(s, t)
  <2> DEFINE rowsOf == at(s, "snap") \cup at(s, "open") \cup at(s, "touch")
  <2>1. /\ \A b \in rowsOf : b \in Nat /\ b > F /\ closedAt[s] = 0
        /\ \A b \in at(s, "close") : b \in Nat /\ b - 1 >= F /\ closedAt[s] = 0
    BY <1>3, <1>4, <1>5
  <2>2. /\ \A b \in rowsOf : since'[s] \in Nat /\ since'[s] # 0 /\ since'[s] <= b
        /\ \A b \in at(s, "close") : since'[s] \in Nat /\ since'[s] # 0 /\ since'[s] <= b - 1
    <3>1. since[s] \in Nat /\ since[s] <= F
      BY BlockFacts DEF TypeOK, TableInv, F
    <3>2. CASE at(s, "open") = {} /\ since'[s] = since[s]
      <4>1. \A b \in rowsOf \cup at(s, "close") : since[s] # 0
        BY <3>2, <1>5
      <4> QED BY <3>1, <3>2, <4>1, <2>1, <1>4
    <3>3. ASSUME NEW o \in (F + 1)..t, at(s, "open") = {o}, since'[s] = o, since[s] = 0
          PROVE  <2>2
      <4>1. \A b \in at(s, "close") \cup at(s, "snap") \cup at(s, "touch") : o < b
        BY <3>3, <1>5
      <4>2. \A b \in rowsOf : o <= b
        BY <3>3, <4>1, <2>1, <1>3
      <4>3. \A b \in at(s, "close") : o <= b - 1
        BY <4>1, <2>1, <1>3
      <4> QED BY <3>3, <4>2, <4>3, <1>3, <1>4
    <3> QED BY <1>6, <3>2, <3>3
  <2>3. /\ \A b \in rowsOf : closedAt'[s] = 0 \/ b < closedAt'[s]
        /\ \A b \in at(s, "close") : closedAt'[s] = (b - 1) + 1 /\ b - 1 < closedAt'[s]
    <3>1. CASE at(s, "close") = {} /\ closedAt'[s] = closedAt[s]
      BY <3>1, <2>1
    <3>2. ASSUME NEW o \in (F + 1)..t, at(s, "close") = {o}, closedAt'[s] = o
          PROVE  <2>3
      <4>1. \A b \in rowsOf : b <= o /\ b # o
        BY <3>2, <1>5
      <4> QED BY <3>2, <4>1, <2>1, <1>3
    <3> QED BY <1>7, <3>1, <3>2
  <2>4. memCss'[s] = snaps(s) /\ memTouch'[s] = at(s, "touch")
    BY <1>8
  <2>5. \A b \in memCss'[s] \cup memTouch'[s] :
          /\ closedAt[s] = 0 /\ since'[s] # 0 /\ since'[s] <= b
          /\ closedAt'[s] = 0 \/ b < closedAt'[s]
    BY <2>1, <2>2, <2>3, <2>4
  <2>6. /\ \A b \in memTouch'[s] : b > adapterSync
        /\ \A b \in memCss'[s] : b > adapterSync \/ closedAt'[s] = b + 1
    BY <2>1, <2>3, <2>4 DEF F
  <2>7. \/ since'[s] = since[s]
        \/ /\ since[s] = 0 /\ since'[s] \in (adapterSync + 1)..t
           /\ since'[s] \in memCss'[s] /\ s \in sessions'
    BY <1>6, <1>8 DEF F
  <2>8. \/ closedAt'[s] = closedAt[s]
        \/ /\ closedAt[s] = 0 /\ closedAt'[s] \in (adapterSync + 1)..t
           /\ closedAt'[s] - 1 \in memCss'[s]
    BY <1>7, <1>8 DEF F
  <2>9. \A b \in Block : b <= adapterSync => (b \in low'[s] <=> b \in low[s])
    <3>1. \A b \in lw[s] : b > adapterSync /\ b \in Nat
      BY <1>1, <1>3 DEF F
    <3>2. low'[s] = low[s] \cup lw[s]
      BY <1>8
    <3> QED BY <3>1, <3>2, <1>4, BlockFacts DEF F
  <2>10. /\ css'[s] = css[s] \cup memCss'[s] /\ touch'[s] = touch[s] \cup memTouch'[s]
         /\ memCss'[s] \cup memTouch'[s] \subseteq todo'
    <3>1. snaps(s) \cup at(s, "touch") \subseteq todo'
      BY <1>2, <1>8
    <3> QED BY <1>8, <3>1, <2>4
  <2> QED BY <2>5, <2>6, <2>7, <2>8, <2>9, <2>10 DEF Brings
<1>13. /\ low' \in [Session -> SUBSET Block]
       /\ since' \in [Session -> Height] /\ closedAt' \in [Session -> Height]
       /\ css' \in [Session -> SUBSET Block] /\ touch' \in [Session -> SUBSET Block]
       /\ memCss' \in [Session -> SUBSET Block] /\ memTouch' \in [Session -> SUBSET Block]
       /\ sessions' \subseteq Session
  <2>1. \A s \in Session : snaps(s) \subseteq Block /\ at(s, "touch") \subseteq Block
    BY <1>10
  <2>2. \A s \in Session : since'[s] \in Height /\ closedAt'[s] \in Height
    BY <1>6, <1>7, <1>3, BlockFacts DEF TypeOK
  <2>3. \A s \in Session : lw[s] \subseteq Block
    BY <1>1, <1>3
  <2> HIDE DEF at, snaps, new
  <2>4. since' \in [Session -> Height] /\ closedAt' \in [Session -> Height]
    BY <1>2, <2>2
  <2>5. low' \in [Session -> SUBSET Block]
    BY <1>2, <2>3 DEF TypeOK
  <2>6. css' \in [Session -> SUBSET Block] /\ memCss' \in [Session -> SUBSET Block]
    BY <1>2, <2>1 DEF TypeOK
  <2>7. touch' \in [Session -> SUBSET Block] /\ memTouch' \in [Session -> SUBSET Block]
    BY <1>2, <2>1 DEF TypeOK
  <2> QED BY <1>2, <2>4, <2>5, <2>6, <2>7 DEF TypeOK
<1> QED
  <2> HIDE DEF at, snaps, new
  <2> QED BY <1>2, <1>11, <1>12, <1>13 DEF F

(***************************************************************************)
(* Types, tables and cursors                                               *)
(***************************************************************************)

LEMMA RecordFacts ==
    /\ NoDebt \in Debt /\ NoAccount \in Account
    /\ [s \in Session |-> NoDebt] \in [Session -> Debt]
    /\ [s \in Session |-> NoAccount] \in [Session -> Account]
    /\ Nothing \in [Session -> SUBSET Block]
    /\ \A b \in Height, l \in BOOLEAN : [block |-> b, low |-> l] \in Debt
BY BlockFacts DEF NoDebt, NoAccount, Debt, Account, Nothing

LEMMA InitDurable == Init => Durable
<1> SUFFICES ASSUME Init PROVE Durable
  OBVIOUS
<1>1. TypeOK
  BY BlockFacts, RecordFacts, DebtAssumption DEF Init, TypeOK
<1>2. TableInv
  BY DEF Init, TableInv, Nothing
<1>3. ControlInv
  BY DEF Init, ControlInv, Calculating
<1> QED BY <1>1, <1>2, <1>3 DEF Durable

LEMMA StartDurable == ASSUME Durable, Start PROVE Durable'
<1>1. TypeOK'
  <2>1. \A s \in Session : LastOf({b \in css[s] : b <= debtSync}) \in Height
    <3> TAKE s \in Session
    <3> DEFINE S == {b \in css[s] : b <= debtSync}
    <3>1. S \in SUBSET Block
      BY DEF Durable, TypeOK
    <3> QED BY <3>1, LastOfFacts, BlockFacts
  <2>2. lastCSS' \in [Session -> Height]
    BY <2>1 DEF Start
  <2>3. lastDebts' \in [Session -> Debt] /\ tracker' \in [Session -> Account]
    BY RecordFacts DEF Start, LoadLiquidableAccounts, Durable, TypeOK
  <2>4. debtOn' \in BOOLEAN /\ pc' \in {"backlog", "idle"} /\ sessions' \subseteq Session
    BY DebtAssumption DEF Start
  <2> QED BY <2>2, <2>3, <2>4
          DEF Start, Durable, TypeOK, tables, results, rows, history
<1>2. TableInv'
  BY DEF Start, Durable, TableInv, tables
<1>3. ControlInv'
  <2>1. newest' <= cursor' /\ debtSync' <= cursor' /\ cursor' <= adapterSync'
    BY BlockFacts DEF Start, Durable, TypeOK, ControlInv, tables, results, rows
  <2>2. debtOn' \in BOOLEAN /\ pc' \in {"backlog", "idle"} /\ pc = "down"
        /\ (pc' = "backlog" => debtOn') /\ (pc' = "idle" => ~debtOn')
    BY DebtAssumption DEF Start
  <2> QED BY <2>1, <2>2 DEF Start, Durable, ControlInv, Calculating, tables, results, rows
<1> QED BY <1>1, <1>2, <1>3 DEF Durable

LEMMA CrashDurable == ASSUME Durable, Crash PROVE Durable'
<1>1. TypeOK'
  BY BlockFacts, RecordFacts, DebtAssumption
     DEF Crash, Durable, TypeOK, tables, results, history
<1>2. TableInv'
  BY DEF Crash, Durable, TableInv, tables
<1>3. ControlInv'
  BY DEF Crash, Durable, ControlInv, Calculating, tables, results
<1> QED BY <1>1, <1>2, <1>3 DEF Durable

\* What one turn of ProcessBackLogs' loop does, with its target named.
LEMMA BacklogFacts ==
    ASSUME Durable, Backlog
    PROVE  /\ cursor' \in Height /\ cursor <= cursor' /\ cursor' <= adapterSync
           /\ pc = "backlog" /\ debtOn
           /\ \/ /\ pc' = "calc" /\ to' = cursor' /\ newest' \in Block /\ newest' <= cursor'
                 /\ todo' = {b \in blocks : cursor < b /\ b <= cursor'}
                 /\ memCss' = [s \in Session |-> css[s] \cap todo']
                 /\ memTouch' = [s \in Session |-> touch[s] \cap todo']
              \/ /\ pc' = IF cursor' = adapterSync THEN "idle" ELSE "backlog"
                 /\ {b \in blocks : cursor < b /\ b <= cursor'} = {}
                 /\ UNCHANGED <<to, rows>>
<1> DEFINE t == Least(cursor + BatchSize, adapterSync)
           L == {b \in blocks : cursor < b /\ b <= t}
<1>1. cursor \in Nat /\ adapterSync \in Nat /\ adapterSync \in Height
  BY BlockFacts DEF Durable, TypeOK
<1>2. pc = "backlog" /\ cursor <= adapterSync /\ debtOn
  BY DEF Backlog, Durable, ControlInv
<1>3. t \in Height /\ cursor <= t /\ t <= adapterSync
  BY <1>1, <1>2, BlockFacts DEF Least, Height
<1>4. cursor' = t
  BY DEF Backlog
<1>5. L \in SUBSET Block
  BY DEF Durable, TypeOK
<1> HIDE DEF t
<1>6. L # {} => LastOf(L) \in L /\ LastOf(L) \in Block /\ LastOf(L) <= t
  BY <1>5, LastOfFacts
<1>7. CASE L # {}
  <2>1. /\ to' = t /\ pc' = "calc" /\ todo' = L /\ newest' = LastOf(L)
        /\ memCss' = [s \in Session |-> css[s] \cap L]
        /\ memTouch' = [s \in Session |-> touch[s] \cap L]
    BY <1>7 DEF Backlog, t
  <2> QED BY <2>1, <1>2, <1>3, <1>4, <1>6, <1>7
<1>8. CASE L = {}
  <2>1. pc' = (IF t = adapterSync THEN "idle" ELSE "backlog") /\ UNCHANGED <<to, rows>>
    BY <1>8 DEF Backlog, t
  <2> QED BY <2>1, <1>2, <1>3, <1>4, <1>8
<1> QED BY <1>7, <1>8

LEMMA BacklogDurable == ASSUME Durable, Backlog PROVE Durable'
<1> DEFINE Full == /\ pc' = "calc" /\ to' = cursor' /\ newest' \in Block /\ newest' <= cursor'
                   /\ todo' = {b \in blocks : cursor < b /\ b <= cursor'}
                   /\ memCss' = [s \in Session |-> css[s] \cap todo']
                   /\ memTouch' = [s \in Session |-> touch[s] \cap todo']
           Empty == /\ pc' = IF cursor' = adapterSync THEN "idle" ELSE "backlog"
                    /\ UNCHANGED <<to, rows>>
<1>1. /\ cursor' \in Height /\ cursor <= cursor' /\ cursor' <= adapterSync
      /\ pc = "backlog" /\ debtOn /\ (Full \/ Empty)
  BY BacklogFacts
<1>2. UNCHANGED <<low, tables, blocks, results, currentDebts, debtOn, sessions, maps,
                  newDebts, newCurrent, crashes, history>>
  BY DEF Backlog
<1>3. TypeOK'
  <2>1. CASE Full
    <3>1. /\ to' \in Height /\ newest' \in Height /\ todo' \subseteq Block
          /\ memCss' \in [Session -> SUBSET Block] /\ memTouch' \in [Session -> SUBSET Block]
      BY <1>1, <2>1, BlockFacts DEF Durable, TypeOK
    <3> QED BY <1>1, <1>2, <2>1, <3>1
            DEF Durable, TypeOK, tables, results, maps, history
  <2>2. CASE Empty
    BY <1>1, <1>2, <2>2 DEF Durable, TypeOK, tables, results, maps, history, rows
  <2> QED BY <1>1, <2>1, <2>2
<1>4. TableInv'
  BY <1>2 DEF Durable, TableInv, tables
<1>5. ControlInv'
  <2>1. debtSync' <= cursor' /\ newest \in Nat /\ cursor \in Nat /\ cursor' \in Nat
        /\ debtSync \in Nat
    BY <1>1, <1>2, BlockFacts DEF Durable, TypeOK, ControlInv, results
  <2>2. CASE Full
    BY <1>1, <1>2, <2>1, <2>2 DEF Durable, ControlInv, Calculating, tables, results
  <2>3. CASE Empty
    <3>1. newest' <= cursor'
      BY <1>1, <2>1, <2>3 DEF Durable, ControlInv, rows
    <3> QED BY <1>1, <1>2, <2>1, <2>3, <3>1
            DEF Durable, ControlInv, Calculating, tables, results
  <2> QED BY <1>1, <2>2, <2>3
<1> QED BY <1>3, <1>4, <1>5 DEF Durable

LEMMA RoundDurable ==
    ASSUME Durable, NEW t \in Height, adapterSync <= t, SyncAndFlush(t)
    PROVE  Durable'
<1>1. /\ adapterSync' = t /\ to' = t /\ cursor' = t /\ pc = "idle"
      /\ pc' = IF debtOn THEN "calc" ELSE "clear"
      /\ UNCHANGED <<results, currentDebts, debtOn, maps, newDebts, newCurrent,
                     crashes, history>>
  BY DEF SyncAndFlush
<1>2. TypeOK /\ TableInv /\ ControlInv
  BY DEF Durable
<1>3. newest' \in Height /\ newest' <= t /\ adapterSync \in Nat /\ t \in Nat
  BY <1>2, RoundFacts, LastOfFacts, BlockFacts DEF TypeOK
<1>4. TypeOK'
  BY <1>1, <1>2, <1>3, RoundFacts DEF TypeOK, results, maps, history
<1>5. TableInv'
  <2>1. \A b \in blocks' : b <= t
    <3>1. blocks' = blocks \cup todo' /\ \A b \in todo' : b <= t
      BY <1>2, RoundFacts
    <3>2. \A b \in blocks : b <= adapterSync /\ b \in Nat
      BY <1>2, BlockFacts DEF TableInv, TypeOK
    <3> QED BY <3>1, <3>2, <1>3
  <2>2. ASSUME NEW s \in Session
        PROVE  /\ since'[s] <= t /\ closedAt'[s] <= t
               /\ since'[s] = 0 => closedAt'[s] = 0 /\ css'[s] = {} /\ touch'[s] = {}
               /\ since'[s] # 0 => since'[s] \in css'[s]
               /\ closedAt'[s] # 0 => closedAt'[s] - 1 \in css'[s]
               /\ \A b \in css'[s] \cup touch'[s] :
                    /\ since'[s] <= b /\ b <= t /\ b \in blocks'
                    /\ closedAt'[s] = 0 \/ b < closedAt'[s]
    <3>1. Brings(s, t)
      BY <1>2, RoundFacts
    <3>2. /\ since[s] <= adapterSync /\ closedAt[s] <= adapterSync
          /\ since[s] = 0 => closedAt[s] = 0 /\ css[s] = {} /\ touch[s] = {}
          /\ since[s] # 0 => since[s] \in css[s]
          /\ closedAt[s] # 0 => closedAt[s] - 1 \in css[s]
          /\ \A b \in css[s] \cup touch[s] :
               /\ since[s] <= b /\ b <= adapterSync /\ b \in blocks
               /\ closedAt[s] = 0 \/ b < closedAt[s]
      BY <1>2 DEF TableInv
    <3>3. since[s] \in Nat /\ closedAt[s] \in Nat
      BY <1>2, BlockFacts DEF TypeOK
    <3>4. \A b \in css[s] \cup touch[s] \cup todo' : b \in Nat
      BY <1>2, RoundFacts, BlockFacts DEF TypeOK
    <3>5. blocks' = blocks \cup todo' /\ \A b \in todo' : b <= t
      BY <1>2, RoundFacts
    <3>6. since'[s] <= t /\ closedAt'[s] <= t
      BY <3>1, <3>2, <3>3, <1>3 DEF Brings
    <3>7. since'[s] = 0 => closedAt'[s] = 0 /\ css'[s] = {} /\ touch'[s] = {}
      BY <3>1, <3>2, <3>3, <1>3 DEF Brings
    <3>8. /\ since'[s] # 0 => since'[s] \in css'[s]
          /\ closedAt'[s] # 0 => closedAt'[s] - 1 \in css'[s]
      BY <3>1, <3>2 DEF Brings
    <3>9. ASSUME NEW b \in css[s] \cup touch[s]
          PROVE  /\ since'[s] <= b /\ b <= t /\ b \in blocks'
                 /\ closedAt'[s] = 0 \/ b < closedAt'[s]
      <4>1. since'[s] = since[s]
        BY <3>1, <3>2 DEF Brings
      <4>2. closedAt'[s] = closedAt[s] \/ closedAt'[s] \in (adapterSync + 1)..t
        BY <3>1 DEF Brings
      <4> QED BY <4>1, <4>2, <3>2, <3>3, <3>4, <3>5, <1>3
    <3>10. ASSUME NEW b \in memCss'[s] \cup memTouch'[s]
           PROVE  /\ since'[s] <= b /\ b <= t /\ b \in blocks'
                  /\ closedAt'[s] = 0 \/ b < closedAt'[s]
      BY <3>1, <3>5 DEF Brings
    <3>11. css'[s] \cup touch'[s] = (css[s] \cup touch[s]) \cup (memCss'[s] \cup memTouch'[s])
      BY <3>1 DEF Brings
    <3> QED BY <3>6, <3>7, <3>8, <3>9, <3>10, <3>11
  <2> QED BY <1>1, <2>1, <2>2 DEF TableInv
<1>6. ControlInv'
  <2>1. debtSync' <= t
    BY <1>1, <1>2, <1>3, BlockFacts DEF ControlInv, TypeOK, results
  <2>2. \A b \in todo' : b <= t
    BY <1>2, RoundFacts
  <2>3. \A s \in Session : memCss'[s] \subseteq css'[s] /\ memTouch'[s] \subseteq touch'[s]
    BY <1>2, RoundFacts DEF Brings
  <2> QED BY <1>1, <1>2, <1>3, <2>1, <2>2, <2>3 DEF ControlInv, Calculating
<1> QED BY <1>4, <1>5, <1>6 DEF Durable

\* One block of CalculateDebt: the sessions U are recalculated, of which K get
\* a row and N a notice.
Calculates(b, U, K, N) ==
    /\ pc = "calc" /\ b \in todo /\ \A c \in todo : b <= c
    /\ U = {s \in sessions : (b \in memCss[s] \/ b \in memTouch[s]) /\ OpenAt(s, b)}
    /\ K \subseteq U /\ N = {s \in U : NoticeDue(s, b)}
    /\ todo' = todo \ {b}
    /\ lastCSS' = [s \in Session |-> IF b \in memCss[s] THEN b ELSE lastCSS[s]]
    /\ tracker' = [s \in Session |->
         IF s \notin U THEN tracker[s]
         ELSE IF s \in N THEN [Liquidable(s, b) EXCEPT !.notified = TRUE]
         ELSE Liquidable(s, b)]
    /\ lastDebts' = [s \in Session |->
         IF s \in K THEN [block |-> b, low |-> LowAt(s, b)] ELSE lastDebts[s]]
    /\ newDebts' = [s \in Session |-> IF s \in K THEN newDebts[s] \cup {b} ELSE newDebts[s]]
    /\ newCurrent' = [s \in Session |-> IF s \in U THEN FinalDebt(s, b) ELSE newCurrent[s]]
    /\ calculated' = [s \in Session |->
         IF s \in U THEN calculated[s] \cup {b} ELSE calculated[s]]
    /\ sent' = [s \in Session |-> IF s \in N THEN sent[s] \cup {b} ELSE sent[s]]

\* The throttling may drop a debt only when none of these holds.
Forced(s, b) ==
    \/ lastDebts[s].block = 0
    \/ b \in memCss[s]
    \/ lastDebts[s].low # LowAt(s, b)

LEMMA CalculateFacts ==
    ASSUME Durable, CalculateBlock
    PROVE  \E b \in Block, U, K, N \in SUBSET Session :
             /\ Calculates(b, U, K, N) /\ b <= to
             /\ \A s \in U : Forced(s, b) => s \in K
<1> DEFINE U(b) == {s \in sessions : (b \in memCss[s] \/ b \in memTouch[s]) /\ OpenAt(s, b)}
           K(b, moved) == {s \in U(b) : KeepDebt(s, b, moved)}
           N(b) == {s \in U(b) : NoticeDue(s, b)}
<1>1. PICK b \in todo, moved \in SUBSET Session : Calculates(b, U(b), K(b, moved), N(b))
  BY Zenon DEF CalculateBlock, Calculates
<1>2. b \in Block /\ b <= to /\ sessions \subseteq Session
  BY DEF CalculateBlock, Durable, TypeOK, ControlInv
<1>3. \A s \in U(b) : Forced(s, b) => s \in K(b, moved)
  BY DEF KeepDebt, Forced
<1>4. U(b) \in SUBSET Session /\ K(b, moved) \in SUBSET Session /\ N(b) \in SUBSET Session
  BY <1>2
<1> HIDE DEF U, K, N
<1> QED BY <1>1, <1>2, <1>3, <1>4

LEMMA LiquidableType ==
    ASSUME TypeOK, NEW s \in Session, NEW b \in Block
    PROVE  /\ Liquidable(s, b) \in Account
           /\ [Liquidable(s, b) EXCEPT !.notified = TRUE] \in Account
<1>1. tracker[s] \in Account /\ b \in Height /\ 0 \in Height
  BY BlockFacts DEF TypeOK
<1>2. Liquidable(s, b) \in Account
  BY <1>1 DEF Liquidable, Account
<1> QED BY <1>2 DEF Account

LEMMA CalculateDurable == ASSUME Durable, CalculateBlock PROVE Durable'
<1>1. PICK b \in Block, U, K, N \in SUBSET Session : Calculates(b, U, K, N)
  BY CalculateFacts
<1>2. UNCHANGED <<low, tables, blocks, results, currentDebts, pc, debtOn, to, cursor,
                  newest, memCss, memTouch, sessions, crashes>>
  BY DEF CalculateBlock
<1>3. TypeOK /\ b \in Height /\ \A s \in Session : LowAt(s, b) \in BOOLEAN
  BY BlockFacts DEF Durable, LowAt
<1>4. TypeOK'
  <2>1. todo' \subseteq Block /\ lastCSS' \in [Session -> Height]
    BY <1>1, <1>3 DEF Calculates, TypeOK
  <2>2. tracker' \in [Session -> Account]
    <3>1. \A s \in Session : /\ Liquidable(s, b) \in Account
                             /\ [Liquidable(s, b) EXCEPT !.notified = TRUE] \in Account
      BY <1>3, LiquidableType
    <3>2. \A s \in Session : tracker[s] \in Account
      BY <1>3 DEF TypeOK
    <3>3. tracker' = [s \in Session |->
             IF s \notin U THEN tracker[s]
             ELSE IF s \in N THEN [Liquidable(s, b) EXCEPT !.notified = TRUE]
             ELSE Liquidable(s, b)]
      BY <1>1 DEF Calculates
    <3> QED BY <3>1, <3>2, <3>3
  <2>3. lastDebts' \in [Session -> Debt]
    BY <1>1, <1>3, RecordFacts DEF Calculates, TypeOK
  <2>4. newCurrent' \in [Session -> Debt]
    BY <1>1, <1>3, RecordFacts DEF Calculates, TypeOK, FinalDebt
  <2>5. /\ newDebts' \in [Session -> SUBSET Block]
        /\ calculated' \in [Session -> SUBSET Block] /\ sent' \in [Session -> SUBSET Block]
    BY <1>1, <1>3 DEF Calculates, TypeOK
  <2> QED BY <1>2, <1>3, <2>1, <2>2, <2>3, <2>4, <2>5 DEF TypeOK, tables, results
<1>5. TableInv'
  BY <1>2 DEF Durable, TableInv, tables
<1>6. ControlInv'
  BY <1>1, <1>2 DEF Calculates, Durable, ControlInv, Calculating, tables, results
<1> QED BY <1>4, <1>5, <1>6 DEF Durable

LEMMA FlushDebtDurable == ASSUME Durable, FlushDebt PROVE Durable'
<1>1. /\ pc = "calc" /\ pc' = "current" /\ todo = {} /\ newDebts' = Nothing
      /\ UNCHANGED <<low, tables, blocks, currentDebts, debtOn, to, cursor, rows,
                     sessions, maps, newCurrent, crashes, history>>
  BY DEF FlushDebt
<1>2. CASE newDebts = Nothing
  <2>1. UNCHANGED <<debtSync, debts, accounts>>
    BY <1>2 DEF FlushDebt, results
  <2>2. TypeOK'
    BY <1>1, <2>1, RecordFacts DEF Durable, TypeOK, tables, rows, maps, history
  <2>3. TableInv'
    BY <1>1 DEF Durable, TableInv, tables
  <2>4. ControlInv'
    BY <1>1, <2>1 DEF Durable, ControlInv, Calculating, tables, rows
  <2> QED BY <2>2, <2>3, <2>4 DEF Durable
<1>3. CASE newDebts # Nothing
  <2>1. /\ debtSync' = to
        /\ debts' = [s \in Session |-> [b \in Block |->
             IF b \in newDebts[s] THEN debts[s][b] + 1 ELSE debts[s][b]]]
        /\ accounts' = [s \in Session |-> IF tracker[s].known THEN tracker[s] ELSE accounts[s]]
    BY <1>3 DEF FlushDebt
  <2>2. debts' \in [Session -> [Block -> Nat]] /\ accounts' \in [Session -> Account]
    BY <2>1 DEF Durable, TypeOK
  <2>3. TypeOK'
    BY <1>1, <2>1, <2>2, RecordFacts DEF Durable, TypeOK, tables, rows, maps, history
  <2>4. TableInv'
    BY <1>1 DEF Durable, TableInv, tables
  <2>5. debtSync' = cursor /\ cursor <= adapterSync /\ cursor \in Nat
    BY <1>1, <2>1, BlockFacts DEF Durable, TypeOK, ControlInv, Calculating
  <2>6. ControlInv'
    BY <1>1, <2>5 DEF Durable, ControlInv, Calculating, tables, rows
  <2> QED BY <2>3, <2>4, <2>6 DEF Durable
<1> QED BY <1>2, <1>3

LEMMA FlushCurrentDurable == ASSUME Durable, FlushCurrentDebts PROVE Durable'
<1>1. /\ pc = "current" /\ pc' = "clear" /\ blocks' = blocks \cup ({to} \cap Block)
      /\ newCurrent' = [s \in Session |-> NoDebt]
      /\ currentDebts' = [s \in Session |->
           IF s \in sessions /\ OpenAfter(s, to) THEN [block |-> to, low |-> LowAt(s, to)]
           ELSE IF newCurrent[s] # NoDebt THEN newCurrent[s]
           ELSE currentDebts[s]]
      /\ UNCHANGED <<low, tables, results, debtOn, to, cursor, rows, sessions, maps,
                     newDebts, crashes, history>>
  BY DEF FlushCurrentDebts
<1>2. TypeOK'
  <2>1. \A s \in Session : LowAt(s, to) \in BOOLEAN
    BY DEF LowAt
  <2>2. currentDebts' \in [Session -> Debt]
    BY <1>1, <2>1, RecordFacts DEF Durable, TypeOK
  <2> QED BY <1>1, <2>2, RecordFacts
          DEF Durable, TypeOK, tables, results, rows, maps, history
<1>3. to <= adapterSync
  BY <1>1 DEF Durable, ControlInv, Calculating
<1>4. TableInv'
  <2>1. \A b \in blocks' : b <= adapterSync
    BY <1>1, <1>3 DEF Durable, TableInv
  <2> QED BY <1>1, <2>1 DEF Durable, TableInv, tables
<1>5. ControlInv'
  BY <1>1 DEF Durable, ControlInv, Calculating, tables, results, rows
<1> QED BY <1>2, <1>4, <1>5 DEF Durable

LEMMA ClearDurable == ASSUME Durable, Clear PROVE Durable'
<1>1. /\ pc = "clear" /\ pc' = IF cursor < adapterSync THEN "backlog" ELSE "idle"
      /\ sessions' \subseteq sessions
      /\ todo' = {} /\ newest' = 0 /\ memCss' = Nothing /\ memTouch' = Nothing
      /\ newDebts' = Nothing
      /\ UNCHANGED <<low, tables, blocks, results, currentDebts, debtOn, to, cursor, maps,
                     newCurrent, crashes, history>>
  BY DEF Clear
<1>2. TypeOK'
  BY <1>1, BlockFacts, RecordFacts DEF Durable, TypeOK, tables, results, maps, history
<1>3. TableInv'
  BY <1>1 DEF Durable, TableInv, tables
<1>4. ControlInv'
  <2>1. cursor \in Nat /\ adapterSync \in Nat /\ cursor <= adapterSync
    BY <1>1, BlockFacts DEF Durable, TypeOK, ControlInv
  <2> QED BY <1>1, <2>1 DEF Durable, ControlInv, Calculating, tables, results
<1> QED BY <1>2, <1>3, <1>4 DEF Durable

(***************************************************************************)
(* Sessions and snapshots in memory, debts written once, snapshots recorded *)
(***************************************************************************)

LEMMA Numbers ==
    ASSUME TypeOK
    PROVE  /\ adapterSync \in Nat /\ debtSync \in Nat /\ to \in Nat /\ cursor \in Nat
           /\ newest \in Nat
           /\ \A s \in Session : since[s] \in Nat /\ closedAt[s] \in Nat /\ lastCSS[s] \in Nat
           /\ \A s \in Session : \A b \in css[s] \cup touch[s] : b \in Block /\ b \in Nat /\ b # 0
           /\ \A s \in Session, b \in Block : debts[s][b] \in Nat
<1>1. /\ adapterSync \in Nat /\ debtSync \in Nat /\ to \in Nat /\ cursor \in Nat
      /\ newest \in Nat
  BY BlockFacts DEF TypeOK
<1>2. \A s \in Session : since[s] \in Nat /\ closedAt[s] \in Nat /\ lastCSS[s] \in Nat
  BY BlockFacts DEF TypeOK
<1>3. \A s \in Session : \A b \in css[s] \cup touch[s] : b \in Block
  BY DEF TypeOK
<1>4. \A b \in Block : b \in Nat /\ b # 0
  BY BlockFacts
<1>5. \A s \in Session, b \in Block : debts[s][b] \in Nat
  BY DEF TypeOK
<1> QED BY <1>1, <1>2, <1>3, <1>4, <1>5

LEMMA InitSafe == Init => Safe
BY DEF Init, Safe, LoadedInv, SnapshotInv, OnceInv, RecordedInv, NoDebtTwice,
       SnapshotsRecorded, Nothing

LEMMA StartSafe == ASSUME IInv, Start PROVE Safe'
<1>1. /\ pc' \in {"backlog", "idle"} /\ cursor' = debtSync
      /\ sessions' = {s \in Session :
           since[s] # 0 /\ (closedAt[s] = 0 \/ closedAt[s] > debtSync)}
      /\ lastCSS' = [s \in Session |-> LastOf({b \in css[s] : b <= debtSync})]
      /\ UNCHANGED <<since, closedAt, css, debtSync, debts>>
  BY DEF Start, tables, results
<1>2. TypeOK /\ TableInv /\ Safe
  BY DEF IInv, Durable
<1>3. LoadedInv'
  BY <1>1 DEF LoadedInv
<1>4. SnapshotInv'
  <2> SUFFICES ASSUME NEW s \in Session, since[s] # 0, since[s] <= debtSync
               PROVE  lastCSS'[s] # 0
    BY <1>1 DEF SnapshotInv
  <2> DEFINE S == {b \in css[s] : b <= debtSync}
  <2>1. S \in SUBSET Block /\ S # {}
    BY <1>2 DEF TypeOK, TableInv
  <2>2. LastOf(S) \in Block
    BY <2>1, LastOfFacts
  <2> QED BY <1>1, <2>2, BlockFacts
<1>5. OnceInv'
  BY <1>1, <1>2 DEF Safe, OnceInv, NoDebtTwice
<1>6. RecordedInv'
  BY <1>1, <1>2, Numbers DEF Safe, RecordedInv, SnapshotsRecorded
<1> QED BY <1>3, <1>4, <1>5, <1>6 DEF Safe

LEMMA CrashSafe == ASSUME IInv, Crash PROVE Safe'
BY DEF IInv, Safe, Crash, tables, results, LoadedInv, SnapshotInv, OnceInv, NoDebtTwice,
       RecordedInv, SnapshotsRecorded

LEMMA BacklogSafe == ASSUME IInv, Backlog PROVE Safe'
<1> DEFINE L == {b \in blocks : cursor < b /\ b <= cursor'}
<1>1. /\ TypeOK /\ TableInv /\ ControlInv /\ Durable
      /\ LoadedInv /\ SnapshotInv /\ OnceInv /\ RecordedInv
  BY DEF IInv, Durable, Safe
<1>2. /\ cursor' \in Nat /\ cursor <= cursor' /\ pc = "backlog" /\ debtOn /\ newDebts = Nothing
      /\ debtSync <= cursor
  BY <1>1, BacklogFacts, BlockFacts DEF ControlInv
<1>3. UNCHANGED <<since, closedAt, css, touch, debtSync, debts, debtOn, sessions, lastCSS,
                  newDebts>>
  BY DEF Backlog, tables, results, maps
<1>4. \/ /\ pc' = "calc" /\ to' = cursor' /\ todo' = L
         /\ \A s \in Session : memCss'[s] = css[s] \cap L /\ memTouch'[s] = touch[s] \cap L
      \/ pc' \in {"idle", "backlog"} /\ L = {}
  BY <1>1, BacklogFacts
<1>5. ASSUME NEW s \in Session, NEW b \in css[s], cursor < b
      PROVE  since[s] # 0 /\ (closedAt[s] = 0 \/ closedAt[s] > cursor)
  BY <1>1, <1>5, Numbers DEF TableInv
<1>6. \A s \in Session : \A b \in css[s] : cursor < b /\ b <= cursor' => b \in L
  BY <1>1 DEF TableInv
<1>7. LoadedInv'
  <2>1. ASSUME NEW s \in Session, since[s] # 0, closedAt[s] = 0 \/ closedAt[s] > cursor'
        PROVE  s \in sessions
    BY <2>1, <1>1, <1>2, Numbers DEF LoadedInv
  <2>2. ASSUME NEW s \in Session, css[s] \cap L # {}
        PROVE  s \in sessions
    BY <2>2, <1>1, <1>2, <1>5 DEF LoadedInv
  <2> QED BY <1>3, <1>4, <2>1, <2>2 DEF LoadedInv
<1>8. SnapshotInv'
  <2> SUFFICES ASSUME NEW s \in Session, since[s] # 0, since[s] <= cursor'
               PROVE  lastCSS[s] # 0 \/ (pc' = "calc" /\ since[s] \in memCss'[s] \cap todo')
    BY <1>3 DEF SnapshotInv
  <2>1. CASE since[s] <= cursor
    BY <2>1, <1>1, <1>2 DEF SnapshotInv
  <2>2. CASE cursor < since[s]
    <3>1. since[s] \in css[s] /\ since[s] \in L
      BY <2>2, <1>1, <1>6 DEF TableInv
    <3> QED BY <3>1, <1>4
  <2> QED BY <2>1, <2>2, <1>1, <1>2, Numbers
<1>9. OnceInv'
  <2>1. NoDebtTwice'
    BY <1>1, <1>3 DEF OnceInv, NoDebtTwice
  <2>2. \A s \in Session : newDebts'[s] = {}
    BY <1>2, <1>3 DEF Nothing
  <2>3. \A b \in L : b <= cursor' /\ b > debtSync
    BY <1>1, <1>2, Numbers, BlockFacts DEF TypeOK
  <2> QED BY <1>3, <1>4, <2>1, <2>2, <2>3 DEF OnceInv
<1>10. RecordedInv'
  <2>1. SnapshotsRecorded'
    BY <1>1, <1>3 DEF RecordedInv, SnapshotsRecorded
  <2>2. ASSUME NEW s \in Session, NEW b \in css[s], debtSync < b, b <= cursor'
        PROVE  pc' = "calc" /\ b \in todo' \cap memCss'[s]
    <3>1. cursor < b
      BY <2>2, <1>1, <1>2, Numbers DEF RecordedInv
    <3> QED BY <2>2, <3>1, <1>4, <1>6
  <2> QED BY <1>3, <2>1, <2>2 DEF RecordedInv
<1> QED BY <1>7, <1>8, <1>9, <1>10 DEF Safe

LEMMA RoundSafe ==
    ASSUME IInv, NEW t \in Height, adapterSync <= t, SyncAndFlush(t)
    PROVE  Safe'
<1>1. /\ TypeOK /\ TableInv /\ ControlInv
      /\ LoadedInv /\ SnapshotInv /\ OnceInv /\ RecordedInv
  BY DEF IInv, Durable, Safe
<1>2. /\ to' = t /\ cursor' = t /\ pc = "idle"
      /\ pc' = IF debtOn THEN "calc" ELSE "clear"
      /\ UNCHANGED <<debtSync, debts, debtOn, lastCSS, newDebts>>
  BY DEF SyncAndFlush, results, maps
<1>3. t \in Nat /\ debtSync <= adapterSync /\ newDebts = Nothing
      /\ (debtOn => cursor = adapterSync)
  BY <1>1, <1>2, BlockFacts DEF ControlInv
<1>4. /\ \A s \in Session : Brings(s, t)
      /\ sessions \subseteq sessions' /\ \A b \in todo' : b <= t /\ b \in Block
  BY <1>1, RoundFacts
<1>5. \A s \in Session : /\ since[s] \in Nat /\ closedAt[s] \in Nat
                         /\ since[s] <= adapterSync /\ closedAt[s] <= adapterSync
                         /\ \A b \in css[s] : b \in Block /\ b \in Nat /\ b <= adapterSync
  BY <1>1, Numbers DEF TableInv
<1>6. adapterSync \in Nat /\ debtSync \in Nat
  BY <1>1, Numbers
<1>7. \A s \in Session : \A b \in memCss'[s] \cup memTouch'[s] :
        b \in Block /\ b \in Nat /\ b \in todo' /\ b <= t
  BY <1>4, BlockFacts DEF Brings
<1>8. LoadedInv'
  <2>1. ASSUME NEW s \in Session, since'[s] # 0, closedAt[s] = 0
        PROVE  s \in sessions'
    <3>1. CASE since'[s] = since[s]
      BY <2>1, <3>1, <1>1, <1>2, <1>4 DEF LoadedInv
    <3> QED BY <3>1, <1>4 DEF Brings
  <2>2. ASSUME NEW s \in Session, since'[s] # 0, closedAt'[s] = 0 \/ closedAt'[s] > t
        PROVE  closedAt[s] = 0
    BY <2>2, <1>3, <1>4, <1>5, <1>6 DEF Brings
  <2>3. ASSUME NEW s \in Session, memCss'[s] # {}
        PROVE  since'[s] # 0 /\ closedAt[s] = 0
    BY <2>3, <1>4 DEF Brings
  <2> QED BY <1>2, <2>1, <2>2, <2>3 DEF LoadedInv
<1>9. SnapshotInv'
  <2> SUFFICES ASSUME debtOn, NEW s \in Session, since'[s] # 0
               PROVE  lastCSS[s] # 0 \/ since'[s] \in memCss'[s] \cap todo'
    BY <1>2 DEF SnapshotInv
  <2>1. CASE since'[s] = since[s]
    BY <2>1, <1>1, <1>2, <1>3, <1>5 DEF SnapshotInv
  <2> QED BY <2>1, <1>4, <1>7 DEF Brings
<1>10. OnceInv'
  <2>1. \A s \in Session : closedAt[s] # 0 => closedAt'[s] = closedAt[s]
    BY <1>4 DEF Brings
  <2>2. NoDebtTwice'
    <3> SUFFICES ASSUME NEW s \in Session, NEW b \in Block
                 PROVE  /\ debts[s][b] > 0 => b <= debtSync
                        /\ debts[s][b] <= IF closedAt'[s] = b + 1 THEN 2 ELSE 1
      BY <1>2 DEF NoDebtTwice
    <3>1. /\ debts[s][b] > 0 => b <= debtSync
          /\ debts[s][b] <= IF closedAt[s] = b + 1 THEN 2 ELSE 1
      BY <1>1 DEF OnceInv, NoDebtTwice
    <3>2. debts[s][b] \in Nat /\ b \in Nat
      BY <1>1, Numbers, BlockFacts
    <3>3. closedAt[s] = b + 1 => closedAt'[s] = b + 1
      BY <2>1, <3>2
    <3> QED BY <3>1, <3>2, <3>3
  <2>3. ASSUME NEW s \in Session, NEW b \in memCss'[s] \cup memTouch'[s]
        PROVE  b > debtSync \/ (closedAt'[s] = b + 1 /\ debts[s][b] <= 1)
    <3>1. b > adapterSync \/ (closedAt'[s] = b + 1 /\ closedAt[s] = 0)
      BY <1>4 DEF Brings
    <3>2. CASE b > adapterSync
      BY <3>2, <1>3, <1>6, <1>7
    <3>3. CASE closedAt'[s] = b + 1 /\ closedAt[s] = 0
      <4>1. b \in Block /\ closedAt[s] # b + 1
        BY <3>3, <1>7
      <4>2. debts[s][b] <= 1
        BY <4>1, <1>1 DEF OnceInv, NoDebtTwice
      <4> QED BY <3>3, <4>2
    <3> QED BY <3>1, <3>2, <3>3
  <2>4. \A s \in Session : newDebts'[s] = {}
    BY <1>2, <1>3 DEF Nothing
  <2> QED BY <1>2, <1>7, <2>2, <2>3, <2>4 DEF OnceInv
<1>11. RecordedInv'
  <2>1. SnapshotsRecorded'
    <3> SUFFICES ASSUME NEW s \in Session, NEW b \in css'[s], b <= debtSync,
                        closedAt'[s] # b + 1
                 PROVE  debts[s][b] > 0
      BY <1>2 DEF SnapshotsRecorded
    <3>1. CASE b \in css[s]
      <4>1. closedAt[s] # b + 1
        BY <3>1, <1>4, <1>5 DEF Brings
      <4> QED BY <3>1, <4>1, <1>1 DEF RecordedInv, SnapshotsRecorded
    <3>2. CASE b \in memCss'[s]
      <4>1. b > adapterSync
        BY <3>2, <1>4 DEF Brings
      <4> QED BY <3>2, <4>1, <1>3, <1>6, <1>7
    <3> QED BY <3>1, <3>2, <1>4 DEF Brings
  <2>2. ASSUME debtOn, NEW s \in Session, NEW b \in css'[s], debtSync < b, b <= t
        PROVE  b \in todo' \cap memCss'[s]
    <3>1. b \notin css[s]
      BY <2>2, <1>1, <1>2, <1>3, <1>5 DEF RecordedInv
    <3> QED BY <3>1, <1>4, <1>7 DEF Brings
  <2> QED BY <1>2, <2>1, <2>2 DEF RecordedInv
<1> QED BY <1>8, <1>9, <1>10, <1>11 DEF Safe

LEMMA CalculateSafe == ASSUME IInv, CalculateBlock PROVE Safe'
<1>1. /\ TypeOK /\ TableInv /\ ControlInv /\ Durable
      /\ LoadedInv /\ SnapshotInv /\ OnceInv /\ RecordedInv
  BY DEF IInv, Durable, Safe
<1>2. PICK b \in Block, U, K, N \in SUBSET Session :
        /\ Calculates(b, U, K, N) /\ b <= to
        /\ \A s \in U : Forced(s, b) => s \in K
  BY <1>1, CalculateFacts
<1>3. UNCHANGED <<since, closedAt, css, debtSync, debts, pc, debtOn, to, cursor, memCss,
                  memTouch, sessions>>
  BY DEF CalculateBlock, tables, results
<1>4. /\ pc = "calc" /\ b \in todo /\ todo' = todo \ {b} /\ b # 0
      /\ \A s \in Session :
           /\ lastCSS'[s] = IF b \in memCss[s] THEN b ELSE lastCSS[s]
           /\ newDebts'[s] = IF s \in K THEN newDebts[s] \cup {b} ELSE newDebts[s]
      /\ \A s \in K : b \in memCss[s] \cup memTouch[s]
  BY <1>2, BlockFacts DEF Calculates
<1>5. LoadedInv'
  BY <1>1, <1>3 DEF LoadedInv
<1>6. SnapshotInv'
  BY <1>1, <1>3, <1>4 DEF SnapshotInv
<1>7. OnceInv'
  <2>1. NoDebtTwice'
    BY <1>1, <1>3 DEF OnceInv, NoDebtTwice
  <2>2. \A s \in Session :
          newDebts'[s] \cup (todo' \cap (memCss[s] \cup memTouch[s]))
            \subseteq newDebts[s] \cup (todo \cap (memCss[s] \cup memTouch[s]))
    BY <1>4
  <2> QED BY <1>1, <1>3, <1>4, <2>1, <2>2 DEF OnceInv
<1>8. RecordedInv'
  <2>1. SnapshotsRecorded'
    BY <1>1, <1>3 DEF RecordedInv, SnapshotsRecorded
  <2>2. ASSUME NEW s \in Session, b \in memCss[s]
        PROVE  b \in newDebts'[s]
    <3>1. s \in sessions /\ b \in css[s]
      BY <2>2, <1>1, <1>4 DEF LoadedInv, ControlInv
    <3>2. OpenAt(s, b)
      BY <3>1, <1>1, Numbers DEF TableInv, OpenAt
    <3>3. s \in K
      BY <2>2, <3>1, <3>2, <1>2 DEF Calculates, Forced
    <3> QED BY <3>3, <1>4
  <2>3. ASSUME NEW s \in Session, NEW c \in css[s], debtSync < c, c <= cursor, debtOn
        PROVE  c \in newDebts'[s] \cup (todo' \cap memCss[s])
    <3>1. c \in newDebts[s] \cup (todo \cap memCss[s])
      BY <2>3, <1>1, <1>4 DEF RecordedInv
    <3> QED BY <3>1, <2>2, <1>4
  <2> QED BY <1>3, <1>4, <2>1, <2>3 DEF RecordedInv
<1> QED BY <1>5, <1>6, <1>7, <1>8 DEF Safe

LEMMA FlushDebtSafe == ASSUME IInv, FlushDebt PROVE Safe'
<1>1. /\ TypeOK /\ TableInv /\ ControlInv
      /\ LoadedInv /\ SnapshotInv /\ OnceInv /\ RecordedInv
  BY DEF IInv, Durable, Safe
<1>2. /\ pc = "calc" /\ pc' = "current" /\ todo = {}
      /\ UNCHANGED <<since, closedAt, css, debtOn, cursor, sessions, lastCSS>>
  BY DEF FlushDebt, tables, maps
<1>3. debtOn /\ to = cursor /\ debtSync <= cursor
  BY <1>1, <1>2 DEF ControlInv, Calculating
<1>4. LoadedInv'
  BY <1>1, <1>2 DEF LoadedInv
<1>5. SnapshotInv'
  BY <1>1, <1>2 DEF SnapshotInv
<1>6. CASE newDebts = Nothing
  <2>1. UNCHANGED <<debtSync, debts>>
    BY <1>6 DEF FlushDebt, results
  <2>2. \A s \in Session : newDebts[s] = {}
    BY <1>6 DEF Nothing
  <2>3. OnceInv'
    BY <1>1, <1>2, <2>1 DEF OnceInv, NoDebtTwice
  <2>4. RecordedInv'
    BY <1>1, <1>2, <2>1, <2>2 DEF RecordedInv, SnapshotsRecorded
  <2> QED BY <1>4, <1>5, <2>3, <2>4 DEF Safe
<1>7. CASE newDebts # Nothing
  <2>1. /\ debtSync' = cursor
        /\ \A s \in Session, b \in Block : debts'[s][b] =
             IF b \in newDebts[s] THEN debts[s][b] + 1 ELSE debts[s][b]
    BY <1>3, <1>7 DEF FlushDebt
  <2>2. ASSUME NEW s \in Session, NEW b \in Block
        PROVE  /\ debts'[s][b] > 0 => b <= cursor
               /\ debts'[s][b] <= IF closedAt[s] = b + 1 THEN 2 ELSE 1
    <3>1. /\ debts[s][b] \in Nat /\ b \in Nat /\ cursor \in Nat /\ debtSync \in Nat
          /\ closedAt[s] \in Nat
      BY <1>1, Numbers, BlockFacts
    <3>2. /\ debts[s][b] > 0 => b <= debtSync
          /\ debts[s][b] <= IF closedAt[s] = b + 1 THEN 2 ELSE 1
      BY <1>1 DEF OnceInv, NoDebtTwice
    <3>3. b \in newDebts[s] =>
            b <= cursor /\ (b > debtSync \/ (closedAt[s] = b + 1 /\ debts[s][b] <= 1))
      BY <1>1, <1>2, <1>3 DEF OnceInv
    <3> QED BY <2>1, <3>1, <3>2, <3>3, <1>3
  <2>3. OnceInv'
    BY <1>2, <2>1, <2>2 DEF OnceInv, NoDebtTwice
  <2>4. ASSUME NEW s \in Session, NEW b \in css[s], b <= cursor, closedAt[s] # b + 1
        PROVE  debts'[s][b] > 0
    <3>1. b \in Block /\ b \in Nat /\ debts[s][b] \in Nat /\ debtSync \in Nat
      BY <1>1, Numbers
    <3>2. CASE b <= debtSync
      <4>1. debts[s][b] > 0
        BY <2>4, <3>2, <1>1 DEF RecordedInv, SnapshotsRecorded
      <4> QED BY <4>1, <3>1, <2>1
    <3>3. CASE debtSync < b
      <4>1. b \in newDebts[s]
        BY <2>4, <3>3, <1>1, <1>2, <1>3 DEF RecordedInv
      <4> QED BY <4>1, <3>1, <2>1
    <3> QED BY <3>1, <3>2, <3>3
  <2>5. RecordedInv'
    <3>1. \A s \in Session : \A b \in css[s] : ~(cursor < b /\ b <= cursor)
      BY <1>1, Numbers
    <3> QED BY <1>2, <2>1, <2>4, <3>1 DEF RecordedInv, SnapshotsRecorded
  <2> QED BY <1>4, <1>5, <2>3, <2>5 DEF Safe
<1> QED BY <1>6, <1>7

LEMMA FlushCurrentSafe == ASSUME IInv, FlushCurrentDebts PROVE Safe'
<1>1. /\ pc = "current" /\ pc' = "clear"
      /\ UNCHANGED <<since, closedAt, css, debtSync, debts, debtOn, cursor, sessions, lastCSS>>
  BY DEF FlushCurrentDebts, tables, results, maps
<1>2. LoadedInv' /\ SnapshotInv'
  BY <1>1 DEF IInv, Safe, LoadedInv, SnapshotInv
<1>3. OnceInv' /\ RecordedInv'
  BY <1>1 DEF IInv, Safe, OnceInv, NoDebtTwice, RecordedInv, SnapshotsRecorded
<1> QED BY <1>2, <1>3 DEF Safe

LEMMA ClearSafe == ASSUME IInv, Clear PROVE Safe'
<1>1. /\ pc = "clear" /\ pc' \in {"backlog", "idle"}
      /\ sessions' = {s \in sessions : closedAt[s] = 0 \/ closedAt[s] > newest}
      /\ UNCHANGED <<since, closedAt, css, debtSync, debts, debtOn, cursor, lastCSS>>
  BY DEF Clear, tables, results, maps
<1>2. newest <= cursor /\ newest \in Nat /\ cursor \in Nat
      /\ \A s \in Session : closedAt[s] \in Nat
  BY <1>1, Numbers DEF IInv, Durable, ControlInv
<1>3. LoadedInv'
  BY <1>1, <1>2 DEF IInv, Safe, LoadedInv
<1>4. SnapshotInv'
  BY <1>1 DEF IInv, Safe, SnapshotInv
<1>5. OnceInv' /\ RecordedInv'
  BY <1>1 DEF IInv, Safe, OnceInv, NoDebtTwice, RecordedInv, SnapshotsRecorded
<1> QED BY <1>3, <1>4, <1>5 DEF Safe

LEMMA RoundTarget ==
    ASSUME TypeOK, Round
    PROVE  \E t \in Height : adapterSync <= t /\ SyncAndFlush(t)
<1>1. PICK t \in adapterSync..Least(adapterSync + BatchSize, MaxBlock) : SyncAndFlush(t)
  BY DEF Round
<1>2. t \in Height /\ adapterSync <= t
  BY BlockFacts, Numbers DEF Least, Height
<1> QED BY <1>1, <1>2

LEMMA StutterIInv == ASSUME IInv, UNCHANGED vars PROVE IInv'
<1>1. Durable'
  BY DEF IInv, vars, tables, results, rows, maps, history,
         Durable, TypeOK, TableInv, ControlInv
<1>2. Safe'
  BY DEF IInv, vars, tables, results, rows, maps, Safe, LoadedInv, SnapshotInv,
         OnceInv, NoDebtTwice, RecordedInv, SnapshotsRecorded
<1> QED BY <1>1, <1>2 DEF IInv

LEMMA NextIInv == ASSUME IInv, [Next]_vars PROVE IInv'
<1>1. Durable /\ TypeOK
  BY DEF IInv, Durable
<1>2. CASE Start
  BY <1>1, <1>2, StartDurable, StartSafe DEF IInv
<1>3. CASE Backlog
  BY <1>1, <1>3, BacklogDurable, BacklogSafe DEF IInv
<1>4. CASE Round
  BY <1>1, <1>4, RoundTarget, RoundDurable, RoundSafe DEF IInv
<1>5. CASE CalculateBlock
  BY <1>1, <1>5, CalculateDurable, CalculateSafe DEF IInv
<1>6. CASE FlushDebt
  BY <1>1, <1>6, FlushDebtDurable, FlushDebtSafe DEF IInv
<1>7. CASE FlushCurrentDebts
  BY <1>1, <1>7, FlushCurrentDurable, FlushCurrentSafe DEF IInv
<1>8. CASE Clear
  BY <1>1, <1>8, ClearDurable, ClearSafe DEF IInv
<1>9. CASE Crash
  BY <1>1, <1>9, CrashDurable, CrashSafe DEF IInv
<1>10. CASE UNCHANGED vars
  BY <1>10, StutterIInv
<1> QED BY <1>2, <1>3, <1>4, <1>5, <1>6, <1>7, <1>8, <1>9, <1>10 DEF Next, EngineStep

LEMMA AlwaysIInv == Spec => []IInv
<1>1. Init => IInv
  BY InitDurable, InitSafe DEF IInv
<1>2. IInv /\ [Next]_vars => IInv'
  BY NextIInv
<1> QED BY <1>1, <1>2, PTL DEF Spec

\* The tables, the maps and the cursors of the debt engine keep their types: no
\* close ever asks for a snapshot below the first block, no cursor leaves the
\* chain.
THEOREM DebtTypeCorrect == Spec => []TypeOK
<1>1. IInv => TypeOK
  BY DEF IInv, Durable
<1> QED BY <1>1, AlwaysIInv, PTL

\* CalculateDebt and CalCurrentDebts find the session of every snapshot and the
\* snapshot of every open session, which they read without a check, after any
\* crash, backlog or Clear.
THEOREM NothingIsMissing == Spec => []NothingMissing
<1>1. IInv => NothingMissing
  <2> SUFFICES ASSUME IInv PROVE NothingMissing
    OBVIOUS
  <2>1. TypeOK /\ TableInv /\ ControlInv /\ LoadedInv /\ SnapshotInv
    BY DEF IInv, Durable, Safe
  <2>2. ASSUME pc = "calc", NEW s \in sessions, NEW b \in todo, OpenAt(s, b)
        PROVE  lastCSS[s] # 0 \/ \E c \in memCss[s] : c <= b
    <3>1. s \in Session /\ b <= cursor /\ debtOn /\ since[s] # 0 /\ since[s] <= b
      BY <2>1, <2>2 DEF TypeOK, ControlInv, Calculating, OpenAt
    <3>2. since[s] \in Nat /\ cursor \in Nat /\ b \in Nat
      BY <2>1, <3>1, Numbers, BlockFacts DEF TypeOK
    <3>3. since[s] <= cursor
      BY <3>1, <3>2
    <3> QED BY <2>1, <2>2, <3>1, <3>3 DEF SnapshotInv
  <2>3. ASSUME pc = "current", NEW s \in sessions, OpenAfter(s, to)
        PROVE  lastCSS[s] # 0
    BY <2>1, <2>3 DEF TypeOK, ControlInv, Calculating, OpenAfter, SnapshotInv
  <2> QED BY <2>1, <2>2, <2>3 DEF NothingMissing, LoadedInv
<1> QED BY <1>1, AlwaysIInv, PTL

\* flushDebt writes no debt above debt_sync, and none twice but for the block
\* before a close, whatever a crash makes the backlog replay.
THEOREM DebtsAreWrittenOnce == Spec => []NoDebtTwice
<1>1. IInv => NoDebtTwice
  BY DEF IInv, Safe, OnceInv
<1> QED BY <1>1, AlwaysIInv, PTL

\* Every snapshot up to debt_sync has its debt, whatever crashes, except one
\* that a close adds to a block already calculated.
THEOREM SnapshotsAreRecorded == Spec => []SnapshotsRecorded
<1>1. IInv => SnapshotsRecorded
  BY DEF IInv, Safe, RecordedInv
<1> QED BY <1>1, AlwaysIInv, PTL

(***************************************************************************)
(* The life of the first process                                           *)
(***************************************************************************)

LEMMA InitRun == Init => RunInv
<1> SUFFICES ASSUME Init PROVE RunInv
  OBVIOUS
<1>1. FirstRunInv /\ FinalInv
  BY DEF Init, FirstRunInv, FinalInv, Nothing, Calculating
<1>2. SideInv
  BY DEF Init, SideInv, Nothing, NoDebt, Adjacent
<1>3. StreakInv
  BY DEF Init, StreakInv, Streak, Nothing, NoDebt, NoAccount, Adjacent
<1> QED BY <1>1, <1>2, <1>3 DEF RunInv

\* A step that calculates nothing and drops no debt keeps what is known of the
\* calculated ones.
LEMMA QuietStep ==
    ASSUME TypeOK, SideInv, StreakInv,
           UNCHANGED <<crashes, calculated, sent, lastDebts, tracker>>,
           \A s \in Session : \A d \in calculated[s] : d \in low'[s] <=> d \in low[s],
           \A s \in Session : \A c \in Block :
               debts[s][c] > 0 \/ c \in newDebts[s] => debts'[s][c] > 0 \/ c \in newDebts'[s]
    PROVE  SideInv' /\ StreakInv'
<1>1. \A s \in Session : \A b, c : Adjacent(s, b, c)' <=> Adjacent(s, b, c)
  BY DEF Adjacent
<1>2. \A s \in Session : \A m : Newest(s, m)' <=> Newest(s, m)
  BY DEF Newest
<1>3. \A s \in Session : \A b, c : Adjacent(s, b, c) => b \in calculated[s] /\ c \in calculated[s]
  BY DEF Adjacent
<1>4. \A s \in Session : \A m : Newest(s, m) => m \in calculated[s]
  BY DEF Newest
<1>5. \A s \in Session : \A d \in calculated[s] : LowAt(s, d)' = LowAt(s, d)
  BY DEF LowAt
<1>6. SideInv'
  <2> SUFFICES ASSUME crashes = 0, NEW s \in Session
               PROVE  /\ calculated[s] = {} => lastDebts[s].block = 0 /\ ~lastDebts[s].low
                      /\ calculated[s] # {} =>
                           /\ lastDebts[s].block # 0
                           /\ \E m \in Block : Newest(s, m)' /\ lastDebts[s].low = LowAt(s, m)'
                      /\ \A b, c \in Block :
                           Adjacent(s, b, c)' /\ LowAt(s, b)' # LowAt(s, c)'
                           => debts'[s][c] > 0 \/ c \in newDebts'[s]
    BY DEF SideInv
  <2>1. calculated[s] = {} => lastDebts[s].block = 0 /\ ~lastDebts[s].low
    BY DEF SideInv
  <2>2. calculated[s] # {} =>
          /\ lastDebts[s].block # 0
          /\ \E m \in Block : Newest(s, m)' /\ lastDebts[s].low = LowAt(s, m)'
    BY <1>2, <1>4, <1>5 DEF SideInv
  <2>3. ASSUME NEW b \in Block, NEW c \in Block,
               Adjacent(s, b, c)', LowAt(s, b)' # LowAt(s, c)'
        PROVE  debts'[s][c] > 0 \/ c \in newDebts'[s]
    <3>1. Adjacent(s, b, c) /\ LowAt(s, b) # LowAt(s, c)
      BY <2>3, <1>1, <1>3, <1>5
    <3> QED BY <3>1 DEF SideInv
  <2> QED BY <2>1, <2>2, <2>3
<1>7. StreakInv'
  BY <1>1, <1>3, <1>5 DEF StreakInv, Streak
<1> QED BY <1>6, <1>7

LEMMA StartRun == ASSUME IInv, RunInv, Start PROVE RunInv'
<1> SUFFICES ASSUME crashes' = 0 PROVE RunInv'
  BY DEF RunInv, FirstRunInv, SideInv, StreakInv, FinalInv
<1>1. /\ pc = "down" /\ pc' \in {"backlog", "idle"}
      /\ UNCHANGED <<crashes, adapterSync, calculated, sent, closedAt>>
      /\ \A s \in Session :
           /\ lastDebts'[s] = IF currentDebts[s].block <= debtSync
                              THEN currentDebts[s] ELSE NoDebt
           /\ closedAt[s] = 0 => tracker'[s] = accounts[s]
  BY DEF Start, LoadLiquidableAccounts, tables, history
<1>2. /\ adapterSync = 0
      /\ \A s \in Session : /\ calculated[s] = {} /\ sent[s] = {} /\ closedAt[s] = 0
                            /\ accounts[s] = NoAccount /\ currentDebts[s] = NoDebt
  <2>1. adapterSync = 0
    BY <1>1 DEF RunInv, FirstRunInv
  <2>2. \A s \in Session : closedAt[s] = 0
    BY <2>1, Numbers DEF IInv, Durable, TableInv
  <2> QED BY <1>1, <2>1, <2>2 DEF RunInv, FirstRunInv
<1>3. \A s \in Session : lastDebts'[s] = NoDebt /\ tracker'[s] = NoAccount
  BY <1>1, <1>2
<1>4. FirstRunInv'
  BY <1>1, <1>2 DEF FirstRunInv, Calculating
<1>5. FinalInv'
  BY <1>1, <1>2 DEF FinalInv
<1>6. SideInv'
  BY <1>1, <1>2, <1>3 DEF SideInv, Adjacent, NoDebt
<1>7. StreakInv'
  BY <1>1, <1>2, <1>3 DEF StreakInv, Streak, Adjacent, NoAccount
<1> QED BY <1>4, <1>5, <1>6, <1>7 DEF RunInv

LEMMA CrashRun == ASSUME IInv, Crash PROVE RunInv'
<1>1. crashes' # 0
  BY DebtAssumption DEF Crash, IInv, Durable, TypeOK
<1> QED BY <1>1 DEF RunInv, FirstRunInv, SideInv, StreakInv, FinalInv

LEMMA BacklogRun == ASSUME IInv, RunInv, Backlog PROVE RunInv'
<1> SUFFICES ASSUME crashes' = 0 PROVE RunInv'
  BY DEF RunInv, FirstRunInv, SideInv, StreakInv, FinalInv
<1>1. /\ pc = "backlog"
      /\ UNCHANGED <<crashes, adapterSync, calculated, sent, lastDebts, tracker, closedAt,
                     low, debts, newDebts>>
  BY DEF Backlog, tables, results, maps, history
<1>2. TypeOK /\ TableInv /\ Durable
  BY DEF IInv, Durable
<1>3. adapterSync = 0
  BY <1>1 DEF RunInv, FirstRunInv
<1>4. \A b \in blocks : FALSE
  BY <1>2, <1>3, BlockFacts DEF TableInv, TypeOK
<1>5. pc' = "idle" /\ cursor <= cursor' /\ cursor' \in Nat /\ cursor \in Nat
  <2>1. cursor' \in Height /\ cursor <= cursor' /\ cursor' <= adapterSync
    BY <1>2, BacklogFacts
  <2>2. cursor' = 0 /\ cursor \in Nat
    BY <1>2, <1>3, <2>1, BlockFacts, Numbers
  <2>3. pc' = "calc" => newest' \in Block
    BY <1>2, BacklogFacts
  <2>4. pc' = "idle"
    <3>1. Least(cursor + BatchSize, adapterSync) = cursor'
      BY DEF Backlog
    <3> QED BY <1>3, <1>4, <2>2, <3>1 DEF Backlog
  <2> QED BY <2>1, <2>2, <2>4
<1>6. FirstRunInv'
  <2>1. \A s \in Session : \A d \in calculated[s] : d <= cursor /\ d \in Nat
    BY <1>1, <1>2, BlockFacts DEF RunInv, FirstRunInv, TypeOK
  <2> QED BY <1>1, <1>5, <2>1 DEF FirstRunInv, Calculating
<1>7. FinalInv'
  BY <1>1, <1>2, <1>3, Numbers DEF FinalInv, TableInv
<1>8. SideInv' /\ StreakInv'
  BY <1>1, <1>2, QuietStep DEF RunInv
<1> QED BY <1>6, <1>7, <1>8 DEF RunInv

LEMMA RoundRun ==
    ASSUME IInv, RunInv, NEW t \in Height, adapterSync <= t, SyncAndFlush(t)
    PROVE  RunInv'
<1> SUFFICES ASSUME crashes' = 0 PROVE RunInv'
  BY DEF RunInv, FirstRunInv, SideInv, StreakInv, FinalInv
<1>1. /\ adapterSync' = t /\ cursor' = t /\ pc = "idle"
      /\ pc' = IF debtOn THEN "calc" ELSE "clear"
      /\ UNCHANGED <<crashes, calculated, sent, lastDebts, tracker, debts, newDebts, debtOn,
                     currentDebts, newCurrent>>
  BY DEF SyncAndFlush, results, maps, history
<1>2. TypeOK /\ TableInv /\ ControlInv
  BY DEF IInv, Durable
<1>3. /\ \A s \in Session : Brings(s, t)
      /\ \A b \in todo' : adapterSync <= b /\ b \in Block
  BY <1>2, RoundFacts
<1>4. \A s \in Session : \A d \in calculated[s] :
        d \in Block /\ d \in Nat /\ d <= cursor /\ d <= adapterSync
  <2>1. \A s \in Session : \A d \in calculated[s] : d \in Block /\ d \in Nat /\ d <= cursor
    BY <1>1, <1>2, BlockFacts DEF RunInv, FirstRunInv, TypeOK
  <2>2. cursor <= adapterSync /\ cursor \in Nat /\ adapterSync \in Nat
    BY <1>1, <1>2, Numbers DEF ControlInv
  <2> QED BY <2>1, <2>2
<1>5. FirstRunInv'
  <2>1. t \in Nat /\ adapterSync \in Nat /\ \A b \in todo' : b \in Nat
    BY <1>2, <1>3, Numbers, BlockFacts
  <2>2. \A s \in Session : \A d \in calculated[s] : d <= t /\ \A b \in todo' : d <= b
    BY <1>3, <1>4, <2>1
  <2> QED BY <1>1, <2>2 DEF FirstRunInv, Calculating
<1>6. SideInv' /\ StreakInv'
  <2>1. \A s \in Session : \A d \in calculated[s] : d \in low'[s] <=> d \in low[s]
    BY <1>3, <1>4 DEF Brings
  <2> QED BY <1>1, <1>2, <2>1, QuietStep DEF RunInv
<1>7. FinalInv'
  <2> SUFFICES ASSUME debtOn, NEW s \in Session, closedAt'[s] # 0
               PROVE  \/ currentDebts[s].block = closedAt'[s] - 1 /\ newCurrent[s] = NoDebt
                      \/ closedAt'[s] - 1 \in todo' \cap memCss'[s]
    BY <1>1 DEF FinalInv
  <2>1. CASE closedAt'[s] = closedAt[s]
    <3>1. closedAt[s] <= cursor
      BY <1>1, <1>2 DEF TableInv, ControlInv
    <3> QED BY <2>1, <3>1, <1>1 DEF RunInv, FinalInv
  <2> QED BY <2>1, <1>3 DEF Brings
<1> QED BY <1>5, <1>6, <1>7 DEF RunInv

LEMMA FlushDebtRun == ASSUME IInv, RunInv, FlushDebt PROVE RunInv'
<1>1. /\ pc = "calc" /\ pc' = "current" /\ todo = {}
      /\ UNCHANGED <<crashes, adapterSync, calculated, sent, lastDebts, tracker, closedAt,
                     low, debtOn, cursor, currentDebts, newCurrent>>
  BY DEF FlushDebt, tables, maps, history
<1>2. FirstRunInv'
  BY <1>1 DEF RunInv, FirstRunInv, Calculating
<1>3. FinalInv'
  BY <1>1 DEF RunInv, FinalInv
<1>4. SideInv' /\ StreakInv'
  <2>1. TypeOK
    BY DEF IInv, Durable
  <2>2. \A s \in Session, c \in Block : debts[s][c] \in Nat
    BY <2>1, Numbers
  <2>3. \A s \in Session : \A c \in Block :
          debts[s][c] > 0 \/ c \in newDebts[s] => debts'[s][c] > 0 \/ c \in newDebts'[s]
    <3>1. CASE newDebts = Nothing
      BY <3>1 DEF FlushDebt, results
    <3>2. CASE newDebts # Nothing
      <4>1. \A s \in Session, c \in Block : debts'[s][c] =
              IF c \in newDebts[s] THEN debts[s][c] + 1 ELSE debts[s][c]
        BY <3>2 DEF FlushDebt
      <4> QED BY <4>1, <2>2
    <3> QED BY <3>1, <3>2
  <2> QED BY <1>1, <2>1, <2>3, QuietStep DEF RunInv
<1> QED BY <1>2, <1>3, <1>4 DEF RunInv

LEMMA FlushCurrentRun == ASSUME IInv, RunInv, FlushCurrentDebts PROVE RunInv'
<1>1. /\ pc = "current" /\ pc' = "clear"
      /\ newCurrent' = [s \in Session |-> NoDebt]
      /\ \A s \in Session : currentDebts'[s] =
           IF s \in sessions /\ OpenAfter(s, to) THEN [block |-> to, low |-> LowAt(s, to)]
           ELSE IF newCurrent[s] # NoDebt THEN newCurrent[s]
           ELSE currentDebts[s]
      /\ UNCHANGED <<crashes, adapterSync, calculated, sent, lastDebts, tracker, closedAt,
                     low, debts, newDebts, debtOn, cursor>>
  BY DEF FlushCurrentDebts, tables, results, maps, history
<1>2. TypeOK /\ TableInv /\ ControlInv
  BY DEF IInv, Durable
<1>3. FirstRunInv'
  BY <1>1 DEF RunInv, FirstRunInv, Calculating
<1>4. SideInv' /\ StreakInv'
  BY <1>1, <1>2, QuietStep DEF RunInv
<1>5. FinalInv'
  <2> SUFFICES ASSUME crashes = 0, debtOn, NEW s \in Session, closedAt[s] # 0,
                      closedAt[s] <= cursor
               PROVE  currentDebts'[s].block = closedAt[s] - 1 /\ newCurrent'[s] = NoDebt
    BY <1>1 DEF FinalInv
  <2>1. to = cursor /\ cursor \in Nat /\ closedAt[s] \in Nat
    BY <1>1, <1>2, Numbers DEF ControlInv, Calculating
  <2>2. ~OpenAfter(s, to)
    BY <2>1 DEF OpenAfter
  <2>3. closedAt[s] - 1 # 0
    BY <1>2, Numbers DEF TableInv
  <2>4. \/ currentDebts[s].block = closedAt[s] - 1 /\ newCurrent[s] = NoDebt
        \/ newCurrent[s].block = closedAt[s] - 1
    BY <1>1 DEF RunInv, FinalInv
  <2>5. NoDebt.block = 0
    BY DEF NoDebt
  <2>6. newCurrent[s].block = closedAt[s] - 1 => newCurrent[s] # NoDebt
    BY <2>3, <2>5
  <2>7. currentDebts'[s] =
          IF newCurrent[s] # NoDebt THEN newCurrent[s] ELSE currentDebts[s]
    BY <1>1, <2>2
  <2> QED BY <1>1, <2>4, <2>6, <2>7
<1> QED BY <1>3, <1>4, <1>5 DEF RunInv

LEMMA ClearRun == ASSUME IInv, RunInv, Clear PROVE RunInv'
<1>1. /\ pc = "clear" /\ pc' = IF cursor < adapterSync THEN "backlog" ELSE "idle"
      /\ newDebts' = Nothing
      /\ UNCHANGED <<crashes, adapterSync, calculated, sent, lastDebts, tracker, closedAt,
                     low, debts, debtOn, cursor, currentDebts, newCurrent>>
  BY DEF Clear, tables, results, maps, history
<1>2. TypeOK /\ newDebts = Nothing
  BY <1>1 DEF IInv, Durable, ControlInv
<1>3. FirstRunInv'
  <2>1. crashes = 0 => pc' = "idle"
    BY <1>1, <1>2, Numbers DEF RunInv, FirstRunInv, Calculating
  <2> QED BY <1>1, <2>1 DEF RunInv, FirstRunInv, Calculating
<1>4. SideInv' /\ StreakInv'
  BY <1>1, <1>2, QuietStep DEF RunInv
<1>5. FinalInv'
  BY <1>1 DEF RunInv, FinalInv
<1> QED BY <1>3, <1>4, <1>5 DEF RunInv

\* What one block of CalculateDebt leaves of a session it does not recalculate.
Untouched(s) ==
    /\ calculated'[s] = calculated[s] /\ sent'[s] = sent[s]
    /\ lastDebts'[s] = lastDebts[s] /\ newDebts'[s] = newDebts[s]
    /\ tracker'[s] = tracker[s]

\* What it does to one it recalculates: what was calculated before is at or
\* below the block b.
Recalculated(s, b) ==
    /\ calculated'[s] = calculated[s] \cup {b}
    /\ \A d \in calculated[s] : d \in Block /\ d \in Nat /\ d <= b
    /\ lastDebts'[s].block # 0 /\ lastDebts'[s].low = LowAt(s, b)
    /\ lastDebts[s].low # LowAt(s, b) => b \in newDebts'[s]
    /\ newDebts[s] \subseteq newDebts'[s]
    /\ sent'[s] = IF NoticeDue(s, b) THEN sent[s] \cup {b} ELSE sent[s]
    /\ tracker'[s] = IF NoticeDue(s, b)
                     THEN [Liquidable(s, b) EXCEPT !.notified = TRUE]
                     ELSE Liquidable(s, b)

LEMMA CalculateSession ==
    ASSUME IInv, RunInv, CalculateBlock, crashes = 0
    PROVE  \E b \in Block : \A s \in Session : Untouched(s) \/ Recalculated(s, b)
<1>1. PICK b \in Block, U, K, N \in SUBSET Session :
        Calculates(b, U, K, N) /\ \A s \in U : Forced(s, b) => s \in K
  BY CalculateFacts DEF IInv
<1>2. TypeOK /\ pc = "calc" /\ b \in todo /\ b # 0 /\ K \subseteq U /\ N \subseteq U
  BY <1>1, BlockFacts DEF IInv, Durable, Calculates
<1>3. ASSUME NEW s \in Session, s \notin U
      PROVE  Untouched(s)
  BY <1>1, <1>2, <1>3 DEF Calculates, Untouched
<1>4. ASSUME NEW s \in Session, s \in U
      PROVE  Recalculated(s, b)
  <2>1. /\ calculated'[s] = calculated[s] \cup {b}
        /\ newDebts'[s] = IF s \in K THEN newDebts[s] \cup {b} ELSE newDebts[s]
        /\ lastDebts'[s] = IF s \in K THEN [block |-> b, low |-> LowAt(s, b)] ELSE lastDebts[s]
    BY <1>1, <1>4 DEF Calculates
  <2>2. \A d \in calculated[s] : d \in Block /\ d \in Nat /\ d <= b
    BY <1>2, BlockFacts DEF RunInv, FirstRunInv, TypeOK
  <2>3. lastDebts'[s].block # 0 /\ lastDebts'[s].low = LowAt(s, b)
    <3>1. CASE s \in K
      BY <3>1, <1>2, <2>1
    <3>2. CASE s \notin K
      BY <3>2, <1>1, <1>4, <2>1 DEF Forced
    <3> QED BY <3>1, <3>2
  <2>4. lastDebts[s].low # LowAt(s, b) => b \in newDebts'[s]
    BY <1>1, <1>4, <2>1 DEF Forced
  <2>5. s \in N <=> NoticeDue(s, b)
    BY <1>1, <1>4 DEF Calculates
  <2>6. sent'[s] = IF NoticeDue(s, b) THEN sent[s] \cup {b} ELSE sent[s]
    BY <1>1, <2>5 DEF Calculates
  <2>7. tracker'[s] = IF NoticeDue(s, b)
                      THEN [Liquidable(s, b) EXCEPT !.notified = TRUE]
                      ELSE Liquidable(s, b)
    BY <1>1, <1>4, <2>5 DEF Calculates
  <2> QED BY <2>1, <2>2, <2>3, <2>4, <2>6, <2>7 DEF Recalculated
<1> QED BY <1>3, <1>4

LEMMA CalculateSide ==
    ASSUME RunInv, crashes = 0, NEW b \in Block, NEW s \in Session,
           Untouched(s) \/ Recalculated(s, b)
    PROVE  /\ calculated'[s] = {} => lastDebts'[s].block = 0 /\ ~lastDebts'[s].low
           /\ calculated'[s] # {} =>
                /\ lastDebts'[s].block # 0
                /\ \E m \in Block : Newest(s, m)' /\ lastDebts'[s].low = LowAt(s, m)
           /\ \A x, y \in Block :
                Adjacent(s, x, y)' /\ LowAt(s, x) # LowAt(s, y)
                => debts[s][y] > 0 \/ y \in newDebts'[s]
<1>1. /\ calculated[s] = {} => lastDebts[s].block = 0 /\ ~lastDebts[s].low
      /\ calculated[s] # {} =>
           /\ lastDebts[s].block # 0
           /\ \E m \in Block : Newest(s, m) /\ lastDebts[s].low = LowAt(s, m)
      /\ \A x, y \in Block :
           Adjacent(s, x, y) /\ LowAt(s, x) # LowAt(s, y)
           => debts[s][y] > 0 \/ y \in newDebts[s]
  BY DEF RunInv, SideInv
<1>2. CASE Untouched(s)
  <2>1. /\ calculated'[s] = calculated[s] /\ lastDebts'[s] = lastDebts[s]
        /\ newDebts'[s] = newDebts[s]
    BY <1>2 DEF Untouched
  <2>2. \A m : Newest(s, m)' <=> Newest(s, m)
    BY <2>1 DEF Newest
  <2>3. \A x, y : Adjacent(s, x, y)' <=> Adjacent(s, x, y)
    BY <2>1 DEF Adjacent
  <2> QED BY <1>1, <2>1, <2>2, <2>3
<1>3. CASE Recalculated(s, b)
  <2>1. /\ calculated'[s] = calculated[s] \cup {b}
        /\ \A d \in calculated[s] : d \in Block /\ d \in Nat /\ d <= b
        /\ lastDebts'[s].block # 0 /\ lastDebts'[s].low = LowAt(s, b)
        /\ lastDebts[s].low # LowAt(s, b) => b \in newDebts'[s]
        /\ newDebts[s] \subseteq newDebts'[s]
    BY <1>3 DEF Recalculated
  <2>2. b \in Nat
    BY BlockFacts
  <2>3. Newest(s, b)'
    BY <2>1, <2>2 DEF Newest
  <2>4. ASSUME NEW x \in Block, NEW y \in Block,
               Adjacent(s, x, y)', LowAt(s, x) # LowAt(s, y)
        PROVE  debts[s][y] > 0 \/ y \in newDebts'[s]
    <3>1. /\ x \in calculated'[s] /\ y \in calculated'[s] /\ x < y
          /\ \A d \in calculated'[s] : ~(x < d /\ d < y)
      BY <2>4 DEF Adjacent
    <3>2. x \in Nat /\ y \in Nat
      BY BlockFacts
    <3>3. x \in calculated[s]
      BY <2>1, <2>2, <3>1, <3>2
    <3>4. CASE y \in calculated[s]
      <4>1. Adjacent(s, x, y)
        BY <2>1, <3>1, <3>3, <3>4 DEF Adjacent
      <4> QED BY <4>1, <2>1, <2>4, <1>1
    <3>5. CASE y \notin calculated[s]
      <4>1. y = b
        BY <2>1, <3>1, <3>5
      <4>2. PICK m \in Block : Newest(s, m) /\ lastDebts[s].low = LowAt(s, m)
        BY <1>1, <3>3
      <4>3. m \in calculated[s] /\ x <= m /\ m <= b /\ m # b /\ m \in Nat
        BY <2>1, <3>3, <3>5, <4>1, <4>2 DEF Newest
      <4>4. m = x
        BY <2>1, <2>2, <3>1, <3>2, <4>1, <4>3
      <4>5. lastDebts[s].low # LowAt(s, b)
        BY <2>4, <4>1, <4>2, <4>4
      <4> QED BY <2>1, <4>1, <4>5
    <3> QED BY <3>4, <3>5
  <2> QED BY <2>1, <2>3, <2>4
<1> QED BY <1>2, <1>3

LEMMA LiquidableFacts ==
    ASSUME TypeOK, NEW s \in Session, NEW b \in Block
    PROVE  /\ lastDebts[s].block = 0 \/ lastDebts[s].low = LowAt(s, b)
              => Liquidable(s, b) = tracker[s]
           /\ lastDebts[s].low /\ ~LowAt(s, b) /\ lastDebts[s].block # 0
              => ~Liquidable(s, b).notified
           /\ ~lastDebts[s].low /\ LowAt(s, b) /\ lastDebts[s].block # 0
              => /\ Liquidable(s, b).known /\ Liquidable(s, b).since = b
                 /\ Liquidable(s, b).notified = tracker[s].notified
           /\ [Liquidable(s, b) EXCEPT !.notified = TRUE].known = Liquidable(s, b).known
           /\ [Liquidable(s, b) EXCEPT !.notified = TRUE].since = Liquidable(s, b).since
           /\ lastDebts[s].low \in BOOLEAN /\ LowAt(s, b) \in BOOLEAN
<1>1. tracker[s] \in Account /\ Liquidable(s, b) \in Account
  BY LiquidableType DEF TypeOK
<1>2. lastDebts[s].low \in BOOLEAN /\ LowAt(s, b) \in BOOLEAN
  BY DEF TypeOK, Debt, LowAt
<1>3. lastDebts[s].block = 0 \/ lastDebts[s].low = LowAt(s, b)
      => Liquidable(s, b) = tracker[s]
  BY DEF Liquidable
<1>4. lastDebts[s].low /\ ~LowAt(s, b) /\ lastDebts[s].block # 0
      => ~Liquidable(s, b).notified
  BY <1>2 DEF Liquidable
<1>5. ASSUME ~lastDebts[s].low, LowAt(s, b), lastDebts[s].block # 0
      PROVE  /\ Liquidable(s, b).known /\ Liquidable(s, b).since = b
             /\ Liquidable(s, b).notified = tracker[s].notified
  <2>1. Liquidable(s, b) = [tracker[s] EXCEPT !.known = TRUE, !.since = b]
    BY <1>2, <1>5 DEF Liquidable
  <2> QED BY <1>1, <2>1 DEF Account
<1>6. /\ [Liquidable(s, b) EXCEPT !.notified = TRUE].known = Liquidable(s, b).known
      /\ [Liquidable(s, b) EXCEPT !.notified = TRUE].since = Liquidable(s, b).since
  BY <1>1 DEF Account
<1> QED BY <1>2, <1>3, <1>4, <1>5, <1>6

LEMMA CalculateStreak ==
    ASSUME TypeOK, RunInv, crashes = 0, NEW b \in Block, NEW s \in Session,
           low' = low, Recalculated(s, b)
    PROVE  Streak(s)'
<1>1. Streak(s)
  BY DEF RunInv, StreakInv
<1>2. /\ calculated'[s] = calculated[s] \cup {b}
      /\ \A d \in calculated[s] : d \in Block /\ d \in Nat /\ d <= b
      /\ lastDebts'[s].low = LowAt(s, b)
      /\ sent'[s] = IF NoticeDue(s, b) THEN sent[s] \cup {b} ELSE sent[s]
      /\ tracker'[s] = IF NoticeDue(s, b)
                       THEN [Liquidable(s, b) EXCEPT !.notified = TRUE]
                       ELSE Liquidable(s, b)
  BY DEF Recalculated
<1>3. /\ calculated[s] = {} => lastDebts[s].block = 0 /\ ~lastDebts[s].low
      /\ calculated[s] # {} =>
           /\ lastDebts[s].block # 0
           /\ \E m \in Block : Newest(s, m) /\ lastDebts[s].low = LowAt(s, m)
  BY DEF RunInv, SideInv
<1>4. b \in Nat /\ NotifyAfter \in Nat /\ NotifyAfter > 0 /\ \A x \in Block : x \in Nat
  BY BlockFacts, DebtAssumption
<1>5. \A d : LowAt(s, d)' = LowAt(s, d)
  BY DEF LowAt
<1>6. sent'[s] \subseteq calculated'[s] /\ sent[s] \subseteq sent'[s]
  BY <1>1, <1>2 DEF Streak
<1>7. ASSUME ~LowAt(s, b)
      PROVE  ~tracker'[s].notified
  <2>1. tracker'[s] = Liquidable(s, b)
    BY <1>2, <1>7 DEF NoticeDue
  <2>2. CASE lastDebts[s].block = 0
    <3>1. ~lastDebts[s].low
      BY <2>2, <1>3
    <3> QED BY <2>1, <2>2, <3>1, <1>1, LiquidableFacts DEF Streak
  <2>3. CASE lastDebts[s].block # 0 /\ lastDebts[s].low
    BY <2>1, <2>3, <1>7, LiquidableFacts
  <2>4. CASE ~lastDebts[s].low
    <3>1. lastDebts[s].low = LowAt(s, b)
      BY <2>4, <1>7, LiquidableFacts
    <3> QED BY <2>1, <2>4, <3>1, <1>1, LiquidableFacts DEF Streak
  <2> QED BY <2>2, <2>3, <2>4
\* While a streak goes on its account does not change.
<1>8. ASSUME NEW x \in Block, NEW y \in Block, Adjacent(s, x, y), ~LowAt(s, x),
             \A d \in calculated[s] : y <= d => LowAt(s, d), LowAt(s, b)
      PROVE  /\ Liquidable(s, b) = tracker[s] /\ tracker[s].known /\ tracker[s].since = y
             /\ tracker[s].notified => \E n \in sent[s] : y <= n
  <2>1. y \in calculated[s]
    BY <1>8 DEF Adjacent
  <2>2. PICK m \in Block : Newest(s, m) /\ lastDebts[s].low = LowAt(s, m)
    BY <2>1, <1>3
  <2>3. LowAt(s, m)
    BY <2>1, <2>2, <1>8 DEF Newest
  <2>4. lastDebts[s].low = LowAt(s, b)
    BY <2>2, <2>3, <1>8, LiquidableFacts DEF LowAt
  <2>5. Liquidable(s, b) = tracker[s]
    BY <2>4, LiquidableFacts
  <2> QED BY <2>5, <1>1, <1>8 DEF Streak
\* Two neighbours that were calculated before the step were neighbours.
<1>9. ASSUME NEW x \in Block, NEW y \in Block, Adjacent(s, x, y)'
      PROVE  x \in calculated[s] /\ x < y /\ (y \in calculated[s] => Adjacent(s, x, y))
  <2>1. /\ x \in calculated'[s] /\ y \in calculated'[s] /\ x < y
        /\ \A d \in calculated'[s] : ~(x < d /\ d < y)
    BY <1>9 DEF Adjacent
  <2>2. x \in calculated[s]
    BY <2>1, <1>2, <1>4
  <2> QED BY <2>1, <2>2, <1>2 DEF Adjacent
<1>10. ASSUME NEW x \in Block, NEW y \in Block, Adjacent(s, x, y)', ~LowAt(s, x),
              \A d \in calculated'[s] : y <= d => LowAt(s, d)
       PROVE  /\ tracker'[s].known /\ tracker'[s].since = y
              /\ tracker'[s].notified => \E n \in sent'[s] : y <= n
  <2>1. y \in calculated'[s] /\ y <= b /\ y \in Nat
    BY <1>2, <1>4, <1>10 DEF Adjacent
  <2>2. LowAt(s, b)
    BY <2>1, <1>2, <1>10
  <2>3. CASE y \in calculated[s]
    <3>1. Adjacent(s, x, y)
      BY <2>3, <1>9, <1>10
    <3>2. \A d \in calculated[s] : y <= d => LowAt(s, d)
      BY <1>2, <1>10
    <3>3. /\ Liquidable(s, b) = tracker[s] /\ tracker[s].known /\ tracker[s].since = y
          /\ tracker[s].notified => \E n \in sent[s] : y <= n
      BY <3>1, <3>2, <2>2, <1>8, <1>10
    <3>4. CASE NoticeDue(s, b)
      BY <3>3, <3>4, <2>1, <1>2, LiquidableFacts
    <3>5. CASE ~NoticeDue(s, b)
      BY <3>3, <3>5, <1>2
    <3> QED BY <3>4, <3>5
  <2>4. CASE y \notin calculated[s]
    <3>1. y = b
      BY <2>1, <2>4, <1>2
    <3>2. x \in calculated[s] /\ x < b
      BY <3>1, <1>9, <1>10
    <3>3. PICK m \in Block : Newest(s, m) /\ lastDebts[s].low = LowAt(s, m)
      BY <3>2, <1>3
    <3>4. m \in calculated[s] /\ x <= m /\ m <= b /\ m # b /\ m \in Nat /\ x \in Nat
      BY <3>1, <3>2, <3>3, <2>4, <1>2, <1>4 DEF Newest
    <3>5. m = x
      <4>1. ~(x < m /\ m < b)
        BY <3>1, <3>4, <1>2, <1>10 DEF Adjacent
      <4> QED BY <4>1, <3>4, <1>4
    <3>6. ~lastDebts[s].low /\ lastDebts[s].block # 0
      BY <3>2, <3>3, <3>5, <1>3, <1>10
    <3>7. /\ Liquidable(s, b).known /\ Liquidable(s, b).since = b
          /\ Liquidable(s, b).notified = tracker[s].notified
      BY <2>2, <3>6, LiquidableFacts
    <3>8. ~tracker[s].notified
      BY <3>6, <1>1 DEF Streak
    <3>9. ~NoticeDue(s, b)
      BY <3>7, <1>4 DEF NoticeDue
    <3> QED BY <3>1, <3>7, <3>8, <3>9, <1>2
  <2> QED BY <2>3, <2>4
<1>11. ASSUME NEW x \in Block, NEW y \in Block, NEW c \in Block, Adjacent(s, x, y)',
              ~LowAt(s, x), c \in calculated'[s], c - y >= NotifyAfter,
              \A d \in calculated'[s] : y <= d /\ d <= c => LowAt(s, d)
       PROVE  \E n \in sent'[s] : y <= n /\ n <= c
  <2>1. c <= b /\ y \in Nat /\ c \in Nat /\ y < c
    BY <1>2, <1>4, <1>11
  <2>2. y \in calculated[s] /\ Adjacent(s, x, y)
    <3>1. y \in calculated'[s] /\ y # b
      BY <2>1, <1>4, <1>11 DEF Adjacent
    <3> QED BY <3>1, <1>2, <1>9, <1>11
  <2>3. CASE c \in calculated[s]
    <3>1. \A d \in calculated[s] : y <= d /\ d <= c => LowAt(s, d)
      BY <1>2, <1>11
    <3>2. \E n \in sent[s] : y <= n /\ n <= c
      BY <2>2, <2>3, <3>1, <1>1, <1>11 DEF Streak
    <3> QED BY <3>2, <1>6
  <2>4. CASE c \notin calculated[s]
    <3>1. c = b
      BY <2>4, <1>2, <1>11
    <3>2. LowAt(s, b) /\ \A d \in calculated[s] : y <= d => LowAt(s, d)
      BY <2>1, <3>1, <1>2, <1>11
    <3>3. /\ Liquidable(s, b) = tracker[s] /\ tracker[s].known /\ tracker[s].since = y
          /\ tracker[s].notified => \E n \in sent[s] : y <= n
      BY <2>2, <3>2, <1>8, <1>11
    <3>4. CASE tracker[s].notified
      <4>1. PICK n \in sent[s] : y <= n
        BY <3>3, <3>4
      <4>2. n <= b
        BY <1>1, <1>2 DEF Streak
      <4> QED BY <3>1, <4>1, <4>2, <1>6
    <3>5. CASE ~tracker[s].notified
      <4>1. NoticeDue(s, b)
        BY <3>1, <3>2, <3>3, <3>5, <1>11 DEF NoticeDue
      <4> QED BY <4>1, <3>1, <2>1, <1>2
    <3> QED BY <3>4, <3>5
  <2> QED BY <2>3, <2>4
<1>12. ~lastDebts'[s].low => ~tracker'[s].notified
  BY <1>2, <1>7
<1> QED BY <1>5, <1>6, <1>10, <1>11, <1>12 DEF Streak

LEMMA CalculateRun == ASSUME IInv, RunInv, CalculateBlock PROVE RunInv'
<1>1. UNCHANGED <<crashes, adapterSync, closedAt, low, debts, pc, debtOn, to, cursor,
                  memCss, currentDebts>>
  BY DEF CalculateBlock, tables, results
<1> SUFFICES ASSUME crashes = 0 PROVE RunInv'
  BY <1>1 DEF RunInv, FirstRunInv, SideInv, StreakInv, FinalInv
<1>2. TypeOK /\ TableInv /\ ControlInv /\ LoadedInv
  BY DEF IInv, Durable, Safe
<1>3. SideInv' /\ StreakInv'
  <2>1. PICK b \in Block : \A s \in Session : Untouched(s) \/ Recalculated(s, b)
    BY CalculateSession
  <2>2. \A s, d : LowAt(s, d)' = LowAt(s, d)
    BY <1>1 DEF LowAt
  <2>3. SideInv'
    BY <1>1, <2>1, <2>2, CalculateSide DEF SideInv
  <2>4. ASSUME NEW s \in Session PROVE Streak(s)'
    <3>1. CASE Untouched(s)
      <4>1. Streak(s)
        BY DEF RunInv, StreakInv
      <4>2. \A x, y : Adjacent(s, x, y)' <=> Adjacent(s, x, y)
        BY <3>1 DEF Adjacent, Untouched
      <4> QED BY <3>1, <4>1, <4>2, <2>2 DEF Streak, Untouched
    <3>2. CASE Recalculated(s, b)
      BY <3>2, <1>1, <1>2, CalculateStreak
    <3> QED BY <2>1, <3>1, <3>2
  <2> QED BY <2>3, <2>4 DEF StreakInv
<1>4. PICK b \in Block, U, K, N \in SUBSET Session : Calculates(b, U, K, N) /\ b <= to
  BY CalculateFacts DEF IInv
<1>5. /\ pc = "calc" /\ b \in todo /\ \A c \in todo : b <= c
      /\ todo' = todo \ {b}
      /\ \A s \in Session :
           /\ newCurrent'[s] = IF s \in U THEN FinalDebt(s, b) ELSE newCurrent[s]
           /\ calculated'[s] = IF s \in U THEN calculated[s] \cup {b} ELSE calculated[s]
  BY <1>4 DEF Calculates
<1>6. FirstRunInv'
  <2>1. \A s \in Session : \A d \in calculated[s] : d <= cursor /\ \A c \in todo : d <= c
    BY <1>5 DEF RunInv, FirstRunInv
  <2>2. b <= cursor /\ cursor = adapterSync
    BY <1>2, <1>4, <1>5 DEF ControlInv, Calculating, RunInv, FirstRunInv
  <2>3. \A s \in Session : \A d \in calculated'[s] : d <= cursor /\ \A c \in todo' : d <= c
    BY <1>5, <2>1, <2>2
  <2> QED BY <1>1, <1>5, <2>2, <2>3 DEF FirstRunInv, Calculating
<1>7. FinalInv'
  <2> SUFFICES ASSUME debtOn, NEW s \in Session, closedAt[s] # 0, closedAt[s] <= cursor
               PROVE  \/ currentDebts[s].block = closedAt[s] - 1 /\ newCurrent'[s] = NoDebt
                      \/ newCurrent'[s].block = closedAt[s] - 1
                      \/ closedAt[s] - 1 \in todo' \cap memCss[s]
    BY <1>1, <1>5 DEF FinalInv
  <2>1. closedAt[s] \in Nat /\ b \in Nat
    BY <1>2, Numbers, BlockFacts
  <2>2. [block |-> b, low |-> LowAt(s, b)].block = b
    OBVIOUS
  <2>3. /\ closedAt[s] = b + 1 => FinalDebt(s, b).block = closedAt[s] - 1
        /\ closedAt[s] # b + 1 => FinalDebt(s, b) = newCurrent[s]
    BY <2>1, <2>2 DEF FinalDebt
  <2>4. newCurrent'[s] = IF s \in U THEN FinalDebt(s, b) ELSE newCurrent[s]
    BY <1>5
  <2>5. \/ newCurrent'[s] = newCurrent[s]
        \/ newCurrent'[s].block = closedAt[s] - 1
    BY <2>3, <2>4
  <2>6. CASE closedAt[s] - 1 = b /\ b \in memCss[s]
    <3>1. s \in sessions /\ b \in css[s]
      BY <2>6, <1>2, <1>5 DEF LoadedInv, ControlInv
    <3>2. OpenAt(s, b)
      BY <3>1, <1>2, Numbers DEF TableInv, OpenAt
    <3>3. s \in U
      BY <2>6, <3>1, <3>2, <1>4 DEF Calculates
    <3>4. closedAt[s] = b + 1
      BY <2>1, <2>6
    <3> QED BY <2>3, <2>4, <3>3, <3>4
  <2>7. \/ currentDebts[s].block = closedAt[s] - 1 /\ newCurrent[s] = NoDebt
        \/ newCurrent[s].block = closedAt[s] - 1
        \/ closedAt[s] - 1 \in todo \cap memCss[s]
    BY <1>5 DEF RunInv, FinalInv
  <2> QED BY <2>5, <2>6, <2>7, <1>5
<1> QED BY <1>3, <1>6, <1>7 DEF RunInv

LEMMA StutterRun == ASSUME TypeOK, RunInv, UNCHANGED vars PROVE RunInv'
<1>1. FirstRunInv' /\ FinalInv'
  BY DEF RunInv, vars, tables, results, rows, maps, history, FirstRunInv, FinalInv
<1>2. SideInv' /\ StreakInv'
  BY QuietStep DEF RunInv, vars, results, maps, history
<1> QED BY <1>1, <1>2 DEF RunInv

LEMMA NextRun == ASSUME IInv, RunInv, [Next]_vars PROVE RunInv'
<1>1. TypeOK
  BY DEF IInv, Durable
<1>2. CASE Start
  BY <1>2, StartRun
<1>3. CASE Backlog
  BY <1>3, BacklogRun
<1>4. CASE Round
  BY <1>1, <1>4, RoundTarget, RoundRun
<1>5. CASE CalculateBlock
  BY <1>5, CalculateRun
<1>6. CASE FlushDebt
  BY <1>6, FlushDebtRun
<1>7. CASE FlushCurrentDebts
  BY <1>7, FlushCurrentRun
<1>8. CASE Clear
  BY <1>8, ClearRun
<1>9. CASE Crash
  BY <1>9, CrashRun
<1>10. CASE UNCHANGED vars
  BY <1>1, <1>10, StutterRun
<1> QED BY <1>2, <1>3, <1>4, <1>5, <1>6, <1>7, <1>8, <1>9, <1>10 DEF Next, EngineStep

LEMMA AlwaysRun == Spec => [](IInv /\ RunInv)
<1>1. Init => IInv /\ RunInv
  BY InitDurable, InitSafe, InitRun DEF IInv
<1>2. IInv /\ RunInv /\ [Next]_vars => (IInv /\ RunInv)'
  BY NextIInv, NextRun
<1> QED BY <1>1, <1>2, PTL DEF Spec

\* Throttling loses no crossing of 10000 within the life of a process: AddDebt
\* compares with the last recorded debt, which is on the side of the last
\* calculated one.
THEOREM SideChangesAreRecorded == Spec => []SideChangeRecorded
<1>1. IInv /\ RunInv => SideChangeRecorded
  <2> SUFFICES ASSUME IInv, RunInv, crashes = 0, pc = "idle", NEW s \in Session,
                      NEW b \in calculated[s], NEW c \in calculated[s],
                      b < c, LowAt(s, b) # LowAt(s, c),
                      \A d \in calculated[s] : ~(b < d /\ d < c)
               PROVE  debts[s][c] > 0
    BY DEF SideChangeRecorded
  <2>1. b \in Block /\ c \in Block /\ newDebts[s] = {}
    BY DEF IInv, Durable, TypeOK, ControlInv, Nothing
  <2>2. Adjacent(s, b, c)
    BY DEF Adjacent
  <2> QED BY <2>1, <2>2 DEF RunInv, SideInv
<1> QED BY <1>1, AlwaysRun, PTL

\* liquidationCheck notifies every streak of NotifyAfter blocks below 10000 that
\* begins after a safe debt, within the life of a process.
THEOREM NoticesAreSent == Spec => []NoticeSentWithinRun
<1>1. IInv /\ RunInv => NoticeSentWithinRun
  <2> SUFFICES ASSUME IInv, RunInv, crashes = 0, NEW s \in Session,
                      NEW a \in calculated[s], NEW b \in calculated[s],
                      NEW c \in calculated[s],
                      a < b, c - b >= NotifyAfter, ~LowAt(s, a),
                      \A d \in calculated[s] : /\ ~(a < d /\ d < b)
                                               /\ b <= d /\ d <= c => LowAt(s, d)
               PROVE  \E n \in sent[s] : b <= n /\ n <= c
    BY DEF NoticeSentWithinRun, NoticeSent
  <2>1. a \in Block /\ b \in Block /\ c \in Block
    BY DEF IInv, Durable, TypeOK
  <2>2. Adjacent(s, a, b)
    BY DEF Adjacent
  <2>3. Streak(s)
    BY DEF RunInv, StreakInv
  <2> QED BY <2>1, <2>2, <2>3 DEF Streak
<1> QED BY <1>1, AlwaysRun, PTL

\* The current debt of a closed session stays the one of the block before the
\* close, within the life of a process.
THEOREM ClosedSessionsKeepFinalDebt == Spec => []ClosedHaveFinalDebtWithinRun
<1>1. IInv /\ RunInv => ClosedHaveFinalDebtWithinRun
  <2> SUFFICES ASSUME IInv, RunInv, crashes = 0, pc = "idle", debtOn, NEW s \in Session,
                      closedAt[s] # 0, closedAt[s] <= debtSync
               PROVE  currentDebts[s].block = closedAt[s] - 1
    BY DEF ClosedHaveFinalDebtWithinRun, ClosedHaveFinalDebt
  <2>1. closedAt[s] <= cursor
    BY Numbers DEF IInv, Durable, ControlInv
  <2> QED BY <2>1 DEF RunInv, FinalInv
<1> QED BY <1>1, AlwaysRun, PTL
=============================================================================
