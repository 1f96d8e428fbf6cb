------------------------- MODULE MultiCallProcessor -------------------------
(***************************************************************************)
(* How the events of one transaction of a v2 credit manager are grouped    *)
(* into facade actions and matched with the calls found in the trace:      *)
(* ds/multicall_processor.go, the call/event comparison of                 *)
(* ds/execute_parser.go and the regrouping of                              *)
(* models/credit_manager/facade_actions.go.                                *)
(*                                                                         *)
(* An account operation is a record [act, who, ses, id, inner]: the event, *)
(* its borrower, its session, the number of its log, and the operations of *)
(* its multicall.  A facade action is [data, type, withoutMC, ended]; a    *)
(* processor is [running, nonMC, noOfOpens, actions].  A log.Fatal or a    *)
(* panic of an operation is a predicate <Operation>Fails of its own.       *)
(***************************************************************************)
EXTENDS Naturals, Sequences, SequencesExt

NewProcessor ==
    [running |-> FALSE, nonMC |-> <<>>, noOfOpens |-> 0, actions |-> <<>>]

FacadeAction(op, type) ==
    [data |-> op, type |-> type, withoutMC |-> FALSE, ended |-> FALSE]

\* Mutant: every AddCollateral behind an open belongs to it.
CompletesOpenMutant(p, op) ==
    p.actions # <<>> /\ Last(p.actions).type = "open" /\ op.act = "AddCollateral"

(***************************************************************************)
(* An AddCollateral outside a multicall belongs to the OpenCreditAccount   *)
(* right before it, once.                                                  *)
(***************************************************************************)
CompletesOpen(p, op) ==
    /\ p.actions # <<>>
    /\ Last(p.actions).type = "open"
    /\ op.act = "AddCollateral"
    /\ ~Last(p.actions).ended

AddMulticallEventFails(p, op) ==
    IF p.running THEN p.actions = <<>>
    ELSE CompletesOpen(p, op) /\ Last(p.actions).data.inner # <<>>

AddMulticallEvent(p, op) ==
    LET last == Len(p.actions)
    IN  CASE p.running ->
               [p EXCEPT !.actions[last].data.inner = Append(@, op)]
          [] ~p.running /\ CompletesOpen(p, op) ->
               [p EXCEPT !.actions[last].data.inner = <<op>>,
                         !.actions[last].withoutMC = TRUE,
                         !.actions[last].ended = TRUE]
          [] OTHER -> [p EXCEPT !.nonMC = Append(@, op)]

AddOpenEventFails(p) == p.noOfOpens > 0

AddOpenEvent(p, op) ==
    [p EXCEPT !.actions = Append(@, FacadeAction(op, "open")),
              !.noOfOpens = @ + 1]

StartFails(p) == p.running

(***************************************************************************)
(* A multicall becomes an action of its own unless the action before it    *)
(* has not ended: an open that waits for its multicall, and also a close   *)
(* or a liquidation, which AddCloseOrLiquidateEvent never marks as ended.  *)
(***************************************************************************)
Start(p, op) ==
    [p EXCEPT !.running = TRUE,
              !.actions = IF p.actions = <<>> \/ Last(p.actions).ended
                          THEN Append(@, FacadeAction(op, "multicall"))
                          ELSE @]

AddCloseOrLiquidateEvent(p, op) ==
    [p EXCEPT !.actions = Append(@, FacadeAction(op, "close"))]

EndFails(p) == ~p.running

End(p) ==
    [p EXCEPT !.running = FALSE,
              !.actions = IF @ = <<>> THEN @
                          ELSE [@ EXCEPT ![Len(p.actions)].ended = TRUE]]

OpenWithoutMulticall(a) == a.type = "open" /\ a.withoutMC

\* Mutant: the number of opens is not reset.
PopMainActionsMutant(p) ==
    [opens   |-> SelectSeq(p.actions, OpenWithoutMulticall),
     facade  |-> SelectSeq(p.actions, LAMBDA a : ~OpenWithoutMulticall(a)),
     rest    |-> [p EXCEPT !.actions = <<>>]]

PopMainActionsv2(p) ==
    [opens   |-> SelectSeq(p.actions, OpenWithoutMulticall),
     facade  |-> SelectSeq(p.actions, LAMBDA a : ~OpenWithoutMulticall(a)),
     rest    |-> [p EXCEPT !.actions = <<>>, !.noOfOpens = 0]]

\* Mutant: the popped events stay.
PopNonMulticallEventsMutant(p) == [events |-> p.nonMC, rest |-> p]

PopNonMulticallEventsV2(p) ==
    [events |-> p.nonMC, rest |-> [p EXCEPT !.nonMC = <<>>]]

-----------------------------------------------------------------------------
(***************************************************************************)
(* SameMulticallLenAsEvents walks the calls of the trace and the events    *)
(* together.  A call is the name of the event it emits, "revert" for       *)
(* revertIfReceivedLessThan (no event) or "skip" for an adapter call that  *)
(* emitted none.                                                           *)
(***************************************************************************)
AdapterCalls == {"ExecuteOrder", "skip"}

RunLength(s, i, kinds) ==
    LET stops == {j \in i..Len(s) : s[j] \notin kinds}
    IN  IF stops = {} THEN Len(s) + 1 - i
        ELSE (CHOOSE j \in stops : \A k \in stops : j <= k) - i

RECURSIVE WalkCalls(_, _, _, _)
WalkCalls(calls, events, c, e) ==
    IF c > Len(calls) \/ (events # <<>> /\ e > Len(events))
    THEN c = Len(calls) + 1 /\ e = Len(events) + 1
    ELSE CASE calls[c] = "revert" -> WalkCalls(calls, events, c + 1, e)
           [] calls[c] \in AdapterCalls ->
                LET executeEvent == RunLength(events, e, {"ExecuteOrder"})
                    executeCall == RunLength(calls, c, AdapterCalls)
                IN  /\ executeEvent <= executeCall
                    /\ WalkCalls(calls, events, c + executeCall, e + executeEvent)
           [] OTHER -> /\ e <= Len(events)
                       /\ events[e] = calls[c]
                       /\ WalkCalls(calls, events, c + 1, e + 1)

SameMulticallLenAsEvents(call, inner) ==
    WalkCalls(call.mcs, [i \in DOMAIN inner |-> inner[i].act], 1, 1)

-----------------------------------------------------------------------------
(***************************************************************************)
(* fixFacadeActionStructureViaTenderlyCalls: a close or liquidation with a *)
(* multicall left two actions, the multicall and the close; the calls of   *)
(* the first move to the second.  ok is FALSE where the code stops.        *)
(***************************************************************************)
CloseCalls == {"FacadeCloseAccount", "FacadeLiquidate", "FacadeLiquidateExpired"}

FixOne(acts, acc, call) ==
    IF ~acc.ok \/ acc.ind > Len(acts) THEN [acc EXCEPT !.ok = FALSE]
    ELSE LET action == acts[acc.ind]
             merge == /\ call.name \in CloseCalls
                      /\ call.mcs # <<>>
                      /\ Len(acts) > acc.ind
             fixed == IF merge
                      THEN [acts[acc.ind + 1] EXCEPT !.data.inner = action.data.inner]
                      ELSE action
         IN  [ind |-> acc.ind + (IF merge THEN 2 ELSE 1),
              res |-> Append(acc.res, fixed),
              ok  |-> call.name = "FacadeOpenMulticall" => action.type = "open"]

FixFacadeActionStructure(calls, acts) ==
    LET end == FoldLeft(LAMBDA acc, call : FixOne(acts, acc, call),
                        [ind |-> 1, res |-> <<>>, ok |-> TRUE], calls)
    IN  [res |-> end.res,
         ok  |-> Len(calls) <= Len(acts) /\ end.ok /\ end.ind = Len(acts) + 1]
=============================================================================
