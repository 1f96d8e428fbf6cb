-------------------------- MODULE MCCreditManager --------------------------
(***************************************************************************)
(* TLC instances of CreditManager.                                         *)
(***************************************************************************)
EXTENDS CreditManager

\* Multicalls: a slippage check before an event and an execute order, a
\* collateral for somebody else, a change of debt in both directions, a call
\* without an event behind one with an event.
MCInners ==
    {<<"revert", "AddCollateral", "ExecuteOrder">>,
     <<"AddCollateralFor", "Increase">>, <<"Decrease">>, <<"AddCollateral", "revert">>}

MCClosingInners == {<<>>, <<"skip", "ExecuteOrder">>}

MCBorrowers == Permutations(Borrowers)
=============================================================================
