----------------------------- MODULE MCDebtEngine -----------------------------
(***************************************************************************)
(* Instances of DebtEngine: the sessions are given by the configurations,  *)
(* small block distances stand for the hours of throttling and the twenty  *)
(* blocks before a notice.                                                 *)
(***************************************************************************)
EXTENDS DebtEngine
=============================================================================
