-------------------------- MODULE MCDirectTransfers --------------------------
(* The credit managers are interchangeable. *)
EXTENDS DirectTransfers, TLC

MCSymmetry == Permutations(Managers)
=============================================================================
