------------------------ MODULE MCRecoveryCoordinator ------------------------
(* RecoveryCoordinator with one request, of scope s1. *)
EXTENDS RecoveryCoordinator, TLC

CONSTANT s1

Scopes == [r \in Request |-> s1]
==============================================================================
