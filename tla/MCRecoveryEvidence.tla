-------------------------- MODULE MCRecoveryEvidence --------------------------
(* RecoveryEvidence on a small instance, bounded by how many different      *)
(* answers the wallet gives.                                                *)
EXTENDS RecoveryEvidence, FiniteSets, Naturals

CONSTANT MaxSnapshots

AnswerBound == Cardinality(snapshots) <= MaxSnapshots

==============================================================================
