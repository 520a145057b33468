---------------------------- MODULE MCConnection ----------------------------
(***************************************************************************)
(* Instances of ConnectionLifecycle for TLC.  Sessions are issued in any   *)
(* order and a connect call is any of those not used yet, so both sets are *)
(* symmetric; the liveness runs do not use it.                             *)
(***************************************************************************)
EXTENDS ConnectionLifecycle, TLC

\* No session is left from an earlier visit: the retained one is the first approved.
FreshInit == Init /\ stored = None

FreshSpec == FreshInit /\ [][Next]_vars

Symmetry == Permutations(Session) \cup Permutations(ConnectCall)
=============================================================================
