-------------------------- MODULE MCInjectedRecovery --------------------------
(* InjectedRecovery on one invocation, which a tab with an ambient provider   *)
(* or one bound to a native wallet prepares, and both may recover.            *)
EXTENDS InjectedRecovery, TLC

CONSTANTS ambient, bound

Symmetry == Permutations(Account) \cup Permutations(Tx)

\* Without the history that only EventsInvalidate reads.
WithoutSubscribed ==
    <<rows, prepared, live, [tab \in Tab |-> [client[tab] EXCEPT !.subscribed = FALSE]],
      calls, recovery, invoked, acked, told>>
==============================================================================
