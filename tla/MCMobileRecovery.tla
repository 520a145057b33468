--------------------------- MODULE MCMobileRecovery ---------------------------
(* MobileRecovery on one submission: its session can recover submissions, a   *)
(* second session of the same account cannot.                                 *)
EXTENDS MobileRecovery, TLC

CONSTANTS t1, account, s1

Accounts == [s \in Session |-> account]

\* The wallet's evidence vouches for the transaction, or proves that nothing
\* was broadcast.
Answers ==
    { [ status |-> "approved", transactionHash |-> t1,
        submissionAcceptance |-> "accepted",
        chainStatus |-> "absent", chainVersion |-> None ],
      Store!NotSubmitted }

\* s1 was connected by an earlier visit.
PairedInit == Init /\ session = s1

\* A bound: the second session, once it is connected, stays.
SecondStays == session \in {None, s1} \/ session' = session

PairedSpec == PairedInit /\ [][Next]_vars /\ Fairness
==============================================================================
