-------------------------- MODULE MCDurableRecovery --------------------------
(* DurableRecovery on one submission with every kind of evidence.           *)
EXTENDS DurableRecovery, FiniteSets

CONSTANTS desk, phone, req1, inv1, submit

MCReceipt(session, subject, invocation, archived) ==
    [ session |-> session, requestId |-> req1, subject |-> subject,
      invocation |-> invocation, archived |-> archived ]

\* One submission on the desktop; a legacy receipt of the same request names no
\* invocation, one kept by an older adapter is archived.
OneSubmission ==
    { MCReceipt(desk, submit, inv1, FALSE),
      MCReceipt(desk, submit, None, FALSE),
      MCReceipt(desk, submit, inv1, TRUE) }
==============================================================================
