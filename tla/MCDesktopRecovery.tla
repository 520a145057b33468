-------------------------- MODULE MCDesktopRecovery --------------------------
(* DesktopRecovery on one request: in two tabs of one session, and in one tab *)
(* across two v1 sessions and a legacy session of an account.                 *)
EXTENDS DesktopRecovery, TLC

CONSTANTS tabA, tabB, s1, s2, s3, account

Accounts == [s \in Session |-> account]

Tabs == Permutations(Tab)
==============================================================================
