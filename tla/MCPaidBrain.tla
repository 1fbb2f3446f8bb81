---------------------------- MODULE MCPaidBrain ----------------------------
(* The instance of PaidBrain that TLC checks. *)
EXTENDS PaidBrain

\* The first revision of the TASK artifact fits the grant, the second does not.
MCTokens == <<1, 2>>
=============================================================================
