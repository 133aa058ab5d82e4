------------------------- MODULE MCMailDecisionRun -------------------------
(* Small instances of MailDecisionRun for TLC.  The run checks liveness, so *)
(* executions are not declared symmetric.                                   *)
EXTENDS MailDecisionRun, TLC
=============================================================================
