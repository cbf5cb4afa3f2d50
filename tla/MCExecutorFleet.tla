--------------------------- MODULE MCExecutorFleet ---------------------------
(***************************************************************************)
(* ExecutorFleet for TLC: enough tokens to enroll, and certificates for an *)
(* enrollment and a rotation whose answer is lost or applied.              *)
(***************************************************************************)
EXTENDS ExecutorFleet

CONSTANTS t1, t2

OneToken  == {t1}
TwoTokens == {t1, t2}

=============================================================================
