------------------------ MODULE MCExecutionSessions ------------------------
(***************************************************************************)
(* ExecutionSessions for TLC: one session, and two submissions of it, which*)
(* are enough to collide on the row lock and for one to retry what the     *)
(* other failed.  The proofs are for any number of either.                 *)
(***************************************************************************)
EXTENDS ExecutionSessions

CONSTANTS s1, r1, r2

OneSession  == {s1}
TwoRequests == {r1, r2}

=============================================================================
