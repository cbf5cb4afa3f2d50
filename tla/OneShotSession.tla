--------------------------- MODULE OneShotSession ---------------------------
(***************************************************************************)
(* What POST /executors/{id}/execute promises about an execution session,  *)
(* without transactions, locks or an event loop.  A session is created     *)
(* open; a submission claims it; the claim is either released (the relay   *)
(* failed and the operator may retry) or completed, once, with the result  *)
(* of exactly one submission; the row is reaped only while nobody has it   *)
(* claimed.  ExecutionSessions is shown to implement this module.          *)
(***************************************************************************)
CONSTANTS Sessions, Requests

VARIABLES status,   \* Sessions -> Status
          results   \* Sessions -> the submissions whose result was recorded

avars == <<status, results>>

Status == {"absent", "open", "claimed", "done", "deleted"}

\* The life of a session row, one edge per promise.
Legal == { <<"absent", "open">>,      \* create
           <<"open", "claimed">>,     \* a submission claims it
           <<"claimed", "open">>,     \* its relay failed: retryable again
           <<"claimed", "done">>,     \* its result is recorded
           <<"open", "deleted">>,     \* the time-to-live sweep
           <<"done", "deleted">> }

AbsInit == /\ status = [s \in Sessions |-> "absent"]
           /\ results = [s \in Sessions |-> {}]

\* One session's part of a step: a result appears exactly when the session
\* is completed, and it is the only one.
SessionStep(s) ==
    \/ status'[s] = status[s] /\ results'[s] = results[s]
    \/ /\ <<status[s], status'[s]>> \in Legal
       /\ IF <<status[s], status'[s]>> = <<"claimed", "done">>
          THEN results[s] = {} /\ \E r \in Requests : results'[s] = {r}
          ELSE results'[s] = results[s]

\* A sweep or a crash moves several sessions at once.
AbsNext == /\ status' \in [Sessions -> Status]
           /\ results' \in [Sessions -> SUBSET Requests]
           /\ \A s \in Sessions : SessionStep(s)

AbsSpec == AbsInit /\ [][AbsNext]_avars
=============================================================================
