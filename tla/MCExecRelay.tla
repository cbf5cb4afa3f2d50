---------------------------- MODULE MCExecRelay ----------------------------
(***************************************************************************)
(* ExecRelay for TLC: one session, so that every second submission is a    *)
(* retry of the first, and one permit (the shipped default), so that the   *)
(* retry queues behind the run it retries.                                 *)
(***************************************************************************)
EXTENDS ExecRelay, TLC

CONSTANTS s1, r1, r2

OneSession  == {s1}
OneRequest  == {r1}
TwoRequests == {r1, r2}

\* Submissions are interchangeable.
RequestSymmetry == Permutations(TwoRequests)

\* No guard and no property of the path reads the audit trail.
PathView == <<row, lapsed, claim, loop, doomed, target, pc, standing,
              lvars, evars, secret, bound, events>>

=============================================================================
