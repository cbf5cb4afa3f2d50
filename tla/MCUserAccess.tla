---------------------------- MODULE MCUserAccess ----------------------------
(***************************************************************************)
(* UserAccess for TLC.  The durations keep the order of the shipped ones:  *)
(* the token outlives neither the idle deadline nor the cap, and the clock *)
(* runs past the last session's cap and tolerance.                         *)
(***************************************************************************)
EXTENDS UserAccess

CONSTANTS s1, c1, c2

OneSession    == {s1}
TwoCeremonies == {c1, c2}

=============================================================================
