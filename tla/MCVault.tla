------------------------------- MODULE MCVault -------------------------------
(***************************************************************************)
(* Vault for TLC: two processes that start together, two users with rows   *)
(* of one name.                                                            *)
(***************************************************************************)
EXTENDS Vault, TLC

CONSTANTS p1, p2, u1, u2, r1, v1, v2, f1, f2

TwoProcs   == {p1, p2}
TwoUsers   == {u1, u2}
OneRole    == {r1}
TwoVers    == {v1, v2}
TwoPhrases == {f1, f2}
Symmetry   == Permutations(Procs) \cup Permutations(Users) \cup Permutations(Vers)
                \cup Permutations(Phrases)

=============================================================================
