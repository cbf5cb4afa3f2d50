----------------------------- MODULE MCIdentity -----------------------------
(***************************************************************************)
(* Identity for TLC: an administrator to be and a second user, a key each, *)
(* a token and a ceremony at a time.  Names of one kind may be swapped.    *)
(***************************************************************************)
EXTENDS Identity, TLC

CONSTANTS u1, u2, k1, k2, t1, c1, r1, r2

TwoUsers   == {u1, u2}
TwoKeys    == {k1, k2}
OneToken   == {t1}
OneChal    == {c1}
TwoRoles   == {r1, r2}
Symmetry   == Permutations(Users) \cup Permutations(Keys) \cup Permutations(Tokens)
                \cup Permutations(Chals) \cup Permutations(Roles)

=============================================================================
