---------------------------- MODULE MCAdminCerts ----------------------------
(***************************************************************************)
(* AdminCerts for TLC: three certificates, a person, a CA that is made     *)
(* twice.                                                                  *)
(***************************************************************************)
EXTENDS AdminCerts, TLC

CONSTANTS u1, s1, s2, s3

OneUser      == {u1}
ThreeSerials == {s1, s2, s3}

SomeCuts == {[need |-> 2, of |-> 3], [need |-> 2, of |-> 4], [need |-> 3, of |-> 4]}

Symmetry     == Permutations(Users) \cup Permutations(Serials)

=============================================================================
