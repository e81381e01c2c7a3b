----------------------------- MODULE MCCredits -----------------------------
(* Small instances of Credits.  The costs are those of the source; the      *)
(* limit and the grant are scaled down so that the boundary is reached      *)
(* within a few deductions.                                                 *)
EXTENDS Credits, TLC

CONSTANTS c1, c2, u1, u2, r1, r2, r3, k1, k2

OneCompany == [u \in Users |-> c1]
EachTheirOwn == (u1 :> c1) @@ (u2 :> c2)

RequestSymmetry == Permutations(Requests)
=============================================================================
