----------------------------- MODULE MCSessions -----------------------------
(* Small instances of Sessions: two requests of one tab and one of another.  *)
EXTENDS Sessions, TLC

CONSTANTS t1, t2, c1, c2, c3, b1, b2

MCTabOf == (c1 :> t1) @@ (c2 :> t1) @@ (c3 :> t2)

\* The browsers are interchangeable: the first tab is in b1, and whoever is
\* logged in is so there.
MCInit ==
  /\ Init
  /\ browser[t1] = b1
  /\ storage[b2] = Empty

MCSpec == MCInit /\ [][Next]_vars /\ Fairness
=============================================================================
