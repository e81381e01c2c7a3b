----------------------------- MODULE MCBilling -----------------------------
(* Small instances of Billing: a period of two days, so that a subscription *)
(* left alone for a few days is overdue by more than a period.              *)
EXTENDS Billing, TLC, FiniteSetsExt

P == INSTANCE Pricing

CONSTANTS r1, k1, k2, m1, m2

ReplicaSymmetry == Permutations(Replicas)

\* What the i-th employee costs a month, as the comment of calcSeatsKrw and the tiers say.
ListPrice(plan, i) ==
  CASE i = 1 -> 0
    [] plan = "basic" /\ i \in 2 .. 10 -> 2000
    [] plan = "basic" /\ i \in 11 .. 30 -> 1500
    [] plan = "pro" /\ i \in 2 .. 30 -> 2000
    [] plan = "pro" /\ i \in 31 .. 50 -> 1500
    [] plan = "pro" /\ i \in 51 .. 100 -> 1000
    [] OTHER -> 0

\* calcSeatsKrw adds up the prices of the employees one by one.
ASSUME SeatsAsListed ==
  \A plan \in P!PlanNames, employees \in 0 .. 120 :
    P!calcSeatsKrw(plan, employees)
      = MapThenSumSet(LAMBDA i : ListPrice(plan, i), 1 .. employees)
=============================================================================
