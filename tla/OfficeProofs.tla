---------------------------- MODULE OfficeProofs ----------------------------
(***************************************************************************)
(* TLAPS proofs about Office, for any identifiers, people, handlers and    *)
(* limits.  Each service has an inductive invariant of two parts: what     *)
(* holds however handlers interleave, and what holds as long as they do    *)
(* not overlap.  The second part says that nobody else is at work and that *)
(* what the handler at work has read still holds: this is what the steps   *)
(* between two awaits rely on.  The theorems are at the end.               *)
(***************************************************************************)
EXTENDS Office, FiniteSets, TLAPS, FiniteSetTheorems, WellFoundedInduction

\* Without overlap one handler is at work at most.
Alone == ~overlapped => \A g, h \in Handlers : pc[g] # "idle" /\ pc[h] # "idle" => g = h
\* Nobody but h is at work.
OnlyMe(h) == \A g \in Handlers \ {h} : pc[g] = "idle"

-----------------------------------------------------------------------------
(***************************************************************************)
(* Sums over finite sets, as MapThenSumSet makes them.  What holds of them *)
(* is proved by a smallest counterexample.                                 *)
(***************************************************************************)

\* A nonempty set of natural numbers has a least one.
LEMMA HasLeast ==
  ASSUME NEW S, S \subseteq Nat, S # {}
  PROVE  \E n \in S : \A m \in S : n <= m
<1>1. PICK n \in S : \A m \in S : <<m, n>> \notin OpToRel(<, Nat)
  BY NatLessThanWellFounded, WFMin
<1>2. \A m \in S : ~(m < n)
  BY <1>1 DEF OpToRel
<1> QED
  BY <1>2

AnyOf(s) == CHOOSE x \in s : TRUE

\* G[s] is the sum of F[x] over the x of s, for the subsets s of D.
Adds(G, F, D) == G = [s \in D |-> IF s = {} THEN 0 ELSE F[AnyOf(s)] + G[s \ {AnyOf(s)}]]

Small(S, n) == {s \in SUBSET S : Cardinality(s) <= n}

\* What is left of a finite set.
LEMMA Rest ==
  ASSUME NEW S, IsFiniteSet(S), NEW s \in SUBSET S, NEW x \in s
  PROVE  /\ IsFiniteSet(s) /\ Cardinality(s) \in Nat \ {0}
         /\ s \ {x} \in SUBSET S /\ Cardinality(s \ {x}) = Cardinality(s) - 1
<1>1. IsFiniteSet(s)
  BY FS_Subset
<1>2. Cardinality(s) \in Nat /\ Cardinality(s \ {x}) = Cardinality(s) - 1
  BY <1>1, FS_CardinalityType, FS_RemoveElement
<1>3. Cardinality(s) # 0
  BY <1>1, FS_EmptySet
<1> QED
  BY <1>1, <1>2, <1>3

\* A smallest subset of which something is false, when it is false of one.
LEMMA Smallest ==
  ASSUME NEW S, IsFiniteSet(S), NEW Bad, Bad \subseteq SUBSET S, Bad # {}
  PROVE  \E s \in Bad : \A t \in SUBSET S : Cardinality(t) < Cardinality(s) => t \notin Bad
<1> DEFINE sizes == {Cardinality(s) : s \in Bad}
<1>1. \A s \in SUBSET S : Cardinality(s) \in Nat
  BY FS_Subset, FS_CardinalityType
<1>2. sizes \subseteq Nat /\ sizes # {}
  BY <1>1
<1> HIDE DEF sizes
<1>3. PICK n \in sizes : \A m \in sizes : n <= m
  BY <1>2, HasLeast
<1> USE DEF sizes
<1>4. PICK s \in Bad : Cardinality(s) = n
  BY <1>3
<1>5. \A t \in Bad : n <= Cardinality(t)
  BY <1>3
<1> QED
  BY <1>1, <1>4, <1>5

LEMMA SumExists ==
  ASSUME NEW S, IsFiniteSet(S), NEW F, \A x \in S : F[x] \in Nat
  PROVE  \E G : Adds(G, F, SUBSET S)
<1> DEFINE Done(n) == \E G \in [Small(S, n) -> Nat] : Adds(G, F, Small(S, n))
           bad == {n \in Nat : ~Done(n)}
<1>0. \A s \in SUBSET S :
        IsFiniteSet(s) /\ Cardinality(s) \in Nat /\ Cardinality(s) <= Cardinality(S)
  BY FS_Subset, FS_CardinalityType
<1>1. Done(0)
  <2> DEFINE G == [s \in Small(S, 0) |-> 0]
  <2>1. \A s \in Small(S, 0) : s = {}
    BY <1>0, FS_EmptySet DEF Small
  <2>2. Adds(G, F, Small(S, 0))
    BY <2>1 DEF Adds
  <2> QED
    BY <2>2
<1>2. ASSUME NEW n \in Nat, Done(n)
      PROVE  Done(n + 1)
  <2>1. PICK G \in [Small(S, n) -> Nat] : Adds(G, F, Small(S, n))
    BY <1>2
  <2> DEFINE H == [s \in Small(S, n + 1) |-> IF s = {} THEN 0 ELSE F[AnyOf(s)] + G[s \ {AnyOf(s)}]]
  <2>2. ASSUME NEW s \in Small(S, n + 1), s # {}
        PROVE  AnyOf(s) \in s /\ s \ {AnyOf(s)} \in Small(S, n)
    <3>1. AnyOf(s) \in s /\ s \in SUBSET S /\ Cardinality(s) <= n + 1
      BY <2>2 DEF AnyOf, Small
    <3>2. /\ Cardinality(s) \in Nat \ {0} /\ s \ {AnyOf(s)} \in SUBSET S
          /\ Cardinality(s \ {AnyOf(s)}) = Cardinality(s) - 1
      BY <3>1, Rest
    <3> QED
      BY <3>1, <3>2 DEF Small
  <2>3. H \in [Small(S, n + 1) -> Nat]
    <3>1. ASSUME NEW s \in Small(S, n + 1)
          PROVE  H[s] \in Nat
      <4>1. CASE s = {}
        BY <4>1
      <4>2. CASE s # {}
        <5>1. F[AnyOf(s)] \in Nat /\ G[s \ {AnyOf(s)}] \in Nat
          BY <2>1, <2>2, <4>2 DEF Small
        <5> QED
          BY <4>2, <5>1
      <4> QED
        BY <4>1, <4>2
    <3> QED
      BY <3>1
  <2>4. \A s \in Small(S, n) : s \in Small(S, n + 1) /\ H[s] = G[s]
    <3>1. \A s \in Small(S, n) : s \in Small(S, n + 1)
      BY <1>0 DEF Small
    <3>2. \A s \in Small(S, n) : G[s] = IF s = {} THEN 0 ELSE F[AnyOf(s)] + G[s \ {AnyOf(s)}]
      BY <2>1 DEF Adds
    <3> QED
      BY <3>1, <3>2
  <2>5. Adds(H, F, Small(S, n + 1))
    <3>1. ASSUME NEW s \in Small(S, n + 1)
          PROVE  (IF s = {} THEN 0 ELSE F[AnyOf(s)] + G[s \ {AnyOf(s)}])
                   = IF s = {} THEN 0 ELSE F[AnyOf(s)] + H[s \ {AnyOf(s)}]
      BY <2>2, <2>4
    <3> QED
      BY <3>1 DEF Adds
  <2> QED
    BY <2>3, <2>5
<1>3. bad = {}
  <2> SUFFICES ASSUME bad # {} PROVE FALSE
    OBVIOUS
  <2> HIDE DEF Done
  <2>1. PICK n \in bad : \A m \in bad : n <= m
    BY HasLeast
  <2>2. n \in Nat /\ n # 0 /\ ~Done(n)
    BY <1>1, <2>1
  <2>3. n - 1 \in Nat /\ n - 1 \notin bad /\ (n - 1) + 1 = n
    BY <2>1, <2>2
  <2>4. Done(n - 1)
    BY <2>3
  <2> QED
    BY <1>2, <2>2, <2>3, <2>4
<1>4. Cardinality(S) \in Nat /\ Small(S, Cardinality(S)) = SUBSET S
  BY <1>0, FS_CardinalityType DEF Small
<1>5. Done(Cardinality(S))
  BY <1>3, <1>4
<1> QED
  BY <1>4, <1>5

LEMMA SumTyped ==
  ASSUME NEW S, IsFiniteSet(S), NEW F, \A x \in S : F[x] \in Nat, NEW G, Adds(G, F, SUBSET S)
  PROVE  \A s \in SUBSET S : G[s] \in Nat
<1> DEFINE bad == {s \in SUBSET S : G[s] \notin Nat}
<1> SUFFICES ASSUME bad # {} PROVE FALSE
  OBVIOUS
<1>1. PICK s \in bad : \A t \in SUBSET S : Cardinality(t) < Cardinality(s) => t \notin bad
  BY Smallest, Zenon
<1>2. s # {}
  BY <1>1 DEF Adds
<1>3. AnyOf(s) \in s
  BY <1>2 DEF AnyOf
<1>4. /\ Cardinality(s) \in Nat \ {0} /\ s \ {AnyOf(s)} \in SUBSET S
      /\ Cardinality(s \ {AnyOf(s)}) = Cardinality(s) - 1
  BY <1>3, Rest
<1>5. G[s \ {AnyOf(s)}] \in Nat
  BY <1>1, <1>4
<1>6. G[s] = F[AnyOf(s)] + G[s \ {AnyOf(s)}]
  BY <1>1, <1>2 DEF Adds
<1> QED
  BY <1>1, <1>3, <1>5, <1>6

\* G adds up the natural numbers F[x] of a finite set.
Summing(G, F, S) == IsFiniteSet(S) /\ (\A x \in S : F[x] \in Nat) /\ Adds(G, F, SUBSET S)

\* The order does not matter: any element can be taken out first.
LEMMA SumSplits ==
  ASSUME NEW S, NEW F, NEW G, Summing(G, F, S),
         NEW U \in SUBSET S, NEW z \in U
  PROVE  G[U] = F[z] + G[U \ {z}]
<1> DEFINE bad == {s \in SUBSET S : \E x \in s : G[s] # F[x] + G[s \ {x}]}
<1> USE DEF Summing
<1> SUFFICES ASSUME bad # {} PROVE FALSE
  OBVIOUS
<1>1. PICK s \in bad : \A t \in SUBSET S : Cardinality(t) < Cardinality(s) => t \notin bad
  <2>1. bad \subseteq SUBSET S
    OBVIOUS
  <2> HIDE DEF bad
  <2> QED
    BY <2>1, Smallest
<1>2. PICK x \in s : G[s] # F[x] + G[s \ {x}]
  BY <1>1
<1> DEFINE y == AnyOf(s)
<1>3. y \in s
  BY <1>2 DEF AnyOf
<1>4. G[s] = F[y] + G[s \ {y}]
  BY <1>1, <1>3 DEF Adds
<1> HIDE DEF y
<1>5. x # y
  BY <1>2, <1>4
<1>6. /\ Cardinality(s) \in Nat \ {0}
      /\ s \ {y} \in SUBSET S /\ Cardinality(s \ {y}) = Cardinality(s) - 1
      /\ s \ {x} \in SUBSET S /\ Cardinality(s \ {x}) = Cardinality(s) - 1
  BY <1>3, Rest
<1> HIDE DEF bad
<1>7. s \ {y} \notin bad /\ s \ {x} \notin bad
  BY <1>1, <1>6
<1> USE DEF bad
<1>8. G[s \ {y}] = F[x] + G[(s \ {y}) \ {x}]
  BY <1>5, <1>6, <1>7
<1>9. G[s \ {x}] = F[y] + G[(s \ {x}) \ {y}]
  BY <1>3, <1>5, <1>6, <1>7
<1>10. (s \ {x}) \ {y} = (s \ {y}) \ {x} /\ (s \ {y}) \ {x} \in SUBSET S
  OBVIOUS
<1>11. F[x] \in Nat /\ F[y] \in Nat /\ G[(s \ {y}) \ {x}] \in Nat
  BY <1>3, <1>10, SumTyped
<1>12. G[s] = F[x] + G[s \ {x}]
  <2>1. \A a, b, c \in Nat : a + (b + c) = b + (a + c)
    OBVIOUS
  <2>2. G[s] = F[y] + (F[x] + G[(s \ {y}) \ {x}])
    BY <1>4, <1>8, Zenon
  <2>3. G[s \ {x}] = F[y] + G[(s \ {y}) \ {x}]
    BY <1>9, <1>10, Zenon
  <2>4. F[y] + (F[x] + G[(s \ {y}) \ {x}]) = F[x] + (F[y] + G[(s \ {y}) \ {x}])
    BY <1>11, <2>1
  <2> QED
    BY <2>2, <2>3, <2>4, Zenon
<1> QED
  BY <1>2, <1>12

\* The sum depends on the summands only.
LEMMA SumSame ==
  ASSUME NEW S, NEW F, NEW G, Summing(G, F, S), NEW T, NEW E, NEW H, Summing(H, E, T),
         S \in SUBSET T, \A x \in S : F[x] = E[x]
  PROVE  G[S] = H[S]
<1> DEFINE bad == {s \in SUBSET S : G[s] # H[s]}
<1> USE DEF Summing
<1> SUFFICES ASSUME bad # {} PROVE FALSE
  OBVIOUS
<1>1. PICK s \in bad : \A t \in SUBSET S : Cardinality(t) < Cardinality(s) => t \notin bad
  <2>1. bad \subseteq SUBSET S
    OBVIOUS
  <2> HIDE DEF bad
  <2> QED
    BY <2>1, Smallest
<1>2. s # {} /\ s \in SUBSET S /\ s \in SUBSET T
  BY <1>1 DEF Adds
<1> DEFINE y == AnyOf(s)
<1>3. y \in s
  BY <1>2 DEF AnyOf
<1>4. G[s] = F[y] + G[s \ {y}] /\ H[s] = E[y] + H[s \ {y}]
  BY <1>2 DEF Adds
<1>5. /\ Cardinality(s) \in Nat \ {0} /\ s \ {y} \in SUBSET S
      /\ Cardinality(s \ {y}) = Cardinality(s) - 1
  BY <1>3, Rest
<1>6. G[s \ {y}] = H[s \ {y}]
  BY <1>1, <1>5
<1> QED
  BY <1>1, <1>3, <1>4, <1>6

\* One more summand.
LEMMA SumMore ==
  ASSUME NEW S, NEW F, NEW G, Summing(G, F, S), NEW m, m \notin S,
         NEW T, T = S \cup {m}, NEW E, NEW H, Summing(H, E, T), \A x \in S : F[x] = E[x]
  PROVE  H[T] = G[S] + E[m]
<1>1. S \in SUBSET T /\ S \in SUBSET S /\ T \in SUBSET T /\ m \in T /\ T \ {m} = S
  OBVIOUS
<1>2. G[S] \in Nat /\ E[m] \in Nat
  BY <1>1, SumTyped DEF Summing
<1>3. G[S] = H[S]
  BY <1>1, SumSame
<1>4. H[T] = E[m] + H[T \ {m}]
  BY ONLY <1>1, SumSplits, Summing(H, E, T)
<1>5. \A a, b \in Nat : a + b = b + a
  OBVIOUS
<1> QED
  BY <1>1, <1>2, <1>3, <1>4, <1>5
-----------------------------------------------------------------------------
(***************************************************************************)
(* saves. What a handler holds while it saves a row: the entity and the    *)
(* columns of the UPDATE.                                                  *)
(***************************************************************************)
\* Only the columns change when they have been compared.
LEMMA ColumnsSet ==
  ASSUME NEW Rows, NEW Columns, NEW held \in [row : Rows, cols : Columns], NEW cols
  PROVE  /\ [held EXCEPT !.cols = cols] = [row |-> held.row, cols |-> cols]
         /\ held.row \in Rows /\ held.cols \in Columns
  OBVIOUS
-----------------------------------------------------------------------------
(***************************************************************************)
(* vacations. An approval counts its days in statements of their own, so   *)
(* the balance is compared with the approved leaves through the handler    *)
(* that has not finished counting.                                         *)
(***************************************************************************)
\* What is assumed of the constants.
LEMMA LeaveGiven == Vacations!DaysAssumption /\ Vacations!NoneAssumption
  BY OfficeAssumption

\* What a handler may hold.
LeaveLocals ==
  [id : VacationIds \cup {None}, req : Vacations!Requests, delta : Int, bal : Vacations!Balances]
\* Steps before a request is written.
LeaveAnswering == {"creating", "approving", "rejecting", "cancelling", "removing"}
\* Steps before the balance is written.
LeaveCounting == {"counting", "counted"}

\* The days of the leaves that were counted.
LeaveCountedIn(reqs) == {q \in VacationIds : Vacations!WasCounted(reqs[q])}
\* The sum of their days.
LeaveTaken(reqs) == Vacations!MapThenSumSet(LAMBDA q : reqs[q].days, LeaveCountedIn(reqs))

\* A handler that will write a request knows which.
LeaveHeld(h) ==
  /\ pc[h] \in LeaveAnswering => local[h].id \in VacationIds
  /\ pc[h] = "creating" => local[h].req.status = "pending"

\* What holds however handlers interleave.
LeaveInv ==
  /\ Vacations!TypeOK
  /\ IsFiniteSet(LeaveCountedIn(requests))
  /\ \A h \in Handlers : LeaveHeld(h)

\* Only requests that were made are deleted.
LeaveClean == \A q \in VacationIds : requests[q].deleted => requests[q].status # "none"
\* What was used is what is counted, or the one who counts is at work.
LeaveBalanced == crashes = 0 =>
  balance.used = LeaveTaken(requests) \/ \E h \in Handlers : pc[h] \in LeaveCounting

\* When handlers do not overlap, what the one at work has read still holds.
LeaveInHand(h) ==
  /\ \A q \in VacationIds : local[h].id = q =>
       /\ pc[h] = "creating" => requests[q].status = "none" /\ ~local[h].req.deleted
       /\ pc[h] \in LeaveAnswering \ {"creating"} => Vacations!Exists(q)
       /\ pc[h] \in {"approving", "rejecting", "cancelling"} => local[h].req = requests[q]
       /\ pc[h] \in {"approving", "rejecting"} => requests[q].status = "pending"
  /\ pc[h] \in {"counted", "setting"} => local[h].bal = balance
  /\ pc[h] \in LeaveCounting /\ crashes = 0 => balance.used + local[h].delta = LeaveTaken(requests)

\* What holds as long as they do not overlap.
LeaveSoloInv == /\ Alone
                /\ (~overlapped => LeaveClean /\ LeaveBalanced /\ \A h \in Handlers : LeaveInHand(h))

\* What a step of handlers that do not overlap may do to a request.
LeaveDecided ==
  \A q \in VacationIds :
    /\ requests'[q].status # requests[q].status =>
         \/ requests[q].status \in {"none", "pending"}
         \/ requests'[q].status = "cancelled"
    /\ requests[q].deleted => requests'[q] = requests[q]

\* What a step of h does: it keeps the invariant, as long as h is alone all of
\* it.
LeaveKept(h) ==
  /\ requests' \in [VacationIds -> Vacations!Requests] /\ balance' \in Vacations!Balances
  /\ crashes' \in 0 .. MaxCrashes
  /\ IsFiniteSet(LeaveCountedIn(requests)')
  /\ pc' \in [Handlers -> Vacations!Steps] /\ local' \in [Handlers -> LeaveLocals]
  /\ LeaveHeld(h)'
  /\ \A g \in Handlers \ {h} : pc'[g] = pc[g] /\ local'[g] = local[g]
  /\ OnlyMe(h) /\ LeaveClean /\ LeaveBalanced /\ LeaveInHand(h) =>
       LeaveClean' /\ LeaveBalanced' /\ LeaveInHand(h)' /\ LeaveDecided

-----------------------------------------------------------------------------
\* A request has a number of days.
LEMMA LeaveDaysCount == \A row \in Vacations!Requests : row.days \in Nat
<1>1. Days \cup {0} \subseteq Nat
  BY LeaveGiven DEF Vacations!DaysAssumption
<1> QED
  BY <1>1 DEF Vacations!Requests

\* The sum in the next state.
LEMMA LeaveTakenPrimed == LeaveTaken(requests)' = LeaveTaken(requests')
  BY DEF LeaveTaken, LeaveCountedIn, Vacations!MapThenSumSet, Vacations!MapThenFoldSet

\* The counted leaves in the next state.
LEMMA LeaveCountedPrimed == LeaveCountedIn(requests)' = LeaveCountedIn(requests')
  BY DEF LeaveCountedIn

\* The sum of the days is one of the sums over the counted leaves.
LEMMA LeaveTakenSums ==
  ASSUME NEW reqs \in [VacationIds -> Vacations!Requests], IsFiniteSet(LeaveCountedIn(reqs))
  PROVE  \E G : /\ Summing(G, [q \in VacationIds |-> reqs[q].days], LeaveCountedIn(reqs))
                /\ LeaveTaken(reqs) = G[LeaveCountedIn(reqs)]
<1> DEFINE S == LeaveCountedIn(reqs)
           F == [q \in VacationIds |-> reqs[q].days]
<1>1. \A q \in S : q \in VacationIds /\ F[q] = reqs[q].days /\ F[q] \in Nat
  BY LeaveDaysCount DEF LeaveCountedIn
<1>2. LeaveTaken(reqs) = (CHOOSE g : g = [s \in SUBSET S |->
                    IF s = {} THEN 0 ELSE reqs[CHOOSE x \in s : TRUE].days + g[s \ {CHOOSE x \in s : TRUE}]])[S]
  BY DEF LeaveTaken, Vacations!MapThenSumSet, Vacations!MapThenFoldSet
<1> HIDE DEF F
<1>3. ASSUME NEW g
      PROVE  Adds(g, F, SUBSET S) <=> g = [s \in SUBSET S |->
               IF s = {} THEN 0 ELSE reqs[CHOOSE x \in s : TRUE].days + g[s \ {CHOOSE x \in s : TRUE}]]
  <2>1. ASSUME NEW s \in SUBSET S
        PROVE  (IF s = {} THEN 0 ELSE F[CHOOSE x \in s : TRUE] + g[s \ {CHOOSE x \in s : TRUE}])
               = IF s = {} THEN 0 ELSE reqs[CHOOSE x \in s : TRUE].days + g[s \ {CHOOSE x \in s : TRUE}]
    <3>1. CASE s = {}
      BY <3>1
    <3>2. CASE s # {}
      <4>1. (CHOOSE x \in s : TRUE) \in s
        BY <3>2
      <4> QED
        BY <1>1, <4>1
    <3> QED
      BY <3>1, <3>2
  <2> QED
    BY <2>1 DEF Adds, AnyOf
<1>4. \E G : Adds(G, F, SUBSET S)
  BY <1>1, SumExists
<1>5. PICK G : Adds(G, F, SUBSET S)
  BY <1>4
<1>6. G = [s \in SUBSET S |->
             IF s = {} THEN 0 ELSE reqs[CHOOSE x \in s : TRUE].days + G[s \ {CHOOSE x \in s : TRUE}]]
  BY <1>3, <1>5, Zenon
<1> DEFINE C == CHOOSE g : g = [s \in SUBSET S |->
             IF s = {} THEN 0 ELSE reqs[CHOOSE x \in s : TRUE].days + g[s \ {CHOOSE x \in s : TRUE}]]
<1>7. C = [s \in SUBSET S |->
             IF s = {} THEN 0 ELSE reqs[CHOOSE x \in s : TRUE].days + C[s \ {CHOOSE x \in s : TRUE}]]
  BY <1>6, Zenon
<1>8. LeaveTaken(reqs) = C[S]
  BY <1>2, Zenon
<1> HIDE DEF C
<1>9. Adds(C, F, SUBSET S)
  BY <1>3, <1>7, Zenon
<1> QED
  BY <1>1, <1>8, <1>9 DEF F, Summing

\* The sum is a number.
LEMMA LeaveTakenTyped ==
  ASSUME NEW reqs \in [VacationIds -> Vacations!Requests], IsFiniteSet(LeaveCountedIn(reqs))
  PROVE  LeaveTaken(reqs) \in Nat
<1> DEFINE S == LeaveCountedIn(reqs)
           F == [q \in VacationIds |-> reqs[q].days]
<1>1. PICK G : Summing(G, F, S) /\ LeaveTaken(reqs) = G[S]
  BY LeaveTakenSums
<1> HIDE DEF F, S
<1> QED
  BY <1>1, SumTyped DEF Summing

\* Nothing else than the counted leaves matters.
LEMMA LeaveTakenSame ==
  ASSUME NEW old \in [VacationIds -> Vacations!Requests],
         NEW new \in [VacationIds -> Vacations!Requests], IsFiniteSet(LeaveCountedIn(old)),
         LeaveCountedIn(new) = LeaveCountedIn(old),
         \A q \in LeaveCountedIn(old) : new[q].days = old[q].days
  PROVE  LeaveTaken(new) = LeaveTaken(old)
<1> DEFINE S == LeaveCountedIn(old)
           F == [q \in VacationIds |-> old[q].days]
           E == [q \in VacationIds |-> new[q].days]
<1>1. S \in SUBSET S /\ \A q \in S : F[q] = E[q]
  BY DEF LeaveCountedIn
<1>2. PICK G : Summing(G, F, S) /\ LeaveTaken(old) = G[S]
  BY LeaveTakenSums
<1>3. PICK H : Summing(H, E, S) /\ LeaveTaken(new) = H[S]
  BY LeaveTakenSums
<1> HIDE DEF F, E, S
<1> QED
  BY <1>1, <1>2, <1>3, SumSame

\* One more leave is counted.
LEMMA LeaveTakenMore ==
  ASSUME NEW old \in [VacationIds -> Vacations!Requests],
         NEW new \in [VacationIds -> Vacations!Requests], IsFiniteSet(LeaveCountedIn(old)),
         NEW m \in VacationIds, m \notin LeaveCountedIn(old),
         LeaveCountedIn(new) = LeaveCountedIn(old) \cup {m},
         \A q \in LeaveCountedIn(old) : new[q].days = old[q].days
  PROVE  LeaveTaken(new) = LeaveTaken(old) + new[m].days
<1> DEFINE S == LeaveCountedIn(old)
           T == LeaveCountedIn(new)
           F == [q \in VacationIds |-> old[q].days]
           E == [q \in VacationIds |-> new[q].days]
<1>1. m \notin S /\ T = S \cup {m} /\ E[m] = new[m].days /\ \A q \in S : F[q] = E[q]
  BY DEF LeaveCountedIn
<1>2. PICK G : Summing(G, F, S) /\ LeaveTaken(old) = G[S]
  BY LeaveTakenSums
<1>3. IsFiniteSet(T)
  BY FS_AddElement
<1>4. PICK H : Summing(H, E, T) /\ LeaveTaken(new) = H[T]
  BY <1>3, LeaveTakenSums
<1> HIDE DEF F, E, S, T
<1>5. H[T] = G[S] + E[m]
  BY <1>1, <1>2, <1>4, SumMore
<1> QED
  BY <1>1, <1>2, <1>4, <1>5

-----------------------------------------------------------------------------
\* What is held at rest, and in a row that is not there, is typed.
LEMMA LeaveEmpty == /\ Vacations!NoRequest \in Vacations!Requests
                    /\ Vacations!NoBalance \in Vacations!Balances
                    /\ Vacations!NoLocal \in LeaveLocals
  BY DEF Vacations!NoRequest, Vacations!Requests, Vacations!Statuses, Vacations!Kinds,
     Vacations!NoBalance, Vacations!Balances, Vacations!NoLocal, LeaveLocals

\* The initial states have the invariant.
LEMMA LeaveInitHolds == Vacations!Init => LeaveInv /\ LeaveSoloInv
<1> SUFFICES ASSUME Vacations!Init PROVE LeaveInv /\ LeaveSoloInv
  OBVIOUS
<1>1. /\ overlapped = FALSE /\ \A h \in Handlers : pc[h] = "idle" /\ local[h] = Vacations!NoLocal
      /\ \A q \in VacationIds : requests[q] = Vacations!NoRequest
  BY DEF Vacations!Init, Vacations!AllIdle
<1>2. overlapped \in BOOLEAN
  BY <1>1, Zenon
<1>3. Vacations!TypeOK
  BY <1>2, LeaveEmpty, LeaveGiven DEF Vacations!Init, Vacations!AllIdle, Vacations!TypeOK,
     Vacations!Steps, LeaveLocals, Vacations!DaysAssumption
<1>4. LeaveCountedIn(requests) = {}
  BY <1>1 DEF LeaveCountedIn, Vacations!WasCounted, Vacations!NoRequest
<1>5. IsFiniteSet(LeaveCountedIn(requests))
  BY <1>4, FS_EmptySet
<1>6. LeaveTaken(requests) = 0
  <2>1. PICK G : Summing(G, [q \in VacationIds |-> requests[q].days], LeaveCountedIn(requests))
                 /\ LeaveTaken(requests) = G[LeaveCountedIn(requests)]
    BY <1>3, <1>5, LeaveTakenSums DEF Vacations!TypeOK
  <2> QED
    BY <1>4, <2>1 DEF Summing, Adds
<1>7. LeaveClean /\ LeaveBalanced
  BY <1>1, <1>6 DEF LeaveClean, LeaveBalanced, Vacations!NoRequest, Vacations!Init,
     Vacations!NoBalance
<1>8. \A h \in Handlers : LeaveInHand(h)
  BY <1>1 DEF LeaveInHand, LeaveAnswering, LeaveCounting
<1> QED
  BY <1>1, <1>3, <1>5, <1>7, <1>8 DEF LeaveInv, LeaveSoloInv, Alone, Vacations!InFlight, LeaveHeld,
     LeaveAnswering

\* A handler that goes on takes what it has read with it; the others stay.
LEMMA LeaveMoved ==
  ASSUME LeaveInv, NEW h \in Handlers, NEW step \in Vacations!Steps, NEW read \in LeaveLocals,
         Vacations!Goto(h, step), local' = [local EXCEPT ![h] = read]
  PROVE  /\ pc' \in [Handlers -> Vacations!Steps] /\ local' \in [Handlers -> LeaveLocals]
         /\ pc'[h] = step /\ local'[h] = read
         /\ \A g \in Handlers \ {h} : pc'[g] = pc[g] /\ local'[g] = local[g]
  BY DEF LeaveInv, Vacations!TypeOK, Vacations!Goto, LeaveLocals

\* A handler that returns holds nothing; the others stay.
LEMMA LeaveReturned ==
  ASSUME LeaveInv, NEW h \in Handlers, Vacations!Return(h)
  PROVE  /\ pc' \in [Handlers -> Vacations!Steps] /\ local' \in [Handlers -> LeaveLocals]
         /\ LeaveHeld(h)' /\ LeaveInHand(h)' /\ pc'[h] = "idle" /\ local'[h] = Vacations!NoLocal
         /\ \A g \in Handlers \ {h} : pc'[g] = pc[g] /\ local'[g] = local[g]
<1>1. /\ pc' \in [Handlers -> Vacations!Steps] /\ local' \in [Handlers -> LeaveLocals]
      /\ pc'[h] = "idle"
      /\ local'[h] = Vacations!NoLocal
      /\ \A g \in Handlers \ {h} : pc'[g] = pc[g] /\ local'[g] = local[g]
  BY LeaveMoved, LeaveEmpty DEF Vacations!Return, Vacations!Hold, Vacations!Steps
<1>2. LeaveHeld(h)' /\ LeaveInHand(h)'
  BY <1>1 DEF LeaveHeld, LeaveInHand, LeaveAnswering, LeaveCounting
<1> QED
  BY <1>1, <1>2

\* Nobody is counting: what was used is what is counted.
LEMMA LeaveSettled ==
  ASSUME NEW h \in Handlers, OnlyMe(h), LeaveBalanced, pc[h] \notin LeaveCounting, crashes = 0
  PROVE  balance.used = LeaveTaken(requests)
  BY DEF OnlyMe, LeaveBalanced, LeaveCounting

\* Nothing is written.
LEMMA LeaveReadsKeep ==
  ASSUME LeaveInv, NEW h \in Handlers, requests' = requests, balance' = balance,
         pc[h] = "idle", crashes' = crashes, NEW step \in Vacations!Steps \ LeaveCounting,
         NEW read \in LeaveLocals,
         Vacations!Goto(h, step), local' = [local EXCEPT ![h] = read],
         step \in LeaveAnswering => read.id \in VacationIds,
         step = "creating" => read.req.status = "pending",
         \A q \in VacationIds : read.id = q =>
           /\ step = "creating" => requests[q].status = "none" /\ ~read.req.deleted
           /\ step \in LeaveAnswering \ {"creating"} => Vacations!Exists(q)
           /\ step \in {"approving", "rejecting", "cancelling"} => read.req = requests[q]
           /\ step \in {"approving", "rejecting"} => requests[q].status = "pending",
         step = "setting" => read.bal = balance
  PROVE  LeaveKept(h)
<1>0. requests' = requests /\ balance' = balance /\ LeaveTaken(requests)' = LeaveTaken(requests)
      /\ LeaveCountedIn(requests)' = LeaveCountedIn(requests)
  BY LeaveTakenPrimed, LeaveCountedPrimed
<1>1. /\ pc' \in [Handlers -> Vacations!Steps] /\ local' \in [Handlers -> LeaveLocals]
      /\ pc'[h] = step /\ local'[h] = read
      /\ \A g \in Handlers \ {h} : pc'[g] = pc[g] /\ local'[g] = local[g]
  BY LeaveMoved
<1>2. LeaveInHand(h)'
  BY <1>0, <1>1 DEF LeaveInHand, Vacations!Exists, LeaveCounting
<1>3. ASSUME OnlyMe(h), LeaveClean, LeaveBalanced
      PROVE  LeaveClean' /\ LeaveBalanced' /\ LeaveDecided
  BY <1>0, <1>3, LeaveSettled DEF LeaveClean, LeaveBalanced, LeaveDecided, LeaveCounting
<1> QED
  BY <1>0, <1>1, <1>2, <1>3 DEF LeaveKept, LeaveInv, Vacations!TypeOK, LeaveHeld, LeaveAnswering

\* Handlers that read a request.
LEMMA LeaveBeginsKeep ==
  ASSUME LeaveInv, NEW h \in Handlers,
         \/ \E q \in VacationIds : \/ \E kind \in Vacations!Kinds, n \in Days : Vacations!Create(h, q, kind, n)
                                   \/ Vacations!Approve(h, q) \/ Vacations!Reject(h, q)
                                   \/ Vacations!Cancel(h, q) \/ Vacations!Remove(h, q)
         \/ Vacations!SetBalance(h)
  PROVE  LeaveKept(h)
<1>0. /\ requests \in [VacationIds -> Vacations!Requests] /\ balance \in Vacations!Balances
      /\ local[h] \in LeaveLocals
      /\ local \in [Handlers -> LeaveLocals]
  BY DEF LeaveInv, Vacations!TypeOK, LeaveLocals
<1>1. ASSUME NEW q \in VacationIds, NEW kind \in Vacations!Kinds, NEW n \in Days, Vacations!Create(h, q, kind, n)
      PROVE  LeaveKept(h)
  <2> DEFINE req == [status |-> "pending", kind |-> kind, days |-> n, deleted |-> FALSE]
             read == [local[h] EXCEPT !.id = q, !.req = req]
  <2>1. req \in Vacations!Requests /\ ~req.deleted /\ req.status = "pending"
    BY DEF Vacations!Requests, Vacations!Statuses
  <2>2. /\ pc[h] = "idle" /\ requests[q].status = "none" /\ Vacations!Goto(h, "creating")
        /\ requests' = requests /\ balance' = balance /\ crashes' = crashes
    BY <1>1 DEF Vacations!Create
  <2>3. local' = [local EXCEPT ![h] = read]
    BY <1>0, <1>1 DEF Vacations!Create
  <2> HIDE DEF req
  <2>4. read \in LeaveLocals /\ read.id = q /\ read.req = req
    BY <1>0, <2>1 DEF LeaveLocals
  <2> HIDE DEF read
  <2> QED
    BY <2>1, <2>2, <2>3, <2>4, LeaveReadsKeep DEF Vacations!Steps, LeaveCounting, LeaveAnswering
<1>2. ASSUME NEW q \in VacationIds, NEW step \in {"approving", "rejecting", "cancelling", "removing"}, Vacations!Find(h, q, step),
             step \in {"approving", "rejecting"} => requests[q].status = "pending"
      PROVE  LeaveKept(h)
  <2> DEFINE read == [local[h] EXCEPT !.id = q, !.req = requests[q]]
  <2>1. /\ pc[h] = "idle" /\ Vacations!Exists(q) /\ Vacations!Goto(h, step)
        /\ requests' = requests /\ balance' = balance /\ crashes' = crashes
    BY <1>2 DEF Vacations!Find
  <2>2. local' = [local EXCEPT ![h] = read]
    BY <1>0, <1>2 DEF Vacations!Find
  <2>3. read \in LeaveLocals /\ read.id = q /\ read.req = requests[q]
    BY <1>0 DEF LeaveLocals
  <2> HIDE DEF read
  <2> QED
    BY <1>2, <2>1, <2>2, <2>3, LeaveReadsKeep DEF Vacations!Steps, LeaveCounting, LeaveAnswering
<1>3. CASE Vacations!SetBalance(h)
  <2> DEFINE read == [local[h] EXCEPT !.bal = balance]
  <2>1. /\ pc[h] = "idle" /\ Vacations!Goto(h, "setting")
        /\ requests' = requests /\ balance' = balance /\ crashes' = crashes
    BY <1>3 DEF Vacations!SetBalance
  <2>2. local' = [local EXCEPT ![h] = read]
    BY <1>0, <1>3 DEF Vacations!SetBalance, Vacations!ReadBalance
  <2>3. read \in LeaveLocals /\ read.bal = balance
    BY <1>0 DEF LeaveLocals
  <2> HIDE DEF read
  <2>4. "setting" \in Vacations!Steps \ LeaveCounting /\ "setting" \notin LeaveAnswering
    BY DEF Vacations!Steps, LeaveCounting, LeaveAnswering
  <2>5. "setting" \notin {"approving", "rejecting", "cancelling", "creating"}
    OBVIOUS
  <2> QED
    BY <2>1, <2>2, <2>3, <2>4, <2>5, LeaveReadsKeep
<1> QED
  BY <1>1, <1>2, <1>3 DEF Vacations!Approve, Vacations!Reject, Vacations!Cancel, Vacations!Remove

\* A request is written, and nothing is counted of it.
LEMMA LeavePutsKeep ==
  ASSUME LeaveInv, NEW h \in Handlers, NEW m \in VacationIds, NEW row \in Vacations!Requests,
         Vacations!Return(h),
         requests' = [requests EXCEPT ![m] = row], balance' = balance, crashes' = crashes,
         Vacations!WasCounted(row) =>
           Vacations!WasCounted(requests[m]) /\ row.days = requests[m].days,
         pc[h] \notin LeaveCounting,
         LeaveInHand(h) => /\ Vacations!WasCounted(requests[m]) => Vacations!WasCounted(row)
                           /\ row.deleted => row.status # "none"
                           /\ row.status # requests[m].status =>
                                \/ requests[m].status \in {"none", "pending"}
                                \/ row.status = "cancelled"
                           /\ ~requests[m].deleted \/ requests[m].status = "none"
  PROVE  LeaveKept(h)
<1>0. /\ requests \in [VacationIds -> Vacations!Requests] /\ balance \in Vacations!Balances
      /\ crashes \in 0 .. MaxCrashes
      /\ IsFiniteSet(LeaveCountedIn(requests))
  BY DEF LeaveInv, Vacations!TypeOK
<1>1. /\ requests' \in [VacationIds -> Vacations!Requests] /\ requests'[m] = row
      /\ \A q \in VacationIds \ {m} : requests'[q] = requests[q]
  BY <1>0
<1>2. LeaveCountedIn(requests)' = LeaveCountedIn(requests')
  BY DEF LeaveCountedIn
<1>3. LeaveCountedIn(requests') \subseteq LeaveCountedIn(requests)
  BY <1>1 DEF LeaveCountedIn
<1>4. IsFiniteSet(LeaveCountedIn(requests)')
  BY <1>0, <1>2, <1>3, FS_Subset
<1>5. ASSUME OnlyMe(h), LeaveClean, LeaveBalanced, LeaveInHand(h)
      PROVE  LeaveClean' /\ LeaveBalanced' /\ LeaveDecided
  <2>1. LeaveCountedIn(requests') = LeaveCountedIn(requests)
    BY <1>1, <1>3, <1>5 DEF LeaveCountedIn
  <2>2. \A q \in LeaveCountedIn(requests) : requests'[q].days = requests[q].days
    BY <1>1, <2>1 DEF LeaveCountedIn
  <2>3. LeaveTaken(requests') = LeaveTaken(requests)
    BY <1>0, <1>1, <2>1, <2>2, LeaveTakenSame
  <2>4. LeaveTaken(requests)' = LeaveTaken(requests')
    BY LeaveTakenPrimed
  <2>5. LeaveBalanced'
    BY <1>5, <2>3, <2>4, LeaveSettled DEF LeaveBalanced
  <2>6. LeaveClean' /\ LeaveDecided
    BY <1>1, <1>5 DEF LeaveClean, LeaveDecided
  <2> QED
    BY <2>5, <2>6
<1> QED
  BY <1>0, <1>1, <1>4, <1>5, LeaveReturned DEF LeaveKept

\* A row with another status.
LEMMA LeaveWithStatus ==
  ASSUME NEW row \in Vacations!Requests, NEW status \in Vacations!Statuses
  PROVE  LET new == [row EXCEPT !.status = status] IN
         /\ new \in Vacations!Requests /\ new.status = status /\ new.days = row.days
         /\ new.kind = row.kind /\ new.deleted = row.deleted
  BY DEF Vacations!Requests

\* Handlers that write a request.
LEMMA LeaveAnswersKeep ==
  ASSUME LeaveInv, NEW h \in Handlers,
         Vacations!CreateInsert(h) \/ Vacations!RejectSave(h) \/ Vacations!RemoveSave(h)
  PROVE  LeaveKept(h)
<1>0. /\ requests \in [VacationIds -> Vacations!Requests] /\ local[h] \in LeaveLocals
      /\ local[h].req \in Vacations!Requests
  BY DEF LeaveInv, Vacations!TypeOK, LeaveLocals
<1>1. PICK m \in VacationIds : local[h].id = m
  BY DEF LeaveInv, LeaveHeld, Vacations!CreateInsert, Vacations!RejectSave, Vacations!RemoveSave,
     LeaveAnswering
<1>2. CASE Vacations!CreateInsert(h)
  <2>1. /\ pc[h] = "creating" /\ requests' = [requests EXCEPT ![m] = local[h].req]
        /\ Vacations!Return(h)
        /\ balance' = balance /\ crashes' = crashes
    BY <1>1, <1>2 DEF Vacations!CreateInsert
  <2>2. /\ local[h].req.status = "pending"
        /\ LeaveInHand(h) => requests[m].status = "none" /\ ~local[h].req.deleted
    BY <1>1, <2>1 DEF LeaveInv, LeaveHeld, LeaveInHand
  <2> QED
    BY <1>0, <2>1, <2>2, LeavePutsKeep DEF Vacations!WasCounted, LeaveCounting
<1>3. CASE Vacations!RejectSave(h)
  <2> DEFINE row == [local[h].req EXCEPT !.status = "rejected"]
  <2>1. /\ pc[h] = "rejecting" /\ requests' = [requests EXCEPT ![m] = row] /\ Vacations!Return(h)
        /\ balance' = balance /\ crashes' = crashes
    BY <1>1, <1>3 DEF Vacations!RejectSave, Vacations!Save
  <2>2. LeaveInHand(h) =>
          requests[m].status = "pending" /\ local[h].req = requests[m] /\ Vacations!Exists(m)
    BY <1>1, <2>1 DEF LeaveInHand, LeaveAnswering
  <2>3. row \in Vacations!Requests /\ row.status = "rejected" /\ row.deleted = local[h].req.deleted
    BY <1>0, LeaveWithStatus DEF Vacations!Statuses
  <2> HIDE DEF row
  <2> QED
    BY <1>0, <2>1, <2>2, <2>3, LeavePutsKeep DEF Vacations!WasCounted, LeaveCounting,
       Vacations!Exists
<1>4. CASE Vacations!RemoveSave(h)
  <2> DEFINE row == [requests[m] EXCEPT !.deleted = TRUE]
  <2>1. /\ pc[h] = "removing" /\ requests' = [requests EXCEPT ![m] = row] /\ Vacations!Return(h)
        /\ balance' = balance /\ crashes' = crashes
    BY <1>0, <1>1, <1>4 DEF Vacations!RemoveSave
  <2>2. LeaveInHand(h) => Vacations!Exists(m)
    BY <1>1, <2>1 DEF LeaveInHand, LeaveAnswering
  <2>3. row \in Vacations!Requests /\ row.status = requests[m].status /\ row.days = requests[m].days
        /\ row.kind = requests[m].kind
    BY <1>0 DEF Vacations!Requests
  <2> HIDE DEF row
  <2> QED
    BY <1>0, <2>1, <2>2, <2>3, LeavePutsKeep DEF Vacations!WasCounted, LeaveCounting,
       Vacations!Exists
<1> QED
  BY <1>2, <1>3, <1>4

\* The decision that changes what is counted is followed by the count.
LEMMA LeaveDecisionsKeep ==
  ASSUME LeaveInv, NEW h \in Handlers, Vacations!ApproveSave(h) \/ Vacations!CancelSave(h)
  PROVE  LeaveKept(h)
<1>0. /\ requests \in [VacationIds -> Vacations!Requests] /\ local[h] \in LeaveLocals
      /\ local[h].req \in Vacations!Requests
      /\ local \in [Handlers -> LeaveLocals] /\ balance \in Vacations!Balances
      /\ crashes \in 0 .. MaxCrashes
      /\ IsFiniteSet(LeaveCountedIn(requests)) /\ pc \in [Handlers -> Vacations!Steps]
      /\ balance' = balance /\ crashes' = crashes
      /\ pc[h] \in {"approving", "cancelling"}
  BY DEF LeaveInv, Vacations!TypeOK, LeaveLocals, Vacations!ApproveSave, Vacations!CancelSave
<1>1. PICK m \in VacationIds : local[h].id = m
  BY DEF LeaveInv, LeaveHeld, Vacations!ApproveSave, Vacations!CancelSave, LeaveAnswering
<1> DEFINE req == local[h].req
           status == IF pc[h] = "approving" THEN "approved" ELSE "cancelled"
           delta == IF pc[h] = "approving" THEN req.days ELSE -req.days
           counts == IF pc[h] = "approving" THEN req.kind = "annual" ELSE Vacations!WasCounted(req)
           row == [req EXCEPT !.status = status]
<1>2. /\ requests' = [requests EXCEPT ![m] = row]
      /\ IF counts THEN Vacations!Count(h, delta) ELSE Vacations!Return(h)
  BY <1>1 DEF Vacations!ApproveSave, Vacations!CancelSave, Vacations!Save
<1>4. /\ req.days \in Nat /\ delta \in Int /\ status \in {"approved", "cancelled"}
      /\ status \in Vacations!Statuses
  BY <1>0, LeaveDaysCount DEF Vacations!Statuses
<1>3. /\ row \in Vacations!Requests /\ row.status = status /\ row.days = req.days
      /\ row.kind = req.kind /\ row.deleted = req.deleted
  <2> HIDE DEF status
  <2> QED
    BY <1>0, <1>4, LeaveWithStatus
<1>5. LeaveInHand(h) =>
        Vacations!Exists(m) /\ req = requests[m] /\ (pc[h] = "approving" => req.status = "pending")
  BY <1>0, <1>1 DEF LeaveInHand, LeaveAnswering
<1> HIDE DEF row
<1>6. /\ requests' \in [VacationIds -> Vacations!Requests] /\ requests'[m] = row
      /\ \A q \in VacationIds \ {m} : requests'[q] = requests[q]
  BY <1>0, <1>2, <1>3
<1>7. /\ LeaveCountedIn(requests)' = LeaveCountedIn(requests')
      /\ LeaveTaken(requests)' = LeaveTaken(requests')
  BY LeaveTakenPrimed, LeaveCountedPrimed
<1>8. IsFiniteSet(LeaveCountedIn(requests'))
  <2>1. LeaveCountedIn(requests') \subseteq LeaveCountedIn(requests) \cup {m}
    BY <1>6 DEF LeaveCountedIn
  <2> QED
    BY <1>0, <2>1, FS_AddElement, FS_Subset
<1>9. /\ pc' \in [Handlers -> Vacations!Steps] /\ local' \in [Handlers -> LeaveLocals]
      /\ pc'[h] = IF counts THEN "counting" ELSE "idle"
      /\ counts => local'[h].delta = delta
      /\ \A g \in Handlers \ {h} : pc'[g] = pc[g] /\ local'[g] = local[g]
  <2>1. CASE counts
    <3> DEFINE read == [local[h] EXCEPT !.delta = delta]
    <3> HIDE DEF delta
    <3>1. read \in LeaveLocals /\ read.delta = delta
      BY <1>0, <1>4 DEF LeaveLocals
    <3>2. Vacations!Goto(h, "counting") /\ local' = [local EXCEPT ![h] = read]
      BY <1>0, <1>2, <2>1 DEF Vacations!Count
    <3> HIDE DEF read
    <3> QED
      BY <2>1, <3>1, <3>2, LeaveMoved DEF Vacations!Steps
  <2>2. CASE ~counts
    <3> HIDE DEF counts
    <3> QED
      BY <1>2, <2>2, LeaveReturned
  <2> QED
    BY <2>1, <2>2
<1>10. ASSUME OnlyMe(h), LeaveClean, LeaveBalanced, LeaveInHand(h)
      PROVE  LeaveClean' /\ LeaveBalanced' /\ LeaveInHand(h)' /\ LeaveDecided
  <2>1. Vacations!Exists(m) /\ req = requests[m] /\ (pc[h] = "approving" => req.status = "pending")
    BY <1>5, <1>10
  <2>2. LeaveClean' /\ LeaveDecided
    BY <1>0, <1>3, <1>6, <1>10, <2>1 DEF LeaveClean, LeaveDecided, Vacations!Exists
  <2>3. \A q \in LeaveCountedIn(requests) : requests'[q].days = requests[q].days
    BY <1>3, <1>6, <2>1 DEF LeaveCountedIn
  <2>4. crashes = 0 => balance.used = LeaveTaken(requests)
    BY <1>0, <1>10, LeaveSettled DEF LeaveCounting
  <2>5. LeaveTaken(requests) \in Nat /\ LeaveTaken(requests') \in Nat /\ req.days \in Nat
    BY <1>4, <1>0, <1>6, <1>8, LeaveTakenTyped
  <2>6. IF counts THEN LeaveTaken(requests') = LeaveTaken(requests) + delta ELSE LeaveTaken(requests') = LeaveTaken(requests)
    <3>1. CASE pc[h] = "approving" /\ req.kind = "annual"
      <4>1. /\ m \notin LeaveCountedIn(requests)
            /\ LeaveCountedIn(requests') = LeaveCountedIn(requests) \cup {m}
        BY <1>3, <1>6, <2>1, <3>1 DEF LeaveCountedIn, Vacations!WasCounted
      <4>2. LeaveTaken(requests') = LeaveTaken(requests) + requests'[m].days
        BY <1>0, <1>6, <2>3, <4>1, LeaveTakenMore
      <4> QED
        BY <1>3, <1>6, <3>1, <4>2
    <3>2. CASE pc[h] = "cancelling" /\ Vacations!WasCounted(req)
      <4>1. /\ m \notin LeaveCountedIn(requests')
            /\ LeaveCountedIn(requests) = LeaveCountedIn(requests') \cup {m}
        BY <1>3, <1>6, <2>1, <3>2 DEF LeaveCountedIn, Vacations!WasCounted
      <4>2. LeaveTaken(requests) = LeaveTaken(requests') + requests[m].days
        BY <1>0, <1>6, <1>8, <2>3, <4>1, LeaveTakenMore
      <4> QED
        BY <1>0, <2>1, <2>5, <3>2, <4>2
    <3>3. CASE ~counts
      <4>1. LeaveCountedIn(requests') = LeaveCountedIn(requests)
        BY <1>0, <1>3, <1>6, <2>1, <3>3 DEF LeaveCountedIn, Vacations!WasCounted
      <4> QED
        BY <1>0, <1>6, <2>3, <3>3, <4>1, LeaveTakenSame
    <3> QED
      BY <1>0, <3>1, <3>2, <3>3
  <2> HIDE DEF counts, delta
  <2>7. LeaveBalanced'
    BY <1>0, <1>7, <1>9, <2>4, <2>6 DEF LeaveBalanced, LeaveCounting
  <2>8. LeaveInHand(h)'
    BY <1>0, <1>4, <1>7, <1>9, <2>4, <2>5, <2>6 DEF LeaveInHand, LeaveAnswering, LeaveCounting
  <2> QED
    BY <2>2, <2>7, <2>8
<1>11. LeaveHeld(h)'
  BY <1>9 DEF LeaveHeld, LeaveAnswering
<1> QED
  BY <1>0, <1>6, <1>7, <1>8, <1>9, <1>10, <1>11 DEF LeaveKept

\* The balance is written, or a handler dies.
LEMMA LeaveBalanceKeeps ==
  ASSUME LeaveInv, NEW h \in Handlers,
         Vacations!IncrementSave(h) \/ Vacations!Crash(h) \/ \E n \in Totals :
           Vacations!SetBalanceSave(h, n)
  PROVE  LeaveKept(h)
<1>0. /\ requests \in [VacationIds -> Vacations!Requests] /\ local[h] \in LeaveLocals
      /\ local[h].bal \in Vacations!Balances /\ local[h].delta \in Int
      /\ balance \in Vacations!Balances /\ crashes \in 0 .. MaxCrashes
      /\ IsFiniteSet(LeaveCountedIn(requests))
      /\ MaxCrashes \in Nat /\ Totals \subseteq Nat
      /\ requests' = requests /\ Vacations!Return(h)
  BY LeaveGiven DEF LeaveInv, Vacations!TypeOK, LeaveLocals, Vacations!IncrementSave,
     Vacations!Crash, Vacations!SetBalanceSave, Vacations!SaveBalance, Vacations!DaysAssumption
<1>1. /\ LeaveCountedIn(requests)' = LeaveCountedIn(requests)
      /\ LeaveTaken(requests)' = LeaveTaken(requests)
  BY <1>0, LeaveTakenPrimed, LeaveCountedPrimed
<1>2. LeaveTaken(requests) \in Nat
  BY <1>0, LeaveTakenTyped
<1>3. balance' \in Vacations!Balances /\ crashes' \in 0 .. MaxCrashes
      /\ (OnlyMe(h) /\ LeaveBalanced /\ LeaveInHand(h) /\ crashes' = 0 => balance'.used = LeaveTaken(requests))
  <2>1. CASE Vacations!IncrementSave(h)
    <3> DEFINE used == Vacations!NewUsed(local[h].bal.used, local[h].delta)
               bal == [local[h].bal EXCEPT !.exists = TRUE, !.used = used]
    <3>1. /\ pc[h] = "counted" /\ crashes' = crashes
          /\ balance' = IF local[h].bal.exists \/ ~balance.exists THEN bal ELSE balance
      BY <2>1 DEF Vacations!IncrementSave, Vacations!SaveBalance
    <3>2. local[h].bal.used \in Nat
      BY <1>0 DEF Vacations!Balances
    <3>3. /\ used \in Nat
          /\ (local[h].bal.used + local[h].delta \in Nat => used = local[h].bal.used + local[h].delta)
      BY <1>0, <3>2 DEF Vacations!NewUsed, Vacations!AtLeastZero
    <3> HIDE DEF used
    <3>4. bal \in Vacations!Balances /\ bal.used = used
      BY <1>0, <3>3 DEF Vacations!Balances
    <3>5. LeaveInHand(h) =>
            /\ local[h].bal = balance
            /\ (crashes = 0 => balance.used + local[h].delta = LeaveTaken(requests))
      BY <3>1 DEF LeaveInHand, LeaveCounting
    <3> HIDE DEF bal
    <3> QED
      BY <1>0, <1>2, <3>1, <3>3, <3>4, <3>5
  <2>2. CASE Vacations!Crash(h)
    BY <1>0, <2>2 DEF Vacations!Crash
  <2>3. ASSUME NEW n \in Totals, Vacations!SetBalanceSave(h, n)
        PROVE  balance' \in Vacations!Balances /\ crashes' \in 0 .. MaxCrashes
               /\ (OnlyMe(h) /\ LeaveBalanced /\ LeaveInHand(h) /\ crashes' = 0 => balance'.used = LeaveTaken(requests))
    <3> DEFINE bal == [local[h].bal EXCEPT !.exists = TRUE, !.total = n]
    <3>1. /\ pc[h] = "setting" /\ crashes' = crashes
          /\ balance' = IF local[h].bal.exists \/ ~balance.exists THEN bal ELSE balance
      BY <2>3 DEF Vacations!SetBalanceSave, Vacations!SaveBalance
    <3>2. n \in Nat
      BY <1>0
    <3>3. bal \in Vacations!Balances /\ bal.used = local[h].bal.used
      BY <1>0, <3>2 DEF Vacations!Balances
    <3>4. LeaveInHand(h) => local[h].bal = balance
      BY <3>1 DEF LeaveInHand
    <3> HIDE DEF bal
    <3> QED
      BY <1>0, <3>1, <3>3, <3>4, LeaveSettled DEF LeaveCounting
  <2> QED
    BY <2>1, <2>2, <2>3
<1>4. LeaveClean => LeaveClean' /\ LeaveDecided
  BY <1>0 DEF LeaveClean, LeaveDecided
<1> QED
  BY <1>0, <1>1, <1>3, <1>4, LeaveReturned DEF LeaveKept, LeaveBalanced

\* Handlers that write the balance.
LEMMA LeaveCountKeeps ==
  ASSUME LeaveInv, NEW h \in Handlers, Vacations!IncrementRead(h)
  PROVE  LeaveKept(h)
<1>0. /\ requests \in [VacationIds -> Vacations!Requests] /\ local[h] \in LeaveLocals
      /\ local \in [Handlers -> LeaveLocals]
      /\ balance \in Vacations!Balances /\ crashes \in 0 .. MaxCrashes
      /\ IsFiniteSet(LeaveCountedIn(requests))
      /\ requests' = requests /\ balance' = balance /\ crashes' = crashes /\ pc[h] = "counting"
  BY DEF LeaveInv, Vacations!TypeOK, LeaveLocals, Vacations!IncrementRead
<1> DEFINE read == [local[h] EXCEPT !.bal = balance]
<1>1. read \in LeaveLocals /\ read.bal = balance /\ read.delta = local[h].delta
  BY <1>0 DEF LeaveLocals
<1>2. Vacations!Goto(h, "counted") /\ local' = [local EXCEPT ![h] = read]
  BY <1>0 DEF Vacations!IncrementRead, Vacations!ReadBalance
<1> HIDE DEF read
<1>3. /\ pc' \in [Handlers -> Vacations!Steps] /\ local' \in [Handlers -> LeaveLocals]
      /\ pc'[h] = "counted" /\ local'[h] = read
      /\ \A g \in Handlers \ {h} : pc'[g] = pc[g] /\ local'[g] = local[g]
  BY <1>1, <1>2, LeaveMoved DEF Vacations!Steps
<1>4. /\ LeaveCountedIn(requests)' = LeaveCountedIn(requests)
      /\ LeaveTaken(requests)' = LeaveTaken(requests)
  BY <1>0, LeaveTakenPrimed, LeaveCountedPrimed
<1>5. LeaveClean => LeaveClean' /\ LeaveDecided
  BY <1>0 DEF LeaveClean, LeaveDecided
<1>6. LeaveBalanced' /\ (LeaveInHand(h) => LeaveInHand(h)')
  BY <1>0, <1>1, <1>3, <1>4 DEF LeaveInHand, LeaveBalanced, LeaveCounting, LeaveAnswering
<1> QED
  BY <1>0, <1>3, <1>4, <1>5, <1>6 DEF LeaveKept, LeaveHeld, LeaveAnswering

\* Every step keeps the invariant, and does what is said of every step.
LEMMA LeaveStepHolds == LeaveInv /\ LeaveSoloInv /\ [Vacations!Next]_(Vacations!vars) =>
                          LeaveInv' /\ LeaveSoloInv' /\ Vacations!DecisionKept
<1> SUFFICES ASSUME LeaveInv, LeaveSoloInv, [Vacations!Next]_(Vacations!vars)
             PROVE  LeaveInv' /\ LeaveSoloInv' /\ (~overlapped' => LeaveDecided)
  BY DEF Vacations!DecisionKept, LeaveDecided
<1>1. CASE UNCHANGED Vacations!vars
  <2>0. /\ requests' = requests /\ balance' = balance /\ crashes' = crashes /\ pc' = pc
        /\ local' = local
        /\ overlapped' = overlapped
    BY <1>1 DEF Vacations!vars
  <2>1. /\ LeaveCountedIn(requests)' = LeaveCountedIn(requests)
        /\ LeaveTaken(requests)' = LeaveTaken(requests)
    BY <2>0, LeaveTakenPrimed, LeaveCountedPrimed
  <2>2. LeaveInv'
    BY <2>0, <2>1 DEF LeaveInv, Vacations!TypeOK, LeaveHeld
  <2>3. LeaveSoloInv'
    BY <2>0, <2>1 DEF LeaveSoloInv, Alone, Vacations!InFlight, LeaveClean, LeaveBalanced,
       LeaveInHand, Vacations!Exists
  <2> QED
    BY <2>0, <2>2, <2>3 DEF LeaveDecided
<1>2. ASSUME NEW h \in Handlers, Vacations!HandlerStep(h), Vacations!Overlap(h)
      PROVE  LeaveInv' /\ LeaveSoloInv' /\ (~overlapped' => LeaveDecided)
  <2>1. LeaveKept(h)
    BY <1>2, LeaveBeginsKeep, LeaveAnswersKeep, LeaveDecisionsKeep, LeaveBalanceKeeps,
       LeaveCountKeeps DEF Vacations!HandlerStep
  <2>2. LeaveInv'
    <3>1. overlapped' \in BOOLEAN
      BY <1>2 DEF Vacations!Overlap, LeaveInv, Vacations!TypeOK
    <3>2. Vacations!TypeOK'
      BY <2>1, <3>1 DEF LeaveKept, Vacations!TypeOK, LeaveLocals
    <3>3. \A g \in Handlers : LeaveHeld(g)'
      BY <2>1 DEF LeaveKept, LeaveInv, LeaveHeld
    <3> QED
      BY <2>1, <3>2, <3>3 DEF LeaveKept, LeaveInv
  <2>3. ASSUME ~overlapped'
        PROVE  /\ Alone' /\ LeaveClean' /\ LeaveBalanced'
               /\ (\A g \in Handlers : LeaveInHand(g)')
               /\ LeaveDecided
    <3>1. ~overlapped /\ \A g \in Handlers \ {h} : pc[g] = "idle" /\ pc'[g] = "idle"
      BY <1>2, <2>1, <2>3 DEF Vacations!Overlap, Vacations!InFlight, LeaveKept
    <3>2. \A g \in Handlers \ {h} : LeaveInHand(g)'
      BY <3>1 DEF LeaveInHand, LeaveAnswering, LeaveCounting
    <3>3. Alone'
      BY <3>1 DEF Alone, Vacations!InFlight
    <3>4. OnlyMe(h) /\ LeaveClean /\ LeaveBalanced /\ LeaveInHand(h)
      BY <3>1 DEF OnlyMe, LeaveSoloInv
    <3> QED
      BY <2>1, <3>2, <3>3, <3>4 DEF LeaveKept
  <2> QED
    BY <2>2, <2>3 DEF LeaveSoloInv, Alone
<1> QED
  BY <1>1, <1>2 DEF Vacations!Next

\* The invariant is enough.
LEMMA LeavePromised == LeaveInv /\ LeaveSoloInv => Vacations!TypeOK /\ Vacations!UsedIsApproved
<1> SUFFICES ASSUME LeaveInv, LeaveSoloInv, Vacations!Quiet, ~overlapped, crashes = 0
             PROVE  balance.used = LeaveTaken(requests)
  BY DEF LeaveInv, Vacations!UsedIsApproved, LeaveTaken, LeaveCountedIn, Vacations!Counted
<1> QED
  BY DEF LeaveSoloInv, LeaveBalanced, Vacations!Quiet, Vacations!InFlight, LeaveCounting
-----------------------------------------------------------------------------
(***************************************************************************)
(* swaps. A request keeps its type and its author, and a swap its          *)
(* colleague, from the day it is made; so does every entity a handler will *)
(* save over it.  What is on its way to approval keeps its parties apart,  *)
(* as long as no save is torn.  The shifts a request names are in the      *)
(* roster.  And as long as handlers do not overlap, what the entity in     *)
(* hand makes of the row is an answer it may be given.                     *)
(***************************************************************************)
\* What is assumed of the constants.
LEMMA SwapGiven == ShiftSwap!NoneAssumption
  BY OfficeAssumption

\* What a handler may hold.
SwapColumns == SUBSET DOMAIN ShiftSwap!NoSwap
SwapLocals == [id : ShiftSwap!OrNone(Swaps \cup Shifts), row : ShiftSwap!SwapRows,
               cols : SwapColumns, mine : ShiftSwap!OrNone(Users), theirs : ShiftSwap!OrNone(Users)]

\* Types, without the foreign keys.
SwapTyped ==
  /\ worker \in [Shifts -> ShiftSwap!OrNone(Users)]
  /\ swaps \in [Swaps -> ShiftSwap!SwapRows]
  /\ pc \in [Handlers -> ShiftSwap!Steps]
  /\ local \in [Handlers -> SwapLocals]

\* A swap has a colleague from the day it is made.
SwapParties(row) ==
  row.status # "none" /\ row.type = "swap" => row.target \in Users \ {row.requester}
\* What no step changes of a request.
SwapSame(new, old) ==
  /\ new.type = old.type /\ new.requester = old.requester
  /\ old.type = "swap" => new.target = old.target
\* What is on its way to approval keeps its parties apart.
SwapSound(row) == row.status = "pending_approval" => row.target \in Users \ {row.requester}

\* No request names an assignment that is not there.
SwapPresent(s) == s = None \/ (s \in Shifts /\ worker[s] # None)
SwapRefers(w) == SwapPresent(swaps[w].shift) /\ SwapPresent(swaps[w].targetShift)

\* What a handler holds at a step.
SwapReadTyped(step, read) ==
  /\ step = "creating" => /\ read.id \in Swaps /\ swaps[read.id].status = "none"
                          /\ read.row.status = "pending_peer" /\ SwapParties(read.row)
  /\ step \in {"saving", "updating"} =>
       /\ read.id \in Swaps /\ swaps[read.id].status # "none"
       /\ read.row.status # "none" /\ SwapSame(read.row, swaps[read.id])
  /\ step = "approving" => read.id \in Swaps /\ swaps[read.id].status # "none"
  /\ step = "editing" => read.id \in Shifts /\ read.mine \in Users
SwapHeldTyped(h) == SwapReadTyped(pc[h], local[h])

\* The entity that will be saved is sound; when its columns were compared with those of
\* the table, they still differ in no other.
SwapReadSound(step, read) ==
  /\ step \in {"saving", "updating"} => SwapSound(read.row)
  /\ step = "updating" => ShiftSwap!Differing(swaps[read.id], read.row) \subseteq read.cols
SwapHeldSound(h) == SwapReadSound(pc[h], local[h])

\* No two handlers insert one request.
SwapFresh == \A g, h \in Handlers :
  g # h /\ pc[g] = "creating" /\ pc[h] = "creating" => local[g].id # local[h].id

\* What holds however handlers interleave.
SwapInv ==
  /\ SwapTyped /\ overlapped \in BOOLEAN /\ torn \in BOOLEAN
  /\ \A w \in Swaps : SwapRefers(w) /\ SwapParties(swaps[w])
  /\ \A h \in Handlers : SwapHeldTyped(h)
  /\ SwapFresh
  /\ ~torn => (\A w \in Swaps : SwapSound(swaps[w])) /\ \A h \in Handlers : SwapHeldSound(h)

\* No two requests offer one shift.
SwapDistinct == \A v, w \in Swaps :
  v # w /\ ShiftSwap!Open(swaps[v]) /\ ShiftSwap!Open(swaps[w]) /\ swaps[v].shift # None
    => swaps[v].shift # swaps[w].shift

\* What may be made of a request.
SwapAnswers(row, old) ==
  /\ ShiftSwap!Open(row) => ShiftSwap!Open(old) /\ row.shift = old.shift
  /\ row.status # old.status =>
       ShiftSwap!Open(old) \/ (old.status = "peer_declined" /\ row.status = "cancelled")

\* When handlers do not overlap, what the one at work has read still holds.
SwapReadHolds(step, read) ==
  /\ step = "creating" => ShiftSwap!NotOffered(read.row.shift)
  /\ step \in {"saving", "updating"} => SwapAnswers(read.row, swaps[read.id])
  /\ step = "approving" => swaps[read.id].status = "pending_approval"
  /\ step = "editing" => worker[read.id] = read.mine
SwapInHand(h) == SwapReadHolds(pc[h], local[h])

\* What holds as long as they do not overlap.
SwapSoloInv ==
  Alone /\ (~overlapped => ~torn /\ SwapDistinct /\ \A h \in Handlers : SwapInHand(h))
SwapFullInv == SwapInv /\ SwapSoloInv

\* What a step of h does: it keeps the invariant, as long as h is alone all of
\* it.
SwapKept(h) ==
  /\ SwapTyped'
  /\ \A g \in Handlers \ {h} : pc'[g] = pc[g] /\ local'[g] = local[g]
  /\ \A w \in Swaps :
       /\ SwapRefers(w)' /\ SwapParties(swaps'[w])
       /\ swaps[w].status # "none" => swaps'[w].status # "none" /\ SwapSame(swaps'[w], swaps[w])
       /\ swaps[w].status = "none" /\ swaps'[w].status # "none" =>
            pc[h] = "creating" /\ local[h].id = w
  /\ SwapHeldTyped(h)'
  /\ pc'[h] = "creating" => \A g \in Handlers \ {h} : local[g].id # local'[h].id
  /\ ~torn => (\A w \in Swaps : SwapSound(swaps'[w])) /\ SwapHeldSound(h)'
  /\ ~torn /\ SwapDistinct /\ SwapInHand(h) =>
       SwapDistinct' /\ SwapInHand(h)' /\ ShiftSwap!DecisionKept /\ ShiftSwap!RosterKept

\* An empty row is well typed.
LEMMA SwapEmpty == /\ ShiftSwap!NoSwap \in ShiftSwap!SwapRows /\ ShiftSwap!NoSwap.status = "none"
                   /\ ShiftSwap!NoLocal \in SwapLocals
  BY DEF ShiftSwap!NoSwap, ShiftSwap!NoLocal, SwapLocals, SwapColumns, ShiftSwap!SwapRows,
     ShiftSwap!Statuses, ShiftSwap!Types, ShiftSwap!OrNone

\* What an UPDATE makes of a row: each column is the old one or that in hand.
LEMMA SwapMerge ==
  ASSUME NEW row \in ShiftSwap!SwapRows, NEW entity \in ShiftSwap!SwapRows, NEW cols
  PROVE  LET new == ShiftSwap!Merged(row, entity, cols) IN
         /\ new \in ShiftSwap!SwapRows
         /\ ShiftSwap!Differing(row, entity) \in SwapColumns
         /\ new.status \in {row.status, entity.status}
         /\ SwapSame(entity, row) => SwapSame(new, row)
         /\ ShiftSwap!Differing(row, entity) \subseteq cols => new = entity
<1>1. DOMAIN row = {"status", "type", "requester", "shift", "target", "targetShift"}
  BY DEF ShiftSwap!SwapRows
<1>2. DOMAIN ShiftSwap!NoSwap = DOMAIN row
  BY <1>1 DEF ShiftSwap!NoSwap
<1>3. ShiftSwap!Differing(row, entity) \in SwapColumns
  BY <1>2 DEF ShiftSwap!Differing, SwapColumns
<1> DEFINE new == ShiftSwap!Merged(row, entity, cols)
           pick(c) == IF c \in cols THEN entity[c] ELSE row[c]
<1>4. new = [c \in DOMAIN row |-> pick(c)]
  BY DEF ShiftSwap!Merged
<1>5. /\ new.status = pick("status") /\ new.type = pick("type")
      /\ new.requester = pick("requester") /\ new.shift = pick("shift")
      /\ new.target = pick("target") /\ new.targetShift = pick("targetShift")
  BY <1>1, <1>4
<1>6. new = [status |-> pick("status"), type |-> pick("type"), requester |-> pick("requester"),
             shift |-> pick("shift"), target |-> pick("target"),
             targetShift |-> pick("targetShift")]
  BY <1>1, <1>4
<1>7. new \in ShiftSwap!SwapRows
  BY <1>6 DEF ShiftSwap!SwapRows
<1>8. SwapSame(entity, row) => SwapSame(new, row)
  BY <1>5 DEF SwapSame
<1>9. ASSUME ShiftSwap!Differing(row, entity) \subseteq cols
      PROVE  new = entity
  <2>1. \A c \in DOMAIN row : pick(c) = entity[c]
    BY <1>9 DEF ShiftSwap!Differing
  <2> QED
    BY <1>1, <1>4, <2>1 DEF ShiftSwap!SwapRows
<1> QED
  BY <1>3, <1>5, <1>7, <1>8, <1>9

\* A handler that goes on takes what it has read with it; the others stay.
LEMMA SwapMoved ==
  ASSUME SwapInv, NEW h \in Handlers, NEW step \in ShiftSwap!Steps, NEW read \in SwapLocals,
         ShiftSwap!Goto(h, step), local' = [local EXCEPT ![h] = read]
  PROVE  /\ pc' \in [Handlers -> ShiftSwap!Steps] /\ local' \in [Handlers -> SwapLocals]
         /\ pc'[h] = step /\ local'[h] = read
         /\ \A g \in Handlers \ {h} : pc'[g] = pc[g] /\ local'[g] = local[g]
  BY DEF SwapInv, SwapTyped, ShiftSwap!Goto

\* A handler that returns drops the entity it had in hand.
LEMMA SwapReturned ==
  ASSUME SwapInv, NEW h \in Handlers, ShiftSwap!Return(h)
  PROVE  /\ pc' \in [Handlers -> ShiftSwap!Steps] /\ local' \in [Handlers -> SwapLocals]
         /\ pc'[h] = "idle" /\ SwapHeldTyped(h)' /\ SwapHeldSound(h)' /\ SwapInHand(h)'
         /\ \A g \in Handlers \ {h} : pc'[g] = pc[g] /\ local'[g] = local[g]
<1>1. /\ pc' \in [Handlers -> ShiftSwap!Steps] /\ local' \in [Handlers -> SwapLocals]
      /\ pc'[h] = "idle"
      /\ \A g \in Handlers \ {h} : pc'[g] = pc[g] /\ local'[g] = local[g]
  BY SwapMoved, SwapEmpty DEF ShiftSwap!Return, ShiftSwap!Hold, ShiftSwap!Steps
<1> QED
  BY <1>1 DEF SwapHeldTyped, SwapReadTyped, SwapHeldSound, SwapReadSound, SwapInHand, SwapReadHolds

\* Nothing is written.
LEMMA SwapReadsKeep ==
  ASSUME SwapInv, NEW h \in Handlers, UNCHANGED <<worker, swaps>>,
         NEW step \in ShiftSwap!Steps, NEW read \in SwapLocals,
         ShiftSwap!Goto(h, step), local' = [local EXCEPT ![h] = read],
         SwapReadTyped(step, read), ~torn => SwapReadSound(step, read),
         step = "creating" => \A g \in Handlers \ {h} : local[g].id # read.id,
         SwapInHand(h) => SwapReadHolds(step, read)
  PROVE  SwapKept(h)
<1>1. /\ pc' \in [Handlers -> ShiftSwap!Steps] /\ local' \in [Handlers -> SwapLocals]
      /\ pc'[h] = step /\ local'[h] = read
      /\ \A g \in Handlers \ {h} : pc'[g] = pc[g] /\ local'[g] = local[g]
  BY SwapMoved
<1>2. SwapHeldTyped(h)'
  BY <1>1 DEF SwapHeldTyped, SwapReadTyped, SwapParties, SwapSame
<1>3. ~torn => SwapHeldSound(h)'
  BY <1>1 DEF SwapHeldSound, SwapReadSound, SwapSound, ShiftSwap!Differing
<1>4. SwapInHand(h) => SwapInHand(h)'
  BY <1>1 DEF SwapInHand, SwapReadHolds, SwapAnswers, ShiftSwap!NotOffered, ShiftSwap!Open
<1>5. ShiftSwap!DecisionKept /\ ShiftSwap!RosterKept /\ (SwapDistinct => SwapDistinct')
  BY DEF ShiftSwap!DecisionKept, ShiftSwap!RosterKept, SwapDistinct
<1>6. SwapTyped' /\ \A w \in Swaps : SwapRefers(w)'
  BY <1>1 DEF SwapInv, SwapTyped, SwapRefers, SwapPresent
<1> QED
  BY <1>1, <1>2, <1>3, <1>4, <1>5, <1>6 DEF SwapKept, SwapInv, SwapSame

\* findOne takes a row in hand, with what is made of it.
LEMMA SwapLoadKeeps ==
  ASSUME SwapInv, NEW h \in Handlers, NEW w \in Swaps, NEW row \in ShiftSwap!SwapRows,
         ShiftSwap!Load(h, w, row), swaps[w].status # "none", row.status # "none",
         SwapSame(row, swaps[w]), ~torn => SwapSound(row), SwapAnswers(row, swaps[w])
  PROVE  SwapKept(h)
<1> DEFINE read == [ShiftSwap!NoLocal EXCEPT !.id = w, !.row = row]
<1>1. read \in SwapLocals /\ read.id = w /\ read.row = row
  BY SwapEmpty DEF ShiftSwap!NoLocal, SwapLocals, ShiftSwap!OrNone
<1>2. /\ ShiftSwap!Goto(h, "saving") /\ local' = [local EXCEPT ![h] = read]
      /\ UNCHANGED <<worker, swaps>>
  BY DEF ShiftSwap!Load, ShiftSwap!Hold
<1> HIDE DEF read
<1> QED
  BY <1>1, <1>2, SwapReadsKeep DEF SwapReadTyped, SwapReadSound, SwapReadHolds, ShiftSwap!Steps

\* A row is written, or the statement throws.
LEMMA SwapWriteKeeps ==
  ASSUME SwapInv, NEW h \in Handlers, NEW row \in ShiftSwap!SwapRows, ShiftSwap!Write(h, row),
         local[h].id \in Swaps, row.status # "none", SwapParties(row),
         IF swaps[local[h].id].status = "none" THEN pc[h] = "creating"
                                               ELSE SwapSame(row, swaps[local[h].id]),
         ~torn => SwapSound(row),
         ~torn /\ SwapInHand(h) =>
           /\ swaps[local[h].id].status # "none" => SwapAnswers(row, swaps[local[h].id])
           /\ swaps[local[h].id].status = "none" => ShiftSwap!NotOffered(row.shift)
  PROVE  SwapKept(h)
<1> DEFINE id == local[h].id
<1>0. /\ worker \in [Shifts -> ShiftSwap!OrNone(Users)] /\ swaps \in [Swaps -> ShiftSwap!SwapRows]
      /\ None \notin Shifts
  BY SwapGiven DEF SwapInv, SwapTyped, ShiftSwap!NoneAssumption
<1>1. /\ ShiftSwap!Return(h) /\ worker' = worker
      /\ swaps' = IF ShiftSwap!Referable(row.shift) /\ ShiftSwap!Referable(row.targetShift)
                    THEN [swaps EXCEPT ![id] = row] ELSE swaps
  BY DEF ShiftSwap!Write
<1>2. /\ swaps' \in [Swaps -> ShiftSwap!SwapRows]
      /\ \A w \in Swaps \ {id} : swaps'[w] = swaps[w]
      /\ \/ swaps' = swaps
         \/ /\ swaps'[id] = row
            /\ ShiftSwap!Referable(row.shift) /\ ShiftSwap!Referable(row.targetShift)
  BY <1>0, <1>1
<1>3. \A w \in Swaps : SwapRefers(w)'
  <2>1. /\ row.shift \in ShiftSwap!OrNone(Shifts) /\ row.targetShift \in ShiftSwap!OrNone(Shifts)
    BY DEF ShiftSwap!SwapRows
  <2>2. \A w \in Swaps : SwapRefers(w)
    BY DEF SwapInv
  <2> QED
    BY <1>1, <1>2, <2>1, <2>2 DEF SwapRefers, SwapPresent, ShiftSwap!Referable, ShiftSwap!OrNone
<1>4. \A w \in Swaps :
        /\ SwapParties(swaps'[w])
        /\ swaps[w].status # "none" => swaps'[w].status # "none" /\ SwapSame(swaps'[w], swaps[w])
        /\ swaps[w].status = "none" /\ swaps'[w].status # "none" =>
             pc[h] = "creating" /\ local[h].id = w
  <2>1. \A w \in Swaps : SwapParties(swaps[w]) /\ SwapSame(swaps[w], swaps[w])
    BY DEF SwapInv, SwapSame
  <2> QED
    BY <1>2, <2>1
<1>5. ~torn => \A w \in Swaps : SwapSound(swaps'[w])
  BY <1>2 DEF SwapInv
<1>6. ASSUME ~torn, SwapDistinct, SwapInHand(h)
      PROVE  SwapDistinct' /\ ShiftSwap!DecisionKept /\ ShiftSwap!RosterKept
  <2>1. ShiftSwap!RosterKept
    BY <1>1 DEF ShiftSwap!RosterKept
  <2>2. ShiftSwap!DecisionKept
    BY <1>2, <1>6 DEF ShiftSwap!DecisionKept, SwapAnswers
  <2>3. ShiftSwap!Open(row) => \/ ShiftSwap!Open(swaps[id]) /\ row.shift = swaps[id].shift
                               \/ ShiftSwap!NotOffered(row.shift)
    BY <1>6 DEF SwapAnswers
  <2>4. SwapDistinct'
    BY <1>2, <1>6, <2>3 DEF SwapDistinct, ShiftSwap!NotOffered
  <2> QED
    BY <2>1, <2>2, <2>4
<1>7. /\ pc' \in [Handlers -> ShiftSwap!Steps] /\ local' \in [Handlers -> SwapLocals]
      /\ pc'[h] = "idle" /\ SwapHeldTyped(h)' /\ SwapHeldSound(h)' /\ SwapInHand(h)'
      /\ \A g \in Handlers \ {h} : pc'[g] = pc[g] /\ local'[g] = local[g]
  BY <1>1, SwapReturned
<1>8. SwapTyped'
  BY <1>0, <1>1, <1>2, <1>7 DEF SwapTyped
<1> HIDE DEF id
<1> QED
  BY <1>3, <1>4, <1>5, <1>6, <1>7, <1>8 DEF SwapKept

\* The handlers that read a request: what they make of it keeps its parties apart.
LEMMA SwapAnswersKeep ==
  ASSUME SwapInv, NEW h \in Handlers, NEW w \in Swaps,
         \/ ShiftSwap!PeerRespond(h, w) \/ ShiftSwap!Volunteer(h, w) \/ ShiftSwap!Cancel(h, w)
         \/ ShiftSwap!Reject(h, w)
  PROVE  SwapKept(h)
<1> DEFINE old == swaps[w]
<1>0. old \in ShiftSwap!SwapRows /\ SwapParties(old) /\ None \notin Users
  BY SwapGiven DEF SwapInv, SwapTyped, ShiftSwap!NoneAssumption
<1> HIDE DEF old
<1>1. ASSUME NEW status \in ShiftSwap!Statuses, ShiftSwap!Load(h, w, [old EXCEPT !.status = status]),
             old.status # "none", status # "none", status = "pending_approval" => old.type = "swap",
             SwapAnswers([old EXCEPT !.status = status], old)
      PROVE  SwapKept(h)
  <2> DEFINE row == [old EXCEPT !.status = status]
  <2>1. /\ row \in ShiftSwap!SwapRows /\ row.status = status /\ SwapSame(row, old)
        /\ row.target = old.target /\ row.requester = old.requester
    BY <1>0 DEF ShiftSwap!SwapRows, SwapSame
  <2>2. SwapSound(row)
    BY <1>0, <1>1, <2>1 DEF SwapSound, SwapParties
  <2> HIDE DEF row
  <2> QED
    BY <1>1, <2>1, <2>2, SwapLoadKeeps DEF old, row
<1>2. CASE ShiftSwap!PeerRespond(h, w)
  <2>1. PICK answer \in {"pending_approval", "peer_declined"} :
          ShiftSwap!Load(h, w, [old EXCEPT !.status = answer])
    BY <1>2 DEF ShiftSwap!PeerRespond, old
  <2>2. old.status = "pending_peer" /\ old.type = "swap"
    BY <1>2 DEF ShiftSwap!PeerRespond, old
  <2>3. SwapAnswers([old EXCEPT !.status = answer], old)
    BY <1>0, <2>2 DEF SwapAnswers, ShiftSwap!Open, ShiftSwap!SwapRows
  <2> QED
    BY <1>1, <2>1, <2>2, <2>3 DEF ShiftSwap!Statuses
<1>3. CASE ShiftSwap!Volunteer(h, w)
  <2>1. PICK u \in Users \ {old.requester} :
          ShiftSwap!Load(h, w, [old EXCEPT !.status = "pending_approval", !.target = u])
    BY <1>3 DEF ShiftSwap!Volunteer, old
  <2> DEFINE row == [old EXCEPT !.status = "pending_approval", !.target = u]
  <2>2. old.status = "pending_peer" /\ old.type = "cover"
    BY <1>3 DEF ShiftSwap!Volunteer, old
  <2>3. /\ row \in ShiftSwap!SwapRows /\ row.status = "pending_approval" /\ row.target = u
        /\ row.shift = old.shift /\ row.type = old.type /\ row.requester = old.requester
    BY <1>0 DEF ShiftSwap!SwapRows, ShiftSwap!Statuses, ShiftSwap!OrNone
  <2> HIDE DEF row
  <2>4. SwapSame(row, old) /\ SwapSound(row) /\ SwapAnswers(row, old)
    BY <2>1, <2>2, <2>3 DEF SwapSame, SwapSound, SwapAnswers, ShiftSwap!Open
  <2> QED
    BY <2>1, <2>2, <2>3, <2>4, SwapLoadKeeps DEF old, row
<1>4. CASE ShiftSwap!Cancel(h, w)
  <2>1. /\ old.status \in {"pending_peer", "peer_declined"}
        /\ ShiftSwap!Load(h, w, [old EXCEPT !.status = "cancelled"])
    BY <1>4 DEF ShiftSwap!Cancel, old
  <2>2. SwapAnswers([old EXCEPT !.status = "cancelled"], old)
    BY <1>0, <2>1 DEF SwapAnswers, ShiftSwap!Open, ShiftSwap!SwapRows
  <2> QED
    BY <1>1, <2>1, <2>2 DEF ShiftSwap!Statuses
<1>5. CASE ShiftSwap!Reject(h, w)
  <2>1. /\ old.status = "pending_approval"
        /\ ShiftSwap!Load(h, w, IF old.type = "cover"
                                  THEN [old EXCEPT !.status = "pending_peer", !.target = None]
                                  ELSE [old EXCEPT !.status = "rejected"])
    BY <1>5 DEF ShiftSwap!Reject, old
  <2>2. CASE old.type # "cover"
    <3>1. SwapAnswers([old EXCEPT !.status = "rejected"], old)
      BY <1>0, <2>1 DEF SwapAnswers, ShiftSwap!Open, ShiftSwap!SwapRows
    <3> QED
      BY <1>1, <2>1, <2>2, <3>1 DEF ShiftSwap!Statuses
  <2>3. CASE old.type = "cover"
    <3> DEFINE row == [old EXCEPT !.status = "pending_peer", !.target = None]
    <3>1. /\ row \in ShiftSwap!SwapRows /\ row.status = "pending_peer"
          /\ row.shift = old.shift /\ row.type = old.type /\ row.requester = old.requester
      BY <1>0 DEF ShiftSwap!SwapRows, ShiftSwap!Statuses, ShiftSwap!OrNone
    <3> HIDE DEF row
    <3>2. SwapSame(row, old) /\ SwapSound(row) /\ SwapAnswers(row, old)
      BY <2>1, <2>3, <3>1 DEF SwapSame, SwapSound, SwapAnswers, ShiftSwap!Open
    <3> QED
      BY <2>1, <2>3, <3>1, <3>2, SwapLoadKeeps DEF old, row
  <2> QED
    BY <2>2, <2>3
<1> QED
  BY <1>2, <1>3, <1>4, <1>5

\* A request names its own author as requester, and a swap somebody else as target.
LEMMA SwapCreateKeeps ==
  ASSUME SwapInv, NEW h \in Handlers, NEW w \in Swaps, NEW s \in Shifts,
         NEW type \in ShiftSwap!Types, NEW t \in ShiftSwap!OrNone(Shifts),
         NEW target \in ShiftSwap!OrNone(Users),
         ShiftSwap!Create(h, w, s, type, t, target)
  PROVE  SwapKept(h)
<1> DEFINE row == [status |-> "pending_peer", type |-> type, requester |-> worker[s],
                   shift |-> s, target |-> target, targetShift |-> t]
           read == [ShiftSwap!NoLocal EXCEPT !.id = w, !.row = row]
<1>1. worker[s] \in Users
  BY DEF ShiftSwap!Create, SwapInv, SwapTyped, ShiftSwap!OrNone
<1>2. row \in ShiftSwap!SwapRows /\ row.status = "pending_peer" /\ row.shift = s
  BY <1>1 DEF ShiftSwap!SwapRows, ShiftSwap!Statuses, ShiftSwap!OrNone
<1>3. SwapParties(row)
  BY <1>1 DEF ShiftSwap!Create, SwapParties, ShiftSwap!OrNone
<1>4. read \in SwapLocals /\ read.row = row /\ read.id = w
  BY <1>2 DEF ShiftSwap!NoLocal, SwapLocals, SwapColumns, ShiftSwap!OrNone
<1>5. /\ ShiftSwap!Goto(h, "creating") /\ local' = [local EXCEPT ![h] = read]
      /\ UNCHANGED <<worker, swaps>> /\ ShiftSwap!NotOffered(s) /\ swaps[w].status = "none"
      /\ \A g \in Handlers : local[g].id # w
  BY DEF ShiftSwap!Create
<1> HIDE DEF read, row
<1> QED
  BY <1>2, <1>3, <1>4, <1>5, SwapReadsKeep DEF ShiftSwap!Steps, SwapReadTyped, SwapReadSound,
     SwapReadHolds

\* The saves of a request.
LEMMA SwapSavesKeep ==
  ASSUME SwapInv, NEW h \in Handlers,
         ShiftSwap!CreateSave(h) \/ ShiftSwap!SaveSelect(h) \/ ShiftSwap!Save(h)
  PROVE  SwapKept(h)
<1>0. /\ local[h] \in SwapLocals /\ swaps \in [Swaps -> ShiftSwap!SwapRows]
      /\ local[h].row \in ShiftSwap!SwapRows
      /\ SwapHeldTyped(h) /\ (~torn => SwapHeldSound(h))
      /\ \A w \in Swaps : SwapParties(swaps[w])
  BY DEF SwapInv, SwapTyped, SwapLocals
<1>1. CASE ShiftSwap!CreateSave(h)
  <2>1. pc[h] = "creating" /\ ShiftSwap!Write(h, local[h].row)
    BY <1>1 DEF ShiftSwap!CreateSave
  <2>2. /\ local[h].id \in Swaps /\ swaps[local[h].id].status = "none"
        /\ local[h].row.status = "pending_peer" /\ SwapParties(local[h].row)
    BY <1>0, <2>1 DEF SwapHeldTyped, SwapReadTyped
  <2>3. SwapSound(local[h].row) /\ (SwapInHand(h) => ShiftSwap!NotOffered(local[h].row.shift))
    BY <2>1, <2>2 DEF SwapSound, SwapInHand, SwapReadHolds
  <2> QED
    BY <1>0, <2>1, <2>2, <2>3, SwapWriteKeeps
<1>2. CASE ShiftSwap!SaveSelect(h)
  <2> DEFINE old == swaps[local[h].id]
             cols == local[h].cols \cup ShiftSwap!Differing(old, local[h].row)
             read == [local[h] EXCEPT !.cols = cols]
  <2>1. /\ pc[h] = "saving" /\ ShiftSwap!Goto(h, "updating")
        /\ local' = [local EXCEPT ![h] = read] /\ UNCHANGED <<worker, swaps>>
    BY <1>2 DEF ShiftSwap!SaveSelect, ShiftSwap!Compare, ShiftSwap!Hold
  <2>2. /\ local[h].id \in Swaps /\ old \in ShiftSwap!SwapRows /\ local[h].cols \in SwapColumns
        /\ old.status # "none" /\ local[h].row.status # "none" /\ SwapSame(local[h].row, old)
    BY <1>0, <2>1 DEF SwapHeldTyped, SwapReadTyped, SwapLocals
  <2>3. cols \in SwapColumns
    BY <1>0, <2>2, SwapMerge DEF SwapColumns
  <2>4. ShiftSwap!Differing(old, local[h].row) \subseteq cols
    OBVIOUS
  <2> HIDE DEF cols
  <2>5. /\ read \in SwapLocals /\ read.row = local[h].row /\ read.cols = cols
        /\ read.id = local[h].id
    BY <1>0, <2>3 DEF SwapLocals
  <2>6. /\ ~torn => SwapSound(local[h].row)
        /\ SwapInHand(h) => SwapAnswers(local[h].row, old)
    BY <1>0, <2>1 DEF SwapHeldSound, SwapReadSound, SwapInHand, SwapReadHolds
  <2> HIDE DEF read
  <2> QED
    BY <2>1, <2>2, <2>4, <2>5, <2>6, SwapReadsKeep DEF ShiftSwap!Steps, SwapReadTyped,
       SwapReadSound, SwapReadHolds
<1>3. CASE ShiftSwap!Save(h)
  <2> DEFINE old == swaps[local[h].id]
             new == ShiftSwap!Merged(old, local[h].row, local[h].cols)
  <2>1. pc[h] = "updating" /\ ShiftSwap!Write(h, new)
    BY <1>3 DEF ShiftSwap!Save
  <2>2. /\ local[h].id \in Swaps /\ old \in ShiftSwap!SwapRows /\ old.status # "none"
        /\ local[h].row.status # "none" /\ SwapSame(local[h].row, old) /\ SwapParties(old)
    BY <1>0, <2>1 DEF SwapHeldTyped, SwapReadTyped
  <2>3. /\ ~torn => SwapSound(local[h].row) /\ ShiftSwap!Differing(old, local[h].row) \subseteq local[h].cols
        /\ SwapInHand(h) => SwapAnswers(local[h].row, old)
    BY <1>0, <2>1 DEF SwapHeldSound, SwapReadSound, SwapInHand, SwapReadHolds
  <2> HIDE DEF old
  <2>4. /\ new \in ShiftSwap!SwapRows /\ new.status # "none" /\ SwapSame(new, old)
        /\ ~torn => new = local[h].row
    BY <1>0, <2>2, <2>3, SwapMerge
  <2> HIDE DEF new
  <2>5. SwapParties(new)
    BY <2>2, <2>4 DEF SwapParties, SwapSame
  <2> QED
    BY <2>1, <2>2, <2>3, <2>4, <2>5, SwapWriteKeeps DEF old
<1> QED
  BY <1>1, <1>2, <1>3

\* The approval sets a status, with the roster of the two parties.
LEMMA SwapApprovesKeep ==
  ASSUME SwapInv, NEW h \in Handlers,
         (\E w \in Swaps : ShiftSwap!Approve(h, w)) \/ ShiftSwap!ApproveCommit(h)
  PROVE  SwapKept(h)
<1>0. /\ worker \in [Shifts -> ShiftSwap!OrNone(Users)] /\ swaps \in [Swaps -> ShiftSwap!SwapRows]
      /\ local[h] \in SwapLocals /\ SwapHeldTyped(h) /\ None \notin Users /\ None \notin Shifts
      /\ \A w \in Swaps : SwapRefers(w) /\ SwapParties(swaps[w])
      /\ ~torn => \A w \in Swaps : SwapSound(swaps[w])
  BY SwapGiven DEF SwapInv, SwapTyped, ShiftSwap!NoneAssumption
<1>1. ASSUME NEW w \in Swaps, ShiftSwap!Approve(h, w)
      PROVE  SwapKept(h)
  <2> DEFINE read == [ShiftSwap!NoLocal EXCEPT !.id = w, !.row = swaps[w],
                        !.mine = ShiftSwap!WorkerOf(swaps[w].shift),
                        !.theirs = ShiftSwap!WorkerOf(swaps[w].targetShift)]
  <2>1. \A s \in ShiftSwap!OrNone(Shifts) : ShiftSwap!WorkerOf(s) \in ShiftSwap!OrNone(Users)
    BY <1>0 DEF ShiftSwap!WorkerOf, ShiftSwap!OrNone
  <2>2. /\ swaps[w] \in ShiftSwap!SwapRows
        /\ ShiftSwap!WorkerOf(swaps[w].shift) \in ShiftSwap!OrNone(Users)
        /\ ShiftSwap!WorkerOf(swaps[w].targetShift) \in ShiftSwap!OrNone(Users)
    BY <1>0, <2>1 DEF ShiftSwap!SwapRows
  <2>3. read \in SwapLocals /\ read.id = w
    BY <2>2, SwapEmpty DEF ShiftSwap!NoLocal, SwapLocals, ShiftSwap!OrNone
  <2>4. /\ ShiftSwap!Goto(h, "approving") /\ local' = [local EXCEPT ![h] = read]
        /\ UNCHANGED <<worker, swaps>> /\ swaps[w].status = "pending_approval"
    BY <1>1 DEF ShiftSwap!Approve, ShiftSwap!Hold
  <2> HIDE DEF read
  <2> QED
    BY <2>3, <2>4, SwapReadsKeep DEF ShiftSwap!Steps, SwapReadTyped, SwapReadSound, SwapReadHolds
<1>2. CASE ShiftSwap!ApproveCommit(h)
  <2> DEFINE id == local[h].id
  <2>1. /\ pc[h] = "approving" /\ ShiftSwap!Return(h) /\ worker' = ShiftSwap!Exchanged(h)
        /\ swaps' = [swaps EXCEPT ![id].status = "approved"]
    BY <1>2 DEF ShiftSwap!ApproveCommit
  <2>2. id \in Swaps /\ swaps[id].status # "none"
    BY <1>0, <2>1 DEF SwapHeldTyped, SwapReadTyped
  <2>3. /\ worker' \in [Shifts -> ShiftSwap!OrNone(Users)]
        /\ \A s \in Shifts : worker[s] # None => worker'[s] # None
    <3>1. local[h].mine \in ShiftSwap!OrNone(Users) /\ local[h].theirs \in ShiftSwap!OrNone(Users)
          /\ local[h].row.target \in ShiftSwap!OrNone(Users)
      BY <1>0 DEF SwapLocals, ShiftSwap!SwapRows
    <3> QED
      BY <1>0, <2>1, <3>1 DEF ShiftSwap!Exchanged
  <2>4. /\ swaps' \in [Swaps -> ShiftSwap!SwapRows]
        /\ \A w \in Swaps \ {id} : swaps'[w] = swaps[w]
        /\ swaps'[id] = [swaps[id] EXCEPT !.status = "approved"]
    BY <1>0, <2>1, <2>2 DEF ShiftSwap!SwapRows, ShiftSwap!Statuses
  <2>5. /\ swaps'[id].status = "approved" /\ SwapSame(swaps'[id], swaps[id])
        /\ swaps'[id].shift = swaps[id].shift /\ swaps'[id].targetShift = swaps[id].targetShift
    BY <1>0, <2>2, <2>4 DEF ShiftSwap!SwapRows, SwapSame
  <2> HIDE DEF id
  <2>6. \A w \in Swaps :
          /\ SwapRefers(w)' /\ SwapParties(swaps'[w])
          /\ swaps[w].status # "none" => swaps'[w].status # "none" /\ SwapSame(swaps'[w], swaps[w])
          /\ swaps[w].status = "none" => swaps'[w].status = "none"
          /\ ~torn => SwapSound(swaps'[w])
    <3>1. ASSUME NEW w \in Swaps
          PROVE  SwapRefers(w)'
      BY <1>0, <2>3, <2>4, <2>5 DEF SwapRefers, SwapPresent
    <3>2. SwapParties(swaps'[id]) /\ SwapSound(swaps'[id])
      BY <1>0, <2>2, <2>5 DEF SwapParties, SwapSame, SwapSound
    <3> QED
      BY <1>0, <2>2, <2>4, <2>5, <3>1, <3>2 DEF SwapSame
  <2>7. ASSUME SwapDistinct, SwapInHand(h)
        PROVE  SwapDistinct' /\ ShiftSwap!DecisionKept /\ ShiftSwap!RosterKept
    <3>1. swaps[id].status = "pending_approval"
      BY <2>1, <2>7 DEF SwapInHand, SwapReadHolds, id
    <3>2. SwapDistinct'
      BY <2>4, <2>5, <2>7 DEF SwapDistinct, ShiftSwap!Open
    <3> QED
      BY <2>2, <2>4, <2>5, <3>1, <3>2 DEF ShiftSwap!DecisionKept, ShiftSwap!RosterKept, ShiftSwap!Open
  <2>8. /\ pc' \in [Handlers -> ShiftSwap!Steps] /\ local' \in [Handlers -> SwapLocals]
        /\ pc'[h] = "idle" /\ SwapHeldTyped(h)' /\ SwapHeldSound(h)' /\ SwapInHand(h)'
        /\ \A g \in Handlers \ {h} : pc'[g] = pc[g] /\ local'[g] = local[g]
    BY <2>1, SwapReturned
  <2>9. SwapTyped'
    BY <2>3, <2>4, <2>8 DEF SwapTyped
  <2> QED
    BY <2>6, <2>7, <2>8, <2>9 DEF SwapKept
<1> QED
  BY <1>1, <1>2

\* The roster moves under the requests; a deleted assignment leaves the columns of
\* a request that name the employees.
LEMMA SwapRosterKeeps ==
  ASSUME SwapInv, NEW h \in Handlers,
         \/ \E s \in Shifts :
              ShiftSwap!Edit(h, s) \/ ShiftSwap!DeleteAssignment(h, s) \/ \E u \in Users :
                ShiftSwap!Assign(h, s, u)
         \/ ShiftSwap!EditSave(h)
  PROVE  SwapKept(h)
<1>0. /\ worker \in [Shifts -> ShiftSwap!OrNone(Users)] /\ swaps \in [Swaps -> ShiftSwap!SwapRows]
      /\ pc \in [Handlers -> ShiftSwap!Steps] /\ local \in [Handlers -> SwapLocals]
      /\ local[h] \in SwapLocals /\ SwapHeldTyped(h) /\ None \notin Users /\ None \notin Shifts
      /\ \A w \in Swaps : SwapRefers(w) /\ SwapParties(swaps[w]) /\ SwapSame(swaps[w], swaps[w])
      /\ ~torn => \A w \in Swaps : SwapSound(swaps[w])
  BY SwapGiven DEF SwapInv, SwapTyped, ShiftSwap!NoneAssumption, SwapSame
<1>1. ASSUME NEW s \in Shifts, ShiftSwap!Edit(h, s)
      PROVE  SwapKept(h)
  <2> DEFINE read == [ShiftSwap!NoLocal EXCEPT !.id = s, !.mine = worker[s]]
  <2>1. worker[s] \in Users
    BY <1>0, <1>1 DEF ShiftSwap!Edit, ShiftSwap!OrNone
  <2>2. read \in SwapLocals /\ read.id = s /\ read.mine = worker[s]
    BY <2>1, SwapEmpty DEF ShiftSwap!NoLocal, SwapLocals, ShiftSwap!OrNone
  <2>3. /\ ShiftSwap!Goto(h, "editing") /\ local' = [local EXCEPT ![h] = read]
        /\ UNCHANGED <<worker, swaps>>
    BY <1>1 DEF ShiftSwap!Edit
  <2> HIDE DEF read
  <2> QED
    BY <2>1, <2>2, <2>3, SwapReadsKeep DEF ShiftSwap!Steps, SwapReadTyped, SwapReadSound,
       SwapReadHolds
<1>2. ASSUME pc[h] = "idle", pc' = pc, local' = local, worker' \in [Shifts -> ShiftSwap!OrNone(Users)],
             \A q \in Shifts : worker'[q] # worker[q] => None \in {worker[q], worker'[q]},
             swaps' \in [Swaps -> ShiftSwap!SwapRows],
             \A w \in Swaps : /\ SwapRefers(w)' /\ SwapSame(swaps'[w], swaps[w])
                              /\ swaps'[w].target = swaps[w].target
                              /\ swaps'[w].status = swaps[w].status
                              /\ swaps'[w].shift \in {swaps[w].shift, None}
      PROVE  SwapKept(h)
  <2>1. SwapTyped' /\ SwapHeldTyped(h)' /\ SwapHeldSound(h)' /\ SwapInHand(h)'
    BY <1>0, <1>2 DEF SwapTyped, SwapHeldTyped, SwapReadTyped, SwapHeldSound, SwapReadSound,
       SwapInHand, SwapReadHolds
  <2>2. \A w \in Swaps : SwapParties(swaps'[w]) /\ (~torn => SwapSound(swaps'[w]))
    BY <1>0, <1>2 DEF SwapParties, SwapSound, SwapSame
  <2>3. SwapDistinct => SwapDistinct'
    BY <1>2 DEF SwapDistinct, ShiftSwap!Open
  <2>4. ShiftSwap!DecisionKept /\ ShiftSwap!RosterKept
    BY <1>2 DEF ShiftSwap!DecisionKept, ShiftSwap!RosterKept
  <2> QED
    BY <1>2, <2>1, <2>2, <2>3, <2>4 DEF SwapKept
<1>3. ASSUME NEW s \in Shifts, NEW u \in Users, ShiftSwap!Assign(h, s, u)
      PROVE  SwapKept(h)
  <2>1. /\ worker' = [worker EXCEPT ![s] = u] /\ worker[s] = None /\ pc[h] = "idle"
        /\ swaps' = swaps /\ pc' = pc /\ local' = local
    BY <1>3 DEF ShiftSwap!Assign
  <2>2. worker' \in [Shifts -> ShiftSwap!OrNone(Users)] /\ \A w \in Swaps : SwapRefers(w)'
    BY <1>0, <2>1 DEF SwapRefers, SwapPresent, ShiftSwap!OrNone
  <2> QED
    BY <1>0, <1>2, <2>1, <2>2
<1>4. ASSUME NEW s \in Shifts, ShiftSwap!DeleteAssignment(h, s)
      PROVE  SwapKept(h)
  <2>1. /\ worker' = [worker EXCEPT ![s] = None] /\ pc[h] = "idle" /\ pc' = pc /\ local' = local
        /\ swaps' = [w \in Swaps |-> [swaps[w] EXCEPT !.shift = ShiftSwap!Without(s, @), !.targetShift = ShiftSwap!Without(s, @)]]
    BY <1>4 DEF ShiftSwap!DeleteAssignment
  <2>2. ASSUME NEW w \in Swaps
        PROVE  /\ swaps'[w] \in ShiftSwap!SwapRows
               /\ swaps'[w].shift = ShiftSwap!Without(s, swaps[w].shift)
               /\ swaps'[w].targetShift = ShiftSwap!Without(s, swaps[w].targetShift)
               /\ swaps'[w].status = swaps[w].status /\ swaps'[w].target = swaps[w].target
               /\ SwapSame(swaps'[w], swaps[w])
    <3>1. swaps[w] \in ShiftSwap!SwapRows
      BY <1>0
    <3>2. swaps'[w] = [swaps[w] EXCEPT !.shift = ShiftSwap!Without(s, @), !.targetShift = ShiftSwap!Without(s, @)]
      BY <2>1
    <3> QED
      BY <3>1, <3>2 DEF ShiftSwap!SwapRows, ShiftSwap!Without, ShiftSwap!OrNone, SwapSame
  <2>3. ASSUME NEW w \in Swaps
        PROVE  SwapRefers(w)'
    <3>1. SwapPresent(swaps[w].shift) /\ SwapPresent(swaps[w].targetShift)
      BY <1>0 DEF SwapRefers
    <3>2. \A q \in Shifts \ {s} : worker'[q] = worker[q]
      BY <1>0, <2>1
    <3> QED
      BY <2>2, <3>1, <3>2 DEF SwapRefers, SwapPresent, ShiftSwap!Without
  <2>4. swaps' \in [Swaps -> ShiftSwap!SwapRows]
    BY <2>1, <2>2
  <2>5. \A w \in Swaps : swaps'[w].shift \in {swaps[w].shift, None}
    BY <2>2 DEF ShiftSwap!Without
  <2>6. /\ worker' \in [Shifts -> ShiftSwap!OrNone(Users)]
        /\ \A q \in Shifts : worker'[q] # worker[q] => worker'[q] = None
    BY <1>0, <2>1 DEF ShiftSwap!OrNone
  <2> QED
    BY <1>2, <2>1, <2>2, <2>3, <2>4, <2>5, <2>6
<1>5. CASE ShiftSwap!EditSave(h)
  <2>1. /\ worker' = [worker EXCEPT ![local[h].id] = local[h].mine] /\ swaps' = swaps
        /\ ShiftSwap!Return(h) /\ pc[h] = "editing"
    BY <1>5 DEF ShiftSwap!EditSave
  <2>2. local[h].id \in Shifts /\ local[h].mine \in Users
    BY <1>0, <2>1 DEF SwapHeldTyped, SwapReadTyped
  <2>3. worker' \in [Shifts -> ShiftSwap!OrNone(Users)] /\ \A w \in Swaps : SwapRefers(w)'
    BY <1>0, <2>1, <2>2 DEF SwapRefers, SwapPresent, ShiftSwap!OrNone
  <2>4. SwapInHand(h) => worker' = worker
    BY <1>0, <2>1, <2>2 DEF SwapInHand, SwapReadHolds
  <2>5. /\ pc' \in [Handlers -> ShiftSwap!Steps] /\ local' \in [Handlers -> SwapLocals]
        /\ pc'[h] = "idle" /\ SwapHeldTyped(h)' /\ SwapHeldSound(h)' /\ SwapInHand(h)'
        /\ \A g \in Handlers \ {h} : pc'[g] = pc[g] /\ local'[g] = local[g]
    BY <2>1, SwapReturned
  <2>6. SwapTyped'
    BY <1>0, <2>1, <2>3, <2>5 DEF SwapTyped
  <2>7. SwapInHand(h) /\ SwapDistinct =>
          SwapDistinct' /\ ShiftSwap!DecisionKept /\ ShiftSwap!RosterKept
    BY <2>1, <2>4 DEF SwapDistinct, ShiftSwap!DecisionKept, ShiftSwap!RosterKept
  <2> QED
    BY <1>0, <2>1, <2>3, <2>5, <2>6, <2>7 DEF SwapKept
<1> QED
  BY <1>1, <1>3, <1>4, <1>5

\* The initial states have the invariant.
LEMMA SwapInitHolds == ShiftSwap!Init => SwapFullInv
<1> SUFFICES ASSUME ShiftSwap!Init PROVE SwapFullInv
  OBVIOUS
<1>1. /\ overlapped = FALSE /\ torn = FALSE
      /\ \A h \in Handlers : pc[h] = "idle" /\ local[h] = ShiftSwap!NoLocal
      /\ \A w \in Swaps : swaps[w] = ShiftSwap!NoSwap
  BY DEF ShiftSwap!Init, ShiftSwap!AllIdle
<1>2. overlapped \in BOOLEAN /\ torn \in BOOLEAN
  BY <1>1, Zenon
<1>3. SwapTyped
  BY SwapEmpty DEF ShiftSwap!Init, ShiftSwap!AllIdle, SwapTyped, ShiftSwap!Steps, ShiftSwap!OrNone
<1>4. \A h \in Handlers : SwapHeldTyped(h) /\ SwapHeldSound(h) /\ SwapInHand(h)
  BY <1>1 DEF SwapHeldTyped, SwapReadTyped, SwapHeldSound, SwapReadSound, SwapInHand, SwapReadHolds
<1>5. \A w \in Swaps : SwapRefers(w) /\ SwapParties(swaps[w]) /\ SwapSound(swaps[w])
  BY <1>1 DEF SwapRefers, SwapPresent, SwapParties, SwapSound, ShiftSwap!NoSwap
<1>6. SwapDistinct /\ SwapFresh /\ Alone
  BY <1>1, SwapEmpty DEF SwapDistinct, SwapFresh, ShiftSwap!Open, Alone, ShiftSwap!InFlight
<1> QED
  BY <1>1, <1>2, <1>3, <1>4, <1>5, <1>6 DEF SwapFullInv, SwapInv, SwapSoloInv

\* A step of any handler.
LEMMA SwapHandlerKeeps ==
  ASSUME SwapInv, NEW h \in Handlers, ShiftSwap!HandlerStep(h)
  PROVE  SwapKept(h)
  BY SwapAnswersKeep, SwapCreateKeeps, SwapSavesKeep, SwapApprovesKeep, SwapRosterKeeps
     DEF ShiftSwap!HandlerStep

\* Every step keeps the invariant, and does what is said of every step.
LEMMA SwapStepHolds == SwapFullInv /\ [ShiftSwap!Next]_(ShiftSwap!vars) =>
                         SwapFullInv' /\ ShiftSwap!DecisionKept /\ ShiftSwap!RosterKept
<1> SUFFICES ASSUME SwapFullInv, [ShiftSwap!Next]_(ShiftSwap!vars)
             PROVE  SwapFullInv' /\ ShiftSwap!DecisionKept /\ ShiftSwap!RosterKept
  OBVIOUS
<1>1. CASE UNCHANGED ShiftSwap!vars
  <2>1. SwapTyped' /\ SwapFresh' /\ overlapped' = overlapped /\ torn' = torn
    BY <1>1 DEF SwapFullInv, SwapInv, SwapTyped, SwapFresh, ShiftSwap!vars
  <2>2. /\ \A w \in Swaps : SwapRefers(w)' /\ SwapParties(swaps[w])' /\ swaps'[w] = swaps[w]
        /\ \A h \in Handlers : SwapHeldTyped(h)'
    BY <1>1 DEF SwapFullInv, SwapInv, ShiftSwap!vars, SwapRefers, SwapPresent, SwapParties,
       SwapHeldTyped, SwapReadTyped, SwapSame
  <2>3. ~torn => (\A w \in Swaps : SwapSound(swaps[w])') /\ \A h \in Handlers : SwapHeldSound(h)'
    BY <1>1 DEF SwapFullInv, SwapInv, ShiftSwap!vars, SwapSound, SwapHeldSound, SwapReadSound,
       ShiftSwap!Differing
  <2>4. Alone' /\ (~overlapped => SwapDistinct' /\ \A h \in Handlers : SwapInHand(h)')
    BY <1>1 DEF SwapFullInv, SwapSoloInv, ShiftSwap!vars, Alone, ShiftSwap!InFlight, SwapDistinct,
       SwapInHand, SwapReadHolds, SwapAnswers, ShiftSwap!NotOffered, ShiftSwap!Open
  <2>5. ShiftSwap!DecisionKept /\ ShiftSwap!RosterKept
    BY <1>1 DEF ShiftSwap!vars, ShiftSwap!DecisionKept, ShiftSwap!RosterKept
  <2> QED
    BY <2>1, <2>2, <2>3, <2>4, <2>5 DEF SwapFullInv, SwapInv, SwapSoloInv
<1>2. ASSUME NEW h \in Handlers, ShiftSwap!HandlerStep(h), ShiftSwap!Overlap(h), ShiftSwap!Tear(h)
      PROVE  SwapFullInv' /\ ShiftSwap!DecisionKept /\ ShiftSwap!RosterKept
  <2>1. SwapKept(h) /\ SwapInv /\ SwapSoloInv
    BY <1>2, SwapHandlerKeeps DEF SwapFullInv
  <2>2. overlapped' \in BOOLEAN /\ torn' \in BOOLEAN
    BY <1>2, <2>1 DEF SwapInv, ShiftSwap!Overlap, ShiftSwap!Tear
  <2>3. ASSUME NEW g \in Handlers \ {h}
        PROVE  SwapHeldTyped(g)'
    <3>1. SwapHeldTyped(g) /\ pc'[g] = pc[g] /\ local'[g] = local[g]
      BY <2>1 DEF SwapInv, SwapKept
    <3>2. pc[g] = "creating" => swaps'[local[g].id].status = "none"
      BY <2>1, <3>1 DEF SwapInv, SwapKept, SwapFresh, SwapHeldTyped, SwapReadTyped
    <3>3. pc[g] \in {"saving", "updating", "approving"} =>
            /\ swaps'[local[g].id].status # "none"
            /\ SwapSame(swaps'[local[g].id], swaps[local[g].id])
      BY <2>1, <3>1 DEF SwapKept, SwapHeldTyped, SwapReadTyped
    <3> QED
      BY <3>1, <3>2, <3>3 DEF SwapHeldTyped, SwapReadTyped, SwapSame, SwapParties
  <2>4. SwapFresh'
    BY <2>1 DEF SwapInv, SwapKept, SwapFresh
  <2>5. ASSUME ~torn', NEW g \in Handlers \ {h}
        PROVE  SwapHeldSound(g)'
    <3>1. ~torn /\ (pc[g] = "updating" => swaps'[local[g].id] = swaps[local[g].id])
      BY <1>2, <2>5 DEF ShiftSwap!Tear
    <3>2. SwapHeldSound(g) /\ pc'[g] = pc[g] /\ local'[g] = local[g]
      BY <2>1, <3>1 DEF SwapInv, SwapKept
    <3> QED
      BY <3>1, <3>2 DEF SwapHeldSound, SwapReadSound, SwapSound, ShiftSwap!Differing
  <2>6. SwapInv'
    <3>1. torn' = FALSE => torn = FALSE
      BY <1>2, <2>1 DEF ShiftSwap!Tear, SwapInv
    <3>2. ~torn' => (\A w \in Swaps : SwapSound(swaps[w])') /\ \A g \in Handlers : SwapHeldSound(g)'
      BY <2>1, <2>2, <2>5, <3>1 DEF SwapKept, SwapSound
    <3>3. \A w \in Swaps : SwapRefers(w)' /\ SwapParties(swaps[w])'
      BY <2>1 DEF SwapKept, SwapParties
    <3> QED
      BY <2>1, <2>2, <2>3, <2>4, <3>2, <3>3 DEF SwapInv, SwapKept
  <2>7. ASSUME ~overlapped'
        PROVE  /\ Alone' /\ ~torn' /\ SwapDistinct' /\ (\A g \in Handlers : SwapInHand(g)')
               /\ ShiftSwap!DecisionKept /\ ShiftSwap!RosterKept
    <3>1. ~overlapped /\ \A g \in Handlers \ {h} : pc[g] = "idle" /\ pc'[g] = "idle"
      BY <1>2, <2>1, <2>7 DEF ShiftSwap!Overlap, ShiftSwap!InFlight, SwapKept
    <3>2. ~torn /\ ~torn'
      BY <1>2, <2>1, <3>1 DEF SwapSoloInv, ShiftSwap!Tear
    <3>3. \A g \in Handlers \ {h} : SwapInHand(g)'
      BY <3>1 DEF SwapInHand, SwapReadHolds
    <3>4. Alone'
      BY <3>1 DEF Alone, ShiftSwap!InFlight
    <3> QED
      BY <2>1, <3>1, <3>2, <3>3, <3>4 DEF SwapKept, SwapSoloInv
  <2>8. overlapped' => Alone' /\ ShiftSwap!DecisionKept /\ ShiftSwap!RosterKept
    BY DEF Alone, ShiftSwap!DecisionKept, ShiftSwap!RosterKept
  <2> QED
    BY <2>2, <2>6, <2>7, <2>8 DEF SwapFullInv, SwapSoloInv
<1> QED
  BY <1>1, <1>2 DEF ShiftSwap!Next

\* The invariant is enough.
LEMMA SwapPromised == SwapFullInv =>
                        ShiftSwap!TypeOK /\ ShiftSwap!ReadyForApproval /\ ShiftSwap!OfferedOnce
<1> SUFFICES ASSUME SwapFullInv
             PROVE  ShiftSwap!TypeOK /\ ShiftSwap!ReadyForApproval /\ ShiftSwap!OfferedOnce
  OBVIOUS
<1>1. \A w \in Swaps :
        {swaps[w].shift, swaps[w].targetShift} \subseteq ShiftSwap!OrNone({s \in Shifts : worker[s] # None})
  BY DEF SwapFullInv, SwapInv, SwapRefers, SwapPresent, ShiftSwap!OrNone
<1>2. ShiftSwap!TypeOK
  BY <1>1 DEF SwapFullInv, SwapInv, SwapTyped, SwapLocals, SwapColumns, ShiftSwap!TypeOK
<1>3. ShiftSwap!ReadyForApproval
  BY DEF SwapFullInv, SwapInv, SwapSound, SwapParties, ShiftSwap!ReadyForApproval
<1>4. ShiftSwap!OfferedOnce
  BY DEF SwapFullInv, SwapSoloInv, SwapDistinct, ShiftSwap!OfferedOnce
<1> QED
  BY <1>2, <1>3, <1>4
-----------------------------------------------------------------------------
(***************************************************************************)
(* invitations. The limit of a link never changes, so that every row in    *)
(* hand is checked against the same; between joining and counting, the     *)
(* account is counted through its handler.                                 *)
(***************************************************************************)
\* What is assumed of the constants.
LEMMA InviteGiven == Invitations!LimitsAssumption /\ Invitations!NoneAssumption
  BY OfficeAssumption

\* What a handler may hold.
InviteLocals ==
  [id : Invitations!OrNone(Invites), row : Invitations!Rows, email : Invitations!OrNone(Emails)]
\* A limit is that of a link, and respected.
InviteSound(row) == /\ row \in Invitations!Rows
                    /\ (row.max # None => Invitations!IsLink(row) /\ row.used <= row.max)

\* What a handler in flight has in hand.
InviteHeld(h) ==
  /\ InviteSound(local[h].row)
  /\ pc[h] # "idle" => local[h].id \in Invites
  /\ pc[h] \in {"accepting", "counting", "joining"} => local[h].email \in Emails
  /\ pc[h] \in {"accepting", "counting"} =>
       ~(Invitations!IsLink(local[h].row) /\ Invitations!Full(local[h].row))
  /\ pc[h] \in {"inviting", "saving"} => local[h].row.max = None /\ local[h].row.status # "none"

\* The limit of an invitation is the same in the table and in every row that
\* was read of it.
InviteAgree ==
  \A i \in Invites : \A h \in Handlers : local[h].id = i =>
    /\ invites[i].status # "none" => invites[i].max = local[h].row.max
    /\ \A g \in Handlers : local[g].id = i => local[g].row.max = local[h].row.max

\* What holds however handlers interleave.
InviteInv ==
  /\ Invitations!TypeOK
  /\ \A i \in Invites : InviteSound(invites[i])
  /\ \A h \in Handlers : InviteHeld(h)
  /\ InviteAgree

\* A row in hand is that of the table.
InviteSame(row, i) ==
  /\ row.status = invites[i].status /\ row.kind = invites[i].kind
  /\ row.max = invites[i].max /\ row.used = invites[i].used

\* When handlers do not overlap, what the one at work has read still holds.
InviteInHand(h) ==
  \A i \in Invites : local[h].id = i =>
    /\ pc[h] \in {"inviting", "saving"} => invites[i].status = "none"
    /\ pc[h] \in {"accepting", "counting", "joining", "closing"} => InviteSame(local[h].row, i)
    /\ pc[h] \in {"accepting", "counting", "expiring"} => invites[i].status = "pending"
    /\ pc[h] = "joining" =>
         invites[i].status \notin {"none", "canceled"} /\ ~Invitations!Full(local[h].row)
    /\ pc[h] = "counting" /\ invites[i].max # None => made[i] <= invites[i].used + 1

\* The handler has made an account that is not counted yet.
InviteBehind(h, i) == pc[h] = "counting" /\ local[h].id = i
\* Every account that came of a link is counted, or is about to be.
InviteCounted ==
  \A i \in Invites : invites[i].max # None =>
    made[i] <= invites[i].used \/ \E h \in Handlers : InviteBehind(h, i)

\* What holds as long as they do not overlap.
InviteSoloInv == Alone /\ (~overlapped => InviteCounted /\ \A h \in Handlers : InviteInHand(h))

\* A canceled invitation stays so, unless it is sent again.
InviteStays ==
  \A i \in Invites : invites[i].status = "canceled" =>
    /\ made'[i] = made[i]
    /\ invites'[i].status = "pending" => ~invites'[i].over /\ \E h \in Handlers :
         pc[h] = "resending"
    /\ invites'[i].status \in {"none", "pending", "canceled"}

\* What a step of h does: it keeps the invariant, as long as h is alone all of
\* it.
InviteKept(h) ==
  /\ invites' \in [Invites -> Invitations!Rows] /\ members' \subseteq Emails
  /\ made' \in [Invites -> Nat]
  /\ pc' \in [Handlers -> Invitations!Steps] /\ local' \in [Handlers -> InviteLocals]
  /\ \A i \in Invites : InviteSound(invites[i])'
  /\ InviteHeld(h)' /\ InviteAgree'
  /\ \A g \in Handlers \ {h} : pc'[g] = pc[g] /\ local'[g] = local[g]
  /\ OnlyMe(h) /\ InviteCounted /\ InviteInHand(h) =>
       InviteCounted' /\ InviteInHand(h)' /\ InviteStays

\* What is held at rest, and in a row that is not there, is typed.
LEMMA InviteEmpty == /\ Invitations!NoRow \in Invitations!Rows
                     /\ InviteSound(Invitations!NoRow)
                     /\ Invitations!NoLocal \in InviteLocals
                     /\ Invitations!NoLocal.row = Invitations!NoRow
                     /\ Invitations!NoLocal.id = None /\ Invitations!NoRow.max = None
                     /\ Invitations!NoRow.status = "none"
  BY DEF Invitations!NoLocal, Invitations!NoRow, InviteLocals, Invitations!Rows, InviteSound,
     Invitations!OrNone, Invitations!Kinds, Invitations!Statuses

\* The initial states have the invariant.
LEMMA InviteInitHolds == Invitations!Init => InviteInv /\ InviteSoloInv
<1> SUFFICES ASSUME Invitations!Init PROVE InviteInv /\ InviteSoloInv
  OBVIOUS
<1>1. /\ overlapped = FALSE /\ \A h \in Handlers : pc[h] = "idle" /\ local[h] = Invitations!NoLocal
      /\ \A i \in Invites : invites[i] = Invitations!NoRow /\ made[i] = 0
  BY DEF Invitations!Init, Invitations!AllIdle
<1>2. overlapped \in BOOLEAN
  BY <1>1, Zenon
<1>3. Invitations!TypeOK
  BY <1>2, InviteEmpty DEF Invitations!Init, Invitations!AllIdle, Invitations!TypeOK,
     Invitations!Steps, InviteLocals
<1>4. (\A i \in Invites : InviteSound(invites[i])) /\ \A h \in Handlers : InviteHeld(h)
  BY <1>1, InviteEmpty DEF InviteHeld, InviteSound
<1>5. InviteAgree
  BY <1>1, InviteEmpty, InviteGiven DEF InviteAgree, Invitations!NoneAssumption
<1>6. InviteCounted /\ \A h \in Handlers : InviteInHand(h)
  BY <1>1, InviteEmpty DEF InviteCounted, InviteInHand
<1> QED
  BY <1>1, <1>3, <1>4, <1>5, <1>6 DEF InviteInv, InviteSoloInv, Alone, Invitations!InFlight

\* A handler that goes on takes what it has read with it; the others stay.
LEMMA InviteMoved ==
  ASSUME InviteInv, NEW h \in Handlers, NEW step \in Invitations!Steps, NEW read \in InviteLocals,
         Invitations!Goto(h, step), local' = [local EXCEPT ![h] = read]
  PROVE  /\ pc' \in [Handlers -> Invitations!Steps] /\ local' \in [Handlers -> InviteLocals]
         /\ pc'[h] = step /\ local'[h] = read
         /\ \A g \in Handlers \ {h} : pc'[g] = pc[g] /\ local'[g] = local[g]
  BY DEF InviteInv, Invitations!TypeOK, Invitations!Goto, InviteLocals

\* A handler that returns holds nothing; the others stay.
LEMMA InviteReturned ==
  ASSUME InviteInv, NEW h \in Handlers, Invitations!Return(h)
  PROVE  /\ pc' \in [Handlers -> Invitations!Steps] /\ local' \in [Handlers -> InviteLocals]
         /\ InviteHeld(h)' /\ InviteInHand(h)' /\ pc'[h] = "idle" /\ local'[h] = Invitations!NoLocal
         /\ \A g \in Handlers \ {h} : pc'[g] = pc[g] /\ local'[g] = local[g]
<1>1. /\ pc' \in [Handlers -> Invitations!Steps] /\ local' \in [Handlers -> InviteLocals]
      /\ pc'[h] = "idle"
      /\ local'[h] = Invitations!NoLocal
      /\ \A g \in Handlers \ {h} : pc'[g] = pc[g] /\ local'[g] = local[g]
  BY InviteMoved, InviteEmpty DEF Invitations!Return, Invitations!Hold, Invitations!Steps
<1>2. InviteHeld(h)'
  BY <1>1, InviteEmpty DEF InviteHeld, InviteSound
<1>3. InviteInHand(h)'
  BY <1>1 DEF InviteInHand
<1> QED
  BY <1>1, <1>2, <1>3

\* A handler that returns may write any rows that keep the limits they have, or
\* are new to everybody.
LEMMA InviteWritesKeep ==
  ASSUME InviteInv, NEW h \in Handlers,
         /\ pc' \in [Handlers -> Invitations!Steps] /\ local' \in [Handlers -> InviteLocals]
         /\ \A g \in Handlers \ {h} : pc'[g] = pc[g] /\ local'[g] = local[g],
         local'[h] = Invitations!NoLocal \/ local'[h] = local[h],
         \A i \in Invites : \/ invites'[i].status = "none"
                            \/ invites[i].status # "none" /\ invites'[i].max = invites[i].max
                            \/ \E g \in Handlers :
                                 local[g].id = i /\ invites'[i].max = local[g].row.max
                            \/ \A g \in Handlers : local[g].id # i
  PROVE  InviteAgree'
<1>1. \A g \in Handlers, i \in Invites : local'[g].id = i => local'[g] = local[g] /\ local[g].id = i
  BY InviteEmpty, InviteGiven DEF Invitations!NoneAssumption
<1> QED
  BY <1>1 DEF InviteInv, InviteAgree

\* An invitation is taken in hand.
LEMMA InviteFindKeeps ==
  ASSUME InviteInv, NEW h \in Handlers, NEW i \in Invites, NEW e \in Invitations!OrNone(Emails),
         NEW step \in Invitations!Steps, Invitations!Find(h, i, e, step),
         step \notin {"inviting", "saving", "idle", "counting"},
         step \in {"accepting", "joining"} => e \in Emails,
         step = "accepting" => ~(Invitations!IsLink(invites[i]) /\ Invitations!Full(invites[i])),
         step \in {"accepting", "expiring"} => invites[i].status = "pending",
         step = "joining" => invites[i].status # "canceled" /\ ~Invitations!Full(invites[i])
  PROVE  InviteKept(h)
<1> DEFINE read == [id |-> i, row |-> invites[i], email |-> e]
<1>0. /\ invites \in [Invites -> Invitations!Rows] /\ InviteSound(invites[i])
      /\ members \subseteq Emails
      /\ made \in [Invites -> Nat]
  BY DEF InviteInv, Invitations!TypeOK
<1>1. read \in InviteLocals /\ read.id = i /\ read.row = invites[i] /\ read.email = e
  BY <1>0 DEF InviteLocals, Invitations!OrNone, InviteSound
<1>2. /\ pc[h] = "idle" /\ invites[i].status # "none" /\ Invitations!Goto(h, step)
      /\ local' = [local EXCEPT ![h] = read]
      /\ invites' = invites /\ members' = members /\ made' = made
  BY DEF Invitations!Find
<1> HIDE DEF read
<1>3. /\ pc' \in [Handlers -> Invitations!Steps] /\ local' \in [Handlers -> InviteLocals]
      /\ pc'[h] = step /\ local'[h] = read
      /\ \A g \in Handlers \ {h} : pc'[g] = pc[g] /\ local'[g] = local[g]
  BY <1>1, <1>2, InviteMoved
<1>4. InviteHeld(h)'
  BY <1>0, <1>1, <1>3 DEF InviteHeld, InviteSound, Invitations!IsLink, Invitations!Full
<1>5. InviteAgree'
  BY <1>1, <1>2, <1>3 DEF InviteInv, InviteAgree
<1>6. InviteInHand(h)'
  BY <1>1, <1>2, <1>3 DEF InviteInHand, InviteSame, Invitations!Full
<1>7. ASSUME InviteCounted
      PROVE  InviteCounted'
  BY <1>2, <1>3, <1>7 DEF InviteCounted, InviteBehind
<1>8. InviteStays
  BY <1>2 DEF InviteStays
<1>9. \A j \in Invites : InviteSound(invites[j])'
  BY <1>2 DEF InviteInv, InviteSound, Invitations!IsLink
<1> QED
  BY <1>0, <1>2, <1>3, <1>4, <1>5, <1>6, <1>7, <1>8, <1>9 DEF InviteKept

\* Handlers that take an invitation in hand.
LEMMA InviteBeginsKeep ==
  ASSUME InviteInv, NEW h \in Handlers, NEW i \in Invites,
         \/ \E e \in Emails : Invitations!Accept(h, i, e) \/ Invitations!Join(h, i, e)
         \/ Invitations!Cancel(h, i) \/ Invitations!CancelLink(h, i)
         \/ Invitations!DeleteLink(h, i) \/ Invitations!Resend(h, i)
         \/ Invitations!FindOver(h, i)
  PROVE  InviteKept(h)
<1>1. \A e \in Emails : e \in Invitations!OrNone(Emails)
  BY DEF Invitations!OrNone
<1>2. None \in Invitations!OrNone(Emails)
  BY DEF Invitations!OrNone
<1>3. ASSUME NEW e \in Emails, Invitations!Accept(h, i, e) PROVE InviteKept(h)
  BY <1>1, <1>3, InviteFindKeeps DEF Invitations!Accept, Invitations!Steps
<1>4. ASSUME NEW e \in Emails, Invitations!Join(h, i, e) PROVE InviteKept(h)
  BY <1>1, <1>4, InviteFindKeeps DEF Invitations!Join, Invitations!Usable, Invitations!Steps
<1>5. CASE Invitations!Cancel(h, i) \/ Invitations!CancelLink(h, i) \/ Invitations!DeleteLink(h, i) \/ Invitations!Resend(h, i) \/ Invitations!FindOver(h, i)
  BY <1>2, <1>5, InviteFindKeeps DEF Invitations!Cancel, Invitations!CancelLink,
     Invitations!DeleteLink, Invitations!Resend, Invitations!FindOver, Invitations!Steps
<1> QED
  BY <1>3, <1>4, <1>5

\* A new invitation gets an id that nobody knows.
LEMMA InviteInviteKeeps ==
  ASSUME InviteInv, NEW h \in Handlers, NEW i \in Invites, NEW kind \in Invitations!Kinds,
         NEW e \in Emails, Invitations!Invite(h, i, kind, e)
  PROVE  InviteKept(h)
<1> DEFINE row == [Invitations!NoRow EXCEPT !.status = "pending", !.kind = kind, !.email = e]
           read == [id |-> i, email |-> e, row |-> row]
<1>0. /\ invites \in [Invites -> Invitations!Rows] /\ InviteSound(invites[i])
      /\ members \subseteq Emails
      /\ made \in [Invites -> Nat]
  BY DEF InviteInv, Invitations!TypeOK
<1>1. row \in Invitations!Rows /\ row.max = None /\ row.status = "pending"
  BY DEF Invitations!NoRow, Invitations!Rows, Invitations!Statuses, Invitations!OrNone
<1>2. /\ pc[h] = "idle" /\ Invitations!Fresh(i) /\ Invitations!Goto(h, "inviting")
      /\ local' = [local EXCEPT ![h] = read]
      /\ invites' = invites /\ members' = members /\ made' = made
  BY DEF Invitations!Invite
<1> HIDE DEF row
<1>3. read \in InviteLocals /\ read.id = i /\ read.row = row /\ read.email = e
  BY <1>1 DEF InviteLocals, Invitations!OrNone
<1> HIDE DEF read
<1>4. /\ pc' \in [Handlers -> Invitations!Steps] /\ local' \in [Handlers -> InviteLocals]
      /\ pc'[h] = "inviting" /\ local'[h] = read
      /\ \A g \in Handlers \ {h} : pc'[g] = pc[g] /\ local'[g] = local[g]
  BY <1>2, <1>3, InviteMoved DEF Invitations!Steps
<1>5. InviteHeld(h)'
  BY <1>1, <1>3, <1>4 DEF InviteHeld, InviteSound
<1>6. InviteAgree'
  BY <1>2, <1>3, <1>4 DEF InviteInv, InviteAgree, Invitations!Fresh
<1>7. InviteInHand(h)'
  BY <1>2, <1>3, <1>4 DEF InviteInHand, Invitations!Fresh
<1>8. InviteCounted => InviteCounted'
  BY <1>2, <1>4 DEF InviteCounted, InviteBehind
<1>9. InviteStays /\ \A j \in Invites : InviteSound(invites[j])'
  BY <1>2 DEF InviteStays, InviteInv, InviteSound, Invitations!IsLink
<1> QED
  BY <1>0, <1>2, <1>4, <1>5, <1>6, <1>7, <1>8, <1>9 DEF InviteKept

\* What was sent to the address before is canceled.
LEMMA InviteInviteCancelKeeps ==
  ASSUME InviteInv, NEW h \in Handlers, Invitations!InviteCancel(h)
  PROVE  InviteKept(h)
<1>0. /\ invites \in [Invites -> Invitations!Rows] /\ members \subseteq Emails
      /\ made \in [Invites -> Nat]
      /\ pc \in [Handlers -> Invitations!Steps] /\ local \in [Handlers -> InviteLocals]
  BY DEF InviteInv, Invitations!TypeOK, InviteLocals
<1>1. /\ pc[h] = "inviting" /\ pc' = [pc EXCEPT ![h] = "saving"] /\ members' = members
      /\ made' = made /\ local' = local
  BY DEF Invitations!InviteCancel, Invitations!Goto
<1>2. invites' = [i \in Invites |-> invites'[i]]
  BY DEF Invitations!InviteCancel
<1>3. ASSUME NEW i \in Invites
      PROVE  /\ invites'[i] \in Invitations!Rows /\ invites'[i].max = invites[i].max
             /\ invites'[i].used = invites[i].used
             /\ invites'[i].kind = invites[i].kind
             /\ invites[i].status = "none" <=> invites'[i].status = "none"
             /\ invites[i].status = "canceled" => invites'[i].status = "canceled"
  <2>1. invites'[i] = invites[i] \/ (invites[i].status = "pending" /\ invites'[i] = [invites[i] EXCEPT !.status = "canceled"])
    BY DEF Invitations!InviteCancel
  <2> QED
    BY <1>0, <2>1 DEF Invitations!Rows, Invitations!Statuses
<1>4. invites' \in [Invites -> Invitations!Rows]
  BY <1>2, <1>3
<1>5. \A i \in Invites : InviteSound(invites[i])'
  BY <1>3 DEF InviteInv, InviteSound, Invitations!IsLink
<1>6. InviteHeld(h)' /\ InviteAgree'
  BY <1>0, <1>1, <1>3 DEF InviteInv, InviteHeld, InviteAgree, InviteSound
<1>7. ASSUME OnlyMe(h), InviteCounted, InviteInHand(h)
      PROVE  InviteCounted' /\ InviteInHand(h)' /\ InviteStays
  BY <1>0, <1>1, <1>3, <1>7 DEF InviteCounted, InviteInHand, InviteStays, InviteBehind
<1> QED
  BY <1>0, <1>1, <1>4, <1>5, <1>6, <1>7, Zenon DEF InviteKept, Invitations!Steps

\* Rows are written, limits stay.
LEMMA InviteWritesKeepAll ==
  ASSUME InviteInv, NEW h \in Handlers,
         invites' \in [Invites -> Invitations!Rows], \A i \in Invites : InviteSound(invites[i])',
         members' \subseteq Emails, made' \in [Invites -> Nat], Invitations!Return(h),
         \A i \in Invites : \/ invites'[i].status = "none"
                            \/ invites[i].status # "none" /\ invites'[i].max = invites[i].max
                            \/ local[h].id = i /\ invites'[i].max = local[h].row.max,
         OnlyMe(h) /\ InviteCounted /\ InviteInHand(h) =>
           InviteStays /\ \A i \in Invites : invites'[i].max # None => made'[i] <= invites'[i].used
  PROVE  InviteKept(h)
<1>1. /\ pc' \in [Handlers -> Invitations!Steps] /\ local' \in [Handlers -> InviteLocals]
      /\ InviteHeld(h)' /\ InviteInHand(h)' /\ pc'[h] = "idle" /\ local'[h] = Invitations!NoLocal
      /\ \A g \in Handlers \ {h} : pc'[g] = pc[g] /\ local'[g] = local[g]
  BY InviteReturned
<1>2. InviteAgree'
  BY <1>1, InviteWritesKeep
<1>3. OnlyMe(h) /\ InviteCounted /\ InviteInHand(h) => InviteCounted'
  BY DEF InviteCounted
<1> QED
  BY <1>1, <1>2, <1>3 DEF InviteKept

\* An invitation that is not counting yet: what is made is counted.
LEMMA InviteAllCounted ==
  ASSUME InviteInv, NEW h \in Handlers, OnlyMe(h), InviteCounted, InviteInHand(h),
         NEW i \in Invites, invites[i].max # None,
         pc[h] # "counting" \/ local[h].id # i
  PROVE  made[i] <= invites[i].used
  BY DEF OnlyMe, InviteCounted, InviteBehind

\* Handlers that change the status.
LEMMA InviteSetsKeep ==
  ASSUME InviteInv, NEW h \in Handlers, NEW status \in Invitations!Statuses \ {"none"},
         NEW over \in BOOLEAN, Invitations!Return(h),
         pc[h] \notin {"idle", "counting"},
         Invitations!Set(local[h].id, [invites[local[h].id] EXCEPT !.status = status, !.over = over]),
         members' = members, made' = made,
         InviteInHand(h) => \/ status = "canceled"
                            \/ status = "pending" /\ ~over /\ pc[h] = "resending"
                            \/ pc[h] = "expiring"
  PROVE  InviteKept(h)
<1>0. /\ invites \in [Invites -> Invitations!Rows] /\ members \subseteq Emails
      /\ made \in [Invites -> Nat]
      /\ InviteHeld(h)
  BY DEF InviteInv, Invitations!TypeOK
<1>1. PICK m \in Invites : local[h].id = m
  BY <1>0 DEF InviteHeld
<1> DEFINE row == [invites[m] EXCEPT !.status = status, !.over = over]
<1>2. row \in Invitations!Rows /\ row.max = invites[m].max /\ row.used = invites[m].used /\ row.kind = invites[m].kind
      /\ row.status = status /\ row.over = over
  BY <1>0 DEF Invitations!Rows
<1>3. invites' = IF invites[m].status = "none" THEN invites ELSE [invites EXCEPT ![m] = row]
  BY <1>1 DEF Invitations!Set
<1> HIDE DEF row
<1>4. invites' \in [Invites -> Invitations!Rows]
  BY <1>0, <1>2, <1>3
<1>5. \A i \in Invites : /\ invites'[i].max = invites[i].max /\ invites'[i].used = invites[i].used
                         /\ invites'[i].kind = invites[i].kind
                         /\ i # m => invites'[i] = invites[i]
                         /\ invites[i].status = "none" <=> invites'[i].status = "none"
  BY <1>0, <1>2, <1>3
<1>6. \A i \in Invites : InviteSound(invites[i])'
  BY <1>4, <1>5 DEF InviteInv, InviteSound, Invitations!IsLink
<1>7. ASSUME OnlyMe(h), InviteCounted, InviteInHand(h)
      PROVE  /\ InviteStays
             /\ \A i \in Invites : invites'[i].max # None => made'[i] <= invites'[i].used
  <2>1. InviteStays
    <3>1. ASSUME NEW i \in Invites, invites[i].status = "canceled"
          PROVE  \/ invites'[i].status = "canceled"
                 \/ invites'[i].status = "pending" /\ ~invites'[i].over /\ pc[h] = "resending"
      <4>1. CASE i # m
        BY <1>5, <3>1, <4>1
      <4>2. CASE i = m
        BY <1>0, <1>1, <1>2, <1>3, <1>7, <3>1, <4>2 DEF InviteInHand
      <4> QED
        BY <4>1, <4>2
    <3> QED
      BY <3>1 DEF InviteStays
  <2> QED
    BY <1>5, <1>7, <2>1, InviteAllCounted
<1> QED
  BY <1>0, <1>4, <1>5, <1>6, <1>7, InviteWritesKeepAll

\* Handlers that write an invitation and return.
LEMMA InviteUpdatesKeep ==
  ASSUME InviteInv, NEW h \in Handlers,
         Invitations!CancelUpdate(h) \/ Invitations!ResendUpdate(h) \/ Invitations!ExpireUpdate(h)
  PROVE  InviteKept(h)
<1>0. invites \in [Invites -> Invitations!Rows] /\ InviteHeld(h)
  BY DEF InviteInv, Invitations!TypeOK
<1>1. pc[h] # "idle" => invites[local[h].id] \in Invitations!Rows
  BY <1>0 DEF InviteHeld
<1>2. \A row \in Invitations!Rows : \A s :
        /\ [row EXCEPT !.status = s] = [row EXCEPT !.status = s, !.over = row.over]
        /\ row.over \in BOOLEAN
  BY DEF Invitations!Rows
<1> DEFINE row == invites[local[h].id]
<1>3. CASE Invitations!CancelUpdate(h)
  <2>1. pc[h] = "canceling" /\ Invitations!Return(h) /\ Invitations!Set(local[h].id, [row EXCEPT !.status = "canceled"])
        /\ members' = members /\ made' = made
    BY <1>3 DEF Invitations!CancelUpdate
  <2>2. /\ [row EXCEPT !.status = "canceled"] = [row EXCEPT !.status = "canceled", !.over = row.over]
        /\ row.over \in BOOLEAN
    BY <1>1, <1>2, <2>1
  <2>3. Invitations!Set(local[h].id, [row EXCEPT !.status = "canceled", !.over = row.over])
    BY <2>1, <2>2
  <2> QED
    BY <2>1, <2>2, <2>3, InviteSetsKeep DEF Invitations!Statuses
<1>4. CASE Invitations!ResendUpdate(h)
  BY <1>1, <1>4, InviteSetsKeep DEF Invitations!ResendUpdate, Invitations!Statuses
<1>5. CASE Invitations!ExpireUpdate(h)
  <2>1. pc[h] = "expiring" /\ Invitations!Return(h) /\ Invitations!Set(local[h].id, [row EXCEPT !.status = "expired"])
        /\ members' = members /\ made' = made
    BY <1>5 DEF Invitations!ExpireUpdate
  <2>2. /\ [row EXCEPT !.status = "expired"] = [row EXCEPT !.status = "expired", !.over = row.over]
        /\ row.over \in BOOLEAN
    BY <1>1, <1>2, <2>1
  <2>3. Invitations!Set(local[h].id, [row EXCEPT !.status = "expired", !.over = row.over])
    BY <2>1, <2>2
  <2> QED
    BY <2>1, <2>2, <2>3, InviteSetsKeep DEF Invitations!Statuses
<1> QED
  BY <1>3, <1>4, <1>5

\* A row is written over the one with its id.
LEMMA InvitePutsKeep ==
  ASSUME InviteInv, NEW h \in Handlers, NEW m \in Invites, local[h].id = m,
         NEW row \in Invitations!Rows, InviteSound(row), Invitations!Return(h),
         pc[h] \notin {"idle", "counting"},
         invites' = [invites EXCEPT ![m] = row],
         members' = members, made' = made,
         row.status = "none" \/ row.max = local[h].row.max,
         InviteInHand(h) => /\ row.status \in {"none", "canceled"} \/ invites[m].status # "canceled"
                            /\ row.max # None =>
                                 row.max = invites[m].max /\ row.used = invites[m].used
  PROVE  InviteKept(h)
<1>0. /\ invites \in [Invites -> Invitations!Rows] /\ members \subseteq Emails
      /\ made \in [Invites -> Nat]
  BY DEF InviteInv, Invitations!TypeOK
<1>1. /\ invites' \in [Invites -> Invitations!Rows]
      /\ \A i \in Invites \ {m} : invites'[i] = invites[i]
  BY <1>0
<1>2. invites'[m] = row
  BY <1>0
<1>3. \A i \in Invites : InviteSound(invites[i])'
  BY <1>1, <1>2 DEF InviteInv, InviteSound, Invitations!IsLink
<1>4. \A i \in Invites : \/ invites'[i].status = "none"
                         \/ invites[i].status # "none" /\ invites'[i].max = invites[i].max
                         \/ local[h].id = i /\ invites'[i].max = local[h].row.max
  <2>1. ASSUME NEW i \in Invites, i # m
        PROVE  \/ invites'[i].status = "none"
               \/ (invites[i].status # "none" /\ invites'[i].max = invites[i].max)
    BY <1>1, <2>1
  <2>2. \/ invites'[m].status = "none"
        \/ invites[m].status # "none" /\ invites'[m].max = invites[m].max
        \/ local[h].id = m /\ invites'[m].max = local[h].row.max
    BY <1>2
  <2> QED
    BY <2>1, <2>2
<1>5. ASSUME OnlyMe(h), InviteCounted, InviteInHand(h)
      PROVE  /\ InviteStays
             /\ \A i \in Invites : invites'[i].max # None => made'[i] <= invites'[i].used
  BY <1>1, <1>2, <1>5, InviteAllCounted DEF InviteStays
<1> QED
  BY <1>0, <1>1, <1>3, <1>4, <1>5, InviteWritesKeepAll

\* Handlers that save a new invitation.
LEMMA InviteSavesKeep ==
  ASSUME InviteInv, NEW h \in Handlers,
         Invitations!InviteSave(h) \/ Invitations!CancelLinkSave(h) \/ Invitations!DeleteLinkNow(h)
  PROVE  InviteKept(h)
<1>0. invites \in [Invites -> Invitations!Rows] /\ InviteHeld(h)
  BY DEF InviteInv, Invitations!TypeOK
<1>1. PICK m \in Invites : local[h].id = m
  BY <1>0 DEF InviteHeld, Invitations!InviteSave, Invitations!CancelLinkSave,
     Invitations!DeleteLinkNow
<1>2. CASE Invitations!InviteSave(h)
  BY <1>0, <1>1, <1>2, InvitePutsKeep DEF Invitations!InviteSave, InviteHeld, InviteSound,
     InviteInHand
<1>3. CASE Invitations!CancelLinkSave(h)
  <2> DEFINE row == [local[h].row EXCEPT !.status = "canceled"]
  <2>1. row \in Invitations!Rows /\ row.max = local[h].row.max /\ row.used = local[h].row.used
        /\ row.status = "canceled" /\ InviteSound(row)
    BY <1>0 DEF InviteHeld, InviteSound, Invitations!Rows, Invitations!Statuses, Invitations!IsLink
  <2>2. /\ invites' = [invites EXCEPT ![m] = row] /\ Invitations!Return(h)
        /\ pc[h] = "closing" /\ members' = members /\ made' = made
    BY <1>1, <1>3 DEF Invitations!CancelLinkSave
  <2>3. InviteInHand(h) => row.max = invites[m].max /\ row.used = invites[m].used
    BY <1>1, <2>1, <2>2 DEF InviteInHand, InviteSame
  <2> HIDE DEF row
  <2> QED
    BY <1>1, <2>1, <2>2, <2>3, InvitePutsKeep
<1>4. CASE Invitations!DeleteLinkNow(h)
  BY <1>1, <1>4, InvitePutsKeep, InviteEmpty DEF Invitations!DeleteLinkNow
<1> QED
  BY <1>2, <1>3, <1>4

\* Steps of a handler that does not suspend.
LEMMA InviteAtOnceKeeps ==
  ASSUME InviteInv, NEW h \in Handlers,
         \/ Invitations!ListInvites(h)
         \/ \E i \in Invites, kind \in Invitations!Kinds, e \in Invitations!OrNone(Emails), max \in Invitations!OrNone(Limits) :
              Invitations!CreateLink(h, i, kind, e, max)
  PROVE  InviteKept(h)
<1>0. /\ invites \in [Invites -> Invitations!Rows] /\ members \subseteq Emails
      /\ made \in [Invites -> Nat]
      /\ pc \in [Handlers -> Invitations!Steps] /\ local \in [Handlers -> InviteLocals]
      /\ InviteHeld(h)
  BY DEF InviteInv, Invitations!TypeOK, InviteLocals
<1>1. pc[h] = "idle" /\ pc' = pc /\ local' = local /\ members' = members /\ made' = made
  BY DEF Invitations!ListInvites, Invitations!CreateLink
<1>2. InviteInHand(h)'
  BY <1>1 DEF InviteInHand
<1>3. CASE Invitations!ListInvites(h)
  <2>1. ASSUME NEW i \in Invites
        PROVE  /\ invites'[i] \in Invitations!Rows /\ invites'[i].max = invites[i].max
               /\ invites'[i].used = invites[i].used
               /\ invites'[i].kind = invites[i].kind
               /\ invites[i].status = "none" <=> invites'[i].status = "none"
               /\ invites[i].status = "canceled" => invites'[i].status = "canceled"
    <3>1. invites'[i] = invites[i] \/ (invites[i].status = "pending" /\ invites'[i] = [invites[i] EXCEPT !.status = "expired"])
      BY <1>3 DEF Invitations!ListInvites
    <3> QED
      BY <1>0, <3>1 DEF Invitations!Rows, Invitations!Statuses
  <2>2. invites' \in [Invites -> Invitations!Rows]
    <3>1. invites' = [i \in Invites |-> invites'[i]]
      BY <1>3 DEF Invitations!ListInvites
    <3> QED
      BY <2>1, <3>1
  <2>3. \A i \in Invites : InviteSound(invites[i])'
    BY <2>1 DEF InviteInv, InviteSound, Invitations!IsLink
  <2>4. InviteHeld(h)' /\ InviteAgree'
    BY <1>0, <1>1, <2>1 DEF InviteInv, InviteHeld, InviteAgree, InviteSound
  <2>5. InviteStays /\ (InviteCounted => InviteCounted')
    BY <1>1, <2>1 DEF InviteStays, InviteCounted, InviteBehind
  <2> QED
    BY <1>0, <1>1, <1>2, <2>2, <2>3, <2>4, <2>5 DEF InviteKept
<1>4. ASSUME NEW i \in Invites, NEW kind \in Invitations!Kinds, NEW e \in Invitations!OrNone(Emails), NEW max \in Invitations!OrNone(Limits),
             Invitations!CreateLink(h, i, kind, e, max)
      PROVE  InviteKept(h)
  <2> DEFINE row == [Invitations!NoRow EXCEPT !.status = "pending", !.kind = kind, !.email = e, !.max = max]
  <2>1. /\ row \in Invitations!Rows /\ row.max = max /\ row.kind = kind /\ row.used = 0
        /\ row.status = "pending"
    BY DEF Invitations!NoRow, Invitations!Rows, Invitations!Statuses
  <2>2. /\ invites' = [invites EXCEPT ![i] = row] /\ Invitations!Fresh(i)
        /\ kind \in {"group", "personal"}
    BY <1>4 DEF Invitations!CreateLink
  <2> HIDE DEF row
  <2>3. max # None => 0 <= max
    BY InviteGiven DEF Invitations!LimitsAssumption, Invitations!OrNone
  <2>4. /\ invites' \in [Invites -> Invitations!Rows] /\ invites'[i] = row
        /\ \A j \in Invites \ {i} : invites'[j] = invites[j]
    BY <1>0, <2>1, <2>2
  <2>5. \A j \in Invites : InviteSound(invites[j])'
    BY <2>1, <2>2, <2>3, <2>4 DEF InviteInv, InviteSound, Invitations!IsLink
  <2>6. InviteHeld(h)' /\ InviteAgree'
    BY <1>0, <1>1, <2>2, <2>4 DEF InviteInv, InviteHeld, InviteAgree, InviteSound, Invitations!Fresh
  <2>7. InviteStays /\ (InviteCounted => InviteCounted')
    BY <1>0, <1>1, <2>1, <2>2, <2>4 DEF InviteStays, InviteCounted, InviteBehind, Invitations!Fresh
  <2> QED
    BY <1>0, <1>1, <1>2, <2>4, <2>5, <2>6, <2>7 DEF InviteKept
<1> QED
  BY <1>3, <1>4

\* An account is made with an invitation before it is counted.
LEMMA InviteAcceptSaveKeeps ==
  ASSUME InviteInv, NEW h \in Handlers, Invitations!AcceptSave(h)
  PROVE  InviteKept(h)
<1>0. /\ invites \in [Invites -> Invitations!Rows] /\ members \subseteq Emails
      /\ made \in [Invites -> Nat]
      /\ pc \in [Handlers -> Invitations!Steps] /\ local \in [Handlers -> InviteLocals]
      /\ InviteHeld(h)
      /\ pc[h] = "accepting" /\ invites' = invites
  BY DEF InviteInv, Invitations!TypeOK, InviteLocals, Invitations!AcceptSave
<1>1. PICK m \in Invites : local[h].id = m
  BY <1>0 DEF InviteHeld
<1>2. \A i \in Invites : InviteSound(invites[i])'
  BY <1>0 DEF InviteInv, InviteSound, Invitations!IsLink
<1>3. CASE local[h].email \in members
  <2>1. Invitations!Return(h) /\ members' = members /\ made' = made
    BY <1>3 DEF Invitations!AcceptSave
  <2>2. OnlyMe(h) /\ InviteCounted /\ InviteInHand(h) =>
           InviteStays /\ \A i \in Invites : invites'[i].max # None => made'[i] <= invites'[i].used
    BY <1>0, <2>1, InviteAllCounted DEF InviteStays
  <2>3. \A i \in Invites :
          \/ invites'[i].status = "none"
          \/ (invites[i].status # "none" /\ invites'[i].max = invites[i].max)
    BY <1>0
  <2> QED
    BY <1>0, <1>2, <2>1, <2>2, <2>3, InviteWritesKeepAll
<1>4. CASE local[h].email \notin members
  <2>1. /\ members' = members \cup {local[h].email} /\ made' = [made EXCEPT ![m] = @ + 1]
        /\ pc' = [pc EXCEPT ![h] = "counting"] /\ local' = local
    BY <1>1, <1>4 DEF Invitations!AcceptSave, Invitations!Goto
  <2>2. local[h].email \in Emails
    BY <1>0 DEF InviteHeld
  <2>3. /\ made' \in [Invites -> Nat] /\ pc' \in [Handlers -> Invitations!Steps]
        /\ pc'[h] = "counting"
        /\ made'[m] = made[m] + 1 /\ \A i \in Invites \ {m} : made'[i] = made[i]
        /\ \A g \in Handlers \ {h} : pc'[g] = pc[g]
    BY <1>0, <2>1 DEF Invitations!Steps
  <2>4. InviteHeld(h)' /\ InviteAgree'
    BY <1>0, <1>1, <2>1, <2>2, <2>3 DEF InviteInv, InviteHeld, InviteAgree, InviteSound,
       Invitations!IsLink, Invitations!Full
  <2>5. ASSUME OnlyMe(h), InviteCounted, InviteInHand(h)
        PROVE  InviteCounted' /\ InviteInHand(h)' /\ InviteStays
    <3>1. \A i \in Invites : invites[i].max # None => made[i] <= invites[i].used
      BY <1>0, <2>5, InviteAllCounted
    <3>2. InviteCounted'
      BY <1>0, <1>1, <2>1, <2>3, <3>1 DEF InviteCounted, InviteBehind
    <3>3. InviteStays
      BY <1>0, <1>1, <2>3, <2>5 DEF InviteStays, InviteInHand
    <3>4. /\ InviteSame(local[h].row, m) /\ invites[m].status = "pending"
      BY <1>0, <1>1, <2>5 DEF InviteInHand
    <3>5. invites[m].max # None => invites[m].used \in Nat /\ made[m] \in Nat
      BY <1>0 DEF Invitations!Rows
    <3>6. InviteInHand(h)'
      BY <1>0, <1>1, <2>1, <2>3, <3>1, <3>4, <3>5 DEF InviteInHand, InviteSame
    <3> QED
      BY <3>2, <3>3, <3>6
  <2> QED
    BY <1>0, <1>2, <2>1, <2>2, <2>3, <2>4, <2>5 DEF InviteKept
<1> QED
  BY <1>3, <1>4

\* The use of a link is counted.
LEMMA InviteAcceptCountKeeps ==
  ASSUME InviteInv, NEW h \in Handlers, Invitations!AcceptCount(h)
  PROVE  InviteKept(h)
<1>0. /\ invites \in [Invites -> Invitations!Rows] /\ members \subseteq Emails
      /\ made \in [Invites -> Nat]
      /\ InviteHeld(h) /\ pc[h] = "counting" /\ Invitations!Return(h) /\ members' = members
      /\ made' = made
      /\ local[h].row \in Invitations!Rows
  BY DEF InviteInv, Invitations!TypeOK, Invitations!AcceptCount, InviteHeld, InviteSound
<1>1. PICK m \in Invites : local[h].id = m
  BY <1>0 DEF InviteHeld
<1>2. invites[m].status # "none" => invites[m].max = local[h].row.max
  BY <1>1 DEF InviteInv, InviteAgree
<1> DEFINE row == IF Invitations!IsLink(local[h].row) THEN [invites[m] EXCEPT !.used = local[h].row.used + 1]
                  ELSE [invites[m] EXCEPT !.status = "accepted"]
<1>3. /\ row \in Invitations!Rows /\ row.max = invites[m].max /\ row.kind = invites[m].kind
      /\ Invitations!IsLink(local[h].row) =>
           row.used = local[h].row.used + 1 /\ row.status = invites[m].status
      /\ ~Invitations!IsLink(local[h].row) => row.used = invites[m].used /\ row.status = "accepted"
  BY <1>0 DEF Invitations!Rows, Invitations!Statuses
<1>4. invites' = IF invites[m].status = "none" THEN invites ELSE [invites EXCEPT ![m] = row]
  BY <1>1 DEF Invitations!Set, Invitations!AcceptCount
<1> HIDE DEF row
<1>5. /\ invites' \in [Invites -> Invitations!Rows]
      /\ \A i \in Invites \ {m} : invites'[i] = invites[i]
      /\ invites'[m] = IF invites[m].status = "none" THEN invites[m] ELSE row
  BY <1>0, <1>3, <1>4
<1>6. invites[m].status # "none" => InviteSound(row)
  <2>1. InviteSound(invites[m]) /\ InviteSound(local[h].row)
    BY <1>0 DEF InviteInv, InviteHeld
  <2>2. local[h].row.used \in Nat /\ (local[h].row.max # None => local[h].row.max \in Nat)
    BY <1>0, InviteGiven DEF Invitations!Rows, Invitations!OrNone, Invitations!LimitsAssumption
  <2> QED
    BY <1>0, <1>2, <1>3, <2>1, <2>2 DEF InviteSound, InviteHeld, Invitations!IsLink,
       Invitations!Full
<1>7. \A i \in Invites : InviteSound(invites[i])'
  BY <1>5, <1>6 DEF InviteInv, InviteSound, Invitations!IsLink
<1>8. \A i \in Invites :
        \/ invites'[i].status = "none"
        \/ (invites[i].status # "none" /\ invites'[i].max = invites[i].max)
  BY <1>3, <1>5
<1>9. ASSUME OnlyMe(h), InviteCounted, InviteInHand(h)
      PROVE  /\ InviteStays
             /\ \A i \in Invites : invites'[i].max # None => made'[i] <= invites'[i].used
  <2>1. \A i \in Invites \ {m} : invites[i].max # None => made[i] <= invites[i].used
    BY <1>1, <1>9, InviteAllCounted
  <2>2. /\ InviteSame(local[h].row, m) /\ invites[m].status = "pending"
        /\ invites[m].max # None => made[m] <= invites[m].used + 1
    BY <1>0, <1>1, <1>9 DEF InviteInHand
  <2>3. InviteSound(local[h].row)
    BY <1>0 DEF InviteHeld
  <2> QED
    BY <1>0, <1>3, <1>5, <2>1, <2>2, <2>3 DEF InviteStays, InviteSame, InviteSound
<1> QED
  BY <1>0, <1>5, <1>7, <1>8, <1>9, InviteWritesKeepAll

\* What is counted was behind.
LEMMA InviteCountedOnce ==
  ASSUME NEW row \in Invitations!Rows, NEW status \in Invitations!Statuses
  PROVE  LET more == [row EXCEPT !.used = @ + 1, !.status = status] IN
         /\ more \in Invitations!Rows /\ more.max = row.max /\ more.kind = row.kind
         /\ more.used = row.used + 1 /\ more.status = status
<1>1. row.used + 1 \in Nat
  BY DEF Invitations!Rows
<1>2. [row EXCEPT !.used = @ + 1, !.status = status] = [row EXCEPT !.used = row.used + 1, !.status = status]
  OBVIOUS
<1> QED
  BY <1>1, <1>2 DEF Invitations!Rows

\* The account and the use in one transaction.
LEMMA InviteJoinCommitKeeps ==
  ASSUME InviteInv, NEW h \in Handlers, Invitations!JoinCommit(h)
  PROVE  InviteKept(h)
<1>0. /\ invites \in [Invites -> Invitations!Rows] /\ members \subseteq Emails
      /\ made \in [Invites -> Nat]
      /\ InviteHeld(h) /\ pc[h] = "joining" /\ Invitations!Return(h)
      /\ local[h].row \in Invitations!Rows /\ local[h].email \in Emails
  BY DEF InviteInv, Invitations!TypeOK, Invitations!JoinCommit, InviteHeld, InviteSound
<1>1. PICK m \in Invites : local[h].id = m
  BY <1>0 DEF InviteHeld
<1>2. CASE local[h].email \in members
  <2>1. members' = members /\ made' = made /\ invites' = invites
    BY <1>2 DEF Invitations!JoinCommit
  <2>2. OnlyMe(h) /\ InviteCounted /\ InviteInHand(h) =>
           InviteStays /\ \A i \in Invites : invites'[i].max # None => made'[i] <= invites'[i].used
    BY <1>0, <2>1, InviteAllCounted DEF InviteStays
  <2>3. \A i \in Invites :
          \/ invites'[i].status = "none"
          \/ (invites[i].status # "none" /\ invites'[i].max = invites[i].max)
    BY <2>1
  <2>4. \A i \in Invites : InviteSound(invites[i])'
    BY <2>1 DEF InviteInv, InviteSound, Invitations!IsLink
  <2> QED
    BY <1>0, <2>1, <2>2, <2>3, <2>4, InviteWritesKeepAll
<1>3. CASE local[h].email \notin members
  <2> DEFINE status == IF local[h].row.kind = "personal" THEN "accepted" ELSE local[h].row.status
  <2> DEFINE row == [invites[m] EXCEPT !.used = @ + 1, !.status = status]
  <2>0. status \in Invitations!Statuses
    BY <1>0 DEF Invitations!Rows, Invitations!Statuses
  <2>1. /\ row \in Invitations!Rows /\ row.max = invites[m].max /\ row.kind = invites[m].kind
        /\ row.used = invites[m].used + 1 /\ row.status = status
    BY <1>0, <2>0, InviteCountedOnce
  <2>2. /\ members' = members \cup {local[h].email} /\ made' = [made EXCEPT ![m] = @ + 1]
        /\ invites' = IF Invitations!Full(invites[m]) \/ invites[m].status = "none" THEN invites ELSE [invites EXCEPT ![m] = row]
    BY <1>1, <1>3 DEF Invitations!JoinCommit, Invitations!Set
  <2>3. status \in {local[h].row.status, "accepted"}
    OBVIOUS
  <2> HIDE DEF row, status
  <2>4. /\ invites' \in [Invites -> Invitations!Rows]
        /\ \A i \in Invites \ {m} : invites'[i] = invites[i]
        /\ invites'[m] = IF Invitations!Full(invites[m]) \/ invites[m].status = "none" THEN invites[m] ELSE row
    BY <1>0, <2>1, <2>2
  <2>5. /\ made' \in [Invites -> Nat] /\ members' \subseteq Emails
        /\ made'[m] = made[m] + 1 /\ \A i \in Invites \ {m} : made'[i] = made[i]
    BY <1>0, <2>2
  <2>6. /\ invites[m].used \in Nat /\ (invites[m].max # None => invites[m].max \in Nat)
        /\ made[m] \in Nat
    BY <1>0, InviteGiven DEF Invitations!Rows, Invitations!OrNone, Invitations!LimitsAssumption
  <2>7. \A i \in Invites : InviteSound(invites[i])'
    <3>1. ~Invitations!Full(invites[m]) => InviteSound(row)
      BY <2>1, <2>6 DEF InviteInv, InviteSound, Invitations!IsLink, Invitations!Full
    <3> QED
      BY <2>4, <3>1 DEF InviteInv, InviteSound, Invitations!IsLink
  <2>8. \A i \in Invites :
          \/ invites'[i].status = "none"
          \/ (invites[i].status # "none" /\ invites'[i].max = invites[i].max)
    BY <2>1, <2>4
  <2>9. ASSUME OnlyMe(h), InviteCounted, InviteInHand(h)
        PROVE  /\ InviteStays
               /\ \A i \in Invites : invites'[i].max # None => made'[i] <= invites'[i].used
    <3>1. \A i \in Invites : invites[i].max # None => made[i] <= invites[i].used
      BY <1>0, <2>9, InviteAllCounted
    <3>2. /\ InviteSame(local[h].row, m) /\ invites[m].status \notin {"none", "canceled"}
          /\ ~Invitations!Full(local[h].row)
      BY <1>0, <1>1, <2>9 DEF InviteInHand
    <3>3. ~Invitations!Full(invites[m])
      BY <3>2 DEF InviteSame, Invitations!Full
    <3> QED
      BY <2>1, <2>3, <2>4, <2>5, <2>6, <3>1, <3>2, <3>3 DEF InviteStays, InviteSame
  <2> QED
    BY <1>0, <2>4, <2>5, <2>7, <2>8, <2>9, InviteWritesKeepAll
<1> QED
  BY <1>2, <1>3

\* Time passes for one invitation.
LEMMA InviteLapseKeeps ==
  ASSUME InviteInv, InviteSoloInv, NEW m \in Invites, Invitations!Lapse(m), overlapped' = overlapped
  PROVE  InviteInv' /\ InviteSoloInv' /\ InviteStays
<1>0. /\ invites \in [Invites -> Invitations!Rows] /\ members \subseteq Emails
      /\ made \in [Invites -> Nat]
      /\ pc' = pc /\ local' = local /\ members' = members /\ made' = made
  BY DEF InviteInv, Invitations!TypeOK, Invitations!Lapse
<1> DEFINE row == [invites[m] EXCEPT !.over = TRUE]
<1>1. /\ row \in Invitations!Rows /\ row.max = invites[m].max /\ row.kind = invites[m].kind
      /\ row.used = invites[m].used /\ row.status = invites[m].status
  BY <1>0 DEF Invitations!Rows
<1>2. invites' = [invites EXCEPT ![m] = row]
  BY <1>0 DEF Invitations!Lapse
<1> HIDE DEF row
<1>3. /\ invites' \in [Invites -> Invitations!Rows]
      /\ \A i \in Invites : /\ invites'[i].max = invites[i].max /\ invites'[i].kind = invites[i].kind
                            /\ invites'[i].used = invites[i].used
                            /\ invites'[i].status = invites[i].status
  BY <1>0, <1>1, <1>2
<1>4. \A i \in Invites : InviteSound(invites[i])'
  BY <1>3 DEF InviteInv, InviteSound, Invitations!IsLink
<1>5. Invitations!TypeOK' /\ (\A h \in Handlers : InviteHeld(h)') /\ InviteAgree'
  BY <1>0, <1>3 DEF InviteInv, Invitations!TypeOK, InviteHeld, InviteAgree, InviteSound,
     Invitations!IsLink, Invitations!Full
<1>6. InviteSoloInv'
  BY <1>0, <1>3 DEF InviteSoloInv, Alone, Invitations!InFlight, InviteCounted, InviteInHand,
     InviteSame, InviteBehind, Invitations!Full
<1>7. InviteStays
  BY <1>0, <1>3 DEF InviteStays
<1> QED
  BY <1>4, <1>5, <1>6, <1>7 DEF InviteInv

\* Every step keeps the invariant, and does what is said of every step.
LEMMA InviteStepHolds == InviteInv /\ InviteSoloInv /\ [Invitations!Next]_(Invitations!vars) =>
                           InviteInv' /\ InviteSoloInv' /\ Invitations!CancelKept
<1> SUFFICES ASSUME InviteInv, InviteSoloInv, [Invitations!Next]_(Invitations!vars)
             PROVE  InviteInv' /\ InviteSoloInv' /\ (~overlapped' => InviteStays)
  BY DEF Invitations!CancelKept, InviteStays
<1>1. CASE UNCHANGED Invitations!vars
  <2>1. InviteInv'
    BY <1>1 DEF Invitations!vars, InviteInv, Invitations!TypeOK, InviteSound, InviteHeld,
       InviteAgree, Invitations!IsLink, Invitations!Full
  <2>2. InviteSoloInv'
    BY <1>1 DEF Invitations!vars, InviteSoloInv, Alone, Invitations!InFlight, InviteCounted,
       InviteInHand, InviteSame, InviteBehind, Invitations!Full
  <2> QED
    BY <1>1, <2>1, <2>2 DEF Invitations!vars, InviteStays
<1>2. ASSUME NEW h \in Handlers, Invitations!HandlerStep(h), Invitations!Overlap(h)
      PROVE  InviteInv' /\ InviteSoloInv' /\ (~overlapped' => InviteStays)
  <2>1. InviteKept(h)
    BY <1>2, InviteBeginsKeep, InviteInviteKeeps, InviteInviteCancelKeeps, InviteUpdatesKeep,
       InviteSavesKeep, InviteAtOnceKeeps,
       InviteAcceptSaveKeeps, InviteAcceptCountKeeps, InviteJoinCommitKeeps DEF
       Invitations!HandlerStep
  <2>2. InviteInv'
    <3>1. overlapped' \in BOOLEAN
      BY <1>2 DEF Invitations!Overlap, InviteInv, Invitations!TypeOK
    <3>2. Invitations!TypeOK'
      BY <2>1, <3>1 DEF InviteKept, Invitations!TypeOK, InviteLocals
    <3>3. \A g \in Handlers : InviteHeld(g)'
      BY <2>1 DEF InviteKept, InviteInv, InviteHeld, InviteSound
    <3> QED
      BY <2>1, <3>2, <3>3 DEF InviteKept, InviteInv
  <2>3. ASSUME ~overlapped'
        PROVE  Alone' /\ InviteCounted' /\ (\A g \in Handlers : InviteInHand(g)') /\ InviteStays
    <3>1. ~overlapped /\ \A g \in Handlers \ {h} : pc[g] = "idle" /\ pc'[g] = "idle"
      BY <1>2, <2>1, <2>3 DEF Invitations!Overlap, Invitations!InFlight, InviteKept
    <3>2. \A g \in Handlers \ {h} : InviteInHand(g)'
      BY <3>1 DEF InviteInHand
    <3>3. Alone'
      BY <3>1 DEF Alone, Invitations!InFlight
    <3>4. OnlyMe(h) /\ InviteCounted /\ InviteInHand(h)
      BY <3>1 DEF OnlyMe, InviteSoloInv
    <3> QED
      BY <2>1, <3>2, <3>3, <3>4 DEF InviteKept
  <2> QED
    BY <2>2, <2>3 DEF InviteSoloInv, Alone
<1>3. ASSUME NEW i \in Invites, Invitations!Lapse(i), UNCHANGED overlapped
      PROVE  InviteInv' /\ InviteSoloInv' /\ (~overlapped' => InviteStays)
  BY <1>3, InviteLapseKeeps
<1> QED
  BY <1>1, <1>2, <1>3 DEF Invitations!Next

\* The invariant is enough.
LEMMA InvitePromised == InviteInv /\ InviteSoloInv =>
                          Invitations!TypeOK /\ Invitations!LimitRespected
<1> SUFFICES ASSUME InviteInv, InviteSoloInv, NEW i \in Invites, invites[i].max # None
             PROVE  /\ invites[i].used <= invites[i].max
                    /\ ~overlapped => made[i] <= invites[i].max
  BY DEF Invitations!LimitRespected, InviteInv
<1>1. /\ invites[i].used \in Nat /\ invites[i].max \in Nat /\ made[i] \in Nat
      /\ invites[i].used <= invites[i].max
  BY InviteGiven DEF InviteInv, Invitations!TypeOK, Invitations!Rows, InviteSound,
     Invitations!OrNone, Invitations!LimitsAssumption
<1>2. ASSUME ~overlapped, NEW h \in Handlers, InviteBehind(h, i)
      PROVE  made[i] <= invites[i].max
  <2>1. /\ InviteSame(local[h].row, i) /\ made[i] <= invites[i].used + 1
    BY <1>2 DEF InviteSoloInv, InviteInHand, InviteBehind
  <2>2. /\ ~(Invitations!IsLink(local[h].row) /\ Invitations!Full(local[h].row))
        /\ InviteSound(local[h].row)
    BY <1>2 DEF InviteInv, InviteHeld, InviteBehind
  <2> QED
    BY <1>1, <2>1, <2>2 DEF InviteSame, Invitations!Full, InviteSound
<1> QED
  BY <1>1, <1>2 DEF InviteSoloInv, InviteCounted
-----------------------------------------------------------------------------
(***************************************************************************)
(* tasks. As long as handlers do not overlap, the row that will be saved   *)
(* has the flags of the table, so that saving it undoes nothing.           *)
(***************************************************************************)
\* What is assumed of the constants.
LEMMA TaskGiven == Tasks!NoneAssumption
  BY OfficeAssumption

\* When handlers do not overlap, what the one at work has read still holds.
TaskInHand(h) ==
  /\ pc[h] = "updating" =>
       /\ ~task.deleted /\ ~local[h].deleted /\ local[h].asked = task.asked
       /\ local[h].adjust = task.adjust /\ local[h].proposed = task.proposed
  /\ pc[h] = "reporting" => task.status = "pending"
  /\ pc[h] = "asking" => local[h].proposed # None
  /\ pc[h] = "answering" =>
       /\ task.adjust = "pending" /\ local[h].proposed = task.proposed
       /\ local[h].adjust \in {"approved", "rejected"}
  /\ pc[h] = "requesting" => task.asked = "none"

\* Who asks for more time names a date.
TaskDated == task.adjust = "pending" => task.proposed # None

\* What holds as long as they do not overlap.
TaskSoloInv == Alone /\ (~overlapped => TaskDated /\ \A h \in Handlers : TaskInHand(h))

\* What a step of h does: it keeps the invariant, as long as h is alone all of
\* it.
TaskKept(h) ==
  /\ task' \in Tasks!Rows /\ pc' \in [Handlers -> Tasks!Steps]
  /\ local' \in [Handlers -> Tasks!Rows]
  /\ \A g \in Handlers \ {h} : pc'[g] = pc[g]
  /\ TaskDated /\ TaskInHand(h) =>
       /\ TaskDated' /\ TaskInHand(h)'
       /\ task.deleted => task'.deleted
       /\ task.asked # "none" => task'.asked = task.asked
       /\ pc[h] = "reporting" => task.status = "pending"
       /\ task.adjust = "pending" /\ task'.adjust = "approved" => task'.due = task.proposed

\* A new task is typed.
LEMMA TaskNewTyped ==
  \A e \in Tasks!OrNone(Employees), d \in Tasks!OrNone(Deadlines) :
    /\ Tasks!New(e, d) \in Tasks!Rows /\ Tasks!New(e, d).adjust = "none"
    /\ Tasks!Nothing \in Tasks!Rows
  BY DEF Tasks!New, Tasks!Nothing, Tasks!Rows, Tasks!Statuses, Tasks!Adjustments, Tasks!Sides,
     Tasks!OrNone

\* The initial states have the invariant.
LEMMA TaskInitHolds == Tasks!Init => Tasks!TypeOK /\ TaskSoloInv
<1> SUFFICES ASSUME Tasks!Init PROVE Tasks!TypeOK /\ TaskSoloInv
  OBVIOUS
<1>1. PICK e \in Tasks!OrNone(Employees), d \in Tasks!OrNone(Deadlines) : task = Tasks!New(e, d)
  BY DEF Tasks!Init
<1>2. /\ \A h \in Handlers : pc[h] = "idle"
      /\ pc = [h \in Handlers |-> "idle"] /\ local = [h \in Handlers |-> Tasks!Nothing]
      /\ overlapped = FALSE
  BY DEF Tasks!Init, Tasks!AllIdle
<1>3. overlapped \in BOOLEAN
  BY <1>2, Zenon
<1>4. Tasks!TypeOK
  BY <1>1, <1>2, <1>3, TaskNewTyped DEF Tasks!TypeOK, Tasks!Steps
<1>5. TaskDated /\ (\A h \in Handlers : TaskInHand(h)) /\ Alone
  BY <1>1, <1>2, TaskNewTyped DEF TaskDated, TaskInHand, Alone, Tasks!InFlight
<1> QED
  BY <1>4, <1>5 DEF TaskSoloInv

\* What a handler decides to write, when it has read the row.
LEMMA TaskLoadKeeps ==
  ASSUME Tasks!TypeOK, NEW h \in Handlers, NEW step \in Tasks!Steps, NEW row \in Tasks!Rows,
         Tasks!Load(h, step, row),
         step = "updating" =>
           /\ ~row.deleted /\ row.asked = task.asked
           /\ row.adjust = task.adjust /\ row.proposed = task.proposed,
         step = "reporting" => task.status = "pending",
         step = "asking" => row.proposed # None,
         step = "answering" => /\ task.adjust = "pending" /\ row.proposed = task.proposed
                               /\ row.adjust \in {"approved", "rejected"},
         step = "requesting" => task.asked = "none"
  PROVE  TaskKept(h)
<1>1. /\ pc' \in [Handlers -> Tasks!Steps] /\ local' \in [Handlers -> Tasks!Rows]
      /\ task' = task /\ task \in Tasks!Rows
      /\ pc[h] = "idle" /\ pc'[h] = step /\ local'[h] = row /\ ~task.deleted
      /\ \A g \in Handlers \ {h} : pc'[g] = pc[g]
  BY DEF Tasks!Load, Tasks!TypeOK
<1>2. TaskInHand(h)'
  BY <1>1 DEF TaskInHand
<1> QED
  BY <1>1, <1>2 DEF TaskKept, TaskDated

\* Handlers that read the task.
LEMMA TaskReadsKeep ==
  ASSUME Tasks!TypeOK, NEW h \in Handlers,
         \/ Tasks!Update(h) \/ Tasks!Report(h) \/ (\E d \in Deadlines : Tasks!AskTime(h, d))
         \/ (\E answer \in {"approved", "rejected"} : Tasks!AnswerTime(h, answer))
         \/ (\E side \in {"manager", "assignee"} : Tasks!RequestDeletion(h, side))
         \/ Tasks!Delete(h) \/ Tasks!ApproveDeletion(h)
  PROVE  TaskKept(h)
<1>0. task \in Tasks!Rows /\ Tasks!Nothing \in Tasks!Rows /\ None \notin Deadlines
  BY TaskGiven DEF Tasks!TypeOK, Tasks!Nothing, Tasks!New, Tasks!Rows, Tasks!Statuses,
     Tasks!Adjustments, Tasks!Sides, Tasks!OrNone, Tasks!NoneAssumption
<1>1. ASSUME NEW s \in Tasks!Statuses, NEW e \in Tasks!OrNone(Employees), NEW d \in Tasks!OrNone(Deadlines),
             \/ Tasks!Load(h, "updating", [task EXCEPT !.status = s, !.assignee = e, !.due = d])
             \/ Tasks!Load(h, "updating", [task EXCEPT !.status = s])
      PROVE  TaskKept(h)
  <2>0. ~task.deleted
    BY <1>1 DEF Tasks!Load
  <2>1. CASE Tasks!Load(h, "updating", [task EXCEPT !.status = s, !.assignee = e, !.due = d])
    <3> DEFINE row == [task EXCEPT !.status = s, !.assignee = e, !.due = d]
    <3>1. row \in Tasks!Rows /\ row.deleted = task.deleted /\ row.asked = task.asked
          /\ row.adjust = task.adjust /\ row.proposed = task.proposed
      BY <1>0 DEF Tasks!Rows
    <3> HIDE DEF row
    <3> QED
      BY <2>0, <2>1, <3>1, TaskLoadKeeps DEF Tasks!Steps, row
  <2>2. CASE Tasks!Load(h, "updating", [task EXCEPT !.status = s])
    <3> DEFINE row == [task EXCEPT !.status = s]
    <3>1. row \in Tasks!Rows /\ row.deleted = task.deleted /\ row.asked = task.asked
          /\ row.adjust = task.adjust /\ row.proposed = task.proposed
      BY <1>0 DEF Tasks!Rows
    <3> HIDE DEF row
    <3> QED
      BY <2>0, <2>2, <3>1, TaskLoadKeeps DEF Tasks!Steps, row
  <2> QED
    BY <1>1, <2>1, <2>2
<1>2. CASE Tasks!Update(h)
  BY <1>1, <1>2 DEF Tasks!Update, Tasks!OrNone
<1>3. CASE Tasks!Report(h) \/ Tasks!Delete(h) \/ Tasks!ApproveDeletion(h)
  BY <1>0, <1>3, TaskLoadKeeps DEF Tasks!Report, Tasks!Delete, Tasks!ApproveDeletion, Tasks!Steps
<1>4. ASSUME NEW d \in Deadlines, Tasks!AskTime(h, d)
      PROVE  TaskKept(h)
  <2>1. /\ [Tasks!Nothing EXCEPT !.proposed = d] \in Tasks!Rows
        /\ [Tasks!Nothing EXCEPT !.proposed = d].proposed = d
    BY <1>0 DEF Tasks!Rows, Tasks!OrNone
  <2> QED
    BY <1>0, <1>4, <2>1, TaskLoadKeeps DEF Tasks!AskTime, Tasks!Steps
<1>5. ASSUME NEW answer \in {"approved", "rejected"}, Tasks!AnswerTime(h, answer)
      PROVE  TaskKept(h)
  <2> DEFINE row == [Tasks!Nothing EXCEPT !.adjust = answer, !.proposed = task.proposed]
  <2>1. row \in Tasks!Rows /\ row.proposed = task.proposed /\ row.adjust = answer
    BY <1>0 DEF Tasks!Rows, Tasks!Adjustments
  <2>2. Tasks!Load(h, "answering", row) /\ task.adjust = "pending"
    BY <1>5 DEF Tasks!AnswerTime
  <2> HIDE DEF row
  <2> QED
    BY <2>1, <2>2, TaskLoadKeeps DEF Tasks!Steps
<1>6. ASSUME NEW side \in {"manager", "assignee"}, Tasks!RequestDeletion(h, side)
      PROVE  TaskKept(h)
  <2>1. [Tasks!Nothing EXCEPT !.asked = side] \in Tasks!Rows
    BY <1>0 DEF Tasks!Rows, Tasks!Sides
  <2> QED
    BY <1>6, <2>1, TaskLoadKeeps DEF Tasks!RequestDeletion, Tasks!Steps
<1> QED
  BY <1>2, <1>3, <1>4, <1>5, <1>6

\* The later statement.
LEMMA TaskWritesKeep ==
  ASSUME Tasks!TypeOK, NEW h \in Handlers,
         \/ Tasks!UpdateSave(h) \/ Tasks!ReportUpdate(h) \/ Tasks!AskTimeUpdate(h)
         \/ Tasks!AnswerTimeUpdate(h)
         \/ Tasks!RequestDeletionUpdate(h) \/ Tasks!DeleteNow(h)
  PROVE  TaskKept(h)
<1>0. /\ task \in Tasks!Rows /\ Tasks!Nothing \in Tasks!Rows /\ local[h] \in Tasks!Rows
      /\ Tasks!Return(h)
  BY DEF Tasks!TypeOK, Tasks!Nothing, Tasks!New, Tasks!Rows, Tasks!Statuses, Tasks!Adjustments,
     Tasks!Sides, Tasks!OrNone, Tasks!UpdateSave, Tasks!ReportUpdate,
         Tasks!AskTimeUpdate, Tasks!AnswerTimeUpdate, Tasks!RequestDeletionUpdate, Tasks!DeleteNow
<1>1. /\ pc' \in [Handlers -> Tasks!Steps] /\ local' \in [Handlers -> Tasks!Rows]
      /\ pc'[h] = "idle" /\ \A g \in Handlers \ {h} : pc'[g] = pc[g]
  BY <1>0 DEF Tasks!Return, Tasks!TypeOK, Tasks!Steps
<1>2. TaskInHand(h)'
  BY <1>1 DEF TaskInHand
<1>3. /\ task' \in Tasks!Rows
      /\ TaskDated /\ TaskInHand(h) =>
           /\ TaskDated'
           /\ task.deleted => task'.deleted
           /\ task.asked # "none" => task'.asked = task.asked
           /\ pc[h] = "reporting" => task.status = "pending"
           /\ task.adjust = "pending" /\ task'.adjust = "approved" => task'.due = task.proposed
  <2>1. CASE Tasks!UpdateSave(h)
    <3>1. pc[h] = "updating" /\ task' = local[h]
      BY <2>1 DEF Tasks!UpdateSave
    <3> QED
      BY <1>0, <3>1 DEF TaskInHand, TaskDated
  <2>2. CASE Tasks!ReportUpdate(h)
    <3>1. pc[h] = "reporting" /\ task' = [task EXCEPT !.status = "in_progress"]
      BY <2>2 DEF Tasks!ReportUpdate
    <3>2. task' \in Tasks!Rows /\ task'.deleted = task.deleted /\ task'.asked = task.asked
          /\ task'.adjust = task.adjust /\ task'.proposed = task.proposed
      BY <1>0, <3>1 DEF Tasks!Rows, Tasks!Statuses
    <3> QED
      BY <3>1, <3>2 DEF TaskInHand, TaskDated
  <2>3. CASE Tasks!AskTimeUpdate(h)
    <3>1. /\ pc[h] = "asking"
          /\ task' = [task EXCEPT !.adjust = "pending", !.proposed = local[h].proposed]
      BY <2>3 DEF Tasks!AskTimeUpdate
    <3>2. task' \in Tasks!Rows /\ task'.deleted = task.deleted /\ task'.asked = task.asked
          /\ task'.adjust = "pending" /\ task'.proposed = local[h].proposed
      BY <1>0, <3>1 DEF Tasks!Rows, Tasks!Adjustments
    <3> QED
      BY <3>1, <3>2 DEF TaskInHand, TaskDated
  <2>4. CASE Tasks!AnswerTimeUpdate(h)
    <3> DEFINE read == local[h]
               due == IF read.adjust = "approved" /\ read.proposed # None THEN read.proposed ELSE task.due
    <3>1. pc[h] = "answering" /\ task' = [task EXCEPT !.adjust = read.adjust, !.due = due]
      BY <2>4 DEF Tasks!AnswerTimeUpdate
    <3>2. due \in Tasks!OrNone(Deadlines)
      BY <1>0 DEF Tasks!Rows
    <3>3. task' \in Tasks!Rows /\ task'.deleted = task.deleted /\ task'.asked = task.asked
          /\ task'.adjust = read.adjust /\ task'.proposed = task.proposed /\ task'.due = due
      BY <1>0, <3>1, <3>2 DEF Tasks!Rows
    <3> QED
      BY <3>1, <3>3 DEF TaskInHand, TaskDated
  <2>5. CASE Tasks!RequestDeletionUpdate(h)
    <3>1. pc[h] = "requesting" /\ task' = [task EXCEPT !.asked = local[h].asked]
      BY <2>5 DEF Tasks!RequestDeletionUpdate
    <3>2. task' \in Tasks!Rows /\ task'.deleted = task.deleted
          /\ task'.adjust = task.adjust /\ task'.proposed = task.proposed
      BY <1>0, <3>1 DEF Tasks!Rows
    <3> QED
      BY <3>1, <3>2 DEF TaskInHand, TaskDated
  <2>6. CASE Tasks!DeleteNow(h)
    <3>1. pc[h] = "deleting" /\ task' = [task EXCEPT !.deleted = TRUE]
      BY <2>6 DEF Tasks!DeleteNow
    <3>2. task' \in Tasks!Rows /\ task'.deleted /\ task'.asked = task.asked
          /\ task'.adjust = task.adjust /\ task'.proposed = task.proposed
      BY <1>0, <3>1 DEF Tasks!Rows
    <3> QED
      BY <3>1, <3>2 DEF TaskDated
  <2> QED
    BY <2>1, <2>2, <2>3, <2>4, <2>5, <2>6
<1> QED
  BY <1>1, <1>2, <1>3 DEF TaskKept

\* Every step keeps the invariant, and does what is said of every step.
LEMMA TaskStepHolds == Tasks!TypeOK /\ TaskSoloInv /\ [Tasks!Next]_(Tasks!vars) =>
                         Tasks!TypeOK' /\ TaskSoloInv' /\ Tasks!TaskKept
<1> SUFFICES ASSUME Tasks!TypeOK, TaskSoloInv, [Tasks!Next]_(Tasks!vars)
             PROVE  Tasks!TypeOK' /\ TaskSoloInv' /\ Tasks!TaskKept
  OBVIOUS
<1>1. CASE UNCHANGED Tasks!vars
  BY <1>1 DEF Tasks!vars, Tasks!TypeOK, TaskSoloInv, Alone, TaskDated, TaskInHand, Tasks!InFlight,
     Tasks!TaskKept, Tasks!Undone
<1>2. CASE Tasks!Next
  <2>1. PICK h \in Handlers : Tasks!HandlerStep(h) /\ Tasks!Overlap(h)
    BY <1>2 DEF Tasks!Next
  <2>2. TaskKept(h)
    BY <2>1, TaskReadsKeep, TaskWritesKeep DEF Tasks!HandlerStep
  <2>3. Tasks!TypeOK'
    BY <2>1, <2>2 DEF TaskKept, Tasks!TypeOK, Tasks!Overlap
  <2>4. ASSUME ~overlapped'
        PROVE  Alone' /\ TaskDated' /\ (\A g \in Handlers : TaskInHand(g)') /\ ~Tasks!Undone
    <3>1. ~overlapped /\ \A g \in Handlers \ {h} : pc[g] = "idle" /\ pc'[g] = "idle"
      BY <2>1, <2>2, <2>4 DEF Tasks!Overlap, Tasks!InFlight, TaskKept
    <3>2. \A g \in Handlers \ {h} : TaskInHand(g)'
      BY <3>1 DEF TaskInHand
    <3>3. Alone'
      BY <3>1 DEF Alone, Tasks!InFlight
    <3> QED
      BY <2>2, <3>1, <3>2, <3>3 DEF TaskKept, TaskSoloInv, Tasks!Undone
  <2> QED
    BY <2>3, <2>4 DEF TaskSoloInv, Alone, Tasks!TaskKept
<1> QED
  BY <1>1, <1>2
-----------------------------------------------------------------------------
(***************************************************************************)
(* evaluations. The score is computed from the answers as they were read;  *)
(* as long as handlers do not overlap these are the answers of the table   *)
(* until it is saved.                                                      *)
(***************************************************************************)
\* Sizes are those of FiniteSets.
LEMMA EvalCounts ==
  ASSUME NEW S
  PROVE  /\ Evaluations!Cardinality(S) = Cardinality(S)
         /\ (Evaluations!IsFiniteSet(S) <=> IsFiniteSet(S))
  BY DEF Evaluations!Cardinality, Cardinality, Evaluations!IsFiniteSet, IsFiniteSet

\* What is assumed of the constants.
LEMMA EvalGiven ==
  Scores \subseteq Nat /\ IsFiniteSet(Categories) /\ None \notin Nat
  BY OfficeAssumption, EvalCounts DEF Evaluations!ScoresAssumption

\* What a handler may hold.
EvalColumns == SUBSET DOMAIN Evaluations!NoRow
EvalLocals == [cycle : Evaluations!Cycles, row : Evaluations!Rows, cols : EvalColumns,
               items : SUBSET Categories, scores : Evaluations!Answers,
               next : Evaluations!OrNone(Categories), found : Evaluations!OrNone(Scores)]

\* A row has a score exactly when it is submitted, in the table and in hand.
EvalSound(row) == row.status = "submitted" <=> row.total # None

\* What a row in hand is at a step: sound, without a score while it is answered; and
\* when its columns were compared with those of the table, they still differ in no
\* other.
EvalReadSound(step, read) ==
  /\ EvalSound(read.row)
  /\ step \in {"answering", "storing"} => read.row.total = None
  /\ step = "updating" => Evaluations!Differing(evaluation, read.row) \subseteq read.cols
EvalHeldSound(h) == EvalReadSound(pc[h], local[h])

\* What holds however handlers interleave.
EvalInv == /\ Evaluations!TypeOK
           /\ ~torn => EvalSound(evaluation) /\ \A h \in Handlers : EvalHeldSound(h)

\* Not submitted.
EvalBegun == evaluation.status \in {"pending", "in_progress"}
\* The score is that of the answers.
EvalScoreKnown == evaluation.status = "submitted" =>
  Evaluations!Scored(answers) # {} /\ evaluation.total = Evaluations!Total(answers)
\* Only a published cycle is closed.
EvalClosedIsPublished == cycle.status = "closed" => cycle.published

\* What is saved of an evaluation: begun, or with the score of its answers.
EvalToSave(row) ==
  \/ row.status = "in_progress"
  \/ /\ Evaluations!Scored(answers) # {}
     /\ row = [status |-> "submitted", total |-> Evaluations!Total(answers)]

\* When handlers do not overlap, what the one at work has read still holds.
EvalReadHolds(step, read) ==
  /\ step = "adding" => evaluation.status = "none"
  /\ step \in {"answering", "storing"} => EvalBegun /\ cycle.status = "active"
  /\ step = "scoring" => EvalBegun
  /\ step \in {"saving", "updating"} => EvalBegun /\ EvalToSave(read.row)
  /\ step = "changing" =>
       /\ cycle.status = "closed" => read.cycle = cycle
       /\ cycle.published => read.cycle.published
       /\ read.cycle.status = "closed" => read.cycle.published
EvalInHand(h) == EvalReadHolds(pc[h], local[h])

\* What holds as long as they do not overlap.
EvalSoloInv == /\ Alone
               /\ ~overlapped => /\ ~torn /\ EvalScoreKnown /\ EvalClosedIsPublished
                                 /\ \A h \in Handlers : EvalInHand(h)

\* What a step of h does: it keeps the invariant, as long as h is alone all of
\* it.
EvalKept(h) ==
  /\ cycle' \in Evaluations!Cycles /\ evaluation' \in Evaluations!Rows
  /\ answers' \in Evaluations!Answers
  /\ pc' \in [Handlers -> Evaluations!Steps] /\ local' \in [Handlers -> EvalLocals]
  /\ ~torn => EvalSound(evaluation)' /\ EvalHeldSound(h)'
  /\ \A g \in Handlers \ {h} : pc'[g] = pc[g] /\ local'[g] = local[g]
  /\ ~torn /\ EvalScoreKnown /\ EvalClosedIsPublished /\ EvalInHand(h) =>
       /\ EvalScoreKnown' /\ EvalClosedIsPublished' /\ EvalInHand(h)'
       /\ evaluation.status = "submitted" => UNCHANGED <<evaluation, answers>>
       /\ cycle.status = "closed" => UNCHANGED <<cycle, answers>>
       /\ cycle.published => cycle'.published

\* What is held at rest, and in a row that is not there, is typed.
LEMMA EvalEmpty == Evaluations!NoRow \in Evaluations!Rows /\ EvalSound(Evaluations!NoRow) /\ Evaluations!NoAnswers \in Evaluations!Answers /\ Evaluations!NoLocal \in EvalLocals
                   /\ Evaluations!NoLocal.row = Evaluations!NoRow
  BY DEF EvalColumns, Evaluations!NoRow, Evaluations!Rows, Evaluations!Statuses, EvalSound,
     Evaluations!NoAnswers, Evaluations!Answers, Evaluations!NoLocal, EvalLocals,
     Evaluations!Cycles, Evaluations!CycleStatuses, Evaluations!Draft,
         Evaluations!OrNone

\* What an UPDATE makes of a row: each column is the old one or that in hand.
LEMMA EvalMerge ==
  ASSUME NEW row \in Evaluations!Rows, NEW entity \in Evaluations!Rows, NEW cols
  PROVE  LET new == Evaluations!Merged(row, entity, cols) IN
         /\ new \in Evaluations!Rows
         /\ Evaluations!Differing(row, entity) \in EvalColumns
         /\ Evaluations!Differing(row, entity) \subseteq cols => new = entity
  BY DEF Evaluations!Rows, Evaluations!NoRow, Evaluations!Merged, Evaluations!Differing, EvalColumns

\* The score of an evaluation is a number.
LEMMA EvalTotalTyped ==
  ASSUME NEW scores \in Evaluations!Answers, Evaluations!Scored(scores) # {}
  PROVE  Evaluations!Total(scores) \in Nat
<1> DEFINE S == Evaluations!Scored(scores)
           sum == Evaluations!MapThenSumSet(LAMBDA k : scores[k], S)
           n == Cardinality(S)
<1>1. IsFiniteSet(S) /\ \A k \in S : scores[k] \in Nat
  BY EvalGiven, FS_Subset DEF Evaluations!Scored,
     Evaluations!Answers, Evaluations!OrNone
<1>2. n \in Nat \ {0}
  BY <1>1, FS_CardinalityType, FS_EmptySet
<1>3. sum = (CHOOSE g : g = [s \in SUBSET S |->
               IF s = {} THEN 0 ELSE scores[CHOOSE x \in s : TRUE] + g[s \ {CHOOSE x \in s : TRUE}]])[S]
  BY DEF Evaluations!MapThenSumSet, Evaluations!MapThenFoldSet
<1>4. \E g : g = [s \in SUBSET S |->
               IF s = {} THEN 0 ELSE scores[CHOOSE x \in s : TRUE] + g[s \ {CHOOSE x \in s : TRUE}]]
  <2>1. PICK G : Adds(G, scores, SUBSET S)
    BY <1>1, SumExists
  <2>2. G = [s \in SUBSET S |->
               IF s = {} THEN 0 ELSE scores[CHOOSE x \in s : TRUE] + G[s \ {CHOOSE x \in s : TRUE}]]
    BY <2>1 DEF Adds, AnyOf
  <2> QED
    BY <2>2
<1>5. PICK G : Adds(G, scores, SUBSET S) /\ sum = G[S]
  BY <1>3, <1>4 DEF Adds, AnyOf
<1>6. sum \in Nat
  BY <1>1, <1>5, SumTyped
<1>7. Evaluations!Total(scores) = (200 * sum + n) \div (2 * n)
  BY EvalCounts DEF Evaluations!Total
<1> HIDE DEF S, sum, n
<1>8. \A a \in Nat, b \in Nat \ {0} : a \div b \in Nat
  OBVIOUS
<1>9. 200 * sum + n \in Nat /\ 2 * n \in Nat \ {0}
  BY <1>2, <1>6
<1> QED
  BY <1>7, <1>8, <1>9

\* The initial states have the invariant.
LEMMA EvalInitHolds == Evaluations!Init => EvalInv /\ EvalSoloInv
<1> SUFFICES ASSUME Evaluations!Init PROVE EvalInv /\ EvalSoloInv
  OBVIOUS
<1>1. /\ overlapped = FALSE /\ torn = FALSE
      /\ \A h \in Handlers : pc[h] = "idle" /\ local[h] = Evaluations!NoLocal
  BY DEF Evaluations!Init, Evaluations!AllIdle
<1>2. overlapped \in BOOLEAN /\ torn \in BOOLEAN
  BY <1>1, Zenon
<1>3. Evaluations!TypeOK
  BY <1>2, EvalEmpty DEF Evaluations!Init, Evaluations!AllIdle, Evaluations!TypeOK,
     Evaluations!Steps, EvalLocals, EvalColumns, Evaluations!Draft, Evaluations!Cycles,
     Evaluations!CycleStatuses
<1>4. \A h \in Handlers : EvalHeldSound(h) /\ EvalInHand(h)
  BY <1>1, EvalEmpty DEF EvalHeldSound, EvalReadSound, EvalInHand, EvalReadHolds
<1> QED
  BY <1>1, <1>3, <1>4, EvalEmpty DEF Evaluations!Init, EvalInv, EvalSoloInv, Alone,
     Evaluations!InFlight, EvalScoreKnown, EvalClosedIsPublished, Evaluations!Draft,
     Evaluations!NoRow

\* Where a handler goes and what it holds then.
LEMMA EvalMoved ==
  ASSUME EvalInv, NEW h \in Handlers, NEW step \in Evaluations!Steps, NEW read \in EvalLocals,
         Evaluations!Goto(h, step), local' = [local EXCEPT ![h] = read]
  PROVE  /\ pc' \in [Handlers -> Evaluations!Steps] /\ local' \in [Handlers -> EvalLocals]
         /\ pc'[h] = step /\ local'[h] = read
         /\ \A g \in Handlers \ {h} : pc'[g] = pc[g] /\ local'[g] = local[g]
  BY DEF EvalInv, Evaluations!TypeOK, Evaluations!Goto, EvalLocals, EvalColumns

\* A handler that returns holds nothing; the others stay.
LEMMA EvalReturned ==
  ASSUME EvalInv, NEW h \in Handlers, Evaluations!Return(h)
  PROVE  /\ pc' \in [Handlers -> Evaluations!Steps] /\ local' \in [Handlers -> EvalLocals]
         /\ pc'[h] = "idle" /\ EvalHeldSound(h)' /\ EvalInHand(h)'
         /\ \A g \in Handlers \ {h} : pc'[g] = pc[g] /\ local'[g] = local[g]
<1>1. Evaluations!Goto(h, "idle") /\ local' = [local EXCEPT ![h] = Evaluations!NoLocal]
  BY DEF Evaluations!Return, Evaluations!Hold
<1>2. /\ pc' \in [Handlers -> Evaluations!Steps] /\ local' \in [Handlers -> EvalLocals]
      /\ pc'[h] = "idle" /\ local'[h] = Evaluations!NoLocal
      /\ \A g \in Handlers \ {h} : pc'[g] = pc[g] /\ local'[g] = local[g]
  BY <1>1, EvalMoved, EvalEmpty DEF Evaluations!Steps
<1> QED
  BY <1>2, EvalEmpty DEF EvalInHand, EvalHeldSound, EvalReadSound, EvalReadHolds, EvalSound

\* Handlers that read and check.
LEMMA EvalReadsKeep ==
  ASSUME EvalInv, NEW h \in Handlers, UNCHANGED <<cycle, evaluation, answers>>,
         NEW step \in Evaluations!Steps, NEW read \in EvalLocals,
         Evaluations!Goto(h, step), local' = [local EXCEPT ![h] = read],
         ~torn => EvalReadSound(step, read),
         EvalClosedIsPublished /\ EvalInHand(h) => EvalReadHolds(step, read)
  PROVE  EvalKept(h)
<1>1. /\ pc' \in [Handlers -> Evaluations!Steps] /\ local' \in [Handlers -> EvalLocals]
      /\ pc'[h] = step /\ local'[h] = read
      /\ \A g \in Handlers \ {h} : pc'[g] = pc[g] /\ local'[g] = local[g]
  BY EvalMoved
<1>2. /\ cycle' \in Evaluations!Cycles /\ evaluation' \in Evaluations!Rows
      /\ answers' \in Evaluations!Answers /\ (~torn => EvalSound(evaluation)' /\ EvalHeldSound(h)')
  BY <1>1 DEF EvalInv, Evaluations!TypeOK, EvalSound, EvalHeldSound, EvalReadSound,
     Evaluations!Differing
<1>3. EvalClosedIsPublished /\ EvalInHand(h) => EvalInHand(h)'
  BY <1>1 DEF EvalInHand, EvalReadHolds, EvalBegun, EvalToSave
<1>4. (EvalScoreKnown => EvalScoreKnown') /\ (EvalClosedIsPublished => EvalClosedIsPublished')
  BY DEF EvalScoreKnown, EvalClosedIsPublished
<1> QED
  BY <1>1, <1>2, <1>3, <1>4 DEF EvalKept

\* Handlers of the cycle and its participants.
LEMMA EvalCycleKeeps ==
  ASSUME EvalInv, NEW h \in Handlers,
         \/ Evaluations!Add(h) \/ Evaluations!AddSave(h) \/ Evaluations!UpdateCycle(h)
         \/ Evaluations!ActivateCycle(h) \/ Evaluations!PublishCycle(h)
         \/ Evaluations!SaveCycle(h)
  PROVE  EvalKept(h)
<1>0. /\ cycle \in Evaluations!Cycles /\ evaluation \in Evaluations!Rows
      /\ answers \in Evaluations!Answers /\ (~torn => EvalSound(evaluation) /\ EvalHeldSound(h))
      /\ local[h] \in EvalLocals /\ local \in [Handlers -> EvalLocals]
      /\ pc \in [Handlers -> Evaluations!Steps]
  BY DEF EvalInv, Evaluations!TypeOK, EvalLocals, EvalColumns
<1>1. CASE Evaluations!Add(h)
  <2>1. /\ Evaluations!Goto(h, "adding") /\ local' = [local EXCEPT ![h] = local[h]]
        /\ evaluation.status = "none"
        /\ UNCHANGED <<cycle, evaluation, answers>>
    BY <1>0, <1>1 DEF Evaluations!Add
  <2> QED
    BY <1>0, <2>1, EvalReadsKeep DEF EvalHeldSound, EvalReadSound, EvalReadHolds, Evaluations!Steps
<1>2. CASE Evaluations!AddSave(h)
  <2>1. /\ evaluation' = IF evaluation.status = "none" THEN [Evaluations!NoRow EXCEPT !.status = "pending"] ELSE evaluation
        /\ pc[h] = "adding" /\ Evaluations!Return(h) /\ UNCHANGED <<cycle, answers>>
    BY <1>2 DEF Evaluations!AddSave
  <2>2. [Evaluations!NoRow EXCEPT !.status = "pending"] \in Evaluations!Rows /\ EvalSound([Evaluations!NoRow EXCEPT !.status = "pending"])
        /\ [Evaluations!NoRow EXCEPT !.status = "pending"].status = "pending"
    BY DEF Evaluations!NoRow, Evaluations!Rows, Evaluations!Statuses, EvalSound, Evaluations!OrNone
  <2>3. evaluation' \in Evaluations!Rows /\ (~torn => EvalSound(evaluation)')
    BY <1>0, <2>1, <2>2 DEF EvalSound
  <2>5. EvalScoreKnown /\ EvalClosedIsPublished => EvalScoreKnown' /\ EvalClosedIsPublished'
    BY <2>1, <2>2 DEF EvalScoreKnown, EvalClosedIsPublished
  <2>6. evaluation.status = "submitted" => UNCHANGED <<evaluation, answers>>
    BY <2>1
  <2> QED
    BY <1>0, <2>1, <2>3, <2>5, <2>6, EvalReturned DEF EvalKept
<1>3. ASSUME NEW row \in Evaluations!Cycles, Evaluations!ChangeCycle(h, row),
             cycle.status = "closed" /\ cycle.published => row = cycle,
             cycle.published => row.published,
             row.status = "closed" /\ EvalClosedIsPublished => row.published
      PROVE  EvalKept(h)
  <2> DEFINE read == [Evaluations!NoLocal EXCEPT !.cycle = row]
  <2>1. read \in EvalLocals /\ read.row = Evaluations!NoRow /\ read.cycle = row
    BY EvalEmpty DEF Evaluations!NoLocal, EvalLocals
  <2>2. /\ Evaluations!Goto(h, "changing") /\ local' = [local EXCEPT ![h] = read]
        /\ UNCHANGED <<cycle, evaluation, answers>>
    BY <1>3 DEF Evaluations!ChangeCycle, Evaluations!Hold
  <2> HIDE DEF read
  <2> QED
    BY <1>3, <2>1, <2>2, EvalEmpty, EvalReadsKeep DEF Evaluations!Steps, EvalClosedIsPublished,
       EvalReadSound, EvalReadHolds
<1>4. CASE Evaluations!UpdateCycle(h)
  BY <1>0, <1>3, <1>4 DEF Evaluations!UpdateCycle
<1>5. CASE Evaluations!ActivateCycle(h)
  <2>1. [cycle EXCEPT !.status = "active"] \in Evaluations!Cycles /\ [cycle EXCEPT !.status = "active"].status = "active"
        /\ [cycle EXCEPT !.status = "active"].published = cycle.published
    BY <1>0 DEF Evaluations!Cycles, Evaluations!CycleStatuses
  <2> QED
    BY <1>3, <1>5, <2>1 DEF Evaluations!ActivateCycle
<1>6. CASE Evaluations!PublishCycle(h)
  <2> DEFINE row == [status |-> IF cycle.status = "active" THEN "closed" ELSE cycle.status, published |-> TRUE]
  <2>1. row \in Evaluations!Cycles /\ row.published
    BY <1>0 DEF Evaluations!Cycles, Evaluations!CycleStatuses
  <2>2. cycle.status = "closed" /\ cycle.published => row = cycle
    BY <1>0 DEF Evaluations!Cycles
  <2>3. Evaluations!ChangeCycle(h, row)
    BY <1>6 DEF Evaluations!PublishCycle
  <2> HIDE DEF row
  <2> QED
    BY <1>3, <2>1, <2>2, <2>3
<1>7. CASE Evaluations!SaveCycle(h)
  <2>1. /\ pc[h] = "changing" /\ cycle' = local[h].cycle /\ Evaluations!Return(h)
        /\ UNCHANGED <<evaluation, answers>>
    BY <1>7 DEF Evaluations!SaveCycle
  <2>2. cycle' \in Evaluations!Cycles
    BY <1>0, <2>1 DEF EvalLocals
  <2>3. ~torn => EvalSound(evaluation)'
    BY <1>0, <2>1 DEF EvalSound
  <2>4. EvalInHand(h) /\ EvalScoreKnown /\ EvalClosedIsPublished =>
          /\ EvalScoreKnown' /\ EvalClosedIsPublished'
          /\ cycle.status = "closed" => UNCHANGED <<cycle, answers>>
          /\ cycle.published => cycle'.published
    BY <2>1 DEF EvalScoreKnown, EvalClosedIsPublished, EvalInHand, EvalReadHolds
  <2> QED
    BY <1>0, <2>1, <2>2, <2>3, <2>4, EvalReturned DEF EvalKept
<1> QED
  BY <1>1, <1>2, <1>4, <1>5, <1>6, <1>7

\* Handlers of the answers.
LEMMA EvalAnswersKeep ==
  ASSUME EvalInv, NEW h \in Handlers,
         \/ \E items \in SUBSET Categories : \E scores \in Evaluations!Answers :
              Evaluations!Answer(h, items, scores)
         \/ (\E k \in Categories : Evaluations!AnswerFind(h, k))
         \/ Evaluations!AnswerSave(h) \/ Evaluations!AnswersSaved(h)
  PROVE  EvalKept(h)
<1>0. /\ cycle \in Evaluations!Cycles /\ evaluation \in Evaluations!Rows
      /\ answers \in Evaluations!Answers /\ (~torn => EvalSound(evaluation) /\ EvalHeldSound(h))
      /\ local[h] \in EvalLocals /\ local \in [Handlers -> EvalLocals]
      /\ pc \in [Handlers -> Evaluations!Steps]
  BY DEF EvalInv, Evaluations!TypeOK, EvalLocals, EvalColumns
<1>1. ASSUME NEW items \in SUBSET Categories, NEW scores \in Evaluations!Answers, Evaluations!Answer(h, items, scores)
      PROVE  EvalKept(h)
  <2> DEFINE read == [Evaluations!NoLocal EXCEPT !.row = evaluation, !.items = items, !.scores = scores]
  <2>1. read \in EvalLocals /\ read.row = evaluation
    BY <1>0, EvalEmpty DEF Evaluations!NoLocal, EvalLocals
  <2>2. /\ Evaluations!Goto(h, "answering") /\ local' = [local EXCEPT ![h] = read]
        /\ UNCHANGED <<cycle, evaluation, answers>>
        /\ EvalBegun /\ cycle.status = "active"
    BY <1>1 DEF Evaluations!Answer, Evaluations!Hold, EvalBegun
  <2>3. ~torn => evaluation.total = None
    BY <1>0, <2>2 DEF EvalBegun, EvalSound
  <2> HIDE DEF read
  <2> QED
    BY <1>0, <2>1, <2>2, <2>3, EvalReadsKeep DEF Evaluations!Steps, EvalReadSound, EvalReadHolds
<1>2. ASSUME NEW k \in Categories, Evaluations!AnswerFind(h, k)
      PROVE  EvalKept(h)
  <2> DEFINE read == [local[h] EXCEPT !.items = @ \ {k}, !.next = k, !.found = answers[k]]
  <2>1. /\ answers[k] \in Evaluations!OrNone(Scores) /\ k \in Evaluations!OrNone(Categories)
        /\ local[h].items \ {k} \in SUBSET Categories
    BY <1>0 DEF Evaluations!Answers, Evaluations!OrNone, EvalLocals
  <2>2. read \in EvalLocals /\ read.row = local[h].row
    BY <1>0, <2>1 DEF EvalLocals
  <2>3. /\ pc[h] = "answering" /\ Evaluations!Goto(h, "storing")
        /\ local' = [local EXCEPT ![h] = read]
        /\ UNCHANGED <<cycle, evaluation, answers>>
    BY <1>2 DEF Evaluations!AnswerFind, Evaluations!Hold
  <2> HIDE DEF read
  <2>4. EvalInHand(h) => EvalBegun /\ cycle.status = "active"
    BY <2>3 DEF EvalInHand, EvalReadHolds
  <2> QED
    BY <1>0, <2>2, <2>3, <2>4, EvalReadsKeep DEF Evaluations!Steps, EvalHeldSound, EvalReadSound,
       EvalReadHolds
<1>3. CASE Evaluations!AnswersSaved(h)
  <2>1. /\ pc[h] = "answering" /\ UNCHANGED <<cycle, evaluation, answers>>
        /\ IF local[h].row.status = "pending" THEN Evaluations!Goto(h, "saving") /\ local' = [local EXCEPT ![h] = [local[h] EXCEPT !.row.status = "in_progress"]]
                                              ELSE Evaluations!Return(h)
    BY <1>3 DEF Evaluations!AnswersSaved, Evaluations!Hold
  <2>2. CASE local[h].row.status = "pending"
    <3> DEFINE read == [local[h] EXCEPT !.row.status = "in_progress"]
    <3>1. Evaluations!Goto(h, "saving") /\ local' = [local EXCEPT ![h] = read]
      BY <2>1, <2>2
    <3>2. EvalInHand(h) => EvalBegun
      BY <2>1 DEF EvalInHand, EvalReadHolds
    <3>3. ~torn => local[h].row.total = None
      BY <1>0, <2>1 DEF EvalHeldSound, EvalReadSound
    <3>4. /\ read \in EvalLocals /\ read.row.status = "in_progress"
          /\ read.row.total = local[h].row.total
      BY <1>0 DEF EvalLocals, Evaluations!Rows, Evaluations!Statuses
    <3> HIDE DEF read
    <3> QED
      BY <2>1, <3>1, <3>2, <3>3, <3>4, EvalReadsKeep DEF Evaluations!Steps, EvalReadSound,
         EvalReadHolds, EvalSound, EvalToSave
  <2>3. CASE local[h].row.status # "pending"
    <3>1. Evaluations!Goto(h, "idle") /\ local' = [local EXCEPT ![h] = Evaluations!NoLocal]
      BY <2>1, <2>3 DEF Evaluations!Return, Evaluations!Hold
    <3> QED
      BY <2>1, <3>1, EvalReadsKeep, EvalEmpty DEF Evaluations!Steps, EvalReadSound, EvalReadHolds
  <2> QED
    BY <2>2, <2>3
<1>4. CASE Evaluations!AnswerSave(h)
  <2> DEFINE k == local[h].next
             read == [local[h] EXCEPT !.next = None, !.found = None]
  <2>1. /\ pc[h] = "storing" /\ Evaluations!Goto(h, "answering")
        /\ local' = [local EXCEPT ![h] = read]
        /\ answers' = [answers EXCEPT ![k] = IF local[h].scores[k] = None THEN local[h].found ELSE local[h].scores[k]]
        /\ UNCHANGED <<cycle, evaluation>>
    BY <1>4 DEF Evaluations!AnswerSave, Evaluations!Hold
  <2>2. answers' \in Evaluations!Answers
    BY <1>0, <2>1 DEF Evaluations!Answers, EvalLocals
  <2>3. read \in EvalLocals /\ read.row = local[h].row
    BY <1>0 DEF EvalLocals, Evaluations!OrNone
  <2> HIDE DEF read
  <2>4. /\ pc' \in [Handlers -> Evaluations!Steps] /\ local' \in [Handlers -> EvalLocals]
        /\ pc'[h] = "answering" /\ local'[h] = read
        /\ \A g \in Handlers \ {h} : pc'[g] = pc[g] /\ local'[g] = local[g]
    BY <2>1, <2>3, EvalMoved DEF Evaluations!Steps
  <2>5. ~torn => EvalSound(evaluation)' /\ EvalHeldSound(h)'
    BY <1>0, <2>1, <2>3, <2>4 DEF EvalSound, EvalHeldSound, EvalReadSound
  <2>6. EvalInHand(h) => EvalInHand(h)' /\ EvalBegun /\ cycle.status = "active"
    BY <2>1, <2>4 DEF EvalInHand, EvalReadHolds, EvalBegun
  <2> QED
    BY <1>0, <2>1, <2>2, <2>4, <2>5, <2>6 DEF EvalKept, EvalBegun, EvalScoreKnown, EvalClosedIsPublished
<1> QED
  BY <1>1, <1>2, <1>3, <1>4

\* Handlers that submit, and the saves of the evaluation.
LEMMA EvalSubmitKeeps ==
  ASSUME EvalInv, NEW h \in Handlers,
         \/ Evaluations!Submit(h) \/ Evaluations!SubmitScore(h)
         \/ Evaluations!SaveSelect(h) \/ Evaluations!Save(h)
  PROVE  EvalKept(h)
<1>0. /\ cycle \in Evaluations!Cycles /\ evaluation \in Evaluations!Rows
      /\ answers \in Evaluations!Answers /\ (~torn => EvalSound(evaluation) /\ EvalHeldSound(h))
      /\ local[h] \in EvalLocals /\ local \in [Handlers -> EvalLocals]
      /\ pc \in [Handlers -> Evaluations!Steps] /\ None \notin Nat
  BY EvalGiven DEF EvalInv, Evaluations!TypeOK, EvalLocals, EvalColumns
<1>1. CASE Evaluations!Submit(h)
  <2> DEFINE read == [Evaluations!NoLocal EXCEPT !.row = evaluation]
  <2>1. read \in EvalLocals /\ read.row = evaluation
    BY <1>0, EvalEmpty DEF Evaluations!NoLocal, EvalLocals
  <2>2. /\ Evaluations!Goto(h, "scoring") /\ local' = [local EXCEPT ![h] = read]
        /\ UNCHANGED <<cycle, evaluation, answers>>
        /\ EvalBegun
    BY <1>1 DEF Evaluations!Submit, Evaluations!Hold, EvalBegun
  <2> HIDE DEF read
  <2> QED
    BY <1>0, <2>1, <2>2, EvalReadsKeep DEF Evaluations!Steps, EvalReadSound, EvalReadHolds
<1>2. CASE Evaluations!SubmitScore(h)
  <2> DEFINE row == [status |-> "submitted", total |-> Evaluations!Total(answers)]
             read == [local[h] EXCEPT !.row = row, !.cols = {"total"}]
  <2>1. /\ pc[h] = "scoring" /\ UNCHANGED <<cycle, evaluation, answers>>
        /\ IF Evaluations!Scored(answers) = {} THEN Evaluations!Return(h) ELSE Evaluations!Goto(h, "saving") /\ local' = [local EXCEPT ![h] = read]
    BY <1>2 DEF Evaluations!SubmitScore, Evaluations!Hold
  <2>2. CASE Evaluations!Scored(answers) = {}
    <3>1. Evaluations!Goto(h, "idle") /\ local' = [local EXCEPT ![h] = Evaluations!NoLocal]
      BY <2>1, <2>2 DEF Evaluations!Return, Evaluations!Hold
    <3> QED
      BY <2>1, <3>1, EvalReadsKeep, EvalEmpty DEF Evaluations!Steps, EvalReadSound, EvalReadHolds
  <2>3. CASE Evaluations!Scored(answers) # {}
    <3>1. row \in Evaluations!Rows /\ EvalSound(row)
      BY <1>0, <2>3, EvalTotalTyped DEF Evaluations!Rows, Evaluations!Statuses, EvalSound,
         Evaluations!OrNone
    <3>2. read \in EvalLocals /\ read.row = row
      BY <1>0, <3>1 DEF EvalLocals, EvalColumns, Evaluations!NoRow
    <3>3. Evaluations!Goto(h, "saving") /\ local' = [local EXCEPT ![h] = read]
      BY <2>1, <2>3
    <3>4. EvalInHand(h) => EvalBegun
      BY <2>1 DEF EvalInHand, EvalReadHolds
    <3> HIDE DEF read
    <3> QED
      BY <2>1, <2>3, <3>1, <3>2, <3>3, <3>4, EvalReadsKeep DEF Evaluations!Steps, EvalReadSound,
         EvalReadHolds, EvalToSave
  <2> QED
    BY <2>2, <2>3
<1>3. CASE Evaluations!SaveSelect(h)
  <2> DEFINE cols == local[h].cols \cup Evaluations!Differing(evaluation, local[h].row)
             read == [local[h] EXCEPT !.cols = cols]
  <2>1. /\ pc[h] = "saving" /\ Evaluations!Goto(h, "updating")
        /\ local' = [local EXCEPT ![h] = read] /\ UNCHANGED <<cycle, evaluation, answers>>
    BY <1>3 DEF Evaluations!SaveSelect, Evaluations!Compare, Evaluations!Hold
  <2>2. local[h].row \in Evaluations!Rows /\ local[h].cols \in EvalColumns
    BY <1>0 DEF EvalLocals
  <2>3. cols \in EvalColumns
    BY <1>0, <2>2, EvalMerge DEF EvalColumns
  <2>4. Evaluations!Differing(evaluation, local[h].row) \subseteq cols
    OBVIOUS
  <2> HIDE DEF cols
  <2>5. read \in EvalLocals /\ read.row = local[h].row /\ read.cols = cols
    BY <1>0, <2>3 DEF EvalLocals
  <2> HIDE DEF read
  <2>6. EvalInHand(h) => EvalBegun /\ EvalToSave(local[h].row)
    BY <2>1 DEF EvalInHand, EvalReadHolds
  <2> QED
    BY <1>0, <2>1, <2>4, <2>5, <2>6, EvalReadsKeep DEF Evaluations!Steps, EvalHeldSound,
       EvalReadSound, EvalReadHolds
<1>4. CASE Evaluations!Save(h)
  <2>1. /\ pc[h] = "updating" /\ Evaluations!Return(h) /\ UNCHANGED <<cycle, answers>>
        /\ evaluation' = Evaluations!Merged(evaluation, local[h].row, local[h].cols)
    BY <1>4 DEF Evaluations!Save
  <2>2. local[h].row \in Evaluations!Rows
    BY <1>0 DEF EvalLocals
  <2>3. evaluation' \in Evaluations!Rows /\ (~torn => evaluation' = local[h].row)
    BY <1>0, <2>1, <2>2, EvalMerge DEF EvalHeldSound, EvalReadSound
  <2>4. ~torn => EvalSound(evaluation)'
    BY <1>0, <2>3 DEF EvalHeldSound, EvalReadSound, EvalSound
  <2>5. EvalInHand(h) => EvalBegun /\ EvalToSave(local[h].row)
    BY <2>1 DEF EvalInHand, EvalReadHolds
  <2>6. ~torn /\ EvalInHand(h) /\ EvalClosedIsPublished =>
          EvalBegun /\ EvalScoreKnown' /\ EvalClosedIsPublished'
    BY <2>1, <2>3, <2>5 DEF EvalToSave, EvalScoreKnown, EvalClosedIsPublished
  <2> QED
    BY <1>0, <2>1, <2>3, <2>4, <2>6, EvalReturned DEF EvalKept, EvalBegun
<1> QED
  BY <1>1, <1>2, <1>3, <1>4

\* Every step keeps the invariant, and does what is said of every step.
LEMMA EvalStepHolds == EvalInv /\ EvalSoloInv /\ [Evaluations!Next]_(Evaluations!vars) =>
                         EvalInv' /\ EvalSoloInv' /\ Evaluations!ScoreStands
<1> SUFFICES ASSUME EvalInv, EvalSoloInv, [Evaluations!Next]_(Evaluations!vars)
             PROVE  EvalInv' /\ EvalSoloInv' /\ Evaluations!ScoreStands
  OBVIOUS
<1>1. CASE UNCHANGED Evaluations!vars
  BY <1>1 DEF Evaluations!vars, Evaluations!TypeOK, EvalInv, EvalSoloInv, Alone, EvalSound,
     EvalHeldSound, EvalInHand, Evaluations!InFlight, Evaluations!ScoreStands, EvalScoreKnown,
              EvalClosedIsPublished, EvalBegun, EvalReadSound, EvalReadHolds, EvalToSave,
              Evaluations!Differing
<1>2. ASSUME NEW h \in Handlers, Evaluations!HandlerStep(h), Evaluations!Overlap(h),
             Evaluations!Tear(h)
      PROVE  EvalInv' /\ EvalSoloInv' /\ Evaluations!ScoreStands
  <2>1. EvalKept(h)
    BY <1>2, EvalCycleKeeps, EvalAnswersKeep, EvalSubmitKeeps DEF Evaluations!HandlerStep
  <2>5. overlapped' \in BOOLEAN /\ torn' \in BOOLEAN
    BY <1>2 DEF EvalInv, Evaluations!TypeOK, Evaluations!Overlap, Evaluations!Tear
  <2>6. ASSUME ~torn', NEW g \in Handlers \ {h}
        PROVE  EvalHeldSound(g)'
    <3>1. ~torn /\ (pc[g] = "updating" => evaluation' = evaluation)
      BY <1>2, <2>6 DEF Evaluations!Tear
    <3>2. EvalHeldSound(g) /\ pc'[g] = pc[g] /\ local'[g] = local[g]
      BY <2>1, <3>1 DEF EvalInv, EvalKept
    <3> QED
      BY <3>1, <3>2 DEF EvalHeldSound, EvalReadSound, EvalSound, Evaluations!Differing
  <2>7. Evaluations!TypeOK'
    BY <2>1, <2>5 DEF EvalKept, Evaluations!TypeOK, EvalLocals, EvalColumns
  <2>2. EvalInv'
    BY <1>2, <2>1, <2>6, <2>7 DEF EvalKept, EvalInv, Evaluations!Tear
  <2>3. ASSUME ~overlapped'
        PROVE  /\ Alone' /\ ~torn' /\ EvalScoreKnown' /\ EvalClosedIsPublished'
               /\ (\A g \in Handlers : EvalInHand(g)')
               /\ Evaluations!ScoreStands
    <3>1. ~overlapped /\ \A g \in Handlers \ {h} : pc[g] = "idle" /\ pc'[g] = "idle"
      BY <1>2, <2>1, <2>3 DEF Evaluations!Overlap, Evaluations!InFlight, EvalKept
    <3>2. \A g \in Handlers \ {h} : EvalInHand(g)'
      BY <3>1 DEF EvalInHand, EvalReadHolds
    <3>4. ~torn /\ ~torn'
      BY <1>2, <3>1 DEF EvalSoloInv, Evaluations!Tear
    <3>3. Alone'
      BY <3>1 DEF Alone, Evaluations!InFlight
    <3> QED
      BY <2>1, <3>1, <3>2, <3>3, <3>4 DEF EvalKept, EvalSoloInv, Evaluations!ScoreStands
  <2> QED
    BY <2>2, <2>3 DEF EvalSoloInv, Alone, Evaluations!ScoreStands
<1> QED
  BY <1>1, <1>2 DEF Evaluations!Next

\* The invariant is enough.
LEMMA EvalPromised == EvalInv /\ EvalSoloInv => Evaluations!TypeOK /\ Evaluations!ScoreOfAnswers
  BY DEF EvalInv, EvalSound, EvalSoloInv, EvalScoreKnown, Evaluations!ScoreOfAnswers
-----------------------------------------------------------------------------
(***************************************************************************)
(* teams. A team and its channel are written in one transaction but for a  *)
(* change of name, which the handler in between accounts for.              *)
(***************************************************************************)
\* What is assumed of the constants.
LEMMA TeamGiven == Teams!NoneAssumption
  BY OfficeAssumption

\* What a handler may hold.
TeamLocals == [id : Teams!OrNone(TeamIds), team : Teams!Rows, person : Teams!OrNone(People)]

\* A handler at work has a team in hand, and the person whom it is about.
TeamAsked(h) ==
  /\ Teams!InFlight(h) => local[h].id \in TeamIds
  /\ pc[h] \in {"adding", "dismissing", "removing", "appointing"} => local[h].person \in People

\* What holds however handlers interleave.
TeamInv == Teams!TypeOK /\ \A h \in Handlers : TeamAsked(h)

\* Between the two statements of a change of name, the title is the old name.
TeamTold(m) ==
  teams[m].title = teams[m].name \/ \E h \in Handlers : pc[h] = "titling" /\ local[h].id = m
\* The channel has the name and the members of the team.
TeamInStep(m) == teams[m].open /\ teams[m].audience = teams[m].members /\ TeamTold(m)
\* No two teams have one name.
TeamApart == \A m, o \in TeamIds :
  m # o /\ teams[m].status = "active" /\ teams[o].status = "active" => teams[m].name # teams[o].name

\* When handlers do not overlap, what the one at work has read still holds.
TeamInHand(h) ==
  /\ pc[h] = "creating" =>
       /\ teams[local[h].id].status = "none"
       /\ local[h].team.open /\ local[h].team.audience = local[h].team.members
       /\ local[h].team.title = local[h].team.name /\ Teams!Free(local[h].team.name)
  /\ Teams!InFlight(h) /\ pc[h] # "creating" => teams[local[h].id].status = "active"
  /\ pc[h] \in {"updating", "renaming"} => local[h].team.leader = teams[local[h].id].leader
  /\ pc[h] \in {"updating", "titling"} => local[h].team.name = teams[local[h].id].name
  /\ pc[h] = "renaming" => \/ local[h].team.name = teams[local[h].id].name
                           \/ Teams!Free(local[h].team.name)
  /\ pc[h] \in {"dismissing", "removing", "appointing"} =>
       local[h].person \in teams[local[h].id].members
  /\ pc[h] = "removing" => teams[local[h].id].leader # local[h].person

\* What holds as long as they do not overlap.
TeamSoloInv ==
  /\ Alone
  /\ ~overlapped =>
       /\ TeamApart
       /\ \A m \in TeamIds : teams[m].status = "active" => TeamInStep(m)
       /\ \A h \in Handlers : TeamInHand(h)

\* What is held at rest, and in a row that is not there, is typed.
LEMMA TeamEmpty == Teams!NoTeam \in Teams!Rows /\ Teams!NoLocal \in TeamLocals
  BY DEF Teams!NoTeam, Teams!NoLocal, Teams!Rows, Teams!Statuses, TeamLocals, Teams!OrNone

\* The initial states have the invariant.
LEMMA TeamInitHolds == Teams!Init => TeamInv /\ TeamSoloInv
<1> SUFFICES ASSUME Teams!Init PROVE TeamInv /\ TeamSoloInv
  OBVIOUS
<1>1. /\ \A h \in Handlers : pc[h] = "idle" /\ local[h] = Teams!NoLocal
      /\ \A m \in TeamIds : teams[m] = Teams!NoTeam /\ teams[m].status = "none"
      /\ overlapped = FALSE
  BY DEF Teams!Init, Teams!AllIdle, Teams!NoTeam
<1>2. overlapped \in BOOLEAN
  BY <1>1, Zenon
<1>3. Teams!TypeOK
  BY <1>2, TeamEmpty DEF Teams!Init, Teams!AllIdle, Teams!TypeOK, Teams!Steps, TeamLocals
<1>4. \A h \in Handlers : TeamAsked(h) /\ TeamInHand(h)
  BY <1>1 DEF TeamAsked, TeamInHand, Teams!InFlight
<1> QED
  BY <1>1, <1>3, <1>4 DEF TeamInv, TeamSoloInv, Alone, TeamApart, Teams!InFlight

\* Where a handler goes, what it holds then and what it writes.
LEMMA TeamMovedTo ==
  ASSUME TeamInv, NEW h \in Handlers, NEW step \in Teams!Steps, NEW read \in TeamLocals,
         Teams!Goto(h, step), local' = [local EXCEPT ![h] = read]
  PROVE  /\ pc' \in [Handlers -> Teams!Steps] /\ local' \in [Handlers -> TeamLocals]
         /\ pc'[h] = step /\ local'[h] = read
         /\ \A g \in Handlers \ {h} : pc'[g] = pc[g] /\ local'[g] = local[g]
  BY DEF TeamInv, Teams!TypeOK, Teams!Goto, TeamLocals

\* One row is written.
LEMMA TeamWrote ==
  ASSUME TeamInv, NEW h \in Handlers, NEW row \in Teams!Rows, Teams!InFlight(h), Teams!Write(h, row)
  PROVE  /\ teams' \in [TeamIds -> Teams!Rows] /\ teams'[local[h].id] = row
         /\ \A m \in TeamIds \ {local[h].id} : teams'[m] = teams[m]
  BY DEF TeamInv, Teams!TypeOK, TeamAsked, Teams!Write

\* A handler that returns holds nothing; the others stay.
LEMMA TeamReturned ==
  ASSUME TeamInv, NEW h \in Handlers, Teams!Return(h)
  PROVE  /\ pc' \in [Handlers -> Teams!Steps] /\ local' \in [Handlers -> TeamLocals]
         /\ pc'[h] = "idle" /\ TeamAsked(h)' /\ TeamInHand(h)'
         /\ \A g \in Handlers \ {h} : pc'[g] = pc[g] /\ local'[g] = local[g]
<1>1. /\ pc' \in [Handlers -> Teams!Steps] /\ local' \in [Handlers -> TeamLocals]
      /\ pc'[h] = "idle" /\ \A g \in Handlers \ {h} : pc'[g] = pc[g] /\ local'[g] = local[g]
  BY TeamEmpty, TeamMovedTo DEF Teams!Return, Teams!Hold, Teams!Steps
<1> QED
  BY <1>1 DEF TeamAsked, TeamInHand, Teams!InFlight

\* What a step of h does when no other handler is at work.
TeamKept(h) ==
  /\ teams' \in [TeamIds -> Teams!Rows] /\ pc' \in [Handlers -> Teams!Steps]
  /\ local' \in [Handlers -> TeamLocals]
  /\ \A g \in Handlers \ {h} : pc'[g] = pc[g] /\ local'[g] = local[g]
  /\ TeamAsked(h)'
  /\ TeamApart /\ (\A m \in TeamIds : teams[m].status = "active" => TeamInStep(m)) /\ TeamInHand(h)
     /\ (\A g \in Handlers \ {h} : ~Teams!InFlight(g)) =>
       /\ TeamApart' /\ (\A m \in TeamIds : teams'[m].status = "active" => TeamInStep(m)')
       /\ TeamInHand(h)'
       /\ \A m \in TeamIds : teams[m].status = "active" /\ teams'[m].status = "active" =>
            /\ teams'[m].leader # teams[m].leader =>
                 teams'[m].leader \in Teams!OrNone(teams'[m].members)
            /\ teams'[m].leader \in teams[m].members => teams'[m].leader \in teams'[m].members

\* A new team.
LEMMA TeamCreateKeeps ==
  ASSUME TeamInv, NEW h \in Handlers, NEW m \in TeamIds, NEW n \in Names,
         NEW people \in SUBSET People, NEW p \in Teams!OrNone(People),
         Teams!CreateTeam(h, m, n, people, p)
  PROVE  TeamKept(h)
<1> DEFINE row == [status |-> "active", name |-> n, leader |-> p, members |-> people,
                   audience |-> people, title |-> n, open |-> TRUE]
           read == [id |-> m, person |-> None, team |-> row]
<1>1. row \in Teams!Rows /\ read \in TeamLocals
  BY DEF Teams!Rows, Teams!Statuses, TeamLocals, Teams!OrNone
<1>2. /\ pc[h] = "idle" /\ Teams!Goto(h, "creating") /\ local' = [local EXCEPT ![h] = read]
      /\ teams' = teams
      /\ teams[m].status = "none" /\ Teams!Free(n)
  BY DEF Teams!CreateTeam, Teams!Hold
<1>3. /\ pc' \in [Handlers -> Teams!Steps] /\ local' \in [Handlers -> TeamLocals]
      /\ pc'[h] = "creating" /\ local'[h] = read
      /\ \A g \in Handlers \ {h} : pc'[g] = pc[g] /\ local'[g] = local[g]
  BY <1>1, <1>2, TeamMovedTo DEF Teams!Steps
<1>4. TeamAsked(h)' /\ TeamInHand(h)'
  BY <1>2, <1>3 DEF TeamAsked, TeamInHand, Teams!InFlight, Teams!Free
<1>5. (\A g \in Handlers \ {h} : ~Teams!InFlight(g)) =>
        /\ TeamApart => TeamApart'
        /\ \A o \in TeamIds : TeamInStep(o) => TeamInStep(o)'
  BY <1>2, <1>3 DEF TeamApart, TeamInStep, TeamTold, Teams!InFlight
<1> QED
  BY <1>2, <1>3, <1>4, <1>5 DEF TeamKept, TeamInv, Teams!TypeOK

\* A handler that has found its team.
LEMMA TeamFindKeeps ==
  ASSUME TeamInv, NEW h \in Handlers, NEW m \in TeamIds, NEW row \in Teams!Rows,
         NEW p \in Teams!OrNone(People),
         NEW step \in Teams!Steps \ {"idle", "creating", "titling"}, Teams!Find(h, m, row, p, step),
         step \in {"updating", "renaming"} => row.leader = teams[m].leader,
         step = "updating" => row.name = teams[m].name,
         step = "renaming" => row.name = teams[m].name \/ Teams!Free(row.name),
         step \in {"adding", "dismissing", "removing", "appointing"} => p \in People,
         step \in {"dismissing", "removing", "appointing"} => p \in teams[m].members,
         step = "removing" => teams[m].leader # p
  PROVE  TeamKept(h)
<1> DEFINE read == [id |-> m, team |-> row, person |-> p]
<1>1. read \in TeamLocals
  BY DEF TeamLocals, Teams!OrNone
<1>2. /\ pc[h] = "idle" /\ Teams!Goto(h, step) /\ local' = [local EXCEPT ![h] = read]
      /\ teams' = teams
      /\ teams[m].status = "active"
  BY DEF Teams!Find, Teams!Hold
<1>3. /\ pc' \in [Handlers -> Teams!Steps] /\ local' \in [Handlers -> TeamLocals]
      /\ pc'[h] = step /\ local'[h] = read
      /\ \A g \in Handlers \ {h} : pc'[g] = pc[g] /\ local'[g] = local[g]
  BY <1>1, <1>2, TeamMovedTo DEF Teams!Steps
<1>4. TeamAsked(h)' /\ TeamInHand(h)'
  BY <1>2, <1>3 DEF TeamAsked, TeamInHand, Teams!InFlight, Teams!Free
<1>5. (\A g \in Handlers \ {h} : ~Teams!InFlight(g)) =>
        /\ TeamApart => TeamApart'
        /\ \A o \in TeamIds : TeamInStep(o) => TeamInStep(o)'
  BY <1>2, <1>3 DEF TeamApart, TeamInStep, TeamTold, Teams!InFlight
<1> QED
  BY <1>2, <1>3, <1>4, <1>5 DEF TeamKept, TeamInv, Teams!TypeOK

\* Handlers that take a team in hand.
LEMMA TeamBeginKeeps ==
  ASSUME TeamInv, NEW h \in Handlers, NEW m \in TeamIds,
         \/ (\E n \in Teams!OrNone(Names) : Teams!UpdateTeam(h, m, n)) \/ Teams!DeleteTeam(h, m)
         \/ \E p \in People :
              \/ Teams!AddTeamMember(h, m, p) \/ Teams!RemoveTeamMember(h, m, p)
              \/ Teams!SetTeamLeader(h, m, p)
  PROVE  TeamKept(h)
<1>0. teams[m] \in Teams!Rows /\ None \notin People
  BY TeamGiven DEF TeamInv, Teams!TypeOK, Teams!NoneAssumption
<1>1. ASSUME NEW n \in Teams!OrNone(Names), Teams!UpdateTeam(h, m, n)
      PROVE  TeamKept(h)
  <2> DEFINE row == [teams[m] EXCEPT !.name = IF n = None THEN @ ELSE n]
             step == IF n = None THEN "updating" ELSE "renaming"
  <2>1. /\ row \in Teams!Rows /\ row.leader = teams[m].leader
        /\ row.name = IF n = None THEN teams[m].name ELSE n
    BY <1>0 DEF Teams!Rows, Teams!OrNone
  <2>2. Teams!Find(h, m, row, None, step) /\ (n \notin {None, teams[m].name} => Teams!Free(n))
    BY <1>1 DEF Teams!UpdateTeam
  <2>3. step \in {"updating", "renaming"} /\ (step = "updating" <=> n = None)
    OBVIOUS
  <2>4. step \in Teams!Steps \ {"idle", "creating", "titling"} /\ None \in Teams!OrNone(People)
    BY DEF Teams!Steps, Teams!OrNone
  <2>5. (step = "updating" => row.name = teams[m].name)
        /\ (step = "renaming" => row.name = teams[m].name \/ Teams!Free(row.name))
    BY <2>1, <2>2, <2>3
  <2> HIDE DEF row, step
  <2> QED
    BY <2>1, <2>2, <2>3, <2>4, <2>5, TeamFindKeeps
<1>2. CASE Teams!DeleteTeam(h, m)
  BY <1>2, TeamFindKeeps, TeamEmpty DEF Teams!DeleteTeam, Teams!Steps, Teams!OrNone
<1>3. ASSUME NEW p \in People, Teams!AddTeamMember(h, m, p)
      PROVE  TeamKept(h)
  BY <1>3, TeamFindKeeps, TeamEmpty DEF Teams!AddTeamMember, Teams!Steps, Teams!OrNone
<1>4. ASSUME NEW p \in People, Teams!RemoveTeamMember(h, m, p)
      PROVE  TeamKept(h)
  <2>1. CASE teams[m].leader = p
    BY <1>4, <2>1, TeamFindKeeps, TeamEmpty DEF Teams!RemoveTeamMember, Teams!Steps, Teams!OrNone
  <2>2. CASE teams[m].leader # p
    BY <1>4, <2>2, TeamFindKeeps, TeamEmpty DEF Teams!RemoveTeamMember, Teams!Steps, Teams!OrNone
  <2> QED
    BY <2>1, <2>2
<1>5. ASSUME NEW p \in People, Teams!SetTeamLeader(h, m, p)
      PROVE  TeamKept(h)
  BY <1>5, TeamFindKeeps, TeamEmpty DEF Teams!SetTeamLeader, Teams!Steps, Teams!OrNone
<1> QED
  BY <1>1, <1>2, <1>3, <1>4, <1>5

\* The writes.  Each concerns the team in hand only.
LEMMA TeamCommitKeeps ==
  ASSUME TeamInv, NEW h \in Handlers,
         \/ Teams!CreateCommit(h) \/ Teams!UpdateChannel(h) \/ Teams!DeleteCommit(h)
         \/ Teams!AddCommit(h) \/ Teams!RemoveCommit(h) \/ Teams!SetTeamLeaderUpdate(h)
  PROVE  TeamKept(h)
<1> DEFINE id == local[h].id
           was == teams[id]
           who == local[h].person
<1>1. /\ Teams!InFlight(h) /\ id \in TeamIds /\ was \in Teams!Rows
      /\ local[h] \in TeamLocals /\ local[h].team \in Teams!Rows
  BY DEF TeamInv, Teams!TypeOK, TeamAsked, Teams!InFlight, TeamLocals, Teams!CreateCommit,
     Teams!UpdateChannel, Teams!DeleteCommit, Teams!AddCommit,
         Teams!RemoveCommit, Teams!SetTeamLeaderUpdate
<1>2. PICK row \in Teams!Rows :
        /\ Teams!Write(h, row) /\ Teams!Return(h)
        /\ TeamInHand(h) /\ (was.status = "active" => was.open /\ was.audience = was.members) =>
             /\ row.status = "active" =>
                  row.open /\ row.audience = row.members
                  /\ (row.title = row.name \/ (row.title = was.title /\ row.name = was.name
                                               /\ was.status = "active" /\ pc[h] # "titling"))
                  /\ (Teams!Free(row.name) \/ (was.status = "active" /\ row.name = was.name))
             /\ was.status = "active" /\ row.status = "active" =>
                  /\ row.leader # was.leader => row.leader \in Teams!OrNone(row.members)
                  /\ row.leader \in was.members => row.leader \in row.members
  <2>1. CASE Teams!CreateCommit(h)
    <3>1. pc[h] = "creating" /\ Teams!Write(h, local[h].team) /\ Teams!Return(h)
      BY <2>1 DEF Teams!CreateCommit
    <3> QED
      BY <1>1, <3>1 DEF TeamInHand
  <2>2. CASE Teams!UpdateChannel(h)
    <3> DEFINE row == [was EXCEPT !.title = local[h].team.name]
    <3>1. pc[h] = "titling" /\ Teams!Write(h, row) /\ Teams!Return(h)
      BY <2>2 DEF Teams!UpdateChannel
    <3>2. /\ row \in Teams!Rows /\ row.title = local[h].team.name /\ row.name = was.name
          /\ row.status = was.status
          /\ row.open = was.open /\ row.members = was.members /\ row.audience = was.audience
          /\ row.leader = was.leader
      BY <1>1 DEF Teams!Rows
    <3>3. TeamInHand(h) => local[h].team.name = was.name /\ was.status = "active"
      BY <3>1 DEF TeamInHand, Teams!InFlight
    <3> HIDE DEF row
    <3> QED
      BY <3>1, <3>2, <3>3
  <2>3. CASE Teams!DeleteCommit(h)
    <3> DEFINE row == [was EXCEPT !.open = FALSE, !.members = {}, !.status = "deleted"]
    <3>1. Teams!Write(h, row) /\ Teams!Return(h)
      BY <2>3 DEF Teams!DeleteCommit
    <3>2. row \in Teams!Rows /\ row.status = "deleted"
      BY <1>1 DEF Teams!Rows, Teams!Statuses
    <3> QED
      BY <3>1, <3>2
  <2>4. CASE Teams!AddCommit(h)
    <3> DEFINE row == [was EXCEPT !.members = @ \cup {who}, !.audience = @ \cup {who}]
    <3>1. pc[h] = "adding" /\ Teams!Write(h, row) /\ Teams!Return(h)
      BY <2>4 DEF Teams!AddCommit
    <3>2. who \in People
      BY <3>1 DEF TeamInv, TeamAsked
    <3>3. /\ row \in Teams!Rows /\ row.title = was.title /\ row.name = was.name
          /\ row.status = was.status
          /\ row.open = was.open /\ row.members = was.members \cup {who}
          /\ row.audience = was.audience \cup {who} /\ row.leader = was.leader
      BY <1>1, <3>2 DEF Teams!Rows
    <3>4. TeamInHand(h) => was.status = "active"
      BY <3>1 DEF TeamInHand, Teams!InFlight
    <3>5. row.leader \in was.members => row.leader \in row.members
      BY <3>3, Zenon
    <3> HIDE DEF row
    <3>6. was.status = "active" /\ was.open /\ was.audience = was.members =>
            row.open /\ row.audience = row.members
      BY <3>3
    <3>7. pc[h] # "titling"
      BY <3>1
    <3> QED
      BY <3>1, <3>3, <3>4, <3>5, <3>6, <3>7
  <2>5. CASE Teams!RemoveCommit(h)
    <3> DEFINE row == [was EXCEPT !.members = @ \ {who}, !.audience = @ \ {who}]
    <3>1. pc[h] = "removing" /\ Teams!Write(h, row) /\ Teams!Return(h)
      BY <2>5 DEF Teams!RemoveCommit
    <3>3. /\ row \in Teams!Rows /\ row.title = was.title /\ row.name = was.name
          /\ row.status = was.status
          /\ row.open = was.open /\ row.members = was.members \ {who}
          /\ row.audience = was.audience \ {who} /\ row.leader = was.leader
      BY <1>1 DEF Teams!Rows
    <3>4. TeamInHand(h) => was.leader # who
      BY <3>1 DEF TeamInHand
    <3> HIDE DEF row
    <3> QED
      BY <3>1, <3>3, <3>4
  <2>6. CASE Teams!SetTeamLeaderUpdate(h)
    <3> DEFINE row == [was EXCEPT !.leader = who]
    <3>1. pc[h] = "appointing" /\ Teams!Write(h, row) /\ Teams!Return(h)
      BY <2>6 DEF Teams!SetTeamLeaderUpdate
    <3>2. who \in People
      BY <3>1 DEF TeamInv, TeamAsked
    <3>3. /\ row \in Teams!Rows /\ row.title = was.title /\ row.name = was.name
          /\ row.status = was.status
          /\ row.open = was.open /\ row.members = was.members
          /\ row.audience = was.audience /\ row.leader = who
      BY <1>1, <3>2 DEF Teams!Rows, Teams!OrNone
    <3>4. TeamInHand(h) => who \in was.members
      BY <3>1 DEF TeamInHand
    <3> HIDE DEF row
    <3> QED
      BY <3>1, <3>3, <3>4 DEF Teams!OrNone
  <2> QED
    BY <2>1, <2>2, <2>3, <2>4, <2>5, <2>6
<1>3. /\ teams' \in [TeamIds -> Teams!Rows] /\ teams'[id] = row
      /\ \A m \in TeamIds \ {id} : teams'[m] = teams[m]
  BY <1>1, <1>2, TeamWrote
<1>4. /\ pc' \in [Handlers -> Teams!Steps] /\ local' \in [Handlers -> TeamLocals]
      /\ pc'[h] = "idle" /\ TeamAsked(h)' /\ TeamInHand(h)'
      /\ \A g \in Handlers \ {h} : pc'[g] = pc[g] /\ local'[g] = local[g]
  BY <1>2, TeamReturned
<1>5. ASSUME TeamApart, \A m \in TeamIds : teams[m].status = "active" => TeamInStep(m), TeamInHand(h),
             \A g \in Handlers \ {h} : ~Teams!InFlight(g)
      PROVE  /\ TeamApart' /\ (\A m \in TeamIds : teams'[m].status = "active" => TeamInStep(m)')
             /\ \A m \in TeamIds : teams[m].status = "active" /\ teams'[m].status = "active" =>
                  /\ teams'[m].leader # teams[m].leader =>
                       teams'[m].leader \in Teams!OrNone(teams'[m].members)
                  /\ teams'[m].leader \in teams[m].members => teams'[m].leader \in teams'[m].members
  <2>1. was.status = "active" => was.open /\ was.audience = was.members /\ TeamTold(id)
    BY <1>1, <1>5 DEF TeamInStep
  <2>2. /\ row.status = "active" =>
             row.open /\ row.audience = row.members
             /\ (row.title = row.name \/ (row.title = was.title /\ row.name = was.name
                                          /\ was.status = "active" /\ pc[h] # "titling"))
             /\ (Teams!Free(row.name) \/ (was.status = "active" /\ row.name = was.name))
        /\ was.status = "active" /\ row.status = "active" =>
             /\ row.leader # was.leader => row.leader \in Teams!OrNone(row.members)
             /\ row.leader \in was.members => row.leader \in row.members
    BY <1>2, <1>5, <2>1
  <2>3. TeamApart'
    BY <1>3, <1>5, <2>2 DEF TeamApart, Teams!Free
  <2>4. ASSUME NEW m \in TeamIds, teams'[m].status = "active"
        PROVE  TeamInStep(m)'
    <3>1. CASE m = id
      BY <1>3, <1>5, <2>1, <2>2, <2>4, <3>1 DEF TeamInStep, TeamTold, Teams!InFlight
    <3>2. CASE m # id
      BY <1>1, <1>3, <1>5, <2>4, <3>2 DEF TeamInStep, TeamTold, Teams!InFlight
    <3> QED
      BY <3>1, <3>2
  <2> QED
    BY <1>1, <1>3, <2>2, <2>3, <2>4
<1> QED
  BY <1>3, <1>4, <1>5 DEF TeamKept

\* The first statements of a change of name and of the removal of a leader.
LEMMA TeamHalfKeeps ==
  ASSUME TeamInv, NEW h \in Handlers, Teams!UpdateSave(h) \/ Teams!Dismiss(h)
  PROVE  TeamKept(h)
<1> DEFINE id == local[h].id
           was == teams[id]
           read == local[h].team
           who == local[h].person
<1>1. Teams!InFlight(h) /\ id \in TeamIds /\ was \in Teams!Rows /\ local[h] \in TeamLocals /\ read \in Teams!Rows
      /\ pc \in [Handlers -> Teams!Steps] /\ local \in [Handlers -> TeamLocals]
      /\ None \notin People
  BY TeamGiven DEF TeamInv, Teams!TypeOK, TeamAsked, Teams!InFlight, TeamLocals, Teams!UpdateSave,
     Teams!Dismiss, Teams!NoneAssumption
<1>2. CASE Teams!UpdateSave(h)
  <2> DEFINE row == [was EXCEPT !.status = "active", !.name = read.name, !.leader = read.leader]
  <2>1. /\ pc[h] \in {"updating", "renaming"} /\ Teams!Write(h, row)
        /\ IF pc[h] = "updating" THEN Teams!Return(h) ELSE Teams!Goto(h, "titling") /\ UNCHANGED local
    BY <1>2 DEF Teams!UpdateSave
  <2>2. /\ row \in Teams!Rows /\ row.title = was.title /\ row.name = read.name
        /\ row.status = "active"
        /\ row.open = was.open /\ row.members = was.members /\ row.audience = was.audience
        /\ row.leader = read.leader
    BY <1>1 DEF Teams!Rows, Teams!Statuses
  <2> HIDE DEF row
  <2>3. /\ teams' \in [TeamIds -> Teams!Rows] /\ teams'[id] = row
        /\ \A m \in TeamIds \ {id} : teams'[m] = teams[m]
    BY <1>1, <2>1, <2>2, TeamWrote
  <2>4. /\ pc' \in [Handlers -> Teams!Steps] /\ local' \in [Handlers -> TeamLocals]
        /\ \A g \in Handlers \ {h} : pc'[g] = pc[g] /\ local'[g] = local[g]
        /\ IF pc[h] = "updating" THEN pc'[h] = "idle" ELSE pc'[h] = "titling" /\ local'[h] = local[h]
    <3>1. CASE pc[h] = "updating"
      BY <2>1, <3>1, TeamReturned
    <3>2. CASE pc[h] # "updating"
      BY <1>1, <2>1, <3>2 DEF Teams!Goto, Teams!Steps
    <3> QED
      BY <3>1, <3>2
  <2>5. TeamAsked(h)'
    BY <1>1, <2>4 DEF TeamAsked, Teams!InFlight
  <2>6. ASSUME TeamApart, \A m \in TeamIds : teams[m].status = "active" => TeamInStep(m), TeamInHand(h),
               \A g \in Handlers \ {h} : ~Teams!InFlight(g)
        PROVE  /\ TeamApart'
               /\ (\A m \in TeamIds : teams'[m].status = "active" => TeamInStep(m)')
               /\ TeamInHand(h)'
               /\ row.leader = was.leader
    <3>1. /\ was.status = "active" /\ read.leader = was.leader
          /\ read.name = was.name \/ (pc[h] = "renaming" /\ Teams!Free(read.name))
      BY <2>1, <2>6 DEF TeamInHand, Teams!InFlight
    <3>2. was.open /\ was.audience = was.members /\ was.title = was.name
      BY <1>1, <2>1, <2>6, <3>1 DEF TeamInStep, TeamTold, Teams!InFlight
    <3>3. TeamApart'
      BY <2>2, <2>3, <2>6, <3>1 DEF TeamApart, Teams!Free
    <3>4. ASSUME NEW m \in TeamIds, teams'[m].status = "active"
          PROVE  TeamInStep(m)'
      <4>1. CASE m = id
        <5>1. CASE pc[h] = "updating"
          <6>1. teams'[m].title = teams'[m].name
            BY <2>2, <2>3, <2>6, <3>2, <4>1, <5>1 DEF TeamInHand
          <6> QED
            BY <2>2, <2>3, <3>2, <4>1, <6>1 DEF TeamInStep, TeamTold
        <5>2. CASE pc[h] # "updating"
          <6>1. pc'[h] = "titling" /\ local'[h].id = m
            BY <2>4, <4>1, <5>2
          <6> QED
            BY <2>2, <2>3, <3>2, <4>1, <6>1 DEF TeamInStep, TeamTold
        <5> QED
          BY <5>1, <5>2
      <4>2. CASE m # id
        BY <1>1, <2>1, <2>3, <2>6, <3>4, <4>2 DEF TeamInStep, TeamTold, Teams!InFlight
      <4> QED
        BY <4>1, <4>2
    <3>5. TeamInHand(h)'
      BY <2>1, <2>2, <2>3, <2>4, <3>1 DEF TeamInHand, Teams!InFlight
    <3> QED
      BY <2>2, <3>1, <3>3, <3>4, <3>5
  <2>7. (\A m \in TeamIds \ {id} : teams'[m].leader = teams[m].leader /\ teams'[m].members = teams[m].members)
        /\ teams'[id].members = teams[id].members
    BY <2>2, <2>3
  <2> QED
    BY <1>1, <2>3, <2>4, <2>5, <2>6, <2>7 DEF TeamKept
<1>3. CASE Teams!Dismiss(h)
  <2> DEFINE row == [was EXCEPT !.leader = None]
  <2>1. pc[h] = "dismissing" /\ Teams!Write(h, row) /\ Teams!Goto(h, "removing") /\ local' = local
    BY <1>3 DEF Teams!Dismiss
  <2>2. /\ row \in Teams!Rows /\ row.title = was.title /\ row.name = was.name
        /\ row.status = was.status
        /\ row.open = was.open /\ row.members = was.members /\ row.audience = was.audience
        /\ row.leader = None
    BY <1>1 DEF Teams!Rows, Teams!OrNone
  <2> HIDE DEF row
  <2>3. /\ teams' \in [TeamIds -> Teams!Rows] /\ teams'[id] = row
        /\ \A m \in TeamIds \ {id} : teams'[m] = teams[m]
    BY <1>1, <2>1, <2>2, TeamWrote
  <2>4. /\ pc' \in [Handlers -> Teams!Steps] /\ local' \in [Handlers -> TeamLocals]
        /\ pc'[h] = "removing"
        /\ \A g \in Handlers \ {h} : pc'[g] = pc[g]
    BY <1>1, <2>1 DEF Teams!Goto, Teams!Steps
  <2>5. TeamAsked(h)' /\ who \in People
    BY <1>1, <2>1, <2>4 DEF TeamAsked, Teams!InFlight, TeamInv
  <2>6. ASSUME TeamApart, \A m \in TeamIds : teams[m].status = "active" => TeamInStep(m), TeamInHand(h),
               \A g \in Handlers \ {h} : ~Teams!InFlight(g)
        PROVE  /\ TeamApart'
               /\ (\A m \in TeamIds : teams'[m].status = "active" => TeamInStep(m)')
               /\ TeamInHand(h)'
    <3>1. was.status = "active" /\ who \in was.members
      BY <2>1, <2>6 DEF TeamInHand, Teams!InFlight
    <3>2. TeamApart'
      BY <2>2, <2>3, <2>6, <3>1 DEF TeamApart
    <3>3. \A m \in TeamIds : teams'[m].status = "active" => TeamInStep(m)'
      BY <1>1, <2>1, <2>2, <2>3, <2>6 DEF TeamInStep, TeamTold, Teams!InFlight
    <3>4. TeamInHand(h)'
      BY <1>1, <2>1, <2>2, <2>3, <2>4, <2>5, <3>1 DEF TeamInHand, Teams!InFlight
    <3> QED
      BY <3>2, <3>3, <3>4
  <2>7. \A m \in TeamIds :
          /\ teams'[m].leader # teams[m].leader =>
               teams'[m].leader \in Teams!OrNone(teams'[m].members)
          /\ teams'[m].members = teams[m].members
    BY <2>2, <2>3 DEF Teams!OrNone
  <2> QED
    BY <2>1, <2>3, <2>4, <2>5, <2>6, <2>7 DEF TeamKept
<1> QED
  BY <1>2, <1>3

\* A step of any handler.
LEMMA TeamNextHolds ==
  ASSUME TeamInv, TeamSoloInv, Teams!Next
  PROVE  TeamInv' /\ TeamSoloInv' /\ Teams!LeaderIsMember
<1>1. PICK h \in Handlers : Teams!HandlerStep(h) /\ Teams!Overlap(h)
  BY DEF Teams!Next
<1>2. TeamKept(h)
  <2>1. ASSUME NEW m \in TeamIds, NEW n \in Names, NEW people \in SUBSET People,
               NEW p \in Teams!OrNone(People), Teams!CreateTeam(h, m, n, people, p)
        PROVE  TeamKept(h)
    BY <2>1, TeamCreateKeeps
  <2>2. ASSUME NEW m \in TeamIds,
               \/ (\E n \in Teams!OrNone(Names) : Teams!UpdateTeam(h, m, n))
               \/ Teams!DeleteTeam(h, m)
               \/ \E p \in People :
                    \/ Teams!AddTeamMember(h, m, p) \/ Teams!RemoveTeamMember(h, m, p)
                    \/ Teams!SetTeamLeader(h, m, p)
        PROVE  TeamKept(h)
    BY <2>2, TeamBeginKeeps
  <2> QED
    BY <1>1, <2>1, <2>2, TeamCommitKeeps, TeamHalfKeeps DEF Teams!HandlerStep
<1>3. overlapped' \in BOOLEAN
  BY <1>1 DEF Teams!Overlap, TeamInv, Teams!TypeOK
<1>4. TeamInv'
  BY <1>2, <1>3 DEF TeamKept, TeamInv, Teams!TypeOK, TeamAsked, Teams!InFlight, TeamLocals
<1>5. ASSUME ~overlapped'
      PROVE  /\ Alone' /\ TeamApart'
             /\ (\A m \in TeamIds : teams'[m].status = "active" => TeamInStep(m)')
             /\ (\A g \in Handlers : TeamInHand(g)') /\ Teams!LeaderIsMember
  <2>1. ~overlapped /\ \A g \in Handlers \ {h} : ~Teams!InFlight(g)
    BY <1>1, <1>5 DEF Teams!Overlap
  <2>2. \A g \in Handlers \ {h} : pc'[g] = "idle"
    BY <1>2, <2>1 DEF TeamKept, Teams!InFlight
  <2>3. \A g \in Handlers \ {h} : TeamInHand(g)'
    BY <2>2 DEF TeamInHand, Teams!InFlight
  <2>4. Alone'
    BY <2>2 DEF Alone, Teams!InFlight
  <2> QED
    BY <1>2, <2>1, <2>3, <2>4 DEF TeamKept, TeamSoloInv, Teams!LeaderIsMember
<1> QED
  BY <1>4, <1>5 DEF TeamSoloInv, Alone, Teams!LeaderIsMember

\* Every step keeps the invariant, and does what is said of every step.
LEMMA TeamStepHolds == TeamInv /\ TeamSoloInv /\ [Teams!Next]_(Teams!vars) =>
                         TeamInv' /\ TeamSoloInv' /\ Teams!LeaderIsMember
<1> SUFFICES ASSUME TeamInv, TeamSoloInv, UNCHANGED Teams!vars
             PROVE  TeamInv' /\ TeamSoloInv' /\ Teams!LeaderIsMember
  BY TeamNextHolds
<1>1. TeamInv'
  BY DEF Teams!vars, TeamInv, Teams!TypeOK, TeamAsked, Teams!InFlight
<1>2. TeamSoloInv' /\ Teams!LeaderIsMember
  BY DEF Teams!vars, TeamSoloInv, Alone, TeamApart, TeamInStep, TeamTold, TeamInHand,
     Teams!InFlight, Teams!Free, Teams!LeaderIsMember
<1> QED
  BY <1>1, <1>2

\* The invariant is enough.
LEMMA TeamPromised == TeamInv /\ TeamSoloInv => Teams!TypeOK /\ Teams!TeamsInStep
<1> SUFFICES ASSUME TeamInv, TeamSoloInv, Teams!Quiet, ~overlapped, NEW m \in TeamIds, teams[m].status = "active"
             PROVE  /\ teams[m].open /\ teams[m].title = teams[m].name
                    /\ teams[m].audience = teams[m].members
                    /\ \A o \in TeamIds \ {m} : teams[o].status = "active" =>
                         teams[o].name # teams[m].name
  BY DEF TeamInv, Teams!TeamsInStep
<1> QED
  BY DEF TeamSoloInv, TeamInStep, TeamTold, TeamApart, Teams!Quiet, Teams!InFlight
-----------------------------------------------------------------------------
(***************************************************************************)
(* rosters. A batch of duties is inserted row by row; as long as handlers  *)
(* do not overlap, the duty about to be inserted has no row.               *)
(***************************************************************************)
\* The date of publication goes with the status, in the table and in the row that
\* will be saved.
RosterSound(row) == row.status = "published" <=> row.publishedAt

\* A row in hand.
RosterReadTyped(step, read) == step \in {"counting", "saving", "updating"} => read.row \in ShiftSchedules!Rows
RosterHeldTyped(h) == RosterReadTyped(pc[h], local[h])
\* It is sound; when its columns were compared with those of the table, they still
\* differ in no other.
RosterReadSound(step, read) ==
  /\ step \in {"counting", "saving", "updating"} => RosterSound(read.row)
  /\ step = "updating" => ShiftSchedules!Differing(roster, read.row) \subseteq read.cols
RosterHeldSound(h) == RosterReadSound(pc[h], local[h])

\* What holds however handlers interleave.
RosterInv ==
  /\ ShiftSchedules!TypeOK
  /\ \A h \in Handlers : RosterHeldTyped(h)
  /\ ~torn => RosterSound(roster) /\ \A h \in Handlers : RosterHeldSound(h)

\* No duty has two rows, but those that an exchange has given one to.
RosterAtMostOne == \A d \in Duties \ exchanged : duties[d] <= 1
\* Some duty has a row.
RosterFilled == \E d \in Duties : duties[d] > 0

\* When handlers do not overlap, what the one at work has read still holds.
RosterReadHolds(step, read) ==
  /\ step \in {"counting", "saving", "updating", "removing"} => ~roster.deleted
  /\ step = "counting" => read.row.title = roster.title
  /\ step \in {"saving", "updating"} =>
       /\ read.row.title # roster.title => roster.status = "draft"
       /\ read.row.status = "published" /\ roster.status = "draft" => RosterFilled
  /\ step = "inserting" => read.one \in Duties /\ duties[read.one] = 0
RosterInHand(h) == RosterReadHolds(pc[h], local[h])

\* What holds as long as they do not overlap.
RosterSoloInv ==
  Alone /\ (~overlapped => ~torn /\ RosterAtMostOne /\ \A h \in Handlers : RosterInHand(h))

\* What a step of h does: it keeps the invariant, as long as h is alone all of
\* it.
RosterKept(h) ==
  /\ roster' \in ShiftSchedules!Rows /\ duties' \in [Duties -> 0 .. 2] /\ exchanged' \subseteq Duties
  /\ pc' \in [Handlers -> ShiftSchedules!Steps] /\ local' \in [Handlers -> ShiftSchedules!Locals]
  /\ RosterHeldTyped(h)' /\ (~torn => RosterSound(roster)' /\ RosterHeldSound(h)')
  /\ \A g \in Handlers \ {h} : pc'[g] = pc[g] /\ local'[g] = local[g]
  /\ ~torn /\ RosterAtMostOne /\ RosterInHand(h) =>
       /\ RosterAtMostOne' /\ RosterInHand(h)'
       /\ roster'.status = "published" /\ roster.status = "draft" => RosterFilled
       /\ roster'.title # roster.title => roster.status = "draft"
       /\ roster.deleted => roster' = roster

\* What is held at rest, and in a row that is not there, is typed.
LEMMA RosterEmpty == ShiftSchedules!NoLocal \in ShiftSchedules!Locals
  BY DEF ShiftSchedules!NoLocal, ShiftSchedules!Locals, ShiftSchedules!OrNone

\* What an UPDATE makes of a row: each column is the old one or that in hand.
LEMMA RosterMerge ==
  ASSUME NEW row \in ShiftSchedules!Rows, NEW entity \in ShiftSchedules!Rows, NEW cols
  PROVE  LET new == ShiftSchedules!Merged(row, entity, cols) IN
         /\ new \in ShiftSchedules!Rows
         /\ ShiftSchedules!Differing(row, entity) \in SUBSET ShiftSchedules!Columns
         /\ ShiftSchedules!Differing(row, entity) \subseteq cols => new = entity
  BY DEF ShiftSchedules!Rows, ShiftSchedules!Columns, ShiftSchedules!Merged, ShiftSchedules!Differing

\* The initial states have the invariant.
LEMMA RosterInitHolds == ShiftSchedules!Init => RosterInv /\ RosterSoloInv
<1> SUFFICES ASSUME ShiftSchedules!Init PROVE RosterInv /\ RosterSoloInv
  OBVIOUS
<1>1. /\ overlapped = FALSE /\ torn = FALSE
      /\ (\A h \in Handlers : pc[h] = "idle") /\ \A d \in Duties : duties[d] = 0
  BY DEF ShiftSchedules!Init, ShiftSchedules!AllIdle
<1>2. overlapped \in BOOLEAN /\ torn \in BOOLEAN
  BY <1>1, Zenon
<1>3. ShiftSchedules!TypeOK
  BY <1>2, RosterEmpty DEF ShiftSchedules!Init, ShiftSchedules!AllIdle, ShiftSchedules!TypeOK,
     ShiftSchedules!Steps, ShiftSchedules!Rows, ShiftSchedules!Draft
<1>4. RosterSound(roster)
  BY DEF ShiftSchedules!Init, ShiftSchedules!Draft, RosterSound
<1> QED
  BY <1>1, <1>3, <1>4 DEF RosterInv, RosterSoloInv, RosterHeldSound, RosterReadSound,
     RosterHeldTyped, RosterReadTyped, Alone, ShiftSchedules!InFlight, RosterInHand,
     RosterReadHolds, RosterAtMostOne

\* A handler that goes on takes what it has read with it; the others stay.
LEMMA RosterMoved ==
  ASSUME RosterInv, NEW h \in Handlers, NEW step \in ShiftSchedules!Steps,
         NEW read \in ShiftSchedules!Locals,
         ShiftSchedules!Goto(h, step), local' = [local EXCEPT ![h] = read]
  PROVE  /\ pc' \in [Handlers -> ShiftSchedules!Steps]
         /\ local' \in [Handlers -> ShiftSchedules!Locals]
         /\ pc'[h] = step /\ local'[h] = read
         /\ \A g \in Handlers \ {h} : pc'[g] = pc[g] /\ local'[g] = local[g]
  BY DEF RosterInv, ShiftSchedules!TypeOK, ShiftSchedules!Goto

\* A handler that returns holds nothing; the others stay.
LEMMA RosterReturned ==
  ASSUME RosterInv, NEW h \in Handlers, ShiftSchedules!Return(h)
  PROVE  /\ pc' \in [Handlers -> ShiftSchedules!Steps]
         /\ local' \in [Handlers -> ShiftSchedules!Locals]
         /\ RosterHeldTyped(h)' /\ RosterHeldSound(h)' /\ RosterInHand(h)'
         /\ \A g \in Handlers \ {h} : pc'[g] = pc[g] /\ local'[g] = local[g]
<1>1. /\ pc' \in [Handlers -> ShiftSchedules!Steps]
      /\ local' \in [Handlers -> ShiftSchedules!Locals] /\ pc'[h] = "idle"
      /\ \A g \in Handlers \ {h} : pc'[g] = pc[g] /\ local'[g] = local[g]
  BY RosterMoved, RosterEmpty DEF ShiftSchedules!Return, ShiftSchedules!Hold, ShiftSchedules!Steps
<1> QED
  BY <1>1 DEF RosterHeldTyped, RosterReadTyped, RosterHeldSound, RosterReadSound, RosterInHand,
     RosterReadHolds

\* Nothing is written.
LEMMA RosterReadsKeep ==
  ASSUME RosterInv, NEW h \in Handlers, UNCHANGED <<roster, duties, exchanged>>,
         NEW step \in ShiftSchedules!Steps, NEW read \in ShiftSchedules!Locals,
         ShiftSchedules!Goto(h, step), local' = [local EXCEPT ![h] = read],
         RosterReadTyped(step, read), ~torn => RosterReadSound(step, read),
         RosterAtMostOne /\ RosterInHand(h) => RosterReadHolds(step, read)
  PROVE  RosterKept(h)
<1>1. /\ pc' \in [Handlers -> ShiftSchedules!Steps]
      /\ local' \in [Handlers -> ShiftSchedules!Locals]
      /\ pc'[h] = step /\ local'[h] = read
      /\ \A g \in Handlers \ {h} : pc'[g] = pc[g] /\ local'[g] = local[g]
  BY RosterMoved
<1>2. /\ RosterHeldTyped(h)' /\ (~torn => RosterHeldSound(h)')
      /\ RosterAtMostOne /\ RosterInHand(h) => RosterInHand(h)'
  BY <1>1 DEF RosterHeldTyped, RosterReadTyped, RosterHeldSound, RosterReadSound, RosterInHand,
     RosterReadHolds, RosterFilled, RosterSound, ShiftSchedules!Differing
<1> QED
  BY <1>1, <1>2 DEF RosterKept, RosterInv, ShiftSchedules!TypeOK, RosterAtMostOne, RosterSound

\* Handlers of the roster.
LEMMA RosterRosterKeeps ==
  ASSUME RosterInv, NEW h \in Handlers,
         \/ \E t \in Titles : ShiftSchedules!Update(h, t)
         \/ ShiftSchedules!Publish(h) \/ ShiftSchedules!PublishCount(h)
         \/ ShiftSchedules!Unpublish(h) \/ ShiftSchedules!SaveSelect(h) \/ ShiftSchedules!Save(h)
         \/ ShiftSchedules!Remove(h) \/ ShiftSchedules!SoftDelete(h)
  PROVE  RosterKept(h)
<1>0. /\ roster \in ShiftSchedules!Rows /\ duties \in [Duties -> 0 .. 2] /\ exchanged \subseteq Duties
      /\ local[h] \in ShiftSchedules!Locals /\ local \in [Handlers -> ShiftSchedules!Locals]
      /\ pc \in [Handlers -> ShiftSchedules!Steps]
      /\ RosterHeldTyped(h) /\ (~torn => RosterSound(roster) /\ RosterHeldSound(h))
  BY DEF RosterInv, ShiftSchedules!TypeOK
<1>1. ASSUME NEW step \in {"saving", "counting"}, NEW row \in ShiftSchedules!Rows,
             NEW cols \in SUBSET ShiftSchedules!Columns, ~torn => RosterSound(row),
             ShiftSchedules!Load(h, step, row, cols),
             step = "counting" => row.title = roster.title,
             step = "saving" => row.title = roster.title \/ roster.status = "draft",
             step = "saving" => row.status = roster.status \/ row.status = "draft"
      PROVE  RosterKept(h)
  <2> DEFINE read == [ShiftSchedules!NoLocal EXCEPT !.row = row, !.cols = cols]
  <2>1. read \in ShiftSchedules!Locals /\ read.row = row
    BY DEF ShiftSchedules!NoLocal, ShiftSchedules!Locals, ShiftSchedules!OrNone
  <2>2. /\ ~roster.deleted /\ ShiftSchedules!Goto(h, step) /\ local' = [local EXCEPT ![h] = read]
        /\ UNCHANGED <<roster, duties, exchanged>>
    BY <1>1 DEF ShiftSchedules!Load, ShiftSchedules!Begin, ShiftSchedules!Hold
  <2> HIDE DEF read
  <2> QED
    BY <1>0, <1>1, <2>1, <2>2, RosterReadsKeep DEF ShiftSchedules!Steps, ShiftSchedules!Rows,
       RosterReadTyped, RosterReadSound, RosterReadHolds
<1>2. ASSUME NEW t \in Titles, ShiftSchedules!Update(h, t)
      PROVE  RosterKept(h)
  <2> DEFINE row == [roster EXCEPT !.title = t]
  <2>1. row \in ShiftSchedules!Rows /\ (~torn => RosterSound(row)) /\ row.status = roster.status
    BY <1>0 DEF ShiftSchedules!Rows, RosterSound
  <2>2. ShiftSchedules!Load(h, "saving", row, {}) /\ roster.status = "draft"
    BY <1>2 DEF ShiftSchedules!Update
  <2> HIDE DEF row
  <2> QED
    BY <1>1, <2>1, <2>2
<1>3. CASE ShiftSchedules!Unpublish(h)
  <2> DEFINE row == [roster EXCEPT !.status = "draft", !.publishedAt = FALSE]
  <2>1. /\ row \in ShiftSchedules!Rows /\ RosterSound(row) /\ row.status = "draft"
        /\ row.title = roster.title
    BY <1>0 DEF ShiftSchedules!Rows, RosterSound
  <2>2. ShiftSchedules!Load(h, "saving", row, {})
    BY <1>3 DEF ShiftSchedules!Unpublish
  <2> HIDE DEF row
  <2> QED
    BY <1>1, <2>1, <2>2
<1>4. CASE ShiftSchedules!Publish(h)
  <2> DEFINE row == [roster EXCEPT !.status = "published", !.publishedAt = TRUE]
  <2>1. row \in ShiftSchedules!Rows /\ RosterSound(row) /\ row.title = roster.title
    BY <1>0 DEF ShiftSchedules!Rows, RosterSound
  <2>2. /\ ShiftSchedules!Load(h, "counting", row, {"publishedAt"})
        /\ {"publishedAt"} \in SUBSET ShiftSchedules!Columns
    BY <1>4 DEF ShiftSchedules!Publish, ShiftSchedules!Columns
  <2> HIDE DEF row
  <2> QED
    BY <1>1, <2>1, <2>2
<1>5. CASE ShiftSchedules!PublishCount(h)
  <2>1. /\ pc[h] = "counting" /\ UNCHANGED <<roster, duties, exchanged>>
        /\ IF RosterFilled THEN ShiftSchedules!Goto(h, "saving") /\ local' = local ELSE ShiftSchedules!Return(h)
    BY <1>5 DEF ShiftSchedules!PublishCount, RosterFilled
  <2>2. CASE RosterFilled
    <3>1. ShiftSchedules!Goto(h, "saving") /\ local' = [local EXCEPT ![h] = local[h]]
      BY <1>0, <2>1, <2>2
    <3> QED
      BY <1>0, <2>1, <2>2, <3>1, RosterReadsKeep DEF ShiftSchedules!Steps, RosterHeldSound,
         RosterReadSound, RosterHeldTyped, RosterReadTyped, RosterInHand, RosterReadHolds
  <2>3. CASE ~RosterFilled
    <3>1. ShiftSchedules!Goto(h, "idle") /\ local' = [local EXCEPT ![h] = ShiftSchedules!NoLocal]
      BY <2>1, <2>3 DEF ShiftSchedules!Return, ShiftSchedules!Hold
    <3> QED
      BY <2>1, <3>1, RosterReadsKeep, RosterEmpty DEF ShiftSchedules!Steps, RosterReadSound,
         RosterReadTyped, RosterReadHolds
  <2> QED
    BY <2>2, <2>3
<1>6. CASE ShiftSchedules!Save(h)
  <2>1. /\ pc[h] = "updating" /\ ShiftSchedules!Return(h) /\ duties' = duties
        /\ exchanged' = exchanged
        /\ roster' = ShiftSchedules!Merged(roster, local[h].row, local[h].cols)
    BY <1>6 DEF ShiftSchedules!Save
  <2>2. local[h].row \in ShiftSchedules!Rows
    BY <1>0, <2>1 DEF RosterHeldTyped, RosterReadTyped
  <2>3. roster' \in ShiftSchedules!Rows /\ (~torn => roster' = local[h].row)
    BY <1>0, <2>1, <2>2, RosterMerge DEF RosterHeldSound, RosterReadSound
  <2>4. ~torn => RosterSound(roster)'
    BY <1>0, <2>1, <2>3 DEF RosterHeldSound, RosterReadSound, RosterSound
  <2>5. ~torn /\ RosterInHand(h) =>
          /\ roster'.status = "published" /\ roster.status = "draft" => RosterFilled
          /\ roster'.title # roster.title => roster.status = "draft"
          /\ ~roster.deleted
    BY <2>1, <2>3 DEF RosterInHand, RosterReadHolds
  <2> QED
    BY <1>0, <2>1, <2>3, <2>4, <2>5, RosterReturned DEF RosterKept, RosterAtMostOne
<1>9. CASE ShiftSchedules!SaveSelect(h)
  <2> DEFINE cols == local[h].cols \cup ShiftSchedules!Differing(roster, local[h].row)
             read == [local[h] EXCEPT !.cols = cols]
  <2>1. /\ pc[h] = "saving" /\ ShiftSchedules!Goto(h, "updating")
        /\ local' = [local EXCEPT ![h] = read] /\ UNCHANGED <<roster, duties, exchanged>>
    BY <1>9 DEF ShiftSchedules!SaveSelect, ShiftSchedules!Compare, ShiftSchedules!Hold
  <2>2. local[h].row \in ShiftSchedules!Rows /\ local[h].cols \in SUBSET ShiftSchedules!Columns
    BY <1>0, <2>1 DEF RosterHeldTyped, RosterReadTyped, ShiftSchedules!Locals
  <2>3. cols \in SUBSET ShiftSchedules!Columns
    BY <1>0, <2>2, RosterMerge
  <2>4. ShiftSchedules!Differing(roster, local[h].row) \subseteq cols
    OBVIOUS
  <2> HIDE DEF cols
  <2>5. read \in ShiftSchedules!Locals /\ read.row = local[h].row /\ read.cols = cols
    BY <1>0, <2>3 DEF ShiftSchedules!Locals
  <2> HIDE DEF read
  <2> QED
    BY <1>0, <2>1, <2>2, <2>4, <2>5, RosterReadsKeep DEF ShiftSchedules!Steps, RosterHeldSound,
       RosterReadSound, RosterReadTyped, RosterInHand, RosterReadHolds
<1>7. CASE ShiftSchedules!Remove(h)
  <2>1. /\ ~roster.deleted /\ ShiftSchedules!Goto(h, "removing")
        /\ local' = [local EXCEPT ![h] = ShiftSchedules!NoLocal]
        /\ UNCHANGED <<roster, duties, exchanged>>
    BY <1>7 DEF ShiftSchedules!Remove, ShiftSchedules!Begin, ShiftSchedules!Hold
  <2> QED
    BY <2>1, RosterReadsKeep, RosterEmpty DEF ShiftSchedules!Steps, RosterReadSound,
       RosterReadTyped, RosterReadHolds
<1>8. CASE ShiftSchedules!SoftDelete(h)
  <2>1. /\ pc[h] = "removing" /\ roster' = [roster EXCEPT !.deleted = TRUE]
        /\ ShiftSchedules!Return(h) /\ duties' = duties /\ exchanged' = exchanged
    BY <1>8 DEF ShiftSchedules!SoftDelete
  <2>2. roster' \in ShiftSchedules!Rows /\ roster'.status = roster.status /\ roster'.publishedAt = roster.publishedAt
        /\ roster'.title = roster.title
    BY <1>0, <2>1 DEF ShiftSchedules!Rows
  <2> QED
    BY <1>0, <2>1, <2>2, RosterReturned DEF RosterKept, RosterSound, RosterInHand, RosterReadHolds,
       RosterAtMostOne
<1> QED
  BY <1>2, <1>3, <1>4, <1>5, <1>6, <1>7, <1>8, <1>9

\* Handlers of the duties.
LEMMA RosterDutiesKeep ==
  ASSUME RosterInv, NEW h \in Handlers,
         \/ \E batch \in SUBSET Duties : ShiftSchedules!Upsert(h, batch)
         \/ ShiftSchedules!UpsertFind(h) \/ ShiftSchedules!UpsertSave(h)
         \/ ShiftSchedules!ConfirmSave(h)
         \/ \E d \in Duties : ShiftSchedules!ConfirmDuty(h, d) \/ ShiftSchedules!DeleteDuty(h, d)
         \/ \E d, e \in Duties : ShiftSchedules!Exchange(h, d, e)
  PROVE  RosterKept(h)
<1>0. /\ roster \in ShiftSchedules!Rows /\ duties \in [Duties -> 0 .. 2] /\ exchanged \subseteq Duties
      /\ local[h] \in ShiftSchedules!Locals /\ local \in [Handlers -> ShiftSchedules!Locals]
      /\ pc \in [Handlers -> ShiftSchedules!Steps]
      /\ RosterHeldTyped(h) /\ (~torn => RosterSound(roster) /\ RosterHeldSound(h))
  BY DEF RosterInv, ShiftSchedules!TypeOK
<1>1. ASSUME NEW batch \in SUBSET Duties, ShiftSchedules!Upsert(h, batch)
      PROVE  RosterKept(h)
  <2> DEFINE read == [ShiftSchedules!NoLocal EXCEPT !.todo = batch]
  <2>1. read \in ShiftSchedules!Locals
    BY DEF ShiftSchedules!NoLocal, ShiftSchedules!Locals, ShiftSchedules!OrNone
  <2>2. /\ ShiftSchedules!Goto(h, "finding") /\ local' = [local EXCEPT ![h] = read]
        /\ UNCHANGED <<roster, duties, exchanged>>
    BY <1>1 DEF ShiftSchedules!Upsert, ShiftSchedules!Begin, ShiftSchedules!Hold
  <2> HIDE DEF read
  <2> QED
    BY <2>1, <2>2, RosterReadsKeep DEF ShiftSchedules!Steps, RosterReadSound, RosterReadTyped,
       RosterReadHolds
<1>2. CASE ShiftSchedules!UpsertFind(h)
  <2>1. CASE ShiftSchedules!Return(h)
    <3>1. /\ ShiftSchedules!Goto(h, "idle")
          /\ local' = [local EXCEPT ![h] = ShiftSchedules!NoLocal]
          /\ UNCHANGED <<roster, duties, exchanged>>
      BY <1>2, <2>1 DEF ShiftSchedules!Return, ShiftSchedules!Hold, ShiftSchedules!UpsertFind
    <3> QED
      BY <3>1, RosterReadsKeep, RosterEmpty DEF ShiftSchedules!Steps, RosterReadSound,
         RosterReadTyped, RosterReadHolds
  <2>2. ASSUME NEW d \in local[h].todo,
               ShiftSchedules!Goto(h, IF duties[d] > 0 THEN "replacing" ELSE "inserting"),
               ShiftSchedules!Hold(h, [local[h] EXCEPT !.todo = @ \ {d}, !.one = d])
        PROVE  RosterKept(h)
    <3> DEFINE read == [local[h] EXCEPT !.todo = @ \ {d}, !.one = d]
               step == IF duties[d] > 0 THEN "replacing" ELSE "inserting"
    <3>1. d \in Duties
      BY <1>0 DEF ShiftSchedules!Locals
    <3>2. read \in ShiftSchedules!Locals /\ read.one = d
      BY <1>0, <3>1 DEF ShiftSchedules!Locals, ShiftSchedules!OrNone
    <3>3. /\ ShiftSchedules!Goto(h, step) /\ local' = [local EXCEPT ![h] = read]
          /\ UNCHANGED <<roster, duties, exchanged>>
      BY <1>2, <2>2 DEF ShiftSchedules!Hold, ShiftSchedules!UpsertFind
    <3>4. step \in {"replacing", "inserting"} /\ (step = "inserting" => duties[d] = 0)
      BY <1>0, <3>1
    <3> HIDE DEF read, step
    <3> QED
      BY <3>1, <3>2, <3>3, <3>4, RosterReadsKeep DEF ShiftSchedules!Steps, RosterReadSound,
         RosterReadTyped, RosterReadHolds
  <2> QED
    BY <1>2, <2>1, <2>2 DEF ShiftSchedules!UpsertFind
<1>3. \A step, n \in 0 .. 2 : ShiftSchedules!Stored(step, n) \in 0 .. 2
  BY DEF ShiftSchedules!Stored
<1>4. CASE ShiftSchedules!UpsertSave(h)
  <2>1. /\ pc[h] \in {"replacing", "inserting"} /\ roster' = roster /\ exchanged' = exchanged
        /\ duties' = [duties EXCEPT ![local[h].one] = ShiftSchedules!Stored(pc[h], duties[local[h].one])]
        /\ IF local[h].todo = {} THEN ShiftSchedules!Return(h)
           ELSE ShiftSchedules!Goto(h, "finding") /\ local' = [local EXCEPT ![h] = [local[h] EXCEPT !.one = None]]
    BY <1>4 DEF ShiftSchedules!UpsertSave, ShiftSchedules!Hold
  <2>2. duties' \in [Duties -> 0 .. 2]
    <3>1. ASSUME NEW d \in Duties
          PROVE  ShiftSchedules!Stored(pc[h], duties[d]) \in 0 .. 2
      BY <1>0 DEF ShiftSchedules!Stored
    <3> QED
      BY <1>0, <2>1, <3>1
  <2>3. [local[h] EXCEPT !.one = None] \in ShiftSchedules!Locals
    BY <1>0 DEF ShiftSchedules!Locals, ShiftSchedules!OrNone
  <2>4. /\ pc' \in [Handlers -> ShiftSchedules!Steps]
        /\ local' \in [Handlers -> ShiftSchedules!Locals]
        /\ RosterHeldTyped(h)' /\ RosterHeldSound(h)' /\ RosterInHand(h)'
        /\ \A g \in Handlers \ {h} : pc'[g] = pc[g] /\ local'[g] = local[g]
    <3>1. CASE local[h].todo = {}
      BY <2>1, <3>1, RosterReturned
    <3>2. CASE local[h].todo # {}
      <4>1. /\ pc' \in [Handlers -> ShiftSchedules!Steps]
            /\ local' \in [Handlers -> ShiftSchedules!Locals] /\ pc'[h] = "finding"
            /\ \A g \in Handlers \ {h} : pc'[g] = pc[g] /\ local'[g] = local[g]
        BY <2>1, <2>3, <3>2, RosterMoved DEF ShiftSchedules!Steps
      <4> QED
        BY <4>1 DEF RosterHeldTyped, RosterReadTyped, RosterHeldSound, RosterReadSound,
           RosterInHand, RosterReadHolds
    <3> QED
      BY <3>1, <3>2
  <2>5. RosterAtMostOne /\ RosterInHand(h) => RosterAtMostOne'
    BY <1>0, <2>1 DEF RosterAtMostOne, RosterInHand, RosterReadHolds, ShiftSchedules!Stored
  <2> QED
    BY <1>0, <2>1, <2>2, <2>4, <2>5 DEF RosterKept, RosterSound, ShiftSchedules!Rows
<1>5. CASE ShiftSchedules!ConfirmSave(h)
  <2>1. /\ roster' = roster /\ exchanged' = exchanged /\ ShiftSchedules!Return(h)
        /\ duties' = [duties EXCEPT ![local[h].one] = ShiftSchedules!Stored("replacing", duties[local[h].one])]
    BY <1>5 DEF ShiftSchedules!ConfirmSave
  <2>2. duties' \in [Duties -> 0 .. 2] /\ (RosterAtMostOne => RosterAtMostOne')
    <3>1. \A d \in Duties :
            duties'[d] \in {duties[d], ShiftSchedules!Stored("replacing", duties[d])}
      BY <1>0, <2>1
    <3>2. \A d \in Duties : ShiftSchedules!Stored("replacing", duties[d]) \in 0 .. 2
                           /\ (duties[d] <= 1 => ShiftSchedules!Stored("replacing", duties[d]) <= 1)
      BY <1>0 DEF ShiftSchedules!Stored
    <3> QED
      BY <1>0, <2>1, <3>1, <3>2 DEF RosterAtMostOne
  <2> QED
    BY <1>0, <2>1, <2>2, RosterReturned DEF RosterKept, RosterSound, ShiftSchedules!Rows
<1>6. ASSUME NEW d \in Duties, ShiftSchedules!ConfirmDuty(h, d)
      PROVE  RosterKept(h)
  <2> DEFINE read == [ShiftSchedules!NoLocal EXCEPT !.one = d]
  <2>1. read \in ShiftSchedules!Locals
    BY DEF ShiftSchedules!NoLocal, ShiftSchedules!Locals, ShiftSchedules!OrNone
  <2>2. /\ ShiftSchedules!Goto(h, "confirming") /\ local' = [local EXCEPT ![h] = read]
        /\ UNCHANGED <<roster, duties, exchanged>>
    BY <1>6 DEF ShiftSchedules!ConfirmDuty, ShiftSchedules!Hold
  <2> HIDE DEF read
  <2> QED
    BY <2>1, <2>2, RosterReadsKeep DEF ShiftSchedules!Steps, RosterReadSound, RosterReadTyped,
       RosterReadHolds
<1>7. ASSUME NEW d \in Duties, ShiftSchedules!DeleteDuty(h, d)
      PROVE  RosterKept(h)
  <2>1. /\ pc[h] = "idle" /\ duties' = [duties EXCEPT ![d] = 0] /\ roster' = roster
        /\ exchanged' = exchanged \ {d} /\ pc' = pc /\ local' = local
    BY <1>7 DEF ShiftSchedules!DeleteDuty
  <2>2. duties' \in [Duties -> 0 .. 2] /\ (RosterAtMostOne => RosterAtMostOne')
    BY <1>0, <2>1 DEF RosterAtMostOne
  <2> QED
    BY <1>0, <2>1, <2>2 DEF RosterKept, RosterSound, ShiftSchedules!Rows, RosterHeldSound,
       RosterReadSound, RosterHeldTyped, RosterReadTyped, RosterInHand, RosterReadHolds
<1>8. ASSUME NEW d \in Duties, NEW e \in Duties, ShiftSchedules!Exchange(h, d, e)
      PROVE  RosterKept(h)
  <2>1. PICK left \in IF duties[d] = 1 THEN {0} ELSE {1, 2} :
          duties' = [duties EXCEPT ![d] = left, ![e] = IF @ = 0 THEN 1 ELSE 2]
    BY <1>8 DEF ShiftSchedules!Exchange
  <2>2. /\ pc[h] = "idle" /\ roster' = roster /\ pc' = pc /\ local' = local
        /\ exchanged' = exchanged \cup {e} /\ duties[d] > 0 /\ d # e
    BY <1>8 DEF ShiftSchedules!Exchange
  <2>3. /\ duties' \in [Duties -> 0 .. 2] /\ duties'[d] = left
        /\ \A x \in Duties \ {d, e} : duties'[x] = duties[x]
    BY <1>0, <2>1, <2>2
  <2>4. RosterAtMostOne => RosterAtMostOne'
    BY <1>0, <2>1, <2>2, <2>3 DEF RosterAtMostOne
  <2> QED
    BY <1>0, <2>2, <2>3, <2>4 DEF RosterKept, RosterSound, ShiftSchedules!Rows, RosterHeldSound,
       RosterReadSound, RosterHeldTyped, RosterReadTyped, RosterInHand, RosterReadHolds
<1> QED
  BY <1>1, <1>2, <1>4, <1>5, <1>6, <1>7, <1>8

\* Every step keeps the invariant, and does what is said of every step.
LEMMA RosterStepHolds ==
  RosterInv /\ RosterSoloInv /\ [ShiftSchedules!Next]_(ShiftSchedules!vars) =>
    RosterInv' /\ RosterSoloInv' /\ ShiftSchedules!RosterKept
<1> SUFFICES ASSUME RosterInv, RosterSoloInv, [ShiftSchedules!Next]_(ShiftSchedules!vars)
             PROVE  RosterInv' /\ RosterSoloInv' /\ ShiftSchedules!RosterKept
  OBVIOUS
<1>1. CASE UNCHANGED ShiftSchedules!vars
  BY <1>1 DEF ShiftSchedules!vars, ShiftSchedules!TypeOK, RosterInv, RosterSoloInv, Alone,
     RosterSound, RosterHeldSound, RosterReadSound, RosterHeldTyped, RosterReadTyped, RosterInHand,
     RosterReadHolds, ShiftSchedules!InFlight, ShiftSchedules!Differing,
     ShiftSchedules!RosterKept, RosterAtMostOne, RosterFilled
<1>2. ASSUME NEW h \in Handlers, ShiftSchedules!HandlerStep(h), ShiftSchedules!Overlap(h),
             ShiftSchedules!Tear(h)
      PROVE  RosterInv' /\ RosterSoloInv' /\ ShiftSchedules!RosterKept
  <2>1. RosterKept(h)
    BY <1>2, RosterRosterKeeps, RosterDutiesKeep DEF ShiftSchedules!HandlerStep
  <2>4. overlapped' \in BOOLEAN /\ torn' \in BOOLEAN
    BY <1>2 DEF RosterInv, ShiftSchedules!TypeOK, ShiftSchedules!Overlap, ShiftSchedules!Tear
  <2>5. \A g \in Handlers : RosterHeldTyped(g)'
    BY <2>1 DEF RosterKept, RosterInv, RosterHeldTyped
  <2>6. ASSUME ~torn', NEW g \in Handlers \ {h}
        PROVE  RosterHeldSound(g)'
    <3>1. ~torn /\ (pc[g] = "updating" => roster' = roster)
      BY <1>2, <2>6 DEF ShiftSchedules!Tear
    <3>2. RosterHeldSound(g) /\ pc'[g] = pc[g] /\ local'[g] = local[g]
      BY <2>1, <3>1 DEF RosterInv, RosterKept
    <3> QED
      BY <3>1, <3>2 DEF RosterHeldSound, RosterReadSound, RosterSound, ShiftSchedules!Differing
  <2>7. ShiftSchedules!TypeOK'
    BY <2>1, <2>4 DEF RosterKept, ShiftSchedules!TypeOK
  <2>2. RosterInv'
    BY <1>2, <2>1, <2>5, <2>6, <2>7 DEF RosterKept, RosterInv, ShiftSchedules!Tear
  <2>3. ASSUME ~overlapped'
        PROVE  /\ Alone' /\ ~torn' /\ RosterAtMostOne' /\ (\A g \in Handlers : RosterInHand(g)')
               /\ ShiftSchedules!RosterKept
    <3>1. ~overlapped /\ \A g \in Handlers \ {h} : pc[g] = "idle" /\ pc'[g] = "idle"
      BY <1>2, <2>1, <2>3 DEF ShiftSchedules!Overlap, ShiftSchedules!InFlight, RosterKept
    <3>2. \A g \in Handlers \ {h} : RosterInHand(g)'
      BY <3>1 DEF RosterInHand, RosterReadHolds
    <3>3. Alone'
      BY <3>1 DEF Alone, ShiftSchedules!InFlight
    <3>4. ~torn /\ ~torn'
      BY <1>2, <3>1 DEF RosterSoloInv, ShiftSchedules!Tear
    <3> QED
      BY <2>1, <3>1, <3>2, <3>3, <3>4 DEF RosterKept, RosterSoloInv, ShiftSchedules!RosterKept,
         RosterFilled
  <2> QED
    BY <2>2, <2>3 DEF RosterSoloInv, Alone, ShiftSchedules!RosterKept
<1> QED
  BY <1>1, <1>2 DEF ShiftSchedules!Next

\* The invariant is enough.
LEMMA RosterPromised == RosterInv /\ RosterSoloInv =>
                          /\ ShiftSchedules!TypeOK /\ ShiftSchedules!OneDuty
                          /\ ShiftSchedules!PublishedIsDated
  BY DEF RosterInv, RosterSound, RosterSoloInv, RosterAtMostOne, ShiftSchedules!OneDuty,
     ShiftSchedules!PublishedIsDated
-----------------------------------------------------------------------------
(***************************************************************************)
(* handovers. Signatures go with the status in every row in hand, so that  *)
(* any of them may be saved, as long as no save is torn.                   *)
(***************************************************************************)
\* The signatures go with the status, in the table and in every row in hand.
HandoverSound(row) ==
  /\ row.status = "completed" <=> row.toSigned
  /\ row.status \in {"completed", "disputed", "from_signed"} <=> row.fromSigned

\* The row in hand is sound; when its columns were compared with those of the table,
\* they still differ in no other.
HandoverHeld(h) ==
  /\ HandoverSound(local[h].row)
  /\ pc[h] = "updating" => Handovers!Differing(handover, local[h].row) \subseteq local[h].cols

\* As long as handlers do not overlap, what is saved was read before it was
\* over.
HandoverInHand(h) ==
  pc[h] \in {"saving", "updating"} => handover.status \in {"pending", "from_signed"}

\* What holds however handlers interleave.
HandoverInv == /\ Handovers!TypeOK
               /\ ~torn => HandoverSound(handover) /\ \A h \in Handlers : HandoverHeld(h)
\* What holds as long as they do not overlap.
HandoverSoloInv == Alone /\ (~overlapped => \A h \in Handlers : HandoverInHand(h))

HandoverSteps == {"idle", "saving", "updating"}
HandoverLocals == [row : Handovers!Rows, cols : SUBSET DOMAIN Handovers!NoRow]

\* What is held at rest, and in a row that is not there, is typed.
LEMMA HandoverEmpty ==
  /\ Handovers!NoRow \in Handovers!Rows /\ HandoverSound(Handovers!NoRow)
  /\ Handovers!Nothing \in HandoverLocals /\ Handovers!Nothing.row = Handovers!NoRow
  BY DEF Handovers!NoRow, Handovers!Rows, Handovers!Statuses, HandoverSound, HandoverLocals,
     Handovers!Nothing, Handovers!Entity

\* What an UPDATE makes of a row.
LEMMA HandoverMerge ==
  ASSUME NEW row \in Handovers!Rows, NEW entity \in Handovers!Rows, NEW cols
  PROVE  /\ Handovers!Merged(row, entity, cols) \in Handovers!Rows
         /\ Handovers!Differing(row, entity) \in SUBSET DOMAIN Handovers!NoRow
         /\ Handovers!Differing(row, entity) \subseteq cols =>
              Handovers!Merged(row, entity, cols) = entity
  BY DEF Handovers!Rows, Handovers!NoRow, Handovers!Merged, Handovers!Differing

\* The initial states have the invariant.
LEMMA HandoverInitHolds == Handovers!Init => HandoverInv /\ HandoverSoloInv
<1> SUFFICES ASSUME Handovers!Init PROVE HandoverInv /\ HandoverSoloInv
  OBVIOUS
<1>1. /\ overlapped = FALSE /\ torn = FALSE
      /\ \A h \in Handlers : pc[h] = "idle" /\ local[h] = Handovers!Nothing
  BY DEF Handovers!Init, Handovers!AllIdle
<1>2. overlapped \in BOOLEAN /\ torn \in BOOLEAN
  BY <1>1, Zenon
<1>3. Handovers!TypeOK
  BY <1>2, HandoverEmpty DEF Handovers!Init, Handovers!AllIdle, Handovers!TypeOK, HandoverLocals
<1> QED
  BY <1>1, <1>3, HandoverEmpty DEF Handovers!Init, HandoverInv, HandoverSoloInv, Alone,
     Handovers!InFlight, HandoverInHand, HandoverHeld

\* A signature or an objection that will be saved.
LEMMA HandoverLoadKeeps ==
  ASSUME HandoverInv, NEW h \in Handlers,
         Handovers!SignFrom(h) \/ Handovers!SignTo(h) \/ Handovers!Dispute(h)
  PROVE  \E row \in Handovers!Rows, cols \in SUBSET DOMAIN Handovers!NoRow :
           /\ ~torn => HandoverSound(row)
           /\ handover.status \in {"pending", "from_signed"}
           /\ Handovers!Load(h, row, cols)
<1>0. handover \in Handovers!Rows /\ (~torn => HandoverSound(handover))
  BY DEF HandoverInv, Handovers!TypeOK
<1>c. /\ {} \in SUBSET DOMAIN Handovers!NoRow /\ {"fromSigned"} \in SUBSET DOMAIN Handovers!NoRow
      /\ {"toSigned"} \in SUBSET DOMAIN Handovers!NoRow
  BY DEF Handovers!NoRow
<1>1. CASE Handovers!SignFrom(h)
  <2> DEFINE row == [handover EXCEPT !.status = "from_signed", !.fromSigned = TRUE]
  <2>1. handover.status = "pending" /\ Handovers!Load(h, row, {"fromSigned"})
    BY <1>1 DEF Handovers!SignFrom
  <2>2. row \in Handovers!Rows /\ (~torn => HandoverSound(row))
    BY <1>0, <2>1 DEF Handovers!Rows, Handovers!Statuses, HandoverSound
  <2> HIDE DEF row
  <2> QED
    BY <1>c, <2>1, <2>2
<1>2. CASE Handovers!SignTo(h)
  <2> DEFINE row == [handover EXCEPT !.status = "completed", !.toSigned = TRUE]
  <2>1. handover.status = "from_signed" /\ Handovers!Load(h, row, {"toSigned"})
    BY <1>2 DEF Handovers!SignTo
  <2>2. row \in Handovers!Rows /\ (~torn => HandoverSound(row))
    BY <1>0, <2>1 DEF Handovers!Rows, Handovers!Statuses, HandoverSound
  <2> HIDE DEF row
  <2> QED
    BY <1>c, <2>1, <2>2
<1>3. CASE Handovers!Dispute(h)
  <2> DEFINE row == [handover EXCEPT !.status = "disputed"]
  <2>1. handover.status = "from_signed" /\ Handovers!Load(h, row, {})
    BY <1>3 DEF Handovers!Dispute
  <2>2. row \in Handovers!Rows /\ (~torn => HandoverSound(row))
    BY <1>0, <2>1 DEF Handovers!Rows, Handovers!Statuses, HandoverSound
  <2> HIDE DEF row
  <2> QED
    BY <1>c, <2>1, <2>2
<1> QED
  BY <1>1, <1>2, <1>3

\* A step of any handler: the others keep what they hold, and unless it tears one of
\* their saves, the row of the table is sound when it was.
LEMMA HandoverHandlerKeeps ==
  ASSUME HandoverInv, NEW h \in Handlers, Handovers!HandlerStep(h)
  PROVE  /\ handover' \in Handovers!Rows /\ pc' \in [Handlers -> HandoverSteps]
         /\ local' \in [Handlers -> HandoverLocals]
         /\ ~torn => HandoverSound(handover') /\ HandoverHeld(h)'
         /\ \A g \in Handlers \ {h} : pc'[g] = pc[g] /\ local'[g] = local[g]
         /\ HandoverInHand(h) =>
              /\ HandoverInHand(h)'
              /\ handover.status \in {"completed", "disputed"} => handover' = handover
<1>0. /\ handover \in Handovers!Rows /\ local[h] \in HandoverLocals
      /\ pc \in [Handlers -> HandoverSteps] /\ local \in [Handlers -> HandoverLocals]
      /\ ~torn => HandoverSound(handover) /\ HandoverHeld(h)
  BY DEF HandoverInv, Handovers!TypeOK, HandoverLocals, HandoverSteps
<1>1. CASE Handovers!Create(h)
  <2>1. /\ handover' = [Handovers!NoRow EXCEPT !.status = "pending"] /\ handover.status = "none"
        /\ pc' = pc /\ local' = local /\ pc[h] = "idle"
    BY <1>1 DEF Handovers!Create, Handovers!NoRow
  <2>2. handover' \in Handovers!Rows /\ HandoverSound(handover')
    BY <2>1 DEF Handovers!NoRow, Handovers!Rows, Handovers!Statuses, HandoverSound
  <2> QED
    BY <1>0, <2>1, <2>2 DEF HandoverInHand, HandoverHeld
<1>2. CASE Handovers!SignFrom(h) \/ Handovers!SignTo(h) \/ Handovers!Dispute(h)
  <2>1. PICK row \in Handovers!Rows, cols \in SUBSET DOMAIN Handovers!NoRow :
          /\ ~torn => HandoverSound(row)
          /\ handover.status \in {"pending", "from_signed"}
          /\ Handovers!Load(h, row, cols)
    BY <1>2, HandoverLoadKeeps
  <2>2. /\ pc' = [pc EXCEPT ![h] = "saving"]
        /\ local' = [local EXCEPT ![h] = [row |-> row, cols |-> cols]]
        /\ handover' = handover
    BY <2>1 DEF Handovers!Load, Handovers!Goto, Handovers!Hold, Handovers!Entity
  <2>3. [row |-> row, cols |-> cols] \in HandoverLocals
    BY <2>1 DEF HandoverLocals
  <2>4. /\ pc'[h] = "saving" /\ local'[h].row = row
    BY <1>0, <2>2
  <2>5. /\ pc' \in [Handlers -> HandoverSteps] /\ local' \in [Handlers -> HandoverLocals]
        /\ \A g \in Handlers \ {h} : pc'[g] = pc[g] /\ local'[g] = local[g]
    BY <1>0, <2>2, <2>3 DEF HandoverSteps
  <2> QED
    BY <1>0, <2>1, <2>2, <2>4, <2>5 DEF HandoverInHand, HandoverHeld
<1>3. CASE Handovers!SaveSelect(h)
  <2> DEFINE cols == local[h].cols \cup Handovers!Differing(handover, local[h].row)
  <2>1. /\ pc[h] = "saving" /\ handover' = handover
        /\ pc' = [pc EXCEPT ![h] = "updating"]
        /\ local' = [local EXCEPT ![h] = [local[h] EXCEPT !.cols = cols]]
    BY <1>0, <1>3 DEF Handovers!SaveSelect, Handovers!Compare, Handovers!Goto, Handovers!Hold
  <2>2. [local[h] EXCEPT !.cols = cols] = [row |-> local[h].row, cols |-> cols] /\ local[h].row \in Handovers!Rows
        /\ local[h].cols \in SUBSET DOMAIN Handovers!NoRow
    <3> DEFINE Columns == SUBSET DOMAIN Handovers!NoRow
    <3>1. local[h] \in [row : Handovers!Rows, cols : Columns]
      BY <1>0 DEF HandoverLocals
    <3> HIDE DEF Columns, cols
    <3>2. /\ [local[h] EXCEPT !.cols = cols] = [row |-> local[h].row, cols |-> cols]
          /\ local[h].row \in Handovers!Rows /\ local[h].cols \in Columns
      BY <3>1, ColumnsSet
    <3> QED
      BY <3>2 DEF Columns
  <2>3. cols \in SUBSET DOMAIN Handovers!NoRow
    BY <1>0, <2>2, HandoverMerge
  <2>4. [row |-> local[h].row, cols |-> cols] \in HandoverLocals
    BY <2>2, <2>3 DEF HandoverLocals
  <2>5. /\ pc' \in [Handlers -> HandoverSteps] /\ local' \in [Handlers -> HandoverLocals]
        /\ pc'[h] = "updating" /\ local'[h] = [row |-> local[h].row, cols |-> cols]
        /\ \A g \in Handlers \ {h} : pc'[g] = pc[g] /\ local'[g] = local[g]
    BY <1>0, <2>1, <2>2, <2>4 DEF HandoverSteps
  <2>6. local'[h].row = local[h].row /\ Handovers!Differing(handover, local[h].row) \subseteq local'[h].cols
    BY <2>5
  <2>7. ~torn => HandoverHeld(h)'
    BY <1>0, <2>1, <2>5, <2>6 DEF HandoverHeld, HandoverSound, Handovers!Differing
  <2> QED
    BY <1>0, <2>1, <2>5, <2>7 DEF HandoverInHand
<1>4. CASE Handovers!Save(h)
  <2>1. /\ pc[h] = "updating"
        /\ handover' = Handovers!Merged(handover, local[h].row, local[h].cols)
        /\ pc' = [pc EXCEPT ![h] = "idle"] /\ local' = [local EXCEPT ![h] = Handovers!Nothing]
    BY <1>4 DEF Handovers!Save, Handovers!Goto, Handovers!Hold
  <2>2. /\ pc' \in [Handlers -> HandoverSteps] /\ local' \in [Handlers -> HandoverLocals]
        /\ pc'[h] = "idle" /\ local'[h].row = Handovers!NoRow
        /\ \A g \in Handlers \ {h} : pc'[g] = pc[g] /\ local'[g] = local[g]
    BY <1>0, <2>1, HandoverEmpty DEF HandoverSteps
  <2>3. local[h].row \in Handovers!Rows
    BY <1>0 DEF HandoverLocals
  <2>4. handover' \in Handovers!Rows /\ (~torn => handover' = local[h].row)
    BY <1>0, <2>1, <2>3, HandoverMerge DEF HandoverHeld
  <2> QED
    BY <1>0, <2>1, <2>2, <2>4, HandoverEmpty DEF HandoverInHand, HandoverHeld
<1> QED
  BY <1>1, <1>2, <1>3, <1>4 DEF Handovers!HandlerStep

\* Every step keeps the invariant, and does what is said of every step.
LEMMA HandoverStepHolds == HandoverInv /\ HandoverSoloInv /\ [Handovers!Next]_(Handovers!vars) =>
                             HandoverInv' /\ HandoverSoloInv' /\ Handovers!AnswerKept
<1> SUFFICES ASSUME HandoverInv, HandoverSoloInv, [Handovers!Next]_(Handovers!vars)
             PROVE  HandoverInv' /\ HandoverSoloInv' /\ Handovers!AnswerKept
  OBVIOUS
<1>1. CASE UNCHANGED Handovers!vars
  BY <1>1 DEF Handovers!vars, Handovers!TypeOK, HandoverInv, HandoverSoloInv, Alone, HandoverSound,
     HandoverHeld, Handovers!Differing, HandoverInHand, Handovers!InFlight, Handovers!AnswerKept
<1>2. ASSUME NEW h \in Handlers, Handovers!HandlerStep(h), Handovers!Overlap(h), Handovers!Tear(h)
      PROVE  HandoverInv' /\ HandoverSoloInv' /\ Handovers!AnswerKept
  <2>1. /\ handover' \in Handovers!Rows /\ pc' \in [Handlers -> HandoverSteps]
        /\ local' \in [Handlers -> HandoverLocals]
        /\ ~torn => HandoverSound(handover') /\ HandoverHeld(h)'
        /\ \A g \in Handlers \ {h} : pc'[g] = pc[g] /\ local'[g] = local[g]
        /\ HandoverInHand(h) =>
             /\ HandoverInHand(h)'
             /\ handover.status \in {"completed", "disputed"} => handover' = handover
    BY <1>2, HandoverHandlerKeeps
  <2>2. overlapped' \in BOOLEAN /\ torn' \in BOOLEAN
    BY <1>2 DEF HandoverInv, Handovers!TypeOK, Handovers!Overlap, Handovers!Tear
  <2>3. Handovers!TypeOK'
    BY <2>1, <2>2 DEF Handovers!TypeOK, HandoverSteps, HandoverLocals
  <2>4. ASSUME ~torn', NEW g \in Handlers \ {h}
        PROVE  HandoverHeld(g)'
    <3>1. ~torn /\ (pc[g] = "updating" => handover' = handover)
      BY <1>2, <2>4 DEF Handovers!Tear
    <3>2. HandoverHeld(g)
      BY <3>1 DEF HandoverInv
    <3> QED
      BY <2>1, <3>1, <3>2 DEF HandoverHeld, HandoverSound, Handovers!Differing
  <2>5. HandoverInv'
    BY <1>2, <2>1, <2>3, <2>4 DEF HandoverInv, HandoverSound, Handovers!Tear
  <2>6. ASSUME ~overlapped'
        PROVE  Alone' /\ (\A g \in Handlers : HandoverInHand(g)') /\ Handovers!AnswerKept
    <3>1. ~overlapped /\ \A g \in Handlers \ {h} : pc[g] = "idle" /\ pc'[g] = "idle"
      BY <1>2, <2>1, <2>6 DEF Handovers!Overlap, Handovers!InFlight
    <3>2. \A g \in Handlers \ {h} : HandoverInHand(g)'
      BY <3>1 DEF HandoverInHand
    <3>3. Alone'
      BY <3>1 DEF Alone, Handovers!InFlight
    <3> QED
      BY <2>1, <3>1, <3>2, <3>3 DEF HandoverSoloInv, Handovers!AnswerKept
  <2> QED
    BY <2>5, <2>6 DEF HandoverSoloInv, Alone, Handovers!AnswerKept
<1> QED
  BY <1>1, <1>2 DEF Handovers!Next

\* The invariant is enough.
LEMMA HandoverPromised == HandoverInv => Handovers!TypeOK /\ Handovers!BothSigned
  BY DEF HandoverInv, HandoverSound, Handovers!BothSigned
-----------------------------------------------------------------------------
(***************************************************************************)
(* messages. Whatever row is saved is masked if it is deleted, as long as  *)
(* no save is torn, and its event has been made.                           *)
(***************************************************************************)
\* A deleted message is masked and no other is.
MessageSound(row) == row.deleted <=> row.text = "masked"

\* A row in hand: of a message that is there when it is one that was read, and with
\* its event made.
MessageRowHeld(h) ==
  /\ local[h].id \in MessageIds /\ local[h].row.text # "none"
  /\ local[h].row.linked => events[local[h].id] # "none"

\* What a handler will save, and what is confirmed.
MessageHeld(h) ==
  /\ pc[h] \in {"sending", "saving", "updating"} => MessageRowHeld(h)
  /\ pc[h] \in {"saving", "updating"} => messages[local[h].id].text # "none"
  /\ pc[h] = "confirming" =>
       /\ local[h].id \in MessageIds /\ local[h].reader \in Readers
       /\ messages[local[h].id].text # "none"

\* What is in hand is sound; when its columns were compared with those of the table,
\* they still differ in no other.
MessageHeldSound(h) ==
  /\ MessageSound(local[h].row)
  /\ pc[h] = "updating" =>
       Collaboration!Differing(messages[local[h].id], local[h].row) \subseteq local[h].cols

MessageEvents == {"none", "there", "deleted"}

\* What holds however handlers interleave.
MessageInv ==
  /\ Collaboration!TypeOK
  /\ \A m \in MessageIds : /\ messages[m].linked => events[m] # "none"
                           /\ messages[m] # Collaboration!NoRow => messages[m].text # "none"
  /\ \A r \in reads : messages[r[1]].text # "none"
  /\ \A h \in Handlers : MessageHeld(h)
  /\ ~torn => (\A m \in MessageIds : MessageSound(messages[m])) /\ \A h \in Handlers : MessageHeldSound(h)

\* As long as handlers do not overlap, no deleted message is saved again.
MessageInHand(h) ==
  pc[h] \in {"sending", "saving", "updating"} => ~messages[local[h].id].deleted

\* What holds as long as they do not overlap.
MessageSoloInv == Alone /\ (~overlapped => \A h \in Handlers : MessageInHand(h))

\* What a step of h does: it keeps the invariant, as long as h is alone all of
\* it.
MessageKept(h) ==
  /\ messages' \in [MessageIds -> Collaboration!Rows] /\ reads' \subseteq MessageIds \X Readers
  /\ events' \in [MessageIds -> MessageEvents]
  /\ pc' \in [Handlers -> Collaboration!Steps] /\ local' \in [Handlers -> Collaboration!Locals]
  /\ \A m \in MessageIds :
       /\ messages'[m].linked => events'[m] # "none"
       /\ messages'[m] # Collaboration!NoRow => messages'[m].text # "none"
       /\ messages[m].text # "none" => messages'[m].text # "none"
       /\ events[m] # "none" => events'[m] # "none"
       /\ ~torn => MessageSound(messages'[m])
  /\ \A r \in reads' : messages'[r[1]].text # "none"
  /\ MessageHeld(h)' /\ (~torn => MessageHeldSound(h)')
  /\ \A g \in Handlers \ {h} : pc'[g] = pc[g] /\ local'[g] = local[g]
  /\ MessageInHand(h) =>
       MessageInHand(h)' /\ \A m \in MessageIds : messages[m].deleted => messages'[m] = messages[m]

\* What is held at rest, and in a row that is not there, is typed.
LEMMA MessageEmpty ==
  /\ Collaboration!NoLocal \in Collaboration!Locals /\ Collaboration!NoLocal.row = Collaboration!NoRow
  /\ Collaboration!NoRow \in Collaboration!Rows
  /\ Collaboration!NoRow.text = "none" /\ ~Collaboration!NoRow.deleted /\ ~Collaboration!NoRow.linked
  BY DEF Collaboration!NoLocal, Collaboration!NoRow, Collaboration!Locals, Collaboration!Rows,
     Collaboration!Texts, Collaboration!OrNone

\* What an UPDATE makes of a row: each column is the old one or that in hand.
LEMMA MessageMerge ==
  ASSUME NEW row \in Collaboration!Rows, NEW entity \in Collaboration!Rows, NEW cols
  PROVE  LET new == Collaboration!Merged(row, entity, cols) IN
         /\ new \in Collaboration!Rows
         /\ Collaboration!Differing(row, entity) \in SUBSET DOMAIN Collaboration!NoRow
         /\ new.text \in {row.text, entity.text} /\ new.linked \in {row.linked, entity.linked}
         /\ Collaboration!Differing(row, entity) \subseteq cols => new = entity
  BY DEF Collaboration!Rows, Collaboration!NoRow, Collaboration!Merged, Collaboration!Differing

\* The initial states have the invariant.
LEMMA MessageInitHolds == Collaboration!Init => MessageInv /\ MessageSoloInv
<1> SUFFICES ASSUME Collaboration!Init PROVE MessageInv /\ MessageSoloInv
  OBVIOUS
<1>1. /\ overlapped = FALSE /\ torn = FALSE
      /\ (\A h \in Handlers : pc[h] = "idle" /\ local[h] = Collaboration!NoLocal)
      /\ \A m \in MessageIds : messages[m] = Collaboration!NoRow
  BY DEF Collaboration!Init, Collaboration!AllIdle
<1>2. overlapped \in BOOLEAN /\ torn \in BOOLEAN
  BY <1>1, Zenon
<1>3. Collaboration!TypeOK
  BY <1>2, MessageEmpty DEF Collaboration!Init, Collaboration!AllIdle, Collaboration!TypeOK,
     Collaboration!Steps
<1>4. /\ \A m \in MessageIds : MessageSound(messages[m]) /\ ~messages[m].linked
      /\ \A h \in Handlers : MessageHeldSound(h) /\ MessageHeld(h)
  BY <1>1, MessageEmpty DEF MessageSound, MessageHeldSound, MessageHeld
<1>5. reads = {}
  BY DEF Collaboration!Init
<1> QED
  BY <1>1, <1>3, <1>4, <1>5 DEF MessageInv, MessageSoloInv, Alone, Collaboration!InFlight, MessageInHand

\* A handler that goes on takes what it has read with it; the others stay.
LEMMA MessageMoved ==
  ASSUME MessageInv, NEW h \in Handlers, NEW step \in Collaboration!Steps,
         NEW read \in Collaboration!Locals,
         Collaboration!Goto(h, step), local' = [local EXCEPT ![h] = read]
  PROVE  /\ pc' \in [Handlers -> Collaboration!Steps]
         /\ local' \in [Handlers -> Collaboration!Locals]
         /\ pc'[h] = step /\ local'[h] = read
         /\ \A g \in Handlers \ {h} : pc'[g] = pc[g] /\ local'[g] = local[g]
  BY DEF MessageInv, Collaboration!TypeOK, Collaboration!Goto

\* A handler that returns holds nothing; the others stay.
LEMMA MessageReturned ==
  ASSUME MessageInv, NEW h \in Handlers, Collaboration!Return(h)
  PROVE  /\ pc' \in [Handlers -> Collaboration!Steps]
         /\ local' \in [Handlers -> Collaboration!Locals]
         /\ MessageHeld(h)' /\ MessageHeldSound(h)' /\ MessageInHand(h)'
         /\ \A g \in Handlers \ {h} : pc'[g] = pc[g] /\ local'[g] = local[g]
<1>1. /\ pc' \in [Handlers -> Collaboration!Steps]
      /\ local' \in [Handlers -> Collaboration!Locals] /\ pc'[h] = "idle"
      /\ local'[h].row = Collaboration!NoRow
      /\ \A g \in Handlers \ {h} : pc'[g] = pc[g] /\ local'[g] = local[g]
  BY MessageMoved, MessageEmpty DEF Collaboration!Return, Collaboration!Hold, Collaboration!Steps
<1> QED
  BY <1>1, MessageEmpty DEF MessageHeld, MessageHeldSound, MessageSound, MessageInHand

\* A step of any handler.
LEMMA MessageHandlerKeeps ==
  ASSUME MessageInv, NEW h \in Handlers, Collaboration!HandlerStep(h)
  PROVE  MessageKept(h)
<1>0. /\ messages \in [MessageIds -> Collaboration!Rows] /\ reads \subseteq MessageIds \X Readers
      /\ events \in [MessageIds -> MessageEvents]
      /\ pc \in [Handlers -> Collaboration!Steps] /\ local \in [Handlers -> Collaboration!Locals]
      /\ \A m \in MessageIds : /\ messages[m].linked => events[m] # "none"
                               /\ messages[m] # Collaboration!NoRow => messages[m].text # "none"
                               /\ ~torn => MessageSound(messages[m])
      /\ \A r \in reads : messages[r[1]].text # "none"
      /\ MessageHeld(h) /\ (~torn => MessageHeldSound(h)) /\ local[h] \in Collaboration!Locals
  BY DEF MessageInv, Collaboration!TypeOK, MessageEvents
<1>1. ASSUME NEW m \in MessageIds, Collaboration!Send(h, m)
      PROVE  MessageKept(h)
  <2>1. PICK linked \in BOOLEAN :
          /\ events' = IF linked THEN [events EXCEPT ![m] = "there"] ELSE events
          /\ Collaboration!Hold(h, [Collaboration!NoLocal EXCEPT !.id = m, !.row = [Collaboration!NoRow EXCEPT !.text = "as sent", !.linked = linked]])
    BY <1>1 DEF Collaboration!Send
  <2> DEFINE row == [Collaboration!NoRow EXCEPT !.text = "as sent", !.linked = linked]
             read == [Collaboration!NoLocal EXCEPT !.id = m, !.row = row]
  <2>2. /\ row \in Collaboration!Rows /\ row.text = "as sent" /\ ~row.deleted
        /\ (row.linked <=> linked)
    BY DEF Collaboration!NoRow, Collaboration!Rows, Collaboration!Texts
  <2> HIDE DEF row
  <2>3. read \in Collaboration!Locals /\ read.id = m /\ read.row = row
    BY <2>2 DEF Collaboration!NoLocal, Collaboration!Locals, Collaboration!OrNone
  <2>4. /\ local' = [local EXCEPT ![h] = read] /\ Collaboration!Goto(h, "sending")
        /\ messages' = messages /\ reads' = reads /\ messages[m] = Collaboration!NoRow
    BY <1>1, <2>1 DEF Collaboration!Send, Collaboration!Hold, row
  <2> HIDE DEF read
  <2>5. /\ pc' \in [Handlers -> Collaboration!Steps]
        /\ local' \in [Handlers -> Collaboration!Locals]
        /\ pc'[h] = "sending" /\ local'[h] = read
        /\ \A g \in Handlers \ {h} : pc'[g] = pc[g] /\ local'[g] = local[g]
    BY <2>3, <2>4, MessageMoved DEF Collaboration!Steps
  <2>6. /\ events' \in [MessageIds -> MessageEvents] /\ (linked => events'[m] # "none")
        /\ \A k \in MessageIds : events[k] # "none" => events'[k] # "none"
    BY <1>0, <2>1 DEF MessageEvents
  <2>7. MessageHeld(h)' /\ MessageHeldSound(h)' /\ MessageInHand(h)'
    BY <2>2, <2>3, <2>4, <2>5, <2>6, MessageEmpty
       DEF MessageHeld, MessageRowHeld, MessageHeldSound, MessageInHand, MessageSound
  <2> QED
    BY <1>0, <2>4, <2>5, <2>6, <2>7 DEF MessageKept
<1>2. ASSUME NEW m \in MessageIds, NEW row \in Collaboration!Rows,
             NEW cols \in SUBSET DOMAIN Collaboration!NoRow, Collaboration!Find(h, m, row, cols),
             ~torn => MessageSound(row), row.linked = messages[m].linked, row.text # "none"
      PROVE  MessageKept(h)
  <2> DEFINE read == [Collaboration!NoLocal EXCEPT !.id = m, !.row = row, !.cols = cols]
  <2>0. messages[m].text # "none"
    BY <1>0, <1>2 DEF Collaboration!Find, Collaboration!Shown
  <2>1. read \in Collaboration!Locals /\ read.id = m /\ read.row = row
    BY DEF Collaboration!NoLocal, Collaboration!Locals, Collaboration!OrNone
  <2>2. /\ local' = [local EXCEPT ![h] = read] /\ Collaboration!Goto(h, "saving")
        /\ messages[m] # Collaboration!NoRow /\ ~messages[m].deleted
        /\ messages' = messages /\ reads' = reads /\ events' = events
    BY <1>2 DEF Collaboration!Find, Collaboration!Hold, Collaboration!Unread, Collaboration!Shown
  <2> HIDE DEF read
  <2>3. /\ pc' \in [Handlers -> Collaboration!Steps]
        /\ local' \in [Handlers -> Collaboration!Locals]
        /\ pc'[h] = "saving" /\ local'[h] = read
        /\ \A g \in Handlers \ {h} : pc'[g] = pc[g] /\ local'[g] = local[g]
    BY <2>1, <2>2, MessageMoved DEF Collaboration!Steps
  <2>4. MessageHeld(h)' /\ MessageInHand(h)' /\ (~torn => MessageHeldSound(h)')
    BY <1>0, <1>2, <2>0, <2>1, <2>2, <2>3 DEF MessageHeld, MessageRowHeld, MessageHeldSound, MessageInHand,
       MessageSound
  <2> QED
    BY <1>0, <2>2, <2>3, <2>4 DEF MessageKept
<1>3. ASSUME NEW m \in MessageIds, Collaboration!Edit(h, m)
      PROVE  MessageKept(h)
  <2> DEFINE row == [messages[m] EXCEPT !.text = "edited"]
  <2>1. PICK cols \in SUBSET {"text"} : Collaboration!Find(h, m, row, cols)
    BY <1>3 DEF Collaboration!Edit
  <2>2. /\ row \in Collaboration!Rows /\ row.text = "edited"
        /\ row.deleted = messages[m].deleted /\ row.linked = messages[m].linked
    BY <1>0 DEF Collaboration!Rows, Collaboration!Texts
  <2> HIDE DEF row
  <2>3. cols \in SUBSET DOMAIN Collaboration!NoRow
    BY <2>1 DEF Collaboration!NoRow
  <2>4. ~messages[m].deleted
    BY <2>1 DEF Collaboration!Find, Collaboration!Shown
  <2>5. MessageSound(row)
    BY <2>2, <2>4 DEF MessageSound
  <2> QED
    BY <1>2, <2>1, <2>2, <2>3, <2>5
<1>4. ASSUME NEW m \in MessageIds, Collaboration!Delete(h, m)
      PROVE  MessageKept(h)
  <2> DEFINE row == [messages[m] EXCEPT !.deleted = TRUE, !.text = "masked"]
  <2>1. Collaboration!Find(h, m, row, {"deleted"})
    BY <1>4 DEF Collaboration!Delete
  <2>2. /\ row \in Collaboration!Rows /\ row.text = "masked" /\ row.deleted
        /\ row.linked = messages[m].linked
    BY <1>0 DEF Collaboration!Rows, Collaboration!Texts
  <2> HIDE DEF row
  <2>3. {"deleted"} \in SUBSET DOMAIN Collaboration!NoRow
    BY DEF Collaboration!NoRow
  <2>4. MessageSound(row)
    BY <2>2 DEF MessageSound
  <2> QED
    BY <1>2, <2>1, <2>2, <2>3, <2>4
<1>5. ASSUME NEW m \in MessageIds, NEW u \in Readers, Collaboration!Confirm(h, m, u)
      PROVE  MessageKept(h)
  <2> DEFINE read == [Collaboration!NoLocal EXCEPT !.id = m, !.reader = u]
  <2>1. read \in Collaboration!Locals /\ read.id = m /\ read.reader = u /\ read.row = Collaboration!NoRow
    BY DEF Collaboration!NoLocal, Collaboration!NoRow, Collaboration!Rows, Collaboration!Texts,
       Collaboration!Locals, Collaboration!OrNone
  <2>2. /\ local' = [local EXCEPT ![h] = read] /\ Collaboration!Goto(h, "confirming")
        /\ messages[m].text # "none"
        /\ messages' = messages /\ reads' = reads /\ events' = events
    BY <1>0, <1>5 DEF Collaboration!Confirm, Collaboration!Hold, Collaboration!Unread, Collaboration!Shown
  <2> HIDE DEF read
  <2>3. /\ pc' \in [Handlers -> Collaboration!Steps]
        /\ local' \in [Handlers -> Collaboration!Locals]
        /\ pc'[h] = "confirming" /\ local'[h] = read
        /\ \A g \in Handlers \ {h} : pc'[g] = pc[g] /\ local'[g] = local[g]
    BY <2>1, <2>2, MessageMoved DEF Collaboration!Steps
  <2>4. MessageHeld(h)' /\ MessageHeldSound(h)' /\ MessageInHand(h)'
    BY <2>1, <2>2, <2>3, MessageEmpty DEF MessageHeld, MessageHeldSound, MessageSound, MessageInHand
  <2> QED
    BY <1>0, <2>2, <2>3, <2>4 DEF MessageKept
<1>6. ASSUME NEW row \in Collaboration!Rows, row.text # "none", local[h].id \in MessageIds,
             row.linked => events[local[h].id] # "none", ~torn => MessageSound(row),
             messages' = [messages EXCEPT ![local[h].id] = row], Collaboration!Return(h),
             pc[h] \in {"sending", "updating"}, reads' = reads, events' = events
      PROVE  MessageKept(h)
  <2>1. /\ messages' \in [MessageIds -> Collaboration!Rows]
        /\ \A m \in MessageIds :
             messages'[m] = messages[m] \/ (m = local[h].id /\ messages'[m] = row)
    BY <1>0, <1>6
  <2>2. \A m \in MessageIds :
          /\ messages'[m].linked => events[m] # "none"
          /\ messages'[m] # Collaboration!NoRow => messages'[m].text # "none"
          /\ messages[m].text # "none" => messages'[m].text # "none"
          /\ ~torn => MessageSound(messages'[m])
    BY <1>0, <1>6, <2>1
  <2>3. \A r \in reads : messages'[r[1]].text # "none"
    BY <1>0, <2>2
  <2>4. MessageInHand(h) => \A m \in MessageIds : messages[m].deleted => messages'[m] = messages[m]
    BY <1>6, <2>1 DEF MessageInHand
  <2> QED
    BY <1>0, <1>6, <2>1, <2>2, <2>3, <2>4, MessageReturned DEF MessageKept
<1>7. CASE Collaboration!Insert(h)
  <2>1. /\ pc[h] = "sending" /\ Collaboration!Return(h) /\ reads' = reads /\ events' = events
        /\ messages' = [messages EXCEPT ![local[h].id] = local[h].row]
    BY <1>7 DEF Collaboration!Insert, Collaboration!Unread
  <2>2. local[h].row \in Collaboration!Rows /\ MessageRowHeld(h) /\ (~torn => MessageSound(local[h].row))
    BY <1>0, <2>1 DEF MessageHeld, MessageHeldSound, Collaboration!Locals
  <2> QED
    BY <1>6, <2>1, <2>2 DEF MessageRowHeld
<1>8. CASE Collaboration!SaveSelect(h)
  <2> DEFINE row == messages[local[h].id]
             cols == local[h].cols \cup Collaboration!Differing(row, local[h].row)
             read == [local[h] EXCEPT !.cols = cols]
  <2>1. /\ pc[h] = "saving" /\ Collaboration!Goto(h, "updating")
        /\ local' = [local EXCEPT ![h] = read]
        /\ messages' = messages /\ reads' = reads /\ events' = events
    BY <1>0, <1>8 DEF Collaboration!SaveSelect, Collaboration!Compare, Collaboration!Hold,
       Collaboration!Unread
  <2>2. MessageRowHeld(h) /\ local[h].row \in Collaboration!Rows /\ row \in Collaboration!Rows
        /\ row.text # "none" /\ local[h].cols \in SUBSET DOMAIN Collaboration!NoRow
    BY <1>0, <2>1 DEF MessageHeld, MessageRowHeld, Collaboration!Locals
  <2>3. cols \in SUBSET DOMAIN Collaboration!NoRow
    BY <2>2, MessageMerge
  <2> HIDE DEF cols
  <2>4. read \in Collaboration!Locals /\ read.id = local[h].id /\ read.row = local[h].row
        /\ read.cols = cols
    BY <1>0, <2>3 DEF Collaboration!Locals
  <2> HIDE DEF read
  <2>5. /\ pc' \in [Handlers -> Collaboration!Steps]
        /\ local' \in [Handlers -> Collaboration!Locals]
        /\ pc'[h] = "updating" /\ local'[h] = read
        /\ \A g \in Handlers \ {h} : pc'[g] = pc[g] /\ local'[g] = local[g]
    BY <2>1, <2>4, MessageMoved DEF Collaboration!Steps
  <2>6. Collaboration!Differing(row, read.row) \subseteq read.cols
    BY <2>4 DEF cols
  <2>7. MessageHeld(h)' /\ (MessageInHand(h) => MessageInHand(h)')
    BY <2>1, <2>2, <2>4, <2>5 DEF MessageHeld, MessageRowHeld, MessageInHand
  <2>8. ~torn => MessageHeldSound(h)'
    BY <1>0, <2>1, <2>4, <2>5, <2>6 DEF MessageHeldSound, MessageSound, Collaboration!Differing
  <2> QED
    BY <1>0, <2>1, <2>5, <2>7, <2>8 DEF MessageKept
<1>9. CASE Collaboration!Save(h)
  <2> DEFINE new == Collaboration!Merged(messages[local[h].id], local[h].row, local[h].cols)
  <2>1. /\ pc[h] = "updating" /\ Collaboration!Return(h) /\ reads' = reads /\ events' = events
        /\ messages' = [messages EXCEPT ![local[h].id] = new]
    BY <1>0, <1>9 DEF Collaboration!Save, Collaboration!Unread
  <2>2. /\ MessageRowHeld(h) /\ local[h].row \in Collaboration!Rows
        /\ messages[local[h].id] \in Collaboration!Rows
        /\ messages[local[h].id].text # "none"
        /\ messages[local[h].id].linked => events[local[h].id] # "none"
    BY <1>0, <2>1 DEF MessageHeld, MessageRowHeld, Collaboration!Locals
  <2>3. /\ new \in Collaboration!Rows
        /\ new.text \in {messages[local[h].id].text, local[h].row.text}
        /\ new.linked \in {messages[local[h].id].linked, local[h].row.linked}
        /\ ~torn => new = local[h].row
    BY <1>0, <2>1, <2>2, MessageMerge DEF MessageHeldSound
  <2>4. ~torn => MessageSound(local[h].row)
    BY <1>0 DEF MessageHeldSound
  <2> HIDE DEF new
  <2> QED
    BY <1>6, <2>1, <2>2, <2>3, <2>4 DEF MessageRowHeld
<1>10. CASE Collaboration!ConfirmSave(h)
  <2>1. /\ pc[h] = "confirming" /\ Collaboration!Return(h) /\ messages' = messages
        /\ events' = events
        /\ reads' = reads \cup {<<local[h].id, local[h].reader>>}
    BY <1>10 DEF Collaboration!ConfirmSave
  <2>2. /\ local[h].id \in MessageIds /\ local[h].reader \in Readers
        /\ messages[local[h].id].text # "none"
    BY <1>0, <2>1 DEF MessageHeld
  <2> QED
    BY <1>0, <2>1, <2>2, MessageReturned DEF MessageKept
<1>11. CASE Collaboration!Crash(h)
  BY <1>0, <1>11, MessageReturned DEF MessageKept, Collaboration!Crash, Collaboration!Unread
<1>12. ASSUME NEW m \in MessageIds, Collaboration!DeleteEvent(h, m)
       PROVE  MessageKept(h)
  <2>1. /\ events' = [events EXCEPT ![m] = "deleted"] /\ pc[h] = "idle"
        /\ messages' = messages /\ reads' = reads /\ pc' = pc /\ local' = local
    BY <1>12 DEF Collaboration!DeleteEvent
  <2>2. /\ events' \in [MessageIds -> MessageEvents]
        /\ \A k \in MessageIds : events[k] # "none" => events'[k] # "none"
    BY <1>0, <2>1 DEF MessageEvents
  <2> QED
    BY <1>0, <2>1, <2>2 DEF MessageKept, MessageHeld, MessageHeldSound, MessageInHand
<1> QED
  BY <1>1, <1>3, <1>4, <1>5, <1>7, <1>8, <1>9, <1>10, <1>11, <1>12 DEF Collaboration!HandlerStep

\* Every step keeps the invariant, and does what is said of every step.
LEMMA MessageStepHolds ==
  MessageInv /\ MessageSoloInv /\ [Collaboration!Next]_(Collaboration!vars) =>
    MessageInv' /\ MessageSoloInv' /\ Collaboration!MessageKept
<1> SUFFICES ASSUME MessageInv, MessageSoloInv, [Collaboration!Next]_(Collaboration!vars)
             PROVE  MessageInv' /\ MessageSoloInv' /\ Collaboration!MessageKept
  OBVIOUS
<1>1. CASE UNCHANGED Collaboration!vars
  BY <1>1 DEF Collaboration!vars, Collaboration!TypeOK, MessageInv, MessageSoloInv, Alone,
     MessageSound, MessageHeld, MessageRowHeld, MessageHeldSound, MessageInHand,
     Collaboration!Differing, Collaboration!InFlight, Collaboration!MessageKept
<1>2. ASSUME NEW h \in Handlers, Collaboration!HandlerStep(h), Collaboration!Overlap(h),
             Collaboration!Tear(h)
      PROVE  MessageInv' /\ MessageSoloInv' /\ Collaboration!MessageKept
  <2>1. MessageKept(h)
    BY <1>2, MessageHandlerKeeps
  <2>2. \A g \in Handlers \ {h} : MessageHeld(g)'
    BY <2>1 DEF MessageKept, MessageInv, MessageHeld, MessageRowHeld
  <2>5. overlapped' \in BOOLEAN /\ torn' \in BOOLEAN
    BY <1>2 DEF MessageInv, Collaboration!TypeOK, Collaboration!Overlap, Collaboration!Tear
  <2>6. ASSUME ~torn', NEW g \in Handlers \ {h}
        PROVE  MessageHeldSound(g)'
    <3>1. ~torn /\ (pc[g] = "updating" => messages'[local[g].id] = messages[local[g].id])
      BY <1>2, <2>6 DEF Collaboration!Tear
    <3>2. MessageHeldSound(g) /\ pc'[g] = pc[g] /\ local'[g] = local[g]
      BY <2>1, <3>1 DEF MessageInv, MessageKept
    <3> QED
      BY <3>1, <3>2 DEF MessageHeldSound, MessageSound, Collaboration!Differing
  <2>3. MessageInv'
    BY <1>2, <2>1, <2>2, <2>5, <2>6 DEF MessageKept, MessageInv, Collaboration!TypeOK,
       Collaboration!Tear, MessageEvents, MessageSound
  <2>4. ASSUME ~overlapped'
        PROVE  Alone' /\ (\A g \in Handlers : MessageInHand(g)') /\ Collaboration!MessageKept
    <3>1. ~overlapped /\ \A g \in Handlers \ {h} : pc[g] = "idle" /\ pc'[g] = "idle"
      BY <1>2, <2>1, <2>4 DEF Collaboration!Overlap, Collaboration!InFlight, MessageKept
    <3>2. \A g \in Handlers \ {h} : MessageInHand(g)'
      BY <3>1 DEF MessageInHand
    <3>3. Alone'
      BY <3>1 DEF Alone, Collaboration!InFlight
    <3> QED
      BY <2>1, <3>1, <3>2, <3>3 DEF MessageKept, MessageSoloInv, Collaboration!MessageKept
  <2> QED
    BY <2>3, <2>4 DEF MessageSoloInv, Alone, Collaboration!MessageKept
<1> QED
  BY <1>1, <1>2 DEF Collaboration!Next

\* The invariant is enough.
LEMMA MessagePromised == MessageInv => Collaboration!TypeOK /\ Collaboration!DeletedIsMasked
  BY MessageEmpty DEF MessageInv, MessageSound, Collaboration!DeletedIsMasked
-----------------------------------------------------------------------------
(***************************************************************************)
(* feature modules. As long as calls do not overlap, synchronizing takes   *)
(* away what is not of the plan, then switches its modules on one by one.  *)
(***************************************************************************)
\* What is assumed of the constants.
LEMMA ModuleGiven == FeatureModules!ModulesAssumption
  BY OfficeAssumption

\* Types.
ModuleTyped ==
  /\ modules \in [ModuleIds -> FeatureModules!Rows]
  /\ inStep \in FeatureModules!OrNone(Plans)
  /\ pc \in [Handlers -> FeatureModules!Steps]
  /\ local \in [Handlers -> FeatureModules!Locals]
  /\ overlapped \in BOOLEAN

\* No module is on because of another plan.
ModuleOnly(p) == \A m \in FeatureModules!FromPlan : modules[m].active => m \in ModulesOf[p]
\* Synchronized with a plan, only its modules are on.
ModuleTold == inStep # None => ModuleOnly(inStep)

\* When calls do not overlap, what the one at work has read still holds.
ModuleInHand(h) ==
  /\ pc[h] \in {"deactivating", "enabling"} =>
       /\ inStep = None /\ local[h].plan \in Plans
       /\ local[h].existing \subseteq FeatureModules!FromPlan
  /\ pc[h] = "deactivating" =>
       /\ FeatureModules!FromPlan \subseteq local[h].existing
       /\ local[h].todo = ModulesOf[local[h].plan]
  /\ pc[h] = "enabling" =>
       /\ ModuleOnly(local[h].plan) /\ local[h].todo \subseteq ModulesOf[local[h].plan]
       /\ \A m \in ModulesOf[local[h].plan] \ local[h].todo : modules[m].active
  /\ pc[h] = "writing" => local[h].row.source \in {"addon", "manual"}
  /\ pc[h] \in {"choosing", "presetting"} /\ inStep # None =>
       local[h].todo \subseteq ModulesOf[inStep]
  /\ pc[h] = "presetting" => local[h].one \in local[h].todo

\* What holds as long as they do not overlap.
ModuleSoloInv == Alone /\ (~overlapped => ModuleTold /\ \A h \in Handlers : ModuleInHand(h))

\* What a step of h does: it keeps the invariant, as long as h is alone all of
\* it.
ModuleKept(h) ==
  /\ modules' \in [ModuleIds -> FeatureModules!Rows] /\ inStep' \in FeatureModules!OrNone(Plans)
  /\ pc' \in [Handlers -> FeatureModules!Steps] /\ local' \in [Handlers -> FeatureModules!Locals]
  /\ \A g \in Handlers \ {h} : pc'[g] = pc[g]
  /\ ModuleTold /\ ModuleInHand(h) =>
       /\ ModuleTold' /\ ModuleInHand(h)'
       /\ pc[h] \in {"deactivating", "enabling"} =>
            \A m \in ModuleIds : FeatureModules!Present(m) /\ m \notin FeatureModules!FromPlan =>
              modules'[m] = modules[m]
       /\ inStep = None /\ inStep' # None => \A m \in ModulesOf[inStep'] : modules'[m].active

\* What is held at rest, and in a row that is not there, is typed.
LEMMA ModuleEmpty == /\ FeatureModules!NoLocal \in FeatureModules!Locals
                     /\ FeatureModules!NoRow \in FeatureModules!Rows
  BY DEF FeatureModules!NoLocal, FeatureModules!NoRow, FeatureModules!Locals, FeatureModules!Rows,
     FeatureModules!OrNone

\* The initial states have the invariant.
LEMMA ModuleInitHolds == FeatureModules!Init => ModuleTyped /\ ModuleSoloInv
<1> SUFFICES ASSUME FeatureModules!Init PROVE ModuleTyped /\ ModuleSoloInv
  OBVIOUS
<1>1. overlapped = FALSE /\ (\A h \in Handlers : pc[h] = "idle") /\ inStep = None
  BY DEF FeatureModules!Init, FeatureModules!AllIdle
<1>2. overlapped \in BOOLEAN
  BY <1>1, Zenon
<1>3. ModuleTyped
  BY <1>2, ModuleEmpty DEF FeatureModules!Init, FeatureModules!AllIdle, ModuleTyped,
     FeatureModules!Steps, FeatureModules!OrNone
<1> QED
  BY <1>1, <1>3 DEF ModuleSoloInv, Alone, FeatureModules!InFlight, ModuleInHand, ModuleTold

\* A handler that goes on takes what it has read with it; the others stay.
LEMMA ModuleMoved ==
  ASSUME ModuleTyped, NEW h \in Handlers, NEW step \in FeatureModules!Steps,
         NEW read \in FeatureModules!Locals,
         FeatureModules!Goto(h, step), local' = [local EXCEPT ![h] = read]
  PROVE  /\ pc' \in [Handlers -> FeatureModules!Steps]
         /\ local' \in [Handlers -> FeatureModules!Locals]
         /\ pc'[h] = step /\ local'[h] = read
         /\ \A g \in Handlers \ {h} : pc'[g] = pc[g]
  BY DEF ModuleTyped, FeatureModules!Goto

\* A handler that returns holds nothing; the others stay.
LEMMA ModuleReturned ==
  ASSUME ModuleTyped, NEW h \in Handlers, FeatureModules!Return(h)
  PROVE  /\ pc' \in [Handlers -> FeatureModules!Steps]
         /\ local' \in [Handlers -> FeatureModules!Locals]
         /\ pc'[h] = "idle" /\ ModuleInHand(h)' /\ \A g \in Handlers \ {h} : pc'[g] = pc[g]
<1>1. /\ pc' \in [Handlers -> FeatureModules!Steps]
      /\ local' \in [Handlers -> FeatureModules!Locals] /\ pc'[h] = "idle"
      /\ \A g \in Handlers \ {h} : pc'[g] = pc[g]
  BY ModuleMoved, ModuleEmpty DEF FeatureModules!Return, FeatureModules!Hold, FeatureModules!Steps
<1> QED
  BY <1>1 DEF ModuleInHand

\* Writing one module.
LEMMA ModuleWrote ==
  ASSUME ModuleTyped, NEW m, NEW row \in FeatureModules!Rows, FeatureModules!Write(m, row)
  PROVE  /\ modules' \in [ModuleIds -> FeatureModules!Rows]
         /\ m \in ModuleIds => modules'[m] = row
         /\ \A n \in ModuleIds \ {m} : modules'[n] = modules[n]
  BY DEF ModuleTyped, FeatureModules!Write

\* Handlers that read.
LEMMA ModuleReadsKeep ==
  ASSUME ModuleTyped, NEW h \in Handlers,
         (\E p \in Plans : FeatureModules!Sync(h, p) \/ \E preset \in Presets : FeatureModules!ApplyPreset(h, preset, p))
         \/ \E m \in ModuleIds :
              \/ FeatureModules!ActivateFromAddon(h, m) \/ FeatureModules!Toggle(h, m)
              \/ FeatureModules!Choose(h, m)
  PROVE  ModuleKept(h)
<1>0. /\ modules \in [ModuleIds -> FeatureModules!Rows]
      /\ inStep \in FeatureModules!OrNone(Plans) /\ local[h] \in FeatureModules!Locals
      /\ FeatureModules!FromPlan \in SUBSET ModuleIds
  BY DEF ModuleTyped, FeatureModules!FromPlan
<1>1. ASSUME NEW p \in Plans, FeatureModules!Sync(h, p)
      PROVE  ModuleKept(h)
  <2> DEFINE read == [FeatureModules!NoLocal EXCEPT !.plan = p, !.existing = FeatureModules!FromPlan, !.todo = ModulesOf[p]]
  <2>0. ModulesOf[p] \in SUBSET ModuleIds
    BY ModuleGiven DEF FeatureModules!ModulesAssumption
  <2>1. /\ read \in FeatureModules!Locals /\ read.plan = p
        /\ read.existing = FeatureModules!FromPlan /\ read.todo = ModulesOf[p]
    BY <1>0, <2>0, ModuleEmpty DEF FeatureModules!NoLocal, FeatureModules!Locals,
       FeatureModules!OrNone
  <2>2. /\ pc[h] = "idle" /\ FeatureModules!Goto(h, "deactivating")
        /\ local' = [local EXCEPT ![h] = read]
        /\ inStep' = None /\ modules' = modules
    BY <1>1 DEF FeatureModules!Sync, FeatureModules!Hold
  <2> HIDE DEF read
  <2>3. /\ pc' \in [Handlers -> FeatureModules!Steps]
        /\ local' \in [Handlers -> FeatureModules!Locals]
        /\ pc'[h] = "deactivating" /\ local'[h] = read /\ \A g \in Handlers \ {h} : pc'[g] = pc[g]
    BY <2>1, <2>2, ModuleMoved DEF FeatureModules!Steps
  <2>4. ModuleInHand(h)' /\ ModuleTold'
    BY <2>1, <2>2, <2>3 DEF ModuleInHand, ModuleTold, FeatureModules!FromPlan
  <2> QED
    BY <1>0, <2>2, <2>3, <2>4 DEF ModuleKept, FeatureModules!OrNone
<1>2. ASSUME NEW p \in Plans, NEW preset \in Presets, FeatureModules!ApplyPreset(h, preset, p)
      PROVE  ModuleKept(h)
  <2> DEFINE read == [FeatureModules!NoLocal EXCEPT !.todo = preset \cap ModulesOf[p]]
  <2>0. preset \cap ModulesOf[p] \in SUBSET ModuleIds
    BY ModuleGiven DEF FeatureModules!ModulesAssumption
  <2>1. read \in FeatureModules!Locals /\ read.todo = preset \cap ModulesOf[p]
    BY <1>0, <2>0, ModuleEmpty DEF FeatureModules!NoLocal, FeatureModules!Locals
  <2>2. /\ pc[h] = "idle" /\ FeatureModules!Goto(h, "choosing")
        /\ local' = [local EXCEPT ![h] = read]
        /\ inStep' = IF inStep = p THEN inStep ELSE None
        /\ modules' = modules
    BY <1>2 DEF FeatureModules!ApplyPreset, FeatureModules!Hold
  <2> HIDE DEF read
  <2>3. /\ pc' \in [Handlers -> FeatureModules!Steps]
        /\ local' \in [Handlers -> FeatureModules!Locals]
        /\ pc'[h] = "choosing" /\ local'[h] = read /\ \A g \in Handlers \ {h} : pc'[g] = pc[g]
    BY <2>1, <2>2, ModuleMoved DEF FeatureModules!Steps
  <2>4. ModuleInHand(h)'
    BY <2>1, <2>2, <2>3 DEF ModuleInHand
  <2>5. ModuleTold => ModuleTold'
    BY <2>2 DEF ModuleTold, ModuleOnly, FeatureModules!FromPlan
  <2> QED
    BY <1>0, <2>2, <2>3, <2>4, <2>5 DEF ModuleKept, FeatureModules!OrNone
<1>3. ASSUME NEW m \in ModuleIds, NEW row \in FeatureModules!Rows, row.source \in {"addon", "manual"}, FeatureModules!Find(h, m, row)
      PROVE  ModuleKept(h)
  <2> DEFINE read == [FeatureModules!NoLocal EXCEPT !.existing = {m} \cap {n \in ModuleIds : FeatureModules!Present(n)}, !.one = m, !.row = row]
  <2>1. read \in FeatureModules!Locals /\ read.row = row
    BY ModuleEmpty DEF FeatureModules!NoLocal, FeatureModules!Locals, FeatureModules!OrNone
  <2>2. /\ pc[h] = "idle" /\ FeatureModules!Goto(h, "writing")
        /\ local' = [local EXCEPT ![h] = read]
        /\ inStep' = inStep /\ modules' = modules
    BY <1>3 DEF FeatureModules!Find, FeatureModules!Hold
  <2> HIDE DEF read
  <2>3. /\ pc' \in [Handlers -> FeatureModules!Steps]
        /\ local' \in [Handlers -> FeatureModules!Locals]
        /\ pc'[h] = "writing" /\ local'[h] = read /\ \A g \in Handlers \ {h} : pc'[g] = pc[g]
    BY <2>1, <2>2, ModuleMoved DEF FeatureModules!Steps
  <2>4. ModuleInHand(h)' /\ (ModuleTold => ModuleTold')
    BY <1>3, <2>1, <2>2, <2>3 DEF ModuleInHand, ModuleTold, ModuleOnly, FeatureModules!FromPlan
  <2> QED
    BY <1>0, <2>2, <2>3, <2>4 DEF ModuleKept
<1>4. ASSUME NEW m \in ModuleIds, FeatureModules!ActivateFromAddon(h, m) \/ FeatureModules!Toggle(h, m)
      PROVE  ModuleKept(h)
  <2>1. CASE FeatureModules!ActivateFromAddon(h, m)
    BY <1>3, <2>1 DEF FeatureModules!ActivateFromAddon, FeatureModules!On, FeatureModules!Rows
  <2>2. CASE FeatureModules!Toggle(h, m)
    <3>1. PICK active \in BOOLEAN : FeatureModules!Find(h, m, [source |-> "manual", active |-> active])
      BY <2>2 DEF FeatureModules!Toggle
    <3> QED
      BY <1>3, <3>1 DEF FeatureModules!Rows
  <2> QED
    BY <1>4, <2>1, <2>2
<1>5. ASSUME NEW m \in ModuleIds, FeatureModules!Choose(h, m)
      PROVE  ModuleKept(h)
  <2> DEFINE read == [local[h] EXCEPT !.existing = {m} \cap {n \in ModuleIds : FeatureModules!Present(n)}, !.one = m]
  <2>1. read \in FeatureModules!Locals /\ read.todo = local[h].todo /\ read.one = m
    BY <1>0 DEF FeatureModules!Locals, FeatureModules!OrNone
  <2>2. /\ pc[h] = "choosing" /\ m \in local[h].todo /\ FeatureModules!Goto(h, "presetting")
        /\ local' = [local EXCEPT ![h] = read] /\ inStep' = inStep /\ modules' = modules
    BY <1>5 DEF FeatureModules!Choose, FeatureModules!Hold
  <2> HIDE DEF read
  <2>3. /\ pc' \in [Handlers -> FeatureModules!Steps]
        /\ local' \in [Handlers -> FeatureModules!Locals]
        /\ pc'[h] = "presetting" /\ local'[h] = read /\ \A g \in Handlers \ {h} : pc'[g] = pc[g]
    BY <2>1, <2>2, ModuleMoved DEF FeatureModules!Steps
  <2>4. (ModuleInHand(h) => ModuleInHand(h)') /\ (ModuleTold => ModuleTold')
    BY <2>1, <2>2, <2>3 DEF ModuleInHand, ModuleTold, ModuleOnly, FeatureModules!FromPlan
  <2> QED
    BY <1>0, <2>2, <2>3, <2>4 DEF ModuleKept
<1> QED
  BY <1>1, <1>2, <1>4, <1>5

\* Handlers that synchronize.
LEMMA ModuleSyncKeeps ==
  ASSUME ModuleTyped, NEW h \in Handlers,
         FeatureModules!Deactivate(h) \/ \E m \in ModuleIds : FeatureModules!Enable(h, m)
  PROVE  ModuleKept(h)
<1> DEFINE read == local[h]
           p == local[h].plan
<1>0. /\ modules \in [ModuleIds -> FeatureModules!Rows]
      /\ inStep \in FeatureModules!OrNone(Plans) /\ read \in FeatureModules!Locals
      /\ pc \in [Handlers -> FeatureModules!Steps]
      /\ local \in [Handlers -> FeatureModules!Locals] /\ None \notin Plans
  BY ModuleGiven DEF ModuleTyped, FeatureModules!ModulesAssumption
<1>1. CASE FeatureModules!Deactivate(h)
  <2>1. /\ pc[h] = "deactivating" /\ FeatureModules!Goto(h, "enabling") /\ local' = local
        /\ inStep' = inStep
        /\ modules' = [m \in ModuleIds |->
             IF m \in FeatureModules!FromPlan \cap (read.existing \ ModulesOf[p])
               THEN [modules[m] EXCEPT !.active = FALSE] ELSE modules[m]]
    BY <1>1 DEF FeatureModules!Deactivate
  <2>2. ASSUME NEW m \in ModuleIds
        PROVE  /\ modules'[m] \in FeatureModules!Rows /\ modules'[m].source = modules[m].source
               /\ IF m \in FeatureModules!FromPlan /\ m \in read.existing /\ m \notin ModulesOf[p]
                    THEN ~modules'[m].active ELSE modules'[m] = modules[m]
    BY <1>0, <2>1 DEF FeatureModules!Rows
  <2>3. modules' \in [ModuleIds -> FeatureModules!Rows]
    BY <2>1, <2>2
  <2>4. FeatureModules!FromPlan' = FeatureModules!FromPlan
    BY <2>2 DEF FeatureModules!FromPlan
  <2>5. /\ pc' \in [Handlers -> FeatureModules!Steps] /\ pc'[h] = "enabling"
        /\ \A g \in Handlers \ {h} : pc'[g] = pc[g]
    BY <1>0, <2>1 DEF FeatureModules!Goto, FeatureModules!Steps
  <2>6. ASSUME ModuleInHand(h), ModuleTold
        PROVE  /\ ModuleInHand(h)' /\ ModuleTold'
               /\ \A m \in ModuleIds : m \notin FeatureModules!FromPlan => modules'[m] = modules[m]
    <3>1. /\ inStep = None /\ p \in Plans /\ read.existing \subseteq FeatureModules!FromPlan
          /\ FeatureModules!FromPlan \subseteq read.existing /\ read.todo = ModulesOf[p]
      BY <2>1, <2>6 DEF ModuleInHand
    <3>2. \A m \in FeatureModules!FromPlan : modules'[m].active => m \in ModulesOf[p]
      BY <2>2, <3>1 DEF FeatureModules!FromPlan
    <3>3. ModuleOnly(p)' /\ p' = p
      BY <2>1, <2>4, <3>2 DEF ModuleOnly
    <3>4. ModuleInHand(h)'
      BY <2>1, <2>4, <2>5, <3>1, <3>3 DEF ModuleInHand
    <3> QED
      BY <2>1, <2>2, <3>1, <3>4 DEF ModuleTold
  <2> QED
    BY <1>0, <2>1, <2>3, <2>5, <2>6 DEF ModuleKept
<1>2. ASSUME NEW m \in ModuleIds, FeatureModules!Enable(h, m)
      PROVE  ModuleKept(h)
  <2> DEFINE left == local[h].todo \ {m}
  <2>1. /\ pc[h] = "enabling" /\ m \in read.todo
        /\ IF FeatureModules!Written(h, m) THEN FeatureModules!Write(m, FeatureModules!On("plan")) ELSE modules' = modules
        /\ IF FeatureModules!Written(h, m) /\ left # {}
             THEN local' = [local EXCEPT ![h] = [read EXCEPT !.todo = left]] /\ pc' = pc
             ELSE FeatureModules!Return(h)
        /\ inStep' = IF FeatureModules!Written(h, m) /\ left = {} THEN p ELSE inStep
    BY <1>2 DEF FeatureModules!Enable, FeatureModules!Hold
  <2>2. /\ FeatureModules!On("plan") \in FeatureModules!Rows
        /\ FeatureModules!On("plan").source = "plan" /\ FeatureModules!On("plan").active
    BY DEF FeatureModules!On, FeatureModules!Rows
  <2>3. /\ modules' \in [ModuleIds -> FeatureModules!Rows]
        /\ \A n \in ModuleIds \ {m} : modules'[n] = modules[n]
        /\ IF FeatureModules!Written(h, m) THEN modules'[m] = FeatureModules!On("plan") ELSE modules' = modules
    BY <1>0, <2>1, <2>2, ModuleWrote
  <2>4. [read EXCEPT !.todo = left] \in FeatureModules!Locals /\ [read EXCEPT !.todo = left].todo = left
        /\ [read EXCEPT !.todo = left].plan = p
        /\ [read EXCEPT !.todo = left].existing = read.existing
    BY <1>0 DEF FeatureModules!Locals
  <2>5. /\ pc' \in [Handlers -> FeatureModules!Steps]
        /\ local' \in [Handlers -> FeatureModules!Locals]
        /\ \A g \in Handlers \ {h} : pc'[g] = pc[g]
        /\ IF FeatureModules!Written(h, m) /\ left # {} THEN local'[h] = [read EXCEPT !.todo = left] /\ pc'[h] = "enabling"
           ELSE pc'[h] = "idle"
    <3>1. CASE FeatureModules!Written(h, m) /\ left # {}
      <4>1. local' = [local EXCEPT ![h] = [read EXCEPT !.todo = left]] /\ pc' = pc
        BY <2>1, <3>1
      <4> HIDE DEF read
      <4> QED
        BY <1>0, <2>1, <2>4, <3>1, <4>1
    <3>2. CASE ~(FeatureModules!Written(h, m) /\ left # {})
      <4>1. FeatureModules!Return(h)
        BY <2>1, <3>2
      <4> QED
        BY <3>2, <4>1, ModuleReturned
    <3> QED
      BY <3>1, <3>2
  <2>6. ASSUME ModuleInHand(h), ModuleTold
        PROVE  /\ ModuleInHand(h)' /\ ModuleTold'
               /\ \A n \in ModuleIds :
                    FeatureModules!Present(n) /\ n \notin FeatureModules!FromPlan =>
                      modules'[n] = modules[n]
               /\ inStep' # None => \A n \in ModulesOf[inStep'] : modules'[n].active
    <3>1. /\ inStep = None /\ p \in Plans /\ read.existing \subseteq FeatureModules!FromPlan
          /\ ModuleOnly(p) /\ read.todo \subseteq ModulesOf[p]
          /\ \A n \in ModulesOf[p] \ read.todo : modules[n].active
      BY <2>1, <2>6 DEF ModuleInHand
    <3>2. ModulesOf[p] \subseteq ModuleIds
      BY <3>1, ModuleGiven DEF FeatureModules!ModulesAssumption
    <3>3. \A n \in ModuleIds : FeatureModules!Present(n) /\ n \notin FeatureModules!FromPlan =>
            modules'[n] = modules[n]
      BY <2>3, <3>1 DEF FeatureModules!Written
    <3>4. \A n \in ModuleIds : /\ modules'[n].source = "plan" /\ modules'[n].active => n \in ModulesOf[p]
                               /\ modules[n].source = "plan" => modules'[n].source = "plan"
      BY <2>1, <2>2, <2>3, <3>1 DEF ModuleOnly, FeatureModules!FromPlan
    <3>5. FeatureModules!Written(h, m) => \A n \in ModulesOf[p] \ left : modules'[n].active
      BY <2>2, <2>3, <3>1, <3>2
    <3>6. ModuleTold'
      BY <2>1, <3>1, <3>4 DEF ModuleTold, ModuleOnly, FeatureModules!FromPlan
    <3>7. ModuleInHand(h)'
      <4>1. CASE FeatureModules!Written(h, m) /\ left # {}
        <5>1. /\ pc'[h] = "enabling" /\ inStep' = None /\ local'[h].plan = p
              /\ local'[h].todo = left
              /\ local'[h].existing = read.existing
          BY <2>1, <2>4, <2>5, <3>1, <4>1
        <5> HIDE DEF read, p, left
        <5>2. ModuleOnly(local[h].plan)'
          BY <3>4, <5>1 DEF ModuleOnly, FeatureModules!FromPlan
        <5>3. read.existing \subseteq FeatureModules!FromPlan'
          BY <3>1, <3>4 DEF FeatureModules!FromPlan
        <5>4. left \subseteq ModulesOf[p]
          BY <3>1 DEF left, read
        <5> QED
          BY <3>1, <3>5, <4>1, <5>1, <5>2, <5>3, <5>4 DEF ModuleInHand
      <4>2. CASE ~(FeatureModules!Written(h, m) /\ left # {})
        BY <2>5, <4>2 DEF ModuleInHand
      <4> QED
        BY <4>1, <4>2
    <3> QED
      BY <2>1, <3>1, <3>3, <3>5, <3>6, <3>7
  <2> QED
    BY <1>0, <2>1, <2>3, <2>5, <2>6 DEF ModuleKept, FeatureModules!Locals
<1> QED
  BY <1>1, <1>2

\* Handlers that switch one module.
LEMMA ModuleWritesKeep ==
  ASSUME ModuleTyped, NEW h \in Handlers,
         FeatureModules!WriteFound(h) \/ FeatureModules!WriteChosen(h)
  PROVE  ModuleKept(h)
<1> DEFINE read == local[h]
           m == local[h].one
<1>0. /\ modules \in [ModuleIds -> FeatureModules!Rows]
      /\ inStep \in FeatureModules!OrNone(Plans) /\ read \in FeatureModules!Locals
      /\ pc \in [Handlers -> FeatureModules!Steps]
      /\ local \in [Handlers -> FeatureModules!Locals] /\ None \notin ModuleIds
  BY ModuleGiven DEF ModuleTyped, FeatureModules!ModulesAssumption
<1>1. CASE FeatureModules!WriteFound(h)
  <2>1. /\ pc[h] = "writing" /\ FeatureModules!Return(h) /\ inStep' = inStep
        /\ IF FeatureModules!Written(h, m) THEN FeatureModules!Write(m, read.row) ELSE modules' = modules
    BY <1>1 DEF FeatureModules!WriteFound
  <2>2. read.row \in FeatureModules!Rows
    BY <1>0 DEF FeatureModules!Locals
  <2>3. /\ modules' \in [ModuleIds -> FeatureModules!Rows]
        /\ \A n \in ModuleIds : modules'[n] \in {modules[n], read.row}
    BY <1>0, <2>1, <2>2, ModuleWrote
  <2>4. ModuleInHand(h) /\ ModuleTold => ModuleTold'
    BY <2>1, <2>3 DEF ModuleInHand, ModuleTold, ModuleOnly, FeatureModules!FromPlan
  <2> QED
    BY <1>0, <2>1, <2>3, <2>4, ModuleReturned DEF ModuleKept
<1>2. CASE FeatureModules!WriteChosen(h)
  <2> DEFINE left == local[h].todo \ {m}
             row == FeatureModules!On(IF FeatureModules!Present(m) THEN modules[m].source ELSE "manual")
  <2>1. /\ pc[h] = "presetting" /\ inStep' = inStep
        /\ IF FeatureModules!Written(h, m) THEN FeatureModules!Write(m, row) ELSE modules' = modules
        /\ IF FeatureModules!Written(h, m) /\ left # {}
             THEN local' = [local EXCEPT ![h] = [FeatureModules!NoLocal EXCEPT !.todo = left]] /\ FeatureModules!Goto(h, "choosing")
             ELSE FeatureModules!Return(h)
    BY <1>2 DEF FeatureModules!WriteChosen, FeatureModules!Hold
  <2>2. /\ modules' \in [ModuleIds -> FeatureModules!Rows]
        /\ \A n \in ModuleIds \ {m} : modules'[n] = modules[n]
        /\ m \in ModuleIds => modules'[m] \in {row, modules[m]}
    <3>1. CASE m \in ModuleIds
      <4>1. row \in FeatureModules!Rows
        BY <1>0, <3>1 DEF FeatureModules!On, FeatureModules!Rows
      <4> QED
        BY <1>0, <2>1, <4>1, ModuleWrote
    <3>2. CASE m \notin ModuleIds
      BY <1>0, <2>1, <3>2 DEF FeatureModules!Write
    <3> QED
      BY <3>1, <3>2
  <2>3. /\ [FeatureModules!NoLocal EXCEPT !.todo = left] \in FeatureModules!Locals
        /\ [FeatureModules!NoLocal EXCEPT !.todo = left].todo = left
    BY <1>0, ModuleEmpty DEF FeatureModules!Locals, FeatureModules!NoLocal
  <2>4. /\ pc' \in [Handlers -> FeatureModules!Steps]
        /\ local' \in [Handlers -> FeatureModules!Locals]
        /\ \A g \in Handlers \ {h} : pc'[g] = pc[g]
        /\ pc'[h] = "idle" \/ (pc'[h] = "choosing" /\ local'[h].todo = left)
    BY <2>1, <2>3, ModuleMoved, ModuleReturned DEF FeatureModules!Steps
  <2>5. ModuleInHand(h) => ModuleInHand(h)'
    BY <2>1, <2>4 DEF ModuleInHand
  <2>6. ASSUME ModuleInHand(h), ModuleTold
        PROVE  ModuleTold'
    <3>1. m \in read.todo /\ m \in ModuleIds /\ (inStep # None => m \in ModulesOf[inStep])
      BY <1>0, <2>1, <2>6 DEF ModuleInHand, FeatureModules!Locals
    <3>2. \A n \in FeatureModules!FromPlan' :
            n = m \/ (modules'[n] = modules[n] /\ n \in FeatureModules!FromPlan)
      BY <2>2 DEF FeatureModules!FromPlan
    <3> QED
      BY <2>1, <2>6, <3>1, <3>2 DEF ModuleTold, ModuleOnly
  <2> QED
    BY <1>0, <2>1, <2>2, <2>4, <2>5, <2>6 DEF ModuleKept
<1> QED
  BY <1>1, <1>2

\* Every step keeps the invariant, and does what is said of every step.
LEMMA ModuleStepHolds ==
  ModuleTyped /\ ModuleSoloInv /\ [FeatureModules!Next]_(FeatureModules!vars) =>
    ModuleTyped' /\ ModuleSoloInv' /\ FeatureModules!OthersKept
<1> SUFFICES ASSUME ModuleTyped, ModuleSoloInv, [FeatureModules!Next]_(FeatureModules!vars)
             PROVE  ModuleTyped' /\ ModuleSoloInv' /\ FeatureModules!OthersKept
  OBVIOUS
<1>1. CASE UNCHANGED FeatureModules!vars
  BY <1>1 DEF FeatureModules!vars, ModuleTyped, ModuleSoloInv, Alone, ModuleInHand,
     FeatureModules!InFlight, FeatureModules!OthersKept, ModuleTold, ModuleOnly,
     FeatureModules!FromPlan
<1>2. ASSUME NEW h \in Handlers, FeatureModules!HandlerStep(h), FeatureModules!Overlap(h)
      PROVE  ModuleTyped' /\ ModuleSoloInv' /\ FeatureModules!OthersKept
  <2>1. ModuleKept(h)
    BY <1>2, ModuleReadsKeep, ModuleSyncKeeps, ModuleWritesKeep DEF FeatureModules!HandlerStep
  <2>2. ModuleTyped'
    BY <1>2, <2>1 DEF ModuleKept, ModuleTyped, FeatureModules!Overlap
  <2>3. ASSUME ~overlapped'
        PROVE  /\ Alone' /\ ModuleTold' /\ (\A g \in Handlers : ModuleInHand(g)')
               /\ FeatureModules!OthersKept
    <3>1. ~overlapped /\ \A g \in Handlers \ {h} : pc[g] = "idle" /\ pc'[g] = "idle"
      BY <1>2, <2>1, <2>3 DEF FeatureModules!Overlap, FeatureModules!InFlight, ModuleKept
    <3>2. \A g \in Handlers \ {h} : ModuleInHand(g)'
      BY <3>1 DEF ModuleInHand
    <3>3. Alone'
      BY <3>1 DEF Alone, FeatureModules!InFlight
    <3> QED
      BY <2>1, <3>1, <3>2, <3>3 DEF ModuleKept, ModuleSoloInv, FeatureModules!OthersKept
  <2> QED
    BY <2>2, <2>3 DEF ModuleSoloInv, Alone, FeatureModules!OthersKept
<1> QED
  BY <1>1, <1>2 DEF FeatureModules!Next

\* The invariant is enough.
LEMMA ModulePromised == ModuleTyped /\ ModuleSoloInv => FeatureModules!TypeOK
  BY DEF ModuleTyped, ModuleSoloInv, FeatureModules!TypeOK, ModuleTold, ModuleOnly
-----------------------------------------------------------------------------
(***************************************************************************)
(* shares of an event. A request is approved in one statement and its      *)
(* share inserted in the next, so that approval is compared with the       *)
(* shares through the handler in between.                                  *)
(***************************************************************************)
\* What is assumed of the constants.
LEMMA CalendarGiven == Calendar!CalendarAssumption
  BY OfficeAssumption

\* Steps of a decision.
CalendarDeciding == {"approving", "rejecting", "granting"}
\* A handler that will write a share or a request knows which.
CalendarHeld(h) ==
  /\ pc[h] = "revoking" => local[h] \in ShareIds
  /\ pc[h] \in CalendarDeciding => local[h] \in RequestIds

\* What holds however handlers interleave.
CalendarInv == Calendar!TypeOK /\ \A h \in Handlers : CalendarHeld(h)

\* One request is pending at most.
CalendarOnePending ==
  \A q, r \in RequestIds : shareRequests[q] = "pending" /\ shareRequests[r] = "pending" => q = r
\* What was granted was approved.
CalendarGrantedApproved == \A r \in granted : shareRequests[r] = "approved"
\* What was approved is granted, or the one who grants it is at work.
CalendarApprovedGranted == ~died =>
  \A r \in RequestIds : shareRequests[r] = "approved" =>
    r \in granted \/ \E h \in Handlers : pc[h] = "granting" /\ local[h] = r

\* When handlers do not overlap, what the one at work has read still holds.
CalendarInHand(h) ==
  /\ pc[h] \in {"editing"} => event = "there"
  /\ pc[h] = "asking" => \A r \in RequestIds : shareRequests[r] # "pending"
  /\ \A r \in RequestIds : local[h] = r =>
       /\ pc[h] \in {"approving", "rejecting"} => shareRequests[r] = "pending"
       /\ pc[h] = "granting" => shareRequests[r] = "approved"

\* What the tables say of each other.
CalendarTables == CalendarOnePending /\ CalendarGrantedApproved /\ CalendarApprovedGranted

\* What holds as long as they do not overlap.
CalendarSoloInv == Alone /\ (~overlapped => CalendarTables /\ \A h \in Handlers : CalendarInHand(h))

\* What a step of h does: it keeps the invariant, as long as h is alone all of
\* it.
CalendarKept(h) ==
  /\ event' \in Calendar!Events /\ shares' \in [ShareIds -> Calendar!ShareStates]
  /\ shareRequests' \in [RequestIds -> Calendar!Statuses] /\ granted' \subseteq RequestIds
  /\ died' \in BOOLEAN
  /\ pc' \in [Handlers -> Calendar!Steps] /\ local' \in [Handlers -> Calendar!Locals]
  /\ CalendarHeld(h)'
  /\ \A g \in Handlers \ {h} : pc'[g] = pc[g] /\ local'[g] = local[g]
  /\ \A s \in ShareIds : shares[s] = "revoked" => shares'[s] = "revoked"
  /\ \A r \in RequestIds : shareRequests[r] \in {"approved", "rejected"} =>
       shareRequests'[r] \in {"approved", "rejected"}
  /\ OnlyMe(h) /\ CalendarTables /\ CalendarInHand(h) =>
       /\ CalendarTables' /\ CalendarInHand(h)'
       /\ \A r \in RequestIds : shareRequests[r] \in {"approved", "rejected"} =>
            shareRequests'[r] = shareRequests[r]
       /\ event = "removed" => event' = "removed"

\* The initial states have the invariant.
LEMMA CalendarInitHolds == Calendar!Init => CalendarInv /\ CalendarSoloInv
<1> SUFFICES ASSUME Calendar!Init PROVE CalendarInv /\ CalendarSoloInv
  OBVIOUS
<1>1. /\ overlapped = FALSE /\ died = FALSE /\ \A h \in Handlers : pc[h] = "idle" /\ local[h] = None
      /\ \A r \in RequestIds : shareRequests[r] = "none"
      /\ granted = {}
  BY DEF Calendar!Init, Calendar!AllIdle
<1>2. overlapped \in BOOLEAN /\ died \in BOOLEAN
  BY <1>1, Zenon
<1>3. Calendar!TypeOK
  BY <1>2 DEF Calendar!Init, Calendar!AllIdle, Calendar!TypeOK, Calendar!Steps, Calendar!Locals,
     Calendar!OrNone, Calendar!Events, Calendar!ShareStates, Calendar!Statuses
<1>4. CalendarTables
  BY <1>1 DEF CalendarTables, CalendarOnePending, CalendarGrantedApproved, CalendarApprovedGranted
<1> QED
  BY <1>1, <1>3, <1>4 DEF CalendarInv, CalendarSoloInv, Alone, Calendar!InFlight, CalendarInHand,
     CalendarHeld, CalendarDeciding

\* A handler that goes on takes what it has read with it; the others stay.
LEMMA CalendarMoved ==
  ASSUME CalendarInv, NEW h \in Handlers, NEW step \in Calendar!Steps, NEW read \in Calendar!Locals,
         Calendar!Goto(h, step), local' = [local EXCEPT ![h] = read]
  PROVE  /\ pc' \in [Handlers -> Calendar!Steps] /\ local' \in [Handlers -> Calendar!Locals]
         /\ pc'[h] = step /\ local'[h] = read
         /\ \A g \in Handlers \ {h} : pc'[g] = pc[g] /\ local'[g] = local[g]
  BY DEF CalendarInv, Calendar!TypeOK, Calendar!Goto

\* A handler that returns holds nothing; the others stay.
LEMMA CalendarReturned ==
  ASSUME CalendarInv, NEW h \in Handlers, Calendar!Return(h)
  PROVE  /\ pc' \in [Handlers -> Calendar!Steps] /\ local' \in [Handlers -> Calendar!Locals]
         /\ CalendarHeld(h)' /\ CalendarInHand(h)' /\ pc'[h] = "idle" /\ local'[h] = None
         /\ \A g \in Handlers \ {h} : pc'[g] = pc[g] /\ local'[g] = local[g]
<1>1. /\ pc' \in [Handlers -> Calendar!Steps] /\ local' \in [Handlers -> Calendar!Locals]
      /\ pc'[h] = "idle"
      /\ local'[h] = None
      /\ \A g \in Handlers \ {h} : pc'[g] = pc[g] /\ local'[g] = local[g]
  BY CalendarMoved DEF Calendar!Return, Calendar!Hold, Calendar!Steps, Calendar!Locals,
     Calendar!OrNone
<1>2. CalendarHeld(h)' /\ CalendarInHand(h)'
  BY <1>1 DEF CalendarHeld, CalendarInHand, CalendarDeciding
<1> QED
  BY <1>1, <1>2

\* Handlers that read and check.
LEMMA CalendarBeginsKeep ==
  ASSUME CalendarInv, NEW h \in Handlers,
         \/ Calendar!UpdateEvent(h) \/ Calendar!DeleteEvent(h) \/ Calendar!Share(h)
         \/ Calendar!Ask(h)
         \/ \E s \in ShareIds : Calendar!Revoke(h, s)
         \/ \E r \in RequestIds : Calendar!Decide(h, r)
  PROVE  CalendarKept(h)
<1>1. ASSUME NEW step \in Calendar!Steps, NEW id \in Calendar!Locals, Calendar!Begin(h, step, id), step # "granting",
             step = "editing" => event = "there",
             step = "asking" => \A r \in RequestIds : shareRequests[r] # "pending",
             step \in {"approving", "rejecting"} =>
               id \in RequestIds /\ shareRequests[id] = "pending",
             step = "revoking" => id \in ShareIds
      PROVE  CalendarKept(h)
  <2>1. /\ pc[h] = "idle" /\ event' = event /\ shares' = shares /\ shareRequests' = shareRequests
        /\ granted' = granted /\ died' = died
        /\ Calendar!Goto(h, step) /\ local' = [local EXCEPT ![h] = id]
    BY <1>1 DEF Calendar!Begin, Calendar!Hold
  <2>2. /\ pc' \in [Handlers -> Calendar!Steps] /\ local' \in [Handlers -> Calendar!Locals]
        /\ pc'[h] = step /\ local'[h] = id
        /\ \A g \in Handlers \ {h} : pc'[g] = pc[g] /\ local'[g] = local[g]
    BY <1>1, <2>1, CalendarMoved
  <2>3. CalendarHeld(h)' /\ CalendarInHand(h)'
    BY <1>1, <2>1, <2>2 DEF CalendarHeld, CalendarInHand, CalendarDeciding
  <2>4. CalendarTables => CalendarTables'
    <3>1. ASSUME CalendarApprovedGranted PROVE CalendarApprovedGranted'
      BY <2>1, <2>2, <3>1 DEF CalendarApprovedGranted
    <3> QED
      BY <2>1, <3>1 DEF CalendarTables, CalendarOnePending, CalendarGrantedApproved
  <2> QED
    BY <2>1, <2>2, <2>3, <2>4 DEF CalendarKept, CalendarInv, Calendar!TypeOK
<1>2. /\ None \in Calendar!Locals /\ ShareIds \subseteq Calendar!Locals
      /\ RequestIds \subseteq Calendar!Locals
  BY DEF Calendar!Locals, Calendar!OrNone
<1>3. CASE Calendar!UpdateEvent(h) \/ Calendar!DeleteEvent(h) \/ Calendar!Share(h) \/ Calendar!Ask(h)
  BY <1>1, <1>2, <1>3 DEF Calendar!UpdateEvent, Calendar!DeleteEvent, Calendar!Share, Calendar!Ask,
     Calendar!Steps
<1>4. ASSUME NEW s \in ShareIds, Calendar!Revoke(h, s) PROVE CalendarKept(h)
  BY <1>1, <1>2, <1>4 DEF Calendar!Revoke, Calendar!Steps
<1>5. ASSUME NEW r \in RequestIds, Calendar!Decide(h, r) PROVE CalendarKept(h)
  BY <1>1, <1>2, <1>5 DEF Calendar!Decide, Calendar!Steps
<1> QED
  BY <1>3, <1>4, <1>5

\* Handlers that write the event or the shares and return.
LEMMA CalendarSharesKeep ==
  ASSUME CalendarInv, NEW h \in Handlers,
         \/ Calendar!UpdateSave(h) \/ Calendar!SoftDelete(h) \/ Calendar!ShareSave(h)
         \/ Calendar!RevokeSave(h) \/ Calendar!Crash(h)
  PROVE  CalendarKept(h)
<1>0. /\ event \in Calendar!Events /\ shares \in [ShareIds -> Calendar!ShareStates]
      /\ shareRequests \in [RequestIds -> Calendar!Statuses]
      /\ granted \subseteq RequestIds /\ died \in BOOLEAN /\ CalendarHeld(h)
  BY DEF CalendarInv, Calendar!TypeOK
<1>1. /\ Calendar!Return(h) /\ shareRequests' = shareRequests /\ granted' = granted
      /\ died' \in BOOLEAN /\ (died' = died \/ died')
      /\ pc[h] = "granting" => died'
  <2>1. CASE Calendar!UpdateSave(h) \/ Calendar!SoftDelete(h) \/ Calendar!ShareSave(h) \/ Calendar!RevokeSave(h)
    BY <1>0, <2>1 DEF Calendar!UpdateSave, Calendar!SoftDelete, Calendar!ShareSave,
       Calendar!RevokeSave
  <2>2. CASE Calendar!Crash(h)
    <3>1. Calendar!Return(h) /\ died' = TRUE /\ shareRequests' = shareRequests /\ granted' = granted
      BY <2>2 DEF Calendar!Crash
    <3>2. died' \in BOOLEAN
      BY <3>1, Zenon
    <3> QED
      BY <3>1, <3>2
  <2> QED
    BY <2>1, <2>2
<1>2. /\ event' \in Calendar!Events
      /\ CalendarInHand(h) /\ event = "removed" => event' = "removed"
  BY <1>0 DEF Calendar!UpdateSave, Calendar!SoftDelete, Calendar!ShareSave, Calendar!RevokeSave,
     Calendar!Crash, Calendar!Events, CalendarInHand
<1>3. /\ shares' \in [ShareIds -> Calendar!ShareStates]
      /\ \A s \in ShareIds : shares[s] = "revoked" => shares'[s] = "revoked"
  <2>1. CASE shares' = shares
    BY <1>0, <2>1
  <2>2. ASSUME NEW s \in ShareIds, Calendar!Insert(s)
        PROVE  /\ shares' \in [ShareIds -> Calendar!ShareStates]
               /\ \A t \in ShareIds : shares[t] = "revoked" => shares'[t] = "revoked"
    BY <1>0, <2>2 DEF Calendar!Insert, Calendar!ShareStates
  <2>3. CASE Calendar!RevokeSave(h)
    BY <1>0, <2>3 DEF Calendar!RevokeSave, CalendarHeld, Calendar!ShareStates
  <2> QED
    BY <2>1, <2>2, <2>3 DEF Calendar!UpdateSave, Calendar!SoftDelete, Calendar!ShareSave,
       Calendar!RevokeSave, Calendar!Crash
<1>4. OnlyMe(h) /\ CalendarTables => CalendarTables'
  <2>1. ASSUME OnlyMe(h), CalendarApprovedGranted PROVE CalendarApprovedGranted'
    BY <1>1, <2>1 DEF CalendarApprovedGranted, OnlyMe
  <2> QED
    BY <1>1, <2>1 DEF CalendarTables, CalendarOnePending, CalendarGrantedApproved
<1> QED
  BY <1>0, <1>1, <1>2, <1>3, <1>4, CalendarReturned DEF CalendarKept

\* Handlers that write requests.
LEMMA CalendarRequestsKeep ==
  ASSUME CalendarInv, NEW h \in Handlers,
         \/ Calendar!AskSave(h) \/ Calendar!RejectSave(h) \/ Calendar!ApproveSave(h)
         \/ Calendar!Grant(h)
  PROVE  CalendarKept(h)
<1>0. /\ event \in Calendar!Events /\ shares \in [ShareIds -> Calendar!ShareStates]
      /\ shareRequests \in [RequestIds -> Calendar!Statuses]
      /\ granted \subseteq RequestIds /\ died \in BOOLEAN /\ CalendarHeld(h)
      /\ event' = event /\ died' = died /\ pc \in [Handlers -> Calendar!Steps]
      /\ local \in [Handlers -> Calendar!Locals]
  BY DEF CalendarInv, Calendar!TypeOK, Calendar!AskSave, Calendar!RejectSave, Calendar!ApproveSave,
     Calendar!Grant
<1>1. CASE Calendar!AskSave(h)
  <2>1. PICK r \in RequestIds : /\ shareRequests[r] = "none"
                                /\ shareRequests' = [shareRequests EXCEPT ![r] = "pending"]
    BY <1>1 DEF Calendar!AskSave
  <2>2. pc[h] = "asking" /\ Calendar!Return(h) /\ shares' = shares /\ granted' = granted
    BY <1>1 DEF Calendar!AskSave
  <2>3. /\ shareRequests' \in [RequestIds -> Calendar!Statuses]
        /\ \A q \in RequestIds \ {r} : shareRequests'[q] = shareRequests[q]
        /\ shareRequests'[r] = "pending"
    BY <1>0, <2>1 DEF Calendar!Statuses
  <2>4. OnlyMe(h) /\ CalendarTables /\ CalendarInHand(h) => CalendarTables'
    BY <1>0, <2>1, <2>2, <2>3 DEF CalendarTables, CalendarOnePending, CalendarGrantedApproved,
       CalendarApprovedGranted, CalendarInHand, OnlyMe
  <2> QED
    BY <1>0, <2>1, <2>2, <2>3, <2>4, CalendarReturned DEF CalendarKept
<1>2. CASE Calendar!RejectSave(h)
  <2>1. /\ shareRequests' = [shareRequests EXCEPT ![local[h]] = "rejected"]
        /\ local[h] \in RequestIds
        /\ pc[h] = "rejecting" /\ Calendar!Return(h) /\ shares' = shares /\ granted' = granted
    BY <1>0, <1>2 DEF Calendar!RejectSave, CalendarHeld, CalendarDeciding
  <2>2. /\ shareRequests' \in [RequestIds -> Calendar!Statuses]
        /\ \A q \in RequestIds \ {local[h]} : shareRequests'[q] = shareRequests[q]
        /\ shareRequests'[local[h]] = "rejected"
    BY <1>0, <2>1 DEF Calendar!Statuses
  <2>3. OnlyMe(h) /\ CalendarTables /\ CalendarInHand(h) => CalendarTables'
    BY <1>0, <2>1, <2>2 DEF CalendarTables, CalendarOnePending, CalendarGrantedApproved,
       CalendarApprovedGranted, CalendarInHand, OnlyMe
  <2> QED
    BY <1>0, <2>1, <2>2, <2>3, CalendarReturned DEF CalendarKept, CalendarInHand
<1>3. CASE Calendar!ApproveSave(h)
  <2>1. /\ shareRequests' = [shareRequests EXCEPT ![local[h]] = "approved"]
        /\ local[h] \in RequestIds
        /\ pc[h] = "approving" /\ Calendar!Goto(h, "granting") /\ shares' = shares
        /\ granted' = granted /\ local' = local
    BY <1>0, <1>3 DEF Calendar!ApproveSave, CalendarHeld, CalendarDeciding
  <2>2. /\ shareRequests' \in [RequestIds -> Calendar!Statuses]
        /\ \A q \in RequestIds \ {local[h]} : shareRequests'[q] = shareRequests[q]
        /\ shareRequests'[local[h]] = "approved"
    BY <1>0, <2>1 DEF Calendar!Statuses
  <2>3. /\ pc' \in [Handlers -> Calendar!Steps] /\ pc'[h] = "granting"
        /\ \A g \in Handlers \ {h} : pc'[g] = pc[g]
    BY <1>0, <2>1 DEF Calendar!Goto, Calendar!Steps
  <2>4. CalendarHeld(h)' /\ CalendarInHand(h)'
    BY <2>1, <2>2, <2>3 DEF CalendarHeld, CalendarInHand, CalendarDeciding
  <2>5. OnlyMe(h) /\ CalendarTables /\ CalendarInHand(h) => CalendarTables'
    BY <1>0, <2>1, <2>2, <2>3 DEF CalendarTables, CalendarOnePending, CalendarGrantedApproved,
       CalendarApprovedGranted, CalendarInHand, OnlyMe
  <2> QED
    BY <1>0, <2>1, <2>2, <2>3, <2>4, <2>5 DEF CalendarKept, CalendarInHand
<1>4. CASE Calendar!Grant(h)
  <2>1. PICK s \in ShareIds : shares[s] = "none" /\ shares' = [shares EXCEPT ![s] = "active"]
    BY <1>4 DEF Calendar!Grant, Calendar!Insert
  <2>2. /\ granted' = granted \cup {local[h]} /\ local[h] \in RequestIds
        /\ pc[h] = "granting" /\ Calendar!Return(h) /\ shareRequests' = shareRequests
    BY <1>0, <1>4 DEF Calendar!Grant, CalendarHeld, CalendarDeciding
  <2>3. /\ shares' \in [ShareIds -> Calendar!ShareStates]
        /\ \A t \in ShareIds : shares[t] = "revoked" => shares'[t] = "revoked"
    BY <1>0, <2>1 DEF Calendar!ShareStates
  <2>4. OnlyMe(h) /\ CalendarTables /\ CalendarInHand(h) => CalendarTables'
    BY <1>0, <2>2 DEF CalendarTables, CalendarOnePending, CalendarGrantedApproved,
       CalendarApprovedGranted, CalendarInHand, OnlyMe
  <2> QED
    BY <1>0, <2>2, <2>3, <2>4, CalendarReturned DEF CalendarKept
<1> QED
  BY <1>1, <1>2, <1>3, <1>4

\* Every step keeps the invariant, and does what is said of every step.
LEMMA CalendarStepHolds == CalendarInv /\ CalendarSoloInv /\ [Calendar!Next]_(Calendar!vars) =>
                             CalendarInv' /\ CalendarSoloInv' /\ Calendar!ShareKept
<1> SUFFICES ASSUME CalendarInv, CalendarSoloInv, [Calendar!Next]_(Calendar!vars)
             PROVE  CalendarInv' /\ CalendarSoloInv' /\ Calendar!ShareKept
  OBVIOUS
<1>1. CASE UNCHANGED Calendar!vars
  <2>1. CalendarInv'
    BY <1>1 DEF Calendar!vars, CalendarInv, Calendar!TypeOK, CalendarHeld
  <2>2. CalendarSoloInv'
    BY <1>1 DEF Calendar!vars, CalendarSoloInv, Alone, Calendar!InFlight, CalendarTables,
       CalendarOnePending, CalendarGrantedApproved, CalendarApprovedGranted, CalendarInHand
  <2> QED
    BY <1>1, <2>1, <2>2 DEF Calendar!vars, Calendar!ShareKept
<1>2. ASSUME NEW h \in Handlers, Calendar!HandlerStep(h), Calendar!Overlap(h)
      PROVE  CalendarInv' /\ CalendarSoloInv' /\ Calendar!ShareKept
  <2>1. CalendarKept(h)
    BY <1>2, CalendarBeginsKeep, CalendarSharesKeep, CalendarRequestsKeep DEF Calendar!HandlerStep
  <2>2. CalendarInv'
    <3>1. overlapped' \in BOOLEAN
      BY <1>2 DEF Calendar!Overlap, CalendarInv, Calendar!TypeOK
    <3>2. \A g \in Handlers : CalendarHeld(g)'
      BY <2>1 DEF CalendarKept, CalendarInv, CalendarHeld
    <3> QED
      BY <2>1, <3>1, <3>2 DEF CalendarKept, CalendarInv, Calendar!TypeOK
  <2>3. ASSUME ~overlapped'
        PROVE  /\ Alone' /\ CalendarTables' /\ \A g \in Handlers : CalendarInHand(g)'
               /\ \A r \in RequestIds : shareRequests[r] \in {"approved", "rejected"} =>
                    shareRequests'[r] = shareRequests[r]
               /\ event = "removed" => event' = "removed"
    <3>1. ~overlapped /\ \A g \in Handlers \ {h} : pc[g] = "idle" /\ pc'[g] = "idle"
      BY <1>2, <2>1, <2>3 DEF Calendar!Overlap, Calendar!InFlight, CalendarKept
    <3>2. \A g \in Handlers \ {h} : CalendarInHand(g)'
      BY <3>1 DEF CalendarInHand
    <3>3. Alone'
      BY <3>1 DEF Alone, Calendar!InFlight
    <3>4. OnlyMe(h) /\ CalendarTables /\ CalendarInHand(h)
      BY <3>1 DEF OnlyMe, CalendarSoloInv
    <3> QED
      BY <2>1, <3>2, <3>3, <3>4 DEF CalendarKept
  <2>4. CalendarSoloInv'
    BY <2>3 DEF CalendarSoloInv, Alone
  <2>5. Calendar!ShareKept
    BY <2>1, <2>3 DEF CalendarKept, Calendar!ShareKept
  <2> QED
    BY <2>2, <2>4, <2>5
<1> QED
  BY <1>1, <1>2 DEF Calendar!Next

\* The invariant is enough.
LEMMA CalendarPromised == CalendarInv /\ CalendarSoloInv =>
                            Calendar!TypeOK /\ Calendar!SharedOnRequest
<1> SUFFICES ASSUME CalendarInv, CalendarSoloInv, ~overlapped
             PROVE  /\ CalendarOnePending /\ CalendarGrantedApproved
                    /\ Calendar!Quiet /\ ~died => \A r \in RequestIds :
                         shareRequests[r] = "approved" => r \in granted
  BY DEF CalendarInv, Calendar!SharedOnRequest, CalendarOnePending, CalendarGrantedApproved
<1>1. CalendarOnePending /\ CalendarGrantedApproved /\ CalendarApprovedGranted
  BY DEF CalendarSoloInv, CalendarTables
<1> QED
  BY <1>1 DEF CalendarApprovedGranted, Calendar!Quiet, Calendar!InFlight
-----------------------------------------------------------------------------
(***************************************************************************)
(* contracts. As long as handlers do not overlap, the row that will be     *)
(* saved does not take back an end.                                        *)
(***************************************************************************)
\* The date of termination goes with the status, in the table and in every row
\* that will be saved.
ContractSound(row) == row.status = "terminated" <=> row.terminatedAt

\* The row in hand is sound; when its columns were compared with those of the table,
\* they still differ in no other, but for the end date that has passed.
ContractHeld(h) ==
  /\ ContractSound(local[h].row)
  /\ pc[h] = "updating" =>
       Contracts!Differing(contract, local[h].row) \subseteq local[h].cols \cup {"over"}

\* When handlers do not overlap, the row in hand is that of the table, with what
\* was set: a terminated contract gets at most the text of its scan.
ContractInHand(h) ==
  pc[h] \in {"saving", "updating"} =>
    /\ ~contract.deleted
    /\ contract.status = "terminated" => local[h].row.status = "terminated"
    /\ contract.status = "expired" => local[h].row.status \in {"expired", "terminated"}
    /\ contract.ocr => local[h].row.ocr

ContractLocals == [row : Contracts!Rows, cols : SUBSET DOMAIN Contracts!NoRow]

\* What holds however handlers interleave.
ContractInv == /\ Contracts!TypeOK
               /\ ~torn => ContractSound(contract) /\ \A h \in Handlers : ContractHeld(h)
\* What holds as long as they do not overlap.
ContractSoloInv == Alone /\ (~overlapped => \A h \in Handlers : ContractInHand(h))

\* What a step of h does: it keeps the invariant, as long as h is alone all of
\* it.
ContractKept(h) ==
  /\ contract' \in Contracts!Rows /\ pc' \in [Handlers -> Contracts!Steps]
  /\ local' \in [Handlers -> ContractLocals]
  /\ ~torn => ContractSound(contract') /\ ContractHeld(h)'
  /\ \A g \in Handlers \ {h} : pc'[g] = pc[g] /\ local'[g] = local[g]
  /\ ContractInHand(h) =>
       /\ ContractInHand(h)'
       /\ contract.status = "terminated" =>
            contract'.status = "terminated" /\ (contract.ocr => contract'.ocr)
       /\ contract.status = "expired" => contract'.status \in {"expired", "terminated"}
       /\ contract.deleted => contract'.deleted

\* What is held at rest, and in a row that is not there, is typed.
LEMMA ContractEmpty ==
  /\ Contracts!NoRow \in Contracts!Rows /\ ContractSound(Contracts!NoRow)
  /\ Contracts!Nothing \in ContractLocals /\ Contracts!Nothing.row = Contracts!NoRow
  BY DEF Contracts!NoRow, Contracts!Rows, Contracts!Statuses, ContractSound, ContractLocals,
     Contracts!Nothing, Contracts!Entity

\* What an UPDATE makes of a row: each column is the old one or that in hand.
LEMMA ContractMerge ==
  ASSUME NEW row \in Contracts!Rows, NEW entity \in Contracts!Rows, NEW cols
  PROVE  LET new == Contracts!Merged(row, entity, cols) IN
         /\ new \in Contracts!Rows
         /\ Contracts!Differing(row, entity) \in SUBSET DOMAIN Contracts!NoRow
         /\ new.status \in {row.status, entity.status} /\ new.ocr \in {row.ocr, entity.ocr}
         /\ Contracts!Differing(row, entity) \subseteq cols \cup {"over"} =>
              new.status = entity.status /\ new.terminatedAt = entity.terminatedAt
  BY DEF Contracts!Rows, Contracts!NoRow, Contracts!Merged, Contracts!Differing

\* The initial states have the invariant.
LEMMA ContractInitHolds == Contracts!Init => ContractInv /\ ContractSoloInv
<1> SUFFICES ASSUME Contracts!Init PROVE ContractInv /\ ContractSoloInv
  OBVIOUS
<1>1. /\ overlapped = FALSE /\ torn = FALSE
      /\ \A h \in Handlers : pc[h] = "idle" /\ local[h] = Contracts!Nothing
  BY DEF Contracts!Init, Contracts!AllIdle
<1>2. overlapped \in BOOLEAN /\ torn \in BOOLEAN
  BY <1>1, Zenon
<1>3. Contracts!TypeOK
  BY <1>2, ContractEmpty DEF Contracts!Init, Contracts!AllIdle, Contracts!TypeOK, Contracts!Steps,
     ContractLocals
<1> QED
  BY <1>1, <1>3, ContractEmpty DEF Contracts!Init, ContractInv, ContractSoloInv, Alone,
     Contracts!InFlight, ContractInHand, ContractHeld

\* A handler that returns.
LEMMA ContractReturnKeeps ==
  ASSUME ContractInv, NEW h \in Handlers, Contracts!Return(h)
  PROVE  /\ pc' \in [Handlers -> Contracts!Steps] /\ local' \in [Handlers -> ContractLocals]
         /\ ContractInHand(h)' /\ ContractHeld(h)'
         /\ \A g \in Handlers \ {h} : pc'[g] = pc[g] /\ local'[g] = local[g]
<1>1. /\ pc' \in [Handlers -> Contracts!Steps] /\ local' \in [Handlers -> ContractLocals]
      /\ pc'[h] = "idle" /\ local'[h].row = Contracts!NoRow
      /\ \A g \in Handlers \ {h} : pc'[g] = pc[g] /\ local'[g] = local[g]
  BY ContractEmpty DEF Contracts!Return, Contracts!Goto, Contracts!Hold, ContractInv,
     Contracts!TypeOK, Contracts!Steps, ContractLocals
<1> QED
  BY <1>1, ContractEmpty DEF ContractInHand, ContractHeld

\* A row in hand that will be saved.
LEMMA ContractHoldKeeps ==
  ASSUME ContractInv, NEW h \in Handlers, NEW row \in Contracts!Rows,
         NEW cols \in SUBSET DOMAIN Contracts!NoRow, ~torn => ContractSound(row),
         Contracts!Seen,
         Contracts!Goto(h, "saving"), Contracts!Hold(h, Contracts!Entity(row, cols)),
         contract' = contract,
         contract.status = "terminated" => row.status = "terminated",
         contract.status = "expired" => row.status \in {"expired", "terminated"},
         contract.ocr => row.ocr
  PROVE  ContractKept(h)
<1> DEFINE held == [row |-> row, cols |-> cols]
<1>1. held \in ContractLocals /\ held.row = row /\ local' = [local EXCEPT ![h] = held]
  BY DEF ContractLocals, Contracts!Hold, Contracts!Entity
<1> HIDE DEF held
<1>2. /\ pc' \in [Handlers -> Contracts!Steps] /\ local' \in [Handlers -> ContractLocals]
      /\ pc'[h] = "saving" /\ local'[h].row = row
      /\ \A g \in Handlers \ {h} : pc'[g] = pc[g] /\ local'[g] = local[g]
  BY <1>1 DEF Contracts!Goto, ContractInv, Contracts!TypeOK, Contracts!Steps, ContractLocals
<1>3. ContractInHand(h)' /\ (~torn => ContractHeld(h)')
  BY <1>2 DEF ContractInHand, ContractHeld, Contracts!Seen
<1> QED
  BY <1>2, <1>3 DEF ContractKept, ContractInv, Contracts!TypeOK, ContractSound

\* A step of any handler.
LEMMA ContractHandlerKeeps ==
  ASSUME ContractInv, NEW h \in Handlers, Contracts!HandlerStep(h)
  PROVE  ContractKept(h)
<1>0. /\ contract \in Contracts!Rows /\ local[h] \in ContractLocals
      /\ pc \in [Handlers -> Contracts!Steps] /\ local \in [Handlers -> ContractLocals]
      /\ ~torn => ContractSound(contract) /\ ContractHeld(h)
  BY DEF ContractInv, Contracts!TypeOK, ContractLocals
<1>c. /\ {} \in SUBSET DOMAIN Contracts!NoRow
      /\ {"terminatedAt"} \in SUBSET DOMAIN Contracts!NoRow
  BY DEF Contracts!NoRow
<1>1. CASE Contracts!Create(h)
  <2>1. PICK over \in BOOLEAN : contract' = [Contracts!NoRow EXCEPT !.status = "active", !.over = over]
    BY <1>1 DEF Contracts!Create
  <2>2. contract' \in Contracts!Rows /\ ContractSound(contract')
    BY <2>1 DEF Contracts!NoRow, Contracts!Rows, Contracts!Statuses, ContractSound
  <2> QED
    BY <1>0, <1>1, <2>2 DEF Contracts!Create, ContractKept, ContractInHand, ContractHeld, Contracts!NoRow
<1>2. CASE Contracts!Update(h)
  <2>1. PICK over \in BOOLEAN : /\ Contracts!Load(h, [contract EXCEPT !.over = over], {})
                                /\ contract.status # "terminated"
    BY <1>2 DEF Contracts!Update
  <2> DEFINE row == [contract EXCEPT !.over = over]
  <2>2. /\ row \in Contracts!Rows /\ (~torn => ContractSound(row)) /\ row.status = contract.status
        /\ row.ocr = contract.ocr
    BY <1>0 DEF Contracts!Rows, ContractSound
  <2>3. /\ Contracts!Seen /\ Contracts!Goto(h, "saving")
        /\ Contracts!Hold(h, Contracts!Entity(row, {})) /\ contract' = contract
    BY <2>1 DEF Contracts!Load
  <2> HIDE DEF row
  <2> QED
    BY <1>c, <2>2, <2>3, ContractHoldKeeps
<1>3. CASE Contracts!Terminate(h)
  <2> DEFINE row == [contract EXCEPT !.status = "terminated", !.terminatedAt = TRUE]
  <2>2. /\ row \in Contracts!Rows /\ ContractSound(row) /\ row.status = "terminated"
        /\ row.ocr = contract.ocr
    BY <1>0 DEF Contracts!Rows, ContractSound, Contracts!Statuses
  <2>3. /\ Contracts!Seen /\ Contracts!Goto(h, "saving") /\ contract' = contract
        /\ Contracts!Hold(h, Contracts!Entity(row, {"terminatedAt"}))
    BY <1>3 DEF Contracts!Load, Contracts!Terminate
  <2> HIDE DEF row
  <2> QED
    BY <1>c, <2>2, <2>3, ContractHoldKeeps
<1>4. CASE Contracts!Save(h)
  <2>1. /\ pc[h] = "updating" /\ Contracts!Return(h)
        /\ contract' = Contracts!Merged(contract, local[h].row, local[h].cols)
    BY <1>4 DEF Contracts!Save
  <2>2. local[h].row \in Contracts!Rows
    BY <1>0 DEF ContractLocals
  <2>3. /\ contract' \in Contracts!Rows
        /\ contract'.status \in {contract.status, local[h].row.status}
        /\ contract'.ocr \in {contract.ocr, local[h].row.ocr}
        /\ ~torn => contract'.status = local[h].row.status
                    /\ contract'.terminatedAt = local[h].row.terminatedAt
    BY <1>0, <2>1, <2>2, ContractMerge DEF ContractHeld
  <2>4. ~torn => ContractSound(contract')
    BY <1>0, <2>3 DEF ContractHeld, ContractSound
  <2>5. /\ pc' \in [Handlers -> Contracts!Steps] /\ local' \in [Handlers -> ContractLocals]
        /\ ContractInHand(h)' /\ ContractHeld(h)'
        /\ \A g \in Handlers \ {h} : pc'[g] = pc[g] /\ local'[g] = local[g]
    BY <2>1, ContractReturnKeeps
  <2>6. ContractInHand(h) =>
          /\ ~contract.deleted
          /\ contract.status = "terminated" => contract'.status = "terminated" /\ (contract.ocr => contract'.ocr)
          /\ contract.status = "expired" => contract'.status \in {"expired", "terminated"}
    BY <2>1, <2>3 DEF ContractInHand
  <2> QED
    BY <2>3, <2>4, <2>5, <2>6 DEF ContractKept
<1>9. CASE Contracts!SaveSelect(h)
  <2> DEFINE cols == local[h].cols \cup Contracts!Differing(contract, local[h].row)
             held == [row |-> local[h].row, cols |-> cols]
  <2>1. /\ pc[h] = "saving" /\ contract' = contract
        /\ pc' = [pc EXCEPT ![h] = "updating"]
        /\ local' = [local EXCEPT ![h] = [local[h] EXCEPT !.cols = cols]]
    BY <1>0, <1>9 DEF Contracts!SaveSelect, Contracts!Compare, Contracts!Goto, Contracts!Hold
  <2>2. /\ [local[h] EXCEPT !.cols = cols] = held
        /\ local[h].row \in Contracts!Rows /\ local[h].cols \in SUBSET DOMAIN Contracts!NoRow
    <3> DEFINE Columns == SUBSET DOMAIN Contracts!NoRow
    <3>1. local[h] \in [row : Contracts!Rows, cols : Columns]
      BY <1>0 DEF ContractLocals
    <3> HIDE DEF Columns, cols
    <3>2. /\ [local[h] EXCEPT !.cols = cols] = [row |-> local[h].row, cols |-> cols]
          /\ local[h].row \in Contracts!Rows /\ local[h].cols \in Columns
      BY <3>1, ColumnsSet
    <3> QED
      BY <3>2 DEF Columns
  <2>3. cols \in SUBSET DOMAIN Contracts!NoRow
    BY <1>0, <2>2, ContractMerge
  <2>4. /\ held \in ContractLocals /\ held.row = local[h].row
        /\ Contracts!Differing(contract, held.row) \subseteq held.cols
    BY <2>2, <2>3 DEF ContractLocals
  <2> HIDE DEF held
  <2>5. /\ pc' \in [Handlers -> Contracts!Steps] /\ local' \in [Handlers -> ContractLocals]
        /\ pc'[h] = "updating" /\ local'[h] = held
        /\ \A g \in Handlers \ {h} : pc'[g] = pc[g] /\ local'[g] = local[g]
    BY <1>0, <2>1, <2>2, <2>4 DEF Contracts!Steps
  <2>6. ~torn => ContractHeld(h)'
    BY <1>0, <2>1, <2>4, <2>5 DEF ContractHeld, ContractSound, Contracts!Differing
  <2>7. ContractInHand(h) => ContractInHand(h)'
    BY <2>1, <2>4, <2>5 DEF ContractInHand
  <2> QED
    BY <1>0, <2>1, <2>5, <2>6, <2>7 DEF ContractKept, ContractInHand
<1>5. CASE Contracts!Remove(h) \/ Contracts!Ocr(h)
  <2>1. /\ \E step \in {"removing", "reading"} : pc' = [pc EXCEPT ![h] = step]
        /\ contract' = contract /\ local' = local
    BY <1>5 DEF Contracts!Remove, Contracts!Ocr, Contracts!Goto
  <2>2. pc'[h] \in {"removing", "reading"}
    BY <1>0, <2>1
  <2> QED
    BY <1>0, <2>1, <2>2 DEF ContractKept, ContractInHand, ContractHeld, Contracts!Steps
<1>6. CASE Contracts!SoftDelete(h)
  <2>1. contract' = [contract EXCEPT !.deleted = TRUE] /\ Contracts!Return(h)
    BY <1>6 DEF Contracts!SoftDelete
  <2>2. /\ contract' \in Contracts!Rows /\ (~torn => ContractSound(contract'))
        /\ contract'.deleted /\ contract'.status = contract.status /\ contract'.ocr = contract.ocr
    BY <1>0, <2>1 DEF Contracts!Rows, ContractSound
  <2> QED
    BY <2>1, <2>2, ContractReturnKeeps DEF ContractKept
<1>7. CASE Contracts!OcrFind(h)
  <2> DEFINE row == [contract EXCEPT !.ocr = TRUE]
  <2>1. /\ contract' = contract
        /\ IF Contracts!Seen THEN Contracts!Goto(h, "saving") /\ Contracts!Hold(h, Contracts!Entity(row, {}))
           ELSE Contracts!Return(h)
    BY <1>7 DEF Contracts!OcrFind
  <2>2. /\ row \in Contracts!Rows /\ (~torn => ContractSound(row))
        /\ row.status = contract.status /\ row.ocr
    BY <1>0 DEF Contracts!Rows, ContractSound
  <2> HIDE DEF row
  <2>3. CASE Contracts!Seen
    BY <1>c, <2>1, <2>2, <2>3, ContractHoldKeeps
  <2>4. CASE ~Contracts!Seen
    BY <1>0, <2>1, <2>4, ContractReturnKeeps DEF ContractKept, ContractSound
  <2> QED
    BY <2>3, <2>4
<1>8. CASE Contracts!FindAll(h)
  <2>1. contract' = [contract EXCEPT !.status = "expired"] /\ contract.status = "active"
        /\ pc' = pc /\ local' = local /\ pc[h] = "idle"
    BY <1>8 DEF Contracts!FindAll
  <2>2. /\ contract' \in Contracts!Rows /\ (~torn => ContractSound(contract'))
        /\ contract'.deleted = contract.deleted /\ contract'.ocr = contract.ocr
    BY <1>0, <2>1 DEF Contracts!Rows, Contracts!Statuses, ContractSound
  <2> QED
    BY <1>0, <2>1, <2>2 DEF ContractKept, ContractInHand, ContractHeld
<1> QED
  BY <1>1, <1>2, <1>3, <1>4, <1>5, <1>6, <1>7, <1>8, <1>9
     DEF Contracts!HandlerStep

\* Every step keeps the invariant, and does what is said of every step.
LEMMA ContractStepHolds == ContractInv /\ ContractSoloInv /\ [Contracts!Next]_(Contracts!vars) =>
                             ContractInv' /\ ContractSoloInv' /\ Contracts!ContractKept
<1> SUFFICES ASSUME ContractInv, ContractSoloInv, [Contracts!Next]_(Contracts!vars)
             PROVE  ContractInv' /\ ContractSoloInv' /\ Contracts!ContractKept
  OBVIOUS
<1>1. CASE UNCHANGED Contracts!vars
  BY <1>1 DEF Contracts!vars, Contracts!TypeOK, ContractInv, ContractSoloInv, Alone, ContractSound,
     ContractHeld, Contracts!Differing, ContractInHand, Contracts!InFlight, Contracts!ContractKept
<1>2. CASE Contracts!DayPasses
  <2>1. /\ contract' = [contract EXCEPT !.over = TRUE] /\ contract \in Contracts!Rows
        /\ pc' = pc /\ local' = local /\ overlapped' = overlapped /\ torn' = torn
    BY <1>2 DEF Contracts!DayPasses, ContractInv, Contracts!TypeOK
  <2>2. contract' \in Contracts!Rows /\ contract'.status = contract.status /\ contract'.terminatedAt = contract.terminatedAt
        /\ contract'.ocr = contract.ocr /\ contract'.deleted = contract.deleted
    BY <2>1 DEF Contracts!Rows
  <2>5. ASSUME ~torn, NEW h \in Handlers PROVE ContractHeld(h)'
    <3>1. /\ ContractHeld(h) /\ local[h].row \in Contracts!Rows
          /\ DOMAIN contract' = DOMAIN contract
          /\ \A c \in DOMAIN contract : c # "over" => contract'[c] = contract[c]
      BY <2>1, <2>5 DEF ContractInv, Contracts!TypeOK, Contracts!Rows
    <3>2. Contracts!Differing(contract', local[h].row) \subseteq
            Contracts!Differing(contract, local[h].row) \cup {"over"}
      BY <3>1 DEF Contracts!Differing
    <3>3. pc'[h] = pc[h] /\ local'[h] = local[h]
      BY <2>1
    <3>4. pc[h] = "updating" => Contracts!Differing(contract', local[h].row) \subseteq local[h].cols \cup {"over"}
      BY <3>1, <3>2 DEF ContractHeld
    <3> QED
      BY <3>1, <3>3, <3>4 DEF ContractHeld, ContractSound, Contracts!Differing
  <2>3. ContractInv'
    BY <2>1, <2>2, <2>5 DEF ContractInv, Contracts!TypeOK, ContractSound
  <2>4. ContractSoloInv'
    BY <2>1, <2>2 DEF ContractSoloInv, Alone, ContractInHand, Contracts!InFlight
  <2> QED
    BY <2>2, <2>3, <2>4 DEF Contracts!ContractKept
<1>3. ASSUME NEW h \in Handlers, Contracts!HandlerStep(h), Contracts!Overlap(h), Contracts!Tear(h)
      PROVE  ContractInv' /\ ContractSoloInv' /\ Contracts!ContractKept
  <2>1. ContractKept(h)
    BY <1>3, ContractHandlerKeeps
  <2>4. overlapped' \in BOOLEAN /\ torn' \in BOOLEAN
    BY <1>3 DEF ContractInv, Contracts!TypeOK, Contracts!Overlap, Contracts!Tear
  <2>5. ASSUME ~torn', NEW g \in Handlers \ {h}
        PROVE  ContractHeld(g)'
    <3>1. ~torn /\ (pc[g] = "updating" => contract' = contract)
      BY <1>3, <2>5 DEF Contracts!Tear
    <3>2. ContractHeld(g)
      BY <3>1 DEF ContractInv
    <3> QED
      BY <2>1, <3>1, <3>2 DEF ContractKept, ContractHeld, ContractSound, Contracts!Differing
  <2>2. ContractInv'
    BY <1>3, <2>1, <2>4, <2>5 DEF ContractKept, ContractInv, Contracts!TypeOK, Contracts!Tear,
       ContractSound, ContractLocals
  <2>3. ASSUME ~overlapped'
        PROVE  Alone' /\ (\A g \in Handlers : ContractInHand(g)') /\ Contracts!ContractKept
    <3>1. ~overlapped /\ \A g \in Handlers \ {h} : pc[g] = "idle" /\ pc'[g] = "idle"
      BY <1>3, <2>1, <2>3 DEF Contracts!Overlap, Contracts!InFlight, ContractKept
    <3>2. \A g \in Handlers \ {h} : ContractInHand(g)'
      BY <3>1 DEF ContractInHand
    <3>3. Alone'
      BY <3>1 DEF Alone, Contracts!InFlight
    <3> QED
      BY <2>1, <3>1, <3>2, <3>3 DEF ContractKept, ContractSoloInv, Contracts!ContractKept
  <2> QED
    BY <2>2, <2>3 DEF ContractSoloInv, Alone, Contracts!ContractKept
<1> QED
  BY <1>1, <1>2, <1>3 DEF Contracts!Next

\* The invariant is enough.
LEMMA ContractPromised == ContractInv => Contracts!TypeOK /\ Contracts!TerminatedIsDated
  BY DEF ContractInv, ContractSound, Contracts!TerminatedIsDated
-----------------------------------------------------------------------------
(***************************************************************************)
(* locations. The active locations and the handlers that will make one are *)
(* fewer than the quota and all handlers: who creates one has seen fewer   *)
(* active than the quota.                                                  *)
(***************************************************************************)
\* Sizes are those of FiniteSets.
LEMMA LocationCounts ==
  ASSUME NEW S
  PROVE  Locations!Cardinality(S) = Cardinality(S) /\ (Locations!IsFiniteSet(S) <=> IsFiniteSet(S))
  BY DEF Locations!Cardinality, Cardinality, Locations!IsFiniteSet, IsFiniteSet

\* What is assumed of the constants.
LEMMA LocationGiven ==
  /\ LocationQuota \in Nat /\ IsFiniteSet(Handlers) /\ Handlers # {}
  /\ None \notin LocationIds \cup Locations!Rows
  BY OfficeAssumption, LocationCounts DEF Locations!LocationsAssumption

\* What a handler may hold.
LocationLocals == Locations!OrNone(LocationIds \cup Locations!Updates \cup Locations!Assignments)
\* Steps of an assignment.
LocationAssigning == {"assigning", "clearing", "saving", "unassigning"}

\* A handler that will write a row has its id, and a location it removes is there.
LocationHeld(h) ==
  /\ pc[h] = "updating" => local[h] \in Locations!Updates
  /\ pc[h] \in {"counting", "removing"} => local[h] \in LocationIds /\ locations[local[h]] # None
  /\ pc[h] \in LocationAssigning => local[h] \in Locations!Assignments

\* Handlers that will insert an active location.
LocationMaking == {h \in Handlers : pc[h] = "creating"}
\* The active locations and those about to be made.
LocationBounded ==
  /\ IsFiniteSet(Locations!Active)
  /\ switchedOn \/ Cardinality(Locations!Active) + Cardinality(LocationMaking) < LocationQuota + Cardinality(Handlers)

\* What holds however handlers interleave.
LocationInv == Locations!TypeOK /\ LocationBounded /\ \A h \in Handlers : LocationHeld(h)

\* Nobody has two primary places.
LocationOnePlace ==
  \A p \in Staff : \A k, l \in LocationIds :
    assigned[p][k] = "primary" /\ assigned[p][l] = "primary" => k = l
\* Nobody works at a removed location.
LocationStaffed == \A p \in Staff : \A l \in LocationIds : assigned[p][l] # "none" =>
                     Locations!There(l)

\* When handlers do not overlap, what the one at work has read still holds.
LocationInHand(h) ==
  /\ pc[h] = "updating" => Locations!There(local[h].place) /\ ~local[h].row.removed
  /\ pc[h] = "removing" => \A p \in Staff : assigned[p][local[h]] = "none"
  /\ pc[h] \in {"assigning", "clearing", "saving"} => Locations!There(local[h].place)
  /\ pc[h] = "saving" /\ local[h].grade = "primary" =>
       \A l \in LocationIds : assigned[local[h].person][l] = "primary" => l = local[h].place

\* What the tables say of each other.
LocationTables == LocationOnePlace /\ LocationStaffed

\* What holds as long as they do not overlap.
LocationSoloInv == Alone /\ (~overlapped => LocationTables /\ \A h \in Handlers : LocationInHand(h))

\* What a step of h does: it keeps the invariant, as long as h is alone all of
\* it.
LocationKept(h) ==
  /\ locations' \in [LocationIds -> Locations!OrNone(Locations!Rows)]
  /\ assigned' \in [Staff -> [LocationIds -> Locations!Grades]] /\ switchedOn' \in BOOLEAN
  /\ pc' \in [Handlers -> Locations!Steps] /\ local' \in [Handlers -> LocationLocals]
  /\ LocationHeld(h)' /\ LocationBounded'
  /\ \A g \in Handlers \ {h} : pc'[g] = pc[g] /\ local'[g] = local[g]
  /\ \A l \in LocationIds : locations[l] # None => locations'[l] # None
  /\ LocationTables /\ LocationInHand(h) => LocationTables' /\ LocationInHand(h)'

\* The initial states have the invariant.
LEMMA LocationInitHolds == Locations!Init => LocationInv /\ LocationSoloInv
<1> SUFFICES ASSUME Locations!Init PROVE LocationInv /\ LocationSoloInv
  OBVIOUS
<1>1. /\ overlapped = FALSE /\ switchedOn = FALSE
      /\ \A h \in Handlers : pc[h] = "idle" /\ local[h] = None
      /\ \A l \in LocationIds : locations[l] = None
      /\ \A p \in Staff : \A l \in LocationIds : assigned[p][l] = "none"
  BY DEF Locations!Init, Locations!AllIdle
<1>2. overlapped \in BOOLEAN /\ switchedOn \in BOOLEAN
  BY <1>1, Zenon
<1>3. Locations!TypeOK
  BY <1>2 DEF Locations!Init, Locations!AllIdle, Locations!TypeOK, Locations!Steps,
     Locations!OrNone, Locations!Grades
<1>4. LocationBounded
  <2>1. Locations!Active = {} /\ LocationMaking = {}
    BY <1>1 DEF Locations!Active, Locations!There, LocationMaking
  <2>2. IsFiniteSet({}) /\ Cardinality({}) = 0
    BY FS_EmptySet
  <2>3. Cardinality(Handlers) \in Nat /\ Cardinality(Handlers) # 0
    BY LocationGiven, FS_CardinalityType, FS_EmptySet
  <2> QED
    BY LocationGiven, <2>1, <2>2, <2>3 DEF LocationBounded
<1>5. LocationTables
  BY <1>1 DEF LocationTables, LocationOnePlace, LocationStaffed
<1> QED
  BY <1>1, <1>3, <1>4, <1>5 DEF LocationInv, LocationSoloInv, Alone, Locations!InFlight,
     LocationInHand, LocationHeld, LocationAssigning

\* A handler that goes on takes what it has read with it; the others stay.
LEMMA LocationMoved ==
  ASSUME LocationInv, NEW h \in Handlers, NEW step \in Locations!Steps, NEW read \in LocationLocals,
         Locations!Goto(h, step), local' = [local EXCEPT ![h] = read]
  PROVE  /\ pc' \in [Handlers -> Locations!Steps] /\ local' \in [Handlers -> LocationLocals]
         /\ pc'[h] = step /\ local'[h] = read
         /\ \A g \in Handlers \ {h} : pc'[g] = pc[g] /\ local'[g] = local[g]
  BY DEF LocationInv, Locations!TypeOK, Locations!Goto, LocationLocals

\* A handler that returns holds nothing; the others stay.
LEMMA LocationReturned ==
  ASSUME LocationInv, NEW h \in Handlers, Locations!Return(h)
  PROVE  /\ pc' \in [Handlers -> Locations!Steps] /\ local' \in [Handlers -> LocationLocals]
         /\ LocationHeld(h)' /\ LocationInHand(h)' /\ pc'[h] = "idle" /\ local'[h] = None
         /\ \A g \in Handlers \ {h} : pc'[g] = pc[g] /\ local'[g] = local[g]
<1>1. /\ pc' \in [Handlers -> Locations!Steps] /\ local' \in [Handlers -> LocationLocals]
      /\ pc'[h] = "idle"
      /\ local'[h] = None
      /\ \A g \in Handlers \ {h} : pc'[g] = pc[g] /\ local'[g] = local[g]
  BY LocationMoved DEF Locations!Return, Locations!Hold, Locations!Steps, LocationLocals,
     Locations!OrNone
<1>2. LocationHeld(h)' /\ LocationInHand(h)'
  BY <1>1 DEF LocationHeld, LocationInHand, LocationAssigning
<1> QED
  BY <1>1, <1>2

\* The sizes that are compared.
LEMMA LocationSizes ==
  ASSUME LocationInv
  PROVE  /\ IsFiniteSet(Locations!Active) /\ Cardinality(Locations!Active) \in Nat
         /\ IsFiniteSet(LocationMaking) /\ Cardinality(LocationMaking) \in Nat
         /\ Cardinality(LocationMaking) <= Cardinality(Handlers)
         /\ Cardinality(Handlers) \in Nat /\ LocationQuota \in Nat
<1>1. IsFiniteSet(Handlers) /\ LocationQuota \in Nat
  BY LocationGiven
<1>2. LocationMaking \subseteq Handlers
  BY DEF LocationMaking
<1> QED
  BY <1>1, <1>2, FS_Subset, FS_CardinalityType DEF LocationInv, LocationBounded

\* A step that makes no location active, and creates none, keeps the bound.
LEMMA LocationFewerKeep ==
  ASSUME LocationInv, Locations!Active' \subseteq Locations!Active,
         LocationMaking' \subseteq LocationMaking, switchedOn => switchedOn'
  PROVE  LocationBounded'
<1> DEFINE A == Locations!Active'
           M == LocationMaking'
<1>1. /\ IsFiniteSet(A) /\ Cardinality(A) <= Cardinality(Locations!Active)
      /\ IsFiniteSet(M) /\ Cardinality(M) <= Cardinality(LocationMaking)
  BY LocationSizes, FS_Subset
<1>2. Cardinality(A) \in Nat /\ Cardinality(M) \in Nat
  BY <1>1, FS_CardinalityType
<1> QED
  BY <1>1, <1>2, LocationSizes DEF LocationInv, LocationBounded

\* A step that leaves the locations alone keeps the bound.
LEMMA LocationSamePlaces ==
  ASSUME LocationInv, NEW h \in Handlers, locations' = locations, switchedOn' = switchedOn,
         \A g \in Handlers \ {h} : pc'[g] = pc[g], pc'[h] # "creating"
  PROVE  LocationBounded'
<1>1. Locations!Active' = Locations!Active /\ LocationMaking' \subseteq LocationMaking
  BY DEF Locations!Active, Locations!There, LocationMaking
<1> QED
  BY <1>1, LocationFewerKeep

\* The active locations are counted.
LEMMA LocationCreateKeeps ==
  ASSUME LocationInv, NEW h \in Handlers, Locations!Create(h)
  PROVE  LocationKept(h)
<1>1. /\ pc[h] = "idle" /\ Locations!Goto(h, "creating") /\ local' = [local EXCEPT ![h] = None]
      /\ locations' = locations /\ assigned' = assigned /\ switchedOn' = switchedOn
      /\ Cardinality(Locations!Active) < LocationQuota
  BY LocationCounts DEF Locations!Create, Locations!Begin, Locations!Hold
<1>2. /\ pc' \in [Handlers -> Locations!Steps] /\ local' \in [Handlers -> LocationLocals]
      /\ pc'[h] = "creating" /\ local'[h] = None
      /\ \A g \in Handlers \ {h} : pc'[g] = pc[g] /\ local'[g] = local[g]
  BY <1>1, LocationMoved DEF Locations!Steps, LocationLocals, Locations!OrNone
<1>3. LocationHeld(h)' /\ LocationInHand(h)'
  BY <1>2 DEF LocationHeld, LocationInHand, LocationAssigning
<1>4. Locations!Active' = Locations!Active
  BY <1>1 DEF Locations!Active, Locations!There
<1>5. Cardinality(LocationMaking') \in Nat /\ Cardinality(LocationMaking') <= Cardinality(Handlers)
  <2>1. IsFiniteSet(Handlers) /\ LocationMaking' \subseteq Handlers
    BY LocationGiven DEF LocationMaking
  <2> QED
    BY <2>1, FS_Subset, FS_CardinalityType
<1>6. LocationBounded'
  BY <1>1, <1>4, <1>5, LocationSizes DEF LocationBounded
<1>7. LocationTables => LocationTables'
  BY <1>1 DEF LocationTables, LocationOnePlace, LocationStaffed, Locations!There
<1> QED
  BY <1>1, <1>2, <1>3, <1>6, <1>7 DEF LocationKept, LocationInv, Locations!TypeOK

\* A location is inserted.
LEMMA LocationCreateSaveKeeps ==
  ASSUME LocationInv, NEW h \in Handlers, Locations!CreateSave(h)
  PROVE  LocationKept(h)
<1> DEFINE row == [active |-> TRUE, removed |-> FALSE]
<1>1. PICK l \in LocationIds : locations[l] = None /\ locations' = [locations EXCEPT ![l] = row]
  BY DEF Locations!CreateSave
<1>2. row \in Locations!Rows /\ row.active = TRUE /\ row.removed = FALSE /\ row # None
  <2>1. row \in Locations!Rows /\ row.active = TRUE /\ row.removed = FALSE
    BY DEF Locations!Rows
  <2> HIDE DEF row
  <2> QED
    BY LocationGiven, <2>1
<1> HIDE DEF row
<1>3. locations \in [LocationIds -> Locations!OrNone(Locations!Rows)]
  BY DEF LocationInv, Locations!TypeOK
<1>4. /\ locations' \in [LocationIds -> Locations!OrNone(Locations!Rows)] /\ locations'[l] = row
      /\ \A k \in LocationIds \ {l} : locations'[k] = locations[k]
  BY <1>1, <1>2, <1>3 DEF Locations!OrNone
<1>5. pc[h] = "creating" /\ Locations!Return(h) /\ assigned' = assigned /\ switchedOn' = switchedOn
  BY DEF Locations!CreateSave
<1>6. Locations!Active' = Locations!Active \cup {l} /\ l \notin Locations!Active
  BY <1>1, <1>2, <1>4 DEF Locations!Active, Locations!There
<1>7. LocationMaking' = LocationMaking \ {h} /\ h \in LocationMaking
  BY <1>5, LocationReturned DEF LocationMaking
<1>8. LocationBounded'
  <2>1. /\ IsFiniteSet(Locations!Active')
        /\ Cardinality(Locations!Active') = Cardinality(Locations!Active) + 1
    BY <1>6, LocationSizes, FS_AddElement
  <2>2. Cardinality(LocationMaking') = Cardinality(LocationMaking) - 1
    BY <1>7, LocationSizes, FS_RemoveElement
  <2> QED
    BY <1>5, <2>1, <2>2, LocationSizes DEF LocationInv, LocationBounded
<1>9. LocationTables => LocationTables'
  BY <1>1, <1>4, <1>5 DEF LocationTables, LocationOnePlace, LocationStaffed, Locations!There
<1> QED
  BY <1>1, <1>2, <1>4, <1>5, <1>8, <1>9, LocationReturned DEF LocationKept, LocationInv,
     Locations!TypeOK

\* A location is read.
LEMMA LocationUpdateKeeps ==
  ASSUME LocationInv, NEW h \in Handlers, NEW l \in LocationIds, Locations!Update(h, l)
  PROVE  LocationKept(h)
<1>1. PICK active \in BOOLEAN :
        Locations!Begin(h, "updating", [place |-> l, row |-> [locations[l] EXCEPT !.active = active]])
  BY DEF Locations!Update
<1> DEFINE row == [locations[l] EXCEPT !.active = active]
           read == [place |-> l, row |-> row]
<1>2. Locations!There(l) /\ locations[l] \in Locations!Rows
  BY DEF Locations!Update, Locations!There, LocationInv, Locations!TypeOK, Locations!OrNone
<1>3. row \in Locations!Rows /\ row.removed = locations[l].removed
  BY <1>2 DEF Locations!Rows
<1> HIDE DEF row
<1>4. read \in Locations!Updates /\ read.place = l /\ read.row = row
  BY <1>3 DEF Locations!Updates
<1>5. read \in LocationLocals
  BY <1>4 DEF LocationLocals, Locations!OrNone
<1>6. /\ pc[h] = "idle" /\ Locations!Goto(h, "updating") /\ local' = [local EXCEPT ![h] = read]
      /\ locations' = locations /\ assigned' = assigned /\ switchedOn' = switchedOn
  BY <1>1 DEF Locations!Begin, Locations!Hold, row
<1> HIDE DEF read
<1>7. /\ pc' \in [Handlers -> Locations!Steps] /\ local' \in [Handlers -> LocationLocals]
      /\ pc'[h] = "updating" /\ local'[h] = read
      /\ \A g \in Handlers \ {h} : pc'[g] = pc[g] /\ local'[g] = local[g]
  BY <1>5, <1>6, LocationMoved DEF Locations!Steps
<1>8. LocationHeld(h)' /\ LocationInHand(h)'
  BY <1>2, <1>3, <1>4, <1>6, <1>7 DEF LocationHeld, LocationInHand, LocationAssigning,
     Locations!There
<1>9. LocationBounded' /\ (LocationTables => LocationTables')
  BY <1>6, <1>7, LocationSamePlaces DEF LocationTables, LocationOnePlace, LocationStaffed,
     Locations!There
<1> QED
  BY <1>6, <1>7, <1>8, <1>9 DEF LocationKept, LocationInv, Locations!TypeOK

\* A location is saved.
LEMMA LocationUpdateSaveKeeps ==
  ASSUME LocationInv, NEW h \in Handlers, Locations!UpdateSave(h)
  PROVE  LocationKept(h)
<1>1. /\ pc[h] = "updating" /\ Locations!Return(h) /\ assigned' = assigned
      /\ local[h] \in Locations!Updates
      /\ locations' = [locations EXCEPT ![local[h].place] = local[h].row]
      /\ switchedOn' = (switchedOn \/ local[h].place \in Locations!Active' \ Locations!Active)
  BY DEF Locations!UpdateSave, LocationInv, LocationHeld
<1>2. PICK l \in LocationIds, row \in Locations!Rows : l = local[h].place /\ row = local[h].row
  BY <1>1 DEF Locations!Updates
<1>3. /\ locations \in [LocationIds -> Locations!OrNone(Locations!Rows)]
      /\ switchedOn \in BOOLEAN /\ row # None
  BY LocationGiven DEF LocationInv, Locations!TypeOK
<1>4. /\ locations' \in [LocationIds -> Locations!OrNone(Locations!Rows)] /\ locations'[l] = row
      /\ \A k \in LocationIds \ {l} : locations'[k] = locations[k]
      /\ switchedOn' \in BOOLEAN
  BY <1>1, <1>2, <1>3 DEF Locations!OrNone
<1>5. Locations!Active' \subseteq Locations!Active \cup {l}
  BY <1>4 DEF Locations!Active, Locations!There
<1>6. LocationMaking' \subseteq LocationMaking
  BY <1>1, LocationReturned DEF LocationMaking
<1>7. LocationBounded'
  <2>1. CASE l \in Locations!Active' \ Locations!Active
    <3>1. switchedOn'
      BY <1>1, <1>2, <2>1
    <3>2. IsFiniteSet(Locations!Active')
      BY <1>5, LocationSizes, FS_AddElement, FS_Subset
    <3> QED
      BY <3>1, <3>2 DEF LocationBounded
  <2>2. CASE l \notin Locations!Active' \ Locations!Active
    BY <1>1, <1>5, <1>6, <2>2, LocationFewerKeep
  <2> QED
    BY <2>1, <2>2
<1>8. LocationTables /\ LocationInHand(h) => LocationTables'
  BY <1>1, <1>2, <1>3, <1>4 DEF LocationTables, LocationOnePlace, LocationStaffed, Locations!There,
     LocationInHand
<1> QED
  BY <1>1, <1>3, <1>4, <1>7, <1>8, LocationReturned DEF LocationKept, LocationInv, Locations!TypeOK

\* The people of a location are counted.
LEMMA LocationDeleteKeeps ==
  ASSUME LocationInv, NEW h \in Handlers,
         Locations!CountAssigned(h) \/ \E l \in LocationIds : Locations!Delete(h, l)
  PROVE  LocationKept(h)
<1>0. /\ locations' = locations /\ assigned' = assigned /\ switchedOn' = switchedOn
      /\ locations \in [LocationIds -> Locations!OrNone(Locations!Rows)]
      /\ assigned \in [Staff -> [LocationIds -> Locations!Grades]] /\ switchedOn \in BOOLEAN
      /\ pc \in [Handlers -> Locations!Steps] /\ local \in [Handlers -> LocationLocals]
      /\ LocationHeld(h)
  BY DEF Locations!CountAssigned, Locations!Delete, Locations!Begin, LocationInv, Locations!TypeOK,
     LocationLocals
<1>1. LocationTables => LocationTables'
  BY <1>0 DEF LocationTables, LocationOnePlace, LocationStaffed, Locations!There
<1>2. ASSUME NEW l \in LocationIds, Locations!Delete(h, l)
      PROVE  LocationKept(h)
  <2>1. /\ l \in LocationLocals /\ Locations!Goto(h, "counting")
        /\ local' = [local EXCEPT ![h] = l] /\ Locations!There(l)
    BY <1>2 DEF Locations!Delete, Locations!Begin, Locations!Hold, LocationLocals, Locations!OrNone
  <2>2. /\ pc' \in [Handlers -> Locations!Steps] /\ local' \in [Handlers -> LocationLocals]
        /\ pc'[h] = "counting" /\ local'[h] = l
        /\ \A g \in Handlers \ {h} : pc'[g] = pc[g] /\ local'[g] = local[g]
    BY <2>1, LocationMoved DEF Locations!Steps
  <2>3. LocationHeld(h)' /\ LocationInHand(h)'
    BY <1>0, <2>1, <2>2 DEF LocationHeld, LocationInHand, LocationAssigning, Locations!There
  <2>4. LocationBounded'
    BY <1>0, <2>2, LocationSamePlaces
  <2> QED
    BY <1>0, <1>1, <2>2, <2>3, <2>4 DEF LocationKept
<1>3. CASE Locations!CountAssigned(h)
  <2>1. CASE Locations!Return(h)
    <3>1. LocationBounded'
      BY <1>0, <2>1, LocationReturned, LocationSamePlaces
    <3> QED
      BY <1>0, <1>1, <2>1, <3>1, LocationReturned DEF LocationKept
  <2>2. CASE /\ Locations!Goto(h, "removing") /\ local' = local
             /\ \A p \in Staff : assigned[p][local[h]] = "none"
    <3>1. /\ pc' \in [Handlers -> Locations!Steps] /\ pc'[h] = "removing" /\ pc[h] = "counting"
          /\ \A g \in Handlers \ {h} : pc'[g] = pc[g]
      BY <1>0, <1>3, <2>2 DEF Locations!Goto, Locations!Steps, Locations!CountAssigned
    <3>2. LocationHeld(h)' /\ LocationInHand(h)'
      BY <1>0, <2>2, <3>1 DEF LocationHeld, LocationInHand, LocationAssigning
    <3>3. LocationBounded'
      BY <1>0, <3>1, LocationSamePlaces
    <3> QED
      BY <1>0, <1>1, <2>2, <3>1, <3>2, <3>3 DEF LocationKept
  <2> QED
    BY <1>3, <2>1, <2>2 DEF Locations!CountAssigned
<1> QED
  BY <1>2, <1>3

\* A location is removed.
LEMMA LocationSoftDeleteKeeps ==
  ASSUME LocationInv, NEW h \in Handlers, Locations!SoftDelete(h)
  PROVE  LocationKept(h)
<1>1. /\ pc[h] = "removing" /\ Locations!Return(h) /\ assigned' = assigned
      /\ switchedOn' = switchedOn
      /\ local[h] \in LocationIds /\ locations[local[h]] # None
      /\ locations' = [locations EXCEPT ![local[h]].removed = TRUE]
  BY DEF Locations!SoftDelete, LocationInv, LocationHeld
<1>2. PICK l \in LocationIds : l = local[h]
  BY <1>1
<1> DEFINE row == [locations[l] EXCEPT !.removed = TRUE]
<1>3. /\ locations \in [LocationIds -> Locations!OrNone(Locations!Rows)]
      /\ locations[l] \in Locations!Rows
  BY <1>1, <1>2 DEF LocationInv, Locations!TypeOK, Locations!OrNone
<1>4. row \in Locations!Rows /\ row.removed = TRUE /\ row # None
  <2>1. row \in Locations!Rows /\ row.removed = TRUE
    BY <1>3 DEF Locations!Rows
  <2> QED
    BY LocationGiven, <2>1
<1> HIDE DEF row
<1>5. locations' = [locations EXCEPT ![l] = row]
  BY <1>1, <1>2 DEF row
<1>6. /\ locations' \in [LocationIds -> Locations!OrNone(Locations!Rows)] /\ locations'[l] = row
      /\ \A k \in LocationIds \ {l} : locations'[k] = locations[k]
  BY <1>3, <1>4, <1>5 DEF Locations!OrNone
<1>7. Locations!Active' \subseteq Locations!Active /\ LocationMaking' \subseteq LocationMaking
  BY <1>1, <1>4, <1>6, LocationReturned DEF Locations!Active, Locations!There, LocationMaking
<1>8. LocationBounded'
  BY <1>1, <1>7, LocationFewerKeep
<1>9. LocationTables /\ LocationInHand(h) => LocationTables'
  BY <1>1, <1>2, <1>6 DEF LocationTables, LocationOnePlace, LocationStaffed, Locations!There,
     LocationInHand
<1> QED
  BY <1>1, <1>4, <1>6, <1>8, <1>9, LocationReturned DEF LocationKept, LocationInv, Locations!TypeOK

\* A location is found for an assignment.
LEMMA LocationAssignKeeps ==
  ASSUME LocationInv, NEW h \in Handlers, NEW l \in LocationIds, NEW p \in Staff,
         Locations!Assign(h, l, p) \/ Locations!Unassign(h, l, p)
  PROVE  LocationKept(h)
<1>1. PICK grade \in Locations!Grades, step \in {"assigning", "unassigning"} :
        Locations!Begin(h, step, [place |-> l, person |-> p, grade |-> grade])
  BY DEF Locations!Assign, Locations!Unassign, Locations!Grades
<1> DEFINE read == [place |-> l, person |-> p, grade |-> grade]
<1>2. read \in Locations!Assignments /\ read.place = l
  BY DEF Locations!Assignments
<1>3. /\ pc[h] = "idle" /\ Locations!Goto(h, step) /\ local' = [local EXCEPT ![h] = read]
      /\ locations' = locations /\ assigned' = assigned /\ switchedOn' = switchedOn
      /\ Locations!There(l)
  BY <1>1 DEF Locations!Begin, Locations!Hold, Locations!Assign, Locations!Unassign
<1> HIDE DEF read
<1>4. /\ pc' \in [Handlers -> Locations!Steps] /\ local' \in [Handlers -> LocationLocals]
      /\ pc'[h] = step /\ local'[h] = read
      /\ \A g \in Handlers \ {h} : pc'[g] = pc[g] /\ local'[g] = local[g]
  BY <1>2, <1>3, LocationMoved DEF Locations!Steps, LocationLocals, Locations!OrNone
<1>5. LocationHeld(h)' /\ LocationInHand(h)'
  BY <1>2, <1>3, <1>4 DEF LocationHeld, LocationInHand, LocationAssigning, Locations!There
<1>6. LocationBounded' /\ (LocationTables => LocationTables')
  BY <1>3, <1>4, LocationSamePlaces DEF LocationTables, LocationOnePlace, LocationStaffed,
     Locations!There
<1> QED
  BY <1>3, <1>4, <1>5, <1>6 DEF LocationKept, LocationInv, Locations!TypeOK

\* The assignment is read.
LEMMA LocationFindAssignedKeeps ==
  ASSUME LocationInv, NEW h \in Handlers, Locations!FindAssigned(h)
  PROVE  LocationKept(h)
<1> DEFINE asked == local[h]
           had == assigned[asked.person][asked.place]
           kept == IF had = "none" THEN "secondary" ELSE had
           read == [asked EXCEPT !.grade = IF @ = "none" THEN kept ELSE @]
           step == IF local[h].grade = "primary" THEN "clearing" ELSE "saving"
<1>1. /\ pc[h] = "assigning" /\ asked \in Locations!Assignments /\ Locations!Goto(h, step)
      /\ local' = [local EXCEPT ![h] = read]
      /\ locations' = locations /\ assigned' = assigned /\ switchedOn' = switchedOn
  BY DEF Locations!FindAssigned, Locations!Hold, LocationInv, LocationHeld, LocationAssigning
<1>2. /\ asked.person \in Staff /\ asked.place \in LocationIds /\ asked.grade \in Locations!Grades
      /\ assigned \in [Staff -> [LocationIds -> Locations!Grades]]
  BY <1>1 DEF Locations!Assignments, LocationInv, Locations!TypeOK
<1>3. /\ read \in Locations!Assignments /\ read.person = asked.person /\ read.place = asked.place
      /\ asked.grade # "primary" /\ read.grade = "primary" =>
           assigned[asked.person][asked.place] = "primary"
  <2>1. /\ had \in Locations!Grades /\ kept \in Locations!Grades
        /\ (kept = "primary" => had = "primary")
    BY <1>2 DEF Locations!Grades
  <2> HIDE DEF had, kept
  <2>2. /\ read \in Locations!Assignments /\ read.person = asked.person /\ read.place = asked.place
        /\ read.grade = IF asked.grade = "none" THEN kept ELSE asked.grade
    BY <1>1, <2>1 DEF Locations!Assignments
  <2> QED
    BY <2>1, <2>2 DEF had
<1>4. /\ step \in {"clearing", "saving"} /\ step \in Locations!Steps
      /\ (step = "saving" => asked.grade # "primary")
  BY DEF Locations!Steps
<1> HIDE DEF read, step
<1>5. /\ pc' \in [Handlers -> Locations!Steps] /\ local' \in [Handlers -> LocationLocals]
      /\ pc'[h] = step /\ local'[h] = read
      /\ \A g \in Handlers \ {h} : pc'[g] = pc[g] /\ local'[g] = local[g]
  BY <1>1, <1>3, <1>4, LocationMoved DEF LocationLocals, Locations!OrNone
<1>6. LocationHeld(h)'
  BY <1>3, <1>4, <1>5 DEF LocationHeld, LocationAssigning
<1>7. LocationTables /\ LocationInHand(h) => LocationInHand(h)'
  <2> SUFFICES ASSUME LocationTables, LocationInHand(h) PROVE LocationInHand(h)'
    OBVIOUS
  <2>1. Locations!There(local[h].place) /\ locations' = locations
    BY <1>1 DEF LocationInHand
  <2>2. ASSUME step = "saving", read.grade = "primary", NEW l \in LocationIds,
               assigned[asked.person][l] = "primary"
        PROVE  l = asked.place
    BY <1>2, <1>3, <1>4, <2>2 DEF LocationTables, LocationOnePlace
  <2> QED
    BY <1>1, <1>3, <1>4, <1>5, <2>1, <2>2 DEF LocationInHand, Locations!There
<1>8. LocationBounded' /\ (LocationTables => LocationTables')
  BY <1>1, <1>4, <1>5, LocationSamePlaces DEF LocationTables, LocationOnePlace, LocationStaffed,
     Locations!There
<1> QED
  BY <1>1, <1>5, <1>6, <1>7, <1>8 DEF LocationKept, LocationInv, Locations!TypeOK

\* Other primary places are cleared.
LEMMA LocationClearPrimaryKeeps ==
  ASSUME LocationInv, NEW h \in Handlers, Locations!ClearPrimary(h)
  PROVE  LocationKept(h)
<1>1. /\ pc[h] = "clearing" /\ local[h] \in Locations!Assignments /\ Locations!Goto(h, "saving")
      /\ locations' = locations /\ switchedOn' = switchedOn /\ local' = local
      /\ assigned' = [assigned EXCEPT ![local[h].person] =
                        [l \in LocationIds |-> IF @[l] = "primary" THEN "secondary" ELSE @[l]]]
  BY DEF Locations!ClearPrimary, LocationInv, LocationHeld, LocationAssigning
<1>2. PICK p \in Staff : p = local[h].person
  BY <1>1 DEF Locations!Assignments
<1>3. assigned \in [Staff -> [LocationIds -> Locations!Grades]]
  BY DEF LocationInv, Locations!TypeOK
<1>4. /\ assigned' \in [Staff -> [LocationIds -> Locations!Grades]]
      /\ \A q \in Staff \ {p} : assigned'[q] = assigned[q]
      /\ \A l \in LocationIds :
           assigned'[p][l] # "primary" /\ (assigned[p][l] = "none" => assigned'[p][l] = "none")
  BY <1>1, <1>2, <1>3 DEF Locations!Grades
<1>5. /\ pc' \in [Handlers -> Locations!Steps] /\ pc'[h] = "saving"
      /\ \A g \in Handlers \ {h} : pc'[g] = pc[g]
  BY <1>1 DEF LocationInv, Locations!TypeOK, Locations!Goto, Locations!Steps
<1>6. LocationHeld(h)' /\ (LocationInHand(h) => LocationInHand(h)')
  BY <1>1, <1>2, <1>4, <1>5 DEF LocationHeld, LocationInHand, LocationAssigning, Locations!There
<1>7. LocationBounded'
  BY <1>1, <1>5, LocationSamePlaces
<1>8. LocationTables => LocationTables'
  BY <1>1, <1>4 DEF LocationTables, LocationOnePlace, LocationStaffed, Locations!There
<1> QED
  BY <1>1, <1>4, <1>5, <1>6, <1>7, <1>8 DEF LocationKept, LocationInv, Locations!TypeOK,
     LocationLocals

\* The assignment is written.
LEMMA LocationAssignSaveKeeps ==
  ASSUME LocationInv, NEW h \in Handlers, Locations!AssignSave(h) \/ Locations!UnassignDelete(h)
  PROVE  LocationKept(h)
<1>1. PICK grade \in Locations!Grades :
        /\ pc[h] \in {"saving", "unassigning"} /\ local[h] \in Locations!Assignments
        /\ Locations!Return(h)
        /\ locations' = locations /\ switchedOn' = switchedOn
        /\ assigned' = [assigned EXCEPT ![local[h].person][local[h].place] = grade]
        /\ grade # "none" => pc[h] = "saving" /\ grade = local[h].grade
  <2>1. CASE Locations!AssignSave(h)
    BY <2>1 DEF Locations!AssignSave, LocationInv, LocationHeld, LocationAssigning,
       Locations!Assignments
  <2>2. CASE Locations!UnassignDelete(h)
    BY <2>2 DEF Locations!UnassignDelete, LocationInv, LocationHeld, LocationAssigning,
       Locations!Grades
  <2> QED
    BY <2>1, <2>2
<1>2. PICK p \in Staff, k \in LocationIds : p = local[h].person /\ k = local[h].place
  BY <1>1 DEF Locations!Assignments
<1>3. assigned \in [Staff -> [LocationIds -> Locations!Grades]]
  BY DEF LocationInv, Locations!TypeOK
<1>4. /\ assigned' \in [Staff -> [LocationIds -> Locations!Grades]]
      /\ \A q \in Staff \ {p} : assigned'[q] = assigned[q]
      /\ assigned'[p][k] = grade
      /\ \A l \in LocationIds \ {k} : assigned'[p][l] = assigned[p][l]
  BY <1>1, <1>2, <1>3
<1>5. LocationBounded'
  BY <1>1, LocationReturned, LocationSamePlaces
<1>6. LocationTables /\ LocationInHand(h) => LocationTables'
  <2> SUFFICES ASSUME LocationTables, LocationInHand(h) PROVE LocationTables'
    OBVIOUS
  <2>1. LocationStaffed'
    BY <1>1, <1>2, <1>4 DEF LocationTables, LocationStaffed, Locations!There, LocationInHand
  <2>2. LocationOnePlace'
    BY <1>1, <1>2, <1>4 DEF LocationTables, LocationOnePlace, LocationInHand
  <2> QED
    BY <2>1, <2>2 DEF LocationTables
<1> QED
  BY <1>1, <1>4, <1>5, <1>6, LocationReturned DEF LocationKept, LocationInv, Locations!TypeOK

\* Every step keeps the invariant, and does what is said of every step.
LEMMA LocationStepHolds == LocationInv /\ LocationSoloInv /\ [Locations!Next]_(Locations!vars) =>
                             LocationInv' /\ LocationSoloInv'
<1> SUFFICES ASSUME LocationInv, LocationSoloInv, [Locations!Next]_(Locations!vars)
             PROVE  LocationInv' /\ LocationSoloInv'
  OBVIOUS
<1>1. CASE UNCHANGED Locations!vars
  <2>1. LocationInv'
    BY <1>1 DEF Locations!vars, LocationInv, Locations!TypeOK, LocationHeld, LocationBounded,
       Locations!Active, Locations!There, LocationMaking
  <2>2. LocationSoloInv'
    BY <1>1 DEF Locations!vars, LocationSoloInv, Alone, Locations!InFlight, LocationTables,
       LocationOnePlace, LocationStaffed, Locations!There, LocationInHand
  <2> QED
    BY <2>1, <2>2
<1>2. ASSUME NEW h \in Handlers, Locations!HandlerStep(h), Locations!Overlap(h)
      PROVE  LocationInv' /\ LocationSoloInv'
  <2>1. LocationKept(h)
    BY <1>2, LocationCreateKeeps, LocationCreateSaveKeeps, LocationUpdateKeeps,
       LocationUpdateSaveKeeps, LocationDeleteKeeps,
       LocationSoftDeleteKeeps, LocationAssignKeeps, LocationFindAssignedKeeps,
       LocationClearPrimaryKeeps, LocationAssignSaveKeeps
       DEF Locations!HandlerStep
  <2>2. LocationInv'
    <3>1. overlapped' \in BOOLEAN
      BY <1>2 DEF Locations!Overlap, LocationInv, Locations!TypeOK
    <3>2. \A g \in Handlers : LocationHeld(g)'
      BY <2>1 DEF LocationKept, LocationInv, LocationHeld
    <3> QED
      BY <2>1, <3>1, <3>2 DEF LocationKept, LocationInv, Locations!TypeOK, LocationLocals
  <2>3. ASSUME ~overlapped'
        PROVE  Alone' /\ LocationTables' /\ \A g \in Handlers : LocationInHand(g)'
    <3>1. ~overlapped /\ \A g \in Handlers \ {h} : pc[g] = "idle" /\ pc'[g] = "idle"
      BY <1>2, <2>1, <2>3 DEF Locations!Overlap, Locations!InFlight, LocationKept
    <3>2. \A g \in Handlers \ {h} : LocationInHand(g)'
      BY <3>1 DEF LocationInHand
    <3>3. Alone'
      BY <3>1 DEF Alone, Locations!InFlight
    <3>4. LocationTables /\ LocationInHand(h)
      BY <3>1 DEF LocationSoloInv
    <3> QED
      BY <2>1, <3>2, <3>3, <3>4 DEF LocationKept
  <2>4. LocationSoloInv'
    BY <2>3 DEF LocationSoloInv, Alone
  <2> QED
    BY <2>2, <2>4
<1> QED
  BY <1>1, <1>2 DEF Locations!Next

\* The invariant is enough.
LEMMA LocationPromised == LocationInv /\ LocationSoloInv =>
                            Locations!TypeOK /\ Locations!QuotaKept /\ Locations!OnePrimary
<1> SUFFICES ASSUME LocationInv, LocationSoloInv PROVE Locations!QuotaKept /\ Locations!OnePrimary
  BY DEF LocationInv
<1>1. Locations!QuotaKept
  BY LocationSizes, LocationCounts DEF LocationInv, LocationBounded, Locations!QuotaKept
<1>2. Locations!OnePrimary
  BY DEF LocationSoloInv, LocationTables, LocationOnePlace, LocationStaffed, Locations!OnePrimary
<1> QED
  BY <1>1, <1>2
-----------------------------------------------------------------------------
(***************************************************************************)
(* payments. Orders are of one handler each until they are recorded; the   *)
(* uses of the coupon and the handlers that have found it valid are fewer  *)
(* than its limit and all handlers.                                        *)
(***************************************************************************)
\* Sizes are those of FiniteSets.
LEMMA PaymentCounts ==
  ASSUME NEW S
  PROVE  Payments!Cardinality(S) = Cardinality(S) /\ (Payments!IsFiniteSet(S) <=> IsFiniteSet(S))
  BY DEF Payments!Cardinality, Cardinality, Payments!IsFiniteSet, IsFiniteSet

\* What is assumed of the constants.
LEMMA PaymentGiven ==
  /\ CouponLimit \in Nat /\ IsFiniteSet(Handlers) /\ Handlers # {}
  /\ None \notin PaymentIds \cup Payments!Rows
  BY OfficeAssumption, PaymentCounts DEF Payments!PaymentsAssumption

\* What a handler may hold.
PaymentLocals == Payments!OrNone(Payments!Orders \cup Payments!Refunds)

\* What a handler in flight has in hand, and what the rows say of it.
PaymentHeld(h) ==
  /\ pc[h] \in {"charging", "recording"} => local[h] \in Payments!Orders
  /\ pc[h] \in {"refunding", "noting"} => local[h] \in Payments!Refunds
  /\ \A o \in PaymentIds : local[h].order = o =>
       /\ pc[h] = "recording" => o \in charged /\ payments[o] = None
       /\ pc[h] \in {"refunding", "noting"} => payments[o] # None
       /\ pc[h] = "noting" => back[o] # "nothing"
  /\ pc[h] = "recording" => local[h].order \in PaymentIds

\* No two handlers record one order.
PaymentDistinct ==
  \A g, h \in Handlers : \A o \in PaymentIds :
    /\ pc[g] = "recording" /\ local[g].order = o
    /\ pc[h] = "recording" /\ local[h].order = o
    => g = h

\* What the rows say of Toss.
PaymentHonest ==
  \A o \in PaymentIds :
    /\ payments[o] # None => o \in charged
    /\ payments[o] # None /\ payments[o].status # "completed" => back[o] # "nothing"
    /\ back[o] # "nothing" => payments[o] # None

\* What Toss has is in the rows, or a handler is about to write it.
PaymentTold == ~lost =>
  /\ \A o \in PaymentIds : back[o] # "nothing" =>
       \/ payments[o].status # "completed"
       \/ \E h \in Handlers : pc[h] = "noting" /\ local[h].order = o
  /\ tables = "backend" => \A o \in charged :
       \/ payments[o] # None
       \/ \E h \in Handlers : pc[h] = "recording" /\ local[h].order = o

\* Payments with the coupon.
PaymentPaid == {o \in PaymentIds : payments[o] # None /\ payments[o].kind = "coupon"}
\* Handlers that have found the coupon valid.
PaymentAsking == {h \in Handlers : pc[h] \in {"charging", "recording"} /\ local[h].kind = "coupon"}
\* The coupon's uses and those about to be.
PaymentBounded ==
  /\ IsFiniteSet(PaymentPaid) /\ uses = Cardinality(PaymentPaid)
  /\ uses + Cardinality(PaymentAsking) < CouponLimit + Cardinality(Handlers)

\* What holds however handlers interleave.
PaymentInv == /\ Payments!TypeOK /\ PaymentBounded /\ PaymentHonest /\ PaymentDistinct
              /\ PaymentTold /\ \A h \in Handlers : PaymentHeld(h)

\* When handlers do not overlap, what the one at work has read still holds.
PaymentInHand(h) ==
  \A o \in PaymentIds : pc[h] = "refunding" /\ local[h].order = o =>
    payments[o].status = "completed"

\* What holds as long as they do not overlap.
PaymentSoloInv == Alone /\ (~overlapped => \A h \in Handlers : PaymentInHand(h))

\* What a step of h does: it keeps the invariant, as long as h is alone all of
\* it.
PaymentKept(h) ==
  /\ tables' \in {"admin", "backend"}
  /\ payments' \in [PaymentIds -> Payments!OrNone(Payments!Rows)]
  /\ uses' \in Nat /\ charged' \subseteq PaymentIds
  /\ back' \in [PaymentIds -> {"nothing", "part", "all"}] /\ lost' \in BOOLEAN
  /\ pc' \in [Handlers -> Payments!Steps] /\ local' \in [Handlers -> PaymentLocals]
  /\ PaymentBounded' /\ PaymentHonest' /\ PaymentDistinct' /\ PaymentTold'
  /\ \A g \in Handlers : PaymentHeld(g)'
  /\ \A g \in Handlers \ {h} : pc'[g] = pc[g] /\ local'[g] = local[g]
  /\ OnlyMe(h) /\ PaymentInHand(h) =>
       /\ PaymentInHand(h)'
       /\ \A o \in PaymentIds : back[o] # "nothing" /\ ~lost' => back'[o] = back[o]

\* The initial states have the invariant.
LEMMA PaymentInitHolds == Payments!Init => PaymentInv /\ PaymentSoloInv
<1> SUFFICES ASSUME Payments!Init PROVE PaymentInv /\ PaymentSoloInv
  OBVIOUS
<1>1. /\ overlapped = FALSE /\ lost = FALSE /\ uses = 0 /\ charged = {}
      /\ \A h \in Handlers : pc[h] = "idle" /\ local[h] = None
      /\ \A o \in PaymentIds : payments[o] = None /\ back[o] = "nothing"
  BY DEF Payments!Init, Payments!AllIdle
<1>2. overlapped \in BOOLEAN /\ lost \in BOOLEAN
  BY <1>1, Zenon
<1>3. Payments!TypeOK
  BY <1>1, <1>2 DEF Payments!Init, Payments!AllIdle, Payments!TypeOK, Payments!Steps,
     Payments!OrNone
<1>4. PaymentBounded
  <2>1. PaymentPaid = {} /\ PaymentAsking = {}
    BY <1>1 DEF PaymentPaid, PaymentAsking
  <2>2. IsFiniteSet({}) /\ Cardinality({}) = 0
    BY FS_EmptySet
  <2>3. Cardinality(Handlers) \in Nat /\ Cardinality(Handlers) # 0
    BY PaymentGiven, FS_CardinalityType, FS_EmptySet
  <2> QED
    BY PaymentGiven, <1>1, <2>1, <2>2, <2>3 DEF PaymentBounded
<1>5. PaymentHonest /\ PaymentDistinct /\ PaymentTold
  BY <1>1 DEF PaymentHonest, PaymentDistinct, PaymentTold
<1> QED
  BY <1>1, <1>3, <1>4, <1>5 DEF PaymentInv, PaymentSoloInv, Alone, Payments!InFlight,
     PaymentInHand, PaymentHeld

\* A handler that goes on takes what it has read with it; the others stay.
LEMMA PaymentMoved ==
  ASSUME PaymentInv, NEW h \in Handlers, NEW step \in Payments!Steps, NEW read \in PaymentLocals,
         Payments!Goto(h, step), local' = [local EXCEPT ![h] = read]
  PROVE  /\ pc' \in [Handlers -> Payments!Steps] /\ local' \in [Handlers -> PaymentLocals]
         /\ pc'[h] = step /\ local'[h] = read
         /\ \A g \in Handlers \ {h} : pc'[g] = pc[g] /\ local'[g] = local[g]
  BY DEF PaymentInv, Payments!TypeOK, Payments!Goto, PaymentLocals

\* A handler that returns holds nothing; the others stay.
LEMMA PaymentReturned ==
  ASSUME PaymentInv, NEW h \in Handlers, Payments!Return(h)
  PROVE  /\ pc' \in [Handlers -> Payments!Steps] /\ local' \in [Handlers -> PaymentLocals]
         /\ PaymentHeld(h)' /\ PaymentInHand(h)' /\ pc'[h] = "idle" /\ local'[h] = None
         /\ \A g \in Handlers \ {h} : pc'[g] = pc[g] /\ local'[g] = local[g]
<1>1. /\ pc' \in [Handlers -> Payments!Steps] /\ local' \in [Handlers -> PaymentLocals]
      /\ pc'[h] = "idle"
      /\ local'[h] = None
      /\ \A g \in Handlers \ {h} : pc'[g] = pc[g] /\ local'[g] = local[g]
  BY PaymentMoved DEF Payments!Return, Payments!Hold, Payments!Steps, PaymentLocals, Payments!OrNone
<1>2. PaymentHeld(h)' /\ PaymentInHand(h)'
  BY <1>1 DEF PaymentHeld, PaymentInHand
<1> QED
  BY <1>1, <1>2

\* The sizes that are compared.
LEMMA PaymentSizes ==
  ASSUME PaymentInv
  PROVE  /\ IsFiniteSet(PaymentPaid) /\ uses \in Nat /\ uses = Cardinality(PaymentPaid)
         /\ IsFiniteSet(PaymentAsking) /\ Cardinality(PaymentAsking) \in Nat
         /\ IsFiniteSet(Handlers) /\ Cardinality(Handlers) \in Nat /\ CouponLimit \in Nat
         /\ uses + Cardinality(PaymentAsking) < CouponLimit + Cardinality(Handlers)
<1>1. IsFiniteSet(Handlers) /\ CouponLimit \in Nat
  BY PaymentGiven
<1>2. PaymentAsking \subseteq Handlers
  BY DEF PaymentAsking
<1> QED
  BY <1>1, <1>2, FS_Subset, FS_CardinalityType DEF PaymentInv, PaymentBounded

\* A step after which no more handlers, and the same payments, are of the coupon.
LEMMA PaymentFewerAsk ==
  ASSUME PaymentInv, PaymentAsking' \subseteq PaymentAsking, PaymentPaid' = PaymentPaid,
         uses' = uses
  PROVE  PaymentBounded'
<1>1. IsFiniteSet(PaymentAsking') /\ Cardinality(PaymentAsking') <= Cardinality(PaymentAsking)
  BY PaymentSizes, FS_Subset
<1>2. Cardinality(PaymentAsking') \in Nat
  BY <1>1, FS_CardinalityType
<1> QED
  BY <1>1, <1>2, PaymentSizes DEF PaymentBounded

\* What the other handlers hold stands when rows, charges and refunds only grow.
LEMMA PaymentOthersHold ==
  ASSUME PaymentInv, NEW h \in Handlers,
         \A g \in Handlers \ {h} : pc'[g] = pc[g] /\ local'[g] = local[g],
         charged \subseteq charged',
         \A o \in PaymentIds : /\ payments[o] # None => payments'[o] # None
                               /\ back[o] # "nothing" => back'[o] # "nothing"
                               /\ payments[o] = None /\ payments'[o] # None =>
                                    \A g \in Handlers \ {h} : pc[g] = "recording" =>
                                      local[g].order # o
  PROVE  \A g \in Handlers \ {h} : PaymentHeld(g)'
<1> SUFFICES ASSUME NEW g \in Handlers \ {h} PROVE PaymentHeld(g)'
  OBVIOUS
<1>1. PaymentHeld(g)
  BY DEF PaymentInv
<1> QED
  BY <1>1 DEF PaymentHeld

\* An order is begun.
LEMMA PaymentUpgradeKeeps ==
  ASSUME PaymentInv, NEW h \in Handlers, Payments!Upgrade(h) \/ Payments!PurchaseAddon(h)
  PROVE  PaymentKept(h)
<1>1. PICK kind \in Payments!Kinds :
        /\ kind = "coupon" => uses < CouponLimit
        /\ Payments!Begin(h, "charging", [kind |-> kind, order |-> None])
  BY DEF Payments!Upgrade, Payments!PurchaseAddon, Payments!Kinds
<1> DEFINE read == [kind |-> kind, order |-> None]
<1>2. read \in Payments!Orders /\ read.kind = kind
  BY DEF Payments!Orders, Payments!OrNone
<1>3. /\ pc[h] = "idle" /\ Payments!Goto(h, "charging") /\ local' = [local EXCEPT ![h] = read]
      /\ tables' = tables /\ payments' = payments /\ uses' = uses /\ charged' = charged
      /\ back' = back /\ lost' = lost
  BY <1>1 DEF Payments!Begin, Payments!Hold
<1> HIDE DEF read
<1>4. /\ pc' \in [Handlers -> Payments!Steps] /\ local' \in [Handlers -> PaymentLocals]
      /\ pc'[h] = "charging" /\ local'[h] = read
      /\ \A g \in Handlers \ {h} : pc'[g] = pc[g] /\ local'[g] = local[g]
  BY <1>2, <1>3, PaymentMoved DEF Payments!Steps, PaymentLocals, Payments!OrNone
<1>5. PaymentHeld(h)' /\ PaymentInHand(h)'
  BY <1>2, <1>4 DEF PaymentHeld, PaymentInHand
<1>6. \A g \in Handlers \ {h} : PaymentHeld(g)'
  BY <1>3, <1>4, PaymentOthersHold
<1>7. PaymentBounded'
  <2>1. PaymentPaid' = PaymentPaid
    BY <1>3 DEF PaymentPaid
  <2>2. CASE kind = "coupon"
    <3>1. PaymentAsking' \subseteq Handlers
      BY DEF PaymentAsking
    <3>2. /\ Cardinality(PaymentAsking') \in Nat
          /\ Cardinality(PaymentAsking') <= Cardinality(Handlers)
      BY <3>1, PaymentSizes, FS_Subset, FS_CardinalityType
    <3> QED
      BY <1>1, <1>3, <2>1, <2>2, <3>2, PaymentSizes DEF PaymentBounded
  <2>3. CASE kind # "coupon"
    <3>1. PaymentAsking' \subseteq PaymentAsking
      BY <1>2, <1>4, <2>3 DEF PaymentAsking
    <3> QED
      BY <1>3, <2>1, <3>1, PaymentFewerAsk
  <2> QED
    BY <2>2, <2>3
<1>8. PaymentHonest' /\ PaymentDistinct'
  BY <1>3, <1>4 DEF PaymentInv, PaymentHonest, PaymentDistinct
<1>9. PaymentTold'
  BY <1>3, <1>4 DEF PaymentInv, PaymentTold
<1> QED
  BY <1>3, <1>4, <1>5, <1>6, <1>7, <1>8, <1>9 DEF PaymentKept, PaymentInv, Payments!TypeOK

\* A refund is begun.
LEMMA PaymentRefundKeeps ==
  ASSUME PaymentInv, NEW h \in Handlers, Payments!Refund(h)
  PROVE  PaymentKept(h)
<1>1. PICK o \in PaymentIds, amount \in Amounts, whole \in BOOLEAN :
        /\ payments[o] # None /\ payments[o].status = "completed"
        /\ Payments!Begin(h, "refunding", [order |-> o, amount |-> amount, whole |-> whole])
  BY DEF Payments!Refund
<1> DEFINE read == [order |-> o, amount |-> amount, whole |-> whole]
<1>2. read \in Payments!Refunds /\ read.order = o
  BY DEF Payments!Refunds
<1>3. /\ pc[h] = "idle" /\ Payments!Goto(h, "refunding") /\ local' = [local EXCEPT ![h] = read]
      /\ tables' = tables /\ payments' = payments /\ uses' = uses /\ charged' = charged
      /\ back' = back /\ lost' = lost
  BY <1>1 DEF Payments!Begin, Payments!Hold
<1> HIDE DEF read
<1>4. /\ pc' \in [Handlers -> Payments!Steps] /\ local' \in [Handlers -> PaymentLocals]
      /\ pc'[h] = "refunding" /\ local'[h] = read
      /\ \A g \in Handlers \ {h} : pc'[g] = pc[g] /\ local'[g] = local[g]
  BY <1>2, <1>3, PaymentMoved DEF Payments!Steps, PaymentLocals, Payments!OrNone
<1>5. PaymentHeld(h)' /\ PaymentInHand(h)'
  BY <1>1, <1>2, <1>3, <1>4 DEF PaymentHeld, PaymentInHand
<1>6. \A g \in Handlers \ {h} : PaymentHeld(g)'
  BY <1>3, <1>4, PaymentOthersHold
<1>7. PaymentBounded'
  <2>1. PaymentPaid' = PaymentPaid /\ PaymentAsking' \subseteq PaymentAsking
    BY <1>3, <1>4 DEF PaymentPaid, PaymentAsking
  <2> QED
    BY <1>3, <2>1, PaymentFewerAsk
<1>8. PaymentHonest' /\ PaymentDistinct'
  BY <1>3, <1>4 DEF PaymentInv, PaymentHonest, PaymentDistinct
<1>9. PaymentTold'
  BY <1>3, <1>4 DEF PaymentInv, PaymentTold
<1> QED
  BY <1>3, <1>4, <1>5, <1>6, <1>7, <1>8, <1>9 DEF PaymentKept, PaymentInv, Payments!TypeOK

\* Toss pays back more.
LEMMA PaymentPaysBack ==
  ASSUME PaymentInv, NEW h \in Handlers, NEW o \in PaymentIds, local[h].order = o,
         Payments!PaidBack(h)
  PROVE  /\ back' \in [PaymentIds -> {"nothing", "part", "all"}] /\ back'[o] # "nothing"
         /\ \A p \in PaymentIds \ {o} : back'[p] = back[p]
<1>1. PICK sum \in {"part", "all"} : back' = [back EXCEPT ![o] = sum]
  BY DEF Payments!PaidBack
<1> QED
  BY <1>1 DEF PaymentInv, Payments!TypeOK

\* Handlers that return without a row.
LEMMA PaymentReturnsKeep ==
  ASSUME PaymentInv, NEW h \in Handlers,
         \/ Payments!ChargeDeclined(h) \/ Payments!ChargeUnanswered(h)
         \/ Payments!RefundRefused(h) \/ Payments!RefundUnanswered(h)
         \/ Payments!Crash(h)
  PROVE  PaymentKept(h)
<1>0. /\ tables \in {"admin", "backend"}
      /\ payments \in [PaymentIds -> Payments!OrNone(Payments!Rows)]
      /\ uses \in Nat /\ charged \subseteq PaymentIds
      /\ back \in [PaymentIds -> {"nothing", "part", "all"}] /\ lost \in BOOLEAN
      /\ PaymentHonest /\ PaymentDistinct /\ PaymentTold /\ PaymentHeld(h)
  BY DEF PaymentInv, Payments!TypeOK
<1>1. /\ Payments!Return(h) /\ tables' = tables /\ payments' = payments /\ uses' = uses
      /\ lost' = TRUE \/ (lost' = lost /\ pc[h] \in {"charging", "refunding"} /\ charged' = charged /\ back' = back)
  BY DEF Payments!ChargeDeclined, Payments!ChargeUnanswered, Payments!RefundRefused,
     Payments!RefundUnanswered, Payments!Crash
<1>2. charged \subseteq charged' /\ charged' \subseteq PaymentIds
  BY <1>0 DEF Payments!ChargeDeclined, Payments!ChargeUnanswered, Payments!RefundRefused,
     Payments!RefundUnanswered, Payments!Crash
<1>3. /\ back' \in [PaymentIds -> {"nothing", "part", "all"}]
      /\ \A o \in PaymentIds : /\ back[o] # "nothing" => back'[o] # "nothing"
                               /\ back'[o] # "nothing" => payments[o] # None
  <2>1. CASE back' = back
    BY <1>0, <2>1 DEF PaymentHonest
  <2>2. CASE Payments!RefundUnanswered(h)
    <3>1. PICK o \in PaymentIds : local[h].order = o /\ payments[o] # None /\ Payments!PaidBack(h)
      BY <1>0, <2>2 DEF Payments!RefundUnanswered, PaymentHeld, Payments!Refunds
    <3> QED
      BY <1>0, <3>1, PaymentPaysBack DEF PaymentHonest
  <2> QED
    BY <2>1, <2>2 DEF Payments!ChargeDeclined, Payments!ChargeUnanswered, Payments!RefundRefused,
       Payments!Crash
<1>4. \A g \in Handlers : PaymentHeld(g)'
  BY <1>1, <1>2, <1>3, PaymentOthersHold, PaymentReturned
<1>5. PaymentBounded'
  <2>1. PaymentPaid' = PaymentPaid /\ PaymentAsking' \subseteq PaymentAsking
    BY <1>1, PaymentReturned DEF PaymentPaid, PaymentAsking
  <2> QED
    BY <1>1, <2>1, PaymentFewerAsk
<1>6. PaymentHonest' /\ PaymentDistinct'
  BY <1>0, <1>1, <1>2, <1>3, PaymentReturned DEF PaymentHonest, PaymentDistinct
<1>7. PaymentTold'
  <2>1. CASE lost'
    BY <2>1 DEF PaymentTold
  <2>2. CASE /\ lost' = lost /\ pc[h] \in {"charging", "refunding"} /\ charged' = charged
             /\ back' = back
    BY <1>0, <1>1, <2>2, PaymentReturned DEF PaymentTold
  <2> QED
    BY <1>1, <2>1, <2>2
<1>8. lost' \in BOOLEAN
  <2>1. CASE lost' = TRUE
    BY <2>1, Zenon
  <2> QED
    BY <1>0, <1>1, <2>1
<1> QED
  BY <1>0, <1>1, <1>2, <1>3, <1>4, <1>5, <1>6, <1>7, <1>8, PaymentReturned DEF PaymentKept

\* Toss has charged.
LEMMA PaymentChargePaidKeeps ==
  ASSUME PaymentInv, NEW h \in Handlers, Payments!ChargePaid(h)
  PROVE  PaymentKept(h)
<1>0. /\ tables \in {"admin", "backend"}
      /\ payments \in [PaymentIds -> Payments!OrNone(Payments!Rows)]
      /\ uses \in Nat /\ charged \subseteq PaymentIds
      /\ back \in [PaymentIds -> {"nothing", "part", "all"}] /\ lost \in BOOLEAN
      /\ PaymentHonest /\ PaymentDistinct /\ PaymentTold
      /\ \A g \in Handlers : PaymentHeld(g)
  BY DEF PaymentInv, Payments!TypeOK
<1>1. PICK o \in PaymentIds \ charged :
        charged' = charged \cup {o} /\ Payments!Hold(h, [local[h] EXCEPT !.order = o])
  BY DEF Payments!ChargePaid
<1> DEFINE read == [local[h] EXCEPT !.order = o]
<1>2. /\ pc[h] = "charging" /\ Payments!Goto(h, "recording") /\ local' = [local EXCEPT ![h] = read]
      /\ tables' = tables /\ payments' = payments /\ uses' = uses /\ back' = back /\ lost' = lost
  BY <1>1 DEF Payments!ChargePaid, Payments!Hold
<1>3. read \in Payments!Orders /\ read.order = o /\ read.kind = local[h].kind
  BY <1>0, <1>2 DEF PaymentHeld, Payments!Orders, Payments!OrNone
<1> HIDE DEF read
<1>4. /\ pc' \in [Handlers -> Payments!Steps] /\ local' \in [Handlers -> PaymentLocals]
      /\ pc'[h] = "recording" /\ local'[h] = read
      /\ \A g \in Handlers \ {h} : pc'[g] = pc[g] /\ local'[g] = local[g]
  BY <1>2, <1>3, PaymentMoved DEF Payments!Steps, PaymentLocals, Payments!OrNone
<1>5. payments[o] = None
  BY <1>0 DEF PaymentHonest
<1>6. PaymentHeld(h)' /\ PaymentInHand(h)'
  BY <1>1, <1>2, <1>3, <1>4, <1>5 DEF PaymentHeld, PaymentInHand
<1>7. \A g \in Handlers \ {h} : PaymentHeld(g)'
  BY <1>1, <1>2, <1>4, PaymentOthersHold
<1>8. PaymentBounded'
  <2>1. PaymentPaid' = PaymentPaid /\ PaymentAsking' \subseteq PaymentAsking
    BY <1>2, <1>3, <1>4 DEF PaymentPaid, PaymentAsking
  <2> QED
    BY <1>2, <2>1, PaymentFewerAsk
<1>9. PaymentHonest'
  BY <1>0, <1>1, <1>2 DEF PaymentHonest
<1>10. PaymentDistinct'
  BY <1>0, <1>3, <1>4 DEF PaymentDistinct, PaymentHeld
<1>11. PaymentTold'
  BY <1>0, <1>1, <1>2, <1>3, <1>4 DEF PaymentTold
<1> QED
  BY <1>0, <1>1, <1>2, <1>4, <1>6, <1>7, <1>8, <1>9, <1>10, <1>11 DEF PaymentKept

\* The payment is recorded.
LEMMA PaymentRecordKeeps ==
  ASSUME PaymentInv, NEW h \in Handlers, Payments!Record(h)
  PROVE  PaymentKept(h)
<1>0. /\ tables \in {"admin", "backend"}
      /\ payments \in [PaymentIds -> Payments!OrNone(Payments!Rows)]
      /\ uses \in Nat /\ charged \subseteq PaymentIds
      /\ back \in [PaymentIds -> {"nothing", "part", "all"}] /\ lost \in BOOLEAN
      /\ PaymentHonest /\ PaymentDistinct /\ PaymentTold /\ PaymentHeld(h)
  BY DEF PaymentInv, Payments!TypeOK
<1>1. /\ pc[h] = "recording" /\ Payments!Return(h)
      /\ tables' = tables /\ charged' = charged /\ back' = back /\ lost' = lost
  BY DEF Payments!Record
<1>2. PICK o \in PaymentIds, kind \in Payments!Kinds :
        /\ local[h].order = o /\ local[h].kind = kind /\ o \in charged /\ payments[o] = None
  BY <1>0, <1>1 DEF PaymentHeld, Payments!Orders
<1>3. CASE Payments!Refused(local[h].kind)
  <2>1. payments' = payments /\ uses' = uses
    BY <1>3 DEF Payments!Record
  <2>2. PaymentPaid' = PaymentPaid /\ PaymentAsking' \subseteq PaymentAsking
    BY <1>1, <2>1, PaymentReturned DEF PaymentPaid, PaymentAsking
  <2>3. PaymentBounded'
    BY <2>1, <2>2, PaymentFewerAsk
  <2>4. \A g \in Handlers : PaymentHeld(g)'
    BY <1>1, <2>1, PaymentOthersHold, PaymentReturned
  <2>5. PaymentHonest' /\ PaymentDistinct'
    BY <1>0, <1>1, <2>1, PaymentReturned DEF PaymentHonest, PaymentDistinct
  <2>6. PaymentTold'
    BY <1>0, <1>1, <1>3, <2>1, PaymentReturned DEF PaymentTold, Payments!Refused
  <2> QED
    BY <1>0, <1>1, <2>1, <2>3, <2>4, <2>5, <2>6, PaymentReturned DEF PaymentKept
<1>4. CASE ~Payments!Refused(local[h].kind)
  <2> DEFINE row == [kind |-> kind, status |-> "completed"]
  <2>1. row \in Payments!Rows /\ row.kind = kind /\ row.status = "completed"
    BY DEF Payments!Rows, Payments!Statuses
  <2>2. /\ payments' = [payments EXCEPT ![o] = row]
        /\ uses' = IF kind = "coupon" THEN uses + 1 ELSE uses
    BY <1>2, <1>4 DEF Payments!Record
  <2> HIDE DEF row
  <2>3. row # None
    BY PaymentGiven, <2>1
  <2>4. /\ payments' \in [PaymentIds -> Payments!OrNone(Payments!Rows)] /\ payments'[o] = row
        /\ \A p \in PaymentIds \ {o} : payments'[p] = payments[p]
    BY <1>0, <2>1, <2>2 DEF Payments!OrNone
  <2>5. \A g \in Handlers \ {h} : pc[g] = "recording" => local[g].order # o
    BY <1>0, <1>1, <1>2 DEF PaymentDistinct
  <2>6. \A g \in Handlers : PaymentHeld(g)'
    BY <1>1, <2>3, <2>4, <2>5, PaymentOthersHold, PaymentReturned
  <2>7. back[o] = "nothing"
    BY <1>0, <1>2 DEF PaymentHonest
  <2>8. PaymentHonest' /\ PaymentDistinct'
    BY <1>0, <1>1, <1>2, <2>1, <2>4, PaymentReturned DEF PaymentHonest, PaymentDistinct
  <2>9. PaymentTold'
    BY <1>0, <1>1, <1>2, <2>3, <2>4, <2>7, PaymentReturned DEF PaymentTold
  <2>10. PaymentBounded' /\ uses' \in Nat
    <3>1. CASE kind = "coupon"
      <4>1. PaymentPaid' = PaymentPaid \cup {o} /\ o \notin PaymentPaid
        BY <1>2, <2>1, <2>3, <2>4, <3>1 DEF PaymentPaid
      <4>2. PaymentAsking' = PaymentAsking \ {h} /\ h \in PaymentAsking
        BY <1>1, <1>2, <3>1, PaymentReturned DEF PaymentAsking
      <4>3. IsFiniteSet(PaymentPaid') /\ Cardinality(PaymentPaid') = Cardinality(PaymentPaid) + 1
        BY <4>1, PaymentSizes, FS_AddElement
      <4>4. Cardinality(PaymentAsking') = Cardinality(PaymentAsking) - 1
        BY <4>2, PaymentSizes, FS_RemoveElement
      <4> QED
        BY <2>2, <3>1, <4>3, <4>4, PaymentSizes DEF PaymentBounded
    <3>2. CASE kind # "coupon"
      <4>1. PaymentPaid' = PaymentPaid
        BY <1>2, <2>1, <2>4, <3>2 DEF PaymentPaid
      <4>2. PaymentAsking' \subseteq PaymentAsking
        BY <1>1, PaymentReturned DEF PaymentAsking
      <4> QED
        BY <1>0, <2>2, <3>2, <4>1, <4>2, PaymentFewerAsk
    <3> QED
      BY <3>1, <3>2
  <2> QED
    BY <1>0, <1>1, <2>4, <2>6, <2>8, <2>9, <2>10, PaymentReturned DEF PaymentKept
<1> QED
  BY <1>3, <1>4

\* Toss has paid back.
LEMMA PaymentRefundPaidKeeps ==
  ASSUME PaymentInv, NEW h \in Handlers, Payments!RefundPaid(h)
  PROVE  PaymentKept(h)
<1>0. /\ tables \in {"admin", "backend"}
      /\ payments \in [PaymentIds -> Payments!OrNone(Payments!Rows)]
      /\ uses \in Nat /\ charged \subseteq PaymentIds
      /\ back \in [PaymentIds -> {"nothing", "part", "all"}] /\ lost \in BOOLEAN
      /\ pc \in [Handlers -> Payments!Steps] /\ local \in [Handlers -> PaymentLocals]
      /\ PaymentHonest /\ PaymentDistinct /\ PaymentTold /\ PaymentHeld(h)
  BY DEF PaymentInv, Payments!TypeOK, PaymentLocals
<1>1. /\ pc[h] = "refunding" /\ Payments!PaidBack(h) /\ Payments!Goto(h, "noting") /\ local' = local
      /\ tables' = tables /\ payments' = payments /\ uses' = uses /\ charged' = charged
      /\ lost' = lost
  BY DEF Payments!RefundPaid
<1>2. PICK o \in PaymentIds : local[h].order = o /\ payments[o] # None
  BY <1>0, <1>1 DEF PaymentHeld, Payments!Refunds
<1>3. /\ pc' \in [Handlers -> Payments!Steps] /\ pc'[h] = "noting"
      /\ \A g \in Handlers \ {h} : pc'[g] = pc[g]
  BY <1>0, <1>1 DEF Payments!Goto, Payments!Steps
<1>4. /\ back' \in [PaymentIds -> {"nothing", "part", "all"}] /\ back'[o] # "nothing"
      /\ \A p \in PaymentIds \ {o} : back'[p] = back[p]
  BY <1>1, <1>2, PaymentPaysBack
<1>5. PaymentHeld(h)' /\ PaymentInHand(h)'
  BY <1>0, <1>1, <1>2, <1>3, <1>4 DEF PaymentHeld, PaymentInHand
<1>6. \A g \in Handlers \ {h} : PaymentHeld(g)'
  BY <1>1, <1>3, <1>4, PaymentOthersHold
<1>7. PaymentBounded'
  <2>1. PaymentPaid' = PaymentPaid /\ PaymentAsking' \subseteq PaymentAsking
    BY <1>1, <1>3 DEF PaymentPaid, PaymentAsking
  <2> QED
    BY <1>1, <2>1, PaymentFewerAsk
<1>8. PaymentHonest' /\ PaymentDistinct'
  BY <1>0, <1>1, <1>2, <1>3, <1>4 DEF PaymentHonest, PaymentDistinct
<1>9. PaymentTold'
  BY <1>0, <1>1, <1>2, <1>3, <1>4 DEF PaymentTold
<1>10. ASSUME OnlyMe(h), PaymentInHand(h), ~lost'
       PROVE  \A p \in PaymentIds : back[p] # "nothing" => back'[p] = back[p]
  <2>1. back[o] = "nothing"
    BY <1>0, <1>1, <1>2, <1>10 DEF PaymentTold, OnlyMe, PaymentInHand
  <2> QED
    BY <1>4, <2>1
<1> QED
  BY <1>0, <1>1, <1>3, <1>4, <1>5, <1>6, <1>7, <1>8, <1>9, <1>10 DEF PaymentKept

\* The refund is noted.
LEMMA PaymentNoteRefundKeeps ==
  ASSUME PaymentInv, NEW h \in Handlers, Payments!NoteRefund(h)
  PROVE  PaymentKept(h)
<1>0. /\ tables \in {"admin", "backend"}
      /\ payments \in [PaymentIds -> Payments!OrNone(Payments!Rows)]
      /\ uses \in Nat /\ charged \subseteq PaymentIds
      /\ back \in [PaymentIds -> {"nothing", "part", "all"}] /\ lost \in BOOLEAN
      /\ PaymentHonest /\ PaymentDistinct /\ PaymentTold /\ PaymentHeld(h)
  BY DEF PaymentInv, Payments!TypeOK
<1>1. /\ pc[h] = "noting" /\ Payments!Return(h)
      /\ tables' = tables /\ uses' = uses /\ charged' = charged /\ back' = back /\ lost' = lost
  BY DEF Payments!NoteRefund
<1>2. PICK o \in PaymentIds : local[h].order = o /\ payments[o] # None /\ back[o] # "nothing"
  BY <1>0, <1>1 DEF PaymentHeld, Payments!Refunds
<1>3. PICK status \in {"refunded", "partial_refunded"} : payments' = [payments EXCEPT ![o].status = status]
  BY <1>2 DEF Payments!NoteRefund
<1> DEFINE row == [payments[o] EXCEPT !.status = status]
<1>4. row \in Payments!Rows /\ row.kind = payments[o].kind /\ row.status = status
  BY <1>0, <1>2, <1>3 DEF Payments!Rows, Payments!OrNone, Payments!Statuses
<1>5. payments' = [payments EXCEPT ![o] = row]
  BY <1>3
<1> HIDE DEF row
<1>6. row # None
  BY PaymentGiven, <1>4
<1>7. /\ payments' \in [PaymentIds -> Payments!OrNone(Payments!Rows)] /\ payments'[o] = row
      /\ \A p \in PaymentIds \ {o} : payments'[p] = payments[p]
  BY <1>0, <1>4, <1>5 DEF Payments!OrNone
<1>8. \A g \in Handlers : PaymentHeld(g)'
  BY <1>1, <1>2, <1>6, <1>7, PaymentOthersHold, PaymentReturned
<1>9. PaymentBounded'
  <2>1. PaymentPaid' = PaymentPaid /\ PaymentAsking' \subseteq PaymentAsking
    BY <1>1, <1>2, <1>4, <1>6, <1>7, PaymentReturned DEF PaymentPaid, PaymentAsking
  <2> QED
    BY <1>1, <2>1, PaymentFewerAsk
<1>10. PaymentHonest' /\ PaymentDistinct'
  BY <1>0, <1>1, <1>2, <1>6, <1>7, PaymentReturned DEF PaymentHonest, PaymentDistinct
<1>11. PaymentTold'
  BY <1>0, <1>1, <1>2, <1>4, <1>6, <1>7, PaymentReturned DEF PaymentTold
<1> QED
  BY <1>0, <1>1, <1>7, <1>8, <1>9, <1>10, <1>11, PaymentReturned DEF PaymentKept

\* Every step keeps the invariant, and does what is said of every step.
LEMMA PaymentStepHolds == PaymentInv /\ PaymentSoloInv /\ [Payments!Next]_(Payments!vars) =>
                            PaymentInv' /\ PaymentSoloInv' /\ Payments!RefundStands
<1> SUFFICES ASSUME PaymentInv, PaymentSoloInv, [Payments!Next]_(Payments!vars)
             PROVE  PaymentInv' /\ PaymentSoloInv' /\ Payments!RefundStands
  OBVIOUS
<1>1. CASE UNCHANGED Payments!vars
  <2>1. PaymentInv'
    <3>1. Payments!TypeOK' /\ PaymentBounded'
      BY <1>1 DEF Payments!vars, PaymentInv, Payments!TypeOK, PaymentBounded, PaymentPaid,
         PaymentAsking
    <3>2. PaymentHonest' /\ PaymentDistinct' /\ PaymentTold'
      BY <1>1 DEF Payments!vars, PaymentInv, PaymentHonest, PaymentDistinct, PaymentTold
    <3>3. \A h \in Handlers : PaymentHeld(h)'
      BY <1>1 DEF Payments!vars, PaymentInv, PaymentHeld
    <3> QED
      BY <3>1, <3>2, <3>3 DEF PaymentInv
  <2>2. PaymentSoloInv'
    BY <1>1 DEF Payments!vars, PaymentSoloInv, Alone, Payments!InFlight, PaymentInHand
  <2> QED
    BY <1>1, <2>1, <2>2 DEF Payments!vars, Payments!RefundStands
<1>2. ASSUME NEW h \in Handlers, Payments!HandlerStep(h), Payments!Overlap(h)
      PROVE  PaymentInv' /\ PaymentSoloInv' /\ Payments!RefundStands
  <2>1. PaymentKept(h)
    BY <1>2, PaymentUpgradeKeeps, PaymentRefundKeeps, PaymentReturnsKeep, PaymentChargePaidKeeps,
       PaymentRecordKeeps, PaymentRefundPaidKeeps,
       PaymentNoteRefundKeeps DEF Payments!HandlerStep
  <2>2. PaymentInv'
    <3>1. overlapped' \in BOOLEAN
      BY <1>2 DEF Payments!Overlap, PaymentInv, Payments!TypeOK
    <3> QED
      BY <2>1, <3>1 DEF PaymentKept, PaymentInv, Payments!TypeOK, PaymentLocals
  <2>3. ASSUME ~overlapped'
        PROVE  /\ Alone' /\ \A g \in Handlers : PaymentInHand(g)'
               /\ \A o \in PaymentIds : back[o] # "nothing" /\ ~lost' => back'[o] = back[o]
    <3>1. ~overlapped /\ \A g \in Handlers \ {h} : pc[g] = "idle" /\ pc'[g] = "idle"
      BY <1>2, <2>1, <2>3 DEF Payments!Overlap, Payments!InFlight, PaymentKept
    <3>2. \A g \in Handlers \ {h} : PaymentInHand(g)'
      BY <3>1 DEF PaymentInHand
    <3>3. Alone'
      BY <3>1 DEF Alone, Payments!InFlight
    <3>4. OnlyMe(h) /\ PaymentInHand(h)
      BY <3>1 DEF OnlyMe, PaymentSoloInv
    <3> QED
      BY <2>1, <3>2, <3>3, <3>4 DEF PaymentKept
  <2>4. PaymentSoloInv'
    BY <2>3 DEF PaymentSoloInv, Alone
  <2>5. Payments!RefundStands
    BY <2>3 DEF Payments!RefundStands
  <2> QED
    BY <2>2, <2>4, <2>5
<1> QED
  BY <1>1, <1>2 DEF Payments!Next

\* The invariant is enough.
LEMMA PaymentPromised == PaymentInv /\ PaymentSoloInv =>
                           Payments!TypeOK /\ Payments!CouponCounted /\ Payments!MoneyTold
<1> SUFFICES ASSUME PaymentInv PROVE Payments!CouponCounted /\ Payments!MoneyTold
  BY DEF PaymentInv
<1>1. Payments!CouponCounted
  <2>1. {o \in Payments!Recorded : payments[o].kind = "coupon"} = PaymentPaid
    BY DEF Payments!Recorded, PaymentPaid
  <2>2. /\ uses = Cardinality(PaymentPaid) /\ uses < CouponLimit + Cardinality(Handlers)
    BY PaymentSizes
  <2> QED
    BY <2>1, <2>2, PaymentCounts DEF Payments!CouponCounted
<1>2. Payments!MoneyTold
  BY DEF PaymentInv, Payments!TypeOK, PaymentHonest, PaymentTold, Payments!MoneyTold,
     Payments!Recorded, Payments!Quiet, Payments!InFlight
<1> QED
  BY <1>1, <1>2
-----------------------------------------------------------------------------
(***************************************************************************)
(* The office.  A behaviour is one of a single service, whose invariant it *)
(* keeps.                                                                  *)
(***************************************************************************)
\* The invariant of the service at work.
OfficeInv ==
  /\ area = "vacations" => LeaveInv /\ LeaveSoloInv
  /\ area = "swaps" => SwapFullInv
  /\ area = "invitations" => InviteInv /\ InviteSoloInv
  /\ area = "tasks" => Tasks!TypeOK /\ TaskSoloInv
  /\ area = "evaluations" => EvalInv /\ EvalSoloInv
  /\ area = "teams" => TeamInv /\ TeamSoloInv
  /\ area = "rosters" => RosterInv /\ RosterSoloInv
  /\ area = "handovers" => HandoverInv /\ HandoverSoloInv
  /\ area = "messages" => MessageInv /\ MessageSoloInv
  /\ area = "modules" => ModuleTyped /\ ModuleSoloInv
  /\ area = "calendar" => CalendarInv /\ CalendarSoloInv
  /\ area = "contracts" => ContractInv /\ ContractSoloInv
  /\ area = "locations" => LocationInv /\ LocationSoloInv
  /\ area = "payments" => PaymentInv /\ PaymentSoloInv

\* The area is settled in the beginning, and the service keeps its variables.
Serves ==
  /\ area' = area
  /\ area = "vacations" => [Vacations!Next]_(Vacations!vars)
  /\ area = "swaps" => [ShiftSwap!Next]_(ShiftSwap!vars)
  /\ area = "invitations" => [Invitations!Next]_(Invitations!vars)
  /\ area = "tasks" => [Tasks!Next]_(Tasks!vars)
  /\ area = "evaluations" => [Evaluations!Next]_(Evaluations!vars)
  /\ area = "teams" => [Teams!Next]_(Teams!vars)
  /\ area = "rosters" => [ShiftSchedules!Next]_(ShiftSchedules!vars)
  /\ area = "handovers" => [Handovers!Next]_(Handovers!vars)
  /\ area = "messages" => [Collaboration!Next]_(Collaboration!vars)
  /\ area = "modules" => [FeatureModules!Next]_(FeatureModules!vars)
  /\ area = "calendar" => [Calendar!Next]_(Calendar!vars)
  /\ area = "contracts" => [Contracts!Next]_(Contracts!vars)
  /\ area = "locations" => [Locations!Next]_(Locations!vars)
  /\ area = "payments" => [Payments!Next]_(Payments!vars)

\* Every step is one of the service at work.
LEMMA StepServes == [Next]_vars => Serves
<1> SUFFICES ASSUME [Next]_vars PROVE Serves
  OBVIOUS
<1>1. CASE UNCHANGED vars
  BY <1>1 DEF Serves, vars, vacationsVars, swapsVars, invitationsVars, tasksVars, evaluationsVars,
     teamsVars, rostersVars, handoversVars, messagesVars, modulesVars, calendarVars, contractsVars,
     locationsVars, paymentsVars, Vacations!vars, ShiftSwap!vars, Invitations!vars, Tasks!vars,
     Evaluations!vars, Teams!vars, ShiftSchedules!vars, Handovers!vars, Collaboration!vars,
     FeatureModules!vars, Calendar!vars, Contracts!vars, Locations!vars, Payments!vars
<1>2. CASE area = "vacations" /\ Vacations!Next /\ OthersStay
  BY <1>2 DEF Serves, OthersStay
<1>3. CASE area = "swaps" /\ ShiftSwap!Next /\ OthersStay
  BY <1>3 DEF Serves, OthersStay
<1>4. CASE area = "invitations" /\ Invitations!Next /\ OthersStay
  BY <1>4 DEF Serves, OthersStay
<1>5. CASE area = "tasks" /\ Tasks!Next /\ OthersStay
  BY <1>5 DEF Serves, OthersStay
<1>6. CASE area = "evaluations" /\ Evaluations!Next /\ OthersStay
  BY <1>6 DEF Serves, OthersStay
<1>7. CASE area = "teams" /\ Teams!Next /\ OthersStay
  BY <1>7 DEF Serves, OthersStay
<1>8. CASE area = "rosters" /\ ShiftSchedules!Next /\ OthersStay
  BY <1>8 DEF Serves, OthersStay
<1>9. CASE area = "handovers" /\ Handovers!Next /\ OthersStay
  BY <1>9 DEF Serves, OthersStay
<1>10. CASE area = "messages" /\ Collaboration!Next /\ OthersStay
  BY <1>10 DEF Serves, OthersStay
<1>11. CASE area = "modules" /\ FeatureModules!Next /\ OthersStay
  BY <1>11 DEF Serves, OthersStay
<1>12. CASE area = "calendar" /\ Calendar!Next /\ OthersStay
  BY <1>12 DEF Serves, OthersStay
<1>13. CASE area = "contracts" /\ Contracts!Next /\ OthersStay
  BY <1>13 DEF Serves, OthersStay
<1>14. CASE area = "locations" /\ Locations!Next /\ OthersStay
  BY <1>14 DEF Serves, OthersStay
<1>15. CASE area = "payments" /\ Payments!Next /\ OthersStay
  BY <1>15 DEF Serves, OthersStay
<1> QED
  BY <1>1, <1>2, <1>3, <1>4, <1>5, <1>6, <1>7, <1>8, <1>9, <1>10, <1>11, <1>12, <1>13, <1>14, <1>15
     DEF Next

\* Every service begins with its invariant.
LEMMA InitOffice == Init => OfficeInv
<1> SUFFICES ASSUME Init PROVE OfficeInv
  OBVIOUS
<1>1. ASSUME area = "vacations" PROVE LeaveInv /\ LeaveSoloInv
  BY <1>1, LeaveInitHolds DEF Init
<1>2. ASSUME area = "swaps" PROVE SwapFullInv
  BY <1>2, SwapInitHolds DEF Init
<1>3. ASSUME area = "invitations" PROVE InviteInv /\ InviteSoloInv
  BY <1>3, InviteInitHolds DEF Init
<1>4. ASSUME area = "tasks" PROVE Tasks!TypeOK /\ TaskSoloInv
  BY <1>4, TaskInitHolds DEF Init
<1>5. ASSUME area = "evaluations" PROVE EvalInv /\ EvalSoloInv
  BY <1>5, EvalInitHolds DEF Init
<1>6. ASSUME area = "teams" PROVE TeamInv /\ TeamSoloInv
  BY <1>6, TeamInitHolds DEF Init
<1>7. ASSUME area = "rosters" PROVE RosterInv /\ RosterSoloInv
  BY <1>7, RosterInitHolds DEF Init
<1>8. ASSUME area = "handovers" PROVE HandoverInv /\ HandoverSoloInv
  BY <1>8, HandoverInitHolds DEF Init
<1>9. ASSUME area = "messages" PROVE MessageInv /\ MessageSoloInv
  BY <1>9, MessageInitHolds DEF Init
<1>10. ASSUME area = "modules" PROVE ModuleTyped /\ ModuleSoloInv
  BY <1>10, ModuleInitHolds DEF Init
<1>11. ASSUME area = "calendar" PROVE CalendarInv /\ CalendarSoloInv
  BY <1>11, CalendarInitHolds DEF Init
<1>12. ASSUME area = "contracts" PROVE ContractInv /\ ContractSoloInv
  BY <1>12, ContractInitHolds DEF Init
<1>13. ASSUME area = "locations" PROVE LocationInv /\ LocationSoloInv
  BY <1>13, LocationInitHolds DEF Init
<1>14. ASSUME area = "payments" PROVE PaymentInv /\ PaymentSoloInv
  BY <1>14, PaymentInitHolds DEF Init
<1> QED
  BY <1>1, <1>2, <1>3, <1>4, <1>5, <1>6, <1>7, <1>8, <1>9, <1>10, <1>11, <1>12, <1>13, <1>14 DEF
     OfficeInv

\* Every service keeps it.
LEMMA StepOffice == OfficeInv /\ [Next]_vars => OfficeInv'
<1> SUFFICES ASSUME OfficeInv, [Next]_vars PROVE OfficeInv'
  OBVIOUS
<1>0. Serves
  BY StepServes
<1>1. ASSUME area = "vacations" PROVE (LeaveInv /\ LeaveSoloInv)'
  BY <1>0, <1>1, LeaveStepHolds DEF Serves, OfficeInv
<1>2. ASSUME area = "swaps" PROVE (SwapFullInv)'
  BY <1>0, <1>2, SwapStepHolds DEF Serves, OfficeInv
<1>3. ASSUME area = "invitations" PROVE (InviteInv /\ InviteSoloInv)'
  BY <1>0, <1>3, InviteStepHolds DEF Serves, OfficeInv
<1>4. ASSUME area = "tasks" PROVE (Tasks!TypeOK /\ TaskSoloInv)'
  BY <1>0, <1>4, TaskStepHolds DEF Serves, OfficeInv
<1>5. ASSUME area = "evaluations" PROVE (EvalInv /\ EvalSoloInv)'
  BY <1>0, <1>5, EvalStepHolds DEF Serves, OfficeInv
<1>6. ASSUME area = "teams" PROVE (TeamInv /\ TeamSoloInv)'
  BY <1>0, <1>6, TeamStepHolds DEF Serves, OfficeInv
<1>7. ASSUME area = "rosters" PROVE (RosterInv /\ RosterSoloInv)'
  BY <1>0, <1>7, RosterStepHolds DEF Serves, OfficeInv
<1>8. ASSUME area = "handovers" PROVE (HandoverInv /\ HandoverSoloInv)'
  BY <1>0, <1>8, HandoverStepHolds DEF Serves, OfficeInv
<1>9. ASSUME area = "messages" PROVE (MessageInv /\ MessageSoloInv)'
  BY <1>0, <1>9, MessageStepHolds DEF Serves, OfficeInv
<1>10. ASSUME area = "modules" PROVE (ModuleTyped /\ ModuleSoloInv)'
  BY <1>0, <1>10, ModuleStepHolds DEF Serves, OfficeInv
<1>11. ASSUME area = "calendar" PROVE (CalendarInv /\ CalendarSoloInv)'
  BY <1>0, <1>11, CalendarStepHolds DEF Serves, OfficeInv
<1>12. ASSUME area = "contracts" PROVE (ContractInv /\ ContractSoloInv)'
  BY <1>0, <1>12, ContractStepHolds DEF Serves, OfficeInv
<1>13. ASSUME area = "locations" PROVE (LocationInv /\ LocationSoloInv)'
  BY <1>0, <1>13, LocationStepHolds DEF Serves, OfficeInv
<1>14. ASSUME area = "payments" PROVE (PaymentInv /\ PaymentSoloInv)'
  BY <1>0, <1>14, PaymentStepHolds DEF Serves, OfficeInv
<1> QED
  BY <1>0, <1>1, <1>2, <1>3, <1>4, <1>5, <1>6, <1>7, <1>8, <1>9, <1>10, <1>11, <1>12, <1>13, <1>14
     DEF OfficeInv, Serves

\* Every state of the office has the invariant of its service.
THEOREM OfficeInvariance == Spec => []OfficeInv
  BY InitOffice, StepOffice, PTL DEF Spec

\* The services keep the types of their rows; the shifts of a swap are in the roster, the
\* balance of leave is not negative.
THEOREM OfficeTyped == Spec => []TypeOK
<1>1. OfficeInv => TypeOK
  <2> SUFFICES ASSUME OfficeInv PROVE TypeOK
    OBVIOUS
  <2>1. area = "vacations" => Vacations!TypeOK
    BY LeavePromised DEF OfficeInv
  <2>2. area = "swaps" => ShiftSwap!TypeOK
    BY SwapPromised DEF OfficeInv
  <2>3. area = "invitations" => Invitations!TypeOK
    BY InvitePromised DEF OfficeInv
  <2>4. area = "tasks" => Tasks!TypeOK
    BY DEF OfficeInv
  <2>5. area = "evaluations" => Evaluations!TypeOK
    BY EvalPromised DEF OfficeInv
  <2>6. area = "teams" => Teams!TypeOK
    BY TeamPromised DEF OfficeInv
  <2>7. area = "rosters" => ShiftSchedules!TypeOK
    BY RosterPromised DEF OfficeInv
  <2>8. area = "handovers" => Handovers!TypeOK
    BY HandoverPromised DEF OfficeInv
  <2>9. area = "messages" => Collaboration!TypeOK
    BY MessagePromised DEF OfficeInv
  <2>10. area = "modules" => FeatureModules!TypeOK
    BY ModulePromised DEF OfficeInv
  <2>11. area = "calendar" => Calendar!TypeOK
    BY CalendarPromised DEF OfficeInv
  <2>12. area = "contracts" => Contracts!TypeOK
    BY ContractPromised DEF OfficeInv
  <2>13. area = "locations" => Locations!TypeOK
    BY LocationPromised DEF OfficeInv
  <2>14. area = "payments" => Payments!TypeOK
    BY PaymentPromised DEF OfficeInv
  <2> QED
    BY <2>1, <2>2, <2>3, <2>4, <2>5, <2>6, <2>7, <2>8, <2>9, <2>10, <2>11, <2>12, <2>13, <2>14 DEF
       TypeOK
<1> QED
  BY OfficeInvariance, <1>1, PTL

\* Whenever no handler is at work, used_days is the sum of the approved leaves, as
\* long as handlers come one after the other and none dies.
THEOREM BalanceIsApproved == Spec => []UsedIsApproved
<1>1. OfficeInv => UsedIsApproved
  BY LeavePromised DEF OfficeInv, UsedIsApproved
<1> QED
  BY OfficeInvariance, <1>1, PTL

\* However handlers interleave, a swap before a manager is between two employees, and
\* so is a cover unless an UPDATE fell between the two statements of another save.
THEOREM SwapsReadyForApproval == Spec => []ReadyForApproval
<1>1. OfficeInv => ReadyForApproval
  BY SwapPromised DEF OfficeInv, ReadyForApproval
<1> QED
  BY OfficeInvariance, <1>1, PTL

\* Handlers that do not overlap open no two requests for one shift and leave one
\* request to share pending; they write no duty twice, for whoever an exchange of
\* shifts has given no duty of another; approved requests have their shares.
THEOREM NothingTwice == Spec => []OfferedOnce
<1>1. OfficeInv => OfferedOnce
  BY SwapPromised, RosterPromised, CalendarPromised DEF OfficeInv, OfferedOnce
<1> QED
  BY OfficeInvariance, <1>1, PTL

\* However handlers interleave, a link is used, and a coupon and the locations
\* exceed their limits, no more than said, for any number of handlers.
THEOREM LimitsRespected == Spec => []LimitRespected
<1>1. OfficeInv => LimitRespected
  BY InvitePromised, PaymentPromised, LocationPromised DEF OfficeInv, LimitRespected
<1> QED
  BY OfficeInvariance, <1>1, PTL

\* The columns of a row tell one story in evaluations, handovers, messages, contracts
\* and rosters, unless an UPDATE fell between the two statements of a save; the rows
\* and Toss do always, and places of work without overlap.
THEOREM RowsTellOneStory == Spec => []RowsAgree
<1>1. OfficeInv => RowsAgree
  <2> SUFFICES ASSUME OfficeInv PROVE RowsAgree
    OBVIOUS
  <2>1. area = "payments" => Payments!MoneyTold
    BY PaymentPromised DEF OfficeInv
  <2>2. area = "locations" => Locations!OnePrimary
    BY LocationPromised DEF OfficeInv
  <2>3. area = "evaluations" => Evaluations!ScoreOfAnswers
    BY EvalPromised DEF OfficeInv
  <2>4. area = "handovers" => Handovers!BothSigned
    BY HandoverPromised DEF OfficeInv
  <2>5. area = "messages" => Collaboration!DeletedIsMasked
    BY MessagePromised DEF OfficeInv
  <2>6. area = "contracts" => Contracts!TerminatedIsDated
    BY ContractPromised DEF OfficeInv
  <2>7. area = "rosters" => ShiftSchedules!PublishedIsDated
    BY RosterPromised DEF OfficeInv
  <2> QED
    BY <2>1, <2>2, <2>3, <2>4, <2>5, <2>6, <2>7 DEF RowsAgree
<1> QED
  BY OfficeInvariance, <1>1, PTL

\* As long as handlers do not overlap, the channel of a team has its name and
\* members whenever none is at work, and no two teams have one name.
THEOREM ChannelsInStep == Spec => []TeamsInStep
<1>1. OfficeInv => TeamsInStep
  BY TeamPromised DEF OfficeInv, TeamsInStep
<1> QED
  BY OfficeInvariance, <1>1, PTL

\* As long as handlers do not overlap, a shift passes to another employee only in
\* the step that approves a request.
THEOREM ShiftsMoveWithApproval == Spec => MovesWithApproval
<1>1. OfficeInv /\ [Next]_vars => [area = "swaps" => ShiftSwap!RosterKept]_vars
  BY StepServes, SwapStepHolds DEF OfficeInv, Serves
<1> QED
  BY OfficeInvariance, <1>1, PTL DEF Spec, MovesWithApproval

\* As long as requests do not overlap, a canceled invitation makes no account.
THEOREM CanceledForGood == Spec => CanceledStaysCanceled
<1>1. OfficeInv /\ [Next]_vars => [area = "invitations" => Invitations!CancelKept]_vars
  BY StepServes, InviteStepHolds DEF OfficeInv, Serves
<1> QED
  BY OfficeInvariance, <1>1, PTL DEF Spec, CanceledStaysCanceled

\* As long as handlers do not overlap, no step undoes a deletion, a publication, a
\* termination, or what the owner has switched.
THEOREM NoStepUndoes == Spec => NothingUndone
<1>1. OfficeInv /\ [Next]_vars =>
        [/\ area = "tasks" => Tasks!TaskKept
         /\ area = "messages" => Collaboration!MessageKept
         /\ area = "rosters" => ShiftSchedules!RosterKept
         /\ area = "modules" => FeatureModules!OthersKept
         /\ area = "contracts" => Contracts!ContractKept]_vars
  <2> SUFFICES ASSUME OfficeInv, [Next]_vars
               PROVE  /\ area = "tasks" => Tasks!TaskKept
                      /\ area = "messages" => Collaboration!MessageKept
                      /\ area = "rosters" => ShiftSchedules!RosterKept
                      /\ area = "modules" => FeatureModules!OthersKept
                      /\ area = "contracts" => Contracts!ContractKept
    OBVIOUS
  <2>0. Serves
    BY StepServes
  <2>1. area = "tasks" => Tasks!TaskKept
    BY <2>0, TaskStepHolds DEF OfficeInv, Serves
  <2>2. area = "messages" => Collaboration!MessageKept
    BY <2>0, MessageStepHolds DEF OfficeInv, Serves
  <2>3. area = "rosters" => ShiftSchedules!RosterKept
    BY <2>0, RosterStepHolds DEF OfficeInv, Serves
  <2>4. area = "modules" => FeatureModules!OthersKept
    BY <2>0, ModuleStepHolds DEF OfficeInv, Serves
  <2>5. area = "contracts" => Contracts!ContractKept
    BY <2>0, ContractStepHolds DEF OfficeInv, Serves
  <2> QED
    BY <2>1, <2>2, <2>3, <2>4, <2>5
<1> QED
  BY OfficeInvariance, <1>1, PTL DEF Spec, NothingUndone

\* As long as handlers do not overlap, what was decided stands, in leave, swaps,
\* evaluations, teams, handovers, refunds and shares.
THEOREM DecisionsStand == Spec => DecidedOnce
<1>1. OfficeInv /\ [Next]_vars =>
        [/\ area = "payments" => Payments!RefundStands
         /\ area = "vacations" => Vacations!DecisionKept
         /\ area = "swaps" => ShiftSwap!DecisionKept
         /\ area = "evaluations" => Evaluations!ScoreStands
         /\ area = "teams" => Teams!LeaderIsMember
         /\ area = "handovers" => Handovers!AnswerKept
         /\ area = "calendar" => Calendar!ShareKept]_vars
  <2> SUFFICES ASSUME OfficeInv, [Next]_vars
               PROVE  /\ area = "payments" => Payments!RefundStands
                      /\ area = "vacations" => Vacations!DecisionKept
                      /\ area = "swaps" => ShiftSwap!DecisionKept
                      /\ area = "evaluations" => Evaluations!ScoreStands
                      /\ area = "teams" => Teams!LeaderIsMember
                      /\ area = "handovers" => Handovers!AnswerKept
                      /\ area = "calendar" => Calendar!ShareKept
    OBVIOUS
  <2>0. Serves
    BY StepServes
  <2>1. area = "payments" => Payments!RefundStands
    BY <2>0, PaymentStepHolds DEF OfficeInv, Serves
  <2>2. area = "vacations" => Vacations!DecisionKept
    BY <2>0, LeaveStepHolds DEF OfficeInv, Serves
  <2>3. area = "swaps" => ShiftSwap!DecisionKept
    BY <2>0, SwapStepHolds DEF OfficeInv, Serves
  <2>4. area = "evaluations" => Evaluations!ScoreStands
    BY <2>0, EvalStepHolds DEF OfficeInv, Serves
  <2>5. area = "teams" => Teams!LeaderIsMember
    BY <2>0, TeamStepHolds DEF OfficeInv, Serves
  <2>6. area = "handovers" => Handovers!AnswerKept
    BY <2>0, HandoverStepHolds DEF OfficeInv, Serves
  <2>7. area = "calendar" => Calendar!ShareKept
    BY <2>0, CalendarStepHolds DEF OfficeInv, Serves
  <2> QED
    BY <2>1, <2>2, <2>3, <2>4, <2>5, <2>6, <2>7
<1> QED
  BY OfficeInvariance, <1>1, PTL DEF Spec, DecidedOnce
=============================================================================
