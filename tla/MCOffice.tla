------------------------------ MODULE MCOffice ------------------------------
(* Small instances of the services of the office.  Identifiers of a kind are *)
(* interchangeable.                                                          *)
EXTENDS Office, TLC

CONSTANTS i1, i2, p1, p2, n1, n2, x1

\* Two plans, the larger with all of the smaller.
MCModulesOf == ("starter" :> {"tasks"}) @@ ("pro" :> {"tasks", "payroll"})

Symmetry ==
  Permutations(Handlers) \cup Permutations({i1, i2}) \cup Permutations({p1, p2})
    \cup Permutations({n1, n2})

\* Bound: behaviours in which handlers have overlapped are not continued in Tasks
\* and Teams; in Locations, once an edit has switched a location on or somebody
\* works at one; in Vacations, once one has died or there are two requests; in
\* ShiftSwap, once there are two requests.  What the properties say of overlapping
\* handlers is about one request, or about the number of active locations.  Nor are
\* those continued in which an UPDATE fell between the two statements of a save,
\* where nothing but types is claimed afterwards.
Alone ==
  overlapped =>
    CASE area \in {"tasks", "teams"} -> FALSE
      [] area = "locations" ->
           ~switchedOn /\ assigned = [p \in Staff |-> [l \in LocationIds |-> "none"]]
      [] area = "vacations" ->
           crashes = 0 /\ \E q \in VacationIds : requests[q] = Vacations!NoRequest
      [] area = "swaps" -> \E w \in Swaps : swaps[w] = ShiftSwap!NoSwap
      [] area \in {"evaluations", "rosters", "handovers", "contracts"} -> ~torn
      [] OTHER -> TRUE
=============================================================================
