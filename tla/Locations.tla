----------------------------- MODULE Locations -----------------------------
(***************************************************************************)
(* The locations of a company and who works where (locations.service.ts):  *)
(* the owner opens, edits and removes locations, a manager assigns people  *)
(* to them.                                                                *)
(***************************************************************************)
EXTENDS Naturals, FiniteSets, Awaits

CONSTANTS
  LocationIds, \* business_locations.id
  People,      \* users
  Quota        \* one location, and those bought as add-ons

VARIABLES
  locations,  \* rows of business_locations
  assigned,   \* rows of user_locations
  switchedOn  \* an edit has made a location active, or undone its removal (history)

vars == <<locations, assigned, switchedOn, pc, local, overlapped>>

Rows == [active : BOOLEAN, removed : BOOLEAN]
Grades == {"none", "secondary", "primary"}
Steps == {"idle", "creating", "updating", "counting", "removing",
          "assigning", "clearing", "saving", "unassigning"}
LocationsAssumption ==
  /\ Quota \in Nat /\ IsFiniteSet(Handlers) /\ Handlers # {}
  /\ None \notin LocationIds \cup Rows

Updates == [place : LocationIds, row : Rows]
Assignments == [place : LocationIds, person : People, grade : Grades]

Init ==
  /\ locations = [l \in LocationIds |-> None]
  /\ assigned = [p \in People |-> [l \in LocationIds |-> "none"]]
  /\ switchedOn = FALSE
  /\ AllIdle(None)

There(l) == locations[l] # None /\ ~locations[l].removed
Active == {l \in LocationIds : There(l) /\ locations[l].active}

Begin(h, step, read) ==
  /\ pc[h] = "idle"
  /\ Goto(h, step) /\ Hold(h, read)
  /\ UNCHANGED <<locations, assigned, switchedOn>>
Return(h) == Goto(h, "idle") /\ Hold(h, None)

-----------------------------------------------------------------------------
\* createLocation counts the active locations, then inserts one.
\* Mutant: off by one.
CreateOneMore(h) == Cardinality(Active) <= Quota /\ Begin(h, "creating", None)
Create(h) == Cardinality(Active) < Quota /\ Begin(h, "creating", None)
CreateSave(h) ==
  /\ pc[h] = "creating"
  /\ \E l \in LocationIds :
       /\ locations[l] = None
       /\ locations' = [locations EXCEPT ![l] = [active |-> TRUE, removed |-> FALSE]]
  /\ Return(h)
  /\ UNCHANGED <<assigned, switchedOn>>

\* updateLocation saves the row as it was read, deleted_at included; the quota is
\* not asked.
Update(h, l) ==
  /\ There(l)
  /\ \E active \in BOOLEAN :
       Begin(h, "updating", [place |-> l, row |-> [locations[l] EXCEPT !.active = active]])
UpdateSave(h) ==
  /\ pc[h] = "updating"
  /\ LET l == local[h].place IN
       /\ locations' = [locations EXCEPT ![l] = local[h].row]
       /\ switchedOn' = (switchedOn \/ l \in Active' \ Active)
  /\ Return(h)
  /\ UNCHANGED assigned

\* deleteLocation counts the people of the location, then sets deleted_at.
\* Mutant: nobody is counted.
RemoveStaffed(h) ==
  /\ pc[h] = "counting"
  /\ Goto(h, "removing")
  /\ UNCHANGED <<locations, assigned, switchedOn, local>>
Delete(h, l) == There(l) /\ Begin(h, "counting", l)
CountAssigned(h) ==
  /\ pc[h] = "counting"
  /\ IF \A p \in People : assigned[p][local[h]] = "none"
       THEN Goto(h, "removing") /\ UNCHANGED local
       ELSE Return(h)
  /\ UNCHANGED <<locations, assigned, switchedOn>>
SoftDelete(h) ==
  /\ pc[h] = "removing"
  /\ locations' = [locations EXCEPT ![local[h]].removed = TRUE]
  /\ Return(h)
  /\ UNCHANGED <<assigned, switchedOn>>

\* assignEmployee: finds the location, then the row; "none" is an isPrimary that is
\* not given.  Only a new primary place clears the others, before it is saved.
Assign(h, l, p) ==
  /\ There(l)
  /\ \E grade \in Grades : Begin(h, "assigning", [place |-> l, person |-> p, grade |-> grade])
FindAssigned(h) ==
  /\ pc[h] = "assigning"
  /\ LET asked == local[h]
         had == assigned[asked.person][asked.place]
         kept == IF had = "none" THEN "secondary" ELSE had
     IN Hold(h, [asked EXCEPT !.grade = IF @ = "none" THEN kept ELSE @])
  /\ Goto(h, IF local[h].grade = "primary" THEN "clearing" ELSE "saving")
  /\ UNCHANGED <<locations, assigned, switchedOn>>
ClearPrimary(h) ==
  /\ pc[h] = "clearing"
  /\ assigned' = [assigned EXCEPT ![local[h].person] =
                    [l \in LocationIds |-> IF @[l] = "primary" THEN "secondary" ELSE @[l]]]
  /\ Goto(h, "saving")
  /\ UNCHANGED <<locations, switchedOn, local>>
AssignSave(h) ==
  /\ pc[h] = "saving"
  /\ assigned' = [assigned EXCEPT ![local[h].person][local[h].place] = local[h].grade]
  /\ Return(h)
  /\ UNCHANGED <<locations, switchedOn>>

Unassign(h, l, p) ==
  /\ There(l)
  /\ Begin(h, "unassigning", [place |-> l, person |-> p, grade |-> "none"])
UnassignDelete(h) ==
  /\ pc[h] = "unassigning"
  /\ assigned' = [assigned EXCEPT ![local[h].person][local[h].place] = "none"]
  /\ Return(h)
  /\ UNCHANGED <<locations, switchedOn>>

HandlerStep(h) ==
  \/ Create(h) \/ CreateSave(h) \/ UpdateSave(h) \/ CountAssigned(h) \/ SoftDelete(h)
  \/ FindAssigned(h) \/ ClearPrimary(h) \/ AssignSave(h) \/ UnassignDelete(h)
  \/ \E l \in LocationIds :
       \/ Update(h, l) \/ Delete(h, l)
       \/ \E p \in People : Assign(h, l, p) \/ Unassign(h, l, p)

Next == \E h \in Handlers : HandlerStep(h) /\ Overlap(h)

Spec == Init /\ [][Next]_vars

-----------------------------------------------------------------------------
TypeOK ==
  /\ locations \in [LocationIds -> OrNone(Rows)]
  /\ assigned \in [People -> [LocationIds -> Grades]]
  /\ switchedOn \in BOOLEAN
  /\ pc \in [Handlers -> Steps]
  /\ local \in [Handlers -> OrNone(LocationIds \cup Updates \cup Assignments)]
  /\ overlapped \in BOOLEAN

\* However handlers interleave, no more locations than the quota are active, and
\* one for each handler but the first, unless an edit has switched one on.
QuotaKept == switchedOn \/ Cardinality(Active) < Quota + Cardinality(Handlers)

\* As long as handlers do not overlap, nobody has two primary places of work
\* ("1인 1개만 true"), and nobody works at a location that was removed.
OnePrimary == ~overlapped =>
  \A p \in People :
    /\ \A k, l \in LocationIds : assigned[p][k] = "primary" /\ assigned[p][l] = "primary" => k = l
    /\ \A l \in LocationIds : assigned[p][l] # "none" => There(l)
=============================================================================
