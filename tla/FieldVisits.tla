---------------------------- MODULE FieldVisits ----------------------------
(***************************************************************************)
(* Visits in the field (field-visits.service.ts): an employee checks in at *)
(* a place, which may open a task for the journal of the visit, adds       *)
(* vehicle events, and checks out.  The rows are those of one employee.    *)
(* The date is the client's or today's.  The visit, the task and its link  *)
(* are committed one by one, and a handler may end between them.           *)
(***************************************************************************)
EXTENDS Naturals, Awaits

CONSTANTS
  VisitIds,  \* field_visits.id
  Days,      \* visit_date
  MaxEvents  \* bound on the vehicle events of a visit

VisitsAssumption == MaxEvents \in Nat /\ None \notin VisitIds \cup Days

VARIABLES
  visits,   \* rows of field_visits
  journals, \* visits a task was opened for
  orphans   \* those whose handler ended before it linked the task (history)

vars == <<visits, journals, orphans, pc, local, overlapped>>

Rows == [day : OrNone(Days), open : BOOLEAN, events : 0 .. MaxEvents, linked : BOOLEAN]
NoVisit == [day |-> None, open |-> FALSE, events |-> 0, linked |-> FALSE]
Present(v) == visits[v].day # None

Steps == {"idle", "arriving", "writing", "linking", "saving", "updating"}
Locals == [id : OrNone(VisitIds), row : Rows, cols : SUBSET DOMAIN NoVisit]
NoLocal == [id |-> None, row |-> NoVisit, cols |-> {}]

Init ==
  /\ visits = [v \in VisitIds |-> NoVisit]
  /\ journals = {}
  /\ orphans = {}
  /\ AllIdle(NoLocal)

Return(h) == Goto(h, "idle") /\ Hold(h, NoLocal)
JournalsStay == UNCHANGED <<journals, orphans>>

\* Mutant: visits of the day are not looked for.
CheckInAnyway(h, d) ==
  /\ pc[h] = "idle"
  /\ Goto(h, "arriving")
  /\ Hold(h, [NoLocal EXCEPT !.row = [NoVisit EXCEPT !.day = d, !.open = TRUE]])
  /\ UNCHANGED visits /\ JournalsStay
CheckIn(h, d) ==
  /\ pc[h] = "idle"
  /\ \A v \in VisitIds : ~(visits[v].day = d /\ visits[v].open)
  /\ Goto(h, "arriving")
  /\ Hold(h, [NoLocal EXCEPT !.row = [NoVisit EXCEPT !.day = d, !.open = TRUE]])
  /\ UNCHANGED visits /\ JournalsStay

\* The company decides whether a task is opened.
CheckInSave(h) ==
  /\ pc[h] = "arriving"
  /\ \E v \in VisitIds :
       /\ ~Present(v)
       /\ visits' = [visits EXCEPT ![v] = local[h].row]
       /\ \/ Return(h)
          \/ Goto(h, "writing") /\ Hold(h, [NoLocal EXCEPT !.id = v])
  /\ JournalsStay

\* createLinkedTask: the task, then its id in the visit.
TaskSave(h) ==
  /\ pc[h] = "writing"
  /\ journals' = journals \cup {local[h].id}
  /\ Goto(h, "linking")
  /\ UNCHANGED <<visits, orphans, local>>
LinkUpdate(h) ==
  /\ pc[h] = "linking"
  /\ visits' = [visits EXCEPT ![local[h].id].linked = TRUE]
  /\ Return(h)
  /\ JournalsStay

\* A statement fails, or the process dies.
Crash(h) ==
  /\ InFlight(h)
  /\ orphans' = IF pc[h] = "linking" THEN orphans \cup {local[h].id} ELSE orphans
  /\ Return(h)
  /\ UNCHANGED <<visits, journals>>

\* A visit that is still open, and what is to change in it.
Load(h, v, row, stamped) ==
  /\ pc[h] = "idle"
  /\ Present(v) /\ visits[v].open
  /\ Goto(h, "saving") /\ Hold(h, [id |-> v, row |-> row, cols |-> stamped])
  /\ UNCHANGED visits /\ JournalsStay
CheckOut(h, v) == Load(h, v, [visits[v] EXCEPT !.open = FALSE], {"open"})
AddEvent(h, v) ==
  visits[v].events < MaxEvents /\ Load(h, v, [visits[v] EXCEPT !.events = @ + 1], {"events"})

\* visitRepo.save
SaveSelect(h) == Compare(h, visits[local[h].id]) /\ UNCHANGED visits /\ JournalsStay
Save(h) ==
  /\ pc[h] = "updating"
  /\ visits' = [visits EXCEPT ![local[h].id] = Merged(@, local[h].row, local[h].cols)]
  /\ Return(h)
  /\ JournalsStay

HandlerStep(h) ==
  \/ \E d \in Days : CheckIn(h, d)
  \/ CheckInSave(h) \/ TaskSave(h) \/ LinkUpdate(h)
  \/ \E v \in VisitIds : CheckOut(h, v) \/ AddEvent(h, v)
  \/ SaveSelect(h) \/ Save(h)
  \/ Crash(h)

Next == \E h \in Handlers : HandlerStep(h) /\ Overlap(h)

Spec == Init /\ [][Next]_vars

-----------------------------------------------------------------------------
TypeOK ==
  /\ visits \in [VisitIds -> Rows]
  /\ journals \subseteq VisitIds /\ orphans \subseteq VisitIds
  /\ pc \in [Handlers -> Steps]
  /\ local \in [Handlers -> Locals]
  /\ overlapped \in BOOLEAN

\* As long as handlers do not overlap, an employee has one open visit a day at
\* most; whatever overlaps, a visit is linked only to a task opened for it, and
\* when nothing overlapped and none is at work, to every such task but those whose
\* handler ended between the task and the link.
OneOpenVisit ==
  /\ ~overlapped => \A v, w \in VisitIds :
       visits[v].open /\ visits[w].open /\ visits[v].day = visits[w].day => v = w
  /\ \A v \in VisitIds : visits[v].linked => v \in journals
  /\ ~overlapped /\ Quiet => \A v \in journals : visits[v].linked <=> v \notin orphans

\* As long as handlers do not overlap, a visit that is over changes no more and
\* vehicle events only come to be added.
VisitKept == ~overlapped' => \A v \in VisitIds :
  /\ Present(v) /\ ~visits[v].open => visits'[v] = visits[v]
  /\ visits'[v].events \in {visits[v].events, visits[v].events + 1}
=============================================================================
