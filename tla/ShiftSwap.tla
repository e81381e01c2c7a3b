----------------------------- MODULE ShiftSwap -----------------------------
(***************************************************************************)
(* Exchanging shifts (shift-swap.service.ts): an employee offers a shift   *)
(* to one colleague in exchange for one of theirs ("swap") or to whoever   *)
(* volunteers ("cover"), and a manager decides.  Meanwhile managers edit   *)
(* and delete assignments and employees confirm them                       *)
(* (shift-schedule.service.ts).                                            *)
(*                                                                         *)
(* A handler reads its rows, checks them, and saves the entities later;    *)
(* only approve opens a transaction, after its reads.  Saving an entity    *)
(* whose row was deleted meanwhile inserts it again.  The save of an       *)
(* assignment is one step: of assignments nothing is said that depends on  *)
(* its two statements.                                                     *)
(***************************************************************************)
EXTENDS Naturals, Awaits

CONSTANTS
  Users,
  Shifts,   \* shift_assignments.id
  Swaps     \* shift_swap_requests.id

NoneAssumption == None \notin Users \cup Shifts \cup Swaps

VARIABLES
  worker, \* user_id of the assignment; None when there is no such row
  swaps,  \* rows of shift_swap_requests
  torn    \* a request changed between the SELECT and the UPDATE of a save (history)

vars == <<worker, swaps, pc, local, overlapped, torn>>

Types == {"swap", "cover"}
Statuses == {"none", "pending_peer", "pending_approval", "approved", "peer_declined",
             "rejected", "cancelled"}
SwapRows == [status : Statuses, type : Types, requester : OrNone(Users), shift : OrNone(Shifts),
             target : OrNone(Users), targetShift : OrNone(Shifts)]

NoSwap == [status |-> "none", type |-> "cover", requester |-> None, shift |-> None,
           target |-> None, targetShift |-> None]

\* id: the swap, or the assignment being edited.  mine and theirs: user_id of
\* the assignments that were loaded with it.
NoLocal == [id |-> None, row |-> NoSwap, cols |-> {}, mine |-> None, theirs |-> None]

Steps == {"idle", "creating", "saving", "updating", "approving", "editing"}

Init ==
  /\ worker \in [Shifts -> Users]
  /\ swaps = [w \in Swaps |-> NoSwap]
  /\ torn = FALSE
  /\ AllIdle(NoLocal)

Return(h) == Goto(h, "idle") /\ Hold(h, NoLocal)

WorkerOf(s) == IF s = None THEN None ELSE worker[s]

\* findOne and what is set; then the handler suspends in save.
Load(h, w, row) ==
  /\ pc[h] = "idle"
  /\ Goto(h, "saving") /\ Hold(h, [NoLocal EXCEPT !.id = w, !.row = row])
  /\ UNCHANGED <<worker, swaps>>

\* The foreign keys make a statement throw when it names an assignment that is gone.
Referable(s) == s = None \/ worker[s] # None
Write(h, row) ==
  /\ swaps' = IF Referable(row.shift) /\ Referable(row.targetShift)
                THEN [swaps EXCEPT ![local[h].id] = row] ELSE swaps
  /\ Return(h)
  /\ UNCHANGED worker
\* swapRepo.save
SaveSelect(h) == Compare(h, swaps[local[h].id]) /\ UNCHANGED <<worker, swaps>>
Save(h) ==
  /\ pc[h] = "updating"
  /\ Write(h, Merged(swaps[local[h].id], local[h].row, local[h].cols))

-----------------------------------------------------------------------------
(***************************************************************************)
(* The two employees.                                                      *)
(***************************************************************************)
Open(row) == row.status \in {"pending_peer", "pending_approval"}

\* Mutant: a request the colleague has accepted does not count.
NoneWaitsForAPeer(s) ==
  \A w \in Swaps : swaps[w].status = "pending_peer" => swaps[w].shift # s
NotOffered(s) == \A w \in Swaps : Open(swaps[w]) => swaps[w].shift # s

\* The colleague whom the author of a cover may name is stored as it is.
Create(h, w, s, type, t, target) ==
  /\ pc[h] = "idle"
  /\ swaps[w].status = "none"
  /\ \A g \in Handlers : local[g].id # w   \* ids are fresh
  /\ worker[s] # None
  /\ NotOffered(s)
  /\ \/ type = "cover" /\ t = None
     \/ type = "swap" /\ target \notin {None, worker[s]} /\ WorkerOf(t) = target
  /\ Goto(h, "creating")
  /\ local' = [local EXCEPT ![h] = [NoLocal EXCEPT !.id = w, !.row =
       [status |-> "pending_peer", type |-> type, requester |-> worker[s], shift |-> s,
        target |-> target, targetShift |-> t]]]
  /\ UNCHANGED <<worker, swaps>>

CreateSave(h) == pc[h] = "creating" /\ Write(h, local[h].row)

PeerRespond(h, w) ==
  /\ swaps[w].status = "pending_peer" /\ swaps[w].type = "swap"
  /\ \E answer \in {"pending_approval", "peer_declined"} :
       Load(h, w, [swaps[w] EXCEPT !.status = answer])

\* Mutant: the requester may volunteer.
VolunteerSelf(h, w) ==
  /\ swaps[w].status = "pending_peer" /\ swaps[w].type = "cover"
  /\ \E u \in Users : Load(h, w, [swaps[w] EXCEPT !.status = "pending_approval", !.target = u])
Volunteer(h, w) ==
  /\ swaps[w].status = "pending_peer" /\ swaps[w].type = "cover"
  /\ \E u \in Users \ {swaps[w].requester} :
       Load(h, w, [swaps[w] EXCEPT !.status = "pending_approval", !.target = u])

\* The requester or a manager.
Cancel(h, w) ==
  /\ swaps[w].status \in {"pending_peer", "peer_declined"}
  /\ Load(h, w, [swaps[w] EXCEPT !.status = "cancelled"])

-----------------------------------------------------------------------------
(***************************************************************************)
(* The manager's decision.                                                 *)
(***************************************************************************)
\* findOne with the assignments.
Approve(h, w) ==
  /\ pc[h] = "idle"
  /\ swaps[w].status = "pending_approval"
  /\ Goto(h, "approving")
  /\ Hold(h, [NoLocal EXCEPT !.id = w, !.row = swaps[w], !.mine = WorkerOf(swaps[w].shift),
                             !.theirs = WorkerOf(swaps[w].targetShift)])
  /\ UNCHANGED <<worker, swaps>>

\* The user_ids that approve writes: those it has read, crosswise.  With an
\* assignment gone before the read, or without a volunteer, nothing is exchanged.
Exchanged(h) ==
  LET swap == local[h].row IN
  CASE swap.type = "swap" /\ local[h].mine # None /\ local[h].theirs # None ->
         [worker EXCEPT ![swap.shift] = local[h].theirs, ![swap.targetShift] = local[h].mine]
    [] swap.type = "cover" /\ local[h].mine # None /\ swap.target # None ->
         [worker EXCEPT ![swap.shift] = swap.target]
    [] OTHER -> worker

\* Mutant: the status is not updated.
ApproveSilently(h) ==
  /\ pc[h] = "approving"
  /\ worker' = Exchanged(h)
  /\ Return(h)
  /\ UNCHANGED swaps
\* The transaction; its UPDATE of the request sets the status alone.
ApproveCommit(h) ==
  /\ pc[h] = "approving"
  /\ worker' = Exchanged(h)
  /\ swaps' = [swaps EXCEPT ![local[h].id].status = "approved"]
  /\ Return(h)

\* A rejected cover is open again, for another volunteer.
Reject(h, w) ==
  /\ swaps[w].status = "pending_approval"
  /\ Load(h, w, IF swaps[w].type = "cover"
                  THEN [swaps[w] EXCEPT !.status = "pending_peer", !.target = None]
                  ELSE [swaps[w] EXCEPT !.status = "rejected"])

-----------------------------------------------------------------------------
(***************************************************************************)
(* The roster.                                                             *)
(***************************************************************************)
\* upsertAssignments or confirmAssignment has found the row, to write other
\* columns of it; user_id is saved along.
Edit(h, s) ==
  /\ pc[h] = "idle"
  /\ worker[s] # None
  /\ Goto(h, "editing")
  /\ local' = [local EXCEPT ![h] = [NoLocal EXCEPT !.id = s, !.mine = worker[s]]]
  /\ UNCHANGED <<worker, swaps>>

EditSave(h) ==
  /\ pc[h] = "editing"
  /\ worker' = [worker EXCEPT ![local[h].id] = local[h].mine]
  /\ Return(h)
  /\ UNCHANGED swaps

\* upsertAssignments finds no row and inserts one; its id is fresh.
Named(s) ==
  \/ \E w \in Swaps : s \in {swaps[w].shift, swaps[w].targetShift}
  \/ \E h \in Handlers : s \in {local[h].id, local[h].row.shift, local[h].row.targetShift}

Assign(h, s, u) ==
  /\ pc[h] = "idle"
  /\ worker[s] = None /\ ~Named(s)
  /\ worker' = [worker EXCEPT ![s] = u]
  /\ UNCHANGED <<swaps, pc, local>>

\* deleteAssignment; ON DELETE SET NULL empties the columns that name the row.
Without(s, col) == IF col = s THEN None ELSE col
DeleteAssignment(h, s) ==
  /\ pc[h] = "idle"
  /\ worker[s] # None
  /\ worker' = [worker EXCEPT ![s] = None]
  /\ swaps' = [w \in Swaps |-> [swaps[w] EXCEPT !.shift = Without(s, @),
                                                !.targetShift = Without(s, @)]]
  /\ UNCHANGED <<pc, local>>

-----------------------------------------------------------------------------
HandlerStep(h) ==
  \/ \E w \in Swaps :
       \/ \E s \in Shifts, type \in Types, t \in OrNone(Shifts), u \in OrNone(Users) :
            Create(h, w, s, type, t, u)
       \/ PeerRespond(h, w) \/ Volunteer(h, w) \/ Cancel(h, w)
       \/ Approve(h, w) \/ Reject(h, w)
  \/ CreateSave(h) \/ SaveSelect(h) \/ Save(h) \/ ApproveCommit(h)
  \/ \E s \in Shifts : Edit(h, s) \/ DeleteAssignment(h, s) \/ \E u \in Users : Assign(h, s, u)
  \/ EditSave(h)

Tear(h) ==
  torn' = (torn \/ \E g \in Handlers \ {h} :
                     pc[g] = "updating" /\ swaps'[local[g].id] # swaps[local[g].id])

Next == \E h \in Handlers : HandlerStep(h) /\ Overlap(h) /\ Tear(h)

Spec == Init /\ [][Next]_vars

-----------------------------------------------------------------------------
\* Types, and no request names an assignment that is not there.
TypeOK ==
  /\ worker \in [Shifts -> OrNone(Users)]
  /\ swaps \in [Swaps -> SwapRows]
  /\ pc \in [Handlers -> Steps]
  /\ local \in [Handlers -> [id : OrNone(Swaps \cup Shifts), row : SwapRows,
                             cols : SUBSET DOMAIN NoSwap, mine : OrNone(Users), theirs : OrNone(Users)]]
  /\ overlapped \in BOOLEAN /\ torn \in BOOLEAN
  /\ \A w \in Swaps :
       {swaps[w].shift, swaps[w].targetShift} \subseteq OrNone({s \in Shifts : worker[s] # None})

\* However handlers interleave, what a manager is asked to approve has two different
\* parties: in a swap always, in a cover unless an UPDATE fell between the two
\* statements of another save.
ReadyForApproval ==
  \A w \in Swaps :
    swaps[w].status = "pending_approval" /\ (torn => swaps[w].type = "swap") =>
      swaps[w].target \in Users \ {swaps[w].requester}

\* "This shift already has a request under way": handlers that do not overlap
\* never open two requests that offer one shift, also not by putting a rejected
\* cover back on the board.
OfferedOnce ==
  ~overlapped =>
    \A v, w \in Swaps :
      v # w /\ Open(swaps[v]) /\ Open(swaps[w]) /\ swaps[v].shift # None
        => swaps[v].shift # swaps[w].shift

\* As long as handlers do not overlap, approved, rejected and cancelled are final,
\* and a declined request can only be cancelled.
DecisionKept ==
  ~overlapped' =>
    \A w \in Swaps : swaps'[w].status # swaps[w].status =>
      \/ swaps[w].status = "none" \/ Open(swaps[w])
      \/ swaps[w].status = "peer_declined" /\ swaps'[w].status = "cancelled"

\* As long as handlers do not overlap, a shift passes from one employee to
\* another only in the step that approves a request: editing and confirming an
\* assignment, and every other answer to a request, leave the roster alone.
RosterKept ==
  ~overlapped' /\ (\E s \in Shifts : worker[s] # worker'[s] /\ None \notin {worker[s], worker'[s]})
    => \E w \in Swaps : swaps[w].status = "pending_approval" /\ swaps'[w].status = "approved"

=============================================================================
