----------------------------- MODULE Vacations -----------------------------
(***************************************************************************)
(* Leave requests of one employee and the balance of one year              *)
(* (vacations.service.ts).  Handlers of several people - the employee, the *)
(* team leader, managers - run concurrently; none opens a transaction, so  *)
(* every await is a point where another one may step in.                   *)
(*                                                                         *)
(* Repository.save writes every column in which the entity in hand differs *)
(* from the row, so a row read earlier overwrites what was saved since,    *)
(* the deletion mark included.  The attendance rows which approve creates  *)
(* for a business trip are the subject of Attendance.                      *)
(***************************************************************************)
EXTENDS Integers, FiniteSetsExt, Awaits

CONSTANTS
  Ids,        \* vacation_requests.id
  Days,       \* lengths asked for, in half days
  Totals,     \* totals (with the manual adjustment) an administrator sets
  MaxCrashes  \* bound on handlers that die between two awaits

DaysAssumption == Days \subseteq Nat \ {0} /\ Totals \subseteq Nat /\ MaxCrashes \in Nat
NoneAssumption == None \notin Ids

VARIABLES
  requests, \* rows of vacation_requests
  balance,  \* the row of vacation_balances; exists tells whether there is one
  crashes

vars == <<requests, balance, pc, local, crashes, overlapped>>

Statuses == {"none", "pending", "approved", "rejected", "cancelled"}
Kinds == {"annual", "other"}   \* annual stands for DEDUCTIBLE_TYPES
Requests == [status : Statuses, kind : Kinds, days : Days \cup {0}, deleted : BOOLEAN]
Balances == [exists : BOOLEAN, total : Nat, used : Nat]

Steps == {"idle", "creating", "approving", "rejecting", "cancelling", "removing",
          "counting",  \* incrementUsed is about to read the balance
          "counted",   \* incrementUsed is about to save it
          "setting"}   \* setBalance is about to save it

NoRequest == [status |-> "none", kind |-> "other", days |-> 0, deleted |-> FALSE]
NoBalance == [exists |-> FALSE, total |-> 0, used |-> 0]
NoLocal == [id |-> None, req |-> NoRequest, delta |-> 0, bal |-> NoBalance]

Init ==
  /\ requests = [q \in Ids |-> NoRequest]
  /\ balance = NoBalance
  /\ AllIdle(NoLocal)
  /\ crashes = 0

AtLeastZero(n) == IF n > 0 THEN n ELSE 0

\* getBalanceForUser: no row counts as a balance of 0, and less than 0 as 0.
Remaining == AtLeastZero(balance.total - balance.used)

Return(h) == Goto(h, "idle") /\ Hold(h, NoLocal)

-----------------------------------------------------------------------------
(***************************************************************************)
(* create: the check of the balance, later the INSERT.                     *)
(***************************************************************************)
Create(h, q, kind, n) ==
  /\ pc[h] = "idle"
  /\ requests[q].status = "none"
  /\ \A g \in Handlers : local[g].id # q   \* ids are fresh
  /\ kind = "annual" => n <= Remaining
  /\ Goto(h, "creating")
  /\ local' = [local EXCEPT ![h].id = q, ![h].req =
                 [status |-> "pending", kind |-> kind, days |-> n, deleted |-> FALSE]]
  /\ UNCHANGED <<requests, balance, crashes>>

CreateInsert(h) ==
  /\ pc[h] = "creating"
  /\ requests' = [requests EXCEPT ![local[h].id] = local[h].req]
  /\ Return(h)
  /\ UNCHANGED <<balance, crashes>>

-----------------------------------------------------------------------------
(***************************************************************************)
(* approve, reject, cancel, remove: getReqOrFail and the checks, then the  *)
(* save of the row that was read.                                          *)
(***************************************************************************)
Exists(q) == requests[q].status # "none" /\ ~requests[q].deleted

Find(h, q, step) ==
  /\ pc[h] = "idle"
  /\ Exists(q)
  /\ Goto(h, step)
  /\ local' = [local EXCEPT ![h].id = q, ![h].req = requests[q]]
  /\ UNCHANGED <<requests, balance, crashes>>

\* Mutant: a rejected request may be approved later.
ApproveUndecided(h, q) == requests[q].status \in {"pending", "rejected"} /\ Find(h, q, "approving")
Approve(h, q) == requests[q].status = "pending" /\ Find(h, q, "approving")
Reject(h, q) == requests[q].status = "pending" /\ Find(h, q, "rejecting")
Cancel(h, q) == requests[q].status # "cancelled" /\ Find(h, q, "cancelling")
Remove(h, q) == requests[q].status # "approved" /\ Find(h, q, "removing")

Save(h, status) ==
  requests' = [requests EXCEPT ![local[h].id] = [local[h].req EXCEPT !.status = status]]

\* What follows the save: incrementUsed with delta, or the answer.
Count(h, delta) ==
  /\ Goto(h, "counting")
  /\ local' = [local EXCEPT ![h].delta = delta]

ApproveSave(h) ==
  /\ pc[h] = "approving"
  /\ Save(h, "approved")
  /\ IF local[h].req.kind = "annual" THEN Count(h, local[h].req.days) ELSE Return(h)
  /\ UNCHANGED <<balance, crashes>>

RejectSave(h) ==
  /\ pc[h] = "rejecting"
  /\ Save(h, "rejected")
  /\ Return(h)
  /\ UNCHANGED <<balance, crashes>>

\* Mutant: a cancelled request gives its days back whether or not it took any.
TakesDays(req) == req.kind = "annual"
WasCounted(req) == req.status = "approved" /\ req.kind = "annual"

CancelSave(h) ==
  /\ pc[h] = "cancelling"
  /\ Save(h, "cancelled")
  /\ IF WasCounted(local[h].req) THEN Count(h, -local[h].req.days) ELSE Return(h)
  /\ UNCHANGED <<balance, crashes>>

\* softDelete is an UPDATE of deleted_at alone.
RemoveSave(h) ==
  /\ pc[h] = "removing"
  /\ requests' = [requests EXCEPT ![local[h].id].deleted = TRUE]
  /\ Return(h)
  /\ UNCHANGED <<balance, crashes>>

-----------------------------------------------------------------------------
(***************************************************************************)
(* The balance: read, change, save.                                        *)
(***************************************************************************)
ReadBalance(h) == local' = [local EXCEPT ![h].bal = balance]

IncrementRead(h) ==
  /\ pc[h] = "counting"
  /\ ReadBalance(h)
  /\ Goto(h, "counted")
  /\ UNCHANGED <<requests, balance, crashes>>

\* An INSERT of a second row breaks the unique index: the handler throws.
SaveBalance(h, bal) ==
  /\ balance' = IF local[h].bal.exists \/ ~balance.exists THEN bal ELSE balance
  /\ Return(h)
  /\ UNCHANGED <<requests, crashes>>

\* Mutant: the sum is saved as it is.
SignedSum(used, delta) == used + delta
NewUsed(used, delta) == AtLeastZero(used + delta)

IncrementSave(h) ==
  /\ pc[h] = "counted"
  /\ SaveBalance(h, [local[h].bal EXCEPT !.exists = TRUE, !.used = NewUsed(@, local[h].delta)])

SetBalance(h) ==
  /\ pc[h] = "idle"
  /\ ReadBalance(h)
  /\ Goto(h, "setting")
  /\ UNCHANGED <<requests, balance, crashes>>

SetBalanceSave(h, n) ==
  /\ pc[h] = "setting"
  /\ SaveBalance(h, [local[h].bal EXCEPT !.exists = TRUE, !.total = n])

\* The process dies, or a query throws, between two awaits.
Crash(h) ==
  /\ pc[h] # "idle"
  /\ crashes < MaxCrashes
  /\ crashes' = crashes + 1
  /\ Return(h)
  /\ UNCHANGED <<requests, balance>>

HandlerStep(h) ==
  \/ CreateInsert(h)
  \/ \E q \in Ids : \/ \E kind \in Kinds, n \in Days : Create(h, q, kind, n)
                    \/ Approve(h, q) \/ Reject(h, q) \/ Cancel(h, q) \/ Remove(h, q)
  \/ ApproveSave(h) \/ RejectSave(h) \/ CancelSave(h) \/ RemoveSave(h)
  \/ IncrementRead(h) \/ IncrementSave(h)
  \/ SetBalance(h)
  \/ \E n \in Totals : SetBalanceSave(h, n)
  \/ Crash(h)

Next == \E h \in Handlers :
  /\ HandlerStep(h)
  /\ Overlap(h)

Spec == Init /\ [][Next]_vars

-----------------------------------------------------------------------------
\* Types.  That used is a natural number is the point of Math.max in
\* incrementUsed: two cancellations of one approved leave both give its days back.
TypeOK ==
  /\ requests \in [Ids -> Requests]
  /\ balance \in Balances
  /\ pc \in [Handlers -> Steps]
  /\ local \in [Handlers -> [id : Ids \cup {None}, req : Requests, delta : Int, bal : Balances]]
  /\ crashes \in 0 .. MaxCrashes
  /\ overlapped \in BOOLEAN

Counted == {q \in Ids : WasCounted(requests[q])}

\* used_days is "summed up from the approved requests" (vacation-balance.entity):
\* whenever no handler is at work it is the sum of their days.  Holds as long as
\* the handlers come one after the other, whatever their order, and none dies.
UsedIsApproved ==
  Quiet /\ ~overlapped /\ crashes = 0
    => balance.used = MapThenSumSet(LAMBDA q : requests[q].days, Counted)

\* A decision is made once, on a pending request; afterwards the request can only
\* be cancelled, and what was cancelled or deleted stays so.  Holds, deaths of
\* handlers included, as long as handlers do not overlap.
DecisionKept ==
  ~overlapped' =>
    \A q \in Ids :
      /\ requests'[q].status # requests[q].status =>
           \/ requests[q].status \in {"none", "pending"}
           \/ requests'[q].status = "cancelled"
      /\ requests[q].deleted => requests'[q] = requests[q]
=============================================================================
