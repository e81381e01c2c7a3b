------------------------------ MODULE Calendar ------------------------------
(***************************************************************************)
(* The event of a team and with whom it is shared (calendar.service.ts):   *)
(* the leader shares it with another department or decides a member's      *)
(* request to, and whoever shared it revokes.  A share is a row of its     *)
(* own, which nothing but the code keeps from being there twice.           *)
(***************************************************************************)
EXTENDS Naturals, FiniteSets, Awaits

CONSTANTS
  ShareIds,  \* schedule_shares.id, of the event with one department
  RequestIds \* schedule_share_requests.id, likewise

CalendarAssumption == None \notin ShareIds \cup RequestIds

VARIABLES
  event,         \* the row of schedules
  shares,        \* rows of schedule_shares
  shareRequests, \* rows of schedule_share_requests
  granted,       \* requests whose approval has made a share (history)
  died           \* a handler died between two awaits (history)

vars == <<event, shares, shareRequests, granted, died, pc, local, overlapped>>

Events == {"there", "removed"}
ShareStates == {"none", "active", "revoked"}
Statuses == {"none", "pending", "approved", "rejected"}
Steps == {"idle", "editing", "removing", "sharing", "asking", "revoking",
          "approving", "rejecting", "granting"}
Locals == OrNone(ShareIds \cup RequestIds)

Init ==
  /\ event = "there"
  /\ shares = [s \in ShareIds |-> "none"]
  /\ shareRequests = [r \in RequestIds |-> "none"]
  /\ granted = {}
  /\ died = FALSE
  /\ AllIdle(None)

Return(h) == Goto(h, "idle") /\ Hold(h, None)
Begin(h, step, id) ==
  /\ pc[h] = "idle"
  /\ Goto(h, step) /\ Hold(h, id)
  /\ UNCHANGED <<event, shares, shareRequests, granted, died>>

-----------------------------------------------------------------------------
\* updateEvent saves the event as it was read, deleted_at included.
UpdateEvent(h) == event = "there" /\ Begin(h, "editing", None)
UpdateSave(h) ==
  /\ pc[h] = "editing"
  /\ event' = "there"
  /\ Return(h)
  /\ UNCHANGED <<shares, shareRequests, granted, died>>
DeleteEvent(h) == event = "there" /\ Begin(h, "removing", None)
SoftDelete(h) ==
  /\ pc[h] = "removing"
  /\ event' = "removed"
  /\ Return(h)
  /\ UNCHANGED <<shares, shareRequests, granted, died>>

\* shareEvent by the leader: one row of the department is looked at, whichever the
\* database returns; only an active one is in the way.
Share(h) ==
  /\ event = "there"
  /\ \/ \A s \in ShareIds : shares[s] = "none"
     \/ \E s \in ShareIds : shares[s] = "revoked"
  /\ Begin(h, "sharing", None)
Insert(s) == shares[s] = "none" /\ shares' = [shares EXCEPT ![s] = "active"]
ShareSave(h) ==
  /\ pc[h] = "sharing"
  /\ \E s \in ShareIds : Insert(s)
  /\ Return(h)
  /\ UNCHANGED <<event, shareRequests, granted, died>>

\* shareEvent by a member: no request is pending.
\* Mutant: pending requests are not looked for.
AskAgain(h) == event = "there" /\ Begin(h, "asking", None)
Ask(h) ==
  /\ event = "there"
  /\ \A r \in RequestIds : shareRequests[r] # "pending"
  /\ Begin(h, "asking", None)
AskSave(h) ==
  /\ pc[h] = "asking"
  /\ \E r \in RequestIds : shareRequests[r] = "none" /\ shareRequests' = [shareRequests EXCEPT ![r] = "pending"]
  /\ Return(h)
  /\ UNCHANGED <<event, shares, granted, died>>

Revoke(h, s) == shares[s] = "active" /\ Begin(h, "revoking", s)
RevokeSave(h) ==
  /\ pc[h] = "revoking"
  /\ shares' = [shares EXCEPT ![local[h]] = "revoked"]
  /\ Return(h)
  /\ UNCHANGED <<event, shareRequests, granted, died>>

\* decideShareRequest: the request is saved, then the share; it needs the event.
Decide(h, r) ==
  /\ event = "there" /\ shareRequests[r] = "pending"
  /\ \E step \in {"approving", "rejecting"} : Begin(h, step, r)
RejectSave(h) ==
  /\ pc[h] = "rejecting"
  /\ shareRequests' = [shareRequests EXCEPT ![local[h]] = "rejected"]
  /\ Return(h)
  /\ UNCHANGED <<event, shares, granted, died>>
ApproveSave(h) ==
  /\ pc[h] = "approving"
  /\ shareRequests' = [shareRequests EXCEPT ![local[h]] = "approved"]
  /\ Goto(h, "granting")
  /\ UNCHANGED <<event, shares, granted, died, local>>
Grant(h) ==
  /\ pc[h] = "granting"
  /\ \E s \in ShareIds : Insert(s)
  /\ granted' = granted \cup {local[h]}
  /\ Return(h)
  /\ UNCHANGED <<event, shareRequests, died>>

\* The process dies between two awaits.
Crash(h) ==
  /\ InFlight(h)
  /\ died' = TRUE
  /\ Return(h)
  /\ UNCHANGED <<event, shares, shareRequests, granted>>

HandlerStep(h) ==
  \/ UpdateEvent(h) \/ UpdateSave(h) \/ DeleteEvent(h) \/ SoftDelete(h)
  \/ Share(h) \/ ShareSave(h) \/ Ask(h) \/ AskSave(h)
  \/ \E s \in ShareIds : Revoke(h, s)
  \/ \E r \in RequestIds : Decide(h, r)
  \/ RevokeSave(h) \/ RejectSave(h) \/ ApproveSave(h) \/ Grant(h) \/ Crash(h)

Next == \E h \in Handlers : HandlerStep(h) /\ Overlap(h)

Spec == Init /\ [][Next]_vars

-----------------------------------------------------------------------------
TypeOK ==
  /\ event \in Events
  /\ shares \in [ShareIds -> ShareStates]
  /\ shareRequests \in [RequestIds -> Statuses]
  /\ granted \subseteq RequestIds
  /\ died \in BOOLEAN
  /\ pc \in [Handlers -> Steps]
  /\ local \in [Handlers -> Locals]
  /\ overlapped \in BOOLEAN

\* As long as handlers do not overlap: one request at most is pending; what was
\* shared on request was approved; and whenever none is at work and none died,
\* every approved request has made its share.
SharedOnRequest == ~overlapped =>
  /\ \A q, r \in RequestIds : shareRequests[q] = "pending" /\ shareRequests[r] = "pending" => q = r
  /\ \A r \in granted : shareRequests[r] = "approved"
  /\ Quiet /\ ~died => \A r \in RequestIds : shareRequests[r] = "approved" => r \in granted

\* However handlers interleave, a revoked share is not active again and a decided
\* request is not pending again; as long as they do not overlap, a decision stands
\* and a removed event stays removed.
ShareKept ==
  /\ \A s \in ShareIds : shares[s] = "revoked" => shares'[s] = "revoked"
  /\ \A r \in RequestIds : shareRequests[r] \in {"approved", "rejected"} =>
       /\ shareRequests'[r] \in {"approved", "rejected"}
       /\ ~overlapped' => shareRequests'[r] = shareRequests[r]
  /\ ~overlapped' /\ event = "removed" => event' = "removed"
=============================================================================
