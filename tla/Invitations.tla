---------------------------- MODULE Invitations ----------------------------
(***************************************************************************)
(* How people get an account in a company: an invitation by e-mail or SMS  *)
(* (users.service.ts), or a link for one person or for a group             *)
(* (invitations.service.ts).  Both services work on the same table and     *)
(* accept the same tokens.                                                 *)
(*                                                                         *)
(* A handler reads the invitation, hashes the password, which takes a      *)
(* while, and then writes; joinViaLink writes in a transaction, whose      *)
(* conditional UPDATE it does not check.  save() of an entity writes       *)
(* whatever differs from the row, and inserts a row that was deleted.      *)
(***************************************************************************)
EXTENDS Naturals, Awaits

CONSTANTS
  Invites,  \* invite_tokens.id
  Emails,   \* addresses; each has at most one account in the company
  Limits    \* values of max_uses that are tried

LimitsAssumption == Limits \subseteq Nat \ {0}
NoneAssumption == None \notin Invites \cup Emails \cup Nat

VARIABLES
  invites,   \* rows of invite_tokens
  members,   \* addresses with an account
  made       \* accounts made with each invitation (history)

vars == <<invites, members, made, pc, local, overlapped>>

\* invite_type, and link_kind of a link.
Kinds == {"email", "phone", "group", "personal"}
Statuses == {"none", "pending", "accepted", "expired", "canceled"}
Rows == [status : Statuses, kind : Kinds, email : OrNone(Emails), max : OrNone(Limits),
         used : Nat, over : BOOLEAN]

NoRow == [status |-> "none", kind |-> "group", email |-> None, max |-> None, used |-> 0,
          over |-> FALSE]
NoLocal == [id |-> None, row |-> NoRow, email |-> None]
Steps == {"idle", "inviting", "saving", "accepting", "counting", "joining", "canceling",
          "closing", "expiring", "resending", "deleting"}

Init ==
  /\ invites = [i \in Invites |-> NoRow]
  /\ members = {}
  /\ made = [i \in Invites |-> 0]
  /\ AllIdle(NoLocal)

Return(h) == Goto(h, "idle") /\ Hold(h, NoLocal)
Fresh(i) == invites[i].status = "none" /\ made[i] = 0 /\ \A h \in Handlers : local[h].id # i
IsLink(row) == row.kind \in {"group", "personal"}

Find(h, i, e, step) ==
  /\ pc[h] = "idle"
  /\ invites[i].status # "none"
  /\ Goto(h, step)
  /\ local' = [local EXCEPT ![h] = [id |-> i, row |-> invites[i], email |-> e]]
  /\ UNCHANGED <<invites, members, made>>

\* UPDATE ... WHERE id = :id finds no deleted row.
Set(i, row) == invites' = IF invites[i].status = "none" THEN invites ELSE [invites EXCEPT ![i] = row]

-----------------------------------------------------------------------------
(***************************************************************************)
(* Managers.                                                               *)
(***************************************************************************)
\* inviteUser: the address has no account; what it was sent before is
\* canceled; a new invitation is saved.  The three are separate statements.
\* inviteByPhone is alike, with no check; a number stands for an address here.
Invite(h, i, kind, e) ==
  /\ pc[h] = "idle"
  /\ Fresh(i)
  /\ kind \in {"email", "phone"}
  /\ kind = "email" => e \notin members
  /\ Goto(h, "inviting")
  /\ local' = [local EXCEPT ![h] =
       [id |-> i, email |-> e, row |-> [NoRow EXCEPT !.status = "pending", !.kind = kind, !.email = e]]]
  /\ UNCHANGED <<invites, members, made>>

InviteCancel(h) ==
  LET sent == local[h].row IN
  /\ pc[h] = "inviting"
  /\ invites' = [i \in Invites |->
       IF /\ invites[i].status = "pending"
          /\ invites[i].email = sent.email
          /\ sent.kind = "phone" <=> invites[i].kind = "phone"
       THEN [invites[i] EXCEPT !.status = "canceled"] ELSE invites[i]]
  /\ Goto(h, "saving")
  /\ UNCHANGED <<members, made, local>>

InviteSave(h) ==
  /\ pc[h] = "saving"
  /\ invites' = [invites EXCEPT ![local[h].id] = local[h].row]
  /\ Return(h)
  /\ UNCHANGED <<members, made>>

\* createShareableLink, createLink.  A personal link is for one use.
CreateLink(h, i, kind, e, max) ==
  /\ pc[h] = "idle"
  /\ Fresh(i)
  /\ \/ kind = "group" /\ e = None
     \/ kind = "personal" /\ max = 1
  /\ invites' = [invites EXCEPT ![i] =
       [NoRow EXCEPT !.status = "pending", !.kind = kind, !.email = e, !.max = max]]
  /\ UNCHANGED <<members, made, pc, local>>

\* cancelInvite: of a pending one.
Cancel(h, i) == invites[i].status = "pending" /\ Find(h, i, None, "canceling")
CancelUpdate(h) ==
  /\ pc[h] = "canceling"
  /\ Set(local[h].id, [invites[local[h].id] EXCEPT !.status = "canceled"])
  /\ Return(h)
  /\ UNCHANGED <<members, made>>

\* cancelLink: of any; the entity is saved as it was read.
CancelLink(h, i) == Find(h, i, None, "closing")
CancelLinkSave(h) ==
  /\ pc[h] = "closing"
  /\ invites' = [invites EXCEPT ![local[h].id] = [local[h].row EXCEPT !.status = "canceled"]]
  /\ Return(h)
  /\ UNCHANGED <<members, made>>

DeleteLink(h, i) == Find(h, i, None, "deleting")
DeleteLinkNow(h) ==
  /\ pc[h] = "deleting"
  /\ invites' = [invites EXCEPT ![local[h].id] = NoRow]
  /\ Return(h)
  /\ UNCHANGED <<members, made>>

\* resendInvite: of any status, with a new token.
Resend(h, i) == Find(h, i, None, "resending")
ResendUpdate(h) ==
  /\ pc[h] = "resending"
  /\ Set(local[h].id, [invites[local[h].id] EXCEPT !.status = "pending", !.over = FALSE])
  /\ Return(h)
  /\ UNCHANGED <<members, made>>

\* findInvites: one UPDATE of all that are over.
ListInvites(h) ==
  /\ pc[h] = "idle"
  /\ invites' = [i \in Invites |->
       IF invites[i].status = "pending" /\ invites[i].over
         THEN [invites[i] EXCEPT !.status = "expired"] ELSE invites[i]]
  /\ UNCHANGED <<members, made, pc, local>>

Lapse(i) ==
  /\ invites[i].status # "none" /\ ~invites[i].over
  /\ invites' = [invites EXCEPT ![i].over = TRUE]
  /\ UNCHANGED <<members, made, pc, local>>

-----------------------------------------------------------------------------
(***************************************************************************)
(* Invited people.                                                         *)
(***************************************************************************)
\* getInviteInfo and acceptInvite find a pending invitation that is over.
FindOver(h, i) ==
  /\ invites[i].status = "pending" /\ invites[i].over
  /\ Find(h, i, None, "expiring")
ExpireUpdate(h) ==
  /\ pc[h] = "expiring"
  /\ Set(local[h].id, [invites[local[h].id] EXCEPT !.status = "expired"])
  /\ Return(h)
  /\ UNCHANGED <<members, made>>

Full(row) == row.max # None /\ row.used >= row.max

\* Mutant: the limit is not looked at.
AcceptAny(h, i, e) ==
  /\ invites[i].status = "pending" /\ ~invites[i].over
  /\ invites[i].kind = "email" => e = invites[i].email
  /\ e \notin members
  /\ Find(h, i, e, "accepting")
\* acceptInvite, up to the hash of the password.
Accept(h, i, e) ==
  /\ invites[i].status = "pending" /\ ~invites[i].over
  /\ ~(IsLink(invites[i]) /\ Full(invites[i]))
  /\ invites[i].kind = "email" => e = invites[i].email
  /\ e \notin members
  /\ Find(h, i, e, "accepting")

\* The unique index on the address refuses a second account.
AcceptSave(h) ==
  /\ pc[h] = "accepting"
  /\ IF local[h].email \in members
       THEN Return(h) /\ UNCHANGED <<members, made>>
       ELSE /\ members' = members \cup {local[h].email}
            /\ made' = [made EXCEPT ![local[h].id] = @ + 1]
            /\ Goto(h, "counting")
            /\ UNCHANGED local
  /\ UNCHANGED invites

\* used_count is the one read, plus one.
AcceptCount(h) ==
  LET i == local[h].id IN
  /\ pc[h] = "counting"
  /\ Set(i, IF IsLink(local[h].row) THEN [invites[i] EXCEPT !.used = local[h].row.used + 1]
                                    ELSE [invites[i] EXCEPT !.status = "accepted"])
  /\ Return(h)
  /\ UNCHANGED <<members, made>>

\* validateLinkUsable.  It takes invitations of every type.
\* Mutant: a link that was canceled still works.
NotFull(row) == ~row.over /\ ~Full(row) /\ ~(row.status = "accepted" /\ row.kind = "personal")
Usable(row) ==
  /\ row.status # "canceled"
  /\ ~(row.status = "accepted" /\ row.kind = "personal")
  /\ ~row.over
  /\ ~Full(row)

\* joinViaLink, up to the hash of the password.
Join(h, i, e) ==
  /\ Usable(invites[i])
  /\ invites[i].kind = "personal" /\ invites[i].email # None => e = invites[i].email
  /\ e \notin members
  /\ Find(h, i, e, "joining")

\* The transaction: the account, then UPDATE ... WHERE used_count < max_uses.
JoinCommit(h) ==
  LET i == local[h].id row == local[h].row IN
  /\ pc[h] = "joining"
  /\ IF local[h].email \in members
       THEN UNCHANGED <<invites, members, made>>
       ELSE /\ members' = members \cup {local[h].email}
            /\ made' = [made EXCEPT ![i] = @ + 1]
            /\ IF Full(invites[i]) THEN UNCHANGED invites
               ELSE Set(i, [invites[i] EXCEPT
                              !.used = @ + 1,
                              !.status = IF row.kind = "personal" THEN "accepted" ELSE row.status])
  /\ Return(h)

-----------------------------------------------------------------------------
HandlerStep(h) ==
  \/ \E i \in Invites :
       \/ \E e \in Emails : Accept(h, i, e) \/ Join(h, i, e) \/ \E kind \in Kinds : Invite(h, i, kind, e)
       \/ \E kind \in Kinds, e \in OrNone(Emails), max \in OrNone(Limits) : CreateLink(h, i, kind, e, max)
       \/ Cancel(h, i) \/ CancelLink(h, i) \/ DeleteLink(h, i) \/ Resend(h, i) \/ FindOver(h, i)
  \/ InviteCancel(h) \/ InviteSave(h) \/ CancelUpdate(h) \/ CancelLinkSave(h) \/ DeleteLinkNow(h)
  \/ ResendUpdate(h) \/ ListInvites(h) \/ ExpireUpdate(h)
  \/ AcceptSave(h) \/ AcceptCount(h) \/ JoinCommit(h)

Next ==
  \/ \E h \in Handlers :
       /\ HandlerStep(h)
       /\ Overlap(h)
  \/ \E i \in Invites : Lapse(i) /\ UNCHANGED overlapped

Spec == Init /\ [][Next]_vars

-----------------------------------------------------------------------------
TypeOK ==
  /\ invites \in [Invites -> Rows]
  /\ members \subseteq Emails
  /\ made \in [Invites -> Nat]
  /\ pc \in [Handlers -> Steps]
  /\ local \in [Handlers -> [id : OrNone(Invites), row : Rows, email : OrNone(Emails)]]
  /\ overlapped \in BOOLEAN

\* However requests interleave, and whichever service answers them, a link never
\* counts more uses than it allows; and as long as they do not overlap no more
\* accounts come of it than that.
LimitRespected ==
  \A i \in Invites : invites[i].max # None =>
    /\ invites[i].used <= invites[i].max
    /\ ~overlapped => made[i] <= invites[i].max

\* As long as requests do not overlap, a canceled invitation makes no account
\* and changes no more, unless it is sent again.
CancelKept ==
  ~overlapped' =>
    \A i \in Invites : invites[i].status = "canceled" =>
      /\ made'[i] = made[i]
      /\ invites'[i].status = "pending" => ~invites'[i].over /\ \E h \in Handlers : pc[h] = "resending"
      /\ invites'[i].status \in {"none", "pending", "canceled"}
=============================================================================
