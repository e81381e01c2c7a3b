--------------------------- MODULE Collaboration ---------------------------
(***************************************************************************)
(* Messages of an announcement channel (collaboration.service.ts): sent,   *)
(* possibly with an event for the calendar, edited, deleted with their     *)
(* text masked, and confirmed by those who have read them.  The calendar   *)
(* may remove the event again.                                             *)
(***************************************************************************)
EXTENDS Naturals, Awaits

CONSTANTS
  MessageIds, \* messages.id
  Readers     \* members of the channel who confirm

MessagesAssumption == None \notin MessageIds \cup Readers

VARIABLES
  messages, \* rows of messages
  reads,    \* rows of message_reads
  events,   \* the row of schedules that was made for each message
  torn      \* a message changed between the SELECT and the UPDATE of a save (history)

vars == <<messages, reads, events, pc, local, overlapped, torn>>

\* masked: the text deleteMessage writes.
Texts == {"none", "as sent", "edited", "masked"}
Rows == [text : Texts, deleted : BOOLEAN, linked : BOOLEAN]
NoRow == [text |-> "none", deleted |-> FALSE, linked |-> FALSE]
Shown(m) == messages[m] # NoRow /\ ~messages[m].deleted

Steps == {"idle", "sending", "saving", "updating", "confirming"}
Locals == [id : OrNone(MessageIds), row : Rows, cols : SUBSET DOMAIN NoRow, reader : OrNone(Readers)]
NoLocal == [id |-> None, row |-> NoRow, cols |-> {}, reader |-> None]

Init ==
  /\ messages = [m \in MessageIds |-> NoRow]
  /\ reads = {}
  /\ events = [m \in MessageIds |-> "none"]
  /\ torn = FALSE
  /\ AllIdle(NoLocal)

Return(h) == Goto(h, "idle") /\ Hold(h, NoLocal)
Unread == UNCHANGED <<reads, events>>

\* sendMessage: the event is saved first, for its id.
Send(h, m) ==
  /\ pc[h] = "idle"
  /\ messages[m] = NoRow /\ events[m] = "none" /\ \A g \in Handlers : local[g].id # m
  /\ \E linked \in BOOLEAN :
       /\ events' = IF linked THEN [events EXCEPT ![m] = "there"] ELSE events
       /\ Hold(h, [NoLocal EXCEPT !.id = m, !.row = [NoRow EXCEPT !.text = "as sent", !.linked = linked]])
  /\ Goto(h, "sending")
  /\ UNCHANGED <<messages, reads>>

\* A message without an id yet is inserted.
Insert(h) ==
  /\ pc[h] = "sending"
  /\ messages' = [messages EXCEPT ![local[h].id] = local[h].row]
  /\ Return(h)
  /\ Unread

Find(h, m, row, stamped) ==
  /\ pc[h] = "idle" /\ Shown(m)
  /\ Goto(h, "saving") /\ Hold(h, [NoLocal EXCEPT !.id = m, !.row = row, !.cols = stamped])
  /\ UNCHANGED messages /\ Unread
\* messageRepo.save: the row as it was read, with what was set.
SaveSelect(h) == Compare(h, messages[local[h].id]) /\ UNCHANGED messages /\ Unread
Save(h) ==
  /\ pc[h] = "updating"
  /\ messages' = [messages EXCEPT ![local[h].id] = Merged(@, local[h].row, local[h].cols)]
  /\ Return(h)
  /\ Unread

\* One edited text may differ from another.
Edit(h, m) ==
  \E stamped \in SUBSET {"text"} : Find(h, m, [messages[m] EXCEPT !.text = "edited"], stamped)
\* Mutant: the text of a deleted message is kept.
DeleteOnly(h, m) == Find(h, m, [messages[m] EXCEPT !.deleted = TRUE], {"deleted"})
Delete(h, m) == Find(h, m, [messages[m] EXCEPT !.deleted = TRUE, !.text = "masked"], {"deleted"})

\* confirmMessage: whoever has confirmed is not asked again.
Confirm(h, m, u) ==
  /\ pc[h] = "idle" /\ Shown(m)
  /\ <<m, u>> \notin reads
  /\ Goto(h, "confirming") /\ Hold(h, [NoLocal EXCEPT !.id = m, !.reader = u])
  /\ UNCHANGED messages /\ Unread
\* The key is the pair: a second save of it changes nothing.
ConfirmSave(h) ==
  /\ pc[h] = "confirming"
  /\ reads' = reads \cup {<<local[h].id, local[h].reader>>}
  /\ Return(h)
  /\ UNCHANGED <<messages, events>>

\* deleteEvent of calendar.service.ts, whose rows are those of schedules too: the
\* message keeps its link.
DeleteEvent(h, m) ==
  /\ pc[h] = "idle" /\ events[m] = "there"
  /\ events' = [events EXCEPT ![m] = "deleted"]
  /\ UNCHANGED <<messages, reads, pc, local>>

\* The process dies between two awaits.
Crash(h) == InFlight(h) /\ Return(h) /\ UNCHANGED messages /\ Unread

HandlerStep(h) ==
  \/ \E m \in MessageIds : Send(h, m) \/ Edit(h, m) \/ Delete(h, m) \/ DeleteEvent(h, m)
  \/ \E m \in MessageIds, u \in Readers : Confirm(h, m, u)
  \/ Insert(h) \/ SaveSelect(h) \/ Save(h) \/ ConfirmSave(h) \/ Crash(h)

Tear(h) ==
  torn' = (torn \/ \E g \in Handlers \ {h} :
                     pc[g] = "updating" /\ messages'[local[g].id] # messages[local[g].id])

Next == \E h \in Handlers : HandlerStep(h) /\ Overlap(h) /\ Tear(h)

Spec == Init /\ [][Next]_vars

-----------------------------------------------------------------------------
TypeOK ==
  /\ messages \in [MessageIds -> Rows]
  /\ reads \subseteq MessageIds \X Readers
  /\ events \in [MessageIds -> {"none", "there", "deleted"}]
  /\ pc \in [Handlers -> Steps]
  /\ local \in [Handlers -> Locals]
  /\ overlapped \in BOOLEAN /\ torn \in BOOLEAN

\* However handlers interleave or die: a message that refers to an event has had one
\* made for it, and only messages that were sent are confirmed; and unless an UPDATE
\* fell between the two statements of another save, the text of a deleted message is
\* masked and no other is.
DeletedIsMasked ==
  /\ \A m \in MessageIds :
       /\ ~torn => (messages[m].deleted <=> messages[m].text = "masked")
       /\ messages[m].linked => events[m] # "none"
  /\ \A r \in reads : messages[r[1]] # NoRow

\* As long as handlers do not overlap, a deleted message stays deleted.
MessageKept ==
  ~overlapped' => \A m \in MessageIds : messages[m].deleted => messages'[m] = messages[m]
=============================================================================
