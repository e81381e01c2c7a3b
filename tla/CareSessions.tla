---------------------------- MODULE CareSessions ----------------------------
(***************************************************************************)
(* Care workers (care-worker.service.ts): the sessions of one carer with   *)
(* those cared for, which end once and are then paid at a rate, and a      *)
(* licence of the carer's, which is edited and removed.                    *)
(***************************************************************************)
EXTENDS Naturals, Awaits

CONSTANTS
  SessionIds, \* care_sessions.id
  Recipients  \* recipient_id; a session may be without one

CareAssumption == None \notin SessionIds \cup Recipients

VARIABLES
  sessions, \* rows of care_sessions
  licence   \* a row of care_licenses

vars == <<sessions, licence, pc, local, overlapped>>

\* "ended" and "ended again" differ in ended_at and in what is computed from it.
Rows == [recipient : OrNone(Recipients), state : {"none", "open", "ended", "ended again"}]
NoSession == [recipient |-> None, state |-> "none"]
Licences == {"none", "held", "removed"}

Steps == {"idle", "starting", "ending", "editing", "removing"}
Locals == [id : OrNone(SessionIds), recipient : OrNone(Recipients)]
NoLocal == [id |-> None, recipient |-> None]

Init ==
  /\ sessions = [s \in SessionIds |-> NoSession]
  /\ licence = "none"
  /\ AllIdle(NoLocal)

Return(h) == Goto(h, "idle") /\ Hold(h, NoLocal)
Begin(h, step, read) ==
  /\ pc[h] = "idle"
  /\ Goto(h, step) /\ Hold(h, read)
  /\ UNCHANGED <<sessions, licence>>

OpenWith(r) == {s \in SessionIds : sessions[s] = [recipient |-> r, state |-> "open"]}

\* startSession: no open session with the same recipient, if one is named.
Start(h, r) ==
  /\ r # None => OpenWith(r) = {}
  /\ Begin(h, "starting", [NoLocal EXCEPT !.recipient = r])
StartSave(h) ==
  /\ pc[h] = "starting"
  /\ \E s \in SessionIds :
       /\ sessions[s] = NoSession
       /\ sessions' = [sessions EXCEPT ![s] = [recipient |-> local[h].recipient, state |-> "open"]]
  /\ Return(h)
  /\ UNCHANGED licence

\* endSession; the rates of the company are read in between.
\* Mutant: an ended session is ended again.
EndAny(h, s) == sessions[s].state # "none" /\ Begin(h, "ending", [NoLocal EXCEPT !.id = s])
End(h, s) == sessions[s].state = "open" /\ Begin(h, "ending", [NoLocal EXCEPT !.id = s])
EndSave(h) ==
  /\ pc[h] = "ending"
  /\ sessions' = [sessions EXCEPT ![local[h].id].state =
                    IF @ = "open" THEN "ended" ELSE "ended again"]
  /\ Return(h)
  /\ UNCHANGED licence

\* createLicense, updateLicense (saves the entity as it was read, deleted_at
\* included) and deleteLicense.
CreateLicence(h) ==
  /\ pc[h] = "idle" /\ licence = "none"
  /\ licence' = "held"
  /\ UNCHANGED <<sessions, pc, local>>
UpdateLicence(h) == licence = "held" /\ Begin(h, "editing", NoLocal)
UpdateLicenceSave(h) ==
  /\ pc[h] = "editing"
  /\ licence' = "held"
  /\ Return(h)
  /\ UNCHANGED sessions
DeleteLicence(h) == licence = "held" /\ Begin(h, "removing", NoLocal)
DeleteLicenceNow(h) ==
  /\ pc[h] = "removing"
  /\ licence' = "removed"
  /\ Return(h)
  /\ UNCHANGED sessions

HandlerStep(h) ==
  \/ \E r \in OrNone(Recipients) : Start(h, r)
  \/ StartSave(h)
  \/ \E s \in SessionIds : End(h, s)
  \/ EndSave(h)
  \/ CreateLicence(h) \/ UpdateLicence(h) \/ UpdateLicenceSave(h)
  \/ DeleteLicence(h) \/ DeleteLicenceNow(h)

Next == \E h \in Handlers : HandlerStep(h) /\ Overlap(h)

Spec == Init /\ [][Next]_vars

-----------------------------------------------------------------------------
TypeOK ==
  /\ sessions \in [SessionIds -> Rows]
  /\ licence \in Licences
  /\ pc \in [Handlers -> Steps]
  /\ local \in [Handlers -> Locals]
  /\ overlapped \in BOOLEAN

\* As long as handlers do not overlap, a carer has one open session at most with
\* a recipient that was named.
OneOpenSession == ~overlapped => \A r \in Recipients : \A s, t \in OpenWith(r) : s = t

\* However handlers interleave, an ended session is never open again; as long as
\* they do not overlap, it ended once and a removed licence stays removed.
SessionKept ==
  /\ \A s \in SessionIds : sessions[s].state \notin {"none", "open"}
                             => sessions'[s].state \notin {"none", "open"}
  /\ ~overlapped' =>
       /\ \A s \in SessionIds : sessions[s].state = "ended" => sessions'[s] = sessions[s]
       /\ licence = "removed" => licence' = "removed"
=============================================================================
