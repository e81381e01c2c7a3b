-------------------------- MODULE AttendanceArchive --------------------------
(***************************************************************************)
(* Attendance records older than three years move to a table of their own  *)
(* (attendance-archive.service.ts): every replica does so at 2:00, in one  *)
(* transaction at READ COMMITTED, while a manager may be correcting such a *)
(* record (updateAttendance: find, then save).  Each save is a version.    *)
(* The archive has not all columns: ten of attendance_records, the break,  *)
(* the work place, the wage and others, have none there.                   *)
(***************************************************************************)
EXTENDS Naturals, Awaits

CONSTANTS
  RecordIds,
  MaxSaves \* bound: corrections of each record

Versions == 0 .. MaxSaves
\* The columns the archive has, and the others.
Rows == [copied : Versions, others : Versions]
Row(version) == [copied |-> version, others |-> version]
Copies == [copied : Versions]

ArchiveAssumption == None \notin Rows \cup Copies /\ MaxSaves \in Nat

VARIABLES
  records, \* attendance_records, as committed
  archive, \* attendance_records_archive, as committed
  old,     \* records with work_date before today - 3 years
  last,    \* the last version of each record that was saved (history)
  raced    \* a correction was under way beside an archive transaction (history)

vars == <<records, archive, old, last, raced, pc, local, overlapped>>

Steps == {"idle", "begun", "copied", "deleted", "correcting"}

\* What a transaction works on, has inserted and has deleted; what a correction
\* will save.
Tx == [due : SUBSET RecordIds, copies : [RecordIds -> OrNone(Copies)], gone : SUBSET RecordIds]
NoTx == [due |-> {}, copies |-> [i \in RecordIds |-> None], gone |-> {}]
Read == [record : RecordIds, version : Versions]

Init ==
  /\ records = [i \in RecordIds |-> Row(0)]
  /\ archive = [i \in RecordIds |-> None]
  /\ old = {}
  /\ last = [i \in RecordIds |-> 0]
  /\ raced = FALSE
  /\ AllIdle(NoTx)

InTx(h) == pc[h] \in {"begun", "copied", "deleted"}
Return(h) == Goto(h, "idle") /\ Hold(h, NoTx)
\* Other transactions have locked the key in the archive, or the row.
KeyLocked(h, i) == \E g \in Handlers \ {h} : InTx(g) /\ local[g].copies[i] # None
RowLocked(h, i) == \E g \in Handlers \ {h} : InTx(g) /\ i \in local[g].gone

\* The cutoff is computed before the transaction.
BeginTx(h) ==
  /\ pc[h] = "idle"
  /\ Goto(h, "begun") /\ Hold(h, [NoTx EXCEPT !.due = old])
  /\ raced' = (raced \/ \E g \in Handlers : pc[g] = "correcting")
  /\ UNCHANGED <<records, archive, old, last>>
There(S) == {i \in S : records[i] # None}
\* ON CONFLICT DO NOTHING, once whoever has inserted the key has ended.
Copy(h) ==
  LET due == There(local[h].due) IN
  /\ pc[h] = "begun"
  /\ \A i \in due : ~KeyLocked(h, i)
  /\ Goto(h, "copied")
  /\ Hold(h, [local[h] EXCEPT !.copies =
       [i \in RecordIds |->
          IF i \in due /\ archive[i] = None THEN [copied |-> records[i].copied] ELSE None]])
  /\ UNCHANGED <<records, archive, old, last, raced>>
DeleteOf(h, due) ==
  /\ pc[h] = "copied"
  /\ \A i \in due : ~RowLocked(h, i)
  /\ Goto(h, "deleted")
  /\ Hold(h, [local[h] EXCEPT !.gone = due])
  /\ UNCHANGED <<records, archive, old, last, raced>>
\* Mutant: the database is asked for the date again.
DeleteToday(h) == DeleteOf(h, There(old))
Delete(h) == DeleteOf(h, There(local[h].due))
Commit(h) ==
  /\ pc[h] = "deleted"
  /\ archive' = [i \in RecordIds |-> IF local[h].copies[i] # None THEN local[h].copies[i] ELSE archive[i]]
  /\ records' = [i \in RecordIds |-> IF i \in local[h].gone THEN None ELSE records[i]]
  /\ Return(h)
  /\ UNCHANGED <<old, last, raced>>
\* A statement fails, or the process dies.
Rollback(h) ==
  /\ InTx(h)
  /\ Return(h)
  /\ UNCHANGED <<records, archive, old, last, raced>>

\* updateAttendance: the row is read, then saved: save looks for the row, and for a
\* row that has gone it does an INSERT, or an UPDATE of nothing when it goes later.
Find(h) ==
  /\ pc[h] = "idle"
  /\ \E i \in RecordIds :
       /\ records[i] # None /\ last[i] < MaxSaves
       /\ Hold(h, [record |-> i, version |-> last[i] + 1])
  /\ Goto(h, "correcting")
  /\ raced' = (raced \/ \E g \in Handlers : InTx(g))
  /\ UNCHANGED <<records, archive, old, last>>
Correct(h) ==
  LET i == local[h].record IN
  /\ pc[h] = "correcting"
  /\ ~RowLocked(h, i)
  /\ \/ records' = [records EXCEPT ![i] = Row(local[h].version)]
     \/ records[i] = None /\ UNCHANGED records
  /\ last' = [last EXCEPT ![i] = local[h].version]
  /\ Return(h)
  /\ UNCHANGED <<archive, old, raced>>

\* Three years pass.
Age ==
  /\ \E i \in RecordIds \ old : old' = old \cup {i}
  /\ UNCHANGED <<records, archive, last, raced, pc, local, overlapped>>

HandlerStep(h) ==
  BeginTx(h) \/ Copy(h) \/ Delete(h) \/ Commit(h) \/ Rollback(h) \/ Find(h) \/ Correct(h)

Next == (\E h \in Handlers : HandlerStep(h) /\ Overlap(h)) \/ Age

Spec == Init /\ [][Next]_vars

-----------------------------------------------------------------------------
TypeOK ==
  /\ records \in [RecordIds -> OrNone(Rows)]
  /\ archive \in [RecordIds -> OrNone(Copies)]
  /\ old \subseteq RecordIds
  /\ last \in [RecordIds -> Versions]
  /\ raced \in BOOLEAN
  /\ pc \in [Handlers -> Steps]
  /\ \A h \in Handlers : local[h] \in IF pc[h] = "correcting" THEN Read ELSE Tx
  /\ overlapped \in BOOLEAN

\* However the replicas interleave and roll back, a record is in one of the tables
\* and not in both: in its own as it was saved last, or in the archive with the
\* columns of that which the archive has; as long as none is corrected while a replica
\* is at it.
NothingLost ==
  ~raced => \A i \in RecordIds :
    \/ records[i] = Row(last[i]) /\ archive[i] = None
    \/ records[i] = None /\ archive[i] = [copied |-> last[i]]
=============================================================================
