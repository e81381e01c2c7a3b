------------------------------- MODULE Files -------------------------------
(***************************************************************************)
(* Uploaded files (files.service.ts).  A row of files and an object in S3  *)
(* are written apart: the client uploads to a presigned URL and confirms,  *)
(* a deletion marks the row, and a nightly timer, on every replica, takes  *)
(* the objects of rows deleted a day ago out of S3 and notes it.           *)
(***************************************************************************)
EXTENDS Naturals, FiniteSets, Awaits

CONSTANTS
  FileIds, \* files.id; the key of the object is made from a new one
  Quota    \* how many files the plan has room for, all of one size

FilesAssumption == Quota \in Nat /\ None \notin FileIds

VARIABLES
  files,  \* rows of files
  stored, \* objects in S3
  urls    \* files whose presigned PUT URL has not expired

vars == <<files, stored, urls, pc, local, overlapped>>

\* deletedAt: null, less than 24 hours ago, or more.
Rows == [status : {"none", "pending", "confirmed", "deleted"},
         deletedAt : {"null", "today", "before"}, s3Deleted : BOOLEAN]
NoRow == [status |-> "none", deletedAt |-> "null", s3Deleted |-> FALSE]

Steps == {"idle", "creating", "checking", "saving", "updating", "purging", "marking"}
Locals == [id : OrNone(FileIds), row : Rows, cols : SUBSET DOMAIN NoRow, list : SUBSET FileIds]
NoLocal == [id |-> None, row |-> NoRow, cols |-> {}, list |-> {}]

Init ==
  /\ files = [f \in FileIds |-> NoRow]
  /\ stored = {}
  /\ urls = {}
  /\ AllIdle(NoLocal)

Return(h) == Goto(h, "idle") /\ Hold(h, NoLocal)
Outside == UNCHANGED <<stored, urls>>

\* The row as it was read, with what the handler sets, now or once S3 has answered.
Load(h, f, step, row, stamped) ==
  /\ pc[h] = "idle"
  /\ files[f] # NoRow
  /\ Goto(h, step)
  /\ Hold(h, [NoLocal EXCEPT !.id = f, !.row = row, !.cols = stamped])
  /\ UNCHANGED files /\ Outside

\* filesRepo.save
SaveSelect(h) == Compare(h, files[local[h].id]) /\ UNCHANGED files /\ Outside
Save(h) ==
  /\ pc[h] = "updating"
  /\ files' = [files EXCEPT ![local[h].id] = Merged(@, local[h].row, local[h].cols)]
  /\ Return(h)
  /\ Outside

-----------------------------------------------------------------------------
Confirmed == {f \in FileIds : files[f].status = "confirmed" /\ files[f].deletedAt = "null"}

\* createUploadUrl: only confirmed files count against the quota.
Create(h, f) ==
  /\ pc[h] = "idle"
  /\ files[f] = NoRow /\ \A g \in Handlers : local[g].id # f
  /\ Cardinality(Confirmed) + 1 <= Quota
  /\ Goto(h, "creating")
  /\ Hold(h, [NoLocal EXCEPT !.id = f, !.row.status = "pending"])
  /\ UNCHANGED files /\ Outside
CreateSave(h) ==
  /\ pc[h] = "creating"
  /\ files' = [files EXCEPT ![local[h].id] = local[h].row]
  /\ Return(h)
  /\ urls' = urls \cup {local[h].id}
  /\ UNCHANGED stored

\* The client's PUT; a URL is good for as many as come before it expires.
Upload(f) ==
  /\ f \in urls
  /\ stored' = stored \cup {f}
  /\ UNCHANGED <<files, urls, pc, local, overlapped>>

\* confirmUpload asks S3 for the object before it saves.
Confirm(h, f) ==
  /\ files[f].status = "pending"
  /\ Load(h, f, "checking", [files[f] EXCEPT !.status = "confirmed"], {})
\* Mutant: the upload is taken on trust.
HeadUnseen(h) ==
  /\ pc[h] = "checking"
  /\ Goto(h, "saving")
  /\ UNCHANGED <<files, local>> /\ Outside
HeadObject(h) ==
  /\ pc[h] = "checking"
  /\ IF local[h].id \in stored THEN Goto(h, "saving") /\ UNCHANGED local ELSE Return(h)
  /\ UNCHANGED files /\ Outside

\* deleteFile, by who uploaded it.
Delete(h, f) ==
  /\ files[f].deletedAt = "null"
  /\ Load(h, f, "saving", [files[f] EXCEPT !.status = "deleted", !.deletedAt = "today"], {"deletedAt"})

\* 24 hours after the deletion.  A URL is good for 10 minutes and a request is
\* over within the day.
DayPasses(f) ==
  /\ files[f].deletedAt = "today"
  /\ \A h \in Handlers : local[h].id # f
  /\ files' = [files EXCEPT ![f].deletedAt = "before"]
  /\ urls' = urls \ {f}
  /\ UNCHANGED <<stored, pc, local, overlapped>>

\* cleanupDeletedFiles.
\* Mutant: what was deleted today is cleaned up too.
DueAtOnce == {f \in FileIds : files[f].deletedAt # "null" /\ ~files[f].s3Deleted}
Due == {f \in FileIds : files[f].deletedAt = "before" /\ ~files[f].s3Deleted}
Cleanup(h) ==
  /\ pc[h] = "idle"
  /\ Due # {}
  /\ Goto(h, "purging") /\ Hold(h, [NoLocal EXCEPT !.list = Due])
  /\ UNCHANGED files /\ Outside
\* S3 is asked bucket by bucket and may fail after some.
Purge(h) ==
  /\ pc[h] = "purging"
  /\ \E gone \in SUBSET local[h].list :
       /\ stored' = stored \ gone
       /\ IF gone = local[h].list THEN Goto(h, "marking") /\ UNCHANGED local ELSE Return(h)
  /\ UNCHANGED <<files, urls>>
Mark(h) ==
  /\ pc[h] = "marking"
  /\ files' = [f \in FileIds |->
                 IF f \in local[h].list THEN [files[f] EXCEPT !.s3Deleted = TRUE] ELSE files[f]]
  /\ Return(h)
  /\ Outside

\* The process dies between two awaits.
Crash(h) == InFlight(h) /\ Return(h) /\ UNCHANGED files /\ Outside

-----------------------------------------------------------------------------
HandlerStep(h) ==
  \/ \E f \in FileIds : Create(h, f) \/ Confirm(h, f) \/ Delete(h, f)
  \/ CreateSave(h) \/ HeadObject(h) \/ SaveSelect(h) \/ Save(h)
  \/ Cleanup(h) \/ Purge(h) \/ Mark(h)
  \/ Crash(h)

Next ==
  \/ \E h \in Handlers : HandlerStep(h) /\ Overlap(h)
  \/ \E f \in FileIds : Upload(f) \/ DayPasses(f)

Spec == Init /\ [][Next]_vars

-----------------------------------------------------------------------------
TypeOK ==
  /\ files \in [FileIds -> Rows]
  /\ stored \subseteq FileIds /\ urls \subseteq FileIds
  /\ pc \in [Handlers -> Steps]
  /\ local \in [Handlers -> Locals]
  /\ overlapped \in BOOLEAN

\* However requests, uploads, nights and crashes interleave, also when one save falls
\* between the two statements of another and leaves a file confirmed and deleted: a
\* file that may be downloaded has its object, and a file noted as removed from S3
\* has none left there, though a client may upload after the deletion and a stale
\* save may undo it.
StorageInStep == \A f \in FileIds :
  /\ f \in Confirmed => f \in stored
  /\ files[f].s3Deleted => f \notin stored

\* As long as handlers do not overlap, a deleted file stays deleted.
DeletionKept == ~overlapped' => \A f \in FileIds :
  files[f].deletedAt # "null" => files'[f].deletedAt # "null"
=============================================================================
