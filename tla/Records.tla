------------------------------ MODULE Records ------------------------------
(***************************************************************************)
(* Eleven services that keep records.  They write different tables, so     *)
(* that a behaviour is one of a single service, and the variables of the   *)
(* others stay None.                                                       *)
(***************************************************************************)
EXTENDS Naturals, FiniteSets, TLC, Awaits

CONSTANTS
  Replicas, Shifts, Trips, LastTime,      \* of Attendance
  ApprovalRows, LastStep,                 \* of Approvals
  SealRows, LastSeal, Letters, Bar, MaxText,
  Authors, Answers, Empty, Mute,          \* of DocumentSeals
  FileIds, Quota,                         \* of Files
  VisitIds, Days, MaxEvents,              \* of FieldVisits
  SessionIds, Recipients,                 \* of CareSessions
  Amounts,                                \* of Salaries
  MAX_ATTEMPTS, TTL,                      \* of LoginLock
  LinkIds, CodeIds,                       \* of Recovery
  RecordIds, MaxSaves,                    \* of AttendanceArchive
  Tokens, ChunkSize, Attempts             \* of Notifications

VARIABLES
  area, \* the service
  torn, \* of the services that claim something of a save in two statements
  rows, now, due, edited, missed,           \* of Attendance
  doc, line, answered, applied, draftRaced, \* of Approvals
  content, steps, seal, asSealed,           \* of DocumentSeals
  files, stored, urls,                      \* of Files
  visits, journals, orphans,                \* of FieldVisits
  sessions, licence,                        \* of CareSessions
  salary,                                   \* of Salaries
  count, lifetime, lock, died,              \* of LoginLock
  links, codes, resets, broken,             \* of Recovery
  records, archive, old, last, raced,       \* of AttendanceArchive
  devices                                   \* of Notifications

attendanceVars == <<rows, now, due, edited, missed>>
approvalsVars == <<doc, line, answered, applied, draftRaced>>
sealsVars == <<content, steps, seal, asSealed>>
filesVars == <<files, stored, urls>>
visitsVars == <<visits, journals, orphans>>
careVars == <<sessions, licence>>
salariesVars == <<salary>>
lockVars == <<count, lifetime, lock, died>>
recoveryVars == <<links, codes, resets, broken>>
archiveVars == <<records, archive, old, last, raced>>
pushesVars == <<devices>>
vars == <<area, pc, local, overlapped, torn,
          attendanceVars, approvalsVars, sealsVars, filesVars, visitsVars,
          careVars, salariesVars, lockVars, recoveryVars, archiveVars,
          pushesVars>>

Attendance == INSTANCE Attendance
Approvals == INSTANCE Approvals WITH Rows <- ApprovalRows
DocumentSeals == INSTANCE DocumentSeals WITH StepRows <- SealRows, LastStep <- LastSeal
Files == INSTANCE Files
FieldVisits == INSTANCE FieldVisits
CareSessions == INSTANCE CareSessions
Salaries == INSTANCE Salaries
LoginLock == INSTANCE LoginLock
Recovery == INSTANCE Recovery
AttendanceArchive == INSTANCE AttendanceArchive
Notifications == INSTANCE Notifications

ASSUME RecordsAssumption ==
  /\ Attendance!TimeAssumption /\ Attendance!DateAssumption /\ Attendance!ActorAssumption
  /\ Approvals!ApprovalsAssumption
  /\ DocumentSeals!SealAssumption
  /\ Files!FilesAssumption
  /\ FieldVisits!VisitsAssumption
  /\ CareSessions!CareAssumption
  /\ Salaries!SalaryAssumption
  /\ LoginLock!LockAssumption
  /\ Recovery!RecoveryAssumption
  /\ AttendanceArchive!ArchiveAssumption
  /\ Notifications!PushAssumption

\* The services with the history of what fell into a save.
TwoStatements == {"attendance", "salaries"}

\* The variables of the other services.
NoOthers ==
  /\ IF area \in TwoStatements THEN TRUE ELSE torn = None
  /\ IF area = "attendance" THEN TRUE ELSE
      /\ rows = None /\ now = None /\ due = None /\ edited = None /\ missed = None
  /\ IF area = "approvals" THEN TRUE ELSE
      /\ doc = None /\ line = None /\ answered = None /\ applied = None
      /\ draftRaced = None
  /\ IF area = "seals" THEN TRUE ELSE
      /\ content = None /\ steps = None /\ seal = None /\ asSealed = None
  /\ IF area = "files" THEN TRUE ELSE files = None /\ stored = None /\ urls = None
  /\ IF area = "visits" THEN TRUE ELSE visits = None /\ journals = None /\ orphans = None
  /\ IF area = "care" THEN TRUE ELSE sessions = None /\ licence = None
  /\ IF area = "salaries" THEN TRUE ELSE salary = None
  /\ IF area = "lock" THEN TRUE ELSE
      /\ count = None /\ lifetime = None /\ lock = None /\ died = None
  /\ IF area = "recovery" THEN TRUE ELSE
      /\ links = None /\ codes = None /\ resets = None /\ broken = None
  /\ IF area = "archive" THEN TRUE ELSE
      /\ records = None /\ archive = None /\ old = None /\ last = None
      /\ raced = None
  /\ IF area = "pushes" THEN TRUE ELSE devices = None
OthersStay ==
  /\ UNCHANGED area
  /\ IF area \in TwoStatements THEN TRUE ELSE UNCHANGED torn
  /\ IF area = "attendance" THEN TRUE ELSE UNCHANGED attendanceVars
  /\ IF area = "approvals" THEN TRUE ELSE UNCHANGED approvalsVars
  /\ IF area = "seals" THEN TRUE ELSE UNCHANGED sealsVars
  /\ IF area = "files" THEN TRUE ELSE UNCHANGED filesVars
  /\ IF area = "visits" THEN TRUE ELSE UNCHANGED visitsVars
  /\ IF area = "care" THEN TRUE ELSE UNCHANGED careVars
  /\ IF area = "salaries" THEN TRUE ELSE UNCHANGED salariesVars
  /\ IF area = "lock" THEN TRUE ELSE UNCHANGED lockVars
  /\ IF area = "recovery" THEN TRUE ELSE UNCHANGED recoveryVars
  /\ IF area = "archive" THEN TRUE ELSE UNCHANGED archiveVars
  /\ IF area = "pushes" THEN TRUE ELSE UNCHANGED pushesVars

Init ==
  \/ area = "attendance" /\ Attendance!Init /\ NoOthers
  \/ area = "approvals" /\ Approvals!Init /\ NoOthers
  \/ area = "seals" /\ DocumentSeals!Init /\ pc = None /\ local = None /\ overlapped = FALSE /\ NoOthers
  \/ area = "files" /\ Files!Init /\ NoOthers
  \/ area = "visits" /\ FieldVisits!Init /\ NoOthers
  \/ area = "care" /\ CareSessions!Init /\ NoOthers
  \/ area = "salaries" /\ Salaries!Init /\ NoOthers
  \/ area = "lock" /\ LoginLock!Init /\ NoOthers
  \/ area = "recovery" /\ Recovery!Init /\ NoOthers
  \/ area = "archive" /\ AttendanceArchive!Init /\ NoOthers
  \/ area = "pushes" /\ Notifications!Init /\ NoOthers

Next ==
  \/ area = "attendance" /\ Attendance!Next /\ OthersStay
  \/ area = "approvals" /\ Approvals!Next /\ OthersStay
  \/ area = "seals" /\ DocumentSeals!Next /\ UNCHANGED <<pc, local, overlapped>> /\ OthersStay
  \/ area = "files" /\ Files!Next /\ OthersStay
  \/ area = "visits" /\ FieldVisits!Next /\ OthersStay
  \/ area = "care" /\ CareSessions!Next /\ OthersStay
  \/ area = "salaries" /\ Salaries!Next /\ OthersStay
  \/ area = "lock" /\ LoginLock!Next /\ OthersStay
  \/ area = "recovery" /\ Recovery!Next /\ OthersStay
  \/ area = "archive" /\ AttendanceArchive!Next /\ OthersStay
  \/ area = "pushes" /\ Notifications!Next /\ OthersStay

Spec == Init /\ [][Next]_vars

-----------------------------------------------------------------------------
\* The types of each service; no salary is there without an amount.
TypeOK ==
  /\ area = "attendance" => Attendance!TypeOK
  /\ area = "approvals" => Approvals!TypeOK
  /\ area = "files" => Files!TypeOK
  /\ area = "visits" => FieldVisits!TypeOK
  /\ area = "care" => CareSessions!TypeOK
  /\ area = "salaries" => Salaries!TypeOK
  /\ area = "lock" => LoginLock!TypeOK
  /\ area = "recovery" => Recovery!TypeOK
  /\ area = "archive" => AttendanceArchive!TypeOK
  /\ area = "pushes" => Notifications!TypeOK

\* However requests and timers interleave, unless an UPDATE fell between the SELECT and
\* the UPDATE of another save: a row no manager has touched tells one story, nobody
\* left without having come or before coming, and who came is not absent; and a salary
\* is paid exactly when it has the date of its payment.  As long as handlers do not
\* overlap, an employee has one open visit a day, linked to the task that was opened
\* for it unless the handler ended between the two, and a carer one open session with
\* a recipient, and of the links and the codes that were sent to set a new password
\* the last alone can be used, and once.
OneStory ==
  /\ area = "salaries" => Salaries!PaidIsDated
  /\ area = "attendance" => Attendance!OneStory
  /\ area = "visits" => FieldVisits!OneOpenVisit
  /\ area = "care" => CareSessions!OneOpenSession
  /\ area = "recovery" => Recovery!LastLinkOnly

\* When the date of a shift is over, the employee has come or is absent, unless the
\* timer of every replica broke off before it came to the employee, or an UPDATE fell
\* between the two statements of another save.
ShiftsAreSettled == area = "attendance" => Attendance!ShiftsAreSettled

\* Whatever is in flight, a document that is approved or applied was answered by
\* an approver of every number of its line, and one at step n by one of every
\* number before n.
NobodySkipped == area = "approvals" => Approvals!NobodySkipped

\* As long as handlers do not overlap, those answers are approvals, also when a
\* handler died half-way, and the change of a document is applied at most once, and
\* only while it is approved.
ApprovedByAll ==
  /\ area = "approvals" => Approvals!ApprovedByAll
  /\ area = "approvals" => Approvals!AppliedOnce

\* A seal shows every change between documents without '|' in the title and null in a
\* comment, and every other change but of where the title ends or of null to empty, in
\* whatever order the database returns the steps; and no change where there is none
\* unless two steps have one number.
SealTells == area = "seals" => DocumentSeals!SealTells

\* What is kept in two places agrees, however handlers interleave.  A file that may be
\* downloaded has its object in S3, and a file noted as removed from there has none
\* left; a record of attendance is in its table as it was saved last, or in the archive
\* with the columns the archive has, unless it was corrected while a replica archived
\* it; failures to log in that Redis counts expire, unless a handler died, and lock the
\* account in time; and a push that is done has reached every device it knew, while
\* only devices that were signed off or have lost the app are given up, if all tokens
\* are of Expo and fit one request.
StoresInStep ==
  /\ area = "files" => Files!StorageInStep
  /\ area = "archive" => AttendanceArchive!NothingLost
  /\ area = "lock" => LoginLock!LockedInTime
  /\ area = "pushes" => Notifications!PushReaches

\* As long as handlers do not overlap, nothing changes in a sealed document.
SealHolds == [][area = "approvals" => Approvals!SealKept]_vars

\* As long as handlers do not overlap: decisions about a document are final; only a
\* manager changes a recorded clock-in, though a timer may take it away; a paid
\* salary, a visit that is over and an ended session of care change no more; and what
\* was removed, a salary, a licence or a file, stays removed.
DecidedOnce ==
  [][/\ area = "attendance" => Attendance!FirstKept
     /\ area = "approvals" => Approvals!DecisionKept
     /\ area = "salaries" => Salaries!SalaryKept
     /\ area = "visits" => FieldVisits!VisitKept
     /\ area = "care" => CareSessions!SessionKept
     /\ area = "files" => Files!DeletionKept]_vars

-----------------------------------------------------------------------------
(* Small instances: in Records.cfg LinkIds are the ApprovalRows. *)
Symmetry == Permutations(Handlers) \cup Permutations(ApprovalRows)

\* Bound: behaviours of Approvals are not continued when the drafting or submitting
\* of a document was overlapped, or, after any overlap, once its change has been
\* applied; those of Recovery not after an overlap, of which no property says
\* anything; those of Attendance not with two corrected days, nor with one after an
\* overlap or after an UPDATE fell into a save, of which nothing but types is claimed;
\* and those of DocumentSeals not once both the document and its steps are changed.
Bounded ==
  /\ area = "approvals" => ~draftRaced /\ (overlapped => applied = 0)
  /\ area = "recovery" => ~overlapped
  /\ area = "attendance" => Cardinality(edited) <= IF overlapped THEN 0 ELSE 1
  /\ area \in TwoStatements => ~torn
  /\ area = "seals" /\ DocumentSeals!Sealed => content = asSealed[1] \/ steps = asSealed[2]
=============================================================================
