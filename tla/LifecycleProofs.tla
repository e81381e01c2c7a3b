-------------------------- MODULE LifecycleProofs ---------------------------
(* Two programs renew, suspend, expire and purge one subscription: as long as *)
(* none of them writes what it read before another wrote, nobody is charged   *)
(* or shut out before the end of what was paid, or purged unannounced.        *)
EXTENDS Lifecycle, TLAPS

Dates == Int \cup {None}
MarkSets == SUBSET {"trial_expired", "purge_d7"}
Row ==
  [status : Statuses, plan : {"free", "paid"}, trialEnd : Dates, periodEnd : Int,
   dawn : BOOLEAN, autoRenew : BOOLEAN, cancel : BOOLEAN, card : BOOLEAN,
   nextBilling : Int, failed : Int, since : Dates, retry : Nat, nextRetry : Dates,
   marks : MarkSets]
Jobs == {"idle", "suspend", "expire", "warn", "purge"}
DunningType == [step : {"idle", "selected", "paid", "failed"}, row : Row \cup {None}]

CompanyRow == [status : CompanyStatuses, deleted : BOOLEAN, users : BOOLEAN]

Types ==
  /\ sub \in Row
  /\ company \in CompanyRow
  /\ dunning \in DunningType
  /\ dunning.step # "idle" => dunning.row \in Row
  /\ operator \in Dates
  /\ job \in [Workers -> Jobs]
  /\ paidUntil \in Int
  /\ raced \in BOOLEAN /\ early \in BOOLEAN

\* On trial there is a date, and no card.
OnTrial == sub.status = "trialing" => sub.trialEnd \in Int /\ ~sub.card

\* What a handler has read is what stands, or the handler is stale.
DunningRead ==
  dunning.step # "idle" /\ "dunning" \notin stale =>
    /\ dunning.row = sub
    /\ sub.status \in {"active", "past_due"}
    /\ dunning.step = "paid" => sub.card
    /\ sub.card /\ ~raced => sub.periodEnd <= 0
OthersRead ==
  /\ \A k \in Workers : k \notin stale =>
       /\ job[k] = "suspend" => sub.status = "past_due"
       /\ job[k] = "expire" => sub.status = "trialing"
       /\ job[k] = "purge" => sub.status = "expired"
  /\ operator # None /\ "operator" \notin stale => sub.status = "trialing"

\* Where what was paid ends.
PaidPeriod ==
  ~raced =>
    /\ sub.card => paidUntil <= sub.periodEnd /\ sub.periodEnd <= sub.nextBilling
    /\ paidUntil <= In(Period)
    /\ ~sub.card \/ sub.status \in {"trialing", "expired", "past_due"} => paidUntil <= 0
    /\ sub.card /\ sub.status = "past_due" => sub.periodEnd <= 0

ChargedEarly == early => raced \/ (dunning.step = "paid" /\ "dunning" \in stale)

IInv == Types /\ OnTrial /\ DunningRead /\ OthersRead /\ PaidPeriod /\ ChargedEarly

USE DaysAssumption, ReplicaAssumption DEF Workers

LEMMA Lengths ==
  /\ MaxDays \in Int /\ Period \in Int /\ Period >= 1 /\ FreePeriod \in Int
  /\ FreePeriod >= Period /\ -MaxDays \in Int /\ -MaxDays <= 0
  OBVIOUS

LEMMA InInt ==
  ASSUME NEW days \in Int
  PROVE  In(days) \in Int /\ days <= In(days) /\ In(days) <= days + 1
  BY DEF In

LEMMA InitIInv == Init => IInv
<1> SUFFICES ASSUME Init PROVE IInv
  OBVIOUS
<1>1. sub \in Row
  <2>3. {} \in MarkSets
    BY DEF MarkSets
  <2>1. 1 \in Dates /\ None \in Dates /\ 0 \in Int /\ 1 \in Int /\ 0 \in Nat
    BY DEF Dates
  <2>2. QED
    BY <2>1, <2>3 DEF Init, Row, Statuses
<1>2. /\ dunning \in DunningType /\ dunning.step = "idle"
      /\ operator = None /\ operator \in Dates
  BY DEF Init, DunningType, Dates
<1>3. paidUntil \in Int /\ paidUntil <= 0
  BY DEF Init
<1>8. raced \in BOOLEAN /\ early \in BOOLEAN /\ ~early
  BY Zenon DEF Init
<1>4. sub.status = "trialing" /\ sub.trialEnd = 1 /\ sub.card = FALSE
  BY DEF Init
<1>5. \A k \in Workers : job[k] = "idle"
  BY DEF Init
<1>9. job \in [Workers -> Jobs]
  BY DEF Init, Jobs
<1>6. In(Period) \in Int /\ 1 <= In(Period)
  BY InInt
<1>10. company \in CompanyRow
  BY DEF Init, CompanyRow, CompanyStatuses
<1>7. QED
  BY <1>1, <1>2, <1>3, <1>4, <1>5, <1>6, <1>8, <1>9, <1>10
    DEF IInv, Types, OnTrial, DunningRead, OthersRead, PaidPeriod, ChargedEarly

-----------------------------------------------------------------------------
\* What Save does to the readings of the others.
LEMMA SaveStale ==
  ASSUME NEW h, NEW row, Save(h, row)
  PROVE  /\ sub' = row
         /\ \A x \in InFlight \ {h} : x \notin stale' => sub' = sub /\ x \notin stale
         /\ \A x \in stale \ {h} : x \in stale'
         /\ raced' = (raced \/ h \in stale)
  BY DEF Save

LEMMA ReadStale ==
  ASSUME NEW h, Reads(h)
  PROVE  /\ \A x : x # h => (x \in stale' <=> x \in stale)
         /\ h \notin stale' /\ raced' = raced
  BY DEF Reads

LEMMA SaveOthers ==
  ASSUME OthersRead, NEW h, NEW row, Save(h, row), operator' \in {operator, None},
         h = "operator" => operator' = None,
         \A k \in Workers : job'[k] \in {job[k], "idle"},
         h \in Workers => job'[h] = "idle"
  PROVE  OthersRead'
<1>1. ASSUME NEW k \in Workers, k \notin stale', job'[k] # "idle"
      PROVE  k \notin stale /\ sub' = sub /\ job'[k] = job[k]
  BY <1>1, SaveStale DEF InFlight
<1>2. ASSUME operator' # None, "operator" \notin stale'
      PROVE  "operator" \notin stale /\ sub' = sub /\ operator' = operator
  <2>1. "operator" \in InFlight \ {h}
    BY <1>2 DEF InFlight
  <2>2. QED
    BY <1>2, <2>1, SaveStale
<1>3. QED
  BY <1>1, <1>2 DEF OthersRead

LEMMA SaveDunning ==
  ASSUME DunningRead, NEW h, NEW row, Save(h, row), h # "dunning", dunning' = dunning,
         raced \in BOOLEAN
  PROVE  DunningRead'
<1>1. ASSUME dunning.step # "idle", "dunning" \notin stale'
      PROVE  "dunning" \notin stale /\ sub' = sub /\ (~raced' => ~raced)
  <2>1. "dunning" \in InFlight \ {h}
    BY <1>1 DEF InFlight
  <2>2. QED
    BY <1>1, <2>1, SaveStale
<1>2. QED
  BY <1>1 DEF DunningRead

LEMMA SaveEarly ==
  ASSUME ChargedEarly, NEW h, NEW row, Save(h, row), h # "dunning", dunning' = dunning,
         early' = early, raced \in BOOLEAN
  PROVE  ChargedEarly'
  BY SaveStale DEF ChargedEarly

-----------------------------------------------------------------------------
LEMMA DatesType ==
  /\ \A d \in Dates : Before(d) \in Dates /\ Older(d) \in Dates
  /\ \A d \in Int : Before(d) \in Int /\ Before(d) <= d
  /\ \A d, e \in Int : d <= e => Before(d) <= Before(e)
  BY DEF Dates, Before, Older

LEMMA MarksType ==
  /\ {} \in MarkSets
  /\ \A marks \in MarkSets : /\ marks \cup {"trial_expired"} \in MarkSets
                            /\ marks \cup {"purge_d7"} \in MarkSets
  BY DEF MarkSets

LEMMA NextRetryType == ASSUME NEW n \in Nat PROVE NextRetry(n) \in Dates
<1>1. n < Len(RETRY_SCHEDULE_DAYS) => RETRY_SCHEDULE_DAYS[n + 1] \in Int
  BY ScheduleAssumption
<1>2. QED
  BY <1>1 DEF NextRetry, Dates

\* The console checks, or breaks off; and it writes.
Checks == (\E request : Checked(request)) \/ ConsoleBreaksOff
Writes == \E row, next : Written(row, next)

LEMMA OperatorDoes ==
  ASSUME OperatorActs
  PROVE  \/ ExtendTrial \/ ExtendTrialSave \/ OperatorCancels \/ ChangePlan
         \/ ReactivateSave \/ SuspendCompanySave \/ ActivateCompanySave
         \/ DeleteSubscription \/ DeleteCompany \/ Checks
  BY DEF OperatorActs, ConsoleAnswers, Checks, Reactivate, SuspendCompany, ActivateCompany,
    DeleteCompanyData

\* The row is written by Save, and shifted at midnight.
LEMMA RowStep ==
  ASSUME Types, OnTrial, Next
  PROVE  sub' \in Row /\ OnTrial'
<1> USE DEF Types, OnTrial
<1>0. None \in Dates /\ Int \subseteq Dates
  BY DEF Dates
<1>1. CASE DunningWrite
  <2> DEFINE row == dunning.row
  <2>1. row \in Row
    BY <1>1 DEF DunningWrite
  <2>2. CASE dunning.step = "paid"
    <3>1. PICK until \in Int : until = row.periodEnd + Period
      BY <2>1, Lengths DEF Row
    <3>2. sub' = [sub EXCEPT !.status = "active", !.periodEnd = until, !.nextBilling = until,
                             !.since = None, !.retry = 0, !.nextRetry = None]
      BY <1>1, <2>2, <3>1 DEF DunningWrite, Save, Renewed
    <3>3. QED
      BY <1>0, <3>2 DEF Row, Statuses
  <2>3. CASE dunning.step = "failed"
    <3>1. PICK since \in Dates : since = IF row.since # None THEN row.since ELSE 0
      BY <1>0, <2>1 DEF Row
    <3>2. PICK retry \in Nat : retry = IF row.retry < Len(RETRY_SCHEDULE_DAYS) THEN row.retry + 1
                                                                              ELSE row.retry
      BY <2>1 DEF Row
    <3>3. PICK next \in Dates : next = NextRetry(row.retry)
      BY <2>1, NextRetryType DEF Row
    <3>4. sub' = [sub EXCEPT !.status = "past_due", !.since = since, !.retry = retry,
                             !.nextRetry = next]
      BY <1>1, <2>3, <3>1, <3>2, <3>3 DEF DunningWrite, Save, PastDue
    <3>5. QED
      BY <3>4 DEF Row, Statuses
  <2>4. QED
    BY <1>1, <2>2, <2>3 DEF DunningWrite
<1>2. CASE FinalSuspend
  BY <1>2 DEF FinalSuspend, Save, Row, Statuses
<1>3. CASE BackendRenews
  <2>1. PICK until \in Int : until = sub.periodEnd + Period
    BY Lengths DEF Row
  <2>2. PICK none \in MarkSets, zero \in Int : none = {} /\ zero = 0
    BY MarksType
  <2>3. sub' = [sub EXCEPT !.status = "active", !.periodEnd = until, !.nextBilling = until,
                           !.failed = zero, !.marks = none]
    BY <1>3, <2>1, <2>2 DEF BackendRenews, Save
  <2>4. sub' \in Row
    BY <2>3 DEF Row, Statuses
  <2>5. sub'.status = "active"
    BY <2>3 DEF Row
  <2>6. QED
    BY <2>4, <2>5
<1>4. CASE BackendFails
  <2>1. PICK failed \in Int : failed = sub.failed + 1
    BY DEF Row
  <2>2. PICK next \in Int : next = IF sub.failed + 1 >= MAX_RETRY THEN sub.nextBilling ELSE 2
    BY DEF Row
  <2>3. sub' = [sub EXCEPT !.status = "past_due", !.failed = failed, !.nextBilling = next]
    BY <1>4, <2>1, <2>2 DEF BackendFails, Save
  <2>4. QED
    BY <2>3 DEF Row, Statuses
<1>5. ASSUME NEW k \in Replicas, ExpireTrial(k) \/ WarnPurge(k) \/ Purge(k)
      PROVE  sub' \in Row /\ OnTrial'
  <2>1. /\ sub.marks \cup {"trial_expired"} \in MarkSets
        /\ sub.marks \cup {"purge_d7"} \in MarkSets
    BY MarksType DEF Row
  <2>2. CASE ExpireTrial(k)
    BY <2>1, <2>2 DEF ExpireTrial, Save, Row, Statuses
  <2>3. CASE WarnPurge(k)
    BY <2>1, <2>3 DEF WarnPurge, Save, Row
  <2>4. CASE Purge(k)
    BY <2>4 DEF Purge, Save, Row, Statuses
  <2>5. QED
    BY <1>5, <2>2, <2>3, <2>4
<1>6. CASE UpgradeCommit
  <2>1. PICK until \in Int : until = In(Period)
    BY InInt, Lengths
  <2>2. PICK dawn \in BOOLEAN : dawn = (clock = "00:05")
    OBVIOUS
  <2>3. sub' = [sub EXCEPT !.status = "active", !.plan = "paid", !.trialEnd = None,
                           !.periodEnd = until, !.nextBilling = until, !.dawn = dawn,
                           !.card = TRUE, !.autoRenew = TRUE, !.cancel = FALSE]
    BY <1>6, <2>1, <2>2 DEF UpgradeCommit, Save
  <2>4. QED
    BY <1>0, <2>3 DEF Row, Statuses
<1>7. CASE DowngradeToFree
  <2>1. PICK until \in Int : until = In(FreePeriod)
    BY InInt, Lengths
  <2>2. PICK dawn \in BOOLEAN : dawn = (clock = "00:05")
    OBVIOUS
  <2>3. PICK none \in MarkSets, zero \in Int : none = {} /\ zero = 0
    BY MarksType
  <2>4. sub' = [sub EXCEPT !.plan = "free", !.status = "active", !.trialEnd = None,
                           !.periodEnd = until, !.nextBilling = until, !.dawn = dawn,
                           !.failed = zero, !.marks = none, !.cancel = FALSE]
    BY <1>7, <2>1, <2>2, <2>3 DEF DowngradeToFree, ByOwner, Save
  <2>5. sub' \in Row
    BY <1>0, <2>4 DEF Row, Statuses
  <2>6. sub'.status = "active"
    BY <2>4 DEF Row
  <2>7. QED
    BY <2>5, <2>6
<1>8. CASE ToggleAutoRenew \/ CancelAtPeriodEnd \/ CancelNow
  <2>1. CASE ToggleAutoRenew
    BY <2>1 DEF ToggleAutoRenew, ByOwner, Save, Row
  <2>2. CASE CancelAtPeriodEnd
    BY <2>2 DEF CancelAtPeriodEnd, ByOwner, Save, Row
  <2>3. CASE CancelNow
    BY <2>3 DEF CancelNow, ByOwner, Save, Row, Statuses
  <2>4. QED
    BY <1>8, <2>1, <2>2, <2>3
<1>9. CASE ExtendTrialSave
  <2>1. operator \in Int
    BY <1>9 DEF ExtendTrialSave, Dates
  <2>2. QED
    BY <1>0, <1>9, <2>1 DEF ExtendTrialSave, Save, Row
<1>10. CASE OperatorCancels \/ ReactivateSave
  <2>1. CASE OperatorCancels
    BY <2>1 DEF OperatorCancels, ByOperator, Save, Row, Statuses
  <2>2. CASE ReactivateSave
    BY <1>0, <2>2 DEF ReactivateSave, Written, Save, Row, Statuses
  <2>3. QED
    BY <1>10, <2>1, <2>2
<1>11. CASE \/ SuspendCompanySave \/ ActivateCompanySave \/ ChangePlan
            \/ DeleteSubscription \/ DeleteCompany
  BY <1>11 DEF SuspendCompanySave, ActivateCompanySave, ChangePlan, DeleteSubscription,
    DeleteCompany, ByOperator, Written, Save, Row, Statuses
<1>12. CASE Tick
  <2>1. CASE Midnight
    BY <2>1, DatesType DEF Midnight, Row
  <2>2. QED
    BY <1>12, <2>1 DEF Tick
<1>13. CASE \/ DunningRenewal \/ DunningRetry \/ DunningPays \/ DunningFails \/ NothingDue \/ DunningBreaksOff
            \/ Upgrade \/ UpgradeDeclined \/ ExtendTrial
            \/ Checks
            \/ SuspendSelect \/ \E k \in Replicas : NoticeSelect(k) \/ NoticeFails(k)
  <2>1. sub' = sub
    BY <1>13 DEF DunningRenewal, DunningRetry, Select, DunningPays, DunningFails, NothingDue,
      DunningBreaksOff,
      Upgrade, UpgradeDeclined, Checks, Checked, ConsoleBreaksOff, ExtendTrial, SuspendSelect,
      NoticeSelect, NoticeFails
  <2>2. QED
    BY <2>1
<1>14. QED
  BY <1>1, <1>2, <1>3, <1>4, <1>5, <1>6, <1>7, <1>8, <1>9, <1>10, <1>11, <1>12, <1>13, OperatorDoes
    DEF Next, Timers, OwnerActs

\* The actions, flat.
LEMMA Disjuncts ==
  ASSUME Next
  PROVE  \/ Tick \/ DunningRenewal \/ DunningRetry \/ DunningPays \/ DunningFails \/ DunningWrite
         \/ SuspendSelect \/ FinalSuspend \/ BackendRenews \/ BackendFails \/ NothingDue \/ DunningBreaksOff
         \/ \E k \in Replicas :
              NoticeSelect(k) \/ ExpireTrial(k) \/ WarnPurge(k) \/ NoticeFails(k) \/ Purge(k)
         \/ Upgrade \/ UpgradeDeclined \/ UpgradeCommit
         \/ \E row : ByOwner(row)
         \/ ExtendTrial \/ ExtendTrialSave \/ (\E row, c : ByOperator(row, c)) \/ Checks \/ Writes
  BY DEF Next, Timers, OwnerActs, OperatorActs, DowngradeToFree, ToggleAutoRenew, CancelAtPeriodEnd,
    CancelNow, OperatorCancels, ChangePlan, Writes, ConsoleAnswers, ReactivateSave, SuspendCompanySave,
    ActivateCompanySave, DeleteSubscription, DeleteCompany, Checks, Reactivate, SuspendCompany,
    ActivateCompany, DeleteCompanyData

\* The company is deleted by the purge and the console alone, and its users are by the
\* console, for good.
LEMMA CompanyStep ==
  ASSUME company \in CompanyRow, Next
  PROVE  /\ company' \in CompanyRow /\ (company'.users => company.users)
         /\ company'.deleted = company.deleted \/ DeleteCompany \/ \E k \in Replicas : Purge(k)
<1>1. CASE \/ Tick \/ DunningRenewal \/ DunningRetry \/ DunningPays \/ DunningFails \/ DunningWrite
           \/ SuspendSelect \/ FinalSuspend \/ BackendRenews \/ BackendFails \/ NothingDue
           \/ DunningBreaksOff \/ Upgrade \/ UpgradeDeclined \/ UpgradeCommit
           \/ (\E row : ByOwner(row)) \/ ExtendTrial \/ ExtendTrialSave
  BY <1>1 DEF Tick, DunningRenewal, DunningRetry, Select, DunningPays, DunningFails, DunningWrite,
    SuspendSelect, FinalSuspend, BackendRenews, BackendFails, BackendTurn, NothingDue,
    DunningBreaksOff, Upgrade, UpgradeDeclined, UpgradeCommit, ByOwner, ExtendTrial, ExtendTrialSave
<1>2. ASSUME NEW k \in Replicas, NoticeSelect(k) \/ ExpireTrial(k) \/ WarnPurge(k) \/ NoticeFails(k)
      PROVE  UNCHANGED company
  BY <1>2 DEF NoticeSelect, ExpireTrial, WarnPurge, NoticeFails
<1>3. ASSUME NEW k \in Replicas, Purge(k)
      PROVE  company' = [company EXCEPT !.deleted = TRUE]
  BY <1>3 DEF Purge
<1>4. CASE OperatorActs
  <2>1. CASE ExtendTrial \/ ExtendTrialSave \/ ChangePlan \/ DeleteSubscription \/ ConsoleBreaksOff
             \/ Reactivate \/ SuspendCompany \/ ActivateCompany
    BY <2>1 DEF ExtendTrial, ExtendTrialSave, ChangePlan, ByOperator, DeleteSubscription,
      ConsoleBreaksOff, Reactivate, SuspendCompany, ActivateCompany
  <2>2. CASE OperatorCancels \/ ReactivateSave \/ SuspendCompanySave \/ ActivateCompanySave
    <3>1. \E x \in CompanyStatuses : company' \in {company, [company EXCEPT !.status = x]}
      BY <2>2 DEF OperatorCancels, ByOperator, ReactivateSave, SuspendCompanySave,
        ActivateCompanySave, CompanyStatuses
    <3> QED
      BY <3>1 DEF CompanyRow
  <2>3. CASE DeleteCompanyData
    BY <2>3 DEF DeleteCompanyData, CompanyRow
  <2>4. CASE DeleteCompany
    BY <2>4 DEF DeleteCompany, CompanyRow, CompanyStatuses
  <2> QED
    BY <1>4, <2>1, <2>2, <2>3, <2>4 DEF OperatorActs, ConsoleAnswers
<1> QED
  BY <1>1, <1>2, <1>3, <1>4 DEF Next, Timers, OwnerActs, CompanyRow, DowngradeToFree, ToggleAutoRenew,
    CancelAtPeriodEnd, CancelNow

LEMMA TypesStep ==
  ASSUME Types, OnTrial, [Next]_vars
  PROVE  Types' /\ OnTrial'
<1> SUFFICES ASSUME Next PROVE Types' /\ OnTrial'
  BY DEF vars, history, Types, OnTrial
<1>1. sub' \in Row /\ OnTrial'
  BY RowStep
<1>2. /\ dunning' \in DunningType
      /\ dunning'.step # "idle" => dunning'.row \in Row
  <2>1. CASE DunningRenewal \/ DunningRetry
    <3>1. dunning' = [step |-> "selected", row |-> sub]
      BY <2>1 DEF DunningRenewal, DunningRetry, Select
    <3>2. QED
      BY <3>1 DEF Types, DunningType
  <2>2. CASE DunningPays
    BY <2>2 DEF DunningPays, Types, DunningType
  <2>3. CASE DunningFails
    BY <2>3 DEF DunningFails, Types, DunningType
  <2>4. CASE DunningWrite
    <3>1. dunning' = [step |-> "idle", row |-> None]
      BY <2>4 DEF DunningWrite
    <3>2. QED
      BY <3>1 DEF DunningType
  <2>5. CASE UNCHANGED dunning
    BY <2>5 DEF Types
  <2>6. QED
    BY <2>1, <2>2, <2>3, <2>4, <2>5, Disjuncts DEF Tick, SuspendSelect, FinalSuspend, BackendRenews,
      BackendFails,
      BackendTurn, NothingDue, DunningBreaksOff, NoticeSelect, ExpireTrial, WarnPurge, NoticeFails,
      Purge, JobDone, Upgrade,
      UpgradeDeclined, Checks, Checked, ConsoleBreaksOff, UpgradeCommit, ByOwner, ExtendTrial,
      ExtendTrialSave, ByOperator, Writes, Written
<1>3. operator' \in Dates
  <2>1. CASE ExtendTrial
    <3>1. sub.trialEnd + 1 \in Int
      BY <2>1 DEF ExtendTrial, OnTrial
    <3>2. QED
      BY <2>1, <3>1 DEF ExtendTrial, Dates
  <2>2. CASE ExtendTrialSave
    BY <2>2 DEF ExtendTrialSave, Dates
  <2>3. CASE UNCHANGED operator
    BY <2>3 DEF Types
  <2>4. QED
    BY <2>1, <2>2, <2>3, Disjuncts DEF Tick, DunningRenewal, DunningRetry, Select, DunningPays,
      DunningFails, DunningWrite, SuspendSelect, FinalSuspend, BackendRenews, BackendFails,
      BackendTurn, NothingDue, DunningBreaksOff,
      NoticeSelect, ExpireTrial, WarnPurge, NoticeFails, Purge, JobDone, Upgrade, UpgradeDeclined,
      Checks, Checked, ConsoleBreaksOff,
      UpgradeCommit, ByOwner, ByOperator, Writes, Written
<1>4. paidUntil' \in Int
  <2>1. CASE Tick
    BY <2>1, DatesType DEF Tick, Midnight, Types
  <2>2. CASE DunningWrite
    <3>1. dunning.row.periodEnd + Period \in Int
      BY <2>2, Lengths DEF DunningWrite, Types, Row
    <3>2. QED
      BY <2>2, <3>1 DEF DunningWrite, Types
  <2>3. CASE BackendRenews
    <3>1. sub.periodEnd + Period \in Int
      BY Lengths DEF Types, Row
    <3>2. QED
      BY <2>3, <3>1 DEF BackendRenews, Types
  <2>4. CASE UpgradeCommit
    BY <2>4, InInt, Lengths DEF UpgradeCommit
  <2>5. CASE UNCHANGED paidUntil
    BY <2>5 DEF Types
  <2>6. QED
    BY <2>1, <2>2, <2>3, <2>4, <2>5, Disjuncts DEF DunningRenewal, DunningRetry, Select, DunningPays,
      DunningFails, SuspendSelect, FinalSuspend, BackendFails, NothingDue, DunningBreaksOff,
      NoticeSelect, ExpireTrial, WarnPurge,
      NoticeFails, Purge, JobDone, Upgrade, UpgradeDeclined, Checks, Checked, ConsoleBreaksOff,
      ByOwner, ExtendTrial, ExtendTrialSave,
      ByOperator, Writes, Written, history
<1>5. raced' \in BOOLEAN
  <2>1. \A h, row : Save(h, row) => raced' \in BOOLEAN
    BY DEF Save
  <2>2. \A h : Reads(h) => raced' \in BOOLEAN
    BY DEF Reads, Types
  <2>3. CASE UNCHANGED raced
    BY <2>3 DEF Types
  <2>4. QED
    BY <2>1, <2>2, <2>3, Disjuncts DEF Tick, DunningRenewal, DunningRetry, Select, DunningPays,
      DunningFails, DunningWrite, SuspendSelect, FinalSuspend, BackendRenews, BackendFails,
      NothingDue, DunningBreaksOff, NoticeSelect,
      ExpireTrial, WarnPurge, NoticeFails, Purge, JobDone, Upgrade, UpgradeDeclined, Checks, Checked,
      ConsoleBreaksOff, UpgradeCommit, ByOwner,
      ExtendTrial, ExtendTrialSave, ByOperator, Writes, Written, history
<1>6. early' \in BOOLEAN
  <2>1. Charged => early' \in BOOLEAN
    BY DEF Charged
  <2>2. CASE UNCHANGED early
    BY <2>2 DEF Types
  <2>3. QED
    BY <2>1, <2>2, Disjuncts DEF Tick, DunningRenewal, DunningRetry, Select, DunningPays, DunningFails,
      DunningWrite, SuspendSelect, FinalSuspend, BackendRenews, BackendFails, NothingDue,
      DunningBreaksOff, NoticeSelect, ExpireTrial,
      WarnPurge, NoticeFails, Purge, JobDone, Upgrade, UpgradeDeclined, Checks, Checked,
      ConsoleBreaksOff, UpgradeCommit, ByOwner,
      ExtendTrial, ExtendTrialSave, ByOperator, Writes, Written, history
<1>7. job' \in [Workers -> Jobs]
  <2>1. ASSUME NEW k \in Replicas, NoticeSelect(k)
        PROVE  job' \in [Workers -> Jobs]
    <3>1. PICK what \in Jobs : job' = [job EXCEPT ![k] = what]
      BY <2>1 DEF NoticeSelect, Due, Jobs
    <3>2. QED
      BY <3>1 DEF Types
  <2>5. ASSUME SuspendSelect
        PROVE  job' \in [Workers -> Jobs]
    BY <2>5 DEF SuspendSelect, Types, Jobs
  <2>2. ASSUME NEW k \in Workers, job' = [job EXCEPT ![k] = "idle"]
        PROVE  job' \in [Workers -> Jobs]
    BY <2>2 DEF Types, Jobs
  <2>3. CASE UNCHANGED job
    BY <2>3 DEF Types
  <2>4. QED
    BY <2>1, <2>2, <2>3, <2>5, Disjuncts DEF Tick, DunningRenewal, DunningRetry, Select, DunningPays,
      DunningFails, DunningWrite, FinalSuspend, BackendRenews, BackendFails, BackendTurn, NothingDue,
      DunningBreaksOff,
      ExpireTrial, WarnPurge, NoticeFails, Purge, JobDone, Upgrade, UpgradeDeclined, Checks, Checked,
      ConsoleBreaksOff, UpgradeCommit,
      ByOwner, ExtendTrial, ExtendTrialSave, ByOperator, Writes, Written
<1>9. company' \in CompanyRow
  BY CompanyStep DEF Types
<1>8. QED
  BY <1>1, <1>2, <1>3, <1>4, <1>5, <1>6, <1>7, <1>9 DEF Types

-----------------------------------------------------------------------------
\* Nobody is half way when a timer fires.
LEMMA TickIdle ==
  ASSUME Tick
  PROVE  /\ dunning.step = "idle" /\ operator = None
         /\ \A k \in Workers : job[k] = "idle"
  BY DEF Tick, InFlight

LEMMA OthersStep ==
  ASSUME Types, OthersRead, Next
  PROVE  OthersRead'
<1>1. ASSUME NEW h, NEW row, h \notin Workers \cup {"operator"}, Save(h, row),
             UNCHANGED <<operator, job>>
      PROVE  OthersRead'
  BY <1>1, SaveOthers
<1>2. CASE ExtendTrialSave
  BY <1>2, SaveOthers DEF ExtendTrialSave
<1>3. ASSUME NEW k \in Workers, NEW row, Save(k, row), JobDone(k)
      PROVE  OthersRead'
  <2>2. operator' = operator /\ job' = [job EXCEPT ![k] = "idle"]
    BY <1>3 DEF JobDone
  <2>3. job'[k] = "idle" /\ \A j \in Workers : job'[j] \in {job[j], "idle"}
    BY <2>2 DEF Types
  <2>4. k # "operator" /\ (\A j \in Workers : j = k => job'[j] = "idle")
    BY <2>3
  <2>5. QED
    BY <1>3, <2>2, <2>3, <2>4, SaveOthers
<1>11. CASE FinalSuspend
  BY <1>3, <1>11 DEF FinalSuspend
<1>12. ASSUME NEW k \in Replicas, ExpireTrial(k) \/ WarnPurge(k) \/ Purge(k)
       PROVE  OthersRead'
  BY <1>3, <1>12 DEF ExpireTrial, WarnPurge, Purge
<1>13. CASE SuspendSelect
  <2>1. job' = [job EXCEPT !["suspension"] = "suspend"]
    BY <1>13 DEF SuspendSelect
  <2>2. /\ job'["suspension"] = "suspend"
        /\ \A j \in Workers \ {"suspension"} : job'[j] = job[j] /\ (j \in stale' <=> j \in stale)
        /\ sub' = sub /\ operator' = operator
        /\ "operator" \in stale' <=> "operator" \in stale
    BY <1>13, <2>1 DEF SuspendSelect, Reads, Types
  <2>3. sub.status = "past_due"
    BY <1>13 DEF SuspendSelect, Suspends
  <2>4. QED
    BY <2>2, <2>3 DEF OthersRead
<1>4. ASSUME NEW k \in Replicas, NoticeFails(k) \/ NoticeSelect(k)
      PROVE  OthersRead'
  <2>1. /\ \A j \in Workers \ {k} : job'[j] = job[j] /\ (j \in stale' <=> j \in stale)
        /\ sub' = sub /\ operator' = operator
        /\ "operator" \in stale' <=> "operator" \in stale
    BY <1>4 DEF NoticeFails, NoticeSelect, JobDone, Reads, Types
  <2>2. CASE NoticeFails(k)
    <3>1. job'[k] = "idle"
      BY <2>2 DEF NoticeFails, JobDone, Types
    <3>2. QED
      BY <2>1, <3>1 DEF OthersRead
  <2>3. CASE NoticeSelect(k)
    <3>1. PICK what \in {"idle"} \cup Due : job' = [job EXCEPT ![k] = what]
      BY <2>3 DEF NoticeSelect
    <3>2. job'[k] = what
      BY <3>1 DEF Types
    <3>3. /\ what # "suspend"
          /\ what = "expire" => sub.status = "trialing"
          /\ what = "purge" => sub.status = "expired"
      BY <3>1 DEF Due, Expires, Purges
    <3>4. QED
      BY <2>1, <3>2, <3>3 DEF OthersRead
  <2>4. QED
    BY <1>4, <2>2, <2>3
<1>5. CASE ExtendTrial
  BY <1>5 DEF ExtendTrial, Reads, OthersRead
<1>6. CASE DunningRenewal \/ DunningRetry
  BY <1>6 DEF DunningRenewal, DunningRetry, Select, Reads, OthersRead
<1>7. CASE Tick
  BY <1>7, TickIdle DEF Tick, OthersRead
<1>8. CASE DunningPays \/ DunningFails \/ NothingDue \/ DunningBreaksOff \/ Upgrade \/ UpgradeDeclined \/ Checks
  BY <1>8 DEF DunningPays, DunningFails, NothingDue, DunningBreaksOff, Upgrade, UpgradeDeclined,
    Checks, Checked, ConsoleBreaksOff, history, OthersRead
<1>9. CASE \/ DunningWrite \/ BackendRenews \/ BackendFails \/ UpgradeCommit
           \/ (\E row : ByOwner(row)) \/ (\E row, c : ByOperator(row, c)) \/ Writes
  <2>1. PICK h, row : h \in {"dunning", "timer", "owner", "console"} /\ Save(h, row)
    BY <1>9 DEF DunningWrite, BackendRenews, BackendFails, UpgradeCommit, ByOwner, ByOperator,
      Writes, Written
  <2>2. UNCHANGED <<operator, job>>
    BY <1>9 DEF DunningWrite, BackendRenews, BackendFails, BackendTurn, UpgradeCommit,
      ByOwner, ByOperator, Writes, Written
  <2>3. QED
    BY <1>1, <2>1, <2>2
<1>10. QED
  BY <1>2, <1>4, <1>5, <1>6, <1>7, <1>8, <1>9, <1>11, <1>12, <1>13, Disjuncts

LEMMA DunningStep ==
  ASSUME Types, DunningRead, PaidPeriod, Next
  PROVE  DunningRead'
<1>1. ASSUME NEW h, NEW row, h # "dunning", Save(h, row), UNCHANGED dunning
      PROVE  DunningRead'
  BY <1>1, SaveDunning DEF Types
<1>2. ASSUME NEW h, h # "dunning", Reads(h), UNCHANGED <<dunning, sub>>
      PROVE  DunningRead'
  BY <1>2, ReadStale DEF DunningRead
<1>3. CASE DunningRenewal \/ DunningRetry
  <2>1. /\ dunning' = [step |-> "selected", row |-> sub]
        /\ sub' = sub /\ raced' = raced
    BY <1>3 DEF DunningRenewal, DunningRetry, Select, Reads
  <2>2. /\ sub.status \in {"active", "past_due"}
        /\ sub.card /\ ~raced => sub.periodEnd <= 0
    <3>1. CASE DunningRenewal
      BY <3>1 DEF DunningRenewal, RenewalDue, Types, Row
    <3>2. CASE DunningRetry
      BY <3>2 DEF DunningRetry, RetryDue, PaidPeriod
    <3>3. QED
      BY <1>3, <3>1, <3>2
  <2>3. QED
    BY <2>1, <2>2 DEF DunningRead
<1>4. CASE DunningPays
  <2>1. /\ dunning'.step = "paid" /\ dunning'.row = dunning.row
        /\ dunning.step # "idle" /\ dunning.row.card
        /\ sub' = sub /\ raced' = raced /\ stale' = stale
    BY <1>4 DEF DunningPays, Types, DunningType
  <2>2. QED
    BY <2>1 DEF DunningRead
<1>5. CASE DunningFails
  <2>1. /\ dunning'.step = "failed" /\ dunning'.row = dunning.row
        /\ dunning.step # "idle"
        /\ sub' = sub /\ raced' = raced /\ stale' = stale
    BY <1>5 DEF DunningFails, history, Types, DunningType
  <2>2. QED
    BY <2>1 DEF DunningRead
<1>6. CASE DunningWrite
  BY <1>6 DEF DunningWrite, DunningRead
<1>7. CASE \/ FinalSuspend \/ BackendRenews \/ BackendFails \/ UpgradeCommit \/ ExtendTrialSave
           \/ (\E row : ByOwner(row)) \/ (\E row, c : ByOperator(row, c)) \/ Writes
  <2>1. PICK h, row : h \in {"timer", "suspension", "owner", "console", "operator"} /\ Save(h, row)
    BY <1>7 DEF FinalSuspend, BackendRenews, BackendFails, UpgradeCommit, ExtendTrialSave, ByOwner,
      ByOperator, Writes, Written
  <2>2. UNCHANGED dunning
    BY <1>7 DEF FinalSuspend, JobDone, BackendRenews, BackendFails, BackendTurn, UpgradeCommit,
      ExtendTrialSave, ByOwner, ByOperator, Writes, Written
  <2>3. QED
    BY <1>1, <2>1, <2>2
<1>8. ASSUME NEW k \in Replicas, ExpireTrial(k) \/ WarnPurge(k) \/ Purge(k)
      PROVE  DunningRead'
  <2>1. PICK row : Save(k, row)
    BY <1>8 DEF ExpireTrial, WarnPurge, Purge
  <2>2. UNCHANGED dunning /\ k # "dunning"
    BY <1>8 DEF ExpireTrial, WarnPurge, Purge, JobDone
  <2>3. QED
    BY <1>1, <2>1, <2>2
<1>9. ASSUME NEW k \in Replicas, NoticeFails(k) \/ NoticeSelect(k)
      PROVE  DunningRead'
  <2>1. Reads(k) /\ UNCHANGED <<dunning, sub>> /\ k # "dunning"
    BY <1>9 DEF NoticeFails, NoticeSelect, JobDone
  <2>2. QED
    BY <1>2, <2>1
<1>10. CASE ExtendTrial \/ SuspendSelect
  BY <1>2, <1>10 DEF ExtendTrial, SuspendSelect
<1>11. CASE Tick
  BY <1>11, TickIdle DEF Tick, DunningRead
<1>12. CASE NothingDue \/ DunningBreaksOff \/ Upgrade \/ UpgradeDeclined \/ Checks
  BY <1>12 DEF NothingDue, DunningBreaksOff, Upgrade, UpgradeDeclined, Checks, Checked,
    ConsoleBreaksOff, history, DunningRead
<1>13. QED
  BY <1>3, <1>4, <1>5, <1>6, <1>7, <1>8, <1>9, <1>10, <1>11, <1>12, Disjuncts

\* Days from now are one fewer after midnight.
LEMMA Clocks ==
  ASSUME Tick
  PROVE  /\ clock' = "00:05" => Midnight /\ In(Period) = Period + 1
         /\ clock' # "00:05" => UNCHANGED <<sub, paidUntil>> /\ In(Period)' = Period + 1
<1>1. clock' = "00:05" => Midnight /\ clock = "10:00"
  BY DEF Tick, Clock
<1>2. QED
  BY <1>1 DEF Tick, In

LEMMA PaidStep ==
  ASSUME Types, OnTrial, DunningRead, OthersRead, PaidPeriod, Next
  PROVE  PaidPeriod'
<1> SUFFICES ASSUME ~raced' PROVE PaidPeriod'
  BY DEF PaidPeriod
<1> USE DEF PaidPeriod
<1>a. sub.periodEnd \in Int /\ sub.nextBilling \in Int /\ paidUntil \in Int
  BY DEF Types, Row
<1>b. ASSUME NEW h, NEW row, Save(h, row) PROVE ~raced /\ h \notin stale /\ sub' = row
  BY <1>b, SaveStale DEF Types
<1>c. In(Period) \in Int /\ Period <= In(Period) /\ In(Period) <= Period + 1
  BY InInt, Lengths
<1>d. clock' = clock => In(Period)' = In(Period)
  BY DEF In
<1>1. CASE DunningWrite
  <2>1. clock' = clock /\ "dunning" \notin stale /\ ~raced /\ dunning.step # "idle"
    BY <1>1, <1>b DEF DunningWrite
  <2>2. /\ dunning.row = sub /\ sub.status \in {"active", "past_due"}
        /\ dunning.step = "paid" => sub.card
        /\ sub.card => sub.periodEnd <= 0
    BY <2>1 DEF DunningRead
  <2>3. CASE dunning.step = "paid"
    <3>1. PICK until \in Int : until = sub.periodEnd + Period
      BY <1>a, Lengths
    <3>2. sub' = [sub EXCEPT !.status = "active", !.periodEnd = until, !.nextBilling = until,
                             !.since = None, !.retry = 0, !.nextRetry = None]
      BY <1>1, <2>2, <2>3, <3>1 DEF DunningWrite, Save, Renewed
    <3>3. /\ sub'.status = "active" /\ sub'.periodEnd = until /\ sub'.nextBilling = until
          /\ sub'.card = sub.card
      BY <3>2 DEF Types, Row
    <3>4. paidUntil' = until
      BY <1>1, <2>2, <2>3, <3>1 DEF DunningWrite
    <3>5. until <= In(Period)
      BY <1>a, <1>c, <2>2, <2>3, <3>1, Lengths
    <3>6. QED
      BY <1>d, <2>1, <2>2, <2>3, <3>3, <3>4, <3>5
  <2>4. CASE dunning.step # "paid"
    <3>1. sub' = PastDue(sub) /\ paidUntil' = paidUntil
      BY <1>1, <2>2, <2>4 DEF DunningWrite, Save
    <3>2. /\ sub'.status = "past_due" /\ sub'.periodEnd = sub.periodEnd
          /\ sub'.nextBilling = sub.nextBilling /\ sub'.card = sub.card
      BY <3>1 DEF PastDue, Types, Row
    <3>3. paidUntil <= 0
      BY <1>a, <2>1, <2>2 DEF Types, Row
    <3>4. QED
      BY <1>d, <2>1, <2>2, <3>1, <3>2, <3>3
  <2>5. QED
    BY <2>3, <2>4
<1>2. ASSUME NEW row, NEW h, Save(h, row), UNCHANGED <<clock, paidUntil>>,
             row.card = sub.card, row.periodEnd = sub.periodEnd, row.nextBilling = sub.nextBilling,
             row.status \notin {"trialing", "expired", "past_due"}
      PROVE  PaidPeriod'
  BY <1>2, <1>b, <1>d
<1>3. CASE FinalSuspend
  <2>1. PICK row : row = [sub EXCEPT !.status = "suspended"]
    OBVIOUS
  <2>2. /\ row.card = sub.card /\ row.periodEnd = sub.periodEnd /\ row.nextBilling = sub.nextBilling
        /\ row.status = "suspended"
    BY <2>1 DEF Types, Row
  <2>3. Save("suspension", row) /\ UNCHANGED <<clock, paidUntil>>
    BY <1>3, <2>1 DEF FinalSuspend, JobDone
  <2>4. QED
    BY <1>2, <2>2, <2>3
<1>4. CASE BackendRenews
  <2>0. ~raced
    BY <1>4, <1>b DEF BackendRenews
  <2>1. clock' = clock /\ sub.card /\ sub.nextBilling <= 0 /\ sub.periodEnd <= sub.nextBilling
    BY <1>4, <2>0 DEF BackendRenews, BackendTurn, BackendDue
  <2>2. PICK until \in Int : until = sub.periodEnd + Period
    BY <1>a, Lengths
  <2>3. PICK none \in MarkSets, zero \in Int : none = {} /\ zero = 0
    BY MarksType
  <2>4. sub' = [sub EXCEPT !.status = "active", !.periodEnd = until, !.nextBilling = until,
                           !.failed = zero, !.marks = none]
    BY <1>4, <2>2, <2>3 DEF BackendRenews, Save
  <2>5. /\ sub'.status = "active" /\ sub'.periodEnd = until /\ sub'.nextBilling = until
        /\ sub'.card = sub.card
    BY <2>4 DEF Types, Row
  <2>6. until <= In(Period) /\ sub.periodEnd <= until
    BY <1>a, <1>c, <2>1, <2>2, Lengths
  <2>7. paidUntil' \in {paidUntil, until}
    BY <1>4, <2>2 DEF BackendRenews
  <2>8. paidUntil' <= until /\ paidUntil' <= In(Period)
    BY <1>a, <2>0, <2>1, <2>6, <2>7
  <2>9. QED
    BY <1>d, <2>1, <2>5, <2>8
<1>5. CASE BackendFails
  <2>0. ~raced
    BY <1>5, <1>b DEF BackendFails
  <2>1. clock' = clock /\ sub.card /\ sub.nextBilling <= 0 /\ sub.periodEnd <= sub.nextBilling
    BY <1>5, <2>0 DEF BackendFails, BackendTurn, BackendDue
  <2>2. PICK failed \in Int : failed = sub.failed + 1
    BY DEF Types, Row
  <2>3. PICK next \in Int : next = IF sub.failed + 1 >= MAX_RETRY THEN sub.nextBilling ELSE 2
    BY <1>a
  <2>4. sub' = [sub EXCEPT !.status = "past_due", !.failed = failed, !.nextBilling = next]
    BY <1>5, <2>2, <2>3 DEF BackendFails, Save
  <2>5. /\ sub'.status = "past_due" /\ sub'.periodEnd = sub.periodEnd /\ sub'.nextBilling = next
        /\ sub'.card = sub.card /\ paidUntil' = paidUntil
    BY <1>5, <2>4 DEF BackendFails, Types, Row
  <2>6. sub.periodEnd <= next /\ sub.periodEnd <= 0 /\ paidUntil <= sub.periodEnd /\ paidUntil <= 0
    BY <1>a, <2>0, <2>1, <2>3
  <2>7. QED
    BY <1>d, <2>0, <2>1, <2>5, <2>6
<1>6. ASSUME NEW k \in Replicas, ExpireTrial(k) \/ WarnPurge(k) \/ Purge(k)
      PROVE  PaidPeriod'
  <2>0. clock' = clock /\ paidUntil' = paidUntil /\ ~raced /\ k \notin stale
    BY <1>6, <1>b DEF ExpireTrial, WarnPurge, Purge, JobDone
  <2>1. /\ sub'.card = sub.card /\ sub'.periodEnd = sub.periodEnd
        /\ sub'.nextBilling = sub.nextBilling
    <3>1. CASE ExpireTrial(k)
      BY <3>1 DEF ExpireTrial, Save, Types, Row
    <3>2. CASE WarnPurge(k)
      BY <3>2 DEF WarnPurge, Save, Types, Row
    <3>3. CASE Purge(k)
      BY <3>3 DEF Purge, Save, Types, Row
    <3>4. QED
      BY <1>6, <3>1, <3>2, <3>3
  <2>2. /\ sub'.status \in {"trialing", "expired", "past_due"} =>
               sub.status \in {"trialing", "expired", "past_due"}
        /\ sub'.status = "past_due" => sub.status = "past_due"
    <3>1. CASE ExpireTrial(k)
      <4>1. sub.status = "trialing"
        BY <2>0, <3>1 DEF ExpireTrial, OthersRead
      <4>2. sub'.status = "expired"
        BY <3>1 DEF ExpireTrial, Save, Types, Row
      <4>3. QED
        BY <4>1, <4>2
    <3>2. CASE WarnPurge(k)
      BY <3>2 DEF WarnPurge, Save, Types, Row
    <3>3. CASE Purge(k)
      BY <3>3 DEF Purge, Save, Types, Row
    <3>4. QED
      BY <1>6, <3>1, <3>2, <3>3
  <2>3. QED
    BY <1>d, <2>0, <2>1, <2>2
<1>7. CASE UpgradeCommit
  <2>1. PICK until \in Int : until = In(Period)
    BY <1>c
  <2>2. PICK dawn \in BOOLEAN : dawn = (clock = "00:05")
    OBVIOUS
  <2>3. sub' = [sub EXCEPT !.status = "active", !.plan = "paid", !.trialEnd = None,
                           !.periodEnd = until, !.nextBilling = until, !.dawn = dawn,
                           !.card = TRUE, !.autoRenew = TRUE, !.cancel = FALSE]
    BY <1>7, <2>1, <2>2 DEF UpgradeCommit, Save
  <2>4. sub'.status = "active" /\ sub'.periodEnd = until /\ sub'.nextBilling = until /\ sub'.card
    BY <2>3 DEF Types, Row
  <2>5. paidUntil' = until /\ clock' = clock
    BY <1>7, <2>1 DEF UpgradeCommit
  <2>6. QED
    BY <1>d, <2>1, <2>4, <2>5
<1>8. CASE DowngradeToFree
  <2>0. clock' = clock /\ paidUntil' = paidUntil /\ ~raced
    BY <1>8, <1>b DEF DowngradeToFree, ByOwner
  <2>1. PICK until \in Int : until = In(FreePeriod)
    BY InInt, Lengths
  <2>2. PICK dawn \in BOOLEAN : dawn = (clock = "00:05")
    OBVIOUS
  <2>3. PICK none \in MarkSets, zero \in Int : none = {} /\ zero = 0
    BY MarksType
  <2>4. sub' = [sub EXCEPT !.plan = "free", !.status = "active", !.trialEnd = None,
                           !.periodEnd = until, !.nextBilling = until, !.dawn = dawn,
                           !.failed = zero, !.marks = none, !.cancel = FALSE]
    BY <1>8, <2>1, <2>2, <2>3 DEF DowngradeToFree, ByOwner, Save
  <2>5. /\ sub'.status = "active" /\ sub'.periodEnd = until /\ sub'.nextBilling = until
        /\ sub'.card = sub.card
    BY <2>4 DEF Types, Row
  <2>6. paidUntil <= until
    BY <1>a, <1>c, <2>0, <2>1, Lengths DEF In
  <2>7. QED
    BY <1>d, <2>0, <2>1, <2>5, <2>6
<1>9. CASE ToggleAutoRenew \/ CancelAtPeriodEnd \/ CancelNow \/ OperatorCancels \/ ChangePlan
  <2>0. clock' = clock /\ paidUntil' = paidUntil /\ ~raced
    BY <1>9, <1>b DEF ToggleAutoRenew, CancelAtPeriodEnd, CancelNow, OperatorCancels, ChangePlan,
      ByOwner, ByOperator, Writes, Written
  <2>1. /\ sub'.card = sub.card /\ sub'.periodEnd = sub.periodEnd
        /\ sub'.nextBilling = sub.nextBilling /\ sub'.status \in {sub.status, "canceled"}
    <3>1. CASE ToggleAutoRenew
      BY <3>1 DEF ToggleAutoRenew, ByOwner, Save, Types, Row
    <3>2. CASE CancelAtPeriodEnd \/ CancelNow
      BY <3>2 DEF CancelAtPeriodEnd, CancelNow, ByOwner, Save, Types, Row
    <3>3. CASE OperatorCancels
      BY <3>3 DEF OperatorCancels, ByOperator, Save, Types, Row
    <3>4. CASE ChangePlan
      BY <3>4 DEF ChangePlan, ByOperator, Save, Types, Row
    <3>5. QED
      BY <1>9, <3>1, <3>2, <3>3, <3>4
  <2>2. QED
    BY <1>d, <2>0, <2>1
<1>10. CASE ReactivateSave \/ SuspendCompanySave \/ ActivateCompanySave \/ DeleteSubscription
  <2>1. clock' = clock /\ paidUntil' = paidUntil /\ ~raced
    BY <1>10, <1>b DEF ReactivateSave, SuspendCompanySave, ActivateCompanySave, DeleteSubscription,
      Written
  <2>2. /\ sub'.card = sub.card /\ sub'.periodEnd = sub.periodEnd
        /\ sub'.nextBilling = sub.nextBilling
        /\ sub'.status \in {"active", "suspended", "canceled"}
    <3>1. CASE ReactivateSave
      BY <3>1 DEF ReactivateSave, Written, Save, Types, Row
    <3>2. CASE SuspendCompanySave \/ ActivateCompanySave \/ DeleteSubscription
      BY <3>2 DEF SuspendCompanySave, ActivateCompanySave, DeleteSubscription, Written, Save, Types, Row
    <3>3. QED
      BY <1>10, <3>1, <3>2
  <2>3. QED
    BY <1>d, <2>1, <2>2
<1>11. CASE ExtendTrialSave
  <2>1. /\ clock' = clock /\ paidUntil' = paidUntil /\ ~raced /\ "operator" \notin stale
        /\ operator # None
    BY <1>11, <1>b DEF ExtendTrialSave
  <2>2. sub.status = "trialing" /\ ~sub.card /\ paidUntil <= 0
    BY <2>1 DEF OthersRead, OnTrial
  <2>3. operator \in Int
    BY <2>1 DEF Types, Dates
  <2>4. sub' = [sub EXCEPT !.trialEnd = operator, !.periodEnd = operator]
    BY <1>11 DEF ExtendTrialSave, Save
  <2>5. sub'.card = sub.card
    BY <2>3, <2>4 DEF Types, Row
  <2>6. QED
    BY <1>d, <2>1, <2>2, <2>5
<1>12. CASE Tick
  <2>0. ~raced
    BY <1>12 DEF Tick
  <2>1. CASE clock' # "00:05"
    BY <1>a, <1>c, <2>0, <2>1, <1>12, Clocks
  <2>2. CASE clock' = "00:05"
    <3>1. Midnight /\ In(Period) = Period + 1 /\ In(Period)' = Period
      BY <2>2, <1>12, Clocks DEF In
    <3>2. /\ sub'.card = sub.card /\ sub'.status = sub.status
          /\ sub'.periodEnd = Before(sub.periodEnd) /\ sub'.nextBilling = Before(sub.nextBilling)
          /\ paidUntil' = Before(paidUntil)
      BY <3>1 DEF Midnight, Types, Row
    <3>3. paidUntil <= Period + 1 => Before(paidUntil) <= Period
      BY <1>a, Lengths, NullAssumption DEF Before
    <3>4. /\ paidUntil' \in Int /\ paidUntil' <= paidUntil
          /\ sub'.periodEnd \in Int /\ sub'.periodEnd <= sub.periodEnd
          /\ paidUntil <= sub.periodEnd => paidUntil' <= sub'.periodEnd
          /\ sub.periodEnd <= sub.nextBilling => sub'.periodEnd <= sub'.nextBilling
      BY <1>a, <3>2, DatesType
    <3>5. QED
      BY <1>a, <2>0, <3>1, <3>2, <3>3, <3>4
  <2>3. QED
    BY <2>1, <2>2
<1>13. CASE \/ DunningRenewal \/ DunningRetry \/ DunningPays \/ DunningFails \/ NothingDue \/ DunningBreaksOff
            \/ Upgrade \/ UpgradeDeclined \/ ExtendTrial
            \/ Checks
            \/ SuspendSelect \/ \E k \in Replicas : NoticeSelect(k) \/ NoticeFails(k)
  <2>1. UNCHANGED <<sub, clock, paidUntil, raced>>
    BY <1>13 DEF DunningRenewal, DunningRetry, Select, DunningPays, DunningFails, NothingDue,
      DunningBreaksOff, Upgrade,
      UpgradeDeclined, Checks, Checked, ConsoleBreaksOff, ExtendTrial, SuspendSelect, NoticeSelect,
      NoticeFails, JobDone, Reads, history
  <2>2. QED
    BY <1>d, <2>1
<1>14. CASE DeleteCompany
  BY <1>b, <1>d, <1>14 DEF DeleteCompany, Written
<1>15. QED
  BY <1>1, <1>3, <1>4, <1>5, <1>6, <1>7, <1>8, <1>9, <1>10, <1>11, <1>12, <1>13, <1>14, OperatorDoes
    DEF Next, Timers, OwnerActs

LEMMA EarlyStep ==
  ASSUME Types, DunningRead, PaidPeriod, ChargedEarly, Next
  PROVE  ChargedEarly'
<1> USE DEF ChargedEarly
<1>a. sub.periodEnd \in Int /\ sub.nextBilling \in Int /\ paidUntil \in Int /\ raced \in BOOLEAN
  BY DEF Types, Row
<1>1. ASSUME NEW h, NEW row, h # "dunning", Save(h, row), UNCHANGED dunning,
             early' => early \/ raced
      PROVE  ChargedEarly'
  BY <1>1, SaveStale, <1>a
<1>2. ASSUME NEW h, h # "dunning", Reads(h), UNCHANGED <<dunning, early>>
      PROVE  ChargedEarly'
  BY <1>2, ReadStale
<1>3. CASE DunningRenewal \/ DunningRetry
  <2>1. dunning.step = "idle" /\ early' = early /\ raced' = raced
    BY <1>3 DEF DunningRenewal, DunningRetry, Select, Reads
  <2>2. QED
    BY <2>1
<1>4. CASE DunningPays
  <2>1. /\ dunning.step = "selected" /\ dunning.row.card /\ dunning'.step = "paid"
        /\ UNCHANGED <<sub, stale, raced>> /\ Charged
    BY <1>4 DEF DunningPays, Types, DunningType
  <2>2. CASE "dunning" \in stale
    BY <2>1, <2>2
  <2>3. CASE "dunning" \notin stale /\ ~raced
    <3>1. sub.card /\ sub.periodEnd <= 0 /\ paidUntil <= sub.periodEnd
      BY <2>1, <2>3 DEF DunningRead, PaidPeriod
    <3>2. ~(paidUntil > 0)
      BY <1>a, <3>1
    <3>3. QED
      BY <2>1, <2>3, <3>2 DEF Charged
  <2>4. QED
    BY <2>1, <2>2, <2>3
<1>5. CASE DunningFails
  BY <1>5 DEF DunningFails, history
<1>6. CASE DunningWrite
  <2>1. PICK row : Save("dunning", row)
    BY <1>6 DEF DunningWrite
  <2>2. early' = early
    BY <1>6 DEF DunningWrite
  <2>3. QED
    BY <2>1, <2>2, SaveStale
<1>7. CASE BackendRenews
  <2>1. PICK row : Save("timer", row)
    BY <1>7 DEF BackendRenews
  <2>2. UNCHANGED dunning /\ sub.card /\ sub.nextBilling <= 0
    BY <1>7 DEF BackendRenews, BackendTurn, BackendDue
  <2>3. early' => early \/ raced
    <3>1. ~raced => ~(paidUntil > 0)
      BY <1>a, <2>2 DEF PaidPeriod
    <3>2. Charged \/ UNCHANGED early
      BY <1>7 DEF BackendRenews
    <3>3. QED
      BY <3>1, <3>2 DEF Charged
  <2>4. QED
    BY <1>1, <2>1, <2>2, <2>3
<1>8. CASE \/ FinalSuspend \/ BackendFails \/ UpgradeCommit \/ ExtendTrialSave
           \/ (\E row : ByOwner(row)) \/ (\E row, c : ByOperator(row, c)) \/ Writes
  <2>1. PICK h, row : h \in {"timer", "suspension", "owner", "console", "operator"} /\ Save(h, row)
    BY <1>8 DEF FinalSuspend, BackendFails, UpgradeCommit, ExtendTrialSave, ByOwner, ByOperator,
      Writes, Written
  <2>2. UNCHANGED <<dunning, early>>
    BY <1>8 DEF FinalSuspend, JobDone, BackendFails, BackendTurn, UpgradeCommit, ExtendTrialSave,
      ByOwner,
      ByOperator, Writes, Written
  <2>3. QED
    BY <1>1, <2>1, <2>2
<1>9. ASSUME NEW k \in Replicas, ExpireTrial(k) \/ WarnPurge(k) \/ Purge(k)
      PROVE  ChargedEarly'
  <2>1. PICK row : Save(k, row)
    BY <1>9 DEF ExpireTrial, WarnPurge, Purge
  <2>2. UNCHANGED <<dunning, early>> /\ k # "dunning"
    BY <1>9 DEF ExpireTrial, WarnPurge, Purge, JobDone
  <2>3. QED
    BY <1>1, <2>1, <2>2
<1>10. ASSUME NEW k \in Replicas, NoticeFails(k) \/ NoticeSelect(k)
       PROVE  ChargedEarly'
  <2>1. Reads(k) /\ UNCHANGED <<dunning, early>> /\ k # "dunning"
    BY <1>10 DEF NoticeFails, NoticeSelect, JobDone
  <2>2. QED
    BY <1>2, <2>1
<1>11. CASE ExtendTrial \/ SuspendSelect
  BY <1>2, <1>11 DEF ExtendTrial, SuspendSelect
<1>12. CASE Tick \/ NothingDue \/ DunningBreaksOff \/ Upgrade \/ UpgradeDeclined \/ Checks
  BY <1>12 DEF Tick, NothingDue, DunningBreaksOff, Upgrade, UpgradeDeclined, Checks, Checked,
    ConsoleBreaksOff, history
<1>13. QED
  BY <1>3, <1>4, <1>5, <1>6, <1>7, <1>8, <1>9, <1>10, <1>11, <1>12, Disjuncts

-----------------------------------------------------------------------------
LEMMA NextIInv == IInv /\ [Next]_vars => IInv'
<1> SUFFICES ASSUME IInv, [Next]_vars PROVE IInv'
  OBVIOUS
<1>1. CASE Next
  BY <1>1, TypesStep, DunningStep, OthersStep, PaidStep, EarlyStep DEF IInv
<1>2. CASE UNCHANGED vars
  <2>1. UNCHANGED Types /\ UNCHANGED OnTrial
    BY <1>2 DEF vars, history, Types, OnTrial
  <2>2. UNCHANGED DunningRead /\ UNCHANGED OthersRead
    BY <1>2 DEF vars, history, DunningRead, OthersRead
  <2>3. UNCHANGED PaidPeriod /\ UNCHANGED ChargedEarly
    BY <1>2 DEF vars, history, PaidPeriod, ChargedEarly, In
  <2>4. QED
    BY <2>1, <2>2, <2>3 DEF IInv
<1>3. QED
  BY <1>1, <1>2

LEMMA Invariance == Spec => []IInv
<1>1. QED
  BY InitIInv, NextIInv, PTL DEF Spec

\* Two backends renew one subscription (handleSubscriptionRenewal at 00:05 and the
\* retries of the admin backend, the backend's renewal at 04:00): none charges the
\* card before the period paid last is over, until a handler writes what it read
\* before another wrote.
THEOREM TwoBackendsRenewOnce == Spec => []RenewedWhenOver
<1>1. IInv => RenewedWhenOver
  BY DEF IInv, ChargedEarly, RenewedWhenOver
<1>2. QED
  BY <1>1, Invariance, PTL

\* handleFinalSuspend, the end of trials and the purge work off selections of their
\* own: none of them ends a subscription whose paid period still runs.
THEOREM PaidPeriodIsKept == Spec => PaidIsKept
<1> DEFINE Kept ==
      (sub'.status # sub.status
         /\ (FinalSuspend \/ \E k \in Replicas : ExpireTrial(k) \/ Purge(k)))
      => paidUntil <= 0 \/ raced'
<1>1. ASSUME IInv, Next PROVE Kept
  <2> SUFFICES ASSUME ~raced' PROVE Kept
    OBVIOUS
  <2>0. Types /\ OthersRead /\ PaidPeriod
    BY <1>1 DEF IInv
  <2>1. CASE FinalSuspend
    <3>1. ~raced /\ "suspension" \notin stale
      BY <2>0, <2>1, SaveStale DEF FinalSuspend, Types
    <3>2. sub.status = "past_due"
      BY <2>0, <2>1, <3>1 DEF FinalSuspend, OthersRead
    <3>3. paidUntil <= 0
      BY <2>0, <3>1, <3>2 DEF PaidPeriod
    <3>4. QED
      BY <3>3
  <2>2. ASSUME NEW k \in Replicas, ExpireTrial(k) \/ Purge(k)
        PROVE  paidUntil <= 0
    <3>1. PICK row : Save(k, row)
      BY <2>2 DEF ExpireTrial, Purge
    <3>2. ~raced /\ k \notin stale
      BY <2>0, <3>1, SaveStale DEF Types
    <3>3. sub.status \in {"trialing", "expired"}
      BY <2>0, <2>2, <3>2 DEF ExpireTrial, Purge, OthersRead
    <3>4. QED
      BY <2>0, <3>2, <3>3 DEF PaidPeriod
  <2>3. QED
    BY <2>1, <2>2
<1>2. IInv /\ [Next]_vars => [Kept]_vars
  BY <1>1
<1>3. QED
  BY <1>2, Invariance, PTL DEF Spec, PaidIsKept

-----------------------------------------------------------------------------
(***************************************************************************)
(* The purge.  On no day is a trial past its end that a replica has not    *)
(* begun to expire; and on every day since WarnAfter on which a replica    *)
(* has looked at an expired row without the mark, a notice has failed or   *)
(* is about to: so the purge comes after the notice or all its failures.   *)
(***************************************************************************)
\* A replica has selected today.
Looked == clock = "10:00" /\ \E k \in Replicas : k \notin todo
Working(what) == \E k \in Replicas : job[k] = what

\* As long as nobody has written over what another read: the trial is not overdue,
\* and on the days between the two limits the notice was tried.
TrialRuns ==
  ~raced /\ sub.status = "trialing" =>
    /\ "trial_expired" \notin sub.marks /\ ~company.deleted
    /\ company.users =>
         /\ sub.trialEnd >= 0
         /\ Looked => sub.trialEnd > 0 \/ Working("expire")
NoticeTried ==
  ~raced /\ sub.status = "expired" =>
    /\ ~company.deleted /\ sub.trialEnd \in Int
    /\ company.users /\ "purge_d7" \notin sub.marks =>
         \A d \in WarnAfter .. PurgeAfter - 1 :
           /\ d < -sub.trialEnd => d \in unwarned
           /\ d = -sub.trialEnd /\ Looked => d \in unwarned \/ Working("warn")
\* What the extension of a trial and the purge have read.
ExtensionRead == operator # None /\ "operator" \notin stale => operator = sub.trialEnd + 1
Noticed ==
  raced \/ "purge_d7" \in sub.marks \/ WarnAfter .. PurgeAfter - 1 \subseteq unwarned
PurgeRead == \A k \in Replicas : job[k] = "purge" /\ k \notin stale => Noticed
\* The company is deleted after its subscription was canceled.
CanceledFirst ==
  ~raced /\ console = "subscription" => sub.status \notin {"trialing", "expired"}

Announced == TrialRuns /\ NoticeTried /\ ExtensionRead /\ PurgeRead /\ CanceledFirst

LEMMA InitAnnounced == Init => Announced
<1> SUFFICES ASSUME Init PROVE Announced
  OBVIOUS
<1>1. /\ sub.status = "trialing" /\ sub.trialEnd = 1 /\ sub.marks = {} /\ ~company.deleted
      /\ operator = None /\ console = "idle" /\ \A k \in Workers : job[k] = "idle"
  BY DEF Init
<1> QED
  BY <1>1 DEF Announced, TrialRuns, NoticeTried, ExtensionRead, PurgeRead, CanceledFirst

\* What a step leaves of a trial and of an expired row: nothing but ExpireTrial
\* makes a row expired, and nothing takes up a trial again.
LEMMA RowLeft ==
  ASSUME IInv, ExtensionRead, CanceledFirst, Next, ~Tick, ~raced'
  PROVE  /\ ~raced
         /\ sub'.status = "trialing" =>
              /\ sub.status = "trialing" /\ company'.deleted = company.deleted
              /\ sub'.trialEnd \in {sub.trialEnd, sub.trialEnd + 1}
              /\ "trial_expired" \in sub'.marks => "trial_expired" \in sub.marks
         /\ sub'.status = "expired" =>
              /\ company'.deleted = company.deleted /\ sub'.trialEnd = sub.trialEnd
              /\ \/ sub.status = "expired" /\ sub.marks \subseteq sub'.marks
                 \/ sub.status = "trialing" /\ \E k \in Replicas : ExpireTrial(k)
<1> DEFINE Left ==
      /\ sub'.status = "trialing" =>
           /\ sub.status = "trialing" /\ company'.deleted = company.deleted
           /\ sub'.trialEnd \in {sub.trialEnd, sub.trialEnd + 1}
           /\ "trial_expired" \in sub'.marks => "trial_expired" \in sub.marks
      /\ sub'.status = "expired" =>
           /\ company'.deleted = company.deleted /\ sub'.trialEnd = sub.trialEnd
           /\ \/ sub.status = "expired" /\ sub.marks \subseteq sub'.marks
              \/ sub.status = "trialing" /\ \E k \in Replicas : ExpireTrial(k)
<1>a. Types /\ OthersRead /\ DunningRead /\ sub \in Row
  BY DEF IInv, Types
<1>b. DOMAIN sub = {"status", "plan", "trialEnd", "periodEnd", "dawn", "autoRenew", "cancel", "card",
                    "nextBilling", "failed", "since", "retry", "nextRetry", "marks"}
  BY <1>a DEF Row
<1>0. ASSUME NEW h, NEW row, Save(h, row)
      PROVE  ~raced /\ h \notin stale
  BY <1>0, <1>a DEF Save, Types
<1>1. CASE \/ DunningRenewal \/ DunningRetry \/ DunningPays \/ DunningFails \/ NothingDue
           \/ DunningBreaksOff \/ Upgrade \/ UpgradeDeclined \/ ExtendTrial \/ SuspendSelect
           \/ \E k \in Replicas : NoticeSelect(k) \/ NoticeFails(k)
  <2>1. UNCHANGED <<sub, company, raced>>
    BY <1>1 DEF DunningRenewal, DunningRetry, Select, DunningPays, DunningFails, NothingDue,
      DunningBreaksOff, Upgrade, UpgradeDeclined, ExtendTrial, SuspendSelect, NoticeSelect,
      NoticeFails, Reads, history
  <2> QED
    BY <2>1
<1>2. CASE DunningWrite
  <2>1. Save("dunning", Renewed(dunning.row)) \/ Save("dunning", PastDue(dunning.row))
    BY <1>2 DEF DunningWrite
  <2>2. sub'.status \in {"active", "past_due"}
    BY <2>1, <1>b DEF Save, Renewed, PastDue
  <2> QED
    BY <2>1, <2>2, <1>0
<1>3. CASE FinalSuspend
  <2>1. Save("suspension", [sub EXCEPT !.status = "suspended"])
    BY <1>3 DEF FinalSuspend
  <2>2. sub'.status = "suspended"
    BY <2>1, <1>b DEF Save
  <2> QED
    BY <2>1, <2>2, <1>0
<1>4. CASE BackendRenews \/ BackendFails \/ UpgradeCommit \/ DowngradeToFree \/ CancelNow
  <2>1. \E h, row : Save(h, row)
    BY <1>4 DEF BackendRenews, BackendFails, UpgradeCommit, DowngradeToFree, CancelNow, ByOwner
  <2>2. sub'.status \in {"active", "past_due", "canceled"}
    BY <1>4, <1>b DEF BackendRenews, BackendFails, UpgradeCommit, DowngradeToFree, CancelNow,
      ByOwner, Save
  <2> QED
    BY <2>1, <2>2, <1>0
<1>5. CASE ToggleAutoRenew \/ CancelAtPeriodEnd
  <2>1. /\ \E row : Save("owner", row)
        /\ UNCHANGED company
    BY <1>5 DEF ToggleAutoRenew, CancelAtPeriodEnd, ByOwner
  <2>2. UNCHANGED <<sub.status, sub.trialEnd, sub.marks>>
    BY <1>5, <1>b DEF ToggleAutoRenew, CancelAtPeriodEnd, ByOwner, Save
  <2> QED
    BY <2>1, <2>2, <1>0
<1>6. ASSUME NEW k \in Replicas, ExpireTrial(k)
      PROVE  ~raced /\ Left
  <2>1. /\ Save(k, [sub EXCEPT !.status = "expired", !.marks = @ \cup {"trial_expired"}])
        /\ job[k] = "expire" /\ UNCHANGED company
    BY <1>6 DEF ExpireTrial
  <2>2. ~raced /\ sub.status = "trialing"
    BY <2>1, <1>0, <1>a DEF OthersRead
  <2>3. sub'.status = "expired" /\ sub'.trialEnd = sub.trialEnd
    BY <2>1, <1>b DEF Save
  <2> QED
    BY <2>1, <2>2, <2>3, <1>6
<1>7. ASSUME NEW k \in Replicas, WarnPurge(k)
      PROVE  ~raced /\ Left
  <2>1. Save(k, [sub EXCEPT !.marks = @ \cup {"purge_d7"}]) /\ UNCHANGED company
    BY <1>7 DEF WarnPurge
  <2>2. /\ UNCHANGED <<sub.status, sub.trialEnd>> /\ sub'.marks = sub.marks \cup {"purge_d7"}
    BY <2>1, <1>b DEF Save
  <2> QED
    BY <2>1, <2>2, <1>0
<1>8. ASSUME NEW k \in Replicas, Purge(k)
      PROVE  ~raced /\ Left
  <2>1. Save(k, [sub EXCEPT !.status = "canceled"])
    BY <1>8 DEF Purge
  <2>2. sub'.status = "canceled"
    BY <2>1, <1>b DEF Save
  <2> QED
    BY <2>1, <2>2, <1>0
<1>9. CASE ExtendTrialSave
  <2>1. /\ Save("operator", [sub EXCEPT !.trialEnd = operator, !.periodEnd = operator])
        /\ operator # None /\ UNCHANGED company
    BY <1>9 DEF ExtendTrialSave
  <2>2. ~raced /\ sub.status = "trialing" /\ operator = sub.trialEnd + 1
    BY <2>1, <1>0, <1>a DEF OthersRead, ExtensionRead
  <2>3. sub'.status = sub.status /\ sub'.trialEnd = operator /\ sub'.marks = sub.marks
    BY <2>1, <1>b DEF Save
  <2> QED
    BY <2>1, <2>2, <2>3
<1>10. CASE OperatorCancels \/ ChangePlan
  <2>1. \/ /\ UNCHANGED <<sub.status, sub.trialEnd, sub.marks, company>>
        \/ sub'.status = "canceled"
    BY <1>10, <1>b DEF OperatorCancels, ChangePlan, ByOperator, Save
  <2>2. \E row : Save("console", row)
    BY <1>10 DEF OperatorCancels, ChangePlan, ByOperator
  <2> QED
    BY <2>1, <2>2, <1>0
<1>11. CASE ReactivateSave \/ SuspendCompanySave \/ ActivateCompanySave \/ DeleteSubscription
  <2>1. sub'.status \in {"active", "suspended", "canceled"}
    BY <1>11, <1>b DEF ReactivateSave, SuspendCompanySave, ActivateCompanySave, DeleteSubscription,
      Written, Save
  <2>2. \E row : Save("console", row)
    BY <1>11 DEF ReactivateSave, SuspendCompanySave, ActivateCompanySave, DeleteSubscription, Written
  <2> QED
    BY <2>1, <2>2, <1>0
<1>12. CASE DeleteCompany
  <2>1. Save("console", sub) /\ console = "subscription"
    BY <1>12 DEF DeleteCompany, Written
  <2> QED
    BY <2>1, <1>0 DEF Save, CanceledFirst
<1>13. CASE Checks
  <2>1. UNCHANGED <<sub, raced>>
    BY <1>13 DEF Checks, Checked, ConsoleBreaksOff, history
  <2>2. company'.deleted = company.deleted \/ DeleteCompany \/ \E k \in Replicas : Purge(k)
    BY <1>a, CompanyStep DEF Types
  <2> QED
    BY <2>1, <2>2, <1>8, <1>12
<1> QED
  BY <1>1, <1>2, <1>3, <1>4, <1>5, <1>6, <1>7, <1>8, <1>9, <1>10, <1>11, <1>12, <1>13, OperatorDoes
    DEF Next, Timers, OwnerActs

\* What failed stays noted, and so does a race.
LEMMA NotedStays ==
  ASSUME Types, Next
  PROVE  unwarned \subseteq unwarned' /\ (raced => raced')
<1>1. \A h, row : Save(h, row) => (raced => raced')
  BY DEF Save
<1>2. \A h : Reads(h) => raced' = raced
  BY DEF Reads
<1> QED
  BY <1>1, <1>2, Disjuncts DEF Tick, DunningRenewal, DunningRetry, Select, DunningPays, DunningFails,
    DunningWrite, SuspendSelect, FinalSuspend, BackendRenews, BackendFails, BackendTurn, NothingDue,
    DunningBreaksOff, NoticeSelect, ExpireTrial, WarnPurge, NoticeFails, Purge, JobDone, Upgrade,
    UpgradeDeclined, UpgradeCommit, ByOwner, ExtendTrial, ExtendTrialSave, ByOperator, Checks,
    Checked, ConsoleBreaksOff, Writes, Written, history

\* Whoever else is at work has read what stands, or is stale.
LEMMA ReadingsStand ==
  ASSUME IInv, ExtensionRead, NoticeTried, PurgeRead, Next, ~Tick
  PROVE  ExtensionRead' /\ PurgeRead'
<1>a. Types
  BY DEF IInv
<1>b. sub' = sub /\ Noticed => Noticed'
  BY <1>a, NotedStays DEF Noticed
<1>1. ASSUME NEW h, NEW row, Save(h, row), operator' \in {operator, None},
             h = "operator" => operator' = None,
             \A k \in Replicas : job'[k] \in {job[k], "idle"},
             h \in Replicas => job'[h] = "idle"
      PROVE  ExtensionRead' /\ PurgeRead'
  <2>1. ASSUME operator' # None, "operator" \notin stale'
        PROVE  "operator" \notin stale /\ sub' = sub /\ operator' = operator
    <3>1. "operator" \in InFlight \ {h}
      BY <1>1, <2>1 DEF InFlight
    <3> QED
      BY <1>1, <2>1, <3>1, SaveStale
  <2>2. ASSUME NEW k \in Replicas, job'[k] = "purge", k \notin stale'
        PROVE  k \notin stale /\ sub' = sub /\ job[k] = "purge"
    <3>1. k \in InFlight \ {h} /\ job[k] = "purge"
      BY <1>1, <2>2 DEF InFlight
    <3> QED
      BY <1>1, <2>2, <3>1, SaveStale
  <2> QED
    BY <2>1, <2>2, <1>b DEF ExtensionRead, PurgeRead
<1>2. ASSUME UNCHANGED <<sub, operator, job>>, \A x : x # "dunning" => (x \in stale' <=> x \in stale)
      PROVE  ExtensionRead' /\ PurgeRead'
  BY <1>2, <1>b DEF ExtensionRead, PurgeRead
<1>3. CASE \/ DunningRenewal \/ DunningRetry \/ DunningPays \/ DunningFails \/ NothingDue
           \/ DunningBreaksOff \/ Upgrade \/ UpgradeDeclined \/ Checks
  <2>1. /\ UNCHANGED <<sub, operator, job>>
        /\ UNCHANGED stale \/ Reads("dunning")
    BY <1>3 DEF DunningRenewal, DunningRetry, Select, DunningPays, DunningFails, NothingDue,
      DunningBreaksOff, Upgrade, UpgradeDeclined, Checks, Checked, ConsoleBreaksOff, history
  <2> QED
    BY <2>1, <1>2, ReadStale
<1>4. CASE DunningWrite \/ BackendRenews \/ BackendFails \/ UpgradeCommit
           \/ (\E row : ByOwner(row)) \/ (\E row, c : ByOperator(row, c)) \/ Writes
  <2>1. PICK h, row : h \notin Replicas \cup {"operator"} /\ Save(h, row)
    BY <1>4 DEF DunningWrite, BackendRenews, BackendFails, UpgradeCommit, ByOwner, ByOperator,
      Writes, Written
  <2>2. UNCHANGED <<operator, job>>
    BY <1>4 DEF DunningWrite, BackendRenews, BackendFails, BackendTurn, UpgradeCommit, ByOwner,
      ByOperator, Writes, Written
  <2> QED
    BY <2>1, <2>2, <1>1
<1>5. ASSUME NEW k \in Workers, NEW row, Save(k, row), JobDone(k)
      PROVE  ExtensionRead' /\ PurgeRead'
  <2>1. operator' = operator /\ job' = [job EXCEPT ![k] = "idle"] /\ k # "operator"
    BY <1>5 DEF JobDone
  <2>2. job'[k] = "idle" /\ \A j \in Workers : job'[j] \in {job[j], "idle"}
    BY <2>1, <1>a DEF Types
  <2> QED
    BY <2>1, <2>2, <1>5, <1>1
<1>6. CASE FinalSuspend
  BY <1>5, <1>6 DEF FinalSuspend
<1>7. ASSUME NEW k \in Replicas, ExpireTrial(k) \/ WarnPurge(k) \/ Purge(k)
      PROVE  ExtensionRead' /\ PurgeRead'
  BY <1>5, <1>7 DEF ExpireTrial, WarnPurge, Purge
<1>8. ASSUME NEW k \in Replicas, NoticeFails(k)
      PROVE  ExtensionRead' /\ PurgeRead'
  <2>1. /\ UNCHANGED <<sub, operator>> /\ job' = [job EXCEPT ![k] = "idle"]
        /\ Reads(k) /\ k # "operator"
    BY <1>8 DEF NoticeFails, JobDone
  <2>2. job'[k] = "idle" /\ \A j \in Replicas \ {k} : job'[j] = job[j]
    BY <2>1, <1>a DEF Types
  <2> QED
    BY <2>1, <2>2, ReadStale, <1>b DEF ExtensionRead, PurgeRead
<1>9. ASSUME NEW k \in Replicas, NoticeSelect(k)
      PROVE  ExtensionRead' /\ PurgeRead'
  <2>1. PICK what : /\ what \in IF Due = {} THEN {"idle"} ELSE Due
                    /\ job' = [job EXCEPT ![k] = what]
    BY <1>9 DEF NoticeSelect
  <2>2. UNCHANGED <<sub, operator>> /\ Reads(k) /\ k # "operator"
    BY <1>9 DEF NoticeSelect
  <2>3. job'[k] = what /\ \A j \in Replicas \ {k} : job'[j] = job[j]
    BY <2>1, <1>a DEF Types
  <2>4. what = "purge" => Purges
    BY <2>1 DEF Due
  <2>5. sub.trialEnd \in Int \cup {None}
    BY <1>a DEF Types, Row, Dates
  <2>6. what = "purge" => Noticed
    <3>1. ASSUME what = "purge", ~raced, "purge_d7" \notin sub.marks,
                 NEW d \in WarnAfter .. PurgeAfter - 1
          PROVE  d \in unwarned
      <4>1. /\ sub.status = "expired" /\ company.users
            /\ sub.trialEnd \in Int /\ -sub.trialEnd >= PurgeAfter
        BY <2>4, <2>5, <3>1 DEF Purges, Joined
      <4> QED
        BY <3>1, <4>1 DEF NoticeTried
    <3> QED
      BY <3>1 DEF Noticed
  <2> QED
    BY <2>2, <2>3, <2>6, ReadStale, <1>b DEF ExtensionRead, PurgeRead
<1>10. CASE SuspendSelect
  <2>1. /\ UNCHANGED <<sub, operator>> /\ job' = [job EXCEPT !["suspension"] = "suspend"]
        /\ Reads("suspension") /\ "suspension" \notin Replicas
    BY <1>10 DEF SuspendSelect
  <2>2. \A j \in Replicas : job'[j] = job[j]
    BY <2>1, <1>a DEF Types
  <2> QED
    BY <2>1, <2>2, ReadStale, <1>b DEF ExtensionRead, PurgeRead
<1>11. CASE ExtendTrial
  <2>1. UNCHANGED <<sub, job>> /\ operator' = sub.trialEnd + 1 /\ Reads("operator")
    BY <1>11 DEF ExtendTrial
  <2> QED
    BY <2>1, ReadStale, <1>b DEF ExtensionRead, PurgeRead
<1>12. CASE ExtendTrialSave
  BY <1>1, <1>12 DEF ExtendTrialSave
<1> QED
  BY <1>3, <1>4, <1>6, <1>7, <1>8, <1>9, <1>10, <1>11, <1>12, Disjuncts

\* Who has found something to do stays at it until the trial has expired, the row
\* is marked, or the day is noted.
LEMMA WorkGoesOn ==
  ASSUME IInv, Next, ~Tick, \A k \in Replicas : ~NoticeSelect(k)
  PROVE  /\ Looked' => Looked
         /\ unwarned \subseteq unwarned'
         /\ Working("expire") => Working("expire")' \/ sub'.status = "expired"
         /\ Working("warn") =>
              Working("warn")' \/ "purge_d7" \in sub'.marks
                \/ (sub.trialEnd \in Int => -sub.trialEnd \in unwarned')
<1>a. Types /\ sub \in Row /\ None \notin Int
  BY NullAssumption DEF IInv, Types
<1>b. DOMAIN sub = {"status", "plan", "trialEnd", "periodEnd", "dawn", "autoRenew", "cancel", "card",
                    "nextBilling", "failed", "since", "retry", "nextRetry", "marks"}
  BY <1>a DEF Row
<1>1. ASSUME clock' = clock, todo' = todo \/ todo' = todo \ {"timer"}
      PROVE  Looked' => Looked
  BY <1>1 DEF Looked
<1>2. ASSUME UNCHANGED <<clock, unwarned>>, todo' = todo \/ todo' = todo \ {"timer"},
             \A k \in Replicas : job'[k] = job[k]
      PROVE  /\ Looked' => Looked
             /\ unwarned \subseteq unwarned'
             /\ Working("expire") => Working("expire")'
             /\ Working("warn") => Working("warn")'
  BY <1>1, <1>2 DEF Working
<1>3. CASE \/ DunningRenewal \/ DunningRetry \/ DunningPays \/ DunningFails \/ DunningWrite
           \/ BackendRenews \/ BackendFails \/ NothingDue \/ DunningBreaksOff
           \/ Upgrade \/ UpgradeDeclined \/ UpgradeCommit \/ (\E row : ByOwner(row))
           \/ ExtendTrial \/ ExtendTrialSave \/ (\E row, c : ByOperator(row, c))
           \/ Checks \/ Writes
  <2>1. /\ UNCHANGED <<clock, unwarned, job>>
        /\ todo' = todo \/ todo' = todo \ {"timer"}
    BY <1>3 DEF DunningRenewal, DunningRetry, Select, DunningPays, DunningFails, DunningWrite,
      BackendRenews, BackendFails, BackendTurn, NothingDue, DunningBreaksOff, Upgrade,
      UpgradeDeclined, Checks, Checked, ConsoleBreaksOff, UpgradeCommit, ByOwner, ExtendTrial,
      ExtendTrialSave, ByOperator, Writes, Written, history
  <2> QED
    BY <2>1, <1>2
<1>4. CASE SuspendSelect \/ FinalSuspend
  <2>1. PICK what : job' = [job EXCEPT !["suspension"] = what]
    BY <1>4 DEF SuspendSelect, FinalSuspend, JobDone
  <2>2. \A k \in Replicas : job'[k] = job[k]
    BY <2>1, <1>a DEF Types
  <2>3. /\ UNCHANGED <<clock, unwarned>>
        /\ todo' = todo \/ todo' = todo \ {"timer"}
    BY <1>4 DEF SuspendSelect, FinalSuspend, JobDone
  <2> QED
    BY <2>2, <2>3, <1>2
<1>5. ASSUME NEW k \in Replicas, JobDone(k)
      PROVE  /\ Looked' => Looked
             /\ job'[k] = "idle" /\ \A j \in Replicas \ {k} : job'[j] = job[j]
  <2>1. UNCHANGED <<clock, todo>> /\ job' = [job EXCEPT ![k] = "idle"]
    BY <1>5 DEF JobDone
  <2> QED
    BY <2>1, <1>1, <1>a DEF Types
<1>6. ASSUME NEW k \in Replicas, ExpireTrial(k)
      PROVE  /\ Looked' => Looked
             /\ unwarned \subseteq unwarned'
             /\ sub'.status = "expired"
             /\ Working("warn") => Working("warn")'
  <2>1. JobDone(k) /\ job[k] = "expire" /\ UNCHANGED unwarned
    BY <1>6 DEF ExpireTrial
  <2>2. sub'.status = "expired"
    BY <1>6, <1>b DEF ExpireTrial, Save
  <2> QED
    BY <2>1, <2>2, <1>5 DEF Working
<1>7. ASSUME NEW k \in Replicas, WarnPurge(k)
      PROVE  /\ Looked' => Looked
             /\ unwarned \subseteq unwarned'
             /\ "purge_d7" \in sub'.marks
             /\ Working("expire") => Working("expire")'
  <2>1. JobDone(k) /\ job[k] = "warn" /\ UNCHANGED unwarned
    BY <1>7 DEF WarnPurge
  <2>2. "purge_d7" \in sub'.marks
    BY <1>7, <1>b DEF WarnPurge, Save
  <2> QED
    BY <2>1, <2>2, <1>5 DEF Working
<1>8. ASSUME NEW k \in Replicas, NoticeFails(k)
      PROVE  /\ Looked' => Looked
             /\ unwarned \subseteq unwarned'
             /\ sub.trialEnd \in Int => -sub.trialEnd \in unwarned'
             /\ Working("expire") => Working("expire")'
  <2>1. /\ JobDone(k) /\ job[k] = "warn"
        /\ unwarned' = unwarned \cup {-sub.trialEnd : x \in {sub.trialEnd} \ {None}}
    BY <1>8 DEF NoticeFails
  <2>2. sub.trialEnd \in Int => sub.trialEnd \in {sub.trialEnd} \ {None}
    BY <1>a
  <2> QED
    BY <2>1, <2>2, <1>5 DEF Working
<1>9. ASSUME NEW k \in Replicas, Purge(k)
      PROVE  /\ Looked' => Looked
             /\ unwarned \subseteq unwarned'
             /\ Working("expire") => Working("expire")'
             /\ Working("warn") => Working("warn")'
  <2>1. JobDone(k) /\ job[k] = "purge" /\ UNCHANGED unwarned
    BY <1>9 DEF Purge
  <2> QED
    BY <2>1, <1>5 DEF Working
<1> QED
  BY <1>3, <1>4, <1>6, <1>7, <1>8, <1>9, Disjuncts

\* A replica that looks finds the trial that has ended, or the notice that is due.
LEMMA SelectAnnounced ==
  ASSUME IInv, TrialRuns, NoticeTried, NEW k \in Replicas, NoticeSelect(k)
  PROVE  TrialRuns' /\ NoticeTried'
<1>a. Types /\ OnTrial
  BY DEF IInv
<1>1. /\ UNCHANGED <<sub, company, raced, unwarned>>
  BY DEF NoticeSelect, Reads
<1>2. PICK what : /\ what \in IF Due = {} THEN {"idle"} ELSE Due
                  /\ job' = [job EXCEPT ![k] = what]
  BY DEF NoticeSelect
<1>3. Working(what)'
  BY <1>2, <1>a DEF Types, Working
<1>4. ASSUME ~raced, sub.status = "trialing", company.users, ~(sub.trialEnd > 0)
      PROVE  what = "expire"
  <2>1. Expires /\ ~Warns /\ ~Purges
    BY <1>4, <1>a, NullAssumption DEF TrialRuns, OnTrial, Expires, Warns, Purges, Joined
  <2> QED
    BY <2>1, <1>2 DEF Due
<1>5. ASSUME ~raced, sub.status = "expired", company.users, "purge_d7" \notin sub.marks,
             NEW d \in WarnAfter .. PurgeAfter - 1, d = -sub.trialEnd
      PROVE  what = "warn"
  <2>1. Warns /\ ~Expires /\ ~Purges
    BY <1>5, NullAssumption DEF NoticeTried, Expires, Warns, Purges, Joined
  <2> QED
    BY <2>1, <1>2 DEF Due
<1>6. TrialRuns'
  BY <1>1, <1>3, <1>4 DEF TrialRuns
<1>7. NoticeTried'
  BY <1>1, <1>3, <1>5 DEF NoticeTried
<1> QED
  BY <1>6, <1>7

\* At midnight a replica has looked, and nobody is at work.
LEMMA TickAnnounced ==
  ASSUME IInv, Announced, Tick, Replicas # {}
  PROVE  Announced'
<1>a. /\ Types /\ OnTrial /\ None \notin Int /\ sub \in Row
      /\ TrialRuns /\ NoticeTried
  BY NullAssumption DEF IInv, Types, Announced
<1>1. /\ UNCHANGED <<company, raced, unwarned, operator, job>>
      /\ clock' = "00:05" => Midnight /\ clock = "10:00"
      /\ clock' # "00:05" => UNCHANGED sub
      /\ clock' = "10:00" => todo' = Replicas
      /\ todo = {}
  BY DEF Tick, Clock
<1>2. ExtensionRead' /\ PurgeRead'
  BY <1>1, TickIdle DEF ExtensionRead, PurgeRead
<1>6. console = "idle" /\ console' = "idle" /\ CanceledFirst'
  BY DEF Tick, CanceledFirst
<1>3. ~Looked'
  BY <1>1 DEF Looked
<1>4. CASE UNCHANGED sub
  BY <1>a, <1>1, <1>2, <1>3, <1>4, <1>6 DEF Announced, TrialRuns, NoticeTried
<1>5. CASE clock' = "00:05"
  <2>1. Looked /\ ~Working("expire") /\ ~Working("warn")
    BY <1>1, <1>5, TickIdle DEF Looked, Working
  <2>2. /\ sub'.status = sub.status /\ sub'.marks = sub.marks
        /\ sub'.trialEnd = Before(sub.trialEnd)
    BY <1>1, <1>5, <1>a DEF Midnight, Row
  <2>3. sub.trialEnd \in Int =>
          /\ sub'.trialEnd \in Int
          /\ \/ sub'.trialEnd = sub.trialEnd - 1
             \/ sub'.trialEnd = sub.trialEnd /\ -sub.trialEnd >= MaxDays
    BY <2>2, <1>a, Lengths DEF Before
  <2>4. TrialRuns'
    BY <1>a, <1>1, <1>3, <2>1, <2>2, <2>3, Lengths DEF TrialRuns, OnTrial
  <2>5. ASSUME ~raced, sub.status = "expired", company.users, "purge_d7" \notin sub.marks,
               NEW d \in WarnAfter .. PurgeAfter - 1, d < -sub'.trialEnd
        PROVE  d \in unwarned
    <3>1. sub.trialEnd \in Int /\ d \in Int /\ d < MaxDays
      BY <1>a, <2>5 DEF NoticeTried
    <3>2. d < -sub.trialEnd \/ d = -sub.trialEnd
      BY <2>3, <2>5, <3>1
    <3> QED
      BY <1>a, <2>1, <2>5, <3>2 DEF NoticeTried
  <2>6. NoticeTried'
    BY <1>a, <1>1, <1>3, <2>2, <2>3, <2>5 DEF NoticeTried
  <2> QED
    BY <1>2, <1>6, <2>4, <2>6 DEF Announced
<1> QED
  BY <1>1, <1>4, <1>5

\* The company is about to be deleted only once its subscription is canceled.
LEMMA ConsoleStep ==
  ASSUME Next, console' = "subscription", console # "subscription"
  PROVE  DeleteSubscription
<1>1. CASE OperatorActs
  BY <1>1 DEF OperatorActs, ConsoleAnswers, ExtendTrial, ExtendTrialSave, OperatorCancels, ChangePlan,
    ByOperator, Reactivate, SuspendCompany, ActivateCompany, DeleteCompanyData, Checked,
    ReactivateSave, SuspendCompanySave, ActivateCompanySave, DeleteCompany, Written, ConsoleBreaksOff
<1>2. CASE Tick \/ Timers \/ OwnerActs
  <2>1. UNCHANGED console \/ console' = "idle"
    BY <1>2 DEF Tick, Timers, OwnerActs, DunningRenewal, DunningRetry, Select, DunningPays,
      DunningFails, DunningWrite, SuspendSelect, FinalSuspend, BackendRenews, BackendFails,
      BackendTurn, NothingDue, DunningBreaksOff, NoticeSelect, ExpireTrial, WarnPurge, NoticeFails,
      Purge, JobDone, Upgrade, UpgradeDeclined, UpgradeCommit, DowngradeToFree, ToggleAutoRenew,
      CancelAtPeriodEnd, CancelNow, ByOwner
  <2> QED
    BY <2>1
<1> QED
  BY <1>1, <1>2 DEF Next

LEMMA NextAnnounced ==
  ASSUME IInv, Announced, [Next]_vars, Replicas # {}
  PROVE  Announced'
<1>a. /\ Types /\ OnTrial /\ TrialRuns /\ NoticeTried /\ ExtensionRead /\ PurgeRead
      /\ CanceledFirst
  BY DEF IInv, Announced
<1>1. CASE UNCHANGED vars
  BY <1>1 DEF Announced, TrialRuns, NoticeTried, ExtensionRead, PurgeRead, CanceledFirst,
    Noticed, Looked, Working, vars, history
<1>2. CASE Tick
  BY <1>2, TickAnnounced
<1>3. ASSUME NEW k \in Replicas, NoticeSelect(k), Next, ~Tick PROVE Announced'
  <2>1. UNCHANGED <<sub, raced, console>>
    BY <1>3 DEF NoticeSelect, Reads
  <2> QED
    BY <1>3, <1>a, <2>1, SelectAnnounced, ReadingsStand DEF Announced, CanceledFirst
<1>4. ASSUME Next, ~Tick, \A k \in Replicas : ~NoticeSelect(k)
      PROVE  Announced'
  <2>0. raced' \in BOOLEAN /\ (company'.users => company.users)
    BY TypesStep, CompanyStep, <1>a, <1>4 DEF Types
  <2>1. ASSUME ~raced', sub'.status = "trialing"
        PROVE  /\ "trial_expired" \notin sub'.marks /\ ~company'.deleted
               /\ company'.users =>
                    /\ sub'.trialEnd >= 0
                    /\ Looked' => sub'.trialEnd > 0 \/ Working("expire")'
    <3>1. /\ ~raced /\ sub.status = "trialing" /\ company'.deleted = company.deleted
          /\ sub'.trialEnd \in {sub.trialEnd, sub.trialEnd + 1}
          /\ "trial_expired" \in sub'.marks => "trial_expired" \in sub.marks
      BY <1>a, <1>4, <2>1, RowLeft
    <3>2. /\ "trial_expired" \notin sub.marks /\ ~company.deleted
          /\ sub.trialEnd \in Int
          /\ company.users =>
               /\ sub.trialEnd >= 0
               /\ Looked => sub.trialEnd > 0 \/ Working("expire")
      BY <1>a, <3>1 DEF TrialRuns, OnTrial
    <3>3. Looked' => Looked
      BY <1>4, WorkGoesOn
    <3>4. Working("expire") => Working("expire")'
      BY <1>4, <2>1, WorkGoesOn
    <3> QED
      BY <2>0, <3>1, <3>2, <3>3, <3>4
  <2>2. ASSUME ~raced', sub'.status = "expired"
        PROVE  /\ ~company'.deleted /\ sub'.trialEnd \in Int
               /\ company'.users /\ "purge_d7" \notin sub'.marks =>
                    \A d \in WarnAfter .. PurgeAfter - 1 :
                      /\ d < -sub'.trialEnd => d \in unwarned'
                      /\ d = -sub'.trialEnd /\ Looked' => d \in unwarned' \/ Working("warn")'
    <3>1. /\ ~raced /\ company'.deleted = company.deleted /\ sub'.trialEnd = sub.trialEnd
          /\ \/ sub.status = "expired" /\ sub.marks \subseteq sub'.marks
             \/ sub.status = "trialing"
      BY <1>a, <1>4, <2>2, RowLeft
    <3>2. CASE sub.status = "trialing"
      <4>1. /\ ~company.deleted /\ sub.trialEnd \in Int
            /\ company.users => sub.trialEnd >= 0
        BY <1>a, <3>1, <3>2 DEF TrialRuns, OnTrial
      <4>2. company.users =>
              \A d \in WarnAfter .. PurgeAfter - 1 : ~(d < -sub.trialEnd) /\ d # -sub.trialEnd
        BY <4>1
      <4> QED
        BY <2>0, <3>1, <4>1, <4>2
    <3>3. CASE sub.status = "expired" /\ sub.marks \subseteq sub'.marks
      <4>1. ~company.deleted /\ sub.trialEnd \in Int
        BY <1>a, <3>1, <3>3 DEF NoticeTried
      <4>2. ASSUME company.users, "purge_d7" \notin sub'.marks, NEW d \in WarnAfter .. PurgeAfter - 1
            PROVE  /\ d < -sub.trialEnd => d \in unwarned'
                   /\ d = -sub.trialEnd /\ Looked' => d \in unwarned' \/ Working("warn")'
        <5>1. /\ d < -sub.trialEnd => d \in unwarned
              /\ d = -sub.trialEnd /\ Looked => d \in unwarned \/ Working("warn")
          BY <1>a, <3>1, <3>3, <4>2 DEF NoticeTried
        <5>2. /\ Looked' => Looked
              /\ unwarned \subseteq unwarned'
              /\ Working("warn") => Working("warn")' \/ -sub.trialEnd \in unwarned'
          BY <1>4, <4>1, <4>2, WorkGoesOn
        <5> QED
          BY <5>1, <5>2
      <4> QED
        BY <2>0, <3>1, <4>1, <4>2
    <3> QED
      BY <3>1, <3>2, <3>3
  <2>3. TrialRuns'
    BY <2>1 DEF TrialRuns
  <2>4. NoticeTried'
    BY <2>2 DEF NoticeTried
  <2>5. CanceledFirst'
    <3>1. ASSUME ~raced', console' = "subscription"
          PROVE  sub'.status \notin {"trialing", "expired"}
      <4>1. /\ ~raced
            /\ sub'.status = "trialing" => sub.status = "trialing"
            /\ sub'.status = "expired" => sub.status \in {"trialing", "expired"}
        BY <1>a, <1>4, <3>1, RowLeft
      <4>2. CASE console = "subscription"
        BY <1>a, <4>1, <4>2 DEF CanceledFirst
      <4>3. CASE console # "subscription"
        <5>1. DeleteSubscription
          BY <1>4, <3>1, <4>3, ConsoleStep
        <5>2. sub' = [sub EXCEPT !.status = "canceled"]
          BY <5>1 DEF DeleteSubscription, Written, Save
        <5> QED
          BY <1>a, <5>2 DEF Types, Row
      <4> QED
        BY <4>2, <4>3
    <3> QED
      BY <3>1 DEF CanceledFirst
  <2> QED
    BY <1>a, <1>4, <2>3, <2>4, <2>5, ReadingsStand DEF Announced
<1> QED
  BY <1>1, <1>2, <1>3, <1>4

\* The purge after the trial (subscription-notify-cron.service.ts): no company is
\* deleted without the notice, unless the notice failed on every day on which it was
\* to go out, or a handler has written over what another had read.
THEOREM PurgeIsAnnounced == Spec => PurgedWasWarned
<1> DEFINE Warned ==
      \A k \in Replicas :
        Purge(k) =>
          "purge_d7" \in sub.marks \/ WarnAfter .. PurgeAfter - 1 \subseteq unwarned \/ raced'
<1>1. CASE Replicas = {}
  <2>1. [Next]_vars => [Warned]_vars
    BY <1>1
  <2> QED
    BY <2>1, PTL DEF Spec, PurgedWasWarned
<1>2. CASE Replicas # {}
  <2>1. ASSUME IInv, Announced, NEW k \in Replicas, Purge(k), ~raced', "purge_d7" \notin sub.marks,
               NEW d \in WarnAfter .. PurgeAfter - 1
        PROVE  d \in unwarned
    <3>1. Types /\ PurgeRead
      BY <2>1 DEF IInv, Announced
    <3>2. job[k] = "purge" /\ ~raced /\ k \notin stale
      BY <2>1, <3>1, SaveStale DEF Purge, Types
    <3> QED
      BY <2>1, <3>1, <3>2 DEF PurgeRead, Noticed
  <2>2. IInv /\ Announced /\ [Next]_vars => [Warned]_vars
    BY <2>1
  <2>3. IInv /\ Announced /\ [Next]_vars => Announced'
    BY <1>2, NextAnnounced
  <2> QED
    BY <2>2, <2>3, InitAnnounced, Invariance, PTL DEF Spec, PurgedWasWarned
<1> QED
  BY <1>1, <1>2
=============================================================================
