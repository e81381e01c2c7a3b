----------------------------- MODULE Lifecycle -----------------------------
(***************************************************************************)
(* One subscription from its trial to its end, under the two programs that *)
(* work on its row: the backend (subscription-notify-cron.service.ts in    *)
(* every replica, the renewal timer, the owner's upgrade, downgrade and    *)
(* cancellation) and the admin backend (dunning.scheduler.ts, the          *)
(* operator's edits).  Billing models the backend's renewal step by step;  *)
(* here it is one action, because its transaction keeps the row locked.    *)
(*                                                                         *)
(* Dates are days from today.  The timers fire in the order of the clock:  *)
(* 00:05 admin renewal, 04:00 backend renewal, 09:00 suspension, 10:00     *)
(* notices, and the retries of the admin backend at every hour.  A date    *)
(* d has come when d <= 0 at the timer that asks; sub.dawn says that the   *)
(* period ends between 00:05 and 04:00, and so is met by the backend first.*)
(* A timer and a request are done before the next timer fires, and a retry *)
(* before midnight.                                                        *)
(***************************************************************************)
EXTENDS Integers, Sequences

CONSTANTS
  Replicas,            \* processes of the backend
  None,                \* null
  RETRY_SCHEDULE_DAYS, \* days from a failure to the next attempt (admin backend)
  Period,              \* days of a billing period
  FreePeriod,          \* days of the nominal period of the free plan
  WarnAfter,           \* days from the end of the trial to the purge notice: 53
  PurgeAfter,          \* days from the end of the trial to the purge: 60
  MaxDays,             \* bound: dates further away or longer past are not told apart
  MaxActs              \* bound: acts of the owner and the operator

MAX_RETRY == 3

ASSUME ScheduleAssumption ==
  RETRY_SCHEDULE_DAYS \in Seq(1 .. MaxDays) /\ Len(RETRY_SCHEDULE_DAYS) > 0
ASSUME DaysAssumption ==
  /\ MaxDays \in Nat /\ Period \in 1 .. MaxDays /\ FreePeriod \in Period .. MaxDays
  /\ WarnAfter \in Nat \ {0} /\ PurgeAfter \in WarnAfter + 1 .. MaxDays
ASSUME ActsAssumption == MaxActs \in Nat
ASSUME NullAssumption == None \notin Int
ASSUME ReplicaAssumption ==
  Replicas \cap {"timer", "suspension", "dunning", "owner", "operator", "console"} = {}

VARIABLES
  sub,       \* the row of subscriptions
  company,   \* the row of companies
  clock,     \* the timer that fired last
  todo,      \* what has not run yet since it fired
  dunning,   \* chargeSubscription of the admin backend
  owner,     \* upgrade of the owner
  operator,  \* extendTrial of the operator
  console,   \* another request of the operator, between two of its statements
  job,       \* what the suspension and each replica's notice timer have selected
  acts,      \* acts of the owner and the operator so far
  stale,     \* handlers behind whose reading the row was written (history)
  raced,     \* one of them has written (history)
  paidUntil, \* end of the period paid last (history)
  early,     \* a renewal was charged before that (history)
  unwarned   \* days after the end of the trial on which a purge notice failed (history)

history == <<stale, raced, paidUntil, early, unwarned>>
vars == <<sub, company, clock, todo, dunning, owner, operator, console, job, acts, history>>

Statuses == {"trialing", "active", "past_due", "suspended", "canceled", "expired"}
CompanyStatuses == {"active", "suspended", "canceled", "deleted"}
Clock == <<"00:05", "04:00", "09:00", "10:00">>
Days == -MaxDays .. MaxDays
\* Timers that select a row and write it later, whatever it is then.
Workers == Replicas \cup {"suspension"}
GRACE == RETRY_SCHEDULE_DAYS[Len(RETRY_SCHEDULE_DAYS)] + 1

Init ==
  /\ sub = [status |-> "trialing", plan |-> "paid", trialEnd |-> 1, periodEnd |-> 1,
            dawn |-> FALSE, autoRenew |-> TRUE, cancel |-> FALSE, card |-> FALSE,
            nextBilling |-> 1, failed |-> 0, since |-> None, retry |-> 0,
            nextRetry |-> None, marks |-> {}]
  /\ company = [status |-> "active", deleted |-> FALSE, users |-> TRUE]
  /\ clock = "10:00"
  /\ todo = {}
  /\ dunning = [step |-> "idle", row |-> None]
  /\ owner = "idle"
  /\ operator = None
  /\ console = "idle"
  /\ job = [k \in Workers |-> "idle"]
  /\ acts = 0
  /\ stale = {} /\ raced = FALSE
  /\ paidUntil = -MaxDays /\ early = FALSE /\ unwarned = {}

\* Handlers that have read the row and will write it.
InFlight ==
  {k \in Workers : job[k] # "idle"}
    \cup {"dunning" : x \in {dunning.step} \ {"idle"}}
    \cup {"operator" : x \in {operator} \ {None}}

\* UPDATE of the row by handler h; what the others have read is stale now.
Save(h, row) ==
  /\ sub' = row
  /\ stale' = (stale \cup (IF row = sub THEN {} ELSE InFlight)) \ {h}
  /\ raced' = (raced \/ h \in stale)

Reads(h) == stale' = stale \ {h} /\ UNCHANGED raced

-----------------------------------------------------------------------------
(***************************************************************************)
(* The passing of time.                                                    *)
(***************************************************************************)
Before(d) == IF d = None THEN None ELSE IF d > -MaxDays THEN d - 1 ELSE d
Older(d) == IF d = None THEN None ELSE IF d < GRACE THEN d + 1 ELSE d

Midnight ==
  /\ sub' = [sub EXCEPT !.trialEnd = Before(@), !.periodEnd = Before(@),
                        !.nextBilling = Before(@), !.nextRetry = Before(@),
                        !.since = Older(@)]
  /\ paidUntil' = Before(paidUntil)

RetryDue == sub.status = "past_due" /\ sub.nextRetry # None /\ sub.nextRetry <= 0

Tick ==
  /\ todo = {} /\ InFlight = {} /\ owner = "idle" /\ console = "idle"
  /\ clock = "10:00" => ~RetryDue
  /\ \E i \in 1 .. 4 :
       /\ clock = Clock[i]
       /\ clock' = Clock[IF i = 4 THEN 1 ELSE i + 1]
  /\ todo' = IF clock' = "10:00" THEN Replicas ELSE {"timer"}
  /\ IF clock' = "00:05" THEN Midnight ELSE UNCHANGED <<sub, paidUntil>>
  /\ UNCHANGED <<company, dunning, owner, operator, console, job, acts, stale, raced, early, unwarned>>

\* A date so many days after now.  Between 00:05 and 04:00 it is a dawn; later
\* in the day it comes after the timers of its day, so with those of the next.
In(days) == IF clock = "00:05" THEN days ELSE days + 1

-----------------------------------------------------------------------------
(***************************************************************************)
(* dunning.scheduler.ts: renewal at 00:05, retries, suspension at 09:00.   *)
(***************************************************************************)
RenewalDue ==
  /\ sub.status = "active"
  /\ sub.autoRenew
  /\ sub.periodEnd + (IF sub.dawn THEN 1 ELSE 0) <= 0

Select ==
  /\ dunning' = [step |-> "selected", row |-> sub]
  /\ Reads("dunning")
  /\ UNCHANGED <<sub, company, clock, owner, operator, console, job, acts, paidUntil, early, unwarned>>

DunningRenewal ==
  /\ clock = "00:05" /\ "timer" \in todo /\ dunning.step = "idle"
  /\ RenewalDue
  /\ todo' = todo \ {"timer"}
  /\ Select

\* The loop catches nothing: an error in the charge of this or of an earlier
\* subscription leaves the rest as they are, to the next night.
DunningBreaksOff ==
  /\ clock = "00:05" /\ "timer" \in todo
  /\ RenewalDue
  /\ todo' = todo \ {"timer"}
  /\ UNCHANGED <<sub, company, clock, dunning, owner, operator, console, job, acts, history>>

\* Every hour: before, between or beside the other timers of the day.
DunningRetry ==
  /\ dunning.step = "idle"
  /\ RetryDue
  /\ UNCHANGED todo
  /\ Select

\* A renewal charge that is paid before what was paid last is over.
Charged == early' = (early \/ paidUntil > 0)

\* Toss is asked to charge the card; without a card it is not asked.  Nothing is
\* charged for the free plan, and Toss refuses an amount of nothing.
DunningPays ==
  /\ dunning.step = "selected" /\ dunning.row.card /\ dunning.row.plan = "paid"
  /\ dunning' = [dunning EXCEPT !.step = "paid"]
  /\ Charged
  /\ UNCHANGED <<sub, company, clock, todo, owner, operator, console, job, acts, stale, raced, paidUntil, unwarned>>

DunningFails ==
  /\ dunning.step = "selected"
  /\ dunning' = [dunning EXCEPT !.step = "failed"]
  /\ UNCHANGED <<sub, company, clock, todo, owner, operator, console, job, acts, history>>

\* Mutant: next_billing_at stays where it was.
RenewedForOne(row) ==
  [sub EXCEPT !.status = "active", !.periodEnd = row.periodEnd + Period,
              !.since = None, !.retry = 0, !.nextRetry = None]

\* Mutant: the payment does not settle the arrears.
RenewedInArrears(row) ==
  [sub EXCEPT !.periodEnd = row.periodEnd + Period, !.nextBilling = row.periodEnd + Period]

\* The columns the admin backend knows of: neither the marks of the notices nor
\* renewal_retry_count are among them.
Renewed(row) ==
  [sub EXCEPT !.status = "active", !.periodEnd = row.periodEnd + Period,
              !.nextBilling = row.periodEnd + Period,
              !.since = None, !.retry = 0, !.nextRetry = None]

NextRetry(n) ==
  IF n < Len(RETRY_SCHEDULE_DAYS) THEN RETRY_SCHEDULE_DAYS[n + 1] ELSE None

\* markPastDue; the counter is only compared with the length of the schedule.
PastDue(row) ==
  [sub EXCEPT !.status = "past_due",
              !.since = IF row.since # None THEN row.since ELSE 0,
              !.retry = IF row.retry < Len(RETRY_SCHEDULE_DAYS) THEN row.retry + 1 ELSE row.retry,
              !.nextRetry = NextRetry(row.retry)]

DunningWrite ==
  /\ dunning.step \in {"paid", "failed"}
  /\ dunning' = [step |-> "idle", row |-> None]
  /\ IF dunning.step = "paid"
       THEN /\ Save("dunning", Renewed(dunning.row))
            /\ paidUntil' = dunning.row.periodEnd + Period
       ELSE /\ Save("dunning", PastDue(dunning.row))
            /\ UNCHANGED paidUntil
  /\ UNCHANGED <<company, clock, todo, owner, operator, console, job, acts, early, unwarned>>

\* Mutant: only those who renew automatically.
SuspendsRenewing ==
  sub.status = "past_due" /\ sub.since # None /\ sub.since >= GRACE /\ sub.autoRenew

Suspends == sub.status = "past_due" /\ sub.since # None /\ sub.since >= GRACE

\* handleFinalSuspend: a SELECT, then an UPDATE by id.
SuspendSelect ==
  /\ clock = "09:00" /\ "timer" \in todo
  /\ Suspends
  /\ todo' = todo \ {"timer"}
  /\ job' = [job EXCEPT !["suspension"] = "suspend"]
  /\ Reads("suspension")
  /\ UNCHANGED <<sub, company, clock, dunning, owner, operator, console, acts, paidUntil, early, unwarned>>

JobDone(k) ==
  /\ job' = [job EXCEPT ![k] = "idle"]
  /\ UNCHANGED <<clock, todo, dunning, owner, operator, console, acts, paidUntil, early>>

FinalSuspend ==
  /\ job["suspension"] = "suspend"
  /\ Save("suspension", [sub EXCEPT !.status = "suspended"])
  /\ JobDone("suspension")
  /\ UNCHANGED <<company, unwarned>>

-----------------------------------------------------------------------------
(***************************************************************************)
(* The backend's renewal at 04:00, one action (see Billing).               *)
(***************************************************************************)
BackendDue ==
  /\ sub.status \in {"active", "past_due"}
  /\ sub.autoRenew /\ ~sub.cancel
  /\ sub.nextBilling <= 0
  /\ sub.failed < MAX_RETRY
  /\ sub.card /\ ~company.deleted

BackendTurn ==
  /\ clock = "04:00" /\ "timer" \in todo
  /\ BackendDue
  /\ todo' = todo \ {"timer"}
  /\ UNCHANGED <<company, clock, dunning, owner, operator, console, job, acts, unwarned>>

BackendRenews ==
  /\ BackendTurn
  /\ Save("timer", [sub EXCEPT !.status = "active", !.periodEnd = @ + Period,
                               !.nextBilling = sub.periodEnd + Period,
                               !.failed = 0, !.marks = {}])
  /\ IF sub.plan = "free" THEN UNCHANGED <<paidUntil, early>>
                          ELSE paidUntil' = sub.periodEnd + Period /\ Charged

\* handleFailure: the next attempt is 24 hours and some seconds later, which the
\* timer of the day after next meets.
BackendFails ==
  /\ BackendTurn
  /\ sub.plan = "paid"
  /\ Save("timer", [sub EXCEPT !.status = "past_due", !.failed = @ + 1,
                               !.nextBilling = IF sub.failed + 1 >= MAX_RETRY THEN @ ELSE 2])
  /\ UNCHANGED <<paidUntil, early>>

\* A timer of one of the first three instants that finds nothing to do.
NothingDue ==
  /\ "timer" \in todo
  /\ ~ CASE clock = "00:05" -> RenewalDue
         [] clock = "04:00" -> BackendDue
         [] OTHER           -> Suspends
  /\ todo' = todo \ {"timer"}
  /\ UNCHANGED <<sub, company, clock, dunning, owner, operator, console, job, acts, history>>

-----------------------------------------------------------------------------
(***************************************************************************)
(* subscription-notify-cron.service.ts, 10:00: in every replica the end of *)
(* trials, the purge notice and the purge, each a SELECT and then an       *)
(* UPDATE by id.                                                           *)
(***************************************************************************)
\* The row is joined with its company and the owner, neither of them deleted.
Joined == ~company.deleted /\ company.users

\* Mutants: as the query of the renewal notice; as the query of the purge notice.
ExpiresRenewing ==
  /\ sub.status = "trialing" /\ sub.trialEnd # None /\ sub.trialEnd <= 0
  /\ sub.autoRenew /\ Joined
PurgesOnNotice ==
  /\ sub.status = "expired" /\ sub.trialEnd # None
  /\ -sub.trialEnd >= WarnAfter /\ Joined

Expires ==
  /\ sub.status = "trialing" /\ sub.trialEnd # None /\ sub.trialEnd <= 0
  /\ "trial_expired" \notin sub.marks /\ Joined
Warns ==
  /\ sub.status = "expired" /\ sub.trialEnd # None
  /\ -sub.trialEnd >= WarnAfter /\ -sub.trialEnd < PurgeAfter
  /\ "purge_d7" \notin sub.marks /\ Joined
Purges ==
  /\ sub.status = "expired" /\ sub.trialEnd # None
  /\ -sub.trialEnd >= PurgeAfter /\ Joined

Due ==
  {"expire" : x \in {TRUE} \cap {Expires}} \cup {"warn" : x \in {TRUE} \cap {Warns}}
    \cup {"purge" : x \in {TRUE} \cap {Purges}}

NoticeSelect(k) ==
  /\ clock = "10:00" /\ k \in todo
  /\ todo' = todo \ {k}
  /\ \E what \in IF Due = {} THEN {"idle"} ELSE Due : job' = [job EXCEPT ![k] = what]
  /\ Reads(k)
  /\ UNCHANGED <<sub, company, clock, dunning, owner, operator, console, acts, paidUntil, early, unwarned>>

ExpireTrial(k) ==
  /\ job[k] = "expire"
  /\ Save(k, [sub EXCEPT !.status = "expired", !.marks = @ \cup {"trial_expired"}])
  /\ JobDone(k)
  /\ UNCHANGED <<company, unwarned>>

\* The mark is set when the notice and the mail are out, and only then.
WarnPurge(k) ==
  /\ job[k] = "warn"
  /\ Save(k, [sub EXCEPT !.marks = @ \cup {"purge_d7"}])
  /\ JobDone(k)
  /\ UNCHANGED <<company, unwarned>>

NoticeFails(k) ==
  /\ job[k] = "warn"
  /\ unwarned' = unwarned \cup {-sub.trialEnd : x \in {sub.trialEnd} \ {None}}
  /\ Reads(k)
  /\ JobDone(k)
  /\ UNCHANGED <<sub, company>>

Purge(k) ==
  /\ job[k] = "purge"
  /\ company' = [company EXCEPT !.deleted = TRUE]
  /\ Save(k, [sub EXCEPT !.status = "canceled"])
  /\ JobDone(k)
  /\ UNCHANGED unwarned

-----------------------------------------------------------------------------
(***************************************************************************)
(* The owner: subscriptions.service.ts.                                    *)
(***************************************************************************)
Acts == acts < MaxActs /\ acts' = acts + 1

\* A user of a company is let in as long as the account is not deleted; the
\* statuses of the company and the subscription are not asked (JwtStrategy,
\* SubscriptionStatusGuard: /subscriptions is always allowed).
Admitted == company.users

\* upgrade: Toss is charged first ...
Upgrade ==
  /\ Admitted
  /\ owner = "idle"
  /\ owner' = "upgrading"
  /\ Acts
  /\ UNCHANGED <<sub, company, clock, todo, dunning, operator, console, job, history>>

UpgradeDeclined ==
  /\ owner = "upgrading"
  /\ owner' = "idle"
  /\ UNCHANGED <<sub, company, clock, todo, dunning, operator, console, job, acts, history>>

\* ... then one transaction writes the payment and the subscription.  What the
\* admin backend counts (since, retry, nextRetry) is not among the columns.
UpgradeCommit ==
  /\ owner = "upgrading"
  /\ owner' = "idle"
  /\ Save("owner", [sub EXCEPT !.status = "active", !.plan = "paid", !.trialEnd = None,
                               !.periodEnd = In(Period), !.nextBilling = In(Period),
                               !.dawn = (clock = "00:05"), !.card = TRUE,
                               !.autoRenew = TRUE, !.cancel = FALSE])
  /\ paidUntil' = In(Period)
  /\ UNCHANGED <<company, clock, todo, dunning, operator, console, job, acts, early, unwarned>>

ByOwner(row) ==
  /\ Admitted
  /\ Acts
  /\ Save("owner", row)
  /\ UNCHANGED <<company, clock, todo, dunning, owner, operator, console, job, paidUntil, early, unwarned>>

DowngradeToFree ==
  /\ sub.plan # "free"
  /\ ByOwner([sub EXCEPT !.plan = "free", !.status = "active", !.trialEnd = None,
                         !.periodEnd = In(FreePeriod), !.nextBilling = In(FreePeriod),
                         !.dawn = (clock = "00:05"), !.failed = 0, !.marks = {},
                         !.cancel = FALSE])

ToggleAutoRenew ==
  /\ sub.status # "canceled"
  /\ ByOwner([sub EXCEPT !.autoRenew = ~@])

CancelAtPeriodEnd ==
  /\ sub.status # "canceled"
  /\ ByOwner([sub EXCEPT !.cancel = TRUE])

CancelNow ==
  /\ sub.status # "canceled"
  /\ ByOwner([sub EXCEPT !.cancel = FALSE, !.status = "canceled"])

-----------------------------------------------------------------------------
(***************************************************************************)
(* The operator: subscriptions.controller.ts and companies.service.ts of   *)
(* the admin backend.                                                      *)
(***************************************************************************)
ByOperator(row, c) ==
  /\ Acts
  /\ Save("console", row)
  /\ company' = c
  /\ UNCHANGED <<clock, todo, dunning, owner, operator, console, job, paidUntil, early, unwarned>>

\* extendTrial reads the row, and writes the two dates of what it read.
ExtendTrial ==
  /\ operator = None
  /\ sub.status = "trialing"
  /\ operator' = sub.trialEnd + 1
  /\ Acts
  /\ Reads("operator")
  /\ UNCHANGED <<sub, company, clock, todo, dunning, owner, console, job, paidUntil, early, unwarned>>

ExtendTrialSave ==
  /\ operator # None
  /\ operator' = None
  /\ Save("operator", [sub EXCEPT !.trialEnd = operator, !.periodEnd = operator])
  /\ UNCHANGED <<company, clock, todo, dunning, owner, console, job, acts, paidUntil, early, unwarned>>

OperatorCancels ==
  \/ ByOperator([sub EXCEPT !.cancel = TRUE], company)
  \/ ByOperator([sub EXCEPT !.status = "canceled"], [company EXCEPT !.status = "canceled"])

ChangePlan ==
  /\ ~company.deleted
  /\ \E plan \in {"free", "paid"} : ByOperator([sub EXCEPT !.plan = plan], company)

\* The row is checked, and then written whatever it is by then.
Checked(request) ==
  /\ console = "idle"
  /\ console' = request
  /\ Acts
  /\ UNCHANGED <<sub, clock, todo, dunning, owner, operator, job, history>>
Written(row, next) ==
  /\ console' = next
  /\ Save("console", row)
  /\ UNCHANGED <<clock, todo, dunning, owner, operator, job, acts, paidUntil, early, unwarned>>

Reactivate ==
  /\ sub.status # "active"
  /\ Checked("reactivating")
  /\ UNCHANGED company

ReactivateSave ==
  /\ console = "reactivating"
  /\ Written([sub EXCEPT !.status = "active", !.cancel = FALSE, !.since = None,
                         !.retry = 0, !.nextRetry = None], "idle")
  /\ company' = [company EXCEPT !.status = "active"]

SuspendCompany ==
  /\ ~company.deleted /\ sub.status # "suspended"
  /\ Checked("suspending")
  /\ UNCHANGED company

SuspendCompanySave ==
  /\ console = "suspending"
  /\ Written([sub EXCEPT !.status = "suspended"], "idle")
  /\ company' = [company EXCEPT !.status = "suspended"]

ActivateCompany ==
  /\ ~company.deleted /\ sub.status # "active"
  /\ Checked("activating")
  /\ UNCHANGED company

ActivateCompanySave ==
  /\ console = "activating"
  /\ Written([sub EXCEPT !.status = "active"], "idle")
  /\ company' = [company EXCEPT !.status = "active"]

\* deleteCompanyData: the users, the subscription, the company, each by a statement
\* that is committed on its own.
DeleteCompanyData ==
  /\ ~company.deleted
  /\ Checked("users")
  /\ company' = [company EXCEPT !.users = FALSE]

DeleteSubscription ==
  /\ console = "users"
  /\ Written([sub EXCEPT !.status = "canceled"], "subscription")
  /\ UNCHANGED company

DeleteCompany ==
  /\ console = "subscription"
  /\ Written(sub, "idle")
  /\ company' = [company EXCEPT !.status = "deleted", !.deleted = TRUE]

\* The process ends, or a statement fails, and the rest is not done.
ConsoleBreaksOff ==
  /\ console # "idle"
  /\ console' = "idle"
  /\ UNCHANGED <<sub, company, clock, todo, dunning, owner, operator, job, acts, history>>

-----------------------------------------------------------------------------
Timers ==
  \/ DunningRenewal \/ DunningBreaksOff \/ DunningRetry
  \/ DunningPays \/ DunningFails \/ DunningWrite \/ SuspendSelect \/ FinalSuspend \/ BackendRenews \/ BackendFails \/ NothingDue
  \/ \E k \in Replicas :
       NoticeSelect(k) \/ ExpireTrial(k) \/ WarnPurge(k) \/ NoticeFails(k) \/ Purge(k)
OwnerActs ==
  \/ Upgrade \/ UpgradeDeclined \/ UpgradeCommit
  \/ DowngradeToFree \/ ToggleAutoRenew \/ CancelAtPeriodEnd \/ CancelNow
ConsoleAnswers ==
  \/ ReactivateSave \/ SuspendCompanySave \/ ActivateCompanySave
  \/ DeleteSubscription \/ DeleteCompany \/ ConsoleBreaksOff
OperatorActs ==
  \/ ExtendTrial \/ ExtendTrialSave \/ OperatorCancels \/ ChangePlan
  \/ Reactivate \/ SuspendCompany \/ ActivateCompany \/ DeleteCompanyData
  \/ ConsoleAnswers

Next == Tick \/ Timers \/ OwnerActs \/ OperatorActs

Spec == Init /\ [][Next]_vars

\* Timers fire every day and run to their end, requests are answered; time
\* passes however often there are requests in flight.  Nobody has to act.
Fairness ==
  /\ SF_vars(Tick)
  /\ WF_vars(Timers)
  /\ WF_vars(UpgradeDeclined \/ UpgradeCommit)
  /\ WF_vars(ExtendTrialSave)
  /\ WF_vars(ConsoleAnswers)

FairSpec == Spec /\ Fairness
-----------------------------------------------------------------------------
(***************************************************************************)
(* Properties.                                                             *)
(***************************************************************************)
Rows ==
  [status : Statuses, plan : {"free", "paid"}, trialEnd : Int \cup {None},
   periodEnd : Int, dawn : BOOLEAN, autoRenew : BOOLEAN, cancel : BOOLEAN,
   card : BOOLEAN, nextBilling : Int, failed : 0 .. MAX_RETRY,
   since : 0 .. GRACE \cup {None}, retry : 0 .. Len(RETRY_SCHEDULE_DAYS),
   nextRetry : Int \cup {None}, marks : SUBSET {"trial_expired", "purge_d7"}]

\* The rows keep their types, and the counter of the backend's failed renewals
\* stays within MAX_RETRY although the admin backend renews without resetting it.
TypeOK ==
  /\ sub \in Rows
  /\ company \in [status : CompanyStatuses, deleted : BOOLEAN, users : BOOLEAN]
  /\ clock \in {Clock[i] : i \in DOMAIN Clock}
  /\ todo \subseteq Replicas \cup {"timer"}
  /\ dunning \in [step : {"idle", "selected", "paid", "failed"}, row : Rows \cup {None}]
  /\ owner \in {"idle", "upgrading"}
  /\ operator \in Int \cup {None}
  /\ console \in {"idle", "reactivating", "suspending", "activating", "users", "subscription"}
  /\ job \in [Workers -> {"idle", "suspend", "expire", "warn", "purge"}]
  /\ acts \in 0 .. MaxActs
  /\ stale \subseteq Workers \cup {"dunning", "operator"}
  /\ raced \in BOOLEAN /\ early \in BOOLEAN
  /\ paidUntil \in Int /\ unwarned \subseteq Days

\* No timer suspends, expires or cancels a subscription whose paid period is
\* still running, unless it worked off a row written since it was read: the
\* selections of the four timers are disjoint from what a payment leaves.
PaidIsKept ==
  [][ (sub'.status # sub.status
         /\ (FinalSuspend \/ \E k \in Replicas : ExpireTrial(k) \/ Purge(k)))
      => paidUntil <= 0 \/ raced' ]_vars

\* Two backends renew the same row by timers of their own: while no handler works
\* off a row written since it was read, none is charged before the period paid
\* last is over.
RenewedWhenOver == early => raced \/ "dunning" \in stale

\* Nobody's data is deleted unannounced: a company is purged after the notice, or
\* after the notice failed on every day between the two limits, unless a handler wrote
\* over a row that was written since it had read it.
PurgedWasWarned ==
  [][ \A k \in Replicas :
        Purge(k) =>
          "purge_d7" \in sub.marks \/ WarnAfter .. PurgeAfter - 1 \subseteq unwarned \/ raced' ]_vars

\* A trial does not outlast its end: once the day has come it ends, or it is
\* extended, whatever fails on the way, unless the users were deleted: the timer
\* looks for an owner, and the deletion may break off before the subscription.
TrialEnds ==
  (sub.status = "trialing" /\ sub.trialEnd <= 0)
    ~> (sub.status # "trialing" \/ sub.trialEnd > 0 \/ ~company.users)

\* Nobody stays past due for ever once the admin backend has dated it: paid in a
\* retry, or suspended when the days of grace are over.
PastDueEnds ==
  (sub.status = "past_due" /\ sub.since # None) ~> sub.status # "past_due"

\* "The subscription is cancelled at the end of the current period", the owner and
\* the operator are told: the card is not charged for another one.
CancelledIsNotCharged == [][DunningPays => ~dunning.row.cancel]_vars
=============================================================================
