# Specifications of 관리왕 (insagwanri)

TLA+ models of the HR service in this repository, the TLC configurations that
check them on small instances, and TLAPS proofs, for every instance, of the safety
properties the configurations check. Paths below are
relative to the repository; `B/` stands for `backend/src/modules/`, `A/` for
`admin-backend/src/modules/`.

    tlc -config Credits.cfg MCCredits        # one run; see "Runs"
    tlapm CreditsProofs.tla                  # one module of proofs; see "Proofs"

## The system

A NestJS backend (`backend/`) serves the web and mobile clients, a second one
(`admin-backend/`) serves the operator; both work on one PostgreSQL database,
with Redis for queues, counters and locks, S3 for files, Toss for payments,
Expo for pushes and OpenAI for classification and OCR. Companies are tenants;
almost every row carries a `company_id` and no handler crosses it, so each
module models one company (Credits several), one employee, one account or one
document.

Three facts shape every model.

- **Handlers interleave at every `await`.** A handler is an async function: it
  reads rows, checks them, awaits, and writes. Most open no transaction, and
  `repository.save(entity)` is two statements: a SELECT of the row as it is *now*,
  and an UPDATE of the columns in which the entity in hand differs from it. A
  row read earlier thus overwrites what was saved since, the soft-delete mark
  included, and a row that changes between the two statements ends up with
  some columns of each writer. A model has one action per stretch between two
  awaits on the database that matter, and `local` holds what a suspended handler
  has read. `Awaits` is that event loop, with the two statements of a save
  (`Compare`, `Merged`); the services of the office and of the records extend it.
- **Every process runs every timer.** `docker-compose.prod.yml` starts two
  replicas with `start-first` updates; nothing elects one. `Replicas` is a
  constant.
- **A process may die between two commits**, and a call to Toss, S3 or Expo may
  succeed and not be heard of.

### Components

| Component | State | Operations | What makes it correct | Module |
|---|---|---|---|---|
| Credits (`B/credits`) | `credits`, `credit_transactions` | balance (creates the row), deduct around an OpenAI call, purchase, monthly grant | no overdraft; the statement adds up; the daily limit; one grant a month | `Credits`, `Wallet` |
| Billing (`B/subscriptions`) | `subscriptions`, `payments`, `payment_methods` | renewal timer, upgrade, seats, downgrade, cancel, auto-renew, cards | a period is charged once, for what is then subscribed; seats are paid; a due subscription is settled | `Billing` |
| Life of a subscription (`subscription-notify-cron.service.ts`, `A/payments`, `A/subscriptions`, `A/companies`) | the same rows, purge dates, retry columns | notices, expiry, purge; a second renewal timer, retries, suspension; the operator's edits | who has paid is not expired, suspended or charged early; arrears and trials end; purge after a notice | `Lifecycle` |
| Payments by hand (`upgrade`, `purchaseAddon`, `A/payments` refund) | `payments`, `coupons`, `addon_purchases` | charge then record, refund then note | what Toss has taken or paid back is what the table says; coupons within their limit | `Payments` |
| Prices (`pricing.constant.ts`) | none | tiers, monthly total, proration | more never costs less; part of a period never more than a whole one | `Pricing` |
| Feature modules (`B/feature-modules`) | `company_modules` by source | sync with the plan, add-ons, toggles, presets | a plan leaves alone what an add-on or the owner switched | `FeatureModules` |
| Vacations (`B/vacations`) | `vacation_requests`, `vacation_balances` | request, decide, cancel, remove, set the balance | used days are those of the approved requests; a decision is made once | `Vacations` |
| Attendance (`B/attendance`, `shift-absent-cron`) | `attendance_records` | clock in and out, correction, trip rows, the absence timer | first clock-in wins; a row tells one story; a finished shift is settled, if a timer got to the employee | `Attendance` |
| Attendance archive (`attendance-archive.service.ts`) | `attendance_records`, `attendance_records_archive` | the nightly move, a correction meanwhile | a record is in one of the tables, as it was saved last, with the columns that table has | `AttendanceArchive` |
| Rosters and swaps (`B/shift-schedule`, `B/shift-swap`) | `shift_schedules`, `shift_assignments`, `shift_swap_requests`, `shift_handovers` | draft, fill, publish; offer, answer, volunteer, decide; sign, dispute | one row of a duty until an exchange; a shift is offered once and changes hands by an approval only; a handover is complete when both signed | `ShiftSchedules`, `ShiftSwap`, `Handovers` |
| Approvals and seals (`B/approvals`) | `approval_documents`, `approval_steps` with hashes | draft, submit, request a change of permissions or hours, approve step by step, reject, cancel, remove, seal, apply, verify | nobody in the line is skipped; sealed documents stay; a change is applied once; the seal tells changes, but for two the join hides | `Approvals`, `DocumentSeals` |
| Sessions (`B/auth`, `web/src/lib/api.ts`) | refresh hash and current session of a user; `localStorage`, the parked requests of a tab | login, refresh, logout, new password, deactivation; the axios interceptors | ended sessions stay ended; every request is settled | `Sessions` |
| Lock and recovery (`B/auth`) | Redis counters and locks; `password_reset_tokens`, `phone_verification_tokens` | login; links and codes for a new password | five failures lock, for a time; the last link works, once | `LoginLock`, `Recovery` |
| Users and invitations (`B/users`, `B/invitations`) | `users`, `invite_tokens` | invite, resend, cancel, accept, join by link | a link makes no more accounts than it says | `Invitations` |
| Teams (`B/teams`) | `teams`, `team_members`, channels | create, edit, delete, members, leader | the channel has the team's name and members | `Teams` |
| Tasks, evaluations (`B/tasks`, `B/evaluations`) | rows with a status each, answers with a score | reports, deletion by consent, more time; cycles, answers, submission | what was decided stands; a score is that of the answers | `Tasks`, `Evaluations` |
| Calendar (`B/calendar`) | events, shares, requests to share | edit, share, ask, decide, revoke | an approved request makes one share | `Calendar` |
| Contracts (`B/contracts`) | `contracts` | register, edit, terminate, expire, OCR | terminated and removed contracts stay so | `Contracts` |
| Salaries (`B/salary`) | `salaries` | draft, edit, confirm, pay, remove | a paid salary does not change | `Salaries` |
| Care and field work (`B/care-worker`, `B/field-visits`, `B/locations`) | sessions, licences, visits, places of work | start, end; check in and out; open, assign | one open session or visit; the task of a visit is linked to it; the quota of locations; one primary place | `CareSessions`, `FieldVisits`, `Locations` |
| Collaboration (`B/collaboration`) | `messages`, `schedules` | send (which may make an event), edit, delete, confirm; the event deleted | a deleted message is masked and its event is gone | `Collaboration` |
| Files (`B/files`) | `files`, S3 objects | presigned upload, confirmation, deletion, sweep | a confirmed row has its object, a purged one none | `Files` |
| Notifications (`B/notifications`) | `notifications`, a BullMQ queue, `device_tokens` | dispatch, retries, chunks, refused devices, signing on and off, hours of silence | delivered despite retries; only devices signed off or without the app are dropped | `Notifications`, `DoNotDisturb` |
| The rest | rows of settings, reads, reports, user interfaces | | not modelled; `PROJECT.json` lists each with its reason | |

### How they interact

- AI classification and contract OCR call `CreditService.deduct` with the
  OpenAI call (in `Credits`); the grant timer selects companies by the status
  of their subscription (an environment action of `Credits`).
- Two programs write one subscription. `Billing` has the steps of the backend's
  own renewal under its row lock; `Lifecycle` takes that renewal as one step,
  which the lock justifies, and composes it with the notice timer, the admin
  backend's timers and the operator.
- `upgrade` calls feature modules after its commit; `FeatureModules` accepts
  such a call at any time.
- Approving a business trip in Vacations writes attendance rows (an action of
  `Attendance`); approving a swap writes the assignments that the absence timer
  reads, and that rosters edit (`Edit` of `ShiftSwap`).
- The final approval of a document writes permissions or the schedule of a
  user (`Apply` in `Approvals`) and seals (`DocumentSeals`).
- Teams keep a channel of Collaboration in step; a field visit opens a task.
- A dispatch asks `DoNotDisturb` for its delay.

## Modules

`MCM.tla` beside a specification `M.tla` has the model values, definitions and
symmetry sets of its configurations; `MProofs.tla` has the theorems about it.
`Office` and `Records` put several services together, for any instances of them.

**Credits.** `rows`, `balance`, `history` are the tables; `used` is the sum of
today's deductions of a user; `lock` is the row lock of `SELECT ... FOR
UPDATE`. `deduct` is `DeductCheck` (the daily usage, read outside the
transaction), `DeductLock` (locks and reads), `DeductCommit` (writes), then
`FeatureAnswers` or `ErrorResponse` for the OpenAI call; `charge` is
`ChargeLock`/`ChargeCommit` or, without a row, `ChargeInsert`, where two
inserters race on the unique index; `getBalance` is `BalanceRead` and
`BalanceCreate`. `GrantSelect`/`GrantNext` are the timer, which stops at the
first charge that throws (`TxnFails`). Environment: `Midnight`, `NextMonth`,
`SubscriptionChanges`.

**Wallet** is the abstract specification of Credits: accounts on which entries
are posted one at a time. `ImplementsWallet` maps `open`, `balance` and
`statement` to the three tables; the locks, the reads under them, the rollbacks
and the refused inserts are stuttering.

**Billing.** One subscription. Dates are half days from now, so time is
relative and the state space finite (`Overdue` bounds how far in the past a
date is told apart). `RenewalSelect` reads the batch at 04:00, `RenewalLock`
re-reads under `FOR UPDATE NOWAIT`, the gateway answers (`GatewayPays`,
`GatewayFails`, `CrashAfterCharge`), `RenewalCommit` or `RenewalFailure`
follows. `upgrade` charges before its transaction; `addSeats` charges inside.
The other handlers are single statements and single actions. Histories:
`paidSeats` (seats of the newest payment), `unmatched` (renewal charges since
one was recorded), `orphans` (a charge has no payment row). Extra locations
repeat the seat operations line by line and are left out.

**Lifecycle.** The subscription, the company and a clock that goes from timer
to timer: 00:05 renewal by the admin backend, 04:00 by the backend, 09:00
suspension, 10:00 notices in every replica, and the admin backend's retries at
any hour. Dates are days from today. A timer that selects and then writes is
two actions, with what it read in `job` or `dunning`; `stale` is the set of
handlers whose row was written since they read it, and `raced` records that one
of them wrote all the same. `DunningBreaksOff` is the loop that a thrown charge
ends. `owner` and `operator` act at any time, `MaxActs` times. The requests of
the operator's console check and write in separate commits (`console`):
reactivating, suspending and activating in two, deleting a company in three,
users, subscription and company, and `ConsoleBreaksOff` may end one in between.
The timers look only at companies with an owner who is not deleted.

**Sessions.** `account` is the row of the user, `age` what has become of each
token, `storage` the `localStorage` of a browser, and every tab has its page,
its flag `isRefreshing` and its requests (`call`), which are sent, at the
server, answered, or parked in `failedQueue`. A refresh is read and written in
two steps on the server (`ReceiveRefresh`, `ServeRefresh`). Tokens expire at any
time; answers may not arrive (`GiveUp`, `RefreshFailed`).

**Payments.** What Toss has (`charged`, `back`) and what the table says
(`payments`, `uses`); `tables` says which of the two incompatible forms of
`CREATE TABLE IF NOT EXISTS payments` came first, for which `Refused` makes the
recording transaction fail. `lost` is one crash or lost answer.

**Pricing, DoNotDisturb.** Pure functions, with their theorems. `calcSeatsKrw` is
checked against the list of tiers by an assumption of `MCBilling` for 0 to 120
employees.

**Office** composes **Vacations, ShiftSwap, ShiftSchedules, Handovers, Invitations,
Teams, Tasks, Evaluations, Calendar, Contracts, Collaboration, FeatureModules,
Locations** and **Payments**; **Records** composes **Attendance, AttendanceArchive,
Approvals, DocumentSeals, Files, FieldVisits, CareSessions, Salaries, LoginLock,
Recovery** and **Notifications**. Each handler is a reading action
and saving ones, each of the two handlers does any operation again and again,
and one may die where a death leaves something half done (`Crash`). Of note:

- *The save in two statements* is `Save` or `SaveSelect`, after which a handler
  is at "updating", and the UPDATE, in `Attendance`, `Salaries`, `Files`,
  `FieldVisits`, `ShiftSwap`, `ShiftSchedules`, `Handovers`, `Evaluations`,
  `Contracts` and `Collaboration`: where a property about the columns of one row
  is claimed of overlapping handlers, or was false for that reason. `torn` is
  set when a row changes while a handler is between the two. The others save in
  one step: what they claim of overlapping handlers is no relation of columns
  (counts, histories, links), and the rest they claim of handlers that do not
  overlap. In `Approvals` it is what has been *answered*, which no save
  takes back; a column of one save beside one of another claims no more than
  either did.

- `Attendance`: time counts thirds of a day in Korea, so that 9:00, where the
  UTC date changes, is a boundary. The absence timer goes over all employees in
  one loop without a `try`; the model has one of them, and `AbsentEnds` is the
  loop broken off before it came to this one (an INSERT refused for another
  employee, or a replica that is down). `missed` remembers whose loop that was.
- `ShiftSwap`: deleting an assignment empties the columns that name it
  (`ON DELETE SET NULL`), and a save that names a deleted one throws
  (`Referable`). A request is created with the target the client sends, of
  whichever type.
- `ShiftSchedules`: `Exchange` is the approval of a swap, which gives a duty to
  another employee without looking at the duties of that one; `exchanged` has
  who got one so.
- `Collaboration`: `DeleteEvent` is the calendar removing the event a message made.
- `FieldVisits`: the visit, its task and the link are three commits; `orphans` are
  the tasks whose handler ended before the third.
- `Approvals`: saving the document saves the steps it was loaded with
  (`cascade: true`): `SaveDocument` writes them back, re-inserts deleted ones,
  and throws when a step was inserted meanwhile. The approver is represented by
  the step acted on. Hashes are a flag there; `DocumentSeals` has the chain.
  `RequestChange` and `RequestSteps` are `requestPermissionChange` and its like,
  which insert a document that is in progress and then its steps.
- `DocumentSeals`: a hash stands for the text that was hashed, as no two texts
  have one hash; the text is the columns joined by `|`, which a title or a
  content may contain (`Bar`, `Letters`), and a missing comment is the empty one.
- `AttendanceArchive`: a version of a record has columns the archive has and
  columns it has not; `Copy` takes the former.
- `AttendanceArchive`: the unique index under `INSERT ... ON CONFLICT` and the
  row locks of `DELETE` make the second replica wait (`KeyLocked`,
  `RowLocked`); every statement sees what is committed at its moment.
- `LoginLock`: every Redis command is a step; lives of keys count down.
- `Notifications`: devices are in the order the query returns them, and the
  messages to Expo in the same (`SameOrder`), as the worker relies on positions.
  Devices sign on and off at any time.

### One product of many services

The fourteen services of `Office` write different tables, so that a state of
all of them together tells nothing that a state of one does not. `area` is
chosen in the first state; the services share `pc`, `local` and `overlapped`,
and the tables of the others stay `None`. TLC thus explores the union of their
state spaces, not the product, in one run. `torn` is shared likewise by the
services that have it. A property of the run is the
conjunction of what is claimed of each service, named after what they have in
common; the claims themselves are stated in the modules.

### `overlapped`

Most handlers take no lock, so that many properties of these components hold
for handlers that come one after the other, in any order and number, and not
for overlapping ones. Where that is so, `overlapped` records whether a handler
took a step while another was in flight, and the property says `~overlapped`;
"Known departures" below says what happens otherwise. What holds under every
interleaving is stated without it: everything of Credits and Billing, the types,
`ReadyForApproval` of swaps, `NobodySkipped`, `StoresInStep` of files and
pushes, `LimitRespected` of uses, `MoneyTold`, and that only messages that were
sent are confirmed. What holds under every interleaving but one,
an UPDATE between the SELECT and the UPDATE of another save, says `~torn` and
nothing else: `OneStory` of attendance, `ShiftsAreSettled`, `ReadyForApproval` of
covers, `BothSigned`, `DeletedIsMasked` of the text, `TerminatedIsDated`,
`PublishedIsDated`, `PaidIsDated` and the score of a submitted evaluation.
`Lifecycle`
is finer: its `stale` and `raced` excuse only a handler that writes over what it
has not seen, and the property of `Sessions` only a refresh that had read the row
before.

## Runs

| Run | Instance | Shows |
|---|---|---|
| `credits` | 1 company, 2 users, 2 requests, 1 replica | Reads under the lock are current, no overdraft, the statement adds up, `Credits` implements `Wallet`; the daily limit is overshot by at most one feature for each other request in flight |
| `credits_grant` | 2 companies, 1 request, 1 replica, fairness | Every call returns; a grant run gets past every company it selected |
| `credits_two_replicas` | 2 replicas | **violated** `GrantedOnceAMonth` |
| `billing` | 1 request, 2 replicas, 1 card, 2 seats, all answers of the gateway | The renewal charges what is current, and once; seats are paid; the billing date follows the period |
| `billing_due` | 1 request, 1 replica, fairness | A due subscription is settled |
| `lifecycle` | 2 replicas and the admin backend, dates told apart up to 2 days away, 2 acts, fairness | Paid time is neither charged twice nor taken away unless a handler wrote over what it had not seen; purged after the notice; trials and arrears end |
| `lifecycle_cancel` | 1 replica | **violated** `CancelledIsNotCharged` |
| `sessions` | 2 browsers, 2 tabs, 3 requests, 2 acts, fairness | What was ended only a login starts again; every request is settled, the parked ones included |
| `sessions_replaced` | the same | **violated** `ReplacedIsOver` |
| `office` | 14 services, 2 handlers each | Balances, offers, limits, rows that belong together, and decisions that stand |
| `records` | 11 services, 2 handlers each, 2 timers | Rows tell one story and stay in step with their copies; approvals skip nobody; seals hold |
| `attendance_erased` | 1 request, 2 replicas | **violated** `TimerSparesClockIns` |

**Bounds.** Two handlers are enough for every lost update: one reads, the other
reads and writes, the first writes. A third handler would add a second victim,
not a new kind of interleaving; every slot is used again without limit, so that
behaviours are unbounded in length. `DAILY_USER_LIMIT`, the grant and the
package are scaled down so that the limit and an empty wallet are reached
within the `MaxTx` rows of `credit_transactions`. `Period` of Billing is two
days and `Overdue` one to three, so that a subscription can be overdue by more
than a period and by less. In `lifecycle` the period is two days, the retries
come after one and after two more, warning and purge one and two days after the
trial, so that every date can fall before, on and after every other within
`MaxDays`; two acts are enough for one that opens a window (an upgrade) and one
that falls into it. A retry is done before midnight, and timers of one hour are
done before the next hour's; the retry may run between or beside the others. In
`sessions`, three requests let two of one tab be parked or refused while the
other tab refreshes with the same token. Two days with a shift on the second
(`LastTime`) contain both sides of 9:00 and the timer of 23:59. Three steps of
a document are the least for which a stale save can take an approval back while
a later step is being rejected. `office` does not continue behaviours in which
handlers of `Tasks` or `Teams` have overlapped; after an overlap, those of
`Locations` in which an edit has switched a location on or somebody works at
one, those of `Vacations` in which one has died or there are two requests, and
those of `ShiftSwap` with two requests, and of rosters, handovers, evaluations and
contracts those that are `torn` (`Alone`). `records` does not continue behaviours
in which drafting or submitting was overlapped, those of an overlapped document
whose change has been applied, an overlapped recovery of a password, those with two
corrected days or with one after an overlap, those of attendance and salaries
that are `torn`, and those of a seal once document and steps are both changed
(`Bounded`). Texts of a document have at most one letter (`MaxText`), `|` or
another, which is enough for two documents with one hash. What the properties
say of overlapping handlers is about one request or document up to that point;
the theorems hold without these bounds. Crashes and lost
answers come once. `CHECK_DEADLOCK FALSE` where a service may come to rest: a
removed document, a deleted contract, all acts used.

**Fairness.** `Credits`: a started handler is run to its end (weak fairness of
its steps), and PostgreSQL hands a row lock to its waiters in turn (strong
fairness of taking it). `Billing`: weak fairness of the replica's renewal steps
and of a request in flight (Toss answers or times out; `chargeToss` maps both
to a result), of the day going on, and strong fairness of 04:00, because it
comes however often a request is in flight. `Lifecycle`: the same of its
timers, of an upgrade, of an extension and of the console's requests in flight
(`ConsoleAnswers`), and of the clock.
`Sessions`: the server answers, answers arrive or the request times out in the
browser, and a page that is left is unloaded. Owners, clients and operators are
never obliged to act. Liveness runs use no symmetry.

## Proofs

Eight modules prove the following for every value of the constants: any number
of handlers, replicas, rows, employees, browsers, tabs, cards and seats, any
periods, limits and sizes. Every safety property of every passing run is a
theorem; liveness is what TLC checks alone.

| Theorem | States |
|---|---|
| `CreditsProofs!TypeCorrect`, `CurrentReads`, `NoOverdraft`, `StatementAddsUp` | `TypeOK`, `ReadsAreCurrent`, `BalanceNeverNegative`, `LedgerAddsUp` of Credits |
| `CreditsProofs!WalletImplemented`, `OvershootIsBounded` | `Spec => ImplementsWallet`: Credits implements Wallet; `DailyOvershootBounded` |
| `BillingProofs!SubscriptionTyped`, `RenewalChargesWhatIsDue`, `NoDoubleRenewal`, `SeatsFollowPayments`, `BilledWhenOver` | `TypeOK`, `ChargeIsCurrent`, `OneChargeAtATime`, `SeatsArePaid`, `BillingDateFollowsPeriod` of Billing |
| `LifecycleProofs!TwoBackendsRenewOnce`, `PaidPeriodIsKept`, `PurgeIsAnnounced` | `RenewedWhenOver`, `PaidIsKept`, `PurgedWasWarned` of Lifecycle |
| `SessionsProofs!SessionsStayEnded` | `EndedStaysEnded` of Sessions |
| `OfficeProofs!OfficeTyped`, `BalanceIsApproved`, `SwapsReadyForApproval`, `NothingTwice`, `LimitsRespected`, `RowsTellOneStory`, `ChannelsInStep` | `TypeOK`, `UsedIsApproved`, `ReadyForApproval`, `OfferedOnce`, `LimitRespected`, `RowsAgree`, `TeamsInStep` of Office |
| `OfficeProofs!ShiftsMoveWithApproval`, `CanceledForGood`, `NoStepUndoes`, `DecisionsStand` | `MovesWithApproval`, `CanceledStaysCanceled`, `NothingUndone`, `DecidedOnce` of Office: what no step does |
| `RecordsProofs!RecordsTyped`, `RowsTellOneStory`, `ShiftsSettled`, `NoApproverSkipped`, `ApprovalsAreApprovals`, `SealsTell`, `StoresAgree` | `TypeOK`, `OneStory`, `ShiftsAreSettled`, `NobodySkipped`, `ApprovedByAll`, `SealTells`, `StoresInStep` of Records |
| `RecordsProofs!SealedForGood`, `DecisionsStand` | `SealHolds`, `DecidedOnce` of Records: what no step does |
| `Pricing!SeatsGrow`, `UpgradeNeverCheaper`, `ProrationWithinPrice`, `AddedSeatsCost` | monotone prices, bounds of a prorated price, when it is 0 |
| `DoNotDisturb!DelayedToTheEnd` | a delayed push arrives at the first second in which it is wanted |

**Assumed** are the named assumptions of the modules: numbers where numbers are
meant (a limit is not negative, a line of approvers, a chunk and a number of
attempts at least 1, a lock after at least two failures); finitely many handlers
where they are counted (`Locations`, `Payments`, `LoginLock`, `RequestsAssumption`
of Credits), finitely many categories of an evaluation, devices and rows of a
seal; texts of some bounded length over an alphabet that has `|`; an empty and a
missing comment among the answers of an approver; `None` is none of the values it stands beside; kinds of actors are
disjoint. `ActorAssumption` of Attendance wants at least one replica, or nobody
would mark an absence, and `DateAssumption` no shift on the date that is over when
a behaviour begins.

**Credits.** The inductive invariant is the four properties with two facts that
make them inductive. `HandlersWellFormed` says what a suspended handler
carries: its arguments, that only deductions of a user pass the daily check,
and that a deduction under the lock has read a balance that covers it; without
it `DeductCommit` could write any number. `NoRowNoHistory` says that a company
without a row has no transactions: `ChargeInsert` starts a statement, and
`LedgerAddsUp` would not survive an insertion above an old one.
`ReadsAreCurrent` carries the argument: `DeductLock` and `ChargeLock` are the
only steps that enter `locked`, they need a free lock, and whoever else writes
the balance holds that lock, so what was read is what is there at the commit.
The refinement adds `AmountsWellFormed`: a handler charges a package or the
grant and deducts the cost of its feature. Then `DeductCommit` is `Spend`,
`ChargeCommit` is `Charge`, the two inserts are `Look` and `FirstCharge` or are
refused, and every other step leaves the tables alone. For the daily limit,
`SpendingBounded` counts what a user has spent today, the deductions `Underway`
between check and commit, and the `Costly` ones again: `DeductCheck` admits one
that fits into the limit next to at most all other requests
(`RequestsAssumption`: finitely many, at least one), `DeductCommit` turns what
was counted into usage, and nothing else adds to either.

**Billing.** `Places` (which steps an actor of which kind can be at), `Locked`
(who charges under a lock holds it, hence one actor at most, and at 04:00 sharp
no renewal has begun to charge) and `ChargeRecorded` (unless a record was lost,
at most one renewal is charged and not recorded, and it is about to commit)
strengthen the properties. `SeatsStayPaid` extends `SeatsArePaid` to a
subscription that was canceled while a renewal is under way, whose failure may
make it `past_due` again.

**Lifecycle.** `IInv` is types, `OnTrial` (a trial has an end and no card),
`DunningRead` and `OthersRead` (a handler that is not `stale` has read what
stands), `PaidPeriod` (as long as nobody has written blindly, what was paid ends
no later than the period, which ends no later than the next billing; a row in
arrears, on trial or expired has no paid time left) and `ChargedEarly`. Every
timer selects by a condition that `PaidPeriod` turns into "nothing paid
remains", and what was selected is still so unless the timer is stale. Types
there are weaker than `Lifecycle!TypeOK` (integers for bounded days), because
the bounds of the days hold by the bound of the model.

**The purge.** `Announced` follows a trial to its purge. `TrialRuns`: a trial is
not over, or no replica has looked today, or one that has is about to expire it;
as time waits for whoever is at work, it never becomes overdue, and a row expires
before the first day of the notice. `NoticeTried`: from then on the notice has
failed on every day but perhaps today, or the row is marked. The purge
(`PurgeRead`) has seen that the days are over. An extension by the operator
(`ExtensionRead`) moves the end only of a trial that still runs. `CanceledFirst`
says that the console's deletion of a company, whose commits the timers may fall
between, cancels the subscription before the company is deleted. All of it is void once a handler wrote over what it had not seen
(`raced`).

**Sessions.** `RefreshIsKnown` says that a refresh about to write either has
found the row open or is marked `late`; types hold for some set of sessions `S`,
which grows.

**Office and Records.** A step of one service leaves `area` and the tables of the
others alone (`Serves`), so that each theorem is a case for each service.
The invariant of a service has two parts.

- *However handlers interleave* (`...Inv`): types, and what every row in the table
  and every entity in the hands of a suspended handler (`...Held`, `...InHand`)
  satisfies, so that a stale save puts back an older row but never an unsound one.
  Swaps, handovers, messages, contracts' dates, attendance and the answers of an
  approval line rest on this part alone.
- *As long as they do not overlap* (`...SoloInv`): one handler is at work at most,
  and what it has read still holds; between two of its saves the tables differ
  from what is promised by what this handler is still to write. A step of another
  handler sets `overlapped`, and the part is void.

What is particular:

- *Sums* (used days, scores) are `MapThenSumSet`, a fold over a recursive
  function. What a sum does when one element changes is shown by a smallest
  counterexample among the finite subsets.
- *Limits*: active locations and handlers that have counted fewer than the quota
  are together fewer than the quota and all handlers; likewise the uses of a
  coupon. Who counts joins a set it is not in, who writes leaves it.
- *Attendance*: `ClockStory` holds of rows and of entities in hand; where a request
  and the timer would both insert a row, the unique index refuses the second. The
  timer of a date fires in the last third of its day, and the row of a shift can
  be missing only while every replica still has it ahead or has `missed` it. What a
  timer saves has no clock-in, or the one it read: it may take one away, but
  never writes another in its place (`FirstKept`), whatever other timers do.
- *Approvals*: the saves that write the whole line back may set it to an older
  state but not behind a number that was answered when the document passed it;
  `draftRaced` voids this, as then the line itself may be replaced.
- *Seals*: a hash stands for what was hashed. From equal seals one goes back
  along the chain, row by row, whatever order equal numbers come in, to equal
  texts; and a text is split in one way at its first `|` if the title has none.
- *Archive*: no two transactions hold one record, because the key of the archive
  makes the second wait, and each deletes what it has copied, the columns the
  archive has not included.
- *Saves in two statements*: as long as nothing is `torn`, the columns of the UPDATE
  are those in which the entity differs from the row as it still is, so that the
  UPDATE makes the row what the entity is (`Merged`).
- *Pushes*: messages are the devices in their order without repetition, what is
  left is a rest of them, and what was counted as sent is what is not left; a
  device is switched off at a position of the first chunk.
- *Lock*: a counter without a lifetime has a handler that is about to give it one.

**Pricing** splits by tiers and by the sign of what remains; the bound of a
prorated price is the monotony of rounding. **DoNotDisturb** splits by whether
the hours cross midnight.

Only model-checked: `EveryCallReturns`, `GrantFinishes`, `DueIsSettled`,
`TrialEnds`, `PastDueEnds` and `RequestsSettle`, because fairness and `ENABLED` are
beyond the prover; and the four disagreements of the violated runs, which are
counterexamples.

## Known departures

Found while modelling. The first four are runs of the project; the others were
seen in counterexamples of properties since weakened to what the code keeps
(`overlapped`, `raced`, `lost`, a bound on an overshoot), or met while reading,
and are recorded so that a reader does not take the weaker property for the
intention.

1. Two replicas grant the month twice (`credit.service.ts:146`).
2. The admin backend charges a cancelled subscription (`dunning.scheduler.ts:41`).
3. After a login elsewhere a browser refreshes instead of logging out, and ends
   the new session (`web/src/lib/api.ts:41`).
4. The absence timer erases a clock-in (`shift-absent-cron.service.ts:86`).
5. **Attendance.** Before 9:00 in Korea the work date is yesterday
   (`attendance.service.ts:765`, against `docs/gps-attendance-spec.md:564`);
   for the same reason `clockOut` after midnight finds the row of the day
   before (`:292`), and who came before 9:00 may be marked absent. An INSERT
   that the unique index refuses ends the loop of the absence timer, and every
   employee after that one is neither come nor absent
   (`shift-absent-cron.service.ts:69`, `:86`; `AbsentEnds`). A correction
   overlapping the archive re-inserts an archived row or updates nothing; the
   next archive then keeps the older copy. The archive's list of columns
   (`attendance-archive.service.ts:41`) omits `break_minutes`,
   `clock_in_method`, `clock_out_method`, `work_location`, `flex_type`,
   `late_exempted`, `is_long_work`, `night_work_minutes`, `rounded_work_minutes`
   and `wage_amount`, and the original is deleted: these are lost. Weekly holiday
   pay notifies once per replica.
6. **Credits.** Concurrent requests pass the daily limit together
   (`credit.service.ts:57`); a failed OCR is charged although a comment
   promises a rollback (`contracts.service.ts:176`, `:184`); companies after one
   whose grant throws get nothing that month (`:146`).
7. **Billing.** A subscription overdue by more than a period is still due after
   its renewal, and the second replica charges it again
   (`subscription-billing-cron.service.ts:107`, `:195`). `handleFailure` writes
   what it read at 04:00 without a lock (`:301`); a retry is due 24 hours later
   to the second and so comes every second day (`:299`), while line 19 says 72
   hours; `past_due` is set at the first failure though line 20 says after
   three (`:312`). A lost answer is retried with a new order id (`:382`). An
   upgrade keeps the retry counter, which after three failures excludes the
   company from renewal, and a pending seat decrease
   (`subscriptions.service.ts:211`). The default card can be deleted unless the
   subscription is exactly `active` (`:352`).
8. **Life of a subscription.** The docs say retries on days 1, 3 and 7, then
   suspension (`PROJECT_OVERVIEW.md:518`); the code retries on days 1, 4
   and 11 and suspends on day 8. The admin's monthly renewal adds numbers that
   come as text, throws, and leaves the loop for all later subscriptions
   (`DunningBreaksOff`). A failure met first by the backend leaves
   `past_due_since` empty: past due for ever. Free companies are marked past
   due after the nominal year and suspended. `handleFinalSuspend`, the expiry
   and the purge write unconditionally after their SELECT, so that a company
   that paid meanwhile is shut out (`dunning.scheduler.ts:99`,
   `subscription-notify-cron.service.ts:241`). The admin renewal ignores
   deleted companies, seats and counters of notices. A deletion that breaks
   off between its commits (`A/companies/companies.service.ts:317`) leaves a
   trial of no users that never ends, as the timers look for an owner. A deleted
   company can be reactivated; users of a purged one keep valid accounts.
9. **Payments.** With the admin's form of the table, coupon upgrades, add-ons
   and backend renewals are charged and rolled back; with the backend's form
   the admin's queries fail (`AdminSchema`). Amounts are compared as text:
   full refunds are refused, 2 of 20.00 is noted as full
   (`A/payments/payments.service.ts:79`). A lost answer or a death leaves paid
   or refunded money unnoted (`subscriptions.service.ts:480`). A coupon's limit
   for a company, first day and plans are not looked at (`:104`). Locations
   bought with the subscription do not count for the quota
   (`locations.service.ts:25`), and an edit that switches a location on escapes
   it.
10. **Prices.** Seats added to a yearly subscription cost one month's fee for
    the days that remain of 365 (`subscriptions.service.ts:789`); no employee
    beyond the last tier costs anything; a comment says `Math.ceil`, the code
    rounds (`pricing.constant.ts:89`, `:118`).
11. **Sessions.** A refresh that had read the row undoes a logout
    (`auth.service.ts:343`). The first refresh after a social registration
    fails; the mobile client's refresh always does. After a logout older
    unexpired access tokens are accepted until they expire. A wrong password on
    the login page goes through the refresh interceptor.
12. **Lock and recovery.** A death between INCR and EXPIRE leaves a counter that
    never expires (`login-lock.service.ts:83`); a login that finishes late takes
    a lock away; without Redis there is no lock. Overlapping requests leave two
    usable links, and a link may be used twice (`auth.service.ts:465`).
13. **Vacations.** Overlapping decisions lose an update of the used days (`:331`)
    or decide over a cancellation (`:176`); a death between the two saves leaves
    the balance behind; several pending requests pass the same check (`:129`).
14. **Rosters and swaps.** `approve` exchanges whoever holds the shifts now, not
    the parties (`shift-swap.service.ts:305`); with an assignment deleted it
    approves and exchanges nothing (`:302`); two overlapping creations offer
    one shift twice (`:105`); a rejected cover goes back on the board. A
    published roster's duties can be changed; overlapping batches write a duty
    twice (`shift-schedule.service.ts:202`); so does `approve`, which gives an
    employee a second duty on a date without looking for the first and without
    an index against it (`shift-swap.service.ts:302`). A cover stores whatever
    target the client sends (`:133`), so one on the board may have a target
    before anybody volunteers; edits undo an exchange approved
    meanwhile (`:217`).
15. **Approvals.** A second click of one approver, finishing late, writes the
    steps back as it read them: a later approval is lost, an approved and
    sealed document can be in progress again. A cancellation that overlaps the
    final approval leaves a cancelled document whose change was applied. A
    process that dies after the final approval leaves it unsealed and
    removable, or unapplied (`approvals.service.ts:200`). An update that
    overlaps the submission rewrites the line of a document in progress
    (`:135`). A line that does not start at 1 waits for nobody, as the document
    is at 1 whatever the numbers (`:154`). A request to change permissions is in
    progress before it has a line (`users.service.ts:342`). The seal's comment
    that any change invalidates it (`document-seal.service.ts:19`) is not so:
    title `A|B` with content `C` hashes like title `A` with content `B|C`, and
    a missing comment like an empty one (`:34`, `:45`).
    Verification may fail a genuine seal when two steps have one number, as the
    order of equal numbers is the database's.
16. **Saves that undo.** Overlapping edits un-delete or overwrite tasks
    (`tasks.service.ts:224`), teams, files, messages, licences, rosters,
    salaries, events, contracts and locations; saving answers may revert a
    submission (`evaluations.service.ts:273`); members of a team and of its
    channel can differ (`teams.service.ts:292`). An UPDATE between the SELECT
    and the UPDATE of another save leaves columns of both: a confirmed salary
    with a date of payment (`salary.service.ts:272`, `:283`), a disputed handover
    that the taker signed (`shift-schedule.service.ts:549`), a deleted message
    with its text (`collaboration.service.ts:382`, `:420`), an evaluation
    in progress with a score (`evaluations.service.ts:273`, `:295`), a
    draft roster with a date of publication (`shift-schedule.service.ts:152`,
    `:181`), and a confirmed, deleted file whose object is purged
    (`files.service.ts:117`, `:165`).
17. **Invitations.** Two at once use one place of a link
    (`users.service.ts:694`); the outcome of the conditional UPDATE of
    `joinViaLink` is not looked at; `resend` revives any invitation (`:591`).
18. **Calendar.** A death between approval and share leaves an approved request
    without a share; overlapping decisions make two
    (`calendar.service.ts:374`); share, revoke, share, share makes two active
    shares, of which one revocation ends one. An event that a message made can
    be removed; the message keeps its link (`calendar.service.ts:218`).
19. **Notifications.** With a token that is not Expo's, or a second chunk, the
    wrong device is switched off (`push.processor.ts:71`); a retry sends again
    what was sent. The hours of silence are shifted twice on a server whose
    clock is not UTC.
20. **The rest.** A removed salary can never be made again (its unique
    constraint counts it). Quotas of files count confirmed ones only, and
    uploads never confirmed are never removed. A check-out overlapped by the
    creation of its task loses the link, and so does a handler that ends between
    the task and the link (`field-visits.service.ts:226`); several visits on
    different dates can be open. `feature-modules` stops at a row of another source, and lets an
    owner switch on what the plan has not.

## Not modelled

`PROJECT.json` lists each part with its reason. The largest by far are the web,
admin and mobile clients: their pages render rows and call the handlers, which
the models let be called in any order; what of them keeps state across calls,
the interceptors and the stored tokens, is in `Sessions`. They are most of the
lines of the repository and the reason why the specifications stand for a tenth
of them. Training stores a capacity and never enforces it; tax documents, reports,
search and analytics only read; settings, plans, coupons' texts, marketing and
HR notes are single rows, last write wins; migrations run once. Inside the
modelled components: reads and lists, texts, notifications sent after a commit
and caught, distances, lateness and wages, invoices as documents.

## What is left

- An abstract `Decision`, a request decided once, implemented by `ShiftSwap`,
  `Vacations` and `Approvals` when handlers do not overlap.
- `Billing` and `Lifecycle` joined by a refinement: the backend's renewal as
  one step is justified by the row lock in words only.
- Availability of employees, settings and the checks of roles.
