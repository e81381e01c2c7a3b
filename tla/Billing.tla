------------------------------ MODULE Billing ------------------------------
(***************************************************************************)
(* The subscription of one company and the money taken for it: the         *)
(* handlers of subscriptions.service.ts, the renewal timer of              *)
(* subscription-billing-cron.service.ts (one in every backend replica) and *)
(* the payment gateway they call.                                          *)
(*                                                                         *)
(* Time is relative: periodEnd and nextBilling are half days from now.     *)
(* The timers fire at the instant "04:00" and take the lock later in the   *)
(* "day", so an instant of today plus 24 hours lies one half day after     *)
(* tomorrow's 04:00.  Extra locations and add-ons follow the seat    *)
(* operations line by line and are not repeated.  basic and pro are one    *)
(* paid plan: only "free costs nothing" matters here.                      *)
(***************************************************************************)
EXTENDS Integers, FiniteSets

CONSTANTS
  Requests,      \* HTTP requests that may be in flight together
  Replicas,      \* backend processes, each with its renewal timer
  Methods,       \* payment_methods.id
  None,          \* null
  MaxEmployees,  \* plans.max_employees of the paid plan
  Period,        \* length of a billing period, in half days
  Overdue,       \* bound: dates further in the past are not told apart
  GatewayAnswers \* what a call of Toss may come to: see Gateway

MAX_RETRY == 3
DAY == 2
RETRY_INTERVAL == DAY   \* RETRY_INTERVAL_HOURS = 24

ASSUME ActorAssumption == Replicas \cap Requests = {} /\ None \notin Requests \cup Replicas \cup Methods
ASSUME SizeAssumption == MaxEmployees \in Nat \ {0} /\ Period \in Nat \ {0} /\ Overdue \in Nat

Actors == Requests \cup Replicas
Seats == 1 .. MaxEmployees

\* paid: charged and told so.  declined: not charged.  lost: charged, but the
\* answer never arrived (chargeToss maps a network error to success: false).
\* crash: charged, and the process dies before its transaction commits.
Gateway == {"paid", "declined", "lost", "crash"}
ASSUME GatewayAssumption == GatewayAnswers \subseteq Gateway

VARIABLES
  sub,      \* the row of subscriptions
  methods,  \* active payment methods of the company
  lock,     \* holder of the lock on the row
  clock,    \* "04:00" or "day"
  due,      \* replicas whose timer has not fired yet today
  pc,       \* where each handler is suspended
  local,    \* what it carries in its local variables
  paidSeats,  \* seat_count of the newest payments row (history variable)
  unmatched,  \* renewal charges of Toss since one was recorded: 0, 1, several = 2
  orphans     \* some charge of Toss has no payments row (history)

history == <<paidSeats, unmatched, orphans>>
vars == <<sub, methods, lock, clock, due, pc, local, history>>

Statuses == {"trialing", "active", "past_due", "canceled"}
Plans == {"free", "paid"}

Steps == {"idle",
          "selected",       \* renewal: in the batch read at 04:00
          "renewing",       \* renewal: holds the lock, Toss is being called
          "renewed",        \* renewal: charged, about to commit
          "renewalFailed",  \* renewal: rolled back, handleFailure is next
          "upgrading",      \* upgrade: Toss is being called, no lock
          "upgraded",       \* upgrade: charged, its transaction is next
          "addingSeats",    \* addSeats: holds the lock, Toss is being called
          "seatsPaid",      \* addSeats: charged, about to commit
          "deleting"}       \* deletePaymentMethod: checked, UPDATE is next

NoLocal == [plan |-> "free", method |-> None, seats |-> 1, until |-> 0, retry |-> 0]

Init ==
  /\ sub = [plan |-> "paid", status |-> "trialing", autoRenew |-> TRUE,
            cancelAtPeriodEnd |-> FALSE, method |-> None, periodEnd |-> Period,
            nextBilling |-> Period, seats |-> 1, pending |-> None, retry |-> 0]
  /\ methods = {}
  /\ lock = None
  /\ clock = "day"
  /\ due = {}
  /\ pc = [a \in Actors |-> "idle"]
  /\ local = [a \in Actors |-> NoLocal]
  /\ paidSeats = 0
  /\ unmatched = 0
  /\ orphans = FALSE

Goto(a, step) == pc' = [pc EXCEPT ![a] = step]

Return(a) ==
  /\ Goto(a, "idle")
  /\ local' = [local EXCEPT ![a] = NoLocal]

\* An UPDATE of the row waits while a transaction holds its lock.
Unlocked == lock = None

\* COMMIT and ROLLBACK give the lock back, if the handler holds it.
Unlock(a) == lock' = IF lock = a THEN None ELSE lock

-----------------------------------------------------------------------------
(***************************************************************************)
(* runAutoRenewal: one SELECT at 04:00, then processRenewal row by row.    *)
(***************************************************************************)
IsDue == sub.nextBilling <= 0

Renewable ==
  /\ sub.status \in {"active", "past_due"}
  /\ sub.autoRenew
  /\ ~sub.cancelAtPeriodEnd
  /\ sub.retry < MAX_RETRY
  /\ sub.method \in methods

\* Mutant: past_due is never retried.
SelectsActive == Renewable /\ sub.status = "active" /\ IsDue
Selects == Renewable /\ IsDue

RenewalSelect(k) ==
  /\ clock = "04:00"
  /\ k \in due
  /\ due' = due \ {k}
  /\ IF Selects
       THEN /\ Goto(k, "selected")
            /\ local' = [local EXCEPT ![k] =
                 [plan |-> sub.plan, method |-> sub.method, seats |-> sub.seats,
                  until |-> sub.periodEnd, retry |-> sub.retry]]
       ELSE UNCHANGED <<pc, local>>
  /\ UNCHANGED <<sub, methods, lock, clock, history>>

EffectiveSeats == IF sub.pending # None THEN sub.pending ELSE sub.seats

\* Mutant: the pending decrease is charged but not written.
RenewWithoutDecrease(k, seats) ==
  /\ sub' = [sub EXCEPT !.status = "active",
                        !.periodEnd = local[k].until + Period,
                        !.nextBilling = local[k].until + Period,
                        !.pending = None, !.retry = 0]
  /\ paidSeats' = seats
  /\ unmatched' = 0
  /\ UNCHANGED orphans

\* handleSuccessInTransaction: the new period follows the one read at 04:00.
Renew(k, seats) ==
  /\ sub' = [sub EXCEPT !.status = "active",
                        !.periodEnd = local[k].until + Period,
                        !.nextBilling = local[k].until + Period,
                        !.seats = seats, !.pending = None, !.retry = 0]
  /\ paidSeats' = seats
  /\ unmatched' = 0
  /\ UNCHANGED orphans

\* Mutants: no NOWAIT lock; no look at the row again under the lock.
MayRenewUnlocked == IsDue
MayRenewBlindly == Unlocked
MayRenew == Unlocked /\ IsDue

\* FOR UPDATE NOWAIT, the re-check, and the call of Toss unless nothing is owed.
RenewalLock(k) ==
  /\ pc[k] = "selected"
  /\ clock = "day"
  /\ \/ /\ ~MayRenew
        /\ Return(k)
        /\ UNCHANGED <<sub, lock, history>>
     \/ /\ MayRenew
        /\ local[k].plan = "paid"
        /\ lock' = k
        /\ local' = [local EXCEPT ![k].seats = EffectiveSeats]
        /\ Goto(k, "renewing")
        /\ UNCHANGED <<sub, history>>
     \/ /\ MayRenew
        /\ local[k].plan = "free"
        /\ Renew(k, EffectiveSeats)
        /\ Return(k)
        /\ UNCHANGED lock
  /\ UNCHANGED <<methods, clock, due>>

RenewalCommit(k) ==
  /\ pc[k] = "renewed"
  /\ Renew(k, local[k].seats)
  /\ Unlock(k)
  /\ Return(k)
  /\ UNCHANGED <<methods, clock, due>>

\* handleFailure: outside the transaction, from the values read at 04:00.
RenewalFailure(k) ==
  LET failures == local[k].retry + 1 IN
  /\ pc[k] = "renewalFailed"
  /\ Unlocked
  /\ sub' = [sub EXCEPT !.status = "past_due",
                        !.retry = failures,
                        !.nextBilling = IF failures >= MAX_RETRY THEN @ ELSE RETRY_INTERVAL]
  /\ Return(k)
  /\ UNCHANGED <<methods, lock, clock, due, history>>

-----------------------------------------------------------------------------
(***************************************************************************)
(* upgrade: Toss is called before and outside the transaction.             *)
(***************************************************************************)
UpgradeStart(r, m, n) ==
  /\ pc[r] = "idle"
  /\ m \in methods
  /\ local' = [local EXCEPT ![r] = [plan |-> "paid", method |-> m, seats |-> n,
                                    until |-> Period, retry |-> 0]]
  /\ Goto(r, "upgrading")
  /\ UNCHANGED <<sub, methods, lock, clock, due, history>>

\* Mutant: the next billing date is not moved.
UpgradeKeepingBillingDate(r) ==
  /\ pc[r] = "upgraded"
  /\ Unlocked
  /\ sub' = [sub EXCEPT !.plan = "paid", !.status = "active",
                        !.autoRenew = TRUE, !.cancelAtPeriodEnd = FALSE,
                        !.method = local[r].method,
                        !.periodEnd = local[r].until,
                        !.seats = local[r].seats]
  /\ paidSeats' = local[r].seats
  /\ Return(r)
  /\ UNCHANGED <<methods, lock, clock, due, unmatched, orphans>>

\* Neither the pending change nor the retry counter is reset.
UpgradeCommit(r) ==
  /\ pc[r] = "upgraded"
  /\ Unlocked
  /\ sub' = [sub EXCEPT !.plan = "paid", !.status = "active",
                        !.autoRenew = TRUE, !.cancelAtPeriodEnd = FALSE,
                        !.method = local[r].method,
                        !.periodEnd = local[r].until, !.nextBilling = local[r].until,
                        !.seats = local[r].seats]
  /\ paidSeats' = local[r].seats
  /\ Return(r)
  /\ UNCHANGED <<methods, lock, clock, due, unmatched, orphans>>

-----------------------------------------------------------------------------
(***************************************************************************)
(* Seats.                                                                  *)
(***************************************************************************)
\* On the last date of the period no day remains and the prorated price is 0.
MayCostNothing == sub.periodEnd <= DAY
MayCostMoney == sub.periodEnd > 0

SeatsMayGrow(n) ==
  /\ sub.status \in {"active", "trialing"}
  /\ sub.plan # "free"
  /\ n > sub.seats

AddSeatsFree(n) ==
  /\ Unlocked
  /\ SeatsMayGrow(n)
  /\ MayCostNothing
  /\ sub' = [sub EXCEPT !.seats = n]
  /\ UNCHANGED <<methods, lock, clock, due, pc, local, history>>

AddSeatsStart(r, m, n) ==
  /\ pc[r] = "idle"
  /\ Unlocked
  /\ SeatsMayGrow(n)
  /\ MayCostMoney
  /\ m \in methods
  /\ lock' = r
  /\ local' = [local EXCEPT ![r] = [NoLocal EXCEPT !.method = m, !.seats = n]]
  /\ Goto(r, "addingSeats")
  /\ UNCHANGED <<sub, methods, clock, due, history>>

AddSeatsCommit(r) ==
  /\ pc[r] = "seatsPaid"
  /\ sub' = [sub EXCEPT !.seats = local[r].seats]
  /\ paidSeats' = local[r].seats
  /\ Unlock(r)
  /\ Return(r)
  /\ UNCHANGED <<methods, clock, due, unmatched, orphans>>

ScheduleSeatDecrease(n) ==
  /\ Unlocked
  /\ n < sub.seats
  /\ sub' = [sub EXCEPT !.pending = n]
  /\ UNCHANGED <<methods, lock, clock, due, pc, local, history>>

CancelScheduledChanges ==
  /\ Unlocked
  /\ sub' = [sub EXCEPT !.pending = None]
  /\ UNCHANGED <<methods, lock, clock, due, pc, local, history>>

-----------------------------------------------------------------------------
(***************************************************************************)
(* The other handlers: one statement, or one short transaction.            *)
(***************************************************************************)
\* The company has at most one employee left.  The nominal year is a Period.
DowngradeToFree ==
  /\ Unlocked
  /\ sub.plan # "free"
  /\ sub' = [sub EXCEPT !.plan = "free", !.status = "active", !.seats = 1,
                        !.periodEnd = Period, !.nextBilling = Period,
                        !.pending = None, !.retry = 0, !.cancelAtPeriodEnd = FALSE]
  /\ UNCHANGED <<methods, lock, clock, due, pc, local, history>>

Cancel(atPeriodEnd) ==
  /\ Unlocked
  /\ sub.status # "canceled"
  /\ sub' = [sub EXCEPT !.cancelAtPeriodEnd = atPeriodEnd,
                        !.status = IF atPeriodEnd THEN @ ELSE "canceled"]
  /\ UNCHANGED <<methods, lock, clock, due, pc, local, history>>

ToggleAutoRenew ==
  /\ Unlocked
  /\ sub.status # "canceled"
  /\ sub' = [sub EXCEPT !.autoRenew = ~@]
  /\ UNCHANGED <<methods, lock, clock, due, pc, local, history>>

IssueBillingKey(m) ==
  /\ m \notin methods
  /\ methods' = methods \cup {m}
  /\ UNCHANGED <<sub, lock, clock, due, pc, local, history>>

\* deletePaymentMethod: the check, then the UPDATE of payment_methods.
DeletePaymentMethod(r, m) ==
  /\ pc[r] = "idle"
  /\ m \in methods
  /\ ~(sub.method = m /\ sub.status = "active")
  /\ local' = [local EXCEPT ![r].method = m]
  /\ Goto(r, "deleting")
  /\ UNCHANGED <<sub, methods, lock, clock, due, history>>

DeactivateMethod(r) ==
  /\ pc[r] = "deleting"
  /\ methods' = methods \ {local[r].method}
  /\ Return(r)
  /\ UNCHANGED <<sub, lock, clock, due, history>>

-----------------------------------------------------------------------------
(***************************************************************************)
(* chargeToss and what its caller does with the answer.                    *)
(***************************************************************************)
Charging == {"renewing", "upgrading", "addingSeats"}
Paid(step) == CASE step = "renewing" -> "renewed"
                [] step = "upgrading" -> "upgraded"
                [] step = "addingSeats" -> "seatsPaid"

Charged(a) ==
  unmatched' = IF pc[a] = "renewing" /\ unmatched < 2 THEN unmatched + 1 ELSE unmatched

GatewayPays(a) ==
  /\ pc[a] \in Charging
  /\ "paid" \in GatewayAnswers
  /\ Charged(a)
  /\ Goto(a, Paid(pc[a]))
  /\ UNCHANGED <<sub, methods, lock, clock, due, local, paidSeats, orphans>>

\* success: false rolls the transaction back; a renewal goes on to handleFailure.
GatewayFails(a) ==
  /\ pc[a] \in Charging
  /\ \/ /\ "declined" \in GatewayAnswers
        /\ UNCHANGED <<unmatched, orphans>>
     \/ /\ "lost" \in GatewayAnswers
        /\ Charged(a)
        /\ orphans' = TRUE
  /\ Unlock(a)
  /\ IF pc[a] = "renewing"
       THEN Goto(a, "renewalFailed") /\ UNCHANGED local
       ELSE Return(a)
  /\ UNCHANGED <<sub, methods, clock, due, paidSeats>>

\* The process dies, or the transaction cannot commit, after the charge.
CrashAfterCharge(a) ==
  /\ pc[a] \in {"renewed", "upgraded", "seatsPaid"}
  /\ "crash" \in GatewayAnswers
  /\ orphans' = TRUE
  /\ Unlock(a)
  /\ Return(a)
  /\ UNCHANGED <<sub, methods, clock, due, paidSeats, unmatched>>

-----------------------------------------------------------------------------
(***************************************************************************)
(* The clock.                                                              *)
(***************************************************************************)
Earlier(t) == IF t > -Overdue THEN t - 1 ELSE t

HalfDayPasses ==
  /\ sub' = [sub EXCEPT !.periodEnd = Earlier(@), !.nextBilling = Earlier(@)]
  /\ local' = [a \in Actors |-> [local[a] EXCEPT !.until =
                 IF pc[a] = "idle" THEN @ ELSE Earlier(@)]]
  /\ UNCHANGED <<methods, lock, pc, history>>

\* A renewal run and a request take minutes: they are over before the next
\* 04:00.  What is in flight together with a renewal starts at 04:00 or later.
FourOClock ==
  /\ clock = "day"
  /\ \A a \in Actors : pc[a] = "idle"
  /\ clock' = "04:00"
  /\ due' = Replicas
  /\ HalfDayPasses

DayGoesOn ==
  /\ clock = "04:00"
  /\ due = {}
  /\ clock' = "day"
  /\ UNCHANGED due
  /\ HalfDayPasses

RenewalStep(k) ==
  \/ RenewalSelect(k) \/ RenewalLock(k) \/ RenewalCommit(k) \/ RenewalFailure(k)
  \/ GatewayPays(k) \/ GatewayFails(k)

RequestStep(r) ==
  \/ \E m \in Methods, n \in Seats : UpgradeStart(r, m, n) \/ AddSeatsStart(r, m, n)
  \/ UpgradeCommit(r)
  \/ AddSeatsCommit(r)
  \/ \E m \in Methods : DeletePaymentMethod(r, m)
  \/ DeactivateMethod(r)
  \/ GatewayPays(r)
  \/ GatewayFails(r)

OwnerStep ==
  \/ \E n \in Seats : AddSeatsFree(n) \/ ScheduleSeatDecrease(n)
  \/ CancelScheduledChanges
  \/ DowngradeToFree
  \/ \E atPeriodEnd \in BOOLEAN : Cancel(atPeriodEnd)
  \/ ToggleAutoRenew
  \/ \E m \in Methods : IssueBillingKey(m)

Next ==
  \/ \E k \in Replicas : RenewalStep(k)
  \/ \E r \in Requests : RequestStep(r)
  \/ \E a \in Actors : CrashAfterCharge(a)
  \/ OwnerStep
  \/ FourOClock
  \/ DayGoesOn

Spec == Init /\ [][Next]_vars

\* Toss answers, a suspended handler is resumed, and the clock does not stop:
\* 04:00 comes however often requests are in flight, hence SF.
Fairness ==
  /\ SF_vars(FourOClock) /\ WF_vars(DayGoesOn)
  /\ \A k \in Replicas : WF_vars(RenewalStep(k))
  /\ \A r \in Requests :
       WF_vars(UpgradeCommit(r) \/ AddSeatsCommit(r) \/ DeactivateMethod(r)
               \/ GatewayPays(r) \/ GatewayFails(r))

FairSpec == Spec /\ Fairness

-----------------------------------------------------------------------------
(***************************************************************************)
(* Safety.                                                                 *)
(***************************************************************************)
SubType ==
  [plan : Plans, status : Statuses, autoRenew : BOOLEAN, cancelAtPeriodEnd : BOOLEAN,
   method : Methods \cup {None}, periodEnd : Int, nextBilling : Int,
   seats : Seats, pending : Seats \cup {None}, retry : 0 .. MAX_RETRY]

LocalType ==
  [plan : Plans, method : Methods \cup {None}, seats : Seats, until : Int, retry : 0 .. MAX_RETRY - 1]

\* Types.  The bound of the retry counter says that the batch query and the
\* failure handler agree on MAX_RETRY: nobody counts a fourth failure.
TypeOK ==
  /\ sub \in SubType
  /\ methods \subseteq Methods
  /\ lock \in Actors \cup {None}
  /\ clock \in {"04:00", "day"}
  /\ due \subseteq Replicas
  /\ pc \in [Actors -> Steps]
  /\ local \in [Actors -> LocalType]
  /\ paidSeats \in Seats \cup {0}
  /\ unmatched \in 0 .. 2
  /\ orphans \in BOOLEAN

\* What the re-read under FOR UPDATE NOWAIT is for (processRenewal): while Toss
\* is being charged for a renewal, and until it commits, the row is locked by
\* this replica, still due, and still asks for the seats that are charged,
\* whatever the owner and the other replica do meanwhile.
ChargeIsCurrent ==
  \A k \in Replicas : pc[k] \in {"renewing", "renewed"} =>
    lock = k /\ IsDue /\ local[k].seats = EffectiveSeats

\* Two replicas select the same batch, but no second renewal is charged before
\* the first one is recorded - unless the record of a charge was lost.
OneChargeAtATime == unmatched <= 1 \/ orphans

\* The seats a paying company may fill are those of its newest payment.  Only
\* seats added on the last day, whose prorated price is 0, wait for the renewal.
SeatsArePaid ==
  sub.plan = "paid" /\ sub.status \in {"active", "past_due"} /\ sub.periodEnd > DAY
    => sub.seats = paidSeats

\* An active subscription is billed when its period ends; one with failed
\* attempts is tried again within RETRY_INTERVAL, until the attempts are used up.
BillingDateFollowsPeriod ==
  /\ sub.status = "active" => sub.nextBilling = sub.periodEnd
  /\ sub.status = "past_due" /\ sub.retry < MAX_RETRY
       => sub.retry > 0 /\ sub.nextBilling <= RETRY_INTERVAL

-----------------------------------------------------------------------------
(***************************************************************************)
(* Liveness.                                                               *)
(***************************************************************************)
\* What the batch of 04:00 is for: a due subscription that may be renewed is
\* renewed into the future, or stops being renewable (three failures count as
\* that), unless a seat purchase is in flight: NOWAIT gives way to it.
DueIsSettled ==
  Renewable /\ IsDue ~> ~Renewable \/ ~IsDue \/ lock \in Requests
=============================================================================
