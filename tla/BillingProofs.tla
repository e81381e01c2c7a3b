--------------------------- MODULE BillingProofs ----------------------------
(* What holds of the subscription of a company, for any number of replicas,  *)
(* requests, payment methods and seats, whatever Toss answers.               *)
EXTENDS Billing, TLAPS

\* Which steps a renewal and which a request may be suspended at.
RenewalSteps == {"idle", "selected", "renewing", "renewed", "renewalFailed"}
RequestSteps == {"idle", "upgrading", "upgraded", "addingSeats", "seatsPaid", "deleting"}
Places ==
  /\ \A k \in Replicas : pc[k] \in RenewalSteps
  /\ \A r \in Requests : pc[r] \in RequestSteps

\* Who charges for a row holds its lock; nobody does at 04:00 sharp.
Locked ==
  /\ \A a \in Actors : pc[a] \in {"renewing", "renewed", "addingSeats", "seatsPaid"} => lock = a
  /\ clock = "04:00" => \A k \in Replicas : pc[k] \in {"idle", "selected"}

\* Unless a record was lost, what is charged and not recorded is one renewal that
\* is about to commit.
ChargeRecorded ==
  \/ orphans
  \/ unmatched = 0
  \/ unmatched = 1 /\ \E k \in Replicas : pc[k] = "renewed"

\* The seats of whoever pays, or has canceled while a renewal is under way that
\* may make a debtor of him again.
Owing == \E k \in Replicas : pc[k] # "idle"
SeatsStayPaid ==
  /\ sub.plan = "paid" /\ sub.periodEnd > DAY
     /\ (sub.status \in {"active", "past_due"} \/ (sub.status = "canceled" /\ Owing))
       => sub.seats = paidSeats
  /\ sub.status = "trialing" => ~Owing

IInv ==
  /\ TypeOK /\ Places /\ Locked /\ ChargeIsCurrent
  /\ ChargeRecorded /\ SeatsStayPaid /\ BillingDateFollowsPeriod

USE ActorAssumption, SizeAssumption

LEMMA Numbers ==
  /\ 0 \in 0 .. MAX_RETRY /\ 0 \in 0 .. MAX_RETRY - 1
  /\ 1 \in Seats /\ Period \in Int /\ 0 \in Int
  /\ RETRY_INTERVAL \in Int /\ DAY = 2 /\ RETRY_INTERVAL = 2 /\ MAX_RETRY = 3
  BY DEF DAY, RETRY_INTERVAL, MAX_RETRY, Seats

LEMMA NoLocalType == NoLocal \in LocalType
  BY Numbers DEF NoLocal, LocalType, Plans

LEMMA InitIInv == Init => IInv
<1> SUFFICES ASSUME Init PROVE IInv
  OBVIOUS
<1>1. TypeOK
  <2>1. sub \in SubType
    BY Numbers DEF Init, SubType, Plans, Statuses
  <2>2. local \in [Actors -> LocalType] /\ pc \in [Actors -> Steps]
    BY NoLocalType DEF Init, Steps
  <2>3. lock \in Actors \cup {None} /\ paidSeats \in Seats \cup {0}
    BY DEF Init
  <2>4. unmatched \in 0 .. 2 /\ clock \in {"04:00", "day"}
    BY DEF Init
  <2>7. orphans \in BOOLEAN
    BY Zenon DEF Init
  <2>5. methods \subseteq Methods /\ due \subseteq Replicas
    BY DEF Init
  <2>6. QED
    BY <2>1, <2>2, <2>3, <2>4, <2>5, <2>7 DEF TypeOK
<1>2. Places /\ Locked /\ ChargeIsCurrent
  BY DEF Init, Places, Locked, ChargeIsCurrent, RenewalSteps, RequestSteps, Actors
<1>3. ChargeRecorded /\ SeatsStayPaid /\ BillingDateFollowsPeriod
  BY DEF Init, ChargeRecorded, SeatsStayPaid, Owing, BillingDateFollowsPeriod, Actors
<1>4. QED
  BY <1>1, <1>2, <1>3 DEF IInv

\* The steps, with what they are made of expanded.
LEMMA Disjuncts ==
  ASSUME Next
  PROVE  \/ \E k \in Replicas : \/ RenewalSelect(k) \/ RenewalLock(k) \/ RenewalCommit(k)
                                \/ RenewalFailure(k)
         \/ \E r \in Requests : \/ UpgradeCommit(r) \/ AddSeatsCommit(r) \/ DeactivateMethod(r)
                                \/ \E m \in Methods : DeletePaymentMethod(r, m)
                                \/ \E m \in Methods, n \in Seats :
                                     UpgradeStart(r, m, n) \/ AddSeatsStart(r, m, n)
         \/ \E a \in Actors : GatewayPays(a) \/ GatewayFails(a) \/ CrashAfterCharge(a)
         \/ OwnerStep \/ FourOClock \/ DayGoesOn
  BY DEF Next, RenewalStep, RequestStep, Actors

LEMMA EffectiveSeatsType == TypeOK => EffectiveSeats \in Seats
  BY DEF TypeOK, SubType, EffectiveSeats

LEMMA RenewType ==
  ASSUME TypeOK, NEW k \in Replicas, NEW seats \in Seats, Renew(k, seats)
  PROVE  sub' \in SubType /\ paidSeats' \in Seats /\ unmatched' = 0 /\ orphans' = orphans
<1>1. PICK u \in Int : u = local[k].until + Period
  BY Numbers DEF TypeOK, LocalType, Actors
<1>2. sub' \in SubType
  BY <1>1, Numbers DEF TypeOK, SubType, Renew, Statuses
<1>3. QED
  BY <1>2 DEF Renew

LEMMA TypeStep ==
  ASSUME TypeOK, Places, [Next]_vars
  PROVE  TypeOK' /\ Places'
<1> USE DEF TypeOK, Places
<1>1. ASSUME NEW k \in Replicas, RenewalSelect(k) PROVE TypeOK' /\ Places'
  <2>1. CASE Selects
    <3>1. sub.retry \in 0 .. MAX_RETRY - 1
      BY <2>1, Numbers DEF Selects, Renewable, SubType
    <3>2. [plan |-> sub.plan, method |-> sub.method, seats |-> sub.seats,
           until |-> sub.periodEnd, retry |-> sub.retry] \in LocalType
      BY <3>1 DEF SubType, LocalType
    <3>3. QED
      BY <1>1, <2>1, <3>2 DEF RenewalSelect, Goto, Steps, RenewalSteps, RequestSteps, Actors, history
  <2>2. CASE ~Selects
    BY <1>1, <2>2 DEF RenewalSelect, history
  <2>3. QED
    BY <2>1, <2>2
<1>2. ASSUME NEW k \in Replicas, RenewalLock(k) PROVE TypeOK' /\ Places'
  <2>1. EffectiveSeats \in Seats
    BY EffectiveSeatsType
  <2>2. CASE ~MayRenew
    BY <1>2, <2>2, NoLocalType DEF RenewalLock, Return, Goto, Steps, RenewalSteps, RequestSteps, Actors, history
  <2>3. CASE MayRenew /\ local[k].plan = "paid"
    BY <1>2, <2>1, <2>3 DEF RenewalLock, Goto, LocalType, Steps, RenewalSteps, RequestSteps, Actors, history
  <2>4. CASE MayRenew /\ local[k].plan = "free"
    <3>1. sub' \in SubType /\ paidSeats' \in Seats /\ unmatched' = 0 /\ orphans' = orphans
      BY <1>2, <2>1, <2>4, RenewType DEF RenewalLock
    <3>2. QED
      BY <1>2, <2>4, <3>1, NoLocalType DEF RenewalLock, Return, Goto, Steps, RenewalSteps, RequestSteps, Actors
  <2>5. QED
    BY <1>2, <2>2, <2>3, <2>4 DEF RenewalLock
<1>3. ASSUME NEW k \in Replicas, RenewalCommit(k) PROVE TypeOK' /\ Places'
  <2>1. sub' \in SubType /\ paidSeats' \in Seats /\ unmatched' = 0 /\ orphans' = orphans
    BY <1>3, RenewType DEF RenewalCommit, LocalType, Actors
  <2>2. QED
    BY <1>3, <2>1, NoLocalType DEF RenewalCommit, Unlock, Return, Goto, Steps, RenewalSteps, RequestSteps, Actors
<1>4. ASSUME NEW k \in Replicas, RenewalFailure(k) PROVE TypeOK' /\ Places'
  <2>1. sub' \in SubType
    <3>1. PICK failures \in 0 .. MAX_RETRY : failures = local[k].retry + 1
      BY Numbers DEF LocalType, Actors
    <3>2. PICK next \in Int : next = IF failures >= MAX_RETRY THEN sub.nextBilling ELSE RETRY_INTERVAL
      BY Numbers DEF SubType
    <3>3. sub' = [sub EXCEPT !.status = "past_due", !.retry = failures, !.nextBilling = next]
      BY <1>4, <3>1, <3>2 DEF RenewalFailure
    <3>4. QED
      BY <3>3 DEF SubType, Statuses
  <2>2. QED
    BY <1>4, <2>1, NoLocalType DEF RenewalFailure, Return, Goto, Steps, RenewalSteps, RequestSteps, Actors, history
<1>5. ASSUME NEW r \in Requests, NEW m \in Methods, NEW n \in Seats,
             UpgradeStart(r, m, n) \/ AddSeatsStart(r, m, n)
      PROVE  TypeOK' /\ Places'
  <2>1. local' \in [Actors -> LocalType]
    <3>1. /\ [plan |-> "paid", method |-> m, seats |-> n, until |-> Period, retry |-> 0] \in LocalType
          /\ [NoLocal EXCEPT !.method = m, !.seats = n] \in LocalType
      BY NoLocalType, Numbers DEF LocalType, Plans
    <3>2. QED
      BY <1>5, <3>1 DEF UpgradeStart, AddSeatsStart
  <2>2. QED
    BY <1>5, <2>1 DEF UpgradeStart, AddSeatsStart, Goto, Steps, RenewalSteps, RequestSteps, Actors, history
<1>6. ASSUME NEW r \in Requests, UpgradeCommit(r) \/ AddSeatsCommit(r) PROVE TypeOK' /\ Places'
  <2>1. sub' \in SubType /\ paidSeats' \in Seats
    <3>1. local[r] \in LocalType
      BY DEF Actors
    <3>2. CASE UpgradeCommit(r)
      BY <3>1, <3>2 DEF UpgradeCommit, SubType, LocalType, Plans, Statuses
    <3>3. CASE AddSeatsCommit(r)
      BY <3>1, <3>3 DEF AddSeatsCommit, SubType, LocalType
    <3>4. QED
      BY <1>6, <3>2, <3>3
  <2>2. QED
    BY <1>6, <2>1, NoLocalType DEF UpgradeCommit, AddSeatsCommit, Unlock, Return, Goto, Steps, RenewalSteps, RequestSteps, Actors
<1>7. ASSUME NEW r \in Requests, DeactivateMethod(r) \/ \E m \in Methods : DeletePaymentMethod(r, m)
      PROVE  TypeOK' /\ Places'
  <2>1. CASE DeactivateMethod(r)
    BY <2>1, NoLocalType DEF DeactivateMethod, Return, Goto, Steps, RenewalSteps, RequestSteps, Actors, history
  <2>2. ASSUME NEW m \in Methods, DeletePaymentMethod(r, m) PROVE TypeOK' /\ Places'
    <3>1. local' \in [Actors -> LocalType]
      BY <2>2 DEF DeletePaymentMethod, LocalType
    <3>2. QED
      BY <2>2, <3>1 DEF DeletePaymentMethod, Goto, Steps, RenewalSteps, RequestSteps, Actors, history
  <2>3. QED
    BY <1>7, <2>1, <2>2
<1>8. ASSUME NEW a \in Actors, GatewayPays(a) \/ GatewayFails(a) \/ CrashAfterCharge(a)
      PROVE  TypeOK' /\ Places'
  <2>1. CASE GatewayPays(a)
    BY <2>1 DEF GatewayPays, Charging, Paid, Charged, Goto, Steps, RenewalSteps, RequestSteps, Actors
  <2>2. CASE GatewayFails(a)
    <3>1. unmatched' \in 0 .. 2 /\ orphans' \in BOOLEAN
      <4>1. Charged(a) => unmatched' \in 0 .. 2
        BY DEF Charged
      <4>2. QED
        BY <2>2, <4>1 DEF GatewayFails
    <3>2. CASE pc[a] = "renewing"
      BY <2>2, <3>1, <3>2 DEF GatewayFails, Unlock, Goto, Steps, RenewalSteps, RequestSteps, Actors
    <3>3. CASE pc[a] # "renewing"
      BY <2>2, <3>1, <3>3, NoLocalType DEF GatewayFails, Unlock, Return, Goto, Steps, RenewalSteps, RequestSteps, Actors
    <3>4. QED
      BY <3>2, <3>3
  <2>3. CASE CrashAfterCharge(a)
    BY <2>3, NoLocalType DEF CrashAfterCharge, Unlock, Return, Goto, Steps, RenewalSteps, RequestSteps, Actors
  <2>4. QED
    BY <1>8, <2>1, <2>2, <2>3
<1>9. CASE OwnerStep
  <2>1. sub' \in SubType /\ methods' \subseteq Methods
    <3>1. ASSUME NEW n \in Seats, AddSeatsFree(n) \/ ScheduleSeatDecrease(n)
          PROVE  sub' \in SubType /\ methods' = methods
      BY <3>1 DEF AddSeatsFree, ScheduleSeatDecrease, SubType
    <3>2. CASE CancelScheduledChanges
      BY <3>2 DEF CancelScheduledChanges, SubType
    <3>3. CASE DowngradeToFree
      BY <3>3, Numbers DEF DowngradeToFree, SubType, Plans, Statuses
    <3>4. ASSUME NEW atPeriodEnd \in BOOLEAN, Cancel(atPeriodEnd)
          PROVE  sub' \in SubType /\ methods' = methods
      BY <3>4 DEF Cancel, SubType, Statuses
    <3>5. CASE ToggleAutoRenew
      BY <3>5 DEF ToggleAutoRenew, SubType
    <3>6. CASE \E m \in Methods : IssueBillingKey(m)
      BY <3>6 DEF IssueBillingKey
    <3>7. QED
      BY <1>9, <3>1, <3>2, <3>3, <3>4, <3>5, <3>6 DEF OwnerStep
  <2>2. UNCHANGED <<lock, clock, due, pc, local, history>>
    BY <1>9 DEF OwnerStep, AddSeatsFree, ScheduleSeatDecrease, CancelScheduledChanges,
      DowngradeToFree, Cancel, ToggleAutoRenew, IssueBillingKey
  <2>3. QED
    BY <2>1, <2>2 DEF history
<1>10. CASE FourOClock \/ DayGoesOn
  <2>1. HalfDayPasses
    BY <1>10 DEF FourOClock, DayGoesOn
  <2>0. \A t \in Int : Earlier(t) \in Int
    BY DEF Earlier
  <2>2. sub' \in SubType
    BY <2>0, <2>1 DEF HalfDayPasses, SubType
  <2>3. local' \in [Actors -> LocalType]
    BY <2>0, <2>1 DEF HalfDayPasses, LocalType
  <2>4. QED
    BY <1>10, <2>1, <2>2, <2>3 DEF FourOClock, DayGoesOn, HalfDayPasses, history
<1>11. CASE UNCHANGED vars
  BY <1>11 DEF vars, history
<1>12. QED
  BY <1>1, <1>2, <1>3, <1>4, <1>5, <1>6, <1>7, <1>8, <1>9, <1>10, <1>11, Disjuncts

\* What an owner does waits for the lock, and touches nothing but his row and his
\* cards.
LEMMA OwnerFrame ==
  ASSUME OwnerStep
  PROVE  /\ UNCHANGED <<lock, clock, due, pc, local, history>>
         /\ Unlocked \/ UNCHANGED sub
  BY DEF OwnerStep, AddSeatsFree, ScheduleSeatDecrease, CancelScheduledChanges,
    DowngradeToFree, Cancel, ToggleAutoRenew, IssueBillingKey

\* While somebody holds the lock nobody else takes it, and nobody else is
\* charging under it.
LEMMA LockStep ==
  ASSUME TypeOK, Places, Locked, ChargeIsCurrent, [Next]_vars
  PROVE  Locked' /\ ChargeIsCurrent'
<1> USE DEF TypeOK, Places, Locked, ChargeIsCurrent, RenewalSteps, RequestSteps, Actors
<1>1. ASSUME NEW k \in Replicas, RenewalSelect(k) PROVE Locked' /\ ChargeIsCurrent'
  BY <1>1 DEF RenewalSelect, Goto, IsDue, EffectiveSeats
<1>2. ASSUME NEW k \in Replicas, RenewalLock(k) PROVE Locked' /\ ChargeIsCurrent'
  <2>1. CASE ~MayRenew
    BY <1>2, <2>1 DEF RenewalLock, Return, Goto, IsDue, EffectiveSeats
  <2>2. CASE MayRenew /\ local[k].plan = "paid"
    BY <1>2, <2>2 DEF RenewalLock, MayRenew, Unlocked, Goto, IsDue, EffectiveSeats, LocalType
  <2>3. CASE MayRenew /\ local[k].plan = "free"
    BY <1>2, <2>3 DEF RenewalLock, MayRenew, Unlocked, Return, Goto
  <2>4. QED
    BY <1>2, <2>1, <2>2, <2>3 DEF RenewalLock
<1>3. ASSUME NEW k \in Replicas, RenewalCommit(k) PROVE Locked' /\ ChargeIsCurrent'
  BY <1>3 DEF RenewalCommit, Unlock, Return, Goto
<1>4. ASSUME NEW k \in Replicas, RenewalFailure(k) PROVE Locked' /\ ChargeIsCurrent'
  BY <1>4 DEF RenewalFailure, Unlocked, Return, Goto
<1>5. ASSUME NEW r \in Requests, NEW m \in Methods, NEW n \in Seats,
             UpgradeStart(r, m, n) \/ AddSeatsStart(r, m, n)
      PROVE  Locked' /\ ChargeIsCurrent'
  BY <1>5 DEF UpgradeStart, AddSeatsStart, Unlocked, Goto, IsDue, EffectiveSeats
<1>6. ASSUME NEW r \in Requests, UpgradeCommit(r) \/ AddSeatsCommit(r) PROVE Locked' /\ ChargeIsCurrent'
  BY <1>6 DEF UpgradeCommit, AddSeatsCommit, Unlocked, Unlock, Return, Goto
<1>7. ASSUME NEW r \in Requests, DeactivateMethod(r) \/ \E m \in Methods : DeletePaymentMethod(r, m)
      PROVE  Locked' /\ ChargeIsCurrent'
  BY <1>7 DEF DeactivateMethod, DeletePaymentMethod, Return, Goto, IsDue, EffectiveSeats
<1>8. ASSUME NEW a \in Actors, GatewayPays(a) \/ GatewayFails(a) \/ CrashAfterCharge(a)
      PROVE  Locked' /\ ChargeIsCurrent'
  <2>1. CASE GatewayPays(a)
    BY <2>1 DEF GatewayPays, Charging, Paid, Goto, IsDue, EffectiveSeats
  <2>2. CASE GatewayFails(a)
    BY <2>2 DEF GatewayFails, Charging, Unlock, Return, Goto, IsDue, EffectiveSeats
  <2>3. CASE CrashAfterCharge(a)
    BY <2>3 DEF CrashAfterCharge, Unlock, Return, Goto, IsDue, EffectiveSeats
  <2>4. QED
    BY <1>8, <2>1, <2>2, <2>3
<1>9. CASE OwnerStep
  BY <1>9, OwnerFrame DEF Unlocked, IsDue, EffectiveSeats
<1>10. CASE FourOClock \/ DayGoesOn
  BY <1>10 DEF FourOClock, DayGoesOn, HalfDayPasses
<1>11. CASE UNCHANGED vars
  BY <1>11 DEF vars, IsDue, EffectiveSeats
<1>12. QED
  BY <1>1, <1>2, <1>3, <1>4, <1>5, <1>6, <1>7, <1>8, <1>9, <1>10, <1>11, Disjuncts

\* Whoever is charged for a renewal holds the lock, so that he is the only one.
LEMMA ChargeStep ==
  ASSUME TypeOK, Places, Locked, ChargeRecorded, [Next]_vars
  PROVE  ChargeRecorded'
<1> USE DEF TypeOK, Places, Locked, ChargeRecorded, RenewalSteps, RequestSteps, Actors
<1>1. ASSUME NEW k \in Replicas, RenewalSelect(k) \/ RenewalFailure(k) PROVE ChargeRecorded'
  BY <1>1 DEF RenewalSelect, RenewalFailure, Return, Goto, history
<1>2. ASSUME NEW k \in Replicas, RenewalLock(k) \/ RenewalCommit(k) PROVE ChargeRecorded'
  BY <1>2 DEF RenewalLock, RenewalCommit, Renew, Return, Goto, history
<1>3. ASSUME NEW r \in Requests, NEW m \in Methods, NEW n \in Seats,
             UpgradeStart(r, m, n) \/ AddSeatsStart(r, m, n) \/ DeletePaymentMethod(r, m)
      PROVE  ChargeRecorded'
  BY <1>3 DEF UpgradeStart, AddSeatsStart, DeletePaymentMethod, Goto, history
<1>4. ASSUME NEW r \in Requests, UpgradeCommit(r) \/ AddSeatsCommit(r) \/ DeactivateMethod(r)
      PROVE  ChargeRecorded'
  BY <1>4 DEF UpgradeCommit, AddSeatsCommit, DeactivateMethod, Return, Goto, history
<1>5. ASSUME NEW a \in Actors, GatewayPays(a) PROVE ChargeRecorded'
  BY <1>5 DEF GatewayPays, Charging, Charged, Paid, Goto
<1>6. ASSUME NEW a \in Actors, GatewayFails(a) \/ CrashAfterCharge(a) PROVE ChargeRecorded'
  BY <1>6 DEF GatewayFails, CrashAfterCharge, Charging, Return, Goto
<1>7. CASE OwnerStep
  BY <1>7, OwnerFrame DEF history
<1>8. CASE FourOClock \/ DayGoesOn \/ UNCHANGED vars
  BY <1>8 DEF FourOClock, DayGoesOn, HalfDayPasses, vars, history
<1>9. QED
  BY <1>1, <1>2, <1>3, <1>4, <1>5, <1>6, <1>7, <1>8, Disjuncts, Numbers

\* Seats grow only with a payment, for free on the last day, or without a
\* subscription that is paid for; and once ended, a trial does not come back.
LEMMA SeatsStep ==
  ASSUME TypeOK, Places, SeatsStayPaid, [Next]_vars
  PROVE  SeatsStayPaid'
<1> USE DEF TypeOK, Places, SeatsStayPaid, Owing, RenewalSteps, RequestSteps
<1>1. ASSUME NEW k \in Replicas, RenewalSelect(k) PROVE SeatsStayPaid'
  <2>1. CASE Selects
    <3>1. sub.status # "trialing" /\ sub.status # "canceled"
      BY <2>1 DEF Selects, Renewable
    <3>2. UNCHANGED <<sub, paidSeats>>
      BY <1>1 DEF RenewalSelect, history
    <3>3. QED
      BY <3>1, <3>2
  <2>2. CASE ~Selects
    BY <1>1, <2>2 DEF RenewalSelect, history
  <2>3. QED
    BY <2>1, <2>2
<1>2. ASSUME NEW k \in Replicas, NEW seats, Renew(k, seats) PROVE SeatsStayPaid'
  BY <1>2 DEF Renew, SubType
<1>3. ASSUME NEW k \in Replicas, RenewalLock(k) PROVE SeatsStayPaid'
  <2>1. CASE UNCHANGED sub
    BY <1>2, <1>3, <2>1 DEF RenewalLock, Return, Goto, SubType, Actors, history
  <2>2. CASE Renew(k, EffectiveSeats)
    BY <1>2, <2>2
  <2>3. QED
    BY <1>3, <2>1, <2>2 DEF RenewalLock
<1>4. ASSUME NEW k \in Replicas, RenewalCommit(k) PROVE SeatsStayPaid'
  BY <1>2, <1>4 DEF RenewalCommit
<1>5. ASSUME NEW k \in Replicas, RenewalFailure(k) PROVE SeatsStayPaid'
  BY <1>5 DEF RenewalFailure, SubType, Statuses, history
<1>6. ASSUME NEW r \in Requests, UpgradeCommit(r) \/ AddSeatsCommit(r) PROVE SeatsStayPaid'
  <2>1. CASE UpgradeCommit(r)
    BY <2>1 DEF UpgradeCommit, SubType
  <2>2. CASE AddSeatsCommit(r)
    <3>1. sub'.seats = paidSeats' /\ sub'.status = sub.status
      BY <2>2 DEF AddSeatsCommit, SubType
    <3>2. \A k \in Replicas : pc'[k] = pc[k]
      BY <2>2 DEF AddSeatsCommit, Return, Goto, Actors
    <3>3. QED
      BY <3>1, <3>2
  <2>3. QED
    BY <1>6, <2>1, <2>2
<1>7. ASSUME NEW r \in Requests, NEW m \in Methods, NEW n \in Seats,
             UpgradeStart(r, m, n) \/ AddSeatsStart(r, m, n) \/ DeletePaymentMethod(r, m)
      PROVE  SeatsStayPaid'
  BY <1>7 DEF UpgradeStart, AddSeatsStart, DeletePaymentMethod, Goto, Actors, history
<1>13. ASSUME NEW r \in Requests, DeactivateMethod(r) PROVE SeatsStayPaid'
  BY <1>13 DEF DeactivateMethod, Return, Goto, Actors, history
<1>8. ASSUME NEW a \in Actors, GatewayPays(a) \/ GatewayFails(a) \/ CrashAfterCharge(a)
      PROVE  SeatsStayPaid'
  BY <1>8 DEF GatewayPays, GatewayFails, CrashAfterCharge, Charging, Return, Goto, Actors
<1>9. CASE OwnerStep
  <2>1. ASSUME NEW n \in Seats, AddSeatsFree(n) \/ ScheduleSeatDecrease(n) PROVE SeatsStayPaid'
    <3>1. UNCHANGED <<pc, paidSeats>> /\ sub'.status = sub.status /\ sub'.plan = sub.plan
          /\ sub'.periodEnd = sub.periodEnd
      BY <2>1 DEF AddSeatsFree, ScheduleSeatDecrease, SubType, history
    <3>2. sub'.seats = sub.seats \/ ~(sub.periodEnd > DAY)
      BY <2>1, Numbers DEF AddSeatsFree, ScheduleSeatDecrease, MayCostNothing, SubType
    <3>3. QED
      BY <3>1, <3>2
  <2>2. CASE CancelScheduledChanges \/ ToggleAutoRenew
    BY <2>2 DEF CancelScheduledChanges, ToggleAutoRenew, SubType, history
  <2>3. CASE DowngradeToFree
    BY <2>3 DEF DowngradeToFree, SubType, history
  <2>4. ASSUME NEW atPeriodEnd \in BOOLEAN, Cancel(atPeriodEnd) PROVE SeatsStayPaid'
    BY <2>4 DEF Cancel, SubType, Statuses, history
  <2>5. CASE \E m \in Methods : IssueBillingKey(m)
    BY <2>5 DEF IssueBillingKey, history
  <2>6. QED
    BY <1>9, <2>1, <2>2, <2>3, <2>4, <2>5 DEF OwnerStep
<1>10. CASE FourOClock \/ DayGoesOn
  <2>1. sub'.periodEnd <= sub.periodEnd /\ sub'.periodEnd \in Int
    <3>1. sub'.periodEnd = Earlier(sub.periodEnd)
      BY <1>10 DEF FourOClock, DayGoesOn, HalfDayPasses, SubType
    <3>2. QED
      BY <3>1 DEF Earlier, SubType
  <2>2. sub'.plan = sub.plan /\ sub'.status = sub.status /\ sub'.seats = sub.seats
    BY <1>10 DEF FourOClock, DayGoesOn, HalfDayPasses, SubType
  <2>3. UNCHANGED <<pc, paidSeats>>
    BY <1>10 DEF FourOClock, DayGoesOn, HalfDayPasses, history
  <2>4. QED
    BY <2>1, <2>2, <2>3, Numbers DEF SubType
<1>11. CASE UNCHANGED vars
  BY <1>11 DEF vars, history
<1>12. QED
  BY <1>1, <1>3, <1>4, <1>5, <1>6, <1>7, <1>8, <1>9, <1>10, <1>11, <1>13, Disjuncts, Numbers

\* Both dates are moved together, and a failed attempt sets the next one.
LEMMA DateStep ==
  ASSUME TypeOK, Places, BillingDateFollowsPeriod, [Next]_vars
  PROVE  BillingDateFollowsPeriod'
<1> USE Numbers DEF TypeOK, BillingDateFollowsPeriod
<1>1. ASSUME NEW k \in Replicas, NEW seats, Renew(k, seats) PROVE BillingDateFollowsPeriod'
  BY <1>1 DEF Renew, SubType
<1>2. ASSUME NEW k \in Replicas, RenewalLock(k) PROVE BillingDateFollowsPeriod'
  BY <1>1, <1>2 DEF RenewalLock
<1>3. ASSUME NEW k \in Replicas, RenewalCommit(k) PROVE BillingDateFollowsPeriod'
  BY <1>1, <1>3 DEF RenewalCommit
<1>4. ASSUME NEW k \in Replicas, RenewalFailure(k) PROVE BillingDateFollowsPeriod'
  <2>1. local[k].retry \in Nat
    BY DEF LocalType, Actors
  <2>2. QED
    BY <1>4, <2>1 DEF RenewalFailure, SubType
<1>5. ASSUME NEW r \in Requests, UpgradeCommit(r) \/ AddSeatsCommit(r)
      PROVE  BillingDateFollowsPeriod'
  <2>1. CASE UpgradeCommit(r)
    BY <2>1 DEF UpgradeCommit, SubType
  <2>2. CASE AddSeatsCommit(r)
    BY <2>2 DEF AddSeatsCommit, SubType
  <2>3. QED
    BY <1>5, <2>1, <2>2
<1>6. CASE OwnerStep
  <2>1. ASSUME NEW n \in Seats, AddSeatsFree(n) \/ ScheduleSeatDecrease(n)
        PROVE  BillingDateFollowsPeriod'
    BY <2>1 DEF AddSeatsFree, ScheduleSeatDecrease, SubType
  <2>2. CASE CancelScheduledChanges \/ ToggleAutoRenew
    BY <2>2 DEF CancelScheduledChanges, ToggleAutoRenew, SubType
  <2>3. CASE DowngradeToFree
    BY <2>3 DEF DowngradeToFree, SubType
  <2>4. ASSUME NEW atPeriodEnd \in BOOLEAN, Cancel(atPeriodEnd) PROVE BillingDateFollowsPeriod'
    BY <2>4 DEF Cancel, SubType, Statuses
  <2>5. CASE \E m \in Methods : IssueBillingKey(m)
    BY <2>5 DEF IssueBillingKey
  <2>6. QED
    BY <1>6, <2>1, <2>2, <2>3, <2>4, <2>5 DEF OwnerStep
<1>7. CASE FourOClock \/ DayGoesOn
  <2>1. sub' = [sub EXCEPT !.periodEnd = Earlier(@), !.nextBilling = Earlier(@)]
    BY <1>7 DEF FourOClock, DayGoesOn, HalfDayPasses
  <2>2. \A t \in Int : Earlier(t) <= t
    BY DEF Earlier
  <2>3. /\ sub'.status = sub.status /\ sub'.retry = sub.retry
        /\ sub'.periodEnd = Earlier(sub.periodEnd) /\ sub'.nextBilling = Earlier(sub.nextBilling)
    BY <2>1 DEF SubType
  <2>4. Earlier(sub.nextBilling) \in Int
    BY DEF Earlier, SubType
  <2>5. QED
    BY <2>2, <2>3, <2>4 DEF SubType
<1>8. CASE UNCHANGED sub
  BY <1>8
<1>9. QED
  <2>1. ASSUME NEW k \in Replicas, RenewalSelect(k) PROVE UNCHANGED sub
    BY <2>1 DEF RenewalSelect
  <2>2. ASSUME NEW r \in Requests, NEW m \in Methods, NEW n \in Seats,
               UpgradeStart(r, m, n) \/ AddSeatsStart(r, m, n) \/ DeletePaymentMethod(r, m)
        PROVE  UNCHANGED sub
    BY <2>2 DEF UpgradeStart, AddSeatsStart, DeletePaymentMethod
  <2>3. ASSUME NEW r \in Requests, DeactivateMethod(r) PROVE UNCHANGED sub
    BY <2>3 DEF DeactivateMethod
  <2>4. ASSUME NEW a \in Actors, GatewayPays(a) \/ GatewayFails(a) \/ CrashAfterCharge(a)
        PROVE  UNCHANGED sub
    BY <2>4 DEF GatewayPays, GatewayFails, CrashAfterCharge
  <2>5. CASE UNCHANGED vars
    BY <2>5 DEF vars
  <2>6. QED
    BY <1>2, <1>3, <1>4, <1>5, <1>6, <1>7, <1>8, <2>1, <2>2, <2>3, <2>4, <2>5, Disjuncts

LEMMA Invariance == Spec => []IInv
<1>1. IInv /\ [Next]_vars => IInv'
  BY TypeStep, LockStep, ChargeStep, SeatsStep, DateStep DEF IInv
<1>2. QED
  BY InitIInv, <1>1, PTL DEF Spec

\* Every field has its type: the renewal counts no fourth failure.
THEOREM SubscriptionTyped == Spec => []TypeOK
<1>1. IInv => TypeOK
  BY DEF IInv
<1>2. QED
  BY <1>1, Invariance, PTL

\* While Toss is charged for a renewal, the row is locked by that replica, still
\* due, and asks for the seats that are charged.
THEOREM RenewalChargesWhatIsDue == Spec => []ChargeIsCurrent
<1>1. IInv => ChargeIsCurrent
  BY DEF IInv
<1>2. QED
  BY <1>1, Invariance, PTL

\* No second renewal is charged before the first is recorded, unless a record of a
\* charge was lost.
THEOREM NoDoubleRenewal == Spec => []OneChargeAtATime
<1>1. IInv => OneChargeAtATime
  BY DEF IInv, ChargeRecorded, OneChargeAtATime
<1>2. QED
  BY <1>1, Invariance, PTL

\* The seats of a paying company are those of its newest payment, but on the last
\* day.
THEOREM SeatsFollowPayments == Spec => []SeatsArePaid
<1>1. IInv => SeatsArePaid
  BY DEF IInv, SeatsStayPaid, SeatsArePaid
<1>2. QED
  BY <1>1, Invariance, PTL

\* An active subscription is billed when its period ends, a failed one within the
\* retry interval.
THEOREM BilledWhenOver == Spec => []BillingDateFollowsPeriod
<1>1. IInv => BillingDateFollowsPeriod
  BY DEF IInv
<1>2. QED
  BY <1>1, Invariance, PTL
=============================================================================
