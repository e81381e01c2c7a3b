------------------------------- MODULE Pricing -------------------------------
(***************************************************************************)
(* The prices of a subscription (pricing.constant.ts), in won.  A graduated *)
(* price per employee beyond the first, and what is added during a period  *)
(* is paid in proportion to the days that remain.                          *)
(***************************************************************************)
EXTENDS Integers, TLAPS

PlanNames == {"free", "basic", "pro", "enterprise"}

\* The employees of a tier: those beyond the tier before it.
InTier(employees, prev, upTo) ==
  IF employees <= prev THEN 0 ELSE (IF employees < upTo THEN employees ELSE upTo) - prev

\* SEAT_TIERS; the first employee is part of the base fee.
calcSeatsKrw(planName, employees) ==
  IF planName = "basic"
    THEN 2000 * InTier(employees, 1, 10) + 1500 * InTier(employees, 10, 30)
  ELSE IF planName = "pro"
    THEN 2000 * InTier(employees, 1, 30) + 1500 * InTier(employees, 30, 50)
           + 1000 * InTier(employees, 50, 100)
  ELSE 0

\* Employees that have a price of their own; max_employees of the plan.
LastSeat(planName) == IF planName = "basic" THEN 30 ELSE 100

EXTRA_LOCATION_PRICE_KRW == 9900

\* The base fee is that of the row of plans.
calcMonthlyTotal(planName, baseFee, employees, extraLocations) ==
  (IF planName \in {"basic", "pro"} THEN baseFee ELSE 0)
    + calcSeatsKrw(planName, employees)
    + EXTRA_LOCATION_PRICE_KRW * (IF extraLocations > 0 THEN extraLocations ELSE 0)

\* Math.round of a quotient; the floating point error is left out.
Round(n, d) == (2 * n + d) \div (2 * d)

\* Dates are days in UTC.
totalDays(start, end) == IF end - start > 1 THEN end - start ELSE 1
daysRemaining(end, now) == IF end > now THEN end - now ELSE 0
calcProration(full, start, end, now) ==
  LET total == totalDays(start, end)
      due == IF daysRemaining(end, now) < total THEN daysRemaining(end, now) ELSE total
  IN  Round(full * due, total)

\* addSeats: what the added employees cost for the rest of the period, without tax.
AddedSeats(planName, old, new, start, end, now) ==
  calcProration(calcSeatsKrw(planName, new) - calcSeatsKrw(planName, old), start, end, now)

-----------------------------------------------------------------------------
(* For every number of employees and every length of a period.               *)

\* Math.round is within half a won.
LEMMA Rounding ==
  ASSUME NEW n \in Nat, NEW d \in Nat \ {0}
  PROVE  /\ Round(n, d) \in Nat
         /\ 2 * d * Round(n, d) <= 2 * n + d
         /\ 2 * n + d < 2 * d * Round(n, d) + 2 * d
<1> DEFINE a == 2 * n + d
           b == 2 * d
<1>1. a \in Nat /\ b \in Nat \ {0}
  OBVIOUS
<1>2. \A x \in Nat, y \in Nat \ {0} :
        /\ x \div y \in Nat
        /\ y * (x \div y) <= x
        /\ x < y * (x \div y) + y
  OBVIOUS
<1> HIDE DEF a, b
<1>3. (a \div b) \in Nat /\ b * (a \div b) <= a /\ a < b * (a \div b) + b
  BY <1>1, <1>2
<1>4. QED
  BY <1>3 DEF Round, a, b

\* Integers that are compared after a multiplication by a positive one.
LEMMA Cancel ==
  ASSUME NEW d \in Nat \ {0}, NEW x \in Int, NEW y \in Int, d * x < d * y
  PROVE  x < y
<1>1. CASE x >= y
  <2>1. PICK k \in Nat : x = y + k
    <3>1. x - y \in Nat /\ x = y + (x - y)
      BY <1>1
    <3>2. QED
      BY <3>1
  <2>2. d * k >= 0 /\ d * x = d * y + d * k
    BY <2>1
  <2>3. QED
    BY <2>2
<1>2. QED
  BY <1>1

\* More employees never cost less, and each beyond the first up to the last one of
\* the plan costs 1,000 won or more.
THEOREM SeatsGrow ==
  ASSUME NEW plan \in PlanNames, NEW old \in Nat \ {0}, NEW new \in Nat, old <= new
  PROVE  /\ calcSeatsKrw(plan, old) \in Nat
         /\ calcSeatsKrw(plan, new) \in Nat
         /\ calcSeatsKrw(plan, old) <= calcSeatsKrw(plan, new)
         /\ plan \in {"basic", "pro"} /\ new <= LastSeat(plan) =>
              calcSeatsKrw(plan, new) - calcSeatsKrw(plan, old) >= 1000 * (new - old)
<1>1. CASE plan = "basic"
  BY <1>1 DEF calcSeatsKrw, InTier, LastSeat
<1>2. CASE plan = "pro"
  BY <1>2 DEF calcSeatsKrw, InTier, LastSeat
<1>3. CASE plan \in {"free", "enterprise"}
  BY <1>3 DEF calcSeatsKrw
<1>4. QED
  BY <1>1, <1>2, <1>3 DEF PlanNames

\* An upgrade from basic to pro never lowers the monthly total, whatever the number
\* of employees, as long as the base fee in the plans table is not lower.
THEOREM UpgradeNeverCheaper ==
  ASSUME NEW employees \in Nat \ {0}, NEW locations \in Nat,
         NEW basic \in Nat, NEW pro \in Nat, basic <= pro
  PROVE  calcMonthlyTotal("basic", basic, employees, locations)
           <= calcMonthlyTotal("pro", pro, employees, locations)
<1>1. calcSeatsKrw("basic", employees) \in Nat /\ calcSeatsKrw("pro", employees) \in Nat
  BY DEF calcSeatsKrw, InTier
<1>2. calcSeatsKrw("basic", employees) <= calcSeatsKrw("pro", employees)
  BY DEF calcSeatsKrw, InTier
<1>3. QED
  BY <1>1, <1>2 DEF calcMonthlyTotal, EXTRA_LOCATION_PRICE_KRW

\* What is added during a period costs at most its price for a whole one, and
\* exactly that on the first day.
THEOREM ProrationWithinPrice ==
  ASSUME NEW full \in Nat, NEW start \in Int, NEW end \in Int, NEW now \in Int
  PROVE  /\ calcProration(full, start, end, now) \in 0 .. full
         /\ now = start /\ start < end => calcProration(full, start, end, now) = full
<1> DEFINE total == totalDays(start, end)
           rest == daysRemaining(end, now)
           due == IF rest < total THEN rest ELSE total
<1>1. total \in Nat \ {0} /\ rest \in Nat
  BY DEF totalDays, daysRemaining
<1>2. now = start /\ start < end => rest = total
  BY DEF totalDays, daysRemaining
<1>3. calcProration(full, start, end, now) = Round(full * due, total)
  BY DEF calcProration
<1> HIDE DEF total, rest
<1>4. due \in Nat /\ due <= total /\ (rest = total => due = total)
  BY <1>1
<1> HIDE DEF due
<1>5. full * due \in Nat /\ full * due <= full * total
  <2>1. PICK k \in Nat : total = due + k
    <3>1. total - due \in Nat /\ total = due + (total - due)
      BY <1>1, <1>4
    <3>2. QED
      BY <3>1
  <2>2. full * total = full * due + full * k /\ full * k \in Nat /\ full * due \in Nat
    BY <1>4, <2>1
  <2>3. QED
    BY <1>1, <2>2
<1> DEFINE n == full * due
           r == Round(n, total)
<1>6. /\ r \in Nat
      /\ 2 * total * r <= 2 * n + total
      /\ 2 * n + total < 2 * total * r + 2 * total
  BY <1>1, <1>5, Rounding
<1>7. r <= full
  <2>1. n \in Nat /\ n <= full * total
    BY <1>5
  <2> HIDE DEF n, r
  <2>2. 2 * (total * r) <= 2 * n + total
    BY <1>1, <1>6, <2>1
  <2>3. total * r \in Nat /\ total * full \in Nat /\ total * full = full * total
    BY <1>1, <1>6
  <2>4. total * r < total * full + total
    BY <1>1, <2>1, <2>2, <2>3
  <2>5. total * (full + 1) = total * full + total
    BY <1>1
  <2>6. r < full + 1
    BY <1>1, <1>6, <2>4, <2>5, Cancel
  <2>7. QED
    BY <1>6, <2>6
<1>8. due = total => r >= full
  <2>1. SUFFICES ASSUME due = total PROVE r >= full
    OBVIOUS
  <2>2. n = total * full
    BY <1>1, <2>1
  <2> HIDE DEF n, r
  <2>3. total * r \in Nat /\ total * full \in Nat /\ 2 * n + total < 2 * (total * r) + 2 * total
    BY <1>1, <1>6, <2>2
  <2>4. total * full < total * r + total
    BY <1>1, <2>2, <2>3
  <2>5. total * (r + 1) = total * r + total
    BY <1>1, <1>6
  <2>6. full < r + 1
    BY <1>1, <1>6, <2>4, <2>5, Cancel
  <2>7. QED
    BY <1>6, <2>6
<1>9. QED
  <2>1. calcProration(full, start, end, now) = r /\ r \in Nat /\ r <= full
    BY <1>3, <1>6, <1>7
  <2>2. now = start /\ start < end => r >= full
    BY <1>2, <1>4, <1>8
  <2> HIDE DEF r
  <2>3. QED
    BY <2>1, <2>2

\* Employees added within the plan cost nothing exactly when no whole day of the
\* period remains: addSeats then skips the charge, and for no other reason.
THEOREM AddedSeatsCost ==
  ASSUME NEW plan \in {"basic", "pro"}, NEW old \in Nat \ {0}, NEW new \in Nat,
         old < new, new <= LastSeat(plan),
         NEW start \in Int, NEW end \in Int, NEW now \in Int, end - start <= 2000
  PROVE  AddedSeats(plan, old, new, start, end, now) = 0 <=> end <= now
<1> DEFINE full == calcSeatsKrw(plan, new) - calcSeatsKrw(plan, old)
           total == totalDays(start, end)
           rest == daysRemaining(end, now)
           due == IF rest < total THEN rest ELSE total
<1>1. full \in Nat /\ full >= 1000
  <2>1. plan \in PlanNames /\ old <= new
    BY DEF PlanNames
  <2>2. /\ calcSeatsKrw(plan, old) \in Nat
        /\ calcSeatsKrw(plan, new) \in Nat
        /\ calcSeatsKrw(plan, new) - calcSeatsKrw(plan, old) >= 1000 * (new - old)
    BY <2>1, SeatsGrow
  <2>3. 1000 * (new - old) >= 1000
    OBVIOUS
  <2>4. QED
    BY <2>2, <2>3
<1>2. total \in Nat \ {0} /\ total <= 2000 /\ rest \in Nat /\ (rest = 0 <=> end <= now)
  BY DEF totalDays, daysRemaining
<1>3. AddedSeats(plan, old, new, start, end, now) = Round(full * due, total)
  BY DEF AddedSeats, calcProration
<1> HIDE DEF full, total, rest
<1>4. due \in Nat /\ (due = 0 <=> rest = 0)
  BY <1>2
<1> HIDE DEF due
<1> DEFINE n == full * due
           r == Round(n, total)
<1>5. n \in Nat /\ (due = 0 => n = 0) /\ (due # 0 => n >= 1000)
  <2>1. CASE due = 0
    BY <1>1, <2>1
  <2>2. CASE due # 0
    <3>1. PICK k \in Nat : due = k + 1
      <4>1. due - 1 \in Nat /\ due = (due - 1) + 1
        BY <1>4, <2>2
      <4>2. QED
        BY <4>1
    <3>2. n = full * k + full /\ full * k \in Nat
      BY <1>1, <3>1
    <3>3. QED
      BY <1>1, <2>2, <3>2
  <2>3. QED
    BY <2>1, <2>2
<1> HIDE DEF n
<1>6. /\ r \in Nat
      /\ 2 * total * r <= 2 * n + total
      /\ 2 * n + total < 2 * total * r + 2 * total
  BY <1>2, <1>5, Rounding
<1> HIDE DEF r
<1>7. due = 0 => r = 0
  <2>1. SUFFICES ASSUME due = 0, r # 0 PROVE FALSE
    BY <1>6
  <2>2. PICK k \in Nat : r = k + 1
    <3>1. r - 1 \in Nat /\ r = (r - 1) + 1
      BY <1>6, <2>1
    <3>2. QED
      BY <3>1
  <2>3. 2 * total * r = 2 * total * k + 2 * total /\ 2 * total * k \in Nat
    BY <1>2, <2>2
  <2>4. QED
    BY <1>2, <1>5, <1>6, <2>1, <2>3
<1>8. due # 0 => r # 0
  <2>1. SUFFICES ASSUME due # 0, r = 0 PROVE FALSE
    OBVIOUS
  <2>2. 2 * n + total < 2 * total
    BY <1>2, <1>6, <2>1
  <2>3. QED
    BY <1>2, <1>5, <2>1, <2>2
<1>9. QED
  BY <1>2, <1>3, <1>4, <1>7, <1>8 DEF r, n

=============================================================================
