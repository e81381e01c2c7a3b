---------------------------- MODULE DoNotDisturb ----------------------------
(***************************************************************************)
(* The hours in which a user wants no push (notifications.service.ts):     *)
(* whether one is due now is in those hours, and for how long it is        *)
(* delayed.  They may begin on one day and end on the next.                *)
(***************************************************************************)
EXTENDS Integers, TLAPS

\* dndStartTime and dndEndTime are minutes of the day, now a second of it.
Minutes == 0 .. 1439
Day == 86400
Seconds == 0 .. Day - 1

isInDnd(start, end, now) ==
  LET nowMin == now \div 60 IN
  IF start > end THEN nowMin >= start \/ nowMin < end
                 ELSE nowMin >= start /\ nowMin < end

\* msUntilDndEnd in seconds; an end that is not later than now is tomorrow's.
UntilDndEnd(end, now) == IF end * 60 <= now THEN end * 60 + Day - now ELSE end * 60 - now

\* The second of the day that comes some seconds later.
Later(now, seconds) == IF now + seconds < Day THEN now + seconds ELSE now + seconds - Day

\* A push that is delayed is delayed for less than a day, to the first second in
\* which it is wanted: it is not when the delay is over, and at no time before.
THEOREM DelayedToTheEnd ==
  ASSUME NEW start \in Minutes, NEW end \in Minutes, NEW now \in Seconds,
         isInDnd(start, end, now)
  PROVE  /\ UntilDndEnd(end, now) \in Nat /\ 0 < UntilDndEnd(end, now) /\ UntilDndEnd(end, now) < Day
         /\ ~isInDnd(start, end, Later(now, UntilDndEnd(end, now)))
         /\ \A t \in 0 .. UntilDndEnd(end, now) - 1 : isInDnd(start, end, Later(now, t))
<1> DEFINE delay == UntilDndEnd(end, now)
           m == now \div 60
<1>1. \A s \in Nat : /\ s \div 60 \in Nat
                     /\ 60 * (s \div 60) <= s
                     /\ s < 60 * (s \div 60) + 60
  OBVIOUS
<1>2. /\ start \in Nat /\ start < 1440
      /\ end \in Nat /\ end < 1440
      /\ now \in Nat /\ now < 86400
  BY DEF Minutes, Seconds, Day
<1>3. m \in Nat /\ 60 * m <= now /\ now < 60 * m + 60
  BY <1>1, <1>2
<1>4. IF start > end THEN m >= start \/ m < end ELSE m >= start /\ m < end
  BY DEF isInDnd
<1>5. end * 60 <= now <=> end <= m
  BY <1>2, <1>3
<1> HIDE DEF m
\* Either the end is tomorrow, and the hours began today, or it is today.
<1>6. \/ end <= m /\ start > end /\ m >= start /\ delay = end * 60 + 86400 - now
      \/ m < end /\ delay = end * 60 - now
  BY <1>2, <1>3, <1>4, <1>5 DEF UntilDndEnd, Day
<1> HIDE DEF delay
<1>7. delay \in Nat /\ 0 < delay /\ delay < 86400
  BY <1>2, <1>3, <1>6
<1>8. ~isInDnd(start, end, Later(now, delay))
  <2>1. Later(now, delay) = end * 60
    BY <1>2, <1>3, <1>6 DEF Later, Day
  <2>2. (end * 60) \div 60 = end
    BY <1>2
  <2>3. QED
    BY <1>2, <2>1, <2>2 DEF isInDnd
<1>9. ASSUME NEW t \in 0 .. delay - 1
      PROVE  isInDnd(start, end, Later(now, t))
  <2>1. t \in Nat /\ t < delay
    BY <1>7
  <2> DEFINE s == Later(now, t)
             n == s \div 60
  <2>2. /\ s \in Nat
        /\ \/ s = now + t /\ now + t < 86400
           \/ s = now + t - 86400 /\ now + t >= 86400
    BY <1>2, <1>7, <2>1 DEF Later, Day
  <2> HIDE DEF s
  <2>3. n \in Nat /\ 60 * n <= s /\ s < 60 * n + 60
    BY <1>1, <2>2
  <2>4. isInDnd(start, end, s) <=>
          IF start > end THEN n >= start \/ n < end ELSE n >= start /\ n < end
    BY DEF isInDnd
  <2> HIDE DEF n
  <2>5. ASSUME end <= m, start > end, m >= start, delay = end * 60 + 86400 - now
        PROVE  isInDnd(start, end, s)
    <3>1. s = now + t => n >= start
      BY <1>2, <1>3, <2>1, <2>2, <2>3, <2>5
    <3>2. s = now + t - 86400 => n < end
      BY <1>2, <1>3, <2>1, <2>2, <2>3, <2>5
    <3>3. QED
      BY <2>2, <2>4, <2>5, <3>1, <3>2
  <2>6. ASSUME m < end, delay = end * 60 - now
        PROVE  isInDnd(start, end, s)
    <3>1. s = now + t /\ n < end
      BY <1>2, <1>3, <2>1, <2>2, <2>3, <2>6
    <3>2. n >= m
      BY <1>2, <1>3, <2>1, <2>3, <3>1
    <3>3. QED
      BY <1>2, <1>3, <1>4, <2>3, <2>4, <2>6, <3>1, <3>2
  <2>7. QED
    BY <1>6, <2>5, <2>6 DEF s
<1>10. delay < Day
  BY <1>7 DEF Day
<1>11. QED
  BY <1>7, <1>8, <1>9, <1>10 DEF delay
=============================================================================
