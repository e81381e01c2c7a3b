---------------------------- MODULE Attendance ----------------------------
(***************************************************************************)
(* The attendance rows of one employee, one per work date, and everything  *)
(* that writes them: clockIn and clockOut (attendance.service.ts), the     *)
(* correction by a manager (updateAttendance), the rows which the approval *)
(* of a business trip creates (vacations.service.ts) and the timer that    *)
(* marks absence from a shift at 23:59 (shift-absent-cron.service.ts).     *)
(* Each reads a row, awaits other queries, and saves what it made of it.   *)
(*                                                                         *)
(* Time counts thirds of a day in Korea: before 9:00, until 18:00, until   *)
(* midnight.  9:00 in Korea is midnight UTC, and toISOString, from which   *)
(* the work date is cut, speaks UTC: before 9:00 it still gives yesterday. *)
(* Lateness, places and minutes are left out: late and early_leave count   *)
(* as "normal".                                                            *)
(***************************************************************************)
EXTENDS Integers, Awaits

CONSTANTS
  Replicas,  \* backend processes, each with the timer of 23:59
  Shifts,    \* dates on which a published shift is assigned to the employee
  Trips,     \* dates of business trips that may be approved
  LastTime   \* bound: the last third of a day

DateInKorea(t) == t \div 3
DateInUtc(t) == (t - 1) \div 3

Dates == 0 .. DateInKorea(LastTime)

TimeAssumption == LastTime \in Nat /\ LastTime >= 3
\* The first date is over in Korea when a behaviour begins.
DateAssumption == Shifts \subseteq Dates \ {0} /\ Trips \subseteq Dates
ActorAssumption == Handlers \cap Replicas = {} /\ Replicas # {}

Actors == Handlers \cup Replicas
NoTime == -1
Times == (3 .. LastTime) \cup {3 * d + 2 : d \in Trips}

VARIABLES
  rows,   \* attendance_records of the employee, by work_date
  now,
  due,    \* replicas whose timer has not fired yet today
  edited, \* dates a manager took up to correct (history)
  missed, \* replicas whose timer did not come to the employee, with the date (history)
  torn    \* a row changed between the SELECT and the UPDATE of a save (history)

vars == <<rows, now, due, pc, local, edited, missed, overlapped, torn>>

Statuses == {"pending", "normal", "absent"}
Row == [exists : BOOLEAN, clockIn : Times \cup {NoTime}, clockOut : Times \cup {NoTime},
        status : Statuses]
NoRow == [exists |-> FALSE, clockIn |-> NoTime, clockOut |-> NoTime, status |-> "pending"]
NoLocal == [date |-> 0, row |-> NoRow, cols |-> {}]

Steps == {"idle", "saving", "updating",
          "absentees"} \* the timer has found no clock-in, employee by employee is next

Init ==
  /\ rows = [d \in Dates |-> NoRow]
  /\ now = 3
  /\ due = {}
  /\ pc = [a \in Actors |-> "idle"]
  /\ local = [a \in Actors |-> NoLocal]
  /\ edited = {} /\ missed = {}
  /\ overlapped = FALSE /\ torn = FALSE

Today == DateInUtc(now)

ClockedIn(row) == row.clockIn # NoTime
Return(a) == Goto(a, "idle") /\ Hold(a, NoLocal)
Aside == UNCHANGED <<now, due, edited, missed>>

\* What a handler makes of the row it has read.
Load(a, d, row, stamped) ==
  /\ Goto(a, "saving")
  /\ Hold(a, [date |-> d, row |-> row, cols |-> stamped])
  /\ UNCHANGED rows

\* save: for a new row an INSERT, which the unique index on user and work date
\* refuses when another handler was faster; else a SELECT and an UPDATE.
Insert(a) ==
  /\ pc[a] = "saving" /\ ~local[a].row.exists
  /\ rows' = IF rows[local[a].date].exists THEN rows
             ELSE [rows EXCEPT ![local[a].date] = [local[a].row EXCEPT !.exists = TRUE]]
  /\ Return(a)
  /\ Aside
SaveSelect(a) ==
  /\ local[a].row.exists
  /\ Compare(a, rows[local[a].date])
  /\ UNCHANGED rows /\ Aside
Save(a) ==
  /\ pc[a] = "updating"
  /\ rows' = [rows EXCEPT ![local[a].date] = Merged(@, local[a].row, local[a].cols)]
  /\ Return(a)
  /\ Aside

-----------------------------------------------------------------------------
(***************************************************************************)
(* The employee.  A second clock-in or clock-out of the day changes        *)
(* nothing, and a clock-out without clock-in is refused.                   *)
(***************************************************************************)
Arrived == [rows[Today] EXCEPT !.clockIn = now, !.status = "normal"]
\* Mutant: no look whether the day has a clock-in.
ClockInAgain(r) == pc[r] = "idle" /\ Load(r, Today, Arrived, {"clockIn"}) /\ Aside
ClockIn(r) ==
  /\ pc[r] = "idle"
  /\ ~ClockedIn(rows[Today])
  /\ Load(r, Today, Arrived, {"clockIn"})
  /\ Aside

\* Mutant: no look whether the day has a clock-in.
ClockOutUnseen(r) ==
  /\ pc[r] = "idle"
  /\ rows[Today].clockOut = NoTime
  /\ Load(r, Today, [rows[Today] EXCEPT !.clockOut = now], {"clockOut"})
  /\ Aside
ClockOut(r) ==
  /\ pc[r] = "idle"
  /\ ClockedIn(rows[Today])
  /\ rows[Today].clockOut = NoTime
  /\ Load(r, Today, [rows[Today] EXCEPT !.clockOut = now], {"clockOut"})
  /\ Aside

-----------------------------------------------------------------------------
(***************************************************************************)
(* Managers.                                                               *)
(***************************************************************************)
Correct(r, d) ==
  /\ pc[r] = "idle"
  /\ rows[d].exists
  /\ \/ Load(r, d, [rows[d] EXCEPT !.clockIn = now], {"clockIn"})
     \/ Load(r, d, [rows[d] EXCEPT !.clockOut = now], {"clockOut"})
     \/ \E status \in Statuses : Load(r, d, [rows[d] EXCEPT !.status = status], {})
  /\ edited' = edited \cup {d}
  /\ UNCHANGED <<now, due, missed>>

\* autoCreateDutyAttendance, for one day of the trip: from 9:00 to 18:00 UTC.
\* Mutant: the day of the trip ends a day late.
NextEvening(d) == 3 * d + 5
TripTime(d) == 3 * d + 2

MarkTrip(r, d) ==
  /\ pc[r] = "idle"
  /\ ~ClockedIn(rows[d])
  /\ Load(r, d, [rows[d] EXCEPT !.clockIn = TripTime(d), !.clockOut = TripTime(d),
                                !.status = "normal"], {})
  /\ Aside

-----------------------------------------------------------------------------
(***************************************************************************)
(* The timer of 23:59.                                                     *)
(***************************************************************************)
AbsentSelect(k) ==
  /\ k \in due
  /\ due' = due \ {k}
  /\ IF Today \in Shifts /\ ~ClockedIn(rows[Today])
       THEN Goto(k, "absentees")
       ELSE UNCHANGED pc
  /\ UNCHANGED <<rows, now, local, edited, missed>>

\* Mutant: only a row that is already there becomes an absence.
AbsentIfListed(k) ==
  /\ pc[k] = "absentees"
  /\ IF ClockedIn(rows[Today]) \/ ~rows[Today].exists
       THEN Return(k) /\ UNCHANGED rows
       ELSE Load(k, Today, [rows[Today] EXCEPT !.status = "absent"], {})
  /\ Aside
AbsentFind(k) ==
  /\ pc[k] = "absentees"
  /\ IF ClockedIn(rows[Today])
       THEN Return(k) /\ UNCHANGED rows
       ELSE Load(k, Today, [rows[Today] EXCEPT !.status = "absent"], {})
  /\ Aside

\* The loop goes over the employees of all companies and has no try: a refused INSERT
\* or any other error in it ends it for those who are left.  Or the replica is down.
AbsentEnds(k) ==
  /\ k \in due \/ InFlight(k)
  /\ due' = due \ {k}
  /\ missed' = missed \cup {<<k, Today>>}
  /\ Return(k)
  /\ UNCHANGED <<rows, now, edited>>

-----------------------------------------------------------------------------
\* Handlers take seconds: none is in flight when the third of a day ends.
Tick ==
  /\ now < LastTime
  /\ \A a \in Actors : pc[a] = "idle"
  /\ due = {}
  /\ now' = now + 1
  /\ due' = IF now' % 3 = 2 THEN Replicas ELSE {}
  /\ UNCHANGED <<rows, pc, local, edited, missed>>

SaveStep(a) == Insert(a) \/ SaveSelect(a) \/ Save(a)

RequestStep(r) ==
  \/ ClockIn(r) \/ ClockOut(r)
  \/ \E d \in Dates : Correct(r, d)
  \/ \E d \in Trips : MarkTrip(r, d)
  \/ SaveStep(r)

TimerStep(k) == AbsentSelect(k) \/ AbsentFind(k) \/ AbsentEnds(k) \/ SaveStep(k)

\* Another handler is between the two statements of its save of the row.
Halfway(a, d) == \E b \in Actors \ {a} : pc[b] = "updating" /\ local[b].date = d
Tear(a) == torn' = (torn \/ \E d \in Dates : rows'[d] # rows[d] /\ Halfway(a, d))

Next ==
  \/ \E r \in Handlers : RequestStep(r) /\ Overlap(r) /\ Tear(r)
  \/ \E k \in Replicas : TimerStep(k) /\ Tear(k) /\ UNCHANGED overlapped
  \/ Tick /\ UNCHANGED <<overlapped, torn>>

Spec == Init /\ [][Next]_vars

-----------------------------------------------------------------------------
\* Types.
TypeOK ==
  /\ rows \in [Dates -> Row]
  /\ now \in 3 .. LastTime
  /\ due \subseteq Replicas
  /\ pc \in [Actors -> Steps]
  /\ local \in [Actors -> [date : Dates, row : Row, cols : SUBSET DOMAIN NoRow]]
  /\ edited \subseteq Dates /\ missed \subseteq Replicas \X Dates
  /\ overlapped \in BOOLEAN /\ torn \in BOOLEAN

\* A row no manager has touched tells one story: nobody left without having
\* come, nobody left before coming, and who came is not absent.  Requests and
\* timers may interleave as they like, unless an UPDATE fell between the two
\* statements of another save.
OneStory == ~torn =>
  \A d \in Dates \ edited :
    /\ rows[d].clockOut # NoTime => ClockedIn(rows[d]) /\ rows[d].clockIn <= rows[d].clockOut
    /\ ClockedIn(rows[d]) => rows[d].status # "absent"

\* When the date of a shift is over, the employee has come or is absent, unless
\* the timer of every replica broke off before it came to the employee, or an
\* UPDATE fell between the two statements of another save.
ShiftsAreSettled == ~torn =>
  \A d \in Shifts \ edited :
    now > 3 * d + 2 =>
      \/ ClockedIn(rows[d]) \/ rows[d].status = "absent"
      \/ \A k \in Replicas : <<k, d>> \in missed

\* "First wins": as long as requests do not overlap, only a manager changes a
\* recorded clock-in.  A timer that overlaps with them may take it away, never
\* replace it.
FirstKept ==
  ~overlapped' =>
    \A d \in Dates \ edited' :
      ClockedIn(rows[d]) =>
        \/ rows'[d].clockIn = rows[d].clockIn
        \/ ~ClockedIn(rows'[d]) /\ \E k \in Replicas : pc[k] = "updating" /\ pc'[k] = "idle"

\* The comment on the timer's own second look, "skip who came to work meanwhile":
\* the timer never takes a clock-in away.
TimerSparesClockIns ==
  [][\A k \in Replicas : pc[k] # "idle" /\ pc'[k] = "idle" =>
       \A d \in Dates : ClockedIn(rows[d]) => ClockedIn(rows'[d])]_vars

=============================================================================
