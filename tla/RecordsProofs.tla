---------------------------- MODULE RecordsProofs ---------------------------
(***************************************************************************)
(* TLAPS proofs about Records, for any identifiers, handlers, replicas and *)
(* bounds.  As in OfficeProofs a service has an invariant of what holds    *)
(* however its handlers interleave, and most have one of what holds as     *)
(* long as they do not overlap.  The theorems are at the end.              *)
(***************************************************************************)
EXTENDS Records, TLAPS, FiniteSetTheorems, SequenceTheorems, WellFoundedInduction

\* Without overlap one handler is at work at most.
Alone == ~overlapped => \A g, h \in Handlers : pc[g] # "idle" /\ pc[h] # "idle" => g = h

\* A set of numbers has a least.
LEMMA HasLeast ==
  ASSUME NEW S, S \subseteq Nat, S # {}
  PROVE  \E n \in S : \A m \in S : n <= m
<1>1. PICK n \in S : \A m \in S : <<m, n>> \notin OpToRel(<, Nat)
  BY NatLessThanWellFounded, WFMin
<1>2. \A m \in S : ~(m < n)
  BY <1>1 DEF OpToRel
<1> QED
  BY <1>2


\* Columns are compared: one handler holds them with its row, the others hold what
\* they held.
LEMMA ColumnsHeld ==
  ASSUME NEW Rows, NEW Columns, NEW held \in [Handlers -> [row : Rows, cols : SUBSET Columns]],
         NEW h \in Handlers, NEW cols \in SUBSET Columns
  PROVE  LET new == [held EXCEPT ![h] = [held[h] EXCEPT !.cols = cols]] IN
         /\ new \in [Handlers -> [row : Rows, cols : SUBSET Columns]]
         /\ new[h].row = held[h].row /\ new[h].cols = cols
         /\ \A g \in Handlers \ {h} : new[g] = held[g]
<1> DEFINE Some == SUBSET Columns
           entity == [held[h] EXCEPT !.cols = cols]
<1> HIDE DEF Some
<1>1. held \in [Handlers -> [row : Rows, cols : Some]] /\ cols \in Some
  BY DEF Some
<1>2. held[h] \in [row : Rows, cols : Some]
  BY <1>1
<1>3. entity \in [row : Rows, cols : Some] /\ entity.row = held[h].row /\ entity.cols = cols
  BY <1>1, <1>2
<1> HIDE DEF entity
<1>4. LET new == [held EXCEPT ![h] = entity] IN
      /\ new \in [Handlers -> [row : Rows, cols : Some]]
      /\ new[h].row = held[h].row /\ new[h].cols = cols
      /\ \A g \in Handlers \ {h} : new[g] = held[g]
  BY <1>1, <1>3
<1> QED
  BY <1>4 DEF Some, entity
-----------------------------------------------------------------------------
(***************************************************************************)
(* attendance. A row that no manager has edited tells one story, and so    *)
(* does what the handlers and the timers hold of it; what is saved is      *)
(* compared with the row of the table first, so that the row becomes what  *)
(* is held. A row is missing at the end of a day only as long as every     *)
(* replica is still to make the absence, or did not come to it.            *)
(***************************************************************************)
\* What is assumed of the constants.
LEMMA ClockGiven == /\ Attendance!TimeAssumption /\ Attendance!DateAssumption
                    /\ Attendance!ActorAssumption
  BY RecordsAssumption

ClockLocals == [date : Attendance!Dates, row : Attendance!Row, cols : SUBSET DOMAIN Attendance!NoRow]

\* A row that no manager has touched.
ClockStory(row) ==
  /\ row.clockOut # Attendance!NoTime => Attendance!ClockedIn(row) /\ row.clockIn <= row.clockOut
  /\ Attendance!ClockedIn(row) <=> row.status # "absent"
  /\ Attendance!ClockedIn(row) /\ row.clockOut = Attendance!NoTime => row.clockIn <= now

\* There is a row, or nothing is known of the date.
ClockThere(row) == row.exists \/ row = Attendance!NoRow

\* A row that is held to be changed is there, requests are no timers, and the timer
\* holds a row without clock-in.
ClockRole(a) ==
  /\ pc[a] = "saving" /\ local[a].row.exists => rows[local[a].date].exists
  /\ pc[a] = "updating" => local[a].row.exists /\ rows[local[a].date].exists
  /\ a \in Handlers => pc[a] # "absentees"
  /\ a \in Replicas /\ pc[a] \in {"saving", "updating"} => ~Attendance!ClockedIn(local[a].row)

\* What is held of a row no manager has touched tells its story; when its columns were
\* compared with those of the table, they still differ in no other.
ClockHeld(a) ==
  /\ pc[a] \in {"saving", "updating"} /\ local[a].date \notin edited => ClockStory(local[a].row)
  /\ pc[a] = "updating" =>
       Attendance!Differing(rows[local[a].date], local[a].row) \subseteq local[a].cols

\* The timer fires in the last third of a day, and is done in it.
ClockTimer(k) ==
  /\ k \in due => pc[k] = "idle"
  /\ k \in due \/ pc[k] # "idle" => now = 3 * Attendance!Today + 2
  /\ pc[k] \in {"saving", "updating"} => local[k].date = Attendance!Today

\* A shift of today is settled, or the replica is about to settle it or did not come
\* to it.
ClockSettling(d, k) ==
  \/ rows[d].exists \/ k \in due \/ pc[k] = "absentees" \/ <<k, d>> \in missed
  \/ pc[k] \in {"saving", "updating"} /\ local[k].date = d
\* Shifts of days that are over are settled, and those of today about to be.
ClockSettled == \A d \in Shifts :
  /\ now > 3 * d + 2 => rows[d].exists \/ \A k \in Replicas : <<k, d>> \in missed
  /\ now = 3 * d + 2 => \A k \in Replicas : ClockSettling(d, k)

\* What holds however handlers interleave.
ClockInv ==
  /\ Attendance!TypeOK
  /\ \A d \in Attendance!Dates : ClockThere(rows[d])
  /\ \A a \in Attendance!Actors : ClockRole(a)
  /\ \A k \in Replicas : ClockTimer(k)
  /\ ClockSettled
  /\ ~torn => /\ \A d \in Attendance!Dates \ edited : rows[d].exists => ClockStory(rows[d])
              /\ \A a \in Attendance!Actors : ClockHeld(a)

\* A recorded clock-in is the one that is held.
ClockFresh(r) ==
  /\ pc[r] \in {"saving", "updating"} /\ local[r].date \notin edited
  /\ Attendance!ClockedIn(rows[local[r].date])
  => local[r].row.clockIn = rows[local[r].date].clockIn
\* What holds as long as requests do not overlap.
ClockSoloInv == ~overlapped => \A r \in Handlers : ClockFresh(r)

\* What every step of an actor does.
ClockKept(a) ==
  /\ rows' \in [Attendance!Dates -> Attendance!Row] /\ now' = now
  /\ edited \subseteq edited' /\ edited' \subseteq Attendance!Dates
  /\ pc' \in [Attendance!Actors -> Attendance!Steps]
  /\ local' \in [Attendance!Actors -> ClockLocals]
  /\ \A b \in Attendance!Actors \ {a} : pc'[b] = pc[b] /\ local'[b] = local[b]
  /\ \A d \in Attendance!Dates : ClockThere(rows'[d]) /\ (rows[d].exists => rows'[d].exists)
  /\ ClockRole(a)'
  /\ ~torn =>
       /\ \A d \in Attendance!Dates \ edited' : rows'[d].exists => ClockStory(rows[d])'
       /\ ClockHeld(a)'

\* Dates and times are numbers, and requests are no replicas.
LEMMA ClockFacts ==
  /\ LastTime \in Nat /\ LastTime >= 3
  /\ Attendance!Dates \subseteq Nat /\ 0 \in Attendance!Dates
  /\ Shifts \subseteq Attendance!Dates \ {0} /\ Trips \subseteq Attendance!Dates
  /\ Attendance!Times \subseteq Nat /\ Attendance!NoTime \notin Attendance!Times
  /\ Attendance!NoTime \in Int
  /\ \A t \in 3 .. LastTime : t \in Attendance!Times
  /\ \A d \in Trips : Attendance!TripTime(d) \in Attendance!Times
  /\ Replicas # {} /\ \A r \in Handlers, k \in Replicas : r # k
<1>1. LastTime \in Nat /\ LastTime >= 3
  BY ClockGiven DEF Attendance!TimeAssumption
<1>2. Attendance!Dates \subseteq Nat /\ 0 \in Attendance!Dates
  BY <1>1 DEF Attendance!Dates, Attendance!DateInKorea
<1>3. Shifts \subseteq Attendance!Dates \ {0} /\ Trips \subseteq Attendance!Dates
  BY ClockGiven DEF Attendance!DateAssumption
<1> QED
  BY ClockGiven, <1>1, <1>2, <1>3 DEF Attendance!ActorAssumption, Attendance!Times,
     Attendance!NoTime, Attendance!TripTime

\* Every time is of one date.
LEMMA ClockDays ==
  ASSUME NEW t \in 3 .. LastTime
  PROVE  /\ Attendance!DateInUtc(t) \in Attendance!Dates
         /\ 3 * Attendance!DateInUtc(t) + 1 <= t /\ t <= 3 * Attendance!DateInUtc(t) + 3
  BY ClockFacts DEF Attendance!DateInUtc, Attendance!DateInKorea, Attendance!Dates

\* What is held at rest, and a row that is not there.
LEMMA ClockEmpty ==
  /\ Attendance!NoRow \in Attendance!Row /\ ClockThere(Attendance!NoRow)
  /\ Attendance!NoLocal \in ClockLocals
  /\ ~Attendance!ClockedIn(Attendance!NoRow) /\ Attendance!NoRow.clockOut = Attendance!NoTime
  /\ ~Attendance!NoRow.exists
  /\ {} \in SUBSET DOMAIN Attendance!NoRow /\ {"clockIn"} \in SUBSET DOMAIN Attendance!NoRow
  /\ {"clockOut"} \in SUBSET DOMAIN Attendance!NoRow
  BY ClockFacts DEF Attendance!NoRow, Attendance!NoLocal, Attendance!Row, Attendance!Statuses,
     Attendance!ClockedIn, ClockThere, ClockLocals

\* What an UPDATE makes of a row: each column is the old one or that in hand.
LEMMA ClockMerge ==
  ASSUME NEW row \in Attendance!Row, NEW entity \in Attendance!Row, NEW cols
  PROVE  LET new == Attendance!Merged(row, entity, cols) IN
         /\ new \in Attendance!Row
         /\ Attendance!Differing(row, entity) \in SUBSET DOMAIN Attendance!NoRow
         /\ new.clockIn \in {row.clockIn, entity.clockIn}
         /\ row.exists /\ entity.exists => new.exists
         /\ Attendance!Differing(row, entity) \subseteq cols => new = entity
  BY DEF Attendance!Row, Attendance!NoRow, Attendance!Merged, Attendance!Differing

\* The initial states have the invariant.
LEMMA ClockInitHolds == Attendance!Init => ClockInv /\ ClockSoloInv
<1> SUFFICES ASSUME Attendance!Init PROVE ClockInv /\ ClockSoloInv
  OBVIOUS
<1>1. /\ rows = [d \in Attendance!Dates |-> Attendance!NoRow] /\ now = 3 /\ due = {}
      /\ edited = {} /\ missed = {} /\ overlapped = FALSE /\ torn = FALSE
      /\ pc = [a \in Attendance!Actors |-> "idle"]
      /\ local = [a \in Attendance!Actors |-> Attendance!NoLocal]
  BY DEF Attendance!Init
<1>2. overlapped \in BOOLEAN /\ torn \in BOOLEAN
  BY <1>1, Zenon
<1>3. Attendance!TypeOK
  BY <1>1, <1>2, ClockEmpty, ClockFacts DEF Attendance!TypeOK, Attendance!Steps, ClockLocals
<1>4. \A d \in Attendance!Dates : ClockThere(rows[d]) /\ ~rows[d].exists
  BY <1>1, ClockEmpty
<1>5. \A a \in Attendance!Actors : ClockHeld(a) /\ ClockRole(a)
  BY <1>1 DEF ClockHeld, ClockRole
<1>6. \A k \in Replicas : ClockTimer(k)
  BY <1>1 DEF ClockTimer, Attendance!Actors
<1>7. ClockSettled
  BY <1>1, ClockFacts DEF ClockSettled
<1>8. \A r \in Handlers : ClockFresh(r)
  BY <1>1 DEF ClockFresh, Attendance!Actors
<1> QED
  BY <1>3, <1>4, <1>5, <1>6, <1>7, <1>8 DEF ClockInv, ClockSoloInv

\* Types of the state.
LEMMA ClockTyped ==
  ASSUME ClockInv
  PROVE  /\ rows \in [Attendance!Dates -> Attendance!Row] /\ now \in 3 .. LastTime
         /\ due \subseteq Replicas /\ missed \subseteq Replicas \X Attendance!Dates
         /\ pc \in [Attendance!Actors -> Attendance!Steps]
         /\ local \in [Attendance!Actors -> ClockLocals]
         /\ edited \subseteq Attendance!Dates /\ overlapped \in BOOLEAN /\ torn \in BOOLEAN
         /\ Attendance!Today \in Attendance!Dates /\ now \in Attendance!Times
  BY ClockDays, ClockFacts DEF ClockInv, Attendance!TypeOK, Attendance!Today, ClockLocals

\* What an actor holds.
LEMMA ClockHas ==
  ASSUME ClockInv, NEW a \in Attendance!Actors
  PROVE  /\ local[a] \in ClockLocals /\ local[a].date \in Attendance!Dates
         /\ local[a].row \in Attendance!Row /\ local[a].cols \in SUBSET DOMAIN Attendance!NoRow
         /\ ClockRole(a) /\ (~torn => ClockHeld(a))
         /\ rows[local[a].date] \in Attendance!Row /\ ClockThere(rows[local[a].date])
  BY ClockTyped DEF ClockLocals, ClockInv

\* An actor that returns.
LEMMA ClockReturnMoves ==
  ASSUME ClockInv, NEW a \in Attendance!Actors, Attendance!Return(a)
  PROVE  /\ pc' \in [Attendance!Actors -> Attendance!Steps]
         /\ local' \in [Attendance!Actors -> ClockLocals]
         /\ \A b \in Attendance!Actors \ {a} : pc'[b] = pc[b] /\ local'[b] = local[b]
         /\ pc'[a] = "idle" /\ ClockHeld(a)' /\ ClockRole(a)' /\ ClockFresh(a)'
<1>1. /\ pc' \in [Attendance!Actors -> Attendance!Steps]
      /\ local' \in [Attendance!Actors -> ClockLocals]
      /\ \A b \in Attendance!Actors \ {a} : pc'[b] = pc[b] /\ local'[b] = local[b]
      /\ pc'[a] = "idle"
  BY ClockEmpty, ClockTyped DEF Attendance!Return, Attendance!Goto, Attendance!Hold, Attendance!Steps
<1> QED
  BY <1>1 DEF ClockHeld, ClockRole, ClockFresh

\* An actor that makes something of the row it has read.
LEMMA ClockLoadKeeps ==
  ASSUME ClockInv, NEW a \in Attendance!Actors, NEW d \in Attendance!Dates,
         NEW row \in Attendance!Row, NEW cols \in SUBSET DOMAIN Attendance!NoRow,
         Attendance!Load(a, d, row, cols), now' = now,
         edited' \in {edited, edited \cup {d}},
         row.exists = rows[d].exists,
         a \in Replicas => ~Attendance!ClockedIn(row),
         ~torn /\ d \notin edited' => ClockStory(row)
  PROVE  /\ ClockKept(a) /\ rows' = rows
         /\ pc'[a] = "saving" /\ local'[a].date = d /\ local'[a].row = row
<1> DEFINE held == [date |-> d, row |-> row, cols |-> cols]
<1>1. held \in ClockLocals /\ held.date = d /\ held.row = row /\ local' = [local EXCEPT ![a] = held]
  BY DEF ClockLocals, Attendance!Load, Attendance!Hold
<1> HIDE DEF held
<1>2. /\ pc' \in [Attendance!Actors -> Attendance!Steps] /\ rows' = rows
      /\ local' \in [Attendance!Actors -> ClockLocals]
      /\ \A b \in Attendance!Actors \ {a} : pc'[b] = pc[b] /\ local'[b] = local[b]
      /\ pc'[a] = "saving" /\ local'[a].date = d /\ local'[a].row = row
  BY <1>1, ClockTyped DEF Attendance!Load, Attendance!Goto, Attendance!Steps
<1>3. ClockRole(a)'
  BY <1>2 DEF ClockRole, Attendance!ClockedIn
<1>4. ~torn => ClockHeld(a)'
  BY <1>2 DEF ClockHeld, ClockStory, Attendance!ClockedIn
<1>5. /\ \A e \in Attendance!Dates : ClockThere(rows'[e]) /\ (rows[e].exists => rows'[e].exists)
      /\ edited \subseteq edited' /\ edited' \subseteq Attendance!Dates
      /\ rows' \in [Attendance!Dates -> Attendance!Row]
  BY <1>2, ClockTyped DEF ClockInv
<1>6. ~torn => \A e \in Attendance!Dates \ edited' : rows'[e].exists => ClockStory(rows[e])'
  BY <1>2, <1>5 DEF ClockInv, ClockStory, Attendance!ClockedIn
<1> QED
  BY <1>2, <1>3, <1>4, <1>5, <1>6 DEF ClockKept

\* An actor that saves: one row is written, and is there then.
LEMMA ClockSaveKeeps ==
  ASSUME ClockInv, NEW a \in Attendance!Actors, Attendance!SaveStep(a)
  PROVE  /\ ClockKept(a) /\ due' = due /\ missed' = missed /\ edited' = edited
         /\ pc[a] \in {"saving", "updating"} /\ pc'[a] \in {"idle", "updating"}
         /\ \A d \in Attendance!Dates \ {local[a].date} : rows'[d] = rows[d]
         /\ pc'[a] = "idle" => rows'[local[a].date].exists
         /\ pc'[a] = "updating" =>
              rows' = rows /\ local'[a].date = local[a].date /\ local'[a].row = local[a].row
         /\ \/ rows'[local[a].date].clockIn = rows[local[a].date].clockIn
            \/ /\ rows'[local[a].date].clockIn = local[a].row.clockIn
               /\ ~rows[local[a].date].exists \/ (pc[a] = "updating" /\ pc'[a] = "idle")
<1> DEFINE e == local[a].date
           held == local[a].row
<1>0. /\ e \in Attendance!Dates /\ held \in Attendance!Row /\ rows[e] \in Attendance!Row
      /\ ClockRole(a) /\ (~torn => ClockHeld(a)) /\ local[a] \in ClockLocals
      /\ rows \in [Attendance!Dates -> Attendance!Row] /\ edited \subseteq Attendance!Dates
      /\ \A d \in Attendance!Dates : ClockThere(rows[d])
      /\ ~torn => \A d \in Attendance!Dates \ edited : rows[d].exists => ClockStory(rows[d])
  BY ClockHas, ClockTyped DEF ClockInv
<1>1. CASE Attendance!Insert(a)
  <2> DEFINE row == [held EXCEPT !.exists = TRUE]
  <2>1. /\ row \in Attendance!Row /\ row.exists /\ row.clockIn = held.clockIn
        /\ row.clockOut = held.clockOut /\ row.status = held.status
    BY <1>0 DEF Attendance!Row
  <2>2. /\ pc[a] = "saving" /\ Attendance!Return(a) /\ now' = now /\ due' = due /\ missed' = missed
        /\ edited' = edited
        /\ rows' = IF rows[e].exists THEN rows ELSE [rows EXCEPT ![e] = row]
    BY <1>1 DEF Attendance!Insert, Attendance!Aside
  <2> HIDE DEF row
  <2>3. /\ pc' \in [Attendance!Actors -> Attendance!Steps]
        /\ local' \in [Attendance!Actors -> ClockLocals]
        /\ \A b \in Attendance!Actors \ {a} : pc'[b] = pc[b] /\ local'[b] = local[b]
        /\ pc'[a] = "idle" /\ ClockHeld(a)' /\ ClockRole(a)'
    BY <2>2, ClockReturnMoves
  <2>4. /\ rows' \in [Attendance!Dates -> Attendance!Row]
        /\ \A d \in Attendance!Dates \ {e} : rows'[d] = rows[d]
        /\ rows'[e].exists
        /\ rows'[e] = rows[e] \/ (rows'[e] = row /\ ~rows[e].exists)
    BY <1>0, <2>1, <2>2
  <2>5. ~torn /\ e \notin edited => ClockStory(held)
    BY <1>0, <2>2 DEF ClockHeld
  <2>6. \A d \in Attendance!Dates : ClockThere(rows'[d]) /\ (rows[d].exists => rows'[d].exists)
    BY <1>0, <2>4 DEF ClockThere
  <2>7. ~torn => \A d \in Attendance!Dates \ edited' : rows'[d].exists => ClockStory(rows[d])'
    BY <1>0, <2>1, <2>2, <2>4, <2>5 DEF ClockStory, Attendance!ClockedIn
  <2> QED
    BY <1>0, <2>1, <2>2, <2>3, <2>4, <2>6, <2>7 DEF ClockKept
<1>2. CASE Attendance!SaveSelect(a)
  <2> DEFINE cols == local[a].cols \cup Attendance!Differing(rows[e], held)
  <2>1. /\ pc[a] = "saving" /\ held.exists /\ rows' = rows
        /\ pc' = [pc EXCEPT ![a] = "updating"]
        /\ local' = [local EXCEPT ![a] = [local[a] EXCEPT !.cols = cols]]
        /\ now' = now /\ due' = due /\ missed' = missed /\ edited' = edited
    BY <1>2, ClockTyped DEF Attendance!SaveSelect, Attendance!Compare, Attendance!Goto,
       Attendance!Hold, Attendance!Aside
  <2>2. cols \in SUBSET DOMAIN Attendance!NoRow
    BY <1>0, ClockMerge DEF ClockLocals
  <2>3. Attendance!Differing(rows[e], held) \subseteq cols
    OBVIOUS
  <2> DEFINE read == [local[a] EXCEPT !.cols = cols]
  <2>4. read \in ClockLocals /\ read.date = e /\ read.row = held /\ read.cols = cols
    <3> HIDE DEF cols
    <3> DEFINE Some == SUBSET DOMAIN Attendance!NoRow
    <3>1. local[a] \in [date : Attendance!Dates, row : Attendance!Row, cols : Some] /\ cols \in Some
      BY <1>0, <2>2 DEF ClockLocals
    <3> HIDE DEF Some
    <3>2. /\ read \in [date : Attendance!Dates, row : Attendance!Row, cols : Some]
          /\ read.date = e /\ read.row = held /\ read.cols = cols
      BY <3>1
    <3> QED
      BY <3>2 DEF ClockLocals, Some
  <2>5. local' = [local EXCEPT ![a] = read]
    BY <2>1
  <2> HIDE DEF cols, read
  <2>6. /\ pc' \in [Attendance!Actors -> Attendance!Steps]
        /\ local' \in [Attendance!Actors -> ClockLocals]
        /\ \A b \in Attendance!Actors \ {a} : pc'[b] = pc[b] /\ local'[b] = local[b]
        /\ pc'[a] = "updating" /\ local'[a].date = e /\ local'[a].row = held /\ local'[a].cols = cols
    BY <2>1, <2>4, <2>5, ClockTyped DEF Attendance!Steps
  <2>7. ClockRole(a)'
    BY <1>0, <2>1, <2>6 DEF ClockRole, Attendance!ClockedIn
  <2>8. ~torn => ClockHeld(a)'
    BY <1>0, <2>1, <2>3, <2>6 DEF ClockHeld, ClockStory, Attendance!ClockedIn, Attendance!Differing
  <2>9. ~torn => \A d \in Attendance!Dates \ edited' : rows'[d].exists => ClockStory(rows[d])'
    BY <1>0, <2>1 DEF ClockStory, Attendance!ClockedIn
  <2> QED
    BY <1>0, <2>1, <2>6, <2>7, <2>8, <2>9 DEF ClockKept
<1>3. CASE Attendance!Save(a)
  <2> DEFINE row == Attendance!Merged(rows[e], held, local[a].cols)
  <2>1. /\ pc[a] = "updating" /\ Attendance!Return(a) /\ now' = now /\ due' = due /\ missed' = missed
        /\ edited' = edited
        /\ rows' = [rows EXCEPT ![e] = row]
    BY <1>0, <1>3 DEF Attendance!Save, Attendance!Aside
  <2>2. /\ row \in Attendance!Row /\ row.clockIn \in {rows[e].clockIn, held.clockIn} /\ row.exists
        /\ rows[e].exists /\ (~torn => row = held)
    BY <1>0, <2>1, ClockMerge DEF ClockRole, ClockHeld
  <2> HIDE DEF row
  <2>3. /\ pc' \in [Attendance!Actors -> Attendance!Steps]
        /\ local' \in [Attendance!Actors -> ClockLocals]
        /\ \A b \in Attendance!Actors \ {a} : pc'[b] = pc[b] /\ local'[b] = local[b]
        /\ pc'[a] = "idle" /\ ClockHeld(a)' /\ ClockRole(a)'
    BY <2>1, ClockReturnMoves
  <2>4. /\ rows' \in [Attendance!Dates -> Attendance!Row]
        /\ \A d \in Attendance!Dates \ {e} : rows'[d] = rows[d]
        /\ rows'[e] = row
    BY <1>0, <2>1, <2>2
  <2>5. ~torn /\ e \notin edited => ClockStory(held)
    BY <1>0, <2>1 DEF ClockHeld
  <2>6. \A d \in Attendance!Dates : ClockThere(rows'[d]) /\ (rows[d].exists => rows'[d].exists)
    BY <1>0, <2>2, <2>4 DEF ClockThere
  <2>7. ~torn => \A d \in Attendance!Dates \ edited' : rows'[d].exists => ClockStory(rows[d])'
    BY <1>0, <2>1, <2>2, <2>4, <2>5 DEF ClockStory, Attendance!ClockedIn
  <2> QED
    BY <1>0, <2>1, <2>2, <2>3, <2>4, <2>6, <2>7 DEF ClockKept
<1> QED
  BY <1>1, <1>2, <1>3 DEF Attendance!SaveStep

\* What a request does besides.
ClockAsked(r) ==
  /\ ClockKept(r) /\ due' = due /\ missed' = missed
  /\ ClockFresh(r) =>
       /\ ClockFresh(r)'
       /\ \A d \in Attendance!Dates \ edited' :
            Attendance!ClockedIn(rows[d]) => rows'[d].clockIn = rows[d].clockIn

\* A request that makes something of the row it has read.
LEMMA ClockLoadAsked ==
  ASSUME ClockInv, NEW r \in Handlers, NEW d \in Attendance!Dates,
         NEW row \in Attendance!Row, NEW cols \in SUBSET DOMAIN Attendance!NoRow,
         Attendance!Load(r, d, row, cols), now' = now, due' = due, missed' = missed,
         edited' \in {edited, edited \cup {d}},
         row.exists = rows[d].exists,
         ~torn /\ d \notin edited' => ClockStory(row),
         d \notin edited' /\ Attendance!ClockedIn(rows[d]) => row.clockIn = rows[d].clockIn
  PROVE  ClockAsked(r)
<1>1. r \in Attendance!Actors /\ r \notin Replicas
  BY ClockFacts DEF Attendance!Actors
<1>2. /\ ClockKept(r) /\ rows' = rows
      /\ pc'[r] = "saving" /\ local'[r].date = d /\ local'[r].row = row
  BY <1>1, ClockLoadKeeps
<1>3. ClockFresh(r)'
  BY <1>2 DEF ClockFresh, Attendance!ClockedIn
<1> QED
  BY <1>2, <1>3 DEF ClockAsked

\* Every request.
LEMMA ClockRequestKeeps ==
  ASSUME ClockInv, NEW r \in Handlers, Attendance!RequestStep(r)
  PROVE  ClockAsked(r)
<1> DEFINE t == Attendance!Today
<1>0. /\ r \in Attendance!Actors /\ t \in Attendance!Dates /\ now \in Attendance!Times /\ now \in Int
      /\ Attendance!NoTime \notin Attendance!Times
      /\ \A d \in Attendance!Dates :
           /\ rows[d] \in Attendance!Row /\ ClockThere(rows[d])
           /\ ~torn /\ d \notin edited /\ rows[d].exists => ClockStory(rows[d])
      /\ edited \in {edited}
  BY ClockTyped, ClockFacts DEF Attendance!Actors, ClockInv
<1>1. CASE Attendance!ClockIn(r)
  <2> DEFINE row == Attendance!Arrived
  <2>1. /\ row \in Attendance!Row /\ row.exists = rows[t].exists /\ row.clockIn = now
        /\ row.status = "normal" /\ row.clockOut = rows[t].clockOut
    BY <1>0 DEF Attendance!Arrived, Attendance!Row, Attendance!Statuses
  <2>2. /\ ~Attendance!ClockedIn(rows[t]) /\ Attendance!Load(r, t, row, {"clockIn"})
        /\ now' = now /\ due' = due /\ missed' = missed /\ edited' = edited
    BY <1>1 DEF Attendance!ClockIn, Attendance!Aside
  <2>3. ~torn /\ t \notin edited => rows[t].clockOut = Attendance!NoTime
    BY <1>0, <2>2, ClockEmpty DEF ClockStory, ClockThere
  <2> HIDE DEF row
  <2>4. ~torn /\ t \notin edited => ClockStory(row)
    BY <1>0, <2>1, <2>3 DEF ClockStory, Attendance!ClockedIn
  <2> QED
    BY <1>0, <2>1, <2>2, <2>4, ClockEmpty, ClockLoadAsked
<1>2. CASE Attendance!ClockOut(r)
  <2> DEFINE row == [rows[t] EXCEPT !.clockOut = now]
  <2>1. /\ row \in Attendance!Row /\ row.exists = rows[t].exists /\ row.clockIn = rows[t].clockIn
        /\ row.status = rows[t].status /\ row.clockOut = now
    BY <1>0 DEF Attendance!Row
  <2>2. /\ Attendance!ClockedIn(rows[t]) /\ rows[t].clockOut = Attendance!NoTime
        /\ Attendance!Load(r, t, row, {"clockOut"})
        /\ now' = now /\ due' = due /\ missed' = missed /\ edited' = edited
    BY <1>2 DEF Attendance!ClockOut, Attendance!Aside
  <2> HIDE DEF row
  <2>3. ~torn /\ t \notin edited => ClockStory(rows[t])
    BY <1>0, <2>2, ClockEmpty DEF ClockThere
  <2>4. ~torn /\ t \notin edited => ClockStory(row)
    BY <1>0, <2>1, <2>2, <2>3 DEF ClockStory, Attendance!ClockedIn
  <2> QED
    BY <1>0, <2>1, <2>2, <2>4, ClockEmpty, ClockLoadAsked
<1>3. ASSUME NEW d \in Attendance!Dates, Attendance!Correct(r, d)
      PROVE  ClockAsked(r)
  <2>1. /\ edited' = edited \cup {d} /\ now' = now /\ due' = due /\ missed' = missed
    BY <1>3 DEF Attendance!Correct
  <2>2. PICK row \in Attendance!Row, cols \in SUBSET DOMAIN Attendance!NoRow :
          Attendance!Load(r, d, row, cols) /\ row.exists = rows[d].exists
    <3>1. CASE Attendance!Load(r, d, [rows[d] EXCEPT !.clockIn = now], {"clockIn"})
      <4>1. /\ [rows[d] EXCEPT !.clockIn = now] \in Attendance!Row
            /\ [rows[d] EXCEPT !.clockIn = now].exists = rows[d].exists
        BY <1>0 DEF Attendance!Row
      <4> QED
        BY <3>1, <4>1, ClockEmpty
    <3>2. CASE Attendance!Load(r, d, [rows[d] EXCEPT !.clockOut = now], {"clockOut"})
      <4>1. /\ [rows[d] EXCEPT !.clockOut = now] \in Attendance!Row
            /\ [rows[d] EXCEPT !.clockOut = now].exists = rows[d].exists
        BY <1>0 DEF Attendance!Row
      <4> QED
        BY <3>2, <4>1, ClockEmpty
    <3>3. ASSUME NEW status \in Attendance!Statuses,
                 Attendance!Load(r, d, [rows[d] EXCEPT !.status = status], {})
          PROVE  \E row \in Attendance!Row, cols \in SUBSET DOMAIN Attendance!NoRow :
                   Attendance!Load(r, d, row, cols) /\ row.exists = rows[d].exists
      <4>1. /\ [rows[d] EXCEPT !.status = status] \in Attendance!Row
            /\ [rows[d] EXCEPT !.status = status].exists = rows[d].exists
        BY <1>0 DEF Attendance!Row
      <4> QED
        BY <3>3, <4>1, ClockEmpty
    <3> QED
      BY <1>3, <3>1, <3>2, <3>3 DEF Attendance!Correct
  <2>3. d \in edited' /\ edited' \in {edited, edited \cup {d}}
    BY <2>1
  <2> QED
    BY <2>1, <2>2, <2>3, ClockLoadAsked
<1>4. ASSUME NEW d \in Trips, Attendance!MarkTrip(r, d)
      PROVE  ClockAsked(r)
  <2> DEFINE u == Attendance!TripTime(d)
             row == [rows[d] EXCEPT !.clockIn = u, !.clockOut = u, !.status = "normal"]
  <2>0. d \in Attendance!Dates /\ u \in Attendance!Times /\ u \in Int
    <3>1. d \in Attendance!Dates /\ u \in Attendance!Times /\ Attendance!Times \subseteq Nat
      BY ClockFacts
    <3> HIDE DEF u
    <3> QED
      BY <3>1
  <2>1. /\ row \in Attendance!Row /\ row.exists = rows[d].exists /\ row.clockIn = u
        /\ row.status = "normal" /\ row.clockOut = u
    BY <1>0, <2>0 DEF Attendance!Row, Attendance!Statuses
  <2>2. /\ ~Attendance!ClockedIn(rows[d]) /\ Attendance!Load(r, d, row, {})
        /\ now' = now /\ due' = due /\ missed' = missed /\ edited' = edited
    BY <1>4 DEF Attendance!MarkTrip, Attendance!Aside
  <2> HIDE DEF row, u
  <2>3. ClockStory(row)
    BY <1>0, <2>0, <2>1 DEF ClockStory, Attendance!ClockedIn
  <2> QED
    BY <1>0, <2>0, <2>1, <2>2, <2>3, ClockEmpty, ClockLoadAsked
<1>5. CASE Attendance!SaveStep(r)
  <2> DEFINE e == local[r].date
  <2>1. /\ ClockKept(r) /\ due' = due /\ missed' = missed /\ edited' = edited
        /\ pc[r] \in {"saving", "updating"} /\ pc'[r] \in {"idle", "updating"}
        /\ \A d \in Attendance!Dates \ {e} : rows'[d] = rows[d]
        /\ pc'[r] = "updating" =>
             rows' = rows /\ local'[r].date = e /\ local'[r].row = local[r].row
        /\ \/ rows'[e].clockIn = rows[e].clockIn
           \/ rows'[e].clockIn = local[r].row.clockIn
    BY <1>0, <1>5, ClockSaveKeeps
  <2> HIDE DEF e
  <2>2. ClockFresh(r) => ClockFresh(r)'
    BY <2>1 DEF ClockFresh, Attendance!ClockedIn, e
  <2>3. ClockFresh(r) => \A d \in Attendance!Dates \ edited' :
          Attendance!ClockedIn(rows[d]) => rows'[d].clockIn = rows[d].clockIn
    BY <2>1 DEF ClockFresh, e
  <2> QED
    BY <2>1, <2>2, <2>3 DEF ClockAsked
<1> QED
  BY <1>1, <1>2, <1>3, <1>4, <1>5 DEF Attendance!RequestStep

\* What a step of an actor leaves of the others, as long as no UPDATE falls between
\* the two statements of another save.
LEMMA ClockOthers ==
  ASSUME ClockInv, NEW a \in Attendance!Actors, ClockKept(a), Attendance!Tear(a),
         NEW b \in Attendance!Actors \ {a}
  PROVE  ClockRole(b)' /\ (~torn' => ClockHeld(b)')
<1>1. local[b].date \in Attendance!Dates /\ ClockRole(b) /\ (~torn => ClockHeld(b))
  BY ClockHas
<1>2. pc'[b] = pc[b] /\ local'[b] = local[b]
  BY DEF ClockKept
<1>3. ClockRole(b)'
  BY <1>1, <1>2 DEF ClockKept, ClockRole, Attendance!ClockedIn
<1>4. ~torn' => ~torn /\ (pc[b] = "updating" => rows'[local[b].date] = rows[local[b].date])
  BY <1>1 DEF Attendance!Tear, Attendance!Halfway
<1> QED
  BY <1>1, <1>2, <1>3, <1>4 DEF ClockKept, ClockHeld, ClockStory, Attendance!ClockedIn,
     Attendance!Differing

\* A request keeps the invariant.
LEMMA ClockRequestHolds ==
  ASSUME ClockInv, NEW r \in Handlers, Attendance!RequestStep(r), Attendance!Overlap(r),
         Attendance!Tear(r)
  PROVE  ClockInv' /\ (ClockSoloInv => ClockSoloInv' /\ Attendance!FirstKept)
<1>1. r \in Attendance!Actors /\ ClockAsked(r) /\ ClockKept(r)
  BY ClockRequestKeeps DEF Attendance!Actors, ClockAsked
<1>2. Attendance!Today' = Attendance!Today
  BY <1>1 DEF Attendance!Today, ClockKept
<1>3. Attendance!TypeOK'
  <2>1. overlapped' \in BOOLEAN /\ torn' \in BOOLEAN
    BY ClockTyped DEF Attendance!Overlap, Attendance!Tear
  <2> QED
    BY <1>1, <2>1, ClockTyped DEF Attendance!TypeOK, ClockAsked, ClockKept, ClockLocals
<1>4. \A d \in Attendance!Dates : ClockThere(rows[d])'
  BY <1>1 DEF ClockKept, ClockThere
<1>5. \A a \in Attendance!Actors : ClockRole(a)' /\ (~torn' => ClockHeld(a)')
  BY <1>1, ClockOthers DEF ClockKept, Attendance!Tear
<1>6. \A k \in Replicas : k \in Attendance!Actors \ {r} /\ pc'[k] = pc[k] /\ local'[k] = local[k]
  BY <1>1, ClockFacts DEF ClockKept, Attendance!Actors
<1>7. \A k \in Replicas : ClockTimer(k)'
  BY <1>1, <1>2, <1>6 DEF ClockInv, ClockTimer, ClockAsked, ClockKept
<1>8. ClockSettled'
  BY <1>1, <1>6, ClockFacts DEF ClockInv, ClockSettled, ClockSettling, ClockAsked, ClockKept
<1>9. ~torn' => \A d \in Attendance!Dates \ edited' : rows'[d].exists => ClockStory(rows[d])'
  BY <1>1 DEF ClockKept, Attendance!Tear
<1>10. ClockInv'
  BY <1>3, <1>4, <1>5, <1>7, <1>8, <1>9 DEF ClockInv
<1>11. ASSUME ClockSoloInv
       PROVE  ClockSoloInv' /\ Attendance!FirstKept
  <2>1. ASSUME ~overlapped'
        PROVE  /\ \A q \in Handlers : ClockFresh(q)'
               /\ \A d \in Attendance!Dates \ edited' :
                    Attendance!ClockedIn(rows[d]) => rows'[d].clockIn = rows[d].clockIn
    <3>1. ~overlapped /\ \A q \in Handlers \ {r} : pc'[q] = "idle"
      BY <1>1, <2>1 DEF Attendance!Overlap, Attendance!InFlight, ClockKept, Attendance!Actors
    <3>2. \A q \in Handlers \ {r} : ClockFresh(q)'
      BY <3>1 DEF ClockFresh
    <3> QED
      BY <1>1, <1>11, <3>1, <3>2 DEF ClockSoloInv, ClockAsked
  <2> QED
    BY <2>1 DEF ClockSoloInv, Attendance!FirstKept
<1> QED
  BY <1>10, <1>11

\* A step of the timer keeps the invariant, and a clock-in is changed by it in no
\* other way than by taking it away, in an UPDATE.
LEMMA ClockTimerHolds ==
  ASSUME ClockInv, NEW k \in Replicas, Attendance!TimerStep(k), Attendance!Tear(k),
         overlapped' = overlapped
  PROVE  ClockInv' /\ (ClockSoloInv => ClockSoloInv' /\ Attendance!FirstKept)
<1> DEFINE t == Attendance!Today
<1>0. /\ k \in Attendance!Actors /\ k \notin Handlers /\ t \in Attendance!Dates /\ t \in Nat
      /\ \A d \in Attendance!Dates : d \in Nat
      /\ ClockTimer(k) /\ ClockRole(k)
      /\ rows[t] \in Attendance!Row /\ ClockThere(rows[t]) /\ local[k].date \in Attendance!Dates
      /\ due \subseteq Replicas /\ missed \subseteq Replicas \X Attendance!Dates
      /\ edited \in {edited} /\ edited \subseteq Attendance!Dates
      /\ rows \in [Attendance!Dates -> Attendance!Row]
  <2>1. k \in Attendance!Actors /\ k \notin Handlers /\ t \in Attendance!Dates
    BY ClockTyped, ClockFacts DEF Attendance!Actors
  <2> QED
    BY <2>1, ClockTyped, ClockFacts, ClockHas DEF ClockInv
<1>1. /\ ClockKept(k) /\ edited' = edited
      /\ due' \subseteq Replicas /\ \A l \in Replicas \ {k} : l \in due' <=> l \in due
      /\ missed \subseteq missed' /\ missed' \subseteq Replicas \X Attendance!Dates
      /\ ClockTimer(k)'
      /\ \A d \in Shifts : now = 3 * d + 2 /\ ClockSettling(d, k) => ClockSettling(d, k)'
      /\ \A d \in Attendance!Dates :
           \/ rows'[d].clockIn = rows[d].clockIn
           \/ /\ ~Attendance!ClockedIn(rows'[d])
              /\ ~rows[d].exists \/ (pc[k] = "updating" /\ pc'[k] = "idle")
  <2>t. now' = now => Attendance!Today' = t
    BY DEF Attendance!Today
  <2>d. ASSUME NEW d \in Shifts, now = 3 * d + 2, k \in due \/ pc[k] # "idle"
        PROVE  d = t
    <3>1. d \in Nat /\ now = 3 * t + 2
      BY <1>0, <2>d, ClockFacts DEF ClockTimer
    <3> QED
      BY <1>0, <2>d, <3>1
  <2>1. CASE Attendance!AbsentSelect(k)
    <3>1. /\ k \in due /\ due' = due \ {k} /\ rows' = rows /\ now' = now /\ local' = local
          /\ edited' = edited /\ missed' = missed
          /\ \/ pc' = [pc EXCEPT ![k] = "absentees"]
             \/ pc' = pc /\ (t \in Shifts => Attendance!ClockedIn(rows[t]))
      BY <2>1 DEF Attendance!AbsentSelect, Attendance!Goto
    <3>2. /\ pc' \in [Attendance!Actors -> Attendance!Steps]
          /\ \A b \in Attendance!Actors \ {k} : pc'[b] = pc[b]
          /\ pc[k] = "idle" /\ now = 3 * t + 2
          /\ \/ pc'[k] = "absentees"
             \/ pc'[k] = "idle" /\ (t \in Shifts => Attendance!ClockedIn(rows[t]))
      BY <1>0, <3>1, ClockTyped DEF Attendance!Steps, ClockTimer
    <3>3. ClockRole(k)' /\ ClockHeld(k)' /\ ClockTimer(k)'
      BY <1>0, <2>t, <3>1, <3>2 DEF ClockRole, ClockHeld, ClockTimer
    <3>4. ClockKept(k)
      BY <3>1, <3>2, <3>3, ClockTyped DEF ClockKept, ClockInv, ClockStory, Attendance!ClockedIn
    <3>5. ASSUME NEW d \in Shifts, now = 3 * d + 2
          PROVE  ClockSettling(d, k)'
      <4>1. d = t
        BY <2>d, <3>1, <3>5
      <4> QED
        BY <1>0, <3>1, <3>2, <4>1, ClockEmpty DEF ClockSettling, ClockThere
    <3> QED
      BY <1>0, <3>1, <3>3, <3>4, <3>5
  <2>2. CASE Attendance!AbsentFind(k)
    <3>1. /\ pc[k] = "absentees" /\ now' = now /\ due' = due /\ edited' = edited /\ missed' = missed
          /\ k \notin due /\ now = 3 * t + 2
      BY <1>0, <2>2 DEF Attendance!AbsentFind, Attendance!Aside, ClockTimer
    <3>2. CASE Attendance!ClockedIn(rows[t])
      <4>1. rows' = rows /\ Attendance!Return(k) /\ rows[t].exists
        BY <1>0, <2>2, <3>2, ClockEmpty DEF Attendance!AbsentFind, ClockThere
      <4>2. /\ pc' \in [Attendance!Actors -> Attendance!Steps]
            /\ local' \in [Attendance!Actors -> ClockLocals]
            /\ \A b \in Attendance!Actors \ {k} : pc'[b] = pc[b] /\ local'[b] = local[b]
            /\ pc'[k] = "idle" /\ ClockHeld(k)' /\ ClockRole(k)'
        BY <1>0, <4>1, ClockReturnMoves
      <4>3. ClockKept(k)
        BY <3>1, <4>1, <4>2, ClockTyped DEF ClockKept, ClockInv, ClockStory, Attendance!ClockedIn
      <4>4. ClockTimer(k)'
        BY <3>1, <4>2 DEF ClockTimer
      <4>5. ASSUME NEW d \in Shifts, now = 3 * d + 2
            PROVE  ClockSettling(d, k)'
        BY <2>d, <3>1, <4>1, <4>5 DEF ClockSettling
      <4> QED
        BY <1>0, <3>1, <4>1, <4>3, <4>4, <4>5
    <3>3. CASE ~Attendance!ClockedIn(rows[t])
      <4> DEFINE row == [rows[t] EXCEPT !.status = "absent"]
      <4>1. /\ row \in Attendance!Row /\ row.exists = rows[t].exists /\ row.status = "absent"
            /\ row.clockIn = rows[t].clockIn /\ row.clockOut = rows[t].clockOut
        BY <1>0 DEF Attendance!Row, Attendance!Statuses
      <4>2. Attendance!Load(k, t, row, {})
        BY <2>2, <3>3 DEF Attendance!AbsentFind
      <4> HIDE DEF row
      <4>3. ~torn /\ t \notin edited => rows[t].clockOut = Attendance!NoTime
        BY <1>0, <3>3, ClockEmpty DEF ClockInv, ClockStory, ClockThere
      <4>4. /\ ~Attendance!ClockedIn(row)
            /\ ~torn /\ t \notin edited => ClockStory(row)
        BY <3>3, <4>1, <4>3 DEF ClockStory, Attendance!ClockedIn
      <4>5. /\ ClockKept(k) /\ rows' = rows
            /\ pc'[k] = "saving" /\ local'[k].date = t /\ local'[k].row = row
        BY <1>0, <3>1, <4>1, <4>2, <4>4, ClockEmpty, ClockLoadKeeps
      <4>6. ClockTimer(k)'
        BY <2>t, <3>1, <4>5 DEF ClockTimer
      <4>7. ASSUME NEW d \in Shifts, now = 3 * d + 2
            PROVE  ClockSettling(d, k)'
        BY <2>d, <3>1, <4>5, <4>7 DEF ClockSettling
      <4> QED
        BY <1>0, <3>1, <4>5, <4>6, <4>7
    <3> QED
      BY <3>2, <3>3
  <2>3. CASE Attendance!AbsentEnds(k)
    <3>1. /\ k \in due \/ (pc[k] # "idle" /\ due' = due \ {k})
          /\ missed' = missed \cup {<<k, t>>} /\ Attendance!Return(k)
          /\ due' = due \ {k} /\ rows' = rows /\ now' = now /\ edited' = edited
      BY <2>3 DEF Attendance!AbsentEnds, Attendance!InFlight
    <3>2. /\ pc' \in [Attendance!Actors -> Attendance!Steps]
          /\ local' \in [Attendance!Actors -> ClockLocals]
          /\ \A b \in Attendance!Actors \ {k} : pc'[b] = pc[b] /\ local'[b] = local[b]
          /\ pc'[k] = "idle" /\ ClockHeld(k)' /\ ClockRole(k)'
      BY <1>0, <3>1, ClockReturnMoves
    <3>3. ClockKept(k)
      BY <3>1, <3>2, ClockTyped DEF ClockKept, ClockInv, ClockStory, Attendance!ClockedIn
    <3>4. ClockTimer(k)'
      BY <3>1, <3>2 DEF ClockTimer
    <3>5. ASSUME NEW d \in Shifts, now = 3 * d + 2
          PROVE  ClockSettling(d, k)'
      <4>1. d = t
        BY <2>d, <3>1, <3>5
      <4> QED
        BY <3>1, <4>1 DEF ClockSettling
    <3>6. <<k, t>> \in Replicas \X Attendance!Dates
      BY <1>0
    <3> QED
      BY <1>0, <3>1, <3>3, <3>4, <3>5, <3>6
  <2>4. CASE Attendance!SaveStep(k)
    <3> DEFINE e == local[k].date
    <3>1. /\ ClockKept(k) /\ due' = due /\ missed' = missed /\ edited' = edited
          /\ pc[k] \in {"saving", "updating"} /\ pc'[k] \in {"idle", "updating"}
          /\ \A d \in Attendance!Dates \ {e} : rows'[d] = rows[d]
          /\ pc'[k] = "idle" => rows'[e].exists
          /\ pc'[k] = "updating" =>
               rows' = rows /\ local'[k].date = e /\ local'[k].row = local[k].row
          /\ \/ rows'[e].clockIn = rows[e].clockIn
             \/ /\ rows'[e].clockIn = local[k].row.clockIn
                /\ ~rows[e].exists \/ (pc[k] = "updating" /\ pc'[k] = "idle")
      BY <1>0, <2>4, ClockSaveKeeps
    <3>2. e = t /\ k \notin due /\ now = 3 * t + 2 /\ now' = now
          /\ ~Attendance!ClockedIn(local[k].row)
      BY <1>0, <3>1 DEF ClockTimer, ClockRole, ClockKept
    <3> HIDE DEF e
    <3>3. ClockTimer(k)'
      BY <2>t, <3>1, <3>2 DEF ClockTimer
    <3>4. ASSUME NEW d \in Shifts, now = 3 * d + 2
          PROVE  ClockSettling(d, k)'
      <4>1. d = e
        BY <2>d, <3>1, <3>2, <3>4
      <4> QED
        BY <3>1, <4>1 DEF ClockSettling
    <3>5. \A d \in Attendance!Dates :
            \/ rows'[d].clockIn = rows[d].clockIn
            \/ /\ ~Attendance!ClockedIn(rows'[d])
               /\ ~rows[d].exists \/ (pc[k] = "updating" /\ pc'[k] = "idle")
      BY <3>1, <3>2 DEF Attendance!ClockedIn
    <3> QED
      BY <1>0, <3>1, <3>3, <3>4, <3>5
  <2> QED
    BY <2>1, <2>2, <2>3, <2>4 DEF Attendance!TimerStep
<1>2. Attendance!Today' = Attendance!Today /\ now' = now
  BY <1>1 DEF Attendance!Today, ClockKept
<1>3. Attendance!TypeOK'
  <2>1. overlapped' \in BOOLEAN /\ torn' \in BOOLEAN
    BY ClockTyped DEF Attendance!Tear
  <2> QED
    BY <1>1, <2>1, ClockTyped DEF Attendance!TypeOK, ClockKept, ClockLocals
<1>4. \A d \in Attendance!Dates : ClockThere(rows[d])'
  BY <1>1 DEF ClockKept, ClockThere
<1>5. \A a \in Attendance!Actors : ClockRole(a)' /\ (~torn' => ClockHeld(a)')
  BY <1>0, <1>1, ClockOthers DEF ClockKept, Attendance!Tear
<1>6. \A l \in Replicas \ {k} : l \in Attendance!Actors \ {k} /\ pc'[l] = pc[l] /\ local'[l] = local[l]
  BY <1>1 DEF ClockKept, Attendance!Actors
<1>7. \A l \in Replicas : ClockTimer(l)'
  BY <1>1, <1>2, <1>6 DEF ClockInv, ClockTimer
<1>8. ClockSettled'
  <2> SUFFICES ASSUME NEW d \in Shifts
               PROVE  /\ now > 3 * d + 2 => rows'[d].exists \/ \A l \in Replicas : <<l, d>> \in missed'
                      /\ now = 3 * d + 2 => \A l \in Replicas : ClockSettling(d, l)'
    BY <1>2 DEF ClockSettled
  <2>1. d \in Attendance!Dates
    BY ClockFacts
  <2>2. rows[d].exists => rows'[d].exists
    BY <1>1, <2>1 DEF ClockKept
  <2>3. ASSUME now = 3 * d + 2, NEW l \in Replicas
        PROVE  ClockSettling(d, l)'
    <3>1. ClockSettling(d, l)
      BY <2>3 DEF ClockInv, ClockSettled
    <3>2. CASE l = k
      BY <1>1, <2>3, <3>1, <3>2
    <3>3. CASE l # k
      BY <1>1, <1>6, <2>2, <3>1, <3>3 DEF ClockSettling
    <3> QED
      BY <3>2, <3>3
  <2> QED
    BY <1>1, <2>2, <2>3 DEF ClockInv, ClockSettled
<1>9. ~torn' => \A d \in Attendance!Dates \ edited' : rows'[d].exists => ClockStory(rows[d])'
  BY <1>1 DEF ClockKept, Attendance!Tear
<1>10. ClockInv'
  BY <1>3, <1>4, <1>5, <1>7, <1>8, <1>9 DEF ClockInv
<1>11. ASSUME NEW d \in Attendance!Dates
       PROVE  \/ rows'[d].clockIn = rows[d].clockIn
              \/ /\ ~Attendance!ClockedIn(rows'[d])
                 /\ ~Attendance!ClockedIn(rows[d]) \/ (pc[k] = "updating" /\ pc'[k] = "idle")
  <2>1. ~rows[d].exists => ~Attendance!ClockedIn(rows[d])
    BY ClockEmpty DEF ClockInv, ClockThere
  <2> QED
    BY <1>1, <2>1
<1>12. Attendance!FirstKept
  BY <1>1, <1>11 DEF Attendance!FirstKept
<1>13. ASSUME ClockSoloInv, ~overlapped, NEW r \in Handlers
       PROVE  ClockFresh(r)'
  <2>1. /\ r \in Attendance!Actors \ {k} /\ pc'[r] = pc[r] /\ local'[r] = local[r]
        /\ local[r].date \in Attendance!Dates
    BY <1>0, <1>1, ClockHas DEF ClockKept, Attendance!Actors
  <2>2. ClockFresh(r)
    BY <1>13 DEF ClockSoloInv
  <2> QED
    BY <1>1, <1>11, <2>1, <2>2 DEF ClockFresh, Attendance!ClockedIn
<1> QED
  BY <1>10, <1>12, <1>13 DEF ClockSoloInv

\* The day goes on.
LEMMA ClockTickHolds ==
  ASSUME ClockInv, Attendance!Tick, overlapped' = overlapped, torn' = torn
  PROVE  ClockInv' /\ (ClockSoloInv => ClockSoloInv' /\ Attendance!FirstKept)
<1>1. /\ now < LastTime /\ due = {} /\ now' = now + 1 /\ now' \in 3 .. LastTime
      /\ \A a \in Attendance!Actors : pc[a] = "idle"
      /\ rows' = rows /\ pc' = pc /\ local' = local /\ edited' = edited /\ missed' = missed
      /\ due' = IF now' % 3 = 2 THEN Replicas ELSE {}
  BY ClockTyped, ClockFacts DEF Attendance!Tick
<1>2. \A k \in Replicas : k \in Attendance!Actors
  BY DEF Attendance!Actors
<1>3. Attendance!TypeOK' /\ \A d \in Attendance!Dates : ClockThere(rows[d])'
  BY <1>1, ClockTyped DEF Attendance!TypeOK, ClockLocals, ClockInv, ClockThere
<1>4. ~torn => \A d \in Attendance!Dates \ edited : rows[d].exists => ClockStory(rows[d])'
  <2> SUFFICES ASSUME ~torn, NEW d \in Attendance!Dates \ edited, rows[d].exists
               PROVE  /\ rows[d].clockOut # Attendance!NoTime =>
                           Attendance!ClockedIn(rows[d]) /\ rows[d].clockIn <= rows[d].clockOut
                      /\ Attendance!ClockedIn(rows[d]) <=> rows[d].status # "absent"
                      /\ Attendance!ClockedIn(rows[d]) /\ rows[d].clockOut = Attendance!NoTime =>
                           rows[d].clockIn <= now + 1
    BY <1>1 DEF ClockStory, Attendance!ClockedIn
  <2>0. rows[d].clockIn \in Attendance!Times \cup {Attendance!NoTime}
    BY ClockTyped DEF Attendance!Row
  <2>1. ClockStory(rows[d]) /\ now \in Int
    BY ClockTyped DEF ClockInv
  <2>2. rows[d].clockIn \in Int
    <3>1. Attendance!Times \subseteq Nat /\ Attendance!NoTime \in Int
      BY ClockFacts
    <3>2. \A t \in Attendance!Times \cup {Attendance!NoTime} : t \in Int
      BY <3>1
    <3> QED
      BY <2>0, <3>2
  <2> QED
    BY <2>1, <2>2 DEF ClockStory
<1>5. \A a \in Attendance!Actors : ClockHeld(a)' /\ ClockRole(a)'
  BY <1>1 DEF ClockHeld, ClockRole
<1>6. now' % 3 = 2 => now' = 3 * Attendance!Today' + 2
  <2>1. /\ Attendance!DateInUtc(now') \in Nat /\ now' \in Nat
        /\ 3 * Attendance!DateInUtc(now') + 1 <= now' /\ now' <= 3 * Attendance!DateInUtc(now') + 3
    BY <1>1, ClockDays, ClockFacts
  <2>2. Attendance!Today' = Attendance!DateInUtc(now')
    BY DEF Attendance!Today
  <2> DEFINE q == Attendance!DateInUtc(now')
             t == now'
  <2>3. q \in Nat /\ t \in Nat /\ 3 * q + 1 <= t /\ t <= 3 * q + 3
    BY <2>1
  <2> HIDE DEF q, t
  <2>4. t % 3 = 2 => t = 3 * q + 2
    BY <2>3
  <2> QED
    BY <2>2, <2>4 DEF q, t
<1>7. \A k \in Replicas : ClockTimer(k)'
  BY <1>1, <1>2, <1>6 DEF ClockTimer
<1>8. ASSUME NEW d \in Shifts
      PROVE  /\ now' > 3 * d + 2 => rows[d].exists \/ \A k \in Replicas : <<k, d>> \in missed
             /\ now' = 3 * d + 2 => \A k \in Replicas : k \in due'
  <2>1. d \in Nat /\ now \in Nat
    BY ClockFacts, ClockTyped
  <2>2. now = 3 * d + 2 => rows[d].exists \/ \A k \in Replicas : <<k, d>> \in missed
    BY <1>1, <1>2, <1>8 DEF ClockInv, ClockSettled, ClockSettling
  <2>3. now > 3 * d + 2 => rows[d].exists \/ \A k \in Replicas : <<k, d>> \in missed
    BY <1>8 DEF ClockInv, ClockSettled
  <2>4. now' = 3 * d + 2 => now' % 3 = 2
    <3> DEFINE t == now'
    <3>1. d \in Nat /\ t \in Nat
      BY <1>1, <2>1
    <3> HIDE DEF t
    <3>2. t = 3 * d + 2 => t % 3 = 2
      BY <3>1
    <3> QED
      BY <3>2 DEF t
  <2> QED
    BY <1>1, <2>1, <2>2, <2>3, <2>4
<1>9. ClockSettled'
  BY <1>1, <1>8 DEF ClockSettled, ClockSettling
<1>10. ClockInv'
  BY <1>1, <1>3, <1>4, <1>5, <1>7, <1>9 DEF ClockInv
<1>11. (\A r \in Handlers : ClockFresh(r)') /\ Attendance!FirstKept
  BY <1>1 DEF ClockFresh, Attendance!Actors, Attendance!FirstKept
<1> QED
  BY <1>10, <1>11 DEF ClockSoloInv

\* Every step keeps the invariant, and does what is said of every step.
LEMMA ClockStepHolds == ClockInv /\ [Attendance!Next]_(Attendance!vars) =>
                          ClockInv' /\ (ClockSoloInv => ClockSoloInv' /\ Attendance!FirstKept)
<1> SUFFICES ASSUME ClockInv, [Attendance!Next]_(Attendance!vars)
             PROVE  ClockInv' /\ (ClockSoloInv => ClockSoloInv' /\ Attendance!FirstKept)
  OBVIOUS
<1>1. CASE UNCHANGED Attendance!vars
  <2>1. /\ rows' = rows /\ now' = now /\ due' = due /\ pc' = pc /\ local' = local
        /\ edited' = edited /\ missed' = missed /\ overlapped' = overlapped /\ torn' = torn
        /\ Attendance!Today' = Attendance!Today
    BY <1>1 DEF Attendance!vars, Attendance!Today
  <2>2. /\ Attendance!TypeOK' /\ ClockSettled'
        /\ \A d \in Attendance!Dates : ClockThere(rows[d])'
    BY <2>1 DEF ClockInv, Attendance!TypeOK, ClockSettled, ClockSettling, ClockThere
  <2>3. \A a \in Attendance!Actors : ClockRole(a)' /\ (~torn => ClockHeld(a)')
    BY <2>1 DEF ClockInv, ClockHeld, ClockRole, ClockStory, Attendance!ClockedIn, Attendance!Differing
  <2>4. /\ \A k \in Replicas : ClockTimer(k)'
        /\ ~torn => \A d \in Attendance!Dates \ edited' : rows'[d].exists => ClockStory(rows[d])'
    BY <2>1 DEF ClockInv, ClockTimer, ClockStory, Attendance!ClockedIn
  <2>5. ClockSoloInv => ClockSoloInv'
    BY <2>1 DEF ClockSoloInv, ClockFresh, Attendance!ClockedIn
  <2>6. Attendance!FirstKept
    BY <2>1 DEF Attendance!FirstKept
  <2> QED
    BY <2>1, <2>2, <2>3, <2>4, <2>5, <2>6 DEF ClockInv
<1>2. ASSUME NEW r \in Handlers, Attendance!RequestStep(r), Attendance!Overlap(r), Attendance!Tear(r)
      PROVE  ClockInv' /\ (ClockSoloInv => ClockSoloInv' /\ Attendance!FirstKept)
  BY <1>2, ClockRequestHolds
<1>3. ASSUME NEW k \in Replicas, Attendance!TimerStep(k), Attendance!Tear(k), UNCHANGED overlapped
      PROVE  ClockInv' /\ (ClockSoloInv => ClockSoloInv' /\ Attendance!FirstKept)
  BY <1>3, ClockTimerHolds
<1>4. CASE Attendance!Tick /\ UNCHANGED <<overlapped, torn>>
  BY <1>4, ClockTickHolds
<1> QED
  BY <1>1, <1>2, <1>3, <1>4 DEF Attendance!Next

\* The invariant is enough.
LEMMA ClockPromised ==
  ClockInv => Attendance!TypeOK /\ Attendance!OneStory /\ Attendance!ShiftsAreSettled
<1> SUFFICES ASSUME ClockInv PROVE Attendance!OneStory /\ Attendance!ShiftsAreSettled
  BY DEF ClockInv
<1>1. ASSUME ~torn, NEW d \in Attendance!Dates \ edited
      PROVE  ClockStory(rows[d]) \/ rows[d] = Attendance!NoRow
  BY <1>1 DEF ClockInv, ClockThere
<1>2. Attendance!OneStory
  BY <1>1, ClockEmpty DEF ClockStory, Attendance!OneStory
<1>3. Attendance!ShiftsAreSettled
  <2> SUFFICES ASSUME ~torn, NEW d \in Shifts \ edited, now > 3 * d + 2
               PROVE  \/ Attendance!ClockedIn(rows[d]) \/ rows[d].status = "absent"
                      \/ \A k \in Replicas : <<k, d>> \in missed
    BY DEF Attendance!ShiftsAreSettled
  <2>1. rows[d].exists \/ \A k \in Replicas : <<k, d>> \in missed
    BY DEF ClockInv, ClockSettled
  <2>2. rows[d].exists => ClockStory(rows[d])
    BY ClockFacts DEF ClockInv
  <2> QED
    BY <2>1, <2>2 DEF ClockStory
<1> QED
  BY <1>2, <1>3

-----------------------------------------------------------------------------
(***************************************************************************)
(* approvals. Unless its drafting was raced, a document is not behind the  *)
(* numbers that were answered, and neither is one in the hands of a        *)
(* handler; as long as handlers do not overlap, what the handler at work   *)
(* has in hand is in the table, and the answers are approvals.             *)
(***************************************************************************)
\* What is assumed of the constants.
LEMMA ApprovalGiven == Approvals!ApprovalsAssumption
  BY RecordsAssumption

\* Steps before an answer or its consequence is saved.
ApprovalAnswering == {"approving", "advancing", "rejecting", "closing"}
\* No step is without number, but where there is no step.
ApprovalSoundRows == {row \in Approvals!StepRows : row.step = 0 => row = Approvals!NoStep}
\* What a handler may hold.
ApprovalLocals ==
  [doc : Approvals!Documents, line : [ApprovalRows -> ApprovalSoundRows], row : ApprovalRows \cup {None}]

\* Types, and an answer is to a step of the line.
ApprovalTyped ==
  /\ doc \in Approvals!Documents
  /\ line \in [ApprovalRows -> ApprovalSoundRows]
  /\ pc \in [Handlers -> Approvals!Steps]
  /\ local \in [Handlers -> ApprovalLocals]
  /\ answered \subseteq ApprovalRows
  /\ applied \in 0 .. 2
  /\ overlapped \in BOOLEAN /\ draftRaced \in BOOLEAN
  /\ \A h \in Handlers : pc[h] \in ApprovalAnswering =>
       local[h].row \in Approvals!Present(local[h].line)

\* Every number of the line below n has been answered.
ApprovalAnsweredBelow(n) ==
  \A r \in ApprovalRows : 0 < line[r].step /\ line[r].step < n
    => \E q \in answered : line[q].step = line[r].step
\* Every number of the line has been answered.
ApprovalAnsweredAll ==
  \A r \in ApprovalRows : 0 < line[r].step => \E q \in answered : line[q].step = line[r].step

\* Steps have the numbers of the table.
ApprovalSameNumbers(held) == \A r \in ApprovalRows : held[r].step = line[r].step

\* An answer in the table, or in an entity in hand, was given.
ApprovalOnlyAnswers ==
  \A r \in ApprovalRows :
    /\ line[r].status # "pending" => r \in answered
    /\ \A h \in Handlers : local[h].line[r].status # "pending" => r \in answered

\* Steps after the last approval.
ApprovalEnding == {"sealing", "hashing", "stamping", "applying"}

\* Who drafts is alone, and has in hand what the table has; a document put up at
\* once waits for its line.
ApprovalDraftsBy(h) == pc[h] \in Approvals!Drafting =>
  /\ \A g \in Handlers \ {h} : pc[g] = "idle"
  /\ pc[h] # "requesting" => doc.status = "draft"
  /\ pc[h] = "requesting" => doc.status = "in_progress" /\ doc.currentStep = 1 /\ answered = {} /\ applied = 0
  /\ pc[h] \in {"updating", "submitting"} => local[h].doc = doc /\ local[h].line = line

\* Before it is submitted nobody has been asked.
ApprovalEarly == Approvals!Drafting \cup {"idle", "cancelling", "removing"}
\* Before it is submitted, nobody has answered and no handler is asking.
ApprovalNotAsked ==
  doc.status \in {"none", "draft"} =>
    answered = {} /\ applied = 0 /\ \A h \in Handlers : pc[h] \in ApprovalEarly

\* Entities in hand name the steps by the numbers they have in the table, and a
\* document in hand has left no number behind.
ApprovalHeldBy(h) ==
  /\ pc[h] \in ApprovalAnswering \cup {"cancelling"} => ApprovalSameNumbers(local[h].line)
  /\ pc[h] = "cancelling" => local[h].doc.status \notin {"none", "approved"}
  /\ pc[h] \in ApprovalAnswering =>
       /\ local[h].doc.status = "in_progress"
       /\ local[h].line[local[h].row].step = local[h].doc.currentStep
       /\ local[h].doc.currentStep > 0
       /\ ApprovalAnsweredBelow(local[h].doc.currentStep)
  /\ pc[h] \in {"advancing", "closing"} => local[h].row \in answered
  /\ pc[h] \in ApprovalEnding => ApprovalAnsweredAll

\* The table has left no number behind.
ApprovalInOrder ==
  /\ doc.status = "in_progress" => doc.currentStep > 0 /\ ApprovalAnsweredBelow(doc.currentStep)
  /\ doc.status = "approved" \/ applied > 0 => ApprovalAnsweredAll

\* What holds unless the drafting was raced.
ApprovalRace == ~draftRaced => ApprovalNotAsked /\ ApprovalInOrder /\ \A h \in Handlers :
                  ApprovalDraftsBy(h) /\ ApprovalHeldBy(h)

\* What holds however handlers interleave.
ApprovalInv == ApprovalTyped /\ ApprovalOnlyAnswers /\ ApprovalRace

\* Without overlap one handler is at work at most, and no drafting was raced.
ApprovalOneHandler == ~overlapped => ~draftRaced /\ \A g, h \in Handlers :
                        Approvals!InFlight(g) /\ Approvals!InFlight(h) => g = h

\* Every number of the line below n has been approved.
ApprovalApprovedBelow(n) ==
  \A r \in ApprovalRows : 0 < line[r].step /\ line[r].step < n
    => \E q \in ApprovalRows : line[q].step = line[r].step /\ line[q].status = "approved"
\* Every number of the line has been approved.
ApprovalApprovedEach ==
  \A r \in ApprovalRows : 0 < line[r].step
    => \E q \in ApprovalRows : line[q].step = line[r].step /\ line[q].status = "approved"

\* Steps before the document is saved.
ApprovalReading == ApprovalAnswering \cup {"cancelling", "updating", "submitting"}

\* What a handler has in hand when it is the only one.
ApprovalInHand(h) ==
  /\ pc[h] \in ApprovalReading =>
       local[h].doc = doc /\ local[h].line = line /\ ~doc.sealed /\ ~doc.deleted
  /\ pc[h] = "cancelling" => doc.status \notin {"none", "approved"}
  /\ pc[h] \in ApprovalAnswering => doc.status = "in_progress"
  /\ pc[h] = "advancing" => line[local[h].row].status = "approved"
  /\ pc[h] = "removing" => ~doc.sealed
  /\ pc[h] \in ApprovalEnding => doc.status = "approved" /\ applied = 0
  /\ pc[h] \in {"sealing", "hashing", "stamping"} => ~doc.sealed /\ ~doc.deleted
  /\ pc[h] = "hashing" => local[h].line = line
  /\ pc[h] = "stamping" => \A r \in Approvals!Present(line) : line[r].hashed

\* What the table says of answers, seal and change, when handlers do not
\* overlap.
ApprovalDecided ==
  /\ doc.status \in {"none", "draft"} => ~doc.sealed /\ \A r \in ApprovalRows :
       line[r].status = "pending"
  /\ doc.status = "in_progress" =>
       /\ ApprovalApprovedBelow(doc.currentStep)
       /\ \A r \in ApprovalRows : doc.currentStep < line[r].step => line[r].status = "pending"
  /\ doc.status = "approved" => ApprovalApprovedEach
  /\ applied > 0 => applied = 1 /\ doc.status = "approved"
  /\ doc.sealed => doc.status = "approved" /\ ~doc.deleted /\ \A r \in Approvals!Present(line) :
       line[r].hashed

\* What holds as long as they do not overlap.
ApprovalSoloInv == /\ ApprovalOneHandler
                   /\ (~overlapped => ApprovalDecided /\ \A h \in Handlers : ApprovalInHand(h))

\* Part of every step: the drafting that another handler saw is noted.
ApprovalNoted(h) == draftRaced' = (draftRaced \/ \E g \in Handlers \ {h} :
                                     Approvals!InFlight(g) /\ {pc[g], pc[h], pc'[h]} \cap Approvals!Drafting # {})

\* What is held at rest, and an empty line, are typed.
LEMMA ApprovalNoneTyped == /\ Approvals!NoLocal \in ApprovalLocals
                           /\ Approvals!NoDocument \in Approvals!Documents
                           /\ Approvals!NoLine \in [ApprovalRows -> ApprovalSoundRows]
  BY ApprovalGiven DEF Approvals!ApprovalsAssumption, Approvals!NoLocal, Approvals!NoDocument,
     Approvals!NoLine, Approvals!NoStep, ApprovalLocals, Approvals!Documents, Approvals!StepRows,
     ApprovalSoundRows, Approvals!Statuses

\* A step that says what it changes keeps the invariant.
LEMMA ApprovalStepKeeps ==
  ASSUME ApprovalInv, NEW h \in Handlers, NEW step \in Approvals!Steps, NEW held \in ApprovalLocals,
         pc' = [pc EXCEPT ![h] = step], local' = [local EXCEPT ![h] = held],
         ApprovalNoted(h), overlapped' \in BOOLEAN,
         doc' \in Approvals!Documents, line' \in [ApprovalRows -> ApprovalSoundRows],
         answered' \subseteq ApprovalRows, answered \subseteq answered', applied' \in 0 .. 2,
         \A r \in ApprovalRows : line'[r].status # "pending" \/ held.line[r].status # "pending" =>
           r \in answered',
         step \in ApprovalAnswering => held.row \in Approvals!Present(held.line),
         ~draftRaced' =>
           /\ step \in Approvals!Drafting =>
                /\ step # "requesting" => doc'.status = "draft"
                /\ step = "requesting" =>
                     doc'.status = "in_progress" /\ doc'.currentStep = 1 /\ answered' = {} /\ applied' = 0
                /\ step \in {"updating", "submitting"} => held.doc = doc' /\ held.line = line'
           /\ pc[h] \in Approvals!Drafting \/ step \in Approvals!Drafting \/ \A r \in ApprovalRows :
                line'[r].step = line[r].step
           /\ doc'.status \in {"none", "draft"} =>
                /\ doc.status \in {"none", "draft"} /\ answered' = {} /\ applied' = 0
                /\ step \in ApprovalEarly
           /\ ApprovalHeldBy(h)' /\ ApprovalInOrder'
  PROVE  ApprovalInv'
<1>1. /\ pc \in [Handlers -> Approvals!Steps] /\ local \in [Handlers -> ApprovalLocals]
      /\ pc'[h] = step /\ local'[h] = held
      /\ \A g \in Handlers \ {h} : pc'[g] = pc[g] /\ local'[g] = local[g]
  BY DEF ApprovalInv, ApprovalTyped
<1>2. ApprovalTyped'
  <2>1. draftRaced' \in BOOLEAN
    BY DEF ApprovalNoted
  <2>2. pc' \in [Handlers -> Approvals!Steps] /\ local' \in [Handlers -> ApprovalLocals]
    BY <1>1
  <2>3. \A g \in Handlers : pc'[g] \in ApprovalAnswering =>
          local'[g].row \in Approvals!Present(local'[g].line)
    BY <1>1 DEF ApprovalInv, ApprovalTyped
  <2> QED
    BY <2>1, <2>2, <2>3 DEF ApprovalTyped
<1>3. ApprovalOnlyAnswers'
  BY <1>1 DEF ApprovalInv, ApprovalOnlyAnswers
<1>4. ASSUME ~draftRaced'
      PROVE  /\ ApprovalNotAsked' /\ ApprovalInOrder'
             /\ \A g \in Handlers : ApprovalDraftsBy(g)' /\ ApprovalHeldBy(g)'
  <2>1. /\ ~draftRaced
        /\ \A g \in Handlers \ {h} :
             pc[g] # "idle" =>
               /\ pc[g] \notin Approvals!Drafting /\ pc[h] \notin Approvals!Drafting
               /\ step \notin Approvals!Drafting
    BY <1>1, <1>4 DEF ApprovalNoted, Approvals!InFlight
  <2>2. ApprovalDraftsBy(h)'
    BY <1>1, <1>4, <2>1 DEF ApprovalDraftsBy
  <2>3. ASSUME NEW g \in Handlers \ {h}
        PROVE  ApprovalDraftsBy(g)' /\ ApprovalHeldBy(g)'
    <3>1. ApprovalDraftsBy(g)'
      BY <1>1, <2>1 DEF ApprovalDraftsBy, Approvals!Drafting
    <3>2. CASE pc[g] = "idle"
      BY <1>1, <3>1, <3>2 DEF ApprovalHeldBy, ApprovalAnswering, ApprovalEnding
    <3>3. CASE pc[g] # "idle"
      <4>1. \A r \in ApprovalRows : line'[r].step = line[r].step
        BY <1>4, <2>1, <3>3
      <4>2. ApprovalHeldBy(g)
        BY <2>1 DEF ApprovalInv, ApprovalRace
      <4>3. /\ ApprovalAnsweredAll => ApprovalAnsweredAll'
            /\ \A n \in Nat : ApprovalAnsweredBelow(n) => ApprovalAnsweredBelow(n)'
        BY <4>1 DEF ApprovalAnsweredAll, ApprovalAnsweredBelow, ApprovalInv, ApprovalTyped
      <4>4. local[g].doc.currentStep \in Nat
        BY <1>1 DEF ApprovalLocals, Approvals!Documents
      <4> QED
        BY <1>1, <3>1, <4>1, <4>2, <4>3, <4>4 DEF ApprovalHeldBy, ApprovalSameNumbers
    <3> QED
      BY <3>2, <3>3
  <2>4. ApprovalNotAsked'
    BY <1>1, <1>4, <2>1 DEF ApprovalInv, ApprovalRace, ApprovalNotAsked
  <2> QED
    BY <1>4, <2>2, <2>3, <2>4
<1> QED
  BY <1>2, <1>3, <1>4 DEF ApprovalInv, ApprovalRace

\* A step that writes nothing.
LEMMA ApprovalLookKeeps ==
  ASSUME ApprovalInv, NEW h \in Handlers, NEW step \in Approvals!Steps, NEW held \in ApprovalLocals,
         Approvals!Goto(h, step), Approvals!Hold(h, held), Approvals!ReadOnly, ApprovalNoted(h),
         overlapped' \in BOOLEAN,
         \A r \in ApprovalRows : held.line[r].status # "pending" => r \in answered,
         step \in ApprovalAnswering => held.row \in Approvals!Present(held.line),
         ~draftRaced' =>
           /\ step \in Approvals!Drafting =>
                /\ step # "requesting" /\ doc.status = "draft"
                /\ step \in {"updating", "submitting"} => held.doc = doc /\ held.line = line
           /\ doc.status \in {"none", "draft"} => step \in ApprovalEarly
           /\ ApprovalHeldBy(h)'
  PROVE  ApprovalInv'
<1>1. pc' = [pc EXCEPT ![h] = step] /\ local' = [local EXCEPT ![h] = held]
  BY DEF Approvals!Goto, Approvals!Hold
<1>2. doc' = doc /\ line' = line /\ answered' = answered /\ applied' = applied
  BY DEF Approvals!ReadOnly, Approvals!Unheld
<1>3. \A r \in ApprovalRows : line[r].status # "pending" \/ held.line[r].status # "pending" =>
        r \in answered
  BY DEF ApprovalInv, ApprovalOnlyAnswers, Approvals!NoLine, Approvals!NoStep
<1>4. ~draftRaced' => ~draftRaced
  BY DEF ApprovalNoted
<1>5. ~draftRaced' =>
        ApprovalInOrder' /\ (doc.status \in {"none", "draft"} => answered = {} /\ applied = 0)
  BY <1>2, <1>4 DEF ApprovalInv, ApprovalRace, ApprovalInOrder, ApprovalNotAsked,
     ApprovalAnsweredBelow, ApprovalAnsweredAll
<1>6. /\ doc \in Approvals!Documents /\ line \in [ApprovalRows -> ApprovalSoundRows]
      /\ answered \subseteq ApprovalRows /\ applied \in 0 .. 2
  BY DEF ApprovalInv, ApprovalTyped
<1> QED
  BY <1>1, <1>2, <1>3, <1>5, <1>6, ApprovalStepKeeps

\* Nothing in hand is no answer.
LEMMA ApprovalEmpties ==
  ASSUME ApprovalInv
  PROVE  /\ Approvals!NoLocal.line = Approvals!NoLine
         /\ \A r \in ApprovalRows : Approvals!NoLine[r].status = "pending"
         /\ \A r \in ApprovalRows : line[r].status # "pending" => r \in answered
  BY DEF Approvals!NoLocal, Approvals!NoLine, Approvals!NoStep, ApprovalInv, ApprovalOnlyAnswers

\* A handler that returns.
LEMMA ApprovalReturnKeeps ==
  ASSUME ApprovalInv, NEW h \in Handlers, Approvals!Return(h), Approvals!ReadOnly, ApprovalNoted(h),
         overlapped' \in BOOLEAN
  PROVE  ApprovalInv'
<1>1. Approvals!Goto(h, "idle") /\ Approvals!Hold(h, Approvals!NoLocal)
  BY DEF Approvals!Return
<1>2. ApprovalHeldBy(h)'
  BY <1>1 DEF ApprovalInv, ApprovalTyped, Approvals!Goto, ApprovalHeldBy, ApprovalAnswering,
     ApprovalEnding
<1> QED
  BY <1>1, <1>2, ApprovalLookKeeps, ApprovalNoneTyped, ApprovalEmpties DEF Approvals!Steps,
     Approvals!Drafting, ApprovalAnswering, ApprovalEarly

\* Handlers that read the document.
LEMMA ApprovalFindKeeps ==
  ASSUME ApprovalInv, NEW h \in Handlers, ApprovalNoted(h), overlapped' \in BOOLEAN,
         Approvals!Update(h) \/ Approvals!Submit(h) \/ Approvals!Cancel(h)
  PROVE  ApprovalInv'
<1> DEFINE entity == [Approvals!NoLocal EXCEPT !.doc = doc, !.line = line]
<1>1. entity \in ApprovalLocals /\ entity.line = line /\ entity.doc = doc
  BY ApprovalNoneTyped DEF Approvals!NoLocal, ApprovalInv, ApprovalTyped, ApprovalLocals
<1> HIDE DEF entity
<1>2. PICK step \in {"updating", "submitting", "cancelling"} :
        /\ Approvals!Goto(h, step) /\ Approvals!Hold(h, entity) /\ Approvals!ReadOnly
        /\ doc.status # "none"
        /\ step # "cancelling" => doc.status = "draft"
        /\ step = "cancelling" => doc.status # "approved"
  BY DEF Approvals!Update, Approvals!Submit, Approvals!Cancel, Approvals!Find, Approvals!Found,
     entity
<1>3. pc'[h] = step /\ local'[h] = entity /\ line' = line
  BY <1>2 DEF Approvals!Goto, Approvals!Hold, ApprovalInv, ApprovalTyped, Approvals!ReadOnly
<1>4. ApprovalHeldBy(h)'
  BY <1>1, <1>2, <1>3 DEF ApprovalHeldBy, ApprovalAnswering, ApprovalEnding, ApprovalSameNumbers
<1>5. /\ step \in Approvals!Steps /\ step \notin ApprovalAnswering /\ step \in ApprovalEarly
      /\ (step \in Approvals!Drafting <=> step # "cancelling")
  BY DEF Approvals!Steps, Approvals!Drafting, ApprovalAnswering, ApprovalEarly
<1> QED
  BY <1>1, <1>2, <1>4, <1>5, ApprovalLookKeeps, ApprovalEmpties

\* The document is found, to be deleted.
LEMMA ApprovalRemoveKeeps ==
  ASSUME ApprovalInv, NEW h \in Handlers, ApprovalNoted(h), overlapped' \in BOOLEAN,
         Approvals!Remove(h)
  PROVE  ApprovalInv'
<1>1. /\ Approvals!Goto(h, "removing") /\ Approvals!ReadOnly /\ Approvals!Hold(h, local[h])
      /\ local[h] \in ApprovalLocals
  BY DEF Approvals!Remove, Approvals!Found, ApprovalInv, ApprovalTyped, Approvals!Hold
<1>2. ApprovalHeldBy(h)'
  BY <1>1 DEF ApprovalInv, ApprovalTyped, Approvals!Goto, ApprovalHeldBy, ApprovalAnswering,
     ApprovalEnding
<1>3. \A r \in ApprovalRows : local[h].line[r].status # "pending" => r \in answered
  BY DEF ApprovalInv, ApprovalOnlyAnswers
<1> QED
  BY <1>1, <1>2, <1>3, ApprovalLookKeeps DEF Approvals!Steps, Approvals!Drafting,
     ApprovalAnswering, ApprovalEarly

\* Handlers that read the step to answer.
LEMMA ApprovalFindStepKeeps ==
  ASSUME ApprovalInv, NEW h \in Handlers, ApprovalNoted(h), overlapped' \in BOOLEAN,
         Approvals!Approve(h) \/ Approvals!Reject(h)
  PROVE  ApprovalInv'
<1>1. PICK step \in {"approving", "rejecting"}, r \in ApprovalRows :
        /\ Approvals!Goto(h, step)
        /\ Approvals!Hold(h, [doc |-> doc, line |-> line, row |-> r]) /\ Approvals!ReadOnly
        /\ doc.status = "in_progress" /\ line[r].step = doc.currentStep
        /\ r \in Approvals!Present(line)
  BY DEF Approvals!Approve, Approvals!Reject, Approvals!FindStep, Approvals!Present
<1> DEFINE entity == [doc |-> doc, line |-> line, row |-> r]
<1>2. entity \in ApprovalLocals /\ entity.line = line /\ entity.doc = doc /\ entity.row = r
  BY DEF ApprovalInv, ApprovalTyped, ApprovalLocals
<1> HIDE DEF entity
<1>3. /\ Approvals!Hold(h, entity) /\ pc'[h] = step /\ local'[h] = entity /\ line' = line
      /\ answered' = answered
  BY <1>1 DEF Approvals!Goto, Approvals!Hold, ApprovalInv, ApprovalTyped, Approvals!ReadOnly,
     Approvals!Unheld, entity
<1>4. ~draftRaced' => ApprovalHeldBy(h)'
  <2> SUFFICES ASSUME ~draftRaced' PROVE ApprovalHeldBy(h)'
    OBVIOUS
  <2>1. ApprovalInOrder
    BY DEF ApprovalNoted, ApprovalInv, ApprovalRace
  <2> QED
    BY <1>1, <1>2, <1>3, <2>1 DEF ApprovalHeldBy, ApprovalAnswering, ApprovalEnding,
       ApprovalSameNumbers, ApprovalInOrder, ApprovalAnsweredBelow
<1>5. step \in Approvals!Steps \ Approvals!Drafting /\ entity.row \in Approvals!Present(entity.line)
  BY <1>1, <1>2 DEF Approvals!Steps, Approvals!Drafting
<1> QED
  BY <1>1, <1>2, <1>3, <1>4, <1>5, ApprovalLookKeeps, ApprovalEmpties

\* The steps are read to be sealed.
LEMMA ApprovalSealReadKeeps ==
  ASSUME ApprovalInv, NEW h \in Handlers, ApprovalNoted(h), overlapped' \in BOOLEAN,
         Approvals!SealRead(h) \/ Approvals!SealFails(h)
  PROVE  ApprovalInv'
<1> DEFINE entity == [Approvals!NoLocal EXCEPT !.line = line]
<1>1. entity \in ApprovalLocals /\ entity.line = line
  BY ApprovalNoneTyped DEF Approvals!NoLocal, ApprovalInv, ApprovalTyped, ApprovalLocals
<1> HIDE DEF entity
<1>2. PICK step \in {"applying", "hashing"}, held \in {Approvals!NoLocal, entity} :
        Approvals!Goto(h, step) /\ Approvals!Hold(h, held) /\ Approvals!ReadOnly
  BY DEF Approvals!SealRead, Approvals!SealFails, entity
<1>3. pc[h] \in ApprovalEnding
  BY DEF Approvals!SealRead, Approvals!SealFails, ApprovalEnding
<1>4. pc'[h] = step /\ line' = line /\ answered' = answered
  BY <1>2 DEF Approvals!Goto, ApprovalInv, ApprovalTyped, Approvals!ReadOnly, Approvals!Unheld
<1>5. ~draftRaced' => ApprovalHeldBy(h)' /\ doc.status \notin {"none", "draft"}
  <2> SUFFICES ASSUME ~draftRaced' PROVE ApprovalHeldBy(h)' /\ doc.status \notin {"none", "draft"}
    OBVIOUS
  <2>1. ApprovalHeldBy(h) /\ ApprovalNotAsked
    BY DEF ApprovalNoted, ApprovalInv, ApprovalRace
  <2>2. ApprovalAnsweredAll
    BY <1>3, <2>1 DEF ApprovalHeldBy
  <2>3. doc.status \notin {"none", "draft"}
    BY <1>3, <2>1 DEF ApprovalNotAsked, ApprovalEnding, ApprovalEarly, Approvals!Drafting
  <2> QED
    BY <1>4, <2>2, <2>3 DEF ApprovalHeldBy, ApprovalAnswering, ApprovalEnding, ApprovalAnsweredAll
<1>6. step \in Approvals!Steps \ Approvals!Drafting /\ step \notin ApprovalAnswering
  BY DEF Approvals!Steps, Approvals!Drafting, ApprovalAnswering
<1> QED
  BY <1>1, <1>2, <1>5, <1>6, ApprovalLookKeeps, ApprovalNoneTyped, ApprovalEmpties

\* A save
LEMMA ApprovalSaveKeeps ==
  ASSUME ApprovalInv, NEW h \in Handlers, ApprovalNoted(h), overlapped' \in BOOLEAN,
         NEW entity \in Approvals!Documents, NEW next \in {"idle", "replacing", "sealing"},
         Approvals!SaveDocument(h, entity, next), Approvals!Unheld,
         ~draftRaced =>
           /\ ApprovalSameNumbers(local[h].line)
           /\ next = "replacing" => entity.status = "draft"
           /\ entity.status \in {"none", "draft"} =>
                next # "sealing" /\ doc.status \in {"none", "draft"}
           /\ entity.status = "in_progress" =>
                entity.currentStep > 0 /\ ApprovalAnsweredBelow(entity.currentStep)
           /\ entity.status = "approved" \/ next = "sealing" => ApprovalAnsweredAll
  PROVE  ApprovalInv'
<1>1. CASE ~Approvals!Saves(h)
  BY <1>1, ApprovalReturnKeeps DEF Approvals!SaveDocument, Approvals!ReadOnly
<1>2. CASE Approvals!Saves(h)
  <2>1. PICK held \in {local[h], Approvals!NoLocal} :
          /\ Approvals!Goto(h, next) /\ Approvals!Hold(h, held) /\ doc' = entity
          /\ line' = local[h].line
    BY <1>2 DEF Approvals!SaveDocument, Approvals!Return, ApprovalInv, ApprovalTyped, Approvals!Hold
  <2>2. /\ pc' = [pc EXCEPT ![h] = next] /\ local' = [local EXCEPT ![h] = held]
        /\ answered' = answered /\ applied' = applied
        /\ held \in ApprovalLocals /\ local[h] \in ApprovalLocals
    BY <2>1, ApprovalNoneTyped DEF Approvals!Goto, Approvals!Hold, Approvals!Unheld, ApprovalInv,
       ApprovalTyped
  <2>3. answered \subseteq ApprovalRows /\ applied \in 0 .. 2 /\ local[h].line \in [ApprovalRows -> ApprovalSoundRows]
        /\ line \in [ApprovalRows -> ApprovalSoundRows] /\ pc'[h] = next
    BY <2>2 DEF ApprovalInv, ApprovalTyped, ApprovalLocals
  <2>4. \A r \in ApprovalRows : line'[r].status # "pending" \/ held.line[r].status # "pending" =>
          r \in answered'
    BY <2>1, <2>2, ApprovalEmpties DEF ApprovalInv, ApprovalOnlyAnswers
  <2>5. ASSUME ~draftRaced'
        PROVE  /\ \A r \in ApprovalRows : line'[r].step = line[r].step
               /\ ApprovalInOrder' /\ ApprovalHeldBy(h)'
               /\ entity.status \in {"none", "draft"} => answered = {} /\ applied = 0
    <3>1. ~draftRaced
      BY <2>5 DEF ApprovalNoted
    <3>2. \A r \in ApprovalRows : line'[r].step = line[r].step
      BY <2>1, <3>1 DEF ApprovalSameNumbers
    <3>3. /\ ApprovalAnsweredAll => ApprovalAnsweredAll'
          /\ \A n \in Nat : ApprovalAnsweredBelow(n) => ApprovalAnsweredBelow(n)'
      BY <2>2, <2>3, <3>2 DEF ApprovalAnsweredAll, ApprovalAnsweredBelow
    <3>5. entity.currentStep \in Nat
      BY DEF Approvals!Documents
    <3>6. ApprovalInOrder'
      BY <2>1, <2>2, <3>1, <3>3, <3>5 DEF ApprovalInOrder, ApprovalInv, ApprovalRace
    <3>7. ApprovalHeldBy(h)'
      BY <2>3, <3>1, <3>3 DEF ApprovalHeldBy, ApprovalAnswering, ApprovalEnding
    <3> QED
      BY <3>1, <3>2, <3>6, <3>7 DEF ApprovalInv, ApprovalRace, ApprovalNotAsked
  <2>6. next \in Approvals!Steps /\ next \notin ApprovalAnswering /\ (next \in Approvals!Drafting => next = "replacing")
        /\ (next # "sealing" => next \in ApprovalEarly)
    BY DEF Approvals!Steps, Approvals!Drafting, ApprovalAnswering, ApprovalEarly
  <2>7. ~draftRaced' => ~draftRaced
    BY DEF ApprovalNoted
  <2> QED
    BY <2>1, <2>2, <2>3, <2>4, <2>5, <2>6, <2>7, ApprovalStepKeeps
<1> QED
  BY <1>1, <1>2

\* The author saves it.
LEMMA ApprovalAuthorSaves ==
  ASSUME ApprovalInv, NEW h \in Handlers, ApprovalNoted(h), overlapped' \in BOOLEAN,
         Approvals!UpdateSave(h) \/ Approvals!SubmitSave(h) \/ Approvals!CancelSave(h)
  PROVE  ApprovalInv'
<1>1. local[h] \in ApprovalLocals /\ local[h].doc \in Approvals!Documents
  BY DEF ApprovalInv, ApprovalTyped, ApprovalLocals
<1>2. pc[h] \in {"updating", "submitting"} /\ ~draftRaced =>
        doc.status = "draft" /\ local[h].doc = doc /\ ApprovalSameNumbers(local[h].line)
  BY DEF ApprovalInv, ApprovalRace, ApprovalDraftsBy, Approvals!Drafting, ApprovalSameNumbers
<1>3. CASE Approvals!UpdateSave(h)
  <2>1. PICK next \in {"idle", "replacing"} : /\ Approvals!SaveDocument(h, local[h].doc, next)
                                              /\ pc[h] = "updating" /\ Approvals!Unheld
    BY <1>3 DEF Approvals!UpdateSave
  <2> QED
    BY <1>1, <1>2, <2>1, ApprovalSaveKeeps
<1>4. CASE Approvals!SubmitSave(h)
  <2> DEFINE entity == [local[h].doc EXCEPT !.status = "in_progress", !.currentStep = 1]
  <2>1. entity \in Approvals!Documents /\ entity.status = "in_progress" /\ entity.currentStep = 1
    <3>1. 1 \in 0 .. LastStep
      BY ApprovalGiven DEF Approvals!ApprovalsAssumption
    <3> QED
      BY <1>1, <3>1 DEF Approvals!Documents, Approvals!Statuses
  <2>2. ApprovalAnsweredBelow(1)
    BY DEF ApprovalAnsweredBelow, ApprovalInv, ApprovalTyped, Approvals!StepRows, ApprovalSoundRows
  <2>3. pc[h] = "submitting" /\ Approvals!SaveDocument(h, entity, "idle") /\ Approvals!Unheld
    BY <1>4 DEF Approvals!SubmitSave
  <2> HIDE DEF entity
  <2> QED
    BY <1>2, <2>1, <2>2, <2>3, ApprovalSaveKeeps
<1>5. CASE Approvals!CancelSave(h)
  <2> DEFINE entity == [local[h].doc EXCEPT !.status = "cancelled"]
  <2>1. entity \in Approvals!Documents /\ entity.status = "cancelled"
    BY <1>1 DEF Approvals!Documents, Approvals!Statuses
  <2>2. pc[h] = "cancelling" /\ Approvals!SaveDocument(h, entity, "idle") /\ Approvals!Unheld
    BY <1>5 DEF Approvals!CancelSave
  <2>3. ~draftRaced => ApprovalSameNumbers(local[h].line)
    BY <2>2 DEF ApprovalInv, ApprovalRace, ApprovalHeldBy
  <2> HIDE DEF entity
  <2> QED
    BY <2>1, <2>2, <2>3, ApprovalSaveKeeps
<1> QED
  BY <1>3, <1>4, <1>5

\* An approver saves it.
LEMMA ApprovalApproverSaves ==
  ASSUME ApprovalInv, NEW h \in Handlers, ApprovalNoted(h), overlapped' \in BOOLEAN,
         Approvals!Advance(h) \/ Approvals!RejectSave(h)
  PROVE  ApprovalInv'
<1> DEFINE d == local[h].doc
           c == local[h].doc.currentStep
           entities == local[h].line
<1>1. /\ local[h] \in ApprovalLocals /\ d \in Approvals!Documents /\ c \in Nat
      /\ line \in [ApprovalRows -> ApprovalSoundRows]
      /\ entities \in [ApprovalRows -> ApprovalSoundRows]
      /\ local[h].row \in ApprovalRows /\ pc[h] \in ApprovalAnswering
  BY DEF ApprovalInv, ApprovalTyped, ApprovalLocals, Approvals!Documents, Approvals!Advance,
     Approvals!RejectSave, ApprovalAnswering, Approvals!Present
<1>2. ~draftRaced =>
        /\ ApprovalSameNumbers(entities) /\ d.status = "in_progress" /\ c > 0
        /\ ApprovalAnsweredBelow(c)
        /\ entities[local[h].row].step = c
        /\ local[h].row \in answered
  BY <1>1 DEF ApprovalInv, ApprovalRace, ApprovalHeldBy, Approvals!Advance, Approvals!RejectSave
<1>3. CASE Approvals!RejectSave(h)
  <2> DEFINE entity == [local[h].doc EXCEPT !.status = "rejected"]
  <2>1. entity \in Approvals!Documents /\ entity.status = "rejected"
    BY <1>1 DEF Approvals!Documents, Approvals!Statuses
  <2>2. Approvals!SaveDocument(h, entity, "idle") /\ Approvals!Unheld
    BY <1>3 DEF Approvals!RejectSave
  <2> HIDE DEF entity
  <2> QED
    BY <1>2, <2>1, <2>2, ApprovalSaveKeeps
<1>4. \A r \in ApprovalRows : entities[r].step > c /\ ~draftRaced =>
        r \in Approvals!Later(h) \/ r \in answered
  BY <1>2 DEF Approvals!Later, ApprovalInv, ApprovalOnlyAnswers
<1>5. ASSUME NEW n \in Approvals!NextSteps(h), Approvals!SaveDocument(h, [local[h].doc EXCEPT !.currentStep = n], "idle"), Approvals!Unheld
      PROVE  ApprovalInv'
  <2> DEFINE entity == [local[h].doc EXCEPT !.currentStep = n]
  <2>1. n \in 0 .. LastStep /\ n > entities[local[h].row].step
    BY <1>1 DEF Approvals!NextSteps, Approvals!Later, Approvals!StepRows, ApprovalSoundRows
  <2>2. entity \in Approvals!Documents /\ entity.status = d.status /\ entity.currentStep = n
    BY <1>1, <2>1 DEF Approvals!Documents
  <2>3. ASSUME ~draftRaced
        PROVE  ApprovalAnsweredBelow(n)
    <3>2. ASSUME NEW r \in ApprovalRows, 0 < line[r].step, line[r].step < n
          PROVE  \E q \in answered : line[q].step = line[r].step
      <4>1. line[r].step = entities[r].step /\ line[r].step \in Nat
        BY <1>1, <1>2, <2>3 DEF ApprovalSameNumbers, Approvals!StepRows, ApprovalSoundRows
      <4>2. CASE line[r].step < c
        BY <1>2, <2>3, <3>2, <4>2 DEF ApprovalAnsweredBelow
      <4>3. CASE line[r].step = c
        BY <1>1, <1>2, <2>3, <4>3 DEF ApprovalSameNumbers
      <4>4. CASE line[r].step > c
        BY <1>1, <1>4, <2>1, <2>3, <3>2, <4>1, <4>4 DEF Approvals!NextSteps, Approvals!StepRows,
           ApprovalSoundRows
      <4> QED
        BY <1>1, <4>1, <4>2, <4>3, <4>4
    <3> QED
      BY <3>2 DEF ApprovalAnsweredBelow
  <2>4. ~draftRaced => n > 0 /\ entity.status = "in_progress"
    BY <1>1, <1>2, <2>1, <2>2
  <2>5. Approvals!SaveDocument(h, entity, "idle")
    BY <1>5
  <2> HIDE DEF entity
  <2> QED
    BY <1>2, <1>5, <2>2, <2>3, <2>4, <2>5, ApprovalSaveKeeps
<1>6. ASSUME Approvals!NextSteps(h) = {}, Approvals!SaveDocument(h, [local[h].doc EXCEPT !.status = "approved"], "sealing"), Approvals!Unheld
      PROVE  ApprovalInv'
  <2> DEFINE entity == [local[h].doc EXCEPT !.status = "approved"]
  <2>1. entity \in Approvals!Documents /\ entity.status = "approved"
    BY <1>1 DEF Approvals!Documents, Approvals!Statuses
  <2>2. Approvals!Later(h) = {}
    <3> DEFINE numbers == {entities[r].step : r \in Approvals!Later(h)}
    <3>1. numbers \subseteq Nat
      BY <1>1 DEF Approvals!Later, Approvals!StepRows, ApprovalSoundRows
    <3>2. numbers # {} => \E n \in numbers : \A m \in numbers : n <= m
      BY <3>1, HasLeast
    <3>3. Approvals!NextSteps(h) = {n \in numbers : \A r \in Approvals!Later(h) : n <= entities[r].step}
      BY DEF Approvals!NextSteps
    <3>4. numbers = {}
      BY <1>6, <3>2, <3>3
    <3> QED
      BY <3>4
  <2>3. ASSUME ~draftRaced
        PROVE  ApprovalAnsweredAll
    <3>1. ASSUME NEW r \in ApprovalRows, 0 < line[r].step
          PROVE  \E q \in answered : line[q].step = line[r].step
      <4>1. line[r].step = entities[r].step /\ line[r].step \in Nat
        BY <1>1, <1>2, <2>3 DEF ApprovalSameNumbers, Approvals!StepRows, ApprovalSoundRows
      <4>2. CASE line[r].step < c
        BY <1>2, <2>3, <3>1, <4>2 DEF ApprovalAnsweredBelow
      <4>3. CASE line[r].step = c
        BY <1>1, <1>2, <2>3, <4>3 DEF ApprovalSameNumbers
      <4>4. CASE line[r].step > c
        BY <1>4, <2>2, <2>3, <4>1, <4>4
      <4> QED
        BY <1>1, <4>1, <4>2, <4>3, <4>4
    <3> QED
      BY <3>1 DEF ApprovalAnsweredAll
  <2>4. Approvals!SaveDocument(h, entity, "sealing")
    BY <1>6
  <2> HIDE DEF entity
  <2> QED
    BY <1>2, <1>6, <2>1, <2>3, <2>4, ApprovalSaveKeeps
<1> QED
  BY <1>3, <1>5, <1>6 DEF Approvals!Advance

\* An answer is saved.
LEMMA ApprovalAnswerKeeps ==
  ASSUME ApprovalInv, NEW h \in Handlers, ApprovalNoted(h), overlapped' \in BOOLEAN,
         Approvals!ApproveStep(h) \/ Approvals!RejectStep(h)
  PROVE  ApprovalInv'
<1> DEFINE r == local[h].row
           entities == local[h].line
<1>1. /\ pc[h] \in ApprovalAnswering /\ local[h] \in ApprovalLocals
      /\ r \in Approvals!Present(entities) /\ r \in ApprovalRows
      /\ line \in [ApprovalRows -> ApprovalSoundRows]
      /\ entities \in [ApprovalRows -> ApprovalSoundRows]
  BY DEF ApprovalInv, ApprovalTyped, ApprovalLocals, Approvals!Present, Approvals!ApproveStep,
     Approvals!RejectStep, ApprovalAnswering
<1>2. PICK status \in {"approved", "rejected"}, next \in {"advancing", "closing"} : Approvals!Answer(h, status, next)
  BY DEF Approvals!ApproveStep, Approvals!RejectStep
<1> DEFINE reply == [entities[r] EXCEPT !.status = status]
           held == [local[h] EXCEPT !.line[r] = reply]
<1>3. reply \in ApprovalSoundRows /\ reply.step = entities[r].step /\ reply.step # 0
  BY <1>1 DEF Approvals!Present, ApprovalSoundRows, Approvals!StepRows
<1>4. /\ held \in ApprovalLocals /\ held.doc = local[h].doc /\ held.row = r
      /\ held.line = [entities EXCEPT ![r] = reply]
  BY <1>1, <1>3 DEF ApprovalLocals
<1>5. /\ line' = [line EXCEPT ![r] = reply] /\ doc' = doc /\ applied' = applied
      /\ answered' = answered \cup {r}
      /\ pc' = [pc EXCEPT ![h] = next] /\ local' = [local EXCEPT ![h] = held]
  BY <1>2 DEF Approvals!Answer, Approvals!Goto, Approvals!Hold
<1> HIDE DEF reply, held
<1>6. /\ line' \in [ApprovalRows -> ApprovalSoundRows] /\ answered' \subseteq ApprovalRows
      /\ pc'[h] = next /\ local'[h] = held
  BY <1>1, <1>3, <1>5 DEF ApprovalInv, ApprovalTyped
<1>7. \A q \in ApprovalRows : line'[q].status # "pending" \/ held.line[q].status # "pending" =>
        q \in answered'
  BY <1>1, <1>4, <1>5 DEF ApprovalInv, ApprovalOnlyAnswers
<1>8. held.row \in Approvals!Present(held.line)
  BY <1>1, <1>3, <1>4 DEF Approvals!Present
<1>9. ASSUME ~draftRaced'
      PROVE  /\ \A q \in ApprovalRows : line'[q].step = line[q].step
             /\ doc.status \notin {"none", "draft"} /\ ApprovalHeldBy(h)' /\ ApprovalInOrder'
  <2>1. ApprovalNotAsked /\ ApprovalInOrder /\ ApprovalHeldBy(h)
    BY <1>9 DEF ApprovalNoted, ApprovalInv, ApprovalRace
  <2>2. /\ ApprovalSameNumbers(entities) /\ local[h].doc.status = "in_progress"
        /\ entities[r].step = local[h].doc.currentStep /\ local[h].doc.currentStep > 0
        /\ ApprovalAnsweredBelow(local[h].doc.currentStep)
    BY <1>1, <2>1 DEF ApprovalHeldBy
  <2>3. doc.status \notin {"none", "draft"}
    BY <1>1, <2>1 DEF ApprovalNotAsked, ApprovalAnswering, ApprovalEarly, Approvals!Drafting
  <2>4. \A q \in ApprovalRows : line'[q].step = line[q].step /\ held.line[q].step = line'[q].step
    BY <1>1, <1>3, <1>4, <1>5, <2>2 DEF ApprovalSameNumbers
  <2>5. /\ ApprovalAnsweredAll => ApprovalAnsweredAll'
        /\ \A n \in Nat : ApprovalAnsweredBelow(n) => ApprovalAnsweredBelow(n)'
    BY <1>5, <2>4 DEF ApprovalAnsweredAll, ApprovalAnsweredBelow, ApprovalInv, ApprovalTyped
  <2>6. doc.currentStep \in Nat /\ local[h].doc.currentStep \in Nat
    BY <1>1 DEF ApprovalInv, ApprovalTyped, Approvals!Documents, ApprovalLocals
  <2>7. ApprovalHeldBy(h)'
    BY <1>1, <1>3, <1>4, <1>5, <1>6, <2>2, <2>4, <2>5, <2>6 DEF ApprovalHeldBy,
       ApprovalSameNumbers, ApprovalAnswering, ApprovalEnding
  <2>9. ApprovalInOrder'
    BY <1>5, <2>1, <2>5, <2>6 DEF ApprovalInOrder
  <2> QED
    BY <2>3, <2>4, <2>7, <2>9
<1>10. /\ next \in Approvals!Steps \ Approvals!Drafting /\ applied \in 0 .. 2
       /\ doc \in Approvals!Documents
  BY DEF Approvals!Steps, Approvals!Drafting, ApprovalInv, ApprovalTyped
<1> QED
  BY <1>4, <1>5, <1>6, <1>7, <1>8, <1>9, <1>10, ApprovalStepKeeps

\* Drafting
LEMMA ApprovalInsertKeeps ==
  ASSUME ApprovalInv, NEW h \in Handlers, ApprovalNoted(h), overlapped' \in BOOLEAN,
         Approvals!CreateSteps(h) \/ Approvals!UpdateInsert(h) \/ Approvals!RequestSteps(h)
  PROVE  ApprovalInv'
<1>1. PICK added \in Approvals!Lines : line' = [r \in ApprovalRows |-> IF added[r] = Approvals!NoStep THEN line[r] ELSE added[r]]
  BY DEF Approvals!CreateSteps, Approvals!UpdateInsert, Approvals!RequestSteps,
     Approvals!InsertSteps
<1>2. /\ pc[h] \in Approvals!Drafting /\ doc' = doc /\ answered' = answered /\ applied' = applied
      /\ pc' = [pc EXCEPT ![h] = "idle"] /\ local' = [local EXCEPT ![h] = Approvals!NoLocal]
  BY DEF Approvals!CreateSteps, Approvals!UpdateInsert, Approvals!RequestSteps,
     Approvals!InsertSteps, Approvals!Return,
     Approvals!Goto, Approvals!Hold, Approvals!Unheld, Approvals!Drafting
<1>3. \A r \in ApprovalRows : added[r] \in ApprovalSoundRows /\ added[r].status = "pending"
  BY <1>1 DEF Approvals!Lines, ApprovalSoundRows, Approvals!StepRows, Approvals!NoStep
<1>4. /\ line' \in [ApprovalRows -> ApprovalSoundRows]
      /\ \A r \in ApprovalRows : line'[r].status # "pending" => r \in answered
  BY <1>1, <1>3, ApprovalEmpties DEF ApprovalInv, ApprovalTyped
<1>5. pc'[h] = "idle"
  BY <1>2 DEF ApprovalInv, ApprovalTyped
<1>6. ApprovalHeldBy(h)'
  BY <1>5 DEF ApprovalHeldBy, ApprovalAnswering, ApprovalEnding
<1>7. ~draftRaced => /\ answered = {} /\ applied = 0
                     /\ doc.status = "draft" \/ (doc.status = "in_progress" /\ doc.currentStep = 1)
  <2> SUFFICES ASSUME ~draftRaced
               PROVE  /\ answered = {} /\ applied = 0
                      /\ doc.status = "draft" \/ (doc.status = "in_progress" /\ doc.currentStep = 1)
    OBVIOUS
  <2>1. ApprovalDraftsBy(h) /\ ApprovalNotAsked
    BY DEF ApprovalInv, ApprovalRace
  <2>2. CASE pc[h] = "requesting"
    BY <1>2, <2>1, <2>2 DEF ApprovalDraftsBy
  <2>3. CASE pc[h] # "requesting"
    <3>1. doc.status = "draft"
      BY <1>2, <2>1, <2>3 DEF ApprovalDraftsBy
    <3> QED
      BY <2>1, <3>1 DEF ApprovalNotAsked
  <2> QED
    BY <2>2, <2>3
<1>8. ~draftRaced' => ~draftRaced
  BY DEF ApprovalNoted
<1>11. ApprovalAnsweredBelow(1)'
  BY <1>4 DEF ApprovalAnsweredBelow, Approvals!StepRows, ApprovalSoundRows
<1>9. ~draftRaced' => ApprovalInOrder'
  BY <1>2, <1>7, <1>8, <1>11 DEF ApprovalInOrder
<1>10. doc \in Approvals!Documents /\ answered \subseteq ApprovalRows /\ applied \in 0 .. 2
  BY DEF ApprovalInv, ApprovalTyped
<1> QED
  BY <1>2, <1>4, <1>6, <1>7, <1>8, <1>9, <1>10, ApprovalEmpties, ApprovalNoneTyped,
     ApprovalStepKeeps
     DEF Approvals!Steps, Approvals!Drafting, ApprovalAnswering, ApprovalEarly

\* A document is put up at once.
LEMMA ApprovalRequestKeeps ==
  ASSUME ApprovalInv, NEW h \in Handlers, ApprovalNoted(h), overlapped' \in BOOLEAN,
         Approvals!RequestChange(h)
  PROVE  ApprovalInv'
<1>1. /\ doc.status = "none"
      /\ doc' = [Approvals!NoDocument EXCEPT !.status = "in_progress", !.currentStep = 1]
      /\ pc' = [pc EXCEPT ![h] = "requesting"] /\ local' = local
      /\ line' = line /\ answered' = answered /\ applied' = applied
  BY DEF Approvals!RequestChange, Approvals!Goto, Approvals!Unheld
<1>2. doc' \in Approvals!Documents /\ doc'.status = "in_progress" /\ doc'.currentStep = 1
  <2>1. 1 \in 0 .. LastStep
    BY ApprovalGiven DEF Approvals!ApprovalsAssumption
  <2> QED
    BY <1>1, <2>1, ApprovalNoneTyped DEF Approvals!NoDocument, Approvals!Documents, Approvals!Statuses
<1>3. /\ local' = [local EXCEPT ![h] = local[h]] /\ local[h] \in ApprovalLocals
      /\ pc'[h] = "requesting" /\ answered \subseteq ApprovalRows /\ applied \in 0 .. 2
      /\ line \in [ApprovalRows -> ApprovalSoundRows]
  BY <1>1 DEF ApprovalInv, ApprovalTyped
<1>4. \A r \in ApprovalRows : line[r].status # "pending" \/ local[h].line[r].status # "pending" =>
        r \in answered
  BY DEF ApprovalInv, ApprovalOnlyAnswers
<1>5. ~draftRaced' => answered = {} /\ applied = 0
  BY <1>1 DEF ApprovalNoted, ApprovalInv, ApprovalRace, ApprovalNotAsked
<1>6. ApprovalAnsweredBelow(1)'
  BY <1>1, <1>3 DEF ApprovalAnsweredBelow, Approvals!StepRows, ApprovalSoundRows
<1>7. ~draftRaced' => ApprovalInOrder'
  BY <1>1, <1>2, <1>5, <1>6 DEF ApprovalInOrder
<1>8. ApprovalHeldBy(h)'
  BY <1>3 DEF ApprovalHeldBy, ApprovalAnswering, ApprovalEnding
<1> QED
  BY <1>1, <1>2, <1>3, <1>4, <1>5, <1>7, <1>8, ApprovalStepKeeps DEF Approvals!Steps,
     Approvals!Drafting, ApprovalAnswering, ApprovalEarly

\* A draft is made, or its line deleted.
LEMMA ApprovalDraftKeeps ==
  ASSUME ApprovalInv, NEW h \in Handlers, ApprovalNoted(h), overlapped' \in BOOLEAN,
         Approvals!Create(h) \/ Approvals!UpdateDelete(h)
  PROVE  ApprovalInv'
<1>1. CASE Approvals!Create(h)
  <2>1. /\ doc.status = "none" /\ doc' = [Approvals!NoDocument EXCEPT !.status = "draft"]
        /\ pc' = [pc EXCEPT ![h] = "creating"] /\ local' = local
        /\ line' = line /\ answered' = answered /\ applied' = applied
    BY <1>1 DEF Approvals!Create, Approvals!Goto, Approvals!Unheld
  <2>2. doc' \in Approvals!Documents /\ doc'.status = "draft"
    BY <2>1, ApprovalNoneTyped DEF Approvals!Documents, Approvals!Statuses
  <2>3. local' = [local EXCEPT ![h] = local[h]] /\ local[h] \in ApprovalLocals /\ pc'[h] = "creating"
        /\ answered \subseteq ApprovalRows /\ applied \in 0 .. 2
        /\ line \in [ApprovalRows -> ApprovalSoundRows]
    BY <2>1 DEF ApprovalInv, ApprovalTyped
  <2>4. \A r \in ApprovalRows : line[r].status # "pending" \/ local[h].line[r].status # "pending" =>
          r \in answered
    BY DEF ApprovalInv, ApprovalOnlyAnswers
  <2>5. ~draftRaced' => answered = {} /\ applied = 0
    BY <2>1 DEF ApprovalNoted, ApprovalInv, ApprovalRace, ApprovalNotAsked
  <2>7. ~draftRaced' => ApprovalInOrder'
    BY <2>1, <2>2, <2>5 DEF ApprovalInOrder
  <2>6. ApprovalHeldBy(h)'
    BY <2>3 DEF ApprovalHeldBy, ApprovalAnswering, ApprovalEnding
  <2> QED
    BY <2>1, <2>2, <2>3, <2>4, <2>5, <2>6, <2>7, ApprovalStepKeeps DEF Approvals!Steps,
       Approvals!Drafting, ApprovalAnswering, ApprovalEarly
<1>2. CASE Approvals!UpdateDelete(h)
  <2>1. /\ pc[h] = "replacing" /\ doc' = doc /\ line' = Approvals!NoLine
        /\ answered' = answered /\ applied' = applied
        /\ pc' = [pc EXCEPT ![h] = "inserting"] /\ local' = [local EXCEPT ![h] = Approvals!NoLocal]
    BY <1>2 DEF Approvals!UpdateDelete, Approvals!Goto, Approvals!Hold, Approvals!Unheld
  <2>2. /\ doc \in Approvals!Documents /\ answered \subseteq ApprovalRows
        /\ applied \in 0 .. 2 /\ pc'[h] = "inserting"
    BY <2>1 DEF ApprovalInv, ApprovalTyped
  <2>3. ~draftRaced' => doc.status = "draft" /\ answered = {} /\ applied = 0
    BY <2>1 DEF ApprovalNoted, ApprovalInv, ApprovalRace, ApprovalDraftsBy, ApprovalNotAsked,
       Approvals!Drafting
  <2>4. ~draftRaced' => ApprovalInOrder'
    BY <2>1, <2>3 DEF ApprovalInOrder
  <2>5. ApprovalHeldBy(h)'
    BY <2>2 DEF ApprovalHeldBy, ApprovalAnswering, ApprovalEnding
  <2> QED
    <3>1. /\ "inserting" \in Approvals!Steps /\ "inserting" \in ApprovalEarly
          /\ "inserting" \notin ApprovalAnswering
      BY DEF Approvals!Steps, Approvals!Drafting, ApprovalAnswering, ApprovalEarly
    <3>2. line' \in [ApprovalRows -> ApprovalSoundRows] /\ pc[h] \in Approvals!Drafting
      BY <2>1, ApprovalNoneTyped DEF Approvals!Drafting
    <3>3. \A r \in ApprovalRows :
            line'[r].status # "pending" \/ Approvals!NoLocal.line[r].status # "pending" =>
              r \in answered'
      BY <2>1, ApprovalEmpties
    <3> QED
      BY <2>1, <2>2, <2>3, <2>4, <2>5, <3>1, <3>2, <3>3, ApprovalNoneTyped, ApprovalStepKeeps
<1> QED
  BY <1>1, <1>2

\* The end
LEMMA ApprovalEndKeeps ==
  ASSUME ApprovalInv, NEW h \in Handlers, ApprovalNoted(h), overlapped' \in BOOLEAN,
         \/ Approvals!SoftDelete(h) \/ Approvals!SealSteps(h) \/ Approvals!SealDocument(h)
         \/ Approvals!Apply(h)
  PROVE  ApprovalInv'
<1>1. PICK step \in {"idle", "stamping", "applying"}, held \in {Approvals!NoLocal, local[h]} :
        /\ pc' = [pc EXCEPT ![h] = step] /\ local' = [local EXCEPT ![h] = held]
        /\ pc[h] \in ApprovalEnding \/ step = "idle"
  BY DEF Approvals!SoftDelete, Approvals!SealSteps, Approvals!SealDocument, Approvals!Apply,
     Approvals!Return, Approvals!Goto, Approvals!Hold, ApprovalEnding, ApprovalInv, ApprovalTyped
<1>2. /\ held \in ApprovalLocals /\ doc \in Approvals!Documents
      /\ line \in [ApprovalRows -> ApprovalSoundRows]
      /\ pc'[h] = step /\ applied \in 0 .. 2 /\ answered \subseteq ApprovalRows
  BY <1>1, ApprovalNoneTyped DEF ApprovalInv, ApprovalTyped
<1>3. /\ doc' \in Approvals!Documents /\ doc'.status = doc.status
      /\ doc'.currentStep = doc.currentStep
      /\ answered' = answered /\ applied' \in 0 .. 2
      /\ pc[h] \in ApprovalEnding \/ applied' = applied
  <2>1. CASE Approvals!Apply(h)
    BY <1>2, <2>1 DEF Approvals!Apply, ApprovalEnding
  <2>2. CASE Approvals!SealSteps(h)
    BY <1>2, <2>2 DEF Approvals!SealSteps, Approvals!Unheld
  <2>3. CASE Approvals!SoftDelete(h) \/ Approvals!SealDocument(h)
    BY <1>2, <2>3 DEF Approvals!SoftDelete, Approvals!SealDocument, Approvals!Unheld,
       Approvals!Documents
  <2> QED
    BY <2>1, <2>2, <2>3
<1>4. /\ line' \in [ApprovalRows -> ApprovalSoundRows]
      /\ \A r \in ApprovalRows : line'[r].step = line[r].step /\ line'[r].status = line[r].status
  <2>1. CASE Approvals!SealSteps(h)
    <3>1. line' = [r \in ApprovalRows |-> IF r \in Approvals!Present(line) \cap Approvals!Present(local[h].line)
                                           THEN [line[r] EXCEPT !.hashed = TRUE] ELSE line[r]]
      BY <2>1 DEF Approvals!SealSteps
    <3>2. \A r \in Approvals!Present(line) : [line[r] EXCEPT !.hashed = TRUE] \in ApprovalSoundRows
                                             /\ [line[r] EXCEPT !.hashed = TRUE].step = line[r].step
                                             /\ [line[r] EXCEPT !.hashed = TRUE].status = line[r].status
      BY <1>2 DEF ApprovalSoundRows, Approvals!StepRows, Approvals!Present
    <3> QED
      BY <1>2, <3>1, <3>2
  <2>2. CASE Approvals!SoftDelete(h) \/ Approvals!SealDocument(h) \/ Approvals!Apply(h)
    BY <1>2, <2>2 DEF Approvals!SoftDelete, Approvals!SealDocument, Approvals!Apply
  <2> QED
    BY <2>1, <2>2
<1>5. \A r \in ApprovalRows : line'[r].status # "pending" \/ held.line[r].status # "pending" =>
        r \in answered'
  BY <1>3, <1>4, ApprovalEmpties DEF ApprovalInv, ApprovalOnlyAnswers
<1>6. ASSUME ~draftRaced'
      PROVE  ApprovalHeldBy(h)' /\ ApprovalInOrder'
             /\ (doc.status \in {"none", "draft"} => answered = {} /\ applied' = 0 /\ step = "idle")
  <2>1. ApprovalNotAsked /\ ApprovalInOrder /\ ApprovalHeldBy(h)
    BY <1>6 DEF ApprovalNoted, ApprovalInv, ApprovalRace
  <2>2. /\ ApprovalAnsweredAll => ApprovalAnsweredAll'
        /\ \A n \in Nat : ApprovalAnsweredBelow(n) => ApprovalAnsweredBelow(n)'
    BY <1>3, <1>4 DEF ApprovalAnsweredAll, ApprovalAnsweredBelow, ApprovalInv, ApprovalTyped
  <2>3. pc[h] \in ApprovalEnding => ApprovalAnsweredAll'
    BY <2>1, <2>2 DEF ApprovalHeldBy
  <2>4. ApprovalHeldBy(h)'
    BY <1>1, <1>2, <2>3 DEF ApprovalHeldBy, ApprovalAnswering, ApprovalEnding
  <2>6. ApprovalInOrder'
    BY <1>2, <1>3, <2>1, <2>2, <2>3 DEF ApprovalInOrder, Approvals!Documents
  <2>7. doc.status \in {"none", "draft"} => pc[h] \notin ApprovalEnding
    BY <2>1 DEF ApprovalNotAsked, ApprovalEnding, ApprovalEarly, Approvals!Drafting
  <2> QED
    BY <1>1, <1>3, <2>1, <2>4, <2>6, <2>7 DEF ApprovalNotAsked
<1>7. step \in Approvals!Steps \ Approvals!Drafting /\ step \notin ApprovalAnswering
  BY DEF Approvals!Steps, Approvals!Drafting, ApprovalAnswering
<1> QED
  BY <1>1, <1>2, <1>3, <1>4, <1>5, <1>6, <1>7, ApprovalStepKeeps DEF ApprovalEarly

\* The initial states have the invariant.
LEMMA ApprovalInitHolds == Approvals!Init => ApprovalInv
<1> SUFFICES ASSUME Approvals!Init PROVE ApprovalInv
  OBVIOUS
<1>1. ApprovalTyped
  <2>1. /\ pc \in [Handlers -> Approvals!Steps] /\ local \in [Handlers -> ApprovalLocals]
        /\ \A h \in Handlers : pc[h] \notin ApprovalAnswering
    BY ApprovalNoneTyped DEF Approvals!Init, Approvals!AllIdle, Approvals!Steps, ApprovalAnswering
  <2>2. doc \in Approvals!Documents /\ line \in [ApprovalRows -> ApprovalSoundRows] /\ answered = {} /\ applied = 0
        /\ overlapped = FALSE /\ draftRaced = FALSE
    BY ApprovalNoneTyped DEF Approvals!Init, Approvals!AllIdle
  <2>3. answered \subseteq ApprovalRows /\ applied \in 0 .. 2
    BY <2>2
  <2>4. overlapped \in BOOLEAN /\ draftRaced \in BOOLEAN
    BY <2>2, Zenon
  <2> QED
    BY <2>1, <2>2, <2>3, <2>4 DEF ApprovalTyped
<1>2. ApprovalOnlyAnswers
  BY DEF Approvals!Init, Approvals!AllIdle, ApprovalOnlyAnswers, Approvals!NoLocal,
     Approvals!NoLine, Approvals!NoStep
<1>3. ApprovalRace
  BY DEF Approvals!Init, Approvals!AllIdle, ApprovalRace, ApprovalNotAsked, ApprovalInOrder,
     ApprovalDraftsBy, ApprovalHeldBy, Approvals!NoDocument, ApprovalEarly, Approvals!Drafting,
     ApprovalAnswering, ApprovalEnding
<1> QED
  BY <1>1, <1>2, <1>3 DEF ApprovalInv

\* A step of any handler.
LEMMA ApprovalNextKeeps == ApprovalInv /\ [Approvals!Next]_(Approvals!vars) => ApprovalInv'
<1> SUFFICES ASSUME ApprovalInv, [Approvals!Next]_(Approvals!vars) PROVE ApprovalInv'
  OBVIOUS
<1>1. CASE UNCHANGED Approvals!vars
  <2>1. ApprovalTyped' /\ ApprovalOnlyAnswers'
    BY <1>1 DEF Approvals!vars, ApprovalInv, ApprovalTyped, ApprovalOnlyAnswers
  <2>2. ApprovalRace'
    BY <1>1 DEF Approvals!vars, ApprovalInv, ApprovalRace, ApprovalNotAsked, ApprovalInOrder,
       ApprovalDraftsBy, ApprovalHeldBy, ApprovalAnsweredBelow, ApprovalAnsweredAll,
       ApprovalSameNumbers
  <2> QED
    BY <2>1, <2>2 DEF ApprovalInv
<1>2. ASSUME NEW h \in Handlers, Approvals!HandlerStep(h) \/ Approvals!Crash(h), ApprovalNoted(h), Approvals!Overlap(h)
      PROVE  ApprovalInv'
  <2>1. overlapped' \in BOOLEAN
    BY <1>2 DEF Approvals!Overlap
  <2>2. CASE Approvals!Crash(h)
    BY <1>2, <2>1, <2>2, ApprovalReturnKeeps DEF Approvals!Crash
  <2>3. CASE Approvals!HandlerStep(h)
    BY <1>2, <2>1, <2>3, ApprovalFindKeeps, ApprovalRemoveKeeps, ApprovalFindStepKeeps,
       ApprovalSealReadKeeps, ApprovalAuthorSaves,
       ApprovalApproverSaves, ApprovalAnswerKeeps, ApprovalInsertKeeps, ApprovalDraftKeeps,
       ApprovalRequestKeeps, ApprovalEndKeeps DEF Approvals!HandlerStep
  <2> QED
    BY <1>2, <2>2, <2>3
<1> QED
  BY <1>1, <1>2 DEF Approvals!Next, ApprovalNoted

\* Nobody was skipped.
LEMMA ApprovalImplied == ApprovalInv => Approvals!NobodySkipped
<1> SUFFICES ASSUME ApprovalInv, ~draftRaced, NEW r \in Approvals!Present(line),
                    \/ doc.status = "approved" \/ applied > 0
                    \/ doc.status = "in_progress" /\ line[r].step < doc.currentStep
             PROVE  \E q \in answered : line[q].step = line[r].step
  BY DEF Approvals!NobodySkipped
<1>1. r \in ApprovalRows /\ line[r].step > 0
  BY DEF Approvals!Present, ApprovalInv, ApprovalTyped, ApprovalSoundRows, Approvals!StepRows
<1> QED
  BY <1>1 DEF ApprovalInv, ApprovalRace, ApprovalInOrder, ApprovalAnsweredAll, ApprovalAnsweredBelow

\* Steps that write nothing, when handlers do not overlap.
LEMMA ApprovalLooksDecide ==
  ASSUME ApprovalInv, NEW h \in Handlers, ApprovalDecided, ApprovalInHand(h), ApprovalDraftsBy(h),
         \/ Approvals!Update(h) \/ Approvals!Submit(h) \/ Approvals!Cancel(h)
         \/ Approvals!Remove(h) \/ Approvals!Approve(h) \/ Approvals!Reject(h)
         \/ Approvals!SealRead(h) \/ Approvals!SealFails(h) \/ Approvals!Crash(h)
  PROVE  ApprovalInHand(h)' /\ ApprovalDecided' /\ Approvals!SealKept /\ Approvals!DecisionKept
<1>1. doc' = doc /\ line' = line /\ applied' = applied
  BY DEF Approvals!Update, Approvals!Submit, Approvals!Cancel, Approvals!Remove, Approvals!Approve,
     Approvals!Reject, Approvals!SealRead, Approvals!SealFails, Approvals!Crash,
         Approvals!Find, Approvals!Found, Approvals!FindStep, Approvals!ReadOnly, Approvals!Unheld
<1>2. ApprovalDecided'
  BY <1>1 DEF ApprovalDecided, ApprovalApprovedBelow, ApprovalApprovedEach, Approvals!Present
<1>3. ApprovalInHand(h)'
  <2>1. CASE Approvals!Update(h) \/ Approvals!Submit(h) \/ Approvals!Cancel(h) \/ Approvals!Remove(h)
    BY <1>1, <2>1 DEF ApprovalInv, ApprovalTyped, Approvals!Update, Approvals!Submit,
       Approvals!Cancel, Approvals!Remove, Approvals!Find, Approvals!Found, Approvals!Goto,
       Approvals!Hold, ApprovalInHand, ApprovalDecided,
         ApprovalReading, ApprovalAnswering, ApprovalEnding, Approvals!NoLocal
  <2>2. CASE Approvals!Approve(h) \/ Approvals!Reject(h)
    BY <1>1, <2>2 DEF ApprovalInv, ApprovalTyped, Approvals!Approve, Approvals!Reject,
       Approvals!FindStep, Approvals!Goto, Approvals!Hold, ApprovalInHand, ApprovalDecided,
         ApprovalReading, ApprovalAnswering, ApprovalEnding
  <2>3. CASE Approvals!SealRead(h) \/ Approvals!SealFails(h) \/ Approvals!Crash(h)
    BY <1>1, <2>3 DEF ApprovalInv, ApprovalTyped, Approvals!SealRead, Approvals!SealFails,
       Approvals!Crash, Approvals!Return, Approvals!Goto, Approvals!Hold, ApprovalInHand,
         ApprovalReading, ApprovalAnswering, ApprovalEnding, Approvals!NoLocal
  <2> QED
    BY <2>1, <2>2, <2>3
<1>4. Approvals!SealKept
  BY <1>1 DEF Approvals!SealKept, ApprovalDecided
<1> QED
  BY <1>1, <1>2, <1>3, <1>4 DEF Approvals!DecisionKept

\* Drafting, when handlers do not overlap.
LEMMA ApprovalDraftsDecide ==
  ASSUME ApprovalInv, NEW h \in Handlers, ApprovalDecided, ApprovalInHand(h), ApprovalDraftsBy(h),
         applied > 0 => doc.status = "approved",
         \/ Approvals!Create(h) \/ Approvals!CreateSteps(h) \/ Approvals!UpdateSave(h)
         \/ Approvals!UpdateDelete(h) \/ Approvals!UpdateInsert(h)
  PROVE  ApprovalInHand(h)' /\ ApprovalDecided' /\ Approvals!SealKept /\ Approvals!DecisionKept
<1>1. \/ doc.status = "none" /\ Approvals!Create(h)
      \/ doc.status = "draft" /\ ~Approvals!Create(h)
  BY DEF Approvals!Create, Approvals!CreateSteps, Approvals!UpdateSave, Approvals!UpdateDelete,
     Approvals!UpdateInsert, ApprovalDraftsBy, Approvals!Drafting
<1>2. doc'.status = "draft" /\ ~doc'.sealed /\ applied' = applied
  <2>1. CASE Approvals!Create(h)
    BY <2>1 DEF Approvals!Create, Approvals!NoDocument, Approvals!Unheld
  <2>2. CASE Approvals!UpdateSave(h)
    <3>1. PICK next \in {"idle", "replacing"} : /\ Approvals!SaveDocument(h, local[h].doc, next)
                                                /\ pc[h] = "updating" /\ Approvals!Unheld
      BY <2>2 DEF Approvals!UpdateSave
    <3>2. local[h].doc = doc /\ ~doc.sealed
      BY <3>1 DEF ApprovalInHand, ApprovalReading
    <3>3. doc.status = "draft"
      BY <3>1 DEF ApprovalDraftsBy, Approvals!Drafting
    <3> QED
      BY <3>1, <3>2, <3>3 DEF Approvals!SaveDocument, Approvals!Unheld
  <2>3. CASE Approvals!CreateSteps(h) \/ Approvals!UpdateDelete(h) \/ Approvals!UpdateInsert(h)
    BY <1>1, <2>3 DEF Approvals!CreateSteps, Approvals!UpdateDelete, Approvals!UpdateInsert,
       Approvals!InsertSteps, Approvals!Unheld, ApprovalDecided, Approvals!Create
  <2> QED
    BY <2>1, <2>2, <2>3
<1>3. \A r \in ApprovalRows : line'[r].status = "pending"
  <2>1. \A r \in ApprovalRows : line[r].status = "pending"
    BY <1>1 DEF ApprovalDecided
  <2>2. CASE Approvals!Create(h) \/ Approvals!UpdateSave(h) \/ Approvals!UpdateDelete(h)
    BY <2>1, <2>2, ApprovalEmpties DEF Approvals!Create, Approvals!UpdateSave,
       Approvals!SaveDocument, Approvals!UpdateDelete, ApprovalInHand, ApprovalReading
  <2>3. CASE Approvals!CreateSteps(h) \/ Approvals!UpdateInsert(h)
    BY <2>1, <2>3 DEF Approvals!CreateSteps, Approvals!UpdateInsert, Approvals!InsertSteps,
       Approvals!Lines
  <2> QED
    BY <2>2, <2>3
<1>4. pc'[h] \in Approvals!Drafting \cup {"idle"} /\ pc'[h] \notin {"updating", "submitting"}
  BY DEF Approvals!Create, Approvals!CreateSteps, Approvals!UpdateSave, Approvals!UpdateDelete,
     Approvals!UpdateInsert, Approvals!InsertSteps, Approvals!SaveDocument, Approvals!Return,
     Approvals!Goto,
         Approvals!Drafting, ApprovalInv, ApprovalTyped
<1>5. ApprovalInHand(h)'
  BY <1>4 DEF ApprovalInHand, ApprovalReading, ApprovalAnswering, ApprovalEnding, Approvals!Drafting
<1>6. ApprovalDecided'
  BY <1>1, <1>2, <1>3 DEF ApprovalDecided
<1> QED
  BY <1>1, <1>2, <1>5, <1>6 DEF Approvals!SealKept, Approvals!DecisionKept, ApprovalDecided

\* A document is put up at once, when handlers do not overlap.
LEMMA ApprovalRequestDecides ==
  ASSUME ApprovalInv, NEW h \in Handlers, ApprovalDecided, ApprovalInHand(h), ApprovalDraftsBy(h),
         Approvals!RequestChange(h) \/ Approvals!RequestSteps(h)
  PROVE  ApprovalInHand(h)' /\ ApprovalDecided' /\ Approvals!SealKept /\ Approvals!DecisionKept
<1>1. /\ applied \in 0 .. 2 /\ line \in [ApprovalRows -> ApprovalSoundRows]
      /\ \A r \in ApprovalRows : line[r].status # "pending" => r \in answered
  BY DEF ApprovalInv, ApprovalTyped, ApprovalOnlyAnswers
<1>2. /\ doc.status = "none" \/ (doc.status = "in_progress" /\ doc' = doc)
      /\ ~doc.sealed /\ applied = 0 /\ applied' = applied
      /\ doc'.status = "in_progress" /\ doc'.currentStep = 1 /\ ~doc'.sealed
      /\ \A r \in ApprovalRows : line[r].status = "pending"
      /\ pc'[h] \in {"requesting", "idle"}
  <2>1. CASE Approvals!RequestChange(h)
    <3>1. /\ doc.status = "none" /\ applied' = applied /\ pc'[h] = "requesting"
          /\ doc' = [Approvals!NoDocument EXCEPT !.status = "in_progress", !.currentStep = 1]
      BY <2>1 DEF Approvals!RequestChange, Approvals!Unheld, Approvals!Goto, ApprovalInv, ApprovalTyped
    <3>2. doc'.status = "in_progress" /\ doc'.currentStep = 1 /\ ~doc'.sealed
      BY <3>1 DEF Approvals!NoDocument
    <3>3. /\ ~doc.sealed /\ ~(applied > 0)
          /\ \A r \in ApprovalRows : line[r].status = "pending"
      BY <3>1 DEF ApprovalDecided
    <3>4. applied = 0
      BY <1>1, <3>3
    <3> QED
      BY <3>1, <3>2, <3>3, <3>4
  <2>2. CASE Approvals!RequestSteps(h)
    <3>1. pc[h] = "requesting" /\ doc' = doc /\ applied' = applied /\ pc'[h] = "idle"
      BY <2>2 DEF Approvals!RequestSteps, Approvals!InsertSteps, Approvals!Unheld, Approvals!Return,
         Approvals!Goto, ApprovalInv, ApprovalTyped
    <3>2. doc.status = "in_progress" /\ doc.currentStep = 1 /\ answered = {} /\ applied = 0
      BY <3>1 DEF ApprovalDraftsBy, Approvals!Drafting
    <3>3. ~doc.sealed
      BY <3>2 DEF ApprovalDecided
    <3> QED
      BY <1>1, <3>1, <3>2, <3>3
  <2> QED
    BY <2>1, <2>2
<1>3. /\ \A r \in ApprovalRows : line'[r].status = "pending"
      /\ \A r \in ApprovalRows : line'[r].step \in Nat
  <2>0. \A r \in ApprovalRows : line[r].step \in Nat
    BY <1>1 DEF ApprovalSoundRows, Approvals!StepRows
  <2>1. CASE Approvals!RequestChange(h)
    <3>1. line' = line
      BY <2>1 DEF Approvals!RequestChange
    <3> QED
      BY <1>2, <2>0, <3>1
  <2>2. CASE Approvals!RequestSteps(h)
    <3>1. PICK added \in Approvals!Lines : line' = [r \in ApprovalRows |-> IF added[r] = Approvals!NoStep THEN line[r] ELSE added[r]]
      BY <2>2 DEF Approvals!RequestSteps, Approvals!InsertSteps
    <3>2. ASSUME NEW r \in ApprovalRows PROVE added[r].status = "pending" /\ added[r].step \in Nat
      <4>1. added[r] \in [step : 0 .. LastStep, status : {"pending"}, hashed : {FALSE}]
        BY DEF Approvals!Lines
      <4>2. added[r].status = "pending" /\ added[r].step \in 0 .. LastStep
        BY <4>1
      <4> QED
        BY <4>2, ApprovalGiven DEF Approvals!ApprovalsAssumption
    <3>3. ASSUME NEW r \in ApprovalRows PROVE line'[r] \in {line[r], added[r]}
      BY <3>1
    <3> QED
      BY <1>2, <2>0, <3>2, <3>3
  <2> QED
    BY <2>1, <2>2
<1>4. ApprovalInHand(h)'
  BY <1>2 DEF ApprovalInHand, ApprovalReading, ApprovalAnswering, ApprovalEnding
<1>5. ApprovalApprovedBelow(1)'
  BY <1>3 DEF ApprovalApprovedBelow
<1>6. ApprovalDecided'
  BY <1>2, <1>3, <1>5 DEF ApprovalDecided, ApprovalApprovedBelow
<1> QED
  BY <1>2, <1>4, <1>6 DEF Approvals!SealKept, Approvals!DecisionKept

\* What saving the document does then: it writes what was read.
LEMMA ApprovalSaveDecides ==
  ASSUME ApprovalInv, NEW h \in Handlers, ApprovalDecided, ApprovalInHand(h),
         pc[h] \in ApprovalReading,
         NEW entity \in Approvals!Documents, NEW next \in {"idle", "sealing"},
         Approvals!SaveDocument(h, entity, next), Approvals!Unheld
  PROVE  /\ doc' = entity /\ line' = line /\ applied' = applied /\ pc'[h] = next
         /\ local[h].doc = doc /\ local[h].line = line /\ ~doc.sealed /\ ~doc.deleted
<1>1. local[h].doc = doc /\ local[h].line = line /\ ~doc.sealed /\ ~doc.deleted
  BY DEF ApprovalInHand
<1>2. Approvals!Saves(h)
  BY <1>1 DEF Approvals!Saves
<1> QED
  BY <1>1, <1>2 DEF Approvals!SaveDocument, Approvals!Return, Approvals!Goto, Approvals!Unheld,
     ApprovalInv, ApprovalTyped

\* The document is submitted, canceled or rejected.
LEMMA ApprovalSavesDecide ==
  ASSUME ApprovalInv, NEW h \in Handlers, ApprovalDecided, ApprovalInHand(h), ApprovalDraftsBy(h),
         ApprovalHeldBy(h),
         Approvals!SubmitSave(h) \/ Approvals!CancelSave(h) \/ Approvals!RejectSave(h)
  PROVE  ApprovalInHand(h)' /\ ApprovalDecided' /\ Approvals!SealKept /\ Approvals!DecisionKept
<1> DEFINE d == local[h].doc
<1>1. /\ d \in Approvals!Documents /\ pc[h] \in ApprovalReading
      /\ line \in [ApprovalRows -> ApprovalSoundRows]
  BY DEF ApprovalInv, ApprovalTyped, ApprovalLocals, Approvals!SubmitSave, Approvals!CancelSave,
     Approvals!RejectSave, ApprovalReading, ApprovalAnswering
<1>2. PICK entity \in Approvals!Documents :
        /\ Approvals!SaveDocument(h, entity, "idle") /\ Approvals!Unheld
        /\ entity.sealed = d.sealed
        /\ \/ Approvals!SubmitSave(h) /\ entity.status = "in_progress" /\ entity.currentStep = 1
           \/ Approvals!CancelSave(h) /\ entity.status = "cancelled"
           \/ Approvals!RejectSave(h) /\ entity.status = "rejected"
  <2>1. CASE Approvals!SubmitSave(h)
    <3> DEFINE entity == [d EXCEPT !.status = "in_progress", !.currentStep = 1]
    <3>1. 1 \in 0 .. LastStep
      BY ApprovalGiven DEF Approvals!ApprovalsAssumption
    <3>2. entity \in Approvals!Documents /\ entity.status = "in_progress" /\ entity.currentStep = 1
          /\ entity.sealed = d.sealed
      BY <1>1, <3>1 DEF Approvals!Documents, Approvals!Statuses
    <3> QED
      BY <2>1, <3>2 DEF Approvals!SubmitSave
  <2>2. CASE Approvals!CancelSave(h)
    BY <1>1, <2>2 DEF Approvals!CancelSave, Approvals!Documents, Approvals!Statuses
  <2>3. CASE Approvals!RejectSave(h)
    BY <1>1, <2>3 DEF Approvals!RejectSave, Approvals!Documents, Approvals!Statuses
  <2> QED
    BY <2>1, <2>2, <2>3
<1>3. /\ doc' = entity /\ line' = line /\ applied' = applied /\ pc'[h] = "idle"
      /\ d = doc /\ ~doc.sealed
  BY <1>1, <1>2, ApprovalSaveDecides
<1>4. \/ Approvals!SubmitSave(h) /\ doc.status = "draft"
      \/ Approvals!CancelSave(h) /\ doc.status \notin {"none", "approved"}
      \/ Approvals!RejectSave(h) /\ doc.status = "in_progress"
  BY <1>2 DEF Approvals!SubmitSave, Approvals!CancelSave, Approvals!RejectSave, ApprovalInHand,
     ApprovalDraftsBy, Approvals!Drafting, ApprovalAnswering
<1>5. ApprovalInHand(h)'
  BY <1>3 DEF ApprovalInHand, ApprovalReading, ApprovalAnswering, ApprovalEnding
<1>6. applied' = 0
  BY <1>3, <1>4 DEF ApprovalDecided, ApprovalInv, ApprovalTyped
<1>7. ApprovalDecided'
  <2>1. CASE Approvals!SubmitSave(h)
    <3>1. entity.status = "in_progress" /\ entity.currentStep = 1 /\ doc.status = "draft"
      BY <1>2, <1>4, <2>1 DEF Approvals!SubmitSave, Approvals!CancelSave, Approvals!RejectSave
    <3>2. ApprovalApprovedBelow(entity.currentStep)'
      BY <1>1, <1>3, <3>1 DEF ApprovalApprovedBelow, ApprovalSoundRows, Approvals!StepRows
    <3>3. \A r \in ApprovalRows : line'[r].status = "pending"
      BY <1>3, <3>1 DEF ApprovalDecided
    <3> QED
      BY <1>2, <1>3, <1>6, <3>1, <3>2, <3>3 DEF ApprovalDecided, ApprovalApprovedBelow
  <2>2. CASE Approvals!CancelSave(h) \/ Approvals!RejectSave(h)
    BY <1>2, <1>3, <1>6, <2>2 DEF ApprovalDecided, Approvals!SubmitSave, Approvals!CancelSave,
       Approvals!RejectSave
  <2> QED
    BY <1>2, <2>1, <2>2
<1>8. Approvals!SealKept
  BY <1>3 DEF Approvals!SealKept
<1>9. Approvals!DecisionKept
  BY <1>2, <1>3, <1>4 DEF Approvals!DecisionKept, Approvals!Statuses, Approvals!Documents,
     Approvals!SubmitSave, Approvals!CancelSave, Approvals!RejectSave, ApprovalInv, ApprovalTyped
<1> QED
  BY <1>5, <1>7, <1>8, <1>9

\* The document goes to the next number, or is approved.
LEMMA ApprovalAdvanceDecides ==
  ASSUME ApprovalInv, NEW h \in Handlers, ApprovalDecided, ApprovalInHand(h), ApprovalHeldBy(h),
         Approvals!Advance(h)
  PROVE  ApprovalInHand(h)' /\ ApprovalDecided' /\ Approvals!SealKept /\ Approvals!DecisionKept
<1> DEFINE c == doc.currentStep
           r == local[h].row
<1>1. /\ pc[h] \in ApprovalReading /\ pc[h] \in ApprovalAnswering
      /\ doc \in Approvals!Documents /\ c \in Nat
      /\ line \in [ApprovalRows -> ApprovalSoundRows] /\ applied \in 0 .. 2
      /\ \A q \in ApprovalRows : line[q].step \in 0 .. LastStep
  BY DEF ApprovalInv, ApprovalTyped, Approvals!Documents, Approvals!Advance, ApprovalReading,
     ApprovalAnswering, ApprovalSoundRows, Approvals!StepRows
<1>2. /\ local[h].doc = doc /\ local[h].line = line /\ ~doc.sealed /\ ~doc.deleted
      /\ doc.status = "in_progress" /\ line[r].status = "approved" /\ line[r].step = c
      /\ r \in ApprovalRows
  BY <1>1 DEF ApprovalInHand, ApprovalHeldBy, Approvals!Advance, ApprovalInv, ApprovalTyped,
     Approvals!Present
<1>3. applied = 0
  BY <1>1, <1>2 DEF ApprovalDecided
<1>4. \A q \in ApprovalRows : line[q].step > c => q \in Approvals!Later(h)
  BY <1>2 DEF ApprovalDecided, Approvals!Later
<1>5. \A q \in ApprovalRows : 0 < line[q].step /\ line[q].step <= c
        => \E p \in ApprovalRows : line[p].step = line[q].step /\ line[p].status = "approved"
  BY <1>1, <1>2 DEF ApprovalDecided, ApprovalApprovedBelow
<1>6. ASSUME NEW n \in Approvals!NextSteps(h), Approvals!SaveDocument(h, [doc EXCEPT !.currentStep = n], "idle"), Approvals!Unheld
      PROVE  ApprovalInHand(h)' /\ ApprovalDecided' /\ Approvals!SealKept /\ Approvals!DecisionKept
  <2> DEFINE entity == [doc EXCEPT !.currentStep = n]
  <2>1. /\ n \in 0 .. LastStep /\ n > c
        /\ \A q \in Approvals!Later(h) : n <= line[q].step
    BY <1>1, <1>2 DEF Approvals!NextSteps, Approvals!Later
  <2>2. /\ entity \in Approvals!Documents /\ entity.status = "in_progress"
        /\ entity.currentStep = n /\ entity.sealed = doc.sealed
    BY <1>1, <1>2, <2>1 DEF Approvals!Documents
  <2>3. Approvals!SaveDocument(h, entity, "idle")
    BY <1>6
  <2> HIDE DEF entity
  <2>4. doc' = entity /\ line' = line /\ applied' = applied /\ pc'[h] = "idle"
    BY <1>1, <1>6, <2>2, <2>3, ApprovalSaveDecides
  <2>5. ApprovalInHand(h)'
    BY <2>4 DEF ApprovalInHand, ApprovalReading, ApprovalAnswering, ApprovalEnding
  <2>6. ASSUME NEW q \in ApprovalRows, 0 < line[q].step, line[q].step < n
        PROVE  line[q].step <= c
    BY <1>1, <1>4, <2>1, <2>6
  <2>7. ApprovalApprovedBelow(n)'
    BY <1>5, <2>4, <2>6 DEF ApprovalApprovedBelow
  <2>8. \A q \in ApprovalRows : n < line[q].step => line[q].status = "pending"
    BY <1>1, <1>2, <2>1 DEF ApprovalDecided
  <2>9. ApprovalDecided'
    BY <1>2, <1>3, <2>2, <2>4, <2>7, <2>8 DEF ApprovalDecided, ApprovalApprovedBelow
  <2> QED
    BY <1>2, <2>2, <2>4, <2>5, <2>9 DEF Approvals!SealKept, Approvals!DecisionKept
<1>7. ASSUME Approvals!NextSteps(h) = {}, Approvals!SaveDocument(h, [doc EXCEPT !.status = "approved"], "sealing"), Approvals!Unheld
      PROVE  ApprovalInHand(h)' /\ ApprovalDecided' /\ Approvals!SealKept /\ Approvals!DecisionKept
  <2> DEFINE entity == [doc EXCEPT !.status = "approved"]
             numbers == {line[q].step : q \in Approvals!Later(h)}
  <2>1. /\ entity \in Approvals!Documents /\ entity.status = "approved"
        /\ entity.sealed = doc.sealed /\ entity.deleted = doc.deleted
    BY <1>1 DEF Approvals!Documents, Approvals!Statuses
  <2>2. Approvals!SaveDocument(h, entity, "sealing")
    BY <1>7
  <2>3. Approvals!Later(h) = {}
    <3>1. numbers \subseteq Nat
      BY <1>1 DEF Approvals!Later
    <3>2. numbers # {} => \E n \in numbers : \A m \in numbers : n <= m
      BY <3>1, HasLeast
    <3>3. Approvals!NextSteps(h) = {n \in numbers : \A q \in Approvals!Later(h) : n <= line[q].step}
      BY <1>2 DEF Approvals!NextSteps
    <3>4. numbers = {}
      BY <1>7, <3>2, <3>3
    <3> QED
      BY <3>4
  <2> HIDE DEF entity
  <2>4. doc' = entity /\ line' = line /\ applied' = applied /\ pc'[h] = "sealing"
    BY <1>1, <1>7, <2>1, <2>2, ApprovalSaveDecides
  <2>5. ApprovalApprovedEach'
    BY <1>1, <1>4, <1>5, <2>3, <2>4 DEF ApprovalApprovedEach
  <2>6. ApprovalDecided'
    BY <1>2, <1>3, <2>1, <2>4, <2>5 DEF ApprovalDecided
  <2>7. ApprovalInHand(h)'
    BY <1>2, <1>3, <2>1, <2>4 DEF ApprovalInHand, ApprovalReading, ApprovalAnswering, ApprovalEnding
  <2> QED
    BY <1>2, <2>1, <2>4, <2>6, <2>7 DEF Approvals!SealKept, Approvals!DecisionKept
<1> QED
  BY <1>2, <1>6, <1>7 DEF Approvals!Advance

\* A step is answered.
LEMMA ApprovalAnswerDecides ==
  ASSUME ApprovalInv, NEW h \in Handlers, ApprovalDecided, ApprovalInHand(h), ApprovalHeldBy(h),
         Approvals!ApproveStep(h) \/ Approvals!RejectStep(h)
  PROVE  ApprovalInHand(h)' /\ ApprovalDecided' /\ Approvals!SealKept /\ Approvals!DecisionKept
<1> DEFINE c == doc.currentStep
           r == local[h].row
<1>1. /\ pc[h] \in ApprovalReading /\ pc[h] \in ApprovalAnswering
      /\ doc \in Approvals!Documents /\ c \in Nat
      /\ line \in [ApprovalRows -> ApprovalSoundRows] /\ applied \in 0 .. 2
      /\ local[h] \in ApprovalLocals
      /\ \A q \in ApprovalRows : line[q].step \in 0 .. LastStep
  BY DEF ApprovalInv, ApprovalTyped, Approvals!Documents, Approvals!ApproveStep,
     Approvals!RejectStep, ApprovalReading, ApprovalAnswering, ApprovalSoundRows,
     Approvals!StepRows
<1>2. /\ local[h].doc = doc /\ local[h].line = line /\ ~doc.sealed /\ ~doc.deleted
      /\ doc.status = "in_progress" /\ line[r].step = c /\ r \in ApprovalRows
  BY <1>1 DEF ApprovalInHand, ApprovalHeldBy, ApprovalInv, ApprovalTyped, Approvals!Present
<1>3. PICK status \in {"approved", "rejected"}, next \in {"advancing", "closing"} :
        Approvals!Answer(h, status, next) /\ (next = "advancing" => status = "approved")
  BY DEF Approvals!ApproveStep, Approvals!RejectStep
<1> DEFINE reply == [line[r] EXCEPT !.status = status]
<1>4. /\ line' = [line EXCEPT ![r] = reply] /\ doc' = doc /\ applied' = applied
      /\ local' = [local EXCEPT ![h] = [local[h] EXCEPT !.line[r] = reply]]
      /\ pc'[h] = next
  BY <1>2, <1>3 DEF Approvals!Answer, Approvals!Goto, Approvals!Hold, ApprovalInv, ApprovalTyped
<1>5. reply.status = status /\ reply.step = c
  BY <1>1, <1>2 DEF ApprovalSoundRows, Approvals!StepRows
<1>6. local'[h].doc = doc /\ local'[h].line = line' /\ local'[h].row = r
  BY <1>1, <1>2, <1>4 DEF ApprovalLocals, ApprovalInv, ApprovalTyped
<1> HIDE DEF reply
<1>7. /\ line'[r] = reply
      /\ \A q \in ApprovalRows :
           line'[q].step = line[q].step /\ (line[q].step # c => line'[q] = line[q])
  BY <1>1, <1>2, <1>4, <1>5
<1>8. ApprovalInHand(h)'
  BY <1>2, <1>3, <1>4, <1>5, <1>6, <1>7 DEF ApprovalInHand, ApprovalReading, ApprovalAnswering,
     ApprovalEnding
<1>9. /\ ApprovalApprovedBelow(c)'
      /\ \A q \in ApprovalRows : c < line'[q].step => line'[q].status = "pending"
  BY <1>1, <1>2, <1>4, <1>7 DEF ApprovalDecided, ApprovalApprovedBelow
<1>10. ApprovalDecided'
  BY <1>2, <1>4, <1>9 DEF ApprovalDecided, ApprovalApprovedBelow
<1> QED
  BY <1>2, <1>4, <1>8, <1>10 DEF Approvals!SealKept, Approvals!DecisionKept

\* The document is deleted, sealed or applied.
LEMMA ApprovalEndDecides ==
  ASSUME ApprovalInv, NEW h \in Handlers, ApprovalDecided, ApprovalInHand(h),
         \/ Approvals!SoftDelete(h) \/ Approvals!SealSteps(h) \/ Approvals!SealDocument(h)
         \/ Approvals!Apply(h)
  PROVE  ApprovalInHand(h)' /\ ApprovalDecided' /\ Approvals!SealKept /\ Approvals!DecisionKept
<1>1. /\ doc \in Approvals!Documents /\ line \in [ApprovalRows -> ApprovalSoundRows]
      /\ applied \in 0 .. 2
  BY DEF ApprovalInv, ApprovalTyped
<1>2. CASE Approvals!SoftDelete(h)
  <2>1. /\ ~doc.sealed /\ doc' = [doc EXCEPT !.deleted = TRUE] /\ line' = line /\ applied' = applied
        /\ pc'[h] = "idle"
    BY <1>2 DEF Approvals!SoftDelete, ApprovalInHand, Approvals!Return, Approvals!Goto,
       Approvals!Unheld, ApprovalInv, ApprovalTyped
  <2>2. doc'.status = doc.status /\ doc'.sealed = doc.sealed /\ doc'.currentStep = doc.currentStep
    BY <1>1, <2>1 DEF Approvals!Documents
  <2> QED
    BY <2>1, <2>2 DEF ApprovalInHand, ApprovalReading, ApprovalAnswering, ApprovalEnding,
       ApprovalDecided, ApprovalApprovedBelow, ApprovalApprovedEach, Approvals!SealKept,
       Approvals!DecisionKept
<1>3. CASE Approvals!SealSteps(h)
  <2>1. /\ line' = [r \in ApprovalRows |-> IF r \in Approvals!Present(line) THEN [line[r] EXCEPT !.hashed = TRUE] ELSE line[r]]
        /\ doc' = doc /\ applied' = applied /\ pc'[h] = "stamping"
        /\ doc.status = "approved" /\ applied = 0 /\ ~doc.sealed /\ ~doc.deleted
    BY <1>3 DEF Approvals!SealSteps, ApprovalInHand, Approvals!Goto, Approvals!Unheld, ApprovalInv,
       ApprovalTyped, ApprovalEnding
  <2>2. \A r \in ApprovalRows : /\ line'[r].step = line[r].step /\ line'[r].status = line[r].status
                                /\ r \in Approvals!Present(line') => line'[r].hashed
    BY <1>1, <2>1 DEF ApprovalSoundRows, Approvals!StepRows, Approvals!Present
  <2>3. ApprovalDecided'
    BY <2>1, <2>2 DEF ApprovalDecided, ApprovalApprovedEach
  <2>4. ApprovalInHand(h)'
    BY <2>1, <2>2 DEF ApprovalInHand, ApprovalReading, ApprovalAnswering, ApprovalEnding,
       Approvals!Present
  <2> QED
    BY <2>1, <2>3, <2>4 DEF Approvals!SealKept, Approvals!DecisionKept
<1>4. CASE Approvals!SealDocument(h)
  <2>1. /\ doc' = [doc EXCEPT !.sealed = TRUE] /\ line' = line /\ applied' = applied
        /\ pc'[h] = "applying"
        /\ doc.status = "approved" /\ applied = 0 /\ ~doc.sealed /\ ~doc.deleted
        /\ \A r \in Approvals!Present(line) : line[r].hashed
    BY <1>4 DEF Approvals!SealDocument, ApprovalInHand, Approvals!Goto, Approvals!Unheld,
       ApprovalInv, ApprovalTyped, ApprovalEnding
  <2>2. doc'.status = doc.status /\ doc'.deleted = doc.deleted
    BY <1>1, <2>1 DEF Approvals!Documents
  <2>3. ApprovalDecided'
    BY <2>1, <2>2 DEF ApprovalDecided, ApprovalApprovedEach, Approvals!Present
  <2>4. ApprovalInHand(h)'
    BY <2>1, <2>2 DEF ApprovalInHand, ApprovalReading, ApprovalAnswering, ApprovalEnding
  <2> QED
    BY <2>1, <2>2, <2>3, <2>4 DEF Approvals!SealKept, Approvals!DecisionKept
<1>5. CASE Approvals!Apply(h)
  <2>1. /\ doc' = doc /\ line' = line /\ applied' = 1 /\ pc'[h] = "idle" /\ doc.status = "approved"
    BY <1>5 DEF Approvals!Apply, ApprovalInHand, Approvals!Return, Approvals!Goto, ApprovalInv,
       ApprovalTyped, ApprovalEnding
  <2>2. ApprovalDecided'
    BY <2>1 DEF ApprovalDecided, ApprovalApprovedEach, Approvals!Present
  <2>3. ApprovalInHand(h)'
    BY <2>1 DEF ApprovalInHand, ApprovalReading, ApprovalAnswering, ApprovalEnding
  <2>4. Approvals!SealKept
    BY <2>1 DEF Approvals!SealKept, ApprovalDecided
  <2> QED
    BY <2>1, <2>2, <2>3, <2>4 DEF Approvals!DecisionKept
<1> QED
  BY <1>2, <1>3, <1>4, <1>5

\* Any step of the only handler.
LEMMA ApprovalOneDecides ==
  ASSUME ApprovalInv, NEW h \in Handlers, ApprovalDecided, ApprovalInHand(h), ApprovalDraftsBy(h),
         ApprovalHeldBy(h), Approvals!HandlerStep(h) \/ Approvals!Crash(h)
  PROVE  ApprovalInHand(h)' /\ ApprovalDecided' /\ Approvals!SealKept /\ Approvals!DecisionKept
<1>1. applied > 0 => doc.status = "approved"
  BY DEF ApprovalDecided
<1> QED
  BY <1>1, ApprovalLooksDecide, ApprovalDraftsDecide, ApprovalRequestDecides, ApprovalSavesDecide,
     ApprovalAdvanceDecides,
     ApprovalAnswerDecides, ApprovalEndDecides DEF Approvals!HandlerStep

\* The others stay where they are.
LEMMA ApprovalOnlyHandlerStep ==
  ASSUME ApprovalInv, NEW h \in Handlers, Approvals!HandlerStep(h) \/ Approvals!Crash(h)
  PROVE  \A g \in Handlers \ {h} : pc'[g] = pc[g]
BY DEF ApprovalInv, ApprovalTyped, Approvals!HandlerStep, Approvals!Crash, Approvals!Create,
   Approvals!CreateSteps, Approvals!RequestChange, Approvals!RequestSteps, Approvals!Update,
   Approvals!UpdateSave, Approvals!UpdateDelete, Approvals!UpdateInsert, Approvals!Submit, Approvals!SubmitSave,
   Approvals!Cancel, Approvals!CancelSave, Approvals!Remove, Approvals!SoftDelete,
   Approvals!Approve, Approvals!ApproveStep, Approvals!Advance, Approvals!SealRead,
   Approvals!SealSteps, Approvals!SealDocument, Approvals!SealFails,
   Approvals!Apply, Approvals!Reject, Approvals!RejectStep, Approvals!RejectSave, Approvals!Find,
   Approvals!Found, Approvals!FindStep, Approvals!SaveDocument, Approvals!InsertSteps,
   Approvals!Answer, Approvals!Return, Approvals!Goto

\* A step of any handler keeps it.
LEMMA ApprovalSoloKeeps ==
  ASSUME ApprovalInv, ApprovalSoloInv, Approvals!Next
  PROVE  ApprovalSoloInv' /\ Approvals!SealKept /\ Approvals!DecisionKept
<1>1. PICK h \in Handlers : /\ (Approvals!HandlerStep(h) \/ Approvals!Crash(h))
                            /\ Approvals!Overlap(h) /\ ApprovalNoted(h)
  BY DEF Approvals!Next, ApprovalNoted
<1>2. \A g \in Handlers \ {h} : pc'[g] = pc[g]
  BY <1>1, ApprovalOnlyHandlerStep
<1>0. SUFFICES ASSUME ~overlapped'
             PROVE  /\ ApprovalOneHandler' /\ ApprovalDecided'
                    /\ (\A g \in Handlers : ApprovalInHand(g)')
                    /\ Approvals!SealKept /\ Approvals!DecisionKept
  BY DEF ApprovalSoloInv, ApprovalOneHandler, Approvals!SealKept, Approvals!DecisionKept
<1>3. ~overlapped /\ \A g \in Handlers \ {h} : pc[g] = "idle"
  BY <1>0, <1>1 DEF Approvals!Overlap, Approvals!InFlight
<1>4. ~draftRaced /\ ~draftRaced'
  BY <1>1, <1>3 DEF ApprovalSoloInv, ApprovalOneHandler, ApprovalNoted, Approvals!InFlight
<1>5. ApprovalOneHandler'
  BY <1>2, <1>3, <1>4 DEF ApprovalOneHandler, Approvals!InFlight
<1>6. ApprovalDecided /\ ApprovalInHand(h) /\ ApprovalDraftsBy(h) /\ ApprovalHeldBy(h)
  BY <1>3, <1>4 DEF ApprovalSoloInv, ApprovalInv, ApprovalRace
<1>7. ApprovalInHand(h)' /\ ApprovalDecided' /\ Approvals!SealKept /\ Approvals!DecisionKept
  BY <1>1, <1>6, ApprovalOneDecides
<1>8. \A g \in Handlers \ {h} : ApprovalInHand(g)'
  BY <1>2, <1>3 DEF ApprovalInHand, ApprovalReading, ApprovalAnswering, ApprovalEnding
<1> QED
  BY <1>5, <1>7, <1>8

\* Every step keeps the invariant, and does what is said of every step.
LEMMA ApprovalStepHolds ==
  ApprovalInv /\ ApprovalSoloInv /\ [Approvals!Next]_(Approvals!vars) =>
    ApprovalInv' /\ ApprovalSoloInv' /\ Approvals!SealKept /\ Approvals!DecisionKept
<1> SUFFICES ASSUME ApprovalInv, ApprovalSoloInv, [Approvals!Next]_(Approvals!vars)
             PROVE  ApprovalInv' /\ ApprovalSoloInv' /\ Approvals!SealKept /\ Approvals!DecisionKept
  OBVIOUS
<1>1. CASE UNCHANGED Approvals!vars
  <2>1. ApprovalSoloInv'
    BY <1>1 DEF Approvals!vars, ApprovalSoloInv, ApprovalOneHandler, Approvals!InFlight,
       ApprovalDecided, ApprovalInHand, ApprovalApprovedBelow, ApprovalApprovedEach,
       Approvals!Present
  <2>2. Approvals!SealKept /\ Approvals!DecisionKept
    BY <1>1 DEF Approvals!vars, ApprovalSoloInv, Approvals!SealKept, Approvals!DecisionKept,
       ApprovalDecided
  <2> QED
    BY <2>1, <2>2, ApprovalNextKeeps
<1>2. CASE Approvals!Next
  BY <1>2, ApprovalNextKeeps, ApprovalSoloKeeps
<1> QED
  BY <1>1, <1>2

\* The initial states have it.
LEMMA ApprovalInitAlone == Approvals!Init => ApprovalSoloInv
<1> SUFFICES ASSUME Approvals!Init PROVE ApprovalSoloInv
  OBVIOUS
<1>1. \A h \in Handlers : pc[h] = "idle"
  BY DEF Approvals!Init, Approvals!AllIdle
<1>2. /\ doc.status = "none" /\ ~doc.sealed /\ applied = 0
      /\ \A r \in ApprovalRows : line[r].status = "pending"
  BY DEF Approvals!Init, Approvals!NoDocument, Approvals!NoLine, Approvals!NoStep
<1> QED
  BY <1>1, <1>2 DEF Approvals!Init, Approvals!AllIdle, ApprovalSoloInv, ApprovalOneHandler,
     Approvals!InFlight, ApprovalDecided, ApprovalInHand, ApprovalReading, ApprovalAnswering,
     ApprovalEnding

\* The invariant is enough.
LEMMA ApprovalPromised == ApprovalInv /\ ApprovalSoloInv =>
                            /\ Approvals!TypeOK /\ Approvals!NobodySkipped
                            /\ Approvals!ApprovedByAll /\ Approvals!AppliedOnce
<1> SUFFICES ASSUME ApprovalInv, ApprovalSoloInv
             PROVE  /\ Approvals!TypeOK /\ Approvals!NobodySkipped
                    /\ Approvals!ApprovedByAll /\ Approvals!AppliedOnce
  OBVIOUS
<1>1. Approvals!TypeOK
  <2>1. /\ line \in [ApprovalRows -> Approvals!StepRows]
        /\ local \in [Handlers -> [doc : Approvals!Documents, line : [ApprovalRows -> Approvals!StepRows], row : ApprovalRows \cup {None}]]
    <3>1. \A f \in [ApprovalRows -> ApprovalSoundRows] : f \in [ApprovalRows -> Approvals!StepRows]
      BY DEF ApprovalSoundRows
    <3>2. \A held \in ApprovalLocals :
            held \in [doc : Approvals!Documents, line : [ApprovalRows -> Approvals!StepRows], row : ApprovalRows \cup {None}]
      BY <3>1 DEF ApprovalLocals
    <3> QED
      BY <3>1, <3>2 DEF ApprovalInv, ApprovalTyped
  <2> QED
    BY <2>1 DEF Approvals!TypeOK, ApprovalInv, ApprovalTyped
<1>2. ASSUME ~overlapped, doc.status = "approved"
      PROVE  \A n \in {line[r].step : r \in Approvals!Present(line)} :
               \E r \in ApprovalRows : line[r].step = n /\ line[r].status = "approved"
  <2>1. ApprovalApprovedEach
    BY <1>2 DEF ApprovalSoloInv, ApprovalDecided
  <2>2. \A r \in Approvals!Present(line) : r \in ApprovalRows /\ line[r].step > 0
    BY DEF Approvals!Present, ApprovalInv, ApprovalTyped, ApprovalSoundRows, Approvals!StepRows
  <2> QED
    BY <2>1, <2>2 DEF ApprovalApprovedEach
<1>3. Approvals!AppliedOnce
  BY DEF ApprovalSoloInv, ApprovalDecided, Approvals!AppliedOnce
<1> QED
  BY <1>1, <1>2, <1>3, ApprovalImplied DEF Approvals!ApprovedByAll

-----------------------------------------------------------------------------
(***************************************************************************)
(* document seals. A hash tells the text it was made of, so that going     *)
(* back along the chain from the seal, every row of the table is in its    *)
(* place; and the text tells the columns where no '|' and no null is lost. *)
(***************************************************************************)
\* Sizes are those of FiniteSets.
LEMMA SealCounts ==
  ASSUME NEW S
  PROVE  /\ DocumentSeals!Cardinality(S) = Cardinality(S)
         /\ (DocumentSeals!IsFiniteSet(S) <=> IsFiniteSet(S))
  BY DEF DocumentSeals!Cardinality, Cardinality, DocumentSeals!IsFiniteSet, IsFiniteSet

\* What is assumed of the constants.
LEMMA SealGiven ==
  LastSeal \in Nat \ {0} /\ IsFiniteSet(SealRows) /\ MaxText \in Nat /\ Bar \in Letters
  BY RecordsAssumption, SealCounts DEF DocumentSeals!SealAssumption

\* A title without '|' ends where the first '|' is.
LEMMA SealTitleEnds ==
  ASSUME NEW t \in Seq(Letters), NEW u \in Seq(Letters), NEW x \in Seq(Letters), NEW y \in Seq(Letters),
         t \o <<Bar>> \o x = u \o <<Bar>> \o y,
         \A i \in 1 .. Len(t) : t[i] # Bar, \A i \in 1 .. Len(u) : u[i] # Bar
  PROVE  t = u /\ x = y
<1> DEFINE p == t \o <<Bar>> \o x
           q == u \o <<Bar>> \o y
<1>1. /\ Len(p) = Len(t) + 1 + Len(x) /\ Len(q) = Len(u) + 1 + Len(y)
      /\ p[Len(t) + 1] = Bar /\ q[Len(u) + 1] = Bar
      /\ \A i \in 1 .. Len(t) : p[i] = t[i]
      /\ \A i \in 1 .. Len(u) : q[i] = u[i]
      /\ \A i \in 1 .. Len(x) : p[Len(t) + 1 + i] = x[i]
      /\ \A i \in 1 .. Len(y) : q[Len(u) + 1 + i] = y[i]
  <2>1. <<Bar>> \in Seq(Letters) /\ Len(<<Bar>>) = 1 /\ <<Bar>>[1] = Bar
    BY SealGiven
  <2>2. /\ t \o <<Bar>> \in Seq(Letters) /\ Len(t \o <<Bar>>) = Len(t) + 1
        /\ \A i \in 1 .. Len(t) : (t \o <<Bar>>)[i] = t[i]
        /\ (t \o <<Bar>>)[Len(t) + 1] = Bar
    BY <2>1, ConcatProperties
  <2>3. /\ u \o <<Bar>> \in Seq(Letters) /\ Len(u \o <<Bar>>) = Len(u) + 1
        /\ \A i \in 1 .. Len(u) : (u \o <<Bar>>)[i] = u[i]
        /\ (u \o <<Bar>>)[Len(u) + 1] = Bar
    BY <2>1, ConcatProperties
  <2>4. /\ Len(p) = Len(t) + 1 + Len(x)
        /\ \A i \in 1 .. Len(t) + 1 + Len(x) :
              p[i] = IF i <= Len(t) + 1 THEN (t \o <<Bar>>)[i] ELSE x[i - (Len(t) + 1)]
    BY <2>2, ConcatProperties
  <2>5. /\ Len(q) = Len(u) + 1 + Len(y)
        /\ \A i \in 1 .. Len(u) + 1 + Len(y) :
              q[i] = IF i <= Len(u) + 1 THEN (u \o <<Bar>>)[i] ELSE y[i - (Len(u) + 1)]
    BY <2>3, ConcatProperties
  <2>6. Len(t) \in Nat /\ Len(u) \in Nat /\ Len(x) \in Nat /\ Len(y) \in Nat
    OBVIOUS
  <2> DEFINE a == t \o <<Bar>>
             b == u \o <<Bar>>
  <2> HIDE DEF p, q, a, b
  <2>7. p[Len(t) + 1] = Bar
    <3>1. Len(t) + 1 \in 1 .. Len(t) + 1 + Len(x)
      BY <2>6
    <3> QED
      BY <2>2, <2>4, <2>6, <3>1 DEF a
  <2>8. q[Len(u) + 1] = Bar
    <3>1. Len(u) + 1 \in 1 .. Len(u) + 1 + Len(y)
      BY <2>6
    <3> QED
      BY <2>3, <2>5, <2>6, <3>1 DEF b
  <2>9. \A i \in 1 .. Len(t) : p[i] = t[i]
    BY <2>2, <2>4, <2>6
  <2>10. \A i \in 1 .. Len(u) : q[i] = u[i]
    BY <2>3, <2>5, <2>6
  <2>11. ASSUME NEW i \in 1 .. Len(x) PROVE p[Len(t) + 1 + i] = x[i]
    <3>1. /\ Len(t) + 1 + i \in 1 .. Len(t) + 1 + Len(x) /\ ~(Len(t) + 1 + i <= Len(t) + 1)
          /\ Len(t) + 1 + i - (Len(t) + 1) = i
      BY <2>6
    <3> QED
      BY <2>4, <3>1
  <2>12. ASSUME NEW i \in 1 .. Len(y) PROVE q[Len(u) + 1 + i] = y[i]
    <3>1. /\ Len(u) + 1 + i \in 1 .. Len(u) + 1 + Len(y) /\ ~(Len(u) + 1 + i <= Len(u) + 1)
          /\ Len(u) + 1 + i - (Len(u) + 1) = i
      BY <2>6
    <3> QED
      BY <2>5, <3>1
  <2> QED
    BY <2>4, <2>5, <2>7, <2>8, <2>9, <2>10, <2>11, <2>12
<1>2. /\ Len(t) \in Nat /\ Len(u) \in Nat /\ Len(x) \in Nat /\ Len(y) \in Nat /\ p = q
  <2>1. p = q
    OBVIOUS
  <2> HIDE DEF p, q
  <2> QED
    BY <2>1
<1> HIDE DEF p, q
<1>3. Len(t) = Len(u)
  <2>1. ~(Len(t) < Len(u))
    <3> SUFFICES ASSUME Len(t) < Len(u) PROVE FALSE
      OBVIOUS
    <3>1. Len(t) + 1 \in 1 .. Len(u)
      BY <1>2
    <3> QED
      BY <1>1, <1>2, <3>1
  <2>2. ~(Len(u) < Len(t))
    <3> SUFFICES ASSUME Len(u) < Len(t) PROVE FALSE
      OBVIOUS
    <3>1. Len(u) + 1 \in 1 .. Len(t)
      BY <1>2
    <3> QED
      BY <1>1, <1>2, <3>1
  <2> QED
    BY <1>2, <2>1, <2>2
<1>4. Len(x) = Len(y)
  BY <1>1, <1>2, <1>3
<1>5. \A i \in 1 .. Len(t) : t[i] = u[i]
  BY <1>1, <1>2, <1>3
<1>6. \A i \in 1 .. Len(x) : x[i] = y[i]
  BY <1>1, <1>2, <1>3, <1>4
<1> QED
  BY <1>3, <1>4, <1>5, <1>6, SeqEqual

\* Without '|' in the title, the text that is hashed tells the columns.
LEMMA SealClear ==
  ASSUME NEW c \in DocumentSeals!Contents, NEW d \in DocumentSeals!Contents,
         DocumentSeals!Joined(c) = DocumentSeals!Joined(d),
         \A i \in 1 .. Len(c.title) : c.title[i] # Bar, \A i \in 1 .. Len(d.title) : d.title[i] # Bar
  PROVE  c = d
<1>1. /\ c.title \in DocumentSeals!Texts /\ d.title \in DocumentSeals!Texts
      /\ c.text \in DocumentSeals!Texts /\ d.text \in DocumentSeals!Texts
      /\ c = [title |-> c.title, text |-> c.text, author |-> c.author]
      /\ d = [title |-> d.title, text |-> d.text, author |-> d.author]
  BY DEF DocumentSeals!Contents
<1>2. \A t \in DocumentSeals!Texts : t \in Seq(Letters)
  <2> SUFFICES ASSUME NEW n \in 0 .. MaxText, NEW t \in [1 .. n -> Letters] PROVE t \in Seq(Letters)
    BY DEF DocumentSeals!Texts
  <2>1. n \in Nat
    BY SealGiven
  <2> QED
    BY <2>1
<1>3. Bar \in Letters
  BY SealGiven
<1>4. /\ c.title \o <<Bar>> \o c.text = d.title \o <<Bar>> \o d.text
      /\ c.author = d.author
  BY DEF DocumentSeals!Joined
<1>5. c.title = d.title /\ c.text = d.text
  <2> DEFINE t == c.title
             u == d.title
             x == c.text
             y == d.text
  <2>1. /\ t \in Seq(Letters) /\ u \in Seq(Letters) /\ x \in Seq(Letters) /\ y \in Seq(Letters)
        /\ t \o <<Bar>> \o x = u \o <<Bar>> \o y
        /\ (\A i \in 1 .. Len(t) : t[i] # Bar) /\ (\A i \in 1 .. Len(u) : u[i] # Bar)
    BY <1>1, <1>2, <1>4
  <2> HIDE DEF t, u, x, y
  <2>2. t = u /\ x = y
    BY <2>1, SealTitleEnds
  <2> QED
    BY <2>2 DEF t, u, x, y
<1> QED
  BY <1>1, <1>4, <1>5

\* The chain that Chain chooses exists.
LEMMA SealChainIs ==
  ASSUME NEW order, Len(order) \in Nat, NEW first
  PROVE  /\ DocumentSeals!Chain(order, first)[0] = first
         /\ \A i \in 1 .. Len(order) :
              DocumentSeals!Chain(order, first)[i] = DocumentSeals!StepHash(order[i], DocumentSeals!Chain(order, first)[i - 1])
<1> DEFINE IsHash(f, n) == f = [i \in 0 .. n |-> IF i = 0 THEN first ELSE DocumentSeals!StepHash(order[i], f[i - 1])]
           bad == {n \in Nat : ~\E f : IsHash(f, n)}
<1>1. bad = {}
  <2> SUFFICES ASSUME bad # {} PROVE FALSE
    OBVIOUS
  <2>1. bad \subseteq Nat
    OBVIOUS
  <2> HIDE DEF bad
  <2>2. PICK n \in bad : \A m \in bad : n <= m
    BY <2>1, HasLeast
  <2> USE DEF bad
  <2>3. n # 0
    <3> DEFINE f == [i \in 0 .. 0 |-> first]
    <3>1. IsHash(f, 0)
      OBVIOUS
    <3> HIDE DEF f, IsHash
    <3> QED
      BY <2>2, <3>1
  <2>4. PICK f : IsHash(f, n - 1)
    <3>1. n \in Nat /\ n - 1 \in Nat /\ ~(n <= n - 1)
      BY <2>2, <2>3
    <3>2. n - 1 \notin bad
      BY <2>2, <3>1
    <3> HIDE DEF IsHash
    <3> QED
      BY <3>1, <3>2
  <2> DEFINE g == [i \in 0 .. n |-> IF i = n THEN DocumentSeals!StepHash(order[n], f[n - 1]) ELSE f[i]]
  <2>5. \A i \in 0 .. n : g[i] = IF i = 0 THEN first ELSE DocumentSeals!StepHash(order[i], g[i - 1])
    <3> SUFFICES ASSUME NEW i \in 0 .. n
                 PROVE  g[i] = IF i = 0 THEN first ELSE DocumentSeals!StepHash(order[i], g[i - 1])
      OBVIOUS
    <3>1. n \in Nat /\ n >= 1
      BY <2>2, <2>3
    <3>2. CASE i = n
      <4>1. g[n - 1] = f[n - 1]
        BY <3>1
      <4> QED
        BY <3>1, <3>2, <4>1
    <3>3. CASE i # n
      <4>1. i \in 0 .. n - 1 /\ g[i] = f[i]
        BY <3>1, <3>3
      <4>2. f[i] = IF i = 0 THEN first ELSE DocumentSeals!StepHash(order[i], f[i - 1])
        BY <2>4, <4>1
      <4>3. i # 0 => g[i - 1] = f[i - 1]
        BY <3>1, <3>3
      <4> QED
        BY <4>1, <4>2, <4>3
    <3> QED
      BY <3>2, <3>3
  <2>6. g = [i \in 0 .. n |-> g[i]]
    OBVIOUS
  <2> HIDE DEF g
  <2>7. IsHash(g, n)
    BY <2>5, <2>6
  <2> QED
    BY <2>2, <2>7
<1> DEFINE hash == CHOOSE f : IsHash(f, Len(order))
<1>2. IsHash(hash, Len(order))
  <2>1. \E f : IsHash(f, Len(order))
    BY <1>1
  <2> HIDE DEF IsHash
  <2> QED
    BY <2>1
<1>3. DocumentSeals!Chain(order, first) = [i \in 0 .. Len(order) |-> hash[i]]
  BY DEF DocumentSeals!Chain
<1> HIDE DEF hash
<1>4. \A i \in 0 .. Len(order) :
        hash[i] = IF i = 0 THEN first ELSE DocumentSeals!StepHash(order[i], hash[i - 1])
  BY <1>2
<1> QED
  BY <1>3, <1>4

\* What a row of approval_steps says.
SealSteps == [number : 1 .. LastSeal, answer : Answers]

\* The hash of a row over the one before.
SealHash(s, r, prev) == <<"step", r, s[r].number, DocumentSeals!Spoken(s[r].answer), prev>>

\* The hash of a step tells its columns and what is before it.
LEMMA SealHashed ==
  /\ \A s, t, q, r, x, y : SealHash(s, q, x) = SealHash(t, r, y) =>
       /\ q = r /\ s[q].number = t[r].number /\ x = y
       /\ DocumentSeals!Spoken(s[q].answer) = DocumentSeals!Spoken(t[r].answer)
  /\ \A s, r, x, c : SealHash(s, r, x) # <<"content", c>>
  /\ \A c, d : <<"content", c>> = <<"content", d>> => c = d
  /\ \A x, y, p, q : <<"seal", x, p>> = <<"seal", y, q>> => x = y /\ p = q
  BY DEF SealHash

\* The rows, in an order of their numbers.
SealOrdered(s, order) ==
  /\ order \in DocumentSeals!SetToSeqs(DOMAIN s)
  /\ \A i, j \in 1 .. Len(order) : i < j => s[order[i]].number <= s[order[j]].number

\* Some rows with their columns.
SealTable(s) == DOMAIN s \subseteq SealRows /\ s \in [DOMAIN s -> SealSteps]

\* The seal is that of this content and these steps, in this order.
SealSealedAs(c, s, order) ==
  /\ SealTable(s) /\ DOMAIN s # {} /\ SealOrdered(s, order)
  /\ seal.content = <<"content", DocumentSeals!Joined(c)>>
  /\ \A i \in 1 .. Len(order) :
       seal.step[order[i]] = SealHash(s, order[i], IF i = 1 THEN seal.content ELSE seal.step[order[i - 1]])
  /\ seal.seal = <<"seal", seal.content, seal.step[order[Len(order)]]>>
  /\ DOMAIN steps \subseteq DOMAIN s

\* What holds however handlers interleave.
SealInv ==
  /\ SealTable(steps) /\ content \in DocumentSeals!Contents
  /\ ~DocumentSeals!Sealed => DOMAIN steps # {}
  /\ DocumentSeals!Sealed => \E c \in DocumentSeals!Contents : \E s, order :
                               asSealed = <<c, s>> /\ SealSealedAs(c, s, order)

\* What the hashes see of two documents is the same where their texts, the numbers of
\* their steps and the answers as they are joined are.
LEMMA SealSame ==
  ASSUME NEW c, NEW d, NEW s, NEW t
  PROVE  DocumentSeals!Seen(c, s) = DocumentSeals!Seen(d, t) <=>
           /\ DocumentSeals!Joined(c) = DocumentSeals!Joined(d) /\ DOMAIN s = DOMAIN t
           /\ \A r \in DOMAIN s :
                /\ s[r].number = t[r].number
                /\ DocumentSeals!Spoken(s[r].answer) = DocumentSeals!Spoken(t[r].answer)
<1> DEFINE of(z, r) == [number |-> z[r].number, answer |-> DocumentSeals!Spoken(z[r].answer)]
           table(z) == [r \in DOMAIN z |-> of(z, r)]
<1>1. /\ DocumentSeals!Seen(c, s) = <<DocumentSeals!Joined(c), table(s)>>
      /\ DocumentSeals!Seen(d, t) = <<DocumentSeals!Joined(d), table(t)>>
  BY DEF DocumentSeals!Seen
<1>2. \A r : of(s, r) = of(t, r) <=>
               /\ s[r].number = t[r].number
               /\ DocumentSeals!Spoken(s[r].answer) = DocumentSeals!Spoken(t[r].answer)
  OBVIOUS
<1> HIDE DEF of
<1>3. table(s) = table(t) <=> DOMAIN s = DOMAIN t /\ \A r \in DOMAIN s : of(s, r) = of(t, r)
  <2>1. ASSUME table(s) = table(t)
        PROVE  DOMAIN s = DOMAIN t /\ \A r \in DOMAIN s : of(s, r) = of(t, r)
    <3>1. DOMAIN table(s) = DOMAIN s /\ DOMAIN table(t) = DOMAIN t
      OBVIOUS
    <3>2. DOMAIN s = DOMAIN t
      BY <2>1, <3>1
    <3>3. \A r \in DOMAIN s : table(s)[r] = of(s, r) /\ table(t)[r] = of(t, r)
      BY <3>2
    <3> QED
      BY <2>1, <3>2, <3>3
  <2>2. ASSUME DOMAIN s = DOMAIN t, \A r \in DOMAIN s : of(s, r) = of(t, r)
        PROVE  table(s) = table(t)
    BY <2>2
  <2> QED
    BY <2>1, <2>2
<1> HIDE DEF table
<1> QED
  BY <1>1, <1>2, <1>3

\* An order lists every row once.
LEMMA SealEnumerates ==
  ASSUME NEW S \in SUBSET SealRows, NEW order \in DocumentSeals!SetToSeqs(S)
  PROVE  /\ Len(order) = Cardinality(S) /\ Len(order) \in Nat /\ order \in [1 .. Len(order) -> S]
         /\ DOMAIN order = 1 .. Len(order)
         /\ \A i, j \in 1 .. Len(order) : order[i] = order[j] => i = j
         /\ \A r \in S : \E i \in 1 .. Len(order) : order[i] = r
<1> DEFINE n == Cardinality(S)
<1>1. IsFiniteSet(S) /\ n \in Nat
  BY SealGiven, FS_Subset, FS_CardinalityType
<1>2. order \in [1 .. n -> S] /\ \A i, j \in 1 .. n : i # j => order[i] # order[j]
  BY SealCounts DEF DocumentSeals!SetToSeqs
<1>3. order \in Surjection(1 .. n, S)
  <2>1. order \in Injection(1 .. n, S)
    BY <1>2 DEF Injection, IsInjective
  <2>2. Cardinality(1 .. n) = n
    BY <1>1, FS_Interval
  <2> QED
    BY <1>1, <2>1, <2>2, FS_Injection
<1> HIDE DEF n
<1>4. Len(order) = n
  BY <1>1, <1>2
<1> QED
  BY <1>1, <1>2, <1>3, <1>4 DEF Surjection, n

\* A bounded set of numbers has a greatest.
LEMMA SealHasGreatest ==
  ASSUME NEW n \in Nat, NEW S, S \subseteq 1 .. n, S # {}
  PROVE  \E k \in S : \A j \in S : j <= k
<1> DEFINE T == {n - j : j \in S}
<1>0. \A j \in S : n - j \in Nat
  OBVIOUS
<1>1. T \subseteq Nat /\ T # {}
  BY <1>0
<1> HIDE DEF T
<1>2. PICK t \in T : \A u \in T : t <= u
  BY <1>1, HasLeast
<1> USE DEF T
<1>3. PICK k \in S : t = n - k
  BY <1>2
<1>4. \A j \in S : n - k <= n - j
  BY <1>2, <1>3
<1> QED
  BY <1>4

\* Steps of different numbers stand in one order.
LEMMA SealOneOrder ==
  ASSUME NEW s, SealTable(s), NEW p, NEW q, SealOrdered(s, p), SealOrdered(s, q),
         \A r, t \in DOMAIN s : s[r].number = s[t].number => r = t
  PROVE  p = q
<1> DEFINE n == Cardinality(DOMAIN s)
           bad == {i \in 1 .. n : p[i] # q[i]}
<1>1. /\ DOMAIN s \in SUBSET SealRows /\ p \in DocumentSeals!SetToSeqs(DOMAIN s)
      /\ q \in DocumentSeals!SetToSeqs(DOMAIN s)
  BY DEF SealTable, SealOrdered
<1>2. /\ n \in Nat /\ p \in [1 .. n -> DOMAIN s] /\ Len(p) = n /\ Len(q) = n
      /\ \A i, j \in 1 .. n : p[i] = p[j] => i = j
      /\ \A r \in DOMAIN s : \E i \in 1 .. n : p[i] = r
  BY <1>1, SealEnumerates
<1>3. /\ q \in [1 .. n -> DOMAIN s]
      /\ \A i, j \in 1 .. n : q[i] = q[j] => i = j
      /\ \A r \in DOMAIN s : \E i \in 1 .. n : q[i] = r
  BY <1>1, <1>2, SealEnumerates
<1> SUFFICES ASSUME bad # {} PROVE FALSE
  BY <1>2, <1>3
<1>4. PICK i \in bad : \A j \in bad : i <= j
  <2>1. bad \subseteq Nat /\ bad # {}
    BY <1>2
  <2> HIDE DEF bad
  <2> QED
    BY <2>1, HasLeast
<1> HIDE DEF n
<1>5. i \in 1 .. n /\ p[i] # q[i] /\ \A m \in 1 .. n : m < i => p[m] = q[m]
  BY <1>2, <1>4
<1> HIDE DEF bad
<1>6. PICK k \in 1 .. n : q[k] = p[i]
  BY <1>2, <1>3, <1>5
<1>7. PICK j \in 1 .. n : p[j] = q[i]
  BY <1>2, <1>3, <1>5
<1>8. i < k /\ i < j
  <2>1. k # i /\ ~(k < i)
    BY <1>2, <1>5, <1>6
  <2>2. j # i /\ ~(j < i)
    BY <1>3, <1>5, <1>7
  <2>3. i \in Nat /\ j \in Nat /\ k \in Nat
    BY <1>2, <1>5
  <2> QED
    BY <2>1, <2>2, <2>3
<1>9. s[p[i]].number <= s[p[j]].number /\ s[q[i]].number <= s[q[k]].number
  BY <1>2, <1>5, <1>6, <1>7, <1>8 DEF SealOrdered
<1>10. p[i] \in DOMAIN s /\ p[j] \in DOMAIN s
  BY <1>2, <1>5, <1>7
<1>11. s[p[i]].number \in 1 .. LastSeal /\ s[p[j]].number \in 1 .. LastSeal
  BY <1>10 DEF SealTable, SealSteps
<1>12. LastSeal \in Nat
  BY SealGiven
<1>13. s[p[i]].number = s[p[j]].number
  BY <1>6, <1>7, <1>9, <1>11, <1>12
<1>14. p[i] = p[j]
  BY <1>10, <1>13
<1> QED
  BY <1>5, <1>7, <1>14

\* What verifies is what was sealed: going back along the chain, no row is missing.
LEMMA SealNothingAltered ==
  ASSUME SealTable(steps), NEW c, NEW s, NEW p, SealSealedAs(c, s, p),
         NEW order \in DocumentSeals!Sorted, DocumentSeals!Valid(order)
  PROVE  DocumentSeals!Seen(content, steps) = DocumentSeals!Seen(c, s)
<1> DEFINE m == Len(order)
           n == Len(p)
           before == [i \in 1 .. m |-> IF i = 1 THEN seal.content ELSE seal.step[order[i - 1]]]
           before0 == [k \in 1 .. n |-> IF k = 1 THEN seal.content ELSE seal.step[p[k - 1]]]
<1>1. /\ m \in Nat /\ order \in [1 .. m -> DocumentSeals!Present]
      /\ \A r \in DocumentSeals!Present : \E i \in 1 .. m : order[i] = r
  <2>1. /\ DocumentSeals!Present \in SUBSET SealRows
        /\ order \in DocumentSeals!SetToSeqs(DocumentSeals!Present)
    BY DEF SealTable, DocumentSeals!Present, DocumentSeals!Sorted
  <2> QED
    BY <2>1, SealEnumerates
<1>2. /\ n \in Nat /\ p \in [1 .. n -> DOMAIN s]
      /\ \A r \in DOMAIN s : \E k \in 1 .. n : p[k] = r
      /\ n \in 1 .. n
  <2>1. DOMAIN s \in SUBSET SealRows /\ p \in DocumentSeals!SetToSeqs(DOMAIN s) /\ DOMAIN s # {}
    BY DEF SealSealedAs, SealTable, SealOrdered
  <2>2. /\ n \in Nat /\ p \in [1 .. n -> DOMAIN s]
        /\ \A r \in DOMAIN s : \E k \in 1 .. n : p[k] = r
    BY <2>1, SealEnumerates
  <2> QED
    BY <2>1, <2>2
<1>3. /\ <<"content", DocumentSeals!Joined(content)>> = seal.content
      /\ seal.seal = <<"seal", seal.content, IF order = <<>> THEN seal.content ELSE seal.step[DocumentSeals!Last(order)]>>
      /\ \A i \in 1 .. m : seal.step[order[i]] = SealHash(steps, order[i], before[i])
  BY DEF DocumentSeals!Valid, DocumentSeals!ContentHash, DocumentSeals!SealHash,
     DocumentSeals!StepHash, SealHash
<1>4. /\ seal.content = <<"content", DocumentSeals!Joined(c)>>
      /\ seal.seal = <<"seal", seal.content, seal.step[p[n]]>>
      /\ \A k \in 1 .. n : seal.step[p[k]] = SealHash(s, p[k], before0[k])
      /\ DocumentSeals!Present \subseteq DOMAIN s
  BY DEF SealSealedAs, DocumentSeals!Present
<1>5. /\ \A i \in 1 .. m : before[i] = IF i = 1 THEN seal.content ELSE seal.step[order[i - 1]]
      /\ \A k \in 1 .. n : before0[k] = IF k = 1 THEN seal.content ELSE seal.step[p[k - 1]]
  OBVIOUS
<1> HIDE DEF m, n, before, before0
<1>6. DocumentSeals!Joined(content) = DocumentSeals!Joined(c)
  BY <1>3, <1>4, SealHashed
<1>7. order # <<>> /\ seal.step[DocumentSeals!Last(order)] = seal.step[p[n]]
  <2>1. (IF order = <<>> THEN seal.content ELSE seal.step[DocumentSeals!Last(order)]) = seal.step[p[n]]
    BY <1>3, <1>4, SealHashed
  <2>2. seal.step[p[n]] # seal.content
    <3>1. seal.step[p[n]] = SealHash(s, p[n], before0[n])
      BY <1>2, <1>4
    <3>2. seal.step[p[n]] # <<"content", DocumentSeals!Joined(c)>>
      BY <3>1, SealHashed
    <3> QED
      BY <1>4, <3>2
  <2> QED
    BY <2>1, <2>2
<1>8. m \in 1 .. m /\ DocumentSeals!Last(order) = order[m]
  <2>1. m # 0
    <3> SUFFICES ASSUME m = 0 PROVE FALSE
      OBVIOUS
    <3>1. order \in [1 .. 0 -> DocumentSeals!Present]
      BY <1>1
    <3> QED
      BY <1>7, <3>1
  <2> QED
    BY <1>1, <2>1 DEF DocumentSeals!Last, m
<1>9. order[m] = p[n]
  BY <1>2, <1>3, <1>4, <1>7, <1>8, SealHashed
<1>10. ASSUME NEW i \in 1 .. m, NEW k \in 1 .. n, order[i] = p[k]
       PROVE  /\ steps[order[i]].number = s[p[k]].number
              /\ DocumentSeals!Spoken(steps[order[i]].answer) = DocumentSeals!Spoken(s[p[k]].answer)
              /\ before[i] = before0[k]
  <2>1. SealHash(steps, order[i], before[i]) = SealHash(s, p[k], before0[k])
    BY <1>3, <1>4, <1>10
  <2> QED
    BY <2>1, SealHashed
<1>11. \A k \in 1 .. n : p[k] \in DocumentSeals!Present
  <2> DEFINE gone == {k \in 1 .. n : p[k] \notin DocumentSeals!Present}
  <2> SUFFICES ASSUME gone # {} PROVE FALSE
    OBVIOUS
  <2>1. PICK k \in gone : \A j \in gone : j <= k
    <3>1. gone \subseteq 1 .. n
      OBVIOUS
    <3> HIDE DEF gone
    <3> QED
      BY <1>2, <3>1, SealHasGreatest
  <2>2. k \in 1 .. n /\ p[k] \notin DocumentSeals!Present /\ k # n
    BY <1>1, <1>8, <1>9
  <2>3. k + 1 \in 1 .. n /\ k + 1 \notin gone /\ k + 1 # 1 /\ (k + 1) - 1 = k
    BY <1>2, <2>1, <2>2
  <2>4. PICK i \in 1 .. m : order[i] = p[k + 1]
    BY <1>1, <2>3
  <2>5. before[i] = seal.step[p[k]]
    BY <1>5, <1>10, <2>3, <2>4
  <2>6. seal.step[p[k]] = SealHash(s, p[k], before0[k])
    BY <1>4, <2>2
  <2>7. i # 1
    BY <1>4, <1>5, <2>5, <2>6, SealHashed
  <2>8. i - 1 \in 1 .. m
    BY <1>1, <2>7
  <2>9. SealHash(steps, order[i - 1], before[i - 1]) = SealHash(s, p[k], before0[k])
    BY <1>3, <1>5, <2>5, <2>6, <2>7, <2>8
  <2>10. order[i - 1] = p[k]
    BY <2>9, SealHashed
  <2> QED
    BY <1>1, <2>2, <2>8, <2>10
<1>12. DocumentSeals!Present = DOMAIN s
  BY <1>2, <1>4, <1>11
<1>13. ASSUME NEW r \in DocumentSeals!Present
       PROVE  /\ steps[r].number = s[r].number
              /\ DocumentSeals!Spoken(steps[r].answer) = DocumentSeals!Spoken(s[r].answer)
  <2>1. PICK i \in 1 .. m : order[i] = r
    BY <1>1
  <2>2. PICK k \in 1 .. n : p[k] = r
    BY <1>2, <1>4
  <2> QED
    BY <1>10, <2>1, <2>2
<1> QED
  BY <1>6, <1>12, <1>13, SealSame DEF DocumentSeals!Present

\* What the hashes see as it was is sealed as it is.
LEMMA SealSeenAs ==
  ASSUME SealTable(steps), NEW c, NEW s, NEW p, SealSealedAs(c, s, p),
         DocumentSeals!Seen(content, steps) = DocumentSeals!Seen(c, s)
  PROVE  SealSealedAs(content, steps, p)
<1>1. /\ DocumentSeals!Joined(content) = DocumentSeals!Joined(c) /\ DOMAIN steps = DOMAIN s
      /\ \A r \in DOMAIN s :
           /\ steps[r].number = s[r].number
           /\ DocumentSeals!Spoken(steps[r].answer) = DocumentSeals!Spoken(s[r].answer)
  BY SealSame
<1>2. /\ Len(p) \in Nat /\ p \in [1 .. Len(p) -> DOMAIN s]
  <2>1. DOMAIN s \in SUBSET SealRows /\ p \in DocumentSeals!SetToSeqs(DOMAIN s)
    BY DEF SealSealedAs, SealTable, SealOrdered
  <2> QED
    BY <2>1, SealEnumerates
<1>3. \A i \in 1 .. Len(p) : p[i] \in DOMAIN s
  BY <1>2
<1>4. \A i \in 1 .. Len(p) : \A x : SealHash(steps, p[i], x) = SealHash(s, p[i], x)
  BY <1>1, <1>3 DEF SealHash
<1>5. SealOrdered(steps, p)
  BY <1>1, <1>3 DEF SealSealedAs, SealOrdered
<1> QED
  BY <1>1, <1>4, <1>5 DEF SealSealedAs

\* What was sealed verifies, in the order in which it was sealed.
LEMMA SealAsItWas ==
  ASSUME DocumentSeals!Sealed, NEW p, SealSealedAs(content, steps, p)
  PROVE  p \in DocumentSeals!Sorted /\ DocumentSeals!Valid(p)
<1>1. p \in DocumentSeals!Sorted
  BY DEF SealSealedAs, SealOrdered, DocumentSeals!Sorted, DocumentSeals!Present
<1>2. Len(p) \in Nat /\ Len(p) # 0
  <2>1. /\ DOMAIN steps \in SUBSET SealRows /\ p \in DocumentSeals!SetToSeqs(DOMAIN steps)
        /\ DOMAIN steps # {}
    BY DEF SealSealedAs, SealTable, SealOrdered
  <2>2. Len(p) \in Nat /\ \A r \in DOMAIN steps : \E i \in 1 .. Len(p) : p[i] = r
    BY <2>1, SealEnumerates
  <2> QED
    BY <2>1, <2>2
<1>3. p # <<>>
  BY <1>2
<1> QED
  BY <1>1, <1>3 DEF SealSealedAs, DocumentSeals!Valid, DocumentSeals!ContentHash,
     DocumentSeals!SealHash, DocumentSeals!StepHash, SealHash, DocumentSeals!Last

\* The initial states have the invariant.
LEMMA SealInitHolds == DocumentSeals!Init => SealInv
<1> SUFFICES ASSUME DocumentSeals!Init PROVE SealInv
  OBVIOUS
<1>1. PICK order \in (SUBSET SealRows) \ {{}} : steps \in [order -> SealSteps]
  BY DEF DocumentSeals!Init, SealSteps
<1>2. DOMAIN steps = order /\ ~DocumentSeals!Sealed
  BY <1>1 DEF DocumentSeals!Init, DocumentSeals!Sealed
<1>3. content \in DocumentSeals!Contents
  BY DEF DocumentSeals!Init
<1> QED
  BY <1>1, <1>2, <1>3 DEF SealInv, SealTable

\* A document is sealed.
LEMMA SealMadeKeeps ==
  ASSUME SealInv, DocumentSeals!Seal
  PROVE  SealInv'
<1>1. /\ ~DocumentSeals!Sealed /\ asSealed' = <<content, steps>> /\ content' = content
      /\ steps' = steps
  BY DEF DocumentSeals!Seal
<1>2. PICK p \in DocumentSeals!Sorted :
        LET chain == DocumentSeals!Chain(p, DocumentSeals!ContentHash) IN
        seal' = [content |-> DocumentSeals!ContentHash,
                 seal |-> DocumentSeals!SealHash(DocumentSeals!ContentHash, chain[Len(p)]),
                 step |-> [r \in DocumentSeals!Present |-> chain[CHOOSE i \in 1 .. Len(p) : p[i] = r]]]
  BY DEF DocumentSeals!Seal
<1> DEFINE chain == DocumentSeals!Chain(p, DocumentSeals!ContentHash)
           n == Len(p)
<1>3. /\ seal'.content = DocumentSeals!ContentHash
      /\ seal'.seal = DocumentSeals!SealHash(DocumentSeals!ContentHash, chain[n])
      /\ seal'.step = [r \in DocumentSeals!Present |-> chain[CHOOSE i \in 1 .. n : p[i] = r]]
  BY <1>2
<1>4. /\ DocumentSeals!Present \in SUBSET SealRows
      /\ p \in DocumentSeals!SetToSeqs(DocumentSeals!Present) /\ DocumentSeals!Present # {}
  BY <1>1 DEF SealInv, SealTable, DocumentSeals!Present, DocumentSeals!Sorted
<1>5. /\ n \in Nat /\ p \in [1 .. n -> DocumentSeals!Present]
      /\ \A i, j \in 1 .. n : p[i] = p[j] => i = j
      /\ \A r \in DocumentSeals!Present : \E i \in 1 .. n : p[i] = r
  BY <1>4, SealEnumerates
<1>6. n \in 1 .. n
  BY <1>4, <1>5
<1>7. /\ chain[0] = DocumentSeals!ContentHash
      /\ \A i \in 1 .. n : chain[i] = DocumentSeals!StepHash(p[i], chain[i - 1])
  BY <1>5, SealChainIs
<1> HIDE DEF chain, n
<1>8. ASSUME NEW i \in 1 .. n
      PROVE  seal'.step[p[i]] = chain[i]
  <2> DEFINE place(r) == CHOOSE j \in 1 .. n : p[j] = r
  <2>1. p[i] \in DocumentSeals!Present /\ i = place(p[i])
    BY <1>5
  <2>2. seal'.step = [r \in DocumentSeals!Present |-> chain[place(r)]]
    BY <1>3
  <2> HIDE DEF place
  <2> QED
    BY <2>1, <2>2
<1>9. ASSUME NEW i \in 1 .. n
      PROVE  seal'.step[p[i]] =
               SealHash(steps, p[i], IF i = 1 THEN seal'.content ELSE seal'.step[p[i - 1]])
  <2>1. chain[i] = SealHash(steps, p[i], chain[i - 1])
    BY <1>7 DEF DocumentSeals!StepHash, SealHash
  <2>2. CASE i = 1
    BY <1>3, <1>7, <1>8, <2>1, <2>2
  <2>3. CASE i # 1
    <3>1. i - 1 \in 1 .. n
      BY <1>5, <2>3
    <3> QED
      BY <1>8, <2>1, <2>3, <3>1
  <2> QED
    BY <2>2, <2>3
<1>10. /\ seal'.content = <<"content", DocumentSeals!Joined(content)>>
       /\ seal'.seal = <<"seal", seal'.content, seal'.step[p[n]]>>
  BY <1>3, <1>6, <1>8 DEF DocumentSeals!ContentHash, DocumentSeals!SealHash
<1>11. SealTable(steps) /\ SealOrdered(steps, p) /\ DOMAIN steps # {}
  BY <1>4 DEF SealInv, DocumentSeals!Sorted, SealOrdered, DocumentSeals!Present
<1>12. SealSealedAs(content, steps, p)'
  BY <1>1, <1>9, <1>10, <1>11
     DEF SealSealedAs, SealTable, SealOrdered, SealHash, DocumentSeals!Joined, n
<1> QED
  BY <1>1, <1>11, <1>12 DEF SealInv, SealTable

\* Rows or columns are altered after that.
LEMMA SealAlterHolds ==
  ASSUME SealInv, DocumentSeals!Alter
  PROVE  SealInv'
<1>1. DocumentSeals!Sealed /\ seal' = seal /\ asSealed' = asSealed
  BY DEF DocumentSeals!Alter
<1>2. PICK c \in DocumentSeals!Contents : \E s, p : asSealed = <<c, s>> /\ SealSealedAs(c, s, p)
  BY <1>1 DEF SealInv
<1>a. PICK s, p : asSealed = <<c, s>> /\ SealSealedAs(c, s, p)
  BY <1>2
<1>3. SealTable(steps)' /\ DOMAIN steps' \subseteq DOMAIN steps
  <2>1. CASE UNCHANGED steps
    BY <2>1 DEF SealInv, SealTable
  <2>2. ASSUME NEW r \in DocumentSeals!Present, NEW answer \in Answers, steps' = [steps EXCEPT ![r].answer = answer]
        PROVE  SealTable(steps)' /\ DOMAIN steps' \subseteq DOMAIN steps
    <3>1. steps \in [DOMAIN steps -> SealSteps] /\ DOMAIN steps \subseteq SealRows
      BY DEF SealInv, SealTable
    <3>2. DOMAIN steps' = DOMAIN steps
      BY <2>2
    <3>3. steps' \in [DOMAIN steps -> SealSteps]
      BY <2>2, <3>1 DEF SealSteps, DocumentSeals!Present
    <3> QED
      BY <3>1, <3>2, <3>3 DEF SealTable
  <2>3. ASSUME NEW r \in DocumentSeals!Present, steps' = [t \in DocumentSeals!Present \ {r} |-> steps[t]]
        PROVE  SealTable(steps)' /\ DOMAIN steps' \subseteq DOMAIN steps
    <3>1. steps \in [DOMAIN steps -> SealSteps] /\ DOMAIN steps \subseteq SealRows
      BY DEF SealInv, SealTable
    <3>2. DOMAIN steps' = DOMAIN steps \ {r}
      BY <2>3 DEF DocumentSeals!Present
    <3>3. steps' \in [DOMAIN steps' -> SealSteps]
      BY <2>3, <3>1, <3>2 DEF DocumentSeals!Present
    <3> QED
      BY <3>1, <3>2, <3>3 DEF SealTable
  <2> QED
    BY <2>1, <2>2, <2>3 DEF DocumentSeals!Alter
<1>4. SealSealedAs(c, s, p)'
  <2>1. DOMAIN steps' \subseteq DOMAIN s
    BY <1>a, <1>3 DEF SealSealedAs
  <2> QED
    BY <1>1, <1>a, <2>1
       DEF SealSealedAs, SealTable, SealOrdered, SealHash, DocumentSeals!Joined
<1>5. DocumentSeals!Sealed'
  BY <1>1 DEF DocumentSeals!Sealed
<1>6. content' \in DocumentSeals!Contents
  BY DEF DocumentSeals!Alter, SealInv
<1> QED
  BY <1>1, <1>a, <1>3, <1>4, <1>5, <1>6 DEF SealInv

\* Every step keeps the invariant, and does what is said of every step.
LEMMA SealStepHolds == SealInv /\ [DocumentSeals!Next]_(DocumentSeals!vars) => SealInv'
<1> SUFFICES ASSUME SealInv, [DocumentSeals!Next]_(DocumentSeals!vars) PROVE SealInv'
  OBVIOUS
<1>1. CASE UNCHANGED DocumentSeals!vars
  <2>1. content' = content /\ steps' = steps /\ seal' = seal /\ asSealed' = asSealed
    BY <1>1 DEF DocumentSeals!vars
  <2>2. ASSUME NEW c, NEW s, NEW p, SealSealedAs(c, s, p) PROVE SealSealedAs(c, s, p)'
    BY <2>1, <2>2 DEF SealSealedAs, SealTable, SealOrdered, SealHash, DocumentSeals!Joined
  <2> QED
    BY <2>1, <2>2 DEF SealInv, SealTable, DocumentSeals!Sealed
<1> QED
  BY <1>1, SealMadeKeeps, SealAlterHolds DEF DocumentSeals!Next

\* The invariant is enough.
LEMMA SealPromised == SealInv => DocumentSeals!SealTells
<1> SUFFICES ASSUME SealInv, DocumentSeals!Sealed PROVE DocumentSeals!SealTells
  BY DEF DocumentSeals!SealTells
<1>1. SealTable(steps) /\ content \in DocumentSeals!Contents
  BY DEF SealInv
<1>2. PICK c \in DocumentSeals!Contents : \E s, p : asSealed = <<c, s>> /\ SealSealedAs(c, s, p)
  BY DEF SealInv
<1>3. PICK s, p : asSealed = <<c, s>> /\ SealSealedAs(c, s, p)
  BY <1>2
<1>4. asSealed[1] = c /\ asSealed[2] = s
  BY <1>3
<1>5. ASSUME NEW order \in DocumentSeals!Sorted, DocumentSeals!Valid(order)
      PROVE  DocumentSeals!Seen(content, steps) = DocumentSeals!Seen(c, s)
  BY <1>1, <1>3, <1>5, SealNothingAltered
<1>6. ASSUME DocumentSeals!Seen(content, steps) = DocumentSeals!Seen(c, s),
             DocumentSeals!Clear(content, steps), DocumentSeals!Clear(c, s)
      PROVE  content = c /\ steps = s
  <2>1. /\ DocumentSeals!Joined(content) = DocumentSeals!Joined(c) /\ DOMAIN steps = DOMAIN s
        /\ \A r \in DOMAIN s :
             /\ steps[r].number = s[r].number
             /\ DocumentSeals!Spoken(steps[r].answer) = DocumentSeals!Spoken(s[r].answer)
    BY <1>6, SealSame
  <2>2. content = c
    BY <1>1, <1>6, <2>1, SealClear DEF DocumentSeals!Clear
  <2>3. /\ steps \in [DOMAIN steps -> SealSteps] /\ s \in [DOMAIN s -> SealSteps]
    BY <1>1, <1>3 DEF SealTable, SealSealedAs
  <2>4. ASSUME NEW r \in DOMAIN s
        PROVE  steps[r] = s[r]
    <3>1. steps[r].answer # Mute /\ s[r].answer # Mute
      BY <1>6, <2>1, <2>4 DEF DocumentSeals!Clear
    <3>2. steps[r].number = s[r].number /\ steps[r].answer = s[r].answer
      BY <2>1, <2>4, <3>1 DEF DocumentSeals!Spoken
    <3>3. steps[r] \in SealSteps /\ s[r] \in SealSteps
      BY <2>1, <2>3, <2>4
    <3> QED
      BY <3>2, <3>3 DEF SealSteps
  <2> QED
    BY <2>1, <2>2, <2>3, <2>4
<1>7. ASSUME DocumentSeals!Seen(content, steps) = DocumentSeals!Seen(c, s)
      PROVE  /\ \E order \in DocumentSeals!Sorted : DocumentSeals!Valid(order)
             /\ DocumentSeals!Distinct => \A order \in DocumentSeals!Sorted :
                  DocumentSeals!Valid(order)
  <2>2. SealSealedAs(content, steps, p)
    BY <1>1, <1>3, <1>7, SealSeenAs
  <2>3. p \in DocumentSeals!Sorted /\ DocumentSeals!Valid(p)
    BY <2>2, SealAsItWas
  <2>4. ASSUME DocumentSeals!Distinct, NEW order \in DocumentSeals!Sorted
        PROVE  order = p
    <3>1. SealOrdered(steps, order)
      BY DEF DocumentSeals!Sorted, SealOrdered, DocumentSeals!Present
    <3>2. SealOrdered(steps, p)
      BY <2>2 DEF SealSealedAs
    <3>3. \A r, t \in DOMAIN steps : steps[r].number = steps[t].number => r = t
      BY <2>4 DEF DocumentSeals!Distinct, DocumentSeals!Present
    <3> QED
      BY <1>1, <3>1, <3>2, <3>3, SealOneOrder
  <2> QED
    BY <2>3, <2>4
<1>8. /\ <<content, steps>> # asSealed /\ DocumentSeals!Clear(content, steps)
           /\ DocumentSeals!Clear(c, s) => \A order \in DocumentSeals!Sorted : ~DocumentSeals!Valid(order)
      /\ DocumentSeals!Seen(content, steps) # DocumentSeals!Seen(c, s) =>
           \A order \in DocumentSeals!Sorted : ~DocumentSeals!Valid(order)
  BY <1>3, <1>5, <1>6
<1> QED
  BY <1>4, <1>7, <1>8 DEF DocumentSeals!SealTells

-----------------------------------------------------------------------------
(***************************************************************************)
(* files. A file that was deleted a day ago is out of reach of handlers    *)
(* and of uploads, so that what a replica has removed from S3 does not     *)
(* come back; and an UPDATE that deletes sets the date of the deletion,    *)
(* whatever its SELECT saw.                                                *)
(***************************************************************************)
\* What is assumed of the constants.
LEMMA FileGiven == Files!FilesAssumption
  BY RecordsAssumption

\* Deleted a day ago: out of reach of every handler and upload.
FileGone(f) == files[f].deletedAt = "before"

\* Handlers that have a file in hand.
FileFiling == {"creating", "checking", "saving", "updating"}
\* What is saved confirms a file that has its object, or deletes one.
FileSaves(h) ==
  \/ local[h].row.status = "confirmed" /\ local[h].row.deletedAt = "null" /\ local[h].id \in stored
  \/ /\ local[h].row.status = "deleted" /\ local[h].row.deletedAt = "today"
     /\ "deletedAt" \in local[h].cols
\* What a handler knows of the files in hand.
FileHeldSound(h) ==
  /\ pc[h] \in FileFiling => local[h].id \in FileIds /\ ~local[h].row.s3Deleted
  /\ pc[h] = "creating" => local[h].row.status = "pending" /\ local[h].row.deletedAt = "null"
  /\ pc[h] = "checking" => local[h].row.status = "confirmed" /\ local[h].row.deletedAt = "null"
  /\ pc[h] \in {"saving", "updating"} => FileSaves(h)
  /\ pc[h] = "updating" =>
       (files[local[h].id].status \in {"none", "pending"} => "status" \in local[h].cols)
  /\ pc[h] \in {"purging", "marking"} => \A f \in local[h].list : FileGone(f)
  /\ pc[h] = "marking" => \A f \in local[h].list : f \notin stored

\* What a row says of S3.
FileRowSound(f) ==
  /\ files[f].status = "pending" => files[f].deletedAt = "null"
  /\ f \in Files!Confirmed => f \in stored
  /\ files[f].s3Deleted => FileGone(f) /\ f \notin stored
  /\ FileGone(f) => f \notin urls
\* No handler has such a file in hand.
FileUnreached == \A f \in FileIds, h \in Handlers : FileGone(f) => local[h].id # f
\* A file that is being created has no row yet, and no other handler has it in hand.
FileNew == \A h \in Handlers : pc[h] = "creating" =>
  /\ files[local[h].id] = Files!NoRow
  /\ \A g \in Handlers \ {h} : local[g].id # local[h].id

\* As long as handlers do not overlap, a file in hand is not deleted.
FileInHand(h) == pc[h] \in FileFiling => files[local[h].id].deletedAt = "null"
\* A deleted file stays deleted.
FileStays == \A f \in FileIds : files[f].deletedAt # "null" => files'[f].deletedAt # "null"

\* What holds however handlers interleave.
FileInv == /\ Files!TypeOK /\ FileUnreached /\ FileNew /\ (\A f \in FileIds : FileRowSound(f))
           /\ \A h \in Handlers : FileHeldSound(h)
\* What holds as long as they do not overlap.
FileSoloInv == Alone /\ (~overlapped => \A h \in Handlers : FileInHand(h))

\* Types of the state.
FileTyped ==
  /\ files \in [FileIds -> Files!Rows] /\ stored \subseteq FileIds /\ urls \subseteq FileIds
  /\ pc \in [Handlers -> Files!Steps] /\ local \in [Handlers -> Files!Locals]

\* What a step of h does: it keeps the invariant, as long as h is alone all of
\* it.
FileKept(h) ==
  /\ FileTyped' /\ (\A f \in FileIds : FileRowSound(f)') /\ FileHeldSound(h)'
  /\ \A f \in FileIds : FileGone(f)' <=> FileGone(f)
  /\ \A f \in stored : f \in stored' \/ FileGone(f)
  /\ stored' \subseteq stored
  /\ local'[h].id \in FileIds => ~FileGone(local'[h].id)
  /\ \A f \in FileIds : f # local[h].id /\ ~FileGone(f) => files'[f] = files[f]
  /\ \A f \in FileIds : files[f].status \notin {"none", "pending"} =>
                          files'[f].status \notin {"none", "pending"}
  /\ local'[h].id \in {local[h].id, None} \/ files[local'[h].id] # Files!NoRow
     \/ \A g \in Handlers : local[g].id # local'[h].id
  /\ pc'[h] = "creating" => files'[local'[h].id] = Files!NoRow
                            /\ \A g \in Handlers : local[g].id # local'[h].id
  /\ \A g \in Handlers \ {h} : pc'[g] = pc[g] /\ local'[g] = local[g]
  /\ FileInHand(h) => FileInHand(h)' /\ FileStays

\* What is held at rest, and in a row that is not there, is typed.
LEMMA FileEmpty == /\ Files!NoLocal \in Files!Locals /\ Files!NoRow \in Files!Rows
                   /\ Files!NoLocal.id = None /\ None \notin FileIds
                   /\ Files!NoLocal.row = Files!NoRow
                   /\ Files!NoRow.status = "none" /\ Files!NoRow.deletedAt = "null"
                   /\ ~Files!NoRow.s3Deleted
  BY FileGiven DEF Files!NoLocal, Files!NoRow, Files!Locals, Files!Rows, Files!OrNone,
     Files!FilesAssumption

\* The initial states have the invariant.
LEMMA FileInitHolds == Files!Init => FileInv /\ FileSoloInv
<1> SUFFICES ASSUME Files!Init PROVE FileInv /\ FileSoloInv
  OBVIOUS
<1>1. overlapped = FALSE /\ \A h \in Handlers : pc[h] = "idle" /\ local[h] = Files!NoLocal
  BY DEF Files!Init, Files!AllIdle
<1>2. overlapped \in BOOLEAN
  BY <1>1, Zenon
<1>3. Files!TypeOK
  BY <1>2, FileEmpty DEF Files!Init, Files!AllIdle, Files!TypeOK, Files!Steps
<1>4. \A f \in FileIds : FileRowSound(f)
  BY DEF Files!Init, FileRowSound, FileGone, Files!NoRow, Files!Confirmed
<1>5. FileUnreached /\ FileNew
  BY <1>1, FileEmpty DEF FileUnreached, FileNew
<1> QED
  BY <1>1, <1>3, <1>4, <1>5 DEF FileInv, FileSoloInv, Alone, Files!InFlight, FileInHand,
     FileHeldSound, FileFiling

\* The tables stay as they are.
LEMMA FileReadKeeps ==
  ASSUME FileInv, NEW h \in Handlers, UNCHANGED files, urls' = urls,
         stored' \subseteq stored, \A f \in stored : f \in stored' \/ FileGone(f),
         pc' \in [Handlers -> Files!Steps], local' \in [Handlers -> Files!Locals],
         \A g \in Handlers \ {h} : pc'[g] = pc[g] /\ local'[g] = local[g],
         FileHeldSound(h)', FileInHand(h) => FileInHand(h)',
         local'[h].id \in FileIds => ~FileGone(local'[h].id),
         local'[h].id \in {local[h].id, None} \/ files[local'[h].id] # Files!NoRow
           \/ \A g \in Handlers : local[g].id # local'[h].id,
         pc'[h] = "creating" => files[local'[h].id] = Files!NoRow
                                /\ \A g \in Handlers : local[g].id # local'[h].id
  PROVE  FileKept(h)
<1>1. FileTyped'
  BY DEF FileInv, Files!TypeOK, FileTyped
<1>2. \A f \in FileIds : FileGone(f)' <=> FileGone(f)
  BY DEF FileGone
<1>3. \A f \in FileIds : FileRowSound(f)'
  BY <1>2 DEF FileRowSound, FileInv, FileGone, Files!TypeOK, Files!Confirmed
<1> QED
  BY <1>1, <1>2, <1>3 DEF FileKept, FileStays

\* A handler that goes on holds what it has read.
LEMMA FileHoldTyped ==
  ASSUME FileInv, NEW h \in Handlers, NEW step \in Files!Steps, NEW read \in Files!Locals,
         Files!Goto(h, step), Files!Hold(h, read)
  PROVE  /\ pc' \in [Handlers -> Files!Steps] /\ local' \in [Handlers -> Files!Locals]
         /\ pc'[h] = step /\ local'[h] = read
         /\ \A g \in Handlers \ {h} : pc'[g] = pc[g] /\ local'[g] = local[g]
  BY DEF FileInv, Files!TypeOK, Files!Goto, Files!Hold

\* A handler that returns holds no file.
LEMMA FileReturns ==
  ASSUME FileInv, NEW h \in Handlers, Files!Return(h)
  PROVE  /\ pc' \in [Handlers -> Files!Steps] /\ local' \in [Handlers -> Files!Locals]
         /\ pc'[h] = "idle" /\ local'[h].id = None /\ local'[h].id \notin FileIds
         /\ \A g \in Handlers \ {h} : pc'[g] = pc[g] /\ local'[g] = local[g]
         /\ FileHeldSound(h)' /\ FileInHand(h)'
<1>1. /\ pc' \in [Handlers -> Files!Steps] /\ local' \in [Handlers -> Files!Locals]
      /\ pc'[h] = "idle" /\ local'[h] = Files!NoLocal
      /\ \A g \in Handlers \ {h} : pc'[g] = pc[g] /\ local'[g] = local[g]
  BY FileEmpty, FileHoldTyped DEF Files!Return, Files!Steps
<1> QED
  BY <1>1, FileEmpty DEF FileHeldSound, FileInHand, FileFiling

\* A file is taken in hand.
LEMMA FileLoadKeeps ==
  ASSUME FileInv, NEW h \in Handlers, NEW f \in FileIds, NEW step \in {"checking", "saving"},
         NEW row \in Files!Rows, NEW cols \in SUBSET DOMAIN Files!NoRow,
         Files!Load(h, f, step, row, cols), files[f].deletedAt = "null", ~row.s3Deleted,
         step = "checking" => row.status = "confirmed" /\ row.deletedAt = "null",
         step = "saving" =>
           row.status = "deleted" /\ row.deletedAt = "today" /\ "deletedAt" \in cols
  PROVE  FileKept(h)
<1> DEFINE read == [Files!NoLocal EXCEPT !.id = f, !.row = row, !.cols = cols]
<1>1. read \in Files!Locals /\ read.id = f /\ read.row = row /\ read.cols = cols
  BY DEF Files!Locals, Files!OrNone, Files!NoLocal
<1>2. /\ Files!Goto(h, step) /\ Files!Hold(h, read) /\ UNCHANGED <<files, stored, urls>>
      /\ pc[h] = "idle" /\ files[f] # Files!NoRow
  BY DEF Files!Load, Files!Outside
<1> HIDE DEF read
<1>3. /\ pc' \in [Handlers -> Files!Steps] /\ local' \in [Handlers -> Files!Locals]
      /\ pc'[h] = step /\ local'[h] = read
      /\ \A g \in Handlers \ {h} : pc'[g] = pc[g] /\ local'[g] = local[g]
  BY <1>1, <1>2, FileHoldTyped DEF Files!Steps
<1>5. FileHeldSound(h)'
  BY <1>1, <1>2, <1>3 DEF FileHeldSound, FileFiling, FileSaves
<1>6. FileInHand(h)'
  BY <1>1, <1>2, <1>3 DEF FileInHand
<1> QED
  BY <1>1, <1>2, <1>3, <1>5, <1>6, FileReadKeeps DEF FileGone

\* What an UPDATE makes of a row: each column is the old one or that in hand.
LEMMA FileMerge ==
  ASSUME NEW row \in Files!Rows, NEW entity \in Files!Rows, NEW cols
  PROVE  LET new == Files!Merged(row, entity, cols) IN
         /\ new \in Files!Rows
         /\ Files!Differing(row, entity) \in SUBSET DOMAIN Files!NoRow
         /\ entity.status # row.status => "status" \in Files!Differing(row, entity)
         /\ new.status = IF "status" \in cols THEN entity.status ELSE row.status
         /\ new.deletedAt = IF "deletedAt" \in cols THEN entity.deletedAt ELSE row.deletedAt
         /\ new.s3Deleted \in {row.s3Deleted, entity.s3Deleted}
  BY DEF Files!Rows, Files!NoRow, Files!Merged, Files!Differing

\* The row of the file in hand is written.
LEMMA FileWriteKeeps ==
  ASSUME FileInv, NEW h \in Handlers, pc[h] \in FileFiling, NEW row \in Files!Rows,
         files' = [files EXCEPT ![local[h].id] = row], Files!Return(h),
         row.status = "pending" => row.deletedAt = "null",
         row.status = "confirmed" /\ row.deletedAt = "null" => local[h].id \in stored,
         row.deletedAt # "before", ~row.s3Deleted,
         files[local[h].id].status \notin {"none", "pending"} => row.status \notin {"none", "pending"},
         stored' = stored, urls' = urls \/ urls' = urls \cup {local[h].id}
  PROVE  FileKept(h)
<1> DEFINE id == local[h].id
<1>1. files' = [files EXCEPT ![id] = row]
  OBVIOUS
<1>2. id \in FileIds /\ ~FileGone(id)
  BY DEF FileInv, FileHeldSound, FileUnreached
<1>3. /\ pc' \in [Handlers -> Files!Steps] /\ local' \in [Handlers -> Files!Locals]
      /\ local'[h].id \notin FileIds /\ local'[h].id = None /\ pc'[h] = "idle"
      /\ \A g \in Handlers \ {h} : pc'[g] = pc[g] /\ local'[g] = local[g]
      /\ FileHeldSound(h)' /\ FileInHand(h)'
  BY FileReturns
<1>4. FileInHand(h) => files[id].deletedAt = "null"
  BY DEF FileInHand
<1>6. /\ (row.status = "confirmed" /\ row.deletedAt = "null" => id \in stored)
      /\ (urls' = urls \/ urls' = urls \cup {id})
      /\ files[id].status \notin {"none", "pending"} => row.status \notin {"none", "pending"}
  OBVIOUS
<1> HIDE DEF id
<1>5. /\ files' \in [FileIds -> Files!Rows] /\ files'[id] = row
      /\ \A f \in FileIds : f # id => files'[f] = files[f]
  BY <1>1, <1>2 DEF FileInv, Files!TypeOK
<1>7. \A f \in FileIds : FileGone(f)' <=> FileGone(f)
  BY <1>2, <1>5 DEF FileGone
<1>8. ASSUME NEW f \in FileIds
      PROVE  FileRowSound(f)'
  <2>1. CASE f = id
    BY <1>2, <1>5, <1>6, <1>7, <2>1 DEF FileRowSound, Files!Confirmed
  <2>2. CASE f # id
    BY <1>5, <1>6, <1>7, <2>2 DEF FileRowSound, FileInv, Files!Confirmed
  <2> QED
    BY <2>1, <2>2
<1>9. FileTyped'
  BY <1>2, <1>3, <1>5, <1>6 DEF FileTyped, FileInv, Files!TypeOK
<1>10. FileInHand(h) => FileStays
  BY <1>4, <1>5 DEF FileStays
<1>11. /\ \A f \in FileIds : f # local[h].id => files'[f] = files[f]
       /\ \A f \in FileIds : files[f].status \notin {"none", "pending"} =>
                               files'[f].status \notin {"none", "pending"}
  BY <1>5, <1>6 DEF id
<1> QED
  BY <1>3, <1>7, <1>8, <1>9, <1>10, <1>11 DEF FileKept

\* The two statements of a save.
LEMMA FileSaveKeeps ==
  ASSUME FileInv, NEW h \in Handlers, Files!SaveSelect(h) \/ Files!Save(h)
  PROVE  FileKept(h)
<1>0. /\ local \in [Handlers -> Files!Locals] /\ pc \in [Handlers -> Files!Steps]
      /\ files \in [FileIds -> Files!Rows] /\ FileHeldSound(h)
      /\ local[h] \in Files!Locals /\ local[h].row \in Files!Rows
  BY DEF FileInv, Files!TypeOK, Files!Locals
<1>i. /\ local[h].id \in FileIds /\ ~FileGone(local[h].id) /\ FileSaves(h)
      /\ ~local[h].row.s3Deleted
      /\ files[local[h].id] \in Files!Rows /\ FileRowSound(local[h].id)
  BY <1>0 DEF FileInv, FileUnreached, FileHeldSound, FileFiling, Files!SaveSelect, Files!Compare,
     Files!Save
<1>1. CASE Files!SaveSelect(h)
  <2> DEFINE cols == local[h].cols \cup Files!Differing(files[local[h].id], local[h].row)
             held == [local[h] EXCEPT !.cols = cols]
  <2>1. /\ pc[h] = "saving" /\ UNCHANGED <<files, stored, urls>>
        /\ Files!Goto(h, "updating") /\ local' = [local EXCEPT ![h] = held]
    BY <1>0, <1>1 DEF Files!SaveSelect, Files!Compare, Files!Hold, Files!Outside
  <2>2. /\ cols \in SUBSET DOMAIN Files!NoRow
        /\ local[h].cols \subseteq cols
        /\ files[local[h].id].status \in {"none", "pending"} => "status" \in cols
    BY <1>0, <1>i, FileMerge DEF Files!Locals, FileSaves
  <2> HIDE DEF cols
  <2>3. held \in Files!Locals /\ held.id = local[h].id /\ held.row = local[h].row /\ held.cols = cols
    <3> DEFINE Columns == SUBSET DOMAIN Files!NoRow
               Lists == SUBSET FileIds
    <3>1. /\ local[h] \in [id : Files!OrNone(FileIds), row : Files!Rows, cols : Columns, list : Lists]
          /\ cols \in Columns
      BY <1>0, <2>2 DEF Files!Locals
    <3> HIDE DEF Columns, Lists
    <3>2. /\ held \in [id : Files!OrNone(FileIds), row : Files!Rows, cols : Columns, list : Lists]
          /\ held.id = local[h].id /\ held.row = local[h].row /\ held.cols = cols
      BY <3>1
    <3> QED
      BY <3>2 DEF Columns, Lists, Files!Locals
  <2> HIDE DEF held
  <2>4. /\ pc' \in [Handlers -> Files!Steps] /\ local' \in [Handlers -> Files!Locals]
        /\ pc'[h] = "updating" /\ local'[h] = held
        /\ \A g \in Handlers \ {h} : pc'[g] = pc[g] /\ local'[g] = local[g]
    BY <2>1, <2>3, FileHoldTyped DEF Files!Hold, Files!Steps
  <2>5. FileHeldSound(h)' /\ (FileInHand(h) => FileInHand(h)')
    BY <1>i, <2>1, <2>2, <2>3, <2>4 DEF FileHeldSound, FileFiling, FileSaves, FileInHand
  <2> QED
    BY <1>i, <2>1, <2>3, <2>4, <2>5, FileReadKeeps
<1>2. CASE Files!Save(h)
  <2> DEFINE row == Files!Merged(files[local[h].id], local[h].row, local[h].cols)
  <2>1. /\ pc[h] = "updating" /\ files' = [files EXCEPT ![local[h].id] = row]
        /\ Files!Return(h) /\ stored' = stored /\ urls' = urls
    BY <1>0, <1>2 DEF Files!Save, Files!Outside
  <2>2. /\ row \in Files!Rows
        /\ row.status = IF "status" \in local[h].cols THEN local[h].row.status
                        ELSE files[local[h].id].status
        /\ row.deletedAt = IF "deletedAt" \in local[h].cols THEN local[h].row.deletedAt
                           ELSE files[local[h].id].deletedAt
        /\ row.s3Deleted \in {files[local[h].id].s3Deleted, local[h].row.s3Deleted}
    BY <1>0, <1>i, FileMerge
  <2> HIDE DEF row
  <2>3. ~row.s3Deleted /\ row.deletedAt # "before"
    BY <1>i, <2>2 DEF FileRowSound, FileGone, FileSaves
  <2>4. /\ row.status \notin {"none", "pending"}
        /\ row.status = "confirmed" /\ row.deletedAt = "null" => local[h].id \in stored
    BY <1>0, <1>i, <2>1, <2>2 DEF FileHeldSound, FileSaves, FileRowSound, Files!Confirmed, Files!Rows
  <2> QED
    BY <2>1, <2>2, <2>3, <2>4, FileWriteKeeps DEF FileFiling
<1> QED
  BY <1>1, <1>2

\* Deleted files are cleaned up.
LEMMA FileCleanKeeps ==
  ASSUME FileInv, NEW h \in Handlers, Files!Cleanup(h) \/ Files!Purge(h) \/ Files!Mark(h)
  PROVE  FileKept(h)
<1>0. /\ local[h] \in Files!Locals /\ local \in [Handlers -> Files!Locals]
      /\ pc \in [Handlers -> Files!Steps]
      /\ files \in [FileIds -> Files!Rows] /\ FileHeldSound(h)
      /\ local[h].id \in FileIds => ~FileGone(local[h].id)
  BY DEF FileInv, Files!TypeOK, FileUnreached
<1>1. CASE Files!Cleanup(h)
  <2> DEFINE read == [Files!NoLocal EXCEPT !.list = Files!Due]
  <2>1. read \in Files!Locals /\ read.list = Files!Due /\ read.id = None /\ read.id \notin FileIds
    BY FileEmpty DEF Files!NoLocal, Files!Locals, Files!Due
  <2>2. Files!Goto(h, "purging") /\ Files!Hold(h, read) /\ UNCHANGED <<files, stored, urls>>
    BY <1>1 DEF Files!Cleanup, Files!Outside
  <2> HIDE DEF read
  <2>3. /\ pc' \in [Handlers -> Files!Steps] /\ local' \in [Handlers -> Files!Locals]
        /\ pc'[h] = "purging" /\ local'[h] = read
        /\ \A g \in Handlers \ {h} : pc'[g] = pc[g] /\ local'[g] = local[g]
    BY <2>1, <2>2, FileHoldTyped DEF Files!Steps
  <2>4. \A f \in local'[h].list : FileGone(f)'
    BY <2>1, <2>2, <2>3 DEF Files!Due, FileGone
  <2>5. FileHeldSound(h)' /\ FileInHand(h)'
    BY <2>3, <2>4 DEF FileHeldSound, FileFiling, FileInHand
  <2> QED
    BY <2>1, <2>2, <2>3, <2>5, FileReadKeeps
<1>2. CASE Files!Purge(h)
  <2>1. PICK gone \in SUBSET local[h].list :
          /\ stored' = stored \ gone
          /\ IF gone = local[h].list THEN Files!Goto(h, "marking") /\ UNCHANGED local ELSE Files!Return(h)
    BY <1>2 DEF Files!Purge
  <2>2. pc[h] = "purging" /\ files' = files /\ urls' = urls
    BY <1>2 DEF Files!Purge
  <2>3. \A f \in local[h].list : FileGone(f)
    BY <1>0, <2>2 DEF FileHeldSound
  <2>4. CASE gone = local[h].list
    <3>1. /\ pc' \in [Handlers -> Files!Steps] /\ pc'[h] = "marking" /\ local' = local
          /\ \A g \in Handlers \ {h} : pc'[g] = pc[g]
      BY <1>0, <2>1, <2>4 DEF Files!Goto, Files!Steps
    <3>2. FileHeldSound(h)' /\ FileInHand(h)'
      BY <2>1, <2>2, <2>3, <2>4, <3>1 DEF FileHeldSound, FileFiling, FileInHand, FileGone
    <3> QED
      BY <1>0, <2>1, <2>2, <2>3, <3>1, <3>2, FileReadKeeps
  <2>5. CASE Files!Return(h)
    BY <2>1, <2>2, <2>3, <2>5, FileReturns, FileReadKeeps
  <2> QED
    BY <2>1, <2>4, <2>5
<1>3. CASE Files!Mark(h)
  <2>1. /\ pc[h] = "marking" /\ Files!Return(h) /\ stored' = stored /\ urls' = urls
        /\ files' = [f \in FileIds |->
             IF f \in local[h].list THEN [files[f] EXCEPT !.s3Deleted = TRUE] ELSE files[f]]
    BY <1>3 DEF Files!Mark, Files!Outside
  <2>2. \A f \in local[h].list : FileGone(f) /\ f \notin stored
    BY <1>0, <2>1 DEF FileHeldSound
  <2>3. /\ files' \in [FileIds -> Files!Rows]
        /\ \A f \in FileIds : /\ files'[f].status = files[f].status
                              /\ files'[f].deletedAt = files[f].deletedAt
                              /\ files'[f].s3Deleted => files[f].s3Deleted \/ f \in local[h].list
    BY <1>0, <2>1 DEF Files!Rows
  <2>4. \A f \in FileIds : FileGone(f)' <=> FileGone(f)
    BY <2>3 DEF FileGone
  <2>5. \A f \in FileIds : FileRowSound(f)'
    BY <2>1, <2>2, <2>3, <2>4 DEF FileRowSound, FileInv, Files!Confirmed
  <2>8. \A f \in FileIds : ~FileGone(f) => files'[f] = files[f]
    BY <1>0, <2>1, <2>2
  <2>6. /\ pc' \in [Handlers -> Files!Steps] /\ local' \in [Handlers -> Files!Locals]
        /\ local'[h].id \notin FileIds /\ local'[h].id = None /\ pc'[h] = "idle"
        /\ \A g \in Handlers \ {h} : pc'[g] = pc[g] /\ local'[g] = local[g]
        /\ FileHeldSound(h)' /\ FileInHand(h)'
    BY <2>1, FileReturns
  <2>7. FileStays
    BY <2>3 DEF FileStays
  <2> QED
    BY <2>1, <2>3, <2>4, <2>5, <2>6, <2>7, <2>8 DEF FileKept, FileTyped, FileInv, Files!TypeOK
<1> QED
  BY <1>1, <1>2, <1>3

\* A step of any handler.
LEMMA FileHandlerKeeps ==
  ASSUME FileInv, NEW h \in Handlers, Files!HandlerStep(h)
  PROVE  FileKept(h)
<1>0. /\ local[h] \in Files!Locals /\ local \in [Handlers -> Files!Locals]
      /\ pc \in [Handlers -> Files!Steps]
      /\ FileHeldSound(h) /\ (local[h].id \in FileIds => ~FileGone(local[h].id))
  BY DEF FileInv, Files!TypeOK, FileUnreached
<1>1. ASSUME NEW f \in FileIds, Files!Create(h, f)
      PROVE  FileKept(h)
  <2> DEFINE read == [Files!NoLocal EXCEPT !.id = f, !.row.status = "pending"]
  <2>1. /\ read \in Files!Locals /\ read.id = f /\ read.row.status = "pending"
        /\ read.row.deletedAt = "null" /\ ~read.row.s3Deleted
    BY DEF Files!NoLocal, Files!Locals, Files!OrNone, Files!NoRow, Files!Rows
  <2>2. /\ Files!Goto(h, "creating") /\ Files!Hold(h, read)
        /\ UNCHANGED <<files, stored, urls>> /\ files[f] = Files!NoRow
    BY <1>1 DEF Files!Create, Files!Outside
  <2>5. \A g \in Handlers : local[g].id # read.id
    BY <1>1, <2>1 DEF Files!Create
  <2> HIDE DEF read
  <2>3. /\ pc' \in [Handlers -> Files!Steps] /\ local' \in [Handlers -> Files!Locals]
        /\ pc'[h] = "creating" /\ local'[h] = read
        /\ \A g \in Handlers \ {h} : pc'[g] = pc[g] /\ local'[g] = local[g]
    BY <2>1, <2>2, FileHoldTyped DEF Files!Steps
  <2>4. FileHeldSound(h)' /\ FileInHand(h)'
    BY <2>1, <2>2, <2>3 DEF FileHeldSound, FileFiling, FileInHand, Files!NoRow
  <2> QED
    BY <2>1, <2>2, <2>3, <2>4, <2>5, FileReadKeeps DEF FileGone, Files!NoRow
<1>2. ASSUME NEW f \in FileIds, Files!Confirm(h, f)
      PROVE  FileKept(h)
  <2> DEFINE row == [files[f] EXCEPT !.status = "confirmed"]
  <2>1. files[f] \in Files!Rows /\ files[f].deletedAt = "null" /\ ~files[f].s3Deleted
    BY <1>2 DEF Files!Confirm, FileInv, FileRowSound, FileGone, Files!TypeOK
  <2>2. /\ row \in Files!Rows /\ row.status = "confirmed" /\ row.deletedAt = "null"
        /\ ~row.s3Deleted
    BY <2>1 DEF Files!Rows
  <2>3. Files!Load(h, f, "checking", row, {})
    BY <1>2 DEF Files!Confirm
  <2> HIDE DEF row
  <2> QED
    BY <2>1, <2>2, <2>3, FileLoadKeeps
<1>3. ASSUME NEW f \in FileIds, Files!Delete(h, f)
      PROVE  FileKept(h)
  <2> DEFINE row == [files[f] EXCEPT !.status = "deleted", !.deletedAt = "today"]
  <2>1. files[f] \in Files!Rows /\ files[f].deletedAt = "null" /\ ~files[f].s3Deleted
    BY <1>3 DEF Files!Delete, FileInv, FileRowSound, FileGone, Files!TypeOK
  <2>2. /\ row \in Files!Rows /\ row.status = "deleted" /\ row.deletedAt = "today"
        /\ ~row.s3Deleted
    BY <2>1 DEF Files!Rows
  <2>3. Files!Load(h, f, "saving", row, {"deletedAt"}) /\ {"deletedAt"} \in SUBSET DOMAIN Files!NoRow
    BY <1>3 DEF Files!Delete, Files!NoRow
  <2> HIDE DEF row
  <2> QED
    BY <2>1, <2>2, <2>3, FileLoadKeeps
<1>4. CASE Files!CreateSave(h)
  <2>1. /\ pc[h] = "creating" /\ Files!Return(h) /\ stored' = stored
        /\ files' = [files EXCEPT ![local[h].id] = local[h].row]
        /\ urls' = urls \cup {local[h].id}
    BY <1>4 DEF Files!CreateSave
  <2>2. local[h].row \in Files!Rows /\ local[h].row.status = "pending" /\ local[h].row.deletedAt = "null"
        /\ ~local[h].row.s3Deleted
    BY <1>0, <2>1 DEF FileHeldSound, Files!Locals, FileFiling
  <2>3. files[local[h].id].status = "none"
    BY <2>1, FileEmpty DEF FileInv, FileNew
  <2> QED
    BY <2>1, <2>2, <2>3, FileWriteKeeps DEF FileFiling
<1>5. CASE Files!HeadObject(h)
  <2>1. /\ pc[h] = "checking" /\ UNCHANGED <<files, stored, urls>>
        /\ IF local[h].id \in stored THEN Files!Goto(h, "saving") /\ UNCHANGED local ELSE Files!Return(h)
    BY <1>5 DEF Files!HeadObject, Files!Outside
  <2>2. CASE local[h].id \in stored
    <3>1. /\ pc' \in [Handlers -> Files!Steps] /\ pc'[h] = "saving" /\ local' = local
          /\ \A g \in Handlers \ {h} : pc'[g] = pc[g]
      BY <1>0, <2>1, <2>2 DEF Files!Goto, Files!Steps
    <3>2. FileHeldSound(h)' /\ (FileInHand(h) => FileInHand(h)')
      BY <1>0, <2>1, <2>2, <3>1 DEF FileHeldSound, FileFiling, FileInHand, FileSaves
    <3> QED
      BY <1>0, <2>1, <3>1, <3>2, FileReadKeeps
  <2>3. CASE local[h].id \notin stored
    BY <2>1, <2>3, FileReturns, FileReadKeeps
  <2> QED
    BY <2>2, <2>3
<1>6. CASE Files!SaveSelect(h) \/ Files!Save(h)
  BY <1>6, FileSaveKeeps
<1>8. CASE Files!Cleanup(h) \/ Files!Purge(h) \/ Files!Mark(h)
  BY <1>8, FileCleanKeeps
<1>9. CASE Files!Crash(h)
  BY <1>9, FileReturns, FileReadKeeps DEF Files!Crash, Files!Outside
<1> QED
  BY <1>1, <1>2, <1>3, <1>4, <1>5, <1>6, <1>8, <1>9 DEF Files!HandlerStep

\* The client uploads, or a day passes.
LEMMA FileOutsideKeeps ==
  ASSUME FileInv, NEW f \in FileIds, Files!Upload(f) \/ Files!DayPasses(f)
  PROVE  /\ FileInv' /\ FileStays /\ (\A h \in Handlers : FileInHand(h) => FileInHand(h)')
         /\ UNCHANGED <<pc, overlapped>>
<1>0. /\ files \in [FileIds -> Files!Rows] /\ \A g \in FileIds : FileRowSound(g)
  BY DEF FileInv, Files!TypeOK
<1>1. CASE Files!Upload(f)
  <2>1. f \in urls /\ stored' = stored \cup {f} /\ UNCHANGED <<files, urls, pc, local, overlapped>>
    BY <1>1 DEF Files!Upload
  <2>2. ~FileGone(f)
    BY <2>1 DEF FileInv, FileRowSound
  <2>3. \A g \in FileIds : (FileGone(g)' <=> FileGone(g)) /\ FileRowSound(g)'
    BY <2>1, <2>2 DEF FileRowSound, FileGone, FileInv, Files!Confirmed
  <2>4. \A h \in Handlers : FileHeldSound(h)'
    BY <2>1, <2>2 DEF FileHeldSound, FileSaves, FileInv, FileGone
  <2> QED
    BY <2>1, <2>3, <2>4
       DEF FileInv, Files!TypeOK, FileUnreached, FileNew, FileStays, FileInHand, FileGone
<1>2. CASE Files!DayPasses(f)
  <2>1. /\ files[f].deletedAt = "today" /\ files' = [files EXCEPT ![f].deletedAt = "before"]
        /\ urls' = urls \ {f} /\ UNCHANGED <<stored, pc, local, overlapped>>
        /\ \A h \in Handlers : local[h].id # f
    BY <1>2 DEF Files!DayPasses
  <2>2. /\ files' \in [FileIds -> Files!Rows]
        /\ \A g \in FileIds : /\ files'[g].status = files[g].status
                              /\ files'[g].s3Deleted = files[g].s3Deleted
                              /\ files'[g].deletedAt = IF g = f THEN "before" ELSE files[g].deletedAt
    BY <1>0, <2>1 DEF Files!Rows
  <2>3. \A g \in FileIds : FileGone(g)' <=> (FileGone(g) \/ g = f)
    BY <2>2 DEF FileGone
  <2>4. \A g \in FileIds : FileRowSound(g)'
    BY <1>0, <2>1, <2>2, <2>3 DEF FileRowSound, FileGone, Files!Confirmed
  <2>5. FileUnreached' /\ FileNew'
    BY <2>1, <2>3 DEF FileUnreached, FileNew, FileInv
  <2>6. \A h \in Handlers : local[h].list \subseteq FileIds
    BY DEF FileInv, Files!TypeOK, Files!Locals
  <2>7. \A h \in Handlers : FileHeldSound(h)'
    BY <2>1, <2>2, <2>3, <2>6 DEF FileHeldSound, FileSaves, FileFiling, FileInv
  <2>8. \A h \in Handlers : FileInHand(h) => FileInHand(h)'
    <3> SUFFICES ASSUME NEW h \in Handlers, pc[h] \in FileFiling, files[local[h].id].deletedAt = "null"
                 PROVE  files'[local[h].id].deletedAt = "null"
      BY <2>1 DEF FileInHand
    <3>1. local[h].id \in FileIds /\ local[h].id # f
      BY <2>1 DEF FileInv, FileHeldSound
    <3> QED
      BY <2>2, <3>1
  <2> QED
    BY <2>1, <2>2, <2>4, <2>5, <2>7, <2>8 DEF FileInv, Files!TypeOK, FileStays
<1> QED
  BY <1>1, <1>2

\* Every step keeps the invariant, and does what is said of every step.
LEMMA FileStepHolds == FileInv /\ FileSoloInv /\ [Files!Next]_(Files!vars) =>
                         FileInv' /\ FileSoloInv' /\ Files!DeletionKept
<1> SUFFICES ASSUME FileInv, FileSoloInv, [Files!Next]_(Files!vars)
             PROVE  FileInv' /\ FileSoloInv' /\ Files!DeletionKept
  OBVIOUS
<1>1. CASE UNCHANGED Files!vars
  <2>1. /\ \A h \in Handlers :
             (FileInHand(h)' <=> FileInHand(h)) /\ (FileHeldSound(h)' <=> FileHeldSound(h))
        /\ \A f \in FileIds : FileRowSound(f)' <=> FileRowSound(f)
        /\ (FileUnreached' <=> FileUnreached) /\ (FileNew' <=> FileNew)
    BY <1>1 DEF Files!vars, FileInHand, FileHeldSound, FileSaves, FileRowSound, FileUnreached, FileNew,
       FileGone, Files!Confirmed
  <2>2. Files!DeletionKept
    BY <1>1 DEF Files!vars, Files!DeletionKept
  <2> QED
    BY <1>1, <2>1, <2>2 DEF Files!vars, Files!TypeOK, FileInv, FileSoloInv, Alone, Files!InFlight
<1>2. ASSUME NEW h \in Handlers, Files!HandlerStep(h), Files!Overlap(h)
      PROVE  FileInv' /\ FileSoloInv' /\ Files!DeletionKept
  <2>1. FileKept(h)
    BY <1>2, FileHandlerKeeps
  <2>2. FileInv'
    <3>1. ASSUME NEW g \in Handlers \ {h}
          PROVE  FileHeldSound(g)'
      <4>1. /\ FileHeldSound(g) /\ pc'[g] = pc[g] /\ local'[g] = local[g]
            /\ local[g].list \subseteq FileIds
            /\ local[g].id \in FileIds => ~FileGone(local[g].id)
        BY <2>1 DEF FileKept, FileInv, Files!TypeOK, FileUnreached, Files!Locals
      <4>2. /\ \A f \in FileIds : FileGone(f)' <=> FileGone(f)
            /\ \A f \in stored : f \in stored' \/ FileGone(f)
            /\ stored' \subseteq stored
            /\ \A f \in FileIds : files[f].status \notin {"none", "pending"} =>
                                    files'[f].status \notin {"none", "pending"}
        BY <2>1 DEF FileKept
      <4> QED
        BY <4>1, <4>2 DEF FileHeldSound, FileSaves, FileFiling
    <3>2. overlapped' \in BOOLEAN
      BY <1>2 DEF Files!Overlap, FileInv, Files!TypeOK
    <3>3. FileUnreached'
      BY <2>1 DEF FileKept, FileUnreached, FileInv
    <3>4. ASSUME NEW g \in Handlers, pc'[g] = "creating"
          PROVE  /\ files'[local'[g].id] = Files!NoRow
                 /\ \A k \in Handlers \ {g} : local'[k].id # local'[g].id
      <4>1. CASE g = h
        BY <2>1, <3>4, <4>1 DEF FileKept
      <4>2. CASE g # h
        <5>1. /\ pc[g] = "creating" /\ local'[g] = local[g] /\ local[g].id \in FileIds
              /\ files[local[g].id] = Files!NoRow
              /\ \A k \in Handlers \ {g} : local[k].id # local[g].id
          BY <2>1, <3>4, <4>2 DEF FileKept, FileInv, FileNew, FileHeldSound, FileFiling
        <5>2. ~FileGone(local[g].id) /\ None \notin FileIds
          BY <5>1, FileEmpty DEF FileGone
        <5>3. files'[local[g].id] = Files!NoRow
          BY <2>1, <4>2, <5>1, <5>2 DEF FileKept
        <5>4. local'[h].id # local[g].id
          BY <2>1, <4>2, <5>1, <5>2 DEF FileKept
        <5> QED
          BY <2>1, <4>2, <5>1, <5>3, <5>4 DEF FileKept
      <4> QED
        BY <4>1, <4>2
    <3>5. FileNew'
      BY <3>4 DEF FileNew
    <3> QED
      BY <2>1, <3>1, <3>2, <3>3, <3>5 DEF FileKept, FileTyped, FileInv, Files!TypeOK
  <2>3. ASSUME ~overlapped'
        PROVE  Alone' /\ (\A g \in Handlers : FileInHand(g)') /\ FileStays
    <3>1. ~overlapped /\ \A g \in Handlers \ {h} : pc[g] = "idle" /\ pc'[g] = "idle"
      BY <1>2, <2>1, <2>3 DEF Files!Overlap, Files!InFlight, FileKept
    <3>2. \A g \in Handlers \ {h} : FileInHand(g)'
      BY <3>1 DEF FileInHand, FileFiling
    <3>3. Alone'
      BY <3>1 DEF Alone, Files!InFlight
    <3> QED
      BY <2>1, <3>1, <3>2, <3>3 DEF FileKept, FileSoloInv
  <2> QED
    BY <2>2, <2>3 DEF FileSoloInv, Alone, Files!DeletionKept, FileStays
<1>3. ASSUME NEW f \in FileIds, Files!Upload(f) \/ Files!DayPasses(f)
      PROVE  FileInv' /\ FileSoloInv' /\ Files!DeletionKept
  BY <1>3, FileOutsideKeeps DEF FileSoloInv, Alone, Files!InFlight, Files!DeletionKept, FileStays
<1> QED
  BY <1>1, <1>2, <1>3 DEF Files!Next

\* The invariant is enough.
LEMMA FilePromised == FileInv => Files!TypeOK /\ Files!StorageInStep
  BY DEF FileInv, FileRowSound, Files!StorageInStep

-----------------------------------------------------------------------------
(***************************************************************************)
(* field visits. A visit, its task and the link are written one after the  *)
(* other: every task is linked but the one whose handler is about to do    *)
(* so, and those whose handler ended before it did.                        *)
(***************************************************************************)
\* What is assumed of the constants.
LEMMA VisitGiven == FieldVisits!VisitsAssumption
  BY RecordsAssumption

\* Handlers that have a visit in hand.
VisitVisiting == {"writing", "linking", "saving", "updating"}

\* A new visit of a day.
VisitArrival(d) == [FieldVisits!NoVisit EXCEPT !.day = d, !.open = TRUE]

\* What a handler carries, however handlers interleave.
VisitHeldSound(h) ==
  /\ pc[h] \in VisitVisiting => local[h].id \in VisitIds /\ visits[local[h].id].day # None
  /\ pc[h] \in {"saving", "updating"} =>
       local[h].row.day # None /\ (local[h].row.linked => local[h].id \in journals)
  /\ pc[h] = "linking" => local[h].id \in journals
  /\ pc[h] = "arriving" => \E d \in Days : local[h].row = VisitArrival(d)

\* A row that is not there is empty, and a visit is linked to a task of its own.
VisitSound ==
  /\ \A v \in VisitIds : FieldVisits!Present(v) \/ visits[v] = FieldVisits!NoVisit
  /\ \A v \in VisitIds : visits[v].linked => v \in journals
  /\ \A v \in orphans : FieldVisits!Present(v)

\* As long as handlers do not overlap, what is in hand is in the table, but for what
\* will be saved.
VisitInHand(h) ==
  /\ pc[h] = "arriving" =>
       \A v \in VisitIds : ~(visits[v].day = local[h].row.day /\ visits[v].open)
  /\ pc[h] \in VisitVisiting => visits[local[h].id].open
  /\ pc[h] \in {"writing", "linking"} =>
       ~visits[local[h].id].linked /\ local[h].id \notin orphans
  /\ pc[h] \in {"saving", "updating"} =>
       /\ local[h].row.day = visits[local[h].id].day
       /\ local[h].row.linked = visits[local[h].id].linked
       /\ local[h].row.events \in {visits[local[h].id].events, visits[local[h].id].events + 1}

\* One visit of a day is open at most.
VisitOne == \A v, w \in VisitIds :
  visits[v].open /\ visits[w].open /\ visits[v].day = visits[w].day => v = w

\* Every task is linked to its visit, but the one a handler has just saved and those
\* that stay without.
VisitLinking(h, v) == pc[h] = "linking" /\ local[h].id = v
VisitLinked(v) == visits[v].linked <=> v \notin orphans
\* Every task is linked, but one that h is about to.
VisitLinkedBut(h) == \A v \in journals : VisitLinked(v) \/ VisitLinking(h, v)
\* Every task is linked, or some handler is about to.
VisitLinkedUp == \A v \in journals : VisitLinked(v) \/ \E h \in Handlers : VisitLinking(h, v)

\* A visit that is over stays as it is, and events are added one by one.
VisitOver == \A v \in VisitIds :
  /\ FieldVisits!Present(v) /\ ~visits[v].open => visits'[v] = visits[v]
  /\ visits'[v].events \in {visits[v].events, visits[v].events + 1}

\* What holds however handlers interleave.
VisitInv == FieldVisits!TypeOK /\ VisitSound /\ \A h \in Handlers : VisitHeldSound(h)
\* What holds as long as they do not overlap.
VisitSoloInv == /\ Alone
                /\ (~overlapped => VisitOne /\ VisitLinkedUp /\ \A h \in Handlers : VisitInHand(h))

\* Types of the state.
VisitTyped ==
  /\ visits \in [VisitIds -> FieldVisits!Rows] /\ journals \subseteq VisitIds
  /\ orphans \subseteq VisitIds
  /\ pc \in [Handlers -> FieldVisits!Steps] /\ local \in [Handlers -> FieldVisits!Locals]

\* What a step of h does: it keeps the invariant, as long as h is alone all of
\* it.
VisitKept(h) ==
  /\ VisitTyped' /\ VisitSound' /\ VisitHeldSound(h)'
  /\ journals \subseteq journals'
  /\ \A v \in VisitIds : FieldVisits!Present(v) => FieldVisits!Present(v)'
  /\ \A g \in Handlers \ {h} : pc'[g] = pc[g] /\ local'[g] = local[g]
  /\ VisitOne /\ VisitInHand(h) /\ VisitLinkedBut(h) =>
       VisitOne' /\ VisitInHand(h)' /\ VisitLinkedBut(h)' /\ VisitOver

\* What is held at rest, and in a row that is not there, is typed.
LEMMA VisitEmpty == /\ FieldVisits!NoLocal \in FieldVisits!Locals
                    /\ FieldVisits!NoVisit \in FieldVisits!Rows
                    /\ FieldVisits!NoVisit.day = None /\ ~FieldVisits!NoVisit.linked
                    /\ FieldVisits!NoVisit.events = 0
  BY VisitGiven DEF FieldVisits!NoLocal, FieldVisits!NoVisit, FieldVisits!Locals, FieldVisits!Rows,
     FieldVisits!OrNone, FieldVisits!VisitsAssumption

\* A new visit is typed, and open.
LEMMA VisitArrives ==
  ASSUME NEW d \in Days
  PROVE  /\ VisitArrival(d) \in FieldVisits!Rows /\ VisitArrival(d).day = d /\ VisitArrival(d).open
         /\ VisitArrival(d).events = 0 /\ ~VisitArrival(d).linked /\ d # None
<1>1. 0 \in 0 .. MaxEvents /\ d \in FieldVisits!OrNone(Days) /\ d # None
  BY VisitGiven DEF FieldVisits!VisitsAssumption, FieldVisits!OrNone
<1>2. VisitArrival(d) \in FieldVisits!Rows
  BY <1>1 DEF FieldVisits!NoVisit, VisitArrival, FieldVisits!Rows
<1> QED
  BY <1>1, <1>2 DEF FieldVisits!NoVisit, VisitArrival

\* The initial states have the invariant.
LEMMA VisitInitHolds == FieldVisits!Init => VisitInv /\ VisitSoloInv
<1> SUFFICES ASSUME FieldVisits!Init PROVE VisitInv /\ VisitSoloInv
  OBVIOUS
<1>1. overlapped = FALSE /\ \A h \in Handlers : pc[h] = "idle"
  BY DEF FieldVisits!Init, FieldVisits!AllIdle
<1>2. overlapped \in BOOLEAN
  BY <1>1, Zenon
<1>3. FieldVisits!TypeOK
  BY <1>2, VisitEmpty DEF FieldVisits!Init, FieldVisits!AllIdle, FieldVisits!TypeOK,
     FieldVisits!Steps
<1>4. VisitSound /\ VisitOne /\ VisitLinkedUp
  BY DEF FieldVisits!Init, VisitSound, VisitOne, VisitLinkedUp, FieldVisits!NoVisit
<1> QED
  BY <1>1, <1>3, <1>4 DEF VisitInv, VisitSoloInv, Alone, FieldVisits!InFlight, VisitInHand,
     VisitHeldSound, VisitVisiting

\* Nothing but the handler's own place changes.
LEMMA VisitReadKeeps ==
  ASSUME VisitInv, NEW h \in Handlers, UNCHANGED <<visits, journals, orphans>>,
         pc' \in [Handlers -> FieldVisits!Steps], local' \in [Handlers -> FieldVisits!Locals],
         \A g \in Handlers \ {h} : pc'[g] = pc[g] /\ local'[g] = local[g],
         VisitHeldSound(h)', VisitInHand(h) => VisitInHand(h)', ~(pc[h] = "linking")
  PROVE  VisitKept(h)
<1>1. VisitTyped' /\ VisitSound'
  BY DEF VisitInv, FieldVisits!TypeOK, VisitTyped, VisitSound, FieldVisits!Present
<1>2. VisitOne => VisitOne'
  BY DEF VisitOne
<1>3. VisitLinkedBut(h) => VisitLinkedBut(h)'
  BY DEF VisitLinkedBut, VisitLinking, VisitLinked
<1>4. VisitOver
  BY DEF VisitOver
<1> QED
  BY <1>1, <1>2, <1>3, <1>4 DEF VisitKept, FieldVisits!Present

\* A handler that goes on holds what it has read.
LEMMA VisitHoldTyped ==
  ASSUME VisitInv, NEW h \in Handlers, NEW step \in FieldVisits!Steps,
         NEW read \in FieldVisits!Locals, FieldVisits!Goto(h, step), FieldVisits!Hold(h, read)
  PROVE  /\ pc' \in [Handlers -> FieldVisits!Steps] /\ local' \in [Handlers -> FieldVisits!Locals]
         /\ pc'[h] = step /\ local'[h] = read
         /\ \A g \in Handlers \ {h} : pc'[g] = pc[g] /\ local'[g] = local[g]
  BY DEF VisitInv, FieldVisits!TypeOK, FieldVisits!Goto, FieldVisits!Hold

\* An open visit is taken in hand.
LEMMA VisitLoadKeeps ==
  ASSUME VisitInv, NEW h \in Handlers, NEW v \in VisitIds, NEW row \in FieldVisits!Rows,
         NEW cols \in SUBSET DOMAIN FieldVisits!NoVisit, FieldVisits!Load(h, v, row, cols),
         row.day = visits[v].day, row.linked = visits[v].linked,
         row.events \in {visits[v].events, visits[v].events + 1}
  PROVE  VisitKept(h)
<1> DEFINE read == [id |-> v, row |-> row, cols |-> cols]
<1>1. read \in FieldVisits!Locals /\ read.id = v /\ read.row = row
  BY DEF FieldVisits!Locals, FieldVisits!OrNone
<1>2. /\ FieldVisits!Goto(h, "saving") /\ FieldVisits!Hold(h, read)
      /\ UNCHANGED <<visits, journals, orphans>> /\ pc[h] = "idle"
      /\ visits[v].day # None /\ visits[v].open
  BY DEF FieldVisits!Load, FieldVisits!Present, FieldVisits!JournalsStay
<1> HIDE DEF read
<1>3. /\ pc' \in [Handlers -> FieldVisits!Steps] /\ local' \in [Handlers -> FieldVisits!Locals]
      /\ pc'[h] = "saving" /\ local'[h] = read
      /\ \A g \in Handlers \ {h} : pc'[g] = pc[g] /\ local'[g] = local[g]
  BY <1>1, <1>2, VisitHoldTyped DEF FieldVisits!Steps
<1>4. VisitHeldSound(h)'
  BY <1>1, <1>2, <1>3 DEF VisitHeldSound, VisitVisiting, VisitInv, VisitSound
<1>5. VisitInHand(h)'
  BY <1>1, <1>2, <1>3 DEF VisitInHand, VisitVisiting
<1> QED
  BY <1>2, <1>3, <1>4, <1>5, VisitReadKeeps

\* What an UPDATE makes of a row: each column is the old one or that in hand.
LEMMA VisitMerge ==
  ASSUME NEW row \in FieldVisits!Rows, NEW entity \in FieldVisits!Rows, NEW cols
  PROVE  LET new == FieldVisits!Merged(row, entity, cols) IN
         /\ new \in FieldVisits!Rows
         /\ FieldVisits!Differing(row, entity) \in SUBSET DOMAIN FieldVisits!NoVisit
         /\ new.day \in {row.day, entity.day} /\ new.linked \in {row.linked, entity.linked}
         /\ new.events \in {row.events, entity.events}
<1>1. DOMAIN row = {"day", "open", "events", "linked"}
  BY DEF FieldVisits!Rows
<1>2. FieldVisits!Differing(row, entity) \in SUBSET DOMAIN FieldVisits!NoVisit
  BY <1>1 DEF FieldVisits!NoVisit, FieldVisits!Differing
<1> DEFINE of(c) == IF c \in cols THEN entity[c] ELSE row[c]
           new == [c \in {"day", "open", "events", "linked"} |-> of(c)]
<1>3. /\ new.day = of("day") /\ new.open = of("open") /\ new.events = of("events")
      /\ new.linked = of("linked")
  OBVIOUS
<1>4. new = [day |-> of("day"), open |-> of("open"), events |-> of("events"),
             linked |-> of("linked")]
  OBVIOUS
<1>5. /\ of("day") \in {row.day, entity.day} /\ of("open") \in {row.open, entity.open}
      /\ of("events") \in {row.events, entity.events}
      /\ of("linked") \in {row.linked, entity.linked}
  OBVIOUS
<1>6. new = FieldVisits!Merged(row, entity, cols)
  BY <1>1 DEF FieldVisits!Merged
<1> HIDE DEF of, new
<1>7. new \in FieldVisits!Rows
  BY <1>4, <1>5 DEF FieldVisits!Rows
<1> QED
  BY <1>2, <1>3, <1>5, <1>6, <1>7

\* The two statements of a save.
LEMMA VisitSaveKeeps ==
  ASSUME VisitInv, NEW h \in Handlers, FieldVisits!SaveSelect(h) \/ FieldVisits!Save(h)
  PROVE  VisitKept(h)
<1> DEFINE id == local[h].id
<1>0. /\ visits \in [VisitIds -> FieldVisits!Rows] /\ VisitHeldSound(h)
      /\ pc[h] \in {"saving", "updating"} /\ id \in VisitIds /\ visits[id].day # None
      /\ visits[id] \in FieldVisits!Rows
      /\ local[h] \in FieldVisits!Locals /\ local[h].row \in FieldVisits!Rows
      /\ local \in [Handlers -> FieldVisits!Locals] /\ pc \in [Handlers -> FieldVisits!Steps]
  BY DEF VisitInv, FieldVisits!TypeOK, VisitHeldSound, VisitVisiting, FieldVisits!SaveSelect,
     FieldVisits!Save, FieldVisits!Compare, FieldVisits!Locals
<1>1. CASE FieldVisits!SaveSelect(h)
  <2> DEFINE cols == local[h].cols \cup FieldVisits!Differing(visits[id], local[h].row)
             held == [local[h] EXCEPT !.cols = cols]
  <2>1. /\ pc[h] = "saving" /\ UNCHANGED <<visits, journals, orphans>>
        /\ FieldVisits!Goto(h, "updating") /\ local' = [local EXCEPT ![h] = held]
    BY <1>0, <1>1 DEF FieldVisits!SaveSelect, FieldVisits!Compare, FieldVisits!Hold,
       FieldVisits!JournalsStay
  <2>2. cols \in SUBSET DOMAIN FieldVisits!NoVisit
    BY <1>0, VisitMerge DEF FieldVisits!Locals
  <2> HIDE DEF cols
  <2>3. held \in FieldVisits!Locals /\ held.id = id /\ held.row = local[h].row
    <3> DEFINE Columns == SUBSET DOMAIN FieldVisits!NoVisit
    <3>1. /\ local[h] \in [id : FieldVisits!OrNone(VisitIds), row : FieldVisits!Rows, cols : Columns]
          /\ cols \in Columns
      BY <1>0, <2>2 DEF FieldVisits!Locals
    <3> HIDE DEF Columns
    <3>2. /\ held \in [id : FieldVisits!OrNone(VisitIds), row : FieldVisits!Rows, cols : Columns]
          /\ held.id = id /\ held.row = local[h].row
      BY <3>1
    <3> QED
      BY <3>2 DEF Columns, FieldVisits!Locals
  <2> HIDE DEF held
  <2>4. /\ pc' \in [Handlers -> FieldVisits!Steps] /\ local' \in [Handlers -> FieldVisits!Locals]
        /\ pc'[h] = "updating" /\ local'[h] = held
        /\ \A g \in Handlers \ {h} : pc'[g] = pc[g] /\ local'[g] = local[g]
    BY <2>1, <2>3, VisitHoldTyped DEF FieldVisits!Hold, FieldVisits!Steps
  <2>5. VisitHeldSound(h)' /\ (VisitInHand(h) => VisitInHand(h)')
    BY <1>0, <2>1, <2>3, <2>4 DEF VisitHeldSound, VisitVisiting, VisitInHand
  <2> QED
    BY <2>1, <2>4, <2>5, VisitReadKeeps
<1>2. CASE FieldVisits!Save(h)
  <2> DEFINE row == FieldVisits!Merged(visits[id], local[h].row, local[h].cols)
  <2>1. /\ visits' = [visits EXCEPT ![id] = row] /\ journals' = journals /\ orphans' = orphans
        /\ FieldVisits!Goto(h, "idle") /\ FieldVisits!Hold(h, FieldVisits!NoLocal)
    BY <1>0, <1>2 DEF FieldVisits!Save, FieldVisits!Return, FieldVisits!JournalsStay
  <2>2. /\ row \in FieldVisits!Rows
        /\ row.day \in {visits[id].day, local[h].row.day}
        /\ row.linked \in {visits[id].linked, local[h].row.linked}
        /\ row.events \in {visits[id].events, local[h].row.events}
    BY <1>0, VisitMerge
  <2> HIDE DEF row
  <2>3. /\ pc' \in [Handlers -> FieldVisits!Steps] /\ local' \in [Handlers -> FieldVisits!Locals]
        /\ pc'[h] = "idle"
        /\ \A g \in Handlers \ {h} : pc'[g] = pc[g] /\ local'[g] = local[g]
    BY <2>1, VisitEmpty, VisitHoldTyped DEF FieldVisits!Steps
  <2>4. row.day # None /\ (row.linked => id \in journals)
    BY <1>0, <2>2 DEF VisitInv, VisitSound, VisitHeldSound
  <2>5. VisitInHand(h) => /\ visits[id].open /\ row.day = visits[id].day
                          /\ row.linked = visits[id].linked
                          /\ row.events \in {visits[id].events, visits[id].events + 1}
    BY <1>0, <2>2 DEF VisitInHand, VisitVisiting
  <2>6. VisitLinkedBut(h) => \A v \in journals : v \in VisitIds /\ VisitLinked(v)
    BY <1>0 DEF VisitLinkedBut, VisitLinking, VisitInv, FieldVisits!TypeOK
  <2> HIDE DEF id
  <2>7. /\ visits' \in [VisitIds -> FieldVisits!Rows]
        /\ visits'[id] = row /\ \A v \in VisitIds : v # id => visits'[v] = visits[v]
    BY <1>0, <2>1, <2>2
  <2>8. VisitSound'
    BY <1>0, <2>1, <2>4, <2>7 DEF VisitInv, VisitSound, FieldVisits!Present, FieldVisits!TypeOK
  <2>9. VisitHeldSound(h)' /\ VisitInHand(h)'
    BY <2>3 DEF VisitHeldSound, VisitInHand, VisitVisiting
  <2>10. ASSUME VisitInHand(h)
         PROVE  (VisitOne => VisitOne') /\ (VisitLinkedBut(h) => VisitLinkedBut(h)') /\ VisitOver
    <3>1. \A v \in VisitIds : /\ visits'[v].open => visits[v].open
                              /\ visits'[v].day = visits[v].day
                              /\ visits'[v].linked = visits[v].linked
                              /\ visits'[v].events \in {visits[v].events, visits[v].events + 1}
      BY <2>5, <2>7, <2>10
    <3>2. VisitOne => VisitOne'
      BY <3>1 DEF VisitOne
    <3>3. VisitLinkedBut(h) => VisitLinkedBut(h)'
      BY <2>1, <2>6, <3>1 DEF VisitLinkedBut, VisitLinked
    <3>4. VisitOver
      BY <2>5, <2>7, <2>10, <3>1 DEF VisitOver
    <3> QED
      BY <3>2, <3>3, <3>4
  <2> QED
    BY <1>0, <2>1, <2>3, <2>4, <2>7, <2>8, <2>9, <2>10 DEF VisitKept, VisitTyped, VisitInv,
       FieldVisits!TypeOK, FieldVisits!Present
<1> QED
  BY <1>1, <1>2

\* A handler that ends early.
LEMMA VisitCrashKeeps ==
  ASSUME VisitInv, NEW h \in Handlers, FieldVisits!Crash(h)
  PROVE  VisitKept(h)
<1>1. /\ visits' = visits /\ journals' = journals
      /\ orphans' = IF pc[h] = "linking" THEN orphans \cup {local[h].id} ELSE orphans
      /\ FieldVisits!Goto(h, "idle") /\ FieldVisits!Hold(h, FieldVisits!NoLocal)
  BY DEF FieldVisits!Crash, FieldVisits!Return
<1>2. /\ pc' \in [Handlers -> FieldVisits!Steps] /\ local' \in [Handlers -> FieldVisits!Locals]
      /\ pc'[h] = "idle"
      /\ \A g \in Handlers \ {h} : pc'[g] = pc[g] /\ local'[g] = local[g]
  BY <1>1, VisitEmpty, VisitHoldTyped DEF FieldVisits!Steps
<1>3. \A v \in orphans' : v \in VisitIds /\ FieldVisits!Present(v)
  BY <1>1 DEF VisitInv, VisitSound, VisitHeldSound, VisitVisiting, FieldVisits!TypeOK,
     FieldVisits!Present
<1>4. VisitTyped' /\ VisitSound'
  BY <1>1, <1>2, <1>3 DEF VisitTyped, VisitInv, VisitSound, FieldVisits!TypeOK, FieldVisits!Present
<1>5. VisitHeldSound(h)' /\ VisitInHand(h)'
  BY <1>2 DEF VisitHeldSound, VisitInHand, VisitVisiting
<1>6. VisitInHand(h) /\ VisitLinkedBut(h) => VisitLinkedBut(h)'
  <2> SUFFICES ASSUME VisitInHand(h), VisitLinkedBut(h), NEW v \in journals
               PROVE  VisitLinked(v)'
    BY <1>1 DEF VisitLinkedBut
  <2>1. CASE VisitLinking(h, v)
    BY <1>1, <2>1 DEF VisitLinking, VisitInHand, VisitLinked
  <2>2. CASE ~VisitLinking(h, v)
    BY <1>1, <2>2 DEF VisitLinking, VisitLinkedBut, VisitLinked
  <2> QED
    BY <2>1, <2>2
<1>7. VisitOver /\ (VisitOne => VisitOne')
  BY <1>1 DEF VisitOver, VisitOne
<1> QED
  BY <1>1, <1>2, <1>4, <1>5, <1>6, <1>7 DEF VisitKept, FieldVisits!Present

\* A new visit is saved.
LEMMA VisitCheckInSaveKeeps ==
  ASSUME VisitInv, NEW h \in Handlers, FieldVisits!CheckInSave(h)
  PROVE  VisitKept(h)
<1>0. /\ visits \in [VisitIds -> FieldVisits!Rows] /\ None \notin VisitIds \cup Days
      /\ MaxEvents \in Nat
      /\ journals \subseteq VisitIds
  BY VisitGiven DEF VisitInv, FieldVisits!TypeOK, FieldVisits!VisitsAssumption
<1>1. PICK v \in VisitIds :
        /\ ~FieldVisits!Present(v)
        /\ visits' = [visits EXCEPT ![v] = local[h].row]
        /\ \/ FieldVisits!Return(h)
           \/ FieldVisits!Goto(h, "writing") /\ FieldVisits!Hold(h, [FieldVisits!NoLocal EXCEPT !.id = v])
  BY DEF FieldVisits!CheckInSave
<1>2. pc[h] = "arriving" /\ journals' = journals /\ orphans' = orphans
  BY DEF FieldVisits!CheckInSave, FieldVisits!JournalsStay
<1>3. PICK d \in Days : local[h].row = VisitArrival(d)
  BY <1>2 DEF VisitInv, VisitHeldSound
<1> DEFINE row == local[h].row
<1>4. /\ row \in FieldVisits!Rows /\ row.day = d /\ row.day # None /\ row.open
      /\ row.events = 0 /\ ~row.linked
  BY <1>3, VisitArrives
<1> HIDE DEF row
<1>5. /\ visits' \in [VisitIds -> FieldVisits!Rows] /\ visits'[v] = row
      /\ \A w \in VisitIds : w # v => visits'[w] = visits[w]
  BY <1>0, <1>1, <1>4 DEF row
<1>6. visits[v] = FieldVisits!NoVisit /\ v \notin orphans
  BY <1>1 DEF VisitInv, VisitSound
<1> DEFINE read == [FieldVisits!NoLocal EXCEPT !.id = v]
<1>7. read \in FieldVisits!Locals /\ read.id = v
  BY VisitEmpty DEF FieldVisits!NoLocal, FieldVisits!Locals, FieldVisits!OrNone
<1> HIDE DEF read
<1>8. /\ pc' \in [Handlers -> FieldVisits!Steps] /\ local' \in [Handlers -> FieldVisits!Locals]
      /\ \/ pc'[h] = "idle"
         \/ pc'[h] = "writing" /\ local'[h].id = v
      /\ \A g \in Handlers \ {h} : pc'[g] = pc[g] /\ local'[g] = local[g]
  <2>1. CASE FieldVisits!Return(h)
    BY <2>1, VisitEmpty, VisitHoldTyped DEF FieldVisits!Steps, FieldVisits!Return
  <2>2. CASE FieldVisits!Goto(h, "writing") /\ FieldVisits!Hold(h, read)
    BY <2>2, <1>7, VisitHoldTyped DEF FieldVisits!Steps
  <2> QED
    BY <1>1, <2>1, <2>2 DEF read
<1>9. VisitSound'
  BY <1>2, <1>4, <1>5 DEF VisitInv, VisitSound, FieldVisits!Present, FieldVisits!TypeOK
<1>10. VisitHeldSound(h)' /\ VisitInHand(h)'
  BY <1>2, <1>4, <1>5, <1>6, <1>8 DEF VisitHeldSound, VisitInHand, VisitVisiting
<1>11. ASSUME VisitInHand(h), VisitOne
       PROVE  VisitOne'
  <2>1. \A w \in VisitIds : ~(visits[w].day = row.day /\ visits[w].open)
    BY <1>2, <1>11 DEF VisitInHand, row
  <2> QED
    BY <1>5, <1>11, <2>1 DEF VisitOne
<1>12. VisitLinkedBut(h) => VisitLinkedBut(h)'
  <2> SUFFICES ASSUME VisitLinkedBut(h), NEW w \in journals PROVE VisitLinked(w)'
    BY <1>2 DEF VisitLinkedBut
  <2>1. w \in VisitIds /\ VisitLinked(w)
    BY <1>0, <1>2 DEF VisitLinkedBut, VisitLinking
  <2>2. w # v
    BY <1>6, <2>1, VisitEmpty DEF VisitLinked
  <2> QED
    BY <1>2, <1>5, <2>1, <2>2 DEF VisitLinked
<1>13. VisitOver
  BY <1>0, <1>4, <1>5, <1>6 DEF VisitOver, FieldVisits!Present, FieldVisits!NoVisit
<1> QED
  BY <1>0, <1>2, <1>4, <1>5, <1>8, <1>9, <1>10, <1>11, <1>12, <1>13 DEF VisitKept, VisitTyped,
     FieldVisits!Present, VisitInv, FieldVisits!TypeOK

\* Its task is saved, and linked.
LEMMA VisitTaskKeeps ==
  ASSUME VisitInv, NEW h \in Handlers, FieldVisits!TaskSave(h) \/ FieldVisits!LinkUpdate(h)
  PROVE  VisitKept(h)
<1> DEFINE id == local[h].id
<1>0. /\ visits \in [VisitIds -> FieldVisits!Rows] /\ journals \subseteq VisitIds
      /\ orphans \subseteq VisitIds /\ orphans' = orphans
      /\ id \in VisitIds /\ visits[id].day # None
      /\ local \in [Handlers -> FieldVisits!Locals] /\ pc \in [Handlers -> FieldVisits!Steps]
  BY DEF VisitInv, FieldVisits!TypeOK, VisitHeldSound, VisitVisiting, FieldVisits!TaskSave,
     FieldVisits!LinkUpdate, FieldVisits!JournalsStay
<1>1. CASE FieldVisits!TaskSave(h)
  <2>1. /\ pc[h] = "writing" /\ journals' = journals \cup {id} /\ visits' = visits /\ local' = local
        /\ pc' \in [Handlers -> FieldVisits!Steps] /\ pc'[h] = "linking"
        /\ \A g \in Handlers \ {h} : pc'[g] = pc[g]
    BY <1>0, <1>1 DEF FieldVisits!TaskSave, FieldVisits!Goto, FieldVisits!Steps
  <2> HIDE DEF id
  <2>2. VisitTyped' /\ VisitSound'
    BY <1>0, <2>1 DEF VisitTyped, VisitSound, VisitInv, FieldVisits!Present
  <2>3. VisitHeldSound(h)'
    BY <1>0, <2>1 DEF VisitHeldSound, VisitVisiting, id
  <2>4. VisitInHand(h) => VisitInHand(h)'
    BY <1>0, <2>1 DEF VisitInHand, VisitVisiting
  <2>5. VisitLinkedBut(h) => VisitLinkedBut(h)'
    BY <1>0, <2>1 DEF VisitLinkedBut, VisitLinking, VisitLinked, id
  <2>6. VisitOver /\ (VisitOne => VisitOne')
    BY <2>1 DEF VisitOver, VisitOne
  <2> QED
    BY <2>1, <2>2, <2>3, <2>4, <2>5, <2>6 DEF VisitKept, FieldVisits!Present
<1>2. CASE FieldVisits!LinkUpdate(h)
  <2>1. /\ pc[h] = "linking" /\ journals' = journals
        /\ visits' = [visits EXCEPT ![id].linked = TRUE] /\ FieldVisits!Goto(h, "idle")
        /\ FieldVisits!Hold(h, FieldVisits!NoLocal)
    BY <1>2 DEF FieldVisits!LinkUpdate, FieldVisits!Return, FieldVisits!JournalsStay
  <2>2. id \in journals
    BY <2>1 DEF VisitInv, VisitHeldSound
  <2>3. /\ pc' \in [Handlers -> FieldVisits!Steps]
        /\ local' \in [Handlers -> FieldVisits!Locals] /\ pc'[h] = "idle"
        /\ \A g \in Handlers \ {h} : pc'[g] = pc[g] /\ local'[g] = local[g]
    BY <2>1, VisitEmpty, VisitHoldTyped DEF FieldVisits!Steps
  <2>10. VisitInHand(h) => visits[id].open /\ id \notin orphans
    BY <2>1 DEF VisitInHand, VisitVisiting
  <2>11. VisitLinkedBut(h) => \A v \in journals : VisitLinked(v) \/ v = id
    BY DEF VisitLinkedBut, VisitLinking
  <2> HIDE DEF id
  <2>4. /\ visits' \in [VisitIds -> FieldVisits!Rows]
        /\ \A v \in VisitIds : v # id => visits'[v] = visits[v]
        /\ visits'[id].linked /\ visits'[id].day = visits[id].day
        /\ visits'[id].open = visits[id].open
        /\ visits'[id].events = visits[id].events
    BY <1>0, <2>1 DEF FieldVisits!Rows
  <2>5. VisitSound'
    BY <1>0, <2>1, <2>2, <2>4 DEF VisitInv, VisitSound, FieldVisits!Present
  <2>6. VisitHeldSound(h)' /\ VisitInHand(h)'
    BY <2>3 DEF VisitHeldSound, VisitInHand, VisitVisiting
  <2>7. VisitOne => VisitOne'
    BY <2>4 DEF VisitOne
  <2>8. VisitInHand(h) /\ VisitLinkedBut(h) => VisitLinkedBut(h)'
    BY <1>0, <2>1, <2>4, <2>10, <2>11 DEF VisitLinkedBut, VisitLinked
  <2>9. VisitInHand(h) => VisitOver
    BY <2>4, <2>10 DEF VisitOver
  <2> QED
    BY <1>0, <2>1, <2>3, <2>4, <2>5, <2>6, <2>7, <2>8, <2>9 DEF VisitKept, VisitTyped,
       FieldVisits!Present
<1> QED
  BY <1>1, <1>2

\* A step of any handler.
LEMMA VisitHandlerKeeps ==
  ASSUME VisitInv, NEW h \in Handlers, FieldVisits!HandlerStep(h)
  PROVE  VisitKept(h)
<1>0. /\ local[h] \in FieldVisits!Locals /\ None \notin VisitIds \cup Days /\ MaxEvents \in Nat
  BY VisitGiven DEF VisitInv, FieldVisits!TypeOK, FieldVisits!VisitsAssumption
<1>1. ASSUME NEW d \in Days, FieldVisits!CheckIn(h, d)
      PROVE  VisitKept(h)
  <2> DEFINE row == VisitArrival(d)
             read == [FieldVisits!NoLocal EXCEPT !.row = row]
  <2>1. row \in FieldVisits!Rows /\ row.day = d
    BY VisitArrives
  <2>2. /\ pc[h] = "idle" /\ FieldVisits!Goto(h, "arriving") /\ FieldVisits!Hold(h, read)
        /\ UNCHANGED <<visits, journals, orphans>>
        /\ \A v \in VisitIds : ~(visits[v].day = d /\ visits[v].open)
    BY <1>1 DEF FieldVisits!CheckIn, VisitArrival, FieldVisits!JournalsStay
  <2>8. row = VisitArrival(d)
    OBVIOUS
  <2> HIDE DEF row
  <2>3. read \in FieldVisits!Locals /\ read.row = row
    BY <2>1 DEF FieldVisits!NoLocal, FieldVisits!Locals, FieldVisits!OrNone
  <2> HIDE DEF read
  <2>4. /\ pc' \in [Handlers -> FieldVisits!Steps] /\ local' \in [Handlers -> FieldVisits!Locals]
        /\ pc'[h] = "arriving" /\ local'[h] = read
        /\ \A g \in Handlers \ {h} : pc'[g] = pc[g] /\ local'[g] = local[g]
    BY <2>2, <2>3, VisitHoldTyped DEF FieldVisits!Steps
  <2>5. VisitHeldSound(h)' /\ VisitInHand(h)'
    BY <2>1, <2>2, <2>3, <2>4, <2>8 DEF VisitHeldSound, VisitInHand, VisitVisiting
  <2> QED
    BY <2>2, <2>4, <2>5, VisitReadKeeps
<1>2. CASE FieldVisits!CheckInSave(h)
  BY <1>2, VisitCheckInSaveKeeps
<1>3. CASE FieldVisits!TaskSave(h) \/ FieldVisits!LinkUpdate(h)
  BY <1>3, VisitTaskKeeps
<1>4. ASSUME NEW v \in VisitIds, FieldVisits!CheckOut(h, v) \/ FieldVisits!AddEvent(h, v)
      PROVE  VisitKept(h)
  <2>0. visits[v] \in FieldVisits!Rows
    BY DEF VisitInv, FieldVisits!TypeOK
  <2>c. /\ {"open"} \in SUBSET DOMAIN FieldVisits!NoVisit
        /\ {"events"} \in SUBSET DOMAIN FieldVisits!NoVisit
    BY DEF FieldVisits!NoVisit
  <2>1. CASE FieldVisits!CheckOut(h, v)
    <3> DEFINE row == [visits[v] EXCEPT !.open = FALSE]
    <3>1. /\ row \in FieldVisits!Rows /\ row.day = visits[v].day /\ row.linked = visits[v].linked
          /\ row.events = visits[v].events
      BY <2>0 DEF FieldVisits!Rows
    <3>2. FieldVisits!Load(h, v, row, {"open"})
      BY <2>1 DEF FieldVisits!CheckOut
    <3> HIDE DEF row
    <3> QED
      BY <2>c, <3>1, <3>2, VisitLoadKeeps
  <2>2. CASE FieldVisits!AddEvent(h, v)
    <3> DEFINE row == [visits[v] EXCEPT !.events = @ + 1]
    <3>1. FieldVisits!Load(h, v, row, {"events"}) /\ visits[v].events < MaxEvents
      BY <2>2 DEF FieldVisits!AddEvent
    <3>2. /\ row \in FieldVisits!Rows /\ row.day = visits[v].day /\ row.linked = visits[v].linked
          /\ row.events = visits[v].events + 1
      BY <1>0, <2>0, <3>1 DEF FieldVisits!Rows
    <3> HIDE DEF row
    <3> QED
      BY <2>c, <3>1, <3>2, VisitLoadKeeps
  <2> QED
    BY <1>4, <2>1, <2>2
<1>5. CASE FieldVisits!SaveSelect(h) \/ FieldVisits!Save(h)
  BY <1>5, VisitSaveKeeps
<1>6. CASE FieldVisits!Crash(h)
  BY <1>6, VisitCrashKeeps
<1> QED
  BY <1>1, <1>2, <1>3, <1>4, <1>5, <1>6 DEF FieldVisits!HandlerStep

\* Every step keeps the invariant, and does what is said of every step.
LEMMA VisitStepHolds == VisitInv /\ VisitSoloInv /\ [FieldVisits!Next]_(FieldVisits!vars) =>
                          VisitInv' /\ VisitSoloInv' /\ FieldVisits!VisitKept
<1> SUFFICES ASSUME VisitInv, VisitSoloInv, [FieldVisits!Next]_(FieldVisits!vars)
             PROVE  VisitInv' /\ VisitSoloInv' /\ FieldVisits!VisitKept
  OBVIOUS
<1>1. CASE UNCHANGED FieldVisits!vars
  <2>1. /\ (VisitOne' <=> VisitOne) /\ (VisitLinkedUp' <=> VisitLinkedUp)
        /\ (VisitSound' <=> VisitSound)
    BY <1>1 DEF FieldVisits!vars, VisitOne, VisitLinkedUp, VisitLinking, VisitLinked, VisitSound,
       FieldVisits!Present
  <2>2. \A h \in Handlers :
          (VisitInHand(h)' <=> VisitInHand(h)) /\ (VisitHeldSound(h)' <=> VisitHeldSound(h))
    BY <1>1 DEF FieldVisits!vars, VisitInHand, VisitHeldSound
  <2>3. FieldVisits!VisitKept
    BY <1>1 DEF FieldVisits!vars, FieldVisits!VisitKept
  <2> QED
    BY <1>1, <2>1, <2>2, <2>3 DEF FieldVisits!vars, FieldVisits!TypeOK, VisitInv, VisitSoloInv,
       Alone, FieldVisits!InFlight
<1>2. ASSUME NEW h \in Handlers, FieldVisits!HandlerStep(h), FieldVisits!Overlap(h)
      PROVE  VisitInv' /\ VisitSoloInv' /\ FieldVisits!VisitKept
  <2>1. VisitKept(h)
    BY <1>2, VisitHandlerKeeps
  <2>2. VisitInv'
    <3>1. \A g \in Handlers \ {h} : VisitHeldSound(g)'
      <4> SUFFICES ASSUME NEW g \in Handlers \ {h} PROVE VisitHeldSound(g)'
        OBVIOUS
      <4>1. /\ VisitHeldSound(g) /\ pc'[g] = pc[g] /\ local'[g] = local[g]
            /\ journals \subseteq journals'
            /\ \A v \in VisitIds : visits[v].day # None => visits'[v].day # None
        BY <2>1 DEF VisitKept, VisitInv, FieldVisits!Present
      <4> QED
        BY <4>1 DEF VisitHeldSound, VisitVisiting
    <3>2. overlapped' \in BOOLEAN
      BY <1>2 DEF FieldVisits!Overlap, VisitInv, FieldVisits!TypeOK
    <3> QED
      BY <2>1, <3>1, <3>2 DEF VisitKept, VisitTyped, VisitInv, FieldVisits!TypeOK
  <2>3. ASSUME ~overlapped'
        PROVE  /\ Alone' /\ VisitOne' /\ VisitLinkedUp'
               /\ (\A g \in Handlers : VisitInHand(g)')
               /\ VisitOver
    <3>1. ~overlapped /\ \A g \in Handlers \ {h} : pc[g] = "idle" /\ pc'[g] = "idle"
      BY <1>2, <2>1, <2>3 DEF FieldVisits!Overlap, FieldVisits!InFlight, VisitKept
    <3>2. \A g \in Handlers \ {h} : VisitInHand(g)'
      BY <3>1 DEF VisitInHand, VisitVisiting
    <3>3. Alone'
      BY <3>1 DEF Alone, FieldVisits!InFlight
    <3>4. VisitLinkedBut(h)
      BY <3>1 DEF VisitLinkedBut, VisitLinkedUp, VisitLinking, VisitSoloInv
    <3>5. VisitLinkedBut(h)' => VisitLinkedUp'
      BY DEF VisitLinkedBut, VisitLinkedUp
    <3> QED
      BY <2>1, <3>1, <3>2, <3>3, <3>4, <3>5 DEF VisitKept, VisitSoloInv
  <2> QED
    BY <2>2, <2>3 DEF VisitSoloInv, Alone, FieldVisits!VisitKept, VisitOver
<1> QED
  BY <1>1, <1>2 DEF FieldVisits!Next

\* The invariant is enough.
LEMMA VisitPromised == VisitInv /\ VisitSoloInv => FieldVisits!TypeOK /\ FieldVisits!OneOpenVisit
  BY DEF VisitInv, VisitSoloInv, VisitOne, FieldVisits!OneOpenVisit, VisitSound, VisitLinkedUp,
     VisitLinking, VisitLinked, FieldVisits!Quiet, FieldVisits!InFlight

-----------------------------------------------------------------------------
(***************************************************************************)
(* sessions of care. As long as handlers do not overlap, what was checked  *)
(* before a session starts or ends still holds when it is written.         *)
(***************************************************************************)
\* What is assumed of the constants.
LEMMA CareGiven == CareSessions!CareAssumption
  BY RecordsAssumption

\* What was read is still so.
CareInHand(h) ==
  /\ pc[h] = "starting" /\ local[h].recipient # None =>
       CareSessions!OpenWith(local[h].recipient) = {}
  /\ pc[h] = "ending" => local[h].id \in SessionIds /\ sessions[local[h].id].state = "open"
  /\ pc[h] \in {"editing", "removing"} => licence = "held"

\* One session with a recipient is open at most.
CareOne == \A r \in Recipients : \A s, t \in CareSessions!OpenWith(r) : s = t

\* A session does not open again.
CareEnded == \A s \in SessionIds :
  sessions[s].state \notin {"none", "open"} => sessions'[s].state \notin {"none", "open"}
\* An ended session and a removed licence stay as they are.
CareOnce ==
  /\ \A s \in SessionIds : sessions[s].state = "ended" => sessions'[s] = sessions[s]
  /\ licence = "removed" => licence' = "removed"

\* What holds however handlers interleave.
CareInv == CareSessions!TypeOK
\* What holds as long as they do not overlap.
CareSoloInv == Alone /\ (~overlapped => CareOne /\ \A h \in Handlers : CareInHand(h))

\* What a step of h does: it keeps the invariant, as long as h is alone all of
\* it.
CareKept(h) ==
  /\ sessions' \in [SessionIds -> CareSessions!Rows] /\ licence' \in CareSessions!Licences
  /\ pc' \in [Handlers -> CareSessions!Steps] /\ local' \in [Handlers -> CareSessions!Locals]
  /\ \A g \in Handlers \ {h} : pc'[g] = pc[g]
  /\ CareEnded
  /\ CareOne /\ CareInHand(h) => CareOne' /\ CareInHand(h)' /\ CareOnce

\* What is held at rest, and in a row that is not there, is typed.
LEMMA CareEmpty == /\ CareSessions!NoLocal \in CareSessions!Locals
                   /\ CareSessions!NoSession \in CareSessions!Rows
  BY DEF CareSessions!NoLocal, CareSessions!NoSession, CareSessions!Locals, CareSessions!Rows,
     CareSessions!OrNone

\* The initial states have the invariant.
LEMMA CareInitHolds == CareSessions!Init => CareInv /\ CareSoloInv
<1> SUFFICES ASSUME CareSessions!Init PROVE CareInv /\ CareSoloInv
  OBVIOUS
<1>1. overlapped = FALSE /\ \A h \in Handlers : pc[h] = "idle"
  BY DEF CareSessions!Init, CareSessions!AllIdle
<1>2. overlapped \in BOOLEAN
  BY <1>1, Zenon
<1>3. CareSessions!TypeOK
  BY <1>2, CareEmpty DEF CareSessions!Init, CareSessions!AllIdle, CareSessions!TypeOK,
     CareSessions!Steps, CareSessions!Licences
<1>4. CareOne
  BY DEF CareSessions!Init, CareOne, CareSessions!OpenWith, CareSessions!NoSession
<1> QED
  BY <1>1, <1>3, <1>4 DEF CareInv, CareSoloInv, Alone, CareSessions!InFlight, CareInHand

\* A handler that returns.
LEMMA CareReturnKeeps ==
  ASSUME CareInv, NEW h \in Handlers, CareSessions!Return(h)
  PROVE  /\ pc' \in [Handlers -> CareSessions!Steps]
         /\ local' \in [Handlers -> CareSessions!Locals] /\ CareInHand(h)'
         /\ \A g \in Handlers \ {h} : pc'[g] = pc[g]
<1>1. /\ pc' \in [Handlers -> CareSessions!Steps] /\ local' \in [Handlers -> CareSessions!Locals]
      /\ pc'[h] = "idle" /\ \A g \in Handlers \ {h} : pc'[g] = pc[g]
  BY CareEmpty DEF CareSessions!Return, CareSessions!Goto, CareSessions!Hold, CareInv,
     CareSessions!TypeOK, CareSessions!Steps
<1> QED
  BY <1>1 DEF CareInHand

\* Handlers that read.
LEMMA CareBeginKeeps ==
  ASSUME CareInv, NEW h \in Handlers, NEW read \in CareSessions!Locals,
         NEW step \in CareSessions!Steps \ {"idle"}, CareSessions!Begin(h, step, read),
         step = "starting" /\ read.recipient # None => CareSessions!OpenWith(read.recipient) = {},
         step = "ending" => read.id \in SessionIds /\ sessions[read.id].state = "open",
         step \in {"editing", "removing"} => licence = "held"
  PROVE  CareKept(h)
<1>1. /\ pc' \in [Handlers -> CareSessions!Steps] /\ local' \in [Handlers -> CareSessions!Locals]
      /\ sessions' = sessions /\ licence' = licence
      /\ pc'[h] = step /\ local'[h] = read /\ \A g \in Handlers \ {h} : pc'[g] = pc[g]
  BY DEF CareSessions!Begin, CareSessions!Goto, CareSessions!Hold, CareInv, CareSessions!TypeOK
<1>2. CareInHand(h)'
  BY <1>1 DEF CareInHand, CareSessions!OpenWith
<1> QED
  BY <1>1, <1>2 DEF CareKept, CareInv, CareSessions!TypeOK, CareEnded, CareOnce, CareOne,
     CareSessions!OpenWith

\* A step of any handler.
LEMMA CareHandlerKeeps ==
  ASSUME CareInv, NEW h \in Handlers, CareSessions!HandlerStep(h)
  PROVE  CareKept(h)
<1>0. /\ sessions \in [SessionIds -> CareSessions!Rows] /\ licence \in CareSessions!Licences
      /\ local[h] \in CareSessions!Locals
      /\ pc \in [Handlers -> CareSessions!Steps] /\ local \in [Handlers -> CareSessions!Locals]
      /\ None \notin SessionIds \cup Recipients
  BY CareGiven DEF CareInv, CareSessions!TypeOK, CareSessions!CareAssumption
<1>1. ASSUME NEW r \in CareSessions!OrNone(Recipients), CareSessions!Start(h, r)
      PROVE  CareKept(h)
  <2> DEFINE read == [CareSessions!NoLocal EXCEPT !.recipient = r]
  <2>1. read \in CareSessions!Locals /\ read.recipient = r
    BY DEF CareSessions!NoLocal, CareSessions!Locals, CareSessions!OrNone
  <2>2. CareSessions!Begin(h, "starting", read) /\ (r # None => CareSessions!OpenWith(r) = {})
    BY <1>1 DEF CareSessions!Start
  <2> HIDE DEF read
  <2> QED
    BY <2>1, <2>2, CareBeginKeeps DEF CareSessions!Steps
<1>2. CASE CareSessions!StartSave(h)
  <2> DEFINE r == local[h].recipient
  <2>1. PICK s \in SessionIds :
          /\ sessions[s] = CareSessions!NoSession
          /\ sessions' = [sessions EXCEPT ![s] = [recipient |-> r, state |-> "open"]]
    BY <1>2 DEF CareSessions!StartSave
  <2>2. pc[h] = "starting" /\ CareSessions!Return(h) /\ licence' = licence
    BY <1>2 DEF CareSessions!StartSave
  <2>3. sessions' \in [SessionIds -> CareSessions!Rows]
    BY <1>0, <2>1 DEF CareSessions!Rows, CareSessions!Locals
  <2>4. CareEnded /\ CareOnce
    BY <1>0, <2>1, <2>2 DEF CareEnded, CareOnce, CareSessions!NoSession
  <2>5. CareOne /\ CareInHand(h) => CareOne'
    <3> SUFFICES ASSUME CareOne, CareInHand(h), NEW q \in Recipients,
                        NEW t \in CareSessions!OpenWith(q)', NEW u \in CareSessions!OpenWith(q)'
                 PROVE  t = u
      BY DEF CareOne
    <3>1. q # None
      BY <1>0
    <3>2. \A v \in SessionIds : v \in CareSessions!OpenWith(q)' <=>
            v \in CareSessions!OpenWith(q) \/ (v = s /\ q = r)
      <4> DEFINE new == [recipient |-> r, state |-> "open"]
      <4>1. new = [recipient |-> q, state |-> "open"] <=> q = r
        OBVIOUS
      <4>2. sessions[s] # [recipient |-> q, state |-> "open"]
        BY <2>1 DEF CareSessions!NoSession
      <4>3. \A v \in SessionIds : sessions'[v] = IF v = s THEN new ELSE sessions[v]
        BY <1>0, <2>1
      <4> HIDE DEF new
      <4> QED
        BY <4>1, <4>2, <4>3 DEF CareSessions!OpenWith
    <3>3. q = r => CareSessions!OpenWith(q) = {}
      BY <2>2, <3>1 DEF CareInHand
    <3>4. t \in SessionIds /\ u \in SessionIds
      BY DEF CareSessions!OpenWith
    <3> QED
      BY <3>2, <3>3, <3>4 DEF CareOne
  <2> QED
    BY <1>0, <2>2, <2>3, <2>4, <2>5, CareReturnKeeps DEF CareKept
<1>3. ASSUME NEW s \in SessionIds, CareSessions!End(h, s)
      PROVE  CareKept(h)
  <2> DEFINE read == [CareSessions!NoLocal EXCEPT !.id = s]
  <2>1. read \in CareSessions!Locals /\ read.id = s
    BY DEF CareSessions!NoLocal, CareSessions!Locals, CareSessions!OrNone
  <2>2. CareSessions!Begin(h, "ending", read) /\ sessions[s].state = "open"
    BY <1>3 DEF CareSessions!End
  <2> HIDE DEF read
  <2> QED
    BY <2>1, <2>2, CareBeginKeeps DEF CareSessions!Steps
<1>4. CASE CareSessions!EndSave(h)
  <2> DEFINE id == local[h].id
  <2>1. /\ pc[h] = "ending" /\ CareSessions!Return(h) /\ licence' = licence
        /\ sessions' = [sessions EXCEPT ![id].state = IF @ = "open" THEN "ended" ELSE "ended again"]
    BY <1>4 DEF CareSessions!EndSave
  <2> HIDE DEF id
  <2>2. sessions' \in [SessionIds -> CareSessions!Rows] /\ CareEnded
    BY <1>0, <2>1 DEF CareSessions!Rows, CareEnded
  <2>3. \A v \in SessionIds : sessions'[v].state = "open" => sessions'[v] = sessions[v]
    BY <1>0, <2>1 DEF CareSessions!Rows
  <2>4. CareOne => CareOne'
    <3> SUFFICES ASSUME CareOne, NEW q \in Recipients, NEW t \in CareSessions!OpenWith(q)', NEW u \in CareSessions!OpenWith(q)'
                 PROVE  t = u
      BY DEF CareOne
    <3>1. t \in CareSessions!OpenWith(q) /\ u \in CareSessions!OpenWith(q)
      BY <2>3 DEF CareSessions!OpenWith
    <3> QED
      BY <3>1 DEF CareOne
  <2>5. CareInHand(h) => CareOnce
    BY <1>0, <2>1 DEF CareInHand, CareOnce, id
  <2> QED
    BY <1>0, <2>1, <2>2, <2>4, <2>5, CareReturnKeeps DEF CareKept
<1>5. CASE CareSessions!CreateLicence(h)
  BY <1>0, <1>5 DEF CareSessions!CreateLicence, CareKept, CareInHand, CareOne,
     CareSessions!OpenWith, CareEnded, CareOnce, CareSessions!Licences
<1>6. CASE CareSessions!UpdateLicence(h) \/ CareSessions!DeleteLicence(h)
  BY <1>6, CareEmpty, CareBeginKeeps DEF CareSessions!UpdateLicence, CareSessions!DeleteLicence,
     CareSessions!Steps
<1>7. CASE CareSessions!UpdateLicenceSave(h) \/ CareSessions!DeleteLicenceNow(h)
  <2>1. /\ sessions' = sessions /\ licence' \in CareSessions!Licences /\ CareSessions!Return(h)
        /\ (CareInHand(h) => licence = "held")
    BY <1>7 DEF CareSessions!UpdateLicenceSave, CareSessions!DeleteLicenceNow,
       CareSessions!Licences, CareInHand
  <2>2. CareEnded /\ (CareOne => CareOne')
    BY <2>1 DEF CareEnded, CareOne, CareSessions!OpenWith
  <2>3. CareInHand(h) => CareOnce
    BY <2>1 DEF CareOnce
  <2> QED
    BY <1>0, <2>1, <2>2, <2>3, CareReturnKeeps DEF CareKept
<1> QED
  BY <1>1, <1>2, <1>3, <1>4, <1>5, <1>6, <1>7 DEF CareSessions!HandlerStep

\* Every step keeps the invariant, and does what is said of every step.
LEMMA CareStepHolds == CareInv /\ CareSoloInv /\ [CareSessions!Next]_(CareSessions!vars) =>
                         CareInv' /\ CareSoloInv' /\ CareSessions!SessionKept
<1> SUFFICES ASSUME CareInv, CareSoloInv, [CareSessions!Next]_(CareSessions!vars)
             PROVE  CareInv' /\ CareSoloInv' /\ CareSessions!SessionKept
  OBVIOUS
<1>1. CASE UNCHANGED CareSessions!vars
  <2>1. CareOne' <=> CareOne
    BY <1>1 DEF CareSessions!vars, CareOne, CareSessions!OpenWith
  <2>2. \A h \in Handlers : CareInHand(h)' <=> CareInHand(h)
    BY <1>1 DEF CareSessions!vars, CareInHand, CareSessions!OpenWith
  <2> QED
    BY <1>1, <2>1, <2>2 DEF CareSessions!vars, CareSessions!TypeOK, CareInv, CareSoloInv, Alone,
       CareSessions!InFlight, CareSessions!SessionKept
<1>2. ASSUME NEW h \in Handlers, CareSessions!HandlerStep(h), CareSessions!Overlap(h)
      PROVE  CareInv' /\ CareSoloInv' /\ CareSessions!SessionKept
  <2>1. CareKept(h)
    BY <1>2, CareHandlerKeeps
  <2>2. CareInv'
    BY <1>2, <2>1 DEF CareKept, CareInv, CareSessions!TypeOK, CareSessions!Overlap
  <2>3. ASSUME ~overlapped'
        PROVE  Alone' /\ CareOne' /\ (\A g \in Handlers : CareInHand(g)') /\ CareOnce
    <3>1. ~overlapped /\ \A g \in Handlers \ {h} : pc[g] = "idle" /\ pc'[g] = "idle"
      BY <1>2, <2>1, <2>3 DEF CareSessions!Overlap, CareSessions!InFlight, CareKept
    <3>2. \A g \in Handlers \ {h} : CareInHand(g)'
      BY <3>1 DEF CareInHand
    <3>3. Alone'
      BY <3>1 DEF Alone, CareSessions!InFlight
    <3> QED
      BY <2>1, <3>1, <3>2, <3>3 DEF CareKept, CareSoloInv
  <2> QED
    BY <2>1, <2>2, <2>3 DEF CareSoloInv, Alone, CareSessions!SessionKept, CareKept, CareEnded,
       CareOnce
<1> QED
  BY <1>1, <1>2 DEF CareSessions!Next

\* The invariant is enough.
LEMMA CarePromised == CareInv /\ CareSoloInv => CareSessions!TypeOK /\ CareSessions!OneOpenSession
  BY DEF CareInv, CareSoloInv, CareOne, CareSessions!OneOpenSession

-----------------------------------------------------------------------------
(***************************************************************************)
(* salaries. What is saved is compared with the row of the table first, so *)
(* that it must not be of a salary that was paid or removed since it was   *)
(* read.                                                                   *)
(***************************************************************************)
\* What is assumed of the constants.
LEMMA SalaryGiven == Salaries!SalaryAssumption
  BY RecordsAssumption

SalaryLocals == [row : Salaries!Rows, cols : SUBSET DOMAIN Salaries!NoRow]

\* The date of payment goes with the status.
SalaryDated(row) == row.status = "paid" <=> row.paidAt
\* The salary has an amount.
SalaryReal(row) == row.status # "none" /\ row.amount # None

\* What will be saved is a salary, and there is one.
SalaryRead(h) ==
  /\ pc[h] \in {"creating", "saving", "updating"} => SalaryReal(local[h].row)
  /\ pc[h] \in {"saving", "updating"} => SalaryReal(salary)

\* The row in hand is dated; when its columns were compared with those of the table,
\* they still differ in no other.
SalaryHeld(h) ==
  /\ SalaryDated(local[h].row)
  /\ pc[h] = "updating" => Salaries!Differing(salary, local[h].row) \subseteq local[h].cols

\* As long as handlers do not overlap, what is in hand will not touch a paid or
\* removed salary, and pays a confirmed one.
SalaryInHand(h) ==
  /\ pc[h] = "creating" => local[h].row.status = "draft"
  /\ pc[h] \in {"saving", "updating"} =>
       /\ ~salary.deleted /\ salary.status # "paid"
       /\ local[h].row.status = "paid" =>
            salary.status = "confirmed" /\ local[h].row.amount = salary.amount

\* What a step may do to the salary.
SalaryStands ==
  /\ salary.status = "paid" => salary' = [salary EXCEPT !.deleted = salary'.deleted]
  /\ salary'.status = "paid" /\ salary.status # "paid" =>
       salary.status = "confirmed" /\ salary'.amount = salary.amount
  /\ salary.deleted => salary' = salary

\* What holds however handlers interleave.
SalaryInv == /\ Salaries!TypeOK
             /\ \A h \in Handlers : SalaryRead(h)
             /\ ~torn => SalaryDated(salary) /\ \A h \in Handlers : SalaryHeld(h)
\* What holds as long as they do not overlap.
SalarySoloInv == Alone /\ (~overlapped => \A h \in Handlers : SalaryInHand(h))

\* What a step of h does: it keeps the invariant, as long as h is alone all of
\* it.
SalaryKept(h) ==
  /\ salary' \in Salaries!Rows /\ pc' \in [Handlers -> Salaries!Steps]
  /\ local' \in [Handlers -> SalaryLocals]
  /\ salary'.status = "none" <=> salary'.amount = None
  /\ SalaryReal(salary) => SalaryReal(salary')
  /\ SalaryRead(h)'
  /\ ~torn => SalaryDated(salary') /\ SalaryHeld(h)'
  /\ \A g \in Handlers \ {h} : pc'[g] = pc[g] /\ local'[g] = local[g]
  /\ SalaryInHand(h) => SalaryInHand(h)' /\ SalaryStands

\* What is held at rest, and in a row that is not there, is typed.
LEMMA SalaryEmpty ==
  /\ Salaries!NoRow \in Salaries!Rows /\ SalaryDated(Salaries!NoRow)
  /\ Salaries!Nothing \in SalaryLocals /\ Salaries!Nothing.row = Salaries!NoRow
  /\ Salaries!NoRow.status = "none" /\ Salaries!NoRow.amount = None
  BY DEF Salaries!NoRow, Salaries!Rows, Salaries!Statuses, SalaryDated, Salaries!OrNone, SalaryLocals,
     Salaries!Nothing, Salaries!Entity

\* What an UPDATE makes of a row: each column is the old one or that in hand.
LEMMA SalaryMerge ==
  ASSUME NEW row \in Salaries!Rows, NEW entity \in Salaries!Rows, NEW cols
  PROVE  LET new == Salaries!Merged(row, entity, cols) IN
         /\ new \in Salaries!Rows
         /\ Salaries!Differing(row, entity) \in SUBSET DOMAIN Salaries!NoRow
         /\ new.status \in {row.status, entity.status} /\ new.amount \in {row.amount, entity.amount}
         /\ Salaries!Differing(row, entity) \subseteq cols => new = entity
  BY DEF Salaries!Rows, Salaries!NoRow, Salaries!Merged, Salaries!Differing

\* The initial states have the invariant.
LEMMA SalaryInitHolds == Salaries!Init => SalaryInv /\ SalarySoloInv
<1> SUFFICES ASSUME Salaries!Init PROVE SalaryInv /\ SalarySoloInv
  OBVIOUS
<1>1. /\ overlapped = FALSE /\ torn = FALSE /\ salary = Salaries!NoRow
      /\ \A h \in Handlers : pc[h] = "idle" /\ local[h] = Salaries!Nothing
  BY DEF Salaries!Init, Salaries!AllIdle
<1>2. overlapped \in BOOLEAN /\ torn \in BOOLEAN
  BY <1>1, Zenon
<1>3. Salaries!TypeOK
  BY <1>1, <1>2, SalaryEmpty DEF Salaries!Init, Salaries!AllIdle, Salaries!TypeOK, Salaries!Steps,
     SalaryLocals
<1> QED
  BY <1>1, <1>3, SalaryEmpty DEF SalaryInv, SalarySoloInv, Alone, Salaries!InFlight,
     SalaryInHand, SalaryHeld, SalaryRead

\* A handler that returns.
LEMMA SalaryReturnKeeps ==
  ASSUME SalaryInv, NEW h \in Handlers, Salaries!Return(h)
  PROVE  /\ pc' \in [Handlers -> Salaries!Steps] /\ local' \in [Handlers -> SalaryLocals]
         /\ SalaryInHand(h)' /\ SalaryRead(h)' /\ SalaryHeld(h)'
         /\ \A g \in Handlers \ {h} : pc'[g] = pc[g] /\ local'[g] = local[g]
<1>1. /\ pc' \in [Handlers -> Salaries!Steps] /\ local' \in [Handlers -> SalaryLocals]
      /\ pc'[h] = "idle" /\ local'[h].row = Salaries!NoRow
      /\ \A g \in Handlers \ {h} : pc'[g] = pc[g] /\ local'[g] = local[g]
  BY SalaryEmpty DEF Salaries!Return, Salaries!Goto, Salaries!Hold, SalaryInv, Salaries!TypeOK,
     Salaries!Steps, SalaryLocals
<1> QED
  BY <1>1, SalaryEmpty DEF SalaryInHand, SalaryRead, SalaryHeld

\* A row is taken in hand.
LEMMA SalaryLoadKeeps ==
  ASSUME SalaryInv, NEW h \in Handlers, NEW row \in Salaries!Rows,
         NEW cols \in SUBSET DOMAIN Salaries!NoRow,
         ~torn => SalaryDated(row),
         NEW step \in {"creating", "saving", "removing"}, Salaries!Load(h, step, row, cols),
         step \in {"creating", "saving"} => SalaryReal(row),
         step = "saving" => SalaryReal(salary),
         step = "creating" => row.status = "draft",
         step = "saving" =>
           /\ ~salary.deleted /\ salary.status # "paid"
           /\ row.status = "paid" => salary.status = "confirmed" /\ row.amount = salary.amount
  PROVE  SalaryKept(h)
<1> DEFINE held == [row |-> row, cols |-> cols]
<1>1. held \in SalaryLocals /\ held.row = row /\ local' = [local EXCEPT ![h] = held]
  BY DEF SalaryLocals, Salaries!Load, Salaries!Hold, Salaries!Entity
<1> HIDE DEF held
<1>2. /\ pc' \in [Handlers -> Salaries!Steps] /\ local' \in [Handlers -> SalaryLocals]
      /\ pc'[h] = step /\ local'[h].row = row /\ salary' = salary
      /\ \A g \in Handlers \ {h} : pc'[g] = pc[g] /\ local'[g] = local[g]
  BY <1>1 DEF Salaries!Load, Salaries!Goto, SalaryInv, Salaries!TypeOK, Salaries!Steps, SalaryLocals
<1>3. SalaryRead(h)' /\ SalaryInHand(h)' /\ (~torn => SalaryHeld(h)')
  BY <1>2 DEF SalaryRead, SalaryInHand, SalaryHeld, SalaryReal, SalaryDated
<1>4. SalaryStands
  BY <1>2 DEF SalaryStands, SalaryInv, Salaries!TypeOK, Salaries!Rows
<1> QED
  BY <1>2, <1>3, <1>4 DEF SalaryKept, SalaryInv, Salaries!TypeOK, SalaryDated, SalaryReal

\* A step of any handler.
LEMMA SalaryHandlerKeeps ==
  ASSUME SalaryInv, NEW h \in Handlers, Salaries!HandlerStep(h)
  PROVE  SalaryKept(h)
<1>0. /\ salary \in Salaries!Rows /\ (salary.status = "none" <=> salary.amount = None)
      /\ local[h] \in SalaryLocals /\ local[h].row \in Salaries!Rows
      /\ SalaryRead(h) /\ (~torn => SalaryDated(salary) /\ SalaryHeld(h))
      /\ None \notin Amounts
  BY SalaryGiven DEF SalaryInv, Salaries!TypeOK, SalaryLocals, Salaries!SalaryAssumption
<1>c. {} \in SUBSET DOMAIN Salaries!NoRow /\ {"paidAt"} \in SUBSET DOMAIN Salaries!NoRow
  BY DEF Salaries!NoRow
<1>1. ASSUME NEW a \in Amounts, Salaries!Create(h, a)
      PROVE  SalaryKept(h)
  <2> DEFINE row == [Salaries!NoRow EXCEPT !.status = "draft", !.amount = a]
  <2>1. row \in Salaries!Rows /\ SalaryDated(row) /\ row.status = "draft" /\ SalaryReal(row)
    BY <1>0 DEF Salaries!NoRow, Salaries!Rows, Salaries!Statuses, SalaryDated, SalaryReal,
       Salaries!OrNone
  <2>2. Salaries!Load(h, "creating", row, {})
    BY <1>1 DEF Salaries!Create
  <2> HIDE DEF row
  <2> QED
    BY <1>c, <2>1, <2>2, SalaryLoadKeeps
<1>2. ASSUME NEW a \in Amounts, Salaries!Update(h, a)
      PROVE  SalaryKept(h)
  <2> DEFINE row == [salary EXCEPT !.amount = a]
  <2>1. /\ row \in Salaries!Rows /\ row.status = salary.status /\ row.paidAt = salary.paidAt
        /\ row.amount = a
    BY <1>0 DEF Salaries!Rows, Salaries!OrNone
  <2>2. /\ Salaries!Load(h, "saving", row, {}) /\ ~salary.deleted
        /\ salary.status \notin {"none", "paid"}
    BY <1>2 DEF Salaries!Update, Salaries!Seen
  <2> HIDE DEF row
  <2>3. (~torn => SalaryDated(row)) /\ SalaryReal(row) /\ SalaryReal(salary)
    BY <1>0, <2>1, <2>2 DEF SalaryDated, SalaryReal
  <2> QED
    BY <1>c, <2>1, <2>2, <2>3, SalaryLoadKeeps
<1>3. CASE Salaries!Confirm(h)
  <2> DEFINE row == [salary EXCEPT !.status = "confirmed"]
  <2>1. /\ row \in Salaries!Rows /\ row.status = "confirmed" /\ row.paidAt = salary.paidAt
        /\ row.amount = salary.amount
    BY <1>0 DEF Salaries!Rows, Salaries!Statuses
  <2>2. Salaries!Load(h, "saving", row, {}) /\ ~salary.deleted /\ salary.status = "draft"
    BY <1>3 DEF Salaries!Confirm, Salaries!Seen
  <2> HIDE DEF row
  <2>3. (~torn => SalaryDated(row)) /\ SalaryReal(row) /\ SalaryReal(salary)
    BY <1>0, <2>1, <2>2 DEF SalaryDated, SalaryReal
  <2> QED
    BY <1>c, <2>1, <2>2, <2>3, SalaryLoadKeeps
<1>4. CASE Salaries!MarkPaid(h)
  <2> DEFINE row == [salary EXCEPT !.status = "paid", !.paidAt = TRUE]
  <2>1. row \in Salaries!Rows /\ row.status = "paid" /\ row.paidAt /\ row.amount = salary.amount
    BY <1>0 DEF Salaries!Rows, Salaries!Statuses
  <2>2. /\ Salaries!Load(h, "saving", row, {"paidAt"}) /\ ~salary.deleted
        /\ salary.status = "confirmed"
    BY <1>4 DEF Salaries!MarkPaid, Salaries!Seen
  <2> HIDE DEF row
  <2>3. SalaryDated(row) /\ SalaryReal(row) /\ SalaryReal(salary)
    BY <1>0, <2>1, <2>2 DEF SalaryDated, SalaryReal
  <2> QED
    BY <1>c, <2>1, <2>2, <2>3, SalaryLoadKeeps
<1>5. CASE Salaries!Remove(h)
  BY <1>5, <1>c, SalaryEmpty, SalaryLoadKeeps DEF Salaries!Remove
<1>6. CASE Salaries!CreateSave(h)
  <2>1. /\ pc[h] = "creating" /\ Salaries!Return(h)
        /\ salary' = salary \/ (salary = Salaries!NoRow /\ salary' = local[h].row)
    BY <1>6 DEF Salaries!CreateSave
  <2>2. /\ salary' \in Salaries!Rows /\ (salary'.status = "none" <=> salary'.amount = None)
        /\ ~torn => SalaryDated(salary')
        /\ SalaryReal(salary) => SalaryReal(salary')
    BY <1>0, <2>1, SalaryEmpty DEF SalaryHeld, SalaryRead, SalaryReal
  <2>3. SalaryInHand(h) => SalaryStands
    BY <1>0, <2>1 DEF SalaryInHand, SalaryStands, Salaries!NoRow, Salaries!Rows
  <2> QED
    BY <2>1, <2>2, <2>3, SalaryReturnKeeps DEF SalaryKept
<1>7. CASE Salaries!SaveSelect(h)
  <2> DEFINE cols == local[h].cols \cup Salaries!Differing(salary, local[h].row)
  <2>1. /\ pc[h] = "saving" /\ salary' = salary
        /\ pc' = [pc EXCEPT ![h] = "updating"]
        /\ local' = [local EXCEPT ![h] = [local[h] EXCEPT !.cols = cols]]
    BY <1>0, <1>7 DEF Salaries!SaveSelect, Salaries!Compare, Salaries!Goto, Salaries!Hold, SalaryInv,
       Salaries!TypeOK
  <2>2. cols \in SUBSET DOMAIN Salaries!NoRow
    BY <1>0, SalaryMerge DEF SalaryLocals
  <2>3. Salaries!Differing(salary, local[h].row) \subseteq cols
    OBVIOUS
  <2> HIDE DEF cols
  <2>4. local \in [Handlers -> [row : Salaries!Rows, cols : SUBSET DOMAIN Salaries!NoRow]]
    BY DEF SalaryInv, Salaries!TypeOK
  <2>5. /\ local' \in [Handlers -> SalaryLocals]
        /\ local'[h].row = local[h].row /\ local'[h].cols = cols
        /\ \A g \in Handlers \ {h} : local'[g] = local[g]
    BY <2>1, <2>2, <2>4, ColumnsHeld DEF SalaryLocals
  <2>6. /\ pc' \in [Handlers -> Salaries!Steps] /\ pc'[h] = "updating"
        /\ \A g \in Handlers \ {h} : pc'[g] = pc[g]
    BY <2>1 DEF SalaryInv, Salaries!TypeOK, Salaries!Steps
  <2>7. ~torn => SalaryHeld(h)'
    BY <1>0, <2>1, <2>3, <2>5, <2>6 DEF SalaryHeld, SalaryDated, Salaries!Differing
  <2>8. SalaryRead(h)' /\ (SalaryInHand(h) => SalaryInHand(h)')
    BY <1>0, <2>1, <2>5, <2>6 DEF SalaryRead, SalaryReal, SalaryInHand
  <2>9. SalaryStands
    BY <1>0, <2>1 DEF SalaryStands, Salaries!Rows
  <2> QED
    BY <1>0, <2>1, <2>5, <2>6, <2>7, <2>8, <2>9 DEF SalaryKept
<1>8. CASE Salaries!Save(h)
  <2>1. /\ pc[h] = "updating" /\ Salaries!Return(h)
        /\ salary' = Salaries!Merged(salary, local[h].row, local[h].cols)
    BY <1>8 DEF Salaries!Save
  <2>2. /\ salary' \in Salaries!Rows
        /\ salary'.status \in {salary.status, local[h].row.status}
        /\ salary'.amount \in {salary.amount, local[h].row.amount}
        /\ ~torn => salary' = local[h].row
    BY <1>0, <2>1, SalaryMerge DEF SalaryHeld
  <2>3. SalaryReal(salary') /\ (~torn => SalaryDated(salary'))
    BY <1>0, <2>1, <2>2 DEF SalaryRead, SalaryReal, SalaryHeld
  <2>4. SalaryInHand(h) => SalaryStands
    BY <2>1, <2>2 DEF SalaryInHand, SalaryStands
  <2> QED
    BY <2>1, <2>2, <2>3, <2>4, SalaryReturnKeeps DEF SalaryKept, SalaryReal
<1>9. CASE Salaries!SoftDelete(h)
  <2>1. salary' = [salary EXCEPT !.deleted = TRUE] /\ Salaries!Return(h)
    BY <1>9 DEF Salaries!SoftDelete
  <2>2. /\ salary' \in Salaries!Rows /\ salary'.status = salary.status
        /\ salary'.amount = salary.amount /\ salary'.paidAt = salary.paidAt /\ SalaryStands
    BY <1>0, <2>1 DEF Salaries!Rows, SalaryStands
  <2> QED
    BY <1>0, <2>1, <2>2, SalaryReturnKeeps DEF SalaryKept, SalaryReal, SalaryDated
<1> QED
  BY <1>1, <1>2, <1>3, <1>4, <1>5, <1>6, <1>7, <1>8, <1>9 DEF Salaries!HandlerStep

\* Every step keeps the invariant, and does what is said of every step.
LEMMA SalaryStepHolds == SalaryInv /\ SalarySoloInv /\ [Salaries!Next]_(Salaries!vars) =>
                           SalaryInv' /\ SalarySoloInv' /\ Salaries!SalaryKept
<1> SUFFICES ASSUME SalaryInv, SalarySoloInv, [Salaries!Next]_(Salaries!vars)
             PROVE  SalaryInv' /\ SalarySoloInv' /\ Salaries!SalaryKept
  OBVIOUS
<1>1. CASE UNCHANGED Salaries!vars
  <2>1. Salaries!SalaryKept
    BY <1>1 DEF Salaries!vars, Salaries!SalaryKept, SalaryInv, Salaries!TypeOK, Salaries!Rows
  <2> QED
    BY <1>1, <2>1 DEF Salaries!vars, Salaries!TypeOK, SalaryInv, SalarySoloInv, Alone, SalaryRead,
       SalaryReal, SalaryHeld, SalaryDated, Salaries!Differing, SalaryInHand, Salaries!InFlight
<1>2. ASSUME NEW h \in Handlers, Salaries!HandlerStep(h), Salaries!Overlap(h), Salaries!Tear(h)
      PROVE  SalaryInv' /\ SalarySoloInv' /\ Salaries!SalaryKept
  <2>1. SalaryKept(h)
    BY <1>2, SalaryHandlerKeeps
  <2>2. overlapped' \in BOOLEAN /\ torn' \in BOOLEAN
    BY <1>2 DEF SalaryInv, Salaries!TypeOK, Salaries!Overlap, Salaries!Tear
  <2>3. ASSUME NEW g \in Handlers \ {h}
        PROVE  SalaryRead(g)' /\ (~torn' => SalaryHeld(g)')
    <3>1. SalaryRead(g)'
      BY <2>1 DEF SalaryKept, SalaryInv, SalaryRead, SalaryReal
    <3>2. ~torn' => ~torn /\ (pc[g] = "updating" => salary' = salary)
      BY <1>2 DEF Salaries!Tear
    <3> QED
      BY <2>1, <3>1, <3>2 DEF SalaryKept, SalaryInv, SalaryHeld, SalaryDated, Salaries!Differing
  <2>4. SalaryInv'
    BY <1>2, <2>1, <2>2, <2>3 DEF SalaryKept, SalaryInv, Salaries!TypeOK, Salaries!Tear, SalaryLocals,
       SalaryDated
  <2>5. ASSUME ~overlapped'
        PROVE  Alone' /\ (\A g \in Handlers : SalaryInHand(g)') /\ Salaries!SalaryKept
    <3>1. ~overlapped /\ \A g \in Handlers \ {h} : pc[g] = "idle" /\ pc'[g] = "idle"
      BY <1>2, <2>1, <2>5 DEF Salaries!Overlap, Salaries!InFlight, SalaryKept
    <3>2. \A g \in Handlers \ {h} : SalaryInHand(g)'
      BY <3>1 DEF SalaryInHand
    <3>3. Alone'
      BY <3>1 DEF Alone, Salaries!InFlight
    <3> QED
      BY <2>1, <3>1, <3>2, <3>3 DEF SalaryKept, SalarySoloInv, Salaries!SalaryKept, SalaryStands
  <2> QED
    BY <2>4, <2>5 DEF SalarySoloInv, Alone, Salaries!SalaryKept
<1> QED
  BY <1>1, <1>2 DEF Salaries!Next

\* The invariant is enough.
LEMMA SalaryPromised == SalaryInv => Salaries!TypeOK /\ Salaries!PaidIsDated
  BY DEF SalaryInv, SalaryDated, Salaries!PaidIsDated

-----------------------------------------------------------------------------
(***************************************************************************)
(* the lock of logins. A counter has a lifetime, or a handler is about to  *)
(* give it one; as long as handlers do not overlap, the last failure that  *)
(* is counted is followed by the lock.                                     *)
(***************************************************************************)
\* Sizes are those of FiniteSets.
LEMMA LockCounts ==
  ASSUME NEW S
  PROVE  LoginLock!Cardinality(S) = Cardinality(S) /\ (LoginLock!IsFiniteSet(S) <=> IsFiniteSet(S))
  BY DEF LoginLock!Cardinality, Cardinality, LoginLock!IsFiniteSet, IsFiniteSet

\* What is assumed of the constants.
LEMMA LockGiven ==
  /\ MAX_ATTEMPTS \in Nat \ {0, 1} /\ TTL \in Nat \ {0}
  /\ IsFiniteSet(Handlers) /\ None \notin Nat
  BY RecordsAssumption, LockCounts DEF LoginLock!LockAssumption

\* Failures that are counted are forgotten some time.
LockForgotten == count > 0 /\ lifetime = None => \E h \in Handlers : pc[h] = "expiring"

\* As long as handlers do not overlap and none dies: what a handler knows.
LockInHand(h) ==
  /\ pc[h] \in {"checking", "failing", "clearing"} => lock = 0 /\ count < MAX_ATTEMPTS
  /\ pc[h] = "expiring" => lock = 0 /\ count = 1 /\ local[h] = 1
  /\ pc[h] = "locking" => count = MAX_ATTEMPTS
  /\ pc[h] = "unlocking" => count = 0

\* And what holds when none is at work.
LockSettled ==
  /\ count <= MAX_ATTEMPTS
  /\ count = MAX_ATTEMPTS => lifetime # None /\ lifetime <= lock
  /\ lock = TTL => count = MAX_ATTEMPTS

\* What holds however handlers interleave.
LockInv == LoginLock!TypeOK /\ (~died => LockForgotten)
\* What holds as long as they do not overlap.
LockSoloInv == /\ Alone
               /\ (~died /\ ~overlapped => (LoginLock!Quiet => LockSettled) /\ \A h \in Handlers : LockInHand(h))

\* The limits are numbers.
LEMMA LockLimits ==
  /\ MAX_ATTEMPTS \in Nat /\ MAX_ATTEMPTS > 1 /\ TTL \in Nat /\ TTL > 0
  /\ None \notin Nat
  /\ LoginLock!MaxCount \in Nat /\ LoginLock!MaxCount >= MAX_ATTEMPTS
<1>1. Cardinality(Handlers) \in Nat
  BY LockGiven, FS_CardinalityType
<1> QED
  BY <1>1, LockGiven, LockCounts DEF LoginLock!MaxCount

\* The initial states have the invariant.
LEMMA LockInitHolds == LoginLock!Init => LockInv /\ LockSoloInv
<1> SUFFICES ASSUME LoginLock!Init PROVE LockInv /\ LockSoloInv
  OBVIOUS
<1>1. overlapped = FALSE /\ died = FALSE /\ \A h \in Handlers : pc[h] = "idle"
  BY DEF LoginLock!Init, LoginLock!AllIdle
<1>2. overlapped \in BOOLEAN /\ died \in BOOLEAN
  BY <1>1, Zenon
<1>3. LoginLock!TypeOK
  BY <1>2, LockLimits DEF LoginLock!Init, LoginLock!AllIdle, LoginLock!TypeOK, LoginLock!Steps,
     LoginLock!OrNone
<1>4. LockForgotten /\ LockSettled
  BY LockLimits DEF LoginLock!Init, LockForgotten, LockSettled
<1> QED
  BY <1>1, <1>3, <1>4 DEF LockInv, LockSoloInv, Alone, LoginLock!InFlight, LockInHand

\* Types, and that failures are forgotten, in every step.
LEMMA LockHandlerTyped ==
  ASSUME LockInv, NEW h \in Handlers, LoginLock!HandlerStep(h)
  PROVE  /\ count' \in 0 .. LoginLock!MaxCount /\ lifetime' \in LoginLock!OrNone(1 .. TTL)
         /\ lock' \in 0 .. TTL
         /\ died' \in BOOLEAN /\ (died => died')
         /\ pc' \in [Handlers -> LoginLock!Steps]
         /\ local' \in [Handlers -> 0 .. LoginLock!MaxCount]
         /\ \A g \in Handlers \ {h} : pc'[g] = pc[g]
         /\ ~died' => LockForgotten'
<1>0. /\ count \in 0 .. LoginLock!MaxCount /\ lifetime \in LoginLock!OrNone(1 .. TTL)
      /\ lock \in 0 .. TTL
      /\ died \in BOOLEAN /\ (~died => LockForgotten)
      /\ pc \in [Handlers -> LoginLock!Steps] /\ local \in [Handlers -> 0 .. LoginLock!MaxCount]
  BY DEF LockInv, LoginLock!TypeOK
<1>1. CASE LoginLock!Login(h) \/ LoginLock!CheckPassword(h)
  <2>1. /\ \E step \in {"checking", "failing", "clearing", "idle"} : pc' = [pc EXCEPT ![h] = step]
        /\ UNCHANGED <<count, lifetime, lock, died, local>> /\ pc[h] # "expiring"
    BY <1>1 DEF LoginLock!Login, LoginLock!CheckPassword, LoginLock!Goto
  <2>2. pc' \in [Handlers -> LoginLock!Steps] /\ \A g \in Handlers \ {h} : pc'[g] = pc[g]
    BY <1>0, <2>1 DEF LoginLock!Steps
  <2> QED
    BY <1>0, <2>1, <2>2 DEF LockForgotten
<1>2. CASE LoginLock!Incr(h)
  <2>1. /\ count' = count + 1 /\ count < LoginLock!MaxCount /\ UNCHANGED <<lifetime, lock, died>>
        /\ pc[h] = "failing" /\ pc' = [pc EXCEPT ![h] = LoginLock!After(count')]
        /\ local' = [local EXCEPT ![h] = IF LoginLock!After(count') = "idle" THEN 0 ELSE count']
    BY <1>2 DEF LoginLock!Incr, LoginLock!Goto, LoginLock!Hold
  <2>2. count' \in 0 .. LoginLock!MaxCount
    BY <1>0, <2>1, LockLimits
  <2>3. /\ LoginLock!After(count') \in LoginLock!Steps
        /\ (count' = 1 => LoginLock!After(count') = "expiring")
    BY DEF LoginLock!After, LoginLock!Steps
  <2>4. /\ pc' \in [Handlers -> LoginLock!Steps] /\ local' \in [Handlers -> 0 .. LoginLock!MaxCount]
        /\ pc'[h] = LoginLock!After(count') /\ \A g \in Handlers \ {h} : pc'[g] = pc[g]
    BY <1>0, <2>1, <2>2, <2>3, LockLimits
  <2>5. ~died => LockForgotten'
    <3>1. CASE count = 0
      BY <2>1, <2>3, <2>4, <3>1 DEF LockForgotten
    <3>2. CASE count # 0
      BY <1>0, <2>1, <2>4, <3>2, LockLimits DEF LockForgotten
    <3> QED
      BY <3>1, <3>2
  <2> QED
    BY <1>0, <2>1, <2>2, <2>4, <2>5
<1>3. CASE LoginLock!Expire(h)
  <2>1. /\ lifetime' = (IF count = 0 THEN None ELSE TTL) /\ UNCHANGED <<count, lock, died>>
        /\ \E step \in {"locking", "idle"} : pc' = [pc EXCEPT ![h] = step]
        /\ local' = local \/ local' = [local EXCEPT ![h] = 0]
    BY <1>3 DEF LoginLock!Expire, LoginLock!Goto, LoginLock!Return, LoginLock!Hold
  <2>2. pc' \in [Handlers -> LoginLock!Steps] /\ \A g \in Handlers \ {h} : pc'[g] = pc[g]
    BY <1>0, <2>1 DEF LoginLock!Steps
  <2>3. local' \in [Handlers -> 0 .. LoginLock!MaxCount] /\ lifetime' \in LoginLock!OrNone(1 .. TTL)
    BY <1>0, <2>1, LockLimits DEF LoginLock!OrNone
  <2>4. LockForgotten'
    BY <1>0, <2>1, LockLimits DEF LockForgotten
  <2> QED
    BY <1>0, <2>1, <2>2, <2>3, <2>4
<1>4. CASE LoginLock!SetLock(h) \/ LoginLock!DelLock(h) \/ LoginLock!Crash(h)
  <2>1. /\ UNCHANGED <<count, lifetime>> /\ lock' \in {lock, TTL, 0}
        /\ LoginLock!Return(h)
        /\ \/ died' = died /\ pc[h] # "expiring"
           \/ died' = TRUE
    BY <1>4 DEF LoginLock!SetLock, LoginLock!DelLock, LoginLock!Crash
  <2>2. /\ pc' \in [Handlers -> LoginLock!Steps] /\ local' \in [Handlers -> 0 .. LoginLock!MaxCount]
        /\ pc' = [pc EXCEPT ![h] = "idle"] /\ \A g \in Handlers \ {h} : pc'[g] = pc[g]
    BY <1>0, <2>1, LockLimits DEF LoginLock!Return, LoginLock!Goto, LoginLock!Hold, LoginLock!Steps
  <2>3. died' \in BOOLEAN /\ (died => died')
    <3>1. CASE died' = died
      BY <1>0, <3>1
    <3>2. CASE died' = TRUE
      BY <3>2, Zenon
    <3> QED
      BY <2>1, <3>1, <3>2
  <2>4. ~died' => LockForgotten'
    BY <1>0, <2>1, <2>2 DEF LockForgotten
  <2>5. lock' \in 0 .. TTL
    BY <1>0, <2>1, LockLimits
  <2> QED
    BY <1>0, <2>1, <2>2, <2>3, <2>4, <2>5
<1>5. CASE LoginLock!DelAttempts(h)
  <2>1. /\ count' = 0 /\ lifetime' = None /\ UNCHANGED <<lock, died, local>>
        /\ pc' = [pc EXCEPT ![h] = "unlocking"]
    BY <1>5 DEF LoginLock!DelAttempts, LoginLock!Goto
  <2>2. pc' \in [Handlers -> LoginLock!Steps] /\ \A g \in Handlers \ {h} : pc'[g] = pc[g]
    BY <1>0, <2>1 DEF LoginLock!Steps
  <2>3. /\ LockForgotten' /\ lifetime' \in LoginLock!OrNone(1 .. TTL)
        /\ count' \in 0 .. LoginLock!MaxCount
    BY <2>1, LockLimits DEF LockForgotten, LoginLock!OrNone
  <2> QED
    BY <1>0, <2>1, <2>2, <2>3
<1> QED
  BY <1>1, <1>2, <1>3, <1>4, <1>5 DEF LoginLock!HandlerStep

\* A handler that is alone.
LEMMA LockHandlerSettles ==
  ASSUME LockInv, NEW h \in Handlers, LoginLock!HandlerStep(h), ~died', LockInHand(h),
         \A g \in Handlers \ {h} : pc[g] = "idle",
         pc[h] = "idle" => LockSettled
  PROVE  LockInHand(h)' /\ (pc'[h] = "idle" => LockSettled')
<1>0. /\ count \in Nat /\ lifetime \in LoginLock!OrNone(1 .. TTL) /\ lock \in 0 .. TTL /\ ~died
      /\ pc \in [Handlers -> LoginLock!Steps] /\ local \in [Handlers -> 0 .. LoginLock!MaxCount]
      /\ count' \in 0 .. LoginLock!MaxCount /\ LockForgotten
  BY LockHandlerTyped, LockLimits DEF LockInv, LoginLock!TypeOK
<1>1. CASE LoginLock!Login(h)
  <2>1. /\ pc[h] = "idle" /\ lock = 0 /\ pc'[h] = "checking"
        /\ UNCHANGED <<count, lifetime, lock, local>>
    BY <1>0, <1>1 DEF LoginLock!Login, LoginLock!Goto
  <2>2. count < MAX_ATTEMPTS
    BY <1>0, <2>1, LockLimits DEF LockSettled, LoginLock!OrNone
  <2> QED
    BY <2>1, <2>2 DEF LockInHand
<1>2. CASE LoginLock!CheckPassword(h)
  <2>1. /\ pc[h] = "checking" /\ pc'[h] \in {"failing", "clearing", "idle"}
        /\ UNCHANGED <<count, lifetime, lock, local>>
    BY <1>0, <1>2 DEF LoginLock!CheckPassword, LoginLock!Goto
  <2> QED
    BY <1>0, <2>1, LockLimits DEF LockInHand, LockSettled
<1>3. CASE LoginLock!Incr(h)
  <2>1. /\ count' = count + 1 /\ UNCHANGED <<lifetime, lock>>
        /\ pc[h] = "failing" /\ pc'[h] = LoginLock!After(count')
        /\ local'[h] = IF LoginLock!After(count') = "idle" THEN 0 ELSE count'
    BY <1>0, <1>3 DEF LoginLock!Incr, LoginLock!Goto, LoginLock!Hold
  <2>2. lock = 0 /\ count' <= MAX_ATTEMPTS
    BY <1>0, <2>1, LockLimits DEF LockInHand
  <2> QED
    BY <1>0, <2>1, <2>2, LockLimits DEF LockInHand, LockSettled, LoginLock!After
<1>4. CASE LoginLock!Expire(h)
  <2>1. /\ pc[h] = "expiring" /\ UNCHANGED <<count, lock>> /\ lock = 0 /\ count = 1
        /\ local[h] < MAX_ATTEMPTS
    BY <1>4, LockLimits DEF LoginLock!Expire, LockInHand
  <2>2. LoginLock!Return(h)
    BY <1>0, <1>4, <2>1, LockLimits DEF LoginLock!Expire
  <2>3. pc'[h] = "idle"
    BY <1>0, <2>2 DEF LoginLock!Return, LoginLock!Goto
  <2> QED
    BY <2>1, <2>3, LockLimits DEF LockInHand, LockSettled
<1>5. CASE LoginLock!SetLock(h)
  <2>1. /\ pc[h] = "locking" /\ UNCHANGED <<count, lifetime>> /\ lock' = TTL
        /\ pc'[h] = "idle" /\ count = MAX_ATTEMPTS
    BY <1>0, <1>5 DEF LoginLock!SetLock, LoginLock!Return, LoginLock!Goto, LockInHand
  <2>2. lifetime # None
    BY <1>0, <2>1, LockLimits DEF LockForgotten
  <2> QED
    BY <1>0, <2>1, <2>2, LockLimits DEF LockInHand, LockSettled, LoginLock!OrNone
<1>6. CASE LoginLock!DelAttempts(h)
  <2>1. count' = 0 /\ pc'[h] = "unlocking"
    BY <1>0, <1>6 DEF LoginLock!DelAttempts, LoginLock!Goto
  <2> QED
    BY <2>1 DEF LockInHand
<1>7. CASE LoginLock!DelLock(h)
  <2>1. count = 0 /\ count' = 0 /\ lock' = 0 /\ pc'[h] = "idle"
    BY <1>0, <1>7 DEF LoginLock!DelLock, LoginLock!Return, LoginLock!Goto, LockInHand
  <2> QED
    BY <2>1, LockLimits DEF LockInHand, LockSettled
<1>8. CASE LoginLock!Crash(h)
  BY <1>8 DEF LoginLock!Crash
<1> QED
  BY <1>1, <1>2, <1>3, <1>4, <1>5, <1>6, <1>7, <1>8 DEF LoginLock!HandlerStep

\* Time passes.
LEMMA LockTickKeeps ==
  ASSUME LockInv, LockSoloInv, LoginLock!Tick
  PROVE  LockInv' /\ LockSoloInv'
<1>0. /\ count \in 0 .. LoginLock!MaxCount /\ count \in Nat
      /\ lifetime \in LoginLock!OrNone(1 .. TTL) /\ lock \in 0 .. TTL
      /\ UNCHANGED <<died, pc, local, overlapped>> /\ LoginLock!Quiet
      /\ lock' = (IF lock > 0 THEN lock - 1 ELSE 0)
      /\ count' = (IF lifetime = 1 THEN 0 ELSE count)
      /\ lifetime' = (IF lifetime \in {None, 1} THEN None ELSE lifetime - 1)
  BY LockLimits DEF LoginLock!Tick, LockInv, LoginLock!TypeOK
<1>1. /\ lock' \in 0 .. TTL /\ count' \in 0 .. LoginLock!MaxCount
      /\ lifetime' \in LoginLock!OrNone(1 .. TTL)
  BY <1>0, LockLimits DEF LoginLock!OrNone
<1>2. LoginLock!TypeOK'
  BY <1>0, <1>1 DEF LockInv, LoginLock!TypeOK
<1>3. ASSUME ~died
      PROVE  LockForgotten'
  <2>1. count > 0 => lifetime # None
    BY <1>0, <1>3 DEF LockForgotten, LoginLock!Quiet, LoginLock!InFlight, LockInv
  <2>2. count' > 0 => lifetime' # None
    BY <1>0, <2>1, LockLimits DEF LoginLock!OrNone
  <2> QED
    BY <2>2 DEF LockForgotten
<1>4. LockSettled => LockSettled'
  <2> SUFFICES ASSUME LockSettled PROVE LockSettled'
    OBVIOUS
  <2>1. lock' # TTL
    BY <1>0, LockLimits
  <2>2. count' <= MAX_ATTEMPTS
    BY <1>0, LockLimits DEF LockSettled
  <2>3. ASSUME count' = MAX_ATTEMPTS
        PROVE  lifetime' # None /\ lifetime' <= lock'
    <3>1. lifetime # 1 /\ count = MAX_ATTEMPTS
      BY <1>0, <2>3, LockLimits
    <3>2. lifetime # None /\ lifetime \in 1 .. TTL /\ lifetime <= lock
      BY <1>0, <3>1 DEF LockSettled, LoginLock!OrNone
    <3> QED
      BY <1>0, <3>1, <3>2, LockLimits
  <2> QED
    BY <2>1, <2>2, <2>3 DEF LockSettled
<1>5. LoginLock!Quiet' /\ \A h \in Handlers : LockInHand(h)'
  BY <1>0 DEF LoginLock!Quiet, LoginLock!InFlight, LockInHand
<1> QED
  BY <1>0, <1>2, <1>3, <1>4, <1>5 DEF LockInv, LockSoloInv, Alone, LoginLock!InFlight

\* Every step keeps the invariant, and does what is said of every step.
LEMMA LockStepHolds == LockInv /\ LockSoloInv /\ [LoginLock!Next]_(LoginLock!vars) =>
                         LockInv' /\ LockSoloInv'
<1> SUFFICES ASSUME LockInv, LockSoloInv, [LoginLock!Next]_(LoginLock!vars)
             PROVE  LockInv' /\ LockSoloInv'
  OBVIOUS
<1>1. CASE UNCHANGED LoginLock!vars
  BY <1>1 DEF LoginLock!vars, LoginLock!TypeOK, LockInv, LockSoloInv, Alone, LockForgotten,
     LockSettled, LockInHand, LoginLock!InFlight, LoginLock!Quiet
<1>2. ASSUME NEW h \in Handlers, LoginLock!HandlerStep(h), LoginLock!Overlap(h)
      PROVE  LockInv' /\ LockSoloInv'
  <2>1. LockInv'
    BY <1>2, LockHandlerTyped DEF LockInv, LoginLock!TypeOK, LoginLock!Overlap
  <2>2. (died => died') /\ \A g \in Handlers \ {h} : pc'[g] = pc[g]
    BY <1>2, LockHandlerTyped
  <2>3. ASSUME ~overlapped'
        PROVE  /\ Alone'
               /\ (~died' => (LoginLock!Quiet' => LockSettled') /\ \A g \in Handlers : LockInHand(g)')
    <3>1. ~overlapped /\ \A g \in Handlers \ {h} : pc[g] = "idle" /\ pc'[g] = "idle"
      BY <1>2, <2>2, <2>3 DEF LoginLock!Overlap, LoginLock!InFlight
    <3>2. \A g \in Handlers \ {h} : LockInHand(g)'
      BY <3>1 DEF LockInHand
    <3>3. Alone'
      BY <3>1 DEF Alone, LoginLock!InFlight
    <3>4. ASSUME ~died'
          PROVE  LockInHand(h)' /\ (pc'[h] = "idle" => LockSettled')
      <4>1. LockInHand(h) /\ (pc[h] = "idle" => LockSettled)
        BY <2>2, <3>1, <3>4 DEF LockSoloInv, LoginLock!Quiet, LoginLock!InFlight
      <4> QED
        BY <1>2, <3>1, <3>4, <4>1, LockHandlerSettles
    <3> QED
      BY <3>2, <3>3, <3>4 DEF LoginLock!Quiet, LoginLock!InFlight
  <2> QED
    BY <2>1, <2>3 DEF LockSoloInv, Alone
<1>3. CASE LoginLock!Tick
  BY <1>3, LockTickKeeps
<1> QED
  BY <1>1, <1>2, <1>3 DEF LoginLock!Next

\* The invariant is enough.
LEMMA LockPromised == LockInv /\ LockSoloInv => LoginLock!TypeOK /\ LoginLock!LockedInTime
<1> SUFFICES ASSUME LockInv, LockSoloInv PROVE LoginLock!LockedInTime
  BY DEF LockInv
<1>1. count = MAX_ATTEMPTS /\ LockSettled => lock > 0
  BY LockLimits DEF LockInv, LoginLock!TypeOK, LoginLock!OrNone, LockSettled
<1> QED
  BY <1>1 DEF LockInv, LockSoloInv, LockForgotten, LockSettled, LoginLock!LockedInTime

-----------------------------------------------------------------------------
(***************************************************************************)
(* links and codes to set a new password. Those sent before are used up    *)
(* first, and a link that has set the password is used up last: in between *)
(* the handler at work accounts for it.                                    *)
(***************************************************************************)
\* What is assumed of the constants.
LEMMA RecoveryGiven == Recovery!RecoveryAssumption
  BY RecordsAssumption

\* What was read is still so, but for a link that has lapsed.
RecoveryInHand(h) ==
  /\ pc[h] \in {"mailing", "pairing", "linking"} => \A l \in LinkIds : links[l] # "open"
  /\ pc[h] = "sending" => \A c \in CodeIds : codes[c] # "open"
  /\ pc[h] \in {"hashing", "setting"} => broken \/ resets[local[h]] = 0
  /\ pc[h] = "setting" => links[local[h]] # "open"

\* One link can be used at most.
RecoveryOneLink == \A k, l \in LinkIds : links[k] = "open" /\ links[l] = "open" => k = l
\* One code can be used at most.
RecoveryOneCode == \A c, d \in CodeIds : codes[c] = "open" /\ codes[d] = "open" => c = d
\* A link that has set the password is used up, or a handler is about to do so.
RecoverySpent == ~broken => \A l \in LinkIds :
  /\ resets[l] <= 1
  /\ resets[l] = 1 /\ links[l] = "open" => \E h \in Handlers : pc[h] = "marking" /\ local[h] = l

\* A handler has a link or a code in hand that was sent.
RecoveryKnown(h) ==
  /\ pc[h] \in {"hashing", "setting", "marking"} => local[h] \in LinkIds /\ links[local[h]] # "none"
  /\ pc[h] \in {"exchanging", "pairing", "linking", "confirming"} => local[h] \in CodeIds

\* What was not sent has set no password.
RecoveryUnused == \A l \in LinkIds : links[l] = "none" => resets[l] = 0

\* What holds however handlers interleave.
RecoveryInv == Recovery!TypeOK /\ RecoveryUnused /\ \A h \in Handlers : RecoveryKnown(h)
\* What holds as long as they do not overlap.
RecoverySoloInv == /\ Alone
                   /\ (~overlapped => RecoveryOneLink /\ RecoveryOneCode /\ RecoverySpent /\ \A h \in Handlers : RecoveryInHand(h))

\* Nobody but h is at work.
RecoveryOthersIdle(h) == \A g \in Handlers \ {h} : pc[g] = "idle"
\* What holds when h is the only handler.
RecoverySolo(h) == /\ RecoveryOthersIdle(h) /\ RecoveryOneLink /\ RecoveryOneCode
                   /\ RecoverySpent /\ RecoveryInHand(h)

\* What a step of h does: it keeps the invariant, as long as h is alone all of
\* it.
RecoveryKept(h) ==
  /\ links' \in [LinkIds -> Recovery!Statuses] /\ codes' \in [CodeIds -> Recovery!Statuses]
  /\ resets' \in [LinkIds -> 0 .. 2] /\ broken' \in BOOLEAN
  /\ pc' \in [Handlers -> Recovery!Steps]
  /\ local' \in [Handlers -> Recovery!OrNone(LinkIds \cup CodeIds)]
  /\ \A g \in Handlers \ {h} : pc'[g] = pc[g] /\ local'[g] = local[g]
  /\ \A l \in LinkIds : links[l] # "none" => links'[l] # "none"
  /\ RecoveryUnused' /\ RecoveryKnown(h)'
  /\ RecoverySolo(h) => RecoveryOneLink' /\ RecoveryOneCode' /\ RecoverySpent' /\ RecoveryInHand(h)'

\* The initial states have the invariant.
LEMMA RecoveryInitHolds == Recovery!Init => RecoveryInv /\ RecoverySoloInv
<1> SUFFICES ASSUME Recovery!Init PROVE RecoveryInv /\ RecoverySoloInv
  OBVIOUS
<1>1. /\ overlapped = FALSE /\ broken = FALSE
      /\ \A h \in Handlers : pc[h] = "idle"
  BY DEF Recovery!Init, Recovery!AllIdle
<1>2. overlapped \in BOOLEAN /\ broken \in BOOLEAN
  BY <1>1, Zenon
<1>3. Recovery!TypeOK
  BY <1>2 DEF Recovery!Init, Recovery!AllIdle, Recovery!TypeOK, Recovery!Steps, Recovery!Statuses,
     Recovery!OrNone
<1>4. RecoveryOneLink /\ RecoveryOneCode /\ RecoverySpent /\ RecoveryUnused
  BY DEF Recovery!Init, RecoveryOneLink, RecoveryOneCode, RecoverySpent, RecoveryUnused
<1> QED
  BY <1>1, <1>3, <1>4 DEF RecoveryInv, RecoverySoloInv, Alone, Recovery!InFlight, RecoveryInHand,
     RecoveryKnown

\* A handler that goes on.
LEMMA RecoveryGotoKeeps ==
  ASSUME RecoveryInv, NEW h \in Handlers, NEW step \in Recovery!Steps, Recovery!Goto(h, step)
  PROVE  /\ pc' \in [Handlers -> Recovery!Steps] /\ pc'[h] = step
         /\ \A g \in Handlers \ {h} : pc'[g] = pc[g]
  BY DEF RecoveryInv, Recovery!TypeOK, Recovery!Goto

\* A handler that returns.
LEMMA RecoveryReturnKeeps ==
  ASSUME RecoveryInv, NEW h \in Handlers, Recovery!Return(h)
  PROVE  /\ pc' \in [Handlers -> Recovery!Steps]
         /\ local' \in [Handlers -> Recovery!OrNone(LinkIds \cup CodeIds)]
         /\ pc'[h] = "idle" /\ RecoveryKnown(h)' /\ RecoveryInHand(h)'
         /\ \A g \in Handlers \ {h} : pc'[g] = pc[g] /\ local'[g] = local[g]
<1>1. /\ pc' \in [Handlers -> Recovery!Steps]
      /\ local' \in [Handlers -> Recovery!OrNone(LinkIds \cup CodeIds)]
      /\ pc'[h] = "idle" /\ \A g \in Handlers \ {h} : pc'[g] = pc[g] /\ local'[g] = local[g]
  BY DEF Recovery!Return, Recovery!Goto, Recovery!Hold, RecoveryInv, Recovery!TypeOK,
     Recovery!Steps, Recovery!OrNone
<1> QED
  BY <1>1 DEF RecoveryInHand, RecoveryKnown

\* Handlers that begin.
LEMMA RecoveryBeginKeeps ==
  ASSUME RecoveryInv, NEW h \in Handlers, NEW read \in Recovery!OrNone(LinkIds \cup CodeIds),
         NEW step \in Recovery!Steps \ {"idle"}, Recovery!Begin(h, step, read),
         step \notin {"mailing", "pairing", "linking", "sending", "setting", "marking", "confirming"},
         step = "hashing" => read \in LinkIds /\ links[read] = "open",
         step = "exchanging" => read \in CodeIds
  PROVE  RecoveryKept(h)
<1>1. /\ pc' \in [Handlers -> Recovery!Steps]
      /\ local' \in [Handlers -> Recovery!OrNone(LinkIds \cup CodeIds)]
      /\ links' = links /\ codes' = codes /\ resets' = resets /\ broken' = broken
      /\ pc[h] = "idle" /\ pc'[h] = step /\ local'[h] = read
      /\ \A g \in Handlers \ {h} : pc'[g] = pc[g] /\ local'[g] = local[g]
  BY DEF Recovery!Begin, Recovery!Goto, Recovery!Hold, RecoveryInv, Recovery!TypeOK
<1>2. RecoveryKnown(h)'
  BY <1>1 DEF RecoveryKnown
<1>3. ASSUME RecoverySolo(h)
      PROVE  RecoveryOneLink' /\ RecoveryOneCode' /\ RecoverySpent' /\ RecoveryInHand(h)'
  <2>1. broken \/ \A l \in LinkIds : resets[l] <= 1 /\ (links[l] = "open" => resets[l] # 1)
    BY <1>1, <1>3 DEF RecoverySolo, RecoveryOthersIdle, RecoverySpent
  <2>2. step = "hashing" => broken \/ resets[read] = 0
    BY <2>1 DEF RecoveryInv, Recovery!TypeOK
  <2> QED
    BY <1>1, <1>3, <2>1, <2>2 DEF RecoverySolo, RecoveryOneLink, RecoveryOneCode, RecoverySpent,
       RecoveryInHand
<1>4. RecoveryUnused'
  BY <1>1 DEF RecoveryInv, RecoveryUnused
<1> QED
  BY <1>1, <1>2, <1>3, <1>4 DEF RecoveryKept, RecoveryInv, Recovery!TypeOK

\* Every open row is used up.
LEMMA RecoveryUsedUp ==
  ASSUME NEW S, NEW f \in [S -> Recovery!Statuses]
  PROVE  /\ Recovery!AllUsed(f) \in [S -> Recovery!Statuses]
         /\ \A i \in S : Recovery!AllUsed(f)[i] # "open" /\ (f[i] # "none" => Recovery!AllUsed(f)[i] # "none")
                         /\ (f[i] = "none" => Recovery!AllUsed(f)[i] = "none")
  BY DEF Recovery!AllUsed, Recovery!Statuses

\* A link is saved: when there is no open one, it is the only one.
LEMMA RecoverySavedLink ==
  ASSUME RecoveryInv, Recovery!NewLink, resets' = resets
  PROVE  /\ links' \in [LinkIds -> Recovery!Statuses] /\ RecoveryUnused'
         /\ \A l \in LinkIds : links[l] # "none" => links'[l] # "none"
         /\ \A l \in LinkIds : links[l] = "none" => resets[l] = 0
         /\ (\A l \in LinkIds : links[l] # "open") =>
              RecoveryOneLink' /\ \A l \in LinkIds : links'[l] = "open" => resets[l] = 0
<1>1. PICK n \in LinkIds : links[n] = "none" /\ links' = [links EXCEPT ![n] = "open"]
  BY DEF Recovery!NewLink
<1> QED
  BY <1>1 DEF RecoveryInv, Recovery!TypeOK, RecoveryUnused, RecoveryOneLink, Recovery!Statuses

\* A step of any handler.
LEMMA RecoveryHandlerKeeps ==
  ASSUME RecoveryInv, NEW h \in Handlers, Recovery!HandlerStep(h)
  PROVE  RecoveryKept(h)
<1>0. /\ links \in [LinkIds -> Recovery!Statuses] /\ codes \in [CodeIds -> Recovery!Statuses]
      /\ resets \in [LinkIds -> 0 .. 2] /\ broken \in BOOLEAN
      /\ pc \in [Handlers -> Recovery!Steps]
      /\ local \in [Handlers -> Recovery!OrNone(LinkIds \cup CodeIds)]
      /\ RecoveryUnused /\ RecoveryKnown(h)
  BY DEF RecoveryInv, Recovery!TypeOK
<1>1. CASE Recovery!ForgotPassword(h) \/ Recovery!SendOtp(h)
  <2>1. None \in Recovery!OrNone(LinkIds \cup CodeIds)
    BY DEF Recovery!OrNone
  <2> QED
    BY <1>1, <2>1, RecoveryBeginKeeps DEF Recovery!ForgotPassword, Recovery!SendOtp, Recovery!Steps
<1>2. CASE Recovery!RevokeLinks(h)
  <2>1. /\ links' = Recovery!AllUsed(links) /\ codes' = codes /\ resets' = resets
        /\ broken' = broken
        /\ local' = local /\ Recovery!Goto(h, "mailing")
    BY <1>2 DEF Recovery!RevokeLinks
  <2>2. /\ pc' \in [Handlers -> Recovery!Steps] /\ pc'[h] = "mailing"
        /\ \A g \in Handlers \ {h} : pc'[g] = pc[g]
    BY <2>1, RecoveryGotoKeeps DEF Recovery!Steps
  <2>3. /\ links' \in [LinkIds -> Recovery!Statuses]
        /\ \A l \in LinkIds : /\ links'[l] # "open" /\ (links[l] # "none" => links'[l] # "none")
                              /\ (links[l] = "none" => links'[l] = "none")
    BY <1>0, <2>1, RecoveryUsedUp
  <2>4. RecoveryUnused' /\ RecoveryKnown(h)'
    BY <1>0, <2>1, <2>2, <2>3 DEF RecoveryUnused, RecoveryKnown
  <2>5. RecoverySolo(h) =>
          RecoveryOneLink' /\ RecoveryOneCode' /\ RecoverySpent' /\ RecoveryInHand(h)'
    BY <2>1, <2>2, <2>3 DEF RecoverySolo, RecoveryOneLink, RecoveryOneCode, RecoverySpent,
       RecoveryInHand
  <2> QED
    BY <1>0, <2>1, <2>2, <2>3, <2>4, <2>5 DEF RecoveryKept
<1>3. CASE Recovery!SaveLink(h)
  <2>1. /\ pc[h] = "mailing" /\ Recovery!NewLink /\ Recovery!Return(h)
        /\ codes' = codes /\ resets' = resets /\ broken' = broken
    BY <1>3 DEF Recovery!SaveLink
  <2>2. RecoverySolo(h) => RecoveryOneLink' /\ RecoveryOneCode' /\ RecoverySpent'
    <3> SUFFICES ASSUME RecoverySolo(h) PROVE RecoveryOneLink' /\ RecoveryOneCode' /\ RecoverySpent'
      OBVIOUS
    <3>1. \A l \in LinkIds : links[l] # "open"
      BY <2>1 DEF RecoverySolo, RecoveryInHand
    <3>2. RecoveryOneLink' /\ \A l \in LinkIds : links'[l] = "open" => resets[l] = 0
      BY <2>1, <3>1, RecoverySavedLink
    <3> QED
      BY <2>1, <3>2 DEF RecoverySolo, RecoveryOneCode, RecoverySpent
  <2> QED
    BY <1>0, <2>1, <2>2, RecoverySavedLink, RecoveryReturnKeeps DEF RecoveryKept
<1>4. ASSUME NEW l \in LinkIds, Recovery!ResetPassword(h, l)
      PROVE  RecoveryKept(h)
  <2>1. /\ links[l] = "open" /\ Recovery!Begin(h, "hashing", l)
        /\ l \in Recovery!OrNone(LinkIds \cup CodeIds)
    BY <1>4 DEF Recovery!ResetPassword, Recovery!OrNone
  <2> QED
    BY <2>1, RecoveryBeginKeeps DEF Recovery!Steps
<1>5. CASE Recovery!UpdateBoth(h)
  <2>0. codes' = codes /\ broken' = broken
    BY <1>5 DEF Recovery!UpdateBoth
  <2> DEFINE l == local[h]
  <2>1. CASE /\ pc[h] = "hashing" /\ Recovery!SetPassword(l) /\ Recovery!Goto(h, "marking")
             /\ UNCHANGED <<links, local>>
    <3>1. /\ pc' \in [Handlers -> Recovery!Steps] /\ pc'[h] = "marking"
          /\ \A g \in Handlers \ {h} : pc'[g] = pc[g]
          /\ links' = links /\ local' = local /\ l \in LinkIds /\ links[l] # "none"
      BY <1>0, <2>1, RecoveryGotoKeeps DEF Recovery!Steps, RecoveryKnown
    <3>2. /\ resets' \in [LinkIds -> 0 .. 2] /\ \A k \in LinkIds \ {l} : resets'[k] = resets[k]
          /\ (resets[l] = 0 => resets'[l] = 1)
      BY <1>0, <2>1, <3>1 DEF Recovery!SetPassword
    <3>3. RecoveryUnused' /\ RecoveryKnown(h)'
      BY <1>0, <3>1, <3>2 DEF RecoveryUnused, RecoveryKnown
    <3>4. RecoverySolo(h) => RecoveryOneLink' /\ RecoveryOneCode' /\ RecoveryInHand(h)'
      BY <2>0, <3>1 DEF RecoverySolo, RecoveryOneLink, RecoveryOneCode, RecoveryInHand
    <3>5. ASSUME RecoverySolo(h), ~broken', NEW k \in LinkIds
          PROVE  /\ resets'[k] <= 1
                 /\ resets'[k] = 1 /\ links'[k] = "open" => \E g \in Handlers :
                      pc'[g] = "marking" /\ local'[g] = k
      <4>1. CASE k = l
        <5>1. resets'[l] = 1
          BY <2>0, <2>1, <3>2, <3>5 DEF RecoverySolo, RecoveryInHand
        <5> QED
          BY <3>1, <4>1, <5>1
      <4>2. CASE k # l
        BY <2>0, <2>1, <3>1, <3>2, <3>5, <4>2 DEF RecoverySolo, RecoverySpent, RecoveryOthersIdle
      <4> QED
        BY <4>1, <4>2
    <3>6. RecoverySolo(h) => RecoverySpent'
      BY <3>5 DEF RecoverySpent
    <3> QED
      BY <1>0, <2>0, <3>1, <3>2, <3>3, <3>4, <3>6 DEF RecoveryKept
  <2>2. CASE /\ pc[h] = "hashing" /\ Recovery!MarkUsed(l) /\ Recovery!Goto(h, "setting")
             /\ UNCHANGED <<resets, local>>
    <3>1. /\ pc' \in [Handlers -> Recovery!Steps] /\ pc'[h] = "setting"
          /\ \A g \in Handlers \ {h} : pc'[g] = pc[g]
          /\ resets' = resets /\ local' = local /\ l \in LinkIds /\ links[l] # "none"
      BY <1>0, <2>2, RecoveryGotoKeeps DEF Recovery!Steps, RecoveryKnown
    <3>2. /\ links' \in [LinkIds -> Recovery!Statuses]
          /\ \A k \in LinkIds \ {l} : links'[k] = links[k]
          /\ links'[l] = "used"
      BY <1>0, <2>2, <3>1 DEF Recovery!MarkUsed, Recovery!Statuses
    <3>3. RecoveryUnused' /\ RecoveryKnown(h)'
      BY <1>0, <3>1, <3>2 DEF RecoveryUnused, RecoveryKnown
    <3>4. RecoverySolo(h) =>
            RecoveryOneLink' /\ RecoveryOneCode' /\ RecoveryInHand(h)' /\ RecoverySpent'
      BY <2>0, <2>2, <3>1, <3>2 DEF RecoverySolo, RecoveryOthersIdle, RecoveryOneLink,
         RecoveryOneCode, RecoveryInHand, RecoverySpent
    <3> QED
      BY <1>0, <2>0, <3>1, <3>2, <3>3, <3>4 DEF RecoveryKept
  <2>3. CASE pc[h] = "marking" /\ Recovery!MarkUsed(l) /\ Recovery!Return(h) /\ UNCHANGED resets
    <3>1. l \in LinkIds /\ links[l] # "none" /\ resets' = resets
      BY <1>0, <2>3 DEF RecoveryKnown
    <3>2. /\ links' \in [LinkIds -> Recovery!Statuses]
          /\ \A k \in LinkIds \ {l} : links'[k] = links[k]
          /\ links'[l] = "used"
      BY <1>0, <2>3, <3>1 DEF Recovery!MarkUsed, Recovery!Statuses
    <3>3. RecoveryUnused'
      BY <1>0, <3>1, <3>2 DEF RecoveryUnused
    <3>4. RecoverySolo(h) => RecoveryOneLink' /\ RecoveryOneCode' /\ RecoverySpent'
      BY <2>0, <2>3, <3>1, <3>2 DEF RecoverySolo, RecoveryOthersIdle, RecoveryOneLink,
         RecoveryOneCode, RecoverySpent
    <3> QED
      BY <1>0, <2>0, <2>3, <3>1, <3>2, <3>3, <3>4, RecoveryReturnKeeps DEF RecoveryKept
  <2>4. CASE pc[h] = "setting" /\ Recovery!SetPassword(l) /\ Recovery!Return(h) /\ UNCHANGED links
    <3>1. l \in LinkIds /\ links[l] # "none" /\ links' = links
      BY <1>0, <2>4 DEF RecoveryKnown
    <3>2. /\ resets' \in [LinkIds -> 0 .. 2] /\ \A k \in LinkIds \ {l} : resets'[k] = resets[k]
          /\ (resets[l] = 0 => resets'[l] = 1)
      BY <1>0, <2>4, <3>1 DEF Recovery!SetPassword
    <3>3. RecoveryUnused'
      BY <1>0, <3>1, <3>2 DEF RecoveryUnused
    <3>4. RecoverySolo(h) => RecoveryOneLink' /\ RecoveryOneCode'
      BY <2>0, <3>1 DEF RecoverySolo, RecoveryOneLink, RecoveryOneCode
    <3>5. ASSUME RecoverySolo(h), ~broken', NEW k \in LinkIds
          PROVE  resets'[k] <= 1 /\ ~(resets'[k] = 1 /\ links'[k] = "open")
      <4>1. CASE k = l
        BY <2>0, <2>4, <3>1, <3>2, <3>5, <4>1 DEF RecoverySolo, RecoveryInHand
      <4>2. CASE k # l
        BY <2>0, <2>4, <3>1, <3>2, <3>5, <4>2 DEF RecoverySolo, RecoverySpent, RecoveryOthersIdle
      <4> QED
        BY <4>1, <4>2
    <3>6. RecoverySolo(h) => RecoverySpent'
      BY <3>5 DEF RecoverySpent
    <3> QED
      BY <1>0, <2>0, <2>4, <3>1, <3>2, <3>3, <3>4, <3>6, RecoveryReturnKeeps DEF RecoveryKept
  <2> QED
    BY <1>5, <2>1, <2>2, <2>3, <2>4 DEF Recovery!UpdateBoth
<1>6. CASE Recovery!RevokeCodes(h)
  <2>1. /\ codes' = Recovery!AllUsed(codes) /\ links' = links /\ resets' = resets
        /\ broken' = broken
        /\ local' = local /\ Recovery!Goto(h, "sending")
    BY <1>6 DEF Recovery!RevokeCodes
  <2>2. /\ pc' \in [Handlers -> Recovery!Steps] /\ pc'[h] = "sending"
        /\ \A g \in Handlers \ {h} : pc'[g] = pc[g]
    BY <2>1, RecoveryGotoKeeps DEF Recovery!Steps
  <2>3. codes' \in [CodeIds -> Recovery!Statuses] /\ \A c \in CodeIds : codes'[c] # "open"
    BY <1>0, <2>1, RecoveryUsedUp
  <2>4. RecoveryUnused' /\ RecoveryKnown(h)'
    BY <1>0, <2>1, <2>2 DEF RecoveryUnused, RecoveryKnown
  <2>5. RecoverySolo(h) =>
          RecoveryOneLink' /\ RecoveryOneCode' /\ RecoverySpent' /\ RecoveryInHand(h)'
    BY <1>6, <2>1, <2>2, <2>3 DEF Recovery!RevokeCodes, RecoverySolo, RecoveryOthersIdle,
       RecoveryOneLink, RecoveryOneCode, RecoverySpent, RecoveryInHand
  <2> QED
    BY <1>0, <2>1, <2>2, <2>3, <2>4, <2>5 DEF RecoveryKept
<1>7. CASE Recovery!SaveCode(h)
  <2>1. /\ pc[h] = "sending" /\ Recovery!Return(h)
        /\ links' = links /\ resets' = resets /\ broken' = broken
    BY <1>7 DEF Recovery!SaveCode
  <2>2. PICK c \in CodeIds : codes[c] = "none" /\ codes' = [codes EXCEPT ![c] = "open"]
    BY <1>7 DEF Recovery!SaveCode
  <2>3. codes' \in [CodeIds -> Recovery!Statuses]
    BY <1>0, <2>2 DEF Recovery!Statuses
  <2>4. RecoverySolo(h) => RecoveryOneLink' /\ RecoveryOneCode' /\ RecoverySpent'
    BY <1>0, <2>1, <2>2 DEF RecoverySolo, RecoveryOthersIdle, RecoveryOneLink, RecoveryOneCode,
       RecoverySpent, RecoveryInHand
  <2>5. RecoveryUnused'
    BY <1>0, <2>1 DEF RecoveryUnused
  <2> QED
    BY <1>0, <2>1, <2>3, <2>4, <2>5, RecoveryReturnKeeps DEF RecoveryKept
<1>8. ASSUME NEW c \in CodeIds, Recovery!VerifyOtp(h, c)
      PROVE  RecoveryKept(h)
  <2>1. Recovery!Begin(h, "exchanging", c) /\ c \in Recovery!OrNone(LinkIds \cup CodeIds)
    BY <1>8 DEF Recovery!VerifyOtp, Recovery!OrNone
  <2> QED
    BY <2>1, RecoveryBeginKeeps DEF Recovery!Steps
<1>9. CASE Recovery!RevokeOldLinks(h)
  <2>1. /\ links' = Recovery!AllUsed(links) /\ codes' = codes /\ resets' = resets
        /\ broken' = broken
        /\ local' = local /\ Recovery!Goto(h, "pairing") /\ pc[h] = "exchanging"
    BY <1>9 DEF Recovery!RevokeOldLinks
  <2>2. /\ pc' \in [Handlers -> Recovery!Steps] /\ pc'[h] = "pairing"
        /\ \A g \in Handlers \ {h} : pc'[g] = pc[g]
    BY <2>1, RecoveryGotoKeeps DEF Recovery!Steps
  <2>3. /\ links' \in [LinkIds -> Recovery!Statuses]
        /\ \A l \in LinkIds : /\ links'[l] # "open" /\ (links[l] # "none" => links'[l] # "none")
                              /\ (links[l] = "none" => links'[l] = "none")
    BY <1>0, <2>1, RecoveryUsedUp
  <2>4. RecoveryUnused' /\ RecoveryKnown(h)'
    BY <1>0, <2>1, <2>2, <2>3 DEF RecoveryUnused, RecoveryKnown
  <2>5. RecoverySolo(h) =>
          RecoveryOneLink' /\ RecoveryOneCode' /\ RecoverySpent' /\ RecoveryInHand(h)'
    BY <2>1, <2>2, <2>3 DEF RecoverySolo, RecoveryOneLink, RecoveryOneCode, RecoverySpent,
       RecoveryInHand
  <2> QED
    BY <1>0, <2>1, <2>2, <2>3, <2>4, <2>5 DEF RecoveryKept
<1>10. CASE Recovery!Exchange(h)
  <2> DEFINE Confirm == codes' = [codes EXCEPT ![local[h]] = "used"]
  <2>0. resets' = resets /\ broken' = broken /\ pc[h] \in {"pairing", "confirming", "linking"}
    BY <1>10 DEF Recovery!Exchange
  <2>1. local[h] \in CodeIds
    BY <1>0, <2>0 DEF RecoveryKnown
  <2>2. Confirm => codes' \in [CodeIds -> Recovery!Statuses] /\ (RecoveryOneCode => RecoveryOneCode')
    BY <1>0, <2>1 DEF RecoveryOneCode, Recovery!Statuses
  <2>3. ASSUME Recovery!NewLink, pc[h] \in {"pairing", "linking"}, RecoverySolo(h)
        PROVE  RecoveryOneLink' /\ RecoverySpent'
    <3>1. \A l \in LinkIds : links[l] # "open"
      BY <2>3 DEF RecoverySolo, RecoveryInHand
    <3>2. RecoveryOneLink' /\ \A l \in LinkIds : links'[l] = "open" => resets[l] = 0
      BY <2>0, <2>3, <3>1, RecoverySavedLink
    <3> QED
      BY <2>0, <2>3, <3>2 DEF RecoverySolo, RecoverySpent
  <2>4. CASE /\ pc[h] = "pairing" /\ Recovery!NewLink /\ Recovery!Goto(h, "confirming")
             /\ UNCHANGED <<codes, local>>
    <3>1. /\ pc' \in [Handlers -> Recovery!Steps] /\ pc'[h] = "confirming"
          /\ \A g \in Handlers \ {h} : pc'[g] = pc[g]
      BY <2>4, RecoveryGotoKeeps DEF Recovery!Steps
    <3>2. RecoveryKnown(h)' /\ RecoveryInHand(h)'
      BY <2>1, <2>4, <3>1 DEF RecoveryKnown, RecoveryInHand
    <3>3. RecoverySolo(h) => RecoveryOneLink' /\ RecoveryOneCode' /\ RecoverySpent'
      BY <2>3, <2>4 DEF RecoverySolo, RecoveryOneCode
    <3> QED
      BY <1>0, <2>0, <2>4, <3>1, <3>2, <3>3, RecoverySavedLink DEF RecoveryKept
  <2>5. CASE /\ pc[h] = "pairing" /\ Confirm /\ Recovery!Goto(h, "linking")
             /\ UNCHANGED <<links, local>>
    <3>1. /\ pc' \in [Handlers -> Recovery!Steps] /\ pc'[h] = "linking"
          /\ \A g \in Handlers \ {h} : pc'[g] = pc[g]
      BY <2>5, RecoveryGotoKeeps DEF Recovery!Steps
    <3>2. RecoveryKnown(h)' /\ RecoveryUnused'
      BY <1>0, <2>0, <2>1, <2>5, <3>1 DEF RecoveryKnown, RecoveryUnused
    <3>3. RecoverySolo(h) =>
            RecoveryOneLink' /\ RecoveryOneCode' /\ RecoverySpent' /\ RecoveryInHand(h)'
      BY <2>0, <2>2, <2>5, <3>1 DEF RecoverySolo, RecoveryOthersIdle, RecoveryOneLink,
         RecoverySpent, RecoveryInHand
    <3> QED
      BY <1>0, <2>0, <2>2, <2>5, <3>1, <3>2, <3>3 DEF RecoveryKept
  <2>6. CASE pc[h] = "confirming" /\ Confirm /\ Recovery!Return(h) /\ UNCHANGED links
    <3>1. RecoveryUnused'
      BY <1>0, <2>0, <2>6 DEF RecoveryUnused
    <3>2. RecoverySolo(h) => RecoveryOneLink' /\ RecoveryOneCode' /\ RecoverySpent'
      BY <2>0, <2>2, <2>6 DEF RecoverySolo, RecoveryOthersIdle, RecoveryOneLink, RecoverySpent
    <3> QED
      BY <1>0, <2>0, <2>2, <2>6, <3>1, <3>2, RecoveryReturnKeeps DEF RecoveryKept
  <2>7. CASE pc[h] = "linking" /\ Recovery!NewLink /\ Recovery!Return(h) /\ UNCHANGED codes
    <3>1. RecoverySolo(h) => RecoveryOneLink' /\ RecoveryOneCode' /\ RecoverySpent'
      BY <2>3, <2>7 DEF RecoverySolo, RecoveryOneCode
    <3> QED
      BY <1>0, <2>0, <2>7, <3>1, RecoverySavedLink, RecoveryReturnKeeps DEF RecoveryKept
  <2> QED
    BY <1>10, <2>4, <2>5, <2>6, <2>7 DEF Recovery!Exchange
<1>11. CASE Recovery!Crash(h)
  <2>1. links' = links /\ codes' = codes /\ resets' = resets /\ broken' = TRUE /\ Recovery!Return(h)
    BY <1>11 DEF Recovery!Crash
  <2>2. broken' \in BOOLEAN
    BY <2>1, Zenon
  <2>3. /\ RecoveryUnused'
        /\ (RecoverySolo(h) => RecoveryOneLink' /\ RecoveryOneCode' /\ RecoverySpent')
    BY <1>0, <2>1 DEF RecoveryUnused, RecoverySolo, RecoveryOneLink, RecoveryOneCode, RecoverySpent
  <2> QED
    BY <1>0, <2>1, <2>2, <2>3, RecoveryReturnKeeps DEF RecoveryKept
<1> QED
  BY <1>1, <1>2, <1>3, <1>4, <1>5, <1>6, <1>7, <1>8, <1>9, <1>10, <1>11 DEF Recovery!HandlerStep

\* Every step keeps the invariant, and does what is said of every step.
LEMMA RecoveryStepHolds == RecoveryInv /\ RecoverySoloInv /\ [Recovery!Next]_(Recovery!vars) =>
                             RecoveryInv' /\ RecoverySoloInv'
<1> SUFFICES ASSUME RecoveryInv, RecoverySoloInv, [Recovery!Next]_(Recovery!vars)
             PROVE  RecoveryInv' /\ RecoverySoloInv'
  OBVIOUS
<1>1. CASE UNCHANGED Recovery!vars
  <2>1. RecoveryUnused' /\ (\A h \in Handlers : RecoveryKnown(h)')
    BY <1>1 DEF Recovery!vars, RecoveryInv, RecoveryUnused, RecoveryKnown
  <2>2. \A h \in Handlers : RecoveryInHand(h)' <=> RecoveryInHand(h)
    BY <1>1 DEF Recovery!vars, RecoveryInHand
  <2>3. /\ (RecoveryOneLink' <=> RecoveryOneLink) /\ (RecoveryOneCode' <=> RecoveryOneCode)
        /\ (RecoverySpent' <=> RecoverySpent)
    BY <1>1 DEF Recovery!vars, RecoveryOneLink, RecoveryOneCode, RecoverySpent
  <2> QED
    BY <1>1, <2>1, <2>2, <2>3 DEF Recovery!vars, Recovery!TypeOK, RecoveryInv, RecoverySoloInv,
       Alone, Recovery!InFlight
<1>2. ASSUME NEW h \in Handlers, Recovery!HandlerStep(h), Recovery!Overlap(h)
      PROVE  RecoveryInv' /\ RecoverySoloInv'
  <2>1. RecoveryKept(h)
    BY <1>2, RecoveryHandlerKeeps
  <2>2. overlapped' \in BOOLEAN
    BY <1>2 DEF Recovery!Overlap, RecoveryInv, Recovery!TypeOK
  <2>3. ASSUME NEW g \in Handlers
        PROVE  RecoveryKnown(g)'
    <3>1. CASE g = h
      BY <2>1, <3>1 DEF RecoveryKept
    <3>2. CASE g # h
      <4>1. pc'[g] = pc[g] /\ local'[g] = local[g] /\ RecoveryKnown(g)
        BY <2>1, <3>2 DEF RecoveryKept, RecoveryInv
      <4> QED
        BY <2>1, <4>1 DEF RecoveryKept, RecoveryKnown
    <3> QED
      BY <3>1, <3>2
  <2>4. RecoveryInv'
    BY <2>1, <2>2, <2>3 DEF RecoveryKept, RecoveryInv, Recovery!TypeOK
  <2>5. ASSUME ~overlapped'
        PROVE  /\ Alone' /\ RecoveryOneLink' /\ RecoveryOneCode' /\ RecoverySpent'
               /\ (\A g \in Handlers : RecoveryInHand(g)')
    <3>1. ~overlapped /\ \A g \in Handlers \ {h} : pc[g] = "idle" /\ pc'[g] = "idle"
      BY <1>2, <2>1, <2>5 DEF Recovery!Overlap, Recovery!InFlight, RecoveryKept
    <3>2. \A g \in Handlers \ {h} : RecoveryInHand(g)'
      BY <3>1 DEF RecoveryInHand
    <3>3. Alone'
      BY <3>1 DEF Alone, Recovery!InFlight
    <3>4. RecoverySolo(h)
      BY <3>1 DEF RecoverySoloInv, RecoverySolo, RecoveryOthersIdle
    <3> QED
      BY <2>1, <3>2, <3>3, <3>4 DEF RecoveryKept
  <2> QED
    BY <2>4, <2>5 DEF RecoverySoloInv, Alone
<1>3. CASE Recovery!Lapse
  <2>1. /\ resets' = resets /\ broken' = broken /\ pc' = pc /\ local' = local
        /\ overlapped' = overlapped
    BY <1>3 DEF Recovery!Lapse
  <2>2. /\ links' \in [LinkIds -> Recovery!Statuses] /\ codes' \in [CodeIds -> Recovery!Statuses]
        /\ \A l \in LinkIds :
             (links'[l] = "none" <=> links[l] = "none") /\ (links'[l] = "open" => links[l] = "open")
        /\ \A c \in CodeIds : codes'[c] = "open" => codes[c] = "open"
    BY <1>3 DEF Recovery!Lapse, RecoveryInv, Recovery!TypeOK, Recovery!Statuses
  <2>3. Recovery!TypeOK'
    BY <2>1, <2>2 DEF RecoveryInv, Recovery!TypeOK
  <2>4. RecoveryUnused' /\ \A h \in Handlers : RecoveryKnown(h)'
    BY <2>1, <2>2 DEF RecoveryInv, RecoveryUnused, RecoveryKnown
  <2>5. /\ \A h \in Handlers : pc[h] = "setting" => local[h] \in LinkIds
        /\ \A h \in Handlers : RecoveryKnown(h)
    BY DEF RecoveryInv, RecoveryKnown
  <2>6. \A h \in Handlers : RecoveryInHand(h) => RecoveryInHand(h)'
    BY <2>1, <2>2, <2>5 DEF RecoveryInHand
  <2>7. /\ (RecoveryOneLink => RecoveryOneLink') /\ (RecoveryOneCode => RecoveryOneCode')
        /\ (RecoverySpent => RecoverySpent')
    BY <2>1, <2>2 DEF RecoveryOneLink, RecoveryOneCode, RecoverySpent
  <2> QED
    BY <2>1, <2>3, <2>4, <2>6, <2>7 DEF RecoveryInv, RecoverySoloInv, Alone, Recovery!InFlight
<1> QED
  BY <1>1, <1>2, <1>3 DEF Recovery!Next

\* The invariant is enough.
LEMMA RecoveryPromised == RecoveryInv /\ RecoverySoloInv => Recovery!TypeOK /\ Recovery!LastLinkOnly
<1> SUFFICES ASSUME RecoveryInv, RecoverySoloInv, ~overlapped
             PROVE  Recovery!LastLinkOnly
  BY DEF RecoveryInv, Recovery!LastLinkOnly
<1>1. RecoveryOneLink /\ RecoveryOneCode /\ RecoverySpent
  BY DEF RecoverySoloInv
<1>2. ASSUME ~broken, NEW l \in LinkIds
      PROVE  resets[l] <= 1 /\ (Recovery!Quiet /\ resets[l] = 1 => links[l] # "open")
  BY <1>1, <1>2 DEF RecoverySpent, Recovery!Quiet, Recovery!InFlight
<1> QED
  BY <1>1, <1>2 DEF Recovery!LastLinkOnly, RecoveryOneLink, RecoveryOneCode

-----------------------------------------------------------------------------
(***************************************************************************)
(* the archive of attendance. No two transactions copy one record, as the  *)
(* key of the archive makes the second wait, and each deletes what it has  *)
(* copied.                                                                 *)
(***************************************************************************)
\* What is assumed of the constants.
LEMMA ArchiveGiven == AttendanceArchive!ArchiveAssumption
  BY RecordsAssumption

\* What a correction has found is there; a transaction that has copied holds what
\* is in the table still, and deletes what it copies.
ArchiveInHand(h) ==
  /\ pc[h] = "correcting" => records[local[h].record] # None
  /\ pc[h] = "begun" => \A i \in RecordIds : local[h].copies[i] = None
  /\ pc[h] \in {"copied", "deleted"} =>
       \A i \in RecordIds : local[h].copies[i] # None =>
         /\ i \in local[h].due /\ records[i] # None
         /\ local[h].copies[i] = [copied |-> records[i].copied]
  /\ pc[h] = "copied" => \A i \in local[h].due : records[i] # None => local[h].copies[i] # None
  /\ pc[h] = "deleted" => \A i \in RecordIds : i \in local[h].gone <=> local[h].copies[i] # None

\* No record is corrected during a transaction.
ArchiveApart == \A g, h \in Handlers : ~(pc[g] = "correcting" /\ AttendanceArchive!InTx(h))
\* No two transactions hold a copy of one record.
ArchiveExclusive ==
  \A g, h \in Handlers : AttendanceArchive!InTx(g) /\ AttendanceArchive!InTx(h) /\ g # h =>
  \A i \in RecordIds : local[g].copies[i] = None \/ local[h].copies[i] = None
\* A record is in one of the tables, as it was saved last; in the archive with the
\* columns that are copied.
ArchiveIntact == \A i \in RecordIds :
  /\ records[i] = None <=> archive[i] # None
  /\ records[i] # None => records[i] = AttendanceArchive!Row(last[i])
  /\ archive[i] # None => archive[i] = [copied |-> last[i]]
\* What holds unless a correction raced a transaction.
ArchiveSound == /\ ArchiveApart /\ ArchiveExclusive /\ ArchiveIntact
                /\ \A h \in Handlers : ArchiveInHand(h)

\* What holds however handlers interleave.
ArchiveInv == /\ AttendanceArchive!TypeOK
              /\ local \in [Handlers -> AttendanceArchive!Read \cup AttendanceArchive!Tx]
\* What holds as long as they do not overlap.
ArchiveSoloInv == ~raced => ArchiveSound

\* Types of the next state.
ArchiveTyped(h) ==
  /\ records' \in [RecordIds -> AttendanceArchive!OrNone(AttendanceArchive!Rows)]
  /\ archive' \in [RecordIds -> AttendanceArchive!OrNone(AttendanceArchive!Copies)]
  /\ old' \subseteq RecordIds /\ last' \in [RecordIds -> AttendanceArchive!Versions]
  /\ raced' \in BOOLEAN
  /\ pc' \in [Handlers -> AttendanceArchive!Steps]
  /\ local' \in [Handlers -> AttendanceArchive!Read \cup AttendanceArchive!Tx]
  /\ local'[h] \in IF pc'[h] = "correcting" THEN AttendanceArchive!Read ELSE AttendanceArchive!Tx
  /\ \A g \in Handlers \ {h} : pc'[g] = pc[g] /\ local'[g] = local[g]
  /\ raced => raced'

\* A transaction begins with no copies.
LEMMA ArchiveNothing == /\ AttendanceArchive!NoTx \in AttendanceArchive!Tx
                        /\ \A i \in RecordIds : AttendanceArchive!NoTx.copies[i] = None
  BY DEF AttendanceArchive!NoTx, AttendanceArchive!Tx, AttendanceArchive!OrNone

\* No version is None, in a row or in a copy.
LEMMA ArchiveThere ==
  ASSUME NEW v \in AttendanceArchive!Versions
  PROVE  /\ AttendanceArchive!Row(v) \in AttendanceArchive!Rows
         /\ AttendanceArchive!Row(v) # None /\ AttendanceArchive!Row(v).copied = v
         /\ [copied |-> v] \in AttendanceArchive!Copies /\ [copied |-> v] # None
<1>1. /\ AttendanceArchive!Row(v) \in AttendanceArchive!Rows
      /\ AttendanceArchive!Row(v).copied = v
      /\ [copied |-> v] \in AttendanceArchive!Copies
  BY DEF AttendanceArchive!Row, AttendanceArchive!Rows, AttendanceArchive!Copies
<1>2. None \notin AttendanceArchive!Rows /\ None \notin AttendanceArchive!Copies
  BY ArchiveGiven DEF AttendanceArchive!ArchiveAssumption
<1> QED
  BY <1>1, <1>2, Zenon

\* The initial states have the invariant.
LEMMA ArchiveInitHolds == AttendanceArchive!Init => ArchiveInv /\ ArchiveSoloInv
<1> SUFFICES ASSUME AttendanceArchive!Init PROVE ArchiveInv /\ ArchiveSoloInv
  OBVIOUS
<1>1. /\ overlapped = FALSE /\ raced = FALSE /\ old = {}
      /\ pc = [h \in Handlers |-> "idle"] /\ local = [h \in Handlers |-> AttendanceArchive!NoTx]
      /\ records = [i \in RecordIds |-> AttendanceArchive!Row(0)] /\ last = [i \in RecordIds |-> 0]
      /\ archive = [i \in RecordIds |-> None]
  BY DEF AttendanceArchive!Init, AttendanceArchive!AllIdle
<1>2. overlapped \in BOOLEAN /\ raced \in BOOLEAN
  BY <1>1, Zenon
<1>7. 0 \in AttendanceArchive!Versions
  BY ArchiveGiven DEF AttendanceArchive!ArchiveAssumption, AttendanceArchive!Versions
<1>3. /\ 0 \in AttendanceArchive!Versions
      /\ AttendanceArchive!Row(0) \in AttendanceArchive!Rows /\ AttendanceArchive!Row(0) # None
  BY <1>7, ArchiveThere
<1>4. /\ local \in [Handlers -> AttendanceArchive!Read \cup AttendanceArchive!Tx]
      /\ \A h \in Handlers : local[h] \in AttendanceArchive!Tx /\ pc[h] = "idle"
  BY <1>1, ArchiveNothing
<1>5. AttendanceArchive!TypeOK
  BY <1>1, <1>2, <1>3, <1>4 DEF AttendanceArchive!TypeOK, AttendanceArchive!OrNone,
     AttendanceArchive!Steps
<1>6. ArchiveSound
  BY <1>1, <1>3 DEF ArchiveSound, ArchiveApart, ArchiveExclusive, ArchiveIntact, ArchiveInHand,
     AttendanceArchive!InTx
<1> QED
  BY <1>4, <1>5, <1>6 DEF ArchiveInv, ArchiveSoloInv

\* What every step does with pc and local.
LEMMA ArchiveMoved ==
  ASSUME ArchiveInv, NEW h \in Handlers, NEW step \in AttendanceArchive!Steps, NEW read,
         read \in IF step = "correcting" THEN AttendanceArchive!Read ELSE AttendanceArchive!Tx,
         AttendanceArchive!Goto(h, step), AttendanceArchive!Hold(h, read)
  PROVE  /\ pc' \in [Handlers -> AttendanceArchive!Steps]
         /\ local' \in [Handlers -> AttendanceArchive!Read \cup AttendanceArchive!Tx]
         /\ local'[h] \in IF pc'[h] = "correcting" THEN AttendanceArchive!Read ELSE AttendanceArchive!Tx
         /\ pc'[h] = step /\ local'[h] = read
         /\ \A g \in Handlers \ {h} : pc'[g] = pc[g] /\ local'[g] = local[g]
<1>1. read \in AttendanceArchive!Read \cup AttendanceArchive!Tx
  OBVIOUS
<1> QED
  BY <1>1 DEF ArchiveInv, AttendanceArchive!TypeOK, AttendanceArchive!Goto, AttendanceArchive!Hold

\* A handler that returns.
LEMMA ArchiveReturnMoves ==
  ASSUME ArchiveInv, NEW h \in Handlers, AttendanceArchive!Return(h)
  PROVE  /\ pc' \in [Handlers -> AttendanceArchive!Steps]
         /\ local' \in [Handlers -> AttendanceArchive!Read \cup AttendanceArchive!Tx]
         /\ local'[h] \in IF pc'[h] = "correcting" THEN AttendanceArchive!Read ELSE AttendanceArchive!Tx
         /\ pc'[h] = "idle" /\ local'[h] = AttendanceArchive!NoTx
         /\ \A g \in Handlers \ {h} : pc'[g] = pc[g] /\ local'[g] = local[g]
<1>1. /\ "idle" \in AttendanceArchive!Steps
      /\ AttendanceArchive!NoTx \in (IF "idle" = "correcting" THEN AttendanceArchive!Read ELSE AttendanceArchive!Tx)
  BY ArchiveNothing DEF AttendanceArchive!Steps
<1> QED
  BY <1>1, ArchiveMoved DEF AttendanceArchive!Return

\* The handler that moved aside, nothing is disturbed when the tables stay.
LEMMA ArchiveOthersSound ==
  ASSUME ArchiveInv, ArchiveSound, NEW h \in Handlers,
         records' = records, archive' = archive, last' = last,
         \A g \in Handlers \ {h} : pc'[g] = pc[g] /\ local'[g] = local[g],
         ArchiveInHand(h)',
         pc'[h] = "correcting" => \A g \in Handlers \ {h} : ~AttendanceArchive!InTx(g),
         AttendanceArchive!InTx(h)' => \A g \in Handlers \ {h} : pc[g] # "correcting",
         AttendanceArchive!InTx(h)' => \A i \in RecordIds : local'[h].copies[i] # None =>
           ~AttendanceArchive!KeyLocked(h, i)
  PROVE  ArchiveSound'
<1>1. ArchiveApart'
  BY DEF ArchiveSound, ArchiveApart, AttendanceArchive!InTx
<1>2. ArchiveExclusive'
  BY DEF ArchiveSound, ArchiveExclusive, AttendanceArchive!InTx, AttendanceArchive!KeyLocked
<1>3. ArchiveIntact'
  BY DEF ArchiveSound, ArchiveIntact
<1>4. ASSUME NEW g \in Handlers
      PROVE  ArchiveInHand(g)'
  BY DEF ArchiveSound, ArchiveInHand
<1> QED
  BY <1>1, <1>2, <1>3, <1>4 DEF ArchiveSound

\* A step of any handler.
LEMMA ArchiveHandlerKeeps ==
  ASSUME ArchiveInv, NEW h \in Handlers, AttendanceArchive!HandlerStep(h)
  PROVE  ArchiveTyped(h) /\ (~raced' /\ ArchiveSound => ArchiveSound')
<1>0. /\ records \in [RecordIds -> AttendanceArchive!OrNone(AttendanceArchive!Rows)]
      /\ archive \in [RecordIds -> AttendanceArchive!OrNone(AttendanceArchive!Copies)]
      /\ old \subseteq RecordIds /\ last \in [RecordIds -> AttendanceArchive!Versions]
      /\ raced \in BOOLEAN
      /\ MaxSaves \in Nat
  BY ArchiveGiven DEF ArchiveInv, AttendanceArchive!TypeOK, AttendanceArchive!ArchiveAssumption
<1>1. CASE AttendanceArchive!BeginTx(h)
  <2> DEFINE read == [AttendanceArchive!NoTx EXCEPT !.due = old]
  <2>1. read \in AttendanceArchive!Tx /\ \A i \in RecordIds : read.copies[i] = None
    BY <1>0 DEF AttendanceArchive!NoTx, AttendanceArchive!Tx, AttendanceArchive!OrNone
  <2>2. /\ AttendanceArchive!Goto(h, "begun") /\ AttendanceArchive!Hold(h, read)
        /\ records' = records /\ archive' = archive /\ old' = old /\ last' = last
        /\ raced' = (raced \/ \E g \in Handlers : pc[g] = "correcting")
    BY <1>1 DEF AttendanceArchive!BeginTx
  <2> HIDE DEF read
  <2>3. /\ "begun" \in AttendanceArchive!Steps
        /\ read \in (IF "begun" = "correcting" THEN AttendanceArchive!Read ELSE AttendanceArchive!Tx)
    BY <2>1 DEF AttendanceArchive!Steps
  <2>4. /\ pc' \in [Handlers -> AttendanceArchive!Steps]
        /\ local' \in [Handlers -> AttendanceArchive!Read \cup AttendanceArchive!Tx]
        /\ local'[h] \in IF pc'[h] = "correcting" THEN AttendanceArchive!Read ELSE AttendanceArchive!Tx
        /\ pc'[h] = "begun" /\ local'[h] = read
        /\ \A g \in Handlers \ {h} : pc'[g] = pc[g] /\ local'[g] = local[g]
    BY <2>2, <2>3, ArchiveMoved
  <2>5. ArchiveTyped(h)
    BY <1>0, <2>2, <2>4 DEF ArchiveTyped
  <2>6. ArchiveInHand(h)'
    BY <2>1, <2>4 DEF ArchiveInHand
  <2>7. ~raced' => \A g \in Handlers : pc[g] # "correcting"
    BY <2>2
  <2> QED
    BY <2>1, <2>2, <2>4, <2>5, <2>6, <2>7, ArchiveOthersSound
<1>2. CASE AttendanceArchive!Copy(h)
  <2> DEFINE named == AttendanceArchive!There(local[h].due)
             copies == [i \in RecordIds |->
                          IF i \in named /\ archive[i] = None THEN [copied |-> records[i].copied] ELSE None]
             read == [local[h] EXCEPT !.copies = copies]
  <2>1. /\ pc[h] = "begun" /\ \A i \in named : ~AttendanceArchive!KeyLocked(h, i)
        /\ AttendanceArchive!Goto(h, "copied") /\ AttendanceArchive!Hold(h, read)
        /\ records' = records /\ archive' = archive /\ old' = old /\ last' = last /\ raced' = raced
    BY <1>2 DEF AttendanceArchive!Copy
  <2>2. local[h] \in AttendanceArchive!Tx
    BY <2>1 DEF ArchiveInv, AttendanceArchive!TypeOK
  <2>10. \A i \in RecordIds : i \in named =>
           /\ [copied |-> records[i].copied] \in AttendanceArchive!Copies
           /\ [copied |-> records[i].copied] # None
    <3> SUFFICES ASSUME NEW i \in RecordIds, i \in named
                 PROVE  /\ [copied |-> records[i].copied] \in AttendanceArchive!Copies
                        /\ [copied |-> records[i].copied] # None
      OBVIOUS
    <3>1. records[i] \in AttendanceArchive!Rows
      BY <1>0 DEF AttendanceArchive!There, AttendanceArchive!OrNone
    <3>2. records[i].copied \in AttendanceArchive!Versions
      BY <3>1 DEF AttendanceArchive!Rows
    <3> QED
      BY <3>2, ArchiveThere
  <2>3. copies \in [RecordIds -> AttendanceArchive!OrNone(AttendanceArchive!Copies)]
    BY <2>10 DEF AttendanceArchive!OrNone
  <2>4. \A i \in RecordIds :
          copies[i] = IF i \in named /\ archive[i] = None THEN [copied |-> records[i].copied] ELSE None
    OBVIOUS
  <2> HIDE DEF copies
  <2>5. read \in AttendanceArchive!Tx /\ read.due = local[h].due /\ read.copies = copies
    BY <2>2, <2>3 DEF AttendanceArchive!Tx
  <2> HIDE DEF read
  <2>6. /\ "copied" \in AttendanceArchive!Steps
        /\ read \in (IF "copied" = "correcting" THEN AttendanceArchive!Read ELSE AttendanceArchive!Tx)
    BY <2>5 DEF AttendanceArchive!Steps
  <2>7. /\ pc' \in [Handlers -> AttendanceArchive!Steps]
        /\ local' \in [Handlers -> AttendanceArchive!Read \cup AttendanceArchive!Tx]
        /\ local'[h] \in IF pc'[h] = "correcting" THEN AttendanceArchive!Read ELSE AttendanceArchive!Tx
        /\ pc'[h] = "copied" /\ local'[h] = read
        /\ \A g \in Handlers \ {h} : pc'[g] = pc[g] /\ local'[g] = local[g]
    BY <2>1, <2>6, ArchiveMoved
  <2>8. ArchiveTyped(h)
    BY <1>0, <2>1, <2>7 DEF ArchiveTyped
  <2>9. ASSUME ArchiveSound
        PROVE  ArchiveSound'
    <3>1. read.due \subseteq RecordIds
      BY <2>2, <2>5 DEF AttendanceArchive!Tx
    <3>2. \A i \in RecordIds : copies[i] # None =>
            i \in named /\ copies[i] = [copied |-> records[i].copied]
      BY <2>4
    <3>3. \A i \in RecordIds : i \in named => i \in local[h].due /\ records[i] # None
      BY DEF AttendanceArchive!There
    <3>4. \A i \in RecordIds : i \in local[h].due /\ records[i] # None =>
            i \in named /\ archive[i] = None
      BY <2>9 DEF AttendanceArchive!There, ArchiveSound, ArchiveIntact
    <3>5. ArchiveInHand(h)'
      <4>1. \A i \in RecordIds : local'[h].copies[i] # None =>
               /\ i \in local'[h].due /\ records'[i] # None
               /\ local'[h].copies[i] = [copied |-> records'[i].copied]
        BY <2>1, <2>5, <2>7, <3>2, <3>3
      <4>2. \A i \in local'[h].due : records'[i] # None => local'[h].copies[i] # None
        BY <2>1, <2>4, <2>5, <2>7, <2>10, <3>1, <3>4
      <4> QED
        BY <2>7, <4>1, <4>2 DEF ArchiveInHand
    <3>6. \A g \in Handlers \ {h} : pc[g] # "correcting"
      BY <2>1, <2>9 DEF ArchiveSound, ArchiveApart, AttendanceArchive!InTx
    <3>7. \A i \in RecordIds : local'[h].copies[i] # None => ~AttendanceArchive!KeyLocked(h, i)
      BY <2>1, <2>5, <2>7, <3>2
    <3> QED
      BY <2>1, <2>7, <2>9, <3>5, <3>6, <3>7, ArchiveOthersSound
  <2> QED
    BY <2>8, <2>9
<1>3. CASE AttendanceArchive!Delete(h)
  <2> DEFINE named == AttendanceArchive!There(local[h].due)
             read == [local[h] EXCEPT !.gone = named]
  <2>1. /\ pc[h] = "copied" /\ AttendanceArchive!Goto(h, "deleted")
        /\ AttendanceArchive!Hold(h, read)
        /\ records' = records /\ archive' = archive /\ old' = old /\ last' = last /\ raced' = raced
    BY <1>3 DEF AttendanceArchive!Delete, AttendanceArchive!DeleteOf
  <2>2. local[h] \in AttendanceArchive!Tx
    BY <2>1 DEF ArchiveInv, AttendanceArchive!TypeOK
  <2>3. named \subseteq RecordIds
    BY <2>2 DEF AttendanceArchive!There, AttendanceArchive!Tx
  <2>4. /\ read \in AttendanceArchive!Tx /\ read.due = local[h].due /\ read.copies = local[h].copies
        /\ read.gone = named
    BY <2>2, <2>3 DEF AttendanceArchive!Tx
  <2> HIDE DEF read
  <2>5. /\ "deleted" \in AttendanceArchive!Steps
        /\ read \in (IF "deleted" = "correcting" THEN AttendanceArchive!Read ELSE AttendanceArchive!Tx)
    BY <2>4 DEF AttendanceArchive!Steps
  <2>6. /\ pc' \in [Handlers -> AttendanceArchive!Steps]
        /\ local' \in [Handlers -> AttendanceArchive!Read \cup AttendanceArchive!Tx]
        /\ local'[h] \in IF pc'[h] = "correcting" THEN AttendanceArchive!Read ELSE AttendanceArchive!Tx
        /\ pc'[h] = "deleted" /\ local'[h] = read
        /\ \A g \in Handlers \ {h} : pc'[g] = pc[g] /\ local'[g] = local[g]
    BY <2>1, <2>5, ArchiveMoved
  <2>7. ArchiveTyped(h)
    BY <1>0, <2>1, <2>6 DEF ArchiveTyped
  <2>8. ASSUME ArchiveSound
        PROVE  ArchiveSound'
    <3>1. \A i \in RecordIds : i \in named <=> local[h].copies[i] # None
      BY <2>1, <2>8 DEF AttendanceArchive!There, ArchiveSound, ArchiveInHand
    <3>2. ArchiveInHand(h)'
      BY <2>1, <2>4, <2>6, <2>8, <3>1 DEF ArchiveSound, ArchiveInHand
    <3>3. \A g \in Handlers \ {h} : pc[g] # "correcting"
      BY <2>1, <2>8 DEF ArchiveSound, ArchiveApart, AttendanceArchive!InTx
    <3>4. \A i \in RecordIds : local'[h].copies[i] # None => ~AttendanceArchive!KeyLocked(h, i)
      BY <2>1, <2>4, <2>6, <2>8 DEF ArchiveSound, ArchiveExclusive, AttendanceArchive!KeyLocked,
         AttendanceArchive!InTx
    <3> QED
      BY <2>1, <2>6, <2>8, <3>2, <3>3, <3>4, ArchiveOthersSound
  <2> QED
    BY <2>7, <2>8
<1>4. CASE AttendanceArchive!Commit(h)
  <2>1. /\ pc[h] = "deleted" /\ AttendanceArchive!Return(h) /\ old' = old /\ last' = last
        /\ raced' = raced
        /\ archive' = [i \in RecordIds |-> IF local[h].copies[i] # None THEN local[h].copies[i] ELSE archive[i]]
        /\ records' = [i \in RecordIds |-> IF i \in local[h].gone THEN None ELSE records[i]]
    BY <1>4 DEF AttendanceArchive!Commit
  <2>2. local[h] \in AttendanceArchive!Tx
    BY <2>1 DEF ArchiveInv, AttendanceArchive!TypeOK
  <2>3. local[h].copies \in [RecordIds -> AttendanceArchive!OrNone(AttendanceArchive!Copies)]
    BY <2>2 DEF AttendanceArchive!Tx
  <2>4. /\ records' \in [RecordIds -> AttendanceArchive!OrNone(AttendanceArchive!Rows)]
        /\ archive' \in [RecordIds -> AttendanceArchive!OrNone(AttendanceArchive!Copies)]
    BY <1>0, <2>1, <2>3 DEF AttendanceArchive!OrNone
  <2>5. /\ pc' \in [Handlers -> AttendanceArchive!Steps]
        /\ local' \in [Handlers -> AttendanceArchive!Read \cup AttendanceArchive!Tx]
        /\ local'[h] \in IF pc'[h] = "correcting" THEN AttendanceArchive!Read ELSE AttendanceArchive!Tx
        /\ pc'[h] = "idle" /\ local'[h] = AttendanceArchive!NoTx
        /\ \A g \in Handlers \ {h} : pc'[g] = pc[g] /\ local'[g] = local[g]
    BY <2>1, ArchiveReturnMoves
  <2>6. ArchiveTyped(h)
    BY <1>0, <2>1, <2>4, <2>5 DEF ArchiveTyped
  <2>7. ASSUME ArchiveSound
        PROVE  ArchiveSound'
    <3>1. \A i \in RecordIds : local[h].copies[i] # None =>
            /\ i \in local[h].gone /\ records[i] # None
            /\ local[h].copies[i] = [copied |-> records[i].copied]
      BY <2>1, <2>7 DEF ArchiveSound, ArchiveInHand
    <3>2. \A i \in RecordIds : local[h].copies[i] = None => i \notin local[h].gone
      BY <2>1, <2>7 DEF ArchiveSound, ArchiveInHand
    <3>3. \A i \in RecordIds :
            IF local[h].copies[i] = None
              THEN records'[i] = records[i] /\ archive'[i] = archive[i]
              ELSE /\ records'[i] = None /\ records[i] # None /\ archive'[i] # None
                   /\ archive'[i] = [copied |-> records[i].copied]
      BY <2>1, <3>1, <3>2
    <3>4. ArchiveIntact'
      <4> SUFFICES ASSUME NEW i \in RecordIds
                   PROVE  /\ records'[i] = None <=> archive'[i] # None
                          /\ records'[i] # None => records'[i] = AttendanceArchive!Row(last'[i])
                          /\ archive'[i] # None => archive'[i] = [copied |-> last'[i]]
        BY DEF ArchiveIntact, AttendanceArchive!Row
      <4>1. /\ records[i] = None <=> archive[i] # None
            /\ records[i] # None => records[i] = AttendanceArchive!Row(last[i])
            /\ archive[i] # None => archive[i] = [copied |-> last[i]]
        BY <2>7 DEF ArchiveSound, ArchiveIntact
      <4>2. AttendanceArchive!Row(last[i]).copied = last[i]
        BY <1>0, ArchiveThere
      <4>3. CASE local[h].copies[i] = None
        BY <2>1, <3>3, <4>1, <4>3
      <4>4. CASE local[h].copies[i] # None
        <5>1. /\ records'[i] = None /\ archive'[i] # None /\ last'[i] = last[i]
              /\ records[i] # None /\ archive'[i] = [copied |-> records[i].copied]
          BY <2>1, <3>3, <4>4
        <5>2. records[i].copied = last[i]
          BY <4>1, <4>2, <5>1
        <5> QED
          BY <5>1, <5>2
      <4> QED
        BY <4>3, <4>4
    <3>5. ArchiveApart'
      BY <2>5, <2>7 DEF ArchiveSound, ArchiveApart, AttendanceArchive!InTx
    <3>6. ArchiveExclusive'
      BY <2>5, <2>7 DEF ArchiveSound, ArchiveExclusive, AttendanceArchive!InTx
    <3>7. ASSUME NEW g \in Handlers \ {h}
          PROVE  ArchiveInHand(g)'
      <4>1. pc[g] # "correcting" /\ pc'[g] = pc[g] /\ local'[g] = local[g] /\ ArchiveInHand(g)
        BY <2>1, <2>5, <2>7 DEF ArchiveSound, ArchiveApart, AttendanceArchive!InTx
      <4>2. \A i \in RecordIds : AttendanceArchive!InTx(g) /\ local[g].copies[i] # None =>
              records'[i] = records[i]
        BY <2>1, <2>7, <3>3 DEF ArchiveSound, ArchiveExclusive, AttendanceArchive!InTx
      <4>3. \A i \in RecordIds : records'[i] # None => records'[i] = records[i]
        BY <3>3
      <4>4. pc[g] = "copied" => local[g].due \subseteq RecordIds
        BY DEF ArchiveInv, AttendanceArchive!TypeOK, AttendanceArchive!Tx
      <4> QED
        BY <4>1, <4>2, <4>3, <4>4 DEF ArchiveInHand, AttendanceArchive!InTx
    <3>8. ArchiveInHand(h)'
      BY <2>5 DEF ArchiveInHand
    <3> QED
      BY <3>4, <3>5, <3>6, <3>7, <3>8 DEF ArchiveSound
  <2> QED
    BY <2>6, <2>7
<1>5. CASE AttendanceArchive!Rollback(h)
  <2>1. /\ AttendanceArchive!Return(h) /\ records' = records /\ archive' = archive
        /\ old' = old /\ last' = last /\ raced' = raced
    BY <1>5 DEF AttendanceArchive!Rollback
  <2>2. /\ pc' \in [Handlers -> AttendanceArchive!Steps]
        /\ local' \in [Handlers -> AttendanceArchive!Read \cup AttendanceArchive!Tx]
        /\ local'[h] \in IF pc'[h] = "correcting" THEN AttendanceArchive!Read ELSE AttendanceArchive!Tx
        /\ pc'[h] = "idle" /\ local'[h] = AttendanceArchive!NoTx
        /\ \A g \in Handlers \ {h} : pc'[g] = pc[g] /\ local'[g] = local[g]
    BY <2>1, ArchiveReturnMoves
  <2>3. ArchiveTyped(h)
    BY <1>0, <2>1, <2>2 DEF ArchiveTyped
  <2>4. ArchiveInHand(h)' /\ ~AttendanceArchive!InTx(h)'
    BY <2>2 DEF ArchiveInHand, AttendanceArchive!InTx
  <2> QED
    BY <2>1, <2>2, <2>3, <2>4, ArchiveOthersSound
<1>6. CASE AttendanceArchive!Find(h)
  <2>1. PICK i \in RecordIds : /\ records[i] # None /\ last[i] < MaxSaves
                               /\ AttendanceArchive!Hold(h, [record |-> i, version |-> last[i] + 1])
    BY <1>6 DEF AttendanceArchive!Find
  <2> DEFINE read == [record |-> i, version |-> last[i] + 1]
  <2>2. /\ AttendanceArchive!Goto(h, "correcting")
        /\ raced' = (raced \/ \E g \in Handlers : AttendanceArchive!InTx(g))
        /\ records' = records /\ archive' = archive /\ old' = old /\ last' = last
    BY <1>6 DEF AttendanceArchive!Find
  <2>3. last[i] + 1 \in AttendanceArchive!Versions
    BY <1>0, <2>1 DEF AttendanceArchive!Versions
  <2>4. read \in AttendanceArchive!Read /\ read.record = i
    BY <2>3 DEF AttendanceArchive!Read
  <2>5. AttendanceArchive!Hold(h, read)
    BY <2>1
  <2> HIDE DEF read
  <2>6. /\ "correcting" \in AttendanceArchive!Steps
        /\ read \in (IF "correcting" = "correcting" THEN AttendanceArchive!Read ELSE AttendanceArchive!Tx)
    BY <2>4 DEF AttendanceArchive!Steps
  <2>7. /\ pc' \in [Handlers -> AttendanceArchive!Steps]
        /\ local' \in [Handlers -> AttendanceArchive!Read \cup AttendanceArchive!Tx]
        /\ local'[h] \in IF pc'[h] = "correcting" THEN AttendanceArchive!Read ELSE AttendanceArchive!Tx
        /\ pc'[h] = "correcting" /\ local'[h] = read
        /\ \A g \in Handlers \ {h} : pc'[g] = pc[g] /\ local'[g] = local[g]
    BY <2>2, <2>5, <2>6, ArchiveMoved
  <2>8. ArchiveTyped(h)
    BY <1>0, <2>2, <2>7 DEF ArchiveTyped
  <2>9. ArchiveInHand(h)' /\ ~AttendanceArchive!InTx(h)'
    BY <2>1, <2>2, <2>4, <2>7 DEF ArchiveInHand, AttendanceArchive!InTx
  <2>10. ~raced' => \A g \in Handlers : ~AttendanceArchive!InTx(g)
    BY <2>2
  <2> QED
    BY <2>2, <2>7, <2>8, <2>9, <2>10, ArchiveOthersSound
<1>7. CASE AttendanceArchive!Correct(h)
  <2> DEFINE i == local[h].record
             v == local[h].version
  <2>1. /\ pc[h] = "correcting" /\ AttendanceArchive!Return(h) /\ archive' = archive
        /\ old' = old /\ raced' = raced
        /\ last' = [last EXCEPT ![i] = v]
        /\ \/ records' = [records EXCEPT ![i] = AttendanceArchive!Row(v)]
           \/ records[i] = None /\ records' = records
    BY <1>7 DEF AttendanceArchive!Correct
  <2>2. i \in RecordIds /\ v \in AttendanceArchive!Versions
    BY <2>1 DEF ArchiveInv, AttendanceArchive!TypeOK, AttendanceArchive!Read
  <2> HIDE DEF i, v
  <2>7. AttendanceArchive!Row(v) \in AttendanceArchive!Rows /\ AttendanceArchive!Row(v) # None
    BY <2>2, ArchiveThere
  <2>3. /\ records' \in [RecordIds -> AttendanceArchive!OrNone(AttendanceArchive!Rows)]
        /\ last' \in [RecordIds -> AttendanceArchive!Versions]
    BY <1>0, <2>1, <2>2, <2>7 DEF AttendanceArchive!OrNone
  <2>4. /\ pc' \in [Handlers -> AttendanceArchive!Steps]
        /\ local' \in [Handlers -> AttendanceArchive!Read \cup AttendanceArchive!Tx]
        /\ local'[h] \in IF pc'[h] = "correcting" THEN AttendanceArchive!Read ELSE AttendanceArchive!Tx
        /\ pc'[h] = "idle" /\ local'[h] = AttendanceArchive!NoTx
        /\ \A g \in Handlers \ {h} : pc'[g] = pc[g] /\ local'[g] = local[g]
    BY <2>1, ArchiveReturnMoves
  <2>5. ArchiveTyped(h)
    BY <1>0, <2>1, <2>3, <2>4 DEF ArchiveTyped
  <2>6. ASSUME ArchiveSound
        PROVE  ArchiveSound'
    <3>1. records[i] # None
      BY <2>1, <2>6 DEF ArchiveSound, ArchiveInHand, i
    <3>2. /\ records'[i] = AttendanceArchive!Row(v) /\ last'[i] = v
          /\ \A j \in RecordIds \ {i} : records'[j] = records[j] /\ last'[j] = last[j]
      BY <1>0, <2>1, <2>2, <3>1
    <3>3. ArchiveIntact'
      <4> SUFFICES ASSUME NEW j \in RecordIds
                   PROVE  /\ records'[j] = None <=> archive'[j] # None
                          /\ records'[j] # None => records'[j] = AttendanceArchive!Row(last'[j])
                          /\ archive'[j] # None => archive'[j] = [copied |-> last'[j]]
        BY DEF ArchiveIntact, AttendanceArchive!Row
      <4> QED
        BY <2>1, <2>6, <2>7, <3>1, <3>2 DEF ArchiveSound, ArchiveIntact
    <3>4. \A g \in Handlers : ~AttendanceArchive!InTx(g) /\ ~AttendanceArchive!InTx(g)'
      BY <2>1, <2>4, <2>6 DEF ArchiveSound, ArchiveApart, AttendanceArchive!InTx
    <3>5. ArchiveApart' /\ ArchiveExclusive'
      BY <3>4 DEF ArchiveApart, ArchiveExclusive
    <3>6. ASSUME NEW g \in Handlers
          PROVE  ArchiveInHand(g)'
      <4>1. pc'[g] \notin {"begun", "copied", "deleted"}
        BY <3>4 DEF AttendanceArchive!InTx
      <4>2. pc'[g] = "correcting" => records'[local'[g].record] # None
        <5> SUFFICES ASSUME pc'[g] = "correcting" PROVE records'[local'[g].record] # None
          OBVIOUS
        <5>1. g # h /\ pc[g] = "correcting" /\ local'[g] = local[g]
          BY <2>4
        <5>2. local[g].record \in RecordIds /\ records[local[g].record] # None
          BY <2>6, <5>1 DEF ArchiveSound, ArchiveInHand, ArchiveInv, AttendanceArchive!TypeOK,
             AttendanceArchive!Read
        <5> QED
          BY <2>7, <3>1, <3>2, <5>1, <5>2
      <4> QED
        BY <4>1, <4>2 DEF ArchiveInHand
    <3> QED
      BY <3>3, <3>5, <3>6 DEF ArchiveSound
  <2> QED
    BY <2>5, <2>6
<1> QED
  BY <1>1, <1>2, <1>3, <1>4, <1>5, <1>6, <1>7 DEF AttendanceArchive!HandlerStep

\* Every step keeps the invariant, and does what is said of every step.
LEMMA ArchiveStepHolds ==
  ArchiveInv /\ ArchiveSoloInv /\ [AttendanceArchive!Next]_(AttendanceArchive!vars) =>
    ArchiveInv' /\ ArchiveSoloInv'
<1> SUFFICES ASSUME ArchiveInv, ArchiveSoloInv, [AttendanceArchive!Next]_(AttendanceArchive!vars)
             PROVE  ArchiveInv' /\ ArchiveSoloInv'
  OBVIOUS
<1>1. ASSUME records' = records, archive' = archive, last' = last, raced' = raced,
             pc' = pc, local' = local, overlapped' = overlapped, old' \subseteq RecordIds
      PROVE  ArchiveInv' /\ ArchiveSoloInv'
  <2>1. ArchiveInv'
    BY <1>1 DEF ArchiveInv, AttendanceArchive!TypeOK
  <2>2. /\ (ArchiveApart => ArchiveApart') /\ (ArchiveExclusive => ArchiveExclusive')
        /\ (ArchiveIntact => ArchiveIntact')
    BY <1>1 DEF ArchiveApart, ArchiveExclusive, ArchiveIntact, AttendanceArchive!InTx
  <2>3. \A h \in Handlers : ArchiveInHand(h) => ArchiveInHand(h)'
    BY <1>1 DEF ArchiveInHand
  <2> QED
    BY <1>1, <2>1, <2>2, <2>3 DEF ArchiveSoloInv, ArchiveSound
<1>2. ASSUME NEW h \in Handlers, AttendanceArchive!HandlerStep(h), AttendanceArchive!Overlap(h)
      PROVE  ArchiveInv' /\ ArchiveSoloInv'
  <2>1. ArchiveTyped(h) /\ (~raced' /\ ArchiveSound => ArchiveSound')
    BY <1>2, ArchiveHandlerKeeps
  <2>2. overlapped' \in BOOLEAN
    BY <1>2 DEF AttendanceArchive!Overlap, ArchiveInv, AttendanceArchive!TypeOK
  <2>3. \A g \in Handlers :
          local'[g] \in IF pc'[g] = "correcting" THEN AttendanceArchive!Read ELSE AttendanceArchive!Tx
    BY <2>1 DEF ArchiveTyped, ArchiveInv, AttendanceArchive!TypeOK
  <2>4. ArchiveInv'
    BY <2>1, <2>2, <2>3 DEF ArchiveTyped, ArchiveInv, AttendanceArchive!TypeOK
  <2> QED
    BY <2>1, <2>4 DEF ArchiveSoloInv, ArchiveTyped
<1>3. CASE AttendanceArchive!Age
  BY <1>1, <1>3 DEF AttendanceArchive!Age, ArchiveInv, AttendanceArchive!TypeOK
<1>4. CASE UNCHANGED AttendanceArchive!vars
  BY <1>1, <1>4 DEF AttendanceArchive!vars, ArchiveInv, AttendanceArchive!TypeOK
<1> QED
  BY <1>2, <1>3, <1>4 DEF AttendanceArchive!Next

\* The invariant is enough.
LEMMA ArchivePromised == ArchiveInv /\ ArchiveSoloInv =>
                           AttendanceArchive!TypeOK /\ AttendanceArchive!NothingLost
<1> SUFFICES ASSUME ArchiveInv, ArchiveSoloInv
             PROVE  AttendanceArchive!TypeOK /\ AttendanceArchive!NothingLost
  OBVIOUS
<1>1. ASSUME ~raced, NEW i \in RecordIds
      PROVE  \/ records[i] = AttendanceArchive!Row(last[i]) /\ archive[i] = None
             \/ records[i] = None /\ archive[i] = [copied |-> last[i]]
  BY <1>1 DEF ArchiveSoloInv, ArchiveSound, ArchiveIntact
<1> QED
  BY <1>1 DEF ArchiveInv, AttendanceArchive!NothingLost

-----------------------------------------------------------------------------
(***************************************************************************)
(* pushes. The messages of a job stand in the order of its devices,        *)
(* without repetition, every attempt sends what is left chunk by chunk,    *)
(* and notes the devices that Expo does not know before the next.          *)
(***************************************************************************)
\* Sizes are those of FiniteSets.
LEMMA PushCounts ==
  ASSUME NEW S
  PROVE  /\ Notifications!Cardinality(S) = Cardinality(S)
         /\ (Notifications!IsFiniteSet(S) <=> IsFiniteSet(S))
  BY DEF Notifications!Cardinality, Cardinality, Notifications!IsFiniteSet, IsFiniteSet

\* What is assumed of the constants.
LEMMA PushGiven ==
  /\ ChunkSize \in Nat \ {0} /\ Attempts \in Nat \ {0}
  /\ IsFiniteSet(Tokens)
  BY RecordsAssumption, PushCounts DEF Notifications!PushAssumption

\* Lists of devices.
PushLists == UNION {[1 .. n -> Tokens] : n \in 0 .. Cardinality(Tokens)}
\* What a job may be.
PushJobs ==
  [tokens : PushLists, left : PushLists, unknown : SUBSET Tokens, sent : [Tokens -> 0 .. Attempts],
   failures : 0 .. Attempts]

\* Nothing is listed twice.
PushDistinct(s) == \A i, j \in DOMAIN s : i # j => s[i] # s[j]
\* Every device has a token of Expo.
PushAllExpo == \A t \in Tokens : devices[t].expo
\* All devices fit in one request.
PushOneChunk == Cardinality(Tokens) <= ChunkSize

\* Each attempt sends at most once to a device, and what is left was not sent by
\* this one; what the job knows is left, or sent; in one chunk, the messages are
\* the devices, and those that Expo does not know have lost the app.
PushJob(j, step) ==
  /\ step # "failed" => j.failures < Attempts
  /\ step \in {"idle", "saved"} => j.tokens = <<>>
  /\ \A t \in Tokens : j.sent[t] <= j.failures + 1
  /\ step \in {"idle", "saved", "queued"} => \A t \in Tokens : j.sent[t] <= j.failures
  /\ step \in {"sending", "noting"} =>
       /\ PushDistinct(j.left) /\ DOMAIN j.left \subseteq DOMAIN j.tokens
       /\ \A t \in Notifications!ToSet(j.left) : j.sent[t] <= j.failures
       /\ \A t \in Notifications!ToSet(j.tokens) : devices[t].expo =>
            t \in Notifications!ToSet(j.left) \/ j.sent[t] > 0
  /\ PushAllExpo /\ PushOneChunk =>
       /\ step = "sending" => j.left = j.tokens
       /\ step = "noting" => j.left = <<>> /\ \A t \in j.unknown : devices[t].gone
  /\ step = "done" => \A t \in Notifications!ToSet(j.tokens) : devices[t].expo => j.sent[t] > 0

\* Then only devices that were signed off or lost the app are switched off.
PushGoneOnly == PushAllExpo /\ PushOneChunk => \A t \in Tokens : ~devices[t].active =>
                  devices[t].gone \/ devices[t].off

\* What holds however handlers interleave.
PushInv == /\ Notifications!TypeOK /\ local \in [Handlers -> PushJobs]
           /\ (\A h \in Handlers : PushJob(local[h], pc[h]))
           /\ PushGoneOnly

\* Lists of devices.
LEMMA PushListsAre ==
  ASSUME NEW s \in PushLists
  PROVE  /\ s \in Seq(Tokens) /\ Len(s) \in 0 .. Cardinality(Tokens)
         /\ DOMAIN s = 1 .. Len(s) /\ s \in [1 .. Len(s) -> Tokens]
         /\ Cardinality(Tokens) \in Nat
         /\ Notifications!ToSet(s) \subseteq Tokens
<1>1. Cardinality(Tokens) \in Nat
  BY PushGiven, FS_CardinalityType
<1>2. PICK n \in 0 .. Cardinality(Tokens) : s \in [1 .. n -> Tokens]
  BY DEF PushLists
<1>3. s \in Seq(Tokens) /\ Len(s) = n
  BY <1>1, <1>2
<1> QED
  BY <1>1, <1>2, <1>3 DEF Notifications!ToSet

\* And these are all.
LEMMA PushIsAList ==
  ASSUME NEW n \in 0 .. Cardinality(Tokens), NEW s \in [1 .. n -> Tokens]
  PROVE  s \in PushLists
  BY DEF PushLists

\* The empty list is one.
LEMMA PushEmptyList == /\ <<>> \in PushLists /\ Notifications!ToSet(<<>>) = {}
                       /\ <<>> \in Seq(Tokens) /\ Len(<<>>) = 0
<1>1. 0 \in 0 .. Cardinality(Tokens)
  BY PushGiven, FS_CardinalityType
<1>2. <<>> \in [1 .. 0 -> Tokens]
  OBVIOUS
<1>3. Notifications!ToSet(<<>>) = {}
  BY DEF Notifications!ToSet
<1> QED
  BY <1>1, <1>2, <1>3 DEF PushLists

\* An enumeration of a set of devices has each of them once.
LEMMA PushEnumerates ==
  ASSUME NEW S \in SUBSET Tokens, NEW s \in Notifications!SetToSeqs(S)
  PROVE  /\ s \in PushLists /\ PushDistinct(s) /\ Notifications!ToSet(s) = S
         /\ Cardinality(S) \in Nat /\ DOMAIN s = 1 .. Cardinality(S)
<1> DEFINE n == Cardinality(S)
<1>1. IsFiniteSet(S) /\ n \in 0 .. Cardinality(Tokens)
  <2>1. IsFiniteSet(Tokens)
    BY PushGiven
  <2>2. IsFiniteSet(S) /\ Cardinality(S) <= Cardinality(Tokens)
    BY <2>1, FS_Subset
  <2> QED
    BY <2>1, <2>2, FS_CardinalityType
<1>2. s \in [1 .. n -> S] /\ \A i, j \in 1 .. n : i # j => s[i] # s[j]
  BY PushCounts DEF Notifications!SetToSeqs
<1>3. s \in PushLists
  BY <1>1, <1>2, PushIsAList
<1>4. s \in Surjection(1 .. n, S)
  <2>1. s \in Injection(1 .. n, S)
    BY <1>2 DEF Injection, IsInjective
  <2>2. Cardinality(1 .. n) = n
    BY <1>1, FS_Interval
  <2> QED
    BY <1>1, <2>1, <2>2, FS_Injection
<1>5. Notifications!ToSet(s) = S
  BY <1>2, <1>4 DEF Surjection, Notifications!ToSet
<1> QED
  BY <1>1, <1>2, <1>3, <1>5 DEF PushDistinct

\* Two enumerations of a set in one order are one.
LEMMA PushOneOrder ==
  ASSUME NEW S \in SUBSET Tokens, NEW s \in Notifications!SetToSeqs(S),
         NEW t \in Notifications!SetToSeqs(S), Notifications!SameOrder(s, t)
  PROVE  s = t
<1> DEFINE n == Cardinality(S)
           bad == {i \in 1 .. n : s[i] # t[i]}
<1>1. /\ n \in Nat /\ DOMAIN s = 1 .. n /\ DOMAIN t = 1 .. n
      /\ PushDistinct(s) /\ PushDistinct(t) /\ Notifications!ToSet(s) = S
      /\ Notifications!ToSet(t) = S
      /\ s \in [1 .. n -> S] /\ t \in [1 .. n -> S]
  BY PushEnumerates DEF Notifications!SetToSeqs
<1> SUFFICES ASSUME bad # {} PROVE FALSE
  BY <1>1
<1>2. PICK i \in bad : \A j \in bad : i <= j
  <2>1. bad \subseteq Nat /\ bad # {}
    BY <1>1
  <2> HIDE DEF bad
  <2> QED
    BY <2>1, HasLeast
<1>3. PICK k \in 1 .. n : s[i] = t[k]
  BY <1>1 DEF Notifications!ToSet
<1>4. PICK j \in 1 .. n : t[i] = s[j]
  BY <1>1 DEF Notifications!ToSet
<1>5. \A m \in 1 .. n : m < i => s[m] = t[m]
  BY <1>1, <1>2
<1>6. i < k
  BY <1>1, <1>2, <1>3, <1>5 DEF PushDistinct
<1>7. i < j
  BY <1>1, <1>2, <1>4, <1>5 DEF PushDistinct
<1>8. PICK a \in 1 .. n, b \in 1 .. n : a < b /\ s[i] = t[a] /\ s[j] = t[b]
  BY <1>1, <1>2, <1>7 DEF Notifications!SameOrder
<1>9. a = k /\ b = i
  BY <1>1, <1>2, <1>3, <1>4, <1>8 DEF PushDistinct
<1> QED
  BY <1>2, <1>6, <1>8, <1>9

\* A list of messages is the chunk that is sent next and the rest.
PushFirstChunk(s) == SubSeq(s, 1, IF Len(s) < ChunkSize THEN Len(s) ELSE ChunkSize)
\* What is left after it.
PushRest(s) == SubSeq(s, Len(PushFirstChunk(s)) + 1, Len(s))

\* A list and its parts.
LEMMA PushParts ==
  ASSUME NEW s \in PushLists
  PROVE  /\ PushFirstChunk(s) \in PushLists /\ PushRest(s) \in PushLists
         /\ Notifications!ToSet(s) = Notifications!ToSet(PushFirstChunk(s)) \cup Notifications!ToSet(PushRest(s))
         /\ DOMAIN PushFirstChunk(s) \subseteq DOMAIN s /\ DOMAIN PushRest(s) \subseteq DOMAIN s
         /\ PushDistinct(s) =>
              /\ PushDistinct(PushRest(s))
              /\ Notifications!ToSet(PushFirstChunk(s)) \cap Notifications!ToSet(PushRest(s)) = {}
         /\ PushOneChunk => PushFirstChunk(s) = s /\ PushRest(s) = <<>>
<1> DEFINE n == Len(s)
           m == IF n < ChunkSize THEN n ELSE ChunkSize
<1>1. /\ s \in Seq(Tokens) /\ n \in 0 .. Cardinality(Tokens) /\ n \in Nat
      /\ DOMAIN s = 1 .. n /\ s \in [1 .. n -> Tokens]
      /\ Cardinality(Tokens) \in Nat
  BY PushListsAre
<1>2. ChunkSize \in Nat \ {0}
  BY PushGiven
<1>3. m \in 0 .. n
  BY <1>1, <1>2
<1> HIDE DEF n, m
<1>4. /\ PushFirstChunk(s) \in [1 .. m -> Tokens] /\ Len(PushFirstChunk(s)) = m
      /\ \A i \in 1 .. m : PushFirstChunk(s)[i] = s[i]
  <2>1. PushFirstChunk(s) = SubSeq(s, 1, m)
    BY DEF PushFirstChunk, n, m
  <2>2. m \in Int /\ n \in Nat /\ (\A i \in 1 .. m : s[i] \in Tokens) /\ m - 1 + 1 = m
        /\ (\A i \in 1 .. m : 1 + i - 1 = i)
    BY <1>1, <1>3
  <2>3. /\ PushFirstChunk(s) \in Seq(Tokens)
        /\ Len(PushFirstChunk(s)) = IF 1 <= m THEN m - 1 + 1 ELSE 0
        /\ \A i \in 1 .. m - 1 + 1 : PushFirstChunk(s)[i] = s[1 + i - 1]
    BY <2>1, <2>2, SubSeqProperties
  <2>4. Len(PushFirstChunk(s)) = m
    BY <1>3, <2>3
  <2> QED
    BY <2>2, <2>3, <2>4, LenProperties
<1>5. /\ PushRest(s) \in [1 .. (n - m) -> Tokens]
      /\ \A i \in 1 .. (n - m) : PushRest(s)[i] = s[m + i]
  <2>1. PushRest(s) = SubSeq(s, m + 1, n)
    BY <1>4 DEF PushRest, n
  <2>2. m + 1 \in Int /\ n \in Int /\ (\A i \in (m + 1) .. n : s[i] \in Tokens)
        /\ n - (m + 1) + 1 = n - m
        /\ (\A i \in 1 .. (n - m) : (m + 1) + i - 1 = m + i)
    BY <1>1, <1>3
  <2>3. /\ PushRest(s) \in Seq(Tokens)
        /\ Len(PushRest(s)) = IF m + 1 <= n THEN n - (m + 1) + 1 ELSE 0
        /\ \A i \in 1 .. n - (m + 1) + 1 : PushRest(s)[i] = s[(m + 1) + i - 1]
    BY <2>1, <2>2, SubSeqProperties
  <2>4. Len(PushRest(s)) = n - m
    BY <1>1, <1>3, <2>3
  <2> QED
    BY <2>2, <2>3, <2>4, LenProperties
<1>6. m \in 0 .. Cardinality(Tokens) /\ n - m \in 0 .. Cardinality(Tokens)
  BY <1>1, <1>3
<1>7. PushFirstChunk(s) \in PushLists /\ PushRest(s) \in PushLists
  BY <1>4, <1>5, <1>6, PushIsAList
<1>8. /\ \A i \in 1 .. n :
           s[i] \in Notifications!ToSet(PushFirstChunk(s)) \cup Notifications!ToSet(PushRest(s))
      /\ Notifications!ToSet(PushFirstChunk(s)) \cup Notifications!ToSet(PushRest(s)) \subseteq Notifications!ToSet(s)
  <2>1. ASSUME NEW i \in 1 .. n
        PROVE  s[i] \in Notifications!ToSet(PushFirstChunk(s)) \cup Notifications!ToSet(PushRest(s))
    <3>1. CASE i <= m
      BY <1>1, <1>3, <1>4, <3>1 DEF Notifications!ToSet
    <3>2. CASE i > m
      <4>1. i - m \in 1 .. (n - m) /\ m + (i - m) = i
        BY <1>1, <1>3, <3>2
      <4>2. PushRest(s)[i - m] = s[i]
        BY <1>5, <4>1
      <4> QED
        BY <1>5, <4>1, <4>2 DEF Notifications!ToSet
    <3> QED
      BY <1>1, <1>3, <3>1, <3>2
  <2>2. \A i \in 1 .. m : i \in 1 .. n
    BY <1>1, <1>3
  <2>3. \A i \in 1 .. (n - m) : m + i \in 1 .. n
    BY <1>1, <1>3
  <2> QED
    BY <1>1, <1>4, <1>5, <2>1, <2>2, <2>3 DEF Notifications!ToSet
<1>9. Notifications!ToSet(s) = Notifications!ToSet(PushFirstChunk(s)) \cup Notifications!ToSet(PushRest(s))
  BY <1>1, <1>8 DEF Notifications!ToSet
<1>10. ASSUME PushDistinct(s)
       PROVE  /\ PushDistinct(PushRest(s))
              /\ Notifications!ToSet(PushFirstChunk(s)) \cap Notifications!ToSet(PushRest(s)) = {}
  <2>1. PushDistinct(PushRest(s))
    <3>1. \A i, j \in 1 .. (n - m) : i # j => m + i # m + j /\ m + i \in 1 .. n /\ m + j \in 1 .. n
      BY <1>1, <1>3
    <3> QED
      BY <1>1, <1>5, <1>10, <3>1 DEF PushDistinct
  <2>2. \A i \in 1 .. m, j \in 1 .. (n - m) : PushFirstChunk(s)[i] # PushRest(s)[j]
    <3>1. \A i \in 1 .. m, j \in 1 .. (n - m) : i # m + j /\ i \in 1 .. n /\ m + j \in 1 .. n
      BY <1>1, <1>3
    <3> QED
      BY <1>1, <1>4, <1>5, <1>10, <3>1 DEF PushDistinct
  <2> QED
    BY <1>4, <1>5, <2>1, <2>2 DEF Notifications!ToSet
<1>11. ASSUME PushOneChunk
       PROVE  PushFirstChunk(s) = s /\ PushRest(s) = <<>>
  <2>1. m = n
    BY <1>1, <1>2, <1>11 DEF PushOneChunk, m
  <2>2. PushFirstChunk(s) = s
    BY <1>1, <1>4, <2>1
  <2>3. PushRest(s) \in [1 .. 0 -> Tokens]
    BY <1>1, <1>5, <2>1
  <2>4. PushRest(s) = <<>>
    BY <2>3
  <2> QED
    BY <2>2, <2>4
<1>12. DOMAIN PushFirstChunk(s) \subseteq DOMAIN s /\ DOMAIN PushRest(s) \subseteq DOMAIN s
  <2>1. 1 .. m \subseteq 1 .. n /\ 1 .. (n - m) \subseteq 1 .. n
    BY <1>1, <1>3
  <2> QED
    BY <1>1, <1>4, <1>5, <2>1
<1> QED
  BY <1>7, <1>9, <1>10, <1>11, <1>12

\* The initial states have the invariant.
LEMMA PushInitHolds == Notifications!Init => PushInv
<1> SUFFICES ASSUME Notifications!Init PROVE PushInv
  OBVIOUS
<1>1. /\ overlapped = FALSE /\ pc = [h \in Handlers |-> "idle"]
      /\ local = [h \in Handlers |-> Notifications!NoJob]
      /\ devices \in [Tokens -> {d \in Notifications!Devices : d.active /\ ~d.off}]
  BY DEF Notifications!Init, Notifications!AllIdle
<1>2. overlapped \in BOOLEAN
  BY <1>1, Zenon
<1>3. Attempts \in Nat \ {0}
  BY PushGiven
<1>4. Notifications!NoJob \in PushJobs
  BY <1>3, PushEmptyList DEF Notifications!NoJob, PushJobs
<1>5. /\ Notifications!NoJob.tokens = <<>> /\ Notifications!NoJob.failures = 0
      /\ \A t \in Tokens : Notifications!NoJob.sent[t] = 0
  BY DEF Notifications!NoJob
<1>6. PushJob(Notifications!NoJob, "idle")
  BY <1>3, <1>5 DEF PushJob
<1>7. Notifications!TypeOK
  BY <1>1, <1>2, <1>4, PushCounts DEF Notifications!TypeOK, PushJobs, PushLists, Notifications!Steps
<1>8. PushGoneOnly
  BY <1>1 DEF PushGoneOnly
<1> QED
  BY <1>1, <1>4, <1>6, <1>7, <1>8 DEF PushInv

\* What a step does to its handler, and leaves of the others.
PushMoved(h) ==
  /\ devices' \in [Tokens -> Notifications!Devices]
  /\ \A t \in Tokens :
       devices'[t].expo = devices[t].expo /\ (devices[t].gone => devices'[t].gone)
  /\ pc' \in [Handlers -> Notifications!Steps] /\ local' \in [Handlers -> PushJobs]
  /\ \A g \in Handlers \ {h} : pc'[g] = pc[g] /\ local'[g] = local[g]
  /\ PushJob(local'[h], pc'[h]) /\ PushGoneOnly'

\* The devices' tokens stay what they are, and nothing else of them is in a job.
LEMMA PushSameJob ==
  ASSUME NEW h \in Handlers,
         \A t \in Tokens :
           devices'[t].expo = devices[t].expo /\ (devices[t].gone => devices'[t].gone),
         local'[h] \in PushJobs, PushJob(local'[h], pc'[h])
  PROVE  PushJob(local[h], pc[h])'
<1>1. Notifications!ToSet(local'[h].tokens) \subseteq Tokens /\ local'[h].unknown \subseteq Tokens
  BY PushListsAre DEF PushJobs
<1>2. PushAllExpo' <=> PushAllExpo
  BY DEF PushAllExpo
<1> QED
  BY <1>1, <1>2 DEF PushJob, PushOneChunk, PushDistinct

\* A step of any job.
LEMMA PushHandlerKeeps ==
  ASSUME PushInv, NEW h \in Handlers, Notifications!HandlerStep(h)
  PROVE  PushMoved(h)
<1> DEFINE j == local[h]
<1>0. /\ devices \in [Tokens -> Notifications!Devices]
      /\ pc \in [Handlers -> Notifications!Steps] /\ local \in [Handlers -> PushJobs]
      /\ j \in PushJobs /\ PushJob(j, pc[h]) /\ PushGoneOnly
      /\ Attempts \in Nat \ {0}
  BY PushGiven DEF PushInv, Notifications!TypeOK
<1>1. CASE Notifications!Dispatch(h) \/ Notifications!Enqueue(h)
  <2>1. PICK step \in Notifications!Steps :
          /\ devices' = devices /\ local' = local /\ Notifications!Goto(h, step)
          /\ \/ pc[h] = "idle" /\ step = "saved"
             \/ pc[h] = "saved" /\ step \in {"queued", "done"}
    BY <1>1 DEF Notifications!Dispatch, Notifications!Enqueue, Notifications!Steps
  <2>2. /\ pc' \in [Handlers -> Notifications!Steps] /\ pc'[h] = step
        /\ \A g \in Handlers \ {h} : pc'[g] = pc[g]
    BY <1>0, <2>1 DEF Notifications!Goto
  <2>3. PushJob(j, step)
    BY <1>0, <2>1, PushEmptyList DEF PushJob
  <2>5. PushGoneOnly'
    BY <1>0, <2>1 DEF PushGoneOnly, PushAllExpo, PushOneChunk
  <2> QED
    BY <1>0, <2>1, <2>2, <2>3, <2>5 DEF PushMoved
<1>2. CASE Notifications!Process(h)
  <2> DEFINE active == {t \in Tokens : devices[t].active}
  <2>1. PICK tokens \in Notifications!SetToSeqs(active) :
          \E messages \in Notifications!SetToSeqs({t \in Notifications!ToSet(tokens) : devices[t].expo}) :
            /\ Notifications!SameOrder(messages, tokens)
            /\ Notifications!Hold(h, [j EXCEPT !.tokens = tokens, !.left = messages])
            /\ Notifications!Goto(h, IF messages = <<>> THEN "done" ELSE "sending")
    BY <1>2 DEF Notifications!Process
  <2> DEFINE known == {t \in Notifications!ToSet(tokens) : devices[t].expo}
  <2>2. PICK messages \in Notifications!SetToSeqs(known) :
            /\ Notifications!SameOrder(messages, tokens)
            /\ Notifications!Hold(h, [j EXCEPT !.tokens = tokens, !.left = messages])
            /\ Notifications!Goto(h, IF messages = <<>> THEN "done" ELSE "sending")
    BY <2>1
  <2>3. devices' = devices /\ pc[h] = "queued"
    BY <1>2 DEF Notifications!Process
  <2>4. tokens \in PushLists /\ Notifications!ToSet(tokens) = active
    BY <2>1, PushEnumerates
  <2>5. /\ known \in SUBSET Tokens /\ messages \in PushLists /\ PushDistinct(messages)
        /\ Notifications!ToSet(messages) = known
    BY <2>2, <2>4, PushEnumerates
  <2>6. PushAllExpo => messages = tokens
    <3> SUFFICES ASSUME PushAllExpo PROVE messages = tokens
      OBVIOUS
    <3>1. known = active /\ active \in SUBSET Tokens
      BY <2>4 DEF PushAllExpo
    <3>2. messages \in Notifications!SetToSeqs(active)
      BY <2>2, <3>1
    <3> HIDE DEF known, active
    <3> QED
      BY <2>1, <2>2, <3>1, <3>2, PushOneOrder
  <2> DEFINE new == [j EXCEPT !.tokens = tokens, !.left = messages]
             step == IF messages = <<>> THEN "done" ELSE "sending"
  <2>7. /\ new \in PushJobs /\ new.tokens = tokens /\ new.left = messages
        /\ new.sent = j.sent /\ new.failures = j.failures
    BY <1>0, <2>4, <2>5 DEF PushJobs
  <2>8. step \in Notifications!Steps
    BY DEF Notifications!Steps
  <2>9. Notifications!Hold(h, new) /\ Notifications!Goto(h, step)
    BY <2>2
  <2>10. messages = <<>> => known = {}
    BY <2>5, PushEmptyList
  <2>11. known = {t \in Notifications!ToSet(tokens) : devices[t].expo}
    OBVIOUS
  <2>12. (step = "done" /\ messages = <<>>) \/ step = "sending"
    OBVIOUS
  <2> HIDE DEF known, active, new, step
  <2>13. /\ pc' \in [Handlers -> Notifications!Steps] /\ local' \in [Handlers -> PushJobs]
         /\ pc'[h] = step /\ local'[h] = new
         /\ \A g \in Handlers \ {h} : pc'[g] = pc[g] /\ local'[g] = local[g]
    BY <1>0, <2>7, <2>8, <2>9 DEF Notifications!Goto, Notifications!Hold
  <2>14. /\ new.failures < Attempts
         /\ \A t \in Tokens : new.sent[t] <= new.failures
         /\ new.failures \in Nat /\ new.sent \in [Tokens -> Nat]
    BY <1>0, <2>3, <2>7 DEF PushJob, PushJobs
  <2>21. DOMAIN messages \subseteq DOMAIN tokens
    <3>1. active \in SUBSET Tokens /\ known \subseteq active /\ known \in SUBSET Tokens
      BY <2>4 DEF active, known
    <3>2. IsFiniteSet(active)
      BY <3>1, PushGiven, FS_Subset
    <3>3. Cardinality(known) <= Cardinality(active)
      BY <3>1, <3>2, FS_Subset
    <3>4. /\ Cardinality(known) \in Nat /\ DOMAIN messages = 1 .. Cardinality(known)
          /\ Cardinality(active) \in Nat /\ DOMAIN tokens = 1 .. Cardinality(active)
      BY <2>1, <2>2, <3>1, PushEnumerates
    <3> QED
      BY <3>3, <3>4
  <2>15. step = "sending" =>
           /\ PushDistinct(new.left) /\ DOMAIN new.left \subseteq DOMAIN new.tokens
           /\ \A t \in Notifications!ToSet(new.left) : new.sent[t] <= new.failures
           /\ \A t \in Notifications!ToSet(new.tokens) : devices[t].expo =>
                t \in Notifications!ToSet(new.left) \/ new.sent[t] > 0
           /\ PushAllExpo /\ PushOneChunk => new.left = new.tokens
    BY <2>5, <2>6, <2>7, <2>11, <2>14, <2>21
  <2>16. step = "done" => \A t \in Notifications!ToSet(new.tokens) : devices[t].expo =>
           new.sent[t] > 0
    BY <2>7, <2>10, <2>11, <2>12
  <2>17. \A t \in Tokens : new.sent[t] <= new.failures + 1
    BY <2>14
  <2>18. PushJob(new, step)
    BY <2>12, <2>14, <2>15, <2>16, <2>17 DEF PushJob
  <2>20. PushGoneOnly'
    BY <1>0, <2>3 DEF PushGoneOnly, PushAllExpo, PushOneChunk
  <2> QED
    BY <1>0, <2>3, <2>13, <2>18, <2>20 DEF PushMoved
<1>3. ASSUME pc[h] = "sending"
      PROVE  /\ Notifications!Chunk(h) = PushFirstChunk(j.left)
             /\ Notifications!ToSet(Notifications!Chunk(h)) \subseteq Notifications!ToSet(j.left)
             /\ Notifications!Counted(h) \in [Tokens -> Nat]
             /\ \A t \in Tokens : /\ t \in Notifications!ToSet(Notifications!Chunk(h)) => Notifications!Counted(h)[t] = j.sent[t] + 1
                                  /\ t \notin Notifications!ToSet(Notifications!Chunk(h)) =>
                                       Notifications!Counted(h)[t] = j.sent[t]
             /\ \A t \in Tokens : Notifications!Counted(h)[t] <= j.failures + 1
             /\ Notifications!Counted(h) \in [Tokens -> 0 .. Attempts]
             /\ j.failures \in Nat /\ j.failures + 1 <= Attempts
             /\ j.left \in PushLists /\ j.tokens \in PushLists /\ j.sent \in [Tokens -> Nat]
  <2>1. /\ j.left \in PushLists /\ j.tokens \in PushLists /\ j.sent \in [Tokens -> Nat]
        /\ j.failures \in Nat /\ j.failures + 1 <= Attempts
        /\ \A t \in Notifications!ToSet(j.left) : j.sent[t] <= j.failures
        /\ \A t \in Tokens : j.sent[t] <= j.failures + 1
    BY <1>0, <1>3 DEF PushJobs, PushJob
  <2>2. /\ Notifications!Chunk(h) = PushFirstChunk(j.left)
        /\ Notifications!ToSet(Notifications!Chunk(h)) \subseteq Notifications!ToSet(j.left)
    BY <2>1, PushParts DEF Notifications!Chunk, PushFirstChunk
  <2>3. Notifications!Counted(h) = [t \in Tokens |-> j.sent[t] + IF t \in Notifications!ToSet(Notifications!Chunk(h)) THEN 1 ELSE 0]
    BY DEF Notifications!Counted
  <2> HIDE DEF j
  <2>4. /\ Notifications!Counted(h) \in [Tokens -> Nat]
        /\ \A t \in Tokens : /\ t \in Notifications!ToSet(Notifications!Chunk(h)) => Notifications!Counted(h)[t] = j.sent[t] + 1
                             /\ t \notin Notifications!ToSet(Notifications!Chunk(h)) =>
                                  Notifications!Counted(h)[t] = j.sent[t]
    BY <2>1, <2>3
  <2>5. \A t \in Tokens : Notifications!Counted(h)[t] <= j.failures + 1
    BY <2>1, <2>2, <2>4
  <2>6. Notifications!Counted(h) \in [Tokens -> 0 .. Attempts]
    BY <1>0, <2>1, <2>4, <2>5
  <2> QED
    BY <2>1, <2>2, <2>4, <2>5, <2>6
<1>4. CASE Notifications!Send(h)
  <2> DEFINE left == SubSeq(j.left, Len(Notifications!Chunk(h)) + 1, Len(j.left))
             new == [j EXCEPT !.left = left, !.unknown = Notifications!Refused(h),
                              !.sent = Notifications!Counted(h)]
  <2>1. /\ pc[h] = "sending" /\ Notifications!Hold(h, new) /\ Notifications!Goto(h, "noting")
        /\ devices' = devices
    BY <1>4 DEF Notifications!Send
  <2>2. left = PushRest(j.left)
    BY <1>3, <2>1 DEF PushRest
  <2>3. j.left \in PushLists /\ left \in PushLists
    <3>1. \A s \in PushLists : PushRest(s) \in PushLists
      BY PushParts
    <3> QED
      BY <1>3, <2>1, <2>2, <3>1, Zenon
  <2>5. "noting" \in Notifications!Steps
    BY DEF Notifications!Steps
  <2> HIDE DEF left
  <2>11. /\ PushDistinct(j.left) /\ DOMAIN j.left \subseteq DOMAIN j.tokens
         /\ \A t \in Notifications!ToSet(j.left) : j.sent[t] <= j.failures
         /\ \A t \in Notifications!ToSet(j.tokens) : devices[t].expo =>
              t \in Notifications!ToSet(j.left) \/ j.sent[t] > 0
         /\ PushAllExpo /\ PushOneChunk => j.left = j.tokens
    BY <1>0, <2>1 DEF PushJob
  <2>4. Notifications!Refused(h) \in SUBSET Tokens
    <3>1. DOMAIN Notifications!Chunk(h) \subseteq DOMAIN j.tokens
      BY <1>3, <2>1, <2>11, PushParts
    <3>2. j.tokens \in [DOMAIN j.tokens -> Tokens]
      BY <1>3, <2>1, PushListsAre
    <3> QED
      BY <3>1, <3>2 DEF Notifications!Refused
  <2>6. /\ new \in PushJobs /\ new.tokens = j.tokens /\ new.left = left
        /\ new.unknown = Notifications!Refused(h)
        /\ new.sent = Notifications!Counted(h) /\ new.failures = j.failures
    BY <1>0, <1>3, <2>1, <2>3, <2>4 DEF PushJobs
  <2> HIDE DEF new
  <2>7. /\ pc' \in [Handlers -> Notifications!Steps] /\ local' \in [Handlers -> PushJobs]
        /\ pc'[h] = "noting" /\ local'[h] = new
        /\ \A g \in Handlers \ {h} : pc'[g] = pc[g] /\ local'[g] = local[g]
    BY <1>0, <2>1, <2>5, <2>6 DEF Notifications!Goto, Notifications!Hold
  <2>12. /\ Notifications!ToSet(j.left) = Notifications!ToSet(Notifications!Chunk(h)) \cup Notifications!ToSet(left)
         /\ PushDistinct(left) /\ DOMAIN left \subseteq DOMAIN j.left
         /\ Notifications!ToSet(Notifications!Chunk(h)) \cap Notifications!ToSet(left) = {}
         /\ PushOneChunk => Notifications!Chunk(h) = j.left /\ left = <<>>
         /\ Notifications!ToSet(j.left) \subseteq Tokens
         /\ Notifications!ToSet(j.tokens) \subseteq Tokens
    BY <1>3, <2>1, <2>2, <2>11, PushParts, PushListsAre
  <2> HIDE DEF j
  <2>13. /\ PushDistinct(new.left) /\ DOMAIN new.left \subseteq DOMAIN new.tokens
         /\ \A t \in Notifications!ToSet(new.left) : new.sent[t] <= new.failures
         /\ \A t \in Notifications!ToSet(new.tokens) : devices[t].expo =>
              t \in Notifications!ToSet(new.left) \/ new.sent[t] > 0
    <3>1. ASSUME NEW t \in Notifications!ToSet(left)
          PROVE  Notifications!Counted(h)[t] <= j.failures
      <4>1. /\ t \in Tokens /\ t \in Notifications!ToSet(j.left)
            /\ t \notin Notifications!ToSet(Notifications!Chunk(h))
        BY <2>12
      <4>2. Notifications!Counted(h)[t] = j.sent[t]
        BY <1>3, <2>1, <4>1 DEF j
      <4> QED
        BY <2>11, <4>1, <4>2
    <3>2. ASSUME NEW t \in Notifications!ToSet(j.tokens), devices[t].expo
          PROVE  t \in Notifications!ToSet(left) \/ Notifications!Counted(h)[t] > 0
      <4>1. t \in Tokens
        BY <2>12
      <4>2. /\ j.sent[t] \in Nat
            /\ t \in Notifications!ToSet(Notifications!Chunk(h)) =>
                 Notifications!Counted(h)[t] = j.sent[t] + 1
            /\ t \notin Notifications!ToSet(Notifications!Chunk(h)) =>
                 Notifications!Counted(h)[t] = j.sent[t]
        BY <1>3, <2>1, <4>1 DEF j
      <4> QED
        BY <2>11, <2>12, <3>2, <4>2
    <3> QED
      BY <2>6, <2>11, <2>12, <3>1, <3>2
  <2>14. PushAllExpo /\ PushOneChunk => new.left = <<>> /\ \A t \in new.unknown : devices[t].gone
    <3> SUFFICES ASSUME PushAllExpo, PushOneChunk
                 PROVE  left = <<>> /\ \A t \in Notifications!Refused(h) : devices[t].gone
      BY <2>6
    <3>1. left = <<>> /\ Notifications!Chunk(h) = local[h].tokens
      BY <2>11, <2>12 DEF j
    <3> QED
      BY <3>1 DEF Notifications!Refused
  <2>16. new.failures < Attempts /\ \A t \in Tokens : new.sent[t] <= new.failures + 1
    BY <1>0, <1>3, <2>1, <2>6 DEF j
  <2>17. PushJob(new, "noting")
    BY <2>13, <2>14, <2>16 DEF PushJob
  <2>19. PushGoneOnly'
    BY <1>0, <2>1 DEF PushGoneOnly, PushAllExpo, PushOneChunk
  <2> QED
    BY <1>0, <2>1, <2>7, <2>17, <2>19 DEF PushMoved
<1>6. CASE Notifications!Note(h)
  <2>1. PICK t \in j.unknown :
          /\ devices' = [devices EXCEPT ![t].active = FALSE]
          /\ Notifications!Hold(h, [j EXCEPT !.unknown = @ \ {t}])
    BY <1>6 DEF Notifications!Note
  <2>2. pc[h] = "noting" /\ pc' = pc
    BY <1>6 DEF Notifications!Note
  <2> DEFINE new == [j EXCEPT !.unknown = @ \ {t}]
  <2>3. /\ new \in PushJobs /\ new.tokens = j.tokens /\ new.left = j.left
        /\ new.unknown \subseteq j.unknown /\ new.sent = j.sent /\ new.failures = j.failures
        /\ t \in Tokens
    BY <1>0 DEF PushJobs
  <2>4. Notifications!Hold(h, new)
    BY <2>1
  <2>5. PushJob(new, "noting")
    BY <1>0, <2>2, <2>3 DEF PushJob
  <2> HIDE DEF new
  <2>6. /\ local' \in [Handlers -> PushJobs] /\ local'[h] = new
        /\ \A g \in Handlers \ {h} : local'[g] = local[g]
    BY <1>0, <2>3, <2>4 DEF Notifications!Hold
  <2>7. /\ devices' \in [Tokens -> Notifications!Devices]
        /\ \A u \in Tokens : /\ devices'[u].expo = devices[u].expo
                             /\ devices'[u].gone = devices[u].gone /\ devices'[u].off = devices[u].off
                             /\ u # t => devices'[u].active = devices[u].active
    BY <1>0, <2>1, <2>3 DEF Notifications!Devices
  <2>8. PushGoneOnly'
    <3> SUFFICES ASSUME PushAllExpo', PushOneChunk, NEW u \in Tokens, ~devices'[u].active
                 PROVE  devices'[u].gone \/ devices'[u].off
      BY DEF PushGoneOnly, PushOneChunk
    <3>1. PushAllExpo
      BY <2>7 DEF PushAllExpo
    <3>2. CASE u = t
      BY <1>0, <2>1, <2>2, <2>7, <3>1, <3>2 DEF PushJob
    <3>3. CASE u # t
      BY <1>0, <2>7, <3>1, <3>3 DEF PushGoneOnly
    <3> QED
      BY <3>2, <3>3
  <2> QED
    BY <1>0, <2>2, <2>5, <2>6, <2>7, <2>8 DEF PushMoved
<1>7. CASE Notifications!NextChunk(h)
  <2> DEFINE step == IF j.left = <<>> THEN "done" ELSE "sending"
  <2>1. /\ pc[h] = "noting" /\ Notifications!Goto(h, step) /\ devices' = devices /\ local' = local
    BY <1>7 DEF Notifications!NextChunk
  <2>2. /\ step \in Notifications!Steps
        /\ (step = "done" /\ j.left = <<>>) \/ (step = "sending" /\ j.left # <<>>)
    BY DEF Notifications!Steps
  <2> HIDE DEF step
  <2>3. /\ pc' \in [Handlers -> Notifications!Steps] /\ pc'[h] = step
        /\ \A g \in Handlers \ {h} : pc'[g] = pc[g]
    BY <1>0, <2>1, <2>2 DEF Notifications!Goto
  <2>4. PushJob(j, step)
    BY <1>0, <2>1, <2>2, PushEmptyList DEF PushJob
  <2>5. PushGoneOnly'
    BY <1>0, <2>1 DEF PushGoneOnly, PushAllExpo, PushOneChunk
  <2> QED
    BY <1>0, <2>1, <2>3, <2>4, <2>5 DEF PushMoved
<1>5. CASE Notifications!Fail(h)
  <2>1. PICK sent \in {j.sent, Notifications!Counted(h)} :
          /\ Notifications!Hold(h, [j EXCEPT !.left = <<>>, !.unknown = {}, !.sent = sent, !.failures = @ + 1])
          /\ sent = j.sent \/ pc[h] = "sending"
    BY <1>5 DEF Notifications!Fail
  <2> DEFINE new == [j EXCEPT !.left = <<>>, !.unknown = {}, !.sent = sent, !.failures = @ + 1]
             step == IF j.failures + 1 = Attempts THEN "failed" ELSE "queued"
  <2>2. /\ pc[h] \in {"sending", "noting"} /\ Notifications!Goto(h, step) /\ devices' = devices
    BY <1>5 DEF Notifications!Fail
  <2>3. sent \in [Tokens -> 0 .. Attempts] /\ \A t \in Tokens : sent[t] <= j.failures + 1
    <3>1. CASE sent = j.sent
      BY <1>0, <3>1 DEF PushJobs, PushJob
    <3>2. CASE sent = Notifications!Counted(h) /\ pc[h] = "sending"
      BY <1>3, <3>2
    <3> QED
      BY <2>1, <3>1, <3>2
  <2>4. j.failures + 1 \in 0 .. Attempts /\ j.failures \in Nat
    <3>1. j.failures < Attempts /\ j.failures \in 0 .. Attempts
      BY <1>0, <2>2 DEF PushJob, PushJobs
    <3> QED
      BY <1>0, <3>1
  <2>5. /\ new \in PushJobs /\ new.tokens = j.tokens /\ new.sent = sent
        /\ new.failures = j.failures + 1
    BY <1>0, <2>3, <2>4, PushEmptyList DEF PushJobs
  <2>6. Notifications!Hold(h, new)
    BY <2>1
  <2> HIDE DEF new
  <2>7. /\ step \in Notifications!Steps
        /\ (step = "failed" \/ (step = "queued" /\ j.failures + 1 # Attempts))
    BY DEF Notifications!Steps
  <2> HIDE DEF step
  <2>8. /\ pc' \in [Handlers -> Notifications!Steps] /\ local' \in [Handlers -> PushJobs]
        /\ pc'[h] = step /\ local'[h] = new
        /\ \A g \in Handlers \ {h} : pc'[g] = pc[g] /\ local'[g] = local[g]
    BY <1>0, <2>2, <2>5, <2>6, <2>7 DEF Notifications!Goto, Notifications!Hold
  <2>9. /\ step # "failed" => new.failures < Attempts
        /\ new.failures \in Nat /\ new.sent \in [Tokens -> Nat]
        /\ \A t \in Tokens : new.sent[t] <= new.failures
    BY <1>0, <2>3, <2>4, <2>5, <2>7
  <2>10. \A t \in Tokens : new.sent[t] <= new.failures + 1
    BY <2>9
  <2>11. PushJob(new, step)
    BY <2>7, <2>9, <2>10 DEF PushJob
  <2>13. PushGoneOnly'
    BY <1>0, <2>2 DEF PushGoneOnly, PushAllExpo, PushOneChunk
  <2> QED
    BY <1>0, <2>2, <2>8, <2>11, <2>13 DEF PushMoved
<1> QED
  BY <1>1, <1>2, <1>4, <1>5, <1>6, <1>7 DEF Notifications!HandlerStep

\* Typed jobs are what TypeOK says.
LEMMA PushJobsTyped ==
  ASSUME local \in [Handlers -> PushJobs], devices \in [Tokens -> Notifications!Devices],
         pc \in [Handlers -> Notifications!Steps], overlapped \in BOOLEAN
  PROVE  Notifications!TypeOK
  BY PushCounts DEF Notifications!TypeOK, PushJobs, PushLists

\* Every step keeps the invariant, and does what is said of every step.
LEMMA PushStepHolds == PushInv /\ [Notifications!Next]_(Notifications!vars) => PushInv'
<1> SUFFICES ASSUME PushInv, [Notifications!Next]_(Notifications!vars) PROVE PushInv'
  OBVIOUS
<1>1. CASE UNCHANGED Notifications!vars
  <2>1. \A h \in Handlers : PushJob(local[h], pc[h])'
    BY <1>1 DEF Notifications!vars, PushInv, PushJob, PushAllExpo, PushOneChunk, PushDistinct
  <2>2. PushGoneOnly'
    BY <1>1 DEF Notifications!vars, PushInv, PushGoneOnly, PushAllExpo, PushOneChunk
  <2>3. Notifications!TypeOK'
    BY <1>1 DEF Notifications!vars, PushInv, Notifications!TypeOK
  <2> QED
    BY <1>1, <2>1, <2>2, <2>3 DEF Notifications!vars, PushInv
<1>2. ASSUME NEW h \in Handlers, Notifications!HandlerStep(h), Notifications!Overlap(h)
      PROVE  PushInv'
  <2>1. PushMoved(h)
    BY <1>2, PushHandlerKeeps
  <2>2. overlapped' \in BOOLEAN
    BY <1>2 DEF Notifications!Overlap, PushInv, Notifications!TypeOK
  <2>3. \A t \in Tokens :
          devices'[t].expo = devices[t].expo /\ (devices[t].gone => devices'[t].gone)
    BY <2>1 DEF PushMoved
  <2>4. ASSUME NEW g \in Handlers
        PROVE  PushJob(local[g], pc[g])'
    <3>1. local'[g] \in PushJobs
      BY <2>1 DEF PushMoved
    <3>2. PushJob(local'[g], pc'[g])
      BY <2>1 DEF PushInv, PushMoved
    <3> QED
      BY <2>3, <3>1, <3>2, PushSameJob
  <2>5. Notifications!TypeOK'
    BY <2>1, <2>2, PushCounts DEF PushMoved, Notifications!TypeOK, PushJobs, PushLists
  <2> QED
    BY <2>1, <2>4, <2>5 DEF PushInv, PushMoved
<1>3. ASSUME NEW t \in Tokens,
             Notifications!Uninstall(t) \/ Notifications!SignOn(t) \/ Notifications!SignOff(t),
             UNCHANGED <<pc, local, overlapped>>
      PROVE  PushInv'
  <2>1. pc' = pc /\ local' = local /\ overlapped' = overlapped
    BY <1>3
  <2>8. devices \in [Tokens -> Notifications!Devices]
    BY DEF PushInv, Notifications!TypeOK
  <2>9. PICK d \in Notifications!Devices :
          /\ devices' = [devices EXCEPT ![t] = d]
          /\ d.expo = devices[t].expo /\ (devices[t].gone => d.gone)
          /\ \/ d.active = devices[t].active /\ d.off = devices[t].off
             \/ d.active \/ d.off
    <3> DEFINE left == [devices[t] EXCEPT !.gone = TRUE]
               on   == [devices[t] EXCEPT !.active = TRUE, !.off = FALSE]
               off  == [devices[t] EXCEPT !.active = FALSE, !.off = TRUE]
    <3>1. CASE Notifications!Uninstall(t)
      <4>1. devices' = [devices EXCEPT ![t] = left]
        BY <3>1 DEF Notifications!Uninstall
      <4>2. /\ left \in Notifications!Devices /\ left.expo = devices[t].expo /\ left.gone
            /\ left.active = devices[t].active /\ left.off = devices[t].off
        BY <2>8 DEF Notifications!Devices
      <4> QED
        BY <4>1, <4>2
    <3>2. CASE Notifications!SignOn(t)
      <4>1. devices' = [devices EXCEPT ![t] = on]
        BY <2>8, <3>2 DEF Notifications!SignOn
      <4>2. /\ on \in Notifications!Devices /\ on.expo = devices[t].expo
            /\ on.gone = devices[t].gone /\ on.active
        BY <2>8 DEF Notifications!Devices
      <4> QED
        BY <4>1, <4>2
    <3>3. CASE Notifications!SignOff(t)
      <4>1. devices' = [devices EXCEPT ![t] = off]
        BY <2>8, <3>3 DEF Notifications!SignOff
      <4>2. /\ off \in Notifications!Devices /\ off.expo = devices[t].expo
            /\ off.gone = devices[t].gone /\ off.off
        BY <2>8 DEF Notifications!Devices
      <4> QED
        BY <4>1, <4>2
    <3> QED
      BY <1>3, <3>1, <3>2, <3>3
  <2>3. devices' \in [Tokens -> Notifications!Devices]
    BY <2>8, <2>9
  <2>4. \A u \in Tokens : /\ devices'[u].expo = devices[u].expo
                          /\ devices[u].gone => devices'[u].gone
                          /\ \/ devices'[u].active = devices[u].active /\ devices'[u].off = devices[u].off
                             \/ devices'[u].active \/ devices'[u].off
    BY <2>8, <2>9
  <2>5. PushGoneOnly'
    BY <2>4 DEF PushInv, PushGoneOnly, PushAllExpo, PushOneChunk
  <2>6. \A h \in Handlers : PushJob(local[h], pc[h])'
    BY <2>1, <2>4, PushSameJob DEF PushInv
  <2>7. Notifications!TypeOK'
    BY <2>1, <2>3 DEF PushInv, Notifications!TypeOK
  <2> QED
    BY <2>1, <2>5, <2>6, <2>7 DEF PushInv
<1> QED
  BY <1>1, <1>2, <1>3 DEF Notifications!Next

\* The invariant is enough.
LEMMA PushPromised == PushInv => Notifications!TypeOK /\ Notifications!PushReaches
<1> SUFFICES ASSUME PushInv PROVE Notifications!TypeOK /\ Notifications!PushReaches
  OBVIOUS
<1>1. ASSUME NEW h \in Handlers, NEW t \in Tokens
      PROVE  /\ pc[h] = "done" /\ t \in Notifications!ToSet(local[h].tokens) /\ devices[t].expo =>
                  local[h].sent[t] > 0
             /\ local[h].sent[t] <= local[h].failures + 1
  BY DEF PushInv, PushJob
<1> QED
  BY <1>1, PushCounts DEF PushInv, PushGoneOnly, PushAllExpo, PushOneChunk,
     Notifications!PushReaches

-----------------------------------------------------------------------------
(***************************************************************************)
(* The services together.  A behaviour is one of a single service, whose   *)
(* invariant it keeps.                                                     *)
(***************************************************************************)
\* The invariant of the service at work.
RecordsInv ==
  /\ area = "attendance" => ClockInv /\ ClockSoloInv
  /\ area = "approvals" => ApprovalInv /\ ApprovalSoloInv
  /\ area = "seals" => SealInv
  /\ area = "files" => FileInv /\ FileSoloInv
  /\ area = "visits" => VisitInv /\ VisitSoloInv
  /\ area = "care" => CareInv /\ CareSoloInv
  /\ area = "salaries" => SalaryInv /\ SalarySoloInv
  /\ area = "lock" => LockInv /\ LockSoloInv
  /\ area = "recovery" => RecoveryInv /\ RecoverySoloInv
  /\ area = "archive" => ArchiveInv /\ ArchiveSoloInv
  /\ area = "pushes" => PushInv

\* The area is settled in the beginning, and the service keeps its variables.
Serves ==
  /\ area' = area
  /\ area = "attendance" => [Attendance!Next]_(Attendance!vars)
  /\ area = "approvals" => [Approvals!Next]_(Approvals!vars)
  /\ area = "seals" => [DocumentSeals!Next]_(DocumentSeals!vars)
  /\ area = "files" => [Files!Next]_(Files!vars)
  /\ area = "visits" => [FieldVisits!Next]_(FieldVisits!vars)
  /\ area = "care" => [CareSessions!Next]_(CareSessions!vars)
  /\ area = "salaries" => [Salaries!Next]_(Salaries!vars)
  /\ area = "lock" => [LoginLock!Next]_(LoginLock!vars)
  /\ area = "recovery" => [Recovery!Next]_(Recovery!vars)
  /\ area = "archive" => [AttendanceArchive!Next]_(AttendanceArchive!vars)
  /\ area = "pushes" => [Notifications!Next]_(Notifications!vars)

\* Every step is one of the service at work.
LEMMA StepServes == [Next]_vars => Serves
<1> SUFFICES ASSUME [Next]_vars PROVE Serves
  OBVIOUS
<1>1. CASE UNCHANGED vars
  BY <1>1 DEF Serves, vars, attendanceVars, approvalsVars, sealsVars, filesVars, visitsVars,
     careVars, salariesVars, lockVars, recoveryVars, archiveVars, pushesVars, Attendance!vars,
     Approvals!vars, DocumentSeals!vars, Files!vars, FieldVisits!vars, CareSessions!vars,
     Salaries!vars, LoginLock!vars, Recovery!vars, AttendanceArchive!vars, Notifications!vars
<1>2. CASE area = "attendance" /\ Attendance!Next /\ OthersStay
  BY <1>2 DEF Serves, OthersStay, TwoStatements
<1>3. CASE area = "approvals" /\ Approvals!Next /\ OthersStay
  BY <1>3 DEF Serves, OthersStay, TwoStatements
<1>4. CASE area = "seals" /\ DocumentSeals!Next /\ UNCHANGED <<pc, local, overlapped>> /\ OthersStay
  BY <1>4 DEF Serves, OthersStay, TwoStatements
<1>5. CASE area = "files" /\ Files!Next /\ OthersStay
  BY <1>5 DEF Serves, OthersStay, TwoStatements
<1>6. CASE area = "visits" /\ FieldVisits!Next /\ OthersStay
  BY <1>6 DEF Serves, OthersStay, TwoStatements
<1>7. CASE area = "care" /\ CareSessions!Next /\ OthersStay
  BY <1>7 DEF Serves, OthersStay, TwoStatements
<1>8. CASE area = "salaries" /\ Salaries!Next /\ OthersStay
  BY <1>8 DEF Serves, OthersStay, TwoStatements
<1>9. CASE area = "lock" /\ LoginLock!Next /\ OthersStay
  BY <1>9 DEF Serves, OthersStay, TwoStatements
<1>10. CASE area = "recovery" /\ Recovery!Next /\ OthersStay
  BY <1>10 DEF Serves, OthersStay, TwoStatements
<1>11. CASE area = "archive" /\ AttendanceArchive!Next /\ OthersStay
  BY <1>11 DEF Serves, OthersStay, TwoStatements
<1>12. CASE area = "pushes" /\ Notifications!Next /\ OthersStay
  BY <1>12 DEF Serves, OthersStay, TwoStatements
<1> QED
  BY <1>1, <1>2, <1>3, <1>4, <1>5, <1>6, <1>7, <1>8, <1>9, <1>10, <1>11, <1>12 DEF Next

\* Every service begins with its invariant.
LEMMA InitRecords == Init => RecordsInv
<1> SUFFICES ASSUME Init PROVE RecordsInv
  OBVIOUS
<1>1. ASSUME area = "attendance" PROVE ClockInv /\ ClockSoloInv
  BY <1>1, ClockInitHolds DEF Init
<1>2. ASSUME area = "approvals" PROVE ApprovalInv /\ ApprovalSoloInv
  BY <1>2, ApprovalInitHolds, ApprovalInitAlone DEF Init
<1>3. ASSUME area = "seals" PROVE SealInv
  BY <1>3, SealInitHolds DEF Init
<1>4. ASSUME area = "files" PROVE FileInv /\ FileSoloInv
  BY <1>4, FileInitHolds DEF Init
<1>5. ASSUME area = "visits" PROVE VisitInv /\ VisitSoloInv
  BY <1>5, VisitInitHolds DEF Init
<1>6. ASSUME area = "care" PROVE CareInv /\ CareSoloInv
  BY <1>6, CareInitHolds DEF Init
<1>7. ASSUME area = "salaries" PROVE SalaryInv /\ SalarySoloInv
  BY <1>7, SalaryInitHolds DEF Init
<1>8. ASSUME area = "lock" PROVE LockInv /\ LockSoloInv
  BY <1>8, LockInitHolds DEF Init
<1>9. ASSUME area = "recovery" PROVE RecoveryInv /\ RecoverySoloInv
  BY <1>9, RecoveryInitHolds DEF Init
<1>10. ASSUME area = "archive" PROVE ArchiveInv /\ ArchiveSoloInv
  BY <1>10, ArchiveInitHolds DEF Init
<1>11. ASSUME area = "pushes" PROVE PushInv
  BY <1>11, PushInitHolds DEF Init
<1> QED
  BY <1>1, <1>2, <1>3, <1>4, <1>5, <1>6, <1>7, <1>8, <1>9, <1>10, <1>11 DEF RecordsInv

\* Every service keeps it.
LEMMA StepRecords == RecordsInv /\ [Next]_vars => RecordsInv'
<1> SUFFICES ASSUME RecordsInv, [Next]_vars PROVE RecordsInv'
  OBVIOUS
<1>0. Serves
  BY StepServes
<1>1. ASSUME area = "attendance" PROVE (ClockInv /\ ClockSoloInv)'
  BY <1>0, <1>1, ClockStepHolds DEF Serves, RecordsInv
<1>2. ASSUME area = "approvals" PROVE (ApprovalInv /\ ApprovalSoloInv)'
  BY <1>0, <1>2, ApprovalStepHolds DEF Serves, RecordsInv
<1>3. ASSUME area = "seals" PROVE (SealInv)'
  BY <1>0, <1>3, SealStepHolds DEF Serves, RecordsInv
<1>4. ASSUME area = "files" PROVE (FileInv /\ FileSoloInv)'
  BY <1>0, <1>4, FileStepHolds DEF Serves, RecordsInv
<1>5. ASSUME area = "visits" PROVE (VisitInv /\ VisitSoloInv)'
  BY <1>0, <1>5, VisitStepHolds DEF Serves, RecordsInv
<1>6. ASSUME area = "care" PROVE (CareInv /\ CareSoloInv)'
  BY <1>0, <1>6, CareStepHolds DEF Serves, RecordsInv
<1>7. ASSUME area = "salaries" PROVE (SalaryInv /\ SalarySoloInv)'
  BY <1>0, <1>7, SalaryStepHolds DEF Serves, RecordsInv
<1>8. ASSUME area = "lock" PROVE (LockInv /\ LockSoloInv)'
  BY <1>0, <1>8, LockStepHolds DEF Serves, RecordsInv
<1>9. ASSUME area = "recovery" PROVE (RecoveryInv /\ RecoverySoloInv)'
  BY <1>0, <1>9, RecoveryStepHolds DEF Serves, RecordsInv
<1>10. ASSUME area = "archive" PROVE (ArchiveInv /\ ArchiveSoloInv)'
  BY <1>0, <1>10, ArchiveStepHolds DEF Serves, RecordsInv
<1>11. ASSUME area = "pushes" PROVE (PushInv)'
  BY <1>0, <1>11, PushStepHolds DEF Serves, RecordsInv
<1> QED
  BY <1>0, <1>1, <1>2, <1>3, <1>4, <1>5, <1>6, <1>7, <1>8, <1>9, <1>10, <1>11 DEF RecordsInv, Serves

\* Every state has the invariant of its service.
THEOREM RecordsInvariance == Spec => []RecordsInv
  BY InitRecords, StepRecords, PTL DEF Spec

\* The services keep the types of their rows.
THEOREM RecordsTyped == Spec => []TypeOK
<1>1. RecordsInv => TypeOK
  <2> SUFFICES ASSUME RecordsInv PROVE TypeOK
    OBVIOUS
  <2>1. area = "attendance" => Attendance!TypeOK
    BY ClockPromised DEF RecordsInv
  <2>2. area = "approvals" => Approvals!TypeOK
    BY ApprovalPromised DEF RecordsInv
  <2>3. area = "files" => Files!TypeOK
    BY FilePromised DEF RecordsInv
  <2>4. area = "visits" => FieldVisits!TypeOK
    BY VisitPromised DEF RecordsInv
  <2>5. area = "care" => CareSessions!TypeOK
    BY CarePromised DEF RecordsInv
  <2>6. area = "salaries" => Salaries!TypeOK
    BY SalaryPromised DEF RecordsInv
  <2>7. area = "lock" => LoginLock!TypeOK
    BY LockPromised DEF RecordsInv
  <2>8. area = "recovery" => Recovery!TypeOK
    BY RecoveryPromised DEF RecordsInv
  <2>9. area = "archive" => AttendanceArchive!TypeOK
    BY ArchivePromised DEF RecordsInv
  <2>10. area = "pushes" => Notifications!TypeOK
    BY PushPromised DEF RecordsInv
  <2> QED
    BY <2>1, <2>2, <2>3, <2>4, <2>5, <2>6, <2>7, <2>8, <2>9, <2>10 DEF TypeOK
<1> QED
  BY RecordsInvariance, <1>1, PTL

\* However many requests and replicas interleave, unless an UPDATE fell between the
\* SELECT and the UPDATE of another save, a row of attendance that no manager has touched
\* tells one story, and a salary is paid exactly when it has the date of its payment.  As
\* long as handlers do not overlap, a day has one open visit, linked to the task opened
\* for it unless the handler ended between the two, a recipient one open session, and
\* only the last link sets a password, once.
THEOREM RowsTellOneStory == Spec => []OneStory
<1>1. RecordsInv => OneStory
  <2> SUFFICES ASSUME RecordsInv PROVE OneStory
    OBVIOUS
  <2>1. area = "attendance" => Attendance!OneStory
    BY ClockPromised DEF RecordsInv
  <2>2. area = "visits" => FieldVisits!OneOpenVisit
    BY VisitPromised DEF RecordsInv
  <2>3. area = "care" => CareSessions!OneOpenSession
    BY CarePromised DEF RecordsInv
  <2>4. area = "recovery" => Recovery!LastLinkOnly
    BY RecoveryPromised DEF RecordsInv
  <2>5. area = "salaries" => Salaries!PaidIsDated
    BY SalaryPromised DEF RecordsInv
  <2> QED
    BY <2>1, <2>2, <2>3, <2>4, <2>5 DEF OneStory
<1> QED
  BY RecordsInvariance, <1>1, PTL

\* However requests and the timers of any number of replicas interleave, when the date of
\* a shift is over the employee has come or is absent, unless the timer of every replica
\* broke off before it came to the employee, or an UPDATE fell between the two statements
\* of another save.
THEOREM ShiftsSettled == Spec => []ShiftsAreSettled
<1>1. RecordsInv => ShiftsAreSettled
  BY ClockPromised DEF RecordsInv, ShiftsAreSettled
<1> QED
  BY RecordsInvariance, <1>1, PTL

\* For any line, and whatever is in flight, a document that is approved or applied was
\* answered by an approver of every number of its line, unless its drafting was raced.
THEOREM NoApproverSkipped == Spec => []NobodySkipped
<1>1. RecordsInv => NobodySkipped
  BY ApprovalPromised DEF RecordsInv, NobodySkipped
<1> QED
  BY RecordsInvariance, <1>1, PTL

\* As long as handlers do not overlap, those answers are approvals, also where handlers
\* died half-way, and the change of a document is applied at most once.
THEOREM ApprovalsAreApprovals == Spec => []ApprovedByAll
<1>1. RecordsInv => ApprovedByAll
  BY ApprovalPromised DEF RecordsInv, ApprovedByAll
<1> QED
  BY RecordsInvariance, <1>1, PTL

\* For any texts and any number of rows, in whatever order the database returns them, a
\* seal shows every change between documents without '|' in the title and null in a
\* comment, and every other but of where the title ends or of null to empty; and it shows
\* none where there is none unless two steps have one number.
THEOREM SealsTell == Spec => []SealTells
<1>1. RecordsInv => SealTells
  BY SealPromised DEF RecordsInv, SealTells
<1> QED
  BY RecordsInvariance, <1>1, PTL

\* However handlers interleave: a file that may be downloaded has its object in S3; a
\* record of attendance that was not corrected while it was archived is in its table as
\* saved last, or in the archive with the archive's columns; a lock of the login is set in
\* time; and a push that is done has reached every device it knew but those that were
\* signed off or have lost the app.
THEOREM StoresAgree == Spec => []StoresInStep
<1>1. RecordsInv => StoresInStep
  <2> SUFFICES ASSUME RecordsInv PROVE StoresInStep
    OBVIOUS
  <2>1. area = "files" => Files!StorageInStep
    BY FilePromised DEF RecordsInv
  <2>2. area = "lock" => LoginLock!LockedInTime
    BY LockPromised DEF RecordsInv
  <2>3. area = "archive" => AttendanceArchive!NothingLost
    BY ArchivePromised DEF RecordsInv
  <2>4. area = "pushes" => Notifications!PushReaches
    BY PushPromised DEF RecordsInv
  <2> QED
    BY <2>1, <2>2, <2>3, <2>4 DEF StoresInStep
<1> QED
  BY RecordsInvariance, <1>1, PTL

\* As long as handlers do not overlap, nothing changes in a sealed document.
THEOREM SealedForGood == Spec => SealHolds
<1>1. RecordsInv /\ [Next]_vars => [area = "approvals" => Approvals!SealKept]_vars
  BY StepServes, ApprovalStepHolds DEF RecordsInv, Serves
<1> QED
  BY RecordsInvariance, <1>1, PTL DEF Spec, SealHolds

\* For any number of replicas, as long as handlers do not overlap, what was decided
\* stands: of documents, salaries, visits, sessions and files; and of clock-ins, that no
\* handler but a manager's changes one, though a timer may take it away.
THEOREM DecisionsStand == Spec => DecidedOnce
<1>1. RecordsInv /\ [Next]_vars =>
        [/\ area = "attendance" => Attendance!FirstKept
         /\ area = "approvals" => Approvals!DecisionKept
         /\ area = "salaries" => Salaries!SalaryKept
         /\ area = "visits" => FieldVisits!VisitKept
         /\ area = "care" => CareSessions!SessionKept
         /\ area = "files" => Files!DeletionKept]_vars
  <2> SUFFICES ASSUME RecordsInv, [Next]_vars
               PROVE  /\ area = "attendance" => Attendance!FirstKept
                      /\ area = "approvals" => Approvals!DecisionKept
                      /\ area = "salaries" => Salaries!SalaryKept
                      /\ area = "visits" => FieldVisits!VisitKept
                      /\ area = "care" => CareSessions!SessionKept
                      /\ area = "files" => Files!DeletionKept
    OBVIOUS
  <2>0. Serves
    BY StepServes
  <2>1. area = "attendance" => Attendance!FirstKept
    BY <2>0, ClockStepHolds DEF RecordsInv, Serves
  <2>2. area = "approvals" => Approvals!DecisionKept
    BY <2>0, ApprovalStepHolds DEF RecordsInv, Serves
  <2>3. area = "salaries" => Salaries!SalaryKept
    BY <2>0, SalaryStepHolds DEF RecordsInv, Serves
  <2>4. area = "visits" => FieldVisits!VisitKept
    BY <2>0, VisitStepHolds DEF RecordsInv, Serves
  <2>5. area = "care" => CareSessions!SessionKept
    BY <2>0, CareStepHolds DEF RecordsInv, Serves
  <2>6. area = "files" => Files!DeletionKept
    BY <2>0, FileStepHolds DEF RecordsInv, Serves
  <2> QED
    BY <2>1, <2>2, <2>3, <2>4, <2>5, <2>6
<1> QED
  BY RecordsInvariance, <1>1, PTL DEF Spec, DecidedOnce
=============================================================================
