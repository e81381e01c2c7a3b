------------------------------ MODULE LoginLock ------------------------------
(***************************************************************************)
(* The lock of an account after wrong passwords (login-lock.service.ts and *)
(* login of auth.service.ts).  Redis counts the failures under one key and *)
(* holds the lock under another, each with a time to live that is set by a *)
(* command of its own; requests interleave between the commands.           *)
(***************************************************************************)
EXTENDS Naturals, FiniteSets, Awaits

CONSTANTS
  MAX_ATTEMPTS, \* failures that lock the account
  TTL           \* time to live of both keys, in ticks

LockAssumption ==
  /\ MAX_ATTEMPTS \in Nat \ {0, 1} /\ TTL \in Nat \ {0}
  /\ IsFiniteSet(Handlers) /\ None \notin Nat

VARIABLES
  count,    \* login:fail, 0 when the key is not there
  lifetime, \* ticks until the key goes, None when it has no time to live
  lock,     \* ticks until login:lock goes, 0 when it is not there
  died      \* a handler died between two commands (history)

vars == <<count, lifetime, lock, died, pc, local, overlapped>>

\* Bound: two failures beyond the limit are counted for each request in flight.
MaxCount == MAX_ATTEMPTS + 2 * Cardinality(Handlers)

\* What each handler holds is the number INCR returned.
Steps == {"idle", "checking", "failing", "expiring", "locking", "clearing", "unlocking"}

Init ==
  /\ count = 0
  /\ lifetime = None
  /\ lock = 0
  /\ died = FALSE
  /\ AllIdle(0)

Return(h) == Goto(h, "idle") /\ Hold(h, 0)

\* isLocked.
Login(h) ==
  /\ pc[h] = "idle"
  /\ lock = 0
  /\ Goto(h, "checking")
  /\ UNCHANGED <<count, lifetime, lock, died, local>>

\* The password is wrong, or right; a company that is not active refuses the
\* login, and the failures stay.
CheckPassword(h) ==
  /\ pc[h] = "checking"
  /\ \E step \in {"failing", "clearing", "idle"} : Goto(h, step)
  /\ UNCHANGED <<count, lifetime, lock, died, local>>

\* recordFailure: INCR keeps the time to live of a key that is there.
\* Mutant: the limit is one failure later.
AfterTooMany(n) == IF n = 1 THEN "expiring" ELSE IF n > MAX_ATTEMPTS THEN "locking" ELSE "idle"
After(n) == IF n = 1 THEN "expiring" ELSE IF n >= MAX_ATTEMPTS THEN "locking" ELSE "idle"
Incr(h) ==
  /\ pc[h] = "failing"
  /\ count < MaxCount
  /\ count' = count + 1
  /\ Goto(h, After(count'))
  /\ Hold(h, IF After(count') = "idle" THEN 0 ELSE count')
  /\ UNCHANGED <<lifetime, lock, died>>
Expire(h) ==
  /\ pc[h] = "expiring"
  /\ lifetime' = IF count = 0 THEN None ELSE TTL
  /\ IF local[h] >= MAX_ATTEMPTS THEN Goto(h, "locking") /\ UNCHANGED local ELSE Return(h)
  /\ UNCHANGED <<count, lock, died>>
SetLock(h) ==
  /\ pc[h] = "locking"
  /\ lock' = TTL
  /\ Return(h)
  /\ UNCHANGED <<count, lifetime, died>>

\* clearFailures, after the tokens were made.
DelAttempts(h) ==
  /\ pc[h] = "clearing"
  /\ count' = 0 /\ lifetime' = None
  /\ Goto(h, "unlocking")
  /\ UNCHANGED <<lock, died, local>>
DelLock(h) ==
  /\ pc[h] = "unlocking"
  /\ lock' = 0
  /\ Return(h)
  /\ UNCHANGED <<count, lifetime, died>>

\* The process dies, or Redis does not answer, between two commands.
Crash(h) ==
  /\ InFlight(h)
  /\ died' = TRUE
  /\ Return(h)
  /\ UNCHANGED <<count, lifetime, lock>>

\* A tick is some minutes, and a request is over in less.
Tick ==
  /\ Quiet
  /\ lock > 0 \/ lifetime # None
  /\ lock' = IF lock > 0 THEN lock - 1 ELSE 0
  /\ count' = IF lifetime = 1 THEN 0 ELSE count
  /\ lifetime' = IF lifetime \in {None, 1} THEN None ELSE lifetime - 1
  /\ UNCHANGED <<died, pc, local, overlapped>>

HandlerStep(h) ==
  \/ Login(h) \/ CheckPassword(h) \/ Incr(h) \/ Expire(h) \/ SetLock(h)
  \/ DelAttempts(h) \/ DelLock(h) \/ Crash(h)

Next == (\E h \in Handlers : HandlerStep(h) /\ Overlap(h)) \/ Tick

Spec == Init /\ [][Next]_vars

-----------------------------------------------------------------------------
TypeOK ==
  /\ count \in 0 .. MaxCount
  /\ lifetime \in OrNone(1 .. TTL)
  /\ lock \in 0 .. TTL
  /\ died \in BOOLEAN
  /\ pc \in [Handlers -> Steps]
  /\ local \in [Handlers -> 0 .. MaxCount]
  /\ overlapped \in BOOLEAN

\* As long as no handler dies, however they interleave: failures that are counted
\* are forgotten some time, or the handler that sees to it is at work.  As long as
\* they do not overlap either, whenever none is at work, an account is locked
\* exactly when MAX_ATTEMPTS failures are counted or were within the last TTL.
LockedInTime == ~died =>
  /\ count > 0 /\ lifetime = None => \E h \in Handlers : pc[h] = "expiring"
  /\ ~overlapped /\ Quiet =>
       /\ count <= MAX_ATTEMPTS
       /\ count = MAX_ATTEMPTS => lock > 0
       /\ lock = TTL => count = MAX_ATTEMPTS
=============================================================================
