------------------------------ MODULE Credits ------------------------------
(***************************************************************************)
(* The credit wallet of a company: src/backend/src/modules/credits, with   *)
(* the two features that spend credits (AI classification and contract     *)
(* OCR).                                                                   *)
(*                                                                         *)
(* The backend is one Node process: handlers interleave at every await, so *)
(* each step below is what a handler does between two awaits on the        *)
(* database.  A transaction that takes the row lock (SELECT ... FOR        *)
(* UPDATE) is the step that locks and reads, then the step that writes and *)
(* commits; TxnFails is its rollback.                                      *)
(***************************************************************************)
EXTENDS Integers, Sequences, FiniteSets

CONSTANTS
  Companies,         \* companies.id
  Users,             \* users.id
  CompanyOf,         \* users.company_id
  Requests,          \* HTTP requests that may be in flight together
  Replicas,          \* backend processes, each with its own grantMonthlyCredits timer
  None,              \* null: no lock holder, no user, no task
  DAILY_USER_LIMIT,  \* 20 in the source
  FreeGrant,         \* 20: opening balance of getBalance and monthly_grant
  Packages,          \* credits of the purchase packages: 10, 50 and 200
  MaxTx              \* bound on the rows of credit_transactions per company

ASSUME CompanyOfAssumption == CompanyOf \in [Users -> Companies]
ASSUME ActorAssumption == Replicas \cap Requests = {} /\ None \notin Requests \cup Replicas
ASSUME RequestsAssumption == IsFiniteSet(Requests) /\ Requests # {}
ASSUME AmountAssumption ==
  /\ DAILY_USER_LIMIT \in Nat
  /\ FreeGrant \in Nat
  /\ Packages \subseteq Nat
  /\ MaxTx \in Nat

Actors == Requests \cup Replicas

\* What a feature costs; only these two features call deduct.
CREDIT_COSTS == [ocr |-> 2, ai_classify |-> 1]
Features == {"ocr", "ai_classify"}

VARIABLES
  rows,     \* companies that have a row in credits
  balance,  \* credits.balance
  opening,  \* the balance the row was created with (history variable)
  history,  \* credit_transactions of the company, oldest first
  used,     \* SUM(ABS(amount)) of today's deductions of a user
  lock,     \* holder of the lock on the company's credits row
  pc,       \* where each handler is suspended
  task,     \* the arguments the handler was called with
  seen,     \* the balance its transaction read under the lock
  eligible, \* companies whose subscription is active, trialing or free
  pending,  \* companies a replica's running grant has still to charge
  due,      \* replicas whose timer has not fired this month
  granted   \* monthly_grant rows of the company this month (history variable)

wallet == <<rows, balance, opening, history, used>>
grants == <<pending, due, granted>>
vars == <<rows, balance, opening, history, used, lock, pc, task, seen,
          eligible, pending, due, granted>>

Steps == {"idle",      \* no request in this slot
          "checked",   \* deduct: the daily usage was read and is low enough
          "locked",    \* deduct or charge: holds the row lock
          "working",   \* deduct committed: the OpenAI call is running
          "failed",    \* the OpenAI call threw
          "charging",  \* charge was called, nothing read yet
          "inserting", \* charge found no row and is about to insert one
          "opening"}   \* getBalance found no row and is about to insert one

Tasks == [op : Features \cup {"charge", "getBalance"}, company : Companies,
          user : Users \cup {None}, amount : Nat]

Entries == [amount : Int, balanceAfter : Int]

(***************************************************************************)
(* Initial state: companies exist, none has opened its wallet yet.         *)
(***************************************************************************)
Init ==
  /\ rows = {}
  /\ balance = [c \in Companies |-> 0]
  /\ opening = [c \in Companies |-> 0]
  /\ history = [c \in Companies |-> <<>>]
  /\ used = [u \in Users |-> 0]
  /\ lock = [c \in Companies |-> None]
  /\ pc = [a \in Actors |-> "idle"]
  /\ task = [a \in Actors |-> None]
  /\ seen = [a \in Actors |-> 0]
  /\ eligible = Companies
  /\ pending = [k \in Replicas |-> {}]
  /\ due = Replicas
  /\ granted = [c \in Companies |-> 0]

Goto(a, step) == pc' = [pc EXCEPT ![a] = step]

\* The handler starts with its arguments, or returns and its locals are gone.
Call(a, op, c, u, amount) ==
  task' = [task EXCEPT ![a] = [op |-> op, company |-> c, user |-> u, amount |-> amount]]

Return(a) ==
  /\ Goto(a, "idle")
  /\ task' = [task EXCEPT ![a] = None]
  /\ seen' = [seen EXCEPT ![a] = 0]

\* Mutant: findOne without lock: { mode: 'pessimistic_write' }.
ReadUnlocked(a, c) == UNCHANGED lock

\* Mutant: the transaction is left open.
StayOpen(a, c) == UNCHANGED lock

\* The row lock of a transaction, taken by SELECT ... FOR UPDATE and given back
\* by COMMIT and ROLLBACK.
Acquire(a, c) == lock' = [lock EXCEPT ![c] = a]
Release(a, c) == lock' = [lock EXCEPT ![c] = IF @ = a THEN None ELSE @]

\* Mutant: the usage is SUM(amount), where deductions are negative.
Signed(n) == n

Abs(n) == IF n < 0 THEN -n ELSE n

\* The bound of the model: no new work for a wallet with a long history.
Room(c) == Len(history[c]) < MaxTx

(***************************************************************************)
(* getBalance: reads the row, and creates it when there is none.           *)
(***************************************************************************)
BalanceRead(r, u) ==
  /\ pc[r] = "idle"
  /\ CompanyOf[u] \notin rows
  /\ Call(r, "getBalance", CompanyOf[u], u, 0)
  /\ Goto(r, "opening")
  /\ UNCHANGED <<wallet, lock, seen, eligible, grants>>

\* The unique index on company_id makes the second of two inserts throw.
BalanceCreate(r) ==
  LET c == task[r].company IN
  /\ pc[r] = "opening"
  /\ IF c \in rows
       THEN UNCHANGED <<rows, balance, opening>>
       ELSE /\ rows' = rows \cup {c}
            /\ balance' = [balance EXCEPT ![c] = FreeGrant]
            /\ opening' = [opening EXCEPT ![c] = FreeGrant]
  /\ Return(r)
  /\ UNCHANGED <<history, used, lock, eligible, grants>>

(***************************************************************************)
(* deduct: the daily usage is read before the transaction; the balance is  *)
(* read again under the lock.                                              *)
(***************************************************************************)
\* Mutant: the limit is compared with the usage before this deduction.
UsageBelowLimit(u, amount) == used[u] < DAILY_USER_LIMIT

WithinDailyLimit(u, amount) == used[u] + amount <= DAILY_USER_LIMIT

DeductCheck(r, u, f) ==
  /\ pc[r] = "idle"
  /\ Room(CompanyOf[u])
  /\ WithinDailyLimit(u, CREDIT_COSTS[f])
  /\ Call(r, f, CompanyOf[u], u, CREDIT_COSTS[f])
  /\ Goto(r, "checked")
  /\ UNCHANGED <<wallet, lock, seen, eligible, grants>>

\* Mutant: any positive balance is enough.
NotEmpty(c, amount) == balance[c] > 0

Covers(c, amount) == balance[c] >= amount

DeductLock(r) ==
  LET c == task[r].company IN
  /\ pc[r] = "checked"
  /\ lock[c] = None
  /\ IF c \in rows /\ Covers(c, task[r].amount)
       THEN /\ Acquire(r, c)
            /\ seen' = [seen EXCEPT ![r] = balance[c]]
            /\ Goto(r, "locked")
            /\ UNCHANGED task
       ELSE /\ Return(r)
            /\ UNCHANGED lock
  /\ UNCHANGED <<wallet, eligible, grants>>

\* em.save(credit), em.save(tx) and COMMIT of a transaction that read seen[a].
Post(a, amount) ==
  LET c == task[a].company IN
  /\ balance' = [balance EXCEPT ![c] = seen[a] + amount]
  /\ history' = [history EXCEPT ![c] =
                   Append(@, [amount |-> amount, balanceAfter |-> seen[a] + amount])]
  /\ Release(a, c)

DeductCommit(r) ==
  /\ pc[r] = "locked"
  /\ task[r].op \in Features
  /\ Post(r, -task[r].amount)
  /\ used' = [used EXCEPT ![task[r].user] = @ + Abs(-task[r].amount)]
  /\ Goto(r, "working")
  /\ UNCHANGED <<rows, opening, task, seen, eligible, grants>>

\* The OpenAI call answers and the handler returns, or it throws.
FeatureAnswers(r) ==
  /\ pc[r] = "working"
  /\ \/ Return(r)
     \/ Goto(r, "failed") /\ UNCHANGED <<task, seen>>
  /\ UNCHANGED <<wallet, lock, eligible, grants>>

ErrorResponse(r) ==
  /\ pc[r] = "failed"
  /\ Return(r)
  /\ UNCHANGED <<wallet, lock, eligible, grants>>

(***************************************************************************)
(* charge, called by the purchase handler and by the monthly grant.        *)
(***************************************************************************)
Purchase(r, u, p) ==
  /\ pc[r] = "idle"
  /\ Room(CompanyOf[u])
  /\ Call(r, "charge", CompanyOf[u], u, p)
  /\ Goto(r, "charging")
  /\ UNCHANGED <<wallet, lock, seen, eligible, grants>>

\* FOR UPDATE locks the row when there is one, and nothing when there is none.
ChargeLock(a) ==
  LET c == task[a].company IN
  /\ pc[a] = "charging"
  /\ lock[c] = None
  /\ IF c \in rows
       THEN /\ Acquire(a, c)
            /\ seen' = [seen EXCEPT ![a] = balance[c]]
            /\ Goto(a, "locked")
       ELSE /\ seen' = [seen EXCEPT ![a] = 0]
            /\ Goto(a, "inserting")
            /\ UNCHANGED lock
  /\ UNCHANGED <<wallet, task, eligible, grants>>

ChargeCommit(a) ==
  /\ pc[a] = "locked"
  /\ task[a].op = "charge"
  /\ Post(a, task[a].amount)
  /\ Return(a)
  /\ granted' = IF a \in Replicas THEN [granted EXCEPT ![task[a].company] = @ + 1]
                                  ELSE granted
  /\ UNCHANGED <<rows, opening, used, eligible, pending, due>>

\* An exception in charge leaves grantMonthlyCredits: its for loop has no catch.
Throw(a) ==
  /\ Return(a)
  /\ pending' = IF a \in Replicas THEN [pending EXCEPT ![a] = {}] ELSE pending

ChargeInsert(a) ==
  LET c == task[a].company IN
  /\ pc[a] = "inserting"
  /\ IF c \in rows
       THEN /\ Throw(a)
            /\ UNCHANGED <<rows, balance, opening, history>>
       ELSE /\ rows' = rows \cup {c}
            /\ balance' = [balance EXCEPT ![c] = task[a].amount]
            /\ opening' = [opening EXCEPT ![c] = 0]
            /\ history' = [history EXCEPT ![c] =
                 Append(@, [amount |-> task[a].amount, balanceAfter |-> task[a].amount])]
            /\ Return(a)
            /\ UNCHANGED pending
  /\ UNCHANGED <<used, lock, eligible, due, granted>>

\* A statement of the transaction fails, or the connection drops: rollback.
TxnFails(a) ==
  /\ pc[a] \in {"locked", "inserting"}
  /\ Release(a, task[a].company)
  /\ Throw(a)
  /\ UNCHANGED <<wallet, eligible, due, granted>>

(***************************************************************************)
(* grantMonthlyCredits: one SELECT, then one charge after the other.       *)
(***************************************************************************)
GrantSelect(k) ==
  /\ k \in due
  /\ \A c \in Companies : Room(c)
  /\ due' = due \ {k}
  /\ pending' = [pending EXCEPT ![k] = rows \cap eligible]
  /\ UNCHANGED <<wallet, lock, pc, task, seen, eligible, granted>>

GrantNext(k, c) ==
  /\ pc[k] = "idle"
  /\ c \in pending[k]
  /\ pending' = [pending EXCEPT ![k] = @ \ {c}]
  /\ Call(k, "charge", c, None, FreeGrant)
  /\ Goto(k, "charging")
  /\ UNCHANGED <<wallet, lock, seen, eligible, due, granted>>

\* The first of the next month: no grant runs for a month.
NextMonth ==
  /\ due = {}
  /\ \A k \in Replicas : pc[k] = "idle" /\ pending[k] = {}
  /\ due' = Replicas
  /\ granted' = [c \in Companies |-> 0]
  /\ UNCHANGED <<wallet, lock, pc, task, seen, eligible, pending>>

(***************************************************************************)
(* The environment: midnight empties today's usage, and the subscription   *)
(* of a company enters or leaves active, trialing and free.                *)
(***************************************************************************)
Midnight ==
  /\ used' = [u \in Users |-> 0]
  /\ UNCHANGED <<rows, balance, opening, history, lock, pc, task, seen,
                 eligible, grants>>

SubscriptionChanges(c) ==
  /\ eligible' = IF c \in eligible THEN eligible \ {c} ELSE eligible \cup {c}
  /\ UNCHANGED <<wallet, lock, pc, task, seen, grants>>

Next ==
  \/ \E r \in Requests :
       \/ \E u \in Users : BalanceRead(r, u)
       \/ BalanceCreate(r)
       \/ \E u \in Users, f \in Features : DeductCheck(r, u, f)
       \/ DeductLock(r)
       \/ DeductCommit(r)
       \/ FeatureAnswers(r)
       \/ ErrorResponse(r)
       \/ \E u \in Users, p \in Packages : Purchase(r, u, p)
  \/ \E a \in Actors :
       \/ ChargeLock(a)
       \/ ChargeCommit(a)
       \/ ChargeInsert(a)
       \/ TxnFails(a)
  \/ \E k \in Replicas : GrantSelect(k) \/ \E c \in Companies : GrantNext(k, c)
  \/ \E c \in Companies : SubscriptionChanges(c)
  \/ NextMonth
  \/ Midnight

Spec == Init /\ [][Next]_vars

\* A handler that was started is run to its end, and PostgreSQL hands a row
\* lock to its waiters in turn, so a waiter is not overtaken for ever.
Fairness ==
  /\ \A r \in Requests :
       /\ WF_vars(BalanceCreate(r) \/ DeductCommit(r) \/ FeatureAnswers(r) \/ ErrorResponse(r))
       /\ SF_vars(DeductLock(r))
  /\ \A a \in Actors :
       /\ WF_vars(ChargeCommit(a) \/ ChargeInsert(a))
       /\ SF_vars(ChargeLock(a))
  /\ \A k \in Replicas : WF_vars(\E c \in Companies : GrantNext(k, c))

FairSpec == Spec /\ Fairness

-----------------------------------------------------------------------------
(***************************************************************************)
(* Properties                                                              *)
(***************************************************************************)

\* Types of the rows, the lock and the handlers' local variables.
TypeOK ==
  /\ rows \subseteq Companies
  /\ balance \in [Companies -> Int]
  /\ opening \in [Companies -> Nat]
  /\ history \in [Companies -> Seq(Entries)]
  /\ used \in [Users -> Nat]
  /\ lock \in [Companies -> Actors \cup {None}]
  /\ pc \in [Actors -> Steps]
  /\ task \in [Actors -> Tasks \cup {None}]
  /\ seen \in [Actors -> Int]
  /\ eligible \subseteq Companies
  /\ pending \in [Replicas -> SUBSET Companies]
  /\ due \subseteq Replicas
  /\ granted \in [Companies -> Nat]

\* The balance a transaction read is still the balance when it commits: the
\* row lock spans the read and the write of deduct and of charge.
ReadsAreCurrent ==
  \A a \in Actors :
    pc[a] = "locked" =>
      /\ lock[task[a].company] = a
      /\ task[a].company \in rows
      /\ seen[a] = balance[task[a].company]

\* No interleaving of deductions, purchases and grants overdraws a wallet.
BalanceNeverNegative == \A c \in Companies : balance[c] >= 0

\* The statement of account adds up: every row of credit_transactions follows
\* from the one before it, and the last one is the balance of the wallet.
BalanceBefore(c, i) == IF i = 1 THEN opening[c] ELSE history[c][i - 1].balanceAfter

LedgerAddsUp ==
  \A c \in Companies :
    /\ \A i \in 1 .. Len(history[c]) :
         history[c][i].balanceAfter = BalanceBefore(c, i) + history[c][i].amount
    /\ c \in rows => balance[c] = BalanceBefore(c, Len(history[c]) + 1)

\* The handlers, their locks and their rollbacks implement wallets whose entries
\* are posted one at a time: each commit is one step of Wallet, and everything
\* else does not show.
Abstract == INSTANCE Wallet WITH
  open <- rows, statement <- history, Opening <- FreeGrant,
  Charges <- Packages \cup {FreeGrant}, Costs <- {CREDIT_COSTS[f] : f \in Features}

ImplementsWallet == Abstract!Spec

\* The daily limit is read outside the transaction, so requests in flight
\* together may exceed it: by no more than one costliest feature for each of
\* the others.
DailyOvershootBounded ==
  \A u \in Users :
    used[u] <= DAILY_USER_LIMIT + (Cardinality(Requests) - 1) * CREDIT_COSTS["ocr"]

\* No request hangs: every call of deduct, charge and getBalance returns, also
\* when many wait for the same row.
EveryCallReturns == \A a \in Actors : pc[a] # "idle" ~> pc[a] = "idle"

\* The monthly grant gets past every company it selected.
GrantFinishes == \A k \in Replicas : pending[k] # {} ~> pending[k] = {}

\* The column comment of monthly_grant (credit.entity.ts:24): it is the free
\* amount of the month, so a company gets it once a month.
GrantedOnceAMonth == \A c \in Companies : granted[c] <= 1
=============================================================================
