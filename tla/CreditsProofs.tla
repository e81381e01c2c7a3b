--------------------------- MODULE CreditsProofs ---------------------------
(***************************************************************************)
(* TLAPS proofs about Credits: types, current reads, no overdraft, and the *)
(* statement of account, for any companies, users and number of requests.  *)
(***************************************************************************)
EXTENDS Credits, TLAPS, FiniteSetTheorems

\* What a suspended handler of credit.service.ts carries in its locals: the
\* arguments of its call, and for a deduction under the lock a balance that
\* covers it.
HandlersWellFormed ==
  \A a \in Actors :
    /\ pc[a] # "idle" => task[a] \in Tasks
    /\ pc[a] \in {"checked", "working"} => a \in Requests /\ task[a].user \in Users
    /\ pc[a] \in {"charging", "inserting"} => task[a].op = "charge"
    /\ pc[a] = "locked" /\ task[a].op \in Features =>
         a \in Requests /\ task[a].user \in Users /\ seen[a] >= task[a].amount

\* A company without a row in credits has no credit_transactions.
NoRowNoHistory == \A c \in Companies : c \notin rows => history[c] = <<>>

IInv == /\ TypeOK
        /\ HandlersWellFormed
        /\ NoRowNoHistory
        /\ ReadsAreCurrent
        /\ BalanceNeverNegative
        /\ LedgerAddsUp

\* The costs of credit.service.ts:9-14 are positive numbers.
LEMMA CostsAreNat == \A f \in Features : CREDIT_COSTS[f] \in Nat
  BY DEF Features, CREDIT_COSTS

-----------------------------------------------------------------------------
\* A step that leaves the wallet alone: its own handler moves, the locks of
\* other handlers stay theirs.
LEMMA WalletUntouched ==
  ASSUME IInv, UNCHANGED wallet
  PROVE  NoRowNoHistory' /\ BalanceNeverNegative' /\ LedgerAddsUp'
  BY DEF IInv, wallet, grants, NoRowNoHistory, BalanceNeverNegative, LedgerAddsUp, BalanceBefore

\* The initial state: no wallet is open and no handler is running.
LEMMA InitIInv == Init => IInv
<1> SUFFICES ASSUME Init PROVE IInv
  OBVIOUS
<1>1. TypeOK
  BY CompanyOfAssumption DEF Init, TypeOK, Actors, Steps, Entries
<1>2. HandlersWellFormed /\ ReadsAreCurrent
  BY DEF Init, HandlersWellFormed, ReadsAreCurrent
<1>3. NoRowNoHistory /\ BalanceNeverNegative /\ LedgerAddsUp
  BY DEF Init, NoRowNoHistory, BalanceNeverNegative, LedgerAddsUp
<1> QED
  BY <1>1, <1>2, <1>3 DEF IInv

\* A handler that returns leaves well-typed locals behind.
LEMMA ReturnTypes ==
  ASSUME TypeOK, NEW a \in Actors, Return(a)
  PROVE  /\ pc' \in [Actors -> Steps]
         /\ task' \in [Actors -> Tasks \cup {None}]
         /\ seen' \in [Actors -> Int]
<1>1. pc' \in [Actors -> Steps]
  BY DEF TypeOK, Return, Goto, Steps
<1>2. task' \in [Actors -> Tasks \cup {None}]
  BY DEF TypeOK, Return
<1>3. seen' \in [Actors -> Int]
  BY DEF TypeOK, Return
<1> QED
  BY <1>1, <1>2, <1>3

-----------------------------------------------------------------------------
\* getBalance: opening a wallet keeps the invariant.
LEMMA GetBalanceStep ==
  ASSUME IInv, NEW r \in Requests,
         (\E u \in Users : BalanceRead(r, u)) \/ BalanceCreate(r)
  PROVE  IInv'
<1> r \in Actors
  BY DEF Actors
<1>1. CASE \E u \in Users : BalanceRead(r, u)
  <2> PICK u \in Users : BalanceRead(r, u)
    BY <1>1
  <2>1. NoRowNoHistory' /\ BalanceNeverNegative' /\ LedgerAddsUp'
    BY WalletUntouched DEF BalanceRead
  <2>2. TypeOK'
    BY CompanyOfAssumption DEF IInv, TypeOK, BalanceRead, Call, Goto, Tasks, Steps, wallet, grants
  <2>3. HandlersWellFormed'
    BY CompanyOfAssumption
    DEF IInv, TypeOK, HandlersWellFormed, BalanceRead, Call, Goto, Tasks, wallet, grants
  <2>4. ReadsAreCurrent'
    BY DEF IInv, TypeOK, ReadsAreCurrent, BalanceRead, Call, Goto, wallet, grants
  <2> QED
    BY <2>1, <2>2, <2>3, <2>4 DEF IInv
<1>2. CASE BalanceCreate(r)
  <2> DEFINE c == task[r].company
  <2>0. c \in Companies
    BY <1>2 DEF IInv, TypeOK, HandlersWellFormed, BalanceCreate, Tasks
  <2>1. TypeOK'
    <3>1. /\ rows' \subseteq Companies
          /\ balance' \in [Companies -> Int]
          /\ opening' \in [Companies -> Nat]
      <4>1. CASE c \in rows
        BY <1>2, <4>1 DEF IInv, TypeOK, BalanceCreate
      <4>2. CASE c \notin rows
        BY <1>2, <2>0, <4>2, AmountAssumption DEF IInv, TypeOK, BalanceCreate
      <4> QED
        BY <4>1, <4>2
    <3> QED
      BY <1>2, <3>1, ReturnTypes DEF IInv, TypeOK, BalanceCreate, grants
  <2>2. HandlersWellFormed'
    BY <1>2 DEF IInv, TypeOK, HandlersWellFormed, BalanceCreate, Return, Goto
  <2>3. ReadsAreCurrent'
    BY <1>2, <2>0 DEF IInv, TypeOK, ReadsAreCurrent, BalanceCreate, Return, Goto
  <2>4. NoRowNoHistory'
    BY <1>2 DEF IInv, NoRowNoHistory, BalanceCreate
  <2>5. BalanceNeverNegative'
    <3> SUFFICES ASSUME NEW d \in Companies PROVE balance'[d] >= 0
      BY DEF BalanceNeverNegative
    <3>1. balance'[d] = balance[d] \/ balance'[d] = FreeGrant
      BY <1>2 DEF IInv, TypeOK, BalanceCreate
    <3> QED
      BY <3>1, AmountAssumption DEF IInv, BalanceNeverNegative
  <2>6. LedgerAddsUp'
    <3>1. CASE c \in rows
      <4>1. UNCHANGED <<rows, balance, opening, history>>
        BY <1>2, <3>1 DEF BalanceCreate
      <4> QED
        BY <4>1 DEF IInv, LedgerAddsUp, BalanceBefore
    <3>2. CASE c \notin rows
      <4>1. /\ rows' = rows \cup {c}
            /\ balance' = [balance EXCEPT ![c] = FreeGrant]
            /\ opening' = [opening EXCEPT ![c] = FreeGrant]
            /\ history' = history /\ history[c] = <<>>
        BY <1>2, <2>0, <3>2 DEF IInv, NoRowNoHistory, BalanceCreate
      <4> SUFFICES ASSUME NEW d \in Companies
                   PROVE  /\ \A i \in 1 .. Len(history'[d]) :
                               history'[d][i].balanceAfter =
                                 BalanceBefore(d, i)' + history'[d][i].amount
                          /\ d \in rows' =>
                               balance'[d] = BalanceBefore(d, Len(history[d]) + 1)'
        BY DEF LedgerAddsUp
      <4>2. CASE d # c
        BY <4>1, <4>2 DEF IInv, TypeOK, LedgerAddsUp, BalanceBefore
      <4>3. CASE d = c
        <5>1. history'[d] = <<>> /\ Len(<<>>) = 0
          BY <4>1, <4>3
        <5>2. balance'[d] = FreeGrant /\ opening'[d] = FreeGrant
          BY <2>0, <4>1, <4>3 DEF IInv, TypeOK
        <5> QED
          BY <5>1, <5>2 DEF BalanceBefore
      <4> QED
        BY <4>2, <4>3
    <3> QED
      BY <3>1, <3>2
  <2> QED
    BY <2>1, <2>2, <2>3, <2>4, <2>5, <2>6 DEF IInv
<1> QED
  BY <1>1, <1>2

-----------------------------------------------------------------------------
\* deduct: a step of its check, its lock or its rejection keeps the invariant.
LEMMA DeductStartStep ==
  ASSUME IInv, NEW r \in Requests,
         (\E u \in Users, f \in Features : DeductCheck(r, u, f)) \/ DeductLock(r)
  PROVE  IInv'
<1> r \in Actors
  BY DEF Actors
<1>1. CASE \E u \in Users, f \in Features : DeductCheck(r, u, f)
  <2> PICK u \in Users, f \in Features : DeductCheck(r, u, f)
    BY <1>1
  <2>1. NoRowNoHistory' /\ BalanceNeverNegative' /\ LedgerAddsUp'
    BY WalletUntouched DEF DeductCheck
  <2>2. task'[r] \in Tasks
    BY CompanyOfAssumption, CostsAreNat DEF IInv, TypeOK, DeductCheck, Call, Tasks
  <2>3. TypeOK'
    BY <2>2 DEF IInv, TypeOK, DeductCheck, Call, Goto, Steps, wallet, grants
  <2>4. HandlersWellFormed'
    BY <2>2 DEF IInv, TypeOK, HandlersWellFormed, DeductCheck, Call, Goto, wallet, grants
  <2>5. ReadsAreCurrent'
    BY DEF IInv, TypeOK, ReadsAreCurrent, DeductCheck, Call, Goto, wallet, grants
  <2> QED
    BY <2>1, <2>3, <2>4, <2>5 DEF IInv
<1>2. CASE DeductLock(r)
  <2>0. task[r].company \in Companies /\ task[r].amount \in Nat
    BY <1>2 DEF IInv, TypeOK, HandlersWellFormed, DeductLock, Tasks
  <2>1. NoRowNoHistory' /\ BalanceNeverNegative' /\ LedgerAddsUp'
    BY <1>2, WalletUntouched DEF DeductLock, Acquire
  <2>2. TypeOK'
    <3>1. CASE Return(r) /\ UNCHANGED lock
      BY <1>2, <3>1, ReturnTypes DEF IInv, TypeOK, DeductLock, wallet, grants
    <3>2. CASE /\ lock' = [lock EXCEPT ![task[r].company] = r]
               /\ seen' = [seen EXCEPT ![r] = balance[task[r].company]]
               /\ Goto(r, "locked")
               /\ UNCHANGED task
      BY <1>2, <2>0, <3>2 DEF IInv, TypeOK, DeductLock, Acquire, Goto, Steps, wallet, grants
    <3> QED
      BY <1>2, <3>1, <3>2 DEF DeductLock, Acquire
  <2>3. HandlersWellFormed'
    BY <1>2, <2>0
    DEF IInv, TypeOK, HandlersWellFormed, DeductLock, Covers, Acquire, Return, Goto, wallet, grants
  <2>4. ReadsAreCurrent'
    <3>1. CASE Return(r) /\ UNCHANGED lock
      BY <1>2, <3>1 DEF IInv, TypeOK, ReadsAreCurrent, DeductLock, Acquire, Return, Goto, wallet, grants
    <3>2. CASE /\ task[r].company \in rows
               /\ lock' = [lock EXCEPT ![task[r].company] = r]
               /\ seen' = [seen EXCEPT ![r] = balance[task[r].company]]
               /\ Goto(r, "locked")
               /\ UNCHANGED task
      BY <1>2, <2>0, <3>2, ActorAssumption
      DEF IInv, TypeOK, ReadsAreCurrent, DeductLock, Acquire, Goto, wallet, grants, Actors
    <3> QED
      BY <1>2, <3>1, <3>2 DEF DeductLock, Acquire
  <2> QED
    BY <2>1, <2>2, <2>3, <2>4 DEF IInv
<1> QED
  BY <1>1, <1>2

\* The feature's answer or its error: the deduction stands either way.
LEMMA FeatureStep ==
  ASSUME IInv, NEW r \in Requests, FeatureAnswers(r) \/ ErrorResponse(r)
  PROVE  IInv'
<1> r \in Actors
  BY DEF Actors
<1> USE DEF FeatureAnswers, ErrorResponse
<1>1. NoRowNoHistory' /\ BalanceNeverNegative' /\ LedgerAddsUp'
  BY WalletUntouched
<1>2. TypeOK'
  <2>1. CASE Return(r)
    BY <2>1, ReturnTypes DEF IInv, TypeOK, wallet, grants
  <2>2. CASE Goto(r, "failed") /\ UNCHANGED <<task, seen>>
    BY <2>2 DEF IInv, TypeOK, Goto, Steps, wallet, grants
  <2> QED
    BY <2>1, <2>2
<1>3. HandlersWellFormed'
  BY DEF IInv, TypeOK, HandlersWellFormed, Return, Goto, wallet, grants
<1>4. ReadsAreCurrent'
  BY DEF IInv, TypeOK, ReadsAreCurrent, Return, Goto, wallet, grants
<1> QED
  BY <1>1, <1>2, <1>3, <1>4 DEF IInv

\* A charge up to its lock, and the rollback of a transaction.
LEMMA ChargeStartStep ==
  ASSUME IInv, NEW a \in Actors,
         \/ \E u \in Users, p \in Packages : a \in Requests /\ Purchase(a, u, p)
         \/ a \in Replicas /\ \E c \in Companies : GrantNext(a, c)
         \/ ChargeLock(a)
         \/ TxnFails(a)
  PROVE  IInv'
<1>1. CASE \E u \in Users, p \in Packages : Purchase(a, u, p)
  <2> PICK u \in Users, p \in Packages : Purchase(a, u, p)
    BY <1>1
  <2>1. NoRowNoHistory' /\ BalanceNeverNegative' /\ LedgerAddsUp'
    BY WalletUntouched DEF Purchase
  <2>2. task'[a] \in Tasks /\ task'[a].op = "charge"
    BY CompanyOfAssumption, AmountAssumption DEF IInv, TypeOK, Purchase, Call, Tasks
  <2>3. TypeOK'
    BY <2>2 DEF IInv, TypeOK, Purchase, Call, Goto, Steps, wallet, grants
  <2>4. HandlersWellFormed'
    BY <2>2 DEF IInv, TypeOK, HandlersWellFormed, Purchase, Call, Goto, wallet, grants
  <2>5. ReadsAreCurrent'
    BY DEF IInv, TypeOK, ReadsAreCurrent, Purchase, Call, Goto, wallet, grants
  <2> QED
    BY <2>1, <2>3, <2>4, <2>5 DEF IInv
<1>2. CASE a \in Replicas /\ \E c \in Companies : GrantNext(a, c)
  <2> PICK c \in Companies : a \in Replicas /\ GrantNext(a, c)
    BY <1>2
  <2>1. NoRowNoHistory' /\ BalanceNeverNegative' /\ LedgerAddsUp'
    BY WalletUntouched DEF GrantNext
  <2>2. task'[a] \in Tasks /\ task'[a].op = "charge"
    BY AmountAssumption DEF IInv, TypeOK, GrantNext, Call, Tasks
  <2>3. TypeOK'
    BY <2>2 DEF IInv, TypeOK, GrantNext, Call, Goto, Steps, wallet, grants
  <2>4. HandlersWellFormed'
    BY <2>2 DEF IInv, TypeOK, HandlersWellFormed, GrantNext, Call, Goto, wallet, grants
  <2>5. ReadsAreCurrent'
    BY DEF IInv, TypeOK, ReadsAreCurrent, GrantNext, Call, Goto, wallet, grants
  <2> QED
    BY <2>1, <2>3, <2>4, <2>5 DEF IInv
<1>3. CASE ChargeLock(a)
  <2>0. task[a].company \in Companies /\ task[a].op = "charge"
    BY <1>3 DEF IInv, TypeOK, HandlersWellFormed, ChargeLock, Tasks
  <2>1. NoRowNoHistory' /\ BalanceNeverNegative' /\ LedgerAddsUp'
    BY <1>3, WalletUntouched DEF ChargeLock
  <2>2. TypeOK'
    <3>1. seen' \in [Actors -> Int]
      BY <1>3, <2>0 DEF IInv, TypeOK, ChargeLock, Acquire
    <3>2. pc' \in [Actors -> Steps]
      BY <1>3 DEF IInv, TypeOK, ChargeLock, Acquire, Goto, Steps
    <3>3. lock' \in [Companies -> Actors \cup {None}]
      BY <1>3, <2>0 DEF IInv, TypeOK, ChargeLock, Acquire
    <3> QED
      BY <1>3, <3>1, <3>2, <3>3 DEF IInv, TypeOK, ChargeLock, wallet, grants
  <2>3. HandlersWellFormed'
    BY <1>3, <2>0
    DEF IInv, TypeOK, HandlersWellFormed, ChargeLock, Acquire, Goto, wallet, grants, Features
  <2>4. ReadsAreCurrent'
    BY <1>3, <2>0, ActorAssumption
    DEF IInv, TypeOK, ReadsAreCurrent, ChargeLock, Acquire, Goto, wallet, grants, Actors
  <2> QED
    BY <2>1, <2>2, <2>3, <2>4 DEF IInv
<1>4. CASE TxnFails(a)
  <2>0. task[a].company \in Companies
    BY <1>4 DEF IInv, TypeOK, HandlersWellFormed, TxnFails, Tasks
  <2>1. NoRowNoHistory' /\ BalanceNeverNegative' /\ LedgerAddsUp'
    BY <1>4, WalletUntouched DEF TxnFails
  <2>2. TypeOK'
    BY <1>4, <2>0 DEF IInv, TypeOK, TxnFails, Release, Throw, Return, Goto, Steps, wallet, grants
  <2>3. HandlersWellFormed'
    BY <1>4 DEF IInv, TypeOK, HandlersWellFormed, TxnFails, Release, Throw, Return, Goto, wallet, grants
  <2>4. ReadsAreCurrent'
    BY <1>4, <2>0
    DEF IInv, TypeOK, ReadsAreCurrent, TxnFails, Release, Throw, Return, Goto, wallet, grants
  <2> QED
    BY <2>1, <2>2, <2>3, <2>4 DEF IInv
<1> QED
  BY <1>1, <1>2, <1>3, <1>4

-----------------------------------------------------------------------------
\* Writing a transaction whose read is current appends one row that follows
\* from the last one.
LEMMA PostKeepsLedger ==
  ASSUME IInv, NEW a \in Actors, NEW amount \in Int, pc[a] = "locked",
         Post(a, amount), rows' = rows, opening' = opening,
         balance[task[a].company] + amount >= 0
  PROVE  /\ balance' \in [Companies -> Int]
         /\ history' \in [Companies -> Seq(Entries)]
         /\ lock' \in [Companies -> Actors \cup {None}]
         /\ NoRowNoHistory' /\ BalanceNeverNegative' /\ LedgerAddsUp'
<1>0. PICK c \in Companies, b \in Int, e \in Entries :
        c = task[a].company /\ b = seen[a] + amount /\ e = [amount |-> amount, balanceAfter |-> b]
  <2>1. task[a].company \in Companies
    BY DEF IInv, TypeOK, HandlersWellFormed, Tasks
  <2>2. seen[a] + amount \in Int
    BY DEF IInv, TypeOK
  <2>3. [amount |-> amount, balanceAfter |-> seen[a] + amount] \in Entries
    BY <2>2 DEF Entries
  <2> QED
    BY <2>1, <2>2, <2>3
<1>1. c \in rows /\ seen[a] = balance[c]
  BY <1>0 DEF IInv, ReadsAreCurrent
<1>2. /\ balance' = [balance EXCEPT ![c] = b]
      /\ history' = [history EXCEPT ![c] = Append(history[c], e)]
      /\ lock' = [lock EXCEPT ![c] = IF lock[c] = a THEN None ELSE lock[c]]
  BY <1>0 DEF Post, Release
<1>3. /\ balance' \in [Companies -> Int]
      /\ lock' \in [Companies -> Actors \cup {None}]
  BY <1>1, <1>2 DEF IInv, TypeOK
<1>4. history' \in [Companies -> Seq(Entries)]
  BY <1>1, <1>2 DEF IInv, TypeOK
<1>5. NoRowNoHistory' /\ BalanceNeverNegative'
  <2>1. NoRowNoHistory'
    BY <1>1, <1>2 DEF IInv, TypeOK, NoRowNoHistory
  <2>2. b >= 0
    BY <1>0, <1>1
  <2>3. BalanceNeverNegative'
    BY <1>1, <1>2, <2>2 DEF IInv, TypeOK, BalanceNeverNegative
  <2> QED
    BY <2>1, <2>3
<1>6. LedgerAddsUp'
  <2> SUFFICES ASSUME NEW d \in Companies
               PROVE  /\ \A i \in 1 .. Len(history'[d]) :
                           history'[d][i].balanceAfter =
                             BalanceBefore(d, i)' + history'[d][i].amount
                      /\ d \in rows => balance'[d] = BalanceBefore(d, Len(history[d]) + 1)'
    BY DEF LedgerAddsUp
  <2>1. CASE d # c
    BY <1>1, <1>2, <2>1 DEF IInv, TypeOK, LedgerAddsUp, BalanceBefore
  <2>2. CASE d = c
    <3>1. PICK h \in Seq(Entries), n \in Nat : h = history[c] /\ n = Len(h)
      BY DEF IInv, TypeOK
    <3>2. /\ history'[c] = Append(h, e)
          /\ Len(history'[c]) = n + 1
          /\ history'[c][n + 1] = e
          /\ \A i \in 1 .. n : history'[c][i] = h[i]
      BY <1>1, <1>2, <3>1 DEF IInv, TypeOK
    <3>3. balance[c] = BalanceBefore(c, n + 1) /\ balance[c] \in Int
      BY <1>1, <3>1 DEF IInv, TypeOK, LedgerAddsUp
    <3>4. \A i \in 1 .. n : h[i].balanceAfter = BalanceBefore(c, i) + h[i].amount
      BY <3>1 DEF IInv, LedgerAddsUp
    <3>5. \A i \in 1 .. (n + 1) : BalanceBefore(c, i)' = BalanceBefore(c, i)
      <4> SUFFICES ASSUME NEW i \in 1 .. (n + 1)
                   PROVE  BalanceBefore(c, i)' = BalanceBefore(c, i)
        OBVIOUS
      <4>1. CASE i = 1
        BY <4>1 DEF BalanceBefore
      <4>2. CASE i # 1
        <5>1. i - 1 \in 1 .. n
          BY <3>1, <4>2
        <5>2. history'[c][i - 1] = history[c][i - 1]
          BY <3>1, <3>2, <5>1
        <5> QED
          BY <4>2, <5>2 DEF BalanceBefore
      <4> QED
        BY <4>1, <4>2
    <3>6. e.balanceAfter = balance[c] + e.amount
      BY <1>0, <1>1
    <3>7. \A i \in 1 .. Len(history'[c]) :
            history'[c][i].balanceAfter = BalanceBefore(c, i)' + history'[c][i].amount
      BY <3>1, <3>2, <3>3, <3>4, <3>5, <3>6
    <3>8. balance'[c] = BalanceBefore(c, Len(history[c]) + 1)'
      <4>1. Len(history'[c]) + 1 # 1 /\ Len(history'[c]) + 1 - 1 = n + 1
        BY <3>1, <3>2
      <4>2. BalanceBefore(c, Len(history[c]) + 1)' = history'[c][n + 1].balanceAfter
        BY <4>1 DEF BalanceBefore
      <4>3. balance'[c] = b
        BY <1>1, <1>2 DEF IInv, TypeOK
      <4> QED
        BY <1>0, <3>2, <4>2, <4>3
    <3> QED
      BY <2>2, <3>7, <3>8
  <2> QED
    BY <2>1, <2>2
<1> QED
  BY <1>3, <1>4, <1>5, <1>6

\* The commits of deduct and charge.
LEMMA CommitStep ==
  ASSUME IInv, NEW a \in Actors, (a \in Requests /\ DeductCommit(a)) \/ ChargeCommit(a)
  PROVE  IInv'
<1>0. pc[a] = "locked" /\ task[a] \in Tasks
  BY DEF IInv, HandlersWellFormed, DeductCommit, ChargeCommit
<1>1. seen[a] = balance[task[a].company] /\ task[a].company \in Companies
      /\ task[a].amount \in Nat /\ seen[a] \in Nat
  BY <1>0 DEF IInv, TypeOK, ReadsAreCurrent, BalanceNeverNegative, Tasks
<1>2. CASE DeductCommit(a)
  <2>1. seen[a] >= task[a].amount /\ task[a].user \in Users
    BY <1>0, <1>2 DEF IInv, HandlersWellFormed, DeductCommit
  <2>2. /\ balance' \in [Companies -> Int]
        /\ history' \in [Companies -> Seq(Entries)]
        /\ lock' \in [Companies -> Actors \cup {None}]
        /\ NoRowNoHistory' /\ BalanceNeverNegative' /\ LedgerAddsUp'
    BY <1>0, <1>1, <1>2, <2>1, PostKeepsLedger DEF DeductCommit
  <2>3. used' \in [Users -> Nat] /\ pc' \in [Actors -> Steps]
    BY <1>1, <1>2, <2>1 DEF IInv, TypeOK, DeductCommit, Abs, Goto, Steps
  <2>4. TypeOK'
    BY <1>2, <2>2, <2>3 DEF IInv, TypeOK, DeductCommit, grants
  <2>5. HandlersWellFormed'
    BY <1>0, <1>2 DEF IInv, TypeOK, HandlersWellFormed, DeductCommit, Goto
  <2>6. ReadsAreCurrent'
    BY <1>1, <1>2 DEF IInv, TypeOK, ReadsAreCurrent, DeductCommit, Post, Release, Goto
  <2> QED
    BY <2>2, <2>4, <2>5, <2>6 DEF IInv
<1>3. CASE ChargeCommit(a)
  <2>1. /\ balance' \in [Companies -> Int]
        /\ history' \in [Companies -> Seq(Entries)]
        /\ lock' \in [Companies -> Actors \cup {None}]
        /\ NoRowNoHistory' /\ BalanceNeverNegative' /\ LedgerAddsUp'
    BY <1>0, <1>1, <1>3, PostKeepsLedger DEF ChargeCommit
  <2>2. TypeOK'
    <3>1. granted' \in [Companies -> Nat]
      BY <1>1, <1>3 DEF IInv, TypeOK, ChargeCommit
    <3> QED
      BY <1>3, <2>1, <3>1, ReturnTypes DEF IInv, TypeOK, ChargeCommit
  <2>3. HandlersWellFormed'
    BY <1>3 DEF IInv, TypeOK, HandlersWellFormed, ChargeCommit, Return, Goto
  <2>4. ReadsAreCurrent'
    BY <1>1, <1>3 DEF IInv, TypeOK, ReadsAreCurrent, ChargeCommit, Post, Release, Return, Goto
  <2> QED
    BY <2>1, <2>2, <2>3, <2>4 DEF IInv
<1> QED
  BY <1>2, <1>3

\* charge on a company without a row: the insert opens the statement.
LEMMA InsertStep ==
  ASSUME IInv, NEW a \in Actors, ChargeInsert(a)
  PROVE  IInv'
<1>1. PICK c \in Companies, m \in Nat : c = task[a].company /\ m = task[a].amount
  BY DEF IInv, HandlersWellFormed, ChargeInsert, Tasks
<1>2. HandlersWellFormed'
  BY DEF IInv, TypeOK, HandlersWellFormed, ChargeInsert, Throw, Return, Goto
<1>3. pc[a] = "inserting" /\ pc' = [pc EXCEPT ![a] = "idle"]
  BY DEF ChargeInsert, Throw, Return, Goto
<1>4. CASE c \in rows
  <2>1. UNCHANGED wallet /\ Return(a) /\ UNCHANGED <<lock, eligible, due, granted>>
    BY <1>1, <1>4 DEF ChargeInsert, Throw, wallet, grants
  <2>2. TypeOK'
    <3>1. pending' \in [Replicas -> SUBSET Companies]
      BY <1>1, <1>4 DEF IInv, TypeOK, ChargeInsert, Throw
    <3> QED
      BY <2>1, <3>1, ReturnTypes DEF IInv, TypeOK, wallet
  <2>3. ReadsAreCurrent'
    BY <1>3, <2>1 DEF IInv, TypeOK, ReadsAreCurrent, Return, Goto, wallet, grants
  <2> QED
    BY <1>2, <2>1, <2>2, <2>3, WalletUntouched DEF IInv
<1>5. CASE c \notin rows
  <2> DEFINE e == [amount |-> m, balanceAfter |-> m]
  <2>1. /\ rows' = rows \cup {c}
        /\ balance' = [balance EXCEPT ![c] = m]
        /\ opening' = [opening EXCEPT ![c] = 0]
        /\ history' = [history EXCEPT ![c] = Append(<<>>, e)]
        /\ Return(a)
        /\ UNCHANGED <<used, lock, eligible, pending, due, granted>>
    BY <1>1, <1>5 DEF ChargeInsert, IInv, TypeOK, NoRowNoHistory
  <2>2. e \in Entries /\ Append(<<>>, e) = <<e>>
    BY DEF Entries
  <2>3. history' \in [Companies -> Seq(Entries)]
    BY <2>1, <2>2 DEF IInv, TypeOK
  <2>4. TypeOK'
    <3>1. /\ rows' \subseteq Companies
          /\ balance' \in [Companies -> Int]
          /\ opening' \in [Companies -> Nat]
      BY <2>1 DEF IInv, TypeOK
    <3> QED
      BY <2>1, <2>3, <3>1, ReturnTypes DEF IInv, TypeOK
  <2>5. ReadsAreCurrent'
    BY <1>1, <1>3, <1>5, <2>1 DEF IInv, TypeOK, ReadsAreCurrent, Return, Goto
  <2>6. NoRowNoHistory'
    BY <2>1 DEF IInv, TypeOK, NoRowNoHistory
  <2>7. BalanceNeverNegative'
    BY <2>1 DEF IInv, TypeOK, BalanceNeverNegative
  <2>8. LedgerAddsUp'
    <3> SUFFICES ASSUME NEW d \in Companies
                 PROVE  /\ \A i \in 1 .. Len(history'[d]) :
                             history'[d][i].balanceAfter =
                               BalanceBefore(d, i)' + history'[d][i].amount
                        /\ d \in rows' =>
                             balance'[d] = BalanceBefore(d, Len(history[d]) + 1)'
      BY DEF LedgerAddsUp
    <3>1. CASE d # c
      BY <2>1, <3>1 DEF IInv, TypeOK, LedgerAddsUp, BalanceBefore
    <3>2. CASE d = c
      <4>1. history'[c] = <<e>> /\ Len(<<e>>) = 1 /\ <<e>>[1] = e
            /\ balance'[c] = m /\ opening'[c] = 0
        BY <2>1, <2>2 DEF IInv, TypeOK
      <4> QED
        BY <3>2, <4>1 DEF BalanceBefore
    <3> QED
      BY <3>1, <3>2
  <2> QED
    BY <1>2, <2>4, <2>5, <2>6, <2>7, <2>8 DEF IInv
<1> QED
  BY <1>4, <1>5

\* The steps that only move the snapshot, the day or a subscription.
LEMMA EnvironmentStep ==
  ASSUME IInv, \/ \E k \in Replicas : GrantSelect(k)
               \/ NextMonth \/ Midnight
               \/ (\E c \in Companies : SubscriptionChanges(c))
               \/ UNCHANGED vars
  PROVE  IInv'
<1> USE DEF GrantSelect, NextMonth, Midnight, SubscriptionChanges, vars, wallet, grants
<1>1. TypeOK'
  <2>1. pending' \in [Replicas -> SUBSET Companies]
    <3>1. CASE \E k \in Replicas : GrantSelect(k)
      <4> PICK k \in Replicas : pending' = [pending EXCEPT ![k] = rows \cap eligible]
        BY <3>1
      <4> rows \cap eligible \in SUBSET Companies
        BY DEF IInv, TypeOK
      <4> QED
        BY DEF IInv, TypeOK
    <3>2. CASE UNCHANGED pending
      BY <3>2 DEF IInv, TypeOK
    <3> QED
      BY <3>1, <3>2
  <2>2. used' \in [Users -> Nat] /\ granted' \in [Companies -> Nat]
    <3>1. used' \in [Users -> Nat]
      BY DEF IInv, TypeOK
    <3>2. granted' \in [Companies -> Nat]
      BY DEF IInv, TypeOK
    <3> QED
      BY <3>1, <3>2
  <2> QED
    BY <2>1, <2>2 DEF IInv, TypeOK
<1>2. HandlersWellFormed' /\ ReadsAreCurrent'
  BY DEF IInv, HandlersWellFormed, ReadsAreCurrent
<1>3. NoRowNoHistory' /\ BalanceNeverNegative' /\ LedgerAddsUp'
  BY DEF IInv, NoRowNoHistory, BalanceNeverNegative, LedgerAddsUp, BalanceBefore
<1> QED
  BY <1>1, <1>2, <1>3 DEF IInv

-----------------------------------------------------------------------------
\* Every step of the wallet keeps the invariant.
LEMMA NextIInv == IInv /\ [Next]_vars => IInv'
<1> SUFFICES ASSUME IInv, [Next]_vars PROVE IInv'
  OBVIOUS
<1>1. ASSUME NEW r \in Requests,
             \/ \E u \in Users : BalanceRead(r, u)
             \/ BalanceCreate(r)
      PROVE  IInv'
  BY <1>1, GetBalanceStep
<1>2. ASSUME NEW r \in Requests,
             \/ \E u \in Users, f \in Features : DeductCheck(r, u, f)
             \/ DeductLock(r)
      PROVE  IInv'
  BY <1>2, DeductStartStep
<1>3. ASSUME NEW r \in Requests, DeductCommit(r)
      PROVE  IInv'
  BY <1>3, CommitStep DEF Actors
<1>4. ASSUME NEW r \in Requests, FeatureAnswers(r) \/ ErrorResponse(r)
      PROVE  IInv'
  BY <1>4, FeatureStep
<1>5. ASSUME NEW r \in Requests, \E u \in Users, p \in Packages : Purchase(r, u, p)
      PROVE  IInv'
  BY <1>5, ChargeStartStep DEF Actors
<1>6. ASSUME NEW a \in Actors, ChargeLock(a) \/ TxnFails(a)
      PROVE  IInv'
  BY <1>6, ChargeStartStep
<1>7. ASSUME NEW a \in Actors, ChargeCommit(a)
      PROVE  IInv'
  BY <1>7, CommitStep
<1>8. ASSUME NEW a \in Actors, ChargeInsert(a)
      PROVE  IInv'
  BY <1>8, InsertStep
<1>9. ASSUME NEW k \in Replicas, NEW c \in Companies, GrantNext(k, c)
      PROVE  IInv'
  BY <1>9, ChargeStartStep DEF Actors
<1>10. CASE \/ \E k \in Replicas : GrantSelect(k)
            \/ NextMonth \/ Midnight
            \/ (\E c \in Companies : SubscriptionChanges(c))
            \/ UNCHANGED vars
  BY <1>10, EnvironmentStep
<1> QED
  BY <1>1, <1>2, <1>3, <1>4, <1>5, <1>6, <1>7, <1>8, <1>9, <1>10 DEF Next

\* Every reachable state of the wallet satisfies the inductive invariant.
THEOREM Invariance == Spec => []IInv
  BY InitIInv, NextIInv, PTL DEF Spec

\* Types of the rows, the lock and the handlers' local variables.
THEOREM TypeCorrect == Spec => []TypeOK
<1>1. IInv => TypeOK
  BY DEF IInv
<1> QED
  BY <1>1, Invariance, PTL

\* However many requests and grants interleave in credit.service.ts, the row
\* lock keeps every read current until its commit.
THEOREM CurrentReads == Spec => []ReadsAreCurrent
<1>1. IInv => ReadsAreCurrent
  BY DEF IInv
<1> QED
  BY <1>1, Invariance, PTL

\* No interleaving of deduct, charge and the monthly grant overdraws a wallet.
THEOREM NoOverdraft == Spec => []BalanceNeverNegative
<1>1. IInv => BalanceNeverNegative
  BY DEF IInv
<1> QED
  BY <1>1, Invariance, PTL

\* The statement in credit_transactions always adds up to credits.balance.
THEOREM StatementAddsUp == Spec => []LedgerAddsUp
<1>1. IInv => LedgerAddsUp
  BY DEF IInv
<1> QED
  BY <1>1, Invariance, PTL

-----------------------------------------------------------------------------
(* Credits implements Wallet, by the invariant and the amounts a handler may *)
(* carry; and how far deductions in flight together may overshoot the daily  *)
(* limit of a user.                                                          *)

\* A handler charges a package or the monthly grant, and deducts what its
\* feature costs (credit.service.ts: CREDIT_COSTS, CREDIT_PACKAGES).
AmountsWellFormed ==
  \A a \in Actors : pc[a] # "idle" =>
    /\ task[a].op = "charge" => task[a].amount \in Packages \cup {FreeGrant}
    /\ task[a].op \in Features => task[a].amount = CREDIT_COSTS[task[a].op]

\* Calls set the amount; later steps keep the task of a handler or drop it.
LEMMA AmountsKept ==
  ASSUME IInv, AmountsWellFormed, [Next]_vars
  PROVE  AmountsWellFormed'
<1> USE DEF AmountsWellFormed
<1>1. ASSUME NEW r \in Requests, NEW u \in Users, BalanceRead(r, u)
      PROVE  AmountsWellFormed'
  BY <1>1 DEF BalanceRead, Call, Goto, Features, IInv, TypeOK
<1>2. ASSUME NEW r \in Requests, NEW u \in Users, NEW f \in Features, DeductCheck(r, u, f)
      PROVE  AmountsWellFormed'
  BY <1>2 DEF DeductCheck, Call, Goto, Features, IInv, TypeOK
<1>3. ASSUME NEW r \in Requests, NEW u \in Users, NEW p \in Packages, Purchase(r, u, p)
      PROVE  AmountsWellFormed'
  BY <1>3 DEF Purchase, Call, Goto, Features, IInv, TypeOK
<1>4. ASSUME NEW k \in Replicas, NEW c \in Companies, GrantNext(k, c)
      PROVE  AmountsWellFormed'
  BY <1>4 DEF GrantNext, Call, Goto, Features, IInv, TypeOK
<1>5. ASSUME NEW a \in Actors, Return(a)
      PROVE  AmountsWellFormed'
  BY <1>5 DEF Return, Goto, IInv, TypeOK
<1>6. ASSUME NEW a \in Actors, pc[a] # "idle", UNCHANGED task, NEW s \in Steps, Goto(a, s)
      PROVE  AmountsWellFormed'
  BY <1>6 DEF Goto, IInv, TypeOK
<1>7. ASSUME UNCHANGED <<pc, task>>
      PROVE  AmountsWellFormed'
  BY <1>7
<1>8. ASSUME NEW r \in Requests,
             BalanceCreate(r) \/ DeductLock(r) \/ DeductCommit(r) \/ FeatureAnswers(r)
               \/ ErrorResponse(r)
      PROVE  AmountsWellFormed'
  <2>1. r \in Actors
    BY DEF Actors
  <2>2. CASE Return(r)
    BY <1>5, <2>1, <2>2
  <2>3. CASE ~Return(r)
    <3>1. \E s \in {"locked", "working", "failed"} : pc[r] # "idle" /\ UNCHANGED task /\ Goto(r, s)
      BY <1>8, <2>3 DEF BalanceCreate, DeductLock, DeductCommit, FeatureAnswers, ErrorResponse
    <3> QED
      BY <1>6, <2>1, <3>1 DEF Steps
  <2> QED
    BY <2>2, <2>3
<1>9. ASSUME NEW a \in Actors, ChargeLock(a) \/ ChargeCommit(a) \/ ChargeInsert(a) \/ TxnFails(a)
      PROVE  AmountsWellFormed'
  <2>1. CASE Return(a)
    BY <1>5, <2>1
  <2>2. CASE ~Return(a)
    <3>1. \E s \in {"locked", "inserting"} : pc[a] # "idle" /\ UNCHANGED task /\ Goto(a, s)
      BY <1>9, <2>2 DEF ChargeLock, ChargeCommit, ChargeInsert, TxnFails, Throw
    <3> QED
      BY <1>6, <3>1 DEF Steps
  <2> QED
    BY <2>1, <2>2
<1>10. ASSUME \/ \E k \in Replicas : GrantSelect(k)
              \/ NextMonth \/ Midnight
              \/ (\E c \in Companies : SubscriptionChanges(c))
              \/ UNCHANGED vars
       PROVE  AmountsWellFormed'
  BY <1>7, <1>10 DEF GrantSelect, NextMonth, Midnight, SubscriptionChanges, vars
<1> QED
  BY <1>1, <1>2, <1>3, <1>4, <1>8, <1>9, <1>10 DEF Next

-----------------------------------------------------------------------------
\* The variables of Wallet, as Credits has them.
shown == <<rows, balance, history>>

\* The commit of deduct spends; the commit of charge charges.
LEMMA CommitRefines ==
  ASSUME IInv, AmountsWellFormed, NEW a \in Actors,
         (a \in Requests /\ DeductCommit(a)) \/ ChargeCommit(a)
  PROVE  Abstract!Next
<1>1. PICK c \in Companies : c = task[a].company
  BY DEF IInv, HandlersWellFormed, DeductCommit, ChargeCommit, Tasks
<1>2. pc[a] = "locked" /\ c \in rows /\ seen[a] = balance[c] /\ balance[c] \in Int
  BY <1>1 DEF IInv, TypeOK, ReadsAreCurrent, DeductCommit, ChargeCommit
<1>3. CASE DeductCommit(a)
  <2>1. PICK n \in Int : n = task[a].amount
    BY <1>2 DEF IInv, HandlersWellFormed, Tasks
  <2>2. n <= balance[c] /\ n \in {CREDIT_COSTS[f] : f \in Features}
    BY <1>2, <1>3, <2>1 DEF IInv, HandlersWellFormed, AmountsWellFormed, DeductCommit
  <2>3. /\ balance' = [balance EXCEPT ![c] = balance[c] - n]
        /\ history' = [history EXCEPT ![c] =
             Append(@, [amount |-> -n, balanceAfter |-> balance[c] - n])]
        /\ rows' = rows
    <3>1. seen[a] + (-n) = balance[c] - n
      BY <1>2
    <3> QED
      BY <1>1, <1>3, <2>1, <3>1 DEF DeductCommit, Post
  <2>4. Abstract!Spend(c)
    BY <1>2, <2>2, <2>3 DEF Abstract!Spend, Abstract!Enter
  <2> QED
    BY <2>4 DEF Abstract!Next
<1>4. CASE ChargeCommit(a)
  <2>1. task[a].amount \in Packages \cup {FreeGrant}
    BY <1>2, <1>4 DEF AmountsWellFormed, ChargeCommit
  <2>2. Abstract!Charge(c)
    BY <1>1, <1>2, <1>4, <2>1 DEF ChargeCommit, Post, Abstract!Charge, Abstract!Enter
  <2> QED
    BY <2>2 DEF Abstract!Next
<1> QED
  BY <1>3, <1>4

\* The two inserts open a wallet, unless the unique index refuses them.
LEMMA InsertRefines ==
  ASSUME IInv, AmountsWellFormed, NEW a \in Actors,
         (a \in Requests /\ BalanceCreate(a)) \/ ChargeInsert(a)
  PROVE  Abstract!Next \/ UNCHANGED shown
<1>1. PICK c \in Companies : c = task[a].company
  BY DEF IInv, HandlersWellFormed, BalanceCreate, ChargeInsert, Tasks
<1>2. CASE c \in rows
  BY <1>1, <1>2 DEF BalanceCreate, ChargeInsert, shown
<1>3. CASE c \notin rows /\ BalanceCreate(a)
  <2>1. Abstract!Look(c)
    BY <1>1, <1>3 DEF BalanceCreate, Abstract!Look
  <2> QED
    BY <2>1 DEF Abstract!Next
<1>4. CASE c \notin rows /\ ChargeInsert(a)
  <2>1. task[a].amount \in Packages \cup {FreeGrant}
    BY <1>4 DEF IInv, HandlersWellFormed, AmountsWellFormed, ChargeInsert
  <2>2. Abstract!FirstCharge(c)
    BY <1>1, <1>4, <2>1 DEF ChargeInsert, Abstract!FirstCharge, Abstract!Enter
  <2> QED
    BY <2>2 DEF Abstract!Next
<1> QED
  BY <1>2, <1>3, <1>4

\* Every other step leaves the tables alone.
LEMMA NextRefines ==
  ASSUME IInv, AmountsWellFormed, [Next]_vars
  PROVE  Abstract!Next \/ UNCHANGED shown
<1>1. ASSUME NEW r \in Requests,
             \/ \E u \in Users : BalanceRead(r, u)
             \/ \E u \in Users, f \in Features : DeductCheck(r, u, f)
             \/ DeductLock(r) \/ FeatureAnswers(r) \/ ErrorResponse(r)
             \/ \E u \in Users, p \in Packages : Purchase(r, u, p)
      PROVE  UNCHANGED shown
  BY <1>1 DEF BalanceRead, DeductCheck, DeductLock, FeatureAnswers, ErrorResponse, Purchase,
              wallet, shown
<1>2. ASSUME NEW a \in Actors, ChargeLock(a) \/ TxnFails(a)
      PROVE  UNCHANGED shown
  BY <1>2 DEF ChargeLock, TxnFails, wallet, shown
<1>3. ASSUME \/ \E k \in Replicas : GrantSelect(k) \/ \E c \in Companies : GrantNext(k, c)
             \/ \E c \in Companies : SubscriptionChanges(c)
             \/ NextMonth \/ Midnight \/ UNCHANGED vars
      PROVE  UNCHANGED shown
  BY <1>3 DEF GrantSelect, GrantNext, SubscriptionChanges, NextMonth, Midnight, vars, wallet, shown
<1>4. ASSUME NEW r \in Requests, DeductCommit(r) \/ BalanceCreate(r)
      PROVE  Abstract!Next \/ UNCHANGED shown
  BY <1>4, CommitRefines, InsertRefines DEF Actors
<1>5. ASSUME NEW a \in Actors, ChargeCommit(a) \/ ChargeInsert(a)
      PROVE  Abstract!Next \/ UNCHANGED shown
  BY <1>5, CommitRefines, InsertRefines
<1> QED
  BY <1>1, <1>2, <1>3, <1>4, <1>5 DEF Next

-----------------------------------------------------------------------------
\* credit.service.ts posts entries one at a time: with any companies, users,
\* requests, replicas and packages, its commits are the steps of Wallet, and
\* nothing else it does touches an account.
THEOREM WalletImplemented == Spec => ImplementsWallet
<1>1. Init => Abstract!Init
  BY DEF Init, Abstract!Init
<1>2. Init => AmountsWellFormed
  BY DEF Init, AmountsWellFormed
<1>3. IInv /\ AmountsWellFormed /\ [Next]_vars => AmountsWellFormed'
  BY AmountsKept
<1>4. IInv /\ AmountsWellFormed /\ [Next]_vars => [Abstract!Next]_<<rows, balance, history>>
  BY NextRefines DEF shown
<1> QED
  BY <1>1, <1>2, <1>3, <1>4, Invariance, PTL DEF Spec, ImplementsWallet, Abstract!Spec
-----------------------------------------------------------------------------
\* Deductions of deduct (credit.service.ts) that passed the daily check and have
\* not committed yet, and those of a user; the costlier ones count twice.
Carries(r) == pc[r] \in {"checked", "locked"} /\ task[r].op \in Features

Underway(u) == {r \in Requests : Carries(r) /\ task[r].user = u}
Costly(u) == {r \in Requests : Carries(r) /\ task[r].user = u /\ task[r].op = "ocr"}

\* What is spent today and what is still to come of it stays within the limit
\* and one costliest feature for each other request.
SpendingBounded ==
  \A u \in Users :
    used[u] + Cardinality(Underway(u)) + Cardinality(Costly(u))
      <= DAILY_USER_LIMIT + 2 * (Cardinality(Requests) - 1)

\* Any part of the requests is finite, and has at most as many of them.
LEMMA PartOfRequests ==
  ASSUME NEW S \in SUBSET Requests
  PROVE  IsFiniteSet(S) /\ Cardinality(S) \in Nat /\ Cardinality(S) <= Cardinality(Requests)
  BY RequestsAssumption, FS_Subset, FS_CardinalityType

\* There is at least one request slot.
LEMMA SomeRequest == Cardinality(Requests) \in Nat \ {0}
  BY RequestsAssumption, FS_EmptySet, FS_CardinalityType

\* Requests other than r are one fewer.
LEMMA OtherRequests ==
  ASSUME NEW r \in Requests, NEW S \in SUBSET (Requests \ {r})
  PROVE  /\ Cardinality(S) <= Cardinality(Requests) - 1
         /\ Cardinality(S \cup {r}) = Cardinality(S) + 1
<1>1. IsFiniteSet(Requests \ {r}) /\ Cardinality(Requests \ {r}) = Cardinality(Requests) - 1
  BY RequestsAssumption, FS_RemoveElement
<1>2. IsFiniteSet(S) /\ Cardinality(S) <= Cardinality(Requests \ {r})
  BY <1>1, FS_Subset
<1>3. r \notin S
  OBVIOUS
<1>4. Cardinality(S \cup {r}) = Cardinality(S) + 1
  BY <1>2, <1>3, FS_AddElement
<1> QED
  BY <1>1, <1>2, <1>4

\* Only the check of deduct puts a deduction under way.
LEMMA NothingNewUnderway ==
  ASSUME IInv, [Next]_vars, NEW s \in Requests, Carries(s)',
         ~ \E u \in Users, f \in Features : DeductCheck(s, u, f)
  PROVE  Carries(s) /\ task'[s] = task[s]
<1> USE DEF Carries
<1>1. s \in Actors /\ pc \in [Actors -> Steps] /\ task \in [Actors -> Tasks \cup {None}]
  BY DEF IInv, TypeOK, Actors
<1>2. ASSUME NEW r \in Requests, NEW u \in Users, NEW f \in Features, DeductCheck(r, u, f)
      PROVE  Carries(s) /\ task'[s] = task[s]
  <2>1. r # s
    BY <1>2
  <2> QED
    BY <1>1, <1>2, <2>1 DEF DeductCheck, Call, Goto
<1>3. ASSUME NEW r \in Requests,
             (\E u \in Users : BalanceRead(r, u)) \/ (\E u \in Users, p \in Packages : Purchase(r, u, p))
      PROVE  Carries(s) /\ task'[s] = task[s]
  BY <1>1, <1>3 DEF BalanceRead, Purchase, Call, Goto
<1>4. ASSUME NEW a \in Actors, Return(a)
      PROVE  Carries(s) /\ task'[s] = task[s]
  BY <1>1, <1>4 DEF Return, Goto
<1>5. ASSUME NEW r \in Requests,
             BalanceCreate(r) \/ DeductLock(r) \/ DeductCommit(r) \/ FeatureAnswers(r)
               \/ ErrorResponse(r)
      PROVE  Carries(s) /\ task'[s] = task[s]
  BY <1>1, <1>4, <1>5 DEF Actors, BalanceCreate, DeductLock, DeductCommit, FeatureAnswers,
                          ErrorResponse, Goto
<1>6. ASSUME NEW a \in Actors, ChargeLock(a) \/ ChargeCommit(a) \/ ChargeInsert(a) \/ TxnFails(a)
      PROVE  Carries(s) /\ task'[s] = task[s]
  BY <1>1, <1>4, <1>6 DEF ChargeLock, ChargeCommit, ChargeInsert, TxnFails, Throw, Goto, IInv,
                          HandlersWellFormed, Features
<1>7. ASSUME NEW k \in Replicas, NEW c \in Companies, GrantNext(k, c)
      PROVE  Carries(s) /\ task'[s] = task[s]
  BY <1>1, <1>7 DEF GrantNext, Call, Goto
<1>8. ASSUME \/ \E k \in Replicas : GrantSelect(k)
             \/ NextMonth \/ Midnight
             \/ (\E c \in Companies : SubscriptionChanges(c))
             \/ UNCHANGED vars
      PROVE  Carries(s) /\ task'[s] = task[s]
  BY <1>8 DEF GrantSelect, NextMonth, Midnight, SubscriptionChanges, vars
<1> QED
  BY <1>2, <1>3, <1>5, <1>6, <1>7, <1>8 DEF Next

\* Only a commit of deduct adds to today's usage.
LEMMA UsageGrowsByCommit ==
  ASSUME IInv, [Next]_vars, ~ \E r \in Requests : DeductCommit(r), NEW u \in Users
  PROVE  used'[u] \in Nat /\ used'[u] <= used[u]
<1>1. used \in [Users -> Nat]
  BY DEF IInv, TypeOK
<1>2. CASE Midnight
  BY <1>1, <1>2 DEF Midnight
<1>3. CASE ~Midnight
  <2>1. used' = used
    BY <1>3 DEF Next, BalanceRead, BalanceCreate, DeductCheck, DeductLock, FeatureAnswers,
                ErrorResponse, Purchase, ChargeLock, ChargeCommit, ChargeInsert, TxnFails,
                GrantSelect, GrantNext, SubscriptionChanges, NextMonth, wallet, vars
  <2> QED
    BY <1>1, <2>1
<1> QED
  BY <1>2, <1>3

\* The check admits a deduction that fits, next to at most all other requests.
LEMMA CheckKeepsBound ==
  ASSUME IInv, SpendingBounded, NEW r \in Requests, NEW v \in Users, NEW f \in Features,
         DeductCheck(r, v, f)
  PROVE  SpendingBounded'
<1> SUFFICES ASSUME NEW u \in Users
             PROVE  (used[u] + Cardinality(Underway(u)) + Cardinality(Costly(u))
                       <= DAILY_USER_LIMIT + 2 * (Cardinality(Requests) - 1))'
  BY DEF SpendingBounded
<1>1. /\ r \in Actors /\ pc \in [Actors -> Steps] /\ task \in [Actors -> Tasks \cup {None}]
      /\ used[u] \in Nat /\ used' = used /\ DAILY_USER_LIMIT \in Nat
  BY AmountAssumption DEF IInv, TypeOK, Actors, DeductCheck, wallet
<1>2. ~Carries(r)
  BY DEF DeductCheck, Carries
<1>3. /\ Underway(u) \in SUBSET (Requests \ {r}) /\ Costly(u) \in SUBSET (Requests \ {r})
  BY <1>2 DEF Underway, Costly
<1>4. \A s \in Requests \ {r} : (Carries(s)' <=> Carries(s)) /\ task'[s] = task[s]
  BY <1>1 DEF DeductCheck, Call, Goto, Carries, Actors
<1>5. /\ task'[r] = [op |-> f, company |-> CompanyOf[v], user |-> v, amount |-> CREDIT_COSTS[f]]
      /\ pc'[r] = "checked"
  BY <1>1 DEF DeductCheck, Call, Goto
<1>6. Cardinality(Requests) \in Nat \ {0}
  BY SomeRequest
<1>7. /\ Cardinality(Underway(u)) \in Nat /\ Cardinality(Costly(u)) \in Nat
      /\ Cardinality(Underway(u)) <= Cardinality(Requests) - 1
      /\ Cardinality(Costly(u)) <= Cardinality(Requests) - 1
  BY <1>3, PartOfRequests, OtherRequests
<1>8. CASE u # v
  <2>1. Underway(u)' = Underway(u) /\ Costly(u)' = Costly(u)
    BY <1>2, <1>4, <1>5, <1>8 DEF Underway, Costly
  <2> QED
    BY <1>1, <2>1 DEF SpendingBounded
<1>9. CASE u = v /\ f = "ocr"
  <2>1. Underway(u)' = Underway(u) \cup {r} /\ Costly(u)' = Costly(u) \cup {r}
    BY <1>2, <1>4, <1>5, <1>9 DEF Underway, Costly, Carries, Features
  <2>2. Cardinality(Underway(u)') = Cardinality(Underway(u)) + 1
        /\ Cardinality(Costly(u)') = Cardinality(Costly(u)) + 1
    BY <1>3, <2>1, OtherRequests
  <2>3. used[u] + 2 <= DAILY_USER_LIMIT
    BY <1>9 DEF DeductCheck, WithinDailyLimit, CREDIT_COSTS
  <2> QED
    BY <1>1, <1>6, <1>7, <2>2, <2>3
<1>10. CASE u = v /\ f = "ai_classify"
  <2>1. Underway(u)' = Underway(u) \cup {r} /\ Costly(u)' = Costly(u)
    BY <1>2, <1>4, <1>5, <1>10 DEF Underway, Costly, Carries, Features
  <2>2. Cardinality(Underway(u)') = Cardinality(Underway(u)) + 1
    BY <1>3, <2>1, OtherRequests
  <2>3. used[u] + 1 <= DAILY_USER_LIMIT
    BY <1>10 DEF DeductCheck, WithinDailyLimit, CREDIT_COSTS
  <2> QED
    BY <1>1, <1>6, <1>7, <2>1, <2>2, <2>3
<1> QED
  BY <1>8, <1>9, <1>10 DEF Features

\* A commit spends what its deduction was counted for.
LEMMA CommitKeepsBound ==
  ASSUME IInv, AmountsWellFormed, SpendingBounded, NEW r \in Requests, DeductCommit(r)
  PROVE  SpendingBounded'
<1> SUFFICES ASSUME NEW u \in Users
             PROVE  (used[u] + Cardinality(Underway(u)) + Cardinality(Costly(u))
                       <= DAILY_USER_LIMIT + 2 * (Cardinality(Requests) - 1))'
  BY DEF SpendingBounded
<1> DEFINE v == task[r].user
<1>1. /\ r \in Actors /\ pc \in [Actors -> Steps] /\ used \in [Users -> Nat] /\ task' = task
      /\ DAILY_USER_LIMIT \in Nat
  BY AmountAssumption DEF IInv, TypeOK, Actors, DeductCommit
<1>2. Carries(r) /\ ~Carries(r)' /\ v \in Users
  BY <1>1 DEF DeductCommit, Goto, Carries, IInv, HandlersWellFormed
<1>3. \A s \in Requests \ {r} : Carries(s)' <=> Carries(s)
  BY <1>1 DEF DeductCommit, Goto, Carries, Actors
<1>4. /\ Underway(u)' = Underway(u) \ {r} /\ Costly(u)' = Costly(u) \ {r}
  BY <1>1, <1>2, <1>3 DEF Underway, Costly
<1>5. /\ Underway(u)' \in SUBSET (Requests \ {r}) /\ Costly(u)' \in SUBSET (Requests \ {r})
      /\ Underway(u) \in SUBSET Requests /\ Costly(u) \in SUBSET Requests
  BY <1>4 DEF Underway, Costly
<1>6. /\ Cardinality(Underway(u)) \in Nat /\ Cardinality(Costly(u)) \in Nat
      /\ Cardinality(Underway(u)') \in Nat /\ Cardinality(Costly(u)') \in Nat
      /\ Cardinality(Requests) \in Nat \ {0}
  BY <1>5, PartOfRequests, SomeRequest
<1>7. CASE u # v
  <2>1. Underway(u)' = Underway(u) /\ Costly(u)' = Costly(u)
    BY <1>4, <1>7 DEF Underway, Costly
  <2>2. used'[u] = used[u]
    BY <1>1, <1>7 DEF DeductCommit
  <2> QED
    BY <2>1, <2>2 DEF SpendingBounded
<1>8. CASE u = v
  <2>1. Underway(u) = Underway(u)' \cup {r}
    BY <1>2, <1>4, <1>8 DEF Underway
  <2>2. Cardinality(Underway(u)) = Cardinality(Underway(u)') + 1
    BY <1>5, <2>1, OtherRequests
  <2>3. CASE task[r].op = "ocr"
    <3>1. Costly(u) = Costly(u)' \cup {r}
      BY <1>2, <1>4, <1>8, <2>3 DEF Costly
    <3>2. Cardinality(Costly(u)) = Cardinality(Costly(u)') + 1
      BY <1>5, <3>1, OtherRequests
    <3>3. task[r].amount = 2
      BY <1>1, <2>3 DEF AmountsWellFormed, DeductCommit, Features, CREDIT_COSTS
    <3>4. used'[u] = used[u] + 2
      BY <1>1, <1>8, <3>3 DEF DeductCommit, Abs
    <3> QED
      BY <1>1, <1>6, <2>2, <3>2, <3>4 DEF SpendingBounded
  <2>4. CASE task[r].op = "ai_classify"
    <3>1. Costly(u)' = Costly(u)
      BY <1>4, <2>4 DEF Costly
    <3>2. task[r].amount = 1
      BY <1>1, <2>4 DEF AmountsWellFormed, DeductCommit, Features, CREDIT_COSTS
    <3>3. used'[u] = used[u] + 1
      BY <1>1, <1>8, <3>2 DEF DeductCommit, Abs
    <3> QED
      BY <1>1, <1>6, <2>2, <3>1, <3>3 DEF SpendingBounded
  <2> QED
    BY <2>3, <2>4 DEF DeductCommit, Features
<1> QED
  BY <1>7, <1>8

\* Any other step can only shrink what is spent and what is under way.
LEMMA SpendingStaysBounded ==
  ASSUME IInv, AmountsWellFormed, SpendingBounded, [Next]_vars
  PROVE  SpendingBounded'
<1>1. CASE \E r \in Requests, u \in Users, f \in Features : DeductCheck(r, u, f)
  BY <1>1, CheckKeepsBound
<1>2. CASE \E r \in Requests : DeductCommit(r)
  BY <1>2, CommitKeepsBound
<1>3. ASSUME ~ \E r \in Requests, u \in Users, f \in Features : DeductCheck(r, u, f),
             ~ \E r \in Requests : DeductCommit(r),
             NEW u \in Users
      PROVE  (used[u] + Cardinality(Underway(u)) + Cardinality(Costly(u))
                <= DAILY_USER_LIMIT + 2 * (Cardinality(Requests) - 1))'
  <2>1. \A s \in Requests : Carries(s)' => Carries(s) /\ task'[s] = task[s]
    BY <1>3, NothingNewUnderway
  <2>2. Underway(u)' \subseteq Underway(u) /\ Costly(u)' \subseteq Costly(u)
    BY <2>1 DEF Underway, Costly
  <2>3. Underway(u) \in SUBSET Requests /\ Costly(u) \in SUBSET Requests
    BY DEF Underway, Costly
  <2>4. IsFiniteSet(Underway(u)) /\ IsFiniteSet(Costly(u))
        /\ Cardinality(Underway(u)) \in Nat /\ Cardinality(Costly(u)) \in Nat
        /\ Cardinality(Requests) \in Nat
    BY <2>3, PartOfRequests, SomeRequest
  <2>5. /\ Cardinality(Underway(u)') <= Cardinality(Underway(u))
        /\ Cardinality(Costly(u)') <= Cardinality(Costly(u))
        /\ Cardinality(Underway(u)') \in Nat /\ Cardinality(Costly(u)') \in Nat
    BY <2>2, <2>4, FS_Subset, FS_CardinalityType
  <2>6. used'[u] \in Nat /\ used'[u] <= used[u] /\ used[u] \in Nat /\ DAILY_USER_LIMIT \in Nat
    BY <1>3, UsageGrowsByCommit, AmountAssumption DEF IInv, TypeOK
  <2> QED
    BY <2>4, <2>5, <2>6 DEF SpendingBounded
<1> QED
  BY <1>1, <1>2, <1>3 DEF SpendingBounded

\* credit.service.ts reads the daily usage before its transaction.  However many
\* requests do so together, a user passes the limit by no more than one
\* costliest feature for each of the others.
THEOREM OvershootIsBounded == Spec => []DailyOvershootBounded
<1>1. Init => SpendingBounded /\ AmountsWellFormed
  <2> SUFFICES ASSUME Init PROVE SpendingBounded
    BY DEF Init, AmountsWellFormed
  <2>1. \A u \in Users : Underway(u) = {} /\ Costly(u) = {} /\ used[u] = 0
    BY DEF Init, Underway, Costly, Carries, Actors
  <2>2. Cardinality({}) = 0
    BY FS_EmptySet
  <2>3. DAILY_USER_LIMIT \in Nat /\ Cardinality(Requests) - 1 \in Nat
    BY SomeRequest, AmountAssumption
  <2>4. 0 <= DAILY_USER_LIMIT + 2 * (Cardinality(Requests) - 1)
    BY <2>3
  <2>5. ASSUME NEW u \in Users
        PROVE  used[u] + Cardinality(Underway(u)) + Cardinality(Costly(u)) = 0
    BY <2>1, <2>2
  <2> QED
    BY <2>4, <2>5 DEF SpendingBounded
<1>2. IInv /\ AmountsWellFormed /\ [Next]_vars => AmountsWellFormed'
  BY AmountsKept
<1>3. IInv /\ AmountsWellFormed /\ SpendingBounded /\ [Next]_vars => SpendingBounded'
  BY SpendingStaysBounded
<1>4. IInv /\ SpendingBounded => DailyOvershootBounded
  <2> SUFFICES ASSUME IInv, SpendingBounded, NEW u \in Users
               PROVE  used[u] <= DAILY_USER_LIMIT
                        + (Cardinality(Requests) - 1) * CREDIT_COSTS["ocr"]
    BY DEF DailyOvershootBounded
  <2>1. Underway(u) \in SUBSET Requests /\ Costly(u) \in SUBSET Requests
    BY DEF Underway, Costly
  <2>2. /\ Cardinality(Underway(u)) \in Nat /\ Cardinality(Costly(u)) \in Nat
        /\ Cardinality(Requests) \in Nat /\ used[u] \in Nat /\ DAILY_USER_LIMIT \in Nat
    BY <2>1, PartOfRequests, SomeRequest, AmountAssumption DEF IInv, TypeOK
  <2>3. CREDIT_COSTS["ocr"] = 2
    BY DEF CREDIT_COSTS
  <2>4. used[u] <= DAILY_USER_LIMIT + 2 * (Cardinality(Requests) - 1)
    BY <2>2 DEF SpendingBounded
  <2> QED
    BY <2>2, <2>3, <2>4
<1> QED
  BY <1>1, <1>2, <1>3, <1>4, Invariance, PTL DEF Spec

=============================================================================
