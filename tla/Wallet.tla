------------------------------- MODULE Wallet -------------------------------
(***************************************************************************)
(* What the credit wallets promise, whatever their handlers do between two *)
(* awaits: entries are posted one at a time.  A wallet is opened once, by  *)
(* a first look at it or by its first charge; afterwards each entry adds a *)
(* charge to the balance or takes the cost of a feature that it covers,    *)
(* and records the balance it left.                                        *)
(***************************************************************************)
EXTENDS Integers, Sequences

CONSTANTS
  Companies,
  Opening,  \* balance of a wallet that was looked at before it was charged
  Charges,  \* amounts of purchases and grants
  Costs     \* what features cost

VARIABLES open, balance, statement

Init ==
  /\ open = {}
  /\ balance = [c \in Companies |-> 0]
  /\ statement = [c \in Companies |-> <<>>]

\* The entry goes onto the statement together with the balance it leaves.
Enter(c, amount, after) ==
  /\ balance' = [balance EXCEPT ![c] = after]
  /\ statement' = [statement EXCEPT ![c] = Append(@, [amount |-> amount, balanceAfter |-> after])]

Look(c) ==
  /\ c \notin open
  /\ open' = open \cup {c}
  /\ balance' = [balance EXCEPT ![c] = Opening]
  /\ UNCHANGED statement

FirstCharge(c) ==
  /\ c \notin open
  /\ open' = open \cup {c}
  /\ \E n \in Charges : Enter(c, n, n)

Charge(c) ==
  /\ c \in open
  /\ \E n \in Charges : Enter(c, n, balance[c] + n)
  /\ UNCHANGED open

Spend(c) ==
  /\ c \in open
  /\ \E n \in Costs : n <= balance[c] /\ Enter(c, -n, balance[c] - n)
  /\ UNCHANGED open

Next == \E c \in Companies : Look(c) \/ FirstCharge(c) \/ Charge(c) \/ Spend(c)

Spec == Init /\ [][Next]_<<open, balance, statement>>
=============================================================================
