------------------------------ MODULE Payments ------------------------------
(***************************************************************************)
(* What a company pays by hand, and what is paid back: upgrade, with or    *)
(* without a coupon, and purchaseAddon (subscriptions.service.ts) ask Toss *)
(* first and record the payment in a transaction after; refund             *)
(* (payments.service.ts of the admin backend) likewise.  Billing and       *)
(* Lifecycle have the payments the timers make.                            *)
(*                                                                         *)
(* Both backends create the table of payments unless it is there, in forms *)
(* that do not agree; the first to migrate decides what is refused.        *)
(***************************************************************************)
EXTENDS Integers, FiniteSets, Awaits

CONSTANTS
  PaymentIds, \* orders at Toss, and the rows of payments
  Limit,      \* coupons.max_total_uses
  Total,      \* total_amount_krw, of two digits
  Amounts     \* what an operator asks to pay back

VARIABLES
  tables,   \* whose migration has created payments
  payments, \* the rows
  uses,     \* coupons.current_total_uses
  charged,  \* orders Toss has charged
  back,     \* whether Toss has paid back nothing, a part or all of each
  lost      \* a handler died, or Toss's answer did not arrive (history); bound: once

vars == <<tables, payments, uses, charged, back, lost, pc, local, overlapped>>

Kinds == {"plan", "coupon", "addon"}
Statuses == {"completed", "partial_refunded", "refunded"}
Rows == [kind : Kinds, status : Statuses]
PaymentsAssumption ==
  /\ Limit \in Nat /\ Total \in 10 .. 99 /\ Amounts \subseteq 1 .. Total - 1
  /\ IsFiniteSet(Handlers) /\ Handlers # {}
  /\ None \notin PaymentIds \cup Rows

Steps == {"idle", "charging", "recording", "refunding", "noting"}
Orders == [kind : Kinds, order : OrNone(PaymentIds)]
Refunds == [order : PaymentIds, amount : Amounts, whole : BOOLEAN]

Init ==
  /\ tables \in {"admin", "backend"}
  /\ payments = [o \in PaymentIds |-> None]
  /\ uses = 0
  /\ charged = {}
  /\ back = [o \in PaymentIds |-> "nothing"]
  /\ lost = FALSE
  /\ AllIdle(None)

Begin(h, step, read) ==
  /\ pc[h] = "idle"
  /\ Goto(h, step) /\ Hold(h, read)
  /\ UNCHANGED <<tables, payments, uses, charged, back, lost>>
Return(h) == Goto(h, "idle") /\ Hold(h, None)

-----------------------------------------------------------------------------
\* Mutant: whether the coupon is used up is not asked.
UpgradeAnyCoupon(h) ==
  \E kind \in {"plan", "coupon"} : Begin(h, "charging", [kind |-> kind, order |-> None])
Upgrade(h) ==
  \E kind \in {"plan", "coupon"} :
    /\ kind = "coupon" => uses < Limit
    /\ Begin(h, "charging", [kind |-> kind, order |-> None])
PurchaseAddon(h) == Begin(h, "charging", [kind |-> "addon", order |-> None])

\* chargeToss: paid; declined; or paid, but no answer, which counts as declined.
ChargePaid(h) ==
  /\ pc[h] = "charging"
  /\ \E o \in PaymentIds \ charged :
       /\ charged' = charged \cup {o}
       /\ Hold(h, [local[h] EXCEPT !.order = o])
  /\ Goto(h, "recording")
  /\ UNCHANGED <<tables, payments, uses, back, lost>>
\* Mutant: success is not looked at.
DeclinedIsRecorded(h) ==
  /\ pc[h] = "charging"
  /\ \E o \in PaymentIds \ charged : Hold(h, [local[h] EXCEPT !.order = o])
  /\ Goto(h, "recording")
  /\ UNCHANGED <<tables, payments, uses, charged, back, lost>>
ChargeDeclined(h) ==
  /\ pc[h] = "charging"
  /\ Return(h)
  /\ UNCHANGED <<tables, payments, uses, charged, back, lost>>
ChargeUnanswered(h) ==
  /\ pc[h] = "charging"
  /\ \E o \in PaymentIds \ charged : charged' = charged \cup {o}
  /\ ~lost /\ lost' = TRUE
  /\ Return(h)
  /\ UNCHANGED <<tables, payments, uses, back>>

\* The admin backend's table wants total = supply + tax - discount, where upgrade
\* has taken the discount off the supply, and dates that purchaseAddon does not give.
Refused(kind) == tables = "admin" /\ kind \in {"coupon", "addon"}

\* The transaction: the payment, the subscription or the add-on, and the coupon.
Record(h) ==
  /\ pc[h] = "recording"
  /\ IF Refused(local[h].kind)
       THEN UNCHANGED <<payments, uses>>
       ELSE /\ payments' = [payments EXCEPT ![local[h].order] =
                              [kind |-> local[h].kind, status |-> "completed"]]
            /\ uses' = IF local[h].kind = "coupon" THEN uses + 1 ELSE uses
  /\ Return(h)
  /\ UNCHANGED <<tables, charged, back, lost>>

-----------------------------------------------------------------------------
\* Decimal columns are read as text: the amount asked, a number, and what was paid
\* back before, "0.00", are put one behind the other, and the texts compared by
\* their digits from the left.  So 2 and "0.00" make 20.00, and 10 makes 100.00,
\* which is less than 20.00.
TwoDigits(n) == IF n < 100 THEN n ELSE n \div 10
Exceeds(amount) ==
  LET text == 10 * amount IN
    TwoDigits(text) > TwoDigits(Total) \/ (TwoDigits(text) = TwoDigits(Total) /\ text > Total)

\* Mutant: a payment that was paid back in part is completed as well.
RefundAgain(h) ==
  /\ tables = "admin"
  /\ \E o \in PaymentIds, amount \in Amounts, whole \in BOOLEAN :
       /\ payments[o] # None /\ payments[o].status # "refunded"
       /\ ~Exceeds(amount)
       /\ Begin(h, "refunding", [order |-> o, amount |-> amount, whole |-> whole])
\* refund; of the backend's table the admin backend reads columns that are not there.
\* Without an amount it is refused as exceeding.  Types other than "partial" send
\* Toss no amount, and Toss pays everything back.
Refund(h) ==
  /\ tables = "admin"
  /\ \E o \in PaymentIds, amount \in Amounts, whole \in BOOLEAN :
       /\ payments[o] # None /\ payments[o].status = "completed"
       /\ ~Exceeds(amount)
       /\ Begin(h, "refunding", [order |-> o, amount |-> amount, whole |-> whole])

\* Toss pays back what is left, or the amount if so much is left; a part after a
\* part may be all of it.
PaidBack(h) ==
  LET o == local[h].order
      first == back[o] = "nothing"
  IN /\ back[o] # "all"
     /\ \E sum \in IF local[h].whole THEN {"all"} ELSE IF first THEN {"part"} ELSE {"part", "all"} :
          back' = [back EXCEPT ![o] = sum]
RefundPaid(h) ==
  /\ pc[h] = "refunding"
  /\ PaidBack(h)
  /\ Goto(h, "noting")
  /\ UNCHANGED <<tables, payments, uses, charged, lost, local>>
\* Mutant: Toss's refusal does not stop the handler.
RefusalIsNoted(h) ==
  /\ pc[h] = "refunding"
  /\ Goto(h, "noting")
  /\ UNCHANGED <<tables, payments, uses, charged, back, lost, local>>
RefundRefused(h) ==
  /\ pc[h] = "refunding"
  /\ Return(h)
  /\ UNCHANGED <<tables, payments, uses, charged, back, lost>>
RefundUnanswered(h) ==
  /\ pc[h] = "refunding"
  /\ PaidBack(h)
  /\ ~lost /\ lost' = TRUE
  /\ Return(h)
  /\ UNCHANGED <<tables, payments, uses, charged>>

\* The status by the same text: "refunded" when it is equal to the total.
NoteRefund(h) ==
  /\ pc[h] = "noting"
  /\ payments' = [payments EXCEPT ![local[h].order].status =
                    IF 10 * local[h].amount = Total THEN "refunded" ELSE "partial_refunded"]
  /\ Return(h)
  /\ UNCHANGED <<tables, uses, charged, back, lost>>

\* The process dies between two awaits.
Crash(h) ==
  /\ InFlight(h)
  /\ ~lost /\ lost' = TRUE
  /\ Return(h)
  /\ UNCHANGED <<tables, payments, uses, charged, back>>

HandlerStep(h) ==
  \/ Upgrade(h) \/ PurchaseAddon(h)
  \/ ChargePaid(h) \/ ChargeDeclined(h) \/ ChargeUnanswered(h) \/ Record(h)
  \/ Refund(h) \/ RefundPaid(h) \/ RefundRefused(h) \/ RefundUnanswered(h) \/ NoteRefund(h)
  \/ Crash(h)

Next == \E h \in Handlers : HandlerStep(h) /\ Overlap(h)

Spec == Init /\ [][Next]_vars

-----------------------------------------------------------------------------
TypeOK ==
  /\ tables \in {"admin", "backend"}
  /\ payments \in [PaymentIds -> OrNone(Rows)]
  /\ uses \in Nat
  /\ charged \subseteq PaymentIds
  /\ back \in [PaymentIds -> {"nothing", "part", "all"}]
  /\ lost \in BOOLEAN
  /\ pc \in [Handlers -> Steps]
  /\ local \in [Handlers -> OrNone(Orders \cup Refunds)]
  /\ overlapped \in BOOLEAN

Recorded == {o \in PaymentIds : payments[o] # None}

\* However handlers interleave and die, the uses of the coupon are the payments made
\* with it, and no more than it allows and one for each handler but the first.
CouponCounted ==
  LET used == Cardinality({o \in Recorded : payments[o].kind = "coupon"}) IN
    uses = used /\ uses < Limit + Cardinality(Handlers)

\* However handlers interleave and die, what is recorded was charged, and noted as
\* paid back only if Toss has paid something back.  Whenever none is at work and
\* nothing was lost, a payment that was paid back says so, and under the backend's
\* table every charge is recorded.
MoneyTold ==
  /\ Recorded \subseteq charged
  /\ \A o \in Recorded : payments[o].status # "completed" => back[o] # "nothing"
  /\ Quiet /\ ~lost =>
       /\ \A o \in PaymentIds : back[o] # "nothing" => payments[o].status # "completed"
       /\ tables = "backend" => charged \subseteq Recorded

\* As long as handlers do not overlap and nothing is lost, a payment is paid back once.
RefundStands ==
  \A o \in PaymentIds : back[o] # "nothing" /\ ~overlapped' /\ ~lost' => back'[o] = back[o]
=============================================================================
