---------------------------- MODULE PaymentGateway ----------------------------
(***************************************************************************)
(* Payments and refunds of MockPaymentGateway (src/core/payment/mock.rs):  *)
(* two tables, each under a std::sync::RwLock of its own.                  *)
(*                                                                         *)
(* create_payment, capture_payment, cancel_payment and add_payment hold    *)
(* one lock and are atomic steps.  create_refund is not: it reads the      *)
(* payment, stores the refund while still holding the payment's read lock, *)
(* and marks the payment while still holding the refunds' write lock.      *)
(* Both tables are keyed by ids the callers choose, and choose again: what *)
(* is written under a used id replaces what was there.                     *)
(*                                                                         *)
(* A writer that waits holds back new readers in std as well; the queue is *)
(* left out, because those readers hold nothing while they wait.           *)
(***************************************************************************)
EXTENDS Naturals, RwLock

CONSTANTS
    Task,
    PaymentId,
    RefundId,
    Amount,         \* amounts of money
    Seeded,         \* the statuses of payments given to add_payment
    None,
    MaxRefunds      \* bound on calls of create_refund

Status == {"Pending", "RequiresAction", "Processing", "Succeeded", "Failed",
           "Canceled", "PartiallyRefunded", "Refunded"}
Refunded == {"PartiallyRefunded", "Refunded"}

ASSUME AmountIsMoney == Amount \subseteq Nat
ASSUME SeedAssumption == Seeded \subseteq Status
ASSUME RefundBound == MaxRefunds \in Nat

Payment == [status : Status, amount : Amount \cup {0}]

\* A call of create_refund: Refund::full has no amount.  The result is stored
\* under the id of the call.
Refund == [id : RefundId, payment : PaymentId, amount : Amount \cup {None}]
RefundResult == [payment : PaymentId, amount : Amount \cup {0}]

ASSUME NoneIsNothing == None \notin Nat \cup Payment \cup Refund \cup RefundResult

VARIABLES
    payments,       \* payments: HashMap<String, PaymentResult>
    refunds,        \* refunds: HashMap<String, RefundResult>
    lock,           \* the locks of the two tables
    pc,             \* pc[t]: the lock task t waits for in create_refund
    refund,         \* refund[t]: the refund t was called with
    result,         \* result[t]: what t stores
    calls,          \* calls of create_refund so far
    unbacked        \* history: payments seeded as refunded, or left without a
                    \* refund when its id was used for another payment's

vars == <<payments, refunds, lock, pc, refund, result, calls, unbacked>>

HasRefund(p) == \E i \in RefundId : refunds[i] # None /\ refunds[i].payment = p

Init ==
    /\ payments = [p \in PaymentId |-> None]
    /\ refunds = [i \in RefundId |-> None]
    /\ lock = [payments |-> Free, refunds |-> Free]
    /\ pc = [t \in Task |-> "idle"]
    /\ refund = [t \in Task |-> None]
    /\ result = [t \in Task |-> None]
    /\ calls = 0
    /\ unbacked = {}

Goto(t, from, to) ==
    /\ pc[t] = from
    /\ pc' = [pc EXCEPT ![t] = to]

-----------------------------------------------------------------------------
\* An operation that only takes the payments' write lock.
Overwrite(p, payment) ==
    /\ CanWrite(lock["payments"])
    /\ payments' = [payments EXCEPT ![p] = payment]
    /\ unbacked' = IF payment.status \in Refunded /\ ~HasRefund(p)
                   THEN unbacked \cup {p} ELSE unbacked
    /\ UNCHANGED <<refunds, lock, pc, refund, result, calls>>

\* The failure mode decides which; either replaces a payment of the same id.
CreatePayment(p) ==
    \/ \E a \in Amount : Overwrite(p, [status |-> "Succeeded", amount |-> a])
    \/ Overwrite(p, [status |-> "Failed", amount |-> 0])

\* Whatever the status was; with an amount, that is the amount from then on.
CapturePayment(p) ==
    /\ payments[p] # None
    /\ \E a \in Amount \cup {payments[p].amount} :
          Overwrite(p, [status |-> "Succeeded", amount |-> a])

CancelPayment(p) ==
    /\ payments[p] # None
    /\ Overwrite(p, [payments[p] EXCEPT !.status = "Canceled"])

\* Of any status, as a test wants it.
AddPayment(p) ==
    \E s \in Seeded, a \in Amount : Overwrite(p, [status |-> s, amount |-> a])

-----------------------------------------------------------------------------
CreateRefund(t) ==
    /\ Goto(t, "idle", "read_payment")
    /\ calls < MaxRefunds
    /\ calls' = calls + 1
    /\ \E r \in Refund : refund' = [refund EXCEPT ![t] = r]
    /\ UNCHANGED <<payments, refunds, lock, result, unbacked>>

RefundOf(r) ==
    [payment |-> r.payment,
     amount |-> IF r.amount = None THEN payments[r.payment].amount ELSE r.amount]

Return(t) ==
    /\ refund' = [refund EXCEPT ![t] = None]
    /\ result' = [result EXCEPT ![t] = None]

\* A slip: the read guard is dropped as soon as the amount is known.
ReadPaymentUnguarded(t) ==
    /\ Goto(t, "read_payment", "store_refund")
    /\ CanRead(lock["payments"])
    /\ payments[refund[t].payment] # None
    /\ result' = [result EXCEPT ![t] = RefundOf(refund[t])]
    /\ UNCHANGED <<payments, refunds, lock, refund, calls, unbacked>>

ReadPayment(t) ==
    /\ Goto(t, "read_payment", "store_refund")
    /\ CanRead(lock["payments"])
    /\ payments[refund[t].payment] # None
    /\ result' = [result EXCEPT ![t] = RefundOf(refund[t])]
    /\ lock' = [lock EXCEPT !["payments"] = Read(@, t)]
    /\ UNCHANGED <<payments, refunds, refund, calls, unbacked>>

\* Err(NotFound).
NoPayment(t) ==
    /\ Goto(t, "read_payment", "idle")
    /\ CanRead(lock["payments"])
    /\ payments[refund[t].payment] = None
    /\ Return(t)
    /\ UNCHANGED <<payments, refunds, lock, calls, unbacked>>

\* A slip: a refund is only stored if its id is new.
InsertNew(t) ==
    /\ refunds' = [refunds EXCEPT ![refund[t].id] = IF @ = None THEN result[t] ELSE @]
    /\ UNCHANGED unbacked

\* refunds.insert, over what was stored under the id.
Insert(t) ==
    LET old == refunds[refund[t].id]
    IN  /\ refunds' = [refunds EXCEPT ![refund[t].id] = result[t]]
        /\ unbacked' = {p \in unbacked \cup (IF old = None THEN {} ELSE {old.payment}) :
                           ~HasRefund(p)'}

\* A slip: the payments' read guard is not dropped before the write lock is
\* asked for.
StoreRefundKeepingGuard(t) ==
    /\ Goto(t, "store_refund", "mark_payment")
    /\ CanWrite(lock["refunds"])
    /\ Insert(t)
    /\ lock' = [lock EXCEPT !["refunds"] = Write(@, t)]
    /\ UNCHANGED <<payments, refund, result, calls>>

\* The refund is stored, and drop(payments) ends the read lock.
StoreRefund(t) ==
    /\ Goto(t, "store_refund", "mark_payment")
    /\ CanWrite(lock["refunds"])
    /\ Insert(t)
    /\ lock' = [payments |-> Release(lock["payments"], t),
                refunds |-> Write(lock["refunds"], t)]
    /\ UNCHANGED <<payments, refund, result, calls>>

\* What is left of the payment is looked at again, and may have changed.
RefundStatus(t, payment) ==
    IF refund[t].amount # None /\ refund[t].amount < payment.amount
    THEN "PartiallyRefunded"
    ELSE "Refunded"

MarkPayment(t) ==
    LET p == refund[t].payment
    IN  /\ Goto(t, "mark_payment", "idle")
        /\ CanWrite(lock["payments"])
        /\ payments' = [payments EXCEPT ![p].status = RefundStatus(t, payments[p])]
        /\ lock' = [lock EXCEPT !["refunds"] = Release(@, t)]
        /\ Return(t)
        /\ UNCHANGED <<refunds, calls, unbacked>>

-----------------------------------------------------------------------------
Step(t) == ReadPayment(t) \/ NoPayment(t) \/ StoreRefund(t) \/ MarkPayment(t)

Next ==
    \/ \E p \in PaymentId :
          CreatePayment(p) \/ CapturePayment(p) \/ CancelPayment(p) \/ AddPayment(p)
    \/ \E t \in Task : CreateRefund(t) \/ Step(t)

\* The lock prefers waiting writers and otherwise serves readers, so a task
\* that can take a lock again and again takes it.
Fairness == \A t \in Task : SF_vars(Step(t))

Spec == Init /\ [][Next]_vars /\ Fairness

-----------------------------------------------------------------------------
TypeOK ==
    /\ payments \in [PaymentId -> Payment \cup {None}]
    /\ refunds \in [RefundId -> RefundResult \cup {None}]
    /\ lock \in [{"payments", "refunds"} -> RwLockType(Task)]
    /\ pc \in [Task -> {"idle", "read_payment", "store_refund", "mark_payment"}]
    /\ refund \in [Task -> Refund \cup {None}]
    /\ result \in [Task -> RefundResult \cup {None}]
    /\ \A t \in Task : refund[t] = None <=> pc[t] = "idle"
    /\ \A l \in {"payments", "refunds"} : Exclusive(lock[l])
    /\ calls \in 0..MaxRefunds
    /\ unbacked \subseteq PaymentId

(***************************************************************************)
(* Whoever sees a payment that is refunded, in part or whole, finds a      *)
(* refund of it, with two exceptions: it was seeded like that, or its last *)
(* refund was replaced by one of another payment under the same id.  No    *)
(* interleaving of refunds, captures and cancellations makes another.      *)
(***************************************************************************)
RefundedHasRefund ==
    \A p \in PaymentId \ unbacked :
        payments[p] # None /\ payments[p].status \in Refunded => HasRefund(p)

(***************************************************************************)
(* A full refund is stored, under its id, with the amount the payment has  *)
(* at that moment: a capture cannot change it between the look-up and the  *)
(* store, because the payments' read lock is held across both.             *)
(***************************************************************************)
FullRefundIsWhole ==
    [][\A t \in Task :
          pc[t] = "store_refund" /\ pc'[t] = "mark_payment" /\ refund[t].amount = None
          => LET p == refund[t].payment
             IN  refunds'[refund[t].id] = [payment |-> p, amount |-> payments[p].amount]]_vars

\* Two refunds wait for each other, each holding what the other one needs.
Crossed ==
    \E t, u \in Task :
        /\ pc[t] = "store_refund" /\ t \in lock["payments"].readers
        /\ pc[u] = "mark_payment" /\ u \in lock["refunds"].writer

(***************************************************************************)
(* A call of create_refund returns, unless it is caught behind two refunds *)
(* that cross: nothing else in the gateway ever waits for ever.            *)
(***************************************************************************)
RefundsReturnUnlessCrossed ==
    \A t \in Task : pc[t] # "idle" ~> pc[t] = "idle" \/ Crossed

(***************************************************************************)
(* PaymentOutbound::create_refund (api/traits.rs:330) answers with a       *)
(* RefundResult or an error, in whatever order calls are made.  The code   *)
(* does not: two refunds can take the two locks in opposite orders.        *)
(***************************************************************************)
RefundsReturn == \A t \in Task : pc[t] # "idle" ~> pc[t] = "idle"
=============================================================================
