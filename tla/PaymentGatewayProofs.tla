------------------------ MODULE PaymentGatewayProofs --------------------------
(***************************************************************************)
(* Proofs about PaymentGateway for any tasks, payments, amounts and number *)
(* of refunds: its types, that a refunded payment has a refund unless it   *)
(* was seeded or a used id took it away, and that full refunds are whole.  *)
(***************************************************************************)
EXTENDS PaymentGateway, TLAPS

\* Taking the lock to read, when no writer has it.
LEMMA ReadIsLock ==
    ASSUME NEW T, NEW l \in RwLockType(T), NEW t \in T, CanRead(l)
    PROVE  /\ Read(l, t) \in RwLockType(T)
           /\ Read(l, t).readers = l.readers \cup {t}
           /\ Read(l, t).writer = l.writer
           /\ Exclusive(Read(l, t))
  BY DEF Read, Lock, RwLockType, CanRead, Exclusive

\* Taking the lock to write, when nobody has it: the writer is alone.
LEMMA WriteIsLock ==
    ASSUME NEW T, NEW l \in RwLockType(T), NEW t \in T, CanWrite(l)
    PROVE  /\ Write(l, t) \in RwLockType(T)
           /\ Write(l, t).readers = {} /\ Write(l, t).writer = {t}
           /\ Exclusive(Write(l, t))
  BY DEF Write, Lock, RwLockType, CanWrite, Exclusive

\* Releasing takes the task out of the readers and the writer.
LEMMA ReleaseIsLock ==
    ASSUME NEW T, NEW l \in RwLockType(T), NEW t \in T, Exclusive(l)
    PROVE  /\ Release(l, t) \in RwLockType(T)
           /\ Release(l, t).readers = l.readers \ {t}
           /\ Release(l, t).writer = l.writer \ {t}
           /\ Exclusive(Release(l, t))
  BY DEF Release, Lock, RwLockType, Exclusive

(***************************************************************************)
(* What create_refund knows between two locks: the payment is there, the   *)
(* result is the one the payment as it is now calls for, because the read  *)
(* lock is held, and the refund that is stored stays stored meanwhile,     *)
(* because the write lock of the refunds is.                               *)
(***************************************************************************)
Looked(t) ==
    /\ t \in lock["payments"].readers
    /\ payments[refund[t].payment] # None
    /\ result[t] = RefundOf(refund[t])

Stored(t) ==
    /\ t \in lock["refunds"].writer
    /\ payments[refund[t].payment] # None
    /\ HasRefund(refund[t].payment)

UnderWay(t) ==
    /\ pc[t] = "store_refund" => Looked(t)
    /\ pc[t] = "mark_payment" => Stored(t)

IInv == TypeOK /\ RefundedHasRefund /\ \A t \in Task : UnderWay(t)

-----------------------------------------------------------------------------
\* The members of each table are records with these fields.
LEMMA PaymentFields ==
    ASSUME NEW x \in Payment
    PROVE  /\ x.status \in Status /\ x.amount \in Amount \cup {0} /\ x # None
           /\ \A s \in Status : /\ [x EXCEPT !.status = s] \in Payment
                                /\ [x EXCEPT !.status = s].status = s
BY NoneIsNothing DEF Payment

\* A payment made from its parts.
LEMMA NewPayment ==
    ASSUME NEW s \in Status, NEW a \in Amount \cup {0}
    PROVE  /\ [status |-> s, amount |-> a] \in Payment
           /\ [status |-> s, amount |-> a].status = s
BY DEF Payment

\* So are the refunds asked for.
LEMMA RefundFields ==
    ASSUME NEW x \in Refund
    PROVE  /\ x.id \in RefundId /\ x.payment \in PaymentId
           /\ x.amount \in Amount \cup {None} /\ x # None
BY NoneIsNothing DEF Refund

\* A refund of a payment that is there is a well-typed result.
LEMMA RefundOfType ==
    ASSUME NEW x \in Refund, payments[x.payment] \in Payment
    PROVE  /\ RefundOf(x) \in RefundResult /\ RefundOf(x) # None
           /\ RefundOf(x).payment = x.payment
           /\ x.amount = None =>
                RefundOf(x) = [payment |-> x.payment, amount |-> payments[x.payment].amount]
<1>1. /\ x.payment \in PaymentId
      /\ x.amount \in Amount \cup {None}
      /\ payments[x.payment].amount \in Amount \cup {0}
  BY RefundFields, PaymentFields
<1>2. RefundOf(x) \in RefundResult
  BY <1>1 DEF RefundOf, RefundResult
<1> QED
  BY <1>1, <1>2, NoneIsNothing DEF RefundOf

\* Nothing is under way, and nothing refunded.
LEMMA InitIInv == Init => IInv
<1> SUFFICES ASSUME Init
             PROVE  IInv
  OBVIOUS
<1>1. Free \in RwLockType(Task) /\ Exclusive(Free)
  BY DEF Free, Lock, RwLockType, Exclusive
<1>2. TypeOK
  BY <1>1, RefundBound DEF Init, TypeOK
<1> QED
  BY <1>2 DEF Init, IInv, RefundedHasRefund, UnderWay

-----------------------------------------------------------------------------
(***************************************************************************)
(* One operation on the payments' table keeps the invariant: nobody holds  *)
(* the read lock at that moment, and a payment seeded as refunded that has *)
(* no refund is unbacked.                                                  *)
(***************************************************************************)
LEMMA OverwriteKeeps ==
    ASSUME IInv, NEW p \in PaymentId, NEW x \in Payment, Overwrite(p, x)
    PROVE  IInv'
<1>1. /\ payments' = [payments EXCEPT ![p] = x]
      /\ refunds' = refunds /\ lock' = lock /\ pc' = pc /\ refund' = refund
      /\ result' = result /\ calls' = calls
      /\ lock["payments"].readers = {}
      /\ unbacked \subseteq unbacked' /\ unbacked' \subseteq unbacked \cup {p}
      /\ x.status \in Refunded /\ ~HasRefund(p) => p \in unbacked'
  BY DEF Overwrite, CanWrite
<1>2. TypeOK'
  BY <1>1 DEF IInv, TypeOK
<1>3. \A q \in PaymentId : payments'[q] = IF q = p THEN x ELSE payments[q]
  BY <1>1 DEF IInv, TypeOK
<1>4. RefundedHasRefund'
  BY <1>1, <1>3 DEF IInv, RefundedHasRefund, HasRefund
<1>5. ASSUME NEW t \in Task
      PROVE  UnderWay(t)'
  <2>1. pc[t] # "store_refund"
    BY <1>1 DEF IInv, UnderWay, Looked
  <2>2. CASE pc[t] = "mark_payment"
    <3>1. Stored(t) /\ refund[t].payment \in PaymentId /\ x # None
      BY <2>2, RefundFields, PaymentFields DEF IInv, TypeOK, UnderWay
    <3>2. Stored(t)'
      BY <1>1, <1>3, <3>1 DEF Stored, HasRefund
    <3> QED
      BY <1>1, <2>1, <3>2 DEF UnderWay
  <2> QED
    BY <1>1, <2>1, <2>2 DEF UnderWay
<1> QED
  BY <1>2, <1>4, <1>5 DEF IInv

\* create_payment, capture_payment, cancel_payment and add_payment.
LEMMA PaymentKeeps ==
    ASSUME IInv, NEW p \in PaymentId,
           CreatePayment(p) \/ CapturePayment(p) \/ CancelPayment(p) \/ AddPayment(p)
    PROVE  IInv'
<1>1. payments[p] # None => payments[p] \in Payment
  BY DEF IInv, TypeOK
<1>2. CASE CreatePayment(p)
  <2>1. PICK s \in {"Succeeded", "Failed"}, a \in Amount \cup {0} :
           Overwrite(p, [status |-> s, amount |-> a])
    BY <1>2 DEF CreatePayment
  <2> QED
    BY <2>1, NewPayment, OverwriteKeeps DEF Status
<1>3. CASE CapturePayment(p)
  <2>1. payments[p].amount \in Amount \cup {0}
    BY <1>1, <1>3, PaymentFields DEF CapturePayment
  <2>2. PICK a \in Amount \cup {0} :
           Overwrite(p, [status |-> "Succeeded", amount |-> a])
    BY <1>3, <2>1 DEF CapturePayment
  <2> QED
    BY <2>2, NewPayment, OverwriteKeeps DEF Status
<1>4. CASE CancelPayment(p)
  BY <1>1, <1>4, PaymentFields, OverwriteKeeps DEF CancelPayment, Status
<1>5. CASE AddPayment(p)
  <2>1. PICK s \in Status, a \in Amount \cup {0} :
           Overwrite(p, [status |-> s, amount |-> a])
    BY <1>5, SeedAssumption DEF AddPayment
  <2> QED
    BY <2>1, NewPayment, OverwriteKeeps
<1> QED
  BY <1>2, <1>3, <1>4, <1>5

-----------------------------------------------------------------------------
\* The tasks that do not move.
LEMMA OthersUnderWay ==
    ASSUME IInv, NEW t \in Task, NEW u \in Task, u # t,
           pc'[u] = pc[u], refund'[u] = refund[u], result'[u] = result[u],
           pc[u] # "idle" =>
               payments'[refund[u].payment] = payments[refund[u].payment],
           u \in lock["payments"].readers => u \in lock'["payments"].readers,
           u \in lock["refunds"].writer => u \in lock'["refunds"].writer,
           pc[u] = "mark_payment" => refunds' = refunds
    PROVE  UnderWay(u)'
<1>1. UnderWay(u)
  BY DEF IInv
<1>2. CASE pc[u] = "store_refund"
  BY <1>1, <1>2 DEF UnderWay, Looked, RefundOf
<1>3. CASE pc[u] = "mark_payment"
  BY <1>1, <1>3 DEF UnderWay, Stored, HasRefund
<1> QED
  BY <1>2, <1>3 DEF UnderWay

\* A call begins, with whatever id.
LEMMA CreateRefundKeeps ==
    ASSUME IInv, NEW t \in Task, CreateRefund(t)
    PROVE  IInv'
<1>1. PICK r \in Refund : refund' = [refund EXCEPT ![t] = r]
  BY DEF CreateRefund
<1>2. /\ pc[t] = "idle" /\ pc' = [pc EXCEPT ![t] = "read_payment"]
      /\ calls < MaxRefunds /\ calls' = calls + 1
      /\ payments' = payments /\ refunds' = refunds /\ lock' = lock
      /\ result' = result /\ unbacked' = unbacked
  BY DEF CreateRefund, Goto
<1>3. r # None
  BY RefundFields
<1>4. TypeOK'
  BY <1>1, <1>2, <1>3, RefundBound DEF IInv, TypeOK
<1>5. RefundedHasRefund'
  BY <1>2 DEF IInv, RefundedHasRefund, HasRefund
<1>6. ASSUME NEW u \in Task
      PROVE  UnderWay(u)'
  <2>1. CASE u = t
    BY <1>2, <2>1 DEF IInv, TypeOK, UnderWay
  <2>2. CASE u # t
    BY <1>1, <1>2, <2>2, OthersUnderWay DEF IInv, TypeOK
  <2> QED
    BY <2>1, <2>2
<1> QED
  BY <1>4, <1>5, <1>6 DEF IInv

\* The payment is looked up, and its table's read lock kept.
LEMMA ReadPaymentKeeps ==
    ASSUME IInv, NEW t \in Task, ReadPayment(t)
    PROVE  IInv'
<1> DEFINE l == lock["payments"]
<1>1. /\ pc[t] = "read_payment" /\ pc' = [pc EXCEPT ![t] = "store_refund"]
      /\ CanRead(l) /\ payments[refund[t].payment] # None
      /\ result' = [result EXCEPT ![t] = RefundOf(refund[t])]
      /\ lock' = [lock EXCEPT !["payments"] = Read(l, t)]
      /\ payments' = payments /\ refunds' = refunds /\ refund' = refund
      /\ calls' = calls /\ unbacked' = unbacked
  BY DEF ReadPayment, Goto
<1>2. l \in RwLockType(Task)
  BY DEF IInv, TypeOK
<1> HIDE DEF l
<1>3. /\ Read(l, t) \in RwLockType(Task) /\ Exclusive(Read(l, t))
      /\ Read(l, t).readers = l.readers \cup {t}
  BY <1>1, <1>2, ReadIsLock
<1>4. refund[t] \in Refund /\ payments[refund[t].payment] \in Payment
  BY <1>1, RefundFields DEF IInv, TypeOK
<1>5. RefundOf(refund[t]) \in RefundResult
  BY <1>4, RefundOfType
<1>6. TypeOK'
  BY <1>1, <1>3, <1>5 DEF IInv, TypeOK
<1>7. RefundedHasRefund'
  BY <1>1 DEF IInv, RefundedHasRefund, HasRefund
<1>8. /\ lock'["payments"] = Read(l, t) /\ lock'["refunds"] = lock["refunds"]
      /\ pc'[t] = "store_refund" /\ result'[t] = RefundOf(refund[t])
      /\ \A u \in Task : u # t => pc'[u] = pc[u] /\ result'[u] = result[u]
  BY <1>1 DEF IInv, TypeOK
<1>9. UnderWay(t)'
  BY <1>1, <1>3, <1>8 DEF UnderWay, Looked, RefundOf
<1>10. ASSUME NEW u \in Task, u # t
       PROVE  UnderWay(u)'
  BY <1>1, <1>3, <1>8, <1>10, OthersUnderWay DEF l
<1> QED
  BY <1>6, <1>7, <1>9, <1>10 DEF IInv

\* There is no such payment.
LEMMA NoPaymentKeeps ==
    ASSUME IInv, NEW t \in Task, NoPayment(t)
    PROVE  IInv'
<1>1. /\ pc[t] = "read_payment" /\ pc' = [pc EXCEPT ![t] = "idle"]
      /\ refund' = [refund EXCEPT ![t] = None]
      /\ result' = [result EXCEPT ![t] = None]
      /\ payments' = payments /\ refunds' = refunds /\ lock' = lock
      /\ calls' = calls /\ unbacked' = unbacked
  BY DEF NoPayment, Goto, Return
<1>2. TypeOK'
  BY <1>1 DEF IInv, TypeOK
<1>3. RefundedHasRefund'
  BY <1>1 DEF IInv, RefundedHasRefund, HasRefund
<1>4. ASSUME NEW u \in Task
      PROVE  UnderWay(u)'
  <2>1. CASE u = t
    BY <1>1, <2>1 DEF IInv, TypeOK, UnderWay
  <2>2. CASE u # t
    BY <1>1, <2>2, OthersUnderWay DEF IInv, TypeOK
  <2> QED
    BY <2>1, <2>2
<1> QED
  BY <1>2, <1>3, <1>4 DEF IInv

\* What is stored is the full amount or the part that was asked for.
LEMMA StoredResult ==
    ASSUME IInv, NEW t \in Task, pc[t] = "store_refund"
    PROVE  /\ refund[t] \in Refund /\ result[t] = RefundOf(refund[t])
           /\ result[t] \in RefundResult /\ result[t] # None
           /\ refund[t].id \in RefundId
           /\ result[t].payment = refund[t].payment
           /\ refund[t].amount = None =>
                result[t] = [payment |-> refund[t].payment,
                             amount |-> payments[refund[t].payment].amount]
<1>1. refund[t] \in Refund /\ result[t] = RefundOf(refund[t])
      /\ payments[refund[t].payment] # None
  BY DEF IInv, TypeOK, UnderWay, Looked
<1>2. payments[refund[t].payment] \in Payment
  BY <1>1, RefundFields DEF IInv, TypeOK
<1> QED
  BY <1>1, <1>2, RefundOfType, RefundFields

(***************************************************************************)
(* The refund is in the table under its id; a payment whose last refund it *)
(* replaced is unbacked from then on.                                      *)
(***************************************************************************)
LEMMA InsertBacks ==
    ASSUME IInv, NEW t \in Task, pc[t] = "store_refund", Insert(t),
           payments' = payments, refund' = refund
    PROVE  /\ refunds' \in [RefundId -> RefundResult \cup {None}]
           /\ unbacked' \subseteq PaymentId
           /\ HasRefund(refund[t].payment)'
           /\ RefundedHasRefund'
<1> DEFINE i == refund[t].id
           old == refunds[i]
           left == unbacked \cup (IF old = None THEN {} ELSE {old.payment})
<1>1. /\ i \in RefundId /\ result[t] \in RefundResult /\ result[t] # None
      /\ result[t].payment = refund[t].payment
  BY StoredResult
<1>2. /\ refunds' = [refunds EXCEPT ![i] = result[t]]
      /\ unbacked' = {p \in left : ~HasRefund(p)'}
  BY DEF Insert
<1>3. /\ refunds \in [RefundId -> RefundResult \cup {None}]
      /\ unbacked \subseteq PaymentId
  BY DEF IInv, TypeOK
<1>4. old # None => old.payment \in PaymentId
  BY <1>1, <1>3 DEF RefundResult
<1>5. left \subseteq PaymentId
  BY <1>3, <1>4
<1> HIDE DEF i, old, left
<1>6. \A j \in RefundId : refunds'[j] = IF j = i THEN result[t] ELSE refunds[j]
  BY <1>2, <1>3
<1>7. HasRefund(refund[t].payment)'
  <2>1. /\ refunds'[i] # None /\ refunds'[i].payment = refund'[t].payment
    BY <1>1, <1>6
  <2> QED
    BY <1>1, <2>1 DEF HasRefund
<1>8. ASSUME NEW q \in PaymentId \ unbacked', payments'[q] # None,
             payments'[q].status \in Refunded
      PROVE  HasRefund(q)'
  <2> SUFFICES ASSUME ~HasRefund(q)'
               PROVE  FALSE
    OBVIOUS
  <2>1. q \notin left
    BY <1>2, <1>8
  <2>2. q \notin unbacked /\ (old # None => q # old.payment)
    BY <2>1 DEF left
  <2>3. PICK j \in RefundId : refunds[j] # None /\ refunds[j].payment = q
    BY <1>8, <2>2 DEF IInv, RefundedHasRefund, HasRefund
  <2>4. j # i
    BY <2>2, <2>3 DEF old
  <2> QED
    BY <1>6, <2>3, <2>4 DEF HasRefund
<1>9. unbacked' \subseteq PaymentId
  BY <1>2, <1>5
<1>10. refunds' \in [RefundId -> RefundResult \cup {None}]
  BY <1>1, <1>2, <1>3
<1> QED
  BY <1>7, <1>8, <1>9, <1>10 DEF RefundedHasRefund

\* The refund is stored under its own lock, and the read lock given up.
LEMMA StoreRefundKeeps ==
    ASSUME IInv, NEW t \in Task, StoreRefund(t)
    PROVE  IInv'
<1> DEFINE p == lock["payments"]
           r == lock["refunds"]
<1>1. /\ pc[t] = "store_refund" /\ pc' = [pc EXCEPT ![t] = "mark_payment"]
      /\ CanWrite(r) /\ Insert(t)
      /\ lock' = [payments |-> Release(p, t), refunds |-> Write(r, t)]
      /\ payments' = payments /\ refund' = refund /\ result' = result
      /\ calls' = calls
  BY DEF StoreRefund, Goto
<1>2. p \in RwLockType(Task) /\ r \in RwLockType(Task) /\ Exclusive(p)
  BY DEF IInv, TypeOK
<1>3. r.writer = {} /\ lock["refunds"].writer = {}
  BY <1>1 DEF CanWrite
<1>4. \A u \in Task : u \in lock["payments"].readers => u \in p.readers
  OBVIOUS
<1> HIDE DEF p, r
<1>5. /\ Release(p, t) \in RwLockType(Task) /\ Exclusive(Release(p, t))
      /\ Release(p, t).readers = p.readers \ {t}
      /\ Write(r, t) \in RwLockType(Task) /\ Exclusive(Write(r, t))
      /\ Write(r, t).writer = {t}
  BY <1>1, <1>2, ReleaseIsLock, WriteIsLock
<1>6. lock'["payments"] = Release(p, t) /\ lock'["refunds"] = Write(r, t)
  BY <1>1
<1>7. /\ refunds' \in [RefundId -> RefundResult \cup {None}]
      /\ unbacked' \subseteq PaymentId
      /\ HasRefund(refund[t].payment)' /\ RefundedHasRefund'
      /\ payments[refund[t].payment] # None
  BY <1>1, InsertBacks DEF IInv, UnderWay, Looked
<1>8. TypeOK'
  <2>1. lock' \in [{"payments", "refunds"} -> RwLockType(Task)]
    BY <1>1, <1>5
  <2> QED
    BY <1>1, <1>5, <1>6, <1>7, <2>1 DEF IInv, TypeOK
<1>9. UnderWay(t)'
  BY <1>1, <1>5, <1>6, <1>7 DEF IInv, TypeOK, UnderWay, Stored
<1>10. ASSUME NEW u \in Task, u # t
       PROVE  UnderWay(u)'
  <2>1. pc[u] # "mark_payment"
    BY <1>3 DEF IInv, UnderWay, Stored
  <2> QED
    BY <1>1, <1>3, <1>4, <1>5, <1>6, <1>10, <2>1, OthersUnderWay DEF IInv, TypeOK
<1> QED
  BY <1>7, <1>8, <1>9, <1>10 DEF IInv

\* The payment is marked: at that moment no other task is between its locks,
\* because a reader would hold this one off and a writer hold the other lock.
LEMMA MarkPaymentKeeps ==
    ASSUME IInv, NEW t \in Task, MarkPayment(t)
    PROVE  IInv'
<1> DEFINE p == refund[t].payment
           s == RefundStatus(t, payments[p])
           r == lock["refunds"]
<1>1. /\ pc[t] = "mark_payment" /\ pc' = [pc EXCEPT ![t] = "idle"]
      /\ lock["payments"].readers = {}
      /\ payments' = [payments EXCEPT ![p].status = s]
      /\ lock' = [lock EXCEPT !["refunds"] = Release(r, t)]
      /\ refund' = [refund EXCEPT ![t] = None]
      /\ result' = [result EXCEPT ![t] = None]
      /\ refunds' = refunds /\ calls' = calls /\ unbacked' = unbacked
  BY DEF MarkPayment, Goto, Return, CanWrite
<1>2. /\ Stored(t) /\ p \in PaymentId /\ payments[p] \in Payment
  BY <1>1, RefundFields DEF IInv, TypeOK, UnderWay, Stored
<1>3. HasRefund(p)
  BY <1>2 DEF Stored
<1>4. s \in Status
  BY DEF RefundStatus, Status
<1>5. r \in RwLockType(Task) /\ Exclusive(r) /\ t \in r.writer
  BY <1>2 DEF IInv, TypeOK, Stored
<1>6. /\ Release(r, t) \in RwLockType(Task) /\ Exclusive(Release(r, t))
  BY <1>5, ReleaseIsLock
<1>7. ASSUME NEW u \in Task, u # t
      PROVE  pc[u] \notin {"store_refund", "mark_payment"}
  BY <1>1, <1>5, <1>7 DEF IInv, UnderWay, Looked, Stored, Exclusive
<1> DEFINE x == [payments[p] EXCEPT !.status = s]
<1>8. x \in Payment
  BY <1>2, <1>4, PaymentFields
<1>9. payments' = [payments EXCEPT ![p] = x]
  BY <1>1
<1> HIDE DEF p, s, r, x
<1>10. TypeOK'
  BY <1>1, <1>2, <1>6, <1>8, <1>9 DEF IInv, TypeOK
<1>11. RefundedHasRefund'
  BY <1>1, <1>2, <1>3, <1>9 DEF IInv, TypeOK, RefundedHasRefund, HasRefund
<1>12. \A u \in Task : pc'[u] \notin {"store_refund", "mark_payment"}
  BY <1>1, <1>7 DEF IInv, TypeOK
<1>13. \A u \in Task : UnderWay(u)'
  BY <1>12 DEF UnderWay
<1> QED
  BY <1>10, <1>11, <1>13 DEF IInv

-----------------------------------------------------------------------------
\* Every step keeps the inductive invariant.
LEMMA IInvInvariant == Spec => []IInv
<1>1. ASSUME IInv, UNCHANGED vars
      PROVE  IInv'
  <2>1. TypeOK' /\ RefundedHasRefund'
    BY <1>1 DEF IInv, vars, TypeOK, RefundedHasRefund, HasRefund
  <2>2. \A t \in Task : UnderWay(t)'
    BY <1>1 DEF IInv, vars, UnderWay, Looked, Stored, HasRefund, RefundOf
  <2> QED
    BY <2>1, <2>2 DEF IInv
<1>2. IInv /\ [Next]_vars => IInv'
  BY <1>1, PaymentKeeps, CreateRefundKeeps, ReadPaymentKeeps, NoPaymentKeeps,
     StoreRefundKeeps, MarkPaymentKeeps DEF Next, Step
<1> QED
  BY <1>2, InitIInv, PTL DEF Spec

(***************************************************************************)
(* The two tables, their locks and the calls under way keep their types.   *)
(***************************************************************************)
THEOREM TypeCorrect == Spec => []TypeOK
<1>1. IInv => TypeOK
  BY DEF IInv
<1> QED
  BY <1>1, IInvInvariant, PTL

(***************************************************************************)
(* create_refund stores the refund before it marks the payment: no reader  *)
(* finds a refunded payment without a refund of it, unless it was seeded   *)
(* like that or the refund's id was used again for another payment.        *)
(***************************************************************************)
THEOREM RefundExists == Spec => []RefundedHasRefund
<1>1. IInv => RefundedHasRefund
  BY DEF IInv
<1> QED
  BY <1>1, IInvInvariant, PTL

(***************************************************************************)
(* The read lock that create_refund holds while it stores the refund makes *)
(* a full refund the payment's whole amount at that moment.                *)
(***************************************************************************)
THEOREM FullRefunds == Spec => FullRefundIsWhole
<1>1. ASSUME IInv, [Next]_vars, NEW t \in Task,
             pc[t] = "store_refund", pc'[t] = "mark_payment"
      PROVE  StoreRefund(t)
  <2>1. \A u \in Task : pc' = [pc EXCEPT ![u] = "idle"] => pc'[t] # "mark_payment"
    BY <1>1 DEF IInv, TypeOK
  <2>2. \A u \in Task : pc' = [pc EXCEPT ![u] = "mark_payment"] => u = t
    BY <1>1 DEF IInv, TypeOK
  <2>3. \A u \in Task, at \in {"read_payment", "store_refund"} :
           pc' = [pc EXCEPT ![u] = at] => pc'[t] # "mark_payment"
    BY <1>1 DEF IInv, TypeOK
  <2> QED
    BY <1>1, <2>1, <2>2, <2>3
       DEF Next, Step, vars, CreatePayment, CapturePayment, CancelPayment, AddPayment,
           Overwrite, CreateRefund, ReadPayment, NoPayment, StoreRefund, MarkPayment, Goto
<1>2. ASSUME IInv, NEW t \in Task, StoreRefund(t), refund[t].amount = None
      PROVE  refunds'[refund[t].id] =
                [payment |-> refund[t].payment,
                 amount |-> payments[refund[t].payment].amount]
  <2>1. /\ pc[t] = "store_refund"
        /\ refunds' = [refunds EXCEPT ![refund[t].id] = result[t]]
    BY <1>2 DEF StoreRefund, Goto, Insert
  <2>2. refunds'[refund[t].id] = result[t]
    <3>1. refund[t].id \in RefundId
      BY <1>2, <2>1, StoredResult
    <3>2. refunds \in [RefundId -> RefundResult \cup {None}]
      BY <1>2 DEF IInv, TypeOK
    <3> QED
      BY <2>1, <3>1, <3>2
  <2> QED
    BY <1>2, <2>1, <2>2, StoredResult
<1>3. IInv /\ [Next]_vars =>
        \A t \in Task :
          pc[t] = "store_refund" /\ pc'[t] = "mark_payment" /\ refund[t].amount = None
          => LET p == refund[t].payment
             IN  refunds'[refund[t].id] = [payment |-> p, amount |-> payments[p].amount]
  BY <1>1, <1>2
<1> QED
  BY <1>3, IInvInvariant, PTL DEF Spec, FullRefundIsWhole

-----------------------------------------------------------------------------
(***************************************************************************)
(* Who waits for whom.  GoesOn is the guards of Step(t): t's next lock is  *)
(* to be had.                                                              *)
(***************************************************************************)
GoesOn(t) ==
    \/ pc[t] = "read_payment" /\ CanRead(lock["payments"])
    \/ pc[t] = "store_refund" /\ CanWrite(lock["refunds"])
    \/ pc[t] = "mark_payment" /\ CanWrite(lock["payments"])

StuckOnlyIfCrossed ==
    (\E t \in Task : pc[t] # "idle") => Crossed \/ \E t \in Task : GoesOn(t)

CrossedForEver == [][Crossed => Crossed' /\ UNCHANGED <<payments, refunds>>]_vars

(***************************************************************************)
(* The invariant: between two steps the payments' lock is held only to     *)
(* read, by the calls that have looked up a payment, and the refunds' lock *)
(* only to write, by the call that has stored its refund.                  *)
(***************************************************************************)
LocksHeld ==
    /\ lock["payments"].readers = {t \in Task : pc[t] = "store_refund"}
    /\ lock["payments"].writer = {} /\ lock["payments"].queued = {}
    /\ lock["refunds"].readers = {}
    /\ lock["refunds"].writer = {t \in Task : pc[t] = "mark_payment"}

\* Every operation leaves the locks where the tasks' places put them.
LEMMA LocksHeldInvariant == Spec => []LocksHeld
<1>1. Init => LocksHeld
  BY DEF Init, LocksHeld, Free, Lock
<1>2. IInv /\ LocksHeld /\ [Next]_vars => LocksHeld'
  <2> SUFFICES ASSUME IInv, LocksHeld, [Next]_vars
               PROVE  LocksHeld'
    OBVIOUS
  <2> USE DEF LocksHeld, Goto
  <2>1. /\ lock \in [{"payments", "refunds"} -> RwLockType(Task)]
        /\ pc = [t \in Task |-> pc[t]]
    BY DEF IInv, TypeOK
  <2>2. CASE UNCHANGED <<lock, pc>>
    BY <2>2
  <2>3. ASSUME NEW t \in Task, CreateRefund(t) \/ NoPayment(t)
        PROVE  LocksHeld'
    BY <2>1, <2>3 DEF CreateRefund, NoPayment
  <2>4. ASSUME NEW t \in Task, ReadPayment(t)
        PROVE  LocksHeld'
    <3>1. /\ lock'["payments"].readers = lock["payments"].readers \cup {t}
          /\ lock'["payments"].writer = {} /\ lock'["payments"].queued = {}
          /\ lock'["refunds"] = lock["refunds"]
      BY <2>1, <2>4 DEF ReadPayment, Read, Lock
    <3>2. /\ pc[t] = "read_payment" /\ pc'[t] = "store_refund"
          /\ \A u \in Task : u # t => pc'[u] = pc[u]
      BY <2>1, <2>4 DEF ReadPayment
    <3> QED
      BY <3>1, <3>2
  <2>5. ASSUME NEW t \in Task, StoreRefund(t)
        PROVE  LocksHeld'
    <3>1. /\ lock'["payments"].readers = lock["payments"].readers \ {t}
          /\ lock'["payments"].writer = {} /\ lock'["payments"].queued = {}
          /\ lock["refunds"].writer = {}
          /\ lock'["refunds"].readers = {} /\ lock'["refunds"].writer = {t}
      BY <2>1, <2>5 DEF StoreRefund, Release, Write, Lock, CanWrite
    <3>2. /\ pc[t] = "store_refund" /\ pc'[t] = "mark_payment"
          /\ \A u \in Task : u # t => pc'[u] = pc[u]
      BY <2>1, <2>5 DEF StoreRefund
    <3> QED
      BY <3>1, <3>2
  <2>6. ASSUME NEW t \in Task, MarkPayment(t)
        PROVE  LocksHeld'
    <3>1. /\ lock'["payments"] = lock["payments"]
          /\ lock'["refunds"].readers = {}
          /\ lock'["refunds"].writer = lock["refunds"].writer \ {t}
      BY <2>1, <2>6 DEF MarkPayment, Release, Lock
    <3>2. /\ pc[t] = "mark_payment" /\ pc'[t] = "idle"
          /\ \A u \in Task : u # t => pc'[u] = pc[u]
      BY <2>1, <2>6 DEF MarkPayment
    <3> QED
      BY <3>1, <3>2
  <2>7. UNCHANGED <<lock, pc>>
        \/ \E t \in Task : CreateRefund(t) \/ Step(t)
    BY DEF Next, vars, CreatePayment, CapturePayment, CancelPayment, AddPayment, Overwrite
  <2> QED
    BY <2>2, <2>3, <2>4, <2>5, <2>6, <2>7 DEF Step
<1> QED
  BY <1>1, <1>2, IInvInvariant, PTL DEF Spec

(***************************************************************************)
(* The only deadlock there is: while a call of create_refund is under way, *)
(* some call has its next lock to hand, unless two refunds have crossed.   *)
(***************************************************************************)
THEOREM OnlyCrossingDeadlocks == Spec => []StuckOnlyIfCrossed
<1>1. IInv /\ LocksHeld => StuckOnlyIfCrossed
  <2> SUFFICES ASSUME IInv, LocksHeld, NEW t \in Task, pc[t] # "idle", ~Crossed
               PROVE  \E u \in Task : GoesOn(u)
    BY DEF StuckOnlyIfCrossed
  <2>1. CASE pc[t] = "read_payment"
    BY <2>1 DEF GoesOn, CanRead, LocksHeld
  <2>2. CASE pc[t] = "store_refund"
    <3>1. lock["refunds"].writer = {}
      BY <2>2 DEF LocksHeld, Crossed
    <3> QED
      BY <2>2, <3>1 DEF GoesOn, CanWrite, LocksHeld
  <2>3. CASE pc[t] = "mark_payment"
    <3>1. lock["payments"].readers = {}
      BY <2>3 DEF LocksHeld, Crossed
    <3> QED
      BY <2>3, <3>1 DEF GoesOn, CanWrite, LocksHeld
  <2> QED
    BY <2>1, <2>2, <2>3 DEF IInv, TypeOK
<1> QED
  BY <1>1, IInvInvariant, LocksHeldInvariant, PTL

(***************************************************************************)
(* And it is one: refunds that have crossed stay crossed, and from then on *)
(* no payment and no refund is ever written again, whoever calls.          *)
(***************************************************************************)
THEOREM CrossingIsForEver == Spec => CrossedForEver
<1>1. IInv /\ LocksHeld /\ [Next]_vars
      => (Crossed => Crossed' /\ UNCHANGED <<payments, refunds>>)
  <2> SUFFICES ASSUME IInv, LocksHeld, [Next]_vars,
                      NEW t \in Task, NEW u \in Task,
                      pc[t] = "store_refund", t \in lock["payments"].readers,
                      pc[u] = "mark_payment", u \in lock["refunds"].writer
               PROVE  Crossed' /\ UNCHANGED <<payments, refunds>>
    BY DEF Crossed
  <2>1. ~CanWrite(lock["payments"]) /\ ~CanWrite(lock["refunds"])
    BY DEF CanWrite
  <2>2. /\ lock \in [{"payments", "refunds"} -> RwLockType(Task)]
        /\ pc = [v \in Task |-> pc[v]]
    BY DEF IInv, TypeOK
  <2>3. CASE UNCHANGED <<payments, refunds, lock, pc>>
    BY <2>3 DEF Crossed
  <2>4. ASSUME NEW v \in Task, CreateRefund(v) \/ NoPayment(v)
        PROVE  Crossed' /\ UNCHANGED <<payments, refunds>>
    BY <2>2, <2>4 DEF CreateRefund, NoPayment, Goto, Crossed
  <2>5. ASSUME NEW v \in Task, ReadPayment(v)
        PROVE  Crossed' /\ UNCHANGED <<payments, refunds>>
    <3>1. /\ t \in lock'["payments"].readers /\ u \in lock'["refunds"].writer
      BY <2>2, <2>5 DEF ReadPayment, Read, Lock
    <3>2. pc'[t] = "store_refund" /\ pc'[u] = "mark_payment"
      BY <2>2, <2>5 DEF ReadPayment, Goto
    <3> QED
      BY <2>5, <3>1, <3>2 DEF ReadPayment, Crossed
  <2>6. UNCHANGED <<payments, refunds, lock, pc>>
        \/ \E v \in Task : CreateRefund(v) \/ ReadPayment(v) \/ NoPayment(v)
    BY <2>1 DEF Next, Step, vars, CreatePayment, CapturePayment, CancelPayment,
                AddPayment, Overwrite, StoreRefund, MarkPayment
  <2> QED
    BY <2>3, <2>4, <2>5, <2>6
<1> QED
  BY <1>1, IInvInvariant, LocksHeldInvariant, PTL DEF Spec, CrossedForEver
=============================================================================
