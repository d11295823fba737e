-------------------------- MODULE PaymentsProofs --------------------------
(***************************************************************************)
(* Theorems about Payments, for any students, orders, workers, subscription*)
(* length and calendar.                                                    *)
(***************************************************************************)
EXTENDS Payments, FiniteSetTheorems, TLAPS

-----------------------------------------------------------------------------
(* Every variable keeps to its type, through every handler, crash and      *)
(* error.                                                                  *)
THEOREM TypeCorrect == Spec => []TypeOK
<1> USE PaymentsAssumption
<1>1. Init => TypeOK
  BY DEF Init, TypeOK, Years, RegNumber, NoNumber, PaymentIds, PaymentRow,
         SubscriptionRow, Idle, Activating, Reporting, PCs, Request
<1>2. TypeOK /\ [Next]_vars => TypeOK'
  <2> SUFFICES ASSUME TypeOK, [Next]_vars PROVE TypeOK'
    OBVIOUS
  <2> USE DEF TypeOK, razorpay, locks, bought
  <2>r. ASSUME NEW w \in Workers, NEW r \in Request, Becomes(w, r)
        PROVE  req' \in [Workers -> Request]
    BY <2>r DEF Becomes
  <2>i. Idle \in Request
    BY DEF Idle, Request, PCs, PaymentIds, Activating, Reporting, RegNumber
  <2>g. ASSUME NEW w \in Workers, NEW label \in PCs, Goto(w, label),
               label # "number", label \in Reporting => req[w].pc \in Reporting,
               label \in Activating => req[w].pc \in Activating
        PROVE  req' \in [Workers -> Request]
    <3> DEFINE r == [req[w] EXCEPT !.pc = label]
    <3>1. req[w] \in Request
      OBVIOUS
    <3>2. r \in Request
      <4> HIDE DEF TypeOK
      <4> QED
        BY <2>g, <3>1 DEF Request
    <3> QED
      BY <3>2, <2>g, <2>r DEF Goto
  <2>h. ASSUME NEW w \in Workers, NEW label \in {"number", "save"}, HoldingRow(w, label),
               req[w].pc \in Activating
        PROVE  req' \in [Workers -> Request]
    <3> DEFINE y == IF label = "number" THEN YearOf[today] ELSE req[w].year
               r == [req[w] EXCEPT !.pc = label, !.year = y]
    <3>1. YearOf[today] \in Years
      BY DEF Years
    <3>2. y \in Years \cup {0} /\ (label = "number" => y \in Years) /\ label \in PCs
      BY <3>1 DEF Request, PCs, Activating, Reporting
    <3>3. req[w] \in Request
      OBVIOUS
    <3> HIDE DEF y
    <3>4. r \in Request
      BY <2>h, <3>2, <3>3 DEF Request
    <3> QED
      BY <2>h, <2>r, <3>4 DEF HoldingRow, y
  <2>p. ASSUME NEW o, NEW st \in {"created", "success", "failed"}, NEW rf \in PaymentIds
        PROVE  [payment EXCEPT ![o].status = st, ![o].ref = rf] \in [Orders -> PaymentRow]
    <3>1. ASSUME NEW row \in PaymentRow
          PROVE  [row EXCEPT !.status = st, !.ref = rf] \in PaymentRow
      BY DEF PaymentRow
    <3> QED
      BY <3>1
  <2>q. \A w \in Workers : /\ req[w].student \in Students \cup {None}
                           /\ req[w].order \in Orders \cup {None}
                           /\ req[w].ref \in PaymentIds
                           /\ req[w].number \in RegNumber
                           /\ req[w].pc \in PCs
                           /\ req[w].pc \in Activating => req[w].order \in Orders
    BY DEF Request
  <2>y. \A w \in Workers : req[w].pc = "number" => req[w].year \in Years
    BY DEF Request
  <2>s. \A s \in Students : /\ subscription[s].status \in {"absent", "ACTIVE", "EXPIRED"}
                            /\ subscription[s].expiry \in Nat
                            /\ subscription[s].number \in RegNumber
                            /\ subscription[s].order \in Orders \cup {None}
    BY DEF SubscriptionRow
  <2>l. ASSUME NEW w \in Workers, ReleaseLocks(w)
        PROVE  /\ rowLock' \in [Students -> Workers \cup {None}]
               /\ yearLock' \in [Years -> Workers \cup {None}]
    BY <2>l DEF ReleaseLocks
  <2>1. CASE AdvanceDay
    BY <2>1 DEF AdvanceDay
  <2>2. ASSUME NEW w \in Workers, NEW s \in Students, CreateOrder(w, s)
        PROVE  TypeOK'
    BY <2>2 DEF CreateOrder, Becomes, Idle, Request, PCs, Activating, Reporting, PaymentIds, RegNumber
  <2>3. ASSUME NEW w \in Workers, NEW s \in Students, CheckSubscription(w, s)
        PROVE  TypeOK'
    BY <2>3 DEF CheckSubscription, Becomes, Idle, Request, PCs, Activating, Reporting, PaymentIds, RegNumber
  <2>4. ASSUME NEW o \in Orders, Decline(o) \/ Capture(o)
        PROVE  TypeOK'
    BY <2>4 DEF Decline, Capture
  <2>5. ASSUME NEW o \in Orders, PaymentFailedEvent(o)
        PROVE  TypeOK'
    BY <2>5, <2>p DEF PaymentFailedEvent, PaymentIds
  <2>6. ASSUME NEW o \in Orders, NEW w \in Workers, PaymentCaptured(w, o)
        PROVE  TypeOK'
    <3>1. payment[o].student \in Students \cup {None}
      BY DEF PaymentRow
    <3>2. [Idle EXCEPT !.pc = "lock", !.student = payment[o].student, !.order = o] \in Request
      BY <3>1 DEF Idle, Request, PCs, Activating, Reporting, PaymentIds, RegNumber
    <3> QED
      <4>1. payment' \in [Orders -> PaymentRow]
        <5>1. [payment EXCEPT ![o].status = "success", ![o].ref = "captured"]
                 \in [Orders -> PaymentRow]
          BY <2>p DEF PaymentIds
        <5> QED
          BY <2>6, <5>1 DEF PaymentCaptured
      <4>2. req' \in [Workers -> Request]
        BY <2>6, <2>r, <3>2 DEF PaymentCaptured
      <4> QED
        BY <2>6, <4>1, <4>2 DEF PaymentCaptured
  <2>7. ASSUME NEW w \in Workers, NEW o \in Orders, NEW ref \in Reports,
               ReportFailure(w, o, ref)
        PROVE  TypeOK'
    <3>1. payment[o].student \in Students \cup {None} /\ ref \in PaymentIds
      BY DEF PaymentRow, PaymentIds
    <3>2. [Idle EXCEPT !.pc = "writeFailed", !.student = payment[o].student,
                       !.order = o, !.ref = ref] \in Request
      BY <3>1 DEF Idle, Request, PCs, Activating, Reporting, RegNumber
    <3> QED
      BY <2>7, <2>r, <3>2 DEF ReportFailure
  <2>8. ASSUME NEW w \in Workers, Serve(w)
        PROVE  TypeOK'
    <3>1. CASE ExpireSubscription(w)
      <4>1. subscription' \in [Students -> SubscriptionRow]
        <5>1. ASSUME NEW s \in Students PROVE Expired(s) \in SubscriptionRow
          <6>1. subscription[s] \in SubscriptionRow
            OBVIOUS
          <6> HIDE DEF TypeOK
          <6> QED
            BY <6>1 DEF Expired, SubscriptionRow
        <5> QED
          BY <3>1, <5>1 DEF ExpireSubscription
      <4>2. req' \in [Workers -> Request]
        BY <3>1, <2>i, <2>r, <2>g DEF ExpireSubscription, PCs, Activating, Reporting
      <4> QED
        BY <3>1, <4>1, <4>2 DEF ExpireSubscription
    <3>2. ASSUME NEW o \in Orders, InsertOrder(w, o)
          PROVE  TypeOK'
      BY <3>2, <2>i, <2>r DEF InsertOrder, PaymentRow, PaymentIds, Request, Activating
    <3>3. CASE OrderRefused(w)
      BY <3>3, <2>i, <2>r DEF OrderRefused
    <3>4. CASE LockSubscription(w)
      <4>1. req' \in [Workers -> Request]
        BY <3>4, <2>g, <2>h DEF LockSubscription, AfterLock, PCs, Activating, Reporting
      <4> QED
        BY <3>4, <4>1 DEF LockSubscription
    <3>5. CASE CreateSubscription(w)
      <4>1. acked' \subseteq Orders /\ req' \in [Workers -> Request]
        BY <3>5, <2>h, <2>i, <2>r DEF CreateSubscription, InsertRow, PCs, Activating, Reporting, Request
      <4> QED
        BY <3>5, <4>1 DEF CreateSubscription, InsertRow
    <3>6. CASE TakeNumber(w)
      <4> DEFINE y == req[w].year
                 r == [req[w] EXCEPT !.pc = "save",
                                     !.number = [year |-> y, n |-> sequence[y] + 1]]
      <4>1. y \in Years /\ sequence[y] + 1 \in Nat \ {0}
        <5>1. y \in Years
          BY <3>6, <2>y DEF TakeNumber
        <5>2. sequence[y] \in Nat
          BY <5>1
        <5> QED
          BY <5>1, <5>2
      <4>2. [year |-> y, n |-> sequence[y] + 1] \in RegNumber
        BY <4>1 DEF RegNumber
      <4>3. r \in Request
        <5>1. req[w].pc = "number"
          BY <3>6 DEF TakeNumber
        <5>2. req[w] \in Request
          OBVIOUS
        <5> HIDE DEF y, TypeOK
        <5> QED
          BY <4>2, <5>1, <5>2 DEF Request, PCs, Activating, Reporting
      <4>4. yearLock' \in [Years -> Workers \cup {None}]
        BY <3>6, <4>1 DEF TakeNumber
      <4> QED
        BY <3>6, <4>3, <4>4, <2>r DEF TakeNumber
    <3>7. CASE SaveActivation(w)
      <4> DEFINE nr == req[w].number
      <4>1. subscription' \in [Students -> SubscriptionRow]
        <5> DEFINE row(s) == [status |-> "ACTIVE", expiry |-> NewExpiry,
                              order |-> req[w].order,
                              number |-> IF nr = NoNumber THEN subscription[s].number
                                         ELSE nr]
        <5>1. NewExpiry \in Nat
          BY DEF NewExpiry
        <5>2. \A s \in Students : row(s) \in SubscriptionRow
          BY <5>1, <2>q, <2>s DEF SubscriptionRow
        <5>3. subscription' = [subscription EXCEPT ![req[w].student] = row(req[w].student)]
          BY <3>7 DEF SaveActivation
        <5> HIDE DEF row
        <5> QED
          BY <5>2, <5>3
      <4>2. sequence' \in [Years -> Nat]
        <5>1. nr # NoNumber => nr.year \in Years /\ nr.n \in Nat
          BY DEF Request, RegNumber
        <5> QED
          BY <3>7, <5>1 DEF SaveActivation
      <4>3. req[w].order \in Orders
        BY <3>7 DEF SaveActivation, Request, Activating
      <4>4. req' \in [Workers -> Request]
        BY <3>7, <2>i, <2>r DEF SaveActivation
      <4> QED
        BY <3>7, <2>l, <4>1, <4>2, <4>3, <4>4 DEF SaveActivation
    <3>8. CASE WriteFailed(w)
      <4> DEFINE o == req[w].order
                 rf == req[w].ref
      <4>1. o \in Orders /\ rf \in PaymentIds
        BY <3>8, <2>q DEF WriteFailed, Request, Reporting
      <4>2. [payment EXCEPT ![o].status = "failed", ![o].ref = rf] \in [Orders -> PaymentRow]
        BY <4>1, <2>p
      <4>3. payment' \in [Orders -> PaymentRow] /\ overwritten' \subseteq Orders
        BY <3>8, <4>1, <4>2 DEF WriteFailed
      <4>4. req' \in [Workers -> Request]
        BY <3>8, <2>g DEF WriteFailed, PCs, Activating, Reporting
      <4> QED
        BY <3>8, <4>3, <4>4 DEF WriteFailed
    <3>9. CASE CheckHistory(w)
      BY <3>9, <2>g, <2>i, <2>r DEF CheckHistory, PCs, Activating, Reporting
    <3>10. CASE AddHistory(w)
      <4>1. HistoryKey(w) \in HistoryKeys
        <5>1. req[w].order \in Orders /\ req[w].ref \in PaymentIds
          BY <3>10, <2>q DEF AddHistory, Request, Reporting
        <5> QED
          BY <5>1 DEF HistoryKey, HistoryKeys, PaymentIds
      <4>2. history' \in [HistoryKeys -> Nat]
        BY <3>10, <4>1 DEF AddHistory
      <4> QED
        BY <3>10, <4>2, <2>i, <2>r DEF AddHistory
    <3> QED
      BY <2>8, <3>1, <3>2, <3>3, <3>4, <3>5, <3>6, <3>7, <3>8, <3>9, <3>10 DEF Serve
  <2>9. ASSUME NEW w \in Workers, ActivationError(w) \/ Crash(w)
        PROVE  TypeOK'
    BY <2>9, <2>i, <2>r, <2>l DEF ActivationError, MarkingError, Crash, Request
  <2>10. CASE UNCHANGED vars
    BY <2>10 DEF vars
  <2>11. ASSUME NEW o \in Orders, MarkingError(o)
         PROVE  TypeOK'
    BY <2>11 DEF MarkingError
  <2> QED
    BY <2>1, <2>2, <2>3, <2>4, <2>5, <2>6, <2>7, <2>8, <2>9, <2>10, <2>11 DEF Next, Deliver
<1> QED
  BY <1>1, <1>2, PTL DEF Spec

-----------------------------------------------------------------------------
(* The inductive invariant.  The registers are right in committed rows     *)
(* (NumbersInv) because a worker about to commit holds the locks that keep *)
(* what it read true (RequestsInv), and because orders, rows and requests  *)
(* agree on whose they are (OrdersInv, RowsInv).                           *)

OrdersInv ==
  \A o \in Orders :
    /\ payment[o].status # "absent" => payment[o].student \in Students
    /\ o \in captured \cup declined => payment[o].status # "absent"

RowsInv ==
  \A s \in Students :
    /\ subscription[s].status = "absent" => NumberOf(s) = NoNumber
    /\ subscription[s].expiry <= today + Duration

RequestOK(w) ==
  LET r == req[w] IN
  /\ r.pc # "idle" => r.student \in Students
  /\ r.pc \in {"expire", "expireThenOrder"} =>
       subscription[r.student].status # "absent"
  /\ r.pc \in Activating => /\ r.order \in captured
                            /\ payment[r.order].student = r.student
  /\ r.pc = "writeFailed" => r.order \in Orders /\ payment[r.order].status # "absent"
  /\ r.pc \in {"number", "save"} => rowLock[r.student] = w
  /\ r.pc \in {"lock", "create", "number"} => r.number = NoNumber
  /\ r.pc = "number" => NumberOf(r.student) = NoNumber
  /\ r.pc = "save" /\ r.number # NoNumber =>
       /\ NumberOf(r.student) = NoNumber
       /\ yearLock[r.number.year] = w
       /\ r.number.n = sequence[r.number.year] + 1

RequestsInv == \A w \in Workers : RequestOK(w)

NumbersInv ==
  /\ \A s \in Students : NumberOf(s) # NoNumber =>
       /\ NumberOf(s).year \in Years
       /\ NumberOf(s).n \in 1..sequence[NumberOf(s).year]
  /\ \A y \in Years : \A n \in 1..sequence[y] :
       \E s \in Students : NumberOf(s) = [year |-> y, n |-> n]
  /\ NumbersDistinct

IInv == TypeOK /\ OrdersInv /\ RowsInv /\ RequestsInv /\ NumbersInv /\ PaidForByOwner

(* A row, once there, stays, and stays its student's; what Razorpay has    *)
(* captured and what was activated are not forgotten.                      *)
LEMMA RowsStay ==
  ASSUME TypeOK, [Next]_vars
  PROVE  /\ \A o \in Orders : payment[o].status # "absent" =>
              /\ payment'[o].status # "absent"
              /\ payment'[o].student = payment[o].student
         /\ captured \subseteq captured' /\ declined \subseteq declined'
         /\ activated \subseteq activated'
         /\ \A s \in Students : subscription[s].status # "absent" =>
              subscription'[s].status # "absent"
<1> USE DEF TypeOK, razorpay, locks, bought
<1>1. CASE AdvanceDay
  BY <1>1 DEF AdvanceDay
<1>2. ASSUME NEW w \in Workers, NEW s \in Students,
             CreateOrder(w, s) \/ CheckSubscription(w, s)
      PROVE  UNCHANGED <<payment, captured, declined, activated, subscription>>
  BY <1>2 DEF CreateOrder, CheckSubscription
<1>3. ASSUME NEW o \in Orders,
             Decline(o) \/ Capture(o) \/ PaymentFailedEvent(o) \/ Deliver(o) \/ MarkingError(o)
      PROVE  /\ captured \subseteq captured' /\ declined \subseteq declined'
             /\ UNCHANGED <<activated, subscription>>
             /\ \A oo \in Orders : payment[oo].status # "absent" =>
                  /\ payment'[oo].status # "absent"
                  /\ payment'[oo].student = payment[oo].student
  BY <1>3 DEF Decline, Capture, PaymentFailedEvent, MarkingError, Deliver, PaymentCaptured, PaymentRow
<1>4. ASSUME NEW w \in Workers, NEW o \in Orders, NEW ref \in Reports,
             ReportFailure(w, o, ref)
      PROVE  UNCHANGED <<payment, captured, declined, activated, subscription>>
  BY <1>4 DEF ReportFailure
<1>5. ASSUME NEW w \in Workers, ActivationError(w) \/ Crash(w)
      PROVE  UNCHANGED <<payment, captured, declined, activated, subscription>>
  BY <1>5 DEF ActivationError, Crash
<1>6. ASSUME NEW w \in Workers, Serve(w)
      PROVE  /\ UNCHANGED <<captured, declined>> /\ activated \subseteq activated'
             /\ \A oo \in Orders : payment[oo].status # "absent" =>
                  /\ payment'[oo].status # "absent"
                  /\ payment'[oo].student = payment[oo].student
             /\ \A s \in Students : subscription[s].status # "absent" =>
                  subscription'[s].status # "absent"
  <2>1. CASE ExpireSubscription(w)
    BY <2>1 DEF ExpireSubscription, Expired, SubscriptionRow
  <2>2. CASE SaveActivation(w)
    BY <2>2 DEF SaveActivation
  <2>3. CASE WriteFailed(w)
    BY <2>3 DEF WriteFailed, PaymentRow
  <2>4. ASSUME NEW o \in Orders, InsertOrder(w, o)
        PROVE  /\ UNCHANGED <<captured, declined, activated, subscription>>
               /\ \A oo \in Orders : payment[oo].status # "absent" =>
                    payment'[oo] = payment[oo]
    BY <2>4 DEF InsertOrder
  <2>5. CASE \/ OrderRefused(w) \/ LockSubscription(w) \/ CreateSubscription(w)
             \/ TakeNumber(w) \/ CheckHistory(w) \/ AddHistory(w)
    BY <2>5 DEF OrderRefused, LockSubscription, CreateSubscription, InsertRow,
                TakeNumber, CheckHistory, AddHistory
  <2> QED
    BY <1>6, <2>1, <2>2, <2>3, <2>4, <2>5 DEF Serve
<1>7. CASE UNCHANGED vars
  BY <1>7 DEF vars
<1> QED
  BY <1>1, <1>2, <1>3, <1>4, <1>5, <1>6, <1>7 DEF Next

LEMMA OrdersStep ==
  ASSUME TypeOK, OrdersInv, RequestsInv, [Next]_vars
  PROVE  OrdersInv'
<1> USE DEF OrdersInv, razorpay
<1>0. /\ \A o \in Orders : payment[o].status # "absent" =>
            payment'[o].status # "absent" /\ payment'[o].student = payment[o].student
  BY RowsStay
<1>1. ASSUME NEW o \in Orders, payment[o].status = "absent", payment'[o].status # "absent"
      PROVE  payment'[o].student \in Students
  <2>1. ASSUME NEW w \in Workers, NEW oo \in Orders, InsertOrder(w, oo)
        PROVE  payment'[o].student \in Students
    BY <1>1, <2>1 DEF InsertOrder, TypeOK, RequestsInv, RequestOK
  <2>2. ASSUME NEW w \in Workers, NEW oo \in Orders,
               PaymentCaptured(w, oo)
        PROVE  FALSE
    <3>1. oo # o
      BY <1>1, <2>2 DEF PaymentCaptured, MoneyArrived
    <3> QED
      BY <1>1, <2>2, <3>1 DEF PaymentCaptured, TypeOK
  <2>3. ASSUME NEW w \in Workers, WriteFailed(w)
        PROVE  FALSE
    <3>1. req[w].order # o
      BY <1>1, <2>3 DEF WriteFailed, RequestsInv, RequestOK
    <3> QED
      BY <1>1, <2>3, <3>1 DEF WriteFailed, TypeOK
  <2>4. \/ \E w \in Workers, oo \in Orders :
             InsertOrder(w, oo) \/ PaymentCaptured(w, oo)
        \/ \E w \in Workers : WriteFailed(w)
        \/ \E oo \in Orders : PaymentFailedEvent(oo)
        \/ UNCHANGED payment
    BY DEF Next, vars, AdvanceDay, CreateOrder, CheckSubscription, Decline, Capture,
           Deliver, ReportFailure, Serve, ActivationError, MarkingError, Crash, ExpireSubscription,
           OrderRefused, LockSubscription, CreateSubscription, InsertRow, TakeNumber,
           SaveActivation, CheckHistory, AddHistory
  <2>5. ASSUME NEW oo \in Orders, PaymentFailedEvent(oo)
        PROVE  FALSE
    <3>1. oo # o
      BY <1>1, <2>5 DEF PaymentFailedEvent, MayFail
    <3> QED
      BY <1>1, <2>5, <3>1 DEF PaymentFailedEvent, TypeOK
  <2> QED
    BY <1>1, <2>1, <2>2, <2>3, <2>4, <2>5
<1>2. ASSUME NEW o \in Orders, o \in captured' \cup declined', o \notin captured \cup declined
      PROVE  payment[o].status # "absent"
  BY <1>2 
  DEF Next, AdvanceDay, CreateOrder, CheckSubscription, Decline, Capture, vars, 
      PaymentFailedEvent, Deliver, PaymentCaptured, ReportFailure, Serve,
      ActivationError, MarkingError, Crash, ExpireSubscription, InsertOrder, OrderRefused, 
      LockSubscription, CreateSubscription, InsertRow, TakeNumber, SaveActivation,
      WriteFailed, CheckHistory, AddHistory
<1> QED
  BY <1>0, <1>1, <1>2

(* A request that a step does not serve stays in order if the step leaves  *)
(* alone what the request's worker has locked.                             *)
LEMMA OtherRequest ==
  ASSUME TypeOK, OrdersInv, RequestsInv, [Next]_vars,
         NEW v \in Workers, req'[v] = req[v],
         \A s \in Students : rowLock[s] = v =>
            rowLock'[s] = v /\ subscription'[s].number = subscription[s].number,
         \A y \in Years : yearLock[y] = v =>
            yearLock'[y] = v /\ sequence'[y] = sequence[y]
  PROVE  RequestOK(v)'
<1> DEFINE r == req[v]
<1>1. r.pc \in {"expire", "expireThenOrder"} => subscription'[r.student].status # "absent"
  BY RowsStay DEF RequestsInv, RequestOK
<1>2. r.pc \in Activating => /\ r.order \in captured'
                             /\ payment'[r.order].student = r.student
  BY RowsStay DEF RequestsInv, RequestOK, OrdersInv, TypeOK
<1>3. r.pc = "writeFailed" => r.order \in Orders /\ payment'[r.order].status # "absent"
  BY RowsStay DEF RequestsInv, RequestOK
<1>4. r.pc = "save" /\ r.number # NoNumber => r.number.year \in Years
  BY DEF TypeOK, Request, RegNumber
<1>5. r.pc # "idle" => r.student \in Students
  BY DEF RequestsInv, RequestOK
<1> QED
  BY <1>1, <1>2, <1>3, <1>4, <1>5 DEF RequestsInv, RequestOK, NumberOf

(* The locks a transaction gives back are its own.                         *)
LEMMA OwnLocks ==
  ASSUME TypeOK, NEW w \in Workers, NEW v \in Workers, v # w, ReleaseLocks(w)
  PROVE  /\ \A s \in Students : rowLock[s] = v => rowLock'[s] = v
         /\ \A y \in Years : yearLock[y] = v => yearLock'[y] = v
BY DEF ReleaseLocks, TypeOK

(* A request that has only moved on. *)
SameRequest(w, label) ==
  /\ req'[w].pc = label
  /\ req'[w].student = req[w].student
  /\ req'[w].order = req[w].order
  /\ req'[w].number = req[w].number

LEMMA RequestsStep ==
  ASSUME TypeOK, OrdersInv, RowsInv, RequestsInv, [Next]_vars
  PROVE  RequestsInv'
<1> SUFFICES ASSUME NEW v \in Workers PROVE RequestOK(v)'
  BY DEF RequestsInv
<1> USE DEF razorpay, locks
<1>n. None \notin Workers
  BY PaymentsAssumption
<1>a. RequestOK(v)
  BY DEF RequestsInv
<1>i. ASSUME req'[v].pc = "idle" PROVE RequestOK(v)'
  BY <1>i DEF RequestOK, Activating
<1>b. ASSUME NEW w \in Workers, NEW r, Becomes(w, r)
      PROVE  /\ req'[w] = r
             /\ v # w => req'[v] = req[v]
  BY <1>b DEF Becomes, TypeOK
<1>g. ASSUME NEW w \in Workers, NEW label, Goto(w, label)
      PROVE  SameRequest(w, label)
  BY <1>g, <1>b DEF Goto, SameRequest, TypeOK, Request
<1>h. ASSUME NEW w \in Workers, NEW label, HoldingRow(w, label)
      PROVE  SameRequest(w, label)
  <2> DEFINE y == IF label = "number" THEN YearOf[today] ELSE req[w].year
  <2>1. Becomes(w, [req[w] EXCEPT !.pc = label, !.year = y])
    BY <1>h DEF HoldingRow, TypeOK, Request
  <2> DEFINE r == [req[w] EXCEPT !.pc = label, !.year = y]
  <2> HIDE DEF y
  <2>2. req'[w] = r
    BY <2>1, <1>b
  <2>3. /\ r.pc = label /\ r.student = req[w].student
        /\ r.order = req[w].order /\ r.number = req[w].number
    <3>1. req[w] \in Request
      BY DEF TypeOK
    <3> QED
      BY <3>1 DEF Request
  <2> HIDE DEF r
  <2> QED
    BY <2>2, <2>3 DEF SameRequest
<1>1. CASE AdvanceDay
  BY <1>1, OtherRequest DEF AdvanceDay
<1>2. ASSUME NEW w \in Workers, NEW s \in Students,
             CreateOrder(w, s) \/ CheckSubscription(w, s)
      PROVE  RequestOK(v)'
  <2>1. CASE v = w
    <3>1. /\ req'[v].pc \in {"expire", "expireThenOrder", "insert"}
          /\ req'[v].student = s
          /\ req'[v].pc # "insert" => subscription[s].status # "absent"
      <4>1. \A x : LET r == [Idle EXCEPT !.pc = x, !.student = s]
                   IN  r.pc = x /\ r.student = s
        BY DEF Idle
      <4>2. \E x \in {"expire", "expireThenOrder", "insert"} :
               /\ req'[v] = [Idle EXCEPT !.pc = x, !.student = s]
               /\ x # "insert" => Lapsed(s)
        BY <2>1, <1>2, <1>b DEF CreateOrder, CheckSubscription
      <4> QED
        BY <4>1, <4>2 DEF Lapsed
    <3>2. UNCHANGED subscription
      BY <1>2 DEF CreateOrder, CheckSubscription
    <3> QED
      BY <3>1, <3>2 DEF RequestOK, Activating
  <2> QED
    BY <2>1, <1>2, <1>b, OtherRequest DEF CreateOrder, CheckSubscription
<1>3. ASSUME NEW o \in Orders, Decline(o) \/ Capture(o) \/ PaymentFailedEvent(o) \/ MarkingError(o)
      PROVE  RequestOK(v)'
  BY <1>3, OtherRequest DEF Decline, Capture, PaymentFailedEvent, MarkingError
<1>4. ASSUME NEW w \in Workers, NEW o \in Orders, PaymentCaptured(w, o)
      PROVE  RequestOK(v)'
  <2>1. CASE v = w /\ ~AlreadySuccess(o)
    <3>1. payment[o].student \in Students /\ o \in captured
      BY <1>4 DEF PaymentCaptured, MoneyArrived, OrdersInv
    <3>2. payment'[o].student = payment[o].student
      BY <2>1, <1>4 DEF PaymentCaptured, TypeOK, PaymentRow
    <3>3. /\ req'[v].pc = "lock" /\ req'[v].order = o
          /\ req'[v].student = payment[o].student /\ req'[v].number = NoNumber
      <4> DEFINE r == [Idle EXCEPT !.pc = "lock", !.student = payment[o].student, !.order = o]
      <4>1. /\ r.pc = "lock" /\ r.order = o /\ r.student = payment[o].student
            /\ r.number = NoNumber
        BY DEF Idle
      <4>2. req'[v] = r
        BY <2>1, <1>4, <1>b DEF PaymentCaptured
      <4> QED
        BY <4>1, <4>2
    <3>4. UNCHANGED captured
      BY <1>4 DEF PaymentCaptured
    <3> QED
      BY <3>1, <3>2, <3>3, <3>4 DEF RequestOK
  <2> QED
    BY <2>1, <1>4, <1>b, OtherRequest DEF PaymentCaptured
<1>5. ASSUME NEW w \in Workers, NEW o \in Orders, NEW ref \in Reports,
             ReportFailure(w, o, ref)
      PROVE  RequestOK(v)'
  <2>1. CASE v = w
    BY <2>1, <1>5 DEF ReportFailure, MayFail, Becomes, RequestOK, Idle, Activating, TypeOK,
                      OrdersInv
  <2> QED
    BY <2>1, <1>5, <1>b, OtherRequest DEF ReportFailure
<1>6. ASSUME NEW w \in Workers, ActivationError(w) \/ Crash(w)
      PROVE  RequestOK(v)'
  <2>1. CASE v = w
    BY <2>1, <1>6, <1>b, <1>i DEF ActivationError, MarkingError, Crash, Idle
  <2> QED
    BY <2>1, <1>6, <1>b, OwnLocks, OtherRequest DEF ActivationError, Crash
<1>7. ASSUME NEW w \in Workers, Serve(w)
      PROVE  RequestOK(v)'
  <2>1. CASE ExpireSubscription(w)
    <3>1. \A s \in Students : subscription'[s].number = subscription[s].number
      BY <2>1 DEF ExpireSubscription, Expired, TypeOK, SubscriptionRow
    <3>2. CASE v = w
      <4>1. \/ req'[v].pc = "idle"
            \/ req'[v].pc = "insert" /\ req'[v].student = req[v].student
        BY <2>1, <3>2, <1>b DEF ExpireSubscription, Goto, Idle, TypeOK, Request
      <4> QED
        BY <2>1, <3>2, <4>1, <1>a, <1>i DEF ExpireSubscription, RequestOK, Activating
    <3> QED
      BY <2>1, <3>1, <3>2, <1>b, OtherRequest DEF ExpireSubscription, Goto
  <2>2. ASSUME NEW o \in Orders, InsertOrder(w, o)
        PROVE  RequestOK(v)'
    BY <2>2, <1>b, <1>i, OtherRequest DEF InsertOrder, Idle
  <2>3. CASE OrderRefused(w)
    BY <2>3, <1>b, <1>i, OtherRequest DEF OrderRefused, Idle
  <2>4. CASE LockSubscription(w)
    <3> DEFINE s == req[w].student
    <3>0. s \in Students
      BY <2>4 DEF LockSubscription, RequestsInv, RequestOK
    <3>1. CASE v = w
      <4>1. CASE subscription[s].status = "absent"
        <5>1. Goto(w, "create")
          BY <2>4, <4>1 DEF LockSubscription
        <5>2. SameRequest(v, "create")
          BY <5>1, <3>1, <1>g
        <5> QED
          BY <2>4, <3>1, <5>2, <1>a DEF LockSubscription, SameRequest, RequestOK, Activating
      <4>2. CASE subscription[s].status # "absent"
        <5>1. HoldingRow(w, AfterLock(s))
          BY <2>4, <4>2 DEF LockSubscription
        <5>2. SameRequest(v, AfterLock(s))
          BY <5>1, <3>1, <1>h
        <5>3. rowLock'[s] = v
          BY <2>4, <3>0, <3>1, <4>2 DEF LockSubscription, TypeOK
        <5> QED
          BY <2>4, <3>1, <5>2, <5>3, <1>a
          DEF LockSubscription, AfterLock, SameRequest, RequestOK, Activating, NumberOf
      <4> QED
        BY <4>1, <4>2
    <3>2. CASE v # w
      <4>1. \A t \in Students : rowLock[t] = v => rowLock'[t] = v
        BY <2>4, <3>0, <3>2, <1>n DEF LockSubscription, TypeOK
      <4> QED
        BY <2>4, <3>2, <4>1, <1>b, OtherRequest DEF LockSubscription, Goto, HoldingRow
    <3> QED
      BY <3>1, <3>2
  <2>5. CASE CreateSubscription(w)
    <3> DEFINE s == req[w].student
    <3>0. s \in Students /\ rowLock[s] = None
      BY <2>5 DEF CreateSubscription, InsertRow, RequestsInv, RequestOK
    <3>1. CASE v = w
      <4>1. CASE subscription[s].status # "absent"
        BY <2>5, <3>1, <4>1, <1>b, <1>i DEF CreateSubscription, InsertRow, Idle
      <4>2. CASE subscription[s].status = "absent"
        <5>1. SameRequest(v, "number")
          BY <2>5, <3>1, <4>2, <1>h DEF CreateSubscription, InsertRow
        <5>2. rowLock'[s] = v
          BY <2>5, <3>0, <3>1, <4>2 DEF CreateSubscription, InsertRow, TypeOK
        <5>3. NumberOf(s) = NoNumber
          BY <3>0, <4>2 DEF RowsInv
        <5> QED
          BY <2>5, <3>1, <5>1, <5>2, <5>3, <1>a
          DEF CreateSubscription, InsertRow, SameRequest, RequestOK, Activating, NumberOf
      <4> QED
        BY <4>1, <4>2
    <3>2. CASE v # w
      <4>1. \A t \in Students : rowLock[t] = v => rowLock'[t] = v
        BY <2>5, <3>0, <3>2, <1>n DEF CreateSubscription, InsertRow, TypeOK
      <4> QED
        BY <2>5, <3>2, <4>1, <1>b, OtherRequest DEF CreateSubscription, InsertRow, HoldingRow
    <3> QED
      BY <3>1, <3>2
  <2>6. CASE TakeNumber(w)
    <3> DEFINE y == req[w].year
    <3>0. y \in Years /\ yearLock[y] = None
      BY <2>6 DEF TakeNumber, RegisterFree, TypeOK, Request
    <3>1. CASE v = w
      <4> DEFINE r == [req[w] EXCEPT !.pc = "save",
                                     !.number = [year |-> y, n |-> sequence[y] + 1]]
      <4>1. req'[v] = r
        BY <2>6, <3>1, <1>b DEF TakeNumber
      <4>2. /\ r.pc = "save" /\ r.student = req[v].student /\ r.order = req[v].order
            /\ r.number = [year |-> y, n |-> sequence[y] + 1]
        BY <3>1 DEF TypeOK, Request
      <4>3. yearLock'[y] = v
        BY <2>6, <3>0, <3>1 DEF TakeNumber, TypeOK
      <4>4. req[v].pc = "number"
        BY <2>6, <3>1 DEF TakeNumber
      <4> HIDE DEF r, y
      <4> QED
        BY <2>6, <4>1, <4>2, <4>3, <4>4, <1>a
        DEF TakeNumber, RequestOK, Activating, NumberOf
    <3>2. CASE v # w
      <4>1. \A x \in Years : yearLock[x] = v => yearLock'[x] = v
        BY <2>6, <3>0, <3>2, <1>n DEF TakeNumber, TypeOK
      <4> QED
        BY <2>6, <3>2, <4>1, <1>b, OtherRequest DEF TakeNumber
    <3> QED
      BY <3>1, <3>2
  <2>7. CASE SaveActivation(w)
    <3> DEFINE s  == req[w].student
               nr == req[w].number
    <3>1. CASE v = w
      BY <2>7, <3>1, <1>b, <1>i DEF SaveActivation, Idle
    <3>2. CASE v # w
      <4>1. /\ s \in Students /\ rowLock[s] = w
            /\ nr # NoNumber => yearLock[nr.year] = w
        BY <2>7 DEF SaveActivation, RequestsInv, RequestOK
      <4>2. \A t \in Students : rowLock[t] = v => subscription'[t] = subscription[t]
        BY <2>7, <3>2, <4>1 DEF SaveActivation, TypeOK
      <4>3. \A x \in Years : yearLock[x] = v => sequence'[x] = sequence[x]
        BY <2>7, <3>2, <4>1 DEF SaveActivation, TypeOK
      <4>4. req'[v] = req[v]
        BY <2>7, <3>2, <1>b DEF SaveActivation
      <4>5. ReleaseLocks(w)
        BY <2>7 DEF SaveActivation
      <4> QED
        BY <3>2, <4>2, <4>3, <4>4, <4>5, OwnLocks, OtherRequest
    <3> QED
      BY <3>1, <3>2
  <2>8. CASE WriteFailed(w)
    <3>1. CASE v = w
      BY <3>1, <2>8, <1>a, <1>b DEF WriteFailed, Goto, RequestOK, Activating, TypeOK, Request
    <3> QED
      BY <3>1, <2>8, <1>b, OtherRequest DEF WriteFailed, Goto
  <2>9. CASE CheckHistory(w)
    <3>1. CASE v = w
      BY <3>1, <2>9, <1>a, <1>b DEF CheckHistory, Goto, RequestOK, Activating, TypeOK, Request, Idle
    <3> QED
      BY <3>1, <2>9, <1>b, OtherRequest DEF CheckHistory, Goto
  <2>10. CASE AddHistory(w)
    BY <2>10, <1>b, <1>i, OtherRequest DEF AddHistory, Idle
  <2> QED
    BY <1>7, <2>1, <2>2, <2>3, <2>4, <2>5, <2>6, <2>7, <2>8, <2>9, <2>10 DEF Serve
<1>8. CASE UNCHANGED vars
  BY <1>8, OtherRequest DEF vars
<1> QED
  BY <1>1, <1>2, <1>3, <1>4, <1>5, <1>6, <1>7, <1>8 DEF Next, Deliver

-----------------------------------------------------------------------------
(* Only a commit changes what the registers and the rows' numbers say, and *)
(* it changes them as the abstract register's Issue does.                  *)
LEMMA RegisterStep ==
  ASSUME TypeOK, RequestsInv, [Next]_vars
  PROVE  \/ /\ \A s \in Students : subscription'[s].number = subscription[s].number
            /\ sequence' = sequence
         \/ \E s \in Students, y \in Years :
              /\ NumberOf(s) = NoNumber
              /\ sequence' = [sequence EXCEPT ![y] = @ + 1]
              /\ subscription'[s].number = [year |-> y, n |-> sequence[y] + 1]
              /\ \A t \in Students \ {s} :
                   subscription'[t].number = subscription[t].number
<1>1. ASSUME NEW w \in Workers, ExpireSubscription(w)
      PROVE  /\ \A s \in Students : subscription'[s].number = subscription[s].number
             /\ sequence' = sequence
  BY <1>1 DEF ExpireSubscription, Expired, TypeOK, SubscriptionRow
<1>2. ASSUME NEW w \in Workers, SaveActivation(w), req[w].number = NoNumber
      PROVE  /\ \A s \in Students : subscription'[s].number = subscription[s].number
             /\ sequence' = sequence
  BY <1>2 DEF SaveActivation, TypeOK
<1>3. ASSUME NEW w \in Workers, SaveActivation(w), req[w].number # NoNumber
      PROVE  \E s \in Students, y \in Years :
              /\ NumberOf(s) = NoNumber
              /\ sequence' = [sequence EXCEPT ![y] = @ + 1]
              /\ subscription'[s].number = [year |-> y, n |-> sequence[y] + 1]
              /\ \A t \in Students \ {s} :
                   subscription'[t].number = subscription[t].number
  <2> DEFINE s  == req[w].student
             nr == req[w].number
  <2>1. /\ s \in Students /\ NumberOf(s) = NoNumber
        /\ nr.n = sequence[nr.year] + 1
    BY <1>3 DEF SaveActivation, RequestsInv, RequestOK
  <2>2. nr.year \in Years /\ nr = [year |-> nr.year, n |-> nr.n]
    BY <1>3 DEF TypeOK, Request, RegNumber
  <2>3. /\ sequence' = [sequence EXCEPT ![nr.year] = @ + 1]
        /\ subscription'[s].number = nr
        /\ \A t \in Students \ {s} : subscription'[t] = subscription[t]
    BY <1>3, <2>1, <2>2 DEF SaveActivation, TypeOK
  <2> HIDE DEF s, nr
  <2> QED
    BY <2>1, <2>2, <2>3
<1>4. \/ \E w \in Workers : ExpireSubscription(w) \/ SaveActivation(w)
      \/ UNCHANGED <<subscription, sequence>>
  BY DEF Next, vars, AdvanceDay, CreateOrder, CheckSubscription, Decline, Capture,
         PaymentFailedEvent, Deliver, PaymentCaptured, ReportFailure, Serve,
         ActivationError, MarkingError, Crash, InsertOrder, OrderRefused, LockSubscription,
         CreateSubscription, InsertRow, TakeNumber, WriteFailed, CheckHistory,
         AddHistory
<1> QED
  BY <1>1, <1>2, <1>3, <1>4

LEMMA NumbersStep ==
  ASSUME TypeOK, RequestsInv, NumbersInv, [Next]_vars
  PROVE  NumbersInv'
<1> USE DEF NumbersInv, NumbersDistinct, NumberOf
<1>1. CASE /\ \A s \in Students : subscription'[s].number = subscription[s].number
           /\ sequence' = sequence
  BY <1>1
<1>2. ASSUME NEW s \in Students, NEW y \in Years,
             NumberOf(s) = NoNumber,
             sequence' = [sequence EXCEPT ![y] = @ + 1],
             subscription'[s].number = [year |-> y, n |-> sequence[y] + 1],
             \A t \in Students \ {s} : subscription'[t].number = subscription[t].number
      PROVE  NumbersInv'
  <2>1. /\ sequence \in [Years -> Nat] /\ sequence[y] \in Nat
        /\ sequence'[y] = sequence[y] + 1
        /\ \A x \in Years \ {y} : sequence'[x] = sequence[x]
    BY <1>2 DEF TypeOK
  <2>2. \A t \in Students : NumberOf(t)' # NoNumber =>
          /\ NumberOf(t)'.year \in Years
          /\ NumberOf(t)'.n \in 1..sequence'[NumberOf(t)'.year]
    <3>1. ASSUME NEW t \in Students \ {s}, NumberOf(t) # NoNumber
          PROVE  NumberOf(t).n \in 1..sequence'[NumberOf(t).year]
      BY <2>1, <3>1
    <3> QED
      BY <1>2, <2>1, <3>1
  <2>3. \A x \in Years : \A n \in 1..sequence'[x] :
          \E t \in Students : NumberOf(t)' = [year |-> x, n |-> n]
    <3>1. ASSUME NEW x \in Years, NEW n \in 1..sequence'[x],
                 ~(x = y /\ n = sequence[y] + 1)
          PROVE  \E t \in Students : NumberOf(t)' = [year |-> x, n |-> n]
      <4>1. n \in 1..sequence[x]
        BY <2>1, <3>1
      <4>2. PICK t \in Students : NumberOf(t) = [year |-> x, n |-> n]
        BY <4>1
      <4>3. t # s
        BY <1>2, <4>1, <4>2 DEF NoNumber
      <4> QED
        BY <1>2, <4>2, <4>3
    <3> QED
      BY <1>2, <3>1
  <2>4. NumbersDistinct'
    <3>1. ASSUME NEW t \in Students \ {s}
          PROVE  NumberOf(t) # [year |-> y, n |-> sequence[y] + 1]
      <4>1. SUFFICES ASSUME NumberOf(t) = [year |-> y, n |-> sequence[y] + 1]
                     PROVE  FALSE
        OBVIOUS
      <4>2. NumberOf(t) # NoNumber
        BY <4>1, <2>1 DEF NoNumber
      <4>3. NumberOf(t).n \in 1..sequence[y] /\ NumberOf(t).n = sequence[y] + 1
        BY <4>1, <4>2
      <4> QED
        BY <4>3, <2>1
    <3> QED
      BY <1>2, <3>1
  <2> QED
    BY <2>2, <2>3, <2>4
<1> QED
  BY <1>1, <1>2, RegisterStep

LEMMA RowsStep ==
  ASSUME TypeOK, TypeOK', RequestsInv, RowsInv, [Next]_vars
  PROVE  /\ RowsInv'
         /\ \A s \in Students : subscription[s].expiry <= subscription'[s].expiry
<1> USE PaymentsAssumption DEF RowsInv, NumberOf
<1>d. /\ today \in Nat /\ Duration \in Nat
      /\ \A s \in Students : subscription[s].expiry \in Nat
  BY DEF TypeOK, SubscriptionRow
<1>1. ASSUME NEW w \in Workers, ExpireSubscription(w)
      PROVE  /\ \A s \in Students : /\ subscription'[s].number = subscription[s].number
                                    /\ subscription'[s].expiry = subscription[s].expiry
             /\ today' = today
  BY <1>1 DEF ExpireSubscription, Expired, TypeOK, SubscriptionRow
<1>2. ASSUME NEW w \in Workers, SaveActivation(w)
      PROVE  /\ \A s \in Students : \/ subscription'[s] = subscription[s]
                                    \/ /\ subscription'[s].status = "ACTIVE"
                                       /\ subscription'[s].expiry = today + Duration
             /\ today' = today
  BY <1>2 DEF SaveActivation, NewExpiry, TypeOK
<1>3. CASE UNCHANGED subscription /\ today' \in {today, today + 1}
  BY <1>3, <1>d
<1>4. \/ \E w \in Workers : ExpireSubscription(w) \/ SaveActivation(w)
      \/ UNCHANGED subscription /\ today' \in {today, today + 1}
  BY DEF Next, vars, AdvanceDay, CreateOrder, CheckSubscription, Decline, Capture,
         PaymentFailedEvent, Deliver, PaymentCaptured, ReportFailure, Serve,
         ActivationError, MarkingError, Crash, InsertOrder, OrderRefused, LockSubscription,
         CreateSubscription, InsertRow, TakeNumber, WriteFailed, CheckHistory,
         AddHistory
<1>5. ASSUME NEW w \in Workers, ExpireSubscription(w)
      PROVE  \A s \in Students : subscription'[s].status = "absent" =>
                                   subscription[s].status = "absent"
  BY <1>5, RowsStay
<1> QED
  BY <1>1, <1>2, <1>3, <1>4, <1>5, <1>d

LEMMA PaidStep ==
  ASSUME TypeOK, OrdersInv, RequestsInv, PaidForByOwner, [Next]_vars
  PROVE  PaidForByOwner'
<1> SUFFICES ASSUME NEW s \in Students, subscription'[s].status # "absent"
             PROVE  LET o == subscription'[s].order IN
                    o \in captured' \cap activated' /\ payment'[o].student = s
  BY DEF PaidForByOwner
<1>k. ASSUME NEW o, o \in captured \cap activated, payment[o].student = s
      PROVE  o \in captured' \cap activated' /\ payment'[o].student = s
  BY <1>k, RowsStay DEF OrdersInv, TypeOK
<1>1. CASE subscription'[s].order = subscription[s].order /\ subscription[s].status # "absent"
  BY <1>1, <1>k DEF PaidForByOwner
<1>2. ASSUME NEW w \in Workers, ExpireSubscription(w)
      PROVE  subscription'[s].order = subscription[s].order /\ subscription[s].status # "absent"
  BY <1>2 DEF ExpireSubscription, Expired, TypeOK, SubscriptionRow, RequestsInv, RequestOK
<1>3. ASSUME NEW w \in Workers, SaveActivation(w), s = req[w].student
      PROVE  LET o == subscription'[s].order IN
             o \in captured' \cap activated' /\ payment'[o].student = s
  <2>1. req[w].order \in captured /\ payment[req[w].order].student = s
    BY <1>3 DEF SaveActivation, RequestsInv, RequestOK, Activating
  <2>2. subscription'[s].order = req[w].order
    BY <1>3 DEF SaveActivation, TypeOK
  <2> QED
    BY <1>3, <2>1, <2>2 DEF SaveActivation
<1>4. ASSUME NEW w \in Workers, SaveActivation(w), s # req[w].student
      PROVE  subscription'[s] = subscription[s]
  BY <1>4 DEF SaveActivation, TypeOK
<1>5. \/ \E w \in Workers : ExpireSubscription(w) \/ SaveActivation(w)
      \/ UNCHANGED subscription
  BY DEF Next, vars, AdvanceDay, CreateOrder, CheckSubscription, Decline, Capture,
         PaymentFailedEvent, Deliver, PaymentCaptured, ReportFailure, Serve,
         ActivationError, MarkingError, Crash, InsertOrder, OrderRefused, LockSubscription,
         CreateSubscription, InsertRow, TakeNumber, WriteFailed, CheckHistory,
         AddHistory
<1> QED
  BY <1>1, <1>2, <1>3, <1>4, <1>5

-----------------------------------------------------------------------------
(* The invariant holds in every reachable state.                           *)
LEMMA Invariance == Spec => []IInv
<1>1. Init => IInv
  <2> SUFFICES ASSUME Init PROVE IInv
    OBVIOUS
  <2>1. TypeOK
    BY PaymentsAssumption
    DEF Init, TypeOK, Years, RegNumber, NoNumber, PaymentIds, PaymentRow,
        SubscriptionRow, Idle, Activating, Reporting, PCs, Request
  <2>2. OrdersInv /\ RequestsInv /\ PaidForByOwner
    BY DEF Init, OrdersInv, RequestsInv, RequestOK, PaidForByOwner, Idle, Activating
  <2>3. RowsInv /\ NumbersInv
    BY PaymentsAssumption DEF Init, RowsInv, NumbersInv, NumbersDistinct, NumberOf, Years
  <2> QED
    BY <2>1, <2>2, <2>3 DEF IInv
<1>2. TypeOK /\ TypeOK' /\ IInv /\ [Next]_vars => IInv'
  BY OrdersStep, RowsStep, RequestsStep, NumbersStep, PaidStep DEF IInv
<1> QED
  BY <1>1, <1>2, TypeCorrect, PTL DEF Spec

(* No two students share a registration number.                            *)
THEOREM RegistrationNumbersDistinct == Spec => []NumbersDistinct
<1>1. IInv => NumbersDistinct
  BY DEF IInv, NumbersInv
<1> QED
  BY <1>1, Invariance, PTL

(* The numbers in use in a year are 1 .. last_number, without a gap.       *)
THEOREM RegistrationNumbersGapless == Spec => []NumbersGapless
<1>1. IInv => NumbersGapless
  <2> SUFFICES ASSUME IInv, NEW y \in Years
               PROVE  {NumberOf(s).n : s \in {t \in Students :
                          NumberOf(t) # NoNumber /\ NumberOf(t).year = y}}
                        = 1..sequence[y]
    BY DEF NumbersGapless
  <2>1. \A s \in Students : NumberOf(s) # NoNumber /\ NumberOf(s).year = y =>
          NumberOf(s).n \in 1..sequence[y]
    BY DEF IInv, NumbersInv
  <2>2. ASSUME NEW n \in 1..sequence[y]
        PROVE  \E s \in Students : /\ NumberOf(s) # NoNumber
                                   /\ NumberOf(s).year = y
                                   /\ NumberOf(s).n = n
    <3>1. PICK s \in Students : NumberOf(s) = [year |-> y, n |-> n]
      BY DEF IInv, NumbersInv
    <3>2. n # 0
      BY DEF IInv, TypeOK
    <3> QED
      BY <3>1, <3>2 DEF NoNumber
  <2> QED
    BY <2>1, <2>2
<1> QED
  BY <1>1, Invariance, PTL

(* No subscription without captured money of that student's own order.     *)
THEOREM SubscriptionsPaidForByOwner == Spec => []PaidForByOwner
<1>1. IInv => PaidForByOwner
  BY DEF IInv
<1> QED
  BY <1>1, Invariance, PTL

(* What a request about to end owes to the order it activates: unless it   *)
(* is lost, it leaves a subscription row of the order's student behind.    *)
LEMMA ActivationEnds ==
  ASSUME TypeOK, RequestsInv, [Next]_vars, faults = 0, faults' = 0,
         NEW v \in Workers, req[v].pc \in Activating
  PROVE  \/ req'[v].pc \in Activating /\ req'[v].order = req[v].order
         \/ subscription'[req[v].student].status # "absent"
<1> DEFINE Goal == \/ req'[v].pc \in Activating /\ req'[v].order = req[v].order
                   \/ subscription'[req[v].student].status # "absent"
<1> SUFFICES Goal
  OBVIOUS
<1>s. req[v].student \in Students
  BY DEF RequestsInv, RequestOK, Activating
<1>k. ASSUME req'[v] = req[v] PROVE Goal
  BY <1>k
<1>b. ASSUME NEW w \in Workers, NEW r, Becomes(w, r), v # w
      PROVE  Goal
  BY <1>b, <1>k DEF Becomes, TypeOK
<1>g. ASSUME NEW label \in Activating, Goto(v, label)
      PROVE  Goal
  BY <1>g DEF Goto, Becomes, TypeOK, Request
<1>h. ASSUME NEW label \in Activating, HoldingRow(v, label)
      PROVE  Goal
  BY <1>h DEF HoldingRow, Becomes, TypeOK, Request
<1>1. ASSUME NEW w \in Workers, NEW s \in Students,
             CreateOrder(w, s) \/ CheckSubscription(w, s)
      PROVE  Goal
  BY <1>1, <1>b DEF CreateOrder, CheckSubscription, Activating
<1>2. ASSUME NEW w \in Workers, NEW o \in Orders, PaymentCaptured(w, o)
      PROVE  Goal
  BY <1>2, <1>b, <1>k DEF PaymentCaptured, Activating
<1>3. ASSUME NEW w \in Workers, NEW o \in Orders, NEW ref \in Reports,
             ReportFailure(w, o, ref)
      PROVE  Goal
  BY <1>3, <1>b DEF ReportFailure, Activating
<1>4. ASSUME NEW w \in Workers, ActivationError(w) \/ Crash(w)
      PROVE  FALSE
  BY <1>4 DEF ActivationError, MarkingError, Crash, TypeOK
<1>5. ASSUME NEW w \in Workers, Serve(w)
      PROVE  Goal
  <2>1. CASE w # v
    BY <1>5, <2>1, <1>b
    DEF Serve, ExpireSubscription, InsertOrder, OrderRefused, LockSubscription, Goto,
        HoldingRow, CreateSubscription, InsertRow, TakeNumber, SaveActivation, WriteFailed,
        CheckHistory, AddHistory
  <2>2. CASE w = v
    <3>1. CASE LockSubscription(v)
      BY <3>1, <1>g, <1>h DEF LockSubscription, AfterLock, Activating
    <3>2. CASE CreateSubscription(v)
      <4>1. CASE subscription[req[v].student].status # "absent"
        BY <3>2, <4>1 DEF CreateSubscription, InsertRow
      <4>2. CASE subscription[req[v].student].status = "absent"
        BY <3>2, <4>2, <1>h DEF CreateSubscription, InsertRow, Activating
      <4> QED
        BY <4>1, <4>2
    <3>3. CASE TakeNumber(v)
      BY <3>3 DEF TakeNumber, Becomes, Activating, TypeOK, Request
    <3>4. CASE SaveActivation(v)
      BY <3>4, <1>s DEF SaveActivation, TypeOK
    <3>5. \/ LockSubscription(v) \/ CreateSubscription(v) \/ TakeNumber(v)
          \/ SaveActivation(v)
      BY <1>5, <2>2 DEF Serve, Activating, ExpireSubscription, InsertOrder, OrderRefused,
                        WriteFailed, CheckHistory, AddHistory
    <3> QED
      BY <3>1, <3>2, <3>3, <3>4, <3>5
  <2> QED
    BY <2>1, <2>2
<1>6. ASSUME NEW o \in Orders, Decline(o) \/ Capture(o) \/ PaymentFailedEvent(o) \/ MarkingError(o)
      PROVE  Goal
  BY <1>6, <1>k DEF Decline, Capture, PaymentFailedEvent, MarkingError
<1>7. CASE AdvanceDay \/ UNCHANGED vars
  BY <1>7, <1>k DEF AdvanceDay, vars
<1> HIDE DEF Goal
<1> QED
  BY <1>1, <1>2, <1>3, <1>4, <1>5, <1>6, <1>7 DEF Next, Deliver

LEMMA EnrolledStep ==
  ASSUME TypeOK, OrdersInv, RequestsInv, PaidStudentEnrolled, [Next]_vars
  PROVE  PaidStudentEnrolled'
<1> SUFFICES ASSUME faults' = 0, NEW o \in Orders, payment'[o].status = "success",
                    \A w \in Workers : req'[w].pc \in Activating => req'[w].order # o
             PROVE  subscription'[payment'[o].student].status # "absent"
  BY DEF PaidStudentEnrolled
<1>1. faults = 0
  <2>1. faults' \in {faults, faults + 1}
    BY DEF Next, vars, AdvanceDay, CreateOrder, CheckSubscription, Decline, Capture,
           PaymentFailedEvent, Deliver, PaymentCaptured, ReportFailure, Serve,
           ActivationError, MarkingError, Crash, ExpireSubscription, InsertOrder, OrderRefused,
           LockSubscription, CreateSubscription, InsertRow, TakeNumber, SaveActivation,
           WriteFailed, CheckHistory, AddHistory
  <2> QED
    BY <2>1 DEF TypeOK
<1>2. CASE payment[o].status = "success"
  <2>1. payment[o].student \in Students /\ payment'[o].student = payment[o].student
    BY <1>2, RowsStay DEF OrdersInv
  <2>2. CASE subscription[payment[o].student].status # "absent"
    BY <2>1, <2>2, RowsStay
  <2>3. CASE subscription[payment[o].student].status = "absent"
    <3>1. PICK w \in Workers : req[w].pc \in Activating /\ req[w].order = o
      BY <1>1, <1>2, <2>3 DEF PaidStudentEnrolled
    <3>2. req[w].student = payment[o].student
      BY <3>1 DEF RequestsInv, RequestOK
    <3> QED
      BY <1>1, <2>1, <3>1, <3>2, ActivationEnds
  <2> QED
    BY <2>2, <2>3
<1>3. CASE payment[o].status # "success"
  <2>1. ASSUME NEW w \in Workers, NEW oo \in Orders, PaymentCaptured(w, oo)
        PROVE  FALSE
    <3>1. oo = o /\ ~AlreadySuccess(o)
      BY <1>3, <2>1 DEF PaymentCaptured, TypeOK
    <3>2. req'[w].pc \in Activating /\ req'[w].order = o
      <4> DEFINE r == [Idle EXCEPT !.pc = "lock", !.student = payment[oo].student,
                                   !.order = oo]
      <4>1. r.pc = "lock" /\ r.order = oo
        BY DEF Idle
      <4>2. req'[w] = r
        BY <2>1, <3>1 DEF PaymentCaptured, Becomes, TypeOK
      <4> QED
        BY <3>1, <4>1, <4>2 DEF Activating
    <3> QED
      BY <3>2
  <2>2. ASSUME NEW oo \in Orders, PaymentFailedEvent(oo)
        PROVE  FALSE
    BY <1>3, <2>2 DEF PaymentFailedEvent, TypeOK, PaymentRow
  <2>3. ASSUME NEW w \in Workers, WriteFailed(w)
        PROVE  FALSE
    BY <1>3, <2>3 DEF WriteFailed, TypeOK, PaymentRow
  <2>4. ASSUME NEW w \in Workers, NEW oo \in Orders, InsertOrder(w, oo)
        PROVE  FALSE
    BY <1>3, <2>4 DEF InsertOrder, TypeOK
  <2>5. \/ \E w \in Workers, oo \in Orders : InsertOrder(w, oo) \/ PaymentCaptured(w, oo)
        \/ \E w \in Workers : WriteFailed(w)
        \/ \E oo \in Orders : PaymentFailedEvent(oo)
        \/ UNCHANGED payment
    BY DEF Next, vars, AdvanceDay, CreateOrder, CheckSubscription, Decline, Capture,
           Deliver, ReportFailure, Serve, ActivationError, MarkingError, Crash, ExpireSubscription,
           OrderRefused, LockSubscription, CreateSubscription, InsertRow, TakeNumber,
           SaveActivation, CheckHistory, AddHistory
  <2> QED
    BY <1>3, <2>1, <2>2, <2>3, <2>4, <2>5
<1> QED
  BY <1>2, <1>3

(* Without faults, whoever paid is on record once nobody is at it any more.*)
THEOREM PaidStudentsEnrolled == Spec => []PaidStudentEnrolled
<1>1. Init => PaidStudentEnrolled
  BY DEF Init, PaidStudentEnrolled
<1>2. IInv /\ PaidStudentEnrolled /\ [Next]_vars => PaidStudentEnrolled'
  BY EnrolledStep DEF IInv
<1> QED
  BY <1>1, <1>2, Invariance, PTL DEF Spec

-----------------------------------------------------------------------------
(* A delivery activates an order only when its status is no success, and   *)
(* it makes it one first.  As long as nothing writes over that success, no *)
(* second delivery gets as far.                                            *)
Buys(w, o) == req[w].pc \in Activating /\ req[w].order = o

OnceInv ==
  \A o \in Orders \ overwritten :
    /\ o \in activated \/ (\E w \in Workers : Buys(w, o)) => AlreadySuccess(o)
    /\ \A w \in Workers : Buys(w, o) =>
         o \notin activated /\ \A v \in Workers \ {w} : ~Buys(v, o)
    /\ o \notin twice

(* Any other step leaves an order at most less busy, and its success       *)
(* stands or is recorded as written over.                                  *)
Undisturbed(o) ==
  /\ \A v \in Workers : Buys(v, o)' => Buys(v, o)
  /\ o \in activated' => o \in activated
  /\ o \in twice' => o \in twice
  /\ AlreadySuccess(o) => AlreadySuccess(o)' \/ o \in overwritten'

LEMMA BuyingSteps ==
  ASSUME TypeOK, [Next]_vars, NEW o \in Orders
  PROVE  /\ overwritten \subseteq overwritten'
         /\ \/ Undisturbed(o)
            \/ \E w \in Workers : PaymentCaptured(w, o) /\ ~AlreadySuccess(o)
            \/ \E w \in Workers : SaveActivation(w) /\ req[w].order = o
<1> DEFINE Rest == UNCHANGED <<bought, overwritten, payment>>
           Goal == overwritten \subseteq overwritten' /\ Undisturbed(o)
<1>i. Idle.pc \notin Activating
  BY DEF Idle, Activating
<1>b. ASSUME NEW w \in Workers, NEW r, Becomes(w, r), r.pc \notin Activating
      PROVE  \A v \in Workers : Buys(v, o)' => Buys(v, o)
  BY <1>b DEF Becomes, Buys, TypeOK
<1>g. ASSUME NEW w \in Workers, NEW label, Goto(w, label),
             label \in Activating => req[w].pc \in Activating
      PROVE  \A v \in Workers : Buys(v, o)' => Buys(v, o)
  <2>1. req'[w].pc = label /\ req'[w].order = req[w].order
    BY <1>g DEF Goto, Becomes, TypeOK, Request
  <2>2. \A v \in Workers \ {w} : req'[v] = req[v]
    BY <1>g DEF Goto, Becomes, TypeOK
  <2> QED
    BY <1>g, <2>1, <2>2 DEF Buys
<1>h. ASSUME NEW w \in Workers, NEW label, HoldingRow(w, label), req[w].pc \in Activating
      PROVE  \A v \in Workers : Buys(v, o)' => Buys(v, o)
  <2>1. req'[w].order = req[w].order
    BY <1>h DEF HoldingRow, Becomes, TypeOK, Request
  <2>2. \A v \in Workers \ {w} : req'[v] = req[v]
    BY <1>h DEF HoldingRow, Becomes, TypeOK
  <2> QED
    BY <1>h, <2>1, <2>2 DEF Buys
<1>u. ASSUME Rest, \A v \in Workers : Buys(v, o)' => Buys(v, o)
      PROVE  Goal
  BY <1>u DEF bought, Undisturbed, AlreadySuccess
<1>1. ASSUME \/ AdvanceDay \/ UNCHANGED vars
             \/ \E oo \in Orders : Decline(oo) \/ Capture(oo) \/ MarkingError(oo)
      PROVE  Goal
  BY <1>1, <1>u DEF AdvanceDay, vars, bought, Decline, Capture, MarkingError, Buys
<1>2. ASSUME NEW w \in Workers, NEW s \in Students, CreateOrder(w, s) \/ CheckSubscription(w, s)
      PROVE  Goal
  <2>1. PICK x \in {"expire", "expireThenOrder", "insert"} :
          Becomes(w, [Idle EXCEPT !.pc = x, !.student = s])
    BY <1>2 DEF CreateOrder, CheckSubscription
  <2>2. [Idle EXCEPT !.pc = x, !.student = s].pc \notin Activating
    BY DEF Idle, Activating
  <2>3. Rest
    BY <1>2 DEF CreateOrder, CheckSubscription, bought
  <2> HIDE DEF Goal, Rest
  <2> QED
    BY <2>1, <2>2, <2>3, <1>b, <1>u
<1>3. ASSUME NEW oo \in Orders, PaymentFailedEvent(oo) PROVE Goal
  <2>1. \A v \in Workers : Buys(v, o)' => Buys(v, o)
    BY <1>3 DEF PaymentFailedEvent, Buys
  <2>2. AlreadySuccess(o) => AlreadySuccess(o)'
    BY <1>3 DEF PaymentFailedEvent, MayFail, AlreadySuccess, TypeOK
  <2> QED
    BY <1>3, <2>1, <2>2 DEF PaymentFailedEvent, bought, Undisturbed
<1>4. ASSUME NEW w \in Workers, NEW oo \in Orders, PaymentCaptured(w, oo)
      PROVE  Goal \/ (PaymentCaptured(w, o) /\ ~AlreadySuccess(o))
  <2>1. CASE AlreadySuccess(oo)
    BY <1>4, <2>1 DEF PaymentCaptured, bought, Undisturbed, AlreadySuccess, Buys
  <2>2. CASE ~AlreadySuccess(oo) /\ oo # o
    <3> DEFINE r == [Idle EXCEPT !.pc = "lock", !.student = payment[oo].student, !.order = oo]
    <3>1. r.order = oo
      BY DEF Idle
    <3>2. Becomes(w, r)
      BY <1>4, <2>2 DEF PaymentCaptured
    <3> HIDE DEF r
    <3>3. \A v \in Workers : Buys(v, o)' => Buys(v, o)
      BY <2>2, <3>1, <3>2 DEF Becomes, Buys, TypeOK
    <3>4. AlreadySuccess(o) => AlreadySuccess(o)'
      BY <1>4, <2>2 DEF PaymentCaptured, AlreadySuccess, TypeOK
    <3> QED
      BY <1>4, <3>3, <3>4 DEF PaymentCaptured, bought, Undisturbed
  <2> QED
    BY <1>4, <2>1, <2>2
<1>5. ASSUME NEW w \in Workers, NEW oo \in Orders, NEW ref \in Reports, ReportFailure(w, oo, ref)
      PROVE  Goal
  <2> DEFINE r == [Idle EXCEPT !.pc = "writeFailed", !.student = payment[oo].student,
                               !.order = oo, !.ref = ref]
  <2>1. Becomes(w, r) /\ Rest
    BY <1>5 DEF ReportFailure, bought
  <2>2. r.pc \notin Activating
    BY DEF Idle, Activating
  <2> HIDE DEF Goal, Rest, r
  <2> QED
    BY <2>1, <2>2, <1>b, <1>u
<1>6. ASSUME NEW w \in Workers, ActivationError(w) \/ Crash(w) PROVE Goal
  BY <1>6, <1>i, <1>b, <1>u DEF ActivationError, Crash, bought
<1>7. ASSUME NEW w \in Workers, Serve(w)
      PROVE  Goal \/ (SaveActivation(w) /\ req[w].order = o)
  <2>1. CASE ExpireSubscription(w) \/ CheckHistory(w)
    <3>1. Becomes(w, Idle) \/ Goto(w, "insert") \/ Goto(w, "addHistory")
      BY <2>1 DEF ExpireSubscription, CheckHistory
    <3>2. Rest
      BY <2>1 DEF ExpireSubscription, CheckHistory, bought
    <3>3. "insert" \notin Activating /\ "addHistory" \notin Activating
      BY DEF Activating
    <3> HIDE DEF Goal, Rest
    <3> QED
      BY <3>1, <3>2, <3>3, <1>i, <1>b, <1>g, <1>u
  <2>2. CASE OrderRefused(w) \/ AddHistory(w)
    BY <2>2, <1>i, <1>b, <1>u DEF OrderRefused, AddHistory, bought
  <2>3. ASSUME NEW oo \in Orders, InsertOrder(w, oo) PROVE Goal
    <3>1. \A v \in Workers : Buys(v, o)' => Buys(v, o)
      BY <2>3, <1>i, <1>b DEF InsertOrder
    <3>2. AlreadySuccess(o) => AlreadySuccess(o)'
      BY <2>3 DEF InsertOrder, AlreadySuccess, TypeOK
    <3> QED
      BY <2>3, <3>1, <3>2 DEF InsertOrder, bought, Undisturbed
  <2>4. CASE LockSubscription(w) \/ CreateSubscription(w)
    <3>1. req[w].pc \in Activating
      BY <2>4 DEF LockSubscription, CreateSubscription, InsertRow, Activating
    <3>2. Becomes(w, Idle) \/ Goto(w, "create") \/ \E x : HoldingRow(w, x)
      BY <2>4 DEF LockSubscription, CreateSubscription, InsertRow
    <3>3. Rest
      BY <2>4 DEF LockSubscription, CreateSubscription, InsertRow, bought
    <3> HIDE DEF Goal, Rest
    <3> QED
      BY <3>1, <3>2, <3>3, <1>i, <1>b, <1>g, <1>h, <1>u
  <2>5. CASE TakeNumber(w)
    <3>1. /\ req'[w].order = req[w].order /\ req[w].pc \in Activating
          /\ \A v \in Workers \ {w} : req'[v] = req[v]
      BY <2>5 DEF TakeNumber, Becomes, TypeOK, Request, Activating
    <3>2. \A v \in Workers : Buys(v, o)' => Buys(v, o)
      BY <3>1 DEF Buys
    <3> QED
      BY <2>5, <3>2, <1>u DEF TakeNumber, bought
  <2>6. CASE SaveActivation(w) /\ req[w].order # o
    <3>1. \A v \in Workers : Buys(v, o)' => Buys(v, o)
      BY <2>6, <1>i, <1>b DEF SaveActivation
    <3> QED
      BY <2>6, <3>1 DEF SaveActivation, Undisturbed, AlreadySuccess
  <2>7. CASE WriteFailed(w)
    <3>1. \A v \in Workers : Buys(v, o)' => Buys(v, o)
      BY <2>7, <1>g DEF WriteFailed, Activating
    <3>2. AlreadySuccess(o) => AlreadySuccess(o)' \/ o \in overwritten'
      BY <2>7 DEF WriteFailed, AlreadySuccess, TypeOK
    <3> QED
      BY <2>7, <3>1, <3>2 DEF WriteFailed, bought, Undisturbed
  <2> HIDE DEF Goal
  <2> QED
    BY <1>7, <2>1, <2>2, <2>3, <2>4, <2>5, <2>6, <2>7 DEF Serve
<1>8. ASSUME NEW w \in Workers, SaveActivation(w) PROVE overwritten \subseteq overwritten'
  BY <1>8 DEF SaveActivation
<1>9. ASSUME NEW w \in Workers, PaymentCaptured(w, o) PROVE overwritten \subseteq overwritten'
  BY <1>9 DEF PaymentCaptured
<1> HIDE DEF Goal
<1>10. \/ Goal
       \/ \E w \in Workers : PaymentCaptured(w, o) /\ ~AlreadySuccess(o)
       \/ \E w \in Workers : SaveActivation(w) /\ req[w].order = o
  <2>1. CASE \E w \in Workers, s \in Students : CreateOrder(w, s) \/ CheckSubscription(w, s)
    BY <2>1, <1>2
  <2>2. CASE \E oo \in Orders : PaymentFailedEvent(oo)
    BY <2>2, <1>3
  <2>3. CASE \E oo \in Orders, w \in Workers : PaymentCaptured(w, oo)
    BY <2>3, <1>4
  <2>4. CASE \E w \in Workers, oo \in Orders, ref \in Reports : ReportFailure(w, oo, ref)
    BY <2>4, <1>5
  <2>5. CASE \E w \in Workers : ActivationError(w) \/ Crash(w)
    BY <2>5, <1>6
  <2>6. CASE \E w \in Workers : Serve(w)
    BY <2>6, <1>7
  <2>7. \/ AdvanceDay \/ UNCHANGED vars
        \/ \E oo \in Orders : Decline(oo) \/ Capture(oo) \/ MarkingError(oo)
        \/ \E w \in Workers, s \in Students : CreateOrder(w, s) \/ CheckSubscription(w, s)
        \/ \E oo \in Orders : PaymentFailedEvent(oo)
        \/ \E oo \in Orders, w \in Workers : PaymentCaptured(w, oo)
        \/ \E w \in Workers, oo \in Orders, ref \in Reports : ReportFailure(w, oo, ref)
        \/ \E w \in Workers : ActivationError(w) \/ Crash(w)
        \/ \E w \in Workers : Serve(w)
    BY Zenon DEF Next, Deliver
  <2> QED
    BY <2>1, <2>2, <2>3, <2>4, <2>5, <2>6, <2>7, <1>1
<1> QED
  BY <1>8, <1>9, <1>10 DEF Goal

LEMMA OnceStep == ASSUME TypeOK, OnceInv, [Next]_vars PROVE OnceInv'
<1> SUFFICES ASSUME NEW o \in Orders, o \notin overwritten'
             PROVE  /\ o \in activated' \/ (\E w \in Workers : Buys(w, o)') => AlreadySuccess(o)'
                    /\ \A w \in Workers : Buys(w, o)' =>
                         o \notin activated' /\ \A v \in Workers \ {w} : ~Buys(v, o)'
                    /\ o \notin twice'
  BY DEF OnceInv
<1>1. /\ o \notin overwritten
      /\ \/ Undisturbed(o)
         \/ \E w \in Workers : PaymentCaptured(w, o) /\ ~AlreadySuccess(o)
         \/ \E w \in Workers : SaveActivation(w) /\ req[w].order = o
  BY BuyingSteps
<1>2. /\ o \in activated \/ (\E w \in Workers : Buys(w, o)) => AlreadySuccess(o)
      /\ \A w \in Workers : Buys(w, o) =>
           o \notin activated /\ \A v \in Workers \ {w} : ~Buys(v, o)
      /\ o \notin twice
  BY <1>1 DEF OnceInv
<1>3. CASE Undisturbed(o)
  BY <1>2, <1>3 DEF Undisturbed
<1>4. ASSUME NEW w \in Workers, PaymentCaptured(w, o), ~AlreadySuccess(o)
      PROVE  /\ AlreadySuccess(o)' /\ o \notin activated' /\ o \notin twice'
             /\ \A v \in Workers \ {w} : ~Buys(v, o)'
  BY <1>2, <1>4 DEF PaymentCaptured, AlreadySuccess, Becomes, bought, Buys, TypeOK, PaymentRow
<1>5. ASSUME NEW w \in Workers, SaveActivation(w), req[w].order = o
      PROVE  /\ AlreadySuccess(o)' /\ o \notin twice'
             /\ \A v \in Workers : ~Buys(v, o)'
  <2>1. Buys(w, o)
    BY <1>5 DEF SaveActivation, Buys, Activating
  <2>2. AlreadySuccess(o) /\ o \notin activated /\ \A v \in Workers \ {w} : ~Buys(v, o)
    BY <1>2, <2>1
  <2>3. req'[w].pc = "idle" /\ \A v \in Workers \ {w} : req'[v] = req[v]
    BY <1>5 DEF SaveActivation, Becomes, Idle, TypeOK
  <2> QED
    BY <1>2, <1>5, <2>2, <2>3 DEF SaveActivation, AlreadySuccess, Buys, Activating
<1> QED
  BY <1>1, <1>3, <1>4, <1>5

(* A payment buys a second period only after a failure report has written  *)
(* over its success, however often its event is delivered and however many *)
(* deliveries, failure events, errors and kills overlap.                   *)
THEOREM PaymentsBuyOnce == Spec => []BoughtOnce
<1>1. Init => OnceInv
  BY DEF Init, OnceInv, Buys, Idle, Activating
<1>2. TypeOK /\ OnceInv /\ [Next]_vars => OnceInv'
  BY OnceStep
<1>3. TypeOK /\ OnceInv => BoughtOnce
  BY DEF TypeOK, OnceInv, BoughtOnce
<1> QED
  BY <1>1, <1>2, <1>3, TypeCorrect, PTL DEF Spec

-----------------------------------------------------------------------------
(* A failed PaymentHistory row is promised by every request that has seen  *)
(* none; the rows and the promises together never exceed the workers.      *)
Adders(k) == {w \in Workers : req[w].pc = "addHistory" /\ HistoryKey(w) = k}

TallyInv == \A k \in HistoryKeys :
              history[k] + Cardinality(Adders(k)) <= Cardinality(Workers)

LEMMA AddersFinite ==
  ASSUME NEW k
  PROVE  /\ IsFiniteSet(Adders(k)) /\ Cardinality(Adders(k)) \in Nat
         /\ Cardinality(Workers) \in Nat
         /\ Cardinality(Adders(k)) <= Cardinality(Workers)
<1>1. Adders(k) \subseteq Workers
  BY DEF Adders
<1> QED
  BY <1>1, PaymentsAssumption, FS_Subset, FS_CardinalityType

(* A step adds no promise, makes one when it has found no row, or redeems  *)
(* its own.                                                                *)
LEMMA HistorySteps ==
  ASSUME TypeOK, [Next]_vars
  PROVE  \/ /\ history' = history
            /\ \A v \in Workers : req'[v].pc = "addHistory" => req'[v] = req[v]
         \/ \E w \in Workers :
              /\ history' = history /\ history[HistoryKey(w)] = 0
              /\ req'[w].ref = req[w].ref /\ req'[w].order = req[w].order
              /\ \A v \in Workers \ {w} : req'[v] = req[v]
         \/ \E w \in Workers :
              /\ w \in Adders(HistoryKey(w))
              /\ history' = [history EXCEPT ![HistoryKey(w)] = @ + 1]
              /\ req'[w].pc = "idle"
              /\ \A v \in Workers \ {w} : req'[v] = req[v]
<1> DEFINE Still == /\ history' = history
                    /\ \A v \in Workers : req'[v].pc = "addHistory" => req'[v] = req[v]
<1>b. ASSUME NEW w \in Workers, NEW r, Becomes(w, r)
      PROVE  req'[w] = r /\ \A v \in Workers \ {w} : req'[v] = req[v]
  BY <1>b DEF Becomes, TypeOK
<1>s. ASSUME NEW w \in Workers, NEW r, Becomes(w, r), r.pc # "addHistory",
             history' = history
      PROVE  Still
  BY <1>s, <1>b
<1>i. Idle.pc = "idle"
  BY DEF Idle
<1>g. ASSUME NEW w \in Workers, NEW label, Goto(w, label)
      PROVE  /\ req'[w].pc = label /\ req'[w].ref = req[w].ref
             /\ req'[w].order = req[w].order
             /\ \A v \in Workers \ {w} : req'[v] = req[v]
  BY <1>g DEF Goto, Becomes, TypeOK, Request
<1>l. ASSUME NEW w \in Workers, NEW label, Goto(w, label), label # "addHistory",
             history' = history
      PROVE  Still
  BY <1>l, <1>g
<1>h. ASSUME NEW w \in Workers, NEW label, HoldingRow(w, label), label # "addHistory",
             history' = history
      PROVE  Still
  <2>1. req'[w].pc = label /\ \A v \in Workers \ {w} : req'[v] = req[v]
    BY <1>h DEF HoldingRow, Becomes, TypeOK, Request
  <2> QED
    BY <1>h, <2>1
<1>1. ASSUME AdvanceDay \/ UNCHANGED vars
      PROVE  Still
  BY <1>1 DEF AdvanceDay, vars
<1>2. ASSUME NEW w \in Workers, NEW s \in Students, CreateOrder(w, s)
      PROVE  Still
  <2> DEFINE r == [Idle EXCEPT !.pc = IF Lapsed(s) THEN "expireThenOrder" ELSE "insert",
                               !.student = s]
  <2>1. Becomes(w, r) /\ history' = history
    BY <1>2 DEF CreateOrder
  <2>2. r.pc # "addHistory"
    BY DEF Idle
  <2> HIDE DEF Still, r
  <2> QED
    BY <2>1, <2>2, <1>s
<1>3. ASSUME NEW w \in Workers, NEW s \in Students, CheckSubscription(w, s)
      PROVE  Still
  <2> DEFINE r == [Idle EXCEPT !.pc = "expire", !.student = s]
  <2>1. Becomes(w, r) /\ history' = history
    BY <1>3 DEF CheckSubscription
  <2>2. r.pc # "addHistory"
    BY DEF Idle
  <2> HIDE DEF Still, r
  <2> QED
    BY <2>1, <2>2, <1>s
<1>4. ASSUME NEW o \in Orders, Decline(o) \/ Capture(o) \/ PaymentFailedEvent(o) \/ MarkingError(o)
      PROVE  Still
  BY <1>4 DEF Decline, Capture, PaymentFailedEvent, MarkingError
<1>5. ASSUME NEW w \in Workers, NEW o \in Orders, PaymentCaptured(w, o)
      PROVE  Still
  <2>1. CASE AlreadySuccess(o)
    BY <1>5, <2>1 DEF PaymentCaptured
  <2>2. CASE ~AlreadySuccess(o)
    <3> DEFINE r == [Idle EXCEPT !.pc = "lock", !.student = payment[o].student,
                                 !.order = o]
    <3>1. Becomes(w, r) /\ history' = history
      BY <1>5, <2>2 DEF PaymentCaptured
    <3>2. r.pc # "addHistory"
      BY DEF Idle
    <3> HIDE DEF Still, r
    <3> QED
      BY <3>1, <3>2, <1>s
  <2> QED
    BY <2>1, <2>2
<1>6. ASSUME NEW w \in Workers, NEW o \in Orders, NEW ref \in Reports,
             ReportFailure(w, o, ref)
      PROVE  Still
  <2> DEFINE r == [Idle EXCEPT !.pc = "writeFailed", !.student = payment[o].student,
                               !.order = o, !.ref = ref]
  <2>1. Becomes(w, r) /\ history' = history
    BY <1>6 DEF ReportFailure
  <2>2. r.pc # "addHistory"
    BY DEF Idle
  <2> HIDE DEF Still, r
  <2> QED
    BY <2>1, <2>2, <1>s
<1>7. ASSUME NEW w \in Workers, ActivationError(w) \/ Crash(w)
      PROVE  Still
  BY <1>7, <1>i, <1>s DEF ActivationError, Crash
<1>8. ASSUME NEW w \in Workers,
             \/ ExpireSubscription(w) \/ OrderRefused(w) \/ LockSubscription(w)
             \/ CreateSubscription(w) \/ SaveActivation(w) \/ WriteFailed(w)
             \/ \E o \in Orders : InsertOrder(w, o)
      PROVE  Still
  <2>1. history' = history
    BY <1>8 DEF ExpireSubscription, OrderRefused, LockSubscription, CreateSubscription,
                InsertRow, SaveActivation, WriteFailed, InsertOrder
  <2>2. \/ Becomes(w, Idle)
        \/ \E label \in {"insert", "create", "number", "save", "checkHistory"} :
             Goto(w, label) \/ HoldingRow(w, label)
    BY <1>8 DEF ExpireSubscription, OrderRefused, LockSubscription, CreateSubscription,
                InsertRow, SaveActivation, WriteFailed, InsertOrder, AfterLock
  <2> HIDE DEF Still
  <2> QED
    BY <2>1, <2>2, <1>i, <1>s, <1>l, <1>h
<1>9. ASSUME NEW w \in Workers, TakeNumber(w)
      PROVE  Still
  <2>1. /\ req'[w].pc = "save" /\ history' = history
        /\ \A v \in Workers \ {w} : req'[v] = req[v]
    BY <1>9 DEF TakeNumber, Becomes, TypeOK, Request
  <2> QED
    BY <2>1
<1>10. ASSUME NEW w \in Workers, CheckHistory(w)
       PROVE  \/ Still
              \/ /\ history' = history /\ history[HistoryKey(w)] = 0
                 /\ req'[w].ref = req[w].ref /\ req'[w].order = req[w].order
                 /\ \A v \in Workers \ {w} : req'[v] = req[v]
  <2>1. history' = history
    BY <1>10 DEF CheckHistory
  <2>2. CASE HistoryEmpty(HistoryKey(w))
    <3>1. Goto(w, "addHistory")
      BY <1>10, <2>2 DEF CheckHistory
    <3> QED
      BY <2>1, <2>2, <3>1, <1>g DEF HistoryEmpty
  <2>3. CASE ~HistoryEmpty(HistoryKey(w))
    <3>1. Becomes(w, Idle)
      BY <1>10, <2>3 DEF CheckHistory
    <3> HIDE DEF Still
    <3> QED
      BY <2>1, <3>1, <1>i, <1>s
  <2> QED
    BY <2>2, <2>3
<1>11. ASSUME NEW w \in Workers, AddHistory(w)
       PROVE  /\ w \in Adders(HistoryKey(w))
              /\ history' = [history EXCEPT ![HistoryKey(w)] = @ + 1]
              /\ req'[w].pc = "idle"
              /\ \A v \in Workers \ {w} : req'[v] = req[v]
  BY <1>11, <1>b, <1>i DEF AddHistory, Adders
<1>12. ASSUME NEW w \in Workers, Serve(w)
       PROVE  Still \/ CheckHistory(w) \/ AddHistory(w)
  BY <1>8, <1>9, <1>12 DEF Serve
<1> HIDE DEF Still
<1>13. \/ Still
       \/ \E w \in Workers : CheckHistory(w) \/ AddHistory(w)
  BY <1>1, <1>2, <1>3, <1>4, <1>5, <1>6, <1>7, <1>12 DEF Next, Deliver
<1> QED
  BY <1>13, <1>10, <1>11 DEF Still

LEMMA TallyStep ==
  ASSUME TypeOK, TallyInv, [Next]_vars
  PROVE  TallyInv'
<1> SUFFICES ASSUME NEW k \in HistoryKeys
             PROVE  history'[k] + Cardinality(Adders(k)') <= Cardinality(Workers)
  BY DEF TallyInv
<1>h. history[k] \in Nat
  BY DEF TypeOK
<1>c. /\ IsFiniteSet(Adders(k)) /\ Cardinality(Adders(k)) \in Nat
      /\ Cardinality(Workers) \in Nat
      /\ history[k] + Cardinality(Adders(k)) <= Cardinality(Workers)
  BY AddersFinite DEF TallyInv
<1>w. /\ IsFiniteSet(Adders(k)') /\ Cardinality(Adders(k)') \in Nat
      /\ Cardinality(Adders(k)') <= Cardinality(Workers)
  <2>1. Adders(k)' \subseteq Workers
    BY DEF Adders
  <2> QED
    BY <2>1, PaymentsAssumption, FS_Subset, FS_CardinalityType
<1>d. ASSUME Adders(k)' \subseteq Adders(k), history'[k] = history[k]
      PROVE  history'[k] + Cardinality(Adders(k)') <= Cardinality(Workers)
  <2>1. Cardinality(Adders(k)') <= Cardinality(Adders(k))
    BY <1>c, <1>d, FS_Subset
  <2> HIDE DEF Adders
  <2> QED
    BY <2>1, <1>c, <1>d, <1>h, <1>w
<1>k. ASSUME NEW v \in Workers, req'[v] = req[v], v \in Adders(k)'
      PROVE  v \in Adders(k)
  BY <1>k DEF Adders, HistoryKey
<1>1. CASE /\ history' = history
           /\ \A v \in Workers : req'[v].pc = "addHistory" => req'[v] = req[v]
  <2>1. Adders(k)' \subseteq Adders(k)
    BY <1>1 DEF Adders, HistoryKey
  <2> QED
    BY <1>1, <1>d, <2>1
<1>2. ASSUME NEW w \in Workers, history' = history, history[HistoryKey(w)] = 0,
             req'[w].ref = req[w].ref, req'[w].order = req[w].order,
             \A v \in Workers \ {w} : req'[v] = req[v]
      PROVE  history'[k] + Cardinality(Adders(k)') <= Cardinality(Workers)
  <2>1. CASE HistoryKey(w) = k
    <3>1. history'[k] = 0
      BY <1>2, <2>1
    <3> HIDE DEF Adders
    <3> QED
      BY <3>1, <1>w, <1>c
  <2>2. CASE HistoryKey(w) # k
    <3>1. Adders(k)' \subseteq Adders(k)
      BY <1>2, <2>2 DEF Adders, HistoryKey
    <3> QED
      BY <1>2, <1>d, <3>1
  <2> QED
    BY <2>1, <2>2
<1>3. ASSUME NEW w \in Workers, w \in Adders(HistoryKey(w)),
             history' = [history EXCEPT ![HistoryKey(w)] = @ + 1],
             req'[w].pc = "idle",
             \A v \in Workers \ {w} : req'[v] = req[v]
      PROVE  history'[k] + Cardinality(Adders(k)') <= Cardinality(Workers)
  <2>0. Adders(k)' \subseteq Adders(k) \ {w}
    BY <1>3 DEF Adders, HistoryKey
  <2>1. CASE HistoryKey(w) = k
    <3>1. w \in Adders(k) /\ history'[k] = history[k] + 1
      BY <1>3, <2>1 DEF TypeOK
    <3>2. Cardinality(Adders(k) \ {w}) = Cardinality(Adders(k)) - 1
      BY <3>1, <1>c, FS_RemoveElement
    <3>3. Cardinality(Adders(k)') <= Cardinality(Adders(k) \ {w})
      BY <2>0, <1>c, FS_Subset, FS_RemoveElement
    <3> DEFINE a == Cardinality(Adders(k))
               b == Cardinality(Adders(k)')
    <3>4. b <= a - 1 /\ a \in Nat /\ b \in Nat
      BY <3>2, <3>3, <1>c, <1>w
    <3>5. history[k] + a <= Cardinality(Workers) /\ Cardinality(Workers) \in Nat
      BY <1>c
    <3> HIDE DEF a, b
    <3>6. history'[k] + b <= Cardinality(Workers)
      BY <3>1, <3>4, <3>5, <1>h
    <3> QED
      BY <3>6 DEF b
  <2>2. CASE HistoryKey(w) # k
    BY <1>3, <1>d, <2>0, <2>2 DEF TypeOK
  <2> QED
    BY <2>1, <2>2
<1> QED
  BY <1>1, <1>2, <1>3, HistorySteps

(* However failure reports overlap, a payment id gets no more failed rows  *)
(* than there are workers.                                                 *)
THEOREM FailureRowsBounded == Spec => []DuplicatesBounded
<1>1. Init => TallyInv
  <2> SUFFICES ASSUME Init, NEW k \in HistoryKeys
               PROVE  history[k] + Cardinality(Adders(k)) <= Cardinality(Workers)
    BY DEF TallyInv
  <2>1. history[k] = 0
    BY DEF Init
  <2> QED
    BY <2>1, AddersFinite
<1>2. TypeOK /\ TallyInv /\ [Next]_vars => TallyInv'
  BY TallyStep
<1>3. TypeOK /\ TallyInv => DuplicatesBounded
  <2> SUFFICES ASSUME TypeOK, TallyInv, NEW k \in HistoryKeys
               PROVE  history[k] <= Cardinality(Workers)
    BY DEF DuplicatesBounded
  <2>1. history[k] \in Nat /\ history[k] + Cardinality(Adders(k)) <= Cardinality(Workers)
    BY DEF TypeOK, TallyInv
  <2>2. Cardinality(Adders(k)) \in Nat /\ Cardinality(Workers) \in Nat
    BY AddersFinite
  <2> QED
    BY <2>1, <2>2
<1> QED
  BY <1>1, <1>2, <1>3, TypeCorrect, PTL DEF Spec

(* A registration number is for life.                                      *)
THEOREM RegistrationNumberIsForLife == Spec => NumberIsForLife
<1>1. IInv /\ [Next]_vars =>
        [\A s \in Students : NumberOf(s) # NoNumber => NumberOf(s)' = NumberOf(s)]_vars
  BY RegisterStep DEF IInv, NumberOf
<1> QED
  BY <1>1, Invariance, PTL DEF Spec, NumberIsForLife

(* Nothing moves an expiry date back.                                      *)
THEOREM ExpiryMovesForward == Spec => ExpiryNeverMovesBack
<1>1. IInv /\ TypeOK' /\ [Next]_vars =>
        [\A s \in Students : subscription[s].expiry <= subscription'[s].expiry]_vars
  BY RowsStep DEF IInv
<1> QED
  BY <1>1, Invariance, TypeCorrect, PTL DEF Spec, ExpiryNeverMovesBack

(* The activation transactions, cut into their statements and mixed with   *)
(* crashes, errors and lazy expiries, implement the register that issues   *)
(* each number in one step.                                                *)
THEOREM RegisterImplemented == Spec => ImplementsRegister
<1>1. Init => Register!RegisterInit
  BY DEF Init, Register!RegisterInit, NumberOf, NoNumber, Register!NoNumber
<1>2. IInv /\ [Next]_vars => [Register!RegisterNext]_Register!registerVars
  <2> SUFFICES ASSUME IInv, [Next]_vars
               PROVE  [Register!RegisterNext]_Register!registerVars
    OBVIOUS
  <2> DEFINE number == [s \in Students |-> NumberOf(s)]
  <2>1. CASE /\ \A s \in Students : subscription'[s].number = subscription[s].number
             /\ sequence' = sequence
    <3>1. number' = number
      BY <2>1 DEF NumberOf
    <3> QED
      BY <2>1, <3>1 DEF Register!registerVars
  <2>2. ASSUME NEW s \in Students, NEW y \in Years,
               NumberOf(s) = NoNumber,
               sequence' = [sequence EXCEPT ![y] = @ + 1],
               subscription'[s].number = [year |-> y, n |-> sequence[y] + 1],
               \A t \in Students \ {s} :
                 subscription'[t].number = subscription[t].number
        PROVE  Register!Issue(s, y)
    <3>1. number' = [number EXCEPT ![s] = [year |-> y, n |-> sequence[y] + 1]]
      BY <2>2 DEF NumberOf
    <3>2. number[s] = Register!NoNumber
      BY <2>2 DEF NoNumber, Register!NoNumber
    <3> QED
      BY <2>2, <3>1, <3>2 DEF Register!Issue
  <2> QED
    BY <2>1, <2>2, RegisterStep DEF IInv, Register!RegisterNext
<1> QED
  BY <1>1, <1>2, Invariance, PTL DEF Spec, ImplementsRegister, Register!RegisterSpec
(***************************************************************************)
(* The locks of an activation lead somewhere.                              *)
(***************************************************************************)

(* A request holds no lock but its student's row, from the SELECT or the   *)
(* INSERT on, and a year of the register until it has saved.               *)
Owned(w) ==
  /\ \A s \in Students : rowLock[s] = w =>
       req[w].student = s /\ req[w].pc \in {"number", "save"}
  /\ \A y \in Years : yearLock[y] = w => req[w].pc = "save"

AllOwned == \A w \in Workers : Owned(w)

LEMMA OwnedOthers ==
  ASSUME AllOwned, NEW v \in Workers, req'[v] = req[v],
         \A s \in Students : rowLock'[s] = v => rowLock[s] = v,
         \A y \in Years : yearLock'[y] = v => yearLock[y] = v
  PROVE  Owned(v)'
BY DEF AllOwned, Owned

(* Without a lock a request may go on as it likes. *)
LEMMA OwnedFree ==
  ASSUME AllOwned, NEW w \in Workers, req[w].pc \notin {"number", "save"},
         UNCHANGED locks, \A v \in Workers \ {w} : req'[v] = req[v]
  PROVE  AllOwned'
<1> SUFFICES ASSUME NEW v \in Workers PROVE Owned(v)'
  BY DEF AllOwned
<1>1. CASE v = w
  BY <1>1 DEF AllOwned, Owned, locks
<1>2. CASE v # w
  BY <1>2, OwnedOthers DEF locks
<1> QED
  BY <1>1, <1>2

LEMMA OwnedReleased ==
  ASSUME TypeOK, AllOwned, NEW w \in Workers, ReleaseLocks(w),
         \A v \in Workers \ {w} : req'[v] = req[v]
  PROVE  AllOwned'
<1> SUFFICES ASSUME NEW v \in Workers PROVE Owned(v)'
  BY DEF AllOwned
<1>n. None \notin Workers
  BY PaymentsAssumption
<1>1. CASE v = w
  BY <1>1, <1>n DEF ReleaseLocks, Owned, TypeOK
<1>2. CASE v # w
  <2>1. \A s \in Students : rowLock'[s] = v => rowLock[s] = v
    BY <1>n DEF ReleaseLocks, TypeOK
  <2>2. \A y \in Years : yearLock'[y] = v => yearLock[y] = v
    BY <1>n DEF ReleaseLocks, TypeOK
  <2> QED
    BY <1>2, <2>1, <2>2, OwnedOthers
<1> QED
  BY <1>1, <1>2

(* The student's row, taken by LockSubscription or CreateSubscription. *)
LEMMA OwnedRow ==
  ASSUME TypeOK, AllOwned, NEW w \in Workers, NEW label \in {"number", "save"},
         req[w].pc \in {"lock", "create"},
         rowLock' = [rowLock EXCEPT ![req[w].student] = w], yearLock' = yearLock,
         HoldingRow(w, label)
  PROVE  AllOwned'
<1> SUFFICES ASSUME NEW v \in Workers PROVE Owned(v)'
  BY DEF AllOwned
<1>1. req'[w].pc = label /\ req'[w].student = req[w].student
  BY DEF HoldingRow, Becomes, TypeOK, Request
<1>2. v # w => req'[v] = req[v]
  BY DEF HoldingRow, Becomes, TypeOK
<1>3. \A s \in Students : s # req[w].student => rowLock'[s] = rowLock[s]
  BY DEF TypeOK
<1>4. \A s \in Students : s = req[w].student => rowLock'[s] = w
  BY DEF TypeOK
<1>5. \A s \in Students : rowLock[s] # w
  BY DEF AllOwned, Owned
<1>6. \A y \in Years : yearLock[y] # w
  BY DEF AllOwned, Owned
<1>7. CASE v = w
  BY <1>1, <1>3, <1>5, <1>6, <1>7 DEF Owned
<1>8. CASE v # w
  <2>1. \A s \in Students : rowLock'[s] = v => rowLock[s] = v
    BY <1>3, <1>4, <1>8
  <2> QED
    BY <1>2, <1>8, <2>1, OwnedOthers
<1> QED
  BY <1>7, <1>8

LEMMA OwnedYear ==
  ASSUME TypeOK, AllOwned, NEW w \in Workers, TakeNumber(w)
  PROVE  AllOwned'
<1> SUFFICES ASSUME NEW v \in Workers PROVE Owned(v)'
  BY DEF AllOwned
<1> DEFINE y == req[w].year
           r == [req[w] EXCEPT !.pc = "save", !.number = [year |-> y, n |-> sequence[y] + 1]]
<1>1. r.pc = "save" /\ r.student = req[w].student
  BY DEF TypeOK, Request
<1>2. req'[w] = r /\ (v # w => req'[v] = req[v])
  BY DEF TakeNumber, Becomes, TypeOK
<1>3. rowLock' = rowLock /\ yearLock' = [yearLock EXCEPT ![y] = w]
  BY DEF TakeNumber
<1> HIDE DEF r
<1>4. CASE v = w
  <2>1. \A s \in Students : rowLock[s] = w => req[w].student = s
    BY DEF AllOwned, Owned
  <2> QED
    BY <1>1, <1>2, <1>3, <1>4, <2>1 DEF Owned
<1>5. CASE v # w
  <2>1. \A z \in Years : yearLock'[z] = v => yearLock[z] = v
    BY <1>3, <1>5 DEF TypeOK
  <2> QED
    BY <1>2, <1>3, <1>5, <2>1, OwnedOthers
<1> QED
  BY <1>4, <1>5

LEMMA OwnedStep == TypeOK /\ AllOwned /\ [Next]_vars => AllOwned'
<1> SUFFICES ASSUME TypeOK, AllOwned, [Next]_vars PROVE AllOwned'
  OBVIOUS
<1>b. ASSUME NEW w \in Workers, NEW r, Becomes(w, r)
      PROVE  \A v \in Workers \ {w} : req'[v] = req[v]
  BY <1>b DEF Becomes, TypeOK
<1>1. CASE UNCHANGED <<locks, req>>
  BY <1>1 DEF locks, AllOwned, Owned
<1>2. ASSUME NEW w \in Workers, req[w].pc \notin {"number", "save"}, UNCHANGED locks,
             NEW r, Becomes(w, r)
      PROVE  AllOwned'
  BY <1>2, <1>b, OwnedFree
<1>3. ASSUME NEW w \in Workers, ReleaseLocks(w), Becomes(w, Idle) PROVE AllOwned'
  BY <1>3, <1>b, OwnedReleased
<1>4. ASSUME NEW w \in Workers, Serve(w) PROVE AllOwned'
  <2>1. CASE LockSubscription(w)
    <3>1. CASE subscription[req[w].student].status = "absent"
      BY <1>2, <2>1, <3>1 DEF LockSubscription, Goto, locks
    <3>2. CASE subscription[req[w].student].status # "absent"
      <4>1. AfterLock(req[w].student) \in {"number", "save"}
        BY DEF AfterLock
      <4> QED
        BY <2>1, <3>2, <4>1, OwnedRow DEF LockSubscription
    <3> QED
      BY <3>1, <3>2
  <2>2. CASE CreateSubscription(w)
    <3>1. CASE subscription[req[w].student].status # "absent"
      BY <1>2, <2>2, <3>1 DEF CreateSubscription, InsertRow, locks
    <3>2. CASE subscription[req[w].student].status = "absent"
      BY <2>2, <3>2, OwnedRow DEF CreateSubscription, InsertRow
    <3> QED
      BY <3>1, <3>2
  <2>3. CASE TakeNumber(w)
    BY <2>3, OwnedYear
  <2>4. CASE SaveActivation(w)
    BY <1>3, <2>4 DEF SaveActivation
  <2>5. CASE ExpireSubscription(w)
    <3>1. \E r : Becomes(w, r)
      BY <2>5 DEF ExpireSubscription, Goto
    <3> QED
      BY <1>2, <2>5, <3>1 DEF ExpireSubscription
  <2>6. CASE CheckHistory(w)
    <3>1. \E r : Becomes(w, r)
      BY <2>6 DEF CheckHistory, Goto
    <3> QED
      BY <1>2, <2>6, <3>1 DEF CheckHistory
  <2>7. CASE (\E o \in Orders : InsertOrder(w, o)) \/ OrderRefused(w) \/ AddHistory(w)
    BY <1>2, <2>7 DEF InsertOrder, OrderRefused, AddHistory
  <2>8. CASE WriteFailed(w)
    BY <1>2, <2>8 DEF WriteFailed, Goto
  <2> QED
    BY <1>4, <2>1, <2>2, <2>3, <2>4, <2>5, <2>6, <2>7, <2>8 DEF Serve
<1>5. ASSUME NEW w \in Workers, NEW o \in Orders, PaymentCaptured(w, o) PROVE AllOwned'
  <2>1. CASE AlreadySuccess(o)
    BY <1>1, <1>5, <2>1 DEF PaymentCaptured
  <2>2. CASE ~AlreadySuccess(o)
    BY <1>2, <1>5, <2>2 DEF PaymentCaptured
  <2> QED
    BY <2>1, <2>2
<1>6. CASE \/ AdvanceDay \/ UNCHANGED vars
           \/ \E o \in Orders : Decline(o) \/ Capture(o) \/ PaymentFailedEvent(o) \/ MarkingError(o)
  <2>1. UNCHANGED <<locks, req>>
    BY <1>6 DEF AdvanceDay, vars, locks, Decline, Capture, PaymentFailedEvent, MarkingError
  <2> QED
    BY <1>1, <2>1
<1>7. ASSUME NEW w \in Workers,
             \/ \E s \in Students : CreateOrder(w, s) \/ CheckSubscription(w, s)
             \/ \E o \in Orders, ref \in Reports : ReportFailure(w, o, ref)
      PROVE  AllOwned'
  <2>1. PICK r : Becomes(w, r)
    BY <1>7 DEF CreateOrder, CheckSubscription, ReportFailure
  <2>2. req[w].pc = "idle" /\ UNCHANGED locks
    BY <1>7 DEF CreateOrder, CheckSubscription, ReportFailure
  <2>3. req[w].pc \notin {"number", "save"}
    BY <2>2
  <2> QED
    BY <1>2, <2>1, <2>2, <2>3
<1>8. ASSUME NEW w \in Workers, ActivationError(w) \/ Crash(w) PROVE AllOwned'
  BY <1>3, <1>8 DEF ActivationError, Crash
<1> QED
  BY <1>4, <1>5, <1>6, <1>7, <1>8 DEF Next, Deliver

(* No lock stands in the way of the request's next step. *)
CanGoOn(w) ==
  \/ req[w].pc = "save"
  \/ req[w].pc = "number" /\ RegisterFree(req[w].year)

Holder(w) ==
  \/ \E s \in Students : rowLock[s] = w
  \/ \E y \in Years : yearLock[y] = w

NoDeadEnd ==
  \A w \in Workers : Holder(w) =>
    \/ CanGoOn(w)
    \/ \E v \in Workers : yearLock[req[w].year] = v /\ req[v].pc = "save"

(* Every activation locks the student's row before the year of the         *)
(* register (activate_subscription_from_student_payment): whoever holds a  *)
(* lock can go on, or waits for a request that only has to save.  No circle*)
(* ever closes, and no lock outlives its request, errors and crashes       *)
(* included.                                                               *)
THEOREM PaymentsNoDeadEnd == Spec => []NoDeadEnd
<1>1. Init => AllOwned
  BY PaymentsAssumption DEF Init, AllOwned, Owned
<1>2. TypeOK /\ AllOwned => NoDeadEnd
  <2> SUFFICES ASSUME TypeOK, AllOwned, NEW w \in Workers, Holder(w), ~CanGoOn(w)
               PROVE  \E v \in Workers : yearLock[req[w].year] = v /\ req[v].pc = "save"
    BY DEF NoDeadEnd
  <2>1. req[w].pc \in {"number", "save"}
    BY DEF AllOwned, Owned, Holder
  <2>2. req[w].pc = "number" /\ ~RegisterFree(req[w].year)
    BY <2>1 DEF CanGoOn
  <2>3. req[w].year \in Years
    BY <2>2 DEF TypeOK, Request
  <2>4. PICK v \in Workers : yearLock[req[w].year] = v
    BY <2>2, <2>3 DEF RegisterFree, TypeOK
  <2>5. req[v].pc = "save"
    BY <2>3, <2>4 DEF AllOwned, Owned
  <2> QED
    BY <2>4, <2>5
<1> QED
  BY <1>1, <1>2, OwnedStep, TypeCorrect, PTL DEF Spec
=============================================================================
