----------------------------- MODULE Payments -----------------------------
(***************************************************************************)
(* Student payments and subscriptions: payments/views.py,                  *)
(* payments/student_subscription_service.py, payments/utils.py, the        *)
(* IsActiveSubscriber permission and the payment views of Student/views.py.*)
(*                                                                         *)
(* The web server runs requests on a pool of Workers against PostgreSQL in *)
(* autocommit mode (READ COMMITTED).  A request is cut where another one   *)
(* can run in between: between two statements outside a transaction,       *)
(* between two transactions, and at every statement that may wait for a    *)
(* row lock.  Razorpay delivers events at least once, in any order, until  *)
(* one delivery is answered.                                               *)
(***************************************************************************)
EXTENDS Naturals, FiniteSets

CONSTANTS
  Students,   \* users with role student and a completed profile
  Orders,     \* the order ids Razorpay can mint
  Workers,    \* gunicorn threads
  None,       \* no student, order or worker
  Reports,    \* what browsers name in a failure report: "null", "declined",
              \*   "captured"
  Declinable, \* bound: the orders whose payment may be declined once
  Reportable, \* bound: the orders that browsers report as failed
  Duration,   \* length of a subscription, in days
  YearOf,     \* the calendar year of each day
  MaxDay,     \* bound: the clock stops on this day
  MaxFaults   \* bound: requests lost to a crash or a database error

ASSUME PaymentsAssumption ==
  /\ Duration \in Nat \ {0}
  /\ MaxDay \in Nat
  /\ MaxFaults \in Nat
  /\ YearOf \in [0..MaxDay -> Nat]
  /\ Reports \subseteq {"null", "declined", "captured"}
  /\ IsFiniteSet(Workers)
  /\ None \notin Students \cup Orders \cup Workers

VARIABLES
  today,         \* date.today()
  payment,       \* StudentPayment rows, by order id
  history,       \* number of failed PaymentHistory rows, by payment id
  subscription,  \* StudentSubscription rows, by student
  sequence,      \* RegistrationSequence.last_number, by year
  rowLock,       \* rowLock[s]: the worker whose open transaction holds the
                 \*   row (or the unique key) of s in StudentSubscription
  yearLock,      \* the same for the RegistrationSequence rows
  req,           \* the request each worker is serving
  captured,      \* orders Razorpay holds the money of
  declined,      \* orders with a declined payment attempt
  acked,         \* captured orders whose event was answered with 200
  activated,     \* orders that have bought a period (history variable)
  twice,         \* orders that have bought a second one (history variable)
  overwritten,   \* orders whose success became a failure (history variable)
  faults         \* requests lost so far

vars == <<today, payment, history, subscription, sequence, rowLock, yearLock,
          req, captured, declined, acked, activated, twice, overwritten, faults>>

razorpay == <<captured, declined, acked>>
locks    == <<rowLock, yearLock>>
bought   == <<activated, twice>>

-----------------------------------------------------------------------------
Years    == {YearOf[d] : d \in 0..MaxDay}
NoNumber == [year |-> 0, n |-> 0]
RegNumber == [year : Years, n : Nat \ {0}] \cup {NoNumber}

(* The razorpay_payment_id of a row: that of the captured attempt, that of *)
(* a declined one, or NULL.                                                *)
PaymentIds == {"null", "captured", "declined"}

(* What PaymentHistory rows are looked up by: a payment id, given by its   *)
(* order and attempt, or None for NULL.                                    *)
HistoryKeys == {None} \cup (Orders \X {"captured", "declined"})

PaymentRow == [status  : {"absent", "created", "success", "failed"},
               student : Students \cup {None},
               ref     : PaymentIds]

SubscriptionRow == [status : {"absent", "ACTIVE", "EXPIRED"},
                    expiry : Nat,
                    number : RegNumber,
                    order  : Orders \cup {None}]

Idle == [pc |-> "idle", student |-> None, order |-> None,
         ref |-> "null", year |-> 0, number |-> NoNumber]

Activating == {"lock", "create", "number", "save"}

Reporting  == {"writeFailed", "checkHistory", "addHistory"}

PCs == Activating \cup Reporting \cup {"idle", "expire", "expireThenOrder", "insert"}

Request == {r \in [pc : PCs, student : Students \cup {None}, ref : PaymentIds,
                   order : Orders \cup {None}, year : Years \cup {0},
                   number : RegNumber] :
              /\ r.pc \in Activating \cup Reporting => r.order \in Orders
              /\ r.pc = "number" => r.year \in Years}

TypeOK ==
  /\ today \in 0..MaxDay
  /\ payment \in [Orders -> PaymentRow]
  /\ history \in [HistoryKeys -> Nat]
  /\ subscription \in [Students -> SubscriptionRow]
  /\ sequence \in [Years -> Nat]
  /\ rowLock \in [Students -> Workers \cup {None}]
  /\ yearLock \in [Years -> Workers \cup {None}]
  /\ req \in [Workers -> Request]
  /\ captured \subseteq Orders
  /\ declined \subseteq Orders
  /\ acked \subseteq Orders
  /\ activated \subseteq Orders /\ twice \subseteq Orders
  /\ overwritten \subseteq Orders
  /\ faults \in Nat

Init ==
  /\ today = 0
  /\ payment = [o \in Orders |->
                  [status |-> "absent", student |-> None, ref |-> "null"]]
  /\ history = [k \in HistoryKeys |-> 0]
  /\ subscription = [s \in Students |->
                       [status |-> "absent", expiry |-> 0,
                        number |-> NoNumber, order |-> None]]
  /\ sequence = [y \in Years |-> 0]
  /\ rowLock = [s \in Students |-> None]
  /\ yearLock = [y \in Years |-> None]
  /\ req = [w \in Workers |-> Idle]
  /\ captured = {}
  /\ declined = {}
  /\ acked = {}
  /\ activated = {} /\ twice = {}
  /\ overwritten = {}
  /\ faults = 0

-----------------------------------------------------------------------------
(* Helpers *)

Becomes(w, r) == req' = [req EXCEPT ![w] = r]
Goto(w, label) == Becomes(w, [req[w] EXCEPT !.pc = label])

(* An active subscription whose last day has passed. *)
Lapsed(s) == subscription[s].status = "ACTIVE" /\ subscription[s].expiry < today

(* has_active_subscription on a row that needs no lazy expiry *)
Live(s) == subscription[s].status = "ACTIVE" /\ subscription[s].expiry >= today

(* Mutant: the year's lock survives the transaction. *)
MutReleaseLocks(w) ==
  /\ rowLock' = [s \in Students |-> IF rowLock[s] = w THEN None ELSE rowLock[s]]
  /\ UNCHANGED yearLock

(* The end of a transaction gives back every lock its worker holds. *)
ReleaseLocks(w) ==
  /\ rowLock' = [s \in Students |-> IF rowLock[s] = w THEN None ELSE rowLock[s]]
  /\ yearLock' = [y \in Years |-> IF yearLock[y] = w THEN None ELSE yearLock[y]]

-----------------------------------------------------------------------------
(* The clock *)

AdvanceDay ==
  /\ today < MaxDay
  /\ today' = today + 1
  /\ UNCHANGED <<payment, history, subscription, sequence, locks, req,
                 razorpay, bought, overwritten, faults>>

-----------------------------------------------------------------------------
(* Students' requests *)

(* create_order and StudentPaymentInitiateAPIView up to the answer of     *)
(* has_active_subscription: an unlocked read, which goes on to the lazy    *)
(* expiry if the row read had lapsed.  A live subscription is refused.     *)
CreateOrder(w, s) ==
  /\ req[w].pc = "idle"
  /\ ~Live(s)
  /\ Becomes(w, [Idle EXCEPT !.pc = IF Lapsed(s) THEN "expireThenOrder"
                                                 ELSE "insert",
                             !.student = s])
  /\ UNCHANGED <<today, payment, history, subscription, sequence, locks,
                 razorpay, bought, overwritten, faults>>

(* The rest of create_order: Razorpay mints an order and its row is saved. *)
InsertOrder(w, o) ==
  /\ req[w].pc = "insert"
  /\ payment[o].status = "absent"
  /\ payment' = [payment EXCEPT ![o] = [status |-> "created",
                                        student |-> req[w].student,
                                        ref |-> "null"]]
  /\ Becomes(w, Idle)
  /\ UNCHANGED <<today, history, subscription, sequence, locks, razorpay,
                 bought, overwritten, faults>>

(* The call to Razorpay raises: no row is saved and the request ends.      *)
OrderRefused(w) ==
  /\ req[w].pc = "insert"
  /\ Becomes(w, Idle)
  /\ UNCHANGED <<today, payment, history, subscription, sequence, locks,
                 razorpay, bought, overwritten, faults>>

(* IsActiveSubscriber.has_permission and build_subscription_summary: they  *)
(* change something only if the row they read, without a lock, has lapsed. *)
CheckSubscription(w, s) ==
  /\ req[w].pc = "idle"
  /\ Lapsed(s)
  /\ Becomes(w, [Idle EXCEPT !.pc = "expire", !.student = s])
  /\ UNCHANGED <<today, payment, history, subscription, sequence, locks,
                 razorpay, bought, overwritten, faults>>

(* What save(update_fields=["status", "renewed_at"]) leaves in the row. *)
Expired(s) == [subscription[s] EXCEPT !.status = "EXPIRED"]

(* The lazy expiry's UPDATE: it waits for a transaction that holds the row *)
(* and then writes whatever the row says by now.                           *)
ExpireSubscription(w) ==
  LET s == req[w].student IN
  /\ req[w].pc \in {"expire", "expireThenOrder"}
  /\ rowLock[s] = None
  /\ subscription' = [subscription EXCEPT ![s] = Expired(s)]
  /\ IF req[w].pc = "expire" THEN Becomes(w, Idle) ELSE Goto(w, "insert")
  /\ UNCHANGED <<today, payment, history, sequence, locks, razorpay,
                 bought, overwritten, faults>>

-----------------------------------------------------------------------------
(* Razorpay: an attempt to pay an order is declined, or its money captured *)

Decline(o) ==
  /\ payment[o].status # "absent"
  /\ o \in Declinable \ (captured \cup declined)
  /\ declined' = declined \cup {o}
  /\ UNCHANGED <<today, payment, history, subscription, sequence, locks, req,
                 captured, acked, bought, overwritten, faults>>

Capture(o) ==
  /\ payment[o].status # "absent"
  /\ o \notin captured
  /\ captured' = captured \cup {o}
  /\ UNCHANGED <<today, payment, history, subscription, sequence, locks, req,
                 declined, acked, bought, overwritten, faults>>

-----------------------------------------------------------------------------
(* The webhook, payment.captured: two transactions                         *)

(* Mutant: events other than payment.captured are taken for it. *)
MutMoneyArrived(o) == o \in captured \cup declined

(* Razorpay has signed a payment.captured event for the order. *)
MoneyArrived(o) == o \in captured

(* Mutant: any final status, not just success, makes a delivery a repeat. *)
MutAlreadySuccess(o) == payment[o].status # "created"

AlreadySuccess(o) == payment[o].status = "success"

(* mark_student_payment_success, one transaction on one locked row.  A     *)
(* repeated delivery finds status success, changes nothing and is answered.*)
PaymentCaptured(w, o) ==
  /\ req[w].pc = "idle"
  /\ MoneyArrived(o)
  /\ IF AlreadySuccess(o)
     THEN /\ acked' = acked \cup {o}
          /\ UNCHANGED <<payment, req>>
     ELSE /\ payment' = [payment EXCEPT ![o].status = "success",
                                        ![o].ref = "captured"]
          /\ Becomes(w, [Idle EXCEPT !.pc = "lock",
                                     !.student = payment[o].student,
                                     !.order = o])
          /\ UNCHANGED acked
  /\ UNCHANGED <<today, history, subscription, sequence, locks, captured,
                 declined, bought, overwritten, faults>>

(* Mutant: a registration number is drawn for every activation. *)
MutAfterLock(s) == "number"

(* Where activation goes once it holds the subscription row: on to a       *)
(* registration number if there is none yet.                               *)
AfterLock(s) == IF subscription[s].number = NoNumber THEN "number" ELSE "save"

(* generate_registration_number reads the clock before it waits for the    *)
(* register.  The read goes with the step that took the row: until then    *)
(* the worker does nothing else, and others can do nothing to the row.     *)
HoldingRow(w, label) ==
  Becomes(w, [req[w] EXCEPT !.pc = label,
                            !.year = IF label = "number" THEN YearOf[today] ELSE @])

(* activate_subscription_from_student_payment opens its transaction and    *)
(* selects the student's row FOR UPDATE; with no row there is no lock.     *)
LockSubscription(w) ==
  LET s == req[w].student IN
  /\ req[w].pc = "lock"
  /\ IF subscription[s].status = "absent"
     THEN /\ Goto(w, "create")
          /\ UNCHANGED rowLock
     ELSE /\ rowLock[s] = None
          /\ rowLock' = [rowLock EXCEPT ![s] = w]
          /\ HoldingRow(w, AfterLock(s))
  /\ UNCHANGED <<today, payment, history, subscription, sequence, yearLock,
                 razorpay, bought, overwritten, faults>>

(* The INSERT of a missing row.  The unique key on student makes it wait   *)
(* for another open transaction that inserts it, and fail if that commits: *)
(* the IntegrityError ends in `except Exception` and is answered with 200. *)
InsertRow(w, ready, collision) ==
  /\ req[w].pc = "create"
  /\ ready
  /\ IF collision
     THEN /\ Becomes(w, Idle)
          /\ acked' = acked \cup {req[w].order}
          /\ UNCHANGED rowLock
     ELSE /\ rowLock' = [rowLock EXCEPT ![req[w].student] = w]
          /\ HoldingRow(w, "number")
          /\ UNCHANGED acked
  /\ UNCHANGED <<today, payment, history, subscription, sequence, yearLock,
                 captured, declined, bought, overwritten, faults>>

(* Mutant: an insert that meets another open one fails at once. *)
MutCreateSubscription(w) ==
  InsertRow(w, TRUE, rowLock[req[w].student] # None
                       \/ subscription[req[w].student].status # "absent")

CreateSubscription(w) ==
  InsertRow(w, rowLock[req[w].student] = None,
               subscription[req[w].student].status # "absent")

(* Mutant: the register is read without select_for_update. *)
MutRegisterFree(y) == TRUE

RegisterFree(y) == yearLock[y] = None

(* generate_registration_number: select_for_update().get_or_create of the  *)
(* row of the year read before, which may be over by now.  The increment   *)
(* is visible to others only at commit.                                    *)
TakeNumber(w) ==
  LET y == req[w].year IN
  /\ req[w].pc = "number"
  /\ RegisterFree(y)
  /\ yearLock' = [yearLock EXCEPT ![y] = w]
  /\ Becomes(w, [req[w] EXCEPT !.pc = "save",
                               !.number = [year |-> y, n |-> sequence[y] + 1]])
  /\ UNCHANGED <<today, payment, history, subscription, sequence, rowLock,
                 razorpay, bought, overwritten, faults>>

(* Mutant: the month wraps around and the year does not follow it.         *)
MutExpiry == (today + Duration) % 3

NewExpiry == today + Duration

(* The end of activate_subscription_from_student_payment: the row is saved *)
(* with all its fields, the transaction commits, the webhook answers.      *)
SaveActivation(w) ==
  LET s  == req[w].student
      o  == req[w].order
      nr == req[w].number
  IN
  /\ req[w].pc = "save"
  /\ subscription' = [subscription EXCEPT ![s] =
        [status |-> "ACTIVE", expiry |-> NewExpiry, order |-> o,
         number |-> IF nr = NoNumber THEN @.number ELSE nr]]
  /\ sequence' = IF nr = NoNumber THEN sequence
                 ELSE [sequence EXCEPT ![nr.year] = nr.n]
  /\ ReleaseLocks(w)
  /\ activated' = activated \cup {o}
  /\ twice' = twice \cup ({o} \cap activated)
  /\ acked' = acked \cup {o}
  /\ Becomes(w, Idle)
  /\ UNCHANGED <<today, payment, history, captured, declined, overwritten, faults>>

(* A database error inside the activation: it is rolled back, logged, and  *)
(* the webhook answers 200.                                                *)
ActivationError(w) ==
  /\ faults < MaxFaults
  /\ req[w].pc \in Activating
  /\ faults' = faults + 1
  /\ ReleaseLocks(w)
  /\ acked' = acked \cup {req[w].order}
  /\ Becomes(w, Idle)
  /\ UNCHANGED <<today, payment, history, subscription, sequence, captured,
                 declined, bought, overwritten>>

(* A database error while the payment is marked: nothing is changed, and   *)
(* the webhook answers 200 all the same.                                   *)
MarkingError(o) ==
  /\ faults < MaxFaults
  /\ MoneyArrived(o)
  /\ faults' = faults + 1
  /\ acked' = acked \cup {o}
  /\ UNCHANGED <<today, payment, history, subscription, sequence, locks, req,
                 captured, declined, bought, overwritten>>

(* The worker dies (a deploy, a kill, a timeout) in the middle of a        *)
(* request: its open transaction is rolled back and nobody is answered.    *)
(* An error in a statement of the other requests, which open none, leaves  *)
(* the same behind.                                                        *)
Crash(w) ==
  /\ faults < MaxFaults
  /\ req[w].pc # "idle"
  /\ faults' = faults + 1
  /\ ReleaseLocks(w)
  /\ Becomes(w, Idle)
  /\ UNCHANGED <<today, payment, history, subscription, sequence, razorpay,
                 bought, overwritten>>

-----------------------------------------------------------------------------
(* The webhook, payment.failed, and the browser's own failure report       *)

(* Mutant: a failure is taken down whatever the row says. *)
MutMayFail(o) == payment[o].status # "absent"

(* For a transaction that reads and writes it, success is final.           *)
MayFail(o) == payment[o].status \in {"created", "failed"}

(* mark_student_payment_failed, one transaction.                           *)
PaymentFailedEvent(o) ==
  /\ o \in declined
  /\ MayFail(o)
  /\ payment' = [payment EXCEPT ![o].status = "failed", ![o].ref = "declined"]
  /\ UNCHANGED <<today, history, subscription, sequence, locks, req, razorpay,
                 bought, overwritten, faults>>

(* payment_failed: the row is read without a lock and judged by what was   *)
(* read.  The student may report any order of his, paid or not, with the   *)
(* id of one of its attempts or with none.                                 *)
ReportFailure(w, o, ref) ==
  /\ req[w].pc = "idle"
  /\ MayFail(o)
  /\ ref = "declined" => o \in declined
  /\ ref = "captured" => o \in captured
  /\ Becomes(w, [Idle EXCEPT !.pc = "writeFailed", !.student = payment[o].student,
                             !.order = o, !.ref = ref])
  /\ UNCHANGED <<today, payment, history, subscription, sequence, locks,
                 razorpay, bought, overwritten, faults>>

WriteFailed(w) ==
  LET o == req[w].order IN
  /\ req[w].pc = "writeFailed"
  /\ payment' = [payment EXCEPT ![o].status = "failed", ![o].ref = req[w].ref]
  /\ overwritten' = overwritten \cup {x \in {o} : payment[x].status = "success"}
  /\ Goto(w, "checkHistory")
  /\ UNCHANGED <<today, history, subscription, sequence, locks, razorpay,
                 bought, faults>>

(* Failed rows are looked up by payment id only: all reports without one   *)
(* share the key None.                                                     *)
HistoryKey(w) == IF req[w].ref = "null" THEN None ELSE <<req[w].order, req[w].ref>>

(* Mutant: the row is added without the lookup. *)
MutHistoryEmpty(k) == TRUE

HistoryEmpty(k) == history[k] = 0

CheckHistory(w) ==
  /\ req[w].pc = "checkHistory"
  /\ IF HistoryEmpty(HistoryKey(w)) THEN Goto(w, "addHistory") ELSE Becomes(w, Idle)
  /\ UNCHANGED <<today, payment, history, subscription, sequence, locks,
                 razorpay, bought, overwritten, faults>>

AddHistory(w) ==
  /\ req[w].pc = "addHistory"
  /\ history' = [history EXCEPT ![HistoryKey(w)] = @ + 1]
  /\ Becomes(w, Idle)
  /\ UNCHANGED <<today, payment, subscription, sequence, locks, razorpay,
                 bought, overwritten, faults>>

-----------------------------------------------------------------------------
(* What the server does on its own once a request is being served *)
Serve(w) ==
  \/ ExpireSubscription(w)
  \/ \E o \in Orders : InsertOrder(w, o)
  \/ OrderRefused(w)
  \/ LockSubscription(w)
  \/ CreateSubscription(w)
  \/ TakeNumber(w)
  \/ SaveActivation(w)
  \/ WriteFailed(w)
  \/ CheckHistory(w)
  \/ AddHistory(w)

Deliver(o) == \E w \in Workers : PaymentCaptured(w, o)

Next ==
  \/ AdvanceDay
  \/ \E w \in Workers, s \in Students : CreateOrder(w, s) \/ CheckSubscription(w, s)
  \/ \E o \in Orders : Decline(o) \/ Capture(o) \/ PaymentFailedEvent(o) \/ Deliver(o)
  \/ \E o \in Orders : MarkingError(o)
  \/ \E w \in Workers, o \in Orders \cap Reportable, ref \in Reports :
       ReportFailure(w, o, ref)
  \/ \E w \in Workers : Serve(w) \/ ActivationError(w) \/ Crash(w)

Spec == Init /\ [][Next]_vars

(* Requests in service make progress and row locks are granted in turn     *)
(* (PostgreSQL queues the waiters), so a request that can go on again and  *)
(* again does; Razorpay repeats an event until it is answered.  Students   *)
(* and the clock owe nothing.                                              *)
Fairness ==
  /\ \A w \in Workers : SF_vars(Serve(w))
  /\ \A o \in Orders : SF_vars(Deliver(o) /\ o \notin acked)

FairSpec == Spec /\ Fairness

-----------------------------------------------------------------------------
(* Safety *)

NumberOf(s) == subscription[s].number

(* No two students carry the same registration number, whatever            *)
(* activations, lazy expiries, crashes and year changes overlap: the       *)
(* unique constraint on registration_number is never what saves the day    *)
(* (generate_registration_number locks the year's row until the commit).   *)
NumbersDistinct ==
  \A s, t \in Students : NumberOf(s) = NumberOf(t) /\ s # t => NumberOf(s) = NoNumber

(* The numbers in use in a year are exactly 1 .. last_number: a rolled-    *)
(* back activation gives its number back and no renewal burns one.         *)
NumbersGapless ==
  \A y \in Years :
    {NumberOf(s).n : s \in {t \in Students : NumberOf(t) # NoNumber
                                              /\ NumberOf(t).year = y}}
      = 1..sequence[y]

(* Every subscription row stands on an order of that very student whose    *)
(* money Razorpay holds: no interleaving of webhook events, failure        *)
(* reports and lazy expiries activates anything else.                      *)
PaidForByOwner ==
  \A s \in Students : subscription[s].status # "absent" =>
    /\ subscription[s].order \in captured \cap activated
    /\ payment[subscription[s].order].student = s

(* With no request lost to a fault, a student with a successful payment    *)
(* nobody is activating right now has a subscription row: when two orders  *)
(* of a new student are captured at once, the loser of the race to insert  *)
(* the row gives up only after the winner has committed it.                *)
PaidStudentEnrolled ==
  faults = 0 => \A o \in Orders :
    /\ payment[o].status = "success"
    /\ \A w \in Workers : req[w].pc \in Activating => req[w].order # o
    => subscription[payment[o].student].status # "absent"

(* One payment buys one period, although a delivery that comes again goes  *)
(* by the status alone, which failure events and reports write too.  The   *)
(* one exception is a success written over by a report that had read the   *)
(* row before (payment_failed takes no lock).                              *)
BoughtOnce == twice \subseteq overwritten

(* The lookup before a failed PaymentHistory row is added is not atomic    *)
(* with the insert, so duplicates appear; but only reports that overlap    *)
(* can cause them, hence never more than one per worker.                   *)
DuplicatesBounded == \A k \in HistoryKeys : history[k] <= Cardinality(Workers)

-----------------------------------------------------------------------------
(* Action properties *)

(* A registration number, once given, is never changed or taken away.      *)
NumberIsForLife ==
  [][\A s \in Students : NumberOf(s) # NoNumber => NumberOf(s)' = NumberOf(s)]_vars

(* No step moves a student's expiry date back: late or repeated events     *)
(* and concurrent renewals never cost days already granted.                *)
ExpiryNeverMovesBack ==
  [][\A s \in Students : subscription[s].expiry <= subscription'[s].expiry]_vars

(* The registers, as seen in committed rows, implement the abstract one.   *)
Register == INSTANCE RegistrationRegister
              WITH number <- [s \in Students |-> NumberOf(s)], last <- sequence

ImplementsRegister == Register!RegisterSpec

-----------------------------------------------------------------------------
(* Liveness *)

(* Money captured for an order puts its student on record: unless a        *)
(* request is lost to a fault, some delivery gets through.                 *)
CapturedIsEnrolled ==
  \A o \in Orders : (o \in captured) ~>
     \/ faults > 0
     \/ o \in captured /\ subscription[payment[o].student].status # "absent"

(* No request waits for ever, whoever crashes while holding a row lock:    *)
(* the locks are always taken in the order subscription, register.         *)
RequestsEnd ==
  \A w \in Workers : (req[w].pc \in Activating \cup {"expire", "expireThenOrder"})
                       ~> (req[w].pc \in {"idle", "insert"})

-----------------------------------------------------------------------------
(* What the repository says and the code does not keep                     *)

(* payments/views.py:189: "Webhook received and processed (or safely       *)
(* ignored)."  A captured event answered with 200 has activated its        *)
(* order, unless another delivery of it is still at work.                  *)
AnsweredMeansActivated ==
  \A o \in acked : \/ o \in activated
                   \/ \E w \in Workers : req[w].pc \in Activating /\ req[w].order = o
=============================================================================
