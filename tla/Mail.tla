-------------------------------- MODULE Mail --------------------------------
(***************************************************************************)
(* The e-mail tasks: EmailService stores a one-time code, or the referral  *)
(* service commits a referral, and then queues a Celery task that mails    *)
(* it; a worker runs the task and retries it with a growing countdown.     *)
(* Meanwhile the row of a code is used up, deleted by a password reset or  *)
(* cleaned up, and an admin may delete the account or the referral.        *)
(*                                                                         *)
(* A mail is known by the number of the request that asks for it; an OTP   *)
(* mail carries the code of that number.  Time is kept as what has passed  *)
(* and what is left, so it needs no bound.  Every action is one statement  *)
(* of a web request, one call to the broker or to the mail server.         *)
(***************************************************************************)
EXTENDS Integers, FiniteSets

CONSTANTS
  Users,       \* those who may be sent a one-time code: a user and a purpose
  Resets,      \* those of them whose used code a password reset deletes
  Clients,     \* requests that verify a code or reset a password
  Applicants,  \* pre-applications that may be approved
  Modes,       \* how tasks may be run: "celery", or "eager" without Celery
  Minute,      \* ticks of the clock per minute
  Lifetime,    \* ticks a code is valid
  Lag,         \* a task is done at most this many ticks after it is due
  MaxMails,    \* bound: mails ever asked for
  MaxCrashes   \* bound: workers killed

ASSUME MailAssumption ==
  /\ Modes \subseteq {"celery", "eager"} /\ Resets \subseteq Users
  /\ {Minute, Lifetime, Lag, MaxMails, MaxCrashes} \subseteq Nat
  /\ 7 * Minute + 4 * Lag <= Lifetime

VARIABLES
  mode,      \* how the tasks of this deployment are run
  row,       \* row[u]: the EmailOTP row; code and key are 0 if there is none
  referred,  \* applicants with a committed referral
  gone,      \* accounts that were deleted, and their rows with them
  seen,      \* seen[c]: the row client c has read and is about to write back
  mail,      \* mail[m]: the m-th mail and its task
  arrived,   \* mails of which a copy reached the mail server
  strayed,   \* mails a killed worker held back (history variable)
  crossed,   \* codes overwritten or deleted with a row read before (history variable)
  crashes

mailVars == <<mode, row, gone, seen, referred, mail, arrived, strayed, crossed, crashes>>
stored   == <<row, gone, seen, referred, crossed>>

-----------------------------------------------------------------------------
Mails      == 1..MaxMails
MaxRetries == 3

(* "stored": the database knows, the broker does not yet.  "stray": Redis  *)
(* hands the task out again once the worker that held it is given up.      *)
Waiting  == {"stored", "queued", "running"}
UnderWay == Waiting \cup {"stray"}
Settled  == {"sent", "failed", "lost", "unqueued"}

Backoff == <<1, 2, 4>>   \* 2 ** retries

(* Mutant: the exponent starts one too high. *)
MutCountdown(retries) == 2 * Backoff[retries + 1] * Minute

Countdown(retries) == Backoff[retries + 1] * Minute

Task == [kind : {"otp", "approval"}, to : Users \cup Applicants,
         state : {"none", "stray"} \cup Waiting \cup Settled,
         retries : 0..MaxRetries,
         due : -Lag..(4 * Minute),   \* ticks left until the task is due
         age : 0..(Lifetime + 1)]    \* ticks since the request, as far as it matters

(* The key is the number of the mail the row was inserted for, the age     *)
(* what has passed of expires_at.                                          *)
Row   == [code : 0..MaxMails, key : 0..MaxMails, used : BOOLEAN, age : 0..(Lifetime + 1)]
NoRow == [code |-> 0, key |-> 0, used |-> FALSE, age |-> 0]

Nothing == [then |-> "nothing"]
Copy    == [then : {"save", "delete"}, to : Users, row : Row]

MailTypeOK ==
  /\ mode \in Modes
  /\ row \in [Users -> Row] /\ gone \subseteq Users /\ referred \subseteq Applicants
  /\ seen \in [Clients -> Copy \cup {Nothing}]
  /\ mail \in [Mails -> Task]
  /\ arrived \subseteq Mails
  /\ strayed \subseteq Mails /\ crossed \subseteq Mails
  /\ crashes \in 0..MaxCrashes

Fresh(kind, to, state) ==
  [kind |-> kind, to |-> to, state |-> state, retries |-> 0, due |-> 0, age |-> 0]

(* A settled mail: its times and its retries are of no more interest.      *)
Settle(t, state) == Fresh(t.kind, t.to, state)

MailInit ==
  /\ mode \in Modes
  /\ row = [u \in Users |-> NoRow] /\ gone = {} /\ referred = {}
  /\ seen = [c \in Clients |-> Nothing]
  /\ mail \in [Mails -> {Fresh("otp", u, "none") : u \in Users}]
  /\ arrived = {} /\ strayed = {} /\ crossed = {}
  /\ crashes = 0

-----------------------------------------------------------------------------
In(m, states) == mail[m].state \in states
IsNext(m) == In(m, {"none"}) /\ \A n \in Mails : n < m => ~In(n, {"none"})

Exists(u)  == row[u].code # 0
IsOld(u)   == row[u].age > Lifetime
Expired(m) == mail[m].kind = "otp" /\ mail[m].age > Lifetime

(* Mutant: a row that is there keeps its code. *)
MutStoredRow(u, m) ==
  IF Exists(u) THEN row[u] ELSE [code |-> m, key |-> m, used |-> FALSE, age |-> 0]

(* update_or_create: a row that is there keeps its key and nothing else.   *)
StoredRow(u, m) ==
  [code |-> m, key |-> IF Exists(u) THEN row[u].key ELSE m, used |-> FALSE, age |-> 0]

(* send_verification_otp: the row is written before the mail is asked for. *)
StoreCode(m, u) ==
  /\ IsNext(m) /\ u \notin gone
  /\ row' = [row EXCEPT ![u] = StoredRow(u, m)]
  /\ mail' = [mail EXCEPT ![m] = Fresh("otp", u, "stored")]
  /\ UNCHANGED <<mode, gone, seen, referred, arrived, strayed, crossed, crashes>>

(* verify_otp up to its save: the user enters a code that he received, and *)
(* it passes the checks.                                                   *)
Check(c, u) ==
  /\ seen[c] = Nothing
  /\ row[u].code \in arrived /\ ~row[u].used /\ ~IsOld(u)
  /\ seen' = [seen EXCEPT ![c] = [then |-> "save", to |-> u, row |-> row[u]]]
  /\ UNCHANGED <<mode, row, gone, referred, mail, arrived, strayed, crossed, crashes>>

(* PasswordResetView up to its delete, where its select_for_update locks   *)
(* nothing.                                                                *)
BeginReset(c, u) ==
  /\ seen[c] = Nothing /\ u \in Resets
  /\ Exists(u) /\ row[u].used
  /\ seen' = [seen EXCEPT ![c] = [then |-> "delete", to |-> u, row |-> row[u]]]
  /\ UNCHANGED <<mode, row, gone, referred, mail, arrived, strayed, crossed, crashes>>

(* The code the row holds, if it came after client c had read the row.     *)
Newer(c) == {row[seen[c].to].code} \ {0, seen[c].row.code}

(* otp_instance.save(): every field of the row with that key; a row that   *)
(* is gone is inserted again, unless the user has a new one or is gone as  *)
(* well (IntegrityError).                                                  *)
SaveUsed(c) ==
  LET s == seen[c] IN
  /\ s.then = "save"
  /\ seen' = [seen EXCEPT ![c] = Nothing]
  /\ IF s.to \notin gone /\ row[s.to].key \in {0, s.row.key}
       THEN /\ row' = [row EXCEPT ![s.to] = [s.row EXCEPT !.used = TRUE]]
            /\ crossed' = crossed \cup Newer(c)
       ELSE UNCHANGED <<row, crossed>>
  /\ UNCHANGED <<mode, gone, referred, mail, arrived, strayed, crashes>>

(* otp_instance.delete(): the row with that key, whatever it holds by now. *)
DeleteUsed(c) ==
  LET s == seen[c] IN
  /\ s.then = "delete"
  /\ seen' = [seen EXCEPT ![c] = Nothing]
  /\ IF row[s.to].key = s.row.key
       THEN /\ row' = [row EXCEPT ![s.to] = NoRow]
            /\ crossed' = crossed \cup Newer(c)
       ELSE UNCHANGED <<row, crossed>>
  /\ UNCHANGED <<mode, gone, referred, mail, arrived, strayed, crashes>>

(* cleanup_expired_otps: one DELETE, on what the rows hold at that moment. *)
CleanUp ==
  /\ \E u \in Users : IsOld(u)
  /\ row' = [u \in Users |-> IF IsOld(u) THEN NoRow ELSE row[u]]
  /\ UNCHANGED <<mode, gone, seen, referred, mail, arrived, strayed, crossed, crashes>>

(* DeleteSubAdminView: the rows of the account are deleted with it.        *)
DeleteUser(u) ==
  /\ u \notin gone
  /\ gone' = gone \cup {u} /\ row' = [row EXCEPT ![u] = NoRow]
  /\ UNCHANGED <<mode, seen, referred, mail, arrived, strayed, crossed, crashes>>

(* create_referral_for_pre_application up to its commit; a referral that   *)
(* exists is refused.                                                      *)
CommitReferral(m, a) ==
  /\ IsNext(m)
  /\ a \notin referred /\ referred' = referred \cup {a}
  /\ mail' = [mail EXCEPT ![m] = Fresh("approval", a, "stored")]
  /\ UNCHANGED <<mode, row, gone, seen, arrived, strayed, crossed, crashes>>

(* DeleteReferenceCodeView, also before the mail is sent; the applicant    *)
(* may be approved again.                                                  *)
DropReferral(a) ==
  /\ a \in referred /\ referred' = referred \ {a}
  /\ UNCHANGED <<mode, row, gone, seen, mail, arrived, strayed, crossed, crashes>>

(* send_approval_email, send_otp_email: the task is handed to the broker.  *)
Enqueue(m) ==
  /\ mode = "celery" /\ In(m, {"stored"})
  /\ mail' = [mail EXCEPT ![m].state = "queued"]
  /\ UNCHANGED <<mode, stored, arrived, strayed, crashes>>

(* celery_compat: without Celery the request runs the task on the spot.    *)
RunEagerly(m) ==
  /\ mode = "eager" /\ In(m, {"stored"})
  /\ mail' = [mail EXCEPT ![m].state = "running"]
  /\ UNCHANGED <<mode, stored, arrived, strayed, crashes>>

(* The broker is down or the web worker dies: the request ends in an error *)
(* and what it stored stays.                                               *)
NotQueued(m) ==
  /\ In(m, {"stored"})
  /\ mail' = [mail EXCEPT ![m] = Settle(@, "unqueued")]
  /\ UNCHANGED <<mode, stored, arrived, strayed, crashes>>

(* A worker takes a task that is due and acknowledges it.                  *)
Start(m) ==
  /\ In(m, {"queued"}) /\ mail[m].due <= 0
  /\ mail' = [mail EXCEPT ![m].state = "running"]
  /\ UNCHANGED <<mode, stored, arrived, strayed, crashes>>

(* Mutant: a retry goes out as a new task, whose retries start at 0.       *)
MutRetried(t) ==
  IF mode = "eager" \/ t.retries = MaxRetries
    THEN Settle(t, "failed")
    ELSE [t EXCEPT !.state = "queued", !.due = Countdown(t.retries), !.retries = 0]

(* self.retry: the task is queued anew with a countdown, or, after the     *)
(* third retry and in the fallback, the exception is final.                *)
Retried(t) ==
  IF mode = "eager" \/ t.retries = MaxRetries
    THEN Settle(t, "failed")
    ELSE [t EXCEPT !.state = "queued", !.due = Countdown(t.retries),
                   !.retries = @ + 1]

(* The rest of the task.  The mail server takes the mail or not, and the   *)
(* worker learns of it or sees an exception, also if only the answer was   *)
(* lost.                                                                   *)
Run(m, accepted, raised) ==
  /\ In(m, {"running"})
  /\ accepted \/ raised
  /\ mail' = [mail EXCEPT ![m] = IF raised THEN Retried(@) ELSE Settle(@, "sent")]
  /\ arrived' = IF accepted THEN arrived \cup {m} ELSE arrived
  /\ UNCHANGED <<mode, stored, strayed, crashes>>

(* A worker is killed.  The task it runs was acknowledged and is gone; the *)
(* tasks it holds were not and are handed out again an hour later.  (A     *)
(* worker that is shut down gives its tasks back at once, which changes    *)
(* nothing here.)                                                          *)
WorkerDies(held) ==
  /\ mode = "celery" /\ crashes < MaxCrashes
  /\ held # {} /\ \A m \in held : In(m, {"queued", "running"})
  /\ crashes' = crashes + 1
  /\ strayed' = strayed \cup {m \in held : In(m, {"queued"})}
  /\ mail' = [m \in Mails |->
       IF m \notin held THEN mail[m]
       ELSE IF In(m, {"running"}) THEN Settle(mail[m], "lost")
            ELSE [mail[m] EXCEPT !.state = "stray", !.due = 0]]
  /\ UNCHANGED <<mode, stored, arrived>>

(* After an hour, when every code of that time has expired.                *)
HandOutAgain(m) ==
  /\ In(m, {"stray"}) /\ (mail[m].kind = "otp" => Expired(m))
  /\ mail' = [mail EXCEPT ![m].state = "queued"]
  /\ UNCHANGED <<mode, stored, arrived, strayed, crashes>>

(* Ages are counted as long as they matter.                                *)
Older(age) == IF age <= Lifetime THEN age + 1 ELSE age

RowLater(r)  == IF r.code = 0 THEN r ELSE [r EXCEPT !.age = Older(@)]
SeenLater(s) == IF s = Nothing THEN s ELSE [s EXCEPT !.row = RowLater(@)]
TaskLater(t) ==
  [t EXCEPT !.due = IF t.state \in Waiting THEN @ - 1 ELSE @,
            !.age = IF t.kind = "otp" /\ t.state \in UnderWay THEN Older(@) ELSE @]

(* A minute's fraction passes; the workers keep up with what is due.       *)
MailTick ==
  /\ \A m \in Mails : In(m, Waiting) => mail[m].due > -Lag
  /\ mail' = [m \in Mails |-> TaskLater(mail[m])]
  /\ row' = [u \in Users |-> RowLater(row[u])]
  /\ seen' = [c \in Clients |-> SeenLater(seen[c])]
  /\ UNCHANGED <<mode, gone, referred, arrived, strayed, crossed, crashes>>

Attempt(m) == \E accepted, raised \in BOOLEAN : Run(m, accepted, raised)

Work(m) ==
  Enqueue(m) \/ RunEagerly(m) \/ NotQueued(m) \/ Start(m) \/ Attempt(m) \/ HandOutAgain(m)

MailNext ==
  \/ \E m \in Mails, u \in Users : StoreCode(m, u)
  \/ \E m \in Mails, a \in Applicants : CommitReferral(m, a)
  \/ \E c \in Clients, u \in Users : Check(c, u) \/ BeginReset(c, u)
  \/ \E c \in Clients : SaveUsed(c) \/ DeleteUsed(c)
  \/ CleanUp
  \/ \E u \in Users : DeleteUser(u)
  \/ \E a \in Applicants : DropReferral(a)
  \/ \E m \in Mails : Work(m)
  \/ \E held \in SUBSET Mails : WorkerDies(held)
  \/ MailTick

MailSpec == MailInit /\ [][MailNext]_mailVars

(* Requests and workers go on, and time passes.                            *)
MailFairSpec ==
  MailSpec /\ WF_mailVars(MailTick) /\ WF_mailVars(\E m \in Mails : Work(m))

-----------------------------------------------------------------------------
(* The retries of an OTP mail end before its code does: as long as the     *)
(* workers keep up, no attempt mails a code that has expired, unless a     *)
(* killed worker had held its task back.  The countdowns of utils/tasks.py *)
(* must fit the ten minutes of send_verification_otp.                      *)
FreshOnArrival ==
  \A m \in Mails : In(m, {"running"}) /\ Expired(m) => m \in strayed

(* The mail of a user's newest code is under way, and the user still there. *)
Awaited(m) ==
  /\ mail[m].kind = "otp" /\ In(m, UnderWay) /\ m \notin arrived
  /\ mail[m].to \notin gone
  /\ \A n \in Mails : n > m /\ mail[n].to = mail[m].to => In(n, {"none"})

(* A user's newest code can be used when it arrives, if it arrives in time: *)
(* until then the row holds it, unused, however the mails overtake each    *)
(* other, and neither the clean-up, nor a resend, nor the use of an older  *)
(* code takes it away.  The one exception are requests that write back or  *)
(* delete a row they read before the code was stored.                      *)
UsableOnArrival ==
  \A m \in Mails :
    Awaited(m) /\ ~Expired(m) /\ m \notin crossed =>
      row[mail[m].to].code = m /\ ~row[mail[m].to].used

(* Once no more mails are asked for, every mail is settled for good: sent, *)
(* given up after four attempts, lost with a worker, or its request        *)
(* answered with an error.                                                 *)
MailsSettle == <>[](\A m \in Mails : ~In(m, UnderWay))
=============================================================================
