----------------------------- MODULE Onboarding -----------------------------
(***************************************************************************)
(* From pre-application to account: pre_application/ (submit, status,      *)
(* archive, restore, referral), the referral views of admin_analytics, and *)
(* RegisterAPIView and GoogleAuthView of accounts.                         *)
(*                                                                         *)
(* PostgreSQL, READ COMMITTED.  A request is cut between statements outside*)
(* a transaction and at every statement that may wait for a row lock.      *)
(* Single statements wait for a locked row but never hold it.              *)
(***************************************************************************)
EXTENDS Naturals, FiniteSets

CONSTANTS
  Apps,      \* pre-applications (enquiry tokens, which are unique)
  Emails,
  Workers,   \* web server threads
  None,      \* nobody holds the lock
  MaxCodes,  \* bound: referral codes ever issued
  MaxEdits   \* bound: statuses an admin writes to one referral

ASSUME OnboardingAssumption ==
  /\ Apps # {} /\ Emails # {}
  /\ {MaxCodes, MaxEdits} \subseteq Nat
  /\ None \notin Workers

VARIABLES
  app,      \* PreApplication rows
  ref,      \* ref[a]: the ReferalCode row of a (one to one), id 0 if none
  account,  \* the emails that have a user with a student profile
  codes,    \* referral codes issued so far
  appLock,  \* appLock[a]: the worker whose open transaction holds the row
  refLock,  \* the same for the ReferalCode row of a
  req,      \* the request each worker is serving
  uses,     \* uses[c]: registrations and sign-ups let in by code c (history)
  edits,    \* edits[c]: statuses an admin has written to code c (history)
  raced     \* applications of which an admin's request began during another (history)

vars == <<app, ref, account, codes, appLock, refLock, req, uses, edits, raced>>

rows  == <<app, ref, account, codes>>
locks == <<appLock, refLock>>
counts == <<uses, edits, raced>>

-----------------------------------------------------------------------------
Codes == 1..MaxCodes

App == [state : {"absent", "live", "archived"}, email : Emails, verified : BOOLEAN]

(* open: status "not_used"; the other three statuses are alike to the code *)
Referral == [id : 0..MaxCodes, open : BOOLEAN, used : BOOLEAN]
NoReferral == [id |-> 0, open |-> FALSE, used |-> FALSE]

(* What a request carries: the rows it read, and for Google whether the    *)
(* user existed when it looked.                                            *)
Request == [pc : {"idle", "checkActive", "insert", "saveStatus", "lockForReferral",
                  "checkReferral", "saveReferral", "deleteReferral", "unverify",
                  "lockReferral", "lockApp", "enroll"},
            a : Apps, app : App, ref : Referral, google : BOOLEAN, known : BOOLEAN]

TypeOK ==
  /\ app \in [Apps -> App]
  /\ ref \in [Apps -> Referral]
  /\ account \subseteq Emails
  /\ codes \in 0..MaxCodes
  /\ appLock \in [Apps -> Workers \cup {None}]
  /\ refLock \in [Apps -> Workers \cup {None}]
  /\ req \in [Workers -> Request]
  /\ uses \in [Codes -> Nat]
  /\ edits \in [Codes -> Nat]
  /\ raced \subseteq Apps

Absent == [state |-> "absent", email |-> CHOOSE e \in Emails : TRUE, verified |-> FALSE]

(* What an idle worker's request holds does not matter. *)
Idle == [pc |-> "idle", a |-> CHOOSE a \in Apps : TRUE, app |-> Absent,
         ref |-> NoReferral, google |-> FALSE, known |-> FALSE]

Init ==
  /\ app = [a \in Apps |-> Absent]
  /\ ref = [a \in Apps |-> NoReferral]
  /\ account = {}
  /\ codes = 0
  /\ appLock = [a \in Apps |-> None]
  /\ refLock = [a \in Apps |-> None]
  /\ req = [w \in Workers |-> Idle]
  /\ uses = [c \in Codes |-> 0]
  /\ edits = [c \in Codes |-> 0]
  /\ raced = {}

-----------------------------------------------------------------------------
(* Helpers *)

Becomes(w, r) == req' = [req EXCEPT ![w] = r]
Goto(w, label) == Becomes(w, [req[w] EXCEPT !.pc = label])
Answer(w) == Becomes(w, Idle)

Live(a) == app[a].state = "live"
LiveEmails == {app[a].email : a \in {b \in Apps : Live(b)}}

(* The admins' requests, which read a row or wait for its lock at first.   *)
AdminWork == {"saveStatus", "lockForReferral", "checkReferral", "saveReferral",
              "deleteReferral", "unverify"}

Begin(a) ==
  /\ raced' = IF \E v \in Workers : req[v].pc \in AdminWork /\ req[v].a = a
               THEN raced \cup {a} ELSE raced
  /\ UNCHANGED <<uses, edits>>

(* uniq_active_preapp_email would be violated if a were live now *)
EmailTaken(a) == \E b \in Apps \ {a} : Live(b) /\ app[b].email = app[a].email

(* Mutant: the row is selected without FOR UPDATE, or updated past a lock.  *)
MutAppFree(a) == TRUE

AppFree(a) == appLock[a] = None
RefFree(a) == refLock[a] = None

(* Mutant: the referral's lock survives the transaction. *)
MutReleaseLocks(w) ==
  /\ appLock' = [a \in Apps |-> IF appLock[a] = w THEN None ELSE appLock[a]]
  /\ UNCHANGED refLock

(* The end of a transaction gives back every lock its worker holds. *)
ReleaseLocks(w) ==
  /\ appLock' = [a \in Apps |-> IF appLock[a] = w THEN None ELSE appLock[a]]
  /\ refLock' = [a \in Apps |-> IF refLock[a] = w THEN None ELSE refLock[a]]

(* A transaction that changes nothing ends. *)
RollBack(w) == ReleaseLocks(w) /\ Answer(w) /\ UNCHANGED <<rows, counts>>

-----------------------------------------------------------------------------
(* PreApplicationCreateView: validate_email looks for an archived, then    *)
(* for a live application of the address, and the row is inserted.         *)

CheckArchived(w, e) ==
  /\ req[w].pc = "idle"
  /\ \A a \in Apps : app[a].state = "archived" => app[a].email # e
  /\ Becomes(w, [Idle EXCEPT !.pc = "checkActive", !.app.email = e])
  /\ UNCHANGED <<rows, locks, counts>>

CheckActive(w) ==
  /\ req[w].pc = "checkActive"
  /\ IF req[w].app.email \in LiveEmails THEN Answer(w) ELSE Goto(w, "insert")
  /\ UNCHANGED <<rows, locks, counts>>

(* The token is drawn in a transaction of its own: a refused INSERT leaves *)
(* a gap in the tokens and nothing else.                                   *)
InsertApp(w, a) ==
  LET e == req[w].app.email IN
  /\ req[w].pc = "insert"
  /\ app[a].state = "absent"
  /\ app' = IF e \in LiveEmails THEN app
            ELSE [app EXCEPT ![a] = [state |-> "live", email |-> e, verified |-> FALSE]]
  /\ Answer(w)
  /\ UNCHANGED <<ref, account, codes, locks, counts>>

(* allocate_next_enquiry_token at its limit: a ValueError, status 500.   *)
NoToken(w) ==
  /\ req[w].pc = "insert"
  /\ \A a \in Apps : app[a].state # "absent"
  /\ Answer(w)
  /\ UNCHANGED <<rows, locks, counts>>

-----------------------------------------------------------------------------
(* The admins' work on a pre-application *)

(* Archive and restore lock the row and save their own fields.             *)
Archive(a) ==
  /\ Live(a) /\ AppFree(a)
  /\ app' = [app EXCEPT ![a].state = "archived"]
  /\ UNCHANGED <<ref, account, codes, locks, req, counts>>

Restore(a) ==
  /\ app[a].state = "archived" /\ AppFree(a)
  /\ ~EmailTaken(a)
  /\ app' = [app EXCEPT ![a].state = "live"]
  /\ UNCHANGED <<ref, account, codes, locks, req, counts>>

(* The status PATCH reads the row without a lock ...                       *)
ReadStatus(w, a) ==
  /\ req[w].pc = "idle"
  /\ Live(a)
  /\ Becomes(w, [Idle EXCEPT !.pc = "saveStatus", !.a = a, !.app = app[a]])
  /\ Begin(a) /\ UNCHANGED <<rows, locks>>

(* ... and saves every field of what it read.                              *)
SaveStatus(w) ==
  LET a == req[w].a IN
  /\ req[w].pc = "saveStatus"
  /\ AppFree(a)
  /\ app' = IF EmailTaken(a) THEN app ELSE [app EXCEPT ![a] = req[w].app]
  /\ Answer(w)
  /\ UNCHANGED <<ref, account, codes, locks, counts>>

-----------------------------------------------------------------------------
(* A new referral; its status is "not_used". *)
Issued(c) == [id |-> c, open |-> TRUE, used |-> FALSE]

(* create_referral_for_pre_application: one transaction, which locks the   *)
(* application and then looks for a referral, FOR UPDATE too.  It gives up *)
(* if there is one, or if no unused code is found.                         *)

StartReferral(w, a) ==
  /\ req[w].pc = "idle"
  /\ Live(a)
  /\ Becomes(w, [Idle EXCEPT !.pc = "lockForReferral", !.a = a])
  /\ Begin(a) /\ UNCHANGED <<rows, locks>>

LockForReferral(w) ==
  LET a == req[w].a IN
  /\ req[w].pc = "lockForReferral"
  /\ AppFree(a)
  /\ IF Live(a)
     THEN appLock' = [appLock EXCEPT ![a] = w] /\ Goto(w, "checkReferral")
     ELSE Answer(w) /\ UNCHANGED appLock
  /\ UNCHANGED <<rows, refLock, counts>>

IssueReferral(w) ==
  LET a == req[w].a
      c == codes + 1
  IN
  /\ req[w].pc = "checkReferral"
  /\ RefFree(a)
  /\ \/ /\ ref[a].id # 0 \/ c \notin Codes
        /\ RollBack(w)
     \/ /\ ref[a].id = 0 /\ c \in Codes
        /\ codes' = c
        /\ ref' = [ref EXCEPT ![a] = Issued(c)]
        /\ app' = [app EXCEPT ![a].verified = TRUE]
        /\ ReleaseLocks(w)
        /\ Answer(w)
        /\ UNCHANGED <<account, counts>>

-----------------------------------------------------------------------------
(* UpdateReferenceStatusView: an unlocked read, then a save of every field:*)
(* an UPDATE by primary key or, when that row is gone, an INSERT, which the*)
(* one-to-one constraint refuses if the application has a new referral.    *)

ReadReferral(w, a, open) ==
  /\ req[w].pc = "idle"
  /\ Live(a) /\ ref[a].id # 0 /\ edits[ref[a].id] < MaxEdits
  /\ Becomes(w, [Idle EXCEPT !.pc = "saveReferral", !.a = a,
                             !.ref = [ref[a] EXCEPT !.open = open]])
  /\ Begin(a) /\ UNCHANGED <<rows, locks>>

SaveReferral(w) ==
  LET a == req[w].a
      r == req[w].ref
  IN
  /\ req[w].pc = "saveReferral"
  /\ RefFree(a)
  /\ ref[a].id = 0 => AppFree(a)
  /\ IF ref[a].id \in {0, r.id}
     THEN /\ ref' = [ref EXCEPT ![a] = r]
          /\ edits' = [edits EXCEPT ![r.id] = @ + 1]
     ELSE UNCHANGED <<ref, edits>>
  /\ Answer(w)
  /\ UNCHANGED <<app, account, codes, locks, uses, raced>>

(* DeleteReferenceCodeView: an unlocked read, then one transaction with the*)
(* DELETE by primary key and the post_delete handler's UPDATE, which runs  *)
(* even if the DELETE found nothing.                                       *)
ReadForDelete(w, a) ==
  /\ req[w].pc = "idle"
  /\ Live(a) /\ ref[a].id # 0
  /\ Becomes(w, [Idle EXCEPT !.pc = "deleteReferral", !.a = a, !.ref = ref[a]])
  /\ Begin(a) /\ UNCHANGED <<rows, locks>>

DeleteReferral(w) ==
  LET a == req[w].a IN
  /\ req[w].pc = "deleteReferral"
  /\ ref[a].id = req[w].ref.id => RefFree(a)
  /\ refLock' = IF ref[a].id = req[w].ref.id THEN [refLock EXCEPT ![a] = w] ELSE refLock
  /\ Goto(w, "unverify")
  /\ UNCHANGED <<rows, appLock, counts>>

(* Mutant: the handler is not connected. *)
MutUnverified(row) == row

Unverified(row) == [row EXCEPT !.verified = FALSE]

Unverify(w) ==
  LET a == req[w].a IN
  /\ req[w].pc = "unverify"
  /\ AppFree(a)
  /\ app' = [app EXCEPT ![a] = Unverified(@)]
  /\ ref' = IF refLock[a] = w THEN [ref EXCEPT ![a] = NoReferral] ELSE ref
  /\ ReleaseLocks(w)
  /\ Answer(w)
  /\ UNCHANGED <<account, codes, counts>>

-----------------------------------------------------------------------------
(* RegisterAPIView and GoogleAuthView: one transaction, which locks the    *)
(* referral and its application, judges them, and then writes the user,    *)
(* the student rows and the referral.                                      *)

StartRegister(w, a) ==
  /\ req[w].pc = "idle"
  /\ ref[a].id # 0
  /\ Becomes(w, [Idle EXCEPT !.pc = "lockReferral", !.a = a, !.ref = ref[a]])
  /\ UNCHANGED <<rows, locks, counts>>

(* Google's first look at the referral and the user, without a lock.       *)
StartGoogle(w, a) ==
  /\ req[w].pc = "idle"
  /\ ref[a].id # 0 /\ ref[a].open /\ app[a].verified
  /\ Becomes(w, [Idle EXCEPT !.pc = "lockReferral", !.a = a, !.ref = ref[a],
                             !.google = TRUE, !.known = app[a].email \in account])
  /\ UNCHANGED <<rows, locks, counts>>

LockReferral(w) ==
  LET a == req[w].a IN
  /\ req[w].pc = "lockReferral"
  /\ IF ref[a].id = req[w].ref.id
     THEN /\ RefFree(a)
          /\ refLock' = [refLock EXCEPT ![a] = w]
          /\ Goto(w, "lockApp")
     ELSE Answer(w) /\ UNCHANGED refLock
  /\ UNCHANGED <<rows, appLock, counts>>

(* Mutant: the code is judged when it is read and not again when its row   *)
(* is locked.                                                              *)
MutAdmissible(a) == app[a].verified /\ Live(a)

(* The conditions the views check on the locked rows.                      *)
Admissible(a) ==
  /\ ref[a].open /\ ~ref[a].used
  /\ app[a].verified /\ Live(a)

LockApp(w) ==
  LET a == req[w].a IN
  /\ req[w].pc = "lockApp"
  /\ AppFree(a)
  /\ IF Admissible(a) /\ (req[w].google \/ app[a].email \notin account)
     THEN /\ appLock' = [appLock EXCEPT ![a] = w]
          /\ Goto(w, "enroll")
          /\ UNCHANGED <<rows, refLock, counts>>
     ELSE RollBack(w)

(* Mutant: the referral is not saved. *)
MutConsumed(r) == r

Consumed(r) == [r EXCEPT !.open = FALSE, !.used = TRUE]

(* A user that was not there before and is now makes create_user fail: 409.*)
Enroll(w) ==
  LET a == req[w].a
      e == app[a].email
  IN
  /\ req[w].pc = "enroll"
  /\ IF e \in account /\ ~req[w].known
     THEN RollBack(w)
     ELSE /\ account' = account \cup {e}
          /\ ref' = [ref EXCEPT ![a] = Consumed(@)]
          /\ uses' = [uses EXCEPT ![ref[a].id] = @ + 1]
          /\ ReleaseLocks(w)
          /\ Answer(w)
          /\ UNCHANGED <<app, codes, edits, raced>>

-----------------------------------------------------------------------------
(* create_referral locks the application first, the others the referral    *)
(* first.  PostgreSQL breaks such a circle by aborting one of the two      *)
(* transactions, whose request is answered with 500.                       *)
Deadlocked(v, w) ==
  \E a \in Apps :
    /\ req[v].pc = "checkReferral" /\ req[v].a = a /\ refLock[a] = w
    /\ req[w].pc \in {"lockApp", "unverify"} /\ req[w].a = a /\ appLock[a] = v

Abort(w) ==
  /\ \E v \in Workers : Deadlocked(v, w) \/ Deadlocked(w, v)
  /\ RollBack(w)

Serve(w) ==
  \/ CheckActive(w)
  \/ \E a \in Apps : InsertApp(w, a)
  \/ NoToken(w)
  \/ SaveStatus(w)
  \/ LockForReferral(w) \/ IssueReferral(w)
  \/ SaveReferral(w)
  \/ DeleteReferral(w) \/ Unverify(w)
  \/ LockReferral(w) \/ LockApp(w) \/ Enroll(w)
  \/ Abort(w)

Next ==
  \/ \E w \in Workers, e \in Emails : CheckArchived(w, e)
  \/ \E a \in Apps : Archive(a) \/ Restore(a)
  \/ \E w \in Workers, a \in Apps :
       \/ ReadStatus(w, a) \/ StartReferral(w, a)
       \/ \E open \in BOOLEAN : ReadReferral(w, a, open)
       \/ ReadForDelete(w, a)
       \/ StartRegister(w, a) \/ StartGoogle(w, a)
  \/ \E w \in Workers : Serve(w)

Spec == Init /\ [][Next]_vars

(* PostgreSQL grants row locks in turn and breaks deadlocks.  Nobody has   *)
(* to send a request.                                                      *)
FairSpec == Spec /\ \A w \in Workers : SF_vars(Serve(w))

-----------------------------------------------------------------------------
(* While a registration or a Google sign-up writes its rows, everything it *)
(* has checked stays true until it commits: the referral is the one whose  *)
(* code was sent, open and unused, and its application verified and live,  *)
(* whatever the admins save, archive or delete meanwhile.                  *)
AdmittedInGoodStanding ==
  \A w \in Workers : req[w].pc = "enroll" =>
    ref[req[w].a].id = req[w].ref.id /\ Admissible(req[w].a)

(* A referral code lets somebody in once; every further time follows an    *)
(* admin's save of its status (RegisterAPIView, GoogleAuthView,            *)
(* UpdateReferenceStatusView).                                             *)
OneUsePerCode == \A c \in Codes : uses[c] <= 1 + edits[c]

(* No request waits for ever although create_referral and the others lock  *)
(* in opposite orders.                                                     *)
RequestsEnd == \A w \in Workers : (req[w].pc # "idle") ~> (req[w].pc = "idle")

(* An application is verified exactly when it has a referral, unless two   *)
(* admins' requests on it have overlapped: then a status PATCH may have    *)
(* saved its copy of the flag, or post_delete have reset the flag of a     *)
(* referral created since (pre_application/signals.py).                    *)
VerifiedMeansReferred ==
  \A a \in Apps \ raced : app[a].verified <=> ref[a].id # 0

(* Registration and Google sign-up lock and judge in one step, write in    *)
(* another, and admins save copies of rows read long before; yet to        *)
(* whoever sees only what is committed, an account comes to be in one step *)
(* that finds a valid code of an application in good standing and spends it*)
Gate == INSTANCE Admission WITH
  applied  <- {a \in Apps : app[a].state # "absent"},
  email    <- [a \in Apps |-> app[a].email],
  standing <- {a \in Apps : app[a].state = "live" /\ app[a].verified},
  ticket   <- [a \in Apps |-> ref[a].id],
  valid    <- {a \in Apps : ref[a].open /\ ~ref[a].used},
  issued   <- codes,
  members  <- account,
  Applications <- Apps, Addresses <- Emails, Tickets <- Codes

ImplementsAdmission == Gate!GateSpec
=============================================================================
