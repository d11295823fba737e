-------------------------------- MODULE Otp --------------------------------
(***************************************************************************)
(* E-mail one-time passwords: EmailOTP rows, EmailService                  *)
(* (send_verification_otp, verify_otp), the OTP, password-reset and        *)
(* admin-login views, and the hourly cleanup_expired_otps task.            *)
(*                                                                         *)
(* A code is known by the number of its issue, so two codes never agree by *)
(* chance.  verify_otp reads the row, judges it and saves it back as a     *)
(* whole, in autocommit mode and without a lock: the request carries the   *)
(* row it read.  Every action below is one statement of the database.      *)
(***************************************************************************)
EXTENDS Naturals, Sequences, FiniteSets

CONSTANTS
  Users,
  Admins,      \* the users whose role has access to the admin portal
  Purposes,    \* the purposes of a code that are in use
  Workers,     \* web server threads
  Lifetime,    \* how long a code is valid
  Databases,   \* the databases the server may be deployed on
  MaxTime,     \* bound: the clock stops here
  MaxCodes     \* bound: codes ever issued

ASSUME OtpAssumption ==
  /\ Admins \subseteq Users
  /\ Purposes \subseteq {"email_verification", "password_reset", "login_otp"}
  /\ Purposes # {} /\ Users # {}
  /\ {Lifetime, MaxTime, MaxCodes} \subseteq Nat
  /\ Databases \subseteq {"postgresql", "sqlite"}
  /\ IsFiniteSet(Workers)

VARIABLES
  database,       \* the one it is deployed on
  now,
  row,            \* row[u, p]: the EmailOTP row of user u for purpose p
  issued,         \* issued[c]: the user and purpose code c was issued for
  inbox,          \* the codes that reached their user
  emailVerified,  \* CustomUser.email_verified
  req,            \* the request each worker is serving
  uses,           \* how often each code was accepted (history variable)
  resets,         \* how often each code let a password be reset (history variable)
  refused         \* users whose password reset was answered with 500

vars == <<database, now, row, issued, inbox, emailVerified, req, uses, resets,
          refused>>

-----------------------------------------------------------------------------
Keys  == Users \X Purposes
Codes == 1..MaxCodes

(* A row's id is the number of the code it was created for. *)
Row    == [id : 0..MaxCodes, code : 0..MaxCodes, expires : Nat, verified : BOOLEAN]
NoRow  == [id |-> 0, code |-> 0, expires |-> 0, verified |-> FALSE]

Request == [pc : {"idle", "save", "confirm", "password", "delete"},
            key : Keys, snapshot : Row, admin : BOOLEAN]

TypeOK ==
  /\ database \in Databases
  /\ now \in 0..MaxTime
  /\ row \in [Keys -> Row]
  /\ issued \in Seq(Keys) /\ Len(issued) <= MaxCodes
  /\ inbox \subseteq 1..Len(issued)
  /\ emailVerified \in [Users -> BOOLEAN]
  /\ req \in [Workers -> Request]
  /\ uses \in [Codes -> Nat]
  /\ resets \in [Codes -> Nat]
  /\ refused \subseteq Users

(* What an idle worker's request holds does not matter. *)
IdleRequest == [pc |-> "idle", key |-> CHOOSE k \in Keys : TRUE,
                snapshot |-> NoRow, admin |-> FALSE]

Init ==
  /\ database \in Databases
  /\ now = 0
  /\ row = [k \in Keys |-> NoRow]
  /\ issued = <<>>
  /\ inbox = {}
  /\ emailVerified = [u \in Users |-> FALSE]
  /\ req = [w \in Workers |-> IdleRequest]
  /\ uses = [c \in Codes |-> 0]
  /\ resets = [c \in Codes |-> 0]
  /\ refused = {}

-----------------------------------------------------------------------------
Exists(k)  == row[k].id # 0
Expired(r) == now > r.expires

Answer(w) == req' = [req EXCEPT ![w] = IdleRequest]
Goto(w, label) == req' = [req EXCEPT ![w].pc = label]

Tick ==
  /\ now < MaxTime
  /\ now' = now + 1
  /\ UNCHANGED <<database, row, issued, inbox, emailVerified, req, uses, resets, refused>>

(* Mutant: a resend keeps the code that is still in the row. *)
MutKeptCode(k, c) ==
  [id |-> IF Exists(k) THEN row[k].id ELSE c,
   code |-> IF Exists(k) THEN row[k].code ELSE c,
   expires |-> now + Lifetime, verified |-> FALSE]

(* What update_or_create leaves: one row per user and purpose, refreshed. *)
Refreshed(k, c) ==
  [id |-> IF Exists(k) THEN row[k].id ELSE c, code |-> c,
   expires |-> now + Lifetime, verified |-> FALSE]

(* send_verification_otp, from any of its callers; the row is locked for   *)
(* the length of update_or_create.  The mail may or may not arrive.        *)
SendOtp(k, arrives) ==
  LET c == Len(issued) + 1 IN
  /\ c <= MaxCodes
  /\ issued' = Append(issued, k)
  /\ row' = [row EXCEPT ![k] = Refreshed(k, c)]
  /\ inbox' = IF arrives THEN inbox \cup {c} ELSE inbox
  /\ UNCHANGED <<database, now, emailVerified, req, uses, resets, refused>>

(* Mutants: a check of verify_otp left out. *)
MutUnspent(r, c)  == ~Expired(r) /\ r.code = c
MutMatching(r, c) == ~Expired(r) /\ ~r.verified

(* The checks of verify_otp on the row it read. *)
Acceptable(r, c) == ~Expired(r) /\ ~r.verified /\ r.code = c

(* OTPVerificationView and, for an admin's login, RBACAdminOTPVerifyView up *)
(* to the end of the checks.  A user tries a code that he received, maybe   *)
(* for another purpose.                                                     *)
Submit(w, k, c, admin) ==
  /\ req[w].pc = "idle"
  /\ admin => k[1] \in Admins /\ k[2] = "login_otp"
  /\ c \in inbox /\ issued[c][1] = k[1]
  /\ Exists(k)
  /\ Acceptable(row[k], c)
  /\ req' = [req EXCEPT ![w] = [pc |-> "save", key |-> k, snapshot |-> row[k],
                                admin |-> admin]]
  /\ UNCHANGED <<database, now, row, issued, inbox, emailVerified, uses, resets, refused>>

(* A code that fails a check is refused with 400, and nothing changes.     *)
RefuseCode(w) == req[w].pc = "idle" /\ UNCHANGED vars

Marked(r) == [r EXCEPT !.verified = TRUE]

(* otp_instance.save(): an UPDATE by primary key of every field, or, if no *)
(* row has that key any more, an INSERT, which the unique constraint       *)
(* refuses (and the view with it) if the user has a new row.               *)
SaveVerified(w) ==
  LET k == req[w].key
      r == req[w].snapshot
  IN
  /\ req[w].pc = "save"
  /\ \/ /\ row[k].id \in {0, r.id}
        /\ row' = [row EXCEPT ![k] = Marked(r)]
        /\ uses' = [uses EXCEPT ![r.code] = @ + 1]
        /\ IF k[2] = "email_verification" \/ req[w].admin
           THEN Goto(w, "confirm") ELSE Answer(w)
     \/ /\ row[k].id \notin {0, r.id}
        /\ Answer(w)
        /\ UNCHANGED <<row, uses>>
  /\ UNCHANGED <<database, now, issued, inbox, emailVerified, resets, refused>>

(* The user row: email_verified is set for email_verification by           *)
(* verify_otp, and for an admin's login by the login view.                 *)
ConfirmEmail(w) ==
  /\ req[w].pc = "confirm"
  /\ emailVerified' = [emailVerified EXCEPT ![req[w].key[1]] = TRUE]
  /\ Answer(w)
  /\ UNCHANGED <<database, now, row, issued, inbox, uses, resets, refused>>

(* Mutant: any reset row will do, verified or not. *)
MutGateOpen(k) == Exists(k)

GateOpen(k) == Exists(k) /\ row[k].verified

(* PasswordResetView: select_for_update() in autocommit mode.  SQLite      *)
(* ignores the lock and reads the row ...                                  *)
BeginReset(w, u) ==
  LET k == <<u, "password_reset">> IN
  /\ database = "sqlite"
  /\ req[w].pc = "idle"
  /\ k \in Keys /\ GateOpen(k)
  /\ req' = [req EXCEPT ![w] = [pc |-> "password", key |-> k,
                                snapshot |-> row[k], admin |-> FALSE]]
  /\ UNCHANGED <<database, now, row, issued, inbox, emailVerified, uses, resets, refused>>

(* ... while Django refuses the query on PostgreSQL, whatever rows exist.  *)
RefuseReset(u) ==
  /\ database = "postgresql"
  /\ refused' = refused \cup {u}
  /\ UNCHANGED <<database, now, row, issued, inbox, emailVerified, req, uses, resets>>

SetPassword(w) ==
  /\ req[w].pc = "password"
  /\ resets' = [resets EXCEPT ![req[w].snapshot.code] = @ + 1]
  /\ Goto(w, "delete")
  /\ UNCHANGED <<database, now, row, issued, inbox, emailVerified, uses, refused>>

(* Mutant: the view leaves the row to the hourly task. *)
MutDeleted(r, id) == r

Deleted(r, id) == IF r.id = id THEN NoRow ELSE r

(* otp_instance.delete(): a DELETE by primary key. *)
DeleteOtp(w) ==
  /\ req[w].pc = "delete"
  /\ row' = [row EXCEPT ![req[w].key] = Deleted(@, req[w].snapshot.id)]
  /\ Answer(w)
  /\ UNCHANGED <<database, now, issued, inbox, emailVerified, uses, resets, refused>>

(* Mutant: the task spares rows that were verified. *)
MutOverdue(k) == Exists(k) /\ row[k].expires < now /\ ~row[k].verified

Overdue(k) == Exists(k) /\ row[k].expires < now

(* cleanup_expired_otps, one DELETE *)
Cleanup ==
  /\ \E k \in Keys : Overdue(k)
  /\ row' = [k \in Keys |-> IF Overdue(k) THEN NoRow ELSE row[k]]
  /\ UNCHANGED <<database, now, issued, inbox, emailVerified, req, uses, resets, refused>>

Serve(w) == SaveVerified(w) \/ ConfirmEmail(w) \/ SetPassword(w) \/ DeleteOtp(w)

Next ==
  \/ Tick
  \/ \E k \in Keys, arrives \in BOOLEAN : SendOtp(k, arrives)
  \/ \E w \in Workers, k \in Keys, c \in inbox, admin \in BOOLEAN : Submit(w, k, c, admin)
  \/ \E w \in Workers : RefuseCode(w)
  \/ \E w \in Workers, u \in Users : BeginReset(w, u)
  \/ \E u \in Users : RefuseReset(u)
  \/ \E w \in Workers : Serve(w)
  \/ Cleanup

Spec == Init /\ [][Next]_vars

(* Requests in service finish; celery beat runs the cleanup every hour.    *)
FairSpec == Spec /\ WF_vars(Cleanup) /\ \A w \in Workers : WF_vars(Serve(w))

-----------------------------------------------------------------------------
IsLatest(k, c) ==
  issued[c] = k /\ \A d \in c+1..Len(issued) : issued[d] # k

(* A row that can still be verified holds the newest code of its user and  *)
(* purpose: however late an older submission saves its copy of the row, it *)
(* never brings an older code back to life (Refreshed, SaveVerified).      *)
UnverifiedIsLatest ==
  \A k \in Keys : Exists(k) /\ ~row[k].verified => IsLatest(k, row[k].code)

(* A code is accepted at most once by each worker, for only submissions    *)
(* that read the row before the first of them saved it can still be        *)
(* accepted after it (verify_otp: check and save are not atomic).          *)
UsesBounded == \A c \in Codes : uses[c] <= Cardinality(Workers)

(* email_verified is set only for a user who received a code for that very *)
(* purpose, or for an admin's login, and had it accepted (verify_otp,      *)
(* RBACAdminOTPVerifyView).                                                *)
EmailBacked ==
  \A u \in Users : emailVerified[u] =>
    \E c \in inbox :
      /\ uses[c] > 0
      /\ \/ issued[c] = <<u, "email_verification">>
         \/ u \in Admins /\ issued[c] = <<u, "login_otp">>

(* Every password reset was let through by a reset code its user received  *)
(* and had accepted (PasswordResetView's gate).                            *)
ResetBacked ==
  \A c \in Codes : resets[c] > 0 =>
    c \in inbox /\ uses[c] > 0 /\ issued[c][2] = "password_reset"

(* One code lets through a limited number of resets.  Each late save of    *)
(* the row brings it back after its deletion, and then every worker that   *)
(* is free again may read it: 1 + 2 + ... + the number of workers.         *)
ResetsBounded ==
  \A c \in Codes :
    2 * resets[c] <= Cardinality(Workers) * (Cardinality(Workers) + 1)

(* An expired row does not stay: it is deleted or refreshed, also after    *)
(* a late save has brought it back (cleanup_expired_otps).                 *)
ExpiredRowsGo ==
  \A k \in Keys :
    (Exists(k) /\ Expired(row[k])) ~> ~(Exists(k) /\ Expired(row[k]))
=============================================================================
