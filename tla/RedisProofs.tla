----------------------------- MODULE RedisProofs ----------------------------
(***************************************************************************)
(* Proofs about the two components whose state lives in Redis and runs     *)
(* against the clock.  They share no state; Mail's specification has names *)
(* of its own, so that one module can hold both.                           *)
(*                                                                         *)
(* Session, for all lifetimes and any number of sessions and workers.      *)
(*                                                                         *)
(* Mail, for any users, applicants, number of mails and of crashes, and    *)
(* any countdown unit, lifetime and lag with                               *)
(* 7 * Minute + 4 * Lag <= Lifetime.                                       *)
(***************************************************************************)
EXTENDS Session, Mail, TLAPS

(***************************************************************************)
(* An access token is never newer than its refresh token allows, and the   *)
(* flag outlives the refresh token of every session it stands against.     *)
(***************************************************************************)
AgesOK(s) ==
  /\ refreshLeft[s] = 0 => accessLeft[s] < AccessLife
  /\ revoked[s] => refreshLeft[s] <= flagLeft

SessionInv == TypeOK /\ \A s \in Sessions : AgesOK(s)

LEMMA LessType == ASSUME NEW m \in Nat, NEW n \in 0..m PROVE Less(n) \in 0..m
BY SMT DEF Less

\* Counting down keeps the order of two ages.
LEMMA LessOrder ==
  ASSUME NEW a \in Nat, NEW b \in Nat, a <= b PROVE Less(a) <= Less(b)
BY SMT DEF Less

LEMMA Lifetimes ==
  /\ AccessLife \in Nat /\ RefreshLife \in Nat /\ FlagLife \in Nat /\ MeLife \in Nat
  /\ AccessLife > 0 /\ RefreshLife > 0 /\ FlagLife > 0 /\ MeLife > 0
  /\ FlagLife >= RefreshLife /\ MaxEdits \in Nat /\ MaxFaults \in Nat
BY SMT, SessionAssumption DEF SessionAssumption

\* What a program counter may be set to without more.
LEMMA GotoType ==
  ASSUME TypeOK, NEW w \in Workers,
         NEW pc \in {"idle", "invalidate", "clear", "unflag", "forget", "issue"},
         Goto(w, pc)
  PROVE  req' \in [Workers -> Request]
BY SMT DEF TypeOK, Goto, Request

LEMMA FaultType ==
  ASSUME TypeOK, Fault \/ UNCHANGED faults PROVE faults' \in 0..MaxFaults
BY SMT, Lifetimes DEF TypeOK, Fault

LEMMA SessionInitInv == Init => SessionInv
<1> SUFFICES ASSUME Init PROVE SessionInv
  OBVIOUS
<1>1. TypeOK
  BY SMT, Lifetimes DEF Init, TypeOK, Request, Idle, NoAnswer, Roles, PortalRoles
<1>2. ASSUME NEW s \in Sessions PROVE AgesOK(s)
  <2>1. refreshLeft[s] = 0 /\ accessLeft[s] = 0 /\ ~revoked[s]
    BY DEF Init
  <2> QED
    BY <2>1, Lifetimes, SMT DEF AgesOK
<1> QED
  BY <1>1, <1>2 DEF SessionInv

\* Issuing a token pair keeps the ages in order: the new session is not revoked.
LEMMA IssueAges ==
  ASSUME SessionInv, NEW s \in Sessions, Issue(s), UNCHANGED flagLeft
  PROVE  /\ accessLeft' \in [Sessions -> 0..AccessLife]
         /\ refreshLeft' \in [Sessions -> 0..RefreshLife]
         /\ revoked' \in [Sessions -> BOOLEAN]
         /\ \A t \in Sessions : AgesOK(t)'
<1>1. /\ accessLeft' \in [Sessions -> 0..AccessLife]
      /\ refreshLeft' \in [Sessions -> 0..RefreshLife]
      /\ revoked' \in [Sessions -> BOOLEAN]
  BY SMT, Lifetimes DEF SessionInv, TypeOK, Issue
<1>2. ASSUME NEW t \in Sessions PROVE AgesOK(t)'
  <2>1. AgesOK(t)
    BY DEF SessionInv
  <2>2. CASE t = s
    BY <2>2, Lifetimes, SMT DEF SessionInv, TypeOK, Issue, AgesOK
  <2>3. CASE t # s
    BY <2>1, <2>3, SMT DEF SessionInv, TypeOK, Issue, AgesOK
  <2> QED
    BY <2>2, <2>3
<1> QED
  BY <1>1, <1>2

\* Steps that touch neither tokens nor the flag.
LEMMA AgesKept ==
  ASSUME SessionInv, UNCHANGED <<tokens, flagLeft>>
  PROVE  \A s \in Sessions : AgesOK(s)'
BY SMT DEF SessionInv, AgesOK, tokens

LEMMA SessionNextInv == SessionInv /\ [Next]_vars => SessionInv'
<1> SUFFICES ASSUME SessionInv, [Next]_vars PROVE SessionInv'
  OBVIOUS
<1> USE DEF SessionInv
<1>1. ASSUME NEW w \in Workers, NEW s \in Sessions, Login(w, s) PROVE SessionInv'
  <2>1. Issue(s) /\ UNCHANGED <<account, cache, req, faults>>
    BY <1>1 DEF Login
  <2> QED
    BY <2>1, IssueAges, SMT DEF TypeOK, account, cache
<1>2. ASSUME NEW w \in Workers, NEW s \in Sessions, IssuePortal(w, s) PROVE SessionInv'
  <2>1. Issue(s) /\ Goto(w, "idle") /\ UNCHANGED <<account, cache, faults>>
    BY <1>2 DEF IssuePortal
  <2>2. req' \in [Workers -> Request]
    BY <2>1, GotoType
  <2> QED
    BY <2>1, <2>2, IssueAges, SMT DEF TypeOK, account, cache
<1>3. ASSUME NEW s \in Sessions, Refresh(s) PROVE SessionInv'
  <2>1. TypeOK'
    BY <1>3, Lifetimes, SMT DEF Refresh, TypeOK, account, cache
  <2>2. ASSUME NEW t \in Sessions PROVE AgesOK(t)'
    <3>1. AgesOK(t)
      OBVIOUS
    <3>2. CASE t = s
      BY <1>3, <3>1, <3>2, SMT DEF Refresh, AgesOK, TypeOK, cache
    <3>3. CASE t # s
      BY <1>3, <3>1, <3>3, SMT DEF Refresh, AgesOK, TypeOK, cache
    <3> QED
      BY <3>2, <3>3
  <2> QED
    BY <2>1, <2>2
<1>4. ASSUME NEW w \in Workers, LiftFlag(w) PROVE SessionInv'
  <2>1. req' \in [Workers -> Request] /\ faults' \in 0..MaxFaults
    BY <1>4, GotoType, FaultType DEF LiftFlag
  <2>2. flagLeft' \in 0..FlagLife /\ revoked' \in [Sessions -> BOOLEAN]
    <3>1. 0 \in 0..FlagLife
      BY Lifetimes, SMT
    <3> QED
      BY <1>4, <3>1 DEF LiftFlag, TypeOK
  <2>3. TypeOK'
    BY <1>4, <2>1, <2>2, SMT DEF LiftFlag, TypeOK, account
  <2>4. ASSUME NEW t \in Sessions PROVE AgesOK(t)'
    <3>1. AgesOK(t)
      OBVIOUS
    <3>2. CASE revoked' = [s \in Sessions |-> FALSE]
      BY <1>4, <3>1, <3>2, SMT DEF LiftFlag, AgesOK
    <3>3. CASE UNCHANGED <<flagLeft, revoked>>
      BY <1>4, <3>1, <3>3, SMT DEF LiftFlag, AgesOK
    <3> QED
      BY <1>4, <3>2, <3>3 DEF LiftFlag
  <2> QED
    BY <2>3, <2>4
<1>5. ASSUME NEW w \in Workers, SetFlag(w) PROVE SessionInv'
  <2>1. req' \in [Workers -> Request] /\ faults' \in 0..MaxFaults
    BY <1>5, GotoType, FaultType DEF SetFlag
  <2>2. CASE UNCHANGED <<flagLeft, revoked>>
    <3>1. TypeOK'
      BY <1>5, <2>1, <2>2, SMT DEF SetFlag, TypeOK, account
    <3>2. \A t \in Sessions : AgesOK(t)'
      BY <1>5, <2>2, AgesKept DEF SetFlag, tokens
    <3> QED
      BY <3>1, <3>2
  <2>3. CASE /\ flagLeft' = FlagLife
             /\ revoked' = [s \in Sessions |-> revoked[s] \/ ~Free(s)]
    <3>1. flagLeft' \in 0..FlagLife
      BY <2>3, Lifetimes, SMT
    <3>2. revoked' \in [Sessions -> BOOLEAN]
      BY <2>3 DEF TypeOK
    <3>3. TypeOK'
      BY <1>5, <2>1, <3>1, <3>2, SMT DEF SetFlag, TypeOK, account
    <3>4. ASSUME NEW t \in Sessions PROVE AgesOK(t)'
      <4>1. AgesOK(t) /\ refreshLeft[t] \in 0..RefreshLife
        BY DEF TypeOK
      <4>2. accessLeft'[t] = accessLeft[t] /\ refreshLeft'[t] = refreshLeft[t]
        BY <1>5 DEF SetFlag
      <4> QED
        BY <2>3, <4>1, <4>2, Lifetimes, SMT DEF AgesOK
    <3> QED
      BY <3>3, <3>4
  <2> QED
    BY <1>5, <2>2, <2>3 DEF SetFlag
<1>6. ASSUME Tick PROVE SessionInv'
  <2>1. flagLeft' \in 0..FlagLife
    BY <1>6, LessType, Lifetimes DEF Tick, TypeOK
  <2>2. accessLeft' \in [Sessions -> 0..AccessLife]
    BY <1>6, LessType, Lifetimes DEF Tick, TypeOK
  <2>3. refreshLeft' \in [Sessions -> 0..RefreshLife]
    BY <1>6, LessType, Lifetimes DEF Tick, TypeOK
  <2>4. me' \in [PortalRoles -> [left : 0..MeLife, version : 0..MaxEdits]]
    BY <1>6, LessType, Lifetimes, SMT DEF Tick, Aged, TypeOK, Less
  <2>5. TypeOK'
    BY <1>6, <2>1, <2>2, <2>3, <2>4, SMT DEF Tick, TypeOK, account
  <2>6. ASSUME NEW t \in Sessions PROVE AgesOK(t)'
    <3>1. AgesOK(t) /\ accessLeft[t] \in 0..AccessLife /\ refreshLeft[t] \in 0..RefreshLife
      BY DEF TypeOK
    <3>2. accessLeft'[t] = Less(accessLeft[t]) /\ refreshLeft'[t] = Less(refreshLeft[t])
      BY <1>6 DEF Tick
    <3>3. flagLeft' = Less(flagLeft) /\ revoked' = revoked /\ flagLeft \in 0..FlagLife
      BY <1>6 DEF Tick, TypeOK
    <3>4. refreshLeft'[t] = 0 => accessLeft'[t] < AccessLife
      BY <3>1, <3>2, Lifetimes, SMT DEF AgesOK, Less
    <3>5. revoked'[t] => refreshLeft'[t] <= flagLeft'
      BY <3>1, <3>2, <3>3, Lifetimes, SMT DEF AgesOK, Less
    <3> QED
      BY <3>4, <3>5 DEF AgesOK
  <2> QED
    BY <2>5, <2>6
<1>7. ASSUME UNCHANGED <<tokens, flagLeft>>, TypeOK' PROVE SessionInv'
  BY <1>7, AgesKept
<1>8. ASSUME NEW w \in Workers, ChangePassword(w) \/ Answer(w) PROVE SessionInv'
  <2>1. req' \in [Workers -> Request] /\ UNCHANGED <<account, tokens, cache, faults>>
    BY <1>8, GotoType DEF ChangePassword, Answer
  <2> QED
    BY <1>7, <2>1, SMT DEF TypeOK, account, tokens, cache
<1>9. ASSUME NEW w \in Workers, PortalLogin(w) PROVE SessionInv'
  <2>1. req' \in [Workers -> Request]
    BY <1>9, GotoType DEF PortalLogin
  <2> QED
    BY <1>9, <1>7, <2>1, SMT DEF PortalLogin, TypeOK, account, tokens, cache
<1>10. ASSUME NEW w \in Workers, Manage(w) PROVE SessionInv'
  <2>1. req' \in [Workers -> Request]
    BY <1>10, GotoType DEF Manage, UpdateAccess, UpdateRole, Deactivate, Activate, Delete, TypeOK
  <2>2. UNCHANGED <<tokens, cache, faults>>
    BY <1>10 DEF Manage, UpdateAccess, UpdateRole, Deactivate, Activate, Delete
  <2>3. status' \in {"active", "inactive", "deleted"} /\ role' \in Roles /\ edits' \in 0..MaxEdits
    BY <1>10, Lifetimes, SMT
       DEF Manage, UpdateAccess, UpdateRole, Deactivate, Activate, Delete, TypeOK
  <2>4. TypeOK'
    BY <2>1, <2>2, <2>3, SMT DEF TypeOK, tokens, cache
  <2> QED
    BY <1>7, <2>2, <2>4 DEF cache
<1>11. ASSUME NEW w \in Workers, ClearMe(w) PROVE SessionInv'
  <2>1. req' \in [Workers -> Request] /\ faults' \in 0..MaxFaults
    BY <1>11, GotoType, FaultType DEF ClearMe
  <2>2. me' \in [PortalRoles -> [left : 0..MeLife, version : 0..MaxEdits]]
    BY <1>11, Lifetimes, SMT DEF ClearMe, TypeOK, NoAnswer
  <2> QED
    BY <1>11, <1>7, <2>1, <2>2, SMT DEF ClearMe, TypeOK, account, tokens
<1>12. ASSUME NEW w \in Workers, MissMe(w) PROVE SessionInv'
  <2>1. req[w] \in [pc : {"view"}, role : Roles, version : 0..MaxEdits]
    BY <1>12, SMT DEF MissMe, At, TypeOK, Request
  <2>2. req' = [req EXCEPT ![w] = [req[w] EXCEPT !.pc = "fill"]]
    BY <1>12 DEF MissMe, TypeOK
  <2>3. [req[w] EXCEPT !.pc = "fill"] \in Request
    BY <1>12, <2>1 DEF MissMe, Request
  <2>4. req' \in [Workers -> Request]
    BY <2>2, <2>3 DEF TypeOK
  <2>5. faults' \in 0..MaxFaults
    BY <1>12, FaultType DEF MissMe
  <2> QED
    BY <1>12, <1>7, <2>4, <2>5, SMT DEF MissMe, TypeOK, account, tokens, cache
<1>13. ASSUME NEW w \in Workers, FillMe(w) PROVE SessionInv'
  <2>1. req' \in [Workers -> Request] /\ faults' \in 0..MaxFaults
    BY <1>13, GotoType, FaultType DEF FillMe
  <2>2. req[w].role \in PortalRoles /\ req[w].version \in 0..MaxEdits
    BY <1>13, SMT DEF FillMe, At, TypeOK, Request
  <2>3. me' \in [PortalRoles -> [left : 0..MeLife, version : 0..MaxEdits]]
    BY <1>13, <2>2, Lifetimes, SMT DEF FillMe, TypeOK
  <2> QED
    BY <1>13, <1>7, <2>1, <2>3, SMT DEF FillMe, TypeOK, account, tokens
<1>14. ASSUME NEW w \in Workers, Crash(w) PROVE SessionInv'
  <2>1. req' \in [Workers -> Request] /\ faults' \in 0..MaxFaults
    BY <1>14, GotoType, FaultType DEF Crash
  <2> QED
    BY <1>14, <1>7, <2>1, SMT DEF Crash, TypeOK, account, tokens, cache
<1>16. ASSUME NEW w \in Workers, NEW s \in Sessions, Authenticate(w, s) PROVE SessionInv'
  <2>1. req' \in [Workers -> Request]
    BY <1>16, SMT DEF Authenticate, TypeOK, Request
  <2>2. faults' \in 0..MaxFaults
    BY <1>16, FaultType DEF Authenticate, NotInvalidated
  <2> QED
    BY <1>16, <1>7, <2>1, <2>2, SMT DEF Authenticate, TypeOK, account, tokens, cache
<1>15. CASE UNCHANGED vars
  BY <1>15, <1>7, SMT DEF vars, TypeOK, tokens
<1> QED
  BY <1>1, <1>2, <1>3, <1>4, <1>5, <1>6, <1>8, <1>9, <1>10, <1>11, <1>12, <1>13,
     <1>14, <1>15, <1>16 DEF Next, Serve, Arrive

\* In a state of the invariant, a session that the flag was set against and
\* that can still be refreshed, or just was, is stopped by the flag.
LEMMA FlagStops ==
  ASSUME SessionInv, NEW s \in Sessions, revoked[s],
         refreshLeft[s] > 0 \/ accessLeft[s] = AccessLife
  PROVE  flagLeft # 0
<1>1. /\ AgesOK(s) /\ refreshLeft[s] \in 0..RefreshLife
      /\ accessLeft[s] \in 0..AccessLife /\ flagLeft \in 0..FlagLife
  BY DEF SessionInv, TypeOK
<1> QED
  BY <1>1, Lifetimes, SMT DEF AgesOK

\* The state of sessions, flag and cache stays of its type.
THEOREM SessionTypeCorrect == Spec => []TypeOK
<1>1. SessionInv => TypeOK
  BY DEF SessionInv
<1> QED
  BY <1>1, SessionInitInv, SessionNextInv, PTL DEF Spec

\* The flag set by invalidate_user_session outlives every refresh token it
\* stands against, whatever requests, cache failures and kills come in between:
\* authentication lets such a session in only by failing to read the flag.
THEOREM RevokedSessionKeptOut == Spec => RevokedKeptOut
<1> DEFINE Stopped ==
      \A w \in Workers, s \in Sessions :
        /\ revoked[s] /\ (refreshLeft[s] > 0 \/ accessLeft[s] = AccessLife)
        /\ Authenticate(w, s)
        => Fault
<1>1. SessionInv /\ [Next]_vars => [Stopped]_vars
  <2> SUFFICES ASSUME SessionInv PROVE Stopped
    OBVIOUS
  <2> QED
    BY FlagStops DEF Authenticate, NotInvalidated
<1> QED
  BY <1>1, SessionInitInv, SessionNextInv, PTL DEF Spec, RevokedKeptOut

(***************************************************************************)
(* E-mail tasks.                                                           *)
(***************************************************************************)

(* The latest moment the attempt after r retries is due. *)
Elapsed(r) == <<0, 1, 3, 7>>[r + 1] * Minute + r * Lag

(* An OTP mail that no killed worker held back is never older than its     *)
(* attempts so far allow.                                                  *)
Timely ==
  \A m \in Mails :
    mail[m].kind = "otp" /\ In(m, Waiting) /\ m \notin strayed =>
      mail[m].age + mail[m].due <= Elapsed(mail[m].retries)

(* Mails are numbered in the order they were asked for. *)
Contiguous ==
  \A m, n \in Mails : n < m /\ In(n, {"none"}) => In(m, {"none"})

(* Only a killed worker makes a task a stray.                              *)
Held == \A m \in Mails : In(m, {"stray"}) => m \in strayed

(* Codes go to users.                                                      *)
Addressed == \A m \in Mails : mail[m].kind = "otp" => mail[m].to \in Users

(* A code that is used up, or about to be, has arrived.                    *)
SpentArrived ==
  /\ \A u \in Users : row[u].used => row[u].code \in arrived
  /\ \A c \in Clients : seen[c] # Nothing => seen[c].row.code \in arrived

(* The row of an awaited code holds it, unused and as old as its mail.     *)
Stored(m) ==
  LET r == row[mail[m].to] IN r.code = m /\ ~r.used /\ r.age = mail[m].age

Kept ==
  \A m \in Mails : Awaited(m) /\ ~Expired(m) /\ m \notin crossed => Stored(m)

MailInv ==
  MailTypeOK /\ Timely /\ Contiguous /\ Held /\ Addressed /\ SpentArrived /\ Kept

-----------------------------------------------------------------------------
LEMMA Constants == /\ Minute \in Nat /\ Lag \in Nat /\ Lifetime \in Nat
                  /\ MaxMails \in Nat /\ MaxCrashes \in Nat
                  /\ 7 * Minute + 4 * Lag <= Lifetime
BY MailAssumption, SMT DEF MailAssumption

LEMMA BackoffSteps ==
  /\ Countdown(0) = Minute /\ Countdown(1) = 2 * Minute /\ Countdown(2) = 4 * Minute
  /\ Elapsed(0) = 0 /\ Elapsed(1) = Minute + Lag
  /\ Elapsed(2) = 3 * Minute + 2 * Lag /\ Elapsed(3) = 7 * Minute + 3 * Lag
BY Constants, SMT DEF Countdown, Elapsed, Backoff

(* A retry is due one countdown and one lag later than the attempt was.    *)
LEMMA RetryFits ==
  ASSUME NEW r \in 0..MaxRetries, r # MaxRetries
  PROVE  /\ Countdown(r) \in 0..(4 * Minute)
         /\ Elapsed(r) \in Nat
         /\ Elapsed(r + 1) = Elapsed(r) + Lag + Countdown(r)
<1>1. r = 0 \/ r = 1 \/ r = 2
  BY SMT DEF MaxRetries
<1>2. /\ 0 + 1 = 1 /\ 1 + 1 = 2 /\ 2 + 1 = 3
  BY SMT
<1>3. CASE r = 0
  BY <1>2, <1>3, BackoffSteps, Constants, SMT
<1>4. CASE r = 1
  BY <1>2, <1>4, BackoffSteps, Constants, SMT
<1>5. CASE r = 2
  BY <1>2, <1>5, BackoffSteps, Constants, SMT
<1> QED
  BY <1>1, <1>3, <1>4, <1>5

LEMMA ElapsedBound ==
  ASSUME NEW r \in 0..MaxRetries
  PROVE  Elapsed(r) \in Nat /\ Elapsed(r) + Lag <= Lifetime
<1>1. r = 0 \/ r = 1 \/ r = 2 \/ r = 3
  BY SMT DEF MaxRetries
<1> QED
  BY <1>1, BackoffSteps, Constants, SMT

LEMMA MailInitInv == MailInit => MailInv
<1> SUFFICES ASSUME MailInit PROVE MailInv
  OBVIOUS
<1>1. \A m \in Mails : mail[m] \in Task /\ mail[m].state = "none"
  BY Constants, SMT DEF MailInit, Fresh, Task, MaxRetries
<1>2. MailTypeOK
  <2>1. NoRow \in Row /\ 0 \in 0..MaxCrashes
    BY Constants, SMT DEF NoRow, Row
  <2>2. mail \in [Mails -> Task]
    BY <1>1 DEF MailInit
  <2> QED
    BY <2>1, <2>2 DEF MailInit, MailTypeOK
<1>3. Timely /\ Contiguous /\ Held /\ Kept
  BY <1>1, SMT DEF Timely, Contiguous, Held, Kept, Awaited, In, Waiting, UnderWay
<1>4. SpentArrived /\ Addressed
  BY DEF MailInit, SpentArrived, Addressed, NoRow, Fresh
<1> QED
  BY <1>2, <1>3, <1>4 DEF MailInv

(* The rows are as they were, and no mail is awaited that was not before.  *)
LEMMA KeptOn ==
  ASSUME Kept, UNCHANGED row, crossed \subseteq crossed',
         \A n \in Mails :
           Awaited(n)' /\ ~Expired(n)' =>
             /\ Awaited(n) /\ ~Expired(n)
             /\ mail'[n].to = mail[n].to /\ mail'[n].age = mail[n].age
  PROVE  Kept'
BY DEF Kept, Stored

(* A step of one mail on its way: it stays the mail it was, and it is no   *)
(* older than its attempts allow.                                          *)
LEMMA OneMail ==
  ASSUME MailInv, NEW m \in Mails, NEW t \in Task,
         In(m, UnderWay), t.state \notin {"none", "stray"},
         t.kind = mail[m].kind, t.to = mail[m].to,
         mail' = [mail EXCEPT ![m] = t],
         t.state \in Waiting => t.age = mail[m].age,
         t.state \in Waiting /\ t.kind = "otp" /\ m \notin strayed =>
           t.age + t.due <= Elapsed(t.retries),
         UNCHANGED <<mode, stored, strayed, crashes>>,
         arrived \subseteq arrived', arrived' \subseteq arrived \cup {m}
  PROVE  MailInv'
<1>1. mail' \in [Mails -> Task]
  BY DEF MailInv, MailTypeOK
<1>2. /\ mail'[m] = t
      /\ \A n \in Mails : n # m => mail'[n] = mail[n]
  BY DEF MailInv, MailTypeOK
<1>3. MailTypeOK' /\ UNCHANGED <<row, gone, seen, crossed>>
  BY <1>1 DEF MailInv, MailTypeOK, stored
<1>4. Timely'
  BY <1>2 DEF MailInv, Timely, In
<1>5. /\ \A n \in Mails : In(n, {"none"})' <=> In(n, {"none"})
      /\ \A n \in Mails : mail'[n].to = mail[n].to /\ mail'[n].kind = mail[n].kind
      /\ \A n \in Mails : In(n, UnderWay)' => In(n, UnderWay) /\ mail'[n].age = mail[n].age
  BY <1>2 DEF In, UnderWay, Waiting
<1>6. Contiguous' /\ Held' /\ Addressed' /\ SpentArrived'
  BY <1>2, <1>3, <1>5 DEF MailInv, Contiguous, Held, Addressed, SpentArrived, In
<1>7. ASSUME NEW n \in Mails, Awaited(n)', ~Expired(n)'
      PROVE  /\ Awaited(n) /\ ~Expired(n)
             /\ mail'[n].to = mail[n].to /\ mail'[n].age = mail[n].age
  <2>1. In(n, UnderWay)' /\ mail'[n].age = mail[n].age
    BY <1>5, <1>7 DEF Awaited
  <2> QED
    BY <1>3, <1>5, <1>7, <2>1 DEF Awaited, Expired
<1>8. Kept'
  BY <1>3, <1>7, KeptOn DEF MailInv
<1> QED
  BY <1>3, <1>4, <1>6, <1>8 DEF MailInv

LEMMA SettleType ==
  ASSUME NEW t \in Task, NEW s \in Settled
  PROVE  /\ Settle(t, s) \in Task
         /\ Settle(t, s).state = s /\ s \notin {"none", "stray"} /\ s \notin Waiting
         /\ Settle(t, s).kind = t.kind /\ Settle(t, s).to = t.to
BY Constants, SMT DEF Settle, Fresh, Task, Settled, Waiting, MaxRetries

LEMMA StoredRowType ==
  ASSUME MailTypeOK, NEW u \in Users, NEW m \in Mails
  PROVE  /\ StoredRow(u, m) \in Row
         /\ StoredRow(u, m).code = m /\ ~StoredRow(u, m).used /\ StoredRow(u, m).age = 0
<1>1. m \in 0..MaxMails /\ row[u].key \in 0..MaxMails /\ 0 \in 0..(Lifetime + 1)
  BY Constants, SMT DEF MailTypeOK, Row, Mails
<1> QED
  BY <1>1 DEF StoredRow, Row

(* A new mail takes the next number, and its code is stored.               *)
LEMMA NewMail ==
  ASSUME MailInv, NEW m \in Mails, IsNext(m),
         NEW kind \in {"otp", "approval"}, NEW to \in Users \cup Applicants,
         mail' = [mail EXCEPT ![m] = Fresh(kind, to, "stored")],
         referred' \subseteq Applicants,
         kind = "otp" => to \in Users /\ row' = [row EXCEPT ![to] = StoredRow(to, m)],
         kind = "approval" => UNCHANGED row,
         UNCHANGED <<mode, gone, seen, arrived, strayed, crossed, crashes>>
  PROVE  MailInv'
<1> DEFINE t == Fresh(kind, to, "stored")
<1>1. /\ t \in Task /\ t.state = "stored" /\ t.kind = kind /\ t.to = to
      /\ t.age = 0 /\ t.due = 0 /\ t.retries = 0
  BY Constants, SMT DEF Fresh, Task, Waiting, MaxRetries
<1>2. /\ mail' \in [Mails -> Task]
      /\ mail'[m] = t
      /\ \A n \in Mails : n # m => mail'[n] = mail[n]
  BY <1>1 DEF MailInv, MailTypeOK
<1> HIDE DEF t
<1>3. /\ row' \in [Users -> Row]
      /\ \A u \in Users : (kind = "otp" /\ u = to) \/ row'[u] = row[u]
      /\ kind = "otp" => /\ row'[to].code = m /\ ~row'[to].used /\ row'[to].age = 0
  <2>1. CASE kind = "otp"
    BY <2>1, StoredRowType DEF MailInv, MailTypeOK
  <2>2. CASE kind = "approval"
    BY <2>2 DEF MailInv, MailTypeOK
  <2> QED
    BY <2>1, <2>2
<1>4. MailTypeOK'
  BY <1>2, <1>3 DEF MailInv, MailTypeOK
<1>5. Timely'
  BY <1>1, <1>2, BackoffSteps, SMT DEF MailInv, Timely, In
<1>6. \A n \in Mails : ~In(n, {"none"}) => n < m
  BY SMT DEF MailInv, Contiguous, IsNext, In, Mails
<1>7. ~In(m, {"none"})' /\ \A n \in Mails : n # m => (In(n, {"none"})' <=> In(n, {"none"}))
  BY <1>1, <1>2 DEF In
<1>8. Contiguous'
  BY <1>7, Constants, SMT DEF MailInv, Contiguous, IsNext, Mails
<1>9. Held' /\ Addressed'
  BY <1>1, <1>2 DEF MailInv, Held, Addressed, In
<1>10. SpentArrived'
  BY <1>3 DEF MailInv, SpentArrived
<1>11. Kept'
  <2> SUFFICES ASSUME NEW n \in Mails, Awaited(n)', ~Expired(n)', n \notin crossed'
               PROVE  Stored(n)'
    BY DEF Kept
  <2>1. CASE n = m
    BY <2>1, <1>1, <1>2, <1>3 DEF Awaited, Stored
  <2>2. CASE n # m
    <3>1. mail'[n] = mail[n] /\ In(n, UnderWay) /\ ~In(n, {"none"}) /\ n < m
      BY <2>2, <1>2, <1>6 DEF Awaited, In, UnderWay, Waiting
    <3>2. mail[n].to # to
      BY <3>1, <1>1, <1>2, <1>7, SMT DEF Awaited, Mails
    <3>3. Awaited(n)
      <4>1. ASSUME NEW k \in Mails, k > n, mail[k].to = mail[n].to PROVE In(k, {"none"})
        <5>1. CASE k = m
          BY <5>1 DEF IsNext
        <5>2. CASE k # m
          BY <3>1, <4>1, <5>2, <1>2, <1>7 DEF Awaited
        <5> QED
          BY <5>1, <5>2
      <4> QED
        BY <3>1, <4>1 DEF Awaited
    <3>4. Stored(n) /\ row'[mail[n].to] = row[mail[n].to]
      <4>1. ~Expired(n) /\ n \notin crossed
        BY <3>1 DEF Expired
      <4>2. Stored(n)
        BY <3>3, <4>1 DEF MailInv, Kept
      <4>3. mail[n].to \in Users
        BY <3>3 DEF MailInv, Addressed, Awaited
      <4> QED
        BY <3>2, <4>2, <4>3, <1>3
    <3> QED
      BY <3>1, <3>4 DEF Stored
  <2> QED
    BY <2>1, <2>2
<1> QED
  BY <1>4, <1>5, <1>8, <1>9, <1>10, <1>11 DEF MailInv

(* A task stays one when some of its fields change within their ranges.    *)
LEMMA ChangedType ==
  ASSUME NEW t \in Task, NEW d \in -Lag..(4 * Minute), NEW n \in 0..MaxRetries,
         NEW a \in 0..(Lifetime + 1), NEW s \in {"none", "stray"} \cup Waiting \cup Settled
  PROVE  /\ [t EXCEPT !.state = s] \in Task
         /\ [t EXCEPT !.state = s, !.due = d, !.retries = n] \in Task
         /\ [t EXCEPT !.state = s, !.due = d] \in Task
         /\ [t EXCEPT !.due = d, !.age = a] \in Task
<1> DEFINE D == -Lag..(4 * Minute)
           N == 0..MaxRetries
           A == 0..(Lifetime + 1)
           S == {"none", "stray"} \cup Waiting \cup Settled
           T == Users \cup Applicants
           K == {"otp", "approval"}
<1>1. Task = [kind : K, to : T, state : S, retries : N, due : D, age : A]
  BY DEF Task
<1>2. s \in S /\ d \in D /\ n \in N /\ a \in A
  OBVIOUS
<1> HIDE DEF D, N, A, S, T, K
<1> QED
  BY <1>1, <1>2

LEMMA RetriedType ==
  ASSUME NEW t \in Task, mode \in Modes
  PROVE  /\ Retried(t) \in Task
         /\ Retried(t).state \notin {"none", "stray"}
         /\ Retried(t).kind = t.kind /\ Retried(t).to = t.to
         /\ Retried(t).state \in Waiting /\ t.age + t.due <= Elapsed(t.retries) =>
              Retried(t).age + Retried(t).due <= Elapsed(Retried(t).retries)
         /\ Retried(t).state \in Waiting => Retried(t).age = t.age
<1>1. CASE mode = "eager" \/ t.retries = MaxRetries
  BY <1>1, SettleType, Zenon DEF Retried, Settled
<1>2. CASE ~(mode = "eager" \/ t.retries = MaxRetries)
  <2> DEFINE r == t.retries
  <2>1. r \in 0..MaxRetries /\ r # MaxRetries /\ t.age \in Nat /\ t.due \in Int /\ -Lag <= t.due
    BY <1>2, Constants, SMT DEF Task
  <2>2. Retried(t) = [t EXCEPT !.state = "queued", !.due = Countdown(r), !.retries = r + 1]
    BY <1>2 DEF Retried
  <2>3. /\ Countdown(r) \in 0..(4 * Minute)
        /\ Elapsed(r) \in Nat
        /\ Elapsed(r + 1) = Elapsed(r) + Lag + Countdown(r)
    BY <2>1, RetryFits
  <2> HIDE DEF r
  <2>4. r + 1 \in 0..MaxRetries /\ Countdown(r) \in -Lag..(4 * Minute)
    BY <2>1, <2>3, Constants, SMT DEF MaxRetries
  <2> DEFINE c == Countdown(r)
             x == [t EXCEPT !.state = "queued", !.due = c, !.retries = r + 1]
  <2> HIDE DEF c
  <2>5. x \in Task
    <3>1. "queued" \in {"none", "stray"} \cup Waiting \cup Settled /\ 0 \in 0..(Lifetime + 1)
      BY Constants, SMT DEF Waiting
    <3> QED
      BY <2>4, <3>1, ChangedType DEF c
  <2>7. /\ x.state = "queued" /\ x.kind = t.kind /\ x.to = t.to
        /\ x.age = t.age /\ x.due = c /\ x.retries = r + 1
    BY DEF Task
  <2>8. Retried(t) = x
    BY <2>2 DEF c
  <2>6. t.age + t.due <= Elapsed(r) => t.age + Countdown(r) <= Elapsed(r + 1)
    BY <2>1, <2>3, Constants, SMT
  <2> QED
    BY <2>5, <2>6, <2>7, <2>8 DEF r, c, Waiting
<1> QED
  BY <1>1, <1>2

(* An attempt of an OTP mail that was not held back is in time.            *)
LEMMA RunInTime ==
  ASSUME MailInv, NEW m \in Mails, In(m, {"running"}), m \notin strayed
  PROVE  ~Expired(m)
<1> SUFFICES ASSUME mail[m].kind = "otp" PROVE ~(mail[m].age > Lifetime)
  BY DEF Expired
<1>1. mail[m].age + mail[m].due <= Elapsed(mail[m].retries)
  BY DEF MailInv, Timely, In, Waiting
<1>2. /\ mail[m].age \in Nat /\ mail[m].due \in Int /\ -Lag <= mail[m].due
      /\ mail[m].retries \in 0..MaxRetries
  BY Constants, SMT DEF MailInv, MailTypeOK, Task
<1>3. Elapsed(mail[m].retries) \in Nat /\ Elapsed(mail[m].retries) + Lag <= Lifetime
  BY <1>2, ElapsedBound
<1> QED
  BY <1>1, <1>2, <1>3, Constants, SMT

(* Moving one mail on its way to another state and nothing else.           *)
LEMMA MovedType ==
  ASSUME NEW t \in Task, NEW s \in {"queued", "running", "stray"}
  PROVE  /\ [t EXCEPT !.state = s] \in Task
         /\ [t EXCEPT !.state = s, !.due = 0] \in Task
<1>1. /\ s \in {"none", "stray"} \cup Waiting \cup Settled /\ 0 \in -Lag..(4 * Minute)
      /\ 0 \in 0..MaxRetries /\ 0 \in 0..(Lifetime + 1)
  BY Constants, SMT DEF Waiting, MaxRetries
<1> QED
  BY <1>1, ChangedType

LEMMA MoveInv ==
  ASSUME MailInv, NEW m \in Mails, NEW s \in {"queued", "running"},
         In(m, Waiting) \/ In(m, {"stray"}),
         mail' = [mail EXCEPT ![m].state = s],
         UNCHANGED <<mode, stored, arrived, strayed, crashes>>
  PROVE  MailInv'
<1> DEFINE t == [mail[m] EXCEPT !.state = s]
<1>1. mail[m] \in Task
  BY DEF MailInv, MailTypeOK
<1>2. t \in Task
  BY <1>1, MovedType
<1>3. /\ t.state = s /\ s \notin {"none", "stray"} /\ t.kind = mail[m].kind /\ t.to = mail[m].to
      /\ t.age = mail[m].age /\ t.due = mail[m].due /\ t.retries = mail[m].retries
  BY <1>1 DEF Task
<1>4. mail' = [mail EXCEPT ![m] = t]
  BY DEF MailInv, MailTypeOK
<1>5. t.state \in Waiting /\ t.kind = "otp" /\ m \notin strayed =>
        t.age + t.due <= Elapsed(t.retries)
  BY <1>3 DEF MailInv, Timely, Held
<1>6. In(m, UnderWay)
  BY DEF In, UnderWay
<1> HIDE DEF t
<1> QED
  BY <1>2, <1>3, <1>4, <1>5, <1>6, OneMail

LEMMA SettleInv ==
  ASSUME MailInv, NEW m \in Mails, In(m, Waiting), NEW s \in Settled,
         mail' = [mail EXCEPT ![m] = Settle(@, s)],
         UNCHANGED <<mode, stored, arrived, strayed, crashes>>
  PROVE  MailInv'
<1>1. mail[m] \in Task /\ In(m, UnderWay)
  BY DEF MailInv, MailTypeOK, In, UnderWay
<1>2. mail' = [mail EXCEPT ![m] = Settle(mail[m], s)]
  BY DEF MailInv, MailTypeOK
<1> QED
  BY <1>1, <1>2, SettleType, OneMail

(* The end of an attempt.                                                  *)
LEMMA RunInv ==
  ASSUME MailInv, NEW m \in Mails, NEW accepted \in BOOLEAN, NEW raised \in BOOLEAN,
         Run(m, accepted, raised)
  PROVE  MailInv'
<1> DEFINE t == IF raised THEN Retried(mail[m]) ELSE Settle(mail[m], "sent")
<1>1. mail[m] \in Task /\ mode \in Modes
  BY DEF MailInv, MailTypeOK
<1>2. mail' = [mail EXCEPT ![m] = t]
  BY DEF Run, MailInv, MailTypeOK
<1>3. In(m, Waiting) /\ In(m, UnderWay)
  BY DEF Run, In, Waiting, UnderWay
<1>4. t \in Task /\ t.state \notin {"none", "stray"} /\ t.kind = mail[m].kind /\ t.to = mail[m].to
  BY <1>1, RetriedType, SettleType, Zenon DEF Settled
<1>5. t.state \in Waiting => raised
  BY <1>1, SettleType, Zenon DEF Settled
<1>6. t.state \in Waiting /\ t.kind = "otp" /\ m \notin strayed =>
        t.age + t.due <= Elapsed(t.retries)
  <2> SUFFICES ASSUME t.state \in Waiting, t.kind = "otp", m \notin strayed
               PROVE  t.age + t.due <= Elapsed(t.retries)
    OBVIOUS
  <2>1. mail[m].age + mail[m].due <= Elapsed(mail[m].retries)
    BY <1>3, <1>4 DEF MailInv, Timely
  <2> QED
    BY <1>1, <1>5, <2>1, RetriedType
<1>7. t.state \in Waiting => t.age = mail[m].age
  BY <1>1, <1>5, RetriedType
<1>8. /\ arrived \subseteq arrived' /\ arrived' \subseteq arrived \cup {m}
      /\ UNCHANGED <<mode, stored, strayed, crashes>>
  BY DEF Run
<1> HIDE DEF t
<1> QED
  BY <1>2, <1>3, <1>4, <1>6, <1>7, <1>8, OneMail

LEMMA DieInv ==
  ASSUME MailInv, NEW held \in SUBSET Mails, WorkerDies(held)
  PROVE  MailInv'
<1>1. \A m \in Mails : mail[m] \in Task
  BY DEF MailInv, MailTypeOK
<1>2. ASSUME NEW m \in Mails
      PROVE  /\ mail'[m] \in Task
             /\ mail'[m].kind = mail[m].kind /\ mail'[m].to = mail[m].to
             /\ In(m, {"none"})' <=> In(m, {"none"})
             /\ In(m, Waiting)' => mail'[m] = mail[m]
             /\ In(m, UnderWay)' => In(m, UnderWay) /\ mail'[m].age = mail[m].age
  <2>1. CASE m \notin held
    BY <1>1, <2>1 DEF WorkerDies, In
  <2>2. CASE m \in held /\ In(m, {"running"})
    <3>1. mail'[m] = Settle(mail[m], "lost") /\ "lost" \in Settled
      BY <2>2 DEF WorkerDies, Settled
    <3>2. /\ mail'[m] \in Task /\ mail'[m].state = "lost"
          /\ mail'[m].kind = mail[m].kind /\ mail'[m].to = mail[m].to
      BY <1>1, <3>1, SettleType
    <3> QED
      BY <2>2, <3>2 DEF In, Waiting, UnderWay
  <2>3. CASE m \in held /\ ~In(m, {"running"})
    <3>1. mail'[m] = [mail[m] EXCEPT !.state = "stray", !.due = 0]
      BY <2>3 DEF WorkerDies
    <3>2. In(m, {"queued"})
      BY <2>3 DEF WorkerDies, In
    <3>3. mail'[m] \in Task
      BY <1>1, <3>1, MovedType
    <3> QED
      BY <1>1, <3>1, <3>2, <3>3 DEF In, Waiting, UnderWay, Task
  <2> QED
    BY <2>1, <2>2, <2>3
<1>3. mail' \in [Mails -> Task]
  BY <1>2 DEF WorkerDies
<1>4. /\ strayed \subseteq strayed' /\ strayed' \subseteq Mails
      /\ crashes' \in 0..MaxCrashes
      /\ UNCHANGED <<mode, row, gone, seen, referred, crossed, arrived>>
  <2>1. crashes \in 0..MaxCrashes /\ crashes < MaxCrashes /\ crashes' = crashes + 1
    BY DEF WorkerDies, MailInv, MailTypeOK
  <2>2. crashes' \in 0..MaxCrashes
    BY <2>1, Constants, SMT
  <2> QED
    BY <2>2, Zenon DEF WorkerDies, MailInv, MailTypeOK, stored
<1>5. MailTypeOK'
  BY <1>3, <1>4 DEF MailInv, MailTypeOK
<1>6. Timely'
  BY <1>2, <1>4 DEF MailInv, Timely, In
<1>7. Contiguous' /\ Addressed' /\ SpentArrived'
  BY <1>2, <1>4 DEF MailInv, Contiguous, Addressed, SpentArrived
<1>8. Held'
  <2> SUFFICES ASSUME NEW m \in Mails, In(m, {"stray"})' PROVE m \in strayed'
    BY DEF Held
  <2>1. CASE m \notin held
    BY <1>4, <2>1 DEF WorkerDies, MailInv, Held, In
  <2>2. CASE m \in held /\ In(m, {"running"})
    BY <2>2 DEF WorkerDies, In, Settle, Fresh
  <2>3. CASE m \in held /\ ~In(m, {"running"})
    BY <2>3 DEF WorkerDies, In
  <2> QED
    BY <2>1, <2>2, <2>3
<1>9. ASSUME NEW n \in Mails, Awaited(n)', ~Expired(n)'
      PROVE  /\ Awaited(n) /\ ~Expired(n)
             /\ mail'[n].to = mail[n].to /\ mail'[n].age = mail[n].age
  BY <1>2, <1>4, <1>9 DEF Awaited, Expired
<1>10. Kept'
  BY <1>4, <1>9, KeptOn DEF MailInv
<1> QED
  BY <1>5, <1>6, <1>7, <1>8, <1>10 DEF MailInv

-----------------------------------------------------------------------------
(* Steps that leave the mails and what became of them alone.               *)
LEMMA MailsAlone ==
  ASSUME MailInv, MailTypeOK', SpentArrived', Kept',
         UNCHANGED <<mail, arrived, strayed>>
  PROVE  MailInv'
BY DEF MailInv, Timely, Contiguous, Held, Addressed, In

(* A client reads a row.                                                   *)
LEMMA ReadInv ==
  ASSUME MailInv, NEW c \in Clients, NEW u \in Users, Check(c, u) \/ BeginReset(c, u)
  PROVE  MailInv'
<1>1. PICK what \in {"save", "delete"} :
        seen' = [seen EXCEPT ![c] = [then |-> what, to |-> u, row |-> row[u]]]
  BY DEF Check, BeginReset
<1>2. UNCHANGED <<mode, row, gone, referred, mail, arrived, strayed, crossed, crashes>>
  BY DEF Check, BeginReset
<1>3. [then |-> what, to |-> u, row |-> row[u]] \in Copy
  BY DEF MailInv, MailTypeOK, Copy
<1>4. MailTypeOK'
  BY <1>1, <1>2, <1>3 DEF MailInv, MailTypeOK
<1>5. row[u].code \in arrived
  BY DEF Check, BeginReset, MailInv, SpentArrived
<1>6. SpentArrived'
  BY <1>1, <1>2, <1>5 DEF MailInv, MailTypeOK, SpentArrived
<1>7. Kept'
  BY <1>2 DEF MailInv, Kept, Awaited, Expired, Stored, In
<1> QED
  BY <1>2, <1>4, <1>6, <1>7, MailsAlone

(* A client writes the row with the key of its copy, or deletes it: a code *)
(* that this takes away is recorded as crossed.                            *)
LEMMA WriteInv ==
  ASSUME MailInv, NEW c \in Clients, seen[c] # Nothing,
         NEW r \in Row, r.used => r.code \in arrived,
         row' = [row EXCEPT ![seen[c].to] = r],
         crossed' = crossed \cup Newer(c),
         seen' = [seen EXCEPT ![c] = Nothing],
         UNCHANGED <<mode, gone, referred, mail, arrived, strayed, crashes>>
  PROVE  MailInv'
<1>1. seen[c] \in Copy /\ seen[c].to \in Users /\ seen[c].row.code \in arrived
  BY DEF MailInv, MailTypeOK, SpentArrived, Copy
<1>2. Newer(c) \subseteq Mails
  <2>1. row[seen[c].to].code \in 0..MaxMails
    BY <1>1 DEF MailInv, MailTypeOK, Row
  <2> QED
    BY <2>1, Constants, SMT DEF Newer, Mails
<1>3. MailTypeOK'
  BY <1>1, <1>2 DEF MailInv, MailTypeOK
<1>4. SpentArrived'
  BY <1>1 DEF MailInv, MailTypeOK, SpentArrived
<1>5. Kept'
  <2> SUFFICES ASSUME NEW n \in Mails, Awaited(n)', ~Expired(n)', n \notin crossed'
               PROVE  Stored(n)'
    BY DEF Kept
  <2>1. Awaited(n) /\ ~Expired(n) /\ n \notin crossed
    BY DEF Awaited, Expired, In
  <2>2. Stored(n)
    BY <2>1 DEF MailInv, Kept
  <2>3. mail[n].to # seen[c].to
    <3>1. n # 0
      BY SMT DEF Mails
    <3> QED
      BY <1>1, <2>1, <2>2, <3>1 DEF Stored, Newer, Awaited
  <2>4. mail[n].to \in Users
    BY <2>1 DEF MailInv, Addressed, Awaited
  <2> QED
    BY <2>2, <2>3, <2>4 DEF Stored, MailInv, MailTypeOK
<1> QED
  BY <1>3, <1>4, <1>5, MailsAlone

(* A client's write finds the row gone or another one in its place.        *)
LEMMA NoWriteInv ==
  ASSUME MailInv, NEW c \in Clients, seen' = [seen EXCEPT ![c] = Nothing],
         UNCHANGED <<mode, row, gone, referred, mail, arrived, strayed, crossed, crashes>>
  PROVE  MailInv'
<1>1. MailTypeOK'
  BY DEF MailInv, MailTypeOK
<1>2. SpentArrived'
  BY DEF MailInv, MailTypeOK, SpentArrived
<1>3. Kept'
  BY DEF MailInv, Kept, Awaited, Expired, Stored, In
<1> QED
  BY <1>1, <1>2, <1>3, MailsAlone

LEMMA NoRowType == NoRow \in Row /\ ~NoRow.used
<1>1. 0 \in 0..MaxMails /\ 0 \in 0..(Lifetime + 1)
  BY Constants, SMT
<1> QED
  BY <1>1 DEF NoRow, Row

LEMMA ClientInv ==
  ASSUME MailInv, NEW c \in Clients, SaveUsed(c) \/ DeleteUsed(c)
  PROVE  MailInv'
<1>1. seen[c] # Nothing
  BY DEF SaveUsed, DeleteUsed, Nothing
<1>2. seen[c] \in Copy /\ seen[c].row \in Row /\ seen[c].row.code \in arrived
  BY <1>1 DEF MailInv, MailTypeOK, SpentArrived, Copy
<1>3. /\ seen' = [seen EXCEPT ![c] = Nothing]
      /\ UNCHANGED <<mode, gone, referred, mail, arrived, strayed, crashes>>
  BY DEF SaveUsed, DeleteUsed
<1>4. CASE UNCHANGED <<row, crossed>>
  BY <1>3, <1>4, NoWriteInv
<1>5. CASE /\ SaveUsed(c) /\ crossed' = crossed \cup Newer(c)
           /\ row' = [row EXCEPT ![seen[c].to] = [seen[c].row EXCEPT !.used = TRUE]]
  <2> DEFINE r == [seen[c].row EXCEPT !.used = TRUE]
  <2>1. r \in Row /\ r.code \in arrived
    BY <1>2 DEF Row
  <2> HIDE DEF r
  <2>2. row' = [row EXCEPT ![seen[c].to] = r]
    BY <1>5 DEF r
  <2> QED
    BY <1>1, <1>3, <1>5, <2>1, <2>2, WriteInv
<1>6. CASE /\ DeleteUsed(c) /\ crossed' = crossed \cup Newer(c)
           /\ row' = [row EXCEPT ![seen[c].to] = NoRow]
  BY <1>1, <1>3, <1>6, NoRowType, WriteInv
<1> QED
  BY <1>4, <1>5, <1>6 DEF SaveUsed, DeleteUsed

(* The clean-up takes away only what has expired.                          *)
LEMMA CleanUpInv == ASSUME MailInv, CleanUp PROVE MailInv'
<1>1. /\ UNCHANGED <<mode, gone, seen, referred, mail, arrived, strayed, crossed, crashes>>
      /\ row' = [u \in Users |-> IF IsOld(u) THEN NoRow ELSE row[u]]
  BY DEF CleanUp
<1>2. MailTypeOK'
  BY <1>1, NoRowType DEF MailInv, MailTypeOK
<1>3. SpentArrived'
  BY <1>1, NoRowType DEF MailInv, SpentArrived
<1>4. Kept'
  <2> SUFFICES ASSUME NEW n \in Mails, Awaited(n)', ~Expired(n)', n \notin crossed'
               PROVE  Stored(n)'
    BY DEF Kept
  <2>1. Awaited(n) /\ ~Expired(n) /\ n \notin crossed
    BY <1>1 DEF Awaited, Expired, In
  <2>2. Stored(n) /\ mail[n].to \in Users
    BY <2>1 DEF MailInv, Kept, Addressed, Awaited
  <2>3. ~IsOld(mail[n].to)
    BY <2>1, <2>2 DEF Stored, IsOld, Expired, Awaited
  <2> QED
    BY <1>1, <2>2, <2>3 DEF Stored
<1> QED
  BY <1>1, <1>2, <1>3, <1>4, MailsAlone

LEMMA DeleteUserInv == ASSUME MailInv, NEW u \in Users, DeleteUser(u) PROVE MailInv'
<1>1. /\ UNCHANGED <<mode, seen, referred, mail, arrived, strayed, crossed, crashes>>
      /\ row' = [row EXCEPT ![u] = NoRow] /\ gone' = gone \cup {u}
  BY DEF DeleteUser
<1>2. MailTypeOK'
  BY <1>1, NoRowType DEF MailInv, MailTypeOK
<1>3. SpentArrived'
  BY <1>1, NoRowType DEF MailInv, MailTypeOK, SpentArrived
<1>4. Kept'
  <2> SUFFICES ASSUME NEW n \in Mails, Awaited(n)', ~Expired(n)', n \notin crossed'
               PROVE  Stored(n)'
    BY DEF Kept
  <2>1. Awaited(n) /\ ~Expired(n) /\ n \notin crossed /\ mail[n].to # u
    BY <1>1 DEF Awaited, Expired, In
  <2>2. Stored(n) /\ mail[n].to \in Users
    BY <2>1 DEF MailInv, Kept, Addressed, Awaited
  <2> QED
    BY <1>1, <2>1, <2>2 DEF Stored, MailInv, MailTypeOK
<1> QED
  BY <1>1, <1>2, <1>3, <1>4, MailsAlone

-----------------------------------------------------------------------------
LEMMA OlderType ==
  ASSUME NEW a \in 0..(Lifetime + 1)
  PROVE  Older(a) \in 0..(Lifetime + 1) /\ a <= Older(a) /\ Older(a) <= a + 1
BY Constants, SMT DEF Older

LEMMA RowLaterType ==
  ASSUME NEW r \in Row
  PROVE  /\ RowLater(r) \in Row
         /\ RowLater(r).code = r.code /\ RowLater(r).used = r.used
         /\ r.code # 0 => RowLater(r).age = Older(r.age)
<1>1. CASE r.code = 0
  BY <1>1 DEF RowLater
<1>2. CASE r.code # 0
  <2> DEFINE a == Older(r.age)
  <2>1. a \in 0..(Lifetime + 1)
    BY OlderType DEF Row
  <2>2. RowLater(r) = [r EXCEPT !.age = a]
    BY <1>2 DEF RowLater
  <2> HIDE DEF a
  <2>3. /\ [r EXCEPT !.age = a] \in Row
        /\ [r EXCEPT !.age = a].code = r.code /\ [r EXCEPT !.age = a].used = r.used
        /\ [r EXCEPT !.age = a].age = a
    BY <2>1 DEF Row
  <2> QED
    BY <2>2, <2>3 DEF a
<1> QED
  BY <1>1, <1>2

LEMMA SeenLaterType ==
  ASSUME NEW s \in Copy \cup {Nothing}
  PROVE  /\ SeenLater(s) \in Copy \cup {Nothing}
         /\ SeenLater(s) # Nothing => s # Nothing /\ SeenLater(s).row.code = s.row.code
<1>1. CASE s = Nothing
  BY <1>1 DEF SeenLater
<1>2. CASE s # Nothing
  <2> DEFINE q == RowLater(s.row)
  <2>1. s \in Copy /\ s.row \in Row
    BY <1>2 DEF Copy
  <2>2. q \in Row /\ q.code = s.row.code
    BY <2>1, RowLaterType
  <2>3. SeenLater(s) = [s EXCEPT !.row = q]
    BY <1>2 DEF SeenLater
  <2> HIDE DEF q
  <2>4. [s EXCEPT !.row = q] \in Copy /\ [s EXCEPT !.row = q].row = q
    BY <2>1, <2>2 DEF Copy
  <2> QED
    BY <1>2, <2>2, <2>3, <2>4
<1> QED
  BY <1>1, <1>2

(* A tick more: due sooner, and older if its code is under way.            *)
LEMMA TaskLaterType ==
  ASSUME NEW t \in Task, t.state \in Waiting => t.due > -Lag
  PROVE  /\ TaskLater(t) \in Task
         /\ TaskLater(t).kind = t.kind /\ TaskLater(t).to = t.to
         /\ TaskLater(t).state = t.state /\ TaskLater(t).retries = t.retries
         /\ t.state \in Waiting => TaskLater(t).age + TaskLater(t).due <= t.age + t.due
         /\ t.kind = "otp" /\ t.state \in UnderWay => TaskLater(t).age = Older(t.age)
<1> DEFINE d == IF t.state \in Waiting THEN t.due - 1 ELSE t.due
           a == IF t.kind = "otp" /\ t.state \in UnderWay THEN Older(t.age) ELSE t.age
<1>1. t.due \in -Lag..(4 * Minute) /\ t.age \in 0..(Lifetime + 1)
  BY DEF Task
<1>2. d \in -Lag..(4 * Minute)
  BY <1>1, Constants, SMT
<1>3. a \in 0..(Lifetime + 1) /\ a <= t.age + 1
  BY <1>1, OlderType, Constants, SMT
<1>4. t.state \in Waiting => a + d <= t.age + t.due
  BY <1>1, <1>3, Constants, SMT
<1>5. TaskLater(t) = [t EXCEPT !.due = d, !.age = a]
  BY DEF TaskLater
<1>6. t.kind = "otp" /\ t.state \in UnderWay => a = Older(t.age)
  OBVIOUS
<1> HIDE DEF d, a
<1>7. [t EXCEPT !.due = d, !.age = a] \in Task
  <2>1. "none" \in {"none", "stray"} \cup Waiting \cup Settled /\ 0 \in 0..MaxRetries
    BY SMT DEF MaxRetries
  <2> QED
    BY <1>2, <1>3, <2>1, ChangedType
<1>8. /\ TaskLater(t).kind = t.kind /\ TaskLater(t).to = t.to
      /\ TaskLater(t).state = t.state /\ TaskLater(t).retries = t.retries
      /\ TaskLater(t).age = a /\ TaskLater(t).due = d
  BY <1>5 DEF Task
<1> QED
  BY <1>4, <1>5, <1>6, <1>7, <1>8

LEMMA TickInv == ASSUME MailInv, MailTick PROVE MailInv'
<1>1. ASSUME NEW m \in Mails
      PROVE  /\ mail'[m] \in Task
             /\ mail'[m].kind = mail[m].kind /\ mail'[m].to = mail[m].to
             /\ mail'[m].state = mail[m].state /\ mail'[m].retries = mail[m].retries
             /\ In(m, Waiting) => mail'[m].age + mail'[m].due <= mail[m].age + mail[m].due
             /\ mail[m].kind = "otp" /\ In(m, UnderWay) => mail'[m].age = Older(mail[m].age)
  <2>1. mail[m] \in Task /\ mail'[m] = TaskLater(mail[m])
    BY DEF MailTick, MailInv, MailTypeOK
  <2>2. mail[m].state \in Waiting => mail[m].due > -Lag
    BY DEF MailTick, In
  <2> QED
    BY <2>1, <2>2, TaskLaterType DEF In
<1>2. mail' \in [Mails -> Task]
  BY <1>1 DEF MailTick
<1>3. /\ row' \in [Users -> Row] /\ seen' \in [Clients -> Copy \cup {Nothing}]
      /\ \A u \in Users : row'[u] = RowLater(row[u]) /\ row[u] \in Row
      /\ \A c \in Clients : seen'[c] = SeenLater(seen[c]) /\ seen[c] \in Copy \cup {Nothing}
  BY RowLaterType, SeenLaterType DEF MailTick, MailInv, MailTypeOK
<1>4. UNCHANGED <<mode, gone, referred, arrived, strayed, crossed, crashes>>
  BY DEF MailTick
<1>5. MailTypeOK'
  BY <1>2, <1>3, <1>4 DEF MailInv, MailTypeOK
<1>6. Timely'
  <2> SUFFICES ASSUME NEW m \in Mails, mail'[m].kind = "otp", In(m, Waiting)', m \notin strayed'
               PROVE  mail'[m].age + mail'[m].due <= Elapsed(mail'[m].retries)
    BY DEF Timely
  <2>1. mail[m].age + mail[m].due <= Elapsed(mail[m].retries) /\ In(m, Waiting)
    BY <1>1, <1>4 DEF MailInv, Timely, In
  <2>2. mail[m].retries \in 0..MaxRetries /\ mail[m] \in Task /\ mail'[m] \in Task
    BY <1>1 DEF MailInv, MailTypeOK, Task
  <2>3. Elapsed(mail[m].retries) \in Nat
    BY <2>2, ElapsedBound
  <2>4. /\ mail[m].age \in Int /\ mail[m].due \in Int
        /\ mail'[m].age \in Int /\ mail'[m].due \in Int
    BY <2>2, Constants, SMT DEF Task
  <2> QED
    BY <1>1, <2>1, <2>3, <2>4, SMT
<1>7. Contiguous' /\ Held' /\ Addressed'
  BY <1>1, <1>4 DEF MailInv, Contiguous, Held, Addressed, In
<1>8. SpentArrived'
  BY <1>3, <1>4, RowLaterType, SeenLaterType DEF MailInv, SpentArrived
<1>9. Kept'
  <2> SUFFICES ASSUME NEW n \in Mails, Awaited(n)', ~Expired(n)', n \notin crossed'
               PROVE  Stored(n)'
    BY DEF Kept
  <2>1. Awaited(n) /\ mail'[n].age = Older(mail[n].age)
    BY <1>1, <1>4 DEF Awaited, In
  <2>2. ~Expired(n)
    <3>1. mail[n] \in Task /\ mail'[n] \in Task /\ mail'[n].kind = mail[n].kind
      BY <1>1 DEF MailInv, MailTypeOK
    <3>2. mail[n].age <= mail'[n].age /\ mail[n].age \in Int /\ mail'[n].age \in Int
      BY <2>1, <3>1, OlderType, Constants, SMT DEF Task
    <3>3. mail'[n].kind = "otp" => ~(mail'[n].age > Lifetime)
      BY DEF Expired
    <3>4. mail[n].kind = "otp" => ~(mail[n].age > Lifetime)
      BY <3>1, <3>2, <3>3, Constants, SMT
    <3> QED
      BY <3>4 DEF Expired
  <2>3. Stored(n) /\ mail[n].to \in Users
    BY <1>4, <2>1, <2>2 DEF MailInv, Kept, Addressed, Awaited
  <2>4. n # 0
    BY SMT DEF Mails
  <2>5. /\ row'[mail[n].to].code = n /\ ~row'[mail[n].to].used
        /\ row'[mail[n].to].age = Older(mail[n].age)
    BY <1>3, <2>3, <2>4, RowLaterType DEF Stored
  <2> QED
    BY <1>1, <2>1, <2>5 DEF Stored
<1> QED
  BY <1>5, <1>6, <1>7, <1>8, <1>9 DEF MailInv

LEMMA WorkInv == ASSUME MailInv, NEW m \in Mails, Work(m) PROVE MailInv'
<1>1. CASE Enqueue(m)
  BY <1>1, MoveInv DEF Enqueue, In, Waiting
<1>6. CASE RunEagerly(m)
  BY <1>6, MoveInv DEF RunEagerly, In, Waiting
<1>2. CASE NotQueued(m)
  BY <1>2, SettleInv DEF NotQueued, In, Settled, Waiting
<1>3. CASE Start(m)
  BY <1>3, MoveInv DEF Start, In, Waiting
<1>4. CASE Attempt(m)
  BY <1>4, RunInv DEF Attempt
<1>5. CASE HandOutAgain(m)
  BY <1>5, MoveInv DEF HandOutAgain
<1> QED
  BY <1>1, <1>2, <1>3, <1>4, <1>5, <1>6 DEF Work

LEMMA MailNextInv == ASSUME MailInv, [MailNext]_mailVars PROVE MailInv'
<1>1. CASE \E m \in Mails, u \in Users : StoreCode(m, u)
  <2> PICK m \in Mails, u \in Users : StoreCode(m, u)
    BY <1>1
  <2>1. UNCHANGED <<mode, gone, seen, referred, arrived, strayed, crossed, crashes>>
    BY DEF StoreCode
  <2>2. referred' \subseteq Applicants
    BY <2>1 DEF MailInv, MailTypeOK
  <2> QED
    BY <2>1, <2>2, NewMail DEF StoreCode
<1>2. CASE \E m \in Mails, a \in Applicants : CommitReferral(m, a)
  <2> PICK m \in Mails, a \in Applicants : CommitReferral(m, a)
    BY <1>2
  <2>1. referred' \subseteq Applicants
    BY DEF MailInv, MailTypeOK, CommitReferral
  <2> QED
    BY <2>1, NewMail DEF CommitReferral
<1>3. CASE \E m \in Mails : Work(m)
  BY <1>3, WorkInv
<1>4. CASE \E held \in SUBSET Mails : WorkerDies(held)
  BY <1>4, DieInv
<1>5. CASE MailTick
  BY <1>5, TickInv
<1>6. CASE \E c \in Clients, u \in Users : Check(c, u) \/ BeginReset(c, u)
  BY <1>6, ReadInv
<1>7. CASE \E c \in Clients : SaveUsed(c) \/ DeleteUsed(c)
  BY <1>7, ClientInv
<1>8. CASE CleanUp
  BY <1>8, CleanUpInv
<1>9. CASE \E u \in Users : DeleteUser(u)
  BY <1>9, DeleteUserInv
<1>10. CASE UNCHANGED <<mode, row, gone, seen, mail, arrived, strayed, crossed, crashes>>
             /\ referred' \subseteq Applicants
  <2>1. MailTypeOK' /\ SpentArrived'
    BY <1>10 DEF MailInv, MailTypeOK, SpentArrived
  <2>2. Kept'
    BY <1>10 DEF MailInv, Kept, Awaited, Expired, Stored, In
  <2> QED
    BY <1>10, <2>1, <2>2, MailsAlone
<1>11. CASE \E a \in Applicants : DropReferral(a)
  BY <1>10, <1>11 DEF DropReferral, MailInv, MailTypeOK
<1>12. CASE UNCHANGED mailVars
  BY <1>10, <1>12 DEF mailVars, MailInv, MailTypeOK
<1> QED
  BY <1>1, <1>2, <1>3, <1>4, <1>5, <1>6, <1>7, <1>8, <1>9, <1>11, <1>12 DEF MailNext

LEMMA MailInvariance == MailSpec => []MailInv
<1> QED
  BY MailInitInv, MailNextInv, PTL DEF MailSpec

(* The state of the mail tasks is well formed. *)
THEOREM MailTypeCorrect == MailSpec => []MailTypeOK
<1>1. MailInv => MailTypeOK
  BY DEF MailInv
<1> QED
  BY <1>1, MailInvariance, PTL

(* Whenever 7 minutes and four lags fit into the lifetime of a code, every *)
(* attempt to mail a code, but for those a killed worker held back, is     *)
(* made before the code expires.                                           *)
THEOREM CodesArriveFresh == MailSpec => []FreshOnArrival
<1>1. MailInv => FreshOnArrival
  BY RunInTime DEF FreshOnArrival
<1> QED
  BY <1>1, MailInvariance, PTL

(* However the mails overtake each other, and whatever the clean-up, the   *)
(* resets and the uses of older codes take away, the row still holds a     *)
(* user's newest code when its mail arrives in time, unless a request      *)
(* wrote back or deleted a row it had read before.                         *)
THEOREM CodesUsableOnArrival == MailSpec => []UsableOnArrival
<1>1. MailInv => UsableOnArrival
  BY DEF MailInv, Kept, Stored, UsableOnArrival
<1> QED
  BY <1>1, MailInvariance, PTL

=============================================================================
