-------------------------- MODULE OnboardingProofs --------------------------
(***************************************************************************)
(* Theorems about Onboarding, for any applications, addresses, threads and *)
(* bounds.                                                                 *)
(***************************************************************************)
EXTENDS Onboarding, Admission, TLAPS

LEMMA Constants ==
  /\ Apps # {} /\ Emails # {} /\ MaxCodes \in Nat /\ MaxEdits \in Nat
  /\ None \notin Workers
BY OnboardingAssumption DEF OnboardingAssumption

(***************************************************************************)
(* Types.                                                                  *)
(***************************************************************************)

LEMMA BaseTyped ==
  /\ Absent \in App /\ NoReferral \in Referral /\ Idle \in Request
  /\ Idle.pc = "idle" /\ Idle.ref = NoReferral /\ NoReferral.id = 0
  /\ Idle.app = Absent
  /\ Absent.state = "absent" /\ ~Absent.verified
<1>1. (CHOOSE e \in Emails : TRUE) \in Emails /\ (CHOOSE a \in Apps : TRUE) \in Apps
  BY Constants
<1>2. Absent \in App /\ Absent.state = "absent" /\ ~Absent.verified
  BY <1>1 DEF Absent, App
<1>3. NoReferral \in Referral /\ NoReferral.id = 0
  BY Constants DEF NoReferral, Referral
<1>4. Idle \in Request /\ Idle.pc = "idle" /\ Idle.ref = NoReferral /\ Idle.app = Absent
  BY <1>1, <1>2, <1>3 DEF Idle, Request
<1> QED
  BY <1>2, <1>3, <1>4

Pcs == {"idle", "checkActive", "insert", "saveStatus", "lockForReferral",
        "checkReferral", "saveReferral", "deleteReferral", "unverify",
        "lockReferral", "lockApp", "enroll"}

\* A request as a step makes it.
LEMMA RequestMade ==
  ASSUME NEW r \in Request, NEW pc \in Pcs
  PROVE  /\ [r EXCEPT !.pc = pc] \in Request
         /\ [r EXCEPT !.pc = pc].a = r.a /\ [r EXCEPT !.pc = pc].app = r.app
         /\ [r EXCEPT !.pc = pc].ref = r.ref /\ [r EXCEPT !.pc = pc].pc = pc
<1>1. [r EXCEPT !.pc = pc] \in Request
  BY DEF Request, Pcs
<1> QED
  BY <1>1 DEF Request

\* A step of one worker leaves the requests of the others where they are.
LEMMA OthersStay ==
  ASSUME TypeOK, NEW w \in Workers, NEW r, Becomes(w, r)
  PROVE  /\ req'[w] = r
         /\ \A v \in Workers \ {w} : req'[v] = req[v]
         /\ r \in Request => req' \in [Workers -> Request]
BY DEF TypeOK, Becomes

LEMMA Fields ==
  ASSUME TypeOK, NEW w \in Workers
  PROVE  /\ req[w] \in Request /\ req[w].a \in Apps /\ req[w].pc \in Pcs
         /\ req[w].app \in App /\ req[w].app.email \in Emails
         /\ req[w].ref \in Referral /\ req[w].ref.id \in 0..MaxCodes
<1>1. req[w] \in Request
  BY DEF TypeOK
<1>2. req[w].a \in Apps /\ req[w].pc \in Pcs /\ req[w].app \in App /\ req[w].ref \in Referral
  BY <1>1 DEF Request, Pcs
<1> QED
  BY <1>1, <1>2 DEF App, Referral

\* The requests that start: what they are, field by field.
Starts(w, r, pc, a, x, row) ==
  /\ Becomes(w, r) /\ r \in Request
  /\ r.pc = pc /\ r.a = a /\ r.app = x /\ r.ref = row

LEMMA Starting ==
  ASSUME TypeOK, NEW w \in Workers, NEW a \in Apps
  PROVE  /\ ReadStatus(w, a) => \E r : Starts(w, r, "saveStatus", a, app[a], NoReferral)
         /\ StartReferral(w, a) => \E r : Starts(w, r, "lockForReferral", a, Absent, NoReferral)
         /\ \A open \in BOOLEAN : ReadReferral(w, a, open) =>
              \E r, row : /\ Starts(w, r, "saveReferral", a, Absent, row)
                          /\ row.id = ref[a].id
         /\ ReadForDelete(w, a) => \E r : Starts(w, r, "deleteReferral", a, Absent, ref[a])
         /\ StartRegister(w, a) \/ StartGoogle(w, a) =>
              \E r : Starts(w, r, "lockReferral", a, Absent, ref[a])
<1>1. app[a] \in App /\ ref[a] \in Referral
  BY DEF TypeOK
<1> DEFINE Made(r, pc) == r \in Request /\ r.pc = pc /\ r.a = a
<1>2. ASSUME ReadStatus(w, a)
      PROVE  \E r : Starts(w, r, "saveStatus", a, app[a], NoReferral)
  <2>1. PICK r : r = [Idle EXCEPT !.pc = "saveStatus", !.a = a, !.app = app[a]] /\ Becomes(w, r)
    BY <1>2 DEF ReadStatus
  <2>2. Made(r, "saveStatus") /\ r.app = app[a] /\ r.ref = NoReferral
    BY <1>1, <2>1, BaseTyped DEF Request
  <2> QED
    BY <2>1, <2>2 DEF Starts
<1>3. ASSUME StartReferral(w, a)
      PROVE  \E r : Starts(w, r, "lockForReferral", a, Absent, NoReferral)
  <2>1. PICK r : r = [Idle EXCEPT !.pc = "lockForReferral", !.a = a] /\ Becomes(w, r)
    BY <1>3 DEF StartReferral
  <2>2. Made(r, "lockForReferral") /\ r.app = Absent /\ r.ref = NoReferral
    BY <2>1, BaseTyped DEF Request
  <2> QED
    BY <2>1, <2>2 DEF Starts
<1>4. ASSUME NEW open \in BOOLEAN, ReadReferral(w, a, open)
      PROVE  \E r, row : /\ Starts(w, r, "saveReferral", a, Absent, row)
                         /\ row.id = ref[a].id
  <2>1. PICK row : row = [ref[a] EXCEPT !.open = open]
    OBVIOUS
  <2>2. row \in Referral /\ row.id = ref[a].id
    BY <1>1, <2>1 DEF Referral
  <2>3. PICK r : r = [Idle EXCEPT !.pc = "saveReferral", !.a = a, !.ref = row] /\ Becomes(w, r)
    BY <1>4, <2>1 DEF ReadReferral
  <2>4. Made(r, "saveReferral") /\ r.app = Absent /\ r.ref = row
    BY <2>2, <2>3, BaseTyped DEF Request
  <2> QED
    BY <2>2, <2>3, <2>4 DEF Starts
<1>5. ASSUME ReadForDelete(w, a)
      PROVE  \E r : Starts(w, r, "deleteReferral", a, Absent, ref[a])
  <2>1. PICK r : r = [Idle EXCEPT !.pc = "deleteReferral", !.a = a, !.ref = ref[a]] /\ Becomes(w, r)
    BY <1>5 DEF ReadForDelete
  <2>2. Made(r, "deleteReferral") /\ r.app = Absent /\ r.ref = ref[a]
    BY <1>1, <2>1, BaseTyped DEF Request
  <2> QED
    BY <2>1, <2>2 DEF Starts
<1>6. ASSUME StartRegister(w, a)
      PROVE  \E r : Starts(w, r, "lockReferral", a, Absent, ref[a])
  <2>1. PICK r : r = [Idle EXCEPT !.pc = "lockReferral", !.a = a, !.ref = ref[a]] /\ Becomes(w, r)
    BY <1>6 DEF StartRegister
  <2>2. Made(r, "lockReferral") /\ r.app = Absent /\ r.ref = ref[a]
    BY <1>1, <2>1, BaseTyped DEF Request
  <2> QED
    BY <2>1, <2>2 DEF Starts
<1>7. ASSUME StartGoogle(w, a)
      PROVE  \E r : Starts(w, r, "lockReferral", a, Absent, ref[a])
  <2>1. PICK known \in BOOLEAN : known = (app[a].email \in account)
    <3>1. CASE app[a].email \in account
      <4>1. TRUE = (app[a].email \in account)
        BY <3>1
      <4> QED
        BY <4>1
    <3>2. CASE app[a].email \notin account
      <4>1. FALSE = (app[a].email \in account)
        BY <3>2
      <4> QED
        BY <4>1
    <3> QED
      BY <3>1, <3>2
  <2>2. PICK r : /\ r = [Idle EXCEPT !.pc = "lockReferral", !.a = a, !.ref = ref[a],
                                     !.google = TRUE, !.known = known]
                 /\ Becomes(w, r)
    BY <1>7, <2>1 DEF StartGoogle
  <2>3. Made(r, "lockReferral") /\ r.app = Absent /\ r.ref = ref[a]
    BY <1>1, <2>2, BaseTyped DEF Request
  <2> QED
    BY <2>2, <2>3 DEF Starts
<1> QED
  BY <1>2, <1>3, <1>4, <1>5, <1>6, <1>7

LEMMA InitTyped == Init => TypeOK
BY BaseTyped, Constants DEF Init, TypeOK, Codes

LEMMA LocksTyped ==
  ASSUME TypeOK, NEW w \in Workers, ReleaseLocks(w)
  PROVE  /\ appLock' \in [Apps -> Workers \cup {None}]
         /\ refLock' \in [Apps -> Workers \cup {None}]
BY DEF TypeOK, ReleaseLocks

LEMMA AdminTyped ==
  ASSUME TypeOK, NEW w \in Workers, NEW a \in Apps,
         \/ ReadStatus(w, a) \/ StartReferral(w, a)
         \/ \E open \in BOOLEAN : ReadReferral(w, a, open)
         \/ ReadForDelete(w, a) \/ StartRegister(w, a) \/ StartGoogle(w, a)
  PROVE  TypeOK'
<1>1. req' \in [Workers -> Request]
  BY Starting, OthersStay DEF Starts
<1>2. raced' \subseteq Apps
  <2>1. Begin(a) \/ UNCHANGED counts
    BY DEF ReadStatus, StartReferral, ReadReferral, ReadForDelete, StartRegister, StartGoogle
  <2> QED
    BY <2>1 DEF Begin, counts, TypeOK
<1>3. UNCHANGED <<rows, locks, uses, edits>>
  BY DEF ReadStatus, StartReferral, ReadReferral, ReadForDelete, StartRegister, StartGoogle,
         Begin, counts
<1> QED
  BY <1>1, <1>2, <1>3 DEF TypeOK, rows, locks

LEMMA IdleAgain ==
  ASSUME TypeOK, NEW w \in Workers, Answer(w)
  PROVE  req' \in [Workers -> Request]
BY BaseTyped, OthersStay DEF Answer

LEMMA GoesOn ==
  ASSUME TypeOK, NEW w \in Workers, NEW pc \in Pcs, Goto(w, pc)
  PROVE  req' \in [Workers -> Request]
BY Fields, RequestMade, OthersStay DEF Goto

LEMMA GoesTo ==
  ASSUME TypeOK, NEW w \in Workers, NEW pc \in Pcs, Goto(w, pc)
  PROVE  /\ req'[w].pc = pc /\ req'[w].a = req[w].a
         /\ req'[w].app = req[w].app /\ req'[w].ref = req[w].ref
<1>1. PICK r : r = [req[w] EXCEPT !.pc = pc] /\ Becomes(w, r)
  BY DEF Goto
<1>2. r.pc = pc /\ r.a = req[w].a /\ r.app = req[w].app /\ r.ref = req[w].ref
  BY <1>1, Fields, RequestMade
<1> QED
  BY <1>1, <1>2, OthersStay

LEMMA RollBackTyped ==
  ASSUME TypeOK, NEW w \in Workers, RollBack(w)
  PROVE  TypeOK'
BY LocksTyped, IdleAgain DEF RollBack, rows, counts, TypeOK

LEMMA ServeTyped ==
  ASSUME TypeOK, NEW w \in Workers, Serve(w)
  PROVE  TypeOK'
<1>1. CASE CheckActive(w) \/ NoToken(w)
  <2>1. req' \in [Workers -> Request]
    BY <1>1, IdleAgain, GoesOn DEF CheckActive, NoToken, Pcs
  <2> QED
    BY <1>1, <2>1 DEF CheckActive, NoToken, rows, locks, counts, TypeOK
<1>2. ASSUME NEW a \in Apps, InsertApp(w, a) PROVE TypeOK'
  <2>1. [state |-> "live", email |-> req[w].app.email, verified |-> FALSE] \in App
    BY Fields DEF App
  <2>2. app' \in [Apps -> App]
    BY <1>2, <2>1 DEF InsertApp, TypeOK
  <2> QED
    BY <1>2, <2>2, IdleAgain DEF InsertApp, locks, counts, TypeOK
<1>3. CASE SaveStatus(w)
  <2>1. app' \in [Apps -> App]
    BY <1>3, Fields DEF SaveStatus, TypeOK
  <2> QED
    BY <1>3, <2>1, IdleAgain DEF SaveStatus, locks, counts, TypeOK
<1>4. CASE LockForReferral(w)
  <2>1. req' \in [Workers -> Request]
    BY <1>4, IdleAgain, GoesOn DEF LockForReferral, Pcs
  <2>2. appLock' \in [Apps -> Workers \cup {None}]
    BY <1>4 DEF LockForReferral, TypeOK
  <2> QED
    BY <1>4, <2>1, <2>2 DEF LockForReferral, rows, counts, TypeOK
<1>5. CASE IssueReferral(w)
  <2> DEFINE a == req[w].a
  <2>1. CASE RollBack(w)
    BY <2>1, RollBackTyped
  <2>2. CASE ~RollBack(w)
    <3>1. /\ codes + 1 \in Codes /\ codes' = codes + 1
          /\ ref' = [ref EXCEPT ![a] = Issued(codes + 1)]
          /\ app' = [app EXCEPT ![a].verified = TRUE]
          /\ ReleaseLocks(w) /\ Answer(w) /\ UNCHANGED <<account, counts>>
      BY <1>5, <2>2 DEF IssueReferral
    <3>2. Issued(codes + 1) \in Referral
      BY <3>1 DEF Issued, Referral, Codes
    <3>3. ref' \in [Apps -> Referral]
      BY <3>1, <3>2 DEF TypeOK
    <3>4. app' \in [Apps -> App]
      BY <3>1 DEF TypeOK, App
    <3>5. codes' \in 0..MaxCodes
      BY <3>1, Constants DEF Codes
    <3> QED
      BY <3>1, <3>3, <3>4, <3>5, LocksTyped, IdleAgain DEF counts, TypeOK
  <2> QED
    BY <2>1, <2>2
<1>6. CASE SaveReferral(w)
  <2>1. ref' \in [Apps -> Referral] /\ edits' \in [Codes -> Nat]
    BY <1>6, Fields DEF SaveReferral, TypeOK
  <2> QED
    BY <1>6, <2>1, IdleAgain DEF SaveReferral, locks, TypeOK
<1>7. CASE DeleteReferral(w) \/ LockReferral(w)
  <2>1. req' \in [Workers -> Request]
    BY <1>7, IdleAgain, GoesOn DEF DeleteReferral, LockReferral, Pcs
  <2>2. refLock' \in [Apps -> Workers \cup {None}]
    BY <1>7 DEF DeleteReferral, LockReferral, TypeOK
  <2> QED
    BY <1>7, <2>1, <2>2 DEF DeleteReferral, LockReferral, rows, counts, TypeOK
<1>8. CASE Unverify(w)
  <2>1. app' \in [Apps -> App]
    BY <1>8 DEF Unverify, Unverified, TypeOK, App
  <2>2. ref' \in [Apps -> Referral]
    BY <1>8, BaseTyped DEF Unverify, TypeOK
  <2> QED
    BY <1>8, <2>1, <2>2, LocksTyped, IdleAgain DEF Unverify, counts, TypeOK
<1>9. CASE LockApp(w)
  <2>1. CASE RollBack(w)
    BY <2>1, RollBackTyped
  <2>2. CASE ~RollBack(w)
    <3>1. appLock' \in [Apps -> Workers \cup {None}]
      BY <1>9, <2>2 DEF LockApp, TypeOK
    <3> QED
      BY <1>9, <2>2, <3>1, GoesOn DEF LockApp, Pcs, rows, counts, TypeOK
  <2> QED
    BY <2>1, <2>2
<1>10. CASE Enroll(w)
  <2>1. CASE RollBack(w)
    BY <2>1, RollBackTyped
  <2>2. CASE ~RollBack(w)
    <3>1. account' \subseteq Emails
      BY <1>10, <2>2, Fields DEF Enroll, TypeOK, App
    <3>2. ref' \in [Apps -> Referral]
      <4>1. ref[req[w].a] \in Referral
        BY Fields DEF TypeOK
      <4>2. Consumed(ref[req[w].a]) \in Referral
        BY <4>1 DEF Consumed, Referral
      <4> QED
        BY <1>10, <2>2, <4>2 DEF Enroll, TypeOK
    <3>3. uses' \in [Codes -> Nat]
      BY <1>10, <2>2 DEF Enroll, TypeOK
    <3> QED
      BY <1>10, <2>2, <3>1, <3>2, <3>3, LocksTyped, IdleAgain DEF Enroll, TypeOK
  <2> QED
    BY <2>1, <2>2
<1>11. CASE Abort(w)
  BY <1>11, RollBackTyped DEF Abort
<1> QED
  BY <1>1, <1>2, <1>3, <1>4, <1>5, <1>6, <1>7, <1>8, <1>9, <1>10, <1>11 DEF Serve

LEMMA NextTyped == TypeOK /\ [Next]_vars => TypeOK'
<1> SUFFICES ASSUME TypeOK, [Next]_vars PROVE TypeOK'
  OBVIOUS
<1>1. CASE UNCHANGED vars
  BY <1>1 DEF vars, TypeOK
<1>2. ASSUME NEW w \in Workers, NEW e \in Emails, CheckArchived(w, e) PROVE TypeOK'
  <2>1. [Idle EXCEPT !.pc = "checkActive", !.app.email = e] \in Request
    BY BaseTyped DEF Request, App
  <2> QED
    BY <1>2, <2>1, OthersStay DEF CheckArchived, rows, locks, counts, TypeOK
<1>3. ASSUME NEW a \in Apps, Archive(a) \/ Restore(a) PROVE TypeOK'
  <2>1. app' \in [Apps -> App]
    <3>1. PICK state \in {"live", "archived"} : app' = [app EXCEPT ![a].state = state]
      BY <1>3 DEF Archive, Restore
    <3>2. app[a] \in App
      BY DEF TypeOK
    <3>3. [app[a] EXCEPT !.state = state] \in App
      BY <3>2 DEF App
    <3> QED
      BY <3>1, <3>3 DEF TypeOK
  <2> QED
    BY <1>3, <2>1 DEF Archive, Restore, locks, counts, TypeOK
<1> QED
  BY <1>1, <1>2, <1>3, AdminTyped, ServeTyped DEF Next

\* Every variable keeps to its type.
THEOREM OnboardingTypeCorrect == Spec => []TypeOK
BY InitTyped, NextTyped, PTL DEF Spec

(***************************************************************************)
(* What a registration has checked stays true until it commits.            *)
(***************************************************************************)

\* The rows a request has locked, and what it knows of them.
Standing(w) ==
  LET a == req[w].a IN
  /\ req[w].pc \in {"lockApp", "enroll"} => refLock[a] = w /\ ref[a].id = req[w].ref.id
  /\ req[w].pc \in {"checkReferral", "enroll"} => appLock[a] = w
  /\ req[w].pc = "enroll" => Admissible(a)

Good == \A w \in Workers : Standing(w)

Locking == {"lockApp", "enroll", "checkReferral"}

\* A step that touches nothing v holds the lock of.
Kept(v) ==
  \A a \in Apps :
    /\ refLock[a] = v => refLock'[a] = v /\ ref'[a] = ref[a]
    /\ appLock[a] = v => appLock'[a] = v /\ (Live(a) => app'[a] = app[a])

LEMMA StandingKept ==
  ASSUME TypeOK, NEW v \in Workers, Standing(v), Kept(v), req'[v] = req[v]
  PROVE  Standing(v)'
<1> DEFINE a == req[v].a
<1>1. a \in Apps
  BY Fields
<1>2. req[v].pc \in {"lockApp", "enroll"} => refLock'[a] = v /\ ref'[a] = ref[a]
  BY <1>1 DEF Standing, Kept
<1>3. req[v].pc \in {"checkReferral", "enroll"} => appLock'[a] = v
  BY <1>1 DEF Standing, Kept
<1>4. req[v].pc = "enroll" => app'[a] = app[a]
  BY <1>1 DEF Standing, Kept, Admissible
<1> QED
  BY <1>2, <1>3, <1>4 DEF Standing, Admissible, Live

LEMMA NotNone == \A v \in Workers : v # None
BY Constants

LEMMA ReleaseKeeps ==
  ASSUME TypeOK, NEW w \in Workers, ReleaseLocks(w), NEW v \in Workers \ {w}
  PROVE  \A a \in Apps : /\ refLock[a] = v => refLock'[a] = v
                         /\ appLock[a] = v => appLock'[a] = v
BY NotNone DEF ReleaseLocks, TypeOK

LEMMA RollBackKeeps ==
  ASSUME TypeOK, NEW w \in Workers, RollBack(w), NEW v \in Workers \ {w}
  PROVE  Kept(v)
BY ReleaseKeeps DEF RollBack, rows, Kept

LEMMA ServeKeeps ==
  ASSUME TypeOK, Good, NEW w \in Workers, Serve(w), NEW v \in Workers \ {w}
  PROVE  Kept(v)
<1> DEFINE a == req[w].a
<1>1. a \in Apps /\ Standing(w)
  BY Fields DEF Good
<1>2. CASE CheckActive(w) \/ NoToken(w)
  BY <1>2 DEF CheckActive, NoToken, rows, locks, Kept
<1>3. ASSUME NEW b \in Apps, InsertApp(w, b) PROVE Kept(v)
  <2>1. ~Live(b) /\ \A c \in Apps \ {b} : app'[c] = app[c]
    BY <1>3 DEF InsertApp, Live, TypeOK
  <2> QED
    BY <1>3, <2>1 DEF InsertApp, locks, Kept
<1>4. CASE SaveStatus(w)
  <2>1. appLock[a] # v /\ \A c \in Apps \ {a} : app'[c] = app[c]
    BY <1>4, NotNone DEF SaveStatus, AppFree, TypeOK
  <2> QED
    BY <1>4, <2>1 DEF SaveStatus, locks, Kept
<1>5. CASE LockForReferral(w)
  <2>1. \A c \in Apps : appLock[c] = v => appLock'[c] = v
    BY <1>5, NotNone DEF LockForReferral, AppFree, TypeOK
  <2> QED
    BY <1>5, <2>1 DEF LockForReferral, rows, Kept
<1>6. CASE IssueReferral(w)
  <2>1. CASE RollBack(w)
    BY <2>1, RollBackKeeps
  <2>2. CASE ~RollBack(w)
    <3>1. /\ ref' = [ref EXCEPT ![a] = Issued(codes + 1)] /\ RefFree(a)
          /\ app' = [app EXCEPT ![a].verified = TRUE] /\ ReleaseLocks(w) /\ appLock[a] = w
      BY <1>1, <1>6, <2>2 DEF IssueReferral, Standing
    <3>2. /\ refLock[a] # v /\ appLock[a] # v
          /\ \A c \in Apps \ {a} : ref'[c] = ref[c] /\ app'[c] = app[c]
      BY <3>1, NotNone DEF RefFree, TypeOK
    <3> QED
      BY <3>1, <3>2, ReleaseKeeps DEF Kept
  <2> QED
    BY <2>1, <2>2
<1>7. CASE SaveReferral(w)
  <2>1. refLock[a] # v /\ \A c \in Apps \ {a} : ref'[c] = ref[c]
    BY <1>7, NotNone DEF SaveReferral, RefFree, TypeOK
  <2> QED
    BY <1>7, <2>1 DEF SaveReferral, locks, Kept
<1>8. CASE DeleteReferral(w) \/ LockReferral(w)
  <2>1. \A c \in Apps : refLock[c] = v => refLock'[c] = v
    BY <1>8, NotNone DEF DeleteReferral, LockReferral, RefFree, TypeOK
  <2> QED
    BY <1>8, <2>1 DEF DeleteReferral, LockReferral, rows, Kept
<1>9. CASE Unverify(w)
  <2>1. /\ appLock[a] # v /\ \A c \in Apps \ {a} : app'[c] = app[c] /\ ref'[c] = ref[c]
        /\ refLock[a] = v => ref' = ref
    BY <1>9, NotNone DEF Unverify, AppFree, TypeOK
  <2> QED
    BY <1>9, <2>1, ReleaseKeeps DEF Unverify, Kept
<1>10. CASE LockApp(w)
  <2>1. CASE RollBack(w)
    BY <2>1, RollBackKeeps
  <2>2. CASE ~RollBack(w)
    <3>1. \A c \in Apps : appLock[c] = v => appLock'[c] = v
      BY <1>10, <2>2, NotNone DEF LockApp, AppFree, TypeOK
    <3> QED
      BY <1>10, <2>2, <3>1 DEF LockApp, rows, Kept
  <2> QED
    BY <2>1, <2>2
<1>11. CASE Enroll(w)
  <2>1. CASE RollBack(w)
    BY <2>1, RollBackKeeps
  <2>2. CASE ~RollBack(w)
    <3>1. /\ refLock[a] = w /\ ref' = [ref EXCEPT ![a] = Consumed(ref[a])]
          /\ app' = app /\ ReleaseLocks(w)
      BY <1>1, <1>11, <2>2 DEF Enroll, Standing
    <3>2. refLock[a] # v /\ \A c \in Apps \ {a} : ref'[c] = ref[c]
      BY <3>1 DEF TypeOK
    <3> QED
      BY <3>1, <3>2, ReleaseKeeps DEF Kept
  <2> QED
    BY <2>1, <2>2
<1>12. CASE Abort(w)
  BY <1>12, RollBackKeeps DEF Abort
<1> QED
  BY <1>2, <1>3, <1>4, <1>5, <1>6, <1>7, <1>8, <1>9, <1>10, <1>11, <1>12 DEF Serve

\* What a request comes to stand on by its own step.
LEMMA ServeStands ==
  ASSUME TypeOK, Good, NEW w \in Workers, Serve(w)
  PROVE  Standing(w)'
<1> DEFINE a == req[w].a
<1>1. a \in Apps /\ Standing(w) /\ req[w] \in Request
  BY Fields DEF Good
<1>2. ASSUME NEW r \in Request, Becomes(w, r), r.pc \notin Locking PROVE Standing(w)'
  BY <1>2, OthersStay DEF Standing, Locking
<1>3. ASSUME Answer(w) PROVE Standing(w)'
  BY <1>2, <1>3, BaseTyped DEF Answer, Locking
<1>4. ASSUME NEW pc \in Pcs \ Locking, Goto(w, pc) PROVE Standing(w)'
  BY <1>1, <1>2, <1>4, RequestMade DEF Goto
<1>5. CASE \/ NoToken(w) \/ SaveStatus(w) \/ SaveReferral(w) \/ Unverify(w)
           \/ Enroll(w) \/ Abort(w) \/ IssueReferral(w)
           \/ \E b \in Apps : InsertApp(w, b)
  BY <1>3, <1>5 DEF NoToken, SaveStatus, SaveReferral, Unverify, Enroll, Abort,
                    IssueReferral, InsertApp, RollBack
<1>6. CASE CheckActive(w) \/ DeleteReferral(w)
  BY <1>3, <1>4, <1>6 DEF CheckActive, DeleteReferral, Pcs, Locking
<1>7. CASE LockForReferral(w) /\ ~Answer(w)
  <2>1. Goto(w, "checkReferral") /\ appLock' = [appLock EXCEPT ![a] = w]
    BY <1>7 DEF LockForReferral
  <2>2. req'[w].pc = "checkReferral" /\ req'[w].a = a
    BY <2>1, GoesTo DEF Pcs
  <2> QED
    BY <1>1, <2>1, <2>2 DEF Standing, TypeOK
<1>8. CASE LockReferral(w) /\ ~Answer(w)
  <2>1. /\ Goto(w, "lockApp") /\ refLock' = [refLock EXCEPT ![a] = w]
        /\ ref[a].id = req[w].ref.id /\ ref' = ref
    BY <1>8 DEF LockReferral, rows
  <2>2. req'[w].pc = "lockApp" /\ req'[w].a = a /\ req'[w].ref = req[w].ref
    BY <2>1, GoesTo DEF Pcs
  <2> QED
    BY <1>1, <2>1, <2>2 DEF Standing, TypeOK
<1>9. CASE LockApp(w) /\ ~Answer(w)
  <2>1. /\ Goto(w, "enroll") /\ appLock' = [appLock EXCEPT ![a] = w] /\ Admissible(a)
        /\ UNCHANGED <<rows, refLock>> /\ req[w].pc = "lockApp"
    BY <1>9 DEF LockApp, RollBack
  <2>2. req'[w].pc = "enroll" /\ req'[w].a = a /\ req'[w].ref = req[w].ref
    BY <2>1, GoesTo DEF Pcs
  <2> QED
    BY <1>1, <2>1, <2>2 DEF Standing, TypeOK, Admissible, Live, rows
<1> QED
  BY <1>3, <1>5, <1>6, <1>7, <1>8, <1>9 DEF Serve

LEMMA InitGood == Init => Good
BY BaseTyped DEF Init, Good, Standing

\* The admins' requests and the visitors' start without a lock; archiving and
\* restoring wait for one.
LEMMA StartsKeep ==
  ASSUME TypeOK, Good, NEW w \in Workers, NEW r, Becomes(w, r), r.pc \notin Locking,
         UNCHANGED <<rows, locks>>
  PROVE  Good'
<1>1. Standing(w)'
  BY OthersStay DEF Standing, Locking
<1>2. ASSUME NEW v \in Workers \ {w} PROVE Standing(v)'
  BY OthersStay, StandingKept DEF Good, Kept, rows, locks
<1> QED
  BY <1>1, <1>2 DEF Good

LEMMA NextGood == TypeOK /\ Good /\ [Next]_vars => Good'
<1> SUFFICES ASSUME TypeOK, Good, [Next]_vars PROVE Good'
  OBVIOUS
<1>1. CASE UNCHANGED vars
  BY <1>1 DEF vars, Good, Standing, Admissible, Live
<1>2. ASSUME NEW w \in Workers, NEW e \in Emails, CheckArchived(w, e) PROVE Good'
  <2>1. PICK r : r = [Idle EXCEPT !.pc = "checkActive", !.app.email = e] /\ Becomes(w, r)
    BY <1>2 DEF CheckArchived
  <2>2. r.pc = "checkActive"
    BY <2>1, BaseTyped DEF Request
  <2> QED
    BY <1>2, <2>1, <2>2, StartsKeep DEF CheckArchived, Locking
<1>3. ASSUME NEW a \in Apps, Archive(a) \/ Restore(a) PROVE Good'
  <2>1. \A v \in Workers : Kept(v)
    BY <1>3, NotNone DEF Archive, Restore, AppFree, locks, Kept, TypeOK
  <2>2. req' = req
    BY <1>3 DEF Archive, Restore
  <2> QED
    BY <2>1, <2>2, StandingKept DEF Good
<1>4. ASSUME NEW w \in Workers, NEW a \in Apps,
             \/ ReadStatus(w, a) \/ StartReferral(w, a)
             \/ \E open \in BOOLEAN : ReadReferral(w, a, open)
             \/ ReadForDelete(w, a) \/ StartRegister(w, a) \/ StartGoogle(w, a)
      PROVE  Good'
  <2>1. PICK r : Becomes(w, r) /\ r.pc \notin Locking
    BY <1>4, Starting DEF Starts, Locking
  <2>2. UNCHANGED <<rows, locks>>
    BY <1>4 DEF ReadStatus, StartReferral, ReadReferral, ReadForDelete, StartRegister, StartGoogle
  <2> QED
    BY <2>1, <2>2, StartsKeep
<1>5. ASSUME NEW w \in Workers, Serve(w) PROVE Good'
  <2>1. \A v \in Workers \ {w} : req'[v] = req[v]
    <3>1. \E r : Becomes(w, r)
      BY <1>5 DEF Serve, CheckActive, InsertApp, NoToken, SaveStatus, LockForReferral,
           IssueReferral, SaveReferral, DeleteReferral, Unverify, LockReferral, LockApp,
           Enroll, Abort, RollBack, Answer, Goto
    <3> QED
      BY <3>1, OthersStay
  <2> QED
    BY <1>5, <2>1, ServeKeeps, ServeStands, StandingKept DEF Good
<1> QED
  BY <1>1, <1>2, <1>3, <1>4, <1>5 DEF Next

\* AdmittedInGoodStanding: RegisterAPIView and GoogleAuthView lock the referral, then
\* its application, and judge both; no save, archiving or deletion slips in before
\* they write.
THEOREM OnboardingAdmitted == Spec => []AdmittedInGoodStanding
<1>1. Good => AdmittedInGoodStanding
  BY DEF Good, Standing, AdmittedInGoodStanding
<1> QED
  BY <1>1, InitTyped, NextTyped, InitGood, NextGood, PTL DEF Spec

(***************************************************************************)
(* A code lets somebody in once.                                           *)
(***************************************************************************)

\* Code c belongs to application a: in its row, or in a copy of that.
Carries(a, c) ==
  \/ ref[a].id = c
  \/ \E w \in Workers : req[w].a = a /\ req[w].ref.id = c

Numbered ==
  /\ \A a \in Apps, c \in Codes : Carries(a, c) => c <= codes
  /\ \A a, b \in Apps, c \in Codes : Carries(a, c) /\ Carries(b, c) => a = b
  /\ \A w \in Workers : req[w].pc = "saveReferral" => req[w].ref.id # 0

Counted ==
  /\ \A c \in Codes : uses[c] <= 1 + edits[c]
  /\ \A c \in Codes : c > codes => uses[c] = 0
  /\ \A a \in Apps : ref[a].id # 0 /\ ref[a].open /\ ~ref[a].used =>
       uses[ref[a].id] <= edits[ref[a].id]

Tally == Numbered /\ Counted

LEMMA InitTally == Init => Tally
<1> SUFFICES ASSUME Init PROVE Tally
  OBVIOUS
<1>1. \A a \in Apps, c \in Codes : ~Carries(a, c)
  BY BaseTyped DEF Init, Carries, Codes
<1>2. Counted
  BY BaseTyped DEF Init, Counted, Codes
<1>3. \A w \in Workers : req[w].pc # "saveReferral"
  BY BaseTyped DEF Init
<1> QED
  BY <1>1, <1>2, <1>3 DEF Tally, Numbered

\* What the request of w may hold after its step.
Copies(w, r) ==
  /\ Becomes(w, r)
  /\ \/ r.ref.id = 0
     \/ r.a = req[w].a /\ r.ref.id = req[w].ref.id
     \/ r.a \in Apps /\ r.ref.id = ref[r.a].id
  /\ r.pc = "saveReferral" => r.ref.id # 0

LEMMA CarriesLess ==
  ASSUME TypeOK, NEW w \in Workers, NEW r, Copies(w, r), NEW b \in Apps, NEW c \in Codes,
         Carries(b, c)'
  PROVE  Carries(b, c) \/ ref'[b].id = c
<1>1. c # 0
  BY DEF Codes
<1>2. CASE ref'[b].id = c
  BY <1>2
<1>3. ASSUME NEW v \in Workers, req'[v].a = b, req'[v].ref.id = c PROVE Carries(b, c)
  <2>1. CASE v = w
    BY <1>1, <1>3, <2>1, OthersStay DEF Copies, Carries
  <2>2. CASE v # w
    BY <1>3, <2>2, OthersStay DEF Copies, Carries
  <2> QED
    BY <2>1, <2>2
<1> QED
  BY <1>2, <1>3 DEF Carries

LEMMA SavesCarry ==
  ASSUME TypeOK, Numbered, NEW w \in Workers, NEW r, Copies(w, r)
  PROVE  \A v \in Workers : req'[v].pc = "saveReferral" => req'[v].ref.id # 0
BY OthersStay DEF Copies, Numbered

\* A step that issues no code, admits nobody and saves no referral.
LEMMA TallyStays ==
  ASSUME TypeOK, TypeOK', Tally, NEW w \in Workers, NEW r, Copies(w, r),
         UNCHANGED <<codes, uses, edits>>,
         \A b \in Apps : ref'[b] = ref[b] \/ ref'[b].id = 0
  PROVE  Tally'
<1>1. \A b \in Apps, c \in Codes : Carries(b, c)' => Carries(b, c)
  <2> TAKE b \in Apps, c \in Codes
  <2>1. c # 0
    BY DEF Codes
  <2> QED
    BY <2>1, CarriesLess DEF Carries
<1>2. Numbered'
  BY <1>1, SavesCarry DEF Tally, Numbered
<1>3. Counted'
  BY DEF Tally, Counted
<1> QED
  BY <1>2, <1>3 DEF Tally

LEMMA IdleCopies ==
  ASSUME NEW w \in Workers, Answer(w) PROVE Copies(w, Idle)
BY BaseTyped DEF Answer, Copies

LEMMA GoingCopies ==
  ASSUME TypeOK, NEW w \in Workers, NEW pc \in Pcs \ {"saveReferral"}, Goto(w, pc)
  PROVE  \E r : Copies(w, r)
<1>1. PICK r : r = [req[w] EXCEPT !.pc = pc] /\ Becomes(w, r)
  BY DEF Goto
<1>2. r.pc = pc /\ r.a = req[w].a /\ r.ref = req[w].ref
  BY <1>1, Fields, RequestMade
<1> QED
  BY <1>1, <1>2 DEF Copies

LEMMA IssueTally ==
  ASSUME TypeOK, TypeOK', Tally, NEW w \in Workers, IssueReferral(w)
  PROVE  Tally'
<1> DEFINE a == req[w].a
           n == codes + 1
<1>1. CASE RollBack(w)
  BY <1>1, IdleCopies, TallyStays DEF RollBack, rows, counts
<1>2. CASE ~RollBack(w)
  <2>1. /\ n \in Codes /\ codes' = n /\ ref[a].id = 0
        /\ ref' = [ref EXCEPT ![a] = Issued(n)]
        /\ Copies(w, Idle) /\ UNCHANGED <<uses, edits>>
    BY <1>2, IdleCopies DEF IssueReferral, counts
  <2>2. /\ a \in Apps /\ ref'[a] = Issued(n) /\ Issued(n).id = n
        /\ \A b \in Apps \ {a} : ref'[b] = ref[b]
    BY <2>1, Fields DEF TypeOK, Issued
  <2>3. codes \in Nat /\ n > codes
    BY DEF TypeOK
  <2>4. \A b \in Apps : ~Carries(b, n)
    BY <2>1, <2>3 DEF Tally, Numbered
  <2>5. \A b \in Apps, c \in Codes : Carries(b, c)' => Carries(b, c) \/ (b = a /\ c = n)
    BY <2>1, <2>2, CarriesLess DEF Carries
  <2>6. \A b \in Apps, c \in Codes : Carries(b, c)' => c <= codes'
    BY <2>1, <2>3, <2>5 DEF Tally, Numbered, Codes
  <2>7. Numbered'
    BY <2>1, <2>4, <2>5, <2>6, SavesCarry DEF Tally, Numbered
  <2>8. uses[n] = 0 /\ edits[n] \in Nat
    BY <2>1, <2>3 DEF Tally, Counted, TypeOK
  <2>9. Counted'
    BY <2>1, <2>2, <2>3, <2>8 DEF Tally, Counted, Codes
  <2> QED
    BY <2>7, <2>9 DEF Tally
<1> QED
  BY <1>1, <1>2

LEMMA SaveTally ==
  ASSUME TypeOK, TypeOK', Tally, NEW w \in Workers, SaveReferral(w)
  PROVE  Tally'
<1> DEFINE a == req[w].a
           n == req[w].ref.id
<1>1. Copies(w, Idle) /\ UNCHANGED <<codes, uses>>
  BY IdleCopies DEF SaveReferral
<1>2. CASE UNCHANGED <<ref, edits>>
  BY <1>1, <1>2, TallyStays
<1>3. CASE ~UNCHANGED <<ref, edits>>
  <2>1. ref' = [ref EXCEPT ![a] = req[w].ref] /\ edits' = [edits EXCEPT ![n] = @ + 1]
    BY <1>3 DEF SaveReferral
  <2>2. n \in Codes /\ a \in Apps
    BY Fields DEF SaveReferral, Tally, Numbered, Codes
  <2>3. ref'[a].id = n /\ \A b \in Apps \ {a} : ref'[b] = ref[b]
    BY <2>1, <2>2 DEF TypeOK
  <2>4. /\ edits'[n] = edits[n] + 1 /\ \A c \in Codes \ {n} : edits'[c] = edits[c]
        /\ \A c \in Codes : edits[c] \in Nat /\ uses[c] \in Nat
    BY <2>1, <2>2 DEF TypeOK
  <2>5. Carries(a, n)
    BY <2>2 DEF Carries
  <2>6. \A b \in Apps, c \in Codes : Carries(b, c)' => Carries(b, c)
    BY <1>1, <2>3, <2>5, CarriesLess DEF Carries
  <2>7. Numbered'
    BY <1>1, <2>6, SavesCarry DEF Tally, Numbered
  <2>8. \A c \in Codes : uses[c] <= 1 + edits'[c]
    BY <2>4 DEF Tally, Counted
  <2>9. \A b \in Apps : ref'[b].id # 0 /\ ref'[b].open /\ ~ref'[b].used =>
          uses[ref'[b].id] <= edits'[ref'[b].id]
    <3> TAKE b \in Apps
    <3>1. CASE b = a
      BY <2>2, <2>3, <2>4, <3>1 DEF Tally, Counted
    <3>2. CASE b # a
      <4>1. ref[b].id \in 0..MaxCodes
        BY DEF TypeOK, Referral
      <4>2. ref[b].id # 0 => ref[b].id \in Codes
        BY <4>1 DEF Codes
      <4> QED
        BY <2>3, <2>4, <3>2, <4>2 DEF Tally, Counted
    <3> QED
      BY <3>1, <3>2
  <2>10. Counted'
    BY <1>1, <2>8, <2>9 DEF Tally, Counted
  <2> QED
    BY <2>7, <2>10 DEF Tally
<1> QED
  BY <1>2, <1>3

LEMMA EnrollTally ==
  ASSUME TypeOK, TypeOK', Good, Tally, NEW w \in Workers, Enroll(w)
  PROVE  Tally'
<1> DEFINE a == req[w].a
           n == ref[a].id
<1>1. CASE RollBack(w)
  BY <1>1, IdleCopies, TallyStays DEF RollBack, rows, counts
<1>2. CASE ~RollBack(w)
  <2>1. /\ Copies(w, Idle) /\ ref' = [ref EXCEPT ![a] = Consumed(ref[a])]
        /\ uses' = [uses EXCEPT ![n] = @ + 1] /\ UNCHANGED <<codes, edits>>
    BY <1>2, IdleCopies DEF Enroll
  <2>2. a \in Apps /\ ref[a] \in Referral /\ ref[a].open /\ ~ref[a].used
    BY Fields DEF Enroll, Good, Standing, Admissible, TypeOK
  <2>3. Consumed(ref[a]).id = n /\ ~Consumed(ref[a]).open
    BY <2>2 DEF Consumed, Referral
  <2>4. ref'[a] = Consumed(ref[a]) /\ \A b \in Apps \ {a} : ref'[b] = ref[b]
    BY <2>1, <2>2 DEF TypeOK
  <2>5. \A b \in Apps, c \in Codes : Carries(b, c)' => Carries(b, c)
    BY <2>1, <2>3, <2>4, CarriesLess DEF Carries
  <2>6. Numbered'
    BY <2>1, <2>5, SavesCarry DEF Tally, Numbered
  <2>7. CASE n = 0
    <3>1. uses' = uses
      BY <2>1, <2>7 DEF TypeOK, Codes
    <3>2. Counted'
      BY <2>1, <2>3, <2>4, <3>1 DEF Tally, Counted
    <3> QED
      BY <2>6, <3>2 DEF Tally
  <2>8. CASE n # 0
    <3>1. n \in Codes
      BY <2>2, <2>8 DEF Referral, Codes
    <3>2. /\ uses'[n] = uses[n] + 1 /\ \A c \in Codes \ {n} : uses'[c] = uses[c]
          /\ \A c \in Codes : edits[c] \in Nat /\ uses[c] \in Nat
      BY <2>1, <3>1 DEF TypeOK
    <3>3. uses[n] <= edits[n]
      BY <2>2, <2>8 DEF Tally, Counted
    <3>4. Carries(a, n) /\ n <= codes /\ codes \in Nat
      BY <2>2, <3>1 DEF Carries, Tally, Numbered, TypeOK
    <3>5. \A b \in Apps \ {a} : ref[b].id # n
      BY <2>2, <3>1, <3>4 DEF Carries, Tally, Numbered
    <3>6. \A c \in Codes : uses'[c] <= 1 + edits'[c]
      BY <2>1, <3>1, <3>2, <3>3 DEF Tally, Counted
    <3>7. \A c \in Codes : c > codes' => uses'[c] = 0
      BY <2>1, <3>1, <3>2, <3>4 DEF Tally, Counted, Codes
    <3>8. \A b \in Apps : ref'[b].id # 0 /\ ref'[b].open /\ ~ref'[b].used =>
            uses'[ref'[b].id] <= edits'[ref'[b].id]
      <4> TAKE b \in Apps
      <4>1. CASE b = a
        BY <2>3, <2>4, <4>1
      <4>2. CASE b # a
        <5>1. ref[b].id \in 0..MaxCodes
          BY DEF TypeOK, Referral
        <5>2. ref[b].id # 0 => ref[b].id \in Codes \ {n}
          BY <3>5, <4>2, <5>1 DEF Codes
        <5> QED
          BY <2>1, <2>4, <3>2, <4>2, <5>2 DEF Tally, Counted
      <4> QED
        BY <4>1, <4>2
    <3> QED
      BY <2>6, <3>6, <3>7, <3>8 DEF Tally, Counted
  <2> QED
    BY <2>7, <2>8
<1> QED
  BY <1>1, <1>2

LEMMA NextTally == TypeOK /\ TypeOK' /\ Good /\ Tally /\ [Next]_vars => Tally'
<1> SUFFICES ASSUME TypeOK, TypeOK', Good, Tally, [Next]_vars PROVE Tally'
  OBVIOUS
<1>1. ASSUME UNCHANGED <<ref, req, codes, uses, edits>> PROVE Tally'
  BY <1>1 DEF Tally, Numbered, Counted, Carries
<1>2. ASSUME NEW w \in Workers, NEW r, Copies(w, r), UNCHANGED <<ref, codes, uses, edits>>
      PROVE  Tally'
  BY <1>2, TallyStays
<1>3. ASSUME NEW w \in Workers, NEW e \in Emails, CheckArchived(w, e) PROVE Tally'
  <2>1. PICK r : r = [Idle EXCEPT !.pc = "checkActive", !.app.email = e] /\ Becomes(w, r)
    BY <1>3 DEF CheckArchived
  <2>2. r.pc = "checkActive" /\ r.ref.id = 0
    BY <2>1, BaseTyped DEF Request
  <2> QED
    BY <1>2, <1>3, <2>1, <2>2 DEF CheckArchived, Copies, rows, counts
<1>4. ASSUME NEW a \in Apps, Archive(a) \/ Restore(a) PROVE Tally'
  BY <1>1, <1>4 DEF Archive, Restore, counts
<1>5. ASSUME NEW w \in Workers, NEW a \in Apps,
             \/ ReadStatus(w, a) \/ StartReferral(w, a)
             \/ \E open \in BOOLEAN : ReadReferral(w, a, open)
             \/ ReadForDelete(w, a) \/ StartRegister(w, a) \/ StartGoogle(w, a)
      PROVE  Tally'
  <2>1. (\E open \in BOOLEAN : ReadReferral(w, a, open)) => ref[a].id # 0
    BY DEF ReadReferral
  <2>2. PICK r : Copies(w, r)
    BY <1>5, <2>1, Starting, BaseTyped DEF Starts, Copies
  <2>3. UNCHANGED <<rows, uses, edits>>
    BY <1>5 DEF ReadStatus, StartReferral, ReadReferral, ReadForDelete, StartRegister,
                StartGoogle, Begin, counts
  <2> QED
    BY <1>2, <2>2, <2>3 DEF rows
<1>6. ASSUME NEW w \in Workers,
             CheckActive(w) \/ NoToken(w) \/ LockForReferral(w) \/ DeleteReferral(w)
               \/ LockReferral(w) \/ SaveStatus(w) \/ (\E a \in Apps : InsertApp(w, a))
      PROVE  Tally'
  <2>1. \E r : Copies(w, r)
    BY <1>6, IdleCopies, GoingCopies DEF CheckActive, NoToken, LockForReferral, DeleteReferral,
       LockReferral, SaveStatus, InsertApp, Pcs
  <2>2. UNCHANGED <<ref, codes, uses, edits>>
    BY <1>6 DEF CheckActive, NoToken, LockForReferral, DeleteReferral, LockReferral,
                SaveStatus, InsertApp, rows, counts
  <2> QED
    BY <1>2, <2>1, <2>2
<1>7. ASSUME NEW w \in Workers, Unverify(w) PROVE Tally'
  <2>1. \A b \in Apps : ref'[b] = ref[b] \/ ref'[b].id = 0
    BY <1>7, BaseTyped DEF Unverify, TypeOK
  <2> QED
    BY <1>7, <2>1, IdleCopies, TallyStays DEF Unverify, counts
<1>8. ASSUME NEW w \in Workers, LockApp(w) \/ Abort(w) PROVE Tally'
  <2>1. \E r : Copies(w, r)
    BY <1>8, IdleCopies, GoingCopies DEF LockApp, Abort, RollBack, Pcs
  <2>2. UNCHANGED <<ref, codes, uses, edits>>
    BY <1>8 DEF LockApp, Abort, RollBack, rows, counts
  <2> QED
    BY <1>2, <2>1, <2>2
<1>9. UNCHANGED vars => UNCHANGED <<ref, req, codes, uses, edits>>
  BY DEF vars
<1> QED
  BY <1>1, <1>3, <1>4, <1>5, <1>6, <1>7, <1>8, <1>9, IssueTally, SaveTally, EnrollTally
     DEF Next, Serve

\* OneUsePerCode: RegisterAPIView and GoogleAuthView use a code up, and only an admin's
\* save of its row, perhaps of a stale copy, makes it good for one more.
THEOREM OnboardingOneUse == Spec => []OneUsePerCode
<1>1. Tally => OneUsePerCode
  BY DEF Tally, Counted, OneUsePerCode
<1> QED
  BY <1>1, InitTyped, NextTyped, InitGood, NextGood, InitTally, NextTally, PTL DEF Spec

(***************************************************************************)
(* A verified application has a referral, unless two admins' requests on   *)
(* it have overlapped.                                                     *)
(***************************************************************************)

Busy(w, a) == req[w].pc \in AdminWork /\ req[w].a = a

\* What the admin's request of w has read still holds.
Fresh(w) ==
  LET a == req[w].a IN
  /\ req[w].pc = "saveStatus" => (req[w].app.verified <=> app[a].verified)
  /\ req[w].pc \in {"saveReferral", "deleteReferral"} =>
       ref[a].id = req[w].ref.id /\ ref[a].id # 0
  /\ req[w].pc = "unverify" => ref[a].id # 0 /\ refLock[a] = w

Agree(a) ==
  /\ app[a].verified <=> ref[a].id # 0
  /\ \A v, w \in Workers : Busy(v, a) /\ Busy(w, a) => v = w
  /\ \A w \in Workers : Busy(w, a) => Fresh(w)

Present ==
  /\ \A a \in Apps : app[a].state = "absent" => ~app[a].verified
  /\ \A w \in Workers : req[w].pc \in AdminWork => app[req[w].a].state # "absent"
  /\ \A w \in Workers : req[w].pc = "saveStatus" => req[w].app.state # "absent"

Settled == Present /\ \A a \in Apps \ raced : Agree(a)

LEMMA InitSettled == Init => Settled
BY BaseTyped DEF Init, Settled, Present, Agree, Busy, AdminWork

\* The request of w changes and may be none of an admin's any more.
LEMMA PresentStays ==
  ASSUME TypeOK, Present, NEW w \in Workers,
         \A v \in Workers \ {w} : req'[v] = req[v],
         \A b \in Apps : app[b].state # "absent" => app'[b].state # "absent",
         \A b \in Apps : app'[b].state = "absent" => ~app'[b].verified,
         \/ req'[w].pc \notin AdminWork
         \/ req[w].pc \in AdminWork /\ req'[w].a = req[w].a /\ req'[w].pc # "saveStatus"
  PROVE  Present'
<1>1. ASSUME NEW v \in Workers \ {w}
      PROVE  /\ req'[v].pc \in AdminWork => app'[req'[v].a].state # "absent"
             /\ req'[v].pc = "saveStatus" => req'[v].app.state # "absent"
  BY Fields DEF Present
<1>2. /\ req'[w].pc \in AdminWork => app'[req'[w].a].state # "absent"
      /\ req'[w].pc # "saveStatus"
  BY Fields DEF Present, AdminWork
<1> QED
  BY <1>1, <1>2 DEF Present, AdminWork

\* Nothing an admin's request on a relies on changes.
LEMMA Quiet ==
  ASSUME TypeOK, NEW a \in Apps, Agree(a),
         app'[a].verified <=> app[a].verified, ref'[a].id = ref[a].id,
         \A v \in Workers : Busy(v, a)' =>
           req'[v] = req[v] /\ (refLock[a] = v => refLock'[a] = v)
  PROVE  Agree(a)'
<1>1. \A v \in Workers : Busy(v, a)' => Busy(v, a)
  BY DEF Busy
<1>2. ASSUME NEW v \in Workers, Busy(v, a)' PROVE Fresh(v)'
  <2>1. Busy(v, a) /\ Fresh(v) /\ req'[v] = req[v]
    BY <1>1, <1>2 DEF Agree
  <2> QED
    BY <1>2, <2>1 DEF Busy, Fresh
<1> QED
  BY <1>1, <1>2 DEF Agree

\* The only admin's request on a goes on.
LEMMA Alone ==
  ASSUME NEW a \in Apps, NEW w \in Workers,
         \A v \in Workers \ {w} : ~Busy(v, a) /\ req'[v] = req[v],
         app'[a].verified <=> ref'[a].id # 0,
         Busy(w, a)' => Fresh(w)'
  PROVE  Agree(a)'
<1>1. \A v \in Workers \ {w} : ~Busy(v, a)'
  BY DEF Busy
<1> QED
  BY <1>1 DEF Agree

\* Every step of a request is a step of one worker, who answers or goes on.
LEMMA ServeMoves ==
  ASSUME TypeOK, NEW w \in Workers, Serve(w)
  PROVE  \A v \in Workers \ {w} : req'[v] = req[v]
<1>1. \E r : Becomes(w, r)
  BY DEF Serve, CheckActive, InsertApp, NoToken, SaveStatus, LockForReferral,
     IssueReferral, SaveReferral, DeleteReferral, Unverify, LockReferral, LockApp,
     Enroll, Abort, RollBack, Answer, Goto
<1> QED
  BY <1>1, OthersStay

LEMMA Answered ==
  ASSUME TypeOK, NEW w \in Workers, Answer(w)
  PROVE  req'[w].pc = "idle"
BY BaseTyped, OthersStay DEF Answer

\* The requests that are no admin's, and the abortion of any.
Elsewhere(w) ==
  \/ CheckActive(w) \/ NoToken(w) \/ LockReferral(w) \/ LockApp(w) \/ Enroll(w) \/ Abort(w)
  \/ \E a \in Apps : InsertApp(w, a)

LEMMA ElsewhereEffect ==
  ASSUME TypeOK, Present, NEW w \in Workers, Elsewhere(w)
  PROVE  /\ req'[w].pc \notin AdminWork /\ raced' = raced
         /\ \A b \in Apps : /\ app'[b].verified <=> app[b].verified
                            /\ ref'[b].id = ref[b].id
                            /\ app[b].state # "absent" => app'[b].state # "absent"
                            /\ app'[b].state = "absent" => ~app'[b].verified
<1>1. req'[w].pc \notin AdminWork
  <2>1. \/ Answer(w)
        \/ \E pc \in {"insert", "lockApp", "enroll"} : Goto(w, pc)
    BY DEF Elsewhere, CheckActive, NoToken, LockReferral, LockApp, Enroll, Abort, InsertApp, RollBack
  <2>2. \A pc \in {"insert", "lockApp", "enroll"} : Goto(w, pc) => req'[w].pc = pc
    BY GoesTo DEF Pcs
  <2> QED
    BY <2>1, <2>2, Answered DEF AdminWork
<1>2. CASE UNCHANGED <<rows, counts>>
  BY <1>1, <1>2 DEF rows, counts, Present
<1>3. CASE Enroll(w) /\ ~RollBack(w)
  <2>1. ref' = [ref EXCEPT ![req[w].a] = Consumed(ref[req[w].a])] /\ UNCHANGED <<app, raced>>
    BY <1>3 DEF Enroll
  <2>2. ref[req[w].a] \in Referral
    BY Fields DEF TypeOK
  <2>3. Consumed(ref[req[w].a]).id = ref[req[w].a].id
    BY <2>2 DEF Consumed, Referral
  <2>4. \A b \in Apps : ref'[b].id = ref[b].id
    BY <2>1, <2>3 DEF TypeOK
  <2> QED
    BY <1>1, <2>1, <2>4 DEF Present
<1>4. ASSUME NEW a \in Apps, InsertApp(w, a), app' # app
      PROVE  /\ raced' = raced /\ ref' = ref
             /\ \A b \in Apps : /\ app'[b].verified <=> app[b].verified
                                /\ app[b].state # "absent" => app'[b].state # "absent"
                                /\ app'[b].state = "absent" => ~app'[b].verified
  <2>1. PICK row : /\ row = [state |-> "live", email |-> req[w].app.email, verified |-> FALSE]
                   /\ app' = [app EXCEPT ![a] = row]
    BY <1>4 DEF InsertApp
  <2>2. row.state = "live" /\ ~row.verified
    BY <2>1
  <2>3. app[a].state = "absent" /\ UNCHANGED <<raced, ref>>
    BY <1>4 DEF InsertApp, counts
  <2>4. app'[a] = row /\ \A b \in Apps \ {a} : app'[b] = app[b]
    BY <2>1 DEF TypeOK
  <2> QED
    BY <2>2, <2>3, <2>4 DEF Present
<1>5. \/ UNCHANGED <<rows, counts>>
      \/ Enroll(w) /\ ~RollBack(w)
      \/ \E a \in Apps : InsertApp(w, a) /\ app' # app
  BY DEF Elsewhere, CheckActive, NoToken, LockReferral, LockApp, Enroll, Abort, InsertApp,
         RollBack, rows, counts
<1> QED
  BY <1>1, <1>2, <1>3, <1>4, <1>5

LEMMA ElsewhereSettles ==
  ASSUME TypeOK, Good, Settled, NEW w \in Workers, Serve(w), Elsewhere(w)
  PROVE  Settled'
<1>1. Present'
  BY ElsewhereEffect, ServeMoves, PresentStays DEF Settled
<1>2. ASSUME NEW b \in Apps \ raced' PROVE Agree(b)'
  <2>1. \A v \in Workers : Busy(v, b)' => v # w
    BY ElsewhereEffect DEF Settled, Busy
  <2>2. \A v \in Workers \ {w} : req'[v] = req[v] /\ (refLock[b] = v => refLock'[b] = v)
    BY ServeMoves, ServeKeeps DEF Kept
  <2> QED
    BY <2>1, <2>2, ElsewhereEffect, Quiet DEF Settled
<1> QED
  BY <1>1, <1>2 DEF Settled

\* The steps of an admin's request, each on the application it is about.
Administers(w) ==
  \/ SaveStatus(w) \/ LockForReferral(w) \/ IssueReferral(w)
  \/ SaveReferral(w) \/ DeleteReferral(w) \/ Unverify(w)

\* What such a step leaves behind; a is the request's application.
Leaves(w, a) ==
  /\ raced' = raced
  /\ \A b \in Apps \ {a} : app'[b] = app[b] /\ ref'[b] = ref[b]
  /\ \/ req'[w].pc \notin AdminWork
     \/ req'[w].a = a /\ req'[w].pc # "saveStatus"
  /\ app'[a].state # "absent"
  /\ a \notin raced => /\ app'[a].verified <=> ref'[a].id # 0
                       /\ req'[w].pc \in AdminWork => Fresh(w)'

LEMMA AdministersLeaves ==
  ASSUME TypeOK, Good, Settled, NEW w \in Workers, Administers(w)
  PROVE  req[w].pc \in AdminWork /\ Leaves(w, req[w].a)
<1> DEFINE a == req[w].a
<1>1. req[w].pc \in AdminWork /\ a \in Apps
  BY Fields DEF Administers, SaveStatus, LockForReferral, IssueReferral, SaveReferral,
     DeleteReferral, Unverify, AdminWork
<1>2. /\ app[a].state # "absent"
      /\ a \notin raced => (app[a].verified <=> ref[a].id # 0) /\ Fresh(w)
  BY <1>1 DEF Settled, Present, Agree, Busy
<1>3. ASSUME Answer(w) PROVE req'[w].pc \notin AdminWork
  BY <1>3, Answered DEF AdminWork
<1>4. CASE Answer(w) /\ UNCHANGED <<rows, raced>>
  BY <1>1, <1>2, <1>3, <1>4 DEF Leaves, rows
<1>5. CASE SaveStatus(w) /\ app' # app
  <2>1. app' = [app EXCEPT ![a] = req[w].app] /\ Answer(w) /\ UNCHANGED <<ref, raced>>
    BY <1>5 DEF SaveStatus, counts
  <2>2. app'[a] = req[w].app /\ \A b \in Apps \ {a} : app'[b] = app[b]
    BY <1>1, <2>1 DEF TypeOK
  <2>3. /\ req[w].app.state # "absent"
        /\ a \notin raced => (req[w].app.verified <=> app[a].verified)
    BY <1>2, <1>5 DEF SaveStatus, Settled, Present, Fresh
  <2> QED
    BY <1>1, <1>2, <1>3, <2>1, <2>2, <2>3 DEF Leaves
<1>6. CASE LockForReferral(w) /\ ~Answer(w)
  <2>1. Goto(w, "checkReferral") /\ UNCHANGED <<rows, raced>>
    BY <1>6 DEF LockForReferral, counts
  <2>2. req'[w].pc = "checkReferral" /\ req'[w].a = a
    BY <2>1, GoesTo DEF Pcs
  <2> QED
    BY <1>1, <1>2, <2>1, <2>2 DEF Leaves, Fresh, rows
<1>7. CASE IssueReferral(w) /\ ~RollBack(w)
  <2>1. /\ codes + 1 \in Codes /\ ref' = [ref EXCEPT ![a] = Issued(codes + 1)]
        /\ app' = [app EXCEPT ![a].verified = TRUE] /\ Answer(w) /\ raced' = raced
    BY <1>7 DEF IssueReferral, counts
  <2>2. ref'[a].id # 0 /\ \A b \in Apps \ {a} : app'[b] = app[b] /\ ref'[b] = ref[b]
    BY <1>1, <2>1 DEF TypeOK, Issued, Codes
  <2>3. app'[a].verified /\ app'[a].state = app[a].state
    BY <1>1, <2>1 DEF TypeOK, App
  <2> QED
    BY <1>1, <1>2, <1>3, <2>1, <2>2, <2>3 DEF Leaves
<1>8. CASE SaveReferral(w)
  <2>1. /\ Answer(w) /\ UNCHANGED <<app, raced>> /\ req[w].pc = "saveReferral"
        /\ ref' = ref \/ ref' = [ref EXCEPT ![a] = req[w].ref]
    BY <1>8 DEF SaveReferral
  <2>2. /\ ref'[a] = ref[a] \/ ref'[a] = req[w].ref
        /\ \A b \in Apps \ {a} : ref'[b] = ref[b]
    BY <1>1, <2>1 DEF TypeOK
  <2>3. a \notin raced => ref'[a].id = ref[a].id
    BY <1>2, <2>1, <2>2 DEF Fresh
  <2> QED
    BY <1>1, <1>2, <1>3, <2>1, <2>2, <2>3 DEF Leaves
<1>9. CASE DeleteReferral(w)
  <2>1. /\ Goto(w, "unverify") /\ UNCHANGED <<rows, raced>> /\ req[w].pc = "deleteReferral"
        /\ ref[a].id = req[w].ref.id => refLock' = [refLock EXCEPT ![a] = w]
    BY <1>9 DEF DeleteReferral, counts
  <2>2. req'[w].pc = "unverify" /\ req'[w].a = a
    BY <2>1, GoesTo DEF Pcs
  <2>3. a \notin raced => ref[a].id # 0 /\ refLock'[a] = w
    BY <1>1, <1>2, <2>1 DEF Fresh, TypeOK
  <2> QED
    BY <1>1, <1>2, <2>1, <2>2, <2>3 DEF Leaves, Fresh, rows
<1>10. CASE Unverify(w)
  <2>1. /\ Answer(w) /\ raced' = raced /\ req[w].pc = "unverify"
        /\ app' = [app EXCEPT ![a] = Unverified(app[a])]
        /\ ref' = IF refLock[a] = w THEN [ref EXCEPT ![a] = NoReferral] ELSE ref
    BY <1>10 DEF Unverify, counts
  <2>2. Unverified(app[a]).state = app[a].state /\ ~Unverified(app[a]).verified
    BY <1>1 DEF Unverified, TypeOK, App
  <2>3. app'[a] = Unverified(app[a]) /\ \A b \in Apps \ {a} : app'[b] = app[b]
    BY <1>1, <2>1 DEF TypeOK
  <2>4. \A b \in Apps \ {a} : ref'[b] = ref[b]
    BY <1>1, <2>1 DEF TypeOK
  <2>5. a \notin raced => ref'[a].id = 0
    BY <1>1, <1>2, <2>1, BaseTyped DEF Fresh, TypeOK
  <2> QED
    BY <1>1, <1>2, <1>3, <2>1, <2>2, <2>3, <2>4, <2>5 DEF Leaves
<1>11. \/ Answer(w) /\ UNCHANGED <<rows, raced>>
       \/ SaveStatus(w) /\ app' # app
       \/ LockForReferral(w) /\ ~Answer(w)
       \/ IssueReferral(w) /\ ~RollBack(w)
       \/ SaveReferral(w) \/ DeleteReferral(w) \/ Unverify(w)
  BY DEF Administers, SaveStatus, LockForReferral, IssueReferral, RollBack, rows, counts
<1> QED
  BY <1>1, <1>4, <1>5, <1>6, <1>7, <1>8, <1>9, <1>10, <1>11

LEMMA AdministersSettles ==
  ASSUME TypeOK, Good, Settled, NEW w \in Workers, Serve(w), Administers(w)
  PROVE  Settled'
<1> DEFINE a == req[w].a
<1>1. req[w].pc \in AdminWork /\ Leaves(w, a) /\ a \in Apps
  BY AdministersLeaves, Fields
<1>2. \A v \in Workers \ {w} :
        req'[v] = req[v] /\ \A b \in Apps : refLock[b] = v => refLock'[b] = v
  BY ServeMoves, ServeKeeps DEF Kept
<1>3. Present'
  <2>1. \A b \in Apps : app'[b] = app[b] \/ (b = a /\ app'[b].state # "absent")
    BY <1>1 DEF Leaves
  <2> QED
    BY <1>1, <1>2, <2>1, PresentStays DEF Leaves, Settled, Present
<1>4. ASSUME NEW b \in Apps \ raced' PROVE Agree(b)'
  <2>1. CASE b = a
    <3>1. Busy(w, b) /\ Agree(b)
      BY <1>1, <1>4, <2>1 DEF Leaves, Busy, Settled
    <3>2. \A v \in Workers \ {w} : ~Busy(v, b) /\ req'[v] = req[v]
      BY <1>2, <3>1 DEF Agree
    <3>3. Leaves(w, b) /\ b \notin raced
      BY <1>1, <1>4, <2>1 DEF Leaves
    <3>4. (app'[b].verified <=> ref'[b].id # 0) /\ (Busy(w, b)' => Fresh(w)')
      BY <3>3 DEF Leaves, Busy
    <3> QED
      BY <3>2, <3>4, Alone
  <2>2. CASE b # a
    <3>1. Agree(b) /\ app'[b] = app[b] /\ ref'[b] = ref[b] /\ ~Busy(w, b)'
      BY <1>1, <1>4, <2>2 DEF Leaves, Busy, Settled
    <3> QED
      BY <1>2, <3>1, Quiet
  <2> QED
    BY <2>1, <2>2
<1> QED
  BY <1>3, <1>4 DEF Settled

\* An admin's request that starts while another is under way makes its application one
\* of the raced; otherwise it is the only one, and what it has read is true.
LEMMA BeginSettles ==
  ASSUME TypeOK, Settled, NEW w \in Workers, NEW a \in Apps, NEW r, Becomes(w, r),
         r.a = a, r.pc \in AdminWork, Begin(a), UNCHANGED <<rows, locks>>,
         app[a].state # "absent",
         r.pc = "saveStatus" => r.app = app[a],
         r.pc \in {"saveReferral", "deleteReferral"} => r.ref.id = ref[a].id /\ ref[a].id # 0,
         r.pc # "unverify"
  PROVE  Settled'
<1>1. req'[w] = r /\ \A v \in Workers \ {w} : req'[v] = req[v]
  BY OthersStay
<1>2. Present'
  BY <1>1 DEF Settled, Present, rows
<1>3. ASSUME NEW b \in Apps \ raced' PROVE Agree(b)'
  <2>1. b \notin raced /\ Agree(b)
    BY <1>3 DEF Begin, Settled
  <2>2. CASE b = a
    <3>1. \A v \in Workers : ~Busy(v, a)
      BY <1>3, <2>2 DEF Begin, Busy
    <3>2. Fresh(w)'
      BY <1>1 DEF Fresh, rows
    <3> QED
      BY <1>1, <2>1, <2>2, <3>1, <3>2, Alone DEF Agree, rows
  <2>3. CASE b # a
    <3>1. ~Busy(w, b)'
      BY <1>1, <2>3 DEF Busy
    <3> QED
      BY <1>1, <2>1, <3>1, Quiet DEF rows, locks
  <2> QED
    BY <2>2, <2>3
<1> QED
  BY <1>2, <1>3 DEF Settled

\* A visitor's request starts.
LEMMA VisitSettles ==
  ASSUME TypeOK, Settled, NEW w \in Workers, NEW r, Becomes(w, r), r.pc \notin AdminWork,
         UNCHANGED <<rows, locks, raced>>
  PROVE  Settled'
<1>1. req'[w] = r /\ \A v \in Workers \ {w} : req'[v] = req[v]
  BY OthersStay
<1>2. Present'
  BY <1>1 DEF Settled, Present, AdminWork, rows
<1>3. ASSUME NEW b \in Apps \ raced' PROVE Agree(b)'
  BY <1>1, Quiet DEF Settled, Busy, rows, locks
<1> QED
  BY <1>2, <1>3 DEF Settled

LEMMA NextSettled == TypeOK /\ Good /\ Settled /\ [Next]_vars => Settled'
<1> SUFFICES ASSUME TypeOK, Good, Settled, [Next]_vars PROVE Settled'
  OBVIOUS
<1>1. CASE UNCHANGED vars
  BY <1>1 DEF vars, Settled, Present, Agree, Busy, Fresh
<1>2. ASSUME NEW w \in Workers, NEW e \in Emails, CheckArchived(w, e) PROVE Settled'
  <2>1. PICK r : r = [Idle EXCEPT !.pc = "checkActive", !.app.email = e] /\ Becomes(w, r)
    BY <1>2 DEF CheckArchived
  <2>2. r.pc = "checkActive"
    BY <2>1, BaseTyped DEF Request
  <2> QED
    BY <1>2, <2>1, <2>2, VisitSettles DEF CheckArchived, AdminWork, counts
<1>3. ASSUME NEW a \in Apps, Archive(a) \/ Restore(a) PROVE Settled'
  <2>1. PICK state \in {"live", "archived"} : app' = [app EXCEPT ![a].state = state]
    BY <1>3 DEF Archive, Restore
  <2>2. UNCHANGED <<ref, locks, req, raced>> /\ app[a].state # "absent"
    BY <1>3 DEF Archive, Restore, Live, counts
  <2>3. \A b \in Apps : /\ app'[b].verified <=> app[b].verified
                        /\ app'[b].state = "absent" <=> app[b].state = "absent"
    BY <2>1, <2>2 DEF TypeOK, App
  <2>4. Present'
    BY <2>2, <2>3, Fields DEF Settled, Present
  <2>5. \A b \in Apps \ raced' : Agree(b)'
    BY <2>2, <2>3, Quiet DEF Settled, locks
  <2> QED
    BY <2>4, <2>5 DEF Settled
<1>4. ASSUME NEW w \in Workers, NEW a \in Apps, StartRegister(w, a) \/ StartGoogle(w, a)
      PROVE  Settled'
  <2>1. PICK r : Becomes(w, r) /\ r.pc = "lockReferral"
    BY <1>4, Starting DEF Starts
  <2> QED
    BY <1>4, <2>1, VisitSettles DEF StartRegister, StartGoogle, AdminWork, counts
<1>5. ASSUME NEW w \in Workers, NEW a \in Apps, ReadStatus(w, a) \/ StartReferral(w, a)
      PROVE  Settled'
  <2>1. PICK r : /\ Becomes(w, r) /\ r.a = a /\ r.pc \in {"saveStatus", "lockForReferral"}
                 /\ r.pc = "saveStatus" => r.app = app[a]
    BY <1>5, Starting DEF Starts
  <2> QED
    BY <1>5, <2>1, BeginSettles DEF ReadStatus, StartReferral, Live, AdminWork
<1>6. ASSUME NEW w \in Workers, NEW a \in Apps,
             (\E open \in BOOLEAN : ReadReferral(w, a, open)) \/ ReadForDelete(w, a)
      PROVE  Settled'
  <2>1. PICK r : /\ Becomes(w, r) /\ r.a = a /\ r.pc \in {"saveReferral", "deleteReferral"}
                 /\ r.ref.id = ref[a].id
    BY <1>6, Starting DEF Starts
  <2>2. /\ Begin(a) /\ UNCHANGED <<rows, locks>>
        /\ app[a].state # "absent" /\ ref[a].id # 0
    BY <1>6 DEF ReadReferral, ReadForDelete, Live
  <2> QED
    BY <2>1, <2>2, BeginSettles DEF AdminWork
<1>7. ASSUME NEW w \in Workers, Serve(w) PROVE Settled'
  BY <1>7, ElsewhereSettles, AdministersSettles DEF Serve, Elsewhere, Administers
<1> QED
  BY <1>1, <1>2, <1>3, <1>4, <1>5, <1>6, <1>7 DEF Next

\* VerifiedMeansReferred: create_referral_for_pre_application and the post_delete handler
\* keep the flag true to the referral; only requests that overlap on one application can
\* undo that, since the status PATCH and the saves write back rows read earlier.
THEOREM OnboardingVerified == Spec => []VerifiedMeansReferred
<1>1. Settled => VerifiedMeansReferred
  BY DEF Settled, Agree, VerifiedMeansReferred
<1> QED
  BY <1>1, InitTyped, NextTyped, InitGood, NextGood, InitSettled, NextSettled, PTL DEF Spec

(***************************************************************************)
(* The locks lead somewhere.                                               *)
(***************************************************************************)

\* A lock is held by a request at work, on its own application.
Owns(w) ==
  \A a \in Apps :
    /\ refLock[a] = w => req[w].a = a /\ req[w].pc \in {"lockApp", "unverify", "enroll"}
    /\ appLock[a] = w => req[w].a = a /\ req[w].pc \in {"checkReferral", "enroll"}

AllOwned == \A w \in Workers : Owns(w)

Empty(w) == \A a \in Apps : refLock[a] # w /\ appLock[a] # w

LEMMA InitOwned == Init => AllOwned
BY NotNone DEF Init, AllOwned, Owns

\* A step of w gives nobody else a lock.
LEMMA OwnedKept ==
  ASSUME AllOwned, NEW w \in Workers, Owns(w)',
         \A v \in Workers \ {w} : req'[v] = req[v],
         \A v \in Workers \ {w}, a \in Apps : /\ refLock'[a] = v => refLock[a] = v
                                              /\ appLock'[a] = v => appLock[a] = v
  PROVE  AllOwned'
<1>1. ASSUME NEW v \in Workers \ {w} PROVE Owns(v)'
  <2>1. Owns(v) /\ req'[v] = req[v]
    BY DEF AllOwned
  <2>2. ASSUME NEW a \in Apps
        PROVE  (refLock'[a] = v => refLock[a] = v) /\ (appLock'[a] = v => appLock[a] = v)
    OBVIOUS
  <2> QED
    BY <2>1, <2>2 DEF Owns
<1> QED
  BY <1>1 DEF AllOwned

LEMMA ReleaseOwned ==
  ASSUME TypeOK, AllOwned, NEW w \in Workers, ReleaseLocks(w), Answer(w)
  PROVE  AllOwned'
<1>1. Empty(w)'
  BY NotNone DEF ReleaseLocks, Empty, TypeOK
<1>2. \A v \in Workers \ {w}, a \in Apps : /\ refLock'[a] = v => refLock[a] = v
                                           /\ appLock'[a] = v => appLock[a] = v
  BY NotNone DEF ReleaseLocks, TypeOK
<1>3. \A v \in Workers \ {w} : req'[v] = req[v]
  BY OthersStay DEF Answer
<1> QED
  BY <1>1, <1>2, <1>3, OwnedKept DEF Empty, Owns

\* A request without a lock may do what it likes, but for taking one.
LEMMA EmptyOwned ==
  ASSUME AllOwned, NEW w \in Workers, Empty(w), UNCHANGED locks,
         \A v \in Workers \ {w} : req'[v] = req[v]
  PROVE  AllOwned'
<1>1. Owns(w)'
  BY DEF Empty, Owns, locks
<1> QED
  BY <1>1, OwnedKept DEF locks

LEMMA EmptyHanded ==
  ASSUME AllOwned, NEW w \in Workers,
         req[w].pc \notin {"lockApp", "unverify", "enroll", "checkReferral"}
  PROVE  Empty(w)
BY DEF AllOwned, Owns, Empty

LEMMA ServeOwned ==
  ASSUME TypeOK, AllOwned, NEW w \in Workers, Serve(w)
  PROVE  AllOwned'
<1>1. PICK a \in Apps : req[w].a = a
  BY Fields
<1>2. \A v \in Workers \ {w} : req'[v] = req[v]
  BY ServeMoves
<1>3. CASE ReleaseLocks(w) /\ Answer(w)
  BY <1>3, ReleaseOwned
<1>4. CASE UNCHANGED locks /\ Empty(w)
  BY <1>2, <1>4, EmptyOwned
<1>5. CASE LockForReferral(w) /\ ~UNCHANGED locks
  <2>1. /\ appLock' = [appLock EXCEPT ![a] = w] /\ Goto(w, "checkReferral")
        /\ refLock' = refLock /\ req[w].pc = "lockForReferral"
    BY <1>1, <1>5 DEF LockForReferral, locks
  <2>2. Empty(w) /\ req'[w].pc = "checkReferral" /\ req'[w].a = a
    BY <1>1, <2>1, EmptyHanded, GoesTo DEF Pcs
  <2>3. \A b \in Apps \ {a} : appLock'[b] = appLock[b]
    BY <2>1 DEF TypeOK
  <2>4. Owns(w)'
    BY <2>1, <2>2, <2>3 DEF Empty, Owns
  <2> QED
    BY <1>2, <2>1, <2>4, OwnedKept DEF TypeOK
<1>6. CASE LockReferral(w) /\ ~UNCHANGED locks
  <2>1. /\ refLock' = [refLock EXCEPT ![a] = w] /\ Goto(w, "lockApp")
        /\ appLock' = appLock /\ req[w].pc = "lockReferral"
    BY <1>1, <1>6 DEF LockReferral, locks
  <2>2. Empty(w) /\ req'[w].pc = "lockApp" /\ req'[w].a = a
    BY <1>1, <2>1, EmptyHanded, GoesTo DEF Pcs
  <2>3. \A b \in Apps \ {a} : refLock'[b] = refLock[b]
    BY <2>1 DEF TypeOK
  <2>4. Owns(w)'
    BY <2>1, <2>2, <2>3 DEF Empty, Owns
  <2> QED
    BY <1>2, <2>1, <2>4, OwnedKept DEF TypeOK
<1>7. CASE DeleteReferral(w)
  <2>1. /\ refLock' = [refLock EXCEPT ![a] = w] \/ refLock' = refLock
        /\ Goto(w, "unverify") /\ appLock' = appLock /\ req[w].pc = "deleteReferral"
    BY <1>1, <1>7 DEF DeleteReferral
  <2>2. Empty(w) /\ req'[w].pc = "unverify" /\ req'[w].a = a
    BY <1>1, <2>1, EmptyHanded, GoesTo DEF Pcs
  <2>3. \A b \in Apps \ {a} : refLock'[b] = refLock[b]
    BY <2>1 DEF TypeOK
  <2>4. Owns(w)'
    BY <2>1, <2>2, <2>3 DEF Empty, Owns
  <2> QED
    BY <1>2, <2>1, <2>4, OwnedKept DEF TypeOK
<1>8. CASE LockApp(w) /\ ~RollBack(w)
  <2>1. /\ appLock' = [appLock EXCEPT ![a] = w] /\ Goto(w, "enroll")
        /\ refLock' = refLock /\ req[w].pc = "lockApp"
    BY <1>1, <1>8 DEF LockApp, RollBack
  <2>2. Owns(w) /\ req'[w].pc = "enroll" /\ req'[w].a = a
    BY <1>1, <2>1, GoesTo DEF Pcs, AllOwned
  <2>3. \A b \in Apps \ {a} : appLock'[b] = appLock[b]
    BY <2>1 DEF TypeOK
  <2>4. Owns(w)'
    BY <1>1, <2>1, <2>2, <2>3 DEF Owns
  <2> QED
    BY <1>2, <2>1, <2>4, OwnedKept DEF TypeOK
<1>9. \/ ReleaseLocks(w) /\ Answer(w)
      \/ UNCHANGED locks /\ Empty(w)
      \/ LockForReferral(w) /\ ~UNCHANGED locks
      \/ LockReferral(w) /\ ~UNCHANGED locks
      \/ DeleteReferral(w)
      \/ LockApp(w) /\ ~RollBack(w)
  <2>1. CASE IssueReferral(w) \/ Unverify(w) \/ Enroll(w) \/ Abort(w)
    BY <2>1 DEF IssueReferral, Unverify, Enroll, Abort, RollBack
  <2>2. CASE CheckActive(w) \/ NoToken(w) \/ SaveStatus(w) \/ SaveReferral(w)
               \/ \E b \in Apps : InsertApp(w, b)
    BY <2>2, EmptyHanded DEF CheckActive, NoToken, SaveStatus, SaveReferral, InsertApp
  <2>3. CASE LockForReferral(w) \/ LockReferral(w)
    BY <2>3, EmptyHanded DEF LockForReferral, LockReferral
  <2>4. CASE LockApp(w)
    BY <2>4 DEF LockApp, RollBack
  <2> QED
    BY <2>1, <2>2, <2>3, <2>4 DEF Serve
<1> QED
  BY <1>3, <1>4, <1>5, <1>6, <1>7, <1>8, <1>9

LEMMA NextOwned == TypeOK /\ AllOwned /\ [Next]_vars => AllOwned'
<1> SUFFICES ASSUME TypeOK, AllOwned, [Next]_vars PROVE AllOwned'
  OBVIOUS
<1>1. CASE UNCHANGED <<locks, req>>
  BY <1>1 DEF locks, AllOwned, Owns
<1>2. ASSUME NEW w \in Workers, req[w].pc = "idle", UNCHANGED locks, NEW r, Becomes(w, r)
      PROVE  AllOwned'
  BY <1>2, EmptyHanded, EmptyOwned, OthersStay
<1>3. \/ UNCHANGED <<locks, req>>
      \/ \E w \in Workers : Serve(w)
      \/ \E w \in Workers : req[w].pc = "idle" /\ UNCHANGED locks /\ \E r : Becomes(w, r)
  <2>1. CASE UNCHANGED vars
    BY <2>1 DEF vars, locks
  <2>2. ASSUME NEW w \in Workers, NEW e \in Emails, CheckArchived(w, e)
        PROVE  req[w].pc = "idle" /\ UNCHANGED locks /\ \E r : Becomes(w, r)
    BY <2>2 DEF CheckArchived
  <2>3. ASSUME NEW a \in Apps, Archive(a) \/ Restore(a) PROVE UNCHANGED <<locks, req>>
    BY <2>3 DEF Archive, Restore
  <2>4. ASSUME NEW w \in Workers, NEW a \in Apps,
               \/ ReadStatus(w, a) \/ StartReferral(w, a)
               \/ \E open \in BOOLEAN : ReadReferral(w, a, open)
               \/ ReadForDelete(w, a) \/ StartRegister(w, a) \/ StartGoogle(w, a)
        PROVE  req[w].pc = "idle" /\ UNCHANGED locks /\ \E r : Becomes(w, r)
    <3>1. \E r : Becomes(w, r)
      BY <2>4, Starting DEF Starts
    <3>2. req[w].pc = "idle" /\ UNCHANGED locks
      BY <2>4 DEF ReadStatus, StartReferral, ReadReferral, ReadForDelete, StartRegister,
                  StartGoogle
    <3> QED
      BY <3>1, <3>2
  <2> QED
    BY <2>1, <2>2, <2>3, <2>4 DEF Next
<1> QED
  BY <1>1, <1>2, <1>3, ServeOwned

\* No lock stands in the way of the request's next step.
CanGoOn(w) ==
  \/ req[w].pc = "enroll"
  \/ req[w].pc = "checkReferral" /\ RefFree(req[w].a)
  \/ req[w].pc \in {"lockApp", "unverify"} /\ AppFree(req[w].a)

NoDeadEnd ==
  \A a \in Apps : \A w \in Workers \cap {refLock[a], appLock[a]} :
    \/ CanGoOn(w)
    \/ \E v \in Workers \cap {refLock[a], appLock[a]} :
         CanGoOn(v) \/ Deadlocked(v, w) \/ Deadlocked(w, v)

\* create_referral_for_pre_application locks the application before the referral,
\* RegisterAPIView, GoogleAuthView and the deletion the other way round: whoever holds a
\* row can go on, or waits for one who can, or the two of them are the circle that
\* PostgreSQL breaks.  No lock is left behind by a request that is over.
THEOREM OnboardingNoDeadEnd == Spec => []NoDeadEnd
<1>1. TypeOK /\ AllOwned => NoDeadEnd
  <2> SUFFICES ASSUME TypeOK, AllOwned, NEW a \in Apps,
                      NEW w \in Workers \cap {refLock[a], appLock[a]}
               PROVE  \/ CanGoOn(w)
                      \/ \E v \in Workers \cap {refLock[a], appLock[a]} :
                           CanGoOn(v) \/ Deadlocked(v, w) \/ Deadlocked(w, v)
    BY DEF NoDeadEnd
  <2>1. CASE req[w].pc = "enroll"
    BY <2>1 DEF CanGoOn
  <2>2. CASE appLock[a] = w /\ req[w].pc # "enroll"
    <3>1. req[w].a = a /\ req[w].pc = "checkReferral"
      BY <2>2 DEF AllOwned, Owns
    <3>2. CASE RefFree(a)
      BY <3>1, <3>2 DEF CanGoOn
    <3>3. CASE ~RefFree(a)
      <4>1. PICK v \in Workers : refLock[a] = v
        BY <3>3 DEF RefFree, TypeOK
      <4>2. req[v].a = a /\ req[v].pc \in {"lockApp", "unverify", "enroll"}
        BY <4>1 DEF AllOwned, Owns
      <4>3. CanGoOn(v) \/ Deadlocked(w, v)
        BY <2>2, <3>1, <4>1, <4>2 DEF CanGoOn, Deadlocked
      <4> QED
        BY <4>1, <4>3
    <3> QED
      BY <3>2, <3>3
  <2>3. CASE refLock[a] = w /\ req[w].pc # "enroll"
    <3>1. req[w].a = a /\ req[w].pc \in {"lockApp", "unverify"}
      BY <2>3 DEF AllOwned, Owns
    <3>2. CASE AppFree(a)
      BY <3>1, <3>2 DEF CanGoOn
    <3>3. CASE ~AppFree(a)
      <4>1. PICK v \in Workers : appLock[a] = v
        BY <3>3 DEF AppFree, TypeOK
      <4>2. req[v].a = a /\ req[v].pc \in {"checkReferral", "enroll"}
        BY <4>1 DEF AllOwned, Owns
      <4>3. CanGoOn(v) \/ Deadlocked(v, w)
        BY <2>3, <3>1, <4>1, <4>2 DEF CanGoOn, Deadlocked
      <4> QED
        BY <4>1, <4>3
    <3> QED
      BY <3>2, <3>3
  <2> QED
    BY <2>1, <2>2, <2>3
<1> QED
  BY <1>1, InitTyped, NextTyped, InitOwned, NextOwned, PTL DEF Spec

(***************************************************************************)
(* The requests implement Admission.                                       *)
(***************************************************************************)

\* What a request that decides keeps of what it has read: a status PATCH the address of
\* its application, create_referral that the application is live, a registration the
\* referral.
Bound(w) ==
  LET a == req[w].a IN
  /\ req[w].pc = "checkReferral" => Live(a)
  /\ req[w].pc = "saveStatus" => req[w].app.email = app[a].email
  /\ req[w].pc \in {"lockReferral", "lockApp", "enroll"} => req[w].ref.id # 0

Deciding == {"saveStatus", "checkReferral", "lockReferral", "lockApp", "enroll"}

AllBound == \A w \in Workers : Bound(w)

LEMMA InitBound == Init => AllBound
BY BaseTyped DEF Init, AllBound, Bound

\* The address of an application is written once.
LEMMA BoundKept ==
  ASSUME TypeOK, Good, NEW v \in Workers, Bound(v), req'[v] = req[v], Kept(v),
         req[v].pc = "saveStatus" => app'[req[v].a].email = app[req[v].a].email
  PROVE  Bound(v)'
<1>1. req[v].pc = "checkReferral" => app'[req[v].a] = app[req[v].a]
  BY Fields DEF Good, Standing, Kept, Bound
<1> QED
  BY <1>1 DEF Bound, Live

LEMMA EmailsStay ==
  ASSUME TypeOK, AllBound, NEW w \in Workers, Serve(w), NEW b \in Apps, app[b].state # "absent"
  PROVE  app'[b].email = app[b].email
<1> DEFINE a == req[w].a
<1>1. app[b] \in App /\ app[a] \in App /\ a \in Apps
  BY Fields DEF TypeOK
<1>2. ASSUME NEW c \in Apps, InsertApp(w, c) PROVE app'[b] = app[b]
  BY <1>2 DEF InsertApp, TypeOK
<1>3. CASE SaveStatus(w)
  <2>1. app' = app \/ app' = [app EXCEPT ![a] = req[w].app]
    BY <1>3 DEF SaveStatus
  <2>2. req[w].app.email = app[a].email
    BY <1>3 DEF SaveStatus, AllBound, Bound
  <2> QED
    BY <1>1, <2>1, <2>2 DEF TypeOK
<1>4. CASE IssueReferral(w)
  <2>1. app' = app \/ app' = [app EXCEPT ![a].verified = TRUE]
    BY <1>4 DEF IssueReferral, RollBack, rows
  <2> QED
    BY <1>1, <2>1 DEF TypeOK, App
<1>5. CASE Unverify(w)
  <2>1. app' = [app EXCEPT ![a] = Unverified(app[a])]
    BY <1>5 DEF Unverify
  <2>2. Unverified(app[a]).email = app[a].email
    BY <1>1 DEF Unverified, App
  <2> QED
    BY <1>1, <2>1, <2>2 DEF TypeOK
<1>6. CASE UNCHANGED app
  BY <1>6
<1>7. \/ UNCHANGED app
      \/ SaveStatus(w) \/ IssueReferral(w) \/ Unverify(w)
      \/ \E c \in Apps : InsertApp(w, c)
  BY DEF Serve, CheckActive, NoToken, LockForReferral, SaveReferral, DeleteReferral,
     LockReferral, LockApp, Enroll, Abort, RollBack, rows
<1> QED
  BY <1>2, <1>3, <1>4, <1>5, <1>6, <1>7

LEMMA ServeBound ==
  ASSUME TypeOK, AllBound, NEW w \in Workers, Serve(w)
  PROVE  Bound(w)'
<1> DEFINE a == req[w].a
<1>1. Bound(w) /\ req[w] \in Request
  BY Fields DEF AllBound
<1>2. ASSUME req'[w].pc \notin Deciding PROVE Bound(w)'
  BY <1>2 DEF Bound, Deciding
<1>3. ASSUME Answer(w) PROVE Bound(w)'
  BY <1>2, <1>3, Answered DEF Deciding
<1>4. CASE Goto(w, "lockApp") /\ req[w].pc = "lockReferral"
  <2>1. req'[w].pc = "lockApp" /\ req'[w].ref = req[w].ref
    BY <1>4, GoesTo DEF Pcs
  <2> QED
    BY <1>1, <1>4, <2>1 DEF Bound
<1>5. CASE Goto(w, "enroll") /\ req[w].pc = "lockApp"
  <2>1. req'[w].pc = "enroll" /\ req'[w].ref = req[w].ref
    BY <1>5, GoesTo DEF Pcs
  <2> QED
    BY <1>1, <1>5, <2>1 DEF Bound
<1>6. ASSUME NEW pc \in {"insert", "unverify"}, Goto(w, pc) PROVE Bound(w)'
  <2>1. req'[w].pc = pc
    BY <1>6, GoesTo DEF Pcs
  <2> QED
    BY <1>2, <2>1 DEF Deciding
<1>7. CASE Goto(w, "checkReferral") /\ Live(a) /\ app' = app
  <2>1. req'[w].pc = "checkReferral" /\ req'[w].a = a
    BY <1>7, GoesTo DEF Pcs
  <2> QED
    BY <1>7, <2>1 DEF Bound, Live
<1>8. \/ Answer(w)
      \/ Goto(w, "insert") \/ Goto(w, "unverify")
      \/ Goto(w, "checkReferral") /\ Live(a) /\ app' = app
      \/ Goto(w, "lockApp") /\ req[w].pc = "lockReferral"
      \/ Goto(w, "enroll") /\ req[w].pc = "lockApp"
  BY DEF Serve, CheckActive, InsertApp, NoToken, SaveStatus, LockForReferral,
     IssueReferral, SaveReferral, DeleteReferral, Unverify, LockReferral, LockApp,
     Enroll, Abort, RollBack, rows
<1> QED
  BY <1>3, <1>4, <1>5, <1>6, <1>7, <1>8

LEMMA NextBound == TypeOK /\ Good /\ Settled /\ AllBound /\ [Next]_vars => AllBound'
<1> SUFFICES ASSUME TypeOK, Good, Settled, AllBound, [Next]_vars PROVE AllBound'
  OBVIOUS
<1>1. CASE UNCHANGED vars
  BY <1>1 DEF vars, AllBound, Bound, Live
<1>2. ASSUME NEW w \in Workers, NEW e \in Emails, CheckArchived(w, e) PROVE AllBound'
  <2>1. PICK r : r = [Idle EXCEPT !.pc = "checkActive", !.app.email = e] /\ Becomes(w, r)
    BY <1>2 DEF CheckArchived
  <2>2. r.pc = "checkActive"
    BY <2>1, BaseTyped DEF Request
  <2>3. req'[w] = r /\ \A v \in Workers \ {w} : req'[v] = req[v]
    BY <2>1, OthersStay
  <2>4. app' = app
    BY <1>2 DEF CheckArchived, rows
  <2> QED
    BY <2>2, <2>3, <2>4 DEF AllBound, Bound, Live
<1>3. ASSUME NEW a \in Apps, Archive(a) \/ Restore(a) PROVE AllBound'
  <2>1. PICK state \in {"live", "archived"} : app' = [app EXCEPT ![a].state = state]
    BY <1>3 DEF Archive, Restore
  <2>2. \A b \in Apps : app'[b].email = app[b].email
    BY <2>1 DEF TypeOK, App
  <2>3. req' = req /\ \A v \in Workers : Kept(v)
    BY <1>3, NotNone DEF Archive, Restore, AppFree, locks, Kept, TypeOK
  <2> QED
    BY <2>2, <2>3, Fields, BoundKept DEF AllBound
<1>4. ASSUME NEW w \in Workers, NEW a \in Apps,
             \/ ReadStatus(w, a) \/ StartReferral(w, a)
             \/ \E open \in BOOLEAN : ReadReferral(w, a, open)
             \/ ReadForDelete(w, a) \/ StartRegister(w, a) \/ StartGoogle(w, a)
      PROVE  AllBound'
  <2>1. UNCHANGED <<rows, locks>>
    BY <1>4 DEF ReadStatus, StartReferral, ReadReferral, ReadForDelete, StartRegister,
                StartGoogle
  <2>2. StartRegister(w, a) \/ StartGoogle(w, a) => ref[a].id # 0
    BY DEF StartRegister, StartGoogle
  <2>3. PICK r : /\ Becomes(w, r)
                 /\ \/ r.pc = "saveStatus" /\ r.a = a /\ r.app = app[a]
                    \/ r.pc = "lockReferral" /\ r.ref.id # 0
                    \/ r.pc \in AdminWork \ {"saveStatus", "checkReferral"}
    BY <1>4, <2>2, Starting DEF Starts, AdminWork
  <2>4. req'[w] = r /\ \A v \in Workers \ {w} : req'[v] = req[v]
    BY <2>3, OthersStay
  <2>5. Bound(w)'
    BY <2>1, <2>3, <2>4 DEF Bound, AdminWork, rows
  <2>6. \A v \in Workers \ {w} : Bound(v)'
    BY <2>1, <2>4, BoundKept DEF AllBound, Kept, rows, locks
  <2> QED
    BY <2>5, <2>6 DEF AllBound
<1>5. ASSUME NEW w \in Workers, Serve(w) PROVE AllBound'
  <2>1. ASSUME NEW v \in Workers \ {w} PROVE Bound(v)'
    <3>1. req'[v] = req[v] /\ Bound(v) /\ req[v].a \in Apps
      BY <1>5, ServeMoves, Fields DEF AllBound
    <3>2. req[v].pc = "saveStatus" => app[req[v].a].state # "absent"
      BY DEF Settled, Present, AdminWork
    <3> QED
      BY <1>5, <3>1, <3>2, EmailsStay, ServeKeeps, BoundKept
  <2> QED
    BY <1>5, <2>1, ServeBound DEF AllBound
<1> QED
  BY <1>1, <1>2, <1>3, <1>4, <1>5 DEF Next

\* What of the rows the gate shows.
Made == {a \in Apps : app[a].state # "absent"}
Address == [a \in Apps |-> app[a].email]
Stands == {a \in Apps : app[a].state = "live" /\ app[a].verified}
Held == [a \in Apps |-> ref[a].id]
Valid == {a \in Apps : ref[a].open /\ ~ref[a].used}

View == <<Made, Address, Stands, Held, Valid, codes, account>>

\* A step that writes rows of one application shows there and nowhere else.
LEMMA Viewed ==
  ASSUME NEW a \in Apps,
         \A b \in Apps \ {a} : app'[b] = app[b] /\ ref'[b] = ref[b]
  PROVE  /\ Made' = IF app'[a].state # "absent" THEN Made \cup {a} ELSE Made \ {a}
         /\ Address' = [Address EXCEPT ![a] = app'[a].email]
         /\ Stands' = IF app'[a].state = "live" /\ app'[a].verified
                      THEN Stands \cup {a} ELSE Stands \ {a}
         /\ Held' = [Held EXCEPT ![a] = ref'[a].id]
         /\ Valid' = IF ref'[a].open /\ ~ref'[a].used
                     THEN Valid \cup {a} ELSE Valid \ {a}
<1>1. Made' = IF app'[a].state # "absent" THEN Made \cup {a} ELSE Made \ {a}
  BY DEF Made
<1>2. Address' = [Address EXCEPT ![a] = app'[a].email]
  BY DEF Address
<1>3. Stands' = IF app'[a].state = "live" /\ app'[a].verified
                THEN Stands \cup {a} ELSE Stands \ {a}
  BY DEF Stands
<1>4. Held' = [Held EXCEPT ![a] = ref'[a].id]
  BY DEF Held
<1>5. Valid' = IF ref'[a].open /\ ~ref'[a].used THEN Valid \cup {a} ELSE Valid \ {a}
  BY DEF Valid
<1> QED
  BY <1>1, <1>2, <1>3, <1>4, <1>5

\* An application that was made stays so, under its address.
LEMMA SameView ==
  ASSUME NEW a \in Apps, a \in Made, app'[a].state # "absent", app'[a].email = app[a].email,
         \A b \in Apps \ {a} : app'[b] = app[b]
  PROVE  Made' = Made /\ Address' = Address
<1>1. Made' = Made
  BY DEF Made
<1>2. Address' = Address
  BY DEF Address
<1> QED
  BY <1>1, <1>2

LEMMA Judges ==
  ASSUME NEW a \in Apps, a \in Made, app'[a].state # "absent", app'[a].email = app[a].email,
         \A b \in Apps \ {a} : app'[b] = app[b],
         UNCHANGED <<ref, codes, account>>
  PROVE  Gate!Judge(a)
<1>1. Made' = Made /\ Address' = Address
  BY SameView
<1>2. Stands' \in {Stands \cup {a}, Stands \ {a}}
  BY Viewed
<1>3. Held' = Held /\ Valid' = Valid
  BY DEF Held, Valid
<1> QED
  BY <1>1, <1>2, <1>3 DEF Gate!Judge, Made, Address, Stands, Held, Valid

LEMMA InsertAdmits ==
  ASSUME TypeOK, Present, NEW w \in Workers, NEW a \in Apps, InsertApp(w, a), app' # app,
         NEW e, req[w].app.email = e
  PROVE  Gate!Apply(a, e)
<1>1. PICK row : /\ row = [state |-> "live", email |-> e, verified |-> FALSE]
                 /\ app' = [app EXCEPT ![a] = row]
  BY DEF InsertApp
<1>2. row.state = "live" /\ row.email = e /\ ~row.verified
  BY <1>1
<1>3. app'[a] = row /\ \A b \in Apps \ {a} : app'[b] = app[b]
  BY <1>1 DEF TypeOK
<1>4. app[a].state = "absent" /\ UNCHANGED <<ref, codes, account>>
  BY DEF InsertApp
<1>5. a \notin Made /\ a \notin Stands
  BY <1>4 DEF Made, Stands
<1>6. Made' = Made \cup {a} /\ Address' = [Address EXCEPT ![a] = e]
  BY <1>2, <1>3, <1>4, Viewed
<1>7. Stands' = Stands
  <2>1. Stands' = Stands \ {a}
    BY <1>2, <1>3, <1>4, Viewed
  <2> QED
    BY <1>5, <2>1
<1>8. Held' = Held /\ Valid' = Valid
  BY <1>4 DEF Held, Valid
<1> QED
  BY <1>4, <1>5, <1>6, <1>7, <1>8 DEF Gate!Apply, Made, Address, Stands, Held, Valid

LEMMA IssueGrants ==
  ASSUME TypeOK, Good, Settled, AllBound, NEW w \in Workers, IssueReferral(w), ~RollBack(w),
         NEW a \in Apps, req[w].a = a
  PROVE  Gate!Grant(a)
<1>1. /\ Live(a)
      /\ ref[a].id = 0 /\ codes + 1 \in Codes /\ codes' = codes + 1
      /\ ref' = [ref EXCEPT ![a] = Issued(codes + 1)]
      /\ app' = [app EXCEPT ![a].verified = TRUE] /\ account' = account
  BY Fields DEF IssueReferral, AllBound, Bound
<1>2. app'[a].verified /\ app'[a].state = "live" /\ app'[a].email = app[a].email
  BY <1>1 DEF TypeOK, App, Live
<1>3. ref'[a].id = codes + 1 /\ ref'[a].open /\ ~ref'[a].used
  BY <1>1 DEF TypeOK, Issued
<1>4. \A b \in Apps \ {a} : app'[b] = app[b] /\ ref'[b] = ref[b]
  BY <1>1 DEF TypeOK
<1>5. a \in Made /\ Held[a] = 0
  BY <1>1 DEF Made, Held, Live
<1>6. Made' = Made /\ Address' = Address
  BY <1>1, <1>2, <1>4, <1>5, SameView
<1>7. /\ Stands' = Stands \cup {a} /\ Valid' = Valid \cup {a}
      /\ Held' = [Held EXCEPT ![a] = codes + 1]
  BY <1>1, <1>2, <1>3, <1>4, Viewed
<1> QED
  BY <1>1, <1>5, <1>6, <1>7 DEF Gate!Grant, Made, Address, Stands, Held, Valid

LEMMA SaveRestamps ==
  ASSUME TypeOK, Settled, Tally, NEW w \in Workers, SaveReferral(w), ref' # ref,
         NEW a \in Apps, req[w].a = a, NEW c, req[w].ref.id = c
  PROVE  c \in Codes /\ Gate!Restamp(a, c)
<1>1. /\ req[w].pc = "saveReferral" /\ ref[a].id \in {0, c}
      /\ ref' = [ref EXCEPT ![a] = req[w].ref] /\ UNCHANGED <<app, account, codes>>
  BY DEF SaveReferral
<1>2. a \in Apps /\ app[a].state # "absent"
  BY <1>1, Fields DEF Settled, Present, AdminWork
<1>3. c \in Codes
  BY <1>1, Fields DEF Tally, Numbered, Codes
<1>4. Carries(a, c)
  BY DEF Carries
<1>5. c \in 1..codes
  BY <1>2, <1>3, <1>4 DEF Tally, Numbered, Codes, TypeOK
<1>6. \A b \in Apps \ {a} : Held[b] # c
  BY <1>2, <1>3, <1>4 DEF Tally, Numbered, Carries, Held
<1>7. ref'[a].id = c /\ \A b \in Apps \ {a} : ref'[b] = ref[b] /\ app'[b] = app[b]
  BY <1>1, <1>2 DEF TypeOK
<1>8. a \in Made /\ Held[a] \in {0, c}
  BY <1>1, <1>2 DEF Made, Held
<1>9. UNCHANGED <<Made, Address, Stands>>
  BY <1>1 DEF Made, Address, Stands
<1>10. Held' = [Held EXCEPT ![a] = c] /\ Valid' \in {Valid \cup {a}, Valid \ {a}}
  BY <1>2, <1>7, Viewed
<1>11. Gate!Restamp(a, c)
  BY <1>1, <1>5, <1>6, <1>8, <1>9, <1>10
     DEF Gate!Restamp, Made, Address, Stands, Held, Valid
<1> QED
  BY <1>3, <1>11

LEMMA UnverifyWithdraws ==
  ASSUME TypeOK, Settled, NEW w \in Workers, Unverify(w), NEW a \in Apps, req[w].a = a
  PROVE  Gate!Withdraw(a) \/ Gate!Judge(a)
<1>1. /\ req[w].pc = "unverify" /\ app' = [app EXCEPT ![a] = Unverified(app[a])]
      /\ ref' = IF refLock[a] = w THEN [ref EXCEPT ![a] = NoReferral] ELSE ref
      /\ UNCHANGED <<account, codes>>
  BY DEF Unverify
<1>2. a \in Apps /\ a \in Made
  BY <1>1, Fields DEF Settled, Present, AdminWork, Made
<1>3. /\ Unverified(app[a]).state = app[a].state /\ Unverified(app[a]).email = app[a].email
      /\ ~Unverified(app[a]).verified
  BY <1>2 DEF Unverified, TypeOK, App
<1>4. app'[a] = Unverified(app[a]) /\ \A b \in Apps \ {a} : app'[b] = app[b]
  BY <1>1, <1>2 DEF TypeOK
<1>5. app'[a].state # "absent" /\ app'[a].email = app[a].email /\ ~app'[a].verified
  BY <1>2, <1>3, <1>4 DEF Made
<1>6. CASE refLock[a] # w
  BY <1>1, <1>2, <1>4, <1>5, <1>6, Judges
<1>7. CASE refLock[a] = w
  <2>1. ref'[a] = NoReferral /\ \A b \in Apps \ {a} : ref'[b] = ref[b]
    BY <1>1, <1>2, <1>7 DEF TypeOK
  <2>2. ref'[a].id = 0 /\ ~ref'[a].open
    BY <2>1 DEF NoReferral
  <2>3. Made' = Made /\ Address' = Address
    BY <1>2, <1>4, <1>5, SameView
  <2>4. /\ Stands' = Stands \ {a} /\ Valid' = Valid \ {a}
        /\ Held' = [Held EXCEPT ![a] = 0]
    BY <1>2, <1>4, <1>5, <2>1, <2>2, Viewed
  <2>5. Gate!Withdraw(a)
    BY <1>1, <1>2, <2>3, <2>4 DEF Gate!Withdraw, Made, Address, Stands, Held, Valid
  <2> QED
    BY <2>5
<1> QED
  BY <1>6, <1>7

LEMMA EnrollEnters ==
  ASSUME TypeOK, Good, AllBound, NEW w \in Workers, Enroll(w), ~RollBack(w),
         NEW a \in Apps, req[w].a = a
  PROVE  Gate!Enter(a)
<1>1. /\ req[w].pc = "enroll" /\ account' = account \cup {app[a].email}
      /\ ref' = [ref EXCEPT ![a] = Consumed(ref[a])] /\ UNCHANGED <<app, codes>>
  BY Fields DEF Enroll
<1>2. Admissible(a) /\ ref[a].id # 0
  BY <1>1 DEF Good, Standing, AllBound, Bound
<1>3. ref[a] \in Referral
  BY <1>1 DEF TypeOK
<1>4. Consumed(ref[a]).id = ref[a].id /\ ~Consumed(ref[a]).open
  BY <1>3 DEF Consumed, Referral
<1>5. ref'[a] = Consumed(ref[a]) /\ \A b \in Apps \ {a} : ref'[b] = ref[b] /\ app'[b] = app[b]
  BY <1>1 DEF TypeOK
<1>6. a \in Stands \cap Valid /\ Held[a] # 0 /\ Address[a] = app[a].email
  BY <1>1, <1>2 DEF Admissible, Live, Stands, Valid, Held, Address
<1>7. UNCHANGED <<Made, Address, Stands>>
  BY <1>1 DEF Made, Address, Stands
<1>8. Held' = Held
  BY <1>4, <1>5 DEF Held
<1>9. Valid' = Valid \ {a}
  BY <1>1, <1>4, <1>5, Viewed
<1> QED
  BY <1>1, <1>6, <1>7, <1>8, <1>9 DEF Gate!Enter, Made, Address, Stands, Held, Valid

LEMMA GateStarts == Init => Gate!GateInit
<1> SUFFICES ASSUME Init PROVE Gate!GateInit
  OBVIOUS
<1>1. Made = {} /\ Stands = {} /\ Valid = {}
  BY BaseTyped DEF Init, Made, Stands, Valid, NoReferral
<1>2. Held = [a \in Apps |-> 0] /\ codes = 0 /\ account = {}
  BY BaseTyped DEF Init, Held
<1>3. Address \in [Apps -> Emails]
  BY InitTyped DEF TypeOK, App, Address
<1> QED
  BY <1>1, <1>2, <1>3 DEF Gate!GateInit, Made, Address, Stands, Held, Valid

LEMMA Unseen == UNCHANGED rows => UNCHANGED View
BY DEF rows, View, Made, Address, Stands, Held, Valid

LEMMA ServeImplements ==
  ASSUME TypeOK, Good, Tally, Settled, AllBound, NEW w \in Workers, Serve(w),
         ~UNCHANGED rows
  PROVE  Gate!GateNext
<1>1. PICK a \in Apps : req[w].a = a
  BY Fields
<1>2. ASSUME NEW b \in Apps, InsertApp(w, b) PROVE Gate!GateNext
  <2>1. app' # app
    BY <1>2 DEF InsertApp, rows
  <2>2. PICK e \in Emails : req[w].app.email = e
    BY Fields
  <2>3. Gate!Apply(b, e)
    BY <1>2, <2>1, <2>2, InsertAdmits DEF Settled
  <2> QED
    BY <2>3 DEF Gate!GateNext
<1>3. CASE SaveStatus(w)
  <2>1. /\ app' = [app EXCEPT ![a] = req[w].app] /\ UNCHANGED <<ref, account, codes>>
        /\ req[w].pc = "saveStatus"
    BY <1>1, <1>3 DEF SaveStatus, rows
  <2>2. app'[a] = req[w].app /\ \A b \in Apps \ {a} : app'[b] = app[b]
    BY <1>1, <2>1 DEF TypeOK
  <2>3. a \in Made /\ app'[a].state # "absent" /\ app'[a].email = app[a].email
    BY <1>1, <2>1, <2>2 DEF Settled, Present, AdminWork, Made, AllBound, Bound
  <2>4. Gate!Judge(a)
    BY <1>1, <2>1, <2>2, <2>3, Judges
  <2> QED
    BY <1>1, <2>4 DEF Gate!GateNext
<1>4. CASE IssueReferral(w)
  <2>1. Gate!Grant(a)
    BY <1>1, <1>4, IssueGrants DEF RollBack
  <2> QED
    BY <1>1, <2>1 DEF Gate!GateNext
<1>5. CASE SaveReferral(w)
  <2>1. ref' # ref
    BY <1>5 DEF SaveReferral, rows
  <2>2. PICK c : req[w].ref.id = c
    OBVIOUS
  <2>3. c \in Codes /\ Gate!Restamp(a, c)
    BY <1>1, <1>5, <2>1, <2>2, SaveRestamps
  <2> QED
    BY <2>3 DEF Gate!GateNext
<1>6. CASE Unverify(w)
  <2>1. Gate!Withdraw(a) \/ Gate!Judge(a)
    BY <1>1, <1>6, UnverifyWithdraws
  <2> QED
    BY <1>1, <2>1 DEF Gate!GateNext
<1>7. CASE Enroll(w)
  <2>1. Gate!Enter(a)
    BY <1>1, <1>7, EnrollEnters DEF RollBack
  <2> QED
    BY <1>1, <2>1 DEF Gate!GateNext
<1>8. \/ \E b \in Apps : InsertApp(w, b)
      \/ SaveStatus(w) \/ IssueReferral(w) \/ SaveReferral(w) \/ Unverify(w) \/ Enroll(w)
  BY DEF Serve, CheckActive, NoToken, LockForReferral, DeleteReferral, LockReferral, LockApp,
     Abort, RollBack
<1> QED
  BY <1>2, <1>3, <1>4, <1>5, <1>6, <1>7, <1>8

LEMMA StepImplements ==
  ASSUME TypeOK, Good, Tally, Settled, AllBound, [Next]_vars
  PROVE  [Gate!GateNext]_(Gate!gateVars)
<1>1. CASE UNCHANGED rows
  BY <1>1, Unseen DEF Gate!gateVars, View, Made, Address, Stands, Held, Valid
<1>2. ASSUME NEW a \in Apps, Archive(a) \/ Restore(a) PROVE Gate!GateNext
  <2>1. PICK state \in {"live", "archived"} : app' = [app EXCEPT ![a].state = state]
    BY <1>2 DEF Archive, Restore
  <2>2. a \in Made /\ UNCHANGED <<ref, codes, account>>
    BY <1>2 DEF Archive, Restore, Live, Made
  <2>3. /\ app'[a].state # "absent" /\ app'[a].email = app[a].email
        /\ \A b \in Apps \ {a} : app'[b] = app[b]
    BY <2>1 DEF TypeOK, App
  <2>4. Gate!Judge(a)
    BY <2>2, <2>3, Judges
  <2> QED
    BY <2>4 DEF Gate!GateNext
<1>3. \/ UNCHANGED rows
      \/ \E a \in Apps : Archive(a) \/ Restore(a)
      \/ \E w \in Workers : Serve(w)
  BY DEF Next, vars, rows, CheckArchived, ReadStatus, StartReferral, ReadReferral,
     ReadForDelete, StartRegister, StartGoogle
<1> QED
  BY <1>1, <1>2, <1>3, ServeImplements

\* ImplementsAdmission: RegisterAPIView and GoogleAuthView read, lock and write row by
\* row, and admins save copies and delete meanwhile; what is committed changes as if
\* accounts came to be one at a time, each by spending a valid code of an application
\* in good standing.
THEOREM OnboardingImplementsAdmission == Spec => ImplementsAdmission
<1>1. TypeOK /\ Good /\ Tally /\ Settled /\ AllBound /\ [Next]_vars
        => [Gate!GateNext]_(Gate!gateVars)
  BY StepImplements
<1> QED
  BY <1>1, GateStarts, InitTyped, NextTyped, InitGood, NextGood, InitTally, NextTally,
     InitSettled, NextSettled, InitBound, NextBound, PTL
     DEF Spec, ImplementsAdmission, Gate!GateSpec

(***************************************************************************)
(* What Admission promises.                                                *)
(***************************************************************************)

GateTyped ==
  /\ applied \subseteq Applications
  /\ email \in [Applications -> Addresses]
  /\ issued \in Nat
  /\ ticket \in [Applications -> 0..issued]
  /\ standing \subseteq applied

LEMMA GateNextSafe == GateTyped /\ GateSafe /\ [GateNext]_gateVars => GateTyped' /\ GateSafe'
<1> SUFFICES ASSUME GateTyped, GateSafe, [GateNext]_gateVars PROVE GateTyped' /\ GateSafe'
  OBVIOUS
<1> USE DEF GateTyped, GateSafe
<1>1. CASE UNCHANGED gateVars
  BY <1>1 DEF gateVars
<1>2. ASSUME NEW a \in Applications, NEW e \in Addresses, Apply(a, e)
      PROVE  GateTyped' /\ GateSafe'
  <2>1. \A b \in applied : b # a /\ email'[b] = email[b]
    BY <1>2 DEF Apply
  <2> QED
    BY <1>2, <2>1 DEF Apply
<1>3. ASSUME NEW a \in Applications, Judge(a) PROVE GateTyped' /\ GateSafe'
  BY <1>3 DEF Judge
<1>4. ASSUME NEW a \in Applications, Grant(a) PROVE GateTyped' /\ GateSafe'
  <2>1. ticket' = [ticket EXCEPT ![a] = issued + 1] /\ issued' = issued + 1
    BY <1>4 DEF Grant
  <2>2. \A b \in Applications : ticket[b] \in 0..issued /\ ticket[b] # issued + 1
    OBVIOUS
  <2>3. ticket' \in [Applications -> 0..issued']
    BY <2>1, <2>2
  <2> QED
    BY <1>4, <2>1, <2>2, <2>3 DEF Grant
<1>5. ASSUME NEW a \in Applications, NEW c \in Tickets, Restamp(a, c)
      PROVE  GateTyped' /\ GateSafe'
  BY <1>5 DEF Restamp
<1>6. ASSUME NEW a \in Applications, Withdraw(a) PROVE GateTyped' /\ GateSafe'
  BY <1>6 DEF Withdraw
<1>7. ASSUME NEW a \in Applications, Enter(a) PROVE GateTyped' /\ GateSafe'
  BY <1>7 DEF Enter
<1> QED
  BY <1>1, <1>2, <1>3, <1>4, <1>5, <1>6, <1>7 DEF GateNext

\* GateSafe: whatever the admins decide, every account belongs to an address that has
\* applied, and no code ever stands for two applications.  By
\* OnboardingImplementsAdmission the rows that RegisterAPIView, GoogleAuthView and the
\* admins' views commit keep to it.
THEOREM AdmissionSafe == GateSpec => []GateSafe
<1>1. GateInit => GateTyped /\ GateSafe
  BY DEF GateInit, GateTyped, GateSafe
<1> QED
  BY <1>1, GateNextSafe, PTL DEF GateSpec

=============================================================================
