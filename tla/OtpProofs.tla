----------------------------- MODULE OtpProofs -----------------------------
(***************************************************************************)
(* Theorems about Otp, for any users, purposes, number of codes, clock and *)
(* finite set of workers, on PostgreSQL and on SQLite.                     *)
(***************************************************************************)
EXTENDS Otp, FiniteSetTheorems, TLAPS

-----------------------------------------------------------------------------
(* What SendOtp does to the list of codes. *)
LEMMA Issuing ==
  ASSUME NEW S, NEW s \in Seq(S), NEW k \in S
  PROVE  /\ Append(s, k) \in Seq(S)
         /\ Len(Append(s, k)) = Len(s) + 1
         /\ \A c \in 1..Len(s) : Append(s, k)[c] = s[c]
         /\ Append(s, k)[Len(s) + 1] = k
OBVIOUS

(* The request of one worker is replaced, those of the others stay. *)
LEMMA OneRequest ==
  ASSUME TypeOK, NEW w \in Workers, NEW r \in Request,
         req' = [req EXCEPT ![w] = r]
  PROVE  /\ req' \in [Workers -> Request]
         /\ req'[w] = r
         /\ \A v \in Workers \ {w} : req'[v] = req[v]
BY DEF TypeOK

(* An idle worker's request is a request. *)
LEMMA IdleIsRequest == IdleRequest \in Request
<1>1. Keys # {}
  <2>1. PICK u \in Users, p \in Purposes : TRUE
    BY OtpAssumption
  <2>2. <<u, p>> \in Keys
    BY <2>1 DEF Keys
  <2> QED
    BY <2>2
<1>2. NoRow \in Row
  BY OtpAssumption DEF NoRow, Row
<1> QED
  BY <1>1, <1>2 DEF IdleRequest, Request

(* Answering and going on to the next statement. *)
LEMMA Answering ==
  ASSUME TypeOK, NEW w \in Workers, Answer(w)
  PROVE  /\ req' \in [Workers -> Request]
         /\ req'[w].pc = "idle"
         /\ \A v \in Workers \ {w} : req'[v] = req[v]
BY OneRequest, IdleIsRequest DEF Answer, IdleRequest

LEMMA Going ==
  ASSUME TypeOK, NEW w \in Workers,
         NEW label \in {"save", "confirm", "password", "delete"}, Goto(w, label)
  PROVE  /\ req' \in [Workers -> Request]
         /\ req'[w].pc = label /\ req'[w].key = req[w].key
         /\ req'[w].snapshot = req[w].snapshot /\ req'[w].admin = req[w].admin
         /\ \A v \in Workers \ {w} : req'[v] = req[v]
<1> DEFINE r == [req[w] EXCEPT !.pc = label]
<1>1. req' = [req EXCEPT ![w] = r]
  BY DEF Goto, TypeOK
<1>2. req[w] \in Request
  BY DEF TypeOK
<1>3. r \in Request /\ r.pc = label /\ r.key = req[w].key
      /\ r.snapshot = req[w].snapshot /\ r.admin = req[w].admin
  BY <1>2 DEF Request
<1> HIDE DEF r
<1> QED
  BY <1>1, <1>3, OneRequest

-----------------------------------------------------------------------------
(* Every variable keeps its type: whatever was deleted, sent again or saved*)
(* late, rows and requests stay well-formed.                               *)
LEMMA TypeInit == Init => TypeOK
<1> SUFFICES ASSUME Init PROVE TypeOK
  OBVIOUS
<1>1. row \in [Keys -> Row]
  BY OtpAssumption DEF Init, NoRow, Row
<1>2. req \in [Workers -> Request]
  BY IdleIsRequest DEF Init
<1>3. issued \in Seq(Keys) /\ Len(issued) = 0
  BY DEF Init
<1> QED
  BY <1>1, <1>2, <1>3, OtpAssumption DEF Init, TypeOK, Codes

LEMMA TypeStep == TypeOK /\ [Next]_vars => TypeOK'
<1> SUFFICES ASSUME TypeOK, [Next]_vars PROVE TypeOK'
  OBVIOUS
<1> USE OtpAssumption
<1>1. CASE Tick
  BY <1>1 DEF Tick, TypeOK
<1>2. ASSUME NEW k \in Keys, NEW arrives \in BOOLEAN, SendOtp(k, arrives)
      PROVE  TypeOK'
  <2> DEFINE c == Len(issued) + 1
  <2>1. issued' \in Seq(Keys) /\ Len(issued') = c /\ c \in 1..MaxCodes
    BY <1>2, Issuing DEF SendOtp, TypeOK
  <2>2. Refreshed(k, c) \in Row
    <3>1. row[k] \in Row /\ now + Lifetime \in Nat
      BY DEF TypeOK
    <3>2. Refreshed(k, c).id \in 0..MaxCodes
      BY <2>1, <3>1 DEF Refreshed, Row
    <3> QED
      BY <2>1, <3>1, <3>2 DEF Refreshed, Row
  <2>3. row' \in [Keys -> Row]
    BY <1>2, <2>2 DEF SendOtp, TypeOK
  <2>4. inbox' \subseteq 1..Len(issued')
    <3>1. inbox' \subseteq inbox \cup {c}
      BY <1>2 DEF SendOtp
    <3>2. Len(issued) \in Nat /\ inbox \subseteq 1..Len(issued)
      BY DEF TypeOK
    <3> QED
      BY <2>1, <3>1, <3>2
  <2> QED
    BY <1>2, <2>1, <2>3, <2>4 DEF SendOtp, TypeOK
<1>3. ASSUME NEW w \in Workers, NEW k \in Keys, NEW c \in inbox,
             NEW admin \in BOOLEAN, Submit(w, k, c, admin)
      PROVE  TypeOK'
  <2>1. [pc |-> "save", key |-> k, snapshot |-> row[k], admin |-> admin] \in Request
    BY DEF TypeOK, Request
  <2> QED
    BY <1>3, <2>1, OneRequest DEF Submit, TypeOK
<1>4. ASSUME NEW w \in Workers, RefuseCode(w)
      PROVE  TypeOK'
  BY <1>4 DEF RefuseCode, vars, TypeOK
<1>5. ASSUME NEW w \in Workers, NEW u \in Users, BeginReset(w, u)
      PROVE  TypeOK'
  <2> DEFINE k == <<u, "password_reset">>
  <2>1. [pc |-> "password", key |-> k, snapshot |-> row[k], admin |-> FALSE] \in Request
    BY <1>5 DEF BeginReset, TypeOK, Request
  <2> QED
    BY <1>5, <2>1, OneRequest DEF BeginReset, TypeOK
<1>6. ASSUME NEW u \in Users, RefuseReset(u)
      PROVE  TypeOK'
  BY <1>6 DEF RefuseReset, TypeOK
<1>7. ASSUME NEW w \in Workers, Serve(w)
      PROVE  TypeOK'
  <2>r. /\ req[w].key \in Keys /\ req[w].snapshot \in Row
        /\ req[w].key[1] \in Users
    BY DEF TypeOK, Request, Keys
  <2>1. CASE SaveVerified(w)
    <3>1. Marked(req[w].snapshot) \in Row
      BY <2>r DEF Marked, Row
    <3>2. req' \in [Workers -> Request]
      BY <2>1, Answering, Going DEF SaveVerified
    <3>3. row' \in [Keys -> Row]
      BY <2>1, <2>r, <3>1 DEF SaveVerified, TypeOK
    <3>4. uses' \in [Codes -> Nat]
      BY <2>1 DEF SaveVerified, TypeOK
    <3> QED
      BY <2>1, <3>2, <3>3, <3>4 DEF SaveVerified, TypeOK
  <2>2. CASE ConfirmEmail(w)
    BY <2>2, <2>r, Answering DEF ConfirmEmail, TypeOK
  <2>3. CASE SetPassword(w)
    <3>1. resets' \in [Codes -> Nat]
      <4>1. resets \in [Codes -> Nat]
        BY DEF TypeOK
      <4>2. \A n \in Nat : n + 1 \in Nat
        OBVIOUS
      <4> QED
        BY <2>3, <4>1, <4>2 DEF SetPassword
    <3> QED
      BY <2>3, <3>1, Going DEF SetPassword, TypeOK
  <2>4. CASE DeleteOtp(w)
    <3>1. \A r \in Row : Deleted(r, req[w].snapshot.id) \in Row
      BY DEF Deleted, Row, NoRow
    <3>2. row' \in [Keys -> Row]
      BY <2>4, <3>1 DEF DeleteOtp, TypeOK
    <3> QED
      BY <2>4, <3>2, Answering DEF DeleteOtp, TypeOK
  <2> QED
    BY <1>7, <2>1, <2>2, <2>3, <2>4 DEF Serve
<1>8. CASE Cleanup
  <2>1. NoRow \in Row
    BY DEF NoRow, Row
  <2>2. row' \in [Keys -> Row]
    BY <1>8, <2>1 DEF Cleanup, TypeOK
  <2> QED
    BY <1>8, <2>2 DEF Cleanup, TypeOK
<1>9. CASE UNCHANGED vars
  BY <1>9 DEF vars, TypeOK
<1> QED
  BY <1>1, <1>2, <1>3, <1>4, <1>5, <1>6, <1>7, <1>8, <1>9 DEF Next

-----------------------------------------------------------------------------
(* The inductive invariant.  UnverifiedIsLatest, EmailBacked and ResetBacked *)
(* say nothing of the copies that requests carry, so they are not inductive: *)
(* a late save would be free to write anything.                              *)

IssuedFor(k, c) == c \in 1..Len(issued) /\ issued[c] = k

RowOK(k) ==
  Exists(k) =>
    /\ IssuedFor(k, row[k].code)
    /\ IF row[k].verified
       THEN row[k].code \in inbox /\ uses[row[k].code] > 0
       ELSE IsLatest(k, row[k].code) /\ uses[row[k].code] = 0

RequestOK(w) ==
  LET r == req[w] IN
  r.pc # "idle" =>
    /\ IssuedFor(r.key, r.snapshot.code)
    /\ r.snapshot.code \in inbox
    /\ r.pc # "save" => uses[r.snapshot.code] > 0
    /\ r.admin => r.key[1] \in Admins /\ r.key[2] = "login_otp"
    /\ r.pc = "confirm" => r.key[2] = "email_verification" \/ r.admin
    /\ r.pc \in {"password", "delete"} => r.key[2] = "password_reset"

RowsInv     == \A k \in Keys : RowOK(k)
RequestsInv == \A w \in Workers : RequestOK(w)
UsesInv     == \A c \in Codes : uses[c] > 0 => c \in inbox

IInv == TypeOK /\ RowsInv /\ RequestsInv /\ UsesInv /\ EmailBacked /\ ResetBacked

LEMMA InvInit == Init => IInv
<1> SUFFICES ASSUME Init PROVE IInv
  OBVIOUS
<1>1. TypeOK
  BY TypeInit
<1>2. RowsInv /\ UsesInv
  BY DEF Init, RowsInv, RowOK, Exists, NoRow, UsesInv
<1>3. RequestsInv
  BY DEF Init, RequestsInv, RequestOK, IdleRequest
<1>4. EmailBacked /\ ResetBacked
  BY DEF Init, EmailBacked, ResetBacked
<1> QED
  BY <1>1, <1>2, <1>3, <1>4 DEF IInv

(* A code stays with its user and purpose, in the inbox and accepted. *)
LEMMA CodesStay ==
  ASSUME IInv, [Next]_vars
  PROVE  /\ Len(issued) \in Nat /\ Len(issued) <= Len(issued')
         /\ Len(issued) <= MaxCodes
         /\ \A c \in 1..Len(issued) : issued'[c] = issued[c]
         /\ inbox \subseteq inbox'
         /\ \A c \in Codes : uses[c] > 0 => uses'[c] > 0
<1> USE DEF IInv, TypeOK
<1>1. ASSUME NEW k \in Keys, NEW arrives \in BOOLEAN, SendOtp(k, arrives)
      PROVE  /\ Len(issued) <= Len(issued')
             /\ \A c \in 1..Len(issued) : issued'[c] = issued[c]
             /\ inbox \subseteq inbox' /\ uses' = uses
  BY <1>1, Issuing DEF SendOtp
<1>2. ASSUME NEW w \in Workers, SaveVerified(w)
      PROVE  /\ \A c \in Codes : uses[c] > 0 => uses'[c] > 0
             /\ issued' = issued /\ inbox' = inbox
  <2>1. uses \in [Codes -> Nat] /\ \A n \in Nat : n + 1 > 0
    OBVIOUS
  <2> HIDE DEF IInv, TypeOK
  <2> QED
    BY <1>2, <2>1 DEF SaveVerified
<1>3. ASSUME NEW w \in Workers, ConfirmEmail(w) \/ SetPassword(w) \/ DeleteOtp(w)
      PROVE  issued' = issued /\ inbox' = inbox /\ uses' = uses
  BY <1>3 DEF ConfirmEmail, SetPassword, DeleteOtp
<1>4. ASSUME \/ Tick \/ Cleanup \/ UNCHANGED vars
             \/ \E w \in Workers : RefuseCode(w)
             \/ \E w \in Workers, u \in Users : BeginReset(w, u)
             \/ \E u \in Users : RefuseReset(u)
      PROVE  issued' = issued /\ inbox' = inbox /\ uses' = uses
  BY <1>4 DEF RefuseCode, BeginReset, RefuseReset, Tick, Cleanup, vars
<1>5. ASSUME NEW w \in Workers, NEW k \in Keys, NEW c \in inbox,
             NEW admin \in BOOLEAN, Submit(w, k, c, admin)
      PROVE  issued' = issued /\ inbox' = inbox /\ uses' = uses
  BY <1>5 DEF Submit
<1>6. Len(issued) \in Nat /\ Len(issued) <= MaxCodes
  OBVIOUS
<1> HIDE DEF IInv, TypeOK
<1> QED
  BY <1>1, <1>2, <1>3, <1>4, <1>5, <1>6 DEF Next, Serve

(* What is true of a request stays true while it waits for its turn. *)
LEMMA WaitingRequest ==
  ASSUME IInv, [Next]_vars, NEW v \in Workers, req'[v] = req[v]
  PROVE  RequestOK(v)'
<1>1. RequestOK(v)
  BY DEF IInv, RequestsInv
<1> DEFINE c == req[v].snapshot.code
<1>2. CASE req[v].pc # "idle"
  <2>1. c \in 1..Len(issued) /\ issued[c] = req[v].key /\ c \in inbox
    BY <1>1, <1>2 DEF RequestOK, IssuedFor
  <2>2. c \in Codes /\ c \in 1..Len(issued') /\ issued'[c] = issued[c]
        /\ c \in inbox' /\ (uses[c] > 0 => uses'[c] > 0)
    <3>1. c \in Codes
      BY <2>1, CodesStay, OtpAssumption DEF Codes
    <3>2. Len(issued') \in Nat
      BY TypeStep DEF IInv, TypeOK
    <3> QED
      BY <2>1, <3>1, <3>2, CodesStay
  <2> QED
    BY <1>1, <1>2, <2>1, <2>2 DEF RequestOK, IssuedFor
<1> QED
  BY <1>2 DEF RequestOK

LEMMA RequestsStep == IInv /\ [Next]_vars => RequestsInv'
<1> SUFFICES ASSUME IInv, [Next]_vars PROVE RequestsInv'
  OBVIOUS
<1>t. TypeOK
  BY DEF IInv
<1>s. ASSUME req' = req PROVE RequestsInv'
  BY <1>s, WaitingRequest DEF RequestsInv
<1>o. ASSUME NEW w \in Workers, RequestOK(w)',
             \A v \in Workers \ {w} : req'[v] = req[v]
      PROVE  RequestsInv'
  BY <1>o, WaitingRequest DEF RequestsInv
<1>i. ASSUME NEW w \in Workers, Answer(w)
      PROVE  RequestsInv'
  BY <1>t, <1>i, <1>o, Answering DEF RequestOK
<1>1. ASSUME NEW w \in Workers, NEW k \in Keys, NEW c \in inbox,
             NEW admin \in BOOLEAN, Submit(w, k, c, admin)
      PROVE  RequestsInv'
  <2> DEFINE r == [pc |-> "save", key |-> k, snapshot |-> row[k], admin |-> admin]
  <2>1. r \in Request
    BY <1>t DEF TypeOK, Request
  <2>2. req'[w] = r /\ \A v \in Workers \ {w} : req'[v] = req[v]
    BY <1>1, <1>t, <2>1, OneRequest DEF Submit
  <2>3. RowOK(k) /\ Exists(k) /\ row[k].code = c
    BY <1>1 DEF IInv, RowsInv, Submit, Acceptable
  <2>4. issued' = issued /\ inbox' = inbox
    BY <1>1 DEF Submit
  <2>5. RequestOK(w)'
    BY <1>1, <2>2, <2>3, <2>4 DEF RequestOK, RowOK, IssuedFor, Submit
  <2> QED
    BY <1>o, <2>2, <2>5
<1>2. ASSUME NEW w \in Workers, NEW u \in Users, BeginReset(w, u)
      PROVE  RequestsInv'
  <2> DEFINE k == <<u, "password_reset">>
             r == [pc |-> "password", key |-> k, snapshot |-> row[k], admin |-> FALSE]
  <2>1. r \in Request /\ k \in Keys
    BY <1>2, <1>t DEF BeginReset, TypeOK, Request
  <2>2. req'[w] = r /\ \A v \in Workers \ {w} : req'[v] = req[v]
    BY <1>2, <1>t, <2>1, OneRequest DEF BeginReset
  <2>3. RowOK(k) /\ Exists(k) /\ row[k].verified
    BY <1>2, <2>1 DEF IInv, RowsInv, BeginReset, GateOpen
  <2>4. issued' = issued /\ inbox' = inbox /\ uses' = uses
    BY <1>2 DEF BeginReset
  <2>5. RequestOK(w)'
    BY <2>2, <2>3, <2>4 DEF RequestOK, RowOK, IssuedFor
  <2> QED
    BY <1>o, <2>2, <2>5
<1>3. ASSUME NEW w \in Workers, Serve(w)
      PROVE  RequestsInv'
  <2> DEFINE c == req[w].snapshot.code
  <2>r. /\ RequestOK(w)
        /\ req[w].pc # "idle" => c \in Codes /\ uses[c] \in Nat
    <3>1. RequestOK(w)
      BY DEF IInv, RequestsInv
    <3>2. req[w].pc # "idle" => c \in Codes
      BY <3>1, CodesStay, OtpAssumption DEF RequestOK, IssuedFor, Codes
    <3> QED
      BY <1>t, <3>1, <3>2 DEF TypeOK
  <2>g. ASSUME NEW label \in {"confirm", "delete"}, Goto(w, label),
               req[w].pc # "idle", issued' = issued, inbox' = inbox,
               uses'[c] > 0,
               label = "confirm" => req[w].key[2] = "email_verification" \/ req[w].admin,
               label = "delete" => req[w].pc = "password"
        PROVE  RequestsInv'
    <3>1. /\ req'[w].pc = label /\ req'[w].key = req[w].key
          /\ req'[w].snapshot = req[w].snapshot /\ req'[w].admin = req[w].admin
          /\ \A v \in Workers \ {w} : req'[v] = req[v]
      BY <1>t, <2>g, Going
    <3>2. RequestOK(w)'
      BY <2>r, <2>g, <3>1 DEF RequestOK, IssuedFor
    <3> QED
      BY <1>o, <3>1, <3>2
  <2>1. CASE SaveVerified(w)
    <3>1. CASE Answer(w)
      BY <1>i, <3>1
    <3>2. CASE ~Answer(w)
      <4>1. /\ Goto(w, "confirm") /\ req[w].pc = "save"
            /\ issued' = issued /\ inbox' = inbox
            /\ uses' = [uses EXCEPT ![c] = @ + 1]
            /\ req[w].key[2] = "email_verification" \/ req[w].admin
        BY <2>1, <3>2 DEF SaveVerified
      <4>2. uses'[c] > 0
        BY <1>t, <2>r, <4>1 DEF TypeOK
      <4> QED
        BY <2>g, <4>1, <4>2
    <3> QED
      BY <3>1, <3>2
  <2>2. CASE ConfirmEmail(w)
    BY <1>i, <2>2 DEF ConfirmEmail
  <2>3. CASE SetPassword(w)
    <3>1. uses[c] > 0
      BY <2>3, <2>r DEF SetPassword, RequestOK
    <3> QED
      BY <2>3, <2>g, <3>1 DEF SetPassword
  <2>4. CASE DeleteOtp(w)
    BY <1>i, <2>4 DEF DeleteOtp
  <2> QED
    BY <1>3, <2>1, <2>2, <2>3, <2>4 DEF Serve
<1>4. ASSUME \/ Tick \/ Cleanup \/ UNCHANGED vars
             \/ \E w \in Workers : RefuseCode(w)
             \/ \E u \in Users : RefuseReset(u)
             \/ \E k \in Keys, arrives \in BOOLEAN : SendOtp(k, arrives)
      PROVE  RequestsInv'
  <2>1. req' = req
    BY <1>4 DEF RefuseCode, RefuseReset, SendOtp, Tick, Cleanup, vars
  <2> QED
    BY <1>s, <2>1
<1> QED
  BY <1>1, <1>2, <1>3, <1>4 DEF Next

LEMMA UsesStep == IInv /\ [Next]_vars => UsesInv'
<1> SUFFICES ASSUME IInv, [Next]_vars, NEW c \in Codes, uses'[c] > 0
             PROVE  c \in inbox'
  BY DEF UsesInv
<1>1. CASE uses[c] > 0
  BY <1>1, CodesStay DEF IInv, UsesInv
<1>2. CASE ~(uses[c] > 0)
  <2>1. \E w \in Workers : SaveVerified(w) /\ req[w].snapshot.code = c
    <3>1. uses' # uses
      BY <1>2
    <3>2. PICK w \in Workers : SaveVerified(w)
      BY <3>1 DEF Next, Serve, Tick, SendOtp, Submit, RefuseCode, BeginReset,
            RefuseReset, ConfirmEmail, SetPassword, DeleteOtp, Cleanup, vars
    <3>3. uses' = [uses EXCEPT ![req[w].snapshot.code] = @ + 1]
      BY <3>1, <3>2 DEF SaveVerified
    <3>4. req[w].snapshot.code = c
      BY <1>2, <3>3 DEF IInv, TypeOK
    <3> QED
      BY <3>2, <3>4
  <2>2. PICK w \in Workers : SaveVerified(w) /\ req[w].snapshot.code = c
    BY <2>1
  <2>3. RequestOK(w) /\ req[w].pc = "save" /\ inbox' = inbox
    BY <2>2 DEF IInv, RequestsInv, SaveVerified
  <2> QED
    BY <2>2, <2>3 DEF RequestOK
<1> QED
  BY <1>1, <1>2

(* A row that a step leaves alone, with no new use of its code and no new  *)
(* code for its user and purpose.                                          *)
LEMMA SameRow ==
  ASSUME IInv, [Next]_vars, NEW k \in Keys, row'[k] = row[k],
         issued' = issued \/ \E d \in Keys \ {k} : issued' = Append(issued, d),
         Exists(k) /\ ~row[k].verified => uses'[row[k].code] = uses[row[k].code]
  PROVE  RowOK(k)'
<1> DEFINE c == row[k].code
<1> SUFFICES ASSUME Exists(k) PROVE RowOK(k)'
  BY DEF RowOK, Exists
<1>t. TypeOK /\ TypeOK'
  BY TypeStep DEF IInv
<1>1. RowOK(k)
  BY DEF IInv, RowsInv
<1>2. c \in 1..Len(issued) /\ issued[c] = k
  BY <1>1 DEF RowOK, IssuedFor
<1>3. c \in Codes
  BY <1>2, CodesStay, OtpAssumption DEF Codes
<1>4. IssuedFor(k, c)'
  <2>1. Len(issued') \in Nat
    BY <1>t DEF TypeOK
  <2> QED
    BY <1>2, <2>1, CodesStay DEF IssuedFor
<1>5. CASE row[k].verified
  BY <1>1, <1>3, <1>4, <1>5, CodesStay DEF RowOK, Exists
<1>6. CASE ~row[k].verified
  <2>1. IsLatest(k, c) /\ uses[c] = 0
    BY <1>1, <1>6 DEF RowOK
  <2>2. IsLatest(k, c)'
    <3>1. CASE issued' = issued
      BY <2>1, <3>1 DEF IsLatest
    <3>2. ASSUME NEW d \in Keys \ {k}, issued' = Append(issued, d)
          PROVE  IsLatest(k, c)'
      <4>1. /\ Len(issued') = Len(issued) + 1
            /\ \A i \in 1..Len(issued) : issued'[i] = issued[i]
            /\ issued'[Len(issued) + 1] = d
        BY <1>t, <3>2, Issuing DEF TypeOK
      <4>2. ASSUME NEW i \in c+1..Len(issued') PROVE issued'[i] # k
        <5>1. i \in c+1..Len(issued) \/ i = Len(issued) + 1
          BY <1>2, <4>1, CodesStay
        <5>2. c+1..Len(issued) \subseteq 1..Len(issued)
          BY <1>2, CodesStay
        <5> QED
          BY <2>1, <4>1, <5>1, <5>2 DEF IsLatest
      <4> QED
        BY <1>2, <4>1, <4>2 DEF IsLatest
    <3> QED
      BY <3>1, <3>2
  <2> QED
    BY <1>4, <1>6, <2>1, <2>2 DEF RowOK, Exists
<1> QED
  BY <1>5, <1>6

LEMMA RowsStep == IInv /\ [Next]_vars => RowsInv'
<1> SUFFICES ASSUME IInv, [Next]_vars PROVE RowsInv'
  OBVIOUS
<1>t. TypeOK /\ TypeOK'
  BY TypeStep DEF IInv
<1>s. ASSUME NEW k \in Keys, row'[k] = row[k], issued' = issued, uses' = uses
      PROVE  RowOK(k)'
  BY <1>s, SameRow
<1>d. ASSUME NEW k \in Keys, row'[k] = NoRow
      PROVE  RowOK(k)'
  BY <1>d DEF RowOK, Exists, NoRow
<1>1. ASSUME NEW k \in Keys, NEW arrives \in BOOLEAN, SendOtp(k, arrives)
      PROVE  RowsInv'
  <2>1. PICK c \in Codes :
          /\ c = Len(issued) + 1 /\ issued' = Append(issued, k)
          /\ row' = [row EXCEPT ![k] = Refreshed(k, c)] /\ uses' = uses
    <3>1. Len(issued) + 1 \in Codes
      BY <1>1, <1>t DEF SendOtp, TypeOK, Codes
    <3> QED
      BY <1>1, <3>1 DEF SendOtp
  <2>2. ASSUME NEW d \in Keys \ {k} PROVE RowOK(d)'
    <3>1. row'[d] = row[d]
      BY <1>t, <2>1 DEF TypeOK
    <3> QED
      BY <2>1, <3>1, SameRow
  <2>3. RowOK(k)'
    <3>1. row'[k].code = c /\ ~row'[k].verified
      BY <1>t, <2>1 DEF TypeOK, Refreshed
    <3>2. Len(issued') = c /\ issued'[c] = k
      BY <1>t, <2>1, Issuing DEF TypeOK
    <3>3. IssuedFor(k, c)' /\ IsLatest(k, c)'
      <4>1. c \in 1..c /\ c+1..c = {}
        BY DEF Codes
      <4> QED
        BY <3>2, <4>1 DEF IssuedFor, IsLatest
    <3>4. uses[c] = 0
      <4>1. uses[c] \in Nat /\ c \notin inbox
        BY <1>t, <2>1 DEF TypeOK
      <4> QED
        BY <2>1, <4>1 DEF IInv, UsesInv
    <3> QED
      BY <2>1, <3>1, <3>3, <3>4 DEF RowOK, Exists
  <2> QED
    BY <2>2, <2>3 DEF RowsInv
<1>2. ASSUME NEW w \in Workers, SaveVerified(w)
      PROVE  RowsInv'
  <2>0. PICK k \in Keys, r \in Row : k = req[w].key /\ r = req[w].snapshot
    BY <1>t DEF TypeOK, Request
  <2>1. r.code \in inbox /\ IssuedFor(k, r.code) /\ r.code \in Codes
    <3>1. RequestOK(w) /\ req[w].pc = "save"
      BY <1>2 DEF IInv, RequestsInv, SaveVerified
    <3>2. IssuedFor(k, r.code) /\ r.code \in inbox
      BY <2>0, <3>1 DEF RequestOK
    <3> QED
      BY <3>2, CodesStay, OtpAssumption DEF IssuedFor, Codes
  <2>2. CASE row' = row /\ uses' = uses
    BY <1>2, <1>s, <2>2 DEF RowsInv, SaveVerified
  <2>3. CASE row' = [row EXCEPT ![k] = Marked(r)] /\ uses' = [uses EXCEPT ![r.code] = @ + 1]
    <3>1. issued' = issued /\ inbox' = inbox
      BY <1>2 DEF SaveVerified
    <3>2. ASSUME NEW d \in Keys \ {k} PROVE RowOK(d)'
      <4>1. row'[d] = row[d]
        BY <1>t, <2>3 DEF TypeOK
      <4>2. ASSUME Exists(d) PROVE row[d].code # r.code
        BY <2>1, <4>2 DEF IInv, RowsInv, RowOK, IssuedFor
      <4>3. Exists(d) => uses'[row[d].code] = uses[row[d].code]
        BY <1>t, <2>3, <4>2 DEF TypeOK
      <4> QED
        BY <3>1, <4>1, <4>3, SameRow
    <3>3. RowOK(k)'
      <4>1. row'[k].code = r.code /\ row'[k].verified
        BY <1>t, <2>1, <2>3 DEF TypeOK, Marked, Row
      <4>2. uses'[r.code] > 0
        BY <1>t, <2>1, <2>3 DEF TypeOK
      <4> QED
        BY <2>1, <3>1, <4>1, <4>2 DEF RowOK, IssuedFor
    <3> QED
      BY <3>2, <3>3 DEF RowsInv
  <2> QED
    BY <1>2, <2>0, <2>2, <2>3 DEF SaveVerified
<1>3. ASSUME NEW w \in Workers, DeleteOtp(w)
      PROVE  RowsInv'
  <2>1. \A k \in Keys : row'[k] \in {row[k], NoRow}
    BY <1>3, <1>t DEF DeleteOtp, Deleted, TypeOK
  <2> QED
    BY <1>3, <1>s, <1>d, <2>1 DEF DeleteOtp, RowsInv
<1>4. CASE Cleanup
  <2>1. \A k \in Keys : row'[k] \in {row[k], NoRow}
    BY <1>4 DEF Cleanup
  <2> QED
    BY <1>4, <1>s, <1>d, <2>1 DEF Cleanup, RowsInv
<1>5. ASSUME row' = row, issued' = issued, uses' = uses
      PROVE  RowsInv'
  BY <1>5, <1>s DEF RowsInv
<1>6. ASSUME \/ Tick \/ UNCHANGED vars
             \/ \E w \in Workers : RefuseCode(w) \/ ConfirmEmail(w) \/ SetPassword(w)
             \/ \E w \in Workers, k \in Keys, c \in inbox, admin \in BOOLEAN :
                  Submit(w, k, c, admin)
             \/ \E w \in Workers, u \in Users : BeginReset(w, u)
             \/ \E u \in Users : RefuseReset(u)
      PROVE  RowsInv'
  BY <1>5, <1>6 DEF Tick, RefuseCode, ConfirmEmail, SetPassword, Submit,
        BeginReset, RefuseReset, vars
<1> QED
  BY <1>1, <1>2, <1>3, <1>4, <1>6 DEF Next, Serve

(* Only ConfirmEmail confirms an address, and only after an accepted code  *)
(* of the right purpose.                                                   *)
LEMMA EmailStep == IInv /\ [Next]_vars => EmailBacked'
<1> SUFFICES ASSUME IInv, [Next]_vars, NEW u \in Users, emailVerified'[u]
             PROVE  \E c \in inbox' :
                      /\ uses'[c] > 0
                      /\ \/ issued'[c] = <<u, "email_verification">>
                         \/ u \in Admins /\ issued'[c] = <<u, "login_otp">>
  BY DEF EmailBacked
<1>1. ASSUME NEW c \in inbox, uses[c] > 0, NEW k, issued[c] = k
      PROVE  c \in inbox' /\ uses'[c] > 0 /\ issued'[c] = k
  <2>1. c \in 1..Len(issued) /\ c \in Codes
    BY CodesStay, OtpAssumption DEF IInv, TypeOK, Codes
  <2> QED
    BY <1>1, <2>1, CodesStay
<1>2. CASE emailVerified[u]
  <2>1. PICK c \in inbox :
          /\ uses[c] > 0
          /\ \/ issued[c] = <<u, "email_verification">>
             \/ u \in Admins /\ issued[c] = <<u, "login_otp">>
    BY <1>2 DEF IInv, EmailBacked
  <2> QED
    BY <1>1, <2>1
<1>3. CASE ~emailVerified[u]
  <2>1. \E w \in Workers : ConfirmEmail(w)
    BY <1>3 DEF Next, Serve, Tick, SendOtp, Submit, RefuseCode, BeginReset,
          RefuseReset, SaveVerified, SetPassword, DeleteOtp, Cleanup, vars
  <2>2. PICK w \in Workers : ConfirmEmail(w)
    BY <2>1
  <2>3. req[w].key[1] = u
    BY <1>3, <2>2 DEF ConfirmEmail, IInv, TypeOK
  <2>4. /\ req[w].pc = "confirm" /\ RequestOK(w)
        /\ req[w].key \in Keys
    BY <2>2 DEF ConfirmEmail, IInv, TypeOK, RequestsInv, Request
  <2>5. req[w].key = <<u, req[w].key[2]>>
    BY <2>3, <2>4 DEF Keys
  <2> DEFINE c == req[w].snapshot.code
  <2>6. /\ c \in inbox /\ uses[c] > 0 /\ issued[c] = <<u, req[w].key[2]>>
        /\ \/ req[w].key[2] = "email_verification"
           \/ u \in Admins /\ req[w].key[2] = "login_otp"
    BY <2>3, <2>4, <2>5 DEF RequestOK, IssuedFor
  <2> QED
    BY <1>1, <2>6
<1> QED
  BY <1>2, <1>3

(* Only SetPassword counts a reset, for a code whose row was verified.     *)
LEMMA ResetStep == IInv /\ [Next]_vars => ResetBacked'
<1> SUFFICES ASSUME IInv, [Next]_vars, NEW c \in Codes, resets'[c] > 0
             PROVE  c \in inbox' /\ uses'[c] > 0 /\ issued'[c][2] = "password_reset"
  BY DEF ResetBacked
<1>1. c \in inbox /\ uses[c] > 0 /\ issued[c][2] = "password_reset"
  <2>1. CASE resets[c] > 0
    BY <2>1 DEF IInv, ResetBacked
  <2>2. CASE ~(resets[c] > 0)
    <3>1. \E w \in Workers : SetPassword(w)
      BY <2>2 DEF Next, Serve, Tick, SendOtp, Submit, RefuseCode, BeginReset,
            RefuseReset, SaveVerified, ConfirmEmail, DeleteOtp, Cleanup, vars
    <3>2. PICK w \in Workers : SetPassword(w)
      BY <3>1
    <3>3. req[w].snapshot.code = c
      BY <2>2, <3>2 DEF SetPassword, IInv, TypeOK
    <3>4. RequestOK(w) /\ req[w].pc = "password"
      BY <3>2 DEF SetPassword, IInv, RequestsInv
    <3> QED
      BY <3>3, <3>4 DEF RequestOK, IssuedFor
  <2> QED
    BY <2>1, <2>2
<1>2. c \in 1..Len(issued)
  BY <1>1 DEF IInv, TypeOK
<1> QED
  BY <1>1, <1>2, CodesStay

LEMMA Invariance == Spec => []IInv
<1>1. IInv /\ [Next]_vars => IInv'
  BY TypeStep, RowsStep, RequestsStep, UsesStep, EmailStep, ResetStep DEF IInv
<1> QED
  BY InvInit, <1>1, PTL DEF Spec

-----------------------------------------------------------------------------
(* Whatever is sent, saved late, deleted or cleaned up, a row that can     *)
(* still be verified holds the newest code of its user and purpose.        *)
THEOREM UnverifiedCodeIsLatest == Spec => []UnverifiedIsLatest
<1>1. IInv => UnverifiedIsLatest
  BY DEF IInv, RowsInv, RowOK, UnverifiedIsLatest
<1> QED
  BY <1>1, Invariance, PTL

(* email_verified stands on an accepted code that was sent for it.         *)
THEOREM ConfirmedByOwnCode == Spec => []EmailBacked
<1>1. IInv => EmailBacked
  BY DEF IInv
<1> QED
  BY <1>1, Invariance, PTL

(* Every password reset stands on an accepted reset code, on both          *)
(* databases.                                                              *)
THEOREM ResetByOwnCode == Spec => []ResetBacked
<1>1. IInv => ResetBacked
  BY DEF IInv
<1> QED
  BY <1>1, Invariance, PTL

(* Every variable keeps its type.                                          *)
THEOREM OtpTypeCorrect == Spec => []TypeOK
<1>1. IInv => TypeOK
  BY DEF IInv
<1> QED
  BY <1>1, Invariance, PTL

-----------------------------------------------------------------------------
(* How often one code is accepted.  Once it has been, no row offers it for *)
(* verification again, so only the submissions already on their way count, *)
(* at most one per worker.                                                 *)

Pending(c) == {w \in Workers : req[w].pc = "save" /\ req[w].snapshot.code = c}

PendingInv ==
  \A c \in Codes : uses[c] + Cardinality(Pending(c)) <= Cardinality(Workers)

LEMMA PendingFinite ==
  ASSUME NEW c
  PROVE  /\ IsFiniteSet(Pending(c)) /\ Cardinality(Pending(c)) \in Nat
         /\ Cardinality(Pending(c)) <= Cardinality(Workers)
         /\ Cardinality(Workers) \in Nat
<1>1. Pending(c) \subseteq Workers /\ IsFiniteSet(Workers)
  BY OtpAssumption DEF Pending
<1> QED
  BY <1>1, FS_Subset, FS_CardinalityType

LEMMA PendingStep == IInv /\ PendingInv /\ [Next]_vars => PendingInv'
<1> SUFFICES ASSUME IInv, PendingInv, [Next]_vars, NEW c \in Codes
             PROVE  uses'[c] + Cardinality(Pending(c)') <= Cardinality(Workers)
  BY DEF PendingInv
<1>t. TypeOK /\ TypeOK'
  BY TypeStep DEF IInv
<1>n. uses[c] \in Nat /\ uses'[c] \in Nat
  BY <1>t DEF TypeOK
<1>p. /\ IsFiniteSet(Pending(c)) /\ Cardinality(Pending(c)) \in Nat
      /\ IsFiniteSet(Pending(c)') /\ Cardinality(Pending(c)') \in Nat
      /\ Cardinality(Pending(c)') <= Cardinality(Workers)
      /\ Cardinality(Workers) \in Nat
      /\ uses[c] + Cardinality(Pending(c)) <= Cardinality(Workers)
  <2>1. Pending(c)' \subseteq Workers
    BY DEF Pending
  <2>2. IsFiniteSet(Pending(c)') /\ Cardinality(Pending(c)') \in Nat
        /\ Cardinality(Pending(c)') <= Cardinality(Workers)
    BY <2>1, OtpAssumption, FS_Subset, FS_CardinalityType
  <2> QED
    BY <2>2, PendingFinite DEF PendingInv
<1>s. ASSUME Pending(c)' \subseteq Pending(c), uses'[c] = uses[c]
      PROVE  uses'[c] + Cardinality(Pending(c)') <= Cardinality(Workers)
  <2>1. Cardinality(Pending(c)') <= Cardinality(Pending(c))
    BY <1>p, <1>s, FS_Subset
  <2> QED
    BY <1>n, <1>p, <1>s, <2>1
<1>1. ASSUME NEW w \in Workers, NEW k \in Keys, NEW d \in inbox,
             NEW admin \in BOOLEAN, Submit(w, k, d, admin)
      PROVE  uses'[c] + Cardinality(Pending(c)') <= Cardinality(Workers)
  <2> DEFINE r == [pc |-> "save", key |-> k, snapshot |-> row[k], admin |-> admin]
  <2>1. r \in Request
    BY <1>t DEF TypeOK, Request
  <2>2. req'[w] = r /\ \A v \in Workers \ {w} : req'[v] = req[v]
    BY <1>1, <1>t, <2>1, OneRequest DEF Submit
  <2>3. uses' = uses
    BY <1>1 DEF Submit
  <2>4. CASE row[k].code = c
    <3>1. uses[c] = 0
      BY <1>1, <2>4 DEF Submit, Acceptable, IInv, RowsInv, RowOK
    <3> QED
      BY <1>p, <2>3, <3>1
  <2>5. CASE row[k].code # c
    <3>1. Pending(c)' \subseteq Pending(c)
      BY <2>2, <2>5 DEF Pending
    <3> QED
      BY <1>s, <2>3, <3>1
  <2> QED
    BY <2>4, <2>5
<1>2. ASSUME NEW w \in Workers, SaveVerified(w)
      PROVE  uses'[c] + Cardinality(Pending(c)') <= Cardinality(Workers)
  <2>1. req'[w].pc # "save" /\ \A v \in Workers \ {w} : req'[v] = req[v]
    BY <1>2, <1>t, Answering, Going DEF SaveVerified
  <2>2. Pending(c)' = Pending(c) \ {w}
    BY <2>1 DEF Pending
  <2>3. CASE req[w].snapshot.code = c
    <3>1. w \in Pending(c)
      BY <1>2, <2>3 DEF Pending, SaveVerified
    <3>2. Cardinality(Pending(c)') = Cardinality(Pending(c)) - 1
      BY <1>p, <2>2, <3>1, FS_RemoveElement
    <3>3. uses'[c] <= uses[c] + 1
      BY <1>2, <1>n, <1>t, <2>3 DEF SaveVerified, TypeOK
    <3> QED
      BY <1>n, <1>p, <3>2, <3>3
  <2>4. CASE req[w].snapshot.code # c
    <3>1. uses'[c] = uses[c]
      BY <1>2, <1>t, <2>4 DEF SaveVerified, TypeOK
    <3> QED
      BY <1>s, <2>2, <3>1
  <2> QED
    BY <2>3, <2>4
<1>3. ASSUME NEW w \in Workers, ConfirmEmail(w) \/ SetPassword(w) \/ DeleteOtp(w)
      PROVE  uses'[c] + Cardinality(Pending(c)') <= Cardinality(Workers)
  <2>1. req'[w].pc # "save" /\ \A v \in Workers \ {w} : req'[v] = req[v]
    BY <1>3, <1>t, Answering, Going DEF ConfirmEmail, SetPassword, DeleteOtp
  <2>2. Pending(c)' \subseteq Pending(c) /\ uses' = uses
    BY <1>3, <2>1 DEF Pending, ConfirmEmail, SetPassword, DeleteOtp
  <2> QED
    BY <1>s, <2>2
<1>4. ASSUME NEW w \in Workers, NEW u \in Users, BeginReset(w, u)
      PROVE  uses'[c] + Cardinality(Pending(c)') <= Cardinality(Workers)
  <2> DEFINE k == <<u, "password_reset">>
             r == [pc |-> "password", key |-> k, snapshot |-> row[k], admin |-> FALSE]
  <2>1. r \in Request
    BY <1>4, <1>t DEF BeginReset, TypeOK, Request
  <2>2. req'[w] = r /\ \A v \in Workers \ {w} : req'[v] = req[v]
    BY <1>4, <1>t, <2>1, OneRequest DEF BeginReset
  <2>3. Pending(c)' \subseteq Pending(c) /\ uses' = uses
    BY <1>4, <2>2 DEF Pending, BeginReset
  <2> QED
    BY <1>s, <2>3
<1>5. ASSUME \/ Tick \/ Cleanup \/ UNCHANGED vars
             \/ \E w \in Workers : RefuseCode(w)
             \/ \E u \in Users : RefuseReset(u)
             \/ \E k \in Keys, arrives \in BOOLEAN : SendOtp(k, arrives)
      PROVE  uses'[c] + Cardinality(Pending(c)') <= Cardinality(Workers)
  <2>1. req' = req /\ uses' = uses
    BY <1>5 DEF RefuseCode, RefuseReset, SendOtp, Tick, Cleanup, vars
  <2>2. Pending(c)' = Pending(c)
    BY <2>1 DEF Pending
  <2> QED
    BY <1>s, <2>1, <2>2
<1> QED
  BY <1>1, <1>2, <1>3, <1>4, <1>5 DEF Next, Serve

(* A code is accepted at most once per worker, although verify_otp reads   *)
(* and saves its row in separate statements.                               *)
THEOREM CodeUsesBounded == Spec => []UsesBounded
<1>1. Init => PendingInv
  <2> SUFFICES ASSUME Init, NEW c \in Codes
               PROVE  uses[c] + Cardinality(Pending(c)) <= Cardinality(Workers)
    BY DEF PendingInv
  <2>1. uses[c] = 0
    BY DEF Init
  <2> QED
    BY <2>1, PendingFinite
<1>2. IInv /\ PendingInv /\ [Next]_vars => PendingInv'
  BY PendingStep
<1>3. IInv /\ PendingInv => UsesBounded
  <2> SUFFICES ASSUME IInv, PendingInv, NEW c \in Codes
               PROVE  uses[c] <= Cardinality(Workers)
    BY DEF UsesBounded
  <2>1. uses[c] \in Nat
    BY DEF IInv, TypeOK
  <2> QED
    BY <2>1, PendingFinite DEF PendingInv
<1> QED
  BY <1>1, <1>2, <1>3, Invariance, PTL DEF Spec
-----------------------------------------------------------------------------
(* How often one code lets a password be reset.  A row is deleted by its   *)
(* key, so the invariant needs that a code and all its copies have one key.*)

Carries(i, c) ==
  \/ \E k \in Keys : Exists(k) /\ row[k].code = c /\ row[k].id = i
  \/ \E w \in Workers :
       req[w].pc # "idle" /\ req[w].snapshot.code = c /\ req[w].snapshot.id = i

IdsInv ==
  /\ \A c \in Codes : \A i, j \in Codes : Carries(i, c) /\ Carries(j, c) => i = j
  /\ \A w \in Workers : req[w].pc # "idle" => req[w].snapshot.id # 0

LEMMA InvStep == IInv /\ [Next]_vars => IInv'
BY TypeStep, RowsStep, RequestsStep, UsesStep, EmailStep, ResetStep DEF IInv

LEMMA RowTyped ==
  ASSUME TypeOK
  PROVE  /\ \A k \in Keys : row[k] \in Row /\ row[k].id \in Nat
         /\ \A w \in Workers : req[w].snapshot \in Row
  BY DEF TypeOK, Request, Row

(* What the request of a worker becomes: idle, as it was but for the       *)
(* statement it has reached, or with a copy of a row that exists.          *)
Turns(w) ==
  /\ \A v \in Workers \ {w} : req'[v] = req[v]
  /\ \/ req'[w].pc = "idle"
     \/ req[w].pc # "idle" /\ req'[w].snapshot = req[w].snapshot
     \/ \E k \in Keys : Exists(k) /\ req'[w].snapshot = row[k]

LEMMA Turning ==
  ASSUME TypeOK, NEW w \in Workers,
         \/ Serve(w)
         \/ \E k \in Keys, c \in inbox, admin \in BOOLEAN : Submit(w, k, c, admin)
         \/ \E u \in Users : BeginReset(w, u)
  PROVE  Turns(w)
<1>1. CASE Answer(w)
  BY <1>1, Answering DEF Turns
<1>2. ASSUME NEW label \in {"save", "confirm", "password", "delete"},
             Goto(w, label), req[w].pc # "idle"
      PROVE  Turns(w)
  BY <1>2, Going DEF Turns
<1>3. CASE Serve(w)
  BY <1>1, <1>2, <1>3 DEF Serve, SaveVerified, ConfirmEmail, SetPassword, DeleteOtp
<1>4. ASSUME NEW k \in Keys, NEW c \in inbox, NEW admin \in BOOLEAN, Submit(w, k, c, admin)
      PROVE  Turns(w)
  <2> DEFINE r == [pc |-> "save", key |-> k, snapshot |-> row[k], admin |-> admin]
  <2>1. r \in Request /\ r.snapshot = row[k]
    BY RowTyped DEF Request
  <2>2. req' = [req EXCEPT ![w] = r] /\ Exists(k)
    BY <1>4 DEF Submit
  <2> QED
    BY <2>1, <2>2, OneRequest DEF Turns
<1>5. ASSUME NEW u \in Users, BeginReset(w, u) PROVE Turns(w)
  <2> DEFINE k == <<u, "password_reset">>
             r == [pc |-> "password", key |-> k, snapshot |-> row[k], admin |-> FALSE]
  <2>1. k \in Keys /\ Exists(k) /\ req' = [req EXCEPT ![w] = r]
    BY <1>5 DEF BeginReset, GateOpen
  <2>2. r \in Request /\ r.snapshot = row[k]
    BY <2>1, RowTyped DEF Request
  <2> QED
    BY <2>1, <2>2, OneRequest DEF Turns
<1> QED
  BY <1>3, <1>4, <1>5

(* A row that is written holds what a row or a copy held before.           *)
Copied(k) ==
  Exists(k)' =>
    \/ row'[k] = row[k]
    \/ \E w \in Workers : /\ req[w].pc # "idle" /\ row'[k].code = req[w].snapshot.code
                          /\ row'[k].id = req[w].snapshot.id

LEMMA CopiedIds ==
  ASSUME TypeOK, IdsInv, \A k \in Keys : Copied(k),
         req' = req \/ \E w \in Workers : Turns(w)
  PROVE  IdsInv'
<1>1. \A c \in Codes, i \in Codes : Carries(i, c)' => Carries(i, c)
  <2> SUFFICES ASSUME NEW c \in Codes, NEW i \in Codes, Carries(i, c)' PROVE Carries(i, c)
    OBVIOUS
  <2>1. ASSUME NEW k \in Keys, Exists(k)', row'[k].code = c, row'[k].id = i
        PROVE  Carries(i, c)
    BY <2>1 DEF Copied, Carries, Exists
  <2>2. ASSUME NEW w \in Workers, req'[w].pc # "idle",
               req'[w].snapshot.code = c, req'[w].snapshot.id = i
        PROVE  Carries(i, c)
    BY <2>2 DEF Turns, Carries
  <2> QED
    BY <2>1, <2>2 DEF Carries
<1>2. \A w \in Workers : req'[w].pc # "idle" => req'[w].snapshot.id # 0
  BY DEF Turns, IdsInv, Exists
<1> QED
  BY <1>1, <1>2 DEF IdsInv

LEMMA IdsStep == IInv /\ IdsInv /\ [Next]_vars => IdsInv'
<1> SUFFICES ASSUME IInv, IdsInv, [Next]_vars PROVE IdsInv'
  OBVIOUS
<1>t. TypeOK
  BY DEF IInv
<1>1. CASE row' = row /\ (req' = req \/ \E w \in Workers : Turns(w))
  BY <1>t, <1>1, CopiedIds DEF Copied
<1>2. ASSUME NEW w \in Workers, SaveVerified(w) PROVE IdsInv'
  <2> DEFINE r == req[w].snapshot
  <2>1. r \in Row /\ Marked(r).code = r.code /\ Marked(r).id = r.id
    BY <1>t, RowTyped DEF Marked, Row
  <2>2. \A k \in Keys : row'[k] \in {row[k], Marked(r)}
    BY <1>2, <1>t DEF SaveVerified, TypeOK
  <2>3. \A k \in Keys : Copied(k)
    BY <1>2, <2>1, <2>2 DEF Copied, SaveVerified
  <2> QED
    BY <1>t, <1>2, <2>3, Turning, CopiedIds DEF Serve
<1>3. ASSUME \A k \in Keys : row'[k] \in {row[k], NoRow},
             req' = req \/ \E w \in Workers : Turns(w)
      PROVE  IdsInv'
  <2>1. \A k \in Keys : Copied(k)
    BY <1>3 DEF Copied, Exists, NoRow
  <2> QED
    BY <1>t, <1>3, <2>1, CopiedIds
<1>4. CASE Cleanup
  BY <1>3, <1>4 DEF Cleanup
<1>5. ASSUME NEW w \in Workers, DeleteOtp(w) PROVE IdsInv'
  <2>1. \A k \in Keys : row'[k] \in {row[k], NoRow}
    BY <1>5, <1>t DEF DeleteOtp, Deleted, TypeOK
  <2> QED
    BY <1>t, <1>3, <1>5, <2>1, Turning DEF Serve
<1>6. ASSUME NEW k \in Keys, NEW arrives \in BOOLEAN, SendOtp(k, arrives) PROVE IdsInv'
  <2>0. PICK n \in Nat : n = Len(issued) + 1
    BY CodesStay
  <2>1. /\ req' = req /\ row' = [row EXCEPT ![k] = Refreshed(k, n)]
        /\ Len(issued) \in Nat
    BY <1>6, <2>0, CodesStay DEF SendOtp
  <2>2. row'[k] = Refreshed(k, n) /\ \A l \in Keys \ {k} : row'[l] = row[l]
    BY <1>t, <2>1 DEF TypeOK
  <2>3. row'[k].code = n
    BY <2>2 DEF Refreshed
  <2>4. \A l \in Keys : Exists(l) => row[l].code # n
    BY <2>0, <2>1 DEF IInv, RowsInv, RowOK, IssuedFor
  <2>5. \A v \in Workers : req[v].pc # "idle" => req[v].snapshot.code # n
    BY <2>0, <2>1 DEF IInv, RequestsInv, RequestOK, IssuedFor
  <2>6. \A c \in Codes \ {n}, i \in Codes : Carries(i, c)' => Carries(i, c)
    BY <2>1, <2>2, <2>3 DEF Carries, Exists
  <2>7. \A i \in Codes : Carries(i, n)' => i = row'[k].id
    BY <2>1, <2>2, <2>4, <2>5 DEF Carries, Exists
  <2> QED
    BY <2>1, <2>6, <2>7 DEF IdsInv
<1>7. CASE \/ Tick \/ UNCHANGED vars
           \/ \E w \in Workers : RefuseCode(w)
           \/ \E u \in Users : RefuseReset(u)
  BY <1>1, <1>7 DEF Tick, RefuseCode, RefuseReset, vars
<1>8. ASSUME NEW w \in Workers,
             \/ ConfirmEmail(w) \/ SetPassword(w)
             \/ \E k \in Keys, c \in inbox, admin \in BOOLEAN : Submit(w, k, c, admin)
             \/ \E u \in Users : BeginReset(w, u)
      PROVE  IdsInv'
  <2>1. row' = row
    BY <1>8 DEF ConfirmEmail, SetPassword, Submit, BeginReset
  <2>2. Turns(w)
    BY <1>t, <1>8, Turning DEF Serve
  <2> QED
    BY <1>1, <2>1, <2>2
<1> QED
  BY <1>2, <1>4, <1>5, <1>6, <1>7, <1>8 DEF Next, Serve

(* A code that is accepted lets the workers that are free read its row;    *)
(* when one of them deletes the row, only a late save brings it back, and  *)
(* then the worker that saved it is free as well.                          *)

Resetting(c) == {w \in Workers : req[w].pc = "password" /\ req[w].snapshot.code = c}
Taking(c) ==
  {w \in Workers : req[w].pc \in {"password", "delete"} /\ req[w].snapshot.code = c}
Free(c) == Workers \ (Pending(c) \cup Taking(c))

Accepted(c) == \E k \in Keys : Exists(k) /\ row[k].code = c /\ row[k].verified

(* Twice n + (n - 1) + ... over p summands. *)
Sum(n, p) == p * (2 * n + 1 - p)

(* Twice the resets by code c so far and to come.                          *)
Level(c) ==
  2 * resets[c] + 2 * Cardinality(Resetting(c))
    + (IF Accepted(c) THEN 2 * Cardinality(Free(c)) ELSE 0)
    + Sum(Cardinality(Workers), Cardinality(Pending(c)))

ResetsInv == \A c \in Codes : Level(c) <= Sum(Cardinality(Workers), Cardinality(Workers))

LEMMA SumGrows ==
  ASSUME NEW n \in Nat, NEW p \in Nat, p <= n
  PROVE  /\ Sum(n, p) \in Nat /\ Sum(n, p) <= Sum(n, n)
         /\ Sum(n, n) = n * (n + 1)
         /\ p > 0 => Sum(n, p - 1) = Sum(n, p) - 2 * (n - p + 1)
<1>1. PICK d \in Nat : n = p + d
  <2>1. n - p \in Nat /\ n = p + (n - p)
    OBVIOUS
  <2> QED
    BY <2>1
<1>2. 2 * n + 1 - p = p + 2 * d + 1
  BY <1>1
<1>3. Sum(n, p) = p * (p + 2 * d + 1)
  BY <1>2 DEF Sum
<1>4. Sum(n, n) = n * (n + 1)
  BY DEF Sum
<1>5. Sum(n, p) \in Nat
  BY <1>3
<1>6. Sum(n, p) <= Sum(n, n)
  <2>1. n * (n + 1) = p * (p + 2 * d + 1) + d * (d + 1)
    BY <1>1
  <2>2. d * (d + 1) \in Nat /\ n * (n + 1) \in Nat
    OBVIOUS
  <2> QED
    BY <1>3, <1>4, <1>5, <2>1, <2>2
<1>7. p > 0 => Sum(n, p - 1) = Sum(n, p) - 2 * (n - p + 1)
  BY DEF Sum
<1> QED
  BY <1>4, <1>5, <1>6, <1>7

LEMMA SetSizes ==
  ASSUME NEW P, NEW T, NEW R, P \subseteq Workers, T \subseteq Workers, R \subseteq T
  PROVE  /\ IsFiniteSet(P) /\ IsFiniteSet(R) /\ IsFiniteSet(Workers \ (P \cup T))
         /\ Cardinality(Workers) \in Nat /\ Cardinality(P) \in Nat /\ Cardinality(R) \in Nat
         /\ Cardinality(Workers \ (P \cup T)) \in Nat
         /\ Cardinality(P) + Cardinality(Workers \ (P \cup T)) <= Cardinality(Workers)
<1>1. IsFiniteSet(Workers)
  BY OtpAssumption
<1>2. /\ IsFiniteSet(P) /\ IsFiniteSet(R) /\ IsFiniteSet(Workers \ (P \cup T))
      /\ IsFiniteSet(Workers \ P)
      /\ Cardinality(Workers \ (P \cup T)) <= Cardinality(Workers \ P)
  <2>1. /\ P \in SUBSET Workers /\ R \in SUBSET Workers
        /\ Workers \ P \in SUBSET Workers
        /\ Workers \ (P \cup T) \in SUBSET (Workers \ P)
    OBVIOUS
  <2>2. IsFiniteSet(Workers \ P)
    BY <1>1, <2>1, FS_Subset
  <2> QED
    BY <1>1, <2>1, <2>2, FS_Subset
<1>3. Cardinality(Workers \ P) = Cardinality(Workers) - Cardinality(P)
  <2>1. Workers \cap P = P
    OBVIOUS
  <2> QED
    BY <1>1, <2>1, FS_Difference
<1>4. /\ Cardinality(Workers) \in Nat /\ Cardinality(P) \in Nat /\ Cardinality(R) \in Nat
      /\ Cardinality(Workers \ (P \cup T)) \in Nat
  BY <1>1, <1>2, FS_CardinalityType
<1> QED
  BY <1>2, <1>3, <1>4

LEMMA Sizes ==
  ASSUME NEW c
  PROVE  /\ IsFiniteSet(Pending(c)) /\ IsFiniteSet(Resetting(c)) /\ IsFiniteSet(Free(c))
         /\ Cardinality(Workers) \in Nat /\ Cardinality(Pending(c)) \in Nat
         /\ Cardinality(Resetting(c)) \in Nat /\ Cardinality(Free(c)) \in Nat
         /\ Cardinality(Pending(c)) + Cardinality(Free(c)) <= Cardinality(Workers)
<1>1. /\ Pending(c) \subseteq Workers /\ Taking(c) \subseteq Workers
      /\ Resetting(c) \subseteq Taking(c)
  BY DEF Pending, Taking, Resetting
<1> QED
  BY <1>1, SetSizes DEF Free

(* The same of the sets after a step. *)
LEMMA SizesNext ==
  ASSUME NEW c
  PROVE  /\ Cardinality(Pending(c)') \in Nat
         /\ Cardinality(Resetting(c)') \in Nat /\ Cardinality(Free(c)') \in Nat
         /\ Cardinality(Pending(c)') + Cardinality(Free(c)') <= Cardinality(Workers)
<1>1. /\ Pending(c)' \subseteq Workers /\ Taking(c)' \subseteq Workers
      /\ Resetting(c)' \subseteq Taking(c)'
      /\ Free(c)' = Workers \ (Pending(c)' \cup Taking(c)')
  BY DEF Pending, Taking, Resetting, Free
<1> QED
  BY <1>1, SetSizes

(* A code nobody has had accepted yet lets nothing through.                *)
LEMMA UntouchedNext ==
  ASSUME IInv', NEW c \in Codes, uses'[c] = 0
  PROVE  Level(c)' <= Sum(Cardinality(Workers), Cardinality(Workers))
<1>1. resets'[c] = 0 /\ ~Accepted(c)' /\ Resetting(c)' = {}
  <2>1. ~Accepted(c)'
    BY DEF IInv, RowsInv, RowOK, Accepted
  <2>2. Resetting(c)' = {}
    BY DEF IInv, RequestsInv, RequestOK, Resetting
  <2>3. resets'[c] \in Nat
    BY DEF IInv, TypeOK
  <2> QED
    BY <2>1, <2>2, <2>3 DEF IInv, ResetBacked
<1>2. Cardinality(Resetting(c)') = 0
  BY <1>1, FS_EmptySet
<1> DEFINE n == Cardinality(Workers)
           p == Cardinality(Pending(c)')
<1>3. n \in Nat /\ p \in Nat /\ p <= n
  <2>1. /\ p \in Nat /\ n \in Nat /\ Cardinality(Free(c)') \in Nat
        /\ p + Cardinality(Free(c)') <= n
    BY Sizes, SizesNext
  <2> QED
    BY <2>1
<1>4. Sum(n, p) \in Nat /\ Sum(n, p) <= Sum(n, n)
  BY <1>3, SumGrows
<1>5. Level(c)' = Sum(n, p)
  BY <1>1, <1>2, <1>4 DEF Level, Sum
<1> QED
  BY <1>4, <1>5

(* The step changes the level of c as it changes its summands.             *)
LEMMA LevelMoves ==
  ASSUME NEW c, NEW r \in Nat, NEW r2 \in Nat, resets[c] = r, resets'[c] = r2,
         \/ Cardinality(Pending(c)') = Cardinality(Pending(c)) /\
            r2 + Cardinality(Resetting(c)')
                 + (IF Accepted(c)' THEN Cardinality(Free(c)') ELSE 0)
              <= r + Cardinality(Resetting(c))
                   + (IF Accepted(c) THEN Cardinality(Free(c)) ELSE 0)
         \/ /\ Cardinality(Pending(c)) > 0
            /\ Cardinality(Pending(c)') = Cardinality(Pending(c)) - 1
            /\ Cardinality(Resetting(c)') = Cardinality(Resetting(c)) /\ r2 = r
  PROVE  Level(c)' <= Level(c)
<1> DEFINE n  == Cardinality(Workers)
           p  == Cardinality(Pending(c))
           p2 == Cardinality(Pending(c)')
           x  == Cardinality(Resetting(c))
           x2 == Cardinality(Resetting(c)')
           f  == Cardinality(Free(c))
           f2 == Cardinality(Free(c)')
<1>1. /\ n \in Nat /\ p \in Nat /\ x \in Nat /\ f \in Nat /\ p + f <= n
      /\ p2 \in Nat /\ x2 \in Nat /\ f2 \in Nat /\ p2 + f2 <= n
  BY Sizes, SizesNext
<1>2. Level(c) = 2 * r + 2 * x + (IF Accepted(c) THEN 2 * f ELSE 0) + Sum(n, p)
  BY DEF Level
<1>3. Level(c)' = 2 * r2 + 2 * x2 + (IF Accepted(c)' THEN 2 * f2 ELSE 0) + Sum(n, p2)
  BY DEF Level, Sum
<1> HIDE DEF n, p, p2, x, x2, f, f2
<1>4. CASE p2 = p /\ r2 + x2 + (IF Accepted(c)' THEN f2 ELSE 0)
                       <= r + x + (IF Accepted(c) THEN f ELSE 0)
  <2>1. Sum(n, p) \in Nat
    <3>1. p <= n
      BY <1>1
    <3> QED
      BY <1>1, <3>1, SumGrows
  <2> QED
    BY <1>1, <1>2, <1>3, <1>4, <2>1
<1>5. CASE p > 0 /\ p2 = p - 1 /\ x2 = x /\ r2 = r
  <2>1. p <= n
    BY <1>1
  <2>2. Sum(n, p) \in Nat /\ Sum(n, p2) = Sum(n, p) - 2 * (n - p + 1)
    BY <1>1, <1>5, <2>1, SumGrows
  <2>3. f2 <= n - p + 1
    BY <1>1, <1>5
  <2> QED
    BY <1>1, <1>2, <1>3, <1>5, <2>2, <2>3
<1> QED
  BY <1>4, <1>5 DEF n, p, p2, x, x2, f, f2

(* Nothing happens to c. *)
LEMMA LevelStays ==
  ASSUME TypeOK, NEW c \in Codes, resets' = resets, Accepted(c)' => Accepted(c),
         Pending(c)' = Pending(c), Resetting(c)' = Resetting(c), Taking(c)' = Taking(c)
  PROVE  Level(c)' <= Level(c)
<1>1. Free(c)' = Free(c)
  BY DEF Free
<1>2. resets[c] \in Nat
  BY DEF TypeOK
<1>3. Cardinality(Resetting(c)) \in Nat /\ Cardinality(Free(c)) \in Nat
  BY Sizes
<1> QED
  BY <1>1, <1>2, <1>3, LevelMoves

(* The request of w has to do with c neither before nor after the step.    *)
Foreign(w, c) ==
  /\ \A v \in Workers \ {w} : req'[v] = req[v]
  /\ req[w].snapshot.code = c => req[w].pc \in {"idle", "confirm"}
  /\ req'[w].snapshot.code = c => req'[w].pc \in {"idle", "confirm"}

LEMMA ForeignStays ==
  ASSUME TypeOK, NEW c \in Codes, NEW w \in Workers, Foreign(w, c),
         resets' = resets, Accepted(c)' => Accepted(c)
  PROVE  Level(c)' <= Level(c)
<1>1. /\ Pending(c)' = Pending(c) /\ Resetting(c)' = Resetting(c)
      /\ Taking(c)' = Taking(c)
  BY DEF Foreign, Pending, Resetting, Taking
<1> QED
  BY <1>1, LevelStays

LEMMA SaveLevel ==
  ASSUME TypeOK, NEW c \in Codes, NEW w \in Workers, SaveVerified(w)
  PROVE  Level(c)' <= Level(c)
<1>1. /\ req'[w].pc \in {"idle", "confirm"}
      /\ \A v \in Workers \ {w} : req'[v] = req[v]
  BY Answering, Going DEF SaveVerified
<1>2. resets' = resets /\ resets[c] \in Nat
  BY DEF SaveVerified, TypeOK
<1>3. CASE req[w].snapshot.code # c
  <2>1. \A k \in Keys : row'[k] = row[k] \/ row'[k] = Marked(req[w].snapshot)
    BY DEF SaveVerified, TypeOK
  <2>2. Marked(req[w].snapshot).code = req[w].snapshot.code
    BY RowTyped DEF Marked, Row
  <2>3. Accepted(c)' => Accepted(c)
    BY <1>3, <2>1, <2>2 DEF Accepted, Exists
  <2>4. Foreign(w, c)
    BY <1>1, <1>3 DEF Foreign
  <2> QED
    BY <1>2, <2>3, <2>4, ForeignStays
<1>4. CASE req[w].snapshot.code = c
  <2>1. w \in Pending(c) /\ w \notin Taking(c)
    BY <1>4 DEF SaveVerified, Pending, Taking
  <2>2. /\ Pending(c)' = Pending(c) \ {w} /\ Resetting(c)' = Resetting(c)
    BY <1>1, <2>1 DEF Pending, Resetting, SaveVerified
  <2>3. Cardinality(Pending(c)') = Cardinality(Pending(c)) - 1
    BY <2>1, <2>2, Sizes, FS_RemoveElement
  <2>4. Cardinality(Pending(c)') \in Nat /\ Cardinality(Pending(c)) \in Nat
    BY Sizes, SizesNext
  <2> QED
    BY <1>2, <2>2, <2>3, <2>4, LevelMoves
<1> QED
  BY <1>3, <1>4

LEMMA PasswordLevel ==
  ASSUME TypeOK, RequestsInv, NEW c \in Codes, NEW w \in Workers, SetPassword(w)
  PROVE  Level(c)' <= Level(c)
<1>1. /\ req'[w].pc = "delete" /\ req'[w].snapshot = req[w].snapshot
      /\ \A v \in Workers \ {w} : req'[v] = req[v]
  BY Going DEF SetPassword
<1>2. /\ req[w].pc = "password" /\ row' = row
      /\ resets' = [resets EXCEPT ![req[w].snapshot.code] = @ + 1]
      /\ resets[c] \in Nat
  BY DEF SetPassword, TypeOK
<1>3. Accepted(c)' <=> Accepted(c)
  BY <1>2 DEF Accepted, Exists
<1>4. Pending(c)' = Pending(c) /\ Taking(c)' = Taking(c) /\ Free(c)' = Free(c)
  <2>1. Pending(c)' = Pending(c)
    BY <1>1, <1>2 DEF Pending
  <2>2. Taking(c)' = Taking(c)
    BY <1>1, <1>2 DEF Taking
  <2> QED
    BY <2>1, <2>2 DEF Free
<1>5. Cardinality(Resetting(c)) \in Nat /\ Cardinality(Free(c)) \in Nat
  BY Sizes
<1>6. CASE req[w].snapshot.code = c
  <2>1. resets'[c] = resets[c] + 1
    BY <1>2, <1>6 DEF TypeOK
  <2>2. w \in Resetting(c) /\ Resetting(c)' = Resetting(c) \ {w}
    BY <1>1, <1>2, <1>6 DEF Resetting
  <2>3. Cardinality(Resetting(c)') = Cardinality(Resetting(c)) - 1
    BY <2>2, Sizes, FS_RemoveElement
  <2>4. resets[c] + 1 \in Nat
    BY <1>2
  <2> QED
    BY <1>2, <1>3, <1>4, <1>5, <2>1, <2>3, <2>4, LevelMoves
<1>7. CASE req[w].snapshot.code # c
  <2>1. resets'[c] = resets[c]
    BY <1>2, <1>7 DEF TypeOK
  <2>2. Resetting(c)' = Resetting(c)
    BY <1>1, <1>7 DEF Resetting
  <2> QED
    BY <1>2, <1>3, <1>4, <1>5, <2>1, <2>2, LevelMoves
<1> QED
  BY <1>6, <1>7

LEMMA BeginLevel ==
  ASSUME TypeOK, NEW c \in Codes, NEW w \in Workers, NEW u \in Users, BeginReset(w, u)
  PROVE  Level(c)' <= Level(c)
<1> DEFINE k == <<u, "password_reset">>
           x == [pc |-> "password", key |-> k, snapshot |-> row[k], admin |-> FALSE]
<1>1. /\ k \in Keys /\ Exists(k) /\ row[k].verified /\ req[w].pc = "idle"
      /\ req' = [req EXCEPT ![w] = x] /\ resets' = resets /\ row' = row
  BY DEF BeginReset, GateOpen
<1>2. x \in Request /\ x.pc = "password" /\ x.snapshot = row[k]
  BY <1>1, RowTyped DEF Request
<1>3. /\ req'[w].pc = "password" /\ req'[w].snapshot = row[k]
      /\ \A v \in Workers \ {w} : req'[v] = req[v]
  BY <1>1, <1>2, OneRequest
<1>4. Accepted(c)' <=> Accepted(c)
  BY <1>1 DEF Accepted, Exists
<1>5. CASE row[k].code # c
  <2>1. Foreign(w, c)
    BY <1>1, <1>3, <1>5 DEF Foreign
  <2> QED
    BY <1>1, <1>4, <2>1, ForeignStays
<1>6. CASE row[k].code = c
  <2>1. Accepted(c)
    BY <1>1, <1>6 DEF Accepted
  <2>2. /\ w \in Free(c) /\ w \notin Resetting(c)
        /\ Pending(c)' = Pending(c) /\ Resetting(c)' = Resetting(c) \cup {w}
    BY <1>1, <1>3, <1>6 DEF Free, Pending, Taking, Resetting
  <2>3. Taking(c)' = Taking(c) \cup {w}
    BY <1>3, <1>6 DEF Taking
  <2>4. Free(c)' = Free(c) \ {w}
    BY <2>2, <2>3 DEF Free
  <2>5. IsFiniteSet(Resetting(c)) /\ IsFiniteSet(Free(c))
    BY Sizes
  <2>6. Cardinality(Resetting(c)') = Cardinality(Resetting(c)) + 1
    BY <2>2, <2>5, FS_AddElement
  <2>7. Cardinality(Free(c)') = Cardinality(Free(c)) - 1
    BY <2>2, <2>4, <2>5, FS_RemoveElement
  <2>8. /\ Cardinality(Resetting(c)) \in Nat /\ Cardinality(Free(c)) \in Nat
        /\ resets[c] \in Nat /\ resets'[c] = resets[c]
    BY <1>1, Sizes DEF TypeOK
  <2>9. resets'[c] + Cardinality(Resetting(c)')
             + (IF Accepted(c)' THEN Cardinality(Free(c)') ELSE 0)
          <= resets[c] + Cardinality(Resetting(c))
               + (IF Accepted(c) THEN Cardinality(Free(c)) ELSE 0)
    BY <1>4, <2>1, <2>6, <2>7, <2>8
  <2>10. Cardinality(Pending(c)') = Cardinality(Pending(c))
    BY <2>2
  <2> QED
    BY <2>8, <2>9, <2>10, LevelMoves
<1> QED
  BY <1>5, <1>6

(* Who deletes the row of code c leaves none behind.                       *)
LEMMA DeleteLevel ==
  ASSUME IInv, IdsInv, NEW c \in Codes, NEW w \in Workers, DeleteOtp(w)
  PROVE  Level(c)' <= Level(c)
<1>t. TypeOK
  BY DEF IInv
<1>1. req'[w].pc = "idle" /\ \A v \in Workers \ {w} : req'[v] = req[v]
  BY <1>t, Answering DEF DeleteOtp
<1> DEFINE k == req[w].key
           r == req[w].snapshot
<1>2. /\ req[w].pc = "delete" /\ resets' = resets /\ resets[c] \in Nat
      /\ row' = [row EXCEPT ![k] = Deleted(row[k], r.id)] /\ k \in Keys
  BY <1>t DEF DeleteOtp, TypeOK, Request
<1>3. /\ row'[k] = Deleted(row[k], r.id)
      /\ \A l \in Keys \ {k} : row'[l] = row[l]
  BY <1>t, <1>2 DEF TypeOK
<1>4. Accepted(c)' => Accepted(c)
  BY <1>2, <1>3 DEF Accepted, Exists, Deleted, NoRow
<1>5. CASE r.code # c
  <2>1. Foreign(w, c)
    BY <1>1, <1>5 DEF Foreign
  <2> QED
    BY <1>t, <1>2, <1>4, <2>1, ForeignStays
<1>6. CASE r.code = c
  <2>1. issued[c] = k
    BY <1>2, <1>6 DEF IInv, RequestsInv, RequestOK, IssuedFor
  <2>2. r.id \in Codes
    BY <1>2, <1>t, RowTyped, OtpAssumption DEF IdsInv, Row, Codes
  <2>3. Carries(r.id, c)
    BY <1>2, <1>6 DEF Carries
  <2>4. ASSUME NEW l \in Keys, Exists(l)', row'[l].code = c PROVE FALSE
    <3>1. CASE l = k
      <4>1. Exists(k) /\ row[k].code = c /\ row[k].id # r.id
        BY <1>3, <2>4, <3>1 DEF Deleted, Exists, NoRow
      <4>2. row[k].id \in Codes
        BY <1>t, <1>2, <4>1, RowTyped, OtpAssumption DEF Row, Codes, Exists
      <4>3. Carries(row[k].id, c)
        BY <1>2, <4>1 DEF Carries
      <4> QED
        BY <2>2, <2>3, <4>1, <4>2, <4>3 DEF IdsInv
    <3>2. CASE l # k
      <4>1. Exists(l) /\ row[l].code = c
        BY <1>3, <2>4, <3>2 DEF Exists
      <4>2. issued[c] = l
        BY <4>1 DEF IInv, RowsInv, RowOK, IssuedFor
      <4> QED
        BY <2>1, <3>2, <4>2
    <3> QED
      BY <3>1, <3>2
  <2>5. ~Accepted(c)'
    BY <2>4 DEF Accepted
  <2>6. Pending(c)' = Pending(c) /\ Resetting(c)' = Resetting(c)
    BY <1>1, <1>2 DEF Pending, Resetting
  <2>7. Cardinality(Resetting(c)) \in Nat /\ Cardinality(Free(c)) \in Nat
    BY Sizes
  <2> QED
    BY <1>2, <2>5, <2>6, <2>7, LevelMoves
<1> QED
  BY <1>5, <1>6

LEMMA ResetsStep == IInv /\ IdsInv /\ ResetsInv /\ [Next]_vars => ResetsInv'
<1> SUFFICES ASSUME IInv, IdsInv, ResetsInv, [Next]_vars, NEW c \in Codes
             PROVE  Level(c)' <= Sum(Cardinality(Workers), Cardinality(Workers))
  BY DEF ResetsInv
<1>t. TypeOK
  BY DEF IInv
<1> DEFINE Limit == Sum(Cardinality(Workers), Cardinality(Workers))
<1>l. ASSUME Level(c)' <= Level(c) PROVE Level(c)' <= Limit
  <2>1. /\ resets[c] \in Nat /\ resets'[c] \in Nat
        /\ Cardinality(Resetting(c)) \in Nat /\ Cardinality(Free(c)) \in Nat
        /\ Cardinality(Resetting(c)') \in Nat /\ Cardinality(Free(c)') \in Nat
    BY TypeStep, Sizes, SizesNext DEF IInv, TypeOK
  <2>2. /\ Cardinality(Workers) \in Nat
        /\ Cardinality(Pending(c)) \in Nat /\ Cardinality(Pending(c)') \in Nat
    BY Sizes, SizesNext
  <2>3. \A n \in Nat, p \in Nat : Sum(n, p) \in Int
    BY DEF Sum
  <2>4. /\ Sum(Cardinality(Workers), Cardinality(Pending(c))) \in Int
        /\ Sum(Cardinality(Workers), Cardinality(Pending(c)')) \in Int
        /\ Limit \in Int
    BY <2>2, <2>3
  <2>5. Level(c) \in Int /\ Level(c)' \in Int
    <3>1. Level(c) \in Int
      BY <2>1, <2>4 DEF Level
    <3>2. Level(c)' = 2 * resets'[c] + 2 * Cardinality(Resetting(c)')
                        + (IF Accepted(c)' THEN 2 * Cardinality(Free(c)') ELSE 0)
                        + Sum(Cardinality(Workers), Cardinality(Pending(c)'))
      BY DEF Level, Sum
    <3> QED
      BY <2>1, <2>4, <3>1, <3>2
  <2>6. Level(c) <= Limit
    BY DEF ResetsInv
  <2> HIDE DEF Limit
  <2> QED
    BY <1>l, <2>4, <2>5, <2>6
<1>1. ASSUME NEW w \in Workers, NEW k \in Keys, NEW d \in inbox,
             NEW admin \in BOOLEAN, Submit(w, k, d, admin)
      PROVE  Level(c)' <= Limit
  <2>1. CASE row[k].code = c
    <3>1. uses'[c] = 0
      BY <1>1, <2>1 DEF Submit, Acceptable, IInv, RowsInv, RowOK
    <3> QED
      BY <3>1, InvStep, UntouchedNext
  <2>2. CASE row[k].code # c
    <3> DEFINE x == [pc |-> "save", key |-> k, snapshot |-> row[k], admin |-> admin]
    <3>1. x \in Request /\ x.snapshot = row[k] /\ req' = [req EXCEPT ![w] = x]
      BY <1>t, <1>1, RowTyped DEF Request, Submit
    <3>2. req'[w].snapshot = row[k] /\ \A v \in Workers \ {w} : req'[v] = req[v]
      BY <1>t, <3>1, OneRequest
    <3>3. Foreign(w, c) /\ resets' = resets
      BY <1>1, <2>2, <3>2 DEF Foreign, Submit
    <3>4. Accepted(c)' => Accepted(c)
      BY <1>1 DEF Submit, Accepted, Exists
    <3> QED
      BY <1>t, <1>l, <3>3, <3>4, ForeignStays
  <2> QED
    BY <2>1, <2>2
<1>2. ASSUME NEW w \in Workers, ConfirmEmail(w) PROVE Level(c)' <= Limit
  <2>1. req'[w].pc = "idle" /\ \A v \in Workers \ {w} : req'[v] = req[v]
    BY <1>t, <1>2, Answering DEF ConfirmEmail
  <2>2. Foreign(w, c) /\ resets' = resets
    BY <1>2, <2>1 DEF Foreign, ConfirmEmail
  <2>3. Accepted(c)' => Accepted(c)
    BY <1>2 DEF ConfirmEmail, Accepted, Exists
  <2> QED
    BY <1>t, <1>l, <2>2, <2>3, ForeignStays
<1>3. ASSUME NEW w \in Workers, SaveVerified(w) \/ SetPassword(w) \/ DeleteOtp(w)
      PROVE  Level(c)' <= Limit
  BY <1>t, <1>l, <1>3, SaveLevel, PasswordLevel, DeleteLevel DEF IInv
<1>4. ASSUME NEW w \in Workers, NEW u \in Users, BeginReset(w, u) PROVE Level(c)' <= Limit
  BY <1>t, <1>l, <1>4, BeginLevel
<1>5. ASSUME req' = req, resets' = resets, Accepted(c)' => Accepted(c)
      PROVE  Level(c)' <= Limit
  <2>1. /\ Pending(c)' = Pending(c) /\ Resetting(c)' = Resetting(c)
        /\ Taking(c)' = Taking(c)
    BY <1>5 DEF Pending, Resetting, Taking
  <2> QED
    BY <1>t, <1>l, <1>5, <2>1, LevelStays
<1>6. ASSUME NEW k \in Keys, NEW arrives \in BOOLEAN, SendOtp(k, arrives)
      PROVE  Level(c)' <= Limit
  <2>1. /\ ~row'[k].verified /\ \A l \in Keys \ {k} : row'[l] = row[l]
    BY <1>t, <1>6 DEF SendOtp, Refreshed, TypeOK
  <2>2. Accepted(c)' => Accepted(c)
    BY <2>1 DEF Accepted, Exists
  <2> QED
    BY <1>5, <1>6, <2>2 DEF SendOtp
<1>7. CASE Cleanup
  <2>1. \A k \in Keys : row'[k] \in {row[k], NoRow}
    BY <1>7 DEF Cleanup
  <2>2. Accepted(c)' => Accepted(c)
    BY <2>1 DEF Accepted, Exists, NoRow
  <2> QED
    BY <1>5, <1>7, <2>2 DEF Cleanup
<1>8. CASE \/ Tick \/ UNCHANGED vars
           \/ \E w \in Workers : RefuseCode(w)
           \/ \E u \in Users : RefuseReset(u)
  BY <1>5, <1>8 DEF Tick, RefuseCode, RefuseReset, vars, Accepted, Exists
<1> QED
  BY <1>1, <1>2, <1>3, <1>4, <1>6, <1>7, <1>8 DEF Next, Serve

(* One code lets a password be reset n + (n - 1) + ... + 1 times at most,  *)
(* for n workers: on SQLite nothing but the deletion of its row stops it,  *)
(* and saves that were under way bring the row back.                       *)
THEOREM CodeResetsBounded == Spec => []ResetsBounded
<1>1. Init => IdsInv /\ ResetsInv
  <2> SUFFICES ASSUME Init PROVE IdsInv /\ ResetsInv
    OBVIOUS
  <2>1. \A k \in Keys : ~Exists(k)
    BY DEF Init, Exists, NoRow
  <2>2. \A w \in Workers : req[w].pc = "idle"
    BY DEF Init, IdleRequest
  <2>3. IdsInv
    BY <2>1, <2>2 DEF IdsInv, Carries
  <2>4. ASSUME NEW c \in Codes
        PROVE  Level(c) <= Sum(Cardinality(Workers), Cardinality(Workers))
    <3>1. Pending(c) = {} /\ Resetting(c) = {} /\ ~Accepted(c) /\ resets[c] = 0
      BY <2>1, <2>2 DEF Pending, Resetting, Accepted, Init
    <3>2. Cardinality(Workers) \in Nat /\ Cardinality({}) = 0
      BY Sizes, FS_EmptySet
    <3>3. Sum(Cardinality(Workers), 0) = 0
      BY <3>2 DEF Sum
    <3>4. Level(c) = 0
      BY <3>1, <3>2, <3>3 DEF Level
    <3>5. 0 <= Sum(Cardinality(Workers), Cardinality(Workers))
      <4>1. \A n \in Nat : n <= n /\ 0 <= Sum(n, n)
        BY SumGrows
      <4> QED
        BY <3>2, <4>1
    <3> QED
      BY <3>4, <3>5
  <2> QED
    BY <2>3, <2>4 DEF ResetsInv
<1>2. IInv /\ IdsInv /\ ResetsInv => ResetsBounded
  <2> SUFFICES ASSUME IInv, ResetsInv, NEW c \in Codes
               PROVE  2 * resets[c] <= Cardinality(Workers) * (Cardinality(Workers) + 1)
    BY DEF ResetsBounded
  <2> DEFINE n == Cardinality(Workers)
             p == Cardinality(Pending(c))
  <2>1. /\ resets[c] \in Nat /\ n \in Nat /\ p \in Nat
        /\ Cardinality(Resetting(c)) \in Nat /\ Cardinality(Free(c)) \in Nat
        /\ p + Cardinality(Free(c)) <= n
    BY Sizes DEF IInv, TypeOK
  <2>2. p <= n /\ n <= n
    BY <2>1
  <2>3. Sum(n, p) \in Nat /\ Sum(n, n) = n * (n + 1) /\ Sum(n, n) \in Nat
    BY <2>1, <2>2, SumGrows
  <2>4. Level(c) <= Sum(n, n)
    BY DEF ResetsInv
  <2> HIDE DEF n, p
  <2>5. 2 * resets[c] <= Sum(n, n)
    BY <2>1, <2>3, <2>4 DEF Level, n, p
  <2> QED
    BY <2>3, <2>5 DEF n
<1> QED
  BY <1>1, <1>2, InvInit, InvStep, IdsStep, ResetsStep, PTL DEF Spec
=============================================================================
