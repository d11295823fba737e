------------------------------ MODULE Session ------------------------------
(***************************************************************************)
(* Sessions of one account: the JWT pairs it was given, the cache flag     *)
(* that invalidates all of them at once, and the cached answer of /me.     *)
(* Every key and row here carries the account's id, so accounts do not     *)
(* meet and one is enough.                                                 *)
(*                                                                         *)
(* A request is cut at its cache calls: none of them is part of the        *)
(* transaction that comes before it, and each may fail without the caller  *)
(* noticing (_safe_cache_get, _safe_cache_set, _safe_cache_delete).  The   *)
(* flag fails open: a request whose read of it fails is let in.            *)
(* Times are counted down: a token, the flag or a cached answer with       *)
(* nothing left is gone.                                                   *)
(***************************************************************************)
EXTENDS Integers

CONSTANTS
  Sessions,     \* token pairs the account can hold at a time
  Workers,      \* request threads
  AccessLife,   \* ACCESS_TOKEN_LIFETIME
  RefreshLife,  \* REFRESH_TOKEN_LIFETIME
  FlagLife,     \* INVALIDATION_TTL_SECONDS
  MeLife,       \* ME_CACHE_TTL_SECONDS
  MaxEdits,     \* bound: edits of the account's role or access rows
  MaxFaults     \* bound: failed cache calls and killed requests

\* The flag lives as long as a refresh token (24 hours and 1 day).
ASSUME SessionAssumption ==
  /\ {AccessLife, RefreshLife, FlagLife, MeLife} \subseteq Nat \ {0}
  /\ FlagLife >= RefreshLife
  /\ MaxEdits \in Nat /\ MaxFaults \in Nat

VARIABLES
  status,       \* the user row: active, deactivated or deleted
  role,         \* its role
  edits,        \* how many edits what /me shows has seen
  accessLeft,   \* per session, what is left of its newest access token
  refreshLeft,  \* per session, what is left of its refresh token
  flagLeft,     \* the key user:<id>:invalidated
  me,           \* the keys user:<id>:me:<role>
  req,          \* per worker, the request it serves
  revoked,      \* history: sessions the flag was set against, and not lifted since
  faults        \* history: faults so far

vars == <<status, role, edits, accessLeft, refreshLeft, flagLeft, me, req,
          revoked, faults>>
tokens  == <<accessLeft, refreshLeft, revoked>>
account == <<status, role, edits>>
cache   == <<flagLeft, me>>

PortalRoles == {"subadmin", "sales"}
Roles       == PortalRoles \cup {"student"}
Idle        == [pc |-> "idle"]
NoAnswer    == [left |-> 0, version |-> 0]

Request ==
  [pc : {"idle", "invalidate", "clear", "unflag", "forget", "issue"}]
    \cup [pc : {"view"}, role : Roles, version : 0..MaxEdits]
    \cup [pc : {"fill"}, role : PortalRoles, version : 0..MaxEdits]

TypeOK ==
  /\ status \in {"active", "inactive", "deleted"} /\ role \in Roles
  /\ edits \in 0..MaxEdits
  /\ accessLeft \in [Sessions -> 0..AccessLife]
  /\ refreshLeft \in [Sessions -> 0..RefreshLife]
  /\ flagLeft \in 0..FlagLife
  /\ me \in [PortalRoles -> [left : 0..MeLife, version : 0..MaxEdits]]
  /\ req \in [Workers -> Request]
  /\ revoked \in [Sessions -> BOOLEAN]
  /\ faults \in 0..MaxFaults

Init ==
  /\ status = "active" /\ role \in {"subadmin", "student"} /\ edits = 0
  /\ accessLeft = [s \in Sessions |-> 0] /\ refreshLeft = [s \in Sessions |-> 0]
  /\ flagLeft = 0 /\ me = [r \in PortalRoles |-> NoAnswer]
  /\ req = [w \in Workers |-> Idle]
  /\ revoked = [s \in Sessions |-> FALSE] /\ faults = 0

At(w, pc)   == req[w].pc = pc
Goto(w, pc) == req' = [req EXCEPT ![w] = [pc |-> pc]]
Free(s)     == accessLeft[s] = 0 /\ refreshLeft[s] = 0
Fault       == faults < MaxFaults /\ faults' = faults + 1

\* The access token is good, the flag apart.
Bearer(s) == accessLeft[s] > 0 /\ status = "active"

\* is_user_invalidated answers no: there is no flag, or its read failed.
NotInvalidated ==
  \/ flagLeft = 0 /\ UNCHANGED faults
  \/ Fault

(***************************************************************************)
(* Requests with an access token.                                          *)
(***************************************************************************)

\* A request is let in, and works from here with the user row it has read.
Authenticate(w, s) ==
  /\ At(w, "idle") /\ Bearer(s) /\ NotInvalidated
  /\ req' = [req EXCEPT ![w] = [pc |-> "view", role |-> role, version |-> edits]]
  /\ UNCHANGED <<account, tokens, cache>>

\* Any view that leaves the session alone; also /me when it is cached.
Answer(w) ==
  /\ At(w, "view") /\ Goto(w, "idle")
  /\ UNCHANGED <<account, tokens, cache, faults>>

(***************************************************************************)
(* Tokens.                                                                 *)
(***************************************************************************)

Issue(s) ==
  /\ Free(s)
  /\ accessLeft'  = [accessLeft EXCEPT ![s] = AccessLife]
  /\ refreshLeft' = [refreshLeft EXCEPT ![s] = RefreshLife]
  /\ revoked'     = [revoked EXCEPT ![s] = FALSE]

\* The right password of an active account: a token pair, and nothing else.
Login(w, s) ==
  /\ At(w, "idle") /\ status = "active"
  /\ Issue(s)
  /\ UNCHANGED <<account, cache, req, faults>>

\* The refresh endpoint asks for a live token of an active account.
Refresh(s) ==
  /\ refreshLeft[s] > 0 /\ status = "active"
  /\ accessLeft' = [accessLeft EXCEPT ![s] = AccessLife]
  /\ UNCHANGED <<account, refreshLeft, revoked, cache, req, faults>>

\* The portal's login has accepted its code, and goes on to lift the flag.
PortalLogin(w) ==
  /\ At(w, "idle") /\ status = "active" /\ role \in PortalRoles
  /\ Goto(w, "unflag")
  /\ UNCHANGED <<account, tokens, cache, faults>>

LiftFlag(w) ==
  /\ At(w, "unflag") /\ Goto(w, "forget")
  /\ \/ /\ flagLeft' = 0 /\ revoked' = [s \in Sessions |-> FALSE]
        /\ UNCHANGED faults
     \/ Fault /\ UNCHANGED <<flagLeft, revoked>>
  /\ UNCHANGED <<account, accessLeft, refreshLeft, me>>

IssuePortal(w, s) ==
  /\ At(w, "issue") /\ Goto(w, "idle")
  /\ Issue(s)
  /\ UNCHANGED <<account, cache, faults>>

(***************************************************************************)
(* Invalidation.  Each change commits first; the flag and the cached       *)
(* answers follow in calls of their own.                                   *)
(***************************************************************************)

\* A student changes his password.
ChangePassword(w) ==
  /\ At(w, "view") /\ req[w].role = "student"
  /\ Goto(w, "invalidate")
  /\ UNCHANGED <<account, tokens, cache, faults>>

\* A manager replaces the access rows, and with them may switch the account.
UpdateAccess(w) ==
  /\ At(w, "idle") /\ role = "subadmin" /\ status # "deleted"
  /\ edits < MaxEdits /\ edits' = edits + 1
  /\ status' \in {"active", "inactive"}
  /\ Goto(w, "invalidate")
  /\ UNCHANGED <<role, tokens, cache, faults>>

UpdateRole(w) ==
  /\ At(w, "idle") /\ role = "subadmin" /\ status # "deleted"
  /\ edits < MaxEdits /\ edits' = edits + 1
  /\ role' \in Roles
  /\ Goto(w, "invalidate")
  /\ UNCHANGED <<status, tokens, cache, faults>>

Deactivate(w) ==
  /\ At(w, "idle") /\ role = "subadmin" /\ status = "active"
  /\ status' = "inactive"
  /\ Goto(w, "invalidate")
  /\ UNCHANGED <<role, edits, tokens, cache, faults>>

\* The same endpoint, the other way: neither the flag nor the cache is touched.
Activate(w) ==
  /\ At(w, "idle") /\ role = "subadmin" /\ status = "inactive"
  /\ status' = "active"
  /\ UNCHANGED <<role, edits, tokens, cache, req, faults>>

Delete(w) ==
  /\ At(w, "idle") /\ role = "subadmin" /\ status # "deleted"
  /\ status' = "deleted"
  /\ Goto(w, "invalidate")
  /\ UNCHANGED <<role, edits, tokens, cache, faults>>

\* Mutant: The lifetime of the flag is taken from the access token.
MutSetFlag(w) ==
  /\ At(w, "invalidate") /\ Goto(w, "clear")
  /\ \/ /\ flagLeft' = AccessLife
        /\ revoked' = [s \in Sessions |-> revoked[s] \/ ~Free(s)]
        /\ UNCHANGED faults
     \/ Fault /\ UNCHANGED <<flagLeft, revoked>>
  /\ UNCHANGED <<account, accessLeft, refreshLeft, me>>

SetFlag(w) ==
  /\ At(w, "invalidate") /\ Goto(w, "clear")
  /\ \/ /\ flagLeft' = FlagLife
        /\ revoked' = [s \in Sessions |-> revoked[s] \/ ~Free(s)]
        /\ UNCHANGED faults
     \/ Fault /\ UNCHANGED <<flagLeft, revoked>>
  /\ UNCHANGED <<account, accessLeft, refreshLeft, me>>

(***************************************************************************)
(* The cached answer of /me.                                               *)
(***************************************************************************)

\* The last cache call of an invalidation, and of lifting the flag.
ClearMe(w) ==
  /\ \/ At(w, "clear") /\ Goto(w, "idle")
     \/ At(w, "forget") /\ Goto(w, "issue")
  /\ \/ me' = [r \in PortalRoles |-> NoAnswer] /\ UNCHANGED faults
     \/ Fault /\ UNCHANGED me
  /\ UNCHANGED <<account, tokens, flagLeft>>

\* The view of /me finds no cached answer, or cannot read it, and makes one.
\* Its user row is the one authentication has read, the module rows are read
\* now: the answer is as old as its oldest part.
MissMe(w) ==
  /\ At(w, "view") /\ req[w].role \in PortalRoles
  /\ \/ me[req[w].role].left = 0 /\ UNCHANGED faults
     \/ Fault
  /\ req' = [req EXCEPT ![w].pc = "fill"]
  /\ UNCHANGED <<account, tokens, cache>>

FillMe(w) ==
  /\ At(w, "fill") /\ Goto(w, "idle")
  /\ \/ /\ me' = [me EXCEPT ![req[w].role] =
                    [left |-> MeLife, version |-> req[w].version]]
        /\ UNCHANGED faults
     \/ Fault /\ UNCHANGED me
  /\ UNCHANGED <<account, tokens, flagLeft>>

(***************************************************************************)
(* The world.                                                              *)
(***************************************************************************)

Less(n) == IF n = 0 THEN 0 ELSE n - 1

Counting ==
  \/ flagLeft > 0
  \/ \E s \in Sessions : ~Free(s)
  \/ \E r \in PortalRoles : me[r].left > 0

\* Mutant: an answer is cached without a timeout and never expires.
MutAged(r) == me[r]

\* An answer is cached for ME_CACHE_TTL_SECONDS.
Aged(r) == [me[r] EXCEPT !.left = Less(@)]

Tick ==
  /\ Counting
  /\ flagLeft'    = Less(flagLeft)
  /\ accessLeft'  = [s \in Sessions |-> Less(accessLeft[s])]
  /\ refreshLeft' = [s \in Sessions |-> Less(refreshLeft[s])]
  /\ me' = [r \in PortalRoles |-> Aged(r)]
  /\ UNCHANGED <<account, req, revoked, faults>>

\* A request is killed, also between the commit and its cache calls.
Crash(w) ==
  /\ ~At(w, "idle") /\ Fault /\ Goto(w, "idle")
  /\ UNCHANGED <<account, tokens, cache>>

Serve(w) ==
  \/ Answer(w) \/ ChangePassword(w) \/ MissMe(w) \/ FillMe(w)
  \/ LiftFlag(w) \/ SetFlag(w) \/ ClearMe(w)
  \/ \E s \in Sessions : IssuePortal(w, s)

Arrive(w) ==
  \/ PortalLogin(w)
  \/ \E s \in Sessions : Login(w, s) \/ Authenticate(w, s)

Manage(w) ==
  \/ UpdateAccess(w) \/ UpdateRole(w) \/ Deactivate(w) \/ Activate(w) \/ Delete(w)

Next ==
  \/ \E w \in Workers : Serve(w) \/ Arrive(w) \/ Manage(w) \/ Crash(w)
  \/ \E s \in Sessions : Refresh(s)
  \/ Tick

\* Requests in service go on, and time passes; nobody has to send a request.
Fairness == WF_vars(Tick) /\ \A w \in Workers : WF_vars(Serve(w))

Spec     == Init /\ [][Next]_vars
FairSpec == Spec /\ Fairness

(***************************************************************************)
(* Properties.                                                             *)
(***************************************************************************)

\* From the time the flag is set against a session until the portal's login
\* lifts it, a request of that session is let in only because its own read of
\* the flag failed, or with an access token that the refresh token, since dead,
\* bought before it died: the flag outlives every refresh token it stands
\* against, and no other request, failure or crash takes it away early.
RevokedKeptOut ==
  [][\A w \in Workers, s \in Sessions :
       /\ revoked[s] /\ (refreshLeft[s] > 0 \/ accessLeft[s] = AccessLife)
       /\ Authenticate(w, s)
       => Fault]_vars

\* Once what /me shows is not edited any more, the cached answer that the current
\* role is served becomes the current one for good: a stale fill or a lost
\* clear_user_me_cache lasts no longer than the cached answer.
Stale == role \in PortalRoles /\ me[role].left > 0 /\ me[role].version # edits

MeCatchesUp == <>[]~Stale

\* "Password changed successfully. Please log in again." (accounts/views.py:780):
\* a session that a student was issued after the flag was set finds no flag.
LoginAdmits ==
  \A s \in Sessions : role = "student" /\ Bearer(s) /\ ~revoked[s] => flagLeft = 0

=============================================================================
