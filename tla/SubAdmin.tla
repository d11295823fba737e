----------------------------- MODULE SubAdmin ------------------------------
(***************************************************************************)
(* One sub-admin account under the hands of its managers: the user row,    *)
(* its SubAdminProfile, the module rows and what they grant.  Accounts do  *)
(* not share rows, so one is enough.                                       *)
(*                                                                         *)
(* Every handler is one transaction (PostgreSQL, READ COMMITTED), cut at   *)
(* the statements that may wait for a row lock.  What is done after the    *)
(* last of them is one action with the commit.  The calls made after the   *)
(* commit are in Session.                                                  *)
(***************************************************************************)
EXTENDS FiniteSets, Naturals

CONSTANTS
  Modules,   \* rows of the Module table
  Patches,   \* module_accesses and is_active of an update; None: not given
  Workers,   \* request threads
  None

ASSUME SubAdminAssumption ==
  /\ None \notin Workers \cup BOOLEAN
  /\ \A p \in Patches :
       /\ p.active \in BOOLEAN \cup {None}
       /\ p.grants \in [Modules -> {"none", "hidden", "view", "edit"}] \cup {None}

VARIABLES
  enabled,      \* modules with is_active
  user,         \* the user row: not yet there, there or deleted; role, is_active
  profile,      \* its SubAdminProfile: is_active
  rows,         \* SubAdminModuleAccess rows: can_view, can_edit
  allowed,      \* SubAdminProfile.allowed_modules
  userLock, profileLock,  \* the worker whose transaction holds the row
  req           \* per worker, the request it serves

vars  == <<enabled, user, profile, rows, allowed, userLock, profileLock, req>>
data  == <<user, profile, rows, allowed>>
locks == <<userLock, profileLock>>

\* No row; can_view off; can_view on; both on (can_edit implies can_view).
Grant == {"none", "hidden", "view", "edit"}
Grants == [Modules -> Grant]
Viewable == {"view", "edit"}
NoRows == [m \in Modules |-> "none"]

User == [row : {"none", "there", "gone"}, role : {"subadmin", "sales", "student"}, active : BOOLEAN]
Profile == [active : BOOLEAN]

Idle == [pc |-> "idle"]
Request ==
  {Idle}
    \cup [pc : {"create"}, patch : {p \in Patches : p.grants # None}]
    \cup [pc : {"lockProfile", "lockUser"}, patch : Patches, copy : Profile]
    \cup [pc : {"role"}, role : {"subadmin", "sales", "student"}, joined : BOOLEAN]
    \cup [pc : {"toggle", "delete"}]

TypeOK ==
  /\ enabled \subseteq Modules
  /\ user \in User /\ profile \in Profile
  /\ rows \in Grants /\ allowed \subseteq Modules
  /\ userLock \in Workers \cup {None} /\ profileLock \in Workers \cup {None}
  /\ req \in [Workers -> Request]

(***************************************************************************)
(* What the rows grant.                                                    *)
(***************************************************************************)

\* get_module_names: what /me and the lists of sub-admins show.
Listed ==
  LET shown == {m \in enabled : rows[m] \in Viewable}
  IN  IF shown # {} THEN shown ELSE allowed

\* has_module_access(m, "view") of an active account; profiles from before the
\* module rows have allowed_modules only.
Granted ==
  {m \in enabled : IF rows[m] # "none" THEN rows[m] \in Viewable ELSE m \in allowed}

\* An account yet to be made by CreateSubAdminView, or one from before the rows.
Init ==
  /\ enabled = Modules
  /\ user \in [row : {"none", "there"}, role : {"subadmin"}, active : {TRUE}]
  /\ profile = [active |-> TRUE]
  /\ rows = NoRows
  /\ IF user.row = "none" THEN allowed = {} ELSE allowed \in SUBSET Modules
  /\ userLock = None /\ profileLock = None
  /\ req = [w \in Workers |-> Idle]

At(w, pc)   == req[w].pc = pc
Become(w, r) == req' = [req EXCEPT ![w] = r]
Manageable  == user.row = "there" /\ user.role = "subadmin"

\* Mutant: only the profile's lock is given back.
MutReleaseLocks(w) ==
  /\ userLock' = userLock
  /\ profileLock' = IF profileLock = w THEN None ELSE profileLock

\* The end of a transaction, either way.
ReleaseLocks(w) ==
  /\ userLock' = IF userLock = w THEN None ELSE userLock
  /\ profileLock' = IF profileLock = w THEN None ELSE profileLock

End(w) == ReleaseLocks(w) /\ Become(w, Idle)

\* An error, a lost connection or a killed worker: the transaction is undone.
RollBack(w) == ~At(w, "idle") /\ End(w) /\ UNCHANGED <<enabled, data>>

\* Mutant: nobody waits for a profile that an update has locked.
MutProfileFree == TRUE

ProfileFree == profileLock = None
UserFree    == userLock = None

(***************************************************************************)
(* UpdateSubAdminAccessView: the join of profile and user is selected FOR  *)
(* UPDATE, which locks the profile and then the user.                      *)
(***************************************************************************)

\* The serializer accepts enabled modules only; no lock is held yet.
Valid(p) == p.grants # None => {m \in Modules : p.grants[m] # "none"} \subseteq enabled

ReadPatch(w, p) ==
  /\ At(w, "idle") /\ Valid(p)
  /\ Become(w, [pc |-> "lockProfile", patch |-> p, copy |-> profile])
  /\ UNCHANGED <<enabled, data, locks>>

\* Mutant: the rows are read before they are locked.
MutLockProfile(w) ==
  /\ At(w, "lockProfile") /\ Manageable /\ ProfileFree
  /\ profileLock' = w
  /\ Become(w, [req[w] EXCEPT !.pc = "lockUser"])
  /\ UNCHANGED <<enabled, data, userLock>>

LockProfile(w) ==
  /\ At(w, "lockProfile") /\ Manageable /\ ProfileFree
  /\ profileLock' = w
  /\ Become(w, [req[w] EXCEPT !.pc = "lockUser", !.copy = profile])
  /\ UNCHANGED <<enabled, data, userLock>>

\* The row is not there, or no longer a sub-admin's, once the lock is granted.
NotFound(w) ==
  /\ ~Manageable
  /\ \/ At(w, "lockProfile")
     \/ At(w, "lockUser") /\ UserFree
  /\ End(w)
  /\ UNCHANGED <<enabled, data>>

\* is_active of the user follows that of the profile, given or as it was read.
Activation(w) ==
  IF req[w].patch.active = None THEN req[w].copy.active ELSE req[w].patch.active

\* Mutant: allowed_modules collects every module of the payload.
MutAllowedBy(grants) == {m \in Modules : grants[m] # "none"}

AllowedBy(grants) == {m \in Modules : grants[m] \in Viewable}

\* _apply_subadmin_access_configuration: the rows are replaced, allowed_modules
\* set to what they show.
ApplyAccess(w) ==
  /\ At(w, "lockUser") /\ Manageable /\ UserFree
  /\ user' = [user EXCEPT !.active = Activation(w)]
  /\ profile' = [profile EXCEPT !.active = Activation(w)]
  /\ IF req[w].patch.grants = None
     THEN UNCHANGED <<rows, allowed>>
     ELSE rows' = req[w].patch.grants /\ allowed' = AllowedBy(req[w].patch.grants)
  /\ End(w)
  /\ UNCHANGED enabled

(***************************************************************************)
(* CreateSubAdminView, by whomever and however often it is sent.           *)
(***************************************************************************)

\* "At least one module assignment is required"; the e-mail is not taken yet.
ReadNew(w, p) ==
  /\ At(w, "idle") /\ user.row = "none"
  /\ p.grants \notin {None, NoRows} /\ Valid(p)
  /\ Become(w, [pc |-> "create", patch |-> p])
  /\ UNCHANGED <<enabled, data, locks>>

\* User, profile and rows in one transaction, which waits for another that inserts
\* the same e-mail; 409 if that one commits.  is_active defaults to true.
CreateAccount(w) ==
  LET p  == req[w].patch
      on == p.active \in {None, TRUE}
  IN
  /\ At(w, "create") /\ Become(w, Idle)
  /\ IF user.row = "none"
     THEN /\ user' = [user EXCEPT !.row = "there", !.active = on]
          /\ profile' = [profile EXCEPT !.active = on]
          /\ rows' = p.grants /\ allowed' = AllowedBy(p.grants)
     ELSE UNCHANGED data
  /\ UNCHANGED <<enabled, locks>>

(***************************************************************************)
(* The other three handlers lock the user first.                           *)
(***************************************************************************)

LockUser(w, r) ==
  /\ At(w, "idle") /\ Manageable /\ UserFree
  /\ userLock' = w
  /\ Become(w, r)
  /\ UNCHANGED <<enabled, data, profileLock>>

\* For a manager who is a sub-admin himself the query joins the profile and
\* locks it too; for a superadmin it does not.
StartRole(w) ==
  \E role \in {"subadmin", "sales", "student"}, joined \in BOOLEAN :
    LockUser(w, [pc |-> "role", role |-> role, joined |-> joined])

StartToggle(w) == LockUser(w, [pc |-> "toggle"])
StartDelete(w) == LockUser(w, [pc |-> "delete"])

SetRole(w) ==
  /\ At(w, "role") /\ (req[w].joined => ProfileFree)
  /\ user' = [user EXCEPT !.role = req[w].role]
  /\ End(w)
  /\ UNCHANGED <<enabled, profile, rows, allowed>>

Toggled == ~user.active

Toggle(w) ==
  /\ At(w, "toggle") /\ ProfileFree
  /\ user' = [user EXCEPT !.active = Toggled]
  /\ profile' = [profile EXCEPT !.active = Toggled]
  /\ End(w)
  /\ UNCHANGED <<enabled, rows, allowed>>

\* user.delete() cascades to the profile and its rows.
Delete(w) ==
  /\ At(w, "delete") /\ ProfileFree
  /\ user' = [user EXCEPT !.row = "gone"]
  /\ rows' = NoRows /\ allowed' = {}
  /\ End(w)
  /\ UNCHANGED <<enabled, profile>>

\* One update holds the profile and waits for the user, another handler the
\* other way round: PostgreSQL aborts one of them, which answers 500.
Deadlocked(v, w) ==
  /\ At(v, "lockUser") /\ userLock = w
  /\ At(w, "toggle") \/ At(w, "delete") \/ (At(w, "role") /\ req[w].joined)
  /\ profileLock = v

Abort(w) ==
  /\ \E v \in Workers : Deadlocked(v, w) \/ Deadlocked(w, v)
  /\ RollBack(w)

\* The Django admin switches a module on or off.
SwitchModule(m) ==
  /\ enabled' = IF m \in enabled THEN enabled \ {m} ELSE enabled \cup {m}
  /\ UNCHANGED <<data, locks, req>>

Serve(w) ==
  \/ LockProfile(w) \/ ApplyAccess(w) \/ NotFound(w) \/ CreateAccount(w)
  \/ SetRole(w) \/ Toggle(w) \/ Delete(w) \/ Abort(w)

Next ==
  \/ \E w \in Workers :
       \/ Serve(w) \/ RollBack(w)
       \/ \E p \in Patches : ReadPatch(w, p) \/ ReadNew(w, p)
       \/ StartRole(w) \/ StartToggle(w) \/ StartDelete(w)
  \/ \E m \in Modules : SwitchModule(m)

\* PostgreSQL grants locks in turn and breaks deadlocks.
Fairness == \A w \in Workers : SF_vars(Serve(w))

Spec     == Init /\ [][Next]_vars
FairSpec == Spec /\ Fairness

(***************************************************************************)
(* Properties.                                                             *)
(***************************************************************************)

\* What is shown of the enabled modules is what is granted, through every
\* replacement of the rows and every switch of a module.
ListedIsGranted == user.row = "there" => Listed \cap enabled = Granted

\* An update that does not name is_active (_apply_subadmin_access_configuration)
\* never undoes a toggle that committed while the update waited for its locks.
OmittedActiveKept ==
  [][\A w \in Workers :
       At(w, "lockUser") /\ req[w].patch.active = None /\ req'[w] = Idle
         => user'.active = user.active]_vars

\* No manager's request waits for ever, although updates lock in the opposite
\* order of toggles, role changes and deletions.
RequestsEnd == \A w \in Workers : ~At(w, "idle") ~> At(w, "idle")

\* What a request asks for, whatever it waits for.
Demand(r) ==
  CASE r.pc \in {"lockProfile", "lockUser"} -> [op |-> "update", patch |-> r.patch]
    [] r.pc = "create" -> [op |-> "create", patch |-> r.patch]
    [] r.pc = "role"   -> [op |-> "role", role |-> r.role]
    [] r.pc \in {"toggle", "delete"} -> [op |-> r.pc]
    [] OTHER -> [op |-> "nothing"]

\* The views lock the rows one by one, in two orders, and read what they will write
\* back; yet each request takes effect at one moment, on what the account then is, or
\* not at all.  An account is active if both rows say so (is_account_access_active),
\* and may view and edit what has_module_access grants while the module is on.
Account == INSTANCE Access WITH
  Managers <- Workers, Rights <- Modules, Updates <- Patches, Omitted <- None,
  account  <- user.row,
  role     <- user.role,
  active   <- user.active /\ profile.active,
  view     <- {m \in Modules : IF rows[m] # "none" THEN rows[m] \in Viewable ELSE m \in allowed},
  edit     <- {m \in Modules : rows[m] = "edit"},
  asked    <- [w \in Workers |-> Demand(req[w])]

ImplementsAccess == Account!AccessSpec

=============================================================================
