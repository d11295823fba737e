--------------------------- MODULE SubAdminProofs --------------------------
(***************************************************************************)
(* Theorems about SubAdmin, for any modules, patches and workers.          *)
(***************************************************************************)
EXTENDS SubAdmin, TLAPS

\* The two flags is_active agree, and allowed_modules repeats the rows, if any.
RowsAgree ==
  /\ user.active = profile.active
  /\ rows = NoRows \/ allowed = AllowedBy(rows)

\* An update that waits for the user holds the profile, and a true copy of it.
CopyTrue(w) ==
  At(w, "lockUser") => profileLock = w /\ req[w].copy = profile /\ user.row # "none"

\* An account that was made stays made, or is deleted.
Made == user.row # "none" => user'.row # "none"

IInv == TypeOK /\ RowsAgree /\ \A w \in Workers : CopyTrue(w)

LEMMA InitInv == Init => IInv
<1> SUFFICES ASSUME Init PROVE IInv
  OBVIOUS
<1>1. TypeOK
  <2>1. rows \in Grants /\ allowed \subseteq Modules
    BY DEF Init, NoRows, Grants, Grant
  <2>2. req \in [Workers -> Request]
    BY DEF Init, Request
  <2>3. user \in User /\ profile \in Profile
    BY DEF Init, User, Profile
  <2> QED
    BY <2>1, <2>2, <2>3 DEF Init, TypeOK
<1>2. RowsAgree
  BY DEF Init, RowsAgree, AllowedBy
<1>3. ASSUME NEW w \in Workers PROVE CopyTrue(w)
  BY DEF Init, CopyTrue, At, Idle
<1> QED
  BY <1>1, <1>2, <1>3 DEF IInv

\* A request changes only its own state: the others keep theirs.
LEMMA OthersKeep ==
  ASSUME IInv, NEW w \in Workers, NEW r, Become(w, r)
  PROVE  /\ req'[w] = r
         /\ \A v \in Workers \ {w} : req'[v] = req[v]
         /\ r \in Request => req' \in [Workers -> Request]
BY DEF IInv, TypeOK, Become

\* A transaction that ends gives back only its own locks.
LEMMA EndKeeps ==
  ASSUME IInv, NEW w \in Workers, End(w)
  PROVE  /\ req' \in [Workers -> Request] /\ req'[w] = Idle
         /\ \A v \in Workers \ {w} :
              req'[v] = req[v] /\ (profileLock = v => profileLock' = v)
         /\ userLock' \in Workers \cup {None} /\ profileLock' \in Workers \cup {None}
<1>1. Become(w, Idle) /\ ReleaseLocks(w)
  BY DEF End
<1>2. Idle \in Request
  BY DEF Request
<1>3. /\ req' \in [Workers -> Request] /\ req'[w] = Idle
      /\ \A v \in Workers \ {w} : req'[v] = req[v]
  BY <1>1, <1>2, OthersKeep
<1>4. /\ userLock' \in Workers \cup {None} /\ profileLock' \in Workers \cup {None}
      /\ \A v \in Workers \ {w} : profileLock = v => profileLock' = v
  BY <1>1 DEF ReleaseLocks, IInv, TypeOK
<1> QED
  BY <1>3, <1>4

\* Ending a transaction that has written nothing to the profile keeps the copies.
LEMMA EndCopies ==
  ASSUME IInv, NEW w \in Workers, End(w), Made, profile' = profile
  PROVE  \A v \in Workers : CopyTrue(v)'
<1> TAKE v \in Workers
<1>1. CASE v = w
  BY <1>1, EndKeeps DEF CopyTrue, At, Idle, Made
<1>2. CASE v # w
  BY <1>2, EndKeeps DEF CopyTrue, At, IInv, Made
<1> QED
  BY <1>1, <1>2

\* A transaction that may write the profile, since no other has it locked.
LEMMA EndAlone ==
  ASSUME IInv, NEW w \in Workers, End(w), Made, profileLock \in {None, w}
  PROVE  \A v \in Workers : CopyTrue(v)'
<1> TAKE v \in Workers
<1>1. CASE v = w
  BY <1>1, EndKeeps DEF CopyTrue, At, Idle, Made
<1>2. CASE v # w
  <2>1. ~At(v, "lockUser")
    BY <1>2, SubAdminAssumption DEF IInv, CopyTrue
  <2> QED
    BY <1>2, <2>1, EndKeeps DEF CopyTrue, At, Made
<1> QED
  BY <1>1, <1>2

LEMMA RollBackInv ==
  ASSUME IInv, NEW w \in Workers, End(w), UNCHANGED <<enabled, data>>
  PROVE  IInv'
<1>1. TypeOK'
  BY EndKeeps DEF IInv, TypeOK, data
<1>2. RowsAgree'
  BY DEF IInv, RowsAgree, data, AllowedBy
<1> QED
  BY <1>1, <1>2, EndCopies DEF IInv, data, Made

\* What an update may write.
LEMMA ApplyInv ==
  ASSUME IInv, NEW w \in Workers, ApplyAccess(w)
  PROVE  IInv'
<1> DEFINE p == req[w].patch
<1>1. /\ req[w] \in [pc : {"lockProfile", "lockUser"}, patch : Patches, copy : Profile]
      /\ profileLock = w /\ End(w) /\ enabled' = enabled
  BY DEF ApplyAccess, At, IInv, TypeOK, Request, Idle, CopyTrue
<1>2. p \in Patches /\ req[w].copy \in Profile
  BY <1>1
<1>3. Activation(w) \in BOOLEAN
  BY <1>2, SubAdminAssumption DEF Activation, Profile
<1>4. user' = [user EXCEPT !.active = Activation(w)]
      /\ profile' = [profile EXCEPT !.active = Activation(w)]
  BY DEF ApplyAccess
<1>5. user' \in User /\ profile' \in Profile /\ user'.active = profile'.active
  BY <1>3, <1>4, Zenon DEF IInv, TypeOK, User, Profile
<1>6. rows' \in Grants /\ allowed' \subseteq Modules
      /\ (rows' = NoRows \/ allowed' = AllowedBy(rows)')
  <2>1. CASE p.grants = None
    BY <2>1 DEF ApplyAccess, IInv, TypeOK, RowsAgree, AllowedBy
  <2>2. CASE p.grants # None
    <3>1. rows' = p.grants /\ allowed' = AllowedBy(p.grants)
      BY <2>2 DEF ApplyAccess
    <3>2. p.grants \in Grants
      BY <1>2, <2>2, SubAdminAssumption DEF Grants, Grant
    <3> QED
      BY <3>1, <3>2 DEF AllowedBy
  <2> QED
    BY <2>1, <2>2
<1>7. TypeOK'
  BY <1>1, <1>5, <1>6, EndKeeps DEF IInv, TypeOK
<1>8. Made
  BY <1>4, Zenon DEF Made, IInv, TypeOK, User
<1> QED
  BY <1>1, <1>5, <1>6, <1>7, <1>8, EndAlone DEF IInv, RowsAgree

\* A step that only moves a request on, and perhaps takes the user's lock.
LEMMA MoveInv ==
  ASSUME IInv, NEW w \in Workers, NEW r \in Request, Become(w, r),
         r.pc # "lockUser", UNCHANGED <<enabled, data, profileLock>>,
         userLock' \in Workers \cup {None}
  PROVE  IInv'
<1>1. TypeOK'
  BY OthersKeep DEF IInv, TypeOK, data
<1>2. RowsAgree'
  BY DEF IInv, RowsAgree, data, AllowedBy
<1>3. ASSUME NEW v \in Workers PROVE CopyTrue(v)'
  BY OthersKeep DEF IInv, CopyTrue, At, data
<1> QED
  BY <1>1, <1>2, <1>3 DEF IInv

LEMMA LockProfileInv ==
  ASSUME IInv, NEW w \in Workers, LockProfile(w)
  PROVE  IInv'
<1> DEFINE r == [req[w] EXCEPT !.pc = "lockUser", !.copy = profile]
<1>1. req[w] \in [pc : {"lockProfile", "lockUser"}, patch : Patches, copy : Profile]
  BY DEF LockProfile, At, IInv, TypeOK, Request, Idle
<1>2. r \in Request /\ r.pc = "lockUser" /\ r.copy = profile
  BY <1>1 DEF Request, IInv, TypeOK
<1>3. /\ profileLock = None /\ profileLock' = w /\ Become(w, r)
      /\ user.row = "there" /\ UNCHANGED <<enabled, data, userLock>>
  BY DEF LockProfile, ProfileFree, Manageable
<1>4. TypeOK'
  BY <1>2, <1>3, OthersKeep DEF IInv, TypeOK, data
<1>5. RowsAgree'
  BY <1>3 DEF IInv, RowsAgree, data, AllowedBy
<1>6. ASSUME NEW v \in Workers PROVE CopyTrue(v)'
  <2>1. CASE v = w
    BY <1>2, <1>3, <2>1, OthersKeep DEF CopyTrue, At, data
  <2>2. CASE v # w
    <3>1. ~At(v, "lockUser")
      BY <1>3, SubAdminAssumption DEF IInv, CopyTrue
    <3> QED
      BY <1>3, <2>2, <3>1, OthersKeep DEF CopyTrue, At
  <2> QED
    BY <2>1, <2>2
<1> QED
  BY <1>4, <1>5, <1>6 DEF IInv

LEMMA ToggleInv ==
  ASSUME IInv, NEW w \in Workers, Toggle(w)
  PROVE  IInv'
<1>1. /\ End(w) /\ profileLock = None /\ UNCHANGED <<enabled, rows, allowed>>
      /\ user' = [user EXCEPT !.active = Toggled]
      /\ profile' = [profile EXCEPT !.active = Toggled]
  BY DEF Toggle, ProfileFree
<1>2. Toggled \in BOOLEAN
  BY DEF Toggled
<1>3. user' \in User /\ profile' \in Profile /\ user'.active = profile'.active
  BY <1>1, <1>2, Zenon DEF IInv, TypeOK, User, Profile
<1>4. TypeOK'
  BY <1>1, <1>3, EndKeeps DEF IInv, TypeOK
<1>5. Made
  BY <1>1, Zenon DEF Made, IInv, TypeOK, User
<1> QED
  BY <1>1, <1>3, <1>4, <1>5, EndAlone DEF IInv, RowsAgree, AllowedBy

LEMMA SetRoleInv ==
  ASSUME IInv, NEW w \in Workers, SetRole(w)
  PROVE  IInv'
<1>1. /\ End(w) /\ UNCHANGED <<enabled, profile, rows, allowed>>
      /\ user' = [user EXCEPT !.role = req[w].role]
  BY DEF SetRole
<1>2. req[w].role \in {"subadmin", "sales", "student"}
  BY DEF SetRole, At, IInv, TypeOK, Request, Idle
<1>3. user' \in User /\ user'.active = user.active /\ Made
  BY <1>1, <1>2 DEF IInv, TypeOK, User, Made
<1>4. TypeOK'
  BY <1>1, <1>3, EndKeeps DEF IInv, TypeOK
<1> QED
  BY <1>1, <1>3, <1>4, EndCopies DEF IInv, RowsAgree, AllowedBy

LEMMA DeleteInv ==
  ASSUME IInv, NEW w \in Workers, Delete(w)
  PROVE  IInv'
<1>1. /\ End(w) /\ UNCHANGED <<enabled, profile>>
      /\ user' = [user EXCEPT !.row = "gone"] /\ rows' = NoRows /\ allowed' = {}
  BY DEF Delete
<1>2. user' \in User /\ user'.active = user.active /\ Made
  BY <1>1, Zenon DEF IInv, TypeOK, User, Made
<1>3. rows' \in Grants
  BY <1>1 DEF NoRows, Grants, Grant
<1>4. NoRows' = NoRows
  BY DEF NoRows
<1>5. TypeOK'
  BY <1>1, <1>2, <1>3, EndKeeps DEF IInv, TypeOK
<1> QED
  BY <1>1, <1>2, <1>4, <1>5, EndCopies DEF IInv, RowsAgree

LEMMA CreateInv ==
  ASSUME IInv, NEW w \in Workers, CreateAccount(w)
  PROVE  IInv'
<1> DEFINE p  == req[w].patch
           on == p.active \in {None, TRUE}
<1>1. /\ p \in Patches /\ p.grants # None
      /\ Become(w, Idle) /\ UNCHANGED <<enabled, locks>>
  BY DEF CreateAccount, At, IInv, TypeOK, Request, Idle
<1>2. /\ req' \in [Workers -> Request] /\ req'[w] = Idle
      /\ \A v \in Workers \ {w} : req'[v] = req[v]
  BY <1>1, OthersKeep DEF Request
<1>3. CASE user.row = "none"
  <2>1. /\ user' = [user EXCEPT !.row = "there", !.active = on]
        /\ profile' = [profile EXCEPT !.active = on]
        /\ rows' = p.grants /\ allowed' = AllowedBy(p.grants)
    BY <1>3 DEF CreateAccount
  <2>2. on \in BOOLEAN
    OBVIOUS
  <2>3. user' \in User /\ profile' \in Profile /\ user'.active = profile'.active
    BY <2>1, <2>2, Zenon DEF IInv, TypeOK, User, Profile
  <2>4. rows' \in Grants /\ allowed' \subseteq Modules /\ allowed' = AllowedBy(rows)'
    BY <1>1, <2>1, SubAdminAssumption DEF Grants, Grant, AllowedBy
  <2>5. TypeOK'
    BY <1>1, <1>2, <2>3, <2>4 DEF IInv, TypeOK, locks
  <2>6. ASSUME NEW v \in Workers PROVE CopyTrue(v)'
    <3>1. ~At(v, "lockUser")
      BY <1>3 DEF IInv, CopyTrue
    <3>2. ~At(v, "lockUser")'
      BY <1>2, <3>1 DEF At, Idle
    <3> QED
      BY <3>2 DEF CopyTrue
  <2> QED
    BY <2>3, <2>4, <2>5, <2>6 DEF IInv, RowsAgree
<1>4. CASE user.row # "none"
  <2>1. UNCHANGED data
    BY <1>4 DEF CreateAccount
  <2> QED
    BY <1>1, <2>1, MoveInv DEF Request, Idle, locks, IInv, TypeOK
<1> QED
  BY <1>3, <1>4

LEMMA NextInv == IInv /\ [Next]_vars => IInv'
<1> SUFFICES ASSUME IInv, [Next]_vars PROVE IInv'
  OBVIOUS
<1>1. ASSUME NEW w \in Workers, Serve(w) PROVE IInv'
  <2>1. CASE NotFound(w)
    BY <2>1, RollBackInv DEF NotFound
  <2>2. CASE Abort(w)
    BY <2>2, RollBackInv DEF Abort, RollBack
  <2> QED
    BY <1>1, <2>1, <2>2, LockProfileInv, ApplyInv, CreateInv, SetRoleInv,
       ToggleInv, DeleteInv
    DEF Serve
<1>2. ASSUME NEW w \in Workers, RollBack(w) PROVE IInv'
  BY <1>2, RollBackInv DEF RollBack
<1>3. ASSUME NEW w \in Workers, NEW p \in Patches, ReadPatch(w, p) PROVE IInv'
  <2>1. [pc |-> "lockProfile", patch |-> p, copy |-> profile] \in Request
    BY DEF Request, IInv, TypeOK
  <2> QED
    BY <1>3, <2>1, MoveInv DEF ReadPatch, locks, IInv, TypeOK
<1>4. ASSUME NEW w \in Workers, NEW r \in Request, r.pc # "lockUser", LockUser(w, r)
      PROVE IInv'
  BY <1>4, MoveInv DEF LockUser
<1>5. ASSUME NEW w \in Workers, StartRole(w) PROVE IInv'
  <2>1. PICK role \in {"subadmin", "sales", "student"}, joined \in BOOLEAN :
          LockUser(w, [pc |-> "role", role |-> role, joined |-> joined])
    BY <1>5 DEF StartRole
  <2>2. [pc |-> "role", role |-> role, joined |-> joined] \in Request
    BY DEF Request
  <2> QED
    BY <1>4, <2>1, <2>2
<1>6. ASSUME NEW w \in Workers, StartToggle(w) \/ StartDelete(w) PROVE IInv'
  <2>1. [pc |-> "toggle"] \in Request /\ [pc |-> "delete"] \in Request
    BY DEF Request
  <2> QED
    BY <1>4, <1>6, <2>1 DEF StartToggle, StartDelete
<1>7. ASSUME NEW m \in Modules, SwitchModule(m) PROVE IInv'
  <2>1. enabled' \subseteq Modules /\ UNCHANGED <<data, locks, req>>
    BY <1>7 DEF SwitchModule, IInv, TypeOK
  <2> QED
    BY <2>1 DEF IInv, TypeOK, RowsAgree, CopyTrue, At, AllowedBy, data, locks
<1>8. ASSUME NEW w \in Workers, NEW p \in Patches, ReadNew(w, p) PROVE IInv'
  <2>1. [pc |-> "create", patch |-> p] \in Request
    BY <1>8 DEF ReadNew, Request
  <2> QED
    BY <1>8, <2>1, MoveInv DEF ReadNew, locks, IInv, TypeOK
<1>9. CASE UNCHANGED vars
  BY <1>9 DEF vars, IInv, TypeOK, RowsAgree, CopyTrue, At, AllowedBy
<1> QED
  BY <1>1, <1>2, <1>3, <1>5, <1>6, <1>7, <1>8, <1>9 DEF Next

(***************************************************************************)
(* The theorems.                                                           *)
(***************************************************************************)

LEMMA AlwaysInv == Spec => []IInv
BY InitInv, NextInv, PTL DEF Spec

\* Every variable keeps its type: the rows and flags the handlers write stay values
\* of their columns.
THEOREM SubAdminTypeCorrect == Spec => []TypeOK
<1>1. IInv => TypeOK
  BY DEF IInv
<1> QED
  BY <1>1, AlwaysInv, PTL

\* get_module_names and has_module_access agree about every module that is on.
THEOREM ListedModulesGranted == Spec => []ListedIsGranted
<1>1. IInv => ListedIsGranted
  <2> SUFFICES ASSUME IInv PROVE Listed \cap enabled = Granted
    BY DEF ListedIsGranted
  <2> DEFINE shown == {m \in enabled : rows[m] \in Viewable}
  <2>1. enabled \subseteq Modules /\ allowed \subseteq Modules
    BY DEF IInv, TypeOK
  <2>2. CASE rows = NoRows
    <3>1. \A m \in enabled : rows[m] = "none"
      BY <2>1, <2>2 DEF NoRows
    <3>2. shown = {} /\ Listed = allowed
      BY <3>1 DEF Viewable, Listed
    <3> QED
      BY <3>1, <3>2 DEF Granted
  <2>3. CASE allowed = AllowedBy(rows)
    <3>1. \A m \in enabled : m \in allowed <=> rows[m] \in Viewable
      BY <2>1, <2>3 DEF AllowedBy
    <3>2. Listed \cap enabled = shown
      BY <3>1 DEF Listed
    <3>3. Granted = shown
      BY <3>1 DEF Granted, Viewable
    <3> QED
      BY <3>2, <3>3
  <2> QED
    BY <2>2, <2>3 DEF IInv, RowsAgree
<1> QED
  BY <1>1, AlwaysInv, PTL

\* An update that does not name is_active writes back what the locked row says.
THEOREM OmittedActivationKept == Spec => OmittedActiveKept
<1>1. ASSUME IInv, Next, NEW w \in Workers,
             At(w, "lockUser"), req[w].patch.active = None, req'[w] = Idle
      PROVE  user'.active = user.active
  <2>1. req[w] # Idle
    BY <1>1 DEF At, Idle
  <2>2. ASSUME NEW v \in Workers, v # w, NEW r, Become(v, r) PROVE FALSE
    BY <1>1, <2>1, <2>2, OthersKeep
  <2>3. ASSUME NEW v \in Workers, ApplyAccess(v) PROVE user'.active = user.active
    <3>1. v = w
      BY <2>2, <2>3 DEF ApplyAccess, End
    <3>2. Activation(w) = user.active
      BY <1>1 DEF Activation, IInv, CopyTrue, RowsAgree
    <3> QED
      BY <2>3, <3>1, <3>2 DEF ApplyAccess, IInv, TypeOK, User
  <2>4. ASSUME NEW v \in Workers, Toggle(v) PROVE FALSE
    BY <1>1, <2>2, <2>4 DEF Toggle, End, At
  <2>5. ASSUME NEW v \in Workers, SetRole(v) \/ Delete(v) PROVE user'.active = user.active
    <3>1. CASE SetRole(v)
      BY <3>1, <1>1 DEF SetRole, IInv, TypeOK, User
    <3>2. CASE Delete(v)
      BY <3>2, <1>1 DEF Delete, IInv, TypeOK, User
    <3> QED
      BY <2>5, <3>1, <3>2
  <2>6. ASSUME NEW v \in Workers, CreateAccount(v) PROVE FALSE
    BY <1>1, <2>2, <2>6 DEF CreateAccount, At
  <2> QED
    BY <1>1, <2>3, <2>4, <2>5, <2>6 DEF Next, Serve, LockProfile, NotFound, Abort, RollBack,
       ReadPatch, ReadNew, StartRole, StartToggle, StartDelete, LockUser, SwitchModule, data
<1>2. IInv /\ [Next]_vars =>
        [\A w \in Workers :
           At(w, "lockUser") /\ req[w].patch.active = None /\ req'[w] = Idle
             => user'.active = user.active]_vars
  BY <1>1
<1> QED
  BY <1>2, AlwaysInv, PTL DEF Spec, OmittedActiveKept

(***************************************************************************)
(* The locks lead somewhere, and each request takes effect at one moment.  *)
(***************************************************************************)

Changing == {"role", "toggle", "delete"}
Roles == {"subadmin", "sales", "student"}

\* A handler that locks the user first holds it to its end, and the account stays one
\* it may manage; nobody else holds a lock.
Held(w) ==
  /\ req[w].pc \in Changing <=> userLock = w
  /\ profileLock = w => At(w, "lockUser")
  /\ userLock = w => Manageable

AllHeld == \A w \in Workers : Held(w)

LEMMA InitHeld == Init => AllHeld
BY SubAdminAssumption DEF Init, AllHeld, Held, Idle, Changing

\* A step of w leaves the others what they hold.
LEMMA HeldKept ==
  ASSUME IInv, AllHeld, NEW w \in Workers, NEW r, Become(w, r),
         \A v \in Workers \ {w} : /\ userLock = v <=> userLock' = v
                                  /\ profileLock' = v => profileLock = v,
         \/ user'.row = user.row /\ user'.role = user.role
         \/ userLock = w \/ user.row = "none",
         r.pc \in Changing <=> userLock' = w,
         profileLock' = w => r.pc = "lockUser",
         userLock' = w => Manageable'
  PROVE  AllHeld'
<1>1. Held(w)'
  BY OthersKeep DEF Held, At
<1>2. ASSUME NEW v \in Workers \ {w} PROVE Held(v)'
  <2>1. req'[v] = req[v] /\ Held(v)
    BY OthersKeep DEF AllHeld
  <2>2. userLock' = v => Manageable'
    BY <2>1 DEF Held, Manageable
  <2> QED
    BY <2>1, <2>2 DEF Held, At
<1> QED
  BY <1>1, <1>2 DEF AllHeld

LEMMA EndHeld ==
  ASSUME IInv, AllHeld, NEW w \in Workers, End(w),
         \/ user'.row = user.row /\ user'.role = user.role
         \/ userLock = w \/ user.row = "none"
  PROVE  AllHeld'
<1>1. w # None
  BY SubAdminAssumption
<1>2. Become(w, Idle) /\ ReleaseLocks(w)
  BY DEF End
<1>3. /\ userLock' # w /\ profileLock' # w
      /\ \A v \in Workers \ {w} : /\ userLock = v <=> userLock' = v
                                  /\ profileLock' = v => profileLock = v
  BY <1>1, <1>2, SubAdminAssumption DEF ReleaseLocks
<1>4. Idle.pc \notin Changing
  BY DEF Idle, Changing
<1> QED
  BY <1>2, <1>3, <1>4, HeldKept

LEMMA NextHeld == IInv /\ AllHeld /\ [Next]_vars => AllHeld'
<1> SUFFICES ASSUME IInv, AllHeld, [Next]_vars PROVE AllHeld'
  OBVIOUS
<1>1. CASE UNCHANGED vars
  BY <1>1 DEF vars, AllHeld, Held, At, Manageable
<1>2. ASSUME NEW w \in Workers, NotFound(w) \/ Abort(w) \/ RollBack(w) PROVE AllHeld'
  BY <1>2, EndHeld DEF NotFound, Abort, RollBack, data
<1>3. ASSUME NEW w \in Workers, ApplyAccess(w) \/ Toggle(w) PROVE AllHeld'
  <2>1. PICK x : user' = [user EXCEPT !.active = x] /\ End(w)
    BY <1>3 DEF ApplyAccess, Toggle
  <2>2. user'.row = user.row /\ user'.role = user.role
    BY <2>1 DEF IInv, TypeOK, User
  <2> QED
    BY <2>1, <2>2, EndHeld
<1>4. ASSUME NEW w \in Workers, SetRole(w) \/ Delete(w) PROVE AllHeld'
  <2>1. userLock = w /\ End(w)
    BY <1>4 DEF SetRole, Delete, At, AllHeld, Held, Changing
  <2> QED
    BY <2>1, EndHeld
<1>5. ASSUME NEW w \in Workers, CreateAccount(w) PROVE AllHeld'
  <2>1. Become(w, Idle) /\ UNCHANGED locks /\ (UNCHANGED user \/ user.row = "none")
    BY <1>5 DEF CreateAccount, data
  <2>2. userLock # w /\ profileLock # w
    BY <1>5 DEF CreateAccount, At, AllHeld, Held, Changing
  <2>3. Idle.pc \notin Changing
    BY DEF Idle, Changing
  <2> QED
    BY <2>1, <2>2, <2>3, HeldKept DEF locks
<1>6. ASSUME NEW w \in Workers, LockProfile(w) PROVE AllHeld'
  <2>1. PICK r : r = [req[w] EXCEPT !.pc = "lockUser", !.copy = profile] /\ Become(w, r)
    BY <1>6 DEF LockProfile
  <2>2. req[w] \in [pc : {"lockProfile", "lockUser"}, patch : Patches, copy : Profile]
    BY <1>6 DEF LockProfile, At, IInv, TypeOK, Request, Idle
  <2>3. r.pc = "lockUser"
    BY <2>1, <2>2
  <2>4. userLock # w
    BY <1>6 DEF LockProfile, At, AllHeld, Held, Changing
  <2>5. profileLock' = w /\ UNCHANGED <<data, userLock>>
    BY <1>6 DEF LockProfile
  <2> QED
    BY <2>1, <2>3, <2>4, <2>5, HeldKept DEF data, Changing
<1>7. ASSUME NEW w \in Workers, NEW r, LockUser(w, r), r.pc \in Changing PROVE AllHeld'
  <2>1. /\ Become(w, r) /\ userLock' = w /\ userLock = None /\ Manageable
        /\ UNCHANGED <<user, profileLock>> /\ At(w, "idle")
    BY <1>7 DEF LockUser, UserFree, data
  <2>2. profileLock # w
    BY <2>1 DEF At, AllHeld, Held
  <2>3. Manageable'
    BY <2>1 DEF Manageable
  <2> QED
    BY <1>7, <2>1, <2>2, <2>3, SubAdminAssumption, HeldKept
<1>8. ASSUME NEW w \in Workers, StartRole(w) \/ StartToggle(w) \/ StartDelete(w) PROVE AllHeld'
  <2>1. CASE StartRole(w)
    <3>1. PICK role \in Roles, joined \in BOOLEAN :
            LockUser(w, [pc |-> "role", role |-> role, joined |-> joined])
      BY <2>1 DEF StartRole, Roles
    <3>2. [pc |-> "role", role |-> role, joined |-> joined].pc \in Changing
      BY DEF Changing
    <3> QED
      BY <1>7, <3>1, <3>2
  <2>2. [pc |-> "toggle"].pc \in Changing /\ [pc |-> "delete"].pc \in Changing
    BY DEF Changing
  <2>3. CASE StartToggle(w) \/ StartDelete(w)
    BY <1>7, <2>2, <2>3 DEF StartToggle, StartDelete
  <2> QED
    BY <1>8, <2>1, <2>3
<1>9. ASSUME NEW w \in Workers, NEW p \in Patches, ReadPatch(w, p) \/ ReadNew(w, p)
      PROVE  AllHeld'
  <2>1. PICK r : Become(w, r) /\ r.pc \in {"lockProfile", "create"}
    BY <1>9 DEF ReadPatch, ReadNew
  <2>2. At(w, "idle") /\ UNCHANGED <<user, userLock, profileLock>>
    BY <1>9 DEF ReadPatch, ReadNew, data, locks
  <2>3. userLock # w /\ profileLock # w
    BY <2>2 DEF At, AllHeld, Held, Changing
  <2> QED
    BY <2>1, <2>2, <2>3, HeldKept DEF Changing
<1>10. ASSUME NEW m \in Modules, SwitchModule(m) PROVE AllHeld'
  BY <1>10 DEF SwitchModule, data, locks, AllHeld, Held, At, Manageable
<1> QED
  BY <1>1, <1>2, <1>3, <1>4, <1>5, <1>6, <1>8, <1>9, <1>10 DEF Next, Serve

\* The next step of the request ends it, and nobody's lock is in its way.
CanEnd(w) ==
  \/ At(w, "lockUser") /\ UserFree
  \/ req[w].pc \in Changing /\ ProfileFree
  \/ At(w, "role") /\ ~req[w].joined

NoDeadEnd ==
  \A w \in Workers \cap {userLock, profileLock} :
    \/ CanEnd(w)
    \/ \E v \in Workers \cap {userLock, profileLock} :
         CanEnd(v) \/ Deadlocked(v, w) \/ Deadlocked(w, v)

\* The update locks the profile and then the user, the other views the user and then
\* the profile (_manageable_subadmin_profiles, _manageable_subadmin_users): whoever
\* holds a lock can end, or waits for one who can, or the two of them are the circle
\* that PostgreSQL breaks.  No lock is left behind by a request that is over.
THEOREM NobodyWaitsInVain == Spec => []NoDeadEnd
<1>1. IInv /\ AllHeld => NoDeadEnd
  <2> SUFFICES ASSUME IInv, AllHeld, NEW w \in Workers \cap {userLock, profileLock}
               PROVE  \/ CanEnd(w)
                      \/ \E v \in Workers \cap {userLock, profileLock} :
                           CanEnd(v) \/ Deadlocked(v, w) \/ Deadlocked(w, v)
    BY DEF NoDeadEnd
  <2>1. CASE profileLock = w
    <3>1. At(w, "lockUser")
      BY <2>1 DEF AllHeld, Held
    <3>2. CASE UserFree
      BY <3>1, <3>2 DEF CanEnd
    <3>3. CASE ~UserFree
      <4>1. PICK v \in Workers : userLock = v
        BY <3>3 DEF UserFree, IInv, TypeOK
      <4>2. req[v].pc \in Changing
        BY <4>1 DEF AllHeld, Held
      <4>3. CanEnd(v) \/ Deadlocked(w, v)
        BY <2>1, <3>1, <4>1, <4>2 DEF CanEnd, Deadlocked, At, Changing
      <4> QED
        BY <4>1, <4>3
    <3> QED
      BY <3>2, <3>3
  <2>2. CASE userLock = w
    <3>1. req[w].pc \in Changing
      BY <2>2 DEF AllHeld, Held
    <3>2. CASE ProfileFree
      BY <3>1, <3>2 DEF CanEnd
    <3>3. CASE ~ProfileFree
      <4>1. PICK v \in Workers : profileLock = v
        BY <3>3 DEF ProfileFree, IInv, TypeOK
      <4>2. At(v, "lockUser")
        BY <4>1 DEF AllHeld, Held
      <4>3. CanEnd(w) \/ Deadlocked(v, w)
        BY <2>2, <3>1, <4>1, <4>2 DEF CanEnd, Deadlocked, At, Changing
      <4> QED
        BY <4>1, <4>3
    <3> QED
      BY <3>2, <3>3
  <2> QED
    BY <2>1, <2>2
<1> QED
  BY <1>1, InitInv, NextInv, InitHeld, NextHeld, PTL DEF Spec

\* What the managers see of the rows.
Active  == user.active /\ profile.active
View    == {m \in Modules : IF rows[m] # "none" THEN rows[m] \in Viewable ELSE m \in allowed}
Edit    == {m \in Modules : rows[m] = "edit"}
Asked   == [w \in Workers |-> Demand(req[w])]

LEMMA Demands ==
  /\ Demand(Idle) = Account!Nothing
  /\ \A r : r.pc \in {"lockProfile", "lockUser"} => Demand(r) = [op |-> "update", patch |-> r.patch]
  /\ \A r : r.pc = "create" => Demand(r) = [op |-> "create", patch |-> r.patch]
  /\ \A r : r.pc = "role" => Demand(r) = [op |-> "role", role |-> r.role]
  /\ \A r : r.pc = "toggle" => Demand(r) = [op |-> "toggle"]
  /\ \A r : r.pc = "delete" => Demand(r) = [op |-> "delete"]
BY DEF Demand, Idle, Account!Nothing

LEMMA AskedMoves ==
  ASSUME IInv, NEW w \in Workers, NEW r, Become(w, r)
  PROVE  Asked' = [Asked EXCEPT ![w] = Demand(r)] /\ Asked[w] = Demand(req[w])
<1>1. /\ req'[w] = r
      /\ \A v \in Workers \ {w} : req'[v] = req[v]
  BY OthersKeep
<1> QED
  BY <1>1 DEF Asked

\* A request that begins asks.
LEMMA Asks ==
  ASSUME IInv, NEW w \in Workers, NEW r, Become(w, r), At(w, "idle"), UNCHANGED data
  PROVE  \A d : d = Demand(r) => Account!Ask(w, d)
<1> TAKE d
<1> HAVE d = Demand(r)
<1>1. req[w] = Idle
  BY DEF At, IInv, TypeOK, Request
<1>2. Asked[w] = Account!Nothing /\ Asked' = [Asked EXCEPT ![w] = d]
  BY <1>1, AskedMoves, Demands
<1>3. UNCHANGED <<user, Active, View, Edit>>
  BY DEF data, Active, View, Edit
<1> QED
  BY <1>2, <1>3 DEF Account!Ask, Asked, Active, View, Edit

\* A request that ends is answered.
LEMMA Answers ==
  ASSUME IInv, NEW w \in Workers, Become(w, Idle)
  PROVE  \A d : d = Demand(req[w]) => Account!Answered(w, d)
<1>1. Asked' = [Asked EXCEPT ![w] = Account!Nothing] /\ Asked[w] = Demand(req[w])
  BY AskedMoves, Demands
<1> QED
  BY <1>1 DEF Account!Answered, Asked

LEMMA DemandTyped ==
  ASSUME NEW r \in Request, r.pc # "idle"
  PROVE  Demand(r) \in Account!Demands
<1>1. CASE r \in [pc : {"create"}, patch : {p \in Patches : p.grants # None}]
  BY <1>1, Demands DEF Account!Demands
<1>2. CASE r \in [pc : {"lockProfile", "lockUser"}, patch : Patches, copy : Profile]
  BY <1>2, Demands DEF Account!Demands
<1>3. CASE r \in [pc : {"role"}, role : {"subadmin", "sales", "student"}, joined : BOOLEAN]
  BY <1>3, Demands DEF Account!Demands, Account!Roles
<1>4. CASE r \in [pc : {"toggle", "delete"}]
  BY <1>4, Demands DEF Account!Demands
<1> QED
  BY <1>1, <1>2, <1>3, <1>4 DEF Request, Idle

LEMMA Refuses ==
  ASSUME IInv, NEW w \in Workers, Become(w, Idle), req[w].pc # "idle", UNCHANGED data
  PROVE  Account!Refuse(w)
<1>1. PICK d \in Account!Demands : d = Demand(req[w])
  BY DemandTyped DEF IInv, TypeOK
<1>2. Account!Answered(w, d)
  BY <1>1, Answers
<1>3. UNCHANGED <<user, Active, View, Edit>>
  BY DEF data, Active, View, Edit
<1> QED
  BY <1>2, <1>3 DEF Account!Refuse, Active, View, Edit

\* What the rows grant once they have been replaced.
LEMMA Assigned ==
  ASSUME IInv, NEW g \in Grants, rows' = g, allowed' = AllowedBy(g)
  PROVE  Account!Assign(g)
<1>1. View' = {m \in Modules : g[m] \in {"view", "edit"}}
  BY DEF View, AllowedBy, Viewable, Grants, Grant
<1>2. Edit' = {m \in Modules : g[m] = "edit"}
  BY DEF Edit
<1> QED
  BY <1>1, <1>2 DEF Account!Assign, View, Edit

LEMMA Creates ==
  ASSUME IInv, NEW w \in Workers, CreateAccount(w), user.row = "none"
  PROVE  \E p \in Patches : Account!Create(w, p)
<1>1. PICK p : p = req[w].patch
  OBVIOUS
<1>2. /\ req[w] \in [pc : {"create"}, patch : {q \in Patches : q.grants # None}]
      /\ At(w, "create")
  BY DEF CreateAccount, At, IInv, TypeOK, Request, Idle
<1>3. p \in Patches /\ p.grants \in Grants
  BY <1>1, <1>2, SubAdminAssumption DEF Grants, Grant
<1> DEFINE on == p.active \in {None, TRUE}
<1>4. /\ user' = [user EXCEPT !.row = "there", !.active = on]
      /\ profile' = [profile EXCEPT !.active = on]
      /\ rows' = p.grants /\ allowed' = AllowedBy(p.grants) /\ Become(w, Idle)
  BY <1>1 DEF CreateAccount
<1>5. user'.row = "there" /\ user'.role = user.role /\ user'.active = on /\ profile'.active = on
  BY <1>4, Zenon DEF IInv, TypeOK, User, Profile
<1>6. (user.active /\ profile.active)' = on
  <2>1. on \in BOOLEAN
    OBVIOUS
  <2> HIDE DEF on
  <2> QED
    BY <1>5, <2>1, Zenon
<1>7. Account!Assign(p.grants)
  BY <1>3, <1>4, Assigned
<1>8. Demand(req[w]) = [op |-> "create", patch |-> p]
  BY <1>1, <1>2, Demands DEF At
<1>9. Account!Answered(w, [op |-> "create", patch |-> p])
  BY <1>4, <1>8, Answers
<1>10. Account!Create(w, p)
  BY <1>5, <1>6, <1>7, <1>9, Zenon DEF Account!Create
<1> QED
  BY <1>3, <1>10

LEMMA UpdatesAtOnce ==
  ASSUME IInv, NEW w \in Workers, ApplyAccess(w)
  PROVE  \E p \in Patches : Account!Update(w, p)
<1>1. PICK p : p = req[w].patch
  OBVIOUS
<1>2. /\ req[w] \in [pc : {"lockProfile", "lockUser"}, patch : Patches, copy : Profile]
      /\ req[w].copy = profile /\ At(w, "lockUser") /\ Manageable
  BY DEF ApplyAccess, At, IInv, TypeOK, Request, Idle, CopyTrue
<1>3. p \in Patches
  BY <1>1, <1>2
<1>4. Activation(w) = IF p.active = None THEN profile.active ELSE p.active
  BY <1>1, <1>2 DEF Activation
<1>5. PICK x : x = Activation(w)
  OBVIOUS
<1>6. /\ user' = [user EXCEPT !.active = x] /\ profile' = [profile EXCEPT !.active = x]
      /\ Become(w, Idle)
  BY <1>5 DEF ApplyAccess, End
<1>7. x \in BOOLEAN
  BY <1>3, <1>4, <1>5, SubAdminAssumption DEF IInv, TypeOK, Profile
<1>8. /\ user'.row = user.row /\ user'.role = user.role
      /\ user'.active = x /\ profile'.active = x
  BY <1>6, Zenon DEF IInv, TypeOK, User, Profile
<1>9. (user.active /\ profile.active)' = x
  BY <1>7, <1>8, Zenon
<1>10. profile.active \in BOOLEAN /\ user.active = profile.active
  BY DEF IInv, RowsAgree, TypeOK, Profile
<1>11. (user.active /\ profile.active) = profile.active
  BY <1>10, Zenon
<1>12. (user.active /\ profile.active)'
         = IF p.active = None THEN user.active /\ profile.active ELSE p.active
  BY <1>4, <1>5, <1>9, <1>11, Zenon
<1>13. IF p.grants = None THEN UNCHANGED <<View, Edit>> ELSE Account!Assign(p.grants)
  <2>1. CASE p.grants = None
    <3>1. UNCHANGED <<rows, allowed>>
      BY <1>1, <2>1 DEF ApplyAccess
    <3> QED
      BY <2>1, <3>1 DEF View, Edit
  <2>2. CASE p.grants # None
    <3>1. rows' = p.grants /\ allowed' = AllowedBy(p.grants)
      BY <1>1, <2>2 DEF ApplyAccess
    <3>2. p.grants \in Grants
      BY <1>3, <2>2, SubAdminAssumption DEF Grants, Grant
    <3> QED
      BY <2>2, <3>1, <3>2, Assigned
  <2> QED
    BY <2>1, <2>2
<1>14. Demand(req[w]) = [op |-> "update", patch |-> p]
  BY <1>1, <1>2, Demands DEF At
<1>15. Account!Answered(w, [op |-> "update", patch |-> p]) /\ Account!Managed
  BY <1>2, <1>6, <1>14, Answers DEF Manageable, Account!Managed
<1>16. UNCHANGED <<user.row, user.role>>
  BY <1>8
<1>17. Account!Update(w, p)
  BY <1>12, <1>13, <1>15, <1>16, Zenon DEF Account!Update, View, Edit
<1> QED
  BY <1>3, <1>17

LEMMA ChangesAtOnce ==
  ASSUME IInv, AllHeld, NEW w \in Workers
  PROVE  /\ SetRole(w) => \E new \in Roles : Account!ChangeRole(w, new)
         /\ Toggle(w) => Account!Switch(w)
         /\ Delete(w) => Account!Remove(w)
<1>1. req[w].pc \in Changing => Account!Managed
  BY DEF AllHeld, Held, Manageable, Account!Managed
<1>2. ASSUME SetRole(w) PROVE \E new \in Roles : Account!ChangeRole(w, new)
  <2>1. PICK new : new = req[w].role
    OBVIOUS
  <2>2. /\ At(w, "role") /\ Become(w, Idle) /\ UNCHANGED <<profile, rows, allowed>>
        /\ user' = [user EXCEPT !.role = new]
    BY <1>2, <2>1 DEF SetRole, End
  <2>3. new \in Roles
    BY <2>1, <2>2 DEF At, IInv, TypeOK, Request, Idle, Roles
  <2>4. user'.row = user.row /\ user'.active = user.active /\ user'.role = new
    BY <2>2 DEF IInv, TypeOK, User
  <2>5. Demand(req[w]) = [op |-> "role", role |-> new]
    BY <2>1, <2>2, Demands DEF At
  <2>6. Account!Answered(w, [op |-> "role", role |-> new])
    BY <2>2, <2>5, Answers
  <2>7. UNCHANGED <<Active, View, Edit>>
    BY <2>2, <2>4 DEF Active, View, Edit
  <2>8. Account!ChangeRole(w, new)
    BY <1>1, <2>2, <2>4, <2>6, <2>7 DEF At, Changing, Account!ChangeRole, Active, View, Edit
  <2> QED
    BY <2>3, <2>8
<1>3. ASSUME Toggle(w) PROVE Account!Switch(w)
  <2> DEFINE x == ~user.active
  <2>1. /\ At(w, "toggle") /\ Become(w, Idle) /\ UNCHANGED <<rows, allowed>>
        /\ user' = [user EXCEPT !.active = x] /\ profile' = [profile EXCEPT !.active = x]
    BY <1>3 DEF Toggle, Toggled, End
  <2>2. /\ user'.row = user.row /\ user'.role = user.role
        /\ user'.active = x /\ profile'.active = x
    BY <2>1, Zenon DEF IInv, TypeOK, User, Profile
  <2>3. (user.active /\ profile.active)' = ~(user.active /\ profile.active)
    BY <2>2, Zenon DEF IInv, RowsAgree
  <2>4. Demand(req[w]) = [op |-> "toggle"]
    BY <2>1, Demands DEF At
  <2>5. Account!Answered(w, [op |-> "toggle"]) /\ Account!Managed
    BY <1>1, <2>1, <2>4, Answers DEF At, Changing
  <2>6. UNCHANGED <<View, Edit>>
    BY <2>1 DEF View, Edit
  <2> QED
    BY <2>2, <2>3, <2>5, <2>6, Zenon DEF Account!Switch, View, Edit
<1>4. ASSUME Delete(w) PROVE Account!Remove(w)
  <2>1. /\ At(w, "delete") /\ Become(w, Idle) /\ UNCHANGED profile
        /\ user' = [user EXCEPT !.row = "gone"] /\ rows' = NoRows /\ allowed' = {}
    BY <1>4 DEF Delete, End
  <2>2. /\ user'.row = "gone" /\ user'.active = user.active
        /\ user'.role = user.role
    BY <2>1, Zenon DEF IInv, TypeOK, User
  <2>3. View' = {} /\ Edit' = {}
    BY <2>1 DEF View, Edit, NoRows
  <2>4. Demand(req[w]) = [op |-> "delete"]
    BY <2>1, Demands DEF At
  <2>5. Account!Answered(w, [op |-> "delete"]) /\ Account!Managed
    BY <1>1, <2>1, <2>4, Answers DEF At, Changing
  <2>6. Active' = Active
    BY <2>1, <2>2 DEF Active
  <2> QED
    BY <2>2, <2>3, <2>5, <2>6 DEF Account!Remove, Active, View, Edit
<1> QED
  BY <1>2, <1>3, <1>4

LEMMA AccessStarts == Init => Account!AccessInit
<1> SUFFICES ASSUME Init PROVE Account!AccessInit
  OBVIOUS
<1>1. user.row \in {"none", "there"} /\ user.role = "subadmin" /\ user.active /\ profile.active
  BY DEF Init
<1>2. Active = TRUE
  BY <1>1, InitInv DEF Active, IInv, TypeOK, User, Profile
<1>3. View \in SUBSET Modules /\ Edit = {}
  BY DEF Init, View, Edit, NoRows
<1>4. Asked = [w \in Workers |-> Account!Nothing]
  BY Demands DEF Init, Asked
<1> QED
  BY <1>1, <1>2, <1>3, <1>4 DEF Account!AccessInit, Active, View, Edit, Asked

LEMMA BeginImplements ==
  ASSUME IInv, NEW w \in Workers,
         \/ \E p \in Patches : ReadPatch(w, p) \/ ReadNew(w, p)
         \/ StartRole(w) \/ StartToggle(w) \/ StartDelete(w)
  PROVE  Account!AccessNext
<1>1. ASSUME NEW r, Become(w, r), At(w, "idle"), UNCHANGED data,
             NEW d \in Account!Demands, d = Demand(r)
      PROVE  Account!AccessNext
  <2>1. Account!Ask(w, d)
    BY <1>1, Asks
  <2> QED
    BY <2>1 DEF Account!AccessNext
<1>2. ASSUME NEW p \in Patches, ReadPatch(w, p) PROVE Account!AccessNext
  <2>1. PICK r : /\ r = [pc |-> "lockProfile", patch |-> p, copy |-> profile]
                 /\ Become(w, r) /\ At(w, "idle") /\ UNCHANGED data
    BY <1>2 DEF ReadPatch
  <2>2. Demand(r) = [op |-> "update", patch |-> p]
    BY <2>1, Demands
  <2>3. [op |-> "update", patch |-> p] \in Account!Demands
    BY DEF Account!Demands
  <2> QED
    BY <1>1, <2>1, <2>2, <2>3
<1>3. ASSUME NEW p \in Patches, ReadNew(w, p) PROVE Account!AccessNext
  <2>1. PICK r : /\ r = [pc |-> "create", patch |-> p]
                 /\ Become(w, r) /\ At(w, "idle") /\ UNCHANGED data
    BY <1>3 DEF ReadNew
  <2>2. Demand(r) = [op |-> "create", patch |-> p]
    BY <2>1, Demands
  <2>3. [op |-> "create", patch |-> p] \in Account!Demands
    BY DEF Account!Demands
  <2> QED
    BY <1>1, <2>1, <2>2, <2>3
<1>4. ASSUME StartRole(w) PROVE Account!AccessNext
  <2>1. PICK role \in Roles, joined \in BOOLEAN :
          LockUser(w, [pc |-> "role", role |-> role, joined |-> joined])
    BY <1>4 DEF StartRole, Roles
  <2>2. PICK r : r = [pc |-> "role", role |-> role, joined |-> joined]
    OBVIOUS
  <2>3. Become(w, r) /\ At(w, "idle") /\ UNCHANGED data
    BY <2>1, <2>2 DEF LockUser
  <2>4. Demand(r) = [op |-> "role", role |-> role]
    BY <2>2, Demands
  <2>5. [op |-> "role", role |-> role] \in Account!Demands
    BY DEF Account!Demands, Account!Roles, Roles
  <2> QED
    BY <1>1, <2>3, <2>4, <2>5
<1>5. ASSUME NEW op \in {"toggle", "delete"}, LockUser(w, [pc |-> op]) PROVE Account!AccessNext
  <2>1. PICK r : r = [pc |-> op]
    OBVIOUS
  <2>2. Become(w, r) /\ At(w, "idle") /\ UNCHANGED data
    BY <1>5, <2>1 DEF LockUser
  <2>3. Demand(r) = [op |-> op]
    BY <2>1, Demands
  <2>4. [op |-> op] \in Account!Demands
    BY DEF Account!Demands
  <2> QED
    BY <1>1, <2>2, <2>3, <2>4
<1> QED
  BY <1>2, <1>3, <1>4, <1>5 DEF StartToggle, StartDelete

LEMMA ServeImplements ==
  ASSUME IInv, AllHeld, NEW w \in Workers, Serve(w) \/ RollBack(w)
  PROVE  Account!AccessNext \/ UNCHANGED Account!accessVars
<1>1. CASE \/ NotFound(w) \/ Abort(w) \/ RollBack(w)
           \/ CreateAccount(w) /\ user.row # "none"
  <2>1. Become(w, Idle) /\ req[w].pc # "idle" /\ UNCHANGED data
    BY <1>1 DEF NotFound, Abort, RollBack, CreateAccount, End, At
  <2>2. Account!Refuse(w)
    BY <2>1, Refuses
  <2> QED
    BY <2>2 DEF Account!AccessNext
<1>2. CASE LockProfile(w)
  <2>1. PICK r : r = [req[w] EXCEPT !.pc = "lockUser", !.copy = profile] /\ Become(w, r)
    BY <1>2 DEF LockProfile
  <2>2. req[w] \in [pc : {"lockProfile", "lockUser"}, patch : Patches, copy : Profile]
    BY <1>2 DEF LockProfile, At, IInv, TypeOK, Request, Idle
  <2>3. r.pc = "lockUser" /\ r.patch = req[w].patch
    BY <2>1, <2>2
  <2>4. Demand(r) = Demand(req[w])
    BY <2>2, <2>3, Demands
  <2>5. Asked' = Asked
    <3>1. req'[w] = r /\ \A v \in Workers \ {w} : req'[v] = req[v]
      BY <2>1, OthersKeep
    <3>2. \A v \in Workers : Demand(req'[v]) = Demand(req[v])
      BY <2>4, <3>1
    <3> QED
      BY <3>2 DEF Asked
  <2>6. UNCHANGED <<user, Active, View, Edit>>
    BY <1>2 DEF LockProfile, data, Active, View, Edit
  <2> QED
    BY <2>5, <2>6 DEF Account!accessVars, Active, View, Edit, Asked
<1>3. CASE ApplyAccess(w)
  <2>1. \E p \in Patches : Account!Update(w, p)
    BY <1>3, UpdatesAtOnce
  <2> QED
    BY <2>1 DEF Account!AccessNext
<1>4. CASE CreateAccount(w) /\ user.row = "none"
  <2>1. \E p \in Patches : Account!Create(w, p)
    BY <1>4, Creates
  <2> QED
    BY <2>1 DEF Account!AccessNext
<1>5. CASE SetRole(w) \/ Toggle(w) \/ Delete(w)
  <2>1. \/ \E new \in Roles : Account!ChangeRole(w, new)
        \/ Account!Switch(w) \/ Account!Remove(w)
    BY <1>5, ChangesAtOnce
  <2> QED
    BY <2>1 DEF Account!AccessNext, Account!Roles, Roles
<1> QED
  BY <1>1, <1>2, <1>3, <1>4, <1>5 DEF Serve

LEMMA NextImplements ==
  ASSUME IInv, AllHeld, [Next]_vars
  PROVE  [Account!AccessNext]_(Account!accessVars)
<1>1. CASE UNCHANGED <<data, req>>
  <2>1. UNCHANGED <<user, Active, View, Edit, Asked>>
    BY <1>1 DEF data, Active, View, Edit, Asked
  <2> QED
    BY <2>1 DEF Account!accessVars, Active, View, Edit, Asked
<1>2. \/ UNCHANGED <<data, req>>
      \/ \E w \in Workers :
           \/ Serve(w) \/ RollBack(w)
           \/ \E p \in Patches : ReadPatch(w, p) \/ ReadNew(w, p)
           \/ StartRole(w) \/ StartToggle(w) \/ StartDelete(w)
  BY DEF Next, vars, data, SwitchModule
<1> QED
  BY <1>1, <1>2, BeginImplements, ServeImplements

\* ImplementsAccess: whatever the managers' views interleave at their lock waits, each
\* request takes effect as a whole at its commit, on the account as it then is, or is
\* refused; no stale copy of the activation is ever written back.
THEOREM SubAdminImplementsAccess == Spec => ImplementsAccess
<1>1. IInv /\ AllHeld /\ [Next]_vars => [Account!AccessNext]_(Account!accessVars)
  BY NextImplements
<1> QED
  BY <1>1, AccessStarts, InitInv, NextInv, InitHeld, NextHeld, PTL
     DEF Spec, ImplementsAccess, Account!AccessSpec

=============================================================================
