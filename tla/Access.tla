------------------------------- MODULE Access -------------------------------
(***************************************************************************)
(* What the managers of a sub-admin account may rely on.  Each of them     *)
(* asks for one thing at a time, and what he asks for takes effect at one  *)
(* moment, as a whole, and on what the account is at that moment, or it is *)
(* refused and changes nothing.  In particular a setting that an update    *)
(* does not name stays what the last request before it made it.            *)
(*                                                                         *)
(* This is the abstract counterpart of CreateSubAdminView and of the four  *)
(* views that manage an account, which lock its rows one after the other   *)
(* and in different orders, and keep the activation in two rows and the    *)
(* modules in two tables; module SubAdmin implements it.                   *)
(***************************************************************************)

CONSTANTS Managers,
          Rights,    \* the modules an account may be let into
          Updates,   \* what an update may name: grants and active, or Omitted
          Omitted

VARIABLES account,   \* not yet there, there, or gone
          role,
          active,    \* whether it may be used at all
          view,      \* the modules it may look into
          edit,      \* the modules it may change
          asked      \* asked[w]: what manager w has asked for

accessVars == <<account, role, active, view, edit, asked>>

Nothing == [op |-> "nothing"]
Roles   == {"subadmin", "sales", "student"}
Demands == [op : {"create", "update"}, patch : Updates]
             \cup [op : {"role"}, role : Roles] \cup [op : {"toggle", "delete"}]

AccessInit ==
  /\ account \in {"none", "there"} /\ role = "subadmin" /\ active = TRUE
  /\ view \in SUBSET Rights /\ edit = {}
  /\ asked = [w \in Managers |-> Nothing]

Ask(w, r) ==
  /\ asked[w] = Nothing
  /\ asked' = [asked EXCEPT ![w] = r]
  /\ UNCHANGED <<account, role, active, view, edit>>

Answered(w, r) == asked[w] = r /\ asked' = [asked EXCEPT ![w] = Nothing]

Refuse(w) ==
  /\ \E r \in Demands : Answered(w, r)
  /\ UNCHANGED <<account, role, active, view, edit>>

Managed == account = "there" /\ role = "subadmin"

\* The modules are set to what the grants say.
Assign(grants) ==
  /\ view' = {m \in Rights : grants[m] \in {"view", "edit"}}
  /\ edit' = {m \in Rights : grants[m] = "edit"}

Create(w, p) ==
  /\ Answered(w, [op |-> "create", patch |-> p]) /\ account = "none"
  /\ account' = "there" /\ active' = (p.active \in {Omitted, TRUE})
  /\ Assign(p.grants)
  /\ UNCHANGED role

Update(w, p) ==
  /\ Answered(w, [op |-> "update", patch |-> p]) /\ Managed
  /\ active' = IF p.active = Omitted THEN active ELSE p.active
  /\ IF p.grants = Omitted THEN UNCHANGED <<view, edit>> ELSE Assign(p.grants)
  /\ UNCHANGED <<account, role>>

ChangeRole(w, new) ==
  /\ Answered(w, [op |-> "role", role |-> new]) /\ Managed
  /\ role' = new
  /\ UNCHANGED <<account, active, view, edit>>

Switch(w) ==
  /\ Answered(w, [op |-> "toggle"]) /\ Managed
  /\ active' = ~active
  /\ UNCHANGED <<account, role, view, edit>>

Remove(w) ==
  /\ Answered(w, [op |-> "delete"]) /\ Managed
  /\ account' = "gone" /\ view' = {} /\ edit' = {}
  /\ UNCHANGED <<role, active>>

AccessNext ==
  \E w \in Managers :
    \/ \E r \in Demands : Ask(w, r)
    \/ Refuse(w)
    \/ \E p \in Updates : Create(w, p) \/ Update(w, p)
    \/ \E new \in Roles : ChangeRole(w, new)
    \/ Switch(w) \/ Remove(w)

AccessSpec == AccessInit /\ [][AccessNext]_accessVars
=============================================================================
