-------------------------------- MODULE Plan --------------------------------
(***************************************************************************)
(* The subscription plan, edited through one endpoint without an id: every *)
(* request works on "the" plan, the active one of lowest key, and the rule *)
(* that only one can exist is a query before the write.  No row is locked, *)
(* and save() is an UPDATE and, if that finds no row, an INSERT.           *)
(*                                                                         *)
(* Prices, terms and names are left out: they decide nothing here (the     *)
(* months a subscription lasts come from the settings, see Payments).      *)
(***************************************************************************)
EXTENDS Integers, FiniteSets

CONSTANTS
  Workers,      \* request threads
  MaxPlans      \* bound: plans ever inserted with a new key

ASSUME PlanAssumption == IsFiniteSet(Workers) /\ MaxPlans \in Nat

VARIABLES
  plans,      \* SubscriptionPlan rows: is_active of each
  given,      \* primary keys given so far
  req         \* per worker, the request it serves

planVars == <<plans, given, req>>

Ids == 1..MaxPlans
New == 0          \* the key of a plan not yet inserted

Idle == [pc |-> "idle"]
PlanRequest ==
  [pc : {"clean", "write"}, plan : Ids \cup {New}, status : {"active", "off"}]
    \cup [pc : {"drop"}, plan : Ids]

PlanTypeOK ==
  /\ plans \in [Ids -> {"none", "active", "off"}]
  /\ given \in 0..MaxPlans

PlanInit ==
  /\ plans = [i \in Ids |-> "none"] /\ given = 0
  /\ req = [w \in Workers |-> Idle]

At(w, pc)    == req[w].pc = pc
Become(w, r) == req' = [req EXCEPT ![w] = r]

\* Mutant: a plan that is switched off counts for the endpoint.
MutOffered == {i \in Ids : plans[i] # "none"}

Offered == {i \in Ids : plans[i] = "active"}

\* get_object: the first active plan.
Current == CHOOSE i \in Offered : \A j \in Offered : i <= j

\* Mutant: the rule looks at active plans only.
MutNoOther(id) == \A i \in Ids \ {id} : plans[i] # "active"

\* The look for another plan, of validate() and again of clean().
NoOther(id) == \A i \in Ids \ {id} : plans[i] = "none"

\* Creations under way (bound).
Creating == {w \in Workers : req[w].pc \in {"clean", "write"} /\ req[w].plan = New}

StartPost(w, status) ==
  /\ At(w, "idle") /\ NoOther(New) /\ given + Cardinality(Creating) < MaxPlans
  /\ Become(w, [pc |-> "clean", plan |-> New, status |-> status])
  /\ UNCHANGED <<plans, given>>

\* PUT and PATCH; without an active plan: 404.
StartPut(w, status) ==
  /\ At(w, "idle") /\ Offered # {}
  /\ Become(w, [pc |-> "clean", plan |-> Current, status |-> status])
  /\ UNCHANGED <<plans, given>>

\* save() cleans the row first; its refusal is Django's, which no view turns into a
\* 400: the request fails.
CleanPlan(w) ==
  /\ At(w, "clean")
  /\ Become(w, IF NoOther(req[w].plan) THEN [req[w] EXCEPT !.pc = "write"] ELSE Idle)
  /\ UNCHANGED <<plans, given>>

\* A plan deleted meanwhile comes back under its old key.
WritePlan(w) ==
  LET new == req[w].plan = New
      id  == IF new THEN given + 1 ELSE req[w].plan
  IN
  /\ At(w, "write")
  /\ plans' = [plans EXCEPT ![id] = req[w].status]
  /\ given' = IF new THEN id ELSE given
  /\ Become(w, Idle)

StartDrop(w) ==
  /\ At(w, "idle") /\ Offered # {}
  /\ Become(w, [pc |-> "drop", plan |-> Current])
  /\ UNCHANGED <<plans, given>>

DropPlan(w) ==
  /\ At(w, "drop") /\ plans' = [plans EXCEPT ![req[w].plan] = "none"]
  /\ Become(w, Idle) /\ UNCHANGED given

PlanStep(w) ==
  \/ \E status \in {"active", "off"} : StartPost(w, status) \/ StartPut(w, status)
  \/ CleanPlan(w) \/ WritePlan(w) \/ StartDrop(w) \/ DropPlan(w)

(***************************************************************************)
(* Properties.                                                             *)
(***************************************************************************)

\* "Only one subscription plan can exist": there are never more than requests run
\* at once, however creations, updates and deletions interleave, since whoever
\* writes has seen no other plan.
PlansBounded ==
  Cardinality({i \in Ids : plans[i] # "none"}) <= Cardinality(Workers)

\* The plan exists and is switched off, and no request on it is under way.
SwitchedOff ==
  /\ \E i \in Ids : plans[i] = "off"
  /\ \A i \in Ids : plans[i] # "active"
  /\ \A w \in Workers : req[w].pc \notin {"clean", "write", "drop"}

\* A plan PATCHed to is_active = false is out of the endpoint's reach for good: there
\* it can be neither switched on, nor deleted, nor replaced, and no order is priced
\* from it.  (Django's own admin, where the plan is registered, is not modelled: it
\* is the one way back.)
SwitchedOffForGood == [][SwitchedOff => SwitchedOff']_planVars

=============================================================================
