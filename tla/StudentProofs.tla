---------------------------- MODULE StudentProofs ----------------------------
(***************************************************************************)
(* Theorems about Student and Plan, for any number of workers, plans and   *)
(* edits.                                                                  *)
(***************************************************************************)
EXTENDS Student, FiniteSetTheorems, WellFoundedInduction, TLAPS

LEMMA Constants == IsFiniteSet(Workers) /\ MaxPlans \in Nat /\ MaxSaves \in Nat
BY PlanAssumption, StudentAssumption DEF PlanAssumption, StudentAssumption

(***************************************************************************)
(* Types.                                                                  *)
(***************************************************************************)

Edit == [pc : {"save", "read", "decide"}, part : Parts, value : Filled,
         copy : BOOLEAN, seen : [Parts -> {"unread", "absent"} \cup Filled]]
Creation == [pc : {"create"}, part : Parts, value : Filled]
PlanWrite == [pc : {"clean", "write"}, plan : Ids \cup {New}, status : {"active", "off"}]
PlanDrop == [pc : {"drop"}, plan : Ids]

\* What a request is can be told from where it stands.
LEMMA Kinds ==
  ASSUME TypeOK, NEW w \in Workers
  PROVE  /\ At(w, "save") \/ At(w, "read") \/ At(w, "decide") => req[w] \in Edit
         /\ At(w, "create") => req[w] \in Creation
         /\ At(w, "clean") \/ At(w, "write") => req[w] \in PlanWrite
         /\ At(w, "drop") => req[w] \in PlanDrop
<1>1. req[w] \in Request
  BY DEF TypeOK
<1> QED
  BY <1>1 DEF Request, PlanRequest, Idle, At, Edit, Creation, PlanWrite, PlanDrop

\* A step of one request leaves the others where they are.
LEMMA OthersStay ==
  ASSUME TypeOK, NEW w \in Workers, NEW r, Become(w, r)
  PROVE  /\ req'[w] = r
         /\ \A v \in Workers \ {w} : req'[v] = req[v]
         /\ r \in Request => req' \in [Workers -> Request]
BY DEF TypeOK, Become

\* What a request may become.
LEMMA EditMoves ==
  ASSUME NEW r \in Edit, NEW p \in Parts, NEW v \in {"absent"} \cup Filled,
         NEW pc \in {"read", "decide"}
  PROVE  [r EXCEPT !.pc = pc, !.seen[p] = v] \in Edit
BY DEF Edit

\* Each creation under way finds its key.
Room == given + Cardinality(Creating) <= MaxPlans

Creates(r) == r.pc \in {"clean", "write"} /\ r.plan = New

LEMMA CreatingFinite == IsFiniteSet(Creating) /\ Cardinality(Creating) \in Nat
<1>1. Creating \in SUBSET Workers
  BY DEF Creating
<1> QED
  BY <1>1, Constants, FS_Subset, FS_CardinalityType

\* A step that inserts no plan and starts no creation.
LEMMA RoomStays ==
  ASSUME TypeOK, Room, NEW w \in Workers, NEW r, Become(w, r), given' = given,
         Creates(r) => Creates(req[w])
  PROVE  Room'
<1>1. Creating' \in SUBSET Creating
  BY OthersStay DEF Creating, Creates
<1>2. Cardinality(Creating') <= Cardinality(Creating) /\ Cardinality(Creating') \in Nat
  BY <1>1, CreatingFinite, FS_Subset, FS_CardinalityType
<1>3. Creating' = (Creating)'
  OBVIOUS
<1> QED
  BY <1>2, CreatingFinite, Constants DEF Room, TypeOK, PlanTypeOK

LEMMA RoomForPost ==
  ASSUME TypeOK, Room, NEW w \in Workers, NEW status \in {"active", "off"},
         StartPost(w, status)
  PROVE  Room'
<1>1. Creating' \in SUBSET (Creating \cup {w})
  BY OthersStay DEF StartPost, Creating
<1>2. /\ IsFiniteSet(Creating \cup {w})
      /\ Cardinality(Creating \cup {w}) <= Cardinality(Creating) + 1
      /\ Cardinality(Creating \cup {w}) \in Nat
  BY CreatingFinite, FS_AddElement, FS_CardinalityType
<1>3. Cardinality(Creating') <= Cardinality(Creating) + 1 /\ Cardinality(Creating') \in Nat
  BY <1>1, <1>2, CreatingFinite, FS_Subset, FS_CardinalityType
<1>4. given + Cardinality(Creating) < MaxPlans /\ given' = given
  BY DEF StartPost
<1> QED
  BY <1>3, <1>4, CreatingFinite, Constants DEF Room, TypeOK, PlanTypeOK

LEMMA RoomForWrite ==
  ASSUME TypeOK, Room, NEW w \in Workers, WritePlan(w)
  PROVE  /\ Room' /\ given' \in 0..MaxPlans
         /\ plans' \in [Ids -> {"none", "active", "off"}]
<1>1. req[w] \in PlanWrite /\ Become(w, Idle)
  BY Kinds DEF WritePlan
<1>2. CASE req[w].plan = New
  <2>1. w \in Creating
    BY <1>2 DEF WritePlan, At, Creating
  <2>2. Creating' \in SUBSET (Creating \ {w})
    BY <1>1, OthersStay DEF Creating, Idle
  <2>3. /\ IsFiniteSet(Creating \ {w})
        /\ Cardinality(Creating \ {w}) = Cardinality(Creating) - 1
    BY <2>1, CreatingFinite, FS_RemoveElement
  <2>4. /\ Cardinality(Creating') <= Cardinality(Creating) - 1
        /\ Cardinality(Creating') \in Nat
    BY <2>2, <2>3, FS_Subset, FS_CardinalityType
  <2>5. given' = given + 1 /\ plans' = [plans EXCEPT ![given + 1] = req[w].status]
    BY <1>2 DEF WritePlan
  <2>6. Room' /\ given' \in 0..MaxPlans
    BY <2>4, <2>5, CreatingFinite, Constants DEF Room, TypeOK, PlanTypeOK
  <2> QED
    BY <1>1, <2>5, <2>6 DEF TypeOK, PlanTypeOK, PlanWrite
<1>3. CASE req[w].plan # New
  <2>1. given' = given /\ plans' = [plans EXCEPT ![req[w].plan] = req[w].status]
    BY <1>3 DEF WritePlan
  <2>2. Room'
    BY <1>1, <2>1, RoomStays DEF Creates, Idle
  <2> QED
    BY <1>1, <1>3, <2>1, <2>2 DEF TypeOK, PlanTypeOK, PlanWrite
<1> QED
  BY <1>2, <1>3

Typed == TypeOK /\ Room

\* The plan the endpoint works on is one.
LEMMA CurrentIsOffered == Offered # {} => Current \in Offered
<1> SUFFICES ASSUME Offered # {} PROVE Current \in Offered
  OBVIOUS
<1>1. Offered \subseteq Nat
  BY DEF Offered, Ids
<1> DEFINE Less == {ss \in Nat \X Nat : ss[1] < ss[2]}
<1>2. OpToRel(<, Nat) = Less
  BY DEF OpToRel
<1>3. IsWellFoundedOn(Less, Nat)
  BY <1>2, NatLessThanWellFounded, Zenon
<1>4. PICK i \in Offered : \A j \in Offered : ~ (<<j, i>> \in Less)
  <2> HIDE DEF Less
  <2> QED
    BY <1>1, <1>3, WFMin
<1>5. ASSUME NEW j \in Offered PROVE i <= j
  <2>1. <<j, i>> \in Nat \X Nat /\ <<j, i>>[1] = j /\ <<j, i>>[2] = i
    BY <1>1
  <2>2. ~ (j < i)
    BY <1>4, <2>1, Zenon
  <2> QED
    BY <1>1, <2>2
<1> QED
  BY <1>5 DEF Current

LEMMA InitTyped == Init => Typed
<1> SUFFICES ASSUME Init PROVE Typed
  OBVIOUS
<1>1. TypeOK
  <2>1. given \in 0..MaxPlans /\ saves \in 0..MaxSaves /\ orphans \in Nat
    BY Constants DEF Init, PlanInit
  <2>2. plans \in [Ids -> {"none", "active", "off"}] /\ req \in [Workers -> Request]
    BY DEF Init, PlanInit, Request
  <2>3. completed \in BOOLEAN
    BY DEF Init
  <2>4. everFull \subseteq Parts
    BY DEF Init
  <2> QED
    BY <2>1, <2>2, <2>3, <2>4 DEF Init, TypeOK, PlanTypeOK
<1>2. Creating = {}
  BY DEF Init, PlanInit, Creating, Idle
<1> QED
  BY <1>1, <1>2, Constants, FS_EmptySet DEF Typed, Room, Init, PlanInit

\* A step of the plan's endpoint.
LEMMA PlanTyped ==
  ASSUME Typed, NEW w \in Workers, PlanStep(w), UNCHANGED profile
  PROVE  Typed'
<1> USE DEF Typed
<1>1. ASSUME NEW r \in Request, Become(w, r), UNCHANGED given, Creates(r) => Creates(req[w]),
             plans' \in [Ids -> {"none", "active", "off"}]
      PROVE  Typed'
  BY <1>1, OthersStay, RoomStays DEF TypeOK, PlanTypeOK, profile
<1>2. ASSUME NEW status \in {"active", "off"}, StartPost(w, status) PROVE Typed'
  <2>1. [pc |-> "clean", plan |-> New, status |-> status] \in Request
    BY DEF Request, PlanRequest
  <2> QED
    BY <1>2, <2>1, OthersStay, RoomForPost DEF StartPost, TypeOK, PlanTypeOK, profile
<1>3. ASSUME NEW status \in {"active", "off"}, StartPut(w, status) PROVE Typed'
  <2>1. Current \in Ids /\ Current # New
    BY <1>3, CurrentIsOffered DEF StartPut, Offered, Ids, New
  <2>2. [pc |-> "clean", plan |-> Current, status |-> status] \in Request
    BY <2>1 DEF Request, PlanRequest
  <2> QED
    BY <1>1, <1>3, <2>1, <2>2 DEF StartPut, Creates, TypeOK, PlanTypeOK
<1>4. ASSUME CleanPlan(w) PROVE Typed'
  <2>1. req[w] \in PlanWrite
    BY <1>4, Kinds DEF CleanPlan
  <2>2. PICK r : /\ r = IF NoOther(req[w].plan) THEN [req[w] EXCEPT !.pc = "write"] ELSE Idle
                 /\ Become(w, r)
    BY <1>4 DEF CleanPlan
  <2>3. r \in Request /\ (Creates(r) => Creates(req[w]))
    BY <1>4, <2>1, <2>2 DEF PlanWrite, Request, PlanRequest, Creates, Idle, CleanPlan, At
  <2> QED
    BY <1>1, <1>4, <2>2, <2>3 DEF CleanPlan, TypeOK, PlanTypeOK
<1>5. ASSUME WritePlan(w) PROVE Typed'
  <2>1. Idle \in Request
    BY DEF Request
  <2> QED
    BY <1>5, <2>1, OthersStay, RoomForWrite DEF WritePlan, TypeOK, PlanTypeOK, profile
<1>6. ASSUME StartDrop(w) PROVE Typed'
  <2>1. Current \in Ids
    BY <1>6, CurrentIsOffered DEF StartDrop, Offered
  <2>2. [pc |-> "drop", plan |-> Current] \in Request
    BY <2>1 DEF Request, PlanRequest
  <2> QED
    BY <1>1, <1>6, <2>2 DEF StartDrop, Creates, TypeOK, PlanTypeOK
<1>7. ASSUME DropPlan(w) PROVE Typed'
  <2>1. Idle \in Request /\ ~Creates(Idle)
    BY DEF Request, Creates, Idle
  <2> QED
    BY <1>1, <1>7, <2>1 DEF DropPlan, TypeOK, PlanTypeOK
<1> QED
  BY <1>2, <1>3, <1>4, <1>5, <1>6, <1>7 DEF PlanStep

\* What a request on the plan becomes.
LEMMA PlanMoves ==
  ASSUME Typed, NEW w \in Workers, PlanStep(w)
  PROVE  \E r : Become(w, r) /\ (r = Idle \/ r.pc \in {"clean", "write", "drop"})
<1>1. CASE CleanPlan(w)
  <2>1. req[w] \in PlanWrite
    BY <1>1, Kinds DEF CleanPlan, Typed
  <2> QED
    BY <1>1, <2>1 DEF CleanPlan, PlanWrite
<1>2. CASE WritePlan(w) \/ DropPlan(w)
  BY <1>2 DEF WritePlan, DropPlan
<1> DEFINE Starts(r) == Become(w, r) /\ r.pc \in {"clean", "drop"}
<1>3. ASSUME NEW status \in {"active", "off"}, StartPost(w, status) PROVE \E r : Starts(r)
  BY <1>3 DEF StartPost
<1>4. ASSUME NEW status \in {"active", "off"}, StartPut(w, status) PROVE \E r : Starts(r)
  BY <1>4 DEF StartPut
<1>5. ASSUME StartDrop(w) PROVE \E r : Starts(r)
  BY <1>5 DEF StartDrop
<1> QED
  BY <1>1, <1>2, <1>3, <1>4, <1>5 DEF PlanStep

\* A step of the student, whose request becomes r.
LEMMA ProfileTyped ==
  ASSUME Typed, NEW w \in Workers, NEW r \in Request, Become(w, r), ~Creates(r),
         UNCHANGED <<plans, given>>,
         row' \in [Parts -> {"absent"} \cup Filled],
         completed' \in BOOLEAN, ordered' \in BOOLEAN, orphans' \in Nat,
         everFull' \subseteq Parts,
         alone' \in BOOLEAN, quiet' \in BOOLEAN, created' \in BOOLEAN,
         saves' \in 0..MaxSaves
  PROVE  Typed'
BY OthersStay, RoomStays DEF Typed, TypeOK, PlanTypeOK

LEMMA BeginTyped ==
  ASSUME Typed, NEW w \in Workers, Begin(w)
  PROVE  alone' \in BOOLEAN /\ quiet' \in BOOLEAN /\ saves' \in 0..MaxSaves
BY Constants DEF Typed, TypeOK, Begin

LEMMA WrittenTyped ==
  ASSUME Typed, NEW p \in Parts, NEW value \in Filled, Written(p, value)
  PROVE  row' \in [Parts -> {"absent"} \cup Filled] /\ everFull' \subseteq Parts
BY DEF Typed, TypeOK, Written

\* A step of an edit in progress keeps its other fields.
LEMMA StepsTyped ==
  ASSUME Typed, NEW w \in Workers, NEW p \in Parts,
         SaveRow(w) \/ UpdateFlag(w) \/ CreateRow(w) \/ ReadRow(w, p)
  PROVE  Typed'
<1> USE DEF Typed
<1>1. Idle \in Request /\ ~Creates(Idle)
  BY DEF Request, Creates, Idle
<1>2. CASE SaveRow(w)
  <2>1. req[w] \in Edit
    BY <1>2, Kinds DEF SaveRow
  <2> DEFINE r == [req[w] EXCEPT !.pc = "read", !.seen[req[w].part] = req[w].value]
  <2>2. req[w].part \in Parts /\ req[w].value \in Filled
    BY <2>1 DEF Edit
  <2>3. r \in Edit
    BY <2>1, <2>2, EditMoves
  <2>4. r \in Request /\ ~Creates(r) /\ Become(w, r)
    BY <1>2, <2>3 DEF SaveRow, Edit, Request, Creates
  <2> QED
    BY <1>2, <2>2, <2>4, ProfileTyped, WrittenTyped DEF SaveRow, TypeOK
<1>3. CASE ReadRow(w, p)
  <2>1. req[w] \in Edit
    BY <1>3, Kinds DEF ReadRow
  <2>2. PICK pc, r : /\ pc \in {"read", "decide"}
                    /\ r = [req[w] EXCEPT !.pc = pc, !.seen[p] = row[p]]
                    /\ Become(w, r)
    BY <1>3, <2>1 DEF ReadRow, Edit, Become
  <2>3. r \in Edit
    BY <2>1, <2>2, EditMoves DEF TypeOK
  <2>4. r \in Request /\ ~Creates(r)
    BY <2>3 DEF Edit, Request, Creates
  <2> QED
    BY <1>3, <2>2, <2>4, ProfileTyped DEF ReadRow, TypeOK, profile
<1>4. CASE UpdateFlag(w)
  BY <1>1, <1>4, ProfileTyped DEF UpdateFlag, TypeOK, Complete
<1>5. CASE CreateRow(w)
  <2>1. req[w] \in Creation
    BY <1>5, Kinds DEF CreateRow
  <2> QED
    BY <1>1, <1>5, <2>1, ProfileTyped, WrittenTyped DEF CreateRow, TypeOK, Creation
<1> QED
  BY <1>2, <1>3, <1>4, <1>5

\* An edit in progress goes on to read and to decide.
LEMMA EditSteps ==
  ASSUME Typed, NEW w \in Workers, NEW p \in Parts, SaveRow(w) \/ ReadRow(w, p)
  PROVE  \E r : Become(w, r) /\ r.pc \in {"read", "decide"}
<1>1. req[w] \in Edit
  BY Kinds DEF SaveRow, ReadRow, Typed
<1>2. CASE SaveRow(w)
  <2>1. PICK r : r = [req[w] EXCEPT !.pc = "read", !.seen[req[w].part] = req[w].value]
          /\ Become(w, r)
    BY <1>2 DEF SaveRow
  <2>2. r.pc = "read"
    BY <1>1, <2>1 DEF Edit
  <2> QED
    BY <2>1, <2>2
<1>3. CASE ReadRow(w, p)
  <2>1. PICK pc, r : /\ pc \in {"read", "decide"}
                    /\ r = [req[w] EXCEPT !.pc = pc, !.seen[p] = row[p]]
                    /\ Become(w, r)
    BY <1>1, <1>3 DEF ReadRow, Edit, Become
  <2>2. r.pc = pc
    BY <1>1, <2>1 DEF Edit
  <2> QED
    BY <2>1, <2>2
<1> QED
  BY <1>2, <1>3

\* A step that starts a request of the student, or ends one outside the profile.
LEMMA StartsTyped ==
  ASSUME Typed, NEW w \in Workers, NEW p \in Parts, NEW value \in Filled,
         \/ StartEdit(w, p, value) \/ StartCreate(w, p, value)
         \/ StartPersonal(w) \/ InsertPersonal(w)
         \/ StartOrder(w) \/ RefuseOrder(w) \/ PlaceOrder(w)
  PROVE  Typed'
<1> USE DEF Typed
<1>1. Idle \in Request /\ ~Creates(Idle)
  BY DEF Request, Creates, Idle
<1>2. CASE StartEdit(w, p, value)
  <2>1. PICK r : /\ r = [pc |-> "save", part |-> p, value |-> value, copy |-> completed,
                         seen |-> Unread]
                 /\ Become(w, r)
    BY <1>2 DEF StartEdit
  <2>2. r \in Request /\ ~Creates(r)
    BY <2>1 DEF Request, Creates, Unread, TypeOK
  <2> QED
    BY <1>2, <2>1, <2>2, ProfileTyped, BeginTyped DEF StartEdit, TypeOK
<1>3. CASE StartCreate(w, p, value)
  <2>1. PICK r : r = [pc |-> "create", part |-> p, value |-> value] /\ Become(w, r)
    BY <1>3 DEF StartCreate
  <2>2. r \in Request /\ ~Creates(r)
    BY <2>1 DEF Request, Creates
  <2> QED
    BY <1>3, <2>1, <2>2, ProfileTyped, BeginTyped DEF StartCreate, TypeOK
<1>4. CASE StartPersonal(w)
  <2>1. [pc |-> "personal"] \in Request /\ ~Creates([pc |-> "personal"])
    BY DEF Request, Creates
  <2> QED
    BY <1>4, <2>1, ProfileTyped DEF StartPersonal, TypeOK, profile
<1>5. CASE StartOrder(w)
  <2>1. [pc |-> "order"] \in Request /\ ~Creates([pc |-> "order"])
    BY DEF Request, Creates
  <2> QED
    BY <1>5, <2>1, ProfileTyped DEF StartOrder, TypeOK, profile
<1>6. CASE InsertPersonal(w)
  BY <1>1, <1>6, ProfileTyped DEF InsertPersonal, TypeOK
<1>7. CASE PlaceOrder(w)
  BY <1>1, <1>7, ProfileTyped DEF PlaceOrder, TypeOK
<1>8. CASE RefuseOrder(w)
  BY <1>8 DEF RefuseOrder, vars, planVars, profile, TypeOK, PlanTypeOK, Room, Creating
<1> QED
  BY <1>2, <1>3, <1>4, <1>5, <1>6, <1>7, <1>8

LEMMA NextTyped == Typed /\ [Next]_vars => Typed'
<1> SUFFICES ASSUME Typed, [Next]_vars PROVE Typed'
  OBVIOUS
<1>1. CASE UNCHANGED vars
  BY <1>1 DEF vars, planVars, profile, Typed, TypeOK, PlanTypeOK, Room, Creating
<1>2. "personal" \in Parts /\ "full" \in Filled
  BY DEF Parts, Filled
<1> QED
  BY <1>1, <1>2, PlanTyped, StepsTyped, StartsTyped DEF Next

\* Every variable keeps to its type: rows, flag and plans hold what the tables and
\* serializers allow, and no creation runs out of keys.
THEOREM StudentTypeCorrect == Spec => []TypeOK
<1>1. Typed => TypeOK
  BY DEF Typed
<1> QED
  BY <1>1, InitTyped, NextTyped, PTL DEF Spec

(***************************************************************************)
(* The flag is earned.                                                     *)
(***************************************************************************)

Reading == {"save", "read", "decide"}

\* Whoever has ever seen a complete row is right that there was one.
Earned ==
  /\ \A p \in Parts : row[p] = "full" => p \in everFull
  /\ \A w \in Workers : req[w].pc \in Reading =>
       \A p \in Parts : req[w].seen[p] = "full" => p \in everFull
  /\ \A w \in Workers : At(w, "order") => everFull = Parts
  /\ completed \/ ordered => everFull = Parts

LEMMA EarnedFrame ==
  ASSUME Typed, Typed', Earned, NEW w \in Workers, NEW r, Become(w, r),
         everFull \subseteq everFull',
         \A p \in Parts : row'[p] = "full" => p \in everFull',
         r.pc \in Reading => \A p \in Parts : r.seen[p] = "full" => p \in everFull',
         r.pc = "order" => everFull' = Parts,
         completed' \/ ordered' => completed \/ ordered \/ everFull' = Parts
  PROVE  Earned'
<1>1. everFull' \subseteq Parts
  BY DEF Typed, TypeOK
<1>2. everFull = Parts => everFull' = Parts
  BY <1>1
<1>3. req'[w] = r /\ \A v \in Workers \ {w} : req'[v] = req[v]
  BY OthersStay DEF Typed
<1>4. \A v \in Workers : req'[v].pc \in Reading =>
        \A p \in Parts : req'[v].seen[p] = "full" => p \in everFull'
  BY <1>3 DEF Earned
<1>5. \A v \in Workers : req'[v].pc = "order" => everFull' = Parts
  BY <1>2, <1>3 DEF Earned, At
<1>6. completed' \/ ordered' => everFull' = Parts
  BY <1>2 DEF Earned
<1> QED
  BY <1>4, <1>5, <1>6 DEF Earned, At

LEMMA InitEarned == Init => Earned
<1> SUFFICES ASSUME Init PROVE Earned
  OBVIOUS
<1>1. completed \/ ordered => everFull = Parts
  BY DEF Init
<1> QED
  BY <1>1 DEF Init, PlanInit, Idle, Earned, At, Reading

LEMMA WrittenEarned ==
  ASSUME Typed, Earned, NEW p \in Parts, NEW value \in Filled, Written(p, value)
  PROVE  /\ everFull \subseteq everFull'
         /\ \A q \in Parts : row'[q] = "full" => q \in everFull'
         /\ value = "full" => p \in everFull'
BY DEF Typed, TypeOK, Earned, Written

LEMMA NextEarned == Typed /\ Typed' /\ Earned /\ [Next]_vars => Earned'
<1> SUFFICES ASSUME Typed, Typed', Earned, [Next]_vars PROVE Earned'
  OBVIOUS
<1> USE DEF Reading
<1>1. CASE UNCHANGED vars
  BY <1>1 DEF vars, planVars, profile, Earned, At
<1>2. ASSUME NEW w \in Workers, NEW p \in Parts, NEW value \in Filled, StartEdit(w, p, value)
      PROVE  Earned'
  <2>1. PICK r : /\ r = [pc |-> "save", part |-> p, value |-> value, copy |-> completed,
                         seen |-> Unread]
                 /\ Become(w, r)
    BY <1>2 DEF StartEdit
  <2> QED
    BY <1>2, <2>1, EarnedFrame DEF StartEdit, Unread, Earned
<1>3. ASSUME NEW w \in Workers, NEW p \in Parts, NEW value \in Filled,
             StartCreate(w, p, value)
      PROVE  Earned'
  <2>1. PICK r : r = [pc |-> "create", part |-> p, value |-> value] /\ Become(w, r)
    BY <1>3 DEF StartCreate
  <2> QED
    BY <1>3, <2>1, EarnedFrame DEF StartCreate, Earned
<1>4. ASSUME NEW w \in Workers, NEW p \in Parts, ReadRow(w, p) PROVE Earned'
  <2>1. req[w] \in Edit
    BY <1>4, Kinds DEF ReadRow, Typed
  <2>2. PICK pc, r : /\ pc \in {"read", "decide"}
                    /\ r = [req[w] EXCEPT !.pc = pc, !.seen[p] = row[p]]
                    /\ Become(w, r)
    BY <1>4, <2>1 DEF ReadRow, Edit, Become
  <2>3. \A q \in Parts : r.seen[q] = "full" => q \in everFull
    BY <1>4, <2>1, <2>2 DEF Edit, Earned, ReadRow, At
  <2>4. UNCHANGED <<everFull, row, completed, ordered>> /\ r.pc # "order"
    BY <1>4, <2>1, <2>2 DEF ReadRow, profile, Edit
  <2> QED
    BY <2>2, <2>3, <2>4, EarnedFrame DEF Earned
<1>5. ASSUME NEW w \in Workers, SaveRow(w) PROVE Earned'
  <2>1. req[w] \in Edit
    BY <1>5, Kinds DEF SaveRow, Typed
  <2>2. PICK r : r = [req[w] EXCEPT !.pc = "read", !.seen[req[w].part] = req[w].value]
          /\ Become(w, r)
    BY <1>5 DEF SaveRow
  <2>3. /\ everFull \subseteq everFull'
        /\ \A q \in Parts : row'[q] = "full" => q \in everFull'
        /\ req[w].value = "full" => req[w].part \in everFull'
    BY <1>5, <2>1, WrittenEarned DEF SaveRow, Edit
  <2>4. \A q \in Parts : r.seen[q] = "full" => q \in everFull'
    BY <1>5, <2>1, <2>2, <2>3 DEF Edit, Earned, SaveRow, At
  <2>5. UNCHANGED <<completed, ordered>> /\ r.pc # "order"
    BY <1>5, <2>1, <2>2 DEF SaveRow, Edit
  <2> QED
    BY <2>2, <2>3, <2>4, <2>5, EarnedFrame
<1>6. ASSUME NEW w \in Workers, UpdateFlag(w) PROVE Earned'
  <2>1. Complete(req[w].seen) => everFull = Parts
    BY <1>6 DEF Complete, UpdateFlag, At, Earned, Typed, TypeOK
  <2>2. completed' => completed \/ everFull = Parts
    BY <1>6, <2>1 DEF UpdateFlag
  <2> QED
    BY <1>6, <2>2, EarnedFrame DEF UpdateFlag, Idle, Earned
<1>7. ASSUME NEW w \in Workers, CreateRow(w) PROVE Earned'
  <2>1. req[w] \in Creation
    BY <1>7, Kinds DEF CreateRow, Typed
  <2>2. everFull \subseteq everFull' /\ \A q \in Parts : row'[q] = "full" => q \in everFull'
    BY <1>7, <2>1, WrittenEarned DEF CreateRow, Creation, Earned
  <2> QED
    BY <1>7, <2>2, EarnedFrame DEF CreateRow, Idle
<1>8. ASSUME NEW w \in Workers, StartPersonal(w) \/ InsertPersonal(w) \/ PlaceOrder(w)
      PROVE  Earned'
  <2>1. PICK r \in {Idle, [pc |-> "personal"]} : Become(w, r)
    BY <1>8 DEF StartPersonal, InsertPersonal, PlaceOrder
  <2>2. ordered' => ordered \/ everFull = Parts
    BY <1>8 DEF StartPersonal, InsertPersonal, PlaceOrder, profile, Earned
  <2>3. UNCHANGED <<everFull, row, completed>>
    BY <1>8 DEF StartPersonal, InsertPersonal, PlaceOrder, profile
  <2> QED
    BY <2>1, <2>2, <2>3, EarnedFrame DEF Idle, Earned
<1>9. ASSUME NEW w \in Workers, StartOrder(w) PROVE Earned'
  <2>1. everFull = Parts
    BY <1>9 DEF StartOrder, Earned
  <2> QED
    BY <1>9, <2>1, EarnedFrame DEF StartOrder, profile, Earned
<1>10. ASSUME NEW w \in Workers, PlanStep(w), UNCHANGED profile PROVE Earned'
  <2>1. PICK r : Become(w, r) /\ r.pc \notin Reading \cup {"order"}
    BY <1>10, PlanMoves DEF Idle
  <2> QED
    BY <1>10, <2>1, EarnedFrame DEF profile, Earned
<1>11. ASSUME NEW w \in Workers, RefuseOrder(w) PROVE Earned'
  BY <1>11 DEF RefuseOrder, vars, planVars, profile, Earned, At
<1> QED
  BY <1>1, <1>2, <1>3, <1>4, <1>5, <1>6, <1>7, <1>8, <1>9, <1>10, <1>11 DEF Next

\* FlagEarned: update_profile_status sums up rows it read one by one, and create_order
\* trusts the flag it read before; still no flag is set and no order opened for a
\* profile of which some row was never complete.
THEOREM StudentFlagEarned == Spec => []FlagEarned
<1>1. Earned => FlagEarned
  BY DEF Earned, FlagEarned
<1> QED
  BY <1>1, InitTyped, NextTyped, InitEarned, NextEarned, PTL DEF Spec

(***************************************************************************)
(* Personal rows of nobody.                                                *)
(***************************************************************************)

\* Each request past the look may add one.
Inserting == {w \in Workers : At(w, "personal")}
Few == orphans + Cardinality(Inserting) <= Cardinality(Workers)

LEMMA InsertingFinite ==
  /\ IsFiniteSet(Inserting) /\ Cardinality(Inserting) \in Nat
  /\ Cardinality(Inserting) <= Cardinality(Workers) /\ Cardinality(Workers) \in Nat
<1>1. Inserting \in SUBSET Workers
  BY DEF Inserting
<1> QED
  BY <1>1, Constants, FS_Subset, FS_CardinalityType

LEMMA FewStays ==
  ASSUME Typed, Few, NEW w \in Workers, NEW r, Become(w, r), r.pc # "personal",
         orphans' = orphans
  PROVE  Few'
<1>1. Inserting' \in SUBSET Inserting
  BY OthersStay DEF Inserting, At, Typed
<1>2. Cardinality(Inserting') <= Cardinality(Inserting) /\ Cardinality(Inserting') \in Nat
  BY <1>1, InsertingFinite, FS_Subset, FS_CardinalityType
<1> QED
  BY <1>2, InsertingFinite DEF Few, Typed, TypeOK

LEMMA FewAfterLook ==
  ASSUME Typed, Few, NEW w \in Workers, StartPersonal(w)
  PROVE  Few'
<1>1. Inserting' \in SUBSET Workers
  BY DEF Inserting
<1>2. Cardinality(Inserting') <= Cardinality(Workers) /\ Cardinality(Inserting') \in Nat
  BY <1>1, Constants, FS_Subset, FS_CardinalityType
<1> QED
  BY <1>2, InsertingFinite DEF Few, StartPersonal, profile

LEMMA FewAfterInsert ==
  ASSUME Typed, Few, NEW w \in Workers, InsertPersonal(w)
  PROVE  Few'
<1>1. Inserting' \in SUBSET (Inserting \ {w}) /\ w \in Inserting
  BY OthersStay DEF Inserting, At, Typed, InsertPersonal, Idle
<1>2. IsFiniteSet(Inserting \ {w}) /\ Cardinality(Inserting \ {w}) = Cardinality(Inserting) - 1
  BY <1>1, InsertingFinite, FS_RemoveElement
<1>3. Cardinality(Inserting') <= Cardinality(Inserting) - 1 /\ Cardinality(Inserting') \in Nat
  BY <1>1, <1>2, FS_Subset, FS_CardinalityType
<1>4. orphans' = orphans + 1
  BY DEF InsertPersonal
<1> QED
  BY <1>3, <1>4, InsertingFinite DEF Few, Typed, TypeOK

\* What a request becomes in any other step.
LEMMA Moves ==
  ASSUME Typed, NEW w \in Workers, NEW p \in Parts, NEW value \in Filled,
         \/ StartEdit(w, p, value) \/ StartCreate(w, p, value) \/ ReadRow(w, p)
         \/ SaveRow(w) \/ UpdateFlag(w) \/ CreateRow(w)
         \/ StartOrder(w) \/ PlaceOrder(w) \/ (PlanStep(w) /\ UNCHANGED profile)
  PROVE  \E r : Become(w, r) /\ r.pc # "personal"
<1> DEFINE Moved == \E r : Become(w, r) /\ r.pc # "personal"
<1>1. ASSUME StartEdit(w, p, value) PROVE Moved
  BY <1>1 DEF StartEdit
<1>2. ASSUME StartCreate(w, p, value) PROVE Moved
  BY <1>2 DEF StartCreate
<1>3. ASSUME SaveRow(w) \/ ReadRow(w, p) PROVE Moved
  BY <1>3, EditSteps
<1>4. ASSUME UpdateFlag(w) \/ CreateRow(w) \/ PlaceOrder(w) PROVE Moved
  BY <1>4 DEF UpdateFlag, CreateRow, PlaceOrder, Idle
<1>5. ASSUME StartOrder(w) PROVE Moved
  BY <1>5 DEF StartOrder
<1>6. ASSUME PlanStep(w) PROVE Moved
  BY <1>6, PlanMoves DEF Idle
<1> QED
  BY <1>1, <1>2, <1>3, <1>4, <1>5, <1>6

LEMMA NextFew == Typed /\ Few /\ [Next]_vars => Few'
<1> SUFFICES ASSUME Typed, Few, [Next]_vars PROVE Few'
  OBVIOUS
<1>1. CASE UNCHANGED vars
  BY <1>1 DEF vars, planVars, profile, Few, Inserting, At
<1>2. ASSUME NEW w \in Workers, NEW p \in Parts, NEW value \in Filled,
             \/ StartEdit(w, p, value) \/ StartCreate(w, p, value) \/ ReadRow(w, p)
             \/ SaveRow(w) \/ UpdateFlag(w) \/ CreateRow(w)
             \/ StartOrder(w) \/ PlaceOrder(w) \/ (PlanStep(w) /\ UNCHANGED profile)
      PROVE  Few'
  <2>1. PICK r : Become(w, r) /\ r.pc # "personal"
    BY <1>2, Moves
  <2>2. orphans' = orphans
    BY <1>2 DEF StartEdit, StartCreate, ReadRow, SaveRow, UpdateFlag, CreateRow, StartOrder,
                PlaceOrder, profile
  <2> QED
    BY <2>1, <2>2, FewStays
<1>3. "personal" \in Parts /\ "full" \in Filled
  BY DEF Parts, Filled
<1>4. ASSUME NEW w \in Workers, RefuseOrder(w) PROVE Few'
  BY <1>4 DEF RefuseOrder, vars, planVars, profile, Few, Inserting, At
<1> QED
  BY <1>1, <1>2, <1>3, <1>4, FewAfterLook, FewAfterInsert DEF Next

\* OrphansBounded: StudentPersonalDetailView saves rows of no student, and refuses once
\* it sees one; so there are never more of them than requests overlapped.
THEOREM StudentOrphansBounded == Spec => []OrphansBounded
<1>1. Init => Few
  <2> SUFFICES ASSUME Init PROVE Few
    OBVIOUS
  <2>1. orphans = 0
    BY DEF Init
  <2> QED
    BY <2>1, InsertingFinite DEF Few
<1>2. Typed /\ Few => OrphansBounded
  BY InsertingFinite DEF Typed, TypeOK, Few, OrphansBounded
<1> QED
  BY <1>1, <1>2, InitTyped, NextTyped, NextFew, PTL DEF Spec

(***************************************************************************)
(* A plan that is switched off.                                            *)
(***************************************************************************)

LEMMA OffStaysOff == Typed /\ [Next]_vars => [SwitchedOff => SwitchedOff']_planVars
<1> SUFFICES ASSUME Typed, [Next]_vars, SwitchedOff, planVars' # planVars
             PROVE  SwitchedOff'
  OBVIOUS
<1>1. Offered = {} /\ \A status : \A w \in Workers : ~ StartPost(w, status)
  BY DEF SwitchedOff, Offered, StartPost, NoOther, Ids, New
<1>2. ASSUME NEW w \in Workers, NEW r, Become(w, r), UNCHANGED <<plans, given>>,
             r.pc \notin {"clean", "write", "drop"}
      PROVE  SwitchedOff'
  BY <1>2, OthersStay DEF Typed, SwitchedOff
<1>3. ASSUME NEW w \in Workers, PlanStep(w) PROVE FALSE
  BY <1>1, <1>3 DEF PlanStep, SwitchedOff, At, StartPut, CleanPlan, WritePlan, StartDrop, DropPlan
<1>4. ASSUME NEW w \in Workers, NEW p \in Parts, NEW value \in Filled,
             StartEdit(w, p, value) \/ StartCreate(w, p, value)
      PROVE  SwitchedOff'
  <2>1. CASE StartEdit(w, p, value)
    BY <1>2, <2>1 DEF StartEdit
  <2>2. CASE StartCreate(w, p, value)
    BY <1>2, <2>2 DEF StartCreate
  <2> QED
    BY <1>4, <2>1, <2>2
<1>5. ASSUME NEW w \in Workers, NEW p \in Parts, SaveRow(w) \/ ReadRow(w, p)
      PROVE  SwitchedOff'
  <2>1. PICK r : Become(w, r) /\ r.pc \in {"read", "decide"}
    BY <1>5, EditSteps
  <2> QED
    BY <1>2, <1>5, <2>1 DEF SaveRow, ReadRow
<1>6. ASSUME NEW w \in Workers, UpdateFlag(w) \/ CreateRow(w) \/ PlaceOrder(w) \/ InsertPersonal(w)
      PROVE  SwitchedOff'
  BY <1>2, <1>6 DEF UpdateFlag, CreateRow, PlaceOrder, InsertPersonal, Idle
<1>7. ASSUME NEW w \in Workers, StartPersonal(w) \/ StartOrder(w) PROVE SwitchedOff'
  <2>1. PICK r \in {[pc |-> "personal"], [pc |-> "order"]} : Become(w, r)
    BY <1>7 DEF StartPersonal, StartOrder
  <2> QED
    BY <1>2, <1>7, <2>1 DEF StartPersonal, StartOrder
<1>8. ASSUME NEW w \in Workers, RefuseOrder(w) PROVE FALSE
  BY <1>8 DEF RefuseOrder, vars
<1>9. ~ UNCHANGED vars /\ "personal" \in Parts
  BY DEF vars, Parts
<1> QED
  BY <1>3, <1>4, <1>5, <1>6, <1>7, <1>8, <1>9 DEF Next

\* SwitchedOffForGood: the endpoint finds plans by is_active = TRUE and creates one only
\* if there is none at all, so a plan that is switched off stays, and stays off.
THEOREM StudentSwitchedOff == Spec => SwitchedOffForGood
BY InitTyped, NextTyped, OffStaysOff, PTL DEF Spec, SwitchedOffForGood

(***************************************************************************)
(* How many plans there are.                                               *)
(***************************************************************************)

Existing  == {i \in Ids : plans[i] # "none"}
Revivers  == {w \in Workers : At(w, "write") /\ req[w].plan # New}
Inserters == {w \in Workers : At(w, "write") /\ req[w].plan = New}

\* The plans there are and those a save past its look can bring back.
Targets  == {req[w].plan : w \in Revivers}
Occupied == Existing \cup Targets

WellOccupied == Cardinality(Occupied) + Cardinality(Inserters) <= Cardinality(Workers)

LEMMA OccupiedFinite ==
  ASSUME Typed
  PROVE  /\ IsFiniteSet(Occupied) /\ Cardinality(Occupied) \in Nat
         /\ IsFiniteSet(Existing) /\ Cardinality(Existing) <= Cardinality(Occupied)
         /\ Cardinality(Existing) \in Nat
         /\ IsFiniteSet(Inserters) /\ Cardinality(Inserters) \in Nat
         /\ Cardinality(Workers) \in Nat
<1>1. IsFiniteSet(Ids)
  BY Constants, FS_Interval DEF Ids
<1>2. Occupied \in SUBSET Ids
  BY Kinds DEF Typed, Occupied, Existing, Targets, Revivers, PlanWrite, Ids, New
<1>3. Inserters \in SUBSET Workers
  BY DEF Inserters
<1>4. Existing \in SUBSET Occupied
  BY DEF Occupied
<1>5. IsFiniteSet(Occupied) /\ IsFiniteSet(Inserters)
  BY <1>1, <1>2, <1>3, Constants, FS_Subset
<1> QED
  BY <1>4, <1>5, Constants, FS_Subset, FS_CardinalityType

\* While there is nothing but what the saves under way write.
LEMMA TargetsFew ==
  Typed /\ Existing \subseteq Targets => WellOccupied
<1> SUFFICES ASSUME Typed, Existing \subseteq Targets PROVE WellOccupied
  OBVIOUS
<1> DEFINE f == [w \in Revivers |-> req[w].plan]
<1>1. Occupied = Targets
  BY DEF Occupied
<1>2. f \in Surjection(Revivers, Targets)
  BY DEF Surjection, Targets
<1>3. Revivers \in SUBSET Workers /\ Inserters \in SUBSET Workers
      /\ Revivers \cap Inserters = {}
  BY DEF Revivers, Inserters
<1>4. IsFiniteSet(Revivers) /\ IsFiniteSet(Inserters)
  BY <1>3, Constants, FS_Subset
<1> HIDE DEF f
<1>5. Cardinality(Targets) <= Cardinality(Revivers)
  BY <1>2, <1>4, FS_Surjection
<1>6. Cardinality(Revivers \cup Inserters) = Cardinality(Revivers) + Cardinality(Inserters)
  <2>1. Cardinality(Revivers \cap Inserters) = 0
    BY <1>3, FS_EmptySet
  <2>2. /\ Cardinality(Revivers) \in Nat /\ Cardinality(Inserters) \in Nat
    BY <1>4, FS_CardinalityType
  <2>3. Cardinality(Revivers \cup Inserters) =
          Cardinality(Revivers) + Cardinality(Inserters) - Cardinality(Revivers \cap Inserters)
    BY <1>4, FS_Union
  <2> QED
    BY <2>1, <2>2, <2>3
<1>7. Revivers \cup Inserters \in SUBSET Workers
  BY <1>3
<1>8. Cardinality(Revivers \cup Inserters) <= Cardinality(Workers)
  BY <1>7, Constants, FS_Subset
<1>9. /\ Cardinality(Revivers) \in Nat /\ Cardinality(Inserters) \in Nat
      /\ Cardinality(Targets) \in Nat /\ Cardinality(Workers) \in Nat
  BY <1>1, <1>4, OccupiedFinite, FS_CardinalityType
<1> QED
  BY <1>1, <1>5, <1>6, <1>8, <1>9 DEF WellOccupied

\* A step that adds neither a plan nor a save past its look.
LEMMA OccupiedStays ==
  ASSUME Typed, Typed', WellOccupied, NEW w \in Workers, NEW r, Become(w, r),
         r.pc # "write", Existing' \subseteq Occupied
  PROVE  WellOccupied'
<1>1. \A v \in Workers : At(v, "write")' => At(v, "write") /\ req'[v] = req[v]
  BY OthersStay DEF Typed, At
<1>2. Inserters' \in SUBSET Inserters /\ Targets' \subseteq Targets
  BY <1>1 DEF Inserters, Targets, Revivers
<1>3. Occupied' \in SUBSET Occupied
  BY <1>2 DEF Occupied
<1>4. /\ Cardinality(Inserters') <= Cardinality(Inserters)
      /\ Cardinality(Occupied') <= Cardinality(Occupied)
      /\ Cardinality(Inserters') \in Nat /\ Cardinality(Occupied') \in Nat
  BY <1>2, <1>3, OccupiedFinite, FS_Subset, FS_CardinalityType
<1> QED
  BY <1>4, OccupiedFinite DEF WellOccupied

LEMMA WriteOccupies ==
  ASSUME Typed, Typed', WellOccupied, NEW w \in Workers, WritePlan(w)
  PROVE  WellOccupied'
<1>1. req[w] \in PlanWrite /\ Become(w, Idle) /\ At(w, "write") /\ Idle.pc # "write"
  BY Kinds DEF WritePlan, Typed, Idle
<1>2. CASE req[w].plan # New
  <2>1. plans' = [plans EXCEPT ![req[w].plan] = req[w].status] /\ req[w].plan \in Ids
    BY <1>1, <1>2 DEF WritePlan, PlanWrite
  <2>2. Existing' \subseteq Occupied
    BY <1>1, <1>2, <2>1 DEF Existing, Occupied, Targets, Revivers, Typed, TypeOK, PlanTypeOK
  <2> QED
    BY <1>1, <2>2, OccupiedStays
<1>3. CASE req[w].plan = New
  <2>1. plans' = [plans EXCEPT ![given + 1] = req[w].status]
    BY <1>3 DEF WritePlan
  <2>2. \A v \in Workers : At(v, "write")' => v # w /\ At(v, "write") /\ req'[v] = req[v]
    BY <1>1, OthersStay DEF Typed, At
  <2>3. Inserters' \in SUBSET (Inserters \ {w}) /\ w \in Inserters
    BY <1>1, <1>3, <2>2 DEF Inserters
  <2>4. Existing' \subseteq Existing \cup {given + 1} /\ Targets' \subseteq Targets
    BY <2>1, <2>2 DEF Existing, Targets, Revivers, Typed, TypeOK, PlanTypeOK
  <2>5. Occupied' \in SUBSET (Occupied \cup {given + 1})
    BY <2>4 DEF Occupied
  <2>6. /\ IsFiniteSet(Occupied \cup {given + 1})
        /\ Cardinality(Occupied \cup {given + 1}) <= Cardinality(Occupied) + 1
        /\ Cardinality(Occupied \cup {given + 1}) \in Nat
    <3>1. /\ IsFiniteSet(Occupied \cup {given + 1})
          /\ Cardinality(Occupied \cup {given + 1}) =
               IF given + 1 \in Occupied THEN Cardinality(Occupied)
                                        ELSE Cardinality(Occupied) + 1
      BY OccupiedFinite, FS_AddElement
    <3> QED
      BY <3>1, OccupiedFinite
  <2>7. Cardinality(Occupied') <= Cardinality(Occupied) + 1 /\ Cardinality(Occupied') \in Nat
    BY <2>5, <2>6, OccupiedFinite, FS_Subset, FS_CardinalityType
  <2>8. /\ IsFiniteSet(Inserters \ {w})
        /\ Cardinality(Inserters \ {w}) = Cardinality(Inserters) - 1
    BY <2>3, OccupiedFinite, FS_RemoveElement
  <2>9. Cardinality(Inserters') <= Cardinality(Inserters) - 1 /\ Cardinality(Inserters') \in Nat
    BY <2>3, <2>8, FS_Subset, FS_CardinalityType
  <2> QED
    BY <2>7, <2>9, OccupiedFinite DEF WellOccupied
<1> QED
  BY <1>2, <1>3

LEMMA CleanOccupies ==
  ASSUME Typed, Typed', WellOccupied, NEW w \in Workers, CleanPlan(w)
  PROVE  WellOccupied'
<1>1. req[w] \in PlanWrite /\ plans' = plans
  BY Kinds DEF CleanPlan, Typed
<1>2. CASE NoOther(req[w].plan)
  <2>1. req'[w] = [req[w] EXCEPT !.pc = "write"]
    BY <1>2, OthersStay DEF CleanPlan, Typed
  <2>2. At(w, "write")' /\ req'[w].plan = req[w].plan
    BY <1>1, <2>1 DEF PlanWrite, At
  <2>3. Existing' \subseteq Targets'
    BY <1>1, <1>2, <2>2 DEF Existing, Targets, Revivers, NoOther, Ids, New
  <2>4. (Typed /\ Existing \subseteq Targets => WellOccupied)'
    BY TargetsFew, PTL
  <2> QED
    BY <2>3, <2>4
<1>3. CASE ~NoOther(req[w].plan)
  <2>1. Become(w, Idle) /\ Idle.pc # "write"
    BY <1>3 DEF CleanPlan, Idle
  <2> QED
    BY <1>1, <2>1, OccupiedStays DEF Existing, Occupied
<1> QED
  BY <1>2, <1>3

LEMMA NextOccupied == Typed /\ Typed' /\ WellOccupied /\ [Next]_vars => WellOccupied'
<1> SUFFICES ASSUME Typed, Typed', WellOccupied, [Next]_vars PROVE WellOccupied'
  OBVIOUS
<1>1. ASSUME UNCHANGED planVars PROVE WellOccupied'
  BY <1>1 DEF planVars, WellOccupied, Occupied, Existing, Targets, Revivers, Inserters, At
<1>2. ASSUME NEW w \in Workers, NEW r, Become(w, r), r.pc # "write", plans' = plans
      PROVE  WellOccupied'
  BY <1>2, OccupiedStays DEF Existing, Occupied
<1>3. ASSUME NEW w \in Workers, NEW status \in {"active", "off"},
             StartPost(w, status) \/ StartPut(w, status) \/ StartDrop(w)
      PROVE  WellOccupied'
  <2>1. CASE StartPost(w, status)
    BY <1>2, <2>1 DEF StartPost
  <2>2. CASE StartPut(w, status)
    BY <1>2, <2>2 DEF StartPut
  <2>3. CASE StartDrop(w)
    BY <1>2, <2>3 DEF StartDrop
  <2> QED
    BY <1>3, <2>1, <2>2, <2>3
<1>4. ASSUME NEW w \in Workers, DropPlan(w) PROVE WellOccupied'
  <2>1. req[w] \in PlanDrop
    BY <1>4, Kinds DEF DropPlan, Typed
  <2>2. Existing' \subseteq Occupied
    BY <1>4, <2>1 DEF DropPlan, PlanDrop, Existing, Occupied, Typed, TypeOK, PlanTypeOK
  <2> QED
    BY <1>4, <2>2, OccupiedStays DEF DropPlan, Idle
<1>5. ASSUME NEW w \in Workers, PlanStep(w) PROVE WellOccupied'
  BY <1>3, <1>4, <1>5, WriteOccupies, CleanOccupies DEF PlanStep
<1>6. ASSUME NEW w \in Workers, NEW p \in Parts, NEW value \in Filled,
             StartEdit(w, p, value) \/ StartCreate(w, p, value)
      PROVE  WellOccupied'
  <2>1. CASE StartEdit(w, p, value)
    BY <1>2, <2>1 DEF StartEdit
  <2>2. CASE StartCreate(w, p, value)
    BY <1>2, <2>2 DEF StartCreate
  <2> QED
    BY <1>6, <2>1, <2>2
<1>7. ASSUME NEW w \in Workers, NEW p \in Parts, SaveRow(w) \/ ReadRow(w, p)
      PROVE  WellOccupied'
  <2>1. PICK r : Become(w, r) /\ r.pc \in {"read", "decide"}
    BY <1>7, EditSteps
  <2> QED
    BY <1>2, <1>7, <2>1 DEF SaveRow, ReadRow
<1>8. ASSUME NEW w \in Workers, UpdateFlag(w) \/ CreateRow(w) \/ PlaceOrder(w) \/ InsertPersonal(w)
      PROVE  WellOccupied'
  BY <1>2, <1>8 DEF UpdateFlag, CreateRow, PlaceOrder, InsertPersonal, Idle
<1>9. ASSUME NEW w \in Workers, StartPersonal(w) \/ StartOrder(w) PROVE WellOccupied'
  <2>1. PICK r \in {[pc |-> "personal"], [pc |-> "order"]} : Become(w, r)
    BY <1>9 DEF StartPersonal, StartOrder
  <2> QED
    BY <1>2, <1>9, <2>1 DEF StartPersonal, StartOrder
<1>10. ASSUME NEW w \in Workers, RefuseOrder(w) PROVE WellOccupied'
  BY <1>1, <1>10 DEF RefuseOrder, vars
<1>11. UNCHANGED vars => UNCHANGED planVars /\ "personal" \in Parts
  BY DEF vars, Parts
<1>12. "personal" \in Parts
  BY DEF Parts
<1> QED
  BY <1>1, <1>5, <1>6, <1>7, <1>8, <1>9, <1>10, <1>11, <1>12 DEF Next

\* PlansBounded: the one-plan rule is a query before the write (SubscriptionPlan.clean),
\* so there can be more plans than one, but never more than requests overlapped.
THEOREM StudentPlansBounded == Spec => []PlansBounded
<1>1. Init => WellOccupied
  <2> SUFFICES ASSUME Init PROVE WellOccupied
    OBVIOUS
  <2>1. Typed
    BY InitTyped
  <2>2. Existing \subseteq Targets
    BY DEF Init, PlanInit, Existing
  <2> QED
    BY <2>1, <2>2, TargetsFew
<1>2. Typed /\ WellOccupied => PlansBounded
  BY OccupiedFinite DEF WellOccupied, PlansBounded, Existing
<1> QED
  BY <1>1, <1>2, InitTyped, NextTyped, NextOccupied, PTL DEF Spec

(***************************************************************************)
(* An edit on its own settles the flag.                                    *)
(***************************************************************************)

\* What an edit on its own has read still stands.
Faithful(w) ==
  /\ req[w].copy = completed
  /\ \A p \in Parts : req[w].seen[p] \in {"unread", row[p]}
  /\ At(w, "decide") => \A p \in Parts : req[w].seen[p] # "unread"

Exact == (completed => Complete(row)) /\ (Complete(row) => completed \/ created)

Settled ==
  /\ quiet => alone
  /\ alone => \A v, w \in Workers : Editor(v) /\ Editor(w) => v = w
  /\ \A w \in Workers : At(w, "create") => created
  /\ \A w \in Workers : alone /\ req[w].pc \in Reading => Faithful(w)
  /\ quiet /\ (\A w \in Workers : req[w].pc \notin Reading) => Exact

LEMMA InitSettled == Init => Settled
<1> SUFFICES ASSUME Init PROVE Settled
  OBVIOUS
<1>1. \A w \in Workers : ~Editor(w) /\ ~At(w, "create") /\ req[w].pc \notin Reading
  BY DEF Init, PlanInit, Idle, Editor, Editing, At, Reading
<1>2. Exact
  BY DEF Init, Exact, Complete
<1>3. alone /\ quiet
  BY DEF Init
<1> QED
  BY <1>1, <1>2, <1>3 DEF Settled

\* A step of a request that is no edit.
LEMMA SettledElsewhere ==
  ASSUME Typed, Settled, NEW w \in Workers, NEW r, Become(w, r),
         ~Editor(w), r.pc \notin Editing, UNCHANGED <<row, completed, alone, quiet, created>>
  PROVE  Settled'
<1>1. \A v \in Workers : Editor(v)' => Editor(v) /\ req'[v] = req[v]
  BY OthersStay DEF Typed, Editor
<1>2. \A v \in Workers : req'[v].pc \in Reading => Editor(v)'
  BY DEF Editor, Editing, Reading
<1>3. \A v \in Workers : req[v].pc \in Reading => req'[v] = req[v]
  BY OthersStay DEF Typed, Editor, Editing, Reading
<1>4. \A v \in Workers : At(v, "create")' => At(v, "create")
  BY <1>1 DEF Editor, Editing, At
<1>5. (\A v \in Workers : alone /\ req[v].pc \in Reading => Faithful(v))'
  BY <1>1, <1>2 DEF Settled, Faithful, At, Reading
<1>6. (quiet /\ (\A v \in Workers : req[v].pc \notin Reading) => Exact)'
  BY <1>3 DEF Settled, Exact
<1> QED
  BY <1>1, <1>4, <1>5, <1>6 DEF Settled

LEMMA BeginsAlone ==
  ASSUME Typed, Settled, NEW w \in Workers, NEW r, Become(w, r), ~Editor(w), Begin(w)
  PROVE  /\ quiet' => quiet /\ alone'
         /\ alone' => \A v \in Workers \ {w} : ~Editor(v) /\ ~Editor(v)'
         /\ (alone => \A u, v \in Workers : Editor(u) /\ Editor(v) => u = v)'
<1>1. \A v \in Workers \ {w} : Editor(v)' <=> Editor(v)
  BY OthersStay DEF Typed, Editor
<1>2. alone' => \A v \in Workers \ {w} : ~Editor(v)
  BY DEF Begin
<1>3. quiet' => quiet /\ alone'
  BY DEF Begin
<1> QED
  BY <1>1, <1>2, <1>3

LEMMA StartSettles ==
  ASSUME Typed, Settled, NEW w \in Workers, NEW p \in Parts, NEW value \in Filled,
         StartEdit(w, p, value)
  PROVE  Settled'
<1>1. PICK r : /\ r = [pc |-> "save", part |-> p, value |-> value, copy |-> completed,
                       seen |-> Unread]
               /\ Become(w, r)
  BY DEF StartEdit
<1>2. req'[w] = r /\ \A v \in Workers \ {w} : req'[v] = req[v]
  BY <1>1, OthersStay DEF Typed
<1>3. ~Editor(w) /\ Begin(w) /\ UNCHANGED <<row, completed, created>>
  BY DEF StartEdit, Editor, Editing, At
<1>4. /\ quiet' => quiet /\ alone'
      /\ alone' => \A v \in Workers \ {w} : ~Editor(v) /\ ~Editor(v)'
      /\ (alone => \A u, v \in Workers : Editor(u) /\ Editor(v) => u = v)'
  BY <1>1, <1>3, BeginsAlone
<1>5. \A v \in Workers : At(v, "create")' => created'
  BY <1>1, <1>2, <1>3 DEF Settled, At
<1>6. Faithful(w)'
  BY <1>1, <1>2, <1>3 DEF Faithful, Unread, At
<1>7. (\A v \in Workers : alone /\ req[v].pc \in Reading => Faithful(v))'
  BY <1>4, <1>6 DEF Editor, Editing, Reading
<1>8. req'[w].pc \in Reading
  BY <1>1, <1>2 DEF Reading
<1> QED
  BY <1>4, <1>5, <1>7, <1>8 DEF Settled

\* A step inside an edit leaves it the only one.
LEMMA StillAlone ==
  ASSUME Typed, Settled, NEW w \in Workers, NEW r, Become(w, r), Editor(w), UNCHANGED alone
  PROVE  /\ (alone => \A u, v \in Workers : Editor(u) /\ Editor(v) => u = v)'
         /\ alone => \A v \in Workers \ {w} : ~Editor(v)' /\ req'[v].pc \notin Reading
<1>1. \A v \in Workers \ {w} : req'[v] = req[v]
  BY OthersStay DEF Typed
<1>2. alone => \A v \in Workers \ {w} : ~Editor(v)
  BY DEF Settled
<1>3. alone => \A v \in Workers \ {w} : ~Editor(v)' /\ req'[v].pc \notin Reading
  BY <1>1, <1>2 DEF Editor, Editing, Reading
<1> QED
  BY <1>3

LEMMA SaveSettles ==
  ASSUME Typed, Settled, NEW w \in Workers, SaveRow(w)
  PROVE  Settled'
<1>1. req[w] \in Edit /\ Editor(w) /\ UNCHANGED <<completed, alone, quiet, created>>
  BY Kinds DEF SaveRow, Typed, Editor, Editing, At
<1>2. PICK r : r = [req[w] EXCEPT !.pc = "read", !.seen[req[w].part] = req[w].value]
        /\ Become(w, r)
  BY DEF SaveRow
<1>3. req'[w] = r /\ \A v \in Workers \ {w} : req'[v] = req[v]
  BY <1>2, OthersStay DEF Typed
<1>4. /\ r.pc = "read" /\ r.copy = req[w].copy
      /\ r.seen = [req[w].seen EXCEPT ![req[w].part] = req[w].value]
  BY <1>1, <1>2 DEF Edit
<1>5. row' = [row EXCEPT ![req[w].part] = req[w].value]
  BY DEF SaveRow, Written
<1>6. alone => Faithful(w)
  BY DEF Settled, SaveRow, At, Reading
<1>7. alone => Faithful(w)'
  <2>1. alone => req'[w].copy = completed'
    BY <1>1, <1>3, <1>4, <1>6 DEF Faithful
  <2>2. alone => \A p \in Parts : req'[w].seen[p] \in {"unread", row'[p]}
    BY <1>1, <1>3, <1>4, <1>5, <1>6 DEF Faithful, Edit, Typed, TypeOK
  <2> QED
    BY <1>3, <1>4, <2>1, <2>2 DEF Faithful, At
<1>8. /\ (alone => \A u, v \in Workers : Editor(u) /\ Editor(v) => u = v)'
      /\ alone => \A v \in Workers \ {w} : ~Editor(v)' /\ req'[v].pc \notin Reading
  BY <1>1, <1>2, StillAlone
<1>9. (\A v \in Workers : alone /\ req[v].pc \in Reading => Faithful(v))'
  BY <1>1, <1>7, <1>8
<1>10. (\A v \in Workers : At(v, "create") => created)'
  BY <1>1, <1>3, <1>4 DEF Settled, At
<1>11. req'[w].pc \in Reading /\ (quiet' => alone')
  BY <1>1, <1>3, <1>4 DEF Reading, Settled
<1> QED
  BY <1>8, <1>9, <1>10, <1>11 DEF Settled

LEMMA ReadSettles ==
  ASSUME Typed, Settled, NEW w \in Workers, NEW p \in Parts, ReadRow(w, p)
  PROVE  Settled'
<1>1. /\ req[w] \in Edit /\ Editor(w)
      /\ UNCHANGED <<row, completed, alone, quiet, created>>
  BY Kinds DEF ReadRow, Typed, Editor, Editing, At, profile
<1> DEFINE seen == [req[w].seen EXCEPT ![p] = row[p]]
           left == \E q \in Parts : seen[q] = "unread"
<1>2. PICK r : /\ r = [req[w] EXCEPT !.seen = seen, !.pc = IF left THEN "read" ELSE "decide"]
               /\ Become(w, r)
  BY DEF ReadRow
<1>3. req'[w] = r /\ \A v \in Workers \ {w} : req'[v] = req[v]
  BY <1>2, OthersStay DEF Typed
<1>4. r.pc = (IF left THEN "read" ELSE "decide") /\ r.copy = req[w].copy /\ r.seen = seen
  <2> HIDE DEF seen, left
  <2> QED
    BY <1>1, <1>2 DEF Edit
<1>5. alone => Faithful(w)
  BY DEF Settled, ReadRow, At, Reading
<1>6. alone => Faithful(w)'
  <2>1. alone => req'[w].copy = completed'
    BY <1>1, <1>3, <1>4, <1>5 DEF Faithful
  <2>2. alone => \A q \in Parts : req'[w].seen[q] \in {"unread", row'[q]}
    BY <1>1, <1>3, <1>4, <1>5 DEF Faithful, Edit
  <2>3. At(w, "decide")' => \A q \in Parts : req'[w].seen[q] # "unread"
    BY <1>3, <1>4 DEF At
  <2> QED
    BY <2>1, <2>2, <2>3 DEF Faithful
<1>7. /\ (alone => \A u, v \in Workers : Editor(u) /\ Editor(v) => u = v)'
      /\ alone => \A v \in Workers \ {w} : ~Editor(v)' /\ req'[v].pc \notin Reading
  BY <1>1, <1>2, StillAlone
<1>8. (\A v \in Workers : alone /\ req[v].pc \in Reading => Faithful(v))'
  BY <1>1, <1>6, <1>7
<1>9. (\A v \in Workers : At(v, "create") => created)'
  BY <1>1, <1>3, <1>4 DEF Settled, At
<1>10. req'[w].pc \in Reading /\ (quiet' => alone')
  BY <1>1, <1>3, <1>4 DEF Reading, Settled
<1> QED
  BY <1>7, <1>8, <1>9, <1>10 DEF Settled

LEMMA FlagSettles ==
  ASSUME Typed, Settled, NEW w \in Workers, UpdateFlag(w)
  PROVE  Settled'
<1>1. req[w] \in Edit /\ Editor(w) /\ Become(w, Idle) /\ UNCHANGED <<row, alone>>
  BY Kinds DEF UpdateFlag, Typed, Editor, Editing, At
<1>2. req'[w] = Idle /\ \A v \in Workers \ {w} : req'[v] = req[v]
  BY <1>1, OthersStay DEF Typed
<1>3. /\ (alone => \A u, v \in Workers : Editor(u) /\ Editor(v) => u = v)'
      /\ alone => \A v \in Workers \ {w} : ~Editor(v)' /\ req'[v].pc \notin Reading
  BY <1>1, StillAlone
<1>4. alone => completed' = Complete(row)
  <2> SUFFICES ASSUME alone PROVE completed' = Complete(row)
    OBVIOUS
  <2>1. Faithful(w) /\ At(w, "decide")
    BY DEF Settled, UpdateFlag, At, Reading
  <2>2. \A p \in Parts : req[w].seen[p] = row[p]
    BY <2>1 DEF Faithful
  <2>3. Complete(req[w].seen) = Complete(row) /\ req[w].copy = completed
    BY <2>1, <2>2 DEF Complete, Faithful
  <2> QED
    BY <2>3 DEF UpdateFlag, MustWrite
<1>5. alone => Exact'
  BY <1>1, <1>4 DEF Exact, Complete
<1>6. \A v \in Workers : At(v, "create")' => Editor(v)' /\ v # w /\ At(v, "create")
  BY <1>2 DEF Editor, Editing, At, Idle
<1>7. \A v \in Workers : At(v, "create")' => created'
  BY <1>3, <1>6 DEF Settled, UpdateFlag
<1>8. quiet' => alone'
  <2>1. quiet' => quiet \/ alone
    BY DEF UpdateFlag
  <2>2. quiet => alone
    BY DEF Settled
  <2>3. alone' = alone
    BY <1>1
  <2> QED
    BY <2>1, <2>2, <2>3
<1>9. alone => \A v \in Workers : req'[v].pc \notin Reading
  BY <1>2, <1>3 DEF Idle, Reading
<1> QED
  BY <1>1, <1>3, <1>5, <1>7, <1>8, <1>9 DEF Settled

LEMMA CreationSettles ==
  ASSUME Typed, Settled, NEW w \in Workers, NEW p \in Parts, NEW value \in Filled,
         StartCreate(w, p, value)
  PROVE  Settled'
<1>1. PICK r : r = [pc |-> "create", part |-> p, value |-> value] /\ Become(w, r)
  BY DEF StartCreate
<1>2. req'[w] = r /\ \A v \in Workers \ {w} : req'[v] = req[v]
  BY <1>1, OthersStay DEF Typed
<1>3. ~Editor(w) /\ Begin(w) /\ UNCHANGED <<row, completed>> /\ created'
  BY DEF StartCreate, Editor, Editing, At
<1>4. /\ quiet' => quiet /\ alone'
      /\ alone' => \A v \in Workers \ {w} : ~Editor(v) /\ ~Editor(v)'
      /\ (alone => \A u, v \in Workers : Editor(u) /\ Editor(v) => u = v)'
  BY <1>1, <1>3, BeginsAlone
<1>5. req'[w].pc \notin Reading /\ req[w].pc \notin Reading
  BY <1>1, <1>2 DEF StartCreate, At, Reading
<1>6. alone' => \A v \in Workers : req'[v].pc \notin Reading /\ req[v].pc \notin Reading
  BY <1>4, <1>5 DEF Editor, Editing, Reading
<1>7. quiet' => Exact
  BY <1>4, <1>6 DEF Settled
<1>8. quiet' => Exact'
  BY <1>3, <1>7 DEF Exact
<1> QED
  BY <1>3, <1>4, <1>6, <1>8 DEF Settled

LEMMA CreateSettles ==
  ASSUME Typed, Settled, NEW w \in Workers, CreateRow(w)
  PROVE  Settled'
<1>1. /\ req[w] \in Creation /\ Editor(w) /\ Become(w, Idle)
      /\ UNCHANGED <<completed, alone, quiet, created>>
  BY Kinds DEF CreateRow, Typed, Editor, Editing, At
<1>2. req'[w] = Idle /\ \A v \in Workers \ {w} : req'[v] = req[v]
  BY <1>1, OthersStay DEF Typed
<1>3. /\ (alone => \A u, v \in Workers : Editor(u) /\ Editor(v) => u = v)'
      /\ alone => \A v \in Workers \ {w} : ~Editor(v)' /\ req'[v].pc \notin Reading
  BY <1>1, StillAlone
<1>4. alone => \A v \in Workers : req'[v].pc \notin Reading /\ req[v].pc \notin Reading
  BY <1>2, <1>3 DEF CreateRow, At, Idle, Reading
<1>5. (\A v \in Workers : At(v, "create") => created)'
  BY <1>1, <1>2 DEF Settled, At, Idle
<1>6. created
  BY DEF Settled, CreateRow
<1>7. quiet => Exact'
  <2> SUFFICES ASSUME quiet PROVE Exact'
    OBVIOUS
  <2>1. Exact
    BY <1>4 DEF Settled
  <2>2. CASE row[req[w].part] = "absent"
    <3>1. ~Complete(row)
      BY <1>1, <2>2 DEF Complete, Creation
    <3> QED
      BY <1>1, <1>6, <2>1, <3>1 DEF Exact
  <2>3. CASE row[req[w].part] # "absent"
    <3>1. UNCHANGED row
      BY <2>3 DEF CreateRow
    <3> QED
      BY <1>1, <2>1, <3>1 DEF Exact
  <2> QED
    BY <2>2, <2>3
<1> QED
  BY <1>1, <1>3, <1>4, <1>5, <1>7 DEF Settled

LEMMA NextSettled == Typed /\ Settled /\ [Next]_vars => Settled'
<1> SUFFICES ASSUME Typed, Settled, [Next]_vars PROVE Settled'
  OBVIOUS
<1>1. ASSUME UNCHANGED vars PROVE Settled'
  BY <1>1 DEF vars, planVars, profile, Settled, Exact, Faithful, Editor, At
<1>2. ASSUME NEW w \in Workers, RefuseOrder(w) PROVE Settled'
  BY <1>1, <1>2 DEF RefuseOrder
<1>3. ASSUME NEW w \in Workers, InsertPersonal(w) \/ PlaceOrder(w) PROVE Settled'
  BY <1>3, SettledElsewhere DEF InsertPersonal, PlaceOrder, Idle, Editor, Editing, At
<1>4. ASSUME NEW w \in Workers, StartPersonal(w) \/ StartOrder(w) PROVE Settled'
  <2>1. PICK r \in {[pc |-> "personal"], [pc |-> "order"]} : Become(w, r)
    BY <1>4 DEF StartPersonal, StartOrder
  <2> QED
    BY <1>4, <2>1, SettledElsewhere DEF StartPersonal, StartOrder, profile, Editor, Editing, At
<1>5. ASSUME NEW w \in Workers, PlanStep(w), UNCHANGED profile PROVE Settled'
  <2>1. PICK r : Become(w, r) /\ r.pc \notin Editing
    BY <1>5, PlanMoves DEF Idle, Editing
  <2>2. ~Editor(w)
    BY <1>5 DEF PlanStep, StartPost, StartPut, CleanPlan, WritePlan, StartDrop, DropPlan,
                At, Editor, Editing
  <2> QED
    BY <1>5, <2>1, <2>2, SettledElsewhere DEF profile
<1> QED
  BY <1>1, <1>2, <1>3, <1>4, <1>5, StartSettles, SaveSettles, ReadSettles, FlagSettles,
     CreationSettles, CreateSettles DEF Next

\* EditSettlesFlag: an edit that ran on its own leaves the flag update_profile_status
\* would compute, and only a POST of a row or an edit beside another can unsettle it.
THEOREM StudentEditSettlesFlag == Spec => []EditSettlesFlag
<1>1. Settled => EditSettlesFlag
  BY DEF Settled, EditSettlesFlag, Exact, Editor, Editing, Reading
<1> QED
  BY <1>1, InitTyped, NextTyped, InitSettled, NextSettled, PTL DEF Spec

=============================================================================
