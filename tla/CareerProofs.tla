---------------------------- MODULE CareerProofs ----------------------------
(***************************************************************************)
(* Theorems about Career, for any jobs, testimonials, requests, cooldowns  *)
(* and bounds.                                                             *)
(***************************************************************************)
EXTENDS Career, FiniteSetTheorems, WellFoundedInduction, TLAPS

Copy(w) == req[w].row

\* No row and no copy of one is of the future.
Past ==
  /\ \A a \in apps : a.id <= serial /\ a.at <= serial /\ a.day <= today
  /\ \A w \in Workers : At(w, "amend") =>
       Copy(w).id <= serial /\ Copy(w).at <= serial /\ Copy(w).day <= today

\* An application is for the same job as long as somebody remembers it.
SameJob ==
  /\ \A w \in Workers, a \in apps :
       At(w, "amend") /\ a.id = Copy(w).id => a.job = Copy(w).job
  /\ \A v, w \in Workers :
       At(v, "amend") /\ At(w, "amend") /\ Copy(v).id = Copy(w).id =>
         Copy(v).job = Copy(w).job

\* Two requests with a copy of the same row have raced.
RowsRaced ==
  \A v, w \in Workers :
    v # w /\ At(v, "amend") /\ At(w, "amend") /\ Copy(v).id = Copy(w).id =>
      Copy(v).id \in raced

PostingsRaced ==
  \A v, w \in Workers :
    v # w /\ At(v, "edit") /\ At(w, "edit") /\ req[v].posting = req[w].posting =>
      req[v].posting \in raced

\* What the request of w will write over a posting was decided for it, and a posting
\* whose deletion it did not notice has raced.
EditTrue(w) ==
  At(w, "edit") => LET p == req[w].posting IN
    /\ board[p] # "absent" \/ p \in deleted
    /\ p \in deleted => p \in raced
    /\ ~req[w].decides /\ p \notin raced => req[w].status = decided[p]

\* The field the request of w does not decide is as it was decided.
AmendTrue(w) ==
  At(w, "amend") /\ Copy(w).id \notin raced =>
    IF req[w].decides = "status"
    THEN Copy(w).cooldown = ordered[Copy(w).id].cooldown
    ELSE Copy(w).status = ordered[Copy(w).id].status

CoolingApps == {a \in apps : Cooling(a)}
Applying    == {w \in Workers : At(w, "apply")}

\* As long as no cooldown is changed or renewed, applications are in the order of
\* their keys, with the cooldown of the setting, and those cooling and those
\* about to be inserted were all checked together.
Untuned ==
  /\ \A a \in apps : a.at = a.id /\ a.cooldown = setting
  /\ \A a, b \in apps : a.id <= b.id => a.day <= b.day
  /\ \A w \in Workers : At(w, "apply") => req[w].cooldown = setting
  /\ \A w \in Workers : At(w, "amend") =>
       /\ Copy(w).at = Copy(w).id /\ Copy(w).cooldown = setting /\ req[w].decides = "status"
       /\ \A a \in apps : a.id = Copy(w).id => a.day = Copy(w).day
  /\ Cardinality(CoolingApps) + Cardinality(Applying) <= peak

\* The conjuncts of QuietEditsKept and of DeletionFinal.
TermsKept    == \A a \in apps : a.id \notin raced => ordered[a.id] = Terms(a)
StatusKept   == \A p \in Postings \ raced : board[p] \in {"absent", decided[p]}
DeletedRaced == \A p \in deleted : board[p] # "absent" => p \in raced
JobsThere    == \A a \in apps : board[a.job] # "absent"

RowsOK ==
  /\ IsFiniteSet(apps) /\ Past /\ SameJob /\ RowsRaced /\ TermsKept
  /\ \A w \in Workers : AmendTrue(w)
  /\ ~tuned => Untuned

PostingsOK ==
  /\ PostingsRaced /\ StatusKept /\ DeletedRaced /\ JobsThere
  /\ \A w \in Workers : EditTrue(w)

IInv == TypeOK /\ RowsOK /\ PostingsOK

-----------------------------------------------------------------------------
LEMMA Bounds ==
  /\ IsFiniteSet(Workers) /\ Cooldowns \subseteq Nat
  /\ MaxDay \in Nat /\ MaxApps \in Nat /\ MaxEdits \in Nat
BY CareerAssumption DEF CareerAssumption

LEMMA AddOne ==
  ASSUME NEW S, IsFiniteSet(S), NEW x
  PROVE  /\ IsFiniteSet(S \cup {x})
         /\ Cardinality(S \cup {x}) <= Cardinality(S) + 1
<1>1. Cardinality(S) \in Nat
  BY FS_CardinalityType
<1>2. Cardinality(S \cup {x}) = Cardinality(S) \/ Cardinality(S \cup {x}) = Cardinality(S) + 1
  BY FS_AddElement
<1> QED
  BY <1>1, <1>2, FS_AddElement

\* What is not in the request that changes stays.
LEMMA Becoming ==
  ASSUME TypeOK, NEW w \in Workers, NEW r, Become(w, r)
  PROVE  /\ req'[w] = r
         /\ \A v \in Workers \ {w} : req'[v] = req[v]
BY DEF TypeOK, Become

LEMMA BecomingType ==
  ASSUME TypeOK, NEW w \in Workers, NEW r \in Request, Become(w, r)
  PROVE  req' \in [Workers -> Request]
BY DEF TypeOK, Become

\* What the requests hold.
LEMMA RequestTypes ==
  ASSUME TypeOK, NEW w \in Workers
  PROVE  /\ At(w, "edit") => /\ req[w].posting \in Postings /\ req[w].decides \in BOOLEAN
                             /\ req[w].status \in {"published", "draft"}
         /\ At(w, "apply") => req[w].job \in Jobs /\ req[w].cooldown \in Cooldowns
         /\ At(w, "amend") => /\ Copy(w) \in Application
                              /\ req[w].decides \in {"status", "cooldown"}
BY DEF TypeOK, Request, Idle, At, Copy

\* A request that goes idle, or an edit of another row, leaves every copy as it was.
LEMMA NoNewCopy ==
  ASSUME TypeOK, NEW w \in Workers, Become(w, Idle), NEW v \in Workers
  PROVE  /\ At(v, "edit")' => v # w /\ req'[v] = req[v] /\ At(v, "edit")
         /\ At(v, "apply")' => v # w /\ req'[v] = req[v] /\ At(v, "apply")
         /\ At(v, "amend")' => v # w /\ req'[v] = req[v] /\ At(v, "amend")
BY Becoming DEF At, Idle

LEMMA RowNumbers ==
  ASSUME NEW a \in Application
  PROVE  a.id \in Nat /\ a.at \in Nat /\ a.day \in Nat /\ a.cooldown \in Nat
<1>1. a.id \in 1..MaxApps /\ a.at \in 1..MaxApps /\ a.day \in 0..MaxDay
  BY DEF Application, Ids
<1>2. a.cooldown \in Cooldowns
  BY DEF Application
<1>3. a.cooldown \in Nat
  BY <1>2, Bounds
<1> QED
  BY <1>1, <1>3, Bounds

LEMMA Numbers ==
  ASSUME TypeOK
  PROVE  /\ today \in Nat /\ serial \in Nat /\ setting \in Nat /\ peak \in Nat
         /\ apps \subseteq Application
BY Bounds, FS_CardinalityType DEF TypeOK

-----------------------------------------------------------------------------
LEMMA InitInv == Init => IInv
<1> SUFFICES ASSUME Init PROVE IInv
  OBVIOUS
<1>1. TypeOK
  <2>1. Decision # {}
    <3> setting \in Cooldowns
      BY DEF Init
    <3>1. [status |-> "pending", cooldown |-> setting] \in Decision
      BY DEF Decision, Statuses
    <3> QED
      BY <3>1
  <2>2. ordered \in [Ids -> Decision]
    BY <2>1 DEF Init
  <2>3. req \in [Workers -> Request]
    BY DEF Init, Request
  <2>4. 0 \in 0..Cardinality(Workers)
    BY Bounds, FS_CardinalityType
  <2>5. board \in [Postings -> {"absent", "published", "draft"}]
    BY DEF Init
  <2>6. 0 \in 0..MaxDay /\ 0 \in 0..MaxApps /\ 0 \in 0..MaxEdits
    BY Bounds
  <2> QED
    BY <2>2, <2>3, <2>4, <2>5, <2>6 DEF Init, TypeOK
<1>2. ~tuned => Untuned
  <2>1. CoolingApps = {} /\ Applying = {}
    BY DEF Init, CoolingApps, Applying, At, Idle
  <2>2. Cardinality(CoolingApps) + Cardinality(Applying) <= peak
    BY <2>1, FS_EmptySet DEF Init
  <2> QED
    BY <2>2 DEF Init, Untuned, At, Idle
<1>3. IsFiniteSet(apps)
  BY FS_EmptySet DEF Init
<1>4. Past /\ SameJob /\ RowsRaced /\ TermsKept
  BY DEF Init, Past, SameJob, RowsRaced, TermsKept, At, Idle
<1>5. PostingsRaced /\ StatusKept /\ DeletedRaced /\ JobsThere
  BY DEF Init, PostingsRaced, StatusKept, DeletedRaced, JobsThere, At, Idle
<1>6. \A w \in Workers : EditTrue(w) /\ AmendTrue(w)
  BY DEF Init, EditTrue, AmendTrue, At, Idle
<1> QED
  BY <1>1, <1>2, <1>3, <1>4, <1>5, <1>6 DEF IInv, RowsOK, PostingsOK

\* Steps that change no application and no copy of one keep what is known of them.
LEMMA RowsKept ==
  ASSUME IInv, UNCHANGED <<apps, serial, ordered, today, setting, peak, tuned>>,
         \A q \in raced : q \in raced',
         \A w \in Workers : At(w, "amend")' => At(w, "amend") /\ req'[w] = req[w],
         \A w \in Workers : At(w, "apply")' <=> At(w, "apply"),
         \A w \in Workers : At(w, "apply") => req'[w] = req[w]
  PROVE  RowsOK'
<1>1. IsFiniteSet(apps)'
  BY DEF IInv, RowsOK
<1>2. Past' /\ SameJob' /\ RowsRaced' /\ TermsKept'
  BY DEF IInv, RowsOK, Past, SameJob, RowsRaced, TermsKept, Copy, Terms
<1>3. ASSUME NEW w \in Workers PROVE AmendTrue(w)'
  BY DEF IInv, RowsOK, AmendTrue, Copy
<1>4. ASSUME ~tuned PROVE Untuned'
  <2>1. Untuned
    BY <1>4 DEF IInv, RowsOK
  <2>2. CoolingApps' = CoolingApps
    BY DEF CoolingApps, Cooling
  <2>3. Applying' = Applying
    BY DEF Applying
  <2>4. (Cardinality(CoolingApps) + Cardinality(Applying) <= peak)'
    BY <2>1, <2>2, <2>3 DEF Untuned
  <2> QED
    BY <2>1, <2>4 DEF Untuned, Copy
<1> QED
  BY <1>1, <1>2, <1>3, <1>4 DEF RowsOK

\* Steps that change no posting and no copy of one keep what is known of them.
LEMMA PostingsKept ==
  ASSUME IInv, UNCHANGED posted,
         \A q \in raced : q \in raced',
         \A w \in Workers : At(w, "edit")' => At(w, "edit") /\ req'[w] = req[w],
         \A a \in apps' : board[a.job] # "absent"
  PROVE  PostingsOK'
<1>1. StatusKept' /\ DeletedRaced' /\ JobsThere' /\ PostingsRaced'
  BY DEF IInv, PostingsOK, StatusKept, DeletedRaced, JobsThere, PostingsRaced, posted
<1>2. ASSUME NEW w \in Workers PROVE EditTrue(w)'
  BY DEF IInv, PostingsOK, EditTrue, posted
<1> QED
  BY <1>1, <1>2 DEF PostingsOK

-----------------------------------------------------------------------------
LEMMA PostInv ==
  ASSUME IInv, NEW p \in Postings, NEW status \in {"published", "draft"},
         Post(p, status)
  PROVE  IInv'
<1>1. TypeOK'
  BY DEF IInv, TypeOK, Post, applied
<1>2. RowsOK'
  BY RowsKept DEF Post, applied, At
<1>3. PostingsRaced' /\ StatusKept'
  BY DEF IInv, TypeOK, PostingsOK, PostingsRaced, StatusKept, Post, At
<1>4. DeletedRaced' /\ JobsThere'
  BY DEF IInv, TypeOK, PostingsOK, DeletedRaced, JobsThere, Post, applied, Application,
         Postings
<1>5. ASSUME NEW w \in Workers PROVE EditTrue(w)'
  BY RequestTypes DEF IInv, TypeOK, PostingsOK, EditTrue, Post, At
<1> QED
  BY <1>1, <1>2, <1>3, <1>4, <1>5 DEF IInv, PostingsOK

LEMMA StartEditInv ==
  ASSUME IInv, NEW w \in Workers, NEW p \in Postings,
         NEW status \in {"published", "draft"}, NEW decides \in BOOLEAN,
         StartEdit(w, p, status, decides)
  PROVE  IInv'
<1> DEFINE r == [pc |-> "edit", posting |-> p, status |-> status, decides |-> decides]
<1>a. Become(w, r) /\ TypeOK /\ At(w, "idle")
  BY DEF IInv, StartEdit
<1>b. r \in Request
  BY DEF Request
<1>c. r.pc = "edit" /\ r.posting = p /\ r.status = status /\ r.decides = decides
  OBVIOUS
<1> HIDE DEF r
<1>d. req'[w] = r /\ \A v \in Workers \ {w} : req'[v] = req[v]
  BY <1>a, Becoming
<1>e. /\ \A q \in raced : q \in raced'
      /\ UNCHANGED <<board, deleted, decided, apps>>
  BY DEF StartEdit, Racing, posted, applied
<1>1. TypeOK'
  <2>1. req' \in [Workers -> Request]
    BY <1>a, <1>b, BecomingType
  <2>2. raced' \subseteq Postings \cup Ids
    BY <1>a DEF TypeOK, StartEdit, Racing
  <2>3. edits' \in 0..MaxEdits
    BY <1>a, Bounds DEF TypeOK, StartEdit
  <2> QED
    BY <1>a, <2>1, <2>2, <2>3 DEF TypeOK, StartEdit, posted, applied
<1>2. RowsOK'
  <2>1. UNCHANGED <<apps, serial, ordered, today, setting, peak, tuned>>
    BY DEF StartEdit, applied
  <2>2. \A v \in Workers : At(v, "amend")' => At(v, "amend") /\ req'[v] = req[v]
    BY <1>c, <1>d DEF At
  <2>3. \A v \in Workers : At(v, "apply")' <=> At(v, "apply")
    BY <1>a, <1>c, <1>d DEF At
  <2>4. \A v \in Workers : At(v, "apply") => req'[v] = req[v]
    BY <1>a, <1>d DEF At
  <2> QED
    BY <1>e, <2>1, <2>2, <2>3, <2>4, RowsKept
<1>3. PostingsRaced'
  <2>1. \A v \in Workers \ {w} :
          At(v, "edit") /\ req[v].posting = p => p \in raced'
    BY DEF StartEdit, Racing, Held, At
  <2>2. ASSUME NEW v \in Workers, NEW u \in Workers, v # u, At(v, "edit")',
               At(u, "edit")', req'[v].posting = req'[u].posting
        PROVE  req'[v].posting \in raced'
    <3>1. CASE v = w
      BY <1>c, <1>d, <2>1, <2>2, <3>1 DEF At
    <3>2. CASE u = w
      BY <1>c, <1>d, <2>1, <2>2, <3>2 DEF At
    <3>3. CASE v # w /\ u # w
      BY <1>d, <1>e, <2>2, <3>3 DEF At, IInv, PostingsOK, PostingsRaced
    <3> QED
      BY <3>1, <3>2, <3>3
  <2> QED
    BY <2>2 DEF PostingsRaced
<1>4. ASSUME NEW v \in Workers PROVE EditTrue(v)'
  <2>1. CASE v = w
    <3>1. board[p] # "absent"
      BY DEF StartEdit
    <3>2. p \in deleted => p \in raced'
      BY <3>1, <1>e DEF IInv, PostingsOK, DeletedRaced
    <3>3. ~decides /\ p \notin raced' => status = decided[p]
      BY <3>1, <1>e DEF StartEdit, IInv, PostingsOK, StatusKept
    <3> QED
      BY <1>c, <1>d, <1>e, <2>1, <3>1, <3>2, <3>3 DEF EditTrue
  <2>2. CASE v # w
    BY <1>d, <1>e, <2>2 DEF IInv, PostingsOK, EditTrue, At
  <2> QED
    BY <2>1, <2>2
<1>5. StatusKept' /\ DeletedRaced' /\ JobsThere'
  BY <1>e DEF IInv, PostingsOK, StatusKept, DeletedRaced, JobsThere
<1> QED
  BY <1>1, <1>2, <1>3, <1>4, <1>5 DEF IInv, PostingsOK

LEMMA SaveEditInv ==
  ASSUME IInv, NEW w \in Workers, SaveEdit(w)
  PROVE  IInv'
<1> DEFINE p == req[w].posting
<1>a. TypeOK /\ Become(w, Idle) /\ At(w, "edit")
  BY DEF IInv, SaveEdit
<1>b. p \in Postings /\ req[w].status \in {"published", "draft"}
  BY <1>a, RequestTypes
<1>c. /\ \A q \in Postings \ {p} : board'[q] = board[q] /\ decided'[q] = decided[q]
      /\ board'[p] = req[w].status
      /\ decided'[p] = IF req[w].decides THEN req[w].status ELSE decided[p]
      /\ raced' = raced /\ deleted' = deleted /\ apps' = apps
  BY <1>a, <1>b DEF SaveEdit, TypeOK, applied
<1>d. EditTrue(w) /\ DeletedRaced /\ StatusKept /\ JobsThere /\ PostingsRaced
  BY DEF IInv, PostingsOK
<1>1. TypeOK'
  <2>1. req' \in [Workers -> Request]
    BY <1>a, BecomingType DEF Request
  <2> QED
    BY <1>a, <1>b, <2>1 DEF TypeOK, SaveEdit, applied
<1>2. RowsOK'
  <2>1. UNCHANGED <<apps, serial, ordered, today, setting, peak, tuned>>
    BY DEF SaveEdit, applied
  <2>2. \A v \in Workers : At(v, "apply") => v # w /\ req'[v] = req[v]
    BY <1>a, Becoming DEF At
  <2>3. \A v \in Workers : At(v, "apply")' <=> At(v, "apply")
    BY <1>a, <2>2, NoNewCopy DEF At
  <2> QED
    BY <1>a, <1>c, <2>1, <2>2, <2>3, NoNewCopy, RowsKept
<1>3. PostingsRaced'
  BY <1>a, <1>c, <1>d, NoNewCopy DEF PostingsRaced
<1>4. ASSUME NEW v \in Workers PROVE EditTrue(v)'
  <2> SUFFICES ASSUME At(v, "edit")' PROVE EditTrue(v)'
    BY DEF EditTrue
  <2>1. v # w /\ req'[v] = req[v] /\ At(v, "edit") /\ EditTrue(v)
    BY <1>a, NoNewCopy DEF IInv, PostingsOK
  <2>2. req[v].posting \in Postings
    BY <1>a, <2>1, RequestTypes
  <2>3. CASE req[v].posting = p
    <3>1. p \in raced
      BY <1>a, <1>d, <2>1, <2>3 DEF PostingsRaced
    <3> QED
      BY <1>b, <1>c, <2>1, <2>3, <3>1 DEF EditTrue
  <2>4. CASE req[v].posting # p
    BY <1>c, <2>1, <2>2, <2>4 DEF EditTrue
  <2> QED
    BY <2>3, <2>4
<1>5. StatusKept'
  BY <1>a, <1>b, <1>c, <1>d DEF StatusKept, EditTrue
<1>6. DeletedRaced' /\ JobsThere'
  BY <1>a, <1>b, <1>c, <1>d DEF DeletedRaced, JobsThere, EditTrue, TypeOK, Application,
                                Postings
<1> QED
  BY <1>1, <1>2, <1>3, <1>4, <1>5, <1>6 DEF IInv, PostingsOK
\* The applications that remain are in good order, and no more are cooling.
LEMMA DeleteInv ==
  ASSUME IInv, NEW p \in Postings, Delete(p)
  PROVE  IInv'
<1>a. /\ TypeOK /\ \A q \in raced : q \in raced'
      /\ req' = req /\ apps' = {a \in apps : a.job # p} /\ deleted' = deleted \cup {p}
      /\ \A q \in Postings \ {p} : board'[q] = board[q]
      /\ board'[p] = "absent"
      /\ decided' = decided
  BY DEF IInv, Delete, Racing, TypeOK
<1>b. \A w \in Workers : At(w, "edit") /\ req[w].posting = p => p \in raced'
  BY DEF Delete, Racing, At
<1>1. TypeOK'
  <2>1. raced' \subseteq Postings \cup Ids /\ deleted' \subseteq Postings
    BY DEF Delete, Racing, IInv, TypeOK
  <2>2. board' \in [Postings -> {"absent", "published", "draft"}]
    BY DEF Delete, IInv, TypeOK
  <2> QED
    BY <1>a, <2>1, <2>2 DEF TypeOK, Delete
<1>2. RowsOK'
  <2>0. UNCHANGED <<serial, ordered, today, setting, peak, tuned>>
    BY DEF Delete
  <2>1. IsFiniteSet(apps) /\ IsFiniteSet(apps')
    BY <1>a, FS_Subset DEF IInv, RowsOK
  <2>2. Past' /\ SameJob' /\ RowsRaced' /\ TermsKept'
    BY <1>a, <2>0 DEF IInv, RowsOK, Past, SameJob, RowsRaced, TermsKept, Copy, At, Terms
  <2>3. ASSUME NEW w \in Workers PROVE AmendTrue(w)'
    BY <1>a, <2>0 DEF IInv, RowsOK, AmendTrue, Copy, At
  <2>4. ASSUME ~tuned PROVE Untuned'
    <3>1. Untuned
      BY <2>4 DEF IInv, RowsOK
    <3>2. CoolingApps' \subseteq CoolingApps /\ Applying' = Applying
      BY <1>a, <2>0 DEF CoolingApps, Cooling, Applying, At
    <3>3. IsFiniteSet(CoolingApps)
      BY <2>1, FS_Subset DEF CoolingApps
    <3>4. IsFiniteSet(CoolingApps') /\ Cardinality(CoolingApps') <= Cardinality(CoolingApps)
      BY <3>2, <3>3, FS_Subset
    <3>5. /\ Cardinality(CoolingApps) \in Nat /\ Cardinality(CoolingApps') \in Nat
          /\ Cardinality(Applying) \in Nat
      BY <3>3, <3>4, Bounds, FS_Subset, FS_CardinalityType DEF Applying
    <3>6. peak \in Nat
      BY <1>a, Bounds, FS_CardinalityType DEF TypeOK
    <3>7. (Cardinality(CoolingApps) + Cardinality(Applying) <= peak)'
      BY <2>0, <3>1, <3>2, <3>4, <3>5, <3>6 DEF Untuned
    <3> QED
      BY <1>a, <2>0, <3>1, <3>7 DEF Untuned, Copy, At
  <2> QED
    BY <2>0, <2>1, <2>2, <2>3, <2>4 DEF RowsOK
<1>3. PostingsRaced' /\ StatusKept'
  BY <1>a DEF IInv, PostingsOK, PostingsRaced, StatusKept, At
<1>4. DeletedRaced' /\ JobsThere'
  BY <1>a DEF IInv, PostingsOK, DeletedRaced, JobsThere, TypeOK, Application, Postings
<1>5. ASSUME NEW w \in Workers PROVE EditTrue(w)'
  <2>1. At(w, "edit") => req[w].posting \in Postings
    BY <1>a, RequestTypes
  <2> QED
    BY <1>a, <1>b, <2>1 DEF IInv, PostingsOK, EditTrue, At
<1> QED
  BY <1>1, <1>2, <1>3, <1>4, <1>5 DEF IInv, PostingsOK

\* The query finds an application if there is one.
LEMMA NewestExists ==
  ASSUME TypeOK, apps # {}
  PROVE  \E a \in apps : Newest(a)
<1> DEFINE Left == {MaxApps - a.at : a \in apps}
           Less == {ss \in Nat \X Nat : ss[1] < ss[2]}
<1>1. Left \subseteq Nat /\ Left # {} /\ \A a \in apps : a.at \in Nat
  BY Bounds DEF TypeOK, Application, Ids
<1>2. OpToRel(<, Nat) = Less
  BY DEF OpToRel
<1>3. IsWellFoundedOn(Less, Nat)
  BY <1>2, NatLessThanWellFounded, Zenon
<1>4. PICK i \in Left : \A j \in Left : ~ (<<j, i>> \in Less)
  <2> HIDE DEF Less, Left
  <2> QED
    BY <1>1, <1>3, WFMin
<1>5. ASSUME NEW j \in Left PROVE i <= j
  <2>1. i \in Nat /\ j \in Nat
    BY <1>1
  <2> HIDE DEF Left
  <2>2. <<j, i>> \in Nat \X Nat /\ <<j, i>>[1] = j /\ <<j, i>>[2] = i
    BY <2>1
  <2>3. ~ (j < i)
    BY <1>4, <2>2, Zenon
  <2> QED
    BY <2>1, <2>3
<1>6. PICK a \in apps : i = MaxApps - a.at
  BY <1>4
<1>7. ASSUME NEW b \in apps PROVE b.at <= a.at
  <2>1. i <= MaxApps - b.at
    BY <1>5
  <2> QED
    BY <1>1, <1>6, <2>1, Bounds
<1> QED
  BY <1>6, <1>7 DEF Newest

\* An application that passes the cooldown finds none cooling.
LEMMA NoneCooling ==
  ASSUME IInv, ~tuned, CooldownOver
  PROVE  CoolingApps = {}
<1> SUFFICES ASSUME NEW a \in apps, Cooling(a) PROVE FALSE
  BY DEF CoolingApps
<1>1. PICK b \in apps : Newest(b)
  BY NewestExists DEF IInv
<1>2. a.at <= b.at /\ ~Cooling(b)
  BY <1>1 DEF Newest, CooldownOver
<1>3. a.day <= b.day /\ a.cooldown = b.cooldown
  BY <1>1, <1>2 DEF IInv, RowsOK, Untuned
<1>4. a.day \in Nat /\ b.day \in Nat /\ a.cooldown \in Nat /\ today \in Nat
  BY RowNumbers, Numbers DEF IInv
<1> QED
  BY <1>2, <1>3, <1>4 DEF Cooling

LEMMA StartApplyInv ==
  ASSUME IInv, NEW w \in Workers, NEW j \in Jobs, StartApply(w, j)
  PROVE  IInv'
<1> DEFINE r == [pc |-> "apply", job |-> j, cooldown |-> setting]
           crowd == 1 + Cardinality(Applying)
<1>a. Become(w, r) /\ TypeOK /\ At(w, "idle")
  BY DEF IInv, StartApply
<1>b. r \in Request
  BY <1>a DEF Request, TypeOK
<1>c. r.pc = "apply" /\ r.cooldown = setting
  OBVIOUS
<1> HIDE DEF r
<1>d. req'[w] = r /\ \A v \in Workers \ {w} : req'[v] = req[v]
  BY <1>a, Becoming
<1>e. UNCHANGED <<board, deleted, decided, raced, apps, serial, ordered, tuned, setting,
                  today, edits>>
  BY DEF StartApply, posted
<1>f. \A v \in Workers : At(v, "amend")' => At(v, "amend") /\ req'[v] = req[v]
  BY <1>c, <1>d DEF At
<1>g. Applying' = Applying \cup {w} /\ w \notin Applying
  BY <1>a, <1>c, <1>d DEF Applying, At
<1>h. /\ Cardinality(Applying) \in Nat /\ Cardinality(Applying') = crowd
      /\ crowd <= Cardinality(Workers)
  <2>1. IsFiniteSet(Applying)
    BY Bounds, FS_Subset DEF Applying
  <2>2. Cardinality(Applying') = Cardinality(Applying) + 1
    BY <1>g, <2>1, FS_AddElement
  <2>3. Applying' \subseteq Workers
    BY DEF Applying
  <2>4. Cardinality(Applying') <= Cardinality(Workers)
    BY <2>3, Bounds, FS_Subset
  <2> QED
    BY <2>1, <2>2, <2>4, FS_CardinalityType
<1> HIDE DEF crowd
<1>i. peak' = (IF crowd > peak THEN crowd ELSE peak)
  BY DEF StartApply, crowd, Applying
<1>j. Cardinality(Workers) \in Nat /\ peak \in Nat /\ crowd \in Nat
  BY <1>a, <1>h, Bounds, FS_CardinalityType DEF TypeOK, crowd
<1>1. TypeOK'
  <2>1. req' \in [Workers -> Request]
    BY <1>a, <1>b, BecomingType
  <2>2. peak' \in 0..Cardinality(Workers)
    BY <1>a, <1>h, <1>i, <1>j DEF TypeOK
  <2> QED
    BY <1>a, <1>e, <2>1, <2>2 DEF TypeOK
<1>2. RowsOK'
  <2>1. IsFiniteSet(apps)'
    BY <1>e DEF IInv, RowsOK
  <2>2. Past' /\ SameJob' /\ RowsRaced' /\ TermsKept'
    BY <1>e, <1>f DEF IInv, RowsOK, Past, SameJob, RowsRaced, TermsKept, Copy, Terms
  <2>3. ASSUME NEW v \in Workers PROVE AmendTrue(v)'
    BY <1>e, <1>f DEF IInv, RowsOK, AmendTrue, Copy
  <2>4. ASSUME ~tuned PROVE Untuned'
    <3>1. Untuned
      BY <2>4 DEF IInv, RowsOK
    <3>2. CoolingApps' = {}
      <4>1. CoolingApps = {}
        BY <2>4, NoneCooling DEF StartApply
      <4> QED
        BY <1>e, <4>1 DEF CoolingApps, Cooling
    <3>3. (Cardinality(CoolingApps) + Cardinality(Applying) <= peak)'
      BY <1>h, <1>i, <1>j, <3>2, FS_EmptySet
    <3>4. \A v \in Workers : At(v, "apply")' => req'[v].cooldown = setting
      BY <1>c, <1>d, <3>1 DEF Untuned, At
    <3> QED
      BY <1>e, <1>f, <3>1, <3>3, <3>4 DEF Untuned, Copy
  <2> QED
    BY <1>e, <2>1, <2>2, <2>3, <2>4 DEF RowsOK
<1>3. PostingsOK'
  <2>1. \A v \in Workers : At(v, "edit")' => At(v, "edit") /\ req'[v] = req[v]
    BY <1>c, <1>d DEF At
  <2> QED
    BY <1>e, <2>1, PostingsKept DEF IInv, PostingsOK, JobsThere, posted
<1> QED
  BY <1>1, <1>2, <1>3 DEF IInv
\* Steps that add or replace no application but only change the request of w to idle.
LEMMA GoneIdle ==
  ASSUME TypeOK, NEW w \in Workers, Become(w, Idle)
  PROVE  /\ req' \in [Workers -> Request]
         /\ Applying' = Applying \ {w}
BY BecomingType, NoNewCopy, Becoming DEF Request, Applying, At, Idle, TypeOK

\* What is not inserted leaves the applications as they are.
LEMMA RefusedInv ==
  ASSUME IInv, NEW w \in Workers, Become(w, Idle), ~At(w, "edit"),
         UNCHANGED <<posted, raced, applied, setting, today, edits>>
  PROVE  IInv'
<1>a. TypeOK
  BY DEF IInv
<1>1. TypeOK'
  BY <1>a, GoneIdle DEF TypeOK, posted, applied
<1>2. RowsOK'
  <2>0. UNCHANGED <<apps, serial, ordered, tuned, peak, setting, today, raced>>
    BY DEF applied
  <2>1. IsFiniteSet(apps)'
    BY <2>0 DEF IInv, RowsOK
  <2>2. \A v \in Workers : At(v, "amend")' => At(v, "amend") /\ req'[v] = req[v]
    BY <1>a, NoNewCopy
  <2>3. Past' /\ SameJob' /\ RowsRaced' /\ TermsKept'
    BY <2>0, <2>2 DEF IInv, RowsOK, Past, SameJob, RowsRaced, TermsKept, Copy, Terms
  <2>4. ASSUME NEW v \in Workers PROVE AmendTrue(v)'
    BY <2>0, <2>2 DEF IInv, RowsOK, AmendTrue, Copy
  <2>5. ASSUME ~tuned PROVE Untuned'
    <3>1. Untuned
      BY <2>5 DEF IInv, RowsOK
    <3>2. CoolingApps' = CoolingApps
      BY <2>0 DEF CoolingApps, Cooling
    <3>3. IsFiniteSet(CoolingApps) /\ IsFiniteSet(Applying)
      BY Bounds, FS_Subset DEF IInv, RowsOK, CoolingApps, Applying
    <3>4. Cardinality(Applying') <= Cardinality(Applying)
      BY <1>a, <3>3, GoneIdle, FS_Subset
    <3>5. /\ Cardinality(CoolingApps) \in Nat /\ Cardinality(Applying) \in Nat
          /\ Cardinality(Applying') \in Nat
      BY <1>a, <3>3, GoneIdle, FS_CardinalityType, FS_Subset
    <3>6. (Cardinality(CoolingApps) + Cardinality(Applying) <= peak)'
      BY <1>a, <2>0, <3>1, <3>2, <3>4, <3>5, Numbers DEF Untuned
    <3>7. \A v \in Workers : At(v, "apply")' => req'[v].cooldown = setting
      BY <1>a, <3>1, NoNewCopy DEF Untuned
    <3> QED
      BY <2>0, <2>2, <3>1, <3>6, <3>7 DEF Untuned, Copy
  <2> QED
    BY <2>0, <2>1, <2>3, <2>4, <2>5 DEF RowsOK
<1>3. PostingsOK'
  BY <1>a, NoNewCopy, PostingsKept DEF IInv, PostingsOK, JobsThere, applied
<1> QED
  BY <1>1, <1>2, <1>3 DEF IInv

LEMMA InsertInv ==
  ASSUME IInv, NEW w \in Workers, InsertApplication(w)
  PROVE  IInv'
<1> DEFINE a  == Inserted(req[w])
           ok == ~Applied(a.job) /\ board[a.job] # "absent" /\ serial < MaxApps
<1>a. TypeOK /\ Become(w, Idle) /\ At(w, "apply")
  BY DEF IInv, InsertApplication
<1>1. CASE ~ok
  BY <1>a, <1>1, RefusedInv DEF InsertApplication, applied, At
<1>2. CASE ok
  <2>a. /\ apps' = apps \cup {a} /\ serial' = serial + 1
        /\ ordered' = [ordered EXCEPT ![a.id] = Terms(a)]
        /\ UNCHANGED <<posted, raced, tuned, peak, setting, today, edits>>
    BY <1>2 DEF InsertApplication
  <2>b. /\ a.id = serial + 1 /\ a.at = serial + 1 /\ a.day = today /\ a.job = req[w].job
        /\ a.cooldown = req[w].cooldown /\ a.status = "pending"
    BY DEF Inserted
  <2>c. \A b \in apps : b.job # a.job
    BY <1>2 DEF Applied
  <2>d. a \in Application /\ serial' \in 0..MaxApps
    <3>1. req[w].job \in Jobs /\ req[w].cooldown \in Cooldowns
      BY <1>a, RequestTypes
    <3>2. today \in 0..MaxDay /\ serial + 1 \in 1..MaxApps
      BY <1>2, <1>a, Bounds DEF TypeOK
    <3> QED
      BY <2>a, <3>1, <3>2 DEF Application, Inserted, Ids, Statuses
  <2>e. board[a.job] # "absent"
    BY <1>2
  <2> HIDE DEF a, ok
  <2>f. /\ \A b \in apps : b.id <= serial /\ b.at <= serial /\ b.day <= today
        /\ \A b \in apps : b.id \in Nat /\ b.day \in Nat
        /\ serial \in Nat /\ today \in Nat
    BY <1>a, RowNumbers, Numbers DEF IInv, RowsOK, Past
  <2>g. \A v \in Workers : At(v, "amend")' => At(v, "amend") /\ req'[v] = req[v]
    BY <1>a, NoNewCopy
  <2>h. \A v \in Workers : At(v, "amend") =>
          /\ Copy(v).id <= serial /\ Copy(v).at <= serial /\ Copy(v).day <= today
          /\ Copy(v).id \in Nat /\ Copy(v).at \in Nat /\ Copy(v).day \in Nat
    BY <1>a, RequestTypes, RowNumbers DEF IInv, RowsOK, Past
  <2>i. \A i \in Ids \ {a.id} : ordered'[i] = ordered[i]
    BY <1>a, <2>a DEF TypeOK
  <2>j. ordered'[a.id] = Terms(a)
    BY <1>a, <2>a, <2>d DEF TypeOK, Application
  <2>1. TypeOK'
    <3>1. \A b \in apps : b.id # a.id
      BY <2>b, <2>f
    <3>2. apps' \subseteq Application
      BY <1>a, <2>a, <2>d DEF TypeOK
    <3>3. \A b, c \in apps' : b.job = c.job \/ b.id = c.id => b = c
      BY <1>a, <2>a, <2>c, <3>1 DEF TypeOK
    <3>4. Terms(a) \in Decision
      BY <2>d DEF Terms, Application, Decision
    <3>5. ordered' \in [Ids -> Decision]
      BY <1>a, <2>a, <3>4 DEF TypeOK
    <3> QED
      BY <1>a, <2>a, <2>d, <3>2, <3>3, <3>5, GoneIdle DEF TypeOK, posted
  <2>2. IsFiniteSet(apps')
    BY <2>a, FS_AddElement DEF IInv, RowsOK
  <2>3. Past'
    <3>1. \A b \in apps' : b.id <= serial' /\ b.at <= serial' /\ b.day <= today'
      <4>1. \A b \in apps : b.at \in Nat
        BY <1>a, RowNumbers, Numbers
      <4> QED
        BY <2>a, <2>b, <2>f, <4>1
    <3>2. \A v \in Workers : At(v, "amend")' =>
            Copy(v)'.id <= serial' /\ Copy(v)'.at <= serial' /\ Copy(v)'.day <= today'
      BY <2>a, <2>f, <2>g, <2>h DEF Copy
    <3> QED
      BY <3>1, <3>2 DEF Past
  <2>4. SameJob' /\ RowsRaced'
    BY <2>a, <2>b, <2>f, <2>g, <2>h DEF IInv, RowsOK, SameJob, RowsRaced, Copy
  <2>5. TermsKept'
    <3>1. ASSUME NEW b \in apps, b.id \notin raced' PROVE ordered'[b.id] = Terms(b)
      <4>1. b.id # a.id /\ b.id \in Ids
        BY <1>a, <2>b, <2>f DEF TypeOK, Application
      <4> QED
        BY <2>a, <2>i, <3>1, <4>1 DEF IInv, RowsOK, TermsKept
    <3> QED
      BY <2>a, <2>j, <3>1 DEF TermsKept, Terms
  <2>6. ASSUME NEW v \in Workers PROVE AmendTrue(v)'
    <3> SUFFICES ASSUME At(v, "amend")' PROVE AmendTrue(v)'
      BY DEF AmendTrue
    <3>1. Copy(v).id # a.id /\ Copy(v).id \in Ids
      BY <1>a, <2>b, <2>f, <2>g, <2>h, RequestTypes DEF Application
    <3> QED
      BY <2>a, <2>g, <2>i, <3>1 DEF IInv, RowsOK, AmendTrue, Copy
  <2>7. ASSUME ~tuned PROVE Untuned'
    <3>1. Untuned
      BY <2>7 DEF IInv, RowsOK
    <3>2. CoolingApps' \subseteq CoolingApps \cup {a}
      BY <2>a DEF CoolingApps, Cooling
    <3>3. IsFiniteSet(CoolingApps) /\ IsFiniteSet(Applying)
      BY Bounds, FS_Subset DEF IInv, RowsOK, CoolingApps, Applying
    <3>4. /\ IsFiniteSet(CoolingApps \cup {a})
          /\ Cardinality(CoolingApps \cup {a}) <= Cardinality(CoolingApps) + 1
      BY <3>3, AddOne
    <3>5. /\ IsFiniteSet(CoolingApps')
          /\ Cardinality(CoolingApps') <= Cardinality(CoolingApps \cup {a})
      BY <3>2, <3>4, FS_Subset
    <3>6. /\ IsFiniteSet(Applying')
          /\ Cardinality(Applying') = Cardinality(Applying) - 1
      <4>1. w \in Applying /\ Applying' = Applying \ {w}
        BY <1>a, GoneIdle DEF Applying
      <4> QED
        BY <3>3, <4>1, FS_RemoveElement
    <3>7. /\ Cardinality(CoolingApps) \in Nat /\ Cardinality(Applying) \in Nat
          /\ Cardinality(CoolingApps') \in Nat /\ Cardinality(Applying') \in Nat
          /\ Cardinality(CoolingApps \cup {a}) \in Nat
      BY <3>3, <3>4, <3>5, <3>6, FS_CardinalityType
    <3>8. (Cardinality(CoolingApps) + Cardinality(Applying) <= peak)'
      BY <1>a, <2>a, <3>1, <3>4, <3>5, <3>6, <3>7, Numbers DEF Untuned
    <3>9. \A v \in Workers : At(v, "apply")' => req'[v].cooldown = setting
      BY <1>a, <3>1, NoNewCopy DEF Untuned
    <3>10. \A b \in apps' : b.at = b.id /\ b.cooldown = setting
      BY <1>a, <2>a, <2>b, <3>1 DEF Untuned
    <3>11. \A b, c \in apps' : b.id <= c.id => b.day <= c.day
      BY <2>a, <2>b, <2>f, <3>1 DEF Untuned
    <3>12. \A v \in Workers : At(v, "amend")' =>
             /\ Copy(v)'.at = Copy(v)'.id /\ Copy(v)'.cooldown = setting
             /\ req'[v].decides = "status"
             /\ \A b \in apps' : b.id = Copy(v)'.id => b.day = Copy(v)'.day
      BY <2>a, <2>b, <2>f, <2>g, <2>h, <3>1 DEF Untuned, Copy
    <3> QED
      BY <2>a, <3>8, <3>9, <3>10, <3>11, <3>12 DEF Untuned
  <2>8. RowsOK'
    BY <2>a, <2>2, <2>3, <2>4, <2>5, <2>6, <2>7 DEF RowsOK
  <2>9. PostingsOK'
    BY <1>a, <2>a, <2>e, NoNewCopy, PostingsKept DEF IInv, PostingsOK, JobsThere
  <2> QED
    BY <2>1, <2>8, <2>9 DEF IInv
<1> QED
  BY <1>1, <1>2
\* The serializer changes the field it is asked to change.
LEMMA AmendedFields ==
  ASSUME NEW a \in Application, NEW field, NEW value,
         \/ field = "status" /\ value \in Statuses
         \/ field = "cooldown" /\ value \in Cooldowns
  PROVE  LET b == Amended(a, field, value) IN
         /\ b \in Application
         /\ b.id = a.id /\ b.job = a.job /\ b.at = a.at /\ b.day = a.day
         /\ field = "status" => b.cooldown = a.cooldown
         /\ field = "cooldown" => b.status = a.status
BY DEF Amended, Application

LEMMA StartAmendInv ==
  ASSUME IInv, NEW w \in Workers, NEW a \in apps, NEW field, NEW value,
         \/ field = "status" /\ value \in Statuses
         \/ field = "cooldown" /\ value \in Cooldowns,
         StartAmend(w, a, field, value)
  PROVE  IInv'
<1> DEFINE b == Amended(a, field, value)
           r == [pc |-> "amend", row |-> b, decides |-> field]
<1>a. TypeOK /\ Become(w, r) /\ At(w, "idle") /\ a \in Application
  BY DEF IInv, TypeOK, StartAmend
<1>b. /\ b \in Application
      /\ b.id = a.id /\ b.job = a.job /\ b.at = a.at /\ b.day = a.day
      /\ field = "status" => b.cooldown = a.cooldown
      /\ field = "cooldown" => b.status = a.status
  BY <1>a, AmendedFields
<1> HIDE DEF b
<1>c. r \in Request /\ r.pc = "amend" /\ r.row = b /\ r.decides = field
  BY <1>b DEF Request
<1> HIDE DEF r
<1>d. req'[w] = r /\ \A v \in Workers \ {w} : req'[v] = req[v]
  BY <1>a, Becoming
<1>e. /\ \A q \in raced : q \in raced'
      /\ \A v \in Workers \ {w} : At(v, "amend") /\ Copy(v).id = a.id => a.id \in raced'
      /\ tuned' = (tuned \/ field = "cooldown")
      /\ UNCHANGED <<posted, apps, serial, ordered, peak, setting, today>>
  BY DEF StartAmend, Racing, HeldRow, At, Copy
<1>f. /\ \A v \in Workers : At(v, "edit")' => At(v, "edit") /\ req'[v] = req[v]
      /\ \A v \in Workers : At(v, "apply") => req'[v] = req[v]
      /\ \A v \in Workers : At(v, "apply")' <=> At(v, "apply")
  BY <1>a, <1>c, <1>d DEF At
<1>g. \A v \in Workers : At(v, "amend")' =>
        \/ v = w /\ req'[v] = r
        \/ v # w /\ At(v, "amend") /\ req'[v] = req[v]
  BY <1>d DEF At
<1>1. TypeOK'
  <2>1. req' \in [Workers -> Request]
    BY <1>a, <1>c, BecomingType
  <2>2. raced' \subseteq Postings \cup Ids
    BY <1>a DEF TypeOK, StartAmend, Racing, Application
  <2>3. edits' \in 0..MaxEdits
    BY <1>a, Bounds DEF TypeOK, StartAmend
  <2>4. tuned' \in BOOLEAN
    BY <1>e
  <2> QED
    BY <1>a, <1>e, <2>1, <2>2, <2>3, <2>4 DEF TypeOK, posted
<1>2. RowsOK'
  <2>0. Past /\ SameJob /\ RowsRaced /\ TermsKept /\ IsFiniteSet(apps)
    BY DEF IInv, RowsOK
  <2>1. Past'
    BY <1>b, <1>c, <1>e, <1>g, <2>0 DEF Past, Copy
  <2>2. SameJob'
    <3>1. \A v \in Workers, c \in apps :
            At(v, "amend")' /\ c.id = Copy(v)'.id => c.job = Copy(v)'.job
      BY <1>a, <1>b, <1>c, <1>g, <2>0 DEF SameJob, TypeOK, Copy
    <3>2. \A u, v \in Workers :
            At(u, "amend")' /\ At(v, "amend")' /\ Copy(u)'.id = Copy(v)'.id =>
              Copy(u)'.job = Copy(v)'.job
      BY <1>b, <1>c, <1>g, <2>0 DEF SameJob, Copy
    <3> QED
      BY <1>e, <3>1, <3>2 DEF SameJob
  <2>3. RowsRaced'
    BY <1>b, <1>c, <1>e, <1>g, <2>0 DEF RowsRaced, Copy
  <2>4. TermsKept'
    BY <1>e, <2>0 DEF TermsKept, Terms
  <2>5. ASSUME NEW v \in Workers PROVE AmendTrue(v)'
    <3> SUFFICES ASSUME At(v, "amend")', Copy(v)'.id \notin raced' PROVE AmendTrue(v)'
      BY DEF AmendTrue
    <3>1. CASE v = w
      <4>1. ordered[a.id] = Terms(a)
        BY <1>b, <1>c, <1>d, <1>e, <2>0, <3>1 DEF TermsKept, Copy
      <4> QED
        BY <1>b, <1>c, <1>d, <1>e, <3>1, <4>1 DEF AmendTrue, Copy, Terms
    <3>2. CASE v # w
      BY <1>e, <1>g, <3>2 DEF IInv, RowsOK, AmendTrue, Copy
    <3> QED
      BY <3>1, <3>2
  <2>6. ASSUME ~tuned' PROVE Untuned'
    <3>1. Untuned /\ field = "status"
      BY <1>e, <2>6 DEF IInv, RowsOK
    <3>2. CoolingApps' = CoolingApps /\ Applying' = Applying
      BY <1>e, <1>f DEF CoolingApps, Cooling, Applying
    <3>3. (Cardinality(CoolingApps) + Cardinality(Applying) <= peak)'
      BY <1>e, <3>1, <3>2 DEF Untuned
    <3>4. \A v \in Workers : At(v, "amend")' =>
            /\ Copy(v)'.at = Copy(v)'.id /\ Copy(v)'.cooldown = setting
            /\ req'[v].decides = "status"
            /\ \A c \in apps : c.id = Copy(v)'.id => c.day = Copy(v)'.day
      BY <1>a, <1>b, <1>c, <1>g, <3>1 DEF Untuned, Copy, TypeOK
    <3> QED
      BY <1>e, <1>f, <3>1, <3>3, <3>4 DEF Untuned
  <2> QED
    BY <1>e, <2>0, <2>1, <2>2, <2>3, <2>4, <2>5, <2>6 DEF RowsOK
<1>3. PostingsOK'
  BY <1>e, <1>f, PostingsKept DEF IInv, PostingsOK, JobsThere, posted
<1> QED
  BY <1>1, <1>2, <1>3 DEF IInv

LEMMA SetCooldownInv ==
  ASSUME IInv, NEW days \in Cooldowns, SetCooldown(days)
  PROVE  IInv'
<1>1. TypeOK'
  BY Bounds DEF IInv, TypeOK, SetCooldown, posted
<1>2. IsFiniteSet(apps)' /\ Past' /\ SameJob' /\ RowsRaced' /\ TermsKept'
  BY DEF IInv, RowsOK, SetCooldown, Past, SameJob, RowsRaced, TermsKept, Copy, At, Terms
<1>3. ASSUME NEW w \in Workers PROVE AmendTrue(w)'
  BY DEF IInv, RowsOK, SetCooldown, AmendTrue, Copy, At
<1>4. PostingsOK'
  BY PostingsKept DEF IInv, PostingsOK, JobsThere, SetCooldown, posted, At
<1> QED
  BY <1>1, <1>2, <1>3, <1>4 DEF IInv, RowsOK, SetCooldown

LEMMA AdvanceDayInv ==
  ASSUME IInv, AdvanceDay
  PROVE  IInv'
<1>a. /\ today' = today + 1
      /\ UNCHANGED <<apps, serial, ordered, tuned, peak, raced, setting, req>>
  BY DEF AdvanceDay, applied
<1>b. TypeOK
  BY DEF IInv
<1>1. TypeOK'
  BY Bounds DEF IInv, TypeOK, AdvanceDay, posted, applied
<1>2. IsFiniteSet(apps)' /\ SameJob' /\ RowsRaced' /\ TermsKept'
  BY <1>a DEF IInv, RowsOK, SameJob, RowsRaced, TermsKept, Copy, At, Terms
<1>3. Past'
  <2>1. \A a \in apps : a.id \in Nat /\ a.at \in Nat /\ a.day \in Nat
    BY <1>b, RowNumbers, Numbers
  <2>2. \A w \in Workers : At(w, "amend") => Copy(w).day \in Nat
    BY <1>b, RequestTypes, RowNumbers
  <2> QED
    BY <1>a, <1>b, <2>1, <2>2, Numbers DEF IInv, RowsOK, Past, Copy, At
<1>4. ASSUME NEW w \in Workers PROVE AmendTrue(w)'
  BY <1>a DEF IInv, RowsOK, AmendTrue, Copy, At
<1>5. ASSUME ~tuned PROVE Untuned'
  <2>1. Untuned
    BY <1>5 DEF IInv, RowsOK
  <2>2. CoolingApps' \subseteq CoolingApps
    <3>1. ASSUME NEW a \in apps, today' - a.day < a.cooldown PROVE today - a.day < a.cooldown
      BY <1>a, <1>b, <3>1, RowNumbers, Numbers
    <3> QED
      BY <1>a, <3>1 DEF CoolingApps, Cooling
  <2>3. IsFiniteSet(CoolingApps)
    BY FS_Subset DEF IInv, RowsOK, CoolingApps
  <2>4. IsFiniteSet(CoolingApps') /\ Cardinality(CoolingApps') <= Cardinality(CoolingApps)
    BY <2>2, <2>3, FS_Subset
  <2>5. Applying' = Applying /\ IsFiniteSet(Applying)
    BY <1>a, Bounds, FS_Subset DEF Applying, At
  <2>6. /\ Cardinality(CoolingApps) \in Nat /\ Cardinality(CoolingApps') \in Nat
        /\ Cardinality(Applying) \in Nat
    BY <2>3, <2>4, <2>5, FS_CardinalityType
  <2>7. (Cardinality(CoolingApps) + Cardinality(Applying) <= peak)'
    BY <1>a, <1>b, <2>1, <2>4, <2>5, <2>6, Numbers DEF Untuned
  <2> QED
    BY <1>a, <2>1, <2>7 DEF Untuned, Copy, At
<1>6. PostingsOK'
  BY <1>a, PostingsKept DEF IInv, PostingsOK, JobsThere, AdvanceDay, At
<1> QED
  BY <1>a, <1>1, <1>2, <1>3, <1>4, <1>5, <1>6 DEF IInv, RowsOK
\* The row is there: the copy takes its place.
LEMMA RewriteInv ==
  ASSUME IInv, NEW w \in Workers, SaveAmend(w), NEW b \in apps, b.id = Copy(w).id
  PROVE  IInv'
<1> DEFINE a == Copy(w)
           f == req[w].decides
<1>a. TypeOK /\ Become(w, Idle) /\ At(w, "amend") /\ RowsOK
  BY DEF IInv, SaveAmend
<1>b. a \in Application /\ b \in Application /\ f \in {"status", "cooldown"}
  BY <1>a, RequestTypes DEF TypeOK
<1>c. /\ apps' = {c \in apps : c.id # a.id} \cup {a}
      /\ ordered' = [ordered EXCEPT ![a.id][f] = a[f]]
      /\ tuned' = tuned
      /\ UNCHANGED <<posted, serial, raced, peak, setting, today, edits>>
  BY <1>a DEF SaveAmend, Copy, TypeOK
<1>d. a.job = b.job
  BY <1>a DEF RowsOK, SameJob
<1>e. \A v \in Workers :
        /\ At(v, "edit")' => At(v, "edit") /\ req'[v] = req[v]
        /\ At(v, "apply")' => At(v, "apply") /\ req'[v] = req[v]
        /\ At(v, "amend")' => v # w /\ At(v, "amend") /\ req'[v] = req[v]
  BY <1>a, NoNewCopy
<1>f. /\ ordered' \in [Ids -> Decision]
      /\ \A i \in Ids \ {a.id} : ordered'[i] = ordered[i]
      /\ a.id \notin raced => ordered'[a.id] = Terms(a)
  <2>1. ordered \in [Ids -> Decision] /\ a.id \in Ids
    BY <1>a, <1>b DEF TypeOK, Application
  <2>2. ordered[a.id] \in Decision
    BY <2>1
  <2>3. AmendTrue(w)
    BY <1>a DEF RowsOK
  <2>4. CASE f = "status"
    <3>1. ordered' = [ordered EXCEPT ![a.id] = [ordered[a.id] EXCEPT !.status = a.status]]
      BY <1>c, <2>1, <2>4
    <3> QED
      BY <1>a, <1>b, <2>1, <2>2, <2>3, <2>4, <3>1
      DEF AmendTrue, Terms, Decision, Application
  <2>5. CASE f = "cooldown"
    <3>1. ordered' =
            [ordered EXCEPT ![a.id] = [ordered[a.id] EXCEPT !.cooldown = a.cooldown]]
      BY <1>c, <2>1, <2>5
    <3> QED
      BY <1>a, <1>b, <2>1, <2>2, <2>3, <2>5, <3>1
      DEF AmendTrue, Terms, Decision, Application
  <2> QED
    BY <1>b, <2>4, <2>5
<1>g. Past /\ SameJob /\ RowsRaced /\ TermsKept /\ IsFiniteSet(apps)
  BY <1>a DEF RowsOK
<1>h. \A c \in apps : c.id \in Ids
  BY <1>a DEF TypeOK, Application
<1>i. \A c \in apps' : c = a \/ (c \in apps /\ c.id # a.id)
  BY <1>c
<1> HIDE DEF f
<1>1. TypeOK'
  <2>1. apps' \subseteq Application
    BY <1>a, <1>b, <1>c DEF TypeOK
  <2>2. \A c, d \in apps' : c.job = d.job \/ c.id = d.id => c = d
    <3>1. \A c \in apps : c.id # a.id => c.job # a.job
      BY <1>a, <1>d DEF TypeOK
    <3> QED
      BY <1>a, <1>i, <3>1 DEF TypeOK
  <2> QED
    BY <1>a, <1>c, <1>f, <2>1, <2>2, GoneIdle DEF TypeOK, posted
<1>2. IsFiniteSet(apps')
  <2>1. IsFiniteSet({c \in apps : c.id # a.id})
    BY <1>g, FS_Subset
  <2> QED
    BY <1>c, <2>1, FS_AddElement
<1>3. Past'
  BY <1>a, <1>c, <1>e, <1>g, <1>i DEF Past, Copy
<1>4. SameJob'
  BY <1>a, <1>c, <1>e, <1>g, <1>i DEF SameJob, Copy
<1>5. RowsRaced' /\ TermsKept'
  BY <1>c, <1>e, <1>f, <1>g, <1>h, <1>i DEF RowsRaced, TermsKept, Copy, Terms
<1>6. ASSUME NEW v \in Workers PROVE AmendTrue(v)'
  <2> SUFFICES ASSUME At(v, "amend")', Copy(v)'.id \notin raced' PROVE AmendTrue(v)'
    BY DEF AmendTrue
  <2>1. v # w /\ At(v, "amend") /\ req'[v] = req[v] /\ Copy(v)' = Copy(v)
    BY <1>e DEF Copy
  <2>2. Copy(v).id # a.id /\ Copy(v).id \in Ids
    BY <1>a, <1>c, <1>g, <2>1, RequestTypes DEF RowsRaced, Application
  <2> QED
    BY <1>a, <1>c, <1>f, <2>1, <2>2 DEF RowsOK, AmendTrue
<1>7. ASSUME ~tuned PROVE Untuned'
  <2>1. Untuned
    BY <1>7, <1>a DEF RowsOK
  <2>2. a.day = b.day /\ a.cooldown = setting /\ a.at = a.id
    BY <1>a, <2>1 DEF Untuned
  <2>3. b.cooldown = setting
    BY <2>1 DEF Untuned
  <2> HIDE DEF a
  <2>4. (Cooling(a) <=> Cooling(b)) /\ \A c : Cooling(c)' <=> Cooling(c)
    BY <1>c, <2>2, <2>3 DEF Cooling
  <2>5. CoolingApps' \subseteq (IF Cooling(b) THEN (CoolingApps \ {b}) \cup {a}
                                              ELSE CoolingApps)
    BY <1>i, <2>4 DEF CoolingApps, a
  <2>6. IsFiniteSet(CoolingApps) /\ IsFiniteSet(Applying)
    BY <1>g, Bounds, FS_Subset DEF CoolingApps, Applying
  <2>7. /\ IsFiniteSet(CoolingApps')
        /\ Cardinality(CoolingApps') <= Cardinality(CoolingApps)
    <3>1. CASE Cooling(b)
      <4>1. b \in CoolingApps
        BY <3>1 DEF CoolingApps
      <4>2. /\ IsFiniteSet(CoolingApps \ {b})
            /\ Cardinality(CoolingApps \ {b}) = Cardinality(CoolingApps) - 1
        BY <2>6, <4>1, FS_RemoveElement
      <4>3. /\ IsFiniteSet((CoolingApps \ {b}) \cup {a})
            /\ Cardinality((CoolingApps \ {b}) \cup {a}) <= Cardinality(CoolingApps \ {b}) + 1
        BY <4>2, AddOne
      <4>4. /\ IsFiniteSet(CoolingApps')
            /\ Cardinality(CoolingApps') <= Cardinality((CoolingApps \ {b}) \cup {a})
        BY <2>5, <3>1, <4>3, FS_Subset
      <4>5. /\ Cardinality(CoolingApps) \in Nat /\ Cardinality(CoolingApps') \in Nat
            /\ Cardinality(CoolingApps \ {b}) \in Nat
            /\ Cardinality((CoolingApps \ {b}) \cup {a}) \in Nat
        BY <2>6, <4>2, <4>3, <4>4, FS_CardinalityType
      <4> QED
        BY <4>2, <4>3, <4>4, <4>5
    <3>2. CASE ~Cooling(b)
      BY <2>5, <2>6, <3>2, FS_Subset
    <3> QED
      BY <3>1, <3>2
  <2>8. /\ IsFiniteSet(Applying') /\ Cardinality(Applying') <= Cardinality(Applying)
    BY <1>a, <2>6, GoneIdle, FS_Subset
  <2>9. /\ Cardinality(CoolingApps) \in Nat /\ Cardinality(CoolingApps') \in Nat
        /\ Cardinality(Applying) \in Nat /\ Cardinality(Applying') \in Nat
    BY <2>6, <2>7, <2>8, FS_CardinalityType
  <2>10. (Cardinality(CoolingApps) + Cardinality(Applying) <= peak)'
    BY <1>a, <1>c, <2>1, <2>7, <2>8, <2>9, Numbers DEF Untuned
  <2>11. \A c \in apps' : c.at = c.id /\ c.cooldown = setting
    BY <1>i, <2>1, <2>2 DEF Untuned
  <2>12. \A c, d \in apps' : c.id <= d.id => c.day <= d.day
    <3>1. \A c \in apps' : \E e \in apps : e.id = c.id /\ e.day = c.day
      BY <1>i, <2>2 DEF a
    <3> QED
      BY <2>1, <3>1 DEF Untuned
  <2>13. \A v \in Workers : At(v, "amend")' =>
           /\ Copy(v)'.at = Copy(v)'.id /\ Copy(v)'.cooldown = setting
           /\ req'[v].decides = "status"
           /\ \A c \in apps' : c.id = Copy(v)'.id => c.day = Copy(v)'.day
    <3>1. \A c \in apps' : \E e \in apps : e.id = c.id /\ e.day = c.day
      BY <1>i, <2>2 DEF a
    <3> QED
      BY <1>e, <2>1, <3>1 DEF Untuned, Copy
  <2> QED
    BY <1>c, <1>e, <2>1, <2>10, <2>11, <2>12, <2>13 DEF Untuned
<1>8. RowsOK'
  BY <1>2, <1>3, <1>4, <1>5, <1>6, <1>7, <1>c DEF RowsOK
<1>9. PostingsOK'
  BY <1>c, <1>d, <1>e, <1>i, PostingsKept DEF IInv, PostingsOK, JobsThere
<1> QED
  BY <1>1, <1>8, <1>9 DEF IInv

LEMMA SaveAmendInv ==
  ASSUME IInv, NEW w \in Workers, SaveAmend(w)
  PROVE  IInv'
<1> DEFINE a == Copy(w)
           f == req[w].decides
           n == [a EXCEPT !.at = serial + 1, !.day = today]
           there == \E b \in apps : b.id = a.id
           again == ~there /\ board[a.job] # "absent" /\ ~Applied(a.job) /\ serial < MaxApps
<1>a. TypeOK /\ Become(w, Idle) /\ At(w, "amend") /\ RowsOK
  BY DEF IInv, SaveAmend
<1>1. CASE there
  BY <1>1, RewriteInv
<1>2. CASE again
  <2>a. /\ apps' = apps \cup {n} /\ serial' = serial + 1 /\ tuned'
        /\ ordered' = [ordered EXCEPT ![a.id][f] = a[f]]
        /\ UNCHANGED <<posted, raced, peak, setting, today, edits>>
    BY <1>2 DEF SaveAmend, Copy
  <2>b. a \in Application /\ f \in {"status", "cooldown"} /\ a.id \in Ids
    BY <1>a, RequestTypes DEF Application
  <2>c. /\ n \in Application /\ n.id = a.id /\ n.job = a.job /\ n.status = a.status
        /\ n.cooldown = a.cooldown /\ n.at = serial + 1 /\ n.day = today
        /\ serial' \in 0..MaxApps
    <3>1. today \in 0..MaxDay /\ serial + 1 \in 1..MaxApps /\ serial + 1 \in 0..MaxApps
      BY <1>a, <1>2, Bounds DEF TypeOK
    <3> QED
      BY <2>a, <2>b, <3>1 DEF Application, Ids
  <2>d. \A b \in apps : b.id # a.id /\ b.job # a.job
    BY <1>2 DEF Applied
  <2>e. board[a.job] # "absent"
    BY <1>2
  <2>f. /\ ordered' \in [Ids -> Decision]
        /\ \A i \in Ids \ {a.id} : ordered'[i] = ordered[i]
        /\ a.id \notin raced => ordered'[a.id] = Terms(a)
    <3>1. ordered \in [Ids -> Decision]
      BY <1>a DEF TypeOK
    <3>2. ordered[a.id] \in Decision /\ AmendTrue(w)
      BY <1>a, <2>b, <3>1 DEF RowsOK
    <3>3. CASE f = "status"
      <4>1. ordered' = [ordered EXCEPT ![a.id] = [ordered[a.id] EXCEPT !.status = a.status]]
        BY <2>a, <2>b, <3>1, <3>3
      <4> QED
        BY <1>a, <2>b, <3>1, <3>2, <3>3, <4>1
        DEF AmendTrue, Terms, Decision, Application
    <3>4. CASE f = "cooldown"
      <4>1. ordered' =
              [ordered EXCEPT ![a.id] = [ordered[a.id] EXCEPT !.cooldown = a.cooldown]]
        BY <2>a, <2>b, <3>1, <3>4
      <4> QED
        BY <1>a, <2>b, <3>1, <3>2, <3>4, <4>1
        DEF AmendTrue, Terms, Decision, Application
    <3> QED
      BY <2>b, <3>3, <3>4
  <2>g. \A v \in Workers :
          /\ At(v, "edit")' => At(v, "edit") /\ req'[v] = req[v]
          /\ At(v, "amend")' => v # w /\ At(v, "amend") /\ req'[v] = req[v]
    BY <1>a, NoNewCopy
  <2>h. /\ Past /\ SameJob /\ RowsRaced /\ TermsKept /\ IsFiniteSet(apps)
        /\ \A c \in apps : c.id \in Ids
    BY <1>a DEF RowsOK, TypeOK, Application
  <2> HIDE DEF n, there, again, f
  <2>1. TypeOK'
    <3>1. apps' \subseteq Application
      BY <1>a, <2>a, <2>c DEF TypeOK
    <3>2. \A b, c \in apps' : b.job = c.job \/ b.id = c.id => b = c
      BY <1>a, <2>a, <2>c, <2>d DEF TypeOK
    <3> QED
      BY <1>a, <2>a, <2>c, <2>f, <3>1, <3>2, GoneIdle DEF TypeOK, posted
  <2>2. IsFiniteSet(apps')
    BY <2>a, <2>h, FS_AddElement
  <2>3. Past'
    <3>1. a.id <= serial /\ serial \in Nat /\ today \in Nat /\ a.id \in Nat
      BY <1>a, <2>b, <2>h, Numbers, RowNumbers DEF Past
    <3>2. \A b \in apps : b.id \in Nat /\ b.at \in Nat
      BY <1>a, RowNumbers, Numbers
    <3>3. \A v \in Workers : At(v, "amend") => Copy(v).id \in Nat /\ Copy(v).at \in Nat
      BY <1>a, RequestTypes, RowNumbers
    <3>4. \A b \in apps' : b.id <= serial' /\ b.at <= serial' /\ b.day <= today'
      BY <2>a, <2>c, <2>h, <3>1, <3>2 DEF Past
    <3>5. \A v \in Workers : At(v, "amend")' =>
            Copy(v)'.id <= serial' /\ Copy(v)'.at <= serial' /\ Copy(v)'.day <= today'
      BY <2>a, <2>g, <2>h, <3>1, <3>3 DEF Past, Copy
    <3> QED
      BY <3>4, <3>5 DEF Past
  <2>4. SameJob'
    BY <1>a, <2>a, <2>c, <2>g, <2>h DEF SameJob, Copy
  <2>5. RowsRaced' /\ TermsKept'
    BY <2>a, <2>c, <2>d, <2>f, <2>g, <2>h DEF RowsRaced, TermsKept, Copy, Terms
  <2>6. ASSUME NEW v \in Workers PROVE AmendTrue(v)'
    <3> SUFFICES ASSUME At(v, "amend")', Copy(v)'.id \notin raced' PROVE AmendTrue(v)'
      BY DEF AmendTrue
    <3>1. v # w /\ At(v, "amend") /\ req'[v] = req[v] /\ Copy(v)' = Copy(v)
      BY <2>g DEF Copy
    <3>2. Copy(v).id # a.id /\ Copy(v).id \in Ids
      BY <1>a, <2>a, <2>h, <3>1, RequestTypes DEF RowsRaced, Application
    <3> QED
      BY <1>a, <2>a, <2>f, <3>1, <3>2 DEF RowsOK, AmendTrue
  <2>7. PostingsOK'
    BY <2>a, <2>c, <2>e, <2>g, PostingsKept DEF IInv, PostingsOK, JobsThere
  <2> QED
    BY <2>a, <2>1, <2>2, <2>3, <2>4, <2>5, <2>6, <2>7 DEF IInv, RowsOK
<1>3. CASE ~there /\ ~again
  <2>1. apps' = apps /\ serial' = serial /\ ordered' = ordered /\ tuned' = tuned
    BY <1>a, <1>3 DEF SaveAmend, Copy, TypeOK
  <2> QED
    BY <1>a, <2>1, RefusedInv DEF SaveAmend, applied, At
<1> QED
  BY <1>1, <1>2, <1>3

-----------------------------------------------------------------------------
LEMMA StepInv == IInv /\ [Next]_vars => IInv'
<1> SUFFICES ASSUME IInv, [Next]_vars PROVE IInv'
  OBVIOUS
<1>1. CASE UNCHANGED vars
  <2>1. UNCHANGED <<board, apps, setting, today, req, serial, deleted, raced, decided,
                    ordered, tuned, peak, edits>>
    BY <1>1 DEF vars
  <2>2. TypeOK'
    BY <2>1 DEF IInv, TypeOK
  <2>3. RowsOK' /\ PostingsOK'
    BY <2>1, RowsKept, PostingsKept DEF IInv, PostingsOK, JobsThere, posted, At
  <2> QED
    BY <2>2, <2>3 DEF IInv
<1>2. ASSUME NEW p \in Postings, NEW s \in {"published", "draft"}, Post(p, s)
      PROVE  IInv'
  BY <1>2, PostInv
<1>3. ASSUME NEW p \in Postings, NEW s \in {"published", "draft"}, NEW w \in Workers,
             NEW d \in BOOLEAN, StartEdit(w, p, s, d)
      PROVE  IInv'
  BY <1>3, StartEditInv
<1>4. ASSUME NEW p \in Postings, Delete(p) PROVE IInv'
  BY <1>4, DeleteInv
<1>5. ASSUME NEW w \in Workers, NEW j \in Jobs, StartApply(w, j) PROVE IInv'
  BY <1>5, StartApplyInv
<1>6. ASSUME NEW w \in Workers, NEW j \in Jobs, RefuseApply(w, j) PROVE IInv'
  BY <1>1, <1>6 DEF RefuseApply
<1>7. ASSUME NEW w \in Workers, NEW a \in apps, Change(w, a) PROVE IInv'
  BY <1>7, StartAmendInv DEF Change
<1>8. ASSUME NEW w \in Workers, SaveEdit(w) \/ InsertApplication(w) \/ SaveAmend(w)
      PROVE  IInv'
  BY <1>8, SaveEditInv, InsertInv, SaveAmendInv
<1>9. ASSUME NEW days \in Cooldowns, SetCooldown(days) PROVE IInv'
  BY <1>9, SetCooldownInv
<1>10. CASE AdvanceDay
  BY <1>10, AdvanceDayInv
<1> QED
  BY <1>1, <1>2, <1>3, <1>4, <1>5, <1>6, <1>7, <1>8, <1>9, <1>10 DEF Next

LEMMA Invariance == Spec => []IInv
BY InitInv, StepInv, PTL DEF Spec

-----------------------------------------------------------------------------
\* Every variable keeps to its type, and the student never has two applications for
\* a job (the serializer's query and the unique key).
THEOREM CareerTypeCorrect == Spec => []TypeOK
<1>1. IInv => TypeOK
  BY DEF IInv
<1> QED
  BY <1>1, Invariance, PTL

\* A posting that was deleted comes back only if a request that overlapped the
\* deletion saved its copy; an application's job is there (JobDetailView.delete).
THEOREM CareerDeletionFinal == Spec => []DeletionFinal
<1>1. IInv => DeletionFinal
  BY DEF IInv, PostingsOK, DeletedRaced, JobsThere, DeletionFinal
<1> QED
  BY <1>1, Invariance, PTL

\* Whatever admins decided last about a testimonial or an application is what its row
\* says, unless edits of that row overlapped.
THEOREM CareerEditsKept == Spec => []QuietEditsKept
<1>1. IInv => QuietEditsKept
  BY DEF IInv, PostingsOK, RowsOK, StatusKept, TermsKept, QuietEditsKept
<1> QED
  BY <1>1, Invariance, PTL

\* With cooldowns left alone, no more applications are cooling than requests were
\* between the check and the insert at once (ApplyJobView.post).
THEOREM CareerBurstBounded == Spec => []BurstBounded
<1>1. IInv => BurstBounded
  <2> SUFFICES ASSUME IInv, ~tuned PROVE Cardinality(CoolingApps) <= peak
    BY DEF BurstBounded, CoolingApps
  <2>1. Cardinality(CoolingApps) + Cardinality(Applying) <= peak
    BY DEF IInv, RowsOK, Untuned
  <2>2. IsFiniteSet(CoolingApps) /\ IsFiniteSet(Applying)
    BY Bounds, FS_Subset DEF IInv, RowsOK, CoolingApps, Applying
  <2>3. /\ Cardinality(CoolingApps) \in Nat /\ Cardinality(Applying) \in Nat
        /\ peak \in Nat
    BY <2>2, FS_CardinalityType, Numbers DEF IInv
  <2> QED
    BY <2>1, <2>3
<1> QED
  BY <1>1, Invariance, PTL

=============================================================================
