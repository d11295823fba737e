----------------------------- MODULE PanelProofs -----------------------------
(***************************************************************************)
(* Theorems about Panel, for any candidates, settings and bounds.          *)
(***************************************************************************)
EXTENDS Panel, FiniteSetTheorems, TLAPS

LEMMA Constants ==
  /\ IsFiniteSet(Candidates) /\ MaxTime \in Nat /\ MaxUpdates \in Nat
  /\ \A k \in Configs, d \in Dims : k.scope[d] \in SUBSET Values
<1>1. \A k \in Configs, d \in Dims : k.scope[d] \in SUBSET Values
  <2> TAKE k \in Configs, d \in Dims
  <2>1. k.scope \in Seq(SUBSET Values) /\ Len(k.scope) = 3
    BY PanelAssumption DEF PanelAssumption
  <2> QED
    BY <2>1 DEF Dims
<1> QED
  BY <1>1, PanelAssumption DEF PanelAssumption

LEMMA Counting ==
  ASSUME NEW S, S \subseteq Candidates
  PROVE  /\ IsFiniteSet(S) /\ Cardinality(S) \in Nat
         /\ \A T \in SUBSET S : Cardinality(T) \in Nat /\ Cardinality(T) <= Cardinality(S)
BY Constants, FS_Subset, FS_CardinalityType

(***************************************************************************)
(* Types.                                                                  *)
(***************************************************************************)

Checked == {"query", "count", "save", "done"}

\* One kind of scope rows is read after the other.
Rhythm ==
  req # Idle =>
    /\ req.pc = "module" => Len(req.seen) = 0
    /\ req.pc = "scope" => Len(req.seen) < 3
    /\ req.pc \in Checked => Len(req.seen) = 3
    /\ req.pc = "save" => req.kind \in Writes
    /\ req.pc = "count" => req.kind = "cards"

Typed == TypeOK /\ Rhythm

LEMMA InitTyped == Init => Typed
BY Constants DEF Init, Typed, TypeOK, Moments, Rhythm

LEMMA Flying ==
  ASSUME TypeOK
  PROVE  /\ At("idle") <=> req = Idle
         /\ req # Idle => req \in InFlight
BY DEF TypeOK, At, Idle, InFlight

LEMMA ApplyTyped ==
  ASSUME TypeOK, NEW kind \in Writes, NEW c \in Candidates, Apply(kind, c)
  PROVE  live' \subseteq Candidates /\ referred' \subseteq Candidates
BY DEF TypeOK, Apply, Writes

LEMMA Fields ==
  ASSUME NEW r \in InFlight
  PROVE  /\ r.seen \in Seq(SUBSET Values) /\ Len(r.seen) \in Nat
         /\ r.total \in Nat /\ r.hits \in SUBSET Candidates
         /\ r.since \in SUBSET Configs /\ r.began \in Moments
<1>1. r.seen \in Seq(SUBSET Values)
  BY DEF InFlight
<1>2. /\ r.total \in Nat /\ r.hits \in SUBSET Candidates
      /\ r.since \in SUBSET Configs /\ r.began \in Moments
  BY DEF InFlight
<1> QED
  BY <1>1, <1>2

\* What the request becomes in each step.
LEMMA RequestTyped ==
  ASSUME NEW r \in InFlight
  PROVE  /\ \A pc \in {"scope"} \cup Checked : [r EXCEPT !.pc = pc] \in InFlight
         /\ \A pc \in {"scope", "query"}, s \in SUBSET Values :
              [r EXCEPT !.seen = Append(r.seen, s), !.pc = pc] \in InFlight
         /\ \A asked, hits \in SUBSET Candidates :
              [r EXCEPT !.pc = "done", !.asked = asked, !.hits = hits] \in InFlight
         /\ \A pc \in {"save", "done"}, hits \in SUBSET Candidates :
              [r EXCEPT !.pc = pc, !.hits = hits] \in InFlight
         /\ \A n \in Nat : [r EXCEPT !.pc = "count", !.total = n] \in InFlight
         /\ \A hits \in SUBSET Candidates, n \in Nat :
              [r EXCEPT !.pc = "done", !.hits = hits, !.pending = n] \in InFlight
         /\ \A k \in Configs : [r EXCEPT !.since = r.since \cup {k}] \in InFlight
         /\ [r EXCEPT !.stirred = TRUE] \in InFlight
<1>1. \A pc \in {"scope"} \cup Checked : [r EXCEPT !.pc = pc] \in InFlight
  BY DEF InFlight, Checked
<1>2. \A pc \in {"scope", "query"}, s \in SUBSET Values :
        [r EXCEPT !.seen = Append(r.seen, s), !.pc = pc] \in InFlight
  <2> TAKE pc \in {"scope", "query"}, s \in SUBSET Values
  <2>1. PICK seen \in Seq(SUBSET Values) : seen = Append(r.seen, s)
    <3>1. r.seen \in Seq(SUBSET Values)
      BY DEF InFlight
    <3>2. Append(r.seen, s) \in Seq(SUBSET Values)
      BY <3>1
    <3> QED
      BY <3>2
  <2>2. [r EXCEPT !.seen = seen, !.pc = pc] \in InFlight
    BY DEF InFlight
  <2> QED
    BY <2>1, <2>2
<1>3. \A asked, hits \in SUBSET Candidates :
        [r EXCEPT !.pc = "done", !.asked = asked, !.hits = hits] \in InFlight
  BY DEF InFlight
<1>4. \A pc \in {"save", "done"}, hits \in SUBSET Candidates :
        [r EXCEPT !.pc = pc, !.hits = hits] \in InFlight
  BY DEF InFlight
<1>5. \A n \in Nat : [r EXCEPT !.pc = "count", !.total = n] \in InFlight
  BY DEF InFlight
<1>6. \A hits \in SUBSET Candidates, n \in Nat :
        [r EXCEPT !.pc = "done", !.hits = hits, !.pending = n] \in InFlight
  BY DEF InFlight
<1>7. \A k \in Configs : [r EXCEPT !.since = r.since \cup {k}] \in InFlight
  BY DEF InFlight
<1>8. [r EXCEPT !.stirred = TRUE] \in InFlight
  BY DEF InFlight
<1> QED
  BY <1>1, <1>2, <1>3, <1>4, <1>5, <1>6, <1>7, <1>8

\* A step of the request, or of the others beside it.
LEMMA StepTyped ==
  ASSUME Typed, req' = Idle \/ req' \in InFlight, Rhythm',
         config' \in Configs, now' \in Moments, updates' \in 0..MaxUpdates,
         live' \subseteq Candidates, referred' \subseteq Candidates
  PROVE  Typed'
BY DEF Typed, TypeOK

LEMMA OwnStepTyped ==
  ASSUME Typed, req' = Idle \/ req' \in InFlight, Rhythm',
         UNCHANGED <<config, now, live, referred, updates>>
  PROVE  Typed'
BY DEF Typed, TypeOK

LEMMA EnterTyped ==
  ASSUME Typed, NEW kind \in Reads \cup Writes, Enter(kind)
  PROVE  Typed'
<1>1. req' \in InFlight
  BY DEF Enter, InFlight, Typed, TypeOK
<1>2. Rhythm'
  BY DEF Enter, Rhythm, Checked
<1> QED
  BY <1>1, <1>2, OwnStepTyped DEF Enter, rows

LEMMA OneMore == \A n \in Nat : n < 3 => n + 1 \in Dims
BY DEF Dims

LEMMA CheckTyped ==
  ASSUME Typed, CheckModule \/ ReadScope \/ WindowOver
  PROVE  Typed'
<1>1. req \in InFlight /\ req # Idle
  BY Flying DEF Typed, CheckModule, ReadScope, WindowOver, At, Idle
<1>2. CASE CheckModule
  <2>1. CASE req' = [req EXCEPT !.pc = "scope"]
    <3>1. req' \in InFlight
      BY <1>1, <2>1, RequestTyped
    <3>2. req'.pc = "scope" /\ req'.seen = req.seen
      BY <1>1, <2>1 DEF InFlight
    <3>3. Rhythm'
      BY <1>1, <1>2, <3>2 DEF Typed, Rhythm, Checked, CheckModule, At
    <3> QED
      BY <1>2, <3>1, <3>3, OwnStepTyped DEF CheckModule, rows
  <2>2. CASE req' = Idle
    BY <1>2, <2>2, OwnStepTyped DEF CheckModule, rows, Rhythm
  <2> QED
    BY <1>2, <2>1, <2>2 DEF CheckModule, Goto, Refuse
<1>3. CASE ReadScope
  <2> DEFINE d == Len(req.seen) + 1
             pc == IF d = 3 THEN "query" ELSE "scope"
  <2>1. /\ req.seen \in Seq(SUBSET Values) /\ Len(req.seen) \in Nat
        /\ Len(req.seen) < 3
    <3>1. req.seen \in Seq(SUBSET Values) /\ Len(req.seen) \in Nat
      BY <1>1, Fields, Zenon
    <3>2. Len(req.seen) < 3
      BY <1>1, <1>3 DEF ReadScope, At, Typed, Rhythm
    <3> QED
      BY <3>1, <3>2, OneMore, Zenon
  <2>2. config.scope[d] \in SUBSET Values
    <3>1. config \in Configs /\ d \in Dims
      BY <2>1, OneMore, Zenon DEF Typed, TypeOK
    <3> QED
      BY <3>1, Constants, Zenon
  <2>3. req' = [req EXCEPT !.seen = Append(req.seen, config.scope[d]), !.pc = pc]
    BY <1>3 DEF ReadScope
  <2>4. req' \in InFlight
    BY <1>1, <2>2, <2>3, RequestTyped
  <2>5. req'.pc = pc /\ req'.seen = Append(req.seen, config.scope[d])
    BY <1>1, <2>3 DEF InFlight
  <2>6. Len(req'.seen) = d
    BY <2>1, <2>2, <2>5
  <2>7. Rhythm'
    BY <2>1, <2>5, <2>6 DEF Rhythm, Checked
  <2> QED
    BY <1>3, <2>4, <2>7, OwnStepTyped DEF ReadScope, rows
<1>4. CASE WindowOver
  BY <1>4, OwnStepTyped DEF WindowOver, Refuse, rows, Rhythm
<1> QED
  BY <1>2, <1>3, <1>4

\* Past the checks the scope values stay as they were read.
LEMMA PastChecks ==
  ASSUME Typed, req # Idle, req.pc \in Checked, req' \in InFlight,
         req'.pc \in {"save", "count", "done"}, req'.seen = req.seen, req'.kind = req.kind,
         req'.pc = "save" => req.kind \in Writes,
         req'.pc = "count" => req.kind = "cards"
  PROVE  Rhythm'
BY DEF Typed, Rhythm, Checked

LEMMA AnswerTyped ==
  ASSUME Typed, At("query"), NEW asked \in SUBSET Candidates, NEW hits \in SUBSET Candidates,
         Answer(asked, hits)
  PROVE  Typed'
<1>1. req \in InFlight /\ req # Idle /\ req.pc \in Checked
  BY Flying DEF Typed, At, Idle, Checked
<1>2. req' = [req EXCEPT !.pc = "done", !.asked = asked, !.hits = hits]
  BY DEF Answer
<1>3. req' \in InFlight
  BY <1>1, <1>2, RequestTyped
<1>4. req'.seen = req.seen /\ req'.kind = req.kind /\ req'.pc = "done"
  BY <1>1, <1>2 DEF InFlight
<1> QED
  BY <1>1, <1>3, <1>4, PastChecks, OwnStepTyped DEF Answer, rows

LEMMA CardsTyped ==
  ASSUME Typed, CountAll \/ CountDone
  PROVE  Typed'
<1>1. req \in InFlight /\ req # Idle /\ req.pc \in Checked
  BY Flying DEF Typed, CountAll, CountDone, Asked, At, Idle, Checked
<1>2. CASE CountAll
  <2>1. PICK n \in Nat : req' = [req EXCEPT !.pc = "count", !.total = n]
    BY <1>2, Counting DEF CountAll, Visible, InScope
  <2>2. req' \in InFlight
    BY <1>1, <2>1, RequestTyped
  <2>3. req'.seen = req.seen /\ req'.kind = req.kind /\ req'.pc = "count"
    BY <1>1, <2>1 DEF InFlight
  <2> QED
    BY <1>1, <1>2, <2>2, <2>3, PastChecks, OwnStepTyped DEF CountAll, Asked, rows
<1>3. CASE CountDone
  <2> DEFINE finished == Visible \cap live \cap referred
  <2>1. finished \in SUBSET Candidates /\ Cardinality(finished) \in Nat
    BY Counting DEF Visible, InScope
  <2>2. Pending(req.total, Cardinality(finished)) \in Nat
    <3> HIDE DEF finished
    <3> QED
      BY <1>1, <2>1, Fields DEF Pending
  <2>3. req' = [req EXCEPT !.pc = "done", !.hits = finished,
                           !.pending = Pending(req.total, Cardinality(finished))]
    BY <1>3 DEF CountDone
  <2> HIDE DEF finished
  <2>4. req' \in InFlight
    BY <1>1, <2>1, <2>2, <2>3, RequestTyped
  <2>5. req'.seen = req.seen /\ req'.kind = req.kind /\ req'.pc = "done"
    BY <1>1, <2>3 DEF InFlight
  <2> QED
    BY <1>1, <1>3, <2>4, <2>5, PastChecks, OwnStepTyped DEF CountDone, rows
<1> QED
  BY <1>2, <1>3

LEMMA ChangeTyped ==
  ASSUME Typed, NEW c \in Candidates, NEW kind \in Writes,
         ChangeLocked(kind, c) \/ Find(kind, c) \/ Save(c)
  PROVE  Typed'
<1>1. req \in InFlight /\ req # Idle /\ req.pc \in Checked
  BY Flying DEF Typed, ChangeLocked, Find, Save, Asked, At, Idle, Checked
<1>2. {c} \in SUBSET Candidates
  OBVIOUS
<1>3. CASE ChangeLocked(kind, c)
  <2>1. req' = [req EXCEPT !.pc = "done", !.hits = {c}]
    BY <1>3 DEF ChangeLocked
  <2>2. req' \in InFlight
    BY <1>1, <1>2, <2>1, RequestTyped
  <2>3. req'.seen = req.seen /\ req'.kind = req.kind /\ req'.pc = "done"
    BY <1>1, <2>1 DEF InFlight
  <2>4. Rhythm'
    BY <1>1, <2>2, <2>3, PastChecks
  <2> QED
    BY <1>3, <2>2, <2>4, ApplyTyped, StepTyped DEF ChangeLocked, Typed, TypeOK
<1>4. CASE Find(kind, c)
  <2>1. req' = [req EXCEPT !.pc = "save", !.hits = {c}] /\ req.kind = kind
    BY <1>4 DEF Find, Asked
  <2>2. req' \in InFlight
    BY <1>1, <1>2, <2>1, RequestTyped
  <2>3. req'.seen = req.seen /\ req'.kind = req.kind /\ req'.pc = "save"
    BY <1>1, <2>1 DEF InFlight
  <2> QED
    BY <1>1, <1>4, <2>1, <2>2, <2>3, PastChecks, OwnStepTyped DEF Find, rows
<1>5. CASE Save(c)
  <2>1. req' = [req EXCEPT !.pc = "done"] /\ req.kind \in Writes
    BY <1>1, <1>5 DEF Save, At, Typed, Rhythm
  <2>2. req' \in InFlight
    BY <1>1, <2>1, RequestTyped DEF Checked
  <2>3. req'.seen = req.seen /\ req'.kind = req.kind /\ req'.pc = "done"
    BY <1>1, <2>1 DEF InFlight
  <2>4. Rhythm'
    BY <1>1, <2>2, <2>3, PastChecks
  <2> QED
    BY <1>5, <2>1, <2>2, <2>4, ApplyTyped, StepTyped DEF Save, Typed, TypeOK
<1> QED
  BY <1>3, <1>4, <1>5

\* The others: of the request, only its history changes.
LEMMA OthersTyped ==
  ASSUME Typed,
         \/ \E k \in Configs : Configure(k)
         \/ \E c \in Candidates, kind \in Writes : Superadmin(kind, c)
         \/ Tick
  PROVE  Typed'
<1>1. req # Idle => req \in InFlight
  BY Flying DEF Typed
<1>2. ASSUME NEW k \in Configs, Configure(k) PROVE Typed'
  <2>1. updates' \in 0..MaxUpdates
    BY <1>2, Constants DEF Configure, Typed, TypeOK
  <2>2. CASE req = Idle
    BY <1>2, <2>1, <2>2, StepTyped DEF Configure, rows, Typed, TypeOK, Rhythm
  <2>3. CASE req # Idle
    <3>1. req' = [req EXCEPT !.since = req.since \cup {k}]
      BY <1>2, <2>3 DEF Configure
    <3>2. req' \in InFlight
      BY <1>1, <2>3, <3>1, RequestTyped
    <3>3. req'.seen = req.seen /\ req'.kind = req.kind /\ req'.pc = req.pc
      BY <1>1, <2>3, <3>1 DEF InFlight
    <3>4. Rhythm'
      BY <2>3, <3>3 DEF Typed, Rhythm
    <3> QED
      BY <1>2, <2>1, <3>2, <3>4, StepTyped DEF Configure, rows, Typed, TypeOK
  <2> QED
    BY <2>2, <2>3
<1>3. ASSUME NEW c \in Candidates, NEW kind \in Writes, Superadmin(kind, c) PROVE Typed'
  <2>1. live' \subseteq Candidates /\ referred' \subseteq Candidates
    BY <1>3, ApplyTyped DEF Superadmin, Typed
  <2>2. CASE req = Idle
    BY <1>3, <2>1, <2>2, StepTyped DEF Superadmin, Typed, TypeOK, Rhythm
  <2>3. CASE req # Idle
    <3>1. req' = [req EXCEPT !.stirred = TRUE]
      BY <1>3, <2>3 DEF Superadmin
    <3>2. req' \in InFlight
      BY <1>1, <2>3, <3>1, RequestTyped
    <3>3. req'.seen = req.seen /\ req'.kind = req.kind /\ req'.pc = req.pc
      BY <1>1, <2>3, <3>1 DEF InFlight
    <3>4. Rhythm'
      BY <2>3, <3>3 DEF Typed, Rhythm
    <3> QED
      BY <1>3, <2>1, <3>2, <3>4, StepTyped DEF Superadmin, Typed, TypeOK
  <2> QED
    BY <2>2, <2>3
<1>4. CASE Tick
  <2>1. now' \in Moments
    BY <1>4, Constants DEF Tick, Typed, TypeOK, Moments
  <2>2. req' = Idle \/ req' \in InFlight
    BY <1>1, <1>4 DEF Tick
  <2>3. Rhythm'
    BY <1>4 DEF Tick, Typed, Rhythm
  <2> QED
    BY <1>4, <2>1, <2>2, <2>3, StepTyped DEF Tick, rows, Typed, TypeOK
<1> QED
  BY <1>2, <1>3, <1>4

LEMMA NextTyped == Typed /\ [Next]_vars => Typed'
<1> SUFFICES ASSUME Typed, [Next]_vars PROVE Typed'
  OBVIOUS
<1>1. ASSUME UNCHANGED vars PROVE Typed'
  BY <1>1 DEF vars, Typed, TypeOK, Rhythm
<1>2. ASSUME req' = Idle, UNCHANGED <<config, now, rows, updates>> PROVE Typed'
  BY <1>2, OwnStepTyped DEF rows, Rhythm
<1>3. ASSUME Respond PROVE Typed'
  BY <1>2, <1>3 DEF Respond
<1>4. ASSUME NEW c \in Candidates, FindNothing(c) PROVE Typed'
  BY <1>2, <1>4 DEF FindNothing, Refuse
<1>5. ASSUME NEW asked \in SUBSET Candidates, ListCandidates(asked) PROVE Typed'
  BY <1>5, AnswerTyped DEF ListCandidates, Asked, Filtered
<1>6. ASSUME NEW c \in Candidates, LookUp(c) PROVE Typed'
  BY <1>6, AnswerTyped DEF LookUp, Asked
<1>7. ASSUME ListReferrals PROVE Typed'
  BY <1>7, AnswerTyped DEF ListReferrals, Asked, Filtered, Typed, TypeOK
<1>8. ASSUME NEW c \in Candidates, ArchiveCandidate(c) \/ RestoreCandidate(c) PROVE Typed'
  BY <1>8, ChangeTyped DEF ArchiveCandidate, RestoreCandidate, Writes
<1>9. ASSUME NEW c \in Candidates, FindForStatus(c) \/ FindForReferral(c) \/ FindReferral(c)
      PROVE  Typed'
  BY <1>9, ChangeTyped DEF FindForStatus, FindForReferral, FindReferral, Writes
<1>10. ASSUME NEW c \in Candidates, Save(c) PROVE Typed'
  <2>1. "archive" \in Writes
    BY DEF Writes
  <2> QED
    BY <1>10, <2>1, ChangeTyped
<1> QED
  BY <1>1, <1>3, <1>4, <1>5, <1>6, <1>7, <1>8, <1>9, <1>10,
     EnterTyped, CheckTyped, CardsTyped, OthersTyped DEF Next, RefuseEntry

\* Every variable keeps to its type; in particular no count is negative and nothing
\* is shown or changed but candidates.
THEOREM PanelTypeCorrect == Spec => []TypeOK
<1>1. Typed => TypeOK
  BY DEF Typed
<1> QED
  BY <1>1, InitTyped, NextTyped, PTL DEF Spec

(***************************************************************************)
(* What is shown or changed was allowed.                                   *)
(***************************************************************************)

InWindow(k, t) == k.active /\ k.from <= t /\ t <= k.until

\* What a request in flight rests on has each been in force since it began.
Lawful ==
  req # Idle =>
    /\ config \in req.since
    /\ \E k \in req.since, t \in req.began..now : InWindow(k, t)
    /\ \A d \in 1..Len(req.seen) : \E k \in req.since : req.seen[d] = k.scope[d]
    /\ req.pc # "module" => \E k \in req.since : Grants(k, Needed(req.kind))
    /\ req.pc \notin {"save", "done"} => req.hits = {}
    /\ req.hits \subseteq InScope(req.seen)

\* A step past the checks, or one of the others.
LEMMA LawfulStays ==
  ASSUME Typed, Typed', Lawful, req # Idle, req' # Idle,
         req.since \subseteq req'.since, config' \in req'.since,
         req'.began = req.began, now <= now',
         req'.seen = req.seen, req'.kind = req.kind,
         req'.pc # "module" => req.pc # "module",
         req'.pc \notin {"save", "done"} => req'.hits = {},
         req'.hits \subseteq InScope(req.seen)
  PROVE  Lawful'
<1>1. \E k \in req'.since, t \in req'.began..now' : InWindow(k, t)
  <2>1. PICK k \in req.since, t \in req.began..now : InWindow(k, t)
    BY DEF Lawful
  <2>2. req.began \in Int /\ now \in Int /\ now' \in Int
    BY Flying, Fields, Constants DEF Typed, TypeOK, Moments
  <2>3. t \in req'.began..now'
    BY <2>2
  <2> QED
    BY <2>1, <2>3
<1>2. \A d \in 1..Len(req'.seen) : \E k \in req'.since : req'.seen[d] = k.scope[d]
  BY DEF Lawful
<1>3. req'.pc # "module" => \E k \in req'.since : Grants(k, Needed(req'.kind))
  BY DEF Lawful
<1> QED
  BY <1>1, <1>2, <1>3 DEF Lawful

LEMMA EnterLawful ==
  ASSUME Typed, Typed', NEW kind \in Reads \cup Writes, Enter(kind)
  PROVE  Lawful'
<1>1. /\ req'.pc = "module" /\ req'.since = {config} /\ req'.began = now
      /\ req'.seen = <<>> /\ req'.hits = {}
  BY DEF Enter
<1>2. config' = config /\ now' = now /\ now \in Int /\ InWindow(config, now)
  BY Constants DEF Enter, Active, InWindow, Typed, TypeOK, Moments
<1>3. now \in req'.began..now'
  BY <1>1, <1>2
<1> QED
  BY <1>1, <1>2, <1>3 DEF Lawful

LEMMA CheckLawful ==
  ASSUME Typed, Typed', Lawful, CheckModule
  PROVE  Lawful'
<1>1. req \in InFlight /\ req # Idle /\ req.pc = "module"
  BY Flying DEF Typed, CheckModule, At, Idle
<1>2. CASE req' = Idle
  BY <1>2 DEF Lawful
<1>3. CASE req' = [req EXCEPT !.pc = "scope"] /\ Grants(config, Needed(req.kind))
  <2>1. /\ req'.pc = "scope" /\ req'.since = req.since /\ req'.began = req.began
        /\ req'.seen = req.seen /\ req'.hits = req.hits /\ req'.kind = req.kind
    BY <1>1, <1>3 DEF InFlight
  <2>2. config' = config /\ now' = now
    BY DEF CheckModule
  <2> QED
    BY <1>1, <1>3, <2>1, <2>2 DEF Lawful
<1> QED
  BY <1>2, <1>3 DEF CheckModule, Goto, Refuse

LEMMA ScopeLawful ==
  ASSUME Typed, Typed', Lawful, ReadScope
  PROVE  Lawful'
<1>1. req \in InFlight /\ req # Idle /\ req.pc = "scope"
  BY Flying DEF Typed, ReadScope, At, Idle
<1> DEFINE n == Len(req.seen) + 1
           pc == IF n = 3 THEN "query" ELSE "scope"
<1>2. req.seen \in Seq(SUBSET Values)
  BY <1>1, Fields, Zenon
<1>3. req' = [req EXCEPT !.seen = Append(req.seen, config.scope[n]), !.pc = pc]
  BY DEF ReadScope
<1>4. /\ req'.pc = pc /\ req'.since = req.since /\ req'.began = req.began
      /\ req'.seen = Append(req.seen, config.scope[n])
      /\ req'.hits = req.hits /\ req'.kind = req.kind
  BY <1>1, <1>3 DEF InFlight
<1>5. config' = config /\ now' = now
  BY DEF ReadScope
<1>6. \A d \in 1..Len(req'.seen) : \E k \in req'.since : req'.seen[d] = k.scope[d]
  <2> TAKE d \in 1..Len(req'.seen)
  <2>1. CASE d = n
    <3>1. req'.seen[n] = config.scope[n]
      BY <1>2, <1>4
    <3> QED
      BY <1>1, <1>4, <2>1, <3>1 DEF Lawful
  <2>2. CASE d # n
    <3>1. d \in 1..Len(req.seen) /\ req'.seen[d] = req.seen[d]
      BY <1>2, <1>4, <2>2
    <3> QED
      BY <1>1, <1>4, <3>1 DEF Lawful
  <2> QED
    BY <2>1, <2>2
<1>7. req'.hits = {}
  BY <1>1, <1>4 DEF Lawful
<1>8. \E k \in req'.since : Grants(k, Needed(req'.kind))
  BY <1>1, <1>4 DEF Lawful
<1>9. config' \in req'.since /\ \E k \in req'.since, t \in req'.began..now' : InWindow(k, t)
  BY <1>1, <1>4, <1>5 DEF Lawful
<1> QED
  BY <1>6, <1>7, <1>8, <1>9 DEF Lawful

\* Lists, look-ups and tables.
LEMMA AnswerLawful ==
  ASSUME Typed, Typed', Lawful, At("query"), NEW asked, NEW hits, Answer(asked, hits),
         hits \subseteq Visible
  PROVE  /\ Lawful' /\ req # Idle /\ req'.pc = "done"
         /\ req'.hits = hits /\ req'.asked = asked
         /\ req'.seen = req.seen /\ req'.kind = req.kind
<1>1. req \in InFlight /\ req # Idle /\ req.pc = "query"
  BY Flying DEF Typed, At, Idle
<1>2. req' = [req EXCEPT !.pc = "done", !.asked = asked, !.hits = hits]
  BY DEF Answer
<1>3. /\ req'.pc = "done" /\ req'.since = req.since /\ req'.began = req.began
      /\ req'.hits = hits /\ req'.asked = asked
      /\ req'.seen = req.seen /\ req'.kind = req.kind
  BY <1>1, <1>2 DEF InFlight
<1>4. req' # Idle /\ config' = config /\ now' = now
  BY <1>3 DEF Idle, Answer
<1>5. now <= now' /\ config \in req.since
  BY <1>1, <1>4, Constants DEF Typed, TypeOK, Moments, Lawful
<1> QED
  BY <1>1, <1>3, <1>4, <1>5, LawfulStays DEF Visible

LEMMA ServedLawful ==
  ASSUME Typed, Typed', Lawful, req # Idle, req.pc # "module", config' = config, now' = now,
         req'.pc \in {"count", "save", "done"},
         req'.since = req.since, req'.began = req.began,
         req'.seen = req.seen, req'.kind = req.kind,
         req'.pc = "count" => req'.hits = {},
         req'.hits \subseteq InScope(req.seen)
  PROVE  Lawful'
<1>1. now <= now' /\ config \in req.since
  BY Constants DEF Typed, TypeOK, Moments, Lawful
<1>2. req' # Idle
  BY DEF Idle
<1>3. req'.pc # "module" /\ (req'.pc \notin {"save", "done"} => req'.hits = {})
  OBVIOUS
<1> QED
  BY <1>1, <1>2, <1>3, LawfulStays

LEMMA CardsLawful ==
  ASSUME Typed, Typed', Lawful, CountAll \/ CountDone
  PROVE  Lawful'
<1>1. req \in InFlight /\ req # Idle /\ req.pc # "module"
  BY Flying DEF Typed, CountAll, CountDone, Asked, At, Idle
<1>2. config' = config /\ now' = now
  BY DEF CountAll, CountDone
<1>3. CASE CountAll
  <2>1. PICK n : req' = [req EXCEPT !.pc = "count", !.total = n]
    BY <1>3 DEF CountAll
  <2>2. req.hits = {}
    BY <1>1, <1>3 DEF CountAll, Asked, At, Lawful
  <2>3. /\ req'.pc = "count" /\ req'.since = req.since /\ req'.began = req.began
        /\ req'.seen = req.seen /\ req'.kind = req.kind /\ req'.hits = {}
    BY <1>1, <2>1, <2>2 DEF InFlight
  <2> QED
    BY <1>1, <1>2, ServedLawful, <2>3
<1>4. CASE CountDone
  <2> DEFINE hits == Visible \cap live \cap referred
             n == Pending(req.total, Cardinality(hits))
  <2>1. /\ req' = [req EXCEPT !.pc = "done", !.hits = hits, !.pending = n]
        /\ hits \subseteq Visible
    BY <1>4 DEF CountDone
  <2> HIDE DEF hits, n
  <2>2. /\ req'.pc = "done" /\ req'.since = req.since /\ req'.began = req.began
        /\ req'.seen = req.seen /\ req'.kind = req.kind /\ req'.hits = hits
    BY <1>1, <2>1 DEF InFlight
  <2> QED
    BY <1>1, <1>2, ServedLawful, <2>1, <2>2 DEF Visible
<1> QED
  BY <1>3, <1>4

LEMMA ChangeLawful ==
  ASSUME Typed, Typed', Lawful, NEW c \in Candidates, NEW kind \in Writes,
         ChangeLocked(kind, c) \/ Find(kind, c) \/ Save(c)
  PROVE  Lawful'
<1>1. req \in InFlight /\ req # Idle /\ req.pc # "module"
  BY Flying DEF Typed, ChangeLocked, Find, Save, Asked, At, Idle
<1>2. config' = config /\ now' = now
  BY DEF ChangeLocked, Find, Save
<1>3. CASE ChangeLocked(kind, c) \/ Find(kind, c)
  <2>1. PICK pc \in {"save", "done"} : req' = [req EXCEPT !.pc = pc, !.hits = {c}]
    BY <1>3 DEF ChangeLocked, Find
  <2>2. c \in Visible
    BY <1>3 DEF ChangeLocked, Find
  <2>3. /\ req'.pc = pc /\ req'.since = req.since /\ req'.began = req.began
        /\ req'.seen = req.seen /\ req'.kind = req.kind /\ req'.hits = {c}
    BY <1>1, <2>1 DEF InFlight
  <2> QED
    BY <1>1, <1>2, ServedLawful, <2>1, <2>2, <2>3 DEF Visible
<1>4. CASE Save(c)
  <2>1. req' = [req EXCEPT !.pc = "done"]
    BY <1>4 DEF Save
  <2>2. /\ req'.pc = "done" /\ req'.since = req.since /\ req'.began = req.began
        /\ req'.seen = req.seen /\ req'.kind = req.kind /\ req'.hits = req.hits
    BY <1>1, <2>1 DEF InFlight
  <2> QED
    BY <1>1, <1>2, ServedLawful, <2>2 DEF Lawful
<1> QED
  BY <1>3, <1>4

LEMMA OthersLawful ==
  ASSUME Typed, Typed', Lawful,
         \/ \E k \in Configs : Configure(k)
         \/ \E c \in Candidates, kind \in Writes : Superadmin(kind, c)
         \/ Tick
  PROVE  Lawful'
<1> SUFFICES ASSUME req # Idle PROVE Lawful'
  BY DEF Configure, Superadmin, Tick, Lawful
<1>1. req \in InFlight
  BY Flying DEF Typed
<1>2. now <= now'
  BY Constants DEF Configure, Superadmin, Tick, Typed, TypeOK, Moments
<1>3. ASSUME req'.pc = req.pc, req.since \subseteq req'.since, req'.began = req.began,
             req'.seen = req.seen, req'.kind = req.kind, req'.hits = req.hits,
             config' \in req'.since
      PROVE  Lawful'
  <2>1. req' # Idle
    BY <1>1, <1>3 DEF Idle, InFlight
  <2> QED
    BY <1>2, <1>3, <2>1, LawfulStays DEF Lawful
<1>4. ASSUME NEW k \in Configs, Configure(k) PROVE Lawful'
  <2>1. req' = [req EXCEPT !.since = req.since \cup {k}] /\ config' = k
    BY <1>4 DEF Configure
  <2>2. /\ req'.pc = req.pc /\ req'.since = req.since \cup {k} /\ req'.began = req.began
        /\ req'.seen = req.seen /\ req'.kind = req.kind /\ req'.hits = req.hits
    BY <1>1, <2>1 DEF InFlight
  <2> QED
    BY <1>3, <2>1, <2>2
<1>5. ASSUME NEW c \in Candidates, NEW kind \in Writes, Superadmin(kind, c) PROVE Lawful'
  <2>1. req' = [req EXCEPT !.stirred = TRUE] /\ config' = config
    BY <1>5 DEF Superadmin
  <2>2. /\ req'.pc = req.pc /\ req'.since = req.since /\ req'.began = req.began
        /\ req'.seen = req.seen /\ req'.kind = req.kind /\ req'.hits = req.hits
    BY <1>1, <2>1 DEF InFlight
  <2> QED
    BY <1>3, <2>1, <2>2 DEF Lawful
<1>6. ASSUME Tick PROVE Lawful'
  BY <1>3, <1>6 DEF Tick, Lawful
<1> QED
  BY <1>4, <1>5, <1>6

LEMMA NextLawful == Typed /\ Typed' /\ Lawful /\ [Next]_vars => Lawful'
<1> SUFFICES ASSUME Typed, Typed', Lawful, [Next]_vars PROVE Lawful'
  OBVIOUS
<1>1. ASSUME UNCHANGED vars PROVE Lawful'
  BY <1>1 DEF vars, Lawful
<1>2. ASSUME req' = Idle PROVE Lawful'
  BY <1>2 DEF Lawful
<1>3. ASSUME WindowOver \/ Respond PROVE Lawful'
  BY <1>2, <1>3 DEF WindowOver, Respond, Refuse
<1>4. ASSUME NEW c \in Candidates, FindNothing(c) PROVE Lawful'
  BY <1>2, <1>4 DEF FindNothing, Refuse
<1>5. ASSUME NEW asked \in SUBSET Candidates, ListCandidates(asked) PROVE Lawful'
  BY <1>5, AnswerLawful DEF ListCandidates, Asked, Filtered
<1>6. ASSUME NEW c \in Candidates, LookUp(c) PROVE Lawful'
  BY <1>6, AnswerLawful DEF LookUp, Asked, Filtered
<1>7. ASSUME ListReferrals PROVE Lawful'
  BY <1>7, AnswerLawful DEF ListReferrals, Asked, Filtered
<1>8. ASSUME NEW c \in Candidates, ArchiveCandidate(c) \/ RestoreCandidate(c) PROVE Lawful'
  BY <1>8, ChangeLawful DEF ArchiveCandidate, RestoreCandidate, Writes
<1>9. ASSUME NEW c \in Candidates, FindForStatus(c) \/ FindForReferral(c) \/ FindReferral(c)
      PROVE  Lawful'
  BY <1>9, ChangeLawful DEF FindForStatus, FindForReferral, FindReferral, Writes
<1>10. ASSUME NEW c \in Candidates, Save(c) PROVE Lawful'
  BY <1>10, ChangeLawful DEF Writes
<1>11. ASSUME CountAll \/ CountDone PROVE Lawful'
  BY <1>11, CardsLawful
<1> QED
  BY <1>1, <1>3, <1>4, <1>5, <1>6, <1>7, <1>8, <1>9, <1>10, <1>11,
     EnterLawful, CheckLawful, ScopeLawful, OthersLawful DEF Next, RefuseEntry

\* HitsWereAllowed: the profile, the module rows and the three kinds of scope rows are
\* read in five statements; still whatever a request shows, counts or changes was
\* allowed, right by right and kind by kind, at some moment since it began.
THEOREM PanelHitsWereAllowed == Spec => []HitsWereAllowed
<1>1. Init => Lawful
  BY DEF Init, Lawful
<1>2. Typed /\ Lawful => HitsWereAllowed
  <2> SUFFICES ASSUME Typed, Lawful, req # Idle, req.hits # {} PROVE
        /\ \A c \in req.hits, d \in Dims : \E k \in req.since : Attr[c][d] \in k.scope[d]
        /\ \E k \in req.since :
             IF req.kind \in {"mark", "unrefer"} THEN k.right = "edit" ELSE k.right # "none"
        /\ \E k \in req.since, t \in req.began..now : k.active /\ k.from <= t /\ t <= k.until
    BY DEF HitsWereAllowed
  <2>1. req.pc \in {"save", "done"}
    BY DEF Lawful
  <2>2. Len(req.seen) = 3 /\ 1..Len(req.seen) = Dims
    BY <2>1 DEF Typed, Rhythm, Checked, Dims
  <2>3. \A c \in req.hits, d \in Dims : \E k \in req.since : Attr[c][d] \in k.scope[d]
    BY <2>2 DEF Lawful, InScope
  <2>4. \E k \in req.since : Grants(k, Needed(req.kind))
    BY <2>1 DEF Lawful
  <2>5. \E k \in req.since, t \in req.began..now : InWindow(k, t)
    BY DEF Lawful
  <2> QED
    BY <2>3, <2>4, <2>5 DEF Grants, Needed, InWindow
<1> QED
  BY <1>1, <1>2, InitTyped, NextTyped, NextLawful, PTL DEF Spec

(***************************************************************************)
(* What is shown is exact.                                                 *)
(***************************************************************************)

Listing == {"list", "lookup", "codes"}

\* While no row changes, what was found is what there is.
Sound ==
  req # Idle =>
    /\ At("count") /\ ~req.stirred => req.total = Cardinality(InScope(req.seen) \cap live)
    /\ At("done") /\ req.kind = "cards" =>
         /\ req.pending \in 0..req.total
         /\ ~req.stirred => req.pending + Cardinality(req.hits) = req.total
    /\ At("done") /\ req.kind \in Listing /\ ~req.stirred =>
         req.hits = InScope(req.seen) \cap live \cap req.asked

\* Elsewhere there is nothing to show.
LEMMA SoundElsewhere ==
  ASSUME req' = Idle \/ req'.pc \notin {"count", "done"}
  PROVE  Sound'
BY DEF Sound, At

LEMMA AnswerSound ==
  ASSUME Typed, Typed', Lawful, NEW asked, NEW hits, At("query"), req.kind # "cards",
         Answer(asked, hits), hits = Filtered(asked)
  PROVE  Sound'
<1>1. /\ req'.pc = "done" /\ req'.hits = hits /\ req'.asked = asked
      /\ req'.seen = req.seen /\ req'.kind = req.kind
  BY AnswerLawful DEF Filtered
<1>2. live' = live
  BY DEF Answer, rows
<1>3. hits = InScope(req.seen) \cap live \cap asked
  BY DEF Filtered, Visible
<1> QED
  BY <1>1, <1>2, <1>3 DEF Sound, At

LEMMA CardsSound ==
  ASSUME Typed, Sound, CountAll \/ CountDone
  PROVE  Sound'
<1>1. req \in InFlight /\ req # Idle
  BY Flying DEF Typed, CountAll, CountDone, Asked, At, Idle
<1>2. CASE CountAll
  <2> DEFINE n == Cardinality(Visible \cap live)
  <2>1. req' = [req EXCEPT !.pc = "count", !.total = n] /\ live' = live
    BY <1>2 DEF CountAll, rows
  <2> HIDE DEF n
  <2>2. req'.pc = "count" /\ req'.total = n /\ req'.seen = req.seen
    BY <1>1, <2>1 DEF InFlight
  <2> QED
    BY <2>1, <2>2 DEF n, Sound, At, Visible
<1>3. CASE CountDone
  <2> DEFINE all == Visible \cap live
             hits == all \cap referred
             n == Pending(req.total, Cardinality(hits))
  <2>1. req' = [req EXCEPT !.pc = "done", !.hits = hits, !.pending = n]
    BY <1>3 DEF CountDone
  <2>2. /\ Cardinality(all) \in Nat /\ Cardinality(hits) \in Nat
        /\ Cardinality(hits) <= Cardinality(all)
    BY Counting DEF Visible, InScope
  <2>3. ~req.stirred => req.total = Cardinality(all)
    BY <1>1, <1>3 DEF CountDone, Sound, Visible
  <2>4. req.total \in Nat /\ req.kind = "cards"
    BY <1>1, <1>3, Fields DEF CountDone, At, Typed, Rhythm
  <2> HIDE DEF all, hits
  <2>5. /\ n \in 0..req.total
        /\ ~req.stirred => n + Cardinality(hits) = req.total
    BY <2>2, <2>3, <2>4 DEF Pending
  <2> HIDE DEF n
  <2>6. /\ req'.pc = "done" /\ req'.hits = hits /\ req'.pending = n
        /\ req'.total = req.total /\ req'.kind = req.kind /\ req'.stirred = req.stirred
    BY <1>1, <2>1 DEF InFlight
  <2> QED
    BY <2>4, <2>5, <2>6 DEF Sound, At, Listing
<1> QED
  BY <1>2, <1>3

LEMMA ChangeSound ==
  ASSUME Typed, NEW c \in Candidates, NEW kind \in Writes,
         ChangeLocked(kind, c) \/ Find(kind, c) \/ Save(c)
  PROVE  Sound'
<1>1. req \in InFlight /\ req # Idle
  BY Flying DEF Typed, ChangeLocked, Find, Save, Asked, At, Idle
<1>2. req.kind \in Writes
  BY <1>1 DEF ChangeLocked, Find, Save, Asked, At, Typed, Rhythm
<1>3. PICK hits : \/ req' = [req EXCEPT !.pc = "save", !.hits = hits]
                  \/ req' = [req EXCEPT !.pc = "done", !.hits = hits]
  <2>1. CASE Save(c)
    <3>1. [req EXCEPT !.pc = "done"] = [req EXCEPT !.pc = "done", !.hits = req.hits]
      BY <1>1 DEF InFlight
    <3> QED
      BY <2>1, <3>1 DEF Save
  <2> QED
    BY <2>1 DEF ChangeLocked, Find
<1>4. req'.kind = req.kind /\ req'.pc \in {"save", "done"}
  BY <1>1, <1>3 DEF InFlight
<1> QED
  BY <1>2, <1>4 DEF Sound, At, Writes, Listing

LEMMA OthersSound ==
  ASSUME Typed, Sound,
         \/ \E k \in Configs : Configure(k)
         \/ \E c \in Candidates, kind \in Writes : Superadmin(kind, c)
         \/ Tick
  PROVE  Sound'
<1> SUFFICES ASSUME req # Idle PROVE Sound'
  BY DEF Configure, Superadmin, Tick, Sound
<1>1. req \in InFlight
  BY Flying DEF Typed
<1>2. ASSUME NEW k \in Configs, Configure(k) PROVE Sound'
  <2>1. req' = [req EXCEPT !.since = req.since \cup {k}] /\ live' = live
    BY <1>2 DEF Configure, rows
  <2>2. /\ req'.pc = req.pc /\ req'.total = req.total /\ req'.pending = req.pending
        /\ req'.seen = req.seen /\ req'.kind = req.kind /\ req'.hits = req.hits
        /\ req'.asked = req.asked /\ req'.stirred = req.stirred
    BY <1>1, <2>1 DEF InFlight
  <2> QED
    BY <2>1, <2>2 DEF Sound, At
<1>3. ASSUME NEW c \in Candidates, NEW kind \in Writes, Superadmin(kind, c) PROVE Sound'
  <2>1. req' = [req EXCEPT !.stirred = TRUE]
    BY <1>3 DEF Superadmin
  <2>2. /\ req'.pc = req.pc /\ req'.total = req.total /\ req'.pending = req.pending
        /\ req'.kind = req.kind /\ req'.stirred
    BY <1>1, <2>1 DEF InFlight
  <2> QED
    BY <2>2 DEF Sound, At
<1>4. ASSUME Tick PROVE Sound'
  BY <1>4 DEF Tick, rows, Sound, At
<1> QED
  BY <1>2, <1>3, <1>4

LEMMA NextSound == Typed /\ Typed' /\ Lawful /\ Sound /\ [Next]_vars => Sound'
<1> SUFFICES ASSUME Typed, Typed', Lawful, Sound, [Next]_vars PROVE Sound'
  OBVIOUS
<1>1. ASSUME UNCHANGED vars PROVE Sound'
  BY <1>1 DEF vars, Sound, At
<1>2. ASSUME NEW kind, Enter(kind) PROVE Sound'
  <2>1. req'.pc = "module"
    BY <1>2 DEF Enter
  <2> QED
    BY <2>1, SoundElsewhere
<1>3. ASSUME CheckModule \/ ReadScope PROVE Sound'
  <2>1. req \in InFlight
    BY <1>3, Flying DEF Typed, CheckModule, ReadScope, At, Idle
  <2>2. CASE CheckModule
    <3>1. req' = Idle \/ req' = [req EXCEPT !.pc = "scope"]
      BY <2>2 DEF CheckModule, Goto, Refuse
    <3>2. req' = Idle \/ req'.pc = "scope"
      BY <2>1, <3>1 DEF InFlight
    <3> QED
      BY <3>2, SoundElsewhere
  <2>3. CASE ReadScope
    <3> DEFINE n == Len(req.seen) + 1
               seen == Append(req.seen, config.scope[n])
               pc == IF n = 3 THEN "query" ELSE "scope"
    <3>1. req' = [req EXCEPT !.seen = seen, !.pc = pc] /\ pc \in {"query", "scope"}
      BY <2>3 DEF ReadScope
    <3> HIDE DEF seen, pc
    <3>2. req'.pc = pc
      BY <2>1, <3>1 DEF InFlight
    <3> QED
      BY <3>1, <3>2, SoundElsewhere
  <2> QED
    BY <1>3, <2>2, <2>3
<1>4. ASSUME WindowOver \/ Respond \/ (\E c \in Candidates : FindNothing(c)) PROVE Sound'
  BY <1>4, SoundElsewhere DEF WindowOver, Respond, FindNothing, Refuse
<1>5. ASSUME NEW asked \in SUBSET Candidates, ListCandidates(asked) PROVE Sound'
  BY <1>5, AnswerSound DEF ListCandidates, Asked
<1>6. ASSUME NEW c \in Candidates, LookUp(c) PROVE Sound'
  <2>1. {c} = Filtered({c})
    BY <1>6 DEF LookUp, Filtered
  <2> QED
    BY <1>6, <2>1, AnswerSound DEF LookUp, Asked
<1>7. ASSUME ListReferrals PROVE Sound'
  BY <1>7, AnswerSound DEF ListReferrals, Asked
<1>8. ASSUME NEW c \in Candidates, ArchiveCandidate(c) \/ RestoreCandidate(c) PROVE Sound'
  BY <1>8, ChangeSound DEF ArchiveCandidate, RestoreCandidate, Writes
<1>9. ASSUME NEW c \in Candidates, FindForStatus(c) \/ FindForReferral(c) \/ FindReferral(c)
      PROVE  Sound'
  BY <1>9, ChangeSound DEF FindForStatus, FindForReferral, FindReferral, Writes
<1>10. ASSUME NEW c \in Candidates, Save(c) PROVE Sound'
  BY <1>10, ChangeSound DEF Writes
<1> QED
  BY <1>1, <1>2, <1>3, <1>4, <1>5, <1>6, <1>7, <1>8, <1>9, <1>10, CardsSound, OthersSound
     DEF Next, RefuseEntry

LEMMA InitSound == Init => Lawful /\ Sound
BY DEF Init, Lawful, Sound

\* CardsAddUp: EnquiryAnalyticsView makes two counts and subtracts them; the difference
\* is never negative nor too large, and right if no row changed in between.
THEOREM PanelCardsAddUp == Spec => []CardsAddUp
<1>1. Typed /\ Sound => CardsAddUp
  BY Flying DEF Typed, Sound, CardsAddUp, At, Idle
<1> QED
  BY <1>1, InitTyped, NextTyped, InitSound, NextLawful, NextSound, PTL DEF Spec

\* QuietListExact: with the account left alone and no row changed, a list has exactly
\* the candidates asked for and in the scope.
THEOREM PanelQuietListExact == Spec => []QuietListExact
<1>1. Typed /\ Lawful /\ Sound => QuietListExact
  <2> SUFFICES ASSUME Typed, Lawful, Sound, At("done"), req.kind \in Listing, ~req.stirred,
                      NEW k \in Configs, req.since = {k}
               PROVE  req.hits = {c \in live \cap req.asked :
                                    \A d \in Dims : Attr[c][d] \in k.scope[d]}
    BY DEF QuietListExact, Listing
  <2>1. req # Idle
    BY DEF At, Idle
  <2>2. Len(req.seen) = 3 /\ 1..Len(req.seen) = Dims
    BY <2>1 DEF Typed, Rhythm, Checked, At, Dims
  <2>3. \A d \in Dims : req.seen[d] = k.scope[d]
    BY <2>1, <2>2 DEF Lawful
  <2>4. req.hits = InScope(req.seen) \cap live \cap req.asked
    BY <2>1 DEF Sound
  <2>5. live \subseteq Candidates
    BY DEF Typed, TypeOK
  <2> QED
    BY <2>3, <2>4, <2>5 DEF InScope
<1> QED
  BY <1>1, InitTyped, NextTyped, InitSound, NextLawful, NextSound, PTL DEF Spec

=============================================================================
