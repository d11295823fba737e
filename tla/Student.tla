------------------------------ MODULE Student ------------------------------
(***************************************************************************)
(* What one student keeps: the three rows of the profile, the flag         *)
(* profile_completed that sums them up and opens the way to jobs and       *)
(* payments, and the order for the plan (see Plan) it pays with.  Students *)
(* share nothing else, so one student is enough.                           *)
(*                                                                         *)
(* No view here opens a transaction or locks a row: every statement is a   *)
(* step of its own, except reads whose answers no step in between could    *)
(* change unseen by a later one.  A row counts only as complete or not.    *)
(***************************************************************************)
EXTENDS Plan

CONSTANTS
  MaxSaves,    \* bound: edits of the profile
  Priced       \* whether the settings may name a price, and whether they may not

ASSUME StudentAssumption == MaxSaves \in Nat /\ Priced \subseteq BOOLEAN

VARIABLES
  row,         \* the profile's rows
  completed,   \* Student.profile_completed
  orphans,     \* StudentPersonalDetail rows of no student
  ordered,     \* history: an order has been opened
  everFull,    \* history: rows that have been complete
  alone,       \* history: no edit was under way when the last one began
  quiet,       \* history: the flag was last refreshed by an edit on its own
  created,     \* history: a row has been created since then
  saves        \* history: edits of the profile so far

profile == <<row, completed, orphans, ordered, everFull, alone, quiet, created, saves>>
vars    == <<planVars, profile>>

Parts  == {"personal", "education", "career"}
Filled == {"partial", "full"}

Request ==
  {Idle} \cup PlanRequest
    \* an edit: the part, its new content, the flag as read, what was seen
    \cup [pc : {"save", "read", "decide"}, part : Parts, value : Filled,
          copy : BOOLEAN, seen : [Parts -> {"unread", "absent"} \cup Filled]]
    \cup [pc : {"create"}, part : Parts, value : Filled]
    \cup [pc : {"personal", "order"}]

TypeOK ==
  /\ PlanTypeOK /\ req \in [Workers -> Request]
  /\ row \in [Parts -> {"absent"} \cup Filled]
  /\ completed \in BOOLEAN /\ ordered \in BOOLEAN
  /\ orphans \in Nat /\ everFull \subseteq Parts
  /\ alone \in BOOLEAN /\ quiet \in BOOLEAN /\ created \in BOOLEAN
  /\ saves \in 0..MaxSaves

\* A student some time after registration, which creates the personal row: rows
\* written and summed up one by one.
Init ==
  /\ PlanInit
  /\ row \in [Parts -> {"absent"} \cup Filled] /\ row["personal"] # "absent"
  /\ completed = (\A p \in Parts : row[p] = "full")
  /\ orphans = 0 /\ ordered = FALSE
  /\ everFull = {p \in Parts : row[p] = "full"}
  /\ alone = TRUE /\ quiet = TRUE /\ created = FALSE /\ saves = 0

Editing == {"save", "read", "decide", "create"}
Editor(w) == req[w].pc \in Editing

\* An edit begins, alone or beside another.
Begin(w) ==
  LET others == \E v \in Workers \ {w} : Editor(v) IN
  /\ saves < MaxSaves /\ saves' = saves + 1
  /\ alone' = ~others /\ quiet' = (quiet /\ ~others)

(***************************************************************************)
(* The profile: PUT and PATCH of a row, then update_profile_status.        *)
(***************************************************************************)

Unread == [p \in Parts |-> "unread"]

\* The student (and with it the flag) and the row are read; without a row: 404.
StartEdit(w, p, value) ==
  /\ At(w, "idle") /\ row[p] # "absent"
  /\ Become(w, [pc |-> "save", part |-> p, value |-> value, copy |-> completed,
                seen |-> Unread])
  /\ Begin(w)
  /\ UNCHANGED <<row, completed, orphans, ordered, everFull, created, plans, given>>

Written(p, value) ==
  /\ row' = [row EXCEPT ![p] = value]
  /\ everFull' = IF value = "full" THEN everFull \cup {p} ELSE everFull

\* The whole row is saved; the summary will use this copy of it.
SaveRow(w) ==
  LET p == req[w].part IN
  /\ At(w, "save")
  /\ Written(p, req[w].value)
  /\ Become(w, [req[w] EXCEPT !.pc = "read", !.seen[p] = req[w].value])
  /\ UNCHANGED <<completed, orphans, ordered, alone, quiet, created, saves, plans, given>>

\* The other two rows are read in the order personal, education, career.
Before(p) == CASE p = "personal" -> {} [] p = "education" -> {"personal"}
               [] p = "career" -> {"personal", "education"}

ReadRow(w, p) ==
  /\ At(w, "read") /\ req[w].seen[p] = "unread"
  /\ \A q \in Before(p) : req[w].seen[q] # "unread"
  /\ LET seen == [req[w].seen EXCEPT ![p] = row[p]]
         left == \E q \in Parts : seen[q] = "unread"
     IN  Become(w, [req[w] EXCEPT !.seen = seen, !.pc = IF left THEN "read" ELSE "decide"])
  /\ UNCHANGED <<profile, plans, given>>

\* Mutant: one complete row is enough.
MutComplete(seen) == \E p \in Parts : seen[p] = "full"

Complete(seen) == \A p \in Parts : seen[p] = "full"
Missing(seen)  == \E p \in Parts : seen[p] = "absent"

\* Mutant: the flag is written only to set it.
MutSetOnly(copy, seen) == Complete(seen)

\* With a row missing the flag is written anyway, else only if it differs from
\* the copy the request has read at its start.
MustWrite(copy, seen) == Missing(seen) \/ copy # Complete(seen)

UpdateFlag(w) ==
  /\ At(w, "decide") /\ Become(w, Idle)
  /\ completed' = IF MustWrite(req[w].copy, req[w].seen)
                  THEN Complete(req[w].seen) ELSE completed
  /\ quiet' = (quiet \/ alone) /\ created' = (created /\ ~alone)
  /\ UNCHANGED <<row, orphans, ordered, everFull, alone, saves, plans, given>>

\* POST of another row: the look for one comes before the insert.
StartCreate(w, p, value) ==
  /\ At(w, "idle") /\ p # "personal" /\ row[p] = "absent"
  /\ Become(w, [pc |-> "create", part |-> p, value |-> value])
  /\ Begin(w) /\ created' = TRUE
  /\ UNCHANGED <<row, completed, orphans, ordered, everFull, plans, given>>

\* The one-to-one key refuses a second row of a student.  The flag is not refreshed.
CreateRow(w) ==
  LET p == req[w].part IN
  /\ At(w, "create") /\ Become(w, Idle)
  /\ IF row[p] = "absent" THEN Written(p, req[w].value) ELSE UNCHANGED <<row, everFull>>
  /\ UNCHANGED <<completed, orphans, ordered, alone, quiet, created, saves, plans, given>>

\* Mutant: no look for a row of nobody before the insert.
MutStartPersonal(w) ==
  /\ At(w, "idle") /\ Become(w, [pc |-> "personal"])
  /\ UNCHANGED <<profile, plans, given>>

\* POST of the personal row is validated and saved without its student: the look is
\* for a row of nobody ...
StartPersonal(w) ==
  /\ At(w, "idle") /\ orphans = 0 /\ Become(w, [pc |-> "personal"])
  /\ UNCHANGED <<profile, plans, given>>

\* ... and so is the insert.
InsertPersonal(w) ==
  /\ At(w, "personal") /\ Become(w, Idle) /\ orphans' = orphans + 1
  /\ UNCHANGED <<row, completed, ordered, everFull, alone, quiet, created, saves,
                 plans, given>>

(***************************************************************************)
(* The way to the payment: create_order and StudentPaymentInitiate.        *)
(***************************************************************************)

\* The flag is read, and the plan, unless SUBSCRIPTION_AMOUNT_PAISE names a price.
\* (An active subscription is the business of Payments.)
StartOrder(w) ==
  /\ At(w, "idle") /\ completed
  /\ \E priced \in Priced : priced \/ Offered # {}
  /\ Become(w, [pc |-> "order"])
  /\ UNCHANGED <<profile, plans, given>>

\* 400: the profile is not complete; 404: no price and no active plan.
RefuseOrder(w) ==
  /\ At(w, "idle") /\ (~completed \/ (FALSE \in Priced /\ Offered = {}))
  /\ UNCHANGED vars

PlaceOrder(w) ==
  /\ At(w, "order") /\ Become(w, Idle) /\ ordered' = TRUE
  /\ UNCHANGED <<row, completed, orphans, everFull, alone, quiet, created, saves,
                 plans, given>>

Next ==
  \E w \in Workers :
    \/ \E p \in Parts :
         \/ \E value \in Filled : StartEdit(w, p, value) \/ StartCreate(w, p, value)
         \/ ReadRow(w, p)
    \/ SaveRow(w) \/ UpdateFlag(w) \/ CreateRow(w)
    \/ StartPersonal(w) \/ InsertPersonal(w)
    \/ StartOrder(w) \/ RefuseOrder(w) \/ PlaceOrder(w)
    \/ PlanStep(w) /\ UNCHANGED profile

Spec == Init /\ [][Next]_vars

(***************************************************************************)
(* Properties.                                                             *)
(***************************************************************************)

\* Once an edit has run without another beside it, the flag is set between edits
\* only if the profile is complete, until two edits overlap again; and it is set
\* if the profile is complete, unless a row was created since by a
\* POST, which does not refresh it (update_profile_status).
EditSettlesFlag ==
  quiet /\ (\A w \in Workers : ~Editor(w)) =>
    /\ completed => Complete(row)
    /\ Complete(row) => completed \/ created

\* POST of the personal row makes rows of no student, after which everybody's POST
\* of one is refused: there are never more of them than requests overlapped.
OrphansBounded == orphans <= Cardinality(Workers)

\* However edits overlap, the flag is never set, and no order opened, for a profile
\* of which some row was never complete: a stale answer is at least an old one.
FlagEarned == completed \/ ordered => everFull = Parts

=============================================================================
