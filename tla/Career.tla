------------------------------- MODULE Career -------------------------------
(***************************************************************************)
(* What admins post (jobs for students, testimonials for the homepage) and *)
(* one student's applications: the cooldown that limits them, the admins   *)
(* who edit them, the jobs that vanish under them.                         *)
(*                                                                         *)
(* No view here opens a transaction or locks a row.  An edit reads a row,  *)
(* changes some fields of its copy and saves the copy as a whole:          *)
(* Model.save() is an UPDATE and, if that finds no row, an INSERT.         *)
(*                                                                         *)
(* Who may apply (profile complete, subscription active) is the business   *)
(* of Student and Payments, whose rows a sub-admin may touch that of       *)
(* Panel: here every request may pass those guards.                        *)
(***************************************************************************)
EXTENDS Integers, FiniteSets

CONSTANTS
  Jobs,
  Testimonials,
  Workers,      \* request threads, shared by the student and the admins
  Cooldowns,    \* numbers of days an admin may set
  MaxDay,       \* bound: last day
  MaxApps,      \* bound: applications ever inserted
  MaxEdits      \* bound: admins' edits of postings, applications and the setting

ASSUME CareerAssumption ==
  /\ IsFiniteSet(Workers) /\ Jobs \cap Testimonials = {}
  /\ Cooldowns \subseteq Nat
  /\ MaxDay \in Nat /\ MaxApps \in Nat /\ MaxEdits \in Nat

VARIABLES
  board,      \* Job and Testimonial rows: the status of each
  apps,       \* the student's Application rows
  setting,    \* CoolDown.cooldown_days
  today,
  req,        \* per worker, the request it serves
  serial,     \* INSERTs of applications so far: the moments of applied_at
  deleted,    \* history: postings a DELETE has removed
  raced,      \* history: rows a request held a copy of while another changed them
  decided,    \* history: the status last decided for each posting
  ordered,    \* history: the status and cooldown last decided for each application
  tuned,      \* history: an admin's edit has changed or renewed a cooldown
  peak,       \* history: the most applications ever checked and not yet inserted
  edits       \* history: admins' edits so far

vars == <<board, apps, setting, today, req, serial, deleted, raced, decided, ordered,
          tuned, peak, edits>>
posted  == <<board, deleted, decided>>
applied == <<apps, serial, ordered, tuned, peak>>

Postings == Jobs \cup Testimonials
Statuses == {"pending", "selected"}
Ids      == 1..MaxApps

\* A job has no status: it is always published.
Shown(p) == IF p \in Jobs THEN {"published"} ELSE {"published", "draft"}

\* applied_at is a moment, which orders the applications, of a day, which the cooldown
\* counts from; the moment of the first INSERT is the primary key as well.
Application ==
  [id : Ids, job : Jobs, at : Ids, day : 0..MaxDay, cooldown : Cooldowns,
   status : Statuses]
Decision == [status : Statuses, cooldown : Cooldowns]

Idle == [pc |-> "idle"]
Request ==
  {Idle}
    \cup [pc : {"apply"}, job : Jobs, cooldown : Cooldowns]
    \* an edit of a posting: the status it will save
    \cup [pc : {"edit"}, posting : Postings, status : {"published", "draft"},
          decides : BOOLEAN]
    \* an edit of an application: the row it will save
    \cup [pc : {"amend"}, row : Application, decides : {"status", "cooldown"}]

\* Every variable keeps to its type; and the student has one application per job
\* (ApplyJobSerializer and the unique key) and per primary key.
TypeOK ==
  /\ board \in [Postings -> {"absent", "published", "draft"}]
  /\ decided \in [Postings -> {"absent", "published", "draft"}]
  /\ apps \subseteq Application
  /\ \A a, b \in apps : a.job = b.job \/ a.id = b.id => a = b
  /\ setting \in Cooldowns /\ today \in 0..MaxDay
  /\ req \in [Workers -> Request]
  /\ serial \in 0..MaxApps /\ edits \in 0..MaxEdits /\ tuned \in BOOLEAN
  /\ peak \in 0..Cardinality(Workers)
  /\ deleted \subseteq Postings /\ raced \subseteq Postings \cup Ids
  /\ ordered \in [Ids -> Decision]

Init ==
  /\ board \in [Postings -> {"absent", "published"}] /\ decided = board
  /\ apps = {} /\ setting \in Cooldowns /\ today = 0
  /\ req = [w \in Workers |-> Idle]
  /\ serial = 0 /\ edits = 0 /\ tuned = FALSE /\ peak = 0
  /\ deleted = {} /\ raced = {}
  /\ ordered = [i \in Ids |-> CHOOSE d \in Decision : TRUE] \* until that key is given

At(w, pc)    == req[w].pc = pc
Become(w, r) == req' = [req EXCEPT ![w] = r]

(***************************************************************************)
(* Postings.                                                               *)
(***************************************************************************)

\* POST: one INSERT with a new primary key.
Post(p, status) ==
  /\ board[p] = "absent" /\ p \notin deleted /\ status \in Shown(p)
  /\ board' = [board EXCEPT ![p] = status] /\ decided' = [decided EXCEPT ![p] = status]
  /\ UNCHANGED <<deleted, raced, applied, setting, today, req, edits>>

\* Another request holds a copy of the posting.
Held(w, p) == \E v \in Workers \ {w} : req[v].pc = "edit" /\ req[v].posting = p

Racing(p, held) == raced' = IF held THEN raced \cup {p} ELSE raced

\* Mutant: get_or_create instead of get_object, so that no row is needed.
MutStartEdit(w, p, status, decides) ==
  /\ At(w, "idle") /\ status = "published" /\ ~decides
  /\ Become(w, [pc |-> "edit", posting |-> p, status |-> status, decides |-> decides])
  /\ Racing(p, Held(w, p)) /\ edits < MaxEdits /\ edits' = edits + 1
  /\ UNCHANGED <<posted, applied, setting, today>>

\* PUT and PATCH: get_object, then the serializer changes the status or leaves the
\* one of the copy.
StartEdit(w, p, status, decides) ==
  /\ At(w, "idle") /\ board[p] # "absent" /\ status \in Shown(p)
  /\ IF decides THEN p \in Testimonials ELSE status = board[p]
  /\ Become(w, [pc |-> "edit", posting |-> p, status |-> status, decides |-> decides])
  /\ Racing(p, Held(w, p)) /\ edits < MaxEdits /\ edits' = edits + 1
  /\ UNCHANGED <<posted, applied, setting, today>>

\* save(): a posting deleted meanwhile is inserted again, under its old key.
SaveEdit(w) ==
  LET p == req[w].posting IN
  /\ At(w, "edit") /\ Become(w, Idle)
  /\ board' = [board EXCEPT ![p] = req[w].status]
  /\ decided' = IF req[w].decides THEN [decided EXCEPT ![p] = req[w].status] ELSE decided
  /\ UNCHANGED <<deleted, raced, applied, setting, today, edits>>

\* DELETE: the row and, by CASCADE, its applications in one transaction.  That
\* get_object comes first makes no difference: a posting that
\* another request deletes in between is deleted once, and answered twice.
Delete(p) ==
  /\ board[p] # "absent" /\ board' = [board EXCEPT ![p] = "absent"]
  /\ deleted' = deleted \cup {p}
  /\ Racing(p, \E w \in Workers : req[w].pc = "edit" /\ req[w].posting = p)
  /\ apps' = {a \in apps : a.job # p}
  /\ UNCHANGED <<decided, serial, ordered, tuned, peak, setting, today, req, edits>>

(***************************************************************************)
(* Applications.                                                           *)
(***************************************************************************)

Cooling(a) == today - a.day < a.cooldown

\* order_by("-applied_at").first(), if there is one.
Newest(a) == a \in apps /\ \A b \in apps : b.at <= a.at

\* Mutant: the day of the application counts as a day of the cooldown.
MutCooldownOver == \A a \in apps : Newest(a) => today + 1 - a.day >= a.cooldown

CooldownOver == \A a \in apps : Newest(a) => ~Cooling(a)

Applied(j) == \E a \in apps : a.job = j

\* ApplyJobView and StudentJobApplyAPIView: the job, the setting, the newest
\* application.
StartApply(w, j) ==
  /\ At(w, "idle") /\ board[j] # "absent" /\ CooldownOver /\ serial < MaxApps
  /\ Become(w, [pc |-> "apply", job |-> j, cooldown |-> setting])
  /\ LET crowd == 1 + Cardinality({v \in Workers : At(v, "apply")})
     IN  peak' = IF crowd > peak THEN crowd ELSE peak
  /\ UNCHANGED <<posted, raced, apps, serial, ordered, tuned, setting, today, edits>>

Inserted(a) == [id |-> serial + 1, job |-> a.job, at |-> serial + 1, day |-> today,
                cooldown |-> a.cooldown, status |-> "pending"]

Terms(a) == [status |-> a.status, cooldown |-> a.cooldown]

\* 404: no such job; 400: the cooldown is on.
RefuseApply(w, j) ==
  /\ At(w, "idle") /\ (board[j] = "absent" \/ ~CooldownOver)
  /\ UNCHANGED vars

\* A second application to a job is refused by the serializer's query or, for two
\* at once, by the unique key; one to a job deleted meanwhile by the foreign key.
InsertApplication(w) ==
  LET a  == Inserted(req[w])
      ok == ~Applied(a.job) /\ board[a.job] # "absent" /\ serial < MaxApps
  IN
  /\ At(w, "apply") /\ Become(w, Idle)
  /\ IF ok
     THEN /\ apps' = apps \cup {a} /\ serial' = serial + 1
          /\ ordered' = [ordered EXCEPT ![a.id] = Terms(a)]
     ELSE UNCHANGED <<apps, serial, ordered>>
  /\ UNCHANGED <<posted, raced, tuned, peak, setting, today, edits>>

HeldRow(w, id) == \E v \in Workers \ {w} : req[v].pc = "amend" /\ req[v].row.id = id

\* Mutant: the serializer fills in what the request leaves out.
MutAmended(a, field, value) ==
  [[a EXCEPT !.status = "pending"] EXCEPT ![field] = value]

\* The serializer changes the fields of the request in its copy.
Amended(a, field, value) == [a EXCEPT ![field] = value]

\* UpdateApplicationStatusView and UpdateStudentCoolDownView: the row is read, one
\* of two fields changes.
StartAmend(w, a, field, value) ==
  /\ At(w, "idle") /\ edits < MaxEdits /\ edits' = edits + 1
  /\ Become(w, [pc |-> "amend", row |-> Amended(a, field, value), decides |-> field])
  /\ Racing(a.id, HeldRow(w, a.id))
  /\ tuned' = (tuned \/ field = "cooldown")
  /\ UNCHANGED <<posted, apps, serial, ordered, peak, setting, today>>

\* The row is written as a whole.  If its job was deleted meanwhile there is nothing
\* to update, and the INSERT fails, unless the job has come back and
\* the student has not applied to it again: then it is as new as today.
SaveAmend(w) ==
  LET a == req[w].row
      there == \E b \in apps : b.id = a.id
      again == ~there /\ board[a.job] # "absent" /\ ~Applied(a.job) /\ serial < MaxApps
  IN
  /\ At(w, "amend") /\ Become(w, Idle)
  /\ apps' = CASE there -> {b \in apps : b.id # a.id} \cup {a}
               [] again -> apps \cup {[a EXCEPT !.at = serial + 1, !.day = today]}
               [] OTHER -> apps
  /\ serial' = IF again THEN serial + 1 ELSE serial
  /\ ordered' = IF there \/ again
                THEN [ordered EXCEPT ![a.id][req[w].decides] = a[req[w].decides]]
                ELSE ordered
  /\ tuned' = (tuned \/ again)
  /\ UNCHANGED <<posted, raced, peak, setting, today, edits>>

\* CoolDownUpdateView: the cooldown of applications to come.
SetCooldown(days) ==
  /\ edits < MaxEdits /\ edits' = edits + 1
  /\ setting' = days /\ days # setting /\ tuned' = TRUE
  /\ UNCHANGED <<posted, raced, apps, serial, ordered, peak, today, req>>

AdvanceDay ==
  /\ today < MaxDay /\ today' = today + 1
  /\ UNCHANGED <<posted, raced, applied, setting, req, edits>>

Change(w, a) ==
  \/ \E s \in Statuses : StartAmend(w, a, "status", s)
  \/ \E d \in Cooldowns : StartAmend(w, a, "cooldown", d)

Next ==
  \/ \E p \in Postings, s \in {"published", "draft"} :
       \/ Post(p, s)
       \/ \E w \in Workers, d \in BOOLEAN : StartEdit(w, p, s, d)
  \/ \E p \in Postings : Delete(p)
  \/ \E w \in Workers :
       \/ \E j \in Jobs : StartApply(w, j) \/ RefuseApply(w, j)
       \/ \E a \in apps : Change(w, a)
       \/ SaveEdit(w) \/ InsertApplication(w) \/ SaveAmend(w)
  \/ \E days \in Cooldowns : SetCooldown(days)
  \/ AdvanceDay

Spec == Init /\ [][Next]_vars

(***************************************************************************)
(* Properties.                                                             *)
(***************************************************************************)

\* A deleted posting is back on the board only if the deletion overlapped another
\* request on it (JobDetailView.delete: "Once deleted, the job cannot be
\* recovered"), and nobody has applied to a job that is not there.
DeletionFinal ==
  /\ \A p \in deleted : board[p] # "absent" => p \in raced
  /\ \A a \in apps : board[a.job] # "absent"

\* What an admin decided last, on a testimonial's status or on an application's
\* status or cooldown, is what the row says, unless two edits of that row
\* overlapped: then one of them may have written the other's field back.
QuietEditsKept ==
  /\ \A p \in Postings \ raced : board[p] \in {"absent", decided[p]}
  /\ \A a \in apps : a.id \notin raced => ordered[a.id] = Terms(a)

\* Applications pass the cooldown together only if their checks overlap: of those
\* still cooling there are never more than requests were between check and insert
\* at once, as long as no admin changes a cooldown.  It holds when jobs, and with
\* them the newest application, are deleted.
BurstBounded ==
  ~tuned => Cardinality({a \in apps : Cooling(a)}) <= peak

=============================================================================
