------------------------------- MODULE Panel -------------------------------
(***************************************************************************)
(* What one sub-admin may see and change in the admin panel: the account's *)
(* state and access window, the right to a module, and the data scope that *)
(* every list, count and edit of candidates is cut down to.                *)
(*                                                                         *)
(* A manager rewrites all of these in one transaction (SubAdmin), but a    *)
(* request reads them in five statements that no transaction holds         *)
(* together: the profile, the module rows, the three kinds of scope rows;  *)
(* then come the queries it was made for.  Requests meet only in the rows  *)
(* they change; superadmins, who pass every check, change these in every   *)
(* way there is, so one request of the sub-admin is enough.                *)
(***************************************************************************)
EXTENDS Integers, FiniteSets, Sequences

CONSTANTS
  Candidates,   \* pre-applications
  Attr,         \* per candidate, its birth state, college state, passing year
  Configs,      \* the settings of the account a manager may save
  MaxTime,      \* bound: last moment
  MaxUpdates    \* bound: settings saved

Dims    == 1..3     \* birth states, college states, passing years
Rights  == {"none", "view", "edit"}
Moments == 0..MaxTime
Values  == {Attr[c][d] : c \in Candidates, d \in Dims}

ASSUME PanelAssumption ==
  /\ IsFiniteSet(Candidates) /\ MaxTime \in Nat /\ MaxUpdates \in Nat
  /\ \A c \in Candidates : DOMAIN Attr[c] = Dims
  /\ \A k \in Configs :
       /\ k.active \in BOOLEAN /\ k.right \in Rights
       /\ k.from \in Int /\ k.until \in Int
       /\ k.scope \in Seq(SUBSET Values)
       /\ Len(k.scope) = 3

VARIABLES
  config,     \* the account: is_active, window, module right, scope rows
  now,
  live,       \* candidates not archived
  referred,   \* candidates with a referral
  req,        \* the request being served
  updates     \* history: settings saved so far

vars == <<config, now, live, referred, req, updates>>
rows == <<live, referred>>

Reads  == {"list", "lookup", "codes", "cards"}
Writes == {"archive", "restore", "status", "refer", "mark", "unrefer"}

Idle == [pc |-> "idle"]

\* since: the settings in force since the request began; profile: its copy of the
\* row; stirred: rows have changed since it began; asked: what it was asked for;
\* hits: what it showed or changed.
InFlight ==
  [pc : {"module", "scope", "query", "count", "save", "done"},
   kind : Reads \cup Writes, began : Moments, since : SUBSET Configs,
   profile : Configs, seen : Seq(SUBSET Values), stirred : BOOLEAN,
   asked : SUBSET Candidates, hits : SUBSET Candidates, total : Nat, pending : Nat]

TypeOK ==
  /\ config \in Configs /\ now \in Moments
  /\ live \subseteq Candidates /\ referred \subseteq Candidates
  /\ updates \in 0..MaxUpdates
  /\ req = Idle \/ req \in InFlight

Init ==
  /\ config \in Configs /\ now = 0 /\ updates = 0
  /\ live = Candidates /\ referred \in SUBSET Candidates
  /\ req = Idle

At(pc)    == req.pc = pc
Goto(pc)  == req' = [req EXCEPT !.pc = pc]

\* 403, 404: nothing is shown or changed.
Refuse == req' = Idle

(***************************************************************************)
(* The checks.                                                             *)
(***************************************************************************)

\* is_account_access_active: both ends of the window belong to it.
Active(k) == k.active /\ k.from <= now /\ now <= k.until

\* "required_module_action": what the handler asks for.  Archiving, restoring, the
\* status of a candidate and a new referral ask for no more than looking.
Needed(kind) == IF kind \in {"mark", "unrefer"} THEN "edit" ELSE "view"

\* has_module_access
Grants(k, action) == k.right = "edit" \/ k.right = action

\* IsAdminPortalUser: the profile is read once and its copy kept.
Enter(kind) ==
  /\ At("idle") /\ Active(config)
  /\ req' = [pc |-> "module", kind |-> kind, began |-> now, since |-> {config},
             profile |-> config, seen |-> <<>>, stirred |-> FALSE, asked |-> {},
             hits |-> {}, total |-> 0, pending |-> 0]
  /\ UNCHANGED <<config, now, rows, updates>>

RefuseEntry == At("idle") /\ ~Active(config) /\ UNCHANGED vars

\* HasModuleAccess: the copy of the profile, at this moment, and the module rows.
CheckModule ==
  /\ At("module")
  /\ IF Active(req.profile) /\ Grants(config, Needed(req.kind)) THEN Goto("scope") ELSE Refuse
  /\ UNCHANGED <<config, now, rows, updates>>

\* filter_..._for_user looks at the window once more, then get_profile_scope_values
\* reads one kind of rows after the other.
ReadScope ==
  LET d == Len(req.seen) + 1 IN
  /\ At("scope") /\ (d = 1 => Active(req.profile))
  /\ req' = [req EXCEPT !.seen = Append(@, config.scope[d]),
                        !.pc = IF d = 3 THEN "query" ELSE "scope"]
  /\ UNCHANGED <<config, now, rows, updates>>

\* queryset.none(): an empty answer, or 404.
WindowOver ==
  /\ At("scope") /\ req.seen = <<>> /\ ~Active(req.profile)
  /\ Refuse /\ UNCHANGED <<config, now, rows, updates>>

\* Mutant: a candidate who matches one kind of scope is in it.
MutInScope(seen) == {c \in Candidates : \E d \in Dims : Attr[c][d] \in seen[d]}

\* With nothing configured for one kind, nothing.
InScope(seen) == {c \in Candidates : \A d \in Dims : Attr[c][d] \in seen[d]}

Visible == InScope(req.seen)

(***************************************************************************)
(* Lists, look-ups and tables; the cards above them.                       *)
(***************************************************************************)

Asked(kind) == At("query") /\ req.kind = kind

Answer(asked, hits) ==
  /\ req' = [req EXCEPT !.pc = "done", !.asked = asked, !.hits = hits]
  /\ UNCHANGED <<config, now, rows, updates>>

\* What the request asks for (a widget, a status, a state, a search...) only ever
\* narrows what is visible.
Filtered(asked) == Visible \cap live \cap asked

\* PreApplicationListAPIView, and EnquiryTableView, which asks for all.
ListCandidates(asked) == Asked("list") /\ Answer(asked, Filtered(asked))

\* By token or by address; what is not found is 404 (FindNothing).
LookUp(c) == Asked("lookup") /\ c \in Filtered({c}) /\ Answer({c}, {c})

\* ReferenceCodeStatusView
ListReferrals == Asked("codes") /\ Answer(referred, Filtered(referred))

\* EnquiryAnalyticsView: one query for the total ...
CountAll ==
  /\ Asked("cards")
  /\ req' = [req EXCEPT !.pc = "count", !.total = Cardinality(Visible \cap live)]
  /\ UNCHANGED <<config, now, rows, updates>>

\* Mutant: without max(..., 0).
MutPending(total, finished) == total - finished

Pending(total, finished) == IF total > finished THEN total - finished ELSE 0

\* ... another for those with a referral.
CountDone ==
  LET finished == Visible \cap live \cap referred IN
  /\ At("count")
  /\ req' = [req EXCEPT !.pc = "done", !.hits = finished,
                        !.pending = Pending(req.total, Cardinality(finished))]
  /\ UNCHANGED <<config, now, rows, updates>>

(***************************************************************************)
(* Changes, of which Onboarding and Career have the details.               *)
(***************************************************************************)

\* What the look-up that precedes the change asks of the row.
Findable(kind, c) ==
  CASE kind \in {"archive", "restore"}       -> TRUE
    [] kind \in {"lookup", "status", "refer"} -> c \in live
    [] kind \in {"mark", "unrefer"}           -> c \in live \cap referred

\* The status and the mark of a referral are no part of the model, but saving them
\* saves the whole row: one archived or deleted meanwhile is as it was.
Apply(kind, c) ==
  /\ live' = CASE kind = "archive" -> live \ {c}
               [] kind \in {"restore", "status"} -> live \cup {c}
               [] OTHER -> live
  /\ referred' = CASE kind = "refer" /\ c \in live -> referred \cup {c}
                   [] kind = "mark" -> referred \cup {c}
                   [] kind = "unrefer" -> referred \ {c}
                   [] OTHER -> referred

\* Archive and restore: look-up FOR UPDATE and save in one transaction.
ChangeLocked(kind, c) ==
  /\ Asked(kind) /\ c \in Visible
  /\ Apply(kind, c)
  /\ req' = [req EXCEPT !.pc = "done", !.hits = {c}]
  /\ UNCHANGED <<config, now, updates>>

ArchiveCandidate(c) == ChangeLocked("archive", c)
RestoreCandidate(c) == ChangeLocked("restore", c)

\* Mutant: the row is looked up by its key alone.
MutFind(kind, c) ==
  /\ Asked(kind) /\ Findable(kind, c)
  /\ req' = [req EXCEPT !.pc = "save", !.hits = {c}]
  /\ UNCHANGED <<config, now, rows, updates>>

\* The others: look-up first ...
Find(kind, c) ==
  /\ Asked(kind) /\ c \in Visible /\ Findable(kind, c)
  /\ req' = [req EXCEPT !.pc = "save", !.hits = {c}]
  /\ UNCHANGED <<config, now, rows, updates>>

FindForStatus(c)   == Find("status", c)
FindForReferral(c) == Find("refer", c)
FindReferral(c)    == Find("mark", c) \/ Find("unrefer", c)

\* 404
FindNothing(c) ==
  /\ At("query") /\ req.kind \in Writes \cup {"lookup"}
  /\ c \notin Visible \/ ~Findable(req.kind, c)
  /\ Refuse /\ UNCHANGED <<config, now, rows, updates>>

\* ... then the change, by primary key: neither rights nor scope are looked at again.
Save(c) ==
  /\ At("save") /\ c \in req.hits
  /\ Apply(req.kind, c)
  /\ req' = [req EXCEPT !.pc = "done"]
  /\ UNCHANGED <<config, now, updates>>

Respond ==
  /\ At("done") /\ req' = Idle
  /\ UNCHANGED <<config, now, rows, updates>>

(***************************************************************************)
(* The others.                                                             *)
(***************************************************************************)

\* UpdateSubAdminAccessView and ToggleSubAdminStatusView.
Configure(k) ==
  /\ updates < MaxUpdates /\ updates' = updates + 1
  /\ config' = k
  /\ req' = IF req = Idle THEN Idle ELSE [req EXCEPT !.since = @ \cup {k}]
  /\ UNCHANGED <<now, rows>>

Superadmin(kind, c) ==
  /\ Findable(kind, c) /\ Apply(kind, c)
  /\ req' = IF req = Idle THEN Idle ELSE [req EXCEPT !.stirred = TRUE]
  /\ UNCHANGED <<config, now, updates>>

Tick == now < MaxTime /\ now' = now + 1 /\ UNCHANGED <<config, rows, req, updates>>

Next ==
  \/ \E kind \in Reads \cup Writes : Enter(kind)
  \/ RefuseEntry \/ CheckModule \/ ReadScope \/ WindowOver
  \/ \E asked \in SUBSET Candidates : ListCandidates(asked)
  \/ ListReferrals \/ CountAll \/ CountDone \/ Respond
  \/ \E c \in Candidates :
       \/ LookUp(c)
       \/ ArchiveCandidate(c) \/ RestoreCandidate(c)
       \/ FindForStatus(c) \/ FindForReferral(c) \/ FindReferral(c)
       \/ FindNothing(c) \/ Save(c)
       \/ \E kind \in Writes : Superadmin(kind, c)
  \/ \E k \in Configs : Configure(k)
  \/ Tick

Spec == Init /\ [][Next]_vars

(***************************************************************************)
(* Properties.                                                             *)
(***************************************************************************)

\* Whatever a request shows, counts or changes had, for each kind of scope, a value
\* the scope held at some moment since the request began; at some such
\* moment the right was granted, and at some the account was in its window.  The
\* moments may differ, and in a mixture of two scopes a candidate may
\* be shown who was in neither.
HitsWereAllowed ==
  req # Idle /\ req.hits # {} =>
    /\ \A c \in req.hits, d \in Dims : \E k \in req.since : Attr[c][d] \in k.scope[d]
    /\ \E k \in req.since :
         IF req.kind \in {"mark", "unrefer"} THEN k.right = "edit" ELSE k.right # "none"
    /\ \E k \in req.since, t \in req.began..now : k.active /\ k.from <= t /\ t <= k.until

\* If no manager changes the account while a list is made, and no row changes, it has
\* exactly the candidates asked for and in the scope: none is missing and
\* none too many.
QuietListExact ==
  At("done") /\ req.kind \in {"list", "lookup", "codes"} /\ ~req.stirred =>
    \A k \in Configs : req.since = {k} =>
      req.hits = {c \in live \cap req.asked : \A d \in Dims : Attr[c][d] \in k.scope[d]}

\* The cards never show a negative number of open enquiries, nor more than there
\* are, and they add up if no row changed between their two queries.
CardsAddUp ==
  At("done") /\ req.kind = "cards" =>
    /\ req.pending \in 0..req.total
    /\ ~req.stirred => req.pending + Cardinality(req.hits) = req.total

=============================================================================
