# CRTD placement platform: TLA+ models, checks and proofs

A verification project for the CRTD backend (Django 5.2, Django REST framework,
Celery, PostgreSQL or SQLite, Redis). `PROJECT.json` is the index: components,
runs, mutants, the map from definitions to source lines, findings, hazards and
theorems. Paths below are relative to the repository root.

## 1. How the system runs, and what that means for the models

* `start.sh` runs gunicorn with 3 processes of 2 threads each: six requests at a
  time, each on its own database connection. A model's `Workers` are these
  threads; two are enough for every race described here.
* `ATOMIC_REQUESTS` is not set, so a view runs in autocommit mode: every query
  is a transaction of its own unless the code opens `transaction.atomic()`.
  PostgreSQL's default isolation is READ COMMITTED. A model therefore cuts a
  request wherever another one can run in between: between statements outside a
  transaction, between two transactions, and at every statement inside a
  transaction that may wait for a row lock. Statements of one transaction that
  cannot wait are one action with its commit, since nobody sees them before.
* `instance.save()` without `update_fields` writes *every* field of the copy
  read earlier. Models keep that copy in the request.
* Razorpay, the mail provider and browsers repeat, delay and reorder what they
  send. Celery beat runs periodic tasks.

## 2. Inventory

| component | state | operations | interacts with |
|---|---|---|---|
| **Student payments and subscriptions** (`payments/`, payment views of `Student/views.py`, `IsActiveSubscriber`) | `StudentPayment`, `StudentSubscription`, `RegistrationSequence`, `PaymentHistory` | create order, webhook captured / failed, failure report, activation, lazy expiry, registration numbers | Razorpay (orders, webhooks), student profile, every view guarded by `IsActiveSubscriber` |
| **E-mail one-time passwords** (`utils/email_service.py`, OTP and reset views of `accounts/views.py`, `cleanup_expired_otps`) | `EmailOTP` row per user and purpose, `email_verified`, password | request / resend, verify, admin login verify, reset password, clean up | registration (sends the first code), login (needs `email_verified`), e-mail tasks |
| **Pre-applications and referral onboarding** (`pre_application/`, `RegisterAPIView`, `GoogleAuthView`, referral views of `admin_analytics`) | `PreApplication`, `EnquiryTokenSequence`, `ReferalCode`, user and student rows | submit, status change, archive, restore, create / edit / delete referral, register, Google sign-up | OTP, student profile, sub-admin scopes, e-mail tasks |
| **Sessions and the me cache** (`accounts/utils.py`, `accounts/authentication.py`) | cache keys `user_invalidated`, `me`; token ages | invalidate, authenticate, refresh, log in, cached `/me` | every authenticated view, RBAC edits |
| **Sub-admin access control** (`accounts/models.py`, `access_control.py`, `permissions.py`) | `SubAdminProfile`, module and scope rows, roles | create, update access, update role, toggle, delete, access predicates | sessions (invalidation on commit), all admin views |
| **Student profile** (`Student/`) | detail, education, preference rows, `profile_completed` | create, update, refresh of the summary flag, opening an order | payments (a completed profile may pay), onboarding (creates the rows) |
| **Subscription plan** (`subscription/`) | the single `SubscriptionPlan` | create, update, delete, all through one endpoint without an id | orders need an active plan |
| **Job applications** (`applications/`, `StudentJobApplyAPIView`) | `Application`, `CoolDown` | apply under a cooldown, admin status and cooldown edits | jobs, subscription check |
| **Job board and testimonials** (`jobs/`) | single rows | create, read, update, delete | applications (cascade) |
| **E-mail tasks** (`utils/tasks.py`, `celery_compat.py`) | Celery queue, retries | queue, send with backoff, eager fallback | OTP, approvals |
| **Analytics, admin panel** (`admin_analytics/`, list views of `pre_application/`) | none of their own | scoped lists, look-ups, cards; scoped changes | sub-admin access, candidates, referrals |
| **Settings, migrations, Django admin, commands** | – | – | – |

What makes each correct, and where it is hard:

* *Payments*: captured money leads to one subscription period, registration
  numbers are distinct, gapless and for life, a paid period is never taken back.
  Hard: webhook redelivery and reordering, two transactions per event, two first
  payments of one student, lazy expiry racing a renewal, failure report racing a
  success, New Year during a wait for the register, crashes between the transactions.
* *OTP*: only a received, unexpired, unused code of the right purpose confirms an
  address or opens a reset. Hard: check-then-save without a lock, full-row saves
  against resends, deletions and the clean-up, the different databases.
* *Onboarding*: one account per approved applicant, tokens distinct, `verified`
  in step with the referral, archived applicants cannot register. Hard: unlocked
  full-row saves by admins, a signal handler after the delete, opposite lock orders.
* *Sessions*: a revoked user is kept out, as far as the cache answers, until he logs
  in again, and then let in; the cached `/me` follows the access rows. Hard: per-user
  flag with a time to live, cache-aside race, cache errors that are swallowed and
  let a request in (`accounts/tests.py:467` wants that), refresh without a check.
* *Sub-admin access*: listed modules equal granted modules; scopes restrict.
  Hard: two representations of the grants, opposite lock orders, effects on commit.
* *Profile*: `profile_completed` equals what the rows say. Hard: the flag compared
  with a copy read before the save, rows read one by one, rows created without owner.
* *Plan*: at most one plan. Hard: enforced by an unlocked query only; a plan that
  is switched off is out of the endpoint's reach.
* *Applications and postings*: one application per job, none inside a cooldown,
  deletions final. Hard: check-then-insert, lost updates of admin edits, `save()`
  turning into an INSERT, cascades.
* *E-mail tasks*: a queued mail is tried one to four times, a code arrives while
  it is valid and can still be used. Hard: doubling countdowns, mails overtaking each
  other, workers killed with tasks in their hands, rows used up, cleaned up or deleted
  while the mail is under way.
* *Panel*: nobody sees or changes more than the scope says. Hard: five reads that no
  transaction holds together, changes by primary key after a scoped look-up.

## 3. Modules

| module | models | kind |
|---|---|---|
| `Payments` | payments component, statement by statement | detailed |
| `RegistrationRegister` | what registration numbers promise | abstract, implemented by `Payments` |
| `Otp` | one-time passwords | detailed |
| `Mail` | the e-mail tasks behind codes and approvals | detailed |
| `Onboarding` | pre-applications, referrals, registration, Google sign-up | detailed |
| `Admission` | what the gate promises: no account without a valid code, spent in the same step | abstract, implemented by `Onboarding` |
| `Session` | token pairs, the invalidation flag, the cached `/me` | detailed |
| `SubAdmin` | one sub-admin account under its managers, from its creation | detailed |
| `Access` | what managers rely on: each request changes the account in one step, or not at all | abstract, implemented by `SubAdmin` |
| `Panel` | one sub-admin's requests under his rights, window and scope | detailed |
| `Plan` | the endpoint of the single plan | detailed, part of `Student` |
| `Student` | profile rows, `profile_completed`, the order; EXTENDS `Plan` | composition |
| `Career` | jobs, testimonials, applications under the cooldown | detailed |
| `MC…` + `MC…_*.cfg` | TLC instances of each | checking |
| `PaymentsProofs`, `OtpProofs`, `OnboardingProofs`, `SubAdminProofs`, `PanelProofs`, `StudentProofs`, `CareerProofs`, `RedisProofs` (`Mail` and `Session`, what lives in Redis) | theorems for all constants | proofs |

### 3.1 `Payments`

| variable | code |
|---|---|
| `today` | `date.today()`; `YearOf` gives the calendar year, a day is the smallest period a subscription can differ by |
| `payment[o]` | the `StudentPayment` row of a Razorpay order: status, student, which payment id it carries |
| `subscription[s]` | the `StudentSubscription` row: status, expiry date, registration number, paying order |
| `sequence[y]` | `RegistrationSequence.last_number` |
| `history[k]` | number of failed `PaymentHistory` rows with payment id `k`; all reports without an id share `None` |
| `rowLock`, `yearLock` | `SELECT … FOR UPDATE` (or the uncommitted unique key) held by an open transaction |
| `req[w]` | program counter and locals of the request thread `w` serves |
| `captured`, `declined`, `acked` | Razorpay's side: money held, attempt declined, event answered 200 |
| `activated`, `twice`, `overwritten`, `faults` | history: orders that bought a period, and a second one; orders whose success a report wrote over; requests lost |

Actions: `CreateOrder`, `InsertOrder`, `OrderRefused` (`create_order`),
`CheckSubscription`, `ExpireSubscription` (lazy expiry, read and write apart),
`PaymentCaptured`, `LockSubscription`, `CreateSubscription`, `TakeNumber`,
`SaveActivation` (webhook, its second transaction cut at its lock waits),
`MarkingError` and `ActivationError` (the `except Exception` of the view, in the first
and in the second transaction), `Crash` (also what an error in a statement of any
other request leaves behind), `PaymentFailedEvent`, `ReportFailure`, `WriteFailed`, `CheckHistory`,
`AddHistory`, and the world: `AdvanceDay`, `Decline`, `Capture`.

The year of a registration number is read (`HoldingRow`) before the wait for that
year's register (`TakeNumber`), and the dates of the subscription after it. A failure
report may name any order of the student that has not succeeded, with no payment id or
with that of a declined or of the captured attempt of this order.

`RegistrationRegister` says what numbers are for: each year hands out 1, 2, 3, …
in one step, to a student who has none. `ImplementsRegister` maps `number[s]` to
the committed row and `last` to the committed sequence.

### 3.2 `Otp`

A code is the index of its issue (`issued[c]` is the user and purpose), which
leaves out digits, hashing and guessing. `database` is PostgreSQL or SQLite, which
answer the reset's row lock differently. `row[u, p]` is the single `EmailOTP` row,
`inbox` the codes that arrived, `req[w].snapshot` the row `verify_otp` or the
reset view read, `uses` and `resets` count acceptances and password changes.
`SendOtp` is `update_or_create` (it locks the row); `Submit` is the read and the
checks, `SaveVerified` the full-row `save()` – an UPDATE, or an INSERT when the row
is gone –, `ConfirmEmail` the user row, `BeginReset` / `SetPassword` / `DeleteOtp`
the three statements of the reset, `RefuseReset` what PostgreSQL makes of its
`select_for_update()` outside a transaction, `Cleanup` the periodic DELETE.
`emailVerified` is what these flows write; Google sign-up also sets it, in
onboarding.

### 3.3 `Mail`

`mail[m]` is the `m`-th mail and its Celery task: its kind and addressee, where it
stands (`stored` in the database and not yet queued, `queued`, `running`, `stray`
in the hands of a dead worker, or settled), its retries, the ticks until it is due
and the ticks since it was asked for. `row[u]` is the `EmailOTP` row of a user and
purpose (which code, under which key, used or not, how old), `referred` the committed
referrals, `gone` the deleted accounts, `arrived` what reached the mail server.
`StoreCode` and `CommitReferral` write the database, `Enqueue` / `RunEagerly` /
`NotQueued` are `delay()` with Celery, without it, and with the broker down;
`Start` and `Run` are the worker, whose attempt may deliver and still raise;
`Retried` is `self.retry(countdown=60 * 2 ** retries)`; `WorkerDies` and
`HandOutAgain` are a killed worker and Redis' visibility timeout. `Lag` is how far
behind its due time a task may be done: a worker stuck in an SMTP call until the
soft time limit is later than that, and outside the model.

Rows do not wait for their mails. `Check` / `SaveUsed` are `verify_otp` (the read with
the checks, the full-row save, which inserts a row that is gone), `BeginReset` /
`DeleteUsed` the password reset as far as its row goes, `CleanUp` the hourly DELETE,
`DeleteUser` the deletion of an account with its rows, `DropReferral` the deletion of a
referral by an admin. So a mail may well arrive for a row or a referral that is gone;
what the code does keep is `UsableOnArrival`. `crossed` (history) holds the codes that
were overwritten or deleted by a request which had read the row before they were stored.
The reset is that of SQLite, whose lock is none; on PostgreSQL it is refused (`Otp`).

### 3.4 `Onboarding`

`app[a]` is a `PreApplication` row (absent, live or archived), `ref[a]` its
one-to-one `ReferalCode` (id 0 when there is none; the three statuses other than
`not_used` are alike to the code), `account` the addresses with a student account,
`appLock` and `refLock` the row locks of open transactions, `req[w]` the request a
thread serves with the rows it read, `uses` and `edits` what each code has let in
and what admins wrote to it, `raced` the applications on which two admins'
requests have overlapped.

Actions: `CheckArchived`, `CheckActive`, `InsertApp`, `NoToken` (submission: two
unlocked queries, then the insert against the partial unique index); `Archive`,
`Restore` (locked, narrow saves); `ReadStatus` / `SaveStatus`, `ReadReferral` /
`SaveReferral`, `ReadForDelete` / `DeleteReferral` / `Unverify` (admins' unlocked
reads and what is done with them later, the `post_delete` handler included);
`StartReferral`, `LockForReferral`, `IssueReferral` (application first, then
referral); `StartRegister`, `StartGoogle`, `LockReferral`, `LockApp`, `Enroll`
(referral first, then application: `select_for_update().select_related()` locks
both rows). The opposite orders can close a circle; `Abort` is PostgreSQL ending
one of the two transactions, answered 500. A code is the index of its issue, so a
deleted and a new referral of one application are told apart.

`Admission` sees only what is committed: who has applied under which address, which
applications stand (live and verified), which ticket (code) each holds, whether it is
valid, and who is a member. `Enter` is a registration or a Google sign-up as one step:
a valid ticket of a standing application is spent and its address becomes a member.
`Grant` is the referral's creation, `Restamp` the save of an edited referral (which may
write back one deleted meanwhile), `Withdraw` the deletion with its signal handler,
`Judge` every save of an application. `Onboarding!Gate` is the mapping.

### 3.5 `Session`

One account. `accessLeft[s]` and `refreshLeft[s]` are what is left of a token pair's
lifetimes, `flagLeft` what is left of the key `user:<id>:invalidated`, `me` the
cached answers per role with the number of the last edit they show. Times count
down with `Tick`. A request is cut at its cache calls, each of which may fail
unseen (`Fault`): `Login` (which only issues tokens), `Refresh`, `PortalLogin` /
`LiftFlag` / `ClearMe` / `IssuePortal`, `ChangePassword` and the managers'
`UpdateAccess`, `UpdateRole`, `Deactivate`, `Delete` with `SetFlag` and `ClearMe`
after their commit, `Activate` (neither), `MissMe` / `FillMe` (`/me`). `revoked[s]`
remembers that the flag was set against a pair and not lifted since. The cache is
the Redis all workers share.

`Authenticate` is `SessionAwareJWTAuthentication`: a good access token, and an answer of
`is_user_invalidated` that is no, because there is no flag or because its read failed
(`NotInvalidated`); the view then goes on with the user row read here, as `Answer` (any
that leaves the session alone), `ChangePassword` or `MissMe`.

### 3.6 `SubAdmin`

`user`, `profile` (what an update reads and writes of them), `rows` (one grant per
module: no row, hidden, view, edit), `allowed` (the many-to-many
`allowed_modules`), `enabled` (`Module.is_active`), and the two row locks. An account
is made by `ReadNew` / `CreateAccount` (`CreateSubAdminView`; two for one e-mail
meet at the unique key) or is one from before the module rows. `ReadPatch`,
`LockProfile`, `ApplyAccess`, `NotFound` are `UpdateSubAdminModulesView`, whose
joined `SELECT … FOR UPDATE` locks the profile and then the user; `StartRole` /
`SetRole`, `StartToggle` / `Toggle`, `StartDelete` / `Delete` lock the user first.
`Abort` is PostgreSQL breaking the circle, `RollBack` any other failure of a
transaction, `SwitchModule` the Django admin. `Listed` and `Granted` are
`get_module_names` and `has_module_access`. What happens after the commit is in
`Session`, what the grants and scopes let through in `Panel`.

`Access` has no locks and no copies: a manager asks for one thing, and `Create`,
`Update`, `ChangeRole`, `Switch` or `Remove` does it in one step to the account as it
then is, or `Refuse` leaves it alone. `SubAdmin!Account` maps the two activation flags
to their conjunction (`is_account_access_active`) and rows and `allowed_modules` to the
sets of modules that may be viewed and edited, whether or not `Module.is_active`.

### 3.7 `Panel`

One request of one sub-admin, read by read, while managers replace the account's
settings (`Configure`) and superadmins change the candidates (`Superadmin`).
`Enter` is `IsAdminPortalUser` with its copy of the profile, `CheckModule` is
`HasModuleAccess`, `ReadScope` the three queries of `get_profile_scope_values` and
`WindowOver` the window looked at once more; then `ListCandidates`, `LookUp`,
`ListReferrals`, `CountAll` / `CountDone` (the cards), or a change:
`ArchiveCandidate` and `RestoreCandidate` in one locked transaction,
`FindForStatus`, `FindForReferral`, `FindReferral` with `Save` by primary key.
`req.since` collects the settings in force since the request began. What the
changes do to the rows is in `Onboarding`; here only who may reach which row.

### 3.8 `Plan` and `Student`

`plans[i]` is a `SubscriptionPlan` row, `given` the keys handed out. The endpoint
finds "the" plan as the first active one (`Current`); `StartPost` / `StartPut` are the
serializer's look for another, `CleanPlan` the look in `save()`, `WritePlan` the
UPDATE or INSERT, `StartDrop` / `DropPlan` the deletion.

`Student` adds one student. A profile row is absent, partial or full
(`update_profile_status` looks at nothing else), `completed` is
`Student.profile_completed`, `orphans` the personal rows of no student. `StartEdit`
reads the student with its flag and the row, `SaveRow` saves, `ReadRow` reads the
other rows one by one, `UpdateFlag` compares with the copy of the flag and writes;
`StartCreate` / `CreateRow` are POST of education and career, which refresh nothing,
`StartPersonal` / `InsertPersonal` POST of the personal row, which looks for and
saves a row of nobody. `StartOrder` / `PlaceOrder` are `create_order` as far as it
depends on flag and plan; `Priced` says whether `SUBSCRIPTION_AMOUNT_PAISE` may name a
price, with which no plan is asked for. `everFull`, `alone`, `quiet`, `created` are history.

### 3.9 `Career`

`board[p]` is a job's or a testimonial's row, `apps` one student's applications, each
with its key, the moment and the day of `applied_at` and its own cooldown, `setting` the
`CoolDown` row, `serial` the INSERTs so far. `StartEdit` / `SaveEdit` and
`StartAmend` / `SaveAmend` are the admins' PUT and PATCH, which save the copy they
read; a row deleted meanwhile is inserted again, an application with a new `applied_at`
(`auto_now_add`). `Delete` includes the cascade.
`StartApply` reads the setting and the newest application, `InsertApplication` runs
into the unique or the foreign key or inserts. `raced`, `decided`, `ordered`,
`deleted`, `tuned`, `peak` are history.

## 4. Runs

Bounds are in the cfg files. Two threads everywhere: a race needs two.

| run | bounds | shows |
|---|---|---|
| `payments_safety` | 2 students, 3 orders (one may be declined), 3 days over 2 years, 1 fault, failure reports of one order, without an id | `NumbersGapless`, `PaidForByOwner`, `PaidStudentEnrolled`, `BoughtOnce`, `DuplicatesBounded`, `ExpiryNeverMovesBack`, `ImplementsRegister` |
| `payments_live` | 2 students, 2 orders, 1 fault, one declined attempt | `CapturedIsEnrolled`, `RequestsEnd` |
| `otp_flows` | 1 user (an admin), 3 purposes, 2 codes, both databases, clock to 3 with a lifetime of 1 | `UnverifiedIsLatest`, `UsesBounded`, `EmailBacked`, `ResetBacked`, `ResetsBounded`, `ExpiredRowsGo` |
| `mail_flows` | 2 mails of one user and one applicant, 1 client, minute ticks, lifetime 11, lag 1, 1 killed worker, with and without Celery | `FreshOnArrival`, `UsableOnArrival`, `MailsSettle` |
| `onboarding_flows` | 1 application, 2 referral codes, 1 status edit per code | `AdmittedInGoodStanding`, `OneUsePerCode`, `VerifiedMeansReferred`, `RequestsEnd`, `ImplementsAdmission` |
| `session_flows` | 2 token pairs, access 2 ticks, refresh and flag 3, `/me` 1, 1 edit, 1 fault | `RevokedKeptOut`, `MeCatchesUp` |
| `subadmin_flows` | 2 modules, 6 patches, the account from its creation or from before the module rows | `ListedIsGranted`, `OmittedActiveKept`, `RequestsEnd`, `ImplementsAccess` |
| `panel_flows` | 3 candidates, 5 settings of the account, 2 moments, 1 change of settings | `HitsWereAllowed`, `QuietListExact`, `CardsAddUp` |
| `student_flows` | 3 edits of the profile and 3 plans, together at most 4 (`Budget`), with a price in the settings and without | `EditSettlesFlag`, `OrphansBounded`, `FlagEarned`, `PlansBounded`, `SwitchedOffForGood` |
| `career_flows` | 2 jobs, 1 testimonial, 3 applications, 2 days, cooldown 0 or 1, 2 admin edits | `DeletionFinal`, `QuietEditsKept`, `BurstBounded` |

Why the bounds are enough. A second order is needed for renewal and for colliding
first activations; the days cross a change of year with a one-day subscription, so
expiry, renewal and New Year all happen; `MaxFaults` counts crashes and errors.
Two OTP codes let a resend overtake a verification and a code be tried for the wrong
purpose; rows of different users never meet. Eleven ticks are the least lifetime of a
code that admits four deliveries with a lag of one tick (`MailAssumption`): the code's
ten minutes against seven of countdowns leave less than a minute of lag to each, and a
finer clock makes the run longer and nothing else. One application is
enough for the locks, since every request locks one application and its own
referral. Two token pairs let one be revoked while another is issued, and an
access token bought last outlive its refresh token. The candidates of `panel_flows`
are the corners of two scopes, one of them in their mixture only; the settings
have a window that opens, one that closes, a right to view, none, and an account
switched off. Two edits of the profile overlap and a third repairs the flag; the third
plan is one more than the threads, and the third application one more than the jobs. Type
invariants are all proved (section 5); no run checks them.

Runs expected to fail; each is a finding with its source line in `PROJECT.json`:

| run | what TLC finds |
|---|---|
| `payments_answered` | an event answered 200 whose order never bought a period |
| `session_login` | a student who changed the password and logs in again is refused |

More that the models show and no run refutes:

* The browser's failure report writes `failed` over a status it read without a
  lock, so it may overwrite a success; a repeated webhook then activates the
  order again and buys a second period. A lazy expiry may write EXPIRED over a fresh
  renewal, which stays hidden until the next activation. `BoughtOnce` says that the
  overwritten success is the only way to a second period; that nobody pays with another's
  order and no date moves back is `PaidForByOwner` and `ExpiryNeverMovesBack`.
* On PostgreSQL `PasswordResetView` calls `select_for_update()` outside a transaction
  and answers 500 (`RefuseReset`), so all of `ResetsBounded` is about SQLite.
* A status PATCH of a pre-application saves the whole row it read, `verified` and
  `is_deleted` included: an archived candidate can come back.
  `VerifiedMeansReferred` therefore excepts applications on which two admins'
  requests overlapped.
* A read of the flag that fails lets the request in, as `accounts/authentication.py:34`
  wants it, and a flag whose write failed is never set. `RevokedKeptOut` names the first
  as one of the two ways in, and speaks of sessions the flag was set against.
* A mail may tell what the database no longer knows: the code of a row that was cleaned
  up, reset or deleted with its account, the referral an admin has withdrawn. A request
  that read the row before a resend may write it back or delete it, and the new code
  with it (`crossed`).
* Some properties bound or exempt a race that the code loses, and are about the
  rest. `OrphansBounded` and `PlansBounded` accept an ownerless row, and as many plans as
  requests run at once. `DeletionFinal` accepts that a posting comes back through an edit
  its deletion overlapped, although `jobs/views.py:172` says it cannot be recovered.
  `QuietEditsKept`, `EditSettlesFlag` and `VerifiedMeansReferred` exempt overlapping
  edits of one row, `EditSettlesFlag` also a row a POST has created since. `RequestsEnd`
  counts a transaction the database breaks off as ended, and `MailsSettle` a mail whose
  request was answered with an error. The hazards say so where it applies.
* Through the endpoint a plan that is switched off is lost (`SwitchedOffForGood`);
  Django's admin (`subscription/admin.py:6`) can still switch it on or delete it.
* A portal login clears the per-user flag, and with it revives every older token
  that has not expired; `RevokedKeptOut` is about the time until then.
* Archiving, restoring, referring and the status of a candidate ask for the right to
  view, not to edit (`Needed`). A request that overlaps a change of scope may show
  a candidate who is in neither the old nor the new one.
* `utils/email_service.py:108` says that tasks survive server restarts. Tasks in the
  queue do; one a killed worker was running was acknowledged and is lost, and one it
  had fetched comes back after the visibility timeout, when its code has expired.
* A window with one end in the request and the other stored may violate the table's
  check constraint, which is answered 500.

Symmetry is used only in runs without liveness properties, over sets that no
definition orders. Two runs leave out of the fingerprint what steers no step and no
property of theirs: `payments_safety` which events were answered (`Unanswered`),
`student_flows` history while nothing reads it, and how an edit came to see what it has
seen (`Relevant`). Deadlock checking is on in every run but the two of `Session`,
where a deleted account whose tokens have run out does nothing more. Each property of
a passing run has a mutant: a definition changed as a plausible bug would, under
which TLC finds that property violated.

### Fairness

`Payments!Fairness`: strong fairness of `Serve(w)`, because PostgreSQL queues
lock waiters and grants each in turn, so a request enabled again and again goes
on; strong fairness of delivering a captured event until it is answered, because
Razorpay repeats it. Students, browsers, crashes and the clock get none.
`Otp!FairSpec`: weak fairness of requests in service (nothing in them waits) and of
`Cleanup`, which `CELERY_BEAT_SCHEDULE` runs hourly. Users get none.
`Mail!MailFairSpec`: time passes, and requests, workers and Redis' redelivery go on
(weak fairness of `MailTick` and of `Work(m)`); `MailTick` itself waits for overdue tasks.
`Onboarding!FairSpec` and `SubAdmin!Fairness`: strong fairness of `Serve(w)`, which
includes `Abort`: PostgreSQL grants locks in turn and breaks deadlocks after
`deadlock_timeout`. Nobody has to send a request.
`Session!Fairness`: time passes (weak fairness of `Tick`) and requests in service
go on; none of them waits. `Student`, `Career` and `Panel` state no liveness: no request
waits there, and nothing is repaired unless somebody saves again.

## 5. Proofs

`PaymentsProofs` proves for every set of students and orders, every finite set of
workers, every subscription length, calendar and number of faults:

* `TypeCorrect`: `Spec => []TypeOK`, by one case per action.
* `RegistrationNumbersDistinct`, `RegistrationNumbersGapless`,
  `SubscriptionsPaidForByOwner`: from the inductive invariant `IInv`.
* `RegistrationNumberIsForLife`, `ExpiryMovesForward`: action properties from
  `IInv` of the state before the step.
* `RegisterImplemented`: `Spec => ImplementsRegister`; only `SaveActivation` maps
  to `Issue`, every other step to a stutter.
* `PaymentsBuyOnce` (`BoughtOnce`): as long as the success of an order has not been written
  over, a period bought or being bought means that the row says success, at most one
  request is buying it, and none once it is bought (`OnceInv`). A step that neither takes
  the success down nor saves an activation leaves all of this alone (`BuyingSteps`).
* `PaidStudentsEnrolled`: inductive beside `IInv`. A request that stops activating
  without a fault has either committed the row or met the winner's
  (`ActivationEnds`).
* `FailureRowsBounded` (`DuplicatesBounded`) counts: the failed rows of a payment id and
  the requests that have promised one never exceed the workers (`TallyInv`), since a
  promise is made only when there is no row.
* `PaymentsNoDeadEnd`: the part of `RequestsEnd` that is safety. Every activation locks
  the student's row before the year of the register and gives both back at the end,
  also at an error's or a crash's (`AllOwned`), so whoever holds a lock can go on or
  waits for one who only has to save. Other than in `Onboarding` and `SubAdmin` no
  circle ever closes, and nobody is broken off.

`NumbersDistinct` alone says nothing of the number a request has drawn but not
committed. `IInv` adds: `OrdersInv` (an order row has an owner, and Razorpay reports
only on orders that have a row), `RowsInv` (an absent subscription has no number, an
expiry date is at most a subscription length away), `RequestsInv` (a request that is
activating serves a captured order of its own student, holds the locks its program
counter says, and the number it drew is `sequence[y] + 1` of the year it read and has
locked since),
`NumbersInv` (the numbers in use are `1..last`, each once) and `PaidForByOwner`.
Two requests cannot both hold a year's lock, so at most one drawn number per year
is pending, and committing it extends `1..last` by one. The assumptions are
`PaymentsAssumption` only (`None` is nobody; day counts and the calendar are
naturals; the workers are finitely many).

`OtpProofs` proves for every set of users, admins, codes and databases, every
lifetime of a code, and any finite number of workers: `OtpTypeCorrect`,
`UnverifiedCodeIsLatest`, `ConfirmedByOwnCode` (`EmailBacked`), `ResetByOwnCode`
(`ResetBacked`), `CodeUsesBounded` and `CodeResetsBounded`. `EmailBacked` is not
inductive: an address is confirmed by a request that reads nothing again after its
save, so the invariant must say what the copy in the request's hands was. `IInv` is
`TypeOK`, `RowsInv` (a row's code was issued to its user for its purpose; verified, it
arrived in the inbox and was used; unverified, it is the newest and unused),
`RequestsInv` (a request's copy holds a code its user received for that purpose,
used once the save is through; only a login code is awaited by the admin path, only
a reset code by the reset), `UsesInv` (what was used was received), `EmailBacked`
and `ResetBacked`. `CodeUsesBounded` counts: the uses of a code plus the saves of it
still pending never exceed the workers (`PendingInv`), since a code whose row is
unverified has no uses yet. `CodeResetsBounded` needs a potential: a reset deletes
the row, a late save brings it back, and then every free worker may read it.
`Level(c)` adds the resets, those under way, the free workers while a verified row
is there, and `n + (n - 1) + …` over the pending saves; no step raises it above
`n(n + 1)` (`ResetsInv`). A row is deleted by its key, so `IdsInv` adds that a code and
all copies of it carry one key. The assumption is `OtpAssumption`.

`RedisProofs` proves of `Mail` `MailTypeCorrect`, `CodesArriveFresh` (`FreshOnArrival`) and
`CodesUsableOnArrival` (`UsableOnArrival`) for any users, clients, mails, crashes, units
and lags with `7 * Minute + 4 * Lag <= Lifetime` (`MailAssumption`): seven minutes of
countdowns against the code's ten. `MailInv` adds `Timely` (after `r` retries a mail no
worker held back is at most `Elapsed(r)` old when due), `Contiguous` (mails are numbered in
the order of the requests), `SpentArrived` (a code that was used, or is about to be, has
arrived) and `Kept` (the row of an awaited code that nobody has crossed holds it, unused,
and exactly as old as its mail, so the clean-up cannot take it before it expires).

`OnboardingProofs` proves `OnboardingTypeCorrect`, `OnboardingAdmitted`,
`OnboardingOneUse` and `OnboardingVerified`, for any applications, addresses, workers and
bounds. `OnboardingAdmitted` rests on `Good`: the rows a request has locked are what it
judged them to be (`Standing`), and no other request's step touches a row it holds
(`Kept`). `OnboardingOneUse` rests on `Tally`: a code belongs to one application in
its row and in all copies (`Numbered`), and while it can still be used it has let in
no more than was written to it (`Counted`). `OnboardingVerified` rests on
`Settled`: on an application that has not been raced at most one admin's request is
under way, what it has read is still true (`Fresh`), and but for the half it has
yet to do flag and referral agree (`Agree`).

`OnboardingImplementsAdmission` proves `Spec => ImplementsAdmission`: `InsertApp` maps to
`Apply`, `SaveStatus`, `Archive` and `Restore` to `Judge`, `IssueReferral` to `Grant`,
`SaveReferral` to `Restamp`, `Unverify` to `Withdraw` (to `Judge`
if another DELETE was faster), `Enroll` to `Enter`, and every
other step shows nothing. Beside the invariants above it needs `AllBound`: a registration
past its look-up holds a code (`id # 0`), an application judged for a referral is still
live when its lock is granted, and a status PATCH carries the address the row still
has. What the gate itself promises (`GateSafe`: members have applied, no ticket is
held twice) is `AdmissionSafe`, proved of `Admission` alone.

`OnboardingNoDeadEnd` proves the part of `RequestsEnd` that is safety, for any number of
threads: whoever holds a row can go on, waits for a holder of the same application's
rows who can, or forms with him the circle that PostgreSQL breaks. `AllOwned` is the
inductive invariant: a lock is held by a request at work on that row, between the
statement that takes it and the commit.

Of `Session` it proves `SessionTypeCorrect` and `RevokedSessionKeptOut` for any
lifetimes, sessions, requests, edits and faults. The assumption that matters is
`FlagLife >= RefreshLife`, which the code meets with 24 hours against one day.
`RevokedKeptOut` is not inductive, since it speaks of no moment before the flag has
gone. `SessionInv` adds `AgesOK`: a refresh token the flag stands against has no more left
than the flag (both count down together, `LessOrder`), and an access token whose
refresh token is dead is younger than a fresh one. When the flag is gone, so is
every refresh token it stood against; and while it is there, only a read that fails
lets a request of its session in (`FlagStops`).

`SubAdminProofs` proves `SubAdminTypeCorrect`, `ListedModulesGranted`
(`ListedIsGranted`) and `OmittedActivationKept` (`OmittedActiveKept`) for any modules,
patches and workers; the assumption is `SubAdminAssumption` (a patch holds grants
and booleans or `None`). `IInv` is `TypeOK`, `RowsAgree` (user and profile carry the
same `is_active`; where there are rows, `allowed_modules` repeats them) and
`CopyTrue` (an update that waits for the user holds the profile's lock and a true
copy of the profile), without which neither property is inductive.

`SubAdminImplementsAccess` proves `Spec => ImplementsAccess`. The change shows at the step
that commits, with the locks granted long after the request was read; so it needs
`AllHeld`: whoever is past the user's lock holds it, and as long as he does the account
is one he may manage. `RowsAgree` makes one activation of the two flags, `CopyTrue` an
update that leaves out `is_active` a request that leaves the activation alone.
`NobodyWaitsInVain` is the safety part of `RequestsEnd`, as for `Onboarding`, from `AllHeld`.

`PanelProofs` proves `PanelTypeCorrect`, `PanelHitsWereAllowed`, `PanelCardsAddUp` and
`PanelQuietListExact` for any finite set of candidates, any settings and bounds.
`Rhythm` says how far the scope has been read at each statement, `Lawful` that
every value a request has in its hands was in force at some moment since it began,
`Sound` that while no row changes, what was found is what there is.

`StudentProofs` proves for any finite number of workers and any bounds
`StudentTypeCorrect` (with `Room`: creations under way find their keys),
`StudentFlagEarned` (`Earned`: whoever has seen a complete row is right that there was
one), `StudentOrphansBounded` (`Few`: orphans plus the inserts past their look),
`StudentPlansBounded` (`WellOccupied`: the plans there are, those a save can bring
back and the new ones past their look never exceed the workers),
`StudentSwitchedOff`, and `StudentEditSettlesFlag` (`Settled`: what an edit on its own has
read still stands).

`CareerProofs` proves for any jobs, testimonials, cooldowns and bounds and any finite
number of workers `CareerTypeCorrect`, `CareerDeletionFinal` (`DeletionFinal`),
`CareerEditsKept` (`QuietEditsKept`) and `CareerBurstBounded` (`BurstBounded`). The types
alone are not inductive: a saved copy could meet another application of its job or key,
so `SameJob` says that rows and copies with one key are for one job. `PostingsOK` says of
an edit of a posting, and `RowsOK` of an edit of an application, that what it does not
decide is as last decided unless the row has raced (`EditTrue`, `AmendTrue`), and that
two copies of one row have raced. `Untuned` counts: while no cooldown is changed,
applications are in the order of their keys and days, and those cooling plus the
requests between check and insert are never more than `peak`. A check that succeeds
finds the newest application, and so all of them, no longer cooling.

`RegistrationNumberIsForLife` and the type theorems are proved and in no run. TLC only:
liveness (`CapturedIsEnrolled`, `RequestsEnd`, `ExpiredRowsGo`, `MeCatchesUp`,
`MailsSettle`), since TLAPS does not reason about ENABLED and fairness (the no-dead-end
theorems say what of `RequestsEnd` is safety); and the two runs that expect a violation,
whose properties are false. Every other property of a passing run is a theorem.

## 6. Plan

Done: `Payments`, `RegistrationRegister`, `Otp`, `Mail`, `Onboarding`, `Admission`, `Session`,
`SubAdmin`, `Access`, `Panel`, `Plan` composed into `Student`, `Career`; proofs of every
safety property the runs check and of the three refinements.

Next, in this order:

1. Two live applications of one address in a run of `Onboarding`: the race of
   submission and restoration (`CheckArchived`, `CheckActive`, `Restore` against the
   partial unique index) is modelled and, with one application, not exercised.
2. Composition: `Otp` with `Mail` (resets of an address and the mails of its codes; `Mail`
   has the rows and not the gate), `Onboarding` with `Otp` (a registered student logs in
   only after his code).
3. The Django admin's edits of grants and scopes, beside `SubAdmin`.

## 7. Not modelled

The numbering of enquiry tokens (a sequence row under a lock; tokens are
identities here), Google sign-in without a referral code, which touches no
onboarding row; the public look-up of a code, which changes nothing.

The development cache, which every process keeps for itself; the Django admin's
direct edits of users, grants, scopes and of the subscription plan; failure reports that
name the payment id of another order; a worker stuck in an SMTP call, and
workers that fall further behind than `Lag`.

Payment figures in the panel (`PaymentAnalytics` is not cut down to a scope) and those
of the collaborating companies, whose single row has no rule; `process_pending_emails`,
which changes nothing.

Formatting, serializer field rules, pagination, throttling, templates, swagger
schemas; signature checks of Razorpay and Google (a signed event is genuine);
money amounts (an order costs what the plan says); the legacy `Payment`
model, which nothing creates, and successful `PaymentHistory` rows;
`verify_payment` and list views, which change nothing. `expire_old_payments` and
`Payment.activate_subscription` have no caller.
