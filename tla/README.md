# NIS school CRM: specifications, checks and proofs

The repository is a school-management system: a NestJS API (`src/apps/api`) over
PostgreSQL, Redis and RabbitMQ, a Telegram bot inside the same process, and a React
client (`src/apps/web`). This directory models the parts of it in which correctness
depends on the order of things, on both sides of the wire: payment gateways that retry,
sessions that rotate, an event bus that redelivers, counters that expire, administrators
who edit the same student, lesson, club or account at the same time, figures computed
while what they count changes, and a client whose answers come late to a page that has
moved on. TLC checks the models on small instances; TLAPS proves the most important
results for every instance.

1. [The system](#1-the-system)
2. [How the models are written](#2-how-the-models-are-written)
3. [Modules, one by one](#3-modules-one-by-one)
4. [Runs, bounds and what they show](#4-runs-bounds-and-what-they-show)
5. [Proofs](#5-proofs)
6. [Where code and documents disagree](#6-where-code-and-documents-disagree)
7. [What is not modelled](#7-what-is-not-modelled)
8. [Plan](#8-plan)

Files: `X.tla` specifies a component, `MCX.tla` instantiates it for TLC, `*.cfg` are the
runs, `X_proofs.tla` holds the theorems about `X` (`Gateways_proofs` those about `PaymeGateway` and
`ClickGateway`, `Limits_proofs` about `LoginThrottle`, `RequestQuota` and `RateCounter`,
`SchoolDesk_proofs` about `Clubs`, `Timetable`, `Staffing` and `Registers`, `Admissions_proofs`
about `StudentPlacement` and `Families`, `WebClient_proofs` about `WebDesk`, `WebCache` and
`WebSheets`), `PROJECT.json` is the machine-readable index (components, runs, the mutant that each
property detects, the source lines of each definition, hazards, theorems).

## 1. The system

One API process (or several replicas behind a proxy) serves HTTP, WebSocket and Telegram
updates and consumes its own events. All state lives outside it: rows in PostgreSQL,
counters and one-time codes in Redis, events in RabbitMQ. Node runs one callback at a
time, so requests interleave exactly at `await`s: each statement sent to the database or
to Redis is a point where everything else may happen. Transactions run at READ COMMITTED;
the only things that keep two requests apart are `FOR UPDATE` row locks, unique indexes,
and single statements.

| Component | State it keeps | Operations | Talks to | Hard behaviour | What makes it correct |
|---|---|---|---|---|---|
| Payme gateway (`billing/services/payme.service.ts`) | `payment_transactions`, `payments` | Check/Create/Perform/CancelTransaction, GetStatement | publishes `payment.recorded` | calls retried, reordered, raced; 12-hour timeout; crash before publish | money booked once, refunded only if booked; retries get the same answer |
| Click gateway (`billing/services/click.service.ts`) | the same tables | prepare, complete | the same | racing prepares; failure report then success | what was confirmed is booked, for that amount and student |
| Manual payments (`billing.service.ts`) | `payments` | record, statistics, debtors | publishes | an answer is several statements over a moving table; publish failure swallowed | the services agree with each other; what is not owed was paid |
| Sessions (`auth/services/refresh-token.service.ts`, `auth.service.ts`) | `refresh_tokens`, `users` | issue, consume, rotate, revoke, revokeFamily, revokeAllForUser, purge | login, Telegram login, cron | every handler acts on what it read earlier | a rotated token is dead; a session has one usable token; a revoked family stays dead |
| Login throttle (`brute-force.service.ts`) | two Redis counters per login | isLocked, recordFailure, clear | login | check, compare, count in separate commands; expiry between two of them | locks are earned and end |
| Telegram quotas (`telegram-login-rate-limit`, `telegram-rate-limit`) | one Redis counter per key | count and decide | Telegram login, notifier | window boundary, overlapping attempts | neither more than promised nor fewer |
| Telegram login and linking (`telegram-login.service.ts`, `telegram.update.ts`, `link-code.service.ts`) | `users.telegram_chat_id`, one-time codes | login, link, unlink, consume code | invites, notifier | look-then-write against a unique index | one owner per chat, an asked-for binding |
| Parents and invites (`parent-invite.service.ts`) | `parent_invites`, `parent_students` | create, accept, revoke, cleanup | users, sessions | accept under a row lock, revoke and cleanup without one | an invite admits one parent |
| Event bus (`common/events/event-bus.service.ts`) | RabbitMQ queues, timers in the process | publish, subscribe, ack, retry, dead-letter, shutdown | every publisher; audit and notifier consume | crash during backoff, a cut connection with handlers and timers alive, redelivery, full prefetch | nothing lost, repeats bounded, everything settled |
| Notifier (`telegram-notification.consumer.ts`) | message quota | one send per recipient | bus, Telegram | one recipient fails, earlier ones were told | done means everybody was tried |
| Audit (`audit.interceptor.ts`, `audit.consumer.ts`) | `audit_logs` | map a request to an event, store | bus | redelivery duplicates rows | every change is recorded |
| Students (`students.service.ts`) | `students`, `student_class_history` | create, update, assignClass, archive | classes | unlocked reads, whole-entity saves | capacity kept, history matches class |
| Leads (`leads.service.ts`) | `leads` | create, updateStage, convertToStudent, delete | students, classes | conversion against a stale stage save | one student per lead |
| Classes (`classes.service.ts`) | `classes` | create, update, softDelete | placement | capacity lowered below use | grade immutable, soft delete respected |
| Users, teachers | `users`, `teachers` | create, update, disable, softDelete, reset password, assign to classes and subjects | sessions, bus | stale whole-entity save, a check and a later write | what was last asked for stands; posts go to active teachers |
| Attendance, grades | rows per student and day; append-only grades | bulkRecord, create | bus | find-then-save against a unique index, row by row | a record holds what its author entered, and parents hear of an absence |
| Schedule, rooms, class subjects | lessons, substitutions, posts | create, update, delete, substitute, cancel | teachers, classes | conflict check and save are two statements | no double booking, a substitution stands |
| Clubs | `club_enrollments`, schedule | enrol, leave, replace schedule | students | count-then-insert without a lock; an edit of three writes | the overrun is bounded, one timetable |
| Scheduled tasks (`tasks.service.ts`) | a run lock in Redis | nightly purge and invite cleanup | sessions, invites | several replicas, failure after locking | at most one run per night, one when it works |
| Broadcasts | `notification_logs` | broadcast | bus | target vocabularies differ | reaches its audience |
| WebSocket gateway | rooms joined at connection | best-effort emit | billing, attendance | membership outlives role changes | — |
| Guards, roles, validation (`common/guards`, controllers, DTOs) | none | let a request pass or refuse it | every page of the client | written apart from the pages that depend on them | pages and doors agree on who may do what |
| Dashboard, reports, attendance rates | none | count, sum, divide | all tables | statements at separate moments | the same figure from two services is the same |
| Web client session (`web/src/lib/api.ts`, `session.ts`, `token-store.ts`) | tokens in memory and in session storage, the query cache, the socket | call, refresh on 401, guard a navigation, log in and out, reload | sessions | the interceptor's refresh, the guard's own refresh and a logout cross | no unexcused reuse; signed out stays out; one person at a time |
| Web pages and dialogs (`web/src/pages`, `features`, `router.tsx`, `AppShell.tsx`) | the page, its loads, its dialog and form | open, type, submit, close, follow | guards, API | an answer outlives the dialog that asked | a dialog is about its own row |
| Web query cache and attendance sheets (`features/*/hooks`, `AttendancePage.tsx`, `ClubDetailsModal.tsx`) | what was read, when, what was marked | load, invalidate, mark, save | API, others at the same table | late and reordered answers, freshness times | one's own change shows; a save writes over nobody unseen |
| Branches, subjects' own rows, health, filters, formatting | rows or none | edits of single rows, reads | — | none of its own | — |

`PROJECT.json` lists every component with its files and its status, and under `hazards`
thirty-nine places, at their lines, where the code could go wrong in a way a test would hardly
reach: the properties below are aimed at those. Where a property excepts part of what its hazard
is about, because the code lets it happen, the hazard's `note` says which part, and what is left.

## 2. How the models are written

* **One action per stretch without an `await` that others can see.** A transaction that
  locks an existing row before it reads it is one action, because nobody else can read
  that row for update or change it until the commit. A handler that found no row, or
  reads without a lock, is split at its statements. What it read travels in `job[h]`, the
  state of handler `h`; a handler is idle, or has a `step` left to do.
* **Requests are chosen freely.** Any request may arrive at any time, any number of
  times: this covers retries, duplicates and reordering by the caller.
* **A crash** forgets every `job` (and every consumer slot) and keeps what was committed.
* **Data is abstract.** A token, a student, a chat or an amount is a model value; a status
  keeps the source's name; times are ticks.
* **A run may hold several parts of which one runs.** `MCGateways`, `MCAdmissions`,
  `MCSchoolDesk`, `MCWebDesk` and `MCWebData` extend two to four components that share no
  state; `focus` (or `provider`) says which of them runs, so what is checked is the sum
  of the parts' state spaces and not their product.
* **Constraints** (`FirstOfEach`, `FirstAccident`, `Unforgiven`, `OneSession`) stop a run from
  extending a state in which something happened that the properties forgive; `OneOfBoth` keeps a
  manager and a second teacher from being there together. The state itself is checked; the proofs
  have no such limit.
* **Ghost variables** record what was promised to the outside (`answers`, `refusals`,
  `confirmed`), where things came from (`parent`, `madeFrom`), or that an overlap happened
  (`raced`, `torn`, `reset`, `overridden`, `overtaken`, `crossed`, `moved`, `undone`, `gone`,
  `unpublished`, `excused`, `late`, `outlived`, `hasty`, `behind`, `touched`, `loose`, `borrowed`,
  and `stray` and `filled` of a sheet).
  No guard reads them; `late`, in a request, decides
  only what the other ghosts will say of its save.
* **Type invariants** (`TypeOK`, `ClubsTypeOK`, ...) stand in every module. Those of the modules
  with proofs are theorems; no run spends itself on them.
* A definition whose name adds a word to the one after it (`ExpiredUncoded` before
  `Expired`) is that definition with a plausible bug in it. Nothing uses it; with it in
  place of the real one, TLC finds the property named in `PROJECT.json` violated, which
  shows that the property can fail.

## 3. Modules, one by one

### PaymentLedger (abstract), PaymeGateway, ClickGateway

`PaymentLedger` is what billing owes the school's books whatever the provider: a
transaction is opened, voided, credited, refunded, and announced at most once and only
after it was credited. Both gateways are shown to implement it; they differ in
`Revivable` (Click may complete a transaction whose first completion failed) and
`Refundable` (only Payme has a cancel).

| `PaymeGateway` | `payme.service.ts` |
|---|---|
| `trans[i]`, `payment[i]` | the `payment_transactions` row with `provider_trans_id` i; the status of the `payments` row with receipt `PAYME-i` |
| `CreateExisting`, `CreateAbsent`, `CreateInsert`, `CreateReread` | `createTransaction`: locked look, insert with 23505 from the unique index, re-read outside the rolled-back transaction |
| `PerformPending`, `PerformOther` | `performTransaction`, under the row lock |
| `Cancel` | `cancelTransaction`, with the refund of the linked payment |
| `Expire` | the timeout branch shared by create and perform |
| `Publish` | the event published after the commit; a failure is swallowed |
| `Crash`, `Tick` | the process; the clock that `TIMEOUT_MS` is compared with |

Simplifications: whether amount and student are acceptable is one boolean of the request.
`performTransaction` asks for the row with its student in one locking query; the model
takes the lock it means to have. `GetStatement`, `CheckTransaction` and
`CheckPerformTransaction` on their own only read. Authentication is left out.

`ClickGateway` maps `prepare` to `PrepareExisting/Absent/Insert/Reread` (no database
transaction at all) and `complete` to `CompletePaid/CompleteFailed/CompletePays` under the
row lock. `MCGateways` runs it beside Payme's model, which is why its variables are called
`clickTrans`, `clickPayment`, `clickJob` where Payme's are `trans`, `payment`, `job`. A request
whose signature, amount or student does not match changes nothing. `complete` finds the row by
`merchant_prepare_id`, falls back to `click_trans_id` when that names no row, and never compares
the row with the `click_trans_id` of the request. The model assumes what Click's protocol says:
the prepare id is the transaction's own, or names no row. What `complete` does with the id of
another transaction's row of the same amount and student is not modelled.

### RefreshTokens

`token[t]` is the `refresh_tokens` row, `account[u]` whether the user may log in,
`swept[f]` the last mass revocation of a family and whether a rotation of it was in
flight. Actions: `Login`/`Issue`, `Refresh`/`Rotate`, `PresentReused`/`Burn`,
`Logout`/`Revoke`, `ChangePassword`/`RevokeAllForUser`, `SetActive`, `SoftDelete`,
`Expire`, `PurgeExpired`, `Crash`. `consume` only reads, so each pair is a read and a later
write; `rotate` is one database transaction and so one action, but its UPDATE goes by id
and does not look at the row again. The purge deletes what expired a week earlier; no
request takes that long, so it never deletes a row a request is about to write. Passwords,
access tokens and requests refused without a write are left out.

### EventBus, DeliveryContract (abstract)

`ready[q]` is a queue, `slot[q][s]` an unacknowledged delivery (being handled, or waiting
for its retry timer), `dead` and `done` what was dead-lettered and acknowledged. A message is
an event, the retry count of its header and the number of its copy. Actions follow
`event-bus.service.ts`: `Publish`, `Deliver`, `Handle` (one effect: the audit row, or one recipient told
or passed over, who opted out, blocked the bot or is over quota), `Ack`, `Fail` (retry or
dead-letter), `Retry` (publish through the exchange by routing key, then ack), and two ways the
channels close. `Crash` stops the process. `Cut` loses the connection and opens it again while the
process lives: what handlers and timers of the old channel still do is in `orphans`. Its ack, publish
or nack throws; the ack's error sets a timer (`FailOrphan`), the nack that follows the last attempt
or the timer's publish is caught by nobody and ends the process (`StopByOrphan`). Both ways
may take the channel between the publish and the ack of a retry, which leaves one copy more.
`DeliveryContract` says what a consumer may rely on.

The broker and its client library are external and modelled from how the code uses them: confirmed
publishes are kept, unacknowledged deliveries come back when the channel closes, and a closed
channel throws.

### RateCounter, LoginThrottle, RequestQuota

`RateCounter` is the pure part: what `SET key 0 EX w NX`, `INCR` and time do to a counter.
`LoginThrottle` is `AuthService.login` with `BruteForceService`: check both counters,
compare, then seed and increment both (or delete both), with other requests, ticks and
crashes between. `RequestQuota` is the counter of both Telegram limits. The commands of
one `Promise.all` are taken to reach Redis together, as they leave in one turn of the event
loop on one connection.

### StudentPlacement

`student`, `open` (history rows without an end), `class`, `lead`. A save of TypeORM selects
the row again and updates the columns in which the held entity differs from it: `Save`.
So `AssignRead`/`AssignCheck`/`AssignCommit`, `ArchiveRead`/…, `UpdateRead`/… have three
steps: first read, lock-check-and-second-read, commit. Class rows and leads are locked by
`FOR UPDATE` (`Locked`, `LeadLocked`), history rows by the UPDATE that closes them
(`Closing`); nothing locks a student. `torn`, `reset` and `overridden` note the overlaps
that the code does not guard against, so that the properties can say exactly what holds
apart from them: `torn` students were saved by a request that had read them before a change it
did not know of, `reset` counts the stage saves that made a converted lead convertible again,
`overridden` classes were given a capacity below their students (`ReviseClass`). Codes, names, stages and notes are left out; a soft-deleted class is an
inactive one.

### Families

`user`, `invite`, `link` and `code` are the rows of `users`, `parent_invites` and
`parent_students` and the link codes in Redis. An account made by an invite for chat x has
the e-mail `tg_x@nis.parent`, unique even after it is deleted; there is at most one, so the
model names it x. `AcceptCheck` locks and checks the invite and looks for the owner of the
chat; hashing a password may follow, so a long gap; `AcceptCommit` writes everything or
nothing (`Obtainable`: the account found was deleted meanwhile, or the chat or the e-mail is
taken). `RevokeCheck`/`Revoke`, `LinkCheck`/`Bind`, `RedeemCode`/`Bind` and
`UnlinkCheck`/`Unbind` are a look and a later write; `CleanupExpiredInvites` and `Blocked`
are single UPDATEs. `revokeInvite` exists in the service and has tests, but no route calls it
yet. Telegram's signatures and the display fields are left out, as is the profile save of
`UsersService.update`, which may write an old chat back: no property here depends on which
chat an account has. A link code is taken to be a number nobody holds.

### Clubs

`club[c]`, `member[c]` and `session[c]` are the row, the active enrolments and the timetable.
Nothing runs in a transaction and nothing is locked. `EnrolRead`/`EnrolCount`/`EnrolInsert` are
the three statements of `enrollStudent`. An edit is up to four: `EditRead` (with the relations),
`EditSave`, `EditClear`, `EditFill`. TypeORM makes the tables agree with what was read. A
session deleted meanwhile is inserted again; a session or an enrolment added meanwhile is cut from
the club, which the `NOT NULL` of `club_id` refuses, and with it the save. Where no row was added both
of two overlapping saves succeed, and the club's row is what the later one had read and changed.
`EditDies` is a process that stops between the statements of an edit.

### Timetable

`lesson[e]` and `cover[e][d]`: a lesson puts a class, a teacher and a room into a slot;
`Ask` is one of the three questions of `validateConflicts`, asked one after the other,
`SaveCreated`/`SaveUpdated` the write after them. A substitution (`CoverRead`, `CoverInsert`,
`CancelCover`) holds lesson and date through a unique index that ignores the status, so a
cancelled one still does. Which of a changed id and a loaded relation TypeORM stores is left open.

### Staffing, Roles

Accounts and posts. `UpdateRead`/`UpdateSave` saves the whole account as it was read, the
password and `deleted_at` included; `ResetRead`/`ResetWrite` and `SoftDelete` write their own
columns. `Appoint` asks for an active teacher, `Install` writes the post later. `AmendRead` and
`AmendSave` are an update of a class, or of a subject of a class, which reads who has the post and
saves him with the rest, unless `AmendNames` has put another teacher in his place (a subject only).
`Roles` holds `Rank`, `AtLeast` and `ManagesRole` from `common/enums/role.enum.ts` and is
shared with `Endpoints`.

### Registers

One day's attendance at the school (`AttendanceService.bulkRecord`) or at a club. A sheet is
entered line by line: `Find`, then `Insert` or `Reload`/`Write`, then `Publish` for an absence or
lateness. `Stop` is a process that goes away; a line that is refused ends its sheet the same way.

### Figures

`Plan` names the statements of each answer of billing, dashboard, reports and attendance and
what each waits for; `Result` is what a statement returns when `Ask` sends it. Between two of them
pupils come, go and move, payments are booked and refunded, records are made and days pass. The
rest (`Debtors`, `Arrears`, `Taken`, `AverageFill`, `AttendanceReport`, ...) is the arithmetic
on what was got, rounding included. Money is counted in half fees.

### WebSession

A tab: `access` and `refresh` (token store), `cached`, `socket`, `call[k]`, the interceptor's
shared `flight`, the router's own `guard[g]`, and `stray` tokens nobody waits for. The API answers
a request in one step and rotates or burns as `RefreshTokens` does when requests do not
overlap; a logout that names a rotated token burns its family before it asks whose it is. Messages
are lost, answers reordered, the tab reloaded, and a second person may log in. The browser's way
back to the login page, with the tokens kept, is not an action.

### Endpoints, WebApi, WebDialogs, WebPages, WebDesk

Four modules of data and one of behaviour. `Endpoints` has the roles and query fields of every
controller's operations and what a call is answered before a service sees it (JWT, roles, flags,
validation). `WebApi` has the clients' methods, the query hooks with their freshness and the
mutations with the keys they invalidate. `WebDialogs` says of each dialog whether it waits for a
request under way, when its form is cleared, and what an answer does to it. `WebPages` has
routes, menus, and what each page loads, offers and leads to. `WebDesk` puts one person there:
`Show`, `Follow`, `LoadAnswered`, `Open`, `Fill`, `Submit`, `Close`, `Do`, `Settle`.

### WebCache

One query, one change of the same person: every pair of a query hook and a mutation hook that
share a table. `Mount`, `Unmount`, `Age`, `LoadRead`, `LoadEnds`, `ChangeSent`, `ChangeEntered`,
`ChangeDone` follow TanStack Query as the hooks configure it (freshness, invalidation, refetch of
what is shown). Which tables a query reads and a change writes is taken from the services.

### WebSheets

The attendance sheet of a class (`AttendancePage`, `AttendanceSheet`) or of a club
(`ClubDetailsModal`) over a register that others write into. The sheet is made from two loads,
the children and the records of the day, which come late, in any order or not at all while another
class or day is chosen. It sends a status for every child it shows. A key that is chosen while its
records are under way joins that load (`Reads`); an invalidation, by a save or an event, starts
another in its place (`Rereads`). The club's dialog keeps one map whichever day's answer came last:
`filled` is the day and class it holds, which the code does not know.

## 4. Runs, bounds and what they show

| Run | Instance | Distinct states | Checks |
|---|---|---|---|
| `gateways` | Payme: 1 transaction, 3 handlers, timeout 1, clock to 4. Click: 2 transactions, 3 requests, 2 amounts, 1 student | 11,639 | `BooksAgree`, `ToldIsKept`, `AnswersAgree`, `NoLateMoney`, `ClickIsBooked`, `ImplementsLedger`, `ClickImplementsLedger` |
| `sessions_overlap` | 3 tokens, 1 user, 2 handlers | 594,861 | `RotatedIsDead`, `SweptIsDead`, `RevokedIsFinal` |
| `event_delivery` | 2 notifications, 2 recipients, 1 slot, 1 retry, 1 stop or cut | 467,047 | `NeverLost`, `RepeatsAreBounded`, `ImplementsContract`, `Settled` |
| `admissions` | 2 students, 2 classes, 1 lead, 2 grades, 2 requests; 2 invites, 2 children, 2 chats, 1 staff account, 1 code, 2 requests | 1,961,504 | `CapacityKept`, `HistoryFollowsClass`, `ConvertedOnce`, `AdmittedByInvite`, `InviteEndsOnce` |
| `school_desk` | 1 club, 3 pupils, 3 edits; 2 lessons, 4 plans, 1 date; 4 accounts, of which 3 at a time, 2 posts, 2 passwords; 2 children, 3 sheets; 2 requests each | 3,427,198 | `SeatsOverrunBounded`, `OneTimetable`, `NoDoubleBooking`, `CoveredOnce`, `LastWordStands`, `PostsGoToTeachers`, `SignedByItsAuthor`, `AbsenceIsTold` |
| `figures` | 2 pupils, 2 classes, 2 months of a day, 2 records, 1 change within an answer | 8,310,294 | `ServicesAgree`, `OwedOrCollected` |
| `web_session` | 2 people, 2 calls, 1 navigation, 2 logins, 2 tokens a family, 1 fault | 8,625,860 | `ReuseIsExcused`, `SignedOutStaysOut`, `TabIsOfOnePerson`, `LogoutEndsSession` |
| `web_desk` | 3 openings of dialogs; 2 logins, 2 emails, 1 address, limit 2, window 2; 2 attempts, limit 2 | 1,252,776 | `RefusalsAreKnown`, `AnswersItsOwn`, `LockIsEarned`, `OverrunIsBounded`, `TwoWindowsAtMost` |
| `web_data` | every pair of query and change; 1 pupil, 2 classes, 2 days, 2 saves, 1 thing others do, 1 failure | 5,099,443 | `OwnChangeShows`, `SavesKeepWhatStands` |
| `password_raced` | 3 tokens, 2 handlers | counterexample | `PasswordChangeEndsSessions` |
| `counter_stays` | 1 email, 1 address, 2 requests | counterexample | `EveryCounterExpires` |
| `archive_raced` | 1 student, 2 classes, 2 requests | counterexample | `ArchivedIsOut` |

The last three state what a document of the repository says and the code does not keep;
see section 6.

What the properties say, where the name does not:

* `SeatsOverrunBounded`: a club never holds as many more than the largest capacity it had as
  there are requests at a time. `OneTimetable`: it has the sessions of one edit, unless two edits
  stood at once between deleting the sessions and inserting their own, or a save brought back
  sessions deleted since it had read them; the next edit that replaces them alone ends that. Saves that
  write over each other, and edits that overlap otherwise, lead to no second timetable.
* `NoDoubleBooking`: two lessons in a slot share no class, teacher or room, unless one of them
  was saved after a save that fell between its check and its own, or was moved by an update.
  `CoveredOnce`: a substitution is never replaced, and a cancelled one stays.
* `LastWordStands`: an account is what was last asked for, unless an update that had read it
  before wrote over it; the super admin's cannot be deleted. `PostsGoToTeachers`: who holds a post
  is an active teacher, or his work ended while he held a post or while a request under way had his
  name to write into one (checked before, or read as the holder's). Nobody else whose work has ended
  gets a post.
* `SignedByItsAuthor`: a record holds a status that the one who signs it entered for that child.
  `AbsenceIsTold`: every stored absence was published, is about to be, or its publication failed.
* `ServicesAgree`: over a school that stands still, the debt, the debtors, the rates and the
  counts that two services compute their own way are the same, apart from what they mean to count
  differently, and the mean fill of the classes lies where their buckets put it. `OwedOrCollected`: over one that changes, what is neither owed nor collected is
  explained by a change that fell into the answer.
* `ReuseIsExcused`: a family is burned for a reuse only if a message was lost, the tab reloaded or
  the guard and the interceptor refreshed at once. `SignedOutStaysOut`: after a logout no answer
  brings tokens back, save a refresh or login that was under way. `TabIsOfOnePerson`: tokens,
  cache and socket belong to one person, unless a refresh answered across a login or a logout, a
  failed one ended the session and left the cache, or somebody logged in over a session whose tokens
  were still there. `LogoutEndsSession`: a logout that was
  confirmed leaves no session behind.
* `RefusalsAreKnown`: what a page loads or offers is served to who may open it, with the exceptions
  section 6 lists. `AnswersItsOwn`: what a dialog sends, shows and is closed by is of its own row,
  unless it was closed over a request.
* `OwnChangeShows`: after one's own change succeeded, what is shown takes it into account, with
  listed exceptions. `SavesKeepWhatStands`: a sheet writes over a record only of a child for whom
  something was chosen, or one written since the sheet read it, or one that stands under another
  class, or when the page's records are being read again or could not be read (`loose`), or when
  the club's map does not hold the records of the day chosen (`stray`).

Why the bounds are enough:

* **Payments.** Rows of different transactions share nothing but the key sequence. Three
  handlers let two creates race while a third call cancels, performs or publishes; two Click
  transactions show that nobody is answered with another's row. The clock passes the timeout by
  more than one tick, so a row can be created before, at and after its expiry. The results
  are proved for all sizes.
* **Sessions.** Three tokens are the smallest family that forks (a token and two
  successors), and two families of different length; two overlapping handlers are the
  smallest race. All properties of the passing run are proved for all sizes.
* **Events.** Two messages compete for one slot, so a failing one really delays the other;
  a message can be retried and exhausted; the process stops before, during and after a
  backoff, and within a retry. Two recipients are the least with which "told the first,
  failed at the second" exists. The audit queue is the same code with one effect; an instance
  with one event in each queue was checked by hand with the same properties (983,773 states).
  One stop or cut is in the run; the theorems, the bound on repeats among them, have any number.
* **Throttle and quotas.** A limit of 2 and a window of 2 ticks let a counter be
  seeded, expire, and be created again between a request's own two commands; two requests
  overrun the limit by one. `MaxValue` stops a counter that no longer expires; it is high
  enough that both limits are passed. Proved for all sizes.
* **Placement and families.** Two students and capacities of 1 and 2 make a class full, not
  full, and over-full; two requests are the least that overlap. Two invites and two chats give
  every pairing: two people at one invite, one person with two invites, a chat taken by the staff
  account between the look and the insert. Proved for all sizes.
* **School desk.** Three pupils overrun a club of one seat with two requests. The first sessions of a
  club and two edits of them are enough for two to stand between deleting and inserting, for a save
  that brings sessions back, and for an edit that replaces what was mixed up. The four plans
  collide in each of class, teacher and room, and one is inactive. A teacher, a manager and
  the super admin give every relation of rank; with two teachers one is put into the post while an
  update that had read the other is under way, who is dismissed before it saves. A manager and a
  second teacher are not there at once: together they make the run too long. Two children let a
  sheet break off between them. Proved for all sizes.
* **Figures.** Two pupils and two classes let totals and averages differ from their parts;
  two months are one before and one of the answer; half fees and one and a half fees make a
  payment too small, and too large, for a month. One change per answer falls between any two
  of its statements.
* **Web session.** Two calls refused at once share a refresh; one navigation runs beside them; a
  family of two tokens can be rotated and reused; two logins are two people, or one person twice.
  Proved for all numbers of people, calls, navigations, logins, tokens and faults.
* **Web desk and data.** A third opening shows what two closed over requests left behind. Pairs
  of queries and mutations are independent, so one pair at a time is enough. Two
  classes and two days distinguish a record of another class from one of another day. Dialogs,
  cache and sheets are proved for any number of openings, pupils, classes, days, saves, things
  others do and failures.

The runs with `CHECK_DEADLOCK FALSE` are those whose instances come to rest: the clock, the
tokens, the invites, the edits or the unborn students run out, or nothing is left to do.

**Fairness.** Only `Settled` needs it. `FairSpec` gives each consumer slot weak fairness on
the whole of what it does: the broker keeps delivering while the prefetch has room, a
handler finishes or throws (its effects are one INSERT or one HTTP call), and the retry
timer fires. It gives none to publishing, to success over failure, or to the absence of
stops beyond `MaxStops`. A property that holds under a bound on stops says: once the
process and its connection stay up, everything is settled.

## 5. Proofs

Eight modules hold the theorems, for every value of the constants: `Gateways_proofs`,
`RefreshTokens_proofs`, `EventBus_proofs`, `Limits_proofs`, `Admissions_proofs`,
`SchoolDesk_proofs`, `WebSession_proofs` and `WebClient_proofs`.

| Module | Theorem | States | Argument |
|---|---|---|---|
| Payme, RefreshTokens, EventBus | `TypeCorrect` | the module's type invariant | part of the inductive invariant |
| the others | `ClickTypeCorrect`, `LoginTypeCorrect`, `QuotaTypeCorrect`, `PlacementTypeCorrect`, `FamiliesTypeCorrect`, `ClubsTypeCorrect`, `TimetableTypeCorrect`, `StaffTypeCorrect`, `RegistersTypeCorrect`, `WebTypeCorrect`, `DialogTypeCorrect`, `CacheTypeCorrect`, `SheetTypeCorrect` | the type invariant of the component | the same |
| Payme | `LedgerAndRowsAgree`, `NoMoneyAfterTimeout` | `BooksAgree`, `NoLateMoney` | `RowOK` fixes payment and status for each state of a row |
| | `AnswersAreKept`, `AnswersNeverDiffer` | `ToldIsKept`, `AnswersAgree` | `AnswerOK`: what was said equals columns of the row that never change |
| | `RaceLosersAnswered` | `RaceLoserAnswered` | who re-reads does so because a row exists, and rows stay |
| | `CancelledStaysCancelled` | `CancelledIsFinal` | a row changes in four ways, none from a negative state |
| | `GatewayImplementsLedger` | `ImplementsLedger` | the four ways are Open, Void, Credit, Refund; one publisher per transaction |
| Click | `ConfirmedStaysBooked`, `ClickLedgerAndRowsAgree`, `ClickStaysBooked`, `ClickRaceLosersAnswered`, `PaidStaysPaid` | `ConfirmedIsBooked`, `ClickBooksAgree`, both (`ClickIsBooked`), `ClickLoserAnswered`, `PaidIsFinal` | the same scheme with Click's three ways of changing a row |
| | `ClickGatewayImplementsLedger` | `ClickImplementsLedger` | a revived row is Credit after Void |
| RefreshTokens | `RotationIsAtomic` | `RotatedIsDead` | inductive with `ParentsOK` |
| | `OnlyForksAreForked` | `ForkedSessionOnly` | `ForksOK` |
| | `SweptStaysDead`, `RevocationIsFinal` | `SweptIsDead`, `RevokedIsFinal` | `SweptOK`; rows are only created, rotated or worn |
| EventBus | `PublishedIsNeverLost` | `NeverLost` | `OwnInv`, `OneInv`, `FirstInv`, and counting copies by their numbers |
| | `BusKeepsContract` | `ImplementsContract` | `TriedInv`; each step publishes, tries or settles one event, or stutters |
| | `RepeatsStayBounded` | `RepeatsAreBounded` | `SpentInv`, `AttemptInv` |
| LoginThrottle | `LocksAreEarned` | `LockIsEarned` | `LockInv` |
| | `OverrunsAreBounded` | `OverrunIsBounded` | `RoomInv` |
| RequestQuota | `TwoWindowsHold` | `TwoWindowsAtMost` | `WindowInv` |
| Clubs | `OverrunBounded` | `SeatsOverrunBounded` | `SeatInv` |
| | `OneEditsSessions` | `OneTimetable` | `EditInv` |
| Timetable | `BookedOnce` | `NoDoubleBooking` | `CheckInv` |
| | `CoverIsFinal` | `CoveredOnce` | an insert needs an absent row |
| Staffing | `LastWordsStand` | `LastWordStands` | `UpdateInv`, `BornInv` |
| | `PostsAreTeachers` | `PostsGoToTeachers` | `AppointInv` |
| Registers | `MarksAreSigned` | `SignedByItsAuthor` | `SheetInv`, `SeenInv` |
| | `AbsencesAreTold` | `AbsenceIsTold` | `ToldInv` |
| Families | `EntryByInvite`, `EndsOnce` | `AdmittedByInvite`, `InviteEndsOnce` | `WorkInv`, `EntryInv` |
| StudentPlacement | `SeatsAreKept` | `CapacityKept` | `SeatInv` |
| | `HistoryAgrees` | `HistoryFollowsClass` | `FreshInv`, `FollowsInv`, `ClosersInv` |
| | `OneStudentOfALead` | `ConvertedOnce` | `LeadInv` |
| WebSession | `TokensArePresentedOnce` | `ReuseIsExcused` | `ReuseInv`, `NewInv` |
| | `LogoutsHold` | `SignedOutStaysOut` | `OutInv`, `StoreInv` |
| | `TabsAreOfOnePerson` | `TabIsOfOnePerson` | `TabInv` |
| | `LogoutsEndSessions` | `LogoutEndsSession` | `EndInv`, `EndedInv`, `KnownInv` |
| WebDesk | `DialogAnswersItsOwn` | `AnswersItsOwn` | `FormInv`, `RequestInv`, `ShownInv`, `ToldInv` |
| WebCache | `CacheShowsOwnChange` | `OwnChangeShows` | `AskedAgain`, `NoneEarly`; tables of hooks |
| WebSheets | `SheetsKeepWhatStands` | `SavesKeepWhatStands` | `CurrentInv`, `MadeInv`, `ClubInv`, `SaveInv` |

*Payme and Click.* `BooksAgree` is not inductive: to see that `Cancel` refunds exactly what was paid
one needs that a performed row is linked to its payment, to see that a repeated answer
agrees one needs that `performTime` is set exactly once, and to see that an announcement is
not repeated one needs to know what each running handler may still do. The invariant is
therefore `TypeOK /\ RowInv /\ JobInv /\ AnswerInv`: `RowOK(row, payment, events)`
for each transaction, the expectations of each running handler, and what everything ever said
still follows from. `RowOK` and its kin speak of values, so one lemma per way a row changes
(`NewRowLemma`, `ExpiredLemma`, `PerformedLemma`, ...) carries the case analysis, and
the step lemmas only say which row changed how.

*Sessions.* The difficulty is "a session has one usable token unless something was rotated
twice", a statement about a forest of unbounded depth. The invariant avoids induction over
chains by `ForksOK`: two childless tokens of one family imply a token with two successors
somewhere in it. A rotation replaces a leaf by its child, or gives a second child, which is
itself the fork; a login starts a family of its own. Usable tokens are leaves by `RotatedIsDead`.
`SweptOK` adds what keeps a swept family dead: no rotation of it is in flight, and none can
start, since a dead family has nothing `Consumable`.

*Events.* `NeverLost` counts, and counts are not inductive. The invariant says where copies
are: each in one place only (`OneInv`), none in a foreign queue or younger than the last stop
(`OwnInv`), and the first one of each published event somewhere (`FirstInv`). The copies of an
event in a queue are then as many as their numbers, a set of numbers from 0 to `stops` that has 0
in it. That a timer is only set for a message with a retry left (`TimerInv`) keeps the count in its
header bounded. `TriedInv` says that a handler has tried every effect it has left behind, which
makes done messages tried ones.

*Repeats.* How often an effect was applied says nothing of how often it may still be. `SpentInv`
counts, for each event and effect i, the *chances* left: a copy and a retry count with which some
handler may still come to i. To them it adds the *late* ones, handlers of a closed channel that
have not passed i. Applying i uses up a chance or a late handler, so effects, chances and late
together are at most `Most(stops)`, what the property allows. A stop adds one for each delivery
that comes back while its handler goes on, at most one per copy, and the retries of the one copy
that a retry in flight leaves behind: just what `Most` grows by. `AttemptInv` adds that a message
that has been retried was tried before, hence a dead one more than `MaxRetries` times.

*Throttle and quotas.* `LockInv`: until it expires, a counter of value n stands for n failures
younger than the counter itself, so a lock that can end was earned within the window. `RoomInv` is
the count of `Clubs`: a login joins those that may fail a key only while the key is below its limit,
so failures and such logins stay below the limit and the number of requests together.
`WindowInv`: an attempt before those of the present counter and of `MaxPerWindow` more is a window
old. A counter lives at most a window, so two counters are all that one window can meet.

*Clubs.* The members alone are bounded by nothing inductive. `SeatInv` counts with them the
requests that will insert whatever happens: members and pending inserts of a club are fewer than
its largest capacity and the number of requests together, because a request that counts a free
seat becomes pending itself. `EditInv` says of each club that is not `crossed` that its sessions are
of one edit, and that while a request is about to insert new ones there are none and no other
request is; whatever a save may do to the sessions beyond that makes the club `crossed`.

*Timetable.* `CheckInv`: a request that is not late, after `n` questions, has no lesson in its
slot that shares any of the first `n` things. A save in the same slot makes the others late,
so what was asked stays true until the request's own save.

*Staffing.* An account changes under the updates that have read it. `UpdateInv`: an update that is
not late saves what the account is, but for the columns it names; those that are late are the ones
`LastWordStands` excepts. `AppointInv`: whom a request may write into a post, because it looked at him
or read him as the holder, is a teacher that works, or is among the `gone`. `BornInv`: requests work on accounts that exist, and the super admin's always does.

*Registers.* `SheetInv`: the lines left of a sheet, and the record being saved, are what its author
entered. `SeenInv`: an update that is not late writes over the record it has seen. `ToldInv`: a stored
absence is published, failed to be, or its sheet stands right before publishing it.

*Families.* An invite somebody is about to accept is locked for that request, unused and
unrevoked (`WorkInv`); every link of parent and student is that of a used invite, and the other
way round (`EntryInv`).

*Placement.* Nothing locks a student, so the invariant turns on which requests are late.
`FreshInv`: what a request that is not late holds of its student is still so, hence its save makes
the row what it holds, and torn students are exactly those saved late. `SeatInv`: a locked class
has one holder, and one who found a seat still has it, as fewer students beside its own
are counted in that class than it has seats. `FollowsInv` is `HistoryFollowsClass` with what
requests that will create a student hold. `LeadInv` counts the students of a lead: at most one
more than its resets, at most its resets while it may be converted, and one request converts it.
`ClosersInv`: the open history rows a request has counted are locked for it until it closes them,
so their number never falls below zero.

*Web session.* Every token that anybody holds was given (`KnownInv`), the two in the store are one
pair (`StoreInv`), and who signed out, with no refresh under way then, holds none and waits for none
(`OutInv`). `TabInv` says of everything that carries a token (the store, refreshes, calls, what is
cached, the socket) whose it is. `ReuseIsExcused` turns on `ReuseInv`: of a session that is not
excused, one holder at most presents a token, and it is the live one; only the interceptor's shared
`flight` makes that so for calls refused together. It needs `NewInv`, that the session a login is
answered with is held by nobody yet. `LogoutEndsSession` needs `EndInv`: while nothing was lost, it
says who may still refresh a session that lives, and that a logout under way names one that no
navigation may refresh any more, and is answered with success only once that session is dead.
`EndedInv` says that it stays dead.

*Dialogs.* An opening has a number; the invariant says which number everything that a dialog
leaves behind belongs to. A form that is cleared holds what was typed for the dialog that is open,
or nothing (`FormInv`); a change under way, or a password shown, is of the dialog that is open or
was closed over it (`RequestInv`, `ShownInv`). It needs of the table of dialogs only `DialogTable`:
which forms are cleared, and that a dialog opened out of another leaves no form and no request of that
other one, for those that open others send nothing themselves.

*Cache.* What the cache holds from before one's own change is loaded again where it is shown and
cannot be shown from the cache elsewhere (`AskedAgain`); a load that had read before the change
is counted as `behind` (`NoneEarly`). When the change is done, that is so because of each pair of a
query and a change that share a table one of three things is true: the change's hook names the
query's key (`OthersHear`), the pair is listed in `Unheard`, or the query is a report, which is never
fresh (`ReportsNeverFresh`) and stands on no page that offers a change (`ReportsAlone`).

*Sheets.* Knowledge of the register travels from a load to the page, to the sheet and to the
save, and each hand-over has its part of the invariant: `Agrees` says that a status is what the
register has for a pupil, class and day, or was written since. `LoadInv` says it of each load
that has read, `CurrentInv` of the records shown while none is under way or failed, `MadeInv` that the
sheet is that of the list and records shown but for what was chosen, `ClubInv` that the map of
the club's dialog agrees with the key it was filled for, which need not be the one chosen, and
`SaveInv` that a save which is neither `loose` nor `stray` agrees with what it writes over. The ghosts
collect what was written since: `late` for a load, `news` for the page, `over` for the save.

Assumptions used: audit and notifier events differ, a notification has a recipient, a consumer has
finitely many slots; `Timeout`, `MaxClock` and the bounds on secrets, sheets, edits, openings and
faults are natural numbers; windows, limits, `MaxOpen`, `MaxLogins` and `MaxTokens` are positive;
`None`, `Nobody`, `Nil` and `Untouched` are not among the things they stand beside; emails are no
addresses; the sets of requests, students and children that are counted are finite; the capacities
of clubs are positive; plans of lessons are lesson rows; a key of an attendance sheet is a class and
a day, and the club's own class can be chosen with every day; each class has a grade, each pupil a
level, each account a role. Each is a named `ASSUME`, which the runs evaluate.

Only model-checked:

* `Settled` is liveness under fairness, which is out of this prover's reach.
* `ServicesAgree` and `OwedOrCollected` are about sums over whatever pupils, classes and months there
  are: that two sums agree for every size needs induction over data, which is out of reach too.
* `RefusalsAreKnown` relates fixed tables (pages, operations, roles) that have no size to
  generalise; TLC goes through all of it. The loads of a page are put together with `@@` of the
  module TLC, which the prover does not expand; `DialogTypeOK` leaves out `page` and `loaded`, the
  two variables whose types speak of them.

No module that is proved about uses a recursive operator.

## 6. Where code and documents disagree

Shown by runs, each a trace of the model that the code can follow:

* `password_raced`: the password form says all other sessions have been revoked; a refresh that
  had read its token before stores a live successor after. What does hold is `SweptIsDead`.
* `counter_stays`: the comments in `brute-force.service.ts` say the first hit sets the expiry; when the
  key vanishes between `SET NX` and `INCR`, `INCR` makes one that never expires. What does hold
  is `LockIsEarned` for every counter that has an expiry.
* `archive_raced`: `NOTES.md:54` says an archived student has its class cleared and history closed;
  an `assignClass` that overlaps leaves it with a class or an open history row. What does
  hold is `HistoryFollowsClass`.

Met while modelling the API; the properties make exactly these exceptions, or the theorems say
what holds instead:

* `docs/adr/004-refresh-token-rotation.md:87` says a refresh token gives at most one successful use;
  `rotate` neither locks nor re-reads the token, so two refreshes that overlap both succeed and the
  session forks (`OnlyForksAreForked`). A reuse that overlaps a rotation of the same family does
  not end it, though CHANGELOG.md:14 says reuse revokes the family.
* `cancel_time` of a Payme transaction closed by the timeout is never stored, so each repeated
  CancelTransaction reports another time; `AnswersAgree` excludes exactly this case.
* `event-bus.service.ts:156` compares `attempt > maxRetries`, which is one first attempt and
  `maxRetries` retries; ADR-002 says "up to 3 attempts". It also binds the audit queue to `#`; the
  code binds `audit.*`, which is why `NeverLost` can say that the other queue gets nothing.
* `event-bus.service.ts:184` answers a failed republish with a nack on the same channel. When the
  channel is closed, the nack throws as well, inside a timer and uncaught, and the API stops: a lost
  connection with a retry pending costs the process. No message is lost by it (`NeverLost`).
* The comment at `parent-invite.service.ts:313` says a consumed invite cannot be revoked; it can when
  it is consumed after `revokeInvite` looked. `InviteEndsOnce` makes exactly this exception.
* Overlapping requests about one student put a class over its capacity, which is why
  `CapacityKept` counts the students that are not torn.
* `consume` refuses an expired token before looking whether it was revoked.
* The "sliding window" of `telegram-login-rate-limit.service.ts` is a fixed one, hence
  `TwoWindowsAtMost` and not one.
* `NOTES.md:94` says notification preferences are read by nothing; the notifier reads them now.
  `NOTES.md:87` says there is no sweeper job; `tasks.service.ts` is one.
* `workflows/announcement-broadcast.md` describes the broadcast target mismatch.

Met while modelling the client:

* ADR-004 (:74-75, :95) says the refresh token is never in `sessionStorage` and a reload signs out;
  `token-store.ts:40` keeps it there, and `WebSession` reloads into a session.
* Teachers may mark attendance (`docs/NIS_CRM_TZ_v2.md:92`, :1269), but the pages of attendance, grades
  and schedule begin with a list of classes that answers them 403. Their other refusals
  (creating a club, dropping a pupil of one), a manager's at editing branches and deleting subjects, and
  those everybody meets (a list of pupils asked by 150, which the DTO limits to 100; the grade
  book's `isActive`; the path of the notification log) are listed in `WebDesk` beside
  `RefusalsAreKnown`. A parent is shown the office's menu and served nothing of it.
* Users are told that deleting an account revokes all its sessions (`UsersPage.tsx:89`);
  `softDelete` revokes none, the next refresh notices.
* A request outlives its dialog: its answer closes the one opened meanwhile, and a new password may be
  shown in the dialog of somebody else (`AnswersItsOwn`, `hasty`). Four forms keep what was typed for
  another row (`KeepsItsForm`). A deletion of a user or class that fails closes its dialog all the same.
* The dashboard, the debtors, the billing statistics and a teacher's own class are not told of
  changes they depend on (`Unheard` in `WebCache`), and are stale for up to a minute.
* Attendance sheets: saved right after a change of class, a sheet may still be that of the
  class before (`borrowed`); when the records could not be loaded it sends everybody as present
  (`loose`); a pupil who changed class that day has a record the sheet does not show and
  writes over; a save that was entered in part and refused is not read again; an event of the socket
  discards marks that were not saved; the club's dialog may show and send another day's marks, when
  answers come out of order or the day's own has not come or failed (`stray`).
* Updates save what they read: of two edits of a club the later takes back the other's changes, and a
  session deleted in between stands again (`crossed`); an update of a class or a class subject that
  names no teacher puts back the one who lost the post meanwhile, dismissed or not
  (`PostsGoToTeachers`, `gone`).

## 7. What is not modelled

* **Components left out**: grades (append-only inserts followed by a publish), branches (edits of
  single rows), the WebSocket gateway (best-effort emits), cross-cutting HTTP code, schema,
  configuration and deployment. Unique indexes are modelled with the tables that races end at.
* **Parts left out** of components that are modelled: the audit interceptor's mapping of requests to
  events; the notifier's choice of recipients and the broadcast's targets and log row; stages and
  notes of leads; creating and deleting a class; a subject's own row; health; the sheet of
  grades; layout, texts, filters and paging of the client.
* **The connection pool** (a create inside a transaction asks for a second connection): it is in
  the hazards.
* **The run lock of the nightly tasks** among replicas; the tasks themselves are actions of
  `RefreshTokens` and `Families`.
* **Pure input and output**: mapping of entities to responses, exports, templates, logging.
* **Signatures**, basic authentication and Telegram's hashes: a request that fails them changes nothing.
* **A publish that fails or is cut off after a commit** is modelled in the gateways and in
  `Registers`; other publishers have the same shape.
* **Time inside handlers**: a handler may take arbitrarily long, except that it does not outlive the
  week before a purge.

## 8. Plan

Written: payments, sessions, events, throttle and quotas, placement, families, the school's desk,
the figures, and the client; proofs of all of these but the figures and the calls that the client's
pages are refused. What would come next:

1. The run lock among replicas, over the purge and the cleanup.
2. The notifier's targets, and grades with their sheet.
