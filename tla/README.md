# Formal models of the MayCloud back end

TLA+ models, model-checked with TLC and in part proved with TLAPS, of the NestJS
application under `src/src/` and the PostgreSQL schema under `src/prisma/`.  The
application is one Node process: handlers run one at a time but give way at each
`await`, so what matters is how the statements of several handlers interleave in the
database, which of them run in a transaction or under a lock, and what remains when one
fails half-way.  That is what the models keep; they leave out the wording, formatting and
validation of texts.

## The system

| Component | State | Operations | Meets | What is hard |
|---|---|---|---|---|
| Contact intake (`contact/`) | `contact_messages`, advisory locks | `create`, `updateStatus` | Turnstile, CRM, notifications, mail | two submissions of one address; time-outs and crashes inside the transaction; prospects that sales edit meanwhile |
| CRM (`crm/`) | prospects and their relations, notes, activities, e-mails | `create`, `update`, `addNote`, `addActivity`, `sendEmail` | mail; the intake opens prospects | decisions on what was read before the transaction; lists replaced without a lock; a mail sent and then not recorded |
| Authentication (`auth/`) | `refresh_tokens` | `login`, `refresh`, `logout`, `register` | users | one token presented twice; a logout that meets a refresh |
| Accounts and rights (`users/`, `admin/access-control`, `common/auth`) | users, roles, permissions and their links | creation, activation, assignment, renaming, deletion | every guarded route | rows protected by a name that may change; administrators who act on each other |
| Menus (`admin/menus`) | the tree of `menus` | `create`, `update`, `delete` | navigation | a walk to the root, or a count of children, that is outdated when the write comes |
| Notifications (`notifications/`) | the socket room, expiry timers | handshake, disconnection, two pushes | contact intake | a socket gone before the handshake is over; counts pushed out of order |
| Server monitoring (`server/`) | three caches, `pendingOverview` | overview, Docker, directories | host, Docker | who shares a collection; failures; old answers that overwrite new ones |
| Mail (`mail/`) | none of its own | send | contact intake, CRM | an answer of the mail server that is lost |
| Analytics (`analytics/`) | sessions and events, the cookies of a browser | `startSession`, `recordContactFormInteraction`, summary | none | requests of one browser that overlap; a row and a cookie that expire apart; days in two time zones |
| Seed (`prisma/seed.ts`) | catalogues, rights, menus and the first account | one script of upserts | administrators and readers at work | it stops at any statement, is run again or twice at once, beside changes to its rows |
| Parsers (`linux-memory.parser`, Docker log frames, paths) | none | pure | server monitoring | cut frames, boundaries |
| Shell (`main`, modules, configuration, `common/responses`) | none | start, validation | all | nothing concurrent |

What makes each correct: an enquiry that was answered is stored, reaches the sales team
and opens no second prospect; a refresh token is exchanged once and a session never
forks; a prospect's history and e-mail records tell the truth; menu options form a tree;
the rows that the rights of the administrators rest on stay; pushed counts settle and no
socket outlives its token; a stored answer never outlives its expiry; a visit is counted
once and ends after half an hour of silence; the seed can be interrupted and run again, and
readers of the catalogues are served meanwhile.

## Modules

Each component has a module that reads like its service: one action per statement
between two awaits, a variable `phase` (`stage` for sockets and cached views) that says
where a call stands, the committed rows as functions of their ids, and, at the end of
the list of variables, history variables that the properties need and no guard reads.  A
definition that is preceded by a comment starting with `Mutant` is no part of the model:
it is the wrong version of the definition below it and exists to show that a property
notices it.

* **LeadRegistry** is the promise of the contact form: an enquiry is stored and, when no
  enquiry has opened a prospect that still has the address, one is opened, in one step.
* **ContactIntake** is `ContactService.create`: anti-bot field, Turnstile, transaction,
  `pg_advisory_xact_lock`, catalogue checks, insertions, commit, push, e-mails.  It is
  shown to implement LeadRegistry (`INSTANCE LeadRegistry`, the shared variables have the
  same names, so the refinement mapping is the identity on them).  A transaction may time
  out at any statement (the defaults of Prisma), the process may crash, and a commit may
  go through without its acknowledgement.  Two addresses may share a lock key, as
  `hashtextextended` allows.
* **SessionLedger** is the promise of the rotation: a session is in one token, which is
  taken before the next is given, or closed for good by the logout that takes it.
* **AuthSessions** is `AuthService`.  A session is a chain of refresh tokens; `parent` and
  `root` are the history that says so.  `revokedBy` names the call that set `revoked_at`.
  It is shown to implement SessionLedger: a session is the root of its chain, its holder
  the token that is not revoked, and a revocation by a refresh leaves it between two tokens
  until the next is stored, or for good when the process stops there.
* **CrmLeads** is `CrmService`.  The point of its detail is the row lock: `update` sends an
  UPDATE of the prospect only if the request names one of its columns, and only that
  UPDATE locks out other edits while lists are deleted and inserted.  `Items` stands for
  any of the four relations, which are replaced by the same two statements.
* **MenuHierarchy** is `MenusService`.  `seen` records the ancestors a walk has read,
  `stale` the calls in whose span another call wrote, `raced` whether a stale call wrote.
* **AccessControl** is `UsersService` and `AccessControlService` behind `JwtStrategy` and
  `PermissionsGuard`.  The permission keys are reduced to `'*'`, the keys the users
  controller asks for and those of the other two controllers.  The SELECTs by which Prisma
  loads an account with its roles and permissions are taken as one read.  A `deleteMany`
  that waits for rows another transaction is deleting is modelled without the waiting:
  the transaction that commits first has won, and the other passes over what is gone.
* **Notifications** is `NotificationsGateway` with the two handlers that push through it,
  `updateStatus` and `create` (its commit and its announcement).  A push reaches sockets
  that are in the room and connected; `client.join` of a socket that has left puts its id
  into the room all the same.
* **ServerCaches** is the caching of `ServerOverviewService` (one shared collection),
  `DockerService.cached` and `DirectoryBrowserService.list` (a collection for each
  caller).  What is observed is the number of a version of the world; the version of a
  collection is that of its first read.  The `then` that stores the value and the
  `finally` that clears `pendingOverview` are two steps, as they are two microtasks.

* **Visits** is `AnalyticsService` with the browser: the handlers read the clock when they
  begin and the table later, so they overlap as their calls to the database do.  `jar` is
  what the browser keeps, with the time it drops the session cookie.  The summary is an
  operator (`Period`, `Within`, `CountOn`) over the rows, with the days written in the time
  zone of the database session as `days.day::date` does.
* **Seeding** is `prisma/seed.ts`, a sequence of statements (`Script`) built from one
  definition per part of the file; rows that a loop treats alike are represented by one.
  `got` holds the ids that the upserts of a run have returned.  Around it are a reader of
  `ContactService.getCatalogs` with the names that `findAll` shows, and the administrators
  of the other modules.  A name that they give is any free one of its kind (`NamesFor`), so
  a row may be called by a key of the seed that is not its own.  Of a request that moves or
  deletes an option, `pending` keeps what it has read: the walk to the root (`AskMove`,
  `WalkUp` for each option), the count of children (`AskRemoval`), and the write
  (`MoveUnder`, `RemoveMenu`) are steps of their own, between which runs make their
  statements.  `outdated` says that one of these has moved an option meanwhile.  There is
  one such request at a time, for what administrators do to one another is the subject of
  MenuHierarchy and AccessControl.  Rows that they create under a key of the seed are
  represented by rows they rename to it; an update that names a key and a parent is the two
  one after the other, and the labels, routes and permissions that an update may give an
  option are left out.  The specification is called `SeedSpec`, since it stands beside that
  of MenuHierarchy in one module of proofs.

`MCxxx` modules hold the small sets that the `.cfg` files substitute for constants;
`xxxProofs` modules hold theorems.

## Runs

| Run | Instance | What it shows |
|---|---|---|
| Intake | two submissions, two addresses with one lock key, one prospect of sales | safety, refinement of LeadRegistry, termination and return of locks |
| SessionsRotation | one account, four calls, three tokens | rotation implements SessionLedger, never forks, never runs on stale grounds |
| SessionsLogout (violation) | three calls | a logout answers that the session is closed while a refresh keeps it open |
| CrmRecords | one prospect, two calls, two list items | relations, e-mail records, history |
| CrmFailedMail (violation) | the same with one item, and a mail server whose answers all arrive (`HeardSpec`) | the mail server accepts an e-mail, the transaction that is to record it fails, and it is recorded and reported as not sent |
| MenuTree | three options, two calls | tree, lone deletions, walks that end |
| MenuCycle (violation) | the same | two moves make a cycle |
| AccessRights | two accounts, three roles, two permissions, two calls | protected rows, lists, the last administrator |
| Dashboards | two messages, two calls, one socket | counts settle, sockets leave, timers go |
| ServerViews | three callers, the host's overview and one cell of Docker's, two versions | single flight, freshness, no caller left waiting |
| Visits | two calls, a visit from before, two days | cookies and rows name one visitor, or those of two overlapping page views; visits neither wake up nor split; the summary adds up |
| Seeding | two runs of the seed, one reader, two edits | interrupted and repeated seeding converges; readers are served; through what a statement or a move closes a cycle in the menu; what administrators can make it leave behind |

**Bounds.**  Every hazard listed in `PROJECT.json` needs two actors, so two calls are
the rule.  Rotation needs four: a login, two rivals for its token and a logout.  Three
tokens leave room for a token, its heir and the heir's heir.  A cycle needs two options,
and the third is an ancestor that is outside of the race.  Three callers of a cache are
a collector, one that joins it or overlaps with it, and one that comes after the expiry;
`MaxWorld = 2` bounds the versions of what is observed, enough for an older one to
overwrite a newer one. In AccessRights a second account and a third role let
administrators come and go.  In Visits a day and a visit last two ticks and the clock
goes to 4, so a visit can expire twice and cross midnight, and the visit from before is
the third that two calls can meet; the time zones keep one offset behind, at and ahead
of UTC.  Seeding has two runs, one that stops and one that repeats it or both at once,
and `MaxEdits = 2` requests of administrators, enough to move an option of the menu and
then another under it, or to rename one and move another.  Each call comes once.  Where that makes the system stop, the
configuration turns the deadlock check off and says so; elsewhere it is on.  Symmetry is
used in runs without liveness only, over sets whose members no definition tells apart.

The lock of Intake is shared by both addresses, the case in which safety must not rest on
the key alone; that addresses with locks of their own do no harm either follows from the
theorems, which hold for any keys.

**Fairness.**  It is assumed for steps of the process and of the servers it waits for, never
for callers, operators or time.  Intake: each await of a submission settles, and a
transaction is ended by Prisma's time-out (weak fairness of `TransactionTimeout`).
MenuTree: each statement of a walk is answered.  Dashboards: each await of a handshake is
answered and a timer that is due fires.  ServerViews: each read of a collection ends, since
`df` is killed after 3 s and a request to Docker ends with silence of 5 s or with 5 MiB.

**Mutants.**  Each property of a passing run is paired with a plausible mistake in the code
(a dropped check, a lock not waited for, a promise not cleared after a failure) that makes
TLC report it.

## What the code does not keep

Three statements of the code itself are refuted, each by its own run: the answer of
`logout`, the 502 of `sendEmail`, and the refusal of cycles by `MenusService`.
`PROJECT.json` quotes the lines.  Other behaviour that is no contradiction of anything
written but worth knowing is stated as the exception of a property: simultaneous
replacements of a list mix when nothing locks its owner (`RelationsNeverMix`,
`ListsMixOnlyInRaces`); an older count can be the last one pushed (`CountSettles`); a
socket that leaves during its handshake leaves a timer in the map for good
(`TimersAreCleared`); two administrators can deactivate each other
(`LastAdministratorFallsToOthers`); a slow collection of Docker's data can overwrite a
newer one (`NewsNeverGoesBack`); an option created or moved under one that is being
deleted goes with it by the cascade of the foreign key (`LoneDeleteTakesOne`); a base
role can be renamed and then deleted (`ProtectedRowsStay`); an interaction with the
contact form prolongs the session in its row and not the cookie, so the visitor is
counted again (`VisitsSplitOnlyByForm`); of two page views that overlap, one may leave its
visitor in the cookie and the other in the row, for good (`VisitorsAgree`); the seed puts
options under `administration` wherever an administrator has moved it, a cycle included,
and cycles that have nothing to do with `administration` come about when an administrator
writes beside a run (an option renamed from `crm` to `crm-leads` between the two statements
is put under itself) or when a run comes between the walk of a move and its write
(`CyclesThroughAdministration`); a run of the seed beside an administrator who renames a
permission joins the row under its new name (`SeedConverges`), and stops at a row that
has been deleted since (`RefusedOnlyByDeletion`); items stored before there were
translations show their codes until a seed has completed (`NamesAfterSeed`).

One exception does differ from what is written.  `analytics-summary-query.dto.ts` describes
the days of a summary as included and as days of UTC ('Primer día incluido ... (UTC)',
'Último día incluido ... (UTC)').  In a database session whose time zone is behind UTC the
days of the series carry the date before and the rows of the last day are left out, so
`SummaryAddsUp` is stated for the other zones, and `SummaryTotals` says for every zone what
the days come to.

## Proofs

All theorems hold for any sets of calls, rows and callers, under the assumptions named
in the modules, which only keep special values apart and constants in range.

* **ContactIntakeProofs.**  `IntakeInvariant` is inductive.  Its heart is `NoneOpened`:
  a submission that has found no prospect and is going to open one holds the lock of its
  address, and no prospect that an enquiry opened carries the address, until it commits;
  `LockHeld` makes that stable under the steps of other submissions, and only
  submissions write as `"contact"`, so the CRM does not disturb it.  `SalesKnows`
  carries the other case, in which a prospect was found: `everEmail` only grows.  From
  it follow `NoDuplicateLeads`, `NoEnquiryLost`, `CommittedRowsStay`, and the refinement
  `IntakeImplementsRegistry`, in which only the two forms of commit and the writes of
  the CRM are steps of the registry.
* **AuthSessionsProofs.**  `SessionsInvariant` says that a session is in one place: in one
  live token or in one exchange under way (`SessionInOnePlace`), and that the heir of a
  token is the one minted by the refresh that revoked it (`HeirIsMinted`).  The conditional
  `updateMany` is what keeps both.
* **MenuSeedingProofs**, the menu: `HierarchyInvariant` says of a walk without a race that
  the ancestors read are closed under `parent` and do not contain the option that moves
  (`WalkIsClosed`); the lemma `MoveKeepsTree` turns that into a tree after the write.
  `LoneDeleteSafe` rests on `CountStands`.
* **MenuSeedingProofs**, the seed, which fills the same tables: the list of statements is
  data, so everything rests on what holds of its entries.  `ScriptShape` says what a
  statement may look like and `ScriptOrder` that no key is put twice and that what a
  statement refers to has been put by an earlier one, for each of the lists that the
  environment of the command allows.  `SeedingInvariant` then says that no two rows have a
  key in common (`NamesUnique`); that a run holds the ids of exactly the keys it has put
  (`RunsKeepIds`), and that their rows are there, under their names, unless an
  administrator deleted or did anything meanwhile (`IdsStand`, `DisturbedTogether`); that
  what the statements of an undisturbed run stand for still holds, other runs or not
  (`StatementsStand`, with one lemma for each kind of statement that keeps it or brings it
  about); what a request that came after a run has read (`ReadersInformed`); where the
  options are that others are put under (`OptionsPlaced`); and how far the walk of a move
  has come (`Walked`).  From it follow `NamesSafe`, `ConvergesSafe`, `RefusalSafe`,
  `DefaultSafe` and `CyclesSafe`.  For the last, a cycle is a set of options that no parent
  leads out of.  The option that a statement has put is then in it, and so, beside no
  administrator, is the one it has been put under, which the run has just put at the root
  or is the one called administration (`PutCloses`).  A move would have closed the set only
  if its walk, which has come to the root, had started in it (`MoveCloses`); and no other
  step closes one (`OthersClose`).
* **AccessControlProofs.**  `AccessInvariant` adds to the two invariants that a call past
  its checks does not aim at a protected row while none has been renamed (`Spares`), and
  that a transaction which replaces a list alone has found all of it (`ReplacesAlone`).
* **ServerCachesProofs.**  `CachesInvariant` says that `pendingOverview` is the one
  collection of a shared cell (`WaitsForPending`), that the cell is not fresh meanwhile, and
  that a collection without a rival finds nothing older than what is stored or than the
  expiry that made it necessary (`CollectsAlone`).
* **CrmLeadsProofs.**  `CrmInvariant` ties each operation to the phases it can be in
  (`CallFits`) and says that a transaction which has updated a prospect holds its row
  (`HoldsRow`).  From that, `ReplacesAll`: where every edit locks the row, what an edit
  is about to replace is all that is there, because a rival that committed in between
  would have held the same lock.  `HistoryAtEnd` (nothing is recorded before the end)
  and `MailUnderWay` carry the e-mail records and `SilentChange`.
* **NotificationsProofs.**  `InboxInvariant` says that, as long as calls do not overlap and
  none fails, the count that a call carries to its push is that of the inbox (`OneWriter`,
  `CountHolds`), and where the id of a socket can be by the await its handshake has reached
  (`SocketFits`).
* **VisitsProofs.**  `VisitsInvariant` says that requests in flight at once know of each
  other (`MeetMutually`), that activity later than a handler's clock is that of one it
  overlaps with (`LaterWasMet`), and, for a visitor who takes one step at a time, that
  each visit is in the cookie, on its way there, or over (`OneVisitAtATime`).  For
  `VisitorsSafe` it says that a page view about to write its visitor into a row that has one
  either writes that of the cookie or overlapped with the page view that set the cookie
  (`CookieOrRival`): a visitor of its own it can only have brought along from before the row
  had any.
  `SummaryTotals` is about the sum of the days: however many calls there may be, those that
  came in made finitely many rows (`RowsAreFinite`, inductive, so no set has to be assumed
  finite); the days of the period have disjoint sets of rows, whose numbers therefore follow
  the rule of the sum (`LabelledAddsDays`); and only one function follows that rule
  (`OneSum`, by a smallest set of days where two would differ, which takes no induction
  theorem).  At UTC and ahead of it the sum is that of the period (`SummarySafe`); behind
  UTC it lacks the last day, for every offset of less than a day.

Invariants with `Invariant` in their name and type invariants were checked by TLC on the
instances of the runs before they were proved; the runs list the properties they carry.

The theorems state every invariant and every action property that a passing run checks,
and both refinements.  Only model-checked are the six properties of liveness
(`EverySubmissionEnds`, `LocksAreReturned`, `WalksEnd`, `ExpiredSocketsLeave`,
`EveryCallerAnswered`, `PendingClears`), since TLAPS treats neither `ENABLED` nor fairness
here, and the three violations, each of which is a behaviour and not a theorem.  There is
no RECURSIVE operator in the modules.

## Not modelled

Mail templates, the envelope of answers, the decorators of the DTOs (what they admit
bounds the inputs), Swagger, CORS, rate limits, configuration and bootstrap: they keep
no state.  `parseLinuxMemory`, `decodeLogFrames` and the path functions are pure and
touch nothing that the models keep.  The profile fields of accounts
(`UsersService.update`), reads that answer lists and details, the connection pool, and a
clock that is set back.  A process that dies is modelled where it leaves something
behind: as `Crash` in the intake and as the death of a call in the sessions, the CRM,
the menus and the access control; sockets and caches vanish with it.

## Plan

1. *Algorithms*: `decodeLogFrames` with the chunks of `dockerRequestBuffer`,
   `parseLinuxMemory`, `normalizePath` and `parentPath`, and the navigation tree, each
   against a reference definition over bounded inputs.
2. Time zones with daylight saving in the summary of Visits.
