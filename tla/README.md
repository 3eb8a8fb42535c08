# novack-backend in TLA+

novack-backend is a NestJS service (TypeORM on Postgres, Redis, socket.io) with which a
supplier registers visitors, lends them tracking cards, and follows their appointments. This
directory holds its formal model: visits and cards, accounts and second factors, the chat, forms,
roles, images, the caches in Redis, and the log transport. All are model-checked, and every safety
property that a passing run checks is also proved for every number of rows, requests and attempts.

All paths are relative to the repository; `services/` is `src/application/services/`,
`use-cases/` is `src/application/use-cases/`.

## 1. The system

Every handler is an asynchronous function of one Node process (several instances may share the
database). It runs alone between two awaits; each await is a separate statement on Postgres or
Redis. **No handler opens a transaction around its statements and nothing locks a row**, so the
interleavings of handlers at their awaits are the hard behaviour almost everywhere.

| component | state | operations | interacts with | hard behaviour | correct when |
|---|---|---|---|---|---|
| Visitor use cases (`use-cases/visitor/`) | `visitors` rows: `state` | register, update, check out, set image, delete | appointments, cards (`CardService`), e-mail | saves a whole entity read several awaits before | a visitor who left holds no card; the states only say what happened |
| Appointments (`services/appointment.service.ts`) | `appointments` rows: status, check-in and check-out time, archived | create, update, check-in, check-out, cancel, delete, archive | visitors, `CardService` | check-in and check-out go on when the card part fails | times agree with the status, a completed appointment is final |
| Cards (`services/card.service.ts`) | `cards`: holder, active, issue date; `card_locations` | create, assign, unassign, update, remove, record location, nearby | visitors, subscription, Redis | check-then-act, two saves without a transaction | a card has one holder, who is in; it goes back before it is lent again |
| Scheduler (`services/card-scheduler.service.ts`) | none | every minute: assign to due appointments, release from ended ones; ESP32 reports | cards, appointments, visitors | overlaps with requests and with its own previous pass | ended visits give their card back; reports are recorded |
| Redis service (`infrastructure/database/redis/`) | chat lists and bodies, card locations with TTL, geo index, generic keys | save and get messages, rooms, locations; set, get, delete | chat, cards, OTPs | several commands per operation, each with its own expiry; `get` parses JSON | a listed message is readable; an expired location is nowhere |
| Login (`services/auth.service.ts`, `token.service.ts`) | attempts, `locked_until` | validate, login | employees | counter read before and written after an awaited `bcrypt.compare` | ten wrong passwords lock the account |
| Two-factor (`services/two-factor-auth.service.ts`) | secret, enabled flags, backup codes; OTPs in Redis | generate, enable, disable, verify, backup codes, SMS and e-mail OTPs | employees, Redis, SMS, e-mail | read-modify-write of the codes array; OTP keys expire | a backup code or an OTP works once; what is verified is what was sent |
| E-mail verification (`services/email-verification.service.ts`) | token, expiry | send, resend, verify | employees, e-mail | resend races the old link | only the last link verifies, within 24 hours |
| Employees (`services/employee.service.ts`, `use-cases/employee/`) | `employees`, credentials | create, public registration, update, remove | Redis marks, suppliers | employee saved before its credentials; marks deleted last | every employee has credentials; a mark serves once |
| Suppliers (`services/supplier.service.ts`) | supplier, subscription | create with its first employee, update, remove | employees, e-mail | three saves and a compensation | all or nothing |
| Forms (`services/form-*.service.ts`) | templates, submissions, answers | submit, set status, create the appointment | visitors, appointments | check-then-act; a stale save of the status | one appointment per submission |
| Roles (`services/role.service.ts`, `permission.service.ts`) | roles, permission sets | create, update, replace permissions | employees | remove-then-assign in two saves | names unique per supplier; a replacement is complete |
| Chat (`services/chat.service.ts`, gateways, supplier bot) | rooms, members, messages, read flags | create or find rooms, add, read | Redis, socket.io | find-or-create | one private room per pair, one group per supplier |
| Log transport (`infrastructure/logging/`) | queue, socket, attempt counter, timers | send, connect, error, close, reconnect | structured logger | callbacks in any order; queue limit; disabled after ten attempts | a record is written or queued; the queue drains |
| File storage (`services/file-storage.service.ts`, three controllers) | buckets, files, the URL in the owner's row | upload an image | S3, disk, employees, visitors, suppliers | bucket created on demand, fallback to the disk, stale supplier save | a URL in a row names a stored file |
| Preferences (`services/user-preference.service.ts`) | one row per kind | create, update, delete | - | check-then-insert under a unique constraint | one row per kind |
| Guards, middlewares, dashboard, e-mail, encryption, audit, reset | per request | - | - | none that spans steps | - |

`services/visitor.service.ts` and `services/chat.service.refactored.ts` are not registered in
any module. `PROJECT.json` lists each component with its status, and the hazards at their lines.

## 2. Modules

| module | what it is |
|---|---|
| `VisitStore` | visitors, cards and appointments, and what TypeORM's `save` and `remove` do to them |
| `CardVisits` | the visit handlers and the cron jobs, one action per await; the properties |
| `CardLending` | abstract specification: cards are lent to visitors and come back |
| `CardReleases` | the inductive invariant behind `CompletedIsFree` |
| `AccountStore` | employees, credentials, one-time codes in Redis, suppliers; the call chains on them |
| `Login`, `TwoFactor`, `OneTimeCodes`, `EmailVerification`, `Registration` | the account services over that store |
| `Accounts` | their composition; the properties |
| `ChatRooms` | `ChatService` and the HTTP routes of the chat |
| `ChatGateway` | the handlers of the socket gateway, await by await |
| `Chat` | their composition; the properties |
| `Desk` | requests under way, shared by the next six |
| `CardLocations` | creating and removing cards under the limit, also by a report; the places a location is kept in |
| `CachedChat` | what Redis keeps for the chat |
| `Forms` | forms, submissions, and appointments made from them |
| `Roles` | roles and permissions |
| `ProfileImages` | file storage and the three uploads |
| `Preferences` | the preferences of an employee |
| `Office` | the composition of those six |
| `LogTransport` | the log transport: queue, attempts, timers, socket events; the properties |
| `CardVisitsProofs` | proofs: the types of the visits, one lemma per TypeORM operation |
| `VisitProofs` | proofs: what stays true of the visits however requests overlap, what requests one after the other keep, and the steps of `CardLending` |
| `CardReleasesProofs` | proofs: the ways to end a visit may race |
| `AccountsProofs` | proofs: the types of the accounts, and which operation sends which statement |
| `AccountSafetyProofs` | proofs: the seven safety properties of `Accounts` |
| `ChatProofs` | proofs: the seven properties of `Chat` |
| `OfficeProofs` | proofs: the nine properties of `Office` |
| `LogTransportProofs` | proofs: the five properties of the log transport |
| `MCCardVisits`, `MCAccounts`, `MCChat`, `MCOffice`, `MCLogTransport` | instances for TLC |

Every module but `Desk` and the `MC` ones keeps its properties beside the actions. A definition
named `X_Y` is a variant of `X` with a plausible bug; no specification uses it.

### How state and actions correspond to the code

In all models a *worker* is one running call chain (a request, a socket event, a cron pass). An
*accept* action is a handler up to its first await that lets another handler see or change
something; a *step* is the code up to the next one, so a task holds what has been read and its
`pc` names the await. Reads that only validate are joined with the statement they precede.

#### Visits

* `visitor[v]`, `card[c]`, `appt[a]` are the rows. A row is unused, live or deleted. Of the
  columns, the model keeps those a guard reads or a property is about: the visitor's `state`,
  the card's `is_active`, `visitor_id` (`holder`), whether `issued_at` is set (`issued`) and the
  number of `card_locations`; the appointment's visitor, status and whether the two times are
  set (`in`, `out`).
* `assignToVisitor` is `AssignReadCard`, `AssignReadVisitor` (with the checks, `Assignable`),
  `AssignSaveVisitor`, `AssignSaveCard`; `unassignFromVisitor` is the four `Unassign...`
  actions. Four callers share them; `AfterAssign`, `AfterUnassign` and `Caught` say where each
  caller goes on, and which of them swallows an exception (check-in and check-out do).
* `FindCards` picks any active card: `find()` has no order, and TypeORM drops a condition
  whose value is null (`card.service.ts:34`).

#### Accounts

* `credentials[e]` has the columns of `employee_credentials` a guard reads. A time is compared
  with now only, so `lock` and `age` are `no`, `ahead` or `past`, and an action moves them.
* What is left of a handler once nothing more is decided is its `todo` list: one command per
  await, taken by `Run`. `UpdateCommand` writes the given columns, as `updateCredentials` does;
  a login (`LoginSave`) writes all columns of the row it read before `bcrypt.compare`.
* `redis` has one key per kind and employee. `get` parses JSON: `Parsed` makes a number of six
  digits, `Typed` is the string a request carries. Any key may expire at any time.
* `CallerId` is what the two-factor and verification routes take for the caller's id:
  undefined. `FindById` gives the first row for it.
* `audit` is history only: wrong passwords, spent codes, mails received, what was proved.

#### Chat

* `socket[s]` is a client's connection, `clients` is `connectedClients`, `joined` is what the
  socket.io adapter knows. A broadcast reaches the sockets that have joined at that moment.
* `clock` advances in milliseconds, so messages may share one; a page is a cursor with what the
  client has got (`got`) and what there was at its first request (`base`).
* `seen` and `caught` are history: what each socket has received, and the rooms it joined
  before it asked for their messages.

#### Office

* The six services share no rows; only what empties Redis is common. `Desk` gives them tasks,
  the number of overlapping requests, and `Abort`: any awaited call throws and what was written
  stays.
* A card's location is in `card_locations`, in the card's columns, under a key with a time to
  live (`cached`) and in a geospatial index without one (`index`). `Equator` are the coordinates
  with a zero, which `saveCardLocation` takes for missing. A report of a number that no card has
  (`ReportUnknown`) inserts the card without a look at the limit and then keeps no location,
  since `recordLocation` asks for the number and gets the id.
* `CachedChat` is one room: a list of ids, a body per id, each written and expired by a
  command of its own.
* The tables of `Forms` are those of the migrations or those TypeORM derives from the entities
  (`synchronize` outside production): they treat answers to deleted fields and second
  appointments differently, so a workload names its schema.
* `Roles` and `Preferences`: a role is saved as the copy read before, permissions included.
* `ProfileImages`: a URL a client or Google supplies is not an upload and is left out.

#### The log transport

`LogTransportService` has no await: each callback runs to its end, so an action is a whole
callback with every method it calls. `Start`, `TimerExpires`, `SendLog` and `OnModuleDestroy` are
called by Node and the application; `Opened`, `Failed` and `Closed` are the handlers of one
socket's connect, error and close events.

* `client`, `connecting`, `attempts`, `enabled` and `queue` are the fields of the service. `sinks`
  remembers where each record was written and `buffer` the records a socket still holds.
* `sock[s]` is what Node knows of a `net.Socket`: it takes writes while opening and open, and a
  destroyed one still has its close event to come. A closed socket is reused for the next
  connection. As in Node's event loop, that close event comes before any timer.
* Timers have no durations: one that is set may expire at any later time. `timers` counts them
  all, since `reconnectTimeout` remembers only the last one and the others cannot be cleared.
* `setup.port` is false for a port number out of range, at which `connect()` throws.
* The file accepts every record; the daily change of file is left out.

### TypeORM, from how the code uses it

The model marks these as external. A `save` compares the entity with the row in a transaction
of its own and writes every column that differs, so stale entities overwrite newer values; it
inserts a row that was removed meanwhile. Relations loaded on the entity are aligned: a visitor
read with its card and saved later writes `cards.visitor_id` back (`CardsAligned`), a visitor
whose loaded `appointments` lack a newer one makes the save fail (`OrphansAppt`, the column is
not nullable), likewise a card whose loaded `locations` lack a newer one. `visitor_id` of a card
is unique (`@OneToOne` with `@JoinColumn`) and references a visitor without `ON DELETE`; an
appointment goes with its visitor. Where two statements of one save may be executed in either
order (`SwapsCard`), the model allows both outcomes.

### What the models leave out

* Time. A due appointment is any one with the time set; a cron pass has one due appointment,
  and a pass with several is that many workers. Locks, codes, links and keys expire at any time.
* The `archived` flag (`Archive` is the save it comes with); which employee has a role;
  descriptive columns.
* Two visitors registered with one e-mail address: the second save fails and changes nothing.
* E-mails, except the one with the verification link: their failure is caught and changes nothing.
* Database calls that fail in the models of the accounts and the chat's rows (`Fail` ends a
  handler of the chat at an await). They fail in the workload of assignments (`FaultyWork`) and
  in the workloads of `MCOffice` marked so.

### Not modelled

The dashboard only reads. Guards, pipes and interceptors keep nothing between requests (the
brute-force counter is applied to no route). The structured logger filters records and hands
them to the log transport. `logstash.service.ts` (disabled in `app.module.ts:40,139`),
`chat.gateway.ts`, `visitor.service.ts`, `chat.service.refactored.ts` and `chat.domain.service.ts`
are registered nowhere. Encryption, audit, SMS and e-mail are I/O. The database reset and the
health check are tooling.

## 3. Runs

A run starts in any of several *workloads*, each a set of operations that share state, with the
number of requests that may overlap. A behaviour stays in its workload (the variable `workload`
never changes), so their state spaces add instead of multiply. A workload is chosen so that operations that meet at
the same rows are together. Ids that no definition tells apart are symmetric. All configurations
switch deadlock checking off: when no request arrives, nothing happens, and bounded ids run out.

| run | instance | shows |
|---|---|---|
| `visits` | 2 workers, visitors, cards and appointments, 7 workloads | `CardsMatchVisits`, `StatusMovesForward` without overlap; `LentIsVisiting`, `TimesMatchStatus`, `ReferencesIntact` with two overlapping requests |
| `lending` | 1 worker, 2/2/2, a serial workload | the visit service implements `CardLending`, with its liveness |
| `releases` | 3 workers, 1/1/1, fair, operations that assign no card | `CompletedIsFree`, `EventuallyReleased`, the inductive `ReleaseInv` |
| `accounts` | 2 employees, 1 supplier, 10 workloads | locking, spent codes, secrets, verified accounts, nothing half created |
| `chat` | 3 employees, 1 visitor, 3 sockets, 3 rooms, 3 messages, 9 workloads | who is in which room, which messages a client gets, pages, read marks |
| `office` | 2 of each row, 20 workloads | card limit, locations, chat cache, forms, roles, images, preferences |
| `log_transport` | 2 sockets, 3 attempts, a queue of 1, 4 configurations | its safety properties and `QueueDrains` |

**Visits.** The first two workloads of `VisitWork` have one request at a time over all operations
but the release job; the others two. The third, of assignments, has failing calls and restarts;
the next two have stale saves, re-inserted rows and removals, the last two all ways to write an
appointment. Two of each row are enough for what the properties relate: a visitor and another, a
card and another, the appointment in hand and a newer one; two workers give every race of a stale
entity with one other handler. `releases` has three workers, because freeing, re-binding and
freeing again takes three. `workload.states` bounds the states an update request may ask for:
in the serial workloads it keeps the state, since a client may set any state at any time, which is no defect
but would make every property about states void; elsewhere it goes back to in progress or
pending. `MaxLocations` bounds the location rows of a card.

**Accounts.** Two employees are one who asks and one who is first in the table; most races need
one account and two requests. `MaxAttempts` is 2 instead of 10, so the limit is reached, passed by
a race and met again after the lock has expired; `MaxFailures` bounds the wrong passwords. One
backup code, two secrets, two one-time codes and three links give an old, a current and a next one.

**Chat.** `PageSize` is 1, so three messages make three pages; `MaxTime` is 2, so messages share
a millisecond or not; another handler sends while pages are turned. As clients do, `Page` asks for
the next page once it has the reply to the last. Three sockets are two of one user and one of
another.

**Office.** A chat list keeps 2 ids instead of 100 and three messages overflow it; limits of 1
and 2 cards are reached and lowered; two forms want one slug; two roles one name. `size` bounds the
rows that are inserted. `TypeOK` of this run says more than which type a variable has: ids of
preferences are given once and a kind has one row, an image is a file that was uploaded, and unless
calls fail a list is never longer than its limit and the trims under way.

**Log transport.** `setup` is what the constructor reads: deployed (log file, Logstash may end
connections), console only, a port out of range, Logstash off. Two sockets are enough: one is
dying while the next connects. `MaxAttempts` is 3 instead of 10 and `MaxQueue` 1 instead of 1000,
so both limits are reached; `MaxLogs` bounds the records, two more than the queue holds.
`MaxTimers` bounds the timers that pile up: an open connection breaks only while fewer are set.

### Properties that speak of requests that do not overlap

The code has no transactions, so some properties hold only while requests do not overlap
(`Serial`) or while some operation is not asked for; the condition is part of the property and its
comment, and it is there because the property is false without it:

* `LastPasswordHolds`: a login that overlaps a change of the password writes the old one back.
* `FailuresCounted`, `CodesOnce`, `EnabledHasSecret`: parallel logins lose increments; two
  verifications of a backup code both succeed; enabling and generating overlap. `AtLimitIsLocked`
  holds under overlap.
* `VerifiedIsProved` holds under overlap too, as long as the first employee of the table stays the
  first while a link is asked for (`FirstStays`). The routes of the links have no caller's id, so
  `generateVerificationToken` and the mail each look up the first row: if that employee is removed
  between the two, the link is stored for one employee and mailed to another.
* `CardsMatchVisits` and `LendsCards`: besides overlap, a failing call, a state set by hand and the
  release job break them (`Orderly`). `StatusMovesForward` allows failing calls, `TimesMatchStatus`
  also overlap; both leave out updates that ask for a status (`workload.states`).
* `NoDuplicateRooms`, `LimitKept`, `RoleNamesUnique`, `SubmissionsAnswered`: check, then insert.
  `NothingHalfCreated` leaves out Google, whose insert makes an employee without credentials.
* `LocationsAgree`: a reader writes an older location back into the cache when a report overlaps.
* `SystemRolesStay`: a stale copy takes the mark off, but only if roles are updated.
* The chat's properties leave out the HTTP routes, which do not broadcast, `Leave`, and failed
  handlers where they say so. `NothingMissed` allows failed handlers; it leaves out `Leave` only
  where requests overlap, since a client that leaves the room and joins it again before the reply
  to its request misses what was sent in between.

### Findings

Five runs find what the code does against its own words:

| run | finding |
|---|---|
| `release_job` | the release job binds the freed card again by saving the visitor it read before |
| `two_assigns` | two overlapping check-ins take one card; the second overwrites the holder |
| `caller` | the two-factor routes change the first employee of the table: the caller's id is undefined |
| `sms_otp` | the right SMS code is refused: Redis `get` returns a number, the request has a string |
| `second_appointment` | saving the submission clears the link the check of a second appointment reads |

The workloads of the passing runs leave out the operations a finding is about where it makes the
property false: the release job in the serial workloads, `lending` and `releases`; assignments in
`releases`.

### Observations

Behaviour met while modelling that is in the models but has no run of its own:

* `findAvailableCards` offers lent cards, as the null condition is dropped (`card.service.ts:34`);
  the assignment then fails (`AvailableCards`).
* `receiveCardLocation` passes the card's id where `recordLocation` looks up a number, so the
  report of a known card records nothing (`card-scheduler.service.ts:242`, `LookupKey`).
* Recording a location saves the card with the holder it read, so an unassignment in between is
  undone (`card.service.ts:62`).
* Without a log file, a record written to a connecting socket is lost when the connection fails:
  the console fallback is skipped (`log-transport.service.ts:254`; `NoRecordLost` without its
  condition).
* When Logstash ends a connection, a timer left over may open a new client before the close
  event, which then forgets it (`LiveIsClient`); `OneConnection` and `QueueDrains` are stated for
  setups where Logstash does not end connections. A destroyed service reconnects.
* The search for a private room counts the members after filtering them, so a room with more
  than the two is taken for theirs (`chat.service.ts:648`).
* In the tables of the migrations an edit of a form deletes its fields and with them the answers
  already given (`AnswersKept` is stated for the tables of the entities). A form cannot be
  deleted: the form counts itself (`form-template.service.ts:222-243`).
* Saving a form read before a deactivation makes it active again (`form-template.service.ts:184`).
* A phone number that is changed stays verified (`two-factor-auth.service.ts:437`).

### Fairness

`FairSpec` asks for weak fairness of `Step(w)` for every worker: an awaited statement is
eventually answered or rejected and the event loop resumes the handler. A step of a worker that
has started stays enabled until it is taken, so weak fairness is enough. No fairness is asked of
requests, cron jobs or faults.

For the log transport, `FairSpec` asks that the first connection is attempted, that timers expire,
that the operating system accepts or refuses each connection, and that a destroyed socket closes -
each stays enabled until it happens (a timer
waits for a closing socket at most), so weak fairness is enough. Records, ended connections and
errors of open connections need not happen. Whether connections are accepted or refused is open:
`QueueDrains` holds if Logstash is never there.

## 4. Proofs

A property is proved by an inductive invariant: it holds at the start, every step of `Next` keeps
it, and it implies the property. Where the property is not inductive, the invariant adds what the
call chains hold in memory, because a later await writes that over the rows. The invariants were
checked by TLC on the instances of the runs before they were proved. The hypotheses are the named
assumptions of the modules: null values are not ids, bounds are natural numbers and not zero where
the code has a positive constant, the workloads have their type, employees are numbers (their
order in the table). Where a theorem speaks of some workloads only, the condition
is in the property itself or, in three theorems, in an `ASSUME` about `Workloads`.

**Types of the visits** (`CardVisitsProofs`). `TypeCorrect == Spec => []TypeOK` for every set of
workers, visitors, cards and appointments, every workload, with or without faults: `DataOK` speaks
of the rows and tasks, and `WorkloadStays` says that no step changes the workload. One lemma per
TypeORM operation says what a save or removal keeps, one moves a worker, and `AcceptType` and
`StepType` have one step per action. `TypeOK` includes `KnowsIds`: a handler about to read a row by
id has the id.

**Rows of the visits** (`VisitProofs`), for every workload:

* `ReferencesStayIntact`. `ReferencesIntact` is inductive by itself: `OneStatement` reduces a step
  of any handler to at most one statement on the rows (a save of a visitor, card or appointment, an
  insert, a removal), and `StatementReferences` checks each against the foreign keys.
* `TimesStayMatched`. `TimesInv` adds that the appointments the call chains hold have the times
  that go with their status, so that a stale save cannot break a row, only set it back.
* `StatusNeverGoesBack`, the action property `StatusMovesForward`. `ForwardInv` says that in a
  serial workload only one worker runs and the appointment it holds is ahead of the row it will be
  saved over. A failing call ends the handler and loses the copy, which is why faults do no harm.
* `LentStaysVisiting`. `LentInv` adds that a chain about to lend its card has marked the visit as
  in progress: `assignToVisitor` saves the visitor first, so a failure or a restart
  between its two saves leaves a visitor in progress without a card, never the reverse.

**Visits one after the other** (`VisitProofs`). `CardsStayMatched` proves `CardsMatchVisits`
from `OrderInv`: only one worker runs; `OrderTask` says what it knows at each await (its
copy of the card is the row, the visitor to be freed has left); and every visitor is `Balanced` -
in progress exactly when it holds a card - except the one that worker stands `Between` two saves
for. `LendsAsPromised` uses the same invariant for the refinement: the initial states of
`CardVisits` are initial states of `CardLending`, and each step is a step of `CardLending` or a
stutter, for orderly workloads of any size. That a lent card comes back is liveness, which the run
`lending` checks.

**Releases** (`CardReleasesProofs`). The ways to end a visit may race each other. For every number
of workers, visitors, cards and appointments, if only the operations of `ReleaseOps` run and no
database call fails (`OnlyReleases`), then `Spec => []ReleaseInv` (`ReleasesAgree`) and
`Spec => []CompletedIsFree` (`CompletedGivesBack`). `CompletedIsFree` speaks of states at rest only
and is not inductive: a check-out saves the visitor it read some awaits before and may bind again a
card that another check-out has freed meanwhile. `ReleaseInv` adds what makes this harmless.
`ClaimsAgree`: the card rows and all entities in memory agree about who holds which card, so a stale
save can only bind a card to the visitor every other call chain believes it belongs to. `Owed`:
whenever a completed visitor holds a card, some worker stands before the save that frees it. `Fits`:
which entities a call chain of these operations holds, and that their location arrays are current,
so the final card save cannot throw. `ReleaseStep` says once what a step has to show, `ReadStep` the
same for a step that writes no card; then each action has a step of its own. Nothing in the code
makes the hypothesis true in production: the run `two_assigns` and the hazards say what happens when
assignments or locations overlap a release.

**Types of the accounts** (`AccountsProofs`). A request of the accounts carries the statements it
still has to send (`todo`), so its type has to say more than that they are well formed. `TypeInv`
adds `Allows`, which operation sends which statement (only a followed link writes `verified`, only
`Enable` switches the second factor on, only a verified code leaves a mark in Redis), `Carries`, what an
operation takes along its call chain, and `Reaches`, which awaits it comes to. Every action is
either `Quiet` - it decides something and writes nothing - or one of a dozen that write, and each
has its lemma. `AccountsTypeCorrect` is `Spec => []TypeOK` for any employees, workers and workloads.

**Safety of the accounts** (`AccountSafetyProofs`). All seven properties, whatever the numbers.
`TasksMove` and `Turns` say once what a step does to the requests; `CredentialsStep`,
`EmployeeStep`, `AuditStep` and `SupplierStep` list the actions that write each table, so that each
proof speaks only of those that can disturb its invariant. `OpsInv` and `AloneInv`: requests are of
the workload, and a serial one has at most one under way.

* `LimitLocks`: `LockInv` says of the rows and of every copy a login holds that the limit comes
  with a lock. This is why losing increments, which overlapping logins do, cannot unlock an account.
* `NothingStaysHalfCreated`: `CreatedInv`, a bare row has a request standing before the insert that
  completes it; that request leaves only by making the insert or when the row is gone.
* `NewPasswordHolds`, `WrongPasswordsCount`, `NeverIncomplete`, `CodesWorkOnce`: `PasswordInv`,
  `FailInv`, `SecretInv` and `CodesInv` say that the row a login holds agrees with the stored one
  in the columns the property is about, since the login writes all of them back. They rest on
  `NewInv`: an employee that does not exist yet has no history. `CodesInv` adds that the codes a
  request is about to write forget no used one.
* `VerifiedWasProved`: `LinksInv`, a link belongs to one employee wherever it is kept - row, mail,
  request, or a copy of the row - and `ProvedInv`, whoever is verified, marked in Redis, or has a
  request that has seen a mark, a code or a link, has proved the address. The proof found that
  `FirstStays` is needed: TLC's two employees are enough for the counterexample once the workload has
  a removal and a link request together.

**Chat** (`ChatProofs`), for any users, rooms, messages, sockets, page size, number of overlapping
handlers and workload; `WorkersAssumption` says that handlers are finitely many. `TypeInv` gives
every event the awaits it comes to (`Reaches`) and says that a handler holds only rooms and messages
that exist (`Grounded`): `ChatTypeCorrect`. `RoomActions`, `MessageActions`, `ClockActions` and
`SocketActions` name the actions that can change each table, `OneActs` says that at most one handler
moves in a step, and `PcBefore` and `PcAfter` where it comes from and goes. `OpsInv` (requests are
of the workload, a serial one has one under way) and `ClientInv` (a socket has no user, no room and
no message before its token is verified; from then on its handlers work for its user) are used by
all that follows.

* `TargetsHear`: `TargetsJoined` speaks of states at rest. `JoinInv` says of all others that a
  socket which lacks a private room of its user has a handler that is going to put it there:
  its own connection, which has not looked for rooms yet or has found this one, or the handler that
  opened the room, which collects the sockets of `clients` when it joins them. A connection
  registers in `clients` before it looks, so that one of the two always sees the other.
* `CaughtUpMissNothing`: `CaughtInv` adds, for a reply under way, that each message of the room
  is in the reply, has been received, or belongs to a handler before its broadcast. The insert comes
  before the broadcast, so a message is never in neither.
* `AllPagesAll`, `PagesOnlyOnce`: `TimesInv`, ids and times grow together, and `PageInv`: the
  cursor of a page is the oldest message got, whatever of the first look is not got is older
  (`PageOk`), a handler under way has read exactly the next ones (`Turning`), and only one turns the
  pages of a socket. Messages sent meanwhile are newer than the cursor, so `Older` does not see
  them. That the least of a set of ids and its newest `PageSize` are what they should be is proved
  from the definitions (`MinOfNaturals`, `GreatestOfNaturals`, `NewestOf`).
* `NoRoomTwice`: `SingleInv`, a handler about to save a room has found none, and since it is alone
  nobody has created one. A room holds exactly the two users it was opened for, whichever
  of them looks (`PairFound`).
* `ReadMeansDelivered`: `ReadInv`, a message that is marked but not received is in a handler that
  is going to reply with it to somebody else.

**Office** (`OfficeProofs`), for any workers, workloads and rows. A request of the six services is
a record that says which operation it is, which await it stands before and what it has read. The
proof gives each service its set of such records (`CardTasks`, ..., `PreferenceTasks`), shows that
they are apart (`TasksApart`) and that the await alone tells which record it is (`TasksPlaced`).
Each service has one lemma (`CardTurns`, ...): a step moves one of its requests to another of its
records (`Turn`) and keeps the types of its rows. What moves the requests of one service leaves those
of the others (`Kept`), so `StepsOfServices` - a service makes a step, or its rows and requests
stay - lets every invariant below be proved against the actions of its own service.
`OneRequest` says what `Serial` is worth: whoever moves is the only request there is.

* `TypesAreRight`: `TypeOK`, from `TypeInv` and the invariants below. That a form gets a slug needs
  that the search for a free one ends: `SlugsAssumption`, suffixes are not exhausted. A slug is
  chosen among at least as many as there are forms, of which one does not exist yet (`SlugFound`,
  by cardinalities). `PreferenceInv` adds that a request holds only ids that were given.
* `LocationsOfCardsAgree`: `LocationsInv`. A report writes the card's columns, the row, the key and the
  index one after the other, so `AgreesBut` says in which of them a card may still differ from its
  newest row, and `Undone` which request is going to write it. A report holds a time newer than every row and has read all of them (`Newest`); whoever
  is about to write the cache holds the newest place (`Caching`).
* `LimitIsKept`: `LimitInv`, there is room for the card about to be inserted.
* `CacheAgreesWithChat`: `ListedInv`, a body is set before its id is pushed, so what is listed has
  one; `BoundInv`, the list exceeds its length by at most one id per saver before its trim, and a key
  without a time to live has a request about to give it one. Cardinalities of `Trimming` count the
  savers, which is why the workers are finitely many (`WorkersAssumption`).
* `SubmissionsAreAnswered`: `AnsweredInv`, a submission whose answers are missing has its request
  before their insert; that insert is not refused since the fields a request has read are
  those of the form (`Current`), and a copy that is saved back has the answers of the row.
* `AnswersAreKept`: three actions write answers. One adds, one saves a copy that lacks none
  (otherwise the column refuses), one deletes fields that nobody has answered.
* `RoleNamesAreUnique`: `NamesInv`, the name a request gives is free until it is saved.
* `SystemRolesAreKept`: `SystemInv`, a copy about to be saved has the mark of its row, and whoever is
  about to remove a row has seen it without one. It holds under overlap as long as none updates, since
  only updates change the mark.
* `ImagesAreStored`: `UploadsInv`, a request has a file of its own number or a URL of a stored file,
  and so has a supplier edit that writes back the URL it has read; `S3Inv`, without failures or
  overlap nobody is sent to the disk, since whoever is about to create a bucket finds none there.

**Log transport** (`LogTransportProofs`), for every number of sockets, attempts, queue places and
records.

* `LogTypeCorrect`: `TypeOK`, the queue's limit included.
* `GivenUpIsDrained`: `DisabledIsDrained` is inductive by itself.
* `NeverStuck`: `ReconnectionPending` is not inductive, since an early return of
  `connectToLogstash` consumes a timer. `ReconnectionInv` adds why there is something left:
  `isConnecting` means that a socket is connecting, and when the attempts are used up it is set.
* `OneAtATime`: `OneConnection`. `LiveInv` adds that a socket that is closing is the only one,
  because it is closed before a timer can open the next.
* `NothingLost`: `NoRecordLostWithFile`. `Filed` says that whatever left the queue is in the file.
  Without a file the property is false (see the observations).

**Only model-checked.** Liveness: `EventuallyReleased`, `QueueDrains` and the liveness of
`CardLending`, since fairness and `ENABLED` are out of the prover's reach. The properties of the
runs that expect a violation are false.

## 5. Plan

What is left, in this order: failing calls in `Accounts`, as `Office` has them; the archived flag of
appointments with `archiveOldAppointments`; which employee has a role, and what the guards make of
it. Their properties extend `TypeInv` of the proof module of each component.
