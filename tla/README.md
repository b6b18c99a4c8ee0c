# TravelEke service: a verification project

TLA+ modules, TLC configurations and machine-checked proofs for the NestJS
backend under `src/backend/src`: a hotel-booking service with one MySQL database
(TypeORM), one Redis and a Socket.IO gateway.  `PROJECT.json` maps every
definition to the lines it models, every run to the question it asks and every
property to a wrong variant of the code that breaks it.

## 1. The system

### 1.1 How the parts interact

Requests reach controllers; a controller calls one service method, an `async`
function whose every `await` lets other requests run, in this process or in
another one.  Nothing is shared in memory, with one exception (the lockout map
of the email checks): what requests share are rows in MySQL and keys in Redis.
So the interleavings that matter are those of statements:

* A plain `SELECT` reads committed rows and never waits (REPEATABLE READ, no
  method of the modelled services uses `FOR UPDATE`).
* An `UPDATE` waits for the row's lock, works on the latest committed row and
  keeps the lock until its transaction ends.
* TypeORM's `save(entity)` is its own transaction unless it gets a manager: a
  `SELECT` of the row, deleted or not, then an `UPDATE` of only those columns in
  which the entity in memory differs from the row just read.  A column somebody
  else changed since the entity was read is such a column.  `Bookings`, `RoomAdmin` and
  `ServiceRequests` take the two statements apart.  In `Accounts`, `StaffProfiles`,
  `ServiceCatalog` and `ImageAlbum` a `save` is one step: what is followed there of a
  row is a single column, or columns about which the properties speak one by one.
* `runWithDeadlockRetry` runs a function in a transaction and, after a deadlock
  or a lock wait timeout, rolls back and runs it again, at most three times.

Bookings change `rooms.available_rooms`, a column that the room editor and, at
its creation, the room administrator write too.  Bookings and service requests
tell the realtime gateway after their commits.  The account table is read by
logins and token rotations and written by user administration.

### 1.2 Inventory

For each component: its state, its operations that change it, what is hard about
it, what makes it correct.

| component | state | operations | hard | correct when |
|---|---|---|---|---|
| bookings (`bookings/`) | `bookings`, `booking_rooms`, `booking_status_logs`, `rooms.available_rooms`, Redis `idempotency:booking:*` | `create`, `updateStatus`, `reassignStaff` | conditional `UPDATE` against many, unlocked reads, retries, crash between COMMIT and SET, events after COMMIT | stock is conserved and never negative, the log is the booking's history, final is final, an answered retry books nothing, every request ends |
| transaction retry (`common/database`) | none | `runWithDeadlockRetry` | repeats what is not rolled back | a retry leaves no trace of the attempt before |
| room edits (`rooms/`) | `rooms`, `room_service_assignments` | `update`, `remove` | writes back what it read several calls ago; three commits without a transaction | an edit does not touch what bookings changed or reserved; services are one list |
| room creation and search | `rooms` | `create` | room, image and services in three commits; slug race | a room is complete; one slug per room of a hotel |
| image albums (`rooms/`, `hotels/`) | `room_images`, `hotel_images`, cover columns, files | `addImages`, `setPrimaryImage`, `deleteImage`, `getImages` (inserts!) | count-then-insert, clear-then-set, a saved image that was deleted | at most 5 (6) images, one primary, the cover is the primary's, no row without its file |
| sessions (`auth/`) | `refresh_tokens` | `login`, `rotateRefreshToken`, `logout`, `logoutAll` | status read without a lock, unconditional `UPDATE`, lost answers, clock | a token is used once, an ended session stays ended, nothing outlives the absolute lifetime |
| registration (`auth/`, `mail/`) | `users` | `register`, `verifyEmail`, `resendVerification` | email sent after the save, may fail | a failed email leaves an account that can be verified later |
| email checks (`auth/email-security`) | lockout map in memory | `validateEmail` | check before an `await` on DNS, one catch for all errors, counts never expire | a lockout admits nobody; one violation counts once |
| users (`users/`) | `users`, `user_roles` | staff and customer administration | stale `save` after bcrypt | a lock, a role or a removal is not undone by an unrelated edit |
| service requests (`services/`) | `service_requests`, `booking_service_snapshots`, `service_recovery_logs` | create, update, status, snapshot, recovery, approval | no transition check, no transactions | the life cycle in its comment; one snapshot per service; a recovery marks its request |
| staff skills and hotel staff (`hotel-staff/`) | skills, languages, rules, assignments | upserts, verification, assignment | check-then-write, verification of a changed level | what was verified is what is there |
| rate limiter (`rate-limit/`) | Redis sorted sets and hashes | two Lua scripts behind a guard | clocks of callers, boundaries, expiry, fail-open | never more than the limit in any window; a bucket never over its capacity |
| Redis lock (`redis/`) | Redis `lock:*` | `withLock` (no caller today) | TTL shorter than the work, lost answers | one holder; only the holder releases |
| realtime, analytics, audit | sockets; `hotel_trackings`; `audit_logs` | emits; inserts | after-commit order; swallowed errors | announced means committed |
| guards, logging, health, pagination, ids, seed, bootstrap | none | - | - | - |

`PROJECT.json` lists under `hazards` each place where one of these goes wrong
in a way a test would hardly reach, with the properties that watch it, or why
none does.

## 2. Modules

| modules | of |
|---|---|
| `Bookings`, its abstract specification `BookingLedger`; `MCBookings`, `BookingsProofs`, `LedgerProofs` | bookings |
| `RoomAdmin`, composed with `Bookings` by `Inventory`; `MCInventory`, `InventoryProofs` | room edits against bookings |
| `Sessions`, `MCSessions`, `SessionsProofs` | refresh tokens |
| `ImageAlbum`, taken over for hotels by `HotelAlbum`; `MCAlbums`, `AlbumProofs` | albums, covers, files |
| `ServiceCatalog`, extended by `ServiceRequests`; `MCServices`, `ServiceProofs` | catalogue, snapshots, service requests, recovery |
| `Accounts`, extended by `StaffProfiles`; `MCStaff`, `StaffProofs` | accounts, guards, hotel staff, skills |
| `RateLimiter`, extended by `EmailCheck`; `MCAdmission`, `AdmissionProofs` | what a request meets before its handler |

An extended module shares its requests' variables (`pc`, `req`) with the module
that extends it, so that requests of both interleave.

Wanted next: what an edit with counters does to `InventoryExact` (section 10 says
how it breaks; the condition under which it holds is still to be stated), the
progress of `Sessions` and `ImageAlbum` under fairness, and the Redis lock once
some code takes it.

## 3. Bookings

`Bookings.tla` models `create()`, `updateStatus()` and `reassignStaff()`.  A
step is one database or Redis statement, because the code awaits there and
nowhere else.  Committed rows are `available`, `status`, `handler`, `log`; what
an open transaction has written sits in its request's `draft` or `work` and is
published by its last step, so a rollback only forgets it.  A booking is named
by the request that inserts it.

| code | actions |
|---|---|
| `create()`: GET of the key; reads and checks; conditional `UPDATE`; `INSERT`s; automatic assignment; COMMIT; SET of the key; event and answer | `CheckKey`, `ReadRoom`, `Reserve`, `Insert`, `Assign`, `Commit`, `StoreKey`, `EmitCreated` |
| `updateStatus()`: `findOne` and the transition check; refund; save, log, COMMIT; event | `Begin`, `ReadBooking`, `Refund`, `SaveStatus`, `EmitStatus` |
| `reassignStaff()`: read and checks outside the transaction; `save`'s SELECT; `save`'s UPDATE, log, COMMIT; event | `Begin`, `CheckBooking`, `LoadBooking`, `SaveHandler`, `EmitStatus` |
| `runWithDeadlockRetry` | `TransientError` (while attempts are left), else `FailCustomer`, `FailStaff` |
| crash of the server, any other error | `FailCustomer`, `FailStaff` |
| the key's 24 hours | `ExpireKey` |

Abstracted: dates, prices, guests and pagination (a refusal is always possible
in `ReadRoom`), who may be assigned (any employee or none), the DTO's
validation.  `Assign` cannot be hit by a swallowed deadlock: its reads take no
locks and its writes touch only the row this transaction inserted, so no other
transaction can wait for it in a circle.  `OneAtATime` is a discipline of the
clients that the service does not impose; runs that use it say so.

`BookingLedger.tla` is what the service promises: booking and each move of a
status are one atomic step each.  `ImplementsLedger` at the end of `Bookings` is
the refinement; while no two staff requests on a booking overlap it holds through
every interleaving, failure and retry (proved, section 11), and `overbooking` shows
why the condition is needed.

## 4. Inventory

`RoomAdmin.tla` models `RoomsService.update()` and `remove()`; `available` and
`roomLock` are its parameters.  `Inventory.tla` instantiates it on the variables
of `Bookings` and takes their steps alternately; `RoomSeen` adds what removal
means to `create()`.

| code | actions |
|---|---|
| `update()`: `findOne`, the DTO over the entity, the check of the counters | `BeginEdit`, `FindRoom` |
| DELETE of the assignments; INSERT of the new ones | `Unassign`, `Assign` |
| `save(room)`: its SELECT; its UPDATE of the differing columns, `deleted_at` among them | `LoadRoom`, `WriteRoom` |
| `remove()`: `findOne`; soft delete | `FindRemoved`, `SoftDelete` |
| an error or a crash between two calls | `FailEdit` |

Abstracted: all columns but the two counters and `deleted_at` (each is written
back in the same way; no property is about them).  Rooms start with nothing
booked, `total = available`, as `create()` leaves them by default.

## 5. Sessions

`Sessions.tla` models `login()`, `rotateRefreshToken()`, `logout()` and
`logoutAll()` on `refresh_tokens`.  A session is a token family; its rows are a
sequence in the order of their ids.  A client may present any token it was ever
given: an answer may have been lost, a second tab may hold an older cookie.

| code | actions |
|---|---|
| `login()`: the account and its checks; the new row | `CheckLogin`, `Issue` |
| `rotateRefreshToken()`: `findOne` and the checks of the row | `FindToken` |
| reuse: UPDATE of the family; expiry: UPDATE of the row | `RevokeFamily`, `ExpireToken` |
| the account; the transaction | `CheckUser`, `Rotate` |
| `logout()` by token or session; `logout()` by user, `logoutAll()` | `Logout`, `LogoutAll` |
| locking, unlocking and removing accounts (`UsersService`) | `SwitchUser` |
| an error or a crash between two calls | `Fail` |

`Rotate` is one step because its first statement locks the row every other
writer of the family needs, and the INSERT that follows is published with it.
`raced` and `ended` are history variables that no action reads.  Times are in
units of one `Tick`; the clock is the database's and the processes' alike.

`OneLine` and `EndedForGood` speak of sessions on which no two requests have
overlapped.  That restriction is in the code, not in the model: the rotation
names its row by id alone, so two overlapping refreshes of one token both
succeed, and a logout that overlaps one leaves an ACTIVE successor.  What holds
whatever overlaps is `ParentSpent` and `WithinLifetime`.

## 6. Albums

`ImageAlbum.tla` models the album of one room: `room_images`, the room's
`cover_image_url` and `deleted_at`, and the files under `/uploads`.
`HotelAlbum.tla` is `hotels.service.ts`, which has the same code over again:
each of its methods is the steps of `ImageAlbum` that its lines repeat.

| code | actions |
|---|---|
| `create()`: the row; its first image | `SavePlace`, `InsertFirst` |
| `addImages()`: multer's files or one address; `findOne`; the count; per image, for a primary one, the clearing UPDATE and the cover, then the INSERT | `Upload`, `Post`, `Find`, `Count`, `Clear`, `SaveCover`, `Insert` |
| `getImages()`: the album; the cover; the image made from it | `Read`, `LookAtCover`, `InsertFirst` |
| `setPrimaryImage()` | `Choose`, `Find`, `FindImage`, `Clear`, `Mark`, `SaveCover` |
| `deleteImage()`: the file; the row; the next image's turn | `Delete`, `Find`, `FindImage`, `Unlink`, `DeleteRow`, `PromoteNext`, `Mark`, `SaveCover` |
| `update()`, `remove()` | `Edit`, `Remove`, `Find`, `SaveCover`, `SoftDelete` |
| an error or a crash between two calls | `Fail` |

`save(room)` carries `room.images` as `findOne()` loaded it.  TypeORM clears the
foreign key of an image of the room that is not among them, the column is
NOT NULL, and the save fails: `SaveCover` has that outcome.  `sort_order` is left
out, so the image that follows a deleted one is any.  `sound`, `crowded`,
`clean` and `alone` are history variables: each property names the one condition
without which the code breaks it.

## 7. Services

`ServiceCatalog.tla` has the categories and services, `ServiceRequests.tla` the
snapshots of a booking's entitlements, the guests' orders (the table
`service_requests`) and the recovery logs.

| code | actions |
|---|---|
| `createCategory()`; `updateCategory()`, `deleteCategory()` after `getCategoryById()` | `createCategory`; `FindCategory`, `updateCategory`, `deleteCategory` |
| the same of services | `createRoomService`; `EditService`, `updateRoomService`; `FindService`, `deleteRoomService` |
| `createBookingSnapshots()`: the query; per service the look and the INSERT | `QueryServices`, `LookForSnapshot`, `InsertSnapshot` |
| `createServiceRequest()`: the service; the INSERT | `FindOffer`, `createServiceRequest` |
| `updateServiceRequest()`, `updateServiceRequestStatus()`: the read with all assignments; `save`'s SELECT; its UPDATE of the differing columns | `PutOrder`, `MoveOrder`; `LoadOrder`; `WriteOrder` |
| `createRecoveryLog()`: the INSERT; the read; the save; `approveRecoveryLog()` | `InsertLog`, `MarkFailed`, `LoadOrder`, `WriteOrder`; `approveRecoveryLog` |
| the deadline passes; an error or a crash | `PassDeadline`; `Fail` |

The lifecycle that `service-request.entity.ts` draws is not enforced anywhere:
`MoveOrder` goes from any status to any other, as the code does, and the
properties are those that hold nevertheless.  An order's `save` is two steps because
its columns depend on each other: a request that found the breach recorded writes a
late completion alone, and if another one takes the breach back in between, the
completion stands without it.  `torn` has the orders this has happened to, and
`LateCompletionFlagged` makes an exception of those only.  Of a completion or a
recovery the row keeps that there is one, not its date or text: two of them may
differ where their values here do not (`Vague`).  The foreign keys are those of
`phase-2-unified-complete.sql`; that file lacks columns which the entities name
(`total_price` of an order, `quota_included` of a snapshot among them), so that a database
made from it alone refuses these INSERTs.  The models take the entities' side.

## 8. Staff

`Accounts.tla` has one account per person at most (the e-mail address is unique,
those of removed accounts included); `StaffProfiles.tla` adds assignments to a
hotel and skill entries.

| code | actions |
|---|---|
| `JwtStrategy.validate()`, `RolesGuard` | `LoggedIn`, `Signed`, in the first step of each request |
| `AuthService.register()`, `createStaff()`: checks; the INSERT | `register`, `createStaff`, `InsertUser` |
| `verifyEmail()`; `updateStaff()`, `assignRole()`, `updateStatus()`, `updateCustomerStatus()`, `removeStaff()` | `verifyEmail`; `AskStaff`, `AskCustomer`, `Find`; `Save`, `SoftDelete` |
| `assignStaff()`, `removeAssignment()` | `AskAssignment`, `FindStaff`, `assignStaff`, `removeAssignment` |
| `upsertSkill()`, `verifySkill()`, `removeSkill()` | `AskSkill`, `FindSkill`, `SaveSkill`, `InsertSkill`, `removeSkill` |

`stale` marks a request whose copy of a row somebody has written since; it is
what separates the code's intention from its lost updates.  `Path` is the id in a route,
which is text: the refusal to act on oneself compares that text with the sender's id,
the query after it a BIGINT, and an id has other texts than the plain one.
`disordered` notes a request about which the two disagree, and requests on accounts that
overlap; `SomeAdminRemains` holds without either.  A skill entry that was deleted is
inserted again by the save of a request that had read it, unless the user has another
one by then (`SaveSkill`).  The first admin is
the one that the seed script makes.

## 9. Admission

`RateLimiter.tla` models the guard and its two Lua scripts, which Redis runs one
at a time; `EmailCheck.tla` is the handler behind it on the routes that take an
e-mail address.  The clock a script gets was read before it runs: `c` is any time
between the call's arrival at that script (`since`) and now, so scripts run late
and out of order.  The sorted set is a set of pairs, a score and what tells members of
one score apart, as the random part of the code's request id does.  Keys expire;
Redis may fail before the script ran or after.

| code | actions |
|---|---|
| `canActivate()` up to the window; the window's script; the bucket's script; the catch | `canActivate`, `SlidingWindow`, `TokenBucket`, `FailOpen` |
| `validateEmail()` up to its `await`; what follows it | `validateEmail`, `ResolveMx` |
| time, and keys that expire; the server restarts | `Tick`; `Restart` |

One address, one user and one route stand for all: keys of different ones have
nothing to do with each other.  Redis is taken to keep its keys.  The limits hold
of calls that a script with the right time has let in; calls that fail-open or a
late script lets in are counted apart (`WindowKept`) or by how late they were
(`TokensCovered`).

## 10. Runs

| run | shows | bounds, and why they are enough |
|---|---|---|
| `staff_race` | stock never negative (`TypeOK`), a reservation holds until COMMIT, no room is ever lost, events are committed, the log tells how each booking came to its status, reassignments included | two create() requests and two employees with one request each on the same bookings: the races are between two requests, and a refund is visible through the second booking; one retry each |
| `ledger` | the stock is exact, the log one history, a retry after an answer books nothing, the ledger is implemented | two requests with one key or none for one room, an employee with two requests in a row: a booking is moved, cancelled and booked again, with a crash or a retry anywhere |
| `requests_end` | under fairness every request ends; promises to clients and keys are committed rows | two requests and an employee compete for one row lock, Redis fails and keys expire |
| `room_edits` | an edit never breaks a reservation, leaves one list of services or none | two bookings, a cancellation and one edit with every combination of counters and of two lists, dying anywhere |
| `sessions` | the five properties of section 5 | two tabs with three requests each over two sessions: login, rotation and a late third request by either; lifetimes of 1 and 2 ticks and a clock of 3, so that both kinds of expiry happen |
| `albums` | limit, order, files and removal (section 6) | two clients, any number of requests after one another; three image ids and a limit of two, so that it can be exceeded by one; two files and uploads of two |
| `entitlements` | every row names one that exists; one snapshot per service, none of an answered call missing | two categories and two services, made, moved and removed at any time by two clients with any number of calls |
| `service_orders` | breaches and recoveries are not forgotten, late completions are marked (section 7) | one order, two clients, one log, any number of calls with a failure after each; requests ask for PENDING and COMPLETED, and createRecoveryLog() for FAILED.  The code tells COMPLETED and CONFIRMED from the rest; CONFIRMED only leaves the breach as it is, and the proofs cover it |
| `staff_admin` | what the accounts and profiles have become stays (section 8) | two people with any number of requests: each race is one of two requests, and two admins are needed for one to be left |
| `admission` | the properties of section 9 | two calls at once, any number one after the other, over four ticks with a window of two, a limit of two, a bucket of two that refills by one; lockouts of 1 and 2 ticks |
| `overbooking` | violated: a confirmation that read PENDING is saved after a cancellation has returned the room, which another request has booked or books then | see `findings`; one room of stock, requests for one room, two customers and two employees with one request each |
| `double_submit` | violated: two overlapping requests with one key both book | see `findings` |

Symmetry is used where requests are interchangeable and never in the run with
a liveness property.  Bounds: `MaxQty`, `MaxOps`, `MaxRetries` (the code's
own bound, 3, set to 1), `MaxEdits`, `MaxTime`, `MaxRequests`, `MaxBatch`,
`Grants`, `Targets`, `MaxViolations`.

**Fairness** (`FairSpec`): weak fairness of each request's own steps.  The
event loop runs every continuation and the database answers or fails every
statement; a wait for a row lock is a disabled step, and the holder of the lock
is itself a request that goes on.  Weak fairness is enough because every request
takes the row lock once and each of them has finitely many retries; clients need
not send anything and nothing has to fail.

### Known divergences

The two violations are disagreements between the code and what its documents
say; `findings` quotes both.  The models have the steps of these as well:

* Of two `updateStatus()` calls that read one status, the later commit revives a
  booking that the other had ended; `bookings.service.ts:42` calls those
  statuses final.
* `reassignStaff()` commits after a check-in that it did not see, and writes the
  stale status back; its comment at line 804 says only before arrival.
* `RoomsService.update()` gives back the rooms of a booking committed since its
  read, counters mentioned or not.
* The refusals of `removeStaff()`, `assignRole()` and `updateStatus()` to act on
  oneself (`users.service.ts:180`, `198`, `229`) compare texts; `01` and `1` are one
  row to the query that follows and two ids to the comparison.
* An order that one request completes late while another's stale save is between its
  two statements may end as completed late without its mark; section 7.
* An answer without mail servers counts twice (`EmailCheck.ResolveMx`), so a
  first violation is locked out as a second one; the comment at
  `email-security.service.ts:110` says ten minutes.
* `checkEligibility()` looks at expired certificates where its rule is named
  `requireVerifiedSkills`.

## 11. Proofs

All theorems hold for every value of the constants that satisfies the named
assumption of the module: `BookingConstants` (processes are distinct, the stock
is a natural number, the bounds are), `InventoryConstants` (editors are
distinct from the other processes; `@Min(1)` of `totalRooms`),
`AlbumConstants` (images and
files are finitely many, the limit is at least 1: the code's are 5 and 6),
`SessionConstants` (durations and bounds are natural numbers), `CatalogConstants` and
`RecordConstants` (no row is `None`), `AccountConstants` (the same),
`LimiterConstants` (limits, windows, capacities, refills and costs are positive, as
all that the code configures are), `LockoutConstants` (the second lockout is no shorter).

* **`BookingsProofs`**: `TypeCorrect`, `ReservationsCovered`.  COMMIT subtracts
  without looking, so that `available` stays a natural number only follows if
  every open reservation is still covered; that needs the row lock, and the
  lock's owner needs the types.  Inductive invariant: `IInv == TypeOK /\
  WorkFilled /\ ReservationCovered`, where `WorkFilled` says what a staff request
  has read by the time it uses it.  One lemma per action, frame lemmas for what
  one request's step leaves to the others.
* **`LedgerProofs`**: what the committed rows say, on top of `HistoryInv`, which adds
  to `IInv` that a booking is a row exactly from its COMMIT on (`RowsExist`), and what
  a staff request still knows of the row it has read (`StaffKnows`: that the row exists,
  that the move it makes was permitted when it read, which line it has logged; with
  `OneAtATime` also that the status is what it read).
  For every interleaving: `StatusAlwaysLogged`, which needs that
  a reassignment that will write to an empty log has read PENDING (`SeenPending`),
  `EventsAlwaysCommitted`,
  `AnswersAreDurable` and `RoomsNeverLost`.  Under `OneAtATime`: `LogsAreChains`,
  which needs that a log's last line and the status agree, also of a booking whose log
  is still empty (`StatusLogged`); `InventoryBalances` and from it `NeverOverbooked`; and
  `BookingsImplementLedger`, the step simulation: `Commit` is `Book`, `SaveStatus` is
  `Move`, everything else leaves the ledger alone.  `LateRetriesBookNothing` holds
  while Redis answers and keys live.  The rooms are counted as the pairs of
  `HeldUnits`: a step adds the units of one booking, takes them away or leaves them
  (`Joined`, `Parted`), and `CountInv` compares their number with the stock.
* **`InventoryProofs`**: `InventoryTypeCorrect`, `EditsRespectReservationsAlways`.
  `EditsKeepBookings`: a step that changes only stock nobody has locked keeps
  `IInv` of `Bookings`; `AdminStepStock`: every step of an editor is one.  The
  bookings' half is `NextInv` of `BookingsProofs`, cited.  `ServicesStayOneList`, while
  no two edits of one room overlap (`EditsOneByOne`): an edit between its DELETE and
  its INSERT has the room without services.  `BookingsSurviveEdits`: beside any number
  of editors, bookings keep what `LedgerProofs` promises of logs, events and answers;
  what it promises of the number of rooms is not among it, an edit may change that.
* **`AlbumProofs`**: `AlbumTyped`, `AlbumsFit`, `AlbumsComeInOrder`, `FilesStayPresent`,
  `RemovedPlacesStay`, each for `Spec`, the rooms, and for `HotelSpec`, the hotels, by
  `HotelsAreAlbums` (`HotelSpec => Spec`: each step of a hotel's request is one of the album's).
  Five invariants that build on each other: `TypeInv` (what a request holds in each
  place); `LimitInv` (an upload on its own still has the room that it counted);
  `AloneInv` (a request marked `alone` is the only one, and what it has read of the
  album is so); `OrderInv` and `FileInv` (in what order, and with which files, each
  place of an undisturbed request finds the album).  For each action a lemma says what it
  does to its request, and one per invariant that it keeps it.
* **`SessionsProofs`**: `SessionsTyped`, `LifetimeKept`, `ParentsSpent`,
  `OneLineAlways`, `EndedStaysEnded`, from one inductive invariant: the
  properties, and what connects a request to the rows it has read: a login has
  its session to itself (`LoginAlone`), two requests on a session have been
  noticed (`OverlapNoticed`), and what a rotation has read still holds unless it
  was overlapped (`SnapshotHolds`).
* **`ServiceProofs`**: `TypeCorrect`, `OneSnapshot`, `PromisesStand`,
  `LateIsFlagged`, `RecoveryStands`, `BreachStands`, from `IInv == CatalogOK /\
  RequestsOK /\ RecordsOK /\ Filled /\ Noticed /\ Promises`.  `Filled` says that the
  copy of an order in a request's hands knows of every breach and recovery that
  is recorded, unless the order was raced, and that a look that found no snapshot
  still holds unless calls were crowded, and that an UPDATE about to come will
  make the row the copy in its request's hands, unless the order is torn; `Noticed` that two requests with one order
  have been noticed.
* **`StaffProofs`**: `TypeCorrect`, `AdminRemains`, `CustomersStay`, `ClosedStays`,
  `VerificationKept`, from `IInv == TypeOK /\ Filled /\ CopyHolds /\ Undisturbed /\
  SomeAdminRemains`.  `CopyHolds`: a copy that is not `stale` is the row, so that
  its save writes what its operation makes of the row.  `Undisturbed`: while no two
  account requests overlap, at most one is under way; with it the admin who asks is
  still an admin when his request saves, and, having named nobody by another text of
  his own id, it is not himself he removes.
* **`AdmissionProofs`**: `TokensAlwaysCovered`, `WindowAlwaysKept`, `RefusalsHaveCause`,
  `LockoutsStand`, `AdmissionTyped`.  `BucketInv`
  bounds what the bucket could hand out at once, refill since its last call
  included, by what an ideal bucket holds and the delays would have added; it needs
  that the key outlives the time a bucket takes to fill.  `WindowInv`: what was
  admitted within the window is in the log, the log's key lives as long, and the log
  never exceeds the limit, although a script that runs late trims by its own clock; it
  needs that no two members of one score are the same (`MemberIsNew`).  `LockInv`: no
  lockout ends later than the longest from now, and a first violation meets none.

Some theorems have a hypothesis beyond these.  `OneAtATime` (no two staff
requests on one booking overlap) and `EditsOneByOne` (no two edits on one room do)
restrict the clients, not the service: the code keeps neither, and without the
first, `overbooking` violates `NoOverbooking`.  `~RedisFaults` and `~KeysExpire` say that
Redis keeps the key of an answered request; the code itself goes on without it.

**Model-checked only**: `RequestsEnd` (liveness and ENABLED are out of the
prover's reach).  Every other property that a passing run checks is also the
subject of a theorem.  `OneBookingPerKey`, what the comments promise of keys, is
violated in `double_submit` and has no theorem.

## 12. Not modelled

Components marked `not_modelled` or `partly` in `PROJECT.json`, each with its
reason: queries, search and aggregation, which change nothing; analytics, which
inserts rows that nobody reads to decide anything; the audit subscriber; the
Redis lock, which no code takes; logging, wiring, formatting and the seed script;
skill categories, languages and eligibility rules, single saves of rows that no
other request writes back.  MySQL, TypeORM and Redis are modelled as far as
section 1.1 says.  An error of the COMMIT whose outcome the client cannot know is
a crash before or after it.  Unbounded waiting for a lock beyond MySQL's timeout
is `TransientError`.
