# Verification of the KG production application

The repository is a web application for a production line of KG units: a
Litestar backend on PostgreSQL (`src/apps/backend`) with Kratos and Hydra beside
it, a React frontend (`src/apps/frontend`), a simulator of the test stands
(`src/apps/pak-simulator`) and the scripts that deploy them. This directory
holds TLA+ models of the parts in which several requests, answers or people
meet, the TLC instances that check them and the theorems TLAPS proves.

## The system

A *batch* of KG units is created with a range of DevEUIs, received, and its
units are *verified* by test stands (PAKs), *packed*, and *shipped*. A PAK runs
a verification session per slot: it opens a session for a unit, starts and
completes numbered steps, and completes the session with a result. Only a PAK of
kind `otk_line` decides the unit's OTK status; an `engineering` PAK does not.
Every HTTP request is one database transaction (`lib/uow.py`); the worker runs
one more kind, the sweep that closes sessions a PAK has abandoned. People keep
all of it in the administration pages of the frontend, whose lists live in a
query cache and whose dialogs belong to the rows of a list.

| component | state it keeps | operations | interacts with | hard behaviour | what makes it correct |
|---|---|---|---|---|---|
| verification sessions (`domain/quality/services/_verification_session.py`) | sessions, steps, OTK status of units | open, start step, complete step, complete session | batches, units, PAK rows by row locks; check catalog | overlapping and repeated reports, several rows locked in order, times taken before locks | one running session per unit and per slot, steps agree with their session, finished sessions are history, the OTK status is the last result |
| stale session sweep (`domain/quality/tasks.py`, `lib/worker.py`) | — | expire a limited number of stale sessions, again until few are left | sessions, `SKIP LOCKED` | skips rows that are locked, races with late reports | abandoned sessions end, reported ones do not |
| packing (`domain/production/services/_packing.py`) | state of units | pack | sessions, units, batches | packing races with opening and completion | a packed unit passed and is off the OTK line |
| batches, DevEUI prefixes, KG versions (`_batch.py`, `_kg_prefix.py`, `_kg_version.py`) | batches, units, the next serial of a prefix | create, archive, complete, delete | each other, receipts, shipments | allocation of ranges while prefixes are archived, deleted and registered again | serials are unbroken and never issued twice; a batch is made of what is in use |
| receipts, shipments (`_batch_receipt.py`, `_batch_shipment.py`, `_batch_shipment_item.py`) | documents of a batch and their items | create, edit, add and remove units, complete, void | units, batches | sums and states read some statements before they are relied on; lock orders of the two ways to add units | received never exceeds planned; shipped units are in their completed shipment; archived batches keep their documents |
| defect groups and types, check catalog (`domain/quality/services/_defect_*.py`, `_pak_check.py`) | groups, types, checks | create, archive, delete; observe a check | `start_step` | a group archived or deleted while a type or a step comes to refer to it | what is referred to is there; no type in use of an archived group |
| users and roles (`domain/accounts`, `lib/kratos`) | users, roles, identities in Kratos | create, change role, activate, archive, delete | Kratos | unlocked reads behind the last-administrator rule; lock order; calls that fail | an active administrator remains; who is active can sign in |
| PAK devices (`domain/pak/services/_pak_device.py`, `lib/hydra`) | PAKs, their OAuth clients in Hydra | create, rotate the key, activate, archive, delete | Hydra, sessions | two stores without a common transaction; effects after commit or rollback | the stored key works; an old key's tokens end when they must |
| unit of work (`lib/uow.py`) | effects waiting for commit or rollback | commit, rollback | all services | crash between commit and effects | effects follow the outcome |
| edit, add and confirmation dialogs (frontend `components/Admin`, `features/*/…-api.ts`) | forms, mutations, the row they belong to | open, type, save, confirm, close | lists in the query cache, the backend | rows keyed by place; the list fetched again under an open dialog; answers lost or late | what is typed or confirmed goes to its record, once, and is then shown |
| key dialog, range preview (`ViewPakAccessKey.tsx`, `AddBatch.tsx`) | a key, a range | ask, rotate; preview | PAKs, prefixes | several answers under way at once; a kept answer is out of date | the key shown is told rightly; a range already taken is not offered |
| list pages (`routes/_layout/admin`, `lib/list-search.ts`, `Common/DataTable`) | address, page, rows | search, filter, sort, page, go back | router, query cache | the address is ahead of the page, the page ahead of the rows | in the end all agree, and nothing is shown that the address does not say |
| sign-in and session (`app/session-lifecycle.ts`, `features/auth`) | the tab's life, the login flow | lose the session, sign in, return | Kratos | refusals of several requests at once, flows that expire, reloads | one comes to the form and back to one's page |
| realtime events, PAK simulator, audit log, authorization, validation, multicast groups, LoRaWAN keys, read-only queries, generated client, deployment scripts | — | — | — | — | not modelled, see the end |

`PROJECT.json` lists every component with its files, and the hazards of the
code with the line where each bites.

## The modules

| module | models | checked through |
|---|---|---|
| `RowLocks` | the four row lock modes of PostgreSQL, conflicts, granting and releasing (external) | all that lock |
| `OtkLine` | verification, the sweep, packing, archiving a batch and editing a PAK's kind, statement by statement | `MCOtkLine`, `MCOtkScenarios` |
| `KgLifecycle` | abstract: what users are promised about each unit; implemented by `OtkLine` | `FollowsLifecycle` |
| `OtkLineProofs` | type correctness, the safety properties and the refinement; what the records say of the past, and the absence of deadlocks, for all constants | TLAPS |
| `DevEuiSerials` | abstract: serials given out in order, in unbroken ranges, once; implemented by `DevEuiAllocation`, and by `BatchPreview`, which extends it as its server | — |
| `DevEuiAllocation` | creation of batches from prefixes and versions that come and go | `MCProduction` |
| `BatchDocumentsProofs` | what holds of the documents, for all constants | TLAPS |
| `ProductionProofs` | the refinement of `DevEuiSerials` by `DevEuiAllocation`, what holds of the catalog, and the theorems of all three components for the properties as `MCProduction` states them | TLAPS |
| `BatchDocuments` | shipments, their items and the receipts of a batch | `MCProduction`, `MCBatchDocuments` |
| `DefectCatalog` | groups and types of defects, and the checks a step's start records | `MCProduction` |
| `Administrators` | users, their roles and their identities in Kratos | `MCAdministrators`, `MCIdentities` |
| `PakCredentials` | the key of a PAK in the database and in Hydra, tokens, the machine API at its gate | `MCIdentities`, `MCPakCredentials` |
| `IdentitiesProofs` | why an administrator remains, users in use can sign in, over which rows requests deadlock and who is aborted; when keys work and that rotations keep their mode, for all constants | TLAPS |
| `TableQuery` | a table of the server, the page of it a list shows, the fetch under way | the two below |
| `RecordEditing` | the eight edit dialogs | `MCRecordEditing` |
| `RecordEditingProofs` | why what is typed is saved in its record and shown afterwards, for all constants | TLAPS |
| `RecordActions` | the twenty confirmations of the rows' menus | `MCRecordActions`, `MCDialogs` |
| `RecordCreation` | the eight add dialogs | `MCDialogs` |
| `BatchPreview` | the range of DevEUIs on the second page of the batch dialog | `MCDialogs` |
| `AccessKeyDialog` | the dialog that shows and rotates a PAK's key | `MCDialogs` |
| `AddDialogsProofs`, `RowDialogsProofs` | the add dialogs, the range preview and its refinement of `DevEuiSerials`; the confirmations and the key dialog, for all constants | TLAPS |
| `ListPage` | the eleven list pages: address, router, search box, rows | `MCPages` |
| `ListPageProofs` | that the searches of a page are sound and its view true, for all pages and uses; that signing in leads back | TLAPS |
| `BrowserSession` | a tab from a refused request to the login form and back | `MCPages` |

An `MC…` module that names several components explores one after the other:
an initial choice says which, and the variables of the others keep their initial
values. The components of one such module share no state in the code; where they
do (`DevEuiAllocation` and `DevEuiSerials`, `OtkLine` and `RowLocks`), they are
composed. A proof is about the definitions a run checks: a component its `MC`
module extends is proved about directly, one it takes as an instance under the
name of that instance (`Catalog!`, `Pak!`, `Key!`, `Creation!`, `Preview!`), and the documents
of a batch, whose proof is the longest, in a module of their own of which
`MCProduction` takes an instance (`Docs!`). Every component states a `TypeOK`, and
each of them is a theorem (`TypeCorrect`, `TypesOfAllocation`, and those named
`…IsTyped` or `…AreTyped`); that of `OtkLine` is a property of a run besides, the
others were confirmed on the same instances before they were proved.

### OtkLine

State. `session`, `kg`, `pakKind` and `archived` are the committed rows;
`clock` is `datetime.now(UTC)`; `held` is the set of row locks of each
transaction; `pc`, `req` and `loc` are the next statement of each handler, its
request, and the Python locals it still needs (`now`, the PAK as authentication
loaded it, the sessions it has yet to lock and those it has locked).

Actions. One action is one SQL statement that waits for a lock, or the commit.
PostgreSQL runs at READ COMMITTED: a plain SELECT sees what is committed when it
starts, and `SELECT ... FOR UPDATE` waits and then reads the row again.
Uncommitted writes are invisible to others and the rows written are locked
first, so the writes, the commit and the release of the locks are one step.
The sessions `_lock_running_sessions` finds are a snapshot; each is locked in
order of its id and dropped when it is no longer running, as PostgreSQL
evaluates the condition again. A transaction that raises, loses its connection
or whose process stops is rolled back (`Leave`, `Abort`) at any statement, and
any request can be sent again afterwards: that is how lost answers and retries
appear. Handlers may hold requests for the same session, so reports overlap and
arrive in any order.

| code | actions |
|---|---|
| `open_session` | `OpenSession`, `LockOpenBatch`, `LockOpenKg`, `LockOpenPak`, `FindRunningSessions`, `LockRunningSession`, then `ResumeSession`, `RefuseRunning` or `InsertSession` |
| `start_step` | `StartStep`, `LockStepSession`, `WriteStart` |
| `complete_step` | `CompleteStep`, `LockStepSession`, `WriteReport` |
| `complete_session` | `CompleteSession`, `LockCompletedKg`, `LockCompletedSession`, `WriteCompletion` |
| `expire_stale` | `ExpireStale`, `CloseStale` |
| `PackingService.pack` | `Pack`, `LockPackBatch`, `LockPackKg`, `FindBlocker`, `WritePacked` |
| `BatchService.set_archived` | `SetArchived`, `LockArchivedBatch`, `WriteArchived` |
| `PakDeviceService.update_pak` | `EditPak`, `LockEditedPak`, `WritePak` |
| rollback | `Leave`, `Abort` |

What it leaves out: the partial unique indexes that would refuse a second
running session (the point is that the locks already prevent one), audit rows
and events (written in the same transaction, read by nobody here), measurements
of steps (compared as part of a repeated result), the check `start_step`
records (that is `DefectCatalog`), and units in shipments (`BatchDocuments`).

### KgLifecycle

Per unit: its state, its verdict, whether an OTK-line session runs
(`onLine`) and whether its batch is archived (`frozen`). A unit enters the line
only when registered and not frozen, leaves it with or without a verdict, is
packed only off the line with the verdict `passed`; archiving changes nothing
else. `OtkLine` implements it under the mapping `Lifecycle`.

### DevEuiAllocation, over DevEuiSerials

State: `prefix` (row, `next_serial`, archived), `version` (archived), `batches`
with their range, `issued` (ranges ever given out), `held` and `req` as in
`OtkLine`. `create_batch` is `BeginCreation`, `LockPrefix` (FOR UPDATE, then the
serial is read), `LockVersion` (shared; it stands for the order and the groups,
which are locked the same way) and `CreateBatch`; archiving, restoring and
deleting are `LockPrefix` / `WritePrefix` and `LockVersion` / `WriteVersion`;
`CreatePrefix` registers a prefix again after its row was deleted, with a counter
that begins at one: only a prefix that has issued nothing can be deleted
(`_kg_prefix.py:86`). `Rollback` may end any transaction.
`SerialsAreExact` is the refinement, a counter that follows what was issued and
the absence of refusals by the unique DevEUIs.

### BatchDocuments

State: the batch's two flags, the state of its units, its shipments, `items`,
its receipts. Each request begins with the lock of the batch (`LockBatch`:
shared for shipments, exclusive for receipts, archiving and completion), then of
its document (`LockShipment`, `LockReceipt`). `add_units` goes on by `LockUnit`
in DevEUI order, `FindUnits`, `InsertItem`, `AddUnits`; `add_packed_units` by
`FindUnits`, `InsertItem` (waiting on the partial unique index for a
transaction that inserted the same unit) and `LockReference` (the foreign key's
key-share lock). `CompleteShipment`, `VoidShipment`, `RemoveUnit`,
`CreateShipment`, `WriteReceipt` and `WriteBatch` are the writes with their
commit. `Pack` is another user's packing. The hour in which a receipt may be
corrected is a refusal that may always happen (`Rollback`).

### DefectCatalog

State: status and code of groups, status and group of types, the group found for
each check, the groups steps were recorded with. `set_archived` and
`delete_group` are `LockGroup`, `LookAtGroup` (for types in use, or anything that
refers to it), `WriteGroup`. A type is locked (`LockType`), then its group shared
(`ShareGroup`), then written (`CreateType`, `WriteType`). A start of a step is
`FindGroup` (by code, shared), `LockCheck` and `WriteStart`.

### Administrators

State: the users' rows, their identities in Kratos, the row locks, and per
request what it read of its target. `Read` is `self.get`, without a lock except
for a change of role; `SelectAdministrators` and `LockNext` are the ordered
`FOR UPDATE` of `_ensure_administrator_remains`; `Call` is a call of Kratos
before the commit, `Effect` one after it, `Undo` one after a rollback; `Write`
changes only the columns that differ from what was read, as SQLAlchemy does.
A deadlock of the locks is found and ends one request (`Abort`): `Deadlocked` are
those of a circle (`Circle`), each waiting for another of it and waited for. The
check locks the administrators in the order of their ids, so checks alone never wait
in a circle. What closes one is a target locked outside that order: first, by a
change of role that locks whom it reads, or at last, by the UPDATE of a target that
had left office before the check. `DeadlocksOnlyOverTargets` says that every circle
has such a request in it, and only requests that take administrators away.

### PakCredentials

State: the row with its copy of the secret, Hydra's client with its own, the
tokens that are valid, the PAK at the gate. `Require` locks the row and refuses,
`Call` is Hydra inside the transaction (it may fail, or succeed and lose its
answer), then `Commit` or `CommitFails`, `Effect` or `Rollback` and `Undo`,
`Answer`; `Crash` stops the server between any two. `ObtainToken`,
`TokenExpires`, `Introspect`, `Authorize`, `LockPak`, `OpenSession` and
`CompleteSession` are the PAK beside them. Secrets are numbers. The undo runs in a
step of its own, after `Rollback` has released the row's lock, as
`lib/uow.py:66-70` has it; that another request may come between is what the run
`key_undone` shows.

### The dialogs over a list

`TableQuery` has the rows at the server (`table`, `order`), the page the list
shows, and the fetch under way. A mutation's `invalidateQueries` cancels and
fetches anew (`Invalidated`); `Rerender` shows an answer, and since the table
keys its rows by their place (`DataTable.tsx:159`) an open dialog may then stand
on another record: `place` is a place, never an id. Other people add, change and
remove records (`Elsewhere`).

`RecordEditing` describes each dialog by a record (fields, requests of one save,
what refills the form, whether it waits for the refreshed list) and shares
`Open`, `Type`, `Cancel`, `Submit`, `SaveApplied`, `SaveRefused`, `NextRequest`,
`Succeed`, `Fail`, `Settle`. `RecordActions` does so for the confirmations
(what they do, what becomes of "in use", whether the menu leaves out the own
account), `RecordCreation` for the add dialogs (guarded while pending, pages,
unique texts, key shown afterwards). `AccessKeyDialog` keeps every request for a
key that is under way, as a mutation that is reset still sets the key when its
answer comes. Its variables `least` and `late` are history variables, which no
step reads: how recent the key shown must be at least, and whether it was brought
by a read that was answered before a rotation. `BatchPreview` has the query cache by
prefix and quantity. `MCDialogs` puts the confirmations, the key dialog, the add
dialogs and the preview side by side, one at a time.

### ListPage and BrowserSession

`ListPage`: `history` and the address are what was asked for, `shown` what the
router has loaded (`Land`; later when the profile is no longer fresh), `answers`
and `latest` the rows in the cache and the ones before, kept in view. `Type` and
`TimerFires` are `useSearchInput`, `SelectTab`, `SelectFilter`,
`SelectStatus`, `ToggleSort`, `GoToPage`, `SetPageSize`, `Travel` the controls
with what each resets. A page is a record of the filters and rules in which the
eleven differ.

`BrowserSession`: requests of the page under way, `redirectToLogin` in its two
halves (`Unauthorized`, `Redirect`), the address remembered, the flow at Kratos
with its expiry (`StartFlow`, `KratosAnswers`, `FlowLoaded`, `FlowGone`, …), and
`lost`, which the model records when the tab forgot where it came from: a
reload, the way back, or a second flow asked for without knowing the first.

## The runs

| run | instance | shows |
|---|---|---|
| `otk_safety` | two handlers, two units, two PAKs, up to three sessions; scenarios `opening`, `packing`, `reports`, `kinds`, `everything` | the eight invariants and four action properties of `OtkLine`, among them its implementation of `KgLifecycle` |
| `otk_liveness` | scenarios `waiting` (two overlapping requests of any of four kinds over a batch, a unit, a PAK and a session, with time standing still) and `abandoning` (two slots, a sweep of one per transaction) | `RequestsEnd` in both, `AbandonedSessionsEnd` in the second |
| `editing` | all eight edit dialogs, two records | `InputStaysWithItsRecord`, `SaveTouchesWhatWasTyped`, `SavedRecordIsShown`, `SavesEnd` |
| `dialogs` | the twenty confirmations on both tabs, one record the own account; the key dialog; all eight add dialogs; the range preview | `ConfirmsWhatIsOffered`; `KeyIsTold`; `RecordsAreAnnounced`, `KeyIsSeen`; `RangeIsToBeHad` |
| `pages` | the eleven list pages in the uses of `MCPages`; a tab with mishaps | `SearchIsSound`, `ViewIsTrue`, `ListSettles`; `SignInReturns`, `FormIsReached` |
| `identities` | users and Kratos; a PAK and Hydra | `OneRemains`, `ActiveCanSignIn`, `DeadlocksOnlyOverTargets`; `KeysWork`, `RotationModes` |
| `production` | creation of batches; documents of a batch; catalogs | `SerialsAreExact`, `CreatedOfCurrent`; `ShippedWithItsShipment`, `LeavesAsConfirmed`, `ReceiptsWithinPlan`, `ArchivedIsFrozen`; `GroupsCanBeReliedOn` |
| `last_report`, `same_slot`, `admin_stale`, `add_deadlock`, `key_undone` | small instances | the five divergences below, each a property the code violates |

Bounds, and why they are enough.

* `otk_*`: two handlers suffice for a race over one row; a third session lets an
  opening replace two others (its unit's and its slot's). When the ids run out,
  the request that would insert a session is rolled back: an aborted request,
  which the code may have at that point anyway. `ReopenAfter = 1 < SessionTtl =
  2` are the least values the settings accept; the clock reaches the time to
  live in `everything` and `abandoning`, the reopen time in `opening` and
  `packing`, and stands still in the others, whose questions have no time. A
  scenario limits only which requests are sent. `packing` starts after a session
  that passed; `everything` reaches that state by itself, with all requests but
  the change of a PAK's kind, which `kinds` has among the reports of a session.
  Symmetry is used for handlers, units and PAKs, never with liveness or for session ids, which are
  ordered.
* Dialogs: one save at a time, as the buttons are disabled while one is under
  way. `MaxOthers` changes by others (one in `editing`, two in `dialogs`)
  are enough to take the record away under a dialog and put another in its
  place; `MaxVersion = 2`. `Texts` has a changed value for the fields that
  differ in how they are sent, and spaces for one that is trimmed. `MaxRecords =
  2` lets a name be created twice; two reads and three rotations of a PAK's key let
  an old answer come after a new one while another request is still under way.
* `pages`: at most three or four acts per use (`acts`; the theorems need no such
  bound), each use with the
  controls that its question needs; `fresh` says whether the router needs a
  request; one or two rows, of which others add or remove some. A tab meets five
  mishaps (sessions and flows that end, reloads, lost answers), another tab may
  sign in, and three requests of a page may be refused at once.
* `identities`: each request is made once, in the cases `UsualCases`: two
  overlapping requests of any kind, with commits that fail, three changes of role, departures
  with a third administrator in between, one request with calls that fail. The
  PAK's cases: one request with every failure, two that overlap without. Two new
  secrets.
* `production`: four serials and quantities of one and two, so that a range ends
  exactly at the last serial and one beyond; the prefix may be registered twice;
  three requests. Two units, shipments and receipts, a plan of two, two requests
  at a time, offered in two sets (shipping, receiving) that share only the batch;
  symmetry for the handlers.
  Two groups, two codes, one type and one check.

Deadlock checking is on in `identities`, where the requests about users all end
and only then may nothing be left to do (`MayStop`). In the other runs it is off,
as each model stops once its clock, ids or requests are used up. What deadlock means
for locks is said by `NoDeadlock` and `DeadlocksOnlyOverTargets`; for the requests
of `production` the theorems on circles of waits do.

Fairness. `OtkLine` (`MCFairness`): that transactions proceed, as PostgreSQL queues
lock requests and a handler waits for nothing else; that the sweep runs, the
worker's cron; that time passes. It is asked of these steps as the scenario has
them, for its clock ends before `MaxClock` does where time stands still: the
fairness of a step the scenario holds back could never be met, and nothing would
be checked. Nothing is assumed of PAKs and users, who may send requests without
end, which could delay a request or the sweep for ever; both liveness properties
are stated for the time after the requests cease (`Quiet`). `RecordEditing`: a
save is answered or refused, the browser goes on, a fetch is answered or fails.
`ListPage`: the timer fires, the router loads, a request for the rows ends.
`BrowserSession`: answers arrive, effects run, navigations end. People are never
fair: they may stop at any time.

Each property is confirmed to depend on the code by a mutated definition (a
weaker lock, a dropped `ORDER BY`, a forgotten check or reset, an off-by-one)
under which TLC finds it violated: `PROJECT.json`, `mutants`. The mutated
definitions stand beside the ones they replace.

### Where the code and its description differ

With a run:

* `last_report`: `open_session` takes its time before it waits for the
  session's row and writes it to `last_activity_at` on a resume, over the later
  report it waited for. `docs/domain/verification.md:107` calls
  `lastActivityAt` the PAK's last report.
* `same_slot`: a unit opened again in its own slot after the reopen time gets a
  new session; `docs/domain/verification.md:97` and the docstring of
  `open_session` say the session is resumed.
* `admin_stale`: `set_active`, `set_archived` and `delete_user` read the user
  without a lock and skip the rule for someone who was no administrator then; a
  change of role in between leaves no active administrator
  (`domain/accounts/exceptions.py:17`). In the run `identities`, `OneRemains`
  holds for the cases without that overlap.
* `add_deadlock`: `add_packed_units` and `add_units` for two shipments of one
  batch wait for each other, so a unit added first by another request is an
  error for one of them, against `_batch_shipment_item.py:133`.
* `key_undone`: a request that rotates a PAK's key and cannot commit has the secret
  it replaced put back in Hydra, after its lock of the row is released
  (`lib/uow.py:66-70`, `_pak_device.py:234-239`). A rotation that begins in between
  has set its own secret by then: Hydra is back at the old one, the second request
  commits and answers with a key that does not work, and the secret it replaced
  still does, against `_pak_device.py:214` ("The previous secret stops working at
  once."). `KeysWork` and `ImmediateEndsOldTokens` leave this overlap out.

Met while modelling; the modules have the behaviour, but no run refutes a
sentence about it:

* `DataTable.tsx:159` keys rows by their index: when a list is fetched again, an
  open dialog, and the menu of `UserActionsMenu.tsx`, pass to the record that
  took the place. A form that watches its record is then filled again, which is
  what `InputStaysWithItsRecord` says; one that watches only the values cannot
  tell two records of the same values apart, and a confirmation asks about the
  new record.
* `docs/concurrency.md` requires `expectedUpdatedAt` of every form's update and
  describes a `useEditedRecord` hook; the edit dialogs send no such time and the
  frontend has no such hook.
* The rotation dialog sends no `mode`.
* A failed rotation restores the previous secret in Hydra after the rollback
  (`docs/transactions.md:74`); when that call fails or the server stops before
  it, the stored key no longer works until the next rotation. `KeysWork` says
  from when on it does again.
* `StatusUser.tsx:36` words its notice by the state after the refetch, not by
  what was asked for.
* `ViewPakAccessKey.tsx` shows the key of the opening before for a moment, and
  the data of the row beside a key asked for another PAK after the list moved. A
  read that was answered before a rotation and arrives after it puts the old key
  back (`ViewPakAccessKey.tsx:48`): `KeyIsTold` leaves that answer out (`late`), and
  TLC finds the key that no longer works when it does not.
* A creation whose answer was lost may be made again by the person who presses
  once more: batches and orders have no unique name (`AddBatch.tsx:53`).
  `RecordsAreAnnounced` counts such records apart.
* `open_session` reads whether the PAK is active before its locks: a session may
  be opened by a PAK deactivated meanwhile (`docs/domain/verification.md:37`).
* A second activation or deactivation of a user may overtake the first one's
  call of Kratos: `ActiveCanSignIn` is about a request no other overtakes.
* While the profile is not fresh the router loads it before it shows the next
  address, and the controls of the page in view go on from what is shown: a click
  in between can ask for a page that the narrowed search does not have, or for
  the sorting of a tab that was left. TLC shows both; `PageExists` is therefore
  about uses in which rows are only added and the profile is fresh (`Steady`),
  `SortingIsKept` about those with a fresh profile.
* A list page past the last row is shown as an empty list (`users.tsx:173`), and
  what is typed into the search box is lost when the address changes
  (`list-search.ts:129`).
* `docs/authentication.md:42` has sessions of 8 hours, `kratos.yaml:71` of 12.
* The group and the code of a check follow the order of commits, not the order
  of the reports.

## The proofs

Every safety property of the passing runs is a theorem, and only the liveness
properties are not. A property that leaves cases out by its own words leaves them out
of its theorem too. TLAPS proves them for every set of handlers, jobs, batches, units, PAKs, slots,
sessions, prefixes, shipments, receipts, groups, users, records, dialogs, texts
and uses of a page that the assumptions allow, and for every bound. The
assumptions are named and evaluated by TLC in the runs: `DomainAssumption`
(handlers and jobs differ, each unit has a batch, ids are numbers) and
`SettingsAssumption` (checked by `VerificationSettings`) for `OtkLine`;
`AllocationAssumption` (the constants are numbers, a prefix has room for a
serial) for `DevEuiAllocation`; `DocumentsAssumption` (users, units and documents
are finite sets, the plan and the quantities numbers) for `BatchDocuments`, which
the sum of the receipts needs; `AdministratorsAssumption` (ids are numbers, so
that locks have an order; a row without lock is no request's) and
`CredentialsAssumption` (the number of secrets is one) for what is kept beside
Kratos and Hydra; none for the catalog. The frontend's say that the text, word or
prefix that stands for "none" is no other, that bounds are numbers and quantities
and page sizes positive (`TableAssumption`, `ActionsAssumption`,
`CreationAssumption`, `PreviewAssumption`, `KeysAssumption`, `ListAssumption`,
and `PagesAssumption` for a tab, whose home is a page and whose login form is not
a page to return to, and which may make a request;
`ListAssumption` also that a page whose address leaves out the ascending order lists the
newest first), and what an edit dialog is (`EditingAssumption`): its
requests are sets of its fields, one that is sent whole is of one field, and the
database holds each of its fields, none as spaces alone. Two of the theorems on
types, `CatalogIsTyped` and `EditingIsTyped`, are about a catalog that can have a
group and a code, and a list that can have a record.

All follow one pattern. A property says nothing of a transaction in flight, so it
is not inductive: the invariant adds which locks a transaction holds at each
statement, and that what it has read under them is still so. It is kept because
whoever would change what another relies on needs a lock that conflicts with the
other's (`LocksCompatible`), whatever the operations are; each operation is then
only asked what it locks, reads and writes.

### OtkLine

* `OtkLineProofs`, first part: `TypeCorrect`, through `TypeInv`, which adds to `TypeOK` that
  a transaction's statement belongs to its request and that the sessions it
  names exist. Rows are read in the step that uses them, so the types of the
  rows a step writes follow from the request it serves.
* `OtkLineProofs`, second part: `OneSessionPerUnit`, `OneSessionPerSlot`, `PackingIsFinal`,
  `FinishedIsHistory`, `ArchivedIsLeftAlone` and `ImplementsLifecycle`.
  `LineInv` has the locks (`LocksOf`) and what was found under them
  (`ChecksOf`). A step of `t` writes only under locks (`GuardedWrites`), so what
  another transaction relies on cannot change (`OthersKeepLocks`,
  `OthersKeepChecks`). The refinement follows from the same facts read unit by
  unit (`UnitMoves`).
* `OtkLineProofs`, third part: `HistoryInv` extends `LineInv` by the times and
  the order of locks.
  - `OtkStatusIsLatest` and `RunningIsLast`: a request takes its time after it
    was granted the lock that lets it write (`RemembersOf`: no result of the
    unit is later than `now`, no session of the PAK started after it), and no
    time lies in the future (`TimesInv`).
  - `StepsAgree`: a row's steps agree with its status (`StepsOfRow`) after each
    of the five ways a row is rewritten.
  - `ClosedForAReason`: what an opening found still shares the unit or the slot
    when its row is locked, as those columns never change.
  - `LocksNeverDeadlock`: what a transaction holds while it waits comes before
    the row it waits for (`OrderOf`) in the order batch, unit, PAK, sessions by
    id. A circle of waits would have to go on among sessions with ids that grow
    for ever, and only finitely many are recorded (`IdsBounded`).

### DevEuiAllocation

`SerialsIssuedOnce` is the refinement of `DevEuiSerials`, a counter that follows
what was issued, and the absence of refusals; `BatchesAreOfCurrent` that a batch
is is made of a prefix and a version in use. The invariant relates the serial a
transaction has read to the prefix it has locked, and every range ever issued to
the counter of its prefix, also while the prefix is deleted and registered anew.

`EverySerialIsGivenOnce` says what the refinement comes to: every serial below the
counter of a prefix is in exactly one range that was ever issued
(`DevEuiSerials!GivenOnce`), and no two batches share one (`BatchesAreApart`). A
new range begins where the counter of its locked prefix stands, past all others
(`IssuedApart`). The unique index of the units would not say as much: a deleted
batch takes its units with it.

`CreationsNeverDeadlock`: whoever waits for a prefix holds nothing yet, whoever
waits for a version no version (`WaitingHolds`), so waits end after two.

The proof is the first part of `ProductionProofs`.

### BatchDocuments and DefectCatalog

`ShipmentsHoldTheirUnits`, `ShipmentsLeaveAsConfirmed`,
`ArchivedDocumentsAreFrozen` and `ReceiptsNeverExceedThePlan` in
`BatchDocumentsProofs`; `GroupsAreReliable` in the second part of
`ProductionProofs`.
The batch's lock is what all four of the documents share; the state of a unit
under way to a shipment is protected by its own lock on one of the two paths, by
the unique index of items on the other. The received quantity is a sum over a
set of receipts, which the model writes with `MapThenSumSet`. Nothing is proved
by induction over data here: that the sum over a finite set changes by what one
receipt changes is shown by looking at a smallest set for which it would not
(`LeastNat`, from `NatLessThanWellFounded`).

Circles of waits. `CatalogNeverDeadlocks`: types are locked before groups, groups
before checks, and no request waits for a second row of a kind while it holds a
first. `OthersNeverDeadlock`: the documents are locked in the order batch, then
shipment or receipt, then units. Completing and voiding lock the units of a
shipment in any order, which is harmless only as no two shipments that are open
or completed have a unit in common: the theorem needs `ShippedWithItsShipment`.
The two ways of adding units are left out of it, as they do deadlock (the run
`add_deadlock`). These three, together in `ProductionNeverDeadlocks`, are proved
and not among the properties of a run.

The last part of `ProductionProofs` carries these to the properties of the run
`production`, where a state belongs to one of the components and the others stand
still:
`UnitsShipWithTheirShipment`, `ConfirmedShipmentsLeave`, `ArchivingFreezes`,
`PlanIsKept`, `CatalogIsReliable`.

### Administrators

* `AnAdministratorRemains`. Whoever takes an administrator away has locked all
  of them when it decides (`Locks`), and those it found besides its own target
  are still in office when it commits (`Decided`), as changing them would need
  their locks. What a request read of its target without a lock may be stale,
  though, and this is where the code fails: a user made administrator, or
  activated, after that read is taken away without the rule being asked. The
  theorem is therefore about the cases in which nobody gains office
  (`NobodyGains`) or only changes of role, which lock before they read, take it
  away (`OnlyRolesAreTaken`); outside them the run `admin_stale` shows the
  counterexample. Both sides are needed, and each contains failing commits,
  failing calls and deadlocks.
* `UsersInUseCanSignIn`. A request that creates is the only one to answer for
  an identity without a row (`Identities`); of a request made alone what it
  read is still so when it writes (`Undisturbed`), the identity is active before
  the row is, and is closed only after it.

* `DeadlocksAreOverTargets` (`DeadlocksOnlyOverTargets`). A lock is held by a
  request in its transaction only (`LocksAreHeld`), and what a request that read
  without a lock has locked for its check is below all that it still wants
  (`InOrder`). In a circle of checks alone the least of the rows wanted would be held
  by one that wants a lesser row (`ChecksDoNotCircle`, by the least number of a set
  of ids). Without the `ORDER BY` TLC finds a circle of checks.
* `OthersAreNeverAborted`: only requests that may take an administrator away
  (a change to a lesser role, deactivating, archiving, deleting) are ever aborted
  for a deadlock. All others lock the row of their own user and no other
  (`OwnLocks`), so as long as one of them waits it holds nothing another could
  wait for; the administrators are locked one by one only where the last of them
  is at stake (`_user.py:283-296`).

### PakCredentials

The theorems are `PakKeysWorkUnlessOvertaken` and `PakRotationsKeepTheirMode`, about the
instance `Pak!`, and carry over to `MCIdentities` as

* `KeysWorkUnlessOvertaken`: `StoresAgree` when requests overlap and none fails, or
  come one by one and only commits fail; `RotationRepairs` after a rotation made
  alone. It says nothing of requests that overlap while a commit fails: there the
  key may not work (`key_undone`). From its look at the row to its commit a request that
  rotates holds the row's lock (`Progress`); a creation is alone with its new
  row, for whoever else finds none is refused (`Creation`). A difference between
  the two stores always has a request that will settle it (`Settles`,
  `SettlesKey`), which is what is left of `StoresAgree` in the midst of a
  transaction.
* `RotationsKeepTheirMode`. A planned rotation and the opening of a session
  need the same lock (`SessionsWait`). What an immediate rotation set is the
  oldest key Hydra accepts from then on (`NewKeyIsSet`), unless the undo of
  another one comes after it: `ImmediateEndsOldTokens` had to be restricted to
  requests made alone or commits that do not fail, because the attempt to prove
  it for all led to the divergence named above.

### RecordEditing

`EditInv` says three things of a dialog over a list that moves. An open form is
that of the record at its place, whatever page arrives: what was not typed is
what the form was filled with, and what it was filled with is the record's
(`FormInv`). A save sends fields that were typed, to the record they were typed
for, and its version is one the record had (`SaveInv`). And a list asked for
after the save has that version (`RefreshHasSave`): the request under way before
it was dropped by the invalidation, which is why the theorem fails if a save
joins a request that runs.

* `InputIsForItsRecord`, for the dialogs that watch their record.
* `OnlyTypedFieldsAreSaved`: `SaveApplied` writes the fields it sends and no
  others, so what somebody else changed in the record meanwhile stays.
* `SavesAreShown`: on settling, `HasSave(page)`.
* `EditingIsTyped` adds that the open dialog and the save under way stand at
  places of the page, whatever the page becomes (`PlacesInv`).

The number of records, dialogs and requests of a dialog is any; that the
remaining requests are sent in their order is the least element of a set of
places (`Min`, by `NatLessThanWellFounded`).

### The confirmations and the key dialog

* `ConfirmedOnceAndRightly`. A dialog that has succeeded waits, at the place of
  its own request, for the list (`SuccessIsPending`), and buttons are disabled
  while a request is pending; a list fetched again closes the dialog or
  leaves it at the place of its request. `OwnAccountIsLeftAlone` is inductive beside it,
  because these dialogs are not rendered in the row of the own account
  (`Rendered`), to which an open dialog may pass.
* `WhatIsToldIsSo`. An open dialog has asked for a key and watches the last
  request it made (`OpeningHasAsked`); when that one is over and the dialog holds
  no key, it brought none (`NoneWasGiven`), though any number of earlier requests
  may answer before or after it. That the key shown held at the opening or came
  later (`KeysAreRecent`) needs that a closed dialog has none, so whatever an open
  one holds was read after its opening, or before it by a request that was then
  under way (`late`, `BroughtLate`).
* `ConfirmationsAreTyped` needs that a page is never shortened under an open
  dialog without closing it (`TypesInv`); `KeyDialogIsTyped` that every key that
  is shown or on its way was the current one once (`KeysWere`), as a rotation only
  counts on.

### The add dialogs and the range preview

* `RecordsAreAccountedFor`, `KeyStaysUntilSeen`. `CreationInv` relates the request
  under way to what the server has made and the person was told
  (`RequestRuns`). Records whose answer was lost are counted apart (`unknown`):
  a retry after a lost answer makes another, which nothing here excludes.
* `OfferedRangeIsToBeHad`: the range in view is of the prefix and the quantity
  chosen and, once it has loaded, overlaps no batch this browser knows it made. Of
  the batches of others it says nothing: the range shown may be taken by then. In
  `PreviewInv` every kept range is of the choice it
  is kept for, and as long as it counts as fresh nothing of it was taken by this
  browser (`RangesKept`), also in answers on their way (`RangeOnItsWay`); what is
  in view is fresh, being loaded, or could not be loaded (`ViewIsCurrent`).
  Serials are taken from below (`SerialsGivenOut`), which is what the server of
  the preview has of `DevEuiSerials`.
* `PreviewImplementsSerials`: all this is a behavior of `DevEuiSerials`. The one
  step that has to be looked at is the creation from here, whose request carries
  a choice made pages ago: it was complete when it was sent, and nothing changes
  it afterwards (`RoomInv`). With the same invariant every range that was ever
  offered is within the serials of its prefix (`PreviewIsTyped`).

### ListPage

`SearchesAreSound` and `ViewsAreTrue`, for any pages, words, sizes and numbers of
acts. That no hidden filter applies holds in every use; that the page exists in the
uses that are `Steady`, and that the sorting chosen is kept in those with a fresh
profile; of the texts searched for nothing is said. In `ListInv`, every address of the history and the one in view hides no
filter that applies and names a page that exists (`AddressesAreSound`), since one
can travel back to any of them; rows kept in the cache are those of the query
they are kept under, though there may be more by now (`RowsAreKept`); and the
address has the sorting that was chosen (`SortingInAddress`). That a page exists
comes down to `PageCountBounds`, two inequalities about a division.

### BrowserSession

`SigningInReturns`, and `SignInsReturn` for the tab as `MCPages` has it. `TabInv`
says that a life of the tab is redirected at most once, however many of its
requests are refused (`OneRedirect`), and that from the redirect to the return
what the tab remembers is the page that was wanted, or the tab has lost it
(`ReturnIsKept`). The step that needs it is a flow that expires: the new one has
to be asked for with the address of the old.

### Only model-checked

* All liveness (`RequestsEnd`, `AbandonedSessionsEnd`, `SavesEnd`, `ListSettles`,
  `FormIsReached`), as fairness is beyond TLAPS.
* `LastReportNeverMovesBack`, `SameSlotIsResumed`, `ConcurrentAddIsSkipped` and
  `OneRemains` in the cases of `admin_stale`, and `PreviousSecretStops`, are no
  theorems: the code violates them.

## Not modelled, and why

* Realtime events: they go out after the commit and may be lost, which the
  client is told of and answers by reading anew; no page of the frontend
  subscribes, so nothing depends on them.
* The pool of database connections (`record_seen` takes a second one): its
  waiting and its limits are SQLAlchemy's defaults.
* The PAK simulator: a test tool, whose requests, repetitions included, are
  among those `OtkLine` lets a PAK make; its own queue is left out.
* Multicast groups, names, comments, descriptions: values no decision reads.
* Optimistic concurrency (`lib/concurrency.py`): a comparison under the row
  lock, of a value the frontend does not send.
* The lists a form chooses from, the wording of notices, and the exchange of the
  two factors inside a login flow, which is Kratos's.
* LoRaWAN key derivation, serialisation, validation, permissions (a static
  table), the audit log (written in the transaction, read by no decision),
  read-only queries, rendering, generated and vendored code, deployment scripts.
