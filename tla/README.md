# Verification of the Bastion portal

TLA+ models of the parts of the Bastion portal (`src/app`, a FastAPI
application) whose correctness depends on the order in which things happen,
checked with TLC and, where the result matters most, proved with TLAPS.

Every definition is translated from the source; `PROJECT.json` ("map") names
the lines. Properties that the code does not have are kept as runs that must
find their counterexample, and listed under "Findings" below.

## 1. The system

### How the program runs

* One uvicorn worker. Synchronous route handlers, middlewares that call
  `run_in_threadpool` and APScheduler jobs run in threads of one process, so
  any two of them interleave between database statements. Asynchronous handlers
  share the event loop: two of them interleave only where one awaits, but each
  interleaves with the threads between any two statements. There is no lock
  around a handler.
* The database is SQLite (SQLCipher) in WAL mode with a connection per session.
  A `SELECT` opens no transaction: a handler reads, computes and writes without
  isolation, and takes SQLite's write lock with its first flush. Sessions are
  `autoflush=False` and expire their objects when they commit; an UPDATE names
  the changed columns only.
* A coroutine that has flushed and awaits keeps the write lock. Another
  coroutine's write then blocks the event loop, the lock's holder included, until
  the busy timeout (db_cipher.py:153) makes it fail.
* `log_action` (audit) commits the session it is given, and swallows its own
  failure after rolling that session back. Calling it in the middle of a
  handler is therefore a commit point, and the objects read before it are
  read again after it.
* Some tables may live in Postgres (the *hot store*): break-glass sessions, rate
  events, audit log, SIEM outbox, OIDC sessions. A commit then spans two
  databases.
* Key files, the `current` pointer and the database survive a crash; the cached
  key, the concurrency counters and the sensor's log offset do not.

### Components

| component (src/app) | state | operations | interacts with | hard behaviour | what makes it correct |
|---|---|---|---|---|---|
| **Vault** (`vault/encryption_key_store.py`, `vault/key_rotation_service.py`, `secret_crypto.py`) | key files, pointer, version rows, encrypted columns, cached key | boot, rotate, encrypt/decrypt | every service that stores a secret | crash at any step, failing activation, secrets stored during a rotation | no stored secret becomes undecipherable; the next boot finds its key |
| **Break-glass** (`auth/breakglass.py`, `auth/breakglass_cookie_middleware.py`) | session rows in chains, cookies in browsers | login, rotate, resync, replay cut, revoke, logout, purge | middleware, nginx `auth_request`, audit | parallel requests with one cookie, late responses, registry outage | a revoked session stays revoked, a session ends on time, a legitimate client is not cut |
| **SIEM outbox** (`siem/outbox.py`, `siem/worker.py`, `audit`) | outbox rows | enqueue with eviction, drain, purge | every audited action, the scheduler | threads racing for the last place, rows dropped under the drain, crash between delivery and delete | bounded, nothing lost silently, drained |
| **Ban engine** (`security/banning`) | rate events, bans, concurrency counter | login evaluation, pre-check, sensor tick, manual bans, lifting | middleware, login routes, nginx log, scheduler | sliding windows, lift/re-ban, check-then-act on the counter | bans are earned, lifted ones give a fresh start, limits hold |
| **Hot store** (`db/hot_store*.py`) | Postgres copy of the hot tables, wizard state, cached switch | save, provision, test, prepare, migrate, skip, enable, disable | every session (`RoutingSession.get_bind`) | writes during a migration, migration cut half-way, a slow request that overwrites the cached switch | what was migrated is there, ids do not collide, the switch takes effect |
| **Access requests** (`rbac/access_request_service.py`) | request rows | submit, approve, reject, bulk | account provisioning, mail | status read before an `await` and written after it | an approved request has its account |
| **Accounts** (`rbac/account_service.py`, `keycloak_admin.py`) | account rows, provisioning rows, Keycloak users | create, retry, provision, delete | Keycloak over HTTP, the application's driver | a remote step fails or is answered late, a row id is used again | row and remote user agree, or the row says that they do not |
| **Account lifecycle** (`rbac/account_lifecycle_service.py`) | lifecycle columns, flags of the Keycloak user | daily run, warnings, disabling, password renewal | Keycloak, mail, identity edits | read-merge-write of the user by several writers, failures on each day | an idle account ends disabled, and is disabled at Keycloak too |
| **Sign-in** (`auth/oidc_bff*.py`, `auth/throttle.py`, `admin/user_sessions.py`) | login attempts, sessions, failure counter | password, code, enrolment, logout, disconnect | Keycloak's login pages, throttle | parallel codes on one attempt, a write lock held over an await | guesses are bounded, a disconnection cuts |
| **Second factors** (`auth/passkey_*.py`, `auth/totp_service.py`) | challenges, handles, passkeys, TOTP secret | enrol, sign in, revoke, set up, disable | browsers' authenticators | an assertion posted twice, two first enrolments | a challenge works once, passkeys share the user's handle |
| **ActiveSync devices** (`subdomain/activesync_device_service.py`, `activesync_auth.py`) | one row per phone (or twins), counter held in memory, the gate | sync request, merge, decide, arm, disarm | nginx `auth_request`, profile and administration pages | merges decided on stale copies, counters written as absolute values | a locked phone stays locked, counts are honest |
| **File drop** (`files/`, `admin/files.py`) | rows, blobs, grants, beta assignments | upload, deposit, version, channel, delete, browse | vault key, SQLite's write lock | blob and row written separately, identifiers used again, folders browsed by grants | a version keeps its blob, a grant stays with its file |
| **SSO session binding** (`security/session_binding_service.py`) | anchors, mismatch counters | evaluate | middleware | sequential in a request | see 7 |
| **Application passwords** (`vault/user_app_credential_service.py`, `rbac/app_credential_renewal_service.py`) | one stored password per user and application, their ages, the renewal's switch | provision, override, remove, renew in batches | vault, application driver, scheduler, account provisioning | the password is pushed before it is stored, and no transaction spans both | the vault holds the password that opens the application, none stays stale |
| **Grants** (`rbac/grants_service.py`) | grants with expiry | grant, revoke, expire | mail, effective access | several kinds of grant cover one right | see 7 and 8 |
| **WAF switches** (`bastion/waf_reactivation.py`, `waf_promotion.py`) | mode files, arm state, deadlines | disable, reactivate, promote, disarm | scheduler, nginx export | one file written by several routes and a job | see 6 and 8 |
| **Mail outbox** (`mail/outbox.py`) | 100 slots, one worker | enqueue, send | access requests, recap | full queue, shutdown | slots are returned |
| **nginx/WAF exports, analytics, ACME, robotic SSO, reporting, UI** | generated files, statistics | generate | file system, network | I/O | out of scope, see 7 |

The hazards, each at its line, are in `PROJECT.json` ("hazards") with the
properties that would catch them.

## 2. Modules

| module | models |
|---|---|
| `KeyRotation` | vault: boot, rotation, writers, crashes |
| `BreakglassChain` | break-glass sessions and their cookies |
| `SiemOutbox` | audit entries on their way to the SIEM |
| `ForwardQueue` | what the outbox promises: a bounded queue that delivers at least once or reports what it drops; `SiemOutbox` implements it |
| `BanEngine` | rate events, bans, request pre-check, nginx sensor |
| `HotStore` | the wizard and the switch of the optional Postgres, next to requests that insert |
| `Accounts` | access requests, account rows, Keycloak users, one application |
| `AccountLifecycle` | the daily run next to logins, edits and Keycloak's console |
| `Credentials` | the passwords of users at an application: renewals, overrides, provisioning |
| `SignIn` | password and code logins next to disconnections |
| `SecondFactors` | passkeys and the administrators' TOTP |
| `Devices` | the rows of one ActiveSync phone, its requests, merges and decisions |
| `FileCatalogue` | one folder: rows, versions, grants and blobs |
| `FileAccess` | the folder tree and what a user is shown of it |
| `MCKeyRotation`, `MCBreakglassChain`, `MCBanEngine` | symmetry sets and constant values for TLC; `MCBanEngine` also the gate's own next-state relation |
| `MCOutboxFiles`, `MCBansVaultDevices`, `MCPortal`, `MCProgress` | several components in one run |
| `KeyRotation_proofs`, `BreakglassChain_proofs`, `Credentials_proofs` | theorems about the module of that name |
| `Gates_proofs` | theorems about `BanEngine` and `Devices` |
| `SiemOutbox_proofs` | theorems about `SiemOutbox`, its refinement of `ForwardQueue` among them |
| `SignIn_proofs` | theorems about `SignIn` and `SecondFactors` |
| `Accounts_proofs` | theorems about `Accounts` and `AccountLifecycle` |
| `Stores_proofs` | theorems about `FileCatalogue`, `FileAccess` and `HotStore` |

The components share the database but no row that another one writes, so they
are separate modules; what they take from the shared infrastructure (commit
points, refresh, SQLite's write lock, reuse of row identifiers, rotation of the
vault's key) is built into the actions of each.

A composite has a variable `component`, chosen initially and never changed:
only the chosen component steps. Its behaviours are those of the components,
one at a time, so its state space is their sum and not their product; nothing is
lost, because no component reads what another one writes. Components that do
not run have a single initial state, and the composite's type invariant asks
each component for its own only while it runs. Where the components of a
composite have threads each, the configuration gives them the same names, so
that one set of permutations serves as symmetry for all of them.

In each module an operator whose comment begins with "Mutant" is a plausible bug:
its definition, put in the place of the one that follows it, must break a
property. It plays no part in the specification.

### KeyRotation

Key material is a number, a ciphertext is `[key, val]`. `files`, `pointer`,
`verRows` and `rows` survive `ProcessCrash`.

| action | code |
|---|---|
| `BootLoad`, `BootRefuse`, `BootWriteKey`, `BootWritePointer` | the branches of `ensure_encryption_key`; the key file is written before the pointer, with a possible crash in between |
| `RotateBegin` ... `RotateRegister`, `RotateSetupFails` | `rotate_application_key` up to its `try` |
| `RotateRead`, `RotateFails`, `RotateCommit` | `rotate_fernet_key`: the columns are read one by one, outside any transaction, and flushed together |
| `RotatePoint`, `RotateActivate`, `RotateActivationFails` | `activate_new_key_version`: pointer, commit, cache |
| `RotateDeleteKeyFile` | the `except` clause |
| `WriterEncrypt`, `WriterCommit` | `encrypt_secret` with the cached key, then the commit of the route |

Nothing serialises the route, so any number of rotators run at once.
`next_key_version` is a read: two rotations that are between it and the key file
take the same number (`SharedNumber`, `Rivals`). Histories say what was cut or
overtaken, so that the properties hold for everything else: `stranded` (a rotation
was cut between the commit of the re-encryption and the activation, its activation
failed, another one was committed in that window, or two shared a number),
`doomedKeys` and `doomedVers` (the keys and numbers of rotations whose
activation failed or that shared a number), `late` (per rotation, the columns that others
have committed since it read them), `wlate` (a writer whose key the database has
left) and `straddled` (the columns whose last commit was made across a
re-encryption). `MaxVersion`, `MaxKeys`, `MaxCrashes` and `MaxWrites` bound the
instance.

### BreakglassChain

A cookie is `[jti, last, exp]`. `held` is what the browsers have, `tpc/twho/ttok`
a portal request: it leaves with the cookie of the moment (`Send`), the middleware
runs after the handler (`Middleware...`), and its `Set-Cookie` arrives later
(`Deliver`) or never (`Lose`). `rotate_breakglass_session` is separated from
`MiddlewareRead` because the row is read long before it is written, and the
second query returns the object already in the session. With
`SlowRequests = FALSE` requests complete within a tick and no response is lost.
`AuthRequest` is nginx's subrequest (`rotate=False`), whose only effect is a
replay cut. Identity binding only denies requests; a denied request is
`MiddlewarePass`. `ToggleRegistry` is the outage of the session registry:
cookies are then accepted on their signature alone and logins get a short one.
`quietCut` are the chains whose cut found no rotation in flight.

### SiemOutbox

Each database statement of `try_enqueue_audit` and `process_outbox_once` is a
step. `due` and `stale` abstract the clock: a row is due when its
`next_attempt_at` has come, stale when it is older than the cutoff of a purge.
`Gone` is SQLAlchemy's refresh of a row that another thread has deleted
(ObjectDeletedError), which ends the drain. `DrainFails` is a database error that
leaves the session unusable. `lost` is what was in hand when a fault hit.
Left out: the 200 rows a purge reads and the 100 it drops at most, a change of
`retry_max_queue_size` while rows are queued (`Capacity` is a constant).

`ForwardQueue` states the same component without threads or drain: an event is
accepted, put into the queue once while there is room, and leaves it delivered or
through the hands of somebody who reports the drop. `Promised` maps the variables:
the queue is `outbox`, `hands` is `Held`, what has entered has a stamp, `delivered`
is what has been sent, and the limit is `Capacity + Cardinality(Enqueuers) - 1`.
Reads, counting, retries and the end of a drain are stuttering; `DropDelete` and
`PurgeDelete` are `Take`, a fault is `Lose`.

### BanEngine

`ev` holds the events of each counter, each with its time and its number, `bans` the
ban rows in insertion order, `pend` what a thread is to count, to look for or to
insert next (a `Job`).

| action | code |
|---|---|
| `FailedLogin`, `SuccessfulLogin`, `UnknownHost` | the first look-up of the handlers that count; `get_rule` commits after it |
| `CountEvent` | `_prune_and_count` and what is decided on the count |
| `BanFind`, `BanInsert` | `apply_ban`: `find_active_ban`, then the insertion |
| `BanDirectly` | a ban by hand or for a decoy username, which counts nothing |
| `GiveUp` | a SQLAlchemyError: rollback, the rest of the handler is skipped |
| `LiftExpired`, `LiftBan`, then `ClearCounters` or `ClearFails` | `lift_expired_bans` and `lift_ban`, whose commit precedes the clearing of the counters |
| `SignedIn` | the clearing after a single sign-on that succeeded |
| `NginxTick` | `ingest_parsed_events`, committed; the ban follows as above |
| `PassUnchecked`, `Gate`, `RecordSensitive`, `RecordLogin`, `Throttle`, `begin_concurrent`, `PreCheckFails`, `end_concurrent` | the middleware, with `PoolSize` threads at a time in the pre-check |

Counting and banning an address are not one transaction: between the two
`is_breakglass_ban_exempt` reads the policy, and `ensure_security_defaults` commits
whatever the session holds (engine.py:227). So an unblock, an expiry or another
ban may come between the count, the look-up and the insertion. The ban of an account
has no such call in between and is made in the transaction that counts, under
SQLite's write lock, unless `find_active_ban` has to lift an expired ban first (the
guard `Swept`), which commits. Calls that do nothing (allowlisted or exempt address,
policy off) are stuttering. Events outside the window are dropped from `ev` when their
counter is next used, as `_prune_and_count` does. Histories: `old` marks events from
before the last unblock, `due` whether a ban was earned when it was decided and
whether its target was unblocked since.

### HotStore

The eight hot tables are one; a row is `[id, n]`. `wizard` is the `hot_store_*`
columns of `portal_settings`; `hotCache`, `hotEngine`, `hotSynced` are the
process's copy, which `Route` (`RoutingSession.get_bind`) goes by.

| action | code |
|---|---|
| `RequestFresh`, `RequestReads`, `RequestApplies`, `RequestEnds` | `refresh_hot_engine_if_stale`: the setting is read in one step and put into the globals in another |
| `RequestFlushes`, `RequestInsertFails`, `RequestCommits` | an insert into a hot table through the engine of the moment |
| `Save`, `SaveDisposes`, `SaveSyncs`, `ProvisionMarksTested`, `Test...`, `Prepare...` | the wizard up to the schema |
| `MigrateBegins`, `MigrateClears`, `MigrateCopies`, `MigrateFails`, `MigrateEnds`, `Skip` | full replacement, row by row (one step per batch in the code); a failure leaves what was copied |
| `EnableBegins`, `SwitchCommits`, `SwitchApplies` | `set_hot_store_enabled`: realign the sequences, commit the switch, apply it |

Nothing keeps two administrators apart, so each has routes of their own (`apc`,
`aloc`), and a route that awaits goes on with the settings as it had loaded them.
Histories: `promised` is what the last complete migration has read, `cutShort` the
endpoints where one was cut, `overrun` the routes whose copy another migration
has emptied on its way, `misaligned` the endpoints whose last alignment failed, ran
next to an insert, or was overtaken (rows copied after it, or a commit that puts an
endpoint into service that it was not made for).

### Accounts

Every route is a coroutine: an action runs from one `await` to the next. `cpc`
says which answer a coroutine is waiting for. `CreateBegins`, `CompanyFails`,
`AccountInserts` are `create_bastion_account`; `RetryBegins` re-enters at the
Keycloak half, which is `FindAnswers`, `KeycloakCreates`, `CreateFails`,
`UserRecorded`, `GroupsAssigned`; `ProvisionBegins`, `DriverAnswers` are the
application's half (a new provisioning row is flushed before the driver is
awaited: `WriteLocked`); `Finished` is what the two commits of `_finish` leave,
that of `log_action` with the application's row and its own with the aggregate
status, either of which may be lost; `DeleteBegins`, `AppDeleted`, `UserDeleted`,
`Forgotten` the deletion, forced or not. `Noted` is `_record_keycloak_failure`,
whose write is lost when another coroutine holds SQLite's lock. The public form
(`SubmitChecks`, `SubmitInserts`) and rejections are threads. Row identifiers
are used again (`NextRow`), as SQLite does without AUTOINCREMENT. `muddled` is
the history of rows whose identifier or Keycloak id changed under a coroutine,
`summed` that of accounts whose aggregate status has followed the application's row.

### AccountLifecycle

Time is in days; a run visits the accounts in order. `Considers` decides,
`ReadsUser`, `WritesUser` (or `WriteIsLost`) are the two halves of
`update_keycloak_user`, `NotesDisabled` the row, `Reminds` the mail.
`EditReads`/`EditWrites` are an administrator's identity edit, which holds the
same read-merge-write; `ConsoleEnables` is Keycloak's own console. A commit that
fails ends the run (`Breaks`). Logins are `Authenticates` (Keycloak) followed by
`RecordsLogin` (the row).

### Credentials

No transaction spans the vault and the application: `driver.create_account` is
awaited between them. Of the passwords only matters which are the same, so
`alike[u]` groups the places that hold the same one: the vault, the application,
and the coroutines that have one on its way. `byAge` is the order of `rotated_at`,
its first `nStale` clients are older than `max_age_days`.

| action | code |
|---|---|
| `RenewalBegins` | `run_app_credential_renewal`: the oldest batch, disabled accounts skipped |
| `ApplicationTakes`, `Success`, `Failure` | the driver's answer: the application takes a password before its answer comes, or refuses it, or the answer is lost |
| `RenewalStores`, `RenewalCannotStore` | `renew_one_credential` after the answer; a row that was removed meanwhile is made again and ends the run when it is read |
| `SaveOverride`, `DeleteOverride` | an administrator's override: stored, then pushed; removed |
| `PushBegins` | `provision_account_app`, which holds SQLite's write lock while its row is new (`LockedOut`) |
| `SwitchRenewal`, `SwitchAccount`, `CredentialAges`, `Restart` | the setting, the account's status, time, a restart |

`settled` is a history: the clients whose last write reached both sides with
nobody else at work on them (`alone` in a push says so far).

### SignIn

One identity, one address. `PasswordPosted` purges expired attempts without
committing and awaits Keycloak (`Holds`); `SecondFactorAsked` stores the attempt,
`CodeClaimed` claims it with the counter it has read, `CodeRefused` /
`CodeAccepted` / `EnrolmentAccepted` write back. `RevocationBegins` followed by
`Disconnected` or `OthersRevoked` revokes sessions after a call to Keycloak.
`FailuresAge` and `SignInRestarts` clear the in-memory throttle.

### SecondFactors

Passkeys: `HandleRead`/`HandleCreated` (unique constraint, the loser re-reads),
`EnrolmentOffered`, `EnrolmentAnswered`, `PasskeyStored`; `ChallengeBurnt`
(`UPDATE ... WHERE used_at IS NULL`), `AssertionChecked`, `CounterStored`,
`VerificationEnds`. TOTP: a thread loads the row (`TotpLoads`) and writes only
the columns it changes (`Merged`).

### Devices

One phone of one application; the rows' keys are mailboxes and one legacy
`DOMAIN\user` key. A session keeps objects as loaded, a flush updates changed
columns only, an update of a deleted row fails (`StaleDataError`), updates come
before deletes. `SyncArrives`, `LooksUp`, `FindsSibling`, `Inserts`,
`Collapses`, `MergeCommits`/`MergeFails`, `Claims`, `Writes`, `Lets` are one
`_evaluate_device`; `PageOpens` a page that merges on reading;
`DecisionReads`/`DecisionCommits` each route that decides, `EnableReads`,
`Disables` the gate. When a statement fails the request is let through
(`FailsOpen`). An identifier of a deleted row is given out again (`Inserts`);
`reborn` is the history of that happening while a session still goes by the old
row (`Holding`), and it ends the `late` of all requests.

### FileCatalogue and FileAccess

`FileCatalogue`: `born` numbers the files ever created, so that a grant, a beta
assignment or a version tells which file it was meant for although identifiers
are used again. A grant may be posted on any identifier (`create_grant` looks
for no file, and SQLite enforces no foreign key): one posted on an identifier
without a file is `Blind`. Uploads (`UploadBegins`, `VersionBegins`, `NewBegins`) run to
their first flush on the event loop and then in a thread; `StoreInserts` takes
the write lock, `StoreWrites` writes the blob, `UploadCommits` or
`UploadRollsBack` ends it. A deletion is `DeleteReads`, `DeleteCommits`, then
`_unlink_blob` per path. `FilesCrash` may come anywhere; `crossed` are paths
written while the loop had them to unlink. `FileAccess` is the sequential part:
folders, grants of a user and of a group, and the three ways the code computes
access (up from a file, down from a folder, the user's flat list).

## 3. Runs

| run | shows | bounds, and why they are enough |
|---|---|---|
| `outbox_files` | of the outbox `QueueBound`, `Accounted`, `NoDuplicate`, `ImplementsForwardQueue`; of the vault `SingleKey`, `AtRestReadable`; of the catalogue `GrantsMeant`, `BlobPresent`, `LatestServed`; of the folder tree `BrowsingExact` | outbox: 3 events and 2 threads for a capacity of 1, batch of 2, one fault: eviction, racing inserts. Vault: 2 columns, the environment's key, 2 rotators and a writer, 3 versions and 3 keys (so that two rotations follow each other, race, or share a number), failing activations, one crash. Catalogue: one name, 2 uploads, one file identifier used by 2 files, 3 versions (so that two deposits race a label set by hand), one edit, one fault. Folders: 3, so that a folder is shown for a grant two levels below |
| `bans_vault_devices` | of the ban engine `FailBansEarned`, `LadderClimbed`; of the vault `RowsRecoverable`, `PointerResolves`; of the devices `LockBites`, `CountHonest` | bans: thresholds of 2, a ladder of two steps and permanence at the third ban, 3 bans, one thread that counts or bans, one lifter, the sensor, 3 ticks; three times, with the thread counting failures, or successes and decoy names, or unknown hosts next to the sensor. Vault: 2 rotators and a writer, 3 versions, 4 keys, failing activations, a crash, no environment key. Devices: 2 mailboxes, the legacy twin, 2 threads, 4 requests and one decision, or 2 decisions and 2 requests (3 while the phone has twins) |
| `bg_chain` | `QuietCutFinal`, `AbsoluteExpiry`, `ChainLinked` | 2 clients with copied cookies, 3 jtis (login and two rotations, or two logins), clock beyond every timeout and the retention |
| `ban_gate` | `CounterExact`, `ConcurrentBound` | limit 1, a page, a login and an allowlisted account behind one address, 3 requests, 2 pool threads: the overshoot happens. `GateSpec` leaves out logins, the sensor and the passing of time, which do not touch the counter |
| `portal` | break-glass `NoFalseReplay`; hot store `ServedAligned`, `MigratedRowsStay`; accounts `PendingBound`, `StatusHonest`, `NoPartialDelete`, `ApprovedOnAccount`; lifecycle `DisabledAtKeycloak`; sign-in `GuessesBounded`; factors `ChallengeOnce`, `HandlesAgree`; application passwords `VaultOpensApp` | break-glass: 1 client, 2 parallel requests, 3 jtis. Hot store: 1 endpoint, one row; once 1 administrator next to 2 requests with one fault, once 2 administrators side by side, with requests between their routes and no fault. Accounts: 2 coroutines, 2 people, 2 rows, one fault; the form's races with 2 submitting threads and no administration. Lifecycle: one account, one run, one edit, 4 days for a limit of 2, 2 troubles. Sign-in: 2 logins, one revocation, one attempt, one fault. Factors: 3 challenges, 2 passkeys, 2 threads of each kind. Passwords: once 2 clients and 2 renewals (the hourly one and a forced one) with a batch of 2, and once one client with every route that writes; one fault |
| `progress` | `QueueDrains`, `SwitchTakesEffect`, `IdleEndsDisabled`, `StaleRenewed` | the outbox with 2 events, 2 threads, 2 faults; the hot store without rows, two requests whose refresh is slow; the lifecycle with one trouble and one edit; the renewal of 2 clients in batches of one, so that the second has to wait its turn |

Runs that must fail are in section 6. Clocks, versions, jtis, events, bans,
rows and faults are capped by the `Max...` constants in the guards. Deadlock is
not checked: with these caps every instance comes to an end.

*Fairness.* Only `progress` uses it. Of the outbox: `WF(DrainStep)`, because the
scheduler runs the drain every 5 seconds (`max_instances=1`, `coalesce`) and a
delivery ends, sockets and the HTTP client having timeouts; `SF(GrowsStale(v))`,
because time passes, so a queued row is some day older than
`retry_max_age_minutes` when a purge begins. Of the hot store: the TTL runs out
(`SyncExpires`), requests keep coming (`RequestReads`, nginx asks for every
page) and end, and an administrator's route that has begun ends. Of the
lifecycle: the scheduler starts the daily run (`RunBegins`), a run and an edit
that have begun go on (`RunStep`, `EditWrites`). Of the renewal: the scheduler
starts the hourly job (`RenewalBegins(HourlyRun)`), and the application's answer,
or the timeout of the call, comes (`ApplicationTakes`, `Success`). Nothing is assumed of the SIEM,
of switches, of enqueuing threads, of users, of Keycloak's console; faults are
finitely many. Without the age limit the outbox would not drain: a delivery may
fail for ever.

## 4. Properties

Vault, break-glass, outbox, bans:

* `RowsRecoverable`: the key of every committed ciphertext is in some key file (or
  the environment), through concurrent rotations, writers who commit old ciphertexts
  after a rotation, failed re-encryptions and crashes. The only keys that go are
  doomed ones: those of an activation that failed, whose clean-up deletes
  the file, and of two rotations that took one number, of which the second file
  replaces the first.
* `PointerResolves`: a boot never finds a pointer to a missing file, but for the
  file of a doomed number.
* `SingleKey`: the database is under one key at every instant, but for the columns
  whose last commit straddled a re-encryption: encrypted before it and committed
  after it, or committed after the rotation had read the column as empty.
* `AtRestReadable`: at rest the cached key opens all other columns, unless a rotation
  was `stranded`.
* `QuietCutFinal`: once cut, no cookie of the chain is accepted, after any
  sequence of rotations, outages and purges.
* `AbsoluteExpiry`: rotation never prolongs a session.
* `ChainLinked`: a purge removes whole chains.
* `NoFalseReplay`: prompt clients are never cut (slow ones are, see 6).
* `QueueBound`: at most one row per other thread over the capacity.
* `Accounted`: an accepted event is queued, delivered, reported as dropped or in
  a thread's hands; only a fault loses it, and only from those hands.
* `NoDuplicate`: two deliveries of an event need a fault.
* `QueueDrains`: every row leaves.
* `ImplementsForwardQueue`: step by step, a row is deleted only after its delivery
  or by somebody who then reports it, an event enters the queue once and only
  while there is room for it, and nothing is taken out of anybody's hands but by
  a fault.
* `FailBansEarned`: unblocking gives a fresh start: a ban for failures is decided on
  a full threshold of failures since its target's last unblock, unless clearing
  the counters failed or is still to come. What remains is the ban that was decided
  before the unblock and inserted after it (section 6).
* `LadderClimbed`: lines logged during a ban do not climb the nginx ladder.
* `CounterExact`: a request is counted out if and only if it was counted in.
* `ConcurrentBound`: the check-then-act race of the limit costs at most one
  request per other pre-check thread.

Hot store, accounts, lifecycle:

* `ServedAligned`: while a completed wizard is switched on, the next id of its
  Postgres is free, whatever was migrated, cut, skipped and enabled before by one
  administrator or several, unless the last alignment failed or was overtaken
  (`misaligned`).
* `MigratedRowsStay`: what a complete migration has read is in the Postgres
  until another one empties it, also when several administrators migrate at once.
* `SwitchTakesEffect`: the cached switch, which a slow request may overwrite with
  what it read before, follows the setting in the end.
* `PendingBound`: racing submissions exceed the limit per address by at most one
  per other thread.
* `StatusHonest`: an account is pending exactly while it records no Keycloak id,
  and provisioned only if its application is, whatever was retried in parallel,
  lost or deleted, once its aggregate status has followed the application's row: a lost
  second commit of `_finish` leaves the old one (section 6).
* `NoPartialDelete`: a row that goes without being forced leaves no Keycloak user
  behind, unless what it stands for has changed under a coroutine.
* `ApprovedOnAccount`: a request that becomes approved names an account that
  exists at that moment, although it was created many awaits earlier.
* `DisabledAtKeycloak`: an account the run has disabled is disabled at Keycloak,
  unless somebody who had read the user before wrote it back.
* `IdleEndsDisabled`: an account nobody uses ends disabled, in spite of failures.
* `VaultOpensApp`: once nobody is at work on a client whose last write reached both
  sides without another one at the same time, the vault holds the password that
  opens the application, whatever was refused, lost, skipped or restarted.
* `StaleRenewed`: no password stays stale while the renewal is on and fewer clients
  are disabled than a batch has places.

Sign-in and factors:

* `GuessesBounded`: however parallel the codes on one attempt, they are at most the
  limit for each time its counter was started, and an enrolment starts it once
  more, or once per submission under way.
* `ChallengeOnce`: a challenge lets one verification through.
* `HandlesAgree`: two first enrolments end with one handle, which every stored
  passkey carries.

Devices and files:

* `LockBites`: a request that arrives while a row of the phone is locked, and no
  merge in flight has an older copy, is not let through by a verdict, through
  merges and twins, unless in the meantime an administrator lifts a lock or decides
  about a row that a merge has copied, or a new row takes the identifier of a
  deleted one by which a session still goes. (Without the last two conditions it
  does not hold, see 6.)
* `CountHonest`: the rows' counters, the held hits and those in flight never
  exceed the requests made, through throttling and racing merges, until an
  identifier is given out again under a session that goes by it (see 6).
* `GrantsMeant`: no grant or beta assignment opens a file it was not made for,
  although identifiers are used again, but for a grant that was posted while no
  file had its identifier.
* `BlobPresent`: a committed version has its blob, unless it is crossed.
* `LatestServed`: what a user's deposit has published is what readers of both
  channels are served from then on, unless an administrator sets a label between
  the number and the commit of the deposit, or of one that commits before it, or
  the identifier has versions of a dead file.
* `BrowsingExact`: walking down the folders shown leads to exactly the files the
  flat computation grants.

## 5. Proofs

Checked by tlapm for every value of the constants allowed by the assumptions
in the modules.

Vault (`KeyRotation_proofs`):

* `RotationTypeCorrect`: the type invariant.
* `RotationLosesNoKey` (`RowsRecoverable`) and `BootFindsItsKey` (`PointerResolves`),
  for any number of rotations at once, failing activations, writers and crashes.
  Neither is inductive: the deletion of a key file in `RotateDeleteKeyFile` is
  harmless only because its number was unknown when it was picked. The invariant
  `NoKeyLost` adds that all keys have been issued (`KeysIssued`), that the cached key
  is in its file (`CacheBacked`) and those in the hands of writers are known
  (`WritersRecoverable`), what holds before the first key (`BeforeFirstKey`) and while
  the process is down (`OnlyWhenUp`), and for each stage of a rotation what its
  file holds and that its key is in no use before the commit (`Stages`). Each of these
  has the exception of doomed keys and numbers, which works because they are given
  up together: a number with the key in its file and with the key of every rotation
  that holds it (`Doom`); and two rotations never have one key, and one number
  only if it is doomed (`Apart`).
* `OneKeyAtATime` (`SingleKey`), `SecretsOutliveRotation`
  (`RotationPreservesSecrets`) and `ServedIsReadable` (`AtRestReadable`), for any number
  of rotations and writers, from `Coherent`: what a rotation has read is the secret of
  its row under the new key, or nothing for an empty column, unless the column was
  committed since (`Copies`); a writer that no re-encryption has overtaken
  holds the key that opens the database (`WriterFresh`); and `Readable` says for every
  stage of the boot and of a rotation which key that is, until something is
  `stranded`.

Break-glass and outbox (modules of the same names):

* `BreakglassTypeCorrect`, `OutboxTypeCorrect`: the type invariants.
* `CutsAreFinal`, `SessionsExpire`, `ChainsStayLinked`, from the invariant
  `Sealed`: tokens and rows in circulation have been issued (`TokensSound`,
  `RowsSound`); a chain is registered whole or not at all (`ChainsWhole`), which
  is what makes the purge safe although a cookie without a row is accepted; jtis
  not yet issued are clean; the rows of a quietly cut chain are cut
  (`CutSealed`), and no rotation of such a chain is in flight
  (`NoRotationOfCut`).
* `LoneClientNeverCut` (`NoFalseReplay`), for any number of parallel requests,
  assuming `LoneClient`: one client has the cookie, its responses come back within
  a tick, and `RotateEvery > 0` (the code has 60 seconds,
  `ROTATION_MIN_INTERVAL_SECONDS`). By `NeverTaken` a row is superseded only in
  the present tick as long as a cookie of it is anywhere, all cookies that are due
  for rotation are of one row, and the row of a cookie given out in this tick is
  not superseded. So nobody presents a superseded cookie after its grace. A copied
  cookie is what the detection is for, and slow responses break it (section 6).
* `NothingVanishes`, from `SafeHands`: what a thread holds was accepted for
  forwarding (`Custody`); then one lemma per group of actions shows that an
  event's trace (`Traced`) is kept.
* `QueueBounded`: the rows plus the threads that have passed the capacity check
  (`Room`) never exceed `Capacity + Cardinality(Enqueuers)`, and leave one place
  when a thread has not passed it: counting by cardinality of unions.
* `OutboxImplementsQueue`: the refinement, from the two invariants above and
  `Origins`: a row was inserted once, by the only thread that has its event, and
  whatever is evicted, purged or sent has been a row. `OthersKeep` says that a
  step moves only the hands of its own thread; then each action is mapped to a
  step of `ForwardQueue` or to none. `QueueTraceable` is the safety of the
  abstract queue.
* `DeliveredOnce` (`NoDuplicate`): while nothing has failed, an event is in one
  place (`OnePlace`): with the thread that audited it, among the rows and the
  drain's list and not sent, or sent and then in neither, but for the row the
  drain has in hand.

Bans and devices (`Gates_proofs`):

* `CounterNeverLeaks`, `LimitHolds`, from `GateInv`: the counter equals the number
  of running requests (`CounterExact`), at most `PoolSize` requests are in the
  pre-check, and the requests of an address that are subject to the limit and
  running or in the pre-check (`Pressing`) never exceed
  `ConcurrentLimit + PoolSize - 1`: one that enters finds the counter, hence the
  running ones, below the limit.
* `BansTypeCorrect`, from `BanInv`: types, counters of finitely many rows (`Counters`),
  so that counting them means something, and what a thread may be about to count or
  insert (`JobsFit`: only the sensor makes nginx bans, a failure is counted for the
  target that it bans).
* `FailBansAreEarned` (`FailBansEarned`), for any rules, thresholds and threads, from
  `FailsInv`: a failure from before an unblock is in a counter only while clearing it
  is still to come or has failed (`FailsFresh`), and no thread holds a ban that was
  not earned when it was decided (`DecisionsEarned`). That a ban is earned speaks of
  the failures since the last unblock, while the code only counts what is in the
  window: the two are the same by `FailsFresh`, which is kept by every order of
  unblocking, lifting, clearing and counting.
* `LadderIsClimbed` (`LadderClimbed`), for any ladder, from `LadderInv`: the ban that
  the sensor has decided and not yet inserted is still the next rung (`RungsDecided`),
  because nobody else inserts nginx bans and a lifted one does not come back
  (`RungsKept`).
* `DevicesTypeCorrect`, from `DevInv`: a merge has something to merge (`MergesRows`),
  and a decision that is over has no row in hand (`DecisionsTaken`).
  The winner of a merge exists because the score orders the rows
  (`WinnerExists`), the sum of their hits by `Iterate`.
* `LocksAlwaysBite` (`LockBites`), for any number of twins, threads, decisions and
  faults, from `LateAreLocked`: while a request is late the phone is locked, every
  copy with which a merge goes on says of a lock what the row says, and the row by
  which the request will be judged is locked, in its own copy too. A merge keeps
  this because the lock ranks first: the winner of a group with a locked row is a
  locked row (`LockedWinner`). Each condition of the property is the place where
  one of these parts would break.

Sign-in and factors (`SignIn_proofs`):

* `SignInTypeCorrect`, `GuessesStayBounded` (`GuessesBounded`), from `SignInInv`:
  a guess is in the attempt's counter or was before the counter was started again
  (`GuessesCounted`); a counter is started again only by those who have read the
  attempt as an enrolment's, and those that may still do so together with those
  that have are at most the logins (a cardinality). `FailuresRoom` is the same
  argument for the throttle: the failures counted and the logins under way are
  bounded together.
* `FactorsTypeCorrect`, `ChallengesBurnOnce` (`ChallengeOnce`), `OneHandle`
  (`HandlesAgree`), from `FactorsInv`: what has let a verification through is
  used and stays so (`BurntOnce`); an enrolment past its handle, and every passkey
  stored, has the identity's, which never changes once drawn (`HandleShared`).

Accounts and lifecycle (`Accounts_proofs`):

* `AccountsTypeCorrect`, `AccountsStayHonest` (`StatusHonest`),
  `PendingStaysBounded` (`PendingBound`), from `AccInv`: what each coroutine holds
  at each of its awaits (`LocalsFit`), the Keycloak user that a deletion has read
  is still the one of the row unless the row is `muddled` (`HeldUser`), and open
  requests and submitting threads are bounded together (`RoomForAll`). A new row
  is found because identifiers are finitely many (`GreatestOfSet`).
* `ApprovalsNameAccounts` (`ApprovedOnAccount`) and `DeletionsAreWhole`
  (`NoPartialDelete`), action properties from the same invariant: one lemma says
  that only creations approve, and one that only deletions remove rows; then each
  of those steps is looked at.
* `LifecycleTypeCorrect`, `DisabledAccountsAreOff` (`DisabledAtKeycloak`), from
  `LcInv`: a run that works on an account knows which (`RunsPlaced`), and a user is
  off from the run's write on, before the account is recorded as disabled
  (`OffFirst`), unless somebody has written it back.

Application passwords (`Credentials_proofs`):

* `VaultAndApplicationAgree` (`VaultOpensApp`), from `CredInv`: of each client either
  nobody is at work and the two sides agree if it is settled, or somebody is; one
  that is alone knows whose password the two sides hold (`Known`). Agreement is
  not inductive by itself: it is lost while a push is on its way and has to be
  found again by the one who made it, through refusals and lost answers. Nothing
  is assumed of the order of the credentials: the batch may be any.

Files, folders and hot store (`Stores_proofs`):

* `FilesTypeCorrect`, `GrantsStayMeant` (`GrantsMeant`), `VersionsKeepBlobs`
  (`BlobPresent`), from `FilesInv`: what an upload holds at each stage (`UploadsFit`:
  the write lock from its first flush on, a free place for its version, then the
  blob), and what a deletion has found before it removes it (`DeletesFound`).
* `DepositsAreServed` (`LatestServed`), from `FilesInv` and `LatestInv`: files are told
  apart by their creation, and what an upload is about to create is nobody else's
  (`NewBirth`); the number of a deposit is one above a label of the file, and tops
  all of them, unless another upload has taken it before this one took the lock, in
  which case its insert is refused (`NumberTop`). The first half is what makes the
  second inductive: a deposit that commits under a higher number than a waiting
  one's would leave a label that the waiting one was to top.
* `AccessTypeCorrect` and `BrowsingIsExact` (`BrowsingExact`), for trees of any width
  and height, any files and any grants, from `AccessInv`: the folders that were made
  are a tree (`Tree`: each has a depth, one more than that of its parent, and no
  depth exceeds the number of folders), and a file is in one of them or at the top.
  The code walks up (`folder_ancestor_ids`), down (`folder_has_visible_descendant`)
  and through what is listed, each time with a recursion of its own, and the depth
  is what relates them: the search below a folder is the least set that is closed
  under its own definition (`SearchUnfolds`), a walk of as many steps as there are
  folders is long enough (`Growing`, `AncestorsClosed`), what has something to see
  is reached, by the depth upwards (`SeenIsReached`), and leads to something, by the
  depth downwards (`SeenLeadsSomewhere`). How a rank is computed from the grants
  plays no part: only that all three use the same.
* `MigrationsStay` (`MigratedRowsStay`) and `ServedStayAligned` (`ServedAligned`), for
  any number of administrators at once, from `HotInv`. The invariant adds that
  identifiers and sequences do not exceed the writes so far (`RowsNumbered`), that
  the wizard's steps are taken for an endpoint (`EndpointNamed`), that what a migration
  has read is still to do or in its Postgres unless it was overrun (`CopiesKept`),
  and that no row, committed or flushed, is at or above the sequence of a Postgres
  that a completed wizard serves or that a route is about to switch on, unless it is
  misaligned (`SequencesFree`). A route that is about to switch its endpoint on has
  to be in it, because the commit that puts the endpoint into service may be another
  administrator's.

Assumptions on the constants are those of the modules (numbers are numbers, sets
of threads and rows that are counted are finite), and `LoneClient`, the hypothesis of
`LoneClientNeverCut`.

Only model-checked:

* liveness (`QueueDrains`, `SwitchTakesEffect`, `IdleEndsDisabled`, `StaleRenewed`):
  fairness and ENABLED are out of the prover's reach;
* `CountHonest`: it adds up rows, and what bounds the sum while counts are written
  as absolute values is not in one row or one session: it is which copies of which
  rows several merges hold at the same time, and in which order they may still
  commit. No invariant that a step keeps has been found for it; the run and long
  simulations of larger instances (3 threads, 3 rows) are what there is;
* the type invariants of the composites, which are those of their components. Of
  these, that of `Credentials` is proved in the part that `CredInv` needs: the order
  of `byAge` is a sequence that the model filters and appends to.

## 6. Findings

Each is a run that checks one promise of the code and finds a behaviour of the
code that breaks it. `PROJECT.json` quotes the lines.

| run | promise | what happens |
|---|---|---|
| `rotation_orphan_delete` | "delete orphan file on failure" | the activation fails after the re-encryption has been committed; the clean-up deletes the only key of the database |
| `bg_revoke_race` | revocation cuts the entire chain | a rotation in flight inserts a live row after the cut |
| `lifecycle_unwarned` | a login clears the inactivity tracking | it does so only of a disabled account: the stage of the last warning stays and the second time the account is disabled without a warning |
| `signin_disconnect` | sessions are always revoked, even if Keycloak fails | a login that awaits Keycloak holds SQLite's write lock; the revocation fails |
| `device_lock` | the owner can never lift an administrator's lock | a merge decided before the lock deletes the locked row |
| `files_rekeyed` | a stored version opens | a rotation of the vault's key leaves the blobs under the old one |

Other consequences of the code that the models make visible, for which there is
no run, because nothing is decided by them, because the run's place went to a
graver one, or because they are the same race seen from another side.

Vault, break-glass, outbox, bans:

* A secret stored between the read of its row and the flush of a re-encryption is
  replaced by the previous one (key_rotation_service.py:144, 162).
* `WriterEncrypt`, `RotateCommit`, `WriterCommit`: a secret encrypted with the
  cached old key and committed after the re-encryption stays under the old key
  (recoverable, but not by the running process), although
  key_rotation_service.py:146 promises "no mixed old/new key state".
* Two rotations that are both past `next_key_version` before either has written its
  file (encryption_key_store.py:342) take the same number: the second file replaces
  the first, and when the first rotation has committed under its key, or one of them
  fails and deletes the file, the database has no key. Two that commit in one order
  and activate in the other leave a pointer and a cached key that do not open the
  database: no later rotation can read it either.
* An unblock between the count that reaches the threshold and the insertion of the
  ban has no effect: the target is banned again at once, on failures that the
  unblock has cleared, although engine.py:400 says "Unblock must also reset
  sliding-window counters, otherwise a user can get re-banned immediately after the
  lift/expiry." Two threads that look before either inserts give one target two bans.
* Two parallel rotations of a cookie leave two rows of the chain that are not
  superseded; `current_chain_tip` returns one of them. With `SlowRequests`, a
  rotated cookie that is lost makes the client's next request a replay.
* The queue of the outbox can exceed `retry_max_queue_size`: `QueueBound` is the
  exact limit.
* The refusal over the concurrency limit is taken for "not banned" by its caller
  (engine.py:638). `ClearCounters` clears the failed-login counters only: 429
  lines from before the end of an nginx ban count towards the next one. The audit
  of a burst at exactly `threshold + 1` (engine.py:900) is met again whenever an
  event leaves the window.

Hot store:

* `EnabledOnlyMigrated` and `LiveSequenceForward` (in the module, checked by no
  run) do not hold: the test before enabling looks at a flag that a later cut
  migration does not clear (hot_store_service.py:434), and enabling again moves
  the live sequence although tests/test_hot_store.py:239 says it never may.
* Rows written to SQLite between the copy and the switch are missing in Postgres;
  a re-migration replaces what Postgres had. Two administrators who migrate, skip
  or enable at the same time are not kept apart (`run_hot_store_migrate`,
  hot_store_service.py:355, takes no lock): one empties what the other has copied,
  which then ends as if it were complete (`overrun`), or copies rows into a store that the
  other has aligned and switched on, so that the next insert collides
  (`misaligned`). Saving a new configuration does not look at `enabled`. Between the
  disposal of the engine and the next synchronisation statements fall back to SQLite.

Accounts, lifecycle:

* `DecidedOnce` and `ExactStage` do not hold: an approval overwrites a rejection
  committed during its awaits, in spite of "Demande déjà {status}"
  (access_request_service.py:230); a retry that races the creation leaves
  `last_error` on an account that was created.
* SQLite gives a deleted row's identifier out again, so that a coroutine may write
  one person's Keycloak id into another's row. A creation whose answer is lost
  leaves a user that every later retry meets as a conflict.
* `_finish` commits twice: `log_action` commits the application's row, then the
  aggregate status is computed and committed (account_service.py:1482-1506). A crash
  or a failed commit between the two leaves an account "provisioned" whose
  application has failed, although account_service.py:102 says that the aggregate is
  "honest by construction" and "never masks a failure", until something computes it
  again.
* `ChangedPasswordHolds` does not hold: `password_changed_at` is written at the
  creation only (account_service.py:1039), so a changed password is asked to be
  changed again. One failed commit ends the whole daily run
  (lifecycle_service.py:255).

Application passwords:

* Two renewals of one client that overlap may reach the vault and the application
  in opposite orders; a removed override is made again by a renewal in flight. No
  promise of the code speaks of either; `settled` leaves them out.
* Disabled clients keep their places at the head of the list: when they fill a
  batch nobody else is renewed (`StaleRenewed` asks for fewer). A run ends at the
  first row that was removed after it was loaded.

Sign-in, factors:

* Of two password logins at once the second blocks the event loop until its busy
  timeout. A wrong code in parallel with a success is not counted. A login in
  flight during a disconnection issues its session afterwards.
* `EnabledConfirmed` does not hold: generating a new secret races its
  confirmation, and TOTP is on with a secret nobody has confirmed.
  `SignCountForward` does not: two verifications write their counters in any
  order.

Devices:

* Merging a winner with the legacy key always fails (the UPDATE of the key
  precedes the DELETE of the twin, and the unique index refuses), although
  tests/test_activesync_devices.py:585 promises one row; the request then works
  on the in-memory winner. A request that has read one twin goes on with that copy:
  when an administrator then locks that twin too, and another session merges the
  first one into it, the request passes although it arrived after the first lock.
  A merge that has copied two locked twins deletes one of them after the other was
  unlocked, and its lock with it. Enabling the gate overwrites a decision committed
  between its read and its write (activesync_device_service.py:909).
* An identifier that is given out again while a session goes by the deleted row
  makes that session take one row for the other. `LockBites` was false without that
  condition: looking for its inductive invariant showed that the new row, which is
  not locked, may be what a late request is judged by. `CountHonest` is false
  without it beyond the bounds of the run: with three threads, a merge deletes
  row 2, a third mailbox inserts a new row 2, and a session that has kept its copy
  of the old one writes the old count onto the new row: 6 hits for 5 requests.

Files:

* A grant is stored for any identifier (grants_service.py:568-612 and its route look
  for no file): one that is posted on a deleted file, or on a number not given out
  yet, opens the next file that takes the number.
* While an upload holds the write lock every administration write blocks the event
  loop and fails (`DeleteIsLocked`). A deposit racing a deletion leaves a version
  for a dead identifier, which the next file with that identifier adopts.
  Deleting and uploading the same content at once may remove the new blob
  (`crossed`). `except FileNotFoundError` in `files_download_version` cannot be
  reached, because `iter_version_plaintext` is a generator. Depositing under the
  name of an archived file is refused for ever.
* A deposit may commit under a number that a label set by hand meanwhile has
  overtaken, and readers keep the older version. The deposit need not be the one
  that the label races: one that took its number before the label was set may
  commit above one that took its number after. `LatestServed` did not allow for the
  latter until its invariant was looked for; the run shows it with three versions.

WAF (read, not modelled):

* An export of the catalogue or of a sensor ban (admin/export.py:280,
  nginx_ratelimit_sensor.py:162) applies a profile mode that was saved as "pas
  encore appliqué à nginx", without the smoke test. The last `write_arm_state` of
  a promotion drops the keys of the subdomains. A disarm that races a
  reactivation is written back. The rollback of an apply restores an older arm
  state.

## 7. Not modelled

Signing, encryption and token formats (a cookie is a record, a ciphertext names
its key), log and syslog formats, mail texts, the binding evaluation, allowlisted addresses,
backups before a rotation, the command-line rotation script, directory links
and bulk imports, the push of stored passwords that follows an identity edit
(account_service.py:1707), and the components marked `not_modelled` in `PROJECT.json`.
Configuration generators (nginx, WAF), statistics, ACME, robotic SSO, reporting
and UI have no concurrent state of their own. The WAF's switches are files that
several routes and a job rewrite as a whole: section 6 says what reading them
shows. The session binding counts mismatches within one request. The remaining
ones are in the plan.

## 8. Plan

1. Proofs: an inductive invariant for `CountHonest`.
2. The WAF's mode and arm files; grants with expiry and their review; the mail
   outbox's slots; the SSO session registry.
3. Abstract specifications: one logical table for the hot store; a phone that is
   one row for the devices.
