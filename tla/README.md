# auth-api-nest: a TLA+ model

auth-api-nest is an OpenID Connect provider and permission server: NestJS
handlers over PostgreSQL (READ COMMITTED) through TypeORM. Several processes
may run at once; everything they share is in the database. What is hard about
the system is what happens *between two statements*: handlers read, await
(a password hash, an HTTP request, a second read) and write what they read.

Every module here makes each database statement one step and lets any number of
handlers interleave between steps. A statement is atomic. An open transaction's
writes are invisible to others and lock their rows until it ends.

## The system's parts

| Part | State | Operations | What is hard | Correct when |
|---|---|---|---|---|
| Token endpoint and store (`oidc/token.service.ts`, `oidc.controller.ts`) | `token_records`: codes, refresh tokens with family, status, `used_at`, `expires_at` | authorize, exchange, refresh, revoke, cleanup | concurrent presentations, grace window, reuse detection racing rotation | a grant is used once, families are homogeneous, revoked families stay dead |
| Accounts (`domain/accounts`) | `accounts`: status, password, reset flag | create, update, resetPassword, authenticate, completePasswordReset | stale entities saved column by column | temporary password implies reset, one super admin stays, disabled stays disabled |
| Permission webhook outbox (`domain/permission-webhooks`) | `permission_webhook_outbox`, `..._subscriptions` | enqueue, claim, post, record, reschedule, sweep, retryDelivery, configure | leases that run out, crashes after a claim, manual retries | attempts bounded, no claim outlives its attempt, every event settles |
| Notification delivery (`notifications/notification-delivery-worker`) | `notification_deliveries`, attempts, notification status | claim, send, record, refresh status | two workers finish the last deliveries, reclaim without limit | the notification's status is that of its deliveries |
| Devices and consent (`notifications/notification-devices`, `-admin`, `-retention`) | devices, subscriptions | register, update, remove, subscribe, disable, revoke, purge | a token changes its owner, saves without row locks | a push token has one owner, consent ends with its device |
| Sending (`notifications/notification-send`) | idempotency records, notifications | send | retried sends | a send happens once |
| Permissions (`account-permissions`, `permissions`, `service-registry`) | assignments, definitions, schema version | put, revoke, first login, create, migrate, remove | checks outside the transaction, missing rows cannot be locked | a grant above a first login's was approved, each change has its event |
| Service applications | applications | create, approve, reject | two pending ones, an applicant's save over a decision, upgrades against changed permissions | an approval raises the grant it finds |
| Hosted login (`hosted-login-transaction`, `login.controller`) | `token_records` of type `authorization_login` | create, find, consume | find, authenticate, consume | a transaction is consumed once, by its browser |
| Admin authentication (`admin/admin-auth.service.ts`) | challenges, MFA, sessions | bootstrap, login, validate, logout | bootstraps at the same time, a stale session save after logout | one bootstrap, a logged-out session comes back by no other save |
| Signup (`signup/`) | email verifications | start, verify, complete | counts read and then written | guesses and uses of a code are bounded by how often it was raced |
| Service onboarding | requests | create, update, approve, reject | approve is many reads and writes without a transaction | what is approved is provisioned |
| Service credentials, OIDC clients | secrets, statuses | create, update, rotate, disable, authenticate | stale saves | a save undoes nothing written after its SELECT |
| Signing keys | `signing_keys`, in-process cache | load or create | several processes on an empty table | tokens verify everywhere |
| Audit logs, email, configuration, crypto, controllers, pages | append-only or stateless | | | |

How they interact: the token endpoint reads accounts and permission
assignments; AccountsService writes `token_records` when it disables an account
or resets a password; permission and application changes enqueue webhook events
in their own transaction; dispatchers of every process poll the outbox.

## Modules

| Module | Models |
|---|---|
| `Accounts` | rows of `accounts` and the handlers of AccountsService |
| `AccountRaces` | EXTENDS `Accounts` with history: which handlers were overtaken, and what the others keep |
| `RefreshTokens` | `token_records` and the token endpoint; EXTENDS `Accounts` and composes with it: an account handler's revocation step is joined with its effect on tokens |
| `PermissionAssignments` | definitions, assignments and the schema version of a service, the handlers that write them, and the events they enqueue |
| `ServiceApplications` | applications for a higher permission; EXTENDS `PermissionAssignments` and composes with it: an approval locks and writes an assignment like put |
| `PermissionWebhookOutbox` | outbox, subscriptions, dispatchers, manual retries: the life of an event after its enqueueing |
| `EventDelivery` | what the outbox promises of an event, without workers, claims or leases |
| `ServiceSecrets` | what a service owns besides: clients, credentials, subscription, action targets, definitions, as rows with a status, a type and a secret, and the handlers that edit one of them |
| `ServiceOnboarding` | onboarding requests; EXTENDS `ServiceSecrets` and composes with it: an approval creates and edits these rows one after the other, each read and each write a step |
| `NotificationDevices` | devices, consent, and every handler that writes them |
| `NotificationDelivery` | notifications, deliveries and the workers; EXTENDS `NotificationDevices` and composes with it: a send reads consent and devices, a claim reads a device, a rejected token disables one, a purged device takes its deliveries along |
| `NotificationSending` | idempotency keys of sends, their retries, expiry and purge |
| `Registration` | how accounts come into being: signup with its codes, bootstrap with its challenges, an administrator's create |
| `AdminSessions` | the sessions of an administrator: login, validation, logout |
| `HostedLogin` | login transactions, the visits that use them, session cookies, and the code they end in |
| `SigningKeys` | start-up of several processes on one table of keys |
| `MC*` | instances for TLC: symmetry, workloads; `MCParts` holds the last five together |
| `*_proofs` | TLAPS proofs; one module for each composition, `Parts_proofs` for the components of `MCParts` |

### Accounts

`account` holds the committed rows, `call` the local state of each handler.
TypeORM's `save` is two statements: a SELECT (`SaveSelect`) that fixes the
*columns* in which the entity differs from the row, and an UPDATE of exactly
those (`SaveWrite`, `UpdateWrite`). An entity loaded long ago is thus merged
column by column with what others wrote. `update` runs in a transaction: its
write shows at `UpdateCommit` and locks the row until then (`RowFree`). It comes
with a status (`UpdateFind`) or without one (`RenameFind`), and revokes tokens if
the request's status is disabled, whatever the row's was. Passwords
are model values, each standing for its hash; hashing anew always makes the
column differ. A handler may die at any step (`CallCrash`).

What the documentation promises of accounts fails in general: it holds of a
handler that nobody has overtaken. `AccountRaces` records in `behind` whether a
handler's row was written between its load and the SELECT of its save (`load`),
or between that SELECT and its UPDATE (`select`), or whether the set of active
super admins changed (`admins`). Each property names exactly the overtakings it
needs, so each is also a statement of what goes wrong without a transaction: a
temporary password may stay without a pending reset if two other saves overlap
with the reset; a login that loaded its account before an administrator disabled
it makes it active again (but not one overtaken after its SELECT); two updates
may disable the last two super admins. The count of super admins is made only to
disable an active one (line 190): an update may lock the last super admin, with
no overlap at all, and `LastSuperAdminStays` says nothing of that.

### RefreshTokens

`request` is the local state of a request of OidcController. Its path:
`StartRefresh` (holder lookup) - `CheckHolder` - `Consume` (the conditional
UPDATE) or `ConsumeMisses` and `Reread` - `RevokeFamily`, or `FindAccount` -
`IssueTokens`. `ExchangeCode` enters at `FindAccount` with a new family;
`Authorize` and `CreateCode` make codes. `pending` is what an open update
transaction has revoked: locked, and still old to readers. A family, a random
UUID in the code, is named by its first token. The client secret, redirect URI,
PKCE and permission checks fail nondeterministically. Expired rows go with
`CleanupExpiredTokens`; one clock stands for the database's and the processes'.

`lineage`, `doomed`, `killed` and `straddled` are history: guards never read them.

### PermissionWebhookOutbox

`row` is the outbox, with `next_attempt_at` reduced to null, later or due;
`worker` each process's dispatch loop, `retry` each `retryDelivery` call. A
claim token is named by its worker, which has at most one claim and forgets it
when it dies. `BecomeDue` may happen while the worker is still at work: the
request deadline bounds the post, not the statements around it. `Post` either
finds a 2xx or fails, with or without the receiver having seen the event.
`retryDelivery` is `RetryFind`, `RetrySelect`, `RetryWrite`: TypeORM's save again.
`acked`, `tries` and `overtaken` are history.

### NotificationDevices

`device` and `consent` are the committed rows, `call` the handlers at work. A
device is a pair of account and installation, which is unique in the table. A push token is a
model value that is its own fingerprint: `hashtext` of two fingerprints may
collide, which only locks more. `register` is `FindNoPrior` or `FindPrior`
(advisory locks, search), then for a prior owner `DropPrior` (its consent, and
the SELECT of its save) and `WritePrior` (the UPDATE, which locks its row), then
`RegisterWrite` (the UPDATE of the device and the commit). `locked` and `revoked`
are rows the transaction holds. The admin's `disableDevice` is `AdminSelect`,
`AdminWrite`, `AdminRevoke` and has no transaction; `revokeSubscription` is
`RevokeSelect`, `RevokeWrite`. update, remove and `disableInvalidToken` hold the
row of their only device throughout and are one step each. `Saved` is TypeORM's
save; an encrypted token always differs, since each encryption has a new nonce.

Two more simplifications. One service: consent to another lives in other rows
and is revoked by the same statement. And a device disabled for ninety days is
purged, so `Purge` leaves alone a device that a handler has met as a prior owner
or is administering.

`torn` and `leaked` are history: the exceptions `WholeRows` and
`ConsentEndsWithDevice` name are exactly the steps that enter them.

### NotificationDelivery

`worker` is the loop of each process's worker. `Claim` is the one statement of
`claimNext`. The worker then sends outside any transaction. `recordResult` either
finds the claim gone (`Disowned`) or is `Record` and `Commit`. `Record` stands for
the transaction up to the count of `refreshNotificationStatus`, which sees its own
update and what others have committed; what it writes is visible at `Commit`. A
rejected token disables the device in the same transaction: the device's row is
locked before the count and until the commit, and is taken at the commit here,
since nobody else can tell. `stale` says that ten minutes have passed since the
claim: any claim may become stale, its worker dead or at work.

The claim token is named by its worker, which knows only its latest one.
`MaxAttempts` bounds crashes and takeovers: the claim that reaches it is neither
lost nor overtaken, later failures would be its repetition. The purge of old
notifications and attempts is left out.

### PermissionAssignments and ServiceApplications

`assignment` has one row for an account (the table's unique index), `holder` the
transaction that holds its lock, `call` each handler. `PutCheck`, `RevokeStart`:
the checks before the transaction. `LockRow` is SELECT ... FOR UPDATE, which waits
for a row and locks nothing where there is none; `ReadRow` the search after it;
`SelectRow` the SELECT of the save, which matters only for a row that came into
being between the two (a locked row cannot change); `CommitRow` the save with the
event and the commit, or the violation of the index. `firstLogin` inserts in a
transaction of its own and returns the other's row on a conflict. `remove`
(`RemoveCount`, `SaveDefinition`, `Increment`) and `update` have no transaction;
`migrate` has one (`MigrateLock`, `MigrateFind`, `MigrateMove`), after its checks,
and `remove` of a permission that is assigned is a `migrate`. `MigrateMove`'s
UPDATE reads again, as READ COMMITTED does.

`told` is what a service believes that applies the events in the order of their
transactions. That the outbox delivers them is `PermissionWebhookOutbox`'s
matter. Three changes are silent, and `untold` names them: a first login; a save
of a row that appeared after the lock was taken on nothing; a migration that
moved rows it had not found, or did not move rows it had found. The last two are
races.

An application is applied for (`ApplyCheck`, `ApplyFind`, `ApplySelect`,
`ApplyUpdate` or `ApplyInsert`), approved in a transaction that locks application
and assignment (`ApproveLock`, `LockRow`, `ApproveRead`, `SelectRow`,
`ApproveCommit`) or rejected (`Reject`, which writes only the row it locks and is
one step). The applicant's side takes no lock: `ApplyUpdate` saves the application
that `ApplyFind` found pending, and may write over a decision made meanwhile, the
status as well as what was asked for. `rewritten` names such applications, `doubled`
the accounts whose requests overlapped, or whose decided application was put back.
`GrantIsApproved` follows a grant back to the application that explains it, which
only such a save may spoil.

### ServiceSecrets and ServiceOnboarding

An item is a row of one of five tables, reduced to the three columns handlers
disagree about: `status`, the `type` of a client (of a subscription: whether its
secret is generated or comes from the environment), and the `secret`, a number for
each hash ever made. One action per handler loads and edits the entity
(`EditClient`, `RotateCredential`, `SetTargetStatus`, ...); `SaveSelect` and
`SaveWrite` are its save. An insert is guarded by the unique index (`Insert`).
`SavesKeepOthers` says which columns a save may disturb: its own, and others' only
if it was overtaken before its SELECT. So a rotation overlapping with
`setStatus` may restore the old status: the exception is real, and it is the only one.

`create` is `CreateSearch` (no pending request), `CreateFind` (no service) and
`InsertRequest`; `update` is `UpdateFind`, `UpdateSearch`, the save that supersedes
(`DecideSelect`, `DecideWrite`) and `InsertRequest`.

`approve` is `FindPending`, then the service (`FindService`, and `CreateService`,
which the unique index may refuse, or `UpdateService`), then the items in the code's
order (`Turn`, by `Rank`: permissions, clients, credentials, subscription, targets),
each with the statements of the service it calls, then the save of the decision. A
request may ask for its subscription to be off (`OmitSubscription`) and need not name
all targets. Targets are served together: `DisableTargets` (one UPDATE), `FindTargets`,
`ServeTarget` for each, `OmitTargets` (one UPDATE of those read and not named). An
approval may die between any two statements (`Crash`), which also stands for the
checks that throw, and be repeated. `made` and `crossed` are history.

`ConfidentialHasSecret` is about clients, which approvals turn public and
confidential, and about subscriptions, whose secret they may move to the
environment and back.

### NotificationSending

One transaction per send: `SendLock` (the advisory lock), `SendFind` (replay,
conflict, or the removal of an expired record), `SendCheck` (recipient and devices,
plain reads: `allowed` and `eligible` change at any time, `ChangeReach`), `SendCommit`.
`answers` and `sent` are history, of one record of a key; they start anew when it
is replaced or purged. The deliveries that a commit creates are `Send` of
`NotificationDelivery`.

### Registration

`code` is `email_verifications` in order of creation; `FindCode` loads the newest
one that is not consumed and compares, `SelectCode` and `WriteCode` are the save of
its count or consumption, `CreateAccount` what follows `complete`'s. `guesses` and
`passes` count answers, `raced` how often a code was loaded by a request that is to
save it while another was to save it too. The limit of guesses and the single use are
exact without such overlaps; each gives one guess more (`GuessesBounded`) and one
signup more at most (`CodeSpentOnce`), for a second consumption, or a wrong guess's
save that takes a consumption back. A code is valid, then expired, then out of the
window in which `StartSignup` counts it (`AgeCode`). The limit per IP address is left
out: it is one more count before the same insert.

Bootstraps are `StartBootstrap`, `InsertChallenge`, `CompleteBootstrap` (the count of
super admins), `FindChallenge` and `CommitBootstrap`; `overtaken` marks one whose check
another bootstrap's end made untrue.

### AdminSessions

`validateRequest` is `ValidateFind`, `ValidateSelect`, `ValidateWrite`: it saves the
session it loaded, which carries `revokedAt` null. **A logout between the load and the
SELECT of such a save is undone.** `LogoutFinal` states this with its limits: a session
that is logged out comes back only by the save of a validation that was between its
load and its SELECT at that logout; and once it is logged out and no validation of it
is before its SELECT or about to write the null, it stays logged out, whatever follows.

### HostedLogin

A visit is a request that may end in a code; it carries the cookies its browser had
when it was sent. `AuthorizePage` makes a transaction, `Submit*` finds it,
`Authenticate` is AccountsService, `Consume` the DELETE ... RETURNING, `Finish`
the code and the response's cookie. Other tabs log in and out meanwhile (`SetCookie`),
clients and accounts are disabled (`ChangeClient`, `ChangeUser`); `disturbed` names
what changed during the visit itself. No handler with a caller disables a client or a
service; `ChangeClient` is also what an operator does to the row.

### SigningKeys

`stored` numbers the keys in order of creation, `process` says what each process
has read. A process that loses the race to create the first key signs with its own
and does not know the other's: `behind`, until it is restarted.

## Runs

Passing runs:

| Run | Bounds | Shows |
|---|---|---|
| `accounts` | 2 super admins, 2 passwords, 2 handlers, all operations | `TempPasswordForcesReset`, `LastSuperAdminStaysAlone`, `DisabledUntilUpdated`: only overtaken handlers break the promises |
| `rotation` | 2 clients, 2 requests, 2 tokens, 1 code, time 0..2, grace 1 | `FamilyHomogeneous`, `SingleUse`, `ReplayWindow`, `ForkOnlyByReplay`: a rotation that dies before its insert leaves a token for the replay, two in flight reach the limit |
| `revocation` | 1 account, 1 admin handler, 2 tokens, 2 requests | `OnlyStraddlersSurvive` against reset, disabling transaction, reuse |
| `outbox` | 1 event, 2 types, 2 workers, 1 retry, 2 attempts | safety, the refinement of `EventDelivery`, and `Settles` with crashes and after manual retries |
| `devices` | 2 devices of one account, 2 tokens, 2 handlers | `FingerprintUnique`, `WholeRows`, `ConsentEndsWithDevice` against every handler |
| `delivery` | 1 notification, 2 devices, 2 tokens, 1 handler (register, optIn), 2 workers, 1 retry, 2 attempts | the notification's status, attempt numbers, final outcomes and rejected tokens with slow and dying workers |
| `delivery_settles` | 1 notification, 1 device and token, every device handler but the administrator's, 2 workers, 1 retry, 3 attempts | `Settles`, through crashes, takeovers and purges |
| `permissions` | 1 account, 4 keys, 2 applications, 2 handlers, 1 change of the schema version, 6 workloads | `FeedTellsGrants`, `OnePending`, `GrantIsApproved`, `ApprovalsRaise` |
| `onboarding` | 3 requests, 2 items, 2 handlers, 2 secrets per row, 10 workloads | `OneOpenRequest`, `ApprovedIsProvisioned`, `SavesKeepOthers`, `ConfidentialHasSecret` |
| `parts` | 3 processes; 1 session, time 0..4; 2 browsers, 2 accounts, 1 transaction; 1 key, 2 payloads, 2 devices; 2 emails, 2 codes of which one in a window, 2 guesses, 2 overlaps, 2 challenges; 2 requests each | `KeysKnown`; `LogoutFinal`; `OneCodePerTransaction`, `CodeFollowsSession`; `OneAnswerPerKey`; `GuessesBounded`, `CodeSpentOnce`, `BootstrapOnce` |

Each of `permissions`, `onboarding` and `parts` also checks its modules' type invariants.

Runs that end in a counterexample, each to a sentence of the documentation, a
comment or a test (quoted in PROJECT.json):

| Run | What overlaps |
|---|---|
| `accounts_last` | two updates that disable two different super admins, each after counting two |
| `reuse_revokes_family` | a rotation between consume and insert, and a reuse |

The exceptions that properties name are further such disagreements, stated
positively. One has no property: a registration whose save read the device's
row just before another handler disabled it writes only the columns that differ
and leaves the device disabled with a token and no fingerprint (`torn` in
`NotificationDevices`), though docs/notifications.md says that registering again
rotates the token.

`permissions` and `onboarding` bind the operations of a behaviour by a *workload*,
chosen in the initial state: a set of operations (and kinds of rows) that run
together. Operations that interfere meet in some workload, and the handlers with a
caller in this repository meet without the others (the first workload of
`permissions`, which alone has two permissions to apply for; all but the first of
`onboarding`). The pairs that do not meet repeat one that does (an approval checks its
definition as a put does), or cannot hurt (a revocation leaves one assignment less
than a removal counted). An unbounded mixture of all of them with two handlers
differs only in what the first has left behind before the second begins.
`parts` likewise chooses one of five components in the initial state and never
changes it: the components share no variable, so the run is their sum and not
their product.

Why the bounds are enough: the token properties speak of two requests and of one
token or family, so two requests and two or three tokens show every pair; time
runs just past the grace window and past expiry. A second attempt is the least
that distinguishes "the last attempt" from "an attempt", and a second worker the
least that has a stale one. Two handlers and two devices show every pair of
overlapping writes to a device and a token moving both ways; two deliveries are
what a notification's status adds up, and two workers one slow and one that took
over, or two that record at the same time. An assignment's row concerns one
account, whose handlers race; one account and four keys (visitor, super admin,
two more) show every move between keys, and an application for either. Two emails are two bootstraps; two codes
one that supersedes another; three processes one that is behind two others. That
larger instances are no different is, for safety, what the proofs show. Clock,
tokens, codes, requests, attempts, secrets and schema versions are bounded by the
constants `MaxTime`, `LastTime`, `Token`, `Code`, `Request`, `MaxAttempts`,
`MaxSecret`, `MaxVersion`, `MaxCodes`, `MaxRaced`, `MaxCode`, `MaxKey` and by nothing
else. Where a bound or a workload's last operation may end a behaviour, the run
does not check deadlock.

### Handlers without a caller

Some public methods are called by nothing in this repository but their tests:

- `AccountPermissionsService.put` and `revoke`, and `PermissionsService.update`,
  `deprecate`, `remove` and `migrate`: the admin controllers only list assignments and
  definitions;
- `OidcClientsService.rotateSecret`;
- `ServiceOnboardingService.assertManualCoreSpecEditAllowed`, which only reads.

`OidcClientsService.create` and `update`, `ServiceCredentialsService.create` and
`PermissionsService.create` are called by approvals of onboarding requests alone, and
so are `ServiceRegistryService.create` and `update`, the latter always with the status
active. docs/admin-api.md:113 says that administrators may disable services and
clients; nothing here does.

The models contain the handlers without a caller, so that what is proved still holds
once they get one, and keep them apart, in workloads of their own. What only they can
do wrong is not a hazard of this program and not on the list of hazards: a `put` that
checked its definition before a `remove`, a save of an assignment that appeared after
the lock was taken on nothing, a migration that races with a grant. The two latter are
the exceptions of `FeedTellsGrants` other than the first login.

### Fairness

The outbox and the deliveries have liveness properties. `FairSpec` of the outbox
assumes: time passes (WF of
`BecomeDue`); every process polls and its loop moves (WF of `Dispatch`), since
`setInterval` restarts a loop that ended and a dead process is restarted; and an
event that can be claimed again and again is claimed (SF of the claim), since the
claim takes the row that has been due longest and `SKIP LOCKED` skips only rows
being claimed. Nothing is assumed of receivers, subscriptions, crashes
(`WorkerFails`) or administrators. `Settles` is conditional: the service must stay
subscribed, as an inactive service's events wait by design, and retries must end.

`FairSpec` of `NotificationDelivery` assumes the same of time (`BecomeDue`,
`BecomeStale`) and of the claim (`ORDER BY next_attempt_at`, SF), that a worker
which can finish its step again and again does so (SF of `WorkerStep`: it fails
now and then, not each time, and waits for row locks that are released), and that
handlers end (WF). Nothing is assumed of the provider's answers.

## Proofs

For every value of the constants, from the named assumptions of the modules
(`DurationAssumption`, `DistinctAssumption`, `MaxAttemptsAssumption`,
`NoReasonAssumption`, `UnsetAssumption`, ...: numbers are naturals, names of
different things differ, `None` is not a value of a column). Every safety property
of the passing runs is stated by a theorem, which holds for
any number of actors and rows, any set of workloads and any bound on the counters.
Hardly any property is inductive: an invariant adds what handlers carry between
their statements, and each such strengthening was model-checked before it was proved.

- `Accounts_proofs`: type correctness. A handler at work has an account.
- `AccountRaces_proofs`: `TempPasswordForcesReset`, `LastSuperAdminStaysAlone`,
  `DisabledUntilUpdated`. `RaceInv` says what the entity of a handler is that nobody
  has overtaken: what its operation makes of the row as it is (`Derived`), the
  columns it will not write included (`Complete`). A status that was not overtaken
  before the SELECT is not written at all (`StatusInv`), and a handler about to
  disable a super admin has counted another (`AdminInv`).
- `RefreshTokens_proofs`:
  - type correctness, and that the composition implements `Accounts`: each step is a
    step of `AccountNext` or leaves accounts alone;
  - `SingleUse`, `ReplayWindow`, `FamilyHomogeneous`. `RotationInv` adds where grants
    come from (an issued token's origin is an issued token of its family or a deleted
    code), when they were honoured (first uses at `usedAt`, replays within the grace of
    it), and that no time lies in the future;
  - `ForkOnlyByReplay`. `ForkInv` counts requests that hold a grant of the family with
    its tokens, on both sides: a rotation takes an active token off and puts itself in
    its place, a replay adds one to both;
  - `OnlyStraddlersSurvive`. `RevocationInv` covers the interval the property is blind
    to: tokens an open transaction has revoked but not committed (`Dying`), and which
    families it will kill.
- `PermissionWebhookOutbox_proofs`: type correctness (attempts stay in range),
  `ClaimImpliesPending`, `TriesBounded`, `ExhaustedAfterAllTries` and the
  refinement. `Sound(e)` ties each event's row to its history: claims made equal
  attempts counted until a retry overlaps. It also gives `PendingIsScheduled`, which
  no run checks by itself: a pending event always has the time of its next attempt,
  so none is forgotten, and a settled one has none unless a retry overlapped. The
  refinement maps `outcome` to the row's status and `asked` to the retries at work;
  `Sweep` and `Reschedule` give up, `RecordDelivered` delivers (it owns its claim,
  hence the row is pending), everything else is a step of the same name or a stutter.
- `NotificationDelivery_proofs`, of `NotificationDevices`: type correctness,
  `FingerprintUnique`, `WholeRows`, `ConsentEndsWithDevice`. `CallInv` says what a
  handler carries and what its locks exclude: one registration per device and per
  token (`Exclusive`), one holder per row lock, and a prior owner about to be written
  is locked (`LocksExclusive`). For fingerprints, `OnlyPriorHolds`: while a token is
  being registered nobody holds it but the device and the prior owner whose save will
  take it away. For consent, `ConsentInv` follows the revocation inside an open
  transaction: until it commits, the prior owner's consent is held (`revoked`), absent,
  or given late.
- `NotificationDelivery_proofs`, of `NotificationDelivery`:
  - type correctness, and that every step is one of `DeviceNext` or leaves the
    devices alone, by which the device theorems hold of the whole;
  - `AttemptNumbersUnique`, `SettledStays`. `WorkInv` adds that a worker whose claim is
    on its delivery has the latest attempt number (`ClaimsTell`), that one about to
    commit still has its claim (`CommitsOwn`, the row lock), and that recorded attempts
    precede the present claim (`Numbered`);
  - `RejectionHitsItsToken`. `AimInv` joins `WorkInv` with the device invariants
    `WholeInv` and `MatchInv` (a token and a fingerprint in one row, even a torn one, are
    of one token), so that a claim reads a token with its own fingerprint (`Aims`);
  - `StatusFollowsDeliveries`. `StatusInv` compares the verdict a transaction counted
    with the one a count would find now: a verdict about to be written is still right,
    and one not reached is still out of reach unless another transaction overlaps
    (`VerdictsHold`), in which case both are known to (`OverlapsKnown`).
- `ServiceApplications_proofs`: type correctness of it and of
  `PermissionAssignments`, `FeedTellsGrants`, `OnePending`, `GrantIsApproved`,
  `ApprovalsRaise`. `PermissionInv` says that a row read under its lock is the row still
  (`Reads`), and that of requests that do not overlap one inserts (`Applications`).
  `Respects` is what a step of one handler leaves of another's reads; it is proved of
  each action once. `GrantsInv` adds for `GrantIsApproved` that an approval that has
  read its application holds its lock and still finds it pending (`Reviewing`), and that
  what a revocation may write back is justified like what is there (`Grants`).
- `ServiceOnboarding_proofs`: type correctness of it and of `ServiceSecrets`,
  `OneOpenRequest`, `ApprovedIsProvisioned`, `SavesKeepOthers`, `ConfidentialHasSecret`.
  `OnboardingInv`: a save writes what its handler edited unless it was overtaken before
  its SELECT (`Editing`); what an approval has no longer left to do is the service's own
  or being made (`Serving`), which no crash undoes, so a repetition may skip it;
  and what is pending now and was not when a request was looked for is marked (`Searching`).
- `Parts_proofs`, one invariant for each component of `parts`, of which
  `PartsTypeCorrect` says that they stand side by side:
  - `KeyInv`: a running process that is not behind knows all stored keys, and its
    active key is one of them (`KeysKnown`).
  - `SessionInv`: a validation whose session is revoked before its SELECT, or whose
    UPDATE will set `revokedAt` to null, was overtaken by the logout, and none loads a session that
    is revoked (`LogoutFinal`);
    no idle time in a row or in a request's hands exceeds the last acceptance by
    more than `IdleTime` (`IdleSessionsEnd`, which no run checks).
  - `LoginInv`: a visit past `consume` is the only claim on its transaction, whose row
    is gone and has made no code yet (`Claims`), and what a visit checked still
    holds or the visit is marked (`OneCodePerTransaction`, `CodeFollowsSession`).
  - `SendingInv`: who found no valid record holds the key's lock, so there is none
    until it commits (`OneAnswerPerKey`).
  - `BootstrapInv`: while a super admin exists, every bootstrap past its check was
    overtaken by another (`BootstrapOnce`).
  - `SavesInv`: the requests that are to save a code are charged to it together with its
    guesses; neither the row's count nor the count that any of them carries is behind
    the charge by more than the code was raced (`GuessesBounded`). The signups a code let
    through and the requests that are to save it are one more than it was raced at most;
    while there is no such request and the code is not consumed, the signups are no more
    than it was raced (`CodeSpentOnce`).

Only model-checked: `Settles` in both modules, since liveness under fairness is out
of the prover's reach, and the two sentences of the documentation that the last runs
refute.

## Plan

All components that the plan of the first version named are modelled, and all the
theorems that it named are proved. Left:

1. A property of how often an onboarding request is decided: two administrators who
   both found it pending both save a decision, and the later one stays. The model
   has the behaviour; `ApprovedIsProvisioned` is what holds of it.
2. The composition of `PermissionAssignments` with the outbox: `told` as the
   sequence of events a subscriber was delivered. The outbox promises no order
   between events, so it would show what a subscriber that ignores versions may believe.
3. Authentication with a service credential while it is rotated or disabled.

## Not modelled

Access and ID tokens are signed values with no state. Audit logs are written and
never read back by a handler. SMTP, HTTP, DNS and cryptography appear as outcomes.
Listings, pages, DTO validation and migrations hold no state of their own; the
inbox's marks are single UPDATEs that no other handler reads. The rate limits of
signup per IP address and of public onboarding requests are counts read before an
insert: they bound how often something may be started, and nothing depends on the
bound. The
purge of old notifications and attempts removes what no handler reads again. The
subscription's secret and URL are not in the outbox model but in `ServiceSecrets`;
its handlers' load and save are one step in the outbox, which adds no row state
there: every combination of status and types is reachable anyway.
